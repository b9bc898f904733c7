SPECIFICATION Spec
CONSTANTS
  Requests = {1, 2, 3, 4, 5}
  MaxInFlight = 3
  Nothing = Nothing
  Callers = {"product_manager", "creator"}
  FirstPolicy = "no_approval"
  AskedPolicies = {"one_approver"}
  Profiles <- OneRenamed
  NameLists <- CareTwice
  NewNames <- CareNames
  ImageTypes = {"png", "jpg"}
  Limit = 2
  Window = 2
  LastTick = 6
  MaxHits = 6
  MaxItems = 3
  MaxAttempts = 4
  Pages = {"p1", "p2"}
  GraphVersions = 2
  MaxBusinesses = 1
  Setups = {"meta", "auth0", "auth0_only"}
  MaxListed = 2
  NoToken = NoToken
  Scenes = {"gate"}
CHECK_DEADLOCK FALSE
INVARIANTS
  NeverASilentPass
