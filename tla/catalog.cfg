SPECIFICATION Spec
CONSTANTS
  Requests = {1, 2, 3, 4, 5}
  MaxInFlight = 3
  Nothing = Nothing
  Callers = {"product_manager", "creator"}
  FirstPolicy = "product_manager_approval"
  AskedPolicies = {"no_approval", "product_manager_approval"}
  Profiles <- OneRenamed
  NameLists <- CareTwice
  NewNames <- CareNames
  ImageTypes = {"png", "jpg"}
  Limit = 2
  Window = 2
  LastTick = 6
  MaxHits = 6
  MaxItems = 3
  MaxAttempts = 4
  Pages = {"p1", "p2"}
  GraphVersions = 2
  MaxBusinesses = 1
  Setups = {"meta", "auth0", "auth0_only"}
  MaxListed = 2
  NoToken = NoToken
  Scenes = {"review", "accounts", "tree", "brand", "limit", "gate", "login"}
INVARIANTS
  TypeOK
  PublishedWasApproved
  RejectionStands
  AccountsOutliveByOverlap
  OneRowPerExternal
  ConnectedMeansConnected
  NamesAreFound
  UploadedLogoShows
  LimitIsExact
  AcceptedWasCleared
  RevisionsKeepTheirSlot
  ExpiryIsTheTokens
  PostsGoToTheirPage
CHECK_DEADLOCK FALSE
