SPECIFICATION Spec
CONSTANTS
  Nothing = Nothing
  Requests = {1, 2, 3, 4, 5}
  MaxInFlight = 3
  OtpMaxAttempts = 2
  Users = {"ann", "ben"}
  Founder = "ann"
  AskedSteps = {1, 3, 4}
  Companies = {1, 2}
  Home = 1
  SubProducts = {"s1", "s2"}
  Scenes = {"codes", "company", "members", "access"}
CHECK_DEADLOCK FALSE
INVARIANTS
  TypeOK
  SecretsAreSingleUse
  GuessesBounded
  NewCodeReplacesOld
  DecisionIsWhole
  OnboardingKeepsSteps
  AdminsLostByOverlap
  ProductMembersBelong
  ToldIsSo
