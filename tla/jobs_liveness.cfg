SPECIFICATION FairSpec
CONSTANTS
  r1 = r1
  r2 = r2
  r3 = r3
  r4 = r4
  post = post
  reel = reel
  Requests = {r1, r2}
  Briefs = {post, reel}
  Reels = {reel}
  Cost <- EqualCost
  RunCap = 2
  DayCap = 4
  MaxConcepts = 1
  MaxTries = 2
  MaxInFlight = 1
  MaxStops = 2
CHECK_DEADLOCK FALSE
INVARIANTS
  TypeOK
  RunningIsOwned
PROPERTIES
  MessagesAreFinished
  NoJobRunsForever
  ImplementsJobBoard
