SPECIFICATION JobsSpec
CONSTANTS
  r1 = r1
  r2 = r2
  r3 = r3
  r4 = r4
  post = post
  reel = reel
  Requests = {r1, r2, r3}
  Briefs = {post, reel}
  Reels = {reel}
  Cost <- EqualCost
  RunCap = 2
  DayCap = 2
  MaxConcepts = 2
  MaxTries = 2
  MaxInFlight = 1
  MaxStops = 1
SYMMETRY Symmetric
CHECK_DEADLOCK FALSE
INVARIANTS
  StatusBackedByConcepts
  ReelRenderedOnRequest
  AssetsAreServable
  AssetsCommitTogether
  SuccessIsComplete
  IInv
