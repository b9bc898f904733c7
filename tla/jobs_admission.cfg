SPECIFICATION AdmissionSpec
CONSTANTS
  r1 = r1
  r2 = r2
  r3 = r3
  r4 = r4
  post = post
  reel = reel
  Requests = {r1, r2, r3, r4}
  Briefs = {post, reel}
  Reels = {reel}
  Cost <- UnequalCost
  RunCap = 2
  DayCap = 4
  MaxConcepts = 1
  MaxTries = 2
  MaxInFlight = 2
  MaxStops = 0
SYMMETRY Symmetric
CHECK_DEADLOCK FALSE
INVARIANTS
  DuplicatesOverlap
  SpendOvershootBounded
