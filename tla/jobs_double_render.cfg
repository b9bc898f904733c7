SPECIFICATION Spec
CONSTANTS
  r1 = r1
  r2 = r2
  r3 = r3
  r4 = r4
  post = post
  reel = reel
  Requests = {r1, r2, r3}
  Briefs = {post, reel}
  Reels = {reel}
  Cost <- EqualCost
  RunCap = 2
  DayCap = 3
  MaxConcepts = 1
  MaxTries = 2
  MaxInFlight = 2
  MaxStops = 2
SYMMETRY Symmetric
CHECK_DEADLOCK FALSE
INVARIANT RenderAcceptedOnce
