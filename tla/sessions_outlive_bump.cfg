SPECIFICATION Spec
CONSTANTS
  r1 = r1
  r2 = r2
  r3 = r3
  r4 = r4
  r5 = r5
  r6 = r6
  Requests = {r1, r2, r3, r4, r5}
  MaxInFlight = 3
SYMMETRY Symmetric
CHECK_DEADLOCK FALSE
INVARIANT NoSessionOutlivesBump
