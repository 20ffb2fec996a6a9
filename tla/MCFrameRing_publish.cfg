SPECIFICATION Spec
CONSTANTS
  t1 = t1
  t2 = t2
  c1 = c1
  c2 = c2
  Meta = 1
  Capacity = 9
  Contents = {c1, c2}
  Requests <- ModelRequests
  Ticks = {t1, t2}
  Checks = {TRUE, FALSE}
  MaxJobs = 3
SYMMETRY Interchangeable
INVARIANTS
  ValidIsWhole
  PointerIsOneBundle
  VerifiedIsPublished
CHECK_DEADLOCK FALSE
