SPECIFICATION Spec
CONSTANTS
  u1 = u1
  u2 = u2
  NULL = NULL
  Users = {u1}
  PrerollWindows = 2
  EndpointWindows = 3
  MinWindows = 2
  MaxWindows = 5
  TailWindows = 1
INVARIANT ShortNoiseIsDiscarded
