SPECIFICATION Spec
CONSTANTS
  w1 = w1
  w2 = w2
  k1 = k1
  k2 = k2
  None = None
  Workers = {w1, w2}
  Keys = {k1, k2}
  Threshold = 1
  Cooldown = 1
  Pins = {k1}
INVARIANT PinBypassesFilter
