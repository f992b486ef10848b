SPECIFICATION Spec
CONSTANTS
  w1 = w1
  w2 = w2
  w3 = w3
  k1 = k1
  k2 = k2
  k3 = k3
  None = None
  Workers = {w1, w2, w3}
  Keys = {k1, k2, k3}
  TTL = 2
SYMMETRY Symmetry
INVARIANTS
  TypeOK
  StickyKeyIsStored
  SelectedIsUsable
