SPECIFICATION Spec
CONSTANTS
  r1 = r1
  r2 = r2
  r3 = r3
  m1 = m1
  m2 = m2
  m3 = m3
  w1 = w1
  None = None
  Requests = {r1, r2}
  Streams = {}
  Cancellable = {}
  Msgs = {m1, m2}
  Slots = {w1}
  BufferSize = 1
  MaxQueues = 2
  MaxOps = 1
  CreateMayFail = FALSE
  KeyMayFail = FALSE
INVARIANT NoSendOnClosedChannel
CHECK_DEADLOCK FALSE
