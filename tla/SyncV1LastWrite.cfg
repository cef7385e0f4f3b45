SPECIFICATION Spec
CONSTANTS
  None = None  Empty = Empty  Space = Space
  a = a  b = b  ta = ta  tb = tb  tc = tc
  a1 = a1  a2 = a2  a3 = a3  b1 = b1  b2 = b2  b3 = b3  w1 = w1  w2 = w2  item = item
  Device = {a, b}  Tab = {ta, tb}  DeviceOf <- TabDevice
  OpId = {a1, a2, a3, b1, b2, w1, w2}  Payload = {a1, a2, a3, b1, b2, w1, w2}
  Entity = {item}  Kind <- OneTask  Parent <- NoParent  Creator <- CreatedByA
  Invalid = {}  Unlink <- Same
  Draws <- TwoTwo  Edits = {"create", "update"}  Picks = {"keep_local", "keep_remote", "merge", "dismiss"}  LifecycleId = {}
  PushLimit = 2  PageLimit = 2  MaxLate = 1  MaxEpoch = 0
INVARIANT NoLastWriteWins
