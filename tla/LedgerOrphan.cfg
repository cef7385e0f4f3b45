SPECIFICATION Spec
CONSTANTS
  None = None  Empty = Empty  Space = Space
  a = a  b = b  a1 = a1  a2 = a2  a3 = a3  b1 = b1  b2 = b2  b3 = b3
  c1 = c1  c2 = c2  c3 = c3  d1 = d1  d2 = d2  d3 = d3
  e1 = e1  e2 = e2  e3 = e3  f1 = f1  f2 = f2  f3 = f3  w1 = w1
  topic = topic  link = link  quiz = quiz  task = task  paper = paper
  p = p  q = q  rb = rb  bad = bad  pLinked = pLinked
  Device = {a, b}
  OpId = {a1, a2, a3, b1, b2, b3, w1}
  OnlineId = {w1}  Capable = {a, b}
  Entity = {topic, quiz, link, task, paper}  Kind <- TheKinds  Parent <- TheParents
  Payload = {p, bad, pLinked}  Invalid = {bad}  Unlink <- Same
  Requests <- CascadeRequests
  DirectKinds = {"quiz_item"}  MaxBatch = 1  MaxEpoch = 0  MaxVersion = 2
INVARIANT ReferencesAreLive
