SPECIFICATION SpecEventing
SYMMETRY Symmetry
VIEW View
CONSTANTS
  Sid = {s1, s2}
  Var = {a}
  Evented = {a}
  Multicast = {}
  Val = {0, 1}
  InitVal = 0
  NoVal = NoVal
  NoVar = NoVar
  Url = {p1, p2}
  Proxy = {p1, p2}
  NoProxy = NoProxy
  NoSid = NoSid
  NoHeader = NoHeader
  Seconds = {1}
  MaxAge = 1
  SeqMax = 2
  MaxRequests = 3
  MaxEvents = 1
INVARIANTS
  TypeOKEventing
  SidFromOwnSubscribe
  NewestProxyCurrent
PROPERTIES
  SidNeverGoesBack
  CancelsOwn
