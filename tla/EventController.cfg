SPECIFICATION Spec
SYMMETRY Symmetry
CONSTANTS
  Sid = {s1, s2, s3}
  Var = {a, b}
  Evented = {a, b}
  Multicast = {}
  Val = {0, 1}
  InitVal = 0
  NoVal = NoVal
  NoVar = NoVar
  Url = {u}
  NoHeader = NoHeader
  Seconds = {1}
  MaxAge = 1
  SeqMax = 2
INVARIANTS
  TypeOK
  SubscriptionsConsistent
  SubscribersCurrent
PROPERTIES
  EndedStaysEnded
  PublisherSpec
