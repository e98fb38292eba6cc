SPECIFICATION FairSpec
CONSTANTS
  Sid = {s1, s2}
  Var = {a, b}
  Evented = {a}
  Multicast = {a}
  Val = {0, 1}
  InitVal = 0
  NoVal = NoVal
  NoVar = NoVar
  Url = {u}
  NoHeader = NoHeader
  Seconds <- MCSeconds
  MaxAge = 1
  SeqMax = 2
PROPERTIES
  AnswersTellEffects
  MulticastKeysInStep
  LapsedLeave
