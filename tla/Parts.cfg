SPECIFICATION PartsSpec
CHECK_DEADLOCK FALSE
CONSTANTS
  Connection = {k1, k2, k3}
  NoConnection = none
  MaxManagers = 2
  MaxGiven = 3
  MaxInt = 7
  FirstIndices <- MCFirstIndices
  Call = {c1, c2, c3}
  Foreign = {c3}
  Action = {"Get", "Set"}
  Method = {"Get", "Set", "Other"}
  Lowered <- MCLowered
  Invokable = {"get"}
  InNames <- MCInNames
  OutNames <- MCOutNames
  ArgumentSets = {{"x"}, {"z"}}
  Results <- MCResults
  NullResult = null
  null = null
  HookCodes = {0, 701}
  FailureCodes = {501}
  Described = {"Get"}
  FileSize = {0, 1, 4}
  BytePos = {0, 1, 7}
  BlockSize = 2
  Service = {s1, s2, s3}
  s1 = s1
  s2 = s2
  s3 = s3
  UrlsOf <- MCUrlsOf
  Name = {"tv set", "tvset", "tv"}
  WithoutBlanks <- MCWithoutBlanks
  NameLength <- MCNameLength
  Suffix = {"x"}
  MaxStarts = 2
  MaxServices = 2
  Process = {p1, p2}
  Section <- MCSection
  Parameter <- MCParameter
  Value = {"v"}
  McVar = {"a", "b"}
  McVarSeq <- MCMcVarSeq
  McValue = {"v", "u<"}
  Default <- MCDefault
  Unset = "number"
  Wide = {"umlaut"}
  ReadAs <- MCReadAs
  Others <- MCOthers
  MaxReadings = 2
  MaxSent = 10
  McSeqMax = 7
  Address = {b1, b2, b3}
  NoAddress = nobody
  StatusCode = {102, 103, 200, 208, 307, 308, 418, 419, 422, 427, 507, 508, 510}
  HeaderKey = {"usn", "st"}
  Spelling = {"upper", "lower"}
  HeaderValue = {" w", "w", ""}
  Trimmed <- MCTrimmed
  Path <- MCPath
  Reason <- MCReason
  Version <- MCVersion
  PlaceMarker <- MCPlaceMarker
  MaxValues = 2
  VarText = {"", "-1", "2", "abc"}
  NumberIn <- MCNumberIn
  NotNumber = 99
  DataTypeName = {"ui4", "int", "boolean", "string"}
  Convertible = {"UInt", "Int", "String", "Bool"}
  MaxUInt = 3
  MaxInt32 = 3
  MaxAllowed = 1
  Settable = {"manufacturer", "modelName"}
  DocText = {"v"}
  IconUrl = {"u", "w"}
  ForeignDocuments <- MCForeignDocuments
  MaxIcons = 2
  MaxEmbedded = 2
  MaxDownloads = 2
  Scpd <- MCScpd
  ActionName = {"Get", "Set"}
  ArgumentAdded <- MCArgumentAdded
  MaxScpd = 2
  MaxActionsGiven = 5
  SoapText <- MCSoapText
  MethodName = {"m"}
  Argument <- MCArgument
  HeaderItem <- MCHeaderItem
  FaultDetail <- MCFaultDetail
  NumberTypes = {"Int"}
  NumberText = {"1"}
  FaultCodes = {"Client", "Server"}
  ForeignMessage <- MCForeignMessage
  MaxBuilt = 2
  MaxFaultItems = 3
  Shape <- MCShape
  Item <- MCItem
  ArrayDocument <- MCArrayDocument
  Position = {0, 1, 3}
  Stray <- MCStray
  MaxItems = 2
  MaxIndex = 4
  Message <- MCMessages
  MaxMessages = 2
  KnownUdn = {"u1", "u2", "u3"}
  NoUdn = ""
  WithIcons = {"u1"}
  Separated = {"u3"}
  TypesOf <- MCTypesOf
  ActionsOf <- MCActionsOf
  ArgumentsOf <- MCArgumentsOf
  TvUdn = {"u1", "u2", "u3"}
  TvOperations = "tvOps"
  MaxObjects = 2
  MaxLogged = 1
  Application = {g1, g2}
  Loopback = "127.0.0.1"
  Interfaces <- MCInterfaces
  RandMax = 7
  Rand <- MCRand
  FirstPort = 4
  LastPort = 7
  PortModulus = 8
  MaxRuns = 2
INVARIANTS
  PartsTypeOK
  ExclusiveSessions
  RingSpreads
  NewestCallReported
  RunsAsAsked
  ContentDelivered
  PictureTrue
  SharedConfig
  MulticastTrue
  MessagesKept
  HeaderTravels
  ValueAllowed
  FoundAsDescribed
  ServiceAsDescribed
  MessageTravels
  ArrayHolds
  ExamplesTrue
  PortWasFree
  AnswersMatch
PROPERTIES
  CallsReported
  WritingEnds
  SessionAnswered
