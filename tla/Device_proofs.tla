---------------------------- MODULE Device_proofs ----------------------------
(***************************************************************************)
(* Proofs about what a device and an application have to themselves: the   *)
(* values the state variables take, the port that is announced, the        *)
(* configuration in its file, the document a device describes itself with, *)
(* the values it announces by multicast, and the picture of it that its    *)
(* description leads to.                                                   *)
(***************************************************************************)
EXTENDS VariableValues, NetworkAddress, Config, DeviceDocument, Multicast, Description,
        Induction_proofs, SequenceTheorems, FiniteSetTheorems

-----------------------------------------------------------------------------
(* VariableValues *)

\* The attributes are texts, which is what lets them be compared as numbers; every value
\* was proper; and the last one told is the one there is.
ValuesInv ==
  /\ cell \in [sendEvents : BOOLEAN, dataType : DataTypeName \cup {""}, minimum : VarText,
               maximum : VarText, allowed : SUBSET VarText, value : VarText \cup {Number}]
  /\ lastTold \in VarText \cup {Number}
  /\ proper = TRUE /\ hushed \in BOOLEAN
  /\ ~hushed => lastTold = cell.value

\* A text that is no number of the type reads as 0, which is one of every type.
LEMMA ToNumberIsNumber ==
  ASSUME NEW type, NEW text \in VarText
  PROVE  /\ ToNumber(type, text) \in Int
         /\ NumberIn[text] # NotNumber /\ Holds(type, NumberIn[text]) => ToNumber(type, text) = NumberIn[text]
         /\ ~(NumberIn[text] # NotNumber /\ Holds(type, NumberIn[text])) => ToNumber(type, text) = 0
<1>1. NumberIn[text] = NotNumber \/ NumberIn[text] \in Int
  BY ValuesAssumption
<1>2. CASE NumberIn[text] # NotNumber /\ Holds(type, NumberIn[text])
  <2>1. ToNumber(type, text) = NumberIn[text]
    BY <1>2 DEF ToNumber
  <2> QED
    BY <1>1, <1>2, <2>1
<1>3. CASE ~(NumberIn[text] # NotNumber /\ Holds(type, NumberIn[text]))
  <2>1. ToNumber(type, text) = 0
    BY <1>3 DEF ToNumber
  <2> QED
    BY <1>3, <2>1
<1> QED
  BY <1>2, <1>3

\* What passes the comparison of the code is within the limits, whatever is left out of
\* them or is no number.
LEMMA ValidWithinLimits ==
  ASSUME NEW c, c.minimum \in VarText, c.maximum \in VarText,
         NEW text \in VarText, Validate(c, text)
  PROVE  WithinLimits(c, text)
<1> DEFINE type == TypeOf(c.dataType)
           IsNumber(t) == NumberIn[t] # NotNumber /\ Holds(type, NumberIn[t])
<1>1. type = "String" => c.allowed = {} \/ text \in c.allowed
  BY DEF Validate
<1>2. ASSUME type \in {"UInt", "Int", "Double"}, IsNumber(c.minimum), IsNumber(c.maximum)
      PROVE  LET n == IF IsNumber(text) THEN NumberIn[text] ELSE 0
             IN NumberIn[c.minimum] <= n /\ n <= NumberIn[c.maximum]
  <2>1. c.minimum # "" /\ c.maximum # ""
    BY <1>2, ValuesAssumption
  <2>2. InRange(c, text)
    BY <2>1, <1>2 DEF Validate, Unbounded
  <2>3. /\ ToNumber(type, c.minimum) <= ToNumber(type, text)
        /\ ToNumber(type, text) <= ToNumber(type, c.maximum)
    BY <2>2 DEF InRange
  <2>4. /\ ToNumber(type, c.minimum) = NumberIn[c.minimum]
        /\ ToNumber(type, c.maximum) = NumberIn[c.maximum]
    BY <1>2, ToNumberIsNumber
  <2>5. ToNumber(type, text) = IF IsNumber(text) THEN NumberIn[text] ELSE 0
    BY ToNumberIsNumber
  <2> QED
    BY <2>3, <2>4, <2>5
<1> QED
  BY <1>1, <1>2 DEF WithinLimits

LEMMA ValuesStep == ValuesInv /\ [ValuesNext]_valueVars => ValuesInv'
<1> SUFFICES ASSUME ValuesInv, [ValuesNext]_valueVars
             PROVE  ValuesInv'
  OBVIOUS
<1>1. CASE UNCHANGED valueVars
  BY <1>1 DEF ValuesInv, valueVars
<1>2. CASE ClearCell
  BY <1>2, ValuesAssumption DEF ClearCell, ValuesInv
<1>3. ASSUME NEW text \in VarText, SetCell(text)
      PROVE  ValuesInv'
  <2>1. proper' = TRUE
    BY <1>3, ValidWithinLimits DEF SetCell, ValuesInv, WithinLimits
  <2>2. cell' \in [sendEvents : BOOLEAN, dataType : DataTypeName \cup {""}, minimum : VarText,
               maximum : VarText, allowed : SUBSET VarText, value : VarText \cup {Number}]
    BY <1>3 DEF SetCell, ValuesInv
  <2>3. cell'.value = text
    BY <1>3 DEF SetCell, ValuesInv
  <2>4. lastTold' \in VarText \cup {Number} /\ hushed' \in BOOLEAN /\ (~hushed' => lastTold' = cell'.value)
    BY <1>3, <2>3 DEF SetCell, ValuesInv
  <2> QED
    BY <2>1, <2>2, <2>4 DEF ValuesInv
<1>4. ASSUME NEW text \in VarText, NEW a \in {"Minimum", "Maximum", "AllowedValue"}, SetLimit(a, text)
      PROVE  ValuesInv'
  BY <1>4 DEF SetLimit, ValuesInv
<1>5. ASSUME NEW name \in DataTypeName, SetDataType(name)
      PROVE  ValuesInv'
  BY <1>5 DEF SetDataType, ValuesInv
<1>6. ASSUME NEW yes \in BOOLEAN, SetSendEvents(yes)
      PROVE  ValuesInv'
  BY <1>6 DEF SetSendEvents, ValuesInv
<1> QED
  BY <1>1, <1>2, <1>3, <1>4, <1>5, <1>6 DEF ValuesNext

\* In whatever order its attributes and its value are set, a state variable takes no
\* value that its type, its range or its list forbids at the time
\* (BrisaStateVariable::validateNewValue), and the value it has was told unless it was
\* set with events off.
THEOREM AllowedValues == ValuesSpec => []ValueAllowed
<1>1. ValuesInit => ValuesInv
  BY ValuesAssumption DEF ValuesInit, ValuesInv, Number
<1>2. ValuesInv => ValueAllowed
  BY DEF ValuesInv, ValueAllowed
<1> QED
  BY <1>1, <1>2, ValuesStep, PTL DEF ValuesSpec

-----------------------------------------------------------------------------
(* NetworkAddress *)

Ports == FirstPort..LastPort

\* The phases of an application that has its port.
HasPort == {"drawn", "made", "listening", "deaf"}

NetworkShape ==
  /\ clock \in Seconds
  /\ phase \in [Application -> {"off", "drawing"} \cup HasPort]
  /\ seed \in [Application -> Nat] /\ draws \in [Application -> Nat]
  /\ port \in [Application -> Int]
  /\ DOMAIN ipAddress = Application /\ DOMAIN probed = Application
  /\ before \in [Application -> SUBSET Application]
  /\ slow \in [Application -> BOOLEAN]
  /\ \A a \in Application : phase[a] # "off" => seed[a] \in Seconds

\* A port is one of the dynamic ones, and those that listened when it was taken still
\* do, where they did: at another address than the one that was asked, or at another
\* port, unless one of them did not answer.
PortTaken(a) ==
  /\ port[a] \in Ports
  /\ \A b \in before[a] :
       /\ phase[b] = "listening"
       /\ ~slow[a] => ~(ipAddress[b] = probed[a] /\ port[b] = port[a])

NetworkInv == NetworkShape /\ \A a \in Application : phase[a] \in HasPort => PortTaken(a)

\* Division with remainder.
LEMMA Division ==
  ASSUME NEW r \in Int, NEW d \in Nat \ {0}
  PROVE  r \div d \in Int /\ r = d * (r \div d) + (r % d) /\ r % d \in 0 .. d - 1
OBVIOUS

LEMMA ProductsInOrder ==
  ASSUME NEW d \in Nat, NEW x \in Int, NEW y \in Int, x <= y
  PROVE  d * x <= d * y
<1>1. PICK k \in Nat : y = x + k
  <2> WITNESS y - x \in Nat
  <2> QED
    OBVIOUS
<1>2. d * y = d * x + d * k /\ d * k \in Nat /\ d * x \in Int
  BY <1>1
<1> QED
  BY <1>2

\* A quotient is below n when the number is below n times the divisor.
LEMMA QuotientBelow ==
  ASSUME NEW r \in Nat, NEW d \in Nat \ {0}, NEW n \in Nat, r < d * n
  PROVE  r \div d \in 0 .. n - 1
<1> DEFINE q == r \div d
<1>1. q \in Int /\ r = d * q + (r % d) /\ r % d \in 0 .. d - 1
  BY Division
<1> HIDE DEF q
<1>2. q >= 0
  <2> SUFFICES ASSUME q <= -1 PROVE FALSE
    BY <1>1
  <2>1. d * q <= d * (-1)
    BY <1>1, ProductsInOrder
  <2> QED
    BY <1>1, <2>1
<1>3. q <= n - 1
  <2> SUFFICES ASSUME n <= q PROVE FALSE
    BY <1>1
  <2>1. d * n <= d * q
    BY <1>1, ProductsInOrder
  <2> QED
    BY <1>1, <2>1
<1> QED
  BY <1>1, <1>2, <1>3 DEF q

\* getPort never leaves the dynamic ports, whatever RAND_MAX is.
LEMMA PortInRange ==
  ASSUME NEW r \in 0..RandMax
  PROVE  PortOf(r) \in Ports
<1> DEFINE n == LastPort - FirstPort + 1
           d == RandMax \div n + 1
<1>1. RandMax \in Nat /\ FirstPort \in Nat /\ LastPort \in Nat /\ n \in Nat \ {0}
  BY NetworkAssumption
<1> HIDE DEF n
<1>2. RandMax \div n \in Nat /\ RandMax < n * d
  <2>1. /\ RandMax = n * (RandMax \div n) + (RandMax % n)
        /\ RandMax % n \in 0 .. n - 1 /\ RandMax \div n \in Int
    BY <1>1, Division
  <2>2. RandMax \div n >= 0
    BY <1>1
  <2>3. n * d = n * (RandMax \div n) + n
    BY <1>1, <2>1
  <2> QED
    BY <1>1, <2>1, <2>2, <2>3
<1>3. d \in Nat \ {0}
  BY <1>2
<1>4. r \in Nat /\ r < d * n
  BY <1>1, <1>2, <1>3
<1>5. r \div d \in 0 .. n - 1
  <2> HIDE DEF d
  <2> QED
    BY <1>1, <1>3, <1>4, QuotientBelow
<1> QED
  BY <1>1, <1>5 DEF PortOf, Ports, n

\* A port is itself again after it was a qint16.
LEMMA PortSurvives ==
  ASSUME NEW p \in Ports
  PROVE  Unsigned(Signed(p)) = p
<1>1. PortModulus \in Nat \ {0} /\ p \in 0 .. PortModulus - 1
  BY NetworkAssumption DEF Ports
<1>2. p % PortModulus = p
  BY <1>1
<1>3. (p - PortModulus) % PortModulus = p
  BY <1>1
<1>4. Signed(p) = p \/ Signed(p) = p - PortModulus
  BY DEF Signed
<1> QED
  BY <1>2, <1>3, <1>4 DEF Unsigned

\* The number drawn is one rand() returns.
LEMMA DrawnInRange ==
  ASSUME NetworkShape, NEW a \in Application, phase[a] = "drawing", draws[a] < Len(Rand[seed[a]])
  PROVE  Rand[seed[a]][draws[a] + 1] \in 0..RandMax
<1>1. seed[a] \in Seconds /\ draws[a] \in Nat
  BY DEF NetworkShape
<1>2. Rand[seed[a]] \in Seq(0..RandMax)
  BY <1>1, NetworkAssumption
<1>3. draws[a] + 1 \in 1 .. Len(Rand[seed[a]])
  BY <1>1, <1>2
<1> DEFINE S == 0..RandMax
           random == Rand[seed[a]]
<1> HIDE DEF S, random
<1>4. \A i \in 1 .. Len(random) : random \in Seq(S) => random[i] \in S
  OBVIOUS
<1> QED
  BY <1>2, <1>3, <1>4 DEF S, random

\* Of two applications of which one has taken a port: nothing is disturbed by steps
\* that leave the ports, and those who listen, alone.
LEMMA TakenFrame ==
  ASSUME NEW a \in Application, PortTaken(a),
         port'[a] = port[a], probed'[a] = probed[a], slow'[a] = slow[a],
         before'[a] \subseteq before[a],
         \A b \in before'[a] :
           phase[b] = "listening" =>
             phase'[b] = "listening" /\ ipAddress'[b] = ipAddress[b] /\ port'[b] = port[b]
  PROVE  PortTaken(a)'
BY DEF PortTaken

LEMMA DrawPortStep ==
  ASSUME NetworkInv, NEW a \in Application, NEW answered \in BOOLEAN, DrawPort(a, answered)
  PROVE  NetworkInv'
<1> DEFINE p == PortOf(Rand[seed[a]][draws[a] + 1])
           open == Listening(ValidIP, Unsigned(Signed(p))) # {}
<1>1. NetworkShape
  BY DEF NetworkInv
<1>2. p \in Ports
  BY <1>1, DrawnInRange, PortInRange DEF DrawPort
<1>3. Unsigned(Signed(p)) = p
  BY <1>2, PortSurvives
<1>4. p \in Int
  BY <1>2, NetworkAssumption DEF Ports
<1> HIDE DEF p
<1>5. CASE open /\ answered
  <2>1. UNCHANGED <<clock, interfaces, seed, ipAddress, runs, phase, port, probed, before, slow>>
    BY <1>5 DEF DrawPort, p
  <2>2. draws' \in [Application -> Nat]
    BY <1>1 DEF DrawPort, NetworkShape
  <2> QED
    BY <2>1, <2>2 DEF NetworkInv, NetworkShape, PortTaken
<1>6. CASE ~(open /\ answered)
  <2>1. /\ phase[a] = "drawing" /\ draws' = [draws EXCEPT ![a] = @ + 1]
        /\ phase' = [phase EXCEPT ![a] = "drawn"]
        /\ port' = [port EXCEPT ![a] = p] /\ probed' = [probed EXCEPT ![a] = ValidIP]
        /\ before' = [before EXCEPT ![a] = {b \in Application : phase[b] = "listening"}]
        /\ slow' = [slow EXCEPT ![a] = open]
        /\ UNCHANGED <<clock, interfaces, seed, ipAddress, runs>>
    BY <1>6 DEF DrawPort, p
  <2> HIDE DEF open
  <2>2. open \in BOOLEAN
    BY DEF open
  <2>3. NetworkShape'
    <3>1. phase' \in [Application -> {"off", "drawing"} \cup HasPort]
      BY <1>1, <2>1 DEF NetworkShape, HasPort
    <3>2. draws' \in [Application -> Nat] /\ port' \in [Application -> Int]
      BY <1>1, <1>4, <2>1 DEF NetworkShape
    <3>3. slow' \in [Application -> BOOLEAN]
      BY <1>1, <2>1, <2>2 DEF NetworkShape
    <3>4. before' \in [Application -> SUBSET Application]
      BY <1>1, <2>1 DEF NetworkShape
    <3>5. \A b \in Application : phase'[b] # "off" => seed'[b] \in Seconds
      BY <1>1, <2>1 DEF NetworkShape
    <3> QED
      BY <1>1, <2>1, <3>1, <3>2, <3>3, <3>4, <3>5 DEF NetworkShape
  <2>4. PortTaken(a)'
    <3>1. port'[a] = p /\ probed'[a] = ValidIP /\ slow'[a] = open
      BY <1>1, <2>1 DEF NetworkShape
    <3>2. before'[a] = {b \in Application : phase[b] = "listening"}
      BY <1>1, <2>1 DEF NetworkShape
    <3>3. ASSUME NEW b \in before'[a]
          PROVE  /\ phase'[b] = "listening" /\ ipAddress'[b] = ipAddress[b] /\ port'[b] = port[b]
                 /\ ~open => ~(ipAddress[b] = ValidIP /\ port[b] = p)
      <4>1. b \in Application /\ phase[b] = "listening" /\ b # a
        BY <2>1, <3>2
      <4>2. phase'[b] = "listening" /\ ipAddress'[b] = ipAddress[b] /\ port'[b] = port[b]
        BY <1>1, <2>1, <4>1 DEF NetworkShape
      <4>3. ~open => b \notin Listening(ValidIP, p)
        BY <1>3 DEF open
      <4> QED
        BY <4>1, <4>2, <4>3 DEF Listening
    <3> QED
      BY <1>2, <3>1, <3>3 DEF PortTaken
  <2>5. ASSUME NEW c \in Application, c # a, phase'[c] \in HasPort
        PROVE  PortTaken(c)'
    <3>1. phase'[c] = phase[c] /\ port'[c] = port[c] /\ probed'[c] = probed[c]
          /\ before'[c] = before[c] /\ slow'[c] = slow[c]
      BY <1>1, <2>1, <2>5 DEF NetworkShape
    <3>2. PortTaken(c) /\ before[c] \subseteq Application
      BY <1>1, <2>5, <3>1 DEF NetworkInv, NetworkShape
    <3>3. ASSUME NEW b \in before'[c], phase[b] = "listening"
          PROVE  phase'[b] = "listening" /\ ipAddress'[b] = ipAddress[b] /\ port'[b] = port[b]
      BY <1>1, <2>1, <3>1, <3>2, <3>3 DEF NetworkShape
    <3> QED
      BY <3>1, <3>2, <3>3, TakenFrame
  <2> QED
    BY <2>3, <2>4, <2>5 DEF NetworkInv
<1> QED
  BY <1>5, <1>6

LEMMA QuitStep ==
  ASSUME NetworkInv, NEW a \in Application, QuitApplication(a)
  PROVE  NetworkInv'
<1>1. NetworkShape
  BY DEF NetworkInv
<1>2. /\ phase' = [phase EXCEPT ![a] = "off"]
      /\ before' = [b \in Application |-> IF b = a THEN {} ELSE before[b] \ {a}]
      /\ UNCHANGED <<clock, interfaces, seed, draws, port, ipAddress, probed, slow, runs>>
  BY DEF QuitApplication
<1>3. NetworkShape'
  BY <1>1, <1>2 DEF NetworkShape
<1>4. ASSUME NEW c \in Application, phase'[c] \in HasPort
      PROVE  PortTaken(c)'
  <2>1. c # a /\ phase'[c] = phase[c] /\ before'[c] = before[c] \ {a}
    BY <1>1, <1>2, <1>4 DEF NetworkShape, HasPort
  <2>2. PortTaken(c) /\ before[c] \subseteq Application
    BY <1>1, <1>4, <2>1 DEF NetworkInv, NetworkShape
  <2>3. ASSUME NEW b \in before'[c], phase[b] = "listening"
        PROVE  phase'[b] = "listening" /\ ipAddress'[b] = ipAddress[b] /\ port'[b] = port[b]
    BY <1>1, <1>2, <2>1, <2>2, <2>3 DEF NetworkShape
  <2> QED
    BY <1>2, <2>1, <2>2, <2>3, TakenFrame
<1> QED
  BY <1>3, <1>4 DEF NetworkInv

\* An application that has no port of its own yet, or does not listen yet, moves on.
LEMMA PhaseStep ==
  ASSUME NetworkInv, NEW a \in Application, NEW next \in {"drawing", "made", "listening", "deaf"},
         phase' = [phase EXCEPT ![a] = next],
         phase[a] # "listening", next # "drawing" => phase[a] \in HasPort,
         NetworkShape', UNCHANGED <<port, probed, before, slow>>,
         \A b \in Application : b # a => ipAddress'[b] = ipAddress[b],
         ipAddress'[a] = ipAddress[a] \/ next = "made"
  PROVE  NetworkInv'
<1>1. NetworkShape
  BY DEF NetworkInv
<1>2. ASSUME NEW c \in Application, phase'[c] \in HasPort
      PROVE  PortTaken(c)'
  <2>1. phase[c] \in HasPort
    BY <1>1, <1>2 DEF NetworkShape, HasPort
  <2>2. PortTaken(c) /\ before[c] \subseteq Application
    BY <1>1, <2>1 DEF NetworkInv, NetworkShape
  <2>3. ASSUME NEW b \in before'[c], phase[b] = "listening"
        PROVE  phase'[b] = "listening" /\ ipAddress'[b] = ipAddress[b] /\ port'[b] = port[b]
    <3>1. b \in Application /\ b # a
      BY <2>2, <2>3
    <3> QED
      BY <1>1, <2>3, <3>1 DEF NetworkShape
  <2> QED
    BY <2>2, <2>3, TakenFrame
<1> QED
  BY <1>2 DEF NetworkInv

LEMMA NetworkStep == NetworkInv /\ [NetworkNext]_networkVars => NetworkInv'
<1> SUFFICES ASSUME NetworkInv, [NetworkNext]_networkVars
             PROVE  NetworkInv'
  OBVIOUS
<1>0. NetworkShape
  BY DEF NetworkInv
<1>1. CASE UNCHANGED networkVars
  BY <1>1 DEF networkVars, NetworkInv, NetworkShape, PortTaken
<1>2. CASE Tick
  BY <1>2 DEF Tick, NetworkInv, NetworkShape, PortTaken
<1>3. ASSUME NEW now \in Interfaces, InterfacesChange(now)
      PROVE  NetworkInv'
  BY <1>3 DEF InterfacesChange, NetworkInv, NetworkShape, PortTaken
<1>4. ASSUME NEW a \in Application, BeginDrawing(a)
      PROVE  NetworkInv'
  <2>1. seed' = [seed EXCEPT ![a] = clock] /\ clock \in Seconds /\ clock \in Nat
    BY <1>0, <1>4, NetworkAssumption DEF BeginDrawing, NetworkShape
  <2>2. seed' \in [Application -> Nat]
    BY <1>0, <2>1 DEF NetworkShape
  <2>3. NetworkShape'
    BY <1>0, <1>4, <2>1, <2>2 DEF BeginDrawing, NetworkShape
  <2> QED
    BY <1>4, <2>3, PhaseStep DEF BeginDrawing
<1>5. ASSUME NEW a \in Application, NEW answered \in BOOLEAN, DrawPort(a, answered)
      PROVE  NetworkInv'
  BY <1>5, DrawPortStep
<1>6. ASSUME NEW a \in Application, TakeAddress(a)
      PROVE  NetworkInv'
  <2>1. NetworkShape'
    BY <1>0, <1>6 DEF TakeAddress, NetworkShape, HasPort
  <2>2. \A b \in Application : b # a => ipAddress'[b] = ipAddress[b]
    BY <1>0, <1>6 DEF TakeAddress, NetworkShape
  <2> QED
    BY <1>6, <2>1, <2>2, PhaseStep DEF TakeAddress, HasPort
<1>7. ASSUME NEW a \in Application, ListenThere(a)
      PROVE  NetworkInv'
  <2>1. PICK next \in {"listening", "deaf"} : phase' = [phase EXCEPT ![a] = next]
    BY <1>7 DEF ListenThere
  <2>2. NetworkShape'
    BY <1>0, <1>7, <2>1 DEF ListenThere, NetworkShape, HasPort
  <2> QED
    BY <1>7, <2>1, <2>2, PhaseStep DEF ListenThere, HasPort
<1>8. ASSUME NEW a \in Application, QuitApplication(a)
      PROVE  NetworkInv'
  BY <1>8, QuitStep
<1> QED
  BY <1>1, <1>2, <1>3, <1>4, <1>5, <1>6, <1>7, <1>8 DEF NetworkNext

\* Whatever rand() returns, however many applications a host has and however its
\* interfaces come and go, the port an application announces is a dynamic one, and
\* nobody listened there when getPort took it, but for a probe that came too late or
\* went to another address.
THEOREM FreePort == NetworkSpec => []PortWasFree
<1>1. NetworkInit => NetworkInv
  BY DEF NetworkInit, NetworkInv, NetworkShape, HasPort
<1>2. NetworkInv => PortWasFree
  BY DEF NetworkInv, NetworkShape, HasPort, PortTaken, Ports, PortWasFree
<1> QED
  BY <1>1, <1>2, NetworkStep, PTL DEF NetworkSpec

-----------------------------------------------------------------------------
(* Config *)

\* A process that may save is the only one that holds a fresh state, and the process in
\* the middle of save() is that one.
ConfigInv ==
  /\ fresh \subseteq running /\ running \subseteq Process
  /\ DOMAIN settings = Process /\ DOMAIN expected = Process
  /\ careful =>
       /\ saving = {} => Seen(file) = stored
       /\ \A p \in fresh : Seen(settings[p]) = expected[p]
       /\ saving # {} => \E p \in running : saving = {p} /\ fresh = {p}

LEMMA TwoWords ==
  ASSUME NEW s \in Seq(STRING), NEW t \in Seq(STRING), Len(s) = 1, Len(t) = 1
  PROVE  s \o t \in Seq(STRING) /\ Len(s \o t) = 2 /\ (s \o t)[1] = s[1] /\ (s \o t)[2] = t[1]
<1>1. /\ Len(s \o t) = Len(s) + Len(t)
      /\ \A i \in 1 .. Len(s) + Len(t) : (s \o t)[i] = IF i <= Len(s) THEN s[i] ELSE t[i - Len(s)]
  BY ConcatProperties
<1> QED
  BY <1>1

\* The key of names without dots has two words, and tells the names: no name with dots
\* in it makes the same key.
LEMMA PlainKey ==
  ASSUME NEW n \in Plain
  PROVE  /\ Key(n[1], n[2]) \in Seq(STRING)
         /\ Key(n[1], n[2])[1] = n[1][1] /\ Key(n[1], n[2])[2] = n[2][1]
         /\ Head(Key(n[1], n[2])) = n[1][1]
         /\ n[1] = <<n[1][1]>> /\ n[2] = <<n[2][1]>>
         /\ n[1] \in Section /\ n[2] \in Parameter
<1>1. /\ n[1] \in Section /\ n[2] \in Parameter
      /\ n[1] \in Seq(STRING) /\ n[2] \in Seq(STRING) /\ Len(n[1]) = 1 /\ Len(n[2]) = 1
  BY ConfigAssumption DEF Plain
<1>2. n[1] = <<n[1][1]>> /\ n[2] = <<n[2][1]>>
  BY <1>1
<1>3. /\ Key(n[1], n[2]) \in Seq(STRING) /\ Len(Key(n[1], n[2])) = 2
      /\ Key(n[1], n[2])[1] = n[1][1] /\ Key(n[1], n[2])[2] = n[2][1]
  BY <1>1, TwoWords DEF Key
<1> QED
  BY <1>1, <1>2, <1>3

LEMMA KeyTells ==
  ASSUME NEW n \in Plain, NEW section \in Section, NEW parameter \in Parameter
  PROVE  Key(section, parameter) = Key(n[1], n[2]) <=> n = <<section, parameter>>
<1> SUFFICES ASSUME Key(section, parameter) = Key(n[1], n[2])
             PROVE  n = <<section, parameter>>
  BY DEF Plain
<1>1. /\ n[1] \in Seq(STRING) /\ n[2] \in Seq(STRING) /\ Len(n[1]) = 1 /\ Len(n[2]) = 1
      /\ section \in Seq(STRING) /\ parameter \in Seq(STRING)
      /\ section # <<>> /\ parameter # <<>> /\ n = <<n[1], n[2]>>
  <2>1. n \in {m \in Section : Len(m) = 1} \X {m \in Parameter : Len(m) = 1}
    BY DEF Plain
  <2>2. n[1] \in Section /\ Len(n[1]) = 1 /\ n[2] \in Parameter /\ Len(n[2]) = 1 /\ n = <<n[1], n[2]>>
    BY <2>1
  <2> QED
    BY <2>2, ConfigAssumption
<1>2. Len(section) >= 1 /\ Len(parameter) >= 1
  BY <1>1
<1>3. Len(section \o parameter) = 2 /\ Len(section \o parameter) = Len(section) + Len(parameter)
  BY <1>1 DEF Key
<1>4. Len(section) = 1 /\ Len(parameter) = 1
  BY <1>1, <1>2, <1>3
<1>5. section[1] = n[1][1] /\ parameter[1] = n[2][1]
  <2>1. (section \o parameter)[1] = section[1] /\ (section \o parameter)[2] = parameter[1]
    BY <1>1, <1>4, TwoWords
  <2> QED
    BY <2>1, PlainKey DEF Key
<1>6. section = n[1] /\ parameter = n[2]
  BY <1>1, <1>4, <1>5
<1> QED
  BY <1>1, <1>6

\* What is set is seen, and nothing else changes; an empty value is as none.
LEMMA SeenWithParameter ==
  ASSUME NEW map, NEW section \in Section, NEW parameter \in Parameter,
         NEW value \in Value \cup {""}, NEW n \in Plain
  PROVE  Seen(WithParameter(map, Key(section, parameter), value))[n] =
           IF n = <<section, parameter>> THEN value ELSE Seen(map)[n]
<1> DEFINE key == Key(section, parameter)
           set == WithParameter(map, key, value)
<1> SUFFICES GetValue(set, Key(n[1], n[2])) =
               IF n = <<section, parameter>> THEN value ELSE GetValue(map, Key(n[1], n[2]))
  BY DEF Seen
<1>1. key = Key(n[1], n[2]) <=> n = <<section, parameter>>
  BY KeyTells
<1> HIDE DEF key
<1>2. CASE value = "" /\ key \in DOMAIN map
  BY <1>1, <1>2 DEF WithParameter, Without, GetValue
<1>3. CASE ~(value = "" /\ key \in DOMAIN map)
  BY <1>1, <1>3 DEF WithParameter, GetValue
<1> QED
  BY <1>2, <1>3

\* A section that is removed takes its own parameters with it.
LEMMA SeenWithoutSection ==
  ASSUME NEW map, NEW section \in Section
  PROVE  Seen(Without(map, {k \in DOMAIN map : <<k[1]>> = section})) =
           [n \in Plain |-> IF n[1] = section THEN "" ELSE Seen(map)[n]]
<1> SUFFICES ASSUME NEW n \in Plain
             PROVE  GetValue(Without(map, {k \in DOMAIN map : <<k[1]>> = section}), Key(n[1], n[2])) =
                      IF n[1] = section THEN "" ELSE GetValue(map, Key(n[1], n[2]))
  BY DEF Seen
<1>1. <<Key(n[1], n[2])[1]>> = section <=> n[1] = section
  BY PlainKey
<1> QED
  BY <1>1 DEF GetValue, Without

LEMMA OpensStep ==
  ASSUME ConfigInv, NEW p \in Process, NEW opens \in BOOLEAN, Able(p), SaveOpens(p, opens),
         running' = running, stored' = stored, DOMAIN settings' = Process, DOMAIN expected' = Process,
         p \in fresh => Seen(settings'[p]) = expected'[p]
  PROVE  ConfigInv'
<1>1. fresh' \subseteq running'
  BY DEF ConfigInv, SaveOpens
<1>2. ASSUME careful'
      PROVE  saving' = {p} /\ fresh' = {p} /\ p \in running /\ Seen(settings'[p]) = expected'[p]
  <2>1. careful /\ opens /\ p \in fresh /\ p \notin saving /\ p \in running
    BY <1>2 DEF SaveOpens, Able
  <2>2. saving = {}
    BY <2>1 DEF ConfigInv
  <2> QED
    BY <2>1, <2>2 DEF SaveOpens
<1> QED
  BY <1>1, <1>2 DEF ConfigInv

LEMMA SavedStep ==
  ASSUME ConfigInv, NEW p \in Process, NEW opens \in BOOLEAN, Able(p), SavedIfDirect(p, opens),
         running' = running, stored' = stored, DOMAIN settings' = Process, DOMAIN expected' = Process,
         \A q \in Process \ {p} : settings'[q] = settings[q] /\ expected'[q] = expected[q],
         Seen(settings[p]) = expected[p] => Seen(settings'[p]) = expected'[p]
  PROVE  ConfigInv'
<1>1. CASE p \in direct /\ careful
  <2>1. SaveOpens(p, opens)
    BY <1>1 DEF SavedIfDirect
  <2> QED
    BY <1>1, <2>1, OpensStep DEF ConfigInv
<1>2. CASE p \notin direct
  <2>1. UNCHANGED <<file, saving, fresh, careful>>
    BY <1>2 DEF SavedIfDirect
  <2>2. ASSUME careful, NEW q \in fresh
        PROVE  Seen(settings'[q]) = expected'[q]
    BY <2>2 DEF ConfigInv
  <2> QED
    BY <2>1, <2>2 DEF ConfigInv
<1>3. CASE p \in direct /\ ~careful
  BY <1>3 DEF SavedIfDirect, SaveOpens, ConfigInv
<1> QED
  BY <1>1, <1>2, <1>3

LEMMA ConfigStep == ConfigInv /\ [ConfigNext]_configVars => ConfigInv'
<1> SUFFICES ASSUME ConfigInv, [ConfigNext]_configVars
             PROVE  ConfigInv'
  OBVIOUS
<1>1. CASE UNCHANGED configVars
  BY <1>1 DEF configVars, ConfigInv
<1>2. ASSUME NEW p \in Process, StartProcess(p)
      PROVE  ConfigInv'
  <2>1. p \notin fresh
    BY <1>2 DEF StartProcess, ConfigInv
  <2>2. ASSUME NEW q \in fresh PROVE settings'[q] = settings[q] /\ expected'[q] = expected[q]
    BY <1>2, <2>1 DEF StartProcess, ConfigInv
  <2>3. DOMAIN settings' = Process /\ DOMAIN expected' = Process
    BY <1>2 DEF StartProcess, ConfigInv
  <2>4. running \subseteq running' /\ running' \subseteq Process /\ UNCHANGED <<file, saving, fresh, stored, careful>>
    BY <1>2 DEF StartProcess, ConfigInv
  <2> QED
    BY <2>2, <2>3, <2>4 DEF ConfigInv
<1>3. ASSUME NEW p \in Process, EndProcess(p)
      PROVE  ConfigInv'
  <2>1. CASE p \in saving
    BY <1>3, <2>1 DEF EndProcess, ConfigInv
  <2>2. CASE p \notin saving
    BY <1>3, <2>2 DEF EndProcess, ConfigInv
  <2> QED
    BY <2>1, <2>2
<1>4. ASSUME NEW p \in Process, SaveWrites(p)
      PROVE  ConfigInv'
  <2>1. ASSUME careful
        PROVE  saving' = {} /\ Seen(settings[p]) = expected[p]
    BY <1>4, <2>1 DEF SaveWrites, ConfigInv
  <2> QED
    BY <1>4, <2>1 DEF SaveWrites, ConfigInv
<1>5. ASSUME NEW p \in Process, NEW access \in BOOLEAN, SetDirectAccess(p, access)
      PROVE  ConfigInv'
  BY <1>5 DEF SetDirectAccess, ConfigInv
<1>6. ASSUME NEW p \in Process, NEW opens \in BOOLEAN, Update(p, opens)
      PROVE  ConfigInv'
  <2>1. fresh' \subseteq running' /\ running' \subseteq Process /\ DOMAIN settings' = Process /\ DOMAIN expected' = Process
    BY <1>6 DEF Update, Able, ConfigInv
  <2>2. ASSUME careful'
        PROVE  /\ saving' = {} => Seen(file') = stored'
               /\ \A q \in fresh' : Seen(settings'[q]) = expected'[q]
               /\ saving' # {} => \E q \in running' : saving' = {q} /\ fresh' = {q}
    <3>1. careful /\ opens /\ UNCHANGED <<file, stored, saving, running>>
      BY <1>6, <2>2 DEF Update
    <3>2. CASE saving = {}
      <4>1. Seen(file) = stored /\ settings'[p] = file /\ expected'[p] = stored
        BY <1>6, <3>1, <3>2 DEF Update, ConfigInv
      <4>2. \A q \in Process \ {p} : settings'[q] = settings[q] /\ expected'[q] = expected[q]
        BY <1>6 DEF Update, ConfigInv
      <4>3. fresh' = fresh \cup {p}
        BY <1>6, <3>1, <3>2 DEF Update
      <4> QED
        BY <3>1, <3>2, <4>1, <4>2, <4>3 DEF ConfigInv
    <3>3. CASE saving # {}
      <4>1. PICK q \in running : saving = {q} /\ fresh = {q}
        BY <3>1, <3>3 DEF ConfigInv
      <4>2. q # p /\ fresh' = {q} /\ q \in Process
        BY <1>6, <3>3, <4>1 DEF Update, Able, ConfigInv
      <4>3. settings'[q] = settings[q] /\ expected'[q] = expected[q]
        BY <1>6, <4>2 DEF Update, ConfigInv
      <4> QED
        BY <3>1, <3>3, <4>1, <4>2, <4>3 DEF ConfigInv
    <3> QED
      BY <3>2, <3>3
  <2> QED
    BY <2>1, <2>2 DEF ConfigInv
<1>7. ASSUME NEW p \in Process, NEW opens \in BOOLEAN, Save(p, opens)
      PROVE  ConfigInv'
  <2>1. ASSUME careful, p \in fresh PROVE Seen(settings'[p]) = expected'[p]
    BY <1>7, <2>1 DEF Save, ConfigInv
  <2>2. CASE careful
    BY <1>7, <2>1, <2>2, OpensStep DEF Save, ConfigInv
  <2>3. CASE ~careful
    BY <1>7, <2>3 DEF Save, SaveOpens, ConfigInv
  <2> QED
    BY <2>2, <2>3
<1>8. ASSUME NEW p \in Process, NEW opens \in BOOLEAN, NEW section \in Section, RemoveSection(p, section, opens)
      PROVE  ConfigInv'
  <2>1. /\ settings'[p] = Without(settings[p], {k \in DOMAIN settings[p] : <<k[1]>> = section})
        /\ expected'[p] = [n \in Plain |-> IF n[1] = section THEN "" ELSE expected[p][n]]
        /\ DOMAIN settings' = Process /\ DOMAIN expected' = Process
        /\ \A q \in Process \ {p} : settings'[q] = settings[q] /\ expected'[q] = expected[q]
    BY <1>8 DEF RemoveSection, ConfigInv
  <2>2. Seen(settings'[p]) = [n \in Plain |-> IF n[1] = section THEN "" ELSE Seen(settings[p])[n]]
    <3>1. Seen(Without(settings[p], {k \in DOMAIN settings[p] : <<k[1]>> = section})) =
            [n \in Plain |-> IF n[1] = section THEN "" ELSE Seen(settings[p])[n]]
      BY SeenWithoutSection
    <3> QED
      BY <2>1, <3>1
  <2>3. Seen(settings[p]) = expected[p] => Seen(settings'[p]) = expected'[p]
    BY <2>1, <2>2
  <2> QED
    BY <1>8, <2>1, <2>3, SavedStep DEF RemoveSection
<1>9. ASSUME NEW p \in Process, NEW opens \in BOOLEAN, NEW section \in Section, NEW parameter \in Parameter,
             NEW value \in Value \cup {""}, SetParameter(p, section, parameter, value, opens)
      PROVE  ConfigInv'
  <2>1. /\ settings'[p] = WithParameter(settings[p], Key(section, parameter), value)
        /\ expected'[p] = [n \in Plain |-> IF n = <<section, parameter>> THEN value ELSE expected[p][n]]
        /\ DOMAIN settings' = Process /\ DOMAIN expected' = Process
        /\ \A q \in Process \ {p} : settings'[q] = settings[q] /\ expected'[q] = expected[q]
    BY <1>9 DEF SetParameter, ConfigInv
  <2>2. ASSUME Seen(settings[p]) = expected[p]
        PROVE  Seen(settings'[p]) = expected'[p]
    <3>1. ASSUME NEW n \in Plain
          PROVE  Seen(settings'[p])[n] = expected'[p][n]
      <4>1. \A map : Seen(WithParameter(map, Key(section, parameter), value))[n] =
                       IF n = <<section, parameter>> THEN value ELSE Seen(map)[n]
        BY SeenWithParameter
      <4>2. Seen(settings'[p])[n] = IF n = <<section, parameter>> THEN value ELSE Seen(settings[p])[n]
        BY <2>1, <4>1
      <4>3. expected'[p][n] = IF n = <<section, parameter>> THEN value ELSE expected[p][n]
        BY <2>1
      <4> QED
        BY <2>2, <4>2, <4>3
    <3> QED
      BY <2>1, <3>1 DEF Seen
  <2> QED
    BY <1>9, <2>1, <2>2, SavedStep DEF SetParameter
<1> QED
  BY <1>1, <1>2, <1>3, <1>4, <1>5, <1>6, <1>7, <1>8, <1>9 DEF ConfigNext

\* What a process sees is listed under its section.
LEMMA SeenIsListed ==
  ASSUME NEW map, NEW n \in Plain, Seen(map)[n] # ""
  PROVE  /\ n[1] \in SectionNames(map)
         /\ Seen(map)[n] \in ItemValues(map, n[1])[n[2]]
<1> DEFINE key == Key(n[1], n[2])
<1>1. key \in DOMAIN map /\ Seen(map)[n] = map[key]
  BY DEF Seen, GetValue
<1>2. <<Head(key)>> = n[1] /\ <<key[2]>> = n[2]
  BY PlainKey
<1> HIDE DEF key
<1>3. n[1] \in SectionNames(map)
  BY <1>1, <1>2 DEF SectionNames
<1>4. map[key] \in ItemValues(map, n[1])[n[2]]
  BY <1>1, <1>2 DEF ItemValues
<1> QED
  BY <1>1, <1>3, <1>4

\* Whatever processes there are and whatever they set, as long as each reads before it
\* saves and nobody is between: the file holds what was set last, those that read it
\* since see it, and a section is never taken for another one.
THEOREM ConfigShared == ConfigSpec => []SharedConfig
<1>1. ConfigInit => ConfigInv
  <2>1. Seen(EmptyMap) = NothingSet
    BY DEF Seen, GetValue, EmptyMap, NothingSet
  <2> QED
    BY <2>1 DEF ConfigInit, ConfigInv
<1>2. ConfigInv => SharedConfig
  BY SeenIsListed DEF ConfigInv, SharedConfig
<1> QED
  BY <1>1, <1>2, ConfigStep, PTL DEF ConfigSpec

-----------------------------------------------------------------------------
(* DeviceDocument *)

\* Documents that are read: those of other makes, and what a device writes of itself.
Readable(doc) == doc.embedded \in Seq(ToSet(doc.embedded))
IconsReadable(doc) ==
  \A d \in {doc} \cup ToSet(doc.embedded) :
    d.iconList # <<>> => d.iconList[1] \in Seq(ToSet(d.iconList[1]))

EmbeddedDevices == [attributes : [WrittenElements -> {"embedded", ""}], icons : {<<>>}]
DeviceShape ==
  /\ DOMAIN device = {"attributes", "icons", "embedded"}
  /\ device.icons \in Seq(IconUrl)
  /\ device.embedded \in Seq(EmbeddedDevices)

\* The least element is the first one that elementsByTagName lists.
LEMMA LeastIsMin ==
  ASSUME NEW s, NEW x \in s, s \subseteq Int, \A y \in s : x <= y
  PROVE  Min(s) = x
<1> DEFINE P(m) == m \in s /\ \A y \in s : m =< y
<1>1. P(x)
  OBVIOUS
<1>2. \A m : P(m) => m = x
  OBVIOUS
<1>3. Min(s) = CHOOSE m \in s : \A y \in s : m =< y
  BY DEF Min
<1> QED
  BY <1>1, <1>2, <1>3

LEMMA InsideShape ==
  ASSUME NEW doc, Readable(doc)
  PROVE  /\ Inside(doc) \in Seq({doc} \cup ToSet(doc.embedded))
         /\ Inside(doc)[1] = doc
         /\ 1 \in DOMAIN Inside(doc) /\ DOMAIN Inside(doc) \subseteq Nat \ {0}
<1> DEFINE S == {doc} \cup ToSet(doc.embedded)
<1>1. <<doc>> \in Seq(S) /\ Len(<<doc>>) = 1 /\ <<doc>>[1] = doc
  OBVIOUS
<1>2. doc.embedded \in Seq(S)
  <2>1. doc.embedded \in Seq(ToSet(doc.embedded)) /\ ToSet(doc.embedded) \subseteq S
    BY DEF Readable
  <2> HIDE DEF S
  <2> QED
    BY <2>1, SeqMonotonic
<1> HIDE DEF S
<1>3. /\ <<doc>> \o doc.embedded \in Seq(S)
      /\ Len(<<doc>> \o doc.embedded) = 1 + Len(doc.embedded)
      /\ (<<doc>> \o doc.embedded)[1] = doc
  <2>1. Len(doc.embedded) \in Nat /\ 1 \in 1 .. Len(<<doc>>) + Len(doc.embedded)
    BY <1>1, <1>2
  <2> QED
    BY <1>1, <1>2, <2>1, ConcatProperties
<1>4. DOMAIN (<<doc>> \o doc.embedded) = 1 .. Len(<<doc>> \o doc.embedded) /\ Len(doc.embedded) \in Nat
  BY <1>2, <1>3
<1> QED
  BY <1>3, <1>4 DEF Inside, S

\* What a device says itself is found before what is embedded in it.
LEMMA OwnTextFirst ==
  ASSUME NEW doc, Readable(doc), NEW e \in DOMAIN doc.elements
  PROVE  ElementText(doc, e) = doc.elements[e]
<1>0. Inside(doc)[1] = doc /\ 1 \in DOMAIN Inside(doc) /\ DOMAIN Inside(doc) \subseteq Nat \ {0}
  BY InsideShape
<1>1. 1 \in Places(doc, e) /\ Places(doc, e) \subseteq Nat \ {0}
  BY <1>0 DEF Places
<1>2. Min(Places(doc, e)) = 1
  BY <1>1, LeastIsMin
<1> QED
  BY <1>0, <1>1, <1>2 DEF ElementText

LEMMA AttributesAsIn ==
  ASSUME NEW doc, Readable(doc)
  PROVE  AsIn(ReadAttributes(doc), doc)
<1> SUFFICES ASSUME NEW a \in ReadElements, ElementOf(a) \in DOMAIN doc.elements
             PROVE  ReadAttributes(doc)[a] = doc.elements[ElementOf(a)]
  BY DEF AsIn
<1>1. ReadAttributes(doc)[a] = ElementText(doc, ElementOf(a))
  BY DEF ReadAttributes, ElementOf
<1> QED
  BY <1>1, OwnTextFirst

LEMMA IconsListed ==
  ASSUME NEW doc, Readable(doc), IconsReadable(doc)
  PROVE  /\ Len(ReadIcons(doc)) \in Nat /\ DOMAIN ReadIcons(doc) = 1 .. Len(ReadIcons(doc))
         /\ \E url : \A i \in DOMAIN ReadIcons(doc) :
              ReadIcons(doc)[i] = [url |-> url, waiting |-> 0, connections |-> 0]
         /\ doc.iconList # <<>> =>
              /\ Len(ReadIcons(doc)) = Len(doc.iconList[1])
              /\ \A i \in DOMAIN ReadIcons(doc) : ReadIcons(doc)[i].url = doc.iconList[1][1]
<1> DEFINE inside == Inside(doc)
           with == {i \in DOMAIN inside : inside[i].iconList # <<>>}
           list == IF with = {} THEN <<>> ELSE inside[Min(with)].iconList[1]
           Icon(n) == [url |-> list[1], waiting |-> 0, connections |-> 0]
<1>1. ReadIcons(doc) = [i \in DOMAIN list |-> [url |-> list[1], waiting |-> 0, connections |-> 0]]
  BY DEF ReadIcons
<1>2. \E S : list \in Seq(S)
  <2>1. CASE with = {}
    BY <2>1
  <2>2. CASE with # {}
    <3>1. with \in SUBSET Nat
      BY InsideShape
    <3> HIDE DEF with
    <3>2. PICK x \in with : \A y \in with : x <= y
      BY <2>2, <3>1, LeastNumber
    <3>3. Min(with) = x
      <4>1. with \subseteq Int
        BY <3>1
      <4> QED
        BY <3>2, <4>1, LeastIsMin
    <3>4. x \in DOMAIN inside /\ inside[x].iconList # <<>>
      BY <3>2 DEF with
    <3>5. inside[x] \in {doc} \cup ToSet(doc.embedded)
      <4>1. inside \in Seq({doc} \cup ToSet(doc.embedded))
        BY InsideShape
      <4> HIDE DEF inside
      <4> QED
        BY <3>4, <4>1
    <3>6. inside[x].iconList[1] \in Seq(ToSet(inside[x].iconList[1]))
      BY <3>4, <3>5 DEF IconsReadable
    <3> QED
      BY <2>2, <3>3, <3>6
  <2> QED
    BY <2>1, <2>2
<1>3. doc.iconList # <<>> => list = doc.iconList[1]
  <2> SUFFICES ASSUME doc.iconList # <<>> PROVE list = doc.iconList[1]
    OBVIOUS
  <2>1. inside[1] = doc /\ 1 \in DOMAIN inside /\ DOMAIN inside \subseteq Nat \ {0}
    BY InsideShape
  <2> HIDE DEF inside
  <2>2. 1 \in with /\ with \subseteq Int /\ \A i \in with : 1 <= i
    BY <2>1
  <2> HIDE DEF with
  <2>3. Min(with) = 1
    BY <2>2, LeastIsMin
  <2> QED
    BY <2>1, <2>2, <2>3
<1> HIDE DEF list
<1>4. PICK S : list \in Seq(S)
  BY <1>2
<1>5. /\ Len(list) \in Nat /\ DOMAIN ReadIcons(doc) = 1 .. Len(list)
      /\ Len(ReadIcons(doc)) = Len(list)
  BY <1>1, <1>4
<1>6. \A i \in DOMAIN ReadIcons(doc) :
        ReadIcons(doc)[i] = [url |-> list[1], waiting |-> 0, connections |-> 0]
  BY <1>1
<1>7. \A i \in DOMAIN ReadIcons(doc) : ReadIcons(doc)[i].url = list[1]
  BY <1>6
<1> QED
  BY <1>3, <1>5, <1>6, <1>7

\* The loop over the embedded devices, one after the other.
LEMMA EmbeddedLoop ==
  ASSUME NEW doc, Readable(doc)
  PROVE  \E run :
           /\ run[0] = <<>> /\ run[Len(doc.embedded)] = ReadEmbedded(doc)
           /\ \A k \in 0 .. Len(doc.embedded) - 1 :
                run[k + 1] = AddNamed(run[k], ReadAttributes(doc.embedded[k + 1]))
<1> DEFINE emb == doc.embedded
           n == Len(emb)
           S == {ReadAttributes(emb[i]) : i \in 1..n}
           V == Seq(S)
           g == [p \in V \X (1..n) |-> AddNamed(p[1], ReadAttributes(emb[p[2]]))]
           Loop(iter) == iter = [s \in SUBSET DOMAIN emb |->
                                   IF s = {} THEN <<>>
                                   ELSE AddNamed(iter[s \ {Max(s)}], ReadAttributes(emb[Max(s)]))]
<1>1. n \in Nat /\ DOMAIN emb = 1..n
  BY DEF Readable
<1>2. ReadEmbedded(doc) = (CHOOSE iter : Loop(iter))[DOMAIN emb]
  BY DEF ReadEmbedded, FoldLeft, MapThenFoldSet
<1> HIDE DEF emb, n
<1>3. <<>> \in V
  OBVIOUS
<1>4. g \in [V \X (1..n) -> V]
  <2> SUFFICES ASSUME NEW p \in V \X (1..n) PROVE AddNamed(p[1], ReadAttributes(emb[p[2]])) \in V
    OBVIOUS
  <2>1. p[1] \in Seq(S) /\ ReadAttributes(emb[p[2]]) \in S
    OBVIOUS
  <2> DEFINE list == p[1]
             texts == ReadAttributes(emb[p[2]])
  <2> HIDE DEF S, list, texts
  <2>2. Append(list, texts) \in Seq(S)
    BY <2>1 DEF list, texts
  <2>3. AddNamed(list, texts) \in {list, Append(list, texts)}
    BY DEF AddNamed
  <2> QED
    BY <2>1, <2>2, <2>3 DEF list, texts
<1> HIDE DEF V
<1>5. PICK f \in [SUBSET (1..n) -> V] : FoldsUpTo(f, n, <<>>, g)
  <2> HIDE DEF g
  <2> QED
    BY <1>1, <1>3, <1>4, FoldIsThere
<1>6. Loop(f)
  <2>1. ASSUME NEW s \in SUBSET (1..n)
        PROVE  f[s] = IF s = {} THEN <<>> ELSE AddNamed(f[s \ {Max(s)}], ReadAttributes(emb[Max(s)]))
    <3>1. CASE s = {}
      BY <1>5, <3>1 DEF FoldsUpTo
    <3>2. CASE s # {}
      <4>1. Max(s) \in 1..n
        BY <1>1, <3>2, MaxExists
      <4>2. f[s \ {Max(s)}] \in V
        OBVIOUS
      <4>3. f[s] = g[<<f[s \ {Max(s)}], Max(s)>>]
        <5> HIDE DEF g
        <5> QED
          BY <1>5, <3>2 DEF FoldsUpTo
      <4> QED
        BY <3>2, <4>1, <4>2, <4>3
    <3> QED
      BY <3>1, <3>2
  <2> HIDE DEF g
  <2> QED
    BY <1>1, <2>1
<1> DEFINE iter == CHOOSE iter : Loop(iter)
           run == [k \in 0..n |-> iter[1..k]]
<1>7. Loop(iter)
  <2> HIDE DEF Loop
  <2> QED
    BY <1>6
<1>8. iter = [s \in SUBSET (1..n) |->
                IF s = {} THEN <<>> ELSE AddNamed(iter[s \ {Max(s)}], ReadAttributes(emb[Max(s)]))]
  <2> HIDE DEF iter
  <2> QED
    BY <1>1, <1>7
<1>9. ReadEmbedded(doc) = iter[1..n]
  BY <1>1, <1>2
<1> HIDE DEF iter, Loop
<1>10. run[0] = <<>>
  <2>1. 1..0 = {} /\ 1..0 \in SUBSET (1..n)
    OBVIOUS
  <2>2. iter[1..0] = <<>>
    BY <1>8, <2>1
  <2> QED
    BY <1>1, <2>2
<1>11. ASSUME NEW k \in 0 .. n - 1
       PROVE  run[k + 1] = AddNamed(run[k], ReadAttributes(emb[k + 1]))
  <2>1. /\ 1 .. k + 1 # {} /\ Max(1 .. k + 1) = k + 1
        /\ (1 .. k + 1) \ {k + 1} = 1..k
    <3>1. k \in Nat
      BY <1>1
    <3> QED
      BY <3>1, LastOfPrefix
  <2>2. 1 .. k + 1 \in SUBSET (1..n)
    BY <1>1
  <2>3. iter[1 .. k + 1] = AddNamed(iter[1..k], ReadAttributes(emb[k + 1]))
    BY <1>8, <2>1, <2>2
  <2> QED
    BY <1>1, <2>3
<1>12. run[n] = ReadEmbedded(doc)
  BY <1>1, <1>9
<1> HIDE DEF run
<1> QED
  BY <1>10, <1>11, <1>12 DEF emb, n

\* The devices with a name, in their order, and no others.
LEMMA NamedInOrder ==
  ASSUME NEW doc, Readable(doc), \A d \in ToSet(doc.embedded) : Readable(d)
  PROVE  \E at \in [DOMAIN ReadEmbedded(doc) -> {j \in DOMAIN doc.embedded : Named(doc.embedded[j])}] :
           /\ \A j \in {i \in DOMAIN doc.embedded : Named(doc.embedded[i])} :
                \E i \in DOMAIN ReadEmbedded(doc) : at[i] = j
           /\ \A i, k \in DOMAIN ReadEmbedded(doc) : i < k => at[i] < at[k]
           /\ \A i \in DOMAIN ReadEmbedded(doc) : AsIn(ReadEmbedded(doc)[i], doc.embedded[at[i]])
<1> DEFINE emb == doc.embedded
           n == Len(emb)
           Attributes == {ReadAttributes(emb[i]) : i \in 1..n}
           With(k) == {j \in 1..k : Named(emb[j])}
<1>1. n \in Nat /\ DOMAIN emb = 1..n /\ emb \in Seq(ToSet(emb))
  BY DEF Readable
<1>2. PICK run :
        /\ run[0] = <<>> /\ run[n] = ReadEmbedded(doc)
        /\ \A k \in 0 .. n - 1 : run[k + 1] = AddNamed(run[k], ReadAttributes(emb[k + 1]))
  BY EmbeddedLoop
<1> HIDE DEF emb, n
<1> DEFINE Good(k) ==
      /\ run[k] \in Seq(Attributes)
      /\ \E at \in [1 .. Len(run[k]) -> With(k)] :
           /\ \A j \in With(k) : \E i \in 1 .. Len(run[k]) : at[i] = j
           /\ \A i, m \in 1 .. Len(run[k]) : i < m => at[i] < at[m]
           /\ \A i \in 1 .. Len(run[k]) : run[k][i] = ReadAttributes(emb[at[i]])
           T == {k \in 0..n : Good(k)}
<1>3. 0 \in T
  <2>1. run[0] \in Seq(Attributes) /\ Len(run[0]) = 0
    BY <1>2
  <2>2. With(0) = {} /\ 1..0 = {}
    OBVIOUS
  <2>3. <<>> \in [1 .. 0 -> With(0)]
    BY <2>2
  <2>4. Good(0)
    BY <2>1, <2>2, <2>3
  <2> HIDE DEF Good
  <2> QED
    BY <1>1, <2>4
<1>4. ASSUME NEW k \in 0 .. n - 1, k \in T
      PROVE  k + 1 \in T
  <2> DEFINE texts == ReadAttributes(emb[k + 1])
             list == run[k]
             len == Len(list)
  <2>1. list \in Seq(Attributes) /\ len \in Nat
    BY <1>4
  <2>2. PICK at \in [1..len -> With(k)] :
           /\ \A j \in With(k) : \E i \in 1..len : at[i] = j
           /\ \A i, m \in 1..len : i < m => at[i] < at[m]
           /\ \A i \in 1..len : list[i] = ReadAttributes(emb[at[i]])
    BY <1>4
  <2>3. run[k + 1] = AddNamed(list, texts)
    BY <1>2
  <2>4. texts["friendlyName"] # "" <=> Named(emb[k + 1])
    BY DEF ReadAttributes, Named, ReadElements, WrittenElements
  <2>5. texts \in Attributes /\ k + 1 \in 0..n
    BY <1>1
  <2> HIDE DEF list, len, texts, Attributes
  <2>6. CASE ~Named(emb[k + 1])
    <3>1. run[k + 1] = list
      BY <2>3, <2>4, <2>6 DEF AddNamed
    <3>2. With(k + 1) = With(k)
      BY <2>6
    <3> HIDE DEF With
    <3>3. Good(k + 1)
      BY <2>1, <2>2, <3>1, <3>2 DEF len
    <3> HIDE DEF Good
    <3> QED
      BY <2>5, <3>3
  <2>7. CASE Named(emb[k + 1])
    <3>1. run[k + 1] = Append(list, texts)
      BY <2>3, <2>4, <2>7 DEF AddNamed
    <3>2. With(k + 1) = With(k) \cup {k + 1} /\ \A j \in With(k) : j \in Nat /\ j < k + 1
      BY <2>7
    <3> HIDE DEF With
    <3> DEFINE bt == [i \in 1 .. len + 1 |-> IF i = len + 1 THEN k + 1 ELSE at[i]]
    <3>3. /\ Append(list, texts) \in Seq(Attributes)
          /\ Len(Append(list, texts)) = len + 1
          /\ Append(list, texts)[len + 1] = texts
          /\ \A i \in 1..len : Append(list, texts)[i] = list[i]
      BY <2>1, <2>5 DEF len
    <3>4. /\ bt \in [1 .. len + 1 -> With(k + 1)]
          /\ bt[len + 1] = k + 1 /\ \A i \in 1..len : bt[i] = at[i] /\ at[i] \in With(k)
      BY <2>1, <2>2, <3>2
    <3> HIDE DEF bt
    <3>5. \A j \in With(k + 1) : \E i \in 1 .. len + 1 : bt[i] = j
      BY <2>1, <2>2, <3>2, <3>4
    <3>6. ASSUME NEW i \in 1 .. len + 1, NEW m \in 1 .. len + 1, i < m
          PROVE  bt[i] < bt[m]
      <4>1. i \in 1..len /\ bt[i] = at[i] /\ at[i] \in With(k) /\ at[i] < k + 1
        BY <2>1, <3>2, <3>4, <3>6
      <4>2. CASE m = len + 1
        BY <3>4, <4>1, <4>2
      <4>3. CASE m # len + 1
        <5>1. m \in 1..len /\ bt[m] = at[m]
          BY <2>1, <3>4, <4>3
        <5> QED
          BY <2>2, <3>6, <4>1, <5>1
      <4> QED
        BY <4>2, <4>3
    <3>7. \A i \in 1 .. len + 1 : run[k + 1][i] = ReadAttributes(emb[bt[i]])
      BY <2>1, <2>2, <3>1, <3>3, <3>4 DEF texts
    <3>8. Good(k + 1)
      BY <3>1, <3>3, <3>4, <3>5, <3>6, <3>7
    <3> HIDE DEF Good
    <3> QED
      BY <2>5, <3>8
  <2> QED
    BY <2>6, <2>7
<1>5. Good(n)
  <2> HIDE DEF Good
  <2>1. T \in SUBSET Nat
    OBVIOUS
  <2> HIDE DEF T
  <2>2. n \in T
    BY <1>1, <1>3, <1>4, <2>1, Induction
  <2> QED
    BY <2>2 DEF T
<1>6. run[n] \in Seq(Attributes) /\ run[n] = ReadEmbedded(doc)
  BY <1>2, <1>5
<1>7. DOMAIN run[n] = 1 .. Len(run[n])
  BY <1>6
<1>8. PICK at \in [1 .. Len(run[n]) -> With(n)] :
           /\ \A j \in With(n) : \E i \in 1 .. Len(run[n]) : at[i] = j
           /\ \A i, m \in 1 .. Len(run[n]) : i < m => at[i] < at[m]
           /\ \A i \in 1 .. Len(run[n]) : run[n][i] = ReadAttributes(emb[at[i]])
  BY <1>5
<1>9. ASSUME NEW i \in DOMAIN run[n]
      PROVE  AsIn(run[n][i], emb[at[i]])
  <2>1. at[i] \in 1..n /\ run[n][i] = ReadAttributes(emb[at[i]])
    BY <1>7, <1>8, <1>9
  <2>2. Readable(emb[at[i]])
    BY <1>1, <2>1 DEF ToSet, emb
  <2> QED
    BY <2>1, <2>2, AttributesAsIn
<1>10. With(n) = {j \in DOMAIN emb : Named(emb[j])}
  BY <1>1
<1> HIDE DEF With
<1> QED
  BY <1>6, <1>7, <1>8, <1>9, <1>10 DEF emb

\* What a device writes of itself can be read, and so can what other makes write.
LEMMA DocumentsReadable ==
  ASSUME DeviceShape, NEW doc \in ForeignDocuments \cup {WholeDocument}
  PROVE  /\ Readable(doc) /\ IconsReadable(doc)
         /\ \A d \in ToSet(doc.embedded) : Readable(d)
<1>1. CASE doc \in ForeignDocuments
  BY <1>1, DocumentAssumption DEF Readable, IconsReadable
<1>2. CASE doc = WholeDocument
  <2> DEFINE written == [i \in DOMAIN device.embedded |-> WriteDevice(device.embedded[i], <<>>)]
  <2>1. doc.embedded = written /\ doc.iconList = <<device.icons>>
    BY <1>2 DEF WholeDocument, WriteDevice, Document
  <2>2. Len(device.embedded) \in Nat /\ DOMAIN device.embedded = 1 .. Len(device.embedded)
    BY DEF DeviceShape
  <2>3. written \in Seq(ToSet(written))
    BY <2>2 DEF ToSet
  <2>4. \A i \in DOMAIN device.embedded :
          written[i].embedded = <<>> /\ written[i].iconList = << <<>> >>
    <3>1. \A i \in DOMAIN device.embedded : device.embedded[i] \in EmbeddedDevices
      BY DEF DeviceShape
    <3> QED
      BY <3>1 DEF EmbeddedDevices, WriteDevice, Document
  <2>5. \A d \in ToSet(written) : d.embedded = <<>> /\ d.iconList = << <<>> >>
    BY <2>4 DEF ToSet
  <2>6. device.icons \in Seq(ToSet(device.icons)) /\ << <<>> >>[1] = <<>> /\ <<>> \in Seq(ToSet(<<>>))
    BY DEF DeviceShape, ToSet
  <2> HIDE DEF written
  <2>7. ASSUME NEW d \in {doc} \cup ToSet(doc.embedded)
        PROVE  d.iconList[1] \in Seq(ToSet(d.iconList[1]))
    <3>1. CASE d = doc
      <4>1. d.iconList[1] = device.icons
        BY <2>1, <3>1
      <4> QED
        BY <2>6, <4>1
    <3>2. CASE d \in ToSet(written)
      <4>1. d.iconList[1] = <<>>
        BY <2>5, <2>6, <3>2
      <4> QED
        BY <2>6, <4>1
    <3> QED
      BY <2>1, <3>1, <3>2
  <2> QED
    BY <2>1, <2>3, <2>5, <2>7 DEF Readable, IconsReadable
<1> QED
  BY <1>1, <1>2

LEMMA DeviceStep == DeviceShape /\ [DocumentNext]_documentVars => DeviceShape'
<1> SUFFICES ASSUME DeviceShape, [DocumentNext]_documentVars PROVE DeviceShape'
  OBVIOUS
<1>1. CASE UNCHANGED device
  BY <1>1 DEF DeviceShape
<1>2. ASSUME NEW a \in Settable, NEW text \in DocText, SetDeviceAttribute(a, text)
      PROVE  DeviceShape'
  BY <1>2 DEF SetDeviceAttribute, DeviceShape
<1>3. ASSUME NEW url \in IconUrl, AddDeviceIcon(url)
      PROVE  DeviceShape'
  <2>1. device' = [device EXCEPT !.icons = Append(@, url)]
    BY <1>3 DEF AddDeviceIcon
  <2>2. Append(device.icons, url) \in Seq(IconUrl)
    BY DEF DeviceShape
  <2>3. /\ DOMAIN device' = DOMAIN device /\ device'.embedded = device.embedded
        /\ device'.icons = Append(device.icons, url)
    BY <2>1 DEF DeviceShape
  <2> QED
    BY <2>2, <2>3 DEF DeviceShape
<1>4. ASSUME NEW name \in {"embedded", ""}, EmbedDevice(name)
      PROVE  DeviceShape'
  <2> DEFINE texts == [a \in WrittenElements |-> IF a = "friendlyName" THEN name ELSE "embedded"]
             new == [attributes |-> texts, icons |-> <<>>]
  <2>1. new \in EmbeddedDevices
    BY DEF EmbeddedDevices
  <2>2. device' = [device EXCEPT !.embedded = Append(@, new)]
    BY <1>4 DEF EmbedDevice
  <2> HIDE DEF new
  <2>3. Append(device.embedded, new) \in Seq(EmbeddedDevices)
    <3>1. device.embedded \in Seq(EmbeddedDevices)
      BY DEF DeviceShape
    <3> QED
      BY <2>1, <3>1, AppendProperties, Zenon
  <2>4. /\ DOMAIN device' = DOMAIN device /\ device'.icons = device.icons
        /\ device'.embedded = Append(device.embedded, new)
    BY <2>2 DEF DeviceShape
  <2> QED
    BY <2>3, <2>4 DEF DeviceShape
<1> QED
  BY <1>1, <1>2, <1>3, <1>4
    DEF DocumentNext, ReadDocument, ClearDevice, RequestIcons, IconReply, documentVars

\* What is found is what the document says.
LEMMA ReadTravels ==
  ASSUME NEW doc, Readable(doc), IconsReadable(doc), \A d \in ToSet(doc.embedded) : Readable(d),
         ReadDocument(doc)
  PROVE  DocumentTravels'
<1>1. CASE doc.form # "root"
  <2>1. found'.source = doc
    BY <1>1 DEF ReadDocument, EmptyDevice
  <2> QED
    BY <1>1, <2>1 DEF DocumentTravels
<1>2. CASE doc.form = "root"
  <2>1. /\ found'.source = doc /\ found'.attributes = ReadAttributes(doc)
        /\ found'.embedded = ReadEmbedded(doc) /\ found'.listed = Len(ReadIcons(doc))
    BY <1>2 DEF ReadDocument
  <2>2. AsIn(ReadAttributes(doc), doc)
    BY AttributesAsIn
  <2>3. IconsAsIn(doc)'
    <3>1. icons' = ReadIcons(doc)
      BY <1>2 DEF ReadDocument
    <3> QED
      BY <2>1, <3>1, IconsListed DEF IconsAsIn
  <2>4. PICK at \in [DOMAIN ReadEmbedded(doc) -> {j \in DOMAIN doc.embedded : Named(doc.embedded[j])}] :
           /\ \A j \in {i \in DOMAIN doc.embedded : Named(doc.embedded[i])} :
                \E i \in DOMAIN ReadEmbedded(doc) : at[i] = j
           /\ \A i, k \in DOMAIN ReadEmbedded(doc) : i < k => at[i] < at[k]
           /\ \A i \in DOMAIN ReadEmbedded(doc) : AsIn(ReadEmbedded(doc)[i], doc.embedded[at[i]])
    BY NamedInOrder
  <2> QED
    BY <2>1, <2>2, <2>3, <2>4 DEF DocumentTravels
<1> QED
  BY <1>1, <1>2

-----------------------------------------------------------------------------
(* The download of the icons.  Each reply is counted once for every call so far, so the *)
(* count is at least the number of icons that have answered all their calls; the        *)
(* signal has come exactly when the count has reached the number of icons.              *)

Answered == {i \in DOMAIN icons : icons[i].waiting = 0}

IconShape(i) ==
  /\ DOMAIN icons[i] = {"url", "waiting", "connections"}
  /\ icons[i].connections = downloads
  /\ icons[i].waiting \in 0..downloads

IconsCounted ==
  /\ IsFiniteSet(DOMAIN icons) /\ \A i \in DOMAIN icons : IconShape(i)
  /\ downloads \in Nat /\ downloaded \in Nat /\ ready \in {0, 1} /\ ~early
  /\ found.listed \in {0, Cardinality(DOMAIN icons)}
  /\ downloads = 0 => downloaded = 0 /\ ready = 0
  /\ downloads = 1 => downloaded = Cardinality(Answered)
  /\ downloads > 0 => downloaded >= Cardinality(Answered)
  /\ ready = 1 => downloaded >= Cardinality(DOMAIN icons)
  /\ found.listed > 0 /\ downloaded >= found.listed => ready = 1

LEMMA AnsweredCounted ==
  ASSUME IsFiniteSet(DOMAIN icons)
  PROVE  /\ IsFiniteSet(Answered) /\ Cardinality(Answered) \in Nat /\ Cardinality(DOMAIN icons) \in Nat
         /\ Cardinality(Answered) <= Cardinality(DOMAIN icons)
         /\ Cardinality(Answered) = Cardinality(DOMAIN icons) => Answered = DOMAIN icons
<1>1. Answered \subseteq DOMAIN icons
  BY DEF Answered
<1> QED
  BY <1>1, FS_Subset, FS_CardinalityType

LEMMA ReadCounted ==
  ASSUME NEW doc, Readable(doc), IconsReadable(doc), ReadDocument(doc)
  PROVE  IconsCounted'
<1>1. downloaded' = 0 /\ downloads' = 0 /\ ready' = 0 /\ early' = FALSE
  BY DEF ReadDocument
<1>2. CASE doc.form # "root"
  <2>1. icons' = <<>> /\ found'.listed = 0
    BY <1>2 DEF ReadDocument, EmptyDevice
  <2>2. DOMAIN icons' = {} /\ IsFiniteSet({}) /\ Cardinality({}) = 0
    BY <2>1, FS_EmptySet
  <2> QED
    BY <1>1, <2>1, <2>2 DEF IconsCounted
<1>3. CASE doc.form = "root"
  <2>1. icons' = ReadIcons(doc) /\ found'.listed = Len(ReadIcons(doc))
    BY <1>3 DEF ReadDocument
  <2>2. /\ Len(icons') \in Nat /\ DOMAIN icons' = 1 .. Len(icons')
        /\ \E url : \A i \in DOMAIN icons' : icons'[i] = [url |-> url, waiting |-> 0, connections |-> 0]
    BY <2>1, IconsListed
  <2>3. IsFiniteSet(DOMAIN icons') /\ Cardinality(DOMAIN icons') = Len(icons')
    BY <2>2, FS_Interval
  <2>4. \A i \in DOMAIN icons' : IconShape(i)'
    BY <1>1, <2>2 DEF IconShape
  <2> QED
    BY <1>1, <2>1, <2>2, <2>3, <2>4 DEF IconsCounted
<1> QED
  BY <1>2, <1>3

LEMMA RequestCounted ==
  ASSUME IconsCounted, RequestIcons
  PROVE  IconsCounted'
<1>0. icons' = [i \in DOMAIN icons |-> [icons[i] EXCEPT !.waiting = @ + 1, !.connections = @ + 1]]
  BY DEF RequestIcons
<1>1. /\ downloaded' = 0 /\ downloads' = downloads + 1 /\ ready' = 0 /\ early' = early
      /\ found' = found /\ found.listed > 0
  BY DEF RequestIcons
<1>2. DOMAIN icons' = DOMAIN icons
  BY <1>0
<1>3. ASSUME NEW i \in DOMAIN icons
      PROVE  /\ DOMAIN icons'[i] = {"url", "waiting", "connections"}
             /\ icons'[i].waiting = icons[i].waiting + 1
             /\ icons'[i].connections = icons[i].connections + 1
  BY <1>0 DEF IconsCounted, IconShape
<1>4. ASSUME NEW i \in DOMAIN icons
      PROVE  IconShape(i)' /\ icons'[i].waiting > 0
  <2>1. /\ downloads \in Nat /\ icons[i].waiting \in 0..downloads
        /\ icons[i].connections = downloads
    BY DEF IconsCounted, IconShape
  <2>2. icons'[i].waiting \in 1..downloads' /\ icons'[i].connections = downloads'
    BY <1>1, <1>3, <2>1
  <2> QED
    BY <1>3, <2>2 DEF IconShape
<1>5. Answered' = {}
  BY <1>2, <1>4 DEF Answered
<1>6. Cardinality(Answered') = 0
  BY <1>5, FS_EmptySet
<1>7. /\ Cardinality(DOMAIN icons) \in Nat /\ downloads \in Nat /\ ~early
      /\ IsFiniteSet(DOMAIN icons) /\ found.listed \in {0, Cardinality(DOMAIN icons)}
  BY AnsweredCounted DEF IconsCounted
<1>8. \A i \in DOMAIN icons' : IconShape(i)'
  BY <1>2, <1>4
<1>9. ~early'
  BY <1>1, <1>7
<1>10. /\ IsFiniteSet(DOMAIN icons') /\ found'.listed \in {0, Cardinality(DOMAIN icons')}
       /\ downloads' \in Nat /\ downloads' > 0
  BY <1>1, <1>2, <1>7
<1>11. ~(found'.listed > 0 /\ downloaded' >= found'.listed)
  BY <1>1, <1>7
<1> QED
  BY <1>1, <1>6, <1>8, <1>9, <1>10, <1>11 DEF IconsCounted

LEMMA ReplyCounted ==
  ASSUME IconsCounted, NEW i \in DOMAIN icons, IconReply(i)
  PROVE  IconsCounted'
<1> DEFINE n == icons[i].connections
           listed == found.listed
           all == Cardinality(DOMAIN icons)
           answered == Cardinality(Answered)
<1>1. /\ icons[i].waiting > 0 /\ icons' = [icons EXCEPT ![i].waiting = @ - 1]
      /\ downloaded' = downloaded + n
      /\ ready' = IF listed \in downloaded + 1 .. downloaded + n THEN ready + 1 ELSE ready
      /\ early' = (early \/ (downloads = 1 /\ ready' > 0 /\ \E j \in DOMAIN icons : icons'[j].waiting > 0))
      /\ found' = found /\ downloads' = downloads
  BY DEF IconReply, CountDownloads
<1>2. /\ DOMAIN icons' = DOMAIN icons
      /\ \A j \in DOMAIN icons : j # i => icons'[j] = icons[j]
      /\ DOMAIN icons'[i] = {"url", "waiting", "connections"}
      /\ icons'[i].waiting = icons[i].waiting - 1 /\ icons'[i].connections = icons[i].connections
  BY <1>1 DEF IconsCounted, IconShape
<1>3. \A j \in DOMAIN icons : IconShape(j)'
  BY <1>1, <1>2 DEF IconsCounted, IconShape
<1>4. n = downloads /\ n \in Nat /\ n >= 1 /\ (n = 1 => icons[i].waiting = 1)
  BY <1>1 DEF IconsCounted, IconShape
<1>5. /\ i \notin Answered
      /\ Answered' \in {Answered, Answered \cup {i}}
      /\ n = 1 => Answered' = Answered \cup {i}
  <2>1. i \notin Answered
    BY <1>1 DEF Answered
  <2>2. Answered' = IF icons[i].waiting = 1 THEN Answered \cup {i} ELSE Answered
    <3>1. icons[i].waiting \in Nat
      BY DEF IconsCounted, IconShape
    <3>2. Answered' = {j \in DOMAIN icons : icons'[j].waiting = 0}
      BY <1>2 DEF Answered
    <3>3. i \in Answered' <=> icons[i].waiting = 1
      BY <1>2, <3>1, <3>2
    <3>4. \A j \in DOMAIN icons : j # i => (j \in Answered' <=> j \in Answered)
      BY <1>2, <3>2 DEF Answered
    <3>5. Answered' \subseteq DOMAIN icons /\ Answered \subseteq DOMAIN icons
      BY <3>2 DEF Answered
    <3> QED
      BY <2>1, <3>3, <3>4, <3>5
  <2> QED
    BY <1>4, <2>1, <2>2
<1>6. /\ IsFiniteSet(Answered) /\ answered \in Nat /\ all \in Nat
      /\ answered <= all /\ (answered = all => Answered = DOMAIN icons)
  BY AnsweredCounted DEF IconsCounted
<1>7. Cardinality(Answered \cup {i}) = answered + 1
  BY <1>5, <1>6, FS_AddElement
<1>8. /\ Cardinality(Answered') \in {answered, answered + 1}
      /\ n = 1 => Cardinality(Answered') = answered + 1
  BY <1>5, <1>7
<1>9. /\ downloads \in Nat /\ downloaded \in Nat /\ ready \in {0, 1} /\ ~early
      /\ listed \in {0, all}
      /\ downloads = 1 => downloaded = answered
      /\ downloads > 0 => downloaded >= answered
      /\ ready = 1 => downloaded >= all
      /\ listed > 0 /\ downloaded >= listed => ready = 1
  BY DEF IconsCounted
<1>10. Cardinality(Answered') <= all /\ (Cardinality(Answered') = all => Answered' = DOMAIN icons)
  <2>1. IsFiniteSet(DOMAIN icons')
    BY <1>2 DEF IconsCounted
  <2>2. Answered' \subseteq DOMAIN icons'
    BY DEF Answered
  <2> QED
    BY <1>2, <2>1, <2>2, FS_Subset
<1> HIDE DEF n, listed, all, answered
<1>11. /\ downloaded' \in Nat /\ ready' \in {0, 1}
       /\ ready' = 1 => downloaded' >= all
       /\ listed > 0 /\ downloaded' >= listed => ready' = 1
       /\ downloaded' >= Cardinality(Answered')
       /\ downloads = 1 => downloaded' = Cardinality(Answered')
  <2> DEFINE count == Cardinality(Answered')
  <2>0. count \in {answered, answered + 1} /\ (n = 1 => count = answered + 1)
    BY <1>8
  <2> HIDE DEF count
  <2>1. CASE listed \in downloaded + 1 .. downloaded + n
    BY <1>1, <1>4, <1>6, <1>9, <2>0, <2>1 DEF count
  <2>2. CASE listed \notin downloaded + 1 .. downloaded + n
    BY <1>1, <1>4, <1>6, <1>9, <2>0, <2>2 DEF count
  <2> QED
    BY <2>1, <2>2
<1>12. ~early'
  <2> DEFINE Before == downloads = 1 /\ ready' > 0 /\ \E j \in DOMAIN icons : icons'[j].waiting > 0
  <2>0. early' = (early \/ Before) /\ ~early
    BY <1>1, <1>9
  <2> SUFFICES ASSUME Before PROVE FALSE
    <3> HIDE DEF Before
    <3> QED
      BY <2>0
  <2> PICK j \in DOMAIN icons : icons'[j].waiting > 0
    OBVIOUS
  <2>1. Cardinality(Answered') = all
    BY <1>6, <1>8, <1>10, <1>11
  <2>2. j \in Answered'
    BY <1>10, <2>1
  <2>3. icons'[j].waiting = 0
    BY <2>2 DEF Answered
  <2> QED
    BY <2>3
<1> QED
  BY <1>1, <1>2, <1>3, <1>4, <1>9, <1>11, <1>12 DEF IconsCounted, listed, all

-----------------------------------------------------------------------------

DocumentInv == DeviceShape /\ DocumentTravels /\ IconsCounted

\* The urls of the icons stay while they are downloaded.
LEMMA UrlsKept ==
  ASSUME DocumentTravels, UNCHANGED found, DOMAIN icons' = DOMAIN icons,
         \A i \in DOMAIN icons : icons'[i].url = icons[i].url
  PROVE  DocumentTravels'
<1>1. IconsAsIn(found.source) => IconsAsIn(found.source)'
  BY DEF IconsAsIn
<1> QED
  BY <1>1 DEF DocumentTravels

LEMMA DocumentStep == DocumentInv /\ [DocumentNext]_documentVars => DocumentInv'
<1> SUFFICES ASSUME DocumentInv, [DocumentNext]_documentVars PROVE DocumentTravels' /\ IconsCounted'
  BY DeviceStep DEF DocumentInv
<1>1. CASE UNCHANGED foundVars
  <2>1. UNCHANGED <<found, icons, downloaded, downloads, ready, early>>
    BY <1>1 DEF foundVars
  <2>2. DocumentTravels'
    BY <2>1 DEF DocumentInv, DocumentTravels, IconsAsIn
  <2>3. Answered' = Answered /\ \A i \in DOMAIN icons : IconShape(i)' <=> IconShape(i)
    BY <2>1 DEF Answered, IconShape
  <2>4. IconsCounted'
    BY <2>1, <2>3 DEF DocumentInv, IconsCounted
  <2> QED
    BY <2>2, <2>4
<1>2. ASSUME NEW doc \in ForeignDocuments \cup {WholeDocument}, ReadDocument(doc)
      PROVE  DocumentTravels' /\ IconsCounted'
  BY <1>2, DocumentsReadable, ReadTravels, ReadCounted DEF DocumentInv
<1>3. CASE ClearDevice
  <2>1. /\ UNCHANGED <<icons, downloaded, downloads, ready, early>>
        /\ found'.source.form = "none" /\ found'.listed = 0
    BY <1>3 DEF ClearDevice, EmptyDevice, Blank, Document
  <2>2. DocumentTravels'
    BY <2>1 DEF DocumentTravels
  <2>3. Answered' = Answered /\ \A i \in DOMAIN icons : IconShape(i)' <=> IconShape(i)
    BY <2>1 DEF Answered, IconShape
  <2>4. IconsCounted'
    BY <2>1, <2>3 DEF DocumentInv, IconsCounted
  <2> QED
    BY <2>2, <2>4
<1>4. CASE RequestIcons
  <2>1. IconsCounted'
    BY <1>4, RequestCounted DEF DocumentInv
  <2>2. icons' = [i \in DOMAIN icons |-> [icons[i] EXCEPT !.waiting = @ + 1, !.connections = @ + 1]]
    BY <1>4 DEF RequestIcons
  <2>3. \A i \in DOMAIN icons : icons'[i].url = icons[i].url
    BY <2>2 DEF DocumentInv, IconsCounted, IconShape
  <2> QED
    BY <1>4, <2>1, <2>2, <2>3, UrlsKept DEF DocumentInv, RequestIcons
<1>5. ASSUME NEW i \in DOMAIN icons, IconReply(i)
      PROVE  DocumentTravels' /\ IconsCounted'
  <2>1. IconsCounted'
    BY <1>5, ReplyCounted DEF DocumentInv
  <2>2. icons' = [icons EXCEPT ![i].waiting = @ - 1]
    BY <1>5 DEF IconReply
  <2>3. DOMAIN icons' = DOMAIN icons /\ \A j \in DOMAIN icons : icons'[j].url = icons[j].url
    BY <2>2 DEF DocumentInv, IconsCounted, IconShape
  <2> QED
    BY <1>5, <2>1, <2>2, <2>3, UrlsKept DEF DocumentInv, IconReply
<1> QED
  BY <1>1, <1>2, <1>3, <1>4, <1>5
    DEF DocumentNext, SetDeviceAttribute, AddDeviceIcon, EmbedDevice, documentVars

LEMMA DocumentInitially == DocumentInit => DocumentInv
<1> SUFFICES ASSUME DocumentInit PROVE DocumentInv
  OBVIOUS
<1>1. DeviceShape
  BY DEF DocumentInit, DeviceShape
<1>2. found.source.form = "none" /\ found.listed = 0
  BY DEF DocumentInit, EmptyDevice, Blank, Document
<1>3. DocumentTravels
  BY <1>2 DEF DocumentTravels
<1>4. DOMAIN icons = {} /\ IsFiniteSet({}) /\ Cardinality({}) = 0
  BY FS_EmptySet DEF DocumentInit
<1>5. IconsCounted
  BY <1>2, <1>4 DEF DocumentInit, IconsCounted
<1> QED
  BY <1>1, <1>3, <1>5 DEF DocumentInv

\* Whatever a device is made of and whatever document of another make is read, with any
\* number of embedded devices and icons and any number of downloads: what is found is
\* what the document says, except that the name of the model is the manufacturer's, each
\* icon the first, and embedded devices without a name are left out; and each call for
\* the icons is told once that they are there.
THEOREM DeviceFound == DocumentSpec => []FoundAsDescribed
<1>1. DocumentInv => FoundAsDescribed
  <2> SUFFICES ASSUME DocumentInv PROVE IconsReady
    BY DEF DocumentInv, FoundAsDescribed
  <2>1. IconsCounted
    BY DEF DocumentInv
  <2>2. ASSUME found.listed > 0, downloads > 0, \A i \in DOMAIN icons : icons[i].waiting = 0
        PROVE  ready = 1
    <3>1. Answered = DOMAIN icons
      BY <2>2 DEF Answered
    <3> QED
      BY <2>1, <2>2, <3>1, AnsweredCounted DEF IconsCounted
  <2> QED
    BY <2>1, <2>2 DEF IconsCounted, IconsReady
<1> QED
  BY <1>1, DocumentInitially, DocumentStep, PTL DEF DocumentSpec

-----------------------------------------------------------------------------
(* Multicast.  Until the counter wraps, the key of a datagram is its place among those   *)
(* sent, and the last one of a name has the value of the first variable of the name: the *)
(* application sets that one, and a start sets all of them, one after the other, to the  *)
(* same value.                                                                          *)

McDatagrams == [form : {"event"}, usn : {"own"}, seq : Nat, name : McVar, value : McValue]
McVariables == [name : McVar, value : McValue \cup {Unset}, controllers : Nat]

ServiceStates == [list : Seq(McVariables), counter : Nat, sent : Seq(McDatagrams)]
Services(n) == {s \in ServiceStates : Len(s.list) = n}

Keyed(s) ==
  Len(s.sent) <= McSeqMax =>
    s.counter = Len(s.sent) /\ \A i \in 1..Len(s.sent) : s.sent[i].seq = i - 1

\* What was sent between two states, if all of it is of one name and value.
Longer(s, t, name, value) ==
  /\ Len(s.sent) <= Len(t.sent)
  /\ \A i \in 1..Len(s.sent) : t.sent[i] = s.sent[i]
  /\ \A i \in Len(s.sent) + 1 .. Len(t.sent) : t.sent[i].name = name /\ t.sent[i].value = value

LEMMA AnnounceTyped ==
  ASSUME NEW n \in Nat, NEW s \in Services(n), NEW v, v.name \in McVar, v.value \in McValue
  PROVE  /\ Announce(s, v) \in Services(n)
         /\ Announce(s, v).list = s.list
         /\ Announce(s, v).counter = NextKey(s.counter) + 1
         /\ Announce(s, v).sent = Append(s.sent, Datagram("own", NextKey(s.counter), v.name, v.value))
<1> DEFINE key == NextKey(s.counter)
           d == Datagram("own", key, v.name, v.value)
           more == Append(s.sent, d)
           next == key + 1
           t == [s EXCEPT !.counter = next, !.sent = more]
<1>0. s \in ServiceStates /\ s.counter \in Nat /\ s.sent \in Seq(McDatagrams) /\ Len(s.list) = n
  BY DEF Services, ServiceStates
<1>1. key \in Nat
  BY <1>0 DEF NextKey
<1>2. d \in McDatagrams
  BY <1>1 DEF Datagram, McDatagrams
<1>3. more \in Seq(McDatagrams)
  <2> HIDE DEF d
  <2> QED
    BY <1>0, <1>2, AppendProperties
<1>4. Announce(s, v) = t
  BY DEF Announce
<1>5. next \in Nat
  BY <1>1
<1> HIDE DEF more, key, next
<1> DEFINE list == s.list
           c == s.counter
           sent0 == s.sent
<1>6. s = [list |-> list, counter |-> c, sent |-> sent0] /\ list \in Seq(McVariables)
  BY <1>0 DEF ServiceStates
<1> HIDE DEF list, c, sent0
<1>7. t = [list |-> list, counter |-> next, sent |-> more]
  <2> DEFINE u == [s EXCEPT !.counter = next]
  <2>1. t = [u EXCEPT !.sent = more]
    OBVIOUS
  <2>2. u = [list |-> list, counter |-> next, sent |-> sent0]
    BY <1>6
  <2> HIDE DEF u, t
  <2> QED
    BY <2>1, <2>2
<1> HIDE DEF t
<1>8. t \in ServiceStates /\ t.list = list /\ t.counter = next /\ t.sent = more
  BY <1>3, <1>5, <1>6, <1>7 DEF ServiceStates
<1> QED
  BY <1>0, <1>4, <1>8 DEF Services, more, key, next, list

LEMMA AnnounceDoes ==
  ASSUME NEW n \in Nat, NEW s \in Services(n), Keyed(s),
         NEW v, v.name \in McVar, v.value \in McValue
  PROVE  /\ Keyed(Announce(s, v))
         /\ Longer(s, Announce(s, v), v.name, v.value)
         /\ Len(Announce(s, v).sent) = Len(s.sent) + 1
<1> DEFINE key == NextKey(s.counter)
           d == Datagram("own", key, v.name, v.value)
           t == Announce(s, v)
<1>0. s.counter \in Nat /\ s.sent \in Seq(McDatagrams)
  BY DEF Services, ServiceStates
<1>1. key \in Nat /\ (s.counter <= McSeqMax - 1 => key = s.counter)
  BY <1>0, MulticastAssumption DEF NextKey
<1>2. d \in McDatagrams /\ d.name = v.name /\ d.value = v.value /\ d.seq = key
  BY <1>1 DEF Datagram, McDatagrams
<1>3. t.counter = key + 1 /\ t.sent = Append(s.sent, d)
  BY AnnounceTyped
<1> HIDE DEF t, d, key
<1>4. /\ Len(t.sent) = Len(s.sent) + 1
      /\ \A i \in 1..Len(s.sent) : t.sent[i] = s.sent[i]
      /\ t.sent[Len(s.sent) + 1] = d
      /\ Len(s.sent) \in Nat
  BY <1>0, <1>2, <1>3, AppendProperties, LenProperties
<1>6. Keyed(t)
  <2> SUFFICES ASSUME Len(t.sent) <= McSeqMax
               PROVE  t.counter = Len(t.sent) /\ \A i \in 1..Len(t.sent) : t.sent[i].seq = i - 1
    BY DEF Keyed
  <2>1. Len(s.sent) <= McSeqMax - 1 /\ McSeqMax \in Nat
    BY <1>4, MulticastAssumption
  <2>2. s.counter = Len(s.sent) /\ \A i \in 1..Len(s.sent) : s.sent[i].seq = i - 1
    BY <1>4, <2>1 DEF Keyed
  <2>3. key = Len(s.sent)
    BY <1>1, <2>1, <2>2
  <2>4. ASSUME NEW i \in 1..Len(t.sent)
        PROVE  t.sent[i].seq = i - 1
    <3>1. CASE i = Len(s.sent) + 1
      BY <1>2, <1>4, <2>3, <3>1
    <3>2. CASE i # Len(s.sent) + 1
      <4>1. i \in 1..Len(s.sent)
        BY <1>4, <3>2
      <4> QED
        BY <1>4, <2>2, <4>1
    <3> QED
      BY <3>1, <3>2
  <2> QED
    BY <1>3, <1>4, <2>3, <2>4
<1>7. Longer(s, t, v.name, v.value)
  <2>1. ASSUME NEW i \in Len(s.sent) + 1 .. Len(t.sent)
        PROVE  t.sent[i] = d
    <3>1. i = Len(s.sent) + 1
      BY <1>4
    <3> QED
      BY <1>4, <3>1
  <2> QED
    BY <1>2, <1>4, <2>1 DEF Longer
<1> QED
  BY <1>4, <1>6, <1>7 DEF t

\* The controllers announce the value one after the other.
LEMMA AnnounceLoop ==
  ASSUME NEW m \in Nat, NEW s \in Services(m),
         NEW v, v.name \in McVar, v.value \in McValue, v.controllers \in Nat
  PROVE  \E run :
           /\ run[0] = s /\ run[v.controllers] = AnnounceInAll(s, v)
           /\ \A k \in 0 .. v.controllers - 1 : run[k + 1] = Announce(run[k], v)
<1> DEFINE n == v.controllers
           V == Services(m)
           g == [p \in V \X (1..n) |-> Announce(p[1], v)]
           Loop(iter) == iter = [S \in SUBSET (1..n) |->
                                   IF S = {} THEN s ELSE Announce(iter[S \ {Max(S)}], v)]
<1>1. AnnounceInAll(s, v) = (CHOOSE iter : Loop(iter))[1..n]
  BY DEF AnnounceInAll, FoldLeft, MapThenFoldSet
<1> HIDE DEF n
<1>2. n \in Nat
  BY DEF n
<1>3. g \in [V \X (1..n) -> V]
  BY AnnounceTyped
<1> HIDE DEF V
<1>4. PICK f \in [SUBSET (1..n) -> V] : FoldsUpTo(f, n, s, g)
  <2>1. s \in V
    BY DEF V
  <2> HIDE DEF g
  <2> QED
    BY <1>2, <1>3, <2>1, FoldIsThere
<1>5. Loop(f)
  <2>1. ASSUME NEW S \in SUBSET (1..n)
        PROVE  f[S] = IF S = {} THEN s ELSE Announce(f[S \ {Max(S)}], v)
    <3>1. CASE S = {}
      BY <1>4, <3>1 DEF FoldsUpTo
    <3>2. CASE S # {}
      <4>1. Max(S) \in 1..n
        BY <1>2, <3>2, MaxExists
      <4>2. f[S \ {Max(S)}] \in V
        OBVIOUS
      <4>3. f[S] = g[<<f[S \ {Max(S)}], Max(S)>>]
        <5> HIDE DEF g
        <5> QED
          BY <1>4, <3>2 DEF FoldsUpTo
      <4> QED
        BY <3>2, <4>1, <4>2, <4>3
    <3> QED
      BY <3>1, <3>2
  <2> HIDE DEF g
  <2> QED
    BY <2>1
<1> DEFINE iter == CHOOSE iter : Loop(iter)
           run == [k \in 0..n |-> iter[1..k]]
<1>6. Loop(iter)
  <2> HIDE DEF Loop
  <2> QED
    BY <1>5
<1>7. iter = [S \in SUBSET (1..n) |-> IF S = {} THEN s ELSE Announce(iter[S \ {Max(S)}], v)]
  <2> HIDE DEF iter
  <2> QED
    BY <1>6
<1>8. AnnounceInAll(s, v) = iter[1..n]
  BY <1>1
<1> HIDE DEF iter, Loop
<1>9. run[0] = s
  <2>1. 1..0 = {} /\ 1..0 \in SUBSET (1..n)
    OBVIOUS
  <2>2. iter[1..0] = s
    BY <1>7, <2>1
  <2> QED
    BY <1>2, <2>2
<1>10. ASSUME NEW k \in 0 .. n - 1
       PROVE  run[k + 1] = Announce(run[k], v)
  <2>1. /\ 1 .. k + 1 # {} /\ Max(1 .. k + 1) = k + 1
        /\ (1 .. k + 1) \ {k + 1} = 1..k
    <3>1. k \in Nat
      BY <1>2
    <3> QED
      BY <3>1, LastOfPrefix
  <2>2. 1 .. k + 1 \in SUBSET (1..n)
    BY <1>2
  <2>3. iter[1 .. k + 1] = Announce(iter[1..k], v)
    BY <1>7, <2>1, <2>2
  <2> QED
    BY <1>2, <2>3
<1>11. run[n] = AnnounceInAll(s, v)
  BY <1>2, <1>8
<1> HIDE DEF run
<1> QED
  BY <1>9, <1>10, <1>11 DEF n

\* All of them announce it, behind what was sent.
LEMMA AllAnnounced ==
  ASSUME NEW m \in Nat, NEW s \in Services(m), Keyed(s),
         NEW v, v.name \in McVar, v.value \in McValue, v.controllers \in Nat
  PROVE  /\ AnnounceInAll(s, v) \in Services(m) /\ Keyed(AnnounceInAll(s, v))
         /\ AnnounceInAll(s, v).list = s.list
         /\ Longer(s, AnnounceInAll(s, v), v.name, v.value)
         /\ Len(AnnounceInAll(s, v).sent) = Len(s.sent) + v.controllers
<1> DEFINE n == v.controllers
<1>1. PICK run :
        /\ run[0] = s /\ run[n] = AnnounceInAll(s, v)
        /\ \A k \in 0 .. n - 1 : run[k + 1] = Announce(run[k], v)
  BY AnnounceLoop
<1> HIDE DEF n
<1>2. n \in Nat
  BY DEF n
<1> DEFINE Good(k) ==
      /\ run[k] \in Services(m) /\ Keyed(run[k]) /\ run[k].list = s.list
      /\ Longer(s, run[k], v.name, v.value) /\ Len(run[k].sent) = Len(s.sent) + k
           T == {k \in 0..n : Good(k)}
<1>3. s.sent \in Seq(McDatagrams) /\ Len(s.sent) \in Nat
  BY LenProperties DEF Services, ServiceStates
<1>4. Good(0)
  <2>1. Longer(s, s, v.name, v.value)
    BY <1>3 DEF Longer
  <2> QED
    BY <1>1, <1>3, <2>1
<1>5. ASSUME NEW k \in 0 .. n - 1, Good(k)
      PROVE  Good(k + 1)
  <2> DEFINE a == run[k]
             b == run[k + 1]
  <2>1. b = Announce(a, v)
    BY <1>1
  <2>2. /\ a \in Services(m) /\ Keyed(a) /\ a.list = s.list
        /\ Longer(s, a, v.name, v.value) /\ Len(a.sent) = Len(s.sent) + k
    BY <1>5
  <2> HIDE DEF a, b
  <2>3. b \in Services(m) /\ b.list = s.list
    BY <2>1, <2>2, AnnounceTyped
  <2>4. Keyed(b) /\ Longer(a, b, v.name, v.value) /\ Len(b.sent) = Len(a.sent) + 1
    BY <2>1, <2>2, AnnounceDoes
  <2> DEFINE ns == Len(s.sent)
             na == Len(a.sent)
             nb == Len(b.sent)
  <2>5. na = ns + k /\ nb = na + 1 /\ ns \in Nat /\ k \in Nat
    BY <1>2, <1>3, <2>2, <2>4
  <2>6. /\ \A i \in 1..ns : a.sent[i] = s.sent[i]
        /\ \A i \in ns + 1 .. na : a.sent[i].name = v.name /\ a.sent[i].value = v.value
        /\ \A i \in 1..na : b.sent[i] = a.sent[i]
        /\ \A i \in na + 1 .. nb : b.sent[i].name = v.name /\ b.sent[i].value = v.value
    BY <2>2, <2>4 DEF Longer
  <2>7. nb = ns + (k + 1)
    <3> HIDE DEF ns, na, nb
    <3> QED
      BY <2>5
  <2>8. Longer(s, b, v.name, v.value)
    <3> HIDE DEF ns, na, nb
    <3>1. ns <= nb /\ \A i \in 1..ns : b.sent[i] = s.sent[i]
      <4>1. na \in Nat /\ ns <= na /\ na <= nb
        BY <2>5
      <4> QED
        BY <2>5, <2>6, <4>1
    <3>2. ASSUME NEW i \in ns + 1 .. nb
          PROVE  b.sent[i].name = v.name /\ b.sent[i].value = v.value
      <4>1. na \in Nat /\ nb \in Nat /\ i \in Nat
        BY <2>5
      <4>2. CASE i <= na
        <5>1. i \in ns + 1 .. na /\ i \in 1..na
          BY <2>5, <4>1, <4>2
        <5> QED
          BY <2>6, <5>1
      <4>3. CASE i > na
        <5>1. i \in na + 1 .. nb
          BY <4>1, <4>3
        <5> QED
          BY <2>6, <5>1
      <4> QED
        BY <4>1, <4>2, <4>3
    <3> QED
      BY <3>1, <3>2 DEF Longer, ns, nb
  <2> QED
    BY <2>3, <2>4, <2>7, <2>8 DEF b
<1>6. Good(n)
  <2> HIDE DEF Good
  <2>1. T \in SUBSET Nat /\ 0 \in T /\ \A k \in 0 .. n - 1 : k \in T => k + 1 \in T
    BY <1>2, <1>4, <1>5
  <2> HIDE DEF T
  <2>2. n \in T
    BY <1>2, <2>1, Induction
  <2> QED
    BY <2>2 DEF T
<1> QED
  BY <1>1, <1>6 DEF n

\* A variable is set: the list has the new value, and if it is new it was sent.
LEMMA VariableSet ==
  ASSUME NEW m \in Nat, NEW s \in Services(m), Keyed(s), NEW i \in 1..m, NEW value \in McValue
  PROVE  /\ SetVariable(s, i, value) \in Services(m) /\ Keyed(SetVariable(s, i, value))
         /\ \A j \in 1..m :
              /\ SetVariable(s, i, value).list[j].name = s.list[j].name
              /\ SetVariable(s, i, value).list[j].controllers = s.list[j].controllers
              /\ SetVariable(s, i, value).list[j].value = IF j = i THEN value ELSE s.list[j].value
         /\ Longer(s, SetVariable(s, i, value), s.list[i].name, value)
         /\ s.list[i].value # value =>
              Len(SetVariable(s, i, value).sent) = Len(s.sent) + s.list[i].controllers
<1>0. /\ s = [list |-> s.list, counter |-> s.counter, sent |-> s.sent]
      /\ s.list \in Seq(McVariables) /\ Len(s.list) = m /\ DOMAIN s.list = 1..m
      /\ s.counter \in Nat /\ s.sent \in Seq(McDatagrams) /\ Len(s.sent) \in Nat
  BY LenProperties DEF Services, ServiceStates
<1>1. \A j \in 1..m : s.list[j] \in McVariables
  BY <1>0
<1>2. CASE s.list[i].value = value
  <2>1. Longer(s, s, s.list[i].name, value)
    BY <1>0 DEF Longer
  <2>2. SetVariable(s, i, value) = s
    BY <1>2 DEF SetVariable
  <2> QED
    BY <1>2, <2>1, <2>2
<1>3. CASE s.list[i].value # value
  <2> DEFINE v == [s.list[i] EXCEPT !.value = value]
             list == [s.list EXCEPT ![i] = v]
             set == [s EXCEPT !.list = list]
  <2>1. v \in McVariables /\ v.name = s.list[i].name /\ v.value = value /\ v.controllers = s.list[i].controllers
    BY <1>1 DEF McVariables
  <2>2. v.name \in McVar /\ v.controllers \in Nat
    BY <2>1 DEF McVariables
  <2>3. SetVariable(s, i, value) = AnnounceInAll(set, set.list[i])
    BY <1>3 DEF SetVariable
  <2> HIDE DEF v
  <2>4. list \in Seq(McVariables) /\ Len(list) = m /\ list[i] = v /\ \A j \in 1..m : j # i => list[j] = s.list[j]
    BY <1>0, <2>1
  <2> HIDE DEF list
  <2>5. set = [list |-> list, counter |-> s.counter, sent |-> s.sent]
    BY <1>0
  <2> HIDE DEF set
  <2>6. set \in Services(m) /\ set.list = list /\ set.sent = s.sent /\ Keyed(set)
    <3>1. set \in ServiceStates
      BY <1>0, <2>4, <2>5 DEF ServiceStates
    <3> QED
      BY <2>4, <2>5, <3>1 DEF Services, Keyed
  <2>7. SetVariable(s, i, value) = AnnounceInAll(set, v)
    BY <2>3, <2>4, <2>6
  <2> DEFINE t == AnnounceInAll(set, v)
  <2>8. /\ t \in Services(m) /\ Keyed(t) /\ t.list = set.list
        /\ Longer(set, t, v.name, v.value) /\ Len(t.sent) = Len(set.sent) + v.controllers
    BY <2>1, <2>2, <2>6, AllAnnounced
  <2> HIDE DEF t
  <2>9. Longer(s, t, s.list[i].name, value)
    BY <2>1, <2>6, <2>8 DEF Longer
  <2>10. ASSUME NEW j \in 1..m
         PROVE  /\ t.list[j].name = s.list[j].name /\ t.list[j].controllers = s.list[j].controllers
                /\ t.list[j].value = IF j = i THEN value ELSE s.list[j].value
    BY <2>1, <2>4, <2>6, <2>8
  <2> QED
    BY <1>3, <2>1, <2>6, <2>7, <2>8, <2>9, <2>10 DEF t
<1> QED
  BY <1>2, <1>3

\* The value of a name is that of its first variable; what was sent last of a name has it.
IsFirst(s, v) == \A j \in 1 .. v - 1 : s.list[j].name # s.list[v].name
IsLast(s, i) == \A j \in i + 1 .. Len(s.sent) : s.sent[j].name # s.sent[i].name

LastAsSet(s, m) ==
  /\ \A i \in 1..Len(s.sent) : \E v \in 1..m : s.list[v].name = s.sent[i].name
  /\ \A i \in 1..Len(s.sent), v \in 1..m :
       IsLast(s, i) /\ IsFirst(s, v) /\ s.list[v].name = s.sent[i].name =>
         s.sent[i].value = s.list[v].value

\* So it is after a variable was set, if it is the first of its name, or set to what the
\* first one has.
LEMMA LastSet ==
  ASSUME NEW m \in Nat, NEW s \in Services(m), NEW t \in Services(m), NEW i \in 1..m, NEW value,
         \A j \in 1..m :
           /\ t.list[j].name = s.list[j].name
           /\ t.list[j].value = IF j = i THEN value ELSE s.list[j].value,
         Longer(s, t, s.list[i].name, value), LastAsSet(s, m),
         s.list[i].value # value => Len(t.sent) > Len(s.sent),
         \A v \in 1..m : IsFirst(s, v) /\ s.list[v].name = s.list[i].name =>
                            v = i \/ s.list[v].value = value
  PROVE  LastAsSet(t, m)
<1>0. Len(s.sent) \in Nat /\ Len(t.sent) \in Nat /\ Len(s.sent) <= Len(t.sent)
  BY LenProperties DEF Services, ServiceStates, Longer
<1>1. ASSUME NEW j \in 1..Len(t.sent)
      PROVE  \E v \in 1..m : t.list[v].name = t.sent[j].name
  <2>1. CASE j \in 1..Len(s.sent)
    BY <2>1 DEF LastAsSet, Longer
  <2>2. CASE j \notin 1..Len(s.sent)
    <3>1. j \in Len(s.sent) + 1 .. Len(t.sent)
      BY <1>0, <2>2
    <3> QED
      BY <3>1 DEF Longer
  <2> QED
    BY <2>1, <2>2
<1>2. ASSUME NEW j \in 1..Len(t.sent), NEW v \in 1..m,
             IsLast(t, j), IsFirst(t, v), t.list[v].name = t.sent[j].name
      PROVE  t.sent[j].value = t.list[v].value
  <2>1. IsFirst(s, v) /\ v - 1 < m
    BY <1>2 DEF IsFirst
  <2>2. CASE j \notin 1..Len(s.sent)
    <3>1. t.sent[j].name = s.list[i].name /\ t.sent[j].value = value
      BY <1>0, <2>2 DEF Longer
    <3>2. v = i \/ s.list[v].value = value
      BY <1>2, <2>1, <3>1
    <3> QED
      BY <3>1, <3>2
  <2>3. CASE j \in 1..Len(s.sent)
    <3>1. t.sent[j] = s.sent[j] /\ s.list[v].name = s.sent[j].name
      BY <1>2, <2>3 DEF Longer
    <3>2. IsLast(s, j)
      <4> SUFFICES ASSUME NEW k \in j + 1 .. Len(s.sent) PROVE s.sent[k].name # s.sent[j].name
        BY DEF IsLast
      <4>1. k \in 1..Len(s.sent) /\ k \in j + 1 .. Len(t.sent)
        BY <1>0, <2>3
      <4>2. t.sent[k] = s.sent[k] /\ t.sent[k].name # t.sent[j].name
        BY <1>2, <4>1 DEF Longer, IsLast
      <4> QED
        BY <3>1, <4>2
    <3>3. s.sent[j].value = s.list[v].value
      BY <2>1, <2>3, <3>1, <3>2 DEF LastAsSet
    <3>4. v = i => s.list[i].value = value
      <4> SUFFICES ASSUME v = i, s.list[i].value # value PROVE FALSE
        OBVIOUS
      <4>1. Len(s.sent) + 1 \in Len(s.sent) + 1 .. Len(t.sent) /\ Len(s.sent) + 1 \in j + 1 .. Len(t.sent)
        BY <1>0, <2>3
      <4>2. t.sent[Len(s.sent) + 1].name = s.list[i].name
        BY <4>1 DEF Longer
      <4>3. t.sent[Len(s.sent) + 1].name # t.sent[j].name
        BY <1>2, <4>1 DEF IsLast
      <4> QED
        BY <3>1, <4>2, <4>3
    <3> QED
      BY <3>1, <3>3, <3>4
  <2> QED
    BY <2>2, <2>3
<1> QED
  BY <1>1, <1>2 DEF LastAsSet

-----------------------------------------------------------------------------
(* A start of the device *)

DefaultStep(s, i) == SetVariable(s, i, Default[s.list[i].name])

LEMMA DefaultTyped ==
  ASSUME NEW m \in Nat, NEW s \in Services(m), Keyed(s), NEW i \in 1..m
  PROVE  /\ s.list[i].name \in McVar /\ s.list[i].controllers \in Nat
         /\ Default[s.list[i].name] \in McValue
<1>1. s.list[i] \in McVariables
  BY DEF Services, ServiceStates
<1> QED
  BY <1>1, MulticastAssumption DEF McVariables

\* The variables are set to their defaults one after the other.
LEMMA DefaultsLoop ==
  ASSUME NEW n \in Nat, NEW s \in Services(n), Keyed(s)
  PROVE  \E run :
           /\ run[0] = s /\ run[n] = SetDefaults(s)
           /\ \A k \in 0 .. n - 1 : run[k + 1] = DefaultStep(run[k], k + 1)
<1> DEFINE V == {t \in Services(n) : Keyed(t)}
           g == [p \in V \X (1..n) |-> DefaultStep(p[1], p[2])]
           Loop(iter) == iter = [S \in SUBSET (1..n) |->
                                   IF S = {} THEN s ELSE DefaultStep(iter[S \ {Max(S)}], Max(S))]
<1>0. DOMAIN s.list = 1..n
  BY DEF Services, ServiceStates
<1>1. SetDefaults(s) = (CHOOSE iter : Loop(iter))[1..n]
  <2> DEFINE index == [i \in DOMAIN s.list |-> i]
             Raw(iter) == iter = [S \in SUBSET DOMAIN index |->
                                    IF S = {} THEN s
                                    ELSE SetVariable(iter[S \ {Max(S)}], index[Max(S)],
                                           Default[iter[S \ {Max(S)}].list[index[Max(S)]].name])]
  <2>1. SetDefaults(s) = (CHOOSE iter : Raw(iter))[DOMAIN index]
    BY DEF SetDefaults, FoldLeft, MapThenFoldSet
  <2>2. DOMAIN index = 1..n /\ \A S \in SUBSET (1..n) : S # {} => index[Max(S)] = Max(S)
    <3>1. \A S \in SUBSET (1..n) : S # {} => Max(S) \in 1..n
      BY MaxExists
    <3> QED
      BY <1>0, <3>1
  <2> HIDE DEF index
  <2>3. ASSUME NEW iter
        PROVE  Raw(iter) <=> Loop(iter)
    <3> DEFINE Folded(S) == IF S = {} THEN s ELSE DefaultStep(iter[S \ {Max(S)}], Max(S))
               RawValue(S) == IF S = {} THEN s
                              ELSE SetVariable(iter[S \ {Max(S)}], index[Max(S)],
                                     Default[iter[S \ {Max(S)}].list[index[Max(S)]].name])
    <3>1. \A S \in SUBSET (1..n) : Folded(S) = RawValue(S)
      BY <2>2 DEF DefaultStep
    <3>2. Raw(iter) <=> iter = [S \in SUBSET (1..n) |-> RawValue(S)]
      BY <2>2
    <3>3. Loop(iter) <=> iter = [S \in SUBSET (1..n) |-> Folded(S)]
      OBVIOUS
    <3> HIDE DEF Folded, RawValue, Raw, Loop
    <3>4. [S \in SUBSET (1..n) |-> Folded(S)] = [S \in SUBSET (1..n) |-> RawValue(S)]
      BY <3>1
    <3> QED
      BY <3>2, <3>3, <3>4
  <2> HIDE DEF Raw, Loop
  <2>4. (CHOOSE iter : Raw(iter)) = (CHOOSE iter : Loop(iter))
    BY <2>3
  <2> QED
    BY <2>1, <2>2, <2>4
<1>3. g \in [V \X (1..n) -> V]
  <2> SUFFICES ASSUME NEW t \in V, NEW i \in 1..n PROVE DefaultStep(t, i) \in V
    OBVIOUS
  <2>1. Default[t.list[i].name] \in McValue
    BY DefaultTyped
  <2> QED
    BY <2>1, VariableSet DEF DefaultStep
<1> HIDE DEF V
<1>4. PICK f \in [SUBSET (1..n) -> V] : FoldsUpTo(f, n, s, g)
  <2>1. s \in V
    BY DEF V
  <2> HIDE DEF g
  <2> QED
    BY <1>3, <2>1, FoldIsThere
<1>5. Loop(f)
  <2>1. ASSUME NEW S \in SUBSET (1..n)
        PROVE  f[S] = IF S = {} THEN s ELSE DefaultStep(f[S \ {Max(S)}], Max(S))
    <3>1. CASE S = {}
      BY <1>4, <3>1 DEF FoldsUpTo
    <3>2. CASE S # {}
      <4>1. Max(S) \in 1..n
        BY <3>2, MaxExists
      <4>2. f[S \ {Max(S)}] \in V
        OBVIOUS
      <4>3. f[S] = g[<<f[S \ {Max(S)}], Max(S)>>]
        <5> HIDE DEF g
        <5> QED
          BY <1>4, <3>2 DEF FoldsUpTo
      <4> QED
        BY <3>2, <4>1, <4>2, <4>3
    <3> QED
      BY <3>1, <3>2
  <2> HIDE DEF g
  <2> QED
    BY <2>1
<1> DEFINE iter == CHOOSE iter : Loop(iter)
           run == [k \in 0..n |-> iter[1..k]]
<1>6. Loop(iter)
  <2> HIDE DEF Loop
  <2> QED
    BY <1>5
<1>7. iter = [S \in SUBSET (1..n) |-> IF S = {} THEN s ELSE DefaultStep(iter[S \ {Max(S)}], Max(S))]
  <2> HIDE DEF iter
  <2> QED
    BY <1>6
<1>8. SetDefaults(s) = iter[1..n]
  BY <1>1
<1> HIDE DEF iter, Loop
<1>9. run[0] = s
  <2>1. 1..0 = {} /\ 1..0 \in SUBSET (1..n)
    OBVIOUS
  <2>2. iter[1..0] = s
    BY <1>7, <2>1
  <2> QED
    BY <2>2
<1>10. ASSUME NEW k \in 0 .. n - 1
       PROVE  run[k + 1] = DefaultStep(run[k], k + 1)
  <2>1. /\ 1 .. k + 1 # {} /\ Max(1 .. k + 1) = k + 1
        /\ (1 .. k + 1) \ {k + 1} = 1..k
    <3>1. k \in Nat
      OBVIOUS
    <3> QED
      BY <3>1, LastOfPrefix
  <2>2. 1 .. k + 1 \in SUBSET (1..n)
    OBVIOUS
  <2>3. iter[1 .. k + 1] = DefaultStep(iter[1..k], k + 1)
    BY <1>7, <2>1, <2>2
  <2> QED
    BY <2>3
<1>11. run[n] = SetDefaults(s)
  BY <1>8
<1> HIDE DEF run
<1> QED
  BY <1>9, <1>10, <1>11

\* After it what was sent last of a name is its value, if it was before.
LEMMA DefaultsSet ==
  ASSUME NEW n \in Nat, NEW s \in Services(n), Keyed(s), LastAsSet(s, n),
         \A j \in 1..n : s.list[j].controllers >= 1
  PROVE  /\ SetDefaults(s) \in Services(n) /\ Keyed(SetDefaults(s)) /\ LastAsSet(SetDefaults(s), n)
         /\ \A j \in 1..n : /\ SetDefaults(s).list[j].name = s.list[j].name
                            /\ SetDefaults(s).list[j].controllers >= 1
<1>1. PICK run :
        /\ run[0] = s /\ run[n] = SetDefaults(s)
        /\ \A k \in 0 .. n - 1 : run[k + 1] = DefaultStep(run[k], k + 1)
  BY DefaultsLoop
<1> DEFINE Good(k) ==
      /\ run[k] \in Services(n) /\ Keyed(run[k]) /\ LastAsSet(run[k], n)
      /\ \A j \in 1..n : /\ run[k].list[j].name = s.list[j].name
                         /\ run[k].list[j].controllers >= 1
                         /\ j <= k => run[k].list[j].value = Default[s.list[j].name]
           T == {k \in 0..n : Good(k)}
<1>2. Good(0)
  BY <1>1
<1>3. ASSUME NEW k \in 0 .. n - 1, Good(k)
      PROVE  Good(k + 1)
  <2> DEFINE a == run[k]
             b == run[k + 1]
             i == k + 1
             value == Default[s.list[i].name]
  <2>1. i \in 1..n /\ k \in Nat
    OBVIOUS
  <2>2. /\ a \in Services(n) /\ Keyed(a) /\ LastAsSet(a, n)
        /\ \A j \in 1..n : /\ a.list[j].name = s.list[j].name /\ a.list[j].controllers >= 1
                           /\ j <= k => a.list[j].value = Default[s.list[j].name]
    BY <1>3
  <2>3. b = SetVariable(a, i, value)
    BY <1>1, <2>1, <2>2 DEF DefaultStep
  <2> HIDE DEF a, b, i
  <2>4. value \in McValue
    BY <2>1, <2>2, DefaultTyped
  <2> HIDE DEF value
  <2>5. /\ b \in Services(n) /\ Keyed(b)
        /\ \A j \in 1..n : /\ b.list[j].name = a.list[j].name
                           /\ b.list[j].controllers = a.list[j].controllers
                           /\ b.list[j].value = IF j = i THEN value ELSE a.list[j].value
        /\ Longer(a, b, a.list[i].name, value)
        /\ a.list[i].value # value => Len(b.sent) = Len(a.sent) + a.list[i].controllers
    BY <2>1, <2>2, <2>3, <2>4, VariableSet
  <2>6. a.list[i].value # value => Len(b.sent) > Len(a.sent)
    <3> DEFINE na == Len(a.sent)
               c == a.list[i].controllers
    <3>1. na \in Nat
      BY <2>2, LenProperties DEF Services, ServiceStates
    <3>2. c \in Nat /\ c >= 1
      BY <2>1, <2>2, DefaultTyped
    <3>3. a.list[i].value # value => Len(b.sent) = na + c
      BY <2>5
    <3> HIDE DEF na, c
    <3>4. a.list[i].value # value => Len(b.sent) > na
      BY <3>1, <3>2, <3>3
    <3> QED
      BY <3>4 DEF na
  <2>7. ASSUME NEW v \in 1..n, IsFirst(a, v), a.list[v].name = a.list[i].name
        PROVE  v = i \/ a.list[v].value = value
    <3>1. CASE v < i
      <4>1. v <= k
        BY <2>1, <3>1 DEF i
      <4> QED
        BY <2>1, <2>2, <2>7, <4>1 DEF value
    <3>2. CASE v > i
      <4>1. i \in 1 .. v - 1
        BY <2>1, <3>2
      <4> QED
        BY <2>7, <4>1 DEF IsFirst
    <3> QED
      BY <2>1, <3>1, <3>2
  <2>8. LastAsSet(b, n)
    <3>1. \A j \in 1..n :
            /\ b.list[j].name = a.list[j].name
            /\ b.list[j].value = IF j = i THEN value ELSE a.list[j].value
      BY <2>5
    <3>2. \A v \in 1..n : IsFirst(a, v) /\ a.list[v].name = a.list[i].name =>
                            v = i \/ a.list[v].value = value
      BY <2>7
    <3>3. a \in Services(n) /\ b \in Services(n) /\ LastAsSet(a, n) /\ Longer(a, b, a.list[i].name, value)
      BY <2>2, <2>5
    <3> QED
      BY <2>1, <2>6, <3>1, <3>2, <3>3, LastSet, Zenon
  <2>9. ASSUME NEW j \in 1..n
        PROVE  /\ b.list[j].name = s.list[j].name
               /\ b.list[j].controllers >= 1
               /\ j <= i => b.list[j].value = Default[s.list[j].name]
    <3>1. j <= i /\ j # i => j <= k
      BY <2>1 DEF i
    <3> QED
      BY <2>2, <2>5, <3>1 DEF value
  <2> QED
    BY <2>5, <2>8, <2>9 DEF b, i
<1>4. Good(n)
  <2> HIDE DEF Good
  <2>1. T \in SUBSET Nat /\ 0 \in T /\ \A k \in 0 .. n - 1 : k \in T => k + 1 \in T
    BY <1>2, <1>3
  <2> HIDE DEF T
  <2>2. n \in T
    BY <2>1, Induction
  <2> QED
    BY <2>2 DEF T
<1> QED
  BY <1>1, <1>4

\* The variables that are read are behind those there are, so no name gets another first
\* variable, and each is connected to one controller more.
LEMMA ReadAndConnected ==
  ASSUME Now \in Services(Len(stateVariables)), Keyed(Now), LastAsSet(Now, Len(stateVariables)),
         \A j \in 1..Len(stateVariables) : stateVariables[j].controllers >= 1
  PROVE  \E n \in Nat :
           /\ ConnectAll(ReadAgain) \in Services(n) /\ Keyed(ConnectAll(ReadAgain))
           /\ LastAsSet(ConnectAll(ReadAgain), n)
           /\ \A j \in 1..n : ConnectAll(ReadAgain).list[j].controllers >= 1
           /\ \A name \in McVar : \E v \in 1..n : ConnectAll(ReadAgain).list[v].name = name
<1> DEFINE m == Len(stateVariables)
           more == Len(McVarSeq)
           n == m + more
           all == stateVariables \o ReadVariables
           list == [i \in DOMAIN all |-> [all[i] EXCEPT !.controllers = @ + 1]]
           t == ConnectAll(ReadAgain)
<1>1. /\ stateVariables \in Seq(McVariables) /\ m \in Nat /\ counter \in Nat
      /\ sent \in Seq(McDatagrams) /\ Len(sent) \in Nat
  BY LenProperties DEF Now, Services, ServiceStates
<1>2. /\ more \in Nat /\ DOMAIN McVarSeq = 1..more
      /\ \A i \in 1..more : McVarSeq[i] \in McVar
      /\ \A name \in McVar : \E i \in 1..more : McVarSeq[i] = name
  BY MulticastAssumption DEF ToSet
<1>3. ReadVariables \in Seq(McVariables) /\ Len(ReadVariables) = more
  <2>1. \A i \in 1..more : [name |-> McVarSeq[i], value |-> Unset, controllers |-> 0] \in McVariables
    BY <1>2 DEF McVariables
  <2> HIDE DEF more
  <2> QED
    BY <1>2, <2>1 DEF ReadVariables
<1>4. /\ all \in Seq(McVariables) /\ Len(all) = n
      /\ \A i \in 1..m : all[i] = stateVariables[i]
      /\ \A i \in 1..more : all[m + i] = ReadVariables[i]
  <2> HIDE DEF more
  <2>1. all \in Seq(McVariables) /\ Len(all) = n
    BY <1>1, <1>2, <1>3, ConcatProperties
  <2>2. ASSUME NEW i \in 1..m
        PROVE  all[i] = stateVariables[i]
    BY <1>1, <1>2, <1>3, ConcatProperties
  <2>3. ASSUME NEW i \in 1..more
        PROVE  all[m + i] = ReadVariables[i]
    <3>1. m + i \in 1 .. Len(stateVariables) + Len(ReadVariables)
      BY <1>1, <1>2, <1>3
    <3>2. all[m + i] = IF m + i <= m THEN stateVariables[m + i] ELSE ReadVariables[m + i - m]
      BY <1>1, <1>3, <3>1, ConcatProperties
    <3>3. ~(m + i <= m) /\ m + i - m = i
      BY <1>1
    <3> QED
      BY <3>2, <3>3
  <2> QED
    BY <2>1, <2>2, <2>3
<1>5. n \in Nat /\ m <= n
  BY <1>1, <1>2
<1> HIDE DEF all, n
<1>6. DOMAIN all = 1..n /\ \A i \in 1..n : all[i] \in McVariables
  BY <1>4, <1>5
<1>7. ASSUME NEW i \in 1..n
      PROVE  /\ list[i] \in McVariables /\ list[i].controllers >= 1
             /\ list[i].name = all[i].name /\ list[i].value = all[i].value
  BY <1>6 DEF McVariables
<1>8. list \in Seq(McVariables) /\ Len(list) = n
  <2>1. DOMAIN list = 1..n /\ list = [i \in 1..n |-> list[i]]
    BY <1>6
  <2> HIDE DEF list
  <2> QED
    BY <1>5, <1>7, <2>1
<1>9. t = [list |-> list, counter |-> counter, sent |-> sent]
  <2>1. ReadAgain = [list |-> all, counter |-> counter, sent |-> sent]
    <3> DEFINE more0 == ReadVariables
               both == stateVariables \o more0
    <3> HIDE DEF more0
    <3>1. ReadAgain = [Now EXCEPT !.list = @ \o more0]
      BY DEF ReadAgain, more0
    <3>2. Now.list = stateVariables
      BY DEF Now
    <3>3. ReadAgain = [Now EXCEPT !.list = both]
      BY <3>1, <3>2
    <3> HIDE DEF both
    <3>4. ReadAgain = [list |-> both, counter |-> counter, sent |-> sent]
      BY <3>3 DEF Now
    <3>5. both = all
      BY DEF both, more0, all
    <3> QED
      BY <3>4, <3>5
  <2> DEFINE r == ReadAgain
  <2>2. r.list = all /\ r = [list |-> all, counter |-> counter, sent |-> sent]
    BY <2>1
  <2>3. t = ConnectAll(r)
    OBVIOUS
  <2> HIDE DEF r, t
  <2>4. t = [r EXCEPT !.list = [i \in DOMAIN r.list |-> [r.list[i] EXCEPT !.controllers = @ + 1]]]
    BY <2>3 DEF ConnectAll
  <2>5. t = [r EXCEPT !.list = list]
    BY <2>2, <2>4
  <2> HIDE DEF list
  <2> QED
    BY <2>2, <2>5
<1> HIDE DEF list, t
<1>10. t \in Services(n)
  BY <1>1, <1>8, <1>9 DEF Services, ServiceStates
<1>11. Keyed(t)
  BY <1>9 DEF Keyed, Now
<1>12. \A i \in 1..m : t.list[i].name = stateVariables[i].name /\ t.list[i].value = stateVariables[i].value
  BY <1>4, <1>5, <1>7, <1>9
<1>13. LastAsSet(t, n)
  <2>1. ASSUME NEW i \in 1..Len(sent)
        PROVE  \E v \in 1..m : t.list[v].name = sent[i].name /\ stateVariables[v].name = sent[i].name
    BY <1>12 DEF LastAsSet, Now
  <2>2. ASSUME NEW i \in 1..Len(sent), NEW v \in 1..n, IsLast(t, i), IsFirst(t, v),
               t.list[v].name = sent[i].name
        PROVE  sent[i].value = t.list[v].value
    <3>1. PICK w \in 1..m : t.list[w].name = sent[i].name
      BY <2>1
    <3>2. v <= w
      <4> SUFFICES ASSUME v > w PROVE FALSE
        BY <1>1, <1>5
      <4>1. w \in 1 .. v - 1
        BY <1>1, <1>5
      <4> QED
        BY <2>2, <3>1, <4>1 DEF IsFirst
    <3>3. v \in 1..m
      BY <1>1, <1>5, <3>2
    <3>4. IsFirst(Now, v)
      <4>1. \A j \in 1 .. v - 1 : j \in 1..m
        BY <1>1, <3>3
      <4> QED
        BY <1>12, <2>2, <3>3, <4>1 DEF IsFirst, Now
    <3>5. IsLast(Now, i)
      BY <1>9, <2>2 DEF IsLast, Now
    <3>6. sent[i].value = stateVariables[v].value
      <4>1. stateVariables[v].name = sent[i].name
        BY <1>12, <2>2, <3>3
      <4>2. Now.list = stateVariables /\ Now.sent = sent
        BY DEF Now
      <4> QED
        BY <3>3, <3>4, <3>5, <4>1, <4>2 DEF LastAsSet
    <3> QED
      BY <1>12, <3>3, <3>6
  <2>3. t.sent = sent /\ 1..m \subseteq 1..n
    BY <1>1, <1>5, <1>9
  <2>4. \A i \in 1..Len(sent) : \E v \in 1..n : t.list[v].name = sent[i].name
    BY <2>1, <2>3
  <2> QED
    BY <2>2, <2>3, <2>4 DEF LastAsSet
<1>14. ASSUME NEW name \in McVar
       PROVE  \E v \in 1..n : t.list[v].name = name
  <2>1. PICK i \in 1..more : McVarSeq[i] = name
    BY <1>2
  <2>2. m + i \in 1..n
    BY <1>1, <1>2 DEF n
  <2>3. t.list[m + i].name = name
    <3>1. ReadVariables[i].name = name
      <4> HIDE DEF more
      <4> QED
        BY <1>2, <2>1 DEF ReadVariables
    <3>2. all[m + i] = ReadVariables[i]
      BY <1>4
    <3>3. list[m + i].name = all[m + i].name
      BY <1>7, <2>2
    <3> QED
      BY <1>9, <3>1, <3>2, <3>3
  <2> QED
    BY <2>2, <2>3
<1> QED
  BY <1>5, <1>7, <1>9, <1>10, <1>11, <1>13, <1>14 DEF t

-----------------------------------------------------------------------------
(* The service and the receiver *)

\* getVariable finds the first of a name there is a variable of.
LEMMA FirstThere ==
  ASSUME Now \in Services(Len(stateVariables)), NEW name,
         \E v \in 1..Len(stateVariables) : stateVariables[v].name = name
  PROVE  /\ First(name) \in 1..Len(stateVariables)
         /\ stateVariables[First(name)].name = name
         /\ IsFirst(Now, First(name))
         /\ \A v \in 1..Len(stateVariables) :
              IsFirst(Now, v) /\ stateVariables[v].name = name => v = First(name)
<1> DEFINE n == Len(stateVariables)
           Of == {v \in 1..n : stateVariables[v].name = name}
           Is(i) == stateVariables[i].name = name /\ \A j \in 1 .. i - 1 : stateVariables[j].name # name
<1>1. n \in Nat /\ DOMAIN stateVariables = 1..n /\ Now.list = stateVariables
  BY LenProperties DEF Now, Services, ServiceStates
<1>2. \E i \in DOMAIN stateVariables : Is(i)
  <2>1. Of \in SUBSET Nat /\ Of # {}
    OBVIOUS
  <2>2. PICK i \in Of : \A j \in Of : i <= j
    <3> HIDE DEF Of
    <3> QED
      BY <2>1, LeastNumber
  <2>3. ASSUME NEW j \in 1 .. i - 1
        PROVE  stateVariables[j].name # name
    <3>1. j \in 1..n /\ ~(i <= j)
      BY <1>1, <2>2
    <3> QED
      BY <2>2, <3>1
  <2> QED
    BY <1>1, <2>2, <2>3
<1> HIDE DEF n
<1> DEFINE f == First(name)
<1>3. f \in 1..n /\ Is(f)
  BY <1>1, <1>2 DEF First
<1> HIDE DEF f
<1>4. IsFirst(Now, f)
  BY <1>1, <1>3 DEF IsFirst
<1>5. ASSUME NEW v \in 1..n, IsFirst(Now, v), stateVariables[v].name = name
      PROVE  v = f
  <2>1. CASE v < f
    <3>1. v \in 1 .. f - 1
      BY <1>1, <1>3, <2>1
    <3> QED
      BY <1>3, <1>5, <3>1
  <2>2. CASE v > f
    <3>1. f \in 1 .. v - 1
      BY <1>1, <1>3, <2>2
    <3> QED
      BY <1>1, <1>3, <1>5, <3>1 DEF IsFirst
  <2> QED
    BY <1>1, <1>3, <2>1, <2>2
<1> QED
  BY <1>3, <1>4, <1>5 DEF n, f

NamesRead == stateVariables # <<>> =>
  \A name \in McVar : \E v \in 1..Len(stateVariables) : stateVariables[v].name = name

ServiceInv ==
  /\ Now \in Services(Len(stateVariables)) /\ Keyed(Now) /\ LastAsSet(Now, Len(stateVariables))
  /\ \A v \in 1..Len(stateVariables) : stateVariables[v].controllers >= 1
  /\ NamesRead

MulticastInv == ServiceInv /\ OneDatagramTold

\* What the service becomes is what was made of it.
LEMMA BecomesNow ==
  ASSUME NEW n \in Nat, NEW s \in Services(n), ServiceBecomes(s)
  PROVE  Now' = s /\ Len(stateVariables') = n /\ stateVariables' = s.list
<1>1. s = [list |-> s.list, counter |-> s.counter, sent |-> s.sent] /\ Len(s.list) = n
  BY DEF Services, ServiceStates
<1> QED
  BY <1>1 DEF ServiceBecomes, Now

LEMMA ServiceStarted == ServiceInv /\ StartService => ServiceInv'
<1> SUFFICES ASSUME ServiceInv, StartService PROVE ServiceInv'
  OBVIOUS
<1> DEFINE r == ConnectAll(ReadAgain)
           t == SetDefaults(r)
<1>1. PICK n \in Nat :
        /\ r \in Services(n) /\ Keyed(r) /\ LastAsSet(r, n)
        /\ \A j \in 1..n : r.list[j].controllers >= 1
        /\ \A name \in McVar : \E v \in 1..n : r.list[v].name = name
  BY ReadAndConnected DEF ServiceInv
<1>2. ServiceBecomes(t)
  BY DEF StartService
<1> HIDE DEF r
<1>3. /\ t \in Services(n) /\ Keyed(t) /\ LastAsSet(t, n)
      /\ \A j \in 1..n : t.list[j].name = r.list[j].name /\ t.list[j].controllers >= 1
  BY <1>1, DefaultsSet
<1> HIDE DEF t
<1>4. Now' = t /\ Len(stateVariables') = n /\ stateVariables' = t.list
  BY <1>2, <1>3, BecomesNow
<1>5. \A name \in McVar : \E v \in 1..n : t.list[v].name = name
  BY <1>1, <1>3
<1>6. NamesRead'
  BY <1>4, <1>5 DEF NamesRead
<1>7. Keyed(Now)'
  BY <1>3, <1>4 DEF Keyed
<1>8. LastAsSet(Now, Len(stateVariables))'
  BY <1>3, <1>4, SMTT(60) DEF LastAsSet, IsLast, IsFirst
<1>9. (Now \in Services(Len(stateVariables)))'
  BY <1>3, <1>4 DEF Services, ServiceStates
<1> QED
  BY <1>3, <1>4, <1>6, <1>7, <1>8, <1>9 DEF ServiceInv

LEMMA MulticastSet ==
  ASSUME ServiceInv, NEW name \in McVar, NEW value \in McValue, SetMulticast(name, value)
  PROVE  ServiceInv'
<1> DEFINE n == Len(stateVariables)
           i == First(name)
           t == SetVariable(Now, i, value)
<1>1. n \in Nat /\ Now.list = stateVariables /\ Now \in Services(n) /\ Keyed(Now) /\ LastAsSet(Now, n)
  BY LenProperties DEF ServiceInv, Now, Services, ServiceStates
<1>2. \E v \in 1..n : stateVariables[v].name = name
  BY DEF ServiceInv, NamesRead, SetMulticast
<1>3. /\ i \in 1..n /\ stateVariables[i].name = name
      /\ \A v \in 1..n : IsFirst(Now, v) /\ stateVariables[v].name = name => v = i
  BY <1>1, <1>2, FirstThere
<1>4. ServiceBecomes(t)
  BY DEF SetMulticast
<1> HIDE DEF n, i
<1>5. /\ t \in Services(n) /\ Keyed(t)
      /\ \A j \in 1..n :
           /\ t.list[j].name = Now.list[j].name /\ t.list[j].controllers = Now.list[j].controllers
           /\ t.list[j].value = IF j = i THEN value ELSE Now.list[j].value
      /\ Longer(Now, t, Now.list[i].name, value)
      /\ Now.list[i].value # value => Len(t.sent) = Len(Now.sent) + Now.list[i].controllers
  BY <1>1, <1>3, VariableSet
<1> HIDE DEF t
<1>6. \A v \in 1..n : stateVariables[v].controllers \in Nat /\ stateVariables[v].controllers >= 1
  BY <1>1, DefaultTyped DEF ServiceInv, n
<1>7. LastAsSet(t, n)
  <2>1. Now.list[i].value # value => Len(t.sent) > Len(Now.sent)
    <3> DEFINE ns == Len(Now.sent)
               c == Now.list[i].controllers
    <3>1. ns \in Nat
      BY <1>1, LenProperties DEF Services, ServiceStates
    <3>2. c \in Nat /\ c >= 1
      BY <1>1, <1>3, <1>6
    <3>3. Now.list[i].value # value => Len(t.sent) = ns + c
      BY <1>5
    <3> HIDE DEF ns, c
    <3>4. Now.list[i].value # value => Len(t.sent) > ns
      BY <3>1, <3>2, <3>3
    <3> QED
      BY <3>4 DEF ns
  <2>2. \A j \in 1..n :
          /\ t.list[j].name = Now.list[j].name
          /\ t.list[j].value = IF j = i THEN value ELSE Now.list[j].value
    BY <1>5
  <2>3. \A v \in 1..n : IsFirst(Now, v) /\ Now.list[v].name = Now.list[i].name =>
                          v = i \/ Now.list[v].value = value
    BY <1>1, <1>3
  <2> QED
    BY <1>1, <1>3, <1>5, <2>1, <2>2, <2>3, LastSet, Zenon
<1>8. Now' = t /\ Len(stateVariables') = n /\ stateVariables' = t.list
  BY <1>1, <1>4, <1>5, BecomesNow
<1>9. NamesRead'
  <2>1. \A other \in McVar : \E v \in 1..n : stateVariables[v].name = other
    BY DEF ServiceInv, NamesRead, SetMulticast, n
  <2>2. \A other \in McVar : \E v \in 1..n : t.list[v].name = other
    BY <1>1, <1>5, <2>1
  <2> QED
    BY <1>8, <2>2 DEF NamesRead
<1>10. Keyed(Now)'
  BY <1>5, <1>8 DEF Keyed
<1>11. LastAsSet(Now, Len(stateVariables))'
  BY <1>7, <1>8 DEF LastAsSet, IsLast, IsFirst
<1>12. (Now \in Services(Len(stateVariables)))'
  BY <1>5, <1>8 DEF Services, ServiceStates
<1>13. \A v \in 1..n : t.list[v].controllers >= 1
  BY <1>1, <1>5, <1>6
<1> QED
  BY <1>8, <1>9, <1>10, <1>11, <1>12, <1>13 DEF ServiceInv

LEMMA DatagramReceived ==
  ASSUME NEW d, Receive(d), OneDatagramTold
  PROVE  OneDatagramTold'
<1>1. CASE LengthOk(d)
  <2>1. PICK b \in BodySays(d) :
          told' = [of |-> d, as |-> [usn |-> d.usn, seq |-> IF d.form = "event" THEN d.seq ELSE -1,
                                     name |-> b[1], value |-> b[2]]]
    BY <1>1 DEF Receive
  <2>2. ASSUME d.form # "event"
        PROVE  b[1] = "" /\ b[2] = ""
    <3>1. b = <<"", "">>
      BY <2>2 DEF BodySays
    <3> QED
      BY <3>1
  <2>3. ASSUME d.form = "event"
        PROVE  b[1] = d.name /\ b[2] \in ReadAs[d.value]
    <3>1. PICK v \in ReadAs[d.value] : b = <<d.name, v>>
      BY <2>3 DEF BodySays
    <3> QED
      BY <3>1
  <2> QED
    BY <2>1, <2>2, <2>3 DEF OneDatagramTold
<1>2. CASE ~LengthOk(d)
  BY <1>2 DEF Receive, OneDatagramTold, NothingTold
<1> QED
  BY <1>1, <1>2

LEMMA MulticastStep == MulticastInv /\ [MulticastNext]_multicastVariables => MulticastInv'
<1> SUFFICES ASSUME MulticastInv, [MulticastNext]_multicastVariables PROVE MulticastInv'
  OBVIOUS
<1>1. UNCHANGED serviceVars /\ ServiceInv => ServiceInv'
  BY DEF serviceVars, ServiceInv, NamesRead, Now, Services, ServiceStates, Keyed, LastAsSet, IsLast, IsFirst
<1>2. UNCHANGED receiverVars /\ OneDatagramTold => OneDatagramTold'
  BY DEF receiverVars, OneDatagramTold, NothingTold
<1>3. CASE StartService
  <2>1. UNCHANGED receiverVars
    BY <1>3 DEF StartService
  <2> QED
    BY <1>2, <1>3, <2>1, ServiceStarted DEF MulticastInv
<1>4. ASSUME NEW name \in McVar, NEW value \in McValue, SetMulticast(name, value)
      PROVE  MulticastInv'
  <2>1. UNCHANGED receiverVars
    BY <1>4 DEF SetMulticast
  <2> QED
    BY <1>2, <1>4, <2>1, MulticastSet DEF MulticastInv
<1>5. ASSUME NEW d, Receive(d)
      PROVE  MulticastInv'
  <2>1. UNCHANGED serviceVars
    BY <1>5 DEF Receive
  <2> QED
    BY <1>1, <1>5, <2>1, DatagramReceived DEF MulticastInv
<1>6. CASE UNCHANGED multicastVariables
  BY <1>1, <1>2, <1>6 DEF MulticastInv, multicastVariables
<1> QED
  BY <1>3, <1>4, <1>5, <1>6 DEF MulticastNext

LEMMA MulticastInitially == MulticastInit => MulticastInv
<1> SUFFICES ASSUME MulticastInit PROVE MulticastInv
  OBVIOUS
<1>1. Now = [list |-> <<>>, counter |-> 0, sent |-> <<>>] /\ Len(stateVariables) = 0
  BY DEF MulticastInit, Now
<1>2. Now \in Services(0) /\ Keyed(Now) /\ LastAsSet(Now, 0)
  BY <1>1 DEF Services, ServiceStates, Keyed, LastAsSet
<1>3. NamesRead /\ OneDatagramTold
  BY DEF MulticastInit, NamesRead, OneDatagramTold
<1> QED
  BY <1>1, <1>2, <1>3 DEF MulticastInv, ServiceInv

\* Whatever the variables, their values, the starts and the changes: until the counter
\* wraps, the keys of the multicast datagrams order what BrisaService sends of a variable,
\* the last being what it has (KeysOrderChanges), and the receiver tells the application
\* what one datagram said, in whatever order they come (OneDatagramTold).
THEOREM KeysOrder == MulticastSpec => []MulticastTrue
<1>1. MulticastInv => MulticastTrue
  <2> SUFFICES ASSUME MulticastInv, Len(sent) <= McSeqMax, NEW i \in DOMAIN sent,
                      \A j \in DOMAIN sent : sent[j].name = sent[i].name => ~(sent[j].seq > sent[i].seq)
               PROVE  sent[i].value = stateVariables[First(sent[i].name)].value
    BY DEF MulticastTrue, MulticastInv, KeysOrderChanges
  <2> DEFINE n == Len(stateVariables)
             name == sent[i].name
  <2>1. /\ sent \in Seq(McDatagrams) /\ DOMAIN sent = 1..Len(sent) /\ Len(sent) \in Nat
        /\ Now.sent = sent /\ Now.list = stateVariables
    BY LenProperties DEF MulticastInv, ServiceInv, Now, Services, ServiceStates
  <2>2. \A j \in 1..Len(sent) : sent[j].seq = j - 1
    BY <2>1 DEF MulticastInv, ServiceInv, Keyed
  <2>3. IsLast(Now, i)
    <3> SUFFICES ASSUME NEW j \in i + 1 .. Len(sent) PROVE sent[j].name # sent[i].name
      BY <2>1 DEF IsLast
    <3>1. j \in 1..Len(sent) /\ j > i /\ i \in 1..Len(sent)
      BY <2>1
    <3>2. sent[j].seq > sent[i].seq
      BY <2>2, <3>1
    <3> QED
      BY <2>1, <3>1, <3>2
  <2>4. \E v \in 1..n : stateVariables[v].name = name
    BY <2>1 DEF MulticastInv, ServiceInv, LastAsSet
  <2>5. First(name) \in 1..n /\ stateVariables[First(name)].name = name /\ IsFirst(Now, First(name))
    <3> HIDE DEF name
    <3> QED
      BY <2>4, FirstThere DEF MulticastInv, ServiceInv
  <2> QED
    BY <2>1, <2>3, <2>5 DEF MulticastInv, ServiceInv, LastAsSet
<1> QED
  BY <1>1, MulticastInitially, MulticastStep, PTL DEF MulticastSpec

-----------------------------------------------------------------------------
(* Description *)

\* A start registers every service the device has, so what a control point read of one
\* at any earlier start leads to its newest objects.

\* What a table of paths has at a path.
Reached(known, p) == IF p \in DOMAIN known THEN known[p] ELSE <<"notFound">>

LEMMA WebServiceReached ==
  ASSUME NEW known, NEW p, NEW object, NEW q
  PROVE  Reached(WithWebService(known, p, object), q) =
           IF q = p THEN object ELSE Reached(known, q)
BY DEF Reached, WithWebService

\* The last of the three registrations at a path is what is found there.
LEMMA ServiceReached ==
  ASSUME NEW known, NEW s, NEW q
  PROVE  Reached(WithService(known, s), q) =
           IF q = RegisteredAt(s, UrlsOf[s].scpd) THEN <<"scpd", s>>
           ELSE IF q = RegisteredAt(s, UrlsOf[s].event) THEN <<"event", s, starts + 1>>
           ELSE IF q = RegisteredAt(s, UrlsOf[s].control) THEN <<"control", s, starts + 1>>
           ELSE Reached(known, q)
<1> DEFINE u == UrlsOf[s]
           control == WithWebService(known, RegisteredAt(s, u.control), <<"control", s, starts + 1>>)
           event == WithWebService(control, RegisteredAt(s, u.event), <<"event", s, starts + 1>>)
           scpd == WithWebService(event, RegisteredAt(s, u.scpd), <<"scpd", s>>)
<1>1. WithService(known, s) = scpd
  BY DEF WithService
<1>2. Reached(scpd, q) = IF q = RegisteredAt(s, u.scpd) THEN <<"scpd", s>> ELSE Reached(event, q)
  BY WebServiceReached
<1>3. Reached(event, q) =
        IF q = RegisteredAt(s, u.event) THEN <<"event", s, starts + 1>> ELSE Reached(control, q)
  BY WebServiceReached
<1>4. Reached(control, q) =
        IF q = RegisteredAt(s, u.control) THEN <<"control", s, starts + 1>> ELSE Reached(known, q)
  BY WebServiceReached
<1> HIDE DEF control, event, scpd
<1> QED
  BY <1>1, <1>2, <1>3, <1>4

\* The services are registered one after the other.
LEMMA ServicesLoop ==
  ASSUME tree.services \in Seq(Service)
  PROVE  \E run :
           /\ run[0] = WithFile(paths) /\ run[Len(tree.services)] = WebServerTree
           /\ \A k \in 0 .. Len(tree.services) - 1 :
                run[k + 1] = WithService(run[k], tree.services[k + 1])
<1> DEFINE services == tree.services
           first == WithFile(paths)
           n == Len(services)
           Register(f, i) == WithService(f, services[i])
           Kinds == {"control", "event", "scpd"}
           Path == DOMAIN first \cup {RegisteredAt(s, UrlsOf[s][x]) : s \in Service, x \in Kinds}
           Object == {first[p] : p \in DOMAIN first} \cup {<<"scpd", s>> : s \in Service}
                       \cup {<<x, s, starts + 1>> : x \in {"control", "event"}, s \in Service}
           V == UNION {[D -> Object] : D \in SUBSET Path}
           g == [p \in V \X (1..n) |-> Register(p[1], p[2])]
           Loop(iter) == iter = [S \in SUBSET (1..n) |->
                                   IF S = {} THEN first ELSE Register(iter[S \ {Max(S)}], Max(S))]
<1>0. n \in Nat /\ DOMAIN services = 1..n /\ \A i \in 1..n : services[i] \in Service
  BY LenProperties
<1>1. WebServerTree = (CHOOSE iter : Loop(iter))[1..n]
  <2> DEFINE Raw(iter) == iter = [S \in SUBSET DOMAIN tree.services |->
                                    IF S = {} THEN first
                                    ELSE WithService(iter[S \ {Max(S)}], tree.services[Max(S)])]
  <2>1. WebServerTree = (CHOOSE iter : Raw(iter))[DOMAIN tree.services]
    BY DEF WebServerTree, FoldLeft, MapThenFoldSet
  <2>2. \A iter : Raw(iter) <=> Loop(iter)
    BY <1>0
  <2> HIDE DEF Raw, Loop
  <2>3. (CHOOSE iter : Raw(iter)) = (CHOOSE iter : Loop(iter))
    BY <2>2
  <2> QED
    BY <1>0, <2>1, <2>3
<1> HIDE DEF services, n
<1>2. first \in V
  <2>1. first = [p \in DOMAIN first |-> first[p]]
    BY DEF WithFile, WithWebService
  <2> HIDE DEF first
  <2> QED
    BY <2>1
<1> HIDE DEF first
<1>3. ASSUME NEW f \in V, NEW p \in Path, NEW object \in Object
      PROVE  WithWebService(f, p, object) \in V
  <2> HIDE DEF Path, Object
  <2>1. PICK D \in SUBSET Path : f \in [D -> Object]
    OBVIOUS
  <2>2. WithWebService(f, p, object) \in [D \cup {p} -> Object]
    BY <2>1 DEF WithWebService
  <2>3. D \cup {p} \in SUBSET Path
    OBVIOUS
  <2> QED
    BY <2>2, <2>3
<1>4. ASSUME NEW f \in V, NEW i \in 1..n
      PROVE  Register(f, i) \in V
  <2> DEFINE s == services[i]
             u == UrlsOf[s]
             control == WithWebService(f, RegisteredAt(s, u.control), <<"control", s, starts + 1>>)
             event == WithWebService(control, RegisteredAt(s, u.event), <<"event", s, starts + 1>>)
             scpd == WithWebService(event, RegisteredAt(s, u.scpd), <<"scpd", s>>)
  <2>1. s \in Service
    BY <1>0
  <2>2. Register(f, i) = scpd
    BY DEF WithService
  <2>3. /\ RegisteredAt(s, u.control) \in Path /\ RegisteredAt(s, u.event) \in Path
        /\ RegisteredAt(s, u.scpd) \in Path
    <3>1. u.control = u["control"] /\ u.event = u["event"] /\ u.scpd = u["scpd"]
      OBVIOUS
    <3> HIDE DEF s
    <3> QED
      BY <2>1, <3>1
  <2>4. /\ <<"control", s, starts + 1>> \in Object /\ <<"event", s, starts + 1>> \in Object
        /\ <<"scpd", s>> \in Object
    <3> HIDE DEF s
    <3> QED
      BY <2>1
  <2> HIDE DEF V, Path, Object, s
  <2>5. control \in V
    BY <1>3, <2>3, <2>4
  <2> HIDE DEF control
  <2>6. event \in V
    BY <1>3, <2>3, <2>4, <2>5
  <2> HIDE DEF event
  <2>7. scpd \in V
    BY <1>3, <2>3, <2>4, <2>6
  <2> QED
    BY <2>2, <2>7
<1> HIDE DEF V, Register
<1>5. g \in [V \X (1..n) -> V]
  BY <1>4
<1>6. PICK f \in [SUBSET (1..n) -> V] : FoldsUpTo(f, n, first, g)
  <2> HIDE DEF g
  <2> QED
    BY <1>0, <1>2, <1>5, FoldIsThere
<1>7. Loop(f)
  <2>1. ASSUME NEW S \in SUBSET (1..n)
        PROVE  f[S] = IF S = {} THEN first ELSE Register(f[S \ {Max(S)}], Max(S))
    <3>1. CASE S = {}
      BY <1>6, <3>1 DEF FoldsUpTo
    <3>2. CASE S # {}
      <4>1. Max(S) \in 1..n
        BY <1>0, <3>2, MaxExists
      <4>2. f[S \ {Max(S)}] \in V
        OBVIOUS
      <4>3. f[S] = g[<<f[S \ {Max(S)}], Max(S)>>]
        <5> HIDE DEF g
        <5> QED
          BY <1>6, <3>2 DEF FoldsUpTo
      <4> QED
        BY <3>2, <4>1, <4>2, <4>3
    <3> QED
      BY <3>1, <3>2
  <2> HIDE DEF g
  <2> QED
    BY <2>1
<1> DEFINE iter == CHOOSE iter : Loop(iter)
           run == [k \in 0..n |-> iter[1..k]]
<1>8. Loop(iter)
  <2> HIDE DEF Loop
  <2> QED
    BY <1>7
<1>9. iter = [S \in SUBSET (1..n) |->
                IF S = {} THEN first ELSE Register(iter[S \ {Max(S)}], Max(S))]
  <2> HIDE DEF iter
  <2> QED
    BY <1>8
<1>10. WebServerTree = iter[1..n]
  BY <1>1
<1> HIDE DEF iter, Loop
<1>11. run[0] = first
  <2>1. 1..0 = {} /\ 1..0 \in SUBSET (1..n)
    OBVIOUS
  <2>2. iter[1..0] = first
    BY <1>9, <2>1
  <2> QED
    BY <1>0, <2>2
<1>12. ASSUME NEW k \in 0 .. n - 1
       PROVE  run[k + 1] = Register(run[k], k + 1)
  <2>1. /\ 1 .. k + 1 # {} /\ Max(1 .. k + 1) = k + 1
        /\ (1 .. k + 1) \ {k + 1} = 1..k
    <3>1. k \in Nat
      BY <1>0
    <3> QED
      BY <3>1, LastOfPrefix
  <2>2. 1 .. k + 1 \in SUBSET (1..n)
    BY <1>0
  <2>3. iter[1 .. k + 1] = Register(iter[1..k], k + 1)
    BY <1>9, <2>1, <2>2
  <2> QED
    BY <1>0, <2>3
<1>13. run[n] = WebServerTree
  BY <1>0, <1>10
<1> HIDE DEF run
<1> QED
  BY <1>11, <1>12, <1>13 DEF n, services, first, Register

Kinds == {"control", "event", "scpd"}

\* Where the objects of a proper service are: the three URLs, which nobody else has.
LEMMA ProperPaths ==
  ASSUME NEW s \in Service, Proper(s)
  PROVE  /\ RegisteredAt(s, UrlsOf[s].control) = UrlsOf[s].control
         /\ RegisteredAt(s, UrlsOf[s].event) = UrlsOf[s].event
         /\ RegisteredAt(s, UrlsOf[s].scpd) = UrlsOf[s].scpd
         /\ UrlsOf[s].control # UrlsOf[s].event /\ UrlsOf[s].event # UrlsOf[s].scpd
         /\ UrlsOf[s].scpd # UrlsOf[s].control
         /\ \A t \in Service \ {s} : \A url : /\ RegisteredAt(t, url) # UrlsOf[s].control
                                             /\ RegisteredAt(t, url) # UrlsOf[s].event
                                             /\ RegisteredAt(t, url) # UrlsOf[s].scpd
         /\ UrlsOf[s].id \notin {"", "custom"}
<1> DEFINE u == UrlsOf[s]
<1>1. /\ u.control[1] = u.id /\ u.event[1] = u.id /\ u.scpd[1] = u.id
      /\ u.control # u.event /\ u.event # u.scpd /\ u.scpd # u.control
      /\ u.id \notin {"", "custom"}
      /\ \A t \in Service : UrlsOf[t].id = u.id => t = s
  BY DEF Proper
<1>2. \A x \in Kinds : u[x] = <<u[x][1], u[x][2]>>
  BY DescriptionAssumption DEF Kinds
<1>3. /\ u.control = <<u.control[1], u.control[2]>> /\ u.event = <<u.event[1], u.event[2]>>
      /\ u.scpd = <<u.scpd[1], u.scpd[2]>>
  BY <1>2 DEF Kinds
<1>4. /\ RegisteredAt(s, u.control) = <<u.id, u.control[2]>>
      /\ RegisteredAt(s, u.event) = <<u.id, u.event[2]>>
      /\ RegisteredAt(s, u.scpd) = <<u.id, u.scpd[2]>>
  BY DEF RegisteredAt
<1>5. ASSUME NEW t \in Service \ {s}, NEW url
      PROVE  RegisteredAt(t, url)[1] # u.id
  BY <1>1, <1>5 DEF RegisteredAt
<1>6. \A t \in Service \ {s} : \A url : /\ RegisteredAt(t, url) # u.control
                                        /\ RegisteredAt(t, url) # u.event
                                        /\ RegisteredAt(t, url) # u.scpd
  BY <1>1, <1>5
<1> QED
  BY <1>1, <1>3, <1>4, <1>6

\* A start registers the objects of every proper service at its URLs.
LEMMA ProperRegistered ==
  ASSUME tree.services \in Seq(Service), NEW s \in ToSet(tree.services), Proper(s)
  PROVE  /\ Reached(WebServerTree, UrlsOf[s].control) = <<"control", s, starts + 1>>
         /\ Reached(WebServerTree, UrlsOf[s].event) = <<"event", s, starts + 1>>
         /\ Reached(WebServerTree, UrlsOf[s].scpd) = <<"scpd", s>>
<1> DEFINE services == tree.services
           n == Len(services)
           Right(known) == /\ Reached(known, UrlsOf[s].control) = <<"control", s, starts + 1>>
                           /\ Reached(known, UrlsOf[s].event) = <<"event", s, starts + 1>>
                           /\ Reached(known, UrlsOf[s].scpd) = <<"scpd", s>>
<1>0. n \in Nat /\ DOMAIN services = 1..n /\ \A i \in 1..n : services[i] \in Service
  BY LenProperties
<1>1. PICK run : /\ run[n] = WebServerTree
                 /\ \A k \in 0 .. n - 1 : run[k + 1] = WithService(run[k], services[k + 1])
  BY ServicesLoop
<1>2. PICK i \in 1..n : services[i] = s
  BY <1>0 DEF ToSet
<1> HIDE DEF services, n
<1> DEFINE T == {k \in 0..n : \A j \in 1..k : services[j] = s => Right(run[k])}
<1>3. 0 \in T
  BY <1>0
<1>4. ASSUME NEW k \in 0 .. n - 1, k \in T
      PROVE  k + 1 \in T
  <2> DEFINE t == services[k + 1]
  <2>1. t \in Service /\ k + 1 \in 0..n /\ run[k + 1] = WithService(run[k], t)
    BY <1>0, <1>1
  <2>2. s \in Service
    BY <1>0, <1>2
  <2>3. CASE t = s
    <3>1. Right(WithService(run[k], s))
      <4> DEFINE new == WithService(run[k], s)
                 c == UrlsOf[s].control
                 e == UrlsOf[s].event
                 d == UrlsOf[s].scpd
      <4>1. RegisteredAt(s, c) = c /\ RegisteredAt(s, e) = e /\ RegisteredAt(s, d) = d
            /\ c # e /\ e # d /\ d # c
        BY <2>2, ProperPaths
      <4>2. Reached(new, c) = <<"control", s, starts + 1>>
        BY <4>1, ServiceReached
      <4>3. Reached(new, e) = <<"event", s, starts + 1>>
        BY <4>1, ServiceReached
      <4>4. Reached(new, d) = <<"scpd", s>>
        BY <4>1, ServiceReached
      <4> QED
        BY <4>2, <4>3, <4>4
    <3> HIDE DEF Right
    <3> QED
      BY <2>1, <2>3, <3>1
  <2>4. CASE t # s
    <3> DEFINE new == WithService(run[k], t)
               Kept(q) == Reached(new, q) = Reached(run[k], q)
    <3>1. ASSUME NEW q, q \in {UrlsOf[s].control, UrlsOf[s].event, UrlsOf[s].scpd}
          PROVE  Kept(q)
      <4>1. /\ RegisteredAt(t, UrlsOf[t].control) # q /\ RegisteredAt(t, UrlsOf[t].event) # q
            /\ RegisteredAt(t, UrlsOf[t].scpd) # q
        <5>1. t \in Service \ {s}
          BY <2>1, <2>4
        <5> HIDE DEF t
        <5>2. \A url : /\ RegisteredAt(t, url) # UrlsOf[s].control
                       /\ RegisteredAt(t, url) # UrlsOf[s].event
                       /\ RegisteredAt(t, url) # UrlsOf[s].scpd
          BY <2>2, <5>1, ProperPaths
        <5> QED
          BY <3>1, <5>2
      <4> HIDE DEF t
      <4> QED
        BY <4>1, ServiceReached
    <3>2. ASSUME NEW j \in 1 .. k + 1, services[j] = s
          PROVE  Right(run[k + 1])
      <4>1. j \in 1..k
        <5>1. j # k + 1
          BY <2>4, <3>2
        <5> QED
          BY <1>0, <5>1
      <4>2. Right(run[k])
        BY <1>4, <3>2, <4>1
      <4>3. Kept(UrlsOf[s].control) /\ Kept(UrlsOf[s].event) /\ Kept(UrlsOf[s].scpd)
        BY <3>1
      <4> QED
        BY <2>1, <4>2, <4>3
    <3> HIDE DEF Right
    <3> QED
      BY <2>1, <3>2
  <2> QED
    BY <2>3, <2>4
<1>5. T \in SUBSET Nat
  BY <1>0
<1>6. n \in T
  <2> HIDE DEF T
  <2> QED
    BY <1>0, <1>3, <1>4, <1>5, Induction
<1> QED
  BY <1>1, <1>2, <1>6

\* The file is where its name says, unless a service is registered there.
LEMMA FileRegistered ==
  ASSUME tree.services \in Seq(Service)
  PROVE  \/ Reached(WebServerTree, <<"", tree.file>>) = DescriptionFile
         \/ \E s \in ToSet(tree.services) : \E x \in Kinds :
              RegisteredAt(s, UrlsOf[s][x]) = <<"", tree.file>>
<1> DEFINE services == tree.services
           n == Len(services)
           q == <<"", tree.file>>
           Hidden(s) == \E x \in Kinds : RegisteredAt(s, UrlsOf[s][x]) = q
<1>0. n \in Nat /\ DOMAIN services = 1..n
  BY LenProperties
<1>1. PICK run : /\ run[0] = WithFile(paths) /\ run[n] = WebServerTree
                 /\ \A k \in 0 .. n - 1 : run[k + 1] = WithService(run[k], services[k + 1])
  BY ServicesLoop
<1>2. Reached(run[0], q) = DescriptionFile
  <2>1. run[0] = WithWebService(paths, q, DescriptionFile)
    BY <1>1 DEF WithFile
  <2> HIDE DEF q
  <2> QED
    BY <2>1, WebServiceReached
<1>3. \A i \in 1..n : services[i] \in ToSet(services)
  BY <1>0 DEF ToSet
<1> HIDE DEF services, n, q, Hidden
<1> DEFINE T == {k \in 0..n : \/ Reached(run[k], q) = DescriptionFile
                             \/ \E j \in 1..k : Hidden(services[j])}
<1>4. 0 \in T
  BY <1>0, <1>2
<1>5. ASSUME NEW k \in 0 .. n - 1, k \in T
      PROVE  k + 1 \in T
  <2> DEFINE t == services[k + 1]
  <2>1. /\ run[k + 1] = WithService(run[k], t) /\ k + 1 \in 0..n /\ k + 1 \in 1 .. k + 1
        /\ 1..k \subseteq 1 .. k + 1
    BY <1>0, <1>1
  <2>2. CASE Hidden(t)
    BY <2>1, <2>2
  <2>3. CASE ~Hidden(t)
    <3>1. /\ RegisteredAt(t, UrlsOf[t].control) # q /\ RegisteredAt(t, UrlsOf[t].event) # q
          /\ RegisteredAt(t, UrlsOf[t].scpd) # q
      BY <2>3 DEF Hidden, Kinds
    <3>2. Reached(run[k + 1], q) = Reached(run[k], q)
      <4> HIDE DEF t
      <4> QED
        BY <2>1, <3>1, ServiceReached
    <3> QED
      BY <1>5, <2>1, <3>2
  <2> QED
    BY <2>2, <2>3
<1>6. T \in SUBSET Nat
  BY <1>0
<1>7. n \in T
  <2> HIDE DEF T
  <2> QED
    BY <1>0, <1>4, <1>5, <1>6, Induction
<1>8. Reached(run[n], q) = DescriptionFile \/ \E j \in 1..n : Hidden(services[j])
  BY <1>7
<1> QED
  BY <1>1, <1>3, <1>8 DEF q, Hidden, services

Own == ToSet(document.services)
Embedded == ToSet(document.embedded)

\* Services are added to one of the two lists, once, and the document has the lists as
\* they were.
ListsGrow ==
  /\ starts \in Nat
  /\ tree \in [name : Name, file : Name, services : Seq(Service), embedded : Seq(Service)]
  /\ document.services \in Seq(Service) /\ document.embedded \in Seq(Service)
  /\ ToSet(tree.services) \cap ToSet(tree.embedded) = {}
  /\ Own \subseteq ToSet(tree.services) /\ Embedded \subseteq ToSet(tree.embedded)
  /\ tree.file = WithoutBlanks[tree.name]
  /\ location = <<"", location[2]>>

\* Of each service the device was started with: its objects, those of the latest start,
\* and its variables, the first of which were connected at that start.
Registered ==
  /\ variables \in [Service -> SUBSET (Nat \X Nat)]
  /\ \A s \in Own :
       /\ \E v \in variables[s] : v[2] = starts /\ \A w \in variables[s] : v[1] <= w[1]
       /\ Proper(s) => /\ At(UrlsOf[s].control) = <<"control", s, starts>>
                       /\ At(UrlsOf[s].event) = <<"event", s, starts>>
                       /\ At(UrlsOf[s].scpd) = <<"scpd", s>>
  /\ \/ starts = 0
     \/ At(<<"", WithoutBlanks[document.name]>>) = DescriptionFile
     \/ \E s \in Own : Hides(s)

\* What a control point has, and what it still fetches, comes from a document.
Waiting == {picture.pending[i] : i \in DOMAIN picture.pending}
FromDocument ==
  /\ picture = [name |-> picture.name, services |-> picture.services, starts |-> picture.starts,
                got |-> picture.got, pending |-> picture.pending]
  /\ picture.pending \in Seq(Service \X {"own", "embedded"})
  /\ \A w \in Waiting : w[1] \in IF w[2] = "own" THEN Own ELSE Embedded
  /\ \A k \in picture.services :
       /\ k.service \in Own \cup Embedded
       /\ k.service \in Own /\ Proper(k.service) => k.actions \in {<<"scpd", k.service>>, <<"lost">>}

\* A picture of the last start has, or waits for, what the document lists.
OfLastStart ==
  /\ picture.starts \in Nat /\ picture.starts <= starts
  /\ picture.got # "nothing" /\ picture.starts = starts =>
       \/ /\ picture.name = document.name
          /\ {k.service : k \in picture.services} \cup {w[1] : w \in Waiting} = Own \cup Embedded
       \/ picture.got = "error"
       \/ document.tail
       \/ WithoutBlanks[document.name] # location[2]
       \/ \E s \in Own : Hides(s)

DescriptionInv == ListsGrow /\ Registered /\ FromDocument /\ OfLastStart

LEMMA DescriptionStarts == DescriptionInit => DescriptionInv
<1> SUFFICES ASSUME DescriptionInit PROVE DescriptionInv
  OBVIOUS
<1>1. PICK n \in Name :
        /\ tree = [name |-> n, file |-> WithoutBlanks[n], services |-> <<>>, embedded |-> <<>>]
        /\ location = <<"", WithoutBlanks[n]>> /\ starts = 0 /\ document = NoDocument
        /\ variables = [s \in Service |-> {}]
  BY DEF DescriptionInit
<1>0. ToSet(<<>>) = {} /\ <<>> \in Seq(Service) /\ <<>> \in Seq(Service \X {"own", "embedded"})
  BY DEF ToSet
<1>2. Own = {} /\ Embedded = {} /\ tree.services = <<>> /\ tree.embedded = <<>>
      /\ document.services = <<>> /\ document.embedded = <<>>
  <2>1. document.services = <<>> /\ document.embedded = <<>>
    BY <1>1 DEF NoDocument
  <2> QED
    BY <1>0, <1>1, <2>1 DEF Own, Embedded
<1>3. ListsGrow
  <2>1. location = <<"", location[2]>> /\ tree.name = n /\ tree.file = WithoutBlanks[n]
    BY <1>1
  <2>2. WithoutBlanks[n] \in Name
    BY DescriptionAssumption
  <2>3. tree \in [name : Name, file : Name, services : Seq(Service), embedded : Seq(Service)]
    BY <1>0, <1>1, <2>2
  <2> QED
    BY <1>0, <1>1, <1>2, <2>1, <2>3 DEF ListsGrow
<1>4. Registered
  BY <1>1, <1>2 DEF Registered
<1>5. /\ picture.pending = <<>> /\ picture.services = {} /\ picture.starts = 0
      /\ picture.got = "nothing"
  <2>1. picture = NoPicture
    BY DEF DescriptionInit
  <2> QED
    BY <2>1 DEF NoPicture
<1>6. Waiting = {}
  BY <1>5 DEF Waiting
<1>7. FromDocument
  <2>1. picture = [name |-> picture.name, services |-> picture.services, starts |-> picture.starts,
                   got |-> picture.got, pending |-> picture.pending]
    BY DEF DescriptionInit, NoPicture
  <2> QED
    BY <1>0, <1>5, <1>6, <2>1 DEF FromDocument
<1>8. OfLastStart
  <2>1. picture.starts \in Nat /\ picture.starts <= starts /\ ~(picture.got # "nothing")
    <3>1. picture.starts = 0 /\ starts = 0 /\ picture.got = "nothing"
      BY <1>1, <1>5
    <3> QED
      BY <3>1
  <2> QED
    BY <2>1 DEF OfLastStart
<1> QED
  BY <1>3, <1>4, <1>7, <1>8 DEF DescriptionInv

\* Steps of the device that leave its document leave what a picture is worth.
LEMMA PictureKept ==
  ASSUME FromDocument, OfLastStart, UNCHANGED <<location, starts, document, picture>>
  PROVE  FromDocument' /\ OfLastStart'
<1>1. Own' = Own /\ Embedded' = Embedded /\ Waiting' = Waiting
  BY DEF Own, Embedded, Waiting
<1>2. \A s : Hides(s)' = Hides(s) /\ Proper(s)' = Proper(s)
  BY DEF Hides, RegisteredAt, Proper
<1>3. FromDocument'
  BY <1>1, <1>2 DEF FromDocument
<1>4. OfLastStart'
  BY <1>1, <1>2 DEF OfLastStart
<1> QED
  BY <1>3, <1>4

\* What the application does to the tree leaves the document and the paths.
LEMMA TreeChanged ==
  ASSUME DescriptionInv,
         \/ \E s \in Service : AddService(s) \/ AddEmbeddedDevice(s)
         \/ \E n \in Name : SetFriendlyName(n)
  PROVE  DescriptionInv'
<1>1. UNCHANGED <<location, starts, document, paths, variables, picture>>
  BY DEF AddService, AddEmbeddedDevice, SetFriendlyName
<1>2. ListsGrow'
  <2>0. /\ tree.services \in Seq(Service) /\ tree.embedded \in Seq(Service)
        /\ ToSet(tree.services) \cap ToSet(tree.embedded) = {}
    BY DEF DescriptionInv, ListsGrow
  <2> DEFINE Tree == [name : Name, file : Name, services : Seq(Service), embedded : Seq(Service)]
  <2>4. tree \in Tree
    BY DEF DescriptionInv, ListsGrow
  <2>5. ASSUME /\ tree' \in Tree
               /\ ToSet(tree'.services) \cap ToSet(tree'.embedded) = {}
               /\ ToSet(tree.services) \subseteq ToSet(tree'.services)
               /\ ToSet(tree.embedded) \subseteq ToSet(tree'.embedded)
               /\ tree'.file = WithoutBlanks[tree'.name]
        PROVE  ListsGrow'
    <3>1. Own' = Own /\ Embedded' = Embedded
      BY <1>1 DEF Own, Embedded
    <3> QED
      BY <1>1, <2>5, <3>1 DEF DescriptionInv, ListsGrow
  <2>6. tree.file = WithoutBlanks[tree.name]
    BY DEF DescriptionInv, ListsGrow
  <2>1. ASSUME NEW s \in Service, AddService(s)
        PROVE  ListsGrow'
    <3>1. /\ tree'.services = Append(tree.services, s) /\ tree'.embedded = tree.embedded
          /\ tree'.name = tree.name /\ tree'.file = tree.file
          /\ s \notin ToSet(tree.services) \cup ToSet(tree.embedded)
      BY <2>1 DEF AddService, Unused
    <3>2. ToSet(tree'.services) = ToSet(tree.services) \cup {s} /\ tree'.services \in Seq(Service)
      BY <2>0, <3>1, AppendProperties DEF ToSet
    <3>3. tree' \in Tree
      BY <2>1, <2>4, <3>2 DEF AddService
    <3> QED
      BY <2>0, <2>5, <2>6, <3>1, <3>2, <3>3
  <2>2. ASSUME NEW s \in Service, AddEmbeddedDevice(s)
        PROVE  ListsGrow'
    <3>1. /\ tree'.embedded = Append(tree.embedded, s) /\ tree'.services = tree.services
          /\ tree'.name = tree.name /\ tree'.file = tree.file
          /\ s \notin ToSet(tree.services) \cup ToSet(tree.embedded)
      BY <2>2 DEF AddEmbeddedDevice, Unused
    <3>2. ToSet(tree'.embedded) = ToSet(tree.embedded) \cup {s} /\ tree'.embedded \in Seq(Service)
      BY <2>0, <3>1, AppendProperties DEF ToSet
    <3>3. tree' \in Tree
      BY <2>2, <2>4, <3>2 DEF AddEmbeddedDevice
    <3> QED
      BY <2>0, <2>5, <2>6, <3>1, <3>2, <3>3
  <2>3. ASSUME NEW n \in Name, SetFriendlyName(n)
        PROVE  ListsGrow'
    <3>1. /\ tree'.name = WithoutBlanks[n] /\ tree'.file = WithoutBlanks[n]
          /\ tree'.services = tree.services /\ tree'.embedded = tree.embedded
      BY <2>3 DEF SetFriendlyName, DescriptionInv, ListsGrow
    <3>2. WithoutBlanks[n] \in Name /\ WithoutBlanks[WithoutBlanks[n]] = WithoutBlanks[n]
      BY DescriptionAssumption
    <3>3. tree' \in Tree
      BY <2>3, <2>4, <3>2 DEF SetFriendlyName
    <3> QED
      BY <2>0, <2>5, <3>1, <3>2, <3>3
  <2> QED
    BY <2>1, <2>2, <2>3
<1>3. Registered'
  BY <1>1 DEF DescriptionInv, Registered, Own, At, Hides, RegisteredAt, Proper
<1>4. FromDocument' /\ OfLastStart'
  BY <1>1, PictureKept DEF DescriptionInv
<1> QED
  BY <1>2, <1>3, <1>4 DEF DescriptionInv

\* The paths of the application's own services are nobody else's.
LEMMA WebserviceChanged ==
  ASSUME DescriptionInv,
         \/ \E x \in Suffix : AddWebservice(x)
         \/ \E p \in DOMAIN paths : RemoveWebservice(p)
  PROVE  DescriptionInv'
<1>1. UNCHANGED <<tree, location, starts, document, variables, picture>>
  BY DEF AddWebservice, RemoveWebservice
<1>2. ASSUME NEW q, q[1] # "custom"
      PROVE  At(q)' = At(q)
  <2>1. CASE \E x \in Suffix : AddWebservice(x)
    <3>1. PICK x : paths' = WithWebService(paths, Custom(x), <<"application", x>>)
      BY <2>1 DEF AddWebservice
    <3>2. q # Custom(x)
      BY <1>2 DEF Custom
    <3> HIDE DEF Custom
    <3> QED
      BY <3>1, <3>2 DEF At, WithWebService
  <2>2. CASE \E p \in DOMAIN paths : RemoveWebservice(p)
    <3>1. PICK p \in DOMAIN paths : p[1] = "custom" /\ paths' = WithoutWebService(paths, p)
      BY <2>2 DEF RemoveWebservice
    <3>2. q # p
      BY <1>2, <3>1
    <3> QED
      BY <3>1, <3>2 DEF At, WithoutWebService
  <2> QED
    BY <2>1, <2>2
<1>3. ListsGrow'
  BY <1>1 DEF DescriptionInv, ListsGrow, Own, Embedded
<1>4. Registered'
  <2>1. ASSUME NEW s \in Own, Proper(s)
        PROVE  /\ At(UrlsOf[s].control)' = At(UrlsOf[s].control)
               /\ At(UrlsOf[s].event)' = At(UrlsOf[s].event)
               /\ At(UrlsOf[s].scpd)' = At(UrlsOf[s].scpd)
    <3>1. /\ UrlsOf[s].control[1] # "custom" /\ UrlsOf[s].event[1] # "custom"
          /\ UrlsOf[s].scpd[1] # "custom"
      BY <2>1 DEF Proper
    <3> QED
      BY <1>2, <3>1
  <2> DEFINE place == <<"", WithoutBlanks[document.name]>>
  <2>2. At(place)' = At(place)
    <3>1. place[1] # "custom" /\ place' = place
      BY <1>1
    <3> HIDE DEF place
    <3> QED
      BY <1>2, <3>1 DEF At
  <2>3. \A s : Hides(s)' = Hides(s) /\ Proper(s)' = Proper(s)
    BY <1>1 DEF Hides, RegisteredAt, Proper
  <2>4. Own' = Own
    BY <1>1 DEF Own
  <2> HIDE DEF place
  <2>5. Registered
    BY DEF DescriptionInv
  <2>6. starts' = 0 \/ At(place)' = DescriptionFile \/ \E s \in Own' : Hides(s)'
    <3>1. starts = 0 \/ At(place) = DescriptionFile \/ \E s \in Own : Hides(s)
      BY <2>5 DEF Registered, place
    <3> QED
      BY <1>1, <2>2, <2>3, <2>4, <3>1 DEF DescriptionFile
  <2>7. ASSUME NEW s \in Own'
        PROVE  /\ \E v \in variables'[s] : v[2] = starts' /\ \A w \in variables'[s] : v[1] <= w[1]
               /\ Proper(s)' => /\ At(UrlsOf[s].control)' = <<"control", s, starts'>>
                                /\ At(UrlsOf[s].event)' = <<"event", s, starts'>>
                                /\ At(UrlsOf[s].scpd)' = <<"scpd", s>>
    BY <1>1, <2>1, <2>3, <2>4, <2>5 DEF Registered
  <2> QED
    BY <1>1, <2>5, <2>6, <2>7 DEF Registered, place
<1>5. FromDocument' /\ OfLastStart'
  BY <1>1, PictureKept DEF DescriptionInv
<1> QED
  BY <1>3, <1>4, <1>5 DEF DescriptionInv

\* A start writes and registers what the tree has, and connects all variables.
LEMMA DeviceStarted ==
  ASSUME DescriptionInv, StartDevice
  PROVE  DescriptionInv'
<1>0. /\ UNCHANGED <<tree, location, picture>> /\ starts' = starts + 1 /\ document' = Xml
      /\ paths' = WebServerTree
      /\ variables' = [s \in Service |->
                         IF s \in ToSet(tree.services) THEN Connected(s) ELSE variables[s]]
  BY DEF StartDevice
<1>1. /\ document'.services = tree.services /\ document'.embedded = tree.embedded
      /\ document'.name = tree.name
  BY <1>0 DEF Xml
<1>2. Own' = ToSet(tree.services) /\ Embedded' = ToSet(tree.embedded)
  BY <1>1 DEF Own, Embedded
<1>3. /\ starts \in Nat /\ tree.services \in Seq(Service) /\ tree.embedded \in Seq(Service)
      /\ ToSet(tree.services) \cap ToSet(tree.embedded) = {} /\ Own \subseteq ToSet(tree.services)
      /\ Embedded \subseteq ToSet(tree.embedded) /\ tree.file = WithoutBlanks[tree.name]
      /\ Own \subseteq Own' /\ Embedded \subseteq Embedded' /\ Own' \cap Embedded' = {}
      /\ Own' \subseteq Service
  <2>0. tree.services \in Seq(Service)
    BY DEF DescriptionInv, ListsGrow
  <2>1. ToSet(tree.services) \subseteq Service
    BY <2>0, LenProperties DEF ToSet
  <2> QED
    BY <1>2, <2>1 DEF DescriptionInv, ListsGrow
<1>4. ListsGrow'
  <2>1. tree \in [name : Name, file : Name, services : Seq(Service), embedded : Seq(Service)]
        /\ location = <<"", location[2]>>
    BY DEF DescriptionInv, ListsGrow
  <2>2. /\ starts' \in Nat /\ document'.services \in Seq(Service)
        /\ document'.embedded \in Seq(Service)
    BY <1>0, <1>1, <1>3
  <2> QED
    BY <1>0, <1>2, <1>3, <2>1, <2>2 DEF ListsGrow
<1>5. Registered'
  <2>0. variables \in [Service -> SUBSET (Nat \X Nat)]
    BY DEF DescriptionInv, Registered
  <2>1. ASSUME NEW s \in Service
        PROVE  Connected(s) \subseteq Nat \X Nat
    BY <1>3, <2>0 DEF Connected
  <2>2. variables' \in [Service -> SUBSET (Nat \X Nat)]
    BY <1>0, <2>0, <2>1
  <2>3. ASSUME NEW s \in Own'
        PROVE  \E v \in variables'[s] : v[2] = starts' /\ \A w \in variables'[s] : v[1] <= w[1]
    <3> DEFINE Read == {w[1] : w \in variables[s]} \cup {starts + 1}
    <3>1. s \in Service /\ variables'[s] = variables[s] \cup {<<r, starts + 1>> : r \in Read}
      BY <1>0, <1>2, <1>3 DEF Connected
    <3>2. Read \in SUBSET Nat /\ Read # {}
      BY <1>3, <2>0, <3>1
    <3>3. \A w \in variables[s] : w[1] \in Read
      OBVIOUS
    <3> HIDE DEF Read
    <3>4. PICK r \in Read : \A x \in Read : r <= x
      BY <3>2, LeastNumber
    <3> DEFINE v == <<r, starts + 1>>
    <3>5. v \in variables'[s] /\ v[1] = r /\ v[2] = starts'
      BY <1>0, <3>1
    <3>6. ASSUME NEW w \in variables'[s]
          PROVE  w[1] \in Read
      BY <3>1, <3>3
    <3> HIDE DEF v
    <3> QED
      BY <3>4, <3>5, <3>6
  <2>4. ASSUME NEW p
        PROVE  At(p)' = Reached(WebServerTree, p)
    BY <1>0 DEF At, Reached
  <2>5. ASSUME NEW s \in Own', Proper(s)
        PROVE  /\ At(UrlsOf[s].control)' = <<"control", s, starts'>>
               /\ At(UrlsOf[s].event)' = <<"event", s, starts'>>
               /\ At(UrlsOf[s].scpd)' = <<"scpd", s>>
    BY <1>0, <1>2, <1>3, <2>4, <2>5, ProperRegistered
  <2>6. \/ At(<<"", WithoutBlanks[document.name]>>)' = DescriptionFile
        \/ \E s \in Own' : Hides(s)'
    <3> DEFINE q == <<"", tree.file>>
    <3>1. CASE Reached(WebServerTree, q) = DescriptionFile
      <4>1. WithoutBlanks[document'.name] = tree.file
        BY <1>1, <1>3
      <4>2. At(q)' = DescriptionFile
        BY <1>0, <3>1 DEF At, Reached, DescriptionFile
      <4> QED
        BY <1>0, <4>1, <4>2 DEF At
    <3>2. CASE \E s \in ToSet(tree.services) : \E x \in Kinds : RegisteredAt(s, UrlsOf[s][x]) = q
      <4>1. PICK s \in Own', x \in Kinds : RegisteredAt(s, UrlsOf[s][x]) = q
        BY <1>2, <3>2
      <4>2. <<"", WithoutBlanks[document'.name]>> = q
        BY <1>1, <1>3
      <4> HIDE DEF q
      <4>3. Hides(s)'
        BY <4>1, <4>2 DEF Hides, RegisteredAt, Kinds
      <4> QED
        BY <4>3
    <3> QED
      BY <1>3, <3>1, <3>2, FileRegistered
  <2> QED
    BY <2>2, <2>3, <2>5, <2>6 DEF Registered, Proper
<1>6. FromDocument'
  <2>1. Waiting' = Waiting
    BY <1>0 DEF Waiting
  <2>2. ASSUME NEW w \in Waiting'
        PROVE  w[1] \in IF w[2] = "own" THEN Own' ELSE Embedded'
    BY <1>3, <2>1 DEF DescriptionInv, FromDocument
  <2>3. ASSUME NEW k \in picture'.services
        PROVE  /\ k.service \in Own' \cup Embedded'
               /\ k.service \in Own' /\ Proper(k.service)' =>
                    k.actions \in {<<"scpd", k.service>>, <<"lost">>}
    <3>1. k \in picture.services
      BY <1>0
    <3>2. k.service \in Own' => k.service \in Own
      BY <1>3, <3>1 DEF DescriptionInv, FromDocument
    <3>3. Proper(k.service)' = Proper(k.service)
      BY DEF Proper
    <3> QED
      BY <1>3, <3>1, <3>2, <3>3 DEF DescriptionInv, FromDocument
  <2> QED
    BY <1>0, <2>2, <2>3 DEF DescriptionInv, FromDocument
<1>7. OfLastStart'
  <2>1. picture'.starts \in Nat /\ picture'.starts < starts'
    BY <1>0, <1>3 DEF DescriptionInv, OfLastStart
  <2> QED
    BY <1>0, <1>3, <2>1 DEF OfLastStart
<1> QED
  BY <1>4, <1>5, <1>6, <1>7 DEF DescriptionInv

\* What a picture is worth does not touch the device.
LEMMA DeviceKept ==
  ASSUME ListsGrow, Registered, UNCHANGED <<tree, location, starts, document, paths, variables>>
  PROVE  /\ ListsGrow' /\ Registered' /\ Own' = Own /\ Embedded' = Embedded
         /\ \A s : Hides(s)' = Hides(s) /\ Proper(s)' = Proper(s)
<1>1. Own' = Own /\ Embedded' = Embedded
  BY DEF Own, Embedded
<1>2. \A s : Hides(s)' = Hides(s) /\ Proper(s)' = Proper(s)
  BY DEF Hides, RegisteredAt, Proper
<1>3. \A p : At(p)' = At(p)
  BY DEF At
<1>4. ListsGrow'
  BY <1>1 DEF ListsGrow
<1>5. Registered'
  <2>1. At(<<"", WithoutBlanks[document.name]>>)' = At(<<"", WithoutBlanks[document.name]>>)
    BY <1>3 DEF At
  <2>2. \A s \in Own : /\ At(UrlsOf[s].control)' = At(UrlsOf[s].control)
                       /\ At(UrlsOf[s].event)' = At(UrlsOf[s].event)
                       /\ At(UrlsOf[s].scpd)' = At(UrlsOf[s].scpd)
    BY <1>3
  <2> QED
    BY <1>1, <1>2, <2>1, <2>2 DEF Registered, DescriptionFile
<1> QED
  BY <1>1, <1>2, <1>4, <1>5

\* A download that gave no description leaves an empty picture.
LEMMA NothingGot ==
  ASSUME starts \in Nat, starts' = starts, NEW got,
         picture' = [NoPicture EXCEPT !.starts = starts, !.got = got],
         \/ got = "error" \/ document'.tail
         \/ WithoutBlanks[document'.name] # location'[2] \/ \E s \in Own' : Hides(s)'
  PROVE  FromDocument' /\ OfLastStart'
<1>1. /\ picture'.pending = <<>> /\ picture'.services = {} /\ picture'.starts = starts'
      /\ picture'.got = got
      /\ picture' = [name |-> picture'.name, services |-> picture'.services,
                     starts |-> picture'.starts, got |-> picture'.got, pending |-> picture'.pending]
  BY DEF NoPicture
<1>2. Waiting' = {}
  BY <1>1 DEF Waiting
<1>3. <<>> \in Seq(Service \X {"own", "embedded"})
  BY EmptySeq
<1>4. FromDocument'
  BY <1>1, <1>2, <1>3 DEF FromDocument
<1>5. OfLastStart'
  BY <1>1 DEF OfLastStart
<1> QED
  BY <1>4, <1>5

\* The description is read: all its services are to be fetched.
LEMMA Downloaded ==
  ASSUME DescriptionInv, \E readable \in BOOLEAN : DownloadDescription(readable)
  PROVE  DescriptionInv'
<1>1. PICK readable \in BOOLEAN : DownloadDescription(readable)
  OBVIOUS
<1>2. /\ UNCHANGED <<tree, location, starts, document, paths, variables>>
      /\ starts > 0 /\ (readable \/ document.tail)
      /\ picture' = IF At(location) = DescriptionFile /\ readable THEN Parsed
                    ELSE [NoPicture EXCEPT !.starts = starts, !.got = "no description"]
  BY <1>1 DEF DownloadDescription
<1>3. /\ ListsGrow' /\ Registered' /\ Own' = Own /\ Embedded' = Embedded
      /\ \A s : Hides(s)' = Hides(s) /\ Proper(s)' = Proper(s)
  <2>1. ListsGrow /\ Registered
    BY DEF DescriptionInv
  <2> QED
    BY <1>2, <2>1, DeviceKept
<1>4. starts \in Nat /\ starts' = starts /\ location = <<"", location[2]>>
  BY <1>2 DEF DescriptionInv, ListsGrow
<1>5. CASE At(location) = DescriptionFile /\ readable
  <2> DEFINE Pair == Service \X {"own", "embedded"}
             own == [i \in DOMAIN document.services |-> <<document.services[i], "own">>]
             embedded == [i \in DOMAIN document.embedded |-> <<document.embedded[i], "embedded">>]
             m == Len(own)
             n == Len(embedded)
  <2>1. /\ picture' = Parsed /\ picture'.name = document.name /\ picture'.services = {}
        /\ picture'.starts = starts /\ picture'.pending = own \o embedded
    BY <1>2, <1>5 DEF Parsed
  <2>2. /\ own \in Seq(Pair) /\ m = Len(document.services) /\ DOMAIN own = 1..m /\ m \in Nat
        /\ \A i \in 1..m : own[i] = <<document.services[i], "own">> /\ document.services[i] \in Own
        /\ Own = {document.services[i] : i \in 1..m}
    <3>1. document.services \in Seq(Service)
      BY DEF DescriptionInv, ListsGrow
    <3> QED
      BY <3>1, LenProperties DEF Own, ToSet
  <2>3. /\ embedded \in Seq(Pair) /\ n = Len(document.embedded) /\ DOMAIN embedded = 1..n /\ n \in Nat
        /\ \A i \in 1..n : embedded[i] = <<document.embedded[i], "embedded">>
                           /\ document.embedded[i] \in Embedded
        /\ Embedded = {document.embedded[i] : i \in 1..n}
    <3>1. document.embedded \in Seq(Service)
      BY DEF DescriptionInv, ListsGrow
    <3> QED
      BY <3>1, LenProperties DEF Embedded, ToSet
  <2> HIDE DEF own, embedded, m, n, Pair
  <2>4. /\ own \o embedded \in Seq(Pair) /\ DOMAIN (own \o embedded) = 1 .. m + n
        /\ \A i \in 1 .. m + n : (own \o embedded)[i] = IF i <= m THEN own[i] ELSE embedded[i - m]
    <3>1. /\ own \o embedded \in Seq(Pair) /\ Len(own \o embedded) = Len(own) + Len(embedded)
          /\ \A i \in 1 .. Len(own) + Len(embedded) : (own \o embedded)[i] =
                     IF i <= Len(own) THEN own[i] ELSE embedded[i - Len(own)]
      BY <2>2, <2>3, ConcatProperties
    <3>2. DOMAIN (own \o embedded) = 1 .. Len(own \o embedded)
      BY <3>1, LenProperties
    <3> QED
      BY <3>1, <3>2 DEF m, n
  <2>12. /\ \A i \in 1..m : i \in 1 .. m + n /\ i <= m
         /\ \A i \in 1..n : \E j \in 1 .. m + n : ~(j <= m) /\ j - m = i
         /\ \A i \in 1 .. m + n : ~(i <= m) => i - m \in 1..n
         /\ \A i \in 1 .. m + n : i <= m => i \in 1..m
    <3>1. m \in Nat /\ n \in Nat
      BY <2>2, <2>3
    <3> QED
      <4>1. \A i \in 1..n : m + i \in 1 .. m + n /\ ~(m + i <= m) /\ m + i - m = i
        BY <3>1
      <4> QED
        BY <3>1, <4>1
  <2>5. Waiting' = {(own \o embedded)[i] : i \in 1 .. m + n}
    BY <2>1, <2>4 DEF Waiting
  <2>6. ASSUME NEW w \in Waiting'
        PROVE  \/ w[2] = "own" /\ w[1] \in Own
               \/ w[2] = "embedded" /\ w[1] \in Embedded
    <3>1. PICK i \in 1 .. m + n : w = (own \o embedded)[i]
      BY <2>5
    <3>2. CASE i <= m
      <4>1. i \in 1..m /\ w = own[i]
        BY <2>4, <2>12, <3>1, <3>2
      <4>2. w = <<document.services[i], "own">>
        BY <2>2, <4>1
      <4> QED
        BY <2>2, <4>1, <4>2
    <3>3. CASE ~(i <= m)
      <4>1. i - m \in 1..n /\ w = embedded[i - m]
        BY <2>4, <2>12, <3>1, <3>3
      <4>2. w = <<document.embedded[i - m], "embedded">>
        BY <2>3, <4>1
      <4> QED
        BY <2>3, <4>1, <4>2
    <3> QED
      BY <3>2, <3>3
  <2>7. ASSUME NEW s \in Own \cup Embedded
        PROVE  \E w \in Waiting' : w[1] = s
    <3>1. CASE s \in Own
      <4>1. PICK i \in 1..m : s = document.services[i]
        BY <2>2, <3>1
      <4>2. i \in 1 .. m + n /\ i <= m
        BY <2>12
      <4>3. (own \o embedded)[i] = <<s, "own">>
        BY <2>2, <2>4, <4>1, <4>2
      <4>4. (own \o embedded)[i] \in Waiting'
        BY <2>5, <4>2
      <4> QED
        BY <4>3, <4>4
    <3>2. CASE s \in Embedded
      <4>1. PICK i \in 1..n : s = document.embedded[i]
        BY <2>3, <3>2
      <4>2. PICK j \in 1 .. m + n : ~(j <= m) /\ j - m = i
        BY <2>12
      <4>3. (own \o embedded)[j] = <<s, "embedded">>
        <5>1. (own \o embedded)[j] = embedded[i]
          BY <2>4, <4>2
        <5> QED
          BY <2>3, <4>1, <5>1
      <4>4. (own \o embedded)[j] \in Waiting'
        BY <2>5, <4>2
      <4> QED
        BY <4>3, <4>4
    <3> QED
      BY <3>1, <3>2
  <2>8. {w[1] : w \in Waiting'} = Own \cup Embedded
    BY <2>6, <2>7
  <2>9. picture' = [name |-> picture'.name, services |-> picture'.services,
                    starts |-> picture'.starts, got |-> picture'.got, pending |-> picture'.pending]
    BY <2>1 DEF Parsed
  <2>10. FromDocument'
    BY <1>3, <2>1, <2>4, <2>6, <2>9 DEF FromDocument, Pair
  <2>11. OfLastStart'
    <3>1. {k.service : k \in picture'.services} = {}
      BY <2>1
    <3>2. {k.service : k \in picture'.services} \cup {w[1] : w \in Waiting'} = Own' \cup Embedded'
      BY <1>3, <2>8, <3>1
    <3>3. picture'.name = document'.name
      BY <1>2, <2>1
    <3>4. picture'.starts \in Nat /\ picture'.starts <= starts'
      <4>1. starts \in Nat /\ starts' = starts /\ picture'.starts = starts
        BY <1>4, <2>1
      <4> QED
        BY <4>1
    <3> QED
      BY <3>2, <3>3, <3>4 DEF OfLastStart
  <2> QED
    BY <1>3, <2>10, <2>11 DEF DescriptionInv
<1>6. CASE ~(At(location) = DescriptionFile /\ readable)
  <2>1. picture' = [NoPicture EXCEPT !.starts = starts, !.got = "no description"]
    BY <1>2, <1>6
  <2>2. \/ document.tail \/ WithoutBlanks[document.name] # location[2] \/ \E s \in Own : Hides(s)
    <3>1. CASE ~readable
      BY <1>2, <3>1
    <3>2. CASE readable /\ WithoutBlanks[document.name] = location[2]
      <4>1. location = <<"", WithoutBlanks[document.name]>>
        BY <1>4, <3>2
      <4>2. At(<<"", WithoutBlanks[document.name]>>) # DescriptionFile
        BY <1>6, <3>2, <4>1
      <4> QED
        <5>1. \/ starts = 0 \/ At(<<"", WithoutBlanks[document.name]>>) = DescriptionFile
              \/ \E s \in Own : Hides(s)
          BY DEF DescriptionInv, Registered
        <5>2. starts # 0
          <6>1. starts > 0 /\ starts \in Nat
            BY <1>2, <1>4
          <6> QED
            BY <6>1
        <5> QED
          BY <4>2, <5>1, <5>2
    <3> QED
      BY <3>1, <3>2
  <2> QED
    BY <1>2, <1>3, <1>4, <2>1, <2>2, NothingGot DEF DescriptionInv
<1> QED
  BY <1>5, <1>6

LEMMA DownloadFailed ==
  ASSUME DescriptionInv, DownloadFails
  PROVE  DescriptionInv'
<1>1. /\ UNCHANGED <<tree, location, starts, document, paths, variables>>
      /\ picture' = [NoPicture EXCEPT !.starts = starts, !.got = "error"]
  BY DEF DownloadFails
<1>2. ListsGrow' /\ Registered' /\ starts \in Nat
  <2>1. ListsGrow /\ Registered
    BY DEF DescriptionInv
  <2> QED
    BY <1>1, <2>1, DeviceKept DEF ListsGrow
<1> QED
  BY <1>1, <1>2, NothingGot DEF DescriptionInv

\* The service whose turn it is was of the document, whatever became of its actions.
LEMMA ServiceFetched ==
  ASSUME DescriptionInv, FetchService \/ FetchFails
  PROVE  DescriptionInv'
<1> DEFINE pending == picture.pending
           s == Head(pending)[1]
           own == Head(pending)[2]
           actions == IF FetchService THEN IF own = "own" THEN At(UrlsOf[s].scpd) ELSE <<"notFound">>
                      ELSE <<"lost">>
           new == [service |-> s, actions |-> actions]
           Pair == Service \X {"own", "embedded"}
<1>1. Fetched(actions)
  BY DEF FetchService, FetchFails
<1>2. /\ UNCHANGED <<tree, location, starts, document, paths, variables>>
      /\ pending # <<>>
      /\ picture' = [picture EXCEPT !.services = @ \cup {new}, !.pending = Tail(@)]
  <2> HIDE DEF actions
  <2> QED
    BY <1>1 DEF Fetched
<1>3. /\ ListsGrow' /\ Registered' /\ Own' = Own /\ Embedded' = Embedded
      /\ \A t : Hides(t)' = Hides(t) /\ Proper(t)' = Proper(t)
  <2>1. ListsGrow /\ Registered
    BY DEF DescriptionInv
  <2> QED
    BY <1>2, <2>1, DeviceKept
<1>4. FromDocument /\ OfLastStart /\ pending \in Seq(Pair) /\ Own \cap Embedded = {}
  BY DEF DescriptionInv, FromDocument, ListsGrow
<1>5. Head(pending) = pending[1] /\ Head(pending) \in Waiting
      /\ Tail(pending) \in Seq(Pair)
      /\ Waiting = {Head(pending)} \cup {Tail(pending)[i] : i \in DOMAIN Tail(pending)}
  <2>1. /\ Len(pending) \in Nat /\ DOMAIN pending = 1 .. Len(pending) /\ Len(pending) > 0
        /\ Tail(pending) \in Seq(Pair) /\ Len(Tail(pending)) = Len(pending) - 1
        /\ DOMAIN Tail(pending) = 1 .. Len(pending) - 1
        /\ \A i \in 1 .. Len(pending) - 1 : Tail(pending)[i] = pending[i + 1]
        /\ Head(pending) = pending[1]
    BY <1>2, <1>4, LenProperties, HeadTailProperties, EmptySeq
  <2> DEFINE n == Len(pending)
             rest == Tail(pending)
  <2>2. Waiting = {pending[i] : i \in 1..n}
    BY <2>1 DEF Waiting
  <2>3. n \in Nat /\ n > 0 /\ DOMAIN rest = 1 .. n - 1
        /\ \A i \in 1 .. n - 1 : rest[i] = pending[i + 1]
    BY <2>1
  <2> HIDE DEF n, pending, rest
  <2>4. \A i \in 1..n : i = 1 \/ \E j \in 1 .. n - 1 : j + 1 = i
    <3>1. \A i \in 1..n : i = 1 \/ (i - 1 \in 1 .. n - 1 /\ i - 1 + 1 = i)
      BY <2>3
    <3> QED
      BY <3>1
  <2>5. 1 \in 1..n /\ \A j \in 1 .. n - 1 : j + 1 \in 1..n
    BY <2>3
  <2>6. Waiting = {pending[1]} \cup {rest[i] : i \in DOMAIN rest}
    <3>1. ASSUME NEW w \in Waiting
          PROVE  w \in {pending[1]} \cup {rest[i] : i \in 1 .. n - 1}
      <4>1. PICK i \in 1..n : w = pending[i]
        BY <2>2
      <4>2. CASE i = 1
        BY <4>1, <4>2
      <4>3. CASE i # 1
        <5>1. PICK j \in 1 .. n - 1 : j + 1 = i
          BY <2>4, <4>3
        <5>2. rest[j] = w
          BY <2>3, <4>1, <5>1
        <5> QED
          BY <5>2
      <4> QED
        BY <4>2, <4>3
    <3>2. ASSUME NEW i \in 1 .. n - 1
          PROVE  rest[i] \in Waiting
      <4>1. rest[i] = pending[i + 1] /\ i + 1 \in 1..n
        BY <2>3, <2>5
      <4> QED
        BY <2>2, <4>1
    <3>3. pending[1] \in Waiting
      BY <2>2, <2>5
    <3> QED
      BY <2>3, <3>1, <3>2, <3>3
  <2> QED
    BY <2>1, <2>6 DEF rest, pending
<1> HIDE DEF pending, actions
<1>6. picture' = [name |-> picture.name, services |-> picture.services \cup {new},
                  starts |-> picture.starts, got |-> picture.got, pending |-> Tail(pending)]
  BY <1>2, <1>4 DEF FromDocument, pending
<1>7. /\ picture'.name = picture.name /\ picture'.services = picture.services \cup {new}
      /\ picture'.starts = picture.starts /\ picture'.got = picture.got
      /\ picture'.pending = Tail(pending)
  BY <1>6
<1>8. Waiting = {Head(pending)} \cup Waiting'
  BY <1>5, <1>7 DEF Waiting
<1>9. s \in IF own = "own" THEN Own ELSE Embedded
  BY <1>4, <1>5 DEF FromDocument
<1>10. s \in Own /\ Proper(s) => actions \in {<<"scpd", s>>, <<"lost">>}
  <2>1. CASE FetchService /\ s \in Own /\ Proper(s)
    <3>1. own = "own"
      BY <1>4, <1>9, <2>1
    <3>2. At(UrlsOf[s].scpd) = <<"scpd", s>>
      BY <2>1 DEF DescriptionInv, Registered
    <3> QED
      BY <2>1, <3>1, <3>2 DEF actions
  <2>2. CASE ~FetchService
    BY <2>2 DEF actions
  <2> QED
    BY <2>1, <2>2
<1> HIDE DEF s, own
<1>11. new.service = s /\ new.actions = actions
  OBVIOUS
<1> HIDE DEF new
<1>12. FromDocument'
  <2>1. \A w \in Waiting' : w[1] \in IF w[2] = "own" THEN Own' ELSE Embedded'
    BY <1>3, <1>4, <1>8 DEF FromDocument
  <2>2. ASSUME NEW k \in picture'.services
        PROVE  /\ k.service \in Own' \cup Embedded'
               /\ k.service \in Own' /\ Proper(k.service)' =>
                    k.actions \in {<<"scpd", k.service>>, <<"lost">>}
    <3>1. CASE k = new
      BY <1>3, <1>9, <1>10, <1>11, <3>1
    <3>2. CASE k \in picture.services
      BY <1>3, <1>4, <3>2 DEF FromDocument
    <3> QED
      BY <1>7, <3>1, <3>2
  <2>3. picture'.pending \in Seq(Service \X {"own", "embedded"})
    BY <1>5, <1>7
  <2>4. picture' = [name |-> picture'.name, services |-> picture'.services,
                    starts |-> picture'.starts, got |-> picture'.got, pending |-> picture'.pending]
    BY <1>6
  <2> QED
    BY <2>1, <2>2, <2>3, <2>4 DEF FromDocument
<1>13. OfLastStart'
  <2>1. {k.service : k \in picture'.services} = {k.service : k \in picture.services} \cup {s}
    BY <1>7, <1>11
  <2>2. {w[1] : w \in Waiting} = {w[1] : w \in Waiting'} \cup {s}
    BY <1>8 DEF s
  <2>3. {k.service : k \in picture'.services} \cup {w[1] : w \in Waiting'}
          = {k.service : k \in picture.services} \cup {w[1] : w \in Waiting}
    BY <2>1, <2>2
  <2> QED
    BY <1>2, <1>3, <1>4, <1>7, <2>3 DEF OfLastStart
<1> QED
  BY <1>3, <1>12, <1>13 DEF DescriptionInv

LEMMA DescriptionStep == DescriptionInv /\ [DescriptionNext]_descriptionVars => DescriptionInv'
<1> SUFFICES ASSUME DescriptionInv, [DescriptionNext]_descriptionVars PROVE DescriptionInv'
  OBVIOUS
<1>1. CASE StartDevice
  BY <1>1, DeviceStarted
<1>2. CASE StopDevice
  <2>1. ListsGrow /\ Registered /\ FromDocument /\ OfLastStart
    BY DEF DescriptionInv
  <2>2. UNCHANGED <<tree, location, starts, document, paths, variables, picture>>
    BY <1>2 DEF StopDevice
  <2> QED
    BY <2>1, <2>2, DeviceKept, PictureKept DEF DescriptionInv
<1>3. CASE DownloadFails
  BY <1>3, DownloadFailed
<1>4. CASE FetchService \/ FetchFails
  BY <1>4, ServiceFetched
<1>5. CASE \E readable \in BOOLEAN : DownloadDescription(readable)
  BY <1>5, Downloaded
<1>6. CASE \/ \E s \in Service : AddService(s) \/ AddEmbeddedDevice(s)
           \/ \E n \in Name : SetFriendlyName(n)
  BY <1>6, TreeChanged
<1>7. CASE (\E x \in Suffix : AddWebservice(x)) \/ \E p \in DOMAIN paths : RemoveWebservice(p)
  BY <1>7, WebserviceChanged
<1>8. CASE UNCHANGED descriptionVars
  <2>1. ListsGrow /\ Registered /\ FromDocument /\ OfLastStart
    BY DEF DescriptionInv
  <2>2. UNCHANGED <<tree, location, starts, document, paths, variables, picture>>
    BY <1>8 DEF descriptionVars
  <2> QED
    BY <2>1, <2>2, DeviceKept, PictureKept DEF DescriptionInv
<1> QED
  BY <1>1, <1>2, <1>3, <1>4, <1>5, <1>6, <1>7, <1>8 DEF DescriptionNext

LEMMA PictureFollows == DescriptionInv => PictureTrue
<1> SUFFICES ASSUME DescriptionInv PROVE PictureTrue
  OBVIOUS
<1>1. PictureLeadsHome
  <2> SUFFICES ASSUME NEW k \in picture.services, Proper(k.service),
                      k.service \in ToSet(tree.services)
               PROVE  /\ k.actions \in {<<"scpd", k.service>>, <<"lost">>}
                      /\ At(UrlsOf[k.service].control) = <<"control", k.service, starts>>
                      /\ At(UrlsOf[k.service].event) = <<"event", k.service, starts>>
                      /\ \E v \in variables[k.service] :
                           v[2] = starts /\ \A w \in variables[k.service] : v[1] <= w[1]
    BY DEF PictureLeadsHome
  <2>1. k.service \in Own
    BY DEF DescriptionInv, FromDocument, ListsGrow
  <2> QED
    BY <2>1 DEF DescriptionInv, FromDocument, Registered
<1>2. PictureComplete
  <2> SUFFICES ASSUME picture.got # "nothing", picture.starts = starts, picture.pending = <<>>
               PROVE  \/ /\ picture.name = document.name
                         /\ {k.service : k \in picture.services} = Own \cup Embedded
                      \/ picture.got = "error"
                      \/ document.tail
                      \/ WithoutBlanks[document.name] # location[2]
                      \/ \E s \in Own : Hides(s)
    BY DEF PictureComplete, Own, Embedded
  <2>1. Waiting = {}
    BY DEF Waiting
  <2>2. {w[1] : w \in Waiting} = {}
    BY <2>1
  <2> QED
    BY <2>2 DEF DescriptionInv, OfLastStart
<1> QED
  BY <1>1, <1>2 DEF PictureTrue

\* However often the device was started and its application added, removed and renamed
\* since, what a control point read of a proper service leads to its newest objects, and
\* a picture of the last start lacks no service, for any services, URLs and names.
THEOREM PicturesAreTrue == DescriptionSpec => []PictureTrue
<1>1. DescriptionInit => DescriptionInv
  BY DescriptionStarts
<1>2. DescriptionInv /\ [DescriptionNext]_descriptionVars => DescriptionInv'
  BY DescriptionStep
<1>3. DescriptionInv => PictureTrue
  BY PictureFollows
<1> QED
  BY <1>1, <1>2, <1>3, PTL DEF DescriptionSpec

-----------------------------------------------------------------------------
(* The types of the parts *)

\* A variable and its attributes have their types.
THEOREM ValuesTypes == ValuesSpec => []ValuesTypeOK
<1>1. ValuesInit => ValuesInv
  BY ValuesAssumption DEF ValuesInit, ValuesInv, Number
<1>2. ValuesInv => ValuesTypeOK
  <2> SUFFICES ASSUME ValuesInv PROVE ValuesTypeOK
    OBVIOUS
  <2>1. /\ cell.value \in VarText \cup {Number} /\ lastTold \in VarText \cup {Number}
        /\ cell.minimum \in VarText /\ cell.maximum \in VarText /\ cell.allowed \in SUBSET VarText
        /\ proper \in BOOLEAN /\ hushed \in BOOLEAN
    BY DEF ValuesInv
  <2> QED
    BY <2>1 DEF ValuesTypeOK
<1> QED
  BY <1>1, <1>2, ValuesStep, PTL DEF ValuesSpec

\* Applications are in their phases, and no more random numbers are drawn than there are.
THEOREM NetworkTypes == NetworkSpec => []NetworkTypeOK
<1> DEFINE Drawn(a) == draws[a] \in 0 .. Len(Rand[seed[a]])
           Counts == /\ interfaces \in Interfaces /\ runs \in 0..MaxRuns
                     /\ \A a \in Application : phase[a] # "off" => Drawn(a)
<1>1. NetworkInit => NetworkInv
  BY DEF NetworkInit, NetworkInv, NetworkShape, HasPort
<1>2. NetworkInit => Counts
  BY NetworkAssumption DEF NetworkInit
<1>3. NetworkInv /\ Counts /\ [NetworkNext]_networkVars => Counts'
  <2> SUFFICES ASSUME NetworkInv, Counts, [NetworkNext]_networkVars PROVE Counts'
    OBVIOUS
  <2>0. /\ seed \in [Application -> Nat] /\ draws \in [Application -> Nat]
        /\ DOMAIN phase = Application /\ clock \in Seconds /\ MaxRuns \in Nat
        /\ \A t \in Seconds : Len(Rand[t]) \in Nat
        /\ \A a \in Application : phase[a] # "off" => seed[a] \in Seconds
    BY NetworkAssumption, LenProperties DEF NetworkInv, NetworkShape
  <2>1. CASE UNCHANGED <<interfaces, runs, phase, draws, seed>>
    BY <2>1
  <2>2. ASSUME NEW now \in Interfaces, InterfacesChange(now) PROVE Counts'
    BY <2>2 DEF InterfacesChange
  <2>3. ASSUME NEW a \in Application, BeginDrawing(a) PROVE Counts'
    <3>1. /\ runs' = runs + 1 /\ runs < MaxRuns /\ interfaces' = interfaces
          /\ seed' = [seed EXCEPT ![a] = clock] /\ draws' = [draws EXCEPT ![a] = 0]
          /\ phase' = [phase EXCEPT ![a] = "drawing"]
      BY <2>3 DEF BeginDrawing
    <3>2. Drawn(a)'
      BY <2>0, <3>1
    <3>3. \A b \in Application \ {a} : phase'[b] = phase[b] /\ seed'[b] = seed[b] /\ draws'[b] = draws[b]
      BY <2>0, <3>1
    <3> QED
      BY <2>0, <3>1, <3>2, <3>3
  <2>4. ASSUME NEW a \in Application, NEW answered \in BOOLEAN, DrawPort(a, answered) PROVE Counts'
    <3>1. /\ phase[a] = "drawing" /\ draws[a] < Len(Rand[seed[a]])
          /\ draws' = [draws EXCEPT ![a] = draws[a] + 1] /\ UNCHANGED <<interfaces, runs, seed>>
          /\ \A b \in Application \ {a} : phase'[b] = phase[b]
      BY <2>0, <2>4 DEF DrawPort
    <3>2. Drawn(a)'
      <4>1. draws'[a] = draws[a] + 1 /\ seed'[a] = seed[a] /\ seed[a] \in Seconds
        BY <2>0, <3>1
      <4> QED
        BY <2>0, <3>1, <4>1
    <3>3. \A b \in Application \ {a} : seed'[b] = seed[b] /\ draws'[b] = draws[b]
      BY <2>0, <3>1
    <3> QED
      BY <3>1, <3>2, <3>3
  <2>5. ASSUME NEW a \in Application, TakeAddress(a) \/ ListenThere(a) \/ QuitApplication(a) PROVE Counts'
    <3>1. /\ phase[a] # "off" /\ UNCHANGED <<interfaces, runs, draws, seed>>
          /\ \A b \in Application \ {a} : phase'[b] = phase[b]
      BY <2>0, <2>5 DEF TakeAddress, ListenThere, QuitApplication
    <3> QED
      BY <3>1
  <2>6. CASE Tick \/ UNCHANGED networkVars
    BY <2>1, <2>6 DEF Tick, networkVars
  <2> QED
    BY <2>2, <2>3, <2>4, <2>5, <2>6 DEF NetworkNext
<1>4. NetworkInv /\ Counts => NetworkTypeOK
  <2> SUFFICES ASSUME NetworkInv, Counts PROVE NetworkTypeOK
    OBVIOUS
  <2>1. phase \in [Application -> {"off", "drawing", "drawn", "made", "listening", "deaf"}]
    BY DEF NetworkInv, NetworkShape, HasPort
  <2>2. clock \in Seconds /\ before \in [Application -> SUBSET Application] /\ slow \in [Application -> BOOLEAN]
    BY DEF NetworkInv, NetworkShape
  <2> QED
    BY <2>1, <2>2 DEF NetworkTypeOK
<1> QED
  BY <1>1, <1>2, <1>3, <1>4, NetworkStep, PTL DEF NetworkSpec

\* Processes that save or hold a fresh state are running, and values are values.
THEOREM ConfigTypes == ConfigSpec => []ConfigTypeOK
<1> DEFINE Texts == Value \cup {""}
           Plains == [Plain -> Texts]
           Map(m) == \A k \in DOMAIN m : m[k] \in Texts
           Typed == /\ direct \cup saving \cup fresh \subseteq running /\ running \subseteq Process
                    /\ DOMAIN settings = Process /\ \A p \in Process : Map(settings[p])
                    /\ Map(file) /\ stored \in Plains /\ expected \in [Process -> Plains] /\ careful \in BOOLEAN
<1>0. Map(EmptyMap) /\ NothingSet \in Plains
  BY DEF EmptyMap, NothingSet
<1>1. ConfigInit => Typed
  BY <1>0 DEF ConfigInit
<1>2. Typed /\ [ConfigNext]_configVars => Typed'
  <2> SUFFICES ASSUME Typed, [ConfigNext]_configVars PROVE Typed'
    OBVIOUS
  <2>0. CASE UNCHANGED configVars
    BY <2>0 DEF configVars
  <2> SUFFICES ASSUME NEW p \in Process,
                      \/ StartProcess(p) \/ EndProcess(p) \/ SaveWrites(p)
                      \/ \E access \in BOOLEAN : SetDirectAccess(p, access)
                      \/ \E opens \in BOOLEAN :
                           \/ Update(p, opens) \/ Save(p, opens)
                           \/ \E section \in Section :
                                \/ RemoveSection(p, section, opens)
                                \/ \E parameter \in Parameter, value \in Value \cup {""} :
                                     SetParameter(p, section, parameter, value, opens)
               PROVE  Typed'
    BY <2>0 DEF ConfigNext
  <2>1. ASSUME NEW m, Map(m), NEW e \in Plains, settings' = [settings EXCEPT ![p] = m],
               expected' = [expected EXCEPT ![p] = e]
        PROVE  /\ DOMAIN settings' = Process /\ \A q \in Process : Map(settings'[q])
               /\ expected' \in [Process -> Plains]
    <3>1. \A q \in Process : settings'[q] = IF q = p THEN m ELSE settings[q]
      BY <2>1
    <3>2. DOMAIN settings' = Process /\ expected' \in [Process -> Plains]
      BY <2>1
    <3> HIDE DEF Texts
    <3> QED
      BY <2>1, <3>1, <3>2
  <2>2. CASE StartProcess(p)
    BY <1>0, <2>1, <2>2 DEF StartProcess
  <2>3. CASE EndProcess(p)
    <3>1. /\ DOMAIN settings' = Process /\ \A q \in Process : Map(settings'[q])
          /\ expected' \in [Process -> Plains]
      BY <1>0, <2>1, <2>3 DEF EndProcess
    <3> QED
      BY <2>3, <3>1 DEF EndProcess
  <2>4. CASE SaveWrites(p)
    BY <2>4 DEF SaveWrites
  <2>5. ASSUME NEW access \in BOOLEAN, SetDirectAccess(p, access) PROVE Typed'
    BY <2>5 DEF SetDirectAccess, Able
  <2>6. ASSUME NEW opens \in BOOLEAN, SaveOpens(p, opens), p \in running, UNCHANGED <<running, direct>>
        PROVE  Map(file)' /\ (saving \cup fresh \subseteq running)' /\ careful' \in BOOLEAN
    BY <1>0, <2>6 DEF SaveOpens
  <2>7. ASSUME NEW opens \in BOOLEAN, Update(p, opens) PROVE Typed'
    <3> DEFINE m == IF opens THEN file ELSE EmptyMap
    <3>1. Map(m)
      BY <1>0
    <3>2. /\ settings' = [settings EXCEPT ![p] = m] /\ expected' = [expected EXCEPT ![p] = stored]
          /\ p \in running /\ fresh' \subseteq fresh \cup {p} /\ careful' \in BOOLEAN
          /\ UNCHANGED <<running, direct, file, saving, stored>>
      BY <2>7 DEF Update, Able
    <3> QED
      BY <2>1, <3>1, <3>2
  <2>8. ASSUME NEW opens \in BOOLEAN, Save(p, opens) PROVE Typed'
    BY <2>6, <2>8 DEF Save, Able
  <2>9. ASSUME NEW opens \in BOOLEAN, SavedIfDirect(p, opens), p \in running, UNCHANGED <<running, direct>>
        PROVE  Map(file)' /\ (saving \cup fresh \subseteq running)' /\ careful' \in BOOLEAN
    BY <2>6, <2>9 DEF SavedIfDirect
  <2>10. ASSUME NEW keys PROVE Map(Without(settings[p], keys))
    BY DEF Without
  <2>11. ASSUME NEW opens \in BOOLEAN, NEW section \in Section, RemoveSection(p, section, opens)
         PROVE  Typed'
    <3> DEFINE s == settings[p]
               m == Without(s, {k \in DOMAIN s : <<k[1]>> = section})
               e == [n \in Plain |-> IF n[1] = section THEN "" ELSE expected[p][n]]
    <3>1. Map(m) /\ e \in Plains
      BY <2>10
    <3>2. /\ settings' = [settings EXCEPT ![p] = m] /\ expected' = [expected EXCEPT ![p] = e]
          /\ p \in running /\ SavedIfDirect(p, opens) /\ UNCHANGED <<running, direct, stored>>
      BY <2>11 DEF RemoveSection, Able
    <3> HIDE DEF m, e
    <3> QED
      BY <2>1, <2>9, <3>1, <3>2
  <2>12. ASSUME NEW opens \in BOOLEAN, NEW section \in Section, NEW parameter \in Parameter,
                NEW value \in Value \cup {""}, SetParameter(p, section, parameter, value, opens)
         PROVE  Typed'
    <3> DEFINE m == WithParameter(settings[p], Key(section, parameter), value)
               e == [n \in Plain |-> IF n = <<section, parameter>> THEN value ELSE expected[p][n]]
    <3>1. Map(m) /\ e \in Plains
      BY <2>10 DEF WithParameter
    <3>2. /\ settings' = [settings EXCEPT ![p] = m] /\ expected' = [expected EXCEPT ![p] = e]
          /\ p \in running /\ SavedIfDirect(p, opens) /\ UNCHANGED <<running, direct, stored>>
      BY <2>12 DEF SetParameter, Able
    <3> HIDE DEF m, e
    <3> QED
      BY <2>1, <2>9, <3>1, <3>2
  <2> HIDE DEF Typed
  <2> QED
    BY <2>2, <2>3, <2>4, <2>5, <2>7, <2>8, <2>11, <2>12
<1>3. Typed => ConfigTypeOK
  BY DEF ConfigTypeOK
<1> QED
  BY <1>1, <1>2, <1>3, PTL DEF ConfigSpec

\* The replies that are awaited, each icon's from the first to the last.
Awaiting == {w \in (DOMAIN icons) \X (1..downloads) : w[2] <= icons[w[1]].waiting}

\* Products of counts, and of one count less.
LEMMA Products ==
  /\ \A a, b \in Nat : a * b \in Nat
  /\ \A d, c \in Nat : d * (c - 1) + d = d * c
  OBVIOUS

\* What is bounded by a product is bounded by that of greater factors.
LEMMA ProductsTwice ==
  ASSUME NEW m \in Nat, NEW d \in 0..m, NEW n \in Nat, NEW x \in Nat, x <= d * (d * n)
  PROVE  x <= m * m * n
<1>1. d * n \in Nat /\ m * n \in Nat /\ d * (d * n) \in Nat /\ d * (m * n) \in Nat /\ m * (m * n) \in Nat
  BY Products
<1>2. d * n <= m * n
  <2>1. n * d <= n * m
    BY ProductsInOrder
  <2>2. n * d = d * n /\ n * m = m * n
    OBVIOUS
  <2> QED
    BY <2>1, <2>2
<1>3. d * (d * n) <= d * (m * n)
  BY <1>1, <1>2, ProductsInOrder
<1>4. d * (m * n) <= m * (m * n)
  <2> DEFINE p == m * n
  <2>1. p \in Nat
    BY <1>1
  <2> HIDE DEF p
  <2>2. p * d <= p * m
    BY <2>1, ProductsInOrder
  <2>3. p * d = d * p /\ p * m = m * p
    BY <2>1
  <2>4. d * p <= m * p
    BY <2>2, <2>3
  <2> QED
    BY <2>4 DEF p
<1>5. m * (m * n) = m * m * n
  OBVIOUS
<1>6. \A a, b, c : a \in Nat /\ b \in Nat /\ c \in Nat /\ x <= a /\ a <= b /\ b <= c => x <= c
  OBVIOUS
<1> QED
  BY <1>1, <1>3, <1>4, <1>5, <1>6

\* Every reply counts once for each call, and none comes that is not awaited.
CountBound == downloaded + downloads * Cardinality(Awaiting) <= downloads * (downloads * Cardinality(DOMAIN icons))

\* The replies awaited can be counted, and are at most one for each call and icon.
LEMMA AwaitingCounted ==
  ASSUME IconsCounted
  PROVE  /\ IsFiniteSet(Awaiting) /\ Cardinality(Awaiting) \in Nat /\ Cardinality(DOMAIN icons) \in Nat
         /\ Cardinality(Awaiting) <= downloads * Cardinality(DOMAIN icons)
<1>1. IsFiniteSet(DOMAIN icons) /\ downloads \in Nat
  BY DEF IconsCounted
<1>2. IsFiniteSet(1..downloads) /\ Cardinality(1..downloads) = downloads
  BY <1>1, FS_Interval
<1>3. /\ IsFiniteSet((DOMAIN icons) \X (1..downloads))
      /\ Cardinality((DOMAIN icons) \X (1..downloads)) = Cardinality(DOMAIN icons) * Cardinality(1..downloads)
  BY <1>1, <1>2, FS_Product
<1>4. Awaiting \subseteq (DOMAIN icons) \X (1..downloads)
  BY DEF Awaiting
<1>5. IsFiniteSet(Awaiting) /\ Cardinality(Awaiting) <= Cardinality((DOMAIN icons) \X (1..downloads))
  BY <1>3, <1>4, FS_Subset
<1>6. Cardinality(Awaiting) \in Nat /\ Cardinality(DOMAIN icons) \in Nat
  BY <1>1, <1>5, FS_CardinalityType
<1>7. \A n \in Nat : n * downloads = downloads * n
  BY <1>1
<1> QED
  BY <1>2, <1>3, <1>5, <1>6, <1>7

\* No more replies are awaited than calls times icons.
AwaitingFew ==
  /\ Cardinality(Awaiting) \in Nat /\ Cardinality(DOMAIN icons) \in Nat /\ downloads \in Nat
  /\ Cardinality(Awaiting) <= downloads * Cardinality(DOMAIN icons)

LEMMA AwaitingBound == IconsCounted => AwaitingFew
  BY AwaitingCounted DEF IconsCounted, AwaitingFew

\* A reply is one awaited less.
LEMMA ReplyBound ==
  ASSUME IconsCounted, CountBound, NEW i \in DOMAIN icons, IconReply(i)
  PROVE  CountBound'
<1>1. /\ icons[i].waiting > 0 /\ icons' = [icons EXCEPT ![i].waiting = @ - 1]
      /\ downloaded' = downloaded + icons[i].connections /\ downloads' = downloads
  BY DEF IconReply, CountDownloads
<1>2. /\ DOMAIN icons' = DOMAIN icons
      /\ \A j \in DOMAIN icons : j # i => icons'[j] = icons[j]
      /\ icons'[i].waiting = icons[i].waiting - 1
  BY <1>1 DEF IconsCounted, IconShape
<1>3. icons[i].connections = downloads /\ icons[i].waiting \in 1..downloads /\ downloads \in Nat /\ downloaded \in Nat
  BY <1>1 DEF IconsCounted, IconShape
<1> DEFINE last == <<i, icons[i].waiting>>
           C == Cardinality(Awaiting)
           N == Cardinality(DOMAIN icons)
<1>4. last \in Awaiting
  BY <1>3 DEF Awaiting
<1>5. Awaiting' = Awaiting \ {last}
  <2>1. ASSUME NEW w \in (DOMAIN icons) \X (1..downloads)
        PROVE  w[2] <= icons'[w[1]].waiting <=> w[2] <= icons[w[1]].waiting /\ w # last
    <3>1. CASE w[1] # i
      BY <1>2, <2>1, <3>1
    <3>2. CASE w[1] = i
      <4>1. w[2] \in Nat /\ w = <<i, w[2]>>
        BY <2>1, <3>2
      <4>2. w = last <=> w[2] = icons[i].waiting
        BY <4>1
      <4> QED
        BY <1>2, <1>3, <3>2, <4>1, <4>2
    <3> QED
      BY <3>1, <3>2
  <2>2. Awaiting' = {w \in (DOMAIN icons) \X (1..downloads) : w[2] <= icons'[w[1]].waiting}
    BY <1>1, <1>2 DEF Awaiting
  <2> HIDE DEF last
  <2> QED
    BY <2>1, <2>2 DEF Awaiting
<1>6. C \in Nat /\ N \in Nat /\ IsFiniteSet(Awaiting)
  BY AwaitingCounted
<1>7. Cardinality(Awaiting') = C - 1
  BY <1>4, <1>5, <1>6, FS_RemoveElement
<1>8. downloaded + downloads * C <= downloads * (downloads * N)
  BY DEF CountBound
<1>9. downloads * (C - 1) + downloads = downloads * C
  BY <1>3, <1>6, Products
<1>10. downloads * (C - 1) \in Int
  BY <1>3, <1>6
<1> HIDE DEF C, N
<1>11. (downloaded + downloads) + downloads * (C - 1) <= downloads * (downloads * N)
  <2> DEFINE a == downloads * (C - 1)
             b == downloads * (downloads * N)
  <2>1. a \in Int /\ downloaded + (a + downloads) <= b /\ b \in Int
    <3>1. b \in Nat
      BY <1>3, <1>6, Products
    <3> QED
      BY <1>8, <1>9, <1>10, <3>1
  <2> HIDE DEF a, b
  <2>2. (downloaded + downloads) + a <= b
    BY <1>3, <2>1
  <2> QED
    BY <2>2 DEF a, b
<1> QED
  BY <1>1, <1>2, <1>3, <1>7, <1>11 DEF CountBound, N

\* A call for the icons awaits one more of each, and the count starts again.
LEMMA RequestBound ==
  ASSUME IconsCounted, RequestIcons
  PROVE  CountBound'
<1>1. IconsCounted' /\ downloaded' = 0
  BY RequestCounted DEF RequestIcons
<1>0. AwaitingFew'
  BY <1>1, AwaitingBound, PTL
<1>2. /\ Cardinality(Awaiting') \in Nat /\ Cardinality(DOMAIN icons') \in Nat /\ downloads' \in Nat
      /\ Cardinality(Awaiting') <= downloads' * Cardinality(DOMAIN icons')
  BY <1>0 DEF AwaitingFew
<1>3. \A d, c, n \in Nat : c <= d * n => 0 + d * c <= d * (d * n)
  <2> SUFFICES ASSUME NEW d \in Nat, NEW c \in Nat, NEW n \in Nat, c <= d * n PROVE d * c <= d * (d * n)
    OBVIOUS
  <2>1. d * n \in Int
    OBVIOUS
  <2> QED
    BY <2>1, ProductsInOrder
<1> QED
  BY <1>1, <1>2, <1>3 DEF CountBound

\* A function on the numbers from 1 is a sequence of its values.
LEMMA SequenceOfItems ==
  ASSUME NEW n \in Nat, NEW s, s = [i \in 1..n |-> s[i]]
  PROVE  s \in Seq(ToSet(s)) /\ Len(s) = n
<1>1. DOMAIN s = 1..n
  OBVIOUS
<1>2. \A i \in 1..n : s[i] \in ToSet(s)
  BY <1>1 DEF ToSet
<1>3. s \in [1..n -> ToSet(s)]
  BY <1>2
<1> QED
  BY <1>3, IsSequence

LEMMA ItemsAreNumbered ==
  ASSUME NEW S, NEW s \in Seq(S)
  PROVE  DOMAIN s = 1..Len(s) /\ Len(s) \in Nat /\ Cardinality(DOMAIN s) = Len(s)
<1>1. DOMAIN s = 1..Len(s) /\ Len(s) \in Nat
  BY LenProperties
<1>2. \A n \in Nat : Cardinality(1..n) = n
  BY FS_Interval
<1> QED
  BY <1>1, <1>2

\* A device and what is found of it have their elements; and no more replies are counted
\* than one for each call, icon and connection.
THEOREM DocumentTypes == DocumentSpec => []DocumentTypeOK
<1> DEFINE Typed == /\ DOMAIN device.attributes = WrittenElements /\ DOMAIN found.attributes = ReadElements
                    /\ downloads \in 0..MaxDownloads /\ icons \in Seq(ToSet(icons)) /\ CountBound
<1>0. MaxDownloads \in Nat
  BY DocumentAssumption
<1>a. ASSUME downloaded = 0, downloads = 0, \A i \in DOMAIN icons : icons[i].waiting = 0,
             IsFiniteSet(DOMAIN icons)
      PROVE  CountBound
  <2>1. Cardinality(DOMAIN icons) \in Nat
    BY <1>a, FS_CardinalityType
  <2>2. Awaiting = {}
    BY <1>a DEF Awaiting
  <2>3. Cardinality(Awaiting) = 0
    BY <2>2, FS_EmptySet
  <2> QED
    BY <1>a, <2>1, <2>3 DEF CountBound
<1>1. DocumentInit => DocumentInv /\ Typed
  <2> SUFFICES ASSUME DocumentInit PROVE DocumentInv /\ Typed
    OBVIOUS
  <2>1. icons = <<>> /\ DOMAIN icons = {} /\ IsFiniteSet(DOMAIN icons) /\ downloaded = 0 /\ downloads = 0
    BY FS_EmptySet DEF DocumentInit
  <2>2. CountBound
    BY <1>a, <2>1
  <2>3. DOMAIN device.attributes = WrittenElements /\ DOMAIN found.attributes = ReadElements
    BY DEF DocumentInit, EmptyDevice, NotSet
  <2>4. icons \in Seq(ToSet(icons))
    BY <2>1
  <2> QED
    BY <1>0, <2>1, <2>2, <2>3, <2>4, DocumentInitially
<1>2. DocumentInv /\ Typed /\ [DocumentNext]_documentVars => Typed'
  <2> SUFFICES ASSUME DocumentInv, Typed, [DocumentNext]_documentVars PROVE Typed'
    OBVIOUS
  <2>0. UNCHANGED <<icons, downloaded, downloads>> => CountBound'
    BY DEF CountBound, Awaiting
  <2>1. CASE UNCHANGED documentVars
    BY <2>0, <2>1 DEF documentVars, foundVars
  <2>2. ASSUME NEW a \in Settable, NEW text \in DocText, SetDeviceAttribute(a, text) PROVE Typed'
    <3>1. DOMAIN device'.attributes = DOMAIN device.attributes
      BY <2>2 DEF SetDeviceAttribute, DocumentInv, DeviceShape
    <3> QED
      BY <2>0, <2>2, <3>1 DEF SetDeviceAttribute, foundVars
  <2>3. ASSUME NEW url \in IconUrl, AddDeviceIcon(url) PROVE Typed'
    <3>1. device'.attributes = device.attributes
      BY <2>3 DEF AddDeviceIcon, DocumentInv, DeviceShape
    <3> QED
      BY <2>0, <2>3, <3>1 DEF AddDeviceIcon, foundVars
  <2>4. ASSUME NEW name \in {"embedded", ""}, EmbedDevice(name) PROVE Typed'
    <3>1. device'.attributes = device.attributes
      BY <2>4 DEF EmbedDevice, DocumentInv, DeviceShape
    <3> QED
      BY <2>0, <2>4, <3>1 DEF EmbedDevice, foundVars
  <2>5. ASSUME NEW doc \in ForeignDocuments \cup {WholeDocument}, ReadDocument(doc) PROVE Typed'
    <3>1. Readable(doc) /\ IconsReadable(doc)
      BY <2>5, DocumentsReadable DEF DocumentInv
    <3>2. /\ device' = device /\ downloads' = 0 /\ downloaded' = 0
          /\ icons' = IF doc.form # "root" THEN <<>> ELSE ReadIcons(doc)
      BY <2>5 DEF ReadDocument
    <3>3. DOMAIN found'.attributes = ReadElements
      BY <2>5 DEF ReadDocument, EmptyDevice, NotSet, ReadAttributes
    <3>4. Len(ReadIcons(doc)) \in Nat /\ DOMAIN ReadIcons(doc) = 1 .. Len(ReadIcons(doc))
          /\ \A i \in DOMAIN ReadIcons(doc) : ReadIcons(doc)[i].waiting = 0
      BY <3>1, IconsListed
    <3>5. icons' \in Seq(ToSet(icons'))
      <4>1. CASE doc.form # "root"
        BY <3>2, <4>1
      <4>2. CASE doc.form = "root"
        <5>1. icons' = ReadIcons(doc)
          BY <3>2, <4>2
        <5>2. ReadIcons(doc) = [i \in DOMAIN ReadIcons(doc) |-> ReadIcons(doc)[i]]
          BY DEF ReadIcons
        <5> QED
          BY <3>4, <5>1, <5>2, SequenceOfItems
      <4> QED
        BY <4>1, <4>2
    <3>6. IsFiniteSet(DOMAIN icons') /\ \A i \in DOMAIN icons' : icons'[i].waiting = 0
      <4>1. IsFiniteSet(DOMAIN icons')
        BY <3>5, ItemsAreNumbered, FS_Interval
      <4> QED
        BY <3>2, <3>4, <4>1
    <3>7. CountBound'
      <4>1. Cardinality(DOMAIN icons') \in Nat
        BY <3>6, FS_CardinalityType
      <4>2. Awaiting' = {}
        BY <3>2, <3>6 DEF Awaiting
      <4>3. Cardinality(Awaiting') = 0
        BY <4>2, FS_EmptySet
      <4> QED
        BY <3>2, <4>1, <4>3 DEF CountBound
    <3> QED
      BY <1>0, <3>2, <3>3, <3>5, <3>7
  <2>6. CASE ClearDevice
    BY <2>0, <2>6 DEF ClearDevice, EmptyDevice, NotSet
  <2>7. CASE RequestIcons
    <3>1. CountBound'
      BY <2>7, RequestBound DEF DocumentInv
    <3>2. UNCHANGED <<device, found>> /\ downloads < MaxDownloads /\ downloads' = downloads + 1
      BY <2>7 DEF RequestIcons
    <3>3. icons' \in Seq(ToSet(icons'))
      <4>1. icons' = [i \in 1..Len(icons) |-> icons'[i]] /\ Len(icons) \in Nat
        BY <2>7, ItemsAreNumbered DEF RequestIcons
      <4> QED
        BY <4>1, SequenceOfItems
    <3> QED
      BY <1>0, <3>1, <3>2, <3>3
  <2>8. ASSUME NEW i \in DOMAIN icons, IconReply(i) PROVE Typed'
    <3>1. CountBound'
      BY <2>8, ReplyBound DEF DocumentInv
    <3>2. UNCHANGED <<device, found, downloads>>
      BY <2>8 DEF IconReply
    <3>3. icons' \in Seq(ToSet(icons'))
      <4>1. icons' = [j \in 1..Len(icons) |-> icons'[j]] /\ Len(icons) \in Nat
        BY <2>8, ItemsAreNumbered DEF IconReply
      <4> QED
        BY <4>1, SequenceOfItems
    <3> QED
      BY <1>0, <3>1, <3>2, <3>3
  <2> HIDE DEF Typed
  <2> QED
    BY <2>1, <2>2, <2>3, <2>4, <2>5, <2>6, <2>7, <2>8 DEF DocumentNext
<1>3. DocumentInv /\ Typed => DocumentTypeOK
  <2> SUFFICES ASSUME DocumentInv, Typed PROVE DocumentTypeOK
    OBVIOUS
  <2>1. Cardinality(DOMAIN icons) = Len(icons) /\ Len(icons) \in Nat
    BY ItemsAreNumbered
  <2>2. /\ downloads \in Nat /\ downloaded \in Nat /\ early = FALSE
        /\ found.listed \in {0, Cardinality(DOMAIN icons)}
    BY DEF DocumentInv, IconsCounted
  <2>3. downloaded <= downloads * (downloads * Len(icons))
    <3>1. Cardinality(Awaiting) \in Nat
      BY AwaitingCounted DEF DocumentInv
    <3>2. downloads * Cardinality(Awaiting) \in Nat
      BY <2>2, <3>1, Products
    <3>3. downloads * (downloads * Len(icons)) \in Nat
      BY <2>1, <2>2, Products
    <3>4. downloaded + downloads * Cardinality(Awaiting) <= downloads * (downloads * Len(icons))
      BY <2>1 DEF CountBound
    <3> DEFINE a == downloads * Cardinality(Awaiting)
               b == downloads * (downloads * Len(icons))
    <3>5. a \in Nat /\ b \in Nat /\ downloaded + a <= b
      BY <3>2, <3>3, <3>4
    <3> HIDE DEF a, b
    <3>6. downloaded <= b
      BY <2>2, <3>5
    <3> QED
      BY <3>6 DEF b
  <2>4. downloaded <= MaxDownloads * MaxDownloads * Len(icons)
    BY <1>0, <2>1, <2>2, <2>3, ProductsTwice
  <2>5. MaxDownloads * MaxDownloads * Len(icons) \in Nat
    BY <1>0, <2>1
  <2> HIDE DEF CountBound
  <2>6. downloaded \in 0 .. MaxDownloads * MaxDownloads * Len(icons)
    <3> DEFINE b == MaxDownloads * MaxDownloads * Len(icons)
    <3>1. b \in Nat /\ downloaded <= b
      BY <2>4, <2>5
    <3> HIDE DEF b
    <3>2. downloaded \in 0..b
      BY <2>2, <3>1
    <3> QED
      BY <3>2 DEF b
  <2> QED
    BY <2>1, <2>2, <2>6 DEF DocumentTypeOK
<1> QED
  BY <1>1, <1>2, <1>3, DocumentStep, PTL DEF DocumentSpec

\* Every path is a pair.
PathsArePairs(known) == \A p \in DOMAIN known : Len(p) = 2

LEMMA PairLength == ASSUME NEW a, NEW b PROVE Len(<<a, b>>) = 2
OBVIOUS

LEMMA WithPair ==
  ASSUME NEW known, PathsArePairs(known), NEW p, Len(p) = 2, NEW object
  PROVE  PathsArePairs(WithWebService(known, p, object))
BY DEF PathsArePairs, WithWebService

LEMMA WithServicePairs ==
  ASSUME NEW known, PathsArePairs(known), NEW s
  PROVE  PathsArePairs(WithService(known, s))
<1>1. \A x : Len(RegisteredAt(s, x)) = 2
  BY PairLength DEF RegisteredAt
<1> QED
  BY <1>1, WithPair DEF WithService

LEMMA TreePairs ==
  ASSUME tree.services \in Seq(Service), PathsArePairs(paths)
  PROVE  PathsArePairs(WebServerTree)
<1> DEFINE n == Len(tree.services)
<1>0. n \in Nat
  BY LenProperties
<1>1. PICK run : /\ run[0] = WithFile(paths) /\ run[n] = WebServerTree
                 /\ \A k \in 0 .. n - 1 : run[k + 1] = WithService(run[k], tree.services[k + 1])
  BY ServicesLoop
<1>2. PathsArePairs(WithFile(paths))
  BY PairLength, WithPair DEF WithFile
<1> HIDE DEF n
<1> DEFINE T == {k \in 0..n : PathsArePairs(run[k])}
<1>3. 0 \in T
  BY <1>0, <1>1, <1>2
<1>6. T \in SUBSET Nat
  BY <1>0
<1>4. ASSUME NEW k \in 0 .. n - 1, k \in T
      PROVE  k + 1 \in T
  <2>1. k + 1 \in 0..n /\ run[k + 1] = WithService(run[k], tree.services[k + 1])
    BY <1>0, <1>1
  <2> QED
    BY <1>4, <2>1, WithServicePairs
<1>5. n \in T
  <2>1. T \in SUBSET Nat /\ 0 \in T /\ \A k \in 0 .. n - 1 : k \in T => k + 1 \in T
    BY <1>3, <1>4, <1>6
  <2> HIDE DEF T
  <2>2. n \in 0..n
    BY <1>0
  <2> QED
    BY <1>0, <2>1, <2>2, Induction
<1> QED
  BY <1>1, <1>5

\* A device and its web server have their types, and no picture is of a later start.
THEOREM DescriptionTypes == DescriptionSpec => []DescriptionTypeOK
<1> DEFINE Typed == /\ up \in BOOLEAN /\ starts <= MaxStarts /\ document.tail \in BOOLEAN
                    /\ PathsArePairs(paths)
<1>0. MaxStarts \in Nat
  BY DescriptionAssumption
<1>1. DescriptionInit => Typed
  <2> SUFFICES ASSUME DescriptionInit PROVE Typed
    OBVIOUS
  <2>1. up = FALSE /\ starts = 0 /\ document = NoDocument /\ paths = [p \in {<<"", "">>} |-> DefaultPage]
    BY DEF DescriptionInit
  <2>2. document.tail = FALSE
    BY <2>1 DEF NoDocument
  <2>3. PathsArePairs(paths)
    BY <2>1, PairLength DEF PathsArePairs
  <2>4. starts <= MaxStarts
    <3>1. starts = 0
      BY <2>1
    <3> QED
      BY <1>0, <3>1
  <2>5. up \in BOOLEAN /\ document.tail \in BOOLEAN
    BY <2>1, <2>2
  <2> QED
    BY <2>3, <2>4, <2>5
<1>2. DescriptionInv /\ Typed /\ [DescriptionNext]_descriptionVars => Typed'
  <2> SUFFICES ASSUME DescriptionInv, Typed, [DescriptionNext]_descriptionVars PROVE Typed'
    OBVIOUS
  <2>0. ASSUME UNCHANGED <<up, starts, document, paths>> PROVE Typed'
    BY <2>0
  <2>1. CASE StartDevice
    <3>1. /\ starts < MaxStarts /\ starts' = starts + 1 /\ up' = TRUE /\ document' = Xml
          /\ paths' = WebServerTree
      BY <2>1 DEF StartDevice
    <3>2. starts \in Nat /\ tree.services \in Seq(Service)
      BY DEF DescriptionInv, ListsGrow
    <3>3. document'.tail \in BOOLEAN
      BY <3>1 DEF Xml
    <3>4. PathsArePairs(paths')
      BY <3>1, <3>2, TreePairs
    <3> QED
      BY <1>0, <3>1, <3>2, <3>3, <3>4
  <2>2. CASE StopDevice
    BY <2>2 DEF StopDevice
  <2>3. CASE DownloadFails \/ FetchService \/ FetchFails
    BY <2>0, <2>3 DEF DownloadFails, FetchService, FetchFails, Fetched
  <2>4. CASE \E readable \in BOOLEAN : DownloadDescription(readable)
    BY <2>0, <2>4 DEF DownloadDescription
  <2>5. CASE \/ \E s \in Service : AddService(s) \/ AddEmbeddedDevice(s)
             \/ \E m \in Name : SetFriendlyName(m)
    BY <2>0, <2>5 DEF AddService, AddEmbeddedDevice, SetFriendlyName
  <2>6. ASSUME NEW x \in Suffix, AddWebservice(x) PROVE Typed'
    <3>1. /\ paths' = WithWebService(paths, Custom(x), <<"application", x>>)
          /\ UNCHANGED <<up, starts, document>>
      BY <2>6 DEF AddWebservice
    <3>2. Len(Custom(x)) = 2
      BY PairLength DEF Custom
    <3>3. PathsArePairs(paths')
      BY <3>1, <3>2, WithPair
    <3> QED
      BY <3>1, <3>3
  <2>7. ASSUME NEW p \in DOMAIN paths, RemoveWebservice(p) PROVE Typed'
    <3>1. paths' = WithoutWebService(paths, p) /\ UNCHANGED <<up, starts, document>>
      BY <2>7 DEF RemoveWebservice
    <3>2. PathsArePairs(paths')
      BY <3>1 DEF WithoutWebService, PathsArePairs
    <3> QED
      BY <3>1, <3>2
  <2>8. CASE UNCHANGED descriptionVars
    BY <2>0, <2>8 DEF descriptionVars
  <2> HIDE DEF Typed
  <2> QED
    BY <2>1, <2>2, <2>3, <2>4, <2>5, <2>6, <2>7, <2>8 DEF DescriptionNext
<1>3. DescriptionInv /\ Typed => DescriptionTypeOK
  <2> SUFFICES ASSUME DescriptionInv, Typed PROVE DescriptionTypeOK
    OBVIOUS
  <2>1. /\ starts \in Nat
        /\ tree \in [name : Name, file : Name, services : Seq(Service), embedded : Seq(Service)]
        /\ picture.starts \in Nat /\ picture.starts <= starts
    BY DEF DescriptionInv, ListsGrow, OfLastStart
  <2>2. starts \in 0..MaxStarts /\ picture.starts \in 0..starts
    BY <1>0, <2>1
  <2> QED
    BY <2>1, <2>2 DEF DescriptionTypeOK, PathsArePairs
<1> QED
  BY <1>1, <1>2, <1>3, DescriptionStarts, DescriptionStep, PTL DEF DescriptionSpec

\* The keys stay below the greatest there is, and no variable has more controllers than
\* the device had starts.
InBounds(s, n, most) ==
  s.counter <= McSeqMax /\ \A j \in 1..n : s.list[j].controllers \in 1..most

LEMMA AnnouncedInBounds ==
  ASSUME NEW m \in Nat, NEW s \in Services(m), s.counter <= McSeqMax,
         NEW v, v.name \in McVar, v.value \in McValue, v.controllers \in Nat
  PROVE  AnnounceInAll(s, v).counter <= McSeqMax
<1> DEFINE n == v.controllers
<1>1. PICK run :
        /\ run[0] = s /\ run[n] = AnnounceInAll(s, v)
        /\ \A k \in 0 .. n - 1 : run[k + 1] = Announce(run[k], v)
  BY AnnounceLoop
<1> HIDE DEF n
<1>2. n \in Nat
  BY DEF n
<1> DEFINE Good(k) == run[k] \in Services(m) /\ run[k].counter <= McSeqMax
           T == {k \in 0..n : Good(k)}
<1>3. Good(0)
  BY <1>1
<1>4. ASSUME NEW k \in 0 .. n - 1, Good(k)
      PROVE  Good(k + 1)
  <2> DEFINE a == run[k]
             b == run[k + 1]
  <2>1. b = Announce(a, v)
    BY <1>1
  <2>2. a \in Services(m) /\ a.counter <= McSeqMax
    BY <1>4
  <2> HIDE DEF a, b
  <2>3. b \in Services(m) /\ b.counter = NextKey(a.counter) + 1
    BY <2>1, <2>2, AnnounceTyped
  <2>4. a.counter \in Nat
    BY <2>2 DEF Services, ServiceStates
  <2>5. McSeqMax \in Nat /\ McSeqMax # 0
    BY MulticastAssumption
  <2>6. NextKey(a.counter) + 1 <= McSeqMax
    BY <2>2, <2>4, <2>5 DEF NextKey
  <2> QED
    BY <2>3, <2>6 DEF b
<1>5. Good(n)
  <2> HIDE DEF Good
  <2>1. T \in SUBSET Nat /\ 0 \in T /\ \A k \in 0 .. n - 1 : k \in T => k + 1 \in T
    BY <1>2, <1>3, <1>4
  <2> HIDE DEF T
  <2>2. n \in T
    BY <1>2, <2>1, Induction
  <2> QED
    BY <2>2 DEF T
<1> QED
  BY <1>1, <1>5 DEF n

LEMMA SetInBounds ==
  ASSUME NEW m \in Nat, NEW s \in Services(m), Keyed(s), NEW i \in 1..m, NEW value \in McValue,
         NEW most, InBounds(s, m, most)
  PROVE  InBounds(SetVariable(s, i, value), m, most)
<1> DEFINE t == SetVariable(s, i, value)
<1>1. \A j \in 1..m : t.list[j].controllers = s.list[j].controllers
  BY VariableSet
<1>2. t.counter <= McSeqMax
  <2>1. CASE s.list[i].value = value
    BY <2>1 DEF SetVariable, InBounds
  <2>2. CASE s.list[i].value # value
    <3> DEFINE list == [s.list EXCEPT ![i].value = value]
               u == [s EXCEPT !.list = list]
    <3>1. /\ s = [list |-> s.list, counter |-> s.counter, sent |-> s.sent]
          /\ s.list \in Seq(McVariables) /\ Len(s.list) = m /\ DOMAIN s.list = 1..m
          /\ s.counter \in Nat /\ s.sent \in Seq(McDatagrams)
      BY LenProperties DEF Services, ServiceStates
    <3>2. \A j \in 1..m : s.list[j] \in McVariables
      BY <3>1
    <3>3. [s.list[i] EXCEPT !.value = value] \in McVariables
      BY <3>2 DEF McVariables
    <3>4. list \in [1..m -> McVariables]
      <4>1. list = [j \in 1..m |-> IF j = i THEN [s.list[i] EXCEPT !.value = value] ELSE s.list[j]]
        BY <3>1
      <4> QED
        BY <3>2, <3>3, <4>1
    <3>5. list \in Seq(McVariables) /\ Len(list) = m
      BY <3>4, IsSequence
    <3>6. list[i] \in McVariables
      BY <3>4
    <3>7. list[i].value = value
      BY <3>1, <3>2 DEF McVariables
    <3>8. t = AnnounceInAll(u, u.list[i])
      BY <2>2 DEF SetVariable
    <3> HIDE DEF list, t
    <3>9. u = [list |-> list, counter |-> s.counter, sent |-> s.sent] /\ u.list[i] = list[i]
      BY <3>1
    <3> HIDE DEF u
    <3>10. u \in Services(m) /\ u.counter <= McSeqMax
      BY <3>1, <3>5, <3>9 DEF Services, ServiceStates, InBounds
    <3>11. u.list[i].name \in McVar /\ u.list[i].value \in McValue /\ u.list[i].controllers \in Nat
      BY <3>6, <3>7, <3>9 DEF McVariables
    <3> QED
      BY <3>8, <3>10, <3>11, AnnouncedInBounds
  <2> QED
    BY <2>1, <2>2
<1> QED
  BY <1>1, <1>2 DEF InBounds

LEMMA DefaultsInBounds ==
  ASSUME NEW n \in Nat, NEW s \in Services(n), Keyed(s), NEW most, InBounds(s, n, most)
  PROVE  InBounds(SetDefaults(s), n, most)
<1>1. PICK run :
        /\ run[0] = s /\ run[n] = SetDefaults(s)
        /\ \A k \in 0 .. n - 1 : run[k + 1] = DefaultStep(run[k], k + 1)
  BY DefaultsLoop
<1> DEFINE Good(k) == run[k] \in Services(n) /\ Keyed(run[k]) /\ InBounds(run[k], n, most)
           T == {k \in 0..n : Good(k)}
<1>2. Good(0)
  BY <1>1
<1>3. ASSUME NEW k \in 0 .. n - 1, Good(k)
      PROVE  Good(k + 1)
  <2> DEFINE a == run[k]
             b == run[k + 1]
             i == k + 1
             value == Default[a.list[i].name]
  <2>1. i \in 1..n
    OBVIOUS
  <2>2. a \in Services(n) /\ Keyed(a) /\ InBounds(a, n, most)
    BY <1>3
  <2>3. b = SetVariable(a, i, value)
    BY <1>1, <2>1 DEF DefaultStep
  <2> HIDE DEF a, b, i
  <2>4. value \in McValue
    BY <2>1, <2>2, DefaultTyped
  <2> HIDE DEF value
  <2>5. b \in Services(n) /\ Keyed(b)
    BY <2>1, <2>2, <2>3, <2>4, VariableSet
  <2>6. InBounds(b, n, most)
    BY <2>1, <2>2, <2>3, <2>4, SetInBounds
  <2> QED
    BY <2>5, <2>6 DEF b, i
<1>4. Good(n)
  <2> HIDE DEF Good
  <2>1. T \in SUBSET Nat /\ 0 \in T /\ \A k \in 0 .. n - 1 : k \in T => k + 1 \in T
    BY <1>2, <1>3
  <2> HIDE DEF T
  <2>2. n \in T
    BY <2>1, Induction
  <2> QED
    BY <2>2 DEF T
<1> QED
  BY <1>1, <1>4

\* What is read again has one controller, and what was there one more.
LEMMA ReadInBounds ==
  ASSUME Now \in Services(Len(stateVariables)), readings \in Nat,
         InBounds(Now, Len(stateVariables), readings),
         NEW n \in Nat, ConnectAll(ReadAgain) \in Services(n)
  PROVE  InBounds(ConnectAll(ReadAgain), n, readings + 1)
<1> DEFINE m == Len(stateVariables)
           more == Len(McVarSeq)
           all == stateVariables \o ReadVariables
           list == [i \in DOMAIN all |-> [all[i] EXCEPT !.controllers = @ + 1]]
           t == ConnectAll(ReadAgain)
<1>1. /\ stateVariables \in Seq(McVariables) /\ m \in Nat /\ counter <= McSeqMax
      /\ \A j \in 1..m : stateVariables[j].controllers \in 1..readings
  BY LenProperties DEF Now, Services, ServiceStates, InBounds
<1>2. more \in Nat /\ DOMAIN McVarSeq = 1..more /\ \A i \in 1..more : McVarSeq[i] \in McVar
  BY MulticastAssumption
<1>3. ReadVariables = [i \in 1..more |-> [name |-> McVarSeq[i], value |-> Unset, controllers |-> 0]]
  BY <1>2 DEF ReadVariables
<1>4. ReadVariables \in Seq(McVariables) /\ Len(ReadVariables) = more
  <2> HIDE DEF more
  <2>1. \A i \in 1..more : [name |-> McVarSeq[i], value |-> Unset, controllers |-> 0] \in McVariables
    BY <1>2 DEF McVariables
  <2>2. ReadVariables \in [1..more -> McVariables]
    BY <1>3, <2>1
  <2> QED
    BY <1>2, <2>2, IsSequence
<1>5. t.counter = counter /\ t.list = list
  <2> DEFINE r == ReadAgain
  <2>1. r = [list |-> all, counter |-> counter, sent |-> sent]
    <3>1. /\ Now = [list |-> stateVariables, counter |-> counter, sent |-> sent]
          /\ r = [Now EXCEPT !.list = Now.list \o ReadVariables]
      BY DEF Now, ReadAgain
    <3>2. r = [Now EXCEPT !.list = all]
      BY <3>1
    <3> HIDE DEF all, r
    <3> QED
      BY <3>1, <3>2
  <2>2. t = [r EXCEPT !.list = [i \in DOMAIN r.list |-> [r.list[i] EXCEPT !.controllers = @ + 1]]]
    BY DEF ConnectAll
  <2> HIDE DEF r, t
  <2>3. r.list = all
    BY <2>1
  <2>4. t = [r EXCEPT !.list = list]
    BY <2>2, <2>3
  <2> HIDE DEF list
  <2> QED
    BY <2>1, <2>4
<1>6. /\ Len(all) = m + more /\ DOMAIN all = 1 .. m + more
      /\ \A i \in 1 .. m + more : all[i] = IF i <= m THEN stateVariables[i] ELSE ReadVariables[i - m]
      /\ \A i \in 1 .. m + more : all[i] \in McVariables
  <2> HIDE DEF more
  <2>1. all \in Seq(McVariables)
    BY <1>1, <1>4, ConcatProperties
  <2> QED
    BY <1>1, <1>2, <1>4, <2>1, ConcatProperties, LenProperties
<1> HIDE DEF all
<1>7. n = m + more
  <2>1. DOMAIN t.list = 1..n /\ Len(t.list) = n
    BY LenProperties DEF Services, ServiceStates
  <2>2. DOMAIN list = 1 .. m + more
    BY <1>6
  <2>3. m + more \in Nat
    BY <1>1, <1>2
  <2> HIDE DEF list, m, more, t
  <2> QED
    BY <1>5, <2>1, <2>2, <2>3
<1>8. ASSUME NEW j \in 1..n
      PROVE  t.list[j].controllers \in 1 .. readings + 1
  <2>1. t.list[j].controllers = all[j].controllers + 1
    BY <1>5, <1>6, <1>7 DEF McVariables
  <2>2. CASE j <= m
    <3>1. j \in 1..m
      BY <1>1, <2>2
    <3>2. all[j] = stateVariables[j]
      BY <1>6, <1>7, <2>2
    <3>3. all[j].controllers \in 1..readings
      BY <1>1, <3>1, <3>2
    <3> HIDE DEF t
    <3> QED
      BY <2>1, <3>3
  <2>3. CASE ~(j <= m)
    <3>1. j - m \in 1..more
      BY <1>1, <1>2, <1>7, <2>3
    <3>2. all[j] = ReadVariables[j - m]
      BY <1>6, <1>7, <2>3
    <3>3. all[j].controllers = 0
      BY <1>3, <3>1, <3>2
    <3> HIDE DEF t
    <3> QED
      BY <2>1, <3>3
  <2> QED
    BY <2>2, <2>3
<1> QED
  BY <1>1, <1>5, <1>8 DEF InBounds

\* A service has its variables, with a controller of each start, and its counter; and no
\* more datagrams are sent than the bound allows.
THEOREM MulticastTypes == MulticastSpec => []MulticastTypeOK
<1> DEFINE Typed == /\ readings \in 0..MaxReadings /\ Len(sent) <= MaxSent /\ stuck \in BOOLEAN
                    /\ InBounds(Now, Len(stateVariables), readings)
<1>0. MaxReadings \in Nat /\ MaxSent \in Nat /\ McSeqMax \in Nat
  BY MulticastAssumption
<1>1. MulticastInit => Typed
  <2> SUFFICES ASSUME MulticastInit PROVE Typed
    OBVIOUS
  <2>1. /\ stateVariables = <<>> /\ counter = 0 /\ readings = 0 /\ sent = <<>> /\ stuck = FALSE
        /\ Now = [list |-> <<>>, counter |-> 0, sent |-> <<>>]
    BY DEF MulticastInit, Now
  <2>2. Len(stateVariables) = 0 /\ Len(sent) = 0
    BY <2>1
  <2>3. InBounds(Now, 0, 0)
    BY <1>0, <2>1 DEF InBounds
  <2>4. InBounds(Now, Len(stateVariables), readings)
    BY <2>1, <2>2, <2>3
  <2>5. readings \in 0..MaxReadings /\ Len(sent) <= MaxSent
    <3>1. readings = 0
      BY <2>1
    <3> QED
      BY <1>0, <2>2, <3>1
  <2>6. stuck \in BOOLEAN
    BY <2>1
  <2> QED
    BY <2>4, <2>5, <2>6
<1>2. MulticastInv /\ Typed /\ [MulticastNext]_multicastVariables => Typed'
  <2> SUFFICES ASSUME MulticastInv, Typed, [MulticastNext]_multicastVariables PROVE Typed'
    OBVIOUS
  <2>1. UNCHANGED serviceVars /\ stuck' \in BOOLEAN => Typed'
    BY DEF serviceVars, InBounds, Now
  <2>2. CASE StartService
    <3> DEFINE r == ConnectAll(ReadAgain)
               t == SetDefaults(r)
    <3>1. PICK n \in Nat : r \in Services(n) /\ Keyed(r) /\ LastAsSet(r, n)
                           /\ \A j \in 1..n : r.list[j].controllers >= 1
      BY ReadAndConnected DEF MulticastInv, ServiceInv
    <3>2. InBounds(r, n, readings + 1)
      BY <3>1, ReadInBounds DEF MulticastInv, ServiceInv
    <3>3. /\ ServiceBecomes(t) /\ readings < MaxReadings /\ readings' = readings + 1 /\ stuck' = stuck
      BY <2>2 DEF StartService, receiverVars
    <3> HIDE DEF r
    <3>4. t \in Services(n) /\ InBounds(t, n, readings + 1)
      BY <3>1, <3>2, DefaultsSet, DefaultsInBounds
    <3> HIDE DEF t
    <3>5. Now' = t /\ Len(stateVariables') = n /\ Len(sent') <= MaxSent
      BY <3>3, <3>4, BecomesNow DEF ServiceBecomes
    <3>6. InBounds(Now, Len(stateVariables), readings)'
      BY <3>3, <3>4, <3>5 DEF InBounds
    <3> QED
      BY <1>0, <3>3, <3>5, <3>6
  <2>3. ASSUME NEW name \in McVar, NEW value \in McValue, SetMulticast(name, value) PROVE Typed'
    <3> DEFINE n == Len(stateVariables)
               t == SetVariable(Now, First(name), value)
    <3>1. /\ ServiceBecomes(t) /\ readings' = readings /\ stuck' = stuck
      BY <2>3 DEF SetMulticast, receiverVars
    <3>2. n \in Nat /\ Now \in Services(n) /\ Keyed(Now) /\ First(name) \in 1..n
      <4>1. \E v \in 1..Len(stateVariables) : stateVariables[v].name = name
        BY <2>3 DEF MulticastInv, ServiceInv, NamesRead, SetMulticast
      <4>2. First(name) \in 1..n
        BY <4>1, FirstThere DEF MulticastInv, ServiceInv
      <4> QED
        BY <4>2, LenProperties DEF MulticastInv, ServiceInv, Now, Services, ServiceStates
    <3>3. InBounds(Now, n, readings)
      OBVIOUS
    <3> HIDE DEF n
    <3>4. t \in Services(n) /\ InBounds(t, n, readings)
      BY <3>2, <3>3, VariableSet, SetInBounds
    <3> HIDE DEF t
    <3>5. Now' = t /\ Len(stateVariables') = n /\ Len(sent') <= MaxSent
      BY <3>1, <3>2, <3>4, BecomesNow DEF ServiceBecomes
    <3>6. InBounds(Now, Len(stateVariables), readings)'
      BY <3>1, <3>4, <3>5 DEF InBounds
    <3> QED
      BY <3>1, <3>5, <3>6
  <2>4. ASSUME NEW d \in ToSet(sent) \cup Others, Receive(d) PROVE Typed'
    <3>1. stuck' \in BOOLEAN /\ UNCHANGED serviceVars
      BY <2>4 DEF Receive
    <3> QED
      BY <2>1, <3>1
  <2>5. CASE UNCHANGED multicastVariables
    BY <2>1, <2>5 DEF multicastVariables, receiverVars
  <2> HIDE DEF Typed
  <2> QED
    BY <2>2, <2>3, <2>4, <2>5 DEF MulticastNext
<1>3. MulticastInv /\ Typed => MulticastTypeOK
  <2> SUFFICES ASSUME MulticastInv, Typed PROVE MulticastTypeOK
    OBVIOUS
  <2>1. /\ stateVariables \in Seq(McVariables) /\ DOMAIN stateVariables = 1..Len(stateVariables)
        /\ Len(stateVariables) \in Nat /\ counter \in Nat
    BY LenProperties DEF MulticastInv, ServiceInv, Now, Services, ServiceStates
  <2>2. counter <= McSeqMax /\ \A i \in DOMAIN stateVariables : stateVariables[i].controllers \in 1..readings
    BY <2>1 DEF InBounds, Now
  <2>3. \A i \in DOMAIN stateVariables :
          /\ stateVariables[i].name \in McVar /\ stateVariables[i].value \in McValue \cup {Unset}
    <3>1. \A i \in DOMAIN stateVariables : stateVariables[i] \in McVariables
      BY <2>1
    <3> HIDE DEF Typed
    <3> QED
      BY <3>1 DEF McVariables
  <2>4. \A i \in DOMAIN stateVariables : stateVariables[i].controllers \in 1..MaxReadings
    BY <1>0, <2>2
  <2>5. counter \in 0..McSeqMax
    BY <1>0, <2>1, <2>2
  <2> QED
    BY <2>3, <2>4, <2>5 DEF MulticastTypeOK
<1> QED
  BY <1>1, <1>2, <1>3, MulticastInitially, MulticastStep, PTL DEF MulticastSpec

=============================================================================
