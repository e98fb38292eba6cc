-------------------------- MODULE Discovery_proofs --------------------------
(***************************************************************************)
(* Type correctness of Discovery, that what is announced is served, and    *)
(* that a device is silent after its goodbye, for every finite set of      *)
(* embedded devices and services, every search target, and every bound;    *)
(* and that the example control points show what was found, and nothing    *)
(* that is gone, for any number of devices, objects, rows and clicks.      *)
(***************************************************************************)
EXTENDS Discovery, ExampleControlPoints, Induction_proofs, FiniteSetTheorems, SequenceTheorems, TLAPS

-----------------------------------------------------------------------------
(* Facts about the constants and about datagrams *)

\* There is a number of announcements, and of services.
LEMMA CountsAreNumbers == Announcements \in Nat /\ Fetches \in Nat
<1>1. Cardinality(Embedded) \in Nat /\ Cardinality(Service) \in Nat
  BY DiscoveryAssumption, FS_CardinalityType
<1>2. QED
  BY <1>1 DEF Announcements, Fetches

\* There are as many goodbyes.
LEMMA GoodbyesForAll == Goodbyes = Announcements
BY DEF Goodbyes, Announcements

\* respondMSearch names the device, what it embeds, or a service.
LEMMA AnswersNameUsns == RespondMSearch(Target) \subseteq Usns
<1>1. CASE Target = <<"all">>
  BY <1>1 DEF RespondMSearch, Usns
<1>2. CASE Target = <<"root">>
  BY <1>2 DEF RespondMSearch, Usns
<1>3. CASE Target \in {"udn", "type"} \X ({Root} \cup Embedded)
  <2>1. Target[1] \in {"udn", "type"} /\ Target[2] \in {Root} \cup Embedded
    BY <1>3
  <2>2. <<"udn", Target[2]>> \in Usns /\ Target \in Usns
    BY <1>3, <2>1 DEF Usns
  <2>3. QED
    BY <2>1, <2>2 DEF RespondMSearch
<1>4. CASE Target \in {"service"} \X Service
  <2>1. Target[1] = "service" /\ Target \in Usns
    BY <1>4 DEF Usns
  <2>2. QED
    BY <2>1 DEF RespondMSearch
<1>5. QED
  BY <1>1, <1>2, <1>3, <1>4, DiscoveryAssumption DEF Targets

\* Goodbyes and searches tell of no device.
LEMMA NoPresence == ByeBye \notin Presence /\ Search \notin Presence
BY DEF ByeBye, Search, Presence, Alive, Answer

\* What the innermost loop leaves behind.
LEMMA FrontAndLast ==
  ASSUME NEW S, NEW s \in Seq(S), s # <<>>
  PROVE  Last(s) \in S /\ Front(s) \in Seq(S) /\ Len(Front(s)) = Len(s) - 1
<1>1. Len(s) \in Nat \ {0} /\ s \in [1..Len(s) -> S]
  BY EmptySeq
<1>2. Last(s) \in S
  BY <1>1 DEF Last
<1>3. 1 <= Len(s) /\ Len(s) - 1 <= Len(s)
  BY <1>1
<1>4. Front(s) = [i \in 1..Len(s) - 1 |-> s[i]]
  BY <1>1, <1>3 DEF Front
<1>5. Front(s) \in Seq(S) /\ Len(Front(s)) = Len(s) - 1
  BY <1>1, <1>4
<1>6. QED
  BY <1>2, <1>5

-----------------------------------------------------------------------------
(* The invariant *)

\* The description is written, and the web server up or refused its port, wherever
\* start() or stop() is past that point; the SSDP server runs exactly while the device
\* does, between calls.
Phases ==
  /\ dpc = "startWebServer" => xml
  /\ (dpc \in {"ssdp", "doNotify", "doByeBye"} \/ running \/ ssdp) => xml /\ (web \/ refused)
  /\ dpc = "idle" => (ssdp <=> running)
  /\ dpc = "doNotify" => ssdp
  /\ pending => ssdp
  /\ dpc = "destroyed" => ~running /\ ~ssdp

IInv == TypeOK /\ Phases /\ AnnouncedIsServed

LEMMA InitIInv == Init => IInv
<1> SUFFICES ASSUME Init PROVE IInv
  OBVIOUS
<1>1. TypeOK
  <2>1. loops \in Seq([left : 1..Fetches, quit : BOOLEAN]) /\ Len(loops) <= MaxLoops
    BY EmptySeq, DiscoveryAssumption DEF Init
  <2>2. left \in 0..Announcements
    BY CountsAreNumbers DEF Init
  <2>3. QED
    BY <2>1, <2>2 DEF Init, TypeOK
<1>2. Phases /\ AnnouncedIsServed
  BY DEF Init, Phases, AnnouncedIsServed
<1>3. QED
  BY <1>1, <1>2 DEF IInv

\* The types, step by step.
LEMMA TypesKept == TypeOK /\ [Next]_vars => TypeOK'
<1> SUFFICES ASSUME TypeOK, [Next]_vars PROVE TypeOK'
  OBVIOUS
<1> USE CountsAreNumbers DEF TypeOK
<1> DEFINE Loop == [left : 1..Fetches, quit : BOOLEAN]
<1>1. ASSUME DeviceCall \/ Start \/ AnnounceAgain \/ Stop \/ Vanish PROVE TypeOK'
  <2>1. UNCHANGED cpVars
    BY <1>1 DEF DeviceCall, Start, XmlGenerator, StartWebServer, JoinGroup, DoNotify, Started,
       AnnounceAgain, Stop, DoByeBye, Stopped, Vanish
  <2>2. CASE Start \/ XmlGenerator \/ StartWebServer \/ Started
    BY <2>1, <2>2 DEF Start, XmlGenerator, StartWebServer, Started, cpVars
  <2>3. CASE JoinGroup
    <3>1. left' \in 0..Announcements
      BY <2>3 DEF JoinGroup
    <3>2. QED
      BY <2>1, <2>3, <3>1 DEF JoinGroup, cpVars
  <2>4. CASE AnnounceAgain \/ Stop
    BY <2>1, <2>4, GoodbyesForAll DEF AnnounceAgain, Stop, cpVars
  <2>5. CASE DoNotify \/ DoByeBye
    <3>1. air' \subseteq Datagrams
      BY <2>5 DEF DoNotify, DoByeBye, Datagrams
    <3>2. left' \in 0..Announcements
      BY <2>5 DEF DoNotify, DoByeBye
    <3>3. QED
      BY <2>1, <2>5, <3>1, <3>2 DEF DoNotify, DoByeBye, cpVars
  <2>6. CASE Stopped
    BY <2>1, <2>6 DEF Stopped, cpVars
  <2>7. CASE Vanish
    BY <2>1, <2>7 DEF Vanish, cpVars
  <2>8. QED
    BY <1>1, <2>2, <2>3, <2>4, <2>5, <2>6, <2>7 DEF DeviceCall
<1>2. ASSUME SearchArrives \/ SearchAnswered PROVE TypeOK'
  <2>1. air' \subseteq Datagrams
    BY <1>2, AnswersNameUsns DEF SearchArrives, SearchAnswered, Arrives, Datagrams
  <2>2. QED
    BY <1>2, <2>1 DEF SearchArrives, SearchAnswered, cpVars
<1>3. ASSUME CpStart \/ CpStop \/ Discover \/ TimerFires PROVE TypeOK'
  BY <1>3 DEF CpStart, CpStop, JoinNotifyGroup, LeaveNotifyGroup, Discover, TimerFires, SendSearch, deviceVars, Datagrams
<1>4. ASSUME AliveArrives \/ ByeByeArrives PROVE TypeOK'
  BY <1>4 DEF AliveArrives, ByeByeArrives, Arrives, DeviceFound, deviceVars
<1>5. ASSUME NEW usn \in Usns, AnswerArrives(usn) PROVE TypeOK'
  BY <1>5 DEF AnswerArrives, Arrives, DeviceFound, deviceVars
<1>6. ASSUME NEW d \in Datagrams, Lose(d) PROVE TypeOK'
  BY <1>6 DEF Lose, deviceVars, cpVars
<1>7. ASSUME NEW d \in Download, GetServed(d) \/ GetFails(d) PROVE TypeOK'
  BY <1>7 DEF GetServed, GetFails, deviceVars
<1>8. ASSUME NEW d \in Download, ReplyFinished(d) PROVE TypeOK'
  <2>1. loops' \in Seq(Loop) /\ Len(loops') <= MaxLoops
    <3>1. CASE loops' = Append(loops, [left |-> Fetches, quit |-> FALSE]) /\ Fetches > 0
      <4>1. [left |-> Fetches, quit |-> FALSE] \in Loop
        BY <3>1
      <4>2. QED
        <5> DEFINE loop == [left |-> Fetches, quit |-> FALSE]
        <5> HIDE DEF Loop
        <5>1. loops \in Seq(Loop) /\ loop \in Loop
          BY <4>1 DEF Loop
        <5> HIDE DEF loop
        <5>2. Append(loops, loop) \in Seq(Loop) /\ Len(Append(loops, loop)) = Len(loops) + 1
          BY <5>1
        <5>3. Len(loops) < MaxLoops /\ loops' = Append(loops, loop) /\ Len(loops) \in Nat
          BY <1>8, <3>1, <5>1 DEF ReplyFinished, loop
        <5>4. QED
          BY <5>2, <5>3, DiscoveryAssumption DEF Loop
    <3>2. CASE loops' = loops
      BY <3>2
    <3>3. QED
      BY <1>8, <3>1, <3>2 DEF ReplyFinished
  <2>2. known' \in BOOLEAN /\ get' \in [Download -> {"none", "asked", "served", "failed"}]
    BY <1>8 DEF ReplyFinished
  <2>3. QED
    BY <1>8, <2>1, <2>2 DEF ReplyFinished, deviceVars
<1>9. ASSUME NEW i \in 1..MaxLoops, FetchFinished(i) PROVE TypeOK'
  <2>1. loops' \in Seq(Loop) /\ Len(loops') <= MaxLoops
    <3>0. loops \in Seq(Loop) /\ i \in DOMAIN loops
      BY <1>9 DEF FetchFinished
    <3> HIDE DEF Loop
    <3>1. loops \in Seq(Loop) /\ i \in 1..Len(loops) /\ loops[i] \in Loop
      BY <3>0, LenProperties, ElementOfSeq
    <3> DEFINE e == [loops[i] EXCEPT !.quit = TRUE]
    <3>2. e \in Loop /\ loops' = [loops EXCEPT ![i] = e]
      BY <1>9, <3>1 DEF FetchFinished, Loop
    <3> HIDE DEF e
    <3>3. [loops EXCEPT ![i] = e] \in Seq(Loop) /\ Len([loops EXCEPT ![i] = e]) = Len(loops)
      BY <3>1, <3>2, ExceptSeq
    <3>4. QED
      BY <3>2, <3>3 DEF Loop
  <2>2. QED
    BY <1>9, <2>1 DEF FetchFinished, deviceVars
<1>10. ASSUME LoopEnds PROVE TypeOK'
  <2>1. Last(loops) \in Loop /\ Front(loops) \in Seq(Loop)
          /\ Len(Front(loops)) = Len(loops) - 1
    BY <1>10, FrontAndLast DEF LoopEnds
  <2> DEFINE next == [left |-> Last(loops).left - 1, quit |-> FALSE]
  <2>2. CASE Last(loops).left > 1
    <3>1. next \in Loop
      BY <2>1, <2>2
    <3>2. loops' = Append(Front(loops), next) /\ known' = known
      BY <1>10, <2>2 DEF LoopEnds
    <3> HIDE DEF next
    <3>3. loops' \in Seq(Loop) /\ Len(loops') <= MaxLoops
      BY <2>1, <3>1, <3>2, DiscoveryAssumption
    <3>4. QED
      BY <1>10, <3>2, <3>3 DEF LoopEnds, deviceVars
  <2>3. CASE ~(Last(loops).left > 1)
    <3>1. loops' = Front(loops) /\ known' = TRUE
      BY <1>10, <2>3 DEF LoopEnds
    <3>2. loops' \in Seq(Loop) /\ Len(loops') <= MaxLoops
      BY <2>1, <3>1, DiscoveryAssumption
    <3>3. QED
      BY <1>10, <3>1, <3>2 DEF LoopEnds, deviceVars
  <2>4. QED
    BY <2>2, <2>3
<1>11. CASE UNCHANGED vars
  BY <1>11 DEF vars, deviceVars, cpVars
<1>12. QED
  BY <1>1, <1>2, <1>3, <1>4, <1>5, <1>6, <1>7, <1>8, <1>9, <1>10, <1>11 DEF Next

\* The phases: only the device's own steps touch them, and a search that arrives.
LEMMA PhasesKept == TypeOK /\ Phases /\ [Next]_vars => Phases'
<1> SUFFICES ASSUME TypeOK, Phases, [Next]_vars PROVE Phases'
  OBVIOUS
<1> USE DEF Phases
<1>1. ASSUME UNCHANGED deviceVars PROVE Phases'
  BY <1>1 DEF deviceVars
<1>2. ASSUME Start \/ AnnounceAgain \/ Stop \/ Vanish PROVE Phases'
  BY <1>2 DEF Start, AnnounceAgain, Stop, Vanish
<1>3. ASSUME XmlGenerator \/ StartWebServer \/ JoinGroup \/ DoNotify \/ Started PROVE Phases'
  BY <1>3 DEF XmlGenerator, StartWebServer, JoinGroup, DoNotify, Started, TypeOK
<1>4. ASSUME DoByeBye \/ Stopped PROVE Phases'
  BY <1>4 DEF DoByeBye, Stopped, TypeOK
<1>5. ASSUME SearchArrives \/ SearchAnswered PROVE Phases'
  BY <1>5 DEF SearchArrives, SearchAnswered
<1>6. ASSUME \/ CpStart \/ CpStop \/ Discover \/ TimerFires
             \/ AliveArrives \/ ByeByeArrives \/ LoopEnds
             \/ \E d \in Datagrams : Lose(d)
             \/ \E usn \in Usns : AnswerArrives(usn)
             \/ \E d \in Download : GetServed(d) \/ GetFails(d) \/ ReplyFinished(d)
             \/ \E i \in 1..MaxLoops : FetchFinished(i)
      PROVE  UNCHANGED deviceVars
  BY <1>6 DEF CpStart, CpStop, JoinNotifyGroup, LeaveNotifyGroup, Discover, TimerFires, SendSearch, AliveArrives, ByeByeArrives,
     LoopEnds, Lose, AnswerArrives, GetServed, GetFails, ReplyFinished, FetchFinished
<1>7. CASE UNCHANGED vars
  BY <1>7, <1>1 DEF vars
<1>8. QED
  BY <1>1, <1>2, <1>3, <1>4, <1>5, <1>6, <1>7 DEF Next, DeviceCall

-----------------------------------------------------------------------------
(* Announced is served *)

Heard == air \cap Presence # {} \/ \E d \in Download : get[d] = "asked"
Up == (xml /\ (web \/ refused)) \/ dpc = "destroyed"

\* Nothing but the end of the process takes the description away.
LEMMA UpKept == TypeOK /\ Phases /\ [Next]_vars /\ Up => Up'
<1> SUFFICES ASSUME TypeOK, Phases, [Next]_vars, Up PROVE Up'
  OBVIOUS
<1> USE DEF Up
<1>1. ASSUME UNCHANGED <<dpc, xml, web, refused>> PROVE Up'
  BY <1>1
<1>2. ASSUME DeviceCall \/ Start \/ AnnounceAgain \/ Stop \/ Vanish PROVE Up'
  BY <1>2 DEF DeviceCall, Start, XmlGenerator, StartWebServer, JoinGroup, DoNotify, Started,
     AnnounceAgain, Stop, DoByeBye, Stopped, Vanish, TypeOK, Phases
<1>3. ASSUME ~(DeviceCall \/ Start \/ AnnounceAgain \/ Stop \/ Vanish), Next
      PROVE  UNCHANGED <<dpc, xml, web, refused>>
  BY <1>3 DEF Next, SearchArrives, SearchAnswered, CpStart, CpStop, JoinNotifyGroup, LeaveNotifyGroup, Discover, TimerFires,
     SendSearch, AliveArrives, ByeByeArrives, LoopEnds, Lose, AnswerArrives, GetServed,
     GetFails, ReplyFinished, FetchFinished, deviceVars
<1>4. CASE UNCHANGED vars
  BY <1>4, <1>1 DEF vars, deviceVars
<1>5. QED
  BY <1>1, <1>2, <1>3, <1>4

\* A control point hears of the device only from the device, or from what it heard.
LEMMA HeardFrom == TypeOK /\ Phases /\ [Next]_vars /\ Heard' => Heard \/ dpc = "doNotify" \/ ssdp
<1> SUFFICES ASSUME TypeOK, Phases, [Next]_vars, Heard', ~Heard, dpc # "doNotify", ~ssdp
             PROVE  FALSE
  OBVIOUS
<1> USE NoPresence DEF Heard
<1>1. ASSUME air' \cap Presence \subseteq air \cap Presence,
             \A d \in Download : get'[d] = "asked" => get[d] = "asked"
      PROVE  FALSE
  BY <1>1
<1>2. ASSUME DeviceCall \/ Start \/ AnnounceAgain \/ Stop \/ Vanish PROVE FALSE
  BY <1>2, <1>1 DEF DeviceCall, Start, XmlGenerator, StartWebServer, JoinGroup, DoNotify, Started,
     AnnounceAgain, Stop, DoByeBye, Stopped, Vanish, cpVars
<1>3. ASSUME SearchArrives \/ SearchAnswered PROVE FALSE
  BY <1>3 DEF SearchArrives, SearchAnswered, Phases
<1>4. ASSUME CpStart \/ CpStop \/ Discover \/ TimerFires \/ LoopEnds PROVE FALSE
  BY <1>4, <1>1 DEF CpStart, CpStop, JoinNotifyGroup, LeaveNotifyGroup, Discover, TimerFires, SendSearch, LoopEnds
<1>5. ASSUME AliveArrives PROVE FALSE
  BY <1>5 DEF AliveArrives, Arrives, Presence
<1>6. ASSUME ByeByeArrives PROVE FALSE
  BY <1>6, <1>1 DEF ByeByeArrives, Arrives
<1>7. ASSUME NEW usn \in Usns, AnswerArrives(usn) PROVE FALSE
  BY <1>7 DEF AnswerArrives, Arrives, Presence
<1>8. ASSUME NEW d \in Datagrams, Lose(d) PROVE FALSE
  BY <1>8, <1>1 DEF Lose, cpVars
<1>9. ASSUME NEW d \in Download, GetServed(d) \/ GetFails(d) \/ ReplyFinished(d) PROVE FALSE
  BY <1>9, <1>1 DEF GetServed, GetFails, ReplyFinished, TypeOK
<1>10. ASSUME NEW i \in 1..MaxLoops, FetchFinished(i) PROVE FALSE
  BY <1>10, <1>1 DEF FetchFinished
<1>11. CASE UNCHANGED vars
  BY <1>11, <1>1 DEF vars, cpVars
<1>12. QED
  BY <1>2, <1>3, <1>4, <1>5, <1>6, <1>7, <1>8, <1>9, <1>10, <1>11 DEF Next

LEMMA IInvKept == IInv /\ [Next]_vars => IInv'
<1> SUFFICES ASSUME IInv, [Next]_vars PROVE IInv'
  OBVIOUS
<1>1. TypeOK' /\ Phases'
  BY TypesKept, PhasesKept DEF IInv
<1>2. AnnouncedIsServed <=> (Heard => Up)
  BY DEF AnnouncedIsServed, Heard, Up
<1>3. AnnouncedIsServed' <=> (Heard' => Up')
  BY DEF AnnouncedIsServed, Heard, Up
<1>4. Heard' => Up
  BY <1>2, HeardFrom DEF IInv, Phases, Up
<1>5. Up => Up'
  BY UpKept DEF IInv
<1>6. QED
  BY <1>1, <1>3, <1>4, <1>5 DEF IInv

LEMMA IInvAlways == Spec => []IInv
BY InitIInv, IInvKept, PTL DEF Spec

-----------------------------------------------------------------------------
(* The theorems *)

\* The variables keep their types, in the device and in the control point.
THEOREM DiscoveryTypes == Spec => []TypeOK
<1>1. IInv => TypeOK
  BY DEF IInv
<1>2. QED
  BY <1>1, IInvAlways, PTL

\* start() and stop() of BrisaDevice: whenever an announcement, an answer or a
\* download is under way, the description is written, and the web server listens,
\* unless the process ended or the server's listen() failed, which start() ignores.
THEOREM ServedAlways == Spec => []AnnouncedIsServed
<1>1. IInv => AnnouncedIsServed
  BY DEF IInv
<1>2. QED
  BY <1>1, IInvAlways, PTL

\* stop() of BrisaDevice: after the goodbyes no announcement and no answer follows,
\* not even to a search that was waiting in the socket.
THEOREM SilentAlways == Spec => SilentAfterByeBye
<1> DEFINE Silent ==
      (air' \ air) \cap Presence # {} => dpc = "doNotify" \/ (dpc = "idle" /\ running)
<1>1. ASSUME IInv, [Next]_vars PROVE Silent
  <2> USE NoPresence
  <2>1. ASSUME (air' \ air) \cap Presence = {} PROVE Silent
    BY <2>1
  <2>2. CASE SearchAnswered
    BY <1>1, <2>2 DEF SearchAnswered, IInv, Phases
  <2>3. CASE DoNotify
    BY <2>3 DEF DoNotify
  <2>4. CASE ~SearchAnswered /\ ~DoNotify /\ Next
    <3>1. air' \subseteq air \cup {ByeBye, Search}
      BY <2>4 DEF Next, DeviceCall, Start, XmlGenerator, StartWebServer, JoinGroup, Started,
         AnnounceAgain, Stop, DoByeBye, Stopped, Vanish, SearchArrives, CpStart, CpStop, JoinNotifyGroup, LeaveNotifyGroup,
         Discover, TimerFires, SendSearch, AliveArrives, ByeByeArrives, LoopEnds, Lose,
         AnswerArrives, Arrives, GetServed, GetFails, ReplyFinished, FetchFinished
    <3>2. QED
      BY <3>1, <2>1
  <2>5. CASE UNCHANGED vars
    BY <2>5, <2>1 DEF vars
  <2>6. QED
    BY <1>1, <2>2, <2>3, <2>4, <2>5
<1>2. QED
  BY <1>1, IInvAlways, PTL DEF Spec, SilentAfterByeBye

-----------------------------------------------------------------------------
(* ExampleControlPoints: lists of devices *)

\* Each device is in a list once, with the object made of it last.
Newest(made, o) == \A p \in DOMAIN made : made[p] = made[o] => p <= o
ListTrue(made, list) ==
  /\ made \in Seq(KnownUdn \cup {NoUdn}) /\ list \in Seq(Nat)
  /\ \A i \in DOMAIN list :
       list[i] \in DOMAIN made /\ made[list[i]] \in KnownUdn /\ Newest(made, list[i])
  /\ \A i, j \in DOMAIN list : made[list[i]] = made[list[j]] => i = j
UdnsOf(made, list) == {made[list[i]] : i \in DOMAIN list}
ShownOf(made, list) == [i \in DOMAIN list |-> made[list[i]]]

\* The first of the elements that pass, which is what SelectInSeq finds.
LEMMA LeastIsFirst ==
  ASSUME NEW n \in Nat, NEW I \in SUBSET (1..n)
  PROVE  /\ I = {} \/ (Min(I) \in I /\ \A i \in I : Min(I) <= i)
         /\ I # {} => Min(I) # 0
<1>1. CASE I # {}
  <2>1. I \in SUBSET Nat
    OBVIOUS
  <2>2. \E x \in I : \A y \in I : x <= y
    BY <1>1, <2>1, LeastNumber
  <2>3. Min(I) \in I /\ \A y \in I : Min(I) <= y
    BY <2>2 DEF Min
  <2> QED
    BY <2>3
<1> QED
  BY <1>1

\* The object of a device, if it is in the list.
LEMMA DeviceByUdnIs ==
  ASSUME NEW list \in Seq(Nat), NEW u, \A i \in DOMAIN list : list[i] # 0
  PROVE  \/ DeviceByUdn(list, u) = 0 /\ u \notin UdnsOf(objects, list)
         \/ /\ DeviceByUdn(list, u) # 0 /\ u \in UdnsOf(objects, list)
            /\ \E i \in DOMAIN list : DeviceByUdn(list, u) = list[i] /\ objects[list[i]] = u
<1> DEFINE I == {i \in 1..Len(list) : objects[list[i]] = u}
<1>0. Len(list) \in Nat /\ DOMAIN list = 1..Len(list)
  BY LenProperties
<1>1. DeviceByUdn(list, u) =
        LET i == IF I # {} THEN Min(I) ELSE 0 IN IF i = 0 THEN 0 ELSE list[i]
  BY DEF DeviceByUdn, SelectInSeq
<1>2. CASE I = {}
  BY <1>0, <1>1, <1>2 DEF UdnsOf
<1>3. CASE I # {}
  <2> DEFINE m == Min(I)
  <2>1. m \in I /\ m # 0
    <3>1. I \in SUBSET (1..Len(list))
      OBVIOUS
    <3> HIDE DEF I
    <3> QED
      BY <1>0, <1>3, <3>1, LeastIsFirst
  <2>2. DeviceByUdn(list, u) = list[m]
    BY <1>1, <1>3, <2>1
  <2> HIDE DEF m
  <2>3. m \in DOMAIN list /\ objects[list[m]] = u
    BY <1>0, <2>1
  <2> QED
    BY <2>2, <2>3 DEF UdnsOf
<1> QED
  BY <1>2, <1>3

\* The only one that is equal to it is the first.
LEMMA RemoveFirstIs ==
  ASSUME NEW S, NEW q \in Seq(S), NEW j \in DOMAIN q, NEW e, e = q[j],
         \A i \in DOMAIN q : q[i] = e => i = j
  PROVE  RemoveFirst(q, e) = RemoveAt(q, j)
<1> DEFINE I == {i \in 1..Len(q) : q[i] = e}
<1>1. Len(q) \in Nat /\ DOMAIN q = 1..Len(q)
  BY LenProperties
<1>2. I = {j}
  BY <1>1
<1>3. Min(I) = j
  <2>1. j \in Nat
    BY <1>1
  <2>2. Min({j}) = j
    BY <2>1 DEF Min
  <2> HIDE DEF I
  <2> QED
    BY <1>2, <2>2
<1>4. SelectInSeq(q, LAMBDA v : v = e) = j
  <2>1. SelectInSeq(q, LAMBDA v : v = e) = IF I # {} THEN Min(I) ELSE 0
    BY DEF SelectInSeq
  <2> HIDE DEF I
  <2> QED
    BY <1>2, <1>3, <2>1
<1>5. RemoveFirst(q, e) = RemoveAt(q, SelectInSeq(q, LAMBDA v : v = e))
  BY <1>1 DEF RemoveFirst
<1> QED
  BY <1>4, <1>5

\* A device is taken out of the list.
LEMMA ForgetIs ==
  ASSUME NEW list, ListTrue(objects, list), NEW j \in DOMAIN list
  PROVE  Forget(list, objects[list[j]]) = RemoveAt(list, j)
<1> DEFINE u == objects[list[j]]
           e == DeviceByUdn(list, u)
<1>1. list \in Seq(Nat) /\ \A i \in DOMAIN list : list[i] # 0
  <2>1. \A i \in DOMAIN list : list[i] \in DOMAIN objects /\ DOMAIN objects = 1..Len(objects)
    BY LenProperties DEF ListTrue
  <2> QED
    BY <2>1 DEF ListTrue
<1>2. u \in UdnsOf(objects, list)
  BY DEF UdnsOf
<1>3. \E i \in DOMAIN list : e = list[i] /\ objects[list[i]] = u
  <2> HIDE DEF u
  <2> QED
    BY <1>1, <1>2, DeviceByUdnIs
<1>4. e = list[j] /\ \A i \in DOMAIN list : list[i] = e => i = j
  BY <1>3 DEF ListTrue
<1> HIDE DEF e
<1>5. RemoveFirst(list, e) = RemoveAt(list, j)
  BY <1>1, <1>4, RemoveFirstIs
<1> QED
  BY <1>5 DEF Forget, e

\* p is what is left of q without its element i.
LeftOf(q, i, p) ==
  \E f \in [DOMAIN p -> DOMAIN q \ {i}] :
    /\ \A j \in DOMAIN p : p[j] = q[f[j]]
    /\ \A j, k \in DOMAIN p : f[j] = f[k] => j = k
    /\ \A k \in DOMAIN q \ {i} : \E j \in DOMAIN p : f[j] = k

LEMMA RemoveAtLeaves ==
  ASSUME NEW S, NEW q \in Seq(S), NEW i \in 1..Len(q)
  PROVE  LeftOf(q, i, RemoveAt(q, i))
<1> DEFINE p == RemoveAt(q, i)
           n == Len(q)
           f == [j \in 1 .. n - 1 |-> IF j < i THEN j ELSE j + 1]
<1>1. n \in Nat /\ DOMAIN q = 1..n /\ i \in 1..n
  BY LenProperties
<1>2. p \in Seq(S) /\ Len(p) = n - 1 /\ \A j \in 1 .. n - 1 : p[j] = IF j < i THEN q[j] ELSE q[j + 1]
  BY RemoveAtProperties
<1>3. DOMAIN p = 1 .. n - 1
  BY <1>2, LenProperties
<1> HIDE DEF p, n
<1>4. n \in Nat /\ i \in 1..n
  BY <1>1
<1>5. f \in [1 .. n - 1 -> (1..n) \ {i}]
  BY <1>4
<1>6. \A j, k \in 1 .. n - 1 : f[j] = f[k] => j = k
  BY <1>4
<1>7. ASSUME NEW k \in (1..n) \ {i}
      PROVE  \E j \in 1 .. n - 1 : f[j] = k
  <2>1. CASE k < i
    BY <1>4, <2>1
  <2>2. CASE ~(k < i)
    <3>1. k - 1 \in 1 .. n - 1 /\ ~(k - 1 < i) /\ k - 1 + 1 = k
      BY <1>4, <2>2
    <3> QED
      BY <3>1
  <2> QED
    BY <2>1, <2>2
<1>8. \A j \in 1 .. n - 1 : p[j] = q[f[j]]
  BY <1>2
<1> HIDE DEF f
<1>9. f \in [DOMAIN p -> DOMAIN q \ {i}] /\ \A j \in DOMAIN p : p[j] = q[f[j]]
  BY <1>1, <1>3, <1>5, <1>8
<1>10. /\ \A j, k \in DOMAIN p : f[j] = f[k] => j = k
       /\ \A k \in DOMAIN q \ {i} : \E j \in DOMAIN p : f[j] = k
  BY <1>1, <1>3, <1>6, <1>7
<1> QED
  BY <1>9, <1>10 DEF LeftOf, p

LEMMA ListLess ==
  ASSUME NEW made, NEW list, ListTrue(made, list), NEW j \in DOMAIN list
  PROVE  /\ ListTrue(made, RemoveAt(list, j))
         /\ UdnsOf(made, RemoveAt(list, j)) = UdnsOf(made, list) \ {made[list[j]]}
<1> DEFINE p == RemoveAt(list, j)
<1>1. list \in Seq(Nat) /\ j \in 1..Len(list) /\ DOMAIN list = 1..Len(list)
  BY LenProperties DEF ListTrue
<1>2. p \in Seq(Nat)
  BY <1>1, RemoveAtProperties
<1>3. PICK f \in [DOMAIN p -> DOMAIN list \ {j}] :
        /\ \A i \in DOMAIN p : p[i] = list[f[i]]
        /\ \A i, k \in DOMAIN p : f[i] = f[k] => i = k
        /\ \A k \in DOMAIN list \ {j} : \E i \in DOMAIN p : f[i] = k
  <2>1. LeftOf(list, j, p)
    BY <1>1, RemoveAtLeaves
  <2> QED
    BY <2>1 DEF LeftOf
<1> HIDE DEF p
<1>4. ListTrue(made, p)
  BY <1>2, <1>3 DEF ListTrue
<1>5. UdnsOf(made, p) = UdnsOf(made, list) \ {made[list[j]]}
  <2>1. \A k \in DOMAIN list \ {j} : made[list[k]] # made[list[j]]
    BY DEF ListTrue
  <2>2. ASSUME NEW u \in UdnsOf(made, p)
        PROVE  u \in UdnsOf(made, list) \ {made[list[j]]}
    BY <1>3, <2>1 DEF UdnsOf
  <2>3. ASSUME NEW u \in UdnsOf(made, list) \ {made[list[j]]}
        PROVE  u \in UdnsOf(made, p)
    <3>1. PICK k \in DOMAIN list \ {j} : u = made[list[k]]
      BY DEF UdnsOf
    <3>2. PICK i \in DOMAIN p : f[i] = k
      BY <1>3
    <3> QED
      BY <1>3, <3>1, <3>2 DEF UdnsOf
  <2> QED
    BY <2>2, <2>3
<1> QED
  BY <1>4, <1>5 DEF p

\* An object is made of a device that is not in the list, or put in its place, or behind.
LEMMA ObjectMade ==
  ASSUME NEW made, NEW list, ListTrue(made, list), NEW u \in KnownUdn \cup {NoUdn}
  PROVE  LET now == Append(made, u)
             o == Len(made) + 1
         IN /\ now \in Seq(KnownUdn \cup {NoUdn})
            /\ o \in DOMAIN now /\ now[o] = u /\ DOMAIN now = DOMAIN made \cup {o}
            /\ \A p \in DOMAIN made : now[p] = made[p] /\ p < o
            /\ u \notin UdnsOf(made, list) =>
                 ListTrue(now, list) /\ UdnsOf(now, list) = UdnsOf(made, list)
<1> DEFINE now == Append(made, u)
           o == Len(made) + 1
           n == Len(made)
<1>1. made \in Seq(KnownUdn \cup {NoUdn})
  BY DEF ListTrue
<1>2. /\ n \in Nat /\ DOMAIN made = 1..n /\ now \in Seq(KnownUdn \cup {NoUdn}) /\ Len(now) = n + 1
      /\ now[n + 1] = u /\ \A p \in 1..n : now[p] = made[p]
  BY <1>1, LenProperties, AppendProperties
<1>3. DOMAIN now = 1 .. n + 1
  BY <1>2, LenProperties
<1> HIDE DEF n, now
<1>4. 1 .. n + 1 = (1..n) \cup {n + 1} /\ n + 1 \in 1 .. n + 1 /\ \A p \in 1..n : p < n + 1 /\ p <= n + 1
  <2>1. n \in Nat
    BY <1>2
  <2> QED
    BY <2>1
<1>5. /\ now \in Seq(KnownUdn \cup {NoUdn})
      /\ o \in DOMAIN now /\ now[o] = u /\ DOMAIN now = DOMAIN made \cup {o}
      /\ \A p \in DOMAIN made : now[p] = made[p] /\ p < o
  BY <1>2, <1>3, <1>4 DEF n
<1> HIDE DEF o
<1>6. ASSUME u \notin UdnsOf(made, list)
      PROVE  ListTrue(now, list) /\ UdnsOf(now, list) = UdnsOf(made, list)
  <2>1. \A i \in DOMAIN list : list[i] \in DOMAIN made /\ now[list[i]] = made[list[i]] /\ made[list[i]] # u
    BY <1>5, <1>6 DEF ListTrue, UdnsOf
  <2>2. UdnsOf(now, list) = UdnsOf(made, list)
    BY <2>1 DEF UdnsOf
  <2>3. ASSUME NEW i \in DOMAIN list
        PROVE  Newest(now, list[i])
    <3>1. \A p \in DOMAIN made : made[p] = made[list[i]] => p <= list[i]
      BY DEF ListTrue, Newest
    <3> QED
      BY <1>5, <2>1, <3>1 DEF Newest
  <2> QED
    BY <1>5, <2>1, <2>2, <2>3 DEF ListTrue
<1> QED
  BY <1>5, <1>6 DEF now, o

LEMMA ListReplaced ==
  ASSUME NEW made, NEW list, ListTrue(made, list), NEW u \in KnownUdn, NEW new,
         new = [i \in DOMAIN list |-> IF made[list[i]] = u THEN Len(made) + 1 ELSE list[i]]
  PROVE  /\ ListTrue(Append(made, u), new)
         /\ UdnsOf(Append(made, u), new) = UdnsOf(made, list)
         /\ ShownOf(Append(made, u), new) = ShownOf(made, list)
<1> DEFINE now == Append(made, u)
           o == Len(made) + 1
<1>1. /\ now \in Seq(KnownUdn \cup {NoUdn})
      /\ o \in DOMAIN now /\ now[o] = u /\ DOMAIN now = DOMAIN made \cup {o}
      /\ \A p \in DOMAIN made : now[p] = made[p] /\ p < o
  BY ObjectMade
<1>2. made \in Seq(KnownUdn \cup {NoUdn}) /\ list \in Seq(Nat)
  BY DEF ListTrue
<1>3. o \in Nat /\ \A p \in DOMAIN now : p \in Nat
  <2>1. Len(made) \in Nat /\ DOMAIN made = 1..Len(made)
    BY <1>2, LenProperties
  <2> QED
    BY <1>1, <2>1
<1>4. new \in Seq(Nat) /\ DOMAIN new = DOMAIN list
  <2>1. new \in [1..Len(list) -> Nat] /\ Len(list) \in Nat /\ DOMAIN list = 1..Len(list)
    <3>1. list \in [1..Len(list) -> Nat] /\ Len(list) \in Nat /\ DOMAIN list = 1..Len(list)
      BY <1>2, LenProperties
    <3> QED
      BY <1>3, <3>1
  <2> QED
    BY <2>1, IsSequence
<1> HIDE DEF now, o
<1>5. \A i \in DOMAIN list : new[i] = IF made[list[i]] = u THEN o ELSE list[i]
  BY DEF o
<1>6. ASSUME NEW i \in DOMAIN list
      PROVE  now[new[i]] = made[list[i]] /\ new[i] \in DOMAIN now
  <2>1. list[i] \in DOMAIN made
    BY DEF ListTrue
  <2> QED
    BY <1>1, <1>5, <2>1
<1>7. ASSUME NEW i \in DOMAIN list
      PROVE  Newest(now, new[i])
  <2>1. CASE made[list[i]] = u
    <3>1. \A p \in DOMAIN now : p <= o
      BY <1>1, <1>3
    <3> QED
      BY <1>5, <2>1, <3>1 DEF Newest
  <2>2. CASE made[list[i]] # u
    <3>1. \A p \in DOMAIN made : made[p] = made[list[i]] => p <= list[i]
      BY DEF ListTrue, Newest
    <3> QED
      BY <1>1, <1>5, <1>6, <2>2, <3>1 DEF Newest
  <2> QED
    BY <2>1, <2>2
<1>8. ListTrue(now, new)
  BY <1>1, <1>4, <1>6, <1>7 DEF ListTrue
<1>9. UdnsOf(now, new) = UdnsOf(made, list)
  BY <1>4, <1>6 DEF UdnsOf
<1>10. ShownOf(now, new) = ShownOf(made, list)
  BY <1>4, <1>6 DEF ShownOf
<1> QED
  BY <1>8, <1>9, <1>10 DEF now

LEMMA ListMore ==
  ASSUME NEW made, NEW list, ListTrue(made, list), NEW u \in KnownUdn, u \notin UdnsOf(made, list)
  PROVE  /\ ListTrue(Append(made, u), Append(list, Len(made) + 1))
         /\ UdnsOf(Append(made, u), Append(list, Len(made) + 1)) = UdnsOf(made, list) \cup {u}
<1> DEFINE now == Append(made, u)
           o == Len(made) + 1
           new == Append(list, o)
           n == Len(list)
<1>1. /\ now \in Seq(KnownUdn \cup {NoUdn})
      /\ o \in DOMAIN now /\ now[o] = u /\ DOMAIN now = DOMAIN made \cup {o}
      /\ \A p \in DOMAIN made : now[p] = made[p] /\ p < o
      /\ ListTrue(now, list) /\ UdnsOf(now, list) = UdnsOf(made, list)
  BY ObjectMade
<1>2. made \in Seq(KnownUdn \cup {NoUdn}) /\ list \in Seq(Nat)
  BY DEF ListTrue
<1>3. o \in Nat /\ \A p \in DOMAIN now : p <= o
  <2>1. Len(made) \in Nat /\ DOMAIN made = 1..Len(made)
    BY <1>2, LenProperties
  <2> QED
    BY <1>1, <2>1
<1> HIDE DEF now, o
<1>4. /\ n \in Nat /\ DOMAIN list = 1..n /\ new \in Seq(Nat) /\ Len(new) = n + 1
      /\ new[n + 1] = o /\ \A i \in 1..n : new[i] = list[i]
  BY <1>2, <1>3, LenProperties, AppendProperties
<1>5. DOMAIN new = 1 .. n + 1
  BY <1>4, LenProperties
<1> HIDE DEF new, n
<1>6. \A i \in DOMAIN new : (i \in DOMAIN list /\ new[i] = list[i]) \/ (i = n + 1 /\ new[i] = o)
  <2>1. \A i \in 1 .. n + 1 : i \in 1..n \/ i = n + 1
    <3>1. n \in Nat
      BY <1>4
    <3> QED
      BY <3>1
  <2> QED
    BY <1>4, <1>5, <2>1
<1>7. n + 1 \in DOMAIN new /\ \A i \in DOMAIN list : i \in DOMAIN new
  <2>1. n \in Nat
    BY <1>4
  <2>2. n + 1 \in 1 .. n + 1 /\ \A i \in 1..n : i \in 1 .. n + 1
    BY <2>1
  <2> QED
    BY <1>4, <1>5, <2>2
<1>8. \A i \in DOMAIN list : now[list[i]] # u
  BY <1>1 DEF UdnsOf
<1>9. UdnsOf(now, new) = UdnsOf(now, list) \cup {u}
  BY <1>1, <1>4, <1>6, <1>7 DEF UdnsOf
<1>10. \A i \in DOMAIN new : new[i] \in DOMAIN now /\ now[new[i]] \in KnownUdn /\ Newest(now, new[i])
  <2>1. Newest(now, o)
    BY <1>3 DEF Newest
  <2> QED
    BY <1>1, <1>6, <2>1 DEF ListTrue
<1>11. \A i, j \in DOMAIN new : now[new[i]] = now[new[j]] => i = j
  BY <1>1, <1>6, <1>8 DEF ListTrue
<1>12. ListTrue(now, new)
  BY <1>1, <1>4, <1>10, <1>11 DEF ListTrue
<1> QED
  BY <1>1, <1>9, <1>12 DEF now, new, o

-----------------------------------------------------------------------------
(* ExampleControlPoints: the loop that removes rows *)

Matches(j, u) == UdnInText(treeRows[items[j]].udn) = u

\* What the loop has, before it found the device, and after, and where it looks next.
LoopState(i, its, rows, list, click, path, shown, fails) ==
  [i |-> i, items |-> its, treeRows |-> rows, devices |-> list, doubleClick |-> click,
   selection |-> path, dialog |-> shown, crashed |-> fails]
LookedAt(k) ==
  LoopState(k + 1, items, treeRows, devices, doubleClick, selection, dialog, FALSE)
Inside(j) == selection # <<>> /\ selection[1] = items[j]
Closes(j) == Inside(j) /\ Len(selection) = 3 /\ closeable
TakenOut(j, u, k) ==
  LoopState(k, RemoveAt(items, j), [treeRows EXCEPT ![items[j]].there = FALSE], Forget(devices, u),
            doubleClick /\ ~Inside(j), IF Inside(j) THEN <<>> ELSE selection,
            IF Closes(j) /\ dialog = "open" THEN "closed" ELSE dialog,
            Closes(j) /\ dialog = "none")

\* All it may have.
LoopStates(u) ==
  {LookedAt(k) : k \in Nat}
    \cup {TakenOut(j, u, k) : j \in {m \in DOMAIN items : Matches(m, u)}, k \in Nat \ {0}}

\* Rows of the tree are there, and of different devices.
There(rows) == {r \in DOMAIN rows : rows[r].there}
RowSet == [udn : KnownUdn, types : Seq(DOMAIN ActionsOf), there : BOOLEAN]
RowsOnce(rows) ==
  /\ rows \in Seq(RowSet)
  /\ \A r, q \in There(rows) : rows[r].udn = rows[q].udn => r = q
ItemsOnce(rows, its) ==
  /\ its \in Seq(Nat) /\ \A i \in DOMAIN its : its[i] \in There(rows)
  /\ \A i, j \in DOMAIN its : its[i] = its[j] => i = j

\* One turn of the loop that has not found the device.
LEMMA TurnBefore ==
  ASSUME ItemsOnce(treeRows, items), NEW u \in KnownUdn, NEW k \in Nat
  PROVE  /\ k >= Len(items) => RemoveTurn(LookedAt(k), u) = LookedAt(k)
         /\ k < Len(items) /\ ~Matches(k + 1, u) => RemoveTurn(LookedAt(k), u) = LookedAt(k + 1)
         /\ k < Len(items) /\ Matches(k + 1, u) =>
              RemoveTurn(LookedAt(k), u) = TakenOut(k + 1, u, k + 2)
<1> DEFINE s == LookedAt(k)
<1>1. Len(items) \in Nat /\ DOMAIN items = 1..Len(items)
  BY LenProperties DEF ItemsOnce
<1>2. /\ s.i = k + 1 /\ s.items = items /\ s.treeRows = treeRows /\ s.crashed = FALSE
      /\ s.devices = devices /\ s.doubleClick = doubleClick /\ s.selection = selection
      /\ s.dialog = dialog
  BY DEF LookedAt, LoopState
<1>3. CASE k >= Len(items)
  <2>1. k + 1 > Len(items) /\ ~(k < Len(items))
    BY <1>1, <1>3
  <2> QED
    BY <1>2, <2>1 DEF RemoveTurn
<1>4. CASE k < Len(items)
  <2>1. ~(k + 1 > Len(items)) /\ k + 1 \in DOMAIN items /\ ~(k >= Len(items)) /\ k + 1 + 1 = k + 2
    BY <1>1, <1>4
  <2>2. treeRows[items[k + 1]].there
    BY <2>1 DEF ItemsOnce, There
  <2>3. CASE Matches(k + 1, u)
    <3>1. RemoveTurn(s, u) = RemoveItem(s, u)
      <4> HIDE DEF s
      <4> QED
        BY <1>2, <2>1, <2>2, <2>3 DEF RemoveTurn, Matches
    <3>2. RemoveItem(s, u) = TakenOut(k + 1, u, k + 2)
      <4> DEFINE row == items[k + 1]
                 inside == selection # <<>> /\ selection[1] = row
                 closes == inside /\ Len(selection) = 3 /\ closeable
      <4>3. RemoveItem(s, u) =
              LoopState(s.i + 1, RemoveAt(items, k + 1), [treeRows EXCEPT ![row].there = FALSE],
                        Forget(devices, u), doubleClick /\ ~inside,
                        IF inside THEN <<>> ELSE selection,
                        IF closes /\ dialog = "open" THEN "closed" ELSE dialog,
                        closes /\ dialog = "none")
        <5> HIDE DEF s
        <5> QED
          BY <1>2 DEF RemoveItem, LoopState
      <4> QED
        BY <1>2, <2>1, <4>3 DEF TakenOut, Inside, Closes
    <3> QED
      BY <2>1, <2>3, <3>1, <3>2
  <2>4. CASE ~Matches(k + 1, u)
    <3>1. RemoveTurn(s, u) = [s EXCEPT !.i = s.i + 1]
      <4> HIDE DEF s
      <4> QED
        BY <1>2, <2>1, <2>2, <2>4 DEF RemoveTurn, Matches
    <3>2. [s EXCEPT !.i = s.i + 1] = LookedAt(k + 1)
      <4> DEFINE here == k + 1
                 fails == FALSE
      <4>1. s = LoopState(here, items, treeRows, devices, doubleClick, selection, dialog, fails)
        BY DEF LookedAt
      <4>2. [s EXCEPT !.i = s.i + 1] =
              LoopState(s.i + 1, items, treeRows, devices, doubleClick, selection, dialog, fails)
        <5> HIDE DEF s, here, fails
        <5> QED
          BY <4>1 DEF LoopState
      <4> QED
        BY <1>2, <4>2 DEF LookedAt
    <3> QED
      BY <2>1, <2>4, <3>1, <3>2
  <2> QED
    BY <2>3, <2>4
<1>5. k >= Len(items) \/ k < Len(items)
  BY <1>1
<1> QED
  BY <1>3, <1>4, <1>5

\* One that has: no other row is of the device.
LEMMA TurnAfter ==
  ASSUME RowsOnce(treeRows), ItemsOnce(treeRows, items), NEW u \in KnownUdn,
         NEW j \in DOMAIN items, Matches(j, u), NEW k \in Nat \ {0}
  PROVE  \/ RemoveTurn(TakenOut(j, u, k), u) = TakenOut(j, u, k)
         \/ RemoveTurn(TakenOut(j, u, k), u) = TakenOut(j, u, k + 1)
<1> DEFINE s == TakenOut(j, u, k)
           rest == RemoveAt(items, j)
<1>1. Len(items) \in Nat /\ DOMAIN items = 1..Len(items) /\ items \in Seq(Nat)
  BY LenProperties DEF ItemsOnce
<1>2. s.i = k /\ s.items = rest /\ s.treeRows = [treeRows EXCEPT ![items[j]].there = FALSE]
  BY DEF TakenOut, LoopState
<1>3. CASE s.crashed \/ k > Len(rest)
  BY <1>2, <1>3 DEF RemoveTurn
<1>4. CASE ~s.crashed /\ ~(k > Len(rest))
  <2>1. rest \in Seq(Nat) /\ Len(rest) \in Nat /\ DOMAIN rest = 1..Len(rest)
    <3>1. rest \in Seq(Nat)
      BY <1>1, RemoveAtProperties
    <3> QED
      BY <3>1, LenProperties
  <2>2. k \in DOMAIN rest
    BY <1>4, <2>1
  <2>3. \E m \in DOMAIN items \ {j} : rest[k] = items[m]
    <3>1. LeftOf(items, j, rest)
      BY <1>1, RemoveAtLeaves
    <3> HIDE DEF rest
    <3> QED
      BY <2>2, <3>1 DEF LeftOf
  <2> HIDE DEF s, rest
  <2>4. PICK m \in DOMAIN items \ {j} : rest[k] = items[m]
    BY <2>3
  <2>5. items[m] \in There(treeRows) /\ items[j] \in There(treeRows) /\ items[m] # items[j]
    BY <2>4 DEF ItemsOnce
  <2>6. s.treeRows[items[m]] = treeRows[items[m]]
    BY <1>2, <2>5 DEF There
  <2>7. treeRows[items[m]].there /\ treeRows[items[m]].udn # treeRows[items[j]].udn
    BY <2>5 DEF There, RowsOnce
  <2>8. UdnInText(treeRows[items[m]].udn) # u
    BY <2>7, ExamplesAssumption DEF UdnInText, Matches
  <2>9. RemoveTurn(s, u) = [s EXCEPT !.i = s.i + 1]
    BY <1>2, <1>4, <2>4, <2>6, <2>7, <2>8 DEF RemoveTurn
  <2>10. [s EXCEPT !.i = s.i + 1] = TakenOut(j, u, k + 1)
    <3> DEFINE rows == [treeRows EXCEPT ![items[j]].there = FALSE]
               list == Forget(devices, u)
               click == doubleClick /\ ~Inside(j)
               path == IF Inside(j) THEN <<>> ELSE selection
               shown == IF Closes(j) /\ dialog = "open" THEN "closed" ELSE dialog
               fails == Closes(j) /\ dialog = "none"
    <3>1. s = LoopState(k, rest, rows, list, click, path, shown, fails)
      BY DEF TakenOut, s, rest
    <3>2. [s EXCEPT !.i = s.i + 1] = LoopState(s.i + 1, rest, rows, list, click, path, shown, fails)
      <4> HIDE DEF rows, list, click, path, shown, fails
      <4> QED
        BY <3>1 DEF LoopState
    <3> QED
      BY <1>2, <3>2 DEF TakenOut, rest
  <2> QED
    BY <2>9, <2>10 DEF s
<1> QED
  BY <1>3, <1>4

\* s is what the loop comes to, one turn after another, among the states V.
RunsTo(V, u, s) ==
  \E run \in [0..Len(items) -> V] :
    /\ run[0] = LookedAt(0) /\ run[Len(items)] = s
    /\ \A k \in 0 .. Len(items) - 1 : run[k + 1] = RemoveTurn(run[k], u)

\* What the loop computes, turn by turn, among any states that no turn leaves.
LEMMA LoopRuns ==
  ASSUME items \in Seq(Nat), NEW u, NEW V, LookedAt(0) \in V, \A x \in V : RemoveTurn(x, u) \in V,
         NEW seq, seq = items, NEW base, base = LookedAt(0)
  PROVE  RunsTo(V, u, SweepItems(u))
<1> DEFINE n == Len(seq)
           Turn(x, i) == RemoveTurn(x, u)
           g == [p \in V \X (1..n) |-> Turn(p[1], p[2])]
           Loop(iter) == iter = [S \in SUBSET (1..n) |->
                                   IF S = {} THEN base ELSE Turn(iter[S \ {Max(S)}], Max(S))]
<1>0. n \in Nat /\ DOMAIN seq = 1..n /\ \A i \in 1..n : seq[i] \in Nat
  BY LenProperties
<1>1. SweepItems(u) = (CHOOSE iter : Loop(iter))[1..n]
  <2> DEFINE start == [i |-> 1, items |-> items, treeRows |-> treeRows, devices |-> devices,
                      doubleClick |-> doubleClick, selection |-> selection,
                      dialog |-> dialog, crashed |-> FALSE]
             Raw(iter) == iter = [S \in SUBSET DOMAIN seq |->
                                    IF S = {} THEN start
                                    ELSE RemoveTurn(iter[S \ {Max(S)}], u)]
  <2>1. SweepItems(u) = (CHOOSE iter : Raw(iter))[DOMAIN seq]
    BY DEF FoldLeft, MapThenFoldSet, SweepItems
  <2>0. start = base
    BY DEF LookedAt, LoopState
  <2>2. \A iter : Raw(iter) <=> Loop(iter)
    <3> HIDE DEF start
    <3> QED
      BY <1>0, <2>0
  <2> HIDE DEF Raw, Loop
  <2>3. (CHOOSE iter : Raw(iter)) = (CHOOSE iter : Loop(iter))
    BY <2>2
  <2> QED
    BY <1>0, <2>1, <2>3
<1> HIDE DEF n
<1>2. base \in V
  OBVIOUS
<1>3. \A x \in V, i \in 1..n : Turn(x, i) \in V
  OBVIOUS
<1> HIDE DEF Turn
<1>4. g \in [V \X (1..n) -> V]
  BY <1>3
<1>5. PICK f \in [SUBSET (1..n) -> V] : FoldsUpTo(f, n, base, g)
  <2> HIDE DEF g
  <2> QED
    BY <1>0, <1>2, <1>4, FoldIsThere
<1>6. Loop(f)
  <2>1. ASSUME NEW S \in SUBSET (1..n)
        PROVE  f[S] = IF S = {} THEN base ELSE Turn(f[S \ {Max(S)}], Max(S))
    <3>1. CASE S = {}
      BY <1>5, <3>1 DEF FoldsUpTo
    <3>2. CASE S # {}
      <4>1. Max(S) \in 1..n
        BY <1>0, <3>2, MaxExists
      <4>2. f[S \ {Max(S)}] \in V
        OBVIOUS
      <4>3. f[S] = g[<<f[S \ {Max(S)}], Max(S)>>]
        <5> HIDE DEF g
        <5> QED
          BY <1>5, <3>2 DEF FoldsUpTo
      <4> QED
        BY <3>2, <4>1, <4>2, <4>3
    <3> QED
      BY <3>1, <3>2
  <2> HIDE DEF g
  <2> QED
    BY <2>1
<1> DEFINE iter == CHOOSE iter : Loop(iter)
           run == [k \in 0..n |-> iter[1..k]]
<1>7. Loop(iter)
  <2> HIDE DEF Loop
  <2> QED
    BY <1>6
<1>8. iter = [S \in SUBSET (1..n) |->
                IF S = {} THEN base ELSE Turn(iter[S \ {Max(S)}], Max(S))]
  <2> HIDE DEF iter
  <2> QED
    BY <1>7
<1>9. SweepItems(u) = iter[1..n]
  BY <1>1
<1> HIDE DEF iter, Loop
<1>10. run[0] = base
  <2>1. 1..0 = {} /\ 1..0 \in SUBSET (1..n)
    OBVIOUS
  <2>2. iter[1..0] = base
    BY <1>8, <2>1
  <2> QED
    BY <1>0, <2>2
<1>11. ASSUME NEW k \in 0 .. n - 1
       PROVE  run[k + 1] = Turn(run[k], k + 1)
  <2>1. /\ 1 .. k + 1 # {} /\ Max(1 .. k + 1) = k + 1
        /\ (1 .. k + 1) \ {k + 1} = 1..k
    <3>1. k \in Nat
      BY <1>0
    <3> QED
      BY <3>1, LastOfPrefix
  <2>2. 1 .. k + 1 \in SUBSET (1..n)
    BY <1>0
  <2>3. iter[1 .. k + 1] = Turn(iter[1..k], k + 1)
    BY <1>8, <2>1, <2>2
  <2> QED
    BY <1>0, <2>3
<1>12. run[n] = SweepItems(u)
  <2>1. run[n] = iter[1..n]
    BY <1>0
  <2> HIDE DEF run
  <2> QED
    BY <1>9, <2>1
<1>13. DOMAIN run = 0..n /\ run = [k \in 0..n |-> run[k]]
  OBVIOUS
<1> HIDE DEF run
<1> DEFINE T == {k \in 0..n : run[k] \in V}
<1>14. 0 \in T
  BY <1>0, <1>2, <1>10
<1>15. ASSUME NEW k \in 0 .. n - 1, k \in T
       PROVE  k + 1 \in T
  <2>1. run[k + 1] \in V
    <3>1. k + 1 \in 1..n /\ run[k] \in V
      BY <1>0, <1>15
    <3> QED
      BY <1>3, <1>11, <3>1
  <2> QED
    BY <1>0, <2>1
<1>16. 0..n \subseteq T
  <2>1. T \in SUBSET Nat
    BY <1>0
  <2> HIDE DEF T
  <2> QED
    BY <1>0, <1>14, <1>15, <2>1, Induction
<1>17. run \in [0..n -> V]
  BY <1>13, <1>16
<1>18. run[n] = SweepItems(u)
  BY <1>12
<1>19. /\ run[0] = LookedAt(0) /\ run[Len(items)] = SweepItems(u) /\ run \in [0..Len(items) -> V]
       /\ \A k \in 0 .. Len(items) - 1 : run[k + 1] = RemoveTurn(run[k], u)
  BY <1>10, <1>11, <1>17, <1>18 DEF n, Turn
<1> QED
  BY <1>19 DEF RunsTo

\* The loop has one of the states above.
LEMMA Removals ==
  ASSUME RowsOnce(treeRows), ItemsOnce(treeRows, items), NEW u \in KnownUdn
  PROVE  RunsTo(LoopStates(u), u, SweepItems(u))
<1>0. items \in Seq(Nat) /\ Len(items) \in Nat /\ DOMAIN items = 1..Len(items)
  BY LenProperties DEF ItemsOnce
<1>1. LookedAt(0) \in LoopStates(u)
  BY DEF LoopStates
<1>2. \A x \in LoopStates(u) : RemoveTurn(x, u) \in LoopStates(u)
  <2> SUFFICES ASSUME NEW x \in LoopStates(u) PROVE RemoveTurn(x, u) \in LoopStates(u)
    OBVIOUS
  <2>1. CASE \E k \in Nat : x = LookedAt(k)
    <3>1. PICK k \in Nat : x = LookedAt(k)
      BY <2>1
    <3>2. \/ RemoveTurn(x, u) = LookedAt(k)
          \/ RemoveTurn(x, u) = LookedAt(k + 1)
          \/ /\ RemoveTurn(x, u) = TakenOut(k + 1, u, k + 2) /\ k < Len(items) /\ Matches(k + 1, u)
      <4>1. Len(items) \in Nat
        BY <1>0
      <4>2. k >= Len(items) \/ k < Len(items)
        BY <4>1
      <4> QED
        BY <3>1, <4>2, TurnBefore
    <3>3. k + 1 \in Nat /\ k + 2 \in Nat \ {0}
      OBVIOUS
    <3>4. k < Len(items) => k + 1 \in DOMAIN items
      BY <1>0
    <3> QED
      BY <3>2, <3>3, <3>4 DEF LoopStates
  <2>2. CASE \E j \in DOMAIN items, k \in Nat \ {0} : Matches(j, u) /\ x = TakenOut(j, u, k)
    <3>1. PICK j \in DOMAIN items, k \in Nat \ {0} : Matches(j, u) /\ x = TakenOut(j, u, k)
      BY <2>2
    <3>2. RemoveTurn(x, u) = x \/ RemoveTurn(x, u) = TakenOut(j, u, k + 1)
      BY <3>1, TurnAfter
    <3>3. k + 1 \in Nat \ {0}
      OBVIOUS
    <3> QED
      BY <3>1, <3>2, <3>3 DEF LoopStates
  <2> QED
    BY <2>1, <2>2 DEF LoopStates
<1> QED
  BY <1>0, <1>1, <1>2, LoopRuns

-----------------------------------------------------------------------------

\* What the loop comes to: the device is in no row, or in one that is taken out.
LEMMA RemovalDone ==
  ASSUME RowsOnce(treeRows), ItemsOnce(treeRows, items), NEW u \in KnownUdn, NEW s, s = SweepItems(u)
  PROVE  \/ s = LookedAt(Len(items)) /\ \A j \in DOMAIN items : ~Matches(j, u)
         \/ \E j \in DOMAIN items, k \in Nat \ {0} : Matches(j, u) /\ s = TakenOut(j, u, k)
<1> DEFINE n == Len(items)
           base == LookedAt(0)
<1>1. PICK run \in [0..n -> LoopStates(u)] :
        /\ run[0] = base /\ run[n] = s
        /\ \A k \in 0 .. n - 1 : run[k + 1] = RemoveTurn(run[k], u)
  <2>1. RunsTo(LoopStates(u), u, s)
    BY Removals
  <2> QED
    BY <2>1 DEF RunsTo
<1>2. n \in Nat /\ DOMAIN items = 1..n
  BY LenProperties DEF ItemsOnce
<1> HIDE DEF n, base
<1> DEFINE Found(x) == \E j \in DOMAIN items, k \in Nat \ {0} : Matches(j, u) /\ x = TakenOut(j, u, k)
           Not(x, k) == x = LookedAt(k) /\ \A j \in 1..k : ~Matches(j, u)
           T == {k \in 0..n : Not(run[k], k) \/ Found(run[k])}
<1>3. 0 \in T
  <2>1. Not(run[0], 0) /\ 0 \in 0..n
    BY <1>1, <1>2 DEF base
  <2> QED
    BY <2>1
<1>4. ASSUME NEW k \in 0 .. n - 1, k \in T
      PROVE  k + 1 \in T
  <2>1. k \in Nat /\ k < n /\ k + 1 \in DOMAIN items /\ k + 1 \in 0..n /\ k + 2 \in Nat \ {0}
    BY <1>2
  <2>2. run[k + 1] = RemoveTurn(run[k], u)
    BY <1>1
  <2>3. CASE Not(run[k], k)
    <3>1. CASE Matches(k + 1, u)
      <4>1. run[k + 1] = TakenOut(k + 1, u, k + 2)
        BY <2>1, <2>2, <2>3, <3>1, TurnBefore
      <4>2. Found(run[k + 1])
        BY <2>1, <3>1, <4>1
      <4> QED
        BY <2>1, <4>2
    <3>2. CASE ~Matches(k + 1, u)
      <4>1. run[k + 1] = LookedAt(k + 1)
        BY <2>1, <2>2, <2>3, <3>2, TurnBefore
      <4>2. \A j \in 1 .. k + 1 : j \in 1..k \/ j = k + 1
        BY <2>1
      <4>3. Not(run[k + 1], k + 1)
        BY <2>3, <3>2, <4>1, <4>2
      <4> QED
        BY <2>1, <4>3
    <3> QED
      BY <3>1, <3>2
  <2>4. CASE Found(run[k])
    <3>1. PICK j \in DOMAIN items, i \in Nat \ {0} : Matches(j, u) /\ run[k] = TakenOut(j, u, i)
      BY <2>4
    <3>2. run[k + 1] = TakenOut(j, u, i) \/ run[k + 1] = TakenOut(j, u, i + 1)
      BY <2>2, <3>1, TurnAfter
    <3>3. i + 1 \in Nat \ {0}
      BY <3>1
    <3>4. Found(run[k + 1])
      BY <3>1, <3>2, <3>3
    <3> QED
      BY <2>1, <3>4
  <2> QED
    BY <1>4, <2>3, <2>4
<1>5. 0..n \subseteq T
  <2>1. T \in SUBSET Nat
    BY <1>2
  <2> HIDE DEF T, n
  <2> QED
    BY <1>2, <1>3, <1>4, <2>1, Induction
<1>6. n \in T
  BY <1>2, <1>5
<1>7. run[n] = s
  BY <1>1
<1>8. CASE Found(run[n])
  BY <1>7, <1>8
<1>9. CASE Not(run[n], n)
  BY <1>2, <1>7, <1>9 DEF n
<1> QED
  BY <1>6, <1>8, <1>9

-----------------------------------------------------------------------------
(* ExampleControlPoints: rows *)

RowUdns(rows) == {rows[r].udn : r \in There(rows)}
RowsIn(its) == {its[i] : i \in DOMAIN its}

\* Items have all services of their devices.
Filled(rows, its) == \A i \in DOMAIN its : rows[its[i]].types = TypesOf[rows[its[i]].udn]
RowsGood(rows, its) == RowsOnce(rows) /\ ItemsOnce(rows, its) /\ Filled(rows, its)

WithRow(rows, u) == Append(rows, [udn |-> u, types |-> <<>>, there |-> TRUE])
WithServices(rows, row, u) == [rows EXCEPT ![row].types = rows[row].types \o TypesOf[u]]
WithoutRow(rows, row) == [rows EXCEPT ![row].there = FALSE]

\* A row is made for a device that has none.
LEMMA RowMade ==
  ASSUME NEW rows, NEW its, RowsGood(rows, its), NEW u \in KnownUdn, u \notin RowUdns(rows),
         NEW more, more = WithRow(rows, u)
  PROVE  /\ RowsGood(more, its) /\ RowUdns(more) = RowUdns(rows) \cup {u}
         /\ There(more) = There(rows) \cup {Len(more)} /\ Len(more) \notin There(rows)
         /\ more[Len(more)] = [udn |-> u, types |-> <<>>, there |-> TRUE]
         /\ \A r \in DOMAIN rows : more[r] = rows[r]
<1> DEFINE n == Len(rows)
           row == [udn |-> u, types |-> <<>>, there |-> TRUE]
<1>1. rows \in Seq(RowSet)
  BY DEF RowsGood, RowsOnce
<1>2. row \in RowSet
  BY DEF RowSet
<1>3. /\ n \in Nat /\ DOMAIN rows = 1..n /\ more \in Seq(RowSet) /\ Len(more) = n + 1
      /\ more[n + 1] = row /\ \A r \in 1..n : more[r] = rows[r]
  <2> HIDE DEF row
  <2> QED
    BY <1>1, <1>2, LenProperties, AppendProperties DEF row, WithRow
<1>4. DOMAIN more = 1 .. n + 1
  BY <1>3, LenProperties
<1> HIDE DEF n
<1>5. DOMAIN more = DOMAIN rows \cup {n + 1} /\ n + 1 \notin DOMAIN rows
  <2>1. n \in Nat
    BY <1>3
  <2>2. 1 .. n + 1 = (1..n) \cup {n + 1} /\ n + 1 \notin 1..n
    BY <2>1
  <2> QED
    BY <1>3, <1>4, <2>2
<1>6. row.udn = u /\ row.there = TRUE
  OBVIOUS
<1> DEFINE at == n + 1
<1> HIDE DEF row, at
<1>7. There(more) = There(rows) \cup {at} /\ at \notin There(rows)
  BY <1>3, <1>5, <1>6 DEF There, at
<1>8. RowUdns(more) = RowUdns(rows) \cup {u}
  <2>0. more[at].udn = u
    BY <1>3, <1>6 DEF at
  <2>1. \A r \in There(rows) : more[r].udn = rows[r].udn
    BY <1>3 DEF There
  <2>2. ASSUME NEW v \in RowUdns(more)
        PROVE  v \in RowUdns(rows) \cup {u}
    <3>1. PICK r \in There(more) : v = more[r].udn
      BY DEF RowUdns
    <3>2. CASE r = at
      BY <2>0, <3>1, <3>2
    <3>3. CASE r \in There(rows)
      BY <2>1, <3>1, <3>3 DEF RowUdns
    <3> QED
      BY <1>7, <3>2, <3>3
  <2>3. ASSUME NEW v \in RowUdns(rows)
        PROVE  v \in RowUdns(more)
    <3>1. PICK r \in There(rows) : v = rows[r].udn
      BY DEF RowUdns
    <3>2. v = more[r].udn /\ r \in There(more)
      BY <1>7, <2>1, <3>1
    <3> QED
      BY <3>2 DEF RowUdns
  <2>4. u \in RowUdns(more)
    <3>1. at \in There(more)
      BY <1>7
    <3> QED
      BY <2>0, <3>1 DEF RowUdns
  <2> QED
    BY <2>2, <2>3, <2>4
<1>9. RowsOnce(more)
  <2>0. more[at].udn = u
    BY <1>3, <1>6 DEF at
  <2>1. \A r \in There(rows) : more[r].udn = rows[r].udn /\ rows[r].udn # u
    BY <1>3 DEF There, RowUdns
  <2>2. ASSUME NEW r \in There(more), NEW q \in There(more), more[r].udn = more[q].udn
        PROVE  r = q
    <3>1. r \in There(rows) /\ q \in There(rows) => r = q
      BY <2>1, <2>2 DEF RowsGood, RowsOnce
    <3>2. (r = at \/ r \in There(rows)) /\ (q = at \/ q \in There(rows))
      BY <1>7
    <3> QED
      BY <2>0, <2>1, <2>2, <3>1, <3>2
  <2> QED
    BY <1>3, <2>2 DEF RowsOnce
<1>10. \A i \in DOMAIN its : its[i] \in There(rows) /\ its[i] \in 1..n /\ its[i] \in There(more)
  BY <1>3, <1>7 DEF RowsGood, ItemsOnce, There
<1>11. ItemsOnce(more, its)
  BY <1>10 DEF RowsGood, ItemsOnce
<1>12. Filled(more, its)
  BY <1>3, <1>10 DEF RowsGood, Filled
<1> QED
  BY <1>3, <1>7, <1>8, <1>9, <1>11, <1>12 DEF RowsGood, row, at

\* An item is put behind the others.
LEMMA ItemMore ==
  ASSUME NEW its \in Seq(Nat), NEW row \in Nat, NEW more, more = Append(its, row)
  PROVE  /\ more \in Seq(Nat) /\ RowsIn(more) = RowsIn(its) \cup {row}
         /\ \A i \in DOMAIN more : more[i] \in RowsIn(its) \/ more[i] = row
         /\ row \notin RowsIn(its) /\ (\A i, j \in DOMAIN its : its[i] = its[j] => i = j) =>
              \A i, j \in DOMAIN more : more[i] = more[j] => i = j
<1> DEFINE n == Len(its)
<1>1. /\ n \in Nat /\ DOMAIN its = 1..n /\ more \in Seq(Nat) /\ Len(more) = n + 1
      /\ more[n + 1] = row /\ \A i \in 1..n : more[i] = its[i]
  BY LenProperties, AppendProperties
<1>2. DOMAIN more = 1 .. n + 1
  BY <1>1, LenProperties
<1> HIDE DEF n
<1>3. DOMAIN more = DOMAIN its \cup {n + 1} /\ \A i \in DOMAIN its : more[i] = its[i]
  <2>1. n \in Nat
    BY <1>1
  <2>2. 1 .. n + 1 = (1..n) \cup {n + 1}
    BY <2>1
  <2> QED
    BY <1>1, <1>2, <2>2
<1>4. RowsIn(more) = RowsIn(its) \cup {row}
  BY <1>1, <1>3 DEF RowsIn
<1>5. \A i \in DOMAIN more : more[i] \in RowsIn(its) \/ more[i] = row
  BY <1>1, <1>3 DEF RowsIn
<1>6. ASSUME row \notin RowsIn(its), \A i, j \in DOMAIN its : its[i] = its[j] => i = j
      PROVE  \A i, j \in DOMAIN more : more[i] = more[j] => i = j
  <2>1. \A i \in DOMAIN its : its[i] # row
    BY <1>6 DEF RowsIn
  <2> QED
    BY <1>1, <1>3, <1>6, <2>1
<1> QED
  BY <1>1, <1>4, <1>5, <1>6

\* The services of a device are put under its row.
LEMMA ServicesAdded ==
  ASSUME NEW rows, NEW its, RowsGood(rows, its), NEW row \in There(rows) \ RowsIn(its),
         rows[row].types = <<>>, NEW u, u = rows[row].udn, NEW more, more = WithServices(rows, row, u)
  PROVE  /\ RowsGood(more, Append(its, row)) /\ RowsIn(Append(its, row)) = RowsIn(its) \cup {row}
         /\ There(more) = There(rows) /\ RowUdns(more) = RowUdns(rows)
         /\ \A r \in There(rows) :
              more[r].udn = rows[r].udn /\ (r # row => more[r].types = rows[r].types)
<1> DEFINE all == Append(its, row)
<1>1. rows \in Seq(RowSet) /\ its \in Seq(Nat) /\ row \in DOMAIN rows
  BY DEF RowsGood, RowsOnce, ItemsOnce, There
<1>2. u \in KnownUdn /\ rows[row] \in RowSet
  <2>1. rows[row] \in RowSet
    BY <1>1
  <2> QED
    BY <2>1 DEF RowSet
<1>3. <<>> \o TypesOf[u] = TypesOf[u] /\ TypesOf[u] \in Seq(DOMAIN ActionsOf)
  <2>1. TypesOf[u] \in Seq(DOMAIN ActionsOf)
    BY <1>2, ExamplesAssumption
  <2> QED
    BY <2>1, EmptySeq, ConcatEmptySeq
<1> DEFINE new == [rows[row] EXCEPT !.types = TypesOf[u]]
<1>4. more = [rows EXCEPT ![row] = new]
  BY <1>3 DEF WithServices
<1>5. new \in RowSet /\ new.udn = u /\ new.types = TypesOf[u] /\ new.there = rows[row].there
  BY <1>2, <1>3 DEF RowSet
<1> HIDE DEF new
<1>6. DOMAIN more = DOMAIN rows /\ more[row] = new /\ \A r \in DOMAIN rows : r # row => more[r] = rows[r]
  BY <1>1, <1>4
<1>7. more \in Seq(RowSet)
  <2>1. Len(rows) \in Nat /\ DOMAIN rows = 1..Len(rows) /\ \A r \in DOMAIN rows : rows[r] \in RowSet
    BY <1>1, LenProperties
  <2>2. more \in [1..Len(rows) -> RowSet]
    BY <1>4, <1>5, <2>1
  <2> QED
    BY <2>1, <2>2, IsSequence
<1>8. There(more) = There(rows)
  BY <1>5, <1>6 DEF There
<1>9. \A r \in There(rows) :
        /\ r \in DOMAIN rows /\ more[r].udn = rows[r].udn
        /\ r # row => more[r].types = rows[r].types
  BY <1>5, <1>6 DEF There
<1>10. RowUdns(more) = RowUdns(rows)
  BY <1>8, <1>9 DEF RowUdns
<1>11. RowsOnce(more)
  <2>1. \A r, q \in There(rows) : more[r].udn = more[q].udn => r = q
    BY <1>9 DEF RowsGood, RowsOnce
  <2> QED
    BY <1>7, <1>8, <2>1 DEF RowsOnce, RowsGood
<1>12. row \in Nat
  <2>1. Len(rows) \in Nat /\ DOMAIN rows = 1..Len(rows)
    BY <1>1, LenProperties
  <2> QED
    BY <1>1, <2>1
<1>13. /\ all \in Seq(Nat) /\ RowsIn(all) = RowsIn(its) \cup {row}
       /\ \A i \in DOMAIN all : all[i] \in RowsIn(its) \/ all[i] = row
       /\ \A i, j \in DOMAIN all : all[i] = all[j] => i = j
  <2>1. \A i, j \in DOMAIN its : its[i] = its[j] => i = j
    BY DEF RowsGood, ItemsOnce
  <2> QED
    BY <1>1, <1>12, <2>1, ItemMore
<1> HIDE DEF all
<1>14. \A r \in RowsIn(its) : r \in There(rows) /\ r # row /\ rows[r].types = TypesOf[rows[r].udn]
  BY DEF RowsGood, ItemsOnce, Filled, RowsIn
<1>15. ItemsOnce(more, all)
  BY <1>8, <1>13, <1>14 DEF ItemsOnce
<1>16. Filled(more, all)
  BY <1>5, <1>6, <1>9, <1>13, <1>14 DEF Filled
<1> QED
  BY <1>8, <1>9, <1>10, <1>11, <1>13, <1>15, <1>16 DEF RowsGood, all

\* A row is taken out.
LEMMA RowTaken ==
  ASSUME NEW rows, NEW its, RowsGood(rows, its), NEW j \in DOMAIN its, NEW less, NEW kept,
         less = WithoutRow(rows, its[j]), kept = RemoveAt(its, j)
  PROVE  /\ RowsGood(less, kept) /\ RowsIn(kept) = RowsIn(its) \ {its[j]}
         /\ There(less) = There(rows) \ {its[j]}
         /\ RowUdns(less) = RowUdns(rows) \ {rows[its[j]].udn}
         /\ DOMAIN less = DOMAIN rows /\ \A r \in There(less) : less[r] = rows[r]
         /\ \A r \in DOMAIN rows : less[r].udn = rows[r].udn
<1> DEFINE row == its[j]
           new == [rows[row] EXCEPT !.there = FALSE]
<1>1. rows \in Seq(RowSet) /\ its \in Seq(Nat) /\ row \in There(rows) /\ row \in DOMAIN rows
  BY DEF RowsGood, RowsOnce, ItemsOnce, There
<1>2. rows[row] \in RowSet
  BY <1>1
<1>3. less = [rows EXCEPT ![row] = new]
  BY DEF WithoutRow
<1> HIDE DEF row
<1>4. new \in RowSet /\ new.udn = rows[row].udn /\ new.there = FALSE
  BY <1>2 DEF RowSet
<1> HIDE DEF new
<1>5. DOMAIN less = DOMAIN rows /\ less[row] = new /\ \A r \in DOMAIN rows : r # row => less[r] = rows[r]
  BY <1>1, <1>3
<1>6. less \in Seq(RowSet)
  <2>1. Len(rows) \in Nat /\ DOMAIN rows = 1..Len(rows) /\ \A r \in DOMAIN rows : rows[r] \in RowSet
    BY <1>1, LenProperties
  <2>2. less \in [1..Len(rows) -> RowSet]
    BY <1>3, <1>4, <2>1
  <2> QED
    BY <2>1, <2>2, IsSequence
<1>7. There(less) = There(rows) \ {row}
  BY <1>4, <1>5 DEF There
<1>8. /\ \A r \in There(less) :
           r \in DOMAIN rows /\ r # row /\ less[r] = rows[r] /\ less[r].udn = rows[r].udn
      /\ \A r \in DOMAIN rows : less[r].udn = rows[r].udn
  BY <1>4, <1>5, <1>7 DEF There
<1>9. RowUdns(less) = RowUdns(rows) \ {rows[row].udn}
  <2>1. \A r \in There(rows) : r # row => rows[r].udn # rows[row].udn
    BY <1>1 DEF RowsGood, RowsOnce
  <2>2. \A r \in There(rows) \ {row} : less[r].udn = rows[r].udn
    BY <1>7, <1>8
  <2>3. ASSUME NEW v \in RowUdns(less)
        PROVE  v \in RowUdns(rows) \ {rows[row].udn}
    <3>1. PICK r \in There(less) : v = less[r].udn
      BY DEF RowUdns
    <3>2. r \in There(rows) /\ r # row /\ v = rows[r].udn
      BY <1>7, <2>2, <3>1
    <3> QED
      BY <2>1, <3>2 DEF RowUdns
  <2>4. ASSUME NEW v \in RowUdns(rows) \ {rows[row].udn}
        PROVE  v \in RowUdns(less)
    <3>1. PICK r \in There(rows) : v = rows[r].udn
      BY DEF RowUdns
    <3>2. r \in There(less) /\ v = less[r].udn
      BY <1>7, <2>2, <3>1
    <3> QED
      BY <3>2 DEF RowUdns
  <2> QED
    BY <2>3, <2>4
<1>10. RowsOnce(less)
  <2>1. \A r, q \in There(less) : less[r].udn = less[q].udn => r = q
    BY <1>7, <1>8 DEF RowsGood, RowsOnce
  <2> QED
    BY <1>6, <2>1 DEF RowsOnce
<1>11. kept \in Seq(Nat) /\ LeftOf(its, j, kept)
  <2>1. j \in 1..Len(its)
    BY <1>1, LenProperties
  <2> QED
    BY <1>1, <2>1, RemoveAtProperties, RemoveAtLeaves
<1>12. PICK f \in [DOMAIN kept -> DOMAIN its \ {j}] :
         /\ \A i \in DOMAIN kept : kept[i] = its[f[i]]
         /\ \A i, k \in DOMAIN kept : f[i] = f[k] => i = k
         /\ \A k \in DOMAIN its \ {j} : \E i \in DOMAIN kept : f[i] = k
  BY <1>11 DEF LeftOf
<1>13. \A k \in DOMAIN its \ {j} : its[k] \in There(rows) /\ its[k] # row
  BY DEF RowsGood, ItemsOnce, row
<1>14. RowsIn(kept) = RowsIn(its) \ {row}
  <2>1. ASSUME NEW r \in RowsIn(kept)
        PROVE  r \in RowsIn(its) \ {row}
    BY <1>12, <1>13 DEF RowsIn
  <2>2. ASSUME NEW r \in RowsIn(its) \ {row}
        PROVE  r \in RowsIn(kept)
    <3>1. PICK k \in DOMAIN its \ {j} : r = its[k]
      BY DEF RowsIn, row
    <3>2. PICK i \in DOMAIN kept : f[i] = k
      BY <1>12
    <3> QED
      BY <1>12, <3>1, <3>2 DEF RowsIn
  <2> QED
    BY <2>1, <2>2
<1>15. ItemsOnce(less, kept)
  <2>1. \A i \in DOMAIN kept : kept[i] \in There(less)
    <3> SUFFICES ASSUME NEW i \in DOMAIN kept PROVE kept[i] \in There(less)
      OBVIOUS
    <3>1. f[i] \in DOMAIN its \ {j} /\ kept[i] = its[f[i]]
      BY <1>12
    <3> QED
      BY <1>7, <1>13, <3>1
  <2>2. \A i, k \in DOMAIN kept : kept[i] = kept[k] => i = k
    BY <1>12 DEF RowsGood, ItemsOnce
  <2> QED
    BY <1>11, <2>1, <2>2 DEF ItemsOnce
<1>16. Filled(less, kept)
  <2>1. ASSUME NEW i \in DOMAIN kept
        PROVE  kept[i] = its[f[i]] /\ f[i] \in DOMAIN its /\ less[kept[i]] = rows[its[f[i]]]
    <3>1. f[i] \in DOMAIN its \ {j} /\ kept[i] = its[f[i]]
      BY <1>12
    <3>2. its[f[i]] \in There(less)
      BY <1>7, <1>13, <3>1
    <3> QED
      BY <1>8, <3>1, <3>2
  <2> QED
    BY <2>1 DEF RowsGood, Filled
<1> QED
  BY <1>5, <1>7, <1>8, <1>9, <1>10, <1>14, <1>15, <1>16 DEF RowsGood, row

-----------------------------------------------------------------------------
(* ExampleControlPoints: what is shown *)

\* The tree has a row for each device of the list, and for no other.
TreeInv ==
  /\ ListTrue(objects, devices)
  /\ RowsGood(treeRows, items)
  /\ RowUdns(treeRows) = UdnsOf(objects, devices)
  /\ gone \cap UdnsOf(objects, devices) \subseteq Separated

\* All rows but the one whose icons are awaited, which has no services yet, are items.
IconsInv ==
  \/ awaited = {} /\ RowsIn(items) = There(treeRows)
  \/ /\ awaited = {currentDev} /\ currentDev \in DOMAIN objects
     /\ currentDeviceItem \in There(treeRows) /\ RowsIn(items) = There(treeRows) \ {currentDeviceItem}
     /\ treeRows[currentDeviceItem].types = <<>>
     /\ treeRows[currentDeviceItem].udn = objects[currentDev]

\* What was clicked last is selected still, and there; the dialog is of it.
ClickInv ==
  /\ doubleClick => /\ selected = selection /\ selection # <<>>
                    /\ selection[1] \in There(treeRows)
                    /\ selection[2] \in DOMAIN treeRows[selection[1]].types
  /\ dialog = "open" => doubleClick /\ closeable /\ Len(selected) = 3
  /\ closeable => dialog # "none" \/ firstCloseable

\* What is said of the program that crashed, too.
SayInv ==
  /\ called # NothingCalled => called.arguments = ArgumentsOf[called.action]
  /\ dialog = "open" => labels = ArgumentsOf[selected[3]]
  /\ guiCrashed => firstCloseable \/ (selected # <<>> /\ treeRows[selected[1]].udn \in Separated)

GuiInv ==
  ~overlapped => SayInv /\ (~guiCrashed => TreeInv /\ IconsInv /\ ClickInv)
TvIdle == tvs = <<>> /\ tvList = <<>> /\ tvCrashed = FALSE

ShownInv == TreeInv /\ IconsInv /\ ClickInv

LEMMA DeviceKnown ==
  ASSUME NEW list, ListTrue(objects, list), NEW u \in KnownUdn \cup {NoUdn}
  PROVE  /\ DeviceByUdn(list, u) # 0 <=> u \in UdnsOf(objects, list)
         /\ DeviceByUdn(list, u) # 0 => objects[DeviceByUdn(list, u)] = u
<1>1. list \in Seq(Nat) /\ \A i \in DOMAIN list : list[i] # 0
  <2>1. \A i \in DOMAIN list : list[i] \in DOMAIN objects /\ DOMAIN objects = 1..Len(objects)
    BY LenProperties DEF ListTrue
  <2> QED
    BY <2>1 DEF ListTrue
<1> QED
  BY <1>1, DeviceByUdnIs

\* The row that was clicked leads to a device that has the service.
LEMMA ServiceThere ==
  ASSUME ShownInv, doubleClick, treeRows[selected[1]].udn \notin Separated
  PROVE  treeRows[selected[1]].there /\ HasService(SelectedDevice, SelectedType)
<1> DEFINE row == selected[1]
           u == treeRows[row].udn
           at == selected[2]
<1>1. row \in There(treeRows) /\ at \in DOMAIN treeRows[row].types /\ u \notin Separated
  BY DEF ShownInv, ClickInv
<1>2. treeRows[row] \in RowSet /\ treeRows[row].there
  BY <1>1 DEF ShownInv, TreeInv, RowsGood, RowsOnce, There
<1> HIDE DEF row, at
<1>3. row \in RowsIn(items)
  <2> SUFFICES ASSUME row \notin RowsIn(items) PROVE FALSE
    OBVIOUS
  <2>1. treeRows[row].types = <<>>
    BY <1>1 DEF ShownInv, IconsInv
  <2> QED
    BY <1>1, <2>1
<1>4. treeRows[row].types = TypesOf[u]
  BY <1>3 DEF ShownInv, TreeInv, RowsGood, Filled, RowsIn
<1>5. u \in KnownUdn /\ u \in UdnsOf(objects, devices)
  BY <1>1, <1>2 DEF ShownInv, TreeInv, RowUdns, RowSet
<1> HIDE DEF u
<1>6. DeviceByUdn(devices, u) # 0 /\ objects[DeviceByUdn(devices, u)] = u
  BY <1>5, DeviceKnown DEF ShownInv, TreeInv
<1>7. SelectedDevice = DeviceByUdn(devices, u)
  BY <1>1 DEF SelectedDevice, UdnInText, row, u
<1>8. SelectedType = TypesOf[u][at]
  BY <1>4 DEF SelectedType, row, at
<1>9. SelectedType \in ToSet(TypesOf[u])
  BY <1>1, <1>4, <1>8 DEF ToSet
<1> QED
  BY <1>2, <1>6, <1>7, <1>9 DEF HasService, row

\* An object is made of a device the tree has, or that could not be read.
LEMMA KnownFoundKeeps ==
  ASSUME TreeInv, IconsInv, NEW u \in KnownUdn \cup {NoUdn}, DeviceFoundDump(u),
         u = NoUdn \/ DeviceByUdn(devices, u) # 0
  PROVE  TreeInv' /\ IconsInv'
<1>1. /\ objects' = Append(objects, u) /\ gone' = gone \ {u}
      /\ UNCHANGED <<awaited, currentDev, currentDeviceItem, treeRows, items>>
      /\ devices' = IF u = NoUdn THEN devices ELSE ReplaceDevice(devices, u, Len(objects) + 1)
  BY DEF DeviceFoundDump, MakeObject
<1>2. ListTrue(objects', devices') /\ UdnsOf(objects', devices') = UdnsOf(objects, devices)
  <2>1. CASE u = NoUdn
    <3>1. u \notin UdnsOf(objects, devices)
      BY <2>1, ExamplesAssumption DEF TreeInv, ListTrue, UdnsOf
    <3>2. ListTrue(Append(objects, u), devices)
          /\ UdnsOf(Append(objects, u), devices) = UdnsOf(objects, devices)
      BY <3>1, ObjectMade DEF TreeInv
    <3> QED
      BY <1>1, <2>1, <3>2
  <2>2. CASE u # NoUdn
    <3> DEFINE new == ReplaceDevice(devices, u, Len(objects) + 1)
    <3>1. new = [i \in DOMAIN devices |-> IF objects[devices[i]] = u THEN Len(objects) + 1 ELSE devices[i]]
      BY DEF ReplaceDevice
    <3> HIDE DEF new
    <3>2. ListTrue(Append(objects, u), new)
          /\ UdnsOf(Append(objects, u), new) = UdnsOf(objects, devices)
      BY <2>2, <3>1, ListReplaced DEF TreeInv
    <3> QED
      BY <1>1, <2>2, <3>2 DEF new
  <2> QED
    BY <2>1, <2>2
<1>3. TreeInv'
  BY <1>1, <1>2 DEF TreeInv
<1>4. \A p \in DOMAIN objects : p \in DOMAIN objects' /\ objects'[p] = objects[p]
  BY <1>1, ObjectMade DEF TreeInv
<1>5. IconsInv'
  BY <1>1, <1>4 DEF IconsInv
<1> QED
  BY <1>3, <1>5

\* One of another device.
LEMMA NewFoundKeeps ==
  ASSUME TreeInv, IconsInv, NEW u \in KnownUdn \cup {NoUdn}, DeviceFoundDump(u), ~overlapped',
         u # NoUdn, DeviceByUdn(devices, u) = 0
  PROVE  /\ TreeInv' /\ IconsInv'
         /\ \A r \in There(treeRows) : r \in There(treeRows') /\ treeRows'[r].types = treeRows[r].types
<1> DEFINE o == Len(objects) + 1
           rows == Append(treeRows, [udn |-> u, types |-> <<>>, there |-> TRUE])
           row == Len(rows)
<1>1. /\ objects' = Append(objects, u) /\ gone' = gone \ {u} /\ awaited = {}
      /\ devices' = Append(devices, o) /\ currentDev' = o /\ currentDeviceItem' = row
      /\ \/ u \in WithIcons /\ awaited' = awaited \cup {o} /\ treeRows' = rows /\ items' = items
         \/ /\ awaited' = awaited /\ items' = Append(items, row)
            /\ treeRows' = [rows EXCEPT ![row].types = rows[row].types \o TypesOf[u]]
  BY DEF DeviceFoundDump, MakeObject, CreateDeviceItem, AddItem
<1> HIDE DEF o
<1>2. u \in KnownUdn /\ u \notin UdnsOf(objects, devices)
  BY DeviceKnown DEF TreeInv
<1>3. /\ ListTrue(objects', devices')
      /\ UdnsOf(objects', devices') = UdnsOf(objects, devices) \cup {u}
  <2>1. /\ ListTrue(Append(objects, u), Append(devices, Len(objects) + 1))
        /\ UdnsOf(Append(objects, u), Append(devices, Len(objects) + 1)) = UdnsOf(objects, devices) \cup {u}
    BY <1>2, ListMore DEF TreeInv
  <2> QED
    BY <1>1, <2>1 DEF o
<1>4. o \in DOMAIN objects' /\ objects'[o] = u
  BY <1>1, ObjectMade DEF TreeInv, o
<1>5. /\ RowsGood(rows, items) /\ RowUdns(rows) = RowUdns(treeRows) \cup {u}
      /\ There(rows) = There(treeRows) \cup {row} /\ row \notin There(treeRows)
      /\ rows[row] = [udn |-> u, types |-> <<>>, there |-> TRUE]
      /\ \A r \in DOMAIN treeRows : rows[r] = treeRows[r]
  <2>1. RowsGood(treeRows, items) /\ u \notin RowUdns(treeRows)
    BY <1>2 DEF TreeInv
  <2>2. rows = WithRow(treeRows, u)
    BY DEF WithRow
  <2> HIDE DEF rows
  <2> QED
    BY <1>2, <2>1, <2>2, RowMade
<1>6. RowsIn(items) = There(treeRows)
  BY <1>1 DEF IconsInv
<1>7. rows[row].udn = u /\ rows[row].types = <<>> /\ row \in There(rows) \ RowsIn(items)
  <2> HIDE DEF rows, row
  <2> QED
    BY <1>5, <1>6
<1>8. \A r \in There(treeRows) : r # row /\ r \in DOMAIN treeRows /\ rows[r].types = treeRows[r].types
  BY <1>5 DEF There
<1> HIDE DEF rows, row
<1>9. CASE u \in WithIcons /\ awaited' = awaited \cup {o} /\ treeRows' = rows /\ items' = items
  <2>1. TreeInv'
    BY <1>1, <1>3, <1>5, <1>9 DEF TreeInv
  <2>2. IconsInv'
    BY <1>1, <1>4, <1>5, <1>6, <1>7, <1>9 DEF IconsInv
  <2> QED
    BY <1>5, <1>8, <1>9, <2>1, <2>2
<1>10. CASE /\ awaited' = awaited /\ items' = Append(items, row)
            /\ treeRows' = [rows EXCEPT ![row].types = rows[row].types \o TypesOf[u]]
  <2>1. /\ RowsGood(treeRows', items') /\ RowsIn(items') = RowsIn(items) \cup {row}
        /\ There(treeRows') = There(rows) /\ RowUdns(treeRows') = RowUdns(rows)
        /\ \A r \in There(rows) :
             treeRows'[r].udn = rows[r].udn /\ (r # row => treeRows'[r].types = rows[r].types)
    <3>1. RowsGood(rows, items) /\ rows[row].udn = u /\ treeRows' = WithServices(rows, row, u)
      BY <1>5, <1>7, <1>10 DEF WithServices
    <3>2. items' = Append(items, row)
      BY <1>10
    <3> QED
      BY <1>7, <3>1, <3>2, ServicesAdded
  <2>2. TreeInv'
    BY <1>1, <1>3, <1>5, <2>1 DEF TreeInv
  <2>3. IconsInv'
    BY <1>1, <1>5, <1>6, <1>10, <2>1 DEF IconsInv
  <2> QED
    BY <1>5, <1>8, <2>1, <2>2, <2>3
<1> QED
  BY <1>1, <1>9, <1>10

LEMMA FoundKeeps ==
  ASSUME GuiInv, NEW u \in KnownUdn \cup {NoUdn}, DeviceFoundDump(u)
  PROVE  GuiInv'
<1> SUFFICES ASSUME ~overlapped' PROVE SayInv' /\ (~guiCrashed' => ShownInv')
  BY DEF GuiInv, ShownInv
<1>1. /\ ~overlapped /\ ~guiCrashed /\ guiCrashed' = guiCrashed
      /\ UNCHANGED <<clickVars, firstCloseable>>
  BY DEF DeviceFoundDump
<1>2. SayInv /\ TreeInv /\ IconsInv /\ ClickInv
  BY <1>1 DEF GuiInv
<1>3. SayInv'
  BY <1>1, <1>2 DEF SayInv, clickVars
<1>4. /\ TreeInv' /\ IconsInv'
      /\ \A r \in There(treeRows) : r \in There(treeRows') /\ treeRows'[r].types = treeRows[r].types
  <2>1. CASE u = NoUdn \/ DeviceByUdn(devices, u) # 0
    <3>1. treeRows' = treeRows
      BY <2>1 DEF DeviceFoundDump
    <3> QED
      BY <1>2, <2>1, <3>1, KnownFoundKeeps
  <2>2. CASE u # NoUdn /\ DeviceByUdn(devices, u) = 0
    BY <1>2, <2>2, NewFoundKeeps
  <2> QED
    BY <2>1, <2>2
<1>5. ClickInv'
  BY <1>1, <1>2, <1>4 DEF ClickInv, clickVars
<1> QED
  BY <1>3, <1>4, <1>5 DEF ShownInv

\* The icons of the one device that is awaited are there.
LEMMA IconsKeep ==
  ASSUME GuiInv, NEW o \in awaited, OnReadyDownloadIcons(o)
  PROVE  GuiInv'
<1> SUFFICES ASSUME ~overlapped' PROVE SayInv' /\ (~guiCrashed' => ShownInv')
  BY DEF GuiInv, ShownInv
<1>1. /\ ~overlapped /\ ~guiCrashed /\ awaited' = awaited \ {o}
      /\ UNCHANGED <<objects, gone, devices, clickVars, firstCloseable>>
  BY DEF OnReadyDownloadIcons
<1>2. SayInv /\ TreeInv /\ IconsInv /\ ClickInv
  BY <1>1 DEF GuiInv
<1> DEFINE row == currentDeviceItem
           u == objects[currentDev]
<1>3. /\ awaited = {currentDev} /\ row \in There(treeRows) /\ RowsIn(items) = There(treeRows) \ {row}
      /\ treeRows[row].types = <<>> /\ treeRows[row].udn = u
  BY <1>2 DEF IconsInv
<1>4. treeRows[row].there
  BY <1>3 DEF There
<1>5. /\ items' = Append(items, row) /\ guiCrashed' = FALSE
      /\ treeRows' = [treeRows EXCEPT ![row].types = treeRows[row].types \o TypesOf[u]]
  BY <1>4 DEF OnReadyDownloadIcons, AddItem
<1> HIDE DEF row, u
<1>6. /\ RowsGood(treeRows', items') /\ RowsIn(items') = RowsIn(items) \cup {row}
      /\ There(treeRows') = There(treeRows) /\ RowUdns(treeRows') = RowUdns(treeRows)
      /\ \A r \in There(treeRows) :
           /\ treeRows'[r].udn = treeRows[r].udn
           /\ r # row => treeRows'[r].types = treeRows[r].types
  <2>1. /\ RowsGood(treeRows, items) /\ row \in There(treeRows) \ RowsIn(items)
        /\ treeRows' = WithServices(treeRows, row, u)
    BY <1>2, <1>3, <1>5 DEF TreeInv, WithServices
  <2>2. items' = Append(items, row) /\ treeRows[row].types = <<>> /\ u = treeRows[row].udn
    BY <1>3, <1>5
  <2> QED
    BY <2>1, <2>2, ServicesAdded
<1>7. TreeInv'
  BY <1>1, <1>2, <1>6 DEF TreeInv
<1>8. IconsInv'
  <2>1. awaited' = {} /\ RowsIn(items') = There(treeRows')
    BY <1>1, <1>3, <1>6
  <2> QED
    BY <2>1 DEF IconsInv
<1>9. ClickInv'
  <2>1. doubleClick => selection[1] # row
    BY <1>2, <1>3 DEF ClickInv
  <2> QED
    BY <1>1, <1>2, <1>6, <2>1 DEF ClickInv, clickVars
<1>10. SayInv'
  BY <1>1, <1>2, <1>5 DEF SayInv, clickVars
<1> QED
  BY <1>7, <1>8, <1>9, <1>10 DEF ShownInv

-----------------------------------------------------------------------------

\* The device is in a row that is an item, and is taken out of the list with it.
LEMMA RowGoes ==
  ASSUME TreeInv, IconsInv, NEW u \in KnownUdn, \A o \in awaited : objects[o] # u,
         NEW j \in DOMAIN items, Matches(j, u),
         objects' = objects, awaited' = awaited, currentDev' = currentDev,
         currentDeviceItem' = currentDeviceItem, gone' = gone \cup {u},
         treeRows' = WithoutRow(treeRows, items[j]),
         items' = RemoveAt(items, j), devices' = Forget(devices, u)
  PROVE  /\ TreeInv' /\ IconsInv'
         /\ There(treeRows') = There(treeRows) \ {items[j]}
         /\ \A r \in There(treeRows') : treeRows'[r] = treeRows[r]
<1>1. items[j] \in There(treeRows) /\ treeRows[items[j]] \in RowSet /\ RowsGood(treeRows, items)
  BY DEF TreeInv, RowsGood, RowsOnce, ItemsOnce, There
<1>2. treeRows[items[j]].udn = u
  BY <1>1, ExamplesAssumption DEF Matches, UdnInText, RowSet
<1>3. /\ RowsGood(treeRows', items') /\ RowsIn(items') = RowsIn(items) \ {items[j]}
      /\ There(treeRows') = There(treeRows) \ {items[j]}
      /\ RowUdns(treeRows') = RowUdns(treeRows) \ {u}
      /\ \A r \in There(treeRows') : treeRows'[r] = treeRows[r]
  <2>3. /\ RowsGood(treeRows', items') /\ RowsIn(items') = RowsIn(items) \ {items[j]}
        /\ There(treeRows') = There(treeRows) \ {items[j]}
        /\ RowUdns(treeRows') = RowUdns(treeRows) \ {treeRows[items[j]].udn}
        /\ \A r \in There(treeRows') : treeRows'[r] = treeRows[r]
    <3>1. RowsGood(treeRows, items)
      BY <1>1
    <3> QED
      BY <3>1, RowTaken
  <2> QED
    BY <1>2, <2>3
<1>4. ListTrue(objects, devices') /\ UdnsOf(objects, devices') = UdnsOf(objects, devices) \ {u}
  <2>1. PICK k \in DOMAIN devices : u = objects[devices[k]]
    BY <1>1, <1>2 DEF TreeInv, RowUdns, UdnsOf
  <2>2. Forget(devices, objects[devices[k]]) = RemoveAt(devices, k)
    BY ForgetIs DEF TreeInv
  <2>3. devices' = RemoveAt(devices, k)
    BY <2>1, <2>2
  <2> QED
    BY <2>1, <2>3, ListLess DEF TreeInv
<1>5. TreeInv'
  BY <1>3, <1>4 DEF TreeInv
<1>6. IconsInv'
  <2>1. CASE awaited = {} /\ RowsIn(items) = There(treeRows)
    BY <1>3, <2>1 DEF IconsInv
  <2>2. CASE /\ awaited = {currentDev} /\ currentDev \in DOMAIN objects
             /\ currentDeviceItem \in There(treeRows)
             /\ RowsIn(items) = There(treeRows) \ {currentDeviceItem}
             /\ treeRows[currentDeviceItem].types = <<>>
             /\ treeRows[currentDeviceItem].udn = objects[currentDev]
    <3>1. currentDeviceItem # items[j]
      BY <1>2, <2>2
    <3>2. currentDeviceItem \in There(treeRows')
          /\ treeRows'[currentDeviceItem] = treeRows[currentDeviceItem]
      BY <1>3, <2>2, <3>1
    <3>3. RowsIn(items') = There(treeRows') \ {currentDeviceItem}
      BY <1>3, <2>2
    <3> QED
      BY <2>2, <3>2, <3>3 DEF IconsInv
  <2> QED
    BY <2>1, <2>2 DEF IconsInv
<1> QED
  BY <1>3, <1>5, <1>6

LEMMA RemoveKeeps ==
  ASSUME GuiInv, NEW u \in KnownUdn, RemoveDevice(u)
  PROVE  GuiInv'
<1> SUFFICES ASSUME ~overlapped' PROVE SayInv' /\ (~guiCrashed' => ShownInv')
  BY DEF GuiInv, ShownInv
<1> DEFINE s == SweepItems(u)
<1>1. /\ ~overlapped /\ ~guiCrashed /\ (\A o \in awaited : objects[o] # u) /\ gone' = gone \cup {u}
      /\ items' = s.items /\ treeRows' = s.treeRows /\ devices' = s.devices
      /\ doubleClick' = s.doubleClick /\ dialog' = s.dialog /\ guiCrashed' = s.crashed
      /\ called' = IF dialog' = dialog THEN called ELSE NothingCalled
      /\ s.selection = selection => selection' = selection
      /\ objects' = objects /\ awaited' = awaited /\ currentDev' = currentDev
      /\ currentDeviceItem' = currentDeviceItem /\ selected' = selected
      /\ closeable' = closeable /\ labels' = labels /\ firstCloseable' = firstCloseable
  BY DEF RemoveDevice
<1>2. SayInv /\ TreeInv /\ IconsInv /\ ClickInv
  BY <1>1 DEF GuiInv
<1>3. \/ s = LookedAt(Len(items)) /\ \A j \in DOMAIN items : ~Matches(j, u)
      \/ \E j \in DOMAIN items, k \in Nat \ {0} : Matches(j, u) /\ s = TakenOut(j, u, k)
  <2>1. RowsOnce(treeRows) /\ ItemsOnce(treeRows, items)
    BY <1>2 DEF TreeInv, RowsGood
  <2> QED
    BY <2>1, RemovalDone
<1> HIDE DEF s
<1>4. CASE s = LookedAt(Len(items)) /\ \A j \in DOMAIN items : ~Matches(j, u)
  <2>1. /\ items' = items /\ treeRows' = treeRows /\ devices' = devices /\ doubleClick' = doubleClick
        /\ dialog' = dialog /\ guiCrashed' = FALSE /\ selection' = selection /\ called' = called
    <3>1. /\ s.items = items /\ s.treeRows = treeRows /\ s.devices = devices
          /\ s.doubleClick = doubleClick /\ s.dialog = dialog /\ s.crashed = FALSE
          /\ s.selection = selection
      BY <1>4 DEF LookedAt, LoopState
    <3> QED
      BY <1>1, <3>1
  <2>2. u \in UdnsOf(objects, devices) => u \in Separated
    <3> SUFFICES ASSUME u \in UdnsOf(objects, devices), u \notin Separated PROVE FALSE
      OBVIOUS
    <3>1. PICK r \in There(treeRows) : treeRows[r].udn = u
      BY <1>2 DEF TreeInv, RowUdns
    <3>2. r \in RowsIn(items)
      BY <1>1, <1>2, <3>1 DEF IconsInv
    <3>3. PICK j \in DOMAIN items : items[j] = r
      BY <3>2 DEF RowsIn
    <3> QED
      BY <1>4, <3>1, <3>3 DEF Matches, UdnInText
  <2>3. TreeInv'
    BY <1>1, <1>2, <2>1, <2>2 DEF TreeInv
  <2>4. IconsInv'
    BY <1>1, <1>2, <2>1 DEF IconsInv
  <2>5. ClickInv'
    BY <1>1, <1>2, <2>1 DEF ClickInv
  <2>6. SayInv'
    BY <1>1, <1>2, <2>1 DEF SayInv
  <2> QED
    BY <2>3, <2>4, <2>5, <2>6 DEF ShownInv
<1>5. ASSUME NEW j \in DOMAIN items, NEW k \in Nat \ {0}, Matches(j, u), s = TakenOut(j, u, k)
      PROVE  SayInv' /\ (~guiCrashed' => ShownInv')
  <2>1. /\ items' = RemoveAt(items, j) /\ treeRows' = [treeRows EXCEPT ![items[j]].there = FALSE]
        /\ devices' = Forget(devices, u) /\ doubleClick' = (doubleClick /\ ~Inside(j))
        /\ dialog' = (IF Closes(j) /\ dialog = "open" THEN "closed" ELSE dialog)
        /\ guiCrashed' = (Closes(j) /\ dialog = "none")
        /\ ~Inside(j) => selection' = selection
    <3>1. /\ s.items = RemoveAt(items, j) /\ s.treeRows = [treeRows EXCEPT ![items[j]].there = FALSE]
          /\ s.devices = Forget(devices, u) /\ s.doubleClick = (doubleClick /\ ~Inside(j))
          /\ s.dialog = (IF Closes(j) /\ dialog = "open" THEN "closed" ELSE dialog)
          /\ s.crashed = (Closes(j) /\ dialog = "none")
          /\ s.selection = (IF Inside(j) THEN <<>> ELSE selection)
      BY <1>5 DEF TakenOut, LoopState
    <3> QED
      BY <1>1, <3>1
  <2>2. /\ TreeInv' /\ IconsInv'
        /\ There(treeRows') = There(treeRows) \ {items[j]}
        /\ \A r \in There(treeRows') : treeRows'[r] = treeRows[r]
    <3>1. treeRows' = WithoutRow(treeRows, items[j])
      BY <2>1 DEF WithoutRow
    <3>2. items' = RemoveAt(items, j) /\ devices' = Forget(devices, u) /\ Matches(j, u)
      BY <1>5, <2>1
    <3> QED
      BY <1>1, <1>2, <3>1, <3>2, RowGoes
  <2>3. ClickInv'
    <3>1. doubleClick' => /\ selected' = selection' /\ selection' # <<>>
                          /\ selection'[1] \in There(treeRows')
                          /\ selection'[2] \in DOMAIN treeRows'[selection'[1]].types
      BY <1>1, <1>2, <2>1, <2>2 DEF ClickInv, Inside
    <3>2. dialog' = "open" => doubleClick' /\ closeable' /\ Len(selected') = 3
      BY <1>1, <1>2, <2>1 DEF ClickInv, Closes
    <3>3. closeable' => dialog' # "none" \/ firstCloseable'
      BY <1>1, <1>2, <2>1 DEF ClickInv
    <3> QED
      BY <3>1, <3>2, <3>3 DEF ClickInv
  <2>4. SayInv'
    <3>1. called' # NothingCalled => called'.arguments = ArgumentsOf[called'.action]
      BY <1>1, <1>2 DEF SayInv
    <3>2. dialog' = "open" => labels' = ArgumentsOf[selected'[3]]
      BY <1>1, <1>2, <2>1 DEF SayInv
    <3>3. guiCrashed' => firstCloseable'
      BY <1>1, <1>2, <2>1 DEF ClickInv, Closes
    <3> QED
      BY <3>1, <3>2, <3>3 DEF SayInv
  <2> QED
    BY <2>2, <2>3, <2>4 DEF ShownInv
<1> QED
  BY <1>3, <1>4, <1>5

LEMMA ExpandKeeps ==
  ASSUME GuiInv, ExpandItems
  PROVE  GuiInv'
<1> SUFFICES ASSUME ~overlapped' PROVE SayInv' /\ (~guiCrashed' => ShownInv')
  BY DEF GuiInv, ShownInv
<1>1. /\ ~overlapped /\ ~guiCrashed /\ UNCHANGED <<objects, gone, treeVars, clickVars, firstCloseable>>
      /\ guiCrashed' = \E i \in DOMAIN items : ~treeRows[items[i]].there
  BY DEF ExpandItems, treeVars
<1>2. SayInv /\ TreeInv /\ IconsInv /\ ClickInv
  BY <1>1 DEF GuiInv
<1>3. ~guiCrashed'
  BY <1>1, <1>2 DEF TreeInv, RowsGood, ItemsOnce, There
<1>4. TreeInv' /\ IconsInv' /\ ClickInv'
  BY <1>1, <1>2 DEF TreeInv, IconsInv, ClickInv, treeVars, clickVars
<1>5. SayInv'
  BY <1>1, <1>2, <1>3 DEF SayInv, clickVars, treeVars
<1> QED
  BY <1>4, <1>5 DEF ShownInv

LEMMA ClickKeeps ==
  ASSUME GuiInv, NEW path \in PathsShown, LineEnabled(path)
  PROVE  GuiInv'
<1> SUFFICES ASSUME ~overlapped' PROVE SayInv' /\ (~guiCrashed' => ShownInv')
  BY DEF GuiInv, ShownInv
<1>1. /\ ~overlapped /\ ~guiCrashed /\ guiCrashed' = guiCrashed /\ dialog # "open"
      /\ selection' = path /\ doubleClick' = (Len(path) > 1)
      /\ selected' = (IF Len(path) > 1 THEN path ELSE <<>>)
      /\ UNCHANGED <<objects, gone, treeVars, dialog, closeable, labels, called, firstCloseable>>
  BY DEF LineEnabled, treeVars
<1>2. SayInv /\ TreeInv /\ IconsInv /\ ClickInv
  BY <1>1 DEF GuiInv
<1>3. Len(path) > 1 => path # <<>> /\ path[1] \in There(treeRows) /\ path[2] \in DOMAIN treeRows[path[1]].types
  BY DEF PathsShown, There
<1>4. TreeInv' /\ IconsInv'
  BY <1>1, <1>2 DEF TreeInv, IconsInv, treeVars
<1>5. ClickInv'
  BY <1>1, <1>2, <1>3 DEF ClickInv, treeVars
<1>6. SayInv'
  BY <1>1, <1>2 DEF SayInv
<1> QED
  BY <1>4, <1>5, <1>6 DEF ShownInv

LEMMA OpenKeeps ==
  ASSUME GuiInv, OpenDialog
  PROVE  GuiInv'
<1> SUFFICES ASSUME ~overlapped' PROVE SayInv' /\ (~guiCrashed' => ShownInv')
  BY DEF GuiInv, ShownInv
<1>1. /\ ~overlapped /\ ~guiCrashed /\ dialog # "open" /\ doubleClick /\ Len(selected) = 3
      /\ MountControlDialog
      /\ UNCHANGED <<objects, gone, treeVars, selection, selected, doubleClick, called, firstCloseable>>
  BY DEF OpenDialog, treeVars
<1>2. SayInv /\ TreeInv /\ IconsInv /\ ClickInv
  BY <1>1 DEF GuiInv
<1>3. selected # <<>>
  BY <1>1, <1>2 DEF ClickInv
<1>4. TreeInv' /\ IconsInv'
  BY <1>1, <1>2 DEF TreeInv, IconsInv, treeVars
<1>5. CASE treeRows[selected[1]].there /\ HasService(SelectedDevice, SelectedType)
  <2>1. dialog' = "open" /\ labels' = ArgumentsOf[selected[3]] /\ guiCrashed' = FALSE /\ closeable' = TRUE
    BY <1>1, <1>5 DEF MountControlDialog
  <2>2. ClickInv'
    BY <1>1, <1>2, <2>1 DEF ClickInv, treeVars
  <2>3. SayInv'
    BY <1>1, <1>2, <2>1 DEF SayInv
  <2> QED
    BY <1>4, <2>2, <2>3 DEF ShownInv
<1>6. CASE ~(treeRows[selected[1]].there /\ HasService(SelectedDevice, SelectedType))
  <2>1. guiCrashed' = TRUE /\ dialog' = dialog /\ labels' = labels
    BY <1>1, <1>6 DEF MountControlDialog
  <2>2. treeRows[selected[1]].udn \in Separated
    BY <1>1, <1>2, <1>6, ServiceThere DEF ShownInv
  <2>3. SayInv'
    BY <1>1, <1>2, <1>3, <2>1, <2>2 DEF SayInv, treeVars
  <2> QED
    BY <2>1, <2>3
<1> QED
  BY <1>5, <1>6

LEMMA CallKeeps ==
  ASSUME GuiInv, CallMethod
  PROVE  GuiInv'
<1> SUFFICES ASSUME ~overlapped' PROVE SayInv' /\ (~guiCrashed' => ShownInv')
  BY DEF GuiInv, ShownInv
<1>1. /\ ~overlapped /\ ~guiCrashed /\ dialog = "open"
      /\ UNCHANGED <<objects, gone, treeVars, selection, selected, doubleClick, dialog, closeable,
                     labels, firstCloseable>>
  BY DEF CallMethod, treeVars
<1>2. SayInv /\ TreeInv /\ IconsInv /\ ClickInv
  BY <1>1 DEF GuiInv
<1>3. doubleClick /\ selected # <<>>
  BY <1>1, <1>2 DEF ClickInv
<1>4. TreeInv' /\ IconsInv' /\ ClickInv'
  BY <1>1, <1>2 DEF TreeInv, IconsInv, ClickInv, treeVars
<1>5. CASE treeRows[selected[1]].there /\ HasService(SelectedDevice, SelectedType)
  <2>1. /\ guiCrashed' = FALSE /\ called'.arguments = labels /\ called'.action = selected[3]
    BY <1>5 DEF CallMethod
  <2>2. SayInv'
    BY <1>1, <1>2, <2>1 DEF SayInv
  <2> QED
    BY <1>4, <2>2 DEF ShownInv
<1>6. CASE ~(treeRows[selected[1]].there /\ HasService(SelectedDevice, SelectedType))
  <2>1. guiCrashed' = TRUE /\ called' = called
    BY <1>6 DEF CallMethod
  <2>2. treeRows[selected[1]].udn \in Separated
    BY <1>2, <1>3, <1>6, ServiceThere DEF ShownInv
  <2>3. SayInv'
    BY <1>1, <1>2, <1>3, <2>1, <2>2 DEF SayInv, treeVars
  <2> QED
    BY <2>1, <2>3
<1> QED
  BY <1>5, <1>6

LEMMA CloseKeeps ==
  ASSUME GuiInv, CloseDialog
  PROVE  GuiInv'
<1> SUFFICES ASSUME ~overlapped' PROVE SayInv' /\ (~guiCrashed' => ShownInv')
  BY DEF GuiInv, ShownInv
<1>1. /\ ~overlapped /\ guiCrashed' = guiCrashed /\ dialog' = "closed" /\ called' = NothingCalled
      /\ UNCHANGED <<objects, gone, treeVars, selection, selected, doubleClick, closeable, labels,
                     firstCloseable>>
  BY DEF CloseDialog, treeVars
<1>2. SayInv /\ (~guiCrashed => TreeInv /\ IconsInv /\ ClickInv)
  BY <1>1 DEF GuiInv
<1>3. SayInv'
  BY <1>1, <1>2 DEF SayInv, treeVars
<1>4. ~guiCrashed => TreeInv' /\ IconsInv' /\ ClickInv'
  BY <1>1, <1>2 DEF TreeInv, IconsInv, ClickInv, treeVars
<1> QED
  BY <1>1, <1>3, <1>4 DEF ShownInv

\* Neither the event log nor stuttering is shown in the tree.
LEMMA RestKeeps ==
  ASSUME GuiInv, UNCHANGED <<objects, gone, treeVars, clickVars, firstCloseable, guiCrashed>>
  PROVE  GuiInv'
  BY DEF GuiInv, SayInv, TreeInv, IconsInv, ClickInv, treeVars, clickVars

-----------------------------------------------------------------------------

LEMMA GuiTells ==
  ASSUME GuiInv
  PROVE  TreeTrue
<1> SUFFICES ASSUME ~overlapped PROVE TreeTrue
  BY DEF TreeTrue
<1>1. SayInv
  BY DEF GuiInv
<1>2. ASSUME ~guiCrashed
      PROVE  /\ \A i \in DOMAIN devices :
                  LET u == objects[devices[i]]
                  IN /\ NewestObject(u, devices[i])
                     /\ Cardinality(RowsOf(u)) = 1
                     /\ \A r \in RowsOf(u) : treeRows[r].types = IF IconsAwaited(u) THEN <<>> ELSE TypesOf[u]
             /\ \A u \in gone \ Separated : RowsOf(u) = {}
             /\ \A u \in KnownUdn : RowsOf(u) # {} => DeviceByUdn(devices, u) # 0
  <2>1. TreeInv /\ IconsInv
    BY <1>2 DEF GuiInv
  <2>2. \A r, u : r \in RowsOf(u) <=> r \in There(treeRows) /\ treeRows[r].udn = u
    BY DEF RowsOf, There
  <2>3. \A u : RowsOf(u) # {} <=> u \in UdnsOf(objects, devices)
    BY <2>1, <2>2 DEF TreeInv, RowUdns
  <2>4. ASSUME NEW i \in DOMAIN devices, NEW u, u = objects[devices[i]]
        PROVE  /\ NewestObject(u, devices[i])
               /\ Cardinality(RowsOf(u)) = 1
               /\ \A r \in RowsOf(u) : treeRows[r].types = IF IconsAwaited(u) THEN <<>> ELSE TypesOf[u]
    <3>1. NewestObject(u, devices[i])
      BY <2>1, <2>4 DEF TreeInv, ListTrue, Newest, NewestObject
    <3>2. PICK r : r \in RowsOf(u)
      BY <2>3, <2>4 DEF UdnsOf
    <3>3. RowsOf(u) = {r}
      BY <2>1, <2>2, <3>2 DEF TreeInv, RowsGood, RowsOnce
    <3>4. Cardinality(RowsOf(u)) = 1
      BY <3>3, FS_Singleton
    <3>5. r \in There(treeRows) /\ treeRows[r].udn = u
      BY <2>2, <3>2
    <3>6. CASE r \in RowsIn(items)
      <4>1. treeRows[r].types = TypesOf[u]
        BY <2>1, <3>5, <3>6 DEF TreeInv, RowsGood, Filled, RowsIn
      <4>2. ~IconsAwaited(u)
        BY <2>1, <3>5, <3>6 DEF IconsAwaited, IconsInv, TreeInv, RowsGood, RowsOnce
      <4> QED
        BY <3>1, <3>3, <3>4, <4>1, <4>2
    <3>7. CASE r \notin RowsIn(items)
      <4>1. treeRows[r].types = <<>> /\ IconsAwaited(u)
        BY <2>1, <3>5, <3>7 DEF IconsAwaited, IconsInv
      <4> QED
        BY <3>1, <3>3, <3>4, <4>1
    <3> QED
      BY <3>6, <3>7
  <2>5. \A u \in gone \ Separated : RowsOf(u) = {}
    BY <2>1, <2>3 DEF TreeInv
  <2>6. \A u \in KnownUdn : RowsOf(u) # {} => DeviceByUdn(devices, u) # 0
    BY <2>1, <2>3, DeviceKnown DEF TreeInv
  <2> QED
    BY <2>4, <2>5, <2>6
<1> QED
  BY <1>1, <1>2 DEF TreeTrue, SayInv

LEMMA GuiStarts == ExamplesInit => GuiInv /\ TvIdle
<1> SUFFICES ASSUME ExamplesInit PROVE GuiInv /\ TvIdle
  OBVIOUS
<1>1. TvIdle
  BY DEF ExamplesInit, TvInit, TvIdle
<1>2. /\ objects = <<>> /\ gone = {} /\ devices = <<>> /\ awaited = {} /\ treeRows = <<>> /\ items = <<>>
      /\ doubleClick = FALSE /\ dialog = "none" /\ closeable = firstCloseable
      /\ called = NothingCalled /\ guiCrashed = FALSE
  BY DEF ExamplesInit
<1>3. \A S : <<>> \in Seq(S) /\ DOMAIN <<>> = {}
  BY EmptySeq, LenProperties
<1>4. TreeInv /\ IconsInv
  BY <1>2, <1>3 DEF TreeInv, IconsInv, ListTrue, UdnsOf, RowsGood, RowsOnce, ItemsOnce, Filled,
                    There, RowUdns, RowsIn
<1> QED
  BY <1>1, <1>2, <1>4 DEF GuiInv, SayInv, ClickInv

LEMMA GuiKeeps == GuiInv /\ TvIdle /\ [GuiNext]_examplesVars => GuiInv' /\ TvIdle'
<1> SUFFICES ASSUME GuiInv, TvIdle, [GuiNext]_examplesVars PROVE GuiInv' /\ TvIdle'
  OBVIOUS
<1>1. ASSUME UNCHANGED tvVars PROVE TvIdle'
  BY <1>1 DEF TvIdle, tvVars
<1>2. ASSUME NEW u \in KnownUdn \cup {NoUdn}, DeviceFoundDump(u) PROVE GuiInv' /\ TvIdle'
  BY <1>1, <1>2, FoundKeeps DEF DeviceFoundDump
<1>3. ASSUME NEW o \in awaited, OnReadyDownloadIcons(o) PROVE GuiInv' /\ TvIdle'
  BY <1>1, <1>3, IconsKeep DEF OnReadyDownloadIcons
<1>4. ASSUME NEW u \in KnownUdn, RemoveDevice(u) PROVE GuiInv' /\ TvIdle'
  BY <1>1, <1>4, RemoveKeeps DEF RemoveDevice
<1>5. CASE ExpandItems
  BY <1>1, <1>5, ExpandKeeps DEF ExpandItems
<1>6. ASSUME NEW path \in PathsShown, LineEnabled(path) PROVE GuiInv' /\ TvIdle'
  BY <1>1, <1>6, ClickKeeps DEF LineEnabled
<1>7. CASE OpenDialog
  BY <1>1, <1>7, OpenKeeps DEF OpenDialog
<1>8. CASE CallMethod
  BY <1>1, <1>8, CallKeeps DEF CallMethod
<1>9. CASE CloseDialog
  BY <1>1, <1>9, CloseKeeps DEF CloseDialog
<1>10. ASSUME NEW id \in DOMAIN eventToDevice, ChangeEventLog(id) PROVE GuiInv' /\ TvIdle'
  BY <1>1, <1>10, RestKeeps DEF ChangeEventLog
<1>11. CASE ClearEventLog
  BY <1>1, <1>11, RestKeeps DEF ClearEventLog
<1>12. CASE UNCHANGED examplesVars
  BY <1>1, <1>12, RestKeeps DEF examplesVars, guiVars
<1> QED
  BY <1>2, <1>3, <1>4, <1>5, <1>6, <1>7, <1>8, <1>9, <1>10, <1>11, <1>12 DEF GuiNext

\* Whatever devices come and go and whatever is clicked, the tree of controlpointgui is
\* true to the devices, and calls carry the arguments of their actions.
THEOREM TreeIsTrue == ExamplesSpec => []ExamplesTrue
<1>1. GuiInv /\ TvIdle => ExamplesTrue
  <2> SUFFICES ASSUME GuiInv, TvIdle PROVE ExamplesTrue
    OBVIOUS
  <2>1. TvListTrue
    <3>1. DOMAIN <<>> = {}
      BY EmptySeq, LenProperties
    <3>2. [i \in DOMAIN tvs |-> objects[tvs[i]]] = <<>>
      BY <3>1 DEF TvIdle
    <3> QED
      BY <3>1, <3>2 DEF TvIdle, TvListTrue
  <2> QED
    BY <2>1, GuiTells DEF ExamplesTrue
<1> QED
  BY <1>1, GuiStarts, GuiKeeps, PTL DEF ExamplesSpec

-----------------------------------------------------------------------------
(* ExampleControlPoints: the list of TVs *)

LEMMA ShownLess ==
  ASSUME NEW made, NEW list, ListTrue(made, list), NEW j \in DOMAIN list
  PROVE  ShownOf(made, RemoveAt(list, j)) = RemoveAt(ShownOf(made, list), j)
<1> DEFINE n == Len(list)
           shown == ShownOf(made, list)
           less == RemoveAt(list, j)
           kept == RemoveAt(shown, j)
<1>1. list \in Seq(Nat) /\ n \in Nat /\ DOMAIN list = 1..n /\ j \in 1..n
  BY LenProperties DEF ListTrue
<1>2. shown \in Seq(KnownUdn) /\ Len(shown) = n /\ \A i \in 1..n : shown[i] = made[list[i]]
  <2>1. shown \in [1..n -> KnownUdn]
    BY <1>1 DEF ShownOf, ListTrue
  <2>2. \A i \in 1..n : shown[i] = made[list[i]]
    BY <1>1 DEF ShownOf
  <2> HIDE DEF shown
  <2> QED
    BY <1>1, <2>1, <2>2, IsSequence
<1>3. less \in Seq(Nat) /\ Len(less) = n - 1 /\ \A i \in 1 .. n - 1 : less[i] = IF i < j THEN list[i] ELSE list[i + 1]
  BY <1>1, RemoveAtProperties
<1>4. kept \in Seq(KnownUdn) /\ Len(kept) = n - 1 /\ \A i \in 1 .. n - 1 : kept[i] = IF i < j THEN shown[i] ELSE shown[i + 1]
  <2> HIDE DEF shown
  <2>1. j \in 1..Len(shown)
    BY <1>1, <1>2
  <2> QED
    BY <1>2, <2>1, RemoveAtProperties
<1> HIDE DEF shown, less, kept, n
<1>5. DOMAIN less = 1 .. n - 1 /\ DOMAIN kept = 1 .. n - 1
  BY <1>3, <1>4, LenProperties
<1>6. ASSUME NEW i \in 1 .. n - 1
      PROVE  kept[i] = made[less[i]]
  <2>1. i \in 1..n /\ i + 1 \in 1..n
    <3>1. n \in Nat
      BY <1>1
    <3> QED
      BY <3>1
  <2> QED
    BY <1>2, <1>3, <1>4, <2>1
<1>7. kept = [i \in DOMAIN kept |-> kept[i]]
  BY <1>4
<1>8. kept = [i \in DOMAIN less |-> made[less[i]]]
  BY <1>5, <1>6, <1>7
<1> QED
  BY <1>8 DEF ShownOf, kept, less, shown

LEMMA ShownMore ==
  ASSUME NEW made, NEW list, ListTrue(made, list), NEW u \in KnownUdn
  PROVE  ShownOf(Append(made, u), Append(list, Len(made) + 1)) = Append(ShownOf(made, list), u)
<1> DEFINE n == Len(list)
           o == Len(made) + 1
           now == Append(made, u)
           shown == ShownOf(made, list)
           more == Append(list, o)
           all == Append(shown, u)
<1>1. list \in Seq(Nat) /\ n \in Nat /\ DOMAIN list = 1..n /\ o \in Nat
  BY LenProperties DEF ListTrue
<1>2. shown \in Seq(KnownUdn) /\ Len(shown) = n /\ \A i \in 1..n : shown[i] = made[list[i]]
  <2>1. shown \in [1..n -> KnownUdn]
    BY <1>1 DEF ShownOf, ListTrue
  <2>2. \A i \in 1..n : shown[i] = made[list[i]]
    BY <1>1 DEF ShownOf
  <2> HIDE DEF shown
  <2> QED
    BY <1>1, <2>1, <2>2, IsSequence
<1>3. now[o] = u /\ \A p \in DOMAIN made : now[p] = made[p]
  BY ObjectMade
<1>4. \A i \in 1..n : list[i] \in DOMAIN made
  BY <1>1 DEF ListTrue
<1> HIDE DEF o, now, shown
<1>5. more \in Seq(Nat) /\ Len(more) = n + 1 /\ more[n + 1] = o /\ \A i \in 1..n : more[i] = list[i]
  BY <1>1, AppendProperties
<1>6. all \in Seq(KnownUdn) /\ Len(all) = n + 1 /\ all[n + 1] = u /\ \A i \in 1..n : all[i] = shown[i]
  BY <1>2, AppendProperties
<1> HIDE DEF more, all, n
<1>7. DOMAIN more = 1 .. n + 1 /\ DOMAIN all = 1 .. n + 1
  BY <1>5, <1>6, LenProperties
<1>8. ASSUME NEW i \in 1 .. n + 1
      PROVE  all[i] = now[more[i]]
  <2>1. i \in 1..n \/ i = n + 1
    <3>1. n \in Nat
      BY <1>1
    <3> QED
      BY <3>1
  <2> QED
    BY <1>2, <1>3, <1>4, <1>5, <1>6, <2>1
<1>9. all = [i \in DOMAIN all |-> all[i]]
  BY <1>6
<1>10. all = [i \in DOMAIN more |-> now[more[i]]]
  BY <1>7, <1>8, <1>9
<1> QED
  BY <1>10 DEF ShownOf, all, more, shown, now, o

\* Each TV is in the list once, with its newest object, and none that is gone.
TvInv ==
  /\ ListTrue(objects, tvs) /\ UdnsOf(objects, tvs) \subseteq TvUdn \ gone
  /\ ~tvCrashed => tvList = ShownOf(objects, tvs)
  /\ tvCrashed => \E u \in TvUdn : u \in Separated \/ TvOperations \notin ToSet(TypesOf[u])

LEMMA NewKeeps ==
  ASSUME TvInv, NEW u \in KnownUdn \cup {NoUdn}, OnNewDevice(u)
  PROVE  TvInv'
<1> DEFINE o == Len(objects) + 1
<1>1. ~tvCrashed /\ tvCrashed' = tvCrashed /\ objects' = Append(objects, u) /\ gone' = gone \ {u}
  BY DEF OnNewDevice, MakeObject
<1>2. /\ ListTrue(objects, tvs) /\ tvList = ShownOf(objects, tvs)
      /\ UdnsOf(objects, tvs) \subseteq TvUdn \ gone
  BY <1>1 DEF TvInv
<1>3. CASE u \notin TvUdn
  <2>1. tvs' = tvs /\ tvList' = tvList
    BY <1>3 DEF OnNewDevice
  <2>2. u \notin UdnsOf(objects, tvs)
    BY <1>2, <1>3
  <2>3. /\ ListTrue(Append(objects, u), tvs) /\ UdnsOf(Append(objects, u), tvs) = UdnsOf(objects, tvs)
        /\ \A p \in DOMAIN objects : Append(objects, u)[p] = objects[p]
    BY <1>2, <2>2, ObjectMade
  <2>4. ShownOf(Append(objects, u), tvs) = ShownOf(objects, tvs)
    BY <1>2, <2>3 DEF ShownOf, ListTrue
  <2> QED
    BY <1>1, <1>2, <2>1, <2>3, <2>4 DEF TvInv
<1>4. CASE u \in TvUdn /\ DeviceByUdn(tvs, u) # 0
  <2> DEFINE new == ReplaceDevice(tvs, u, o)
  <2>1. tvs' = new /\ tvList' = tvList
    BY <1>4 DEF OnNewDevice
  <2>2. new = [i \in DOMAIN tvs |-> IF objects[tvs[i]] = u THEN Len(objects) + 1 ELSE tvs[i]]
    BY DEF ReplaceDevice
  <2>3. u \in KnownUdn
    BY <1>4, ExamplesAssumption
  <2> HIDE DEF new
  <2>4. /\ ListTrue(Append(objects, u), new) /\ UdnsOf(Append(objects, u), new) = UdnsOf(objects, tvs)
        /\ ShownOf(Append(objects, u), new) = ShownOf(objects, tvs)
    BY <1>2, <2>2, <2>3, ListReplaced
  <2> QED
    BY <1>1, <1>2, <2>1, <2>4 DEF TvInv
<1>5. CASE u \in TvUdn /\ DeviceByUdn(tvs, u) = 0
  <2>1. tvs' = Append(tvs, o) /\ tvList' = Append(tvList, u)
    BY <1>5 DEF OnNewDevice, AddTV
  <2>2. u \in KnownUdn /\ u \notin UdnsOf(objects, tvs)
    BY <1>2, <1>5, ExamplesAssumption, DeviceKnown
  <2>3. /\ ListTrue(Append(objects, u), Append(tvs, o))
        /\ UdnsOf(Append(objects, u), Append(tvs, o)) = UdnsOf(objects, tvs) \cup {u}
        /\ ShownOf(Append(objects, u), Append(tvs, o)) = Append(ShownOf(objects, tvs), u)
    BY <1>2, <2>2, ListMore, ShownMore
  <2> HIDE DEF o
  <2> QED
    BY <1>1, <1>2, <1>5, <2>1, <2>3 DEF TvInv
<1> QED
  BY <1>3, <1>4, <1>5

LEMMA GoodbyeKeeps ==
  ASSUME TvInv, NEW u \in KnownUdn, NEW plain \in BOOLEAN, OnRemovedDevice(u, plain)
  PROVE  TvInv'
<1>1. ~tvCrashed /\ objects' = objects /\ gone' = (IF plain THEN gone \cup {u} ELSE gone)
  BY DEF OnRemovedDevice
<1>2. /\ ListTrue(objects, tvs) /\ tvList = ShownOf(objects, tvs)
      /\ UdnsOf(objects, tvs) \subseteq TvUdn \ gone
  BY <1>1 DEF TvInv
<1>3. CASE plain /\ DeviceByUdn(tvs, u) # 0
  <2>1. PICK k \in DOMAIN tvs : objects[tvs[k]] = u
    BY <1>2, <1>3, DeviceKnown DEF UdnsOf
  <2>2. tvs' = RemoveAt(tvs, k)
    <3>1. tvs' = Forget(tvs, objects[tvs[k]])
      BY <1>3, <2>1 DEF OnRemovedDevice
    <3> QED
      BY <1>2, <3>1, ForgetIs
  <2>3. /\ DOMAIN tvList = DOMAIN tvs /\ tvList[k] = u /\ tvList \in Seq(KnownUdn)
        /\ \A i \in DOMAIN tvList : tvList[i] = u => i = k
    <3>1. DOMAIN tvList = DOMAIN tvs /\ \A i \in DOMAIN tvs : tvList[i] = objects[tvs[i]]
      BY <1>2 DEF ShownOf
    <3>2. tvList \in [DOMAIN tvs -> KnownUdn]
      BY <1>2 DEF ShownOf, ListTrue
    <3>3. Len(tvs) \in Nat /\ DOMAIN tvs = 1..Len(tvs)
      BY <1>2, LenProperties DEF ListTrue
    <3>4. tvList \in Seq(KnownUdn)
      BY <3>2, <3>3, IsSequence
    <3>5. \A i \in DOMAIN tvs : objects[tvs[i]] = objects[tvs[k]] => i = k
      BY <1>2 DEF ListTrue
    <3> QED
      BY <2>1, <3>1, <3>4, <3>5
  <2>4. tvList' = RemoveAt(tvList, k) /\ tvCrashed' = FALSE
    <3>1. tvList' = RemoveFirst(tvList, u) /\ tvCrashed' = (u \notin ToSet(tvList))
      BY <1>3 DEF OnRemovedDevice, RemoveFromList
    <3>2. RemoveFirst(tvList, u) = RemoveAt(tvList, k)
      BY <2>3, RemoveFirstIs
    <3>3. u \in ToSet(tvList)
      BY <2>3 DEF ToSet
    <3> QED
      BY <3>1, <3>2, <3>3
  <2>5. /\ ListTrue(objects, RemoveAt(tvs, k))
        /\ UdnsOf(objects, RemoveAt(tvs, k)) = UdnsOf(objects, tvs) \ {u}
        /\ ShownOf(objects, RemoveAt(tvs, k)) = RemoveAt(ShownOf(objects, tvs), k)
    BY <1>2, <2>1, ListLess, ShownLess
  <2> QED
    BY <1>1, <1>2, <2>2, <2>4, <2>5 DEF TvInv
<1>4. CASE ~(plain /\ DeviceByUdn(tvs, u) # 0)
  <2>1. tvs' = tvs /\ tvList' = tvList /\ tvCrashed' = tvCrashed
    BY <1>4 DEF OnRemovedDevice, tvVars
  <2>2. plain => u \notin UdnsOf(objects, tvs)
    BY <1>2, <1>4, DeviceKnown
  <2> QED
    BY <1>1, <1>2, <2>1, <2>2 DEF TvInv
<1> QED
  BY <1>3, <1>4

LEMMA ButtonKeeps ==
  ASSUME TvInv, NEW i \in DOMAIN tvList, NEW action, PressButton(i, action)
  PROVE  TvInv'
<1> DEFINE u == tvList[i]
           c == DeviceByUdn(tvs, UdnInText(u))
<1>1. /\ ~tvCrashed /\ tvCrashed' = ~HasService(c, TvOperations)
      /\ UNCHANGED <<objects, gone, tvs, tvList>>
  BY DEF PressButton
<1>2. /\ ListTrue(objects, tvs) /\ tvList = ShownOf(objects, tvs)
      /\ UdnsOf(objects, tvs) \subseteq TvUdn \ gone
  BY <1>1 DEF TvInv
<1>3. u \in UdnsOf(objects, tvs) /\ u \in TvUdn /\ u \in KnownUdn
  <2>1. u \in UdnsOf(objects, tvs)
    BY <1>2 DEF ShownOf, UdnsOf
  <2> QED
    BY <1>2, <2>1, ExamplesAssumption
<1>4. u \notin Separated => c # 0 /\ objects[c] = u
  <2> HIDE DEF u
  <2> QED
    BY <1>2, <1>3, DeviceKnown DEF UdnInText
<1>5. tvCrashed' => u \in Separated \/ TvOperations \notin ToSet(TypesOf[u])
  <2> HIDE DEF u, c
  <2> QED
    BY <1>1, <1>4 DEF HasService
<1> HIDE DEF u, c
<1> QED
  BY <1>1, <1>2, <1>3, <1>5 DEF TvInv

LEMMA TvStarts == ExamplesInit => TvInv
<1> SUFFICES ASSUME ExamplesInit PROVE TvInv
  OBVIOUS
<1>1. objects = <<>> /\ gone = {} /\ tvs = <<>> /\ tvList = <<>> /\ tvCrashed = FALSE
  BY DEF ExamplesInit, TvInit
<1>2. \A S : <<>> \in Seq(S) /\ DOMAIN <<>> = {}
  BY EmptySeq, LenProperties
<1>3. ShownOf(objects, tvs) = <<>>
  BY <1>1, <1>2 DEF ShownOf
<1> QED
  BY <1>1, <1>2, <1>3 DEF TvInv, ListTrue, UdnsOf

LEMMA TvKeeps == TvInv /\ [TvNext]_examplesVars => TvInv'
<1> SUFFICES ASSUME TvInv, [TvNext]_examplesVars PROVE TvInv'
  OBVIOUS
<1>1. CASE UNCHANGED examplesVars
  BY <1>1 DEF TvInv, examplesVars, guiVars, tvVars
<1> QED
  BY <1>1, NewKeeps, GoodbyeKeeps, ButtonKeeps DEF TvNext

\* Whatever TVs come and go, TVControlPoint lists them, each with its newest object.
THEOREM TvsAreListed == TvSpec => []TvListTrue
<1>1. TvInv => TvListTrue
  <2> SUFFICES ASSUME TvInv PROVE TvListTrue
    OBVIOUS
  <2>1. \A i \in DOMAIN tvs : NewestObject(objects[tvs[i]], tvs[i])
    BY DEF TvInv, ListTrue, Newest, NewestObject
  <2>2. \A i \in DOMAIN tvs : objects[tvs[i]] \notin gone
    BY DEF TvInv, UdnsOf
  <2> QED
    BY <2>1, <2>2 DEF TvInv, TvListTrue, ShownOf
<1> QED
  BY <1>1, TvStarts, TvKeeps, PTL DEF TvSpec

-----------------------------------------------------------------------------
(* ExampleControlPoints: types *)

\* The first of some elements is taken out, if there is one.
LEMMA LessTyped ==
  ASSUME NEW S, NEW q \in Seq(S), NEW e
  PROVE  RemoveFirst(q, e) \in Seq(S)
<1> DEFINE I == {i \in 1..Len(q) : q[i] = e}
<1>1. Len(q) \in Nat /\ I \in SUBSET (1..Len(q))
  BY LenProperties
<1>2. CASE I # {}
  <2>1. SelectInSeq(q, LAMBDA v : v = e) = Min(I)
    BY <1>2 DEF SelectInSeq
  <2>2. RemoveFirst(q, e) = RemoveAt(q, SelectInSeq(q, LAMBDA v : v = e))
    BY <1>2 DEF RemoveFirst
  <2> HIDE DEF I
  <2>3. Min(I) \in 1..Len(q)
    BY <1>1, <1>2, LeastIsFirst
  <2>4. RemoveAt(q, Min(I)) \in Seq(S)
    BY <2>3, RemoveAtProperties
  <2> QED
    BY <2>1, <2>2, <2>4
<1>3. CASE I = {}
  BY <1>3 DEF RemoveFirst
<1> QED
  BY <1>2, <1>3

\* What is put behind a list of objects, or of rows, is in the longer list of them.
LEMMA StillAmong ==
  ASSUME NEW n \in Nat, NEW q \in Seq(1..n)
  PROVE  q \in Seq(1 .. n + 1) /\ Append(q, n + 1) \in Seq(1 .. n + 1)
<1>1. 1..n \subseteq 1 .. n + 1 /\ n + 1 \in 1 .. n + 1
  OBVIOUS
<1>2. q \in Seq(1 .. n + 1)
  <2>1. Len(q) \in Nat /\ DOMAIN q = 1..Len(q) /\ \A i \in 1..Len(q) : q[i] \in 1 .. n + 1
    BY <1>1, LenProperties
  <2> QED
    BY <2>1
<1> QED
  BY <1>1, <1>2, AppendProperties

\* The states of the loop of removeDevice, whatever was shown before.
ShownDialogs == {"none", "open", "closed"}
AllLoopStates ==
  [i : Nat \ {0}, items : Seq(DOMAIN treeRows), treeRows : [DOMAIN treeRows -> RowSet],
   devices : Seq(DOMAIN objects), doubleClick : BOOLEAN, selection : {selection, <<>>},
   dialog : ShownDialogs, crashed : BOOLEAN]

\* controlpointgui has its types, and while icons are awaited there is a device to add
\* services to, and a row for it.
GuiTyped ==
  /\ objects \in Seq(KnownUdn \cup {NoUdn}) /\ gone \subseteq KnownUdn
  /\ devices \in Seq(DOMAIN objects) /\ awaited \subseteq DOMAIN objects
  /\ treeRows \in Seq(RowSet) /\ items \in Seq(DOMAIN treeRows)
  /\ awaited # {} =>
       /\ currentDev \in DOMAIN objects /\ objects[currentDev] \in KnownUdn
       /\ currentDeviceItem \in DOMAIN treeRows
  /\ dialog \in ShownDialogs /\ doubleClick \in BOOLEAN /\ closeable \in BOOLEAN
  /\ guiCrashed \in BOOLEAN /\ overlapped \in BOOLEAN
  /\ eventToDevice \in Seq(KnownUdn \X DOMAIN ActionsOf)
  /\ eventLog \in Seq(KnownUdn \X DOMAIN ActionsOf) /\ Len(eventLog) <= MaxLogged

LEMMA TurnTyped ==
  ASSUME GuiTyped, NEW u, NEW s \in AllLoopStates
  PROVE  RemoveTurn(s, u) \in AllLoopStates
<1>1. /\ s.i \in Nat \ {0} /\ s.items \in Seq(DOMAIN treeRows) /\ s.treeRows \in [DOMAIN treeRows -> RowSet]
      /\ s.devices \in Seq(DOMAIN objects) /\ s.selection \in {selection, <<>>}
      /\ s.dialog \in ShownDialogs
  BY DEF AllLoopStates
<1>2. s.doubleClick \in BOOLEAN /\ s.crashed \in BOOLEAN /\ closeable \in BOOLEAN
  BY DEF AllLoopStates, GuiTyped
<1>3. s.i + 1 \in Nat \ {0}
  BY <1>1
<1>4. [s EXCEPT !.i = s.i + 1] \in AllLoopStates
  BY <1>3 DEF AllLoopStates
<1>5. [s EXCEPT !.crashed = TRUE] \in AllLoopStates
  BY DEF AllLoopStates
<1>6. ASSUME ~(s.i > Len(s.items))
      PROVE  RemoveItem(s, u) \in AllLoopStates
  <2> DEFINE row == s.items[s.i]
             inside == s.selection # <<>> /\ s.selection[1] = row
             closes == inside /\ Len(s.selection) = 3 /\ closeable
             less == RemoveAt(s.items, s.i)
             rows == [s.treeRows EXCEPT ![row].there = FALSE]
             list == Forget(s.devices, u)
             click == s.doubleClick /\ ~inside
             path == IF inside THEN <<>> ELSE s.selection
             shown == IF closes /\ s.dialog = "open" THEN "closed" ELSE s.dialog
             fails == closes /\ dialog = "none"
  <2>1. s.i \in 1..Len(s.items) /\ row \in DOMAIN treeRows
    BY <1>1, <1>6, LenProperties
  <2>2. less \in Seq(DOMAIN treeRows)
    BY <1>1, <2>1, RemoveAtProperties
  <2>3. rows \in [DOMAIN treeRows -> RowSet]
    <3>1. [s.treeRows[row] EXCEPT !.there = FALSE] \in RowSet
      BY <1>1, <2>1 DEF RowSet
    <3> HIDE DEF row
    <3> QED
      BY <1>1, <2>1, <3>1
  <2>4. list \in Seq(DOMAIN objects)
    BY <1>1, LessTyped DEF Forget
  <2>5. click \in BOOLEAN /\ fails \in BOOLEAN
    BY <1>2
  <2>6. path \in {selection, <<>>} /\ shown \in ShownDialogs
    BY <1>1 DEF ShownDialogs
  <2>7. RemoveItem(s, u) = LoopState(s.i + 1, less, rows, list, click, path, shown, fails)
    BY DEF RemoveItem, LoopState
  <2> HIDE DEF row, inside, closes, less, rows, list, click, path, shown, fails
  <2> QED
    BY <1>3, <2>2, <2>3, <2>4, <2>5, <2>6, <2>7 DEF LoopState, AllLoopStates
<1> QED
  BY <1>4, <1>5, <1>6 DEF RemoveTurn

LEMMA SweepTyped ==
  ASSUME GuiTyped, NEW u
  PROVE  SweepItems(u) \in AllLoopStates
<1>1. Len(items) \in Nat /\ Len(treeRows) \in Nat /\ DOMAIN treeRows = 1..Len(treeRows) /\ items \in Seq(Nat)
  <2>1. Len(treeRows) \in Nat /\ DOMAIN treeRows = 1..Len(treeRows)
    BY LenProperties DEF GuiTyped
  <2>2. Len(items) \in Nat /\ DOMAIN items = 1..Len(items) /\ \A i \in 1..Len(items) : items[i] \in Nat
    BY <2>1, LenProperties DEF GuiTyped
  <2>3. items \in Seq(DOMAIN treeRows)
    BY DEF GuiTyped
  <2> QED
    BY <2>1, <2>2, <2>3
<1>2. LookedAt(0) \in AllLoopStates
  <2>1. treeRows \in [DOMAIN treeRows -> RowSet]
    BY <1>1 DEF GuiTyped
  <2>2. 0 + 1 \in Nat \ {0}
    OBVIOUS
  <2> QED
    BY <2>1, <2>2 DEF LookedAt, LoopState, AllLoopStates, GuiTyped
<1>3. \A x \in AllLoopStates : RemoveTurn(x, u) \in AllLoopStates
  BY TurnTyped
<1>4. RunsTo(AllLoopStates, u, SweepItems(u))
  BY <1>1, <1>2, <1>3, LoopRuns
<1> QED
  BY <1>1, <1>4 DEF RunsTo

\* Rows stay rows when services are put under one, and so do subscriptions.
LEMMA ServicesTyped ==
  ASSUME NEW rows \in Seq(RowSet), NEW row \in DOMAIN rows, NEW u \in KnownUdn,
         NEW told \in Seq(KnownUdn \X DOMAIN ActionsOf)
  PROVE  /\ WithServices(rows, row, u) \in Seq(RowSet)
         /\ DOMAIN WithServices(rows, row, u) = DOMAIN rows
         /\ told \o [i \in DOMAIN TypesOf[u] |-> <<u, TypesOf[u][i]>>] \in Seq(KnownUdn \X DOMAIN ActionsOf)
<1>1. TypesOf[u] \in Seq(DOMAIN ActionsOf)
  BY ExamplesAssumption
<1>2. rows[row] \in RowSet /\ rows[row].types \in Seq(DOMAIN ActionsOf)
  <2>1. rows[row] \in RowSet
    OBVIOUS
  <2> QED
    BY <2>1 DEF RowSet
<1>3. rows[row].types \o TypesOf[u] \in Seq(DOMAIN ActionsOf)
  BY <1>1, <1>2, ConcatProperties
<1>4. [rows[row] EXCEPT !.types = rows[row].types \o TypesOf[u]] \in RowSet
  BY <1>2, <1>3 DEF RowSet
<1>5. WithServices(rows, row, u) \in Seq(RowSet) /\ DOMAIN WithServices(rows, row, u) = DOMAIN rows
  BY <1>4 DEF WithServices
<1>6. told \o [i \in DOMAIN TypesOf[u] |-> <<u, TypesOf[u][i]>>] \in Seq(KnownUdn \X DOMAIN ActionsOf)
  <2> DEFINE types == TypesOf[u]
             made == [i \in DOMAIN types |-> <<u, types[i]>>]
  <2>1. Len(types) \in Nat /\ DOMAIN types = 1..Len(types) /\ \A i \in 1..Len(types) : types[i] \in DOMAIN ActionsOf
    BY <1>1, LenProperties
  <2> HIDE DEF types
  <2>2. made \in [1..Len(types) -> KnownUdn \X DOMAIN ActionsOf]
    BY <2>1
  <2> HIDE DEF made
  <2>3. made \in Seq(KnownUdn \X DOMAIN ActionsOf)
    BY <2>1, <2>2, IsSequence
  <2>4. told \o made \in Seq(KnownUdn \X DOMAIN ActionsOf)
    BY <2>3, ConcatProperties
  <2> QED
    BY <2>4 DEF made, types
<1> QED
  BY <1>5, <1>6

LEMMA FoundTyped ==
  ASSUME GuiTyped, NEW u \in KnownUdn \cup {NoUdn}, DeviceFoundDump(u)
  PROVE  GuiTyped'
<1> DEFINE n == Len(objects)
           o == n + 1
           listed == DeviceByUdn(devices, u) # 0
           rows == WithRow(treeRows, u)
           m == Len(treeRows)
<1>1. /\ n \in Nat /\ DOMAIN objects = 1..n /\ m \in Nat /\ DOMAIN treeRows = 1..m
      /\ objects' = Append(objects, u) /\ gone' = gone \ {u}
  BY LenProperties DEF GuiTyped, DeviceFoundDump, MakeObject
<1>2. /\ objects' \in Seq(KnownUdn \cup {NoUdn}) /\ DOMAIN objects' = 1..o /\ gone' \subseteq KnownUdn
      /\ objects'[o] = u /\ \A p \in 1..n : objects'[p] = objects[p]
  <2>1. objects \in Seq(KnownUdn \cup {NoUdn})
    BY DEF GuiTyped
  <2>2. /\ Append(objects, u) \in Seq(KnownUdn \cup {NoUdn}) /\ Len(Append(objects, u)) = o
        /\ Append(objects, u)[o] = u /\ \A p \in 1..n : Append(objects, u)[p] = objects[p]
    BY <2>1, AppendProperties
  <2> QED
    BY <1>1, <2>2, LenProperties DEF GuiTyped
<1> HIDE DEF n, m
<1>3. 1..n \subseteq 1..o /\ o \in 1..o /\ 1..m \subseteq 1 .. m + 1 /\ m + 1 \in 1 .. m + 1
  BY <1>1
<1>4. devices' \in Seq(1..o)
  <2>0. devices \in Seq(1..n)
    BY <1>1 DEF GuiTyped
  <2>1. devices \in Seq(1..o) /\ Append(devices, o) \in Seq(1..o)
    BY <1>1, <2>0, StillAmong
  <2>2. ReplaceDevice(devices, u, o) \in Seq(1..o)
    <3>1. /\ Len(devices) \in Nat /\ DOMAIN devices = 1..Len(devices)
          /\ \A i \in DOMAIN devices : devices[i] \in 1..o
      BY <2>1, LenProperties
    <3> HIDE DEF o
    <3>2. ReplaceDevice(devices, u, o) \in [1..Len(devices) -> 1..o]
      BY <1>3, <3>1 DEF ReplaceDevice
    <3> QED
      BY <3>1, <3>2, IsSequence
  <2>3. devices' = (IF u = NoUdn THEN devices
                    ELSE IF listed THEN ReplaceDevice(devices, u, o) ELSE Append(devices, o))
    BY DEF DeviceFoundDump, n
  <2> QED
    BY <2>1, <2>2, <2>3
<1>5. /\ UNCHANGED <<dialog, doubleClick, closeable, guiCrashed, eventLog>>
  BY DEF DeviceFoundDump, clickVars
<1> HIDE DEF o
<1>6. CASE u = NoUdn \/ listed
  <2>1. UNCHANGED <<awaited, currentDev, currentDeviceItem, treeRows, items, overlapped, eventToDevice>>
    BY <1>6 DEF DeviceFoundDump
  <2> HIDE DEF listed
  <2>2. awaited' \subseteq DOMAIN objects'
    BY <1>1, <1>2, <1>3, <2>1 DEF GuiTyped
  <2>3. awaited' # {} =>
          /\ currentDev' \in DOMAIN objects' /\ objects'[currentDev'] \in KnownUdn
          /\ currentDeviceItem' \in DOMAIN treeRows'
    BY <1>1, <1>2, <1>3, <2>1 DEF GuiTyped
  <2> QED
    BY <1>2, <1>4, <1>5, <2>1, <2>2, <2>3 DEF GuiTyped
<1>7. CASE ~(u = NoUdn \/ listed)
  <2>1. /\ u \in KnownUdn /\ currentDev' = o /\ CreateDeviceItem(o, u)
        /\ overlapped' = (overlapped \/ awaited # {})
    BY <1>7 DEF DeviceFoundDump, o, n
  <2> HIDE DEF listed
  <2>2. /\ rows \in Seq(RowSet) /\ Len(rows) = m + 1
    <3> DEFINE row == [udn |-> u, types |-> <<>>, there |-> TRUE]
    <3>1. row \in RowSet
      BY <2>1 DEF RowSet
    <3>2. rows = Append(treeRows, row) /\ treeRows \in Seq(RowSet)
      BY DEF WithRow, GuiTyped
    <3> HIDE DEF row, rows
    <3> QED
      BY <3>1, <3>2, AppendProperties DEF m
  <2>3. DOMAIN rows = 1 .. m + 1 /\ currentDeviceItem' = m + 1
    <3>1. currentDeviceItem' = Len(rows)
      BY <2>1 DEF CreateDeviceItem, WithRow
    <3> QED
      BY <2>2, <3>1, LenProperties
  <2>4. items \in Seq(1 .. m + 1) /\ Append(items, m + 1) \in Seq(1 .. m + 1)
    BY <1>1, StillAmong DEF GuiTyped
  <2>5. /\ treeRows' \in Seq(RowSet) /\ DOMAIN treeRows' = 1 .. m + 1 /\ items' \in Seq(1 .. m + 1)
        /\ eventToDevice' \in Seq(KnownUdn \X DOMAIN ActionsOf)
        /\ awaited' \subseteq awaited \cup {o}
    <3>1. CASE u \in WithIcons
      <4>1. awaited' = awaited \cup {o} /\ treeRows' = rows /\ UNCHANGED <<items, eventToDevice>>
        BY <2>1, <3>1 DEF CreateDeviceItem, WithRow
      <4> QED
        BY <2>2, <2>3, <2>4, <4>1 DEF GuiTyped
    <3>2. CASE u \notin WithIcons
      <4>1. AddItem(rows, Len(rows), u) /\ awaited' = awaited
        BY <2>1, <3>2 DEF CreateDeviceItem, WithRow
      <4>2. /\ items' = Append(items, m + 1) /\ treeRows' = WithServices(rows, m + 1, u)
            /\ eventToDevice' = eventToDevice \o [i \in DOMAIN TypesOf[u] |-> <<u, TypesOf[u][i]>>]
        BY <2>2, <4>1 DEF AddItem, WithServices
      <4>3. /\ WithServices(rows, m + 1, u) \in Seq(RowSet) /\ DOMAIN WithServices(rows, m + 1, u) = DOMAIN rows
            /\ eventToDevice \o [i \in DOMAIN TypesOf[u] |-> <<u, TypesOf[u][i]>>]
                 \in Seq(KnownUdn \X DOMAIN ActionsOf)
        <5>1. m + 1 \in DOMAIN rows /\ eventToDevice \in Seq(KnownUdn \X DOMAIN ActionsOf)
          BY <1>3, <2>3 DEF GuiTyped
        <5> HIDE DEF rows
        <5> QED
          BY <2>1, <2>2, <5>1, ServicesTyped
      <4> QED
        BY <2>3, <2>4, <4>1, <4>2, <4>3
    <3> QED
      BY <3>1, <3>2
  <2>6. awaited' \subseteq DOMAIN objects'
    BY <1>1, <1>2, <1>3, <2>5 DEF GuiTyped
  <2>7. /\ currentDev' \in DOMAIN objects' /\ objects'[currentDev'] \in KnownUdn
        /\ currentDeviceItem' \in DOMAIN treeRows'
    BY <1>2, <1>3, <2>1, <2>3, <2>5
  <2>8. overlapped' \in BOOLEAN
    BY <2>1
  <2> HIDE DEF rows
  <2> QED
    BY <1>2, <1>4, <1>5, <2>5, <2>6, <2>7, <2>8 DEF GuiTyped
<1> QED
  BY <1>6, <1>7

LEMMA IconsTyped ==
  ASSUME GuiTyped, NEW o \in awaited, OnReadyDownloadIcons(o)
  PROVE  GuiTyped'
<1> DEFINE u == objects[currentDev]
           row == currentDeviceItem
<1>1. /\ currentDev \in DOMAIN objects /\ u \in KnownUdn /\ row \in DOMAIN treeRows
      /\ treeRows \in Seq(RowSet) /\ eventToDevice \in Seq(KnownUdn \X DOMAIN ActionsOf)
      /\ items \in Seq(DOMAIN treeRows)
  BY DEF GuiTyped
<1>2. /\ awaited' = awaited \ {o} /\ guiCrashed' \in BOOLEAN
      /\ UNCHANGED <<objects, gone, devices, currentDev, currentDeviceItem, overlapped,
                     dialog, doubleClick, closeable, eventLog>>
  BY DEF OnReadyDownloadIcons, clickVars
<1>3. /\ treeRows' \in Seq(RowSet) /\ DOMAIN treeRows' = DOMAIN treeRows
      /\ items' \in Seq(DOMAIN treeRows) /\ eventToDevice' \in Seq(KnownUdn \X DOMAIN ActionsOf)
  <2>1. CASE treeRows[row].there
    <3>1. /\ items' = Append(items, row) /\ treeRows' = WithServices(treeRows, row, u)
          /\ eventToDevice' = eventToDevice \o [i \in DOMAIN TypesOf[u] |-> <<u, TypesOf[u][i]>>]
      BY <2>1 DEF OnReadyDownloadIcons, AddItem, WithServices
    <3>2. Append(items, row) \in Seq(DOMAIN treeRows)
      BY <1>1, AppendProperties
    <3> HIDE DEF u, row
    <3> QED
      BY <1>1, <3>1, <3>2, ServicesTyped
  <2>2. CASE ~treeRows[row].there
    BY <1>1, <2>2 DEF OnReadyDownloadIcons
  <2> QED
    BY <2>1, <2>2
<1> QED
  BY <1>1, <1>2, <1>3 DEF GuiTyped

LEMMA RemoveTyped ==
  ASSUME GuiTyped, NEW u \in KnownUdn, RemoveDevice(u)
  PROVE  GuiTyped'
<1> DEFINE s == SweepItems(u)
<1>1. /\ gone' = gone \cup {u} /\ overlapped' = (overlapped \/ \E o \in awaited : objects[o] = u)
      /\ items' = s.items /\ treeRows' = s.treeRows /\ devices' = s.devices
      /\ doubleClick' = s.doubleClick /\ dialog' = s.dialog /\ guiCrashed' = s.crashed
      /\ UNCHANGED <<objects, awaited, currentDev, currentDeviceItem, closeable, eventToDevice, eventLog>>
  BY DEF RemoveDevice, logVars
<1>2. s \in AllLoopStates
  BY SweepTyped
<1> HIDE DEF s
<1>3. /\ items' \in Seq(DOMAIN treeRows) /\ treeRows' \in [DOMAIN treeRows -> RowSet]
      /\ devices' \in Seq(DOMAIN objects) /\ dialog' \in ShownDialogs
  BY <1>1, <1>2 DEF AllLoopStates
<1>4. doubleClick' \in BOOLEAN /\ guiCrashed' \in BOOLEAN /\ overlapped' \in BOOLEAN
  BY <1>1, <1>2 DEF AllLoopStates
<1>5. treeRows' \in Seq(RowSet) /\ DOMAIN treeRows' = DOMAIN treeRows
  <2>1. Len(treeRows) \in Nat /\ DOMAIN treeRows = 1..Len(treeRows)
    BY LenProperties DEF GuiTyped
  <2> QED
    BY <1>3, <2>1, IsSequence
<1> QED
  BY <1>1, <1>3, <1>4, <1>5 DEF GuiTyped

\* Whatever devices come and go and whatever is clicked, controlpointgui has its types.
THEOREM ExamplesTypes == ExamplesSpec => []ExamplesTypeOK
<1>1. ExamplesInit => GuiTyped /\ TvIdle
  <2> SUFFICES ASSUME ExamplesInit PROVE GuiTyped /\ TvIdle
    OBVIOUS
  <2>1. TvIdle
    BY DEF ExamplesInit, TvInit, TvIdle
  <2>2. \A S : <<>> \in Seq(S) /\ Len(<<>>) = 0
    BY EmptySeq
  <2>3. /\ objects = <<>> /\ gone = {} /\ devices = <<>> /\ awaited = {} /\ treeRows = <<>> /\ items = <<>>
        /\ dialog = "none" /\ eventToDevice = <<>> /\ eventLog = <<>>
    BY DEF ExamplesInit
  <2>4. doubleClick \in BOOLEAN /\ closeable \in BOOLEAN /\ guiCrashed \in BOOLEAN /\ overlapped \in BOOLEAN
    BY DEF ExamplesInit
  <2>5. 0 <= MaxLogged
    BY ExamplesAssumption
  <2> QED
    BY <2>1, <2>2, <2>3, <2>4, <2>5 DEF GuiTyped, ShownDialogs
<1>2. GuiTyped /\ TvIdle => ExamplesTypeOK
  <2> SUFFICES ASSUME GuiTyped, TvIdle PROVE ExamplesTypeOK
    OBVIOUS
  <2>1. ToSet(devices) \subseteq DOMAIN objects /\ ToSet(items) \subseteq DOMAIN treeRows
    <3>1. \A S : \A q \in Seq(S) : \A i \in DOMAIN q : q[i] \in S
      BY LenProperties
    <3> QED
      BY <3>1 DEF GuiTyped, ToSet
  <2>2. ToSet(tvs) = {} /\ ToSet(tvList) = {}
    BY DEF TvIdle, ToSet
  <2>3. \A r \in DOMAIN treeRows : treeRows[r].udn \in KnownUdn /\ treeRows[r].there \in BOOLEAN
    <3>1. \A r \in DOMAIN treeRows : treeRows[r] \in RowSet
      BY DEF GuiTyped
    <3> QED
      BY <3>1 DEF RowSet
  <2>4. {doubleClick, closeable, guiCrashed, overlapped, tvCrashed} \subseteq BOOLEAN
    BY DEF GuiTyped, TvIdle
  <2> QED
    BY <2>1, <2>2, <2>3, <2>4 DEF GuiTyped, ExamplesTypeOK, ShownDialogs
<1>3. GuiTyped /\ TvIdle /\ [GuiNext]_examplesVars => GuiTyped' /\ TvIdle'
  <2> SUFFICES ASSUME GuiTyped, TvIdle, [GuiNext]_examplesVars PROVE GuiTyped' /\ TvIdle'
    OBVIOUS
  <2>0. ASSUME UNCHANGED tvVars PROVE TvIdle'
    BY <2>0 DEF TvIdle, tvVars
  <2> DEFINE Rest == <<objects, gone, treeVars, eventToDevice>>
  <2>1. ASSUME UNCHANGED Rest, dialog' \in ShownDialogs, doubleClick' \in BOOLEAN,
               closeable' \in BOOLEAN, guiCrashed' \in BOOLEAN,
               eventLog' \in Seq(KnownUdn \X DOMAIN ActionsOf), Len(eventLog') <= MaxLogged
        PROVE  GuiTyped'
    BY <2>1 DEF GuiTyped, treeVars
  <2>2. /\ dialog \in ShownDialogs /\ "open" \in ShownDialogs /\ "closed" \in ShownDialogs
        /\ eventLog \in Seq(KnownUdn \X DOMAIN ActionsOf) /\ Len(eventLog) <= MaxLogged
    BY DEF GuiTyped, ShownDialogs
  <2>3. doubleClick \in BOOLEAN /\ closeable \in BOOLEAN /\ guiCrashed \in BOOLEAN
    BY DEF GuiTyped
  <2>4. ASSUME NEW u \in KnownUdn \cup {NoUdn}, DeviceFoundDump(u) PROVE GuiTyped' /\ TvIdle'
    BY <2>0, <2>4, FoundTyped DEF DeviceFoundDump
  <2>5. ASSUME NEW o \in awaited, OnReadyDownloadIcons(o) PROVE GuiTyped' /\ TvIdle'
    BY <2>0, <2>5, IconsTyped DEF OnReadyDownloadIcons
  <2>6. ASSUME NEW u \in KnownUdn, RemoveDevice(u) PROVE GuiTyped' /\ TvIdle'
    BY <2>0, <2>6, RemoveTyped DEF RemoveDevice
  <2>7. CASE ExpandItems
    <3>1. guiCrashed' \in BOOLEAN
      BY <2>7 DEF ExpandItems
    <3>2. UNCHANGED <<objects, gone, treeVars, clickVars, logVars, tvVars>>
      BY <2>7 DEF ExpandItems
    <3> QED
      BY <2>0, <2>1, <2>2, <2>3, <3>1, <3>2 DEF clickVars, logVars
  <2>8. ASSUME NEW path \in PathsShown, LineEnabled(path) PROVE GuiTyped' /\ TvIdle'
    <3>1. doubleClick' \in BOOLEAN
      BY <2>8 DEF LineEnabled
    <3>2. UNCHANGED <<objects, gone, treeVars, dialog, closeable, logVars, guiCrashed, tvVars>>
      BY <2>8 DEF LineEnabled
    <3> QED
      BY <2>0, <2>1, <2>2, <2>3, <3>1, <3>2 DEF logVars
  <2>9. CASE OpenDialog
    <3>1. closeable' \in BOOLEAN /\ guiCrashed' \in BOOLEAN
      BY <2>9 DEF OpenDialog, MountControlDialog
    <3>2. dialog' \in ShownDialogs
      BY <2>2, <2>9 DEF OpenDialog, MountControlDialog
    <3>3. UNCHANGED <<objects, gone, treeVars, doubleClick, logVars, tvVars>>
      BY <2>9 DEF OpenDialog
    <3> QED
      BY <2>0, <2>1, <2>2, <2>3, <3>1, <3>2, <3>3 DEF logVars
  <2>10. CASE CallMethod
    <3>1. guiCrashed' \in BOOLEAN
      BY <2>10 DEF CallMethod
    <3>2. UNCHANGED <<objects, gone, treeVars, doubleClick, dialog, closeable, logVars, tvVars>>
      BY <2>10 DEF CallMethod
    <3> QED
      BY <2>0, <2>1, <2>2, <2>3, <3>1, <3>2 DEF logVars
  <2>11. CASE CloseDialog
    <3>1. dialog' = "closed" /\ UNCHANGED <<objects, gone, treeVars, doubleClick, closeable, logVars, guiCrashed, tvVars>>
      BY <2>11 DEF CloseDialog
    <3> QED
      BY <2>0, <2>1, <2>2, <2>3, <3>1 DEF logVars
  <2>12. ASSUME NEW id \in DOMAIN eventToDevice, ChangeEventLog(id) PROVE GuiTyped' /\ TvIdle'
    <3>1. /\ Len(eventLog) < MaxLogged /\ eventLog' = Append(eventLog, eventToDevice[id])
          /\ UNCHANGED <<objects, gone, treeVars, clickVars, eventToDevice, guiCrashed, tvVars>>
      BY <2>12 DEF ChangeEventLog
    <3>2. eventToDevice[id] \in KnownUdn \X DOMAIN ActionsOf
      BY DEF GuiTyped
    <3>3. eventLog' \in Seq(KnownUdn \X DOMAIN ActionsOf) /\ Len(eventLog') = Len(eventLog) + 1
      BY <2>2, <3>1, <3>2, AppendProperties
    <3>4. Len(eventLog') <= MaxLogged
      <4>1. Len(eventLog) \in Nat /\ MaxLogged \in Nat
        BY <2>2, LenProperties, ExamplesAssumption
      <4> QED
        BY <3>1, <3>3, <4>1
    <3> QED
      BY <2>0, <2>1, <2>2, <2>3, <3>1, <3>3, <3>4 DEF clickVars
  <2>13. CASE ClearEventLog
    <3>1. /\ eventLog' = <<>>
          /\ UNCHANGED <<objects, gone, treeVars, clickVars, eventToDevice, guiCrashed, tvVars>>
      BY <2>13 DEF ClearEventLog
    <3>2. eventLog' \in Seq(KnownUdn \X DOMAIN ActionsOf) /\ Len(eventLog') <= MaxLogged
      BY <3>1, EmptySeq, ExamplesAssumption
    <3> QED
      BY <2>0, <2>1, <2>2, <2>3, <3>1, <3>2 DEF clickVars
  <2>14. CASE UNCHANGED examplesVars
    BY <2>0, <2>1, <2>2, <2>3, <2>14 DEF examplesVars, guiVars, clickVars, logVars
  <2> QED
    BY <2>4, <2>5, <2>6, <2>7, <2>8, <2>9, <2>10, <2>11, <2>12, <2>13, <2>14 DEF GuiNext
<1> QED
  BY <1>1, <1>2, <1>3, PTL DEF ExamplesSpec

\* The variables of controlpointgui when TVControlPoint runs.
GuiIdle ==
  /\ devices = <<>> /\ awaited = {} /\ treeRows = <<>> /\ items = <<>> /\ dialog = "none"
  /\ doubleClick \in BOOLEAN /\ closeable \in BOOLEAN /\ guiCrashed \in BOOLEAN /\ overlapped \in BOOLEAN
  /\ eventLog = <<>>
TvTyped ==
  /\ objects \in Seq(KnownUdn \cup {NoUdn}) /\ gone \subseteq KnownUdn
  /\ tvs \in Seq(DOMAIN objects) /\ tvList \in Seq(KnownUdn) /\ tvCrashed \in BOOLEAN

\* Whatever TVs come and go, TVControlPoint has its types, also when it has crashed.
THEOREM TvTypes == TvSpec => []ExamplesTypeOK
<1>1. ExamplesInit => TvTyped /\ GuiIdle
  <2> SUFFICES ASSUME ExamplesInit PROVE TvTyped /\ GuiIdle
    OBVIOUS
  <2>1. \A S : <<>> \in Seq(S)
    BY EmptySeq
  <2>2. TvTyped
    BY <2>1 DEF ExamplesInit, TvInit, TvTyped
  <2> QED
    BY <2>2 DEF ExamplesInit, GuiIdle
<1>2. TvTyped /\ GuiIdle => ExamplesTypeOK
  <2> SUFFICES ASSUME TvTyped, GuiIdle PROVE ExamplesTypeOK
    OBVIOUS
  <2>1. ToSet(tvs) \subseteq DOMAIN objects /\ ToSet(tvList) \subseteq KnownUdn
    <3>1. \A S : \A q \in Seq(S) : \A i \in DOMAIN q : q[i] \in S
      BY LenProperties
    <3> QED
      BY <3>1 DEF TvTyped, ToSet
  <2>2. ToSet(devices) = {} /\ ToSet(items) = {} /\ DOMAIN treeRows = {} /\ awaited = {}
    BY DEF GuiIdle, ToSet
  <2>3. {doubleClick, closeable, guiCrashed, overlapped, tvCrashed} \subseteq BOOLEAN
    BY DEF GuiIdle, TvTyped
  <2>4. Len(eventLog) <= MaxLogged
    BY ExamplesAssumption, EmptySeq DEF GuiIdle
  <2> QED
    BY <2>1, <2>2, <2>3, <2>4 DEF TvTyped, GuiIdle, ExamplesTypeOK
<1>3. TvTyped /\ GuiIdle /\ [TvNext]_examplesVars => TvTyped' /\ GuiIdle'
  <2> SUFFICES ASSUME TvTyped, GuiIdle, [TvNext]_examplesVars PROVE TvTyped' /\ GuiIdle'
    OBVIOUS
  <2> DEFINE Rest == <<treeVars, dialog, doubleClick, closeable, logVars, guiCrashed>>
  <2>0. ASSUME UNCHANGED Rest PROVE GuiIdle'
    BY <2>0 DEF GuiIdle, treeVars, logVars
  <2>1. ASSUME NEW u \in KnownUdn \cup {NoUdn}, OnNewDevice(u) PROVE TvTyped' /\ GuiIdle'
    <3> DEFINE n == Len(objects)
               o == n + 1
    <3>1. /\ n \in Nat /\ DOMAIN objects = 1..n /\ objects' = Append(objects, u) /\ gone' = gone \ {u}
          /\ tvCrashed' = tvCrashed /\ UNCHANGED Rest
      BY <2>1, LenProperties DEF TvTyped, OnNewDevice, MakeObject, clickVars
    <3>2. objects' \in Seq(KnownUdn \cup {NoUdn}) /\ DOMAIN objects' = 1..o
      <4>1. objects \in Seq(KnownUdn \cup {NoUdn})
        BY DEF TvTyped
      <4>2. Append(objects, u) \in Seq(KnownUdn \cup {NoUdn}) /\ Len(Append(objects, u)) = o
        BY <4>1, AppendProperties
      <4> QED
        BY <3>1, <4>2, LenProperties
    <3>3. \/ tvs' = tvs /\ tvList' = tvList
          \/ tvs' = ReplaceDevice(tvs, u, o) /\ tvList' = tvList
          \/ tvs' = Append(tvs, o) /\ tvList' = Append(tvList, u) /\ u \in TvUdn
      <4> DEFINE listed == DeviceByUdn(tvs, u) # 0
      <4>1. IF u \notin TvUdn THEN UNCHANGED <<tvs, tvList>>
            ELSE IF listed THEN tvs' = ReplaceDevice(tvs, u, o) /\ tvList' = tvList
            ELSE tvs' = Append(tvs, o) /\ AddTV(u)
        BY <2>1 DEF OnNewDevice
      <4> HIDE DEF listed, o
      <4> QED
        BY <4>1 DEF AddTV
    <3>4. tvs' \in Seq(1..o)
      <4> HIDE DEF n
      <4>1. tvs \in Seq(1..n)
        BY <3>1 DEF TvTyped
      <4>2. tvs \in Seq(1..o) /\ Append(tvs, o) \in Seq(1..o)
        BY <3>1, <4>1, StillAmong
      <4>3. ReplaceDevice(tvs, u, o) \in Seq(1..o)
        <5>1. Len(tvs) \in Nat /\ DOMAIN tvs = 1..Len(tvs) /\ \A i \in DOMAIN tvs : tvs[i] \in 1..o
          BY <4>2, LenProperties
        <5>2. o \in 1..o
          BY <3>1
        <5> HIDE DEF o
        <5>3. ReplaceDevice(tvs, u, o) \in [1..Len(tvs) -> 1..o]
          BY <5>1, <5>2 DEF ReplaceDevice
        <5> QED
          BY <5>1, <5>3, IsSequence
      <4> QED
        BY <3>3, <4>2, <4>3
    <3>5. tvList' \in Seq(KnownUdn)
      <4>1. u \in TvUdn => Append(tvList, u) \in Seq(KnownUdn)
        BY AppendProperties, ExamplesAssumption DEF TvTyped
      <4> QED
        BY <3>3, <4>1 DEF TvTyped
    <3> HIDE DEF o, n
    <3> QED
      BY <2>0, <3>1, <3>2, <3>4, <3>5 DEF TvTyped
  <2>2. ASSUME NEW u \in KnownUdn, NEW plain \in BOOLEAN, OnRemovedDevice(u, plain)
        PROVE  TvTyped' /\ GuiIdle'
    <3>1. objects' = objects /\ gone' = (IF plain THEN gone \cup {u} ELSE gone) /\ UNCHANGED Rest
      BY <2>2 DEF OnRemovedDevice, clickVars
    <3>2. CASE plain /\ DeviceByUdn(tvs, u) # 0
      <4>1. /\ tvs' = RemoveFirst(tvs, DeviceByUdn(tvs, u)) /\ tvList' = RemoveFirst(tvList, u)
            /\ tvCrashed' = (u \notin ToSet(tvList))
        BY <2>2, <3>2 DEF OnRemovedDevice, Forget, RemoveFromList
      <4>2. tvs' \in Seq(DOMAIN objects) /\ tvList' \in Seq(KnownUdn)
        BY <4>1, LessTyped DEF TvTyped
      <4> QED
        BY <2>0, <3>1, <4>1, <4>2 DEF TvTyped
    <3>3. CASE ~(plain /\ DeviceByUdn(tvs, u) # 0)
      <4>1. UNCHANGED tvVars
        BY <2>2, <3>3 DEF OnRemovedDevice
      <4> QED
        BY <2>0, <3>1, <4>1 DEF TvTyped, tvVars
    <3> QED
      BY <3>2, <3>3
  <2>3. ASSUME NEW i \in DOMAIN tvList, NEW action, PressButton(i, action) PROVE TvTyped' /\ GuiIdle'
    <3>1. UNCHANGED <<objects, gone, tvs, tvList, Rest>>
      BY <2>3 DEF PressButton
    <3>2. tvCrashed' \in BOOLEAN
      BY <2>3 DEF PressButton
    <3> QED
      BY <2>0, <3>1, <3>2 DEF TvTyped
  <2>4. CASE UNCHANGED examplesVars
    BY <2>0, <2>4 DEF TvTyped, examplesVars, guiVars, clickVars, tvVars
  <2> QED
    BY <2>1, <2>2, <2>3, <2>4 DEF TvNext
<1> QED
  BY <1>1, <1>2, <1>3, PTL DEF TvSpec

=============================================================================
