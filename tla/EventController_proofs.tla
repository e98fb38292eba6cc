----------------------- MODULE EventController_proofs -----------------------
(***************************************************************************)
(* Proofs about EventController, for every set of SIDs, variables, values  *)
(* and timeouts.                                                           *)
(***************************************************************************)
EXTENDS EventController, Induction_proofs, SequenceTheorems, FiniteSetTheorems, TLAPS

-----------------------------------------------------------------------------
(* Lemmas about lists *)

\* A function on the positions of a list, with values in S, is a list over S.
LEMMA SeqByIndex ==
  ASSUME NEW S, NEW T, NEW q \in Seq(T), NEW p \in [DOMAIN q -> S]
  PROVE  /\ p \in Seq(S)
         /\ Len(p) = Len(q)
         /\ DOMAIN p = DOMAIN q
<1>1. Len(q) \in Nat /\ DOMAIN q = 1..Len(q)
  BY LenProperties
<1>2. p \in Seq(S)
  BY <1>1, SeqDef
<1> QED
  BY <1>1, <1>2, LenProperties

-----------------------------------------------------------------------------
(* Lemmas about subscriptions *)

LEMMA RenewedType ==
  ASSUME NEW sub \in Subscription, NEW secs \in Seconds \cup {0}
  PROVE  /\ Renewed(sub, secs) \in Subscription
         /\ Renewed(sub, secs).sid = sub.sid
         /\ Renewed(sub, secs).lastSeq = sub.lastSeq
         /\ Renewed(sub, secs).firstMessageSent = sub.firstMessageSent
<1>1. 0 \in 0..MaxAge
  BY TimeAssumption
<1> QED
  BY <1>1 DEF Renewed, Subscription

\* getNextSeq returns the key that follows the last one, stays within 32 bits,
\* and leaves the subscription remembering it.
LEMMA NextSeqProperties ==
  ASSUME NEW sub \in Subscription, sub.firstMessageSent
  PROVE  /\ AfterNextSeq(sub) \in Subscription
         /\ NextSeq(sub) \in 1..SeqMax
         /\ NextSeq(sub) = IF sub.lastSeq = SeqMax THEN 1 ELSE sub.lastSeq + 1
         /\ AfterNextSeq(sub).sid = sub.sid
         /\ AfterNextSeq(sub).lastSeq = NextSeq(sub)
         /\ AfterNextSeq(sub).firstMessageSent
<1>1. sub.lastSeq \in 0..SeqMax
  BY DEF Subscription
<1>2. /\ NextSeq(sub) \in 1..SeqMax
      /\ NextSeq(sub) = IF sub.lastSeq = SeqMax THEN 1 ELSE sub.lastSeq + 1
  BY <1>1, SeqAssumption DEF NextSeq
<1>3. NextSeq(sub) \in 0..SeqMax
  BY <1>2
<1>4. AfterNextSeq(sub) = [sub EXCEPT !.firstMessageSent = TRUE, !.lastSeq = NextSeq(sub)]
  BY DEF AfterNextSeq
<1> QED
  BY <1>2, <1>3, <1>4 DEF Subscription

LEMMA FirstSeqProperties ==
  ASSUME NEW s \in Sid, NEW url \in Url, NEW secs \in Seconds \cup {0}
  PROVE  LET sub == NewSubscription(s, url, secs)
         IN /\ AfterNextSeq(sub) \in Subscription
            /\ NextSeq(sub) = 0
            /\ AfterNextSeq(sub).sid = s
            /\ AfterNextSeq(sub).lastSeq = 0
            /\ AfterNextSeq(sub).firstMessageSent
<1> DEFINE sub == NewSubscription(s, url, secs)
<1>1. 0 \in 0..SeqMax /\ 0 \in 0..MaxAge
  BY SeqAssumption, TimeAssumption
<1>2. /\ sub \in Subscription
      /\ sub.sid = s /\ sub.lastSeq = 0 /\ sub.firstMessageSent = FALSE
  BY <1>1 DEF NewSubscription, Subscription
<1> HIDE DEF sub
<1>3. NextSeq(sub) = 0
  BY <1>2 DEF NextSeq
<1>4. AfterNextSeq(sub) = [sub EXCEPT !.firstMessageSent = TRUE, !.lastSeq = sub.lastSeq]
  BY <1>2 DEF AfterNextSeq
<1>5. /\ AfterNextSeq(sub) \in Subscription
      /\ AfterNextSeq(sub).sid = s
      /\ AfterNextSeq(sub).lastSeq = 0
      /\ AfterNextSeq(sub).firstMessageSent
  BY <1>2, <1>4 DEF Subscription
<1> QED
  BY <1>3, <1>5 DEF sub

LEMMA GetTimeOutType ==
  ASSUME NEW r \in Request
  PROVE  GetTimeOut(r.timeout) \in Seconds \cup {0}
BY DEF Request, TimeoutHeader, GetTimeOut

-----------------------------------------------------------------------------
(* Lemmas about the SIDs on a list *)

LEMMA SidsOfRemoveAt ==
  ASSUME NEW q \in Seq(Subscription), NoSidTwice(q), NEW i \in DOMAIN q
  PROVE  /\ SidsOf(RemoveAt(q, i)) = SidsOf(q) \ {q[i].sid}
         /\ NoSidTwice(RemoveAt(q, i))
         /\ \A j \in DOMAIN RemoveAt(q, i) : \E k \in DOMAIN q : RemoveAt(q, i)[j] = q[k]
<1> DEFINE p == RemoveAt(q, i)
<1>1. Len(q) \in Nat /\ DOMAIN q = 1..Len(q)
  BY LenProperties
<1>2. /\ p \in Seq(Subscription)
      /\ Len(p) = Len(q) - 1
      /\ \A j \in 1..Len(q) - 1 : p[j] = IF j < i THEN q[j] ELSE q[j + 1]
  BY <1>1, RemoveAtProperties
<1> HIDE DEF p
<1>3. DOMAIN p = 1..Len(q) - 1
  BY <1>1, <1>2, LenProperties
<1>4. \A j \in DOMAIN p : \E k \in DOMAIN q \ {i} : p[j] = q[k]
  <2> SUFFICES ASSUME NEW j \in DOMAIN p
               PROVE  \E k \in DOMAIN q \ {i} : p[j] = q[k]
    OBVIOUS
  <2>1. CASE j < i
    BY <2>1, <1>1, <1>2, <1>3
  <2>2. CASE ~(j < i)
    <3>1. p[j] = q[j + 1] /\ j + 1 \in DOMAIN q \ {i}
      BY <2>2, <1>1, <1>2, <1>3
    <3> QED
      BY <3>1
  <2> QED
    BY <2>1, <2>2
<1>5. \A k \in DOMAIN q \ {i} : \E j \in DOMAIN p : p[j] = q[k]
  <2> SUFFICES ASSUME NEW k \in DOMAIN q \ {i}
               PROVE  \E j \in DOMAIN p : p[j] = q[k]
    OBVIOUS
  <2>1. CASE k < i
    BY <2>1, <1>1, <1>2, <1>3
  <2>2. CASE ~(k < i)
    <3>1. k - 1 \in DOMAIN p /\ p[k - 1] = q[k]
      BY <2>2, <1>1, <1>2, <1>3
    <3> QED
      BY <3>1
  <2> QED
    BY <2>1, <2>2
<1>6. SidsOf(p) = SidsOf(q) \ {q[i].sid}
  BY <1>4, <1>5 DEF SidsOf, NoSidTwice
<1>7. NoSidTwice(p)
  <2> SUFFICES ASSUME NEW j \in DOMAIN p, NEW k \in DOMAIN p, p[j].sid = p[k].sid
               PROVE  j = k
    BY DEF NoSidTwice
  <2> DEFINE at(n) == IF n < i THEN n ELSE n + 1
  <2>1. /\ at(j) \in DOMAIN q /\ p[j] = q[at(j)]
        /\ at(k) \in DOMAIN q /\ p[k] = q[at(k)]
    BY <1>1, <1>2, <1>3
  <2>2. at(j) = at(k)
    BY <2>1 DEF NoSidTwice
  <2> QED
    BY <2>2, <1>1, <1>3
<1> QED
  BY <1>4, <1>6, <1>7 DEF p

LEMMA SidsOfAppend ==
  ASSUME NEW q \in Seq(Subscription), NoSidTwice(q),
         NEW sub \in Subscription, sub.sid \notin SidsOf(q)
  PROVE  /\ Append(q, sub) \in Seq(Subscription)
         /\ Len(Append(q, sub)) = Len(q) + 1
         /\ SidsOf(Append(q, sub)) = SidsOf(q) \cup {sub.sid}
         /\ NoSidTwice(Append(q, sub))
         /\ \A j \in DOMAIN Append(q, sub) :
              Append(q, sub)[j] = sub \/ \E k \in DOMAIN q : Append(q, sub)[j] = q[k]
<1> DEFINE p == Append(q, sub)
<1>1. Len(q) \in Nat /\ DOMAIN q = 1..Len(q)
  BY LenProperties
<1>2. /\ p \in Seq(Subscription)
      /\ Len(p) = Len(q) + 1
      /\ p[Len(q) + 1] = sub
      /\ \A j \in 1..Len(q) : p[j] = q[j]
  BY <1>1, AppendProperties
<1> HIDE DEF p
<1>3. DOMAIN p = 1..Len(q) + 1
  BY <1>1, <1>2, LenProperties
<1>4. \A j \in DOMAIN p : j = Len(q) + 1 \/ (j \in DOMAIN q /\ p[j] = q[j])
  BY <1>1, <1>2, <1>3
<1>5. DOMAIN q \subseteq DOMAIN p /\ Len(q) + 1 \in DOMAIN p
  BY <1>1, <1>3
<1>6. SidsOf(p) = SidsOf(q) \cup {sub.sid}
  BY <1>1, <1>2, <1>4, <1>5 DEF SidsOf
<1>7. NoSidTwice(p)
  BY <1>1, <1>2, <1>4 DEF NoSidTwice, SidsOf
<1> QED
  BY <1>2, <1>4, <1>6, <1>7 DEF p

\* A list updated in place, each entry keeping its SID.
LEMMA SidsOfUpdate ==
  ASSUME NEW q \in Seq(Subscription), NEW p \in Seq(Subscription),
         DOMAIN p = DOMAIN q, \A i \in DOMAIN q : p[i].sid = q[i].sid
  PROVE  /\ SidsOf(p) = SidsOf(q)
         /\ NoSidTwice(q) => NoSidTwice(p)
BY DEF SidsOf, NoSidTwice

-----------------------------------------------------------------------------
(* The inductive invariant.  TypeOK is not inductive alone: the event of a    *)
(* sweep stores values[changed], so changed must be a variable whenever the   *)
(* loop runs; and the keys stay in range because the subscription's counter   *)
(* and the multicast counter agree with what was sent.                        *)

SweepArgument == pc = "sweep" => changed \in Evented
MulticastCounter == nextMulticastSeq = mkey + 1

IInv ==
  /\ TypeOK
  /\ SubscriptionsConsistent
  /\ SweepArgument
  /\ MulticastCounter

LEMMA InitInv == Init => IInv
<1> SUFFICES ASSUME Init PROVE IInv
  OBVIOUS
<1> USE DEF Init
<1>1. TypeOK
  <2>1. subscriptions \in Seq(Subscription) /\ reply \in Reply
    BY DEF Reply
  <2>2. values \in [Var -> Val] /\ view \in [Sid -> [Var -> Val \cup {NoVal}]]
    BY VarAssumption
  <2>3. key \in [Sid -> -1..SeqMax] /\ mkey \in -1..SeqMax /\ nextMulticastSeq \in 0..SeqMax
    BY SeqAssumption
  <2> QED
    BY <2>1, <2>2, <2>3 DEF TypeOK
<1>2. SubscriptionsConsistent
  <2>1. DOMAIN subscriptions = {}
    OBVIOUS
  <2> QED
    BY <2>1 DEF SubscriptionsConsistent, Listed, SidsOf, NoSidTwice
<1> QED
  BY <1>1, <1>2 DEF IInv, SweepArgument, MulticastCounter

\* A step that changes nothing but the answer.
LEMMA FrameInv ==
  ASSUME IInv, reply' \in Reply,
         UNCHANGED <<values, subscriptions, sweepVars, multicastVars, clientVars>>
  PROVE  IInv'
BY DEF IInv, TypeOK, SubscriptionsConsistent, Listed, SidsOf, NoSidTwice, SweepArgument,
       MulticastCounter, sweepVars, multicastVars, clientVars

LEMMA AnswerType ==
  ASSUME NEW m \in {"SUBSCRIBE", "UNSUBSCRIBE"}, NEW st \in Seq(Status), Answer(m, st)
  PROVE  reply' \in Reply
BY DEF Answer, Reply

LEMMA NoAnswerType == NoAnswer => reply' \in Reply
BY DEF NoAnswer, Reply

LEMMA RejectInv ==
  ASSUME IInv, NEW m \in {"SUBSCRIBE", "UNSUBSCRIBE"}, NEW st \in Status, Reject(m, st)
  PROVE  IInv'
<1>1. <<st>> \in Seq(Status)
  OBVIOUS
<1>2. reply' \in Reply
  BY <1>1, AnswerType DEF Reject
<1> QED
  BY <1>2, FrameInv DEF Reject

\* A step that updates the list in place, keeping SIDs and key counters.
LEMMA InPlaceInv ==
  ASSUME IInv, reply' \in Reply,
         subscriptions' \in Seq(Subscription),
         DOMAIN subscriptions' = DOMAIN subscriptions,
         \A i \in DOMAIN subscriptions :
           /\ subscriptions'[i].sid = subscriptions[i].sid
           /\ subscriptions'[i].lastSeq = subscriptions[i].lastSeq
           /\ subscriptions'[i].firstMessageSent = subscriptions[i].firstMessageSent,
         UNCHANGED <<values, sweepVars, multicastVars, clientVars>>
  PROVE  IInv'
<1> USE DEF IInv, sweepVars, multicastVars, clientVars
<1>1. TypeOK'
  BY DEF TypeOK
<1>2. SidsOf(subscriptions') = SidsOf(subscriptions) /\ NoSidTwice(subscriptions')
  BY SidsOfUpdate DEF TypeOK, SubscriptionsConsistent
<1>3. SubscriptionsConsistent'
  BY <1>2 DEF SubscriptionsConsistent, Listed
<1> QED
  BY <1>1, <1>3 DEF SweepArgument, MulticastCounter

-----------------------------------------------------------------------------
(* One lemma per action that changes the list *)

LEMMA RenewInv ==
  ASSUME IInv, NEW r \in Request, Renew(r)
  PROVE  IInv'
<1> DEFINE secs == GetTimeOut(r.timeout)
<1>1. subscriptions \in Seq(Subscription) /\ secs \in Seconds \cup {0}
  BY GetTimeOutType DEF IInv, TypeOK
<1>2. \A i \in DOMAIN subscriptions : subscriptions[i] \in Subscription
  BY <1>1, LenProperties, ElementOfSeq
<1> HIDE DEF secs
<1>3. \A i \in DOMAIN subscriptions :
        /\ Renewed(subscriptions[i], secs) \in Subscription
        /\ Renewed(subscriptions[i], secs).sid = subscriptions[i].sid
        /\ Renewed(subscriptions[i], secs).lastSeq = subscriptions[i].lastSeq
        /\ Renewed(subscriptions[i], secs).firstMessageSent = subscriptions[i].firstMessageSent
  BY <1>1, <1>2, RenewedType
<1>4. subscriptions' = [i \in DOMAIN subscriptions |->
                          IF i \in RenewMatches(r) THEN Renewed(subscriptions[i], secs)
                          ELSE subscriptions[i]]
  BY DEF Renew, secs
<1>5. subscriptions' \in [DOMAIN subscriptions -> Subscription]
  BY <1>2, <1>3, <1>4
<1>6. subscriptions' \in Seq(Subscription) /\ DOMAIN subscriptions' = DOMAIN subscriptions
  BY <1>1, <1>5, SeqByIndex
<1>7. reply' \in Reply
  <2>1. RenewMatches(r) \subseteq DOMAIN subscriptions /\ IsFiniteSet(DOMAIN subscriptions)
    BY <1>1, LenProperties, FS_Interval DEF RenewMatches
  <2>2. Cardinality(RenewMatches(r)) \in Nat
    BY <2>1, FS_Subset, FS_CardinalityType
  <2>3. [k \in 1..Cardinality(RenewMatches(r)) |-> "OK"] \in Seq(Status)
    BY <2>2, SeqDef DEF Status
  <2>4. <<"PRECONDITION_FAILED">> \in Seq(Status)
    BY DEF Status
  <2> QED
    BY <2>3, <2>4, AnswerType DEF Renew, RenewStatuses
<1> QED
  BY <1>3, <1>4, <1>6, <1>7, InPlaceInv DEF Renew

LEMMA TickInv ==
  ASSUME IInv, Tick
  PROVE  IInv'
<1>1. subscriptions \in Seq(Subscription)
  BY DEF IInv, TypeOK
<1>2. \A i \in DOMAIN subscriptions : subscriptions[i] \in Subscription
  BY <1>1, LenProperties, ElementOfSeq
<1> DEFINE older(sub) == [sub EXCEPT !.age = IF @ < MaxAge THEN @ + 1 ELSE @]
<1>3. \A sub \in Subscription :
        /\ older(sub) \in Subscription
        /\ older(sub).sid = sub.sid
        /\ older(sub).lastSeq = sub.lastSeq
        /\ older(sub).firstMessageSent = sub.firstMessageSent
  BY TimeAssumption DEF Subscription
<1>4. subscriptions' = [i \in DOMAIN subscriptions |-> older(subscriptions[i])]
  BY DEF Tick
<1> HIDE DEF older
<1>5. subscriptions' \in [DOMAIN subscriptions -> Subscription]
  BY <1>2, <1>3, <1>4
<1>6. subscriptions' \in Seq(Subscription) /\ DOMAIN subscriptions' = DOMAIN subscriptions
  BY <1>1, <1>5, SeqByIndex
<1>7. reply' \in Reply
  BY NoAnswerType DEF Tick
<1> QED
  BY <1>2, <1>3, <1>4, <1>6, <1>7, InPlaceInv DEF Tick

LEMMA SubscribeNewInv ==
  ASSUME IInv, NEW r \in Request, NEW s \in Sid, pc = "idle", SubscribeNew(r, s)
  PROVE  IInv'
<1> DEFINE new == NewSubscription(s, r.callback, GetTimeOut(r.timeout))
           sub == AfterNextSeq(new)
<1>1. r.callback \in Url
  BY DEF SubscribeNew, HasCallback, Request, CallbackHeader
<1>2. /\ sub \in Subscription
      /\ NextSeq(new) = 0
      /\ sub.sid = s /\ sub.lastSeq = 0 /\ sub.firstMessageSent
  BY <1>1, GetTimeOutType, FirstSeqProperties
<1>3. subscriptions' = Append(subscriptions, sub) /\ key' = [key EXCEPT ![s] = NextSeq(new)]
  BY DEF SubscribeNew
<1> HIDE DEF new, sub
<1>4. s \notin used /\ used' = used \cup {s} /\ Listed \subseteq used
  BY DEF SubscribeNew, FreshSid, IInv, SubscriptionsConsistent
<1>5. /\ subscriptions \in Seq(Subscription) /\ NoSidTwice(subscriptions)
      /\ sub.sid \notin SidsOf(subscriptions)
  BY <1>2, <1>4 DEF IInv, TypeOK, SubscriptionsConsistent, Listed
<1>6. /\ subscriptions' \in Seq(Subscription)
      /\ SidsOf(subscriptions') = SidsOf(subscriptions) \cup {s}
      /\ NoSidTwice(subscriptions')
      /\ \A j \in DOMAIN subscriptions' :
           subscriptions'[j] = sub \/ \E k \in DOMAIN subscriptions : subscriptions'[j] = subscriptions[k]
  BY <1>2, <1>3, <1>5, SidsOfAppend
<1>7. TypeOK'
  <2>1. reply' \in Reply
    <3>1. <<"OK">> \in Seq(Status)
      BY DEF Status
    <3> QED
      BY <3>1, AnswerType DEF SubscribeNew
  <2>2. key' \in [Sid -> -1..SeqMax]
    BY <1>2, <1>3, SeqAssumption DEF IInv, TypeOK
  <2>3. view' \in [Sid -> [Var -> Val \cup {NoVal}]]
    <3>1. values \in [Var -> Val \cup {NoVal}]
      BY DEF IInv, TypeOK
    <3> QED
      BY <3>1 DEF IInv, TypeOK, SubscribeNew
  <2> QED
    BY <1>4, <1>6, <2>1, <2>2, <2>3
    DEF IInv, TypeOK, SubscribeNew, sweepVars, multicastVars
<1>8. SubscriptionsConsistent'
  <2>1. Listed' \subseteq used'
    BY <1>4, <1>6 DEF Listed
  <2>2. \A j \in DOMAIN subscriptions' :
          /\ subscriptions'[j].firstMessageSent
          /\ subscriptions'[j].lastSeq = key'[subscriptions'[j].sid]
    <3> SUFFICES ASSUME NEW j \in DOMAIN subscriptions'
                 PROVE  /\ subscriptions'[j].firstMessageSent
                        /\ subscriptions'[j].lastSeq = key'[subscriptions'[j].sid]
      OBVIOUS
    <3>1. CASE subscriptions'[j] = sub
      BY <3>1, <1>2, <1>3 DEF IInv, TypeOK
    <3>2. CASE \E k \in DOMAIN subscriptions : subscriptions'[j] = subscriptions[k]
      <4>1. PICK k \in DOMAIN subscriptions : subscriptions'[j] = subscriptions[k]
        BY <3>2
      <4>2. subscriptions[k].sid \in used /\ subscriptions[k].sid \in Sid
        BY <1>4 DEF Listed, SidsOf, IInv, TypeOK
      <4>3. key'[subscriptions[k].sid] = key[subscriptions[k].sid]
        BY <4>2, <1>3, <1>4 DEF IInv, TypeOK
      <4> QED
        BY <4>1, <4>3 DEF IInv, SubscriptionsConsistent
    <3> QED
      BY <3>1, <3>2, <1>6
  <2>3. \A t \in Sid \ used' : key'[t] = -1
    BY <1>3, <1>4 DEF IInv, TypeOK, SubscriptionsConsistent
  <2> QED
    BY <1>6, <2>1, <2>2, <2>3 DEF SubscriptionsConsistent
<1>9. SweepArgument' /\ MulticastCounter'
  BY DEF IInv, SweepArgument, MulticastCounter, SubscribeNew, sweepVars, multicastVars
<1> QED
  BY <1>7, <1>8, <1>9 DEF IInv

\* A step that takes one entry off the list, and touches nothing else that
\* the list's consistency speaks of.
LEMMA RemovalInv ==
  ASSUME IInv, NEW i \in DOMAIN subscriptions,
         subscriptions' = RemoveAt(subscriptions, i),
         reply' \in Reply, pos' \in Nat,
         UNCHANGED <<values, pc, changed, multicastVars, clientVars>>
  PROVE  IInv'
<1>1. /\ subscriptions \in Seq(Subscription) /\ NoSidTwice(subscriptions)
      /\ Len(subscriptions) \in Nat /\ DOMAIN subscriptions = 1..Len(subscriptions)
  BY LenProperties DEF IInv, TypeOK, SubscriptionsConsistent
<1>2. subscriptions' \in Seq(Subscription)
  BY <1>1, RemoveAtProperties
<1>3. /\ SidsOf(subscriptions') = SidsOf(subscriptions) \ {subscriptions[i].sid}
      /\ NoSidTwice(subscriptions')
      /\ \A j \in DOMAIN subscriptions' :
           \E k \in DOMAIN subscriptions : subscriptions'[j] = subscriptions[k]
  BY <1>1, SidsOfRemoveAt
<1>4. TypeOK'
  BY <1>2 DEF IInv, TypeOK, multicastVars, clientVars
<1>5. SubscriptionsConsistent'
  BY <1>3 DEF IInv, SubscriptionsConsistent, Listed, clientVars
<1> QED
  BY <1>4, <1>5 DEF IInv, SweepArgument, MulticastCounter, multicastVars

LEMMA CancelInv ==
  ASSUME IInv, NEW r \in Request, Cancel(r)
  PROVE  IInv'
<1>1. PICK i \in CancelMatches(r) : subscriptions' = RemoveAt(subscriptions, i)
  BY DEF Cancel
<1>2. i \in DOMAIN subscriptions
  BY DEF CancelMatches
<1>3. reply' \in Reply
  <2>1. <<"OK">> \in Seq(Status)
    BY DEF Status
  <2> QED
    BY <2>1, AnswerType DEF Cancel
<1>4. pos' \in Nat /\ UNCHANGED <<values, pc, changed, multicastVars, clientVars>>
  BY DEF Cancel, sweepVars, IInv, TypeOK
<1> QED
  BY <1>1, <1>2, <1>3, <1>4, RemovalInv

LEMMA SweepEraseInv ==
  ASSUME IInv, SweepErase
  PROVE  IInv'
<1>1. AfterErase(pos, Len(subscriptions)) \in Nat
  BY DEF AfterErase, IInv, TypeOK
<1> QED
  BY <1>1, NoAnswerType, RemovalInv DEF SweepErase

LEMMA SetValueInv ==
  ASSUME IInv, NEW v \in Var, NEW x \in Val, SetValue(v, x)
  PROVE  IInv'
<1> USE DEF IInv, SetValue, sweepVars, multicastVars, clientVars
<1>1. values' \in [Var -> Val] /\ reply' \in Reply
  BY NoAnswerType DEF TypeOK
<1>2. /\ pc' \in {"idle", "sweep"} /\ changed' \in Var \cup {NoVar} /\ pos' \in Nat
      /\ pc' = "sweep" => changed' \in Evented
  BY VarAssumption DEF TypeOK
<1>3. /\ nextMulticastSeq' \in 0..SeqMax /\ mkey' \in -1..SeqMax
      /\ nextMulticastSeq' = mkey' + 1
  BY SeqAssumption DEF TypeOK, NextMulticastSeq, MulticastCounter
<1>4. TypeOK'
  BY <1>1, <1>2, <1>3 DEF TypeOK
<1>5. SubscriptionsConsistent'
  BY DEF SubscriptionsConsistent, Listed
<1> QED
  BY <1>2, <1>3, <1>4, <1>5 DEF SweepArgument, MulticastCounter

LEMMA SweepSendInv ==
  ASSUME IInv, SweepSend
  PROVE  IInv'
<1> DEFINE sub == subscriptions[pos]
<1>1. /\ subscriptions \in Seq(Subscription) /\ pos \in DOMAIN subscriptions
      /\ Len(subscriptions) \in Nat /\ DOMAIN subscriptions = 1..Len(subscriptions)
  BY LenProperties DEF IInv, TypeOK, SweepSend
<1>2. /\ sub \in Subscription /\ sub.sid \in Sid /\ sub.firstMessageSent
      /\ \A i \in DOMAIN subscriptions : subscriptions[i].sid \in Sid
  <2>1. \A i \in DOMAIN subscriptions : subscriptions[i] \in Subscription
    BY <1>1, ElementOfSeq
  <2> QED
    BY <2>1, <1>1 DEF IInv, SubscriptionsConsistent, Subscription
<1>3. /\ AfterNextSeq(sub) \in Subscription
      /\ NextSeq(sub) \in 1..SeqMax
      /\ AfterNextSeq(sub).sid = sub.sid
      /\ AfterNextSeq(sub).lastSeq = NextSeq(sub)
      /\ AfterNextSeq(sub).firstMessageSent
  BY <1>2, NextSeqProperties
<1>4. /\ subscriptions' = [subscriptions EXCEPT ![pos] = AfterNextSeq(sub)]
      /\ key' = [key EXCEPT ![sub.sid] = NextSeq(sub)]
      /\ view' = [view EXCEPT ![sub.sid][changed] = values[changed]]
      /\ changed \in Var
      /\ UNCHANGED <<values, pc, changed, multicastVars, used>>
  BY VarAssumption DEF SweepSend, IInv, SweepArgument
<1> HIDE DEF sub
<1>5. /\ subscriptions' \in Seq(Subscription)
      /\ DOMAIN subscriptions' = DOMAIN subscriptions
      /\ \A i \in DOMAIN subscriptions :
           subscriptions'[i] = IF i = pos THEN AfterNextSeq(sub) ELSE subscriptions[i]
  BY <1>1, <1>3, <1>4, ExceptSeq
<1>6. SidsOf(subscriptions') = SidsOf(subscriptions) /\ NoSidTwice(subscriptions')
  BY <1>1, <1>3, <1>5, SidsOfUpdate DEF IInv, SubscriptionsConsistent, sub
<1>7. TypeOK'
  <2>1. key' \in [Sid -> -1..SeqMax]
    BY <1>2, <1>3, <1>4, SeqAssumption DEF IInv, TypeOK
  <2>2. view' \in [Sid -> [Var -> Val \cup {NoVal}]]
    BY <1>2, <1>4 DEF IInv, TypeOK
  <2>3. pos' \in Nat /\ reply' \in Reply
    BY NoAnswerType DEF SweepSend, IInv, TypeOK
  <2> QED
    BY <1>4, <1>5, <2>1, <2>2, <2>3 DEF IInv, TypeOK, multicastVars
<1>8. SubscriptionsConsistent'
  <2>1. \A i \in DOMAIN subscriptions' :
          /\ subscriptions'[i].firstMessageSent
          /\ subscriptions'[i].lastSeq = key'[subscriptions'[i].sid]
    <3> SUFFICES ASSUME NEW i \in DOMAIN subscriptions
                 PROVE  /\ subscriptions'[i].firstMessageSent
                        /\ subscriptions'[i].lastSeq = key'[subscriptions'[i].sid]
      BY <1>5
    <3>1. CASE i = pos
      BY <3>1, <1>2, <1>3, <1>4, <1>5 DEF IInv, TypeOK
    <3>2. CASE i # pos
      <4>1. subscriptions'[i] = subscriptions[i] /\ subscriptions[i].sid # sub.sid
        BY <3>2, <1>1, <1>5 DEF IInv, SubscriptionsConsistent, NoSidTwice, sub
      <4>2. subscriptions[i].sid \in Sid
        BY <1>2
      <4>3. key'[subscriptions[i].sid] = key[subscriptions[i].sid]
        BY <4>1, <4>2, <1>4 DEF IInv, TypeOK
      <4> QED
        BY <4>1, <4>3 DEF IInv, SubscriptionsConsistent
    <3> QED
      BY <3>1, <3>2
  <2>2. sub.sid \in used
    BY <1>1 DEF IInv, SubscriptionsConsistent, Listed, SidsOf, sub
  <2>3. \A t \in Sid \ used' : key'[t] = -1
    BY <2>2, <1>4 DEF IInv, TypeOK, SubscriptionsConsistent
  <2> QED
    BY <1>4, <1>6, <2>1, <2>3 DEF IInv, SubscriptionsConsistent, Listed
<1>9. SweepArgument' /\ MulticastCounter'
  BY <1>4 DEF IInv, SweepArgument, MulticastCounter, multicastVars
<1> QED
  BY <1>7, <1>8, <1>9 DEF IInv

-----------------------------------------------------------------------------
(* The inductive step and the invariants *)

LEMMA SubscribeInv ==
  ASSUME IInv, NEW r \in Request, Subscribe(r)
  PROVE  IInv'
<1>1. CASE RenewMalformed(r) \/ RenewEmptySid(r) \/ SubscribeBadNt(r) \/ SubscribeIncomplete(r)
  BY <1>1, RejectInv
  DEF RenewMalformed, RenewEmptySid, SubscribeBadNt, SubscribeIncomplete, Status
<1>2. CASE Renew(r)
  BY <1>2, RenewInv
<1>3. CASE \E s \in Sid : SubscribeNew(r, s)
  BY <1>3, SubscribeNewInv DEF Subscribe
<1> QED
  BY <1>1, <1>2, <1>3 DEF Subscribe

LEMMA UnsubscribeInv ==
  ASSUME IInv, NEW r \in Request, Unsubscribe(r)
  PROVE  IInv'
<1>1. CASE UnsubscribeMalformed(r) \/ UnsubscribeNoSid(r) \/ UnsubscribeUnknown(r)
  BY <1>1, RejectInv DEF UnsubscribeMalformed, UnsubscribeNoSid, UnsubscribeUnknown, Status
<1>2. CASE Cancel(r)
  BY <1>2, CancelInv
<1> QED
  BY <1>1, <1>2 DEF Unsubscribe

LEMMA SweepInv ==
  ASSUME IInv, Sweep
  PROVE  IInv'
<1>1. CASE SweepEnd \/ SweepOverrun
  <2>1. reply' \in Reply
    BY <1>1, NoAnswerType DEF SweepEnd, SweepOverrun
  <2> QED
    BY <1>1, <2>1
    DEF SweepEnd, SweepOverrun, IInv, TypeOK, SubscriptionsConsistent, Listed, SweepArgument,
        MulticastCounter, multicastVars, clientVars
<1> QED
  BY <1>1, SweepSendInv, SweepEraseInv DEF Sweep

LEMMA StepInv == IInv /\ [Next]_vars => IInv'
<1> SUFFICES ASSUME IInv, [Next]_vars
             PROVE  IInv'
  OBVIOUS
<1>1. CASE \E r \in Request : Subscribe(r) \/ Unsubscribe(r)
  BY <1>1, SubscribeInv, UnsubscribeInv
<1>2. CASE OtherMethod
  <2>1. reply' \in Reply
    BY <1>2 DEF OtherMethod, Reply
  <2> QED
    BY <1>2, <2>1, FrameInv DEF OtherMethod
<1>3. CASE \E v \in Var, x \in Val : SetValue(v, x)
  BY <1>3, SetValueInv
<1>4. CASE Sweep
  BY <1>4, SweepInv
<1>5. CASE Tick
  BY <1>5, TickInv
<1>6. CASE UNCHANGED vars
  BY <1>6, FrameInv DEF vars, IInv, TypeOK
<1> QED
  BY <1>1, <1>2, <1>3, <1>4, <1>5, <1>6 DEF Next

\* IInv holds throughout.
THEOREM Inductive == Spec => []IInv
BY InitInv, StepInv, PTL DEF Spec

\* Every variable of the event controller keeps its type.
THEOREM TypeCorrect == Spec => []TypeOK
<1>1. IInv => TypeOK
  BY DEF IInv
<1> QED
  BY <1>1, Inductive, PTL

\* No SID is listed twice, and every listed subscription remembers the key of
\* the last event sent under its SID.
THEOREM ConsistentAlways == Spec => []SubscriptionsConsistent
<1>1. IInv => SubscriptionsConsistent
  BY DEF IInv
<1> QED
  BY <1>1, Inductive, PTL

\* Multicast keys count up and come back to 0.
THEOREM MulticastInStep == Spec => MulticastKeysInStep
<1>1. IInv /\ [Next]_vars =>
        [mkey' # mkey => mkey' = IF mkey + 1 = SeqMax THEN 0 ELSE mkey + 1]_vars
  <2> SUFFICES ASSUME IInv, Next, mkey' # mkey
               PROVE  mkey' = IF mkey + 1 = SeqMax THEN 0 ELSE mkey + 1
    BY DEF vars, multicastVars
  <2>1. PICK v \in Var, x \in Val : SetValue(v, x)
    BY DEF Next, Subscribe, RenewMalformed, RenewEmptySid, Renew, SubscribeNew,
           SubscribeBadNt, SubscribeIncomplete, Unsubscribe, UnsubscribeMalformed,
           UnsubscribeNoSid, UnsubscribeUnknown, Cancel, Reject, OtherMethod, Sweep,
           SweepSend, SweepErase, SweepEnd, SweepOverrun, Tick, multicastVars
  <2>2. mkey' = IF nextMulticastSeq = SeqMax THEN 0 ELSE nextMulticastSeq
    BY <2>1 DEF SetValue, NextMulticastSeq, multicastVars
  <2> QED
    BY <2>2 DEF IInv, MulticastCounter
<1> QED
  BY <1>1, Inductive, PTL DEF Spec, MulticastKeysInStep

-----------------------------------------------------------------------------
(* What each action does to the set of listed SIDs *)

LEMMA EntriesTyped ==
  ASSUME IInv
  PROVE  \A i \in DOMAIN subscriptions :
           subscriptions[i] \in Subscription /\ subscriptions[i].sid \in Sid
<1>1. \A i \in DOMAIN subscriptions : subscriptions[i] \in Subscription
  BY LenProperties, ElementOfSeq DEF IInv, TypeOK
<1> QED
  BY <1>1 DEF Subscription

LEMMA RenewListed ==
  ASSUME IInv, NEW r \in Request, Renew(r)
  PROVE  Listed' = Listed
<1>1. \A i \in DOMAIN subscriptions :
        Renewed(subscriptions[i], GetTimeOut(r.timeout)).sid = subscriptions[i].sid
  BY EntriesTyped, GetTimeOutType, RenewedType
<1>2. /\ DOMAIN subscriptions' = DOMAIN subscriptions
      /\ \A i \in DOMAIN subscriptions : subscriptions'[i].sid = subscriptions[i].sid
  BY <1>1 DEF Renew
<1> QED
  BY <1>2 DEF Listed, SidsOf

LEMMA TickListed ==
  ASSUME IInv, Tick
  PROVE  Listed' = Listed
<1>1. /\ DOMAIN subscriptions' = DOMAIN subscriptions
      /\ \A i \in DOMAIN subscriptions : subscriptions'[i].sid = subscriptions[i].sid
  BY EntriesTyped DEF Tick, Subscription
<1> QED
  BY <1>1 DEF Listed, SidsOf

LEMMA SweepSendListed ==
  ASSUME IInv, SweepSend
  PROVE  Listed' = Listed
<1>1. subscriptions[pos].firstMessageSent /\ pos \in DOMAIN subscriptions
  BY DEF SweepSend, IInv, SubscriptionsConsistent
<1>2. AfterNextSeq(subscriptions[pos]).sid = subscriptions[pos].sid
  BY <1>1, EntriesTyped, NextSeqProperties
<1>3. /\ DOMAIN subscriptions' = DOMAIN subscriptions
      /\ \A i \in DOMAIN subscriptions : subscriptions'[i].sid = subscriptions[i].sid
  BY <1>2 DEF SweepSend
<1> QED
  BY <1>3 DEF Listed, SidsOf

LEMMA SubscribeNewListed ==
  ASSUME IInv, NEW r \in Request, NEW s \in Sid, SubscribeNew(r, s)
  PROVE  Listed' = Listed \cup {s}
<1> DEFINE sub == AfterNextSeq(NewSubscription(s, r.callback, GetTimeOut(r.timeout)))
<1>1. r.callback \in Url
  BY DEF SubscribeNew, HasCallback, Request, CallbackHeader
<1>2. sub \in Subscription /\ sub.sid = s
  BY <1>1, GetTimeOutType, FirstSeqProperties
<1>3. subscriptions' = Append(subscriptions, sub)
  BY DEF SubscribeNew
<1> HIDE DEF sub
<1>4. /\ subscriptions \in Seq(Subscription) /\ NoSidTwice(subscriptions)
      /\ sub.sid \notin SidsOf(subscriptions)
  BY <1>2 DEF IInv, TypeOK, SubscriptionsConsistent, Listed, SubscribeNew, FreshSid
<1> QED
  BY <1>2, <1>3, <1>4, SidsOfAppend DEF Listed

LEMMA RemovalListed ==
  ASSUME IInv, NEW i \in DOMAIN subscriptions,
         subscriptions' = RemoveAt(subscriptions, i)
  PROVE  /\ Listed' = Listed \ {subscriptions[i].sid}
         /\ subscriptions[i].sid \in Listed
         /\ subscriptions[i].sid \in Sid
<1>1. subscriptions \in Seq(Subscription) /\ NoSidTwice(subscriptions)
  BY DEF IInv, TypeOK, SubscriptionsConsistent
<1>2. Listed' = Listed \ {subscriptions[i].sid}
  BY <1>1, SidsOfRemoveAt DEF Listed
<1>3. subscriptions[i].sid \in Listed /\ Listed \subseteq Sid
  BY DEF Listed, SidsOf, IInv, SubscriptionsConsistent, TypeOK
<1> QED
  BY <1>2, <1>3

-----------------------------------------------------------------------------
(* Answers *)

\* What AnswersTellEffects says of one step.
AnswerTold ==
  /\ reply'.to \in {"SUBSCRIBE", "UNSUBSCRIBE"} => Len(reply'.status) = 1
  /\ reply' = [to |-> "UNSUBSCRIBE", status |-> <<"OK">>] =>
       \E s \in Listed : Listed' = Listed \ {s}
  /\ reply' = [to |-> "SUBSCRIBE", status |-> <<"OK">>] =>
       /\ Listed \subseteq Listed'
       /\ \E i \in DOMAIN subscriptions' :
            subscriptions'[i].age = 0 /\ (subscriptions'[i].sid \in used => Listed' = Listed)
  /\ reply'.to \in {"SUBSCRIBE", "UNSUBSCRIBE"} /\ reply'.status # <<"OK">> =>
       subscriptions' = subscriptions

LEMMA RejectTold ==
  ASSUME NEW method \in {"SUBSCRIBE", "UNSUBSCRIBE"},
         NEW status \in {"BAD_REQUEST", "PRECONDITION_FAILED"}, Reject(method, status)
  PROVE  AnswerTold
<1>1. reply'.to = method /\ reply'.status = <<status>> /\ subscriptions' = subscriptions
  BY DEF Reject, Answer
<1>2. Len(<<status>>) = 1 /\ <<status>> # <<"OK">>
  OBVIOUS
<1> QED
  BY <1>1, <1>2 DEF AnswerTold

\* A SID that is listed once is renewed and answered once.
LEMMA RenewTold ==
  ASSUME IInv, NEW r \in Request, Renew(r)
  PROVE  AnswerTold
<1> DEFINE secs == GetTimeOut(r.timeout)
<1>1. reply'.to = "SUBSCRIBE" /\ reply'.status = RenewStatuses(r)
  BY DEF Renew, Answer
<1>2. Listed' = Listed
  BY RenewListed
<1>3. CASE RenewMatches(r) = {}
  <2>1. reply'.status = <<"PRECONDITION_FAILED">>
    BY <1>1, <1>3 DEF RenewStatuses
  <2>2. Len(<<"PRECONDITION_FAILED">>) = 1 /\ <<"PRECONDITION_FAILED">> # <<"OK">>
    OBVIOUS
  <2>3. subscriptions' = subscriptions
    <3>1. subscriptions = [i \in DOMAIN subscriptions |-> subscriptions[i]]
      BY DEF IInv, TypeOK
    <3> QED
      BY <1>3, <3>1 DEF Renew
  <2> QED
    BY <1>1, <2>1, <2>2, <2>3 DEF AnswerTold
<1>4. CASE RenewMatches(r) # {}
  <2>1. PICK i \in DOMAIN subscriptions : RenewMatches(r) = {i}
    <3>1. PICK i \in DOMAIN subscriptions : i \in RenewMatches(r)
      BY <1>4 DEF RenewMatches
    <3>2. ASSUME NEW j \in RenewMatches(r)
          PROVE  j = i
      <4>1. r.sid.sid = subscriptions[i].sid /\ r.sid.sid = subscriptions[j].sid /\ j \in DOMAIN subscriptions
        BY <3>1, <3>2 DEF RenewMatches
      <4> QED
        BY <4>1 DEF IInv, SubscriptionsConsistent, NoSidTwice
    <3> QED
      BY <3>1, <3>2
  <2>2. Cardinality({i}) = 1
    BY FS_Singleton
  <2>3. reply'.status = [k \in 1..1 |-> "OK"]
    BY <1>1, <2>1, <2>2 DEF RenewStatuses
  <2>4. reply'.status = <<"OK">> /\ Len(<<"OK">>) = 1
    BY <2>3
  <2>5. i \in DOMAIN subscriptions' /\ subscriptions'[i] = Renewed(subscriptions[i], secs)
    BY <2>1 DEF Renew
  <2>6. subscriptions'[i].age = 0
    BY <2>1, <2>5, EntriesTyped DEF Renewed, Subscription
  <2> QED
    BY <1>1, <1>2, <2>4, <2>5, <2>6 DEF AnswerTold
<1> QED
  BY <1>3, <1>4

LEMMA SubscribeNewTold ==
  ASSUME IInv, NEW r \in Request, NEW s \in Sid, SubscribeNew(r, s)
  PROVE  AnswerTold
<1> DEFINE sub == AfterNextSeq(NewSubscription(s, r.callback, GetTimeOut(r.timeout)))
<1>1. reply'.to = "SUBSCRIBE" /\ reply'.status = <<"OK">> /\ Len(<<"OK">>) = 1
  BY DEF SubscribeNew, Answer
<1>2. Listed' = Listed \cup {s}
  BY SubscribeNewListed
<1>3. sub.sid = s /\ sub.age = 0
  BY DEF AfterNextSeq, NewSubscription
<1>4. subscriptions' = Append(subscriptions, sub) /\ s \notin used
  BY DEF SubscribeNew, FreshSid
<1> HIDE DEF sub
<1>5. /\ Len(subscriptions) + 1 \in DOMAIN subscriptions'
      /\ subscriptions'[Len(subscriptions) + 1] = sub
  BY <1>4, AppendProperties, LenProperties DEF IInv, TypeOK
<1> QED
  BY <1>1, <1>2, <1>3, <1>4, <1>5 DEF AnswerTold

LEMMA CancelTold ==
  ASSUME IInv, NEW r \in Request, Cancel(r)
  PROVE  AnswerTold
<1>1. PICK i \in DOMAIN subscriptions : subscriptions' = RemoveAt(subscriptions, i)
  BY DEF Cancel, CancelMatches
<1>2. Listed' = Listed \ {subscriptions[i].sid} /\ subscriptions[i].sid \in Listed
  BY <1>1, RemovalListed
<1>3. reply'.to = "UNSUBSCRIBE" /\ reply'.status = <<"OK">> /\ Len(<<"OK">>) = 1
  BY DEF Cancel, Answer
<1> QED
  BY <1>2, <1>3 DEF AnswerTold

LEMMA NothingTold ==
  ASSUME reply'.to \notin {"SUBSCRIBE", "UNSUBSCRIBE"}
  PROVE  AnswerTold
BY DEF AnswerTold

\* A SUBSCRIBE or UNSUBSCRIBE is answered once, and the status tells what became of the
\* list: subscribe renews one entry at most, and unsubscribe ends one, because no SID is
\* listed twice.
THEOREM AnswersTell == Spec => AnswersTellEffects
<1>1. IInv /\ [Next]_vars => [AnswerTold]_vars
  <2> SUFFICES ASSUME IInv, Next PROVE AnswerTold
    OBVIOUS
  <2>1. ASSUME NEW r \in Request, Subscribe(r)
        PROVE  AnswerTold
    <3>1. CASE RenewMalformed(r) \/ RenewEmptySid(r) \/ SubscribeBadNt(r) \/ SubscribeIncomplete(r)
      BY <3>1, RejectTold DEF RenewMalformed, RenewEmptySid, SubscribeBadNt, SubscribeIncomplete
    <3> QED
      BY <2>1, <3>1, RenewTold, SubscribeNewTold DEF Subscribe
  <2>2. ASSUME NEW r \in Request, Unsubscribe(r)
        PROVE  AnswerTold
    <3>1. CASE UnsubscribeMalformed(r) \/ UnsubscribeNoSid(r) \/ UnsubscribeUnknown(r)
      BY <3>1, RejectTold DEF UnsubscribeMalformed, UnsubscribeNoSid, UnsubscribeUnknown
    <3> QED
      BY <2>2, <3>1, CancelTold DEF Unsubscribe
  <2>3. CASE OtherMethod
    BY <2>3, NothingTold DEF OtherMethod
  <2>4. CASE \E v \in Var, x \in Val : SetValue(v, x)
    BY <2>4, NothingTold DEF SetValue, NoAnswer
  <2>5. CASE Sweep
    BY <2>5, NothingTold DEF Sweep, SweepSend, SweepErase, SweepEnd, SweepOverrun, NoAnswer
  <2>6. CASE Tick
    BY <2>6, NothingTold DEF Tick, NoAnswer
  <2> QED
    BY <2>1, <2>2, <2>3, <2>4, <2>5, <2>6 DEF Next
<1>2. [AnswerTold]_vars =>
        [/\ reply'.to \in {"SUBSCRIBE", "UNSUBSCRIBE"} => Len(reply'.status) = 1
         /\ reply' = [to |-> "UNSUBSCRIBE", status |-> <<"OK">>] =>
              \E s \in Listed : Listed' = Listed \ {s}
         /\ reply' = [to |-> "SUBSCRIBE", status |-> <<"OK">>] =>
              /\ Listed \subseteq Listed'
              /\ \E i \in DOMAIN subscriptions' :
                   subscriptions'[i].age = 0 /\ (subscriptions'[i].sid \in used => Listed' = Listed)
         /\ reply'.to \in {"SUBSCRIBE", "UNSUBSCRIBE"} /\ reply'.status # <<"OK">> =>
              subscriptions' = subscriptions
        ]_vars
  BY DEF AnswerTold
<1> QED
  BY <1>1, <1>2, Inductive, PTL DEF Spec, AnswersTellEffects

-----------------------------------------------------------------------------
(* The refinement: every step of the controller is a step of the publisher,   *)
(* or leaves the publisher's variables alone.                                 *)

LEMMA PublisherInit == Init => Publisher!Init
<1> SUFFICES ASSUME Init PROVE Publisher!Init
  OBVIOUS
<1>1. SidStatus = [s \in Sid |-> "unused"]
  BY DEF Init, SidStatus
<1> QED
  BY <1>1 DEF Init, Publisher!Init

LEMMA PublisherStutter ==
  ASSUME Listed' = Listed, UNCHANGED <<values, clientVars>>
  PROVE  UNCHANGED Publisher!vars
<1>1. SidStatus' = SidStatus
  BY DEF SidStatus, clientVars
<1> QED
  BY <1>1 DEF Publisher!vars, clientVars

LEMMA PublisherStart ==
  ASSUME IInv, NEW r \in Request, NEW s \in Sid, SubscribeNew(r, s)
  PROVE  Publisher!Start(s)
<1>1. Listed' = Listed \cup {s}
  BY SubscribeNewListed
<1>2. s \notin used /\ used' = used \cup {s}
  BY DEF SubscribeNew, FreshSid
<1>3. SidStatus[s] = "unused"
  BY <1>2 DEF SidStatus
<1>4. SidStatus' = [SidStatus EXCEPT ![s] = "active"]
  BY <1>1, <1>2 DEF SidStatus
<1>5. key' = [key EXCEPT ![s] = 0]
  BY DEF SubscribeNew, NextSeq, NewSubscription
<1>6. view' = [view EXCEPT ![s] = values] /\ values' = values
  BY DEF SubscribeNew
<1> QED
  BY <1>3, <1>4, <1>5, <1>6 DEF Publisher!Start

LEMMA PublisherEnd ==
  ASSUME IInv, NEW i \in DOMAIN subscriptions,
         subscriptions' = RemoveAt(subscriptions, i),
         UNCHANGED <<values, clientVars>>
  PROVE  Publisher!End(subscriptions[i].sid)
<1> DEFINE s == subscriptions[i].sid
<1>1. Listed' = Listed \ {s} /\ s \in Listed /\ s \in Sid
  BY RemovalListed
<1>2. s \in used /\ used' = used
  BY <1>1 DEF IInv, SubscriptionsConsistent, clientVars
<1> HIDE DEF s
<1>3. SidStatus[s] = "active"
  BY <1>1, <1>2 DEF SidStatus
<1>4. SidStatus' = [SidStatus EXCEPT ![s] = "ended"]
  BY <1>1, <1>2 DEF SidStatus
<1>5. Publisher!End(s)
  BY <1>3, <1>4 DEF Publisher!End, clientVars
<1> QED
  BY <1>5 DEF s

LEMMA PublisherPublish ==
  ASSUME IInv, SweepSend
  PROVE  \E s \in Sid, v \in Var : Publisher!Publish(s, v)
<1> DEFINE sub == subscriptions[pos]
           s == sub.sid
<1>1. pos \in DOMAIN subscriptions /\ changed \in Var
  BY VarAssumption DEF SweepSend, IInv, SweepArgument
<1>2. sub \in Subscription
  BY <1>1, EntriesTyped
<1>3. sub.firstMessageSent /\ sub.lastSeq = key[s]
  BY <1>1 DEF IInv, SubscriptionsConsistent
<1>4. s \in Sid /\ s \in Listed /\ s \in used
  BY <1>1, <1>2 DEF Listed, SidsOf, Subscription, IInv, SubscriptionsConsistent
<1>5. NextSeq(sub) = Publisher!NextKey(key[s])
  BY <1>2, <1>3, NextSeqProperties DEF Publisher!NextKey
<1>6. /\ key' = [key EXCEPT ![s] = NextSeq(sub)]
      /\ view' = [view EXCEPT ![s][changed] = values[changed]]
      /\ UNCHANGED <<values, used>>
  BY DEF SweepSend
<1>7. Listed' = Listed
  BY SweepSendListed
<1> HIDE DEF sub, s
<1>8. SidStatus[s] = "active" /\ SidStatus' = SidStatus
  BY <1>4, <1>6, <1>7 DEF SidStatus
<1>9. Publisher!Publish(s, changed)
  BY <1>5, <1>6, <1>8 DEF Publisher!Publish
<1> QED
  BY <1>1, <1>4, <1>9

LEMMA PublisherStep == IInv /\ [Next]_vars => [Publisher!Next]_(Publisher!vars)
<1> SUFFICES ASSUME IInv, [Next]_vars
             PROVE  Publisher!Next \/ UNCHANGED Publisher!vars
  OBVIOUS
<1>1. CASE \E r \in Request : Subscribe(r)
  <2>1. PICK r \in Request : Subscribe(r)
    BY <1>1
  <2>2. CASE RenewMalformed(r) \/ RenewEmptySid(r) \/ SubscribeBadNt(r) \/ SubscribeIncomplete(r)
    BY <2>2, PublisherStutter
    DEF RenewMalformed, RenewEmptySid, SubscribeBadNt, SubscribeIncomplete, Reject, Listed
  <2>3. CASE Renew(r)
    BY <2>3, RenewListed, PublisherStutter DEF Renew
  <2>4. CASE \E s \in Sid : SubscribeNew(r, s)
    BY <2>4, PublisherStart DEF Publisher!Next
  <2> QED
    BY <2>1, <2>2, <2>3, <2>4 DEF Subscribe
<1>2. CASE \E r \in Request : Unsubscribe(r)
  <2>1. PICK r \in Request : Unsubscribe(r)
    BY <1>2
  <2>2. CASE UnsubscribeMalformed(r) \/ UnsubscribeNoSid(r) \/ UnsubscribeUnknown(r)
    BY <2>2, PublisherStutter
    DEF UnsubscribeMalformed, UnsubscribeNoSid, UnsubscribeUnknown, Reject, Listed
  <2>3. CASE Cancel(r)
    <3>1. PICK i \in DOMAIN subscriptions : subscriptions' = RemoveAt(subscriptions, i)
      BY <2>3 DEF Cancel, CancelMatches
    <3>2. subscriptions[i].sid \in Sid /\ Publisher!End(subscriptions[i].sid)
      BY <2>3, <3>1, EntriesTyped, PublisherEnd DEF Cancel
    <3> QED
      BY <3>2 DEF Publisher!Next
  <2> QED
    BY <2>1, <2>2, <2>3 DEF Unsubscribe
<1>3. CASE OtherMethod
  BY <1>3, PublisherStutter DEF OtherMethod, Listed
<1>4. CASE \E v \in Var, x \in Val : SetValue(v, x)
  <2>1. PICK v \in Var, x \in Val : SetValue(v, x)
    BY <1>4
  <2>2. SidStatus' = SidStatus
    BY <2>1 DEF SetValue, SidStatus, Listed, clientVars
  <2>3. Publisher!Change(v, x)
    BY <2>1, <2>2 DEF SetValue, Publisher!Change, clientVars
  <2> QED
    BY <2>3 DEF Publisher!Next
<1>5. CASE SweepSend
  BY <1>5, PublisherPublish DEF Publisher!Next
<1>6. CASE SweepErase
  <2>1. pos \in DOMAIN subscriptions /\ subscriptions' = RemoveAt(subscriptions, pos)
    BY <1>6 DEF SweepErase
  <2>2. subscriptions[pos].sid \in Sid /\ Publisher!End(subscriptions[pos].sid)
    BY <1>6, <2>1, EntriesTyped, PublisherEnd DEF SweepErase
  <2> QED
    BY <2>2 DEF Publisher!Next
<1>7. CASE SweepEnd \/ SweepOverrun
  BY <1>7, PublisherStutter DEF SweepEnd, SweepOverrun, Listed
<1>8. CASE Tick
  BY <1>8, TickListed, PublisherStutter DEF Tick
<1>9. CASE UNCHANGED vars
  BY <1>9, PublisherStutter DEF vars, Listed
<1> QED
  BY <1>1, <1>2, <1>3, <1>4, <1>5, <1>6, <1>7, <1>8, <1>9 DEF Next, Sweep

\* The controller implements the publisher: a subscription starts with key 0
\* and every value, its events carry current values under consecutive keys,
\* and it ends for good.
THEOREM Refinement == Spec => PublisherSpec
BY PublisherInit, PublisherStep, Inductive, PTL
DEF Spec, PublisherSpec, Publisher!Spec

\* A SID that has left the list never returns to it and is sent no event.
THEOREM EndedForGood == Spec => EndedStaysEnded
<1>1. IInv /\ [Next]_vars =>
        [\A s \in used \ Listed : s \notin Listed' /\ key'[s] = key[s]]_vars
  <2> SUFFICES ASSUME IInv, Next, NEW s \in used \ Listed
               PROVE  s \notin Listed' /\ key'[s] = key[s]
    OBVIOUS
  <2>1. s \in Sid /\ SidStatus[s] = "ended"
    BY DEF IInv, TypeOK, SidStatus
  <2>2. [Publisher!Next]_(Publisher!vars)
    BY PublisherStep
  <2>3. SidStatus'[s] = "ended" /\ key'[s] = key[s]
    <3>1. key \in [Sid -> -1..SeqMax] /\ SidStatus = [t \in Sid |-> SidStatus[t]]
      BY DEF IInv, TypeOK, SidStatus
    <3>2. \A t \in Sid : SidStatus[t] \in {"unused", "active"} => t # s
      BY <2>1
    <3> QED
      BY <2>1, <2>2, <3>1, <3>2
      DEF Publisher!Next, Publisher!vars, Publisher!Change, Publisher!Start,
          Publisher!Publish, Publisher!End
  <2> QED
    BY <2>1, <2>3 DEF SidStatus
<1> QED
  BY <1>1, Inductive, PTL DEF Spec, EndedStaysEnded

-----------------------------------------------------------------------------
(* Up to three subscriptions, every subscriber is told every change.          *)

LEMMA ShortList ==
  ASSUME IInv, Cardinality(Sid) <= 3
  PROVE  Len(subscriptions) \in 0..3 /\ DOMAIN subscriptions = 1..Len(subscriptions)
<1>1. Len(subscriptions) \in Nat /\ DOMAIN subscriptions = 1..Len(subscriptions)
  BY LenProperties DEF IInv, TypeOK
<1> DEFINE f == [i \in 1..Len(subscriptions) |-> subscriptions[i].sid]
<1>2. f \in [1..Len(subscriptions) -> Sid]
  BY <1>1, EntriesTyped
<1>3. \A i, j \in 1..Len(subscriptions) : f[i] = f[j] => i = j
  BY <1>1 DEF IInv, SubscriptionsConsistent, NoSidTwice
<1>4. IsFiniteSet(1..Len(subscriptions)) /\ Cardinality(1..Len(subscriptions)) = Len(subscriptions)
  BY <1>1, FS_Interval
<1>5. IsFiniteSet(Sid) /\ Cardinality(Sid) \in Nat
  BY SidAssumption, FS_CardinalityType
<1> HIDE DEF f
<1>6. ~(Cardinality(Sid) < Cardinality(1..Len(subscriptions)))
  BY <1>2, <1>3, <1>4, <1>5, FS_PigeonHole
<1> QED
  BY <1>1, <1>4, <1>5, <1>6

\* A step after which each entry's subscriber is at least as well informed.
LEMMA SweepEraseCurrent ==
  ASSUME IInv, Cardinality(Sid) <= 3, SubscribersCurrent, SweepErase
  PROVE  SubscribersCurrent'
<1>1. /\ subscriptions \in Seq(Subscription)
      /\ Len(subscriptions) \in 0..3 /\ DOMAIN subscriptions = 1..Len(subscriptions)
      /\ pos \in 1..Len(subscriptions)
  BY ShortList DEF IInv, TypeOK, SweepErase
<1>2. /\ subscriptions' \in Seq(Subscription)
      /\ Len(subscriptions') = Len(subscriptions) - 1
      /\ \A j \in 1..Len(subscriptions) - 1 :
           subscriptions'[j] = IF j < pos THEN subscriptions[j] ELSE subscriptions[j + 1]
  BY <1>1, RemoveAtProperties DEF SweepErase
<1>3. DOMAIN subscriptions' = 1..Len(subscriptions) - 1
  BY <1>1, <1>2, LenProperties
<1>4. /\ pc = "sweep" /\ pc' = "sweep" /\ pc' # "idle"
      /\ values' = values /\ changed' = changed /\ view' = view
      /\ pos' = AfterErase(pos, Len(subscriptions))
  BY DEF SweepErase, clientVars
<1>5. pos' \in Int /\ pos' >= pos /\ (pos' = pos \/ pos = Len(subscriptions))
  <2>1. /\ pos \in Int /\ Len(subscriptions) \in Int
        /\ 1 <= pos /\ pos <= Len(subscriptions) /\ Len(subscriptions) <= 3
    BY <1>1
  <2>2. pos' = IF 2 * (pos - 1) < Len(subscriptions) THEN pos ELSE pos + 1
    BY <1>4 DEF AfterErase
  <2>3. CASE 2 * (pos - 1) < Len(subscriptions)
    BY <2>1, <2>2, <2>3
  <2>4. CASE ~(2 * (pos - 1) < Len(subscriptions))
    <3>1. pos = Len(subscriptions)
      BY ONLY <2>1, <2>4
    <3> QED
      BY <2>1, <2>2, <2>4, <3>1
  <2> QED
    BY <2>3, <2>4
<1>6. ASSUME NEW j \in DOMAIN subscriptions', NEW v \in Evented
      PROVE  \/ view[subscriptions'[j].sid][v] = values[v]
             \/ v = changed /\ j >= pos'
  <2>1. CASE j < pos
    <3>1. /\ subscriptions'[j] = subscriptions[j] /\ j \in DOMAIN subscriptions
          /\ ~(j >= pos)
      BY <2>1, <1>1, <1>2, <1>3
    <3>2. view[subscriptions[j].sid][v] = values[v]
      BY <3>1 DEF SubscribersCurrent
    <3> QED
      BY <3>1, <3>2
  <2>2. CASE ~(j < pos)
    <3>1. subscriptions'[j] = subscriptions[j + 1] /\ j + 1 \in DOMAIN subscriptions
      BY <2>2, <1>1, <1>2, <1>3
    <3>2. /\ j \in Int /\ pos \in Int /\ Len(subscriptions) \in Int
          /\ j <= Len(subscriptions) - 1
      BY <1>1, <1>3
    <3>3. j >= pos /\ pos # Len(subscriptions)
      BY ONLY <2>2, <3>2
    <3>4. j >= pos'
      BY <1>5, <3>3
    <3>5. view[subscriptions[j + 1].sid][v] = values[v] \/ v = changed
      BY <3>1 DEF SubscribersCurrent
    <3> QED
      BY <3>1, <3>4, <3>5
  <2> QED
    BY <2>1, <2>2
<1> QED
  BY <1>4, <1>6 DEF SubscribersCurrent

LEMMA SweepSendCurrent ==
  ASSUME IInv, SubscribersCurrent, SweepSend
  PROVE  SubscribersCurrent'
<1> DEFINE sub == subscriptions[pos]
<1>1. /\ pos \in DOMAIN subscriptions /\ changed \in Var
      /\ subscriptions \in Seq(Subscription) /\ DOMAIN subscriptions = 1..Len(subscriptions)
      /\ Len(subscriptions) \in Nat
  BY VarAssumption, LenProperties DEF SweepSend, IInv, SweepArgument, TypeOK
<1>2. sub \in Subscription /\ sub.sid \in Sid /\ sub.firstMessageSent
  BY <1>1, EntriesTyped DEF IInv, SubscriptionsConsistent
<1>3. AfterNextSeq(sub) \in Subscription /\ AfterNextSeq(sub).sid = sub.sid
  BY <1>2, NextSeqProperties
<1>4. /\ pc = "sweep" /\ pc' = "sweep" /\ pos' = pos + 1
      /\ values' = values /\ changed' = changed
      /\ view' = [view EXCEPT ![sub.sid][changed] = values[changed]]
      /\ subscriptions' = [subscriptions EXCEPT ![pos] = AfterNextSeq(sub)]
  BY DEF SweepSend
<1>5. /\ DOMAIN subscriptions' = DOMAIN subscriptions
      /\ \A i \in DOMAIN subscriptions : subscriptions'[i].sid = subscriptions[i].sid
  BY <1>1, <1>3, <1>4
<1>6. view \in [Sid -> [Var -> Val \cup {NoVal}]]
  BY DEF IInv, TypeOK
<1>7. ASSUME NEW i \in DOMAIN subscriptions, NEW v \in Evented
      PROVE  \/ view'[subscriptions[i].sid][v] = values[v]
             \/ v = changed /\ i >= pos + 1
  <2>1. subscriptions[i].sid \in Sid /\ v \in Var
    BY EntriesTyped, VarAssumption
  <2>2. CASE i = pos /\ v = changed
    BY <2>1, <2>2, <1>1, <1>2, <1>4, <1>6
  <2>3. CASE i = pos /\ v # changed
    <3>1. view[sub.sid][v] = values[v]
      BY <2>3, <1>4 DEF SubscribersCurrent
    <3>2. view'[sub.sid][v] = view[sub.sid][v]
      BY <2>1, <2>3, <1>1, <1>2, <1>4, <1>6
    <3> QED
      BY <2>3, <3>1, <3>2
  <2>4. CASE i # pos
    <3>1. subscriptions[i].sid # sub.sid
      BY <2>4, <1>1 DEF IInv, SubscriptionsConsistent, NoSidTwice
    <3>2. view'[subscriptions[i].sid] = view[subscriptions[i].sid]
      BY <3>1, <2>1, <1>2, <1>4, <1>6
    <3>3. view[subscriptions[i].sid][v] = values[v] \/ (v = changed /\ i >= pos)
      BY DEF SubscribersCurrent
    <3> QED
      BY <2>4, <3>2, <3>3, <1>1
  <2> QED
    BY <2>2, <2>3, <2>4
<1> QED
  BY <1>4, <1>5, <1>7 DEF SubscribersCurrent

LEMMA SubscribeNewCurrent ==
  ASSUME IInv, SubscribersCurrent, NEW r \in Request, NEW s \in Sid,
         pc = "idle", SubscribeNew(r, s)
  PROVE  SubscribersCurrent'
<1> DEFINE sub == AfterNextSeq(NewSubscription(s, r.callback, GetTimeOut(r.timeout)))
<1>1. r.callback \in Url
  BY DEF SubscribeNew, HasCallback, Request, CallbackHeader
<1>2. sub \in Subscription /\ sub.sid = s
  BY <1>1, GetTimeOutType, FirstSeqProperties
<1>3. /\ subscriptions' = Append(subscriptions, sub) /\ s \notin used
      /\ view' = [view EXCEPT ![s] = values] /\ values' = values
  BY DEF SubscribeNew, FreshSid
<1> HIDE DEF sub
<1>4. /\ subscriptions \in Seq(Subscription) /\ NoSidTwice(subscriptions)
      /\ Listed \subseteq used /\ view \in [Sid -> [Var -> Val \cup {NoVal}]]
  BY DEF IInv, TypeOK, SubscriptionsConsistent
<1>5. \A j \in DOMAIN subscriptions' :
        subscriptions'[j] = sub \/ \E k \in DOMAIN subscriptions : subscriptions'[j] = subscriptions[k]
  BY <1>2, <1>3, <1>4, SidsOfAppend DEF Listed
<1>6. ASSUME NEW j \in DOMAIN subscriptions', NEW v \in Evented
      PROVE  view'[subscriptions'[j].sid][v] = values[v]
  <2>1. CASE subscriptions'[j] = sub
    BY <2>1, <1>2, <1>3, <1>4
  <2>2. CASE \E k \in DOMAIN subscriptions : subscriptions'[j] = subscriptions[k]
    <3>1. PICK k \in DOMAIN subscriptions : subscriptions'[j] = subscriptions[k]
      BY <2>2
    <3>2. subscriptions[k].sid \in Sid /\ subscriptions[k].sid # s
      BY <1>3, <1>4, EntriesTyped DEF Listed, SidsOf
    <3>3. view'[subscriptions[k].sid] = view[subscriptions[k].sid]
      BY <3>2, <1>3, <1>4
    <3> QED
      BY <3>1, <3>3 DEF SubscribersCurrent
  <2> QED
    BY <2>1, <2>2, <1>5
<1> QED
  BY <1>3, <1>6 DEF SubscribersCurrent

\* A step that changes neither values nor views, after which each entry's SID
\* was listed before.
LEMMA ListCurrent ==
  ASSUME SubscribersCurrent, pc = "idle", UNCHANGED <<values, pc, view>>,
         Listed' \subseteq Listed
  PROVE  SubscribersCurrent'
<1>1. ASSUME NEW j \in DOMAIN subscriptions', NEW v \in Evented
      PROVE  view[subscriptions'[j].sid][v] = values[v]
  <2>1. PICK k \in DOMAIN subscriptions : subscriptions'[j].sid = subscriptions[k].sid
    BY DEF Listed, SidsOf
  <2> QED
    BY <2>1 DEF SubscribersCurrent
<1> QED
  BY <1>1 DEF SubscribersCurrent

LEMMA TickCurrent ==
  ASSUME IInv, SubscribersCurrent, Tick
  PROVE  SubscribersCurrent'
<1>1. /\ DOMAIN subscriptions' = DOMAIN subscriptions
      /\ \A i \in DOMAIN subscriptions : subscriptions'[i].sid = subscriptions[i].sid
  BY EntriesTyped DEF Tick, Subscription
<1> QED
  BY <1>1 DEF Tick, SubscribersCurrent, sweepVars, clientVars

LEMMA CurrentStep ==
  ASSUME IInv, Cardinality(Sid) <= 3, SubscribersCurrent, [Next]_vars
  PROVE  SubscribersCurrent'
<1>1. CASE \E r \in Request : Subscribe(r)
  <2>1. PICK r \in Request : Subscribe(r)
    BY <1>1
  <2>2. CASE RenewMalformed(r) \/ RenewEmptySid(r) \/ SubscribeBadNt(r) \/ SubscribeIncomplete(r)
    BY <2>1, <2>2, ListCurrent
    DEF RenewMalformed, RenewEmptySid, SubscribeBadNt, SubscribeIncomplete, Reject, Listed,
        Subscribe, sweepVars, clientVars
  <2>3. CASE Renew(r)
    BY <2>1, <2>3, RenewListed, ListCurrent DEF Renew, Subscribe, sweepVars, clientVars
  <2>4. CASE \E s \in Sid : SubscribeNew(r, s)
    BY <2>1, <2>4, SubscribeNewCurrent DEF Subscribe
  <2> QED
    BY <2>1, <2>2, <2>3, <2>4 DEF Subscribe
<1>2. CASE \E r \in Request : Unsubscribe(r)
  <2>1. PICK r \in Request : Unsubscribe(r)
    BY <1>2
  <2>2. CASE UnsubscribeMalformed(r) \/ UnsubscribeNoSid(r) \/ UnsubscribeUnknown(r)
    BY <2>1, <2>2, ListCurrent
    DEF UnsubscribeMalformed, UnsubscribeNoSid, UnsubscribeUnknown, Reject, Listed,
        Unsubscribe, sweepVars, clientVars
  <2>3. CASE Cancel(r)
    <3>1. PICK i \in DOMAIN subscriptions : subscriptions' = RemoveAt(subscriptions, i)
      BY <2>3 DEF Cancel, CancelMatches
    <3>2. Listed' \subseteq Listed
      BY <3>1, RemovalListed
    <3> QED
      BY <2>1, <2>3, <3>2, ListCurrent DEF Cancel, Unsubscribe, sweepVars, clientVars
  <2> QED
    BY <2>1, <2>2, <2>3 DEF Unsubscribe
<1>3. CASE OtherMethod
  BY <1>3, ListCurrent DEF OtherMethod, Listed, sweepVars, clientVars
<1>4. CASE \E v \in Var, x \in Val : SetValue(v, x)
  <2>1. PICK v \in Var, x \in Val : SetValue(v, x)
    BY <1>4
  <2>2. \A u \in Evented : u # v => values'[u] = values[u]
    BY <2>1, VarAssumption DEF SetValue, IInv, TypeOK
  <2>3. \A i \in DOMAIN subscriptions : i >= 1
    BY LenProperties DEF IInv, TypeOK
  <2> QED
    BY <2>1, <2>2, <2>3 DEF SetValue, SubscribersCurrent, sweepVars, clientVars
<1>5. CASE SweepSend
  BY <1>5, SweepSendCurrent
<1>6. CASE SweepErase
  BY <1>6, SweepEraseCurrent
<1>7. CASE SweepEnd
  <2>1. \A i \in DOMAIN subscriptions : ~(i >= pos)
    BY <1>7, LenProperties DEF SweepEnd, IInv, TypeOK
  <2> QED
    BY <1>7, <2>1 DEF SweepEnd, SubscribersCurrent, clientVars
<1>8. CASE SweepOverrun
  BY <1>8 DEF SweepOverrun, SubscribersCurrent, clientVars
<1>9. CASE Tick
  BY <1>9, TickCurrent
<1>10. CASE UNCHANGED vars
  BY <1>10 DEF vars, SubscribersCurrent, sweepVars, clientVars
<1> QED
  BY <1>1, <1>2, <1>3, <1>4, <1>5, <1>6, <1>7, <1>8, <1>9, <1>10 DEF Next, Sweep

\* With at most three subscriptions no change of an evented variable passes a
\* listed subscriber by.  The bound is exact: a fourth makes room for an entry
\* the loop skips.
THEOREM CurrentUpToThree ==
  ASSUME Cardinality(Sid) <= 3
  PROVE  Spec => []SubscribersCurrent
<1>1. Init => SubscribersCurrent
  <2>1. ASSUME Init PROVE DOMAIN subscriptions = {}
    BY <2>1 DEF Init
  <2> QED
    BY <2>1 DEF SubscribersCurrent
<1>2. IInv /\ SubscribersCurrent /\ [Next]_vars => SubscribersCurrent'
  BY CurrentStep
<1> QED
  BY <1>1, <1>2, Inductive, PTL DEF Spec
=============================================================================
