-------------------------- MODULE EventController --------------------------
(***************************************************************************)
(* The eventing of one device service: BrisaEventController, the           *)
(* BrisaEventSubscription objects it lists and the BrisaStateVariable      *)
(* objects whose "changed" signal it is connected to.                      *)
(*                                                                         *)
(* All of it runs on the device's event-loop thread, so a request, or a    *)
(* new value of a variable, is handled to its end before the next one.     *)
(* Only the wall clock moves meanwhile, which is why the loop of           *)
(* variableChanged is modelled one iteration at a time.                    *)
(***************************************************************************)
EXTENDS Integers, Sequences, SequencesExt

CONSTANTS
  Sid,           \* the UUIDs getUuid can return
  Var,           \* the state variables of the service
  Evented,       \* those declared with sendEvents="yes"
  Multicast,     \* those declared with multicast="yes"
  Val,           \* the values validateNewValue accepts
  InitVal,       \* the value of every variable when the service starts
  NoVal,         \* (ghost) no value known
  NoVar,         \* no variable
  Url,           \* what a CALLBACK header can start with (no URL included)
  NoHeader,      \* a header the request does not carry
  Seconds,       \* the n of the TIMEOUT headers "Second-n" that requests carry
  MaxAge,        \* ages saturate here: past every timeout, all ages are alike
  SeqMax         \* the largest event key, 0xFFFFFFFF in the code

ASSUME VarAssumption ==
  /\ Evented \subseteq Var
  /\ Multicast \subseteq Var
  /\ NoVar \notin Var
  /\ InitVal \in Val
  /\ NoHeader \notin Url
ASSUME SidAssumption == IsFiniteSet(Sid)
ASSUME TimeAssumption ==
  /\ MaxAge \in Nat
  /\ Seconds \subseteq Int
  /\ \A n \in Seconds : n <= MaxAge
ASSUME SeqAssumption == SeqMax \in Nat /\ SeqMax > 0

VARIABLES
  values,            \* BrisaStateVariable::_value, per variable
  subscriptions,     \* BrisaEventController::subscriptions, in list order
  pc,                \* "idle"; "sweep" inside variableChanged; "undefined"
                     \*   once its iterator has left the list
  changed,           \* the argument of variableChanged during a sweep
  pos,               \* where the iterator of variableChanged stands (1 = begin)
  nextMulticastSeq,  \* the service's multicast key counter
  reply,             \* the request answered last and the statuses it was sent
  used,              \* ghost: the SIDs handed out so far
  key,               \* ghost: key of the last event sent per SID, -1 if none
  view,              \* ghost: what the events sent under a SID told so far
  mkey               \* ghost: key of the last multicast event, -1 if none

clientVars == <<used, key, view>>
sweepVars == <<pc, changed, pos>>
multicastVars == <<nextMulticastSeq, mkey>>
vars == <<values, subscriptions, sweepVars, multicastVars, reply, clientVars>>

-----------------------------------------------------------------------------
(* Requests, as the headers the handlers look at.  The SID header is        *)
(* missing, empty, the bare identifier of a subscription, or that           *)
(* identifier after "uuid:", the form the device hands out.                 *)

SidHeader ==
  [form : {"absent", "empty"}, sid : {NoHeader}]
    \cup [form : {"bare", "uuid"}, sid : Sid]

\* "Second-n", or a header that is missing or holds no number ("infinite").
TimeoutHeader == [form : {"none"}, secs : {0}] \cup [form : {"seconds"}, secs : Seconds]

CallbackHeader == Url \cup {NoHeader}

Request ==
  [sid : SidHeader, nt : {"absent", "upnp:event", "other"},
   callback : CallbackHeader, timeout : TimeoutHeader]

HasSid(r) == r.sid.form # "absent"
HasNt(r) == r.nt # "absent"
HasCallback(r) == r.callback # NoHeader

\* QString::toInt of the TIMEOUT header without "Second-": 0 if it is no number.
GetTimeOut(h) == IF h.form = "seconds" THEN h.secs ELSE 0

-----------------------------------------------------------------------------
(* Subscriptions *)

NewSubscription(s, url, secs) ==
  [sid |-> s, callback |-> url, timeout |-> secs, age |-> 0,
   lastSeq |-> 0, firstMessageSent |-> FALSE]

Renewed(sub, secs) == [sub EXCEPT !.age = 0, !.timeout = secs]

HasExpired(sub) == sub.timeout >= 0 /\ sub.age >= sub.timeout

\* Mutants of NextSeq: no wrap at all, and a wrap to 0, the initial event's key.
NextSeqNoWrap(sub) == IF ~sub.firstMessageSent THEN 0 ELSE sub.lastSeq + 1
NextSeqWrapToZero(sub) ==
  IF ~sub.firstMessageSent \/ sub.lastSeq = SeqMax THEN 0 ELSE sub.lastSeq + 1

\* getNextSeq: the key it returns, and the subscription it leaves behind.
NextSeq(sub) ==
  IF ~sub.firstMessageSent THEN 0
  ELSE (IF sub.lastSeq = SeqMax THEN 0 ELSE sub.lastSeq) + 1

\* Mutant: the incremented key is returned, not stored.
AfterNextSeqNotStored(sub) == [sub EXCEPT !.firstMessageSent = TRUE]

AfterNextSeq(sub) ==
  [sub EXCEPT !.firstMessageSent = TRUE,
              !.lastSeq = IF sub.firstMessageSent THEN NextSeq(sub) ELSE @]

SidsOf(q) == {q[i].sid : i \in DOMAIN q}
Listed == SidsOf(subscriptions)

-----------------------------------------------------------------------------
Init ==
  /\ values = [v \in Var |-> InitVal]
  /\ subscriptions = <<>>
  /\ pc = "idle" /\ changed = NoVar /\ pos = 0
  /\ nextMulticastSeq = 0 /\ mkey = -1
  /\ reply = [to |-> "none", status |-> <<>>]
  /\ used = {}
  /\ key = [s \in Sid |-> -1]
  /\ view = [s \in Sid |-> [v \in Var |-> NoVal]]

Answer(method, statuses) == reply' = [to |-> method, status |-> statuses]
NoAnswer == reply' = [to |-> "none", status |-> <<>>]

Reject(method, status) ==
  /\ Answer(method, <<status>>)
  /\ UNCHANGED <<values, subscriptions, sweepVars, multicastVars, clientVars>>

-----------------------------------------------------------------------------
(* SUBSCRIBE *)

RenewMalformed(r) ==
  /\ HasSid(r) /\ (HasNt(r) \/ HasCallback(r))
  /\ Reject("SUBSCRIBE", "BAD_REQUEST")

RenewEmptySid(r) ==
  /\ r.sid.form = "empty" /\ ~HasNt(r) /\ ~HasCallback(r)
  /\ Reject("SUBSCRIBE", "PRECONDITION_FAILED")

\* The foreach over the list: every entry whose SID is the header's text is
\* renewed and answered, and 412 is sent when there was none.
RenewMatches(r) ==
  {i \in DOMAIN subscriptions :
     r.sid = [form |-> "bare", sid |-> subscriptions[i].sid]}

\* Mutant: validSubscription is never set, so 412 follows the acceptance.
RenewStatusesNoFlag(r) ==
  [k \in 1..Cardinality(RenewMatches(r)) |-> "OK"] \o <<"PRECONDITION_FAILED">>

RenewStatuses(r) ==
  IF RenewMatches(r) = {} THEN <<"PRECONDITION_FAILED">>
  ELSE [k \in 1..Cardinality(RenewMatches(r)) |-> "OK"]

Renew(r) ==
  /\ r.sid.form \in {"bare", "uuid"} /\ ~HasNt(r) /\ ~HasCallback(r)
  /\ subscriptions' =
       [i \in DOMAIN subscriptions |->
          IF i \in RenewMatches(r)
          THEN Renewed(subscriptions[i], GetTimeOut(r.timeout))
          ELSE subscriptions[i]]
  /\ Answer("SUBSCRIBE", RenewStatuses(r))
  /\ UNCHANGED <<values, sweepVars, multicastVars, clientVars>>

\* getUuid never returns an identifier twice.  Mutant: identifiers are recycled.
FreshSidRecycled(s) == s \notin Listed
FreshSid(s) == s \notin used

\* A new subscription is listed and accepted, then sent its initial event,
\* which holds every variable of the service.
SubscribeNew(r, s) ==
  /\ ~HasSid(r) /\ HasCallback(r) /\ r.nt = "upnp:event"
  /\ FreshSid(s)
  /\ LET new == NewSubscription(s, r.callback, GetTimeOut(r.timeout))
     IN /\ subscriptions' = Append(subscriptions, AfterNextSeq(new))
        /\ key' = [key EXCEPT ![s] = NextSeq(new)]
  /\ view' = [view EXCEPT ![s] = values]
  /\ used' = used \cup {s}
  /\ Answer("SUBSCRIBE", <<"OK">>)
  /\ UNCHANGED <<values, sweepVars, multicastVars>>

SubscribeBadNt(r) ==
  /\ ~HasSid(r) /\ HasCallback(r) /\ r.nt = "other"
  /\ Reject("SUBSCRIBE", "PRECONDITION_FAILED")

SubscribeIncomplete(r) ==
  /\ ~HasSid(r) /\ ~(HasNt(r) /\ HasCallback(r))
  /\ Reject("SUBSCRIBE", "PRECONDITION_FAILED")

Subscribe(r) ==
  /\ pc = "idle"
  /\ \/ RenewMalformed(r)
     \/ RenewEmptySid(r)
     \/ Renew(r)
     \/ \E s \in Sid : SubscribeNew(r, s)
     \/ SubscribeBadNt(r)
     \/ SubscribeIncomplete(r)

-----------------------------------------------------------------------------
(* UNSUBSCRIBE *)

UnsubscribeMalformed(r) ==
  /\ HasSid(r) /\ (HasNt(r) \/ HasCallback(r))
  /\ Reject("UNSUBSCRIBE", "BAD_REQUEST")

UnsubscribeNoSid(r) ==
  /\ r.sid.form = "absent" \/ (r.sid.form = "empty" /\ ~HasNt(r) /\ ~HasCallback(r))
  /\ Reject("UNSUBSCRIBE", "PRECONDITION_FAILED")

CancelMatches(r) ==
  {i \in DOMAIN subscriptions :
     r.sid = [form |-> "uuid", sid |-> subscriptions[i].sid]}

UnsubscribeUnknown(r) ==
  /\ r.sid.form \in {"bare", "uuid"} /\ ~HasNt(r) /\ ~HasCallback(r)
  /\ CancelMatches(r) = {}
  /\ Reject("UNSUBSCRIBE", "PRECONDITION_FAILED")

\* The loop deletes the entry it finds.  It finds one at most, because SIDs
\* are UUIDs.
Cancel(r) ==
  /\ ~HasNt(r) /\ ~HasCallback(r)
  /\ \E i \in CancelMatches(r) : subscriptions' = RemoveAt(subscriptions, i)
  /\ Answer("UNSUBSCRIBE", <<"OK">>)
  /\ UNCHANGED <<values, sweepVars, multicastVars, clientVars>>

Unsubscribe(r) ==
  /\ pc = "idle"
  /\ \/ UnsubscribeMalformed(r)
     \/ UnsubscribeNoSid(r)
     \/ UnsubscribeUnknown(r)
     \/ Cancel(r)

\* Any other method at the event URL: onRequest returns without an answer.
OtherMethod ==
  /\ pc = "idle"
  /\ reply' = [to |-> "other", status |-> <<>>]
  /\ UNCHANGED <<values, subscriptions, sweepVars, multicastVars, clientVars>>

-----------------------------------------------------------------------------
(* A new value, and the events about it *)

\* Mutant: the counter is not reset at its limit.
NextMulticastSeqNoWrap == nextMulticastSeq

\* getNextMulticastSeq: the key it returns, and the counter it leaves.
NextMulticastSeq == IF nextMulticastSeq = SeqMax THEN 0 ELSE nextMulticastSeq

\* setAttribute(Value): a valid value that differs is stored, and "changed" of
\* an evented variable enters variableChanged, which multicasts first.
SetValue(v, x) ==
  /\ pc = "idle"
  /\ values[v] # x
  /\ values' = [values EXCEPT ![v] = x]
  /\ IF v \in Evented
     THEN pc' = "sweep" /\ changed' = v /\ pos' = 1
     ELSE UNCHANGED sweepVars
  /\ IF v \in Evented \cap Multicast
     THEN mkey' = NextMulticastSeq /\ nextMulticastSeq' = NextMulticastSeq + 1
     ELSE UNCHANGED multicastVars
  /\ NoAnswer
  /\ UNCHANGED <<subscriptions, clientVars>>

\* One iteration at a live subscription: an event with the changed variable.
SweepSend ==
  /\ pc = "sweep" /\ pos \in DOMAIN subscriptions
  /\ ~HasExpired(subscriptions[pos])
  /\ LET sub == subscriptions[pos]
     IN /\ subscriptions' = [subscriptions EXCEPT ![pos] = AfterNextSeq(sub)]
        /\ key' = [key EXCEPT ![sub.sid] = NextSeq(sub)]
        /\ view' = [view EXCEPT ![sub.sid][changed] = values[changed]]
  /\ pos' = pos + 1
  /\ NoAnswer
  /\ UNCHANGED <<values, pc, changed, multicastVars, used>>

\* Mutant: erase always closes the gap from the end, as with an array.
AfterEraseArray(i, size) == i + 1

\* QList::erase(i) closes the gap from the shorter side.  In the first half of
\* the list the elements before i move up, so the loop's ++i reaches the next
\* subscription; otherwise those after i move down, and ++i passes over one.
AfterErase(i, size) == IF 2 * (i - 1) < size THEN i ELSE i + 1

\* One iteration at an expired subscription: deleted, erased, continue.
SweepErase ==
  /\ pc = "sweep" /\ pos \in DOMAIN subscriptions
  /\ HasExpired(subscriptions[pos])
  /\ subscriptions' = RemoveAt(subscriptions, pos)
  /\ pos' = AfterErase(pos, Len(subscriptions))
  /\ NoAnswer
  /\ UNCHANGED <<values, pc, changed, multicastVars, clientVars>>

SweepEnd ==
  /\ pc = "sweep" /\ pos = Len(subscriptions) + 1
  /\ pc' = "idle" /\ changed' = NoVar /\ pos' = 0
  /\ NoAnswer
  /\ UNCHANGED <<values, subscriptions, multicastVars, clientVars>>

\* An iterator past end() never compares equal to it, and what it points at is
\* no subscription: nothing is claimed of the program from here on.
SweepOverrun ==
  /\ pc = "sweep" /\ pos > Len(subscriptions) + 1
  /\ pc' = "undefined"
  /\ NoAnswer
  /\ UNCHANGED <<values, subscriptions, changed, pos, multicastVars, clientVars>>

Sweep == SweepSend \/ SweepErase \/ SweepEnd \/ SweepOverrun

\* One second of wall-clock time.
Tick ==
  /\ subscriptions' =
       [i \in DOMAIN subscriptions |->
          [subscriptions[i] EXCEPT !.age = IF @ < MaxAge THEN @ + 1 ELSE @]]
  /\ NoAnswer
  /\ UNCHANGED <<values, sweepVars, multicastVars, clientVars>>

-----------------------------------------------------------------------------
Next ==
  \/ \E r \in Request : Subscribe(r) \/ Unsubscribe(r)
  \/ OtherMethod
  \/ \E v \in Var, x \in Val : SetValue(v, x)
  \/ Sweep
  \/ Tick

Spec == Init /\ [][Next]_vars

\* The thread that entered variableChanged goes on running it.
FairSpec == Spec /\ WF_vars(Sweep)

-----------------------------------------------------------------------------
(* Properties *)

Subscription ==
  [sid : Sid, callback : Url, timeout : Seconds \cup {0},
   age : 0..MaxAge, lastSeq : 0..SeqMax, firstMessageSent : BOOLEAN]

Status == {"OK", "BAD_REQUEST", "PRECONDITION_FAILED"}

Reply == [to : {"none", "SUBSCRIBE", "UNSUBSCRIBE", "other"}, status : Seq(Status)]

TypeOK ==
  /\ values \in [Var -> Val]
  /\ subscriptions \in Seq(Subscription)
  /\ pc \in {"idle", "sweep", "undefined"}
  /\ changed \in Var \cup {NoVar}
  /\ pos \in Nat
  /\ nextMulticastSeq \in 0..SeqMax /\ mkey \in -1..SeqMax
  /\ reply \in Reply
  /\ used \in SUBSET Sid
  /\ key \in [Sid -> -1..SeqMax]
  /\ view \in [Sid -> [Var -> Val \cup {NoVal}]]

\* The list and what was sent agree: no SID is listed twice, a listed SID was
\* handed out, and each entry remembers the key of the last event sent under
\* its SID, so that the key it computes next is the one the subscriber expects.
NoSidTwice(q) == \A i, j \in DOMAIN q : q[i].sid = q[j].sid => i = j

SubscriptionsConsistent ==
  /\ Listed \subseteq used
  /\ NoSidTwice(subscriptions)
  /\ \A i \in DOMAIN subscriptions :
       /\ subscriptions[i].firstMessageSent
       /\ subscriptions[i].lastSeq = key[subscriptions[i].sid]
  /\ \A s \in Sid \ used : key[s] = -1

\* A subscriber that received all its events knows the current value of every
\* evented variable: always while no change is being announced, and otherwise
\* of every variable but the one the loop has not yet told it about.  It holds
\* for lists of up to three subscriptions, in which erase never makes the
\* iterator of variableChanged pass over one.
SubscribersCurrent ==
  \A i \in DOMAIN subscriptions, v \in Evented :
    \/ view[subscriptions[i].sid][v] = values[v]
    \/ pc # "idle" /\ v = changed /\ i >= pos

\* Once a subscription is cancelled or found expired its SID stays off the
\* list, and no event is sent under it.  (The loops erase by index and by
\* iterator, so the wrong element may leave.)
EndedStaysEnded ==
  [][\A s \in used \ Listed : s \notin Listed' /\ key'[s] = key[s]]_vars

\* An answer tells what the request did: one status per SUBSCRIBE and
\* UNSUBSCRIBE; an OK to UNSUBSCRIBE takes one subscription off the list; an OK
\* to SUBSCRIBE leaves a subscription that has not aged; an error status leaves
\* the list alone.
AnswersTellEffects ==
  [][/\ reply'.to \in {"SUBSCRIBE", "UNSUBSCRIBE"} => Len(reply'.status) = 1
     /\ reply' = [to |-> "UNSUBSCRIBE", status |-> <<"OK">>] =>
          \E s \in Listed : Listed' = Listed \ {s}
     /\ reply' = [to |-> "SUBSCRIBE", status |-> <<"OK">>] =>
          /\ Listed \subseteq Listed'
          /\ \E i \in DOMAIN subscriptions' :
               subscriptions'[i].age = 0 /\ (subscriptions'[i].sid \in used => Listed' = Listed)
     /\ reply'.to \in {"SUBSCRIBE", "UNSUBSCRIBE"} /\ reply'.status # <<"OK">> =>
          subscriptions' = subscriptions
    ]_vars

\* Multicast keys count up from 0 and come back to 0, before the largest key.
MulticastKeysInStep ==
  [][mkey' # mkey => mkey' = IF mkey + 1 = SeqMax THEN 0 ELSE mkey + 1]_vars

\* variableChanged is running, and s had expired before it passed.
Lapsed(s) ==
  /\ pc = "sweep"
  /\ \E i \in DOMAIN subscriptions :
       /\ i >= pos
       /\ subscriptions[i].sid = s
       /\ HasExpired(subscriptions[i])

\* The loop of variableChanged does not run for ever, whatever expires
\* meanwhile, and no subscription that had expired before is left on the list
\* when it ends.  (Where erase passes over a neighbour, or the iterator leaves
\* the list, the code breaks this: see ExpiredRemoved.)
LapsedLeave ==
  \A s \in Sid : Lapsed(s) ~> (pc = "undefined" \/ s \notin Listed)

\* The comment in the loop: "Remove expired subscriptions".  A subscription
\* that has expired when the loop is entered is off the list when it ends, and
\* the loop does end.
ExpiredRemoved ==
  \A s \in Sid : Lapsed(s) ~> (pc = "idle" /\ s \notin Listed)

\* The device keeps the publisher's promise.
SidStatus ==
  [s \in Sid |-> IF s \notin used THEN "unused"
                 ELSE IF s \in Listed THEN "active" ELSE "ended"]

Publisher == INSTANCE EventPublisher WITH status <- SidStatus
PublisherSpec == Publisher!Spec

=============================================================================
