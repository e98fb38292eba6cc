-------------------------- MODULE Eventing_proofs --------------------------
(***************************************************************************)
(* Proofs about Eventing: whose SID a proxy holds, and what the newest     *)
(* proxy knows of the service, for every number of proxies, SIDs,          *)
(* variables and values, whatever requests, replies and events are lost    *)
(* or overtake each other.                                                 *)
(***************************************************************************)
EXTENDS Eventing, EventController_proofs

-----------------------------------------------------------------------------
(* The inductive invariant.  It follows a SID from the request it was granted *)
(* to, through the reply, into the proxy, and back in a later request.        *)

\* The request that s was granted to was sent by p.
OwnedBy(s, p) == s \in used /\ by[grant[s]] = p

\* A request is granted one SID at most.
GrantsDistinct ==
  \A s \in used : grant[s] \in DOMAIN by /\ \A t \in used : grant[t] = grant[s] => t = s

\* What a request on its way says of its sender.
Sound(m) ==
  /\ m.id \in DOMAIN by /\ m.method \in {"SUBSCRIBE", "UNSUBSCRIBE"} /\ m.header \in Request
  /\ m.header.sid.form \in {"absent", "uuid"}
  /\ m.header.callback # NoHeader => m.header.callback = by[m.id]
  /\ m.header.sid.form = "uuid" => OwnedBy(m.header.sid.sid, by[m.id])

\* It was not granted anything yet, and there is no other with its number.
Pending(m) ==
  /\ \A s \in used : grant[s] # m.id
  /\ \A n \in requests : n.id = m.id => n = m

RequestsSound == \A m \in requests : Sound(m) /\ Pending(m)

\* A reply carries the SID that was granted to its request.
RepliesSound == \A x \in replies : x.sid # NoSid => x.sid \in used /\ grant[x.sid] = x.id

\* A proxy waits for a reply to itself, and holds a SID of its own that was granted
\* to the request it sent last, or to an earlier one.
ProxiesSound ==
  \A p \in Proxy :
    /\ requestId[p] # 0 => by[requestId[p]] = p
    /\ sid[p] # NoSid => OwnedBy(sid[p], p) /\ grant[sid[p]] <= requestId[p]

\* The device lists a subscription under the callback of its owner.
CallbacksSound ==
  \A i \in DOMAIN subscriptions : OwnedBy(subscriptions[i].sid, subscriptions[i].callback)

Owners == GrantsDistinct /\ RequestsSound /\ RepliesSound /\ ProxiesSound /\ CallbacksSound

\* Events, which are kept in a list.
EventMessage == [sid : Sid, path : Proxy, vals : UNION {[W -> Val] : W \in SUBSET Var}]

EInv ==
  /\ IInv /\ TypeOKEventing /\ Owners
  /\ events \in Seq(EventMessage) /\ DOMAIN by \subseteq 1..MaxRequests

LEMMA EventTypes ==
  ASSUME NEW e \in EventMessage
  PROVE  IsEvent(e)
BY DEF EventMessage, IsEvent

\* The part of the types that the lemmas about owners use.
LEMMA BasicTypes ==
  ASSUME EInv
  PROVE  /\ by \in Seq(Proxy) /\ Len(by) \in Nat /\ DOMAIN by = 1..Len(by)
         /\ used \subseteq Sid /\ NoSid \notin Sid /\ NoHeader \notin Proxy /\ Url = Proxy
         /\ sid \in [Proxy -> Sid \cup {NoSid}] /\ requestId \in [Proxy -> 0..Len(by)]
         /\ grant \in [Sid -> 0..Len(by)] /\ created \subseteq Proxy
         /\ replies \subseteq ReplyMessage
<1>1. by \in Seq(created) /\ created \subseteq Proxy
  BY DEF EInv, TypeOKEventing
<1>2. by \in Seq(Proxy)
  BY <1>1
<1> QED
  BY <1>1, <1>2, LenProperties, ProxyAssumption, VarAssumption
  DEF EInv, TypeOKEventing, IInv, TypeOK

LEMMA InitOwners == InitEventing => EInv
<1> SUFFICES ASSUME InitEventing PROVE EInv
  OBVIOUS
<1>1. IInv
  BY InitInv DEF InitEventing
<1>2. events \in Seq(EventMessage) /\ by \in Seq(created) /\ DOMAIN by = {} /\ DOMAIN events = {} /\ Len(by) = 0
  BY DEF InitEventing
<1>3. TypeOKEventing
  BY <1>1, <1>2 DEF InitEventing, TypeOKEventing, IInv
<1>4. Owners
  BY <1>2 DEF InitEventing, Init, Owners, GrantsDistinct, RequestsSound, RepliesSound,
              ProxiesSound, CallbacksSound
<1> QED
  BY <1>1, <1>2, <1>3, <1>4 DEF EInv

-----------------------------------------------------------------------------
(* The lists of the device *)

\* Every entry was there before, with its SID and its callback.
Kept ==
  \A i \in DOMAIN subscriptions' : \E j \in DOMAIN subscriptions :
    /\ subscriptions'[i].sid = subscriptions[j].sid
    /\ subscriptions'[i].callback = subscriptions[j].callback

LEMMA RenewKept ==
  ASSUME IInv, NEW r \in Request, Renew(r)
  PROVE  Kept
<1>1. \A i \in DOMAIN subscriptions :
        /\ Renewed(subscriptions[i], GetTimeOut(r.timeout)).sid = subscriptions[i].sid
        /\ Renewed(subscriptions[i], GetTimeOut(r.timeout)).callback = subscriptions[i].callback
  BY EntriesTyped DEF Renewed, Subscription
<1> QED
  BY <1>1 DEF Renew, Kept

LEMMA TickKept ==
  ASSUME IInv, Tick
  PROVE  Kept
BY EntriesTyped DEF Tick, Kept, Subscription

LEMMA RemovalKept ==
  ASSUME IInv, NEW i \in DOMAIN subscriptions, subscriptions' = RemoveAt(subscriptions, i)
  PROVE  Kept
<1>1. subscriptions \in Seq(Subscription) /\ NoSidTwice(subscriptions)
  BY DEF IInv, TypeOK, SubscriptionsConsistent
<1>2. \A j \in DOMAIN subscriptions' : \E k \in DOMAIN subscriptions : subscriptions'[j] = subscriptions[k]
  BY <1>1, SidsOfRemoveAt
<1> QED
  BY <1>2 DEF Kept

LEMMA SweepSendKept ==
  ASSUME IInv, SweepSend
  PROVE  Kept
<1>1. pos \in DOMAIN subscriptions
  BY DEF SweepSend
<1>2. /\ AfterNextSeq(subscriptions[pos]).sid = subscriptions[pos].sid
      /\ AfterNextSeq(subscriptions[pos]).callback = subscriptions[pos].callback
  BY <1>1, EntriesTyped DEF AfterNextSeq, Subscription
<1> QED
  BY <1>1, <1>2 DEF SweepSend, Kept

LEMMA CancelKept ==
  ASSUME IInv, NEW r \in Request, Cancel(r)
  PROVE  Kept
BY RemovalKept DEF Cancel, CancelMatches

LEMMA DeviceStepKept ==
  ASSUME IInv, DeviceStep
  PROVE  Kept /\ used' = used /\ IInv'
<1>1. CASE \E v \in Var, x \in Val : SetValue(v, x)
  BY <1>1, SetValueInv DEF SetValue, Kept, clientVars
<1>2. CASE Tick
  BY <1>2, TickKept, TickInv DEF Tick, clientVars
<1>3. CASE Sweep
  <2>1. CASE SweepSend
    BY <2>1, <1>3, SweepSendKept, SweepInv DEF SweepSend
  <2>2. CASE SweepErase
    BY <2>2, <1>3, RemovalKept, SweepInv DEF SweepErase, clientVars
  <2>3. CASE SweepEnd \/ SweepOverrun
    BY <2>3, <1>3, SweepInv DEF SweepEnd, SweepOverrun, Kept, clientVars
  <2> QED
    BY <1>3, <2>1, <2>2, <2>3 DEF Sweep
<1> QED
  BY <1>1, <1>2, <1>3 DEF DeviceStep

\* A step of the control point or of the network.
LEMMA DeviceUnchangedInv ==
  ASSUME IInv, DeviceUnchanged
  PROVE  IInv' /\ Kept /\ used' = used
BY FrameInv, NoAnswerType DEF DeviceUnchanged, Kept, clientVars

-----------------------------------------------------------------------------
(* The device handles a request *)

\* A request that is refused, and every UNSUBSCRIBE, grants nothing.
LEMMA RejectKept ==
  ASSUME IInv, NEW method, NEW status \in Status, Reject(method, status)
  PROVE  Kept /\ used' = used /\ reply'.status = <<status>>
BY DEF Reject, Kept, clientVars, Answer

\* No request of a proxy matches the form a renewal is compared with.
LEMMA RenewRefused ==
  ASSUME IInv, NEW r \in Request, r.sid.form \in {"absent", "uuid"}, Renew(r)
  PROVE  used' = used /\ reply'.status = <<"PRECONDITION_FAILED">>
<1>1. RenewMatches(r) = {}
  BY DEF RenewMatches
<1> QED
  BY <1>1 DEF Renew, RenewStatuses, Answer, clientVars

\* The new subscription is listed under the callback of the request.
LEMMA SubscribeNewEntries ==
  ASSUME IInv, NEW r \in Request, NEW s \in Sid, SubscribeNew(r, s)
  PROVE  /\ s \notin used /\ used' = used \cup {s} /\ reply'.status = <<"OK">>
         /\ r.callback \in Url
         /\ \A i \in DOMAIN subscriptions' :
              \/ subscriptions'[i].sid = s /\ subscriptions'[i].callback = r.callback
              \/ \E j \in DOMAIN subscriptions : subscriptions'[i] = subscriptions[j]
<1> DEFINE new == NewSubscription(s, r.callback, GetTimeOut(r.timeout))
           sub == AfterNextSeq(new)
<1>1. r.callback \in Url
  BY DEF SubscribeNew, HasCallback, Request, CallbackHeader
<1>2. sub \in Subscription /\ sub.sid = s
  BY <1>1, GetTimeOutType, FirstSeqProperties
<1>3. sub.callback = r.callback
  BY DEF AfterNextSeq, NewSubscription
<1>4. subscriptions' = Append(subscriptions, sub) /\ s \notin used
  BY DEF SubscribeNew, FreshSid
<1> HIDE DEF new, sub
<1>5. /\ subscriptions \in Seq(Subscription) /\ NoSidTwice(subscriptions)
      /\ sub.sid \notin SidsOf(subscriptions)
  BY <1>2, <1>4 DEF IInv, TypeOK, SubscriptionsConsistent, Listed
<1>6. \A i \in DOMAIN subscriptions' :
        subscriptions'[i] = sub \/ \E j \in DOMAIN subscriptions : subscriptions'[i] = subscriptions[j]
  BY <1>2, <1>4, <1>5, SidsOfAppend
<1> QED
  BY <1>1, <1>2, <1>3, <1>4, <1>6 DEF SubscribeNew, Answer

\* What a request that arrives does: it is granted nothing, or a new SID.
GrantsNothing(m) == used' = used /\ Kept /\ GrantedSid(m) = NoSid

GrantsNew(m, s) ==
  /\ s \notin used /\ used' = used \cup {s} /\ GrantedSid(m) = s
  /\ m.header.callback = by[m.id]
  /\ \A i \in DOMAIN subscriptions' :
       \/ subscriptions'[i].sid = s /\ subscriptions'[i].callback = m.header.callback
       \/ \E j \in DOMAIN subscriptions : subscriptions'[i] = subscriptions[j]

LEMMA ArrivalCases ==
  ASSUME EInv, NEW m \in requests, RequestArrives(m)
  PROVE  /\ IInv'
         /\ Len(reply'.status) = 1 /\ Head(reply'.status) \in Status
         /\ GrantsNothing(m) \/ \E s \in Sid : GrantsNew(m, s)
<1> DEFINE r == m.header
<1>1. IInv /\ r \in Request /\ r.sid.form \in {"absent", "uuid"}
  BY DEF EInv, Owners, RequestsSound, Sound
<1>2. CASE m.method = "SUBSCRIBE" /\ Subscribe(r)
  <2>1. IInv'
    BY <1>1, <1>2, SubscribeInv
  <2>2. CASE RenewMalformed(r) \/ RenewEmptySid(r) \/ SubscribeBadNt(r) \/ SubscribeIncomplete(r)
    <3>1. PICK st \in {"BAD_REQUEST", "PRECONDITION_FAILED"} : Reject("SUBSCRIBE", st)
      BY <2>2 DEF RenewMalformed, RenewEmptySid, SubscribeBadNt, SubscribeIncomplete
    <3>2. Kept /\ used' = used /\ reply'.status = <<st>> /\ st \in Status
      BY <3>1, <1>1, RejectKept DEF Status
    <3> QED
      BY <2>1, <3>2 DEF GrantsNothing, GrantedSid
  <2>3. CASE Renew(r)
    <3>1. Kept /\ used' = used /\ reply'.status = <<"PRECONDITION_FAILED">>
      BY <2>3, <1>1, RenewKept, RenewRefused
    <3> QED
      BY <2>1, <3>1 DEF GrantsNothing, GrantedSid, Status
  <2>4. CASE \E s \in Sid : SubscribeNew(r, s)
    <3>1. PICK s \in Sid : SubscribeNew(r, s)
      BY <2>4
    <3>2. /\ s \notin used /\ used' = used \cup {s} /\ reply'.status = <<"OK">>
          /\ r.callback \in Url
          /\ \A i \in DOMAIN subscriptions' :
               \/ subscriptions'[i].sid = s /\ subscriptions'[i].callback = r.callback
               \/ \E j \in DOMAIN subscriptions : subscriptions'[i] = subscriptions[j]
      BY <3>1, <1>1, SubscribeNewEntries
    <3>3. (CHOOSE t \in used' : t \notin used) = s
      BY <3>2
    <3>4. GrantedSid(m) = s
      BY <1>2, <3>2, <3>3 DEF GrantedSid
    <3>5. m.header.callback = by[m.id]
      BY <3>2, VarAssumption DEF EInv, Owners, RequestsSound, Sound
    <3> QED
      BY <2>1, <3>2, <3>4, <3>5 DEF GrantsNew, Status
  <2> QED
    BY <1>2, <2>2, <2>3, <2>4 DEF Subscribe
<1>3. CASE m.method = "UNSUBSCRIBE" /\ Unsubscribe(r)
  <2>1. IInv'
    BY <1>1, <1>3, UnsubscribeInv
  <2>2. CASE UnsubscribeMalformed(r) \/ UnsubscribeNoSid(r) \/ UnsubscribeUnknown(r)
    <3>1. PICK st \in {"BAD_REQUEST", "PRECONDITION_FAILED"} : Reject("UNSUBSCRIBE", st)
      BY <2>2 DEF UnsubscribeMalformed, UnsubscribeNoSid, UnsubscribeUnknown
    <3>2. Kept /\ used' = used /\ reply'.status = <<st>> /\ st \in Status
      BY <3>1, <1>1, RejectKept DEF Status
    <3> QED
      BY <1>3, <2>1, <3>2 DEF GrantsNothing, GrantedSid
  <2>3. CASE Cancel(r)
    <3>1. Kept /\ used' = used /\ reply'.status = <<"OK">>
      BY <2>3, <1>1, CancelKept DEF Cancel, Answer, clientVars
    <3> QED
      BY <1>3, <2>1, <3>1 DEF GrantsNothing, GrantedSid, Status
  <2> QED
    BY <1>3, <2>2, <2>3 DEF Unsubscribe
<1> QED
  BY <1>2, <1>3 DEF RequestArrives

-----------------------------------------------------------------------------
(* The owners of SIDs *)

\* What was granted stays with the request and the proxy it was granted to.
Extends ==
  /\ used \subseteq used' /\ \A s \in used : grant'[s] = grant[s]
  /\ \A i \in DOMAIN by : i \in DOMAIN by' /\ by'[i] = by[i]

LEMMA OwnersStay ==
  ASSUME EInv, Extends, NEW s, NEW p, OwnedBy(s, p)
  PROVE  s \in used' /\ grant'[s] = grant[s] /\ by'[grant'[s]] = p
BY DEF Extends, OwnedBy, EInv, Owners, GrantsDistinct

\* A step that sends and grants nothing.
LEMMA FrameOwners ==
  ASSUME EInv, UNCHANGED <<used, by, grant>>, Kept, requests' \subseteq requests,
         \A x \in replies' : x \in replies \/ x.sid = NoSid,
         ProxiesSound'
  PROVE  Owners'
<1>1. GrantsDistinct'
  BY DEF EInv, Owners, GrantsDistinct
<1>2. RequestsSound'
  BY DEF EInv, Owners, RequestsSound, Sound, Pending, OwnedBy
<1>3. RepliesSound'
  BY DEF EInv, Owners, RepliesSound
<1>4. CallbacksSound'
  BY DEF EInv, Owners, CallbacksSound, Kept, OwnedBy
<1> QED
  BY <1>1, <1>2, <1>3, <1>4 DEF Owners

LEMMA ProxiesFrame ==
  ASSUME EInv, UNCHANGED <<used, by, grant, sid, requestId>>
  PROVE  ProxiesSound'
BY DEF EInv, Owners, ProxiesSound, OwnedBy

\* A reply is taken by the proxy that waits for it: its SID was granted to the request
\* that proxy sent last.
LEMMA FinishedOwners ==
  ASSUME EInv, NEW x \in replies, HttpFinished(x)
  PROVE  Owners'
<1>1. UNCHANGED <<used, by, grant, requestId>> /\ Kept
  BY DeviceUnchangedInv DEF HttpFinished, EInv, ghostVars
<1>2. ProxiesSound'
  <2> SUFFICES ASSUME NEW p \in Proxy
               PROVE  /\ requestId[p] # 0 => by[requestId[p]] = p
                      /\ sid'[p] # NoSid =>
                           /\ sid'[p] \in used /\ by[grant[sid'[p]]] = p
                           /\ grant[sid'[p]] <= requestId[p]
    BY <1>1 DEF ProxiesSound, OwnedBy
  <2>1. requestId[p] # 0 => by[requestId[p]] = p
    BY DEF EInv, Owners, ProxiesSound
  <2>2. CASE p \in created /\ Tracks(p, x.id) /\ x.sid # NoSid
    <3>1. sid'[p] = x.sid /\ x.sid \in used /\ grant[x.sid] = requestId[p]
      BY <2>2 DEF HttpFinished, Tracks, EInv, Owners, RepliesSound
    <3>2. requestId[p] \in DOMAIN by /\ DOMAIN by \subseteq Nat \ {0}
      BY <3>1, BasicTypes DEF EInv, Owners, GrantsDistinct
    <3> QED
      BY <2>1, <3>1, <3>2
  <2>3. CASE ~(p \in created /\ Tracks(p, x.id) /\ x.sid # NoSid)
    BY <2>1, <2>3 DEF HttpFinished, EInv, Owners, ProxiesSound, OwnedBy
  <2> QED
    BY <2>2, <2>3
<1> QED
  BY <1>1, <1>2, FrameOwners DEF HttpFinished

\* A new request.
LEMMA SendOwners ==
  ASSUME EInv, NEW p \in Proxy, NEW method \in {"SUBSCRIBE", "UNSUBSCRIBE"},
         NEW header \in Request, header.sid.form \in {"absent", "uuid"},
         header.callback \in {NoHeader, p},
         header.sid.form = "uuid" => OwnedBy(header.sid.sid, p),
         Send(p, method, header),
         requestId' \in {requestId, [requestId EXCEPT ![p] = Len(by')]}
  PROVE  Owners' /\ DOMAIN by' \subseteq 1..MaxRequests
<1>0. PICK m : m = [id |-> Len(by) + 1, method |-> method, header |-> header]
  OBVIOUS
<1>1. /\ by \in Seq(Proxy) /\ Len(by) \in Nat /\ DOMAIN by = 1..Len(by)
      /\ used \subseteq Sid /\ requestId \in [Proxy -> 0..Len(by)]
      /\ grant \in [Sid -> 0..Len(by)]
  BY BasicTypes
<1>2. /\ Len(by') = Len(by) + 1 /\ DOMAIN by' = 1 .. Len(by) + 1
      /\ by'[Len(by) + 1] = p /\ \A i \in 1..Len(by) : by'[i] = by[i]
  BY <1>1, AppendProperties DEF Send
<1>3. /\ UNCHANGED <<used, grant, sid, replies, subscriptions>>
      /\ requests' = requests \cup {m} /\ Len(by) < MaxRequests
  BY <1>0 DEF Send, DeviceUnchanged, clientVars
<1>4. Extends
  BY <1>1, <1>2, <1>3 DEF Extends
<1>5. GrantsDistinct'
  BY <1>1, <1>2, <1>3 DEF EInv, Owners, GrantsDistinct
<1>6. RequestsSound'
  <2>1. ASSUME NEW n \in requests
        PROVE  /\ n.id \in 1..Len(by)
               /\ Sound(n)' /\ \A s \in used' : grant'[s] # n.id
    <3>1. Sound(n) /\ Pending(n)
      BY DEF EInv, Owners, RequestsSound
    <3>2. n.id \in 1..Len(by) /\ by'[n.id] = by[n.id]
      BY <1>1, <1>2, <3>1 DEF Sound
    <3>3. n.header.sid.form = "uuid" =>
            n.header.sid.sid \in used' /\ by'[grant'[n.header.sid.sid]] = by[n.id]
      BY <1>4, <3>1, OwnersStay DEF Sound
    <3> QED
      BY <1>2, <1>3, <3>1, <3>2, <3>3 DEF Sound, Pending, OwnedBy
  <2>2. m.id = Len(by) + 1 /\ m.method = method /\ m.header = header
    BY <1>0
  <2>3. Sound(m)'
    <3>1. header.sid.form = "uuid" => header.sid.sid \in used' /\ by'[grant'[header.sid.sid]] = p
      BY <1>4, OwnersStay
    <3>2. m.id \in DOMAIN by' /\ by'[m.id] = p
      BY <1>1, <1>2, <2>2
    <3> QED
      BY <2>2, <3>1, <3>2 DEF Sound, OwnedBy
  <2>4. \A s \in used' : grant'[s] # m.id
    BY <1>1, <1>3, <2>2
  <2>5. ASSUME NEW n \in requests', NEW k \in requests', n.id = k.id
        PROVE  n = k
    <3>1. CASE n \in requests /\ k \in requests
      BY <2>5, <3>1 DEF EInv, Owners, RequestsSound, Pending
    <3>2. CASE n = m \/ k = m
      BY <1>1, <1>3, <2>1, <2>2, <2>5, <3>2
    <3> QED
      BY <1>3, <3>1, <3>2
  <2> QED
    BY <1>3, <2>1, <2>3, <2>4, <2>5 DEF RequestsSound, Pending
<1>7. RepliesSound'
  BY <1>3 DEF EInv, Owners, RepliesSound
<1>8. ProxiesSound'
  <2> SUFFICES ASSUME NEW q \in Proxy
               PROVE  /\ requestId'[q] # 0 => by'[requestId'[q]] = q
                      /\ sid[q] # NoSid =>
                           /\ sid[q] \in used' /\ by'[grant'[sid[q]]] = q
                           /\ grant'[sid[q]] <= requestId'[q]
    BY <1>3 DEF ProxiesSound, OwnedBy
  <2>1. /\ requestId[q] \in 0..Len(by) /\ requestId[q] # 0 => by[requestId[q]] = q
        /\ sid[q] # NoSid => OwnedBy(sid[q], q) /\ grant[sid[q]] <= requestId[q]
    BY <1>1 DEF EInv, Owners, ProxiesSound
  <2>2. \/ requestId'[q] = requestId[q]
        \/ q = p /\ requestId'[q] = Len(by) + 1
    BY <1>1, <1>2
  <2>3. sid[q] # NoSid =>
          /\ sid[q] \in used' /\ by'[grant'[sid[q]]] = q /\ grant'[sid[q]] = grant[sid[q]]
          /\ grant[sid[q]] \in 0..Len(by)
    BY <1>1, <1>4, <2>1, OwnersStay DEF OwnedBy
  <2> QED
    BY <1>1, <1>2, <2>1, <2>2, <2>3
<1>9. CallbacksSound'
  BY <1>3, <1>4, OwnersStay DEF EInv, Owners, CallbacksSound, OwnedBy
<1>10. DOMAIN by' \subseteq 1..MaxRequests
  BY <1>1, <1>2, <1>3, ProxyAssumption
<1> QED
  BY <1>5, <1>6, <1>7, <1>8, <1>9, <1>10 DEF Owners

\* A request arrives: what is granted is granted to it.
LEMMA ArrivalOwners ==
  ASSUME EInv, NEW m \in requests, RequestArrives(m)
  PROVE  Owners'
<1>1. /\ by \in Seq(Proxy) /\ DOMAIN by = 1..Len(by) /\ Len(by) \in Nat
      /\ used \subseteq Sid /\ NoSid \notin Sid /\ grant \in [Sid -> 0..Len(by)]
  BY BasicTypes
<1>2. /\ requests' = requests \ {m} /\ UNCHANGED <<by, sid, requestId>>
      /\ replies' = replies \cup {[id |-> m.id, status |-> Head(reply'.status), sid |-> GrantedSid(m)]}
      /\ grant' = [s \in Sid |-> IF s \in used' \ used THEN m.id ELSE grant[s]]
  BY DEF RequestArrives, proxyVars
<1>3. Sound(m) /\ Pending(m) /\ m.id \in DOMAIN by
  BY DEF EInv, Owners, RequestsSound, Sound
<1>4. CASE GrantsNothing(m)
  <2>1. used' = used /\ Kept /\ GrantedSid(m) = NoSid
    BY <1>4 DEF GrantsNothing
  <2>2. grant' = grant
    BY <1>1, <1>2, <2>1
  <2>3. \A x \in replies' : x \in replies \/ x.sid = NoSid
    BY <1>2, <2>1
  <2>4. ProxiesSound'
    BY <1>2, <2>1, <2>2, ProxiesFrame
  <2> QED
    BY <1>2, <2>1, <2>2, <2>3, <2>4, FrameOwners
<1>5. CASE \E s \in Sid : GrantsNew(m, s)
  <2>1. PICK s \in Sid : GrantsNew(m, s)
    BY <1>5
  <2>2. /\ s \notin used /\ used' = used \cup {s} /\ GrantedSid(m) = s
        /\ m.header.callback = by[m.id]
        /\ \A i \in DOMAIN subscriptions' :
             \/ subscriptions'[i].sid = s /\ subscriptions'[i].callback = m.header.callback
             \/ \E j \in DOMAIN subscriptions : subscriptions'[i] = subscriptions[j]
    BY <2>1 DEF GrantsNew
  <2>3. grant'[s] = m.id /\ \A t \in used : grant'[t] = grant[t]
    BY <1>1, <1>2, <2>2
  <2>4. Extends
    BY <1>2, <2>2, <2>3 DEF Extends
  <2>5. GrantsDistinct'
    BY <1>2, <1>3, <2>2, <2>3 DEF EInv, Owners, GrantsDistinct, Pending
  <2>6. RequestsSound'
    <3> SUFFICES ASSUME NEW n \in requests, n # m
                 PROVE  Sound(n)' /\ Pending(n)'
      BY <1>2 DEF RequestsSound
    <3>1. Sound(n) /\ Pending(n) /\ n.id # m.id
      BY <1>3 DEF EInv, Owners, RequestsSound, Pending
    <3>2. n.header.sid.form = "uuid" =>
            n.header.sid.sid \in used' /\ by'[grant'[n.header.sid.sid]] = by[n.id]
      BY <2>4, <3>1, OwnersStay DEF Sound
    <3>3. Sound(n)'
      BY <1>2, <3>1, <3>2 DEF Sound, OwnedBy
    <3>4. Pending(n)'
      BY <1>2, <2>2, <2>3, <3>1 DEF Pending
    <3> QED
      BY <3>3, <3>4
  <2>7. RepliesSound'
    <3> SUFFICES ASSUME NEW x \in replies', x.sid # NoSid
                 PROVE  x.sid \in used' /\ grant'[x.sid] = x.id
      BY DEF RepliesSound
    <3>1. CASE x \in replies
      BY <2>2, <2>3, <3>1 DEF EInv, Owners, RepliesSound
    <3>2. CASE x \notin replies
      <4>1. x.id = m.id /\ x.sid = s
        BY <1>2, <2>2, <3>2
      <4> QED
        BY <2>2, <2>3, <4>1
    <3> QED
      BY <3>1, <3>2
  <2>8. ProxiesSound'
    <3> SUFFICES ASSUME NEW p \in Proxy
                 PROVE  /\ requestId[p] # 0 => by[requestId[p]] = p
                        /\ sid[p] # NoSid =>
                             /\ sid[p] \in used' /\ by[grant'[sid[p]]] = p
                             /\ grant'[sid[p]] <= requestId[p]
      BY <1>2 DEF ProxiesSound, OwnedBy
    <3> QED
      BY <2>2, <2>3 DEF EInv, Owners, ProxiesSound, OwnedBy
  <2>9. CallbacksSound'
    <3> SUFFICES ASSUME NEW i \in DOMAIN subscriptions'
                 PROVE  /\ subscriptions'[i].sid \in used'
                        /\ by[grant'[subscriptions'[i].sid]] = subscriptions'[i].callback
      BY <1>2 DEF CallbacksSound, OwnedBy
    <3>1. CASE subscriptions'[i].sid = s /\ subscriptions'[i].callback = m.header.callback
      BY <2>2, <2>3, <3>1
    <3>2. CASE \E j \in DOMAIN subscriptions : subscriptions'[i] = subscriptions[j]
      BY <2>2, <2>3, <3>2 DEF EInv, Owners, CallbacksSound, OwnedBy
    <3> QED
      BY <2>2, <3>1, <3>2
  <2> QED
    BY <2>5, <2>6, <2>7, <2>8, <2>9 DEF Owners
<1> QED
  BY <1>4, <1>5, ArrivalCases

-----------------------------------------------------------------------------
(* Events in flight *)

\* What the device sends is an event of the service or of a variable that changed.
LEMMA EventOfTyped ==
  ASSUME IInv, IInv', NEW s \in Sid, s \in Listed', s \in used => changed \in Var
  PROVE  EventOf(s) \in EventMessage
<1> DEFINE i == CHOOSE i \in DOMAIN subscriptions' : subscriptions'[i].sid = s
           W == IF s \in used THEN {changed} ELSE Var
<1>1. i \in DOMAIN subscriptions'
  BY DEF Listed, SidsOf
<1>2. subscriptions'[i] \in Subscription
  BY <1>1, LenProperties, ElementOfSeq DEF IInv, TypeOK
<1>3. subscriptions'[i].callback \in Proxy
  BY <1>2, ProxyAssumption DEF Subscription
<1>4. W \in SUBSET Var /\ [v \in W |-> values[v]] \in [W -> Val]
  BY DEF IInv, TypeOK
<1>5. EventOf(s) = [sid |-> s, path |-> subscriptions'[i].callback, vals |-> [v \in W |-> values[v]]]
  BY DEF EventOf
<1> HIDE DEF i, W
<1> QED
  BY <1>3, <1>4, <1>5 DEF EventMessage

\* An event goes out under a SID on the list.
Announces == \A s \in Sid : key'[s] # key[s] => s \in Listed' /\ (s \in used => changed \in Var)

LEMMA SentTyped ==
  ASSUME EInv, IInv', Announces, SendEvents
  PROVE  events' \in Seq(EventMessage)
<1>1. CASE key' = key
  BY <1>1 DEF SendEvents, EInv
<1>2. CASE key' # key
  <2> DEFINE s == CHOOSE s \in Sid : key'[s] # key[s]
  <2>1. \E t \in Sid : key'[t] # key[t]
    BY <1>2 DEF EInv, IInv, TypeOK
  <2>2. s \in Sid /\ key'[s] # key[s]
    BY <2>1
  <2>3. events' = Append(events, EventOf(s))
    BY <1>2 DEF SendEvents
  <2> HIDE DEF s
  <2>4. PICK t \in Sid : t = s
    BY <2>2
  <2>5. t \in Listed' /\ (t \in used => changed \in Var)
    BY <2>2, <2>4 DEF Announces
  <2>6. EventOf(t) \in EventMessage
    BY <2>5, EventOfTyped DEF EInv
  <2> QED
    BY <2>3, <2>4, <2>6, AppendProperties DEF EInv
<1> QED
  BY <1>1, <1>2

LEMMA QuietAnnounces ==
  ASSUME UNCHANGED clientVars
  PROVE  Announces
BY DEF Announces, clientVars

LEMMA ArrivalAnnounces ==
  ASSUME EInv, NEW m \in requests, RequestArrives(m)
  PROVE  Announces
<1> DEFINE r == m.header
<1>1. IInv /\ r \in Request
  BY DEF EInv, Owners, RequestsSound, Sound
<1>2. CASE Subscribe(r)
  <2>1. CASE \E s \in Sid : SubscribeNew(r, s)
    <3>1. PICK s \in Sid : SubscribeNew(r, s)
      BY <2>1
    <3>2. Listed' = Listed \cup {s} /\ s \notin used
      BY <1>1, <3>1, SubscribeNewListed DEF SubscribeNew, FreshSid
    <3>3. \A t \in Sid : key'[t] # key[t] => t = s
      BY <1>1, <3>1 DEF SubscribeNew, IInv, TypeOK
    <3> QED
      BY <3>2, <3>3 DEF Announces
  <2>2. CASE ~\E s \in Sid : SubscribeNew(r, s)
    BY <1>2, <2>2, QuietAnnounces
    DEF Subscribe, RenewMalformed, RenewEmptySid, Renew, SubscribeBadNt, SubscribeIncomplete, Reject
  <2> QED
    BY <2>1, <2>2
<1>3. CASE Unsubscribe(r)
  BY <1>3, QuietAnnounces
  DEF Unsubscribe, UnsubscribeMalformed, UnsubscribeNoSid, UnsubscribeUnknown, Cancel, Reject
<1> QED
  BY <1>2, <1>3 DEF RequestArrives

LEMMA DeviceStepAnnounces ==
  ASSUME EInv, DeviceStep
  PROVE  Announces
<1>1. CASE SweepSend
  <2> DEFINE t == subscriptions[pos].sid
  <2>1. IInv /\ pos \in DOMAIN subscriptions /\ pc = "sweep"
    BY <1>1 DEF SweepSend, EInv
  <2>2. t \in Listed /\ Listed' = Listed /\ changed \in Var
    BY <1>1, <2>1, SweepSendListed, VarAssumption DEF Listed, SidsOf, IInv, SweepArgument
  <2>3. key' = [key EXCEPT ![t] = NextSeq(subscriptions[pos])]
    BY <1>1 DEF SweepSend
  <2> HIDE DEF t
  <2>4. \A s \in Sid : key'[s] # key[s] => s = t
    BY <2>1, <2>3 DEF IInv, TypeOK
  <2> QED
    BY <2>2, <2>4 DEF Announces
<1>2. CASE ~SweepSend
  BY <1>2, QuietAnnounces DEF DeviceStep, SetValue, Sweep, SweepErase, SweepEnd, SweepOverrun, Tick
<1> QED
  BY <1>1, <1>2

-----------------------------------------------------------------------------
(* Types *)

\* What is left of the events in flight when one is taken out.
LEMMA EventTaken ==
  ASSUME EInv, NEW i \in DOMAIN events, events' = RemoveAt(events, i)
  PROVE  events' \in Seq(EventMessage)
<1>1. events \in Seq(EventMessage) /\ i \in 1..Len(events)
  BY LenProperties DEF EInv
<1> QED
  BY <1>1, RemoveAtProperties

\* The types of the requests follow from what they say of their senders.
LEMMA TypesFromParts ==
  ASSUME IInv', Owners', events' \in Seq(EventMessage),
         root' \in created' \cup {NoProxy}, created' \subseteq Proxy,
         sid' \in [Proxy -> Sid \cup {NoSid}], requestId' \in [Proxy -> 0..Len(by')],
         replies' \subseteq ReplyMessage, told' \in [Proxy -> [Var -> Val \cup {NoVal}]],
         by' \in Seq(created'), grant' \in [Sid -> 0..Len(by')],
         DOMAIN by' \subseteq 1..MaxRequests
  PROVE  EInv'
<1>1. \A m \in requests' : /\ m.id \in DOMAIN by' /\ m.method \in {"SUBSCRIBE", "UNSUBSCRIBE"}
                           /\ m.header.sid \in SidHeader
  BY DEF Owners, RequestsSound, Sound, Request
<1>2. \A i \in DOMAIN events' : IsEvent(events'[i])
  BY LenProperties, ElementOfSeq, EventTypes
<1> QED
  BY <1>1, <1>2 DEF EInv, TypeOKEventing, IInv

LEMMA SidHeaderTyped ==
  ASSUME EInv, NEW p \in Proxy
  PROVE  /\ SidHeaderOf(p) \in SidHeader /\ SidHeaderOf(p).form \in {"absent", "uuid"}
         /\ SidHeaderOf(p).form = "uuid" => SidHeaderOf(p).sid = sid[p] /\ OwnedBy(sid[p], p)
         /\ UnsubscriptionRequest(p) \in Request
         /\ UnsubscriptionRequest(p).sid = SidHeaderOf(p)
         /\ UnsubscriptionRequest(p).callback = NoHeader
<1>1. sid[p] \in Sid \cup {NoSid} /\ (sid[p] # NoSid => OwnedBy(sid[p], p))
  BY BasicTypes DEF EInv, Owners, ProxiesSound
<1>2. SidHeaderOf(p) \in SidHeader
  BY <1>1 DEF SidHeaderOf, SidHeader
<1>3. /\ SidHeaderOf(p).form \in {"absent", "uuid"}
      /\ SidHeaderOf(p).form = "uuid" => SidHeaderOf(p).sid = sid[p] /\ sid[p] # NoSid
  BY DEF SidHeaderOf
<1>4. UnsubscriptionRequest(p) \in Request
  BY <1>2 DEF UnsubscriptionRequest, Request, CallbackHeader, TimeoutHeader
<1> QED
  BY <1>1, <1>2, <1>3, <1>4 DEF UnsubscriptionRequest

LEMMA SubscribeHeadersTyped ==
  ASSUME EInv, NEW p \in Proxy, NEW secs \in Seconds
  PROVE  SubscriptionRequest(p, secs) \in Request /\ RenewRequest(p, secs) \in Request
<1>1. TimeoutOf(secs) \in TimeoutHeader
  BY DEF TimeoutOf, TimeoutHeader
<1>2. p \in CallbackHeader /\ NoHeader \in CallbackHeader
  BY BasicTypes DEF CallbackHeader
<1>3. SidHeaderOf(p) \in SidHeader /\ [form |-> "absent", sid |-> NoHeader] \in SidHeader
  BY SidHeaderTyped DEF SidHeader
<1> QED
  BY <1>1, <1>2, <1>3 DEF Request, SubscriptionRequest, RenewRequest

-----------------------------------------------------------------------------
(* The inductive step *)

\* A request is sent: the types that follow from that.
LEMMA SendTypes ==
  ASSUME EInv, NEW p, NEW method, NEW header, Send(p, method, header),
         requestId' \in {requestId, [requestId EXCEPT ![p] = Len(by')]}
  PROVE  /\ p \in Proxy /\ IInv' /\ UNCHANGED <<root, created, sid, told, replies, events, grant>>
         /\ by' \in Seq(created) /\ Len(by') = Len(by) + 1
         /\ requestId' \in [Proxy -> 0..Len(by')] /\ grant \in [Sid -> 0..Len(by')]
<1>1. p \in created /\ created \subseteq Proxy /\ by \in Seq(created)
  BY DEF Send, EInv, TypeOKEventing
<1>2. by' \in Seq(created) /\ Len(by') = Len(by) + 1
  BY <1>1, AppendProperties DEF Send
<1>3. IInv'
  BY DeviceUnchangedInv DEF Send, EInv
<1> QED
  BY <1>1, <1>2, <1>3, BasicTypes DEF Send

LEMMA SendInv ==
  ASSUME EInv, NEW p \in Proxy, NEW method \in {"SUBSCRIBE", "UNSUBSCRIBE"},
         NEW header \in Request, header.sid.form \in {"absent", "uuid"},
         header.callback \in {NoHeader, p},
         header.sid.form = "uuid" => OwnedBy(header.sid.sid, p),
         Send(p, method, header),
         requestId' \in {requestId, [requestId EXCEPT ![p] = Len(by')]}
  PROVE  EInv'
<1>1. Owners' /\ DOMAIN by' \subseteq 1..MaxRequests
  BY SendOwners
<1>2. /\ IInv' /\ UNCHANGED <<root, created, sid, told, replies, events, grant>>
      /\ by' \in Seq(created)
      /\ requestId' \in [Proxy -> 0..Len(by')] /\ grant \in [Sid -> 0..Len(by')]
  BY SendTypes
<1> QED
  BY <1>1, <1>2, TypesFromParts DEF EInv, TypeOKEventing

LEMMA CallsInv ==
  ASSUME EInv, NEW p \in Proxy,
         \/ \E secs \in Seconds : ProxySubscribe(p, secs) \/ ProxyRenew(p, secs)
         \/ ProxyUnsubscribe(p)
  PROVE  EInv'
<1>1. ASSUME NEW secs \in Seconds, ProxySubscribe(p, secs)
      PROVE  EInv'
  <2>1. /\ SubscriptionRequest(p, secs).sid.form = "absent"
        /\ SubscriptionRequest(p, secs).callback = p
    BY DEF SubscriptionRequest
  <2> QED
    BY <1>1, <2>1, SubscribeHeadersTyped, SendInv DEF ProxySubscribe
<1>2. ASSUME NEW secs \in Seconds, ProxyRenew(p, secs)
      PROVE  EInv'
  <2>1. /\ RenewRequest(p, secs).sid = SidHeaderOf(p)
        /\ RenewRequest(p, secs).callback = NoHeader
    BY DEF RenewRequest
  <2> QED
    BY <1>2, <2>1, SubscribeHeadersTyped, SidHeaderTyped, SendInv DEF ProxyRenew
<1>3. ASSUME ProxyUnsubscribe(p)
      PROVE  EInv'
  BY <1>3, SidHeaderTyped, SendInv DEF ProxyUnsubscribe
<1> QED
  BY <1>1, <1>2, <1>3

LEMMA CreationInv ==
  ASSUME EInv, NEW p \in Proxy, GetSubscriptionProxy(p)
  PROVE  EInv'
<1>1. /\ IInv' /\ Kept /\ created' = created \cup {p} /\ root' = p
      /\ UNCHANGED <<used, by, grant, sid, requestId, told, requests, replies, events>>
  BY DeviceUnchangedInv DEF GetSubscriptionProxy, EInv, networkVars, ghostVars
<1>2. Owners'
  BY <1>1, ProxiesFrame, FrameOwners
<1>3. by' \in Seq(created')
  BY <1>1 DEF EInv, TypeOKEventing
<1> QED
  BY <1>1, <1>2, <1>3, TypesFromParts DEF EInv, TypeOKEventing

LEMMA FailedReply ==
  ASSUME NEW n \in 1..MaxRequests
  PROVE  [id |-> n, status |-> "failed", sid |-> NoSid] \in ReplyMessage
BY DEF ReplyMessage

LEMMA FailureInv ==
  ASSUME EInv, NEW m \in requests, RequestFails(m)
  PROVE  EInv'
<1> DEFINE failed == [id |-> m.id, status |-> "failed", sid |-> NoSid]
<1>1. /\ IInv' /\ Kept /\ requests' = requests \ {m} /\ replies' = replies \cup {failed}
      /\ UNCHANGED <<used, by, grant, root, created, sid, requestId, told, events>>
  BY DeviceUnchangedInv DEF RequestFails, EInv, proxyVars, ghostVars
<1>2. m.id \in 1..MaxRequests /\ failed.sid = NoSid
  BY DEF EInv, Owners, RequestsSound, Sound
<1>3. failed \in ReplyMessage
  BY <1>2, FailedReply
<1> HIDE DEF failed
<1>4. Owners'
  BY <1>1, <1>2, ProxiesFrame, FrameOwners
<1> QED
  BY <1>1, <1>3, <1>4, TypesFromParts DEF EInv, TypeOKEventing

LEMMA ReplyInv ==
  ASSUME EInv, NEW x \in replies, HttpFinished(x) \/ ReplyLost(x)
  PROVE  EInv'
<1>1. x \in ReplyMessage /\ x.sid \in Sid \cup {NoSid} /\ x.id \in 1..MaxRequests
  BY BasicTypes DEF ReplyMessage
<1>2. CASE HttpFinished(x)
  <2>1. /\ IInv' /\ replies' \subseteq replies /\ sid' \in [Proxy -> Sid \cup {NoSid}]
        /\ UNCHANGED <<by, grant, root, created, requestId, told, events>>
    BY <1>1, <1>2, DeviceUnchangedInv, BasicTypes DEF HttpFinished, EInv, ghostVars
  <2>2. Owners'
    BY <1>2, FinishedOwners
  <2> QED
    BY <2>1, <2>2, TypesFromParts DEF EInv, TypeOKEventing
<1>3. CASE ReplyLost(x)
  <2> DEFINE failed == [id |-> x.id, status |-> "failed", sid |-> NoSid]
  <2>1. /\ IInv' /\ Kept /\ replies' = (replies \ {x}) \cup {failed}
        /\ UNCHANGED <<used, by, grant, root, created, sid, requestId, told, events, requests>>
    BY <1>3, DeviceUnchangedInv DEF ReplyLost, EInv, proxyVars, ghostVars
  <2>2. failed \in ReplyMessage /\ failed.sid = NoSid
    BY <1>1, FailedReply
  <2> HIDE DEF failed
  <2>3. Owners'
    BY <2>1, <2>2, ProxiesFrame, FrameOwners
  <2> QED
    BY <2>1, <2>2, <2>3, TypesFromParts DEF EInv, TypeOKEventing
<1> QED
  BY <1>2, <1>3

LEMMA EventInv ==
  ASSUME EInv, NEW i \in DOMAIN events, EventArrives(i) \/ EventLost(i)
  PROVE  EInv'
<1>1. /\ IInv' /\ Kept /\ events' = RemoveAt(events, i)
      /\ UNCHANGED <<used, by, grant, root, created, sid, requestId, requests, replies>>
  BY DeviceUnchangedInv DEF EventArrives, EventLost, EInv, proxyVars
<1>2. events' \in Seq(EventMessage)
  BY <1>1, EventTaken
<1>3. Owners'
  BY <1>1, ProxiesFrame, FrameOwners
<1>4. told' \in [Proxy -> [Var -> Val \cup {NoVal}]]
  <2>1. /\ told \in [Proxy -> [Var -> Val \cup {NoVal}]]
        /\ \A v \in DOMAIN events[i].vals : events[i].vals[v] \in Val
    BY DEF EInv, TypeOKEventing, IsEvent
  <2>2. CASE EventArrives(i)
    BY <2>1, <2>2 DEF EventArrives
  <2>3. CASE EventLost(i)
    BY <2>1, <2>3 DEF EventLost, proxyVars
  <2> QED
    BY <2>2, <2>3
<1> QED
  BY <1>1, <1>2, <1>3, <1>4, TypesFromParts DEF EInv, TypeOKEventing

LEMMA ArrivalInv ==
  ASSUME EInv, NEW m \in requests, RequestArrives(m)
  PROVE  EInv'
<1> DEFINE answer == [id |-> m.id, status |-> Head(reply'.status), sid |-> GrantedSid(m)]
<1>1. /\ IInv' /\ Head(reply'.status) \in Status
      /\ GrantsNothing(m) \/ \E s \in Sid : GrantsNew(m, s)
  BY ArrivalCases
<1>2. GrantedSid(m) \in Sid \cup {NoSid}
  BY <1>1 DEF GrantsNothing, GrantsNew
<1>3. m.id \in DOMAIN by /\ m.id \in 1..MaxRequests
  BY DEF EInv, Owners, RequestsSound, Sound
<1>4. answer \in ReplyMessage
  BY <1>1, <1>2, <1>3 DEF ReplyMessage
<1>5. replies' = replies \cup {answer} /\ SendEvents
      /\ grant' = [s \in Sid |-> IF s \in used' \ used THEN m.id ELSE grant[s]]
      /\ UNCHANGED <<by, root, created, sid, requestId, told>>
  BY DEF RequestArrives, proxyVars
<1> HIDE DEF answer
<1>6. grant' \in [Sid -> 0..Len(by')]
  BY <1>3, <1>5, BasicTypes
<1>7. events' \in Seq(EventMessage)
  BY <1>1, <1>5, ArrivalAnnounces, SentTyped
<1> QED
  BY <1>1, <1>4, <1>5, <1>6, <1>7, ArrivalOwners, TypesFromParts DEF EInv, TypeOKEventing

LEMMA DeviceStepInv ==
  ASSUME EInv, DeviceStep
  PROVE  EInv'
<1>1. /\ IInv' /\ Kept /\ SendEvents
      /\ UNCHANGED <<used, by, grant, root, created, sid, requestId, told, requests, replies>>
  BY DeviceStepKept DEF DeviceStep, EInv, proxyVars, ghostVars
<1>2. events' \in Seq(EventMessage)
  BY <1>1, DeviceStepAnnounces, SentTyped
<1>3. Owners'
  BY <1>1, ProxiesFrame, FrameOwners
<1> QED
  BY <1>1, <1>2, <1>3, TypesFromParts DEF EInv, TypeOKEventing

LEMMA StutterInv ==
  ASSUME EInv, UNCHANGED eventingVars
  PROVE  EInv'
<1>1. UNCHANGED <<values, subscriptions, pc, changed, pos, nextMulticastSeq, reply, used, key, view, mkey>>
  BY DEF eventingVars, vars, sweepVars, multicastVars, clientVars
<1>2. UNCHANGED <<root, created, sid, requestId, told, requests, replies, events, by, grant>>
  BY DEF eventingVars, proxyVars, networkVars, ghostVars
<1>3. IInv' /\ Kept
  BY <1>1, FrameInv DEF EInv, IInv, TypeOK, Kept, sweepVars, multicastVars, clientVars
<1>4. Owners'
  BY <1>1, <1>2, <1>3, ProxiesFrame, FrameOwners
<1> QED
  BY <1>2, <1>3, <1>4, TypesFromParts DEF EInv, TypeOKEventing

LEMMA EventingStep == EInv /\ [NextEventing]_eventingVars => EInv'
<1> SUFFICES ASSUME EInv, [NextEventing]_eventingVars
             PROVE  EInv'
  OBVIOUS
<1>1. CASE \E p \in Proxy : GetSubscriptionProxy(p)
  BY <1>1, CreationInv
<1>2. CASE \E p \in Proxy : \/ \E secs \in Seconds : ProxySubscribe(p, secs) \/ ProxyRenew(p, secs)
                            \/ ProxyUnsubscribe(p)
  BY <1>2, CallsInv
<1>3. CASE \E m \in requests : RequestArrives(m) \/ RequestFails(m)
  BY <1>3, ArrivalInv, FailureInv
<1>4. CASE \E x \in replies : HttpFinished(x) \/ ReplyLost(x)
  BY <1>4, ReplyInv
<1>5. CASE \E i \in DOMAIN events : EventArrives(i) \/ EventLost(i)
  BY <1>5, EventInv
<1>6. CASE DeviceStep
  BY <1>6, DeviceStepInv
<1>7. CASE UNCHANGED eventingVars
  BY <1>7, StutterInv
<1> QED
  BY <1>1, <1>2, <1>3, <1>4, <1>5, <1>6, <1>7 DEF NextEventing

LEMMA EventingInvariant == SpecEventing => []EInv
BY InitOwners, EventingStep, PTL DEF SpecEventing

-----------------------------------------------------------------------------
(* The theorems *)

\* Requests, replies, events and proxies keep their types: what the device is sent is
\* a request it can take apart, and what it sends is an event of its service.
THEOREM EventingTypes == SpecEventing => []TypeOKEventing
<1>1. EInv => TypeOKEventing
  BY DEF EInv
<1> QED
  BY <1>1, EventingInvariant, PTL

\* httpFinished puts into a proxy no SID but one that was granted to a SUBSCRIBE of
\* its own, whichever replies cross.
THEOREM OwnSids == SpecEventing => []SidFromOwnSubscribe
<1>1. EInv => SidFromOwnSubscribe
  <2> SUFFICES ASSUME EInv, NEW p \in Proxy, sid[p] # NoSid
               PROVE  grant[sid[p]] # 0 /\ by[grant[sid[p]]] = p
    BY DEF SidFromOwnSubscribe
  <2>1. sid[p] \in used /\ by[grant[sid[p]]] = p
    BY DEF EInv, Owners, ProxiesSound, OwnedBy
  <2> QED
    BY <2>1, BasicTypes DEF EInv, Owners, GrantsDistinct
<1> QED
  BY <1>1, EventingInvariant, PTL

\* Only httpFinished changes a SID.
LEMMA SidStep ==
  ASSUME EInv, [NextEventing]_eventingVars, sid' # sid
  PROVE  \E x \in replies : HttpFinished(x)
BY DEF NextEventing, GetSubscriptionProxy, ProxySubscribe, ProxyRenew, ProxyUnsubscribe, Send,
       RequestArrives, RequestFails, ReplyLost, EventArrives, EventLost, DeviceStep,
       proxyVars, eventingVars

\* A late reply to a SUBSCRIBE that was repeated changes nothing: the SID of a proxy
\* gives way only to one of a later request.
THEOREM SidsGoForward == SpecEventing => SidNeverGoesBack
<1>1. ASSUME EInv, [NextEventing]_eventingVars, NEW p \in Proxy, sid[p] # NoSid, sid'[p] # sid[p]
      PROVE  sid'[p] # NoSid /\ grant'[sid'[p]] > grant'[sid[p]]
  <2>1. PICK x \in replies : HttpFinished(x)
    BY <1>1, SidStep
  <2>2. /\ sid'[p] = x.sid /\ x.sid # NoSid /\ requestId[p] = x.id /\ grant' = grant
    BY <1>1, <2>1 DEF HttpFinished, Tracks, ghostVars
  <2>3. /\ x.sid \in used /\ grant[x.sid] = requestId[p]
        /\ sid[p] \in used /\ grant[sid[p]] <= requestId[p]
    BY <1>1, <2>2 DEF EInv, Owners, RepliesSound, ProxiesSound, OwnedBy
  <2>4. grant[sid[p]] # grant[x.sid]
    BY <1>1, <2>2, <2>3 DEF EInv, Owners, GrantsDistinct
  <2>5. grant[sid[p]] \in Nat /\ requestId[p] \in Nat
    BY <1>1, <2>3, BasicTypes
  <2> QED
    BY <2>2, <2>3, <2>4, <2>5
<1>2. EInv /\ [NextEventing]_eventingVars =>
        [\A p \in Proxy : sid[p] # NoSid /\ sid'[p] # sid[p] =>
           sid'[p] # NoSid /\ grant'[sid'[p]] > grant'[sid[p]]]_eventingVars
  BY <1>1
<1> QED
  BY <1>2, EventingInvariant, PTL DEF SpecEventing, SidNeverGoesBack

\* A request leaves the network only by arriving, or by failing.
LEMMA RequestStep ==
  ASSUME EInv, [NextEventing]_eventingVars, NEW m \in requests \ requests'
  PROVE  RequestArrives(m) \/ RequestFails(m)
BY DEF NextEventing, GetSubscriptionProxy, ProxySubscribe, ProxyRenew, ProxyUnsubscribe, Send,
       RequestArrives, RequestFails, HttpFinished, ReplyLost, EventArrives, EventLost, DeviceStep,
       networkVars, eventingVars

\* A SUBSCRIBE takes nothing off the list.
LEMMA SubscribeListed ==
  ASSUME IInv, NEW r \in Request, Subscribe(r)
  PROVE  Listed \subseteq Listed'
<1>1. CASE Renew(r)
  BY <1>1, RenewListed
<1>2. CASE \E s \in Sid : SubscribeNew(r, s)
  BY <1>2, SubscribeNewListed
<1>3. CASE RenewMalformed(r) \/ RenewEmptySid(r) \/ SubscribeBadNt(r) \/ SubscribeIncomplete(r)
  BY <1>3 DEF RenewMalformed, RenewEmptySid, SubscribeBadNt, SubscribeIncomplete, Reject, Listed
<1> QED
  BY <1>1, <1>2, <1>3 DEF Subscribe

\* unsubscribe() ends no subscription but one of the proxy that sent the request,
\* though the device compares nothing but the SID.
THEOREM OwnCancelled == SpecEventing => CancelsOwn
<1>1. ASSUME EInv, [NextEventing]_eventingVars, NEW m \in requests \ requests',
             NEW i \in DOMAIN subscriptions, subscriptions[i].sid \notin Listed'
      PROVE  m.method = "UNSUBSCRIBE" /\ subscriptions[i].callback = by[m.id]
  <2> DEFINE r == m.header
  <2>1. IInv /\ r \in Request /\ Sound(m) /\ subscriptions[i].sid \in Listed
    BY <1>1 DEF EInv, Owners, RequestsSound, Sound, Listed, SidsOf
  <2>2. ~RequestFails(m)
    BY <1>1, <2>1 DEF RequestFails, DeviceUnchanged, Listed
  <2>3. RequestArrives(m) /\ ~Subscribe(r)
    BY <1>1, <2>1, <2>2, RequestStep, SubscribeListed
  <2>4. m.method = "UNSUBSCRIBE" /\ Unsubscribe(r)
    BY <2>3 DEF RequestArrives
  <2>5. Cancel(r)
    BY <1>1, <2>1, <2>4
    DEF Unsubscribe, UnsubscribeMalformed, UnsubscribeNoSid, UnsubscribeUnknown, Reject, Listed
  <2>6. PICK j \in CancelMatches(r) : subscriptions' = RemoveAt(subscriptions, j)
    BY <2>5 DEF Cancel
  <2>7. subscriptions[i].sid = subscriptions[j].sid
    BY <1>1, <2>1, <2>6, RemovalListed DEF CancelMatches
  <2>8. OwnedBy(subscriptions[i].sid, by[m.id])
    BY <2>1, <2>6, <2>7 DEF CancelMatches, Sound
  <2>9. OwnedBy(subscriptions[i].sid, subscriptions[i].callback)
    BY <1>1 DEF EInv, Owners, CallbacksSound
  <2> QED
    BY <2>4, <2>8, <2>9 DEF OwnedBy
<1>2. EInv /\ [NextEventing]_eventingVars =>
        [\A m \in requests \ requests', i \in DOMAIN subscriptions :
           subscriptions[i].sid \notin Listed' =>
             /\ m.method = "UNSUBSCRIBE"
             /\ subscriptions[i].callback = by[m.id]]_eventingVars
  BY <1>1
<1> QED
  BY <1>2, EventingInvariant, PTL DEF SpecEventing, CancelsOwn

-----------------------------------------------------------------------------
(* What the newest proxy has been told.  Every event goes to the service at    *)
(* "/", so what that proxy knows of a variable, once the events in flight are   *)
(* in, is what the last of them about the variable says, under whichever SID    *)
(* it was sent.  That is why the entry the loop skips in a list of four or more *)
(* does no harm here: the loop has sent an event by then.                       *)

\* The events in flight that tell v.
Telling(v) == {n \in DOMAIN events : v \in DOMAIN events[n].vals}

\* The last of them tells its current value; the proxy knows it if there is none.
Announced(v) ==
  \/ Telling(v) = {} /\ told[root][v] = values[v]
  \/ \E n \in Telling(v) : events[n].vals[v] = values[v] /\ \A m \in Telling(v) : m <= n

\* The loop of variableChanged has passed no live subscription.
Unannounced(v) == pc = "sweep" /\ pos = 1 /\ v = changed

RootListed == \E i \in DOMAIN subscriptions : subscriptions[i].callback = root

RootInformed ==
  faultless /\ RootListed => \A v \in Evented : Announced(v) \/ Unannounced(v)

\* An event of current values is sent.
LEMMA AnnouncedBySending ==
  ASSUME EInv, NEW e \in EventMessage, events' = Append(events, e),
         UNCHANGED <<values, root, told>>, \A u \in DOMAIN e.vals : e.vals[u] = values[u],
         NEW v, Announced(v) \/ v \in DOMAIN e.vals
  PROVE  Announced(v)'
<1> DEFINE n == Len(events) + 1
<1>1. /\ events \in Seq(EventMessage) /\ Len(events) \in Nat /\ DOMAIN events = 1..Len(events)
      /\ DOMAIN events' = 1..n /\ events'[n] = e
      /\ \A m \in 1..Len(events) : events'[m] = events[m]
  BY LenProperties, AppendProperties DEF EInv
<1>2. CASE v \in DOMAIN e.vals
  <2>1. n \in Telling(v)' /\ \A m \in Telling(v)' : m <= n
    BY <1>1, <1>2 DEF Telling
  <2> QED
    BY <1>1, <1>2, <2>1 DEF Announced
<1>3. CASE v \notin DOMAIN e.vals
  <2>1. Telling(v)' = Telling(v)
    BY <1>1, <1>3 DEF Telling
  <2>2. \A m \in Telling(v) : events'[m] = events[m]
    BY <1>1 DEF Telling
  <2> QED
    BY <1>3, <2>1, <2>2 DEF Announced
<1> QED
  BY <1>2, <1>3

\* The first event in flight reaches the newest proxy.
LEMMA AnnouncedByArrival ==
  ASSUME EInv, 1 \in DOMAIN events, EventArrives(1), root \in Proxy,
         NEW v \in Var, Announced(v)
  PROVE  Announced(v)'
<1>1. /\ events \in Seq(EventMessage) /\ Len(events) \in Nat /\ DOMAIN events = 1..Len(events)
      /\ 1 \in 1..Len(events)
  BY LenProperties DEF EInv
<1>2. /\ DOMAIN events' = 1 .. Len(events) - 1
      /\ \A m \in 1 .. Len(events) - 1 : events'[m] = events[m + 1]
  <2>1. /\ events' \in Seq(EventMessage) /\ Len(events') = Len(events) - 1
        /\ \A m \in 1 .. Len(events) - 1 : events'[m] = IF m < 1 THEN events[m] ELSE events[m + 1]
    BY <1>1, RemoveAtProperties DEF EventArrives
  <2> QED
    BY <1>1, <2>1, LenProperties
<1>3. UNCHANGED <<values, root>>
  BY DEF EventArrives, DeviceUnchanged
<1>4. told'[root][v] = IF v \in DOMAIN events[1].vals THEN events[1].vals[v] ELSE told[root][v]
  BY DEF EventArrives, Receiver
<1>5. /\ \A m \in Telling(v)' : m \in Nat \ {0} /\ m + 1 \in Telling(v) /\ events'[m] = events[m + 1]
      /\ \A m \in Telling(v) : m # 1 => m - 1 \in Telling(v)'
      /\ \A m \in Telling(v) : m \in Nat \ {0}
  BY <1>1, <1>2 DEF Telling
<1>6. CASE Telling(v) = {}
  <2>1. 1 \notin Telling(v)
    BY <1>6
  <2> QED
    BY <1>1, <1>3, <1>4, <1>5, <1>6, <2>1 DEF Announced, Telling
<1>7. ASSUME NEW n \in Telling(v), events[n].vals[v] = values[v], \A m \in Telling(v) : m <= n
      PROVE  Announced(v)'
  <2>1. CASE n = 1
    <3>1. Telling(v)' = {}
      <4>1. SUFFICES ASSUME NEW m \in Telling(v)' PROVE FALSE
        OBVIOUS
      <4>2. m \in Nat \ {0} /\ m + 1 <= 1
        BY <1>5, <1>7, <2>1, <4>1
      <4> QED
        BY <4>2
    <3>2. told'[root][v] = values[v]
      BY <1>4, <1>7, <2>1 DEF Telling
    <3> QED
      BY <1>3, <3>1, <3>2 DEF Announced
  <2>2. CASE n # 1
    <3>1. n - 1 \in Telling(v)' /\ n \in Nat \ {0}
      BY <1>5, <1>7, <2>2
    <3>2. events'[n - 1] = events[n - 1 + 1] /\ n - 1 + 1 = n
      BY <1>5, <3>1
    <3>3. \A m \in Telling(v)' : m <= n - 1
      BY <1>5, <1>7, <3>1
    <3> QED
      BY <1>3, <1>7, <3>1, <3>2, <3>3 DEF Announced
  <2> QED
    BY <2>1, <2>2
<1> QED
  BY <1>6, <1>7 DEF Announced

\* A step that leaves what is announced alone.
LEMMA InformedFrame ==
  ASSUME RootInformed, RootListed' => RootListed,
         UNCHANGED <<values, pc, changed, pos, events, root, told, faultless>>
  PROVE  RootInformed'
BY DEF RootInformed, Announced, Telling, Unannounced

LEMMA KeptListed ==
  ASSUME Kept, root' = root
  PROVE  RootListed' => RootListed
BY DEF Kept, RootListed

\* A step of the control point or of the network that sends and delivers nothing.
LEMMA InformedQuiet ==
  ASSUME IInv, RootInformed, DeviceUnchanged, UNCHANGED <<events, root, told, faultless>>
  PROVE  RootInformed'
BY DeviceUnchangedInv, KeptListed, InformedFrame DEF DeviceUnchanged, sweepVars

\* The proxy that becomes the newest has no subscription yet.
LEMMA CreationInformed ==
  ASSUME EInv, NEW p \in Proxy, GetSubscriptionProxy(p)
  PROVE  RootInformed'
<1>1. subscriptions' = subscriptions /\ root' = p /\ p \notin created
  BY DEF GetSubscriptionProxy, DeviceUnchanged
<1>2. \A i \in DOMAIN by : by[i] \in created
  BY LenProperties, ElementOfSeq DEF EInv, TypeOKEventing
<1>3. \A i \in DOMAIN subscriptions : subscriptions[i].callback \in created
  BY <1>2 DEF EInv, Owners, CallbacksSound, OwnedBy, GrantsDistinct
<1> QED
  BY <1>1, <1>3 DEF RootInformed, RootListed

LEMMA EventInformed ==
  ASSUME EInv, RootInformed, NEW i \in DOMAIN events, EventArrives(i) \/ EventLost(i)
  PROVE  RootInformed'
<1>1. SUFFICES ASSUME faultless', RootListed', NEW v \in Evented
               PROVE  Announced(v)' \/ Unannounced(v)'
  BY DEF RootInformed
<1>2. EventArrives(1) /\ i = 1 /\ faultless
  BY <1>1 DEF EventArrives, EventLost
<1>3. UNCHANGED <<subscriptions, pc, changed, pos, root>>
  BY <1>2 DEF EventArrives, DeviceUnchanged, sweepVars
<1>4. RootListed /\ root \in Proxy
  BY <1>1, <1>3, BasicTypes, EntriesTyped DEF RootListed, EInv, Subscription
<1>5. v \in Var /\ (Announced(v) \/ Unannounced(v))
  BY <1>2, <1>4, VarAssumption DEF RootInformed
<1>6. CASE Announced(v)
  BY <1>2, <1>4, <1>5, <1>6, AnnouncedByArrival
<1>7. CASE Unannounced(v)
  BY <1>3, <1>7 DEF Unannounced
<1> QED
  BY <1>5, <1>6, <1>7

\* The variables of an event the device sends, with the values they have.
LEMMA EventTells ==
  ASSUME NEW s
  PROVE  /\ DOMAIN EventOf(s).vals = IF s \in used THEN {changed} ELSE Var
         /\ \A u \in DOMAIN EventOf(s).vals : EventOf(s).vals[u] = values[u]
BY DEF EventOf

\* What is sent under s, and nothing else is, is the event of s.
LEMMA SentOne ==
  ASSUME EInv, IInv', Announces, SendEvents, NEW s \in Sid, key'[s] # key[s],
         \A t \in Sid : key'[t] # key[t] => t = s
  PROVE  events' = Append(events, EventOf(s)) /\ EventOf(s) \in EventMessage
<1>1. key' # key
  OBVIOUS
<1>2. (CHOOSE t \in Sid : key'[t] # key[t]) = s
  OBVIOUS
<1>3. EventOf(s) \in EventMessage
  BY EventOfTyped DEF Announces, EInv
<1> QED
  BY <1>1, <1>2, <1>3 DEF SendEvents

\* The initial event tells every variable.
LEMMA SubscribeNewInformed ==
  ASSUME EInv, NEW m \in requests, RequestArrives(m), NEW s \in Sid, SubscribeNew(m.header, s)
  PROVE  RootInformed'
<1> DEFINE r == m.header
<1>1. IInv /\ IInv' /\ r \in Request /\ Announces /\ SendEvents
  BY ArrivalCases, ArrivalAnnounces DEF EInv, Owners, RequestsSound, Sound, RequestArrives
<1>2. s \notin used /\ key[s] = -1
  BY <1>1 DEF SubscribeNew, FreshSid, IInv, SubscriptionsConsistent
<1>3. key' = [key EXCEPT ![s] = NextSeq(NewSubscription(s, r.callback, GetTimeOut(r.timeout)))]
  BY DEF SubscribeNew
<1>4. r.callback \in Url /\ GetTimeOut(r.timeout) \in Seconds \cup {0}
  BY <1>1, SubscribeNewEntries, GetTimeOutType
<1>5. NextSeq(NewSubscription(s, r.callback, GetTimeOut(r.timeout))) = 0
  BY <1>4, FirstSeqProperties
<1>6. key'[s] = 0 /\ key'[s] # key[s] /\ \A t \in Sid : key'[t] # key[t] => t = s
  BY <1>1, <1>2, <1>3, <1>5 DEF IInv, TypeOK
<1>7. events' = Append(events, EventOf(s)) /\ EventOf(s) \in EventMessage
  BY <1>1, <1>6, SentOne
<1>8. UNCHANGED <<values, root, told>>
  BY DEF SubscribeNew, RequestArrives, proxyVars
<1>9. \A v \in Evented : v \in DOMAIN EventOf(s).vals
  BY <1>2, EventTells, VarAssumption
<1> QED
  BY <1>7, <1>8, <1>9, EventTells, AnnouncedBySending DEF RootInformed

LEMMA ArrivalInformed ==
  ASSUME EInv, RootInformed, NEW m \in requests, RequestArrives(m)
  PROVE  RootInformed'
<1> DEFINE r == m.header
<1>1. IInv /\ r \in Request /\ SendEvents /\ UNCHANGED <<root, told, faultless>>
  BY DEF EInv, Owners, RequestsSound, Sound, RequestArrives, proxyVars
<1>2. CASE \E s \in Sid : SubscribeNew(r, s)
  BY <1>2, SubscribeNewInformed
<1>3. CASE ~\E s \in Sid : SubscribeNew(r, s)
  <2>1. UNCHANGED <<values, pc, changed, pos, used, key>>
    BY <1>3
    DEF RequestArrives, Subscribe, RenewMalformed, RenewEmptySid, Renew, SubscribeBadNt,
        SubscribeIncomplete, Unsubscribe, UnsubscribeMalformed, UnsubscribeNoSid,
        UnsubscribeUnknown, Cancel, Reject, clientVars, sweepVars
  <2>2. events' = events
    BY <1>1, <2>1 DEF SendEvents
  <2>3. Kept
    BY <2>1, ArrivalCases DEF GrantsNothing, GrantsNew
  <2> QED
    BY <1>1, <2>1, <2>2, <2>3, KeptListed, InformedFrame
<1> QED
  BY <1>2, <1>3

\* The loop sends its first event, or another one.
LEMMA SweepSendInformed ==
  ASSUME EInv, RootInformed, DeviceStep, SweepSend
  PROVE  RootInformed'
<1> DEFINE sub == subscriptions[pos]
           s == sub.sid
<1>1. IInv /\ IInv' /\ Kept /\ Announces /\ SendEvents /\ UNCHANGED <<root, told, faultless>>
  BY DeviceStepKept, DeviceStepAnnounces DEF EInv, DeviceStep, proxyVars, ghostVars
<1>2. pos \in DOMAIN subscriptions /\ sub \in Subscription /\ s \in Sid /\ sub.firstMessageSent
      /\ sub.lastSeq = key[s] /\ s \in used
  BY <1>1, EntriesTyped DEF SweepSend, IInv, SubscriptionsConsistent, Listed, SidsOf
<1>3. NextSeq(sub) # key[s]
  BY <1>2, NextSeqProperties, ProxyAssumption, SeqAssumption DEF Subscription
<1>4. key' = [key EXCEPT ![s] = NextSeq(sub)]
  BY DEF SweepSend
<1> HIDE DEF sub, s
<1>5. key'[s] # key[s] /\ \A t \in Sid : key'[t] # key[t] => t = s
  BY <1>1, <1>2, <1>3, <1>4 DEF IInv, TypeOK
<1>6. events' = Append(events, EventOf(s)) /\ EventOf(s) \in EventMessage
  BY <1>1, <1>2, <1>5, SentOne
<1>7. UNCHANGED <<values, changed>> /\ DOMAIN EventOf(s).vals = {changed}
  BY <1>2, EventTells DEF SweepSend
<1>8. \A v \in Evented : Announced(v) \/ v = changed => Announced(v)'
  BY <1>1, <1>6, <1>7, EventTells, AnnouncedBySending
<1> QED
  BY <1>1, <1>8, KeptListed DEF RootInformed, Unannounced

\* A new value changes what is announced of its own variable only.
LEMMA SetValueInformed ==
  ASSUME EInv, RootInformed, DeviceStep, NEW u \in Var, NEW x \in Val, SetValue(u, x)
  PROVE  RootInformed'
<1>1. /\ Kept /\ UNCHANGED <<subscriptions, root, told, faultless, events>>
      /\ \A v \in Var : v # u => values'[v] = values[v]
      /\ pc = "idle" /\ (u \in Evented => pc' = "sweep" /\ changed' = u /\ pos' = 1)
  BY DeviceStepKept
  DEF SetValue, DeviceStep, SendEvents, EInv, IInv, TypeOK, proxyVars, ghostVars, clientVars
<1>2. \A v \in Evented : v # u /\ Announced(v) => Announced(v)'
  BY <1>1, VarAssumption DEF Announced, Telling
<1> QED
  BY <1>1, <1>2, KeptListed DEF RootInformed, Unannounced

\* The loop ends: it has sent an event, or the list is empty.
LEMMA SweepEndInformed ==
  ASSUME EInv, RootInformed, DeviceStep, SweepErase \/ SweepEnd \/ SweepOverrun
  PROVE  RootInformed'
<1>1. /\ Kept /\ UNCHANGED <<values, root, told, faultless, events>>
      /\ subscriptions \in Seq(Subscription) /\ Len(subscriptions) \in Nat
      /\ DOMAIN subscriptions = 1..Len(subscriptions) /\ pos \in Nat
  BY DeviceStepKept, LenProperties
  DEF SweepErase, SweepEnd, SweepOverrun, DeviceStep, SendEvents, EInv, IInv, TypeOK, proxyVars,
      ghostVars, clientVars
<1>2. \A v \in Evented : Announced(v) => Announced(v)'
  BY <1>1 DEF Announced, Telling
<1>3. CASE SweepErase
  <2>1. pos = 1 => pos' = 1
    BY <1>1, <1>3 DEF SweepErase, AfterErase
  <2> QED
    BY <1>1, <1>2, <1>3, <2>1, KeptListed DEF RootInformed, Unannounced, SweepErase
<1>4. CASE SweepEnd \/ SweepOverrun
  <2>1. RootListed' => pos # 1
    BY <1>1, <1>4 DEF SweepEnd, SweepOverrun, RootListed
  <2> QED
    BY <1>1, <1>2, <2>1, KeptListed DEF RootInformed, Unannounced
<1> QED
  BY <1>3, <1>4

LEMMA DeviceStepInformed ==
  ASSUME EInv, RootInformed, DeviceStep
  PROVE  RootInformed'
<1>1. CASE Tick
  <2>1. Kept /\ UNCHANGED <<values, pc, changed, pos, events, root, told, faultless>>
    BY <1>1, DeviceStepKept
    DEF Tick, DeviceStep, SendEvents, EInv, proxyVars, ghostVars, clientVars, sweepVars
  <2> QED
    BY <2>1, KeptListed, InformedFrame
<1> QED
  BY <1>1, SetValueInformed, SweepSendInformed, SweepEndInformed DEF DeviceStep, Sweep

LEMMA InformedStep == EInv /\ RootInformed /\ [NextEventing]_eventingVars => RootInformed'
<1> SUFFICES ASSUME EInv, RootInformed, [NextEventing]_eventingVars
             PROVE  RootInformed'
  OBVIOUS
<1>1. CASE \E p \in Proxy : GetSubscriptionProxy(p)
  BY <1>1, CreationInformed
<1>2. CASE \E p \in Proxy : \/ \E secs \in Seconds : ProxySubscribe(p, secs) \/ ProxyRenew(p, secs)
                            \/ ProxyUnsubscribe(p)
  <2>1. DeviceUnchanged /\ UNCHANGED <<events, root, told, faultless>>
    BY <1>2 DEF ProxySubscribe, ProxyRenew, ProxyUnsubscribe, Send
  <2> QED
    BY <2>1, InformedQuiet DEF EInv
<1>3. CASE \E m \in requests : RequestArrives(m)
  BY <1>3, ArrivalInformed
<1>4. CASE \/ \E m \in requests : RequestFails(m)
           \/ \E x \in replies : HttpFinished(x) \/ ReplyLost(x)
  <2>1. DeviceUnchanged /\ UNCHANGED <<events, root, told, faultless>>
    BY <1>4 DEF RequestFails, HttpFinished, ReplyLost, proxyVars, ghostVars
  <2> QED
    BY <2>1, InformedQuiet DEF EInv
<1>5. CASE \E i \in DOMAIN events : EventArrives(i) \/ EventLost(i)
  BY <1>5, EventInformed
<1>6. CASE DeviceStep
  BY <1>6, DeviceStepInformed
<1>7. CASE UNCHANGED eventingVars
  BY <1>7, InformedFrame
  DEF eventingVars, vars, sweepVars, proxyVars, networkVars, ghostVars, RootListed
<1> QED
  BY <1>1, <1>2, <1>3, <1>4, <1>5, <1>6, <1>7 DEF NextEventing

\* Events that were neither lost nor overtaken have told the newest proxy every
\* current value, however many subscriptions the device lists and whichever of them
\* its loop passes over.
THEOREM NewestCurrent == SpecEventing => []NewestProxyCurrent
<1>1. InitEventing => RootInformed
  <2>1. ASSUME InitEventing PROVE DOMAIN subscriptions = {}
    BY <2>1 DEF InitEventing, Init
  <2> QED
    BY <2>1 DEF RootInformed, RootListed
<1>2. RootInformed => NewestProxyCurrent
  BY DEF RootInformed, RootListed, Announced, Unannounced, Telling, NewestProxyCurrent
<1> QED
  BY <1>1, <1>2, InformedStep, EventingInvariant, PTL DEF SpecEventing
=============================================================================
