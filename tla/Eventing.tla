------------------------------ MODULE Eventing ------------------------------
(***************************************************************************)
(* A device service and one control point, between them HTTP.              *)
(*                                                                         *)
(* The device is EventController.  The control point makes BrisaEventProxy *)
(* objects (BrisaControlPoint::getSubscriptionProxy); each sends SUBSCRIBE,*)
(* renewal and UNSUBSCRIBE requests through the QNetworkAccessManager they *)
(* share, whose replies come back to BrisaControlPoint::httpFinished, and  *)
(* events reach BrisaEventProxy::onRequest through the control point's web *)
(* server.  A request, a reply and an event travel on a TCP connection of  *)
(* their own, so they overtake each other, and any of them can be lost.    *)
(***************************************************************************)
EXTENDS EventController

CONSTANTS
  Proxy,         \* the event proxies the control point may make
  NoProxy,
  NoSid,         \* a SID that is empty
  MaxRequests,   \* bound on the requests the proxies send
  MaxEvents      \* bound: no new value while so many events are in flight

\* A proxy is the path its CALLBACK header names: "/" and its delivery path.
ASSUME ProxyAssumption ==
  /\ Url = Proxy
  /\ NoProxy \notin Proxy /\ NoSid \notin Sid
  /\ SeqMax > 1
  /\ {MaxRequests, MaxEvents} \subseteq Nat

VARIABLES
  root,       \* the service registered at "/" of the web server, a proxy
  created,    \* the proxies in BrisaControlPoint::requests
  sid,        \* BrisaEventProxy::SID: the <s> of "uuid:<s>", or NoSid
  requestId,  \* BrisaEventProxy::requestId: the tracked request, 0 for -1
  requests,   \* requests on their way to the device
  replies,    \* replies on their way to the control point
  events,     \* NOTIFY requests on their way, in the order of sending
  told,       \* what eventNotification told the application, per proxy
  by,         \* ghost: the proxy that sent each request
  grant,      \* ghost: the request each SID was granted to, 0 for none
  faultless   \* ghost: no event was lost, none overtook another

proxyVars == <<root, created, sid, requestId, told>>
networkVars == <<requests, replies, events>>
ghostVars == <<by, grant, faultless>>
eventingVars == <<vars, proxyVars, networkVars, ghostVars>>

InitEventing ==
  /\ Init
  /\ root = NoProxy
  /\ created = {}
  /\ sid = [p \in Proxy |-> NoSid]
  /\ requestId = [p \in Proxy |-> 0]
  /\ requests = {} /\ replies = {} /\ events = <<>>
  /\ told = [p \in Proxy |-> [v \in Var |-> NoVal]]
  /\ by = <<>>
  /\ grant = [s \in Sid |-> 0]
  /\ faultless = TRUE

\* A step of the control point or of the network leaves the device alone.
DeviceUnchanged ==
  /\ NoAnswer
  /\ UNCHANGED <<values, subscriptions, sweepVars, multicastVars, clientVars>>

-----------------------------------------------------------------------------
(* The control point's calls *)

\* The new proxy takes the place of the one before it at "/".
GetSubscriptionProxy(p) ==
  /\ p \notin created
  /\ created' = created \cup {p}
  /\ root' = p
  /\ DeviceUnchanged
  /\ UNCHANGED <<sid, requestId, told, networkVars, ghostVars>>

\* sendCustomRequest: the reply's address identifies the request.
Send(p, method, header) ==
  /\ p \in created
  /\ Len(by) < MaxRequests
  /\ by' = Append(by, p)
  /\ requests' = requests \cup {[id |-> Len(by) + 1, method |-> method, header |-> header]}
  /\ DeviceUnchanged
  /\ UNCHANGED <<root, created, sid, told, replies, events, grant, faultless>>

\* "Second-n" for a positive timeout, "INFINITE" for the others.
TimeoutOf(secs) ==
  IF secs > 0 THEN [form |-> "seconds", secs |-> secs] ELSE [form |-> "none", secs |-> 0]

\* Mutant: an empty SID is sent like any other.
SidHeaderOfUnchecked(p) == [form |-> "uuid", sid |-> sid[p]]

\* The SID header holds the SID as granted, and is left out if that is empty.
SidHeaderOf(p) ==
  IF sid[p] = NoSid THEN [form |-> "absent", sid |-> NoHeader]
  ELSE [form |-> "uuid", sid |-> sid[p]]

SubscriptionRequest(p, secs) ==
  [sid |-> [form |-> "absent", sid |-> NoHeader], nt |-> "upnp:event",
   callback |-> p, timeout |-> TimeoutOf(secs)]

RenewRequest(p, secs) ==
  [sid |-> SidHeaderOf(p), nt |-> "absent", callback |-> NoHeader, timeout |-> TimeoutOf(secs)]

UnsubscriptionRequest(p) ==
  [sid |-> SidHeaderOf(p), nt |-> "absent", callback |-> NoHeader,
   timeout |-> [form |-> "none", secs |-> 0]]

ProxySubscribe(p, secs) ==
  /\ Send(p, "SUBSCRIBE", SubscriptionRequest(p, secs))
  /\ requestId' = [requestId EXCEPT ![p] = Len(by')]

\* A call before the SID is known fails on a null request: not in this model.
ProxyRenew(p, secs) ==
  /\ sid[p] # NoSid
  /\ Send(p, "SUBSCRIBE", RenewRequest(p, secs))
  /\ requestId' = [requestId EXCEPT ![p] = Len(by')]

\* The request is not tracked, and the proxy keeps its SID.
ProxyUnsubscribe(p) ==
  /\ Send(p, "UNSUBSCRIBE", UnsubscriptionRequest(p))
  /\ UNCHANGED requestId

-----------------------------------------------------------------------------
(* The device *)

\* The event a step sent under s (its key is left out, since no proxy looks at
\* it), of the whole service when it is the first, and otherwise of the variable
\* that changed.
EventOf(s) ==
  LET i == CHOOSE i \in DOMAIN subscriptions' : subscriptions'[i].sid = s
  IN [sid |-> s, path |-> subscriptions'[i].callback,
      vals |-> [v \in IF s \in used THEN {changed} ELSE Var |-> values[v]]]

\* What the step of the device just taken sent joins the events in flight.
SendEvents ==
  events' = IF key' = key THEN events
            ELSE Append(events, EventOf(CHOOSE s \in Sid : key'[s] # key[s]))

\* The SID header of the answer to m: the new one, or the one renewed.
GrantedSid(m) ==
  IF m.method = "UNSUBSCRIBE" \/ reply'.status # <<"OK">> THEN NoSid
  ELSE IF used' # used THEN CHOOSE s \in used' : s \notin used
  ELSE m.header.sid.sid

RequestArrives(m) ==
  /\ Len(events) < MaxEvents
  /\ \/ m.method = "SUBSCRIBE" /\ Subscribe(m.header)
     \/ m.method = "UNSUBSCRIBE" /\ Unsubscribe(m.header)
  /\ SendEvents
  /\ requests' = requests \ {m}
  /\ replies' = replies \cup {[id |-> m.id, status |-> Head(reply'.status), sid |-> GrantedSid(m)]}
  /\ grant' = [s \in Sid |-> IF s \in used' \ used THEN m.id ELSE grant[s]]
  /\ UNCHANGED <<proxyVars, by, faultless>>

\* No connection, or an answer from below the event controller.
RequestFails(m) ==
  /\ requests' = requests \ {m}
  /\ replies' = replies \cup {[id |-> m.id, status |-> "failed", sid |-> NoSid]}
  /\ DeviceUnchanged
  /\ UNCHANGED <<proxyVars, events, ghostVars>>

DeviceStep ==
  /\ \/ Len(events) < MaxEvents /\ \E v \in Var, x \in Val : SetValue(v, x)
     \/ Sweep
     \/ Tick
  /\ SendEvents
  /\ UNCHANGED <<proxyVars, requests, replies, ghostVars>>

-----------------------------------------------------------------------------
(* Replies and events arrive *)

\* Mutants: any reply to the proxy counts; the newest proxy gets every reply.
TracksAny(p, id) == by[id] = p
TracksNewest(p, id) == p = root

\* httpFinished looks for the proxy whose request the reply answers.
Tracks(p, id) == requestId[p] = id

\* A reply without a SID, whatever its status, changes nothing.
HttpFinished(x) ==
  /\ replies' = replies \ {x}
  /\ sid' = [p \in Proxy |-> IF p \in created /\ Tracks(p, x.id) /\ x.sid # NoSid
                             THEN x.sid ELSE sid[p]]
  /\ DeviceUnchanged
  /\ UNCHANGED <<root, created, requestId, told, requests, events, ghostVars>>

\* The answer was sent, and the connection broke before it came through.
ReplyLost(x) ==
  /\ x.status # "failed"
  /\ replies' = (replies \ {x}) \cup {[id |-> x.id, status |-> "failed", sid |-> NoSid]}
  /\ DeviceUnchanged
  /\ UNCHANGED <<proxyVars, requests, events, ghostVars>>

\* Mutant: the event must carry the SID the proxy has been granted.
ReceiverBySid(e) == IF sid[root] = e.sid THEN root ELSE NoProxy

\* No service has the path of the event, so it goes to the one at "/".
Receiver(e) == root

EventArrives(i) ==
  /\ events' = RemoveAt(events, i)
  /\ told' = [p \in Proxy |->
                IF p = Receiver(events[i])
                THEN [v \in Var |-> IF v \in DOMAIN events[i].vals
                                    THEN events[i].vals[v] ELSE told[p][v]]
                ELSE told[p]]
  /\ faultless' = (faultless /\ i = 1)
  /\ DeviceUnchanged
  /\ UNCHANGED <<root, created, sid, requestId, requests, replies, by, grant>>

EventLost(i) ==
  /\ events' = RemoveAt(events, i)
  /\ faultless' = FALSE
  /\ DeviceUnchanged
  /\ UNCHANGED <<proxyVars, requests, replies, by, grant>>

-----------------------------------------------------------------------------
NextEventing ==
  \/ \E p \in Proxy :
       \/ GetSubscriptionProxy(p)
       \/ \E secs \in Seconds : ProxySubscribe(p, secs) \/ ProxyRenew(p, secs)
       \/ ProxyUnsubscribe(p)
  \/ \E m \in requests : RequestArrives(m) \/ RequestFails(m)
  \/ \E x \in replies : HttpFinished(x) \/ ReplyLost(x)
  \/ \E i \in DOMAIN events : EventArrives(i) \/ EventLost(i)
  \/ DeviceStep

SpecEventing == InitEventing /\ [][NextEventing]_eventingVars

-----------------------------------------------------------------------------
(* Properties *)

Message == [id : 1..MaxRequests, method : {"SUBSCRIBE", "UNSUBSCRIBE"}, header : Request]
ReplyMessage == [id : 1..MaxRequests, status : Status \cup {"failed"}, sid : Sid \cup {NoSid}]
IsEvent(e) ==
  /\ e.sid \in Sid /\ e.path \in Proxy
  /\ DOMAIN e.vals \subseteq Var /\ \A v \in DOMAIN e.vals : e.vals[v] \in Val

TypeOKEventing ==
  /\ TypeOK
  /\ root \in created \cup {NoProxy} /\ created \subseteq Proxy
  /\ sid \in [Proxy -> Sid \cup {NoSid}]
  /\ requestId \in [Proxy -> 0..Len(by)]
  /\ \A m \in requests : m.id \in DOMAIN by /\ m.method \in {"SUBSCRIBE", "UNSUBSCRIBE"}
                         /\ m.header.sid \in SidHeader
  /\ replies \subseteq ReplyMessage
  /\ \A i \in DOMAIN events : IsEvent(events[i])
  /\ told \in [Proxy -> [Var -> Val \cup {NoVal}]]
  /\ by \in Seq(created) /\ grant \in [Sid -> 0..Len(by)]

\* The SID a proxy holds was granted to a SUBSCRIBE of its own, whichever
\* proxies' replies crossed on the way.
SidFromOwnSubscribe ==
  \A p \in Proxy : sid[p] # NoSid => grant[sid[p]] # 0 /\ by[grant[sid[p]]] = p

\* A reply that comes late, to a request the proxy has since repeated, does not
\* put an older SID in the place of a newer one.
SidNeverGoesBack ==
  [][\A p \in Proxy :
       sid[p] # NoSid /\ sid'[p] # sid[p] =>
         sid'[p] # NoSid /\ grant'[sid'[p]] > grant'[sid[p]]]_eventingVars

\* An UNSUBSCRIBE ends no subscription but one its sender asked for.
CancelsOwn ==
  [][\A m \in requests \ requests', i \in DOMAIN subscriptions :
       subscriptions[i].sid \notin Listed' =>
         /\ m.method = "UNSUBSCRIBE"
         /\ subscriptions[i].callback = by[m.id]]_eventingVars

\* Events that were not lost and did not overtake each other have told the
\* newest proxy the current value of every evented variable, as long as one of
\* its subscriptions is listed.
NewestProxyCurrent ==
  faultless /\ events = <<>> /\ pc = "idle" =>
    \A i \in DOMAIN subscriptions, v \in Evented :
      subscriptions[i].callback = root => told[root][v] = values[v]

\* "Renew the subscribe in a event for the newTimeout passed": a renewal of a
\* listed subscription that reaches the device is accepted.
RenewWorks ==
  [][\A m \in requests \ requests', x \in replies' \ replies :
       x.id = m.id /\ x.status # "failed" /\ m.header.nt = "absent"
         /\ m.method = "SUBSCRIBE" /\ m.header.sid.sid \in Listed =>
       x.status = "OK"]_eventingVars

\* "Path to receive each event response": an event is told to the proxy whose
\* delivery path it was sent to.
DeliveredAtPath ==
  [][\A i \in DOMAIN events :
       events' = RemoveAt(events, i) =>
         \A p \in Proxy : told'[p] # told[p] => p = events[i].path]_eventingVars

=============================================================================
