----------------------------- MODULE Discovery -----------------------------
(***************************************************************************)
(* A device that joins and leaves the network, and a control point that    *)
(* finds it.  Announcements, searches and answers are UDP datagrams, which *)
(* the network loses, repeats and reorders; descriptions are downloaded    *)
(* over HTTP.  Device and control point are two processes: a call of the   *)
(* device's application is a sequence of steps here, because the control   *)
(* point reacts in the middle of it.                                       *)
(*                                                                         *)
(* The control point handles one event at a time, but while the slot       *)
(* replyFinished downloads the description of a service it runs an event   *)
(* loop of its own, in which every other slot may run, itself included.    *)
(***************************************************************************)
EXTENDS Integers, Sequences, FiniteSets, SequencesExt

CONSTANTS
  Root,           \* the device; what it embeds; the services it offers
  Embedded,
  Service,
  Target,         \* what the control point searches for (its parameter st)
  Download,       \* bound: downloads of device descriptions at a time
  MaxLoops        \* bound: event loops inside each other

Targets ==
  {<<"all">>, <<"root">>} \cup ({"udn", "type"} \X ({Root} \cup Embedded))
    \cup ({"service"} \X Service)

ASSUME DiscoveryAssumption ==
  /\ Target \in Targets
  /\ IsFiniteSet(Embedded) /\ IsFiniteSet(Service)
  /\ MaxLoops \in Nat

\* What doNotify and doByeBye go through: the device itself three times, embedded
\* devices twice, and services.
Announcements == 3 + 2 * Cardinality(Embedded) + Cardinality(Service)
Goodbyes == 3 + 2 * Cardinality(Embedded) + Cardinality(Service)

\* The descriptions a control point downloads after that of the device.
Fetches == Cardinality(Service)

VARIABLES
  dpc,      \* where start, stop or the destructor of the device is; "idle"
  left,     \* announcements still to make
  dying,    \* stop was called by the destructor
  running,  \* BrisaDevice::running
  ssdp,     \* BrisaSSDPServer::running: its socket is in the multicast group
  xml,      \* the description file is written
  web,      \* the web server listens, and knows the description
  refused,  \* it was to listen and could not: another program has the port
  pending,  \* a search waits in that socket
  air,      \* datagrams under way
  cp,       \* BrisaControlPoint::running, and that of its SSDP client
  timer,    \* the timer of the M-SEARCH client runs
  msocket,  \* its socket: "none", "closed", or "bound"
  get,      \* downloads of the device description
  loops,    \* the runs of replyFinished that wait for a service description,
            \*   the innermost last: services left, and whether quit was called
  known     \* the application lists the device

deviceVars == <<dpc, left, dying, running, ssdp, xml, web, refused, pending>>
cpVars == <<cp, timer, msocket, get, loops, known>>
vars == <<deviceVars, air, cpVars>>

\* A USN is told by what stands before "::".  Answers carry one; what becomes
\* of an announcement depends on its kind only.
Alive == <<"alive">>
ByeBye == <<"byebye">>
Search == <<"search">>
Answer(usn) == <<"answer", usn>>

Usns == ({"udn", "type"} \X ({Root} \cup Embedded)) \cup ({"service"} \X Service)
Datagrams == {Alive, ByeBye, Search} \cup {Answer(usn) : usn \in Usns}

\* The search client takes answers whose USN starts with "uuid:" only.
StartsWithUuid(usn) == usn[1] = "udn"

Init ==
  /\ dpc = "idle" /\ left = 0 /\ dying = FALSE
  /\ running = FALSE /\ ssdp = FALSE /\ xml = FALSE /\ web = FALSE /\ refused = FALSE
  /\ pending = FALSE /\ air = {}
  /\ cp = FALSE /\ timer = FALSE /\ msocket = "none"
  /\ get = [d \in Download |-> "none"] /\ loops = <<>>
  /\ known = FALSE

-----------------------------------------------------------------------------
(* The device *)

\* start(), unless it is running.
Start ==
  /\ dpc = "idle" /\ ~running
  /\ dpc' = "xmlGenerator"
  /\ UNCHANGED <<left, dying, running, ssdp, xml, web, refused, pending, air, cpVars>>

XmlGenerator ==
  /\ dpc = "xmlGenerator"
  /\ xml' = TRUE
  /\ dpc' = "startWebServer"
  /\ UNCHANGED <<left, dying, running, ssdp, web, refused, pending, air, cpVars>>

\* Mutant: the web server starts last, when the device is already announced.
StartWebServerLater ==
  /\ dpc = "startWebServer"
  /\ dpc' = "ssdp"
  /\ UNCHANGED <<left, dying, running, ssdp, xml, web, refused, pending, air, cpVars>>

\* The server keeps listening after stop(), and a listen() that finds it so changes
\* nothing.  Another one fails where the port was taken since it was probed; start()
\* looks at no result and goes on.
StartWebServer ==
  /\ dpc = "startWebServer"
  /\ \/ web' = TRUE /\ refused' = FALSE
     \/ ~web /\ web' = FALSE /\ refused' = TRUE
  /\ dpc' = "ssdp"
  /\ UNCHANGED <<left, dying, running, ssdp, xml, pending, air, cpVars>>

JoinGroup ==
  /\ dpc = "ssdp"
  /\ ssdp' = TRUE
  /\ dpc' = "doNotify" /\ left' = Announcements
  /\ UNCHANGED <<dying, running, xml, web, refused, pending, air, cpVars>>

\* One call of BrisaSSDPServer::doNotify.  It writes the datagram twice, which
\* for the control point is one that the network repeats.
DoNotify ==
  /\ dpc = "doNotify" /\ left > 0
  /\ air' = air \cup {Alive}
  /\ left' = left - 1
  /\ UNCHANGED <<dpc, dying, running, ssdp, xml, web, refused, pending, cpVars>>

Started ==
  /\ dpc = "doNotify" /\ left = 0
  /\ running' = TRUE
  /\ dpc' = "idle"
  /\ UNCHANGED <<left, dying, ssdp, xml, web, refused, pending, air, cpVars>>

\* doNotify() of an application that announces its running device again.
AnnounceAgain ==
  /\ dpc = "idle" /\ running
  /\ dpc' = "doNotify" /\ left' = Announcements
  /\ UNCHANGED <<dying, running, ssdp, xml, web, refused, pending, air, cpVars>>

\* stop(), or the destructor, which calls it for a running device.
Stop ==
  /\ dpc = "idle" /\ running
  /\ dpc' = "doByeBye" /\ left' = Goodbyes
  /\ dying' \in BOOLEAN
  /\ UNCHANGED <<running, ssdp, xml, web, refused, pending, air, cpVars>>

\* Mutant: one goodbye too many.
DoByeByeOneMore ==
  /\ dpc = "doByeBye" /\ left >= 0
  /\ air' = air \cup {ByeBye}
  /\ left' = left - 1
  /\ UNCHANGED <<dpc, dying, running, ssdp, xml, web, refused, pending, cpVars>>

DoByeBye ==
  /\ dpc = "doByeBye" /\ left > 0
  /\ air' = air \cup {ByeBye}
  /\ left' = left - 1
  /\ UNCHANGED <<dpc, dying, running, ssdp, xml, web, refused, pending, cpVars>>

\* Mutant: stop() forgets the SSDP server, which goes on answering.
StoppedStillListening ==
  /\ dpc = "doByeBye" /\ left = 0
  /\ running' = FALSE
  /\ dpc' = IF dying THEN "destroyed" ELSE "idle"
  /\ web' = (web /\ ~dying)
  /\ UNCHANGED <<left, dying, ssdp, xml, refused, pending, air, cpVars>>

\* ssdp->stop(); the destructor goes on to delete the web server.
Stopped ==
  /\ dpc = "doByeBye" /\ left = 0
  /\ ssdp' = FALSE /\ pending' = FALSE /\ running' = FALSE
  /\ dpc' = IF dying THEN "destroyed" ELSE "idle"
  /\ web' = (web /\ ~dying)
  /\ UNCHANGED <<left, dying, xml, refused, air, cpVars>>

\* The process ends without a goodbye: it crashed, or the device was stopped.
Vanish ==
  /\ dpc # "destroyed"
  /\ dpc' = "destroyed"
  /\ running' = FALSE /\ ssdp' = FALSE /\ pending' = FALSE /\ web' = FALSE
  /\ UNCHANGED <<left, dying, xml, refused, air, cpVars>>

-----------------------------------------------------------------------------
(* The network.  A datagram that arrives may be repeated, or already be the
   last copy; one that is under way may be lost.                            *)

Arrives(d) == d \in air /\ air' \in {air, air \ {d}}

Lose(d) ==
  /\ d \in air
  /\ air' = air \ {d}
  /\ UNCHANGED <<deviceVars, cpVars>>

\* respondMSearch: the USNs of the answers.  For device types it answers with
\* the UDN; where the search is for everything or for a service, the last two
\* arguments of BrisaSSDPServer::respondMSearch are passed in the wrong order,
\* and the USN is the bare type.
RespondMSearch(st) ==
  CASE st[1] = "all"     -> Usns
    [] st[1] = "root"    -> {<<"udn", Root>>}
    [] st[1] = "udn"     -> {st}
    [] st[1] = "type"    -> {<<"udn", st[2]>>}
    [] st[1] = "service" -> {st}

SearchArrives ==
  /\ ssdp /\ Arrives(Search)
  /\ pending' = TRUE
  /\ UNCHANGED <<dpc, left, dying, running, ssdp, xml, web, refused, cpVars>>

\* datagramReceived, once the main thread of the device is back in its event
\* loop.  Stopping the SSDP server closes the socket and drops what waits in it.
SearchAnswered ==
  /\ dpc = "idle" /\ pending
  /\ pending' = FALSE
  /\ air' = air \cup {Answer(usn) : usn \in RespondMSearch(Target)}
  /\ UNCHANGED <<dpc, left, dying, running, ssdp, xml, web, refused, cpVars>>

\* BrisaWebFile serves the description, if the server is there.
GetServed(d) ==
  /\ get[d] = "asked"
  /\ dpc = "idle" /\ web /\ xml
  /\ get' = [get EXCEPT ![d] = "served"]
  /\ UNCHANGED <<deviceVars, air, cp, timer, msocket, loops, known>>

GetFails(d) ==
  /\ get[d] = "asked"
  /\ get' = [get EXCEPT ![d] = "failed"]
  /\ UNCHANGED <<deviceVars, air, cp, timer, msocket, loops, known>>

-----------------------------------------------------------------------------
(* The control point *)

\* The client for NOTIFY is started, and stopped.
JoinNotifyGroup == ~cp /\ cp' = TRUE
LeaveNotifyGroup == cp /\ cp' = FALSE

\* Mutant: start() leaves out the timer.
CpStartNoTimer ==
  /\ JoinNotifyGroup
  /\ msocket' = "bound"
  /\ UNCHANGED <<deviceVars, air, timer, get, loops, known>>

CpStart ==
  /\ JoinNotifyGroup
  /\ timer' = TRUE /\ msocket' = "bound"
  /\ UNCHANGED <<deviceVars, air, get, loops, known>>

\* Both sockets are closed; downloads and event loops go on.
CpStop ==
  /\ LeaveNotifyGroup
  /\ timer' = FALSE /\ msocket' = "closed"
  /\ UNCHANGED <<deviceVars, air, get, loops, known>>

\* BrisaMSearchClientCP::discover.  Writing to a closed socket binds it again.
SendSearch ==
  /\ air' = air \cup {Search}
  /\ msocket' = "bound"
  /\ UNCHANGED <<deviceVars, cp, timer, get, loops, known>>

\* discover() of the application.  Before the first start() the socket does not
\* exist, and discover() may not be called.
Discover == msocket # "none" /\ SendSearch

TimerFires == timer /\ SendSearch

\* The slot deviceFound: ask for the description.
DeviceFound ==
  \E d \in Download :
    /\ get[d] = "none"
    /\ get' = [get EXCEPT ![d] = "asked"]

AliveArrives ==
  /\ cp /\ Arrives(Alive)
  /\ DeviceFound
  /\ UNCHANGED <<deviceVars, cp, timer, msocket, loops, known>>

AnswerArrives(usn) ==
  /\ msocket = "bound" /\ Arrives(Answer(usn))
  /\ IF StartsWithUuid(usn) THEN DeviceFound ELSE get' = get
  /\ UNCHANGED <<deviceVars, cp, timer, msocket, loops, known>>

\* deviceRemoved; the application takes the device off its list.
ByeByeArrives ==
  /\ cp /\ Arrives(ByeBye)
  /\ known' = FALSE
  /\ UNCHANGED <<deviceVars, cp, timer, msocket, get, loops>>

\* replyFinished.  The reply's error is not looked at: what is no description
\* gives a device without a UDN, which the application ignores.  A description
\* is read up to its first service, or to its end.
ReplyFinished(d) ==
  /\ Len(loops) < MaxLoops
  /\ get[d] \in {"served", "failed"}
  /\ get' = [get EXCEPT ![d] = "none"]
  /\ IF get[d] = "served" /\ Fetches > 0
     THEN loops' = Append(loops, [left |-> Fetches, quit |-> FALSE]) /\ known' = known
     ELSE loops' = loops /\ known' = (known \/ get[d] = "served")
  /\ UNCHANGED <<deviceVars, air, cp, timer, msocket>>

\* A service description arrived, or an error: quit() of that loop is called,
\* by whichever loop runs.
FetchFinished(i) ==
  /\ i \in DOMAIN loops /\ ~loops[i].quit
  /\ loops' = [loops EXCEPT ![i].quit = TRUE]
  /\ UNCHANGED <<deviceVars, air, cp, timer, msocket, get, known>>

\* Only the innermost loop can end: then the next service is fetched, or the
\* signal deviceFound emitted.
LoopEnds ==
  /\ loops # <<>> /\ Last(loops).quit
  /\ IF Last(loops).left > 1
     THEN /\ loops' = Append(Front(loops), [left |-> Last(loops).left - 1, quit |-> FALSE])
          /\ known' = known
     ELSE loops' = Front(loops) /\ known' = TRUE
  /\ UNCHANGED <<deviceVars, air, cp, timer, msocket, get>>

-----------------------------------------------------------------------------
DeviceCall ==
  \/ XmlGenerator \/ StartWebServer \/ JoinGroup \/ DoNotify \/ Started
  \/ DoByeBye \/ Stopped

Next ==
  \/ Start \/ DeviceCall \/ AnnounceAgain \/ Stop \/ Vanish
  \/ SearchArrives \/ SearchAnswered
  \/ CpStart \/ CpStop \/ Discover \/ TimerFires
  \/ AliveArrives \/ ByeByeArrives \/ LoopEnds
  \/ \E d \in Datagrams : Lose(d)
  \/ \E usn \in Usns : AnswerArrives(usn)
  \/ \E d \in Download : GetServed(d) \/ GetFails(d) \/ ReplyFinished(d)
  \/ \E i \in 1..MaxLoops : FetchFinished(i)

Spec == Init /\ [][Next]_vars

\* The two processes run, the timer fires, downloads end, a datagram does not
\* stay under way for ever; and what is sent again and again arrives in the end.
FairSpec ==
  /\ Spec
  /\ WF_vars(DeviceCall)
  /\ WF_vars(TimerFires)
  /\ WF_vars(LoopEnds)
  /\ \A i \in 1..MaxLoops : WF_vars(FetchFinished(i))
  /\ \A d \in Download : SF_vars(ReplyFinished(d))
  /\ WF_vars(Lose(ByeBye))
  /\ SF_vars(SearchArrives) /\ SF_vars(SearchAnswered)
  /\ \A usn \in Usns : SF_vars(AnswerArrives(usn))
  /\ \A d \in Download : SF_vars(GetServed(d))

-----------------------------------------------------------------------------
(* Properties *)

\* The variables have their types.
TypeOK ==
  /\ dpc \in {"idle", "xmlGenerator", "startWebServer", "ssdp", "doNotify",
              "doByeBye", "destroyed"}
  /\ left \in 0..Announcements
  /\ {dying, running, ssdp, xml, web, refused, pending, cp, timer, known} \subseteq BOOLEAN
  /\ air \subseteq Datagrams
  /\ msocket \in {"none", "closed", "bound"}
  /\ get \in [Download -> {"none", "asked", "served", "failed"}]
  /\ loops \in Seq([left : 1..Fetches, quit : BOOLEAN])
  /\ Len(loops) <= MaxLoops

Presence == {Alive} \cup {Answer(usn) : usn \in Usns}

\* What a control point may ask for because of an announcement or an answer is
\* written, and while the device's process is there it is served: start() announces
\* nothing before, and the description of a stopped device stays up.  One case is
\* excepted, and it is all that start() leaves to chance: a listen() that failed,
\* whose result HttpServer::start drops, so that the device announces a description
\* nobody serves, until a later start() finds the port free.
AnnouncedIsServed ==
  (air \cap Presence # {} \/ \E d \in Download : get[d] = "asked")
    => (xml /\ (web \/ refused)) \/ dpc = "destroyed"

\* After the goodbye the device is silent: announcements and answers come only
\* from a call of doNotify() and from a device that is running.
SilentAfterByeBye ==
  [][(air' \ air) \cap Presence # {} => dpc = "doNotify" \/ (dpc = "idle" /\ running)]_vars

\* If in the end both run, the device is left alone and its web server could listen,
\* then in the end the application lists it, whatever datagrams were lost, repeated
\* and overtaken: the search is repeated, and goodbyes of the past do not last.
Discovered == <>[](running /\ web /\ dpc = "idle" /\ cp) => <>[]known
=============================================================================
