# Formal models of BRisa Qt

BRisa is a UPnP 1.x library on Qt. An application builds a *device* (services, actions,
state variables) or a *control point* (discovery, action calls, subscriptions), and both
bring their own HTTP server. This directory holds TLA+ models of the parts whose behaviour
depends on the order of things, TLC configurations that check them on small instances, and
TLAPS proofs of what most of them promise for instances of any size: eventing on both ends,
a device's announcements and its descriptions, the web server with its sessions, bodies and
headers, service control, what a device has to itself (variables, port, configuration), and
what the example control points show.

    tlc -workers 2 -config EventController.cfg MCEventController.tla
    tlc -workers 2 -config Parts.cfg MCParts.tla
    tlapm EventController_proofs.tla
    tlapm Eventing_proofs.tla
    tlapm Discovery_proofs.tla
    tlapm Http_proofs.tla
    tlapm SessionPool_proofs.tla
    tlapm Control_proofs.tla
    tlapm Device_proofs.tla
    tlapm Induction_proofs.tla

`PROJECT.json` lists the components, the runs, the lines of the source behind each
definition (`map`), the hazards with the properties that watch them, the disagreements found
between code and documentation, and the theorems.

## 1. The system

| Component | State it keeps | Operations | Interacts with | Module |
|---|---|---|---|---|
| Event controller (`upnp/device/brisaeventcontroller`) | list of subscriptions, each with SID, callback, timeout, last renewal, last key | SUBSCRIBE, renewal, UNSUBSCRIBE, `variableChanged` | web server (requests), state variables (signal `changed`), one socket per event | `EventController`, `EventPublisher` |
| State variables (`upnp/brisastatevariable`) | value, constraints, a multicast counter shared per service | `setAttribute`, `validateNewValue` | event controller, service | `VariableValues`, `Multicast` |
| Event proxies (`upnp/controlpoint/brisaeventproxy`, `brisacontrolpoint`) | SID, tracked request, delivery path; map of proxies; service at "/" | `getSubscriptionProxy`, `subscribe`, `renew`, `unsubscribe`, `httpFinished`, `onRequest` | network access manager, web server, application | `Eventing` |
| Multicast events (`controlpoint/brisamulticasteventreceiver`) | attributes of the datagram read last | datagram received, `parseBody` | UDP, application | `Multicast` |
| HTTP session (`core/httpsession`, `brisawebserversession`) | parser state, buffer, request in progress, chunk state, timer; last request | `onReadyRead`, `atEnd`, `onRequest`, `prepareResponse`, `writeEntityBody`, `onTimeout`, `onConnectionDie` | socket, web services, session manager | `HttpSession`, `WebContent`, `MessageBodies` |
| HTTP server (`core/httpserver`, `httpsessionmanager`) | ring of manager threads, a pool of sessions each | `start`, `incomingConnection`, `onNewConnection`, `releaseSession` | sessions | `SessionPool` |
| Web server and content (`core/brisawebserver`, `brisawebfile`, `brisawebstaticcontent`) | path table; open file | `addService`, `removeService`, `service`; byte ranges | sessions, services | `Description`, `WebContent` |
| Headers (`upnp/herqq_http`) | first line, list of entries | set, add, look up, write, parse | every message | `HttpHeader` |
| Device (`upnp/device/brisadevice`) | running flag, services, embedded devices, icons, SSDP server | `start`, `stop`, `addService`, `addEmbeddedDevice`, `respondMSearch`, `doNotify`, `doByeBye` | SSDP, web server, description file | `Discovery`, `Description`, `DeviceDocument` |
| SSDP (`upnp/ssdp`) | running flag, multicast socket | `doNotify`, `doByeBye`, `msearchReceived`, `notifyReceived` | UDP | `Discovery` |
| Discovery (`controlpoint/brisamsearchclientcp`, `brisacontrolpoint`) | running flag, listeners, downloads | `start`, `stop`, `discover`, `deviceFound`, `replyFinished` | SSDP client, application | `Discovery`, `Description` |
| Descriptions (`brisadevicexmlhandler`, `brisadevicexmlhandlercp`, `brisaservicexmlhandler`) | the file written, the objects read | write, read, download icons | device, control point | `Description`, `DeviceDocument`, `ServiceDocument` |
| Service control (`upnp/device/brisaservice`, `controlpoint/brisacontrolpointservice`) | actions, bound methods; last method called, last response | `call`, `onRequest`, `getResponse` | web server, SOAP | `Control` |
| SOAP (`qtsoap`) | tree of structs, arrays and values | build, write, validate, read | service control | `SoapMessage`, `SoapArray` |
| Configuration (`core/brisaconfig`) | parameters per section, file | `setParameter`, `removeSection`, `update`, `save` | file system, other processes | `Config` |
| Network (`utils/brisanetwork`) | none; port and address in the application | `getValidIP`, `getPort`, `isPortOpen` | other applications of the host | `NetworkAddress` |
| Example control points (`brisa-examples`) | rows, objects, selection, dialog | device found, gone, icons ready, clicks, calls | control point | `ExampleControlPoints` |

All handlers run on the thread of the event loop (the session managers are threads, but
their slots run where the objects live, in the main thread), so a handler is never
interrupted, with one exception: the slot `replyFinished` of a control point runs an event
loop while it downloads the description of a service, and every other slot may run in there.
What makes the system hard is what happens *between* handlers: TCP segments end anywhere;
requests, replies and events travel on connections of their own, are lost and overtake each
other; the clock expires subscriptions, even in the middle of a loop; session objects are
reused for the next client; the application calls operations in any order.

What makes each component correct:

* *Event controller.* A subscription starts with a complete event under key 0; keys count on
  without a gap; what events told a subscriber is current whenever no change is being
  announced; an answer tells what the request did; after its end a subscription is silent;
  expired entries leave; the loop ends.
* *Event proxies.* A proxy holds the SID of its own newest accepted SUBSCRIBE whatever
  replies cross; UNSUBSCRIBE ends what its sender asked for; a proxy that receives its
  events knows the current values; renewals work.
* *HTTP session.* Whatever the segmentation and whoever used the session before, a request
  is answered once, with its own method and its whole body, or refused for its own fault;
  and without waiting for the timer. What it answers is what was asked for, of known length,
  and written to its end; and a body is freed when nobody can use it any more.
* *HTTP server.* Each connection gets a session of its own; no session is lost; the managers
  take turns.
* *Device and discovery.* What is announced can be downloaded; a stopped device is silent; a
  device and a control point that stay up find each other whatever was lost before; what a
  control point reads of a device is what the device has, at paths that lead to the right
  service, also after a restart.
* *Service control.* A method runs once, and only for a call of it; the newest call is
  reported under its own name with its own results; every call ends in a signal.
* *Configuration.* Processes that read before they write agree on the file.
* *Messages and headers.* What one end writes the other reads.

## 2. How the models are arranged

Three groups, each checked on its own because each has a state space of its own:

1. *Eventing*: `EventPublisher` (the promise), `EventController` (the device),
   `EventController_proofs`; `Eventing` composes the controller with the proxies of a
   control point over a lossy network, and `Eventing_proofs` builds on the proofs about the
   controller.
2. *Discovery*: `Discovery` (device, network, control point) and `Discovery_proofs`.
3. *The parts*: modules that share no variable with each other, each closed with its own
   environment (clients, network, application, file system). `MCParts` runs them as a
   **sum**: a variable `part`, chosen in the first state, says which of them a behaviour is
   about, and all other variables stay as they are. The states explored are the states of
   the parts added up, so each is explored as completely as in a run of its own, and the
   actions of one are never hidden by those of another. The proofs are in
   `SessionPool_proofs`, in `Control_proofs` (calls, service documents, messages and arrays
   of SOAP), in `Http_proofs` (parser, content, bodies, headers), in `Device_proofs` (variables,
   network, configuration, device documents, multicast, descriptions) and in
   `Discovery_proofs` (the examples).

`Induction_proofs` has what several of the proofs rest on: induction, folds, and sequences
put behind one another.

The cuts between groups are the places where the code passes values and no shared state:
`HttpSession` ends where a request is complete and `WebContent` and `MessageBodies` begin;
`Control` begins where the body of a request is there; `Discovery` tells that a description
is downloaded, `Description` what is in it.

What would come next: a presence specification that `Discovery` implements, several devices
in it, the parser with requests of HTTP/1.0 and pipelined ones, and the example devices.

## 3. The modules

### EventPublisher

What a device promises its subscribers, without lists, loops or requests: the values, a
status per SID (unused, active, ended), the last key and the view, that is, what the events
sent under a SID told. `Start` sends everything under key 0, `Publish` one current value
under the next key, `End` is final.

### EventController

| TLA+ | Source |
|---|---|
| `subscriptions`, a sequence of records | `BrisaEventController::subscriptions` |
| `age`, `timeout` of a record | `date`, `timeout`; an age is `date.secsTo(now)` |
| `lastSeq`, `firstMessageSent`, `NextSeq`, `AfterNextSeq` | `getNextSeq` |
| `Subscribe` = `RenewMalformed`, `RenewEmptySid`, `Renew`, `SubscribeNew`, `SubscribeBadNt`, `SubscribeIncomplete` | the branches of `subscribe` |
| `Unsubscribe` = `UnsubscribeMalformed`, `UnsubscribeNoSid`, `UnsubscribeUnknown`, `Cancel` | the branches of `unsubscribe` |
| `SetValue` | `setAttribute(Value)`, the signal, the multicast and entry into the loop of `variableChanged` |
| `SweepSend`, `SweepErase`, `SweepEnd`, `SweepOverrun` | one iteration of that loop, its end, and the iterator past `end()` |
| `Tick` | the wall clock |
| `used`, `key`, `view`, `mkey` (ghosts) | what was sent so far |

A request is the four headers the handlers read; the SID header is absent, empty, a bare
identifier or one after `uuid:`, because the handlers compare it in both forms. The timeout
header is a number of seconds or none ("infinite" becomes 0 in `toInt`, as in the code).
`AfterErase` is what `QList::erase` does to an iterator that is not reassigned: the list
closes the gap from its shorter side. Once the iterator has left the list (`pc =
"undefined"`) nothing is claimed.

### Eventing

Extends `EventController` with a control point and the network. `ProxySubscribe`,
`ProxyRenew`, `ProxyUnsubscribe` are the calls of an application; `RequestArrives` hands a
request to the device, whose answer and event become messages in flight; `HttpFinished` and
`EventArrives` are the slots of the control point. `RequestFails`, `ReplyLost`, `EventLost`
and free choice among the messages in flight are the network. `RequestFails` also stands for
a refusal below the event controller. `Url = Proxy`: a callback path is a proxy's delivery
path.

### HttpSession

The client's bytes are symbols: a request line, a header, a number, a text, an end of line.
`ReadyRead(n)` delivers a segment; then each action is one iteration of a loop of
`onReadyRead` or `atEnd` (`pc` says which), so the fall-through between states and the
header loop that does not stop at the empty line are as in the code. The session object goes
through any number of connections.

`Message` is any set of requests, also with methods that do not exist and lines that are no
headers. `MessageAssumption` says what makes a sequence of symbols one request: a line,
header lines, at most one of them with a length, an empty line, and a body that is as long
as announced (if it has several lines, none that reads like another length), or one that
begins with the size of a chunk. `RightAnswer` reads the bytes of a request in its own way,
as a whole and not line by line, and says which answers it may have.

Its requests are of HTTP/1.1, or of a version that is refused, and for paths somebody serves:
the branch for HTTP/1.0, which closes the connection behind the answer, is met as an answer
that may close it (`OnRequest`), and the 404 is in `WebContent` (`NotFound`).

### Discovery

A device and a control point are two processes, so each step of the device that others can
see is an action: `dpc` says where `start()`, `stop()` or the destructor is, and is "idle"
while the device's event loop runs, which is when it answers searches (`SearchAnswered`) and
serves its description (`GetServed`). `AnnounceAgain` is the public `doNotify()`. `air` is a
set: a datagram that arrives may stay (it was repeated) or be gone, `Lose` loses it, and
nothing keeps an order; that the SSDP server writes every announcement twice is one of the
repetitions. An announcement is told by its kind, because a control point uses nothing but
the location; an answer carries the USN, because the search client looks at it. `known` is
the list of the application, kept as `controlpointgui` does (in
`brisa-examples/BrisaControlPoint`). `loops` are the runs of `replyFinished` inside each
other: `FetchFinished` calls `quit()` on any of them, but only the innermost can return
(`LoopEnds`). Embedded devices have no services here: a control point would download their
descriptions in the same way. `StartWebServer` may fail: `HttpServer::start` drops the result
of `listen()`, so a device whose port was taken since it was probed (`refused`) goes on and
announces what nobody serves, until it is started again with the port free. A server that
listens already, as after `stop()`, keeps on. `AnnouncedIsServed` names that case, and says
that it is the only one; `Discovered` is about devices whose web server is up.

### SessionPool

`IncomingConnection` picks the next manager with `NextInRing` (`ringIndex` starts with any
int of `FirstIndices`, since no constructor sets it) and, if the manager's thread has
connected its signal, `onNewConnection` takes a session `FromPool` or makes one.
`ReleaseSession` puts it back when the connection ends. `made`, `given` and `peak` count; a
session is a number from 1 to `made`.

### Control

One call goes through `CallAction`, `DeviceHandles` (the whole handler: web service, SOAP
parser, hooks, `Callable`, the method, the answer, in the order of the code with each of its
returns), and `ReadResponse` (the slot of the control point). Between them calls overtake
each other or are `Lost`. `lastMethod` and the reused response message (`SoapResponse`) are
the control point's whole memory. Clients of other makes send what the parsers can meet: a
request without body, without action, with unknown or undeclared arguments.

### WebContent

`GetFile`, `GetText`, `NotFound` and the others are a request, with the ranges the parser of
`RANGE` tells apart, and its answer; `ResponseHead` is `prepareResponse` (status,
`CONTENT-LENGTH` or chunked); each `Writes` is one turn of the loop of `writeEntityBody`. A
body is the offset of its first byte and a length. A range beyond the end of the file keeps
the loop running for ever: it is excluded in `WritingEnds` by `Satisfiable` and listed as
hazard. In chunks, `AsChunk` writes a size line and the data, with no CRLF behind it, as the
code does, and `LastChunk` is the "0" behind the loop. What a client can tell from that is in
three properties, joined in `ContentDelivered`: `EndByLength`, `EndByChunks` (a client that
takes each chunk by its size finds the end; one that looks for the CRLF fails at the first
chunk, so this is not the framing of HTTP) and `StatusTells` (206 goes with a
`CONTENT-RANGE`, but an open range gets 200 with one). Not covered are answers for files that
cannot be opened, which promise what does not come.

### Description, DeviceDocument, ServiceDocument

`Description` has the paths: what the device registers at its web server under service
identifiers and the last section of URLs, what the generated file holds (with what remains
of an older, longer file behind it), what a control point downloads in which order, and
where its calls arrive. `DeviceDocument` has the contents: attributes, icons and embedded
devices of a document written by the library or by others, read by `elementsByTagName`, and
the count of icon downloads. `DocumentTravels` says what the reader makes of a document,
which is not all of it: the model gets the name of its manufacturer, and every icon is the
first. That is what `AllAttributes` says against the reader's documentation, and it fails
(finding `document_attributes`). `ServiceDocument` has actions, arguments and variables of a
service's description, read once and again into the same service.

### Config, Multicast, MessageBodies, VariableValues

`Config`: several processes with an instance each; `Save` truncates the file, `SaveWrites`
fills it, and a process that ends takes its instance with it. `careful` says that everyone
read before writing and nobody else saved in between, the discipline under which
`SharedConfig` holds. `Multicast`: the counter of keys shared by
the variables of a service and controllers that pile up with each start, datagrams in any
order, and a receiver that keeps its attributes. `MessageBodies`: the pointer to a body in
every message object a session handles, with copy, assignment, `clear()`, `deleteLater`; an
address that is freed may be given out again. `VariableValues`: one variable with its
attributes set in any order.

### HttpHeader, SoapMessage, SoapArray

What is built, the document or text written of it, and what a reader makes of that or of
documents by others. `SoapMessage`'s trees have the depth of the messages the library
builds; writing, reading and comparing them are recursive functions on such trees.
`SoapArray` compares the absolute positions of `pos` and `toString` with the coordinates
they stand for.

In three places the properties of these modules say what the code does where its
documentation says something else; each is named in the comment above the property:

* Of two fault codes that are set the first counts (`faultCode` looks for the first item of
  that name, and `insert` only appends), while `setFaultCode` "sets the fault code", and
  `insert` says that an item of the same name is erased. `MessageTravels` claims the code of a
  message for which one was set and no other (`recoded`).
* An import that fails is said to leave a fault message. It does where the root of the
  document is no message (`imported = "invalid"`), which is claimed; it does not where the
  root does not come first (`NoRoot`), or a value in it cannot be read.
* An array of two to five dimensions that is sent, or read, keeps one of its items: each is
  written with a position like "[1,2]", which the reader takes for 0. `ItemsFound` says that
  in memory all are at their coordinates, `OneOfSeveral` what is left behind a reader.
  `CoordinatesTold`: the iterator tells the first three of five coordinates, and the fourth
  and fifth in steps of the fourth size, right together only where the last two sizes are
  equal. The class promises up to five dimensions.

### NetworkAddress, ExampleControlPoints

`NetworkAddress`: the applications of one host draw a port, probe it, ask for the address
once more and listen later. `ExampleControlPoints`: `controlpointgui` and `TVControlPoint`,
each with its list of objects, its rows and what is selected or opened; a row that was
deleted and is used again, or a null object, is `guiCrashed` or `tvCrashed`, and the
properties say exactly when that can be.

## 4. The runs

| Run | Instance | What it shows |
|---|---|---|
| `event_controller` | 3 SIDs, 2 evented variables of 2 values, timeouts 0 and 1, keys up to 2 | the safety properties and the refinement of `EventPublisher` |
| `event_sweep` | 2 SIDs, negative timeouts, a multicast variable | answers, multicast keys, the end of the loop |
| `expired_removed` | 2 SIDs | *violated*: the iterator leaves the list |
| `eventing` | 2 proxies, 2 SIDs, 3 requests, one event in flight before the device takes the next request or change | SIDs, cancellation, currency of the newest proxy |
| `renew_works`, `delivery_path` | the same | *violated*: renewal compares the wrong text; all proxies share "/" |
| `entity_received`, `notify_served` | 4 chunked messages; 2 events | *violated*: a body is complete too early; a body is read as headers |
| `discovery` | one service, a control point that searches for the device type, one download at a time, two event loops inside each other | what is announced is served unless the server could not listen, silence after the goodbye, discovery in the end |
| `search_by_service` | the same, searching for the service type | *violated*: the answers are dropped |
| `document_attributes` | the parts | *violated*: the model is named after its manufacturer |
| `parts` | see below | each of the parts does what its properties say |

The parts of `parts`, with their bounds and properties:

| Part | Instance | Properties |
|---|---|---|
| pool | 3 connections, 2 managers, first index -2 to 3 | `ExclusiveSessions`, `RingSpreads` |
| session | 17 messages, one per kind, 2 per connection, any number of connections | `AnswersMatch`, `SessionAnswered` (without the timer) |
| control | 2 calls of the control point, 1 of another client, 2 actions, one of them not described | `RunsAsAsked`, `NewestCallReported`, `CallsReported` |
| content | files of 0, 1 and 4 bytes, ranges from 0, 1 and 7, blocks of 2 | `ContentDelivered`, `WritingEnds` |
| description | 3 services, 3 names, 2 starts | `PictureTrue` |
| config | 2 processes, 2 sections of which one is a prefix of the other | `SharedConfig` |
| multicast | 2 variables, keys up to 7, 2 starts | `MulticastTrue` (keys order the changes; one datagram is told as it was sent) |
| bodies | 3 addresses, 5 message objects | `MessagesKept` |
| header | 2 keys in 2 spellings, 2 entries | `HeaderTravels` |
| values | 4 texts, 4 data types, unsigned ints up to 3 | `ValueAllowed` |
| document | 2 icons, 2 embedded devices, 2 downloads, 2 foreign documents | `FoundAsDescribed` (the document travels; the icons get ready) |
| scpd | 2 of 3 documents read in any order | `ServiceAsDescribed` |
| message | messages of 2 building calls, 7 foreign ones | `MessageTravels` |
| array | 1 to 5 dimensions, 2 items, last index up to 4 (`MaxIndex`) | `ArrayHolds` |
| gui, tv | 3 devices, 2 descriptions read | `ExamplesTrue` (the tree; the list of TVs) |
| network | 2 applications, 3 states of the network, 2 seconds | `PortWasFree` |

Properties that two parts of a module share are conjunctions, named for what they say
together (`MulticastTrue`, `FoundAsDescribed`, `ExamplesTrue`, `ContentDelivered`,
`PictureTrue`, `MessagesKept`); `PartsTypeOK` is the conjunction of their type invariants.

**Bounds.** Three subscriptions are the least for which the loop has an entry before, at and
after the one it erases, and the most for which it never passes over one (with four it
does). `SeqMax = 2` makes keys wrap; `MaxAge = 1` makes every age relation to the timeouts 0
and 1 occur. Two proxies and three requests are enough for a repeated SUBSCRIBE whose first
reply comes late, and for two subscriptions and a cancellation; `MaxEvents` holds back the
device's next change, and the next request it takes, while an event is under way (a loop that
has begun still sends all of its events). Two messages per connection let what the first
leaves behind meet the second, and the session serves connection after connection. One download and two event
loops let a download end inside another and start while both wait; a further one would wait
in the same states. `Eventing` is checked up to the view `View`, which drops what no action
and no property but the type invariant reads.

In `parts`, three connections on two managers let one manager have two sessions and take one
from the pool again; two calls of the control point are enough for one that is overtaken,
and a third client meets the device between them; a block of two bytes and a file of four
make bodies of none, one and several blocks; two starts leave the registrations of one
behind those of the next, and a shorter description behind a longer; two processes and one
prefix are where sections of `Config` could mix, and as nothing is claimed once
`careful` is false, that part of the run goes no further; three addresses let one be freed and given
out again while two messages live; two readings are where what the first left meets the
second; two descriptions of devices, and three devices to choose them from, let one come
while another's icons are awaited, be found again, or be gone.

**Symmetry** is used for SIDs (UUIDs are compared for equality) and proxies, in runs without
liveness only.

**Fairness.** `EventController.FairSpec`: the thread inside `variableChanged` goes on
running it. `Discovery.FairSpec`: both processes run (weak fairness of the device's calls, the
slots and the search timer, which repeats); the network delivers what is sent again and
again, and serves a download that is tried again and again (strong fairness), and does not
keep a goodbye for ever. The application is free: `Discovered` is about behaviours in which
it leaves device and control point running. `MCParts.PartsSpec`: the loop that writes a body
goes on running, and so does the handler that parses a request; TCP delivers what was sent
while the connection lives (both as in `HttpSession.FairSessionSpec`); something happens to
every call until it is done (the device handles it, or it is lost, or the slot of the control
point runs): a reply, or its failure, always arrives at the network access manager. No fairness is assumed of clients, of the session timer or of
the network of `Eventing`.

## 5. The proofs

`EventController_proofs` proves, for every finite set of identifiers, every set of
variables, values and timeouts and every `SeqMax > 0`:

* `TypeCorrect`, `ConsistentAlways`, `MulticastInStep`, from the inductive invariant `IInv`:
  the types, `SubscriptionsConsistent`, "a sweep is about an evented variable", and "the
  multicast counter is one ahead of the last key". The second is inductive only with the
  types; the key property needs the last one, because an action property about `mkey` says
  nothing of the counter.
* `Refinement`: each step is a step of `EventPublisher` or a stutter. A renewal and a tick
  stutter; an iteration of the loop is `Publish` or `End`. The mapping computes the status
  of a SID from the list and the set of SIDs handed out.
* `EndedForGood` and `AnswersTell`, from the same invariant. An UNSUBSCRIBE tells the truth
  because no SID is listed twice: removing the entry that was found ends the subscription.
* `CurrentUpToThree`: with at most three identifiers all subscribers are current. The
  invariant is `SubscribersCurrent` itself together with `IInv`; the bound enters in
  `SweepErase`, where a list of at most three that is erased in its second half is erased at
  its end or leaves nothing behind the iterator. It is exact.

`Eventing_proofs` proves, for every set of proxies and every bound on requests and events
besides the constants above, whatever is lost or overtakes:

* `EventingTypes`. A proxy fills in only headers the device can take apart, and the messages
  of a sweep are events of the service; the lemmas `SentTyped` and `SubscribeHeadersTyped`
  say so of the two directions.
* `OwnSids`, `SidsGoForward` and `OwnCancelled`, from the inductive invariant `EInv`: the
  invariant of the controller, the types, and `Owners`. None of the three is inductive: what
  a proxy holds came from a reply, and what a reply carries from a request. `Owners` follows
  a SID all the way: a request says the truth about its sender and was granted nothing yet
  (`RequestsSound`), a reply carries the SID its request was granted (`RepliesSound`), a
  proxy tracks a request of its own and holds a SID granted to that one or to an earlier one
  (`ProxiesSound`), the device lists each subscription under the callback of its owner
  (`CallbacksSound`), and a request is granted one SID at most (`GrantsDistinct`). That a
  late reply changes nothing then follows from the number a proxy tracks. The lemma behind
  every arrival is `ArrivalCases`: only a SUBSCRIBE without a SID grants one.
* `NewestCurrent`, for lists of any length. All events of a control point arrive at the path
  "/", and go to the newest proxy, whichever SID they carry. `RootInformed` says what that
  one will know once the events in flight are in: of each variable, the last event that
  tells it has the current value (or there is none and the proxy has it), unless the loop
  has just begun with that variable. So the entry the loop passes over in a list of four or
  more does no harm to that proxy: by then the loop has sent an event.

`Discovery_proofs` proves, for every finite set of embedded devices and services, every
search target and every bound:

* `DiscoveryTypes`.
* `ServedAlways`. The invariant `IInv` adds `Phases`: past `startWebServer`, and while the
  device or its SSDP server runs, the description is written, and the server is up or its
  `listen()` was refused. The step is
  in two lemmas: a control point hears of the device only from `doNotify` and from the SSDP
  server, or from what it heard before (`HeardFrom`), and only the end of the process takes
  the description away (`UpKept`). What `stop()` sends for every embedded device is one
  lemma, `GoodbyesForAll`.
* `SilentAlways`. `Phases` also says that between calls the SSDP server runs exactly while
  the device does, and that a search waits only in its socket.

It also proves of the example control points, which show what was discovered:

* `TreeIsTrue`: `ExamplesTrue` of `controlpointgui`. `GuiInv` holds only until a device
  comes or goes while icons are awaited: the list has each device once, with its newest
  object (`ListTrue`); the rows that are there are those of the devices listed, and all but
  the one that awaits its icons are items, with their services (`TreeInv`, `IconsInv`); a row
  that was clicked is there as long as it is remembered, and so is the row of the dialog
  (`ClickInv`). The loop of `removeDevice` passes over the item behind the one it removes:
  `RemovalDone` says that this does no harm, since no other row is of the device.
* `TvsAreListed`: the same of the list of `TVControlPoint` (`TvInv`), which removes a row by
  its text and an object by its device: the two stay in step. `TvListTrue` is the part of
  `ExamplesTrue` that is about it.
* `ExamplesTypes` and `TvTypes`: the types of both.

`Http_proofs` proves:

* `SessionTypes`, for every set of messages over the symbols and any number of requests.
  `SessionTypeOK` is inductive as it stands, with `Pooled` in it: a handler runs only while the
  session is not in the pool, and only `ResetParser` puts it there. What has to be argued is
  that what the parser cuts out of its buffer is in it: `EndOfLineInside` (the first end of
  line, by the well-foundedness of the numbers), `LineTyped` (a line and what follows it)
  and `PartTyped` (a chunk, a body). A `CONTENT-LENGTH` that is no number never gets that
  far, which is why the size is one.
* `AnswersAreRight`: `AnswersMatch`, for every set of requests and any number of them. What
  is buffered and what is on the wire together (`Pending`) are what is left of the request
  last sent, from some symbol on, and `SessionInv` says from which, for each state of the
  parser. `Before`: the request is not begun, but there may be lines before it that were
  left of a body in chunks (`Left`), which `onReadyRead` takes for a request of their own.
  `InHead`: the headers are those of the lines that were read. `InPlain`: the header loop
  may have taken lines of a body, but of none with a single line, and what is left of it is
  too short to be handed on. `InChunkedBody`: before the size, before or behind the one
  chunk that is read, or in the trailing headers. `LineFound` is why segments do not matter:
  the first line of the buffer is the first line of `Pending`.
* `ContentTypes`, `BodiesTypes`, `HeaderTypes`: the types of these parts.
* `Delivered`, for files, ranges and blocks of every size. `ContentInv` keeps the books of
  the loop of `writeEntityBody`: the head tells the range and its length, what was written
  began where that range does, what is written and what remains add up to it, and a chunk
  was written if and only if there was data, so that no size line but the last is 0.
* `BodiesOwned`, for any number of addresses. A message that does not own its body
  (`lastRequest`, a copy) reads it in the middle of a request only, so the invariant holds
  between requests: `Idle`, which is `Owned` (a body is alive exactly as long as one message
  owns it) and nothing in the messages of the last request. The lemmas follow `Owned`
  through each copy, assignment, `clear` and `deleteLater` of a request. `LineOk` says that
  a code has its own phrase; the phrases are counted block by block, as the code does.
* `HeadersTravel`, for all keys, values, paths and reasons. `HeaderInv`: under each key is
  what was set last, and what was read is what the parser makes of what is written. The
  lemmas say of a list of entries that writing and reading it again gives the list.

`SessionPool_proofs` proves, for every set of connections, any number of managers and every
bound:

* `PoolTypes` and `SessionsExclusive`, from the inductive invariant `PoolInv`: the types,
  `ExclusiveSessions`, and `MadeForGiven`, "a manager has made no more sessions than it was
  given connections", which bounds `made` and so the numbers in the pools.
  `ExclusiveSessions` holds that the sessions made are exactly those that serve and those in
  the pool, without it a session taken from the pool could be serving already. The two steps
  that matter are taking the last of a sequence without repetition (`FrontDistinct`) and
  appending what is not in it (`AppendDistinct`).
* `RingSpread`. `RingInv` has the rounds in it: the managers that had their turn in this
  round were given one connection more than those that had not, and the index is the number
  of turns there were (`Counted`), which is what bounds it and keeps it from wrapping. The
  lemmas are about division: the remainder of the next number, and of a number in the next
  round.

`Control_proofs` proves, for every number of calls and every service description:

* `NewestReported`. The invariant `CInv` adds what links a call to the one method name and
  the one message the control point keeps: `NewestNamed` (the name is that of the newest
  call), `OutsDeclared` (a response holds arguments of the action only, so none is lost when
  the out arguments are looked up), `SignalledOnce`. `SoapResponseRead` says what parsing
  leaves in the message: an error exactly when the answer is no response that can be read,
  whatever the calls before left there.
* `RunsProperly`, from the same invariant; `NotYetRun` is what makes "once" inductive. It
  assumes that the application's hooks do not return 401, the code the library itself uses
  for an invalid action: the code does not prevent that, and then 401 says nothing.
* `ServiceDescribed`, for all documents, names and arguments. The invariant on the actions,
  `Match`, adds to what is promised that nothing was described for a name the list does not
  have: an action that is added must not owe the arguments of an earlier one. Reading is
  three loops, over sections, actions and variables; the lemmas take them apart into steps
  (`SectionsLoop`, `ActionsLoop`, `VariablesLoop`) and hold each step against the reference,
  which says what the document has before the first section that is not known (`ReadStops`).
* `ItemsAreHeld`, for one to five dimensions of any sizes. The coordinates are numbered one by
  one: `Absolute` keeps their order and reaches every place of the shape, so it is the rank a
  place has among all; and each product of sizes the iterator divides by takes one coordinate
  off the number. The lemmas on products are stated for two factors and used dimension by
  dimension, as the SMT solver does not multiply variables by itself. The nodes that are
  written are the items of the hash, each once: with one dimension reading them puts every
  item back where it was, with several all come to the place 0, and the last stays (`OneIsRead`).
  The invariant is that the shape is one (`ArrayShaped`), that an item is at the number
  of the coordinates it was inserted at (`PlacedTrue`), and that nothing is behind
  `lastIndex` (`LastIsLast`). `IteratorTells` is about one coordinate, `LastTwoTold` about the
  last two of five, which are right as one number.
* `MessagesTravel`, for all methods, arguments, header items, details and codes. Messages are
  trees of bounded depth, as the library builds no deeper ones, and the functions that write,
  read and compare them are recursive functions on such trees: that there are such functions
  is shown depth by depth (`WritesDeeper` ...), from functions on a depth to those on the next.
  A value arrives (`ValueArrives`) and a struct does if its items do (`StructArrives`), which
  takes `parse`'s loop apart into steps (`PartsLoop`). What the setters make is always made of
  sections of methods and faults of values (`Building`), whatever order they are called in.
  For the code of the fault each setter is held against the list that `faultCode()` looks
  through, the items of the first `Fault` of the body (`FaultList`): only `setFaultCode`
  puts a `Faultcode` there, behind those there are, and the first is the one that is found.
  What is promised is only what follows for a single code (`recoded`).
* `ControlTypes`, `ScpdTypes`, `MessageTypes`, `ArrayTyped`: the types of these parts.

`Device_proofs` proves:

* `AllowedValues`, for every set of texts and whatever numbers they are. `ValuesInv` holds
  that the attributes are texts, which is what lets a range be compared, and that the last
  value told is the one there is unless events were off since.
* `FreePort`, for any number of applications, addresses, ports and draws. `NetworkInv`
  follows those that listened when a port was taken: they still do, at another port or
  another address than was asked, unless the probe was late. `Division` and
  `ProductsInOrder` show that what is drawn is a dynamic port.
* `ConfigShared`, for every set of processes and names. `ConfigInv`: as long as everyone is
  careful, a process that may save is the only one with a fresh state, and one in the middle
  of `save()` is that one. Names are lists of words there, and the lemmas show that a key
  belongs to one section only, with dots in the names of others.
* `DeviceFound`, for every document: what the reader makes of it, its two mistakes named.
  `DocumentInv` holds what the document says against what is found in it. `IconsCounted` relates the count of replies to the icons that have
  answered; it is exact for one call for the icons and a bound for several.
* `KeysOrder`, for all variables, values and starts. `MulticastInv`: the keys count on until
  the counter wraps (`Keyed`), and the last datagram of a name has the value of the first
  variable of that name (`LastAsSet`), which is the one `getVariable` finds, as a start puts
  its variables behind those there are. Connecting and setting the defaults are loops, whose
  steps the lemmas follow.
* `PicturesAreTrue`, for all services, URLs and names. `DescriptionInv` has four parts.
  `ListsGrow`: services are only added, to one of the two lists, and the document has the
  lists as they were. `Registered`: each service of the document that has URLs of its own
  has its objects of the latest start there, and the first of its variables is connected.
  `FromDocument`: what a control point has, or still fetches, is in a document.
  `OfLastStart`: a picture of the last start has or awaits all of it. `ServicesLoop` takes
  the registration of the services apart into steps; the attempt showed a case the property
  had left out, a service without `serviceId` whose URL ends like the description's, which
  is registered in its place (`Hides`).
* `ValuesTypes`, `NetworkTypes`, `ConfigTypes`, `DocumentTypes`, `DescriptionTypes`,
  `MulticastTypes`: the types of these parts.

`Induction_proofs` has what the proofs about data rest on. The induction theorems of the
library take an operator, which the provers cannot instantiate, so `Induction` is stated of
a set of numbers, from the least element every such set has, and that from the
well-foundedness of the numbers. `FoldIsThere` says that a fold is a function there is, so
that `FoldLeft`, which chooses one, has the steps of its loop, and `FlattenSteps` the same
of `FlattenSeq`.

The lemmas on `RemoveAt`, on identifiers of updated lists and on `getNextSeq` are stated
once and cited. The assumptions on the constants are evaluated by the runs. Those that the
proofs added only say what the constants are made of: requests have the shape described in
section 3; documents, their lists, headers and the variables of a multicast service are sequences, URLs are pairs, the number of ports is
even, an array has one to five sizes of at least one, its documents hold items and other
nodes; names, types and texts of messages of SOAP are texts (`SoapText`), foreign messages
are no deeper than those of the library, and no argument of a method has the name of a
fault's code or detail, as `addMethodArgument` puts arguments into whatever comes first in
the body, which may be the fault.

Only model-checked:

* liveness (`LapsedLeave`, `ExpiredRemoved`, `SessionAnswered`, `Discovered`, `CallsReported`,
  `WritingEnds`), which is out of the prover's reach;
* `PartsTypeOK` as one formula. Each of its conjuncts, the type invariant of a part, is a
  theorem of that part's own specification (`PoolTypes`, `ControlTypes`, `ContentTypes`
  ...); the conjunction is stated in `MCParts`, which is a module for the run only;
* `ExamplesTrue` of `TVControlPoint` but for its list: what its calls must carry is given by
  the constant `ArgumentsOf` of the instance.

## 6. What is left out

* Hazards without a property: a TIMEOUT that is no number counts as 0, so a subscription of
  the library's own control point with the default timeout has expired when it is made. No
  document of the library promises otherwise; the models contain it (`Eventing`'s requests).
* The text of messages and its layout, logging. Where a text decides something (keys of
  headers, the separator in an entry of the tree, what `toInt` makes of a number) the models
  say what is made of it.
* `renew()` before the SID is known: it follows a null pointer, and the model takes the SID
  as the call's precondition. `discover()` before the first `start()`: likewise.
* How Qt writes the request line of `sendCustomRequest` (method and path are both passed in
  the verb): `Eventing` takes the request as the one that was meant, or as failed.
* Pipelined requests: neither end of the library sends them, and `HttpSession` would lose or
  mix them. A client that stops reading.
* A device process that starts anew under the same UDN at another address, and the expiry of
  announcements: the control point ignores `CACHE-CONTROL`, so a device that vanishes stays
  listed. `Discovery` has one device; embedded devices have no services there.
* Copies of devices, services and state variables: nothing in the library makes them, and
  both copies would delete what they share.
* `BrisaDevice::setAttribute` for the location and the file's address, which would move a
  document that is served; the file of a service's description is taken to be readable.
* `Config` has one file; how its path is chosen is left out.
* `Control` takes the parse of a call (`BrisaActionXmlParser`) as what it finds: no body, no
  action, or an action with its arguments.
* QtSoap: copies of messages, which share their sections; namespaces and prefixes; getters
  and overloads that only convert. An array inside an array writes its type without end
  (`WriteForever`): the model has it, nothing is claimed of it.
* The examples: windows, layout, wording, the keyboard; the media server and the TV device,
  which are databases, players and windows behind services. A device is taken to keep its
  services as long as it keeps its UDN.
