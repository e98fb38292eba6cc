----------------------------- MODULE Description -----------------------------
(***************************************************************************)
(* The description of a device: BrisaDevice writes its tree to a file and  *)
(* registers the file and the objects of its services as paths of its web  *)
(* server; a control point downloads the file and the documents it points  *)
(* to and builds its own picture of the device, whose services it then     *)
(* controls at the URLs it read.                                           *)
(*                                                                         *)
(* A path is a pair: what stands before the last slash, and behind it.     *)
(* The device registers a service under its serviceId and the last section *)
(* of its URLs, while the description holds the URLs as they are.          *)
(***************************************************************************)
EXTENDS Integers, Sequences, SequencesExt

CONSTANTS
  Service,      \* services an application may add
  UrlsOf,       \* [Service -> id, and the paths control, event and scpd]
  Name,         \* friendly names
  WithoutBlanks,   \* [Name -> Name]
  NameLength,   \* [Name -> lengths], in units of the text of a service
  Suffix,       \* paths of the application's own web services
  MaxStarts,    \* bound: starts of the device
  MaxServices   \* bound: services of the device, and of those it embeds

ASSUME DescriptionAssumption ==
  /\ \A s \in Service :
       /\ DOMAIN UrlsOf[s] = {"id", "control", "event", "scpd"}
       /\ \A x \in {"control", "event", "scpd"} : UrlsOf[s][x] = <<UrlsOf[s][x][1], UrlsOf[s][x][2]>>
  /\ WithoutBlanks \in [Name -> Name]
  /\ \A n \in Name : WithoutBlanks[WithoutBlanks[n]] = WithoutBlanks[n]
  /\ NameLength \in [Name -> Nat]
  /\ MaxStarts \in Nat /\ MaxServices \in Nat

VARIABLES
  tree,         \* friendlyName, fileAddress, services, services of embedded devices
  location,     \* BrisaDevice::location, as the constructor set it
  up,           \* the device is running
  starts,       \* starts so far
  document,     \* the description file: what was written last, and whether the
                \*   end of a longer one is left behind it
  paths,        \* BrisaWebserver::services: the object at each path
  variables,    \* of each service: the starts its variables were read in, and
                \*   those of the event controllers they are connected to
  picture       \* what a control point made of the document, the services whose
                \*   documents it still fetches, and when it started

descriptionVars == <<tree, location, up, starts, document, paths, variables, picture>>

NoDocument == [name |-> "", services |-> <<>>, embedded |-> <<>>, tail |-> FALSE, length |-> 0]
NoPicture == [name |-> "", services |-> {}, pending |-> <<>>, starts |-> 0, got |-> "nothing"]

DefaultPage == <<"default">>
DescriptionFile == <<"description">>

\* The constructor with the arguments of the device.
DescriptionInit ==
  \E n \in Name :
    /\ tree = [name |-> n, file |-> WithoutBlanks[n], services |-> <<>>, embedded |-> <<>>]
    /\ location = <<"", WithoutBlanks[n]>>
    /\ up = FALSE /\ starts = 0
    /\ document = NoDocument
    /\ paths = [p \in {<<"", "">>} |-> DefaultPage]
    /\ variables = [s \in Service |-> {}]
  /\ picture = NoPicture

-----------------------------------------------------------------------------
(* The application builds its device *)

Unused(s) == s \notin ToSet(tree.services) \cup ToSet(tree.embedded)
Few == Len(tree.services) + Len(tree.embedded) < MaxServices

AddService(s) ==
  /\ Few /\ Unused(s)
  /\ tree' = [tree EXCEPT !.services = Append(@, s)]
  /\ UNCHANGED <<location, up, starts, document, paths, variables, picture>>

\* addEmbeddedDevice, with a device that has one service.
AddEmbeddedDevice(s) ==
  /\ Few /\ Unused(s)
  /\ tree' = [tree EXCEPT !.embedded = Append(@, s)]
  /\ UNCHANGED <<location, up, starts, document, paths, variables, picture>>

\* setAttribute(FriendlyName, n) takes the blanks out of the name, and leaves the
\* location.
SetFriendlyName(n) ==
  /\ tree' = [tree EXCEPT !.name = WithoutBlanks[n], !.file = WithoutBlanks[n]]
  /\ UNCHANGED <<location, up, starts, document, paths, variables, picture>>

\* addService and removeService of the web server: what comes last at a path stays.
WithWebService(known, path, service) ==
  [q \in DOMAIN known \cup {path} |-> IF q = path THEN service ELSE known[q]]
WithoutWebService(known, path) == [q \in DOMAIN known \ {path} |-> known[q]]

Custom(x) == <<"custom", x>>

AddWebservice(x) ==
  /\ paths' = WithWebService(paths, Custom(x), <<"application", x>>)
  /\ UNCHANGED <<tree, location, up, starts, document, variables, picture>>

\* Paths that do not start with "/custom/" are not removed.
RemoveWebservice(p) ==
  /\ p[1] = "custom"
  /\ paths' = WithoutWebService(paths, p)
  /\ UNCHANGED <<tree, location, up, starts, document, variables, picture>>

-----------------------------------------------------------------------------
(* start() and stop() *)

Length == NameLength[tree.name] + Len(tree.services) + Len(tree.embedded)

\* xmlGenerator: the file is opened for reading and writing and not truncated.
Xml ==
  [name |-> tree.name, services |-> tree.services, embedded |-> tree.embedded,
   tail |-> Length < document.length,
   length |-> IF Length < document.length THEN document.length ELSE Length]

\* The path of a service's object: its serviceId, and the end of its URL.
RegisteredAt(s, url) == <<UrlsOf[s].id, url[2]>>

\* buildWebServiceTree.  The objects are new with each start.
WithService(known, s) ==
  LET u == UrlsOf[s]
      control == WithWebService(known, RegisteredAt(s, u.control), <<"control", s, starts + 1>>)
      event == WithWebService(control, RegisteredAt(s, u.event), <<"event", s, starts + 1>>)
  IN WithWebService(event, RegisteredAt(s, u.scpd), <<"scpd", s>>)

\* Mutant: the file is found under the name of the device, blanks and all.
WithFileByName(known) == WithWebService(known, <<"", tree.name>>, DescriptionFile)

WithFile(known) == WithWebService(known, <<"", tree.file>>, DescriptionFile)

\* buildWebServerTree: the services of embedded devices are not registered.
WebServerTree == FoldLeft(WithService, WithFile(paths), tree.services)

\* Mutant: only the variables that were just read are connected.
ConnectedNew(s) == variables[s] \cup {<<starts + 1, starts + 1>>}

\* parseDescriptionFile and connectVariablesEventSignals: the variables are read
\* again, behind those there are, and all of them are connected.
Connected(s) ==
  variables[s] \cup {<<n, starts + 1>> : n \in {v[1] : v \in variables[s]} \cup {starts + 1}}

StartDevice ==
  /\ ~up /\ starts < MaxStarts
  /\ up' = TRUE /\ starts' = starts + 1
  /\ document' = Xml
  /\ paths' = WebServerTree
  /\ variables' = [s \in Service |-> IF s \in ToSet(tree.services) THEN Connected(s) ELSE variables[s]]
  /\ UNCHANGED <<tree, location, picture>>

\* The web server goes on, with the paths it has.
StopDevice ==
  /\ up
  /\ up' = FALSE
  /\ UNCHANGED <<tree, location, starts, document, paths, variables, picture>>

-----------------------------------------------------------------------------
(* The control point *)

At(p) == IF p \in DOMAIN paths THEN paths[p] ELSE <<"notFound">>

Parsed == [name |-> document.name, services |-> {}, starts |-> starts, got |-> "device",
           pending |-> [i \in DOMAIN document.services |-> <<document.services[i], "own">>]
                     \o [i \in DOMAIN document.embedded |-> <<document.embedded[i], "embedded">>]]

\* parseDevice.  What is no description makes a device of its own, an empty one;
\* whether the reader minds what follows the root element is its affair.
DownloadDescription(readable) ==
  /\ starts > 0 /\ picture.pending = <<>>
  /\ readable \/ document.tail
  /\ picture' = IF At(location) = DescriptionFile /\ readable THEN Parsed
                ELSE [NoPicture EXCEPT !.starts = starts, !.got = "no description"]
  /\ UNCHANGED <<tree, location, up, starts, document, paths, variables>>

\* replyFinished does not look at the error of the reply.
DownloadFails ==
  /\ starts > 0 /\ picture.pending = <<>>
  /\ picture' = [NoPicture EXCEPT !.starts = starts, !.got = "error"]
  /\ UNCHANGED <<tree, location, up, starts, document, paths, variables>>

Fetched(actions) ==
  /\ picture.pending # <<>>
  /\ picture' = [picture EXCEPT
                   !.services = @ \cup {[service |-> Head(picture.pending)[1], actions |-> actions]},
                   !.pending = Tail(@)]
  /\ UNCHANGED <<tree, location, up, starts, document, paths, variables>>

\* BrisaServiceFetcher, in an event loop of its own.  A service has the actions of
\* the document its SCPD URL leads to; an embedded device has no base for URLs.
FetchService ==
  LET s == Head(picture.pending)[1]  of == Head(picture.pending)[2]
  IN Fetched(IF of = "own" THEN At(UrlsOf[s].scpd) ELSE <<"notFound">>)

\* It reports no error: a service without actions.
FetchFails == Fetched(<<"lost">>)

-----------------------------------------------------------------------------
DescriptionNext ==
  \/ StartDevice \/ StopDevice \/ DownloadFails \/ FetchService \/ FetchFails
  \/ \E readable \in BOOLEAN : DownloadDescription(readable)
  \/ \E s \in Service : AddService(s) \/ AddEmbeddedDevice(s)
  \/ \E n \in Name : SetFriendlyName(n)
  \/ \E x \in Suffix : AddWebservice(x)
  \/ \E p \in DOMAIN paths : RemoveWebservice(p)

DescriptionSpec == DescriptionInit /\ [][DescriptionNext]_descriptionVars

-----------------------------------------------------------------------------
(* Properties *)

\* The variables have their types.
DescriptionTypeOK ==
  /\ tree.name \in Name /\ tree.file \in Name
  /\ {tree.services, tree.embedded} \subseteq Seq(Service)
  /\ up \in BOOLEAN /\ starts \in 0..MaxStarts
  /\ document.tail \in BOOLEAN
  /\ \A p \in DOMAIN paths : Len(p) = 2
  /\ picture.starts \in 0..starts

\* A service whose URLs follow the rule the device registers by, with three names
\* of its own, and no serviceId of another's.
Proper(s) ==
  LET u == UrlsOf[s]
      urls == {u.control, u.event, u.scpd}
  IN /\ \A p \in urls : p[1] = u.id
     /\ u.control # u.event /\ u.event # u.scpd /\ u.scpd # u.control
     /\ u.id \notin {"", "custom"}
     /\ \A t \in Service : UrlsOf[t].id = u.id => t = s

\* What a control point knows of a proper service leads to that service's objects,
\* those of the latest start, where events of the variables the application sets
\* (the first of each name) come from; and its actions are that service's, unless
\* they were lost on the way.  However old the picture is, whatever the application
\* registered, removed and renamed since.
PictureLeadsHome ==
  \A k \in picture.services :
    LET s == k.service
    IN Proper(s) /\ s \in ToSet(tree.services) =>
         /\ k.actions \in {<<"scpd", s>>, <<"lost">>}
         /\ At(UrlsOf[s].control) = <<"control", s, starts>>
         /\ At(UrlsOf[s].event) = <<"event", s, starts>>
         /\ \E v \in variables[s] : v[2] = starts /\ \A w \in variables[s] : v[1] <= w[1]

\* A service without serviceId may take the path of the description's file.
Hides(s) ==
  <<"", WithoutBlanks[document.name]>> \in {RegisteredAt(s, UrlsOf[s][x]) : x \in {"control", "event", "scpd"}}

\* A picture taken since the last start has the services the device had then.  It
\* has none where the download failed, where the description is shorter than one
\* before it, where the device was started under another file name than the one
\* it announces, or where a service hides the file.
PictureComplete ==
  picture.got # "nothing" /\ picture.starts = starts /\ picture.pending = <<>> =>
    \/ /\ picture.name = document.name
       /\ {k.service : k \in picture.services} = ToSet(document.services) \cup ToSet(document.embedded)
    \/ picture.got = "error"
    \/ document.tail
    \/ WithoutBlanks[document.name] # location[2]
    \/ \E s \in ToSet(document.services) : Hides(s)

\* The control point's picture of the device lacks nothing and misleads nobody.
PictureTrue == PictureLeadsHome /\ PictureComplete
=============================================================================
