--------------------------- MODULE DeviceDocument ---------------------------
(***************************************************************************)
(* What a device says of itself: BrisaDevice and its embedded devices with *)
(* their attributes and icons, the document BrisaDeviceXMLHandler writes   *)
(* of them, the BrisaControlPointDevice that BrisaDeviceXMLHandlerCP reads *)
(* from such a document, or from one by another make, and the download of  *)
(* its icons.                                                              *)
(*                                                                         *)
(* The reader looks for the elements of a device by their names, in all    *)
(* that is inside the device, so what a device leaves out is taken from a  *)
(* device embedded in it.                                                  *)
(***************************************************************************)
EXTENDS Integers, Sequences, SequencesExt

CONSTANTS
  Settable,          \* attributes the application changes
  DocText,           \* what it sets them to
  IconUrl,
  ForeignDocuments,  \* documents of other makes
  MaxIcons, MaxEmbedded,   \* bounds: icons, and embedded devices, of the device
  MaxDownloads       \* bound: calls of downloadIcons() for one device

\* The elements a device is written with, and those that are read.
WrittenElements ==
  {"deviceType", "friendlyName", "manufacturer", "manufacturerURL", "modelDescription", "modelName",
   "modelNumber", "modelURL", "serialNumber", "UDN", "UPC", "presentationURL"}
ReadElements == WrittenElements \ {"modelDescription", "UPC", "presentationURL"}

ASSUME DocumentAssumption ==
  /\ Settable \subseteq WrittenElements
  /\ \A doc \in ForeignDocuments : \A d \in {doc} \cup ToSet(doc.embedded) :
       /\ DOMAIN d = {"form", "elements", "iconList", "embedded"}
       /\ d.embedded \in Seq(ToSet(d.embedded))
       /\ d.iconList # <<>> => d.iconList[1] \in Seq(ToSet(d.iconList[1]))
  /\ {MaxIcons, MaxEmbedded, MaxDownloads} \subseteq Nat

\* A document: whether its root and version are as they should be, the texts of the
\* elements there are, the list of icons (a sequence of none or one), and the devices
\* embedded in it, which are documents too.
Document(form, elements, iconList, embedded) ==
  [form |-> form, elements |-> elements, iconList |-> iconList, embedded |-> embedded]
Blank == Document("none", [a \in {} |-> ""], <<>>, <<>>)

VARIABLES
  device,      \* the BrisaDevice: attributes, icons, embedded devices
  found,       \* the BrisaControlPointDevice: attributes, embedded devices, the
               \*   length of iconList, and the document it was read from
  icons,       \* its icons: url, replies it waits for, and connections to the device
  downloaded,  \* BrisaControlPointDevice::downloaded
  downloads,   \* calls of downloadIcons()
  ready,       \* ghost: signals onReadyDownloadIcons since the last of them
  early        \* ghost: the first call's signal came before all its replies

foundVars == <<found, icons, downloaded, downloads, ready, early>>
documentVars == <<device, foundVars>>

NotSet == [a \in ReadElements |-> ""]
EmptyDevice == [attributes |-> NotSet, embedded |-> <<>>, listed |-> 0, source |-> Blank]

\* Attributes start as their own names, so that none is taken for another.
DocumentInit ==
  /\ device = [attributes |-> [a \in WrittenElements |-> a], icons |-> <<>>, embedded |-> <<>>]
  /\ found = EmptyDevice
  /\ icons = <<>> /\ downloaded = 0 /\ downloads = 0 /\ ready = 0 /\ early = FALSE

-----------------------------------------------------------------------------
(* The device *)

SetDeviceAttribute(a, text) ==
  /\ device' = [device EXCEPT !.attributes[a] = text]
  /\ UNCHANGED foundVars

AddDeviceIcon(url) ==
  /\ Len(device.icons) < MaxIcons
  /\ device' = [device EXCEPT !.icons = Append(@, url)]
  /\ UNCHANGED foundVars

\* addEmbeddedDevice, with a device of the given friendly name.
EmbedDevice(name) ==
  /\ Len(device.embedded) < MaxEmbedded
  /\ LET attributes == [a \in WrittenElements |-> IF a = "friendlyName" THEN name ELSE "embedded"]
     IN device' = [device EXCEPT !.embedded = Append(@, [attributes |-> attributes, icons |-> <<>>])]
  /\ UNCHANGED foundVars

\* writeDevice: every element is there, with or without a text in it.
WriteDevice(d, embedded) == Document("root", d.attributes, <<d.icons>>, embedded)
WholeDocument == WriteDevice(device, [i \in DOMAIN device.embedded |-> WriteDevice(device.embedded[i], <<>>)])

-----------------------------------------------------------------------------
(* The control point *)

\* A device and what is embedded in it, in the order of the document.
Inside(doc) == <<doc>> \o doc.embedded

\* Of those inside a document, where there is an element of the name.
Places(doc, e) == {i \in DOMAIN Inside(doc) : e \in DOMAIN Inside(doc)[i].elements}

\* Mutant: the last element of the name.
ElementTextLast(doc, e) ==
  IF Places(doc, e) = {} THEN "" ELSE Inside(doc)[Max(Places(doc, e))].elements[e]

\* elementsByTagName(e).at(0), whose text is empty if there is none.
ElementText(doc, e) ==
  IF Places(doc, e) = {} THEN "" ELSE Inside(doc)[Min(Places(doc, e))].elements[e]

\* parseDevice: the name of the model is read from the manufacturer.
ReadAttributes(doc) ==
  [a \in ReadElements |-> ElementText(doc, IF a = "modelName" THEN "manufacturer" ELSE a)]

\* As many icons as the first list has, each of them its first.
ReadIcons(doc) ==
  LET with == {i \in DOMAIN Inside(doc) : Inside(doc)[i].iconList # <<>>}
      list == IF with = {} THEN <<>> ELSE Inside(doc)[Min(with)].iconList[1]
  IN [i \in DOMAIN list |-> [url |-> list[1], waiting |-> 0, connections |-> 0]]

\* An embedded device without a friendly name is left out.
AddNamed(list, attributes) ==
  IF attributes["friendlyName"] = "" THEN list ELSE Append(list, attributes)
ReadEmbedded(doc) == FoldLeft(LAMBDA list, d : AddNamed(list, ReadAttributes(d)), <<>>, doc.embedded)

\* The constructor.  A document without the root element or a version is read no
\* further, and the device stays empty.
ReadDocument(doc) ==
  /\ found' = IF doc.form # "root" THEN [EmptyDevice EXCEPT !.source = doc]
              ELSE [attributes |-> ReadAttributes(doc), embedded |-> ReadEmbedded(doc),
                    listed |-> Len(ReadIcons(doc)), source |-> doc]
  /\ icons' = IF doc.form # "root" THEN <<>> ELSE ReadIcons(doc)
  /\ downloaded' = 0 /\ downloads' = 0 /\ ready' = 0 /\ early' = FALSE
  /\ UNCHANGED device

\* clear() empties the lists, and deletes nothing that was in them.
ClearDevice ==
  /\ found' = EmptyDevice
  /\ UNCHANGED <<device, icons, downloaded, downloads, ready, early>>

-----------------------------------------------------------------------------
(* The download of the icons *)

\* Mutant: the count goes on.
RequestIconsCountingOn ==
  /\ found.listed > 0 /\ downloads < MaxDownloads
  /\ icons' = [i \in DOMAIN icons |->
                 [icons[i] EXCEPT !.waiting = @ + 1, !.connections = @ + 1]]
  /\ downloads' = downloads + 1 /\ ready' = 0
  /\ UNCHANGED <<device, found, downloaded, early>>

\* downloadIcons(): each call connects every icon once more, and asks for it with a
\* network manager of its own.
RequestIcons ==
  /\ found.listed > 0 /\ downloads < MaxDownloads
  /\ downloaded' = 0
  /\ icons' = [i \in DOMAIN icons |->
                 [icons[i] EXCEPT !.waiting = @ + 1, !.connections = @ + 1]]
  /\ downloads' = downloads + 1 /\ ready' = 0
  /\ UNCHANGED <<device, found, early>>

\* downloadFinished, n times in a row: the signal is sent when the count is reached,
\* and at no other.
CountDownloads(n) ==
  /\ downloaded' = downloaded + n
  /\ ready' = IF found.listed \in downloaded + 1 .. downloaded + n THEN ready + 1 ELSE ready

\* The reply, or an error, which is not looked at.  The slot of the device is called
\* once for each connection.
IconReply(i) ==
  /\ icons[i].waiting > 0
  /\ icons' = [icons EXCEPT ![i].waiting = @ - 1]
  /\ CountDownloads(icons[i].connections)
  /\ early' = (early \/ (downloads = 1 /\ ready' > 0 /\ \E j \in DOMAIN icons : icons'[j].waiting > 0))
  /\ UNCHANGED <<device, found, downloads>>

-----------------------------------------------------------------------------
DocumentNext ==
  \/ \E a \in Settable, text \in DocText : SetDeviceAttribute(a, text)
  \/ \E url \in IconUrl : AddDeviceIcon(url)
  \/ \E name \in {"embedded", ""} : EmbedDevice(name)
  \/ \E doc \in ForeignDocuments \cup {WholeDocument} : ReadDocument(doc)
  \/ ClearDevice \/ RequestIcons
  \/ \E i \in DOMAIN icons : IconReply(i)

DocumentSpec == DocumentInit /\ [][DocumentNext]_documentVars

-----------------------------------------------------------------------------
(* Properties *)

\* The variables have their types.
DocumentTypeOK ==
  /\ DOMAIN device.attributes = WrittenElements
  /\ DOMAIN found.attributes = ReadElements
  /\ found.listed \in {0, Len(icons)}
  /\ downloads \in 0..MaxDownloads
  /\ downloaded \in 0 .. MaxDownloads * MaxDownloads * Len(icons)
  /\ early \in BOOLEAN

\* The element an attribute is read from: the name of the model from the manufacturer.
ElementOf(a) == IF a = "modelName" THEN "manufacturer" ELSE a

\* Attributes as the elements they are read from have them, where a document has those.
AsIn(attributes, doc) ==
  \A a \in ReadElements :
    ElementOf(a) \in DOMAIN doc.elements => attributes[a] = doc.elements[ElementOf(a)]

\* As many icons as a document lists, each with the url of the first.
IconsAsIn(doc) ==
  doc.iconList # <<>> =>
    /\ found.listed = Len(doc.iconList[1]) /\ DOMAIN icons = 1..found.listed
    /\ \A i \in DOMAIN icons : icons[i].url = doc.iconList[1][1]

Named(doc) == ElementText(doc, "friendlyName") # ""

\* What the reader makes of a document.  Its attributes, not those of devices embedded in
\* it, except that the device gets the name of its manufacturer for that of its model; of
\* the devices embedded in it those that have a name, in their order, each with its own
\* attributes, but for the same exception; and of its icons as many as it lists, but the
\* first of them that many times.  So the reader does not keep "all it's attributes"
\* (brisadevicexmlhandlercp.h:56-57): see AllAttributes.
DocumentTravels ==
  LET doc == found.source
      named == {j \in DOMAIN doc.embedded : Named(doc.embedded[j])}
  IN doc.form = "root" =>
       /\ AsIn(found.attributes, doc)
       /\ \E at \in [DOMAIN found.embedded -> named] :
            /\ \A j \in named : \E i \in DOMAIN found.embedded : at[i] = j
            /\ \A i, k \in DOMAIN found.embedded : i < k => at[i] < at[k]
            /\ \A i \in DOMAIN found.embedded : AsIn(found.embedded[i], doc.embedded[at[i]])
       /\ IconsAsIn(doc)

\* However often the icons are asked for, and whatever replies are still on their way
\* from earlier calls, each call is told to be ready once and no more: a single call
\* when all have answered, and not before.
IconsReady ==
  /\ ready <= 1 /\ ~early
  /\ found.listed > 0 /\ downloads > 0 /\ (\A i \in DOMAIN icons : icons[i].waiting = 0) => ready = 1

\* A control point has of a device what DocumentTravels says, and each call for its icons
\* is told when they are there.
FoundAsDescribed == DocumentTravels /\ IconsReady

\* "creates a device from a xml description file, with all it's attributes": each of them
\* that the document has is the device's, and so is each icon.
AllAttributes ==
  LET doc == found.source
  IN doc.form = "root" =>
       /\ \A a \in ReadElements \cap DOMAIN doc.elements : found.attributes[a] = doc.elements[a]
       /\ doc.iconList # <<>> =>
            \A i \in DOMAIN doc.iconList[1] : i \in DOMAIN icons /\ icons[i].url = doc.iconList[1][i]
=============================================================================
