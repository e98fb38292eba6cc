------------------------ MODULE ExampleControlPoints ------------------------
(***************************************************************************)
(* The control points that come with the library: controlpointgui, which   *)
(* shows devices, services and actions as a tree and calls the actions,   *)
(* and TVControlPoint, which lists TVs and has a few buttons for them.     *)
(* Both follow the signals deviceFound and deviceGone of BrisaControlPoint *)
(* and keep what they show in step with a list of devices of their own.    *)
(*                                                                         *)
(* controlpointgui fetches the icons of a device before it adds its        *)
(* services, and keeps only one device to add them to.                     *)
(***************************************************************************)
EXTENDS Integers, Sequences, FiniteSets, SequencesExt

CONSTANTS
  KnownUdn,      \* UDNs of the devices in the network
  NoUdn,         \* the empty one, of a description that was not read
  WithIcons,     \* devices that have icons
  Separated,     \* devices with " - " in their friendly names
  TypesOf,       \* [KnownUdn -> sequences]: the types of their services
  ActionsOf,     \* [types -> sets of actions]
  ArgumentsOf,   \* [actions -> sets]: the names of their "in" arguments
  TvUdn,         \* devices of the type TVControlPoint is for
  TvOperations,  \* the type of service it calls
  MaxObjects,    \* bound: descriptions read
  MaxLogged      \* bound: lines of the event log

ASSUME ExamplesAssumption ==
  /\ NoUdn \notin KnownUdn
  /\ WithIcons \cup Separated \cup TvUdn \subseteq KnownUdn
  /\ \A u \in KnownUdn : TypesOf[u] \in Seq(DOMAIN ActionsOf)
  /\ {MaxObjects, MaxLogged} \subseteq Nat

VARIABLES
  objects,       \* the UDN of each BrisaControlPointDevice, in the order they were made
  gone,          \* ghost: devices whose goodbye was the last that was heard of them
  (* controlpointgui *)
  devices,       \* objects, one for each device
  awaited,       \* objects whose icons are being downloaded
  currentDev, currentDeviceItem,
  treeRows,      \* the rows made for devices: udn, types of the services under
                 \*   it, and whether the row is there still
  items,         \* rows that have their services
  selection,     \* the path of the selected row: row, service, action
  selected,      \* the path that was clicked last, if below a device
  doubleClick,
  dialog,        \* "none" before the first, "open" or "closed"
  closeable, firstCloseable,   \* which no constructor sets, and what was found in it
  labels,        \* of the dialog
  called,        \* ghost: the last call from the dialog that is open, or of a TV
  eventToDevice, \* the device and service of each subscription
  eventLog,
  guiCrashed,
  overlapped,    \* ghost: a device came, or went, while icons were awaited
  (* TVControlPoint *)
  tvs,           \* objects, one for each TV
  tvList,        \* the UDNs of the rows shown
  tvSearches, tvCrashed

treeVars == <<devices, awaited, currentDev, currentDeviceItem, treeRows, items, overlapped>>
clickVars == <<selection, selected, doubleClick, dialog, closeable, labels, called>>
logVars == <<eventToDevice, eventLog>>
guiVars == <<objects, gone, treeVars, clickVars, logVars, firstCloseable, guiCrashed>>
tvVars == <<tvs, tvList, tvSearches, tvCrashed>>
examplesVars == <<guiVars, tvVars>>

NothingCalled == [object |-> 0, service |-> "", action |-> "", arguments |-> {}]

TvInit == tvs = <<>> /\ tvList = <<>> /\ tvSearches = 1 /\ tvCrashed = FALSE

ExamplesInit ==
  /\ objects = <<>> /\ gone = {}
  /\ devices = <<>> /\ awaited = {} /\ currentDev = 0 /\ currentDeviceItem = 0
  /\ treeRows = <<>> /\ items = <<>>
  /\ selection = <<>> /\ selected = <<>> /\ doubleClick = FALSE
  /\ dialog = "none" /\ firstCloseable \in BOOLEAN /\ closeable = firstCloseable
  /\ labels = {} /\ called = NothingCalled
  /\ eventToDevice = <<>> /\ eventLog = <<>>
  /\ guiCrashed = FALSE /\ overlapped = FALSE
  /\ TvInit

-----------------------------------------------------------------------------
(* Common to both *)

\* getDeviceByUDN: 0 if there is none.
DeviceByUdn(list, u) ==
  LET i == SelectInSeq(list, LAMBDA o : objects[o] = u) IN IF i = 0 THEN 0 ELSE list[i]

\* A device that is known is replaced by the object made of it last.
ReplaceDevice(list, u, o) == [i \in DOMAIN list |-> IF objects[list[i]] = u THEN o ELSE list[i]]

\* text.split(" - ")[1]: the UDN, unless the name in front of it has the separator.
UdnInText(u) == IF u \in Separated THEN NoUdn ELSE u

\* getServiceByType, which is NULL if there is none.
HasService(o, type) == o # 0 /\ type \in ToSet(TypesOf[objects[o]])

MakeObject(u) ==
  /\ Len(objects) < MaxObjects
  /\ objects' = Append(objects, u)
  /\ gone' = gone \ {u}

-----------------------------------------------------------------------------
(* controlpointgui: the tree *)

\* addItem: the services of currentDev, and a subscription to each of them.
AddItem(rows, row, u) ==
  /\ items' = Append(items, row)
  /\ treeRows' = [rows EXCEPT ![row].types = rows[row].types \o TypesOf[u]]
  /\ eventToDevice' = eventToDevice \o [i \in DOMAIN TypesOf[u] |-> <<u, TypesOf[u][i]>>]

\* The row of the device; its services wait for its icons.
CreateDeviceItem(o, u) ==
  LET rows == Append(treeRows, [udn |-> u, types |-> <<>>, there |-> TRUE])
  IN /\ currentDeviceItem' = Len(rows)
     /\ IF u \in WithIcons
        THEN awaited' = awaited \cup {o} /\ treeRows' = rows /\ UNCHANGED <<items, eventToDevice>>
        ELSE AddItem(rows, Len(rows), u) /\ awaited' = awaited

DeviceFoundDump(u) ==
  LET o == Len(objects) + 1
      known == DeviceByUdn(devices, u) # 0
  IN /\ ~guiCrashed /\ MakeObject(u)
     /\ devices' = IF u = NoUdn THEN devices
                   ELSE IF known THEN ReplaceDevice(devices, u, o)
                   ELSE Append(devices, o)
     /\ IF u = NoUdn \/ known
        THEN UNCHANGED <<awaited, currentDev, currentDeviceItem, treeRows, items, overlapped, eventToDevice>>
        ELSE /\ currentDev' = o /\ CreateDeviceItem(o, u)
             /\ overlapped' = (overlapped \/ awaited # {})
     /\ UNCHANGED <<clickVars, eventLog, firstCloseable, guiCrashed, tvVars>>

\* onReadyDownloadIcons: the device the icons are of is not the one that is used.
OnReadyDownloadIcons(o) ==
  /\ ~guiCrashed /\ o \in awaited
  /\ awaited' = awaited \ {o}
  /\ IF treeRows[currentDeviceItem].there
     THEN AddItem(treeRows, currentDeviceItem, objects[currentDev]) /\ guiCrashed' = FALSE
     ELSE guiCrashed' = TRUE /\ UNCHANGED <<items, treeRows, eventToDevice>>
  /\ UNCHANGED <<objects, gone, devices, currentDev, currentDeviceItem, overlapped,
                 clickVars, eventLog, firstCloseable, tvVars>>

\* Mutant: the device stays in the list.
ForgetRow(list, u) == list

\* devices.removeOne(getDeviceByUDN(u)).
Forget(list, u) == RemoveFirst(list, DeviceByUdn(list, u))

\* The body of the loop of removeDevice, for the item at s.i that is of the device:
\* the item behind it moves to its index, and is passed over.
RemoveItem(s, u) ==
  LET row == s.items[s.i]
      inside == s.selection # <<>> /\ s.selection[1] = row
      closes == inside /\ Len(s.selection) = 3 /\ closeable
  IN [i |-> s.i + 1, items |-> RemoveAt(s.items, s.i),
      treeRows |-> [s.treeRows EXCEPT ![row].there = FALSE],
      devices |-> Forget(s.devices, u),
      doubleClick |-> s.doubleClick /\ ~inside,
      selection |-> IF inside THEN <<>> ELSE s.selection,
      dialog |-> IF closes /\ s.dialog = "open" THEN "closed" ELSE s.dialog,
      crashed |-> closes /\ dialog = "none"]

\* One turn of it: the text of a row that was deleted is read too.
RemoveTurn(s, u) ==
  IF s.crashed \/ s.i > Len(s.items) THEN s
  ELSE LET row == s.items[s.i]
       IN IF ~s.treeRows[row].there THEN [s EXCEPT !.crashed = TRUE]
          ELSE IF UdnInText(s.treeRows[row].udn) = u THEN RemoveItem(s, u)
          ELSE [s EXCEPT !.i = s.i + 1]

\* The loop takes as many turns as there were items.
SweepItems(u) ==
  FoldLeft(LAMBDA t, item : RemoveTurn(t, u),
           [i |-> 1, items |-> items, treeRows |-> treeRows, devices |-> devices,
            doubleClick |-> doubleClick, selection |-> selection,
            dialog |-> dialog, crashed |-> FALSE],
           items)

\* removeDevice.  Qt selects another row, or none, when the selected one is deleted.
RemoveDevice(u) ==
  LET s == SweepItems(u)
      others == {<<r>> : r \in {q \in DOMAIN s.treeRows : s.treeRows[q].there}}
  IN /\ ~guiCrashed
     /\ gone' = gone \cup {u}
     /\ overlapped' = (overlapped \/ \E o \in awaited : objects[o] = u)
     /\ items' = s.items /\ treeRows' = s.treeRows /\ devices' = s.devices
     /\ doubleClick' = s.doubleClick /\ dialog' = s.dialog /\ guiCrashed' = s.crashed
     /\ called' = IF dialog' = dialog THEN called ELSE NothingCalled
     /\ selection' \in IF s.selection = selection THEN {selection} ELSE others \cup {<<>>}
     /\ UNCHANGED <<objects, awaited, currentDev, currentDeviceItem, selected, closeable,
                    labels, logVars, firstCloseable, tvVars>>

\* expandItems and collapseItems.
ExpandItems ==
  /\ ~guiCrashed
  /\ guiCrashed' = \E i \in DOMAIN items : ~treeRows[items[i]].there
  /\ UNCHANGED <<objects, gone, treeVars, clickVars, logVars, firstCloseable, tvVars>>

-----------------------------------------------------------------------------
(* controlpointgui: calls *)

\* The rows on the screen: <<>> is "UPnP Network".
PathsShown ==
  {<<>>} \cup UNION {
    {<<r>>} \cup {<<r, j>> : j \in DOMAIN treeRows[r].types}
            \cup UNION {{<<r, j, a>> : a \in ActionsOf[treeRows[r].types[j]]} : j \in DOMAIN treeRows[r].types}
    : r \in {q \in DOMAIN treeRows : treeRows[q].there}}

\* itemClicked: lineEnabled.  A dialog that is open takes all input.
LineEnabled(path) ==
  /\ ~guiCrashed /\ dialog # "open"
  /\ selection' = path
  /\ selected' = IF Len(path) > 1 THEN path ELSE <<>>
  /\ doubleClick' = (Len(path) > 1)
  /\ UNCHANGED <<objects, gone, treeVars, dialog, closeable, labels, called, logVars,
                 firstCloseable, guiCrashed, tvVars>>

SelectedDevice == DeviceByUdn(devices, UdnInText(treeRows[selected[1]].udn))
SelectedType == treeRows[selected[1]].types[selected[2]]

\* A field for each argument of the action that was selected.
MountControlDialog ==
  /\ closeable' = TRUE
  /\ IF treeRows[selected[1]].there /\ HasService(SelectedDevice, SelectedType)
     THEN dialog' = "open" /\ labels' = ArgumentsOf[selected[3]] /\ guiCrashed' = FALSE
     ELSE guiCrashed' = TRUE /\ UNCHANGED <<dialog, labels>>

\* itemDoubleClicked: call, which does nothing for a row that is no action.
OpenDialog ==
  /\ ~guiCrashed /\ dialog # "open" /\ doubleClick /\ Len(selected) = 3
  /\ MountControlDialog
  /\ UNCHANGED <<objects, gone, treeVars, selection, selected, doubleClick, called, logVars,
                 firstCloseable, tvVars>>

\* callMethod, with what was entered for each label.
CallMethod ==
  /\ ~guiCrashed /\ dialog = "open"
  /\ IF treeRows[selected[1]].there /\ HasService(SelectedDevice, SelectedType)
     THEN /\ called' = [object |-> SelectedDevice, service |-> SelectedType,
                        action |-> selected[3], arguments |-> labels]
          /\ guiCrashed' = FALSE
     ELSE guiCrashed' = TRUE /\ called' = called
  /\ UNCHANGED <<objects, gone, treeVars, selection, selected, doubleClick, dialog, closeable,
                 labels, logVars, firstCloseable, tvVars>>

CloseDialog ==
  /\ dialog = "open" /\ dialog' = "closed" /\ called' = NothingCalled
  /\ UNCHANGED <<objects, gone, treeVars, selection, selected, doubleClick, closeable, labels,
                 logVars, firstCloseable, guiCrashed, tvVars>>

\* changeEventLog, for an event of the subscription with the given id.
ChangeEventLog(id) ==
  /\ ~guiCrashed /\ Len(eventLog) < MaxLogged
  /\ eventLog' = Append(eventLog, eventToDevice[id])
  /\ UNCHANGED <<objects, gone, treeVars, clickVars, eventToDevice, firstCloseable, guiCrashed, tvVars>>

ClearEventLog ==
  /\ ~guiCrashed /\ eventLog' = <<>>
  /\ UNCHANGED <<objects, gone, treeVars, clickVars, eventToDevice, firstCloseable, guiCrashed, tvVars>>

GuiNext ==
  \/ \E u \in KnownUdn \cup {NoUdn} : DeviceFoundDump(u)
  \/ \E o \in awaited : OnReadyDownloadIcons(o)
  \/ \E u \in KnownUdn : RemoveDevice(u)
  \/ ExpandItems
  \/ \E path \in PathsShown : LineEnabled(path)
  \/ OpenDialog \/ CallMethod \/ CloseDialog
  \/ \E id \in DOMAIN eventToDevice : ChangeEventLog(id)
  \/ ClearEventLog

-----------------------------------------------------------------------------
(* TVControlPoint *)

AddTV(u) == tvList' = Append(tvList, u)

OnNewDevice(u) ==
  LET o == Len(objects) + 1
  IN /\ ~tvCrashed /\ MakeObject(u)
     /\ IF u \notin TvUdn THEN UNCHANGED <<tvs, tvList>>
        ELSE IF DeviceByUdn(tvs, u) # 0
        THEN tvs' = ReplaceDevice(tvs, u, o) /\ tvList' = tvList
        ELSE tvs' = Append(tvs, o) /\ AddTV(u)
     /\ UNCHANGED <<treeVars, clickVars, logVars, firstCloseable, guiCrashed, tvSearches, tvCrashed>>

\* Mutant: the list keeps the row.
RemoveFromListNot(u) == tvList' = tvList /\ tvCrashed' = FALSE

\* removeFromList: a row that is not found is followed as a null pointer.
RemoveFromList(u) ==
  /\ tvList' = RemoveFirst(tvList, u)
  /\ tvCrashed' = (u \notin ToSet(tvList))

\* The control point is stopped, started, and searches again.
Restart == tvSearches' = tvSearches + 1

\* onRemovedDevice, with the USN of the goodbye: only the one that is a plain UDN is
\* that of a TV.
OnRemovedDevice(u, plain) ==
  /\ ~tvCrashed
  /\ gone' = IF plain THEN gone \cup {u} ELSE gone
  /\ IF plain /\ DeviceByUdn(tvs, u) # 0
     THEN /\ tvs' = Forget(tvs, u)
          /\ RemoveFromList(u)
          /\ Restart
     ELSE UNCHANGED tvVars
  /\ UNCHANGED <<objects, treeVars, clickVars, logVars, firstCloseable, guiCrashed>>

\* _ChangeChanel and _OffOn.
CallOf(c, action) ==
  [object |-> c, service |-> TvOperations, action |-> action,
   arguments |-> IF action = "SetChanel" THEN {"NewChanel"} ELSE {}]

\* The buttons, for the row that is selected.
PressButton(i, action) ==
  LET c == DeviceByUdn(tvs, UdnInText(tvList[i]))
  IN /\ ~tvCrashed
     /\ tvCrashed' = ~HasService(c, TvOperations)
     /\ called' = IF tvCrashed' THEN called ELSE CallOf(c, action)
  /\ UNCHANGED <<objects, gone, treeVars, selection, selected, doubleClick, dialog, closeable, labels,
                 logVars, firstCloseable, guiCrashed, tvs, tvList, tvSearches>>

TvNext ==
  \/ \E u \in KnownUdn \cup {NoUdn} : OnNewDevice(u)
  \/ \E u \in KnownUdn, plain \in BOOLEAN : OnRemovedDevice(u, plain)
  \/ \E i \in DOMAIN tvList, action \in {"SetChanel", "OffOn"} : PressButton(i, action)

\* One of them runs in a process.
ExamplesSpec == ExamplesInit /\ [][GuiNext]_examplesVars
TvSpec == ExamplesInit /\ [][TvNext]_examplesVars

-----------------------------------------------------------------------------
(* Properties *)

\* The variables have their types.
ExamplesTypeOK ==
  /\ objects \in Seq(KnownUdn \cup {NoUdn}) /\ gone \subseteq KnownUdn
  /\ ToSet(devices) \cup awaited \cup ToSet(tvs) \subseteq DOMAIN objects
  /\ \A r \in DOMAIN treeRows : treeRows[r].udn \in KnownUdn /\ treeRows[r].there \in BOOLEAN
  /\ ToSet(items) \subseteq DOMAIN treeRows
  /\ dialog \in {"none", "open", "closed"}
  /\ {doubleClick, closeable, guiCrashed, overlapped, tvCrashed} \subseteq BOOLEAN
  /\ Len(eventLog) <= MaxLogged /\ ToSet(tvList) \subseteq KnownUdn

RowsOf(u) == {r \in DOMAIN treeRows : treeRows[r].there /\ treeRows[r].udn = u}
IconsAwaited(u) == \E o \in awaited : objects[o] = u
NewestObject(u, o) == objects[o] = u /\ \A p \in DOMAIN objects : objects[p] = u => p <= o

\* As long as no device comes or goes while icons are awaited, the tree has one row
\* for each device that is known, with all its services once its icons are there, and
\* none for a device that is gone; calls can only go to the object made last of a device.
\* The program reads a dangling or unset pointer only if it found a closeable that is
\* set, or an action was opened of a device whose name has the separator in it.
TreeTrue ==
  ~overlapped =>
    /\ guiCrashed => firstCloseable \/ (selected # <<>> /\ treeRows[selected[1]].udn \in Separated)
    /\ ~guiCrashed =>
         /\ \A i \in DOMAIN devices :
              LET u == objects[devices[i]]
              IN /\ NewestObject(u, devices[i])
                 /\ Cardinality(RowsOf(u)) = 1
                 /\ \A r \in RowsOf(u) : treeRows[r].types = IF IconsAwaited(u) THEN <<>> ELSE TypesOf[u]
         /\ \A u \in gone \ Separated : RowsOf(u) = {}
         /\ \A u \in KnownUdn : RowsOf(u) # {} => DeviceByUdn(devices, u) # 0
    /\ called # NothingCalled => called.arguments = ArgumentsOf[called.action]

\* Rows and TVs are in step, and a TV that said goodbye is in neither.  A button brings
\* the program down only for a TV whose name has the separator in it, or that does not
\* have the service.
TvListTrue ==
  /\ ~tvCrashed => tvList = [i \in DOMAIN tvs |-> objects[tvs[i]]]
  /\ tvCrashed => \E u \in TvUdn : u \in Separated \/ TvOperations \notin ToSet(TypesOf[u])
  /\ \A i \in DOMAIN tvs : NewestObject(objects[tvs[i]], tvs[i]) /\ objects[tvs[i]] \notin gone

\* What the example control points show is what is there.
ExamplesTrue == TreeTrue /\ TvListTrue
=============================================================================
