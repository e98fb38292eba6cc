------------------------------ MODULE Multicast ------------------------------
(***************************************************************************)
(* Values announced by multicast: a BrisaService whose variables share one *)
(* counter of event keys, its event controllers, which send a datagram for *)
(* each change, and the BrisaMulticastEventReceiver of a control point,    *)
(* which takes datagrams apart and tells the application.                  *)
(*                                                                         *)
(* Each start of the device reads the variables of the service again,      *)
(* behind those it has, and connects all of them to one more controller.   *)
(* Datagrams are lost, repeated and reordered: one that was sent may       *)
(* arrive at any later time, any number of times.                          *)
(***************************************************************************)
EXTENDS Integers, Sequences, SequencesExt

CONSTANTS
  McVar,        \* names of the variables, all evented and multicast,
  McVarSeq,     \*   in the order of the service description
  McValue,      \* texts a variable is set to
  Default,      \* [McVar -> texts]: defaultValue
  Unset,        \* the value of a variable nobody set
  Wide,         \* texts with more bytes than characters
  ReadAs,       \* [texts -> sets of texts]: what a text is read as, once ":e"
                \*   is taken out of the body and a parser has seen it
  Others,       \* datagrams of other senders
  MaxReadings,  \* bound: starts of the device
  MaxSent,      \* bound: datagrams sent
  McSeqMax      \* 0xFFFFFFFF in the code

ASSUME MulticastAssumption ==
  /\ McVarSeq \in Seq(McVar) /\ ToSet(McVarSeq) = McVar
  /\ Default \in [McVar -> McValue] /\ Unset \notin McValue
  /\ McValue \subseteq DOMAIN ReadAs
  /\ MaxReadings \in Nat /\ MaxSent \in Nat /\ McSeqMax \in Nat \ {0}

\* A datagram: the service it names, its key, and what the body says.  That of
\* another sender may end inside a line ("noEnd"), have no body, announce a length
\* that is not that of the body, or have a body that is no document.
Datagram(usn, seq, name, value) ==
  [form |-> "event", usn |-> usn, seq |-> seq, name |-> name, value |-> value]
Malformed(form, usn) == [form |-> form, usn |-> usn]

VARIABLES
  stateVariables,   \* BrisaAbstractService::stateVariableList
  counter,          \* BrisaAbstractService::initialSeq
  readings,         \* starts so far
  sent,             \* the datagrams the service sent
  attributes,       \* BrisaMulticastEventReceiver::attributes
  told,             \* ghost: the datagram of the last signal, and its arguments
  stuck             \* the receiver is in formatMessage for good

serviceVars == <<stateVariables, counter, readings, sent>>
receiverVars == <<attributes, told, stuck>>
multicastVariables == <<serviceVars, receiverVars>>

NoAttributes == [usn |-> "", seq |-> -1, name |-> "", value |-> ""]
NothingTold == [of |-> Malformed("none", ""), as |-> NoAttributes]

MulticastInit ==
  /\ stateVariables = <<>> /\ counter = 0 /\ readings = 0 /\ sent = <<>>
  /\ attributes = NoAttributes /\ told = NothingTold /\ stuck = FALSE

-----------------------------------------------------------------------------
(* The service *)

\* A service as its changes leave it: variables, counter and datagrams.
Now == [list |-> stateVariables, counter |-> counter, sent |-> sent]

\* getNextMulticastSeq.
NextKey(c) == IF c = McSeqMax THEN 0 ELSE c

\* variableChanged, in one controller.
Announce(s, v) ==
  [s EXCEPT !.counter = NextKey(@) + 1,
            !.sent = Append(@, Datagram("own", NextKey(s.counter), v.name, v.value))]

\* The signal of a variable, in every controller it is connected to.
AnnounceInAll(s, v) ==
  FoldLeft(LAMBDA t, k : Announce(t, v), s, [k \in 1..v.controllers |-> k])

\* setAttribute(Value) of the variable at index i, for a value that is new.
SetVariable(s, i, value) ==
  IF s.list[i].value = value THEN s
  ELSE LET set == [s EXCEPT !.list[i].value = value]
       IN AnnounceInAll(set, set.list[i])

ServiceBecomes(s) ==
  /\ Len(s.sent) <= MaxSent
  /\ stateVariables' = s.list /\ counter' = s.counter /\ sent' = s.sent

\* The variables of the description, as the parser makes them.
ReadVariables ==
  [i \in DOMAIN McVarSeq |-> [name |-> McVarSeq[i], value |-> Unset, controllers |-> 0]]

\* Mutant: what is read again counts from 0 again.
ReadAgainFromZero == [Now EXCEPT !.list = @ \o ReadVariables, !.counter = 0]

\* parseService: variables behind those there are, with the counter of the service.
ReadAgain == [Now EXCEPT !.list = @ \o ReadVariables]

\* connectVariablesEventSignals: to the controller this start made.
ConnectAll(s) ==
  [s EXCEPT !.list = [i \in DOMAIN s.list |-> [s.list[i] EXCEPT !.controllers = @ + 1]]]

\* setDefaultValues.
SetDefaults(s) ==
  FoldLeft(LAMBDA t, i : SetVariable(t, i, Default[t.list[i].name]), s, [i \in DOMAIN s.list |-> i])

StartService ==
  /\ readings < MaxReadings
  /\ readings' = readings + 1
  /\ ServiceBecomes(SetDefaults(ConnectAll(ReadAgain)))
  /\ UNCHANGED receiverVars

\* getVariable: the first of the name.
First(name) ==
  CHOOSE i \in DOMAIN stateVariables :
    stateVariables[i].name = name /\ \A j \in 1 .. i - 1 : stateVariables[j].name # name

\* The application sets a variable.
SetMulticast(name, value) ==
  /\ stateVariables # <<>>
  /\ ServiceBecomes(SetVariable(Now, First(name), value))
  /\ UNCHANGED <<readings, receiverVars>>

-----------------------------------------------------------------------------
(* The receiver *)

\* CONTENT-LENGTH is in bytes, and is compared with a number of characters.
LengthOk(d) == d.form \in {"event", "noDocument"} /\ (d.form = "event" => d.value \notin Wide)

\* Mutant: a body that is no document leaves what the message before it said.
BodyKept(d) ==
  IF d.form = "event" THEN {<<d.name, v>> : v \in ReadAs[d.value]}
  ELSE {<<attributes.name, attributes.value>>}

\* parseBody: name and value of the first variable.  No document has neither.
BodySays(d) ==
  IF d.form = "event" THEN {<<d.name, v>> : v \in ReadAs[d.value]} ELSE {<<"", "">>}

\* formatMessage.  A datagram that ends inside a line of its header keeps it in the
\* loop that looks for the end of the line.
Receive(d) ==
  /\ ~stuck
  /\ stuck' = (d.form = "noEnd")
  /\ IF LengthOk(d)
     THEN \E b \in BodySays(d) :
            /\ attributes' = [usn |-> d.usn, seq |-> IF d.form = "event" THEN d.seq ELSE -1,
                              name |-> b[1], value |-> b[2]]
            /\ told' = [of |-> d, as |-> attributes']
     ELSE UNCHANGED <<attributes, told>>
  /\ UNCHANGED serviceVars

-----------------------------------------------------------------------------
MulticastNext ==
  \/ StartService
  \/ \E name \in McVar, value \in McValue : SetMulticast(name, value)
  \/ \E d \in ToSet(sent) \cup Others : Receive(d)

MulticastSpec == MulticastInit /\ [][MulticastNext]_multicastVariables

-----------------------------------------------------------------------------
(* Properties *)

\* The variables have their types.
MulticastTypeOK ==
  /\ \A i \in DOMAIN stateVariables :
       /\ stateVariables[i].name \in McVar /\ stateVariables[i].value \in McValue \cup {Unset}
       /\ stateVariables[i].controllers \in 1..MaxReadings
  /\ counter \in 0 .. McSeqMax
  /\ readings \in 0..MaxReadings /\ Len(sent) <= MaxSent
  /\ stuck \in BOOLEAN

\* Until the counter wraps, keys order the changes, whichever variable and start of
\* the device they are of: of the datagrams for a variable, the one with the greatest
\* key has the value the service has.
KeysOrderChanges ==
  Len(sent) <= McSeqMax =>
    \A i \in DOMAIN sent :
      \/ \E j \in DOMAIN sent : sent[j].name = sent[i].name /\ sent[j].seq > sent[i].seq
      \/ sent[i].value = stateVariables[First(sent[i].name)].value

\* What the application is told is what one datagram says, whatever came before it:
\* its key, and either the value of its variable, or what is left of a value with
\* ":e" or markup in it; and what other senders send that is no event has no name.
OneDatagramTold ==
  told # NothingTold =>
    /\ told.as.usn = told.of.usn
    /\ told.of.form # "event" => told.as.name = "" /\ told.as.value = ""
    /\ told.of.form = "event" =>
         /\ <<told.as.seq, told.as.name>> = <<told.of.seq, told.of.name>>
         /\ ReadAs[told.of.value] = {told.of.value} => told.as.value = told.of.value

\* Keys order what was sent, and what is told is what was sent.
MulticastTrue == KeysOrderChanges /\ OneDatagramTold
=============================================================================
