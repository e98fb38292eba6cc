-------------------------- MODULE ServiceDocument --------------------------
(***************************************************************************)
(* The actions and state variables of a BrisaAbstractService, and how      *)
(* BrisaServiceXMLHandler adds to them what the description of the service *)
(* says.  A device reads the description at each start, a control point    *)
(* after each download, both into a service that may have read one before, *)
(* or been given actions by the application.                               *)
(***************************************************************************)
EXTENDS Integers, Sequences, SequencesExt

CONSTANTS
  Scpd,           \* documents
  ActionName,     \* actions the application adds
  MaxScpd,        \* bound: documents read
  ArgumentAdded,  \* arguments it adds to them
  MaxActionsGiven \* bound: what was described or added, before the application adds

\* A document: its root, and the elements and comments below that, each with the
\* actions or variables in it.
ScpdSection(tag, contents) == [tag |-> tag, contents |-> contents]
\* An action ("" is one without a name of its own), with its arguments in order.
ActionElement(name, arguments) == [name |-> name, arguments |-> arguments]
ArgumentElement(name, direction, variable) ==
  [name |-> name, direction |-> direction, variable |-> variable]
\* A variable, whose range may lack an end.
VariableElement(name, range) == [name |-> name, range |-> range]

ASSUME ScpdAssumption ==
  /\ \A d \in Scpd :
       /\ DOMAIN d = {"root", "sections"} /\ d.sections \in Seq(ToSet(d.sections))
       /\ \A x \in ToSet(d.sections) :
            /\ x.contents \in Seq(ToSet(x.contents))
            /\ x.tag = "actionList" =>
                 \A e \in ToSet(x.contents) : e.arguments \in Seq(ToSet(e.arguments))
  /\ {MaxScpd, MaxActionsGiven} \subseteq Nat

VARIABLES
  actionList,         \* names and arguments
  stateVariableList,  \* names
  scpdCount,          \* documents read
  described,          \* ghost: actions and arguments described or added since the
                      \*   actions were cleared
  tables              \* ghost: documents read since the variables were cleared

scpdVars == <<actionList, stateVariableList, scpdCount, described, tables>>

ScpdInit ==
  /\ actionList = <<>> /\ stateVariableList = <<>> /\ scpdCount = 0
  /\ described = <<>> /\ tables = <<>>

-----------------------------------------------------------------------------
(* Actions and arguments *)

\* Mutant: another action of the name is added.
AddedAlways(list, action) == Append(list, action)

\* addAction(): none of a name that is there.
Added(list, action) ==
  IF \E i \in DOMAIN list : list[i].name = action.name THEN list ELSE Append(list, action)

\* getAction(), 0 if there is none.
GetAction(list, name) == SelectInSeq(list, LAMBDA a : a.name = name)

AddActionNamed(name) ==
  /\ Len(described) < MaxActionsGiven
  /\ actionList' = Added(actionList, ActionElement(name, <<>>))
  /\ described' = Append(described, ActionElement(name, <<>>))
  /\ UNCHANGED <<stateVariableList, scpdCount, tables>>

\* addArgument(), of an action the application asked for.
AddArgument(name, argument) ==
  /\ Len(described) < MaxActionsGiven /\ GetAction(actionList, name) # 0
  /\ LET i == GetAction(actionList, name)
     IN actionList' =
          [actionList EXCEPT ![i].arguments = Append(actionList[i].arguments, argument)]
  /\ described' = Append(described, ActionElement(name, <<argument>>))
  /\ UNCHANGED <<stateVariableList, scpdCount, tables>>

ClearActionList ==
  /\ actionList' = <<>> /\ described' = <<>>
  /\ UNCHANGED <<stateVariableList, scpdCount, tables>>

ClearStateVariableList ==
  /\ stateVariableList' = <<>> /\ tables' = <<>>
  /\ UNCHANGED <<actionList, scpdCount, described>>

-----------------------------------------------------------------------------
(* Reading *)

\* The first element of the name "name" in an action: that of its first argument if it
\* has none of its own.
NameRead(element) ==
  IF element.name = "" /\ element.arguments # <<>> THEN element.arguments[1].name
  ELSE element.name

\* An action that is there gets the arguments behind its own.
ReadAction(list, element) ==
  LET i == GetAction(list, NameRead(element))
  IN IF i # 0 THEN [list EXCEPT ![i].arguments = list[i].arguments \o element.arguments]
     ELSE Added(list, ActionElement(NameRead(element), element.arguments))

\* A variable with half a range is left out.
ReadVariable(list, element) ==
  IF element.range = "half" THEN list ELSE Append(list, element.name)

\* parseService() ends at the first thing it does not know, a comment for one.
Known == {"specVersion", "actionList", "serviceStateTable"}
ReadSection(s, section) ==
  IF s.done \/ section.tag \notin Known THEN [s EXCEPT !.done = TRUE]
  ELSE CASE section.tag = "actionList" ->
              [s EXCEPT !.actions = FoldLeft(ReadAction, s.actions, section.contents)]
         [] section.tag = "serviceStateTable" ->
              [s EXCEPT !.variables = FoldLeft(ReadVariable, s.variables, section.contents)]
         [] OTHER -> s

\* For reference: the elements in the sections of a kind that are read.
Contents(doc, tag) ==
  LET unknown == SelectInSeq(doc.sections, LAMBDA x : x.tag \notin Known)
      read == IF doc.root # "scpd" THEN <<>>
              ELSE IF unknown = 0 THEN doc.sections
              ELSE SubSeq(doc.sections, 1, unknown - 1)
  IN FlattenSeq([i \in DOMAIN read |->
                   IF read[i].tag = tag THEN read[i].contents ELSE <<>>])

\* For reference: the actions, under the names they are read by.
ActionsIn(doc) ==
  LET elements == Contents(doc, "actionList")
  IN [i \in DOMAIN elements |-> ActionElement(NameRead(elements[i]), elements[i].arguments)]

ParseService(doc) ==
  /\ scpdCount < MaxScpd
  /\ LET s == FoldLeft(ReadSection,
                       [actions |-> actionList, variables |-> stateVariableList,
                        done |-> doc.root # "scpd"],
                       doc.sections)
     IN actionList' = s.actions /\ stateVariableList' = s.variables
  /\ scpdCount' = scpdCount + 1
  /\ described' = described \o ActionsIn(doc)
  /\ tables' = Append(tables, doc)

-----------------------------------------------------------------------------
ScpdNext ==
  \/ \E name \in ActionName : AddActionNamed(name)
  \/ \E name \in ActionName, argument \in ArgumentAdded : AddArgument(name, argument)
  \/ \E doc \in Scpd : ParseService(doc)
  \/ ClearActionList \/ ClearStateVariableList

ScpdSpec == ScpdInit /\ [][ScpdNext]_scpdVars

-----------------------------------------------------------------------------
(* Properties *)

\* The variables have their types.
ScpdTypeOK ==
  /\ scpdCount \in 0..MaxScpd /\ Len(tables) <= scpdCount
  /\ \A i \in DOMAIN actionList : DOMAIN actionList[i] = {"name", "arguments"}

ArgumentsGiven(name) ==
  FlattenSeq([i \in DOMAIN described |->
                IF described[i].name = name THEN described[i].arguments ELSE <<>>])

\* However often descriptions are read, and whatever the application adds between, there
\* is one action of a name and it has every argument that was ever described for it,
\* so that the first of a name and a direction is that of the first who gave it.  Every
\* variable with a range that has both ends or none is there.
ServiceAsDescribed ==
  /\ \A i, j \in DOMAIN actionList : actionList[i].name = actionList[j].name => i = j
  /\ {actionList[i].name : i \in DOMAIN actionList} =
       {described[i].name : i \in DOMAIN described}
  /\ \A i \in DOMAIN actionList : actionList[i].arguments = ArgumentsGiven(actionList[i].name)
  /\ {stateVariableList[i] : i \in DOMAIN stateVariableList} =
       {e.name : e \in {x \in UNION {Range(Contents(tables[i], "serviceStateTable")) :
                                       i \in DOMAIN tables} : x.range # "half"}}
=============================================================================
