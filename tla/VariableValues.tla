--------------------------- MODULE VariableValues ---------------------------
(***************************************************************************)
(* BrisaStateVariable as a cell: which texts its data type, range and list *)
(* of allowed values let in, and which changes it tells.                   *)
(*                                                                         *)
(* Texts are compared with the range as numbers of the type, and a text    *)
(* that is none, or none of that width, counts as 0.                       *)
(***************************************************************************)
EXTENDS Integers, FiniteSets

CONSTANTS
  VarText,       \* what attributes and values are set to; "" is the empty one
  NumberIn,      \* [VarText -> the number it is, or NotNumber]
  NotNumber,
  DataTypeName,  \* names of data types
  Convertible,   \* types a text can be converted to (canConvert)
  MaxUInt,       \* the largest unsigned int: 2^32 - 1
  MaxInt32,      \* the largest int: 2^31 - 1
  MaxAllowed     \* bound: allowed values

ASSUME ValuesAssumption ==
  /\ "" \in VarText /\ NumberIn[""] = NotNumber
  /\ \A t \in VarText : NumberIn[t] = NotNumber \/ NumberIn[t] \in Int
  /\ MaxUInt \in Nat /\ MaxInt32 \in Nat /\ MaxAllowed \in Nat

VARIABLES
  cell,        \* the attributes and the value of a BrisaStateVariable
  proper,      \* ghost: the value was one it allows when it was set
  lastTold,    \* ghost: the value of the last signal changed()
  hushed       \* ghost: a change was made with sendEvents off, or by clear()

valueVars == <<cell, proper, lastTold, hushed>>

\* The value of a variable nobody set: the number of an enumerator.
Number == "number"

ValuesInit ==
  /\ cell \in [sendEvents : BOOLEAN, dataType : DataTypeName, minimum : {""}, maximum : {""},
               allowed : {{}}, value : {Number}]
  /\ proper = TRUE /\ lastTold = Number /\ hushed = FALSE

-----------------------------------------------------------------------------
\* getDataType.
TypeOf(name) ==
  CASE name \in {"ui1", "ui2", "ui4"} -> "UInt"
    [] name \in {"i1", "i2", "i4", "int"} -> "Int"
    [] name \in {"r4", "r8", "number", "fixed", "float"} -> "Double"
    [] name \in {"string", "bin.base64", "bin.hex", "uri", "uuid"} -> "String"
    [] name = "boolean" -> "Bool"
    [] name = "char" -> "Char"
    [] name \in {"date", "dateTime", "dateTime.tz", "time", "time.tz"} -> "Date"
    [] OTHER -> "Invalid"

\* The numbers of a type.
Holds(type, n) ==
  CASE type = "UInt" -> n \in 0..MaxUInt
    [] type = "Int" -> n \in -MaxInt32 - 1 .. MaxInt32
    [] OTHER -> TRUE

\* toUInt, toInt, toDouble.
ToNumber(type, text) ==
  IF NumberIn[text] # NotNumber /\ Holds(type, NumberIn[text]) THEN NumberIn[text] ELSE 0

\* Without one end of the range nothing is compared.
Unbounded(c) == c.maximum = "" \/ c.minimum = ""

\* Mutant: the lower end is not looked at.
InRangeBelow(c, text) ==
  LET type == TypeOf(c.dataType) IN ToNumber(type, text) <= ToNumber(type, c.maximum)

InRange(c, text) ==
  LET type == TypeOf(c.dataType)
  IN ToNumber(type, c.minimum) <= ToNumber(type, text) /\ ToNumber(type, text) <= ToNumber(type, c.maximum)

\* validateNewValue.
Validate(c, text) ==
  LET type == TypeOf(c.dataType)
  IN /\ type \in Convertible
     /\ type = "String" => c.allowed = {} \/ text \in c.allowed
     /\ type = "Bool" => text \in {"0", "1", "true", "false", "yes", "no"}
     /\ type \in {"UInt", "Int", "Double"} => Unbounded(c) \/ InRange(c, text)

\* What the attributes say: a number between the ends of the range, or one of the
\* allowed values.  But a text that is no number of the type passes where 0 does.
WithinLimits(c, text) ==
  LET type == TypeOf(c.dataType)
      IsNumber(t) == NumberIn[t] # NotNumber /\ Holds(type, NumberIn[t])
  IN /\ type = "String" => c.allowed = {} \/ text \in c.allowed
     /\ type \in {"UInt", "Int", "Double"} /\ IsNumber(c.minimum) /\ IsNumber(c.maximum) =>
          LET n == IF IsNumber(text) THEN NumberIn[text] ELSE 0
          IN NumberIn[c.minimum] <= n /\ n <= NumberIn[c.maximum]

\* setAttribute(Value).
SetCell(text) ==
  /\ Validate(cell, text) /\ cell.value # text
  /\ cell' = [cell EXCEPT !.value = text]
  /\ proper' = WithinLimits(cell, text)
  /\ lastTold' = IF cell.sendEvents THEN text ELSE lastTold
  /\ hushed' = ~cell.sendEvents

\* setAttribute of the others; nothing looks at the value again.
SetLimit(attribute, text) ==
  /\ attribute = "AllowedValue" => Cardinality(cell.allowed \cup {text}) <= MaxAllowed
  /\ cell' = CASE attribute = "Minimum" -> [cell EXCEPT !.minimum = text]
               [] attribute = "Maximum" -> [cell EXCEPT !.maximum = text]
               [] attribute = "AllowedValue" -> [cell EXCEPT !.allowed = @ \cup {text}]
  /\ UNCHANGED <<proper, lastTold, hushed>>

SetDataType(name) ==
  /\ cell' = [cell EXCEPT !.dataType = name]
  /\ UNCHANGED <<proper, lastTold, hushed>>

SetSendEvents(yes) ==
  /\ cell' = [cell EXCEPT !.sendEvents = yes]
  /\ UNCHANGED <<proper, lastTold, hushed>>

\* clear(): everything but the flags.  An invalid QVariant reads as an empty text.
ClearCell ==
  /\ cell' = [cell EXCEPT !.dataType = "", !.minimum = "", !.maximum = "", !.allowed = {}, !.value = ""]
  /\ proper' = TRUE /\ lastTold' = lastTold /\ hushed' = TRUE

-----------------------------------------------------------------------------
ValuesNext ==
  \/ ClearCell
  \/ \E text \in VarText :
       SetCell(text) \/ \E a \in {"Minimum", "Maximum", "AllowedValue"} : SetLimit(a, text)
  \/ \E name \in DataTypeName : SetDataType(name)
  \/ \E yes \in BOOLEAN : SetSendEvents(yes)

ValuesSpec == ValuesInit /\ [][ValuesNext]_valueVars

-----------------------------------------------------------------------------
(* Properties *)

\* The variables have their types.
ValuesTypeOK ==
  /\ cell.value \in VarText \cup {Number} /\ lastTold \in VarText \cup {Number}
  /\ {cell.minimum, cell.maximum} \subseteq VarText /\ cell.allowed \subseteq VarText
  /\ {proper, hushed} \subseteq BOOLEAN

\* A variable never takes what its attributes do not allow at the time, in whatever
\* order they are set; and what it has its subscribers were told, unless it was changed
\* while events were off.
ValueAllowed == proper /\ (~hushed => lastTold = cell.value)
=============================================================================
