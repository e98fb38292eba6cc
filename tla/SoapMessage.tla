---------------------------- MODULE SoapMessage ----------------------------
(***************************************************************************)
(* QtSoapMessage: the tree of structs and typed values a message is built  *)
(* as, the document that is written of it, and the message a receiver has  *)
(* after reading that document, or one by another make.                    *)
(***************************************************************************)
EXTENDS Integers, Sequences, SequencesExt

CONSTANTS
  SoapText,         \* names, types and texts
  MethodName,       \* methods the application names
  Argument,         \* typed values it adds to the method,
  HeaderItem, FaultDetail,   \*   to the header, and to a fault
  NumberTypes,      \* types whose text has to be a number
  NumberText,           \* texts that are numbers
  FaultCodes,
  ForeignMessage,   \* documents of other makes
  MaxBuilt,         \* bound: calls that build one message
  MaxFaultItems     \* bound: items in the fault of the receiver's message

\* What a message consists of.
Struct(name, items) == [name |-> name, type |-> "Struct", text |-> "", items |-> items]
Simple(name, type, text) == [name |-> name, type |-> type, text |-> text, items |-> <<>>]

\* Structs in structs, as deep as the library builds them: an envelope, its sections, their
\* items, and what is in those and in the detail of a fault.
Tree(S) == [name : SoapText, type : SoapText, text : SoapText, items : Seq(S)]
Nodes == Tree(Tree(Tree(Tree(Tree({})))))

\* Elements of a document: the type attribute ("none" where there is none), the text
\* in it, and the elements and comments in it.
Element(name, xsi, text, children) == [name |-> name, xsi |-> xsi, text |-> text, children |-> children]
Comment == Element("", "comment", "", <<>>)
Branch(S) == [name : SoapText, xsi : SoapText, text : SoapText, children : Seq(S)]
DomElements == Branch(Branch(Branch(Branch(Branch({})))))

\* Types whose names are not read as themselves.
Misread == {"HexBinary", "NonPositiveInteger"}

\* A value has a type, whose text it has.  Arguments do not have the names that are
\* looked for in a fault.
ASSUME MessageAssumption ==
  /\ \A a \in Argument \cup HeaderItem \cup FaultDetail :
       /\ a = Simple(a.name, a.type, a.text) /\ {a.name, a.type, a.text} \subseteq SoapText
       /\ a.type \notin {"Struct", "none", "comment"}
       /\ a.type \in NumberTypes => a.text \in NumberText
  /\ \A a \in Argument : a.name \notin {"Faultcode", "Faultdetail"}
  /\ MethodName \cup FaultCodes \cup {"", "none", "Struct", "String", "text"} \subseteq SoapText
  /\ {"Envelope", "Header", "Body", "Fault", "Faultcode", "Faultstring", "Faultdetail"} \subseteq SoapText
  /\ NumberTypes \cap {"String", "Other", "Struct"} = {}
  /\ ForeignMessage \subseteq DomElements /\ {MaxBuilt, MaxFaultItems} \subseteq Nat

VARIABLES
  outgoing,    \* the envelope of the message that is built: its sections
  calls,       \* calls that built it
  firstCode,   \* ghost: the first code set since it was empty, or "Other"
  recoded,     \* ghost: and whether another was set behind it
  incoming,    \* the envelope of the receiver's message
  imported,    \* how its last setContent() ended: "ok", or it failed, because the document
               \*   does not begin with its root ("noRoot"), is no message ("invalid") or
               \*   has a value that cannot be read ("unread")
  origin       \* ghost: the message that document was written of, or that there is none

codes == <<firstCode, recoded>>
messageVars == <<outgoing, calls, codes, incoming, imported, origin>>

Foreigner == <<Comment>>

MessageInit ==
  /\ outgoing = <<>> /\ calls = 0 /\ firstCode = "Other" /\ recoded = FALSE
  /\ incoming = <<>> /\ imported = "none" /\ origin = Foreigner

-----------------------------------------------------------------------------
(* Structs *)

\* Mutant: the last of the name.
IndexOfLast(items, name) ==
  LET at == {i \in DOMAIN items : items[i].name = name}
  IN IF at = {} THEN 0 ELSE CHOOSE i \in at : \A j \in at : i >= j

\* at(name): the first of the name, 0 if there is none.
IndexOf(items, name) == SelectInSeq(items, LAMBDA n : n.name = name)

Has(items, name) == IndexOf(items, name) # 0
ItemNamed(items, name) == items[IndexOf(items, name)]

\* insert(), which erases nothing.
WithItems(n, items) == [name |-> n.name, type |-> n.type, text |-> n.text, items |-> items]
WithItem(n, item) == WithItems(n, Append(n.items, item))
Within(items, name, item) == [items EXCEPT ![IndexOf(items, name)] = WithItem(@, item)]
WithStruct(items, name) == IF Has(items, name) THEN items ELSE Append(items, Struct(name, <<>>))

-----------------------------------------------------------------------------
(* Messages.  Their type is never anything but OtherType, so that no setter    *)
(* clears what another made.                                                   *)

\* body() makes a body where there is none, even to look at it.
WithBody(env) == WithStruct(env, "Body")
BodyOf(env) == ItemNamed(WithBody(env), "Body")

AddBodyItem(env, item) == Within(WithBody(env), "Body", item)

\* setFaultCode, setFaultString, addFaultDetail.
WithBodyItems(env, items) ==
  [WithBody(env) EXCEPT ![IndexOf(WithBody(env), "Body")] = WithItems(@, items)]
FaultBody(env) == WithStruct(BodyOf(env).items, "Fault")
AddToFault(env, item) == WithBodyItems(env, Within(FaultBody(env), "Fault", item))
AddToDetail(env, item) ==
  LET body == FaultBody(env)
      details == WithStruct(ItemNamed(body, "Fault").items, "Faultdetail")
      fault == WithItems(ItemNamed(body, "Fault"), Within(details, "Faultdetail", item))
  IN WithBodyItems(env, [body EXCEPT ![IndexOf(body, "Fault")] = fault])

\* faultCode(): a code is a string; others are "Other".
FaultItems(env) ==
  LET body == BodyOf(env).items IN IF Has(body, "Fault") THEN ItemNamed(body, "Fault").items ELSE <<>>
FaultCodeOf(env) ==
  LET fault == FaultItems(env)
  IN IF Has(fault, "Faultcode") /\ ItemNamed(fault, "Faultcode").type = "String"
     THEN ItemNamed(fault, "Faultcode").text ELSE "Other"

Build(env) ==
  /\ calls < MaxBuilt
  /\ outgoing' = env /\ calls' = calls + 1
  /\ UNCHANGED <<incoming, imported, origin>>

SetMethod(m) == Build(AddBodyItem(outgoing, Struct(m, <<>>))) /\ UNCHANGED codes

\* The first item of the body is the method, whatever it is.
AddMethodArgument(a) ==
  /\ IF BodyOf(outgoing).items = <<>> THEN Build(WithBody(outgoing))
     ELSE LET items == BodyOf(outgoing).items
          IN Build(WithBodyItems(outgoing, [items EXCEPT ![1] = WithItem(@, a)]))
  /\ UNCHANGED codes

AddHeaderItem(a) == Build(Within(WithStruct(outgoing, "Header"), "Header", a)) /\ UNCHANGED codes
SetFaultString(s) == Build(AddToFault(outgoing, Simple("Faultstring", "String", s))) /\ UNCHANGED codes
AddFaultDetail(a) == Build(AddToDetail(outgoing, a)) /\ UNCHANGED codes
SetFaultCode(code) ==
  /\ Build(AddToFault(outgoing, Simple("Faultcode", "String", code)))
  /\ firstCode' = IF Has(FaultItems(outgoing), "Faultcode") THEN firstCode ELSE code
  /\ recoded' = (recoded \/ code # firstCode')

ClearMessageTree ==
  /\ outgoing' = <<>> /\ calls' = 0 /\ firstCode' = "Other" /\ recoded' = FALSE
  /\ UNCHANGED <<incoming, imported, origin>>

-----------------------------------------------------------------------------
(* Documents *)

\* toDomElement(): a struct is written without a type.
WrittenAs(n, children) ==
  IF n.type = "Struct" THEN Element(n.name, "none", "", children)
  ELSE Element(n.name, n.type, n.text, <<>>)
ToDomElement[n \in Nodes] == WrittenAs(n, [i \in DOMAIN n.items |-> ToDomElement[n.items[i]]])

ToXml(env) == ToDomElement[Struct("Envelope", env)]

\* soapType(): what is no struct by its attribute is one if the first thing in it is an
\* element.  "Other" is a struct too.
ReadAsStruct(e) ==
  \/ e.xsi \in {"Struct", "Other"}
  \/ e.xsi = "none" /\ e.text = "" /\ e.children # <<>> /\ e.children[1] # Comment

\* nameToType(), of an attribute in lower case.
NameToType(xsi) == IF xsi = "none" THEN "String" ELSE IF xsi \in Misread THEN "Other" ELSE xsi

NumberFits(e) == NameToType(e.xsi) \in NumberTypes => e.text \in NumberText \cup {""}

\* parse() of a struct leaves comments out, stops at what cannot be read and keeps what
\* was.  What is not read in full below an element makes that element unreadable.
ReadPart(read, part) ==
  IF ~read.whole \/ part.comment THEN read
  ELSE IF part.whole THEN [whole |-> TRUE, items |-> Append(read.items, part.item)]
  ELSE [whole |-> FALSE, items |-> read.items]
ReadParts(text, parts) ==
  IF text # "" THEN [whole |-> FALSE, items |-> <<>>]
  ELSE FoldLeft(ReadPart, [whole |-> TRUE, items |-> <<>>], parts)

\* An element, from what is read of those in it.
ReadElement(e, parts) ==
  IF ReadAsStruct(e) THEN [comment |-> FALSE, whole |-> ReadParts(e.text, parts).whole,
                           item |-> Struct(e.name, ReadParts(e.text, parts).items)]
  ELSE [comment |-> e = Comment, whole |-> NumberFits(e),
        item |-> Simple(e.name, NameToType(e.xsi), e.text)]
SoapType[e \in DomElements] == ReadElement(e, [i \in DOMAIN e.children |-> SoapType[e.children[i]]])

ReadStruct(e) == ReadParts(e.text, [i \in DOMAIN e.children |-> SoapType[e.children[i]]])

\* isValidSoapMessage(): an envelope with a body, behind a header or not.
ValidSoapMessage(doc) ==
  LET rest == IF doc.children # <<>> /\ doc.children[1].name = "Header" THEN Tail(doc.children) ELSE doc.children
  IN doc.name = "Envelope" /\ rest # <<>> /\ rest[1].name = "Body"

\* Behind the declaration there is a comment and not the root: nothing is done.
NoRoot(doc) == doc = Comment

\* What an import leaves of a document with an error: what was there, and a fault.
WithImportFault(env) ==
  AddToDetail(AddToFault(AddToFault(env, Simple("Faultcode", "String", "VersionMismatch")),
                         Simple("Faultstring", "String", "invalid")),
              Simple("extra", "String", "reason"))

\* Mutant: what was there is kept.
SetContentKeeping(env, doc) ==
  IF ValidSoapMessage(doc) THEN env \o ReadStruct(doc).items
  ELSE IF NoRoot(doc) THEN env ELSE WithImportFault(env)

\* setContent().
SetContent(env, doc) ==
  IF ValidSoapMessage(doc) THEN ReadStruct(doc).items
  ELSE IF NoRoot(doc) THEN env ELSE WithImportFault(env)

\* A body without anything in it was read as a string: an item added to it would be
\* written behind the end of that.
FaultFits(env) == Has(env, "Body") => ItemNamed(env, "Body").type = "Struct"

Import(doc, source) ==
  /\ ValidSoapMessage(doc) \/ NoRoot(doc) \/ (FaultFits(incoming) /\ Len(FaultItems(incoming)) < MaxFaultItems)
  /\ incoming' = SetContent(incoming, doc)
  /\ imported' = IF ~ValidSoapMessage(doc) THEN (IF NoRoot(doc) THEN "noRoot" ELSE "invalid")
                 ELSE IF ReadStruct(doc).whole THEN "ok" ELSE "unread"
  /\ origin' = source
  /\ UNCHANGED <<outgoing, calls, codes>>

\* submitRequest() clears the answer before it.
ClearReceived ==
  /\ incoming' = <<>> /\ imported' = "none" /\ origin' = Foreigner
  /\ UNCHANGED <<outgoing, calls, codes>>

-----------------------------------------------------------------------------
MessageNext ==
  \/ \E m \in MethodName : SetMethod(m)
  \/ \E a \in Argument : AddMethodArgument(a)
  \/ \E a \in HeaderItem : AddHeaderItem(a)
  \/ \E a \in FaultDetail : AddFaultDetail(a)
  \/ \E code \in FaultCodes : SetFaultCode(code)
  \/ SetFaultString("text")
  \/ ClearMessageTree \/ ClearReceived
  \/ Import(ToXml(outgoing), outgoing)
  \/ \E doc \in ForeignMessage : Import(doc, Foreigner)

MessageSpec == MessageInit /\ [][MessageNext]_messageVars

-----------------------------------------------------------------------------
(* Properties *)

\* The variables have their types.
MessageTypeOK ==
  /\ calls \in 0..MaxBuilt /\ imported \in {"none", "ok", "noRoot", "invalid", "unread"}
  /\ firstCode \in FaultCodes \cup {"Other"} /\ recoded \in BOOLEAN

\* What the receiver finds by name: items in their order, with their texts, and with their
\* types but for those whose names are not read as themselves.  A struct without items is
\* an empty string to the receiver, an empty value without a type a struct.
ReceivedType(n) ==
  IF n.type = "Struct" /\ n.items = <<>> THEN "String"
  ELSE IF n.type = "Other" THEN "Struct" ELSE NameToType(n.type)
Received[n \in Nodes] ==
  [name |-> n.name, type |-> ReceivedType(n), text |-> n.text,
   items |-> [i \in DOMAIN n.items |-> Received[n.items[i]]]]

\* Some value in it is a text without a type.
Untyped[n \in Nodes] ==
  (n.type = "Other" /\ n.text # "") \/ \E i \in DOMAIN n.items : Untyped[n.items[i]]

\* A message arrives as it was built, at a receiver that had others before, unless it
\* has no body or a value without a type in it, which is not read.  A fault code that was
\* set is the one of the message; of several that were set nothing is claimed, for the
\* first counts in the code, while setFaultCode "sets the fault code ... to code" (qtsoap.cpp:2724)
\* and insert says of itself that it erases "any existing item" of the name (:1741-1742).
\* After an import that failed because the root of the document is no message there is a
\* fault to be seen; of one that failed because of a value in it, or because the root is not
\* the first thing behind the declaration, nothing is claimed: there is none, while by its
\* documentation (:2435) the message "becomes a Fault message".
MessageTravels ==
  /\ origin # Foreigner /\ imported = "ok" => incoming = [i \in DOMAIN origin |-> Received[origin[i]]]
  /\ origin # Foreigner /\ imported = "invalid" => ~ValidSoapMessage(ToXml(origin))
  /\ origin # Foreigner /\ imported = "unread" => Untyped[Struct("", origin)]
  /\ ~recoded => FaultCodeOf(outgoing) = firstCode
  /\ imported = "invalid" => Has(BodyOf(incoming).items, "Fault")
=============================================================================
