------------------------------ MODULE Control ------------------------------
(***************************************************************************)
(* Actions called over HTTP: BrisaControlPointService sends a call and     *)
(* reads the answer, BrisaControlWebService, BrisaService and BrisaAction  *)
(* on the device take it apart, run the hooks and the method of the        *)
(* application, and answer.                                                *)
(*                                                                         *)
(* The device handles a request from end to end before it does anything    *)
(* else, so that is one step; but calls travel on connections of their     *)
(* own, and their answers come back in any order, or not at all, to a      *)
(* control point that keeps one method name and one response message.      *)
(***************************************************************************)
EXTENDS Integers, Sequences

CONSTANTS
  Call,           \* requests of a run: those of the control point,
  Foreign,        \*   and those of other clients
  Action,         \* the actions of the service description
  Method,         \* what may be called
  Lowered,        \* [Action -> names in lower case]
  Invokable,      \* the methods of the service's class that take and return what
                  \*   an action does
  InNames,        \* [Action -> sets of names of arguments]: direction "in"
  OutNames,       \*   and direction "out"
  ArgumentSets,   \* sets of names a caller passes
  Results,        \* what the application's method returns: maps from names of
                  \*   arguments to values, or NullResult
  NullResult,
  HookCodes,      \* what preAction and postAction return; 0 is success
  FailureCodes,   \* what handleActionFailure returns, UPNP_ACTION_FAILED
                  \*   without one
  Described       \* actions the control point read of: none where it could not
                  \*   download the description of the service

UPNP_INVALID_ACTION == 401

ASSUME ControlAssumption ==
  /\ Foreign \subseteq Call
  /\ Action \subseteq Method
  /\ DOMAIN Lowered = Action
  /\ HookCodes \cup FailureCodes \subseteq Nat
  /\ Described \subseteq Action

\* bindActionsToServiceMethods: actions with a method.  Two that differ in case only
\* have the same one.
Bound == {a \in Action : Lowered[a] \in Invokable}

\* A request as the device reads it.  Only clients of other makes send what is no
\* POST, no SOAP envelope with a method, or for another service type.
ActionCall(m, arguments) == [form |-> "call", method |-> m, arguments |-> arguments]
OtherRequests == {[form |-> f] : f \in {"notPost", "notSoap", "otherType"}}
NoRequest == [form |-> "none"]

\* An answer: a response, a Fault, or what is neither ("none" is a session that
\* closes its connection, "error" the network).
Response(m, outs) == [kind |-> "response", method |-> m, outs |-> outs]
Fault(code) == [kind |-> "fault", code |-> code]
NoAnswer == [kind |-> "none"]
NetworkError == [kind |-> "error"]

VARIABLES
  lastMethod,    \* BrisaControlPointService::lastMethod
  soapBody,      \* the items in the body of the transport's soapResponse
  newest,        \* ghost: the last call made
  stage,         \* of each request: "new", "sent", "answered" or "done"
  request,
  answer,
  ran,           \* ghost: times the method of the application ran for it
  signalled,     \* ghost: the signals emitted for it, each with the method it
                 \*   names, its values, and whether the call was the newest
  crashed        \* who followed a null pointer: "device", "controlPoint"

cpVars == <<lastMethod, soapBody, newest, signalled>>
controlVars == <<cpVars, stage, request, answer, ran, crashed>>

ControlInit ==
  /\ lastMethod = "" /\ soapBody = <<>> /\ newest = "none"
  /\ stage = [c \in Call |-> "new"]
  /\ request = [c \in Call |-> NoRequest]
  /\ answer = [c \in Call |-> NoAnswer]
  /\ ran = [c \in Call |-> 0]
  /\ signalled = [c \in Call |-> <<>>]
  /\ crashed = {}

-----------------------------------------------------------------------------
(* The control point calls *)

\* call() and submitRequest().
CallAction(c, m, arguments) ==
  /\ "controlPoint" \notin crashed
  /\ c \notin Foreign /\ stage[c] = "new"
  /\ stage' = [stage EXCEPT ![c] = "sent"]
  /\ request' = [request EXCEPT ![c] = ActionCall(m, arguments)]
  /\ lastMethod' = m /\ newest' = c
  /\ soapBody' = <<>>
  /\ UNCHANGED <<answer, ran, signalled, crashed>>

ForeignRequest(c, r) ==
  /\ c \in Foreign /\ stage[c] = "new"
  /\ stage' = [stage EXCEPT ![c] = "sent"]
  /\ request' = [request EXCEPT ![c] = r]
  /\ UNCHANGED <<cpVars, answer, ran, crashed>>

-----------------------------------------------------------------------------
(* The device *)

Answered(c, a, runs) ==
  /\ stage' = [stage EXCEPT ![c] = "answered"]
  /\ answer' = [answer EXCEPT ![c] = a]
  /\ ran' = [ran EXCEPT ![c] = @ + runs]
  /\ UNCHANGED <<cpVars, request>>

Handled(c) == stage[c] = "sent" /\ "device" \notin crashed

\* What is no POST, or for another service type, gets no answer.
NotAnswered(c) ==
  /\ Handled(c)
  /\ request[c].form \in {"notPost", "otherType"}
  /\ Answered(c, NoAnswer, 0)
  /\ crashed' = crashed

\* onInvalidRequest, or no action of that name.
InvalidAction(c) ==
  /\ Handled(c)
  /\ \/ request[c].form = "notSoap"
     \/ request[c].form = "call" /\ request[c].method \notin Action
  /\ Answered(c, Fault(UPNP_INVALID_ACTION), 0)
  /\ crashed' = crashed

KnownAction(c) ==
  Handled(c) /\ request[c].form = "call" /\ request[c].method \in Action

PreActionRefuses(c, code) ==
  /\ KnownAction(c) /\ code # 0
  /\ Answered(c, Fault(code), 0)
  /\ crashed' = crashed

\* Mutant: the arguments are looked at when the method has run.
CallableAnyArguments(c) == request[c].method \in Bound

\* BrisaAction::call gets as far as the method.
Callable(c) ==
  /\ request[c].arguments \subseteq InNames[request[c].method]
  /\ request[c].method \in Bound

\* handleActionFailure, before the method ran or after it.
CallRefused(c, code) ==
  /\ KnownAction(c) /\ ~Callable(c)
  /\ Answered(c, Fault(code), 0)
  /\ crashed' = crashed

CallFails(c, result, code) ==
  /\ KnownAction(c) /\ Callable(c)
  /\ result # NullResult /\ ~ DOMAIN result \subseteq OutNames[request[c].method]
  /\ Answered(c, Fault(code), 1)
  /\ crashed' = crashed

\* A method that returns no map: BrisaAction::call follows the null pointer that
\* BrisaService::call would have replaced ("avoiding segmentation fault").
CallCrashes(c) ==
  /\ KnownAction(c) /\ Callable(c)
  /\ crashed' = crashed \cup {"device"}
  /\ ran' = [ran EXCEPT ![c] = @ + 1]
  /\ UNCHANGED <<cpVars, stage, request, answer>>

\* The method ran: the code of postAction, or respondAction.
Returns(c, result, code) ==
  /\ KnownAction(c) /\ Callable(c)
  /\ result # NullResult /\ DOMAIN result \subseteq OutNames[request[c].method]
  /\ Answered(c, IF code # 0 THEN Fault(code) ELSE Response(request[c].method, result), 1)
  /\ crashed' = crashed

-----------------------------------------------------------------------------
(* The network loses a request, or an answer *)

Lost(c) ==
  /\ stage[c] \in {"sent", "answered"} /\ answer[c] # NetworkError
  /\ stage' = [stage EXCEPT ![c] = "answered"]
  /\ answer' = [answer EXCEPT ![c] = NetworkError]
  /\ UNCHANGED <<cpVars, request, ran, crashed>>

-----------------------------------------------------------------------------
(* The control point reads an answer *)

FaultItem == [kind |-> "fault"]
MethodItem(outs) == [kind |-> "method", outs |-> outs]

HasFault(items) == \E i \in DOMAIN items : items[i].kind = "fault"

\* setFaultCode and setFaultString: a Fault behind what is there.
WithFault(items) == IF HasFault(items) THEN items ELSE Append(items, FaultItem)

\* respondAction does not escape values: one with markup in it makes a document
\* that cannot be parsed.
Readable(outs) == \A n \in DOMAIN outs : outs[n] # "markup"

\* Mutant: what was in the message stays in front of what is parsed.
SoapResponseAppended(a) ==
  CASE a.kind = "response" /\ Readable(a.outs) -> Append(soapBody, MethodItem(a.outs))
    [] a.kind = "fault" -> Append(soapBody, FaultItem)
    [] OTHER -> WithFault(soapBody)

\* readResponse.  What parses replaces the body; what does not, and what is no
\* answer, leaves it and adds a Fault.
SoapResponse(a) ==
  CASE a.kind = "response" /\ Readable(a.outs) -> <<MethodItem(a.outs)>>
    [] a.kind = "fault" -> <<FaultItem>>
    [] OTHER -> WithFault(soapBody)

\* requestFinished: the out arguments of lastMethod, looked up in what came.
OutArguments(item) ==
  [n \in OutNames[lastMethod] |-> IF n \in DOMAIN item.outs THEN item.outs[n] ELSE ""]

Signal(c, name, values) ==
  signalled' = [signalled EXCEPT ![c] =
    Append(@, [name |-> name, method |-> lastMethod, values |-> values, newest |-> c = newest])]

\* getResponse.  getAction(lastMethod) is followed where the name is unknown.
GetResponse(c) ==
  IF HasFault(soapBody')
  THEN Signal(c, "requestError", <<>>) /\ crashed' = crashed
  ELSE IF lastMethod \in Described
       THEN Signal(c, "requestFinished", OutArguments(Head(soapBody'))) /\ crashed' = crashed
       ELSE crashed' = crashed \cup {"controlPoint"} /\ signalled' = signalled

\* Mutant: the name of the method is forgotten once its answer is read.
ReadResponseForgets(c) ==
  /\ "controlPoint" \notin crashed
  /\ c \notin Foreign /\ stage[c] = "answered"
  /\ stage' = [stage EXCEPT ![c] = "done"]
  /\ soapBody' = SoapResponse(answer[c])
  /\ GetResponse(c)
  /\ lastMethod' = ""
  /\ UNCHANGED <<newest, request, answer, ran>>

ReadResponse(c) ==
  /\ "controlPoint" \notin crashed
  /\ c \notin Foreign /\ stage[c] = "answered"
  /\ stage' = [stage EXCEPT ![c] = "done"]
  /\ soapBody' = SoapResponse(answer[c])
  /\ GetResponse(c)
  /\ UNCHANGED <<lastMethod, newest, request, answer, ran>>

-----------------------------------------------------------------------------
DeviceHandles(c) ==
  \/ NotAnswered(c) \/ InvalidAction(c) \/ CallCrashes(c)
  \/ \E code \in HookCodes : PreActionRefuses(c, code)
  \/ \E code \in FailureCodes :
       CallRefused(c, code) \/ \E result \in Results : CallFails(c, result, code)
  \/ \E result \in Results, code \in HookCodes : Returns(c, result, code)

ControlNext ==
  \E c \in Call :
    \/ \E m \in Method, arguments \in ArgumentSets : CallAction(c, m, arguments)
    \/ \E r \in OtherRequests : ForeignRequest(c, r)
    \/ DeviceHandles(c) \/ Lost(c) \/ ReadResponse(c)

ControlSpec == ControlInit /\ [][ControlNext]_controlVars

-----------------------------------------------------------------------------
(* Properties *)

RequestSet ==
  {ActionCall(m, a) : m \in Method, a \in ArgumentSets} \cup OtherRequests \cup {NoRequest}
Kinds == {"response", "fault", "none", "error"}

\* The variables have their types.
ControlTypeOK ==
  /\ lastMethod \in Method \cup {""}
  /\ newest \in (Call \ Foreign) \cup {"none"}
  /\ soapBody \in Seq({FaultItem} \cup {MethodItem(outs) : outs \in Results \ {NullResult}})
  /\ stage \in [Call -> {"new", "sent", "answered", "done"}]
  /\ request \in [Call -> RequestSet]
  /\ \A c \in Call : answer[c].kind \in Kinds
  /\ ran \in [Call -> {0, 1}]
  /\ \A c \in Call : Len(signalled[c]) <= 1
  /\ crashed \subseteq {"device", "controlPoint"}

\* The answer to the newest call is reported under its own name, once: as an
\* error unless it is a response, and then with exactly what the device returned.
\* What calls that were overtaken left in the message is not mixed in.
NewestCallReported ==
  \A c \in Call : \A i \in DOMAIN signalled[c] :
    LET s == signalled[c][i]
    IN s.newest =>
         /\ i = 1 /\ s.method = request[c].method
         /\ (s.name = "requestFinished") <=> answer[c].kind = "response" /\ Readable(answer[c].outs)
         /\ s.name = "requestFinished" => \A n \in DOMAIN answer[c].outs : s.values[n] = answer[c].outs[n]

\* A response means that the method ran, exactly once, with arguments that are
\* declared; no method runs for a request that is not a call of it.
RunsAsAsked ==
  \A c \in Call :
    /\ answer[c].kind = "response" => ran[c] = 1
    /\ ran[c] = 1 => /\ request[c].form = "call" /\ request[c].method \in Bound
                     /\ request[c].arguments \subseteq InNames[request[c].method]
    /\ answer[c] = Fault(UPNP_INVALID_ACTION) => ran[c] = 0

\* Every call ends in a signal: a device that is gone, an answer that is lost and
\* a request the device does not answer are errors too.  Only a response to an
\* action the control point knows nothing of brings it down.  (A call is made once
\* and a signal is not taken back, so that the last of them settles it for all.)
CallsReported ==
  <>[](\A c \in Call \ Foreign : stage[c] # "new" =>
         \/ signalled[c] # <<>>
         \/ "controlPoint" \in crashed
            /\ \E d \in Call \ Foreign : request[d].form = "call" /\ request[d].method \notin Described)
=============================================================================
