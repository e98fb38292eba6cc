-------------------------- MODULE Control_proofs --------------------------
(***************************************************************************)
(* Proofs about calls to a service: what methods run for, and what the     *)
(* control point reports, for every number of calls, all of them under way *)
(* at once, and every service description; and which actions and variables *)
(* a service has of the descriptions it read.  Behind them, the arrays of  *)
(* SOAP, where items are put and what is told of their coordinates, and    *)
(* its messages, which arrive as they were built.                          *)
(***************************************************************************)
EXTENDS Control, ServiceDocument, SoapArray, SoapMessage, Induction_proofs, SequenceTheorems, FiniteSetTheorems

-----------------------------------------------------------------------------
(* The inductive invariant *)

\* What the device, or the network, makes of a call.
AnswerSet ==
  {Response(m, outs) : m \in Method, outs \in Results \ {NullResult}}
    \cup {Fault(code) : code \in {UPNP_INVALID_ACTION} \cup HookCodes \cup FailureCodes}
    \cup {NoAnswer, NetworkError}

BodyItems == {FaultItem} \cup {MethodItem(outs) : outs \in Results \ {NullResult}}

Basics ==
  /\ lastMethod \in Method \cup {""}
  /\ newest \in (Call \ Foreign) \cup {"none"}
  /\ soapBody \in Seq(BodyItems)
  /\ stage \in [Call -> {"new", "sent", "answered", "done"}]
  /\ request \in [Call -> RequestSet]
  /\ answer \in [Call -> AnswerSet]
  /\ ran \in [Call -> {0, 1}]
  /\ DOMAIN signalled = Call
  /\ crashed \subseteq {"device", "controlPoint"}

\* No method ran for a request that has not arrived, nor for one the device may
\* still handle, and neither has an answer.
NotYetRun ==
  \A c \in Call :
    /\ stage[c] \in {"new", "sent"} => answer[c] = NoAnswer
    /\ stage[c] = "new" \/ (stage[c] = "sent" /\ "device" \notin crashed) => ran[c] = 0

\* lastMethod is the method of the newest call.
NewestNamed ==
  \A c \in Call \ Foreign :
    c = newest /\ stage[c] # "new" => request[c].form = "call" /\ request[c].method = lastMethod

\* A response holds arguments of the action only.
OutsDeclared ==
  \A c \in Call :
    answer[c].kind = "response" =>
      request[c].method \in Action /\ DOMAIN answer[c].outs \subseteq OutNames[request[c].method]

\* One signal at most, and with the answer.
SignalledOnce ==
  \A c \in Call :
    signalled[c] # <<>> => stage[c] = "done" /\ signalled[c] = <<signalled[c][1]>>

\* The parts of RunsAsAsked that are inductive.
RunsDeclared ==
  \A c \in Call :
    /\ answer[c].kind = "response" => ran[c] = 1
    /\ ran[c] = 1 => /\ request[c].form = "call" /\ request[c].method \in Bound
                     /\ request[c].arguments \subseteq InNames[request[c].method]

CInv ==
  /\ Basics /\ NotYetRun /\ NewestNamed /\ OutsDeclared /\ SignalledOnce
  /\ RunsDeclared /\ NewestCallReported

-----------------------------------------------------------------------------
(* Facts about answers and signals *)

\* The kinds of answers are told apart.
LEMMA AnswerKinds ==
  /\ \A m, outs : Response(m, outs).kind = "response" /\ Response(m, outs).outs = outs
  /\ \A code : Fault(code).kind = "fault"
  /\ NoAnswer.kind = "none" /\ NetworkError.kind = "error"
BY DEF Response, Fault, NoAnswer, NetworkError

\* What a response holds.
LEMMA ResponseOuts ==
  ASSUME NEW a \in AnswerSet, a.kind = "response"
  PROVE  a.outs \in Results \ {NullResult}
BY AnswerKinds DEF AnswerSet

\* A sequence of one.
LEMMA OneSignal ==
  ASSUME NEW x
  PROVE  <<x>> = <<(<<x>>)[1]>> /\ DOMAIN <<x>> = {1} /\ (<<x>>)[1] = x
OBVIOUS

-----------------------------------------------------------------------------
(* The steps *)

LEMMA InitControl == ControlInit => CInv
<1> SUFFICES ASSUME ControlInit PROVE CInv
  OBVIOUS
<1>1. Basics
  <2>1. NoAnswer \in AnswerSet /\ NoRequest \in RequestSet
    BY DEF AnswerSet, RequestSet
  <2>2. soapBody \in Seq(BodyItems)
    <3>1. soapBody = <<>>
      BY DEF ControlInit
    <3> QED
      BY <3>1
  <2>3. stage \in [Call -> {"new", "sent", "answered", "done"}] /\ ran \in [Call -> {0, 1}]
    BY DEF ControlInit
  <2>4. request \in [Call -> RequestSet] /\ answer \in [Call -> AnswerSet]
    BY <2>1 DEF ControlInit
  <2>5. DOMAIN signalled = Call
    BY DEF ControlInit
  <2> QED
    BY <2>2, <2>3, <2>4, <2>5 DEF ControlInit, Basics
<1>2. \A c \in Call : stage[c] = "new" /\ ran[c] = 0 /\ answer[c] = NoAnswer /\ signalled[c] = <<>>
  BY DEF ControlInit
<1> QED
  BY <1>1, <1>2, AnswerKinds
     DEF CInv, NotYetRun, NewestNamed, OutsDeclared, SignalledOnce, RunsDeclared, NewestCallReported

\* A call becomes the newest, and its method is the one that is remembered.
LEMMA CallActionInv ==
  ASSUME CInv, NEW c \in Call, NEW m \in Method, NEW args \in ArgumentSets, CallAction(c, m, args)
  PROVE  CInv'
<1> USE DEF CInv
<1>1. /\ c \in Call \ Foreign /\ stage[c] = "new" /\ ran[c] = 0
      /\ stage' = [stage EXCEPT ![c] = "sent"]
      /\ request' = [request EXCEPT ![c] = ActionCall(m, args)]
      /\ lastMethod' = m /\ newest' = c /\ soapBody' = <<>>
      /\ answer' = answer /\ ran' = ran /\ signalled' = signalled /\ crashed' = crashed
  BY DEF CallAction, NotYetRun
<1>2. Basics'
  <2>1. ActionCall(m, args) \in RequestSet
    BY DEF RequestSet
  <2>2. soapBody' \in Seq(BodyItems)
    BY <1>1
  <2>3. stage' \in [Call -> {"new", "sent", "answered", "done"}] /\ request' \in [Call -> RequestSet]
    BY <1>1, <2>1 DEF Basics
  <2> QED
    BY <1>1, <2>2, <2>3 DEF Basics
<1>3. signalled[c] = <<>> /\ answer[c].kind # "response"
  BY <1>1 DEF SignalledOnce, RunsDeclared
<1>4. ActionCall(m, args).form = "call" /\ ActionCall(m, args).method = m
  BY DEF ActionCall
<1>5. \A d \in Call \ {c} : stage'[d] = stage[d] /\ request'[d] = request[d]
  BY <1>1 DEF Basics
<1>6. stage'[c] = "sent" /\ request'[c] = ActionCall(m, args)
  BY <1>1 DEF Basics
<1>7. NotYetRun'
  BY <1>1, <1>5, <1>6 DEF NotYetRun
<1>8. NewestNamed'
  BY <1>1, <1>4, <1>6 DEF NewestNamed
<1>9. OutsDeclared'
  BY <1>1, <1>3, <1>5 DEF OutsDeclared
<1>10. SignalledOnce'
  BY <1>1, <1>3, <1>5 DEF SignalledOnce
<1>11. RunsDeclared'
  BY <1>1, <1>3, <1>5 DEF RunsDeclared
<1>12. NewestCallReported'
  BY <1>1, <1>3, <1>5 DEF NewestCallReported
<1> QED
  BY <1>2, <1>7, <1>8, <1>9, <1>10, <1>11, <1>12

\* The control point does not hear of requests of others.
LEMMA ForeignRequestInv ==
  ASSUME CInv, NEW c \in Call, NEW r \in OtherRequests, ForeignRequest(c, r)
  PROVE  CInv'
<1> USE DEF CInv
<1>1. /\ c \in Foreign /\ stage[c] = "new" /\ ran[c] = 0
      /\ stage' = [stage EXCEPT ![c] = "sent"]
      /\ request' = [request EXCEPT ![c] = r]
      /\ lastMethod' = lastMethod /\ newest' = newest /\ soapBody' = soapBody
      /\ answer' = answer /\ ran' = ran /\ signalled' = signalled /\ crashed' = crashed
  BY DEF ForeignRequest, NotYetRun, cpVars
<1>2. Basics'
  <2>1. r \in RequestSet
    BY DEF RequestSet
  <2> QED
    BY <1>1, <2>1 DEF Basics
<1>3. signalled[c] = <<>> /\ answer[c].kind # "response"
  BY <1>1 DEF SignalledOnce, RunsDeclared
<1>4. \A d \in Call \ {c} : stage'[d] = stage[d] /\ request'[d] = request[d]
  BY <1>1 DEF Basics
<1>5. stage'[c] = "sent"
  BY <1>1 DEF Basics
<1>6. NotYetRun'
  BY <1>1, <1>4, <1>5 DEF NotYetRun
<1>7. NewestNamed'
  BY <1>1, <1>4 DEF NewestNamed
<1>8. OutsDeclared'
  BY <1>1, <1>3, <1>4 DEF OutsDeclared
<1>9. SignalledOnce'
  BY <1>1, <1>3, <1>4 DEF SignalledOnce
<1>10. RunsDeclared'
  BY <1>1, <1>3, <1>4 DEF RunsDeclared
<1>11. NewestCallReported'
  BY <1>1, <1>3, <1>4 DEF NewestCallReported
<1> QED
  BY <1>2, <1>6, <1>7, <1>8, <1>9, <1>10, <1>11

\* What a request is that a method may run for.
Runnable(c) ==
  /\ request[c].form = "call" /\ request[c].method \in Bound
  /\ request[c].arguments \subseteq InNames[request[c].method]

\* The device answers, or the network does in its place: whatever way a request was
\* handled, these are the things that have to be true of it.
LEMMA AnswerInv ==
  ASSUME CInv, NEW c \in Call, NEW a \in AnswerSet, NEW runs \in {0, 1},
         stage[c] \in {"sent", "answered"}, ran[c] + runs \in {0, 1},
         a.kind = "response" =>
           /\ runs = 1 /\ request[c].method \in Action
           /\ DOMAIN a.outs \subseteq OutNames[request[c].method],
         runs = 1 => Runnable(c),
         Answered(c, a, runs), crashed' = crashed
  PROVE  CInv'
<1> USE DEF CInv
<1>1. /\ stage' = [stage EXCEPT ![c] = "answered"]
      /\ answer' = [answer EXCEPT ![c] = a]
      /\ ran' = [ran EXCEPT ![c] = ran[c] + runs]
      /\ lastMethod' = lastMethod /\ newest' = newest /\ soapBody' = soapBody
      /\ request' = request /\ signalled' = signalled /\ crashed' = crashed
  BY DEF Answered, cpVars
<1>2. Basics'
  BY <1>1 DEF Basics
<1>3. signalled[c] = <<>>
  BY DEF SignalledOnce
<1>4. \A d \in Call \ {c} : stage'[d] = stage[d] /\ answer'[d] = answer[d] /\ ran'[d] = ran[d]
  BY <1>1 DEF Basics
<1>5. stage'[c] = "answered" /\ answer'[c] = a /\ ran'[c] = ran[c] + runs
  BY <1>1 DEF Basics
<1>6. NotYetRun'
  BY <1>1, <1>4, <1>5 DEF NotYetRun
<1>7. NewestNamed'
  BY <1>1, <1>4 DEF NewestNamed
<1>8. OutsDeclared'
  BY <1>1, <1>4, <1>5 DEF OutsDeclared
<1>9. SignalledOnce'
  BY <1>1, <1>3, <1>4 DEF SignalledOnce
<1>10. RunsDeclared'
  <2>1. ran[c] \in {0, 1}
    BY DEF Basics
  <2> QED
    BY <1>1, <1>4, <1>5, <2>1 DEF RunsDeclared, Runnable
<1>11. NewestCallReported'
  BY <1>1, <1>3, <1>4 DEF NewestCallReported
<1> QED
  BY <1>2, <1>6, <1>7, <1>8, <1>9, <1>10, <1>11

\* The device answers with what the method returned, or with a Fault.
LEMMA DeviceHandlesInv ==
  ASSUME CInv, NEW c \in Call, DeviceHandles(c)
  PROVE  CInv'
<1>1. stage[c] = "sent" /\ "device" \notin crashed /\ ran[c] = 0
  BY DEF CInv, NotYetRun, DeviceHandles, NotAnswered, InvalidAction, CallCrashes, PreActionRefuses,
         CallRefused, CallFails, Returns, KnownAction, Handled
<1>2. \A code \in {UPNP_INVALID_ACTION} \cup HookCodes \cup FailureCodes :
        Fault(code) \in AnswerSet /\ Fault(code).kind = "fault"
  BY AnswerKinds DEF AnswerSet
<1>3. NoAnswer \in AnswerSet /\ NoAnswer.kind = "none"
  BY AnswerKinds DEF AnswerSet
<1>4. KnownAction(c) /\ Callable(c) => Runnable(c)
  BY DEF KnownAction, Callable, Runnable
<1>5. CASE NotAnswered(c)
  BY <1>1, <1>3, <1>5, AnswerInv DEF NotAnswered
<1>6. CASE InvalidAction(c)
  BY <1>1, <1>2, <1>6, AnswerInv DEF InvalidAction
<1>7. CASE CallCrashes(c)
  <2>1. Runnable(c)
    BY <1>4, <1>7 DEF CallCrashes
  <2>2. /\ crashed' = crashed \cup {"device"} /\ ran' = [ran EXCEPT ![c] = 1]
        /\ lastMethod' = lastMethod /\ newest' = newest /\ soapBody' = soapBody
        /\ signalled' = signalled /\ stage' = stage /\ request' = request /\ answer' = answer
    BY <1>1, <1>7 DEF CallCrashes, cpVars
  <2>3. \A d \in Call \ {c} : ran'[d] = ran[d]
    BY <2>2 DEF CInv, Basics
  <2>4. Basics' /\ ran'[c] = 1
    BY <2>2 DEF CInv, Basics
  <2>5. NotYetRun'
    BY <1>1, <2>2, <2>3 DEF CInv, NotYetRun
  <2>6. NewestNamed' /\ OutsDeclared' /\ SignalledOnce'
    BY <2>2 DEF CInv, NewestNamed, OutsDeclared, SignalledOnce
  <2>7. RunsDeclared'
    BY <2>1, <2>2, <2>3, <2>4 DEF CInv, RunsDeclared, Runnable
  <2>8. NewestCallReported'
    BY <2>2 DEF CInv, NewestCallReported
  <2> QED
    BY <2>4, <2>5, <2>6, <2>7, <2>8 DEF CInv
<1>8. ASSUME NEW code \in HookCodes, PreActionRefuses(c, code)
      PROVE  CInv'
  BY <1>1, <1>2, <1>8, AnswerInv DEF PreActionRefuses
<1>9. ASSUME NEW code \in FailureCodes, CallRefused(c, code)
      PROVE  CInv'
  BY <1>1, <1>2, <1>9, AnswerInv DEF CallRefused
<1>10. ASSUME NEW code \in FailureCodes, NEW result \in Results, CallFails(c, result, code)
       PROVE  CInv'
  BY <1>1, <1>2, <1>4, <1>10, AnswerInv DEF CallFails
<1>11. ASSUME NEW result \in Results, NEW code \in HookCodes, Returns(c, result, code)
       PROVE  CInv'
  <2> DEFINE a == IF code # 0 THEN Fault(code) ELSE Response(request[c].method, result)
  <2>1. /\ Answered(c, a, 1) /\ crashed' = crashed /\ Runnable(c)
        /\ request[c].method \in Action /\ result \in Results \ {NullResult}
        /\ DOMAIN result \subseteq OutNames[request[c].method]
    BY <1>4, <1>11 DEF Returns, KnownAction
  <2>2. Response(request[c].method, result) \in AnswerSet
    BY <2>1, ControlAssumption DEF AnswerSet
  <2>3. /\ a \in AnswerSet
        /\ a.kind = "response" => DOMAIN a.outs \subseteq OutNames[request[c].method]
    BY <1>2, <2>1, <2>2, AnswerKinds
  <2> HIDE DEF a
  <2> QED
    BY <1>1, <2>1, <2>3, AnswerInv
<1> QED
  BY <1>5, <1>6, <1>7, <1>8, <1>9, <1>10, <1>11 DEF DeviceHandles

\* The network's answer is one that says nothing of the method.
LEMMA LostInv ==
  ASSUME CInv, NEW c \in Call, Lost(c)
  PROVE  CInv'
<1>1. ran[c] \in {0, 1} /\ ran \in [Call -> {0, 1}]
  BY DEF CInv, Basics
<1>2. Answered(c, NetworkError, 0)
  BY <1>1 DEF Lost, Answered
<1>3. NetworkError \in AnswerSet /\ NetworkError.kind = "error"
  BY AnswerKinds DEF AnswerSet
<1> QED
  BY <1>1, <1>2, <1>3, AnswerInv DEF Lost

-----------------------------------------------------------------------------
(* The answer is read *)

\* The message is then an error exactly when the answer is no response that can be
\* read, and starts with the response when it is one.
LEMMA SoapResponseRead ==
  ASSUME soapBody \in Seq(BodyItems), NEW a \in AnswerSet
  PROVE  /\ SoapResponse(a) \in Seq(BodyItems)
         /\ HasFault(SoapResponse(a)) <=> ~(a.kind = "response" /\ Readable(a.outs))
         /\ a.kind = "response" /\ Readable(a.outs) => Head(SoapResponse(a)) = MethodItem(a.outs)
<1>0. FaultItem \in BodyItems /\ FaultItem.kind = "fault"
  BY DEF BodyItems, FaultItem
<1>1. CASE a.kind = "response" /\ Readable(a.outs)
  <2>1. SoapResponse(a) = <<MethodItem(a.outs)>>
    BY <1>1 DEF SoapResponse
  <2>2. MethodItem(a.outs) \in BodyItems /\ MethodItem(a.outs).kind = "method"
    BY <1>1, ResponseOuts DEF BodyItems, MethodItem
  <2> HIDE DEF MethodItem
  <2> QED
    BY <1>1, <2>1, <2>2 DEF HasFault
<1>2. CASE a.kind = "fault"
  <2>1. SoapResponse(a) = <<FaultItem>>
    BY <1>2 DEF SoapResponse
  <2> QED
    BY <1>0, <1>2, <2>1 DEF HasFault
<1>3. CASE ~(a.kind = "response" /\ Readable(a.outs)) /\ a.kind # "fault"
  <2>1. SoapResponse(a) = WithFault(soapBody)
    BY <1>3 DEF SoapResponse
  <2>2. WithFault(soapBody) \in Seq(BodyItems)
    BY <1>0 DEF WithFault
  <2>3. HasFault(WithFault(soapBody))
    <3>1. CASE HasFault(soapBody)
      BY <3>1 DEF WithFault
    <3>2. CASE ~HasFault(soapBody)
      <4>1. Append(soapBody, FaultItem)[Len(soapBody) + 1] = FaultItem
        BY <1>0
      <4>2. Len(soapBody) + 1 \in DOMAIN Append(soapBody, FaultItem)
        BY <1>0
      <4> QED
        BY <1>0, <3>2, <4>1, <4>2 DEF WithFault, HasFault
    <3> QED
      BY <3>1, <3>2
  <2> QED
    BY <1>3, <2>1, <2>2, <2>3
<1> QED
  BY <1>1, <1>2, <1>3

\* One signal, for this call only, or none.
LEMMA SignalRead ==
  ASSUME CInv, NEW c \in Call, ReadResponse(c)
  PROVE  /\ signalled[c] = <<>> /\ DOMAIN signalled' = Call
         /\ \A d \in Call \ {c} : signalled'[d] = signalled[d]
         /\ \/ signalled'[c] = <<>>
            \/ /\ ~(answer[c].kind = "response" /\ Readable(answer[c].outs))
               /\ signalled'[c] = <<[name |-> "requestError", method |-> lastMethod,
                                     values |-> <<>>, newest |-> c = newest]>>
            \/ /\ answer[c].kind = "response" /\ Readable(answer[c].outs)
               /\ signalled'[c] = <<[name |-> "requestFinished", method |-> lastMethod,
                                     values |-> OutArguments(MethodItem(answer[c].outs)),
                                     newest |-> c = newest]>>
<1>1. signalled[c] = <<>> /\ DOMAIN signalled = Call
  BY DEF CInv, Basics, SignalledOnce, ReadResponse
<1>2. /\ HasFault(soapBody') <=> ~(answer[c].kind = "response" /\ Readable(answer[c].outs))
      /\ answer[c].kind = "response" /\ Readable(answer[c].outs) =>
           Head(soapBody') = MethodItem(answer[c].outs)
  BY SoapResponseRead DEF CInv, Basics, ReadResponse
<1>3. \A name, values : Signal(c, name, values) =>
        /\ DOMAIN signalled' = Call
        /\ \A d \in Call \ {c} : signalled'[d] = signalled[d]
        /\ signalled'[c] = <<[name |-> name, method |-> lastMethod,
                              values |-> values, newest |-> c = newest]>>
  BY <1>1 DEF Signal
<1>4. GetResponse(c)
  BY DEF ReadResponse
<1>5. CASE HasFault(soapBody')
  BY <1>1, <1>2, <1>3, <1>4, <1>5 DEF GetResponse
<1>6. CASE ~HasFault(soapBody') /\ lastMethod \in Described
  <2>1. Signal(c, "requestFinished", OutArguments(Head(soapBody'))) /\ crashed' = crashed
    BY <1>4, <1>6 DEF GetResponse
  <2>2. Head(soapBody') = MethodItem(answer[c].outs)
    BY <1>2, <1>6
  <2>3. Signal(c, "requestFinished", OutArguments(MethodItem(answer[c].outs)))
    BY <2>1, <2>2
  <2> QED
    BY <1>1, <1>2, <1>3, <1>6, <2>1, <2>3
<1>7. CASE ~HasFault(soapBody') /\ lastMethod \notin Described
  BY <1>1, <1>4, <1>7 DEF GetResponse
<1> QED
  BY <1>5, <1>6, <1>7

\* Only the control point can fail in reading an answer.
LEMMA CrashRead ==
  ASSUME NEW c \in Call, ReadResponse(c)
  PROVE  crashed' \in {crashed, crashed \cup {"controlPoint"}}
BY DEF ReadResponse, GetResponse

\* The signal of the newest call tells what its answer was.
LEMMA ReadReported ==
  ASSUME CInv, NEW c \in Call, ReadResponse(c)
  PROVE  NewestCallReported'
<1>1. /\ answer' = answer /\ request' = request
      /\ c \notin Foreign /\ stage[c] = "answered"
  BY DEF ReadResponse
<1> SUFFICES ASSUME NEW d \in Call, NEW i \in DOMAIN signalled'[d], signalled'[d][i].newest
             PROVE  LET s == signalled'[d][i]
                    IN /\ i = 1 /\ s.method = request[d].method
                       /\ (s.name = "requestFinished")
                            <=> answer[d].kind = "response" /\ Readable(answer[d].outs)
                       /\ s.name = "requestFinished" =>
                            \A n \in DOMAIN answer[d].outs : s.values[n] = answer[d].outs[n]
  BY <1>1 DEF NewestCallReported
<1>2. CASE d # c
  <2>1. signalled'[d] = signalled[d]
    BY <1>2, SignalRead
  <2> QED
    BY <2>1 DEF CInv, NewestCallReported
<1>3. CASE d = c
  <2> DEFINE failed == [name |-> "requestError", method |-> lastMethod,
                        values |-> <<>>, newest |-> c = newest]
             finished == [name |-> "requestFinished", method |-> lastMethod,
                          values |-> OutArguments(MethodItem(answer[c].outs)),
                          newest |-> c = newest]
  <2>1. CASE ~(answer[c].kind = "response" /\ Readable(answer[c].outs)) /\ signalled'[c] = <<failed>>
    <3>1. i = 1 /\ signalled'[d][i] = failed
      BY <1>3, <2>1
    <3>2. c = newest
      <4>1. failed.newest = (c = newest)
        OBVIOUS
      <4> HIDE DEF failed
      <4> QED
        BY <3>1, <4>1, Zenon
    <3>3. request[c].method = lastMethod
      BY <1>1, <3>2 DEF CInv, NewestNamed
    <3> QED
      BY <1>3, <2>1, <3>1, <3>3
  <2>2. CASE answer[c].kind = "response" /\ Readable(answer[c].outs) /\ signalled'[c] = <<finished>>
    <3>1. i = 1 /\ signalled'[d][i] = finished
      BY <1>3, <2>2
    <3>2. c = newest
      <4>1. finished.newest = (c = newest)
        OBVIOUS
      <4> HIDE DEF finished
      <4> QED
        BY <3>1, <4>1, Zenon
    <3>3. request[c].method = lastMethod
      BY <1>1, <3>2 DEF CInv, NewestNamed
    <3>4. \A n \in DOMAIN answer[c].outs : finished.values[n] = answer[c].outs[n]
      <4>1. DOMAIN answer[c].outs \subseteq OutNames[lastMethod]
        BY <2>2, <3>3 DEF CInv, OutsDeclared
      <4> QED
        BY <4>1 DEF OutArguments, MethodItem
    <3> QED
      BY <1>3, <2>2, <3>1, <3>3, <3>4
  <2>3. signalled'[c] # <<>>
    BY <1>3
  <2> QED
    BY <2>1, <2>2, <2>3, SignalRead
<1> QED
  BY <1>2, <1>3

LEMMA ReadResponseInv ==
  ASSUME CInv, NEW c \in Call, ReadResponse(c)
  PROVE  CInv'
<1>1. /\ stage[c] = "answered" /\ stage' = [stage EXCEPT ![c] = "done"]
      /\ soapBody' = SoapResponse(answer[c])
      /\ lastMethod' = lastMethod /\ newest' = newest
      /\ request' = request /\ answer' = answer /\ ran' = ran
  BY DEF ReadResponse
<1>2. Basics'
  <2>1. soapBody' \in Seq(BodyItems)
    BY <1>1, SoapResponseRead DEF CInv, Basics
  <2>2. DOMAIN signalled' = Call
    BY SignalRead
  <2>3. crashed' \subseteq {"device", "controlPoint"}
    BY CrashRead DEF CInv, Basics
  <2> QED
    BY <1>1, <2>1, <2>2, <2>3 DEF CInv, Basics
<1>3. \A d \in Call \ {c} : stage'[d] = stage[d]
  BY <1>1 DEF CInv, Basics
<1>4. stage'[c] = "done"
  BY <1>1 DEF CInv, Basics
<1>5. "device" \in crashed <=> "device" \in crashed'
  BY CrashRead
<1>6. NotYetRun'
  BY <1>1, <1>3, <1>4, <1>5 DEF CInv, NotYetRun
<1>7. NewestNamed'
  BY <1>1, <1>3, <1>4 DEF CInv, NewestNamed
<1>8. OutsDeclared' /\ RunsDeclared'
  BY <1>1 DEF CInv, OutsDeclared, RunsDeclared
<1>9. SignalledOnce'
  <2>1. signalled'[c] = <<>> \/ \E x : signalled'[c] = <<x>>
    BY SignalRead
  <2>2. signalled'[c] # <<>> => signalled'[c] = <<signalled'[c][1]>>
    BY <2>1, OneSignal
  <2>3. \A d \in Call \ {c} : signalled'[d] = signalled[d]
    BY SignalRead
  <2> QED
    BY <1>3, <1>4, <2>2, <2>3 DEF CInv, SignalledOnce
<1> QED
  BY <1>2, <1>6, <1>7, <1>8, <1>9, ReadReported DEF CInv

-----------------------------------------------------------------------------
(* The theorems *)

LEMMA ControlStep == CInv /\ [ControlNext]_controlVars => CInv'
<1> SUFFICES ASSUME CInv, [ControlNext]_controlVars PROVE CInv'
  OBVIOUS
<1>1. CASE ControlNext
  <2>1. PICK c \in Call :
          \/ \E m \in Method, arguments \in ArgumentSets : CallAction(c, m, arguments)
          \/ \E r \in OtherRequests : ForeignRequest(c, r)
          \/ DeviceHandles(c) \/ Lost(c) \/ ReadResponse(c)
    BY <1>1 DEF ControlNext
  <2>2. CASE \E m \in Method, arguments \in ArgumentSets : CallAction(c, m, arguments)
    BY <2>2, CallActionInv
  <2>3. CASE \E r \in OtherRequests : ForeignRequest(c, r)
    BY <2>3, ForeignRequestInv
  <2>4. CASE DeviceHandles(c)
    BY <2>4, DeviceHandlesInv
  <2>5. CASE Lost(c) \/ ReadResponse(c)
    BY <2>5, LostInv, ReadResponseInv
  <2> QED
    BY <2>1, <2>2, <2>3, <2>4, <2>5
<1>2. CASE UNCHANGED controlVars
  <2>1. /\ lastMethod' = lastMethod /\ soapBody' = soapBody /\ newest' = newest
        /\ signalled' = signalled /\ stage' = stage /\ request' = request
        /\ answer' = answer /\ ran' = ran /\ crashed' = crashed
    BY <1>2 DEF controlVars, cpVars
  <2>2. Basics' /\ NotYetRun' /\ NewestNamed'
    BY <2>1 DEF CInv, Basics, NotYetRun, NewestNamed
  <2>3. OutsDeclared' /\ SignalledOnce' /\ RunsDeclared'
    BY <2>1 DEF CInv, OutsDeclared, SignalledOnce, RunsDeclared
  <2>4. NewestCallReported'
    BY <2>1 DEF CInv, NewestCallReported
  <2> QED
    BY <2>2, <2>3, <2>4 DEF CInv
<1> QED
  BY <1>1, <1>2

LEMMA ControlInvariant == ControlSpec => []CInv
BY InitControl, ControlStep, PTL DEF ControlSpec

\* However many calls are under way and whatever order their answers come in: the
\* newest is reported at most once, under its own name, and with what the device returned.
THEOREM NewestReported == ControlSpec => []NewestCallReported
<1>1. CInv => NewestCallReported
  BY DEF CInv
<1> QED
  BY <1>1, ControlInvariant, PTL

\* A method runs only for a call of it with declared arguments; a response means that
\* it ran, and invalid action that it did not, unless the application's hooks or its
\* handler of failures return that code themselves.
THEOREM RunsProperly ==
  ASSUME UPNP_INVALID_ACTION \notin HookCodes \cup FailureCodes
  PROVE  ControlSpec => []RunsAsAsked
<1> DEFINE InvalidRanNothing == \A c \in Call : answer[c] = Fault(UPNP_INVALID_ACTION) => ran[c] = 0
<1>1. ControlInit => InvalidRanNothing
  BY DEF ControlInit
<1>2. ASSUME CInv, InvalidRanNothing, [ControlNext]_controlVars
      PROVE  InvalidRanNothing'
  <2>1. CASE answer' = answer /\ ran' = ran
    BY <1>2, <2>1
  <2>2. ASSUME NEW c \in Call, InvalidAction(c)
        PROVE  InvalidRanNothing'
    <3>1. ran' = [ran EXCEPT ![c] = ran[c] + 0] /\ ran[c] = 0 /\ ran \in [Call -> {0, 1}]
      BY <1>2, <2>2 DEF InvalidAction, Answered, Handled, CInv, NotYetRun, Basics
    <3>2. \A d \in Call \ {c} : answer'[d] = answer[d] /\ ran'[d] = ran[d]
      BY <1>2, <2>2, <3>1 DEF InvalidAction, Answered, CInv, Basics
    <3>3. ran'[c] = 0
      BY <3>1
    <3> QED
      BY <1>2, <3>2, <3>3
  <2>3. ASSUME NEW c \in Call, NEW a, NEW runs, Answered(c, a, runs), a # Fault(UPNP_INVALID_ACTION)
        PROVE  InvalidRanNothing'
    <3>1. \A d \in Call \ {c} : answer'[d] = answer[d] /\ ran'[d] = ran[d]
      BY <1>2, <2>3 DEF Answered, CInv, Basics
    <3>2. answer'[c] = a
      BY <1>2, <2>3 DEF Answered, CInv, Basics
    <3> QED
      BY <1>2, <2>3, <3>1, <3>2
  <2>4. ASSUME NEW c \in Call, CallCrashes(c)
        PROVE  InvalidRanNothing'
    <3>1. /\ answer' = answer /\ answer[c] = NoAnswer
          /\ \A d \in Call \ {c} : ran'[d] = ran[d]
      BY <1>2, <2>4 DEF CallCrashes, KnownAction, Handled, CInv, Basics, NotYetRun
    <3>2. NoAnswer # Fault(UPNP_INVALID_ACTION)
      BY AnswerKinds
    <3> QED
      BY <1>2, <3>1, <3>2
  <2>5. ASSUME NEW c \in Call, DeviceHandles(c)
        PROVE  InvalidRanNothing'
    <3>1. NoAnswer # Fault(UPNP_INVALID_ACTION)
      BY AnswerKinds
    <3>2. \A m, outs : Response(m, outs) # Fault(UPNP_INVALID_ACTION)
      BY AnswerKinds
    <3>3. \A code \in HookCodes \cup FailureCodes : Fault(code) # Fault(UPNP_INVALID_ACTION)
      BY DEF Fault
    <3>4. CASE InvalidAction(c) \/ CallCrashes(c)
      BY <2>2, <2>4, <3>4
    <3>5. CASE NotAnswered(c)
      BY <2>3, <3>1, <3>5 DEF NotAnswered
    <3>6. CASE \E code \in HookCodes : PreActionRefuses(c, code)
      BY <2>3, <3>3, <3>6 DEF PreActionRefuses
    <3>7. CASE \E code \in FailureCodes :
                 CallRefused(c, code) \/ \E result \in Results : CallFails(c, result, code)
      BY <2>3, <3>3, <3>7 DEF CallRefused, CallFails
    <3>8. CASE \E result \in Results, code \in HookCodes : Returns(c, result, code)
      BY <2>3, <3>2, <3>3, <3>8 DEF Returns
    <3> QED
      BY <2>5, <3>4, <3>5, <3>6, <3>7, <3>8 DEF DeviceHandles
  <2>6. ASSUME NEW c \in Call, Lost(c)
        PROVE  InvalidRanNothing'
    <3>1. answer' = [answer EXCEPT ![c] = NetworkError] /\ ran' = ran
      BY <2>6 DEF Lost
    <3>2. NetworkError # Fault(UPNP_INVALID_ACTION)
      BY AnswerKinds
    <3> QED
      BY <1>2, <3>1, <3>2 DEF CInv, Basics
  <2>7. CASE \E c \in Call :
               \/ \E m \in Method, arguments \in ArgumentSets : CallAction(c, m, arguments)
               \/ \E r \in OtherRequests : ForeignRequest(c, r)
               \/ ReadResponse(c)
    BY <2>1, <2>7 DEF CallAction, ForeignRequest, ReadResponse
  <2> QED
    BY <1>2, <2>1, <2>5, <2>6, <2>7 DEF ControlNext, controlVars
<1>3. CInv /\ InvalidRanNothing => RunsAsAsked
  BY DEF CInv, RunsDeclared, RunsAsAsked
<1> QED
  BY <1>1, <1>2, <1>3, ControlInvariant, PTL DEF ControlSpec

-----------------------------------------------------------------------------
(* ServiceDocument *)

\* What is in the documents, and what an action of a service is made of.
InSections(tag) ==
  UNION {UNION {ToSet(x.contents) : x \in {y \in ToSet(d.sections) : y.tag = tag}} : d \in Scpd}
ActionRead == InSections("actionList")
VariableRead == InSections("serviceStateTable")
NameGiven == ActionName \cup {NameRead(e) : e \in ActionRead}
ArgumentGiven == ArgumentAdded \cup UNION {ToSet(e.arguments) : e \in ActionRead}
ActionGiven == [name : NameGiven, arguments : Seq(ArgumentGiven)]
VariableGiven == {e.name : e \in VariableRead}

\* An element that is read is an action of the service.
LEMMA ElementRead ==
  ASSUME NEW e \in ActionRead
  PROVE  ActionElement(NameRead(e), e.arguments) \in ActionGiven
<1>0. PICK d \in Scpd :
        \E x \in ToSet(d.sections) : x.tag = "actionList" /\ e \in ToSet(x.contents)
  BY DEF ActionRead, InSections
<1>1. PICK x \in ToSet(d.sections) : x.tag = "actionList" /\ e \in ToSet(x.contents)
  BY <1>0
<1>2. e.arguments \in Seq(ToSet(e.arguments))
  BY <1>1, ScpdAssumption
<1>3. ToSet(e.arguments) \subseteq ArgumentGiven
  BY DEF ArgumentGiven
<1>4. e.arguments \in Seq(ArgumentGiven)
  BY <1>2, <1>3, OfItsElements
<1> QED
  BY <1>4 DEF ActionElement, ActionGiven, NameGiven

\* The first action of a name.
LEMMA ActionFound ==
  ASSUME NEW list \in Seq(ActionGiven), NEW name
  PROVE  \/ /\ GetAction(list, name) \in DOMAIN list
            /\ GetAction(list, name) # 0 /\ list[GetAction(list, name)].name = name
         \/ GetAction(list, name) = 0 /\ \A i \in DOMAIN list : list[i].name # name
<1> DEFINE I == {i \in 1..Len(list) : list[i].name = name}
<1>0. DOMAIN list = 1..Len(list) /\ Len(list) \in Nat
  BY LenProperties
<1>1. GetAction(list, name) = IF I # {} THEN Min(I) ELSE 0
  BY DEF GetAction, SelectInSeq
<1>2. CASE I = {}
  BY <1>0, <1>1, <1>2
<1>3. CASE I # {}
  <2>1. I \in SUBSET Nat
    BY <1>0
  <2>2. \E x \in I : \A y \in I : x <= y
    <3> HIDE DEF I
    <3> QED
      BY <1>3, <2>1, LeastNumber
  <2>3. Min(I) \in I
    BY <2>2 DEF Min
  <2> QED
    BY <1>0, <1>1, <1>3, <2>3
<1> QED
  BY <1>2, <1>3

\* Actions are read one after the other.
LEMMA ActionsLoop ==
  ASSUME NEW base \in Seq(ActionGiven), NEW seq \in Seq(ActionRead)
  PROVE  \E run \in [0..Len(seq) -> Seq(ActionGiven)] :
           /\ run[0] = base /\ run[Len(seq)] = FoldLeft(ReadAction, base, seq)
           /\ \A k \in 0 .. Len(seq) - 1 : run[k + 1] = ReadAction(run[k], seq[k + 1])
<1> DEFINE n == Len(seq)
           V == Seq(ActionGiven)
           Turn(x, i) == ReadAction(x, seq[i])
           g == [p \in V \X (1..n) |-> Turn(p[1], p[2])]
           Loop(iter) == iter = [S \in SUBSET (1..n) |->
                                   IF S = {} THEN base ELSE Turn(iter[S \ {Max(S)}], Max(S))]
<1>0. n \in Nat /\ DOMAIN seq = 1..n /\ \A i \in 1..n : seq[i] \in ActionRead
  BY LenProperties
<1>1. FoldLeft(ReadAction, base, seq) = (CHOOSE iter : Loop(iter))[1..n]
  <2> DEFINE Raw(iter) == iter = [S \in SUBSET DOMAIN seq |->
                                    IF S = {} THEN base
                                    ELSE ReadAction(iter[S \ {Max(S)}], seq[Max(S)])]
  <2>1. FoldLeft(ReadAction, base, seq) = (CHOOSE iter : Raw(iter))[DOMAIN seq]
    BY DEF FoldLeft, MapThenFoldSet
  <2>2. \A iter : Raw(iter) <=> Loop(iter)
    BY <1>0
  <2> HIDE DEF Raw, Loop
  <2>3. (CHOOSE iter : Raw(iter)) = (CHOOSE iter : Loop(iter))
    BY <2>2
  <2> QED
    BY <1>0, <2>1, <2>3
<1> HIDE DEF n
<1>2. base \in V
  OBVIOUS
<1>3. ASSUME NEW x \in V, NEW i \in 1..n
      PROVE  Turn(x, i) \in V
  <2> DEFINE e == seq[i]
             a == ActionElement(NameRead(e), e.arguments)
  <2>1. a \in ActionGiven /\ a.name = NameRead(e) /\ a.arguments = e.arguments
    BY <1>0, ElementRead DEF ActionElement
  <2>2. \/ GetAction(x, NameRead(e)) \in DOMAIN x /\ GetAction(x, NameRead(e)) # 0
        \/ GetAction(x, NameRead(e)) = 0
    BY ActionFound
  <2> DEFINE at == GetAction(x, NameRead(e))
  <2>3. Turn(x, i) = IF at # 0 THEN [x EXCEPT ![at].arguments = x[at].arguments \o e.arguments]
                     ELSE Added(x, a)
    BY DEF ReadAction
  <2> HIDE DEF at, a, e, Turn
  <2>4. CASE at # 0
    <3>1. at \in DOMAIN x /\ x[at] \in ActionGiven
      BY <2>2, <2>4 DEF at
    <3>2. e.arguments \in Seq(ArgumentGiven) /\ x[at].arguments \in Seq(ArgumentGiven)
      BY <2>1, <3>1 DEF ActionGiven
    <3>3. x[at].arguments \o e.arguments \in Seq(ArgumentGiven)
      BY <3>2, ConcatProperties
    <3>4. [x[at] EXCEPT !.arguments = x[at].arguments \o e.arguments] \in ActionGiven
      BY <3>1, <3>3 DEF ActionGiven
    <3>5. Turn(x, i) =
            [x EXCEPT ![at] = [x[at] EXCEPT !.arguments = x[at].arguments \o e.arguments]]
      BY <2>3, <2>4
    <3> HIDE DEF ActionGiven
    <3> QED
      BY <3>1, <3>4, <3>5
  <2>5. CASE at = 0
    BY <2>1, <2>3, <2>5, AppendProperties DEF Added
  <2> QED
    BY <2>4, <2>5
<1> HIDE DEF V, Turn
<1>4. g \in [V \X (1..n) -> V]
  BY <1>3
<1>5. PICK f \in [SUBSET (1..n) -> V] : FoldsUpTo(f, n, base, g)
  <2> HIDE DEF g
  <2> QED
    BY <1>0, <1>2, <1>4, FoldIsThere
<1>6. Loop(f)
  <2>1. ASSUME NEW S \in SUBSET (1..n)
        PROVE  f[S] = IF S = {} THEN base ELSE Turn(f[S \ {Max(S)}], Max(S))
    <3>1. CASE S = {}
      BY <1>5, <3>1 DEF FoldsUpTo
    <3>2. CASE S # {}
      <4>1. Max(S) \in 1..n
        BY <1>0, <3>2, MaxExists
      <4>2. f[S \ {Max(S)}] \in V
        OBVIOUS
      <4>3. f[S] = g[<<f[S \ {Max(S)}], Max(S)>>]
        <5> HIDE DEF g
        <5> QED
          BY <1>5, <3>2 DEF FoldsUpTo
      <4> QED
        BY <3>2, <4>1, <4>2, <4>3
    <3> QED
      BY <3>1, <3>2
  <2> HIDE DEF g
  <2> QED
    BY <2>1
<1> DEFINE iter == CHOOSE iter : Loop(iter)
           run == [k \in 0..n |-> iter[1..k]]
<1>7. Loop(iter)
  <2> HIDE DEF Loop
  <2> QED
    BY <1>6
<1>8. iter = [S \in SUBSET (1..n) |->
                IF S = {} THEN base ELSE Turn(iter[S \ {Max(S)}], Max(S))]
  <2> HIDE DEF iter
  <2> QED
    BY <1>7
<1>9. FoldLeft(ReadAction, base, seq) = iter[1..n]
  BY <1>1
<1> HIDE DEF iter, Loop
<1>10. run[0] = base
  <2>1. 1..0 = {} /\ 1..0 \in SUBSET (1..n)
    OBVIOUS
  <2>2. iter[1..0] = base
    BY <1>8, <2>1
  <2> QED
    BY <1>0, <2>2
<1>11. ASSUME NEW k \in 0 .. n - 1
       PROVE  run[k + 1] = Turn(run[k], k + 1)
  <2>1. /\ 1 .. k + 1 # {} /\ Max(1 .. k + 1) = k + 1
        /\ (1 .. k + 1) \ {k + 1} = 1..k
    <3>1. k \in Nat
      BY <1>0
    <3> QED
      BY <3>1, LastOfPrefix
  <2>2. 1 .. k + 1 \in SUBSET (1..n)
    BY <1>0
  <2>3. iter[1 .. k + 1] = Turn(iter[1..k], k + 1)
    BY <1>8, <2>1, <2>2
  <2> QED
    BY <1>0, <2>3
<1>12. run[n] = FoldLeft(ReadAction, base, seq)
  BY <1>0, <1>9
<1>13. DOMAIN run = 0..n /\ run = [k \in 0..n |-> run[k]]
  OBVIOUS
<1> HIDE DEF run
<1> DEFINE T == {k \in 0..n : run[k] \in V}
<1>14. 0 \in T
  BY <1>0, <1>2, <1>10
<1>15. ASSUME NEW k \in 0 .. n - 1, k \in T
       PROVE  k + 1 \in T
  <2>1. run[k + 1] \in V
    <3>1. k + 1 \in 1..n /\ run[k] \in V
      BY <1>0, <1>15
    <3> QED
      BY <1>3, <1>11, <3>1
  <2> QED
    BY <1>0, <2>1
<1>16. 0..n \subseteq T
  <2>1. T \in SUBSET Nat
    BY <1>0
  <2> HIDE DEF T
  <2> QED
    BY <1>0, <1>14, <1>15, <2>1, Induction
<1>17. run \in [0..n -> V]
  BY <1>13, <1>16
<1> QED
  BY <1>10, <1>11, <1>12, <1>17 DEF n, Turn, V

\* So are variables.
LEMMA VariablesLoop ==
  ASSUME NEW base \in Seq(VariableGiven), NEW seq \in Seq(VariableRead)
  PROVE  \E run \in [0..Len(seq) -> Seq(VariableGiven)] :
           /\ run[0] = base /\ run[Len(seq)] = FoldLeft(ReadVariable, base, seq)
           /\ \A k \in 0 .. Len(seq) - 1 : run[k + 1] = ReadVariable(run[k], seq[k + 1])
<1> DEFINE n == Len(seq)
           V == Seq(VariableGiven)
           Turn(x, i) == ReadVariable(x, seq[i])
           g == [p \in V \X (1..n) |-> Turn(p[1], p[2])]
           Loop(iter) == iter = [S \in SUBSET (1..n) |->
                                   IF S = {} THEN base ELSE Turn(iter[S \ {Max(S)}], Max(S))]
<1>0. n \in Nat /\ DOMAIN seq = 1..n /\ \A i \in 1..n : seq[i] \in VariableRead
  BY LenProperties
<1>1. FoldLeft(ReadVariable, base, seq) = (CHOOSE iter : Loop(iter))[1..n]
  <2> DEFINE Raw(iter) == iter = [S \in SUBSET DOMAIN seq |->
                                    IF S = {} THEN base
                                    ELSE ReadVariable(iter[S \ {Max(S)}], seq[Max(S)])]
  <2>1. FoldLeft(ReadVariable, base, seq) = (CHOOSE iter : Raw(iter))[DOMAIN seq]
    BY DEF FoldLeft, MapThenFoldSet
  <2>2. \A iter : Raw(iter) <=> Loop(iter)
    BY <1>0
  <2> HIDE DEF Raw, Loop
  <2>3. (CHOOSE iter : Raw(iter)) = (CHOOSE iter : Loop(iter))
    BY <2>2
  <2> QED
    BY <1>0, <2>1, <2>3
<1> HIDE DEF n
<1>2. base \in V
  OBVIOUS
<1>3. ASSUME NEW x \in V, NEW i \in 1..n
      PROVE  Turn(x, i) \in V
  <2>1. seq[i].name \in VariableGiven
    BY <1>0 DEF VariableGiven
  <2> QED
    BY <2>1, AppendProperties DEF ReadVariable
<1> HIDE DEF V, Turn
<1>4. g \in [V \X (1..n) -> V]
  BY <1>3
<1>5. PICK f \in [SUBSET (1..n) -> V] : FoldsUpTo(f, n, base, g)
  <2> HIDE DEF g
  <2> QED
    BY <1>0, <1>2, <1>4, FoldIsThere
<1>6. Loop(f)
  <2>1. ASSUME NEW S \in SUBSET (1..n)
        PROVE  f[S] = IF S = {} THEN base ELSE Turn(f[S \ {Max(S)}], Max(S))
    <3>1. CASE S = {}
      BY <1>5, <3>1 DEF FoldsUpTo
    <3>2. CASE S # {}
      <4>1. Max(S) \in 1..n
        BY <1>0, <3>2, MaxExists
      <4>2. f[S \ {Max(S)}] \in V
        OBVIOUS
      <4>3. f[S] = g[<<f[S \ {Max(S)}], Max(S)>>]
        <5> HIDE DEF g
        <5> QED
          BY <1>5, <3>2 DEF FoldsUpTo
      <4> QED
        BY <3>2, <4>1, <4>2, <4>3
    <3> QED
      BY <3>1, <3>2
  <2> HIDE DEF g
  <2> QED
    BY <2>1
<1> DEFINE iter == CHOOSE iter : Loop(iter)
           run == [k \in 0..n |-> iter[1..k]]
<1>7. Loop(iter)
  <2> HIDE DEF Loop
  <2> QED
    BY <1>6
<1>8. iter = [S \in SUBSET (1..n) |->
                IF S = {} THEN base ELSE Turn(iter[S \ {Max(S)}], Max(S))]
  <2> HIDE DEF iter
  <2> QED
    BY <1>7
<1>9. FoldLeft(ReadVariable, base, seq) = iter[1..n]
  BY <1>1
<1> HIDE DEF iter, Loop
<1>10. run[0] = base
  <2>1. 1..0 = {} /\ 1..0 \in SUBSET (1..n)
    OBVIOUS
  <2>2. iter[1..0] = base
    BY <1>8, <2>1
  <2> QED
    BY <1>0, <2>2
<1>11. ASSUME NEW k \in 0 .. n - 1
       PROVE  run[k + 1] = Turn(run[k], k + 1)
  <2>1. /\ 1 .. k + 1 # {} /\ Max(1 .. k + 1) = k + 1
        /\ (1 .. k + 1) \ {k + 1} = 1..k
    <3>1. k \in Nat
      BY <1>0
    <3> QED
      BY <3>1, LastOfPrefix
  <2>2. 1 .. k + 1 \in SUBSET (1..n)
    BY <1>0
  <2>3. iter[1 .. k + 1] = Turn(iter[1..k], k + 1)
    BY <1>8, <2>1, <2>2
  <2> QED
    BY <1>0, <2>3
<1>12. run[n] = FoldLeft(ReadVariable, base, seq)
  BY <1>0, <1>9
<1>13. DOMAIN run = 0..n /\ run = [k \in 0..n |-> run[k]]
  OBVIOUS
<1> HIDE DEF run
<1> DEFINE T == {k \in 0..n : run[k] \in V}
<1>14. 0 \in T
  BY <1>0, <1>2, <1>10
<1>15. ASSUME NEW k \in 0 .. n - 1, k \in T
       PROVE  k + 1 \in T
  <2>1. run[k + 1] \in V
    <3>1. k + 1 \in 1..n /\ run[k] \in V
      BY <1>0, <1>15
    <3> QED
      BY <1>3, <1>11, <3>1
  <2> QED
    BY <1>0, <2>1
<1>16. 0..n \subseteq T
  <2>1. T \in SUBSET Nat
    BY <1>0
  <2> HIDE DEF T
  <2> QED
    BY <1>0, <1>14, <1>15, <2>1, Induction
<1>17. run \in [0..n -> V]
  BY <1>13, <1>16
<1> QED
  BY <1>10, <1>11, <1>12, <1>17 DEF n, Turn, V

-----------------------------------------------------------------------------
(* What was described *)

\* The arguments that the actions of the name were described with, and the elements of an
\* action list, under the names they are read by.
Given(d, name) ==
  FlattenSeq([i \in DOMAIN d |-> IF d[i].name = name THEN d[i].arguments ELSE <<>>])
ReadAs(elements) ==
  [i \in DOMAIN elements |-> ActionElement(NameRead(elements[i]), elements[i].arguments)]

\* What one more description gives.
LEMMA GivenAppend ==
  ASSUME NEW d \in Seq(ActionGiven), NEW a \in ActionGiven, NEW name
  PROVE  /\ Given(Append(d, a), name) =
              IF a.name = name THEN Given(d, name) \o a.arguments ELSE Given(d, name)
         /\ Given(d, name) \in Seq(ArgumentGiven)
<1> DEFINE n == Len(d)
           dd == Append(d, a)
           Of(x) == IF x.name = name THEN x.arguments ELSE <<>>
           ss == [i \in DOMAIN d |-> Of(d[i])]
           tt == [i \in DOMAIN dd |-> Of(dd[i])]
<1>1. /\ n \in Nat /\ DOMAIN d = 1..n /\ \A i \in 1..n : d[i] \in ActionGiven /\ dd[i] = d[i]
      /\ dd \in Seq(ActionGiven) /\ Len(dd) = n + 1 /\ dd[n + 1] = a
  BY LenProperties, AppendProperties
<1>2. DOMAIN dd = 1 .. n + 1
  BY <1>1, LenProperties
<1>3. ASSUME NEW x \in ActionGiven
      PROVE  Of(x) \in Seq(ArgumentGiven)
  BY EmptySeq DEF ActionGiven
<1> HIDE DEF n, dd, Of
<1>4. ss \in [1..n -> Seq(ArgumentGiven)] /\ tt \in [1 .. n + 1 -> Seq(ArgumentGiven)]
  <2>1. \A i \in 1 .. n + 1 : i = n + 1 \/ i \in 1..n
    BY <1>1
  <2> QED
    BY <1>1, <1>2, <1>3, <2>1
<1>5. ss \in Seq(Seq(ArgumentGiven)) /\ Len(ss) = n
  <2> HIDE DEF ss
  <2> QED
    BY <1>1, <1>4
<1>6. Append(ss, Of(a)) \in Seq(Seq(ArgumentGiven)) /\ Len(Append(ss, Of(a))) = n + 1
      /\ Append(ss, Of(a))[n + 1] = Of(a) /\ \A i \in 1..n : Append(ss, Of(a))[i] = ss[i]
  <2> HIDE DEF ss
  <2>1. Of(a) \in Seq(ArgumentGiven)
    BY <1>3
  <2> QED
    BY <1>5, <2>1, AppendProperties
<1>7. DOMAIN Append(ss, Of(a)) = 1 .. n + 1
  <2> HIDE DEF ss
  <2> QED
    BY <1>6, LenProperties
<1>8. ASSUME NEW i \in 1 .. n + 1
      PROVE  tt[i] = Append(ss, Of(a))[i]
  <2>1. CASE i = n + 1
    BY <1>1, <1>2, <1>6, <2>1
  <2>2. CASE i # n + 1
    <3>0. n \in Nat
      BY <1>1
    <3>1. i \in 1..n
      BY <3>0, <2>2
    <3>2. ss[i] = Of(d[i]) /\ tt[i] = Of(dd[i])
      BY <1>1, <1>2, <3>1
    <3> HIDE DEF ss, tt
    <3> QED
      BY <1>1, <1>6, <3>1, <3>2
  <2> QED
    BY <2>1, <2>2
<1>9. tt = Append(ss, Of(a))
  <2>1. Append(ss, Of(a)) = [i \in 1 .. n + 1 |-> Append(ss, Of(a))[i]]
    <3> DEFINE uu == Append(ss, Of(a))
    <3>1. uu \in Seq(Seq(ArgumentGiven)) /\ Len(uu) = n + 1
      BY <1>6
    <3> HIDE DEF uu, ss
    <3>2. uu \in [1 .. n + 1 -> Seq(ArgumentGiven)]
      BY <3>1, LenProperties
    <3>3. uu = [i \in 1 .. n + 1 |-> uu[i]]
      BY <3>2
    <3> QED
      BY <3>3 DEF uu
  <2>2. tt = [i \in 1 .. n + 1 |-> tt[i]]
    BY <1>2
  <2> HIDE DEF ss, tt
  <2> QED
    BY <1>8, <2>1, <2>2
<1>10. Given(d, name) = FlattenSeq(ss) /\ Given(dd, name) = FlattenSeq(tt)
  BY DEF Given, Of
<1> HIDE DEF ss, tt
<1>11. FlattenSeq(tt) = FlattenSeq(ss) \o Of(a) /\ FlattenSeq(ss) \in Seq(ArgumentGiven)
  BY <1>3, <1>5, <1>9, FlattenAppend, FlattenTyped
<1>12. FlattenSeq(ss) \o <<>> = FlattenSeq(ss)
  BY <1>11, ConcatEmptySeq
<1> QED
  BY <1>10, <1>11, <1>12 DEF Of, dd

-----------------------------------------------------------------------------
\* The inductive invariant of actions.  Beside what is promised, that nothing was given for
\* a name that is not in the list: an action that is added must not owe anything.
Match(list, d) ==
  /\ list \in Seq(ActionGiven) /\ d \in Seq(ActionGiven)
  /\ \A i, j \in DOMAIN list : list[i].name = list[j].name => i = j
  /\ {list[i].name : i \in DOMAIN list} = {d[i].name : i \in DOMAIN d}
  /\ \A i \in DOMAIN list : list[i].arguments = Given(d, list[i].name)
  /\ \A name : (\A i \in DOMAIN list : list[i].name # name) => Given(d, name) = <<>>

\* The names of one more action.
LEMMA NamesAppend ==
  ASSUME NEW d \in Seq(ActionGiven), NEW a \in ActionGiven
  PROVE  {Append(d, a)[i].name : i \in DOMAIN Append(d, a)} =
           {d[i].name : i \in DOMAIN d} \cup {a.name}
<1> DEFINE n == Len(d)
           dd == Append(d, a)
<1>1. /\ n \in Nat /\ DOMAIN d = 1..n /\ \A i \in 1..n : dd[i] = d[i]
      /\ dd \in Seq(ActionGiven) /\ Len(dd) = n + 1 /\ dd[n + 1] = a
  BY LenProperties, AppendProperties
<1>2. DOMAIN dd = 1 .. n + 1
  BY <1>1, LenProperties
<1> HIDE DEF n, dd
<1>3. 1 .. n + 1 = (1..n) \cup {n + 1}
  <2>1. n \in Nat
    BY <1>1
  <2> QED
    BY <2>1
<1>4. {dd[i].name : i \in DOMAIN dd} = {d[i].name : i \in DOMAIN d} \cup {a.name}
  BY <1>1, <1>2, <1>3
<1> QED
  BY <1>4 DEF dd

\* An action that is there gets the arguments that were described.
LEMMA MatchGrows ==
  ASSUME NEW list, NEW d, Match(list, d), NEW a \in ActionGiven, NEW at \in DOMAIN list,
         list[at].name = a.name,
         NEW grown \in Seq(ActionGiven), DOMAIN grown = DOMAIN list,
         \A i \in DOMAIN list : grown[i].name = list[i].name,
         \A i \in DOMAIN list \ {at} : grown[i].arguments = list[i].arguments,
         grown[at].arguments = list[at].arguments \o a.arguments
  PROVE  Match(grown, Append(d, a))
<1> DEFINE dd == Append(d, a)
<1>1. list \in Seq(ActionGiven) /\ d \in Seq(ActionGiven)
  BY DEF Match
<1>2. dd \in Seq(ActionGiven)
  BY <1>1, AppendProperties
<1>3. \A name : Given(dd, name) =
                   IF a.name = name THEN Given(d, name) \o a.arguments ELSE Given(d, name)
  BY <1>1, GivenAppend
<1>4. {dd[i].name : i \in DOMAIN dd} = {d[i].name : i \in DOMAIN d} \cup {a.name}
  BY <1>1, NamesAppend
<1> HIDE DEF dd
<1>5. \A i, j \in DOMAIN grown : grown[i].name = grown[j].name => i = j
  BY DEF Match
<1>6. {grown[i].name : i \in DOMAIN grown} = {dd[i].name : i \in DOMAIN dd}
  <2>1. {grown[i].name : i \in DOMAIN grown} = {list[i].name : i \in DOMAIN list}
    OBVIOUS
  <2>2. {list[i].name : i \in DOMAIN list} = {d[i].name : i \in DOMAIN d}
    BY DEF Match
  <2>3. a.name \in {list[i].name : i \in DOMAIN list}
    OBVIOUS
  <2> QED
    BY <1>4, <2>1, <2>2, <2>3
<1>7. ASSUME NEW i \in DOMAIN grown
      PROVE  grown[i].arguments = Given(dd, grown[i].name)
  <2>1. list[i].arguments = Given(d, list[i].name)
    BY DEF Match
  <2>2. CASE i = at
    BY <1>3, <2>1, <2>2
  <2>3. CASE i # at
    <3>1. list[i].name # a.name
      BY <2>3 DEF Match
    <3> QED
      BY <1>3, <2>1, <2>3, <3>1
  <2> QED
    BY <2>2, <2>3
<1>8. ASSUME NEW name, \A i \in DOMAIN grown : grown[i].name # name
      PROVE  Given(dd, name) = <<>>
  <2>1. \A i \in DOMAIN list : list[i].name # name
    BY <1>8
  <2>2. Given(d, name) = <<>> /\ a.name # name
    BY <2>1 DEF Match
  <2> QED
    BY <1>3, <2>2
<1> QED
  BY <1>2, <1>5, <1>6, <1>7, <1>8 DEF Match, dd

\* One that is not is added.
LEMMA MatchAdds ==
  ASSUME NEW list, NEW d, Match(list, d), NEW a \in ActionGiven,
         \A i \in DOMAIN list : list[i].name # a.name
  PROVE  Match(Append(list, a), Append(d, a))
<1> DEFINE dd == Append(d, a)
           ll == Append(list, a)
           n == Len(list)
<1>1. list \in Seq(ActionGiven) /\ d \in Seq(ActionGiven)
  BY DEF Match
<1>2. dd \in Seq(ActionGiven) /\ ll \in Seq(ActionGiven)
  BY <1>1, AppendProperties
<1>3. \A name : Given(dd, name) =
                   IF a.name = name THEN Given(d, name) \o a.arguments ELSE Given(d, name)
  BY <1>1, GivenAppend
<1>4. /\ {dd[i].name : i \in DOMAIN dd} = {d[i].name : i \in DOMAIN d} \cup {a.name}
      /\ {ll[i].name : i \in DOMAIN ll} = {list[i].name : i \in DOMAIN list} \cup {a.name}
  BY <1>1, NamesAppend
<1>5. /\ n \in Nat /\ DOMAIN list = 1..n /\ Len(ll) = n + 1
      /\ ll[n + 1] = a /\ \A i \in 1..n : ll[i] = list[i]
  BY <1>1, LenProperties, AppendProperties
<1>6. DOMAIN ll = 1 .. n + 1
  BY <1>2, <1>5, LenProperties
<1>7. a.arguments \in Seq(ArgumentGiven)
  BY DEF ActionGiven
<1> HIDE DEF dd, ll, n
<1>8. \A i \in DOMAIN ll : (i \in DOMAIN list /\ ll[i] = list[i]) \/ (i = n + 1 /\ ll[i] = a)
  <2>1. \A i \in 1 .. n + 1 : i \in 1..n \/ i = n + 1
    <3>1. n \in Nat
      BY <1>5
    <3> QED
      BY <3>1
  <2> QED
    BY <1>5, <1>6, <2>1
<1>9. \A i, j \in DOMAIN ll : ll[i].name = ll[j].name => i = j
  BY <1>8 DEF Match
<1>10. {ll[i].name : i \in DOMAIN ll} = {dd[i].name : i \in DOMAIN dd}
  BY <1>4 DEF Match
<1>11. ASSUME NEW i \in DOMAIN ll
       PROVE  ll[i].arguments = Given(dd, ll[i].name)
  <2>1. CASE i \in DOMAIN list /\ ll[i] = list[i]
    <3>1. list[i].arguments = Given(d, list[i].name) /\ list[i].name # a.name
      BY <2>1 DEF Match
    <3> QED
      BY <1>3, <2>1, <3>1
  <2>2. CASE i = n + 1 /\ ll[i] = a
    <3>1. Given(d, a.name) = <<>>
      BY DEF Match
    <3>2. <<>> \o a.arguments = a.arguments
      BY <1>7, ConcatEmptySeq
    <3> QED
      BY <1>3, <2>2, <3>1, <3>2
  <2> QED
    BY <1>8, <2>1, <2>2
<1>12. ASSUME NEW name, \A i \in DOMAIN ll : ll[i].name # name
       PROVE  Given(dd, name) = <<>>
  <2>1. n \in Nat
    BY <1>5
  <2>2. n + 1 \in 1 .. n + 1 /\ \A i \in 1..n : i \in 1 .. n + 1
    BY <2>1
  <2>3. a.name # name /\ \A i \in DOMAIN list : list[i].name # name
    BY <1>5, <1>6, <1>12, <2>2
  <2>4. Given(d, name) = <<>>
    BY <2>3 DEF Match
  <2> QED
    BY <1>3, <2>3, <2>4
<1> QED
  BY <1>2, <1>9, <1>10, <1>11, <1>12 DEF Match, dd, ll

-----------------------------------------------------------------------------
(* Reading an action list *)

\* An element is read.
LEMMA ActionMatches ==
  ASSUME NEW list, NEW d, Match(list, d), NEW e \in ActionRead
  PROVE  Match(ReadAction(list, e), Append(d, ActionElement(NameRead(e), e.arguments)))
<1> DEFINE a == ActionElement(NameRead(e), e.arguments)
           at == GetAction(list, NameRead(e))
           grown == [list EXCEPT ![at].arguments = list[at].arguments \o e.arguments]
<1>1. a \in ActionGiven /\ a.name = NameRead(e) /\ a.arguments = e.arguments
  BY ElementRead DEF ActionElement
<1>2. list \in Seq(ActionGiven)
  BY DEF Match
<1>3. \/ at \in DOMAIN list /\ at # 0 /\ list[at].name = NameRead(e)
      \/ at = 0 /\ \A i \in DOMAIN list : list[i].name # NameRead(e)
  BY <1>2, ActionFound
<1>4. ReadAction(list, e) = IF at # 0 THEN grown ELSE Added(list, a)
  BY DEF ReadAction
<1> HIDE DEF at, a
<1>5. CASE at # 0
  <2>1. at \in DOMAIN list /\ list[at] \in ActionGiven /\ list[at].name = a.name
    BY <1>1, <1>2, <1>3, <1>5
  <2> DEFINE new == [list[at] EXCEPT !.arguments = list[at].arguments \o e.arguments]
  <2>2. new.name = list[at].name /\ new.arguments = list[at].arguments \o e.arguments
    BY <2>1 DEF ActionGiven
  <2>3. list[at].arguments \in Seq(ArgumentGiven) /\ a.arguments \in Seq(ArgumentGiven)
    BY <1>1, <2>1 DEF ActionGiven
  <2>4. list[at].arguments \o e.arguments \in Seq(ArgumentGiven)
    BY <1>1, <2>3, ConcatProperties
  <2>5. new \in ActionGiven
    BY <2>1, <2>4 DEF ActionGiven
  <2>6. grown = [list EXCEPT ![at] = new]
    OBVIOUS
  <2> HIDE DEF new, grown
  <2>7. /\ DOMAIN grown = DOMAIN list /\ grown[at] = new
        /\ \A i \in DOMAIN list \ {at} : grown[i] = list[i]
    BY <1>2, <2>1, <2>6
  <2>8. grown \in Seq(ActionGiven)
    <3> HIDE DEF ActionGiven
    <3> QED
      BY <1>2, <2>1, <2>5, <2>6
  <2>9. \A i \in DOMAIN list : grown[i].name = list[i].name
    BY <2>2, <2>7
  <2>10. grown[at].arguments = list[at].arguments \o a.arguments
    BY <1>1, <2>2, <2>7
  <2>11. Match(grown, Append(d, a))
    BY <1>1, <2>1, <2>7, <2>8, <2>9, <2>10, MatchGrows
  <2> QED
    BY <1>4, <1>5, <2>11 DEF a
<1>6. CASE at = 0
  <2>1. \A i \in DOMAIN list : list[i].name # a.name
    BY <1>1, <1>3, <1>6
  <2>2. Added(list, a) = Append(list, a)
    BY <2>1 DEF Added
  <2>3. Match(Append(list, a), Append(d, a))
    BY <1>1, <2>1, MatchAdds
  <2> QED
    BY <1>4, <1>6, <2>2, <2>3 DEF a
<1> QED
  BY <1>5, <1>6

\* Elements are read as actions, one for one.
LEMMA ReadAsTyped ==
  ASSUME NEW seq \in Seq(ActionRead)
  PROVE  ReadAs(seq) \in Seq(ActionGiven) /\ Len(ReadAs(seq)) = Len(seq)
<1> DEFINE n == Len(seq)
           as == ReadAs(seq)
<1>0. n \in Nat /\ DOMAIN seq = 1..n /\ \A i \in 1..n : seq[i] \in ActionRead
  BY LenProperties
<1> HIDE DEF n
<1>1. as \in [1..n -> ActionGiven]
  BY <1>0, ElementRead DEF ReadAs
<1> HIDE DEF as
<1>2. as \in Seq(ActionGiven) /\ Len(as) = n
  <2>1. n \in Nat
    BY <1>0
  <2> QED
    BY <1>1, <2>1, IsSequence
<1> QED
  BY <1>2 DEF n, as

\* A list of them is read.
LEMMA ActionsMatch ==
  ASSUME NEW list, NEW d, Match(list, d), NEW seq \in Seq(ActionRead)
  PROVE  Match(FoldLeft(ReadAction, list, seq), d \o ReadAs(seq))
<1> DEFINE n == Len(seq)
           s == ReadAs(seq)
           all == FoldLeft(ReadAction, list, seq)
<1>1. list \in Seq(ActionGiven) /\ d \in Seq(ActionGiven)
  BY DEF Match
<1>2. n \in Nat /\ DOMAIN seq = 1..n /\ \A i \in 1..n : seq[i] \in ActionRead
  BY LenProperties
<1>3. s \in Seq(ActionGiven) /\ Len(s) = n
  BY ReadAsTyped
<1>4. \A i \in 1..n : s[i] = ActionElement(NameRead(seq[i]), seq[i].arguments)
  BY <1>2 DEF ReadAs
<1>5. PICK run \in [0..n -> Seq(ActionGiven)] :
        /\ run[0] = list /\ run[n] = all
        /\ \A k \in 0 .. n - 1 : run[k + 1] = ReadAction(run[k], seq[k + 1])
  BY <1>1, ActionsLoop
<1> HIDE DEF n, s, all
<1> DEFINE T == {k \in 0..n : Match(run[k], d \o SubSeq(s, 1, k))}
<1>6. 0 \in T
  <2>1. SubSeq(s, 1, 0) = <<>>
    BY SubSeqEmpty
  <2>2. d \o <<>> = d
    BY <1>1, ConcatEmptySeq
  <2>3. 0 \in 0..n
    BY <1>2
  <2> QED
    BY <1>5, <2>1, <2>2, <2>3
<1>7. ASSUME NEW k \in 0 .. n - 1, k \in T
      PROVE  k + 1 \in T
  <2>0. n \in Nat
    BY <1>2
  <2>1. k + 1 \in 1..n /\ k + 1 \in 0..n
    BY <2>0
  <2>2. Match(run[k], d \o SubSeq(s, 1, k))
    BY <1>7
  <2>3. run[k + 1] = ReadAction(run[k], seq[k + 1]) /\ seq[k + 1] \in ActionRead
    BY <1>2, <1>5, <2>1
  <2>4. Match(run[k + 1], Append(d \o SubSeq(s, 1, k), s[k + 1]))
    BY <1>4, <2>1, <2>2, <2>3, ActionMatches
  <2>5. d \o SubSeq(s, 1, k + 1) = Append(d \o SubSeq(s, 1, k), s[k + 1])
    BY <1>1, <1>3, OneMore
  <2> QED
    BY <2>1, <2>4, <2>5
<1>8. n \in T
  <2>1. T \in SUBSET Nat /\ n \in 0..n
    BY <1>2
  <2> HIDE DEF T
  <2>2. 0..n \subseteq T
    BY <1>2, <1>6, <1>7, <2>1, Induction
  <2> QED
    BY <2>1, <2>2
<1>9. SubSeq(s, 1, n) = s
  BY <1>3, SubSeqFull
<1> QED
  BY <1>5, <1>8, <1>9 DEF all, s

\* Each variable whose range has both ends or none is added.
NamesOf(elements) == {e.name : e \in {x \in elements : x.range # "half"}}

\* So are variables.
LEMMA VariablesMatch ==
  ASSUME NEW list \in Seq(VariableGiven), NEW seq \in Seq(VariableRead)
  PROVE  /\ FoldLeft(ReadVariable, list, seq) \in Seq(VariableGiven)
         /\ ToSet(FoldLeft(ReadVariable, list, seq)) = ToSet(list) \cup NamesOf(ToSet(seq))
<1> DEFINE n == Len(seq)
           all == FoldLeft(ReadVariable, list, seq)
<1>1. n \in Nat /\ DOMAIN seq = 1..n /\ \A i \in 1..n : seq[i] \in VariableRead
  BY LenProperties
<1>2. PICK run \in [0..n -> Seq(VariableGiven)] :
        /\ run[0] = list /\ run[n] = all
        /\ \A k \in 0 .. n - 1 : run[k + 1] = ReadVariable(run[k], seq[k + 1])
  BY VariablesLoop
<1> HIDE DEF n, all
<1> DEFINE T == {k \in 0..n : ToSet(run[k]) = ToSet(list) \cup NamesOf({seq[i] : i \in 1..k})}
<1>3. 0 \in T
  <2>1. {seq[i] : i \in 1..0} = {}
    OBVIOUS
  <2>2. 0 \in 0..n
    BY <1>1
  <2>3. NamesOf({}) = {}
    BY DEF NamesOf
  <2> QED
    BY <1>2, <2>1, <2>2, <2>3
<1>4. ASSUME NEW k \in 0 .. n - 1, k \in T
      PROVE  k + 1 \in T
  <2>0. n \in Nat
    BY <1>1
  <2>1. k + 1 \in 1..n /\ k + 1 \in 0..n /\ k \in 0..n /\ 1 .. k + 1 = (1..k) \cup {k + 1}
    BY <2>0
  <2> DEFINE x == seq[k + 1]
             old == {seq[i] : i \in 1..k}
             new == {seq[i] : i \in 1 .. k + 1}
  <2>2. new = old \cup {x}
    BY <2>1
  <2>3. /\ run[k] \in Seq(VariableGiven) /\ run[k + 1] = ReadVariable(run[k], x)
        /\ x.name \in VariableGiven
    BY <1>1, <1>2, <2>1 DEF VariableGiven
  <2>4. ToSet(run[k]) = ToSet(list) \cup NamesOf(old)
    BY <1>4
  <2> HIDE DEF x, old, new
  <2>5. CASE x.range = "half"
    <3>1. NamesOf(new) = NamesOf(old)
      BY <2>2, <2>5 DEF NamesOf
    <3> QED
      BY <2>1, <2>3, <2>4, <2>5, <3>1 DEF ReadVariable, new
  <2>6. CASE x.range # "half"
    <3>1. NamesOf(new) = NamesOf(old) \cup {x.name}
      BY <2>2, <2>6 DEF NamesOf
    <3>2. run[k + 1] = Append(run[k], x.name)
      BY <2>3, <2>6 DEF ReadVariable
    <3>3. ToSet(Append(run[k], x.name)) = ToSet(run[k]) \cup {x.name}
      BY <2>3, ToSetAppend
    <3> QED
      BY <2>1, <2>4, <3>1, <3>2, <3>3 DEF new
  <2> QED
    BY <2>5, <2>6
<1>5. n \in T
  <2>1. T \in SUBSET Nat /\ n \in 0..n
    BY <1>1
  <2> HIDE DEF T
  <2>2. 0..n \subseteq T
    BY <1>1, <1>3, <1>4, <2>1, Induction
  <2> QED
    BY <2>1, <2>2
<1>6. ToSet(seq) = {seq[i] : i \in 1..n}
  BY <1>1 DEF ToSet
<1>7. all \in Seq(VariableGiven)
  BY <1>1, <1>2
<1> QED
  BY <1>2, <1>5, <1>6, <1>7 DEF all

-----------------------------------------------------------------------------
(* Reading a document *)

SectionRead == UNION {ToSet(d.sections) : d \in Scpd}
SectionState == [actions : Seq(ActionGiven), variables : Seq(VariableGiven), done : BOOLEAN]

\* What is in a section.
LEMMA SectionContents ==
  ASSUME NEW x \in SectionRead
  PROVE  /\ x.tag = "actionList" => x.contents \in Seq(ActionRead)
         /\ x.tag = "serviceStateTable" => x.contents \in Seq(VariableRead)
<1>1. PICK d \in Scpd : x \in ToSet(d.sections)
  BY DEF SectionRead
<1>2. x.contents \in Seq(ToSet(x.contents))
  BY <1>1, ScpdAssumption
<1>3. ASSUME NEW tag, x.tag = tag
      PROVE  x.contents \in Seq(InSections(tag))
  <2>1. ToSet(x.contents) \subseteq InSections(tag)
    BY <1>1, <1>3 DEF InSections
  <2> QED
    BY <1>2, <2>1, OfItsElements
<1> QED
  BY <1>3 DEF ActionRead, VariableRead

\* What reading one does: nothing once something unknown was seen.
LEMMA SectionReads ==
  ASSUME NEW s \in SectionState, NEW x \in SectionRead
  PROVE  /\ ReadSection(s, x) \in SectionState
         /\ (s.done \/ x.tag \notin Known) =>
              /\ ReadSection(s, x).done
              /\ ReadSection(s, x).actions = s.actions /\ ReadSection(s, x).variables = s.variables
         /\ ~(s.done \/ x.tag \notin Known) =>
              /\ ~ReadSection(s, x).done
              /\ ReadSection(s, x).actions =
                   IF x.tag = "actionList" THEN FoldLeft(ReadAction, s.actions, x.contents)
                   ELSE s.actions
              /\ ReadSection(s, x).variables =
                   IF x.tag = "serviceStateTable" THEN FoldLeft(ReadVariable, s.variables, x.contents)
                   ELSE s.variables
<1>1. CASE s.done \/ x.tag \notin Known
  <2>1. ReadSection(s, x) = [s EXCEPT !.done = TRUE]
    BY <1>1 DEF ReadSection
  <2> QED
    BY <1>1, <2>1 DEF SectionState
<1>2. CASE ~(s.done \/ x.tag \notin Known) /\ x.tag = "actionList"
  <2> DEFINE all == FoldLeft(ReadAction, s.actions, x.contents)
  <2>1. s.actions \in Seq(ActionGiven) /\ x.contents \in Seq(ActionRead)
    BY <1>2, SectionContents DEF SectionState
  <2>2. PICK run \in [0..Len(x.contents) -> Seq(ActionGiven)] : run[Len(x.contents)] = all
    BY <2>1, ActionsLoop
  <2>3. Len(x.contents) \in 0..Len(x.contents)
    <3>1. Len(x.contents) \in Nat
      BY <2>1, LenProperties
    <3> QED
      BY <3>1
  <2>4. all \in Seq(ActionGiven)
    BY <2>2, <2>3
  <2>5. ReadSection(s, x) = [s EXCEPT !.actions = all]
    BY <1>2 DEF ReadSection
  <2> HIDE DEF all
  <2>6. ReadSection(s, x) \in SectionState /\ ReadSection(s, x).actions = all
        /\ ReadSection(s, x).variables = s.variables /\ ReadSection(s, x).done = s.done
    BY <2>4, <2>5 DEF SectionState
  <2> QED
    BY <1>2, <2>6 DEF all
<1>3. CASE ~(s.done \/ x.tag \notin Known) /\ x.tag = "serviceStateTable"
  <2> DEFINE all == FoldLeft(ReadVariable, s.variables, x.contents)
  <2>1. s.variables \in Seq(VariableGiven) /\ x.contents \in Seq(VariableRead)
    BY <1>3, SectionContents DEF SectionState
  <2>2. all \in Seq(VariableGiven)
    BY <2>1, VariablesMatch
  <2>3. ReadSection(s, x) = [s EXCEPT !.variables = all]
    BY <1>3 DEF ReadSection
  <2> HIDE DEF all
  <2>4. ReadSection(s, x) \in SectionState /\ ReadSection(s, x).variables = all
        /\ ReadSection(s, x).actions = s.actions /\ ReadSection(s, x).done = s.done
    BY <2>2, <2>3 DEF SectionState
  <2> QED
    BY <1>3, <2>4 DEF all
<1>4. CASE ~(s.done \/ x.tag \notin Known) /\ x.tag \notin {"actionList", "serviceStateTable"}
  <2>1. ReadSection(s, x) = s
    BY <1>4 DEF ReadSection
  <2> QED
    BY <1>4, <2>1
<1> QED
  BY <1>1, <1>2, <1>3, <1>4

\* Sections are read one after the other.
LEMMA SectionsLoop ==
  ASSUME NEW base \in SectionState, NEW seq \in Seq(SectionRead)
  PROVE  \E run \in [0..Len(seq) -> SectionState] :
           /\ run[0] = base /\ run[Len(seq)] = FoldLeft(ReadSection, base, seq)
           /\ \A k \in 0 .. Len(seq) - 1 : run[k + 1] = ReadSection(run[k], seq[k + 1])
<1> DEFINE n == Len(seq)
           V == SectionState
           Turn(x, i) == ReadSection(x, seq[i])
           g == [p \in V \X (1..n) |-> Turn(p[1], p[2])]
           Loop(iter) == iter = [S \in SUBSET (1..n) |->
                                   IF S = {} THEN base ELSE Turn(iter[S \ {Max(S)}], Max(S))]
<1>0. n \in Nat /\ DOMAIN seq = 1..n /\ \A i \in 1..n : seq[i] \in SectionRead
  BY LenProperties
<1>1. FoldLeft(ReadSection, base, seq) = (CHOOSE iter : Loop(iter))[1..n]
  <2> DEFINE Raw(iter) == iter = [S \in SUBSET DOMAIN seq |->
                                    IF S = {} THEN base
                                    ELSE ReadSection(iter[S \ {Max(S)}], seq[Max(S)])]
  <2>1. FoldLeft(ReadSection, base, seq) = (CHOOSE iter : Raw(iter))[DOMAIN seq]
    BY DEF FoldLeft, MapThenFoldSet
  <2>2. \A iter : Raw(iter) <=> Loop(iter)
    BY <1>0
  <2> HIDE DEF Raw, Loop
  <2>3. (CHOOSE iter : Raw(iter)) = (CHOOSE iter : Loop(iter))
    BY <2>2
  <2> QED
    BY <1>0, <2>1, <2>3
<1> HIDE DEF n
<1>2. base \in V
  OBVIOUS
<1>3. ASSUME NEW x \in V, NEW i \in 1..n
      PROVE  Turn(x, i) \in V
  BY <1>0, SectionReads
<1> HIDE DEF V, Turn
<1>4. g \in [V \X (1..n) -> V]
  BY <1>3
<1>5. PICK f \in [SUBSET (1..n) -> V] : FoldsUpTo(f, n, base, g)
  <2> HIDE DEF g
  <2> QED
    BY <1>0, <1>2, <1>4, FoldIsThere
<1>6. Loop(f)
  <2>1. ASSUME NEW S \in SUBSET (1..n)
        PROVE  f[S] = IF S = {} THEN base ELSE Turn(f[S \ {Max(S)}], Max(S))
    <3>1. CASE S = {}
      BY <1>5, <3>1 DEF FoldsUpTo
    <3>2. CASE S # {}
      <4>1. Max(S) \in 1..n
        BY <1>0, <3>2, MaxExists
      <4>2. f[S \ {Max(S)}] \in V
        OBVIOUS
      <4>3. f[S] = g[<<f[S \ {Max(S)}], Max(S)>>]
        <5> HIDE DEF g
        <5> QED
          BY <1>5, <3>2 DEF FoldsUpTo
      <4> QED
        BY <3>2, <4>1, <4>2, <4>3
    <3> QED
      BY <3>1, <3>2
  <2> HIDE DEF g
  <2> QED
    BY <2>1
<1> DEFINE iter == CHOOSE iter : Loop(iter)
           run == [k \in 0..n |-> iter[1..k]]
<1>7. Loop(iter)
  <2> HIDE DEF Loop
  <2> QED
    BY <1>6
<1>8. iter = [S \in SUBSET (1..n) |->
                IF S = {} THEN base ELSE Turn(iter[S \ {Max(S)}], Max(S))]
  <2> HIDE DEF iter
  <2> QED
    BY <1>7
<1>9. FoldLeft(ReadSection, base, seq) = iter[1..n]
  BY <1>1
<1> HIDE DEF iter, Loop
<1>10. run[0] = base
  <2>1. 1..0 = {} /\ 1..0 \in SUBSET (1..n)
    OBVIOUS
  <2>2. iter[1..0] = base
    BY <1>8, <2>1
  <2> QED
    BY <1>0, <2>2
<1>11. ASSUME NEW k \in 0 .. n - 1
       PROVE  run[k + 1] = Turn(run[k], k + 1)
  <2>1. /\ 1 .. k + 1 # {} /\ Max(1 .. k + 1) = k + 1
        /\ (1 .. k + 1) \ {k + 1} = 1..k
    <3>1. k \in Nat
      BY <1>0
    <3> QED
      BY <3>1, LastOfPrefix
  <2>2. 1 .. k + 1 \in SUBSET (1..n)
    BY <1>0
  <2>3. iter[1 .. k + 1] = Turn(iter[1..k], k + 1)
    BY <1>8, <2>1, <2>2
  <2> QED
    BY <1>0, <2>3
<1>12. run[n] = FoldLeft(ReadSection, base, seq)
  BY <1>0, <1>9
<1>13. DOMAIN run = 0..n /\ run = [k \in 0..n |-> run[k]]
  OBVIOUS
<1> HIDE DEF run
<1> DEFINE T == {k \in 0..n : run[k] \in V}
<1>14. 0 \in T
  BY <1>0, <1>2, <1>10
<1>15. ASSUME NEW k \in 0 .. n - 1, k \in T
       PROVE  k + 1 \in T
  <2>1. run[k + 1] \in V
    <3>1. k + 1 \in 1..n /\ run[k] \in V
      BY <1>0, <1>15
    <3> QED
      BY <1>3, <1>11, <3>1
  <2> QED
    BY <1>0, <2>1
<1>16. 0..n \subseteq T
  <2>1. T \in SUBSET Nat
    BY <1>0
  <2> HIDE DEF T
  <2> QED
    BY <1>0, <1>14, <1>15, <2>1, Induction
<1>17. run \in [0..n -> V]
  BY <1>13, <1>16
<1> QED
  BY <1>10, <1>11, <1>12, <1>17 DEF n, Turn, V

\* The sections that are read, and the elements of a kind in the first k sections.
FirstUnknown(doc) == SelectInSeq(doc.sections, LAMBDA x : x.tag \notin Known)
ReadCount(doc) ==
  IF doc.root # "scpd" THEN 0
  ELSE IF FirstUnknown(doc) = 0 THEN Len(doc.sections) ELSE FirstUnknown(doc) - 1
Elements(doc, tag, k) ==
  FlattenSeq([i \in 1..k |->
                IF doc.sections[i].tag = tag THEN doc.sections[i].contents ELSE <<>>])

\* A document is a sequence of sections.
LEMMA DocumentTyped ==
  ASSUME NEW doc \in Scpd
  PROVE  /\ doc.sections \in Seq(SectionRead)
         /\ Len(doc.sections) \in Nat /\ DOMAIN doc.sections = 1..Len(doc.sections)
         /\ \A i \in 1..Len(doc.sections) : doc.sections[i] \in SectionRead
<1>1. doc.sections \in Seq(ToSet(doc.sections))
  BY ScpdAssumption
<1>2. ToSet(doc.sections) \subseteq SectionRead
  BY DEF SectionRead
<1>3. doc.sections \in Seq(SectionRead)
  BY <1>1, <1>2, OfItsElements
<1> QED
  BY <1>3, LenProperties

\* The first that is not known.
LEMMA FirstUnknownIs ==
  ASSUME NEW doc \in Scpd
  PROVE  \/ FirstUnknown(doc) = 0 /\ \A i \in 1..Len(doc.sections) : doc.sections[i].tag \in Known
         \/ /\ FirstUnknown(doc) \in 1..Len(doc.sections)
            /\ doc.sections[FirstUnknown(doc)].tag \notin Known
            /\ \A i \in 1..Len(doc.sections) :
                 i < FirstUnknown(doc) => doc.sections[i].tag \in Known
<1> DEFINE I == {i \in 1..Len(doc.sections) : doc.sections[i].tag \notin Known}
<1>0. Len(doc.sections) \in Nat
  BY DocumentTyped
<1>1. FirstUnknown(doc) = IF I # {} THEN Min(I) ELSE 0
  BY DEF FirstUnknown, SelectInSeq
<1>2. CASE I = {}
  BY <1>1, <1>2
<1>3. CASE I # {}
  <2>1. I \in SUBSET Nat
    BY <1>0
  <2>2. \E x \in I : \A y \in I : x <= y
    <3> HIDE DEF I
    <3> QED
      BY <1>3, <2>1, LeastNumber
  <2>3. Min(I) \in I /\ \A y \in I : Min(I) <= y
    BY <2>2 DEF Min
  <2> DEFINE u == Min(I)
  <2>4. FirstUnknown(doc) = u
    BY <1>1, <1>3
  <2>5. u \in I /\ \A y \in I : u <= y
    BY <2>3
  <2> HIDE DEF u
  <2>6. u \in 1..Len(doc.sections) /\ doc.sections[u].tag \notin Known
    BY <2>5
  <2>7. ASSUME NEW i \in 1..Len(doc.sections), i < u
        PROVE  doc.sections[i].tag \in Known
    <3>1. ~(u <= i)
      BY <1>0, <2>6, <2>7
    <3> QED
      BY <2>5, <3>1
  <2> QED
    BY <2>4, <2>6, <2>7
<1> QED
  BY <1>2, <1>3

\* Those before it are read.
LEMMA ReadUntil ==
  ASSUME NEW doc \in Scpd
  PROVE  /\ ReadCount(doc) \in 0..Len(doc.sections)
         /\ doc.root # "scpd" => ReadCount(doc) = 0
         /\ doc.root = "scpd" =>
              /\ \A i \in 1..ReadCount(doc) : doc.sections[i].tag \in Known
              /\ ReadCount(doc) < Len(doc.sections) =>
                   doc.sections[ReadCount(doc) + 1].tag \notin Known
<1> DEFINE n == Len(doc.sections)
           u == FirstUnknown(doc)
<1>0. n \in Nat
  BY DocumentTyped
<1>1. CASE doc.root # "scpd"
  BY <1>0, <1>1 DEF ReadCount
<1>2. CASE doc.root = "scpd"
  <2>1. \/ u = 0 /\ \A i \in 1..n : doc.sections[i].tag \in Known
        \/ /\ u \in 1..n /\ doc.sections[u].tag \notin Known
           /\ \A i \in 1..n : i < u => doc.sections[i].tag \in Known
    BY FirstUnknownIs
  <2>2. ReadCount(doc) = IF u = 0 THEN n ELSE u - 1
    BY <1>2 DEF ReadCount
  <2> HIDE DEF n, u
  <2>3. CASE u = 0
    <3>1. ReadCount(doc) = n /\ ~(n < n) /\ n \in 0..n
      BY <1>0, <2>2, <2>3
    <3>2. \A i \in 1..n : doc.sections[i].tag \in Known
      BY <2>1, <2>3
    <3> QED
      BY <1>2, <3>1, <3>2 DEF n
  <2>4. CASE u # 0
    <3>1. u \in 1..n /\ ReadCount(doc) = u - 1
      BY <2>1, <2>2, <2>4
    <3>2. u - 1 \in 0..n /\ u - 1 + 1 = u /\ \A i \in 1 .. u - 1 : i \in 1..n /\ i < u
      BY <1>0, <3>1
    <3>3. \A i \in 1 .. u - 1 : doc.sections[i].tag \in Known
      BY <2>1, <2>4, <3>2
    <3>4. doc.sections[u - 1 + 1].tag \notin Known
      BY <2>1, <2>4, <3>2
    <3> QED
      BY <1>2, <3>1, <3>2, <3>3, <3>4 DEF n
  <2> QED
    BY <2>3, <2>4
<1> QED
  BY <1>1, <1>2

\* The reference has the elements in them.
LEMMA ContentsAre ==
  ASSUME NEW doc \in Scpd, NEW tag
  PROVE  Contents(doc, tag) = Elements(doc, tag, ReadCount(doc))
<1> DEFINE n == Len(doc.sections)
           m == ReadCount(doc)
           u == FirstUnknown(doc)
           read == IF doc.root # "scpd" THEN <<>>
                   ELSE IF u = 0 THEN doc.sections ELSE SubSeq(doc.sections, 1, u - 1)
<1>1. /\ doc.sections \in Seq(SectionRead) /\ n \in Nat /\ DOMAIN doc.sections = 1..n
      /\ \A i \in 1..n : doc.sections[i] \in SectionRead
  BY DocumentTyped
<1>2. m \in 0..n
  BY ReadUntil
<1>3. u = 0 \/ u \in 1..n
  BY FirstUnknownIs
<1>4. Contents(doc, tag) =
        FlattenSeq([i \in DOMAIN read |->
                      IF read[i].tag = tag THEN read[i].contents ELSE <<>>])
  BY DEF Contents, FirstUnknown
<1>5. m = IF doc.root # "scpd" THEN 0 ELSE IF u = 0 THEN n ELSE u - 1
  BY DEF ReadCount
<1>6. DOMAIN read = 1..m /\ \A i \in 1..m : read[i] = doc.sections[i]
  <2> HIDE DEF m, n, u
  <2>1. CASE doc.root # "scpd"
    <3>1. DOMAIN read = 1..0 /\ m = 0
      BY <1>5, <2>1
    <3> QED
      BY <3>1
  <2>2. CASE doc.root = "scpd" /\ u = 0
    BY <1>1, <1>5, <2>2
  <2>3. CASE doc.root = "scpd" /\ u # 0
    <3>1. m = u - 1 /\ m \in Nat /\ m \in Int /\ 1 \in Int /\ m - 1 + 1 = m
      BY <1>1, <1>3, <1>5, <2>3
    <3>2. \A i \in 1..m : i \in 1..n /\ 1 + i - 1 = i
      BY <1>1, <1>2
    <3>3. \A i \in 1..m : doc.sections[i] \in SectionRead
      BY <1>1, <3>2
    <3>4. /\ SubSeq(doc.sections, 1, m) \in Seq(SectionRead)
          /\ Len(SubSeq(doc.sections, 1, m)) = IF 1 <= m THEN m - 1 + 1 ELSE 0
          /\ \A i \in 1 .. m - 1 + 1 : SubSeq(doc.sections, 1, m)[i] = doc.sections[1 + i - 1]
      BY <3>1, <3>3, SubSeqProperties
    <3>5. (IF 1 <= m THEN m - 1 + 1 ELSE 0) = m
      BY <3>1
    <3>6. read = SubSeq(doc.sections, 1, m)
      BY <2>3, <3>1
    <3> HIDE DEF read
    <3>7. DOMAIN read = 1..m
      BY <3>4, <3>5, <3>6, LenProperties
    <3>8. ASSUME NEW i \in 1..m
          PROVE  read[i] = doc.sections[i]
      <4>1. read[i] = doc.sections[1 + i - 1]
        BY <3>1, <3>4, <3>6
      <4>2. 1 + i - 1 = i
        BY <3>2
      <4> QED
        BY <4>1, <4>2
    <3> QED
      BY <3>7, <3>8
  <2> QED
    BY <2>1, <2>2, <2>3
<1> HIDE DEF read, m
<1>7. [i \in DOMAIN read |-> IF read[i].tag = tag THEN read[i].contents ELSE <<>>]
        = [i \in 1..m |-> IF doc.sections[i].tag = tag THEN doc.sections[i].contents ELSE <<>>]
  BY <1>6
<1> QED
  BY <1>4, <1>7 DEF Elements, m

\* The elements of one section more.
LEMMA ElementsMore ==
  ASSUME NEW doc \in Scpd, NEW tag \in {"actionList", "serviceStateTable"},
         NEW k \in 0 .. Len(doc.sections) - 1
  PROVE  /\ Elements(doc, tag, k) \in Seq(InSections(tag))
         /\ Elements(doc, tag, k + 1) =
              IF doc.sections[k + 1].tag = tag
              THEN Elements(doc, tag, k) \o doc.sections[k + 1].contents ELSE Elements(doc, tag, k)
<1> DEFINE n == Len(doc.sections)
           A == InSections(tag)
           Of(x) == IF x.tag = tag THEN x.contents ELSE <<>>
           ss == [i \in 1..k |-> Of(doc.sections[i])]
           tt == [i \in 1 .. k + 1 |-> Of(doc.sections[i])]
<1>0. n \in Nat /\ \A i \in 1..n : doc.sections[i] \in SectionRead
  BY DocumentTyped
<1>1. k \in Nat /\ k + 1 \in 1..n /\ (\A i \in 1..k : i \in 1..n)
      /\ \A i \in 1 .. k + 1 : i \in 1..n /\ (i = k + 1 \/ i \in 1..k)
  <2>1. n \in Nat /\ k \in 0 .. n - 1
    BY <1>0
  <2> HIDE DEF n
  <2> QED
    BY <2>1
<1>2. ASSUME NEW x \in SectionRead
      PROVE  Of(x) \in Seq(A)
  BY SectionContents, EmptySeq DEF ActionRead, VariableRead
<1> HIDE DEF n, A, Of
<1>3. Of(doc.sections[k + 1]) \in Seq(A)
  BY <1>0, <1>1, <1>2
<1>4. ss \in [1..k -> Seq(A)]
  BY <1>0, <1>1, <1>2
<1>5. tt \in [1 .. k + 1 -> Seq(A)]
  BY <1>0, <1>1, <1>2
<1>6. ss \in Seq(Seq(A)) /\ Len(ss) = k /\ tt \in Seq(Seq(A)) /\ Len(tt) = k + 1
  <2> HIDE DEF ss, tt
  <2>1. k \in Nat /\ k + 1 \in Nat
    BY <1>1
  <2> QED
    BY <1>4, <1>5, <2>1, IsSequence
<1> DEFINE x == Of(doc.sections[k + 1])
           more == Append(ss, x)
<1>7. /\ more \in Seq(Seq(A)) /\ Len(more) = k + 1
      /\ more[k + 1] = x /\ \A i \in 1..k : more[i] = ss[i]
  <2> HIDE DEF ss, x
  <2>1. x \in Seq(A)
    BY <1>3 DEF x
  <2> QED
    BY <1>6, <2>1, AppendProperties
<1>8. more = [i \in 1 .. k + 1 |-> more[i]]
  <2> HIDE DEF more
  <2>1. more \in [1 .. k + 1 -> Seq(A)]
    BY <1>7, LenProperties
  <2> QED
    BY <2>1
<1>9. ASSUME NEW i \in 1 .. k + 1
      PROVE  tt[i] = more[i]
  <2>1. tt[i] = Of(doc.sections[i])
    OBVIOUS
  <2>2. CASE i = k + 1
    <3> HIDE DEF tt, more
    <3> QED
      BY <1>7, <2>1, <2>2
  <2>3. CASE i \in 1..k
    <3>1. ss[i] = Of(doc.sections[i])
      BY <2>3
    <3> HIDE DEF tt, more, ss
    <3> QED
      BY <1>7, <2>1, <2>3, <3>1
  <2> QED
    BY <1>1, <2>2, <2>3
<1>10. tt = more
  <2>1. tt = [i \in 1 .. k + 1 |-> tt[i]]
    OBVIOUS
  <2> HIDE DEF tt, more
  <2> QED
    BY <1>8, <1>9, <2>1
<1>11. Elements(doc, tag, k) = FlattenSeq(ss) /\ Elements(doc, tag, k + 1) = FlattenSeq(tt)
  BY DEF Elements, Of
<1> HIDE DEF ss, tt
<1>12. FlattenSeq(tt) = FlattenSeq(ss) \o Of(doc.sections[k + 1]) /\ FlattenSeq(ss) \in Seq(A)
  BY <1>3, <1>6, <1>10, FlattenAppend, FlattenTyped
<1>13. FlattenSeq(ss) \o <<>> = FlattenSeq(ss)
  BY <1>12, ConcatEmptySeq
<1> QED
  BY <1>11, <1>12, <1>13 DEF Of, A

\* The actions of two lists.
LEMMA ReadAsConcat ==
  ASSUME NEW a \in Seq(ActionRead), NEW b \in Seq(ActionRead)
  PROVE  ReadAs(a \o b) = ReadAs(a) \o ReadAs(b)
<1> DEFINE m == Len(a)
           n == Len(b)
           ab == a \o b
           ra == ReadAs(a)
           rb == ReadAs(b)
           rab == ReadAs(ab)
           both == ra \o rb
           As(e) == ActionElement(NameRead(e), e.arguments)
<1>1. /\ m \in Nat /\ n \in Nat /\ DOMAIN a = 1..m /\ DOMAIN b = 1..n
      /\ ab \in Seq(ActionRead) /\ Len(ab) = m + n
      /\ \A i \in 1 .. m + n : ab[i] = IF i <= m THEN a[i] ELSE b[i - m]
  BY LenProperties, ConcatProperties
<1>2. ra \in Seq(ActionGiven) /\ Len(ra) = m /\ rb \in Seq(ActionGiven) /\ Len(rb) = n
  BY ReadAsTyped
<1>3. DOMAIN ab = 1 .. m + n
  BY <1>1, LenProperties
<1>4. /\ both \in Seq(ActionGiven) /\ Len(both) = m + n
      /\ \A i \in 1 .. m + n : both[i] = IF i <= m THEN ra[i] ELSE rb[i - m]
  <2> HIDE DEF ra, rb, m, n
  <2> QED
    BY <1>2, ConcatProperties
<1> HIDE DEF m, n, ab
<1>5. /\ \A i \in 1..m : ra[i] = As(a[i])
      /\ \A i \in 1..n : rb[i] = As(b[i])
      /\ \A i \in 1 .. m + n : rab[i] = As(ab[i])
      /\ rab = [i \in 1 .. m + n |-> rab[i]]
  BY <1>1, <1>3 DEF ReadAs
<1> HIDE DEF ra, rb, rab, As, both
<1>6. both = [i \in 1 .. m + n |-> both[i]]
  <2>1. both \in [1 .. m + n -> ActionGiven]
    BY <1>4, LenProperties
  <2> QED
    BY <2>1
<1>7. ASSUME NEW i \in 1 .. m + n
      PROVE  rab[i] = both[i]
  <2>0. m \in Nat /\ n \in Nat
    BY <1>1
  <2>1. CASE i <= m
    <3>1. i \in 1..m
      BY <2>0, <2>1
    <3> QED
      BY <1>1, <1>4, <1>5, <2>1, <3>1
  <2>2. CASE ~(i <= m)
    <3>1. i - m \in 1..n
      BY <2>0, <2>2
    <3> QED
      BY <1>1, <1>4, <1>5, <2>2, <3>1
  <2> QED
    BY <2>1, <2>2
<1>8. rab = both
  BY <1>5, <1>6, <1>7
<1> QED
  BY <1>8 DEF rab, both, ra, rb, ab

\* How far a document was read.
UpTo(doc, k) == IF k <= ReadCount(doc) THEN k ELSE ReadCount(doc)

\* Reading ends where the reference does.
LEMMA ReadStops ==
  ASSUME NEW doc \in Scpd, NEW k \in 0 .. Len(doc.sections) - 1
  PROVE  LET stopped == doc.root # "scpd" \/ k > ReadCount(doc)
             unknown == doc.sections[k + 1].tag \notin Known
         IN /\ (stopped \/ unknown) =>
                 UpTo(doc, k + 1) = UpTo(doc, k) /\ (doc.root # "scpd" \/ k + 1 > ReadCount(doc))
            /\ ~(stopped \/ unknown) =>
                 /\ UpTo(doc, k) = k /\ UpTo(doc, k + 1) = k + 1
                 /\ ~(doc.root # "scpd" \/ k + 1 > ReadCount(doc))
<1> DEFINE n == Len(doc.sections)
           m == ReadCount(doc)
<1>1. n \in Nat /\ m \in 0..n /\ (doc.root # "scpd" => m = 0)
  BY DocumentTyped, ReadUntil
<1>2. doc.root = "scpd" =>
        /\ \A i \in 1..m : doc.sections[i].tag \in Known
        /\ m < n => doc.sections[m + 1].tag \notin Known
  BY ReadUntil
<1>3. /\ UpTo(doc, k) = IF k <= m THEN k ELSE m
      /\ UpTo(doc, k + 1) = IF k + 1 <= m THEN k + 1 ELSE m
  BY DEF UpTo
<1>4. k \in 0 .. n - 1
  OBVIOUS
<1> HIDE DEF n, m
<1>5. n \in Nat /\ m \in Nat /\ k \in Nat /\ m <= n /\ k < n
  BY <1>1, <1>4
<1>6. CASE doc.root # "scpd" \/ k > m
  <2>1. doc.root # "scpd" => m = 0
    BY <1>1
  <2>2. m = 0 \/ k > m
    BY <1>6, <2>1
  <2>3. (IF k + 1 <= m THEN k + 1 ELSE m) = (IF k <= m THEN k ELSE m)
    BY <1>5, <2>2
  <2>4. doc.root # "scpd" \/ k + 1 > m
    BY <1>5, <1>6
  <2> QED
    BY <1>3, <1>6, <2>3, <2>4 DEF m
<1>7. CASE ~(doc.root # "scpd" \/ k > m) /\ doc.sections[k + 1].tag \notin Known
  <2>1. k + 1 \notin 1..m
    BY <1>2, <1>7
  <2>2. k = m
    BY <1>5, <1>7, <2>1
  <2>3. k + 1 > m /\ (IF k + 1 <= m THEN k + 1 ELSE m) = (IF k <= m THEN k ELSE m)
    BY <1>5, <2>2
  <2> QED
    BY <1>3, <1>7, <2>3 DEF m
<1>8. CASE ~(doc.root # "scpd" \/ k > m) /\ doc.sections[k + 1].tag \in Known
  <2>1. k # m
    <3> SUFFICES ASSUME k = m PROVE FALSE
      OBVIOUS
    <3>1. m < n
      BY <1>5
    <3> QED
      BY <1>2, <1>8, <3>1
  <2>2. k + 1 <= m /\ k <= m /\ ~(k + 1 > m)
    BY <1>5, <1>8, <2>1
  <2> QED
    BY <1>3, <1>8, <2>2 DEF m
<1> QED
  BY <1>6, <1>7, <1>8 DEF m

\* Reading a document does what the reference says of it.
LEMMA DocumentRead ==
  ASSUME NEW doc \in Scpd, NEW list, NEW d, Match(list, d), NEW vars \in Seq(VariableGiven),
         NEW all,
         all = FoldLeft(ReadSection,
                        [actions |-> list, variables |-> vars, done |-> doc.root # "scpd"],
                        doc.sections)
  PROVE  /\ Match(all.actions, d \o ActionsIn(doc))
         /\ all.variables \in Seq(VariableGiven)
         /\ ToSet(all.variables) =
              ToSet(vars) \cup NamesOf(ToSet(Contents(doc, "serviceStateTable")))
<1> DEFINE n == Len(doc.sections)
           base == [actions |-> list, variables |-> vars, done |-> doc.root # "scpd"]
           Actions(k) == Elements(doc, "actionList", UpTo(doc, k))
           Variables(k) == Elements(doc, "serviceStateTable", UpTo(doc, k))
<1>1. /\ doc.sections \in Seq(SectionRead) /\ n \in Nat
      /\ \A i \in 1..n : doc.sections[i] \in SectionRead
  BY DocumentTyped
<1>2. list \in Seq(ActionGiven) /\ d \in Seq(ActionGiven)
  BY DEF Match
<1>3. base \in SectionState /\ base.actions = list /\ base.variables = vars
      /\ base.done = (doc.root # "scpd")
  BY <1>2 DEF SectionState
<1> HIDE DEF base
<1>4. PICK run \in [0..n -> SectionState] :
        /\ run[0] = base /\ run[n] = all
        /\ \A k \in 0 .. n - 1 : run[k + 1] = ReadSection(run[k], doc.sections[k + 1])
  BY <1>1, <1>3, SectionsLoop DEF base
<1>5. ReadCount(doc) \in 0..n /\ (doc.root # "scpd" => ReadCount(doc) = 0)
  BY ReadUntil
<1>6. ASSUME NEW tag
      PROVE  Elements(doc, tag, 0) = <<>>
  <2>1. [i \in 1..0 |-> IF doc.sections[i].tag = tag THEN doc.sections[i].contents ELSE <<>>]
          = <<>>
    OBVIOUS
  <2> QED
    BY <2>1 DEF Elements, FlattenSeq
<1> HIDE DEF n, Actions, Variables
<1> DEFINE T == {k \in 0..n :
                   /\ run[k].done = (doc.root # "scpd" \/ k > ReadCount(doc))
                   /\ Match(run[k].actions, d \o ReadAs(Actions(k)))
                   /\ ToSet(run[k].variables) = ToSet(vars) \cup NamesOf(ToSet(Variables(k)))}
<1>7. 0 \in T
  <2>1. UpTo(doc, 0) = 0 /\ ~(0 > ReadCount(doc)) /\ 0 \in 0..n
    <3>1. n \in Nat /\ ReadCount(doc) \in 0..n
      BY <1>1, <1>5
    <3> QED
      BY <3>1 DEF UpTo
  <2>2. Actions(0) = <<>> /\ Variables(0) = <<>>
    BY <1>6, <2>1 DEF Actions, Variables
  <2>3. ReadAs(<<>>) = <<>>
    BY DEF ReadAs
  <2>4. d \o <<>> = d
    BY <1>2, ConcatEmptySeq
  <2>5. NamesOf(ToSet(<<>>)) = {}
    BY DEF NamesOf, ToSet
  <2>6. run[0].done = (doc.root # "scpd" \/ 0 > ReadCount(doc))
    BY <1>3, <1>4, <2>1
  <2>7. Match(run[0].actions, d \o ReadAs(Actions(0)))
    BY <1>3, <1>4, <2>2, <2>3, <2>4
  <2>8. ToSet(run[0].variables) = ToSet(vars) \cup NamesOf(ToSet(Variables(0)))
    BY <1>3, <1>4, <2>2, <2>5
  <2> QED
    BY <2>1, <2>6, <2>7, <2>8
<1>8. ASSUME NEW k \in 0 .. n - 1, k \in T
      PROVE  k + 1 \in T
  <2> DEFINE x == doc.sections[k + 1]
             s == run[k]
             stopped == doc.root # "scpd" \/ k > ReadCount(doc)
             unknown == x.tag \notin Known
  <2>0. n \in Nat
    BY <1>1
  <2>1. k + 1 \in 1..n /\ k + 1 \in 0..n /\ k \in 0..n
    BY <2>0
  <2>2. x \in SectionRead /\ s \in SectionState /\ run[k + 1] = ReadSection(s, x)
    BY <1>1, <1>4, <2>1
  <2>3. /\ (stopped \/ unknown) =>
             UpTo(doc, k + 1) = UpTo(doc, k) /\ (doc.root # "scpd" \/ k + 1 > ReadCount(doc))
        /\ ~(stopped \/ unknown) =>
             /\ UpTo(doc, k) = k /\ UpTo(doc, k + 1) = k + 1
             /\ ~(doc.root # "scpd" \/ k + 1 > ReadCount(doc))
    BY ReadStops DEF n
  <2>4. /\ s.done = stopped /\ Match(s.actions, d \o ReadAs(Actions(k)))
        /\ ToSet(s.variables) = ToSet(vars) \cup NamesOf(ToSet(Variables(k)))
    BY <1>8
  <2> HIDE DEF stopped, unknown, x, s
  <2>5. CASE stopped \/ unknown
    <3>1. s.done \/ x.tag \notin Known
      BY <2>4, <2>5 DEF unknown
    <3>2. run[k + 1].done /\ run[k + 1].actions = s.actions /\ run[k + 1].variables = s.variables
          /\ run[k + 1] \in SectionState
      BY <2>2, <3>1, SectionReads
    <3>3. Actions(k + 1) = Actions(k) /\ Variables(k + 1) = Variables(k)
      BY <2>3, <2>5 DEF Actions, Variables
    <3>4. run[k + 1].done = (doc.root # "scpd" \/ k + 1 > ReadCount(doc))
      <4>1. run[k + 1].done \in BOOLEAN
        BY <3>2 DEF SectionState
      <4> QED
        BY <2>3, <2>5, <3>2, <4>1
    <3> QED
      BY <2>1, <2>4, <3>2, <3>3, <3>4
  <2>6. CASE ~(stopped \/ unknown)
    <3>1. ~(s.done \/ x.tag \notin Known)
      BY <2>4, <2>6 DEF unknown
    <3>2. /\ ~run[k + 1].done /\ run[k + 1] \in SectionState
          /\ run[k + 1].actions =
               IF x.tag = "actionList" THEN FoldLeft(ReadAction, s.actions, x.contents)
               ELSE s.actions
          /\ run[k + 1].variables =
               IF x.tag = "serviceStateTable" THEN FoldLeft(ReadVariable, s.variables, x.contents)
               ELSE s.variables
      BY <2>2, <3>1, SectionReads
    <3>3. /\ UpTo(doc, k) = k /\ UpTo(doc, k + 1) = k + 1
          /\ ~(doc.root # "scpd" \/ k + 1 > ReadCount(doc))
      BY <2>3, <2>6
    <3>4. run[k + 1].done = (doc.root # "scpd" \/ k + 1 > ReadCount(doc))
      <4>1. run[k + 1].done \in BOOLEAN
        BY <3>2 DEF SectionState
      <4> QED
        BY <3>2, <3>3, <4>1
    <3>5. /\ Actions(k) \in Seq(ActionRead)
          /\ Actions(k + 1) = IF x.tag = "actionList" THEN Actions(k) \o x.contents ELSE Actions(k)
      BY <3>3, ElementsMore DEF Actions, ActionRead, n, x
    <3>6. /\ Variables(k) \in Seq(VariableRead)
          /\ Variables(k + 1) =
               IF x.tag = "serviceStateTable" THEN Variables(k) \o x.contents ELSE Variables(k)
      BY <3>3, ElementsMore DEF Variables, VariableRead, n, x
    <3>7. Match(run[k + 1].actions, d \o ReadAs(Actions(k + 1)))
      <4>1. CASE x.tag # "actionList"
        BY <2>4, <3>2, <3>5, <4>1
      <4>2. CASE x.tag = "actionList"
        <5>1. x.contents \in Seq(ActionRead)
          BY <2>2, <4>2, SectionContents
        <5>2. Match(FoldLeft(ReadAction, s.actions, x.contents),
                    (d \o ReadAs(Actions(k))) \o ReadAs(x.contents))
          BY <2>4, <5>1, ActionsMatch
        <5> DEFINE a == ReadAs(Actions(k))
                   b == ReadAs(x.contents)
        <5>3. a \in Seq(ActionGiven) /\ b \in Seq(ActionGiven)
          BY <3>5, <5>1, ReadAsTyped
        <5>4. ReadAs(Actions(k) \o x.contents) = a \o b
          BY <3>5, <5>1, ReadAsConcat
        <5> HIDE DEF a, b
        <5>5. (d \o a) \o b = d \o (a \o b)
          BY <1>2, <5>3, ConcatAssociative
        <5>6. Match(FoldLeft(ReadAction, s.actions, x.contents), (d \o a) \o b)
          BY <5>2 DEF a, b
        <5> QED
          BY <3>2, <3>5, <4>2, <5>4, <5>5, <5>6
      <4> QED
        BY <4>1, <4>2
    <3>8. ToSet(run[k + 1].variables) = ToSet(vars) \cup NamesOf(ToSet(Variables(k + 1)))
      <4>1. CASE x.tag # "serviceStateTable"
        BY <2>4, <3>2, <3>6, <4>1
      <4>2. CASE x.tag = "serviceStateTable"
        <5>1. x.contents \in Seq(VariableRead) /\ s.variables \in Seq(VariableGiven)
          BY <2>2, <4>2, SectionContents DEF SectionState
        <5>2. ToSet(FoldLeft(ReadVariable, s.variables, x.contents))
                = ToSet(s.variables) \cup NamesOf(ToSet(x.contents))
          BY <5>1, VariablesMatch
        <5>3. ToSet(Variables(k) \o x.contents) = ToSet(Variables(k)) \cup ToSet(x.contents)
          BY <3>6, <5>1, ToSetConcat
        <5>4. NamesOf(ToSet(Variables(k)) \cup ToSet(x.contents))
                = NamesOf(ToSet(Variables(k))) \cup NamesOf(ToSet(x.contents))
          BY DEF NamesOf
        <5> QED
          BY <2>4, <3>2, <3>6, <4>2, <5>2, <5>3, <5>4
      <4> QED
        BY <4>1, <4>2
    <3> QED
      BY <2>1, <3>4, <3>7, <3>8
  <2> QED
    BY <2>5, <2>6
<1>9. n \in T
  <2>1. T \in SUBSET Nat /\ n \in 0..n
    BY <1>1
  <2> HIDE DEF T
  <2>2. 0..n \subseteq T
    BY <1>1, <1>7, <1>8, <2>1, Induction
  <2> QED
    BY <2>1, <2>2
<1>10. UpTo(doc, n) = ReadCount(doc)
  <2>1. n \in Nat /\ ReadCount(doc) \in 0..n
    BY <1>1, <1>5
  <2> QED
    BY <2>1 DEF UpTo
<1>11. /\ Actions(n) = Contents(doc, "actionList")
       /\ Variables(n) = Contents(doc, "serviceStateTable")
  BY <1>10, ContentsAre DEF Actions, Variables
<1>12. ReadAs(Contents(doc, "actionList")) = ActionsIn(doc)
  BY DEF ReadAs, ActionsIn
<1>13. Match(all.actions, d \o ActionsIn(doc))
  BY <1>4, <1>9, <1>11, <1>12
<1>14. ToSet(all.variables) = ToSet(vars) \cup NamesOf(ToSet(Contents(doc, "serviceStateTable")))
  BY <1>4, <1>9, <1>11
<1>15. all.variables \in Seq(VariableGiven)
  <2>1. all \in SectionState
    <3>1. n \in 0..n
      BY <1>1
    <3> QED
      BY <1>4, <3>1
  <2> QED
    BY <2>1 DEF SectionState
<1> QED
  BY <1>13, <1>14, <1>15

-----------------------------------------------------------------------------
(* The service *)

TableElements(t) == UNION {Range(Contents(t[i], "serviceStateTable")) : i \in DOMAIN t}

\* The inductive invariant: the actions are those that were described or added, and the
\* variables those of the documents that were read.
ScpdInv ==
  /\ Match(actionList, described)
  /\ stateVariableList \in Seq(VariableGiven) /\ tables \in Seq(Scpd)
  /\ ToSet(stateVariableList) = NamesOf(TableElements(tables))

\* A service is made with nothing.
LEMMA ScpdStarts == ScpdInit => ScpdInv
<1> SUFFICES ASSUME ScpdInit PROVE ScpdInv
  OBVIOUS
<1>1. actionList = <<>> /\ described = <<>> /\ stateVariableList = <<>> /\ tables = <<>>
  BY DEF ScpdInit
<1>2. Match(<<>>, <<>>)
  <2>1. \A name : Given(<<>>, name) = <<>>
    BY DEF Given, FlattenSeq
  <2>2. <<>> \in Seq(ActionGiven)
    BY EmptySeq
  <2> QED
    BY <2>1, <2>2 DEF Match
<1>3. NamesOf(TableElements(<<>>)) = {} /\ ToSet(<<>>) = {}
  BY DEF NamesOf, TableElements, ToSet
<1>4. <<>> \in Seq(VariableGiven) /\ <<>> \in Seq(Scpd)
  BY EmptySeq
<1> QED
  BY <1>1, <1>2, <1>3, <1>4 DEF ScpdInv

\* The application adds an action.
LEMMA ActionAdded ==
  ASSUME ScpdInv, NEW name \in ActionName, AddActionNamed(name)
  PROVE  ScpdInv'
<1> DEFINE a == ActionElement(name, <<>>)
<1>1. Match(actionList, described)
  BY DEF ScpdInv
<1>2. a \in ActionGiven /\ a.name = name /\ a.arguments = <<>>
  BY EmptySeq DEF ActionElement, ActionGiven, NameGiven
<1>3. actionList' = Added(actionList, a) /\ described' = Append(described, a)
      /\ UNCHANGED <<stateVariableList, tables>>
  BY DEF AddActionNamed
<1> HIDE DEF a
<1>4. CASE \E i \in DOMAIN actionList : actionList[i].name = name
  <2>1. PICK i \in DOMAIN actionList : actionList[i].name = name
    BY <1>4
  <2>2. actionList' = actionList
    BY <1>2, <1>3, <1>4 DEF Added
  <2>3. actionList \in Seq(ActionGiven)
    BY <1>1 DEF Match
  <2>4. actionList[i].arguments \in Seq(ArgumentGiven)
    <3>1. actionList[i] \in ActionGiven
      BY <2>1, <2>3
    <3> QED
      BY <3>1 DEF ActionGiven
  <2>5. actionList[i].arguments = actionList[i].arguments \o a.arguments
    BY <1>2, <2>4, ConcatEmptySeq
  <2>6. actionList[i].name = a.name
    BY <1>2, <2>1
  <2>7. Match(actionList, Append(described, a))
    BY <1>1, <1>2, <2>3, <2>5, <2>6, MatchGrows
  <2> QED
    BY <1>3, <2>2, <2>7 DEF ScpdInv
<1>5. CASE \A i \in DOMAIN actionList : actionList[i].name # name
  <2>1. actionList' = Append(actionList, a)
    BY <1>2, <1>3, <1>5 DEF Added
  <2>2. Match(Append(actionList, a), Append(described, a))
    BY <1>1, <1>2, <1>5, MatchAdds
  <2> QED
    BY <1>3, <2>1, <2>2 DEF ScpdInv
<1> QED
  BY <1>4, <1>5

\* It adds an argument to one.
LEMMA ArgumentIsAdded ==
  ASSUME ScpdInv, NEW name \in ActionName, NEW argument \in ArgumentAdded,
         AddArgument(name, argument)
  PROVE  ScpdInv'
<1> DEFINE a == ActionElement(name, <<argument>>)
           at == GetAction(actionList, name)
           new == [actionList[at] EXCEPT !.arguments = Append(actionList[at].arguments, argument)]
<1>1. Match(actionList, described) /\ actionList \in Seq(ActionGiven)
  BY DEF ScpdInv, Match
<1>2. argument \in ArgumentGiven /\ <<argument>> \in Seq(ArgumentGiven)
  BY DEF ArgumentGiven
<1>3. a \in ActionGiven /\ a.name = name /\ a.arguments = <<argument>>
  BY <1>2 DEF ActionElement, ActionGiven, NameGiven
<1>4. at # 0 /\ actionList' = [actionList EXCEPT ![at] = new] /\ described' = Append(described, a)
      /\ UNCHANGED <<stateVariableList, tables>>
  BY DEF AddArgument
<1>5. at \in DOMAIN actionList /\ actionList[at].name = name /\ actionList[at] \in ActionGiven
  <2>1. \/ at \in DOMAIN actionList /\ at # 0 /\ actionList[at].name = name
        \/ at = 0
    BY <1>1, ActionFound
  <2> QED
    BY <1>1, <1>4, <2>1
<1> HIDE DEF a, at
<1>6. actionList[at].arguments \in Seq(ArgumentGiven)
  BY <1>5 DEF ActionGiven
<1>7. /\ Append(actionList[at].arguments, argument) = actionList[at].arguments \o <<argument>>
      /\ Append(actionList[at].arguments, argument) \in Seq(ArgumentGiven)
  BY <1>2, <1>6, AppendIsConcat, AppendProperties
<1>8. /\ new \in ActionGiven /\ new.name = name
      /\ new.arguments = actionList[at].arguments \o <<argument>>
  BY <1>5, <1>7 DEF ActionGiven
<1> HIDE DEF new
<1>9. DOMAIN actionList' = DOMAIN actionList /\ actionList'[at] = new
      /\ \A i \in DOMAIN actionList \ {at} : actionList'[i] = actionList[i]
  BY <1>1, <1>4, <1>5
<1>10. actionList' \in Seq(ActionGiven)
  <2> HIDE DEF ActionGiven
  <2> QED
    BY <1>1, <1>4, <1>5, <1>8
<1>11. \A i \in DOMAIN actionList : actionList'[i].name = actionList[i].name
  BY <1>5, <1>8, <1>9
<1>12. actionList'[at].arguments = actionList[at].arguments \o a.arguments
  BY <1>3, <1>8, <1>9
<1>13. actionList[at].name = a.name
  BY <1>3, <1>5
<1>14. \A i \in DOMAIN actionList \ {at} : actionList'[i].arguments = actionList[i].arguments
  BY <1>9
<1>15. Match(actionList', Append(described, a))
  BY <1>1, <1>3, <1>5, <1>9, <1>10, <1>11, <1>12, <1>13, <1>14, MatchGrows
<1> QED
  BY <1>4, <1>15 DEF ScpdInv

\* A description is read.
LEMMA ServiceParsed ==
  ASSUME ScpdInv, NEW doc \in Scpd, ParseService(doc)
  PROVE  ScpdInv'
<1> DEFINE base == [actions |-> actionList, variables |-> stateVariableList,
                    done |-> doc.root # "scpd"]
           all == FoldLeft(ReadSection, base, doc.sections)
           read == Range(Contents(doc, "serviceStateTable"))
<1>1. /\ Match(actionList, described)
      /\ stateVariableList \in Seq(VariableGiven) /\ tables \in Seq(Scpd)
      /\ ToSet(stateVariableList) = NamesOf(TableElements(tables))
  BY DEF ScpdInv
<1>2. /\ actionList' = all.actions /\ stateVariableList' = all.variables
      /\ described' = described \o ActionsIn(doc) /\ tables' = Append(tables, doc)
  BY DEF ParseService
<1>3. /\ Match(all.actions, described \o ActionsIn(doc))
      /\ all.variables \in Seq(VariableGiven)
      /\ ToSet(all.variables) =
           ToSet(stateVariableList) \cup NamesOf(ToSet(Contents(doc, "serviceStateTable")))
  BY <1>1, DocumentRead
<1> HIDE DEF all, read
<1>4. Append(tables, doc) \in Seq(Scpd)
  BY <1>1, AppendProperties
<1>5. TableElements(Append(tables, doc)) = TableElements(tables) \cup read
  <2> DEFINE n == Len(tables)
             tt == Append(tables, doc)
  <2>1. /\ n \in Nat /\ DOMAIN tables = 1..n /\ Len(tt) = n + 1 /\ tt \in Seq(Scpd)
        /\ tt[n + 1] = doc /\ \A i \in 1..n : tt[i] = tables[i]
    BY <1>1, LenProperties, AppendProperties
  <2>2. DOMAIN tt = 1 .. n + 1
    BY <2>1, LenProperties
  <2> HIDE DEF n, tt
  <2>3. 1 .. n + 1 = (1..n) \cup {n + 1}
    <3>1. n \in Nat
      BY <2>1
    <3> QED
      BY <3>1
  <2> DEFINE R(x) == Range(Contents(x, "serviceStateTable"))
  <2>4. TableElements(tt) = UNION {R(tt[i]) : i \in 1 .. n + 1}
    BY <2>2 DEF TableElements
  <2>5. TableElements(tables) = UNION {R(tables[i]) : i \in 1..n}
    BY <2>1 DEF TableElements
  <2>6. read = R(doc)
    BY DEF read
  <2> HIDE DEF R
  <2>7. {R(tt[i]) : i \in 1 .. n + 1} = {R(tables[i]) : i \in 1..n} \cup {R(doc)}
    BY <2>1, <2>3
  <2>8. TableElements(tt) = TableElements(tables) \cup R(doc)
    BY <2>4, <2>5, <2>7
  <2> QED
    BY <2>6, <2>8 DEF tt
<1>6. read = ToSet(Contents(doc, "serviceStateTable"))
  BY DEF read, Range, ToSet
<1>7. NamesOf(TableElements(tables) \cup read) = NamesOf(TableElements(tables)) \cup NamesOf(read)
  BY DEF NamesOf
<1>8. ToSet(stateVariableList') = NamesOf(TableElements(tables'))
  BY <1>1, <1>2, <1>3, <1>5, <1>6, <1>7
<1> QED
  BY <1>2, <1>3, <1>4, <1>8 DEF ScpdInv

\* Every step keeps the invariant.
LEMMA ScpdStep == ScpdInv /\ [ScpdNext]_scpdVars => ScpdInv'
<1> SUFFICES ASSUME ScpdInv, [ScpdNext]_scpdVars PROVE ScpdInv'
  OBVIOUS
<1>1. CASE \E name \in ActionName : AddActionNamed(name)
  BY <1>1, ActionAdded
<1>2. CASE \E name \in ActionName, argument \in ArgumentAdded : AddArgument(name, argument)
  BY <1>2, ArgumentIsAdded
<1>3. CASE \E doc \in Scpd : ParseService(doc)
  BY <1>3, ServiceParsed
<1>4. CASE ClearActionList
  <2>1. Match(<<>>, <<>>)
    <3>1. \A name : Given(<<>>, name) = <<>>
      BY DEF Given, FlattenSeq
    <3>2. <<>> \in Seq(ActionGiven)
      BY EmptySeq
    <3> QED
      BY <3>1, <3>2 DEF Match
  <2> QED
    BY <1>4, <2>1 DEF ClearActionList, ScpdInv
<1>5. CASE ClearStateVariableList
  <2>1. NamesOf(TableElements(<<>>)) = {} /\ ToSet(<<>>) = {}
    BY DEF NamesOf, TableElements, ToSet
  <2>2. <<>> \in Seq(VariableGiven) /\ <<>> \in Seq(Scpd)
    BY EmptySeq
  <2>3. stateVariableList' = <<>> /\ tables' = <<>> /\ UNCHANGED <<actionList, described>>
    BY <1>5 DEF ClearStateVariableList
  <2> QED
    BY <2>1, <2>2, <2>3 DEF ScpdInv
<1>6. CASE UNCHANGED scpdVars
  BY <1>6 DEF ScpdInv, scpdVars
<1> QED
  BY <1>1, <1>2, <1>3, <1>4, <1>5, <1>6 DEF ScpdNext

\* The invariant is what is promised.
LEMMA AsDescribed == ScpdInv => ServiceAsDescribed
<1> SUFFICES ASSUME ScpdInv PROVE ServiceAsDescribed
  OBVIOUS
<1>1. Match(actionList, described)
  BY DEF ScpdInv
<1>2. \A name : ArgumentsGiven(name) = Given(described, name)
  BY DEF ArgumentsGiven, Given
<1>3. {stateVariableList[i] : i \in DOMAIN stateVariableList} = ToSet(stateVariableList)
  BY DEF ToSet
<1>4. {stateVariableList[i] : i \in DOMAIN stateVariableList} =
        {e.name : e \in {x \in UNION {Range(Contents(tables[i], "serviceStateTable")) :
                                        i \in DOMAIN tables} : x.range # "half"}}
  BY <1>3 DEF ScpdInv, NamesOf, TableElements
<1>5. /\ \A i, j \in DOMAIN actionList : actionList[i].name = actionList[j].name => i = j
      /\ {actionList[i].name : i \in DOMAIN actionList} =
           {described[i].name : i \in DOMAIN described}
      /\ \A i \in DOMAIN actionList : actionList[i].arguments = ArgumentsGiven(actionList[i].name)
  BY <1>1, <1>2 DEF Match
<1> QED
  BY <1>4, <1>5 DEF ServiceAsDescribed

\* A service has the actions, arguments and variables it was described with or given, once
\* each, whatever documents are read, in whatever order, and whatever is cleared or added
\* between (BrisaServiceXMLHandler, BrisaAbstractService::addAction, BrisaAction).
THEOREM ServiceDescribed == ScpdSpec => []ServiceAsDescribed
<1>1. ScpdSpec => []ScpdInv
  BY ScpdStarts, ScpdStep, PTL DEF ScpdSpec
<1> QED
  BY <1>1, AsDescribed, PTL

-----------------------------------------------------------------------------
(* SoapArray: the positions of coordinates *)

\* Products, which the solver decides with nothing else in sight.
LEMMA StepIsNatural == \A a, b, c \in Nat : a * b + c \in Nat
  OBVIOUS
LEMMA Distributes == \A a, b, c \in Int : (a + b) * c = a * c + b * c
  OBVIOUS
LEMMA Associates == \A a, b, c \in Int : (a * b) * c = a * (b * c)
  OBVIOUS
LEMMA Commutes == \A a, b, c \in Int : a * (b * c) = (a * c) * b
  OBVIOUS
LEMMA Grows == \A a, b, c \in Nat : a <= b => a * c <= b * c
  OBVIOUS
LEMMA PositiveProduct == \A a, b \in Nat \ {0} : a * b \in Nat \ {0}
  OBVIOUS
\* Quotient and remainder are the ones of the only such sum, and always make one.
LEMMA Divides ==
  \A q, r \in Nat, d \in Nat \ {0} : r < d => (q * d + r) \div d = q /\ (q * d + r) % d = r
  OBVIOUS
LEMMA Division ==
  \A p \in Nat, d \in Nat \ {0} :
    p \div d \in Nat /\ p % d \in 0 .. d - 1 /\ p = (p \div d) * d + (p % d)
  OBVIOUS

\* How the position of some coordinates is computed, one dimension after the other.
RunsToPosition(run, n, sizes, c) ==
  run[0] = 0 /\ \A k \in 0 .. n - 1 : run[k + 1] = run[k] * sizes[k + 1] + c[k + 1]

\* insert() and at() go through such a run.
LEMMA AbsoluteLoop ==
  ASSUME NEW n \in Nat, NEW sizes \in [1..n -> Nat], NEW c \in [1..n -> Nat]
  PROVE  \E run \in [0..n -> Nat] : RunsToPosition(run, n, sizes, c) /\ run[n] = Absolute(sizes, c)
<1> DEFINE V == Nat
           Turn(x, i) == x * sizes[i] + c[i]
           g == [p \in V \X (1..n) |-> Turn(p[1], p[2])]
           Loop(iter) == iter = [S \in SUBSET (1..n) |->
                                   IF S = {} THEN 0 ELSE Turn(iter[S \ {Max(S)}], Max(S))]
<1>0. DOMAIN c = 1..n
  OBVIOUS
<1>1. Absolute(sizes, c) = (CHOOSE iter : Loop(iter))[1..n]
  <2> DEFINE index == [i \in DOMAIN c |-> i]
             Raw(iter) == iter = [S \in SUBSET DOMAIN index |->
                                    IF S = {} THEN 0
                                    ELSE iter[S \ {Max(S)}] * sizes[index[Max(S)]] + c[index[Max(S)]]]
  <2>1. Absolute(sizes, c) = (CHOOSE iter : Raw(iter))[DOMAIN index]
    BY DEF Absolute, FoldLeft, MapThenFoldSet
  <2>2. DOMAIN index = 1..n /\ \A S \in SUBSET (1..n) : S # {} => index[Max(S)] = Max(S)
    <3>1. \A S \in SUBSET (1..n) : S # {} => Max(S) \in 1..n
      BY MaxExists
    <3> QED
      BY <1>0, <3>1
  <2> HIDE DEF index
  <2>3. ASSUME NEW iter
        PROVE  Raw(iter) <=> Loop(iter)
    <3> DEFINE Folded(S) == IF S = {} THEN 0 ELSE Turn(iter[S \ {Max(S)}], Max(S))
               RawValue(S) == IF S = {} THEN 0
                              ELSE iter[S \ {Max(S)}] * sizes[index[Max(S)]] + c[index[Max(S)]]
    <3>1. ASSUME NEW S \in SUBSET (1..n) PROVE Folded(S) = RawValue(S)
      <4>1. CASE S = {}
        BY <4>1
      <4>2. CASE S # {}
        <5>1. index[Max(S)] = Max(S)
          BY <2>2, <4>2
        <5> QED
          BY <4>2, <5>1
      <4> QED
        BY <4>1, <4>2
    <3>2. Raw(iter) <=> iter = [S \in SUBSET (1..n) |-> RawValue(S)]
      BY <2>2
    <3>3. Loop(iter) <=> iter = [S \in SUBSET (1..n) |-> Folded(S)]
      OBVIOUS
    <3> HIDE DEF Folded, RawValue, Raw, Loop
    <3>4. [S \in SUBSET (1..n) |-> Folded(S)] = [S \in SUBSET (1..n) |-> RawValue(S)]
      BY <3>1
    <3> QED
      BY <3>2, <3>3, <3>4
  <2> HIDE DEF Raw, Loop
  <2>4. (CHOOSE iter : Raw(iter)) = (CHOOSE iter : Loop(iter))
    BY <2>3
  <2> QED
    BY <2>1, <2>2, <2>4
<1>2. 0 \in V
  OBVIOUS
<1>3. ASSUME NEW x \in V, NEW i \in 1..n
      PROVE  Turn(x, i) \in V
  <2>1. sizes[i] \in Nat /\ c[i] \in Nat
    OBVIOUS
  <2>2. x * sizes[i] + c[i] \in Nat
    BY <2>1, StepIsNatural
  <2> QED
    BY <2>2
<1> HIDE DEF Turn
<1>4. g \in [V \X (1..n) -> V]
  BY <1>3
<1>5. PICK f \in [SUBSET (1..n) -> V] : FoldsUpTo(f, n, 0, g)
  <2> HIDE DEF g, V
  <2> QED
    BY <1>2, <1>4, FoldIsThere
<1> HIDE DEF V
<1>6. Loop(f)
  <2>1. ASSUME NEW S \in SUBSET (1..n)
        PROVE  f[S] = IF S = {} THEN 0 ELSE Turn(f[S \ {Max(S)}], Max(S))
    <3>1. CASE S = {}
      BY <1>5, <3>1 DEF FoldsUpTo
    <3>2. CASE S # {}
      <4>1. Max(S) \in 1..n
        BY <3>2, MaxExists
      <4>2. f[S \ {Max(S)}] \in V
        OBVIOUS
      <4>3. f[S] = g[<<f[S \ {Max(S)}], Max(S)>>]
        <5> HIDE DEF g
        <5> QED
          BY <1>5, <3>2 DEF FoldsUpTo
      <4> QED
        BY <3>2, <4>1, <4>2, <4>3
    <3> QED
      BY <3>1, <3>2
  <2> HIDE DEF g
  <2> QED
    BY <2>1
<1> DEFINE iter == CHOOSE iter : Loop(iter)
           run == [k \in 0..n |-> iter[1..k]]
<1>7. Loop(iter)
  <2> HIDE DEF Loop
  <2> QED
    BY <1>6
<1>8. iter = [S \in SUBSET (1..n) |->
                IF S = {} THEN 0 ELSE Turn(iter[S \ {Max(S)}], Max(S))]
  <2> HIDE DEF iter
  <2> QED
    BY <1>7
<1>9. Absolute(sizes, c) = iter[1..n]
  BY <1>1
<1> HIDE DEF iter, Loop
<1>10. run[0] = 0
  <2>1. 1..0 = {} /\ 1..0 \in SUBSET (1..n)
    OBVIOUS
  <2>2. iter[1..0] = 0
    BY <1>8, <2>1
  <2> QED
    BY <2>2
<1>11. ASSUME NEW k \in 0 .. n - 1
       PROVE  run[k + 1] = Turn(run[k], k + 1)
  <2>1. /\ 1 .. k + 1 # {} /\ Max(1 .. k + 1) = k + 1
        /\ (1 .. k + 1) \ {k + 1} = 1..k
    <3>1. k \in Nat
      OBVIOUS
    <3> QED
      BY <3>1, LastOfPrefix
  <2>2. 1 .. k + 1 \in SUBSET (1..n)
    OBVIOUS
  <2>3. iter[1 .. k + 1] = Turn(iter[1..k], k + 1)
    BY <1>8, <2>1, <2>2
  <2> QED
    BY <2>3
<1>12. run[n] = Absolute(sizes, c)
  BY <1>9
<1>13. DOMAIN run = 0..n /\ run = [k \in 0..n |-> run[k]]
  OBVIOUS
<1> HIDE DEF run
<1> DEFINE T == {k \in 0..n : run[k] \in V}
<1>14. 0 \in T
  BY <1>2, <1>10
<1>15. ASSUME NEW k \in 0 .. n - 1, k \in T
       PROVE  k + 1 \in T
  <2>1. run[k + 1] \in V
    <3>1. k + 1 \in 1..n /\ run[k] \in V
      BY <1>15
    <3> QED
      BY <1>3, <1>11, <3>1
  <2> QED
    BY <2>1
<1>16. 0..n \subseteq T
  <2>1. T \in SUBSET Nat
    OBVIOUS
  <2> HIDE DEF T
  <2> QED
    BY <1>14, <1>15, <2>1, Induction
<1>17. run \in [0..n -> V]
  BY <1>13, <1>16
<1> QED
  BY <1>10, <1>11, <1>12, <1>17 DEF Turn, V, RunsToPosition

\* A product is computed one factor after the other.
RunsToProduct(run, n, c) == run[0] = 1 /\ \A k \in 0 .. n - 1 : run[k + 1] = run[k] * c[k + 1]

\* The product comes out of such a run.
LEMMA ProductLoop ==
  ASSUME NEW n \in Nat, NEW c \in [1..n -> Nat \ {0}]
  PROVE  \E run \in [0..n -> Nat \ {0}] : RunsToProduct(run, n, c) /\ run[n] = Product(c)
<1> DEFINE V == Nat \ {0}
           Turn(x, i) == x * c[i]
           g == [p \in V \X (1..n) |-> Turn(p[1], p[2])]
           Loop(iter) == iter = [S \in SUBSET (1..n) |->
                                   IF S = {} THEN 1 ELSE Turn(iter[S \ {Max(S)}], Max(S))]
<1>0. DOMAIN c = 1..n
  OBVIOUS
<1>1. Product(c) = (CHOOSE iter : Loop(iter))[1..n]
  <2> DEFINE Raw(iter) == iter = [S \in SUBSET DOMAIN c |->
                                    IF S = {} THEN 1 ELSE iter[S \ {Max(S)}] * c[Max(S)]]
  <2>1. Product(c) = (CHOOSE iter : Raw(iter))[DOMAIN c]
    BY DEF Product, FoldLeft, MapThenFoldSet
  <2>2. DOMAIN c = 1..n
    OBVIOUS
  <2>3. \A iter : Raw(iter) <=> Loop(iter)
    BY <2>2
  <2> HIDE DEF Raw, Loop
  <2>4. (CHOOSE iter : Raw(iter)) = (CHOOSE iter : Loop(iter))
    BY <2>3
  <2> QED
    BY <2>1, <2>2, <2>4
<1>2. 1 \in V
  OBVIOUS
<1>3. ASSUME NEW x \in V, NEW i \in 1..n
      PROVE  Turn(x, i) \in V
  <2>1. c[i] \in Nat \ {0}
    OBVIOUS
  <2>2. x * c[i] \in Nat \ {0}
    BY <2>1, PositiveProduct
  <2> QED
    BY <2>2
<1> HIDE DEF Turn
<1>4. g \in [V \X (1..n) -> V]
  BY <1>3
<1>5. PICK f \in [SUBSET (1..n) -> V] : FoldsUpTo(f, n, 1, g)
  <2> HIDE DEF g, V
  <2> QED
    BY <1>2, <1>4, FoldIsThere
<1> HIDE DEF V
<1>6. Loop(f)
  <2>1. ASSUME NEW S \in SUBSET (1..n)
        PROVE  f[S] = IF S = {} THEN 1 ELSE Turn(f[S \ {Max(S)}], Max(S))
    <3>1. CASE S = {}
      BY <1>5, <3>1 DEF FoldsUpTo
    <3>2. CASE S # {}
      <4>1. Max(S) \in 1..n
        BY <3>2, MaxExists
      <4>2. f[S \ {Max(S)}] \in V
        OBVIOUS
      <4>3. f[S] = g[<<f[S \ {Max(S)}], Max(S)>>]
        <5> HIDE DEF g
        <5> QED
          BY <1>5, <3>2 DEF FoldsUpTo
      <4> QED
        BY <3>2, <4>1, <4>2, <4>3
    <3> QED
      BY <3>1, <3>2
  <2> HIDE DEF g
  <2> QED
    BY <2>1
<1> DEFINE iter == CHOOSE iter : Loop(iter)
           run == [k \in 0..n |-> iter[1..k]]
<1>7. Loop(iter)
  <2> HIDE DEF Loop
  <2> QED
    BY <1>6
<1>8. iter = [S \in SUBSET (1..n) |->
                IF S = {} THEN 1 ELSE Turn(iter[S \ {Max(S)}], Max(S))]
  <2> HIDE DEF iter
  <2> QED
    BY <1>7
<1>9. Product(c) = iter[1..n]
  BY <1>1
<1> HIDE DEF iter, Loop
<1>10. run[0] = 1
  <2>1. 1..0 = {} /\ 1..0 \in SUBSET (1..n)
    OBVIOUS
  <2>2. iter[1..0] = 1
    BY <1>8, <2>1
  <2> QED
    BY <2>2
<1>11. ASSUME NEW k \in 0 .. n - 1
       PROVE  run[k + 1] = Turn(run[k], k + 1)
  <2>1. /\ 1 .. k + 1 # {} /\ Max(1 .. k + 1) = k + 1
        /\ (1 .. k + 1) \ {k + 1} = 1..k
    <3>1. k \in Nat
      OBVIOUS
    <3> QED
      BY <3>1, LastOfPrefix
  <2>2. 1 .. k + 1 \in SUBSET (1..n)
    OBVIOUS
  <2>3. iter[1 .. k + 1] = Turn(iter[1..k], k + 1)
    BY <1>8, <2>1, <2>2
  <2> QED
    BY <2>3
<1>12. run[n] = Product(c)
  BY <1>9
<1>13. DOMAIN run = 0..n /\ run = [k \in 0..n |-> run[k]]
  OBVIOUS
<1> HIDE DEF run
<1> DEFINE T == {k \in 0..n : run[k] \in V}
<1>14. 0 \in T
  BY <1>2, <1>10
<1>15. ASSUME NEW k \in 0 .. n - 1, k \in T
       PROVE  k + 1 \in T
  <2>1. run[k + 1] \in V
    <3>1. k + 1 \in 1..n /\ run[k] \in V
      BY <1>15
    <3> QED
      BY <1>3, <1>11, <3>1
  <2> QED
    BY <2>1
<1>16. 0..n \subseteq T
  <2>1. T \in SUBSET Nat
    OBVIOUS
  <2> HIDE DEF T
  <2> QED
    BY <1>14, <1>15, <2>1, Induction
<1>17. run \in [0..n -> V]
  BY <1>13, <1>16
<1> QED
  BY <1>10, <1>11, <1>12, <1>17 DEF Turn, V, RunsToProduct

\* The coordinates of the first n dimensions.
Coordinates(n, sizes) == {c \in [1..n -> Nat] : \A k \in 1..n : c[k] < sizes[k]}

\* The coordinates in range are natural numbers below the sizes.
LEMMA ShapeCoordinates ==
  ASSUME NEW n \in Nat, NEW sizes \in [1..n -> Nat \ {0}]
  PROVE  InShape(sizes) = Coordinates(n, sizes)
<1>1. DOMAIN sizes = 1..n
  OBVIOUS
<1>2. ASSUME NEW c \in InShape(sizes)
      PROVE  c \in Coordinates(n, sizes)
  <2>1. /\ c \in [1..n -> UNION {(0 .. sizes[k]) \ {sizes[k]} : k \in 1..n}]
        /\ \A k \in 1..n : c[k] < sizes[k]
    BY <1>1 DEF InShape
  <2>2. UNION {(0 .. sizes[k]) \ {sizes[k]} : k \in 1..n} \subseteq Nat
    OBVIOUS
  <2>3. c \in [1..n -> Nat]
    BY <2>1, <2>2
  <2> QED
    BY <2>1, <2>3 DEF Coordinates
<1>3. ASSUME NEW c \in Coordinates(n, sizes)
      PROVE  c \in InShape(sizes)
  <2>1. c \in [1..n -> Nat] /\ \A k \in 1..n : c[k] < sizes[k]
    BY DEF Coordinates
  <2>2. \A k \in 1..n : c[k] \in (0 .. sizes[k]) \ {sizes[k]}
    BY <2>1
  <2>3. \A k \in 1..n : c[k] \in UNION {(0 .. sizes[j]) \ {sizes[j]} : j \in 1..n}
    BY <2>2
  <2>4. c \in [1..n -> UNION {(0 .. sizes[k]) \ {sizes[k]} : k \in 1..n}]
    BY <2>1, <2>3
  <2> QED
    BY <1>1, <2>1, <2>4 DEF InShape
<1> QED
  BY <1>2, <1>3

\* There is one run of a computation.
LEMMA OneRun ==
  ASSUME NEW n \in Nat, NEW sizes, NEW c,
         NEW f \in [0..n -> Nat], RunsToPosition(f, n, sizes, c),
         NEW g \in [0..n -> Nat], RunsToPosition(g, n, sizes, c)
  PROVE  f[n] = g[n]
<1> DEFINE T == {k \in 0..n : f[k] = g[k]}
<1>1. 0 \in T
  BY DEF RunsToPosition
<1>2. ASSUME NEW k \in 0 .. n - 1, k \in T
      PROVE  k + 1 \in T
  <2>1. f[k + 1] = f[k] * sizes[k + 1] + c[k + 1] /\ g[k + 1] = g[k] * sizes[k + 1] + c[k + 1]
    BY DEF RunsToPosition
  <2> QED
    BY <1>2, <2>1
<1>3. T \in SUBSET Nat
  OBVIOUS
<1> HIDE DEF T
<1>4. 0..n \subseteq T
  BY <1>1, <1>2, <1>3, Induction
<1> QED
  BY <1>4 DEF T

\* Of smaller positions of the dimensions before, and coordinates in range, come smaller
\* positions.
LEMMA StepBelow ==
  ASSUME NEW a \in Nat, NEW b \in Nat, NEW size \in Nat \ {0}, NEW x \in Nat, NEW y \in Nat,
         a < b, x < size
  PROVE  a * size + x < b * size + y
<1>1. a + 1 <= b /\ a + 1 \in Nat
  OBVIOUS
<1>2. (a + 1) * size <= b * size
  BY <1>1, Grows
<1>3. (a + 1) * size = a * size + size
  <2>1. (a + 1) * size = a * size + 1 * size
    BY Distributes
  <2> QED
    BY <2>1
<1>4. a * size \in Nat /\ b * size \in Nat
  <2>1. a * size + 0 \in Nat /\ b * size + 0 \in Nat
    BY StepIsNatural
  <2>2. a * size \in Int /\ b * size \in Int
    OBVIOUS
  <2> QED
    BY <2>1, <2>2
<1> DEFINE p == a * size
           q == b * size
           r == (a + 1) * size
<1>5. p \in Nat /\ q \in Nat /\ r = p + size /\ r <= q
  BY <1>2, <1>3, <1>4
<1> HIDE DEF p, q, r
<1>6. p + x < q + y
  BY <1>5
<1> QED
  BY <1>6 DEF p, q

\* A position is within as many places as the sizes make.
LEMMA PositionBelow ==
  ASSUME NEW n \in Nat, NEW sizes \in [1..n -> Nat \ {0}], NEW c \in Coordinates(n, sizes),
         NEW run \in [0..n -> Nat], RunsToPosition(run, n, sizes, c),
         NEW places \in [0..n -> Nat \ {0}], RunsToProduct(places, n, sizes)
  PROVE  run[n] < places[n]
<1> DEFINE T == {k \in 0..n : run[k] < places[k]}
<1>1. 0 \in T
  BY DEF RunsToPosition, RunsToProduct
<1>2. ASSUME NEW k \in 0 .. n - 1, k \in T
      PROVE  k + 1 \in T
  <2>1. run[k + 1] = run[k] * sizes[k + 1] + c[k + 1] /\ places[k + 1] = places[k] * sizes[k + 1]
    BY DEF RunsToPosition, RunsToProduct
  <2>2. /\ k + 1 \in 1..n /\ run[k] \in Nat /\ places[k] \in Nat /\ sizes[k + 1] \in Nat \ {0}
        /\ c[k + 1] \in Nat /\ c[k + 1] < sizes[k + 1] /\ run[k] < places[k]
    BY <1>2 DEF Coordinates
  <2>3. run[k] * sizes[k + 1] + c[k + 1] < places[k] * sizes[k + 1] + 0
    BY <2>2, StepBelow
  <2>4. places[k + 1] \in Nat
    OBVIOUS
  <2>5. run[k + 1] < places[k + 1] + 0
    BY <2>1, <2>3
  <2>6. run[k + 1] < places[k + 1]
    BY <2>4, <2>5
  <2> QED
    BY <2>6
<1>3. T \in SUBSET Nat
  OBVIOUS
<1> HIDE DEF T
<1>4. 0..n \subseteq T
  BY <1>1, <1>2, <1>3, Induction
<1>5. n \in T
  BY <1>4
<1> QED
  BY <1>5 DEF T

\* Coordinates that come before others have a smaller position.
LEMMA BeforeIsBelow ==
  ASSUME NEW n \in Nat, NEW sizes \in [1..n -> Nat \ {0}],
         NEW c \in Coordinates(n, sizes), NEW d \in Coordinates(n, sizes), Before(c, d),
         NEW f \in [0..n -> Nat], RunsToPosition(f, n, sizes, c),
         NEW g \in [0..n -> Nat], RunsToPosition(g, n, sizes, d)
  PROVE  f[n] < g[n]
<1>1. DOMAIN c = 1..n
  BY DEF Coordinates
<1>2. PICK m \in 1..n : c[m] < d[m] /\ \A j \in 1 .. m - 1 : c[j] = d[j]
  BY <1>1 DEF Before
<1>3. ASSUME NEW k \in 0 .. n - 1
      PROVE  /\ f[k + 1] = f[k] * sizes[k + 1] + c[k + 1] /\ g[k + 1] = g[k] * sizes[k + 1] + d[k + 1]
             /\ f[k] \in Nat /\ g[k] \in Nat /\ c[k + 1] \in Nat /\ d[k + 1] \in Nat
             /\ sizes[k + 1] \in Nat \ {0} /\ c[k + 1] < sizes[k + 1]
  BY DEF RunsToPosition, Coordinates
<1> DEFINE T == {k \in 0..n : (k < m => f[k] = g[k]) /\ (k >= m => f[k] < g[k])}
<1>4. 0 \in T
  BY DEF RunsToPosition
<1>5. ASSUME NEW k \in 0 .. n - 1, k \in T
      PROVE  k + 1 \in T
  <2>1. CASE k + 1 < m
    <3>1. k < m /\ k + 1 \in 1 .. m - 1
      BY <2>1
    <3>2. f[k] = g[k] /\ c[k + 1] = d[k + 1]
      BY <1>2, <1>5, <3>1
    <3>3. f[k + 1] = g[k + 1]
      BY <1>3, <3>2
    <3> QED
      BY <2>1, <3>3
  <2>2. CASE k + 1 = m
    <3>1. f[k] = g[k] /\ c[k + 1] < d[k + 1]
      <4>1. k < m
        BY <2>2
      <4>2. f[k] = g[k]
        BY <1>5, <4>1
      <4>3. c[m] < d[m]
        BY <1>2
      <4> QED
        BY <2>2, <4>2, <4>3
    <3>2. f[k] * sizes[k + 1] \in Int
      BY <1>3
    <3> DEFINE p == f[k] * sizes[k + 1]
    <3>3. p \in Int /\ f[k + 1] = p + c[k + 1] /\ g[k + 1] = p + d[k + 1]
      BY <1>3, <3>1, <3>2
    <3> HIDE DEF p
    <3>4. f[k + 1] < g[k + 1]
      BY <1>3, <3>1, <3>3
    <3> QED
      BY <2>2, <3>4
  <2>3. CASE k + 1 > m
    <3>1. f[k] < g[k]
      BY <1>5, <2>3
    <3>2. f[k] * sizes[k + 1] + c[k + 1] < g[k] * sizes[k + 1] + d[k + 1]
      BY <1>3, <3>1, StepBelow
    <3>3. f[k + 1] < g[k + 1]
      BY <1>3, <3>2
    <3> QED
      BY <2>3, <3>3
  <2> QED
    BY <2>1, <2>2, <2>3
<1>6. T \in SUBSET Nat
  OBVIOUS
<1>7. 0..n \subseteq T
  <2> HIDE DEF T
  <2> QED
    BY <1>4, <1>5, <1>6, Induction
<1>8. n \in T /\ n >= m
  BY <1>7
<1> QED
  BY <1>8

\* Of two coordinates one comes before the other.
LEMMA OneIsBefore ==
  ASSUME NEW n \in Nat, NEW c \in [1..n -> Nat], NEW d \in [1..n -> Nat], c # d
  PROVE  Before(c, d) \/ Before(d, c)
<1> DEFINE Differ == {k \in 1..n : c[k] # d[k]}
<1>1. Differ # {}
  OBVIOUS
<1>2. Differ \in SUBSET Nat
  OBVIOUS
<1> HIDE DEF Differ
<1>3. PICK k \in Differ : \A j \in Differ : k <= j
  BY <1>1, <1>2, LeastNumber
<1>4. k \in 1..n /\ c[k] # d[k] /\ c[k] \in Nat /\ d[k] \in Nat
  BY DEF Differ
<1>5. ASSUME NEW j \in 1 .. k - 1
      PROVE  c[j] = d[j]
  <2>1. j \in 1..n /\ ~(k <= j)
    BY <1>4
  <2> QED
    BY <1>3, <2>1 DEF Differ
<1>6. DOMAIN c = 1..n /\ DOMAIN d = 1..n
  OBVIOUS
<1>7. CASE c[k] < d[k]
  BY <1>4, <1>5, <1>6, <1>7 DEF Before
<1>8. CASE d[k] < c[k]
  BY <1>4, <1>5, <1>6, <1>8 DEF Before
<1> QED
  BY <1>4, <1>7, <1>8

\* Each place has coordinates.
LEMMA PlaceOfSome ==
  ASSUME NEW n \in Nat, NEW sizes \in [1..n -> Nat \ {0}],
         NEW places \in [0..n -> Nat \ {0}], RunsToProduct(places, n, sizes)
  PROVE  \A p \in 0 .. places[n] - 1 :
           \E c \in Coordinates(n, sizes) : \E f \in [0..n -> Nat] :
             RunsToPosition(f, n, sizes, c) /\ f[n] = p
<1>0. \A k \in 0 .. n - 1 : k \in Nat /\ k + 1 \in 1..n /\ k \in 0..n /\ k + 1 \in 0..n
  OBVIOUS
<1> DEFINE Reached(k, p) ==
             \E c \in Coordinates(k, sizes) : \E f \in [0..k -> Nat] :
               RunsToPosition(f, k, sizes, c) /\ f[k] = p
           T == {k \in 0..n : \A p \in 0 .. places[k] - 1 : Reached(k, p)}
<1>1. 0 \in T
  <2> SUFFICES ASSUME NEW p \in 0 .. places[0] - 1 PROVE Reached(0, p)
    OBVIOUS
  <2>1. p = 0
    BY DEF RunsToProduct
  <2> DEFINE c == [j \in 1..0 |-> 0]
             f == [j \in 0..0 |-> 0]
  <2>2. c \in Coordinates(0, sizes)
    <3>1. c \in [1..0 -> Nat] /\ \A j \in 1..0 : c[j] < sizes[j]
      OBVIOUS
    <3> HIDE DEF c
    <3> QED
      BY <3>1 DEF Coordinates
  <2>3. f \in [0..0 -> Nat] /\ f[0] = 0 /\ RunsToPosition(f, 0, sizes, c)
    BY DEF RunsToPosition
  <2> HIDE DEF c, f
  <2> QED
    BY <2>1, <2>2, <2>3
<1>2. ASSUME NEW k \in 0 .. n - 1, k \in T
      PROVE  k + 1 \in T
  <2> SUFFICES ASSUME NEW p \in 0 .. places[k + 1] - 1 PROVE Reached(k + 1, p)
    <3>1. k + 1 \in 0..n
      BY <1>0
    <3> HIDE DEF Reached
    <3> QED
      BY <3>1
  <2> DEFINE size == sizes[k + 1]
             q == p \div size
             r == p % size
  <2>0. k \in Nat /\ k + 1 \in 1..n /\ k \in 0..n /\ k + 1 \in 0..n
    BY <1>0
  <2>1. /\ size \in Nat \ {0} /\ places[k] \in Nat \ {0} /\ places[k + 1] \in Nat
        /\ places[k + 1] = places[k] * size
    BY <2>0 DEF RunsToProduct
  <2>2. p \in Nat /\ p < places[k + 1]
    BY <2>1
  <2> HIDE DEF size
  <2>3. q \in Nat /\ r \in 0 .. size - 1 /\ p = q * size + r
    BY <2>1, <2>2, Division
  <2> HIDE DEF q, r
  <2>4. q < places[k]
    <3> SUFFICES ASSUME places[k] <= q PROVE FALSE
      BY <2>1, <2>3
    <3>1. places[k] * size <= q * size
      BY <2>1, <2>3, Grows
    <3>2. q * size \in Int
      BY <2>1, <2>3
    <3> DEFINE a == places[k] * size
               b == q * size
    <3>3. a <= b /\ a = places[k + 1] /\ b \in Int /\ p = b + r
      BY <2>1, <2>3, <3>1, <3>2
    <3> HIDE DEF a, b
    <3> QED
      BY <2>1, <2>2, <2>3, <3>3
  <2>5. Reached(k, q)
    <3>1. q \in 0 .. places[k] - 1
      BY <2>1, <2>3, <2>4
    <3> HIDE DEF Reached
    <3> QED
      BY <1>2, <3>1
  <2>6. PICK c \in Coordinates(k, sizes), f \in [0..k -> Nat] :
          RunsToPosition(f, k, sizes, c) /\ f[k] = q
    BY <2>5
  <2> DEFINE d == [j \in 1 .. k + 1 |-> IF j = k + 1 THEN r ELSE c[j]]
             g == [j \in 0 .. k + 1 |-> IF j = k + 1 THEN p ELSE f[j]]
  <2>7. c \in [1..k -> Nat] /\ \A j \in 1..k : c[j] < sizes[j]
    BY DEF Coordinates
  <2>8. \A j \in 1 .. k + 1 : j # k + 1 => j \in 1..k
    BY <2>0
  <2>9. r \in Nat /\ r < size
    BY <2>1, <2>3
  <2>10. d \in Coordinates(k + 1, sizes)
    <3>1. d \in [1 .. k + 1 -> Nat]
      BY <2>7, <2>8, <2>9
    <3>2. \A j \in 1 .. k + 1 : d[j] < sizes[j]
      BY <2>7, <2>8, <2>9 DEF size
    <3> HIDE DEF d
    <3> QED
      BY <3>1, <3>2 DEF Coordinates
  <2>11. g \in [0 .. k + 1 -> Nat]
    <3>1. \A j \in 0 .. k + 1 : j # k + 1 => j \in 0..k
      BY <2>0
    <3> QED
      BY <2>2, <3>1
  <2>12. RunsToPosition(g, k + 1, sizes, d)
    <3>1. g[0] = f[0] /\ f[0] = 0
      BY <2>0, <2>6 DEF RunsToPosition
    <3>2. ASSUME NEW j \in 0 .. (k + 1) - 1
          PROVE  g[j + 1] = g[j] * sizes[j + 1] + d[j + 1]
      <4>1. CASE j = k
        <5>1. g[j + 1] = p /\ g[j] = f[k] /\ d[j + 1] = r
          BY <2>0, <4>1
        <5> HIDE DEF g, d
        <5> QED
          BY <2>3, <2>6, <4>1, <5>1 DEF size
      <4>2. CASE j # k
        <5>1. j \in 0 .. k - 1 /\ j + 1 # k + 1 /\ j # k + 1 /\ j + 1 \in 1 .. k + 1
              /\ j \in 0 .. k + 1 /\ j + 1 \in 0 .. k + 1
          BY <2>0, <4>2
        <5>2. g[j + 1] = f[j + 1] /\ g[j] = f[j] /\ d[j + 1] = c[j + 1]
          BY <5>1
        <5>3. f[j + 1] = f[j] * sizes[j + 1] + c[j + 1]
          BY <2>6, <5>1 DEF RunsToPosition
        <5> HIDE DEF g, d
        <5> QED
          BY <5>2, <5>3
      <4> QED
        BY <4>1, <4>2
    <3> HIDE DEF g, d
    <3> QED
      BY <3>1, <3>2 DEF RunsToPosition
  <2>13. g[k + 1] = p
    BY <2>0
  <2> HIDE DEF g, d
  <2> QED
    BY <2>10, <2>11, <2>12, <2>13
<1>3. T \in SUBSET Nat
  OBVIOUS
<1>4. 0..n \subseteq T
  <2> HIDE DEF T
  <2> QED
    BY <1>1, <1>2, <1>3, Induction
<1>5. n \in T
  <2> HIDE DEF T
  <2> QED
    BY <1>4
<1> QED
  BY <1>5

\* No two coordinates share a position.
LEMMA PositionsDiffer ==
  ASSUME NEW n \in Nat, NEW sizes \in [1..n -> Nat \ {0}],
         NEW c \in Coordinates(n, sizes), NEW d \in Coordinates(n, sizes),
         Absolute(sizes, c) = Absolute(sizes, d)
  PROVE  c = d
<1> SUFFICES ASSUME c # d PROVE FALSE
  OBVIOUS
<1>1. c \in [1..n -> Nat] /\ d \in [1..n -> Nat] /\ sizes \in [1..n -> Nat]
  BY DEF Coordinates
<1>2. PICK f \in [0..n -> Nat] : RunsToPosition(f, n, sizes, c) /\ f[n] = Absolute(sizes, c)
  BY <1>1, AbsoluteLoop
<1>3. PICK g \in [0..n -> Nat] : RunsToPosition(g, n, sizes, d) /\ g[n] = Absolute(sizes, d)
  BY <1>1, AbsoluteLoop
<1>4. Before(c, d) \/ Before(d, c)
  BY <1>1, OneIsBefore
<1>5. f[n] < g[n] \/ g[n] < f[n]
  BY <1>2, <1>3, <1>4, BeforeIsBelow
<1>6. f[n] \in Nat /\ f[n] = g[n]
  BY <1>2, <1>3
<1> QED
  BY <1>5, <1>6

\* The coordinates of an array, in their order, are numbered one by one.
LEMMA RankIsAbsolute ==
  ASSUME NEW n \in Nat, NEW sizes \in [1..n -> Nat \ {0}], NEW c \in Coordinates(n, sizes)
  PROVE  Rank(InShape(sizes), c) = Absolute(sizes, c) /\ Absolute(sizes, c) \in Nat
<1> DEFINE A == Absolute(sizes, c)
           Below == {d \in InShape(sizes) : Before(d, c)}
           h == [d \in Below |-> Absolute(sizes, d)]
<1>0. sizes \in [1..n -> Nat]
  OBVIOUS
<1>1. PICK f \in [0..n -> Nat] : RunsToPosition(f, n, sizes, c) /\ f[n] = A
  BY <1>0, AbsoluteLoop DEF Coordinates
<1>2. A \in Nat
  BY <1>1
<1>3. Below = {d \in Coordinates(n, sizes) : Before(d, c)}
  BY ShapeCoordinates
<1>4. ASSUME NEW d \in Coordinates(n, sizes)
      PROVE  \E g \in [0..n -> Nat] : RunsToPosition(g, n, sizes, d) /\ g[n] = Absolute(sizes, d)
  BY <1>0, AbsoluteLoop DEF Coordinates
<1> HIDE DEF A, Below
<1>5. ASSUME NEW d \in Below
      PROVE  Absolute(sizes, d) \in 0 .. A - 1
  <2>1. d \in Coordinates(n, sizes) /\ Before(d, c)
    BY <1>3
  <2>2. PICK g \in [0..n -> Nat] : RunsToPosition(g, n, sizes, d) /\ g[n] = Absolute(sizes, d)
    BY <1>4, <2>1
  <2>3. g[n] < f[n]
    BY <1>1, <2>1, <2>2, BeforeIsBelow
  <2>4. g[n] \in Nat
    OBVIOUS
  <2> QED
    BY <1>1, <1>2, <2>2, <2>3, <2>4
<1>7. ASSUME NEW p \in 0 .. A - 1
      PROVE  \E d \in Below : Absolute(sizes, d) = p
  <2>1. PICK places \in [0..n -> Nat \ {0}] : RunsToProduct(places, n, sizes)
    BY ProductLoop
  <2>2. f[n] < places[n]
    BY <1>1, <2>1, PositionBelow
  <2>3. p \in 0 .. places[n] - 1
    BY <1>1, <1>2, <2>2
  <2>4. PICK d \in Coordinates(n, sizes), g \in [0..n -> Nat] :
          RunsToPosition(g, n, sizes, d) /\ g[n] = p
    BY <2>1, <2>3, PlaceOfSome
  <2>5. PICK m \in [0..n -> Nat] : RunsToPosition(m, n, sizes, d) /\ m[n] = Absolute(sizes, d)
    BY <1>4
  <2>6. m[n] = g[n]
    BY <2>4, <2>5, OneRun
  <2>7. p < A
    BY <1>2
  <2>8. d # c
    <3>1. Absolute(sizes, d) = p /\ p # A
      BY <1>2, <2>4, <2>5, <2>6, <2>7
    <3> QED
      BY <3>1 DEF A
  <2>9. ~Before(c, d)
    <3> SUFFICES ASSUME Before(c, d) PROVE FALSE
      OBVIOUS
    <3>1. f[n] < g[n]
      BY <1>1, <2>4, BeforeIsBelow
    <3> QED
      BY <1>1, <1>2, <2>4, <2>7, <3>1
  <2>10. c \in [1..n -> Nat] /\ d \in [1..n -> Nat]
    BY DEF Coordinates
  <2>11. Before(d, c)
    BY <2>8, <2>9, <2>10, OneIsBefore
  <2> QED
    BY <1>3, <2>4, <2>5, <2>6, <2>11
<1>8. h \in [Below -> 0 .. A - 1]
  BY <1>5
<1>9. h \in Injection(Below, 0 .. A - 1)
  <2>1. \A d, e \in Below : h[d] = h[e] => d = e
    BY <1>3, PositionsDiffer
  <2> HIDE DEF h
  <2> QED
    BY <1>8, <2>1 DEF Injection, IsInjective
<1>10. h \in Surjection(Below, 0 .. A - 1)
  <2>1. \A p \in 0 .. A - 1 : \E d \in Below : h[d] = p
    BY <1>7
  <2> HIDE DEF h
  <2> QED
    BY <1>8, <2>1 DEF Surjection
<1> HIDE DEF h
<1>11. IsFiniteSet(0 .. A - 1) /\ Cardinality(0 .. A - 1) = A
  <2>1. 0 \in Int /\ A - 1 \in Int
    BY <1>2
  <2>2. IsFiniteSet(0 .. A - 1) /\ Cardinality(0 .. A - 1) = IF 0 > A - 1 THEN 0 ELSE A - 1 - 0 + 1
    BY <2>1, FS_Interval
  <2> QED
    BY <1>2, <2>2
<1>12. Cardinality(Below) = A
  BY <1>9, <1>10, <1>11, FS_Injection
<1> QED
  BY <1>2, <1>12 DEF Rank, A, Below

\* A product is its first factor times the others.
LEMMA ProductHead ==
  ASSUME NEW m \in Nat, NEW s \in [1 .. m + 1 -> Nat \ {0}], NEW t \in [1..m -> Nat \ {0}],
         \A i \in 1..m : t[i] = s[i + 1]
  PROVE  Product(s) = s[1] * Product(t)
<1>0. m + 1 \in Nat /\ s[1] \in Nat \ {0}
  OBVIOUS
<1>1. PICK f \in [0 .. m + 1 -> Nat \ {0}] : RunsToProduct(f, m + 1, s) /\ f[m + 1] = Product(s)
  BY <1>0, ProductLoop
<1>2. PICK g \in [0..m -> Nat \ {0}] : RunsToProduct(g, m, t) /\ g[m] = Product(t)
  BY ProductLoop
<1> DEFINE T == {k \in 0..m : f[k + 1] = s[1] * g[k]}
<1>3. 0 \in T
  <2>1. 0 \in 0 .. (m + 1) - 1 /\ 0 + 1 = 1
    OBVIOUS
  <2>2. f[0 + 1] = f[0] * s[0 + 1] /\ f[0] = 1 /\ g[0] = 1
    BY <1>1, <1>2, <2>1 DEF RunsToProduct
  <2>3. f[1] = 1 * s[1]
    BY <2>1, <2>2
  <2> QED
    BY <1>0, <2>2, <2>3
<1>4. ASSUME NEW k \in 0 .. m - 1, k \in T
      PROVE  k + 1 \in T
  <2>1. k \in Nat /\ k + 1 \in 0 .. (m + 1) - 1 /\ k + 1 \in 1..m /\ k + 1 \in 0..m /\ k \in 0..m
    OBVIOUS
  <2>2. f[(k + 1) + 1] = f[k + 1] * s[(k + 1) + 1]
    BY <1>1, <2>1 DEF RunsToProduct
  <2>3. g[k + 1] = g[k] * t[k + 1] /\ t[k + 1] = s[(k + 1) + 1]
    BY <1>2, <2>1 DEF RunsToProduct
  <2>4. f[k + 1] = s[1] * g[k]
    BY <1>4
  <2>5. s[1] \in Int /\ g[k] \in Int /\ t[k + 1] \in Int
    BY <1>0, <2>1
  <2>6. (s[1] * g[k]) * t[k + 1] = s[1] * (g[k] * t[k + 1])
    BY <2>5, Associates
  <2>7. f[(k + 1) + 1] = s[1] * g[k + 1]
    BY <2>2, <2>3, <2>4, <2>6
  <2> QED
    BY <2>1, <2>7
<1>5. T \in SUBSET Nat
  OBVIOUS
<1>6. 0..m \subseteq T
  <2> HIDE DEF T
  <2> QED
    BY <1>3, <1>4, <1>5, Induction
<1>7. m \in T
  <2> HIDE DEF T
  <2> QED
    BY <1>6
<1> QED
  BY <1>1, <1>2, <1>7

\* The product of the sizes behind the first k.
SizesBehind(sizes, k, n) == Product(SubSeq(sizes, k + 1, n))

\* The places behind a dimension are its size times those behind the next.
LEMMA SizesBehindSteps ==
  ASSUME NEW n \in Nat, NEW sizes \in [1..n -> Nat \ {0}]
  PROVE  /\ SizesBehind(sizes, n, n) = 1
         /\ \A k \in 1..n : /\ SizesBehind(sizes, k, n) \in Nat \ {0}
                            /\ SizesBehind(sizes, k - 1, n) = sizes[k] * SizesBehind(sizes, k, n)
<1>1. ASSUME NEW k \in 0..n
      PROVE  SubSeq(sizes, k + 1, n) = [i \in 1 .. n - k |-> sizes[i + k]]
  <2>1. n - (k + 1) + 1 = n - k /\ \A i \in 1 .. n - k : (k + 1) + i - 1 = i + k
    OBVIOUS
  <2>2. SubSeq(sizes, k + 1, n) = [i \in 1 .. n - (k + 1) + 1 |-> sizes[(k + 1) + i - 1]]
    OBVIOUS
  <2> QED
    BY <2>1, <2>2
<1>2. SizesBehind(sizes, n, n) = 1
  <2> DEFINE t == SubSeq(sizes, n + 1, n)
  <2>1. n - n = 0 /\ n \in 0..n
    OBVIOUS
  <2>2. t = [i \in 1..0 |-> sizes[i + n]]
    BY <1>1, <2>1
  <2>3. t \in [1..0 -> Nat \ {0}] /\ 0 \in Nat
    BY <2>2
  <2> HIDE DEF t
  <2>4. PICK f \in [0..0 -> Nat \ {0}] : RunsToProduct(f, 0, t) /\ f[0] = Product(t)
    BY <2>3, ProductLoop
  <2>5. Product(t) = 1
    BY <2>4 DEF RunsToProduct
  <2> QED
    BY <2>5 DEF SizesBehind, t
<1>3. ASSUME NEW k \in 1..n
      PROVE  /\ SizesBehind(sizes, k, n) \in Nat \ {0}
             /\ SizesBehind(sizes, k - 1, n) = sizes[k] * SizesBehind(sizes, k, n)
  <2> DEFINE m == n - k
             s == SubSeq(sizes, (k - 1) + 1, n)
             t == SubSeq(sizes, k + 1, n)
  <2>0. m \in Nat /\ n - (k - 1) = m + 1 /\ k - 1 \in 0..n /\ k \in 0..n /\ 1 \in 1 .. m + 1
        /\ 1 + (k - 1) = k
    OBVIOUS
  <2>1. s = [i \in 1 .. m + 1 |-> sizes[i + (k - 1)]] /\ t = [i \in 1..m |-> sizes[i + k]]
    BY <1>1, <2>0
  <2>2. (\A i \in 1 .. m + 1 : i + (k - 1) \in 1..n) /\ (\A i \in 1..m : i + k \in 1..n)
        /\ (\A i \in 1..m : i + 1 \in 1 .. m + 1 /\ (i + 1) + (k - 1) = i + k)
    OBVIOUS
  <2> HIDE DEF m, s, t
  <2>3. s \in [1 .. m + 1 -> Nat \ {0}] /\ t \in [1..m -> Nat \ {0}]
    BY <2>1, <2>2
  <2>4. \A i \in 1..m : t[i] = s[i + 1]
    BY <2>1, <2>2
  <2>5. Product(s) = s[1] * Product(t)
    BY <2>0, <2>3, <2>4, ProductHead
  <2>6. s[1] = sizes[k]
    BY <2>0, <2>1
  <2>7. PICK f \in [0..m -> Nat \ {0}] : f[m] = Product(t)
    BY <2>0, <2>3, ProductLoop
  <2>8. Product(t) \in Nat \ {0}
    BY <2>0, <2>7
  <2> QED
    BY <2>5, <2>6, <2>8 DEF SizesBehind, s, t
<1> QED
  BY <1>2, <1>3

\* What the iterator divides by is the product of the sizes behind, but for the fourth
\* of five.
LEMMA WeightIsSizesBehind ==
  ASSUME NEW n \in 1..5, NEW sizes \in [1..n -> Nat \ {0}], NEW k \in 1..n,
         n = 5 /\ k = 4 => sizes[4] = sizes[5]
  PROVE  Weight(sizes, k) = SizesBehind(sizes, k, n)
<1>0. n \in Nat
  OBVIOUS
<1>1. Len(sizes) = n
  BY <1>0, IsSequence
<1>2. CASE n = 5 /\ k = 4
  <2>1. SizesBehind(sizes, 5, 5) = 1
    BY <1>0, <1>2, SizesBehindSteps
  <2>2. 5 \in 1..n /\ 5 - 1 = 4
    BY <1>2
  <2>3. SizesBehind(sizes, 4, 5) = sizes[5] * 1
    BY <1>0, <1>2, <2>1, <2>2, SizesBehindSteps
  <2>4. sizes[5] \in Nat
    BY <2>2
  <2>5. sizes[5] * 1 = sizes[5]
    BY <2>4
  <2>6. Weight(sizes, k) = sizes[4]
    BY <1>1, <1>2 DEF Weight
  <2> QED
    BY <1>2, <2>3, <2>5, <2>6
<1>3. CASE ~(n = 5 /\ k = 4)
  BY <1>1, <1>3 DEF Weight, SizesBehind
<1> QED
  BY <1>2, <1>3

\* One coordinate, got back from a position.
LEMMA CoordinateBack ==
  ASSUME NEW h \in Nat, NEW size \in Nat \ {0}, NEW x \in Nat, x < size,
         NEW w \in Nat \ {0}, NEW r \in Nat, r < w,
         NEW p, p = (h * size + x) * w + r
  PROVE  /\ x * w + r \in 0 .. size * w - 1 /\ size * w \in Nat \ {0}
         /\ p = h * (size * w) + (x * w + r)
         /\ p % (size * w) = x * w + r
         /\ (x * w + r) \div w = x
<1>1. x * w + r \in Nat /\ size * w \in Nat \ {0}
  BY StepIsNatural, PositiveProduct
<1>2. x * w + r < size * w + 0
  BY StepBelow
<1>4. (h * size + x) * w = h * (size * w) + x * w
  <2>1. h * size \in Int /\ x \in Int /\ w \in Int /\ size \in Int /\ h \in Int
    OBVIOUS
  <2>2. (h * size + x) * w = (h * size) * w + x * w
    BY <2>1, Distributes
  <2>3. (h * size) * w = h * (size * w)
    BY <2>1, Associates
  <2> QED
    BY <2>2, <2>3
<1> DEFINE a == h * (size * w)
           b == x * w
           d == size * w
<1>5. a \in Int /\ b \in Int /\ p = a + b + r /\ d \in Nat \ {0} /\ b + r \in Nat /\ b + r < d + 0
  <2>1. h * (size * w) \in Int /\ x * w \in Int
    BY <1>1
  <2> QED
    BY <1>1, <1>2, <1>4, <2>1
<1>6. (b + r) \div w = x
  BY Divides
<1>7. (h * d + (b + r)) % d = b + r
  <2>1. d \in Nat \ {0} /\ b + r \in Nat /\ b + r < d
    <3> HIDE DEF a, b, d
    <3> QED
      BY <1>5
  <2> HIDE DEF a, b, d
  <2> QED
    BY <2>1, Divides
<1>8. p = a + (b + r) /\ b + r \in 0 .. d - 1
  <2> HIDE DEF a, b, d
  <2> QED
    BY <1>5
<1>9. a = h * d
  OBVIOUS
<1>10. p % d = b + r
  <2> HIDE DEF a, b, d
  <2> QED
    BY <1>7, <1>8, <1>9
<1> QED
  BY <1>1, <1>6, <1>8, <1>10

\* The iterator tells the coordinates a position was made of, the last two of five only
\* if their sizes are equal.
LEMMA IteratorTells ==
  ASSUME NEW n \in 2..5, NEW sizes \in [1..n -> Nat \ {0}], NEW c \in Coordinates(n, sizes),
         NEW k \in 1..n, k <= 3 \/ n # 5 \/ sizes[4] = sizes[5]
  PROVE  IteratorPos(sizes, Absolute(sizes, c))[k] = c[k]
<1> DEFINE p == Absolute(sizes, c)
           B(j) == SizesBehind(sizes, j, n)
<1>0. n \in Nat /\ n \in 1..5 /\ n # 1 /\ sizes \in [1..n -> Nat]
  OBVIOUS
<1>1. c \in [1..n -> Nat] /\ \A m \in 1..n : c[m] < sizes[m]
  BY DEF Coordinates
<1>2. PICK f \in [0..n -> Nat] : RunsToPosition(f, n, sizes, c) /\ f[n] = p
  BY <1>0, <1>1, AbsoluteLoop
<1>3. B(n) = 1 /\ \A m \in 1..n : B(m) \in Nat \ {0} /\ B(m - 1) = sizes[m] * B(m)
  BY <1>0, SizesBehindSteps
<1>4. Weight(sizes, k) = B(k) /\ (k # 1 => Weight(sizes, k - 1) = B(k - 1))
  <2>1. n = 5 /\ k = 4 => sizes[4] = sizes[5]
    OBVIOUS
  <2>2. k # 1 => k - 1 \in 1..n /\ (n = 5 /\ k - 1 = 4 => sizes[4] = sizes[5])
    OBVIOUS
  <2> QED
    BY <1>0, <2>1, <2>2, WeightIsSizesBehind
<1> HIDE DEF p, B
<1> DEFINE Rest(m, r) == r \in 0 .. B(m) - 1 /\ p = f[m] * B(m) + r
<1>5. ASSUME NEW m \in 1..n, NEW r, Rest(m, r)
      PROVE  /\ Rest(m - 1, c[m] * B(m) + r)
             /\ m # 1 => (p % B(m - 1)) \div B(m) = c[m]
             /\ m = 1 => p \div B(m) = c[m]
  <2>1. /\ m - 1 \in 0 .. n - 1 /\ m - 1 \in 0..n /\ (m - 1) + 1 = m
    BY <1>0
  <2>2. f[m] = f[m - 1] * sizes[m] + c[m]
    BY <1>2, <2>1 DEF RunsToPosition
  <2>3. /\ f[m - 1] \in Nat /\ sizes[m] \in Nat \ {0} /\ c[m] \in Nat /\ c[m] < sizes[m]
        /\ B(m) \in Nat \ {0} /\ B(m - 1) = sizes[m] * B(m)
    BY <1>1, <1>3, <2>1
  <2>4. r \in Nat /\ r < B(m)
    BY <1>5, <2>3
  <2>5. p = (f[m - 1] * sizes[m] + c[m]) * B(m) + r
    BY <1>5, <2>2
  <2>6. /\ c[m] * B(m) + r \in 0 .. sizes[m] * B(m) - 1
        /\ p = f[m - 1] * (sizes[m] * B(m)) + (c[m] * B(m) + r)
        /\ p % (sizes[m] * B(m)) = c[m] * B(m) + r
        /\ (c[m] * B(m) + r) \div B(m) = c[m]
    <3> DEFINE h == f[m - 1]
               size == sizes[m]
               x == c[m]
               w == B(m)
    <3>1. h \in Nat /\ size \in Nat \ {0} /\ x \in Nat /\ x < size /\ w \in Nat \ {0}
          /\ r \in Nat /\ r < w /\ p = (h * size + x) * w + r
      BY <2>3, <2>4, <2>5
    <3> HIDE DEF h, size, x, w
    <3>2. /\ x * w + r \in 0 .. size * w - 1
          /\ p = h * (size * w) + (x * w + r)
          /\ p % (size * w) = x * w + r
          /\ (x * w + r) \div w = x
      BY <3>1, CoordinateBack
    <3> QED
      BY <3>2 DEF h, size, x, w
  <2>7. Rest(m - 1, c[m] * B(m) + r)
    BY <2>3, <2>6
  <2>8. (p % B(m - 1)) \div B(m) = c[m]
    BY <2>3, <2>6
  <2>9. ASSUME m = 1 PROVE p \div B(m) = c[m]
    <3>1. f[0] = 0
      BY <1>2 DEF RunsToPosition
    <3>2. f[m - 1] * sizes[m] = 0
      BY <2>3, <2>9, <3>1
    <3>3. f[m] = c[m]
      BY <2>2, <2>3, <3>2
    <3>4. p = c[m] * B(m) + r
      BY <1>5, <3>3
    <3> QED
      BY <2>6, <3>4
  <2> QED
    BY <2>7, <2>8, <2>9
<1> DEFINE T == {j \in 0..n : \E r : Rest(n - j, r)}
<1>6. 0 \in T
  <2>1. p \in Nat /\ n - 0 = n /\ 0 \in 0..n
    BY <1>0, <1>2
  <2>2. Rest(n, 0)
    <3>1. f[n] * 1 + 0 = f[n]
      BY <1>2, <2>1
    <3> QED
      BY <1>2, <1>3, <3>1
  <2> HIDE DEF Rest
  <2> QED
    BY <2>1, <2>2
<1>7. ASSUME NEW j \in 0 .. n - 1, j \in T
      PROVE  j + 1 \in T
  <2>1. n - j \in 1..n /\ n - (j + 1) = (n - j) - 1 /\ j + 1 \in 0..n
    BY <1>0
  <2> HIDE DEF Rest
  <2>2. PICK r : Rest(n - j, r)
    BY <1>7
  <2>3. \E q : Rest((n - j) - 1, q)
    BY <1>5, <2>1, <2>2
  <2> QED
    BY <2>1, <2>3
<1>8. 0..n \subseteq T
  <2>1. T \in SUBSET Nat
    BY <1>0
  <2> HIDE DEF T
  <2> QED
    BY <1>0, <1>6, <1>7, <2>1, Induction
<1>9. \E r : Rest(k, r)
  <2>1. n - k \in 0..n /\ n - (n - k) = k
    BY <1>0
  <2> HIDE DEF Rest
  <2> QED
    BY <1>8, <2>1
<1>10. (IF k = 1 THEN p ELSE p % Weight(sizes, k - 1)) \div Weight(sizes, k) = c[k]
  <2> HIDE DEF Rest
  <2>1. PICK r : Rest(k, r)
    BY <1>9
  <2>2. CASE k = 1
    BY <1>4, <1>5, <2>1, <2>2
  <2>3. CASE k # 1
    <3>1. k - 1 \in 1..n
      BY <1>0, <2>3
    <3> QED
      BY <1>4, <1>5, <2>1, <2>3, <3>1
  <2> QED
    BY <2>2, <2>3
<1>11. IteratorPos(sizes, p) =
         [m \in 1..n |-> (IF m = 1 THEN p ELSE p % Weight(sizes, m - 1)) \div Weight(sizes, m)]
  <2>1. Len(sizes) = n /\ DOMAIN sizes = 1..n
    BY <1>0, IsSequence
  <2> QED
    BY <1>0, <2>1 DEF IteratorPos
<1> QED
  BY <1>10, <1>11 DEF p

\* The last two of five: together they make up the right number, in other parts.
LEMMA LastTwoTold ==
  ASSUME NEW sizes \in [1..5 -> Nat \ {0}], NEW c \in Coordinates(5, sizes),
         NEW told, told = IteratorPos(sizes, Absolute(sizes, c))
  PROVE  told[4] * sizes[4] + told[5] = c[4] * sizes[5] + c[5] /\ told[5] < sizes[4]
<1> DEFINE p == Absolute(sizes, c)
           a == sizes[4]
           b == sizes[5]
           r == c[4] * b + c[5]
<1>0. 5 \in Nat /\ 5 \in 1..5 /\ 4 \in 1..5 /\ 3 \in 1..5 /\ sizes \in [1..5 -> Nat]
  OBVIOUS
<1>1. c \in [1..5 -> Nat] /\ \A m \in 1..5 : c[m] < sizes[m]
  BY DEF Coordinates
<1>2. PICK f \in [0..5 -> Nat] : RunsToPosition(f, 5, sizes, c) /\ f[5] = p
  BY <1>0, <1>1, AbsoluteLoop
<1>3. Len(sizes) = 5 /\ DOMAIN sizes = 1..5
  BY <1>0, IsSequence
<1>4. /\ SizesBehind(sizes, 5, 5) = 1 /\ SizesBehind(sizes, 4, 5) = b * SizesBehind(sizes, 5, 5)
      /\ SizesBehind(sizes, 3, 5) = a * SizesBehind(sizes, 4, 5)
  <2>1. 5 - 1 = 4 /\ 4 - 1 = 3
    OBVIOUS
  <2> QED
    BY <1>0, <2>1, SizesBehindSteps
<1>5. a \in Nat \ {0} /\ b \in Nat \ {0} /\ c[4] \in Nat /\ c[5] \in Nat /\ c[4] < a /\ c[5] < b /\ r \in Nat
  <2>1. a \in Nat \ {0} /\ b \in Nat \ {0} /\ c[4] \in Nat /\ c[5] \in Nat /\ c[4] < a /\ c[5] < b
    BY <1>0, <1>1
  <2> QED
    BY <2>1, StepIsNatural
<1>6. Weight(sizes, 3) = a * b /\ Weight(sizes, 4) = a /\ Weight(sizes, 5) = 1
  <2>1. Weight(sizes, 3) = SizesBehind(sizes, 3, 5) /\ Weight(sizes, 5) = SizesBehind(sizes, 5, 5)
    BY <1>3 DEF Weight, SizesBehind
  <2>2. Weight(sizes, 4) = a
    BY <1>3 DEF Weight
  <2>3. b * 1 = b
    BY <1>5
  <2> QED
    BY <1>4, <2>1, <2>2, <2>3
<1>7. told[4] = (p % (a * b)) \div a /\ told[5] = (p % a) \div 1
  <2>1. told = [k \in 1..5 |-> (IF k = 1 THEN p ELSE p % Weight(sizes, k - 1)) \div Weight(sizes, k)]
    BY <1>3 DEF IteratorPos
  <2>2. 5 - 1 = 4 /\ 4 - 1 = 3
    OBVIOUS
  <2> HIDE DEF p, a, b
  <2> QED
    BY <1>6, <2>1, <2>2
<1>8. p = f[3] * (a * b) + r /\ p = (f[3] * b) * a + r /\ f[3] \in Nat /\ f[3] * b \in Nat
  <2>1. f[4] = f[3] * a + c[4] /\ f[5] = f[4] * b + c[5]
    <3>1. 3 \in 0 .. 5 - 1 /\ 4 \in 0 .. 5 - 1 /\ 3 + 1 = 4 /\ 4 + 1 = 5
      OBVIOUS
    <3> QED
      BY <1>2, <3>1 DEF RunsToPosition
  <2>2. f[3] \in Nat /\ f[3] * a \in Nat /\ f[3] * b \in Nat
    BY <1>5
  <2>3. p = (f[3] * a + c[4]) * b + c[5]
    BY <1>2, <2>1
  <2> DEFINE h == f[3]
             u == c[4]
             v == c[5]
  <2>4. p = (h * a + u) * b + v /\ r = u * b + v /\ {h, a, b, u, v, h * a, h * b} \subseteq Int
    BY <1>5, <2>2, <2>3
  <2> HIDE DEF h, u, v, a, b, p, r
  <2>5. (h * a + u) * b = (h * a) * b + u * b
    BY <2>4, Distributes
  <2>6. (h * a) * b = h * (a * b) /\ h * (a * b) = (h * b) * a
    BY <2>4, Associates, Commutes
  <2>7. h * (a * b) \in Int /\ u * b \in Int
    BY <2>4
  <2>8. p = h * (a * b) + r
    BY <2>4, <2>5, <2>6, <2>7
  <2> QED
    BY <2>2, <2>6, <2>8 DEF h
<1>9. r < a * b /\ a * b \in Nat \ {0}
  <2> HIDE DEF p
  <2>1. a * b \in Nat \ {0}
    BY <1>5, PositiveProduct
  <2> DEFINE u == c[4]
             v == c[5]
  <2>2. u \in Nat /\ v \in Nat /\ a \in Nat \ {0} /\ b \in Nat \ {0} /\ u + 1 <= a /\ v < b /\ u + 1 \in Nat
    BY <1>5
  <2>3. r = u * b + v
    OBVIOUS
  <2> HIDE DEF u, v, a, b, r
  <2>4. (u + 1) * b <= a * b /\ (u + 1) * b = u * b + 1 * b
    BY <2>2, Grows, Distributes
  <2>5. u * b \in Nat /\ 1 * b = b /\ a * b \in Nat
    BY <2>1, <2>2
  <2> QED
    BY <2>1, <2>2, <2>3, <2>4, <2>5
<1> DEFINE q == r \div a
           e == r % a
<1>10. q \in Nat /\ e \in Nat /\ e < a /\ r = q * a + e
  <2>1. q \in Nat /\ e \in 0 .. a - 1 /\ r = q * a + e
    <3> HIDE DEF a, r
    <3> QED
      BY <1>5, Division
  <2> HIDE DEF a, r, q, e
  <2> QED
    BY <1>5, <2>1
<1>11. p % (a * b) = r
  <2> DEFINE h == f[3]
             d == a * b
  <2>1. p = h * d + r /\ h \in Nat /\ d \in Nat \ {0} /\ r < d
    BY <1>8, <1>9
  <2> HIDE DEF p, h, d, r
  <2>2. (h * d + r) % d = r
    BY <1>5, <2>1, Divides
  <2> QED
    BY <2>1, <2>2 DEF d
<1>12. p % a = e
  <2> DEFINE h == f[3] * b
  <2>1. p = h * a + r /\ h \in Nat
    BY <1>8
  <2> HIDE DEF p, h, a, r, q, e
  <2>2. (h + q) * a = h * a + q * a /\ h + q \in Nat /\ h * a \in Nat /\ q * a \in Nat
    BY <1>5, <1>10, <2>1, Distributes
  <2>3. p = (h + q) * a + e
    BY <1>10, <2>1, <2>2
  <2> DEFINE m == h + q
  <2>4. m \in Nat /\ p = m * a + e
    BY <2>2, <2>3
  <2> HIDE DEF m
  <2>5. (m * a + e) % a = e
    BY <1>5, <1>10, <2>4, Divides
  <2> QED
    BY <2>4, <2>5
<1>13. told[4] = q /\ told[5] = e
  <2>1. e \div 1 = e
    <3> HIDE DEF e
    <3> QED
      BY <1>10
  <2> HIDE DEF p, a, b
  <2> QED
    BY <1>7, <1>11, <1>12, <2>1
<1> HIDE DEF q, e, r, p
<1> QED
  BY <1>10, <1>13 DEF r

\* Items at finitely many positions.
ItemMaps == UNION {[P -> Item] : P \in {Q \in SUBSET Int : IsFiniteSet(Q)}}

\* What insert() and parse() make of such items is of the same kind.
LEMMA NoItemsTyped == NoItems \in ItemMaps
<1>1. IsFiniteSet({}) /\ {} \in SUBSET Int
  BY FS_EmptySet
<1>2. NoItems \in [{} -> Item]
  BY DEF NoItems
<1> QED
  BY <1>1, <1>2 DEF ItemMaps

LEMMA ItemMapTyped ==
  ASSUME NEW items \in ItemMaps
  PROVE  items \in [DOMAIN items -> Item] /\ DOMAIN items \in SUBSET Int /\ IsFiniteSet(DOMAIN items)
  BY DEF ItemMaps

LEMMA PutTyped ==
  ASSUME NEW items \in ItemMaps, NEW p \in Int, NEW item \in Item
  PROVE  Put(items, p, item) \in ItemMaps
<1> DEFINE P == DOMAIN items \cup {p}
<1>1. items \in [DOMAIN items -> Item] /\ DOMAIN items \in SUBSET Int /\ IsFiniteSet(DOMAIN items)
  BY ItemMapTyped
<1>2. IsFiniteSet(P)
  BY <1>1, FS_AddElement
<1>3. P \in SUBSET Int
  BY <1>1
<1>4. Put(items, p, item) \in [P -> Item]
  BY <1>1 DEF Put
<1> HIDE DEF P
<1> QED
  BY <1>2, <1>3, <1>4 DEF ItemMaps

\* What can be read, and how far reading came.
NodeReadable(n) == n.node = "item" => n.item \in Item /\ (Len(n.at) = 1 => n.at[1] \in Int)
\* What parse() has read so far, and what it starts with.
ReadStates == [items : ItemMaps, pos : Int, failed : BOOLEAN]
NothingRead == [items |-> NoItems, pos |-> 0, failed |-> FALSE]

\* One step of parse().
LEMMA ReadTyped ==
  ASSUME NEW read \in ReadStates, NEW n, NodeReadable(n)
  PROVE  ReadNode(read, n) \in ReadStates
<1>1. CASE read.failed \/ n.node = "comment"
  BY <1>1 DEF ReadNode
<1>2. CASE ~(read.failed \/ n.node = "comment") /\ n.node # "item"
  <2>1. ReadNode(read, n) = [read EXCEPT !.failed = TRUE]
    BY <1>2 DEF ReadNode
  <2> QED
    BY <2>1 DEF ReadStates
<1>3. CASE ~(read.failed \/ n.node = "comment") /\ n.node = "item"
  <2> DEFINE p == IF n.at = <<>> THEN read.pos ELSE IF Len(n.at) = 1 THEN n.at[1] ELSE 0
  <2>1. ReadNode(read, n) = [items |-> Put(read.items, p, n.item), pos |-> p + 1, failed |-> FALSE]
    BY <1>3 DEF ReadNode
  <2>2. /\ n.item \in Item /\ (Len(n.at) = 1 => n.at[1] \in Int)
        /\ read.items \in ItemMaps /\ read.pos \in Int
    BY <1>3 DEF NodeReadable, ReadStates
  <2>3. p \in Int
    BY <2>2
  <2> HIDE DEF p
  <2>4. Put(read.items, p, n.item) \in ItemMaps /\ p + 1 \in Int
    BY <2>2, <2>3, PutTyped
  <2> QED
    BY <2>1, <2>4 DEF ReadStates
<1> QED
  BY <1>1, <1>2, <1>3

\* Nodes are read one after the other.
NodesRun(run, doc) ==
  run[0] = NothingRead /\ \A k \in 0 .. Len(doc) - 1 : run[k + 1] = ReadNode(run[k], doc[k + 1])

\* parse() goes through such a run, one node after the other.
LEMMA NodesLoop ==
  ASSUME NEW S, \A n \in S : NodeReadable(n), NEW doc \in Seq(S)
  PROVE  \E run \in [0..Len(doc) -> ReadStates] : NodesRun(run, doc) /\ run[Len(doc)] = ReadNodes(doc)
<1> DEFINE n == Len(doc)
           V == ReadStates
           Turn(x, i) == ReadNode(x, doc[i])
           g == [p \in V \X (1..n) |-> Turn(p[1], p[2])]
           Loop(iter) == iter = [I \in SUBSET (1..n) |->
                                   IF I = {} THEN NothingRead ELSE Turn(iter[I \ {Max(I)}], Max(I))]
<1>0. n \in Nat /\ DOMAIN doc = 1..n /\ \A i \in 1..n : doc[i] \in S
  BY LenProperties, ElementOfSeq
<1>1. ReadNodes(doc) = (CHOOSE iter : Loop(iter))[1..n]
  <2> DEFINE Raw(iter) == iter = [I \in SUBSET DOMAIN doc |->
                                    IF I = {} THEN NothingRead
                                    ELSE ReadNode(iter[I \ {Max(I)}], doc[Max(I)])]
  <2>1. ReadNodes(doc) = (CHOOSE iter : Raw(iter))[DOMAIN doc]
    BY DEF ReadNodes, NothingRead, FoldLeft, MapThenFoldSet
  <2>2. \A iter : Raw(iter) <=> Loop(iter)
    BY <1>0
  <2> HIDE DEF Raw, Loop
  <2>3. (CHOOSE iter : Raw(iter)) = (CHOOSE iter : Loop(iter))
    BY <2>2
  <2> QED
    BY <1>0, <2>1, <2>3
<1> HIDE DEF n
<1>2. NothingRead \in V
  BY NoItemsTyped DEF NothingRead, ReadStates
<1>3. ASSUME NEW x \in V, NEW i \in 1..n
      PROVE  Turn(x, i) \in V
  BY <1>0, ReadTyped
<1> HIDE DEF V, Turn
<1>4. g \in [V \X (1..n) -> V]
  BY <1>3
<1>5. PICK f \in [SUBSET (1..n) -> V] : FoldsUpTo(f, n, NothingRead, g)
  <2> HIDE DEF g
  <2> QED
    BY <1>0, <1>2, <1>4, FoldIsThere
<1>6. Loop(f)
  <2>1. ASSUME NEW I \in SUBSET (1..n)
        PROVE  f[I] = IF I = {} THEN NothingRead ELSE Turn(f[I \ {Max(I)}], Max(I))
    <3>1. CASE I = {}
      BY <1>5, <3>1 DEF FoldsUpTo
    <3>2. CASE I # {}
      <4>1. Max(I) \in 1..n
        BY <1>0, <3>2, MaxExists
      <4>2. f[I \ {Max(I)}] \in V
        OBVIOUS
      <4>3. f[I] = g[<<f[I \ {Max(I)}], Max(I)>>]
        <5> HIDE DEF g
        <5> QED
          BY <1>5, <3>2 DEF FoldsUpTo
      <4> QED
        BY <3>2, <4>1, <4>2, <4>3
    <3> QED
      BY <3>1, <3>2
  <2> HIDE DEF g
  <2> QED
    BY <2>1
<1> DEFINE iter == CHOOSE iter : Loop(iter)
           run == [k \in 0..n |-> iter[1..k]]
<1>7. Loop(iter)
  <2> HIDE DEF Loop
  <2> QED
    BY <1>6
<1>8. iter = [I \in SUBSET (1..n) |->
                IF I = {} THEN NothingRead ELSE Turn(iter[I \ {Max(I)}], Max(I))]
  <2> HIDE DEF iter
  <2> QED
    BY <1>7
<1>9. ReadNodes(doc) = iter[1..n]
  BY <1>1
<1> HIDE DEF iter, Loop
<1>10. run[0] = NothingRead
  <2>1. 1..0 = {} /\ 1..0 \in SUBSET (1..n)
    OBVIOUS
  <2>2. iter[1..0] = NothingRead
    BY <1>8, <2>1
  <2> QED
    BY <1>0, <2>2
<1>11. ASSUME NEW k \in 0 .. n - 1
       PROVE  run[k + 1] = Turn(run[k], k + 1)
  <2>1. /\ 1 .. k + 1 # {} /\ Max(1 .. k + 1) = k + 1
        /\ (1 .. k + 1) \ {k + 1} = 1..k
    <3>1. k \in Nat
      BY <1>0
    <3> QED
      BY <3>1, LastOfPrefix
  <2>2. 1 .. k + 1 \in SUBSET (1..n)
    BY <1>0
  <2>3. iter[1 .. k + 1] = Turn(iter[1..k], k + 1)
    BY <1>8, <2>1, <2>2
  <2> QED
    BY <1>0, <2>3
<1>12. run[n] = ReadNodes(doc)
  BY <1>0, <1>9
<1>13. DOMAIN run = 0..n /\ run = [k \in 0..n |-> run[k]]
  OBVIOUS
<1> HIDE DEF run
<1> DEFINE T == {k \in 0..n : run[k] \in V}
<1>14. 0 \in T
  BY <1>0, <1>2, <1>10
<1>15. ASSUME NEW k \in 0 .. n - 1, k \in T
       PROVE  k + 1 \in T
  <2>1. run[k + 1] \in V
    <3>1. k + 1 \in 1..n /\ run[k] \in V
      BY <1>0, <1>15
    <3> QED
      BY <1>3, <1>11, <3>1
  <2> QED
    BY <1>0, <2>1
<1>16. 0..n \subseteq T
  <2>1. T \in SUBSET Nat
    BY <1>0
  <2> HIDE DEF T
  <2> QED
    BY <1>0, <1>14, <1>15, <2>1, Induction
<1>17. run \in [0..n -> V]
  BY <1>13, <1>16
<1> QED
  BY <1>10, <1>11, <1>12, <1>17 DEF n, Turn, V, NodesRun

\* What is read of a document has items at finitely many positions.
LEMMA ReadNodesTyped ==
  ASSUME NEW S, \A n \in S : NodeReadable(n), NEW doc \in Seq(S)
  PROVE  ReadNodes(doc).items \in ItemMaps
<1>1. PICK run \in [0..Len(doc) -> ReadStates] : run[Len(doc)] = ReadNodes(doc)
  BY NodesLoop
<1>2. Len(doc) \in 0..Len(doc)
  BY LenProperties
<1>3. ReadNodes(doc) \in ReadStates
  BY <1>1, <1>2
<1> QED
  BY <1>3 DEF ReadStates

\* An array of one dimension is read as it was written, whatever the order of the hash.
LEMMA WrittenIsRead ==
  ASSUME NEW items \in ItemMaps, NEW ps \in SetToSeqs(DOMAIN items),
         NEW doc, doc = [i \in DOMAIN ps |-> [node |-> "item", item |-> items[ps[i]], at |-> <<ps[i]>>]]
  PROVE  ReadNodes(doc).items = items
<1> DEFINE N == Cardinality(DOMAIN items)
<1>1. items \in [DOMAIN items -> Item] /\ DOMAIN items \in SUBSET Int /\ IsFiniteSet(DOMAIN items)
  BY ItemMapTyped
<1>2. N \in Nat
  BY <1>1, FS_CardinalityType
<1>3. ps \in [1..N -> DOMAIN items] /\ \A i, j \in 1..N : i # j => ps[i] # ps[j]
  BY DEF SetToSeqs
<1> HIDE DEF N
<1>4. ASSUME NEW p \in DOMAIN items
      PROVE  \E i \in 1..N : ps[i] = p
  <2>1. ps \in Injection(1..N, DOMAIN items)
    BY <1>3 DEF Injection, IsInjective
  <2>2. Cardinality(1..N) = N
    <3>1. 1 \in Int /\ N \in Int
      BY <1>2
    <3>2. Cardinality(1..N) = IF 1 > N THEN 0 ELSE N - 1 + 1
      BY <3>1, FS_Interval
    <3> QED
      BY <1>2, <3>2
  <2>3. ps \in Surjection(1..N, DOMAIN items)
    BY <1>1, <2>1, <2>2, FS_Injection DEF N
  <2> QED
    BY <2>3 DEF Surjection
<1> DEFINE Node(i) == [node |-> "item", item |-> items[ps[i]], at |-> <<ps[i]>>]
           S == {Node(i) : i \in 1..N}
<1>5. DOMAIN ps = 1..N /\ doc = [i \in 1..N |-> Node(i)]
  BY <1>3
<1>6. ASSUME NEW i \in 1..N
      PROVE  NodeReadable(Node(i))
  <2>1. items[ps[i]] \in Item /\ ps[i] \in Int
    BY <1>1, <1>3
  <2>2. <<ps[i]>>[1] = ps[i]
    OBVIOUS
  <2> QED
    BY <2>1, <2>2 DEF NodeReadable
<1>7. doc \in Seq(S) /\ Len(doc) = N /\ \A i \in 1..N : doc[i] = Node(i)
  <2>1. doc \in [1..N -> S]
    BY <1>5
  <2> HIDE DEF S
  <2>2. doc \in Seq(S) /\ Len(doc) = N
    BY <1>2, <2>1, IsSequence
  <2> QED
    BY <1>5, <2>2
<1>8. \A n \in S : NodeReadable(n)
  BY <1>6
<1> HIDE DEF S
<1>9. PICK run \in [0..N -> ReadStates] : NodesRun(run, doc) /\ run[N] = ReadNodes(doc)
  BY <1>7, <1>8, NodesLoop
<1> DEFINE Seen(k) == {ps[j] : j \in 1..k}
           T == {k \in 0..N : run[k].items = [p \in Seen(k) |-> items[p]] /\ ~run[k].failed}
<1>10. 0 \in T
  <2>1. Seen(0) = {}
    OBVIOUS
  <2>2. run[0] = NothingRead
    BY <1>9 DEF NodesRun
  <2>3. [p \in Seen(0) |-> items[p]] = NoItems
    BY <2>1 DEF NoItems
  <2> HIDE DEF Seen
  <2> QED
    BY <1>2, <2>2, <2>3 DEF NothingRead
<1>11. ASSUME NEW k \in 0 .. N - 1, k \in T
       PROVE  k + 1 \in T
  <2>1. k \in Nat /\ k + 1 \in 1..N /\ k + 1 \in 0..N
    BY <1>2
  <2>2. run[k + 1] = ReadNode(run[k], Node(k + 1))
    BY <1>7, <1>9, <2>1 DEF NodesRun
  <2> DEFINE q == ps[k + 1]
             v == items[q]
  <2>3. Node(k + 1).node = "item" /\ Node(k + 1).item = v /\ Node(k + 1).at = <<q>>
    OBVIOUS
  <2>4. run[k].items = [p \in Seen(k) |-> items[p]] /\ ~run[k].failed
    BY <1>11
  <2>5. Seen(k + 1) = Seen(k) \cup {q}
    BY <2>1
  <2> HIDE DEF Node, q, T, Seen
  <2>6. <<q>> # <<>> /\ Len(<<q>>) = 1 /\ <<q>>[1] = q
    OBVIOUS
  <2>7. run[k + 1] = [items |-> Put(run[k].items, q, v), pos |-> q + 1, failed |-> FALSE]
    <3> HIDE DEF v
    <3> QED
      BY <2>2, <2>3, <2>4, <2>6 DEF ReadNode
  <2>8. run[k + 1].items = Put([p \in Seen(k) |-> items[p]], q, v) /\ ~run[k + 1].failed
    BY <2>4, <2>7
  <2>9. Put([p \in Seen(k) |-> items[p]], q, v) = [p \in Seen(k + 1) |-> items[p]]
    BY <2>5 DEF Put
  <2> QED
    BY <2>1, <2>8, <2>9 DEF T
<1>12. 0..N \subseteq T
  <2>1. T \in SUBSET Nat
    BY <1>2
  <2> HIDE DEF T
  <2> QED
    BY <1>2, <1>10, <1>11, <2>1, Induction
<1>13. N \in T
  <2> HIDE DEF T
  <2> QED
    BY <1>2, <1>12
<1>14. Seen(N) = DOMAIN items
  BY <1>3, <1>4
<1>15. [p \in Seen(N) |-> items[p]] = items
  BY <1>1, <1>14
<1> HIDE DEF Seen
<1> QED
  BY <1>9, <1>13, <1>15

\* Items that all say the same number, or several (read as 0), are read into one place.
LEMMA OneIsRead ==
  ASSUME NEW S, NEW doc \in Seq(S), NEW u \in Int, \A n \in S : NodeReadable(n),
         \A n \in S : \/ n.node = "comment"
                      \/ n.node = "item" /\ (n.at = <<u>> \/ (Len(n.at) > 1 /\ u = 0)),
         NEW i \in 1..Len(doc), doc[i].node = "item"
  PROVE  LET items == ReadNodes(doc).items
         IN DOMAIN items = {u} /\ items[u] \in {n.item : n \in {m \in S : m.node = "item"}}
<1> DEFINE N == Len(doc)
           Items == {n.item : n \in {m \in S : m.node = "item"}}
           One(items) == DOMAIN items = {u} /\ items[u] \in Items
<1>1. PICK run \in [0..N -> ReadStates] : NodesRun(run, doc) /\ run[N] = ReadNodes(doc)
  BY NodesLoop
<1>2. N \in Nat /\ i \in 1..N /\ \A k \in 1..N : doc[k] \in S
  BY LenProperties, ElementOfSeq
<1> HIDE DEF N
<1>3. run[0] = NothingRead /\ \A k \in 0 .. N - 1 : run[k + 1] = ReadNode(run[k], doc[k + 1])
  BY <1>1 DEF NodesRun, N
<1> DEFINE Good(k) == /\ ~run[k].failed
                      /\ run[k].items = NoItems \/ One(run[k].items)
                      /\ i <= k => One(run[k].items)
           T == {k \in 0..N : Good(k)}
<1>4. 0 \in T
  <2>1. 0 \in 0..N /\ ~(i <= 0)
    BY <1>2
  <2>2. ~run[0].failed /\ run[0].items = NoItems
    BY <1>3 DEF NothingRead
  <2> HIDE DEF One
  <2> QED
    BY <2>1, <2>2
<1>5. ASSUME NEW k \in 0 .. N - 1, k \in T
      PROVE  k + 1 \in T
  <2>1. k + 1 \in 1..N /\ k + 1 \in 0..N /\ k \in Nat
    BY <1>2
  <2> DEFINE n == doc[k + 1]
  <2>2. n \in S /\ run[k + 1] = ReadNode(run[k], n)
    BY <1>2, <1>3, <2>1
  <2> HIDE DEF n
  <2>3. n.node = "comment" \/ (n.node = "item" /\ (n.at = <<u>> \/ (Len(n.at) > 1 /\ u = 0)))
    BY <2>2
  <2>4. Good(k)
    BY <1>5
  <2>5. CASE n.node = "comment"
    <3>1. run[k + 1] = run[k]
      BY <2>2, <2>5 DEF ReadNode
    <3>2. i # k + 1
      BY <2>5 DEF n
    <3>3. i <= k + 1 => i <= k
      BY <1>2, <2>1, <3>2
    <3> HIDE DEF One
    <3>4. Good(k + 1)
      BY <2>4, <3>1, <3>3
    <3> QED
      BY <2>1, <3>4
  <2>6. CASE n.node = "item"
    <3> DEFINE q == IF n.at = <<>> THEN run[k].pos ELSE IF Len(n.at) = 1 THEN n.at[1] ELSE 0
    <3>1. q = u
      <4>1. CASE n.at = <<u>>
        <5>1. <<u>> # <<>> /\ Len(<<u>>) = 1 /\ <<u>>[1] = u
          OBVIOUS
        <5> QED
          BY <4>1, <5>1
      <4>2. CASE Len(n.at) > 1 /\ u = 0
        <5>1. Len(<<>>) = 0
          OBVIOUS
        <5>2. n.at # <<>>
          <6>1. n.at = <<>> => Len(n.at) = 0
            BY <5>1, Zenon
          <6> QED
            BY <4>2, <6>1
        <5>3. Len(n.at) # 1
          <6>1. ~(1 > 1)
            OBVIOUS
          <6>2. Len(n.at) = 1 => Len(n.at) > 1 /\ ~(Len(n.at) > 1)
            BY <4>2, <6>1, Zenon
          <6> QED
            BY <6>2, Zenon
        <5> QED
          BY <4>2, <5>2, <5>3
      <4> QED
        BY <2>3, <2>6, <4>1, <4>2
    <3>2. run[k + 1] = [items |-> Put(run[k].items, q, n.item), pos |-> q + 1, failed |-> FALSE]
      BY <2>2, <2>4, <2>6 DEF ReadNode
    <3> HIDE DEF q
    <3>3. run[k + 1].items = Put(run[k].items, u, n.item) /\ ~run[k + 1].failed
      BY <3>1, <3>2
    <3>4. DOMAIN run[k].items \subseteq {u}
      <4>1. DOMAIN NoItems = {}
        BY DEF NoItems
      <4> QED
        BY <2>4, <4>1
    <3>5. n.item \in Items
      BY <2>2, <2>6
    <3> HIDE DEF Items
    <3>6. One(run[k + 1].items)
      BY <3>3, <3>4, <3>5 DEF Put
    <3> HIDE DEF One
    <3> QED
      BY <2>1, <3>3, <3>6
  <2> QED
    BY <2>3, <2>5, <2>6
<1>6. 0..N \subseteq T
  <2>1. T \in SUBSET Nat
    BY <1>2
  <2> HIDE DEF T
  <2> QED
    BY <1>2, <1>4, <1>5, <2>1, Induction
<1>7. N \in 0..N /\ i <= N
  BY <1>2
<1>8. Good(N)
  BY <1>6, <1>7
<1> QED
  BY <1>1, <1>7, <1>8

-----------------------------------------------------------------------------
(* The array *)

\* The values an array takes.
Arrays == [order : {-1} \cup 1..5, sizes : Seq(Nat), lastIndex : Nat, type : ArrayTypes, items : ItemMaps]

\* An array has as many sizes as dimensions.  One that was cleared has a size still.
ArrayShaped ==
  /\ array \in Arrays
  /\ IF array.order > 1 THEN array.sizes \in [1..array.order -> Nat \ {0}]
     ELSE array.sizes \in [1..1 -> Nat]
  /\ hung \in BOOLEAN /\ counted \in BOOLEAN /\ several \subseteq Item

\* placed has what is in the array.
PlacedTrue ==
  IF array.order > 1
  THEN \A c \in InShape(array.sizes) :
         ItemAt(Absolute(array.sizes, c)) = IF c \in DOMAIN placed THEN placed[c] ELSE NoItem
  ELSE /\ DOMAIN placed = {<<p>> : p \in DOMAIN array.items}
       /\ \A p \in DOMAIN array.items : placed[<<p>>] = array.items[p]

\* lastIndex is no less than any position that is taken.
LastIsLast == counted => array.order = 1 /\ \A p \in DOMAIN array.items : p <= array.lastIndex

\* The inductive invariant.
ArrayInv == ArrayShaped /\ PlacedTrue /\ OneOfSeveral /\ LastIsLast

\* The coordinates of a position.
LEMMA CoordinatesFound ==
  ASSUME NEW n \in 2..5, NEW sizes \in [1..n -> Nat \ {0}], NEW p
  PROVE  CoordinatesOf(sizes, p) = {c \in InShape(sizes) : Absolute(sizes, c) = p}
<1>1. n \in Nat /\ Len(sizes) = n /\ n # 1
  BY IsSequence
<1>2. CoordinatesOf(sizes, p) = {c \in InShape(sizes) : Rank(InShape(sizes), c) = p}
  BY <1>1 DEF CoordinatesOf
<1>3. \A c \in InShape(sizes) : Rank(InShape(sizes), c) = Absolute(sizes, c)
  BY <1>1, ShapeCoordinates, RankIsAbsolute
<1> QED
  BY <1>2, <1>3

\* With one dimension, the position is the coordinate.
LEMMA OneCoordinate ==
  ASSUME NEW sizes \in [1..1 -> Nat]
  PROVE  /\ \A p : CoordinatesOf(sizes, p) = {<<p>>}
         /\ \A p \in Nat : Absolute(sizes, <<p>>) = p
<1>1. Len(sizes) = 1 /\ 1 \in Nat
  BY IsSequence
<1>2. ASSUME NEW p \in Nat
      PROVE  Absolute(sizes, <<p>>) = p
  <2> DEFINE c == <<p>>
  <2>1. c \in [1..1 -> Nat] /\ c[1] = p
    OBVIOUS
  <2> HIDE DEF c
  <2>2. PICK f \in [0..1 -> Nat] : RunsToPosition(f, 1, sizes, c) /\ f[1] = Absolute(sizes, c)
    BY <1>1, <2>1, AbsoluteLoop
  <2>3. 0 \in 0 .. 1 - 1 /\ 0 + 1 = 1
    OBVIOUS
  <2>4. f[0] = 0 /\ f[1] = f[0] * sizes[1] + c[1]
    BY <2>2, <2>3 DEF RunsToPosition
  <2>5. sizes[1] \in Nat
    OBVIOUS
  <2>6. f[1] = p
    BY <2>1, <2>4, <2>5
  <2> QED
    BY <2>2, <2>6 DEF c
<1> QED
  BY <1>1, <1>2 DEF CoordinatesOf

\* What is noted of items: each by its coordinates, those without any left out.
LEMMA NotedOne ==
  ASSUME NEW sizes \in [1..1 -> Nat], NEW items
  PROVE  /\ DOMAIN Noted(sizes, items) = {<<p>> : p \in DOMAIN items}
         /\ \A p \in DOMAIN items : Noted(sizes, items)[<<p>>] = items[p]
<1>1. Len(sizes) = 1
  <2>1. 1 \in Nat
    OBVIOUS
  <2> QED
    BY <2>1, IsSequence
<1>2. Noted(sizes, items) = [c \in {<<p>> : p \in DOMAIN items} |-> items[c[1]]]
  BY <1>1 DEF Noted
<1>3. \A p : <<p>>[1] = p
  OBVIOUS
<1> QED
  BY <1>2, <1>3

LEMMA NotedAmong ==
  ASSUME NEW n \in 2..5, NEW sizes \in [1..n -> Nat \ {0}], NEW items, NEW c \in InShape(sizes)
  PROVE  /\ c \in DOMAIN Noted(sizes, items) <=> Absolute(sizes, c) \in DOMAIN items
         /\ c \in DOMAIN Noted(sizes, items) => Noted(sizes, items)[c] = items[Absolute(sizes, c)]
<1>1. n \in Nat /\ Len(sizes) = n /\ n # 1
  BY IsSequence
<1>2. Noted(sizes, items) =
        [d \in {e \in InShape(sizes) : Rank(InShape(sizes), e) \in DOMAIN items} |-> items[Rank(InShape(sizes), d)]]
  BY <1>1 DEF Noted
<1>3. Rank(InShape(sizes), c) = Absolute(sizes, c)
  BY <1>1, ShapeCoordinates, RankIsAbsolute
<1> QED
  BY <1>2, <1>3

\* What an insertion does, by its parts.
LEMMA InsertedParts ==
  ASSUME ArrayInv, NEW p \in Int, NEW item \in Item, p \in Nat \/ array.order > 1,
         array' = Inserted(p, item), UNCHANGED <<hung, counted>>, several' = {}
  PROVE  /\ ArrayShaped' /\ LastIsLast' /\ OneOfSeveral'
         /\ array'.items = Put(array.items, p, item) /\ array'.sizes = array.sizes
         /\ (array'.order > 1 <=> array.order > 1)
<1>1. /\ array.order \in {-1} \cup 1..5 /\ array.sizes \in Seq(Nat) /\ array.lastIndex \in Nat
      /\ array.items \in ItemMaps
  BY DEF ArrayInv, ArrayShaped, Arrays
<1>2. /\ array'.order = IF array.order = -1 THEN 1 ELSE array.order
      /\ array'.sizes = array.sizes
      /\ array'.lastIndex = IF array.order = 1 /\ p > array.lastIndex THEN p ELSE array.lastIndex
      /\ array'.type = item.type
      /\ array'.items = Put(array.items, p, item)
  BY DEF Inserted
<1>3. item.type \in ArrayTypes
  BY DEF ArrayTypes
<1>4. Put(array.items, p, item) \in ItemMaps
  BY <1>1, PutTyped
<1>5. array'.lastIndex \in Nat /\ array'.order \in {-1} \cup 1..5 /\ (array'.order > 1 <=> array.order > 1)
  BY <1>1, <1>2
<1>6. array' = [order |-> array'.order, sizes |-> array'.sizes, lastIndex |-> array'.lastIndex,
                type |-> array'.type, items |-> array'.items]
  BY DEF Inserted
<1>7. array' \in Arrays
  <2>1. array'.sizes \in Seq(Nat) /\ array'.type \in ArrayTypes /\ array'.items \in ItemMaps
    BY <1>1, <1>2, <1>3, <1>4
  <2> QED
    BY <1>5, <1>6, <2>1 DEF Arrays
<1>8. ArrayShaped'
  <2>1. IF array'.order > 1 THEN array'.sizes \in [1..array'.order -> Nat \ {0}]
        ELSE array'.sizes \in [1..1 -> Nat]
    <3>1. array.order > 1 => array'.order = array.order
      BY <1>1, <1>2
    <3> QED
      BY <1>2, <1>5, <3>1 DEF ArrayInv, ArrayShaped
  <2> QED
    BY <1>7, <2>1 DEF ArrayInv, ArrayShaped
<1>9. LastIsLast'
  <2> SUFFICES ASSUME counted' PROVE array'.order = 1 /\ \A q \in DOMAIN array'.items : q <= array'.lastIndex
    BY DEF LastIsLast
  <2>1. array.order = 1 /\ \A q \in DOMAIN array.items : q <= array.lastIndex
    BY DEF ArrayInv, LastIsLast
  <2>2. DOMAIN array.items \subseteq Int
    BY <1>1, ItemMapTyped
  <2>3. DOMAIN array'.items = DOMAIN array.items \cup {p}
    BY <1>2 DEF Put
  <2>4. ASSUME NEW q \in DOMAIN array'.items PROVE q <= array'.lastIndex
    <3>1. array'.lastIndex = IF p > array.lastIndex THEN p ELSE array.lastIndex
      BY <1>2, <2>1
    <3>2. q = p \/ (q \in Int /\ q <= array.lastIndex)
      BY <2>1, <2>2, <2>3
    <3> QED
      BY <1>1, <3>1, <3>2
  <2> QED
    BY <1>2, <2>1, <2>4
<1>10. OneOfSeveral'
  BY DEF OneOfSeveral
<1> QED
  BY <1>2, <1>5, <1>8, <1>9, <1>10

\* placed after some coordinates took an item.
Placing(coordinates, item) ==
  [c \in coordinates \cup DOMAIN placed |-> IF c \in coordinates THEN item ELSE placed[c]]

\* With one dimension.
LEMMA PlacedOne ==
  ASSUME ArrayInv, ~(array.order > 1), NEW p, NEW item,
         array'.items = Put(array.items, p, item), ~(array'.order > 1),
         placed' = Placing({<<p>>}, item)
  PROVE  PlacedTrue'
<1> SUFFICES /\ DOMAIN placed' = {<<q>> : q \in DOMAIN array'.items}
             /\ \A q \in DOMAIN array'.items : placed'[<<q>>] = array'.items[q]
  BY DEF PlacedTrue
<1>1. /\ DOMAIN placed = {<<q>> : q \in DOMAIN array.items}
      /\ \A q \in DOMAIN array.items : placed[<<q>>] = array.items[q]
  BY DEF ArrayInv, PlacedTrue
<1>2. DOMAIN array'.items = DOMAIN array.items \cup {p}
  BY DEF Put
<1>3. \A q \in DOMAIN array'.items : array'.items[q] = IF q = p THEN item ELSE array.items[q]
  BY DEF Put
<1>4. DOMAIN placed' = {<<p>>} \cup DOMAIN placed
  BY DEF Placing
<1>5. ASSUME NEW q \in DOMAIN array'.items
      PROVE  placed'[<<q>>] = array'.items[q]
  <2>1. <<q>> \in DOMAIN placed'
    BY <1>1, <1>2, <1>4
  <2>2. placed'[<<q>>] = IF <<q>> \in {<<p>>} THEN item ELSE placed[<<q>>]
    BY <2>1 DEF Placing
  <2>3. CASE q = p
    BY <1>3, <2>2, <2>3
  <2>4. CASE q # p
    <3>1. <<q>> # <<p>>
      <4>1. <<q>>[1] = q /\ <<p>>[1] = p
        OBVIOUS
      <4> QED
        BY <2>4, <4>1
    <3>2. q \in DOMAIN array.items
      BY <1>2, <2>4
    <3> QED
      BY <1>1, <1>3, <2>2, <2>4, <3>1, <3>2
  <2> QED
    BY <2>3, <2>4
<1> QED
  BY <1>1, <1>2, <1>4, <1>5

\* With more of them: the item is found at the coordinates of its position alone.
LEMMA PlacedAmong ==
  ASSUME ArrayInv, array.order > 1, NEW p, NEW item, NEW coordinates,
         coordinates = {c \in InShape(array.sizes) : Absolute(array.sizes, c) = p},
         array'.items = Put(array.items, p, item), array'.order > 1, array'.sizes = array.sizes,
         placed' = Placing(coordinates, item)
  PROVE  PlacedTrue'
<1> SUFFICES ASSUME NEW c \in InShape(array.sizes)
             PROVE  ItemAt(Absolute(array.sizes, c))' = IF c \in DOMAIN placed' THEN placed'[c] ELSE NoItem
  BY DEF PlacedTrue
<1> DEFINE a == Absolute(array.sizes, c)
<1>1. ItemAt(a) = IF c \in DOMAIN placed THEN placed[c] ELSE NoItem
  BY DEF ArrayInv, PlacedTrue
<1>2. Absolute(array.sizes, c)' = a
  <2>1. array.sizes' = array.sizes
    OBVIOUS
  <2> QED
    BY <2>1
<1>3. ItemAt(Absolute(array.sizes, c))' = IF a \in DOMAIN array'.items THEN array'.items[a] ELSE NoItem
  BY <1>2 DEF ItemAt
<1>4. c \in coordinates <=> a = p
  OBVIOUS
<1> HIDE DEF a
<1>5. CASE a = p
  <2>1. c \in DOMAIN placed' /\ placed'[c] = item
    BY <1>4, <1>5 DEF Placing
  <2>2. a \in DOMAIN array'.items /\ array'.items[a] = item
    BY <1>5 DEF Put
  <2> QED
    BY <1>3, <2>1, <2>2
<1>6. CASE a # p
  <2>1. (c \in DOMAIN placed' <=> c \in DOMAIN placed) /\ (c \in DOMAIN placed => placed'[c] = placed[c])
    BY <1>4, <1>6 DEF Placing
  <2>2. /\ a \in DOMAIN array'.items <=> a \in DOMAIN array.items
        /\ a \in DOMAIN array.items => array'.items[a] = array.items[a]
    BY <1>6 DEF Put
  <2> QED
    BY <1>1, <1>3, <2>1, <2>2 DEF ItemAt
<1> QED
  BY <1>5, <1>6

-----------------------------------------------------------------------------
(* The invariant of the array, action by action *)

\* A new array has no items.
LEMMA ArrayInitially == ArrayInit => ArrayInv
<1> SUFFICES ASSUME ArrayInit PROVE ArrayInv
  OBVIOUS
<1>1. PICK sizes \in Shape, type \in ArrayTypes : array = NewArray(sizes, type)
  BY DEF ArrayInit
<1>2. sizes \in Seq(Nat \ {0}) /\ Len(sizes) \in 1..5
  BY ArrayAssumption
<1>3. sizes \in [1..Len(sizes) -> Nat \ {0}] /\ sizes \in Seq(Nat)
  BY <1>2
<1>4. /\ array.order = Len(sizes) /\ array.sizes = sizes /\ array.lastIndex = 0
      /\ array.type = type /\ array.items = NoItems
  BY <1>1 DEF NewArray
<1>5. array \in Arrays
  BY <1>1, <1>2, <1>3, NoItemsTyped DEF NewArray, Arrays
<1>6. ArrayShaped
  <2>1. IF array.order > 1 THEN array.sizes \in [1..array.order -> Nat \ {0}]
        ELSE array.sizes \in [1..1 -> Nat]
    <3>1. CASE array.order > 1
      BY <1>3, <1>4, <3>1
    <3>2. CASE ~(array.order > 1)
      <4>1. Len(sizes) = 1
        <5>1. PICK n \in 1..5 : n = Len(sizes)
          BY <1>2
        <5>2. ~(n > 1)
          BY <1>4, <3>2, <5>1
        <5>3. n = 1
          BY <5>2
        <5> QED
          BY <5>1, <5>3
      <4> QED
        BY <1>3, <1>4, <3>2, <4>1
    <3> QED
      BY <3>1, <3>2
  <2> QED
    BY <1>5, <2>1 DEF ArrayShaped, ArrayInit
<1>7. PlacedTrue
  <2>1. DOMAIN array.items = {} /\ placed = NoItems /\ DOMAIN placed = {}
    BY <1>4 DEF NoItems, ArrayInit
  <2> QED
    BY <2>1 DEF PlacedTrue, ItemAt
<1>8. LastIsLast
  <2>1. DOMAIN array.items = {}
    BY <1>4 DEF NoItems
  <2> QED
    BY <2>1 DEF LastIsLast, ArrayInit
<1>9. OneOfSeveral
  BY DEF OneOfSeveral, ArrayInit
<1> QED
  BY <1>6, <1>7, <1>8, <1>9 DEF ArrayInv

\* The coordinates noted are those whose position the item gets.
LEMMA InsertItemKeeps ==
  ASSUME ArrayInv, NEW p \in Position, NEW item \in Item, InsertItem(p, item)
  PROVE  ArrayInv'
<1>1. /\ array' = Inserted(p, item) /\ placed' = Placing(CoordinatesOf(array.sizes, p), item)
      /\ several' = {} /\ UNCHANGED <<hung, counted>>
  BY DEF InsertItem, Place, Placing
<1>2. p \in Nat /\ p \in Int
  BY ArrayAssumption
<1>3. /\ ArrayShaped' /\ LastIsLast' /\ OneOfSeveral'
      /\ array'.items = Put(array.items, p, item) /\ array'.sizes = array.sizes
      /\ (array'.order > 1 <=> array.order > 1)
  BY <1>1, <1>2, InsertedParts
<1>4. CASE array.order > 1
  <2>1. array.order \in 2..5 /\ array.sizes \in [1..array.order -> Nat \ {0}]
    BY <1>4 DEF ArrayInv, ArrayShaped, Arrays
  <2> DEFINE n == array.order
             sizes == array.sizes
  <2>2. n \in 2..5 /\ sizes \in [1..n -> Nat \ {0}]
    BY <2>1
  <2> HIDE DEF n, sizes
  <2>3. CoordinatesOf(sizes, p) = {c \in InShape(sizes) : Absolute(sizes, c) = p}
    BY <2>2, CoordinatesFound
  <2>4. CoordinatesOf(array.sizes, p) = {c \in InShape(array.sizes) : Absolute(array.sizes, c) = p}
    BY <2>3 DEF sizes
  <2>5. PlacedTrue'
    BY <1>1, <1>3, <1>4, <2>4, PlacedAmong
  <2> QED
    BY <1>3, <2>5 DEF ArrayInv
<1>5. CASE ~(array.order > 1)
  <2>1. array.sizes \in [1..1 -> Nat]
    BY <1>5 DEF ArrayInv, ArrayShaped
  <2>2. CoordinatesOf(array.sizes, p) = {<<p>>}
    BY <2>1, OneCoordinate
  <2>3. placed' = Placing({<<p>>}, item)
    BY <1>1, <2>2
  <2>4. PlacedTrue'
    BY <1>1, <1>3, <1>5, <2>3, PlacedOne
  <2> QED
    BY <1>3, <2>4 DEF ArrayInv
<1> QED
  BY <1>4, <1>5

\* Coordinates in range are the only ones of their position, and others are those of
\* another, or of none.
LEMMA InsertAmongKeeps ==
  ASSUME ArrayInv, NEW c \in InShape(array.sizes) \cup Stray, NEW item \in Item, InsertAmong(c, item)
  PROVE  ArrayInv'
<1> DEFINE n == array.order
           sizes == array.sizes
           p == Absolute(sizes, c)
<1>1. /\ array' = Inserted(p, item)
      /\ placed' = Placing(IF c \in InShape(sizes) THEN {c} ELSE CoordinatesOf(sizes, p), item)
      /\ UNCHANGED <<hung, counted>> /\ several' = {}
      /\ n > 1 /\ Len(c) = n
  BY DEF InsertAmong, Place, Placing
<1>2. n \in 2..5 /\ sizes \in [1..n -> Nat \ {0}]
  BY <1>1 DEF ArrayInv, ArrayShaped, Arrays
<1>3. c \in [1..n -> Nat]
  <2> HIDE DEF n, sizes
  <2>1. CASE c \in InShape(sizes)
    <3>1. n \in Nat
      BY <1>2
    <3> QED
      BY <1>2, <2>1, <3>1, ShapeCoordinates DEF Coordinates
  <2>2. CASE c \notin InShape(sizes)
    <3>1. c \in Seq(Nat)
      BY <2>2, ArrayAssumption DEF sizes
    <3> QED
      BY <1>1, <3>1
  <2> QED
    BY <2>1, <2>2
<1>4. p \in Int
  <2> HIDE DEF n, sizes
  <2>1. n \in Nat /\ sizes \in [1..n -> Nat]
    BY <1>2
  <2>2. PICK f \in [0..n -> Nat] : f[n] = p
    BY <1>3, <2>1, AbsoluteLoop
  <2> HIDE DEF p
  <2> QED
    BY <2>1, <2>2
<1>5. /\ ArrayShaped' /\ LastIsLast' /\ OneOfSeveral'
      /\ array'.items = Put(array.items, p, item) /\ array'.sizes = array.sizes
      /\ (array'.order > 1 <=> array.order > 1)
  <2> HIDE DEF p
  <2> QED
    BY <1>1, <1>4, InsertedParts
<1> DEFINE coordinates == IF c \in InShape(array.sizes) THEN {c} ELSE CoordinatesOf(array.sizes, p)
<1>6. coordinates = {d \in InShape(sizes) : Absolute(sizes, d) = p}
  <2>1. CASE c \in InShape(sizes)
    <3>1. n \in Nat
      BY <1>2
    <3> HIDE DEF n, sizes
    <3>2. InShape(sizes) = Coordinates(n, sizes)
      BY <1>2, <3>1, ShapeCoordinates
    <3>3. \A d \in InShape(sizes) : Absolute(sizes, d) = p => d = c
      BY <1>2, <2>1, <3>1, <3>2, PositionsDiffer
    <3>4. coordinates = {c}
      BY <2>1 DEF sizes
    <3> QED
      BY <2>1, <3>3, <3>4
  <2>2. CASE c \notin InShape(sizes)
    <3> HIDE DEF n, p
    <3>1. coordinates = CoordinatesOf(sizes, p)
      BY <2>2
    <3> HIDE DEF sizes, coordinates
    <3> QED
      BY <1>2, <3>1, CoordinatesFound
  <2> QED
    BY <2>1, <2>2
<1>7. placed' = Placing(coordinates, item) /\ array.order > 1
  BY <1>1
<1>8. coordinates = {d \in InShape(array.sizes) : Absolute(array.sizes, d) = p}
  BY <1>6
<1> HIDE DEF coordinates, p
<1>9. PlacedTrue'
  BY <1>5, <1>7, <1>8, PlacedAmong
<1> QED
  BY <1>5, <1>9 DEF ArrayInv

\* The item goes behind lastIndex, where there is none.
LEMMA AppendItemKeeps ==
  ASSUME ArrayInv, NEW item \in Item, AppendItem(item)
  PROVE  ArrayInv'
<1> DEFINE p == IF array.items = NoItems THEN 0 ELSE array.lastIndex + 1
<1>1. /\ array' = [order |-> 1, sizes |-> array.sizes, type |-> array.type,
                   lastIndex |-> IF array.items = NoItems THEN array.lastIndex ELSE p,
                   items |-> Put(array.items, p, item)]
      /\ placed' = Placing({<<p>>}, item)
      /\ several' = {} /\ UNCHANGED <<hung, counted>> /\ array.order = 1
  BY DEF AppendItem, Place, Placing
<1>2. /\ array.sizes \in Seq(Nat) /\ array.lastIndex \in Nat /\ array.type \in ArrayTypes
      /\ array.items \in ItemMaps /\ array.sizes \in [1..1 -> Nat]
      /\ hung \in BOOLEAN /\ counted \in BOOLEAN
  BY <1>1 DEF ArrayInv, ArrayShaped, Arrays
<1>3. p \in Nat
  BY <1>2
<1>4. Put(array.items, p, item) \in ItemMaps
  <2>1. p \in Int
    BY <1>3
  <2> HIDE DEF p
  <2> QED
    BY <1>2, <2>1, PutTyped
<1>5. /\ array'.order = 1 /\ array'.sizes = array.sizes /\ array'.items = Put(array.items, p, item)
      /\ array'.lastIndex = IF array.items = NoItems THEN array.lastIndex ELSE p
  BY <1>1
<1>6. ArrayShaped'
  <2>1. array' \in Arrays
    <3>1. (IF array.items = NoItems THEN array.lastIndex ELSE p) \in Nat
      BY <1>2, <1>3
    <3> HIDE DEF p
    <3> QED
      BY <1>1, <1>2, <1>4, <3>1 DEF Arrays
  <2> QED
    BY <1>1, <1>2, <1>5, <2>1 DEF ArrayShaped
<1>7. LastIsLast'
  <2> SUFFICES ASSUME counted', NEW q \in DOMAIN array'.items PROVE q <= array'.lastIndex
    BY <1>5 DEF LastIsLast
  <2>1. \A r \in DOMAIN array.items : r <= array.lastIndex
    BY <1>1 DEF ArrayInv, LastIsLast
  <2>2. DOMAIN array'.items = DOMAIN array.items \cup {p} /\ DOMAIN array.items \subseteq Int
    BY <1>2, <1>5, ItemMapTyped DEF Put
  <2>3. CASE array.items = NoItems
    <3>1. DOMAIN array.items = {}
      BY <2>3 DEF NoItems
    <3>2. q = 0 /\ array'.lastIndex = array.lastIndex
      BY <1>5, <2>2, <2>3, <3>1
    <3> QED
      BY <1>2, <3>2
  <2>4. CASE array.items # NoItems
    <3>1. array'.lastIndex = array.lastIndex + 1 /\ p = array.lastIndex + 1
      BY <1>5, <2>4
    <3>2. q = p \/ (q \in Int /\ q <= array.lastIndex)
      BY <2>1, <2>2
    <3> HIDE DEF p
    <3> QED
      BY <1>2, <3>1, <3>2
  <2> QED
    BY <2>3, <2>4
<1>8. PlacedTrue'
  <2>1. ~(array.order > 1) /\ ~(array'.order > 1)
    BY <1>1, <1>5
  <2> HIDE DEF p
  <2> QED
    BY <1>1, <1>5, <2>1, PlacedOne
<1>9. OneOfSeveral'
  BY <1>1 DEF OneOfSeveral
<1> QED
  BY <1>6, <1>7, <1>8, <1>9 DEF ArrayInv

\* Nothing is left, and nothing noted.
LEMMA ClearArrayKeeps ==
  ASSUME ArrayInv, ClearArray
  PROVE  ArrayInv'
<1>1. /\ array' = [NewArray(<<0>>, "Other") EXCEPT !.order = -1]
      /\ placed' = NoItems /\ several' = {} /\ counted' = FALSE /\ UNCHANGED hung
  BY DEF ClearArray
<1>2. array' = [order |-> -1, sizes |-> <<0>>, lastIndex |-> 0, type |-> "Other", items |-> NoItems]
  BY <1>1 DEF NewArray
<1>3. <<0>> \in Seq(Nat) /\ <<0>> \in [1..1 -> Nat] /\ "Other" \in ArrayTypes
  BY DEF ArrayTypes
<1>4. ArrayShaped'
  <2>1. array' \in Arrays
    BY <1>2, <1>3, NoItemsTyped DEF Arrays
  <2>2. hung' \in BOOLEAN
    BY <1>1 DEF ArrayInv, ArrayShaped
  <2>3. array'.sizes \in [1..1 -> Nat] /\ ~(array'.order > 1)
    BY <1>2, <1>3
  <2> QED
    BY <1>1, <2>1, <2>2, <2>3 DEF ArrayShaped
<1>5. PlacedTrue'
  <2>1. DOMAIN placed' = {} /\ DOMAIN array'.items = {} /\ ~(array'.order > 1)
    BY <1>1, <1>2 DEF NoItems
  <2> QED
    BY <2>1 DEF PlacedTrue
<1> QED
  BY <1>1, <1>4, <1>5 DEF ArrayInv, LastIsLast, OneOfSeveral

\* Only the type changes.
LEMMA CopyArrayKeeps ==
  ASSUME ArrayInv, CopyArray
  PROVE  ArrayInv'
<1>1. PICK type \in ArrayTypes : array' = [array EXCEPT !.type = type]
  BY DEF CopyArray
<1>2. UNCHANGED <<hung, placed, several, counted>>
  BY DEF CopyArray
<1>3. array \in Arrays
  BY DEF ArrayInv, ArrayShaped
<1>4. /\ array' \in Arrays /\ array'.order = array.order /\ array'.sizes = array.sizes
      /\ array'.items = array.items /\ array'.lastIndex = array.lastIndex
  BY <1>1, <1>3 DEF Arrays
<1>5. ArrayShaped'
  BY <1>2, <1>4 DEF ArrayInv, ArrayShaped
<1>6. PlacedTrue'
  BY <1>2, <1>4 DEF ArrayInv, PlacedTrue, ItemAt
<1>7. LastIsLast' /\ OneOfSeveral'
  BY <1>2, <1>4 DEF ArrayInv, LastIsLast, OneOfSeveral
<1> QED
  BY <1>5, <1>6, <1>7 DEF ArrayInv

\* What was read is noted anew, and if several coordinates were said it is in one place.
LEMMA ParseArrayKeeps ==
  ASSUME ArrayInv, NEW doc \in ArrayDocument, ParseArray(doc)
  PROVE  ArrayInv'
<1> DEFINE items == ReadNodes(doc).items
<1>1. /\ array' = [array EXCEPT !.items = items]
      /\ placed' = Noted(array.sizes, array'.items)
      /\ several' = SeveralSaid(doc) /\ counted' = FALSE /\ UNCHANGED hung
  BY DEF ParseArray
<1>2. items \in ItemMaps
  <2>1. doc \in Seq(ToSet(doc)) /\ \A n \in ToSet(doc) : NodeReadable(n)
    BY ArrayAssumption DEF NodeReadable
  <2> QED
    BY <2>1, ReadNodesTyped
<1>7. several' \subseteq Item /\ OneOfSeveral'
  <2> DEFINE S == ToSet(doc)
             I == {n.item : n \in {m \in S : m.node = "item"}}
             Said == \A n \in S : n.node = "comment" \/ (n.node = "item" /\ Len(n.at) > 1)
  <2>1. doc \in Seq(S) /\ \A n \in S : NodeReadable(n)
    BY ArrayAssumption DEF NodeReadable
  <2>2. several' = IF Said THEN I ELSE {}
    BY <1>1 DEF SeveralSaid
  <2>3. I \subseteq Item
    BY <2>1 DEF NodeReadable
  <2>4. array'.items = items
    BY <1>1 DEF ArrayInv, ArrayShaped, Arrays
  <2>5. S = {doc[i] : i \in 1..Len(doc)}
    <3>1. DOMAIN doc = 1..Len(doc)
      BY <2>1, LenProperties
    <3> QED
      BY <3>1 DEF ToSet
  <2> HIDE DEF S, items
  <2>6. ASSUME several' # {}
        PROVE  \E p \in DOMAIN array'.items : DOMAIN array'.items = {p} /\ array'.items[p] \in several'
    <3>1. Said /\ several' = I
      BY <2>2, <2>6
    <3>2. PICK m \in S : m.node = "item"
      BY <2>6, <3>1
    <3>3. PICK i \in 1..Len(doc) : doc[i] = m
      BY <2>5
    <3>4. \A n \in S : n.node = "comment" \/ (n.node = "item" /\ (n.at = <<0>> \/ (Len(n.at) > 1 /\ 0 = 0)))
      BY <3>1
    <3> HIDE DEF I, Said
    <3>5. DOMAIN items = {0} /\ items[0] \in {n.item : n \in {x \in S : x.node = "item"}}
      BY <2>1, <3>2, <3>3, <3>4, OneIsRead DEF items
    <3> QED
      BY <2>4, <3>1, <3>5 DEF I
  <2> QED
    BY <2>2, <2>3, <2>6 DEF OneOfSeveral
<1> HIDE DEF items
<1>3. array \in Arrays
  BY DEF ArrayInv, ArrayShaped
<1>4. /\ array' \in Arrays /\ array'.order = array.order /\ array'.sizes = array.sizes
      /\ array'.items = items
  BY <1>1, <1>2, <1>3 DEF Arrays
<1>5. ArrayShaped'
  <2>1. several' \subseteq Item
    BY <1>7
  <2>2. counted' \in BOOLEAN /\ hung' \in BOOLEAN
    BY <1>1 DEF ArrayInv, ArrayShaped
  <2>3. IF array'.order > 1 THEN array'.sizes \in [1..array'.order -> Nat \ {0}]
        ELSE array'.sizes \in [1..1 -> Nat]
    BY <1>4 DEF ArrayInv, ArrayShaped
  <2> QED
    BY <1>4, <2>1, <2>2, <2>3 DEF ArrayShaped
<1>6. PlacedTrue'
  <2> DEFINE sizes == array.sizes
  <2>1. placed' = Noted(sizes, items)
    BY <1>1, <1>4
  <2>2. CASE array.order > 1
    <3> DEFINE n == array.order
    <3>1. n \in 2..5 /\ sizes \in [1..n -> Nat \ {0}]
      BY <2>2 DEF ArrayInv, ArrayShaped, Arrays
    <3>2. ASSUME NEW c \in InShape(sizes)
          PROVE  /\ c \in DOMAIN placed' <=> Absolute(sizes, c) \in DOMAIN items
                 /\ c \in DOMAIN placed' => placed'[c] = items[Absolute(sizes, c)]
      <4> HIDE DEF n, sizes
      <4> QED
        BY <2>1, <3>1, NotedAmong
    <3> QED
      BY <1>4, <2>2, <3>2 DEF PlacedTrue, ItemAt
  <2>3. CASE ~(array.order > 1)
    <3>1. sizes \in [1..1 -> Nat]
      BY <2>3 DEF ArrayInv, ArrayShaped
    <3> HIDE DEF sizes
    <3>2. /\ DOMAIN placed' = {<<p>> : p \in DOMAIN items}
          /\ \A p \in DOMAIN items : placed'[<<p>>] = items[p]
      BY <2>1, <3>1, NotedOne
    <3> QED
      BY <1>4, <2>3, <3>2 DEF PlacedTrue
  <2> QED
    BY <2>2, <2>3
<1> QED
  BY <1>1, <1>5, <1>6, <1>7 DEF ArrayInv, LastIsLast

\* The iterator tells as many numbers as there are dimensions.
LEMMA NumbersTold ==
  ASSUME NEW n \in 2..5, NEW sizes \in [1..n -> Nat \ {0}], NEW p
  PROVE  Len(IteratorPos(sizes, p)) = n
<1> DEFINE At(k) == (IF k = 1 THEN p ELSE p % Weight(sizes, k - 1)) \div Weight(sizes, k)
           S == {At(k) : k \in 1..n}
<1>1. n \in Nat /\ n # 1 /\ DOMAIN sizes = 1..n
  OBVIOUS
<1>2. Len(sizes) = n
  BY <1>1, IsSequence
<1>3. IteratorPos(sizes, p) = [k \in 1..n |-> At(k)]
  BY <1>1, <1>2 DEF IteratorPos
<1> HIDE DEF At
<1>4. IteratorPos(sizes, p) \in [1..n -> S]
  BY <1>3
<1> HIDE DEF S
<1> QED
  BY <1>1, <1>4, IsSequence

\* What is written of one dimension is read as the same items, in any order of the hash;
\* of the items of more, or written with an unset number, one is read.
LEMMA SendArrayKeeps ==
  ASSUME ArrayInv, SendArray
  PROVE  ArrayInv'
<1>1. PICK doc \in Writings : array' = [NewArray(<<0>>, "Other") EXCEPT !.items = ReadNodes(doc).items]
  BY DEF SendArray
<1>2. /\ IF array.order = 1 THEN placed' = placed /\ several' = several
         ELSE /\ placed' = Noted(<<0>>, array'.items)
              /\ several' = {array.items[p] : p \in DOMAIN array.items}
      /\ counted' = FALSE /\ UNCHANGED hung
  BY DEF SendArray
<1>3. array.items \in ItemMaps /\ array.order \in {-1} \cup 1..5
  BY DEF ArrayInv, ArrayShaped, Arrays
<1>4. PICK ps \in SetToSeqs(DOMAIN array.items), unset \in Position :
        doc = [i \in DOMAIN ps |-> [node |-> "item", item |-> array.items[ps[i]],
                 at |-> IF array.order = -1 THEN <<unset>> ELSE IteratorPos(array.sizes, ps[i])]]
  BY <1>1 DEF Writings
<1>5. ps \in [1..Cardinality(DOMAIN array.items) -> DOMAIN array.items]
  BY DEF SetToSeqs
<1>6. Cardinality(DOMAIN array.items) \in Nat
  BY <1>3, ItemMapTyped, FS_CardinalityType
<1> DEFINE m == Cardinality(DOMAIN array.items)
           At(i) == IF array.order = -1 THEN <<unset>> ELSE IteratorPos(array.sizes, ps[i])
<1>7. ASSUME NEW i \in 1..m, Len(At(i)) = 1
      PROVE  At(i)[1] \in Int
  <2>1. ps[i] \in Int
    BY <1>3, <1>5, ItemMapTyped
  <2>2. CASE array.order = -1
    <3>1. unset \in Int /\ <<unset>>[1] = unset
      BY ArrayAssumption
    <3> QED
      BY <2>2, <3>1
  <2>3. CASE array.order = 1
    <3>1. array.sizes \in [1..1 -> Nat]
      BY <2>3 DEF ArrayInv, ArrayShaped
    <3>2. Len(array.sizes) = 1
      BY <3>1, IsSequence
    <3>3. At(i) = <<ps[i]>>
      BY <2>3, <3>2 DEF IteratorPos
    <3> QED
      BY <2>1, <3>3
  <2>4. CASE array.order \in 2..5
    <3>1. array.sizes \in [1..array.order -> Nat \ {0}]
      BY <2>4 DEF ArrayInv, ArrayShaped
    <3>2. At(i) = IteratorPos(array.sizes, ps[i])
      BY <2>4
    <3> DEFINE n == array.order
               sizes == array.sizes
    <3>3. n \in 2..5 /\ sizes \in [1..n -> Nat \ {0}]
      BY <2>4, <3>1
    <3> HIDE DEF n, sizes, At
    <3>4. Len(IteratorPos(sizes, ps[i])) = n
      BY <3>3, NumbersTold
    <3>5. Len(At(i)) = n
      BY <3>2, <3>4 DEF sizes
    <3> QED
      BY <1>7, <3>3, <3>5
  <2> QED
    BY <1>3, <2>2, <2>3, <2>4
<1>8. ReadNodes(doc).items \in ItemMaps
  <2> DEFINE Node(i) == [node |-> "item", item |-> array.items[ps[i]], at |-> At(i)]
             S == {Node(i) : i \in 1..m}
  <2>1. DOMAIN ps = 1..m
    BY <1>5
  <2>2. doc = [i \in 1..m |-> Node(i)]
    BY <1>4, <2>1
  <2>3. \A i \in 1..m : NodeReadable(Node(i))
    <3> SUFFICES ASSUME NEW i \in 1..m PROVE NodeReadable(Node(i))
      OBVIOUS
    <3>1. array.items[ps[i]] \in Item
      BY <1>3, <1>5, ItemMapTyped
    <3>2. Len(At(i)) = 1 => At(i)[1] \in Int
      BY <1>7
    <3> HIDE DEF At, m
    <3> QED
      BY <3>1, <3>2 DEF NodeReadable
  <2> HIDE DEF Node, At, m
  <2>4. doc \in [1..m -> S]
    BY <2>2
  <2>5. \A n \in S : NodeReadable(n)
    BY <2>3
  <2>6. m \in Nat
    BY <1>6 DEF m
  <2> HIDE DEF S
  <2>7. doc \in Seq(S)
    BY <2>4, <2>6, IsSequence
  <2> QED
    BY <2>5, <2>7, ReadNodesTyped
<1> DEFINE items == ReadNodes(doc).items
<1>9. array' = [order |-> 1, sizes |-> <<0>>, lastIndex |-> 0, type |-> "Other", items |-> items]
  <2>1. Len(<<0>>) = 1
    OBVIOUS
  <2> HIDE DEF items
  <2> QED
    BY <1>1, <2>1 DEF NewArray, items
<1>10. array.order = 1 => items = array.items
  <2> SUFFICES ASSUME array.order = 1 PROVE items = array.items
    OBVIOUS
  <2>1. array.sizes \in [1..1 -> Nat]
    BY DEF ArrayInv, ArrayShaped
  <2>2. Len(array.sizes) = 1
    BY <2>1, IsSequence
  <2>3. \A i \in DOMAIN ps : IteratorPos(array.sizes, ps[i]) = <<ps[i]>>
    BY <2>2 DEF IteratorPos
  <2>4. doc = [i \in DOMAIN ps |-> [node |-> "item", item |-> array.items[ps[i]], at |-> <<ps[i]>>]]
    BY <1>4, <2>3
  <2> QED
    BY <1>3, <2>4, WrittenIsRead
<1> HIDE DEF items, At, m
<1>11. ArrayShaped'
  <2>1. <<0>> \in Seq(Nat) /\ <<0>> \in [1..1 -> Nat] /\ "Other" \in ArrayTypes
    BY DEF ArrayTypes
  <2>2. array' \in Arrays
    BY <1>8, <1>9, <2>1 DEF Arrays, items
  <2>3. ~(array'.order > 1) /\ array'.sizes \in [1..1 -> Nat]
    BY <1>9, <2>1
  <2>4. several' \subseteq Item
    <3>1. several \subseteq Item /\ {array.items[p] : p \in DOMAIN array.items} \subseteq Item
      BY <1>3, ItemMapTyped DEF ArrayInv, ArrayShaped
    <3> QED
      BY <1>2, <3>1
  <2> QED
    BY <1>2, <2>2, <2>3, <2>4 DEF ArrayInv, ArrayShaped
<1>12. array'.items = items /\ array'.order = 1
  BY <1>9
<1>13. PlacedTrue'
  <2> SUFFICES /\ DOMAIN placed' = {<<p>> : p \in DOMAIN array'.items}
               /\ \A p \in DOMAIN array'.items : placed'[<<p>>] = array'.items[p]
    BY <1>12 DEF PlacedTrue
  <2>1. CASE array.order = 1
    <3>1. array'.items = array.items /\ placed' = placed /\ ~(array.order > 1)
      BY <1>2, <1>10, <1>12, <2>1
    <3> QED
      BY <3>1 DEF ArrayInv, PlacedTrue
  <2>2. CASE array.order # 1
    <3>1. placed' = Noted(<<0>>, array'.items) /\ <<0>> \in [1..1 -> Nat]
      BY <1>2, <2>2
    <3> QED
      BY <3>1, NotedOne
  <2> QED
    BY <2>1, <2>2
<1>14. OneOfSeveral'
  <2>1. CASE array.order = 1
    <3>1. array'.items = array.items /\ several' = several
      BY <1>2, <1>10, <1>12, <2>1
    <3> QED
      BY <3>1 DEF ArrayInv, OneOfSeveral
  <2>2. CASE array.order # 1
    <3>1. several' = {array.items[p] : p \in DOMAIN array.items}
      BY <1>2, <2>2
    <3>2. SUFFICES ASSUME several' # {}
                   PROVE  \E u \in DOMAIN items : DOMAIN items = {u} /\ items[u] \in several'
      BY <1>12 DEF OneOfSeveral
    <3> DEFINE u == IF array.order = -1 THEN unset ELSE 0
               S == {doc[i] : i \in 1..m}
    <3>3. u \in Int
      BY ArrayAssumption
    <3>4. \A i \in 1..m : At(i) = <<u>> \/ (Len(At(i)) > 1 /\ u = 0)
      <4> SUFFICES ASSUME NEW i \in 1..m PROVE At(i) = <<u>> \/ (Len(At(i)) > 1 /\ u = 0)
        OBVIOUS
      <4>1. CASE array.order = -1
        BY <4>1 DEF At
      <4>2. CASE array.order # -1
        <5> DEFINE n == array.order
                   sizes == array.sizes
        <5>1. n \in 2..5
          BY <1>3, <2>2, <4>2
        <5>2. sizes \in [1..n -> Nat \ {0}]
          BY <5>1 DEF ArrayInv, ArrayShaped
        <5>3. At(i) = IteratorPos(sizes, ps[i]) /\ u = 0
          BY <4>2 DEF At
        <5> HIDE DEF n, sizes, u
        <5>4. Len(IteratorPos(sizes, ps[i])) = n
          BY <5>1, <5>2, NumbersTold
        <5> QED
          BY <5>1, <5>3, <5>4
      <4> QED
        BY <4>1, <4>2
    <3> HIDE DEF u
    <3>5. m \in Nat /\ DOMAIN ps = 1..m
      BY <1>5, <1>6 DEF m
    <3>6. \A i \in 1..m : doc[i] = [node |-> "item", item |-> array.items[ps[i]], at |-> At(i)]
      BY <1>4, <3>5 DEF At
    <3>7. \A i \in 1..m : doc[i].node = "item" /\ doc[i].item = array.items[ps[i]] /\ doc[i].at = At(i)
      <4> SUFFICES ASSUME NEW i \in 1..m
                   PROVE  doc[i].node = "item" /\ doc[i].item = array.items[ps[i]] /\ doc[i].at = At(i)
        OBVIOUS
      <4> DEFINE x == array.items[ps[i]]
                 y == At(i)
      <4>1. doc[i] = [node |-> "item", item |-> x, at |-> y]
        BY <3>6
      <4> HIDE DEF x, y
      <4>2. doc[i].node = "item" /\ doc[i].item = x /\ doc[i].at = y
        BY <4>1
      <4> QED
        BY <4>2 DEF x, y
    <3>8. doc \in Seq(S) /\ Len(doc) = m
      <4>1. doc \in [1..m -> S]
        BY <1>4, <3>5
      <4> HIDE DEF S
      <4> QED
        BY <3>5, <4>1, IsSequence
    <3>9. \A n \in S : NodeReadable(n)
      <4> SUFFICES ASSUME NEW i \in 1..m PROVE NodeReadable(doc[i])
        OBVIOUS
      <4>1. array.items[ps[i]] \in Item
        BY <1>3, <1>5, ItemMapTyped DEF m
      <4>2. Len(At(i)) = 1 => At(i)[1] \in Int
        BY <1>7
      <4> QED
        BY <3>7, <4>1, <4>2 DEF NodeReadable
    <3>10. \A n \in S : n.node = "comment" \/ (n.node = "item" /\ (n.at = <<u>> \/ (Len(n.at) > 1 /\ u = 0)))
      BY <3>4, <3>7
    <3>11. 1 \in 1..Len(doc) /\ doc[1].node = "item"
      <4>1. m # 0
        <5>1. DOMAIN array.items # {}
          BY <3>1, <3>2
        <5> QED
          BY <1>3, <5>1, ItemMapTyped, FS_EmptySet DEF m
      <4>2. 1 \in 1..m
        BY <3>5, <4>1
      <4> QED
        BY <3>7, <3>8, <4>2
    <3>12. {n.item : n \in {x \in S : x.node = "item"}} \subseteq several'
      <4>1. \A i \in 1..m : array.items[ps[i]] \in several'
        BY <1>5, <3>1 DEF m
      <4> QED
        BY <3>7, <4>1
    <3> HIDE DEF S
    <3>13. DOMAIN items = {u} /\ items[u] \in {n.item : n \in {x \in S : x.node = "item"}}
      BY <3>3, <3>8, <3>9, <3>10, <3>11, OneIsRead DEF items
    <3> QED
      BY <3>12, <3>13
  <2> QED
    BY <2>1, <2>2
<1> QED
  BY <1>2, <1>11, <1>13, <1>14 DEF ArrayInv, LastIsLast

\* Every step keeps the invariant.
LEMMA ArrayStep == ArrayInv /\ [ArrayNext]_arrayVars => ArrayInv'
<1> SUFFICES ASSUME ArrayInv, [ArrayNext]_arrayVars PROVE ArrayInv'
  OBVIOUS
<1>1. CASE \E p \in Position, item \in Item : InsertItem(p, item)
  BY <1>1, InsertItemKeeps
<1>2. CASE \E c \in InShape(array.sizes) \cup Stray, item \in Item : InsertAmong(c, item)
  BY <1>2, InsertAmongKeeps
<1>3. CASE \E item \in Item : AppendItem(item)
  BY <1>3, AppendItemKeeps
<1>4. CASE ClearArray
  BY <1>4, ClearArrayKeeps
<1>5. CASE CopyArray
  BY <1>5, CopyArrayKeeps
<1>6. CASE \E doc \in ArrayDocument : ParseArray(doc)
  BY <1>6, ParseArrayKeeps
<1>7. CASE SendArray
  BY <1>7, SendArrayKeeps
<1>8. CASE WriteForever
  BY <1>8 DEF WriteForever, ArrayInv, ArrayShaped, PlacedTrue, OneOfSeveral, ItemAt, LastIsLast
<1>9. CASE UNCHANGED arrayVars
  BY <1>9 DEF arrayVars, ArrayInv, ArrayShaped, PlacedTrue, OneOfSeveral, ItemAt, LastIsLast
<1> QED
  BY <1>1, <1>2, <1>3, <1>4, <1>5, <1>6, <1>7, <1>8, <1>9 DEF ArrayNext

\* What is put into an array of SOAP is found at its coordinates and nowhere else, and of
\* one dimension also after it was sent; an array of two to five dimensions that is sent,
\* or read, leaves one of its items; the iterator tells the coordinates of each item but the
\* last two of five, which it tells in the wrong parts; and what is appended goes behind
\* all the others: insert(), at(), append(), toDomElement(), parse() and the iterator, for
\* arrays of every size and any number of items.
THEOREM ItemsAreHeld == ArraySpec => []ArrayHolds
<1>1. ArrayInv => ArrayHolds
  <2> SUFFICES ASSUME ArrayInv PROVE ArrayHolds
    OBVIOUS
  <2>1. ASSUME NEW c \in IF array.order > 1 THEN InShape(array.sizes) ELSE {<<p>> : p \in Position}
        PROVE  ItemAt(Absolute(array.sizes, c)) = IF c \in DOMAIN placed THEN placed[c] ELSE NoItem
    <3>1. CASE array.order > 1
      BY <2>1, <3>1 DEF ArrayInv, PlacedTrue
    <3>2. CASE ~(array.order > 1)
      <4>1. PICK p \in Position : c = <<p>>
        BY <2>1, <3>2
      <4>2. Absolute(array.sizes, c) = p
        <5>1. array.sizes \in [1..1 -> Nat] /\ p \in Nat
          BY <3>2, ArrayAssumption DEF ArrayInv, ArrayShaped
        <5> QED
          BY <4>1, <5>1, OneCoordinate
      <4>3. /\ DOMAIN placed = {<<q>> : q \in DOMAIN array.items}
            /\ \A q \in DOMAIN array.items : placed[<<q>>] = array.items[q]
        BY <2>1, <3>2 DEF ArrayInv, PlacedTrue
      <4>4. <<p>> \in DOMAIN placed <=> p \in DOMAIN array.items
        <5>1. \A q : <<q>> = <<p>> => q = p
          OBVIOUS
        <5> QED
          BY <4>3, <5>1
      <4> QED
        BY <4>1, <4>2, <4>3, <4>4 DEF ItemAt
    <3> QED
      BY <3>1, <3>2
  <2>2. CoordinatesTold
    <3> SUFFICES ASSUME array.order > 1, NEW p \in DOMAIN array.items, NEW c \in CoordinatesOf(array.sizes, p),
                        NEW told, told = IteratorPos(array.sizes, p)
                 PROVE  /\ \A k \in DOMAIN array.sizes :
                             k <= 3 \/ array.order # 5 \/ array.sizes[4] = array.sizes[5] => told[k] = c[k]
                        /\ array.order = 5 =>
                             /\ told[4] * array.sizes[4] + told[5] = c[4] * array.sizes[5] + c[5]
                             /\ told[5] < array.sizes[4]
      BY DEF CoordinatesTold
    <3> DEFINE n == array.order
               sizes == array.sizes
    <3>1. n \in 2..5 /\ sizes \in [1..n -> Nat \ {0}] /\ n \in Nat
      BY DEF ArrayInv, ArrayShaped, Arrays
    <3>2. c \in CoordinatesOf(sizes, p) /\ told = IteratorPos(sizes, p)
      OBVIOUS
    <3> HIDE DEF n, sizes
    <3>3. c \in InShape(sizes) /\ Absolute(sizes, c) = p
      <4>1. CoordinatesOf(sizes, p) = {d \in InShape(sizes) : Absolute(sizes, d) = p}
        BY <3>1, CoordinatesFound
      <4> QED
        BY <3>2, <4>1
    <3>4. c \in Coordinates(n, sizes) /\ DOMAIN sizes = 1..n
      BY <3>1, <3>3, ShapeCoordinates
    <3>5. \A k \in 1..n : k <= 3 \/ n # 5 \/ sizes[4] = sizes[5] => told[k] = c[k]
      <4> SUFFICES ASSUME NEW k \in 1..n, k <= 3 \/ n # 5 \/ sizes[4] = sizes[5]
                   PROVE  told[k] = c[k]
        OBVIOUS
      <4>1. IteratorPos(sizes, Absolute(sizes, c))[k] = c[k]
        BY <3>1, <3>4, IteratorTells
      <4> QED
        BY <3>2, <3>3, <4>1
    <3>6. n = 5 => told[4] * sizes[4] + told[5] = c[4] * sizes[5] + c[5] /\ told[5] < sizes[4]
      BY <3>1, <3>2, <3>3, <3>4, LastTwoTold
    <3> QED
      BY <3>4, <3>5, <3>6 DEF n, sizes
  <2>3. counted => \A p \in DOMAIN array.items : p <= array.lastIndex
    BY DEF ArrayInv, LastIsLast
  <2> QED
    BY <2>1, <2>2, <2>3 DEF ArrayHolds, ItemsFound, ArrayInv
<1> QED
  BY ArrayInitially, ArrayStep, <1>1, PTL DEF ArraySpec

-----------------------------------------------------------------------------
(* SoapMessage: lists of items, of which the first of a name is found *)

\* Sequences of fewer things are sequences of more.
LEMMA SeqGrows ==
  ASSUME NEW S, NEW T, S \subseteq T
  PROVE  Seq(S) \subseteq Seq(T)
<1> SUFFICES ASSUME NEW s \in Seq(S) PROVE s \in Seq(T)
  OBVIOUS
<1>1. Len(s) \in Nat /\ DOMAIN s = 1..Len(s) /\ \A i \in 1..Len(s) : s[i] \in S
  BY LenProperties, ElementOfSeq
<1> QED
  BY <1>1

\* at() by name finds the first of the name.
LEMMA FirstNamed ==
  ASSUME NEW S, NEW items \in Seq(S), NEW name,
         NEW i \in 1..Len(items), items[i].name = name, \A j \in 1 .. i - 1 : items[j].name # name
  PROVE  IndexOf(items, name) = i
<1> DEFINE At == {k \in 1..Len(items) : items[k].name = name}
           P(m) == m \in At /\ \A y \in At : m <= y
<1>1. Len(items) \in Nat
  BY LenProperties
<1>2. P(i)
  BY <1>1
<1>3. \A m : P(m) => m = i
  BY <1>1, <1>2
<1>4. IndexOf(items, name) = IF At # {} THEN CHOOSE m \in At : \A y \in At : m <= y ELSE 0
  BY DEF IndexOf, SelectInSeq, Min
<1> HIDE DEF At
<1> QED
  BY <1>2, <1>3, <1>4

\* at() by name finds nothing if nothing has the name.
LEMMA NoneNamed ==
  ASSUME NEW S, NEW items \in Seq(S), NEW name, \A j \in 1..Len(items) : items[j].name # name
  PROVE  IndexOf(items, name) = 0
<1> DEFINE At == {k \in 1..Len(items) : items[k].name = name}
<1>1. At = {}
  OBVIOUS
<1>2. IndexOf(items, name) = IF At # {} THEN CHOOSE m \in At : \A y \in At : m <= y ELSE 0
  BY DEF IndexOf, SelectInSeq, Min
<1> QED
  BY <1>1, <1>2

\* Some item has the name, or none has.
LEMMA NameFound ==
  ASSUME NEW S, NEW items \in Seq(S), NEW name
  PROVE  \/ /\ Has(items, name) /\ IndexOf(items, name) \in 1..Len(items)
            /\ items[IndexOf(items, name)].name = name
            /\ \A j \in 1 .. IndexOf(items, name) - 1 : items[j].name # name
         \/ /\ ~Has(items, name) /\ \A j \in 1..Len(items) : items[j].name # name
<1> DEFINE At == {k \in 1..Len(items) : items[k].name = name}
<1>1. Len(items) \in Nat /\ At \in SUBSET Nat
  BY LenProperties
<1>2. CASE At = {}
  BY <1>2, NoneNamed DEF Has
<1>3. CASE At # {}
  <2> HIDE DEF At
  <2>1. PICK k \in At : \A y \in At : k <= y
    BY <1>1, <1>3, LeastNumber
  <2>2. k \in 1..Len(items) /\ items[k].name = name
    BY <2>1 DEF At
  <2>3. \A j \in 1 .. k - 1 : items[j].name # name
    BY <1>1, <2>1, <2>2 DEF At
  <2>4. IndexOf(items, name) = k
    BY <2>2, <2>3, FirstNamed
  <2> QED
    BY <1>1, <2>2, <2>3, <2>4 DEF Has
<1> QED
  BY <1>2, <1>3

\* What is found by a name in one list as in another.
SameNamed(a, b, name) ==
  Has(a, name) = Has(b, name) /\ (Has(a, name) => ItemNamed(a, name) = ItemNamed(b, name))

\* The items of the first struct of a name.
ItemsOf(items, name) == IF Has(items, name) THEN ItemNamed(items, name).items ELSE <<>>

\* An item at the end is found if there was none of its name.
LEMMA AppendedNamed ==
  ASSUME NEW S, NEW items \in Seq(S), NEW x \in S, NEW name
  PROVE  /\ Has(items, name) \/ x.name # name => SameNamed(Append(items, x), items, name)
         /\ ~Has(items, name) /\ x.name = name =>
              Has(Append(items, x), name) /\ ItemNamed(Append(items, x), name) = x
         /\ x.items = <<>> => ItemsOf(Append(items, x), name) = ItemsOf(items, name)
<1> DEFINE more == Append(items, x)
           n == Len(items)
<1>0. n \in Nat
  BY LenProperties
<1>1. /\ more \in Seq(S) /\ Len(more) = n + 1 /\ more[n + 1] = x
      /\ \A i \in 1..n : more[i] = items[i]
  BY <1>0, AppendProperties
<1> HIDE DEF more, n
<1>2. CASE Has(items, name)
  <2> DEFINE i == IndexOf(items, name)
  <2>1. i \in 1..n /\ items[i].name = name /\ \A j \in 1 .. i - 1 : items[j].name # name
    BY <1>2, NameFound DEF n
  <2> HIDE DEF i
  <2>2. i \in 1..Len(more) /\ more[i].name = name /\ \A j \in 1 .. i - 1 : more[j].name # name
    BY <1>0, <1>1, <2>1
  <2>3. IndexOf(more, name) = i
    BY <1>1, <2>2, FirstNamed
  <2>4. SameNamed(more, items, name)
    BY <1>0, <1>1, <2>1, <2>3 DEF SameNamed, Has, ItemNamed, i
  <2> QED
    BY <1>2, <2>4 DEF SameNamed, ItemsOf, more
<1>3. CASE ~Has(items, name) /\ x.name = name
  <2>1. \A j \in 1..n : items[j].name # name
    BY <1>3, NameFound DEF n
  <2>2. n + 1 \in 1..Len(more) /\ more[n + 1].name = name /\ \A j \in 1..n : more[j].name # name
    BY <1>0, <1>1, <1>3, <2>1
  <2>3. IndexOf(more, name) = n + 1
    <3> DEFINE m == n + 1
    <3>0. m - 1 = n
      BY <1>0
    <3>1. m \in 1..Len(more) /\ more[m].name = name /\ \A j \in 1 .. m - 1 : more[j].name # name
      BY <2>2, <3>0
    <3> HIDE DEF m
    <3>2. IndexOf(more, name) = m
      BY <1>1, <3>1, FirstNamed
    <3> QED
      BY <3>2 DEF m
  <2>4. Has(more, name) /\ ItemNamed(more, name) = x
    BY <1>0, <1>1, <2>3 DEF Has, ItemNamed
  <2> QED
    BY <1>3, <2>4 DEF ItemsOf, more
<1>4. CASE ~Has(items, name) /\ x.name # name
  <2>1. \A j \in 1..n : items[j].name # name
    BY <1>4, NameFound DEF n
  <2>2. \A j \in 1..Len(more) : more[j].name # name
    BY <1>0, <1>1, <1>4, <2>1
  <2>3. ~Has(more, name)
    BY <1>1, <2>2, NoneNamed DEF Has
  <2>4. Has(more, name) = Has(items, name)
    BY <1>4, <2>3 DEF Has
  <2> QED
    BY <1>4, <2>3, <2>4 DEF SameNamed, ItemsOf, more
<1> QED
  BY <1>2, <1>3, <1>4

\* An item that takes the place of one of its name is found if that was, and nothing else
\* is found otherwise.
NamedAsBefore(new, items, S, i, x) ==
  /\ new \in Seq(S) /\ Len(new) = Len(items)
  /\ \A name : Has(new, name) = Has(items, name)
  /\ \A name : name # x.name => SameNamed(new, items, name)
  /\ \A name : Has(items, name) =>
       ItemNamed(new, name) = IF IndexOf(items, name) = i THEN x ELSE ItemNamed(items, name)

\* An item that is replaced by one of its name is found where it was.
LEMMA ReplacedNamed ==
  ASSUME NEW S, NEW items \in Seq(S), NEW i \in 1..Len(items), NEW x \in S, x.name = items[i].name
  PROVE  NamedAsBefore([items EXCEPT ![i] = x], items, S, i, x)
<1> DEFINE new == [items EXCEPT ![i] = x]
           n == Len(items)
<1>0. n \in Nat /\ items \in [1..n -> S]
  BY LenProperties
<1>1. /\ new \in Seq(S) /\ Len(new) = n
      /\ \A j \in 1..n : new[j] = IF j = i THEN x ELSE items[j]
  <2>1. new \in [1..n -> S] /\ \A j \in 1..n : new[j] = IF j = i THEN x ELSE items[j]
    BY <1>0
  <2> HIDE DEF new, n
  <2> QED
    BY <1>0, <2>1, IsSequence
<1>2. \A j \in 1..n : new[j].name = items[j].name
  BY <1>1
<1> HIDE DEF new
<1>3. ASSUME NEW name
      PROVE  IndexOf(new, name) = IndexOf(items, name)
  <2>1. CASE Has(items, name)
    <3> DEFINE k == IndexOf(items, name)
    <3>1. k \in 1..n /\ items[k].name = name /\ \A j \in 1 .. k - 1 : items[j].name # name
      BY <2>1, NameFound
    <3> HIDE DEF k, n
    <3>2. k \in 1..Len(new) /\ new[k].name = name /\ \A j \in 1 .. k - 1 : new[j].name # name
      BY <1>0, <1>1, <1>2, <3>1
    <3> QED
      BY <1>1, <3>2, FirstNamed DEF k
  <2>2. CASE ~Has(items, name)
    <3>1. \A j \in 1..n : items[j].name # name
      BY <2>2, NameFound
    <3>2. \A j \in 1..Len(new) : new[j].name # name
      BY <1>1, <1>2, <3>1
    <3>3. IndexOf(new, name) = 0
      BY <1>1, <3>2, NoneNamed
    <3> QED
      BY <2>2, <3>3 DEF Has
  <2> QED
    BY <2>1, <2>2
<1>4. ASSUME NEW name, Has(items, name)
      PROVE  ItemNamed(new, name) = IF IndexOf(items, name) = i THEN x ELSE ItemNamed(items, name)
  <2>1. IndexOf(items, name) \in 1..n
    BY <1>4, NameFound
  <2> QED
    BY <1>1, <1>3, <2>1 DEF ItemNamed
<1>5. \A name : Has(new, name) = Has(items, name)
  BY <1>3 DEF Has
<1>6. ASSUME NEW name, name # x.name PROVE SameNamed(new, items, name)
  <2>1. Has(items, name) => IndexOf(items, name) # i
    BY <1>6, NameFound
  <2> QED
    BY <1>4, <1>5, <2>1 DEF SameNamed
<1> QED
  BY <1>1, <1>4, <1>5, <1>6 DEF new, NamedAsBefore
-----------------------------------------------------------------------------
(* SoapMessage: what is defined of an item by what is in it, is there for every item.  *)
(* An item is as deep as what is in it and one more, so this goes from one depth to    *)
(* the next.                                                                           *)

\* Trees grow with what is in them.
LEMMA TreeGrows ==
  ASSUME NEW S, NEW R, S \subseteq R
  PROVE  Tree(S) \subseteq Tree(R)
<1>1. Seq(S) \subseteq Seq(R)
  BY SeqGrows
<1> QED
  BY <1>1 DEF Tree

Nodes1 == Tree({})
Nodes2 == Tree(Nodes1)
Nodes3 == Tree(Nodes2)
Nodes4 == Tree(Nodes3)

\* What is less deep is among what is deeper.
LEMMA NodesGrow ==
  /\ Nodes = Tree(Nodes4)
  /\ Nodes1 \subseteq Nodes2 /\ Nodes2 \subseteq Nodes3 /\ Nodes3 \subseteq Nodes4 /\ Nodes4 \subseteq Nodes
<1>1. Nodes = Tree(Nodes4)
  BY DEF Nodes, Nodes1, Nodes2, Nodes3, Nodes4
<1>2. Nodes1 \subseteq Nodes2
  BY TreeGrows DEF Nodes1, Nodes2
<1>3. Nodes2 \subseteq Nodes3
  BY <1>2, TreeGrows DEF Nodes2, Nodes3
<1>4. Nodes3 \subseteq Nodes4
  BY <1>3, TreeGrows DEF Nodes3, Nodes4
<1>5. Nodes4 \subseteq Nodes
  BY <1>1, <1>4, TreeGrows DEF Nodes4
<1> QED
  BY <1>1, <1>2, <1>3, <1>4, <1>5

\* So do elements.
LEMMA BranchGrows ==
  ASSUME NEW S, NEW R, S \subseteq R
  PROVE  Branch(S) \subseteq Branch(R)
<1>1. Seq(S) \subseteq Seq(R)
  BY SeqGrows
<1> QED
  BY <1>1 DEF Branch

DomElements1 == Branch({})
DomElements2 == Branch(DomElements1)
DomElements3 == Branch(DomElements2)
DomElements4 == Branch(DomElements3)

\* Elements that are less deep are among those that are deeper.
LEMMA ElementsGrow ==
  /\ DomElements = Branch(DomElements4)
  /\ DomElements1 \subseteq DomElements2 /\ DomElements2 \subseteq DomElements3 /\ DomElements3 \subseteq DomElements4 /\ DomElements4 \subseteq DomElements
<1>1. DomElements = Branch(DomElements4)
  BY DEF DomElements, DomElements1, DomElements2, DomElements3, DomElements4
<1>2. DomElements1 \subseteq DomElements2
  BY BranchGrows DEF DomElements1, DomElements2
<1>3. DomElements2 \subseteq DomElements3
  BY <1>2, BranchGrows DEF DomElements2, DomElements3
<1>4. DomElements3 \subseteq DomElements4
  BY <1>3, BranchGrows DEF DomElements3, DomElements4
<1>5. DomElements4 \subseteq DomElements
  BY <1>1, <1>4, BranchGrows DEF DomElements4
<1> QED
  BY <1>1, <1>2, <1>3, <1>4, <1>5

\* toDomElement().
Writes(S) == \E f : f = [n \in S |-> WrittenAs(n, [i \in DOMAIN n.items |-> f[n.items[i]]])]

\* If toDomElement() can be told of some depth, it can of the next.
LEMMA WritesDeeper ==
  ASSUME NEW S, S \subseteq Tree(S), Writes(S)
  PROVE  Writes(Tree(S))
<1> DEFINE Body(n, f) == WrittenAs(n, [i \in DOMAIN n.items |-> f[n.items[i]]])
<1>1. PICK g : g = [n \in S |-> Body(n, g)]
  BY DEF Writes
<1> DEFINE h == [n \in Tree(S) |-> Body(n, g)]
<1>2. ASSUME NEW n \in S PROVE h[n] = g[n]
  <2> HIDE DEF Body
  <2>1. h[n] = Body(n, g)
    OBVIOUS
  <2>2. g[n] = Body(n, g)
    BY <1>1
  <2> QED
    BY <2>1, <2>2
<1> HIDE DEF h
<1>3. ASSUME NEW n \in Tree(S) PROVE Body(n, g) = Body(n, h)
  <2>1. \A i \in DOMAIN n.items : n.items[i] \in S
    BY ElementOfSeq DEF Tree
  <2>2. \A i \in DOMAIN n.items : g[n.items[i]] = h[n.items[i]]
    BY <1>2, <2>1
  <2> QED
    BY <2>2
<1>4. h = [n \in Tree(S) |-> Body(n, h)]
  <2> HIDE DEF Body
  <2>1. h = [n \in Tree(S) |-> Body(n, g)]
    BY DEF h
  <2> QED
    BY <1>3, <2>1
<1> QED
  BY <1>4 DEF Writes

\* toDomElement() of a struct writes what is in it.
LEMMA ToDomElementIsThere ==
  /\ ToDomElement = [n \in Nodes |-> WrittenAs(n, [i \in DOMAIN n.items |-> ToDomElement[n.items[i]]])]
  /\ \A n \in Nodes : ToDomElement[n] = WrittenAs(n, [i \in DOMAIN n.items |-> ToDomElement[n.items[i]]])
<1>1. Writes({})
  <2> DEFINE f == [n \in {} |-> 0]
  <2>1. f = [n \in {} |-> WrittenAs(n, [i \in DOMAIN n.items |-> f[n.items[i]]])]
    OBVIOUS
  <2> QED
    BY <2>1 DEF Writes
<1>2. Writes(Nodes1)
  BY <1>1, WritesDeeper DEF Nodes1
<1>3. Writes(Nodes2)
  BY <1>2, WritesDeeper, NodesGrow DEF Nodes2
<1>4. Writes(Nodes3)
  BY <1>3, WritesDeeper, NodesGrow DEF Nodes3
<1>5. Writes(Nodes4)
  BY <1>4, WritesDeeper, NodesGrow DEF Nodes4
<1>6. Writes(Nodes)
  BY <1>5, WritesDeeper, NodesGrow
<1> DEFINE Loop(f) == f = [n \in Nodes |-> WrittenAs(n, [i \in DOMAIN n.items |-> f[n.items[i]]])]
<1>7. \E f : Loop(f)
  BY <1>6 DEF Writes
<1>8. ToDomElement = CHOOSE f : Loop(f)
  BY DEF ToDomElement
<1> HIDE DEF Loop
<1>9. Loop(ToDomElement)
  BY <1>7, <1>8
<1>10. ToDomElement = [n \in Nodes |-> WrittenAs(n, [i \in DOMAIN n.items |-> ToDomElement[n.items[i]]])]
  BY <1>9 DEF Loop
<1> QED
  BY <1>10

\* What the receiver finds.
Receives(S) == \E f : f = [n \in S |-> [name |-> n.name, type |-> ReceivedType(n), text |-> n.text,
    items |-> [i \in DOMAIN n.items |-> f[n.items[i]]]]]

\* The same of what a receiver has,
LEMMA ReceivesDeeper ==
  ASSUME NEW S, S \subseteq Tree(S), Receives(S)
  PROVE  Receives(Tree(S))
<1> DEFINE Body(n, f) == [name |-> n.name, type |-> ReceivedType(n), text |-> n.text,
    items |-> [i \in DOMAIN n.items |-> f[n.items[i]]]]
<1>1. PICK g : g = [n \in S |-> Body(n, g)]
  BY DEF Receives
<1> DEFINE h == [n \in Tree(S) |-> Body(n, g)]
<1>2. ASSUME NEW n \in S PROVE h[n] = g[n]
  <2> HIDE DEF Body
  <2>1. h[n] = Body(n, g)
    OBVIOUS
  <2>2. g[n] = Body(n, g)
    BY <1>1
  <2> QED
    BY <2>1, <2>2
<1> HIDE DEF h
<1>3. ASSUME NEW n \in Tree(S) PROVE Body(n, g) = Body(n, h)
  <2>1. \A i \in DOMAIN n.items : n.items[i] \in S
    BY ElementOfSeq DEF Tree
  <2>2. \A i \in DOMAIN n.items : g[n.items[i]] = h[n.items[i]]
    BY <1>2, <2>1
  <2> QED
    BY <2>2
<1>4. h = [n \in Tree(S) |-> Body(n, h)]
  <2> HIDE DEF Body
  <2>1. h = [n \in Tree(S) |-> Body(n, g)]
    BY DEF h
  <2> QED
    BY <1>3, <2>1
<1> QED
  BY <1>4 DEF Receives

\* which is made of what it has of the items.
LEMMA ReceivedIsThere ==
  /\ Received = [n \in Nodes |-> [name |-> n.name, type |-> ReceivedType(n), text |-> n.text,
    items |-> [i \in DOMAIN n.items |-> Received[n.items[i]]]]]
  /\ \A n \in Nodes : Received[n] = [name |-> n.name, type |-> ReceivedType(n), text |-> n.text,
    items |-> [i \in DOMAIN n.items |-> Received[n.items[i]]]]
<1>1. Receives({})
  <2> DEFINE f == [n \in {} |-> 0]
  <2>1. f = [n \in {} |-> [name |-> n.name, type |-> ReceivedType(n), text |-> n.text,
    items |-> [i \in DOMAIN n.items |-> f[n.items[i]]]]]
    OBVIOUS
  <2> QED
    BY <2>1 DEF Receives
<1>2. Receives(Nodes1)
  BY <1>1, ReceivesDeeper DEF Nodes1
<1>3. Receives(Nodes2)
  BY <1>2, ReceivesDeeper, NodesGrow DEF Nodes2
<1>4. Receives(Nodes3)
  BY <1>3, ReceivesDeeper, NodesGrow DEF Nodes3
<1>5. Receives(Nodes4)
  BY <1>4, ReceivesDeeper, NodesGrow DEF Nodes4
<1>6. Receives(Nodes)
  BY <1>5, ReceivesDeeper, NodesGrow
<1> DEFINE Loop(f) == f = [n \in Nodes |-> [name |-> n.name, type |-> ReceivedType(n), text |-> n.text,
    items |-> [i \in DOMAIN n.items |-> f[n.items[i]]]]]
<1>7. \E f : Loop(f)
  BY <1>6 DEF Receives
<1>8. Received = CHOOSE f : Loop(f)
  BY DEF Received
<1> HIDE DEF Loop
<1>9. Loop(Received)
  BY <1>7, <1>8
<1>10. Received = [n \in Nodes |-> [name |-> n.name, type |-> ReceivedType(n), text |-> n.text,
    items |-> [i \in DOMAIN n.items |-> Received[n.items[i]]]]]
  BY <1>9 DEF Loop
<1> QED
  BY <1>10

\* Whether there are values without a type.
Types(S) == \E f : f = [n \in S |-> ((n.type = "Other" /\ n.text # "") \/ \E i \in DOMAIN n.items : f[n.items[i]])]

\* The same of values without a type:
LEMMA TypesDeeper ==
  ASSUME NEW S, S \subseteq Tree(S), Types(S)
  PROVE  Types(Tree(S))
<1> DEFINE Body(n, f) == ((n.type = "Other" /\ n.text # "") \/ \E i \in DOMAIN n.items : f[n.items[i]])
<1>1. PICK g : g = [n \in S |-> Body(n, g)]
  BY DEF Types
<1> DEFINE h == [n \in Tree(S) |-> Body(n, g)]
<1>2. ASSUME NEW n \in S PROVE h[n] = g[n]
  <2> HIDE DEF Body
  <2>1. h[n] = Body(n, g)
    OBVIOUS
  <2>2. g[n] = Body(n, g)
    BY <1>1
  <2> QED
    BY <2>1, <2>2
<1> HIDE DEF h
<1>3. ASSUME NEW n \in Tree(S) PROVE Body(n, g) = Body(n, h)
  <2>1. \A i \in DOMAIN n.items : n.items[i] \in S
    BY ElementOfSeq DEF Tree
  <2>2. \A i \in DOMAIN n.items : g[n.items[i]] = h[n.items[i]]
    BY <1>2, <2>1
  <2> QED
    BY <2>2
<1>4. h = [n \in Tree(S) |-> Body(n, h)]
  <2> HIDE DEF Body
  <2>1. h = [n \in Tree(S) |-> Body(n, g)]
    BY DEF h
  <2> QED
    BY <1>3, <2>1
<1> QED
  BY <1>4 DEF Types

\* a struct has one if an item of it has.
LEMMA UntypedIsThere ==
  /\ Untyped = [n \in Nodes |-> ((n.type = "Other" /\ n.text # "") \/ \E i \in DOMAIN n.items : Untyped[n.items[i]])]
  /\ \A n \in Nodes : Untyped[n] = ((n.type = "Other" /\ n.text # "") \/ \E i \in DOMAIN n.items : Untyped[n.items[i]])
<1>1. Types({})
  <2> DEFINE f == [n \in {} |-> 0]
  <2>1. f = [n \in {} |-> ((n.type = "Other" /\ n.text # "") \/ \E i \in DOMAIN n.items : f[n.items[i]])]
    OBVIOUS
  <2> QED
    BY <2>1 DEF Types
<1>2. Types(Nodes1)
  BY <1>1, TypesDeeper DEF Nodes1
<1>3. Types(Nodes2)
  BY <1>2, TypesDeeper, NodesGrow DEF Nodes2
<1>4. Types(Nodes3)
  BY <1>3, TypesDeeper, NodesGrow DEF Nodes3
<1>5. Types(Nodes4)
  BY <1>4, TypesDeeper, NodesGrow DEF Nodes4
<1>6. Types(Nodes)
  BY <1>5, TypesDeeper, NodesGrow
<1> DEFINE Loop(f) == f = [n \in Nodes |-> ((n.type = "Other" /\ n.text # "") \/ \E i \in DOMAIN n.items : f[n.items[i]])]
<1>7. \E f : Loop(f)
  BY <1>6 DEF Types
<1>8. Untyped = CHOOSE f : Loop(f)
  BY DEF Untyped
<1> HIDE DEF Loop
<1>9. Loop(Untyped)
  BY <1>7, <1>8
<1>10. Untyped = [n \in Nodes |-> ((n.type = "Other" /\ n.text # "") \/ \E i \in DOMAIN n.items : Untyped[n.items[i]])]
  BY <1>9 DEF Loop
<1> QED
  BY <1>10

\* parse().
Reads(S) == \E f : f = [n \in S |-> ReadElement(n, [i \in DOMAIN n.children |-> f[n.children[i]]])]

\* The same of soapType():
LEMMA ReadsDeeper ==
  ASSUME NEW S, S \subseteq Branch(S), Reads(S)
  PROVE  Reads(Branch(S))
<1> DEFINE Body(n, f) == ReadElement(n, [i \in DOMAIN n.children |-> f[n.children[i]]])
<1>1. PICK g : g = [n \in S |-> Body(n, g)]
  BY DEF Reads
<1> DEFINE h == [n \in Branch(S) |-> Body(n, g)]
<1>2. ASSUME NEW n \in S PROVE h[n] = g[n]
  <2> HIDE DEF Body
  <2>1. h[n] = Body(n, g)
    OBVIOUS
  <2>2. g[n] = Body(n, g)
    BY <1>1
  <2> QED
    BY <2>1, <2>2
<1> HIDE DEF h
<1>3. ASSUME NEW n \in Branch(S) PROVE Body(n, g) = Body(n, h)
  <2>1. \A i \in DOMAIN n.children : n.children[i] \in S
    BY ElementOfSeq DEF Branch
  <2>2. \A i \in DOMAIN n.children : g[n.children[i]] = h[n.children[i]]
    BY <1>2, <2>1
  <2> QED
    BY <2>2
<1>4. h = [n \in Branch(S) |-> Body(n, h)]
  <2> HIDE DEF Body
  <2>1. h = [n \in Branch(S) |-> Body(n, g)]
    BY DEF h
  <2> QED
    BY <1>3, <2>1
<1> QED
  BY <1>4 DEF Reads

\* an element is read from what is read of those in it.
LEMMA SoapTypeIsThere ==
  /\ SoapType = [n \in DomElements |-> ReadElement(n, [i \in DOMAIN n.children |-> SoapType[n.children[i]]])]
  /\ \A n \in DomElements : SoapType[n] = ReadElement(n, [i \in DOMAIN n.children |-> SoapType[n.children[i]]])
<1>1. Reads({})
  <2> DEFINE f == [n \in {} |-> 0]
  <2>1. f = [n \in {} |-> ReadElement(n, [i \in DOMAIN n.children |-> f[n.children[i]]])]
    OBVIOUS
  <2> QED
    BY <2>1 DEF Reads
<1>2. Reads(DomElements1)
  BY <1>1, ReadsDeeper DEF DomElements1
<1>3. Reads(DomElements2)
  BY <1>2, ReadsDeeper, ElementsGrow DEF DomElements2
<1>4. Reads(DomElements3)
  BY <1>3, ReadsDeeper, ElementsGrow DEF DomElements3
<1>5. Reads(DomElements4)
  BY <1>4, ReadsDeeper, ElementsGrow DEF DomElements4
<1>6. Reads(DomElements)
  BY <1>5, ReadsDeeper, ElementsGrow
<1> DEFINE Loop(f) == f = [n \in DomElements |-> ReadElement(n, [i \in DOMAIN n.children |-> f[n.children[i]]])]
<1>7. \E f : Loop(f)
  BY <1>6 DEF Reads
<1>8. SoapType = CHOOSE f : Loop(f)
  BY DEF SoapType
<1> HIDE DEF Loop
<1>9. Loop(SoapType)
  BY <1>7, <1>8
<1>10. SoapType = [n \in DomElements |-> ReadElement(n, [i \in DOMAIN n.children |-> SoapType[n.children[i]]])]
  BY <1>9 DEF Loop
<1> QED
  BY <1>10
-----------------------------------------------------------------------------
(* SoapMessage: writing and reading *)

\* What is read of an element: nothing of a comment, or something that is whole or not.
AnyParts(R) == [comment : BOOLEAN, whole : BOOLEAN, item : R]
Parts(R) == [comment : {FALSE}, whole : BOOLEAN, item : R]
NoPart == [whole |-> TRUE, items |-> <<>>]
PartsRun(run, parts) ==
  run[0] = NoPart /\ \A k \in 0 .. Len(parts) - 1 : run[k + 1] = ReadPart(run[k], parts[k + 1])

\* What was read so far stays a list of items.
LEMMA ReadPartTyped ==
  ASSUME NEW R, NEW read \in [whole : BOOLEAN, items : Seq(R)], NEW part \in AnyParts(R)
  PROVE  ReadPart(read, part) \in [whole : BOOLEAN, items : Seq(R)]
<1>1. Append(read.items, part.item) \in Seq(R) /\ read.items \in Seq(R)
  BY DEF AnyParts
<1> QED
  BY <1>1 DEF ReadPart

\* parse() of a struct goes through such a run, one child after the other.
LEMMA PartsLoop ==
  ASSUME NEW R, NEW parts \in Seq(AnyParts(R))
  PROVE  \E run \in [0..Len(parts) -> [whole : BOOLEAN, items : Seq(R)]] :
           PartsRun(run, parts) /\ run[Len(parts)] = ReadParts("", parts)
<1> DEFINE n == Len(parts)
           V == [whole : BOOLEAN, items : Seq(R)]
           Turn(x, i) == ReadPart(x, parts[i])
           g == [p \in V \X (1..n) |-> Turn(p[1], p[2])]
           Loop(iter) == iter = [I \in SUBSET (1..n) |->
                                   IF I = {} THEN NoPart ELSE Turn(iter[I \ {Max(I)}], Max(I))]
<1>0. n \in Nat /\ DOMAIN parts = 1..n /\ \A i \in 1..n : parts[i] \in AnyParts(R)
  BY LenProperties, ElementOfSeq
<1>1. ReadParts("", parts) = (CHOOSE iter : Loop(iter))[1..n]
  <2> DEFINE Raw(iter) == iter = [I \in SUBSET DOMAIN parts |->
                                    IF I = {} THEN NoPart
                                    ELSE ReadPart(iter[I \ {Max(I)}], parts[Max(I)])]
  <2>1. ReadParts("", parts) = (CHOOSE iter : Raw(iter))[DOMAIN parts]
    BY DEF ReadParts, NoPart, FoldLeft, MapThenFoldSet
  <2>2. \A iter : Raw(iter) <=> Loop(iter)
    BY <1>0
  <2> HIDE DEF Raw, Loop
  <2>3. (CHOOSE iter : Raw(iter)) = (CHOOSE iter : Loop(iter))
    BY <2>2
  <2> QED
    BY <1>0, <2>1, <2>3
<1> HIDE DEF n
<1>2. NoPart \in V
  BY DEF NoPart
<1>3. ASSUME NEW x \in V, NEW i \in 1..n
      PROVE  Turn(x, i) \in V
  BY <1>0, ReadPartTyped
<1> HIDE DEF V, Turn
<1>4. g \in [V \X (1..n) -> V]
  BY <1>3
<1>5. PICK f \in [SUBSET (1..n) -> V] : FoldsUpTo(f, n, NoPart, g)
  <2> HIDE DEF g
  <2> QED
    BY <1>0, <1>2, <1>4, FoldIsThere
<1>6. Loop(f)
  <2>1. ASSUME NEW I \in SUBSET (1..n)
        PROVE  f[I] = IF I = {} THEN NoPart ELSE Turn(f[I \ {Max(I)}], Max(I))
    <3>1. CASE I = {}
      BY <1>5, <3>1 DEF FoldsUpTo
    <3>2. CASE I # {}
      <4>1. Max(I) \in 1..n
        BY <1>0, <3>2, MaxExists
      <4>2. f[I \ {Max(I)}] \in V
        OBVIOUS
      <4>3. f[I] = g[<<f[I \ {Max(I)}], Max(I)>>]
        <5> HIDE DEF g
        <5> QED
          BY <1>5, <3>2 DEF FoldsUpTo
      <4> QED
        BY <3>2, <4>1, <4>2, <4>3
    <3> QED
      BY <3>1, <3>2
  <2> HIDE DEF g
  <2> QED
    BY <2>1
<1> DEFINE iter == CHOOSE iter : Loop(iter)
           run == [k \in 0..n |-> iter[1..k]]
<1>7. Loop(iter)
  <2> HIDE DEF Loop
  <2> QED
    BY <1>6
<1>8. iter = [I \in SUBSET (1..n) |->
                IF I = {} THEN NoPart ELSE Turn(iter[I \ {Max(I)}], Max(I))]
  <2> HIDE DEF iter
  <2> QED
    BY <1>7
<1>9. ReadParts("", parts) = iter[1..n]
  BY <1>1
<1> HIDE DEF iter, Loop
<1>10. run[0] = NoPart
  <2>1. 1..0 = {} /\ 1..0 \in SUBSET (1..n)
    OBVIOUS
  <2>2. iter[1..0] = NoPart
    BY <1>8, <2>1
  <2> QED
    BY <1>0, <2>2
<1>11. ASSUME NEW k \in 0 .. n - 1
       PROVE  run[k + 1] = Turn(run[k], k + 1)
  <2>1. /\ 1 .. k + 1 # {} /\ Max(1 .. k + 1) = k + 1
        /\ (1 .. k + 1) \ {k + 1} = 1..k
    <3>1. k \in Nat
      BY <1>0
    <3> QED
      BY <3>1, LastOfPrefix
  <2>2. 1 .. k + 1 \in SUBSET (1..n)
    BY <1>0
  <2>3. iter[1 .. k + 1] = Turn(iter[1..k], k + 1)
    BY <1>8, <2>1, <2>2
  <2> QED
    BY <1>0, <2>3
<1>12. run[n] = ReadParts("", parts)
  <2>1. n \in 0..n
    BY <1>0
  <2>2. run[n] = iter[1..n]
    BY <2>1
  <2> QED
    BY <1>9, <2>2
<1>13. DOMAIN run = 0..n /\ run = [k \in 0..n |-> run[k]]
  OBVIOUS
<1> HIDE DEF run
<1> DEFINE T == {k \in 0..n : run[k] \in V}
<1>14. 0 \in T
  BY <1>0, <1>2, <1>10
<1>15. ASSUME NEW k \in 0 .. n - 1, k \in T
       PROVE  k + 1 \in T
  <2>1. run[k + 1] \in V
    <3>1. k + 1 \in 1..n /\ run[k] \in V
      BY <1>0, <1>15
    <3> QED
      BY <1>3, <1>11, <3>1
  <2> QED
    BY <1>0, <2>1
<1>16. 0..n \subseteq T
  <2>1. T \in SUBSET Nat
    BY <1>0
  <2> HIDE DEF T
  <2> QED
    BY <1>0, <1>14, <1>15, <2>1, Induction
<1>17. run \in [0..n -> V]
  BY <1>13, <1>16
<1> QED
  BY <1>10, <1>11, <1>12, <1>17 DEF n, Turn, V, PartsRun

\* A struct without comments is read in full if what is in it is, and has it in order.
LEMMA PartsRead ==
  ASSUME NEW R, NEW parts \in Seq(Parts(R))
  PROVE  /\ ReadParts("", parts).whole = (\A i \in DOMAIN parts : parts[i].whole)
         /\ (\A i \in DOMAIN parts : parts[i].whole) =>
              ReadParts("", parts).items = [i \in DOMAIN parts |-> parts[i].item]
<1> DEFINE n == Len(parts)
           First(k) == \A i \in 1..k : parts[i].whole
<1>0. n \in Nat /\ DOMAIN parts = 1..n /\ \A i \in 1..n : parts[i] \in Parts(R)
  BY LenProperties, ElementOfSeq
<1>1. PICK run \in [0..n -> [whole : BOOLEAN, items : Seq(R)]] :
        PartsRun(run, parts) /\ run[n] = ReadParts("", parts)
  <2>1. Parts(R) \subseteq AnyParts(R)
    BY DEF Parts, AnyParts
  <2>2. parts \in Seq(AnyParts(R))
    BY <2>1, SeqGrows
  <2> HIDE DEF n
  <2> QED
    BY <2>2, PartsLoop DEF n
<1> HIDE DEF n
<1> DEFINE Ok(k) == /\ run[k].whole = First(k)
                    /\ First(k) => /\ Len(run[k].items) = k
                                   /\ \A i \in 1..k : run[k].items[i] = parts[i].item
           T == {k \in 0..n : Ok(k)}
<1>2. 0 \in T
  <2>1. run[0] = NoPart
    BY <1>1 DEF PartsRun
  <2>2. run[0].whole = TRUE /\ run[0].items = <<>>
    BY <2>1 DEF NoPart
  <2>3. First(0) /\ 0 \in 0..n /\ 1..0 = {}
    BY <1>0
  <2> QED
    BY <2>2, <2>3
<1>3. ASSUME NEW k \in 0 .. n - 1, Ok(k)
      PROVE  Ok(k + 1)
  <2> DEFINE read == run[k]
             part == parts[k + 1]
             next == run[k + 1]
  <2>1. /\ k \in Nat /\ k + 1 \in 1..n /\ part \in Parts(R) /\ next = ReadPart(read, part)
        /\ read \in [whole : BOOLEAN, items : Seq(R)]
    <3>1. k \in Nat /\ k + 1 \in 1..n /\ k \in 0..n
      BY <1>0
    <3>2. \A m \in 0 .. n - 1 : run[m + 1] = ReadPart(run[m], parts[m + 1])
      BY <1>1 DEF PartsRun, n
    <3> HIDE DEF First
    <3> QED
      BY <1>0, <1>1, <3>1, <3>2
  <2>2. First(k + 1) <=> First(k) /\ part.whole
    BY <2>1
  <2>3. First(k) \in BOOLEAN /\ First(k + 1) \in BOOLEAN /\ read.whole = First(k)
        /\ (First(k) => Len(read.items) = k /\ \A i \in 1..k : read.items[i] = parts[i].item)
    BY <1>3
  <2> HIDE DEF First, read, next
  <2>4. part.comment = FALSE /\ part.whole \in BOOLEAN /\ part.item \in R /\ read.items \in Seq(R)
    BY <2>1 DEF Parts
  <2>5. CASE ~First(k)
    <3>1. next = read
      BY <2>1, <2>3, <2>5 DEF ReadPart
    <3> QED
      BY <2>2, <2>3, <2>5, <3>1 DEF next
  <2>6. CASE First(k) /\ ~part.whole
    <3>1. next.whole = FALSE
      BY <2>1, <2>3, <2>4, <2>6 DEF ReadPart
    <3> QED
      BY <2>2, <2>3, <2>6, <3>1 DEF next
  <2>7. CASE First(k) /\ part.whole
    <3>1. next.whole = TRUE /\ next.items = Append(read.items, part.item)
      BY <2>1, <2>3, <2>4, <2>7 DEF ReadPart
    <3>2. Len(next.items) = k + 1 /\ next.items[k + 1] = part.item
          /\ \A i \in 1..k : next.items[i] = read.items[i]
      BY <2>1, <2>3, <2>4, <2>7, <3>1, AppendProperties
    <3>3. \A i \in 1 .. k + 1 : next.items[i] = parts[i].item
      <4>1. \A i \in 1 .. k + 1 : i \in 1..k \/ i = k + 1
        BY <2>1
      <4>2. \A i \in 1..k : next.items[i] = parts[i].item
        BY <2>3, <2>7, <3>2
      <4>3. next.items[k + 1] = parts[k + 1].item
        BY <3>2
      <4> QED
        BY <4>1, <4>2, <4>3
    <3> QED
      BY <2>2, <2>3, <2>7, <3>1, <3>2, <3>3 DEF next
  <2> QED
    BY <2>5, <2>6, <2>7
<1>4. 0..n \subseteq T
  <2>1. T \in SUBSET Nat /\ \A k \in 0 .. n - 1 : k \in T => k + 1 \in T
    <3> HIDE DEF Ok
    <3> QED
      BY <1>0, <1>3
  <2> HIDE DEF T
  <2> QED
    BY <1>0, <1>2, <2>1, Induction
<1>5. Ok(n)
  <2> HIDE DEF Ok
  <2> QED
    BY <1>0, <1>4
<1>6. run[n].items \in Seq(R)
  BY <1>0
<1>7. First(n) => run[n].items = [i \in 1..n |-> parts[i].item]
  <2> SUFFICES ASSUME First(n) PROVE run[n].items = [i \in 1..n |-> parts[i].item]
    OBVIOUS
  <2>1. Len(run[n].items) = n /\ \A i \in 1..n : run[n].items[i] = parts[i].item
    BY <1>5
  <2>2. run[n].items \in [1..n -> R]
    BY <1>6, <2>1, LenProperties
  <2> QED
    BY <2>1, <2>2
<1>8. run[n].whole = First(n)
  BY <1>5
<1> HIDE DEF First
<1> QED
  BY <1>0, <1>1, <1>7, <1>8 DEF First

\* An item arrives: what is read of what is written of it is it, or is not read.
ArrivesAs(n, e) ==
  /\ n \in Nodes /\ e \in DomElements /\ e # Comment
  /\ SoapType[e].comment = FALSE /\ SoapType[e].whole \in BOOLEAN
  /\ SoapType[e].whole <=> ~Untyped[n]
  /\ ~Untyped[n] => SoapType[e].item = Received[n]
Arrives(n) == ArrivesAs(n, ToDomElement[n])

\* Values an application adds, and what the setters of a fault add.
Values == {a \in [name : SoapText, type : SoapText, text : SoapText, items : {<<>>}] :
             /\ a.type \notin {"Struct", "none", "comment"}
             /\ a.type \in NumberTypes => a.text \in NumberText}

\* Structs of such items.
Structs(S) == {Struct(name, items) : name \in SoapText, items \in Seq(S)}

\* Of an element without elements nothing is read.
LEMMA NothingIsRead ==
  ASSUME NEW text
  PROVE  /\ ReadParts(text, <<>>).whole = (text = "")
         /\ ReadParts(text, <<>>).items = <<>>
<1> DEFINE none == [i \in {} |-> {}]
<1>1. CASE text = ""
  <2>1. <<>> \in Seq(Parts({}))
    OBVIOUS
  <2>2. DOMAIN <<>> = {}
    OBVIOUS
  <2> DEFINE parts == <<>>
  <2>3. parts \in Seq(Parts({})) /\ DOMAIN parts = {}
    BY <2>1, <2>2
  <2>4. parts = [i \in DOMAIN parts |-> parts[i].item]
    OBVIOUS
  <2> HIDE DEF parts
  <2>5. ReadParts("", parts).whole = TRUE /\ ReadParts("", parts).items = parts
    BY <2>3, <2>4, PartsRead
  <2> QED
    BY <1>1, <2>5 DEF parts
<1>2. CASE text # ""
  BY <1>2 DEF ReadParts
<1> QED
  BY <1>1, <1>2

\* What is read of an element, as a struct or as a value.
LEMMA ElementFields ==
  ASSUME NEW e, NEW parts
  PROVE  /\ ReadAsStruct(e) => /\ ReadElement(e, parts).comment = FALSE
                               /\ ReadElement(e, parts).whole = ReadParts(e.text, parts).whole
                               /\ ReadElement(e, parts).item = Struct(e.name, ReadParts(e.text, parts).items)
         /\ ~ReadAsStruct(e) => /\ ReadElement(e, parts).comment = (e = Comment)
                                /\ ReadElement(e, parts).whole = NumberFits(e)
                                /\ ReadElement(e, parts).item = Simple(e.name, NameToType(e.xsi), e.text)
  BY DEF ReadElement

\* A value arrives.
LEMMA ValueArrives ==
  ASSUME NEW a \in Values
  PROVE  Arrives(a) /\ a \in Nodes1 /\ ToDomElement[a] \in DomElements1
<1> DEFINE e == Element(a.name, a.type, a.text, <<>>)
<1>1. /\ a \in [name : SoapText, type : SoapText, text : SoapText, items : {<<>>}]
      /\ a.type \notin {"Struct", "none", "comment"}
      /\ a.type \in NumberTypes => a.text \in NumberText
  BY DEF Values
<1>2. a \in Nodes1 /\ a \in Nodes
  <2>1. <<>> \in Seq({})
    OBVIOUS
  <2>2. a \in Nodes1
    BY <1>1, <2>1 DEF Nodes1, Tree
  <2> QED
    BY <2>2, NodesGrow
<1>3. ToDomElement[a] = e
  BY <1>1, <1>2, ToDomElementIsThere DEF WrittenAs
<1>4. e \in DomElements1 /\ e \in DomElements
  <2>1. <<>> \in Seq({})
    OBVIOUS
  <2>2. e \in DomElements1
    BY <1>1, <2>1 DEF DomElements1, Branch, Element
  <2> QED
    BY <2>2, ElementsGrow
<1>5. /\ e # Comment /\ e.name = a.name /\ e.xsi = a.type /\ e.text = a.text /\ e.children = <<>>
  BY <1>1 DEF Element, Comment
<1>6. Untyped[a] <=> (a.type = "Other" /\ a.text # "")
  <2>1. DOMAIN a.items = {}
    BY <1>1
  <2> QED
    BY <1>2, <2>1, UntypedIsThere
<1>7. Received[a] = [name |-> a.name, type |-> ReceivedType(a), text |-> a.text, items |-> <<>>]
  <2>1. \A f : [i \in DOMAIN a.items |-> f[a.items[i]]] = <<>>
    BY <1>1
  <2> QED
    BY <1>2, <2>1, ReceivedIsThere
<1>8. SoapType[e] = ReadElement(e, <<>>)
  <2>1. \A f : [i \in DOMAIN e.children |-> f[e.children[i]]] = <<>>
    BY <1>5
  <2> HIDE DEF e
  <2> QED
    BY <1>4, <2>1, SoapTypeIsThere
<1> HIDE DEF e
<1>9. CASE a.type = "Other"
  <2>1. ReadAsStruct(e)
    BY <1>5, <1>9 DEF ReadAsStruct
  <2>2. /\ SoapType[e].comment = FALSE /\ SoapType[e].whole = (a.text = "")
        /\ SoapType[e].item = Struct(a.name, <<>>)
    <3> DEFINE r == ReadElement(e, <<>>)
    <3>1. /\ r.comment = FALSE /\ r.whole = ReadParts(e.text, <<>>).whole
          /\ r.item = Struct(e.name, ReadParts(e.text, <<>>).items)
      BY <2>1, ElementFields
    <3>2. SoapType[e] = r
      BY <1>8
    <3>3. ReadParts(e.text, <<>>).whole = (a.text = "") /\ ReadParts(e.text, <<>>).items = <<>>
      BY <1>5, NothingIsRead
    <3> HIDE DEF r
    <3> QED
      BY <1>5, <3>1, <3>2, <3>3
  <2>3. a.text = "" => Received[a] = Struct(a.name, <<>>)
    BY <1>1, <1>7, <1>9 DEF ReceivedType, Struct
  <2>4. ArrivesAs(a, e)
    BY <1>2, <1>4, <1>5, <1>6, <1>9, <2>2, <2>3 DEF ArrivesAs
  <2> QED
    BY <1>2, <1>3, <1>4, <2>4 DEF Arrives
<1>10. CASE a.type # "Other"
  <2>1. ~ReadAsStruct(e)
    BY <1>1, <1>5, <1>10 DEF ReadAsStruct
  <2>2. /\ SoapType[e].comment = FALSE /\ SoapType[e].whole = NumberFits(e)
        /\ SoapType[e].item = Simple(a.name, NameToType(a.type), a.text)
    <3> DEFINE r == ReadElement(e, <<>>)
    <3>1. /\ r.comment = (e = Comment) /\ r.whole = NumberFits(e)
          /\ r.item = Simple(e.name, NameToType(e.xsi), e.text)
      BY <2>1, ElementFields
    <3>2. SoapType[e] = r
      BY <1>8
    <3>3. (e = Comment) = FALSE
      BY <1>5
    <3> HIDE DEF r
    <3> QED
      BY <1>5, <3>1, <3>2, <3>3
  <2>3. NumberFits(e) = TRUE
    BY <1>1, <1>5, <1>10, MessageAssumption DEF NumberFits, NameToType, Misread
  <2>4. Received[a] = Simple(a.name, NameToType(a.type), a.text)
    BY <1>1, <1>7, <1>10 DEF ReceivedType, Simple
  <2>5. ArrivesAs(a, e)
    BY <1>2, <1>4, <1>5, <1>6, <1>10, <2>2, <2>3, <2>4 DEF ArrivesAs
  <2> QED
    BY <1>2, <1>3, <1>4, <2>5 DEF Arrives
<1> QED
  BY <1>9, <1>10

\* A struct is read as its items were built, or not in full.
ReadAsBuilt(n, items) ==
  /\ ReadStruct(ToDomElement[n]).whole <=> ~Untyped[n]
  /\ ~Untyped[n] => ReadStruct(ToDomElement[n]).items = [i \in DOMAIN items |-> Received[items[i]]]
  /\ Untyped[n] <=> \E i \in DOMAIN items : Untyped[items[i]]

\* A struct arrives if what is in it does.
LEMMA StructArrives ==
  ASSUME NEW S, NEW B, \A x \in S : Arrives(x) /\ ToDomElement[x] \in B,
         NEW name \in SoapText, NEW items \in Seq(S),
         Struct(name, items) \in Nodes, Branch(B) \subseteq DomElements
  PROVE  /\ Arrives(Struct(name, items)) /\ ToDomElement[Struct(name, items)] \in Branch(B)
         /\ ReadAsBuilt(Struct(name, items), items)
<1> DEFINE n == Struct(name, items)
           m == Len(items)
           kids == [i \in 1..m |-> ToDomElement[items[i]]]
           e == Element(name, "none", "", kids)
           parts == [i \in 1..m |-> SoapType[kids[i]]]
           R == {SoapType[kids[i]].item : i \in 1..m}
<1>0. m \in Nat /\ DOMAIN items = 1..m /\ \A i \in 1..m : items[i] \in S
  BY LenProperties, ElementOfSeq
<1>1. n \in Nodes /\ n.name = name /\ n.type = "Struct" /\ n.text = "" /\ n.items = items
  BY DEF Struct
<1> HIDE DEF m, n
<1>2. ToDomElement[n] = e
  BY <1>0, <1>1, ToDomElementIsThere DEF WrittenAs
<1>3. \A i \in 1..m : kids[i] \in B /\ Arrives(items[i]) /\ kids[i] = ToDomElement[items[i]]
  BY <1>0
<1> HIDE DEF kids
<1>4. kids \in Seq(B) /\ Len(kids) = m
  <2>1. kids \in [1..m -> B]
    BY <1>3 DEF kids
  <2> QED
    BY <1>0, <2>1, IsSequence
<1>5. e \in Branch(B) /\ e \in DomElements
  <2>1. name \in SoapText /\ "none" \in SoapText /\ "" \in SoapText
    BY MessageAssumption
  <2>2. e = [name |-> name, xsi |-> "none", text |-> "", children |-> kids]
    BY DEF Element
  <2>3. [name |-> name, xsi |-> "none", text |-> "", children |-> kids] \in Branch(B)
    BY <1>4, <2>1 DEF Branch
  <2> QED
    BY <2>2, <2>3
<1>6. /\ e.name = name /\ e.xsi = "none" /\ e.text = "" /\ e.children = kids /\ e # Comment
      /\ DOMAIN kids = 1..m
  BY DEF Element, Comment, kids
<1> HIDE DEF e
<1>7. SoapType[e] = ReadElement(e, parts) /\ ReadStruct(e) = ReadParts("", parts)
  <2>1. [i \in DOMAIN e.children |-> SoapType[e.children[i]]] = parts
    BY <1>6
  <2> HIDE DEF parts
  <2> QED
    BY <1>5, <1>6, <2>1, SoapTypeIsThere DEF ReadStruct
<1>8. \A i \in 1..m : /\ parts[i] = SoapType[kids[i]] /\ parts[i].comment = FALSE /\ parts[i].whole \in BOOLEAN
                      /\ parts[i].whole <=> ~Untyped[items[i]]
                      /\ ~Untyped[items[i]] => parts[i].item = Received[items[i]]
                      /\ kids[i] # Comment
  BY <1>3 DEF Arrives, ArrivesAs
<1>9. parts \in Seq(Parts(R))
  <2>1. ASSUME NEW i \in 1..m PROVE parts[i] \in Parts(R)
    <3>1. kids[i] \in DomElements
      BY <1>3 DEF Arrives, ArrivesAs
    <3>2. SoapType[kids[i]] = [comment |-> SoapType[kids[i]].comment, whole |-> SoapType[kids[i]].whole,
                               item |-> SoapType[kids[i]].item]
      <4>1. \E p : SoapType[kids[i]] = ReadElement(kids[i], p)
        BY <3>1, SoapTypeIsThere
      <4>2. PICK p : SoapType[kids[i]] = ReadElement(kids[i], p)
        BY <4>1
      <4>3. CASE ReadAsStruct(kids[i])
        BY <4>2, <4>3 DEF ReadElement
      <4>4. CASE ~ReadAsStruct(kids[i])
        BY <4>2, <4>4 DEF ReadElement
      <4> QED
        BY <4>3, <4>4
    <3>3. SoapType[kids[i]].item \in R
      OBVIOUS
    <3> HIDE DEF R
    <3> QED
      BY <1>8, <3>2, <3>3 DEF Parts
  <2>2. parts \in [1..m -> Parts(R)]
    BY <2>1
  <2> HIDE DEF parts, R
  <2> QED
    BY <1>0, <2>2, IsSequence
<1>10. DOMAIN parts = 1..m
  OBVIOUS
<1> HIDE DEF parts, R
<1>11. /\ ReadParts("", parts).whole = (\A i \in 1..m : parts[i].whole)
       /\ (\A i \in 1..m : parts[i].whole) =>
              ReadParts("", parts).items = [i \in 1..m |-> parts[i].item]
  BY <1>9, <1>10, PartsRead
<1>12. Untyped[n] <=> \E i \in 1..m : Untyped[items[i]]
  BY <1>0, <1>1, UntypedIsThere
<1>13. (\A i \in 1..m : parts[i].whole) <=> ~Untyped[n]
  BY <1>8, <1>12
<1>14. ~Untyped[n] => ReadParts("", parts).items = [i \in 1..m |-> Received[items[i]]]
  BY <1>8, <1>11, <1>12, <1>13
<1>15. ReadParts("", parts).whole \in BOOLEAN /\ (ReadParts("", parts).whole <=> ~Untyped[n])
  BY <1>11, <1>13
<1>16. Received[n] = [name |-> name, type |-> IF items = <<>> THEN "String" ELSE "Struct", text |-> "",
                      items |-> [i \in 1..m |-> Received[items[i]]]]
  <2>1. ReceivedType(n) = IF items = <<>> THEN "String" ELSE "Struct"
    BY <1>1 DEF ReceivedType, NameToType, Misread
  <2> QED
    BY <1>0, <1>1, <2>1, ReceivedIsThere
<1>17. Arrives(n)
  <2>1. CASE items = <<>>
    <3>1. m = 0 /\ kids = <<>>
      BY <1>4, <2>1 DEF m
    <3>2. ~ReadAsStruct(e)
      BY <1>6, <3>1 DEF ReadAsStruct
    <3>3. NumberFits(e) = TRUE
      BY <1>6, MessageAssumption DEF NumberFits, NameToType
    <3>4. /\ SoapType[e].comment = FALSE /\ SoapType[e].whole = TRUE
          /\ SoapType[e].item = Simple(name, "String", "")
      <4> DEFINE r == ReadElement(e, parts)
      <4>1. /\ r.comment = (e = Comment) /\ r.whole = NumberFits(e)
            /\ r.item = Simple(e.name, NameToType(e.xsi), e.text)
        BY <3>2, ElementFields
      <4>2. SoapType[e] = r
        BY <1>7
      <4>3. (e = Comment) = FALSE /\ NameToType(e.xsi) = "String"
        BY <1>6 DEF NameToType
      <4> HIDE DEF r
      <4> QED
        BY <1>6, <3>3, <4>1, <4>2, <4>3
    <3>5. ~Untyped[n] /\ Received[n] = Simple(name, "String", "")
      <4>1. [i \in 1..m |-> Received[items[i]]] = <<>>
        BY <3>1
      <4>2. Received[n] = Simple(name, "String", "")
        BY <1>16, <2>1, <4>1 DEF Simple
      <4>3. 1..m = {}
        BY <3>1
      <4> QED
        BY <1>12, <4>2, <4>3
    <3>6. ArrivesAs(n, e)
      BY <1>1, <1>5, <1>6, <3>4, <3>5 DEF ArrivesAs
    <3> QED
      BY <1>2, <3>6 DEF Arrives
  <2>2. CASE items # <<>>
    <3>1. kids # <<>> /\ kids[1] # Comment
      <4>1. m # 0
        BY <1>0, <2>2, EmptySeq DEF m
      <4>2. 1 \in 1..m
        BY <1>0, <4>1
      <4> QED
        BY <1>4, <1>8, <4>1, <4>2
    <3>2. ReadAsStruct(e)
      BY <1>6, <3>1 DEF ReadAsStruct
    <3>3. /\ SoapType[e].comment = FALSE /\ SoapType[e].whole = ReadParts("", parts).whole
          /\ SoapType[e].item = Struct(name, ReadParts("", parts).items)
      <4> DEFINE r == ReadElement(e, parts)
      <4>1. /\ r.comment = FALSE /\ r.whole = ReadParts(e.text, parts).whole
            /\ r.item = Struct(e.name, ReadParts(e.text, parts).items)
        BY <3>2, ElementFields
      <4>2. SoapType[e] = r
        BY <1>7
      <4> HIDE DEF r
      <4> QED
        BY <1>6, <4>1, <4>2
    <3>4. ~Untyped[n] => Received[n] = Struct(name, ReadParts("", parts).items)
      BY <1>14, <1>16, <2>2 DEF Struct
    <3>5. ArrivesAs(n, e)
      BY <1>1, <1>5, <1>6, <1>15, <3>3, <3>4 DEF ArrivesAs
    <3> QED
      BY <1>2, <3>5 DEF Arrives
  <2> QED
    BY <2>1, <2>2
<1>18. ReadAsBuilt(n, items)
  <2>1. ~Untyped[n] => ReadStruct(e).items = [i \in DOMAIN items |-> Received[items[i]]]
    BY <1>0, <1>7, <1>14
  <2> QED
    BY <1>0, <1>2, <1>7, <1>12, <1>15, <2>1 DEF ReadAsBuilt
<1> QED
  BY <1>2, <1>5, <1>17, <1>18 DEF n

\* So do all structs of what arrives, one deeper.
LEMMA StructsArrive ==
  ASSUME NEW S, NEW N, NEW B, S \subseteq N, Tree(N) \subseteq Nodes, Branch(B) \subseteq DomElements,
         \A x \in S : Arrives(x) /\ ToDomElement[x] \in B
  PROVE  Structs(S) \subseteq Tree(N) /\ \A x \in Structs(S) : Arrives(x) /\ ToDomElement[x] \in Branch(B)
<1> SUFFICES ASSUME NEW x \in Structs(S)
             PROVE  x \in Tree(N) /\ Arrives(x) /\ ToDomElement[x] \in Branch(B)
  OBVIOUS
<1>1. PICK name \in SoapText, items \in Seq(S) : x = Struct(name, items)
  BY DEF Structs
<1>2. x \in Tree(N)
  <2>1. items \in Seq(N) /\ "Struct" \in SoapText /\ "" \in SoapText
    BY SeqGrows, MessageAssumption
  <2> QED
    BY <1>1, <2>1 DEF Tree, Struct
<1> QED
  BY <1>1, <1>2, StructArrives

\* What a message consists of: the detail of a fault, what is in a method or a fault, the
\* items of the body, and the sections of the envelope.
Details == Structs(Values)
Entries == {x \in Values \cup Details : x.name = "Faultdetail" => x \in Details}
MethodStructs == Structs(Entries)
Sections == {Struct("Body", items) : items \in Seq(MethodStructs)}
              \cup {Struct("Header", items) : items \in Seq(Values)}

\* Header and body arrive, with all the setters put into them.
LEMMA SectionsArrive ==
  Sections \subseteq Nodes4 /\ \A x \in Sections : Arrives(x) /\ ToDomElement[x] \in DomElements4
<1>1. /\ Tree(Nodes1) \subseteq Nodes /\ Tree(Nodes2) \subseteq Nodes /\ Tree(Nodes3) \subseteq Nodes
      /\ Branch(DomElements1) \subseteq DomElements /\ Branch(DomElements2) \subseteq DomElements
      /\ Branch(DomElements3) \subseteq DomElements
      /\ Nodes1 \subseteq Nodes2 /\ DomElements1 \subseteq DomElements2
      /\ Nodes1 \subseteq Nodes3 /\ DomElements1 \subseteq DomElements3
  BY NodesGrow, ElementsGrow DEF Nodes2, Nodes3, Nodes4, DomElements2, DomElements3, DomElements4
<1>2. Values \subseteq Nodes1 /\ \A x \in Values : Arrives(x) /\ ToDomElement[x] \in DomElements1
  BY ValueArrives
<1>3. Details \subseteq Nodes2 /\ \A x \in Details : Arrives(x) /\ ToDomElement[x] \in DomElements2
  BY <1>1, <1>2, StructsArrive DEF Details, Nodes2, DomElements2
<1>4. Entries \subseteq Nodes2 /\ \A x \in Entries : Arrives(x) /\ ToDomElement[x] \in DomElements2
  BY <1>1, <1>2, <1>3 DEF Entries
<1>5. MethodStructs \subseteq Nodes3 /\ \A x \in MethodStructs : Arrives(x) /\ ToDomElement[x] \in DomElements3
  BY <1>1, <1>4, StructsArrive DEF MethodStructs, Nodes3, DomElements3
<1> DEFINE Either == MethodStructs \cup Values
<1>6. Either \subseteq Nodes3 /\ \A x \in Either : Arrives(x) /\ ToDomElement[x] \in DomElements3
  BY <1>1, <1>2, <1>5
<1>7. Sections \subseteq Structs(Either)
  <2>1. Seq(MethodStructs) \subseteq Seq(Either) /\ Seq(Values) \subseteq Seq(Either)
    BY SeqGrows
  <2>2. "Body" \in SoapText /\ "Header" \in SoapText
    BY MessageAssumption
  <2> HIDE DEF Either
  <2> QED
    BY <2>1, <2>2 DEF Sections, Structs
<1> HIDE DEF Either
<1>8. Structs(Either) \subseteq Nodes4 /\ \A x \in Structs(Either) : Arrives(x) /\ ToDomElement[x] \in DomElements4
  BY <1>1, <1>6, StructsArrive DEF Nodes4, DomElements4
<1> QED
  BY <1>7, <1>8

\* A message is read as it was built, or not in full if a value in it has no type.
LEMMA EnvelopeTravels ==
  ASSUME NEW env \in Seq(Sections)
  PROVE  /\ ReadStruct(ToXml(env)).whole <=> ~Untyped[Struct("", env)]
         /\ ~Untyped[Struct("", env)] => ReadStruct(ToXml(env)).items = [i \in DOMAIN env |-> Received[env[i]]]
         /\ ToXml(env) \in DomElements /\ ~NoRoot(ToXml(env))
<1>1. "Envelope" \in SoapText /\ "" \in SoapText /\ "Struct" \in SoapText
  BY MessageAssumption
<1>2. \A x \in Sections : Arrives(x) /\ ToDomElement[x] \in DomElements4
  BY SectionsArrive
<1>3. Branch(DomElements4) \subseteq DomElements
  BY ElementsGrow
<1>4. ASSUME NEW name \in SoapText PROVE Struct(name, env) \in Nodes
  <2>1. env \in Seq(Nodes4)
    BY SectionsArrive, SeqGrows
  <2>2. Struct(name, env) \in Tree(Nodes4)
    BY <1>1, <2>1 DEF Tree, Struct
  <2> QED
    BY <2>2, NodesGrow
<1>5. ASSUME NEW name \in SoapText
      PROVE  ReadAsBuilt(Struct(name, env), env) /\ ToDomElement[Struct(name, env)] \in Branch(DomElements4)
  <2>1. Struct(name, env) \in Nodes
    BY <1>4
  <2> QED
    BY <1>2, <1>3, <2>1, StructArrives
<1>6. Untyped[Struct("", env)] <=> Untyped[Struct("Envelope", env)]
  BY <1>1, <1>5 DEF ReadAsBuilt
<1>7. /\ ReadStruct(ToXml(env)).whole <=> ~Untyped[Struct("Envelope", env)]
      /\ ~Untyped[Struct("Envelope", env)] =>
           ReadStruct(ToXml(env)).items = [i \in DOMAIN env |-> Received[env[i]]]
  BY <1>1, <1>5 DEF ReadAsBuilt, ToXml
<1>8. ToXml(env) \in DomElements
  BY <1>1, <1>3, <1>5 DEF ToXml
<1>9. ToXml(env) # Comment
  <2> DEFINE n == Struct("Envelope", env)
             parts == [i \in DOMAIN n.items |-> ToDomElement[n.items[i]]]
             e == Element(n.name, "none", "", parts)
  <2>1. n \in Nodes /\ n.name = "Envelope" /\ n.type = "Struct"
    BY <1>1, <1>4 DEF Struct
  <2> HIDE DEF n
  <2>2. ToDomElement[n] = WrittenAs(n, parts)
    BY <2>1, ToDomElementIsThere
  <2> HIDE DEF parts
  <2>3. ToDomElement[n] = e
    BY <2>1, <2>2 DEF WrittenAs
  <2>4. e.name = "Envelope" /\ Comment.name = ""
    BY <2>1 DEF Element, Comment
  <2> HIDE DEF e
  <2> QED
    BY <2>3, <2>4 DEF ToXml, n
<1> QED
  BY <1>6, <1>7, <1>8, <1>9 DEF NoRoot
-----------------------------------------------------------------------------
(* SoapMessage: building *)

\* A struct of items.
LEMMA StructOf ==
  ASSUME NEW S, NEW name \in SoapText
  PROVE  /\ \A items \in Seq(S) : Struct(name, items) \in Structs(S)
         /\ Struct(name, <<>>) \in Structs(S)
<1>1. \A items \in Seq(S) : Struct(name, items) \in Structs(S)
  BY DEF Structs
<1>2. <<>> \in Seq(S)
  OBVIOUS
<1> QED
  BY <1>1, <1>2

\* A struct is its name and its items.
LEMMA StructTyped ==
  ASSUME NEW S, NEW x \in Structs(S)
  PROVE  /\ x = Struct(x.name, x.items) /\ x.name \in SoapText /\ x.items \in Seq(S)
         /\ \A items \in Seq(S) : /\ WithItems(x, items) = Struct(x.name, items)
                                  /\ Struct(x.name, items) \in Structs(S)
         /\ \A item : WithItem(x, item) = Struct(x.name, Append(x.items, item))
<1>1. PICK name \in SoapText, items \in Seq(S) : x = Struct(name, items)
  BY DEF Structs
<1>2. x.name = name /\ x.items = items
  BY <1>1 DEF Struct
<1>3. \A s : WithItems(x, s) = Struct(name, s)
  BY <1>1 DEF Struct, WithItems
<1>4. \A s \in Seq(S) : Struct(name, s) \in Structs(S)
  BY DEF Structs
<1> QED
  BY <1>1, <1>2, <1>3, <1>4 DEF WithItem

\* The fields of a struct.
LEMMA StructFields ==
  ASSUME NEW name, NEW items
  PROVE  Struct(name, items).name = name /\ Struct(name, items).items = items
  BY DEF Struct

\* A struct is made where there is none of the name, and nothing else changes.
LEMMA StructMade ==
  ASSUME NEW S, NEW items \in Seq(S), NEW name, Struct(name, <<>>) \in S
  PROVE  /\ WithStruct(items, name) \in Seq(S) /\ Has(WithStruct(items, name), name)
         /\ \A other : ItemsOf(WithStruct(items, name), other) = ItemsOf(items, other)
         /\ \A other : other # name => SameNamed(WithStruct(items, name), items, other)
<1> DEFINE x == Struct(name, <<>>)
<1>1. CASE Has(items, name)
  BY <1>1 DEF WithStruct, SameNamed
<1>2. CASE ~Has(items, name)
  <2>1. WithStruct(items, name) = Append(items, x) /\ Append(items, x) \in Seq(S)
    BY <1>2, AppendProperties DEF WithStruct
  <2>2. x.name = name /\ x.items = <<>> /\ x \in S
    BY DEF Struct
  <2> HIDE DEF x
  <2> QED
    BY <1>2, <2>1, <2>2, AppendedNamed
<1> QED
  BY <1>1, <1>2

\* The items of a name are others now, and nothing else changed.
Replaced(items, new, S, name, others) ==
  /\ new \in Seq(S) /\ ItemsOf(new, name) = others
  /\ \A other : other # name => SameNamed(new, items, other)

\* The first struct of a name is replaced.
LEMMA StructReplaced ==
  ASSUME NEW S, NEW items \in Seq(S), NEW name, Has(items, name), NEW x \in S, x.name = name
  PROVE  Replaced(items, [items EXCEPT ![IndexOf(items, name)] = x], S, name, x.items)
<1> DEFINE i == IndexOf(items, name)
           new == [items EXCEPT ![i] = x]
<1>1. i \in 1..Len(items) /\ items[i].name = name
  BY NameFound
<1> HIDE DEF i
<1>2. /\ new \in Seq(S) /\ Has(new, name) /\ \A other : other # name => SameNamed(new, items, other)
      /\ ItemNamed(new, name) = IF IndexOf(items, name) = i THEN x ELSE ItemNamed(items, name)
  <2>1. x.name = items[i].name
    BY <1>1
  <2> QED
    <3>1. NamedAsBefore(new, items, S, i, x)
      BY <1>1, <2>1, ReplacedNamed
    <3> HIDE DEF new
    <3> QED
      BY <2>1, <3>1 DEF NamedAsBefore, i
<1>3. ItemNamed(new, name) = x
  BY <1>2 DEF i
<1> HIDE DEF new
<1>4. ItemsOf(new, name) = x.items
  BY <1>2, <1>3 DEF ItemsOf
<1> QED
  BY <1>2, <1>4 DEF Replaced, new, i


\* An item is put into the first struct of a name.
LEMMA PutWithin ==
  ASSUME NEW S, NEW items \in Seq(S), NEW name, Has(items, name), NEW item,
         NEW R, ItemNamed(items, name) \in Structs(R), WithItem(ItemNamed(items, name), item) \in S
  PROVE  Replaced(items, Within(items, name, item), S, name, Append(ItemsOf(items, name), item))
<1> DEFINE x == ItemNamed(items, name)
           y == WithItem(x, item)
<1>1. x.name = name /\ IndexOf(items, name) \in 1..Len(items)
  BY NameFound DEF ItemNamed
<1>2. y.name = name /\ y.items = Append(x.items, item)
  <2>1. y = Struct(x.name, Append(x.items, item))
    BY StructTyped
  <2> QED
    <3> HIDE DEF x, y
    <3> QED
      BY <1>1, <2>1, StructFields
<1>3. Within(items, name, item) = [items EXCEPT ![IndexOf(items, name)] = y]
  BY <1>1 DEF Within, ItemNamed
<1>4. ItemsOf(items, name) = x.items
  BY DEF ItemsOf
<1> HIDE DEF x, y
<1>5. y \in S
  BY DEF x, y
<1> QED
  <2>1. Replaced(items, [items EXCEPT ![IndexOf(items, name)] = y], S, name, y.items)
    BY <1>2, <1>5, StructReplaced
  <2> QED
    BY <1>2, <1>3, <1>4, <2>1

\* The code that counts is the first one of the fault.
CodeIn(fault) ==
  IF Has(fault, "Faultcode") /\ ItemNamed(fault, "Faultcode").type = "String"
  THEN ItemNamed(fault, "Faultcode").text ELSE "Other"

\* The code is the first item of its name in the fault.
LEMMA SameCode ==
  ASSUME NEW a, NEW b, SameNamed(a, b, "Faultcode")
  PROVE  CodeIn(a) = CodeIn(b)
  BY DEF SameNamed, CodeIn

\* The items of the body, and those of its fault.
BodyList(env) == ItemsOf(env, "Body")
FaultList(env) == ItemsOf(BodyList(env), "Fault")

\* body() makes a body if there is none, which changes nothing that is found in one.
LEMMA BodyThere ==
  ASSUME NEW env \in Seq(Sections)
  PROVE  /\ WithBody(env) \in Seq(Sections) /\ Has(WithBody(env), "Body")
         /\ BodyOf(env) \in Structs(MethodStructs) /\ BodyOf(env).name = "Body"
         /\ BodyOf(env).items = BodyList(env) /\ BodyList(env) \in Seq(MethodStructs)
         /\ BodyList(WithBody(env)) = BodyList(env)
         /\ FaultItems(env) = FaultList(env) /\ FaultCodeOf(env) = CodeIn(FaultList(env))
<1> DEFINE new == WithBody(env)
<1>1. Struct("Body", <<>>) \in Sections
  <2>1. <<>> \in Seq(MethodStructs)
    OBVIOUS
  <2> QED
    BY <2>1 DEF Sections
<1>2. new \in Seq(Sections) /\ Has(new, "Body") /\ ItemsOf(new, "Body") = ItemsOf(env, "Body")
  BY <1>1, StructMade DEF WithBody
<1> HIDE DEF new
<1>3. BodyOf(env) \in Sections /\ BodyOf(env).name = "Body" /\ BodyOf(env) = ItemNamed(new, "Body")
  <2>1. IndexOf(new, "Body") \in 1..Len(new) /\ new[IndexOf(new, "Body")].name = "Body"
    BY <1>2, NameFound
  <2>2. new[IndexOf(new, "Body")] \in Sections
    BY <1>2, <2>1, ElementOfSeq
  <2> QED
    BY <2>1, <2>2 DEF BodyOf, ItemNamed, new
<1>4. BodyOf(env) \in Structs(MethodStructs)
  <2>1. \A items : Struct("Header", items).name = "Header"
    BY DEF Struct
  <2>2. PICK items \in Seq(MethodStructs) : BodyOf(env) = Struct("Body", items)
    BY <1>3, <2>1 DEF Sections
  <2>3. "Body" \in SoapText
    BY MessageAssumption
  <2> QED
    BY <2>2, <2>3 DEF Structs
<1>5. BodyOf(env).items = BodyList(env) /\ BodyList(new) = BodyList(env)
  BY <1>2, <1>3 DEF BodyList, ItemsOf
<1>6. BodyList(env) \in Seq(MethodStructs)
  BY <1>4, <1>5, StructTyped
<1>7. FaultItems(env) = FaultList(env)
  BY <1>5 DEF FaultItems, FaultList, ItemsOf
<1>8. FaultCodeOf(env) = CodeIn(FaultList(env))
  BY <1>7 DEF FaultCodeOf, CodeIn
<1> QED
  BY <1>2, <1>3, <1>4, <1>5, <1>6, <1>7, <1>8 DEF new

\* The body gets other items.
LEMMA BodySet ==
  ASSUME NEW env \in Seq(Sections), NEW items \in Seq(MethodStructs)
  PROVE  WithBodyItems(env, items) \in Seq(Sections) /\ BodyList(WithBodyItems(env, items)) = items
<1> DEFINE new == WithBody(env)
           i == IndexOf(new, "Body")
           x == Struct("Body", items)
<1>1. new \in Seq(Sections) /\ Has(new, "Body") /\ BodyOf(env) \in Structs(MethodStructs)
      /\ BodyOf(env).name = "Body" /\ BodyOf(env) = new[i]
  BY BodyThere DEF BodyOf, ItemNamed
<1>2. i \in 1..Len(new)
  BY <1>1, NameFound
<1>3. WithItems(new[i], items) = x
  <2>1. WithItems(BodyOf(env), items) = Struct(BodyOf(env).name, items)
    BY <1>1, StructTyped
  <2> QED
    BY <1>1, <2>1
<1>4. WithBodyItems(env, items) = [new EXCEPT ![i] = x]
  BY <1>2, <1>3 DEF WithBodyItems
<1>5. x \in Sections /\ x.name = "Body" /\ x.items = items
  BY StructFields DEF Sections
<1> HIDE DEF new, x
<1> QED
  <2>1. Replaced(new, [new EXCEPT ![i] = x], Sections, "Body", x.items)
    BY <1>1, <1>5, StructReplaced
  <2> QED
    BY <1>4, <1>5, <2>1 DEF Replaced, BodyList

\* Items found by the same name are the same.
LEMMA SameItems ==
  ASSUME NEW a, NEW b, NEW name, SameNamed(a, b, name)
  PROVE  ItemsOf(a, name) = ItemsOf(b, name)
  BY DEF SameNamed, ItemsOf

\* A message that is still one, with the same code of the fault.
CodeKept(new, env) == new \in Seq(Sections) /\ CodeIn(FaultList(new)) = CodeIn(FaultList(env))

\* What an application adds is a value, and what the setters of a fault add.
LEMMA ValuesGiven ==
  /\ Argument \cup HeaderItem \cup FaultDetail \subseteq Values
  /\ Argument \subseteq Entries /\ \A a \in Argument : a.name # "Faultcode"
  /\ \A code \in FaultCodes : /\ Simple("Faultcode", "String", code) \in Entries
                              /\ Simple("Faultcode", "String", code).name = "Faultcode"
                              /\ Simple("Faultcode", "String", code).type = "String"
                              /\ Simple("Faultcode", "String", code).text = code
  /\ Simple("Faultstring", "String", "text") \in Entries
  /\ Simple("Faultstring", "String", "text").name = "Faultstring"
<1>1. ASSUME NEW name \in SoapText, NEW type \in SoapText, NEW text \in SoapText,
             type \notin {"Struct", "none", "comment"}, type \in NumberTypes => text \in NumberText
      PROVE  Simple(name, type, text) \in Values
  BY <1>1 DEF Values, Simple
<1>2. Argument \cup HeaderItem \cup FaultDetail \subseteq Values
  <2> SUFFICES ASSUME NEW a \in Argument \cup HeaderItem \cup FaultDetail PROVE a \in Values
    OBVIOUS
  <2>1. /\ a = Simple(a.name, a.type, a.text) /\ a.name \in SoapText /\ a.type \in SoapText /\ a.text \in SoapText
        /\ a.type \notin {"Struct", "none", "comment"}
        /\ a.type \in NumberTypes => a.text \in NumberText
    BY MessageAssumption
  <2>2. Simple(a.name, a.type, a.text) \in Values
    BY <1>1, <2>1
  <2> QED
    BY <2>1, <2>2
<1>3. Argument \subseteq Entries /\ \A a \in Argument : a.name # "Faultcode"
  BY <1>2, MessageAssumption DEF Entries
<1>4. "String" \in SoapText /\ "String" \notin {"Struct", "none", "comment"} /\ "String" \notin NumberTypes
  BY MessageAssumption
<1>5. ASSUME NEW code \in FaultCodes
      PROVE  /\ Simple("Faultcode", "String", code) \in Entries
             /\ Simple("Faultcode", "String", code).name = "Faultcode"
             /\ Simple("Faultcode", "String", code).type = "String"
             /\ Simple("Faultcode", "String", code).text = code
  <2>1. code \in SoapText /\ "Faultcode" \in SoapText
    BY MessageAssumption
  <2>2. Simple("Faultcode", "String", code) \in Values
    BY <1>1, <1>4, <2>1
  <2>3. /\ Simple("Faultcode", "String", code).name = "Faultcode"
        /\ Simple("Faultcode", "String", code).type = "String"
        /\ Simple("Faultcode", "String", code).text = code
    BY DEF Simple
  <2> QED
    BY <2>2, <2>3 DEF Entries
<1>6. /\ Simple("Faultstring", "String", "text") \in Entries
      /\ Simple("Faultstring", "String", "text").name = "Faultstring"
  <2>1. "text" \in SoapText /\ "Faultstring" \in SoapText
    BY MessageAssumption
  <2>2. Simple("Faultstring", "String", "text") \in Values
    BY <1>1, <1>4, <2>1
  <2>3. Simple("Faultstring", "String", "text").name = "Faultstring"
    BY DEF Simple
  <2> QED
    BY <2>2, <2>3 DEF Entries
<1> QED
  BY <1>2, <1>3, <1>5, <1>6

\* addBodyItem() with a struct that has no items.
LEMMA MethodAdded ==
  ASSUME NEW env \in Seq(Sections), NEW m \in SoapText
  PROVE  CodeKept(AddBodyItem(env, Struct(m, <<>>)), env)
<1> DEFINE w == WithBody(env)
           x == Struct(m, <<>>)
           new == Within(w, "Body", x)
<1>1. x \in MethodStructs /\ x.items = <<>>
  BY StructOf, StructFields DEF MethodStructs
<1>2. /\ w \in Seq(Sections) /\ Has(w, "Body") /\ ItemNamed(w, "Body") = BodyOf(env)
      /\ BodyOf(env) \in Structs(MethodStructs) /\ BodyOf(env).name = "Body"
      /\ BodyOf(env).items \in Seq(MethodStructs)
      /\ BodyList(w) = BodyList(env) /\ BodyList(env) \in Seq(MethodStructs)
  BY BodyThere DEF BodyOf
<1> HIDE DEF x, w
<1>3. WithItem(ItemNamed(w, "Body"), x) \in Sections
  <2>1. WithItem(BodyOf(env), x) = Struct("Body", Append(BodyOf(env).items, x))
    BY <1>2, StructTyped
  <2>2. Append(BodyOf(env).items, x) \in Seq(MethodStructs)
    BY <1>1, <1>2, AppendProperties
  <2> QED
    BY <1>2, <2>1, <2>2 DEF Sections
<1>4. Replaced(w, new, Sections, "Body", Append(ItemsOf(w, "Body"), x))
  BY <1>2, <1>3, PutWithin
<1> HIDE DEF new
<1>5. new \in Seq(Sections) /\ BodyList(new) = Append(BodyList(env), x)
  BY <1>2, <1>4 DEF Replaced, BodyList
<1>6. FaultList(new) = FaultList(env)
  BY <1>1, <1>2, <1>5, AppendedNamed DEF FaultList
<1>7. AddBodyItem(env, Struct(m, <<>>)) = new
  BY DEF AddBodyItem, new, w, x
<1> QED
  BY <1>5, <1>6, <1>7 DEF CodeKept

\* addHeaderItem().
LEMMA HeaderAdded ==
  ASSUME NEW env \in Seq(Sections), NEW a \in Values
  PROVE  CodeKept(Within(WithStruct(env, "Header"), "Header", a), env)
<1> DEFINE w == WithStruct(env, "Header")
           x == ItemNamed(w, "Header")
           new == Within(w, "Header", a)
<1>1. Struct("Header", <<>>) \in Sections
  <2>1. <<>> \in Seq(Values)
    OBVIOUS
  <2> QED
    BY <2>1 DEF Sections
<1>2. w \in Seq(Sections) /\ Has(w, "Header") /\ ItemsOf(w, "Body") = ItemsOf(env, "Body")
  BY <1>1, StructMade
<1> HIDE DEF w
<1>3. x \in Sections /\ x.name = "Header"
  <2>1. IndexOf(w, "Header") \in 1..Len(w) /\ w[IndexOf(w, "Header")].name = "Header"
    BY <1>2, NameFound
  <2> QED
    BY <1>2, <2>1, ElementOfSeq DEF ItemNamed
<1>4. PICK items \in Seq(Values) : x = Struct("Header", items)
  <2>1. \A s : Struct("Body", s).name = "Body"
    BY DEF Struct
  <2> QED
    BY <1>3, <2>1 DEF Sections
<1>5. x \in Structs(Values) /\ WithItem(x, a) \in Sections
  <2>1. "Header" \in SoapText
    BY MessageAssumption
  <2>2. x \in Structs(Values) /\ x.items = items
    BY <1>4, <2>1, StructFields DEF Structs
  <2>3. WithItem(x, a) = Struct("Header", Append(items, a))
    BY <1>3, <2>2, StructTyped
  <2>4. Append(items, a) \in Seq(Values)
    BY AppendProperties
  <2> QED
    BY <2>2, <2>3, <2>4 DEF Sections
<1>6. Replaced(w, new, Sections, "Header", Append(ItemsOf(w, "Header"), a))
  BY <1>2, <1>5, PutWithin
<1> HIDE DEF new
<1>7. new \in Seq(Sections) /\ SameNamed(new, w, "Body")
  BY <1>6 DEF Replaced
<1>8. FaultList(new) = FaultList(env)
  BY <1>2, <1>7, SameItems DEF FaultList, BodyList
<1> QED
  BY <1>7, <1>8 DEF CodeKept, new, w

\* addMethodArgument(): the first item of the body may be the fault.
LEMMA ArgumentPut ==
  ASSUME NEW env \in Seq(Sections), NEW a \in Entries, a.name # "Faultcode", BodyOf(env).items # <<>>
  PROVE  CodeKept(WithBodyItems(env, [BodyOf(env).items EXCEPT ![1] = WithItem(@, a)]), env)
<1> DEFINE items == BodyList(env)
           y == WithItem(items[1], a)
           new == [items EXCEPT ![1] = y]
<1>1. BodyOf(env).items = items /\ items \in Seq(MethodStructs) /\ items # <<>>
  BY BodyThere
<1>2. 1 \in 1..Len(items)
  <2>1. Len(items) \in Nat /\ Len(items) # 0
    BY <1>1, LenProperties, EmptySeq
  <2> QED
    BY <2>1
<1>3. items[1] \in Structs(Entries)
  BY <1>1, <1>2, ElementOfSeq DEF MethodStructs
<1>4. y \in MethodStructs /\ y.name = items[1].name /\ y.items = Append(items[1].items, a)
      /\ items[1].items \in Seq(Entries)
  <2>1. /\ items[1].items \in Seq(Entries)
        /\ y = Struct(items[1].name, Append(items[1].items, a))
    BY <1>3, StructTyped
  <2>2. Append(items[1].items, a) \in Seq(Entries)
    BY <2>1, AppendProperties
  <2>3. Struct(items[1].name, Append(items[1].items, a)) \in MethodStructs
    BY <1>3, <2>2, StructTyped DEF MethodStructs
  <2> HIDE DEF y
  <2> QED
    BY <2>1, <2>3, StructFields
<1> HIDE DEF y, items
<1>5. NamedAsBefore(new, items, MethodStructs, 1, y)
  BY <1>1, <1>2, <1>4, ReplacedNamed
<1> HIDE DEF new
<1>6. /\ new \in Seq(MethodStructs) /\ Has(new, "Fault") = Has(items, "Fault")
      /\ Has(items, "Fault") => ItemNamed(new, "Fault") = IF IndexOf(items, "Fault") = 1 THEN y
                                                          ELSE ItemNamed(items, "Fault")
  BY <1>5 DEF NamedAsBefore
<1>7. CodeIn(ItemsOf(new, "Fault")) = CodeIn(ItemsOf(items, "Fault"))
  <2>1. CASE Has(items, "Fault") /\ IndexOf(items, "Fault") = 1
    <3>1. ItemsOf(new, "Fault") = Append(items[1].items, a) /\ ItemsOf(items, "Fault") = items[1].items
      BY <1>4, <1>6, <2>1 DEF ItemsOf, ItemNamed
    <3>2. SameNamed(Append(items[1].items, a), items[1].items, "Faultcode")
      BY <1>4, AppendedNamed
    <3> QED
      BY <3>1, <3>2, SameCode
  <2>2. CASE ~(Has(items, "Fault") /\ IndexOf(items, "Fault") = 1)
    BY <1>6, <2>2 DEF ItemsOf
  <2> QED
    BY <2>1, <2>2
<1>8. WithBodyItems(env, new) \in Seq(Sections) /\ BodyList(WithBodyItems(env, new)) = new
  BY <1>6, BodySet
<1>9. [BodyOf(env).items EXCEPT ![1] = WithItem(@, a)] = new
  BY <1>1, <1>2 DEF new, y
<1> QED
  BY <1>7, <1>8, <1>9 DEF CodeKept, FaultList, items

\* The fault is there when something is added to it.
LEMMA FaultThere ==
  ASSUME NEW env \in Seq(Sections)
  PROVE  /\ FaultBody(env) \in Seq(MethodStructs) /\ Has(FaultBody(env), "Fault")
         /\ ItemsOf(FaultBody(env), "Fault") = FaultList(env)
         /\ ItemNamed(FaultBody(env), "Fault") \in Structs(Entries)
         /\ ItemNamed(FaultBody(env), "Fault").name = "Fault"
         /\ ItemNamed(FaultBody(env), "Fault").items = FaultList(env)
         /\ FaultList(env) \in Seq(Entries)
<1> DEFINE body == FaultBody(env)
           x == ItemNamed(body, "Fault")
<1>1. Struct("Fault", <<>>) \in MethodStructs
  <2>1. "Fault" \in SoapText
    BY MessageAssumption
  <2> QED
    BY <2>1, StructOf DEF MethodStructs
<1>2. BodyOf(env).items = BodyList(env) /\ BodyList(env) \in Seq(MethodStructs)
  BY BodyThere
<1>3. body \in Seq(MethodStructs) /\ Has(body, "Fault") /\ ItemsOf(body, "Fault") = FaultList(env)
  BY <1>1, <1>2, StructMade DEF FaultBody, FaultList
<1> HIDE DEF body
<1>4. x \in MethodStructs /\ x.name = "Fault"
  <2>1. IndexOf(body, "Fault") \in 1..Len(body) /\ body[IndexOf(body, "Fault")].name = "Fault"
    BY <1>3, NameFound
  <2> QED
    BY <1>3, <2>1, ElementOfSeq DEF ItemNamed
<1>5. x.items = FaultList(env)
  BY <1>3 DEF ItemsOf
<1>6. x.items \in Seq(Entries)
  BY <1>4, StructTyped DEF MethodStructs
<1> QED
  BY <1>3, <1>4, <1>5, <1>6 DEF body, MethodStructs

\* setFaultCode() and setFaultString() put their item behind the others.
LEMMA FaultAdded ==
  ASSUME NEW env \in Seq(Sections), NEW a \in Entries
  PROVE  AddToFault(env, a) \in Seq(Sections) /\ FaultList(AddToFault(env, a)) = Append(FaultList(env), a)
<1> DEFINE body == FaultBody(env)
           x == ItemNamed(body, "Fault")
           new == Within(body, "Fault", a)
<1>1. /\ body \in Seq(MethodStructs) /\ Has(body, "Fault") /\ ItemsOf(body, "Fault") = FaultList(env)
      /\ x \in Structs(Entries)
  BY FaultThere
<1> HIDE DEF body
<1>2. WithItem(x, a) \in MethodStructs
  <2>1. /\ x.items \in Seq(Entries) /\ x.name \in SoapText
        /\ WithItem(x, a) = Struct(x.name, Append(x.items, a))
    BY <1>1, StructTyped
  <2>2. Append(x.items, a) \in Seq(Entries)
    BY <2>1, AppendProperties
  <2> QED
    BY <2>1, <2>2, StructOf DEF MethodStructs
<1>3. Replaced(body, new, MethodStructs, "Fault", Append(ItemsOf(body, "Fault"), a))
  BY <1>1, <1>2, PutWithin
<1>4. AddToFault(env, a) = WithBodyItems(env, new)
  BY DEF AddToFault, body
<1> HIDE DEF new
<1>5. new \in Seq(MethodStructs) /\ ItemsOf(new, "Fault") = Append(FaultList(env), a)
  BY <1>1, <1>3 DEF Replaced
<1> QED
  BY <1>4, <1>5, BodySet DEF FaultList

\* addFaultDetail() leaves the code alone.
LEMMA DetailAdded ==
  ASSUME NEW env \in Seq(Sections), NEW a \in Values
  PROVE  CodeKept(AddToDetail(env, a), env)
<1> DEFINE body == FaultBody(env)
           x == ItemNamed(body, "Fault")
           details == WithStruct(x.items, "Faultdetail")
           d == ItemNamed(details, "Faultdetail")
           items == Within(details, "Faultdetail", a)
           fault == WithItems(x, items)
           new == [body EXCEPT ![IndexOf(body, "Fault")] = fault]
<1>1. /\ body \in Seq(MethodStructs) /\ Has(body, "Fault") /\ x \in Structs(Entries)
      /\ x.name = "Fault" /\ x.items = FaultList(env) /\ FaultList(env) \in Seq(Entries)
  BY FaultThere
<1>2. AddToDetail(env, a) = WithBodyItems(env, new)
  BY DEF AddToDetail
<1> HIDE DEF body, x
<1>3. Struct("Faultdetail", <<>>) \in Entries
  <2>1. "Faultdetail" \in SoapText
    BY MessageAssumption
  <2>2. Struct("Faultdetail", <<>>) \in Details
    BY <2>1, StructOf DEF Details
  <2> QED
    BY <2>2 DEF Entries
<1>4. details \in Seq(Entries) /\ Has(details, "Faultdetail") /\ SameNamed(details, FaultList(env), "Faultcode")
  BY <1>1, <1>3, StructMade
<1> HIDE DEF details
<1>5. d \in Structs(Values)
  <2>1. IndexOf(details, "Faultdetail") \in 1..Len(details)
        /\ details[IndexOf(details, "Faultdetail")].name = "Faultdetail"
    BY <1>4, NameFound
  <2>2. d \in Entries /\ d.name = "Faultdetail"
    BY <1>4, <2>1, ElementOfSeq DEF ItemNamed
  <2> QED
    BY <2>2 DEF Entries, Details
<1>6. WithItem(d, a) \in Entries
  <2>1. /\ d.items \in Seq(Values) /\ d.name \in SoapText
        /\ WithItem(d, a) = Struct(d.name, Append(d.items, a))
    BY <1>5, StructTyped
  <2>2. Append(d.items, a) \in Seq(Values)
    BY <2>1, AppendProperties
  <2>3. WithItem(d, a) \in Details
    BY <2>1, <2>2, StructOf DEF Details
  <2> QED
    BY <2>3 DEF Entries
<1>7. Replaced(details, items, Entries, "Faultdetail", Append(ItemsOf(details, "Faultdetail"), a))
  BY <1>4, <1>5, <1>6, PutWithin
<1> HIDE DEF items, d
<1>8. items \in Seq(Entries) /\ SameNamed(items, details, "Faultcode")
  BY <1>7 DEF Replaced
<1>9. CodeIn(items) = CodeIn(FaultList(env))
  BY <1>4, <1>8, SameCode
<1>10. fault \in MethodStructs /\ fault.name = "Fault" /\ fault.items = items
  <2>1. fault = Struct("Fault", items) /\ Struct("Fault", items) \in MethodStructs
    BY <1>1, <1>8, StructTyped DEF MethodStructs
  <2> HIDE DEF fault
  <2> QED
    BY <2>1, StructFields
<1> HIDE DEF fault
<1>11. Replaced(body, new, MethodStructs, "Fault", fault.items)
  BY <1>1, <1>10, StructReplaced
<1> HIDE DEF new
<1>12. new \in Seq(MethodStructs) /\ ItemsOf(new, "Fault") = items
  BY <1>10, <1>11 DEF Replaced
<1>13. WithBodyItems(env, new) \in Seq(Sections) /\ BodyList(WithBodyItems(env, new)) = new
  BY <1>12, BodySet
<1> QED
  BY <1>2, <1>9, <1>12, <1>13 DEF CodeKept, FaultList

-----------------------------------------------------------------------------
(* SoapMessage: the fault of an import that failed *)

\* A list of things that each have a list of items: what is read of any document.
ListsIn(env, S, T) == env \in Seq(S) /\ \A x \in S : x.items \in Seq(T)
Lists(env) == \E S, T : ListsIn(env, S, T)

\* What is read of any element, of however many things in it.
ReadItems == {SoapType[e].item : e \in DomElements}
ReadsTyped(B) == B \subseteq DomElements /\ \A e \in B : SoapType[e] \in AnyParts(ReadItems)

\* A struct is a list of what was read of the elements in it.
LEMMA StructRead ==
  ASSUME NEW B, ReadsTyped(B), NEW text, NEW children \in Seq(B)
  PROVE  ReadParts(text, [i \in DOMAIN children |-> SoapType[children[i]]])
           \in [whole : BOOLEAN, items : Seq(ReadItems)]
<1> DEFINE parts == [i \in DOMAIN children |-> SoapType[children[i]]]
<1>1. Len(children) \in Nat /\ DOMAIN children = 1..Len(children) /\ \A i \in 1..Len(children) : children[i] \in B
  BY LenProperties, ElementOfSeq
<1>2. parts \in [1..Len(children) -> AnyParts(ReadItems)]
  BY <1>1 DEF ReadsTyped
<1>3. parts \in Seq(AnyParts(ReadItems))
  BY <1>1, <1>2, IsSequence
<1> HIDE DEF parts
<1>4. CASE text = ""
  <2>1. Len(parts) \in Nat /\ Len(parts) \in 0..Len(parts)
    BY <1>3, LenProperties
  <2>2. PICK run \in [0..Len(parts) -> [whole : BOOLEAN, items : Seq(ReadItems)]] :
          run[Len(parts)] = ReadParts("", parts)
    BY <1>3, PartsLoop
  <2> QED
    BY <1>4, <2>1, <2>2 DEF parts
<1>5. CASE text # ""
  <2>1. ReadParts(text, parts) = [whole |-> FALSE, items |-> <<>>]
    BY <1>5 DEF ReadParts
  <2>2. [whole |-> FALSE, items |-> <<>>] \in [whole : BOOLEAN, items : Seq(ReadItems)]
    <3>1. <<>> \in Seq(ReadItems)
      OBVIOUS
    <3> QED
      BY <3>1
  <2> QED
    BY <2>1, <2>2 DEF parts
<1> QED
  BY <1>4, <1>5 DEF parts

\* What is read of an element, whose children can be read, can be told.
LEMMA ElementTyped ==
  ASSUME NEW B, ReadsTyped(B), Branch(B) \subseteq DomElements, NEW e \in Branch(B)
  PROVE  SoapType[e] \in AnyParts(ReadItems) /\ SoapType[e].item.items \in Seq(ReadItems)
<1> DEFINE parts == [i \in DOMAIN e.children |-> SoapType[e.children[i]]]
           x == SoapType[e]
<1>1. x = ReadElement(e, parts) /\ x.item \in ReadItems
  BY SoapTypeIsThere DEF ReadItems
<1>2. e.children \in Seq(B)
  BY DEF Branch
<1>3. ReadParts(e.text, parts) \in [whole : BOOLEAN, items : Seq(ReadItems)]
  BY <1>2, StructRead
<1>4. NumberFits(e) \in BOOLEAN
  BY DEF NumberFits
<1> DEFINE read == ReadParts(e.text, parts)
<1>5. read.whole \in BOOLEAN /\ read.items \in Seq(ReadItems)
  BY <1>3
<1> HIDE DEF parts, x, read
<1>6. x.comment \in BOOLEAN /\ x.whole \in BOOLEAN /\ x = [comment |-> x.comment, whole |-> x.whole, item |-> x.item]
  BY <1>1, <1>4, <1>5 DEF ReadElement, read
<1>7. x.item.items \in Seq(ReadItems)
  <2>1. CASE ReadAsStruct(e)
    <3>1. x.item = Struct(e.name, read.items)
      BY <1>1, <2>1, ElementFields DEF read
    <3>2. x.item.items = read.items
      BY <3>1, StructFields
    <3> QED
      BY <1>5, <3>2
  <2>2. CASE ~ReadAsStruct(e)
    <3>1. x.item = Simple(e.name, NameToType(e.xsi), e.text)
      BY <1>1, <2>2 DEF ReadElement
    <3>2. x.item.items = <<>>
      BY <3>1 DEF Simple
    <3> QED
      BY <3>2
  <2> QED
    BY <2>1, <2>2
<1> QED
  BY <1>1, <1>6, <1>7 DEF AnyParts, x

\* So for elements of every depth, and so for documents.
LEMMA DocumentsRead == \A doc \in DomElements : Lists(ReadStruct(doc).items)
<1>1. ReadsTyped({})
  BY DEF ReadsTyped
<1>2. ASSUME NEW B, ReadsTyped(B), Branch(B) \subseteq DomElements
      PROVE  ReadsTyped(Branch(B))
  BY <1>2, ElementTyped DEF ReadsTyped
<1>3. ReadsTyped(DomElements1)
  BY <1>1, <1>2, ElementsGrow DEF DomElements1
<1>4. ReadsTyped(DomElements2)
  BY <1>2, <1>3, ElementsGrow DEF DomElements2
<1>5. ReadsTyped(DomElements3)
  BY <1>2, <1>4, ElementsGrow DEF DomElements3
<1>6. ReadsTyped(DomElements4)
  BY <1>2, <1>5, ElementsGrow DEF DomElements4
<1>7. \A e \in DomElements : e.children \in Seq(DomElements4) /\ SoapType[e].item.items \in Seq(ReadItems)
  BY <1>6, ElementsGrow, ElementTyped DEF Branch
<1>8. \A x \in ReadItems : x.items \in Seq(ReadItems)
  BY <1>7 DEF ReadItems
<1> SUFFICES ASSUME NEW doc \in DomElements PROVE Lists(ReadStruct(doc).items)
  OBVIOUS
<1>9. ReadStruct(doc) \in [whole : BOOLEAN, items : Seq(ReadItems)]
  BY <1>6, <1>7, StructRead DEF ReadStruct
<1> QED
  BY <1>8, <1>9 DEF Lists, ListsIn

\* body() of what was read, whose items are a list.
LEMMA BodyListed ==
  ASSUME NEW env, Lists(env)
  PROVE  \E S, T :
           /\ ListsIn(WithBody(env), S, T) /\ Has(WithBody(env), "Body")
           /\ IndexOf(WithBody(env), "Body") \in 1..Len(WithBody(env))
           /\ BodyOf(env) \in S /\ BodyOf(env).name = "Body"
<1>1. PICK S, T : ListsIn(env, S, T)
  BY DEF Lists
<1> DEFINE R == S \cup {Struct("Body", <<>>)}
           new == WithBody(env)
<1>2. env \in Seq(R) /\ Struct("Body", <<>>) \in R
  BY <1>1, SeqGrows DEF ListsIn
<1>3. Struct("Body", <<>>).items \in Seq(T)
  BY DEF Struct
<1>4. \A x \in R : x.items \in Seq(T)
  BY <1>1, <1>3 DEF ListsIn
<1> HIDE DEF R
<1>5. new \in Seq(R) /\ Has(new, "Body")
  BY <1>2, StructMade DEF WithBody
<1> HIDE DEF new
<1>6. IndexOf(new, "Body") \in 1..Len(new) /\ new[IndexOf(new, "Body")].name = "Body"
  BY <1>5, NameFound
<1>7. new[IndexOf(new, "Body")] \in R
  BY <1>5, <1>6, ElementOfSeq
<1>8. BodyOf(env) = new[IndexOf(new, "Body")]
  BY DEF BodyOf, ItemNamed, new
<1>9. ListsIn(new, R, T)
  BY <1>4, <1>5 DEF ListsIn
<1> QED
  BY <1>5, <1>6, <1>7, <1>8, <1>9 DEF new

\* The body gets other items.
LEMMA BodyItemsListed ==
  ASSUME NEW env, Lists(env), NEW T, NEW items \in Seq(T)
  PROVE  Lists(WithBodyItems(env, items)) /\ BodyOf(WithBodyItems(env, items)).items = items
<1> DEFINE body == WithBody(env)
           i == IndexOf(body, "Body")
           y == WithItems(body[i], items)
           new == [body EXCEPT ![i] = y]
<1>1. PICK S, R : ListsIn(body, S, R) /\ Has(body, "Body") /\ i \in 1..Len(body)
                  /\ BodyOf(env) \in S /\ BodyOf(env).name = "Body"
  BY BodyListed
<1>2. BodyOf(env) = body[i]
  BY DEF BodyOf, ItemNamed
<1>3. WithBodyItems(env, items) = new
  <2>1. i \in DOMAIN body
    BY <1>1, LenProperties DEF ListsIn
  <2> QED
    BY <2>1 DEF WithBodyItems
<1>4. y.name = "Body" /\ y.items = items
  BY <1>1, <1>2 DEF WithItems
<1> DEFINE Q == S \cup {y}
           U == R \cup T
<1>5. body \in Seq(Q) /\ y \in Q /\ body[i].name = "Body"
  BY <1>1, <1>2, SeqGrows DEF ListsIn
<1>6. \A x \in Q : x.items \in Seq(U)
  <2>1. Seq(R) \subseteq Seq(U) /\ Seq(T) \subseteq Seq(U)
    BY SeqGrows
  <2> HIDE DEF U
  <2> QED
    BY <1>1, <1>4, <2>1 DEF ListsIn
<1> HIDE DEF Q, U, y, body
<1>7. NamedAsBefore(new, body, Q, i, y)
  BY <1>1, <1>4, <1>5, ReplacedNamed
<1> HIDE DEF new
<1>8. new \in Seq(Q) /\ Has(new, "Body") /\ ItemNamed(new, "Body") = y
  BY <1>1, <1>7 DEF NamedAsBefore
<1>9. WithBody(new) = new
  BY <1>8 DEF WithBody, WithStruct
<1>10. BodyOf(new) = y
  BY <1>8, <1>9 DEF BodyOf
<1>11. Lists(new)
  BY <1>6, <1>8 DEF Lists, ListsIn
<1> QED
  BY <1>3, <1>4, <1>10, <1>11

\* A fault is made in what was read.
LEMMA FaultListed ==
  ASSUME NEW env, Lists(env)
  PROVE  \E T : FaultBody(env) \in Seq(T) /\ Has(FaultBody(env), "Fault")
                /\ IndexOf(FaultBody(env), "Fault") \in 1..Len(FaultBody(env))
                /\ FaultBody(env)[IndexOf(FaultBody(env), "Fault")].name = "Fault"
<1>1. PICK S, R : ListsIn(WithBody(env), S, R) /\ BodyOf(env) \in S
  BY BodyListed
<1> DEFINE T == R \cup {Struct("Fault", <<>>)}
           body == FaultBody(env)
<1>2. BodyOf(env).items \in Seq(T) /\ Struct("Fault", <<>>) \in T
  BY <1>1, SeqGrows DEF ListsIn
<1> HIDE DEF T
<1>3. body \in Seq(T) /\ Has(body, "Fault")
  BY <1>2, StructMade DEF FaultBody
<1> HIDE DEF body
<1>4. IndexOf(body, "Fault") \in 1..Len(body) /\ body[IndexOf(body, "Fault")].name = "Fault"
  BY <1>3, NameFound
<1> QED
  BY <1>3, <1>4 DEF body

\* An item of the fault in what was read is replaced, and the fault is there.
LEMMA FaultReplaced ==
  ASSUME NEW env, Lists(env), NEW y, y.name = "Fault"
  PROVE  LET items == [FaultBody(env) EXCEPT ![IndexOf(FaultBody(env), "Fault")] = y]
         IN /\ Lists(WithBodyItems(env, items))
            /\ Has(BodyOf(WithBodyItems(env, items)).items, "Fault")
<1> DEFINE body == FaultBody(env)
           i == IndexOf(body, "Fault")
           items == [body EXCEPT ![i] = y]
<1>1. PICK T : body \in Seq(T) /\ Has(body, "Fault") /\ i \in 1..Len(body) /\ body[i].name = "Fault"
  BY FaultListed
<1> DEFINE R == T \cup {y}
<1>2. body \in Seq(R) /\ y \in R
  BY <1>1, SeqGrows
<1> HIDE DEF body, R
<1>3. NamedAsBefore(items, body, R, i, y)
  BY <1>1, <1>2, ReplacedNamed
<1>4. items \in Seq(R) /\ Has(items, "Fault")
  BY <1>1, <1>3 DEF NamedAsBefore
<1> HIDE DEF items
<1>5. Lists(WithBodyItems(env, items)) /\ BodyOf(WithBodyItems(env, items)).items = items
  BY <1>4, BodyItemsListed
<1> QED
  BY <1>4, <1>5 DEF items, body

\* What an import leaves of a document that is no message has a fault.
LEMMA ImportFault ==
  ASSUME NEW env, Lists(env)
  PROVE  Lists(WithImportFault(env)) /\ Has(BodyOf(WithImportFault(env)).items, "Fault")
<1>1. ASSUME NEW e, Lists(e), NEW a PROVE Lists(AddToFault(e, a))
  <2> DEFINE body == FaultBody(e)
             i == IndexOf(body, "Fault")
             y == WithItem(body[i], a)
  <2>1. i \in DOMAIN body /\ body[i].name = "Fault"
    BY <1>1, FaultListed, LenProperties
  <2>2. y.name = "Fault"
    BY <2>1 DEF WithItem, WithItems
  <2>3. Within(body, "Fault", a) = [body EXCEPT ![i] = y]
    BY <2>1 DEF Within
  <2> HIDE DEF y
  <2> QED
    BY <1>1, <2>2, <2>3, FaultReplaced DEF AddToFault
<1> DEFINE first == AddToFault(env, Simple("Faultcode", "String", "VersionMismatch"))
           e == AddToFault(first, Simple("Faultstring", "String", "invalid"))
           a == Simple("extra", "String", "reason")
           body == FaultBody(e)
           i == IndexOf(body, "Fault")
           x == ItemNamed(body, "Fault")
           y == WithItems(x, Within(WithStruct(x.items, "Faultdetail"), "Faultdetail", a))
<1>2. Lists(first)
  BY <1>1
<1> HIDE DEF first
<1>3. Lists(e)
  BY <1>1, <1>2
<1> HIDE DEF e
<1>4. x.name = "Fault"
  BY <1>3, FaultListed DEF ItemNamed
<1>5. y.name = "Fault"
  BY <1>4 DEF WithItems
<1>6. WithImportFault(env) = WithBodyItems(e, [body EXCEPT ![i] = y])
  BY DEF WithImportFault, AddToDetail, e, first
<1> HIDE DEF y
<1> QED
  BY <1>3, <1>5, <1>6, FaultReplaced

-----------------------------------------------------------------------------
(* SoapMessage: the invariant *)

\* What the receiver has of a message that was sent to it.
Travelled ==
  origin # Foreigner =>
    /\ imported = "ok" => incoming = [i \in DOMAIN origin |-> Received[origin[i]]]
    /\ imported = "invalid" => ~ValidSoapMessage(ToXml(origin))
    /\ imported = "unread" => Untyped[Struct("", origin)]

\* What the receiver has can be looked through, and has a fault if the last import left one.
FaultKept ==
  Lists(incoming) /\ (imported = "invalid" => Has(BodyOf(incoming).items, "Fault"))

\* The message that is built consists of what the setters make, and its code counts.
Building == outgoing \in Seq(Sections) /\ FaultCodeOf(outgoing) = firstCode

MessageInv == Building /\ Travelled /\ FaultKept

\* A call that builds a message leaves the receiver's alone.
LEMMA TravelledKept ==
  ASSUME Travelled, FaultKept, UNCHANGED <<incoming, imported, origin>>
  PROVE  Travelled' /\ FaultKept'
<1>1. \A x, y, z : x = incoming /\ y = imported /\ z = origin =>
        (z # Foreigner =>
          /\ y = "ok" => x = [i \in DOMAIN z |-> Received[z[i]]]
          /\ y = "invalid" => ~ValidSoapMessage(ToXml(z))
          /\ y = "unread" => Untyped[Struct("", z)])
  BY DEF Travelled
<1>2. Travelled'
  BY <1>1 DEF Travelled
<1>3. \A x, y : x = incoming /\ y = imported =>
        Lists(x) /\ (y = "invalid" => Has(BodyOf(x).items, "Fault"))
  BY DEF FaultKept
<1>4. FaultKept'
  BY <1>3 DEF FaultKept
<1> QED
  BY <1>2, <1>4

\* A call that builds the message and leaves its code alone.
LEMMA BuildKeeps ==
  ASSUME MessageInv, NEW env, CodeKept(env, outgoing), Build(env), UNCHANGED codes
  PROVE  MessageInv'
<1>1. outgoing' = env /\ UNCHANGED <<incoming, imported, origin, firstCode>>
  BY DEF Build, codes
<1>2. env \in Seq(Sections) /\ CodeIn(FaultList(env)) = CodeIn(FaultList(outgoing))
  BY DEF CodeKept
<1>3. FaultCodeOf(env) = firstCode
  BY <1>2, BodyThere DEF MessageInv, Building
<1>4. Building'
  BY <1>1, <1>2, <1>3 DEF Building
<1> QED
  BY <1>1, <1>4, TravelledKept DEF MessageInv

\* setFaultCode(): the first code is the one that counts.
LEMMA CodeSet ==
  ASSUME MessageInv, NEW code \in FaultCodes, SetFaultCode(code)
  PROVE  MessageInv'
<1> DEFINE a == Simple("Faultcode", "String", code)
           env == AddToFault(outgoing, a)
           fault == FaultList(outgoing)
<1>1. /\ outgoing' = env /\ UNCHANGED <<incoming, imported, origin>>
      /\ firstCode' = IF Has(FaultItems(outgoing), "Faultcode") THEN firstCode ELSE code
  BY DEF SetFaultCode, Build
<1>2. /\ a \in Entries /\ a.name = "Faultcode" /\ a.type = "String" /\ a.text = code
      /\ outgoing \in Seq(Sections) /\ FaultCodeOf(outgoing) = firstCode
  BY ValuesGiven DEF MessageInv, Building
<1> HIDE DEF a
<1>3. env \in Seq(Sections) /\ FaultList(env) = Append(fault, a)
  BY <1>2, FaultAdded
<1>4. fault \in Seq(Entries) /\ FaultItems(outgoing) = fault /\ CodeIn(fault) = firstCode
  BY <1>2, BodyThere, FaultThere
<1> HIDE DEF env, fault
<1>5. FaultCodeOf(env) = CodeIn(Append(fault, a))
  BY <1>3, BodyThere
<1>6. CodeIn(Append(fault, a)) = IF Has(fault, "Faultcode") THEN firstCode ELSE code
  <2>1. CASE Has(fault, "Faultcode")
    BY <1>2, <1>4, <2>1, AppendedNamed, SameCode
  <2>2. CASE ~Has(fault, "Faultcode")
    <3>1. Has(Append(fault, a), "Faultcode") /\ ItemNamed(Append(fault, a), "Faultcode") = a
      BY <1>2, <1>4, <2>2, AppendedNamed
    <3> QED
      BY <1>2, <2>2, <3>1 DEF CodeIn
  <2> QED
    BY <2>1, <2>2
<1>7. Building'
  BY <1>1, <1>3, <1>4, <1>5, <1>6 DEF Building
<1> QED
  BY <1>1, <1>7, TravelledKept DEF MessageInv

\* A message without anything in it has no code.
LEMMA EmptyCode == <<>> \in Seq(Sections) /\ FaultCodeOf(<<>>) = "Other"
<1>1. <<>> \in Seq(Sections)
  OBVIOUS
<1>2. \A name : ~Has(<<>>, name)
  <2> SUFFICES ASSUME NEW name PROVE ~Has(<<>>, name)
    OBVIOUS
  <2> DEFINE none == <<>>
  <2>1. none \in Seq({}) /\ \A j \in 1..Len(none) : none[j].name # name
    OBVIOUS
  <2> HIDE DEF none
  <2>2. IndexOf(none, name) = 0
    BY <2>1, NoneNamed
  <2> QED
    BY <2>2 DEF Has, none
<1>3. FaultList(<<>>) = <<>>
  BY <1>2 DEF FaultList, BodyList, ItemsOf
<1>4. CodeIn(<<>>) = "Other"
  BY <1>2 DEF CodeIn
<1> QED
  BY <1>1, <1>3, <1>4, BodyThere

\* clear() of the message that is built.
LEMMA ClearedKeeps ==
  ASSUME MessageInv, ClearMessageTree
  PROVE  MessageInv'
<1>1. outgoing' = <<>> /\ firstCode' = "Other" /\ UNCHANGED <<incoming, imported, origin>>
  BY DEF ClearMessageTree
<1>2. Building'
  BY <1>1, EmptyCode DEF Building
<1> QED
  BY <1>1, <1>2, TravelledKept DEF MessageInv

\* setContent() of any document.
LEMMA ImportKeepsFault ==
  ASSUME FaultKept, NEW doc \in DomElements, NEW source, Import(doc, source)
  PROVE  FaultKept'
<1>1. /\ incoming' = SetContent(incoming, doc)
      /\ imported' = IF ~ValidSoapMessage(doc) THEN (IF NoRoot(doc) THEN "noRoot" ELSE "invalid")
                     ELSE IF ReadStruct(doc).whole THEN "ok" ELSE "unread"
  BY DEF Import
<1>2. Lists(incoming) /\ Lists(ReadStruct(doc).items)
  BY DocumentsRead DEF FaultKept
<1>3. CASE ValidSoapMessage(doc)
  <2>1. incoming' = ReadStruct(doc).items /\ imported' # "invalid"
    BY <1>1, <1>3 DEF SetContent
  <2> QED
    BY <1>2, <2>1 DEF FaultKept
<1>4. CASE ~ValidSoapMessage(doc) /\ NoRoot(doc)
  <2>1. incoming' = incoming /\ imported' # "invalid"
    BY <1>1, <1>4 DEF SetContent
  <2> QED
    BY <1>2, <2>1 DEF FaultKept
<1>5. CASE ~ValidSoapMessage(doc) /\ ~NoRoot(doc)
  <2>1. incoming' = WithImportFault(incoming)
    BY <1>1, <1>5 DEF SetContent
  <2> QED
    BY <1>2, <2>1, ImportFault DEF FaultKept
<1> QED
  BY <1>3, <1>4, <1>5

\* setContent() of the message that is built.
LEMMA SentKeeps ==
  ASSUME MessageInv, Import(ToXml(outgoing), outgoing)
  PROVE  MessageInv'
<1> DEFINE doc == ToXml(outgoing)
<1>1. /\ incoming' = SetContent(incoming, doc) /\ origin' = outgoing
      /\ imported' = IF ~ValidSoapMessage(doc) THEN (IF NoRoot(doc) THEN "noRoot" ELSE "invalid")
                     ELSE IF ReadStruct(doc).whole THEN "ok" ELSE "unread"
      /\ UNCHANGED <<outgoing, firstCode>>
  BY DEF Import, codes
<1>2. /\ ReadStruct(doc).whole <=> ~Untyped[Struct("", outgoing)]
      /\ ~Untyped[Struct("", outgoing)] =>
           ReadStruct(doc).items = [i \in DOMAIN outgoing |-> Received[outgoing[i]]]
      /\ doc \in DomElements
  BY EnvelopeTravels DEF MessageInv, Building
<1>3. ValidSoapMessage(doc) => incoming' = ReadStruct(doc).items
  BY <1>1 DEF SetContent
<1>4. Building'
  BY <1>1 DEF MessageInv, Building
<1>5. imported' = "ok" => incoming' = [i \in DOMAIN outgoing |-> Received[outgoing[i]]]
  BY <1>1, <1>2, <1>3
<1>6. /\ imported' = "invalid" => ~ValidSoapMessage(ToXml(outgoing))
      /\ imported' = "unread" => Untyped[Struct("", outgoing)]
  BY <1>1, <1>2
<1>7. \A x, y, z : x = incoming' /\ y = imported' /\ z = origin' =>
        (z # Foreigner =>
          /\ y = "ok" => x = [i \in DOMAIN z |-> Received[z[i]]]
          /\ y = "invalid" => ~ValidSoapMessage(ToXml(z))
          /\ y = "unread" => Untyped[Struct("", z)])
  <2>1. origin' = outgoing
    BY <1>1
  <2> HIDE DEF doc
  <2> QED
    BY <1>5, <1>6, <2>1
<1>8. Travelled'
  BY <1>7 DEF Travelled
<1>9. FaultKept'
  BY <1>2, ImportKeepsFault DEF MessageInv
<1> QED
  BY <1>4, <1>8, <1>9 DEF MessageInv

\* Of messages of others nothing is claimed but the fault.
LEMMA ForeignKeeps ==
  ASSUME MessageInv, origin' = Foreigner, FaultKept', UNCHANGED <<outgoing, firstCode>>
  PROVE  MessageInv'
<1>1. Building'
  BY DEF MessageInv, Building
<1>2. Travelled'
  BY DEF Travelled, Foreigner
<1> QED
  BY <1>1, <1>2 DEF MessageInv

\* Of nothing there is nothing to look through.
LEMMA NothingListed == Lists(<<>>)
<1>1. ListsIn(<<>>, {}, {})
  BY DEF ListsIn
<1> QED
  BY <1>1 DEF Lists

\* So does every step of a message.
LEMMA MessageStep ==
  ASSUME MessageInv, [MessageNext]_messageVars
  PROVE  MessageInv'
<1>0. outgoing \in Seq(Sections)
  BY DEF MessageInv, Building
<1>1. ASSUME NEW m \in MethodName, SetMethod(m)
      PROVE  MessageInv'
  <2>1. m \in SoapText
    BY MessageAssumption
  <2> QED
    BY <1>0, <1>1, <2>1, MethodAdded, BuildKeeps DEF SetMethod
<1>2. ASSUME NEW a \in Argument, AddMethodArgument(a)
      PROVE  MessageInv'
  <2>1. a \in Entries /\ a.name # "Faultcode" /\ UNCHANGED codes
    BY <1>2, ValuesGiven DEF AddMethodArgument
  <2>2. CASE BodyOf(outgoing).items = <<>>
    <3>1. CodeKept(WithBody(outgoing), outgoing)
      BY <1>0, BodyThere DEF CodeKept, FaultList
    <3> QED
      BY <1>2, <2>1, <2>2, <3>1, BuildKeeps DEF AddMethodArgument
  <2>3. CASE BodyOf(outgoing).items # <<>>
    <3> DEFINE env == WithBodyItems(outgoing, [BodyOf(outgoing).items EXCEPT ![1] = WithItem(@, a)])
    <3>1. CodeKept(env, outgoing)
      BY <1>0, <2>1, <2>3, ArgumentPut
    <3>2. Build(env)
      BY <1>2, <2>3 DEF AddMethodArgument
    <3> HIDE DEF env
    <3> QED
      BY <2>1, <3>1, <3>2, BuildKeeps
  <2> QED
    BY <2>2, <2>3
<1>3. ASSUME NEW a \in HeaderItem, AddHeaderItem(a)
      PROVE  MessageInv'
  <2>1. a \in Values
    BY ValuesGiven
  <2> QED
    BY <1>0, <1>3, <2>1, HeaderAdded, BuildKeeps DEF AddHeaderItem
<1>4. ASSUME NEW a \in FaultDetail, AddFaultDetail(a)
      PROVE  MessageInv'
  <2>1. a \in Values
    BY ValuesGiven
  <2> QED
    BY <1>0, <1>4, <2>1, DetailAdded, BuildKeeps DEF AddFaultDetail
<1>5. ASSUME SetFaultString("text")
      PROVE  MessageInv'
  <2> DEFINE a == Simple("Faultstring", "String", "text")
             env == AddToFault(outgoing, a)
  <2>1. a \in Entries /\ a.name = "Faultstring"
    BY ValuesGiven
  <2>2. Build(env) /\ UNCHANGED codes
    BY <1>5 DEF SetFaultString
  <2> HIDE DEF a
  <2>3. env \in Seq(Sections) /\ FaultList(env) = Append(FaultList(outgoing), a)
    BY <1>0, <2>1, FaultAdded
  <2>4. FaultList(outgoing) \in Seq(Entries) /\ a.name # "Faultcode"
    BY <1>0, <2>1, FaultThere
  <2>5. CodeKept(env, outgoing)
    BY <2>1, <2>3, <2>4, AppendedNamed, SameCode DEF CodeKept
  <2> HIDE DEF env
  <2> QED
    BY <2>2, <2>5, BuildKeeps
<1>6. CASE ClearReceived
  <2>1. incoming' = <<>> /\ imported' = "none"
    BY <1>6 DEF ClearReceived
  <2>2. FaultKept'
    BY <2>1, NothingListed DEF FaultKept
  <2> QED
    BY <1>6, <2>2, ForeignKeeps DEF ClearReceived, codes
<1>7. ASSUME NEW doc \in ForeignMessage, Import(doc, Foreigner)
      PROVE  MessageInv'
  <2>1. doc \in DomElements
    BY MessageAssumption
  <2>2. FaultKept'
    BY <1>7, <2>1, ImportKeepsFault DEF MessageInv
  <2> QED
    BY <1>7, <2>2, ForeignKeeps DEF Import, codes
<1>8. CASE UNCHANGED messageVars
  <2>1. UNCHANGED <<outgoing, firstCode>> /\ UNCHANGED <<incoming, imported, origin>>
    BY <1>8 DEF messageVars, codes
  <2>2. Building'
    BY <2>1 DEF MessageInv, Building
  <2> QED
    BY <2>1, <2>2, TravelledKept DEF MessageInv
<1> QED
  BY <1>1, <1>2, <1>3, <1>4, <1>5, <1>6, <1>7, <1>8, CodeSet, ClearedKeeps, SentKeeps DEF MessageNext

\* A message of SOAP arrives as it was built: whatever the application put into its method,
\* header and fault, in any number of calls and in whatever order, the receiver finds by
\* name, unless there is no body, or a value in it has a text and no type.  A fault code that
\* was set, and no other, is the one of the message; and there is a fault after an import
\* of a document whose root is no message, whatever was imported before it.
THEOREM MessagesTravel == MessageSpec => []MessageTravels
<1>1. MessageInit => MessageInv
  <2> SUFFICES ASSUME MessageInit PROVE MessageInv
    OBVIOUS
  <2>1. outgoing = <<>> /\ firstCode = "Other" /\ origin = Foreigner /\ incoming = <<>> /\ imported = "none"
    BY DEF MessageInit
  <2> QED
    BY <2>1, EmptyCode, NothingListed DEF MessageInv, Building, Travelled, FaultKept
<1>2. MessageInv /\ [MessageNext]_messageVars => MessageInv'
  BY MessageStep
<1>3. MessageInv => MessageTravels
  BY DEF MessageInv, Building, Travelled, FaultKept, MessageTravels
<1> QED
  BY <1>1, <1>2, <1>3, PTL DEF MessageSpec

-----------------------------------------------------------------------------
(* The types of the parts *)

\* The variables of a call have their types.
THEOREM ControlTypes == ControlSpec => []ControlTypeOK
<1>1. CInv => ControlTypeOK
  <2> SUFFICES ASSUME CInv PROVE ControlTypeOK
    OBVIOUS
  <2>1. \A c \in Call : answer[c].kind \in Kinds
    <3>1. \A a \in AnswerSet : a.kind \in Kinds
      BY AnswerKinds DEF AnswerSet, Kinds
    <3> QED
      BY <3>1 DEF CInv, Basics
  <2>2. \A c \in Call : Len(signalled[c]) <= 1
    <3> SUFFICES ASSUME NEW c \in Call PROVE Len(signalled[c]) <= 1
      OBVIOUS
    <3>1. signalled[c] = <<>> \/ signalled[c] = <<signalled[c][1]>>
      BY DEF CInv, SignalledOnce
    <3>2. CASE signalled[c] = <<>>
      BY <3>2
    <3>3. CASE signalled[c] = <<signalled[c][1]>>
      <4> DEFINE x == signalled[c][1]
      <4>1. Len(<<x>>) = 1
        OBVIOUS
      <4> HIDE DEF x
      <4>2. signalled[c] = <<x>>
        BY <3>3 DEF x
      <4> QED
        BY <4>1, <4>2
    <3> QED
      BY <3>1, <3>2, <3>3
  <2>3. Basics
    BY DEF CInv
  <2>4. soapBody \in Seq({FaultItem} \cup {MethodItem(outs) : outs \in Results \ {NullResult}})
    BY <2>3 DEF Basics, BodyItems
  <2>5. request \in [Call -> RequestSet]
    BY <2>3 DEF Basics
  <2>6. ran \in [Call -> {0, 1}] /\ crashed \subseteq {"device", "controlPoint"}
    BY <2>3 DEF Basics
  <2>7. lastMethod \in Method \cup {""}
    BY <2>3 DEF Basics
  <2>8. newest \in (Call \ Foreign) \cup {"none"}
    BY <2>3 DEF Basics
  <2>9. stage \in [Call -> {"new", "sent", "answered", "done"}]
    BY <2>3 DEF Basics
  <2> QED
    BY <2>1, <2>2, <2>4, <2>5, <2>6, <2>7, <2>8, <2>9, Zenon DEF ControlTypeOK
<1> QED
  BY <1>1, ControlInvariant, PTL

\* The counts of a message are in their bounds, and its code is one that was set.
THEOREM MessageTypes == MessageSpec => []MessageTypeOK
<1>0. MaxBuilt \in Nat
  BY MessageAssumption
<1>1. MessageInit => MessageTypeOK
  <2> SUFFICES ASSUME MessageInit PROVE MessageTypeOK
    OBVIOUS
  <2>1. recoded \in BOOLEAN
    BY Zenon DEF MessageInit
  <2>2. /\ calls \in 0..MaxBuilt /\ firstCode \in FaultCodes \cup {"Other"}
        /\ imported \in {"none", "ok", "noRoot", "invalid", "unread"}
    BY <1>0 DEF MessageInit
  <2> QED
    BY <2>1, <2>2, Zenon DEF MessageTypeOK
<1>2. MessageTypeOK /\ [MessageNext]_messageVars => MessageTypeOK'
  <2> SUFFICES ASSUME MessageTypeOK, [MessageNext]_messageVars PROVE MessageTypeOK'
    OBVIOUS
  <2>1. ASSUME NEW env, Build(env) PROVE calls' \in 0..MaxBuilt /\ imported' = imported
    BY <1>0, <2>1 DEF Build, MessageTypeOK
  <2>2. ASSUME NEW env, Build(env), UNCHANGED codes PROVE MessageTypeOK'
    BY <2>1, <2>2 DEF MessageTypeOK, codes
  <2>3. ASSUME NEW m \in MethodName, SetMethod(m) PROVE MessageTypeOK'
    BY <2>2, <2>3 DEF SetMethod
  <2>4. ASSUME NEW a \in Argument, AddMethodArgument(a) PROVE MessageTypeOK'
    BY <2>2, <2>4 DEF AddMethodArgument
  <2>5. ASSUME NEW a \in HeaderItem, AddHeaderItem(a) PROVE MessageTypeOK'
    BY <2>2, <2>5 DEF AddHeaderItem
  <2>6. ASSUME NEW a \in FaultDetail, AddFaultDetail(a) PROVE MessageTypeOK'
    BY <2>2, <2>6 DEF AddFaultDetail
  <2>7. ASSUME SetFaultString("text") PROVE MessageTypeOK'
    BY <2>2, <2>7 DEF SetFaultString
  <2>8. ASSUME NEW code \in FaultCodes, SetFaultCode(code) PROVE MessageTypeOK'
    <3>1. recoded' \in BOOLEAN
      BY <2>8, Zenon DEF SetFaultCode, MessageTypeOK
    <3>2. /\ calls' \in 0..MaxBuilt /\ firstCode' \in FaultCodes \cup {"Other"}
          /\ imported' \in {"none", "ok", "noRoot", "invalid", "unread"}
      BY <2>1, <2>8 DEF SetFaultCode, MessageTypeOK
    <3> QED
      BY <3>1, <3>2, Zenon DEF MessageTypeOK
  <2>9. CASE ClearMessageTree \/ ClearReceived
    <3>1. recoded' \in BOOLEAN
      BY <2>9, Zenon DEF ClearMessageTree, ClearReceived, MessageTypeOK, codes
    <3>2. /\ calls' \in 0..MaxBuilt /\ firstCode' \in FaultCodes \cup {"Other"}
          /\ imported' \in {"none", "ok", "noRoot", "invalid", "unread"}
      BY <1>0, <2>9 DEF ClearMessageTree, ClearReceived, MessageTypeOK, codes
    <3> QED
      BY <3>1, <3>2, Zenon DEF MessageTypeOK
  <2>10. ASSUME NEW doc, NEW source, Import(doc, source) PROVE MessageTypeOK'
    BY <2>10 DEF Import, MessageTypeOK, codes
  <2>11. CASE UNCHANGED messageVars
    BY <2>11 DEF messageVars, MessageTypeOK, codes
  <2> QED
    BY <2>3, <2>4, <2>5, <2>6, <2>7, <2>8, <2>9, <2>10, <2>11 DEF MessageNext
<1> QED
  BY <1>1, <1>2, PTL DEF MessageSpec

\* The descriptions read are counted, and actions have names and arguments.
THEOREM ScpdTypes == ScpdSpec => []ScpdTypeOK
<1> DEFINE Counts == scpdCount \in 0..MaxScpd /\ tables \in Seq(Scpd) /\ Len(tables) <= scpdCount
<1>0. MaxScpd \in Nat
  BY ScpdAssumption
<1>1. ScpdInit => Counts
  <2> SUFFICES ASSUME ScpdInit PROVE Counts
    OBVIOUS
  <2>1. tables = <<>> /\ scpdCount = 0
    BY DEF ScpdInit
  <2> QED
    BY <1>0, <2>1
<1>2. Counts /\ [ScpdNext]_scpdVars => Counts'
  <2> SUFFICES ASSUME Counts, [ScpdNext]_scpdVars PROVE Counts'
    OBVIOUS
  <2>1. CASE UNCHANGED <<scpdCount, tables>>
    BY <2>1
  <2>2. ASSUME NEW doc \in Scpd, ParseService(doc)
        PROVE  Counts'
    <3>1. scpdCount < MaxScpd /\ scpdCount' = scpdCount + 1 /\ tables' = Append(tables, doc)
      BY <2>2 DEF ParseService
    <3>2. tables' \in Seq(Scpd) /\ Len(tables') = Len(tables) + 1
      BY <3>1, AppendProperties
    <3> QED
      BY <1>0, <3>1, <3>2
  <2>3. CASE ClearStateVariableList
    <3>1. scpdCount' = scpdCount /\ tables' = <<>>
      BY <2>3 DEF ClearStateVariableList
    <3> QED
      BY <3>1
  <2>4. ASSUME NEW name \in ActionName, AddActionNamed(name)
        PROVE  UNCHANGED <<scpdCount, tables>>
    BY <2>4 DEF AddActionNamed
  <2>5. ASSUME NEW name \in ActionName, NEW argument \in ArgumentAdded, AddArgument(name, argument)
        PROVE  UNCHANGED <<scpdCount, tables>>
    BY <2>5 DEF AddArgument
  <2>6. ASSUME ClearActionList \/ UNCHANGED scpdVars
        PROVE  UNCHANGED <<scpdCount, tables>>
    BY <2>6 DEF ClearActionList, scpdVars
  <2> HIDE DEF Counts
  <2> QED
    BY <2>1, <2>2, <2>3, <2>4, <2>5, <2>6 DEF ScpdNext
<1>3. Counts /\ ScpdInv => ScpdTypeOK
  <2> SUFFICES ASSUME Counts, ScpdInv PROVE ScpdTypeOK
    OBVIOUS
  <2>1. actionList \in Seq(ActionGiven)
    BY DEF ScpdInv, Match
  <2>2. \A i \in DOMAIN actionList : actionList[i] \in ActionGiven
    BY <2>1, LenProperties, ElementOfSeq
  <2>3. \A a \in ActionGiven : DOMAIN a = {"name", "arguments"}
    BY DEF ActionGiven
  <2> QED
    BY <2>2, <2>3 DEF ScpdTypeOK
<1>4. ScpdSpec => []ScpdInv
  BY ScpdStarts, ScpdStep, PTL DEF ScpdSpec
<1> QED
  BY <1>1, <1>2, <1>3, <1>4, PTL DEF ScpdSpec

\* An array has the sizes and types of one.
THEOREM ArrayTyped == ArraySpec => []ArrayTypeOK
<1>1. ArrayInv => ArrayTypeOK
  <2> SUFFICES ASSUME ArrayInv PROVE ArrayTypeOK
    OBVIOUS
  <2>1. array \in Arrays /\ hung \in BOOLEAN /\ counted \in BOOLEAN /\ several \subseteq Item
    BY DEF ArrayInv, ArrayShaped
  <2>2. \A f \in ItemMaps : \A p \in DOMAIN f : p \in Int /\ f[p] \in Item
    BY DEF ItemMaps
  <2>3. array.order \in {-1} \cup 1..5 /\ array.type \in ArrayTypes /\ array.lastIndex \in Nat /\ array.items \in ItemMaps
    BY <2>1 DEF Arrays
  <2> QED
    BY <2>1, <2>2, <2>3 DEF ArrayTypeOK
<1> QED
  BY <1>1, ArrayInitially, ArrayStep, PTL DEF ArraySpec

=============================================================================
