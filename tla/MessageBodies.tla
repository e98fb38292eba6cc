---------------------------- MODULE MessageBodies ----------------------------
(***************************************************************************)
(* HttpMessage owns the device its body is in, by a plain pointer: to copy *)
(* a message moves the body to the copy, to assign one copies the pointer, *)
(* clear() deletes the body at once, and the destructor when the event     *)
(* loop runs again.  A session keeps two requests, requestInfo and         *)
(* lastRequest, and passes requests and responses on by value.             *)
(*                                                                         *)
(* A body is known by its address, which is free again when it is deleted. *)
(***************************************************************************)
EXTENDS Integers, FiniteSets

CONSTANTS
  Address,      \* addresses of bodies
  NoAddress,    \* NULL
  StatusCode    \* what an application uses as status codes

ASSUME BodiesAssumption == NoAddress \notin Address /\ StatusCode \subseteq Nat

\* Messages: the two of the session; a response on its way; the argument of a signal
\* or slot; and a request the application has copied to keep it.
HttpMessage == {"requestInfo", "lastRequest", "response", "argument", "kept"}

VARIABLES
  body,        \* HttpMessage::m_entityBody
  life,        \* of each address: "free", "alive", "dying" (deleteLater), or "lost"
               \*   (alive, and nobody has its address)
  misused,     \* a body was read or deleted at an address that was free
  destroyed,   \* the server, with its sessions
  line         \* status code and reason phrase of the last response

bodyVars == <<body, life, misused, destroyed, line>>

NoPhrase == -1
OwnPhrase == -2

BodiesInit ==
  /\ body = [m \in HttpMessage |-> NoAddress]
  /\ life = [b \in Address |-> "free"]
  /\ misused = FALSE /\ destroyed = FALSE
  /\ line = [code |-> 200, phrase |-> 3]

-----------------------------------------------------------------------------
(* What is done to messages *)

Here == [body |-> body, life |-> life, misused |-> misused]

Misused(s, m) == s.misused \/ (s.body[m] # NoAddress /\ s.life[s.body[m]] = "free")

\* setEntityBody(QByteArray): the buffer there is, or a new one at b.
SetBody(s, m, b) ==
  IF s.body[m] # NoAddress THEN s
  ELSE [s EXCEPT !.body[m] = b, !.life[b] = "alive"]

\* setEntityBody(QIODevice *) of a file.  One that is not open is refused; the file
\* was taken from its owner in the call, and is lost.
SetFile(s, m, b, open) ==
  IF open THEN [s EXCEPT !.body[m] = b, !.life[b] = "alive"]
  ELSE [s EXCEPT !.life[b] = "lost"]

\* Mutant: the copy and the original have the body.
CopyShares(s, from, to) == [s EXCEPT !.body[to] = s.body[from]]

\* The copy constructor.
Copy(s, from, to) ==
  LET moved == s.body[from]
  IN [s EXCEPT !.body = [@ EXCEPT ![from] = NoAddress, ![to] = moved]]

\* The assignment the compiler makes.
Assign(s, from, to) == [s EXCEPT !.body[to] = s.body[from]]

ReadBody(s, m) == [s EXCEPT !.misused = Misused(s, m)]

\* clear()
ClearMessage(s, m) ==
  [s EXCEPT !.misused = Misused(s, m), !.body[m] = NoAddress,
            !.life = [b \in Address |-> IF b = s.body[m] THEN "free" ELSE @[b]]]

\* ~HttpMessage()
Destruct(s, m) ==
  [s EXCEPT !.misused = Misused(s, m), !.body[m] = NoAddress,
            !.life = [b \in Address |-> IF b = s.body[m] /\ @[b] # "free" THEN "dying" ELSE @[b]]]

BodiesBecome(s) == body' = s.body /\ life' = s.life /\ misused' = s.misused

-----------------------------------------------------------------------------
(* Status lines *)

\* statusCodeToReasonPhrasesIndex: where the phrases of each hundred begin, and which
\* codes of it have one.  The index is the phrase.
PhraseIndex(st) ==
  CASE st \in 100..102 -> st - 100
    [] st \in 200..207 -> 3 + st - 200
    [] st \in 300..307 -> 11 + st - 300
    [] st \in 400..418 -> 19 + st - 400
    [] st \in 422..426 -> 19 + st - 403
    [] st \in 500..507 -> 43 + st - 500
    [] st = 510 -> 43 + 8
    [] OTHER -> NoPhrase

\* Mutant: the code is set whether it has a phrase or not.
LineSetAlways(l, st) ==
  [code |-> st, phrase |-> IF PhraseIndex(st) = NoPhrase THEN l.phrase ELSE PhraseIndex(st)]

\* setStatusCode(st): a code without phrase is refused.
LineSet(l, st) ==
  IF PhraseIndex(st) = NoPhrase THEN l ELSE [code |-> st, phrase |-> PhraseIndex(st)]

\* The constructors, and the calls that set one or both.
Lines ==
  {[code |-> st, phrase |-> PhraseIndex(st)] : st \in StatusCode}
    \cup {[code |-> st, phrase |-> OwnPhrase] : st \in StatusCode}

SetStatusCode(st) ==
  /\ line' = LineSet(line, st)
  /\ UNCHANGED <<body, life, misused, destroyed>>

NewResponse(l) ==
  /\ l \in Lines
  /\ line' = l
  /\ UNCHANGED <<body, life, misused, destroyed>>

-----------------------------------------------------------------------------
(* The session *)

FreeAddresses(s) == {b \in Address : s.life[b] = "free"}

\* A request as onReadyRead has it: with a body, at a new address, or without.
Requests == {SetBody(Here, "requestInfo", b) : b \in FreeAddresses(Here)} \cup {Here}

\* onRequest: the service is found.
Found(s) == Assign(s, "requestInfo", "lastRequest")

\* respond(), the signal responsePosted and writeResponse each take a copy of the
\* response; what was written is destroyed.
Respond(s) ==
  LET signal == Copy(s, "response", "argument")
      written == Copy(signal, "argument", "response")
  IN Destruct(ReadBody(written, "response"), "response")

\* Responses: none, without a body, with one in a buffer, with a file.
Responses(s) ==
  {s, Respond(s)}
    \cup {Respond(SetBody(s, "response", b)) : b \in FreeAddresses(s)}
    \cup {Respond(SetFile(s, "response", b, open)) : b \in FreeAddresses(s), open \in BOOLEAN}

\* And requestInfo.clear().
AndClear(s) == BodiesBecome(ClearMessage(s, "requestInfo")) /\ UNCHANGED <<destroyed, line>>

\* A service of the library reads the body, and answers.
ServiceAnswers ==
  /\ ~destroyed
  /\ \E s \in Requests : \E t \in Responses(ReadBody(Found(s), "requestInfo")) : AndClear(t)

\* A BrisaWebService of the application: genericRequestReceived takes a copy, and so
\* does the slot, which may copy it once more to keep it.
ApplicationAnswers(keeps) ==
  /\ ~destroyed
  /\ keeps => body["kept"] = NoAddress
  /\ \E s \in Requests :
       LET argument == ReadBody(Copy(Found(s), "requestInfo", "argument"), "argument")
           kept == IF keeps THEN Copy(argument, "argument", "kept") ELSE argument
       IN \E t \in Responses(Destruct(kept, "argument")) : AndClear(t)

\* A NOTIFY that falls back to "/" is not kept as lastRequest, nor is what nobody
\* answers.
NotFoundRequest ==
  /\ ~destroyed
  /\ \E s \in Requests : AndClear(Respond(ReadBody(s, "requestInfo")))

\* The application is done with what it kept.
DropKept ==
  /\ body["kept"] # NoAddress
  /\ BodiesBecome(Destruct(ReadBody(Here, "kept"), "kept"))
  /\ UNCHANGED <<destroyed, line>>

EventLoop ==
  /\ life' = [b \in Address |-> IF life[b] = "dying" THEN "free" ELSE life[b]]
  /\ UNCHANGED <<body, misused, destroyed, line>>

\* ~HttpServer deletes its managers and they their sessions.
DestroyServer ==
  /\ ~destroyed
  /\ BodiesBecome(Destruct(Destruct(Here, "requestInfo"), "lastRequest"))
  /\ destroyed' = TRUE
  /\ line' = line

-----------------------------------------------------------------------------
BodiesNext ==
  \/ ServiceAnswers \/ NotFoundRequest \/ DropKept \/ EventLoop \/ DestroyServer
  \/ \E keeps \in BOOLEAN : ApplicationAnswers(keeps)
  \/ \E st \in StatusCode : SetStatusCode(st)
  \/ \E l \in Lines : NewResponse(l)

BodiesSpec == BodiesInit /\ [][BodiesNext]_bodyVars

-----------------------------------------------------------------------------
(* Properties *)

\* The variables have their types.
BodiesTypeOK ==
  /\ body \in [HttpMessage -> Address \cup {NoAddress}]
  /\ life \in [Address -> {"free", "alive", "dying", "lost"}]
  /\ {misused, destroyed} \subseteq BOOLEAN
  /\ line \in Lines \cup {[code |-> 200, phrase |-> 3]}

\* While the server is there no body is read or deleted that is gone, though
\* lastRequest points to one after every request with a body; and between two requests
\* each living body has its one owner, so none is deleted twice and none leaks (but for
\* files that could not be opened).  With the server lastRequest deletes what it points
\* to, which is free, or another's.
BodiesUsedAlive ==
  /\ misused => destroyed
  /\ ~destroyed =>
       \A b \in Address :
         life[b] = "alive" <=> Cardinality({m \in HttpMessage \ {"lastRequest"} : body[m] = b}) = 1

\* The codes of the table reasonPhrases, which is in their order.
WithPhrase == 100..102 \cup 200..207 \cup 300..307 \cup 400..418 \cup 422..426 \cup 500..507 \cup {510}

\* A status code that has a phrase is not sent with another's: the phrases of the
\* hundreds are where the codes before them leave off.
StatusLineMatches ==
  line.phrase # OwnPhrase =>
    line.phrase = IF line.code \in WithPhrase
                  THEN Cardinality({st \in WithPhrase : st < line.code}) ELSE NoPhrase

\* What a message carries is its own, through all copies: its body and its phrase.
MessagesKept == BodiesUsedAlive /\ StatusLineMatches
=============================================================================
