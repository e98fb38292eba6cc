---------------------------- MODULE HttpSession ----------------------------
(***************************************************************************)
(* One HttpSession object of the web server (a BrisaWebserverSession) and  *)
(* the clients that connect to it, one after the other: when a connection  *)
(* has died the object goes to the pool of its HttpSessionManager and      *)
(* serves the next one.                                                    *)
(*                                                                         *)
(* What a client sends is a sequence of symbols: a request line, a header, *)
(* a piece of a body, or an end of line.  TCP cuts it wherever it likes,   *)
(* and each segment is one run of onReadyRead, whose loops are modelled    *)
(* one iteration at a time: nothing else happens on the thread meanwhile.  *)
(***************************************************************************)
EXTENDS Integers, Sequences, SequencesExt

CONSTANTS
  Message,       \* what clients send: the symbols, the number of header lines, and
                 \*   what the properties ask about (see SessionAssumption)
  MaxMessages    \* bound on the requests of one connection

EOL == "\r\n"

\* Request lines of three words, one per method and version the checks tell
\* apart, and all that follows a method that is not implemented.
Methods == {"GET", "POST", "NOTIFY"}
RequestLines == Methods \cup {"OPTIONS", "HTTP/2.0"}

\* Texts with a colon in them: the headers that are looked at, and any other.
Lengths == {"len0", "len1", "len3", "lenx"}
Headers == Lengths \cup {"host", "type", "chunked", "colon"}

\* Texts without: numbers that can be chunk sizes, and any other.
ChunkSizes == {"0", "1"}
Symbols == RequestLines \cup Headers \cup ChunkSizes \cup {"text", EOL}

\* The number in a CONTENT-LENGTH header, or in a chunk-size line.
LengthIn ==
  [x \in {"len0", "0", "len1", "1", "len3"} |->
     IF x \in {"len0", "0"} THEN 0 ELSE IF x = "len3" THEN 3 ELSE 1]

Served(m, body) == [status |-> "served", method |-> m, body |-> body]
Refused(status) == [status |-> status, method |-> "none", body |-> <<>>]

\* A request is a line, header lines, an empty line and, where the headers say so, a body.
Opening(m) == m.wire[1]
FieldsOf(m) == {m.wire[2 * i + 1] : i \in 1..m.fields}
EntityOf(m) == SubSeq(m.wire, 2 * m.fields + 4, Len(m.wire))

\* Requests that can be understood, and whether it is clear where they end.
Understood(m) == Opening(m) \in Methods /\ FieldsOf(m) \subseteq Headers
HasEntity(m) == Opening(m) \in {"POST", "NOTIFY"}
WellTyped(m) == "type" \in FieldsOf(m) /\ "lenx" \notin FieldsOf(m)
Measured(m) == FieldsOf(m) \cap Lengths # {}
InChunks(m) == HasEntity(m) /\ ~Measured(m) /\ "chunked" \in FieldsOf(m)
Delimited(m) == Understood(m) /\ (HasEntity(m) => WellTyped(m) /\ (Measured(m) \/ InChunks(m)))

\* A body is as long as its header says.  (One with an end of line in it has no text that
\* reads like such a header.)  A chunked one has no chunk, or one first, and in the former
\* case whatever trailing headers that do not read like requests or name a host.
BodyFits(m) ==
  LET body == EntityOf(m)
  IN /\ ~HasEntity(m) => body = <<>>
     /\ HasEntity(m) /\ Measured(m) =>
          /\ \A h \in FieldsOf(m) \cap Lengths : Len(body) = LengthIn[h]
          /\ EOL \in ToSet(body) => ToSet(body) \cap Lengths = {}
     /\ InChunks(m) =>
          /\ Len(body) > 2 /\ body[1] \in ChunkSizes /\ body[2] = EOL
          /\ body[1] = "1" => Len(body) > 3 /\ body[4] = EOL
          /\ body[1] = "0" => Last(body) = EOL /\ ToSet(body) \cap (RequestLines \cup {"host"}) = {}

\* prompt: answered without waiting for more; notify: a proper event.
ASSUME SessionAssumption ==
  \A m \in Message :
    /\ m.wire \in Seq(Symbols) /\ m.fields \in Nat /\ 2 * m.fields + 3 <= Len(m.wire)
    /\ \A i \in 0..m.fields : m.wire[2 * i + 1] # EOL /\ m.wire[2 * i + 2] = EOL
    /\ m.wire[2 * m.fields + 3] = EOL
    /\ \A g, h \in FieldsOf(m) \cap Lengths : g = h
    /\ Delimited(m) => BodyFits(m)
    /\ {m.prompt, m.notify} \subseteq BOOLEAN

VARIABLES
  conn,           \* "none", "open", "closing": the socket
  wire,           \* what the client sent and the server has not yet read
  pc,             \* "idle", or the part of onReadyRead that is running
  state,          \* HttpSession::state
  buffer,         \* HttpSession::buffer
  method,         \* method of requestInfo
  headers,        \* headers of requestInfo
  entitySize,     \* BrisaWebserverSession::entitySize
  chunkedEntity,  \* 0 for a plain body, or the state of a chunked one
  chunksBuffer,   \* BrisaWebserverSession::chunksBuffer
  sentMessages,   \* ghost: the messages of this connection's client
  answers         \* ghost: what became of each request of this connection

parserVars == <<state, buffer, method, headers>>
entityVars == <<entitySize, chunkedEntity, chunksBuffer>>
httpVars == <<conn, wire, pc, parserVars, entityVars, sentMessages, answers>>

\* States of a chunked body, enum State of brisawebserversession.cpp.
CHUNK_SIZE == 1
CHUNK == 2
TRAILING_HEADERS == 3

SessionInit ==
  /\ conn = "none"
  /\ wire = <<>> /\ sentMessages = <<>> /\ answers = <<>>
  /\ pc = "idle"
  /\ state = "line" /\ buffer = <<>> /\ method = "none" /\ headers = {}
  /\ entitySize = 0 /\ chunkedEntity = 0 /\ chunksBuffer = <<>>

-----------------------------------------------------------------------------
(* The client and the connection *)

\* onNewConnection takes the session from the pool.
NewConnection ==
  /\ conn = "none"
  /\ conn' = "open"
  /\ wire' = <<>> /\ sentMessages' = <<>> /\ answers' = <<>>
  /\ UNCHANGED <<pc, parserVars, entityVars>>

\* Clients wait for the answer to a request before they send the next.
SendMessage(m) ==
  /\ conn = "open" /\ pc = "idle"
  /\ Len(sentMessages) < MaxMessages /\ Len(answers) >= Len(sentMessages)
  /\ wire' = wire \o m.wire
  /\ sentMessages' = Append(sentMessages, m)
  /\ UNCHANGED <<conn, pc, parserVars, entityVars, answers>>

\* Mutant: what was read of a request stays for the next connection.
ResetParserKeepsBuffer ==
  /\ state' = "line" /\ headers' = {}
  /\ chunksBuffer' = <<>>
  /\ UNCHANGED <<buffer, method, entitySize, chunkedEntity>>

\* onConnectionDie and keepAlive.
ResetParser ==
  /\ state' = "line" /\ buffer' = <<>> /\ headers' = {}
  /\ chunksBuffer' = <<>>
  /\ UNCHANGED <<method, entitySize, chunkedEntity>>

\* The peer closed, or everything has been written to a closed socket.
SessionDies ==
  /\ conn \in {"open", "closing"} /\ pc = "idle"
  /\ conn' = "none"
  /\ wire' = <<>>
  /\ ResetParser
  /\ UNCHANGED <<pc, sentMessages, answers>>

\* onTimeout: 408, and the connection is closed.
Timeout ==
  /\ conn = "open" /\ pc = "idle"
  /\ conn' = "closing"
  /\ UNCHANGED <<wire, pc, parserVars, entityVars, sentMessages, answers>>

\* The first n symbols arrive: onReadyRead begins.
ReadyRead(n) ==
  /\ conn = "open" /\ pc = "idle"
  /\ n \in 1..Len(wire)
  /\ buffer' = buffer \o SubSeq(wire, 1, n)
  /\ wire' = SubSeq(wire, n + 1, Len(wire))
  /\ pc' = state
  /\ UNCHANGED <<conn, state, method, headers, entityVars, sentMessages, answers>>

-----------------------------------------------------------------------------
(* onReadyRead.  A line of the buffer is what precedes the first EOL.       *)

HasLine == Contains(buffer, EOL)
EndOfLine == SelectInSeq(buffer, LAMBDA x : x = EOL)
Line == SubSeq(buffer, 1, EndOfLine - 1)
AfterLine == SubSeq(buffer, EndOfLine + 1, Len(buffer))

\* Respond with an error, if the socket is open, and close it.  The handler
\* returns, all else as it was.
Refuse(status) ==
  /\ answers' = IF conn = "open" THEN Append(answers, Refused(status)) ELSE answers
  /\ conn' = "closing"
  /\ pc' = "idle"

\* Mutant: requestInfo is not cleared, so its headers stay for the next request.
OnRequestKeepsHeaders(body) ==
  /\ IF "host" \notin headers
     THEN answers' = Append(answers, Refused("BAD_REQUEST")) /\ conn' = "closing"
     ELSE answers' = Append(answers, Served(method, body)) /\ conn' \in {conn, "closing"}
  /\ UNCHANGED <<method, headers, wire, sentMessages>>

\* onRequest: a request without HOST is refused; another is the service's,
\* whose response may close the connection.  The headers and the body go, the
\* method stays.
OnRequest(body) ==
  /\ IF "host" \notin headers
     THEN answers' = Append(answers, Refused("BAD_REQUEST")) /\ conn' = "closing"
     ELSE answers' = Append(answers, Served(method, body)) /\ conn' \in {conn, "closing"}
  /\ headers' = {}
  /\ UNCHANGED <<method, wire, sentMessages>>

\* WAITING_FOR_REQUEST_LINE: skip an empty line, or wait, or take the line.
SkipEmptyLine ==
  /\ pc = "line" /\ buffer # <<>> /\ buffer[1] = EOL
  /\ buffer' = Tail(buffer)
  /\ UNCHANGED <<conn, wire, pc, state, method, headers, entityVars, sentMessages, answers>>

AwaitRequestLine ==
  /\ pc = "line" /\ ~HasLine
  /\ pc' = "idle"
  /\ UNCHANGED <<conn, wire, parserVars, entityVars, sentMessages, answers>>

IsRequestLine == Len(Line) = 1 /\ Line[1] \in RequestLines

BadRequestLine ==
  /\ pc = "line" /\ HasLine /\ Line # <<>>
  /\ buffer' = AfterLine
  /\ \/ ~IsRequestLine /\ Refuse("BAD_REQUEST")
     \/ Line = <<"HTTP/2.0">> /\ Refuse("HTTP_VERSION_NOT_SUPPORTED")
     \/ Line = <<"OPTIONS">> /\ Refuse("NOT_IMPLEMENTED")
  /\ UNCHANGED <<wire, state, method, headers, entityVars, sentMessages>>

TakeRequestLine ==
  /\ pc = "line" /\ HasLine /\ IsRequestLine /\ Line[1] \in Methods
  /\ buffer' = AfterLine
  /\ method' = Line[1]
  /\ state' = "headers" /\ pc' = "headers"
  /\ UNCHANGED <<conn, wire, headers, entityVars, sentMessages, answers>>

\* A line with a colon is a header, also when it follows the empty line.
HeaderLine ==
  /\ Line # <<>> /\ ToSet(Line) \cap Headers # {}
  /\ LET h == IF Len(Line) = 1 THEN Line[1] ELSE "colon"
     IN headers' = IF h \in Lengths THEN (headers \ Lengths) \cup {h} ELSE headers \cup {h}

TakeHeader ==
  /\ pc = "headers" /\ HasLine /\ HeaderLine
  /\ buffer' = AfterLine
  /\ UNCHANGED <<conn, wire, pc, state, method, entityVars, sentMessages, answers>>

BadHeader ==
  /\ pc = "headers" /\ HasLine /\ Line # <<>>
  /\ ToSet(Line) \cap Headers = {}
  /\ buffer' = AfterLine
  /\ Refuse("BAD_REQUEST")
  /\ UNCHANGED <<wire, state, method, headers, entityVars, sentMessages>>

\* hasEntityBody: what the headers of a POST or NOTIFY say of its body.
BodyKind ==
  IF method \notin {"POST", "NOTIFY"} THEN "none"
  ELSE IF "type" \notin headers \/ "lenx" \in headers THEN "BAD_REQUEST"
  ELSE IF headers \cap Lengths # {} THEN "plain"
  ELSE IF "chunked" \in headers THEN "chunked"
  ELSE "LENGTH_REQUIRED"

\* The empty line ends the headers, but not the loop over the lines.
EndHeadersNoBody ==
  /\ pc = "headers" /\ HasLine /\ Line = <<>> /\ BodyKind = "none"
  /\ buffer' = AfterLine
  /\ state' = "line"
  /\ OnRequest(<<>>)
  /\ UNCHANGED <<pc, entityVars>>

EndHeadersBody ==
  /\ pc = "headers" /\ HasLine /\ Line = <<>> /\ BodyKind \in {"plain", "chunked"}
  /\ buffer' = AfterLine
  /\ state' = "body"
  /\ IF BodyKind = "plain"
     THEN /\ entitySize' = LengthIn[CHOOSE h \in headers \cap Lengths : TRUE]
          /\ chunkedEntity' = 0
     ELSE chunkedEntity' = CHUNK_SIZE /\ UNCHANGED entitySize
  /\ UNCHANGED <<conn, wire, pc, method, headers, chunksBuffer, sentMessages, answers>>

EndHeadersBad ==
  /\ pc = "headers" /\ HasLine /\ Line = <<>>
  /\ BodyKind \in {"BAD_REQUEST", "LENGTH_REQUIRED"}
  /\ buffer' = AfterLine
  /\ Refuse(BodyKind)
  /\ UNCHANGED <<wire, state, method, headers, entityVars, sentMessages>>

EndOfHeaderLoop ==
  /\ pc = "headers" /\ ~HasLine
  /\ pc' = IF state = "body" THEN "body" ELSE "idle"
  /\ UNCHANGED <<conn, wire, parserVars, entityVars, sentMessages, answers>>

-----------------------------------------------------------------------------
(* WAITING_FOR_ENTITY_BODY: the loop of atEnd *)

ReadChunkSize ==
  /\ pc = "body" /\ chunkedEntity = CHUNK_SIZE /\ HasLine
  /\ Len(Line) = 1 /\ Line[1] \in ChunkSizes
  /\ buffer' = AfterLine
  /\ entitySize' = LengthIn[Line[1]]
  /\ chunkedEntity' = IF entitySize' = 0 THEN TRAILING_HEADERS ELSE CHUNK
  /\ UNCHANGED <<conn, wire, pc, state, method, headers, chunksBuffer, sentMessages, answers>>

BadChunkSize ==
  /\ pc = "body" /\ chunkedEntity = CHUNK_SIZE /\ HasLine
  /\ ~(Len(Line) = 1 /\ Line[1] \in ChunkSizes)
  /\ buffer' = AfterLine
  /\ Refuse("BAD_REQUEST")
  /\ UNCHANGED <<wire, state, method, headers, entityVars, sentMessages>>

\* The EOL behind the chunk stays in the buffer.
ReadChunk ==
  /\ pc = "body" /\ chunkedEntity = CHUNK /\ Len(buffer) >= entitySize
  /\ chunksBuffer' = chunksBuffer \o SubSeq(buffer, 1, entitySize)
  /\ buffer' = SubSeq(buffer, entitySize + 1, Len(buffer))
  /\ chunkedEntity' = CHUNK_SIZE
  /\ UNCHANGED <<conn, wire, pc, state, method, headers, entitySize, sentMessages, answers>>

\* The case of a plain body.  Trailing headers fall through to it when there
\* is no line left in the buffer.
PlainEntity == chunkedEntity = 0 \/ (chunkedEntity = TRAILING_HEADERS /\ ~HasLine)

\* Mutant: off by one.
EnoughForEntityStrict == Len(buffer) > entitySize

EnoughForEntity == Len(buffer) >= entitySize

AwaitEntity ==
  /\ pc = "body"
  /\ \/ chunkedEntity = CHUNK_SIZE /\ ~HasLine
     \/ chunkedEntity = CHUNK /\ Len(buffer) < entitySize
     \/ PlainEntity /\ ~EnoughForEntity
  /\ pc' = "idle"
  /\ UNCHANGED <<conn, wire, parserVars, entityVars, sentMessages, answers>>

TakeTrailer ==
  /\ pc = "body" /\ chunkedEntity = TRAILING_HEADERS /\ HasLine /\ HeaderLine
  /\ buffer' = AfterLine
  /\ UNCHANGED <<conn, wire, pc, state, method, entityVars, sentMessages, answers>>

\* A trailing line without a colon.
BadTrailer ==
  /\ pc = "body" /\ chunkedEntity = TRAILING_HEADERS /\ HasLine /\ Line # <<>>
  /\ ToSet(Line) \cap Headers = {}
  /\ buffer' = AfterLine
  /\ Refuse("BAD_REQUEST")
  /\ UNCHANGED <<wire, state, method, headers, entityVars, sentMessages>>

\* atEnd returned true: the body is handed on and what is left is dropped.
EntityComplete(body) ==
  /\ buffer' = <<>>
  /\ state' = "line" /\ pc' = "idle"
  /\ OnRequest(body)
  /\ UNCHANGED <<entitySize, chunkedEntity>>

ChunkedComplete ==
  /\ pc = "body" /\ chunkedEntity = TRAILING_HEADERS /\ HasLine /\ Line = <<>>
  /\ chunksBuffer' = <<>>
  /\ EntityComplete(chunksBuffer)

PlainComplete ==
  /\ pc = "body"
  /\ PlainEntity /\ EnoughForEntity
  /\ EntityComplete(SubSeq(buffer, 1, entitySize))
  /\ UNCHANGED chunksBuffer

-----------------------------------------------------------------------------
Handler ==
  \/ SkipEmptyLine \/ AwaitRequestLine \/ BadRequestLine \/ TakeRequestLine
  \/ TakeHeader \/ BadHeader \/ EndHeadersNoBody \/ EndHeadersBody \/ EndHeadersBad
  \/ EndOfHeaderLoop
  \/ ReadChunkSize \/ BadChunkSize \/ ReadChunk \/ AwaitEntity
  \/ TakeTrailer \/ BadTrailer \/ ChunkedComplete \/ PlainComplete

SessionNext ==
  \/ NewConnection
  \/ \E m \in Message : SendMessage(m)
  \/ SessionDies
  \/ Timeout
  \/ \E n \in 1..Len(wire) : ReadyRead(n)
  \/ Handler

SessionSpec == SessionInit /\ [][SessionNext]_httpVars

\* The thread runs its handlers, and TCP delivers what was sent while the
\* connection lives.  Neither the timer nor the peer has to act.
FairSessionSpec ==
  /\ SessionSpec
  /\ WF_httpVars(Handler)
  /\ WF_httpVars(\E n \in 1..Len(wire) : ReadyRead(n))

-----------------------------------------------------------------------------
(* Properties *)

Answer ==
  [status : {"served", "BAD_REQUEST", "HTTP_VERSION_NOT_SUPPORTED", "NOT_IMPLEMENTED",
             "LENGTH_REQUIRED"},
   method : Methods \cup {"none"}, body : Seq(Symbols)]

\* A session in the pool is as a new one.
Pooled == conn = "none" =>
  pc = "idle" /\ state = "line" /\ buffer = <<>> /\ headers = {} /\ chunksBuffer = <<>>

SessionTypeOK ==
  /\ conn \in {"none", "open", "closing"}
  /\ wire \in Seq(Symbols) /\ buffer \in Seq(Symbols) /\ chunksBuffer \in Seq(Symbols)
  /\ pc \in {"idle", "line", "headers", "body"}
  /\ state \in {"line", "headers", "body"}
  /\ method \in Methods \cup {"none"} /\ headers \subseteq Headers
  /\ entitySize \in Nat /\ chunkedEntity \in 0..3
  /\ sentMessages \in Seq(Message) /\ answers \in Seq(Answer)
  /\ Pooled

\* The answers that are right.  A body is handed on whole, or, if it comes in chunks, only
\* when there are none; what is in a body of several lines, or in chunks, may be refused.
RightAnswer(m, a) ==
  \/ /\ a = Served(Opening(m), IF InChunks(m) THEN <<>> ELSE EntityOf(m))
     /\ Delimited(m) /\ "host" \in FieldsOf(m)
     /\ InChunks(m) => EntityOf(m)[1] = "0"
  \/ a = Refused("NOT_IMPLEMENTED") /\ Opening(m) = "OPTIONS"
  \/ a = Refused("HTTP_VERSION_NOT_SUPPORTED") /\ Opening(m) = "HTTP/2.0"
  \/ a = Refused("LENGTH_REQUIRED") /\ Understood(m) /\ WellTyped(m) /\ ~Delimited(m)
  \/ /\ a = Refused("BAD_REQUEST")
     /\ \/ Opening(m) \notin RequestLines
        \/ Opening(m) \in Methods /\ ~Understood(m)
        \/ Understood(m) /\ HasEntity(m) /\ ~WellTyped(m)
        \/ Delimited(m) /\ "host" \notin FieldsOf(m)
        \/ Delimited(m) /\ HasEntity(m) /\ (InChunks(m) \/ EOL \in ToSet(EntityOf(m)))

\* Headers, or anything else, behind the end of a chunked body.
HasTrailers(m) == Delimited(m) /\ InChunks(m) /\ EntityOf(m)[1] = "0" /\ Len(EntityOf(m)) > 3

\* Whatever the segments, and whoever used the session before: the requests of
\* a connection are answered in the order they were sent, none twice, a good
\* one with its own method and its whole body, a bad one with its status.  (The
\* trailing headers of a chunked body that atEnd does not wait for are taken
\* for a bad request of their own: see EntityReceived.)
AnswersMatch ==
  \A i \in DOMAIN answers :
    \/ i <= Len(sentMessages) /\ RightAnswer(sentMessages[i], answers[i])
    \/ i > 1 /\ HasTrailers(sentMessages[i - 1]) /\ answers[i] = Refused("BAD_REQUEST")

\* A request whose body is neither chunked nor holds an end of line is answered
\* as soon as it has arrived: no other event has to wake the session up.
SessionAnswered ==
  (conn = "open" /\ Len(answers) < Len(sentMessages) /\ Last(sentMessages).prompt)
    ~> (Len(answers) >= Len(sentMessages) \/ conn # "open")

\* "returns true when the entity body was fully received": nothing of a request
\* that is handed to a service is still under way.
EntityReceived ==
  [][Len(answers') > Len(answers) /\ answers'[Len(answers')].status = "served" =>
       wire = <<>>]_httpVars

\* "Signal that is emitted when an event is received": a NOTIFY with its HOST,
\* its type and its length reaches the proxy, never an error.
NotifyServed ==
  \A i \in DOMAIN answers :
    sentMessages[i].notify => answers[i].status = "served"

=============================================================================
