----------------------------- MODULE Http_proofs -----------------------------
(***************************************************************************)
(* Proofs about the web server: the types of a session and its answers,    *)
(* for whatever clients send, in any segments and any number of requests;  *)
(* the bodies it writes; who owns the body of a message; and what a header *)
(* carries.                                                                *)
(***************************************************************************)
EXTENDS HttpSession, WebContent, MessageBodies, HttpHeader, Induction_proofs,
        SequenceTheorems, FiniteSetTheorems

-----------------------------------------------------------------------------
(* HttpSession: what onReadyRead takes out of the buffer *)

\* The first end of line is a place in the buffer.
LEMMA EndOfLineInside ==
  ASSUME buffer \in Seq(Symbols), HasLine
  PROVE  EndOfLine \in 1..Len(buffer)
<1> DEFINE I == {i \in 1..Len(buffer) : buffer[i] = EOL}
<1>1. I # {} /\ I \in SUBSET Nat /\ Len(buffer) \in Nat
  BY DEF HasLine, Contains
<1>2. PICK i \in I : \A j \in I : i <= j
  BY <1>1, LeastNumber
<1>3. Min(I) \in I
  BY <1>2 DEF Min
<1> QED
  BY <1>1, <1>3 DEF EndOfLine, SelectInSeq

\* So the line and what follows it are parts of the buffer.
LEMMA LineTyped ==
  ASSUME buffer \in Seq(Symbols), HasLine
  PROVE  Line \in Seq(Symbols) /\ AfterLine \in Seq(Symbols)
<1>1. EndOfLine \in 1..Len(buffer) /\ Len(buffer) \in Nat
      /\ \A i \in 1..Len(buffer) : buffer[i] \in Symbols
  BY EndOfLineInside
<1> DEFINE e == EndOfLine
           n == Len(buffer)
<1>2. SubSeq(buffer, 1, e - 1) \in Seq(Symbols)
  <2>1. e - 1 \in Int /\ \A i \in 1 .. e - 1 : buffer[i] \in Symbols
    BY <1>1
  <2> HIDE DEF e
  <2> QED
    BY <2>1, SubSeqProperties
<1>3. SubSeq(buffer, e + 1, n) \in Seq(Symbols)
  <2>1. e + 1 \in Int /\ n \in Int /\ \A i \in e + 1 .. n : buffer[i] \in Symbols
    BY <1>1
  <2> HIDE DEF e, n
  <2> QED
    BY <2>1, SubSeqProperties
<1> QED
  BY <1>2, <1>3 DEF Line, AfterLine

\* What headers and chunk-size lines say is a number.
LEMMA NumberTyped ==
  ASSUME NEW x \in {"len0", "len1", "len3", "0", "1"}
  PROVE  LengthIn[x] \in Nat
BY DEF LengthIn

\* What is read of a sequence is a sequence of symbols, too.
LEMMA PartTyped ==
  ASSUME NEW s \in Seq(Symbols), NEW m \in Nat \ {0}, NEW n \in 0..Len(s)
  PROVE  SubSeq(s, m, n) \in Seq(Symbols)
<1>1. \A i \in m..n : s[i] \in Symbols
  OBVIOUS
<1> QED
  BY <1>1, SubSeqProperties

-----------------------------------------------------------------------------
(* Answers *)

\* An error response is an answer.
LEMMA RefusedTyped ==
  ASSUME NEW st \in {"BAD_REQUEST", "HTTP_VERSION_NOT_SUPPORTED", "NOT_IMPLEMENTED",
                     "LENGTH_REQUIRED"}
  PROVE  Refused(st) \in Answer
BY DEF Refused, Answer

\* Closing with an error leaves a session that is not in the pool.
LEMMA RefuseTyped ==
  ASSUME answers \in Seq(Answer),
         NEW st \in {"BAD_REQUEST", "HTTP_VERSION_NOT_SUPPORTED", "NOT_IMPLEMENTED",
                     "LENGTH_REQUIRED"},
         Refuse(st)
  PROVE  answers' \in Seq(Answer) /\ conn' = "closing" /\ pc' = "idle"
BY RefusedTyped DEF Refuse

\* What a service is handed, and what becomes of the connection.
LEMMA OnRequestTyped ==
  ASSUME SessionTypeOK, pc # "idle", NEW text \in Seq(Symbols), OnRequest(text)
  PROVE  /\ answers' \in Seq(Answer) /\ conn' \in {"open", "closing"}
         /\ headers' = {} /\ method' = method /\ wire' = wire /\ sentMessages' = sentMessages
<1>1. conn \in {"open", "closing"}
  BY DEF SessionTypeOK, Pooled
<1>2. Served(method, text) \in Answer
  BY DEF SessionTypeOK, Served, Answer
<1>3. Refused("BAD_REQUEST") \in Answer
  BY RefusedTyped
<1>4. \/ answers' = Append(answers, Served(method, text)) /\ conn' \in {conn, "closing"}
      \/ answers' = Append(answers, Refused("BAD_REQUEST")) /\ conn' = "closing"
  BY DEF OnRequest
<1>5. answers \in Seq(Answer)
  BY DEF SessionTypeOK
<1>6. answers' \in Seq(Answer)
  BY <1>2, <1>3, <1>4, <1>5
<1>7. headers' = {} /\ method' = method /\ wire' = wire /\ sentMessages' = sentMessages
  BY DEF OnRequest
<1> QED
  BY <1>1, <1>4, <1>6, <1>7

-----------------------------------------------------------------------------
(* The steps *)

LEMMA InitTyped == SessionInit => SessionTypeOK
BY DEF SessionInit, SessionTypeOK, Pooled

\* The client, the network and the timer.
LEMMA OutsideTyped ==
  ASSUME SessionTypeOK,
         \/ NewConnection \/ SessionDies \/ Timeout
         \/ \E m \in Message : SendMessage(m)
         \/ \E n \in 1..Len(wire) : ReadyRead(n)
  PROVE  SessionTypeOK'
<1>1. CASE NewConnection
  BY <1>1 DEF SessionTypeOK, Pooled, NewConnection, parserVars, entityVars
<1>2. CASE SessionDies
  BY <1>2 DEF SessionTypeOK, Pooled, SessionDies, ResetParser
<1>3. CASE Timeout
  BY <1>3 DEF SessionTypeOK, Pooled, Timeout, parserVars, entityVars
<1>4. ASSUME NEW m \in Message, SendMessage(m)
      PROVE  SessionTypeOK'
  <2>1. wire \o m.wire \in Seq(Symbols)
    BY SessionAssumption DEF SessionTypeOK
  <2> QED
    BY <1>4, <2>1 DEF SessionTypeOK, Pooled, SendMessage, parserVars, entityVars
<1>5. ASSUME NEW n \in 1..Len(wire), ReadyRead(n)
      PROVE  SessionTypeOK'
  <2>1. wire \in Seq(Symbols) /\ Len(wire) \in Nat /\ buffer \in Seq(Symbols)
    BY DEF SessionTypeOK
  <2>2. SubSeq(wire, 1, n) \in Seq(Symbols) /\ SubSeq(wire, n + 1, Len(wire)) \in Seq(Symbols)
    BY <2>1, PartTyped
  <2>3. buffer' \in Seq(Symbols) /\ wire' \in Seq(Symbols)
    BY <1>5, <2>1, <2>2 DEF ReadyRead
  <2> QED
    BY <1>5, <2>3 DEF SessionTypeOK, Pooled, ReadyRead, entityVars
<1> QED
  BY <1>1, <1>2, <1>3, <1>4, <1>5

\* The request line.
LEMMA RequestLineTyped ==
  ASSUME SessionTypeOK, SkipEmptyLine \/ AwaitRequestLine \/ BadRequestLine \/ TakeRequestLine
  PROVE  SessionTypeOK'
<1>1. CASE SkipEmptyLine
  <2>1. Tail(buffer) \in Seq(Symbols)
    BY <1>1 DEF SkipEmptyLine, SessionTypeOK
  <2> QED
    BY <1>1, <2>1 DEF SkipEmptyLine, SessionTypeOK, Pooled, entityVars
<1>2. CASE AwaitRequestLine
  BY <1>2 DEF AwaitRequestLine, SessionTypeOK, Pooled, parserVars, entityVars
<1>3. CASE BadRequestLine
  <2>1. AfterLine \in Seq(Symbols)
    BY <1>3, LineTyped DEF BadRequestLine, SessionTypeOK
  <2>2. PICK st \in {"BAD_REQUEST", "HTTP_VERSION_NOT_SUPPORTED", "NOT_IMPLEMENTED"} : Refuse(st)
    BY <1>3 DEF BadRequestLine
  <2>3. answers' \in Seq(Answer) /\ conn' = "closing" /\ pc' = "idle"
    BY <2>2, RefuseTyped DEF SessionTypeOK
  <2> QED
    BY <1>3, <2>1, <2>3 DEF BadRequestLine, SessionTypeOK, Pooled, entityVars
<1>4. CASE TakeRequestLine
  <2>1. AfterLine \in Seq(Symbols)
    BY <1>4, LineTyped DEF TakeRequestLine, SessionTypeOK
  <2> QED
    BY <1>4, <2>1 DEF TakeRequestLine, SessionTypeOK, Pooled, entityVars
<1> QED
  BY <1>1, <1>2, <1>3, <1>4

\* A header is one of those that are looked at, or any other.
LEMMA HeaderLineTyped ==
  ASSUME SessionTypeOK, HasLine, HeaderLine
  PROVE  headers' \subseteq Headers
<1>1. Line \in Seq(Symbols)
  BY LineTyped DEF SessionTypeOK
<1>2. Len(Line) = 1 => Line[1] \in Headers
  <2>1. ASSUME Len(Line) = 1
        PROVE  Line[1] \in Headers
    <3>1. PICK i \in DOMAIN Line : Line[i] \in Headers
      BY DEF HeaderLine, ToSet
    <3>2. i = 1
      BY <1>1, <2>1, <3>1
    <3> QED
      BY <3>1, <3>2
  <2> QED
    BY <2>1
<1>3. "colon" \in Headers /\ Lengths \subseteq Headers /\ headers \subseteq Headers
  BY DEF Headers, SessionTypeOK
<1> QED
  BY <1>2, <1>3 DEF HeaderLine

\* The headers.
LEMMA HeadersTyped ==
  ASSUME SessionTypeOK, TakeHeader \/ BadHeader \/ EndHeadersNoBody \/ EndHeadersBody
                   \/ EndHeadersBad \/ EndOfHeaderLoop
  PROVE  SessionTypeOK'
<1>1. HasLine => AfterLine \in Seq(Symbols)
  BY LineTyped DEF SessionTypeOK
<1>2. CASE TakeHeader
  <2>1. headers' \subseteq Headers
    BY <1>2, HeaderLineTyped DEF TakeHeader
  <2> QED
    BY <1>1, <1>2, <2>1 DEF TakeHeader, SessionTypeOK, Pooled, entityVars
<1>3. CASE BadHeader
  <2>1. answers' \in Seq(Answer) /\ conn' = "closing" /\ pc' = "idle"
    BY <1>3, RefuseTyped DEF BadHeader, SessionTypeOK
  <2> QED
    BY <1>1, <1>3, <2>1 DEF BadHeader, SessionTypeOK, Pooled, entityVars
<1>4. CASE EndHeadersNoBody
  <2>1. <<>> \in Seq(Symbols) /\ pc # "idle" /\ OnRequest(<<>>)
    BY <1>4 DEF EndHeadersNoBody
  <2>2. /\ answers' \in Seq(Answer) /\ conn' \in {"open", "closing"}
        /\ headers' = {} /\ method' = method /\ wire' = wire /\ sentMessages' = sentMessages
    BY <2>1, OnRequestTyped
  <2> QED
    BY <1>1, <1>4, <2>2 DEF EndHeadersNoBody, SessionTypeOK, Pooled, entityVars
<1>5. CASE EndHeadersBody
  <2>1. entitySize' \in Nat /\ chunkedEntity' \in 0..3
    <3>1. CASE BodyKind = "plain"
      <4> DEFINE h == CHOOSE x \in headers \cap Lengths : TRUE
      <4>1. headers \cap Lengths # {} /\ "lenx" \notin headers
        BY <3>1 DEF BodyKind
      <4>2. h \in {"len0", "len1", "len3"}
        BY <4>1 DEF Lengths
      <4>3. entitySize' = LengthIn[h] /\ chunkedEntity' = 0
        BY <1>5, <3>1 DEF EndHeadersBody
      <4> HIDE DEF h
      <4> QED
        BY <4>2, <4>3, NumberTyped
    <3>2. CASE BodyKind # "plain"
      BY <1>5, <3>2 DEF EndHeadersBody, SessionTypeOK, CHUNK_SIZE
    <3> QED
      BY <3>1, <3>2
  <2> QED
    BY <1>1, <1>5, <2>1 DEF EndHeadersBody, SessionTypeOK, Pooled
<1>6. CASE EndHeadersBad
  <2>1. answers' \in Seq(Answer) /\ conn' = "closing" /\ pc' = "idle"
    BY <1>6, RefuseTyped DEF EndHeadersBad, SessionTypeOK
  <2> QED
    BY <1>1, <1>6, <2>1 DEF EndHeadersBad, SessionTypeOK, Pooled, entityVars
<1>7. CASE EndOfHeaderLoop
  BY <1>7 DEF EndOfHeaderLoop, SessionTypeOK, Pooled, parserVars, entityVars
<1> QED
  BY <1>2, <1>3, <1>4, <1>5, <1>6, <1>7

\* The loop of atEnd, as long as it does not end the body.
LEMMA EntityTyped ==
  ASSUME SessionTypeOK, ReadChunkSize \/ BadChunkSize \/ ReadChunk \/ AwaitEntity
                   \/ TakeTrailer \/ BadTrailer
  PROVE  SessionTypeOK'
<1>1. HasLine => AfterLine \in Seq(Symbols)
  BY LineTyped DEF SessionTypeOK
<1>2. CASE ReadChunkSize
  <2>1. Line[1] \in {"0", "1"} /\ entitySize' = LengthIn[Line[1]]
    BY <1>2 DEF ReadChunkSize, ChunkSizes
  <2>2. entitySize' \in Nat /\ chunkedEntity' \in 0..3
    BY <1>2, <2>1, NumberTyped DEF ReadChunkSize, TRAILING_HEADERS, CHUNK
  <2> QED
    BY <1>1, <1>2, <2>2 DEF ReadChunkSize, SessionTypeOK, Pooled
<1>3. CASE BadChunkSize
  <2>1. answers' \in Seq(Answer) /\ conn' = "closing" /\ pc' = "idle"
    BY <1>3, RefuseTyped DEF BadChunkSize, SessionTypeOK
  <2> QED
    BY <1>1, <1>3, <2>1 DEF BadChunkSize, SessionTypeOK, Pooled, entityVars
<1>4. CASE ReadChunk
  <2>1. /\ buffer \in Seq(Symbols) /\ chunksBuffer \in Seq(Symbols)
        /\ entitySize \in 0..Len(buffer) /\ Len(buffer) \in Nat
    BY <1>4 DEF ReadChunk, SessionTypeOK
  <2>2. /\ SubSeq(buffer, 1, entitySize) \in Seq(Symbols)
        /\ SubSeq(buffer, entitySize + 1, Len(buffer)) \in Seq(Symbols)
    BY <2>1, PartTyped
  <2>3. chunksBuffer' \in Seq(Symbols) /\ buffer' \in Seq(Symbols)
    BY <1>4, <2>1, <2>2 DEF ReadChunk
  <2> QED
    BY <1>4, <2>3 DEF ReadChunk, SessionTypeOK, Pooled, CHUNK_SIZE
<1>5. CASE AwaitEntity
  BY <1>5 DEF AwaitEntity, SessionTypeOK, Pooled, parserVars, entityVars
<1>6. CASE TakeTrailer
  <2>1. headers' \subseteq Headers
    BY <1>6, HeaderLineTyped DEF TakeTrailer
  <2> QED
    BY <1>1, <1>6, <2>1 DEF TakeTrailer, SessionTypeOK, Pooled, entityVars
<1>7. CASE BadTrailer
  <2>1. answers' \in Seq(Answer) /\ conn' = "closing" /\ pc' = "idle"
    BY <1>7, RefuseTyped DEF BadTrailer, SessionTypeOK
  <2> QED
    BY <1>1, <1>7, <2>1 DEF BadTrailer, SessionTypeOK, Pooled, entityVars
<1> QED
  BY <1>2, <1>3, <1>4, <1>5, <1>6, <1>7

\* The end of a body.
LEMMA CompleteTyped ==
  ASSUME SessionTypeOK, ChunkedComplete \/ PlainComplete
  PROVE  SessionTypeOK'
<1>1. ASSUME NEW text \in Seq(Symbols), pc # "idle", EntityComplete(text),
             chunksBuffer' \in Seq(Symbols)
      PROVE  SessionTypeOK'
  <2>1. /\ answers' \in Seq(Answer) /\ conn' \in {"open", "closing"}
        /\ headers' = {} /\ method' = method /\ wire' = wire /\ sentMessages' = sentMessages
    BY <1>1, OnRequestTyped DEF EntityComplete
  <2> QED
    BY <1>1, <2>1 DEF EntityComplete, SessionTypeOK, Pooled
<1>2. CASE ChunkedComplete
  <2>1. pc # "idle" /\ EntityComplete(chunksBuffer) /\ chunksBuffer' = <<>>
    BY <1>2 DEF ChunkedComplete
  <2> QED
    BY <1>1, <2>1 DEF SessionTypeOK
<1>3. CASE PlainComplete
  <2> DEFINE text == SubSeq(buffer, 1, entitySize)
  <2>1. pc # "idle" /\ EntityComplete(text) /\ chunksBuffer' = chunksBuffer
    BY <1>3 DEF PlainComplete
  <2>2. buffer \in Seq(Symbols) /\ entitySize \in 0..Len(buffer)
    BY <1>3 DEF PlainComplete, EnoughForEntity, SessionTypeOK
  <2>3. text \in Seq(Symbols)
    BY <2>2, PartTyped
  <2> HIDE DEF text
  <2> QED
    BY <1>1, <2>1, <2>3 DEF SessionTypeOK
<1> QED
  BY <1>2, <1>3

-----------------------------------------------------------------------------
LEMMA StepTyped ==
  ASSUME SessionTypeOK, [SessionNext]_httpVars
  PROVE  SessionTypeOK'
<1>1. CASE \/ NewConnection \/ SessionDies \/ Timeout
           \/ \E m \in Message : SendMessage(m)
           \/ \E n \in 1..Len(wire) : ReadyRead(n)
  BY <1>1, OutsideTyped
<1>2. CASE Handler
  BY <1>2, RequestLineTyped, HeadersTyped, EntityTyped, CompleteTyped DEF Handler
<1>3. CASE UNCHANGED httpVars
  BY <1>3 DEF SessionTypeOK, Pooled, httpVars, parserVars, entityVars
<1> QED
  BY <1>1, <1>2, <1>3 DEF SessionNext

\* Whatever clients send, however TCP cuts it, and whenever a connection dies or times
\* out: the parser keeps its types, onReadyRead and atEnd never cut a line or a body beyond
\* the end of the buffer, and a session goes to the pool with nothing of its last client.
THEOREM SessionTypes == SessionSpec => []SessionTypeOK
<1>1. SessionTypeOK /\ [SessionNext]_httpVars => SessionTypeOK'
  BY StepTyped
<1> QED
  BY <1>1, InitTyped, PTL DEF SessionSpec

-----------------------------------------------------------------------------
(* Every request is answered: lines, and what is pending behind them *)

\* What is behind the first e elements.
Cut(s, e) == SubSeq(s, e + 1, Len(s))

LEMMA CutIs ==
  ASSUME NEW S, NEW s \in Seq(S), NEW e \in 0..Len(s)
  PROVE  /\ Cut(s, e) \in Seq(S) /\ Len(Cut(s, e)) = Len(s) - e /\ Len(s) \in Nat
         /\ \A i \in 1 .. Len(s) - e : Cut(s, e)[i] = s[e + i]
<1>1. Len(s) \in Nat /\ e \in Nat /\ e <= Len(s) /\ \A i \in 1..Len(s) : s[i] \in S
  BY LenProperties
<1> DEFINE n == Len(s)
<1> HIDE DEF n
<1>2. /\ SubSeq(s, e + 1, n) \in Seq(S)
      /\ Len(SubSeq(s, e + 1, n)) = (IF e + 1 <= n THEN n - (e + 1) + 1 ELSE 0)
      /\ \A i \in 1 .. n - (e + 1) + 1 : SubSeq(s, e + 1, n)[i] = s[e + 1 + i - 1]
  <2>1. e + 1 \in Int /\ n \in Int /\ \A i \in e + 1 .. n : s[i] \in S
    BY <1>1 DEF n
  <2> QED
    BY <2>1, SubSeqProperties
<1>3. n \in Nat /\ e <= n
  BY <1>1 DEF n
<1>4. n - (e + 1) + 1 = n - e /\ \A i \in 1 .. n - e : e + 1 + i - 1 = e + i
  BY <1>1, <1>3
<1>5. (IF e + 1 <= n THEN n - (e + 1) + 1 ELSE 0) = n - e
  BY <1>1, <1>3
<1> QED
  BY <1>1, <1>2, <1>4, <1>5 DEF Cut, n

LEMMA CutTwice ==
  ASSUME NEW S, NEW s \in Seq(S), NEW e \in 0..Len(s), NEW f \in 0 .. Len(s) - e
  PROVE  Cut(Cut(s, e), f) = Cut(s, e + f)
<1> DEFINE n == Len(s)
           t == Cut(s, e)
<1>1. t \in Seq(S) /\ Len(t) = n - e /\ n \in Nat /\ \A i \in 1 .. n - e : t[i] = s[e + i]
  BY CutIs
<1>2. e + f \in 0..n /\ f \in 0..Len(t) /\ e \in Nat /\ f \in Nat
  BY <1>1
<1>3. /\ Cut(t, f) \in Seq(S) /\ Len(Cut(t, f)) = Len(t) - f
      /\ \A i \in 1 .. Len(t) - f : Cut(t, f)[i] = t[f + i]
  BY <1>1, <1>2, CutIs
<1>4. /\ Cut(s, e + f) \in Seq(S) /\ Len(Cut(s, e + f)) = n - (e + f)
      /\ \A i \in 1 .. n - (e + f) : Cut(s, e + f)[i] = s[e + f + i]
  BY <1>2, CutIs
<1> HIDE DEF n, t
<1>5. Len(t) - f = n - (e + f)
  BY <1>1, <1>2
<1>6. ASSUME NEW i \in 1 .. n - (e + f)
      PROVE  Cut(t, f)[i] = Cut(s, e + f)[i]
  <2>1. f + i \in 1 .. n - e /\ e + (f + i) = e + f + i
    BY <1>1, <1>2
  <2> QED
    BY <1>1, <1>3, <1>4, <1>5, <2>1
<1>7. Cut(t, f) = Cut(s, e + f)
  BY <1>3, <1>4, <1>5, <1>6, SeqEqual
<1> QED
  BY <1>7 DEF t

LEMMA CutConcat ==
  ASSUME NEW S, NEW a \in Seq(S), NEW b \in Seq(S), NEW e \in 0..Len(a)
  PROVE  Cut(a \o b, e) = Cut(a, e) \o b
<1> DEFINE m == Len(a)
           n == Len(b)
           ab == a \o b
           c == Cut(a, e)
<1>1. /\ m \in Nat /\ n \in Nat /\ ab \in Seq(S) /\ Len(ab) = m + n
      /\ \A i \in 1 .. m + n : ab[i] = IF i <= m THEN a[i] ELSE b[i - m]
  BY ConcatProperties, LenProperties
<1>2. c \in Seq(S) /\ Len(c) = m - e /\ \A i \in 1 .. m - e : c[i] = a[e + i]
  BY CutIs
<1> HIDE DEF m, n, ab, c
<1>3. /\ c \o b \in Seq(S) /\ Len(c \o b) = Len(c) + n
      /\ \A i \in 1 .. Len(c) + n : (c \o b)[i] = IF i <= Len(c) THEN c[i] ELSE b[i - Len(c)]
  BY <1>2, ConcatProperties DEF n
<1>4. e \in Nat /\ e <= m /\ e \in 0..Len(ab)
  BY <1>1 DEF m
<1>5. /\ Cut(ab, e) \in Seq(S) /\ Len(Cut(ab, e)) = m + n - e
      /\ \A i \in 1 .. m + n - e : Cut(ab, e)[i] = ab[e + i]
  <2>1. /\ Cut(ab, e) \in Seq(S) /\ Len(Cut(ab, e)) = Len(ab) - e
        /\ \A i \in 1 .. Len(ab) - e : Cut(ab, e)[i] = ab[e + i]
    BY <1>1, <1>4, CutIs
  <2> QED
    BY <1>1, <2>1
<1>6. Len(c) + n = m + n - e
  BY <1>1, <1>2, <1>4
<1>7. ASSUME NEW i \in 1 .. m + n - e
      PROVE  Cut(ab, e)[i] = (c \o b)[i]
  <2>1. e + i \in 1 .. m + n /\ (e + i <= m <=> i <= m - e) /\ i - (m - e) = e + i - m
    BY <1>1, <1>4
  <2>2. Cut(ab, e)[i] = IF e + i <= m THEN a[e + i] ELSE b[e + i - m]
    BY <1>1, <1>5, <2>1
  <2>3. (c \o b)[i] = IF i <= m - e THEN c[i] ELSE b[i - (m - e)]
    BY <1>2, <1>3, <1>6
  <2>4. CASE i <= m - e
    <3>1. i \in 1 .. m - e
      BY <1>1, <1>4, <2>4
    <3> QED
      BY <1>2, <2>1, <2>2, <2>3, <2>4, <3>1
  <2>5. CASE ~(i <= m - e)
    BY <2>1, <2>2, <2>3, <2>5
  <2> QED
    BY <2>4, <2>5
<1>8. Cut(ab, e) = c \o b
  BY <1>3, <1>5, <1>6, <1>7, SeqEqual
<1> QED
  BY <1>8 DEF ab, c

\* What was sent and is not yet parsed, and the line at its beginning, up to the e-th symbol.
Pending == buffer \o wire
LineEnds(e) ==
  /\ Pending[e] = EOL /\ \A i \in 1 .. e - 1 : Pending[i] # EOL
  /\ Line \in Seq(Symbols) /\ Len(Line) = e - 1 /\ \A i \in 1 .. e - 1 : Line[i] = Pending[i]
  /\ AfterLine \o wire = Cut(Pending, e)

LEMMA PendingTyped ==
  ASSUME SessionTypeOK
  PROVE  /\ buffer \in Seq(Symbols) /\ wire \in Seq(Symbols) /\ Pending \in Seq(Symbols)
         /\ Len(buffer) \in Nat /\ Len(wire) \in Nat /\ Len(Pending) = Len(buffer) + Len(wire)
         /\ \A i \in 1..Len(buffer) : Pending[i] = buffer[i]
<1>1. buffer \in Seq(Symbols) /\ wire \in Seq(Symbols)
  BY DEF SessionTypeOK
<1>2. /\ Pending \in Seq(Symbols) /\ Len(Pending) = Len(buffer) + Len(wire)
      /\ \A i \in 1 .. Len(buffer) + Len(wire) : Pending[i] = IF i <= Len(buffer) THEN buffer[i] ELSE wire[i - Len(buffer)]
  BY <1>1, ConcatProperties DEF Pending
<1>3. Len(buffer) \in Nat /\ Len(wire) \in Nat
  BY <1>1, LenProperties
<1> QED
  BY <1>1, <1>2, <1>3

LEMMA LineFound ==
  ASSUME SessionTypeOK, HasLine
  PROVE  \E e \in 1..Len(buffer) : LineEnds(e) /\ e <= Len(Pending)
<1> DEFINE e == EndOfLine
           n == Len(buffer)
           I == {i \in 1..n : buffer[i] = EOL}
<1>1. buffer \in Seq(Symbols) /\ wire \in Seq(Symbols) /\ n \in Nat /\ Len(wire) \in Nat
      /\ Len(Pending) = n + Len(wire) /\ \A i \in 1..n : Pending[i] = buffer[i]
  BY PendingTyped
<1>2. I # {} /\ I \in SUBSET (1..n)
  BY DEF HasLine, Contains
<1>3. e = Min(I)
  <2>1. e = IF I # {} THEN Min(I) ELSE 0
    BY DEF EndOfLine, SelectInSeq
  <2> HIDE DEF I, e
  <2> QED
    BY <1>2, <2>1
<1>4. e \in I /\ \A i \in I : e <= i
  <2>1. I \in SUBSET Nat
    BY <1>1
  <2> HIDE DEF I, e
  <2>2. \E x \in I : \A y \in I : x <= y
    BY <1>2, <2>1, LeastNumber
  <2> QED
    BY <1>3, <2>2 DEF Min
<1> HIDE DEF e
<1>5. e \in 1..n /\ e \in Nat /\ e - 1 \in Int /\ Pending[e] = EOL
  BY <1>1, <1>4
<1>6. ASSUME NEW i \in 1 .. e - 1
      PROVE  i \in 1..n /\ buffer[i] # EOL /\ Pending[i] # EOL
  <2>1. i \in 1..n /\ ~(e <= i)
    BY <1>1, <1>5
  <2> QED
    BY <1>1, <1>4, <2>1
<1>7. Line \in Seq(Symbols) /\ Len(Line) = e - 1 /\ \A i \in 1 .. e - 1 : Line[i] = Pending[i]
  <2>1. Line = SubSeq(buffer, 1, e - 1)
    BY DEF Line, e
  <2>2. \A i \in 1 .. e - 1 : buffer[i] \in Symbols
    BY <1>1, <1>6
  <2> DEFINE last == e - 1
  <2>3. last \in Int /\ last \in Nat
    BY <1>5
  <2> HIDE DEF last
  <2>4. /\ SubSeq(buffer, 1, last) \in Seq(Symbols)
        /\ Len(SubSeq(buffer, 1, last)) = IF 1 <= last THEN last - 1 + 1 ELSE 0
        /\ \A i \in 1 .. last - 1 + 1 : SubSeq(buffer, 1, last)[i] = buffer[1 + i - 1]
    BY <2>2, <2>3, SubSeqProperties DEF last
  <2>5. /\ Len(SubSeq(buffer, 1, last)) = last
        /\ \A i \in 1 .. last : SubSeq(buffer, 1, last)[i] = buffer[i]
    BY <2>3, <2>4
  <2> QED
    BY <1>1, <1>6, <2>1, <2>4, <2>5 DEF last
<1>8. AfterLine \o wire = Cut(Pending, e)
  <2>1. e \in 0..Len(buffer)
    BY <1>5
  <2>2. Cut(buffer \o wire, e) = Cut(buffer, e) \o wire
    BY <1>1, <2>1, CutConcat
  <2>3. AfterLine = Cut(buffer, e)
    BY DEF AfterLine, Cut, e
  <2> QED
    BY <2>2, <2>3 DEF Pending
<1> QED
  BY <1>1, <1>5, <1>6, <1>7, <1>8 DEF LineEnds

\* A line of one word, and an empty line.
LEMMA WordLine ==
  ASSUME SessionTypeOK, HasLine, Len(Pending) > 1, Pending[1] # EOL, Pending[2] = EOL
  PROVE  /\ Len(Line) = 1 /\ Line[1] = Pending[1] /\ Line # <<>> /\ ToSet(Line) = {Pending[1]}
         /\ AfterLine \o wire = Cut(Pending, 2)
<1>1. PICK e \in 1..Len(buffer) : LineEnds(e)
  BY LineFound
<1>2. e \in Nat /\ e >= 1
  <2>1. Len(buffer) \in Nat
    BY PendingTyped
  <2> QED
    BY <2>1
<1>3. e = 2
  <2>1. e # 1
    BY <1>1 DEF LineEnds
  <2>2. ~(e > 2)
    <3>1. e > 2 => 2 \in 1 .. e - 1
      BY <1>2
    <3> QED
      BY <1>1, <3>1 DEF LineEnds
  <2> QED
    BY <1>2, <2>1, <2>2
<1>4. Line \in Seq(Symbols) /\ Len(Line) = 1 /\ Line[1] = Pending[1] /\ AfterLine \o wire = Cut(Pending, 2)
  BY <1>1, <1>3 DEF LineEnds
<1>5. DOMAIN Line = {1}
  <2>1. DOMAIN Line = 1..1
    BY <1>4, LenProperties
  <2> QED
    BY <2>1
<1> QED
  BY <1>4, <1>5, EmptySeq DEF ToSet

LEMMA NoWordLine ==
  ASSUME SessionTypeOK, HasLine, Pending[1] = EOL
  PROVE  Line = <<>> /\ AfterLine \o wire = Cut(Pending, 1) /\ Len(Pending) > 0
<1>1. PICK e \in 1..Len(buffer) : LineEnds(e) /\ e <= Len(Pending)
  BY LineFound
<1>2. e \in Nat /\ e >= 1 /\ Len(Pending) \in Nat
  <2>1. Len(buffer) \in Nat /\ Pending \in Seq(Symbols)
    BY PendingTyped
  <2> QED
    BY <2>1, LenProperties
<1>3. e = 1
  <2>1. e > 1 => 1 \in 1 .. e - 1
    BY <1>2
  <2> QED
    BY <1>1, <1>2, <2>1 DEF LineEnds
<1>4. Line \in Seq(Symbols) /\ Len(Line) = 0 /\ AfterLine \o wire = Cut(Pending, 1)
  BY <1>1, <1>3 DEF LineEnds
<1> QED
  BY <1>1, <1>2, <1>3, <1>4, EmptySeq

\* Lines that are words are not empty.
LEMMA SomeLine ==
  ASSUME SessionTypeOK, HasLine, Pending[1] # EOL
  PROVE  Line # <<>> /\ Line \in Seq(Symbols) /\ Len(Line) \in Nat \ {0} /\ Line[1] = Pending[1]
<1>1. PICK e \in 1..Len(buffer) : LineEnds(e)
  BY LineFound
<1>2. e \in Nat /\ e >= 1
  <2>1. Len(buffer) \in Nat
    BY PendingTyped
  <2> QED
    BY <2>1
<1>3. e # 1
  BY <1>1 DEF LineEnds
<1>4. Line \in Seq(Symbols) /\ Len(Line) = e - 1 /\ 1 \in 1 .. e - 1
  BY <1>1, <1>2, <1>3 DEF LineEnds
<1>5. Line[1] = Pending[1]
  BY <1>1, <1>4 DEF LineEnds
<1>6. Line # <<>>
  BY <1>2, <1>3, <1>4, EmptySeq
<1> QED
  BY <1>2, <1>3, <1>4, <1>5, <1>6

-----------------------------------------------------------------------------
(* Every request is answered: the invariant *)

HeadEnd(m) == 2 * m.fields + 3

\* All is parsed of a message but what is behind its p-th symbol.
At(m, p) == Pending = Cut(m.wire, p)

\* What is left of the k-th message after its answer, if it came in chunks.
Left(s, k) ==
  /\ s \in Seq(Symbols) /\ (s # <<>> => s[Len(s)] = EOL)
  /\ \A i \in 1..Len(s) : s[i] \notin RequestLines
  /\ (\E i \in 1..Len(s) : s[i] # EOL) => k > 0 /\ HasTrailers(sentMessages[k])

\* All is answered; or the request last sent is not begun, or in its header lines, or in
\* its body, which may have lost lines to the header loop, or in a body in chunks.
Between ==
  /\ state = "line" /\ headers = {} /\ chunksBuffer = <<>> /\ Len(answers) = Len(sentMessages)
  /\ pc \in {"idle", "line"} \/ (pc = "headers" /\ buffer = <<>>)
  /\ Left(Pending, Len(sentMessages))
Before(m) ==
  /\ state = "line" /\ headers = {} /\ chunksBuffer = <<>> /\ pc \in {"idle", "line"}
  /\ \E s : Left(s, Len(answers)) /\ Pending = s \o m.wire
InHead(m) ==
  /\ state = "headers" /\ pc \in {"idle", "headers"} /\ chunksBuffer = <<>>
  /\ Opening(m) \in Methods /\ method = Opening(m)
  /\ \E j \in 0..m.fields :
       At(m, 2 * j + 2) /\ headers = {m.wire[2 * i + 1] : i \in 1..j} /\ headers \subseteq Headers
InPlain(m) ==
  /\ state = "body" /\ pc \in {"idle", "headers", "body"} /\ chunksBuffer = <<>> /\ method = Opening(m)
  /\ Delimited(m) /\ HasEntity(m) /\ Measured(m)
  /\ chunkedEntity = 0 /\ entitySize = Len(EntityOf(m))
  /\ "type" \in headers /\ headers \cap Lengths = FieldsOf(m) \cap Lengths
  /\ \E p \in HeadEnd(m) .. Len(m.wire) :
       /\ At(m, p)
       /\ IF p = HeadEnd(m) THEN headers = FieldsOf(m) ELSE EOL \in ToSet(EntityOf(m))
InChunkedBody(m) ==
  /\ state = "body" /\ method = Opening(m) /\ Delimited(m) /\ InChunks(m)
  /\ "host" \in headers => "host" \in FieldsOf(m)
  /\ \/ chunkedEntity = CHUNK_SIZE /\ chunksBuffer = <<>> /\ pc \in {"idle", "headers", "body"} /\ At(m, HeadEnd(m))
     \/ /\ pc \in {"idle", "body"} /\ EntityOf(m)[1] = "1"
        /\ \/ chunkedEntity = CHUNK /\ entitySize = 1 /\ At(m, HeadEnd(m) + 2)
           \/ chunkedEntity = CHUNK_SIZE /\ At(m, HeadEnd(m) + 3)
     \/ /\ pc \in {"idle", "body"} /\ EntityOf(m)[1] = "0" /\ chunksBuffer = <<>>
        /\ chunkedEntity = TRAILING_HEADERS /\ entitySize = 0
        /\ \E p \in HeadEnd(m) + 2 .. Len(m.wire) : At(m, p)

Parsing(m) == Before(m) \/ InHead(m) \/ InPlain(m) \/ InChunkedBody(m)
Serving == Between \/ (Len(sentMessages) = Len(answers) + 1 /\ Parsing(sentMessages[Len(sentMessages)]))
Closing == pc = "idle" \/ (pc = "headers" /\ state = "line" /\ buffer = <<>>)
SessionInv ==
  AnswersMatch /\ (conn = "open" => Serving) /\ (conn = "closing" => Closing)

\* The shape of a message.
LEMMA MessageIs ==
  ASSUME NEW m \in Message
  PROVE  /\ m.wire \in Seq(Symbols) /\ Len(m.wire) \in Nat /\ m.fields \in Nat
         /\ HeadEnd(m) \in Nat /\ HeadEnd(m) <= Len(m.wire) /\ HeadEnd(m) > 2
         /\ EntityOf(m) = Cut(m.wire, HeadEnd(m)) /\ EntityOf(m) \in Seq(Symbols)
         /\ Len(EntityOf(m)) = Len(m.wire) - HeadEnd(m)
         /\ \A i \in 1..Len(EntityOf(m)) : EntityOf(m)[i] = m.wire[HeadEnd(m) + i]
         /\ m.wire[1] # EOL /\ m.wire[2] = EOL /\ m.wire[HeadEnd(m)] = EOL
         /\ \A j \in 0 .. m.fields - 1 : m.wire[2 * j + 3] # EOL /\ m.wire[2 * j + 4] = EOL
<1> DEFINE n == Len(m.wire)
           f == m.fields
           h == 2 * f + 3
<1>1. m.wire \in Seq(Symbols) /\ n \in Nat /\ f \in Nat /\ h <= n /\ m.wire[h] = EOL
  BY SessionAssumption, LenProperties
<1>2. \A i \in 0..f : m.wire[2 * i + 1] # EOL /\ m.wire[2 * i + 2] = EOL
  BY SessionAssumption
<1>3. HeadEnd(m) = h
  BY DEF HeadEnd
<1>4. EntityOf(m) = Cut(m.wire, h)
  <2>1. 2 * f + 4 = h + 1
    BY <1>1
  <2> QED
    BY <2>1 DEF EntityOf, Cut
<1> HIDE DEF n
<1>5. h \in Nat /\ h > 2 /\ h \in 0..n
  BY <1>1
<1>6. m.wire[1] # EOL /\ m.wire[2] = EOL
  <2>1. 0 \in 0..f /\ 2 * 0 + 1 = 1 /\ 2 * 0 + 2 = 2
    BY <1>1
  <2>2. m.wire[2 * 0 + 1] # EOL /\ m.wire[2 * 0 + 2] = EOL
    BY <1>2, <2>1
  <2> QED
    BY <2>1, <2>2
<1>7. ASSUME NEW j \in 0 .. f - 1
      PROVE  m.wire[2 * j + 3] # EOL /\ m.wire[2 * j + 4] = EOL
  <2>1. j + 1 \in 0..f /\ 2 * (j + 1) + 1 = 2 * j + 3 /\ 2 * (j + 1) + 2 = 2 * j + 4
    BY <1>1
  <2>2. m.wire[2 * (j + 1) + 1] # EOL /\ m.wire[2 * (j + 1) + 2] = EOL
    BY <1>2, <2>1
  <2> QED
    BY <2>1, <2>2
<1> HIDE DEF h, f
<1>8. /\ Cut(m.wire, h) \in Seq(Symbols) /\ Len(Cut(m.wire, h)) = n - h
      /\ \A i \in 1 .. n - h : Cut(m.wire, h)[i] = m.wire[h + i]
  BY <1>1, <1>5, CutIs DEF n
<1> QED
  BY <1>1, <1>3, <1>4, <1>5, <1>6, <1>7, <1>8 DEF n, f

\* What is pending of it, and what is when some of that is taken.
LEMMA AtIs ==
  ASSUME NEW m \in Message, NEW p \in 0..Len(m.wire), At(m, p)
  PROVE  /\ Len(Pending) = Len(m.wire) - p /\ Len(Pending) \in Nat
         /\ \A i \in 1..Len(Pending) : Pending[i] = m.wire[p + i]
         /\ \A e \in 0..Len(Pending) : Cut(Pending, e) = Cut(m.wire, p + e) /\ p + e \in 0..Len(m.wire)
<1> DEFINE n == Len(m.wire)
<1>1. m.wire \in Seq(Symbols) /\ n \in Nat
  BY MessageIs
<1>2. /\ Cut(m.wire, p) \in Seq(Symbols) /\ Len(Cut(m.wire, p)) = n - p
      /\ \A i \in 1 .. n - p : Cut(m.wire, p)[i] = m.wire[p + i]
  BY <1>1, CutIs
<1>3. n - p \in Nat /\ p \in Nat
  BY <1>1
<1>4. ASSUME NEW e \in 0 .. n - p
      PROVE  Cut(Pending, e) = Cut(m.wire, p + e) /\ p + e \in 0..n
  <2>1. Cut(Cut(m.wire, p), e) = Cut(m.wire, p + e)
    BY <1>1, CutTwice
  <2>2. p + e \in 0..n
    BY <1>1, <1>3
  <2> QED
    BY <2>1, <2>2 DEF At
<1>5. Pending = Cut(m.wire, p)
  BY DEF At
<1> HIDE DEF n
<1> QED
  BY <1>2, <1>3, <1>4, <1>5 DEF n

\* A part of a body is in the body.
LEMMA InBody ==
  ASSUME NEW m \in Message, NEW p \in HeadEnd(m) .. Len(m.wire), At(m, p), NEW i \in 1..Len(Pending)
  PROVE  Pending[i] \in ToSet(EntityOf(m))
<1> DEFINE b == p - HeadEnd(m) + i
           h == HeadEnd(m)
<1>1. h \in Nat /\ Len(m.wire) \in Nat /\ Len(EntityOf(m)) = Len(m.wire) - h /\ EntityOf(m) \in Seq(Symbols)
      /\ \A k \in 1..Len(EntityOf(m)) : EntityOf(m)[k] = m.wire[h + k]
  BY MessageIs
<1> HIDE DEF h
<1>2. p \in 0..Len(m.wire) /\ p \in Nat /\ p >= h
  BY <1>1 DEF h
<1>3. Len(Pending) = Len(m.wire) - p /\ Pending[i] = m.wire[p + i]
  BY <1>2, AtIs
<1>4. b \in 1..Len(EntityOf(m)) /\ h + b = p + i
  BY <1>1, <1>2, <1>3 DEF h
<1> HIDE DEF b
<1>5. DOMAIN EntityOf(m) = 1..Len(EntityOf(m))
  BY <1>1, LenProperties
<1> QED
  BY <1>1, <1>3, <1>4, <1>5 DEF ToSet

\* What is left stays so when some of it is taken.
LEMMA LeftLess ==
  ASSUME NEW s, NEW k, Left(s, k), NEW e \in 0..Len(s)
  PROVE  Left(Cut(s, e), k)
<1> DEFINE n == Len(s)
           t == Cut(s, e)
<1>1. s \in Seq(Symbols) /\ n \in Nat
  BY LenProperties DEF Left
<1>2. t \in Seq(Symbols) /\ Len(t) = n - e /\ \A i \in 1 .. n - e : t[i] = s[e + i]
  BY <1>1, CutIs
<1> HIDE DEF t
<1>3. e \in Nat /\ \A i \in 1 .. n - e : e + i \in 1..n
  BY <1>1
<1>4. t # <<>> => t[Len(t)] = EOL
  <2>1. t # <<>> => Len(t) \in Nat \ {0}
    BY <1>2, EmptySeq
  <2>2. Len(t) \in Nat \ {0} => Len(t) \in 1 .. n - e /\ e + Len(t) = n /\ n # 0
    BY <1>1, <1>2, <1>3
  <2>3. n # 0 => s # <<>>
    BY EmptySeq
  <2> QED
    BY <1>2, <2>1, <2>2, <2>3 DEF Left
<1> HIDE DEF n
<1> QED
  BY <1>2, <1>3, <1>4 DEF Left, t, n

\* The next answer is right.
AnswerFits(a) ==
  \/ Len(answers) < Len(sentMessages) /\ RightAnswer(sentMessages[Len(answers) + 1], a)
  \/ Len(answers) > 0 /\ HasTrailers(sentMessages[Len(answers)]) /\ a = Refused("BAD_REQUEST")

LEMMA OneAnswerMore ==
  ASSUME SessionTypeOK, AnswersMatch, NEW a \in Answer, AnswerFits(a), answers' = Append(answers, a), sentMessages' = sentMessages
  PROVE  AnswersMatch' /\ Len(answers') = Len(answers) + 1
<1> DEFINE n == Len(answers)
<1>1. answers \in Seq(Answer) /\ n \in Nat /\ DOMAIN answers = 1..n /\ sentMessages \in Seq(Message) /\ Len(sentMessages) \in Nat
  BY LenProperties DEF SessionTypeOK
<1>2. /\ answers' \in Seq(Answer) /\ Len(answers') = n + 1 /\ answers'[n + 1] = a
      /\ \A i \in 1..n : answers'[i] = answers[i]
  BY <1>1, AppendProperties
<1>3. DOMAIN answers' = 1 .. n + 1
  BY <1>2, LenProperties
<1> HIDE DEF n
<1>4. \A i \in 1 .. n + 1 : i \in 1..n \/ i = n + 1
  BY <1>1
<1>5. ASSUME NEW i \in 1..n
      PROVE  \/ i <= Len(sentMessages) /\ RightAnswer(sentMessages[i], answers'[i])
             \/ i > 1 /\ HasTrailers(sentMessages[i - 1]) /\ answers'[i] = Refused("BAD_REQUEST")
  BY <1>1, <1>2 DEF AnswersMatch
<1>6. \/ n + 1 <= Len(sentMessages) /\ RightAnswer(sentMessages[n + 1], a)
      \/ n + 1 > 1 /\ HasTrailers(sentMessages[n + 1 - 1]) /\ a = Refused("BAD_REQUEST")
  <2>1. n + 1 - 1 = n /\ (n < Len(sentMessages) <=> n + 1 <= Len(sentMessages)) /\ (n > 0 <=> n + 1 > 1)
    BY <1>1
  <2> QED
    BY <2>1 DEF AnswerFits, n
<1>7. sentMessages' = sentMessages
  OBVIOUS
<1> QED
  BY <1>2, <1>3, <1>4, <1>5, <1>6, <1>7 DEF AnswersMatch, n

\* A request is refused, and the connection is closed.
LEMMA Refusing ==
  ASSUME SessionTypeOK, AnswersMatch, conn = "open", sentMessages' = sentMessages,
         NEW st \in {"BAD_REQUEST", "HTTP_VERSION_NOT_SUPPORTED", "NOT_IMPLEMENTED", "LENGTH_REQUIRED"},
         Refuse(st), AnswerFits(Refused(st))
  PROVE  SessionInv'
<1>1. answers' = Append(answers, Refused(st)) /\ conn' = "closing" /\ pc' = "idle"
  BY DEF Refuse
<1>2. Refused(st) \in Answer
  BY RefusedTyped
<1>3. AnswersMatch'
  BY <1>1, <1>2, OneAnswerMore
<1> QED
  BY <1>1, <1>3 DEF SessionInv, Closing

\* A request is handed to a service, or refused for want of a host.
LEMMA Handing ==
  ASSUME SessionTypeOK, AnswersMatch, conn = "open", NEW text \in Seq(Symbols), OnRequest(text),
         "host" \in headers => AnswerFits(Served(method, text)),
         "host" \notin headers => AnswerFits(Refused("BAD_REQUEST"))
  PROVE  /\ AnswersMatch' /\ Len(answers') = Len(answers) + 1 /\ sentMessages' = sentMessages /\ wire' = wire
         /\ headers' = {} /\ method' = method /\ conn' \in {"open", "closing"}
<1>1. Served(method, text) \in Answer /\ Refused("BAD_REQUEST") \in Answer
  BY RefusedTyped DEF SessionTypeOK, Served, Answer
<1>2. /\ headers' = {} /\ sentMessages' = sentMessages /\ wire' = wire /\ method' = method /\ conn' \in {"open", "closing"}
      /\ answers' = Append(answers, IF "host" \in headers THEN Served(method, text) ELSE Refused("BAD_REQUEST"))
  BY DEF OnRequest
<1>3. CASE "host" \in headers
  BY <1>1, <1>2, <1>3, OneAnswerMore
<1>4. CASE "host" \notin headers
  BY <1>1, <1>2, <1>4, OneAnswerMore
<1> QED
  BY <1>2, <1>3, <1>4

-----------------------------------------------------------------------------
(* Every request is answered: the client, the network and the timer *)

LEMMA NothingLeft == ASSUME NEW k PROVE Left(<<>>, k)
BY EmptySeq DEF Left

LEMMA LeftKept ==
  ASSUME NEW s, NEW k, Left(s, k), k > 0 => sentMessages'[k] = sentMessages[k]
  PROVE  Left(s, k)'
<1>1. k > 0 /\ HasTrailers(sentMessages[k]) => HasTrailers(sentMessages'[k])
  OBVIOUS
<1>2. HasTrailers(sentMessages'[k]) = HasTrailers(sentMessages[k])'
  BY DEF HasTrailers, Delimited, InChunks, EntityOf, Understood, HasEntity, WellTyped, Measured, Opening, FieldsOf
<1> QED
  BY <1>1, <1>2 DEF Left

\* The steps that leave the request last sent with some of it to parse.
LEMMA StillParsing ==
  ASSUME NEW m \in Message, m = sentMessages[Len(sentMessages)], sentMessages' = sentMessages, Parsing(m)',
         AnswersMatch', Len(sentMessages') = Len(answers') + 1, conn' = "open"
  PROVE  SessionInv'
<1>1. m = sentMessages'[Len(sentMessages')]
  OBVIOUS
<1>2. Before(m)' => Before(sentMessages[Len(sentMessages)])'
  BY <1>1 DEF Before
<1>3. InHead(m)' => InHead(sentMessages[Len(sentMessages)])'
  BY <1>1 DEF InHead, Opening, At
<1>4. InPlain(m)' => InPlain(sentMessages[Len(sentMessages)])'
  <2>1. /\ Opening(sentMessages[Len(sentMessages)])' = Opening(m) /\ Delimited(sentMessages[Len(sentMessages)])' = Delimited(m)
        /\ HasEntity(sentMessages[Len(sentMessages)])' = HasEntity(m) /\ Measured(sentMessages[Len(sentMessages)])' = Measured(m)
        /\ EntityOf(sentMessages[Len(sentMessages)])' = EntityOf(m) /\ FieldsOf(sentMessages[Len(sentMessages)])' = FieldsOf(m)
        /\ HeadEnd(sentMessages[Len(sentMessages)])' = HeadEnd(m)
    BY <1>1 DEF Opening, Delimited, HasEntity, Measured, EntityOf, FieldsOf, HeadEnd, Understood, WellTyped, InChunks
  <2>2. ASSUME NEW p PROVE At(m, p)' => At(sentMessages[Len(sentMessages)], p)'
    BY <1>1 DEF At
  <2> QED
    BY <1>1, <2>1, <2>2 DEF InPlain
<1>5. InChunkedBody(m)' => InChunkedBody(sentMessages[Len(sentMessages)])'
  <2>1. /\ Opening(sentMessages[Len(sentMessages)])' = Opening(m) /\ Delimited(sentMessages[Len(sentMessages)])' = Delimited(m)
        /\ InChunks(sentMessages[Len(sentMessages)])' = InChunks(m)
        /\ EntityOf(sentMessages[Len(sentMessages)])' = EntityOf(m) /\ FieldsOf(sentMessages[Len(sentMessages)])' = FieldsOf(m)
        /\ HeadEnd(sentMessages[Len(sentMessages)])' = HeadEnd(m)
    BY <1>1 DEF Opening, Delimited, HasEntity, Measured, EntityOf, FieldsOf, HeadEnd, Understood, WellTyped, InChunks
  <2>2. ASSUME NEW p PROVE At(m, p)' => At(sentMessages[Len(sentMessages)], p)'
    BY <1>1 DEF At
  <2> QED
    BY <1>1, <2>1, <2>2 DEF InChunkedBody
<1>6. Parsing(sentMessages[Len(sentMessages)])'
  BY <1>2, <1>3, <1>4, <1>5 DEF Parsing
<1> QED
  BY <1>6 DEF SessionInv, Serving

\* Reading what has come, and waiting for more, change nothing of it.
LEMMA Staying ==
  ASSUME SessionTypeOK, SessionInv, conn = "open", Pending' = Pending, pc' \in {"idle", state} \/ UNCHANGED <<pc, buffer>>,
         UNCHANGED <<conn, state, method, headers, entitySize, chunkedEntity, chunksBuffer, sentMessages, answers>>
  PROVE  SessionInv'
<1>1. AnswersMatch'
  BY DEF SessionInv, AnswersMatch
<1>2. CASE Between
  <2>1. Between'
    BY <1>2 DEF Between, Left
  <2> QED
    BY <1>1, <2>1 DEF SessionInv, Serving
<1>3. CASE Len(sentMessages) = Len(answers) + 1 /\ Parsing(sentMessages[Len(sentMessages)])
  <2> DEFINE m == sentMessages[Len(sentMessages)]
  <2>1. m \in Message
    BY <1>3, LenProperties DEF SessionTypeOK
  <2>2. PICK x \in Message : x = m
    BY <2>1
  <2> HIDE DEF m
  <2>3. CASE Before(x)
    <3>1. Before(x)'
      BY <2>3 DEF Before, Left
    <3> QED
      BY <1>1, <1>3, <2>2, <3>1, StillParsing DEF Parsing, m
  <2>4. CASE InHead(x)
    <3>1. InHead(x)'
      BY <2>4 DEF InHead, At
    <3> QED
      BY <1>1, <1>3, <2>2, <3>1, StillParsing DEF Parsing, m
  <2>5. CASE InPlain(x)
    <3>1. InPlain(x)'
      BY <2>5 DEF InPlain, At
    <3> QED
      BY <1>1, <1>3, <2>2, <3>1, StillParsing DEF Parsing, m
  <2>6. CASE InChunkedBody(x)
    <3>1. InChunkedBody(x)'
      BY <2>6 DEF InChunkedBody, At
    <3> QED
      BY <1>1, <1>3, <2>2, <3>1, StillParsing DEF Parsing, m
  <2> QED
    BY <1>3, <2>2, <2>3, <2>4, <2>5, <2>6 DEF Parsing, m
<1> QED
  BY <1>2, <1>3 DEF SessionInv, Serving

LEMMA SessionInitially == SessionInit => SessionInv
<1> SUFFICES ASSUME SessionInit PROVE SessionInv
  OBVIOUS
<1>1. DOMAIN answers = {}
  BY EmptySeq, LenProperties DEF SessionInit
<1> QED
  BY <1>1 DEF SessionInv, AnswersMatch, SessionInit

\* A client sends a request when the one before it is answered.
LEMMA Sending ==
  ASSUME SessionTypeOK, SessionInv, NEW m \in Message, SendMessage(m)
  PROVE  SessionInv'
<1> DEFINE n == Len(sentMessages)
<1>1. conn = "open" /\ pc = "idle" /\ Len(answers) >= n
  BY DEF SendMessage
<1>2. sentMessages \in Seq(Message) /\ n \in Nat /\ answers \in Seq(Answer) /\ Len(answers) \in Nat
      /\ DOMAIN answers = 1..Len(answers)
  BY LenProperties DEF SessionTypeOK
<1>3. Between
  BY <1>1, <1>2 DEF SessionInv, Serving
<1>4. Len(answers) = n /\ Left(Pending, n) /\ state = "line" /\ headers = {} /\ chunksBuffer = <<>>
  BY <1>3 DEF Between
<1>5. /\ sentMessages' \in Seq(Message) /\ Len(sentMessages') = n + 1 /\ sentMessages'[n + 1] = m
      /\ \A i \in 1..n : sentMessages'[i] = sentMessages[i]
  BY <1>2, AppendProperties DEF SendMessage
<1>6. UNCHANGED <<conn, pc, state, buffer, method, headers, chunksBuffer, answers>>
  BY DEF SendMessage, parserVars, entityVars
<1> HIDE DEF n
<1>7. AnswersMatch'
  <2>1. ASSUME NEW i \in 1..n
        PROVE  \/ i <= n + 1 /\ RightAnswer(sentMessages'[i], answers[i])
               \/ i > 1 /\ HasTrailers(sentMessages'[i - 1]) /\ answers[i] = Refused("BAD_REQUEST")
    <3>1. \/ i <= n /\ RightAnswer(sentMessages[i], answers[i])
          \/ i > 1 /\ HasTrailers(sentMessages[i - 1]) /\ answers[i] = Refused("BAD_REQUEST")
      BY <1>2, <1>4 DEF SessionInv, AnswersMatch, n
    <3>2. i <= n + 1 /\ (i > 1 => i - 1 \in 1..n)
      BY <1>2
    <3> QED
      BY <1>5, <3>1, <3>2
  <2> QED
    BY <1>2, <1>4, <1>5, <1>6, <2>1 DEF AnswersMatch
<1>8. Pending' = Pending \o m.wire
  <2>1. buffer \in Seq(Symbols) /\ wire \in Seq(Symbols) /\ m.wire \in Seq(Symbols)
    BY SessionAssumption DEF SessionTypeOK
  <2>2. Pending' = buffer \o (wire \o m.wire)
    BY <1>6 DEF Pending, SendMessage
  <2>3. ASSUME NEW a \in Seq(Symbols), NEW b \in Seq(Symbols), NEW c \in Seq(Symbols)
        PROVE  a \o (b \o c) = (a \o b) \o c
    BY ConcatAssociative
  <2> QED
    BY <2>1, <2>2, <2>3 DEF Pending
<1>9. Before(m)'
  <2>1. PICK s, k : s = Pending /\ k = Len(answers)
    OBVIOUS
  <2>2. Left(s, k) /\ (k > 0 => k \in 1..n)
    BY <1>2, <1>4, <2>1
  <2>3. Left(s, k)' /\ k = Len(answers') /\ Pending' = s \o m.wire
    BY <1>5, <1>6, <1>8, <2>1, <2>2, LeftKept
  <2>4. Left(s, Len(answers))'
    BY <2>3 DEF Left
  <2> QED
    BY <1>1, <1>4, <1>6, <2>3, <2>4 DEF Before
<1>10. Len(sentMessages') = Len(answers') + 1 /\ m = sentMessages'[Len(sentMessages')]
  BY <1>4, <1>5, <1>6
<1>11. Parsing(sentMessages[Len(sentMessages)])'
  BY <1>9, <1>10 DEF Parsing, Before
<1> QED
  BY <1>1, <1>6, <1>7, <1>10, <1>11 DEF SessionInv, Serving

LEMMA TwoParts ==
  ASSUME NEW S, NEW s \in Seq(S), NEW n \in 0..Len(s)
  PROVE  SubSeq(s, 1, n) \o Cut(s, n) = s
<1> DEFINE a == SubSeq(s, 1, n)
           b == Cut(s, n)
<1>1. Len(s) \in Nat /\ n \in Nat /\ n <= Len(s) /\ \A i \in 1..Len(s) : s[i] \in S
  BY LenProperties
<1>2. b \in Seq(S) /\ Len(b) = Len(s) - n /\ \A i \in 1 .. Len(s) - n : b[i] = s[n + i]
  BY CutIs
<1>3. a \in Seq(S) /\ Len(a) = n /\ \A i \in 1..n : a[i] = s[i]
  <2>1. n \in Int /\ 1 \in Int /\ \A i \in 1..n : s[i] \in S
    BY <1>1
  <2>2. /\ SubSeq(s, 1, n) \in Seq(S)
        /\ Len(SubSeq(s, 1, n)) = IF 1 <= n THEN n - 1 + 1 ELSE 0
        /\ \A i \in 1 .. n - 1 + 1 : SubSeq(s, 1, n)[i] = s[1 + i - 1]
    BY <2>1, SubSeqProperties
  <2> QED
    BY <1>1, <2>2
<1> HIDE DEF a, b
<1>4. /\ a \o b \in Seq(S) /\ Len(a \o b) = n + Len(b)
      /\ \A i \in 1 .. n + Len(b) : (a \o b)[i] = IF i <= n THEN a[i] ELSE b[i - n]
  <2>1. /\ a \o b \in Seq(S) /\ Len(a \o b) = Len(a) + Len(b)
        /\ \A i \in 1 .. Len(a) + Len(b) : (a \o b)[i] = IF i <= Len(a) THEN a[i] ELSE b[i - Len(a)]
    BY <1>2, <1>3, ConcatProperties
  <2> QED
    BY <1>3, <2>1
<1>5. n + Len(b) = Len(s)
  BY <1>1, <1>2
<1>6. ASSUME NEW i \in 1..Len(s)
      PROVE  (a \o b)[i] = s[i]
  <2>1. (i <= n => i \in 1..n) /\ (~(i <= n) => i - n \in 1 .. Len(s) - n /\ n + (i - n) = i)
    BY <1>1
  <2>2. (a \o b)[i] = IF i <= n THEN a[i] ELSE b[i - n]
    BY <1>4, <1>5
  <2> QED
    BY <1>2, <1>3, <2>1, <2>2
<1>7. a \o b = s
  BY <1>4, <1>5, <1>6, SeqEqual
<1> QED
  BY <1>7 DEF a, b

LEMMA OutsideStep ==
  ASSUME SessionTypeOK, SessionInv,
         \/ NewConnection \/ SessionDies \/ Timeout
         \/ \E m \in Message : SendMessage(m)
         \/ \E n \in 1..Len(wire) : ReadyRead(n)
  PROVE  SessionInv'
<1>1. CASE NewConnection
  <2>1. /\ conn' = "open" /\ pc' = "idle" /\ state' = "line" /\ headers' = {} /\ chunksBuffer' = <<>>
        /\ answers' = <<>> /\ sentMessages' = <<>> /\ buffer' = <<>> /\ wire' = <<>>
    BY <1>1 DEF NewConnection, SessionTypeOK, Pooled, parserVars, entityVars
  <2>2. Pending' = <<>>
    BY <2>1, ConcatSimplifications, EmptySeq DEF Pending
  <2>3. Left(Pending, Len(sentMessages))'
    <3>1. Pending' \in Seq(Symbols) /\ \A i : i \notin 1..Len(Pending')
      BY <2>2, EmptySeq
    <3> QED
      BY <2>2, <3>1 DEF Left
  <2>4. Between'
    BY <2>1, <2>3 DEF Between
  <2>5. DOMAIN answers' = {}
    BY <2>1, EmptySeq, LenProperties
  <2>6. AnswersMatch'
    BY <2>5 DEF AnswersMatch
  <2> QED
    BY <2>1, <2>4, <2>6 DEF SessionInv, Serving
<1>2. CASE SessionDies
  BY <1>2 DEF SessionDies, SessionInv, AnswersMatch
<1>3. CASE Timeout
  BY <1>3 DEF Timeout, SessionInv, AnswersMatch, Closing
<1>4. CASE \E m \in Message : SendMessage(m)
  BY <1>4, Sending
<1>5. ASSUME NEW n \in 1..Len(wire), ReadyRead(n)
      PROVE  SessionInv'
  <2>1. wire \in Seq(Symbols) /\ buffer \in Seq(Symbols) /\ Len(wire) \in Nat /\ n \in 0..Len(wire)
    BY LenProperties DEF SessionTypeOK
  <2>2. SubSeq(wire, 1, n) \in Seq(Symbols) /\ Cut(wire, n) \in Seq(Symbols)
    BY <2>1, PartTyped, CutIs
  <2>3. Pending' = (buffer \o SubSeq(wire, 1, n)) \o Cut(wire, n)
    BY <1>5 DEF ReadyRead, Pending, Cut
  <2>4. ASSUME NEW a \in Seq(Symbols), NEW b \in Seq(Symbols), NEW c \in Seq(Symbols)
        PROVE  a \o (b \o c) = (a \o b) \o c
    BY ConcatAssociative
  <2>5. Pending' = buffer \o (SubSeq(wire, 1, n) \o Cut(wire, n))
    BY <2>1, <2>2, <2>3, <2>4
  <2>6. Pending' = Pending
    BY <2>1, <2>5, TwoParts DEF Pending
  <2> QED
    BY <1>5, <2>6, Staying DEF ReadyRead, entityVars
<1> QED
  BY <1>1, <1>2, <1>3, <1>4, <1>5

\* When the socket is closed, nothing is parsed any more.
LEMMA ClosingStep ==
  ASSUME SessionTypeOK, SessionInv, conn = "closing", Handler
  PROVE  SessionInv'
<1>1. pc = "headers" /\ state = "line" /\ buffer = <<>>
  BY DEF SessionInv, Closing, Handler, SkipEmptyLine, AwaitRequestLine, BadRequestLine, TakeRequestLine, TakeHeader,
         BadHeader, EndHeadersNoBody, EndHeadersBody, EndHeadersBad, EndOfHeaderLoop, ReadChunkSize, BadChunkSize,
         ReadChunk, AwaitEntity, TakeTrailer, BadTrailer, ChunkedComplete, PlainComplete
<1>2. ~HasLine
  <2>1. DOMAIN buffer = {}
    BY <1>1, EmptySeq, LenProperties
  <2> QED
    BY <1>1, <2>1 DEF HasLine, Contains
<1>3. EndOfHeaderLoop
  BY <1>1, <1>2 DEF Handler, SkipEmptyLine, AwaitRequestLine, BadRequestLine, TakeRequestLine, TakeHeader,
         BadHeader, EndHeadersNoBody, EndHeadersBody, EndHeadersBad, ReadChunkSize, BadChunkSize,
         ReadChunk, AwaitEntity, TakeTrailer, BadTrailer, ChunkedComplete, PlainComplete
<1> QED
  BY <1>1, <1>3 DEF EndOfHeaderLoop, SessionInv, AnswersMatch, Closing

LEMMA NoConnectionStep ==
  ASSUME SessionTypeOK, conn = "none", Handler
  PROVE  FALSE
BY DEF SessionTypeOK, Pooled, Handler, SkipEmptyLine, AwaitRequestLine, BadRequestLine, TakeRequestLine, TakeHeader,
       BadHeader, EndHeadersNoBody, EndHeadersBody, EndHeadersBad, EndOfHeaderLoop, ReadChunkSize, BadChunkSize,
       ReadChunk, AwaitEntity, TakeTrailer, BadTrailer, ChunkedComplete, PlainComplete

\* The loops wait for more, or go from the header lines to the body.
LEMMA WaitingStep ==
  ASSUME SessionTypeOK, SessionInv, conn = "open", AwaitRequestLine \/ AwaitEntity \/ EndOfHeaderLoop
  PROVE  SessionInv'
<1>1. Pending' = Pending
  BY DEF AwaitRequestLine, AwaitEntity, EndOfHeaderLoop, parserVars, Pending
<1> QED
  BY <1>1, Staying DEF AwaitRequestLine, AwaitEntity, EndOfHeaderLoop, parserVars, entityVars

-----------------------------------------------------------------------------
(* Every request is answered: the request line *)

\* An empty line is skipped.
LEMMA Skipped ==
  ASSUME SessionTypeOK, SkipEmptyLine
  PROVE  /\ Pending[1] = EOL /\ Cut(Pending, 1) = Pending' /\ 1 \in 0..Len(Pending)
         /\ UNCHANGED <<conn, pc, state, headers, chunksBuffer, sentMessages, answers>>
<1>1. /\ buffer # <<>> /\ buffer[1] = EOL /\ buffer' = Tail(buffer) /\ wire' = wire
      /\ UNCHANGED <<conn, pc, state, headers, chunksBuffer, sentMessages, answers>>
  BY DEF SkipEmptyLine, entityVars
<1>2. /\ buffer \in Seq(Symbols) /\ wire \in Seq(Symbols) /\ Len(Pending) = Len(buffer) + Len(wire)
      /\ Len(buffer) \in Nat /\ Len(wire) \in Nat /\ \A i \in 1..Len(buffer) : Pending[i] = buffer[i]
  BY PendingTyped
<1>3. 1 \in 1..Len(buffer) /\ 1 \in 0..Len(buffer) /\ 1 \in 0..Len(Pending)
  <2>1. Len(buffer) # 0
    BY <1>1, <1>2, EmptySeq
  <2> QED
    BY <1>2, <2>1
<1>4. Tail(buffer) = Cut(buffer, 1)
  BY <1>1, <1>2, TailIsSubSeq DEF Cut
<1>5. Cut(buffer \o wire, 1) = Cut(buffer, 1) \o wire
  BY <1>2, <1>3, CutConcat
<1> QED
  BY <1>1, <1>2, <1>3, <1>4, <1>5 DEF Pending

\* A line of what is left of an answered request is refused.
LEMMA OldLine ==
  ASSUME SessionTypeOK, HasLine, Line # <<>>, NEW s, NEW k, Left(s, k), Len(s) > 0, Pending[1] = s[1]
  PROVE  Line[1] \notin RequestLines /\ k > 0 /\ HasTrailers(sentMessages[k])
<1>1. 1 \in 1..Len(s)
  BY LenProperties DEF Left
<1>2. Pending[1] # EOL
  BY NoWordLine
<1>3. Line[1] = s[1]
  BY <1>2, SomeLine
<1> QED
  BY <1>1, <1>2, <1>3 DEF Left

LEMMA OldLineRefused ==
  ASSUME SessionTypeOK, SessionInv, conn = "open", BadRequestLine \/ TakeRequestLine, HasLine,
         NEW s, Left(s, Len(answers)), Len(s) > 0, Pending[1] = s[1]
  PROVE  SessionInv'
<1>1. Line # <<>>
  <2>1. Len(Line) = 1 => Line # <<>>
    BY EmptySeq
  <2> QED
    BY <2>1 DEF BadRequestLine, TakeRequestLine, IsRequestLine
<1>2. Line[1] \notin RequestLines /\ Len(answers) > 0 /\ HasTrailers(sentMessages[Len(answers)])
  BY <1>1, OldLine
<1>3. Refuse("BAD_REQUEST") /\ sentMessages' = sentMessages
  <2>1. Line = <<"OPTIONS">> \/ Line = <<"HTTP/2.0">> => Line[1] \in {"OPTIONS", "HTTP/2.0"}
    OBVIOUS
  <2> QED
    BY <1>2, <2>1 DEF BadRequestLine, TakeRequestLine, RequestLines, IsRequestLine
<1>4. AnswerFits(Refused("BAD_REQUEST")) /\ AnswersMatch
  BY <1>2 DEF AnswerFits, SessionInv
<1> QED
  BY <1>3, <1>4, Refusing

\* The request line of the request last sent.
LEMMA RequestLineMet ==
  ASSUME SessionTypeOK, SessionInv, conn = "open", BadRequestLine \/ TakeRequestLine,
         NEW m \in Message, m = sentMessages[Len(sentMessages)], Len(sentMessages) = Len(answers) + 1,
         Before(m), Pending = m.wire
  PROVE  SessionInv'
<1>1. HasLine
  BY DEF BadRequestLine, TakeRequestLine
<1>2. Len(Pending) > 1 /\ Pending[1] = Opening(m) /\ Pending[1] # EOL /\ Pending[2] = EOL
  <2>1. Len(m.wire) \in Nat /\ HeadEnd(m) \in Nat /\ HeadEnd(m) <= Len(m.wire) /\ HeadEnd(m) > 2
        /\ m.wire[1] # EOL /\ m.wire[2] = EOL
    BY MessageIs
  <2> QED
    BY <2>1 DEF Opening
<1>3. Len(Line) = 1 /\ Line[1] = Opening(m) /\ AfterLine \o wire = Cut(m.wire, 2)
  BY <1>1, <1>2, WordLine
<1>4. Len(answers) \in Nat /\ m = sentMessages[Len(answers) + 1] /\ Len(answers) < Len(sentMessages)
  BY LenProperties DEF SessionTypeOK
<1>5. CASE BadRequestLine
  <2>1. PICK st \in {"BAD_REQUEST", "HTTP_VERSION_NOT_SUPPORTED", "NOT_IMPLEMENTED"} :
          Refuse(st) /\ RightAnswer(m, Refused(st))
    <3>1. Line = <<"OPTIONS">> => Line[1] = "OPTIONS"
      OBVIOUS
    <3>2. Line = <<"HTTP/2.0">> => Line[1] = "HTTP/2.0"
      OBVIOUS
    <3>3. CASE ~IsRequestLine /\ Refuse("BAD_REQUEST")
      BY <1>3, <3>3 DEF IsRequestLine, RightAnswer
    <3>4. CASE Line = <<"HTTP/2.0">> /\ Refuse("HTTP_VERSION_NOT_SUPPORTED")
      BY <1>3, <3>2, <3>4 DEF RightAnswer
    <3>5. CASE Line = <<"OPTIONS">> /\ Refuse("NOT_IMPLEMENTED")
      BY <1>3, <3>1, <3>5 DEF RightAnswer
    <3> QED
      BY <1>5, <3>3, <3>4, <3>5 DEF BadRequestLine
  <2>2. AnswerFits(Refused(st)) /\ AnswersMatch /\ sentMessages' = sentMessages
    BY <1>4, <1>5, <2>1 DEF AnswerFits, SessionInv, BadRequestLine
  <2> QED
    BY <2>1, <2>2, Refusing
<1>6. CASE TakeRequestLine
  <2>1. /\ state' = "headers" /\ pc' = "headers" /\ method' = Opening(m) /\ Opening(m) \in Methods
        /\ UNCHANGED <<conn, wire, headers, chunksBuffer, sentMessages, answers>> /\ buffer' = AfterLine
    BY <1>3, <1>6 DEF TakeRequestLine, entityVars
  <2>2. AnswersMatch'
    BY <2>1 DEF SessionInv, AnswersMatch
  <2>3. Pending' = Cut(m.wire, 2)
    BY <1>3, <2>1 DEF Pending
  <2>4. At(m, 2 * 0 + 2)'
    BY <2>3 DEF At
  <2>5. headers' = {m.wire[2 * i + 1] : i \in 1..0} /\ headers' \subseteq Headers /\ chunksBuffer' = <<>>
    <3>1. headers' = {} /\ chunksBuffer' = <<>>
      BY <2>1 DEF Before
    <3>2. {m.wire[2 * i + 1] : i \in 1..0} = {}
      OBVIOUS
    <3> QED
      BY <3>1, <3>2
  <2>6. 0 \in 0..m.fields
    BY MessageIs
  <2>7. InHead(m)'
    BY <2>1, <2>4, <2>5, <2>6 DEF InHead
  <2> QED
    BY <2>1, <2>2, <2>7, StillParsing DEF Parsing
<1> QED
  BY <1>5, <1>6

LEMMA RequestLineStep ==
  ASSUME SessionTypeOK, SessionInv, conn = "open", SkipEmptyLine \/ BadRequestLine \/ TakeRequestLine
  PROVE  SessionInv'
<1>1. pc = "line"
  BY DEF SkipEmptyLine, BadRequestLine, TakeRequestLine
<1>2. CASE Between
  <2>1. Left(Pending, Len(answers)) /\ Len(sentMessages) = Len(answers)
    BY <1>2 DEF Between
  <2>2. CASE SkipEmptyLine
    <3>1. Cut(Pending, 1) = Pending' /\ 1 \in 0..Len(Pending) /\ UNCHANGED <<conn, pc, state, headers, chunksBuffer, sentMessages, answers>>
      BY <2>2, Skipped
    <3>2. PICK s, k : s = Pending' /\ k = Len(sentMessages)
      OBVIOUS
    <3>3. Left(s, k)
      BY <2>1, <3>1, <3>2, LeftLess
    <3>4. Left(s, k)' /\ s = Pending' /\ k = Len(sentMessages')
      BY <3>1, <3>2, <3>3, LeftKept
    <3>5. Left(Pending, Len(sentMessages))'
      BY <3>4 DEF Left
    <3>6. Between'
      BY <1>1, <1>2, <3>1, <3>5 DEF Between
    <3> QED
      BY <3>1, <3>6 DEF SessionInv, Serving, AnswersMatch
  <2>3. CASE BadRequestLine \/ TakeRequestLine
    <3>1. HasLine
      BY <2>3 DEF BadRequestLine, TakeRequestLine
    <3>2. Len(Pending) > 0
      BY <3>1, LineFound, PendingTyped
    <3> QED
      BY <2>1, <2>3, <3>1, <3>2, OldLineRefused
  <2> QED
    BY <2>2, <2>3
<1>3. ASSUME NEW m \in Message, m = sentMessages[Len(sentMessages)], Len(sentMessages) = Len(answers) + 1, Before(m)
      PROVE  SessionInv'
  <2>1. PICK s : Left(s, Len(answers)) /\ Pending = s \o m.wire
    BY <1>3 DEF Before
  <2>2. s \in Seq(Symbols) /\ m.wire \in Seq(Symbols) /\ Len(s) \in Nat /\ m.wire[1] # EOL
    BY <2>1, MessageIs, LenProperties DEF Left
  <2>3. CASE Len(s) = 0
    <3>1. Pending = m.wire
      BY <2>1, <2>2, <2>3, ConcatSimplifications, EmptySeq
    <3>2. ~SkipEmptyLine
      BY <2>2, <3>1, Skipped
    <3> QED
      BY <1>3, <3>1, <3>2, RequestLineMet
  <2>4. CASE Len(s) > 0
    <3>1. Pending[1] = s[1]
      <4>1. 1 \in 1 .. Len(s) + Len(m.wire) /\ 1 <= Len(s)
        BY <2>2, <2>4, LenProperties
      <4> QED
        BY <2>1, <2>2, <4>1, ConcatProperties
    <3>2. CASE SkipEmptyLine
      <4>1. Cut(Pending, 1) = Pending' /\ UNCHANGED <<conn, pc, state, headers, chunksBuffer, sentMessages, answers>>
        BY <3>2, Skipped
      <4>2. 1 \in 0..Len(s)
        BY <2>2, <2>4
      <4>3. Pending' = Cut(s, 1) \o m.wire
        BY <2>1, <2>2, <4>1, <4>2, CutConcat
      <4>4. PICK t, k : t = Cut(s, 1) /\ k = Len(answers)
        OBVIOUS
      <4>5. Left(t, k)
        BY <2>1, <4>2, <4>4, LeftLess
      <4>6. Left(t, k)' /\ k = Len(answers') /\ Pending' = t \o m.wire
        BY <4>1, <4>3, <4>4, <4>5, LeftKept
      <4>7. Left(t, Len(answers))'
        BY <4>6 DEF Left
      <4>8. Before(m)'
        BY <1>1, <1>3, <4>1, <4>6, <4>7 DEF Before
      <4>9. AnswersMatch'
        BY <4>1 DEF SessionInv, AnswersMatch
      <4> QED
        BY <1>3, <4>1, <4>8, <4>9, StillParsing DEF Parsing
    <3>3. CASE BadRequestLine \/ TakeRequestLine
      <4>1. HasLine
        BY <3>3 DEF BadRequestLine, TakeRequestLine
      <4> QED
        BY <2>1, <2>4, <3>1, <3>3, <4>1, OldLineRefused
    <3> QED
      BY <3>2, <3>3
  <2> QED
    BY <2>2, <2>3, <2>4
<1>4. Between \/ (Len(sentMessages) = Len(answers) + 1 /\ Before(sentMessages[Len(sentMessages)]))
  BY <1>1 DEF SessionInv, Serving, Parsing, InHead, InPlain, InChunkedBody
<1>5. Len(sentMessages) = Len(answers) + 1 => sentMessages[Len(sentMessages)] \in Message
  BY LenProperties DEF SessionTypeOK
<1> QED
  BY <1>2, <1>3, <1>4, <1>5

-----------------------------------------------------------------------------
(* Every request is answered: the header lines *)

\* The steps of the loop over the header lines.
HeaderSteps == TakeHeader \/ BadHeader \/ EndHeadersNoBody \/ EndHeadersBody \/ EndHeadersBad

\* The next answer is for the request last sent.
LEMMA ForLast ==
  ASSUME SessionTypeOK, Len(sentMessages) = Len(answers) + 1, NEW a, RightAnswer(sentMessages[Len(sentMessages)], a)
  PROVE  AnswerFits(a)
<1>1. Len(answers) \in Nat
  BY LenProperties DEF SessionTypeOK
<1> QED
  BY <1>1 DEF AnswerFits

LEMMA RefuseLast ==
  ASSUME SessionTypeOK, SessionInv, conn = "open", sentMessages' = sentMessages, Len(sentMessages) = Len(answers) + 1,
         NEW st \in {"BAD_REQUEST", "LENGTH_REQUIRED"}, Refuse(st), RightAnswer(sentMessages[Len(sentMessages)], Refused(st))
  PROVE  SessionInv'
BY ForLast, Refusing DEF SessionInv

\* A header line is read, and not the last one.
LEMMA FieldMet ==
  ASSUME SessionTypeOK, SessionInv, conn = "open", HeaderSteps,
         NEW m \in Message, m = sentMessages[Len(sentMessages)], Len(sentMessages) = Len(answers) + 1, InHead(m),
         NEW j \in 0 .. m.fields - 1, At(m, 2 * j + 2),
         headers = {m.wire[2 * i + 1] : i \in 1..j}, headers \subseteq Headers
  PROVE  SessionInv'
<1> DEFINE w == m.wire[2 * j + 3]
<1>1. HasLine
  BY DEF HeaderSteps, TakeHeader, BadHeader, EndHeadersNoBody, EndHeadersBody, EndHeadersBad
<1>2. j \in Nat /\ m.fields \in Nat /\ j + 1 \in 0..m.fields /\ 2 * (j + 1) + 1 = 2 * j + 3 /\ 2 * (j + 1) + 2 = 2 * j + 4
      /\ 2 * j + 2 \in 0..Len(m.wire) /\ w # EOL /\ m.wire[2 * j + 4] = EOL /\ Len(m.wire) - (2 * j + 2) > 1
  <2>1. m.fields \in Nat /\ Len(m.wire) \in Nat /\ HeadEnd(m) <= Len(m.wire) /\ w # EOL /\ m.wire[2 * j + 4] = EOL
    BY MessageIs
  <2>2. HeadEnd(m) = 2 * m.fields + 3
    BY DEF HeadEnd
  <2> HIDE DEF w
  <2> DEFINE f == m.fields
             n == Len(m.wire)
  <2>3. f \in Nat /\ n \in Nat /\ 2 * f + 3 <= n /\ j \in 0 .. f - 1
    BY <2>1, <2>2
  <2> HIDE DEF f, n
  <2>4. j \in Nat /\ j + 1 \in 0..f /\ 2 * (j + 1) + 1 = 2 * j + 3 /\ 2 * (j + 1) + 2 = 2 * j + 4
        /\ 2 * j + 2 \in 0..n /\ n - (2 * j + 2) > 1
    BY <2>3
  <2> QED
    BY <2>1, <2>4 DEF f, n
<1>3. Len(Pending) > 1 /\ Pending[1] = w /\ Pending[2] = EOL
      /\ Cut(Pending, 2) = Cut(m.wire, 2 * (j + 1) + 2)
  <2>1. /\ Len(Pending) = Len(m.wire) - (2 * j + 2) /\ Len(Pending) \in Nat
        /\ \A i \in 1..Len(Pending) : Pending[i] = m.wire[2 * j + 2 + i]
        /\ \A e \in 0..Len(Pending) : Cut(Pending, e) = Cut(m.wire, 2 * j + 2 + e)
    <3> DEFINE p == 2 * j + 2
    <3>1. p \in 0..Len(m.wire) /\ At(m, p)
      BY <1>2
    <3> HIDE DEF p
    <3>2. /\ Len(Pending) = Len(m.wire) - p /\ Len(Pending) \in Nat
          /\ \A i \in 1..Len(Pending) : Pending[i] = m.wire[p + i]
          /\ \A e \in 0..Len(Pending) : Cut(Pending, e) = Cut(m.wire, p + e)
      BY <3>1, AtIs
    <3> QED
      BY <3>2 DEF p
  <2>2. Len(Pending) > 1 /\ 1 \in 1..Len(Pending) /\ 2 \in 1..Len(Pending) /\ 2 \in 0..Len(Pending)
    <3> DEFINE n == Len(Pending)
    <3>1. n \in Nat /\ n > 1
      BY <1>2, <2>1
    <3> HIDE DEF n
    <3>2. n > 1 /\ 1 \in 1..n /\ 2 \in 1..n /\ 2 \in 0..n
      BY <3>1
    <3> QED
      BY <3>2 DEF n
  <2>3. 2 * j + 2 + 1 = 2 * j + 3 /\ 2 * j + 2 + 2 = 2 * j + 4
    BY <1>2
  <2> QED
    BY <1>2, <2>1, <2>2, <2>3
<1>4. Len(Line) = 1 /\ Line[1] = w /\ Line # <<>> /\ ToSet(Line) = {w} /\ AfterLine \o wire = Cut(m.wire, 2 * (j + 1) + 2)
  BY <1>1, <1>2, <1>3, WordLine
<1>5. w \in FieldsOf(m) /\ headers \subseteq FieldsOf(m)
  <2>1. \A i \in 1 .. j + 1 : i \in 1..m.fields
    BY <1>2
  <2>2. j + 1 \in 1 .. j + 1 /\ \A i \in 1..j : i \in 1 .. j + 1
    BY <1>2
  <2> QED
    BY <1>2, <2>1, <2>2 DEF FieldsOf
<1>6. CASE BadHeader
  <2>1. w \notin Headers /\ Refuse("BAD_REQUEST") /\ sentMessages' = sentMessages
    BY <1>4, <1>6 DEF BadHeader
  <2>2. RightAnswer(m, Refused("BAD_REQUEST"))
    BY <1>5, <2>1 DEF RightAnswer, Understood, InHead
  <2> QED
    BY <2>1, <2>2, RefuseLast
<1>7. CASE TakeHeader
  <2>1. w \in Headers /\ headers' = IF w \in Lengths THEN (headers \ Lengths) \cup {w} ELSE headers \cup {w}
    BY <1>4, <1>7 DEF TakeHeader, HeaderLine
  <2>2. headers' = headers \cup {w}
    <3>1. w \in Lengths => headers \cap Lengths \subseteq {w}
      <4>1. \A g, h \in FieldsOf(m) \cap Lengths : g = h
        BY SessionAssumption
      <4> QED
        BY <1>5, <4>1
    <3> QED
      BY <2>1, <3>1
  <2>3. headers' = {m.wire[2 * i + 1] : i \in 1 .. j + 1} /\ headers' \subseteq Headers
    <3>1. \A i : i \in 1 .. j + 1 <=> i \in 1..j \/ i = j + 1
      BY <1>2
    <3>2. w = m.wire[2 * (j + 1) + 1]
      BY <1>2
    <3> HIDE DEF w
    <3>3. {m.wire[2 * i + 1] : i \in 1 .. j + 1} = {m.wire[2 * i + 1] : i \in 1..j} \cup {m.wire[2 * (j + 1) + 1]}
      BY <3>1
    <3> QED
      BY <2>1, <2>2, <3>2, <3>3
  <2>4. /\ UNCHANGED <<conn, pc, state, method, chunksBuffer, sentMessages, answers>> /\ buffer' = AfterLine /\ wire' = wire
        /\ pc = "headers"
    BY <1>7 DEF TakeHeader, entityVars
  <2>5. At(m, 2 * (j + 1) + 2)'
    BY <1>4, <2>4 DEF At, Pending
  <2>6. InHead(m)'
    BY <1>2, <2>3, <2>4, <2>5 DEF InHead
  <2>7. AnswersMatch'
    BY <2>4 DEF SessionInv, AnswersMatch
  <2> QED
    BY <2>4, <2>6, <2>7, StillParsing DEF Parsing
<1> QED
  BY <1>4, <1>6, <1>7 DEF HeaderSteps, EndHeadersNoBody, EndHeadersBody, EndHeadersBad

\* A request is handed on, and nothing of it but trailing headers is left.
LEMMA HandedOn ==
  ASSUME SessionTypeOK, SessionInv, conn = "open", Len(sentMessages) = Len(answers) + 1,
         NEW text \in Seq(Symbols), OnRequest(text),
         "host" \in headers => RightAnswer(sentMessages[Len(sentMessages)], Served(method, text)),
         "host" \notin headers => RightAnswer(sentMessages[Len(sentMessages)], Refused("BAD_REQUEST")),
         state' = "line", chunksBuffer' = <<>>, buffer' = <<>>, pc' \in {"idle", "headers"},
         NEW s, s = Pending', Left(s, Len(sentMessages))
  PROVE  SessionInv'
<1>1. /\ AnswersMatch' /\ Len(answers') = Len(answers) + 1 /\ sentMessages' = sentMessages
      /\ headers' = {} /\ conn' \in {"open", "closing"}
  BY ForLast, Handing DEF SessionInv
<1>2. PICK k : k = Len(sentMessages)
  OBVIOUS
<1>3. Left(s, k)' /\ k = Len(sentMessages')
  BY <1>1, <1>2, LeftKept
<1>4. Left(Pending, Len(sentMessages))'
  BY <1>3 DEF Left
<1>5. Between'
  BY <1>1, <1>4 DEF Between
<1> QED
  BY <1>1, <1>5 DEF SessionInv, Serving, Closing

\* The empty line behind the header lines.
LEMMA HeadMet ==
  ASSUME SessionTypeOK, SessionInv, conn = "open", HeaderSteps,
         NEW m \in Message, m = sentMessages[Len(sentMessages)], Len(sentMessages) = Len(answers) + 1, InHead(m),
         At(m, 2 * m.fields + 2), headers = FieldsOf(m), headers \subseteq Headers
  PROVE  SessionInv'
<1> DEFINE h == HeadEnd(m)
<1>1. HasLine /\ pc = "headers"
  BY DEF HeaderSteps, TakeHeader, BadHeader, EndHeadersNoBody, EndHeadersBody, EndHeadersBad
<1>2. Opening(m) \in Methods /\ method = Opening(m) /\ chunksBuffer = <<>> /\ Understood(m)
  BY DEF InHead, Understood
<1>3. h \in Nat /\ h <= Len(m.wire) /\ h \in h..Len(m.wire) /\ h \in 0..Len(m.wire) /\ m.wire[h] = EOL
      /\ EntityOf(m) = Cut(m.wire, h) /\ EntityOf(m) \in Seq(Symbols) /\ Len(m.wire) \in Nat
  <2>1. h \in Nat /\ h <= Len(m.wire) /\ m.wire[h] = EOL /\ EntityOf(m) = Cut(m.wire, h) /\ EntityOf(m) \in Seq(Symbols)
        /\ Len(m.wire) \in Nat
    BY MessageIs
  <2> HIDE DEF h
  <2> QED
    BY <2>1
<1>4. Pending[1] = EOL /\ Cut(Pending, 1) = Cut(m.wire, h)
  <2> DEFINE p == 2 * m.fields + 2
  <2>1. p \in Nat /\ h = p + 1
    BY MessageIs DEF HeadEnd
  <2>2. At(m, p)
    OBVIOUS
  <2> HIDE DEF p, h
  <2>3. p \in 0..Len(m.wire) /\ Len(m.wire) - p >= 1
    BY <1>3, <2>1
  <2>4. /\ Len(Pending) = Len(m.wire) - p /\ Len(Pending) \in Nat
        /\ \A i \in 1..Len(Pending) : Pending[i] = m.wire[p + i]
        /\ \A e \in 0..Len(Pending) : Cut(Pending, e) = Cut(m.wire, p + e)
    BY <2>2, <2>3, AtIs
  <2>5. 1 \in 1..Len(Pending) /\ 1 \in 0..Len(Pending)
    <3>1. Len(Pending) \in Nat /\ Len(Pending) >= 1
      BY <2>3, <2>4
    <3> QED
      BY <3>1
  <2> QED
    BY <1>3, <2>1, <2>4, <2>5
<1>5. Line = <<>> /\ AfterLine \o wire = EntityOf(m)
  BY <1>1, <1>3, <1>4, NoWordLine
<1> HIDE DEF h
<1>6. ASSUME UNCHANGED <<conn, method, headers, chunksBuffer, sentMessages, answers>>, Parsing(m)'
      PROVE  SessionInv'
  <2>1. AnswersMatch'
    BY <1>6 DEF SessionInv, AnswersMatch
  <2> QED
    BY <1>6, <2>1, StillParsing
<1>7. CASE EndHeadersNoBody
  <2>1. /\ buffer' = AfterLine /\ state' = "line" /\ OnRequest(<<>>) /\ pc' = pc
        /\ chunksBuffer' = chunksBuffer /\ BodyKind = "none"
    BY <1>7 DEF EndHeadersNoBody, entityVars
  <2>2. ~HasEntity(m)
    BY <1>2, <2>1 DEF BodyKind, HasEntity
  <2>3. Delimited(m) /\ ~InChunks(m)
    BY <1>2, <2>2 DEF Delimited, InChunks
  <2>4. EntityOf(m) = <<>>
    BY <2>2, <2>3, SessionAssumption DEF BodyFits
  <2>5. wire' = wire
    BY <2>1 DEF OnRequest
  <2>6. AfterLine \in Seq(Symbols) /\ wire \in Seq(Symbols)
    BY <1>1, LineTyped DEF SessionTypeOK
  <2>7. Pending' = <<>> /\ buffer' = <<>>
    BY <1>5, <2>1, <2>4, <2>5, <2>6, ConcatSimplifications DEF Pending
  <2>8. "host" \in headers => RightAnswer(m, Served(method, <<>>))
    BY <1>2, <2>3, <2>4 DEF RightAnswer
  <2>9. "host" \notin headers => RightAnswer(m, Refused("BAD_REQUEST"))
    BY <2>3 DEF RightAnswer
  <2>10. <<>> \in Seq(Symbols) /\ Left(<<>>, Len(sentMessages))
    BY NothingLeft, EmptySeq
  <2> QED
    BY <1>1, <1>2, <2>1, <2>7, <2>8, <2>9, <2>10, HandedOn
<1>8. CASE EndHeadersBody
  <2>1. /\ buffer' = AfterLine /\ state' = "body" /\ BodyKind \in {"plain", "chunked"}
        /\ IF BodyKind = "plain"
           THEN /\ entitySize' = LengthIn[CHOOSE x \in headers \cap Lengths : TRUE]
                /\ chunkedEntity' = 0
           ELSE chunkedEntity' = CHUNK_SIZE
        /\ UNCHANGED <<conn, wire, pc, method, headers, chunksBuffer, sentMessages, answers>>
    BY <1>8 DEF EndHeadersBody
  <2>2. At(m, h)'
    BY <1>3, <1>5, <2>1 DEF At, Pending
  <2>3. HasEntity(m) /\ WellTyped(m)
    BY <1>2, <2>1 DEF BodyKind, HasEntity, WellTyped
  <2>4. CASE BodyKind = "plain"
    <3>1. Measured(m)
      BY <2>4 DEF BodyKind, Measured
    <3>2. Delimited(m)
      BY <1>2, <2>3, <3>1 DEF Delimited
    <3>3. entitySize' = Len(EntityOf(m)) /\ chunkedEntity' = 0
      <4>1. (CHOOSE x \in headers \cap Lengths : TRUE) \in FieldsOf(m) \cap Lengths
        BY <3>1 DEF Measured
      <4> QED
        BY <2>1, <2>3, <2>4, <3>1, <3>2, <4>1, SessionAssumption DEF BodyFits
    <3>4. "type" \in headers
      BY <2>3 DEF WellTyped
    <3>5. InPlain(m)'
      BY <1>1, <1>2, <1>3, <2>1, <2>2, <2>3, <3>1, <3>2, <3>3, <3>4 DEF InPlain, h
    <3> QED
      BY <1>6, <2>1, <3>5 DEF Parsing
  <2>5. CASE BodyKind # "plain"
    <3>1. InChunks(m)
      BY <1>2, <2>1, <2>3, <2>5 DEF BodyKind, InChunks, Measured
    <3>2. Delimited(m)
      BY <1>2, <2>3, <3>1 DEF Delimited
    <3>3. InChunkedBody(m)'
      BY <1>1, <1>2, <2>1, <2>2, <2>5, <3>1, <3>2 DEF InChunkedBody, h
    <3> QED
      BY <1>6, <2>1, <3>3 DEF Parsing
  <2> QED
    BY <2>4, <2>5
<1>9. CASE EndHeadersBad
  <2>1. Refuse(BodyKind) /\ BodyKind \in {"BAD_REQUEST", "LENGTH_REQUIRED"} /\ sentMessages' = sentMessages
    BY <1>9 DEF EndHeadersBad
  <2>2. HasEntity(m)
    BY <1>2, <2>1 DEF BodyKind, HasEntity
  <2>3. CASE BodyKind = "BAD_REQUEST"
    <3>1. ~WellTyped(m)
      BY <2>1, <2>3 DEF BodyKind, WellTyped
    <3>2. RightAnswer(m, Refused("BAD_REQUEST"))
      BY <1>2, <2>2, <3>1 DEF RightAnswer
    <3> QED
      BY <2>1, <2>3, <3>2, RefuseLast
  <2>4. CASE BodyKind = "LENGTH_REQUIRED"
    <3>1. WellTyped(m) /\ ~Measured(m) /\ "chunked" \notin FieldsOf(m)
      BY <2>1, <2>4 DEF BodyKind, WellTyped, Measured
    <3>2. RightAnswer(m, Refused("LENGTH_REQUIRED"))
      BY <1>2, <2>2, <3>1 DEF RightAnswer, Delimited, InChunks
    <3> QED
      BY <2>1, <2>4, <3>2, RefuseLast
  <2> QED
    BY <2>1, <2>3, <2>4
<1> QED
  BY <1>5, <1>7, <1>8, <1>9 DEF HeaderSteps, TakeHeader, BadHeader, HeaderLine

\* A line of a body.
LEMMA BodyLine ==
  ASSUME SessionTypeOK, HasLine, NEW m \in Message, NEW p \in HeadEnd(m) .. Len(m.wire), At(m, p)
  PROVE  /\ EOL \in ToSet(EntityOf(m))
         /\ \E q \in HeadEnd(m) + 1 .. Len(m.wire) : q > p /\ AfterLine \o wire = Cut(m.wire, q)
         /\ Line # <<>> => Line[1] \in ToSet(EntityOf(m))
<1>1. PICK e \in 1..Len(buffer) : LineEnds(e) /\ e <= Len(Pending)
  BY LineFound
<1>2. HeadEnd(m) \in Nat /\ Len(m.wire) \in Nat /\ Len(buffer) \in Nat /\ Pending \in Seq(Symbols)
  BY MessageIs, PendingTyped
<1>3. p \in 0..Len(m.wire) /\ p \in Nat /\ p >= HeadEnd(m)
  BY <1>2
<1>4. Len(Pending) \in Nat /\ \A i \in 0..Len(Pending) : Cut(Pending, i) = Cut(m.wire, p + i) /\ p + i \in 0..Len(m.wire)
  BY <1>3, AtIs
<1>5. e \in Nat /\ e >= 1 /\ e \in 1..Len(Pending) /\ e \in 0..Len(Pending)
  BY <1>1, <1>2, <1>4
<1>6. EOL \in ToSet(EntityOf(m))
  BY <1>1, <1>5, InBody DEF LineEnds
<1>7. p + e \in HeadEnd(m) + 1 .. Len(m.wire) /\ p + e > p
  BY <1>2, <1>3, <1>4, <1>5
<1>8. AfterLine \o wire = Cut(m.wire, p + e)
  BY <1>1, <1>4, <1>5 DEF LineEnds
<1>9. Line # <<>> => Line[1] \in ToSet(EntityOf(m))
  <2>1. Line # <<>> => Line[1] = Pending[1]
    BY SomeLine, NoWordLine
  <2>2. 1 \in 1..Len(Pending)
    BY <1>4, <1>5
  <2> QED
    BY <2>1, <2>2, InBody
<1> QED
  BY <1>6, <1>7, <1>8, <1>9

\* The header loop comes upon a line of the body.
LEMMA BodyLineMet ==
  ASSUME SessionTypeOK, SessionInv, conn = "open", HeaderSteps,
         NEW m \in Message, m = sentMessages[Len(sentMessages)], Len(sentMessages) = Len(answers) + 1, InPlain(m)
  PROVE  SessionInv'
<1>1. HasLine /\ pc = "headers"
  BY DEF HeaderSteps, TakeHeader, BadHeader, EndHeadersNoBody, EndHeadersBody, EndHeadersBad
<1>2. /\ state = "body" /\ chunksBuffer = <<>> /\ method = Opening(m)
      /\ Delimited(m) /\ HasEntity(m) /\ Measured(m) /\ WellTyped(m)
      /\ chunkedEntity = 0 /\ entitySize = Len(EntityOf(m))
      /\ "type" \in headers /\ headers \cap Lengths = FieldsOf(m) \cap Lengths
  BY DEF InPlain, Delimited
<1>3. PICK p \in HeadEnd(m) .. Len(m.wire) : At(m, p)
  BY DEF InPlain
<1>4. EOL \in ToSet(EntityOf(m)) /\ (Line # <<>> => Line[1] \in ToSet(EntityOf(m)))
  BY <1>1, <1>3, BodyLine
<1>5. PICK q \in HeadEnd(m) + 1 .. Len(m.wire) : AfterLine \o wire = Cut(m.wire, q)
  BY <1>1, <1>3, BodyLine
<1>6. q \in HeadEnd(m) .. Len(m.wire) /\ q # HeadEnd(m)
  <2>1. HeadEnd(m) \in Nat /\ Len(m.wire) \in Nat
    BY MessageIs
  <2> QED
    BY <2>1
<1>7. ToSet(EntityOf(m)) \cap Lengths = {}
  BY <1>2, <1>4, SessionAssumption DEF BodyFits
<1>8. ASSUME /\ UNCHANGED <<conn, wire, pc, method, chunksBuffer, sentMessages, answers>> /\ state' = "body"
             /\ buffer' = AfterLine /\ chunkedEntity' = 0 /\ entitySize' = Len(EntityOf(m))
             /\ "type" \in headers' /\ headers' \cap Lengths = FieldsOf(m) \cap Lengths
      PROVE  SessionInv'
  <2>1. At(m, q)'
    BY <1>5, <1>8 DEF At, Pending
  <2>2. InPlain(m)'
    BY <1>1, <1>2, <1>4, <1>6, <1>8, <2>1 DEF InPlain
  <2>3. AnswersMatch'
    BY <1>8 DEF SessionInv, AnswersMatch
  <2> QED
    BY <1>8, <2>2, <2>3, StillParsing DEF Parsing
<1>9. BodyKind = "plain"
  <2>1. method \in {"POST", "NOTIFY"} /\ "lenx" \notin headers
    BY <1>2 DEF HasEntity, WellTyped, Lengths
  <2> QED
    BY <1>2, <2>1 DEF BodyKind, Measured
<1>10. CASE TakeHeader
  <2> DEFINE h == IF Len(Line) = 1 THEN Line[1] ELSE "colon"
  <2>1. Line # <<>> /\ headers' = IF h \in Lengths THEN (headers \ Lengths) \cup {h} ELSE headers \cup {h}
    BY <1>10 DEF TakeHeader, HeaderLine
  <2>2. h \notin Lengths
    BY <1>4, <1>7, <2>1 DEF Lengths
  <2> HIDE DEF h
  <2>3. "type" \in headers' /\ headers' \cap Lengths = FieldsOf(m) \cap Lengths
    BY <1>2, <2>1, <2>2
  <2> QED
    BY <1>2, <1>8, <1>10, <2>3 DEF TakeHeader, entityVars
<1>11. CASE BadHeader
  <2>1. Refuse("BAD_REQUEST") /\ sentMessages' = sentMessages
    BY <1>11 DEF BadHeader
  <2>2. RightAnswer(m, Refused("BAD_REQUEST"))
    BY <1>2, <1>4 DEF RightAnswer
  <2> QED
    BY <2>1, <2>2, RefuseLast
<1>12. CASE EndHeadersBody
  <2>1. /\ buffer' = AfterLine /\ state' = "body" /\ chunkedEntity' = 0
        /\ entitySize' = LengthIn[CHOOSE x \in headers \cap Lengths : TRUE]
        /\ UNCHANGED <<conn, wire, pc, method, headers, chunksBuffer, sentMessages, answers>>
    BY <1>9, <1>12 DEF EndHeadersBody
  <2>2. (CHOOSE x \in headers \cap Lengths : TRUE) \in FieldsOf(m) \cap Lengths
    BY <1>2 DEF Measured
  <2>3. entitySize' = Len(EntityOf(m))
    BY <1>2, <2>1, <2>2, SessionAssumption DEF BodyFits
  <2> QED
    BY <1>2, <1>8, <2>1, <2>3
<1>13. ~EndHeadersNoBody /\ ~EndHeadersBad
  BY <1>9 DEF EndHeadersNoBody, EndHeadersBad
<1> QED
  BY <1>10, <1>11, <1>12, <1>13 DEF HeaderSteps

\* A body that comes in chunks begins with a line of one word.
LEMMA ChunkedShape ==
  ASSUME NEW m \in Message, Delimited(m), InChunks(m)
  PROVE  /\ HasEntity(m) /\ Len(EntityOf(m)) \in Nat /\ Len(EntityOf(m)) > 2
         /\ EntityOf(m)[1] \in ChunkSizes /\ EntityOf(m)[2] = EOL
         /\ EntityOf(m)[1] = "1" => Len(EntityOf(m)) > 3 /\ EntityOf(m)[4] = EOL
         /\ EntityOf(m)[1] = "0" => Last(EntityOf(m)) = EOL /\ ToSet(EntityOf(m)) \cap (RequestLines \cup {"host"}) = {}
<1>1. BodyFits(m)
  BY SessionAssumption
<1>2. Len(EntityOf(m)) \in Nat
  BY MessageIs, LenProperties
<1> QED
  BY <1>1, <1>2 DEF BodyFits, InChunks

LEMMA ChunkSizeLine ==
  ASSUME SessionTypeOK, HasLine, NEW m \in Message, Delimited(m), InChunks(m), At(m, HeadEnd(m))
  PROVE  /\ Len(Line) = 1 /\ Line[1] = EntityOf(m)[1] /\ Line # <<>> /\ ToSet(Line) = {EntityOf(m)[1]}
         /\ AfterLine \o wire = Cut(m.wire, HeadEnd(m) + 2) /\ HeadEnd(m) + 2 <= Len(m.wire)
<1> DEFINE h == HeadEnd(m)
<1>1. h \in Nat /\ Len(m.wire) \in Nat /\ h \in 0..Len(m.wire) /\ EntityOf(m) = Cut(m.wire, h)
      /\ Len(EntityOf(m)) = Len(m.wire) - h
  <2>1. h \in Nat /\ Len(m.wire) \in Nat /\ h <= Len(m.wire) /\ EntityOf(m) = Cut(m.wire, h)
        /\ Len(EntityOf(m)) = Len(m.wire) - h
    BY MessageIs
  <2> HIDE DEF h
  <2> QED
    BY <2>1
<1> HIDE DEF h
<1>2. Pending = EntityOf(m)
  BY <1>1 DEF At, h
<1>3. Len(EntityOf(m)) > 2 /\ EntityOf(m)[1] \in ChunkSizes /\ EntityOf(m)[2] = EOL
  BY ChunkedShape
<1>4. Len(Pending) > 1 /\ Pending[1] # EOL /\ Pending[2] = EOL
  <2>1. EntityOf(m)[1] # EOL
    BY <1>3 DEF ChunkSizes, EOL
  <2>2. Len(EntityOf(m)) > 1
    BY <1>1, <1>3
  <2> QED
    BY <1>2, <1>3, <2>1, <2>2
<1>5. /\ Len(Line) = 1 /\ Line[1] = Pending[1] /\ Line # <<>> /\ ToSet(Line) = {Pending[1]}
      /\ AfterLine \o wire = Cut(Pending, 2)
  BY <1>4, WordLine
<1>6. Cut(Pending, 2) = Cut(m.wire, h + 2)
  <2>1. 2 \in 0..Len(Pending)
    BY <1>1, <1>2, <1>3
  <2>2. \A e \in 0..Len(Pending) : Cut(Pending, e) = Cut(m.wire, h + e)
    BY <1>1, AtIs DEF h
  <2> QED
    BY <2>1, <2>2
<1>7. h + 2 <= Len(m.wire)
  BY <1>1, <1>3
<1> QED
  BY <1>2, <1>5, <1>6, <1>7 DEF h

LEMMA ChunkLineMet ==
  ASSUME SessionTypeOK, SessionInv, conn = "open", HeaderSteps,
         NEW m \in Message, m = sentMessages[Len(sentMessages)], Len(sentMessages) = Len(answers) + 1, InChunkedBody(m)
  PROVE  SessionInv'
<1>1. HasLine /\ pc = "headers"
  BY DEF HeaderSteps, TakeHeader, BadHeader, EndHeadersNoBody, EndHeadersBody, EndHeadersBad
<1>2. Delimited(m) /\ InChunks(m) /\ At(m, HeadEnd(m))
  BY <1>1 DEF InChunkedBody
<1>3. Line # <<>> /\ ToSet(Line) \cap Headers = {}
  <2>1. Line # <<>> /\ ToSet(Line) = {EntityOf(m)[1]} /\ EntityOf(m)[1] \in ChunkSizes
    BY <1>1, <1>2, ChunkSizeLine, ChunkedShape
  <2>2. ChunkSizes \cap Headers = {}
    BY DEF ChunkSizes, Headers, Lengths
  <2> QED
    BY <2>1, <2>2
<1>4. BadHeader
  BY <1>3 DEF HeaderSteps, TakeHeader, HeaderLine, EndHeadersNoBody, EndHeadersBody, EndHeadersBad
<1>5. RightAnswer(m, Refused("BAD_REQUEST"))
  BY <1>2 DEF RightAnswer, InChunks
<1> QED
  BY <1>4, <1>5, RefuseLast DEF BadHeader

LEMMA HeaderLoopStep ==
  ASSUME SessionTypeOK, SessionInv, conn = "open", HeaderSteps
  PROVE  SessionInv'
<1>1. HasLine /\ pc = "headers"
  BY DEF HeaderSteps, TakeHeader, BadHeader, EndHeadersNoBody, EndHeadersBody, EndHeadersBad
<1>2. buffer # <<>>
  <2>1. buffer = <<>> => DOMAIN buffer = {}
    BY EmptySeq, LenProperties
  <2> QED
    BY <1>1, <2>1 DEF HasLine, Contains
<1>3. Len(sentMessages) = Len(answers) + 1 /\ Parsing(sentMessages[Len(sentMessages)])
  BY <1>1, <1>2 DEF SessionInv, Serving, Between
<1>4. PICK m \in Message : m = sentMessages[Len(sentMessages)]
  BY <1>3, LenProperties DEF SessionTypeOK
<1>5. CASE InHead(m)
  <2>1. PICK j \in 0..m.fields :
          At(m, 2 * j + 2) /\ headers = {m.wire[2 * i + 1] : i \in 1..j} /\ headers \subseteq Headers
    BY <1>5 DEF InHead
  <2>2. m.fields \in Nat
    BY MessageIs
  <2>3. CASE j = m.fields
    BY <1>3, <1>4, <1>5, <2>1, <2>3, HeadMet DEF FieldsOf
  <2>4. CASE j # m.fields
    <3>1. j \in 0 .. m.fields - 1
      BY <2>2, <2>4
    <3> QED
      BY <1>3, <1>4, <1>5, <2>1, <3>1, FieldMet
  <2> QED
    BY <2>3, <2>4
<1>6. ~Before(m)
  BY <1>1 DEF Before
<1> QED
  BY <1>3, <1>4, <1>5, <1>6, BodyLineMet, ChunkLineMet DEF Parsing

-----------------------------------------------------------------------------
(* Every request is answered: the body *)

\* The steps of the loop of atEnd.
BodySteps ==
  ReadChunkSize \/ BadChunkSize \/ ReadChunk \/ TakeTrailer \/ BadTrailer \/ ChunkedComplete \/ PlainComplete

\* A plain body is whole when there is enough for it.
LEMMA BodyMet ==
  ASSUME SessionTypeOK, SessionInv, conn = "open", BodySteps,
         NEW m \in Message, m = sentMessages[Len(sentMessages)], Len(sentMessages) = Len(answers) + 1, InPlain(m)
  PROVE  SessionInv'
<1> DEFINE b == EntityOf(m)
<1>1. /\ chunksBuffer = <<>> /\ method = Opening(m)
      /\ Delimited(m) /\ HasEntity(m) /\ Measured(m) /\ chunkedEntity = 0 /\ entitySize = Len(b)
  BY DEF InPlain
<1>2. PlainComplete
  BY <1>1 DEF BodySteps, ReadChunkSize, BadChunkSize, ReadChunk, TakeTrailer, BadTrailer, ChunkedComplete,
         CHUNK_SIZE, CHUNK, TRAILING_HEADERS
<1>3. PICK p \in HeadEnd(m) .. Len(m.wire) : At(m, p) /\ (p = HeadEnd(m) => headers = FieldsOf(m))
  BY DEF InPlain
<1>4. /\ HeadEnd(m) \in Nat /\ Len(m.wire) \in Nat /\ b = Cut(m.wire, HeadEnd(m)) /\ b \in Seq(Symbols)
      /\ Len(b) = Len(m.wire) - HeadEnd(m)
  BY MessageIs
<1>5. /\ buffer \in Seq(Symbols) /\ wire \in Seq(Symbols)
      /\ Len(buffer) \in Nat /\ Len(wire) \in Nat /\ Len(Pending) = Len(buffer) + Len(wire)
  BY PendingTyped
<1>6. Len(Pending) = Len(m.wire) - p
  <2>1. p \in 0..Len(m.wire)
    BY <1>4
  <2> QED
    BY <1>3, <2>1, AtIs
<1>7. Len(buffer) >= Len(b)
  BY <1>1, <1>2 DEF PlainComplete, EnoughForEntity
<1>8. Len(wire) = 0 /\ p = HeadEnd(m) /\ Len(buffer) = Len(b)
  <2> HIDE DEF b
  <2> QED
    BY <1>4, <1>5, <1>6, <1>7
<1>9. wire = <<>> /\ buffer = b
  <2>1. wire = <<>>
    BY <1>5, <1>8, EmptySeq
  <2>2. Pending = buffer
    BY <1>5, <2>1, ConcatSimplifications, EmptySeq DEF Pending
  <2> QED
    BY <1>3, <1>4, <1>8, <2>1, <2>2 DEF At
<1>10. SubSeq(buffer, 1, entitySize) = b
  <2> HIDE DEF b
  <2>1. \A i \in 1..Len(b) : b[i] \in Symbols
    BY <1>4, LenProperties
  <2>2. Len(b) \in Nat /\ Len(b) \in Int
    BY <1>5, <1>8
  <2> DEFINE n == Len(b)
  <2> HIDE DEF n
  <2>3. /\ SubSeq(b, 1, n) \in Seq(Symbols)
        /\ Len(SubSeq(b, 1, n)) = IF 1 <= n THEN n - 1 + 1 ELSE 0
        /\ \A i \in 1 .. n - 1 + 1 : SubSeq(b, 1, n)[i] = b[1 + i - 1]
    BY <2>1, <2>2, SubSeqProperties DEF n
  <2>4. Len(SubSeq(b, 1, n)) = n /\ \A i \in 1..n : SubSeq(b, 1, n)[i] = b[i]
    BY <2>2, <2>3 DEF n
  <2>5. SubSeq(b, 1, n) = b
    BY <1>4, <2>3, <2>4, SeqEqual DEF n
  <2> QED
    BY <1>1, <1>9, <2>5 DEF n
<1>11. /\ buffer' = <<>> /\ state' = "line" /\ pc' = "idle" /\ chunksBuffer' = <<>> /\ OnRequest(b)
  BY <1>1, <1>2, <1>10 DEF PlainComplete, EntityComplete
<1>12. Pending' = <<>>
  <2>1. wire' = <<>>
    BY <1>9, <1>11 DEF OnRequest
  <2> QED
    BY <1>11, <2>1, ConcatSimplifications, EmptySeq DEF Pending
<1>13. headers = FieldsOf(m) /\ ~InChunks(m)
  BY <1>1, <1>3, <1>8 DEF InChunks
<1>14. "host" \in headers => RightAnswer(m, Served(method, b))
  BY <1>1, <1>13 DEF RightAnswer
<1>15. "host" \notin headers => RightAnswer(m, Refused("BAD_REQUEST"))
  BY <1>1, <1>13 DEF RightAnswer
<1> HIDE DEF b
<1> QED
  BY <1>4, <1>11, <1>12, <1>14, <1>15, NothingLeft, HandedOn

\* What is behind the end of a body in chunks.
LEMMA LeftBehind ==
  ASSUME SessionTypeOK, NEW m \in Message, m = sentMessages[Len(sentMessages)], Len(sentMessages) > 0, Delimited(m), InChunks(m),
         EntityOf(m)[1] = "0", NEW p \in HeadEnd(m) + 2 .. Len(m.wire), At(m, p)
  PROVE  Left(wire, Len(sentMessages))
<1> DEFINE b == EntityOf(m)
           h == HeadEnd(m)
           n == Len(wire)
           k == Len(buffer)
<1>1. h \in Nat /\ Len(m.wire) \in Nat /\ Len(b) = Len(m.wire) - h /\ b \in Seq(Symbols)
      /\ \A i \in 1..Len(b) : b[i] = m.wire[h + i]
  BY MessageIs
<1>2. wire \in Seq(Symbols) /\ buffer \in Seq(Symbols) /\ k \in Nat /\ n \in Nat
  BY PendingTyped
<1>3. Len(Pending) = k + n /\ \A i \in 1 .. k + n : Pending[i] = IF i <= k THEN buffer[i] ELSE wire[i - k]
  BY <1>2, ConcatProperties DEF Pending
<1>4. Last(b) = EOL /\ ToSet(b) \cap (RequestLines \cup {"host"}) = {}
  BY ChunkedShape
<1>5. Last(b) = b[Len(b)]
  BY DEF Last
<1> HIDE DEF b, h, n, k
<1>6. p \in 0..Len(m.wire) /\ p \in h..Len(m.wire) /\ p \in Nat /\ p >= h + 2 /\ p <= Len(m.wire)
  BY <1>1 DEF h
<1>7. Len(Pending) = Len(m.wire) - p /\ \A i \in 1..Len(Pending) : Pending[i] = m.wire[p + i]
  BY <1>6, AtIs
<1>8. ASSUME NEW i \in 1..n
      PROVE  wire[i] \in ToSet(b) /\ (i = n => wire[i] = EOL)
  <2>1. k + i \in 1 .. k + n /\ ~(k + i <= k) /\ k + i - k = i
    BY <1>2
  <2>2. wire[i] = Pending[k + i]
    <3>1. PICK j : j = k + i
      OBVIOUS
    <3>2. Pending[j] = IF j <= k THEN buffer[j] ELSE wire[j - k]
      BY <1>3, <2>1, <3>1
    <3>3. ~(j <= k) /\ j - k = i
      BY <1>2, <2>1, <3>1
    <3>4. Pending[j] = wire[i]
      BY <3>2, <3>3
    <3> QED
      BY <3>1, <3>4
  <2>3. Pending[k + i] \in ToSet(b)
    BY <1>3, <1>6, <2>1, InBody DEF b, h
  <2>4. CASE i = n
    <3>1. Pending[k + i] = m.wire[p + (k + i)]
      BY <1>3, <1>7, <2>1
    <3>2. p + (k + i) = h + Len(b) /\ Len(b) \in 1..Len(b)
      <4> DEFINE l == Len(b)
                 w == Len(m.wire)
      <4>1. l = w - h /\ k + n = w - p /\ h \in Nat /\ w \in Nat /\ k \in Nat /\ p \in Nat /\ p >= h + 2
        BY <1>1, <1>2, <1>3, <1>6, <1>7
      <4> HIDE DEF l, w
      <4>2. n \in Nat /\ i \in 1..n /\ i = n
        BY <1>2, <2>4
      <4>3. p + (k + i) = h + l /\ l \in 1..l
        BY <4>1, <4>2
      <4> QED
        BY <4>3 DEF l
    <3> QED
      BY <1>1, <1>4, <1>5, <2>2, <2>3, <3>1, <3>2
  <2> QED
    BY <2>2, <2>3, <2>4
<1>9. wire # <<>> => n \in 1..n
  BY <1>2, EmptySeq DEF n
<1>10. ASSUME NEW i \in 1..n, wire[i] # EOL
       PROVE  HasTrailers(m)
  <2>1. i # n
    BY <1>8, <1>10
  <2>2. n >= 2
    BY <1>2, <2>1
  <2>3. Len(b) > 3
    BY <1>1, <1>2, <1>3, <1>6, <1>7, <2>2
  <2> QED
    BY <2>3 DEF HasTrailers, b
<1> QED
  BY <1>2, <1>4, <1>8, <1>9, <1>10 DEF Left, n

\* A body in chunks, part by part.
LEMMA ChunkMet ==
  ASSUME SessionTypeOK, SessionInv, conn = "open", BodySteps,
         NEW m \in Message, m = sentMessages[Len(sentMessages)], Len(sentMessages) = Len(answers) + 1, InChunkedBody(m)
  PROVE  SessionInv'
<1> DEFINE h == HeadEnd(m)
           b == EntityOf(m)
<1>1. /\ pc = "body" /\ state = "body" /\ method = Opening(m) /\ Delimited(m) /\ InChunks(m) /\ HasEntity(m)
      /\ "host" \in headers => "host" \in FieldsOf(m)
  BY DEF InChunkedBody, InChunks, BodySteps, ReadChunkSize, BadChunkSize, ReadChunk, TakeTrailer, BadTrailer,
         ChunkedComplete, PlainComplete
<1>2. h \in Nat /\ Len(m.wire) \in Nat /\ Len(b) = Len(m.wire) - h
      /\ \A i \in 1..Len(b) : b[i] = m.wire[h + i]
  BY MessageIs
<1>3. /\ Len(b) \in Nat /\ Len(b) > 2 /\ b[1] \in ChunkSizes /\ b[2] = EOL
      /\ b[1] = "1" => Len(b) > 3 /\ b[4] = EOL
      /\ b[1] = "0" => ToSet(b) \cap (RequestLines \cup {"host"}) = {}
  BY <1>1, ChunkedShape
<1>4. RightAnswer(m, Refused("BAD_REQUEST"))
  BY <1>1 DEF RightAnswer
<1>5. ASSUME UNCHANGED <<conn, wire, pc, state, method, sentMessages, answers>>, InChunkedBody(m)'
      PROVE  SessionInv'
  <2>1. AnswersMatch'
    BY <1>5 DEF SessionInv, AnswersMatch
  <2> QED
    BY <1>5, <2>1, StillParsing DEF Parsing
<1> HIDE DEF h, b
<1>6. CASE chunkedEntity = CHUNK_SIZE /\ chunksBuffer = <<>> /\ At(m, h)
  <2>1. HasLine /\ (ReadChunkSize \/ BadChunkSize)
    BY <1>6 DEF BodySteps, ReadChunkSize, BadChunkSize, ReadChunk, TakeTrailer, BadTrailer, ChunkedComplete,
           PlainComplete, PlainEntity, CHUNK_SIZE, CHUNK, TRAILING_HEADERS
  <2>2. Len(Line) = 1 /\ Line[1] = b[1] /\ AfterLine \o wire = Cut(m.wire, h + 2) /\ h + 2 <= Len(m.wire)
    BY <1>1, <1>6, <2>1, ChunkSizeLine DEF h, b
  <2>3. ReadChunkSize
    BY <1>3, <2>1, <2>2 DEF BadChunkSize
  <2>4. /\ buffer' = AfterLine /\ entitySize' = LengthIn[b[1]]
        /\ chunkedEntity' = IF entitySize' = 0 THEN TRAILING_HEADERS ELSE CHUNK
        /\ UNCHANGED <<conn, wire, pc, state, method, headers, chunksBuffer, sentMessages, answers>>
    BY <2>2, <2>3 DEF ReadChunkSize
  <2>5. At(m, h + 2)'
    BY <2>2, <2>4 DEF At, Pending
  <2>6. CASE b[1] = "1"
    <3>1. entitySize' = 1 /\ chunkedEntity' = CHUNK
      BY <2>4, <2>6 DEF LengthIn
    <3>2. InChunkedBody(m)'
      BY <1>1, <2>4, <2>5, <2>6, <3>1 DEF InChunkedBody, h, b
    <3> QED
      BY <1>5, <2>4, <3>2
  <2>7. CASE b[1] = "0"
    <3>1. entitySize' = 0 /\ chunkedEntity' = TRAILING_HEADERS
      BY <2>4, <2>7 DEF LengthIn
    <3>2. h + 2 \in h + 2 .. Len(m.wire)
      BY <1>2, <2>2
    <3>3. InChunkedBody(m)'
      BY <1>1, <1>6, <2>4, <2>5, <2>7, <3>1, <3>2 DEF InChunkedBody, h, b
    <3> QED
      BY <1>5, <2>4, <3>3
  <2> QED
    BY <1>3, <2>6, <2>7 DEF ChunkSizes
<1>7. CASE chunkedEntity = CHUNK /\ entitySize = 1 /\ At(m, h + 2) /\ b[1] = "1"
  <2>1. ReadChunk
    BY <1>7 DEF BodySteps, ReadChunkSize, BadChunkSize, TakeTrailer, BadTrailer, ChunkedComplete,
           PlainComplete, PlainEntity, CHUNK_SIZE, CHUNK, TRAILING_HEADERS
  <2>2. /\ Len(buffer) >= 1 /\ buffer' = Cut(buffer, 1) /\ chunkedEntity' = CHUNK_SIZE
        /\ UNCHANGED <<conn, wire, pc, state, method, headers, sentMessages, answers>>
    BY <1>7, <2>1 DEF ReadChunk, Cut
  <2>3. /\ buffer \in Seq(Symbols) /\ wire \in Seq(Symbols)
        /\ Len(buffer) \in Nat /\ Len(wire) \in Nat /\ Len(Pending) = Len(buffer) + Len(wire)
    BY PendingTyped
  <2>4. 1 \in 0..Len(buffer) /\ 1 \in 0..Len(Pending)
    BY <2>2, <2>3
  <2>5. Cut(buffer \o wire, 1) = Cut(buffer, 1) \o wire
    BY <2>3, <2>4, CutConcat
  <2>6. Cut(Pending, 1) = Cut(m.wire, h + 3)
    <3>1. h + 2 \in 0..Len(m.wire) /\ h + 2 + 1 = h + 3
      BY <1>2, <1>3
    <3>2. \A e \in 0..Len(Pending) : Cut(Pending, e) = Cut(m.wire, h + 2 + e)
      BY <1>7, <3>1, AtIs
    <3> QED
      BY <2>4, <3>1, <3>2
  <2>7. At(m, h + 3)'
    BY <2>2, <2>5, <2>6 DEF At, Pending
  <2>8. InChunkedBody(m)'
    BY <1>1, <1>7, <2>2, <2>7 DEF InChunkedBody, h, b
  <2> QED
    BY <1>5, <2>2, <2>8
<1>8. CASE chunkedEntity = CHUNK_SIZE /\ At(m, h + 3) /\ b[1] = "1"
  <2>1. HasLine /\ (ReadChunkSize \/ BadChunkSize)
    BY <1>8 DEF BodySteps, ReadChunkSize, BadChunkSize, ReadChunk, TakeTrailer, BadTrailer, ChunkedComplete,
           PlainComplete, PlainEntity, CHUNK_SIZE, CHUNK, TRAILING_HEADERS
  <2>2. Pending[1] = EOL
    <3>1. h + 3 \in 0..Len(m.wire) /\ h + 3 + 1 = h + 4 /\ 4 \in 1..Len(b) /\ 1 \in 1 .. Len(m.wire) - (h + 3)
      BY <1>2, <1>3, <1>8
    <3>2. Len(Pending) = Len(m.wire) - (h + 3) /\ \A i \in 1..Len(Pending) : Pending[i] = m.wire[h + 3 + i]
      BY <1>8, <3>1, AtIs
    <3> QED
      BY <1>2, <1>3, <1>8, <3>1, <3>2
  <2>3. Line = <<>>
    BY <2>1, <2>2, NoWordLine
  <2>4. BadChunkSize
    BY <2>1, <2>3, EmptySeq DEF ReadChunkSize
  <2> QED
    BY <1>4, <2>4, RefuseLast DEF BadChunkSize
<1>9. ASSUME chunkedEntity = TRAILING_HEADERS, entitySize = 0, chunksBuffer = <<>>, b[1] = "0",
             NEW p \in h + 2 .. Len(m.wire), At(m, p)
      PROVE  SessionInv'
  <2>1. TakeTrailer \/ BadTrailer \/ ChunkedComplete \/ PlainComplete
    BY <1>9 DEF BodySteps, ReadChunkSize, BadChunkSize, ReadChunk, CHUNK_SIZE, CHUNK, TRAILING_HEADERS
  <2>2. p \in h..Len(m.wire)
    BY <1>2
  <2>3. CASE TakeTrailer
    <3> DEFINE x == IF Len(Line) = 1 THEN Line[1] ELSE "colon"
    <3>1. /\ HasLine /\ Line # <<>> /\ buffer' = AfterLine
          /\ headers' = IF x \in Lengths THEN (headers \ Lengths) \cup {x} ELSE headers \cup {x}
          /\ UNCHANGED <<conn, wire, pc, state, method, entitySize, chunkedEntity, chunksBuffer, sentMessages, answers>>
      BY <2>3 DEF TakeTrailer, HeaderLine, entityVars
    <3>2. Line[1] \in ToSet(b)
      BY <1>9, <2>2, <3>1, BodyLine DEF h, b
    <3>3. x # "host"
      BY <1>3, <1>9, <3>2
    <3> HIDE DEF x
    <3>4. "host" \in headers' => "host" \in FieldsOf(m)
      BY <1>1, <3>1, <3>3
    <3>5. PICK q \in h + 1 .. Len(m.wire) : q > p /\ AfterLine \o wire = Cut(m.wire, q)
      BY <1>9, <2>2, <3>1, BodyLine DEF h
    <3>6. q \in h + 2 .. Len(m.wire)
      BY <1>2, <3>5
    <3>7. At(m, q)'
      BY <3>1, <3>5 DEF At, Pending
    <3>8. InChunkedBody(m)'
      BY <1>1, <1>9, <3>1, <3>4, <3>6, <3>7 DEF InChunkedBody, h, b
    <3> QED
      BY <1>5, <3>1, <3>8
  <2>4. CASE BadTrailer
    BY <1>4, <2>4, RefuseLast DEF BadTrailer
  <2>5. CASE ChunkedComplete \/ PlainComplete
    <3>1. /\ buffer' = <<>> /\ state' = "line" /\ pc' = "idle" /\ chunksBuffer' = <<>> /\ OnRequest(<<>>)
      <4>1. SubSeq(buffer, 1, 0) = <<>>
        BY DEF SessionTypeOK
      <4> QED
        BY <1>9, <2>5, <4>1 DEF ChunkedComplete, PlainComplete, EntityComplete
    <3>2. wire' = wire
      BY <3>1 DEF OnRequest
    <3>3. wire \in Seq(Symbols) /\ <<>> \in Seq(Symbols)
      BY EmptySeq DEF SessionTypeOK
    <3>4. Pending' = wire
      BY <3>1, <3>2, <3>3, ConcatSimplifications DEF Pending
    <3>5. Len(sentMessages) > 0
      BY LenProperties DEF SessionTypeOK
    <3>6. Left(wire, Len(sentMessages))
      BY <1>1, <1>9, <3>5, LeftBehind DEF h, b
    <3>7. "host" \in headers => RightAnswer(m, Served(method, <<>>))
      BY <1>1, <1>9 DEF RightAnswer, b
    <3>8. PICK s : s = wire
      OBVIOUS
    <3>9. "host" \notin headers => RightAnswer(m, Refused("BAD_REQUEST"))
      BY <1>4
    <3> QED
      BY <3>1, <3>3, <3>4, <3>6, <3>7, <3>8, <3>9, HandedOn
  <2> QED
    BY <2>1, <2>3, <2>4, <2>5
<1> QED
  BY <1>6, <1>7, <1>8, <1>9 DEF InChunkedBody, h, b

LEMMA BodyStep ==
  ASSUME SessionTypeOK, SessionInv, conn = "open", BodySteps
  PROVE  SessionInv'
<1>1. pc = "body"
  BY DEF BodySteps, ReadChunkSize, BadChunkSize, ReadChunk, TakeTrailer, BadTrailer, ChunkedComplete, PlainComplete
<1>2. Len(sentMessages) = Len(answers) + 1 /\ Parsing(sentMessages[Len(sentMessages)])
  BY <1>1 DEF SessionInv, Serving, Between
<1>3. PICK m \in Message : m = sentMessages[Len(sentMessages)]
  BY <1>2, LenProperties DEF SessionTypeOK
<1>4. ~Before(m) /\ ~InHead(m)
  BY <1>1 DEF Before, InHead
<1> QED
  BY <1>2, <1>3, <1>4, BodyMet, ChunkMet DEF Parsing

LEMMA SessionStep == SessionTypeOK /\ SessionInv /\ [SessionNext]_httpVars => SessionInv'
<1> SUFFICES ASSUME SessionTypeOK, SessionInv, [SessionNext]_httpVars
             PROVE  SessionInv'
  OBVIOUS
<1>1. CASE Handler
  <2>1. CASE conn = "open"
    BY <1>1, <2>1, RequestLineStep, WaitingStep, HeaderLoopStep, BodyStep DEF Handler, HeaderSteps, BodySteps
  <2> QED
    BY <1>1, <2>1, ClosingStep, NoConnectionStep DEF SessionTypeOK
<1>2. CASE UNCHANGED httpVars
  <2>1. /\ Pending' = Pending
        /\ UNCHANGED <<conn, pc, state, method, headers, entitySize, chunkedEntity, chunksBuffer, sentMessages, answers, buffer>>
    BY <1>2 DEF httpVars, parserVars, entityVars, Pending
  <2>2. CASE conn = "open"
    BY <2>1, <2>2, Staying
  <2>3. CASE conn # "open"
    BY <2>1, <2>3 DEF SessionInv, AnswersMatch, Closing
  <2> QED
    BY <2>2, <2>3
<1> QED
  BY <1>1, <1>2, OutsideStep DEF SessionNext

\* Whatever requests clients send, in any segments, and whoever used the session before:
\* onReadyRead and atEnd answer the requests of a connection in the order they were sent,
\* none twice, a good one with its own method and its whole body, a bad one with its status.
\* (A body of several lines, or in chunks, may be refused: see RightAnswer.)
THEOREM AnswersAreRight == SessionSpec => []AnswersMatch
<1>1. SessionInit => SessionTypeOK /\ SessionInv
  BY InitTyped, SessionInitially
<1>2. SessionTypeOK /\ SessionInv /\ [SessionNext]_httpVars => (SessionTypeOK /\ SessionInv)'
  BY StepTyped, SessionStep
<1>3. SessionInv => AnswersMatch
  BY DEF SessionInv
<1> QED
  BY <1>1, <1>2, <1>3, PTL DEF SessionSpec

-----------------------------------------------------------------------------
(* WebContent *)

\* The range a request is answered with: only files look at what was asked.
GivenRange ==
  IF asked.source.kind = "file" THEN FileRange(asked.range, asked.source.size) ELSE WholeEntity

Entities ==
  [first : Nat, written : Nat, remaining : Int, bare : Nat, early : BOOLEAN, last : BOOLEAN]

ContentShape ==
  /\ asked.source \in Sources /\ asked.range \in Ranges
  /\ entity \in Entities /\ useChunked \in BOOLEAN
  /\ step \in {"idle", "writing", "written"}

\* What the head tells of the answer.
HeadTells ==
  LET size == asked.source.size
  IN /\ head.chunked = useChunked
     /\ ~Answers({"noFile"}) =>
          /\ head.contentRange = IF UseRange(GivenRange) THEN GivenRange ELSE WholeEntity
          /\ ~head.chunked => head.length = ContentLength(GivenRange, size)
     /\ Answers({"noFile"}) /\ ~UseRange(head.contentRange) /\ ~head.chunked => head.length = 0
     /\ Answers({"file"}) => head.status = FileStatus(asked.range)
     /\ Answers({"nothing"}) => head.close

\* What is written begins where the range does; what is written and what remains are its
\* length; no byte was read that is not there; there are chunks where there is data, and an
\* empty one only once nothing can be read any more.
InStep ==
  LET size == asked.source.size
      part == EntityPart(GivenRange, size)
  IN /\ entity.first = part.first
     /\ entity.written + entity.remaining = part.remaining
     /\ entity.written = 0 \/ entity.first + entity.written <= size
     /\ useChunked => (entity.bare = 0 <=> entity.written = 0)
     /\ entity.early => entity.remaining # 0 /\ Available = 0

ContentInv ==
  /\ ContentShape
  /\ step # "idle" => HeadTells /\ InStep
  /\ step = "written" => entity.remaining = 0 /\ entity.last = LastChunk

LEMMA SourceShape ==
  ASSUME NEW source \in Sources
  PROVE  /\ source.size \in Nat
         /\ source.kind \in {"file", "text", "noFile", "fallback", "nothing"}
         /\ source.kind \notin {"file", "text"} => source.size = 0
BY ContentAssumption DEF Sources, File, Text, NoFile, Fallback, Nothing

LEMMA RangeShape ==
  ASSUME NEW r \in Ranges
  PROVE  /\ r.form \in {"none", "N", "N-", "N-M", "-N"}
         /\ r.first \in Nat /\ r.last \in Nat
<1>0. BytePos \subseteq Nat /\ 0 \in Nat
  BY ContentAssumption
<1>1. CASE r = NoRange
  BY <1>1 DEF NoRange
<1>2. CASE r \in [form : {"N", "N-"}, first : BytePos, last : {0}]
  <2>1. r.form \in {"N", "N-"} /\ r.first \in BytePos /\ r.last = 0
    BY <1>2
  <2> QED
    BY <1>0, <2>1, Zenon
<1>3. CASE r \in [form : {"N-M"}, first : BytePos, last : BytePos]
  BY <1>3, ContentAssumption
<1>4. CASE r \in [form : {"-N"}, first : {0}, last : BytePos]
  <2>1. r.form = "-N" /\ r.first = 0 /\ r.last \in BytePos
    BY <1>4
  <2> QED
    BY <1>0, <2>1, Zenon
<1> QED
  BY <1>1, <1>2, <1>3, <1>4 DEF Ranges

\* The range of a file: of two integers, whatever was asked.
LEMMA FileRangeShape ==
  ASSUME NEW r \in Ranges, NEW size \in Nat
  PROVE  /\ FileRange(r, size) \in [first : Int, second : Int]
         /\ r.form \in {"N", "N-"} => FileRange(r, size) = [first |-> r.first, second |-> size - 1]
         /\ r.form = "N-M" /\ r.first < r.last => FileRange(r, size) = [first |-> r.first, second |-> r.last]
         /\ r.form = "-N" => FileRange(r, size) = [first |-> size - r.last, second |-> size - 1]
         /\ r.form = "none" \/ (r.form = "N-M" /\ ~(r.first < r.last)) => FileRange(r, size) = WholeEntity
<1>1. /\ r.form \in {"none", "N", "N-", "N-M", "-N"}
      /\ r.first \in Nat /\ r.last \in Nat
  BY RangeShape
<1>2. CASE r.form \in {"N", "N-"}
  BY <1>1, <1>2 DEF FileRange
<1>3. CASE r.form = "N-M" /\ r.first < r.last
  BY <1>1, <1>3 DEF FileRange
<1>4. CASE r.form = "-N"
  BY <1>1, <1>4 DEF FileRange
<1>5. CASE r.form = "none" \/ (r.form = "N-M" /\ ~(r.first < r.last))
  <2>1. FileRange(r, size) = WholeEntity
    BY <1>1, <1>5 DEF FileRange
  <2> QED
    BY <1>1, <1>5, <2>1 DEF WholeEntity
<1> QED
  BY <1>1, <1>2, <1>3, <1>4, <1>5

LEMMA PartShape ==
  ASSUME NEW range \in [first : Int, second : Int], NEW size \in Nat
  PROVE  LET part == EntityPart(range, size)
         IN /\ part \in Entities /\ part.written = 0 /\ part.bare = 0 /\ ~part.early
            /\ part.remaining = ContentLength(range, size)
            /\ UseRange(range) => part.first = IF range.first < 0 THEN 0 ELSE range.first
            /\ ~UseRange(range) => part.first = 0
BY DEF EntityPart, Entity, Entities, ContentLength, UseRange

\* An answer that was just begun: its head.  (That of a file that cannot be opened tells the
\* range that was asked for, and nothing is written.)
LEMMA HeadBegun ==
  ASSUME NEW source \in Sources, NEW r \in Ranges, Asked(source, r),
         NEW told,
         source.kind # "noFile" =>
           told = IF source.kind = "file" THEN FileRange(r, source.size) ELSE WholeEntity,
         NEW status, source.kind = "file" => status = FileStatus(r),
         NEW close, source.kind = "nothing" => close,
         NEW closes,
         head' = ResponseHead(status, told, source.size, close, useChunked', closes)
  PROVE  HeadTells'
<1>1. source.kind \notin {"file", "text"} => source.size = 0
  BY SourceShape
<1>2. asked' = [source |-> source, range |-> r]
  BY DEF Asked
<1>3. (GivenRange)' = IF source.kind = "file" THEN FileRange(r, source.size) ELSE WholeEntity
  BY <1>2 DEF GivenRange
<1>4. /\ head'.chunked = useChunked' /\ head'.status = status
      /\ head'.contentRange = IF UseRange(told) THEN told ELSE WholeEntity
      /\ ~head'.chunked => head'.length = ContentLength(told, source.size)
      /\ head'.close = (close \/ closes)
  BY DEF ResponseHead
<1>5. source.kind = "nothing" => head'.close
  BY <1>4
<1>6. ASSUME source.kind = "noFile", ~UseRange(head'.contentRange), ~head'.chunked
      PROVE  head'.length = 0
  <2>1. ~UseRange(told)
    BY <1>4, <1>6
  <2> QED
    BY <1>1, <1>4, <1>6, <2>1 DEF ContentLength
<1> QED
  BY <1>2, <1>3, <1>4, <1>5, <1>6 DEF HeadTells, Answers

\* And what is to be written of its body.
LEMMA AnswerBegun ==
  ASSUME NEW source \in Sources, NEW r \in Ranges, Asked(source, r),
         useChunked' \in BOOLEAN, HeadTells',
         NEW range \in [first : Int, second : Int],
         range = IF source.kind = "file" THEN FileRange(r, source.size) ELSE WholeEntity,
         entity' = EntityPart(range, source.size)
  PROVE  ContentInv'
<1>1. source.size \in Nat
  BY SourceShape
<1>2. asked' = [source |-> source, range |-> r] /\ step' = "writing"
  BY DEF Asked
<1>3. entity' \in Entities /\ entity'.written = 0 /\ entity'.bare = 0 /\ ~entity'.early
  BY <1>1, PartShape
<1>4. ContentShape'
  BY <1>1, <1>2, <1>3 DEF ContentShape
<1>5. (GivenRange)' = range
  BY <1>2 DEF GivenRange
<1>6. InStep'
  <2>1. entity'.written + entity'.remaining = EntityPart(range, source.size).remaining
    BY <1>3 DEF Entities
  <2> QED
    BY <1>2, <1>3, <1>5, <2>1 DEF InStep
<1> QED
  BY <1>2, <1>4, <1>6 DEF ContentInv

\* What read() returns: no more than is left of the file, and of the range.
LEMMA AvailableLeft ==
  ASSUME ContentShape
  PROVE  /\ Available \in Nat
         /\ Available = 0 \/ entity.first + entity.written + Available <= asked.source.size
<1>1. asked.source.size \in Nat /\ entity.first \in Nat /\ entity.written \in Nat /\ entity.remaining \in Int
  <2>1. asked.source.size \in Nat
    BY SourceShape DEF ContentShape
  <2>2. entity.first \in Nat /\ entity.written \in Nat /\ entity.remaining \in Int
    BY DEF ContentShape, Entities
  <2> QED
    BY <2>1, <2>2
<1> QED
  BY <1>1, ContentAssumption DEF Available

\* A block as a chunk changes nothing but what is noted of the chunks.
LEMMA ChunkNoted ==
  ASSUME NEW e \in Entities, NEW block \in Nat
  PROVE  LET c == IF useChunked THEN AsChunk(e, block) ELSE e
         IN /\ c \in Entities
            /\ c.first = e.first /\ c.written = e.written /\ c.remaining = e.remaining
            /\ useChunked => c.bare = IF block = 0 THEN e.bare ELSE e.bare + 1
            /\ c.early => e.early \/ block = 0
<1>1. CASE ~useChunked
  BY <1>1
<1>2. CASE useChunked /\ block = 0
  BY <1>2 DEF AsChunk, Entities
<1>3. CASE useChunked /\ block # 0
  <2> DEFINE n == e.bare + 1
  <2>1. n \in Nat
    BY DEF Entities
  <2>2. AsChunk(e, block) = [e EXCEPT !.bare = n]
    BY <1>3 DEF AsChunk
  <2> HIDE DEF n
  <2>3. /\ AsChunk(e, block) \in Entities
        /\ AsChunk(e, block).first = e.first /\ AsChunk(e, block).written = e.written
        /\ AsChunk(e, block).remaining = e.remaining /\ AsChunk(e, block).bare = n
        /\ AsChunk(e, block).early = e.early
    BY <2>1, <2>2 DEF Entities
  <2> QED
    BY <1>3, <2>3 DEF n
<1> QED
  BY <1>1, <1>2, <1>3

LEMMA WriteBlockStep == ContentInv /\ WriteBlock => ContentInv'
<1> SUFFICES ASSUME ContentInv, WriteBlock
             PROVE  ContentInv'
  OBVIOUS
<1> DEFINE w == entity.written + Available
           left == entity.remaining - Available
           e == [entity EXCEPT !.written = w, !.remaining = left]
<1>1. ContentShape /\ HeadTells /\ InStep /\ step' = "writing" /\ step = "writing"
  BY DEF ContentInv, WriteBlock
<1>2. /\ entity' = IF useChunked THEN AsChunk(e, Available) ELSE e
      /\ asked' = asked /\ head' = head /\ useChunked' = useChunked /\ entity.remaining # 0
  BY DEF WriteBlock
<1>3. /\ Available \in Nat
      /\ Available = 0 \/ entity.first + entity.written + Available <= asked.source.size
  BY <1>1, AvailableLeft
<1>4. /\ entity \in Entities /\ asked.source.size \in Nat
      /\ entity.first \in Nat /\ entity.written \in Nat /\ entity.remaining \in Int /\ entity.bare \in Nat
  BY <1>1, SourceShape DEF ContentShape, Entities
<1>5. w \in Nat /\ left \in Int
  BY <1>3, <1>4
<1>6. /\ e \in Entities
      /\ e.first = entity.first /\ e.written = w /\ e.remaining = left
      /\ e.bare = entity.bare /\ e.early = entity.early
  <2> HIDE DEF w, left
  <2> QED
    BY <1>4, <1>5 DEF Entities
<1>7. /\ entity' \in Entities
      /\ entity'.first = entity.first /\ entity'.written = w /\ entity'.remaining = left
      /\ useChunked => entity'.bare = IF Available = 0 THEN entity.bare ELSE entity.bare + 1
      /\ entity'.early => entity.early \/ Available = 0
  <2> HIDE DEF e, w, left
  <2> QED
    BY <1>2, <1>3, <1>6, ChunkNoted
<1>8. ContentShape'
  BY <1>1, <1>2, <1>7 DEF ContentShape
<1>9. (GivenRange)' = GivenRange
  BY <1>2 DEF GivenRange
<1>10. HeadTells'
  BY <1>1, <1>2, <1>9 DEF HeadTells, Answers
<1>11. InStep'
  <2>1. entity'.written + entity'.remaining = entity.written + entity.remaining
    BY <1>3, <1>4, <1>7
  <2>2. entity'.written = 0 \/ entity'.first + entity'.written <= asked.source.size
    BY <1>1, <1>3, <1>4, <1>7 DEF InStep
  <2>3. useChunked => (entity'.bare = 0 <=> entity'.written = 0)
    <3>1. useChunked => (entity.bare = 0 <=> entity.written = 0)
      BY <1>1 DEF InStep
    <3> QED
      BY <1>3, <1>4, <1>7, <3>1
  <2>4. ASSUME entity'.early PROVE entity'.remaining # 0 /\ Available' = 0
    <3>1. Available = 0
      BY <1>1, <1>7, <2>4 DEF InStep
    <3>2. entity'.first = entity.first /\ entity'.written = entity.written /\ entity'.remaining = entity.remaining
      BY <1>4, <1>7, <3>1
    <3>3. Available' = Available
      BY <1>2, <3>2 DEF Available
    <3> QED
      BY <1>2, <3>1, <3>2, <3>3
  <2> QED
    BY <1>1, <1>2, <1>7, <1>9, <2>1, <2>2, <2>3, <2>4 DEF InStep
<1> QED
  BY <1>1, <1>8, <1>10, <1>11 DEF ContentInv

LEMMA ContentStep == ContentInv /\ [ContentNext]_contentVars => ContentInv'
<1> SUFFICES ASSUME ContentInv, [ContentNext]_contentVars
             PROVE  ContentInv'
  OBVIOUS
<1>0. ContentShape
  BY DEF ContentInv
<1>1. ASSUME UNCHANGED <<useChunked, asked, head, entity, step>> PROVE ContentInv'
  <2>1. (GivenRange)' = GivenRange /\ Available' = Available /\ (LastChunk)' = LastChunk
    BY <1>1 DEF GivenRange, Available, LastChunk, HasBody, Answers
  <2> QED
    BY <1>1, <2>1 DEF ContentInv, ContentShape, HeadTells, InStep, Answers
<1>2. CASE NewClient
  <2>1. NoEntity \in Entities
    BY DEF NoEntity, Entity, Entities
  <2> QED
    BY <1>2, <2>1 DEF NewClient, ContentInv, ContentShape
<1>3. CASE ClientLeaves
  BY <1>1, <1>3 DEF ClientLeaves
<1>4. WholeEntity \in [first : Int, second : Int] /\ EntityPart(WholeEntity, 0) = NoEntity
  BY DEF WholeEntity, EntityPart, UseRange, NoEntity
<1>5. {NoFile, Fallback, Nothing} \subseteq Sources /\ NoRange \in Ranges
  BY DEF Sources, Ranges
<1>6. CASE NotifyFallback
  <2>1. Fallback.size = 0 /\ Fallback.kind = "fallback" /\ Fallback \in Sources
    BY <1>5 DEF Fallback
  <2>2. /\ Asked(Fallback, NoRange) /\ useChunked' \in BOOLEAN
        /\ head' = ResponseHead(200, WholeEntity, Fallback.size, FALSE, useChunked', lastCloses)
        /\ entity' = EntityPart(WholeEntity, Fallback.size)
    BY <1>4, <1>6, <2>1 DEF NotifyFallback
  <2>3. (GivenRange)' = WholeEntity /\ asked'.source = Fallback
    BY <2>1, <2>2 DEF GivenRange, Asked
  <2>4. HeadTells'
    BY <2>1, <2>2, <2>3 DEF HeadTells, Answers, ResponseHead
  <2> QED
    BY <1>4, <1>5, <2>1, <2>2, <2>4, AnswerBegun
<1>7. ASSUME NEW r \in Ranges, NotFound(r)
      PROVE  ContentInv'
  <2>1. Nothing.size = 0 /\ Nothing.kind = "nothing" /\ Nothing \in Sources
    BY <1>5 DEF Nothing
  <2>2. /\ Asked(Nothing, r) /\ useChunked' \in BOOLEAN
        /\ head' = ResponseHead(404, WholeEntity, Nothing.size, TRUE, useChunked', lastCloses)
        /\ entity' = EntityPart(WholeEntity, Nothing.size)
    BY <1>0, <1>4, <1>7, <2>1 DEF NotFound, ContentShape
  <2>3. (GivenRange)' = WholeEntity /\ asked'.source = Nothing
    BY <2>1, <2>2 DEF GivenRange, Asked
  <2>4. HeadTells'
    BY <2>1, <2>2, <2>3 DEF HeadTells, Answers, ResponseHead
  <2> QED
    BY <1>4, <1>5, <1>7, <2>1, <2>2, <2>4, AnswerBegun
<1>8. ASSUME NEW r \in Ranges, NEW closes \in BOOLEAN, NEW source \in Sources, GetText(source, r, closes)
      PROVE  ContentInv'
  <2>1. /\ Asked(source, r) /\ source.kind = "text" /\ useChunked' \in BOOLEAN
        /\ head' = ResponseHead(200, WholeEntity, source.size, FALSE, useChunked', closes)
        /\ entity' = EntityPart(WholeEntity, source.size)
    BY <1>8 DEF GetText
  <2>2. HeadTells'
    BY <1>8, <2>1, HeadBegun
  <2> QED
    BY <1>4, <1>8, <2>1, <2>2, AnswerBegun
<1>9. ASSUME NEW r \in Ranges, NEW closes \in BOOLEAN, NEW chunked \in BOOLEAN, GetNoFile(r, closes, chunked)
      PROVE  ContentInv'
  <2>1. NoFile.size = 0 /\ NoFile.kind = "noFile" /\ NoFile \in Sources
    BY <1>5 DEF NoFile
  <2>2. /\ Asked(NoFile, r) /\ useChunked' \in BOOLEAN
        /\ head' = ResponseHead(FileStatus(r), FileRange(r, 0), NoFile.size, FALSE, useChunked', closes)
        /\ entity' = EntityPart(WholeEntity, NoFile.size)
    BY <1>4, <1>9, <2>1 DEF GetNoFile
  <2>3. HeadTells'
    BY <1>9, <2>1, <2>2, HeadBegun
  <2> QED
    BY <1>4, <1>9, <2>1, <2>2, <2>3, AnswerBegun
<1>10. ASSUME NEW r \in Ranges, NEW closes \in BOOLEAN, NEW chunked \in BOOLEAN, NEW source \in Sources,
              GetFile(source, r, closes, chunked)
       PROVE  ContentInv'
  <2>1. FileRange(r, source.size) \in [first : Int, second : Int]
    BY SourceShape, FileRangeShape
  <2>2. /\ Asked(source, r) /\ source.kind = "file" /\ useChunked' \in BOOLEAN
        /\ head' = ResponseHead(FileStatus(r), FileRange(r, source.size), source.size, FALSE, useChunked', closes)
        /\ entity' = EntityPart(FileRange(r, source.size), source.size)
    BY <1>10 DEF GetFile
  <2>3. HeadTells'
    BY <1>10, <2>2, HeadBegun
  <2> QED
    BY <1>10, <2>1, <2>2, <2>3, AnswerBegun
<1>11. CASE WriteBlock
  BY <1>11, WriteBlockStep
<1>12. CASE Written
  <2>1. /\ step = "writing" /\ entity.remaining = 0 /\ step' = "written"
        /\ entity' = [entity EXCEPT !.last = LastChunk]
        /\ UNCHANGED <<useChunked, asked, head>>
    BY <1>12 DEF Written
  <2>2. LastChunk \in BOOLEAN /\ (LastChunk)' = LastChunk
    BY <1>0, <2>1 DEF LastChunk, HasBody, Answers, ContentShape
  <2>3. /\ entity' \in Entities /\ entity'.last = LastChunk
        /\ entity'.first = entity.first /\ entity'.written = entity.written /\ entity'.remaining = entity.remaining
        /\ entity'.bare = entity.bare /\ entity'.early = entity.early
    <3> HIDE DEF LastChunk
    <3> QED
      BY <1>0, <2>1, <2>2 DEF ContentShape, Entities
  <2>4. (GivenRange)' = GivenRange /\ Available' = Available
    BY <2>1, <2>3 DEF GivenRange, Available
  <2>5. ContentShape'
    BY <1>0, <2>1, <2>3 DEF ContentShape
  <2>6. (HeadTells /\ InStep)'
    BY <2>1, <2>3, <2>4 DEF ContentInv, HeadTells, InStep, Answers
  <2> QED
    BY <2>1, <2>2, <2>3, <2>5, <2>6 DEF ContentInv
<1> QED
  BY <1>1, <1>2, <1>3, <1>6, <1>7, <1>8, <1>9, <1>10, <1>11, <1>12 DEF ContentNext, contentVars

LEMMA GivenShape ==
  ASSUME ContentShape
  PROVE  GivenRange \in [first : Int, second : Int] /\ asked.source.size \in Nat
<1>1. asked.source.size \in Nat
  BY SourceShape DEF ContentShape
<1> QED
  BY <1>1, FileRangeShape DEF ContentShape, GivenRange, WholeEntity

LEMMA DeliveredInFull ==
  ASSUME ContentInv, step = "written"
  PROVE  /\ entity.written = ContentLength(GivenRange, asked.source.size)
         /\ entity.first = EntityPart(GivenRange, asked.source.size).first
         /\ entity.written = 0 \/ entity.first + entity.written <= asked.source.size
<1>1. ContentShape /\ InStep /\ entity.remaining = 0 /\ entity.written \in Nat
  BY DEF ContentInv, ContentShape, Entities
<1>2. GivenRange \in [first : Int, second : Int] /\ asked.source.size \in Nat
  BY <1>1, GivenShape
<1>3. EntityPart(GivenRange, asked.source.size).remaining = ContentLength(GivenRange, asked.source.size)
  BY <1>2, PartShape
<1> QED
  BY <1>1, <1>3 DEF InStep, ContentShape

\* The length told is the length written.
LEMMA EndByLengthFound == ContentInv => EndByLength
<1> SUFFICES ASSUME ContentInv, step = "written", ~head.chunked,
                    Answers({"noFile"}) => ~UseRange(head.contentRange)
             PROVE  /\ head.length = entity.written
                    /\ UseRange(head.contentRange) =>
                         /\ entity.first = head.contentRange.first
                         /\ entity.written = 1 + head.contentRange.second - head.contentRange.first
  BY DEF EndByLength
<1> DEFINE size == asked.source.size
<1>1. ContentShape /\ HeadTells /\ InStep
  BY DEF ContentInv
<1>2. /\ entity.written = ContentLength(GivenRange, size)
      /\ entity.first = EntityPart(GivenRange, size).first
      /\ entity.written = 0 \/ entity.first + entity.written <= size
  BY DeliveredInFull
<1>3. GivenRange \in [first : Int, second : Int] /\ size \in Nat
  BY <1>1, GivenShape
<1>4. CASE Answers({"noFile"})
  <2>1. ~UseRange(head.contentRange) /\ head.length = 0
    BY <1>1, <1>4 DEF HeadTells
  <2>2. GivenRange = WholeEntity /\ size = 0
    BY <1>1, <1>4, SourceShape DEF GivenRange, Answers, ContentShape
  <2> QED
    BY <1>2, <2>1, <2>2 DEF ContentLength, UseRange, WholeEntity
<1>5. CASE ~Answers({"noFile"})
  <2>1. /\ head.contentRange = IF UseRange(GivenRange) THEN GivenRange ELSE WholeEntity
        /\ head.length = ContentLength(GivenRange, size)
    BY <1>1, <1>5 DEF HeadTells
  <2>2. ASSUME UseRange(head.contentRange)
        PROVE  /\ entity.first = head.contentRange.first
               /\ entity.written = 1 + head.contentRange.second - head.contentRange.first
    <3>1. UseRange(GivenRange) /\ head.contentRange = GivenRange
      BY <2>1, <2>2 DEF UseRange, WholeEntity
    <3>2. entity.written = 1 + GivenRange.second - GivenRange.first
      BY <1>2, <3>1 DEF ContentLength
    <3>3. entity.first = IF GivenRange.first < 0 THEN 0 ELSE GivenRange.first
      BY <1>2, <1>3, <3>1, PartShape
    <3>4. GivenRange.second = size - 1 \/ GivenRange.first >= 0
      <4>1. asked.source.kind = "file"
        BY <3>1 DEF GivenRange, UseRange, WholeEntity
      <4>2. asked.range \in Ranges /\ GivenRange = FileRange(asked.range, size)
        BY <1>1, <4>1 DEF ContentShape, GivenRange
      <4> QED
        BY <1>3, <4>2, FileRangeShape, RangeShape DEF WholeEntity
    <3>5. ~(GivenRange.first < 0)
      BY <1>2, <1>3, <3>2, <3>3, <3>4
    <3> QED
      BY <3>1, <3>2, <3>3, <3>5
  <2> QED
    BY <1>2, <2>1, <2>2
<1> QED
  BY <1>4, <1>5

\* The last chunk is the only one that is told to be empty.
LEMMA EndByChunksFound == ContentInv => EndByChunks
<1> SUFFICES ASSUME ContentInv, step = "written", head.chunked
             PROVE  /\ HasBody => entity.last /\ ~entity.early
                    /\ entity.bare = 0 <=> entity.written = 0
                    /\ Answers({"nothing"}) => head.close
  BY DEF EndByChunks
<1>1. HeadTells /\ InStep /\ entity.remaining = 0 /\ entity.last = LastChunk
  BY DEF ContentInv
<1>2. useChunked
  BY <1>1 DEF HeadTells
<1>3. ~entity.early /\ (entity.bare = 0 <=> entity.written = 0)
  BY <1>1, <1>2 DEF InStep
<1>4. HasBody => entity.last
  BY <1>1, <1>2 DEF LastChunk
<1> QED
  BY <1>1, <1>3, <1>4 DEF HeadTells

\* The status goes with the range the file sets, unless that is open or ends at offset 0.
LEMMA StatusIsTold == ContentInv => StatusTells
<1> DEFINE r == asked.range
           size == asked.source.size
<1> SUFFICES ASSUME ContentInv, step = "written", Answers({"file"}), size # 1
             PROVE  head.status = 206 <=> UseRange(head.contentRange) /\ r.form # "N-"
  BY DEF StatusTells
<1>1. ContentShape /\ HeadTells
  BY DEF ContentInv
<1>2. r \in Ranges /\ size \in Nat /\ GivenRange = FileRange(r, size)
  BY <1>1, GivenShape DEF ContentShape, GivenRange, Answers
<1>3. /\ head.status = FileStatus(r)
      /\ head.contentRange = IF UseRange(GivenRange) THEN GivenRange ELSE WholeEntity
  BY <1>1 DEF HeadTells, Answers
<1>4. UseRange(head.contentRange) <=> FileRange(r, size).second # 0
  BY <1>2, <1>3 DEF UseRange, WholeEntity
<1>5. /\ r.form \in {"none", "N", "N-", "N-M", "-N"}
      /\ r.first \in Nat /\ r.last \in Nat
  BY <1>2, RangeShape
<1>6. CASE r.form \in {"N", "-N"}
  <2>1. FileRange(r, size).second = size - 1
    BY <1>2, <1>6, FileRangeShape
  <2> QED
    BY <1>2, <1>3, <1>4, <1>6, <2>1 DEF FileStatus
<1>7. CASE r.form = "N-"
  BY <1>3, <1>7 DEF FileStatus
<1>8. CASE r.form = "N-M" /\ r.first < r.last
  <2>1. FileRange(r, size).second = r.last
    BY <1>2, <1>8, FileRangeShape
  <2> QED
    BY <1>3, <1>4, <1>5, <1>8, <2>1 DEF FileStatus
<1>9. CASE r.form = "none" \/ (r.form = "N-M" /\ ~(r.first < r.last))
  <2>1. FileRange(r, size).second = 0
    BY <1>2, <1>9, FileRangeShape DEF WholeEntity
  <2> QED
    BY <1>3, <1>4, <1>9, <2>1 DEF FileStatus
<1> QED
  BY <1>5, <1>6, <1>7, <1>8, <1>9

LEMMA AsAsked == ContentInv => ContentAsAsked
<1> DEFINE r == asked.range
           size == asked.source.size
<1> SUFFICES ASSUME ContentInv, step = "written", Answers({"file"}), Satisfiable(r, size)
             PROVE  IF UseRange(head.contentRange)
                    THEN /\ r.form # "none"
                         /\ entity.first = IF r.form = "-N" THEN size - r.last ELSE r.first
                         /\ entity.written = CASE r.form = "N-M" -> 1 + r.last - r.first
                                             [] r.form = "-N" -> r.last
                                             [] OTHER -> size - r.first
                    ELSE entity.first = 0 /\ entity.written = size
  BY DEF ContentAsAsked
<1>1. ContentShape /\ HeadTells
  BY DEF ContentInv
<1>2. r \in Ranges /\ size \in Nat /\ GivenRange = FileRange(r, size)
  BY <1>1, GivenShape DEF ContentShape, GivenRange, Answers
<1>3. /\ r.form \in {"none", "N", "N-", "N-M", "-N"}
      /\ r.first \in Nat /\ r.last \in Nat
  BY <1>2, RangeShape
<1>4. /\ GivenRange \in [first : Int, second : Int]
      /\ entity.written = ContentLength(GivenRange, size)
      /\ entity.first = EntityPart(GivenRange, size).first
  BY <1>1, GivenShape, DeliveredInFull
<1>0. UseRange(head.contentRange) <=> UseRange(GivenRange)
  BY <1>1 DEF HeadTells, Answers, UseRange, WholeEntity
<1>5. CASE ~UseRange(GivenRange)
  BY <1>0, <1>2, <1>4, <1>5, PartShape DEF ContentLength
<1>6. CASE UseRange(GivenRange)
  <2> SUFFICES /\ r.form # "none"
               /\ entity.first = IF r.form = "-N" THEN size - r.last ELSE r.first
               /\ entity.written = CASE r.form = "N-M" -> 1 + r.last - r.first
                                   [] r.form = "-N" -> r.last
                                   [] OTHER -> size - r.first
    BY <1>0, <1>6
  <2>1. /\ entity.written = 1 + GivenRange.second - GivenRange.first
        /\ entity.first = IF GivenRange.first < 0 THEN 0 ELSE GivenRange.first
    BY <1>2, <1>4, <1>6, PartShape DEF ContentLength
  <2>2. CASE r.form \in {"N", "N-"}
    <3>1. GivenRange.first = r.first /\ GivenRange.second = size - 1
      BY <1>2, <2>2, FileRangeShape
    <3> QED
      BY <1>2, <1>3, <2>1, <2>2, <3>1
  <2>3. CASE r.form = "N-M" /\ r.first < r.last
    <3>1. GivenRange.first = r.first /\ GivenRange.second = r.last
      BY <1>2, <2>3, FileRangeShape
    <3> QED
      BY <1>2, <1>3, <2>1, <2>3, <3>1
  <2>4. CASE r.form = "-N"
    <3>1. GivenRange.first = size - r.last /\ GivenRange.second = size - 1 /\ r.last \in 1..size
      BY <1>2, <2>4, FileRangeShape DEF Satisfiable
    <3> QED
      BY <1>2, <1>3, <2>1, <2>4, <3>1
  <2>5. CASE r.form = "none" \/ (r.form = "N-M" /\ ~(r.first < r.last))
    BY <1>2, <1>6, <2>5, FileRangeShape DEF UseRange, WholeEntity
  <2> QED
    BY <1>3, <2>2, <2>3, <2>4, <2>5
<1> QED
  BY <1>0, <1>5, <1>6

LEMMA ContentInitially == ContentInit => ContentInv
BY DEF ContentInit, ContentInv, ContentShape, Sources, Ranges, NoEntity, Entity, Entities

\* For files, ranges and blocks of every size, and whatever the answers before it left
\* in the session: when the loop of writeEntityBody has ended, a client that asked for
\* a range that is there got its bytes, if it was told a CONTENT-RANGE, and the whole file
\* if not; 206 goes with a CONTENT-RANGE, but for open ranges (200); a CONTENT-LENGTH and
\* a CONTENT-RANGE are those of what was written; and of the size lines of a chunked
\* answer only the last is 0, though no CRLF follows the data of a chunk.
THEOREM Delivered == ContentSpec => []ContentDelivered
<1>1. ContentInv => ContentDelivered
  BY AsAsked, StatusIsTold, EndByLengthFound, EndByChunksFound DEF ContentDelivered, EndRecognised
<1> QED
  BY <1>1, ContentInitially, ContentStep, PTL DEF ContentSpec

-----------------------------------------------------------------------------
(* MessageBodies.  Messages own their bodies, all but lastRequest, which only points to *)
(* one: a body is alive as long as a message owns it, and one message does.             *)

Owners == HttpMessage \ {"lastRequest"}

Owned(s) ==
  /\ DOMAIN s = {"body", "life", "misused"}
  /\ s.body \in [HttpMessage -> Address \cup {NoAddress}]
  /\ s.life \in [Address -> {"free", "alive", "dying", "lost"}]
  /\ s.misused = FALSE
  /\ \A b \in Address : s.life[b] = "alive" <=> \E m \in Owners : s.body[m] = b
  /\ \A m, n \in Owners : m # n /\ s.body[m] = s.body[n] => s.body[m] = NoAddress

\* An owner never reads or deletes a body that is gone.
LEMMA OwnerUsesRight ==
  ASSUME NEW s, Owned(s), NEW m \in Owners
  PROVE  ~Misused(s, m)
BY BodiesAssumption DEF Owned, Misused, Owners

LEMMA SetBodyOwned ==
  ASSUME NEW s, Owned(s), NEW m \in Owners, NEW b \in Address, s.life[b] = "free"
  PROVE  /\ Owned(SetBody(s, m, b))
         /\ \A n \in HttpMessage \ {m} : SetBody(s, m, b).body[n] = s.body[n]
<1> DEFINE t == [s EXCEPT !.body[m] = b, !.life[b] = "alive"]
<1>1. CASE s.body[m] # NoAddress
  BY <1>1 DEF SetBody
<1>2. CASE s.body[m] = NoAddress
  <2>1. /\ t.body = [n \in HttpMessage |-> IF n = m THEN b ELSE s.body[n]]
        /\ t.life = [a \in Address |-> IF a = b THEN "alive" ELSE s.life[a]]
        /\ t.misused = FALSE /\ DOMAIN t = {"body", "life", "misused"}
    BY DEF Owned, Owners
  <2>2. \A n \in Owners : s.body[n] # b
    BY DEF Owned
  <2> HIDE DEF t
  <2>3. Owned(t)
    BY <1>2, <2>1, <2>2, BodiesAssumption DEF Owned, Owners
  <2> QED
    BY <1>2, <2>1, <2>3 DEF SetBody, t
<1> QED
  BY <1>1, <1>2

LEMMA SetFileOwned ==
  ASSUME NEW s, Owned(s), NEW m \in Owners, NEW b \in Address, s.life[b] = "free",
         s.body[m] = NoAddress, NEW open \in BOOLEAN
  PROVE  /\ Owned(SetFile(s, m, b, open))
         /\ \A n \in HttpMessage \ {m} : SetFile(s, m, b, open).body[n] = s.body[n]
<1>1. CASE open
  <2>1. SetFile(s, m, b, open) = SetBody(s, m, b)
    BY <1>1 DEF SetFile, SetBody
  <2> QED
    BY <2>1, SetBodyOwned
<1>2. CASE ~open
  <2> DEFINE t == [s EXCEPT !.life[b] = "lost"]
  <2>1. /\ t.body = s.body /\ t.misused = FALSE /\ DOMAIN t = {"body", "life", "misused"}
        /\ t.life = [a \in Address |-> IF a = b THEN "lost" ELSE s.life[a]]
    BY DEF Owned
  <2>2. \A n \in Owners : s.body[n] # b
    BY DEF Owned
  <2> HIDE DEF t
  <2>3. Owned(t)
    BY <2>1, <2>2 DEF Owned
  <2> QED
    BY <1>2, <2>1, <2>3 DEF SetFile, t
<1> QED
  BY <1>1, <1>2

LEMMA CopyOwned ==
  ASSUME NEW s, Owned(s), NEW from \in Owners, NEW to \in Owners, from # to, s.body[to] = NoAddress
  PROVE  /\ Owned(Copy(s, from, to)) /\ Copy(s, from, to).body[from] = NoAddress
         /\ \A n \in HttpMessage \ {from, to} : Copy(s, from, to).body[n] = s.body[n]
<1> DEFINE t == Copy(s, from, to)
<1>1. /\ t.body = [n \in HttpMessage |->
                     IF n = from THEN NoAddress ELSE IF n = to THEN s.body[from] ELSE s.body[n]]
      /\ t.life = s.life /\ t.misused = FALSE /\ DOMAIN t = {"body", "life", "misused"}
  BY DEF Copy, Owned, Owners
<1> HIDE DEF t
<1>2. from \in HttpMessage /\ to \in HttpMessage
  BY DEF Owners
<1>3. Owned(t)
  <2>1. t.body \in [HttpMessage -> Address \cup {NoAddress}] /\ t.life \in [Address -> {"free", "alive", "dying", "lost"}]
    BY <1>1, <1>2 DEF Owned
  <2>2. ASSUME NEW b \in Address
        PROVE  t.life[b] = "alive" <=> \E m \in Owners : t.body[m] = b
    <3>1. CASE s.body[from] = b
      BY <1>1, <1>2, <3>1 DEF Owned
    <3>2. CASE s.body[from] # b
      BY <1>1, <1>2, <3>2, BodiesAssumption DEF Owned, Owners
    <3> QED
      BY <3>1, <3>2
  <2>3. ASSUME NEW m \in Owners, NEW n \in Owners, m # n, t.body[m] = t.body[n]
        PROVE  t.body[m] = NoAddress
    BY <1>1, <1>2, <2>3 DEF Owned, Owners
  <2> QED
    BY <1>1, <2>1, <2>2, <2>3 DEF Owned
<1> QED
  BY <1>1, <1>2, <1>3 DEF t

LEMMA ReadOwned ==
  ASSUME NEW s, Owned(s), NEW m \in Owners
  PROVE  Owned(ReadBody(s, m)) /\ ReadBody(s, m).body = s.body
<1> DEFINE t == ReadBody(s, m)
<1>1. Misused(s, m) = FALSE
  BY OwnerUsesRight DEF Misused, Owned
<1>2. /\ t.body = s.body /\ t.life = s.life /\ t.misused = FALSE
      /\ DOMAIN t = {"body", "life", "misused"}
  BY <1>1 DEF ReadBody, Owned
<1> HIDE DEF t
<1>3. Owned(t)
  BY <1>2 DEF Owned
<1> QED
  BY <1>2, <1>3 DEF t

\* clear() and the destructor leave a message without a body, and the body without owner.
LEMMA GoneOwned ==
  ASSUME NEW s, Owned(s), NEW m \in Owners, NEW t, t \in {ClearMessage(s, m), Destruct(s, m)}
  PROVE  /\ Owned(t) /\ t.body[m] = NoAddress
         /\ \A n \in HttpMessage \ {m} : t.body[n] = s.body[n]
<1>0. Misused(s, m) = FALSE
  BY OwnerUsesRight DEF Misused, Owned
<1>1. /\ t.body = [n \in HttpMessage |-> IF n = m THEN NoAddress ELSE s.body[n]]
      /\ t.misused = FALSE /\ DOMAIN t = {"body", "life", "misused"}
  <2>1. CASE t = ClearMessage(s, m)
    BY <1>0, <2>1 DEF ClearMessage, Owned, Owners
  <2>2. CASE t = Destruct(s, m)
    BY <1>0, <2>2 DEF Destruct, Owned, Owners
  <2> QED
    BY <2>1, <2>2
<1>2. /\ t.life \in [Address -> {"free", "alive", "dying", "lost"}]
      /\ \A b \in Address : t.life[b] = "alive" <=> s.life[b] = "alive" /\ b # s.body[m]
  <2>1. CASE t = ClearMessage(s, m)
    <3>1. t.life = [b \in Address |-> IF b = s.body[m] THEN "free" ELSE s.life[b]]
      BY <2>1 DEF ClearMessage, Owned
    <3> QED
      BY <3>1 DEF Owned
  <2>2. CASE t = Destruct(s, m)
    <3>1. t.life = [b \in Address |-> IF b = s.body[m] /\ s.life[b] # "free" THEN "dying" ELSE s.life[b]]
      BY <2>2 DEF Destruct, Owned
    <3> QED
      BY <3>1 DEF Owned
  <2> QED
    BY <2>1, <2>2
<1>3. \A b \in Address : t.life[b] = "alive" <=> \E n \in Owners : t.body[n] = b
  BY <1>1, <1>2, BodiesAssumption DEF Owned, Owners
<1>4. t.body \in [HttpMessage -> Address \cup {NoAddress}]
  BY <1>1 DEF Owned
<1>5. \A k, n \in Owners : k # n /\ t.body[k] = t.body[n] => t.body[k] = NoAddress
  BY <1>1 DEF Owned, Owners
<1> QED
  BY <1>1, <1>2, <1>3, <1>4, <1>5 DEF Owned, Owners

\* Between the request and its end: nothing is on its way yet.
Ready(s) == Owned(s) /\ s.body["response"] = NoAddress /\ s.body["argument"] = NoAddress

LEMMA RespondReady ==
  ASSUME NEW s, Owned(s), s.body["argument"] = NoAddress
  PROVE  /\ Ready(Respond(s))
         /\ Respond(s).body["requestInfo"] = s.body["requestInfo"]
         /\ Respond(s).body["kept"] = s.body["kept"]
<1> DEFINE signal == Copy(s, "response", "argument")
           written == Copy(signal, "argument", "response")
           gone == ReadBody(written, "response")
<1>0. /\ {"response", "argument"} \subseteq Owners
      /\ {"requestInfo", "kept", "response", "argument"} \subseteq HttpMessage
  BY DEF Owners, HttpMessage
<1>1. /\ Owned(signal) /\ signal.body["response"] = NoAddress
      /\ \A n \in HttpMessage \ {"response", "argument"} : signal.body[n] = s.body[n]
  BY <1>0, CopyOwned
<1> HIDE DEF signal
<1>2. /\ Owned(written) /\ written.body["argument"] = NoAddress
      /\ \A n \in HttpMessage \ {"response", "argument"} : written.body[n] = signal.body[n]
  BY <1>0, <1>1, CopyOwned
<1> HIDE DEF written
<1>3. Owned(gone) /\ gone.body = written.body
  BY <1>0, <1>2, ReadOwned
<1> HIDE DEF gone
<1>4. /\ Owned(Destruct(gone, "response")) /\ Destruct(gone, "response").body["response"] = NoAddress
      /\ \A n \in HttpMessage \ {"response"} : Destruct(gone, "response").body[n] = gone.body[n]
  BY <1>0, <1>3, GoneOwned
<1>5. Respond(s) = Destruct(gone, "response")
  BY DEF Respond, signal, written, gone
<1> QED
  BY <1>0, <1>1, <1>2, <1>3, <1>4, <1>5 DEF Ready

LEMMA ResponsesReady ==
  ASSUME NEW s, Ready(s), NEW t \in Responses(s)
  PROVE  Ready(t)
<1>0. "response" \in Owners /\ "response" \in HttpMessage /\ "argument" \in HttpMessage
  BY DEF Owners, HttpMessage
<1>1. CASE t \in {s, Respond(s)}
  BY <1>1, RespondReady DEF Ready
<1>2. ASSUME NEW b \in FreeAddresses(s), t = Respond(SetBody(s, "response", b))
      PROVE  Ready(t)
  <2> DEFINE u == SetBody(s, "response", b)
  <2>1. b \in Address /\ s.life[b] = "free"
    BY DEF FreeAddresses
  <2>2. Owned(u) /\ u.body["argument"] = s.body["argument"]
    BY <1>0, <2>1, SetBodyOwned DEF Ready
  <2> HIDE DEF u
  <2>3. Ready(Respond(u))
    BY <2>2, RespondReady DEF Ready
  <2> QED
    BY <1>2, <2>3 DEF u
<1>3. ASSUME NEW b \in FreeAddresses(s), NEW open \in BOOLEAN,
             t = Respond(SetFile(s, "response", b, open))
      PROVE  Ready(t)
  <2> DEFINE u == SetFile(s, "response", b, open)
  <2>1. b \in Address /\ s.life[b] = "free"
    BY DEF FreeAddresses
  <2>2. Owned(u) /\ u.body["argument"] = s.body["argument"]
    BY <1>0, <2>1, SetFileOwned DEF Ready
  <2> HIDE DEF u
  <2>3. Ready(Respond(u))
    BY <2>2, RespondReady DEF Ready
  <2> QED
    BY <1>3, <2>3 DEF u
<1> QED
  BY <1>1, <1>2, <1>3 DEF Responses

\* Between two requests, while the server is there, the only message with a body is the
\* one the application keeps.
Idle ==
  /\ Owned(Here)
  /\ \A m \in {"requestInfo", "response", "argument"} : body[m] = NoAddress

LEMMA BecomesIdle ==
  ASSUME NEW s, Ready(s), AndClear(s)
  PROVE  Idle'
<1> DEFINE t == ClearMessage(s, "requestInfo")
<1>1. /\ Owned(t) /\ t.body["requestInfo"] = NoAddress
      /\ t.body["response"] = NoAddress /\ t.body["argument"] = NoAddress
  <2>1. "requestInfo" \in Owners /\ {"response", "argument"} \subseteq HttpMessage \ {"requestInfo"}
    BY DEF Owners, HttpMessage
  <2> QED
    BY <2>1, GoneOwned DEF Ready
<1>2. body' = t.body /\ life' = t.life /\ misused' = t.misused
  BY DEF AndClear, BodiesBecome
<1> HIDE DEF t
<1>3. Owned(Here')
  BY <1>1, <1>2 DEF Here, Owned
<1> QED
  BY <1>1, <1>2, <1>3 DEF Idle

\* A request that is read, with lastRequest as it is or assigned to.
LEMMA RequestReady ==
  ASSUME Idle, NEW s \in Requests
  PROVE  /\ Ready(s) /\ s.body["kept"] = body["kept"]
         /\ Ready(Found(s)) /\ Found(s).body["kept"] = body["kept"]
<1>0. /\ "requestInfo" \in Owners
      /\ {"kept", "response", "argument"} \subseteq HttpMessage \ {"requestInfo", "lastRequest"}
      /\ {"requestInfo", "lastRequest"} \subseteq HttpMessage /\ "lastRequest" \notin Owners
      /\ Owners \subseteq HttpMessage
  BY DEF Owners, HttpMessage
<1>1. Here.body = body /\ Here.life = life
  BY DEF Here
<1>2. Ready(s) /\ s.body["kept"] = body["kept"]
  <2>1. CASE s = Here
    BY <1>1, <2>1 DEF Ready, Idle
  <2>2. ASSUME NEW b \in FreeAddresses(Here), s = SetBody(Here, "requestInfo", b)
        PROVE  Ready(s) /\ s.body["kept"] = body["kept"]
    <3>1. b \in Address /\ Here.life[b] = "free"
      BY DEF FreeAddresses
    <3>2. /\ Owned(SetBody(Here, "requestInfo", b))
          /\ \A n \in HttpMessage \ {"requestInfo"} : SetBody(Here, "requestInfo", b).body[n] = Here.body[n]
      BY <1>0, <3>1, SetBodyOwned DEF Idle
    <3> QED
      BY <1>0, <1>1, <2>2, <3>2 DEF Ready, Idle
  <2> QED
    BY <2>1, <2>2 DEF Requests
<1>3. Ready(Found(s)) /\ Found(s).body["kept"] = body["kept"]
  <2> DEFINE t == Found(s)
  <2>1. /\ t.body = [n \in HttpMessage |-> IF n = "lastRequest" THEN s.body["requestInfo"] ELSE s.body[n]]
        /\ t.life = s.life /\ t.misused = FALSE /\ DOMAIN t = {"body", "life", "misused"}
    BY <1>0, <1>2 DEF Found, Assign, Ready, Owned
  <2> HIDE DEF t
  <2>2. \A n \in HttpMessage \ {"lastRequest"} : t.body[n] = s.body[n]
    BY <2>1
  <2>3. Owned(t)
    <3>1. t.body \in [HttpMessage -> Address \cup {NoAddress}]
      BY <1>0, <1>2, <2>1 DEF Ready, Owned
    <3>2. \A n \in Owners : t.body[n] = s.body[n]
      BY <1>0, <2>2
    <3>3. \A b \in Address : t.life[b] = "alive" <=> \E m \in Owners : t.body[m] = b
      <4>1. \A b \in Address : s.life[b] = "alive" <=> \E m \in Owners : s.body[m] = b
        BY <1>2 DEF Ready, Owned
      <4> QED
        BY <2>1, <3>2, <4>1
    <3>4. \A m, n \in Owners : m # n /\ t.body[m] = t.body[n] => t.body[m] = NoAddress
      BY <1>2, <3>2 DEF Ready, Owned
    <3>5. t.life \in [Address -> {"free", "alive", "dying", "lost"}]
      BY <1>2, <2>1 DEF Ready, Owned
    <3> QED
      BY <2>1, <3>1, <3>3, <3>4, <3>5 DEF Owned
  <2> QED
    BY <1>0, <1>2, <2>2, <2>3 DEF Ready, t
<1> QED
  BY <1>2, <1>3

LEMMA AnsweredIdle ==
  ASSUME Idle, ServiceAnswers \/ NotFoundRequest \/ \E keeps \in BOOLEAN : ApplicationAnswers(keeps)
  PROVE  Idle'
<1>0. /\ {"requestInfo", "argument", "kept"} \subseteq Owners
      /\ {"requestInfo", "argument", "kept", "response"} \subseteq HttpMessage
  BY DEF Owners, HttpMessage
<1>1. CASE ServiceAnswers
  <2>0. PICK s \in Requests : \E t \in Responses(ReadBody(Found(s), "requestInfo")) : AndClear(t)
    BY <1>1 DEF ServiceAnswers
  <2>1. PICK t \in Responses(ReadBody(Found(s), "requestInfo")) : AndClear(t)
    BY <2>0
  <2> DEFINE u == Found(s)
  <2>2. Ready(u)
    BY RequestReady
  <2> HIDE DEF u
  <2>3. Ready(ReadBody(u, "requestInfo"))
    BY <1>0, <2>2, ReadOwned DEF Ready
  <2>4. Ready(t)
    BY <2>1, <2>3, ResponsesReady DEF u
  <2> QED
    BY <2>1, <2>4, BecomesIdle
<1>2. CASE NotFoundRequest
  <2>1. PICK s \in Requests : AndClear(Respond(ReadBody(s, "requestInfo")))
    BY <1>2 DEF NotFoundRequest
  <2>2. Ready(s)
    BY RequestReady
  <2>3. Owned(ReadBody(s, "requestInfo")) /\ ReadBody(s, "requestInfo").body = s.body
    BY <1>0, <2>2, ReadOwned DEF Ready
  <2>4. Ready(Respond(ReadBody(s, "requestInfo")))
    BY <2>2, <2>3, RespondReady DEF Ready
  <2> QED
    BY <2>1, <2>4, BecomesIdle
<1>3. ASSUME NEW keeps \in BOOLEAN, ApplicationAnswers(keeps)
      PROVE  Idle'
  <2>1. /\ keeps => body["kept"] = NoAddress
        /\ \E s \in Requests :
             LET argument == ReadBody(Copy(Found(s), "requestInfo", "argument"), "argument")
                 kept == IF keeps THEN Copy(argument, "argument", "kept") ELSE argument
             IN \E t \in Responses(Destruct(kept, "argument")) : AndClear(t)
    BY <1>3 DEF ApplicationAnswers
  <2>2. PICK s \in Requests :
          LET argument == ReadBody(Copy(Found(s), "requestInfo", "argument"), "argument")
              kept == IF keeps THEN Copy(argument, "argument", "kept") ELSE argument
          IN \E t \in Responses(Destruct(kept, "argument")) : AndClear(t)
    BY <2>1
  <2> DEFINE u == Found(s)
             copied == Copy(u, "requestInfo", "argument")
             argument == ReadBody(copied, "argument")
             kept == IF keeps THEN Copy(argument, "argument", "kept") ELSE argument
             gone == Destruct(kept, "argument")
  <2>3. PICK t \in Responses(gone) : AndClear(t)
    BY <2>2
  <2>4. Ready(u) /\ u.body["kept"] = body["kept"]
    BY RequestReady
  <2> HIDE DEF u
  <2>5. Owned(copied) /\ copied.body["kept"] = body["kept"] /\ copied.body["response"] = NoAddress
    BY <1>0, <2>4, CopyOwned DEF Ready
  <2> HIDE DEF copied
  <2>6. /\ Owned(argument) /\ argument.body["kept"] = body["kept"]
        /\ argument.body["response"] = NoAddress
    BY <1>0, <2>5, ReadOwned
  <2> HIDE DEF argument
  <2>7. Owned(kept) /\ kept.body["response"] = NoAddress
    <3>1. CASE keeps
      BY <1>0, <2>1, <2>6, <3>1, CopyOwned
    <3>2. CASE ~keeps
      BY <2>6, <3>2
    <3> QED
      BY <3>1, <3>2
  <2> HIDE DEF kept
  <2>8. Ready(gone)
    BY <1>0, <2>7, GoneOwned DEF Ready
  <2> HIDE DEF gone
  <2>9. Ready(t)
    BY <2>3, <2>8, ResponsesReady
  <2> QED
    BY <2>3, <2>9, BecomesIdle
<1> QED
  BY <1>1, <1>2, <1>3

\* What happens between requests leaves every body with its owner.
LEMMA BetweenRequests ==
  ASSUME Idle, DropKept \/ EventLoop
  PROVE  Idle'
<1>0. /\ "kept" \in Owners /\ {"requestInfo", "argument", "response"} \subseteq HttpMessage \ {"kept"}
      /\ Here.body = body /\ Here.life = life
  BY DEF Owners, HttpMessage, Here
<1>1. CASE DropKept
  <2> DEFINE last == ReadBody(Here, "kept")
             gone == Destruct(last, "kept")
  <2>1. body' = gone.body /\ life' = gone.life /\ misused' = gone.misused
    BY <1>1 DEF DropKept, BodiesBecome
  <2>2. Owned(last) /\ last.body = body
    BY <1>0, ReadOwned DEF Idle
  <2> HIDE DEF last
  <2>3. Owned(gone) /\ \A n \in HttpMessage \ {"kept"} : gone.body[n] = body[n]
    BY <1>0, <2>2, GoneOwned
  <2> HIDE DEF gone
  <2>4. Owned(Here')
    BY <2>1, <2>3 DEF Here, Owned
  <2> QED
    BY <1>0, <2>1, <2>3, <2>4 DEF Idle
<1>2. CASE EventLoop
  <2>1. /\ body' = body /\ misused' = misused
        /\ life' = [b \in Address |-> IF life[b] = "dying" THEN "free" ELSE life[b]]
    BY <1>2 DEF EventLoop
  <2>2. /\ Here'.body = body /\ Here'.life = life' /\ Here'.misused = misused
        /\ DOMAIN Here' = {"body", "life", "misused"}
    BY <2>1 DEF Here
  <2>3. Owned(Here) /\ Here.misused = misused
    BY DEF Idle, Here
  <2>4. /\ life' \in [Address -> {"free", "alive", "dying", "lost"}]
        /\ \A b \in Address : life'[b] = "alive" <=> life[b] = "alive"
    BY <1>0, <2>1, <2>3 DEF Owned
  <2>5. Owned(Here')
    BY <1>0, <2>2, <2>3, <2>4 DEF Owned
  <2> QED
    BY <2>1, <2>5 DEF Idle
<1> QED
  BY <1>1, <1>2

-----------------------------------------------------------------------------
(* Status lines: the phrases are counted block by block *)

LEMMA BlockCounted ==
  ASSUME NEW A, IsFiniteSet(A), NEW p \in Nat, NEW q \in Int, p <= q + 1, A \subseteq 0 .. p - 1
  PROVE  /\ IsFiniteSet(A \cup p..q)
         /\ Cardinality(A \cup p..q) = Cardinality(A) + (q + 1 - p)
<1> DEFINE B == p..q
<1>1. IsFiniteSet(B) /\ Cardinality(B) = q + 1 - p
  BY FS_Interval
<1>2. A \cap B = {}
  OBVIOUS
<1> HIDE DEF B
<1>3. Cardinality(A \cap B) = 0 /\ Cardinality(A) \in Nat
  BY <1>2, FS_EmptySet, FS_CardinalityType
<1>4. /\ IsFiniteSet(A \cup B)
      /\ Cardinality(A \cup B) = Cardinality(A) + Cardinality(B) - Cardinality(A \cap B)
  BY <1>1, FS_Union
<1>5. Cardinality(A \cup B) = Cardinality(A) + (q + 1 - p)
  BY <1>1, <1>3, <1>4
<1> QED
  BY <1>4, <1>5 DEF B

LEMMA PhraseMatches ==
  ASSUME NEW st \in Nat
  PROVE  PhraseIndex(st) =
           IF st \in WithPhrase THEN Cardinality({code \in WithPhrase : code < st}) ELSE NoPhrase
<1> DEFINE Below == {code \in WithPhrase : code < st}
           A == {} \cup 100..102
           B == A \cup 200..207
           C == B \cup 300..307
           D == C \cup 400..418
           E == D \cup 422..426
           F == E \cup 500..507
<1> HIDE DEF A, B, C, D, E, F, Below
<1>4. IsFiniteSet({}) /\ Cardinality({}) = 0
  BY FS_EmptySet
<1>5. IsFiniteSet(A) /\ Cardinality(A) = 3 /\ A \subseteq 0..102
  <2> DEFINE p == 100
             q == 102
  <2>1. p = 100 /\ q = 102
    OBVIOUS
  <2> HIDE DEF p, q
  <2>2. p \in Nat /\ q \in Int /\ p <= q + 1 /\ {} \subseteq 0 .. p - 1 /\ A = {} \cup p..q
    BY <1>4, <2>1 DEF A
  <2>3. IsFiniteSet(A) /\ Cardinality(A) = Cardinality({}) + (q + 1 - p)
    BY <1>4, <2>2, BlockCounted, Zenon
  <2> QED
    BY <1>4, <2>1, <2>2, <2>3
<1>6. IsFiniteSet(B) /\ Cardinality(B) = 11 /\ B \subseteq 0..207
  <2> DEFINE p == 200
             q == 207
  <2>1. p = 200 /\ q = 207
    OBVIOUS
  <2> HIDE DEF p, q
  <2>2. p \in Nat /\ q \in Int /\ p <= q + 1 /\ A \subseteq 0 .. p - 1 /\ B = A \cup p..q
    BY <1>5, <2>1 DEF B
  <2>3. IsFiniteSet(B) /\ Cardinality(B) = Cardinality(A) + (q + 1 - p)
    BY <1>5, <2>2, BlockCounted, Zenon
  <2> QED
    BY <1>5, <2>1, <2>2, <2>3
<1>7. IsFiniteSet(C) /\ Cardinality(C) = 19 /\ C \subseteq 0..307
  <2> DEFINE p == 300
             q == 307
  <2>1. p = 300 /\ q = 307
    OBVIOUS
  <2> HIDE DEF p, q
  <2>2. p \in Nat /\ q \in Int /\ p <= q + 1 /\ B \subseteq 0 .. p - 1 /\ C = B \cup p..q
    BY <1>6, <2>1 DEF C
  <2>3. IsFiniteSet(C) /\ Cardinality(C) = Cardinality(B) + (q + 1 - p)
    BY <1>6, <2>2, BlockCounted, Zenon
  <2> QED
    BY <1>6, <2>1, <2>2, <2>3
<1>8. IsFiniteSet(D) /\ Cardinality(D) = 38 /\ D \subseteq 0..418
  <2> DEFINE p == 400
             q == 418
  <2>1. p = 400 /\ q = 418
    OBVIOUS
  <2> HIDE DEF p, q
  <2>2. p \in Nat /\ q \in Int /\ p <= q + 1 /\ C \subseteq 0 .. p - 1 /\ D = C \cup p..q
    BY <1>7, <2>1 DEF D
  <2>3. IsFiniteSet(D) /\ Cardinality(D) = Cardinality(C) + (q + 1 - p)
    BY <1>7, <2>2, BlockCounted, Zenon
  <2> QED
    BY <1>7, <2>1, <2>2, <2>3
<1>9. IsFiniteSet(E) /\ Cardinality(E) = 43 /\ E \subseteq 0..426
  <2> DEFINE p == 422
             q == 426
  <2>1. p = 422 /\ q = 426
    OBVIOUS
  <2> HIDE DEF p, q
  <2>2. p \in Nat /\ q \in Int /\ p <= q + 1 /\ D \subseteq 0 .. p - 1 /\ E = D \cup p..q
    BY <1>8, <2>1 DEF E
  <2>3. IsFiniteSet(E) /\ Cardinality(E) = Cardinality(D) + (q + 1 - p)
    BY <1>8, <2>2, BlockCounted, Zenon
  <2> QED
    BY <1>8, <2>1, <2>2, <2>3
<1>10. IsFiniteSet(F) /\ Cardinality(F) = 51 /\ F \subseteq 0..507
  <2> DEFINE p == 500
             q == 507
  <2>1. p = 500 /\ q = 507
    OBVIOUS
  <2> HIDE DEF p, q
  <2>2. p \in Nat /\ q \in Int /\ p <= q + 1 /\ E \subseteq 0 .. p - 1 /\ F = E \cup p..q
    BY <1>9, <2>1 DEF F
  <2>3. IsFiniteSet(F) /\ Cardinality(F) = Cardinality(E) + (q + 1 - p)
    BY <1>9, <2>2, BlockCounted, Zenon
  <2> QED
    BY <1>9, <2>1, <2>2, <2>3
<1>11. CASE st \in 100..102
  <2> DEFINE p == 100
             q == st - 1
  <2>1. p = 100 /\ q = st - 1
    OBVIOUS
  <2> HIDE DEF p, q
  <2>2. Below = {} \cup p..q
    BY <1>11, <2>1 DEF Below, WithPhrase
  <2>3. p \in Nat /\ q \in Int /\ p <= q + 1 /\ {} \subseteq 0 .. p - 1
    BY <1>4, <1>11, <2>1
  <2>4. Cardinality(Below) = Cardinality({}) + (q + 1 - p)
    BY <1>4, <2>2, <2>3, BlockCounted, Zenon
  <2>5. Cardinality(Below) = 0 + st - 100 /\ st \in WithPhrase
    BY <1>4, <1>11, <2>1, <2>4 DEF WithPhrase
  <2> QED
    BY <1>11, <2>5 DEF PhraseIndex, Below
<1>12. CASE st \in 200..207
  <2> DEFINE p == 200
             q == st - 1
  <2>1. p = 200 /\ q = st - 1
    OBVIOUS
  <2> HIDE DEF p, q
  <2>2. Below = A \cup p..q
    BY <1>12, <2>1 DEF Below, WithPhrase, A
  <2>3. p \in Nat /\ q \in Int /\ p <= q + 1 /\ A \subseteq 0 .. p - 1
    BY <1>5, <1>12, <2>1
  <2>4. Cardinality(Below) = Cardinality(A) + (q + 1 - p)
    BY <1>5, <2>2, <2>3, BlockCounted, Zenon
  <2>5. Cardinality(Below) = 3 + st - 200 /\ st \in WithPhrase
    BY <1>5, <1>12, <2>1, <2>4 DEF WithPhrase
  <2> QED
    BY <1>12, <2>5 DEF PhraseIndex, Below
<1>13. CASE st \in 300..307
  <2> DEFINE p == 300
             q == st - 1
  <2>1. p = 300 /\ q = st - 1
    OBVIOUS
  <2> HIDE DEF p, q
  <2>2. Below = B \cup p..q
    BY <1>13, <2>1 DEF Below, WithPhrase, A, B
  <2>3. p \in Nat /\ q \in Int /\ p <= q + 1 /\ B \subseteq 0 .. p - 1
    BY <1>6, <1>13, <2>1
  <2>4. Cardinality(Below) = Cardinality(B) + (q + 1 - p)
    BY <1>6, <2>2, <2>3, BlockCounted, Zenon
  <2>5. Cardinality(Below) = 11 + st - 300 /\ st \in WithPhrase
    BY <1>6, <1>13, <2>1, <2>4 DEF WithPhrase
  <2> QED
    BY <1>13, <2>5 DEF PhraseIndex, Below
<1>14. CASE st \in 400..418
  <2> DEFINE p == 400
             q == st - 1
  <2>1. p = 400 /\ q = st - 1
    OBVIOUS
  <2> HIDE DEF p, q
  <2>2. Below = C \cup p..q
    BY <1>14, <2>1 DEF Below, WithPhrase, A, B, C
  <2>3. p \in Nat /\ q \in Int /\ p <= q + 1 /\ C \subseteq 0 .. p - 1
    BY <1>7, <1>14, <2>1
  <2>4. Cardinality(Below) = Cardinality(C) + (q + 1 - p)
    BY <1>7, <2>2, <2>3, BlockCounted, Zenon
  <2>5. Cardinality(Below) = 19 + st - 400 /\ st \in WithPhrase
    BY <1>7, <1>14, <2>1, <2>4 DEF WithPhrase
  <2> QED
    BY <1>14, <2>5 DEF PhraseIndex, Below
<1>15. CASE st \in 422..426
  <2> DEFINE p == 422
             q == st - 1
  <2>1. p = 422 /\ q = st - 1
    OBVIOUS
  <2> HIDE DEF p, q
  <2>2. Below = D \cup p..q
    BY <1>15, <2>1 DEF Below, WithPhrase, A, B, C, D
  <2>3. p \in Nat /\ q \in Int /\ p <= q + 1 /\ D \subseteq 0 .. p - 1
    BY <1>8, <1>15, <2>1
  <2>4. Cardinality(Below) = Cardinality(D) + (q + 1 - p)
    BY <1>8, <2>2, <2>3, BlockCounted, Zenon
  <2>5. Cardinality(Below) = 38 + st - 422 /\ st \in WithPhrase
    BY <1>8, <1>15, <2>1, <2>4 DEF WithPhrase
  <2> QED
    BY <1>15, <2>5 DEF PhraseIndex, Below
<1>16. CASE st \in 500..507
  <2> DEFINE p == 500
             q == st - 1
  <2>1. p = 500 /\ q = st - 1
    OBVIOUS
  <2> HIDE DEF p, q
  <2>2. Below = E \cup p..q
    BY <1>16, <2>1 DEF Below, WithPhrase, A, B, C, D, E
  <2>3. p \in Nat /\ q \in Int /\ p <= q + 1 /\ E \subseteq 0 .. p - 1
    BY <1>9, <1>16, <2>1
  <2>4. Cardinality(Below) = Cardinality(E) + (q + 1 - p)
    BY <1>9, <2>2, <2>3, BlockCounted, Zenon
  <2>5. Cardinality(Below) = 43 + st - 500 /\ st \in WithPhrase
    BY <1>9, <1>16, <2>1, <2>4 DEF WithPhrase
  <2> QED
    BY <1>16, <2>5 DEF PhraseIndex, Below
<1>17. CASE st = 510
  <2> DEFINE p == 510
             q == st - 1
  <2>1. p = 510 /\ q = st - 1
    OBVIOUS
  <2> HIDE DEF p, q
  <2>2. Below = F \cup p..q
    BY <1>17, <2>1 DEF Below, WithPhrase, A, B, C, D, E, F
  <2>3. p \in Nat /\ q \in Int /\ p <= q + 1 /\ F \subseteq 0 .. p - 1
    BY <1>10, <1>17, <2>1
  <2>4. Cardinality(Below) = Cardinality(F) + (q + 1 - p)
    BY <1>10, <2>2, <2>3, BlockCounted, Zenon
  <2>5. Cardinality(Below) = 51 + st - 510 /\ st \in WithPhrase
    BY <1>10, <1>17, <2>1, <2>4 DEF WithPhrase
  <2> QED
    BY <1>17, <2>5 DEF PhraseIndex, Below
<1>18. CASE st \notin WithPhrase
  BY <1>18 DEF PhraseIndex, WithPhrase
<1> QED
  BY <1>11, <1>12, <1>13, <1>14, <1>15, <1>16, <1>17, <1>18 DEF WithPhrase

-----------------------------------------------------------------------------

LineOk == line.phrase # OwnPhrase => line.code \in Nat /\ line.phrase = PhraseIndex(line.code)

BodiesInv == (~destroyed => Idle) /\ LineOk

LEMMA LineStep ==
  ASSUME LineOk, [BodiesNext]_bodyVars
  PROVE  LineOk'
<1>1. CASE UNCHANGED line
  BY <1>1 DEF LineOk
<1>2. ASSUME NEW st \in StatusCode, SetStatusCode(st)
      PROVE  LineOk'
  <2>1. st \in Nat
    BY BodiesAssumption
  <2> QED
    BY <1>2, <2>1 DEF SetStatusCode, LineSet, LineOk
<1>3. ASSUME NEW l \in Lines, NewResponse(l)
      PROVE  LineOk'
  <2>1. line' = l /\ StatusCode \subseteq Nat
    BY <1>3, BodiesAssumption DEF NewResponse
  <2>2. l.phrase # OwnPhrase => l.code \in Nat /\ l.phrase = PhraseIndex(l.code)
    BY <2>1 DEF Lines
  <2> QED
    BY <2>1, <2>2 DEF LineOk
<1> QED
  BY <1>1, <1>2, <1>3
    DEF BodiesNext, bodyVars, ServiceAnswers, NotFoundRequest, ApplicationAnswers, AndClear, DropKept,
        EventLoop, DestroyServer

LEMMA BodiesStep == BodiesInv /\ [BodiesNext]_bodyVars => BodiesInv'
<1> SUFFICES ASSUME BodiesInv, [BodiesNext]_bodyVars, ~destroyed' PROVE Idle'
  BY LineStep DEF BodiesInv
<1>1. ASSUME UNCHANGED <<body, life, misused, destroyed>>
      PROVE  Idle'
  <2>1. Here' = Here /\ Idle
    BY <1>1 DEF BodiesInv, Here
  <2> QED
    BY <1>1, <2>1 DEF Idle
<1>2. CASE UNCHANGED bodyVars
  BY <1>1, <1>2 DEF bodyVars
<1>3. CASE \E st \in StatusCode : SetStatusCode(st)
  BY <1>1, <1>3 DEF SetStatusCode
<1>4. CASE \E l \in Lines : NewResponse(l)
  BY <1>1, <1>4 DEF NewResponse
<1>5. CASE ServiceAnswers \/ NotFoundRequest \/ \E keeps \in BOOLEAN : ApplicationAnswers(keeps)
  <2>1. ~destroyed
    BY <1>5 DEF ServiceAnswers, NotFoundRequest, ApplicationAnswers
  <2> QED
    BY <1>5, <2>1, AnsweredIdle DEF BodiesInv
<1>6. CASE DropKept \/ EventLoop
  <2>1. ~destroyed
    BY <1>6 DEF DropKept, EventLoop
  <2> QED
    BY <1>6, <2>1, BetweenRequests DEF BodiesInv
<1>7. CASE DestroyServer
  BY <1>7 DEF DestroyServer
<1> QED
  BY <1>2, <1>3, <1>4, <1>5, <1>6, <1>7 DEF BodiesNext

LEMMA BodiesInitially == BodiesInit => BodiesInv
<1> SUFFICES ASSUME BodiesInit PROVE BodiesInv
  OBVIOUS
<1>1. Here = [body |-> [m \in HttpMessage |-> NoAddress], life |-> [b \in Address |-> "free"],
              misused |-> FALSE]
  BY DEF BodiesInit, Here
<1>2. Owned(Here)
  BY <1>1, BodiesAssumption DEF Owned, Owners
<1>3. Idle
  BY <1>2 DEF BodiesInit, Idle, HttpMessage
<1>4. LineOk
  BY DEF BodiesInit, LineOk, PhraseIndex
<1> QED
  BY <1>3, <1>4 DEF BodiesInv

\* Whatever addresses there are, and however requests, copies the application keeps and
\* the event loop follow each other: while the server is there no body is used or deleted
\* that is gone, each living one has one owner, and no code is sent with the phrase of
\* another.
THEOREM BodiesOwned == BodiesSpec => []MessagesKept
<1>1. BodiesInv => MessagesKept
  <2> SUFFICES ASSUME BodiesInv PROVE MessagesKept
    OBVIOUS
  <2>1. StatusLineMatches
    BY PhraseMatches DEF BodiesInv, LineOk, StatusLineMatches
  <2>2. ASSUME ~destroyed
        PROVE  ~misused
    BY <2>2 DEF BodiesInv, Idle, Owned, Here
  <2>3. ASSUME ~destroyed, NEW b \in Address
        PROVE  life[b] = "alive" <=> Cardinality({m \in HttpMessage \ {"lastRequest"} : body[m] = b}) = 1
    <3> DEFINE S == {m \in Owners : body[m] = b}
    <3>1. Owned(Here) /\ Here.body = body /\ Here.life = life
      BY <2>3 DEF BodiesInv, Idle, Here
    <3>2. /\ life[b] = "alive" <=> S # {}
          /\ \A m, n \in S : m = n
      BY <3>1, BodiesAssumption DEF Owned
    <3>3. S = {} \/ \E m : S = {m}
      BY <3>2
    <3>4. IsFiniteSet(S) /\ (Cardinality(S) = 1 <=> S # {})
      <4> HIDE DEF S
      <4> QED
        BY <3>3, FS_EmptySet, FS_Singleton
    <3> QED
      BY <3>2, <3>4 DEF Owners
  <2> QED
    BY <2>1, <2>2, <2>3 DEF MessagesKept, BodiesUsedAlive
<1> QED
  BY <1>1, BodiesInitially, BodiesStep, PTL DEF BodiesSpec

-----------------------------------------------------------------------------
(* HttpHeader.  A header that was read and is valid is the whole text of the header there *)
(* is, and the first entry of each key has what was set last.                           *)

Entries == [key : HeaderKey, spelling : Spelling, value : HeaderValue]

HeaderShape ==
  /\ DOMAIN header = {"kind", "valid", "first", "version", "values"}
  /\ header.kind \in {"request", "response"}
  /\ header.values \in Seq(Entries)
  /\ header.first \in Seq(ToSet(header.first))
  /\ lastSet \in [HeaderKey -> HeaderValue \cup {""}]

SetLast == \A k \in HeaderKey : ValueOf(header.values, k) = lastSet[k]

HeaderInv ==
  /\ HeaderShape /\ SetLast
  /\ read.valid => read = ParseHeader(header.kind, HeaderText(header))

LEMMA OfItsOwn ==
  ASSUME NEW S, NEW s \in Seq(S)
  PROVE  s \in Seq(ToSet(s))
BY DEF ToSet

LEMMA BehindFirst ==
  ASSUME NEW word, NEW words, words \in Seq(ToSet(words))
  PROVE  <<word>> \o words \in Seq(ToSet(<<word>> \o words))
<1> DEFINE S == {word} \cup ToSet(words)
<1>1. ToSet(words) \subseteq S /\ word \in S
  OBVIOUS
<1> HIDE DEF S
<1>2. <<word>> \in Seq(S) /\ words \in Seq(S)
  BY <1>1, SeqMonotonic
<1>3. <<word>> \o words \in Seq(S)
  BY <1>2
<1> QED
  BY <1>3, OfItsOwn

LEMMA SearchKeyIs ==
  ASSUME NEW values \in Seq(Entries), NEW key, NEW i \in EntriesOf(values, key),
         \A j \in EntriesOf(values, key) : i <= j
  PROVE  HasKey(values, key) /\ SearchKey(values, key) = i /\ ValueOf(values, key) = values[i].value
<1>1. EntriesOf(values, key) \subseteq Nat
  BY DEF EntriesOf
<1>2. \A j \in EntriesOf(values, key) : (\A m \in EntriesOf(values, key) : j <= m) => j = i
  BY <1>1
<1>3. SearchKey(values, key) = i
  BY <1>2 DEF SearchKey
<1> QED
  BY <1>3 DEF HasKey, ValueOf

LEMMA SearchKeyFirst ==
  ASSUME NEW values \in Seq(Entries), NEW key, HasKey(values, key)
  PROVE  /\ SearchKey(values, key) \in EntriesOf(values, key)
         /\ \A j \in EntriesOf(values, key) : SearchKey(values, key) <= j
         /\ ValueOf(values, key) = values[SearchKey(values, key)].value
<1>1. EntriesOf(values, key) \in SUBSET Nat /\ EntriesOf(values, key) # {}
  BY DEF EntriesOf, HasKey
<1>2. PICK i \in EntriesOf(values, key) : \A j \in EntriesOf(values, key) : i <= j
  BY <1>1, LeastNumber
<1> QED
  BY <1>2, SearchKeyIs

\* A new entry is behind those there are.
LEMMA ValueAdded ==
  ASSUME NEW values \in Seq(Entries), NEW entry \in Entries, NEW k \in HeaderKey
  PROVE  /\ Append(values, entry) \in Seq(Entries)
         /\ ValueOf(Append(values, entry), k) =
              IF k = entry.key /\ ~HasKey(values, k) THEN entry.value ELSE ValueOf(values, k)
<1> DEFINE more == Append(values, entry)
           n == Len(values)
<1>1. /\ more \in Seq(Entries) /\ n \in Nat /\ DOMAIN more = 1 .. n + 1 /\ DOMAIN values = 1..n
      /\ \A i \in 1..n : more[i] = values[i]
      /\ more[n + 1] = entry
  OBVIOUS
<1> HIDE DEF more, n
<1>2. EntriesOf(more, k) = EntriesOf(values, k) \cup {i \in {n + 1} : entry.key = k}
  BY <1>1 DEF EntriesOf
<1>3. EntriesOf(values, k) \subseteq 1..n
  BY <1>1 DEF EntriesOf
<1>4. CASE HasKey(values, k)
  <2> DEFINE i == SearchKey(values, k)
  <2>1. /\ i \in EntriesOf(values, k) /\ \A j \in EntriesOf(values, k) : i <= j
        /\ ValueOf(values, k) = values[i].value
    BY <1>4, SearchKeyFirst
  <2> HIDE DEF i
  <2>2. i \in EntriesOf(more, k) /\ \A j \in EntriesOf(more, k) : i <= j
    BY <1>1, <1>2, <1>3, <2>1
  <2>3. ValueOf(more, k) = more[i].value
    BY <1>1, <2>2, SearchKeyIs
  <2> QED
    BY <1>1, <1>3, <1>4, <2>1, <2>3 DEF more
<1>5. CASE ~HasKey(values, k)
  <2>1. EntriesOf(values, k) = {} /\ ValueOf(values, k) = ""
    BY <1>5 DEF HasKey, ValueOf
  <2>2. CASE entry.key = k
    <3>1. EntriesOf(more, k) = {n + 1}
      BY <1>2, <2>1, <2>2
    <3>2. ValueOf(more, k) = more[n + 1].value
      BY <1>1, <3>1, SearchKeyIs
    <3> QED
      BY <1>1, <1>5, <2>2, <3>2 DEF more
  <2>3. CASE entry.key # k
    <3>1. EntriesOf(more, k) = {}
      BY <1>2, <2>1, <2>3
    <3>2. ValueOf(more, k) = ""
      BY <3>1 DEF ValueOf, HasKey
    <3> QED
      BY <1>1, <2>1, <2>3, <3>2 DEF more
  <2> QED
    BY <2>2, <2>3
<1> QED
  BY <1>4, <1>5

\* An entry that is there keeps its key, and is the first of it.
LEMMA ValueReplaced ==
  ASSUME NEW values \in Seq(Entries), NEW key \in HeaderKey, HasKey(values, key),
         NEW value \in HeaderValue, NEW k \in HeaderKey
  PROVE  /\ [values EXCEPT ![SearchKey(values, key)].value = value] \in Seq(Entries)
         /\ ValueOf([values EXCEPT ![SearchKey(values, key)].value = value], k) =
              IF k = key THEN value ELSE ValueOf(values, k)
<1> DEFINE i == SearchKey(values, key)
           new == [values EXCEPT ![i].value = value]
           n == Len(values)
<1>1. i \in EntriesOf(values, key) /\ \A j \in EntriesOf(values, key) : i <= j
  BY SearchKeyFirst
<1> HIDE DEF i
<1>2. i \in 1..n /\ values[i].key = key /\ n \in Nat /\ DOMAIN values = 1..n
  BY <1>1 DEF EntriesOf
<1>3. \A j \in 1..n : values[j] \in Entries
  BY <1>2
<1>4. /\ DOMAIN new = 1..n
      /\ \A j \in 1..n : new[j] = IF j = i THEN [values[i] EXCEPT !.value = value] ELSE values[j]
  BY <1>2
<1>5. [values[i] EXCEPT !.value = value] \in Entries
  BY <1>2, <1>3 DEF Entries
<1>6. \A j \in 1..n : new[j] \in Entries /\ new[j].key = values[j].key /\ (j # i => new[j] = values[j])
  BY <1>2, <1>3, <1>4, <1>5 DEF Entries
<1>7. new[i].value = value
  BY <1>2, <1>3, <1>4 DEF Entries
<1>8. new \in Seq(Entries)
  <2>1. new = [j \in 1..n |-> new[j]]
    BY <1>2
  <2> HIDE DEF new
  <2> QED
    BY <1>2, <1>6, <2>1
<1> HIDE DEF new
<1>9. \A m : EntriesOf(new, m) = EntriesOf(values, m)
  BY <1>2, <1>4, <1>6 DEF EntriesOf
<1>10. CASE k = key
  <2>1. ValueOf(new, k) = new[i].value
    BY <1>1, <1>8, <1>9, <1>10, SearchKeyIs
  <2> QED
    BY <1>7, <1>8, <1>10, <2>1 DEF new, i
<1>11. CASE k # key /\ HasKey(values, k)
  <2> DEFINE m == SearchKey(values, k)
  <2>1. /\ m \in EntriesOf(values, k) /\ \A j \in EntriesOf(values, k) : m <= j
        /\ ValueOf(values, k) = values[m].value
    BY <1>11, SearchKeyFirst
  <2> HIDE DEF m
  <2>2. m \in 1..n /\ m # i
    BY <1>2, <1>11, <2>1 DEF EntriesOf
  <2>3. ValueOf(new, k) = new[m].value
    BY <1>8, <1>9, <2>1, SearchKeyIs
  <2> QED
    BY <1>6, <1>8, <1>11, <2>1, <2>2, <2>3 DEF new, i
<1>12. CASE k # key /\ ~HasKey(values, k)
  BY <1>8, <1>9, <1>12 DEF ValueOf, HasKey, new, i
<1> QED
  BY <1>10, <1>11, <1>12

LEMMA HeaderStep == HeaderInv /\ [HeaderNext]_headerVars => HeaderInv'
<1> SUFFICES ASSUME HeaderInv, [HeaderNext]_headerVars PROVE HeaderInv'
  OBVIOUS
<1>0. /\ DOMAIN header = {"kind", "valid", "first", "version", "values"}
      /\ header.values \in Seq(Entries) /\ header.first \in Seq(ToSet(header.first))
      /\ lastSet \in [HeaderKey -> HeaderValue \cup {""}]
      /\ \A k \in HeaderKey : ValueOf(header.values, k) = lastSet[k]
  BY DEF HeaderInv, HeaderShape, SetLast
<1>1. CASE UNCHANGED headerVars
  BY <1>1 DEF headerVars, HeaderInv, HeaderShape, SetLast
<1>2. ASSUME NEW path \in Path, NEW version \in Version, SetRequest(path, version)
      PROVE  HeaderInv'
  <2>1. header' = [header EXCEPT !.valid = TRUE, !.first = << <<"method">> >> \o path, !.version = version]
    BY <1>2 DEF SetRequest
  <2>2. /\ DOMAIN header' = DOMAIN header /\ header'.kind = header.kind
        /\ header'.values = header.values /\ header'.first = << <<"method">> >> \o path
    BY <1>0, <2>1
  <2>3. << <<"method">> >> \o path \in Seq(ToSet(<< <<"method">> >> \o path))
    BY HeaderAssumption, BehindFirst
  <2>4. lastSet' = lastSet /\ ~read'.valid
    BY <1>2 DEF SetRequest, NotRead
  <2> QED
    BY <2>2, <2>3, <2>4 DEF HeaderInv, HeaderShape, SetLast
<1>3. ASSUME NEW reason \in Reason, NEW version \in Version, NewResponseHeader(reason, version)
      PROVE  HeaderInv'
  <2>1. /\ DOMAIN header' = {"kind", "valid", "first", "version", "values"} /\ header'.kind = "response"
        /\ header'.values = <<>>
        /\ header'.first = IF reason = <<>> THEN << <<"0">> >> ELSE << <<"code">> >> \o reason
    BY <1>3 DEF NewResponseHeader
  <2>2. header'.first \in Seq(ToSet(header'.first))
    <3>1. << <<"0">> >> \in Seq(ToSet(<< <<"0">> >>))
      <4>1. << <<"0">> >> \in Seq({<<"0">>})
        OBVIOUS
      <4> QED
        BY <4>1, OfItsOwn, Zenon
    <3>2. << <<"code">> >> \o reason \in Seq(ToSet(<< <<"code">> >> \o reason))
      BY HeaderAssumption, BehindFirst
    <3> QED
      BY <2>1, <3>1, <3>2
  <2>3. lastSet' = [k \in HeaderKey |-> ""] /\ ~read'.valid
    BY <1>3 DEF NewResponseHeader, NotRead
  <2>4. header'.values \in Seq(Entries) /\ \A k \in HeaderKey : ValueOf(header'.values, k) = ""
    BY <2>1 DEF ValueOf, HasKey, EntriesOf
  <2>5. lastSet' \in [HeaderKey -> HeaderValue \cup {""}] /\ \A k \in HeaderKey : lastSet'[k] = ""
    BY <2>3
  <2>6. HeaderShape'
    BY <2>1, <2>2, <2>4, <2>5 DEF HeaderShape
  <2>7. SetLast'
    BY <2>4, <2>5 DEF SetLast
  <2> QED
    BY <2>3, <2>6, <2>7 DEF HeaderInv
<1>4. ASSUME NEW lineCut \in 0 .. Len(header.values), ReadText(lineCut)
      PROVE  HeaderInv'
  <2>1. UNCHANGED <<header, lastSet>>
    BY <1>4 DEF ReadText
  <2>2. read'.valid => read' = ParseHeader(header.kind, HeaderText(header))
    <3> DEFINE whole == ParseHeader(header.kind, HeaderText(header))
    <3>1. read' = IF lineCut = 0 THEN whole
                  ELSE [whole EXCEPT !.valid = FALSE, !.values = SubSeq(@, 1, lineCut - 1)]
      BY <1>4 DEF ReadText
    <3>2. "valid" \in DOMAIN whole /\ "values" \in DOMAIN whole
      BY DEF ParseHeader
    <3> HIDE DEF whole
    <3>3. ~[whole EXCEPT !.valid = FALSE, !.values = SubSeq(@, 1, lineCut - 1)].valid
      BY <3>2
    <3> QED
      BY <3>1, <3>3 DEF whole
  <2> QED
    BY <2>1, <2>2 DEF HeaderInv, HeaderShape, SetLast
<1>5. ASSUME NEW key \in HeaderKey, NEW spelling \in Spelling, NEW value \in HeaderValue,
             \/ AddHeaderValue(key, spelling, value)
             \/ SetHeaderValue(key, spelling, value)
      PROVE  HeaderInv'
  <2> DEFINE entry == Entry(key, spelling, value)
             values == header.values
             longer == Append(values, entry)
             replaced == [values EXCEPT ![SearchKey(values, key)].value = value]
  <2>1. entry \in Entries /\ entry.key = key /\ entry.value = value
    BY DEF Entry, Entries
  <2>2. /\ lastSet' \in [HeaderKey -> HeaderValue \cup {""}]
        /\ ~read'.valid
    <3>1. lastSet' \in {lastSet, [lastSet EXCEPT ![key] = value]} /\ read' = NotRead
      BY <1>5 DEF AddHeaderValue, SetHeaderValue
    <3> QED
      BY <1>0, <3>1 DEF NotRead
  <2>3. CASE header' = [header EXCEPT !.values = longer] /\ (~HasKey(values, key) => lastSet' = [lastSet EXCEPT ![key] = value])
               /\ (HasKey(values, key) => lastSet' = lastSet)
    <3>1. /\ DOMAIN header' = DOMAIN header /\ header'.kind = header.kind
          /\ header'.first = header.first /\ header'.values = longer
      BY <1>0, <2>3
    <3>2. longer \in Seq(Entries)
      BY <1>0, <2>1, ValueAdded
    <3>3. ASSUME NEW k \in HeaderKey
          PROVE  ValueOf(longer, k) = lastSet'[k]
      <4>1. ValueOf(longer, k) = IF k = entry.key /\ ~HasKey(values, k) THEN entry.value ELSE ValueOf(values, k)
        BY <1>0, <2>1, ValueAdded
      <4> HIDE DEF entry, longer
      <4> QED
        BY <1>0, <2>1, <2>3, <4>1
    <3> HIDE DEF longer
    <3> QED
      BY <1>0, <2>2, <3>1, <3>2, <3>3 DEF HeaderInv, HeaderShape, SetLast
  <2>4. CASE HasKey(values, key) /\ header' = [header EXCEPT !.values = replaced] /\ lastSet' = [lastSet EXCEPT ![key] = value]
    <3>1. /\ DOMAIN header' = DOMAIN header /\ header'.kind = header.kind
          /\ header'.first = header.first /\ header'.values = replaced
      BY <1>0, <2>4
    <3>2. replaced \in Seq(Entries)
      BY <1>0, <2>4, ValueReplaced
    <3>3. ASSUME NEW k \in HeaderKey
          PROVE  ValueOf(replaced, k) = lastSet'[k]
      <4>0. HasKey(values, key) /\ values \in Seq(Entries)
        BY <1>0, <2>4
      <4>1. ValueOf(replaced, k) = IF k = key THEN value ELSE ValueOf(values, k)
        BY <4>0, ValueReplaced
      <4> HIDE DEF replaced
      <4> QED
        BY <1>0, <2>4, <4>1
    <3> HIDE DEF replaced
    <3> QED
      BY <1>0, <2>2, <3>1, <3>2, <3>3 DEF HeaderInv, HeaderShape, SetLast
  <2>5. CASE AddHeaderValue(key, spelling, value)
    BY <2>3, <2>5 DEF AddHeaderValue
  <2>6. CASE SetHeaderValue(key, spelling, value) /\ HasKey(values, key)
    BY <2>4, <2>6 DEF SetHeaderValue
  <2>7. CASE SetHeaderValue(key, spelling, value) /\ ~HasKey(values, key)
    BY <2>3, <2>7 DEF SetHeaderValue
  <2> QED
    BY <1>5, <2>5, <2>6, <2>7
<1> QED
  BY <1>1, <1>2, <1>3, <1>4, <1>5 DEF HeaderNext

\* An ordinary first line is read as it was.
LEMMA FirstLineRead ==
  ASSUME HeaderShape, Ordinary(header)
  PROVE  LET whole == ParseHeader(header.kind, HeaderText(header))
         IN /\ whole.first = header.first /\ whole.version = header.version
            /\ whole.values = ParseLines(header.values)
<1> DEFINE first == header.first
           v == header.version
           word == VersionWord(v)
<1>1. v \in (0..9) \X (0..9) /\ v = <<v[1], v[2]>> /\ v[1] \in 0..9 /\ v[2] \in 0..9
  BY DEF Ordinary
<1>2. word[1] = "version" /\ word[2] = v[1] /\ word[3] = v[2]
  BY DEF VersionWord
<1> HIDE DEF word
<1>3. IsVersion(word) /\ ParseVersion(word) = v /\ word[3] <= 9
  BY <1>1, <1>2 DEF IsVersion, ParseVersion, FirstDigit
<1>4. PICK S : first \in Seq(S) /\ word \in S
  <2> DEFINE S == ToSet(first) \cup {word}
  <2>1. first \in Seq(ToSet(first)) /\ ToSet(first) \subseteq S /\ word \in S
    BY DEF HeaderShape
  <2> HIDE DEF S, first
  <2>2. first \in Seq(S)
    BY <2>1, SeqMonotonic
  <2> QED
    BY <2>1, <2>2 DEF first
<1> HIDE DEF first, v
<1>5. CASE header.kind = "request"
  <2>1. Len(first) = 2
    BY <1>5 DEF Ordinary, first
  <2> DEFINE words == first \o <<word>>
  <2>2. /\ words \in Seq(S) /\ Len(words) = 3 /\ words[3] = word
        /\ words[1] = first[1] /\ words[2] = first[2]
    <3>1. <<word>> \in Seq(S) /\ Len(<<word>>) = 1 /\ <<word>>[1] = word
      BY <1>4
    <3>2. {1, 2, 3} \subseteq 1 .. Len(first) + Len(<<word>>)
      BY <2>1, <3>1
    <3> QED
      BY <1>4, <2>1, <3>1, <3>2, ConcatProperties
  <2>3. HeaderText(header) = [first |-> words, lines |-> header.values, markerLeft |-> FALSE]
    BY <1>5 DEF HeaderText, first, word, v
  <2> HIDE DEF words
  <2>4. SubSeq(words, 1, 2) = first
    BY <1>4, <2>1, <2>2
  <2>5. ParseRequestLine(words) = [first |-> first, version |-> v]
    BY <1>3, <2>2, <2>4 DEF ParseRequestLine
  <2> QED
    BY <1>5, <2>3, <2>5 DEF ParseHeader, first, v
<1>6. CASE header.kind = "response"
  <2>1. header.first[2] # PlaceMarker
    BY <1>6 DEF Ordinary
  <2> DEFINE words == <<word>> \o first
  <2>2. words \in Seq(S) /\ words[1] = word /\ Tail(words) = first
    BY <1>4
  <2>3. HeaderText(header) = [first |-> words, lines |-> header.values, markerLeft |-> FALSE]
    BY <1>6, <2>1 DEF HeaderText, first, word, v
  <2> HIDE DEF words
  <2>4. ParseStatusLine(words) = [first |-> first, version |-> v]
    BY <1>3, <2>2 DEF ParseStatusLine
  <2> QED
    BY <1>6, <2>3, <2>4 DEF ParseHeader, first, v
<1> QED
  BY <1>5, <1>6 DEF HeaderShape

\* The lines keep their keys and their order, and their values are trimmed.
LEMMA LinesRead ==
  ASSUME NEW values \in Seq(Entries), NEW k, HasKey(values, k)
  PROVE  /\ Len(ParseLines(values)) = Len(values)
         /\ ValueOf(ParseLines(values), k) = Trimmed[ValueOf(values, k)]
<1> DEFINE new == ParseLines(values)
           n == Len(values)
           i == SearchKey(values, k)
<1>1. n \in Nat /\ DOMAIN values = 1..n /\ \A j \in 1..n : values[j] \in Entries
  OBVIOUS
<1>2. DOMAIN new = 1..n /\ \A j \in 1..n : new[j] = [values[j] EXCEPT !.value = Trimmed[@]]
  BY <1>1 DEF ParseLines
<1>3. ASSUME NEW j \in 1..n
      PROVE  new[j] \in Entries /\ new[j].key = values[j].key /\ new[j].value = Trimmed[values[j].value]
  BY <1>1, <1>2, HeaderAssumption DEF Entries
<1>4. new \in Seq(Entries) /\ Len(new) = n
  <2>1. new = [j \in 1..n |-> new[j]]
    BY <1>1 DEF ParseLines
  <2> HIDE DEF new
  <2> QED
    BY <1>1, <1>3, <2>1
<1> HIDE DEF new, n
<1>5. EntriesOf(new, k) = EntriesOf(values, k) /\ EntriesOf(values, k) \subseteq 1..n
  BY <1>1, <1>2, <1>3 DEF EntriesOf
<1>6. /\ i \in EntriesOf(values, k) /\ \A j \in EntriesOf(values, k) : i <= j
      /\ ValueOf(values, k) = values[i].value
  BY SearchKeyFirst
<1> HIDE DEF i
<1>7. ValueOf(new, k) = new[i].value
  BY <1>4, <1>5, <1>6, SearchKeyIs
<1> QED
  BY <1>3, <1>4, <1>5, <1>6, <1>7 DEF new, n

LEMMA HeaderInitially == HeaderInit => HeaderInv
<1> SUFFICES ASSUME HeaderInit PROVE HeaderInv
  OBVIOUS
<1>1. /\ DOMAIN header = {"kind", "valid", "first", "version", "values"}
      /\ header.kind = "request" /\ header.first = <<>> /\ header.values = <<>>
  BY DEF HeaderInit
<1>2. header.values \in Seq(Entries) /\ \A k \in HeaderKey : ValueOf(header.values, k) = ""
  BY <1>1 DEF ValueOf, HasKey, EntriesOf
<1>3. /\ lastSet \in [HeaderKey -> HeaderValue \cup {""}] /\ \A k \in HeaderKey : lastSet[k] = ""
      /\ ~read.valid
  BY DEF HeaderInit, NotRead
<1>4. header.first \in Seq(ToSet(header.first))
  BY <1>1
<1>5. HeaderShape
  BY <1>1, <1>2, <1>3, <1>4 DEF HeaderShape
<1>6. SetLast
  BY <1>2, <1>3 DEF SetLast
<1> QED
  BY <1>3, <1>5, <1>6 DEF HeaderInv

\* Whatever a header is built of and however often: what is read is what was written, and
\* under each key is what was set last.
THEOREM HeadersTravel == HeaderSpec => []HeaderTravels
<1>1. HeaderInv => HeaderTravels
  <2> SUFFICES ASSUME HeaderInv PROVE HeaderTravels
    OBVIOUS
  <2>1. HeaderShape /\ \A k \in HeaderKey : ValueOf(header.values, k) = lastSet[k]
    BY DEF HeaderInv, SetLast
  <2>2. ASSUME read.valid, Ordinary(header)
        PROVE  /\ read.first = header.first /\ read.version = header.version
               /\ read.values = ParseLines(header.values)
    <3>1. read = ParseHeader(header.kind, HeaderText(header))
      BY <2>2 DEF HeaderInv
    <3> QED
      BY <2>1, <2>2, <3>1, FirstLineRead
  <2>3. header.values \in Seq(Entries)
    BY <2>1 DEF HeaderShape
  <2>5. Len(ParseLines(header.values)) = Len(header.values)
    <3>1. Len(header.values) \in Nat /\ DOMAIN ParseLines(header.values) = 1 .. Len(header.values)
      BY <2>3 DEF ParseLines
    <3> QED
      BY <3>1 DEF ParseLines
  <2>4. ASSUME NEW k \in HeaderKey, HasKey(header.values, k)
        PROVE  ValueOf(ParseLines(header.values), k) = Trimmed[lastSet[k]]
    <3>1. ValueOf(ParseLines(header.values), k) = Trimmed[ValueOf(header.values, k)]
      BY <2>3, <2>4, LinesRead
    <3> QED
      BY <2>1, <3>1
  <2> QED
    BY <2>1, <2>2, <2>4, <2>5 DEF HeaderTravels
<1> QED
  BY <1>1, HeaderInitially, HeaderStep, PTL DEF HeaderSpec

-----------------------------------------------------------------------------
(* The types of the parts *)

HeadTyped(h) == h.length \in Int /\ h.status \in {0, 200, 206, 404}

LEMMA LengthTyped ==
  ASSUME NEW range \in [first : Int, second : Int], NEW size \in Nat
  PROVE  ContentLength(range, size) \in Int
BY DEF ContentLength

\* A session, the request it answers and its response have their types.
THEOREM ContentTypes == ContentSpec => []ContentTypeOK
<1> DEFINE Flags == connected \in BOOLEAN /\ lastCloses \in BOOLEAN /\ useChunked \in BOOLEAN
           Typed == Flags /\ HeadTyped(head)
<1>0. HeadTyped(NoHead)
  BY DEF HeadTyped, NoHead
<1>1. ContentInit => Typed
  BY <1>0 DEF ContentInit
<1>2. ContentInv /\ Typed /\ [ContentNext]_contentVars => Typed'
  <2> SUFFICES ASSUME ContentInv, Typed, [ContentNext]_contentVars PROVE Typed'
    OBVIOUS
  <2>1. WholeEntity \in [first : Int, second : Int] /\ 0 \in Nat
    BY DEF WholeEntity
  <2>2. ASSUME UNCHANGED contentVars PROVE Typed'
    BY <2>2 DEF contentVars
  <2>3. CASE NewClient
    BY <1>0, <2>3 DEF NewClient
  <2>4. CASE ClientLeaves
    BY <2>4 DEF ClientLeaves
  <2>5. CASE NotifyFallback
    <3>2. HeadTyped(head')
      <4>1. ContentLength(WholeEntity, 0) \in Int
        BY <2>1, LengthTyped
      <4>2. head' = ResponseHead(200, WholeEntity, 0, FALSE, FALSE, lastCloses)
        BY <2>5 DEF NotifyFallback
      <4>3. /\ head'.status = 200
            /\ head'.length \in {-1, ContentLength(WholeEntity, 0)}
        BY <4>2 DEF ResponseHead
      <4> QED
        BY <4>1, <4>3 DEF HeadTyped
    <3>3. Flags'
      BY <2>5 DEF NotifyFallback, Asked
    <3> QED
      BY <3>2, <3>3
  <2>6. ASSUME NEW r \in Ranges, NotFound(r) PROVE Typed'
    <3>2. HeadTyped(head')
      <4>1. ContentLength(WholeEntity, 0) \in Int
        BY <2>1, LengthTyped
      <4>2. head' = ResponseHead(404, WholeEntity, 0, TRUE, useChunked, lastCloses)
        BY <2>6 DEF NotFound
      <4>3. /\ head'.status = 404
            /\ head'.length \in {-1, ContentLength(WholeEntity, 0)}
        BY <4>2 DEF ResponseHead
      <4> QED
        BY <4>1, <4>3 DEF HeadTyped
    <3>3. Flags'
      BY <2>6 DEF NotFound, Asked
    <3> QED
      BY <3>2, <3>3
  <2>7. ASSUME NEW r \in Ranges, NEW closes \in BOOLEAN, NEW source \in Sources, GetText(source, r, closes)
        PROVE  Typed'
    <3>1. source.size \in Nat
      BY SourceShape
    <3>2. HeadTyped(head')
      <4>1. ContentLength(WholeEntity, source.size) \in Int
        BY <2>1, <3>1, LengthTyped
      <4>2. head' = ResponseHead(200, WholeEntity, source.size, FALSE, FALSE, closes)
        BY <2>7 DEF GetText
      <4>3. /\ head'.status = 200
            /\ head'.length \in {-1, ContentLength(WholeEntity, source.size)}
        BY <4>2 DEF ResponseHead
      <4> QED
        BY <4>1, <4>3 DEF HeadTyped
    <3>3. Flags'
      BY <2>7 DEF GetText, Asked
    <3> QED
      BY <3>2, <3>3
  <2>8. ASSUME NEW r \in Ranges, NEW size \in Nat
        PROVE  FileRange(r, size) \in [first : Int, second : Int] /\ FileStatus(r) \in {200, 206, 404}
    BY FileRangeShape DEF FileStatus
  <2>9. ASSUME NEW r \in Ranges, NEW closes \in BOOLEAN, NEW chunked \in BOOLEAN,
               GetNoFile(r, closes, chunked)
        PROVE  Typed'
    <3>2. HeadTyped(head')
      <4>1. ContentLength(FileRange(r, 0), 0) \in Int
        BY <2>1, <2>8, LengthTyped
      <4>2. head' = ResponseHead(FileStatus(r), FileRange(r, 0), 0, FALSE, chunked, closes)
        BY <2>9 DEF GetNoFile
      <4>3. /\ head'.status = FileStatus(r)
            /\ head'.length \in {-1, ContentLength(FileRange(r, 0), 0)}
        BY <4>2 DEF ResponseHead
      <4> QED
        BY <4>1, <2>8, <4>3 DEF HeadTyped
    <3>3. Flags'
      BY <2>9 DEF GetNoFile, Asked
    <3> QED
      BY <3>2, <3>3
  <2>10. ASSUME NEW r \in Ranges, NEW closes \in BOOLEAN, NEW chunked \in BOOLEAN, NEW source \in Sources,
                GetFile(source, r, closes, chunked)
         PROVE  Typed'
    <3>1. source.size \in Nat
      BY SourceShape
    <3>2. HeadTyped(head')
      <4>1. ContentLength(FileRange(r, source.size), source.size) \in Int
        BY <2>8, <3>1, LengthTyped
      <4>2. head' = ResponseHead(FileStatus(r), FileRange(r, source.size), source.size, FALSE, chunked, closes)
        BY <2>10 DEF GetFile
      <4>3. /\ head'.status = FileStatus(r)
            /\ head'.length \in {-1, ContentLength(FileRange(r, source.size), source.size)}
        BY <4>2 DEF ResponseHead
      <4> QED
        BY <4>1, <2>8, <4>3 DEF HeadTyped
    <3>3. Flags'
      BY <2>10 DEF GetFile, Asked
    <3> QED
      BY <3>2, <3>3
  <2>11. CASE WriteBlock
    BY <2>11 DEF WriteBlock
  <2>12. CASE Written
    BY <2>12 DEF Written
  <2> HIDE DEF Typed
  <2> QED
    BY <2>2, <2>3, <2>4, <2>5, <2>6, <2>7, <2>9, <2>10, <2>11, <2>12 DEF ContentNext
<1>3. ContentInv /\ Typed => ContentTypeOK
  BY DEF ContentInv, ContentShape, Entities, HeadTyped, ContentTypeOK
<1> QED
  BY <1>1, <1>2, <1>3, ContentInitially, ContentStep, PTL DEF ContentSpec

\* Bodies and status lines have their types, though after the server is gone nobody may
\* own what is read.
BodyTyped(s) ==
  /\ DOMAIN s = {"body", "life", "misused"}
  /\ s.body \in [HttpMessage -> Address \cup {NoAddress}]
  /\ s.life \in [Address -> {"free", "alive", "dying", "lost"}] /\ s.misused \in BOOLEAN

LEMMA DestructTyped ==
  ASSUME NEW s, BodyTyped(s), NEW m \in HttpMessage
  PROVE  BodyTyped(Destruct(s, m)) /\ BodyTyped(ReadBody(s, m))
<1>1. Misused(s, m) \in BOOLEAN
  BY DEF Misused, BodyTyped
<1>2. /\ ReadBody(s, m).body = s.body /\ ReadBody(s, m).life = s.life
      /\ ReadBody(s, m).misused = Misused(s, m) /\ DOMAIN ReadBody(s, m) = {"body", "life", "misused"}
  BY DEF ReadBody, BodyTyped
<1>3. /\ Destruct(s, m).body = [n \in HttpMessage |-> IF n = m THEN NoAddress ELSE s.body[n]]
      /\ Destruct(s, m).life = [b \in Address |-> IF b = s.body[m] /\ s.life[b] # "free" THEN "dying" ELSE s.life[b]]
      /\ Destruct(s, m).misused = Misused(s, m) /\ DOMAIN Destruct(s, m) = {"body", "life", "misused"}
  BY DEF Destruct, BodyTyped
<1> QED
  BY <1>1, <1>2, <1>3 DEF BodyTyped

\* Messages, addresses and status lines have their types, also when the server is gone.
THEOREM BodiesTypes == BodiesSpec => []BodiesTypeOK
<1> DEFINE Typed == /\ BodyTyped(Here) /\ destroyed \in BOOLEAN
                    /\ line \in Lines \cup {[code |-> 200, phrase |-> 3]}
<1>0. Idle => BodyTyped(Here)
  BY DEF Idle, Owned, BodyTyped
<1>1. BodiesInit => Typed
  <2> SUFFICES ASSUME BodiesInit PROVE Typed
    OBVIOUS
  <2>1. BodyTyped(Here) /\ destroyed = FALSE
    BY <1>0, BodiesInitially DEF BodiesInit, BodiesInv
  <2> QED
    BY <2>1 DEF BodiesInit
<1>2. BodiesInv /\ Typed /\ BodiesInv' /\ [BodiesNext]_bodyVars => Typed'
  <2> SUFFICES ASSUME BodiesInv, Typed, BodiesInv', [BodiesNext]_bodyVars PROVE Typed'
    OBVIOUS
  <2>1. destroyed' \in BOOLEAN
    BY DEF BodiesNext, bodyVars, ServiceAnswers, NotFoundRequest, ApplicationAnswers, AndClear, DropKept,
           EventLoop, DestroyServer, SetStatusCode, NewResponse
  <2>2. (line \in Lines \cup {[code |-> 200, phrase |-> 3]})'
    <3>1. CASE line' = line
      BY <3>1 DEF Lines
    <3>2. ASSUME NEW st \in StatusCode, SetStatusCode(st)
          PROVE  line' \in Lines \cup {[code |-> 200, phrase |-> 3]}
      <4>1. [code |-> st, phrase |-> PhraseIndex(st)] \in Lines
        BY DEF Lines
      <4> QED
        BY <3>2, <4>1 DEF SetStatusCode, LineSet
    <3>3. ASSUME NEW l \in Lines, NewResponse(l)
          PROVE  line' \in Lines
      BY <3>3 DEF NewResponse
    <3>4. Lines' = Lines
      BY DEF Lines
    <3> QED
      BY <3>1, <3>2, <3>3, <3>4
        DEF BodiesNext, bodyVars, ServiceAnswers, NotFoundRequest, ApplicationAnswers, AndClear, DropKept,
            EventLoop, DestroyServer
  <2>3. CASE ~destroyed'
    <3>1. Idle'
      BY <2>3 DEF BodiesInv
    <3>2. BodyTyped(Here)'
      BY <1>0, <3>1, PTL
    <3> QED
      BY <2>1, <2>2, <3>2
  <2>5. CASE destroyed'
    <3> SUFFICES BodyTyped(Here)'
      BY <2>1, <2>2
    <3>1. UNCHANGED <<body, life, misused>> => BodyTyped(Here)'
      BY DEF BodyTyped, Here
    <3>2. ASSUME NEW s, BodyTyped(s), BodiesBecome(s) PROVE BodyTyped(Here)'
      BY <3>2 DEF BodiesBecome, BodyTyped, Here
    <3>3. {"kept", "requestInfo", "lastRequest"} \subseteq HttpMessage
      BY DEF HttpMessage
    <3>4. CASE DropKept
      BY <3>2, <3>3, <3>4, DestructTyped DEF DropKept
    <3>5. CASE EventLoop
      <4>1. /\ life' = [b \in Address |-> IF life[b] = "dying" THEN "free" ELSE life[b]]
            /\ body' = body /\ misused' = misused
        BY <3>5 DEF EventLoop
      <4>2. body \in [HttpMessage -> Address \cup {NoAddress}] /\ misused \in BOOLEAN
            /\ life \in [Address -> {"free", "alive", "dying", "lost"}]
        BY DEF BodyTyped, Here
      <4>3. life' \in [Address -> {"free", "alive", "dying", "lost"}]
        BY <4>1, <4>2
      <4>4. body' \in [HttpMessage -> Address \cup {NoAddress}] /\ misused' \in BOOLEAN
        BY <4>1, <4>2
      <4> QED
        BY <4>3, <4>4 DEF BodyTyped, Here
    <3>6. CASE DestroyServer
      BY <3>2, <3>3, <3>6, DestructTyped DEF DestroyServer
    <3>7. CASE ServiceAnswers \/ NotFoundRequest \/ \E keeps \in BOOLEAN : ApplicationAnswers(keeps)
      <4>1. ~destroyed /\ destroyed' = destroyed
        BY <3>7 DEF ServiceAnswers, NotFoundRequest, ApplicationAnswers, AndClear
      <4> QED
        BY <2>5, <4>1
    <3>8. CASE (\E st \in StatusCode : SetStatusCode(st)) \/ (\E l \in Lines : NewResponse(l)) \/ UNCHANGED bodyVars
      <4>1. UNCHANGED <<body, life, misused>>
        BY <3>8 DEF SetStatusCode, NewResponse, bodyVars
      <4> QED
        BY <3>1, <4>1
    <3> QED
      BY <3>4, <3>5, <3>6, <3>7, <3>8 DEF BodiesNext
  <2> QED
    BY <2>3, <2>5
<1>3. Typed => BodiesTypeOK
  BY DEF BodyTyped, Here, BodiesTypeOK
<1> QED
  BY <1>1, <1>2, <1>3, BodiesInitially, BodiesStep, PTL DEF BodiesSpec

\* A header has no more values than the bound allows, and what is read of it is one of
\* its kind.
THEOREM HeaderTypes == HeaderSpec => []HeaderTypeOK
<1> DEFINE Typed == header.valid \in BOOLEAN /\ Len(header.values) <= MaxValues
<1>0. MaxValues \in Nat
  BY HeaderAssumption
<1>1. HeaderInit => Typed
  <2> SUFFICES ASSUME HeaderInit PROVE Typed
    OBVIOUS
  <2>1. header.valid = FALSE /\ Len(header.values) = 0
    BY DEF HeaderInit
  <2>2. Len(header.values) <= MaxValues
    BY <1>0, <2>1
  <2> QED
    BY <2>1, <2>2
<1>2. HeaderInv /\ Typed /\ [HeaderNext]_headerVars => Typed'
  <2> SUFFICES ASSUME HeaderInv, Typed, [HeaderNext]_headerVars PROVE Typed'
    OBVIOUS
  <2>0. /\ DOMAIN header = {"kind", "valid", "first", "version", "values"}
        /\ header.values \in Seq(Entries) /\ Len(header.values) \in Nat
    BY LenProperties DEF HeaderInv, HeaderShape
  <2>1. CASE UNCHANGED headerVars
    BY <2>1 DEF headerVars
  <2>2. ASSUME NEW path \in Path, NEW version \in Version, SetRequest(path, version) PROVE Typed'
    <3>1. header'.valid = TRUE /\ header'.values = header.values
      BY <2>0, <2>2 DEF SetRequest
    <3> QED
      BY <3>1
  <2>3. ASSUME NEW reason \in Reason, NEW version \in Version, NewResponseHeader(reason, version)
        PROVE  Typed'
    <3>1. header'.valid \in BOOLEAN /\ header'.values = <<>>
      BY <2>3 DEF NewResponseHeader
    <3>2. Len(<<>>) = 0
      OBVIOUS
    <3> QED
      BY <1>0, <3>1, <3>2
  <2>4. ASSUME NEW lineCut \in 0 .. Len(header.values), ReadText(lineCut) PROVE Typed'
    BY <2>4 DEF ReadText
  <2>5. ASSUME NEW key \in HeaderKey, NEW spelling \in Spelling, NEW value \in HeaderValue,
               \/ Len(header.values) < MaxValues /\ AddHeaderValue(key, spelling, value)
               \/ /\ HasKey(header.values, key) \/ Len(header.values) < MaxValues
                  /\ SetHeaderValue(key, spelling, value)
        PROVE  Typed'
    <3> DEFINE values == header.values
               entry == Entry(key, spelling, value)
               longer == Append(values, entry)
               replaced == [values EXCEPT ![SearchKey(values, key)].value = value]
    <3>2. CASE header' = [header EXCEPT !.values = longer] /\ Len(values) < MaxValues
      <4>1. entry \in Entries
        BY DEF Entry, Entries
      <4>2. Len(longer) = Len(values) + 1
        <5> HIDE DEF entry, values
        <5> QED
          BY <2>0, <4>1, AppendProperties DEF values
      <4>3. header'.values = longer /\ header'.valid = header.valid
        BY <2>0, <3>2
      <4> HIDE DEF longer
      <4> QED
        BY <1>0, <2>0, <3>2, <4>2, <4>3
    <3>3. CASE header' = [header EXCEPT !.values = replaced] /\ HasKey(values, key)
      <4>1. DOMAIN replaced = DOMAIN values /\ replaced \in Seq(Entries)
        BY <2>0, <3>3, ValueReplaced
      <4>2. header'.values = replaced /\ header'.valid = header.valid
        BY <2>0, <3>3
      <4> HIDE DEF replaced
      <4>3. Len(replaced) = Len(values)
        BY <2>0, <4>1, LenProperties
      <4> QED
        BY <4>2, <4>3
    <3>4. CASE Len(values) < MaxValues /\ AddHeaderValue(key, spelling, value)
      BY <3>2, <3>4 DEF AddHeaderValue
    <3>5. CASE HasKey(values, key) /\ SetHeaderValue(key, spelling, value)
      BY <3>3, <3>5 DEF SetHeaderValue
    <3>6. CASE ~HasKey(values, key) /\ Len(values) < MaxValues /\ SetHeaderValue(key, spelling, value)
      BY <3>2, <3>6 DEF SetHeaderValue
    <3> QED
      BY <2>5, <3>4, <3>5, <3>6
  <2> HIDE DEF Typed
  <2> QED
    BY <2>1, <2>2, <2>3, <2>4, <2>5 DEF HeaderNext
<1>3. HeaderInv /\ Typed => HeaderTypeOK
  <2> SUFFICES ASSUME HeaderInv, Typed PROVE HeaderTypeOK
    OBVIOUS
  <2>1. read.valid => read.kind = header.kind
    BY DEF HeaderInv, ParseHeader
  <2> QED
    BY <2>1 DEF HeaderInv, HeaderShape, HeaderTypeOK
<1> QED
  BY <1>1, <1>2, <1>3, HeaderInitially, HeaderStep, PTL DEF HeaderSpec

=============================================================================
