----------------------------- MODULE WebContent -----------------------------
(***************************************************************************)
(* How a BrisaWebserverSession answers: the services that serve a file or  *)
(* a constant text, the headers prepareResponse adds, and the loop that    *)
(* writes the body, block by block, as chunks where it is told to.  A byte *)
(* is told by its offset, and a body by the offset of its first byte and   *)
(* their number; of the chunks it matters what a client reads their ends   *)
(* from: their size lines, and the CRLF behind their data.                 *)
(*                                                                         *)
(* The session object outlives connections, and prepareResponse looks at   *)
(* lastRequest and useChunkedResponse, which not every answer has set.     *)
(***************************************************************************)
EXTENDS Integers

CONSTANTS
  FileSize,       \* sizes of the files served
  BytePos,        \* numbers in a RANGE header
  BlockSize       \* MAPPED_MEMORY_SIZE

ASSUME ContentAssumption ==
  /\ FileSize \subseteq Nat /\ BytePos \subseteq Nat
  /\ BlockSize \in Nat \ {0}

\* RANGE headers: none; "bytes=7"; "bytes=2-7"; "bytes=2-", as everything that has
\* no number after the dash; "bytes=-7".  A header without a number is as none.
NoRange == [form |-> "none", first |-> 0, last |-> 0]
Ranges ==
  {NoRange}
    \cup [form : {"N", "N-"}, first : BytePos, last : {0}]
    \cup [form : {"N-M"}, first : BytePos, last : BytePos]
    \cup [form : {"-N"}, first : {0}, last : BytePos]

\* What a request is answered from: a file, a file that cannot be opened, a text,
\* nothing (404), or the service "/" that gets the NOTIFYs nobody else gets.
File(size) == [kind |-> "file", size |-> size]
Text(size) == [kind |-> "text", size |-> size]
NoFile == [kind |-> "noFile", size |-> 0]
Fallback == [kind |-> "fallback", size |-> 0]
Nothing == [kind |-> "nothing", size |-> 0]
Sources == {File(n) : n \in FileSize} \cup {Text(n) : n \in FileSize} \cup {NoFile, Fallback, Nothing}

\* Range of a response that has none: HttpMessage::useRange().
WholeEntity == [first |-> 0, second |-> 0]
UseRange(range) == range.second # 0

VARIABLES
  connected,    \* a client is connected
  lastCloses,   \* lastRequest is HTTP/1.0, or says CONNECTION: close
  useChunked,   \* BrisaWebserverSession::useChunkedResponse
  asked,        \* ghost: source and RANGE of the request that is answered
  head,         \* the head of its response
  entity,       \* what is written of its body
  step          \* "idle", "writing", or "written" until the next request

contentVars == <<connected, lastCloses, useChunked, asked, head, entity, step>>

NoHead == [status |-> 0, length |-> -1, chunked |-> FALSE, contentRange |-> WholeEntity, close |-> FALSE]
\* bare: chunks whose data no CRLF follows; early: a size line of 0 was written before
\* the end; last: the last chunk was written.
Entity(first, remaining) ==
  [first |-> first, written |-> 0, remaining |-> remaining,
   bare |-> 0, early |-> FALSE, last |-> FALSE]
NoEntity == Entity(0, 0)

\* useChunkedResponse has no value before the first call of respond().
ContentInit ==
  /\ connected = FALSE /\ lastCloses = FALSE
  /\ useChunked \in BOOLEAN
  /\ asked = [source |-> Nothing, range |-> NoRange]
  /\ head = NoHead /\ entity = NoEntity
  /\ step = "idle"

-----------------------------------------------------------------------------
(* BrisaWebFile::onRequest *)

\* Mutant: the last byte asked for is left out.
FileRangeShort(r, size) ==
  CASE r.form = "N-M" /\ r.first < r.last -> [first |-> r.first, second |-> r.last - 1]
    [] OTHER -> WholeEntity

\* The range it sets.  Nothing is compared with the size of the file.
FileRange(r, size) ==
  CASE r.form \in {"N", "N-"} -> [first |-> r.first, second |-> size - 1]
    [] r.form = "N-M" /\ r.first < r.last -> [first |-> r.first, second |-> r.last]
    [] r.form = "-N" -> [first |-> size - r.last, second |-> size - 1]
    [] OTHER -> WholeEntity

\* "N-" sets a range, and leaves the status.
FileStatus(r) ==
  IF r.form \in {"N", "-N"} \/ (r.form = "N-M" /\ r.first < r.last) THEN 206 ELSE 200

-----------------------------------------------------------------------------
(* BrisaWebserverSession *)

\* Mutant: the length is that of the entity, of which only a part is written.
ContentLengthOfEntity(range, size) == size

ContentLength(range, size) ==
  IF UseRange(range) THEN 1 + range.second - range.first ELSE size

\* prepareResponse and the head in writeResponse.  -1 is no CONTENT-LENGTH.
ResponseHead(status, range, size, close, chunked, closes) ==
  [status |-> status,
   length |-> IF chunked THEN -1 ELSE ContentLength(range, size),
   chunked |-> chunked,
   contentRange |-> IF UseRange(range) THEN range ELSE WholeEntity,
   close |-> close \/ closes]

\* writeEntityBody up to its loop.  seek() to an offset before the file fails.
EntityPart(range, size) ==
  IF UseRange(range)
  THEN Entity(IF range.first < 0 THEN 0 ELSE range.first, 1 + range.second - range.first)
  ELSE Entity(0, size)

NewClient ==
  /\ ~connected /\ step # "writing"
  /\ connected' = TRUE
  /\ step' = "idle" /\ head' = NoHead /\ entity' = NoEntity
  /\ UNCHANGED <<lastCloses, useChunked, asked>>

ClientLeaves ==
  /\ connected /\ step # "writing"
  /\ connected' = FALSE
  /\ UNCHANGED <<lastCloses, useChunked, asked, head, entity, step>>

Asked(source, r) ==
  /\ connected /\ step # "writing"
  /\ asked' = [source |-> source, range |-> r]
  /\ connected' = connected
  /\ step' = "writing"

\* A file, with the setting of its service (setUseChunkedEntities).
GetFile(source, r, closes, chunked) ==
  /\ source.kind = "file"
  /\ Asked(source, r)
  /\ lastCloses' = closes /\ useChunked' = chunked
  /\ head' = ResponseHead(FileStatus(r), FileRange(r, source.size), source.size, FALSE, chunked, closes)
  /\ entity' = EntityPart(FileRange(r, source.size), source.size)

\* setEntityBody refuses what is not open, and the response has no body.
GetNoFile(r, closes, chunked) ==
  /\ Asked(NoFile, r)
  /\ lastCloses' = closes /\ useChunked' = chunked
  /\ head' = ResponseHead(FileStatus(r), FileRange(r, 0), 0, FALSE, chunked, closes)
  /\ entity' = NoEntity

GetText(source, r, closes) ==
  /\ source.kind = "text"
  /\ Asked(source, r)
  /\ lastCloses' = closes /\ useChunked' = FALSE
  /\ head' = ResponseHead(200, WholeEntity, source.size, FALSE, FALSE, closes)
  /\ entity' = EntityPart(WholeEntity, source.size)

\* A NOTIFY for no service goes to the service "/", and is not the lastRequest.
NotifyFallback ==
  /\ Asked(Fallback, NoRange)
  /\ useChunked' = FALSE /\ lastCloses' = lastCloses
  /\ head' = ResponseHead(200, WholeEntity, 0, FALSE, FALSE, lastCloses)
  /\ entity' = NoEntity

\* Errors of the session do not go through respond().
NotFound(r) ==
  /\ Asked(Nothing, r)
  /\ UNCHANGED <<lastCloses, useChunked>>
  /\ head' = ResponseHead(404, WholeEntity, 0, TRUE, useChunked, lastCloses)
  /\ entity' = NoEntity

\* Mutant: only whole blocks are read.
AvailableBlocks ==
  IF asked.source.size - (entity.first + entity.written) < BlockSize THEN 0 ELSE BlockSize

\* Bytes read() returns: none beyond the end of the file, none for a negative size.
Available ==
  LET block == IF BlockSize > entity.remaining THEN entity.remaining ELSE BlockSize
      left == asked.source.size - (entity.first + entity.written)
  IN IF block < 0 \/ left < 0 THEN 0 ELSE IF block < left THEN block ELSE left

\* A block in a chunked answer: its size and a CRLF, and the block, with no CRLF behind
\* it.  One that is empty has the size line that ends a body.
AsChunk(e, block) ==
  IF block = 0 THEN [e EXCEPT !.early = TRUE] ELSE [e EXCEPT !.bare = @ + 1]

\* One iteration of either loop.
WriteBlock ==
  /\ step = "writing" /\ entity.remaining # 0
  /\ LET e == [entity EXCEPT !.written = @ + Available, !.remaining = @ - Available]
     IN entity' = IF useChunked THEN AsChunk(e, Available) ELSE e
  /\ UNCHANGED <<connected, lastCloses, useChunked, asked, head, step>>

Answers(kinds) == asked.source.kind \in kinds
HasBody == Answers({"file", "text"})

\* Mutant: an answer without data has no last chunk.
LastChunkOfData == entity.bare > 0

\* "0\r\n\r\n" behind the loop, in an answer that has a body.
LastChunk == useChunked /\ HasBody

\* The loop ends; the connection is closed if the response says so.
Written ==
  /\ step = "writing" /\ entity.remaining = 0
  /\ step' = "written"
  /\ connected' = (connected /\ ~head.close)
  /\ entity' = [entity EXCEPT !.last = LastChunk]
  /\ UNCHANGED <<lastCloses, useChunked, asked, head>>

-----------------------------------------------------------------------------
Writes == WriteBlock \/ Written

ContentNext ==
  \/ NewClient \/ ClientLeaves \/ NotifyFallback \/ WriteBlock \/ Written
  \/ \E r \in Ranges :
       \/ NotFound(r)
       \/ \E closes \in BOOLEAN :
            \/ \E source \in Sources : GetText(source, r, closes)
            \/ \E chunked \in BOOLEAN :
                 GetNoFile(r, closes, chunked) \/ \E source \in Sources : GetFile(source, r, closes, chunked)

ContentSpec == ContentInit /\ [][ContentNext]_contentVars

-----------------------------------------------------------------------------
(* Properties *)

\* The variables have their types.
ContentTypeOK ==
  /\ {connected, lastCloses, useChunked} \subseteq BOOLEAN
  /\ asked.source \in Sources /\ asked.range \in Ranges
  /\ head.length \in Int /\ head.status \in {0, 200, 206, 404}
  /\ {entity.written, entity.first, entity.bare} \subseteq Nat
  /\ {entity.early, entity.last} \subseteq BOOLEAN
  /\ step \in {"idle", "writing", "written"}

\* A request whose bytes are there.
Satisfiable(r, size) ==
  CASE r.form \in {"N", "N-"} -> r.first < size
    [] r.form = "N-M" -> r.first <= r.last => r.last < size
    [] r.form = "-N" -> r.last \in 1..size
    [] OTHER -> TRUE

\* How a client finds the end of what it got, whatever the answers before it left in
\* the session.  Where it was told a length, that is the length written; and the
\* CONTENT-RANGE, if any, is what was written.
EndByLength ==
  step = "written" /\ ~head.chunked /\ (Answers({"noFile"}) => ~UseRange(head.contentRange))
    => /\ head.length = entity.written
       /\ UseRange(head.contentRange) =>
            /\ entity.first = head.contentRange.first
            /\ entity.written = 1 + head.contentRange.second - head.contentRange.first

\* Where it was told to expect chunks, the last chunk is written once all the others
\* are, and no size line before it ends the body early: a client that takes each chunk
\* by its size, and looks for nothing behind it, finds the end.  It is not the framing
\* of HTTP, where a CRLF follows the data of a chunk, unless there is no data: a client
\* that looks for that CRLF fails at the first chunk.  An error is told in chunks too,
\* if the answer before it was, and written in none; its end is that of the connection.
EndByChunks ==
  step = "written" /\ head.chunked =>
    /\ HasBody => entity.last /\ ~entity.early
    /\ entity.bare = 0 <=> entity.written = 0
    /\ Answers({"nothing"}) => head.close

\* Not covered: a file that cannot be opened is answered without a body, and with the
\* length of the range that was asked for, or a promise of chunks of which none comes.
EndRecognised == EndByLength /\ EndByChunks

\* The status tells whether a part follows, but where the range is open ("2-"): then it
\* is 200, with a CONTENT-RANGE.  (A range of a file of one byte is told by 206, and
\* has no CONTENT-RANGE, because useRange() takes an end of 0 for none.)
StatusTells ==
  step = "written" /\ Answers({"file"}) /\ asked.source.size # 1 =>
    (head.status = 206 <=> UseRange(head.contentRange) /\ asked.range.form # "N-")

\* A range that is there is answered with its bytes, told by a CONTENT-RANGE, or else
\* with the whole file.
ContentAsAsked ==
  LET r == asked.range  size == asked.source.size
  IN step = "written" /\ Answers({"file"}) /\ Satisfiable(r, size) =>
       IF UseRange(head.contentRange)
       THEN /\ r.form # "none"
            /\ entity.first = IF r.form = "-N" THEN size - r.last ELSE r.first
            /\ entity.written = CASE r.form = "N-M" -> 1 + r.last - r.first
                                [] r.form = "-N" -> r.last
                                [] OTHER -> size - r.first
       ELSE entity.first = 0 /\ entity.written = size

\* A client that asks for a range of a file that is there gets its bytes or the file,
\* is told which of the two, and finds the end, with the exceptions named above.
ContentDelivered == ContentAsAsked /\ StatusTells /\ EndRecognised

\* And it is written to its end, in as many blocks as it takes.
WritingEnds ==
  step = "writing" /\ Satisfiable(asked.range, asked.source.size) ~> step = "written"
=============================================================================
