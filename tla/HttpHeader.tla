----------------------------- MODULE HttpHeader -----------------------------
(***************************************************************************)
(* HHttpHeader with HHttpRequestHeader and HHttpResponseHeader: a header   *)
(* that is built, written as text, and read by another party.              *)
(*                                                                         *)
(* A text is a first line and the lines behind it.  A first line is a      *)
(* sequence of words, as simplified() and split() make of it; a line is a  *)
(* key with its spelling and a value, or is no header line at all.  A word *)
(* is a tuple: its text, or its kind and its numbers.                      *)
(***************************************************************************)
EXTENDS Integers, Sequences, SequencesExt

CONSTANTS
  HeaderKey,    \* keys without regard to case
  Spelling,     \* the ways to spell them
  HeaderValue,  \* values of headers
  Trimmed,      \* [HeaderValue -> HeaderValue]
  Path,         \* sequences of words: paths of requests,
  Reason,       \*   and reasons of responses
  Version,      \* pairs of numbers
  PlaceMarker,  \* the word "%1"
  MaxValues     \* bound: entries of a header

ASSUME HeaderAssumption ==
  /\ Trimmed \in [HeaderValue -> HeaderValue]
  /\ \A v \in HeaderValue : Trimmed[Trimmed[v]] = Trimmed[v]
  /\ \A words \in Path \cup Reason : words \in Seq(ToSet(words))
  /\ Version \subseteq Nat \X Nat
  /\ MaxValues \in Nat

\* A header: m_valid, the method and path or the status code and reason in first, the
\* version, and m_values.
NotRead == [kind |-> "none", valid |-> FALSE]
NoVersion == <<0, 0>>

VARIABLES
  header,    \* the header that is built
  lastSet,  \* ghost: what it was told last of each key, "" for nothing
  read       \* what the constructor that parses made of the header's text

headerVars == <<header, lastSet, read>>

HeaderInit ==
  /\ header = [kind |-> "request", valid |-> FALSE, first |-> <<>>, version |-> NoVersion, values |-> <<>>]
  /\ lastSet = [k \in HeaderKey |-> ""]
  /\ read = NotRead

-----------------------------------------------------------------------------
(* Building *)

\* Entries of a key: searchKey finds the first, however it is spelled.
EntriesOf(values, key) == {i \in DOMAIN values : values[i].key = key}
SearchKey(values, key) == CHOOSE i \in EntriesOf(values, key) : \A j \in EntriesOf(values, key) : i <= j
HasKey(values, key) == EntriesOf(values, key) # {}
ValueOf(values, key) == IF HasKey(values, key) THEN values[SearchKey(values, key)].value ELSE ""

Entry(key, spelling, value) == [key |-> key, spelling |-> spelling, value |-> value]

\* The constructors, and setRequest(): an empty method is refused.
SetRequest(path, version) ==
  /\ header.kind = "request"
  /\ header' = [header EXCEPT !.valid = TRUE, !.first = << <<"method">> >> \o path, !.version = version]
  /\ lastSet' = lastSet /\ read' = NotRead

\* A new HHttpResponseHeader: without a reason it is not valid, and has no code.
NewResponseHeader(reason, version) ==
  /\ header' = IF reason = <<>>
               THEN [kind |-> "response", valid |-> FALSE, first |-> << <<"0">> >>,
                     version |-> NoVersion, values |-> <<>>]
               ELSE [kind |-> "response", valid |-> TRUE, first |-> << <<"code">> >> \o reason,
                     version |-> version, values |-> <<>>]
  /\ lastSet' = [k \in HeaderKey |-> ""]
  /\ read' = NotRead

\* Mutant: the entry is looked for as it is spelled.
SetValueSpelled(key, spelling, value) ==
  /\ header' =
       LET same == {i \in EntriesOf(header.values, key) : header.values[i].spelling = spelling}
       IN IF same = {} THEN [header EXCEPT !.values = Append(@, Entry(key, spelling, value))]
          ELSE [header EXCEPT !.values[CHOOSE i \in same : TRUE].value = value]
  /\ lastSet' = [lastSet EXCEPT ![key] = value]
  /\ read' = NotRead

\* setValue: an entry that is there keeps its place and its spelling.
SetHeaderValue(key, spelling, value) ==
  /\ header' = IF HasKey(header.values, key)
               THEN [header EXCEPT !.values[SearchKey(header.values, key)].value = value]
               ELSE [header EXCEPT !.values = Append(@, Entry(key, spelling, value))]
  /\ lastSet' = [lastSet EXCEPT ![key] = value]
  /\ read' = NotRead

\* addValue, for entries that may be there.
AddHeaderValue(key, spelling, value) ==
  /\ header' = [header EXCEPT !.values = Append(@, Entry(key, spelling, value))]
  /\ lastSet' = IF HasKey(header.values, key) THEN lastSet ELSE [lastSet EXCEPT ![key] = value]
  /\ read' = NotRead

-----------------------------------------------------------------------------
(* Writing and reading *)

\* A word that is a version, as it is written: its digits.
VersionWord(v) == <<"version", v[1], v[2]>>

\* toString of a request puts all its parts in at once.  That of a response puts them
\* in one after the other, so a reason that is a place marker gets the lines: the first
\* of them stands in the first line then, or, where there is none, "%5" in its own.
HeaderText(h) ==
  IF h.kind = "response" /\ h.first[2] = PlaceMarker
  THEN IF h.values = <<>>
       THEN [first |-> <<VersionWord(h.version), h.first[1]>>, lines |-> <<>>, markerLeft |-> TRUE]
       ELSE [first |-> <<VersionWord(h.version), h.first[1], <<"line">> >>,
             lines |-> Tail(h.values), markerLeft |-> FALSE]
  ELSE [first |-> IF h.kind = "request" THEN h.first \o <<VersionWord(h.version)>>
                  ELSE <<VersionWord(h.version)>> \o h.first,
        lines |-> h.values, markerLeft |-> FALSE]

\* parseVersion: one digit, a dot, and one digit are looked at.
FirstDigit(n) == IF n > 9 THEN n \div 10 ELSE n
IsVersion(word) == word[1] = "version" /\ word[2] <= 9
ParseVersion(word) == <<word[2], FirstDigit(word[3])>>

\* parseFirstLine: the words of a request are taken by their place; without a third
\* one, or if it is no version, the version stays 0.0.  A status line has its code right
\* behind the one digit.  The result is not looked at.
ParseRequestLine(words) ==
  [first |-> SubSeq(words, 1, 2),
   version |-> IF Len(words) > 2 /\ IsVersion(words[3]) THEN ParseVersion(words[3]) ELSE NoVersion]
ParseStatusLine(words) ==
  [first |-> IF IsVersion(words[1]) /\ words[1][3] <= 9 THEN Tail(words) ELSE << <<"0">> >>,
   version |-> IF IsVersion(words[1]) THEN ParseVersion(words[1]) ELSE NoVersion]

\* parseLine for every line: key and value are trimmed.
ParseLines(lines) == [i \in DOMAIN lines |-> [lines[i] EXCEPT !.value = Trimmed[@]]]

ParseHeader(kind, text) ==
  LET line == IF kind = "request" THEN ParseRequestLine(text.first) ELSE ParseStatusLine(text.first)
  IN [kind |-> kind, valid |-> ~text.markerLeft, first |-> line.first, version |-> line.version,
      values |-> ParseLines(text.lines)]

\* The text of a header that is not valid is empty.  A line without a colon makes what
\* is read invalid, with the lines before it.
ReadText(lineCut) ==
  /\ header.valid
  /\ read' = LET whole == ParseHeader(header.kind, HeaderText(header))
             IN IF lineCut = 0 THEN whole
                ELSE [whole EXCEPT !.valid = FALSE, !.values = SubSeq(@, 1, lineCut - 1)]
  /\ UNCHANGED <<header, lastSet>>

-----------------------------------------------------------------------------
HeaderNext ==
  \/ \E path \in Path, version \in Version : SetRequest(path, version)
  \/ \E reason \in Reason, version \in Version : NewResponseHeader(reason, version)
  \/ \E lineCut \in 0 .. Len(header.values) : ReadText(lineCut)
  \/ \E key \in HeaderKey, spelling \in Spelling, value \in HeaderValue :
       \/ Len(header.values) < MaxValues /\ AddHeaderValue(key, spelling, value)
       \/ /\ HasKey(header.values, key) \/ Len(header.values) < MaxValues
          /\ SetHeaderValue(key, spelling, value)

HeaderSpec == HeaderInit /\ [][HeaderNext]_headerVars

-----------------------------------------------------------------------------
(* Properties *)

\* The variables have their types.
HeaderTypeOK ==
  /\ header.valid \in BOOLEAN
  /\ Len(header.values) <= MaxValues
  /\ lastSet \in [HeaderKey -> HeaderValue \cup {""}]
  /\ read.valid => read.kind = header.kind

\* The first line survives: the path is one word, the numbers of the version have one
\* digit, and the reason does not look like a place for another argument.
Ordinary(h) ==
  /\ h.version \in (0..9) \X (0..9)
  /\ IF h.kind = "request" THEN Len(h.first) = 2 ELSE h.first[2] # PlaceMarker

\* What one end writes the other reads: the first line, the entries in their order,
\* and under each key, however it is spelled and however often it was set or added,
\* the value the writer has; as long as the first line is an ordinary one.
HeaderTravels ==
  /\ \A k \in HeaderKey : ValueOf(header.values, k) = lastSet[k]
  /\ read.valid /\ Ordinary(header) =>
       /\ read.first = header.first /\ read.version = header.version
       /\ Len(read.values) = Len(header.values)
       /\ \A k \in HeaderKey :
            HasKey(header.values, k) => ValueOf(read.values, k) = Trimmed[lastSet[k]]
=============================================================================
