--------------------------- MODULE MCHttpSession ---------------------------
(* HttpSession with one message of each kind.                               *)
EXTENDS HttpSession

RequestHead(first, rest) == <<first, EOL>> \o FlattenSeq([i \in DOMAIN rest |-> <<rest[i], EOL>>]) \o <<EOL>>

Request(first, rest, body, prompt) ==
  [wire |-> RequestHead(first, rest) \o body, fields |-> Len(rest), prompt |-> prompt,
   notify |-> first = "NOTIFY"]
Short(first, rest) == Request(first, rest, <<>>, TRUE)

SimpleRequests == {
  Short("GET", <<"host">>),
  Short("POST", <<"host", "type", "len0">>),
  Request("POST", <<"host", "type", "len1">>, <<"text">>, TRUE)}

MalformedRequests == {
  Short("GET", <<"colon">>), Short("GET", <<"text">>), Short("text", <<"host">>),
  Short("OPTIONS", <<"host">>), Short("HTTP/2.0", <<"host">>), Short("POST", <<"host", "len0">>),
  Short("POST", <<"host", "type", "lenx">>), Short("POST", <<"host", "type">>)}

\* The events of a device: lines of XML, some with a colon in them.
NotifyRequests == {
  Request("NOTIFY", <<"host", "type", "len3">>, <<"text", EOL, "text">>, FALSE),
  Request("NOTIFY", <<"host", "type", "len3">>, <<"colon", EOL, "text">>, FALSE)}

\* No chunk, with nothing, a header or another line behind it; and one chunk.
ChunkedBody(body) == Request("POST", <<"host", "type", "chunked">>, body, FALSE)
ChunkedRequests == {
  ChunkedBody(<<"0", EOL, EOL>>),
  ChunkedBody(<<"0", EOL, "colon", EOL, EOL>>),
  ChunkedBody(<<"0", EOL, "text", EOL, EOL>>),
  ChunkedBody(<<"1", EOL, "text", EOL, "0", EOL, EOL>>)}

MCMessages == SimpleRequests \cup MalformedRequests \cup NotifyRequests \cup ChunkedRequests
MCNotify == NotifyRequests
MCChunked == ChunkedRequests
=============================================================================
