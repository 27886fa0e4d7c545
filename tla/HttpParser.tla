----------------------------- MODULE HttpParser -----------------------------
(***************************************************************************)
(* http_parser_execute of src/httpserver/http_parser.cc with the callbacks *)
(* of HttpContext (http_server.cc): a request parser that is fed a stream  *)
(* in segments, keeps its state between them, and hands urls, header       *)
(* fields, header values and bodies to callbacks piece by piece.           *)
(*                                                                         *)
(* A byte is a symbol of its class.  Methods, header names and header      *)
(* values that the parser knows are abbreviated to two of their letters,   *)
(* so that a segment can end within them, and "HTTP/1.x" to one symbol.    *)
(* HttpContext makes a parser of requests: the states for responses are    *)
(* not reachable.  Nothing but its error is kept of a parser in error,     *)
(* which reads no more.                                                    *)
(*                                                                         *)
(* The same stream is fed to two parsers: cut, whose stream is cut into    *)
(* segments anywhere, and whole, whose stream is not.                      *)
(***************************************************************************)
EXTENDS Integers, Sequences, FiniteSets

CONSTANTS Chars,      \* the symbols of the streams
          MaxHeader,  \* HTTP_MAX_HEADER_SIZE
          UllMax,     \* ULLONG_MAX
          MaxCuts     \* bound: how often a stream is cut

ASSUME LimitsAssumption == MaxHeader \in Nat /\ UllMax \in Nat /\ UllMax >= 16
ASSUME MaxCutsAssumption == MaxCuts \in Nat

Letters == {"g", "e", "c", "n", "t", "k", "u", "p"}
Value == [d \in {"0", "1", "2"} |-> CASE d = "0" -> 0 [] d = "1" -> 1 [] d = "2" -> 2]
Digits == DOMAIN Value
unhex == [d \in Digits \cup {"c", "e"} |->
            CASE d = "c" -> 12 [] d = "e" -> 14 [] OTHER -> Value[d]]
Versions == {"HTTP/1.0", "HTTP/1.1"}
Alphabet == Letters \cup Digits \cup Versions \cup
            {"CR", "LF", "SP", ":", ";", ",", "/", "?", "#", "@", "ctl"}

ASSUME CharsAssumption == Chars \subseteq Alphabet

VARIABLES cut,    \* the parser whose stream comes in segments
          whole,  \* the parser whose stream comes in one
          cuts,   \* number of cuts so far
          blind   \* history: a cut hid a byte that the parser looked ahead at

vars == <<cut, whole, cuts, blind>>

Elements == {"url", "header_field", "header_value", "body"}
NoMark == -1
None == -1

method_strings == [GET |-> <<"g", "e">>, CONNECT |-> <<"c", "n">>,
                   POST |-> <<"p", "t">>, PUT |-> <<"p", "u">>]

\* tokens, IS_URL_CHAR, IS_USERINFO_CHAR and IS_HEADER_CHAR on symbols.
Token == Letters \cup Digits \cup {"#"}
UrlChar == Letters \cup Digits \cup {"/", ":", ";", ",", "@"}
UserinfoChar == Letters \cup Digits \cup {":", ";", ","}
HeaderChar == Alphabet \ {"ctl"}

UrlStates == {"s_req_path", "s_req_schema", "s_req_schema_slash",
              "s_req_schema_slash_slash", "s_req_server_start", "s_req_server",
              "s_req_server_with_at", "s_req_query_string_start",
              "s_req_query_string", "s_req_fragment_start", "s_req_fragment"}
BodyStates == {"s_chunk_data", "s_chunk_data_almost_done", "s_chunk_data_done",
               "s_body_identity", "s_message_done"}
PARSING_HEADER(state) == state \notin BodyStates

-----------------------------------------------------------------------------
(* The parser and what http_parser_execute keeps in local variables.       *)

\* http_parser_init: everything is zero.
http_parser_init(s) ==
  [s EXCEPT !.state = "s_start_req", !.header_state = "h_general", !.index = 0,
            !.flags = {}, !.nread = 0, !.content_length = 0, !.method = "GET",
            !.version = "none", !.upgrade = FALSE, !.http_errno = "OK"]

NewParser ==
  [state |-> "s_start_req", header_state |-> "h_general", index |-> 0,
   flags |-> {}, nread |-> 0, content_length |-> 0, method |-> "GET",
   version |-> "none", upgrade |-> FALSE, http_errno |-> "OK",
   mark |-> [e \in Elements |-> NoMark],  \* how far p is from each mark
   run |-> None,         \* p - start in the inner loops over a field or a value
   skipped |-> FALSE,    \* the inner loop has looked for the end of the line
   ahead |-> "none",     \* what the parser read beyond the byte at p
   returned |-> FALSE,   \* it has returned before the end of the segment
   called |-> "complete",  \* history: the last notification, or "broken"
   due |-> [e \in Elements |-> 0],  \* history: read and not yet handed over
   announced |-> 0,      \* history: the length that was read, without overflow
   expect |-> 0,         \* history: body bytes announced and not handed over
   size |-> 0]           \* history: bytes of this request's header

Goto(s, state) == [s EXCEPT !.state = state]
Fail(s, errno) == [NewParser EXCEPT !.http_errno = errno]
Failed(s) == s.http_errno # "OK"
Flag(s, f) == [s EXCEPT !.flags = @ \cup {f}]

\* COUNT_HEADER_SIZE.
Count(s, n) ==
  LET t == [s EXCEPT !.nread = @ + n]
  IN  IF t.nread > MaxHeader THEN Fail(t, "HEADER_OVERFLOW") ELSE t

\* MARK: a mark that is set stays.
Mark(s, e) == IF s.mark[e] = NoMark THEN [s EXCEPT !.mark[e] = 0] ELSE s

\* CALLBACK_DATA_ with the bytes from the mark to n after it: every callback of
\* HttpContext returns 0.  The body may come only when the headers are complete.
Data(s, e, n) ==
  IF s.mark[e] = NoMark THEN s
  ELSE [s EXCEPT !.mark[e] = NoMark,
                 !.due[e] = @ - n,
                 !.expect = IF e = "body" THEN @ - n ELSE @,
                 !.called = IF @ = IF e = "body" \/ "TRAILING" \in s.flags
                                   THEN "headers" ELSE "begin"
                            THEN @ ELSE "broken"]
CALLBACK_DATA(s, e) == Data(s, e, s.mark[e])

-----------------------------------------------------------------------------
(* The end of a message.                                                   *)

http_should_keep_alive(s) ==
  IF s.version = "HTTP/1.1" THEN "CLOSE" \notin s.flags ELSE "KEEP_ALIVE" \in s.flags

NEW_MESSAGE(s) == IF http_should_keep_alive(s) THEN "s_start_req" ELSE "s_dead"

message_begin(s) ==
  [s EXCEPT !.called = IF @ = "complete" THEN "begin" ELSE "broken",
            !.size = 1]

headers_complete(s) ==
  [s EXCEPT !.called = IF @ = "begin" THEN "headers" ELSE "broken"]

\* message_complete_cb: the context answers and initialises the parser.
message_complete(s) ==
  http_parser_init(
    [s EXCEPT !.announced = 0,
              !.called = IF @ # "headers" \/ s.expect # 0 THEN "broken"
                         ELSE "complete"])

Complete(s) == message_complete(Goto(s, NEW_MESSAGE(s)))

\* RETURN before the end of the segment.
Return(s) == [s EXCEPT !.returned = TRUE]

s_message_done(s) ==
  LET t == Complete(s) IN IF t.upgrade THEN Return(t) ELSE t

\* Mutant: nread keeps the size of the header.
s_headers_done_no_reset(s) ==
  LET hasBody == "CHUNKED" \in s.flags \/ s.content_length \notin {0, UllMax}
  IN  IF s.upgrade /\ (s.method = "CONNECT" \/ ~hasBody) THEN Return(Complete(s))
      ELSE IF "CHUNKED" \in s.flags THEN Goto(s, "s_chunk_size_start")
      ELSE IF ~hasBody THEN Complete(s)
      ELSE [s EXCEPT !.state = "s_body_identity", !.expect = @ + s.announced,
                      !.announced = 0]

s_headers_done(s) ==
  LET hasBody == "CHUNKED" \in s.flags \/ s.content_length \notin {0, UllMax}
      t == [s EXCEPT !.nread = 0]
  IN  IF t.upgrade /\ (t.method = "CONNECT" \/ ~hasBody) THEN Return(Complete(t))
      ELSE IF "CHUNKED" \in t.flags THEN Goto(t, "s_chunk_size_start")
      ELSE IF ~hasBody THEN Complete(t)
      ELSE [t EXCEPT !.state = "s_body_identity", !.expect = @ + t.announced,
                      !.announced = 0]

s_headers_almost_done(s, ch) ==
  IF ch # "LF" THEN Fail(s, "STRICT")
  ELSE IF "TRAILING" \in s.flags THEN s_message_done(s)
  ELSE IF {"CHUNKED", "CONTENTLENGTH"} \subseteq s.flags
  THEN Fail(s, "UNEXPECTED_CONTENT_LENGTH")
  ELSE s_headers_done(headers_complete(
         [s EXCEPT !.upgrade = {"UPGRADE", "CONNECTION_UPGRADE"} \subseteq s.flags
                               \/ s.method = "CONNECT"]))

-----------------------------------------------------------------------------
(* The request line.                                                       *)

\* The byte that follows decides between POST and PUT; at the end of a segment
\* it is whatever follows the segment in memory.
s_start_req(s, ch, next) ==
  LET begin(m, ahead) ==
        message_begin([s EXCEPT !.state = "s_req_method", !.flags = {}, !.index = 1,
                                !.content_length = UllMax, !.method = m, !.ahead = ahead])
  IN  CASE ch \in {"CR", "LF"} -> s
        [] ch = "g" -> begin("GET", "none")
        [] ch = "c" -> begin("CONNECT", "none")
        [] ch = "p" -> begin(IF next = "u" THEN "PUT" ELSE "POST", next)
        [] OTHER -> Fail(s, "INVALID_METHOD")

s_req_method(s, ch) ==
  LET matcher == method_strings[s.method]
      t == [s EXCEPT !.index = @ + 1]
  IN  IF ch = "SP" /\ s.index = Len(matcher) THEN Goto(t, "s_req_spaces_before_url")
      ELSE IF s.index < Len(matcher) /\ ch = matcher[s.index + 1] THEN t
      ELSE IF s.method = "POST" /\ s.index = 1 /\ ch = "u" THEN [t EXCEPT !.method = "PUT"]
      ELSE Fail(s, "INVALID_METHOD")

parse_url_char(state, ch) ==
  CASE state = "s_req_spaces_before_url" /\ ch = "/" -> "s_req_path"
    [] state \in {"s_req_spaces_before_url", "s_req_schema"} /\ ch \in Letters -> "s_req_schema"
    [] state = "s_req_schema" /\ ch = ":" -> "s_req_schema_slash"
    [] state = "s_req_schema_slash" /\ ch = "/" -> "s_req_schema_slash_slash"
    [] state = "s_req_schema_slash_slash" /\ ch = "/" -> "s_req_server_start"
    [] state \in {"s_req_server_with_at", "s_req_server_start", "s_req_server"} ->
         (CASE ch = "/" -> "s_req_path"
            [] ch = "?" -> "s_req_query_string_start"
            [] ch = "@" -> IF state = "s_req_server_with_at" THEN "s_dead" ELSE "s_req_server_with_at"
            [] ch \in UserinfoChar -> "s_req_server"
            [] OTHER -> "s_dead")
    [] state = "s_req_path" /\ ch \in UrlChar -> state
    [] state = "s_req_path" /\ ch = "?" -> "s_req_query_string_start"
    [] state \in {"s_req_query_string_start", "s_req_query_string"}
         /\ ch \in UrlChar \cup {"?"} -> "s_req_query_string"
    [] state \in {"s_req_path", "s_req_query_string_start", "s_req_query_string"}
         /\ ch = "#" -> "s_req_fragment_start"
    [] state \in {"s_req_fragment_start", "s_req_fragment"}
         /\ ch \in UrlChar \cup {"?"} -> "s_req_fragment"
    [] state \in {"s_req_fragment_start", "s_req_fragment"} /\ ch = "#" -> state
    [] OTHER -> "s_dead"

Url(s, ch) ==
  LET t == Goto(s, parse_url_char(s.state, ch))
  IN  IF t.state = "s_dead" THEN Fail(t, "INVALID_URL") ELSE t

s_req_spaces_before_url(s, ch) ==
  IF ch = "SP" THEN s
  ELSE Url(Mark(IF s.method = "CONNECT" THEN Goto(s, "s_req_server_start") ELSE s, "url"), ch)

s_req_url(s, ch) ==
  IF ch \notin {"SP", "CR", "LF"} THEN Url(s, ch)
  ELSE IF s.state \in {"s_req_schema", "s_req_schema_slash", "s_req_schema_slash_slash",
                       "s_req_server_start"}
  THEN Fail(s, "INVALID_URL")
  ELSE CALLBACK_DATA(
         CASE ch = "SP" -> Goto(s, "s_req_http_start")
           [] ch = "CR" -> [s EXCEPT !.version = "none", !.state = "s_req_line_almost_done"]
           [] ch = "LF" -> [s EXCEPT !.version = "none", !.state = "s_header_field_start"],
         "url")

\* From s_req_http_start to s_req_http_end.
s_req_http_start(s, ch) ==
  CASE ch \in Versions -> [s EXCEPT !.version = ch, !.state = "s_req_http_end"]
    [] ch = "SP" -> s
    [] OTHER -> Fail(s, "INVALID_CONSTANT")

s_req_http_end(s, ch) ==
  CASE ch = "CR" -> Goto(s, "s_req_line_almost_done")
    [] ch = "LF" -> Goto(s, "s_header_field_start")
    [] OTHER -> Fail(s, "INVALID_VERSION")

s_req_line_almost_done(s, ch) ==
  IF ch = "LF" THEN Goto(s, "s_header_field_start") ELSE Fail(s, "LF_EXPECTED")

-----------------------------------------------------------------------------
(* Header fields.  The inner loops run to the end of the field, the line   *)
(* or the segment and count what they have read when they stop.            *)

s_header_field_start(s, ch) ==
  CASE ch = "CR" -> Goto(s, "s_headers_almost_done")
    [] ch = "LF" -> s_headers_almost_done(Goto(s, "s_headers_almost_done"), ch)
    [] ch \in Token ->
         Mark([s EXCEPT !.state = "s_header_field",
                        !.header_state = CASE ch = "c" -> "h_C"
                                           [] ch = "t" -> "h_matching_transfer_encoding"
                                           [] ch = "u" -> "h_matching_upgrade"
                                           [] OTHER -> "h_general"],
              "header_field")
    [] OTHER -> Fail(s, "INVALID_HEADER_TOKEN")

\* The header a name stands for: CONNECTION, CONTENT_LENGTH, TRANSFER_ENCODING
\* and UPGRADE are "cn", "ct", "te" and "up".
NextFieldState(h, ch) ==
  CASE h = "h_C" /\ ch = "n" -> "h_connection"
    [] h = "h_C" /\ ch = "t" -> "h_content_length"
    [] h = "h_matching_transfer_encoding" /\ ch = "e" -> "h_transfer_encoding"
    [] h = "h_matching_upgrade" /\ ch = "p" -> "h_upgrade"
    [] OTHER -> "h_general"

\* Mutant: the bytes of an inner loop are not counted.
EndRun_uncounted(s) == [s EXCEPT !.run = None, !.skipped = FALSE]
\* The end of an inner loop: COUNT_HEADER_SIZE(p - start).
EndRun(s) == Count([s EXCEPT !.run = None, !.skipped = FALSE], s.run)

s_header_field(s, ch) ==
  LET run == IF s.run = None THEN 0 ELSE s.run
      t == EndRun([s EXCEPT !.run = run])
  IN  IF ch \in Token
      THEN [s EXCEPT !.run = run + 1, !.header_state = NextFieldState(s.header_state, ch)]
      ELSE IF Failed(t) THEN t
      ELSE IF ch = ":" THEN CALLBACK_DATA(Goto(t, "s_header_value_discard_ws"), "header_field")
      ELSE Fail(t, "INVALID_HEADER_TOKEN")

s_header_value_start(s, ch) ==
  LET t == Mark(Goto(s, "s_header_value"), "header_value")
      is(h) == [t EXCEPT !.header_state = h]
  IN  CASE s.header_state = "h_upgrade" -> Flag(is("h_general"), "UPGRADE")
        [] s.header_state = "h_transfer_encoding" ->
             is(IF ch = "c" THEN "h_matching_transfer_encoding_chunked" ELSE "h_general")
        [] s.header_state = "h_content_length" ->
             (IF ch \notin Digits THEN Fail(t, "INVALID_CONTENT_LENGTH")
              ELSE IF "CONTENTLENGTH" \in s.flags THEN Fail(t, "UNEXPECTED_CONTENT_LENGTH")
              ELSE Flag([t EXCEPT !.content_length = Value[ch], !.announced = Value[ch]],
                        "CONTENTLENGTH"))
        [] s.header_state = "h_connection" ->
             is(CASE ch = "k" -> "h_matching_connection_keep_alive"
                  [] ch = "c" -> "h_matching_connection_close"
                  [] ch = "u" -> "h_matching_connection_upgrade"
                  [] OTHER -> "h_matching_connection_token")
        [] s.header_state = "h_matching_connection_token_start" -> t
        [] OTHER -> is("h_general")

s_header_value_discard_ws(s, ch) ==
  CASE ch = "SP" -> s
    [] ch = "CR" -> Goto(s, "s_header_value_discard_ws_almost_done")
    [] ch = "LF" -> Goto(s, "s_header_value_discard_lws")
    [] OTHER -> s_header_value_start(s, ch)

\* The flag a complete token stands for: KEEP_ALIVE, CLOSE, UPGRADE and CHUNKED
\* are "ke", "ce", "up" and "cn".
ValueFlag(h) ==
  CASE h = "h_connection_keep_alive" -> {"KEEP_ALIVE"}
    [] h = "h_connection_close" -> {"CLOSE"}
    [] h = "h_connection_upgrade" -> {"CONNECTION_UPGRADE"}
    [] h = "h_transfer_encoding_chunked" -> {"CHUNKED"}
    [] OTHER -> {}

\* At the start of a token an "@", lowered, is one too.
NextValueState(h, ch) ==
  CASE h = "h_matching_transfer_encoding_chunked" ->
         (IF ch = "n" THEN "h_transfer_encoding_chunked" ELSE "h_general")
    [] h = "h_matching_connection_token_start" ->
         (CASE ch = "k" -> "h_matching_connection_keep_alive"
            [] ch = "c" -> "h_matching_connection_close"
            [] ch = "u" -> "h_matching_connection_upgrade"
            [] ch \in (Token \cup {"@"}) \ {"k", "c", "u"} -> "h_matching_connection_token"
            [] ch = "SP" -> h
            [] OTHER -> "h_general")
    [] h = "h_matching_connection_keep_alive" ->
         (IF ch = "e" THEN "h_connection_keep_alive" ELSE "h_matching_connection_token")
    [] h = "h_matching_connection_close" ->
         (IF ch = "e" THEN "h_connection_close" ELSE "h_matching_connection_token")
    [] h = "h_matching_connection_upgrade" ->
         (IF ch = "p" THEN "h_connection_upgrade" ELSE "h_matching_connection_token")
    [] h = "h_matching_connection_token" ->
         (IF ch = "," THEN "h_matching_connection_token_start" ELSE h)
    [] h = "h_transfer_encoding_chunked" -> (IF ch = "SP" THEN h ELSE "h_general")
    [] h \in {"h_connection_keep_alive", "h_connection_close", "h_connection_upgrade"} ->
         (CASE ch = "," -> "h_matching_connection_token_start"
            [] ch = "SP" -> h
            [] OTHER -> "h_matching_connection_token")
    [] OTHER -> "h_general"

\* Mutant: no test for overflow.
ContentLength_unchecked(s, ch) ==
  IF ch = "SP" THEN s
  ELSE IF ch \notin Digits THEN Fail(s, "INVALID_CONTENT_LENGTH")
  ELSE [s EXCEPT !.content_length = (@ * 10 + Value[ch]) % (UllMax + 1),
                 !.announced = @ * 10 + Value[ch]]

\* Another digit of Content-Length.
ContentLength(s, ch) ==
  IF ch = "SP" THEN s
  ELSE IF ch \notin Digits \/ (UllMax - 10) \div 10 < s.content_length
  THEN Fail(s, "INVALID_CONTENT_LENGTH")
  ELSE [s EXCEPT !.content_length = (@ * 10 + Value[ch]) % (UllMax + 1),
                 !.announced = @ * 10 + Value[ch]]

s_header_almost_done(s, ch) ==
  IF ch = "LF" THEN Goto(s, "s_header_value_lws") ELSE Fail(s, "LF_EXPECTED")

\* A general value is checked up to its first byte in this loop; the loop then
\* skips to the end of the line or of the segment.
s_header_value(s, ch) ==
  LET run == IF s.run = None THEN 0 ELSE s.run
      t == [s EXCEPT !.run = run + 1]
      ended == [s EXCEPT !.run = run, !.state = "s_header_almost_done"]
      counted == EndRun(ended)
  IN  IF ch = "CR" THEN EndRun(CALLBACK_DATA(ended, "header_value"))
      ELSE IF ch = "LF" /\ Failed(counted) THEN counted
      ELSE IF ch = "LF" THEN s_header_almost_done(CALLBACK_DATA(counted, "header_value"), ch)
      ELSE IF s.skipped THEN t
      ELSE IF ch \notin HeaderChar THEN Fail(s, "INVALID_HEADER_TOKEN")
      ELSE IF s.header_state = "h_general" THEN [t EXCEPT !.skipped = TRUE]
      ELSE IF s.header_state = "h_content_length" THEN ContentLength(t, ch)
      ELSE [t EXCEPT !.header_state = NextValueState(s.header_state, ch),
                     !.flags = IF ch = "," /\ s.header_state # "h_transfer_encoding_chunked"
                               THEN @ \cup ValueFlag(s.header_state) ELSE @]

\* The header is finished.
Finish(s) == [s EXCEPT !.flags = @ \cup ValueFlag(s.header_state),
                       !.state = "s_header_field_start"]

s_header_value_lws(s, ch) ==
  IF ch = "SP" THEN s_header_value_start(s, ch) ELSE s_header_field_start(Finish(s), ch)

s_header_value_discard_ws_almost_done(s, ch) ==
  IF ch = "LF" THEN Goto(s, "s_header_value_discard_lws") ELSE Fail(s, "STRICT")

\* An empty value is handed over as such.
s_header_value_discard_lws(s, ch) ==
  IF ch = "SP" THEN Goto(s, "s_header_value_discard_ws")
  ELSE s_header_field_start(CALLBACK_DATA(Mark(Finish(s), "header_value"), "header_value"), ch)

-----------------------------------------------------------------------------
(* Bodies.                                                                 *)

\* The last byte of the body is handed over at once and read again.
s_body_identity(s) ==
  LET t == Mark([s EXCEPT !.content_length = @ - 1], "body")
  IN  IF t.content_length = 0 THEN s_message_done(Data(t, "body", t.mark["body"] + 1)) ELSE t

s_chunk_size_start(s, ch) ==
  IF ch \in DOMAIN unhex
  THEN [s EXCEPT !.content_length = unhex[ch], !.announced = unhex[ch],
                 !.state = "s_chunk_size"]
  ELSE Fail(s, "INVALID_CHUNK_SIZE")

s_chunk_size(s, ch) ==
  IF ch = "CR" THEN Goto(s, "s_chunk_size_almost_done")
  ELSE IF ch \in {";", "SP"} THEN Goto(s, "s_chunk_parameters")
  ELSE IF ch \notin DOMAIN unhex THEN Fail(s, "INVALID_CHUNK_SIZE")
  ELSE IF (UllMax - 16) \div 16 < s.content_length THEN Fail(s, "INVALID_CONTENT_LENGTH")
  ELSE [s EXCEPT !.content_length = (@ * 16 + unhex[ch]) % (UllMax + 1),
                 !.announced = @ * 16 + unhex[ch]]

s_chunk_parameters(s, ch) ==
  IF ch = "CR" THEN Goto(s, "s_chunk_size_almost_done") ELSE s

s_chunk_size_almost_done(s, ch) ==
  LET t == [s EXCEPT !.nread = 0, !.expect = @ + s.announced, !.announced = 0]
  IN  IF ch # "LF" THEN Fail(s, "STRICT")
      ELSE IF s.content_length = 0 THEN Flag(Goto(t, "s_header_field_start"), "TRAILING")
      ELSE Goto(t, "s_chunk_data")

s_chunk_data(s) ==
  LET t == Mark([s EXCEPT !.content_length = @ - 1], "body")
  IN  IF t.content_length = 0 THEN Goto(t, "s_chunk_data_almost_done") ELSE t

s_chunk_data_almost_done(s, ch) ==
  IF ch = "CR" THEN CALLBACK_DATA(Goto(s, "s_chunk_data_done"), "body") ELSE Fail(s, "STRICT")

s_chunk_data_done(s, ch) ==
  IF ch = "LF" THEN [s EXCEPT !.nread = 0, !.state = "s_chunk_size_start"] ELSE Fail(s, "STRICT")

-----------------------------------------------------------------------------
(* The loop over the bytes of a segment, and its ends.                     *)

\* The elements that a byte is a part of.
Parts(s, ch) ==
  CASE s.state \in UrlStates -> {"url"} \ (IF ch \in {"SP", "CR", "LF"} THEN {"url"} ELSE {})
    [] s.state = "s_req_spaces_before_url" /\ ch # "SP" -> {"url"}
    [] s.state \in {"s_header_field_start", "s_header_value_lws", "s_header_value_discard_lws",
                    "s_header_field"} /\ ch \in Token -> {"header_field"}
    [] s.state = "s_header_value_lws" /\ ch = "SP" -> {"header_value"}
    [] s.state = "s_header_value" /\ ch \notin {"CR", "LF"} -> {"header_value"}
    [] s.state = "s_header_value_discard_ws" /\ ch \notin {"SP", "CR", "LF"} -> {"header_value"}
    [] s.state \in {"s_body_identity", "s_chunk_data"} -> {"body"}
    [] OTHER -> {}

\* A byte is read: what the callbacks owe the program, for the properties.
Read(s, ch) ==
  [s EXCEPT !.due = [e \in Elements |-> @[e] + (IF e \in Parts(s, ch) THEN 1 ELSE 0)],
            !.size = IF s.called = "begin" THEN @ + 1 ELSE 0,
            !.ahead = "none"]

Step(s, ch, next) ==
  CASE s.state = "s_start_req" -> s_start_req(s, ch, next)
    [] s.state = "s_req_method" -> s_req_method(s, ch)
    [] s.state = "s_req_spaces_before_url" -> s_req_spaces_before_url(s, ch)
    [] s.state \in UrlStates -> s_req_url(s, ch)
    [] s.state = "s_req_http_start" -> s_req_http_start(s, ch)
    [] s.state = "s_req_http_end" -> s_req_http_end(s, ch)
    [] s.state = "s_req_line_almost_done" -> s_req_line_almost_done(s, ch)
    [] s.state = "s_header_field_start" -> s_header_field_start(s, ch)
    [] s.state = "s_header_field" -> s_header_field(s, ch)
    [] s.state = "s_header_value_discard_ws" -> s_header_value_discard_ws(s, ch)
    [] s.state = "s_header_value" -> s_header_value(s, ch)
    [] s.state = "s_header_almost_done" -> s_header_almost_done(s, ch)
    [] s.state = "s_header_value_lws" -> s_header_value_lws(s, ch)
    [] s.state = "s_header_value_discard_ws_almost_done" ->
         s_header_value_discard_ws_almost_done(s, ch)
    [] s.state = "s_header_value_discard_lws" -> s_header_value_discard_lws(s, ch)
    [] s.state = "s_headers_almost_done" -> s_headers_almost_done(s, ch)
    [] s.state = "s_body_identity" -> s_body_identity(s)
    [] s.state = "s_chunk_size_start" -> s_chunk_size_start(s, ch)
    [] s.state = "s_chunk_size" -> s_chunk_size(s, ch)
    [] s.state = "s_chunk_parameters" -> s_chunk_parameters(s, ch)
    [] s.state = "s_chunk_size_almost_done" -> s_chunk_size_almost_done(s, ch)
    [] s.state = "s_chunk_data" -> s_chunk_data(s)
    [] s.state = "s_chunk_data_almost_done" -> s_chunk_data_almost_done(s, ch)
    [] s.state = "s_chunk_data_done" -> s_chunk_data_done(s, ch)

\* p++.
Advance(s) ==
  [s EXCEPT !.mark = [e \in Elements |-> IF @[e] = NoMark THEN NoMark ELSE @[e] + 1]]

Consume(s, ch, next) ==
  LET r == Read(s, ch)
      c == IF PARSING_HEADER(r.state) /\ r.run = None THEN Count(r, 1) ELSE r
  IN  IF Failed(c) THEN c ELSE Advance(Step(c, ch, next))

\* Mutant: a url that is cut in its server part is not marked again.
Resume_server(s) ==
  [s EXCEPT !.mark = [e \in Elements |->
                        IF \/ e = "header_field" /\ s.state = "s_header_field"
                           \/ e = "header_value" /\ s.state = "s_header_value"
                           \/ e = "url" /\ s.state \in UrlStates \ {"s_req_server"}
                        THEN 0 ELSE NoMark],
            !.ahead = "none",
            !.returned = FALSE]

\* The marks that http_parser_execute sets when it is called again.
Resume(s) ==
  [s EXCEPT !.mark = [e \in Elements |->
                        IF \/ e = "header_field" /\ s.state = "s_header_field"
                           \/ e = "header_value" /\ s.state = "s_header_value"
                           \/ e = "url" /\ s.state \in UrlStates
                        THEN 0 ELSE NoMark],
            !.ahead = "none",
            !.returned = FALSE]

\* Mutant: h_state, a local variable of the inner loop, is not saved.
EndSegment_unsaved(s) ==
  LET c == IF s.run = None THEN s ELSE EndRun([s EXCEPT !.header_state = "h_general"])
      f == CALLBACK_DATA(c, "header_field")
      v == CALLBACK_DATA(f, "header_value")
      u == CALLBACK_DATA(v, "url")
      b == CALLBACK_DATA(u, "body")
  IN  IF Failed(c) THEN c ELSE Resume(b)

\* The end of the segment, or an earlier return, and the next call.
EndSegment(s) ==
  LET c == IF s.run = None THEN s ELSE EndRun(s)
      f == CALLBACK_DATA(c, "header_field")
      v == CALLBACK_DATA(f, "header_value")
      u == CALLBACK_DATA(v, "url")
      b == CALLBACK_DATA(u, "body")
  IN  IF Failed(c) THEN c ELSE Resume(b)

Init ==
  /\ cut = NewParser
  /\ whole = NewParser
  /\ cuts = 0
  /\ blind = FALSE

Running(s) == ~Failed(s) /\ ~s.returned

\* A byte the parser may find at p: the one it has looked ahead at, if it has.
\* A version comes where one is expected; elsewhere it is a row of letters.  A
\* field or a value that is longer than the header may be is not made longer.
Possible(s, ch) ==
  /\ s.ahead # "none" => (s.ahead = "u" <=> ch = "u")
  /\ ch \in Versions => s.state = "s_req_http_start"
  /\ s.run > MaxHeader => ch \in {"CR", "LF"}

\* What the parser may find one byte ahead.
Ahead(s, ch) ==
  IF s.state = "s_start_req" /\ ch = "p" THEN {"u", "other"} ELSE {"other"}

\* The next byte of the stream.
Feed(ch) ==
  /\ Running(cut) /\ Running(whole)
  /\ Possible(cut, ch) /\ Possible(whole, ch)
  /\ \E next \in Ahead(cut, ch) : cut' = Consume(cut, ch, next)
  /\ \E next \in Ahead(whole, ch) : whole' = Consume(whole, ch, next)
  /\ blind' = (blind /\ Failed(cut'))
  /\ UNCHANGED cuts

\* A segment ends here and another begins.  A parser that has returned reads
\* no more of its segment.
Cut ==
  /\ ~Failed(cut) /\ ~Failed(whole)
  /\ cuts < MaxCuts
  /\ cuts' = cuts + 1
  /\ cut' = EndSegment(cut)
  /\ whole' = IF whole.returned THEN EndSegment(whole) ELSE whole
  /\ blind' = (blind \/ cut.ahead # "none")

Next == (\E ch \in Chars : Feed(ch)) \/ Cut

Spec == Init /\ [][Next]_vars

-----------------------------------------------------------------------------
\* The parser without what the cuts may change: positions in the segment, and
\* nread, which counts a byte twice at the end of a segment within a header.
View(s) == [f \in DOMAIN s \ {"mark", "run", "skipped", "ahead", "due", "expect", "nread"} |-> s[f]]

(* Wherever the stream is cut, within a method, a url, a header name, a    *)
(* Content-Length, a folded value, a chunk size or a body, the parser goes *)
(* on as if it were not.  Cuts may make it refuse a request for two        *)
(* reasons only (the size limit, and bytes it would otherwise skip), or    *)
(* when it looked ahead beyond a segment; they never make it accept one.   *)
CutsDoNotMatter ==
  /\ ~Failed(cut) => ~Failed(whole) /\ (whole.ahead = "none" => View(cut) = View(whole))
  /\ ~Failed(whole) /\ ~blind =>
       cut.http_errno \in {"OK", "HEADER_OVERFLOW", "INVALID_HEADER_TOKEN"}

(* Every byte of a url, a header field, a header value and a body is       *)
(* handed to its callback once: what was read and not handed over is what  *)
(* lies between the mark and the current byte, however often the marks     *)
(* were lost at the end of a segment and set again.                        *)
NothingLost ==
  ~Failed(cut) =>
    \A e \in Elements :
      cut.due[e] = IF cut.mark[e] = NoMark THEN 0 ELSE cut.mark[e]

(* Callbacks come in the order of a message: begin, url and headers,       *)
(* headers complete, body, complete; and a message is complete when as     *)
(* many body bytes as its Content-Length or its chunk sizes announce have  *)
(* been handed over, also when messages follow each other in a segment.    *)
CallbacksInOrder == cut.called # "broken"

(* No header, however it is cut, is larger than HTTP_MAX_HEADER_SIZE when  *)
(* the parser is between two of its inner loops.                           *)
HeaderBounded == ~Failed(cut) /\ cut.run = None => cut.size <= MaxHeader

(* The assertions of http_parser_execute: on nread, flags and              *)
(* content_length in the chunk and body states, on the header state when a *)
(* value goes on, and on the marks at the end of a segment.                *)
AssertionsHold ==
  ~Failed(cut) =>
    /\ cut.state = "s_chunk_size_start" => cut.nread = 0
    /\ cut.state \in {"s_chunk_size_start", "s_chunk_size", "s_chunk_parameters",
                      "s_chunk_size_almost_done", "s_chunk_data",
                      "s_chunk_data_almost_done", "s_chunk_data_done"}
         => "CHUNKED" \in cut.flags
    /\ cut.state \in {"s_body_identity", "s_chunk_data"} =>
         cut.content_length \notin {0, UllMax}
    /\ cut.state = "s_chunk_data_almost_done" => cut.content_length = 0
    /\ cut.state = "s_header_value" =>
         cut.header_state \notin {"h_connection", "h_transfer_encoding"}
    /\ Cardinality({e \in Elements : cut.mark[e] # NoMark}) <= 1
=============================================================================
