---------------------------- MODULE ParserProofs ----------------------------
(***************************************************************************)
(* The two parsers of texts: http_parser_execute, whatever stream it is    *)
(* fed and wherever that is cut, and php_strip_tags_ex, whatever text it   *)
(* reads.                                                                  *)
(*                                                                         *)
(* For http_parser_execute, one parser has an invariant (ParserInv) that   *)
(* holds between two bytes.  A byte is consumed in three parts: it is      *)
(* counted, which leaves the parser Reading; its case of the switch is     *)
(* taken, which leaves it in error or Settled with p still on the byte;    *)
(* and p is advanced.  For each case of the switch there are three lemmas: *)
(* X_is says what the case changes, X_steps that it leads from Reading to  *)
(* an Outcome, and X_matches that two parsers of which one was cut more    *)
(* often, and which are Related, still are when both have taken it, or     *)
(* that the former is in error for one of the reasons that cuts can give.  *)
(*                                                                         *)
(* For php_strip_tags_ex, at the end: what a character does to the buffers *)
(* is one of five things (Writing), and each leaves room for the next.     *)
(***************************************************************************)
EXTENDS HttpParser, PhpStripTags, SequenceTheorems, FiniteSetTheorems, TLAPS
-----------------------------------------------------------------------------
(* The invariant of one parser.                                            *)

RequestLine == {"s_req_method", "s_req_spaces_before_url", "s_req_http_start",
                "s_req_http_end", "s_req_line_almost_done"} \cup UrlStates
HeaderStates == {"s_header_field_start", "s_header_field", "s_header_value_discard_ws",
                 "s_header_value", "s_header_almost_done", "s_header_value_lws",
                 "s_header_value_discard_ws_almost_done", "s_header_value_discard_lws",
                 "s_headers_almost_done"}
ChunkSizeStates == {"s_chunk_size", "s_chunk_parameters", "s_chunk_size_almost_done"}
ChunkStates == ChunkSizeStates \cup {"s_chunk_size_start", "s_chunk_data",
                                     "s_chunk_data_almost_done", "s_chunk_data_done"}
States == {"s_start_req", "s_body_identity"} \cup RequestLine \cup HeaderStates \cup ChunkStates

HeaderKinds == {"h_general", "h_C", "h_matching_transfer_encoding", "h_matching_upgrade",
                "h_connection", "h_content_length", "h_transfer_encoding", "h_upgrade",
                "h_matching_transfer_encoding_chunked", "h_matching_connection_keep_alive",
                "h_matching_connection_close", "h_matching_connection_upgrade",
                "h_matching_connection_token", "h_matching_connection_token_start",
                "h_connection_keep_alive", "h_connection_close", "h_connection_upgrade",
                "h_transfer_encoding_chunked"}
Flags == {"UPGRADE", "CONTENTLENGTH", "TRAILING", "KEEP_ALIVE", "CLOSE", "CONNECTION_UPGRADE",
          "CHUNKED"}
Errors == {"OK", "HEADER_OVERFLOW", "STRICT", "UNEXPECTED_CONTENT_LENGTH", "INVALID_METHOD",
           "INVALID_URL", "INVALID_CONSTANT", "INVALID_VERSION", "LF_EXPECTED",
           "INVALID_HEADER_TOKEN", "INVALID_CONTENT_LENGTH", "INVALID_CHUNK_SIZE"}
Methods == {"GET", "CONNECT", "POST", "PUT"}

Parsers ==
  [state : States, header_state : HeaderKinds, index : Nat, flags : SUBSET Flags, nread : Nat,
   content_length : Nat, method : Methods, version : Versions \cup {"none"},
   upgrade : BOOLEAN, http_errno : Errors, mark : [Elements -> Nat \cup {NoMark}],
   run : Nat \cup {None}, skipped : BOOLEAN, ahead : {"none", "u", "other"},
   returned : BOOLEAN, called : {"complete", "begin", "headers", "broken"},
   due : [Elements -> Int], announced : Nat, expect : Int, size : Nat]

\* The bytes between a mark and the byte that is k bytes after the current one.
Between(s, e, k) == IF s.mark[e] = NoMark THEN 0 ELSE s.mark[e] + k

\* An element other than the body is marked exactly in its own states.
MarksInv(s) ==
  /\ s.mark["url"] # NoMark <=> s.state \in UrlStates
  /\ s.mark["header_field"] # NoMark <=> s.state = "s_header_field"
  /\ s.mark["header_value"] # NoMark <=> s.state = "s_header_value"
  /\ s.mark["body"] # NoMark =>
       s.state \in {"s_body_identity", "s_chunk_data", "s_chunk_data_almost_done"}

\* content_length is the length that was read, and it has not overflowed.
LengthInv(s) ==
  /\ s.state = "s_start_req" => s.announced = 0
  /\ s.state \in RequestLine => s.flags = {}
  /\ s.state \in RequestLine \cup HeaderStates /\ "CONTENTLENGTH" \notin s.flags =>
       s.announced = 0 /\ ("TRAILING" \notin s.flags => s.content_length = UllMax)
  /\ s.state \in HeaderStates /\ "CONTENTLENGTH" \in s.flags =>
       s.content_length = s.announced /\ s.announced < UllMax
  /\ s.state = "s_header_value" /\ s.header_state = "h_content_length" =>
       "CONTENTLENGTH" \in s.flags
  /\ s.state \in ChunkSizeStates => s.content_length = s.announced /\ s.announced < UllMax

\* What is announced and not handed over is still to be read, or due.
BodyInv(s, k) ==
  /\ s.state \in {"s_body_identity", "s_chunk_data"} =>
       /\ s.content_length \in 1 .. UllMax - 1
       /\ s.expect = s.content_length + Between(s, "body", k)
  /\ s.state = "s_chunk_data_almost_done" =>
       s.content_length = 0 /\ s.expect = Between(s, "body", k)
  /\ s.state \notin {"s_body_identity", "s_chunk_data", "s_chunk_data_almost_done"} =>
       s.expect = 0
  /\ s.state \in ChunkStates => "CHUNKED" \in s.flags
  /\ s.state = "s_header_value" =>
       s.header_state \notin {"h_connection", "h_transfer_encoding"}

\* The last notification of a message, in each of its states.
OrderInv(s) ==
  s.called = IF s.state = "s_start_req" THEN "complete"
             ELSE IF s.state \in RequestLine THEN "begin"
             ELSE IF s.state \in HeaderStates /\ "TRAILING" \notin s.flags THEN "begin"
             ELSE "headers"

\* The bytes of an inner loop that are not counted yet.
Run(s) == IF s.run = None THEN 0 ELSE s.run

\* nread with the bytes of an inner loop is not less than the size of the header.
SizeInv(s) ==
  /\ s.nread <= MaxHeader
  /\ s.called # "begin" => s.size <= MaxHeader
  /\ s.called = "begin" => s.size + (IF s.run = None THEN 0 ELSE 1) <= s.nread + Run(s)

\* When the inner loops run, when the parser has looked ahead, and when it has
\* returned early.
LocalsInv(s) ==
  /\ s.run # None => s.state \in {"s_header_field", "s_header_value"}
  /\ s.skipped => s.run # None /\ s.state = "s_header_value" /\ s.header_state = "h_general"
  /\ s.ahead # "none" =>
       /\ s.state = "s_req_method" /\ s.index = 1 /\ s.method \in {"POST", "PUT"}
       /\ s.method = "PUT" <=> s.ahead = "u"
  /\ s.returned => s.state = "s_start_req"

\* What holds before a byte is read (k = 0 and nothing is pending), when the
\* byte has been read (it is part of the elements pending) and when the step is
\* done and p still has to be advanced (k = 1).
Always(s, k, pending) ==
  /\ s \in Parsers
  /\ s.http_errno = "OK"
  /\ \A e \in Elements : s.due[e] = Between(s, e, k) + (IF e \in pending THEN 1 ELSE 0)
  /\ MarksInv(s) /\ LengthInv(s) /\ BodyInv(s, k) /\ OrderInv(s)

Settled(s, k) ==
  /\ Always(s, k, {})
  /\ SizeInv(s) /\ LocalsInv(s)
  /\ s.state = "s_chunk_size_start" => s.nread = 0

ParserInv(s) == Settled(s, 0)

\* Between the reading of a byte and the step that it causes.
Reading(s, pending) ==
  /\ Always(s, 0, pending)
  /\ s.nread <= MaxHeader
  /\ s.state = "s_start_req" => s.nread > 0
  /\ s.called # "begin" => s.size = 0
  /\ s.called = "begin" => s.size <= s.nread + Run(s)
  /\ s.run # None => s.state \in {"s_header_field", "s_header_value"}
  /\ s.skipped => s.run # None /\ s.state = "s_header_value" /\ s.header_state = "h_general"
  /\ s.ahead = "none" /\ ~s.returned

-----------------------------------------------------------------------------
(* The relation of the two parsers.                                        *)

\* The view but for the method.
SameBut(s, w) ==
  /\ s.state = w.state /\ s.header_state = w.header_state /\ s.index = w.index
  /\ s.flags = w.flags /\ s.content_length = w.content_length /\ s.version = w.version
  /\ s.upgrade = w.upgrade /\ s.http_errno = w.http_errno /\ s.returned = w.returned
  /\ s.called = w.called /\ s.announced = w.announced /\ s.size = w.size

\* The inner loops of a parser whose segments are shorter stop more often, and
\* count more.
CountsMore(s, w) ==
  /\ s.nread + Run(s) >= w.nread + Run(w)
  /\ s.run # None => w.run # None
  /\ s.skipped => w.skipped

\* b: a cut hid the byte that s looked ahead at.
Related(s, w, b) ==
  /\ SameBut(s, w)
  /\ CountsMore(s, w)
  /\ w.ahead = "none" => s.method = w.method /\ s.ahead = "none"
  /\ w.ahead # "none" =>
       /\ s.state = "s_req_method" /\ s.index = 1 /\ s.method \in {"POST", "PUT"}
       /\ s.ahead = "none" => b

-----------------------------------------------------------------------------
(* What the parts of a step change.                                        *)

Fields == {"state", "header_state", "index", "flags", "nread", "content_length", "method",
           "version", "upgrade", "http_errno", "mark", "run", "skipped", "ahead", "returned",
           "called", "due", "announced", "expect", "size"}

\* t is a parser that differs from s in some of the fields F only.
Keeps(t, s, F) == t \in Parsers /\ \A f \in Fields \ F : t[f] = s[f]
Moves(t, s, x) == Keeps(t, s, {"state"}) /\ t.state = x

\* A parser in error, and what every step leads to.
Failure(t) == t.http_errno \in Errors \ {"OK"} /\ t = Fail(t, t.http_errno)
Outcome(t) == Failure(t) \/ Settled(t, 1)

\* The states of the switch.
LEMMA StatesAre ==
  /\ UrlStates \subseteq States /\ RequestLine \subseteq States
  /\ HeaderStates \subseteq States /\ ChunkStates \subseteq States
  /\ {"s_start_req", "s_req_method", "s_req_spaces_before_url", "s_req_http_start",
      "s_req_http_end", "s_req_line_almost_done"} \subseteq States
  /\ {"s_header_field_start", "s_header_field", "s_header_value_discard_ws", "s_header_value",
      "s_header_almost_done", "s_header_value_lws", "s_header_value_discard_ws_almost_done",
      "s_header_value_discard_lws", "s_headers_almost_done"} \subseteq States
  /\ {"s_chunk_size_start", "s_chunk_size", "s_chunk_parameters", "s_chunk_size_almost_done",
      "s_chunk_data", "s_chunk_data_almost_done", "s_chunk_data_done",
      "s_body_identity"} \subseteq States
  BY DEF States, RequestLine, HeaderStates, ChunkStates, ChunkSizeStates

\* Nothing but the error is kept of a parser in error.
LEMMA FailIs ==
  ASSUME NEW s, NEW x \in Errors
  PROVE  /\ Fail(s, x) \in Parsers
         /\ Fail(s, x).http_errno = x
         /\ Fail(s, x).called = "complete"
         /\ x # "OK" => Failure(Fail(s, x))
<1>1. /\ Fail(s, x).http_errno = x
      /\ Fail(s, x).called = "complete"
  BY DEF Fail, NewParser
<1>2. Fail(s, x) = Fail(Fail(s, x), x)
  BY DEF Fail
<1>3. Fail(s, x) \in Parsers
  <2>1. NewParser \in Parsers
    BY DEF NewParser, Parsers, States, HeaderKinds, Methods, Versions, Errors
  <2> QED BY <2>1 DEF Fail, Parsers
<1> QED BY <1>1, <1>2, <1>3 DEF Failure

\* goto.
LEMMA GotoIs ==
  ASSUME NEW s \in Parsers, NEW x \in States
  PROVE  Moves(Goto(s, x), s, x)
  BY DEF Goto, Moves, Keeps, Parsers, Fields

\* A flag is set.
LEMMA FlagIs ==
  ASSUME NEW s \in Parsers, NEW x \in Flags
  PROVE  Keeps(Flag(s, x), s, {"flags"}) /\ Flag(s, x).flags = s.flags \cup {x}
  BY DEF Flag, Keeps, Parsers, Fields

\* MARK.
LEMMA MarkIs ==
  ASSUME NEW s \in Parsers, NEW e \in Elements
  PROVE  /\ Keeps(Mark(s, e), s, {"mark"})
         /\ \A f \in Elements :
              Mark(s, e).mark[f] = IF f = e /\ s.mark[e] = NoMark THEN 0 ELSE s.mark[f]
  BY DEF Mark, Keeps, Parsers, Fields, NoMark

\* CALLBACK_DATA_ in its turn: the element is handed over and its mark is lost.
LEMMA DataIs ==
  ASSUME NEW s \in Parsers, NEW e \in Elements, NEW n \in Nat,
         s.called = IF e = "body" \/ "TRAILING" \in s.flags THEN "headers" ELSE "begin",
         s.mark[e] # NoMark
  PROVE  /\ Keeps(Data(s, e, n), s, {"mark", "due", "expect"})
         /\ \A f \in Elements : Data(s, e, n).mark[f] = IF f = e THEN NoMark ELSE s.mark[f]
         /\ \A f \in Elements : Data(s, e, n).due[f] = IF f = e THEN s.due[f] - n ELSE s.due[f]
         /\ Data(s, e, n).expect = IF e = "body" THEN s.expect - n ELSE s.expect
<1> DEFINE v == IF e = "body" THEN s.expect - n ELSE s.expect
           g == [s.mark EXCEPT ![e] = NoMark]
           h == [s.due EXCEPT ![e] = @ - n]
           t == [s EXCEPT !.mark = g, !.due = h, !.expect = v]
<1>1. g \in [Elements -> Nat \cup {NoMark}] /\ h \in [Elements -> Int] /\ v \in Int
  BY DEF Parsers
<1>2. /\ \A f \in Elements : g[f] = IF f = e THEN NoMark ELSE s.mark[f]
      /\ \A f \in Elements : h[f] = IF f = e THEN s.due[f] - n ELSE s.due[f]
  BY DEF Parsers
<1>3. Data(s, e, n) = t
  BY DEF Data, Parsers
<1> HIDE DEF g, h, v
<1>4. Keeps(t, s, {"mark", "due", "expect"}) /\ t.mark = g /\ t.due = h /\ t.expect = v
  BY <1>1 DEF Keeps, Parsers, Fields
<1> QED BY <1>2, <1>3, <1>4 DEF v

\* COUNT_HEADER_SIZE.
LEMMA CountIs ==
  ASSUME NEW s \in Parsers, NEW n \in Nat
  PROVE  /\ s.nread + n > MaxHeader => Count(s, n) = Fail(s, "HEADER_OVERFLOW")
         /\ ~(s.nread + n > MaxHeader) =>
              Keeps(Count(s, n), s, {"nread"}) /\ Count(s, n).nread = s.nread + n
  BY LimitsAssumption DEF Count, Fail, Keeps, Parsers, Fields

\* The end of an inner loop.
LEMMA EndRunIs ==
  ASSUME NEW s \in Parsers, s.run # None
  PROVE  /\ s.nread + s.run > MaxHeader => EndRun(s) = Fail(s, "HEADER_OVERFLOW")
         /\ ~(s.nread + s.run > MaxHeader) =>
              /\ Keeps(EndRun(s), s, {"nread", "run", "skipped"})
              /\ EndRun(s).nread = s.nread + s.run
              /\ EndRun(s).run = None /\ ~EndRun(s).skipped
<1> DEFINE t == [s EXCEPT !.run = None, !.skipped = FALSE]
<1>1. Keeps(t, s, {"run", "skipped"}) /\ t.run = None /\ ~t.skipped
  BY DEF Keeps, Parsers, Fields, None
<1>2. EndRun(s) = Count(t, s.run)
  BY DEF EndRun
<1>3. s.run \in Nat
  BY DEF Parsers, None
<1> HIDE DEF t
<1>4. t \in Parsers /\ t.nread = s.nread
  BY <1>1 DEF Keeps, Fields
<1>5. CASE s.nread + s.run > MaxHeader
  BY <1>2, <1>3, <1>4, <1>5, CountIs DEF Fail
<1>6. CASE ~(s.nread + s.run > MaxHeader)
  <2>1. Keeps(EndRun(s), t, {"nread"}) /\ EndRun(s).nread = s.nread + s.run
    BY <1>2, <1>3, <1>4, <1>6, CountIs
  <2> QED BY <1>1, <1>6, <2>1 DEF Keeps, Fields
<1> QED BY <1>5, <1>6

\* The end of a message in its turn: message_complete_cb initialises the parser.
LEMMA CompleteIs ==
  ASSUME NEW s \in Parsers, s.called = "headers", s.expect = 0, s.http_errno = "OK"
  PROVE  /\ Keeps(Complete(s), s, {"state", "header_state", "index", "flags", "nread",
                                   "content_length", "method", "version", "upgrade",
                                   "announced", "called"})
         /\ Complete(s).state = "s_start_req" /\ Complete(s).header_state = "h_general"
         /\ Complete(s).index = 0 /\ Complete(s).flags = {} /\ Complete(s).nread = 0
         /\ Complete(s).content_length = 0 /\ Complete(s).method = "GET"
         /\ Complete(s).version = "none" /\ ~Complete(s).upgrade
         /\ Complete(s).announced = 0 /\ Complete(s).called = "complete"
<1> DEFINE t == [s EXCEPT !.state = NEW_MESSAGE(s), !.announced = 0, !.called = "complete"]
           u == [s EXCEPT !.state = "s_start_req", !.announced = 0, !.called = "complete",
                          !.header_state = "h_general", !.index = 0, !.flags = {}]
           v == [u EXCEPT !.nread = 0, !.content_length = 0, !.method = "GET",
                          !.version = "none", !.upgrade = FALSE, !.http_errno = "OK"]
<1>1. Complete(s) = http_parser_init(t)
  BY DEF Complete, message_complete, Goto, Parsers
<1>2. http_parser_init(t) = v
  BY DEF http_parser_init, Parsers
<1>3. /\ Keeps(u, s, {"state", "announced", "called", "header_state", "index", "flags"})
      /\ u.state = "s_start_req" /\ u.announced = 0 /\ u.called = "complete"
      /\ u.header_state = "h_general" /\ u.index = 0 /\ u.flags = {}
  BY DEF Keeps, Parsers, Fields, States, HeaderKinds
<1> HIDE DEF t, u
<1>4. /\ Keeps(v, u, {"nread", "content_length", "method", "version", "upgrade", "http_errno"})
      /\ v.nread = 0 /\ v.content_length = 0 /\ v.method = "GET"
      /\ v.version = "none" /\ ~v.upgrade /\ v.http_errno = "OK"
  BY <1>3 DEF Keeps, Parsers, Fields, Methods, Errors
<1> HIDE DEF v
<1> QED BY <1>1, <1>2, <1>3, <1>4 DEF Keeps, Fields

\* CALLBACK_DATA in its turn.
LEMMA CallbackIs ==
  ASSUME NEW s \in Parsers, NEW e \in Elements,
         s.mark[e] # NoMark =>
           s.called = IF e = "body" \/ "TRAILING" \in s.flags THEN "headers" ELSE "begin"
  PROVE  /\ Keeps(CALLBACK_DATA(s, e), s, {"mark", "due", "expect"})
         /\ \A f \in Elements : CALLBACK_DATA(s, e).mark[f] = IF f = e THEN NoMark ELSE s.mark[f]
         /\ \A f \in Elements : CALLBACK_DATA(s, e).due[f] =
              IF f = e /\ s.mark[e] # NoMark THEN s.due[f] - s.mark[f] ELSE s.due[f]
         /\ CALLBACK_DATA(s, e).expect =
              IF e = "body" /\ s.mark[e] # NoMark THEN s.expect - s.mark[e] ELSE s.expect
<1>1. CASE s.mark[e] = NoMark
  BY <1>1 DEF CALLBACK_DATA, Data, Keeps
<1>2. CASE s.mark[e] # NoMark
  <2>1. s.mark[e] \in Nat
    BY <1>2 DEF Parsers
  <2>2. PICK n \in Nat : n = s.mark[e]
    BY <2>1
  <2>3. CALLBACK_DATA(s, e) = Data(s, e, n)
    BY <2>2 DEF CALLBACK_DATA
  <2>4. /\ Keeps(Data(s, e, n), s, {"mark", "due", "expect"})
        /\ \A f \in Elements : Data(s, e, n).mark[f] = IF f = e THEN NoMark ELSE s.mark[f]
        /\ \A f \in Elements : Data(s, e, n).due[f] = IF f = e THEN s.due[f] - n ELSE s.due[f]
        /\ Data(s, e, n).expect = IF e = "body" THEN s.expect - n ELSE s.expect
    BY <1>2, DataIs
  <2> QED BY <1>2, <2>2, <2>3, <2>4
<1> QED BY <1>1, <1>2

-----------------------------------------------------------------------------
(* Reading a byte, and going on to the next.                               *)

\* http_parser_execute before its switch.
Counted(s, ch) ==
  LET r == Read(s, ch)
  IN  IF PARSING_HEADER(r.state) /\ r.run = None THEN Count(r, 1) ELSE r

\* A byte is counted, and is part of what will be due.
LEMMA CountedIs ==
  ASSUME NEW s \in Parsers, NEW ch
  PROVE  LET r == Counted(s, ch)
             n == IF PARSING_HEADER(s.state) /\ s.run = None THEN 1 ELSE 0
         IN  /\ n = 1 /\ s.nread + 1 > MaxHeader => r = Fail(s, "HEADER_OVERFLOW")
             /\ ~(n = 1 /\ s.nread + 1 > MaxHeader) =>
                  /\ Keeps(r, s, {"due", "size", "ahead", "nread"})
                  /\ \A e \in Elements :
                       r.due[e] = s.due[e] + (IF e \in Parts(s, ch) THEN 1 ELSE 0)
                  /\ r.size = IF s.called = "begin" THEN s.size + 1 ELSE 0
                  /\ r.ahead = "none"
                  /\ r.nread = s.nread + n
<1> DEFINE g == [e \in Elements |-> s.due[e] + (IF e \in Parts(s, ch) THEN 1 ELSE 0)]
           z == IF s.called = "begin" THEN s.size + 1 ELSE 0
           q == Read(s, ch)
<1>1. g \in [Elements -> Int] /\ z \in Nat
  BY DEF Parsers
<1>2. \A e \in Elements : g[e] = s.due[e] + (IF e \in Parts(s, ch) THEN 1 ELSE 0)
  OBVIOUS
<1>3. q = [s EXCEPT !.due = g, !.size = z, !.ahead = "none"]
  BY DEF Read, Parsers
<1> HIDE DEF g, z, q
<1>4. /\ Keeps(q, s, {"due", "size", "ahead"})
      /\ q.due = g /\ q.size = z /\ q.ahead = "none"
  BY <1>1, <1>3 DEF Keeps, Parsers, Fields
<1>5. q \in Parsers /\ q.state = s.state /\ q.run = s.run /\ q.nread = s.nread
  BY <1>4 DEF Keeps, Fields
<1>6. CASE PARSING_HEADER(s.state) /\ s.run = None
  <2>1. Counted(s, ch) = Count(q, 1)
    BY <1>5, <1>6 DEF Counted, q
  <2>2. CASE s.nread + 1 > MaxHeader
    <3>1. Count(q, 1) = Fail(q, "HEADER_OVERFLOW")
      BY <1>5, <2>2, CountIs
    <3> QED BY <1>6, <2>1, <2>2, <3>1 DEF Fail
  <2>3. CASE ~(s.nread + 1 > MaxHeader)
    <3>1. Keeps(Count(q, 1), q, {"nread"}) /\ Count(q, 1).nread = s.nread + 1
      BY <1>5, <2>3, CountIs
    <3> QED BY <1>2, <1>4, <1>6, <2>1, <2>3, <3>1 DEF Keeps, Fields, z
  <2> QED BY <2>2, <2>3
<1>7. CASE ~(PARSING_HEADER(s.state) /\ s.run = None)
  <2>1. Counted(s, ch) = q
    BY <1>5, <1>7 DEF Counted, q
  <2> QED BY <1>2, <1>4, <1>5, <1>7, <2>1 DEF Keeps, Fields, z, Parsers
<1> QED BY <1>6, <1>7

\* Only the state decides what a byte is a part of.
LEMMA PartsKept ==
  ASSUME NEW s, NEW r, r.state = s.state, NEW ch
  PROVE  Parts(r, ch) = Parts(s, ch)
  BY DEF Parts

\* A parser at rest reads a byte.
LEMMA CountedReads ==
  ASSUME NEW s, ParserInv(s), ~s.returned, NEW ch
  PROVE  LET r == Counted(s, ch)
         IN  \/ Failure(r) /\ r.http_errno = "HEADER_OVERFLOW"
             \/ Reading(r, Parts(r, ch)) /\ ~Failed(r)
<1> DEFINE r == Counted(s, ch)
           n == IF PARSING_HEADER(s.state) /\ s.run = None THEN 1 ELSE 0
<1>1. s \in Parsers /\ s.http_errno = "OK"
  BY DEF ParserInv, Settled, Always
<1>2. CASE n = 1 /\ s.nread + 1 > MaxHeader
  <2>1. r = Fail(s, "HEADER_OVERFLOW")
    BY <1>1, <1>2, CountedIs
  <2> QED BY <2>1, FailIs DEF Errors
<1>3. CASE ~(n = 1 /\ s.nread + 1 > MaxHeader)
  <2> HIDE DEF r, n
  <2>1. /\ Keeps(r, s, {"due", "size", "ahead", "nread"})
        /\ \A e \in Elements : r.due[e] = s.due[e] + (IF e \in Parts(s, ch) THEN 1 ELSE 0)
        /\ r.size = IF s.called = "begin" THEN s.size + 1 ELSE 0
        /\ r.ahead = "none"
        /\ r.nread = s.nread + n
    BY <1>1, <1>3, CountedIs DEF r, n
  <2>2. n \in {0, 1} /\ (n = 1 => s.run = None)
    BY DEF n
  <2>3. (s.run = None /\ s.called = "begin") \/ s.state = "s_start_req" => n = 1
    BY <1>1 DEF n, PARSING_HEADER, BodyStates, ParserInv, Reading, Settled, Always, MarksInv,
      LengthInv, BodyInv, OrderInv, SizeInv, LocalsInv, Between, Run, Keeps, Moves, Fields,
      Parsers, States, RequestLine, HeaderStates, ChunkStates, ChunkSizeStates, UrlStates,
      Elements, NoMark, None
  <2>4. r.state = s.state
    BY <2>1 DEF Keeps, Fields
  <2>5. Parts(r, ch) = Parts(s, ch)
    BY <2>4, PartsKept
  <2>6. Reading(r, Parts(s, ch))
    BY <1>1, <1>3, <2>1, <2>2, <2>3, LimitsAssumption DEF ParserInv, Reading, Settled, Always,
      MarksInv, LengthInv, BodyInv, OrderInv, SizeInv, LocalsInv, Between, Run, Keeps, Moves,
      Fields, Parsers, States, RequestLine, HeaderStates, ChunkStates, ChunkSizeStates, UrlStates,
      Elements, NoMark, None
  <2>7. r.http_errno = "OK"
    BY <1>1, <2>1 DEF Keeps, Fields
  <2> QED BY <2>5, <2>6, <2>7 DEF Failed, r
<1> QED BY <1>2, <1>3

\* p++.
LEMMA AdvanceIs ==
  ASSUME NEW s \in Parsers
  PROVE  /\ Keeps(Advance(s), s, {"mark"})
         /\ \A e \in Elements :
              Advance(s).mark[e] = IF s.mark[e] = NoMark THEN NoMark ELSE s.mark[e] + 1
<1> DEFINE g == [e \in Elements |-> IF s.mark[e] = NoMark THEN NoMark ELSE s.mark[e] + 1]
<1>1. g \in [Elements -> Nat \cup {NoMark}]
  BY DEF Parsers
<1>2. \A e \in Elements : g[e] = IF s.mark[e] = NoMark THEN NoMark ELSE s.mark[e] + 1
  OBVIOUS
<1>3. Advance(s) = [s EXCEPT !.mark = g]
  BY DEF Advance, Parsers
<1> HIDE DEF g
<1>4. Keeps([s EXCEPT !.mark = g], s, {"mark"}) /\ [s EXCEPT !.mark = g].mark = g
  BY <1>1 DEF Keeps, Parsers, Fields
<1> QED BY <1>2, <1>3, <1>4

\* A parser that has done its step is at rest at the next byte.
LEMMA AdvanceSettles ==
  ASSUME NEW t, Settled(t, 1)
  PROVE  ParserInv(Advance(t)) /\ ~Failed(Advance(t))
<1>1. t \in Parsers
  BY DEF Settled, Always
<1> DEFINE u == Advance(t)
<1>2. /\ Keeps(u, t, {"mark"})
      /\ \A e \in Elements : u.mark[e] = IF t.mark[e] = NoMark THEN NoMark ELSE t.mark[e] + 1
  BY <1>1, AdvanceIs
<1> HIDE DEF u
<1>3. \A e \in Elements : /\ Between(u, e, 0) = Between(t, e, 1)
                          /\ u.mark[e] = NoMark <=> t.mark[e] = NoMark
  BY <1>1, <1>2 DEF Between, Parsers, NoMark
<1>4. ParserInv(u)
  BY <1>2, <1>3 DEF ParserInv, Settled, Always, MarksInv, LengthInv, BodyInv, OrderInv,
    SizeInv, LocalsInv, Run, Keeps, Fields, Elements
<1>5. ~Failed(u)
  BY <1>4 DEF ParserInv, Settled, Always, Failed
<1> QED BY <1>4, <1>5 DEF u

\* A parser in error stays as it is.
LEMMA AdvanceFails ==
  ASSUME NEW t, Failure(t)
  PROVE  Advance(t) = t
<1>1. PICK x \in Errors : t = Fail(t, x)
  BY DEF Failure
<1>2. t \in Parsers /\ \A e \in Elements : t.mark[e] = NoMark
  BY <1>1, FailIs DEF Fail, NewParser
<1>3. [e \in Elements |-> IF t.mark[e] = NoMark THEN NoMark ELSE t.mark[e] + 1] = t.mark
  BY <1>2 DEF Parsers
<1>4. Advance(t) = [t EXCEPT !.mark = t.mark]
  BY <1>2, <1>3 DEF Advance, Parsers
<1> QED BY <1>2, <1>4 DEF Parsers
-----------------------------------------------------------------------------
(* Two parsers that read the same byte.                                    *)

Paired(s, w) == SameBut(s, w) /\ s.method = w.method /\ CountsMore(s, w)

\* What the two come to, b as in Related: the cuts may only add failures.
Matched(t, u, b) ==
  \/ Failed(t) /\ Failed(u)
  \/ Failed(t) /\ (t.http_errno \in {"HEADER_OVERFLOW", "INVALID_HEADER_TOKEN"} \/ b)
  \/ ~Failed(t) /\ ~Failed(u) /\ Related(t, u, FALSE)

\* The same failure.
LEMMA BothFail ==
  ASSUME NEW t, NEW u, Failure(t), Failure(u), NEW b
  PROVE  Matched(t, u, b)
  BY DEF Failure, Failed, Matched

\* Both parsers change the same fields to the same.
LEMMA SameChange ==
  ASSUME NEW r, NEW w, r.http_errno = "OK", r.ahead = "none", w.ahead = "none",
         Paired(r, w), NEW t, NEW u, NEW F, Keeps(t, r, F), Keeps(u, w, F),
         F \cap {"run", "skipped", "ahead", "http_errno"} = {},
         "nread" \in F => r.run = None /\ w.run = None,
         \A f \in F \ {"mark", "due", "expect"} : t[f] = u[f], NEW b
  PROVE  Matched(t, u, b)
<1>1. /\ t.run = r.run /\ t.skipped = r.skipped
      /\ t.ahead = "none" /\ t.http_errno = "OK"
      /\ u.run = w.run /\ u.skipped = w.skipped
      /\ u.ahead = "none" /\ u.http_errno = "OK"
  BY DEF Keeps, Fields, Paired, SameBut
<1>2. ASSUME NEW f \in Fields \ {"mark", "due", "expect"}, r[f] = w[f]
      PROVE  t[f] = u[f]
  BY <1>2 DEF Keeps
<1>3. SameBut(t, u) /\ t.method = u.method
  BY <1>2 DEF Paired, SameBut, Fields
<1>4. CountsMore(t, u)
  <2>1. CASE "nread" \in F
    <3>1. t.nread = u.nread /\ t.nread \in Nat
      BY <2>1 DEF Keeps, Parsers
    <3> QED BY <1>1, <2>1, <3>1 DEF Paired, CountsMore, Run
  <2>2. CASE "nread" \notin F
    <3>1. t.nread = r.nread /\ u.nread = w.nread
      BY <2>2 DEF Keeps, Fields
    <3> QED BY <1>1, <3>1 DEF Paired, CountsMore, Run
  <2> QED BY <2>1, <2>2
<1> QED BY <1>1, <1>3, <1>4 DEF Matched, Failed, Related

\* What a byte is read in.
LEMMA ReadingHas ==
  ASSUME NEW r, NEW pending, Reading(r, pending)
  PROVE  r \in Parsers /\ r.http_errno = "OK" /\ r.ahead = "none" /\ ~r.returned
  BY DEF Reading, Always

-----------------------------------------------------------------------------
(* The request line.                                                       *)

\* What s_start_req does.
LEMMA s_start_req_is ==
  ASSUME NEW s \in Parsers, s.called = "complete", NEW ch, NEW next \in {"u", "other"}
  PROVE  LET t == s_start_req(s, ch, next)
         IN  \/ ch \in {"CR", "LF"} /\ t = s
             \/ ch \notin {"CR", "LF", "g", "c", "p"} /\ t = Fail(s, "INVALID_METHOD")
             \/ /\ ch \in {"g", "c", "p"}
                /\ Keeps(t, s, {"state", "flags", "index", "content_length", "method", "ahead",
                                "called", "size"})
                /\ t.state = "s_req_method" /\ t.flags = {} /\ t.index = 1
                /\ t.content_length = UllMax /\ t.called = "begin" /\ t.size = 1
                /\ ch = "g" => t.method = "GET" /\ t.ahead = "none"
                /\ ch = "c" => t.method = "CONNECT" /\ t.ahead = "none"
                /\ ch = "p" => t.method = (IF next = "u" THEN "PUT" ELSE "POST") /\ t.ahead = next
<1> DEFINE q(m, a) == [s EXCEPT !.state = "s_req_method", !.flags = {}, !.index = 1,
                                !.content_length = UllMax, !.method = m, !.ahead = a]
           z(m, a) == message_begin(q(m, a))
<1>1. ASSUME NEW m \in Methods, NEW a \in {"none", "u", "other"}
      PROVE  /\ Keeps(z(m, a), s, {"state", "flags", "index", "content_length", "method", "ahead",
                                   "called", "size"})
             /\ z(m, a).state = "s_req_method" /\ z(m, a).flags = {} /\ z(m, a).index = 1
             /\ z(m, a).content_length = UllMax /\ z(m, a).called = "begin" /\ z(m, a).size = 1
             /\ z(m, a).method = m /\ z(m, a).ahead = a
  <2>1. /\ Keeps(q(m, a), s, {"state", "flags", "index", "content_length", "method", "ahead"})
        /\ q(m, a).state = "s_req_method" /\ q(m, a).flags = {} /\ q(m, a).index = 1
        /\ q(m, a).content_length = UllMax /\ q(m, a).method = m /\ q(m, a).ahead = a
    BY <1>1, StatesAre, LimitsAssumption DEF Keeps, Parsers, Fields
  <2>2. PICK v : v = q(m, a)
    OBVIOUS
  <2>3. v \in Parsers /\ v.called = "complete"
    BY <2>1, <2>2 DEF Keeps, Fields
  <2>4. /\ Keeps(message_begin(v), v, {"called", "size"})
        /\ message_begin(v).called = "begin" /\ message_begin(v).size = 1
    BY <2>3 DEF message_begin, Keeps, Parsers, Fields
  <2> QED BY <2>1, <2>2, <2>4 DEF Keeps, Fields
<1>2. /\ ch \in {"CR", "LF"} => s_start_req(s, ch, next) = s
      /\ ch = "g" => s_start_req(s, ch, next) = z("GET", "none")
      /\ ch = "c" => s_start_req(s, ch, next) = z("CONNECT", "none")
      /\ ch = "p" => s_start_req(s, ch, next) = z(IF next = "u" THEN "PUT" ELSE "POST", next)
      /\ ch \notin {"CR", "LF", "g", "c", "p"} =>
           s_start_req(s, ch, next) = Fail(s, "INVALID_METHOD")
  BY DEF s_start_req
<1> HIDE DEF z
<1> QED BY <1>1, <1>2 DEF Methods

\* The first byte of a request.
LEMMA s_start_req_steps ==
  ASSUME NEW r, NEW ch, Reading(r, Parts(r, ch)), r.state = "s_start_req",
         NEW next \in {"u", "other"}
  PROVE  Outcome(s_start_req(r, ch, next))
<1> DEFINE t == s_start_req(r, ch, next)
<1>1. r \in Parsers /\ r.called = "complete" /\ Parts(r, ch) = {}
  BY DEF Parts, Reading, Settled, Always, MarksInv, LengthInv, BodyInv, OrderInv, SizeInv,
    LocalsInv, Between, Run, Keeps, Moves, Fields, Parsers, States, RequestLine, HeaderStates,
    ChunkStates, ChunkSizeStates, UrlStates, Elements, NoMark, None
<1>2. CASE t = Fail(r, "INVALID_METHOD")
  BY <1>2, FailIs DEF Outcome, Errors
<1>3. CASE t # Fail(r, "INVALID_METHOD")
  <2>1. PICK v : v = t
    OBVIOUS
  <2>2. \/ v = r
        \/ /\ Keeps(v, r, {"state", "flags", "index", "content_length", "method", "ahead",
                           "called", "size"})
           /\ v.state = "s_req_method" /\ v.flags = {} /\ v.index = 1
           /\ v.content_length = UllMax /\ v.called = "begin" /\ v.size = 1
           /\ v.ahead # "none" => v.method = (IF v.ahead = "u" THEN "PUT" ELSE "POST")
    BY <1>1, <1>3, <2>1, s_start_req_is
  <2>3. Settled(v, 1)
    BY <1>1, <2>2, LimitsAssumption DEF Reading, Settled, Always, MarksInv, LengthInv, BodyInv,
      OrderInv, SizeInv, LocalsInv, Between, Run, Keeps, Moves, Fields, Parsers, States,
      RequestLine, HeaderStates, ChunkStates, ChunkSizeStates, UrlStates, Elements, NoMark, None
  <2> QED BY <2>1, <2>3 DEF Outcome
<1> QED BY <1>2, <1>3

\* Both parsers begin a request, or look ahead, at the same byte.
LEMMA s_start_req_matches ==
  ASSUME NEW r, NEW w, NEW ch, Reading(r, Parts(r, ch)), Reading(w, Parts(w, ch)), Paired(r, w),
         r.state = "s_start_req", NEW b,
         NEW next1 \in {"u", "other"}, NEW next2 \in {"u", "other"}
  PROVE  Matched(s_start_req(r, ch, next1), s_start_req(w, ch, next2), b)
<1>1. /\ r \in Parsers /\ r.called = "complete" /\ r.http_errno = "OK" /\ r.ahead = "none"
      /\ w \in Parsers /\ w.called = "complete" /\ w.http_errno = "OK" /\ w.ahead = "none"
  BY DEF Reading, Always, OrderInv, Paired, SameBut
<1>2. PICK t : t = s_start_req(r, ch, next1)
  OBVIOUS
<1>3. PICK u : u = s_start_req(w, ch, next2)
  OBVIOUS
<1>4. CASE ch \in {"CR", "LF"}
  <2>1. t = r /\ u = w
    BY <1>2, <1>3, <1>4 DEF s_start_req
  <2> QED BY <1>1, <1>2, <1>3, <2>1 DEF Matched, Failed, Related, Paired
<1>5. CASE ch \notin {"CR", "LF", "g", "c", "p"}
  <2>1. t = Fail(r, "INVALID_METHOD") /\ u = Fail(w, "INVALID_METHOD")
    BY <1>1, <1>2, <1>3, <1>5, s_start_req_is
  <2> QED BY <1>2, <1>3, <2>1, FailIs, BothFail DEF Errors
<1>6. CASE ch \in {"g", "c", "p"}
  <2> DEFINE F == {"state", "flags", "index", "content_length", "method", "ahead", "called", "size"}
  <2>1. /\ Keeps(t, r, F)
        /\ t.state = "s_req_method" /\ t.flags = {} /\ t.index = 1
        /\ t.content_length = UllMax /\ t.called = "begin" /\ t.size = 1
        /\ ch = "g" => t.method = "GET" /\ t.ahead = "none"
        /\ ch = "c" => t.method = "CONNECT" /\ t.ahead = "none"
        /\ ch = "p" => t.method \in {"POST", "PUT"} /\ t.ahead # "none"
    BY <1>1, <1>2, <1>6, s_start_req_is
  <2>2. /\ Keeps(u, w, F)
        /\ u.state = "s_req_method" /\ u.flags = {} /\ u.index = 1
        /\ u.content_length = UllMax /\ u.called = "begin" /\ u.size = 1
        /\ ch = "g" => u.method = "GET" /\ u.ahead = "none"
        /\ ch = "c" => u.method = "CONNECT" /\ u.ahead = "none"
        /\ ch = "p" => u.method \in {"POST", "PUT"} /\ u.ahead # "none"
    BY <1>1, <1>3, <1>6, s_start_req_is
  <2>3. Related(t, u, FALSE) /\ t.http_errno = "OK" /\ u.http_errno = "OK"
    BY <1>1, <1>6, <2>1, <2>2 DEF Related, Paired, SameBut, CountsMore, Run, Keeps, Fields
  <2> QED BY <1>2, <1>3, <2>3 DEF Matched, Failed
<1> QED BY <1>4, <1>5, <1>6

\* The byte after a method, and the next byte of one, at index k.
MethodEnds(m, k, ch) == ch = "SP" /\ k = Len(method_strings[m])
MethodGoesOn(m, k, ch) == k < Len(method_strings[m]) /\ ch = method_strings[m][k + 1]

\* What s_req_method does.
LEMMA s_req_method_is ==
  ASSUME NEW s \in Parsers, NEW ch
  PROVE  LET t == s_req_method(s, ch)
         IN  \/ /\ Keeps(t, s, {"index", "state", "method"}) /\ t.index = s.index + 1
                /\ \/ /\ MethodEnds(s.method, s.index, ch)
                      /\ t.state = "s_req_spaces_before_url" /\ t.method = s.method
                   \/ /\ ~MethodEnds(s.method, s.index, ch)
                      /\ MethodGoesOn(s.method, s.index, ch)
                      /\ t.state = s.state /\ t.method = s.method
                   \/ /\ ~MethodEnds(s.method, s.index, ch)
                      /\ ~MethodGoesOn(s.method, s.index, ch)
                      /\ s.method = "POST" /\ s.index = 1 /\ ch = "u"
                      /\ t.state = s.state /\ t.method = "PUT"
             \/ /\ ~MethodEnds(s.method, s.index, ch)
                /\ ~MethodGoesOn(s.method, s.index, ch)
                /\ ~(s.method = "POST" /\ s.index = 1 /\ ch = "u")
                /\ t = Fail(s, "INVALID_METHOD")
<1> DEFINE q == [s EXCEPT !.index = @ + 1]
           t == s_req_method(s, ch)
<1>1. Keeps(q, s, {"index"}) /\ q.index = s.index + 1
  BY DEF Keeps, Parsers, Fields
<1>2. /\ Moves(Goto(q, "s_req_spaces_before_url"), q, "s_req_spaces_before_url")
  BY <1>1, GotoIs, StatesAre DEF Keeps
<1>3. /\ Keeps([q EXCEPT !.method = "PUT"], q, {"method"})
      /\ [q EXCEPT !.method = "PUT"].method = "PUT"
  BY <1>1 DEF Keeps, Parsers, Fields, Methods
<1>4. \/ MethodEnds(s.method, s.index, ch) /\ t = Goto(q, "s_req_spaces_before_url")
      \/ /\ ~MethodEnds(s.method, s.index, ch)
         /\ MethodGoesOn(s.method, s.index, ch) /\ t = q
      \/ /\ ~MethodEnds(s.method, s.index, ch)
         /\ ~MethodGoesOn(s.method, s.index, ch)
         /\ s.method = "POST" /\ s.index = 1 /\ ch = "u" /\ t = [q EXCEPT !.method = "PUT"]
      \/ /\ ~MethodEnds(s.method, s.index, ch)
         /\ ~MethodGoesOn(s.method, s.index, ch)
         /\ ~(s.method = "POST" /\ s.index = 1 /\ ch = "u")
         /\ t = Fail(s, "INVALID_METHOD")
  BY DEF s_req_method, MethodEnds, MethodGoesOn
<1> HIDE DEF q, t
<1> QED BY <1>1, <1>2, <1>3, <1>4 DEF Keeps, Moves, Fields, t

\* The bytes of a method.
LEMMA s_req_method_steps ==
  ASSUME NEW r, NEW ch, Reading(r, Parts(r, ch)), r.state = "s_req_method"
  PROVE  Outcome(s_req_method(r, ch))
<1>1. r \in Parsers /\ Parts(r, ch) = {}
  BY DEF Parts, Reading, Always, UrlStates
<1>2. PICK t : t = s_req_method(r, ch)
  OBVIOUS
<1>3. \/ t = Fail(r, "INVALID_METHOD")
      \/ /\ Keeps(t, r, {"index", "state", "method"})
         /\ t.state \in {"s_req_method", "s_req_spaces_before_url"}
  BY <1>1, <1>2, s_req_method_is
<1>4. CASE t = Fail(r, "INVALID_METHOD")
  BY <1>2, <1>4, FailIs DEF Outcome, Errors
<1>5. CASE Keeps(t, r, {"index", "state", "method"})
           /\ t.state \in {"s_req_method", "s_req_spaces_before_url"}
  <2>1. Settled(t, 1)
    BY <1>1, <1>5 DEF Reading, Settled, Always, MarksInv, LengthInv, BodyInv, OrderInv, SizeInv,
      LocalsInv, Between, Run, Keeps, Moves, Fields, Parsers, States, RequestLine, HeaderStates,
      ChunkStates, ChunkSizeStates, UrlStates, Elements, NoMark, None
  <2> QED BY <1>2, <2>1 DEF Outcome
<1> QED BY <1>3, <1>4, <1>5

\* The parsers may take a p for the beginning of different methods, but the
\* byte that follows tells them the same, or a cut has hidden it.
LEMMA s_req_method_matches ==
  ASSUME NEW r, NEW w, NEW ch, Reading(r, Parts(r, ch)), Reading(w, Parts(w, ch)), NEW b,
         SameBut(r, w), CountsMore(r, w), r.state = "s_req_method",
         \/ r.method = w.method
         \/ /\ r.index = 1 /\ r.method \in {"POST", "PUT"} /\ w.method \in {"POST", "PUT"}
            /\ w.method = "PUT" <=> ch = "u"
            /\ b
  PROVE  Matched(s_req_method(r, ch), s_req_method(w, ch), b)
<1>1. /\ r \in Parsers /\ r.http_errno = "OK" /\ r.ahead = "none"
      /\ w \in Parsers /\ w.http_errno = "OK" /\ w.ahead = "none"
  BY ReadingHas
<1>2. PICK t : t = s_req_method(r, ch)
  OBVIOUS
<1>3. PICK u : u = s_req_method(w, ch)
  OBVIOUS
<1> DEFINE F == {"index", "state", "method"}
<1>4. ASSUME Keeps(t, r, F), Keeps(u, w, F), t.index = u.index, t.state = u.state,
             t.method = u.method
      PROVE  Related(t, u, FALSE) /\ ~Failed(t) /\ ~Failed(u)
  BY <1>1, <1>4 DEF Related, Failed, SameBut, CountsMore, Run, Keeps, Fields
<1>5. CASE r.method = w.method
  <2>1. r.index = w.index /\ r.state = w.state
    BY DEF SameBut
  <2>2. \/ /\ Keeps(t, r, F) /\ Keeps(u, w, F)
           /\ t.index = u.index /\ t.state = u.state /\ t.method = u.method
        \/ t = Fail(r, "INVALID_METHOD") /\ u = Fail(w, "INVALID_METHOD")
    BY <1>1, <1>2, <1>3, <1>5, <2>1, s_req_method_is
  <2>3. CASE t = Fail(r, "INVALID_METHOD") /\ u = Fail(w, "INVALID_METHOD")
    BY <1>2, <1>3, <2>3, FailIs, BothFail DEF Errors
  <2> QED BY <1>2, <1>3, <1>4, <2>2, <2>3 DEF Matched
<1>6. CASE r.method # w.method
  <2>1. /\ ~MethodEnds("POST", 1, ch) /\ (MethodGoesOn("POST", 1, ch) <=> ch = "t")
        /\ ~MethodEnds("PUT", 1, ch) /\ (MethodGoesOn("PUT", 1, ch) <=> ch = "u")
    BY DEF method_strings, MethodEnds, MethodGoesOn
  <2>2. r.index = 1 /\ w.index = 1 /\ b
    BY <1>6 DEF SameBut
  <2>3. CASE ch = "u"
    <3>1. r.method = "POST" /\ w.method = "PUT"
      BY <1>6, <2>3
    <3>2. Keeps(t, r, F) /\ t.index = 2 /\ t.state = r.state /\ t.method = "PUT"
      BY <1>1, <1>2, <2>1, <2>2, <2>3, <3>1, s_req_method_is
    <3>3. Keeps(u, w, F) /\ u.index = 2 /\ u.state = w.state /\ u.method = "PUT"
      BY <1>1, <1>3, <2>1, <2>2, <2>3, <3>1, s_req_method_is
    <3> QED BY <1>2, <1>3, <1>4, <3>2, <3>3 DEF Matched, SameBut
  <2>4. CASE ch # "u"
    <3>1. r.method = "PUT"
      BY <1>6, <2>4
    <3>2. t = Fail(r, "INVALID_METHOD")
      BY <1>1, <1>2, <2>1, <2>2, <2>4, <3>1, s_req_method_is
    <3>3. Failed(t)
      BY <3>2, FailIs DEF Errors, Failed
    <3> QED BY <1>2, <1>3, <2>2, <3>3 DEF Matched
  <2> QED BY <2>3, <2>4
<1> QED BY <1>5, <1>6

\* parse_url_char stays within a url or finds an error.
LEMMA ParseUrlRange ==
  ASSUME NEW x \in UrlStates \cup {"s_req_spaces_before_url"}, NEW ch
  PROVE  parse_url_char(x, ch) \in UrlStates \cup {"s_dead"}
  BY DEF parse_url_char, UrlStates

\* A byte of a url.
LEMMA Url_is ==
  ASSUME NEW s \in Parsers, s.state \in UrlStates \cup {"s_req_spaces_before_url"}, NEW ch
  PROVE  LET x == parse_url_char(s.state, ch)
         IN  \/ x = "s_dead" /\ Url(s, ch) = Fail(s, "INVALID_URL")
             \/ x \in UrlStates /\ Moves(Url(s, ch), s, x)
<1>1. PICK x : x = parse_url_char(s.state, ch)
  OBVIOUS
<1>2. x \in UrlStates \cup {"s_dead"}
  BY <1>1, ParseUrlRange
<1>3. Goto(s, x).state = x
  BY DEF Goto, Parsers
<1>4. CASE x = "s_dead"
  <2>1. Url(s, ch) = Fail(s, "INVALID_URL")
    BY <1>1, <1>3, <1>4 DEF Url, Fail
  <2> QED BY <1>1, <1>4, <2>1
<1>5. CASE x \in UrlStates
  <2>1. Url(s, ch) = Goto(s, x)
    BY <1>1, <1>3, <1>5 DEF Url, UrlStates
  <2>2. Moves(Goto(s, x), s, x)
    BY <1>5, GotoIs, StatesAre
  <2> QED BY <1>1, <1>5, <2>1, <2>2
<1> QED BY <1>2, <1>4, <1>5

\* What s_req_spaces_before_url does.
LEMMA s_req_spaces_before_url_is ==
  ASSUME NEW s \in Parsers, s.state = "s_req_spaces_before_url", NEW ch
  PROVE  LET t == s_req_spaces_before_url(s, ch)
             x == parse_url_char(IF s.method = "CONNECT" THEN "s_req_server_start" ELSE s.state, ch)
         IN  \/ ch = "SP" /\ t = s
             \/ ch # "SP" /\ x = "s_dead" /\ t = Fail(s, "INVALID_URL")
             \/ /\ ch # "SP" /\ x \in UrlStates
                /\ Keeps(t, s, {"state", "mark"}) /\ t.state = x
                /\ \A f \in Elements :
                     t.mark[f] = IF f = "url" /\ s.mark["url"] = NoMark THEN 0 ELSE s.mark[f]
<1> DEFINE y == IF s.method = "CONNECT" THEN "s_req_server_start" ELSE s.state
           q == IF s.method = "CONNECT" THEN Goto(s, "s_req_server_start") ELSE s
           v == Mark(q, "url")
<1>1. y \in UrlStates \cup {"s_req_spaces_before_url"} /\ y \in States
  BY StatesAre DEF UrlStates
<1>2. Moves(q, s, y)
  <2>1. CASE s.method = "CONNECT"
    BY <2>1, <1>1, GotoIs
  <2>2. CASE s.method # "CONNECT"
    BY <2>2 DEF Moves, Keeps
  <2> QED BY <2>1, <2>2
<1>3. ch # "SP" => s_req_spaces_before_url(s, ch) = Url(v, ch)
  BY DEF s_req_spaces_before_url
<1>4. ch = "SP" => s_req_spaces_before_url(s, ch) = s
  BY DEF s_req_spaces_before_url
<1> HIDE DEF q
<1>5. /\ Keeps(v, q, {"mark"})
      /\ \A f \in Elements :
           v.mark[f] = IF f = "url" /\ q.mark["url"] = NoMark THEN 0 ELSE q.mark[f]
  BY <1>2, MarkIs DEF Moves, Keeps, Elements
<1> HIDE DEF v
<1>6. v \in Parsers /\ v.state = y /\ q.mark = s.mark
  BY <1>2, <1>5 DEF Moves, Keeps, Fields
<1> HIDE DEF y
<1>7. \/ parse_url_char(y, ch) = "s_dead" /\ Url(v, ch) = Fail(v, "INVALID_URL")
      \/ parse_url_char(y, ch) \in UrlStates /\ Moves(Url(v, ch), v, parse_url_char(y, ch))
  BY <1>1, <1>6, Url_is
<1>8. CASE ch = "SP"
  BY <1>4, <1>8
<1>9. CASE ch # "SP" /\ Url(v, ch) = Fail(v, "INVALID_URL") /\ parse_url_char(y, ch) = "s_dead"
  BY <1>3, <1>9 DEF Fail, y
<1>10. CASE ch # "SP" /\ parse_url_char(y, ch) \in UrlStates
            /\ Moves(Url(v, ch), v, parse_url_char(y, ch))
  <2>1. PICK u : u = Url(v, ch)
    OBVIOUS
  <2>2. PICK x : x = parse_url_char(y, ch)
    OBVIOUS
  <2>3. Keeps(u, s, {"state", "mark"}) /\ u.state = x /\ u.mark = v.mark
    BY <1>2, <1>5, <1>10, <2>1, <2>2 DEF Moves, Keeps, Fields
  <2> QED BY <1>3, <1>5, <1>6, <1>10, <2>1, <2>2, <2>3 DEF y
<1> QED BY <1>7, <1>8, <1>9, <1>10

\* The first byte of a url is marked.
LEMMA s_req_spaces_before_url_steps ==
  ASSUME NEW r, NEW ch, Reading(r, Parts(r, ch)), r.state = "s_req_spaces_before_url"
  PROVE  Outcome(s_req_spaces_before_url(r, ch))
<1>1. r \in Parsers /\ Parts(r, ch) = IF ch = "SP" THEN {} ELSE {"url"}
  BY DEF Parts, Reading, Always, UrlStates
<1>2. PICK t : t = s_req_spaces_before_url(r, ch)
  OBVIOUS
<1>3. CASE t = Fail(r, "INVALID_URL")
  BY <1>2, <1>3, FailIs DEF Outcome, Errors
<1>4. CASE t # Fail(r, "INVALID_URL")
  <2>1. \/ ch = "SP" /\ t = r
        \/ /\ ch # "SP" /\ Keeps(t, r, {"state", "mark"}) /\ t.state \in UrlStates
           /\ \A f \in Elements :
                t.mark[f] = IF f = "url" /\ r.mark["url"] = NoMark THEN 0 ELSE r.mark[f]
    BY <1>1, <1>2, <1>4, s_req_spaces_before_url_is
  <2>2. CASE ch = "SP" /\ t = r
    <3>1. Settled(t, 1)
      BY <1>1, <2>2 DEF Reading, Settled, Always, MarksInv, LengthInv, BodyInv, OrderInv,
        SizeInv, LocalsInv, Between, Run, Keeps, Moves, Fields, Parsers, States, RequestLine,
        HeaderStates, ChunkStates, ChunkSizeStates, UrlStates, Elements, NoMark, None
    <3> QED BY <1>2, <3>1 DEF Outcome
  <2>3. CASE ch # "SP"
    <3>1. Settled(t, 1)
      BY <1>1, <2>1, <2>3 DEF Reading, Settled, Always, MarksInv, LengthInv, BodyInv, OrderInv,
        SizeInv, LocalsInv, Between, Run, Keeps, Moves, Fields, Parsers, States, RequestLine,
        HeaderStates, ChunkStates, ChunkSizeStates, UrlStates, Elements, NoMark, None
    <3> QED BY <1>2, <3>1 DEF Outcome
  <2> QED BY <2>1, <2>2, <2>3
<1> QED BY <1>3, <1>4

\* Both parsers do the same.
LEMMA s_req_spaces_before_url_matches ==
  ASSUME NEW r, NEW w, NEW ch, Reading(r, Parts(r, ch)), Reading(w, Parts(w, ch)), Paired(r, w),
         r.state = "s_req_spaces_before_url", NEW b
  PROVE  Matched(s_req_spaces_before_url(r, ch), s_req_spaces_before_url(w, ch), b)
<1>1. /\ r \in Parsers /\ r.http_errno = "OK" /\ r.ahead = "none"
      /\ w \in Parsers /\ w.http_errno = "OK" /\ w.ahead = "none"
      /\ w.state = "s_req_spaces_before_url" /\ r.method = w.method
  BY ReadingHas DEF Paired, SameBut
<1>2. PICK t : t = s_req_spaces_before_url(r, ch)
  OBVIOUS
<1>3. PICK u : u = s_req_spaces_before_url(w, ch)
  OBVIOUS
<1>4. \/ t = r /\ u = w
      \/ t = Fail(r, "INVALID_URL") /\ u = Fail(w, "INVALID_URL")
      \/ Keeps(t, r, {"state", "mark"}) /\ Keeps(u, w, {"state", "mark"}) /\ t.state = u.state
  BY <1>1, <1>2, <1>3, s_req_spaces_before_url_is DEF UrlStates
<1>5. CASE t = r /\ u = w
  BY <1>1, <1>2, <1>3, <1>5 DEF Matched, Failed, Related, Paired
<1>6. CASE t = Fail(r, "INVALID_URL") /\ u = Fail(w, "INVALID_URL")
  BY <1>2, <1>3, <1>6, FailIs, BothFail DEF Errors
<1>7. CASE Keeps(t, r, {"state", "mark"}) /\ Keeps(u, w, {"state", "mark"}) /\ t.state = u.state
  <2>1. Matched(t, u, b)
    BY <1>1, <1>7, SameChange
  <2> QED BY <1>2, <1>3, <2>1
<1> QED BY <1>4, <1>5, <1>6, <1>7

\* What the states of a url do.
LEMMA s_req_url_is ==
  ASSUME NEW s \in Parsers, s.state \in UrlStates, s.called = "begin", s.flags = {}, NEW ch
  PROVE  LET t == s_req_url(s, ch)
             x == parse_url_char(s.state, ch)
             early == {"s_req_schema", "s_req_schema_slash", "s_req_schema_slash_slash",
                       "s_req_server_start"}
         IN  \/ ch \notin {"SP", "CR", "LF"} /\ x = "s_dead" /\ t = Fail(s, "INVALID_URL")
             \/ ch \notin {"SP", "CR", "LF"} /\ x \in UrlStates /\ Moves(t, s, x)
             \/ ch \in {"SP", "CR", "LF"} /\ s.state \in early /\ t = Fail(s, "INVALID_URL")
             \/ /\ ch \in {"SP", "CR", "LF"} /\ s.state \notin early
                /\ Keeps(t, s, {"state", "version", "mark", "due"})
                /\ t.state = CASE ch = "SP" -> "s_req_http_start"
                               [] ch = "CR" -> "s_req_line_almost_done"
                               [] ch = "LF" -> "s_header_field_start"
                /\ t.version = IF ch = "SP" THEN s.version ELSE "none"
                /\ \A f \in Elements : t.mark[f] = IF f = "url" THEN NoMark ELSE s.mark[f]
                /\ \A f \in Elements : t.due[f] = IF f = "url" /\ s.mark["url"] # NoMark
                                                  THEN s.due[f] - s.mark[f] ELSE s.due[f]
<1> DEFINE early == {"s_req_schema", "s_req_schema_slash", "s_req_schema_slash_slash",
                     "s_req_server_start"}
           q == CASE ch = "SP" -> Goto(s, "s_req_http_start")
                  [] ch = "CR" -> [s EXCEPT !.version = "none", !.state = "s_req_line_almost_done"]
                  [] ch = "LF" -> [s EXCEPT !.version = "none", !.state = "s_header_field_start"]
           x == CASE ch = "SP" -> "s_req_http_start"
                  [] ch = "CR" -> "s_req_line_almost_done"
                  [] ch = "LF" -> "s_header_field_start"
           v == IF ch = "SP" THEN s.version ELSE "none"
<1>1. CASE ch \notin {"SP", "CR", "LF"}
  <2>1. s_req_url(s, ch) = Url(s, ch)
    BY <1>1 DEF s_req_url
  <2> QED BY <1>1, <2>1, Url_is
<1>2. CASE ch \in {"SP", "CR", "LF"} /\ s.state \in early
  BY <1>2 DEF s_req_url
<1>3. CASE ch \in {"SP", "CR", "LF"} /\ s.state \notin early
  <2>1. s_req_url(s, ch) = CALLBACK_DATA(q, "url")
    BY <1>3 DEF s_req_url
  <2>2. Keeps(q, s, {"state", "version"}) /\ q.state = x /\ q.version = v
    <3>1. CASE ch = "SP"
      <4>1. q = Goto(s, "s_req_http_start") /\ x = "s_req_http_start" /\ v = s.version
        BY <3>1
      <4> HIDE DEF q, x, v
      <4>2. Moves(Goto(s, "s_req_http_start"), s, "s_req_http_start")
        BY GotoIs, StatesAre
      <4> QED BY <4>1, <4>2 DEF Moves, Keeps, Fields
    <3>2. CASE ch = "CR"
      BY <3>2, StatesAre DEF Keeps, Fields, Parsers
    <3>3. CASE ch = "LF"
      BY <3>3, StatesAre DEF Keeps, Fields, Parsers
    <3> QED BY <1>3, <3>1, <3>2, <3>3
  <2> HIDE DEF q, x, v
  <2>3. q \in Parsers /\ q.called = "begin" /\ q.flags = {} /\ q.mark = s.mark /\ q.due = s.due
    BY <2>2 DEF Keeps, Fields
  <2>4. PICK t : t = CALLBACK_DATA(q, "url")
    OBVIOUS
  <2>5. /\ Keeps(t, q, {"mark", "due", "expect"}) /\ t.expect = q.expect
        /\ \A f \in Elements : t.mark[f] = IF f = "url" THEN NoMark ELSE q.mark[f]
        /\ \A f \in Elements : t.due[f] = IF f = "url" /\ q.mark["url"] # NoMark
                                          THEN q.due[f] - q.mark[f] ELSE q.due[f]
    BY <2>3, <2>4, CallbackIs DEF Elements
  <2>6. /\ Keeps(t, s, {"state", "version", "mark", "due"}) /\ t.state = x /\ t.version = v
    BY <2>2, <2>5 DEF Keeps, Fields
  <2> QED BY <1>3, <2>1, <2>3, <2>4, <2>5, <2>6 DEF x, v
<1> QED BY <1>1, <1>2, <1>3

\* The bytes of a url, and the byte after it.
LEMMA s_req_url_steps ==
  ASSUME NEW r, NEW ch, Reading(r, Parts(r, ch)), r.state \in UrlStates
  PROVE  Outcome(s_req_url(r, ch))
<1>1. /\ r \in Parsers /\ r.called = "begin" /\ r.flags = {}
      /\ Parts(r, ch) = IF ch \in {"SP", "CR", "LF"} THEN {} ELSE {"url"}
  <2>1. r \in Parsers /\ r.called = "begin" /\ r.flags = {}
    BY DEF Reading, Always, OrderInv, LengthInv, RequestLine, UrlStates
  <2>2. Parts(r, ch) = {"url"} \ (IF ch \in {"SP", "CR", "LF"} THEN {"url"} ELSE {})
    BY DEF Parts, UrlStates
  <2> QED BY <2>1, <2>2
<1>2. PICK t : t = s_req_url(r, ch)
  OBVIOUS
<1>3. CASE t = Fail(r, "INVALID_URL")
  BY <1>2, <1>3, FailIs DEF Outcome, Errors
<1>4. CASE ch \notin {"SP", "CR", "LF"} /\ t # Fail(r, "INVALID_URL")
  <2>1. PICK x \in UrlStates : Moves(t, r, x)
    BY <1>1, <1>2, <1>4, s_req_url_is
  <2>2. Settled(t, 1)
    BY <1>1, <1>4, <2>1 DEF Reading, Settled, Always, MarksInv, LengthInv, BodyInv, OrderInv,
      SizeInv, LocalsInv, Between, Run, Keeps, Moves, Fields, Parsers, States, RequestLine,
      HeaderStates, ChunkStates, ChunkSizeStates, UrlStates, Elements, NoMark, None
  <2> QED BY <1>2, <2>2 DEF Outcome
<1>5. CASE ch \in {"SP", "CR", "LF"} /\ t # Fail(r, "INVALID_URL")
  <2>1. /\ Keeps(t, r, {"state", "version", "mark", "due"})
        /\ t.state \in {"s_req_http_start", "s_req_line_almost_done", "s_header_field_start"}
        /\ \A f \in Elements : t.mark[f] = IF f = "url" THEN NoMark ELSE r.mark[f]
        /\ \A f \in Elements : t.due[f] = IF f = "url" /\ r.mark["url"] # NoMark
                                          THEN r.due[f] - r.mark[f] ELSE r.due[f]
    BY <1>1, <1>2, <1>5, s_req_url_is
  <2>2. Settled(t, 1)
    BY <1>1, <1>5, <2>1 DEF Reading, Settled, Always, MarksInv, LengthInv, BodyInv, OrderInv,
      SizeInv, LocalsInv, Between, Run, Keeps, Moves, Fields, Parsers, States, RequestLine,
      HeaderStates, ChunkStates, ChunkSizeStates, UrlStates, Elements, NoMark, None
  <2> QED BY <1>2, <2>2 DEF Outcome
<1> QED BY <1>3, <1>4, <1>5

\* Both parsers do the same.
LEMMA s_req_url_matches ==
  ASSUME NEW r, NEW w, NEW ch, Reading(r, Parts(r, ch)), Reading(w, Parts(w, ch)), Paired(r, w),
         r.state \in UrlStates, NEW b
  PROVE  Matched(s_req_url(r, ch), s_req_url(w, ch), b)
<1>1. /\ r \in Parsers /\ r.http_errno = "OK" /\ r.ahead = "none"
      /\ w \in Parsers /\ w.http_errno = "OK" /\ w.ahead = "none"
      /\ w.state = r.state /\ w.version = r.version
  BY ReadingHas DEF Paired, SameBut
<1>2. /\ r.called = "begin" /\ r.flags = {}
      /\ w.called = "begin" /\ w.flags = {}
  BY <1>1 DEF Reading, Always, OrderInv, LengthInv, RequestLine, UrlStates
<1>3. PICK t : t = s_req_url(r, ch)
  OBVIOUS
<1>4. PICK u : u = s_req_url(w, ch)
  OBVIOUS
<1> DEFINE F == {"state", "version", "mark", "due"}
<1>5. \/ t = Fail(r, "INVALID_URL") /\ u = Fail(w, "INVALID_URL")
      \/ \E x : Moves(t, r, x) /\ Moves(u, w, x)
      \/ Keeps(t, r, F) /\ Keeps(u, w, F) /\ t.state = u.state /\ t.version = u.version
  BY <1>1, <1>2, <1>3, <1>4, s_req_url_is DEF UrlStates
<1>6. CASE t = Fail(r, "INVALID_URL") /\ u = Fail(w, "INVALID_URL")
  BY <1>3, <1>4, <1>6, FailIs, BothFail DEF Errors
<1>7. CASE \E x : Moves(t, r, x) /\ Moves(u, w, x)
  <2>1. Keeps(t, r, {"state"}) /\ Keeps(u, w, {"state"}) /\ t.state = u.state
    BY <1>7 DEF Moves
  <2>2. Matched(t, u, b)
    BY <1>1, <2>1, SameChange
  <2> QED BY <1>3, <1>4, <2>2
<1>8. CASE Keeps(t, r, F) /\ Keeps(u, w, F) /\ t.state = u.state /\ t.version = u.version
  <2>1. Matched(t, u, b)
    BY <1>1, <1>8, SameChange
  <2> QED BY <1>3, <1>4, <2>1
<1> QED BY <1>5, <1>6, <1>7, <1>8

\* What s_req_http_start does.
LEMMA s_req_http_start_is ==
  ASSUME NEW s \in Parsers, NEW ch
  PROVE  LET t == s_req_http_start(s, ch)
         IN  \/ /\ ch \in Versions
                /\ Keeps(t, s, {"state", "version"}) /\ t.version = ch /\ t.state = "s_req_http_end"
             \/ ch = "SP" /\ t = s
             \/ ch \notin Versions \cup {"SP"} /\ t = Fail(s, "INVALID_CONSTANT")
<1>1. CASE ch \in Versions
  <2>1. s_req_http_start(s, ch) = [s EXCEPT !.version = ch, !.state = "s_req_http_end"]
    BY <1>1 DEF s_req_http_start, Versions
  <2> QED BY <1>1, <2>1, StatesAre DEF Keeps, Parsers, Fields
<1>2. CASE ch \notin Versions
  BY <1>2 DEF s_req_http_start
<1> QED BY <1>1, <1>2

\* The version.
LEMMA s_req_http_start_steps ==
  ASSUME NEW r, NEW ch, Reading(r, Parts(r, ch)), r.state = "s_req_http_start"
  PROVE  Outcome(s_req_http_start(r, ch))
<1>1. r \in Parsers /\ Parts(r, ch) = {}
  BY DEF Parts, Reading, Always, UrlStates
<1>2. PICK t : t = s_req_http_start(r, ch)
  OBVIOUS
<1>3. \/ Keeps(t, r, {"state", "version"}) /\ t.state = "s_req_http_end"
      \/ t = r
      \/ t = Fail(r, "INVALID_CONSTANT")
  BY <1>1, <1>2, s_req_http_start_is
<1>4. CASE t = Fail(r, "INVALID_CONSTANT")
  BY <1>2, <1>4, FailIs DEF Outcome, Errors
<1>5. CASE t = r \/ (Keeps(t, r, {"state", "version"}) /\ t.state = "s_req_http_end")
  <2>1. Settled(t, 1)
    BY <1>1, <1>5 DEF Reading, Settled, Always, MarksInv, LengthInv, BodyInv, OrderInv, SizeInv,
      LocalsInv, Between, Run, Keeps, Moves, Fields, Parsers, States, RequestLine, HeaderStates,
      ChunkStates, ChunkSizeStates, UrlStates, Elements, NoMark, None
  <2> QED BY <1>2, <2>1 DEF Outcome
<1> QED BY <1>3, <1>4, <1>5

\* Both parsers do the same.
LEMMA s_req_http_start_matches ==
  ASSUME NEW r, NEW w, NEW ch, Reading(r, Parts(r, ch)), Reading(w, Parts(w, ch)), Paired(r, w),
         r.state = "s_req_http_start", NEW b
  PROVE  Matched(s_req_http_start(r, ch), s_req_http_start(w, ch), b)
<1>1. /\ r \in Parsers /\ r.http_errno = "OK" /\ r.ahead = "none"
      /\ w \in Parsers /\ w.http_errno = "OK" /\ w.ahead = "none"
  BY ReadingHas
<1>2. PICK t : t = s_req_http_start(r, ch)
  OBVIOUS
<1>3. PICK u : u = s_req_http_start(w, ch)
  OBVIOUS
<1> DEFINE F == {"state", "version"}
<1>4. \/ Keeps(t, r, F) /\ Keeps(u, w, F) /\ t.state = u.state /\ t.version = u.version
      \/ t = r /\ u = w
      \/ t = Fail(r, "INVALID_CONSTANT") /\ u = Fail(w, "INVALID_CONSTANT")
  BY <1>1, <1>2, <1>3, s_req_http_start_is DEF Versions
<1>5. CASE Keeps(t, r, F) /\ Keeps(u, w, F) /\ t.state = u.state /\ t.version = u.version
  <2>1. Matched(t, u, b)
    BY <1>1, <1>5, SameChange
  <2> QED BY <1>2, <1>3, <2>1
<1>6. CASE t = r /\ u = w
  BY <1>1, <1>2, <1>3, <1>6 DEF Matched, Failed, Related, Paired
<1>7. CASE t = Fail(r, "INVALID_CONSTANT") /\ u = Fail(w, "INVALID_CONSTANT")
  BY <1>2, <1>3, <1>7, FailIs, BothFail DEF Errors
<1> QED BY <1>4, <1>5, <1>6, <1>7

\* What s_req_http_end does.
LEMMA s_req_http_end_is ==
  ASSUME NEW s \in Parsers, NEW ch
  PROVE  LET t == s_req_http_end(s, ch)
         IN  \/ ch = "CR" /\ Moves(t, s, "s_req_line_almost_done")
             \/ ch = "LF" /\ Moves(t, s, "s_header_field_start")
             \/ ch \notin {"CR", "LF"} /\ t = Fail(s, "INVALID_VERSION")
  BY GotoIs, StatesAre DEF s_req_http_end

\* The end of the request line.
LEMMA s_req_http_end_steps ==
  ASSUME NEW r, NEW ch, Reading(r, Parts(r, ch)), r.state = "s_req_http_end"
  PROVE  Outcome(s_req_http_end(r, ch))
<1>1. r \in Parsers /\ Parts(r, ch) = {}
  BY DEF Parts, Reading, Always, UrlStates
<1>2. PICK t : t = s_req_http_end(r, ch)
  OBVIOUS
<1>3. \/ Moves(t, r, "s_req_line_almost_done")
      \/ Moves(t, r, "s_header_field_start")
      \/ t = Fail(r, "INVALID_VERSION")
  BY <1>1, <1>2, s_req_http_end_is
<1>4. CASE t = Fail(r, "INVALID_VERSION")
  BY <1>2, <1>4, FailIs DEF Outcome, Errors
<1>5. CASE Moves(t, r, "s_req_line_almost_done") \/ Moves(t, r, "s_header_field_start")
  <2>1. Settled(t, 1)
    BY <1>1, <1>5, LimitsAssumption DEF Reading, Settled, Always, MarksInv, LengthInv, BodyInv,
      OrderInv, SizeInv, LocalsInv, Between, Run, Keeps, Moves, Fields, Parsers, States,
      RequestLine, HeaderStates, ChunkStates, ChunkSizeStates, UrlStates, Elements, NoMark, None
  <2> QED BY <1>2, <2>1 DEF Outcome
<1> QED BY <1>3, <1>4, <1>5

\* Both parsers do the same.
LEMMA s_req_http_end_matches ==
  ASSUME NEW r, NEW w, NEW ch, Reading(r, Parts(r, ch)), Reading(w, Parts(w, ch)), Paired(r, w),
         r.state = "s_req_http_end", NEW b
  PROVE  Matched(s_req_http_end(r, ch), s_req_http_end(w, ch), b)
<1>1. /\ r \in Parsers /\ r.http_errno = "OK" /\ r.ahead = "none"
      /\ w \in Parsers /\ w.http_errno = "OK" /\ w.ahead = "none"
  BY ReadingHas
<1>2. PICK t : t = s_req_http_end(r, ch)
  OBVIOUS
<1>3. PICK u : u = s_req_http_end(w, ch)
  OBVIOUS
<1>4. \/ Keeps(t, r, {"state"}) /\ Keeps(u, w, {"state"}) /\ t.state = u.state
      \/ t = Fail(r, "INVALID_VERSION") /\ u = Fail(w, "INVALID_VERSION")
  BY <1>1, <1>2, <1>3, s_req_http_end_is DEF Moves
<1>5. CASE Keeps(t, r, {"state"}) /\ Keeps(u, w, {"state"}) /\ t.state = u.state
  <2>1. Matched(t, u, b)
    BY <1>1, <1>5, SameChange
  <2> QED BY <1>2, <1>3, <2>1
<1>6. CASE t = Fail(r, "INVALID_VERSION") /\ u = Fail(w, "INVALID_VERSION")
  BY <1>2, <1>3, <1>6, FailIs, BothFail DEF Errors
<1> QED BY <1>4, <1>5, <1>6

\* What s_req_line_almost_done does.
LEMMA s_req_line_almost_done_is ==
  ASSUME NEW s \in Parsers, NEW ch
  PROVE  LET t == s_req_line_almost_done(s, ch)
         IN  \/ ch = "LF" /\ Moves(t, s, "s_header_field_start")
             \/ ch # "LF" /\ t = Fail(s, "LF_EXPECTED")
  BY GotoIs, StatesAre DEF s_req_line_almost_done

\* The LF after the request line.
LEMMA s_req_line_almost_done_steps ==
  ASSUME NEW r, NEW ch, Reading(r, Parts(r, ch)), r.state = "s_req_line_almost_done"
  PROVE  Outcome(s_req_line_almost_done(r, ch))
<1>1. r \in Parsers /\ Parts(r, ch) = {}
  BY DEF Parts, Reading, Always, UrlStates
<1>2. PICK t : t = s_req_line_almost_done(r, ch)
  OBVIOUS
<1>3. \/ Moves(t, r, "s_header_field_start")
      \/ t = Fail(r, "LF_EXPECTED")
  BY <1>1, <1>2, s_req_line_almost_done_is
<1>4. CASE t = Fail(r, "LF_EXPECTED")
  BY <1>2, <1>4, FailIs DEF Outcome, Errors
<1>5. CASE Moves(t, r, "s_header_field_start")
  <2>1. Settled(t, 1)
    BY <1>1, <1>5, LimitsAssumption DEF Reading, Settled, Always, MarksInv, LengthInv, BodyInv,
      OrderInv, SizeInv, LocalsInv, Between, Run, Keeps, Moves, Fields, Parsers, States,
      RequestLine, HeaderStates, ChunkStates, ChunkSizeStates, UrlStates, Elements, NoMark, None
  <2> QED BY <1>2, <2>1 DEF Outcome
<1> QED BY <1>3, <1>4, <1>5

\* Both parsers do the same.
LEMMA s_req_line_almost_done_matches ==
  ASSUME NEW r, NEW w, NEW ch, Reading(r, Parts(r, ch)), Reading(w, Parts(w, ch)), Paired(r, w),
         r.state = "s_req_line_almost_done", NEW b
  PROVE  Matched(s_req_line_almost_done(r, ch), s_req_line_almost_done(w, ch), b)
<1>1. /\ r \in Parsers /\ r.http_errno = "OK" /\ r.ahead = "none"
      /\ w \in Parsers /\ w.http_errno = "OK" /\ w.ahead = "none"
  BY ReadingHas
<1>2. PICK t : t = s_req_line_almost_done(r, ch)
  OBVIOUS
<1>3. PICK u : u = s_req_line_almost_done(w, ch)
  OBVIOUS
<1>4. \/ Keeps(t, r, {"state"}) /\ Keeps(u, w, {"state"}) /\ t.state = u.state
      \/ t = Fail(r, "LF_EXPECTED") /\ u = Fail(w, "LF_EXPECTED")
  BY <1>1, <1>2, <1>3, s_req_line_almost_done_is DEF Moves
<1>5. CASE Keeps(t, r, {"state"}) /\ Keeps(u, w, {"state"}) /\ t.state = u.state
  <2>1. Matched(t, u, b)
    BY <1>1, <1>5, SameChange
  <2> QED BY <1>2, <1>3, <2>1
<1>6. CASE t = Fail(r, "LF_EXPECTED") /\ u = Fail(w, "LF_EXPECTED")
  BY <1>2, <1>3, <1>6, FailIs, BothFail DEF Errors
<1> QED BY <1>4, <1>5, <1>6

\* What s_header_almost_done does.
LEMMA s_header_almost_done_is ==
  ASSUME NEW s \in Parsers, NEW ch
  PROVE  LET t == s_header_almost_done(s, ch)
         IN  \/ ch = "LF" /\ Moves(t, s, "s_header_value_lws")
             \/ ch # "LF" /\ t = Fail(s, "LF_EXPECTED")
  BY GotoIs, StatesAre DEF s_header_almost_done

\* The LF after a header line.
LEMMA s_header_almost_done_steps ==
  ASSUME NEW r, NEW ch, Reading(r, Parts(r, ch)), r.state = "s_header_almost_done"
  PROVE  Outcome(s_header_almost_done(r, ch))
<1>1. r \in Parsers /\ Parts(r, ch) = {}
  BY DEF Parts, Reading, Always, UrlStates
<1>2. PICK t : t = s_header_almost_done(r, ch)
  OBVIOUS
<1>3. \/ Moves(t, r, "s_header_value_lws")
      \/ t = Fail(r, "LF_EXPECTED")
  BY <1>1, <1>2, s_header_almost_done_is
<1>4. CASE t = Fail(r, "LF_EXPECTED")
  BY <1>2, <1>4, FailIs DEF Outcome, Errors
<1>5. CASE Moves(t, r, "s_header_value_lws")
  <2>1. Settled(t, 1)
    BY <1>1, <1>5, LimitsAssumption DEF Reading, Settled, Always, MarksInv, LengthInv, BodyInv,
      OrderInv, SizeInv, LocalsInv, Between, Run, Keeps, Moves, Fields, Parsers, States,
      RequestLine, HeaderStates, ChunkStates, ChunkSizeStates, UrlStates, Elements, NoMark, None
  <2> QED BY <1>2, <2>1 DEF Outcome
<1> QED BY <1>3, <1>4, <1>5

\* Both parsers do the same.
LEMMA s_header_almost_done_matches ==
  ASSUME NEW r, NEW w, NEW ch, Reading(r, Parts(r, ch)), Reading(w, Parts(w, ch)), Paired(r, w),
         r.state = "s_header_almost_done", NEW b
  PROVE  Matched(s_header_almost_done(r, ch), s_header_almost_done(w, ch), b)
<1>1. /\ r \in Parsers /\ r.http_errno = "OK" /\ r.ahead = "none"
      /\ w \in Parsers /\ w.http_errno = "OK" /\ w.ahead = "none"
  BY ReadingHas
<1>2. PICK t : t = s_header_almost_done(r, ch)
  OBVIOUS
<1>3. PICK u : u = s_header_almost_done(w, ch)
  OBVIOUS
<1>4. \/ Keeps(t, r, {"state"}) /\ Keeps(u, w, {"state"}) /\ t.state = u.state
      \/ t = Fail(r, "LF_EXPECTED") /\ u = Fail(w, "LF_EXPECTED")
  BY <1>1, <1>2, <1>3, s_header_almost_done_is DEF Moves
<1>5. CASE Keeps(t, r, {"state"}) /\ Keeps(u, w, {"state"}) /\ t.state = u.state
  <2>1. Matched(t, u, b)
    BY <1>1, <1>5, SameChange
  <2> QED BY <1>2, <1>3, <2>1
<1>6. CASE t = Fail(r, "LF_EXPECTED") /\ u = Fail(w, "LF_EXPECTED")
  BY <1>2, <1>3, <1>6, FailIs, BothFail DEF Errors
<1> QED BY <1>4, <1>5, <1>6

\* What s_header_value_discard_ws_almost_done does.
LEMMA s_header_value_discard_ws_almost_done_is ==
  ASSUME NEW s \in Parsers, NEW ch
  PROVE  LET t == s_header_value_discard_ws_almost_done(s, ch)
         IN  \/ ch = "LF" /\ Moves(t, s, "s_header_value_discard_lws")
             \/ ch # "LF" /\ t = Fail(s, "STRICT")
  BY GotoIs, StatesAre DEF s_header_value_discard_ws_almost_done

\* The LF after an empty line of a value.
LEMMA s_header_value_discard_ws_almost_done_steps ==
  ASSUME NEW r, NEW ch, Reading(r, Parts(r, ch)), r.state = "s_header_value_discard_ws_almost_done"
  PROVE  Outcome(s_header_value_discard_ws_almost_done(r, ch))
<1>1. r \in Parsers /\ Parts(r, ch) = {}
  BY DEF Parts, Reading, Always, UrlStates
<1>2. PICK t : t = s_header_value_discard_ws_almost_done(r, ch)
  OBVIOUS
<1>3. \/ Moves(t, r, "s_header_value_discard_lws")
      \/ t = Fail(r, "STRICT")
  BY <1>1, <1>2, s_header_value_discard_ws_almost_done_is
<1>4. CASE t = Fail(r, "STRICT")
  BY <1>2, <1>4, FailIs DEF Outcome, Errors
<1>5. CASE Moves(t, r, "s_header_value_discard_lws")
  <2>1. Settled(t, 1)
    BY <1>1, <1>5, LimitsAssumption DEF Reading, Settled, Always, MarksInv, LengthInv, BodyInv,
      OrderInv, SizeInv, LocalsInv, Between, Run, Keeps, Moves, Fields, Parsers, States,
      RequestLine, HeaderStates, ChunkStates, ChunkSizeStates, UrlStates, Elements, NoMark, None
  <2> QED BY <1>2, <2>1 DEF Outcome
<1> QED BY <1>3, <1>4, <1>5

\* Both parsers do the same.
LEMMA s_header_value_discard_ws_almost_done_matches ==
  ASSUME NEW r, NEW w, NEW ch, Reading(r, Parts(r, ch)), Reading(w, Parts(w, ch)), Paired(r, w),
         r.state = "s_header_value_discard_ws_almost_done", NEW b
  PROVE  Matched(s_header_value_discard_ws_almost_done(r, ch),
                 s_header_value_discard_ws_almost_done(w, ch), b)
<1>1. /\ r \in Parsers /\ r.http_errno = "OK" /\ r.ahead = "none"
      /\ w \in Parsers /\ w.http_errno = "OK" /\ w.ahead = "none"
  BY ReadingHas
<1>2. PICK t : t = s_header_value_discard_ws_almost_done(r, ch)
  OBVIOUS
<1>3. PICK u : u = s_header_value_discard_ws_almost_done(w, ch)
  OBVIOUS
<1>4. \/ Keeps(t, r, {"state"}) /\ Keeps(u, w, {"state"}) /\ t.state = u.state
      \/ t = Fail(r, "STRICT") /\ u = Fail(w, "STRICT")
  BY <1>1, <1>2, <1>3, s_header_value_discard_ws_almost_done_is DEF Moves
<1>5. CASE Keeps(t, r, {"state"}) /\ Keeps(u, w, {"state"}) /\ t.state = u.state
  <2>1. Matched(t, u, b)
    BY <1>1, <1>5, SameChange
  <2> QED BY <1>2, <1>3, <2>1
<1>6. CASE t = Fail(r, "STRICT") /\ u = Fail(w, "STRICT")
  BY <1>2, <1>3, <1>6, FailIs, BothFail DEF Errors
<1> QED BY <1>4, <1>5, <1>6

\* What s_chunk_parameters does.
LEMMA s_chunk_parameters_is ==
  ASSUME NEW s \in Parsers, NEW ch
  PROVE  LET t == s_chunk_parameters(s, ch)
         IN  \/ ch = "CR" /\ Moves(t, s, "s_chunk_size_almost_done")
             \/ ch # "CR" /\ t = s
  BY GotoIs, StatesAre DEF s_chunk_parameters

\* Chunk parameters are skipped.
LEMMA s_chunk_parameters_steps ==
  ASSUME NEW r, NEW ch, Reading(r, Parts(r, ch)), r.state = "s_chunk_parameters"
  PROVE  Outcome(s_chunk_parameters(r, ch))
<1>1. r \in Parsers /\ Parts(r, ch) = {}
  BY DEF Parts, Reading, Always, UrlStates
<1>2. PICK t : t = s_chunk_parameters(r, ch)
  OBVIOUS
<1>3. \/ Moves(t, r, "s_chunk_size_almost_done")
      \/ t = r
  BY <1>1, <1>2, s_chunk_parameters_is
<1>4. CASE Moves(t, r, "s_chunk_size_almost_done") \/ t = r
  <2>1. Settled(t, 1)
    BY <1>1, <1>4, LimitsAssumption DEF Reading, Settled, Always, MarksInv, LengthInv, BodyInv,
      OrderInv, SizeInv, LocalsInv, Between, Run, Keeps, Moves, Fields, Parsers, States,
      RequestLine, HeaderStates, ChunkStates, ChunkSizeStates, UrlStates, Elements, NoMark, None
  <2> QED BY <1>2, <2>1 DEF Outcome
<1> QED BY <1>3, <1>4

\* Both parsers do the same.
LEMMA s_chunk_parameters_matches ==
  ASSUME NEW r, NEW w, NEW ch, Reading(r, Parts(r, ch)), Reading(w, Parts(w, ch)), Paired(r, w),
         r.state = "s_chunk_parameters", NEW b
  PROVE  Matched(s_chunk_parameters(r, ch), s_chunk_parameters(w, ch), b)
<1>1. /\ r \in Parsers /\ r.http_errno = "OK" /\ r.ahead = "none"
      /\ w \in Parsers /\ w.http_errno = "OK" /\ w.ahead = "none"
  BY ReadingHas
<1>2. PICK t : t = s_chunk_parameters(r, ch)
  OBVIOUS
<1>3. PICK u : u = s_chunk_parameters(w, ch)
  OBVIOUS
<1>4. \/ Keeps(t, r, {"state"}) /\ Keeps(u, w, {"state"}) /\ t.state = u.state
      \/ t = r /\ u = w
  BY <1>1, <1>2, <1>3, s_chunk_parameters_is DEF Moves
<1>5. CASE Keeps(t, r, {"state"}) /\ Keeps(u, w, {"state"}) /\ t.state = u.state
  <2>1. Matched(t, u, b)
    BY <1>1, <1>5, SameChange
  <2> QED BY <1>2, <1>3, <2>1
<1>6. CASE t = r /\ u = w
  BY <1>1, <1>2, <1>3, <1>6 DEF Matched, Failed, Related, Paired
<1> QED BY <1>4, <1>5, <1>6
-----------------------------------------------------------------------------
(* The end of the headers.                                                 *)

HasBody(s) == "CHUNKED" \in s.flags \/ s.content_length \notin {0, UllMax}
Reset == {"state", "header_state", "index", "flags", "nread", "content_length", "method",
          "version", "upgrade", "announced", "called", "returned"}

\* The message is complete and the parser initialised.
Completed(t, s) ==
  /\ Keeps(t, s, Reset)
  /\ t.state = "s_start_req" /\ t.header_state = "h_general" /\ t.index = 0 /\ t.flags = {}
  /\ t.nread = 0 /\ t.content_length = 0 /\ t.method = "GET" /\ t.version = "none"
  /\ t.upgrade = FALSE /\ t.announced = 0 /\ t.called = "complete"

\* The end of a message, in other words.
LEMMA CompletedIs ==
  ASSUME NEW s \in Parsers, s.called = "headers", s.expect = 0, s.http_errno = "OK"
  PROVE  /\ Completed(Complete(s), s) /\ Complete(s).returned = s.returned
         /\ s_message_done(s) = Complete(s)
         /\ Completed(Return(Complete(s)), s) /\ Return(Complete(s)).returned = TRUE
<1>1. PICK t : t = Complete(s)
  OBVIOUS
<1>2. Completed(t, s) /\ t.returned = s.returned
  BY <1>1, CompleteIs DEF Completed, Keeps, Fields, Reset, Parsers
<1>3. s_message_done(s) = t
  BY <1>1, <1>2 DEF s_message_done, Completed
<1>4. Keeps(Return(t), t, {"returned"}) /\ Return(t).returned = TRUE
  BY <1>2 DEF Completed, Keeps, Fields, Parsers, Return
<1>5. Completed(Return(t), s)
  BY <1>2, <1>4 DEF Completed, Keeps, Fields, Reset
<1> QED BY <1>1, <1>2, <1>3, <1>4, <1>5

\* A body begins.
LEMMA BodyIs ==
  ASSUME NEW s \in Parsers, NEW y \in Nat
  PROVE  LET t == [s EXCEPT !.state = "s_body_identity", !.expect = y, !.announced = 0]
         IN  /\ Keeps(t, s, {"state", "expect", "announced"})
             /\ t.state = "s_body_identity" /\ t.expect = y /\ t.announced = 0
<1>1. "s_body_identity" \in States /\ y \in Int
  BY DEF States
<1> QED BY <1>1 DEF Keeps, Fields, Parsers

\* What s_headers_done does.
LEMMA s_headers_done_is ==
  ASSUME NEW s \in Parsers, s.called = "headers", s.expect = 0, s.http_errno = "OK"
  PROVE  LET t == s_headers_done(s)
             skip == s.upgrade /\ (s.method = "CONNECT" \/ ~HasBody(s))
         IN  \/ skip /\ Completed(t, s) /\ t.returned = TRUE
             \/ ~skip /\ ~HasBody(s) /\ Completed(t, s) /\ t.returned = s.returned
             \/ /\ ~skip /\ "CHUNKED" \in s.flags
                /\ Keeps(t, s, {"state", "nread"})
                /\ t.state = "s_chunk_size_start" /\ t.nread = 0
             \/ /\ ~skip /\ "CHUNKED" \notin s.flags /\ HasBody(s)
                /\ Keeps(t, s, {"state", "nread", "expect", "announced"})
                /\ t.state = "s_body_identity" /\ t.nread = 0
                /\ t.expect = s.announced /\ t.announced = 0
<1> DEFINE q == [s EXCEPT !.nread = 0]
           z == [q EXCEPT !.state = "s_body_identity", !.expect = @ + q.announced, !.announced = 0]
           skip == s.upgrade /\ (s.method = "CONNECT" \/ ~HasBody(s))
           t == s_headers_done(s)
<1>1. Keeps(q, s, {"nread"}) /\ q.nread = 0
  BY DEF Keeps, Fields, Parsers
<1>2. /\ skip => t = Return(Complete(q))
      /\ ~skip /\ "CHUNKED" \in s.flags => t = Goto(q, "s_chunk_size_start")
      /\ ~skip /\ ~HasBody(s) => t = Complete(q)
      /\ ~skip /\ "CHUNKED" \notin s.flags /\ HasBody(s) => t = z
  BY DEF s_headers_done, HasBody, Parsers
<1> HIDE DEF q, t, skip
<1>3. /\ q \in Parsers /\ q.called = "headers" /\ q.expect = 0 /\ q.http_errno = "OK"
      /\ q.announced = s.announced /\ q.returned = s.returned
  BY <1>1 DEF Keeps, Fields
<1>4. CASE skip
  <2>1. Completed(t, q) /\ t.returned = TRUE
    BY <1>2, <1>3, <1>4, CompletedIs
  <2>2. Completed(t, s)
    BY <1>1, <2>1 DEF Completed, Keeps, Fields, Reset
  <2> QED BY <1>4, <2>1, <2>2 DEF t, skip
<1>5. CASE ~skip /\ ~HasBody(s)
  <2>1. Completed(t, q) /\ t.returned = s.returned
    BY <1>2, <1>3, <1>5, CompletedIs
  <2>2. Completed(t, s)
    BY <1>1, <2>1 DEF Completed, Keeps, Fields, Reset
  <2> QED BY <1>5, <2>1, <2>2 DEF t, skip
<1>6. CASE ~skip /\ "CHUNKED" \in s.flags
  <2>1. Moves(t, q, "s_chunk_size_start")
    BY <1>2, <1>3, <1>6, GotoIs, StatesAre
  <2>2. Keeps(t, s, {"state", "nread"}) /\ t.state = "s_chunk_size_start" /\ t.nread = 0
    BY <1>1, <2>1 DEF Moves, Keeps, Fields
  <2> QED BY <1>6, <2>2 DEF t, skip
<1>7. CASE ~skip /\ "CHUNKED" \notin s.flags /\ HasBody(s)
  <2>1. /\ Keeps(z, q, {"state", "expect", "announced"})
        /\ z.state = "s_body_identity" /\ z.expect = q.announced /\ z.announced = 0
    <3>1. PICK y \in Nat : y = q.announced
      BY <1>3 DEF Parsers
    <3>2. q.expect + q.announced = y
      BY <1>3, <3>1
    <3>3. z = [q EXCEPT !.state = "s_body_identity", !.expect = y, !.announced = 0]
      BY <1>3, <3>2 DEF Parsers
    <3> HIDE DEF z
    <3> QED BY <1>3, <3>1, <3>3, BodyIs
  <2> HIDE DEF z
  <2>2. /\ Keeps(z, s, {"state", "nread", "expect", "announced"}) /\ z.nread = 0
    BY <1>1, <2>1 DEF Keeps, Fields
  <2> QED BY <1>2, <1>3, <1>7, <2>1, <2>2 DEF t, skip
<1> QED BY <1>4, <1>5, <1>6, <1>7 DEF HasBody

WillUpgrade(s) == {"UPGRADE", "CONNECTION_UPGRADE"} \subseteq s.flags \/ s.method = "CONNECT"

\* What s_headers_almost_done does.
HeadersEnd(t, s, ch) ==
  LET trailing == "TRAILING" \in s.flags
      both == {"CHUNKED", "CONTENTLENGTH"} \subseteq s.flags
      ok == ch = "LF" /\ ~trailing /\ ~both
      skip == WillUpgrade(s) /\ (s.method = "CONNECT" \/ ~HasBody(s))
  IN  \/ ch # "LF" /\ t = Fail(s, "STRICT")
      \/ ch = "LF" /\ trailing /\ Completed(t, s) /\ t.returned = s.returned
      \/ ch = "LF" /\ ~trailing /\ both /\ t = Fail(s, "UNEXPECTED_CONTENT_LENGTH")
      \/ ok /\ skip /\ Completed(t, s) /\ t.returned = TRUE
      \/ ok /\ ~skip /\ ~HasBody(s) /\ Completed(t, s) /\ t.returned = s.returned
      \/ /\ ok /\ ~skip /\ "CHUNKED" \in s.flags
         /\ Keeps(t, s, {"state", "nread", "upgrade", "called"})
         /\ t.state = "s_chunk_size_start" /\ t.nread = 0
         /\ t.upgrade = WillUpgrade(s) /\ t.called = "headers"
      \/ /\ ok /\ ~skip /\ "CHUNKED" \notin s.flags /\ HasBody(s)
         /\ Keeps(t, s, {"state", "nread", "expect", "announced", "upgrade", "called"})
         /\ t.state = "s_body_identity" /\ t.nread = 0
         /\ t.expect = s.announced /\ t.announced = 0
         /\ t.upgrade = WillUpgrade(s) /\ t.called = "headers"

\* The end of the headers, case by case.
LEMMA s_headers_almost_done_is ==
  ASSUME NEW s \in Parsers, s.expect = 0, s.http_errno = "OK",
         s.called = IF "TRAILING" \in s.flags THEN "headers" ELSE "begin",
         NEW ch
  PROVE  HeadersEnd(s_headers_almost_done(s, ch), s, ch)
<1> DEFINE trailing == "TRAILING" \in s.flags
           both == {"CHUNKED", "CONTENTLENGTH"} \subseteq s.flags
           ok == ch = "LF" /\ ~trailing /\ ~both
           skip == WillUpgrade(s) /\ (s.method = "CONNECT" \/ ~HasBody(s))
           t == s_headers_almost_done(s, ch)
           q == headers_complete([s EXCEPT !.upgrade = WillUpgrade(s)])
<1>1. CASE ch # "LF"
  BY <1>1 DEF s_headers_almost_done, HeadersEnd
<1>2. CASE ch = "LF" /\ trailing
  <2>1. t = s_message_done(s)
    BY <1>2 DEF s_headers_almost_done
  <2> QED BY <1>2, <2>1, CompletedIs DEF HeadersEnd
<1>3. CASE ch = "LF" /\ ~trailing /\ both
  BY <1>3 DEF s_headers_almost_done, HeadersEnd
<1>4. CASE ok
  <2>1. t = s_headers_done(q)
    BY <1>4 DEF s_headers_almost_done, WillUpgrade
  <2>2. PICK y \in BOOLEAN : y = WillUpgrade(s)
    BY DEF WillUpgrade
  <2>3. Keeps(q, s, {"upgrade", "called"}) /\ q.upgrade = y /\ q.called = "headers"
    BY <1>4, <2>2 DEF headers_complete, Keeps, Fields, Parsers
  <2> HIDE DEF q, t, ok
  <2>4. /\ q \in Parsers /\ q.expect = 0 /\ q.http_errno = "OK" /\ q.flags = s.flags
        /\ q.content_length = s.content_length /\ q.method = s.method
        /\ q.announced = s.announced /\ q.returned = s.returned
    BY <2>3 DEF Keeps, Fields
  <2>5. HasBody(q) <=> HasBody(s)
    BY <2>4 DEF HasBody
  <2> HIDE DEF skip
  <2>6. skip <=> (q.upgrade /\ (q.method = "CONNECT" \/ ~HasBody(q)))
    BY <2>2, <2>3, <2>4, <2>5 DEF skip
  <2>7. \/ skip /\ Completed(t, q) /\ t.returned = TRUE
        \/ ~skip /\ ~HasBody(s) /\ Completed(t, q) /\ t.returned = s.returned
        \/ /\ ~skip /\ "CHUNKED" \in s.flags
           /\ Keeps(t, q, {"state", "nread"})
           /\ t.state = "s_chunk_size_start" /\ t.nread = 0
        \/ /\ ~skip /\ "CHUNKED" \notin s.flags /\ HasBody(s)
           /\ Keeps(t, q, {"state", "nread", "expect", "announced"})
           /\ t.state = "s_body_identity" /\ t.nread = 0
           /\ t.expect = s.announced /\ t.announced = 0
    BY <2>1, <2>3, <2>4, <2>5, <2>6, s_headers_done_is
  <2>8. CASE skip \/ ~HasBody(s)
    <3>1. Completed(t, q) => Completed(t, s)
      BY <2>3 DEF Completed, Keeps, Fields, Reset
    <3> QED BY <1>4, <2>7, <2>8, <3>1 DEF HeadersEnd, t, skip, ok, HasBody
  <2>9. CASE ~skip /\ "CHUNKED" \in s.flags
    <3>1. /\ Keeps(t, s, {"state", "nread", "upgrade", "called"})
          /\ t.upgrade = y /\ t.called = "headers"
          /\ t.state = "s_chunk_size_start" /\ t.nread = 0
      BY <2>3, <2>7, <2>9 DEF Keeps, Fields, HasBody
    <3> QED BY <1>4, <2>2, <2>9, <3>1 DEF HeadersEnd, t, skip, ok
  <2>10. CASE ~skip /\ "CHUNKED" \notin s.flags /\ HasBody(s)
    <3>1. /\ Keeps(t, s, {"state", "nread", "expect", "announced", "upgrade", "called"})
          /\ t.upgrade = y /\ t.called = "headers"
          /\ t.state = "s_body_identity" /\ t.nread = 0
          /\ t.expect = s.announced /\ t.announced = 0
      BY <2>3, <2>7, <2>10 DEF Keeps, Fields
    <3> QED BY <1>4, <2>2, <2>10, <3>1 DEF HeadersEnd, t, skip, ok
  <2> QED BY <2>8, <2>9, <2>10
<1> QED BY <1>1, <1>2, <1>3, <1>4

\* The empty line after the headers: a message that is complete, a chunk size or
\* a body of the length that was read.
LEMMA s_headers_almost_done_steps ==
  ASSUME NEW r, NEW ch, Reading(r, {}), r.state = "s_headers_almost_done"
  PROVE  Outcome(s_headers_almost_done(r, ch))
<1>1. /\ r \in Parsers /\ r.expect = 0 /\ r.http_errno = "OK"
      /\ r.called = IF "TRAILING" \in r.flags THEN "headers" ELSE "begin"
  BY DEF Reading, Settled, Always, MarksInv, LengthInv, BodyInv, OrderInv, SizeInv, LocalsInv,
    Between, Run, Keeps, Moves, Fields, Parsers, States, RequestLine, HeaderStates, ChunkStates,
    ChunkSizeStates, UrlStates, Elements, NoMark, None
<1>2. PICK t : t = s_headers_almost_done(r, ch)
  OBVIOUS
<1>3. CASE t \in {Fail(r, "STRICT"), Fail(r, "UNEXPECTED_CONTENT_LENGTH")}
  BY <1>2, <1>3, FailIs DEF Outcome, Errors
<1>4. CASE Completed(t, r)
  <2>1. Settled(t, 1)
    BY <1>1, <1>4, LimitsAssumption DEF Completed, Reset, Reading, Settled, Always, MarksInv,
      LengthInv, BodyInv, OrderInv, SizeInv, LocalsInv, Between, Run, Keeps, Moves, Fields,
      Parsers, States, RequestLine, HeaderStates, ChunkStates, ChunkSizeStates, UrlStates,
      Elements, NoMark, None
  <2> QED BY <1>2, <2>1 DEF Outcome
<1>5. CASE /\ Keeps(t, r, {"state", "nread", "upgrade", "called"})
           /\ t.state = "s_chunk_size_start" /\ t.nread = 0
           /\ t.called = "headers" /\ "CHUNKED" \in r.flags
  <2>1. Settled(t, 1)
    BY <1>1, <1>5, LimitsAssumption DEF Reading, Settled, Always, MarksInv, LengthInv, BodyInv,
      OrderInv, SizeInv, LocalsInv, Between, Run, Keeps, Moves, Fields, Parsers, States,
      RequestLine, HeaderStates, ChunkStates, ChunkSizeStates, UrlStates, Elements, NoMark, None
  <2> QED BY <1>2, <2>1 DEF Outcome
<1>6. CASE /\ Keeps(t, r, {"state", "nread", "expect", "announced", "upgrade", "called"})
           /\ t.state = "s_body_identity" /\ t.nread = 0
           /\ t.expect = r.announced /\ t.announced = 0 /\ t.called = "headers"
           /\ "TRAILING" \notin r.flags /\ "CHUNKED" \notin r.flags /\ HasBody(r)
  <2>1. Settled(t, 1)
    BY <1>1, <1>6, LimitsAssumption DEF HasBody, Reading, Settled, Always, MarksInv, LengthInv,
      BodyInv, OrderInv, SizeInv, LocalsInv, Between, Run, Keeps, Moves, Fields, Parsers, States,
      RequestLine, HeaderStates, ChunkStates, ChunkSizeStates, UrlStates, Elements, NoMark, None
  <2> QED BY <1>2, <2>1 DEF Outcome
<1>7. HeadersEnd(t, r, ch)
  BY <1>1, <1>2, s_headers_almost_done_is
<1> QED BY <1>3, <1>4, <1>5, <1>6, <1>7 DEF HeadersEnd

\* Both parsers do the same.
LEMMA s_headers_almost_done_matches ==
  ASSUME NEW r, NEW w, NEW ch, Reading(r, {}), Reading(w, {}), Paired(r, w),
         r.state = "s_headers_almost_done", NEW b
  PROVE  Matched(s_headers_almost_done(r, ch), s_headers_almost_done(w, ch), b)
<1>1. /\ r \in Parsers /\ r.expect = 0 /\ r.http_errno = "OK" /\ r.ahead = "none"
      /\ r.called = IF "TRAILING" \in r.flags THEN "headers" ELSE "begin"
      /\ r.run = None
  BY DEF Reading, Settled, Always, MarksInv, LengthInv, BodyInv, OrderInv, SizeInv, LocalsInv,
    Between, Run, Keeps, Moves, Fields, Parsers, States, RequestLine, HeaderStates, ChunkStates,
    ChunkSizeStates, UrlStates, Elements, NoMark, None
<1>2. /\ r.state = w.state /\ r.flags = w.flags /\ r.method = w.method
      /\ r.content_length = w.content_length /\ r.returned = w.returned
      /\ r.announced = w.announced
  BY DEF Paired, SameBut
<1>3. /\ w \in Parsers /\ w.expect = 0 /\ w.http_errno = "OK" /\ w.ahead = "none"
      /\ w.called = IF "TRAILING" \in w.flags THEN "headers" ELSE "begin"
      /\ w.run = None
  BY <1>2 DEF Reading, Settled, Always, MarksInv, LengthInv, BodyInv, OrderInv, SizeInv,
    LocalsInv, Between, Run, Keeps, Moves, Fields, Parsers, States, RequestLine, HeaderStates,
    ChunkStates, ChunkSizeStates, UrlStates, Elements, NoMark, None
<1>4. (HasBody(r) <=> HasBody(w)) /\ (WillUpgrade(r) <=> WillUpgrade(w))
  BY <1>2 DEF HasBody, WillUpgrade
<1>5. PICK t : t = s_headers_almost_done(r, ch)
  OBVIOUS
<1>6. PICK u : u = s_headers_almost_done(w, ch)
  OBVIOUS
<1> DEFINE F == {"state", "nread", "upgrade", "called"}
           G == {"state", "nread", "expect", "announced", "upgrade", "called"}
<1>7. \/ t = Fail(r, "STRICT") /\ u = Fail(w, "STRICT")
      \/ t = Fail(r, "UNEXPECTED_CONTENT_LENGTH") /\ u = Fail(w, "UNEXPECTED_CONTENT_LENGTH")
      \/ Completed(t, r) /\ Completed(u, w) /\ t.returned = u.returned
      \/ /\ Keeps(t, r, F) /\ Keeps(u, w, F) /\ t.state = u.state /\ t.nread = u.nread
         /\ t.upgrade = WillUpgrade(r) /\ u.upgrade = WillUpgrade(w) /\ t.called = u.called
      \/ /\ Keeps(t, r, G) /\ Keeps(u, w, G) /\ t.state = u.state /\ t.nread = u.nread
         /\ t.upgrade = WillUpgrade(r) /\ u.upgrade = WillUpgrade(w) /\ t.called = u.called
         /\ t.announced = u.announced
  <2>1. HeadersEnd(t, r, ch) /\ HeadersEnd(u, w, ch)
    BY <1>1, <1>3, <1>5, <1>6, s_headers_almost_done_is
  <2>2. CASE ch # "LF" \/ {"CHUNKED", "CONTENTLENGTH"} \subseteq r.flags
    BY <1>2, <2>1, <2>2 DEF HeadersEnd
  <2>3. CASE ch = "LF" /\ ~({"CHUNKED", "CONTENTLENGTH"} \subseteq r.flags)
    <3>1. CASE "TRAILING" \in r.flags
      BY <1>2, <2>1, <2>3, <3>1 DEF HeadersEnd
    <3>2. CASE "TRAILING" \notin r.flags
      <4> DEFINE skip(s) == WillUpgrade(s) /\ (s.method = "CONNECT" \/ ~HasBody(s))
      <4>1. skip(r) <=> skip(w)
        BY <1>2, <1>4
      <4>2. CASE skip(r)
        <5>1. Completed(t, r) /\ t.returned = TRUE
          BY <2>1, <2>3, <3>2, <4>2 DEF HeadersEnd
        <5>2. Completed(u, w) /\ u.returned = TRUE
          BY <1>2, <2>1, <2>3, <3>2, <4>1, <4>2 DEF HeadersEnd
        <5> QED BY <5>1, <5>2
      <4>3. CASE ~skip(r) /\ ~HasBody(r)
        <5>1. Completed(t, r) /\ t.returned = r.returned
          BY <2>1, <2>3, <3>2, <4>3 DEF HeadersEnd, HasBody
        <5>2. Completed(u, w) /\ u.returned = w.returned
          BY <1>2, <1>4, <2>1, <2>3, <3>2, <4>1, <4>3 DEF HeadersEnd, HasBody
        <5> QED BY <1>2, <5>1, <5>2
      <4>4. CASE ~skip(r) /\ "CHUNKED" \in r.flags
        <5>1. /\ Keeps(t, r, F) /\ t.state = "s_chunk_size_start" /\ t.nread = 0
              /\ t.upgrade = WillUpgrade(r) /\ t.called = "headers"
          BY <2>1, <2>3, <3>2, <4>4 DEF HeadersEnd, HasBody
        <5>2. /\ Keeps(u, w, F) /\ u.state = "s_chunk_size_start" /\ u.nread = 0
              /\ u.upgrade = WillUpgrade(w) /\ u.called = "headers"
          BY <1>2, <1>4, <2>1, <2>3, <3>2, <4>1, <4>4 DEF HeadersEnd, HasBody
        <5> QED BY <5>1, <5>2
      <4>5. CASE ~skip(r) /\ "CHUNKED" \notin r.flags /\ HasBody(r)
        <5>1. /\ Keeps(t, r, G) /\ t.state = "s_body_identity" /\ t.nread = 0
              /\ t.announced = 0 /\ t.upgrade = WillUpgrade(r) /\ t.called = "headers"
          BY <2>1, <2>3, <3>2, <4>5 DEF HeadersEnd
        <5>2. /\ Keeps(u, w, G) /\ u.state = "s_body_identity" /\ u.nread = 0
              /\ u.announced = 0 /\ u.upgrade = WillUpgrade(w) /\ u.called = "headers"
          BY <1>2, <1>4, <2>1, <2>3, <3>2, <4>1, <4>5 DEF HeadersEnd
        <5> QED BY <5>1, <5>2
      <4> QED BY <4>2, <4>3, <4>4, <4>5
    <3> QED BY <3>1, <3>2
  <2> QED BY <2>2, <2>3
<1>8. CASE t = Fail(r, "STRICT") /\ u = Fail(w, "STRICT")
  BY <1>5, <1>6, <1>8, FailIs, BothFail DEF Errors
<1>9. CASE t = Fail(r, "UNEXPECTED_CONTENT_LENGTH") /\ u = Fail(w, "UNEXPECTED_CONTENT_LENGTH")
  BY <1>5, <1>6, <1>9, FailIs, BothFail DEF Errors
<1>10. CASE Completed(t, r) /\ Completed(u, w) /\ t.returned = u.returned
  <2>1. \A f \in Reset \ {"mark", "due", "expect"} : t[f] = u[f]
    <3>1. /\ t.state = u.state /\ t.header_state = u.header_state /\ t.index = u.index
          /\ t.flags = u.flags /\ t.nread = u.nread /\ t.content_length = u.content_length
          /\ t.method = u.method /\ t.version = u.version /\ t.upgrade = u.upgrade
          /\ t.announced = u.announced /\ t.called = u.called /\ t.returned = u.returned
      BY <1>10, Zenon DEF Completed
    <3> QED BY <3>1, Zenon DEF Reset
  <2>2. Reset \cap {"run", "skipped", "ahead", "http_errno"} = {}
    BY DEF Reset
  <2>3. Matched(t, u, b)
    BY <1>1, <1>3, <1>10, <2>1, <2>2, SameChange DEF Completed
  <2> QED BY <1>5, <1>6, <2>3
<1>11. ASSUME NEW W1 \in BOOLEAN, t.upgrade = W1, u.upgrade = W1,
              t.state = u.state, t.nread = u.nread, t.called = u.called,
              \/ Keeps(t, r, F) /\ Keeps(u, w, F)
              \/ Keeps(t, r, G) /\ Keeps(u, w, G) /\ t.announced = u.announced
       PROVE  Matched(t, u, b)
  <2>1. CASE Keeps(t, r, F) /\ Keeps(u, w, F)
    BY <1>1, <1>3, <1>11, <2>1, SameChange
  <2>2. CASE Keeps(t, r, G) /\ Keeps(u, w, G) /\ t.announced = u.announced
    BY <1>1, <1>3, <1>11, <2>2, SameChange
  <2> QED BY <1>11, <2>1, <2>2
<1>12. PICK x \in BOOLEAN : x = WillUpgrade(r) /\ x = WillUpgrade(w)
  BY <1>4 DEF WillUpgrade
<1> QED BY <1>5, <1>6, <1>7, <1>8, <1>9, <1>10, <1>11, <1>12

-----------------------------------------------------------------------------
(* Header fields.                                                          *)

FieldKind(ch) == CASE ch = "c" -> "h_C"
                   [] ch = "t" -> "h_matching_transfer_encoding"
                   [] ch = "u" -> "h_matching_upgrade"
                   [] OTHER -> "h_general"

\* What s_header_field_start does.
LEMMA s_header_field_start_is ==
  ASSUME NEW s \in Parsers, NEW ch
  PROVE  LET t == s_header_field_start(s, ch)
             q == Goto(s, "s_headers_almost_done")
         IN  \/ ch = "CR" /\ t = q
             \/ ch = "LF" /\ t = s_headers_almost_done(q, ch)
             \/ /\ ch \in Token
                /\ Keeps(t, s, {"state", "header_state", "mark"})
                /\ t.state = "s_header_field" /\ t.header_state = FieldKind(ch)
                /\ \A f \in Elements :
                     t.mark[f] = IF f = "header_field" /\ s.mark["header_field"] = NoMark
                                 THEN 0 ELSE s.mark[f]
             \/ ch \notin Token \cup {"CR", "LF"} /\ t = Fail(s, "INVALID_HEADER_TOKEN")
<1> DEFINE t == s_header_field_start(s, ch)
           v == [s EXCEPT !.state = "s_header_field", !.header_state = FieldKind(ch)]
<1>1. CASE ch \notin Token
  BY <1>1 DEF s_header_field_start
<1>2. CASE ch \in Token
  <2>1. ch \notin {"CR", "LF"}
    BY <1>2 DEF Token, Letters, Digits, Value
  <2>2. t = Mark(v, "header_field")
    BY <1>2, <2>1 DEF s_header_field_start, FieldKind
  <2>3. FieldKind(ch) \in HeaderKinds
    BY DEF FieldKind, HeaderKinds
  <2>4. /\ Keeps(v, s, {"state", "header_state"})
        /\ v.state = "s_header_field" /\ v.header_state = FieldKind(ch)
    BY <2>3, StatesAre DEF Keeps, Fields, Parsers
  <2> HIDE DEF v, t
  <2>5. v \in Parsers /\ v.mark = s.mark
    BY <2>4 DEF Keeps, Fields
  <2>6. /\ Keeps(t, v, {"mark"})
        /\ \A f \in Elements :
             t.mark[f] = IF f = "header_field" /\ v.mark["header_field"] = NoMark
                         THEN 0 ELSE v.mark[f]
    BY <2>2, <2>5, MarkIs DEF Elements
  <2>7. /\ Keeps(t, s, {"state", "header_state", "mark"})
        /\ t.state = "s_header_field" /\ t.header_state = FieldKind(ch)
    BY <2>4, <2>6 DEF Keeps, Fields
  <2> QED BY <1>2, <2>5, <2>6, <2>7 DEF t
<1> QED BY <1>1, <1>2

\* What a byte after a header is a part of.
FieldParts(ch) == IF ch \in Token THEN {"header_field"} ELSE {}

\* The two parsers stay paired when the same fields change.
LEMMA PairedKept ==
  ASSUME NEW r, NEW w, Paired(r, w), NEW t, NEW u, NEW F, Keeps(t, r, F), Keeps(u, w, F),
         F \cap {"run", "skipped", "nread"} = {},
         \A f \in F \ {"mark", "due", "expect"} : t[f] = u[f]
  PROVE  Paired(t, u)
<1>1. /\ t.run = r.run /\ t.skipped = r.skipped /\ t.nread = r.nread
      /\ u.run = w.run /\ u.skipped = w.skipped /\ u.nread = w.nread
  BY DEF Keeps, Fields
<1>2. ASSUME NEW f \in Fields \ {"mark", "due", "expect"}, r[f] = w[f]
      PROVE  t[f] = u[f]
  BY <1>2 DEF Keeps
<1>3. SameBut(t, u) /\ t.method = u.method
  BY <1>2 DEF Paired, SameBut, Fields
<1> QED BY <1>1, <1>3 DEF Paired, CountsMore, Run

\* The empty line, or the first byte of a field.
LEMMA s_header_field_start_steps ==
  ASSUME NEW r, NEW ch, Reading(r, FieldParts(ch)), r.state = "s_header_field_start"
  PROVE  Outcome(s_header_field_start(r, ch))
<1>1. r \in Parsers
  BY ReadingHas
<1>2. PICK t : t = s_header_field_start(r, ch)
  OBVIOUS
<1>3. PICK q : q = Goto(r, "s_headers_almost_done")
  OBVIOUS
<1>4. Moves(q, r, "s_headers_almost_done")
  BY <1>1, <1>3, GotoIs, StatesAre
<1>5. CASE ch \notin Token
  <2>1. FieldParts(ch) = {}
    BY <1>5 DEF FieldParts
  <2>2. Reading(q, {}) /\ Settled(q, 1)
    BY <1>4, <2>1, LimitsAssumption DEF Reading, Settled, Always, MarksInv, LengthInv, BodyInv,
      OrderInv, SizeInv, LocalsInv, Between, Run, Keeps, Moves, Fields, Parsers, States,
      RequestLine, HeaderStates, ChunkStates, ChunkSizeStates, UrlStates, Elements, NoMark, None
  <2>3. CASE t = q
    BY <1>2, <2>2, <2>3 DEF Outcome
  <2>4. CASE t = s_headers_almost_done(q, ch)
    BY <1>2, <1>4, <2>2, <2>4, s_headers_almost_done_steps DEF Moves
  <2>5. CASE t = Fail(r, "INVALID_HEADER_TOKEN")
    BY <1>2, <2>5, FailIs DEF Outcome, Errors
  <2> QED BY <1>1, <1>2, <1>3, <1>5, <2>3, <2>4, <2>5, s_header_field_start_is
<1>6. CASE ch \in Token
  <2>1. FieldParts(ch) = {"header_field"} /\ ch \notin {"CR", "LF"}
    BY <1>6 DEF FieldParts, Token, Letters, Digits, Value
  <2>2. /\ Keeps(t, r, {"state", "header_state", "mark"})
        /\ t.state = "s_header_field"
        /\ \A f \in Elements :
             t.mark[f] = IF f = "header_field" /\ r.mark["header_field"] = NoMark
                         THEN 0 ELSE r.mark[f]
    BY <1>1, <1>2, <1>6, <2>1, s_header_field_start_is
  <2>3. Settled(t, 1)
    BY <2>1, <2>2, LimitsAssumption DEF Reading, Settled, Always, MarksInv, LengthInv, BodyInv,
      OrderInv, SizeInv, LocalsInv, Between, Run, Keeps, Moves, Fields, Parsers, States,
      RequestLine, HeaderStates, ChunkStates, ChunkSizeStates, UrlStates, Elements, NoMark, None
  <2> QED BY <1>2, <2>3 DEF Outcome
<1> QED BY <1>5, <1>6

\* Both parsers do the same.
LEMMA s_header_field_start_matches ==
  ASSUME NEW r, NEW w, NEW ch, Reading(r, FieldParts(ch)), Reading(w, FieldParts(ch)),
         Paired(r, w), r.state = "s_header_field_start", NEW b
  PROVE  Matched(s_header_field_start(r, ch), s_header_field_start(w, ch), b)
<1>1. /\ r \in Parsers /\ r.http_errno = "OK" /\ r.ahead = "none"
      /\ w \in Parsers /\ w.http_errno = "OK" /\ w.ahead = "none"
      /\ w.state = "s_header_field_start"
  BY ReadingHas DEF Paired, SameBut
<1>2. PICK t : t = s_header_field_start(r, ch)
  OBVIOUS
<1>3. PICK u : u = s_header_field_start(w, ch)
  OBVIOUS
<1>4. PICK q : q = Goto(r, "s_headers_almost_done")
  OBVIOUS
<1>5. PICK v : v = Goto(w, "s_headers_almost_done")
  OBVIOUS
<1>6. Moves(q, r, "s_headers_almost_done") /\ Moves(v, w, "s_headers_almost_done")
  BY <1>1, <1>4, <1>5, GotoIs, StatesAre
<1>7. Paired(q, v)
  BY <1>6, PairedKept DEF Moves
<1>8. CASE ch \notin Token
  <2>1. FieldParts(ch) = {}
    BY <1>8 DEF FieldParts
  <2>2. Reading(q, {})
    BY <1>6, <2>1, LimitsAssumption DEF Reading, Settled, Always, MarksInv, LengthInv, BodyInv,
      OrderInv, SizeInv, LocalsInv, Between, Run, Keeps, Moves, Fields, Parsers, States,
      RequestLine, HeaderStates, ChunkStates, ChunkSizeStates, UrlStates, Elements, NoMark, None
  <2>3. Reading(v, {})
    BY <1>1, <1>6, <2>1, LimitsAssumption DEF Reading, Settled, Always, MarksInv, LengthInv,
      BodyInv, OrderInv, SizeInv, LocalsInv, Between, Run, Keeps, Moves, Fields, Parsers, States,
      RequestLine, HeaderStates, ChunkStates, ChunkSizeStates, UrlStates, Elements, NoMark, None
  <2>4. CASE t = q /\ u = v
    <3>1. Matched(t, u, b)
      BY <1>1, <1>6, <2>4, SameChange DEF Moves
    <3> QED BY <1>2, <1>3, <3>1
  <2>5. CASE t = s_headers_almost_done(q, ch) /\ u = s_headers_almost_done(v, ch)
    BY <1>2, <1>3, <1>6, <1>7, <2>2, <2>3, <2>5, s_headers_almost_done_matches DEF Moves
  <2>6. CASE t = Fail(r, "INVALID_HEADER_TOKEN") /\ u = Fail(w, "INVALID_HEADER_TOKEN")
    BY <1>2, <1>3, <2>6, FailIs, BothFail DEF Errors
  <2> QED BY <1>1, <1>2, <1>3, <1>4, <1>5, <1>8, <2>4, <2>5, <2>6, s_header_field_start_is
<1>9. CASE ch \in Token
  <2>1. ch \notin {"CR", "LF"}
    BY <1>9 DEF Token, Letters, Digits, Value
  <2> DEFINE F == {"state", "header_state", "mark"}
  <2>2. Keeps(t, r, F) /\ Keeps(u, w, F) /\ t.state = u.state /\ t.header_state = u.header_state
    BY <1>1, <1>2, <1>3, <1>9, <2>1, s_header_field_start_is
  <2>3. Matched(t, u, b)
    BY <1>1, <2>2, SameChange
  <2> QED BY <1>2, <1>3, <2>3
<1> QED BY <1>8, <1>9

\* A number below UllMax that another digit was added to.
LEMMA DigitsFit ==
  ASSUME NEW n \in Nat, NEW v \in 0 .. 14
  PROVE  /\ ~((UllMax - 10) \div 10 < n) /\ v < 10 =>
              (n * 10 + v) % (UllMax + 1) = n * 10 + v /\ n * 10 + v < UllMax
         /\ ~((UllMax - 16) \div 16 < n) =>
              (n * 16 + v) % (UllMax + 1) = n * 16 + v /\ n * 16 + v < UllMax
<1>1. UllMax \in Nat /\ UllMax >= 16
  BY LimitsAssumption
<1>2. ASSUME NEW m \in Nat, m < UllMax
      PROVE  m % (UllMax + 1) = m
  BY <1>1, <1>2
<1>3. ASSUME ~((UllMax - 10) \div 10 < n), v < 10
      PROVE  n * 10 + v < UllMax
  <2>1. PICK k \in Nat : k = UllMax - 10
    BY <1>1
  <2>2. n <= k \div 10
    BY <1>3, <2>1
  <2>3. 10 * n <= k
    BY <2>2
  <2> QED BY <1>1, <1>3, <2>1, <2>3
<1>4. ASSUME ~((UllMax - 16) \div 16 < n)
      PROVE  n * 16 + v < UllMax
  <2>1. PICK k \in Nat : k = UllMax - 16
    BY <1>1
  <2>2. n <= k \div 16
    BY <1>4, <2>1
  <2>3. 16 * n <= k
    BY <2>2
  <2> QED BY <1>1, <2>1, <2>3
<1> QED BY <1>2, <1>3, <1>4

\* The values of digits.
LEMMA DigitValues ==
  /\ \A ch \in Digits : Value[ch] \in 0 .. 2
  /\ \A ch \in DOMAIN unhex : unhex[ch] \in 0 .. 14
<1>1. Digits = {"0", "1", "2"} /\ \A ch \in Digits : Value[ch] \in 0 .. 2
  BY DEF Digits, Value
<1>2. DOMAIN unhex = Digits \cup {"c", "e"}
  BY DEF unhex
<1>3. \A ch \in DOMAIN unhex :
        unhex[ch] = IF ch = "c" THEN 12 ELSE IF ch = "e" THEN 14 ELSE Value[ch]
  BY <1>2 DEF unhex
<1> QED BY <1>1, <1>2, <1>3

\* The header states of a field and of a value, and the flags of a value.
LEMMA KindRanges ==
  ASSUME NEW h \in HeaderKinds, NEW ch
  PROVE  /\ NextFieldState(h, ch) \in HeaderKinds
         /\ NextValueState(h, ch) \in HeaderKinds \ {"h_connection", "h_content_length",
                                                      "h_transfer_encoding"}
         /\ ValueFlag(h) \subseteq {"KEEP_ALIVE", "CLOSE", "CONNECTION_UPGRADE", "CHUNKED"}
<1>1. NextFieldState(h, ch) \in HeaderKinds
  BY DEF NextFieldState, HeaderKinds
<1>2. ValueFlag(h) \subseteq {"KEEP_ALIVE", "CLOSE", "CONNECTION_UPGRADE", "CHUNKED"}
  BY DEF ValueFlag, HeaderKinds
<1>3. NextValueState(h, ch) \in HeaderKinds \ {"h_connection", "h_content_length",
                                                "h_transfer_encoding"}
  BY DEF NextValueState, HeaderKinds, Token, Letters, Digits, Value
<1> QED BY <1>1, <1>2, <1>3

\* The end of an inner loop, also of one that has not begun.
LEMMA LoopEndIs ==
  ASSUME NEW s \in Parsers
  PROVE  LET t == EndRun([s EXCEPT !.run = Run(s)])
         IN  /\ s.nread + Run(s) > MaxHeader => t = Fail(s, "HEADER_OVERFLOW")
             /\ ~(s.nread + Run(s) > MaxHeader) =>
                  /\ Keeps(t, s, {"nread", "run", "skipped"})
                  /\ t.nread = s.nread + Run(s) /\ t.run = None /\ t.skipped = FALSE
<1> DEFINE q == [s EXCEPT !.run = Run(s)]
<1>1. Run(s) \in Nat /\ Run(s) # None
  BY DEF Run, Parsers, None
<1>2. Keeps(q, s, {"run"}) /\ q.run = Run(s)
  BY <1>1 DEF Keeps, Parsers, Fields
<1>3. PICK v : v = q
  OBVIOUS
<1>4. v \in Parsers /\ v.run = Run(s) /\ v.nread = s.nread
  BY <1>2, <1>3 DEF Keeps, Fields
<1>5. PICK t : t = EndRun(v)
  OBVIOUS
<1>6. CASE s.nread + Run(s) > MaxHeader
  <2>1. t = Fail(s, "HEADER_OVERFLOW")
    BY <1>1, <1>4, <1>5, <1>6, EndRunIs DEF Fail
  <2> QED BY <1>3, <1>5, <1>6, <2>1
<1>7. CASE ~(s.nread + Run(s) > MaxHeader)
  <2>1. /\ Keeps(t, v, {"nread", "run", "skipped"})
        /\ t.nread = s.nread + Run(s) /\ t.run = None /\ ~t.skipped
    BY <1>1, <1>4, <1>5, <1>7, EndRunIs
  <2>2. t.skipped = FALSE
    BY <2>1 DEF Keeps, Parsers
  <2>3. Keeps(t, s, {"nread", "run", "skipped"})
    BY <1>2, <1>3, <2>1 DEF Keeps, Fields
  <2> QED BY <1>3, <1>5, <1>7, <2>1, <2>2, <2>3
<1> QED BY <1>6, <1>7

\* What s_header_field does.
FieldStep(t, s, ch) ==
  \/ /\ ch \in Token
     /\ Keeps(t, s, {"run", "header_state"})
     /\ t.run = Run(s) + 1 /\ t.header_state = NextFieldState(s.header_state, ch)
  \/ ch \notin Token /\ s.nread + Run(s) > MaxHeader /\ t = Fail(s, "HEADER_OVERFLOW")
  \/ /\ ch = ":" /\ ~(s.nread + Run(s) > MaxHeader)
     /\ Keeps(t, s, {"state", "nread", "run", "skipped", "mark", "due"})
     /\ t.state = "s_header_value_discard_ws"
     /\ t.nread = s.nread + Run(s) /\ t.run = None /\ t.skipped = FALSE
     /\ \A f \in Elements : t.mark[f] = IF f = "header_field" THEN NoMark ELSE s.mark[f]
     /\ \A f \in Elements : t.due[f] = IF f = "header_field" /\ s.mark[f] # NoMark
                                       THEN s.due[f] - s.mark[f] ELSE s.due[f]
  \/ /\ ch \notin Token \cup {":"} /\ ~(s.nread + Run(s) > MaxHeader)
     /\ t = Fail(s, "INVALID_HEADER_TOKEN")

\* The inner loop over a field, case by case.
LEMMA s_header_field_is ==
  ASSUME NEW s \in Parsers, s.http_errno = "OK",
         s.called = IF "TRAILING" \in s.flags THEN "headers" ELSE "begin", NEW ch
  PROVE  FieldStep(s_header_field(s, ch), s, ch)
<1> DEFINE q == EndRun([s EXCEPT !.run = Run(s)])
           v == [s EXCEPT !.run = Run(s) + 1,
                          !.header_state = NextFieldState(s.header_state, ch)]
<1>1. PICK t : t = s_header_field(s, ch)
  OBVIOUS
<1>2. t = IF ch \in Token THEN v
          ELSE IF Failed(q) THEN q
          ELSE IF ch = ":" THEN CALLBACK_DATA(Goto(q, "s_header_value_discard_ws"), "header_field")
          ELSE Fail(q, "INVALID_HEADER_TOKEN")
  BY <1>1 DEF s_header_field, Run
<1>3. ":" \notin Token
  BY DEF Token, Letters, Digits, Value
<1>4. CASE ch \in Token
  <2>1. Run(s) + 1 \in Nat
    BY DEF Run, Parsers
  <2>2. NextFieldState(s.header_state, ch) \in HeaderKinds
    BY KindRanges DEF Parsers
  <2>3. /\ Keeps(v, s, {"run", "header_state"})
        /\ v.run = Run(s) + 1 /\ v.header_state = NextFieldState(s.header_state, ch)
    BY <2>1, <2>2 DEF Keeps, Parsers, Fields
  <2> QED BY <1>1, <1>2, <1>4, <2>3 DEF FieldStep
<1>5. CASE ch \notin Token /\ s.nread + Run(s) > MaxHeader
  <2>1. q = Fail(s, "HEADER_OVERFLOW") /\ Failed(q)
    BY <1>5, LoopEndIs, FailIs DEF Failed, Errors
  <2> QED BY <1>1, <1>2, <1>5, <2>1 DEF FieldStep
<1>6. CASE ch \notin Token /\ ~(s.nread + Run(s) > MaxHeader)
  <2>1. /\ Keeps(q, s, {"nread", "run", "skipped"})
        /\ q.nread = s.nread + Run(s) /\ q.run = None /\ q.skipped = FALSE
    BY <1>6, LoopEndIs
  <2> HIDE DEF q
  <2>2. /\ q \in Parsers /\ ~Failed(q) /\ q.called = s.called /\ q.flags = s.flags
        /\ q.mark = s.mark /\ q.due = s.due
    BY <2>1 DEF Keeps, Fields, Failed
  <2>3. CASE ch # ":"
    BY <1>1, <1>2, <1>6, <2>2, <2>3 DEF FieldStep, Fail
  <2>4. CASE ch = ":"
    <3>1. PICK z : z = Goto(q, "s_header_value_discard_ws")
      OBVIOUS
    <3>2. Moves(z, q, "s_header_value_discard_ws")
      BY <2>2, <3>1, GotoIs, StatesAre
    <3>3. /\ z \in Parsers /\ z.called = s.called /\ z.flags = s.flags
          /\ z.mark = s.mark /\ z.due = s.due
      BY <2>2, <3>2 DEF Moves, Keeps, Fields
    <3>4. t = CALLBACK_DATA(z, "header_field")
      BY <1>2, <1>6, <2>2, <2>4, <3>1
    <3>5. /\ Keeps(t, z, {"mark", "due", "expect"}) /\ t.expect = z.expect
          /\ \A f \in Elements : t.mark[f] = IF f = "header_field" THEN NoMark ELSE z.mark[f]
          /\ \A f \in Elements :
               t.due[f] = IF f = "header_field" /\ z.mark["header_field"] # NoMark
                          THEN z.due[f] - z.mark[f] ELSE z.due[f]
      BY <3>3, <3>4, CallbackIs DEF Elements
    <3>6. /\ Keeps(t, s, {"state", "nread", "run", "skipped", "mark", "due"})
          /\ t.state = "s_header_value_discard_ws"
          /\ t.nread = s.nread + Run(s) /\ t.run = None /\ t.skipped = FALSE
      BY <2>1, <3>2, <3>5 DEF Moves, Keeps, Fields
    <3> QED BY <1>1, <1>6, <2>4, <3>3, <3>5, <3>6 DEF FieldStep
  <2> QED BY <2>3, <2>4
<1> QED BY <1>4, <1>5, <1>6

\* The bytes of a field, and the byte after it.
LEMMA s_header_field_steps ==
  ASSUME NEW r, NEW ch, Reading(r, Parts(r, ch)), r.state = "s_header_field"
  PROVE  Outcome(s_header_field(r, ch))
<1>1. /\ r \in Parsers /\ r.http_errno = "OK"
      /\ r.called = IF "TRAILING" \in r.flags THEN "headers" ELSE "begin"
      /\ Parts(r, ch) = FieldParts(ch)
  <2>1. Parts(r, ch) = FieldParts(ch)
    BY DEF Parts, FieldParts, UrlStates
  <2> QED BY <2>1 DEF Reading, Always, OrderInv, HeaderStates, RequestLine, UrlStates
<1>2. PICK t : t = s_header_field(r, ch)
  OBVIOUS
<1>3. FieldStep(t, r, ch)
  BY <1>1, <1>2, s_header_field_is
<1>4. CASE t \in {Fail(r, "HEADER_OVERFLOW"), Fail(r, "INVALID_HEADER_TOKEN")}
  BY <1>2, <1>4, FailIs DEF Outcome, Errors
<1>5. CASE ch \in Token /\ Keeps(t, r, {"run", "header_state"}) /\ t.run = Run(r) + 1
  <2>1. FieldParts(ch) = {"header_field"}
    BY <1>5 DEF FieldParts
  <2>2. Settled(t, 1)
    BY <1>1, <1>5, <2>1, LimitsAssumption DEF Reading, Settled, Always, MarksInv, LengthInv,
      BodyInv, OrderInv, SizeInv, LocalsInv, Between, Run, Keeps, Moves, Fields, Parsers, States,
      RequestLine, HeaderStates, ChunkStates, ChunkSizeStates, UrlStates, Elements, NoMark, None
  <2> QED BY <1>2, <2>2 DEF Outcome
<1>6. CASE /\ ch = ":" /\ ~(r.nread + Run(r) > MaxHeader)
           /\ Keeps(t, r, {"state", "nread", "run", "skipped", "mark", "due"})
           /\ t.state = "s_header_value_discard_ws"
           /\ t.nread = r.nread + Run(r) /\ t.run = None /\ t.skipped = FALSE
           /\ \A f \in Elements : t.mark[f] = IF f = "header_field" THEN NoMark ELSE r.mark[f]
           /\ \A f \in Elements : t.due[f] = IF f = "header_field" /\ r.mark[f] # NoMark
                                             THEN r.due[f] - r.mark[f] ELSE r.due[f]
  <2>1. FieldParts(ch) = {}
    BY <1>6 DEF FieldParts, Token, Letters, Digits, Value
  <2>2. SizeInv(t) /\ LocalsInv(t)
    BY <1>1, <1>6, LimitsAssumption DEF Reading, Always, SizeInv, LocalsInv, Run, Keeps, Fields,
       Parsers, None
  <2>3. /\ MarksInv(t)
        /\ \A e \in Elements : t.due[e] = Between(t, e, 1) + (IF e \in {} THEN 1 ELSE 0)
    BY <1>1, <1>6, <2>1 DEF Reading, Always, MarksInv, Between, UrlStates, Keeps, Fields, Parsers,
       Elements, NoMark
  <2>4. LengthInv(t) /\ BodyInv(t, 1) /\ OrderInv(t)
    BY <1>1, <1>6 DEF Reading, Always, LengthInv, BodyInv, OrderInv, Keeps, Fields, Parsers,
      States, RequestLine, HeaderStates, ChunkStates, ChunkSizeStates, UrlStates, Elements,
      NoMark, None
  <2>5. Settled(t, 1)
    BY <1>1, <1>6, <2>2, <2>3, <2>4 DEF Settled, Always, Keeps, Fields
  <2> QED BY <1>2, <2>5 DEF Outcome
<1> QED BY <1>3, <1>4, <1>5, <1>6 DEF FieldStep

\* The parser that was cut more often may find the header too large first.
LEMMA s_header_field_matches ==
  ASSUME NEW r, NEW w, NEW ch, Reading(r, Parts(r, ch)), Reading(w, Parts(w, ch)), Paired(r, w),
         r.state = "s_header_field", NEW b
  PROVE  Matched(s_header_field(r, ch), s_header_field(w, ch), b)
<1>1. /\ r \in Parsers /\ r.http_errno = "OK" /\ r.ahead = "none"
      /\ w \in Parsers /\ w.http_errno = "OK" /\ w.ahead = "none"
      /\ w.state = "s_header_field" /\ r.header_state = w.header_state
  BY ReadingHas DEF Paired, SameBut
<1>2. /\ r.called = IF "TRAILING" \in r.flags THEN "headers" ELSE "begin"
      /\ w.called = IF "TRAILING" \in w.flags THEN "headers" ELSE "begin"
  BY <1>1 DEF Reading, Always, OrderInv, HeaderStates, RequestLine, UrlStates
<1>3. PICK t : t = s_header_field(r, ch)
  OBVIOUS
<1>4. PICK u : u = s_header_field(w, ch)
  OBVIOUS
<1>5. FieldStep(t, r, ch) /\ FieldStep(u, w, ch)
  BY <1>1, <1>2, <1>3, <1>4, s_header_field_is
<1>6. /\ ~r.skipped /\ ~w.skipped
      /\ r.nread + Run(r) >= w.nread + Run(w)
      /\ Run(r) \in Nat /\ Run(w) \in Nat /\ r.nread \in Nat /\ w.nread \in Nat
  BY <1>1 DEF Reading, Paired, CountsMore, Run, Parsers
<1>7. CASE ch \in Token
  <2>1. ch # ":"
    BY <1>7 DEF Token, Letters, Digits, Value
  <2>2. /\ Keeps(t, r, {"run", "header_state"}) /\ Keeps(u, w, {"run", "header_state"})
        /\ t.run = Run(r) + 1 /\ u.run = Run(w) + 1 /\ t.header_state = u.header_state
    BY <1>1, <1>5, <1>7, <2>1 DEF FieldStep
  <2>3. Related(t, u, FALSE) /\ t.http_errno = "OK" /\ u.http_errno = "OK"
    BY <1>1, <1>6, <2>2 DEF Related, Paired, SameBut, CountsMore, Run, None, Keeps, Fields
  <2> QED BY <1>3, <1>4, <2>3 DEF Matched, Failed
<1>8. CASE ch \notin Token /\ r.nread + Run(r) > MaxHeader
  <2>1. t = Fail(r, "HEADER_OVERFLOW")
    BY <1>5, <1>8 DEF FieldStep
  <2> QED BY <1>3, <1>4, <2>1, FailIs DEF Matched, Failed, Errors
<1>9. CASE ch \notin Token /\ ~(r.nread + Run(r) > MaxHeader)
  <2>1. ~(w.nread + Run(w) > MaxHeader)
    BY <1>6, <1>9, LimitsAssumption
  <2>2. CASE ch # ":"
    <3>1. t = Fail(r, "INVALID_HEADER_TOKEN") /\ u = Fail(w, "INVALID_HEADER_TOKEN")
      BY <1>5, <1>9, <2>1, <2>2 DEF FieldStep
    <3> QED BY <1>3, <1>4, <3>1, FailIs, BothFail DEF Errors
  <2>3. CASE ch = ":"
    <3> DEFINE F == {"state", "nread", "run", "skipped", "mark", "due"}
    <3>1. /\ Keeps(t, r, F) /\ Keeps(u, w, F) /\ t.state = u.state
          /\ t.nread = r.nread + Run(r) /\ t.run = None /\ t.skipped = FALSE
          /\ u.nread = w.nread + Run(w) /\ u.run = None /\ u.skipped = FALSE
      BY <1>5, <1>9, <2>1, <2>3 DEF FieldStep
    <3>2. Related(t, u, FALSE) /\ t.http_errno = "OK" /\ u.http_errno = "OK"
      BY <1>1, <1>6, <3>1 DEF Related, Paired, SameBut, CountsMore, Run, Keeps, Fields
    <3> QED BY <1>3, <1>4, <3>2 DEF Matched, Failed
  <2> QED BY <2>2, <2>3
<1> QED BY <1>7, <1>8, <1>9

-----------------------------------------------------------------------------
(* Header values.                                                          *)

\* The header state in which a value begins, but for Content-Length.
ValueKind(h, ch) ==
  CASE h = "h_transfer_encoding" ->
         (IF ch = "c" THEN "h_matching_transfer_encoding_chunked" ELSE "h_general")
    [] h = "h_connection" ->
         (CASE ch = "k" -> "h_matching_connection_keep_alive"
            [] ch = "c" -> "h_matching_connection_close"
            [] ch = "u" -> "h_matching_connection_upgrade"
            [] OTHER -> "h_matching_connection_token")
    [] h = "h_matching_connection_token_start" -> h
    [] OTHER -> "h_general"

\* What s_header_value_start does.
ValueStart(t, s, ch) ==
  \/ /\ s.header_state # "h_content_length"
     /\ Keeps(t, s, {"state", "mark", "header_state", "flags"})
     /\ t.state = "s_header_value" /\ t.header_state = ValueKind(s.header_state, ch)
     /\ t.flags = s.flags \cup (IF s.header_state = "h_upgrade" THEN {"UPGRADE"} ELSE {})
     /\ \A f \in Elements : t.mark[f] = IF f = "header_value" /\ s.mark[f] = NoMark
                                        THEN 0 ELSE s.mark[f]
  \/ /\ s.header_state = "h_content_length" /\ ch \notin Digits
     /\ t = Fail(s, "INVALID_CONTENT_LENGTH")
  \/ /\ s.header_state = "h_content_length" /\ ch \in Digits /\ "CONTENTLENGTH" \in s.flags
     /\ t = Fail(s, "UNEXPECTED_CONTENT_LENGTH")
  \/ /\ s.header_state = "h_content_length" /\ ch \in Digits /\ "CONTENTLENGTH" \notin s.flags
     /\ Keeps(t, s, {"state", "mark", "flags", "content_length", "announced"})
     /\ t.state = "s_header_value" /\ t.flags = s.flags \cup {"CONTENTLENGTH"}
     /\ t.content_length = Value[ch] /\ t.announced = Value[ch]
     /\ \A f \in Elements : t.mark[f] = IF f = "header_value" /\ s.mark[f] = NoMark
                                        THEN 0 ELSE s.mark[f]

\* The first byte of a value, case by case.
LEMMA s_header_value_start_is ==
  ASSUME NEW s \in Parsers, NEW ch
  PROVE  ValueStart(s_header_value_start(s, ch), s, ch)
<1>1. PICK t : t = s_header_value_start(s, ch)
  OBVIOUS
<1>2. PICK g : g = Goto(s, "s_header_value")
  OBVIOUS
<1>3. Moves(g, s, "s_header_value")
  BY <1>2, GotoIs, StatesAre
<1>4. g \in Parsers /\ g.mark = s.mark
  BY <1>3 DEF Moves, Keeps, Fields
<1>5. PICK q : q = Mark(g, "header_value")
  OBVIOUS
<1>6. /\ Keeps(q, g, {"mark"})
      /\ \A f \in Elements : q.mark[f] = IF f = "header_value" /\ s.mark[f] = NoMark
                                         THEN 0 ELSE s.mark[f]
  BY <1>4, <1>5, MarkIs DEF Elements
<1>7. Keeps(q, s, {"state", "mark"}) /\ q.state = "s_header_value"
  BY <1>3, <1>6 DEF Moves, Keeps, Fields
<1>8. q \in Parsers /\ q.flags = s.flags /\ q.header_state = s.header_state
  BY <1>7 DEF Keeps, Fields
<1>9. t = CASE s.header_state = "h_upgrade" -> Flag([q EXCEPT !.header_state = "h_general"], "UPGRADE")
            [] s.header_state = "h_transfer_encoding" ->
                 [q EXCEPT !.header_state =
                    IF ch = "c" THEN "h_matching_transfer_encoding_chunked" ELSE "h_general"]
            [] s.header_state = "h_content_length" ->
                 (IF ch \notin Digits THEN Fail(q, "INVALID_CONTENT_LENGTH")
                  ELSE IF "CONTENTLENGTH" \in s.flags THEN Fail(q, "UNEXPECTED_CONTENT_LENGTH")
                  ELSE Flag([q EXCEPT !.content_length = Value[ch], !.announced = Value[ch]],
                            "CONTENTLENGTH"))
            [] s.header_state = "h_connection" ->
                 [q EXCEPT !.header_state =
                    CASE ch = "k" -> "h_matching_connection_keep_alive"
                      [] ch = "c" -> "h_matching_connection_close"
                      [] ch = "u" -> "h_matching_connection_upgrade"
                      [] OTHER -> "h_matching_connection_token"]
            [] s.header_state = "h_matching_connection_token_start" -> q
            [] OTHER -> [q EXCEPT !.header_state = "h_general"]
  BY <1>1, <1>2, <1>5, Zenon DEF s_header_value_start
<1>10. ASSUME NEW h \in HeaderKinds
       PROVE  /\ Keeps([q EXCEPT !.header_state = h], q, {"header_state"})
              /\ [q EXCEPT !.header_state = h].header_state = h
  BY <1>8 DEF Keeps, Parsers, Fields
<1>11. CASE s.header_state = "h_upgrade"
  <2>1. PICK v : v = [q EXCEPT !.header_state = "h_general"]
    OBVIOUS
  <2>2. Keeps(v, q, {"header_state"}) /\ v.header_state = "h_general"
    BY <1>10, <2>1 DEF HeaderKinds
  <2>3. t = Flag(v, "UPGRADE") /\ v \in Parsers
    BY <1>9, <1>11, <2>1, <2>2 DEF Keeps
  <2>4. Keeps(t, v, {"flags"}) /\ t.flags = v.flags \cup {"UPGRADE"}
    BY <2>3, FlagIs DEF Flags
  <2>5. /\ Keeps(t, s, {"state", "mark", "header_state", "flags"}) /\ t.state = "s_header_value"
        /\ t.header_state = "h_general" /\ t.flags = s.flags \cup {"UPGRADE"} /\ t.mark = q.mark
    BY <1>7, <1>8, <2>2, <2>4 DEF Keeps, Fields
  <2>6. ValueKind(s.header_state, ch) = "h_general"
    BY <1>11 DEF ValueKind
  <2> QED BY <1>1, <1>6, <1>11, <2>5, <2>6 DEF ValueStart
<1>12. CASE s.header_state \notin {"h_upgrade", "h_content_length"}
  <2>1. PICK h : h = ValueKind(s.header_state, ch)
    OBVIOUS
  <2>2. h \in HeaderKinds
    BY <2>1 DEF ValueKind, HeaderKinds
  <2>3. Keeps(t, q, {"header_state"}) /\ t.header_state = h
    <3>1. CASE s.header_state = "h_matching_connection_token_start"
      <4>1. t = q /\ h = s.header_state
        BY <1>9, <2>1, <3>1 DEF ValueKind
      <4> QED BY <1>8, <4>1 DEF Keeps
    <3>2. CASE s.header_state = "h_transfer_encoding"
      <4>1. t = [q EXCEPT !.header_state = h]
        BY <1>9, <2>1, <3>2, Zenon DEF ValueKind
      <4> QED BY <1>10, <2>2, <4>1
    <3>3. CASE s.header_state = "h_connection"
      <4>1. t = [q EXCEPT !.header_state = h]
        BY <1>9, <2>1, <3>3 DEF ValueKind
      <4> QED BY <1>10, <2>2, <4>1
    <3>4. CASE s.header_state \notin {"h_matching_connection_token_start", "h_transfer_encoding",
                                      "h_connection"}
      <4>1. t = [q EXCEPT !.header_state = h]
        BY <1>9, <1>12, <2>1, <3>4 DEF ValueKind
      <4> QED BY <1>10, <2>2, <4>1
    <3> QED BY <3>1, <3>2, <3>3, <3>4
  <2>4. /\ Keeps(t, s, {"state", "mark", "header_state", "flags"}) /\ t.state = "s_header_value"
        /\ t.flags = s.flags /\ t.mark = q.mark
    BY <1>7, <1>8, <2>3 DEF Keeps, Fields
  <2>5. t.flags = s.flags \cup {}
    BY <2>4
  <2> QED BY <1>1, <1>6, <1>12, <2>1, <2>3, <2>4, <2>5 DEF ValueStart
<1>13. CASE s.header_state = "h_content_length"
  <2>1. CASE ch \notin Digits
    BY <1>1, <1>9, <1>13, <2>1 DEF ValueStart, Fail
  <2>2. CASE ch \in Digits /\ "CONTENTLENGTH" \in s.flags
    BY <1>1, <1>9, <1>13, <2>2 DEF ValueStart, Fail
  <2>3. CASE ch \in Digits /\ "CONTENTLENGTH" \notin s.flags
    <3>1. PICK n \in Nat : n = Value[ch]
      BY <2>3, DigitValues
    <3>2. PICK v : v = [q EXCEPT !.content_length = n, !.announced = n]
      OBVIOUS
    <3>3. /\ Keeps(v, q, {"content_length", "announced"}) /\ v.content_length = n
          /\ v.announced = n
      BY <1>8, <3>2 DEF Keeps, Parsers, Fields
    <3>4. t = Flag(v, "CONTENTLENGTH") /\ v \in Parsers
      BY <1>9, <1>13, <2>3, <3>1, <3>2, <3>3 DEF Keeps
    <3>5. Keeps(t, v, {"flags"}) /\ t.flags = v.flags \cup {"CONTENTLENGTH"}
      BY <3>4, FlagIs DEF Flags
    <3>6. /\ Keeps(t, s, {"state", "mark", "flags", "content_length", "announced"})
          /\ t.state = "s_header_value" /\ t.flags = s.flags \cup {"CONTENTLENGTH"}
          /\ t.mark = q.mark /\ t.content_length = n /\ t.announced = n
      BY <1>7, <1>8, <3>3, <3>5 DEF Keeps, Fields
    <3> QED BY <1>1, <1>6, <1>13, <2>3, <3>1, <3>6 DEF ValueStart
  <2> QED BY <2>1, <2>2, <2>3
<1> QED BY <1>11, <1>12, <1>13

\* The first byte of a value.
LEMMA s_header_value_start_steps ==
  ASSUME NEW r, NEW ch, Reading(r, {"header_value"}),
         r.state \in {"s_header_value_discard_ws", "s_header_value_lws"}
  PROVE  Outcome(s_header_value_start(r, ch))
<1>1. r \in Parsers
  BY ReadingHas
<1>2. PICK t : t = s_header_value_start(r, ch)
  OBVIOUS
<1>3. ValueStart(t, r, ch)
  BY <1>1, <1>2, s_header_value_start_is
<1>4. CASE t \in {Fail(r, "INVALID_CONTENT_LENGTH"), Fail(r, "UNEXPECTED_CONTENT_LENGTH")}
  BY <1>2, <1>4, FailIs DEF Outcome, Errors
<1>5. CASE /\ Keeps(t, r, {"state", "mark", "header_state", "flags"})
           /\ t.state = "s_header_value" /\ t.header_state = ValueKind(r.header_state, ch)
           /\ t.flags = r.flags \cup (IF r.header_state = "h_upgrade" THEN {"UPGRADE"} ELSE {})
           /\ \A f \in Elements : t.mark[f] = IF f = "header_value" /\ r.mark[f] = NoMark
                                              THEN 0 ELSE r.mark[f]
  <2>1. t.header_state \notin {"h_connection", "h_content_length", "h_transfer_encoding"}
    BY <1>5 DEF ValueKind
  <2>2. /\ "CONTENTLENGTH" \in t.flags <=> "CONTENTLENGTH" \in r.flags
        /\ "TRAILING" \in t.flags <=> "TRAILING" \in r.flags
    BY <1>5
  <2>3. Settled(t, 1)
    BY <1>1, <1>5, <2>1, <2>2, LimitsAssumption DEF Reading, Settled, Always, MarksInv,
      LengthInv, BodyInv, OrderInv, SizeInv, LocalsInv, Between, Run, Keeps, Moves, Fields,
      Parsers, States, RequestLine, HeaderStates, ChunkStates, ChunkSizeStates, UrlStates,
      Elements, NoMark, None
  <2> QED BY <1>2, <2>3 DEF Outcome
<1>6. CASE /\ ch \in Digits /\ "CONTENTLENGTH" \notin r.flags
           /\ r.header_state = "h_content_length"
           /\ Keeps(t, r, {"state", "mark", "flags", "content_length", "announced"})
           /\ t.state = "s_header_value" /\ t.flags = r.flags \cup {"CONTENTLENGTH"}
           /\ t.content_length = Value[ch] /\ t.announced = Value[ch]
           /\ \A f \in Elements : t.mark[f] = IF f = "header_value" /\ r.mark[f] = NoMark
                                              THEN 0 ELSE r.mark[f]
  <2>1. t.header_state = "h_content_length"
    BY <1>6 DEF Keeps, Fields
  <2>2. t.announced \in 0 .. 2 /\ t.content_length = t.announced
    BY <1>6, DigitValues
  <2>3. /\ "CONTENTLENGTH" \in t.flags
        /\ "TRAILING" \in t.flags <=> "TRAILING" \in r.flags
    BY <1>6
  <2>4. Settled(t, 1)
    BY <1>1, <1>6, <2>1, <2>2, <2>3, LimitsAssumption DEF Reading, Settled, Always, MarksInv,
      LengthInv, BodyInv, OrderInv, SizeInv, LocalsInv, Between, Run, Keeps, Moves, Fields,
      Parsers, States, RequestLine, HeaderStates, ChunkStates, ChunkSizeStates, UrlStates,
      Elements, NoMark, None
  <2> QED BY <1>2, <2>4 DEF Outcome
<1> QED BY <1>3, <1>4, <1>5, <1>6 DEF ValueStart

\* Both parsers do the same.
LEMMA s_header_value_start_matches ==
  ASSUME NEW r, NEW w, NEW ch, Reading(r, {"header_value"}), Reading(w, {"header_value"}),
         Paired(r, w), NEW b
  PROVE  Matched(s_header_value_start(r, ch), s_header_value_start(w, ch), b)
<1>1. /\ r \in Parsers /\ r.http_errno = "OK" /\ r.ahead = "none"
      /\ w \in Parsers /\ w.http_errno = "OK" /\ w.ahead = "none"
      /\ r.header_state = w.header_state /\ r.flags = w.flags
  BY ReadingHas DEF Paired, SameBut
<1>2. PICK t : t = s_header_value_start(r, ch)
  OBVIOUS
<1>3. PICK u : u = s_header_value_start(w, ch)
  OBVIOUS
<1>4. ValueStart(t, r, ch) /\ ValueStart(u, w, ch)
  BY <1>1, <1>2, <1>3, s_header_value_start_is
<1> DEFINE F == {"state", "mark", "header_state", "flags"}
           G == {"state", "mark", "flags", "content_length", "announced"}
<1>5. CASE r.header_state # "h_content_length"
  <2>1. /\ Keeps(t, r, F) /\ Keeps(u, w, F) /\ t.state = u.state
        /\ t.header_state = u.header_state /\ t.flags = u.flags
    BY <1>1, <1>4, <1>5 DEF ValueStart
  <2>2. Matched(t, u, b)
    BY <1>1, <2>1, SameChange
  <2> QED BY <1>2, <1>3, <2>2
<1>6. CASE r.header_state = "h_content_length" /\ (ch \notin Digits \/ "CONTENTLENGTH" \in r.flags)
  <2>1. \/ t = Fail(r, "INVALID_CONTENT_LENGTH") /\ u = Fail(w, "INVALID_CONTENT_LENGTH")
        \/ t = Fail(r, "UNEXPECTED_CONTENT_LENGTH") /\ u = Fail(w, "UNEXPECTED_CONTENT_LENGTH")
    BY <1>1, <1>4, <1>6 DEF ValueStart
  <2> QED BY <1>2, <1>3, <2>1, FailIs, BothFail DEF Errors
<1>7. CASE r.header_state = "h_content_length" /\ ch \in Digits /\ "CONTENTLENGTH" \notin r.flags
  <2>1. /\ Keeps(t, r, G) /\ Keeps(u, w, G) /\ t.state = u.state /\ t.flags = u.flags
        /\ t.content_length = u.content_length /\ t.announced = u.announced
    BY <1>1, <1>4, <1>7 DEF ValueStart
  <2>2. Matched(t, u, b)
    BY <1>1, <2>1, SameChange
  <2> QED BY <1>2, <1>3, <2>2
<1> QED BY <1>5, <1>6, <1>7

\* White space before a value, and its end.
LEMMA s_header_value_discard_ws_steps ==
  ASSUME NEW r, NEW ch, Reading(r, Parts(r, ch)), r.state = "s_header_value_discard_ws"
  PROVE  Outcome(s_header_value_discard_ws(r, ch))
<1>1. r \in Parsers
  BY ReadingHas
<1>2. PICK t : t = s_header_value_discard_ws(r, ch)
  OBVIOUS
<1>3. CASE ch \in {"SP", "CR", "LF"}
  <2>1. Parts(r, ch) = {}
    BY <1>3 DEF Parts, UrlStates, Token, Letters, Digits, Value
  <2>2. \/ t = r
        \/ Moves(t, r, "s_header_value_discard_ws_almost_done")
        \/ Moves(t, r, "s_header_value_discard_lws")
    BY <1>1, <1>2, <1>3, GotoIs, StatesAre DEF s_header_value_discard_ws
  <2>3. Settled(t, 1)
    BY <2>1, <2>2, LimitsAssumption DEF Reading, Settled, Always, MarksInv, LengthInv, BodyInv,
      OrderInv, SizeInv, LocalsInv, Between, Run, Keeps, Moves, Fields, Parsers, States,
      RequestLine, HeaderStates, ChunkStates, ChunkSizeStates, UrlStates, Elements, NoMark, None
  <2> QED BY <1>2, <2>3 DEF Outcome
<1>4. CASE ch \notin {"SP", "CR", "LF"}
  <2>1. Parts(r, ch) = {"header_value"}
    BY <1>4 DEF Parts, UrlStates
  <2>2. t = s_header_value_start(r, ch)
    BY <1>2, <1>4 DEF s_header_value_discard_ws
  <2> QED BY <1>2, <2>1, <2>2, s_header_value_start_steps
<1> QED BY <1>3, <1>4

\* Both parsers do the same.
LEMMA s_header_value_discard_ws_matches ==
  ASSUME NEW r, NEW w, NEW ch, Reading(r, Parts(r, ch)), Reading(w, Parts(w, ch)), Paired(r, w),
         r.state = "s_header_value_discard_ws", NEW b
  PROVE  Matched(s_header_value_discard_ws(r, ch), s_header_value_discard_ws(w, ch), b)
<1>1. /\ r \in Parsers /\ r.http_errno = "OK" /\ r.ahead = "none"
      /\ w \in Parsers /\ w.http_errno = "OK" /\ w.ahead = "none"
      /\ w.state = "s_header_value_discard_ws"
  BY ReadingHas DEF Paired, SameBut
<1>2. PICK t : t = s_header_value_discard_ws(r, ch)
  OBVIOUS
<1>3. PICK u : u = s_header_value_discard_ws(w, ch)
  OBVIOUS
<1>4. CASE ch = "SP"
  <2>1. t = r /\ u = w
    BY <1>2, <1>3, <1>4 DEF s_header_value_discard_ws
  <2> QED BY <1>1, <1>2, <1>3, <2>1 DEF Matched, Failed, Related, Paired
<1>5. CASE ch \in {"CR", "LF"}
  <2>1. Keeps(t, r, {"state"}) /\ Keeps(u, w, {"state"}) /\ t.state = u.state
    BY <1>1, <1>2, <1>3, <1>5, GotoIs, StatesAre DEF s_header_value_discard_ws, Moves
  <2>2. Matched(t, u, b)
    BY <1>1, <2>1, SameChange
  <2> QED BY <1>2, <1>3, <2>2
<1>6. CASE ch \notin {"SP", "CR", "LF"}
  <2>1. Parts(r, ch) = {"header_value"} /\ Parts(w, ch) = {"header_value"}
    BY <1>1, <1>6 DEF Parts, UrlStates
  <2>2. t = s_header_value_start(r, ch) /\ u = s_header_value_start(w, ch)
    BY <1>2, <1>3, <1>6 DEF s_header_value_discard_ws
  <2> QED BY <1>2, <1>3, <2>1, <2>2, s_header_value_start_matches
<1> QED BY <1>4, <1>5, <1>6

\* Another digit of Content-Length, and a number that would not fit.
TooLong(s, ch) == ch \notin Digits \/ (UllMax - 10) \div 10 < s.content_length

\* What s_header_value does.
ValueStep(t, s, ch) ==
  LET over == s.nread + Run(s) > MaxHeader
      plain == ch \notin {"CR", "LF"} /\ ~s.skipped /\ ch \in HeaderChar
      length == plain /\ s.header_state = "h_content_length"
  IN  \/ ch \in {"CR", "LF"} /\ over /\ t = Fail(s, "HEADER_OVERFLOW")
      \/ /\ ch \in {"CR", "LF"} /\ ~over
         /\ Keeps(t, s, {"state", "nread", "run", "skipped", "mark", "due"})
         /\ t.state = IF ch = "CR" THEN "s_header_almost_done" ELSE "s_header_value_lws"
         /\ t.nread = s.nread + Run(s) /\ t.run = None /\ t.skipped = FALSE
         /\ \A f \in Elements : t.mark[f] = IF f = "header_value" THEN NoMark ELSE s.mark[f]
         /\ \A f \in Elements : t.due[f] = IF f = "header_value" /\ s.mark[f] # NoMark
                                           THEN s.due[f] - s.mark[f] ELSE s.due[f]
      \/ /\ ch \notin {"CR", "LF"} /\ s.skipped
         /\ Keeps(t, s, {"run"}) /\ t.run = Run(s) + 1
      \/ /\ ch \notin {"CR", "LF"} /\ ~s.skipped /\ ch \notin HeaderChar
         /\ t = Fail(s, "INVALID_HEADER_TOKEN")
      \/ /\ plain /\ s.header_state = "h_general"
         /\ Keeps(t, s, {"run", "skipped"}) /\ t.run = Run(s) + 1 /\ t.skipped = TRUE
      \/ /\ length /\ ch = "SP"
         /\ Keeps(t, s, {"run"}) /\ t.run = Run(s) + 1
      \/ /\ length /\ ch # "SP" /\ TooLong(s, ch)
         /\ t = Fail(s, "INVALID_CONTENT_LENGTH")
      \/ /\ length /\ ch # "SP" /\ ~TooLong(s, ch)
         /\ Keeps(t, s, {"run", "content_length", "announced"}) /\ t.run = Run(s) + 1
         /\ t.content_length = s.content_length * 10 + Value[ch]
         /\ t.announced = s.announced * 10 + Value[ch]
         /\ t.content_length < UllMax
      \/ /\ plain /\ s.header_state \notin {"h_general", "h_content_length"}
         /\ Keeps(t, s, {"run", "header_state", "flags"}) /\ t.run = Run(s) + 1
         /\ t.header_state = NextValueState(s.header_state, ch)
         /\ t.flags = IF ch = "," /\ s.header_state # "h_transfer_encoding_chunked"
                      THEN s.flags \cup ValueFlag(s.header_state) ELSE s.flags

\* The end of a value: it is handed over, and the inner loop is counted.
LEMMA ValueEndIs ==
  ASSUME NEW s \in Parsers, s.http_errno = "OK",
         s.called = IF "TRAILING" \in s.flags THEN "headers" ELSE "begin",
         NEW ch \in {"CR", "LF"}
  PROVE  ValueStep(s_header_value(s, ch), s, ch)
<1>1. PICK t : t = s_header_value(s, ch)
  OBVIOUS
<1>2. PICK x : x = [s EXCEPT !.run = Run(s), !.state = "s_header_almost_done"]
  OBVIOUS
<1>3. Run(s) \in Nat
  BY DEF Run, Parsers
<1>4. Keeps(x, s, {"run", "state"}) /\ x.run = Run(s) /\ x.state = "s_header_almost_done"
  BY <1>2, <1>3, StatesAre DEF Keeps, Parsers, Fields
<1>5. /\ x \in Parsers /\ x.http_errno = "OK" /\ x.called = s.called /\ x.flags = s.flags
      /\ x.mark = s.mark /\ x.due = s.due /\ x.nread = s.nread /\ x.run # None
  BY <1>3, <1>4 DEF Keeps, Fields, None
<1>6. CASE ch = "CR"
  <2>1. PICK v : v = CALLBACK_DATA(x, "header_value")
    OBVIOUS
  <2>2. t = EndRun(v)
    BY <1>1, <1>2, <1>6, <2>1 DEF s_header_value, Run
  <2>3. /\ Keeps(v, x, {"mark", "due", "expect"}) /\ v.expect = x.expect
        /\ \A f \in Elements : v.mark[f] = IF f = "header_value" THEN NoMark ELSE x.mark[f]
        /\ \A f \in Elements : v.due[f] = IF f = "header_value" /\ x.mark["header_value"] # NoMark
                                          THEN x.due[f] - x.mark[f] ELSE x.due[f]
    BY <1>5, <2>1, CallbackIs DEF Elements
  <2>4. /\ v \in Parsers /\ v.nread = s.nread /\ v.run = Run(s) /\ v.run # None
    BY <1>4, <1>5, <2>3 DEF Keeps, Fields
  <2>5. CASE s.nread + Run(s) > MaxHeader
    <3>1. t = Fail(v, "HEADER_OVERFLOW")
      BY <2>2, <2>4, <2>5, EndRunIs
    <3> QED BY <1>1, <1>6, <2>5, <3>1 DEF ValueStep, Fail
  <2>6. CASE ~(s.nread + Run(s) > MaxHeader)
    <3>1. /\ Keeps(t, v, {"nread", "run", "skipped"})
          /\ t.nread = s.nread + Run(s) /\ t.run = None /\ ~t.skipped
      BY <2>2, <2>4, <2>6, EndRunIs
    <3>2. t.skipped = FALSE
      BY <3>1 DEF Keeps, Parsers
    <3>3. /\ Keeps(t, s, {"state", "nread", "run", "skipped", "mark", "due"})
          /\ t.state = "s_header_almost_done" /\ t.mark = v.mark /\ t.due = v.due
      BY <1>4, <2>3, <3>1 DEF Keeps, Fields
    <3> QED BY <1>1, <1>5, <1>6, <2>3, <2>6, <3>1, <3>2, <3>3 DEF ValueStep
  <2> QED BY <2>5, <2>6
<1>7. CASE ch = "LF"
  <2>1. PICK y : y = EndRun(x)
    OBVIOUS
  <2>2. t = IF Failed(y) THEN y
            ELSE s_header_almost_done(CALLBACK_DATA(y, "header_value"), ch)
    BY <1>1, <1>2, <1>7, <2>1 DEF s_header_value, Run
  <2>3. CASE s.nread + Run(s) > MaxHeader
    <3>1. y = Fail(x, "HEADER_OVERFLOW")
      BY <1>4, <1>5, <2>1, <2>3, EndRunIs
    <3>2. t = Fail(x, "HEADER_OVERFLOW")
      BY <2>2, <3>1, FailIs DEF Failed, Errors
    <3> QED BY <1>1, <1>7, <2>3, <3>2 DEF ValueStep, Fail
  <2>4. CASE ~(s.nread + Run(s) > MaxHeader)
    <3>1. /\ Keeps(y, x, {"nread", "run", "skipped"})
          /\ y.nread = s.nread + Run(s) /\ y.run = None /\ ~y.skipped
      BY <1>4, <1>5, <2>1, <2>4, EndRunIs
    <3>2. /\ y \in Parsers /\ y.http_errno = "OK" /\ y.called = s.called /\ y.flags = s.flags
          /\ y.mark = s.mark /\ y.due = s.due
      BY <1>5, <3>1 DEF Keeps, Fields
    <3>3. PICK v : v = CALLBACK_DATA(y, "header_value")
      OBVIOUS
    <3>4. /\ Keeps(v, y, {"mark", "due", "expect"}) /\ v.expect = y.expect
          /\ \A f \in Elements : v.mark[f] = IF f = "header_value" THEN NoMark ELSE y.mark[f]
          /\ \A f \in Elements : v.due[f] = IF f = "header_value" /\ y.mark["header_value"] # NoMark
                                            THEN y.due[f] - y.mark[f] ELSE y.due[f]
      BY <3>2, <3>3, CallbackIs DEF Elements
    <3>5. t = Goto(v, "s_header_value_lws") /\ v \in Parsers
      BY <1>7, <2>2, <3>2, <3>3, <3>4 DEF Failed, s_header_almost_done, Keeps
    <3>6. Moves(t, v, "s_header_value_lws")
      BY <3>5, GotoIs, StatesAre
    <3>7. y.skipped = FALSE
      BY <3>1 DEF Keeps, Parsers
    <3>8. /\ Keeps(t, s, {"state", "nread", "run", "skipped", "mark", "due"})
          /\ t.state = "s_header_value_lws" /\ t.mark = v.mark /\ t.due = v.due
          /\ t.nread = s.nread + Run(s) /\ t.run = None /\ t.skipped = FALSE
      BY <1>4, <3>1, <3>4, <3>6, <3>7 DEF Moves, Keeps, Fields
    <3> QED BY <1>1, <1>5, <1>7, <2>4, <3>2, <3>4, <3>8 DEF ValueStep
  <2> QED BY <2>3, <2>4
<1> QED BY <1>6, <1>7

\* The inner loop over a value, case by case.
LEMMA s_header_value_is ==
  ASSUME NEW s \in Parsers, s.http_errno = "OK",
         s.called = IF "TRAILING" \in s.flags THEN "headers" ELSE "begin", NEW ch
  PROVE  ValueStep(s_header_value(s, ch), s, ch)
<1>1. PICK t : t = s_header_value(s, ch)
  OBVIOUS
<1>2. CASE ch \in {"CR", "LF"}
  BY <1>2, ValueEndIs
<1>3. CASE ch \notin {"CR", "LF"}
  <2>1. PICK x : x = [s EXCEPT !.run = Run(s) + 1]
    OBVIOUS
  <2>2. Run(s) + 1 \in Nat
    BY DEF Run, Parsers
  <2>3. Keeps(x, s, {"run"}) /\ x.run = Run(s) + 1
    BY <2>1, <2>2 DEF Keeps, Parsers, Fields
  <2>4. /\ x \in Parsers /\ x.content_length = s.content_length /\ x.announced = s.announced
        /\ x.flags = s.flags
    BY <2>3 DEF Keeps, Fields
  <2>5. t = IF s.skipped THEN x
            ELSE IF ch \notin HeaderChar THEN Fail(s, "INVALID_HEADER_TOKEN")
            ELSE IF s.header_state = "h_general" THEN [x EXCEPT !.skipped = TRUE]
            ELSE IF s.header_state = "h_content_length" THEN ContentLength(x, ch)
            ELSE [x EXCEPT !.header_state = NextValueState(s.header_state, ch),
                           !.flags = IF ch = "," /\ s.header_state # "h_transfer_encoding_chunked"
                                     THEN @ \cup ValueFlag(s.header_state) ELSE @]
    BY <1>1, <1>3, <2>1, Zenon DEF s_header_value, Run
  <2>6. CASE s.skipped
    BY <1>1, <1>3, <2>3, <2>5, <2>6 DEF ValueStep
  <2>7. CASE ~s.skipped /\ ch \notin HeaderChar
    BY <1>1, <1>3, <2>5, <2>7 DEF ValueStep
  <2>8. CASE ~s.skipped /\ ch \in HeaderChar /\ s.header_state = "h_general"
    <3>1. t = [x EXCEPT !.skipped = TRUE]
      BY <2>5, <2>8
    <3>2. Keeps(t, x, {"skipped"}) /\ t.skipped = TRUE
      BY <2>4, <3>1 DEF Keeps, Parsers, Fields
    <3>3. Keeps(t, s, {"run", "skipped"}) /\ t.run = Run(s) + 1
      BY <2>3, <3>2 DEF Keeps, Fields
    <3> QED BY <1>1, <1>3, <2>8, <3>2, <3>3 DEF ValueStep
  <2>9. CASE ~s.skipped /\ ch \in HeaderChar /\ s.header_state = "h_content_length"
    <3>1. t = ContentLength(x, ch)
      BY <2>5, <2>9
    <3>2. CASE ch = "SP"
      <4>1. t = x
        BY <3>1, <3>2 DEF ContentLength
      <4> QED BY <1>1, <1>3, <2>3, <2>9, <3>2, <4>1 DEF ValueStep
    <3>3. CASE ch # "SP" /\ TooLong(s, ch)
      <4>1. t = Fail(s, "INVALID_CONTENT_LENGTH")
        BY <2>4, <3>1, <3>3 DEF ContentLength, TooLong, Fail
      <4> QED BY <1>1, <1>3, <2>9, <3>3, <4>1 DEF ValueStep
    <3>4. CASE ch # "SP" /\ ~TooLong(s, ch)
      <4>1. ch \in Digits /\ ~((UllMax - 10) \div 10 < s.content_length)
        BY <3>4 DEF TooLong
      <4>2. PICK d \in 0 .. 14 : d = Value[ch] /\ d < 10
        BY <4>1, DigitValues
      <4>3. PICK n \in Nat : n = s.content_length
        BY DEF Parsers
      <4>4. (n * 10 + d) % (UllMax + 1) = n * 10 + d /\ n * 10 + d < UllMax
        BY <4>1, <4>2, <4>3, DigitsFit
      <4>5. PICK m \in Nat : m = n * 10 + d
        BY <4>2, <4>3
      <4>6. PICK k \in Nat : k = s.announced * 10 + d
        BY <4>2 DEF Parsers
      <4>7. t = [x EXCEPT !.content_length = m, !.announced = k]
        <5>1. t = [x EXCEPT !.content_length = (x.content_length * 10 + Value[ch]) % (UllMax + 1),
                            !.announced = x.announced * 10 + Value[ch]]
          BY <2>4, <3>1, <3>4, <4>1 DEF ContentLength, Parsers
        <5>2. (x.content_length * 10 + Value[ch]) % (UllMax + 1) = m
          BY <2>4, <4>2, <4>3, <4>4, <4>5
        <5>3. x.announced * 10 + Value[ch] = k
          BY <2>4, <4>2, <4>6
        <5> QED BY <5>1, <5>2, <5>3
      <4>8. /\ Keeps(t, x, {"content_length", "announced"}) /\ t.content_length = m
            /\ t.announced = k
        BY <2>4, <4>7 DEF Keeps, Parsers, Fields
      <4>9. Keeps(t, s, {"run", "content_length", "announced"}) /\ t.run = Run(s) + 1
        BY <2>3, <4>8 DEF Keeps, Fields
      <4>10. /\ t.content_length = s.content_length * 10 + Value[ch]
             /\ t.announced = s.announced * 10 + Value[ch]
             /\ t.content_length < UllMax
        BY <4>2, <4>3, <4>4, <4>5, <4>6, <4>8
      <4> QED BY <1>1, <1>3, <2>9, <3>4, <4>9, <4>10 DEF ValueStep
    <3> QED BY <3>2, <3>3, <3>4
  <2>10. CASE ~s.skipped /\ ch \in HeaderChar
              /\ s.header_state \notin {"h_general", "h_content_length"}
    <3> DEFINE F == IF ch = "," /\ s.header_state # "h_transfer_encoding_chunked"
                    THEN s.flags \cup ValueFlag(s.header_state) ELSE s.flags
    <3>1. PICK h \in HeaderKinds : h = NextValueState(s.header_state, ch)
      BY KindRanges DEF Parsers
    <3>2. F \in SUBSET Flags
      BY KindRanges DEF Parsers, Flags
    <3>3. t = [x EXCEPT !.header_state = h, !.flags = F]
      BY <2>4, <2>5, <2>10, <3>1 DEF Parsers
    <3> HIDE DEF F
    <3>4. Keeps(t, x, {"header_state", "flags"}) /\ t.header_state = h /\ t.flags = F
      BY <2>4, <3>2, <3>3 DEF Keeps, Parsers, Fields
    <3>5. Keeps(t, s, {"run", "header_state", "flags"}) /\ t.run = Run(s) + 1
      BY <2>3, <3>4 DEF Keeps, Fields
    <3> QED BY <1>1, <1>3, <2>10, <3>1, <3>4, <3>5 DEF ValueStep, F
  <2> QED BY <2>6, <2>7, <2>8, <2>9, <2>10
<1> QED BY <1>2, <1>3

\* The bytes of a value, and the end of its line.
LEMMA s_header_value_steps ==
  ASSUME NEW r, NEW ch, Reading(r, Parts(r, ch)), r.state = "s_header_value"
  PROVE  Outcome(s_header_value(r, ch))
<1>1. /\ r \in Parsers /\ r.http_errno = "OK"
      /\ r.called = IF "TRAILING" \in r.flags THEN "headers" ELSE "begin"
  BY DEF Reading, Always, OrderInv, HeaderStates, RequestLine, UrlStates
<1>2. PICK t : t = s_header_value(r, ch)
  OBVIOUS
<1>3. ValueStep(t, r, ch)
  BY <1>1, <1>2, s_header_value_is
<1>4. CASE t \in {Fail(r, "HEADER_OVERFLOW"), Fail(r, "INVALID_HEADER_TOKEN"),
                  Fail(r, "INVALID_CONTENT_LENGTH")}
  BY <1>2, <1>4, FailIs DEF Outcome, Errors
<1>5. CASE /\ ch \in {"CR", "LF"} /\ ~(r.nread + Run(r) > MaxHeader)
           /\ Keeps(t, r, {"state", "nread", "run", "skipped", "mark", "due"})
           /\ t.state = IF ch = "CR" THEN "s_header_almost_done" ELSE "s_header_value_lws"
           /\ t.nread = r.nread + Run(r) /\ t.run = None /\ t.skipped = FALSE
           /\ \A f \in Elements : t.mark[f] = IF f = "header_value" THEN NoMark ELSE r.mark[f]
           /\ \A f \in Elements : t.due[f] = IF f = "header_value" /\ r.mark[f] # NoMark
                                             THEN r.due[f] - r.mark[f] ELSE r.due[f]
  <2>1. Parts(r, ch) = {}
    BY <1>5 DEF Parts, UrlStates, Token, Letters, Digits, Value
  <2>2. SizeInv(t) /\ LocalsInv(t)
    BY <1>1, <1>5, LimitsAssumption DEF Reading, Always, SizeInv, LocalsInv, Run, Keeps, Fields,
       Parsers, None
  <2>3. /\ MarksInv(t)
        /\ \A e \in Elements : t.due[e] = Between(t, e, 1) + (IF e \in {} THEN 1 ELSE 0)
    BY <1>1, <1>5, <2>1 DEF Reading, Always, MarksInv, Between, UrlStates, Keeps, Fields, Parsers,
       Elements, NoMark
  <2>4. LengthInv(t) /\ BodyInv(t, 1) /\ OrderInv(t)
    BY <1>1, <1>5 DEF Reading, Always, LengthInv, BodyInv, OrderInv, Keeps, Fields, Parsers,
      States, RequestLine, HeaderStates, ChunkStates, ChunkSizeStates, UrlStates, Elements,
      NoMark, None
  <2>5. Settled(t, 1)
    BY <1>1, <1>5, <2>2, <2>3, <2>4 DEF Settled, Always, Keeps, Fields
  <2> QED BY <1>2, <2>5 DEF Outcome
<1>6. ASSUME ch \notin {"CR", "LF"}
      PROVE  Parts(r, ch) = {"header_value"}
  BY <1>6 DEF Parts, UrlStates
<1>7. CASE /\ ch \notin {"CR", "LF"}
           /\ Keeps(t, r, {"run"}) /\ t.run = Run(r) + 1
  <2>1. Settled(t, 1)
    BY <1>1, <1>6, <1>7, LimitsAssumption DEF Reading, Settled, Always, MarksInv, LengthInv,
      BodyInv, OrderInv, SizeInv, LocalsInv, Between, Run, Keeps, Moves, Fields, Parsers, States,
      RequestLine, HeaderStates, ChunkStates, ChunkSizeStates, UrlStates, Elements, NoMark, None
  <2> QED BY <1>2, <2>1 DEF Outcome
<1>8. CASE /\ ch \notin {"CR", "LF"} /\ r.header_state = "h_general"
           /\ Keeps(t, r, {"run", "skipped"}) /\ t.run = Run(r) + 1 /\ t.skipped = TRUE
  <2>1. Settled(t, 1)
    BY <1>1, <1>6, <1>8, LimitsAssumption DEF Reading, Settled, Always, MarksInv, LengthInv,
      BodyInv, OrderInv, SizeInv, LocalsInv, Between, Run, Keeps, Moves, Fields, Parsers, States,
      RequestLine, HeaderStates, ChunkStates, ChunkSizeStates, UrlStates, Elements, NoMark, None
  <2> QED BY <1>2, <2>1 DEF Outcome
<1>9. CASE /\ ch \notin {"CR", "LF"} /\ r.header_state = "h_content_length"
           /\ Keeps(t, r, {"run", "content_length", "announced"}) /\ t.run = Run(r) + 1
           /\ t.content_length = r.content_length * 10 + Value[ch]
           /\ t.announced = r.announced * 10 + Value[ch]
           /\ t.content_length < UllMax
  <2>1. "CONTENTLENGTH" \in r.flags /\ r.content_length = r.announced
    BY <1>9 DEF Reading, Always, LengthInv, HeaderStates
  <2>2. t.content_length = t.announced /\ t.announced < UllMax
    BY <1>9, <2>1
  <2>3. SizeInv(t) /\ LocalsInv(t)
    BY <1>1, <1>9, LimitsAssumption DEF Reading, Always, SizeInv, LocalsInv, Run, Keeps, Fields,
       Parsers, None
  <2>4. /\ MarksInv(t)
        /\ \A e \in Elements : t.due[e] = Between(t, e, 1) + (IF e \in {} THEN 1 ELSE 0)
    BY <1>1, <1>6, <1>9 DEF Reading, Always, MarksInv, Between, UrlStates, Keeps, Fields, Parsers,
       Elements, NoMark
  <2>5. LengthInv(t) /\ BodyInv(t, 1) /\ OrderInv(t)
    <3>1. /\ t.state = r.state /\ t.flags = r.flags /\ t.called = r.called
          /\ t.expect = r.expect /\ t.header_state = r.header_state
      BY <1>9 DEF Keeps, Fields
    <3> QED BY <1>1, <2>1, <2>2, <3>1 DEF Reading, Always, LengthInv, BodyInv, OrderInv, Fields,
      Parsers, States, RequestLine, HeaderStates, ChunkStates, ChunkSizeStates, UrlStates,
      Elements, NoMark, None
  <2>6. Settled(t, 1)
    BY <1>1, <1>9, <2>3, <2>4, <2>5 DEF Settled, Always, Keeps, Fields
  <2> QED BY <1>2, <2>6 DEF Outcome
<1>10. CASE /\ ch \notin {"CR", "LF"} /\ ~r.skipped
            /\ Keeps(t, r, {"run", "header_state", "flags"}) /\ t.run = Run(r) + 1
            /\ t.header_state = NextValueState(r.header_state, ch)
            /\ t.flags = IF ch = "," /\ r.header_state # "h_transfer_encoding_chunked"
                         THEN r.flags \cup ValueFlag(r.header_state) ELSE r.flags
  <2>1. r.header_state \in HeaderKinds
    BY <1>1 DEF Parsers
  <2>2. /\ "CONTENTLENGTH" \in t.flags <=> "CONTENTLENGTH" \in r.flags
        /\ "TRAILING" \in t.flags <=> "TRAILING" \in r.flags
    <3>1. PICK F : F = ValueFlag(r.header_state)
      OBVIOUS
    <3>2. {"CONTENTLENGTH", "TRAILING"} \cap F = {}
      BY <2>1, <3>1, KindRanges
    <3>3. t.flags = r.flags \cup F \/ t.flags = r.flags
      BY <1>10, <3>1
    <3> QED BY <3>2, <3>3
  <2>3. t.header_state \notin {"h_connection", "h_content_length", "h_transfer_encoding"}
    BY <1>10, <2>1, KindRanges
  <2>4. Keeps(t, r, {"run", "header_state", "flags"}) /\ t.run = Run(r) + 1 /\ ~r.skipped
    BY <1>10
  <2>5. Parts(r, ch) = {"header_value"}
    BY <1>6, <1>10
  <2>6. SizeInv(t) /\ LocalsInv(t)
    BY <1>1, <2>4, LimitsAssumption DEF Reading, Always, SizeInv, LocalsInv, Run, Keeps, Fields,
       Parsers, None
  <2>7. /\ MarksInv(t)
        /\ \A e \in Elements : t.due[e] = Between(t, e, 1) + (IF e \in {} THEN 1 ELSE 0)
    BY <1>1, <2>4, <2>5 DEF Reading, Always, MarksInv, Between, UrlStates, Keeps, Fields, Parsers,
       Elements, NoMark
  <2>8. LengthInv(t) /\ BodyInv(t, 1) /\ OrderInv(t)
    BY <1>1, <2>2, <2>3, <2>4 DEF Reading, Always, LengthInv, BodyInv, OrderInv, Keeps, Fields,
      Parsers, States, RequestLine, HeaderStates, ChunkStates, ChunkSizeStates, UrlStates,
      Elements, NoMark, None
  <2>9. Settled(t, 1)
    BY <1>1, <2>4, <2>6, <2>7, <2>8 DEF Settled, Always, Keeps, Fields
  <2> QED BY <1>2, <2>9 DEF Outcome
<1> QED BY <1>3, <1>4, <1>5, <1>7, <1>8, <1>9, <1>10 DEF ValueStep

\* The parser that was cut more often may find the header too large first, and
\* may look at a byte of a general value that the other one skips.
LEMMA s_header_value_matches ==
  ASSUME NEW r, NEW w, NEW ch, Reading(r, Parts(r, ch)), Reading(w, Parts(w, ch)), Paired(r, w),
         r.state = "s_header_value", NEW b
  PROVE  Matched(s_header_value(r, ch), s_header_value(w, ch), b)
<1>1. /\ r \in Parsers /\ r.http_errno = "OK" /\ r.ahead = "none"
      /\ w \in Parsers /\ w.http_errno = "OK" /\ w.ahead = "none"
      /\ w.state = "s_header_value" /\ r.header_state = w.header_state
      /\ r.content_length = w.content_length /\ r.announced = w.announced
      /\ r.flags = w.flags
  BY ReadingHas DEF Paired, SameBut
<1>2. /\ r.called = IF "TRAILING" \in r.flags THEN "headers" ELSE "begin"
      /\ w.called = IF "TRAILING" \in w.flags THEN "headers" ELSE "begin"
  BY <1>1 DEF Reading, Always, OrderInv, HeaderStates, RequestLine, UrlStates
<1>3. PICK t : t = s_header_value(r, ch)
  OBVIOUS
<1>4. PICK u : u = s_header_value(w, ch)
  OBVIOUS
<1>5. ValueStep(t, r, ch) /\ ValueStep(u, w, ch)
  BY <1>1, <1>2, <1>3, <1>4, s_header_value_is
<1>6. /\ r.skipped => w.skipped
      /\ w.skipped => w.header_state = "h_general"
      /\ r.nread + Run(r) >= w.nread + Run(w)
      /\ Run(r) \in Nat /\ Run(w) \in Nat /\ r.nread \in Nat /\ w.nread \in Nat
  BY <1>1 DEF Reading, Paired, CountsMore, Run, Parsers
<1>7. TooLong(r, ch) <=> TooLong(w, ch)
  BY <1>1 DEF TooLong
<1>8. CASE ch \in {"CR", "LF"} /\ r.nread + Run(r) > MaxHeader
  <2>1. t = Fail(r, "HEADER_OVERFLOW")
    BY <1>5, <1>8 DEF ValueStep
  <2> QED BY <1>3, <1>4, <2>1, FailIs DEF Matched, Failed, Errors
<1>9. CASE ch \in {"CR", "LF"} /\ ~(r.nread + Run(r) > MaxHeader)
  <2>1. ~(w.nread + Run(w) > MaxHeader)
    BY <1>6, <1>9, LimitsAssumption
  <2> DEFINE F == {"state", "nread", "run", "skipped", "mark", "due"}
  <2>2. /\ Keeps(t, r, F) /\ Keeps(u, w, F) /\ t.state = u.state
        /\ t.nread = r.nread + Run(r) /\ t.run = None /\ t.skipped = FALSE
        /\ u.nread = w.nread + Run(w) /\ u.run = None /\ u.skipped = FALSE
    BY <1>5, <1>9, <2>1 DEF ValueStep
  <2>3. Related(t, u, FALSE) /\ t.http_errno = "OK" /\ u.http_errno = "OK"
    BY <1>1, <1>6, <2>2 DEF Related, Paired, SameBut, CountsMore, Run, Keeps, Fields
  <2> QED BY <1>3, <1>4, <2>3 DEF Matched, Failed
<1>10. CASE ch \notin {"CR", "LF"} /\ ~r.skipped /\ ch \notin HeaderChar
  <2>1. t = Fail(r, "INVALID_HEADER_TOKEN")
    BY <1>5, <1>10 DEF ValueStep
  <2> QED BY <1>3, <1>4, <2>1, FailIs DEF Matched, Failed, Errors
<1>11. CASE ch \notin {"CR", "LF"} /\ (r.skipped \/ ch \in HeaderChar)
            /\ r.header_state = "h_general"
  <2> DEFINE F == {"run", "skipped"}
  <2>1. /\ Keeps(t, r, F) /\ t.run = Run(r) + 1 /\ t.skipped = TRUE
    <3>1. CASE r.skipped
      <4>1. Keeps(t, r, {"run"}) /\ t.run = Run(r) + 1
        BY <1>5, <1>11, <3>1 DEF ValueStep
      <4> QED BY <1>1, <3>1, <4>1 DEF Keeps, Fields, Parsers
    <3>2. CASE ~r.skipped
      BY <1>5, <1>11, <3>2 DEF ValueStep
    <3> QED BY <3>1, <3>2
  <2>2. /\ Keeps(u, w, F) /\ u.run = Run(w) + 1 /\ u.skipped = TRUE
    <3>1. CASE w.skipped
      <4>1. Keeps(u, w, {"run"}) /\ u.run = Run(w) + 1
        BY <1>5, <1>11, <3>1 DEF ValueStep
      <4> QED BY <1>1, <3>1, <4>1 DEF Keeps, Fields, Parsers
    <3>2. CASE ~w.skipped
      <4>1. ~r.skipped /\ ch \in HeaderChar /\ w.header_state = "h_general"
        BY <1>1, <1>6, <1>11, <3>2
      <4> QED BY <1>5, <1>11, <3>2, <4>1 DEF ValueStep
    <3> QED BY <3>1, <3>2
  <2>3. Related(t, u, FALSE) /\ t.http_errno = "OK" /\ u.http_errno = "OK"
    BY <1>1, <1>6, <2>1, <2>2 DEF Related, Paired, SameBut, CountsMore, Run, None, Keeps, Fields
  <2> QED BY <1>3, <1>4, <2>3 DEF Matched, Failed
<1>12. CASE ch \notin {"CR", "LF"} /\ (r.skipped \/ ch \in HeaderChar)
            /\ r.header_state # "h_general"
  <2>1. ~r.skipped /\ ~w.skipped /\ ch \in HeaderChar
    BY <1>1, <1>6, <1>12
  <2>2. CASE r.header_state = "h_content_length" /\ ch # "SP" /\ TooLong(r, ch)
    <3>1. t = Fail(r, "INVALID_CONTENT_LENGTH") /\ u = Fail(w, "INVALID_CONTENT_LENGTH")
      BY <1>1, <1>5, <1>7, <1>12, <2>1, <2>2 DEF ValueStep
    <3> QED BY <1>3, <1>4, <3>1, FailIs, BothFail DEF Errors
  <2>3. CASE ~(r.header_state = "h_content_length" /\ ch # "SP" /\ TooLong(r, ch))
    <3> DEFINE F == {"run", "header_state", "flags", "content_length", "announced"}
    <3>1. /\ Keeps(t, r, F) /\ Keeps(u, w, F)
          /\ t.run = Run(r) + 1 /\ u.run = Run(w) + 1 /\ t.header_state = u.header_state
          /\ t.flags = u.flags /\ t.content_length = u.content_length
          /\ t.announced = u.announced
      <4>1. CASE r.header_state = "h_content_length" /\ ch = "SP"
        <5>1. /\ Keeps(t, r, {"run"}) /\ Keeps(u, w, {"run"})
              /\ t.run = Run(r) + 1 /\ u.run = Run(w) + 1
          BY <1>1, <1>5, <1>12, <2>1, <4>1 DEF ValueStep
        <5> QED BY <1>1, <5>1 DEF Keeps, Fields
      <4>2. CASE r.header_state = "h_content_length" /\ ch # "SP"
        <5>1. /\ Keeps(t, r, {"run", "content_length", "announced"})
              /\ Keeps(u, w, {"run", "content_length", "announced"})
              /\ t.run = Run(r) + 1 /\ u.run = Run(w) + 1
              /\ t.content_length = u.content_length /\ t.announced = u.announced
          BY <1>1, <1>5, <1>7, <1>12, <2>1, <2>3, <4>2 DEF ValueStep
        <5> QED BY <1>1, <5>1 DEF Keeps, Fields
      <4>3. CASE r.header_state # "h_content_length"
        <5>1. /\ Keeps(t, r, {"run", "header_state", "flags"})
              /\ Keeps(u, w, {"run", "header_state", "flags"})
              /\ t.run = Run(r) + 1 /\ u.run = Run(w) + 1
              /\ t.header_state = u.header_state /\ t.flags = u.flags
          BY <1>1, <1>5, <1>12, <2>1, <4>3 DEF ValueStep
        <5> QED BY <1>1, <5>1 DEF Keeps, Fields
      <4> QED BY <4>1, <4>2, <4>3
    <3>2. Related(t, u, FALSE) /\ t.http_errno = "OK" /\ u.http_errno = "OK"
      BY <1>1, <1>6, <3>1 DEF Related, Paired, SameBut, CountsMore, Run, None, Keeps, Fields
    <3> QED BY <1>3, <1>4, <3>2 DEF Matched, Failed
  <2> QED BY <2>2, <2>3
<1> QED BY <1>8, <1>9, <1>10, <1>11, <1>12

\* The header is finished: its flags are set.
LEMMA FinishIs ==
  ASSUME NEW s \in Parsers
  PROVE  /\ Keeps(Finish(s), s, {"flags", "state"})
         /\ Finish(s).flags = s.flags \cup ValueFlag(s.header_state)
         /\ Finish(s).state = "s_header_field_start"
<1>1. PICK F : F = s.flags \cup ValueFlag(s.header_state)
  OBVIOUS
<1>2. F \in SUBSET Flags
  BY <1>1, KindRanges DEF Parsers, Flags
<1>3. Finish(s) = [s EXCEPT !.flags = F, !.state = "s_header_field_start"]
  BY <1>1 DEF Finish, Parsers
<1>4. /\ Keeps(Finish(s), s, {"flags", "state"})
      /\ Finish(s).flags = F /\ Finish(s).state = "s_header_field_start"
  BY <1>2, <1>3, StatesAre DEF Keeps, Parsers, Fields
<1> QED BY <1>1, <1>4

\* The next byte belongs to the header after it.
LEMMA FinishReads ==
  ASSUME NEW r, NEW pending, Reading(r, pending),
         r.state \in {"s_header_value_lws", "s_header_value_discard_lws"}
  PROVE  /\ Reading(Finish(r), pending)
         /\ Finish(r).called = IF "TRAILING" \in Finish(r).flags THEN "headers" ELSE "begin"
         /\ \A e \in Elements : Finish(r).mark[e] = NoMark
<1>1. r \in Parsers
  BY ReadingHas
<1>2. PICK q : q = Finish(r)
  OBVIOUS
<1>3. /\ Keeps(q, r, {"flags", "state"}) /\ q.state = "s_header_field_start"
      /\ q.flags = r.flags \cup ValueFlag(r.header_state)
  BY <1>1, <1>2, FinishIs
<1>4. /\ "CONTENTLENGTH" \in q.flags <=> "CONTENTLENGTH" \in r.flags
      /\ "TRAILING" \in q.flags <=> "TRAILING" \in r.flags
  BY <1>1, <1>3, KindRanges DEF Parsers
<1>5. Keeps(q, r, {"flags", "state"}) /\ q.state = "s_header_field_start"
  BY <1>3
<1>6. Reading(q, pending)
  BY <1>1, <1>4, <1>5, LimitsAssumption DEF Reading, Settled, Always, MarksInv, LengthInv,
    BodyInv, OrderInv, SizeInv, LocalsInv, Between, Run, Keeps, Moves, Fields, Parsers, States,
    RequestLine, HeaderStates, ChunkStates, ChunkSizeStates, UrlStates, Elements, NoMark, None
<1>7. /\ q.called = IF "TRAILING" \in q.flags THEN "headers" ELSE "begin"
      /\ \A e \in Elements : q.mark[e] = NoMark
  BY <1>5, <1>6 DEF Reading, Always, OrderInv, MarksInv, Fields, Parsers, States, RequestLine,
    HeaderStates, ChunkStates, ChunkSizeStates, UrlStates, Elements, NoMark, None
<1> QED BY <1>2, <1>6, <1>7

\* Both parsers finish the same header.
LEMMA FinishPaired ==
  ASSUME NEW r \in Parsers, NEW w \in Parsers, Paired(r, w)
  PROVE  Paired(Finish(r), Finish(w))
<1>1. PICK q : q = Finish(r)
  OBVIOUS
<1>2. PICK v : v = Finish(w)
  OBVIOUS
<1>3. r.flags = w.flags /\ r.header_state = w.header_state
  BY DEF Paired, SameBut
<1>4. /\ Keeps(q, r, {"flags", "state"}) /\ Keeps(v, w, {"flags", "state"})
      /\ q.flags = v.flags /\ q.state = v.state
  BY <1>1, <1>2, <1>3, FinishIs
<1>5. Paired(q, v)
  BY <1>4, PairedKept
<1> QED BY <1>1, <1>2, <1>5

\* A folded value goes on, or the header is finished.
LEMMA s_header_value_lws_steps ==
  ASSUME NEW r, NEW ch, Reading(r, Parts(r, ch)), r.state = "s_header_value_lws"
  PROVE  Outcome(s_header_value_lws(r, ch))
<1>1. CASE ch = "SP"
  <2>1. Parts(r, ch) = {"header_value"}
    BY <1>1 DEF Parts, UrlStates, Token, Letters, Digits, Value
  <2>2. s_header_value_lws(r, ch) = s_header_value_start(r, ch)
    BY <1>1 DEF s_header_value_lws
  <2> QED BY <2>1, <2>2, s_header_value_start_steps
<1>2. CASE ch # "SP"
  <2>1. Parts(r, ch) = FieldParts(ch)
    BY <1>2 DEF Parts, FieldParts, UrlStates
  <2>2. PICK q : q = Finish(r)
    OBVIOUS
  <2>3. s_header_value_lws(r, ch) = s_header_field_start(q, ch)
    BY <1>2, <2>2 DEF s_header_value_lws
  <2>4. Reading(q, FieldParts(ch)) /\ q.state = "s_header_field_start"
    BY <2>1, <2>2, FinishReads, FinishIs, ReadingHas
  <2> QED BY <2>3, <2>4, s_header_field_start_steps
<1> QED BY <1>1, <1>2

\* Both parsers do the same.
LEMMA s_header_value_lws_matches ==
  ASSUME NEW r, NEW w, NEW ch, Reading(r, Parts(r, ch)), Reading(w, Parts(w, ch)), Paired(r, w),
         r.state = "s_header_value_lws", NEW b
  PROVE  Matched(s_header_value_lws(r, ch), s_header_value_lws(w, ch), b)
<1>1. r \in Parsers /\ w \in Parsers /\ w.state = "s_header_value_lws"
  BY ReadingHas DEF Paired, SameBut
<1>2. CASE ch = "SP"
  <2>1. Parts(r, ch) = {"header_value"} /\ Parts(w, ch) = {"header_value"}
    BY <1>1, <1>2 DEF Parts, UrlStates, Token, Letters, Digits, Value
  <2>2. /\ s_header_value_lws(r, ch) = s_header_value_start(r, ch)
        /\ s_header_value_lws(w, ch) = s_header_value_start(w, ch)
    BY <1>2 DEF s_header_value_lws
  <2> QED BY <2>1, <2>2, s_header_value_start_matches
<1>3. CASE ch # "SP"
  <2>1. Parts(r, ch) = FieldParts(ch) /\ Parts(w, ch) = FieldParts(ch)
    BY <1>1, <1>3 DEF Parts, FieldParts, UrlStates
  <2>2. PICK q : q = Finish(r)
    OBVIOUS
  <2>3. PICK v : v = Finish(w)
    OBVIOUS
  <2>4. /\ s_header_value_lws(r, ch) = s_header_field_start(q, ch)
        /\ s_header_value_lws(w, ch) = s_header_field_start(v, ch)
    BY <1>3, <2>2, <2>3 DEF s_header_value_lws
  <2>5. /\ Reading(q, FieldParts(ch)) /\ q.state = "s_header_field_start"
        /\ Reading(v, FieldParts(ch)) /\ Paired(q, v)
    BY <1>1, <2>1, <2>2, <2>3, FinishReads, FinishIs, FinishPaired
  <2> QED BY <2>4, <2>5, s_header_field_start_matches
<1> QED BY <1>2, <1>3

\* The empty value that is handed over.
Emptied(s) == CALLBACK_DATA(Mark(Finish(s), "header_value"), "header_value")

\* A header whose value is empty is finished.
LEMMA EmptiedIs ==
  ASSUME NEW r, NEW pending, Reading(r, pending), r.state = "s_header_value_discard_lws"
  PROVE  /\ Reading(Emptied(r), pending) /\ Emptied(r).state = "s_header_field_start"
         /\ Keeps(Emptied(r), Finish(r), {"mark", "due", "expect"})
<1>1. r \in Parsers
  BY ReadingHas
<1>2. PICK q : q = Finish(r)
  OBVIOUS
<1>3. /\ Reading(q, pending) /\ q \in Parsers /\ q.state = "s_header_field_start"
      /\ q.called = IF "TRAILING" \in q.flags THEN "headers" ELSE "begin"
      /\ \A e \in Elements : q.mark[e] = NoMark
  BY <1>1, <1>2, FinishReads, FinishIs DEF Keeps
<1>4. PICK x : x = Mark(q, "header_value")
  OBVIOUS
<1>5. /\ Keeps(x, q, {"mark"})
      /\ \A f \in Elements : x.mark[f] = IF f = "header_value" THEN 0 ELSE NoMark
  BY <1>3, <1>4, MarkIs DEF Elements
<1>6. x \in Parsers /\ x.called = q.called /\ x.flags = q.flags /\ x.due = q.due
  BY <1>5 DEF Keeps, Fields
<1>7. PICK t : t = CALLBACK_DATA(x, "header_value")
  OBVIOUS
<1>8. /\ Keeps(t, x, {"mark", "due", "expect"})
      /\ \A f \in Elements : t.mark[f] = IF f = "header_value" THEN NoMark ELSE x.mark[f]
      /\ \A f \in Elements : t.due[f] = IF f = "header_value" /\ x.mark["header_value"] # NoMark
                                        THEN x.due[f] - x.mark[f] ELSE x.due[f]
      /\ t.expect = x.expect
  BY <1>3, <1>6, <1>7, CallbackIs DEF Elements
<1>9. /\ Keeps(t, q, {"mark", "due"})
      /\ \A f \in Elements : t.mark[f] = q.mark[f]
      /\ \A f \in Elements : t.due[f] = q.due[f]
  <2>1. \A f \in Elements : q.due[f] - 0 = q.due[f]
    BY <1>3 DEF Parsers
  <2>2. \A f \in Elements : t.mark[f] = NoMark
    BY <1>5, <1>8
  <2>3. \A f \in Elements : t.due[f] = q.due[f]
    BY <1>5, <1>6, <1>8, <2>1
  <2>4. Keeps(t, q, {"mark", "due"})
    BY <1>5, <1>8 DEF Keeps, Fields
  <2> QED BY <1>3, <2>2, <2>3, <2>4
<1>10. t.mark = q.mark /\ t.due = q.due
  BY <1>3, <1>9 DEF Keeps, Parsers
<1>11. Keeps(t, q, {}) /\ Keeps(t, q, {"mark", "due", "expect"})
  BY <1>9, <1>10 DEF Keeps, Fields
<1>12. Reading(t, pending) /\ t.state = "s_header_field_start"
  BY <1>3, <1>11, LimitsAssumption DEF Reading, Settled, Always, MarksInv, LengthInv, BodyInv,
    OrderInv, SizeInv, LocalsInv, Between, Run, Keeps, Moves, Fields, Parsers, States,
    RequestLine, HeaderStates, ChunkStates, ChunkSizeStates, UrlStates, Elements, NoMark, None
<1> QED BY <1>2, <1>4, <1>7, <1>11, <1>12 DEF Emptied

\* A folded value begins, or the header is finished without one.
LEMMA s_header_value_discard_lws_steps ==
  ASSUME NEW r, NEW ch, Reading(r, Parts(r, ch)), r.state = "s_header_value_discard_lws"
  PROVE  Outcome(s_header_value_discard_lws(r, ch))
<1>1. r \in Parsers
  BY ReadingHas
<1>2. CASE ch = "SP"
  <2>1. Parts(r, ch) = {}
    BY <1>2 DEF Parts, UrlStates, Token, Letters, Digits, Value
  <2>2. PICK t : t = s_header_value_discard_lws(r, ch)
    OBVIOUS
  <2>3. Moves(t, r, "s_header_value_discard_ws")
    BY <1>1, <1>2, <2>2, GotoIs, StatesAre DEF s_header_value_discard_lws
  <2>4. Settled(t, 1)
    BY <2>1, <2>3, LimitsAssumption DEF Reading, Settled, Always, MarksInv, LengthInv, BodyInv,
      OrderInv, SizeInv, LocalsInv, Between, Run, Keeps, Moves, Fields, Parsers, States,
      RequestLine, HeaderStates, ChunkStates, ChunkSizeStates, UrlStates, Elements, NoMark, None
  <2> QED BY <2>2, <2>4 DEF Outcome
<1>3. CASE ch # "SP"
  <2>1. Parts(r, ch) = FieldParts(ch)
    BY <1>3 DEF Parts, FieldParts, UrlStates
  <2>2. s_header_value_discard_lws(r, ch) = s_header_field_start(Emptied(r), ch)
    BY <1>3 DEF s_header_value_discard_lws, Emptied
  <2>3. Reading(Emptied(r), FieldParts(ch)) /\ Emptied(r).state = "s_header_field_start"
    BY <2>1, EmptiedIs
  <2> QED BY <2>2, <2>3, s_header_field_start_steps
<1> QED BY <1>2, <1>3

\* Both parsers do the same.
LEMMA s_header_value_discard_lws_matches ==
  ASSUME NEW r, NEW w, NEW ch, Reading(r, Parts(r, ch)), Reading(w, Parts(w, ch)), Paired(r, w),
         r.state = "s_header_value_discard_lws", NEW b
  PROVE  Matched(s_header_value_discard_lws(r, ch), s_header_value_discard_lws(w, ch), b)
<1>1. /\ r \in Parsers /\ r.http_errno = "OK" /\ r.ahead = "none"
      /\ w \in Parsers /\ w.http_errno = "OK" /\ w.ahead = "none"
      /\ w.state = "s_header_value_discard_lws"
  BY ReadingHas DEF Paired, SameBut
<1>2. PICK t : t = s_header_value_discard_lws(r, ch)
  OBVIOUS
<1>3. PICK u : u = s_header_value_discard_lws(w, ch)
  OBVIOUS
<1>4. CASE ch = "SP"
  <2>1. /\ Moves(t, r, "s_header_value_discard_ws")
        /\ Moves(u, w, "s_header_value_discard_ws")
    BY <1>1, <1>2, <1>3, <1>4, GotoIs, StatesAre DEF s_header_value_discard_lws
  <2>2. Matched(t, u, b)
    BY <1>1, <2>1, SameChange DEF Moves
  <2> QED BY <1>2, <1>3, <2>2
<1>5. CASE ch # "SP"
  <2>1. Parts(r, ch) = FieldParts(ch) /\ Parts(w, ch) = FieldParts(ch)
    BY <1>1, <1>5 DEF Parts, FieldParts, UrlStates
  <2>2. PICK q : q = Emptied(r)
    OBVIOUS
  <2>3. PICK v : v = Emptied(w)
    OBVIOUS
  <2>4. t = s_header_field_start(q, ch) /\ u = s_header_field_start(v, ch)
    BY <1>2, <1>3, <1>5, <2>2, <2>3 DEF s_header_value_discard_lws, Emptied
  <2>5. /\ Reading(q, FieldParts(ch)) /\ q.state = "s_header_field_start"
        /\ Reading(v, FieldParts(ch))
        /\ Keeps(q, Finish(r), {"mark", "due", "expect"})
        /\ Keeps(v, Finish(w), {"mark", "due", "expect"})
    BY <1>1, <2>1, <2>2, <2>3, EmptiedIs
  <2>6. Paired(Finish(r), Finish(w))
    BY <1>1, FinishPaired
  <2>7. Paired(q, v)
    BY <2>5, <2>6, PairedKept
  <2> QED BY <1>2, <1>3, <2>4, <2>5, <2>7, s_header_field_start_matches
<1> QED BY <1>4, <1>5

-----------------------------------------------------------------------------
(* Bodies.                                                                 *)

\* One byte less is to be read, and the body is marked.
LEMMA BodyByteIs ==
  ASSUME NEW s \in Parsers, s.content_length > 0
  PROVE  LET t == Mark([s EXCEPT !.content_length = @ - 1], "body")
         IN  /\ Keeps(t, s, {"content_length", "mark"})
             /\ t.content_length = s.content_length - 1
             /\ \A f \in Elements : t.mark[f] = IF f = "body" THEN Between(s, "body", 0)
                                                ELSE s.mark[f]
<1>1. PICK n \in Nat : n = s.content_length - 1
  BY DEF Parsers
<1>2. PICK q : q = [s EXCEPT !.content_length = n]
  OBVIOUS
<1>3. q = [s EXCEPT !.content_length = @ - 1]
  BY <1>1, <1>2 DEF Parsers
<1>4. Keeps(q, s, {"content_length"}) /\ q.content_length = n
  BY <1>2 DEF Keeps, Parsers, Fields
<1>5. q \in Parsers /\ q.mark = s.mark
  BY <1>4 DEF Keeps, Fields
<1>6. PICK t : t = Mark(q, "body")
  OBVIOUS
<1>7. /\ Keeps(t, q, {"mark"})
      /\ \A f \in Elements : t.mark[f] = IF f = "body" /\ s.mark["body"] = NoMark
                                         THEN 0 ELSE s.mark[f]
  BY <1>5, <1>6, MarkIs DEF Elements
<1>8. Keeps(t, s, {"content_length", "mark"}) /\ t.content_length = n
  BY <1>4, <1>7 DEF Keeps, Fields
<1>9. \A f \in Elements : t.mark[f] = IF f = "body" THEN Between(s, "body", 0) ELSE s.mark[f]
  BY <1>7 DEF Between, Parsers, Elements
<1> QED BY <1>1, <1>3, <1>6, <1>8, <1>9

\* What s_body_identity does: the last byte ends the message.
BodyStep(t, s) ==
  \/ /\ s.content_length # 1
     /\ Keeps(t, s, {"content_length", "mark"}) /\ t.content_length = s.content_length - 1
     /\ \A f \in Elements : t.mark[f] = IF f = "body" THEN Between(s, "body", 0) ELSE s.mark[f]
  \/ /\ s.content_length = 1
     /\ Keeps(t, s, Reset \cup {"mark", "due", "expect"})
     /\ t.state = "s_start_req" /\ t.header_state = "h_general" /\ t.index = 0 /\ t.flags = {}
     /\ t.nread = 0 /\ t.content_length = 0 /\ t.method = "GET" /\ t.version = "none"
     /\ t.upgrade = FALSE /\ t.announced = 0 /\ t.called = "complete"
     /\ t.returned = s.returned /\ t.expect = 0
     /\ \A f \in Elements : t.mark[f] = IF f = "body" THEN NoMark ELSE s.mark[f]
     /\ \A f \in Elements : t.due[f] = IF f = "body" THEN s.due[f] - (Between(s, "body", 0) + 1)
                                       ELSE s.due[f]

\* A body of known length, case by case.
LEMMA s_body_identity_is ==
  ASSUME NEW s \in Parsers, s.http_errno = "OK", s.called = "headers", s.content_length > 0,
         s.expect = s.content_length + Between(s, "body", 0)
  PROVE  BodyStep(s_body_identity(s), s)
<1>1. PICK q : q = Mark([s EXCEPT !.content_length = @ - 1], "body")
  OBVIOUS
<1>2. /\ Keeps(q, s, {"content_length", "mark"})
      /\ q.content_length = s.content_length - 1
      /\ \A f \in Elements : q.mark[f] = IF f = "body" THEN Between(s, "body", 0) ELSE s.mark[f]
  BY <1>1, BodyByteIs
<1>3. PICK m \in Nat : m = Between(s, "body", 0)
  BY DEF Between, Parsers, Elements
<1>4. s.content_length \in Nat
  BY DEF Parsers
<1>5. CASE s.content_length # 1
  <2>1. s_body_identity(s) = q
    BY <1>1, <1>2, <1>4, <1>5 DEF s_body_identity
  <2> QED BY <1>2, <1>5, <2>1 DEF BodyStep
<1>6. CASE s.content_length = 1
  <2>1. PICK v : v = Data(q, "body", m + 1)
    OBVIOUS
  <2>2. q.content_length = 0 /\ q.mark["body"] = m
    BY <1>2, <1>3, <1>6 DEF Elements
  <2>3. s_body_identity(s) = s_message_done(v)
    BY <1>1, <2>1, <2>2 DEF s_body_identity
  <2>4. /\ q \in Parsers /\ q.called = "headers" /\ q.due = s.due /\ q.expect = s.expect
        /\ q.mark["body"] # NoMark
    BY <1>2, <2>2 DEF Keeps, Fields, NoMark
  <2>5. /\ Keeps(v, q, {"mark", "due", "expect"})
        /\ \A f \in Elements : v.mark[f] = IF f = "body" THEN NoMark ELSE q.mark[f]
        /\ \A f \in Elements : v.due[f] = IF f = "body" THEN q.due[f] - (m + 1) ELSE q.due[f]
        /\ v.expect = q.expect - (m + 1)
    BY <2>1, <2>4, DataIs DEF Elements
  <2>6. /\ v \in Parsers /\ v.called = "headers" /\ v.http_errno = "OK" /\ v.expect = 0
        /\ v.returned = s.returned
    <3>1. q.http_errno = "OK" /\ q.returned = s.returned
      BY <1>2 DEF Keeps, Fields
    <3>2. v.expect = 0
      BY <1>3, <1>6, <2>4, <2>5
    <3> QED BY <2>4, <2>5, <3>1, <3>2 DEF Keeps, Fields
  <2>7. PICK t : t = Complete(v)
    OBVIOUS
  <2>8. s_body_identity(s) = t /\ Completed(t, v) /\ t.returned = v.returned
    BY <2>3, <2>6, <2>7, CompletedIs
  <2>9. /\ t.expect = v.expect /\ t.mark = v.mark /\ t.due = v.due
    BY <2>8 DEF Completed, Keeps, Fields, Reset
  <2>10. Keeps(t, s, Reset \cup {"mark", "due", "expect"})
    BY <1>2, <2>5, <2>8 DEF Completed, Keeps, Fields, Reset
  <2>11. /\ \A f \in Elements : t.mark[f] = IF f = "body" THEN NoMark ELSE s.mark[f]
         /\ \A f \in Elements : t.due[f] = IF f = "body"
                                           THEN s.due[f] - (Between(s, "body", 0) + 1)
                                           ELSE s.due[f]
    BY <1>2, <1>3, <2>4, <2>5, <2>9
  <2> QED BY <1>6, <2>6, <2>8, <2>9, <2>10, <2>11 DEF BodyStep, Completed
<1> QED BY <1>5, <1>6

\* A byte of a body of known length.
LEMMA s_body_identity_steps ==
  ASSUME NEW r, NEW ch, Reading(r, Parts(r, ch)), r.state = "s_body_identity"
  PROVE  Outcome(s_body_identity(r))
<1>1. /\ r \in Parsers /\ r.http_errno = "OK" /\ r.called = "headers" /\ r.content_length > 0
      /\ r.content_length \in 1 .. UllMax - 1
      /\ r.expect = r.content_length + Between(r, "body", 0)
      /\ r.size = 0 /\ r.run = None /\ ~r.skipped /\ r.ahead = "none" /\ ~r.returned
  BY LimitsAssumption DEF Reading, Always, BodyInv, OrderInv, Fields, Parsers, States,
    RequestLine, HeaderStates, ChunkStates, ChunkSizeStates, UrlStates, Elements, NoMark, None
<1>2. Parts(r, ch) = {"body"}
  BY DEF Parts, UrlStates
<1>3. PICK t : t = s_body_identity(r)
  OBVIOUS
<1>4. BodyStep(t, r)
  BY <1>1, <1>3, s_body_identity_is
<1>5. /\ \A e \in Elements \ {"body"} : r.mark[e] = NoMark /\ r.due[e] = 0
      /\ r.due["body"] = Between(r, "body", 0) + 1
  BY <1>2 DEF Reading, Always, MarksInv, Between, UrlStates, Elements
<1>6. Between(r, "body", 0) \in Nat
  BY <1>1 DEF Between, Parsers, Elements
<1>7. CASE r.content_length # 1
  <2>1. /\ Keeps(t, r, {"content_length", "mark"}) /\ t.content_length = r.content_length - 1
        /\ \A f \in Elements : t.mark[f] = IF f = "body" THEN Between(r, "body", 0) ELSE r.mark[f]
    BY <1>4, <1>7 DEF BodyStep
  <2>2. SizeInv(t) /\ LocalsInv(t)
    BY <1>1, <2>1, LimitsAssumption DEF Reading, Always, SizeInv, LocalsInv, Run, Keeps, Fields,
       Parsers, None
  <2>3. /\ t.state = r.state /\ t.due = r.due /\ t.expect = r.expect
    BY <2>1 DEF Keeps, Fields
  <2>4. /\ t.mark["body"] = Between(r, "body", 0) /\ t.mark["body"] # NoMark
        /\ \A e \in Elements \ {"body"} : t.mark[e] = NoMark
    BY <1>5, <1>6, <2>1 DEF Elements, NoMark
  <2>5. Between(t, "body", 1) = Between(r, "body", 0) + 1
    BY <2>4 DEF Between
  <2>6. \A e \in Elements : t.due[e] = Between(t, e, 1) + (IF e \in {} THEN 1 ELSE 0)
    BY <1>5, <1>6, <2>3, <2>4, <2>5 DEF Between
  <2>7. MarksInv(t)
    BY <2>3, <2>4 DEF MarksInv, UrlStates, Elements
  <2>8. BodyInv(t, 1)
    <3>1. t.expect = t.content_length + Between(t, "body", 1)
      BY <1>1, <1>6, <2>1, <2>3, <2>5
    <3>2. t.content_length \in 1 .. UllMax - 1
      BY <1>1, <1>7, <2>1, LimitsAssumption
    <3> QED BY <2>3, <3>1, <3>2 DEF BodyInv, ChunkStates, ChunkSizeStates
  <2>9. LengthInv(t) /\ OrderInv(t)
    BY <1>1, <2>1 DEF LengthInv, OrderInv, Keeps, Fields, Parsers, States, RequestLine,
      HeaderStates, ChunkStates, ChunkSizeStates, UrlStates, Elements, NoMark, None
  <2>10. Settled(t, 1)
    BY <1>1, <2>1, <2>2, <2>6, <2>7, <2>8, <2>9 DEF Settled, Always, Keeps, Fields
  <2> QED BY <1>3, <2>10 DEF Outcome
<1>8. CASE r.content_length = 1
  <2>1. /\ Keeps(t, r, Reset \cup {"mark", "due", "expect"})
        /\ t.state = "s_start_req" /\ t.flags = {} /\ t.nread = 0 /\ t.announced = 0
        /\ t.called = "complete" /\ t.returned = r.returned /\ t.expect = 0
        /\ \A f \in Elements : t.mark[f] = IF f = "body" THEN NoMark ELSE r.mark[f]
        /\ \A f \in Elements : t.due[f] = IF f = "body" THEN r.due[f] - (Between(r, "body", 0) + 1)
                                          ELSE r.due[f]
    BY <1>4, <1>8 DEF BodyStep
  <2>2. /\ t \in Parsers /\ t.http_errno = "OK" /\ t.size = 0 /\ t.run = None /\ ~t.skipped
        /\ t.ahead = "none" /\ ~t.returned
    BY <1>1, <2>1 DEF Keeps, Fields, Reset
  <2>3. \A e \in Elements : t.mark[e] = NoMark /\ t.due[e] = 0
    BY <1>5, <1>6, <2>1
  <2>4. \A e \in Elements : t.due[e] = Between(t, e, 1) + (IF e \in {} THEN 1 ELSE 0)
    BY <2>3 DEF Between
  <2>5. MarksInv(t) /\ LengthInv(t) /\ BodyInv(t, 1) /\ OrderInv(t)
    BY <2>1, <2>3 DEF MarksInv, LengthInv, BodyInv, OrderInv, Fields, Parsers, States,
      RequestLine, HeaderStates, ChunkStates, ChunkSizeStates, UrlStates, Elements, NoMark, None
  <2>6. SizeInv(t) /\ LocalsInv(t)
    BY <2>1, <2>2, LimitsAssumption DEF SizeInv, LocalsInv
  <2>7. Settled(t, 1)
    BY <2>1, <2>2, <2>4, <2>5, <2>6 DEF Settled, Always
  <2> QED BY <1>3, <2>7 DEF Outcome
<1> QED BY <1>7, <1>8

\* Both parsers do the same.
LEMMA s_body_identity_matches ==
  ASSUME NEW r, NEW w, NEW ch, Reading(r, Parts(r, ch)), Reading(w, Parts(w, ch)), Paired(r, w),
         r.state = "s_body_identity", NEW b
  PROVE  Matched(s_body_identity(r), s_body_identity(w), b)
<1>1. /\ r.content_length = w.content_length /\ r.returned = w.returned
      /\ w.state = "s_body_identity"
  BY DEF Paired, SameBut
<1>2. /\ r \in Parsers /\ r.http_errno = "OK" /\ r.called = "headers" /\ r.content_length > 0
      /\ r.expect = r.content_length + Between(r, "body", 0)
      /\ r.run = None /\ r.ahead = "none"
  BY LimitsAssumption DEF Reading, Always, BodyInv, OrderInv, Fields, Parsers, States,
    RequestLine, HeaderStates, ChunkStates, ChunkSizeStates, UrlStates, Elements, NoMark, None
<1>3. /\ w \in Parsers /\ w.http_errno = "OK" /\ w.called = "headers" /\ w.content_length > 0
      /\ w.expect = w.content_length + Between(w, "body", 0)
      /\ w.run = None /\ w.ahead = "none"
  BY <1>1, LimitsAssumption DEF Reading, Always, BodyInv, OrderInv, Fields, Parsers, States,
    RequestLine, HeaderStates, ChunkStates, ChunkSizeStates, UrlStates, Elements, NoMark, None
<1>4. PICK t : t = s_body_identity(r)
  OBVIOUS
<1>5. PICK u : u = s_body_identity(w)
  OBVIOUS
<1>6. BodyStep(t, r) /\ BodyStep(u, w)
  BY <1>2, <1>3, <1>4, <1>5, s_body_identity_is
<1>7. CASE r.content_length # 1
  <2>1. /\ Keeps(t, r, {"content_length", "mark"}) /\ Keeps(u, w, {"content_length", "mark"})
        /\ t.content_length = u.content_length
    BY <1>1, <1>6, <1>7 DEF BodyStep
  <2>2. Matched(t, u, b)
    BY <1>2, <1>3, <2>1, SameChange
  <2> QED BY <1>4, <1>5, <2>2
<1>8. CASE r.content_length = 1
  <2> DEFINE F == Reset \cup {"mark", "due", "expect"}
  <2>1. /\ Keeps(t, r, F) /\ Keeps(u, w, F)
        /\ t.state = u.state /\ t.header_state = u.header_state /\ t.index = u.index
        /\ t.flags = u.flags /\ t.nread = u.nread /\ t.content_length = u.content_length
        /\ t.method = u.method /\ t.version = u.version /\ t.upgrade = u.upgrade
        /\ t.announced = u.announced /\ t.called = u.called /\ t.returned = u.returned
    BY <1>1, <1>6, <1>8 DEF BodyStep
  <2>2. Matched(t, u, b)
    <3>1. F \cap {"run", "skipped", "ahead", "http_errno"} = {}
      BY DEF Reset
    <3>2. \A f \in F \ {"mark", "due", "expect"} : t[f] = u[f]
      BY <2>1 DEF Reset
    <3> HIDE DEF F
    <3> QED BY <1>2, <1>3, <2>1, <3>1, <3>2, SameChange
  <2> QED BY <1>4, <1>5, <2>2
<1> QED BY <1>7, <1>8

\* What s_chunk_size_start does.
LEMMA s_chunk_size_start_is ==
  ASSUME NEW s \in Parsers, NEW ch
  PROVE  LET t == s_chunk_size_start(s, ch)
         IN  \/ /\ ch \in DOMAIN unhex
                /\ Keeps(t, s, {"content_length", "announced", "state"})
                /\ t.content_length = unhex[ch] /\ t.announced = unhex[ch]
                /\ t.state = "s_chunk_size"
             \/ ch \notin DOMAIN unhex /\ t = Fail(s, "INVALID_CHUNK_SIZE")
<1>1. CASE ch \in DOMAIN unhex
  <2>1. PICK d \in Nat : d = unhex[ch]
    BY <1>1, DigitValues
  <2>2. PICK t : t = [s EXCEPT !.content_length = d, !.announced = d, !.state = "s_chunk_size"]
    OBVIOUS
  <2>3. s_chunk_size_start(s, ch) = t
    BY <1>1, <2>1, <2>2 DEF s_chunk_size_start
  <2>4. /\ Keeps(t, s, {"content_length", "announced", "state"})
        /\ t.content_length = d /\ t.announced = d /\ t.state = "s_chunk_size"
    BY <2>2, StatesAre DEF Keeps, Parsers, Fields
  <2> QED BY <1>1, <2>1, <2>3, <2>4
<1>2. CASE ch \notin DOMAIN unhex
  BY <1>2 DEF s_chunk_size_start
<1> QED BY <1>1, <1>2

\* The first digit of a chunk size.
LEMMA s_chunk_size_start_steps ==
  ASSUME NEW r, NEW ch, Reading(r, Parts(r, ch)), r.state = "s_chunk_size_start"
  PROVE  Outcome(s_chunk_size_start(r, ch))
<1>1. r \in Parsers /\ Parts(r, ch) = {}
  BY DEF Parts, Reading, Always, UrlStates
<1>2. PICK t : t = s_chunk_size_start(r, ch)
  OBVIOUS
<1>3. CASE t = Fail(r, "INVALID_CHUNK_SIZE")
  BY <1>2, <1>3, FailIs DEF Outcome, Errors
<1>4. CASE /\ ch \in DOMAIN unhex
           /\ Keeps(t, r, {"content_length", "announced", "state"})
           /\ t.content_length = unhex[ch] /\ t.announced = unhex[ch]
           /\ t.state = "s_chunk_size"
  <2>1. /\ Keeps(t, r, {"content_length", "announced", "state"}) /\ t.state = "s_chunk_size"
        /\ t.content_length = t.announced /\ t.announced < UllMax
    BY <1>4, DigitValues, LimitsAssumption
  <2>2. Settled(t, 1)
    BY <1>1, <2>1, LimitsAssumption DEF Reading, Settled, Always, MarksInv, LengthInv, BodyInv,
      OrderInv, SizeInv, LocalsInv, Between, Run, Keeps, Moves, Fields, Parsers, States,
      RequestLine, HeaderStates, ChunkStates, ChunkSizeStates, UrlStates, Elements, NoMark, None
  <2> QED BY <1>2, <2>2 DEF Outcome
<1> QED BY <1>1, <1>2, <1>3, <1>4, s_chunk_size_start_is

\* Both parsers do the same.
LEMMA s_chunk_size_start_matches ==
  ASSUME NEW r, NEW w, NEW ch, Reading(r, Parts(r, ch)), Reading(w, Parts(w, ch)), Paired(r, w),
         r.state = "s_chunk_size_start", NEW b
  PROVE  Matched(s_chunk_size_start(r, ch), s_chunk_size_start(w, ch), b)
<1>1. /\ r \in Parsers /\ r.http_errno = "OK" /\ r.ahead = "none"
      /\ w \in Parsers /\ w.http_errno = "OK" /\ w.ahead = "none"
  BY ReadingHas
<1>2. PICK t : t = s_chunk_size_start(r, ch)
  OBVIOUS
<1>3. PICK u : u = s_chunk_size_start(w, ch)
  OBVIOUS
<1> DEFINE F == {"content_length", "announced", "state"}
<1>4. \/ /\ Keeps(t, r, F) /\ Keeps(u, w, F) /\ t.state = u.state
         /\ t.content_length = u.content_length /\ t.announced = u.announced
      \/ t = Fail(r, "INVALID_CHUNK_SIZE") /\ u = Fail(w, "INVALID_CHUNK_SIZE")
  BY <1>1, <1>2, <1>3, s_chunk_size_start_is
<1>5. CASE /\ Keeps(t, r, F) /\ Keeps(u, w, F) /\ t.state = u.state
           /\ t.content_length = u.content_length /\ t.announced = u.announced
  <2>1. Matched(t, u, b)
    BY <1>1, <1>5, SameChange
  <2> QED BY <1>2, <1>3, <2>1
<1>6. CASE t = Fail(r, "INVALID_CHUNK_SIZE") /\ u = Fail(w, "INVALID_CHUNK_SIZE")
  BY <1>2, <1>3, <1>6, FailIs, BothFail DEF Errors
<1> QED BY <1>4, <1>5, <1>6

\* What s_chunk_size does.
ChunkSizeStep(t, s, ch) ==
  LET hex == ch \notin {"CR", ";", "SP"} /\ ch \in DOMAIN unhex
  IN  \/ ch = "CR" /\ Moves(t, s, "s_chunk_size_almost_done")
      \/ ch \in {";", "SP"} /\ Moves(t, s, "s_chunk_parameters")
      \/ /\ ch \notin {"CR", ";", "SP"} /\ ch \notin DOMAIN unhex
         /\ t = Fail(s, "INVALID_CHUNK_SIZE")
      \/ /\ hex /\ (UllMax - 16) \div 16 < s.content_length
         /\ t = Fail(s, "INVALID_CONTENT_LENGTH")
      \/ /\ hex /\ ~((UllMax - 16) \div 16 < s.content_length)
         /\ Keeps(t, s, {"content_length", "announced"})
         /\ t.content_length = s.content_length * 16 + unhex[ch]
         /\ t.announced = s.announced * 16 + unhex[ch]
         /\ t.content_length < UllMax

\* Another digit of a chunk size, and its end, case by case.
LEMMA s_chunk_size_is ==
  ASSUME NEW s \in Parsers, NEW ch
  PROVE  ChunkSizeStep(s_chunk_size(s, ch), s, ch)
<1>1. PICK t : t = s_chunk_size(s, ch)
  OBVIOUS
<1>2. CASE ch \in {"CR", ";", "SP"}
  BY <1>2, GotoIs, StatesAre DEF s_chunk_size, ChunkSizeStep
<1>3. CASE ch \notin {"CR", ";", "SP"} /\ ch \notin DOMAIN unhex
  BY <1>3 DEF s_chunk_size, ChunkSizeStep
<1>4. CASE ch \notin {"CR", ";", "SP"} /\ ch \in DOMAIN unhex
  <2>1. CASE (UllMax - 16) \div 16 < s.content_length
    BY <1>4, <2>1 DEF s_chunk_size, ChunkSizeStep
  <2>2. CASE ~((UllMax - 16) \div 16 < s.content_length)
    <3>1. PICK d \in 0 .. 14 : d = unhex[ch]
      BY <1>4, DigitValues
    <3>2. PICK n \in Nat : n = s.content_length
      BY DEF Parsers
    <3>3. (n * 16 + d) % (UllMax + 1) = n * 16 + d /\ n * 16 + d < UllMax
      BY <2>2, <3>1, <3>2, DigitsFit
    <3>4. PICK m \in Nat : m = n * 16 + d
      BY <3>1, <3>2
    <3>5. PICK k \in Nat : k = s.announced * 16 + d
      BY <3>1 DEF Parsers
    <3>6. t = [s EXCEPT !.content_length = (s.content_length * 16 + unhex[ch]) % (UllMax + 1),
                        !.announced = s.announced * 16 + unhex[ch]]
      BY <1>1, <1>4, <2>2 DEF s_chunk_size, Parsers
    <3>7. t = [s EXCEPT !.content_length = m, !.announced = k]
      BY <3>1, <3>2, <3>3, <3>4, <3>5, <3>6
    <3>8. Keeps(t, s, {"content_length", "announced"}) /\ t.content_length = m /\ t.announced = k
      BY <3>7 DEF Keeps, Parsers, Fields
    <3>9. /\ t.content_length = s.content_length * 16 + unhex[ch]
          /\ t.announced = s.announced * 16 + unhex[ch]
          /\ t.content_length < UllMax
      BY <3>1, <3>2, <3>3, <3>4, <3>5, <3>8
    <3> QED BY <1>1, <1>4, <2>2, <3>8, <3>9 DEF ChunkSizeStep
  <2> QED BY <2>1, <2>2
<1> QED BY <1>2, <1>3, <1>4

\* The size of a chunk.
LEMMA s_chunk_size_steps ==
  ASSUME NEW r, NEW ch, Reading(r, Parts(r, ch)), r.state = "s_chunk_size"
  PROVE  Outcome(s_chunk_size(r, ch))
<1>1. r \in Parsers /\ Parts(r, ch) = {}
  BY DEF Parts, Reading, Always, UrlStates
<1>2. PICK t : t = s_chunk_size(r, ch)
  OBVIOUS
<1>3. ChunkSizeStep(t, r, ch)
  BY <1>1, <1>2, s_chunk_size_is
<1>4. CASE t \in {Fail(r, "INVALID_CHUNK_SIZE"), Fail(r, "INVALID_CONTENT_LENGTH")}
  BY <1>2, <1>4, FailIs DEF Outcome, Errors
<1>5. CASE Moves(t, r, "s_chunk_size_almost_done") \/ Moves(t, r, "s_chunk_parameters")
  <2>1. Settled(t, 1)
    BY <1>1, <1>5, LimitsAssumption DEF Reading, Settled, Always, MarksInv, LengthInv, BodyInv,
      OrderInv, SizeInv, LocalsInv, Between, Run, Keeps, Moves, Fields, Parsers, States,
      RequestLine, HeaderStates, ChunkStates, ChunkSizeStates, UrlStates, Elements, NoMark, None
  <2> QED BY <1>2, <2>1 DEF Outcome
<1>6. CASE /\ Keeps(t, r, {"content_length", "announced"})
           /\ t.content_length = r.content_length * 16 + unhex[ch]
           /\ t.announced = r.announced * 16 + unhex[ch]
           /\ t.content_length < UllMax
  <2>1. r.content_length = r.announced
    BY DEF Reading, Always, LengthInv, ChunkSizeStates
  <2>2. /\ Keeps(t, r, {"content_length", "announced"})
        /\ t.content_length = t.announced /\ t.announced < UllMax
    BY <1>6, <2>1
  <2>3. Settled(t, 1)
    BY <1>1, <2>2, LimitsAssumption DEF Reading, Settled, Always, MarksInv, LengthInv, BodyInv,
      OrderInv, SizeInv, LocalsInv, Between, Run, Keeps, Moves, Fields, Parsers, States,
      RequestLine, HeaderStates, ChunkStates, ChunkSizeStates, UrlStates, Elements, NoMark, None
  <2> QED BY <1>2, <2>3 DEF Outcome
<1> QED BY <1>3, <1>4, <1>5, <1>6 DEF ChunkSizeStep

\* Both parsers do the same.
LEMMA s_chunk_size_matches ==
  ASSUME NEW r, NEW w, NEW ch, Reading(r, Parts(r, ch)), Reading(w, Parts(w, ch)), Paired(r, w),
         r.state = "s_chunk_size", NEW b
  PROVE  Matched(s_chunk_size(r, ch), s_chunk_size(w, ch), b)
<1>1. /\ r \in Parsers /\ r.http_errno = "OK" /\ r.ahead = "none"
      /\ w \in Parsers /\ w.http_errno = "OK" /\ w.ahead = "none"
      /\ r.content_length = w.content_length /\ r.announced = w.announced
  BY ReadingHas DEF Paired, SameBut
<1>2. PICK t : t = s_chunk_size(r, ch)
  OBVIOUS
<1>3. PICK u : u = s_chunk_size(w, ch)
  OBVIOUS
<1>4. ChunkSizeStep(t, r, ch) /\ ChunkSizeStep(u, w, ch)
  BY <1>1, <1>2, <1>3, s_chunk_size_is
<1>5. CASE ch \in {"CR", ";", "SP"}
  <2>1. Keeps(t, r, {"state"}) /\ Keeps(u, w, {"state"}) /\ t.state = u.state
    BY <1>4, <1>5 DEF ChunkSizeStep, Moves
  <2>2. Matched(t, u, b)
    BY <1>1, <2>1, SameChange
  <2> QED BY <1>2, <1>3, <2>2
<1>6. CASE /\ ch \notin {"CR", ";", "SP"}
           /\ ch \notin DOMAIN unhex \/ (UllMax - 16) \div 16 < r.content_length
  <2>1. /\ t \in {Fail(r, "INVALID_CHUNK_SIZE"), Fail(r, "INVALID_CONTENT_LENGTH")}
        /\ u \in {Fail(w, "INVALID_CHUNK_SIZE"), Fail(w, "INVALID_CONTENT_LENGTH")}
    BY <1>1, <1>4, <1>6 DEF ChunkSizeStep
  <2> QED BY <1>2, <1>3, <2>1, FailIs, BothFail DEF Errors
<1>7. CASE /\ ch \notin {"CR", ";", "SP"} /\ ch \in DOMAIN unhex
           /\ ~((UllMax - 16) \div 16 < r.content_length)
  <2> DEFINE F == {"content_length", "announced"}
  <2>1. /\ Keeps(t, r, F) /\ Keeps(u, w, F)
        /\ t.content_length = u.content_length /\ t.announced = u.announced
    BY <1>1, <1>4, <1>7 DEF ChunkSizeStep
  <2>2. Matched(t, u, b)
    BY <1>1, <2>1, SameChange
  <2> QED BY <1>2, <1>3, <2>2
<1> QED BY <1>5, <1>6, <1>7

\* What s_chunk_size_almost_done does.
ChunkStart(t, s, ch) ==
  \/ ch # "LF" /\ t = Fail(s, "STRICT")
  \/ /\ ch = "LF"
     /\ Keeps(t, s, {"nread", "expect", "announced", "state", "flags"})
     /\ t.nread = 0 /\ t.expect = s.expect + s.announced /\ t.announced = 0
     /\ t.state = IF s.content_length = 0 THEN "s_header_field_start" ELSE "s_chunk_data"
     /\ t.flags = s.flags \cup (IF s.content_length = 0 THEN {"TRAILING"} ELSE {})

\* The end of a chunk size, case by case.
LEMMA s_chunk_size_almost_done_is ==
  ASSUME NEW s \in Parsers, NEW ch
  PROVE  ChunkStart(s_chunk_size_almost_done(s, ch), s, ch)
<1>1. PICK t : t = s_chunk_size_almost_done(s, ch)
  OBVIOUS
<1>2. CASE ch # "LF"
  BY <1>2 DEF s_chunk_size_almost_done, ChunkStart
<1>3. CASE ch = "LF"
  <2>1. PICK x \in Int : x = s.expect + s.announced
    BY DEF Parsers
  <2>2. PICK q : q = [s EXCEPT !.nread = 0, !.expect = x, !.announced = 0]
    OBVIOUS
  <2>3. Keeps(q, s, {"nread", "expect", "announced"}) /\ q.nread = 0 /\ q.expect = x
        /\ q.announced = 0
    BY <2>2 DEF Keeps, Parsers, Fields
  <2>4. q \in Parsers /\ q.flags = s.flags
    BY <2>3 DEF Keeps, Fields
  <2>5. q = [s EXCEPT !.nread = 0, !.expect = @ + s.announced, !.announced = 0]
    BY <2>1, <2>2 DEF Parsers
  <2>6. t = IF s.content_length = 0 THEN Flag(Goto(q, "s_header_field_start"), "TRAILING")
            ELSE Goto(q, "s_chunk_data")
    BY <1>1, <1>3, <2>5 DEF s_chunk_size_almost_done
  <2>7. CASE s.content_length = 0
    <3>1. PICK v : v = Goto(q, "s_header_field_start")
      OBVIOUS
    <3>2. Moves(v, q, "s_header_field_start")
      BY <2>4, <3>1, GotoIs, StatesAre
    <3>3. v \in Parsers /\ t = Flag(v, "TRAILING") /\ v.flags = s.flags
      BY <2>4, <2>6, <2>7, <3>1, <3>2 DEF Moves, Keeps, Fields
    <3>4. Keeps(t, v, {"flags"}) /\ t.flags = s.flags \cup {"TRAILING"}
      BY <3>3, FlagIs DEF Flags
    <3>5. /\ Keeps(t, s, {"nread", "expect", "announced", "state", "flags"})
          /\ t.nread = 0 /\ t.expect = x /\ t.announced = 0 /\ t.state = "s_header_field_start"
      BY <2>3, <3>2, <3>4 DEF Moves, Keeps, Fields
    <3> QED BY <1>1, <1>3, <2>1, <2>7, <3>4, <3>5 DEF ChunkStart
  <2>8. CASE s.content_length # 0
    <3>1. Moves(t, q, "s_chunk_data")
      BY <2>4, <2>6, <2>8, GotoIs, StatesAre
    <3>2. /\ Keeps(t, s, {"nread", "expect", "announced", "state", "flags"})
          /\ t.nread = 0 /\ t.expect = x /\ t.announced = 0 /\ t.state = "s_chunk_data"
          /\ t.flags = s.flags
      BY <2>3, <3>1 DEF Moves, Keeps, Fields
    <3>3. t.flags = s.flags \cup {}
      BY <3>2
    <3> QED BY <1>1, <1>3, <2>1, <2>8, <3>2, <3>3 DEF ChunkStart
  <2> QED BY <2>7, <2>8
<1> QED BY <1>2, <1>3

\* The data of a chunk, or the trailer, begins.
LEMMA s_chunk_size_almost_done_steps ==
  ASSUME NEW r, NEW ch, Reading(r, Parts(r, ch)), r.state = "s_chunk_size_almost_done"
  PROVE  Outcome(s_chunk_size_almost_done(r, ch))
<1>1. r \in Parsers /\ Parts(r, ch) = {}
  BY DEF Parts, Reading, Always, UrlStates
<1>2. PICK t : t = s_chunk_size_almost_done(r, ch)
  OBVIOUS
<1>3. ChunkStart(t, r, ch)
  BY <1>1, <1>2, s_chunk_size_almost_done_is
<1>4. CASE t = Fail(r, "STRICT")
  BY <1>2, <1>4, FailIs DEF Outcome, Errors
<1>5. CASE /\ Keeps(t, r, {"nread", "expect", "announced", "state", "flags"})
           /\ t.nread = 0 /\ t.expect = r.expect + r.announced /\ t.announced = 0
           /\ t.state = IF r.content_length = 0 THEN "s_header_field_start" ELSE "s_chunk_data"
           /\ t.flags = r.flags \cup (IF r.content_length = 0 THEN {"TRAILING"} ELSE {})
  <2>1. /\ r.expect = 0 /\ r.content_length = r.announced /\ r.announced < UllMax
        /\ "CHUNKED" \in r.flags /\ r.called = "headers"
        /\ \A e \in Elements : r.mark[e] = NoMark /\ r.due[e] = 0
    BY <1>1 DEF Reading, Always, LengthInv, BodyInv, MarksInv, OrderInv, Between, Fields,
      Parsers, States, RequestLine, HeaderStates, ChunkStates, ChunkSizeStates, UrlStates,
      Elements, NoMark, None
  <2>2. CASE r.content_length = 0
    <3>1. /\ Keeps(t, r, {"nread", "expect", "announced", "state", "flags"})
          /\ t.nread = 0 /\ t.expect = 0 /\ t.announced = 0 /\ t.state = "s_header_field_start"
          /\ "TRAILING" \in t.flags /\ "CHUNKED" \in t.flags /\ t.content_length = 0
      BY <1>5, <2>1, <2>2 DEF Keeps, Fields
    <3>2. Settled(t, 1)
      BY <1>1, <2>1, <3>1, LimitsAssumption DEF Reading, Settled, Always, MarksInv, LengthInv,
        BodyInv, OrderInv, SizeInv, LocalsInv, Between, Run, Keeps, Moves, Fields, Parsers,
        States, RequestLine, HeaderStates, ChunkStates, ChunkSizeStates, UrlStates, Elements,
        NoMark, None
    <3> QED BY <1>2, <3>2 DEF Outcome
  <2>3. CASE r.content_length # 0
    <3>1. /\ Keeps(t, r, {"nread", "expect", "announced", "state", "flags"})
          /\ t.nread = 0 /\ t.expect = r.announced /\ t.announced = 0 /\ t.state = "s_chunk_data"
          /\ "CHUNKED" \in t.flags /\ t.content_length = r.announced
      BY <1>1, <1>5, <2>1, <2>3 DEF Keeps, Fields, Parsers
    <3>2. r.announced \in 1 .. UllMax - 1
      BY <1>1, <2>1, <2>3, LimitsAssumption DEF Parsers
    <3>3. Settled(t, 1)
      BY <1>1, <2>1, <3>1, <3>2, LimitsAssumption DEF Reading, Settled, Always, MarksInv,
        LengthInv, BodyInv, OrderInv, SizeInv, LocalsInv, Between, Run, Keeps, Moves, Fields,
        Parsers, States, RequestLine, HeaderStates, ChunkStates, ChunkSizeStates, UrlStates,
        Elements, NoMark, None
    <3> QED BY <1>2, <3>3 DEF Outcome
  <2> QED BY <2>2, <2>3
<1> QED BY <1>3, <1>4, <1>5 DEF ChunkStart

\* Both parsers do the same.
LEMMA s_chunk_size_almost_done_matches ==
  ASSUME NEW r, NEW w, NEW ch, Reading(r, Parts(r, ch)), Reading(w, Parts(w, ch)), Paired(r, w),
         r.state = "s_chunk_size_almost_done", NEW b
  PROVE  Matched(s_chunk_size_almost_done(r, ch), s_chunk_size_almost_done(w, ch), b)
<1>1. /\ r \in Parsers /\ r.http_errno = "OK" /\ r.ahead = "none"
      /\ w \in Parsers /\ w.http_errno = "OK" /\ w.ahead = "none"
      /\ r.content_length = w.content_length /\ r.flags = w.flags /\ w.state = r.state
  BY ReadingHas DEF Paired, SameBut
<1>2. r.run = None /\ w.run = None
  BY <1>1 DEF Reading
<1>3. PICK t : t = s_chunk_size_almost_done(r, ch)
  OBVIOUS
<1>4. PICK u : u = s_chunk_size_almost_done(w, ch)
  OBVIOUS
<1>5. ChunkStart(t, r, ch) /\ ChunkStart(u, w, ch)
  BY <1>1, <1>3, <1>4, s_chunk_size_almost_done_is
<1>6. CASE ch # "LF"
  <2>1. t = Fail(r, "STRICT") /\ u = Fail(w, "STRICT")
    BY <1>5, <1>6 DEF ChunkStart
  <2> QED BY <1>3, <1>4, <2>1, FailIs, BothFail DEF Errors
<1>7. CASE ch = "LF"
  <2> DEFINE F == {"nread", "expect", "announced", "state", "flags"}
  <2>1. /\ Keeps(t, r, F) /\ Keeps(u, w, F) /\ t.nread = u.nread /\ t.announced = u.announced
        /\ t.state = u.state /\ t.flags = u.flags
    BY <1>1, <1>5, <1>7 DEF ChunkStart
  <2>2. Matched(t, u, b)
    BY <1>1, <1>2, <2>1, SameChange
  <2> QED BY <1>3, <1>4, <2>2
<1> QED BY <1>6, <1>7

\* What s_chunk_data does.
LEMMA s_chunk_data_is ==
  ASSUME NEW s \in Parsers, s.content_length > 0
  PROVE  LET t == s_chunk_data(s)
         IN  /\ Keeps(t, s, {"content_length", "mark", "state"})
             /\ t.content_length = s.content_length - 1
             /\ t.state = IF s.content_length = 1 THEN "s_chunk_data_almost_done" ELSE s.state
             /\ \A f \in Elements : t.mark[f] = IF f = "body" THEN Between(s, "body", 0)
                                                ELSE s.mark[f]
<1>1. PICK q : q = Mark([s EXCEPT !.content_length = @ - 1], "body")
  OBVIOUS
<1>2. /\ Keeps(q, s, {"content_length", "mark"})
      /\ q.content_length = s.content_length - 1
      /\ \A f \in Elements : q.mark[f] = IF f = "body" THEN Between(s, "body", 0) ELSE s.mark[f]
  BY <1>1, BodyByteIs
<1>3. PICK t : t = s_chunk_data(s)
  OBVIOUS
<1>4. t = IF q.content_length = 0 THEN Goto(q, "s_chunk_data_almost_done") ELSE q
  BY <1>1, <1>3 DEF s_chunk_data
<1>5. s.content_length \in Nat /\ q \in Parsers
  BY <1>2 DEF Keeps, Parsers
<1>6. CASE s.content_length = 1
  <2>1. Moves(t, q, "s_chunk_data_almost_done")
    BY <1>2, <1>4, <1>5, <1>6, GotoIs, StatesAre
  <2>2. /\ Keeps(t, s, {"content_length", "mark", "state"}) /\ t.mark = q.mark
        /\ t.content_length = s.content_length - 1 /\ t.state = "s_chunk_data_almost_done"
    BY <1>2, <2>1 DEF Moves, Keeps, Fields
  <2> QED BY <1>2, <1>3, <1>6, <2>2
<1>7. CASE s.content_length # 1
  <2>1. t = q
    BY <1>2, <1>4, <1>5, <1>7
  <2>2. Keeps(t, s, {"content_length", "mark", "state"}) /\ t.state = s.state
    BY <1>2, <2>1 DEF Keeps, Fields
  <2> QED BY <1>2, <1>3, <1>7, <2>1, <2>2
<1> QED BY <1>6, <1>7

\* A byte of a chunk.
LEMMA s_chunk_data_steps ==
  ASSUME NEW r, NEW ch, Reading(r, Parts(r, ch)), r.state = "s_chunk_data"
  PROVE  Outcome(s_chunk_data(r))
<1>1. /\ r \in Parsers /\ r.http_errno = "OK" /\ r.called = "headers" /\ r.content_length > 0
      /\ r.content_length \in 1 .. UllMax - 1 /\ "CHUNKED" \in r.flags
      /\ r.expect = r.content_length + Between(r, "body", 0)
      /\ r.size = 0 /\ r.run = None /\ ~r.skipped /\ r.ahead = "none" /\ ~r.returned
  BY LimitsAssumption DEF Reading, Always, BodyInv, OrderInv, Fields, Parsers, States,
    RequestLine, HeaderStates, ChunkStates, ChunkSizeStates, UrlStates, Elements, NoMark, None
<1>2. Parts(r, ch) = {"body"}
  BY DEF Parts, UrlStates
<1>3. PICK t : t = s_chunk_data(r)
  OBVIOUS
<1>4. /\ Keeps(t, r, {"content_length", "mark", "state"})
      /\ t.content_length = r.content_length - 1
      /\ t.state = IF r.content_length = 1 THEN "s_chunk_data_almost_done" ELSE r.state
      /\ \A f \in Elements : t.mark[f] = IF f = "body" THEN Between(r, "body", 0) ELSE r.mark[f]
  BY <1>1, <1>3, s_chunk_data_is
<1>5. /\ \A e \in Elements \ {"body"} : r.mark[e] = NoMark /\ r.due[e] = 0
      /\ r.due["body"] = Between(r, "body", 0) + 1
  BY <1>2 DEF Reading, Always, MarksInv, Between, UrlStates, Elements
<1>6. Between(r, "body", 0) \in Nat
  BY <1>1 DEF Between, Parsers, Elements
<1>7. SizeInv(t) /\ LocalsInv(t)
  BY <1>1, <1>4, LimitsAssumption DEF Reading, Always, SizeInv, LocalsInv, Run, Keeps, Fields,
     Parsers, None
<1>8. t.due = r.due /\ t.expect = r.expect /\ t.flags = r.flags /\ t.called = r.called
  BY <1>4 DEF Keeps, Fields
<1>9. /\ t.mark["body"] = Between(r, "body", 0) /\ t.mark["body"] # NoMark
      /\ \A e \in Elements \ {"body"} : t.mark[e] = NoMark
  BY <1>4, <1>5, <1>6 DEF Elements, NoMark
<1>10. Between(t, "body", 1) = Between(r, "body", 0) + 1
  BY <1>9 DEF Between
<1>11. \A e \in Elements : t.due[e] = Between(t, e, 1) + (IF e \in {} THEN 1 ELSE 0)
  BY <1>5, <1>6, <1>8, <1>9, <1>10 DEF Between
<1>12. MarksInv(t)
  BY <1>4, <1>9 DEF MarksInv, UrlStates, Elements
<1>13. BodyInv(t, 1)
  <2>1. t.expect = t.content_length + Between(t, "body", 1)
    BY <1>1, <1>4, <1>6, <1>8, <1>10
  <2>2. \/ t.state = "s_chunk_data" /\ t.content_length \in 1 .. UllMax - 1
        \/ /\ t.state = "s_chunk_data_almost_done" /\ t.content_length = 0
           /\ t.expect = Between(t, "body", 1)
    <3>1. CASE r.content_length = 1
      BY <1>4, <1>6, <1>10, <2>1, <3>1
    <3>2. CASE r.content_length # 1
      BY <1>1, <1>4, <3>2, LimitsAssumption
    <3> QED BY <3>1, <3>2
  <2> QED BY <1>1, <1>8, <2>1, <2>2 DEF BodyInv, ChunkStates, ChunkSizeStates
<1>14. LengthInv(t) /\ OrderInv(t)
  BY <1>1, <1>4 DEF LengthInv, OrderInv, Keeps, Fields, Parsers, States, RequestLine,
    HeaderStates, ChunkStates, ChunkSizeStates, UrlStates, Elements, NoMark, None
<1>15. Settled(t, 1)
  BY <1>1, <1>4, <1>7, <1>11, <1>12, <1>13, <1>14 DEF Settled, Always, Keeps, Fields
<1> QED BY <1>3, <1>15 DEF Outcome

\* Both parsers do the same.
LEMMA s_chunk_data_matches ==
  ASSUME NEW r, NEW w, NEW ch, Reading(r, Parts(r, ch)), Reading(w, Parts(w, ch)), Paired(r, w),
         r.state = "s_chunk_data", NEW b
  PROVE  Matched(s_chunk_data(r), s_chunk_data(w), b)
<1>1. r.content_length = w.content_length /\ w.state = r.state
  BY DEF Paired, SameBut
<1>2. /\ r \in Parsers /\ r.http_errno = "OK" /\ r.ahead = "none" /\ r.content_length > 0
      /\ w \in Parsers /\ w.http_errno = "OK" /\ w.ahead = "none" /\ w.content_length > 0
  BY <1>1, LimitsAssumption DEF Reading, Always, BodyInv
<1>3. PICK t : t = s_chunk_data(r)
  OBVIOUS
<1>4. PICK u : u = s_chunk_data(w)
  OBVIOUS
<1> DEFINE F == {"content_length", "mark", "state"}
<1>5. /\ Keeps(t, r, F) /\ Keeps(u, w, F)
      /\ t.content_length = u.content_length /\ t.state = u.state
  BY <1>1, <1>2, <1>3, <1>4, s_chunk_data_is
<1>6. Matched(t, u, b)
  BY <1>2, <1>5, SameChange
<1> QED BY <1>3, <1>4, <1>6

\* What s_chunk_data_almost_done does.
LEMMA s_chunk_data_almost_done_is ==
  ASSUME NEW s \in Parsers, s.called = "headers", NEW ch
  PROVE  LET t == s_chunk_data_almost_done(s, ch)
         IN  \/ ch # "CR" /\ t = Fail(s, "STRICT")
             \/ /\ ch = "CR"
                /\ Keeps(t, s, {"state", "mark", "due", "expect"})
                /\ t.state = "s_chunk_data_done"
                /\ t.expect = s.expect - Between(s, "body", 0)
                /\ \A f \in Elements : t.mark[f] = IF f = "body" THEN NoMark ELSE s.mark[f]
                /\ \A f \in Elements : t.due[f] = IF f = "body" THEN s.due[f] - Between(s, "body", 0)
                                                  ELSE s.due[f]
<1>1. CASE ch # "CR"
  BY <1>1 DEF s_chunk_data_almost_done
<1>2. CASE ch = "CR"
  <2>1. PICK q : q = Goto(s, "s_chunk_data_done")
    OBVIOUS
  <2>2. Moves(q, s, "s_chunk_data_done")
    BY <2>1, GotoIs, StatesAre
  <2>3. /\ q \in Parsers /\ q.called = "headers" /\ q.mark = s.mark /\ q.due = s.due
        /\ q.expect = s.expect
    BY <2>2 DEF Moves, Keeps, Fields
  <2>4. PICK t : t = CALLBACK_DATA(q, "body")
    OBVIOUS
  <2>5. /\ Keeps(t, q, {"mark", "due", "expect"})
        /\ \A f \in Elements : t.mark[f] = IF f = "body" THEN NoMark ELSE s.mark[f]
        /\ \A f \in Elements : t.due[f] = IF f = "body" /\ s.mark["body"] # NoMark
                                          THEN s.due[f] - s.mark[f] ELSE s.due[f]
        /\ t.expect = IF s.mark["body"] # NoMark THEN s.expect - s.mark["body"] ELSE s.expect
    BY <2>3, <2>4, CallbackIs DEF Elements
  <2>6. /\ t.expect = s.expect - Between(s, "body", 0)
        /\ \A f \in Elements : t.due[f] = IF f = "body" THEN s.due[f] - Between(s, "body", 0)
                                          ELSE s.due[f]
    BY <2>5 DEF Between, Parsers, Elements
  <2>7. Keeps(t, s, {"state", "mark", "due", "expect"}) /\ t.state = "s_chunk_data_done"
    BY <2>2, <2>5 DEF Moves, Keeps, Fields
  <2>8. s_chunk_data_almost_done(s, ch) = t
    BY <1>2, <2>1, <2>4 DEF s_chunk_data_almost_done
  <2> QED BY <1>2, <2>5, <2>6, <2>7, <2>8
<1> QED BY <1>1, <1>2

\* A chunk is handed over.
LEMMA s_chunk_data_almost_done_steps ==
  ASSUME NEW r, NEW ch, Reading(r, Parts(r, ch)), r.state = "s_chunk_data_almost_done"
  PROVE  Outcome(s_chunk_data_almost_done(r, ch))
<1>1. r \in Parsers /\ Parts(r, ch) = {} /\ r.called = "headers"
  BY DEF Parts, Reading, Always, OrderInv, Fields, Parsers, States, RequestLine, HeaderStates,
    ChunkStates, ChunkSizeStates, UrlStates, Elements, NoMark, None
<1>2. PICK t : t = s_chunk_data_almost_done(r, ch)
  OBVIOUS
<1>3. CASE t = Fail(r, "STRICT")
  BY <1>2, <1>3, FailIs DEF Outcome, Errors
<1>4. CASE /\ Keeps(t, r, {"state", "mark", "due", "expect"})
           /\ t.state = "s_chunk_data_done"
           /\ t.expect = r.expect - Between(r, "body", 0)
           /\ \A f \in Elements : t.mark[f] = IF f = "body" THEN NoMark ELSE r.mark[f]
           /\ \A f \in Elements : t.due[f] = IF f = "body" THEN r.due[f] - Between(r, "body", 0)
                                             ELSE r.due[f]
  <2>1. Between(r, "body", 0) \in Nat
    BY <1>1 DEF Between, Parsers, Elements
  <2>2. /\ r.expect = Between(r, "body", 0) /\ r.due["body"] = Between(r, "body", 0)
        /\ \A e \in Elements \ {"body"} : r.mark[e] = NoMark /\ r.due[e] = 0
    BY <1>1, <2>1 DEF Reading, Always, BodyInv, MarksInv, Between, UrlStates, Elements
  <2>3. t.expect = 0 /\ \A e \in Elements : t.mark[e] = NoMark /\ t.due[e] = 0
    BY <1>4, <2>1, <2>2
  <2>4. Keeps(t, r, {"state", "mark", "due", "expect"}) /\ t.state = "s_chunk_data_done"
    BY <1>4
  <2>5. Settled(t, 1)
    BY <1>1, <2>3, <2>4, LimitsAssumption DEF Reading, Settled, Always, MarksInv, LengthInv,
      BodyInv, OrderInv, SizeInv, LocalsInv, Between, Run, Keeps, Moves, Fields, Parsers, States,
      RequestLine, HeaderStates, ChunkStates, ChunkSizeStates, UrlStates, Elements, NoMark, None
  <2> QED BY <1>2, <2>5 DEF Outcome
<1> QED BY <1>1, <1>2, <1>3, <1>4, s_chunk_data_almost_done_is

\* Both parsers do the same.
LEMMA s_chunk_data_almost_done_matches ==
  ASSUME NEW r, NEW w, NEW ch, Reading(r, Parts(r, ch)), Reading(w, Parts(w, ch)), Paired(r, w),
         r.state = "s_chunk_data_almost_done", NEW b
  PROVE  Matched(s_chunk_data_almost_done(r, ch), s_chunk_data_almost_done(w, ch), b)
<1>1. /\ r \in Parsers /\ r.http_errno = "OK" /\ r.ahead = "none" /\ r.called = "headers"
      /\ w \in Parsers /\ w.http_errno = "OK" /\ w.ahead = "none" /\ w.called = "headers"
  BY DEF Reading, Always, OrderInv, Paired, SameBut, Fields, Parsers, States, RequestLine,
    HeaderStates, ChunkStates, ChunkSizeStates, UrlStates, Elements, NoMark, None
<1>2. PICK t : t = s_chunk_data_almost_done(r, ch)
  OBVIOUS
<1>3. PICK u : u = s_chunk_data_almost_done(w, ch)
  OBVIOUS
<1> DEFINE F == {"state", "mark", "due", "expect"}
<1>4. \/ Keeps(t, r, F) /\ Keeps(u, w, F) /\ t.state = u.state
      \/ t = Fail(r, "STRICT") /\ u = Fail(w, "STRICT")
  BY <1>1, <1>2, <1>3, s_chunk_data_almost_done_is
<1>5. CASE Keeps(t, r, F) /\ Keeps(u, w, F) /\ t.state = u.state
  <2>1. Matched(t, u, b)
    BY <1>1, <1>5, SameChange
  <2> QED BY <1>2, <1>3, <2>1
<1>6. CASE t = Fail(r, "STRICT") /\ u = Fail(w, "STRICT")
  BY <1>2, <1>3, <1>6, FailIs, BothFail DEF Errors
<1> QED BY <1>4, <1>5, <1>6

\* What s_chunk_data_done does.
LEMMA s_chunk_data_done_is ==
  ASSUME NEW s \in Parsers, NEW ch
  PROVE  LET t == s_chunk_data_done(s, ch)
         IN  \/ ch # "LF" /\ t = Fail(s, "STRICT")
             \/ /\ ch = "LF" /\ Keeps(t, s, {"nread", "state"})
                /\ t.nread = 0 /\ t.state = "s_chunk_size_start"
  BY StatesAre DEF s_chunk_data_done, Keeps, Parsers, Fields

\* The next chunk.
LEMMA s_chunk_data_done_steps ==
  ASSUME NEW r, NEW ch, Reading(r, Parts(r, ch)), r.state = "s_chunk_data_done"
  PROVE  Outcome(s_chunk_data_done(r, ch))
<1>1. r \in Parsers /\ Parts(r, ch) = {}
  BY DEF Parts, Reading, Always, UrlStates
<1>2. PICK t : t = s_chunk_data_done(r, ch)
  OBVIOUS
<1>3. CASE t = Fail(r, "STRICT")
  BY <1>2, <1>3, FailIs DEF Outcome, Errors
<1>4. CASE Keeps(t, r, {"nread", "state"}) /\ t.nread = 0 /\ t.state = "s_chunk_size_start"
  <2>1. Settled(t, 1)
    BY <1>1, <1>4, LimitsAssumption DEF Reading, Settled, Always, MarksInv, LengthInv, BodyInv,
      OrderInv, SizeInv, LocalsInv, Between, Run, Keeps, Moves, Fields, Parsers, States,
      RequestLine, HeaderStates, ChunkStates, ChunkSizeStates, UrlStates, Elements, NoMark, None
  <2> QED BY <1>2, <2>1 DEF Outcome
<1> QED BY <1>1, <1>2, <1>3, <1>4, s_chunk_data_done_is

\* Both parsers do the same.
LEMMA s_chunk_data_done_matches ==
  ASSUME NEW r, NEW w, NEW ch, Reading(r, Parts(r, ch)), Reading(w, Parts(w, ch)), Paired(r, w),
         r.state = "s_chunk_data_done", NEW b
  PROVE  Matched(s_chunk_data_done(r, ch), s_chunk_data_done(w, ch), b)
<1>1. /\ r \in Parsers /\ r.http_errno = "OK" /\ r.ahead = "none"
      /\ w \in Parsers /\ w.http_errno = "OK" /\ w.ahead = "none" /\ w.state = r.state
  BY ReadingHas DEF Paired, SameBut
<1>2. r.run = None /\ w.run = None
  BY <1>1 DEF Reading
<1>3. PICK t : t = s_chunk_data_done(r, ch)
  OBVIOUS
<1>4. PICK u : u = s_chunk_data_done(w, ch)
  OBVIOUS
<1> DEFINE F == {"nread", "state"}
<1>5. \/ Keeps(t, r, F) /\ Keeps(u, w, F) /\ t.state = u.state /\ t.nread = u.nread
      \/ t = Fail(r, "STRICT") /\ u = Fail(w, "STRICT")
  BY <1>1, <1>3, <1>4, s_chunk_data_done_is
<1>6. CASE Keeps(t, r, F) /\ Keeps(u, w, F) /\ t.state = u.state /\ t.nread = u.nread
  <2>1. Matched(t, u, b)
    BY <1>1, <1>2, <1>6, SameChange
  <2> QED BY <1>3, <1>4, <2>1
<1>7. CASE t = Fail(r, "STRICT") /\ u = Fail(w, "STRICT")
  BY <1>3, <1>4, <1>7, FailIs, BothFail DEF Errors
<1> QED BY <1>5, <1>6, <1>7

-----------------------------------------------------------------------------
(* The switch, a byte, and the end of a segment.                           *)

\* Every state has its case of the switch.
LEMMA StepIs ==
  ASSUME NEW s, NEW ch, NEW next
  PROVE  /\ s.state \in UrlStates => Step(s, ch, next) = s_req_url(s, ch)
         /\ s.state = "s_start_req" => Step(s, ch, next) = s_start_req(s, ch, next)
         /\ s.state = "s_req_method" => Step(s, ch, next) = s_req_method(s, ch)
         /\ s.state = "s_req_spaces_before_url" =>
              Step(s, ch, next) = s_req_spaces_before_url(s, ch)
         /\ s.state = "s_req_http_start" => Step(s, ch, next) = s_req_http_start(s, ch)
         /\ s.state = "s_req_http_end" => Step(s, ch, next) = s_req_http_end(s, ch)
         /\ s.state = "s_req_line_almost_done" => Step(s, ch, next) = s_req_line_almost_done(s, ch)
         /\ s.state = "s_header_field_start" => Step(s, ch, next) = s_header_field_start(s, ch)
         /\ s.state = "s_header_field" => Step(s, ch, next) = s_header_field(s, ch)
         /\ s.state = "s_header_value_discard_ws" =>
              Step(s, ch, next) = s_header_value_discard_ws(s, ch)
         /\ s.state = "s_header_value" => Step(s, ch, next) = s_header_value(s, ch)
         /\ s.state = "s_header_almost_done" => Step(s, ch, next) = s_header_almost_done(s, ch)
         /\ s.state = "s_header_value_lws" => Step(s, ch, next) = s_header_value_lws(s, ch)
         /\ s.state = "s_header_value_discard_ws_almost_done" =>
              Step(s, ch, next) = s_header_value_discard_ws_almost_done(s, ch)
         /\ s.state = "s_header_value_discard_lws" =>
              Step(s, ch, next) = s_header_value_discard_lws(s, ch)
         /\ s.state = "s_headers_almost_done" => Step(s, ch, next) = s_headers_almost_done(s, ch)
         /\ s.state = "s_body_identity" => Step(s, ch, next) = s_body_identity(s)
         /\ s.state = "s_chunk_size_start" => Step(s, ch, next) = s_chunk_size_start(s, ch)
         /\ s.state = "s_chunk_size" => Step(s, ch, next) = s_chunk_size(s, ch)
         /\ s.state = "s_chunk_parameters" => Step(s, ch, next) = s_chunk_parameters(s, ch)
         /\ s.state = "s_chunk_size_almost_done" =>
              Step(s, ch, next) = s_chunk_size_almost_done(s, ch)
         /\ s.state = "s_chunk_data" => Step(s, ch, next) = s_chunk_data(s)
         /\ s.state = "s_chunk_data_almost_done" =>
              Step(s, ch, next) = s_chunk_data_almost_done(s, ch)
         /\ s.state = "s_chunk_data_done" => Step(s, ch, next) = s_chunk_data_done(s, ch)
<1>1. ASSUME s.state \in UrlStates
      PROVE  Step(s, ch, next) = s_req_url(s, ch)
  BY <1>1 DEF Step, UrlStates
<1>2. ASSUME s.state = "s_start_req"
      PROVE  Step(s, ch, next) = s_start_req(s, ch, next)
  BY <1>2 DEF Step, UrlStates
<1>3. ASSUME s.state = "s_req_method"
      PROVE  Step(s, ch, next) = s_req_method(s, ch)
  BY <1>3 DEF Step, UrlStates
<1>4. ASSUME s.state = "s_req_spaces_before_url"
      PROVE  Step(s, ch, next) = s_req_spaces_before_url(s, ch)
  BY <1>4 DEF Step, UrlStates
<1>5. ASSUME s.state = "s_req_http_start"
      PROVE  Step(s, ch, next) = s_req_http_start(s, ch)
  BY <1>5 DEF Step, UrlStates
<1>6. ASSUME s.state = "s_req_http_end"
      PROVE  Step(s, ch, next) = s_req_http_end(s, ch)
  BY <1>6 DEF Step, UrlStates
<1>7. ASSUME s.state = "s_req_line_almost_done"
      PROVE  Step(s, ch, next) = s_req_line_almost_done(s, ch)
  BY <1>7 DEF Step, UrlStates
<1>8. ASSUME s.state = "s_header_field_start"
      PROVE  Step(s, ch, next) = s_header_field_start(s, ch)
  BY <1>8 DEF Step, UrlStates
<1>9. ASSUME s.state = "s_header_field"
      PROVE  Step(s, ch, next) = s_header_field(s, ch)
  BY <1>9 DEF Step, UrlStates
<1>10. ASSUME s.state = "s_header_value_discard_ws"
      PROVE  Step(s, ch, next) = s_header_value_discard_ws(s, ch)
  BY <1>10 DEF Step, UrlStates
<1>11. ASSUME s.state = "s_header_value"
      PROVE  Step(s, ch, next) = s_header_value(s, ch)
  BY <1>11 DEF Step, UrlStates
<1>12. ASSUME s.state = "s_header_almost_done"
      PROVE  Step(s, ch, next) = s_header_almost_done(s, ch)
  BY <1>12 DEF Step, UrlStates
<1>13. ASSUME s.state = "s_header_value_lws"
      PROVE  Step(s, ch, next) = s_header_value_lws(s, ch)
  BY <1>13 DEF Step, UrlStates
<1>14. ASSUME s.state = "s_header_value_discard_ws_almost_done"
      PROVE  Step(s, ch, next) = s_header_value_discard_ws_almost_done(s, ch)
  BY <1>14 DEF Step, UrlStates
<1>15. ASSUME s.state = "s_header_value_discard_lws"
      PROVE  Step(s, ch, next) = s_header_value_discard_lws(s, ch)
  BY <1>15 DEF Step, UrlStates
<1>16. ASSUME s.state = "s_headers_almost_done"
      PROVE  Step(s, ch, next) = s_headers_almost_done(s, ch)
  BY <1>16 DEF Step, UrlStates
<1>17. ASSUME s.state = "s_body_identity"
      PROVE  Step(s, ch, next) = s_body_identity(s)
  BY <1>17 DEF Step, UrlStates
<1>18. ASSUME s.state = "s_chunk_size_start"
      PROVE  Step(s, ch, next) = s_chunk_size_start(s, ch)
  BY <1>18 DEF Step, UrlStates
<1>19. ASSUME s.state = "s_chunk_size"
      PROVE  Step(s, ch, next) = s_chunk_size(s, ch)
  BY <1>19 DEF Step, UrlStates
<1>20. ASSUME s.state = "s_chunk_parameters"
      PROVE  Step(s, ch, next) = s_chunk_parameters(s, ch)
  BY <1>20 DEF Step, UrlStates
<1>21. ASSUME s.state = "s_chunk_size_almost_done"
      PROVE  Step(s, ch, next) = s_chunk_size_almost_done(s, ch)
  BY <1>21 DEF Step, UrlStates
<1>22. ASSUME s.state = "s_chunk_data"
      PROVE  Step(s, ch, next) = s_chunk_data(s)
  BY <1>22 DEF Step, UrlStates
<1>23. ASSUME s.state = "s_chunk_data_almost_done"
      PROVE  Step(s, ch, next) = s_chunk_data_almost_done(s, ch)
  BY <1>23 DEF Step, UrlStates
<1>24. ASSUME s.state = "s_chunk_data_done"
      PROVE  Step(s, ch, next) = s_chunk_data_done(s, ch)
  BY <1>24 DEF Step, UrlStates
<1> QED BY <1>1, <1>2, <1>3, <1>4, <1>5, <1>6, <1>7, <1>8, <1>9, <1>10, <1>11, <1>12, <1>13,
        <1>14, <1>15, <1>16, <1>17, <1>18, <1>19, <1>20, <1>21, <1>22, <1>23, <1>24

\* A field begins, or the header ends.
LEMMA FieldStartParts ==
  ASSUME NEW s, NEW ch
  PROVE  /\ s.state = "s_header_field_start" => Parts(s, ch) = FieldParts(ch)
         /\ s.state = "s_headers_almost_done" => Parts(s, ch) = {}
  BY DEF Parts, FieldParts, UrlStates

\* A byte that has been read makes the parser fail, or leaves it at rest.
LEMMA StepOutcome ==
  ASSUME NEW r, NEW ch, NEW next \in {"u", "other"}, Reading(r, Parts(r, ch))
  PROVE  Outcome(Step(r, ch, next))
<1>1. r.state \in States
  BY ReadingHas DEF Parsers
<1>2. CASE r.state \in UrlStates
  BY <1>2, StepIs, s_req_url_steps
<1>3. CASE r.state = "s_start_req"
  BY <1>3, StepIs, s_start_req_steps
<1>4. CASE r.state = "s_req_method"
  BY <1>4, StepIs, s_req_method_steps
<1>5. CASE r.state = "s_req_spaces_before_url"
  BY <1>5, StepIs, s_req_spaces_before_url_steps
<1>6. CASE r.state = "s_req_http_start"
  BY <1>6, StepIs, s_req_http_start_steps
<1>7. CASE r.state = "s_req_http_end"
  BY <1>7, StepIs, s_req_http_end_steps
<1>8. CASE r.state = "s_req_line_almost_done"
  BY <1>8, StepIs, s_req_line_almost_done_steps
<1>9. CASE r.state = "s_header_field_start"
  BY <1>9, StepIs, FieldStartParts, s_header_field_start_steps
<1>10. CASE r.state = "s_header_field"
  BY <1>10, StepIs, s_header_field_steps
<1>11. CASE r.state = "s_header_value_discard_ws"
  BY <1>11, StepIs, s_header_value_discard_ws_steps
<1>12. CASE r.state = "s_header_value"
  BY <1>12, StepIs, s_header_value_steps
<1>13. CASE r.state = "s_header_almost_done"
  BY <1>13, StepIs, s_header_almost_done_steps
<1>14. CASE r.state = "s_header_value_lws"
  BY <1>14, StepIs, s_header_value_lws_steps
<1>15. CASE r.state = "s_header_value_discard_ws_almost_done"
  BY <1>15, StepIs, s_header_value_discard_ws_almost_done_steps
<1>16. CASE r.state = "s_header_value_discard_lws"
  BY <1>16, StepIs, s_header_value_discard_lws_steps
<1>17. CASE r.state = "s_headers_almost_done"
  BY <1>17, StepIs, FieldStartParts, s_headers_almost_done_steps
<1>18. CASE r.state = "s_body_identity"
  BY <1>18, StepIs, s_body_identity_steps
<1>19. CASE r.state = "s_chunk_size_start"
  BY <1>19, StepIs, s_chunk_size_start_steps
<1>20. CASE r.state = "s_chunk_size"
  BY <1>20, StepIs, s_chunk_size_steps
<1>21. CASE r.state = "s_chunk_parameters"
  BY <1>21, StepIs, s_chunk_parameters_steps
<1>22. CASE r.state = "s_chunk_size_almost_done"
  BY <1>22, StepIs, s_chunk_size_almost_done_steps
<1>23. CASE r.state = "s_chunk_data"
  BY <1>23, StepIs, s_chunk_data_steps
<1>24. CASE r.state = "s_chunk_data_almost_done"
  BY <1>24, StepIs, s_chunk_data_almost_done_steps
<1>25. CASE r.state = "s_chunk_data_done"
  BY <1>25, StepIs, s_chunk_data_done_steps
<1> QED BY <1>1, <1>2, <1>3, <1>4, <1>5, <1>6, <1>7, <1>8, <1>9, <1>10, <1>11, <1>12, <1>13,
        <1>14, <1>15, <1>16, <1>17, <1>18, <1>19, <1>20, <1>21, <1>22, <1>23, <1>24, <1>25
  DEF States, RequestLine, HeaderStates, ChunkStates, ChunkSizeStates

\* The same byte makes both parsers do the same, but for the failures that the
\* cuts may add.
LEMMA StepMatches ==
  ASSUME NEW r, NEW w, NEW ch, NEW next1 \in {"u", "other"}, NEW next2 \in {"u", "other"}, NEW b,
         Reading(r, Parts(r, ch)), Reading(w, Parts(w, ch)), SameBut(r, w), CountsMore(r, w),
         \/ r.method = w.method
         \/ /\ r.state = "s_req_method"
            /\ r.index = 1 /\ r.method \in {"POST", "PUT"} /\ w.method \in {"POST", "PUT"}
            /\ w.method = "PUT" <=> ch = "u"
            /\ b
  PROVE  Matched(Step(r, ch, next1), Step(w, ch, next2), b)
<1>1. r.state \in States /\ w.state = r.state
  BY ReadingHas DEF Parsers, SameBut
<1>2. r.state # "s_req_method" => Paired(r, w)
  BY DEF Paired
<1>3. CASE r.state \in UrlStates
  <2>1. r.state # "s_req_method"
    BY <1>3 DEF UrlStates
  <2> QED BY <1>1, <1>2, <1>3, <2>1, StepIs, s_req_url_matches
<1>4. CASE r.state = "s_start_req"
  BY <1>1, <1>2, <1>4, StepIs, s_start_req_matches
<1>5. CASE r.state = "s_req_method"
  BY <1>1, <1>2, <1>5, StepIs, s_req_method_matches
<1>6. CASE r.state = "s_req_spaces_before_url"
  BY <1>1, <1>2, <1>6, StepIs, s_req_spaces_before_url_matches
<1>7. CASE r.state = "s_req_http_start"
  BY <1>1, <1>2, <1>7, StepIs, s_req_http_start_matches
<1>8. CASE r.state = "s_req_http_end"
  BY <1>1, <1>2, <1>8, StepIs, s_req_http_end_matches
<1>9. CASE r.state = "s_req_line_almost_done"
  BY <1>1, <1>2, <1>9, StepIs, s_req_line_almost_done_matches
<1>10. CASE r.state = "s_header_field_start"
  BY <1>1, <1>2, <1>10, StepIs, FieldStartParts, s_header_field_start_matches
<1>11. CASE r.state = "s_header_field"
  BY <1>1, <1>2, <1>11, StepIs, s_header_field_matches
<1>12. CASE r.state = "s_header_value_discard_ws"
  BY <1>1, <1>2, <1>12, StepIs, s_header_value_discard_ws_matches
<1>13. CASE r.state = "s_header_value"
  BY <1>1, <1>2, <1>13, StepIs, s_header_value_matches
<1>14. CASE r.state = "s_header_almost_done"
  BY <1>1, <1>2, <1>14, StepIs, s_header_almost_done_matches
<1>15. CASE r.state = "s_header_value_lws"
  BY <1>1, <1>2, <1>15, StepIs, s_header_value_lws_matches
<1>16. CASE r.state = "s_header_value_discard_ws_almost_done"
  BY <1>1, <1>2, <1>16, StepIs, s_header_value_discard_ws_almost_done_matches
<1>17. CASE r.state = "s_header_value_discard_lws"
  BY <1>1, <1>2, <1>17, StepIs, s_header_value_discard_lws_matches
<1>18. CASE r.state = "s_headers_almost_done"
  BY <1>1, <1>2, <1>18, StepIs, FieldStartParts, s_headers_almost_done_matches
<1>19. CASE r.state = "s_body_identity"
  BY <1>1, <1>2, <1>19, StepIs, s_body_identity_matches
<1>20. CASE r.state = "s_chunk_size_start"
  BY <1>1, <1>2, <1>20, StepIs, s_chunk_size_start_matches
<1>21. CASE r.state = "s_chunk_size"
  BY <1>1, <1>2, <1>21, StepIs, s_chunk_size_matches
<1>22. CASE r.state = "s_chunk_parameters"
  BY <1>1, <1>2, <1>22, StepIs, s_chunk_parameters_matches
<1>23. CASE r.state = "s_chunk_size_almost_done"
  BY <1>1, <1>2, <1>23, StepIs, s_chunk_size_almost_done_matches
<1>24. CASE r.state = "s_chunk_data"
  BY <1>1, <1>2, <1>24, StepIs, s_chunk_data_matches
<1>25. CASE r.state = "s_chunk_data_almost_done"
  BY <1>1, <1>2, <1>25, StepIs, s_chunk_data_almost_done_matches
<1>26. CASE r.state = "s_chunk_data_done"
  BY <1>1, <1>2, <1>26, StepIs, s_chunk_data_done_matches
<1> QED BY <1>1, <1>3, <1>4, <1>5, <1>6, <1>7, <1>8, <1>9, <1>10, <1>11, <1>12, <1>13, <1>14,
        <1>15, <1>16, <1>17, <1>18, <1>19, <1>20, <1>21, <1>22, <1>23, <1>24, <1>25, <1>26
  DEF States, RequestLine, HeaderStates, ChunkStates, ChunkSizeStates

\* http_parser_execute, one byte.
LEMMA ConsumeIs ==
  ASSUME NEW s, NEW ch, NEW next
  PROVE  Consume(s, ch, next) =
           IF Failed(Counted(s, ch)) THEN Counted(s, ch)
           ELSE Advance(Step(Counted(s, ch), ch, next))
  BY DEF Consume, Counted

\* A byte leaves the parser at rest, or in error.
LEMMA ConsumeSteps ==
  ASSUME NEW s, ParserInv(s), ~s.returned, NEW ch, NEW next \in {"u", "other"}
  PROVE  LET t == Consume(s, ch, next)
         IN  Failure(t) \/ (ParserInv(t) /\ ~Failed(t))
<1>1. PICK r : r = Counted(s, ch)
  OBVIOUS
<1>2. Failure(r) \/ (Reading(r, Parts(r, ch)) /\ ~Failed(r))
  BY <1>1, CountedReads
<1>3. CASE Failure(r)
  BY <1>1, <1>3, ConsumeIs DEF Failure, Failed
<1>4. CASE Reading(r, Parts(r, ch)) /\ ~Failed(r)
  <2>1. PICK t : t = Step(r, ch, next)
    OBVIOUS
  <2>2. Consume(s, ch, next) = Advance(t) /\ Outcome(t)
    BY <1>1, <1>4, <2>1, ConsumeIs, StepOutcome
  <2>3. CASE Failure(t)
    BY <2>2, <2>3, AdvanceFails
  <2>4. CASE Settled(t, 1)
    BY <2>2, <2>4, AdvanceSettles
  <2> QED BY <2>2, <2>3, <2>4 DEF Outcome
<1> QED BY <1>2, <1>3, <1>4

\* Two parsers that have read the same so far, and the same byte.
SameByte(s, w, b, ch) ==
  /\ ParserInv(s) /\ ParserInv(w) /\ ~s.returned /\ ~w.returned
  /\ Related(s, w, b)
  /\ s.ahead # "none" => (s.ahead = "u" <=> ch = "u")
  /\ w.ahead # "none" => (w.ahead = "u" <=> ch = "u")

\* Both have read the byte, unless the header of the one that was cut is too large.
LEMMA CountedMatches ==
  ASSUME NEW s, NEW w, NEW b, NEW ch, SameByte(s, w, b, ch)
  PROVE  LET r == Counted(s, ch)
             v == Counted(w, ch)
         IN  \/ Failure(r) /\ r.http_errno = "HEADER_OVERFLOW"
             \/ /\ ~Failed(r) /\ ~Failed(v)
                /\ Reading(r, Parts(r, ch)) /\ Reading(v, Parts(v, ch))
                /\ SameBut(r, v) /\ CountsMore(r, v)
                /\ \/ r.method = v.method
                   \/ /\ r.state = "s_req_method"
                      /\ r.index = 1 /\ r.method \in {"POST", "PUT"}
                      /\ v.method \in {"POST", "PUT"}
                      /\ v.method = "PUT" <=> ch = "u"
                      /\ b
<1>1. /\ s \in Parsers /\ w \in Parsers /\ s.http_errno = "OK" /\ w.http_errno = "OK"
      /\ LocalsInv(s) /\ LocalsInv(w) /\ s.state = w.state
  BY DEF SameByte, ParserInv, Settled, Always, Related, SameBut
<1>2. PICK r : r = Counted(s, ch)
  OBVIOUS
<1>3. PICK v : v = Counted(w, ch)
  OBVIOUS
<1>4. /\ \/ Failure(r) /\ r.http_errno = "HEADER_OVERFLOW"
         \/ Reading(r, Parts(r, ch)) /\ ~Failed(r)
      /\ \/ Failure(v) /\ v.http_errno = "HEADER_OVERFLOW"
         \/ Reading(v, Parts(v, ch)) /\ ~Failed(v)
  BY <1>2, <1>3, CountedReads DEF SameByte
<1>5. CASE Failure(r)
  BY <1>2, <1>4, <1>5 DEF Failed, Failure
<1>6. CASE ~Failed(r)
  <2> DEFINE n == IF PARSING_HEADER(s.state) /\ s.run = None THEN 1 ELSE 0
             m == IF PARSING_HEADER(w.state) /\ w.run = None THEN 1 ELSE 0
  <2>1. ~(n = 1 /\ s.nread + 1 > MaxHeader)
    <3>1. n = 1 /\ s.nread + 1 > MaxHeader => r = Fail(s, "HEADER_OVERFLOW")
      BY <1>1, <1>2, CountedIs
    <3>2. Failed(Fail(s, "HEADER_OVERFLOW"))
      BY FailIs DEF Failed, Errors
    <3> QED BY <1>6, <3>1, <3>2
  <2>2. /\ s.nread \in Nat /\ w.nread \in Nat /\ Run(s) \in Nat /\ Run(w) \in Nat
        /\ s.nread + Run(s) >= w.nread + Run(w)
        /\ s.run # None => w.run # None
        /\ m = 1 => n = 1 /\ s.run = None /\ w.run = None
        /\ n = 1 => s.run = None
        /\ s.run = None => Run(s) = 0
        /\ w.run = None => Run(w) = 0
        /\ n \in {0, 1} /\ m \in {0, 1}
    BY <1>1 DEF SameByte, Related, CountsMore, Run, Parsers
  <2>3. ~(m = 1 /\ w.nread + 1 > MaxHeader)
    BY <2>1, <2>2, LimitsAssumption
  <2>4. /\ Keeps(r, s, {"due", "size", "ahead", "nread"})
        /\ r.size = IF s.called = "begin" THEN s.size + 1 ELSE 0
        /\ r.nread = s.nread + n
    BY <1>1, <1>2, <2>1, CountedIs
  <2>5. /\ Keeps(v, w, {"due", "size", "ahead", "nread"})
        /\ v.size = IF w.called = "begin" THEN w.size + 1 ELSE 0
        /\ v.nread = w.nread + m
    BY <1>1, <1>3, <2>3, CountedIs
  <2> HIDE DEF n, m
  <2>6. /\ r.run = s.run /\ r.skipped = s.skipped /\ r.method = s.method /\ r.state = s.state
        /\ r.index = s.index
        /\ v.run = w.run /\ v.skipped = w.skipped /\ v.method = w.method
        /\ v.http_errno = w.http_errno
    BY <2>4, <2>5 DEF Keeps, Fields
  <2>7. SameBut(r, v)
    BY <2>4, <2>5 DEF SameByte, Related, SameBut, Keeps, Fields
  <2>8. CountsMore(r, v)
    <3>1. Run(r) = Run(s) /\ Run(v) = Run(w)
      BY <2>6 DEF Run
    <3>2. s.nread + n + Run(s) >= w.nread + m + Run(w)
      BY <2>2
    <3> QED BY <2>4, <2>5, <2>6, <3>1, <3>2 DEF SameByte, Related, CountsMore
  <2>9. ~Failed(v)
    BY <1>1, <2>6 DEF Failed
  <2>10. \/ r.method = v.method
         \/ /\ r.state = "s_req_method"
            /\ r.index = 1 /\ r.method \in {"POST", "PUT"} /\ v.method \in {"POST", "PUT"}
            /\ v.method = "PUT" <=> ch = "u"
            /\ b
    BY <1>1, <2>6 DEF SameByte, Related, LocalsInv
  <2> QED BY <1>2, <1>3, <1>4, <1>6, <2>7, <2>8, <2>9, <2>10 DEF Failure, Failed
<1> QED BY <1>4, <1>5, <1>6

\* p++ changes nothing that matters to the relation.
LEMMA AdvanceMatches ==
  ASSUME NEW t, NEW u, NEW b, Outcome(t), Outcome(u), Matched(t, u, b)
  PROVE  Matched(Advance(t), Advance(u), b)
<1>1. /\ Failed(t) => Advance(t) = t
      /\ Failed(u) => Advance(u) = u
  BY AdvanceFails DEF Outcome, Failed, Settled, Always
<1>2. /\ Settled(t, 1) => ~Failed(Advance(t))
      /\ Settled(u, 1) => ~Failed(Advance(u))
      /\ ~Failed(t) => Settled(t, 1)
      /\ ~Failed(u) => Settled(u, 1)
  BY AdvanceSettles DEF Outcome, Failure, Failed
<1>3. CASE Failed(t)
  BY <1>1, <1>2, <1>3 DEF Matched
<1>4. CASE ~Failed(t)
  <2>1. ~Failed(u) /\ Related(t, u, FALSE)
    BY <1>4 DEF Matched
  <2>2. t \in Parsers /\ u \in Parsers
    BY <1>2, <1>4, <2>1 DEF Settled, Always
  <2>3. PICK x : x = Advance(t)
    OBVIOUS
  <2>4. PICK y : y = Advance(u)
    OBVIOUS
  <2>5. Keeps(x, t, {"mark"}) /\ Keeps(y, u, {"mark"})
    BY <2>2, <2>3, <2>4, AdvanceIs
  <2>6. Related(x, y, FALSE)
    BY <2>1, <2>5 DEF Related, SameBut, CountsMore, Run, Keeps, Fields
  <2> QED BY <1>2, <1>4, <2>1, <2>3, <2>4, <2>6 DEF Matched
<1> QED BY <1>3, <1>4

\* Both parsers consume the same byte.
LEMMA ConsumeMatches ==
  ASSUME NEW s, NEW w, NEW b, NEW ch, SameByte(s, w, b, ch),
         NEW next1 \in {"u", "other"}, NEW next2 \in {"u", "other"}
  PROVE  Matched(Consume(s, ch, next1), Consume(w, ch, next2), b)
<1>1. PICK r : r = Counted(s, ch)
  OBVIOUS
<1>2. PICK v : v = Counted(w, ch)
  OBVIOUS
<1>3. CASE Failure(r) /\ r.http_errno = "HEADER_OVERFLOW"
  <2>1. Consume(s, ch, next1) = r
    BY <1>1, <1>3, ConsumeIs DEF Failed
  <2> QED BY <1>3, <2>1 DEF Matched, Failed
<1>4. CASE /\ ~Failed(r) /\ ~Failed(v)
           /\ Reading(r, Parts(r, ch)) /\ Reading(v, Parts(v, ch))
           /\ SameBut(r, v) /\ CountsMore(r, v)
           /\ \/ r.method = v.method
              \/ /\ r.state = "s_req_method"
                 /\ r.index = 1 /\ r.method \in {"POST", "PUT"} /\ v.method \in {"POST", "PUT"}
                 /\ v.method = "PUT" <=> ch = "u"
                 /\ b
  <2>1. /\ Consume(s, ch, next1) = Advance(Step(r, ch, next1))
        /\ Consume(w, ch, next2) = Advance(Step(v, ch, next2))
    BY <1>1, <1>2, <1>4, ConsumeIs
  <2>2. Outcome(Step(r, ch, next1)) /\ Outcome(Step(v, ch, next2))
    BY <1>4, StepOutcome
  <2>3. Matched(Step(r, ch, next1), Step(v, ch, next2), b)
    BY <1>4, StepMatches
  <2> QED BY <2>1, <2>2, <2>3, AdvanceMatches
<1> QED BY <1>1, <1>2, <1>3, <1>4, CountedMatches

\* The states in which an element is marked again when a segment begins.
Resumed(s, e) ==
  \/ e = "header_field" /\ s.state = "s_header_field"
  \/ e = "header_value" /\ s.state = "s_header_value"
  \/ e = "url" /\ s.state \in UrlStates

\* The marks that http_parser_execute sets when it is called again.
LEMMA ResumeIs ==
  ASSUME NEW s \in Parsers
  PROVE  /\ Keeps(Resume(s), s, {"mark", "ahead", "returned"})
         /\ Resume(s).ahead = "none" /\ Resume(s).returned = FALSE
         /\ \A e \in Elements : Resume(s).mark[e] = IF Resumed(s, e) THEN 0 ELSE NoMark
<1> DEFINE g == [e \in Elements |-> IF Resumed(s, e) THEN 0 ELSE NoMark]
<1>1. g \in [Elements -> Nat \cup {NoMark}]
  OBVIOUS
<1>2. \A e \in Elements : g[e] = IF Resumed(s, e) THEN 0 ELSE NoMark
  OBVIOUS
<1>3. Resume(s) = [s EXCEPT !.mark = g, !.ahead = "none", !.returned = FALSE]
  BY DEF Resume, Resumed
<1> HIDE DEF g
<1>4. /\ Keeps(Resume(s), s, {"mark", "ahead", "returned"}) /\ Resume(s).mark = g
      /\ Resume(s).ahead = "none" /\ Resume(s).returned = FALSE
  BY <1>1, <1>3 DEF Keeps, Parsers, Fields
<1> QED BY <1>2, <1>4

\* The end of a segment: what is marked is handed over.
Resumes(t, s) ==
  /\ Keeps(t, s, {"nread", "run", "skipped", "mark", "due", "expect", "ahead", "returned"})
  /\ t.nread = s.nread + Run(s) /\ t.run = None /\ t.skipped = FALSE
  /\ t.ahead = "none" /\ t.returned = FALSE
  /\ t.expect = s.expect - Between(s, "body", 0)
  /\ \A e \in Elements : t.due[e] = s.due[e] - Between(s, e, 0)
  /\ \A e \in Elements : t.mark[e] = IF Resumed(s, e) THEN 0 ELSE NoMark

\* The four callbacks at the end of a segment come in their turn.
LEMMA FlushIs ==
  ASSUME NEW s, NEW y \in Parsers, ParserInv(s),
         Keeps(y, s, {"nread", "run", "skipped"})
  PROVE  LET z == CALLBACK_DATA(CALLBACK_DATA(CALLBACK_DATA(CALLBACK_DATA(y, "header_field"),
                                                            "header_value"), "url"), "body")
         IN  /\ Keeps(z, y, {"mark", "due", "expect"})
             /\ z.expect = s.expect - Between(s, "body", 0)
             /\ \A e \in Elements : z.due[e] = s.due[e] - Between(s, e, 0)
<1>1. /\ y.mark = s.mark /\ y.due = s.due /\ y.expect = s.expect /\ y.called = s.called
      /\ y.flags = s.flags
  BY DEF Keeps, Fields
<1>2. /\ s \in Parsers
      /\ s.mark["header_field"] # NoMark =>
           s.called = IF "TRAILING" \in s.flags THEN "headers" ELSE "begin"
      /\ s.mark["header_value"] # NoMark =>
           s.called = IF "TRAILING" \in s.flags THEN "headers" ELSE "begin"
      /\ s.mark["url"] # NoMark => s.called = "begin" /\ s.flags = {}
      /\ s.mark["body"] # NoMark => s.called = "headers"
  BY DEF ParserInv, Settled, Always, MarksInv, OrderInv, LengthInv, Fields, Parsers, States,
    RequestLine, HeaderStates, ChunkStates, ChunkSizeStates, UrlStates, Elements, NoMark, None
<1>3. PICK f : f = CALLBACK_DATA(y, "header_field")
  OBVIOUS
<1>4. /\ Keeps(f, y, {"mark", "due", "expect"}) /\ f.expect = y.expect
      /\ \A e \in Elements : f.mark[e] = IF e = "header_field" THEN NoMark ELSE y.mark[e]
      /\ \A e \in Elements : f.due[e] = IF e = "header_field" /\ y.mark["header_field"] # NoMark
                                        THEN y.due[e] - y.mark[e] ELSE y.due[e]
  BY <1>1, <1>2, <1>3, CallbackIs DEF Elements
<1>5. f \in Parsers /\ f.called = s.called /\ f.flags = s.flags
  BY <1>1, <1>4 DEF Keeps, Fields
<1>6. PICK v : v = CALLBACK_DATA(f, "header_value")
  OBVIOUS
<1>7. /\ Keeps(v, f, {"mark", "due", "expect"}) /\ v.expect = f.expect
      /\ \A e \in Elements : v.mark[e] = IF e = "header_value" THEN NoMark ELSE f.mark[e]
      /\ \A e \in Elements : v.due[e] = IF e = "header_value" /\ f.mark["header_value"] # NoMark
                                        THEN f.due[e] - f.mark[e] ELSE f.due[e]
  BY <1>1, <1>2, <1>4, <1>5, <1>6, CallbackIs DEF Elements
<1>8. v \in Parsers /\ v.called = s.called /\ v.flags = s.flags
  BY <1>5, <1>7 DEF Keeps, Fields
<1>9. PICK u : u = CALLBACK_DATA(v, "url")
  OBVIOUS
<1>10. v.mark["url"] = s.mark["url"]
  BY <1>1, <1>4, <1>7 DEF Elements
<1>11. /\ Keeps(u, v, {"mark", "due", "expect"}) /\ u.expect = v.expect
       /\ \A e \in Elements : u.mark[e] = IF e = "url" THEN NoMark ELSE v.mark[e]
       /\ \A e \in Elements : u.due[e] = IF e = "url" /\ v.mark["url"] # NoMark
                                         THEN v.due[e] - v.mark[e] ELSE v.due[e]
  BY <1>2, <1>8, <1>9, <1>10, CallbackIs DEF Elements
<1>12. u \in Parsers /\ u.called = s.called /\ u.flags = s.flags
  BY <1>8, <1>11 DEF Keeps, Fields
<1>13. PICK z : z = CALLBACK_DATA(u, "body")
  OBVIOUS
<1>14. u.mark["body"] = s.mark["body"]
  BY <1>1, <1>4, <1>7, <1>11 DEF Elements
<1>15. /\ Keeps(z, u, {"mark", "due", "expect"})
       /\ \A e \in Elements : z.due[e] = IF e = "body" /\ u.mark["body"] # NoMark
                                         THEN u.due[e] - u.mark[e] ELSE u.due[e]
       /\ z.expect = IF u.mark["body"] # NoMark THEN u.expect - u.mark["body"] ELSE u.expect
  BY <1>2, <1>12, <1>13, <1>14, CallbackIs DEF Elements
<1>16. Keeps(z, y, {"mark", "due", "expect"})
  BY <1>4, <1>7, <1>11, <1>15 DEF Keeps, Fields
<1>17. z.expect = s.expect - Between(s, "body", 0)
  BY <1>1, <1>2, <1>4, <1>7, <1>11, <1>14, <1>15 DEF Between, Parsers, Elements
<1>18. ASSUME NEW e \in Elements
       PROVE  z.due[e] = s.due[e] - Between(s, e, 0)
  BY <1>1, <1>2, <1>4, <1>7, <1>11, <1>15, <1>18 DEF Between, Parsers, Elements
<1> QED BY <1>3, <1>6, <1>9, <1>13, <1>16, <1>17, <1>18

\* The end of a segment, and the next call.
LEMMA EndSegmentIs ==
  ASSUME NEW s, ParserInv(s)
  PROVE  LET t == EndSegment(s)
         IN  \/ /\ s.run # None /\ s.nread + Run(s) > MaxHeader
                /\ t = Fail(s, "HEADER_OVERFLOW")
             \/ ~(s.nread + Run(s) > MaxHeader) /\ Resumes(t, s)
<1>1. /\ s \in Parsers /\ s.http_errno = "OK" /\ s.nread <= MaxHeader /\ s.nread \in Nat
      /\ s.skipped => s.run # None
  BY DEF ParserInv, Settled, Always, SizeInv, LocalsInv, Parsers
<1>2. PICK y : y = IF s.run = None THEN s ELSE EndRun(s)
  OBVIOUS
<1>3. CASE s.run # None /\ s.nread + Run(s) > MaxHeader
  <2>1. y = Fail(s, "HEADER_OVERFLOW")
    BY <1>1, <1>2, <1>3, EndRunIs DEF Run
  <2>2. Failed(y)
    BY <2>1, FailIs DEF Failed, Errors
  <2>3. EndSegment(s) = y
    BY <1>2, <2>2 DEF EndSegment
  <2> QED BY <1>3, <2>1, <2>3
<1>4. CASE ~(s.run # None /\ s.nread + Run(s) > MaxHeader)
  <2>1. /\ Keeps(y, s, {"nread", "run", "skipped"})
        /\ y.nread = s.nread + Run(s) /\ y.run = None /\ y.skipped = FALSE
        /\ ~(s.nread + Run(s) > MaxHeader)
    <3>1. CASE s.run = None
      <4>1. y = s /\ Run(s) = 0
        BY <1>2, <3>1 DEF Run
      <4>2. s.skipped = FALSE
        BY <1>1, <3>1 DEF Parsers
      <4> QED BY <1>1, <3>1, <4>1, <4>2, LimitsAssumption DEF Keeps
    <3>2. CASE s.run # None
      <4>1. /\ Keeps(y, s, {"nread", "run", "skipped"})
            /\ y.nread = s.nread + Run(s) /\ y.run = None /\ ~y.skipped
            /\ ~(s.nread + Run(s) > MaxHeader)
        BY <1>1, <1>2, <1>4, <3>2, EndRunIs DEF Run
      <4>2. y.skipped = FALSE
        BY <4>1 DEF Keeps, Parsers
      <4> QED BY <4>1, <4>2
    <3> QED BY <3>1, <3>2
  <2>2. y \in Parsers /\ ~Failed(y) /\ y.state = s.state
    BY <1>1, <2>1 DEF Keeps, Fields, Failed
  <2>3. PICK z : z = CALLBACK_DATA(CALLBACK_DATA(CALLBACK_DATA(CALLBACK_DATA(y, "header_field"),
                                                               "header_value"), "url"), "body")
    OBVIOUS
  <2>4. /\ Keeps(z, y, {"mark", "due", "expect"})
        /\ z.expect = s.expect - Between(s, "body", 0)
        /\ \A e \in Elements : z.due[e] = s.due[e] - Between(s, e, 0)
    BY <2>1, <2>2, <2>3, FlushIs
  <2>5. z \in Parsers /\ z.state = s.state
    BY <2>2, <2>4 DEF Keeps, Fields
  <2>6. PICK t : t = Resume(z)
    OBVIOUS
  <2>7. EndSegment(s) = t
    BY <1>2, <2>2, <2>3, <2>6 DEF EndSegment
  <2>8. /\ Keeps(t, z, {"mark", "ahead", "returned"})
        /\ t.ahead = "none" /\ t.returned = FALSE
        /\ \A e \in Elements : t.mark[e] = IF Resumed(z, e) THEN 0 ELSE NoMark
    BY <2>5, <2>6, ResumeIs
  <2>9. \A e \in Elements : t.mark[e] = IF Resumed(s, e) THEN 0 ELSE NoMark
    BY <2>5, <2>8 DEF Resumed
  <2>10. Keeps(t, s, {"nread", "run", "skipped", "mark", "due", "expect", "ahead", "returned"})
    BY <2>1, <2>4, <2>8 DEF Keeps, Fields
  <2>11. /\ t.nread = s.nread + Run(s) /\ t.run = None /\ t.skipped = FALSE
         /\ t.expect = z.expect /\ t.due = z.due
    BY <2>1, <2>4, <2>8 DEF Keeps, Fields
  <2> QED BY <2>1, <2>4, <2>7, <2>8, <2>9, <2>10, <2>11 DEF Resumes
<1> QED BY <1>3, <1>4

\* A parser that is called again is at rest.
LEMMA ResumesSettles ==
  ASSUME NEW s, NEW t, ParserInv(s), Resumes(t, s), ~(s.nread + Run(s) > MaxHeader)
  PROVE  ParserInv(t) /\ ~Failed(t)
<1>1. s \in Parsers /\ s.http_errno = "OK"
  BY DEF ParserInv, Settled, Always
<1>2. /\ t \in Parsers /\ t.state = s.state /\ t.http_errno = "OK" /\ t.flags = s.flags
      /\ t.called = s.called /\ t.header_state = s.header_state /\ t.size = s.size
      /\ t.content_length = s.content_length /\ t.announced = s.announced
  BY <1>1 DEF Resumes, Keeps, Fields
<1>3. \A e \in Elements : t.due[e] = 0
  <2>1. ASSUME NEW e \in Elements
        PROVE  Between(s, e, 0) \in Int /\ s.due[e] = Between(s, e, 0) + 0
    <3>1. s.due[e] = Between(s, e, 0) + (IF e \in {} THEN 1 ELSE 0)
      BY DEF ParserInv, Settled, Always
    <3>2. Between(s, e, 0) \in Int
      BY <1>1, <2>1 DEF Between, Parsers
    <3> QED BY <3>1, <3>2
  <2> QED BY <2>1 DEF Resumes
<1>4. \A e \in Elements : Between(t, e, 0) = 0
  BY DEF Resumes, Between
<1>5. \A e \in Elements : t.due[e] = Between(t, e, 0) + (IF e \in {} THEN 1 ELSE 0)
  BY <1>3, <1>4
<1>6. MarksInv(t)
  <2>1. \A e \in Elements : t.mark[e] # NoMark <=> Resumed(s, e)
    BY DEF Resumes, NoMark
  <2>2. Elements = {"url", "header_field", "header_value", "body"}
    BY DEF Elements
  <2> QED BY <1>2, <2>1, <2>2 DEF MarksInv, Resumed
<1>7. LengthInv(t) /\ OrderInv(t)
  BY <1>2 DEF ParserInv, Settled, Always, LengthInv, OrderInv
<1>8. BodyInv(t, 0)
  <2>1. t.expect = s.expect - Between(s, "body", 0) /\ Between(t, "body", 0) = 0
    BY <1>4 DEF Resumes, Elements
  <2>2. Between(s, "body", 0) \in Nat /\ s.content_length \in Nat
    BY <1>1 DEF Between, Parsers, Elements
  <2>3. s.state \notin {"s_body_identity", "s_chunk_data", "s_chunk_data_almost_done"} =>
          Between(s, "body", 0) = 0
    BY DEF ParserInv, Settled, Always, MarksInv, Between
  <2>4. BodyInv(s, 0)
    BY DEF ParserInv, Settled, Always
  <2> QED BY <1>2, <2>1, <2>2, <2>3, <2>4 DEF BodyInv
<1>9. SizeInv(t) /\ LocalsInv(t) /\ (t.state = "s_chunk_size_start" => t.nread = 0)
  <2>1. /\ t.nread = s.nread + Run(s) /\ t.run = None /\ t.skipped = FALSE
        /\ t.ahead = "none" /\ t.returned = FALSE
    BY DEF Resumes
  <2>2. SizeInv(s) /\ LocalsInv(s) /\ (s.state = "s_chunk_size_start" => s.nread = 0)
    BY DEF ParserInv, Settled
  <2>3. /\ s.nread \in Nat /\ Run(s) \in Nat /\ s.size \in Nat
        /\ s.run = None => Run(s) = 0
    BY <1>1 DEF Run, Parsers
  <2>4. Run(t) = 0
    BY <2>1 DEF Run
  <2>5. SizeInv(t)
    BY <1>2, <2>1, <2>2, <2>3, <2>4, LimitsAssumption DEF SizeInv
  <2>6. LocalsInv(t)
    BY <2>1 DEF LocalsInv
  <2> QED BY <1>2, <2>1, <2>2, <2>3, <2>5, <2>6 DEF LocalsInv
<1> QED BY <1>2, <1>5, <1>6, <1>7, <1>8, <1>9 DEF ParserInv, Settled, Always, Failed

\* The parser that was cut and the one that was not stay related.
LEMMA CutMatches ==
  ASSUME NEW s, NEW w, NEW b, NEW d, ParserInv(s), ParserInv(w), Related(s, w, b),
         b \/ s.ahead # "none" => d
  PROVE  LET t == EndSegment(s)
             u == IF w.returned THEN EndSegment(w) ELSE w
         IN  /\ ParserInv(u) /\ ~Failed(u)
             /\ \/ Failure(t) /\ t.http_errno = "HEADER_OVERFLOW"
                \/ ParserInv(t) /\ ~Failed(t) /\ Related(t, u, d)
<1>1. PICK t : t = EndSegment(s)
  OBVIOUS
<1>2. PICK u : u = IF w.returned THEN EndSegment(w) ELSE w
  OBVIOUS
<1>3. /\ s \in Parsers /\ w \in Parsers /\ w.http_errno = "OK" /\ s.returned = w.returned
      /\ LocalsInv(s) /\ LocalsInv(w) /\ s.state = w.state /\ w.nread <= MaxHeader
      /\ w.nread \in Nat /\ s.nread \in Nat /\ Run(s) \in Nat /\ Run(w) \in Nat
      /\ s.nread + Run(s) >= w.nread + Run(w)
  BY DEF ParserInv, Settled, Always, SizeInv, Related, SameBut, CountsMore, Run, Parsers
<1>4. /\ ParserInv(u) /\ ~Failed(u)
      /\ Keeps(u, w, {"nread", "run", "skipped", "mark", "due", "expect", "ahead", "returned"})
      /\ u.nread = w.nread /\ u.run = w.run /\ u.skipped = w.skipped /\ u.ahead = w.ahead
      /\ u.returned = FALSE
  <2>1. CASE w.returned
    <3>1. w.run = None /\ Run(w) = 0 /\ w.ahead = "none" /\ w.skipped = FALSE
      BY <1>3, <2>1 DEF LocalsInv, Run, Parsers
    <3>2. ~(w.nread + Run(w) > MaxHeader)
      BY <1>3, <3>1, LimitsAssumption
    <3>3. Resumes(u, w)
      BY <1>2, <2>1, <3>1, <3>2, EndSegmentIs
    <3>4. ParserInv(u) /\ ~Failed(u)
      BY <3>2, <3>3, ResumesSettles
    <3>5. u.nread = w.nread
      BY <1>3, <3>1, <3>3 DEF Resumes
    <3> QED BY <3>1, <3>3, <3>4, <3>5 DEF Resumes
  <2>2. CASE ~w.returned
    <3>1. u = w /\ w.returned = FALSE
      BY <1>2, <1>3, <2>2 DEF Parsers
    <3> QED BY <1>3, <3>1 DEF Keeps, Failed
  <2> QED BY <2>1, <2>2
<1>5. CASE t = Fail(s, "HEADER_OVERFLOW")
  <2>1. Failure(t) /\ t.http_errno = "HEADER_OVERFLOW"
    BY <1>5, FailIs DEF Errors
  <2> QED BY <1>1, <1>2, <1>4, <2>1
<1>6. CASE ~(s.nread + Run(s) > MaxHeader) /\ Resumes(t, s)
  <2>1. ParserInv(t) /\ ~Failed(t)
    BY <1>6, ResumesSettles
  <2>2. /\ Keeps(t, s, {"nread", "run", "skipped", "mark", "due", "expect", "ahead", "returned"})
        /\ t.nread = s.nread + Run(s) /\ t.run = None /\ t.skipped = FALSE
        /\ t.ahead = "none" /\ t.returned = FALSE
    BY <1>6 DEF Resumes
  <2>3. SameBut(t, u)
    BY <1>4, <2>2 DEF Related, SameBut, Keeps, Fields
  <2>4. CountsMore(t, u)
    <3>1. Run(t) = 0 /\ Run(u) = Run(w)
      BY <1>4, <2>2 DEF Run
    <3> QED BY <1>3, <1>4, <2>2, <3>1 DEF CountsMore
  <2>5. t.method = s.method /\ t.state = s.state /\ t.index = s.index /\ u.method = w.method
    BY <1>4, <2>2 DEF Keeps, Fields
  <2>6. Related(t, u, d)
    BY <1>4, <2>2, <2>3, <2>4, <2>5 DEF Related
  <2> QED BY <1>1, <1>2, <1>4, <2>1, <2>6
<1> QED BY <1>1, <1>5, <1>6, EndSegmentIs

-----------------------------------------------------------------------------
(* The two parsers, whatever they are fed and wherever the stream is cut.  *)

\* A parser in error has nothing but its error; one that is not is at rest; and
\* if neither is in error they are related.
BothInv ==
  /\ Failed(cut) => Failure(cut)
  /\ Failed(whole) => Failure(whole)
  /\ ~Failed(cut) => ParserInv(cut) /\ ~Failed(whole)
  /\ ~Failed(whole) => ParserInv(whole)
  /\ ~Failed(cut) /\ ~Failed(whole) => Related(cut, whole, blind)
  /\ Failed(cut) /\ ~Failed(whole) /\ ~blind =>
       cut.http_errno \in {"HEADER_OVERFLOW", "INVALID_HEADER_TOKEN"}

\* Both parsers begin at rest.
LEMMA InitBoth == Init => BothInv
<1>1. PICK s : s = NewParser
  OBVIOUS
<1>2. s \in Parsers
  BY <1>1 DEF NewParser, Parsers, States, HeaderKinds, Methods, Versions, Errors
<1>3. s \in Parsers /\ s.http_errno = "OK" /\ s.called = "complete"
  BY <1>1, <1>2 DEF NewParser
<1>4. /\ s.state = "s_start_req" /\ s.flags = {} /\ s.nread = 0 /\ s.run = None
      /\ s.skipped = FALSE /\ s.ahead = "none" /\ s.returned = FALSE /\ s.announced = 0
      /\ s.expect = 0 /\ s.size = 0 /\ s.index = 0
      /\ \A e \in Elements : s.mark[e] = NoMark /\ s.due[e] = 0
  BY <1>1 DEF NewParser
<1>5. \A e \in Elements : s.due[e] = Between(s, e, 0) + (IF e \in {} THEN 1 ELSE 0)
  BY <1>4 DEF Between
<1>6. MarksInv(s) /\ LengthInv(s) /\ BodyInv(s, 0) /\ OrderInv(s)
  BY <1>3, <1>4 DEF MarksInv, LengthInv, BodyInv, OrderInv, Fields, Parsers, States,
    RequestLine, HeaderStates, ChunkStates, ChunkSizeStates, UrlStates, Elements, NoMark, None
<1>7. SizeInv(s) /\ LocalsInv(s)
  BY <1>3, <1>4, LimitsAssumption DEF SizeInv, LocalsInv
<1>8. ParserInv(s) /\ ~Failed(s)
  BY <1>3, <1>4, <1>5, <1>6, <1>7 DEF ParserInv, Settled, Always, Failed
<1>9. Related(s, s, FALSE)
  BY <1>3, <1>4 DEF Related, SameBut, CountsMore, Run
<1> QED BY <1>1, <1>8, <1>9 DEF Init, BothInv

\* The next byte.
LEMMA FeedBoth ==
  ASSUME BothInv, NEW ch \in Chars, Feed(ch)
  PROVE  BothInv'
<1>1. /\ ~Failed(cut) /\ ~Failed(whole) /\ SameByte(cut, whole, blind, ch)
  BY DEF Feed, Running, BothInv, SameByte, Possible
<1>2. PICK next1 \in {"u", "other"} : cut' = Consume(cut, ch, next1)
  BY DEF Feed, Ahead
<1>3. PICK next2 \in {"u", "other"} : whole' = Consume(whole, ch, next2)
  BY DEF Feed, Ahead
<1>4. /\ Failure(cut') \/ (ParserInv(cut') /\ ~Failed(cut'))
      /\ Failure(whole') \/ (ParserInv(whole') /\ ~Failed(whole'))
  BY <1>1, <1>2, <1>3, ConsumeSteps DEF SameByte
<1>5. Matched(cut', whole', blind)
  BY <1>1, <1>2, <1>3, ConsumeMatches
<1>6. blind' = (blind /\ Failed(cut'))
  BY DEF Feed
<1>7. /\ Failure(cut') => Failed(cut')
      /\ Failure(whole') => Failed(whole')
  BY DEF Failure, Failed
<1>8. CASE Failed(cut')
  <2>1. /\ Failure(cut')
        /\ Failed(whole') => Failure(whole')
        /\ ~Failed(whole') => ParserInv(whole')
    BY <1>4, <1>7, <1>8
  <2>2. ~Failed(whole') /\ ~blind' =>
          cut'.http_errno \in {"HEADER_OVERFLOW", "INVALID_HEADER_TOKEN"}
    BY <1>5, <1>6, <1>8 DEF Matched
  <2> QED BY <1>8, <2>1, <2>2 DEF BothInv, Failed, Failure, ParserInv, Settled, Always
<1>9. CASE ~Failed(cut')
  <2>1. ParserInv(cut') /\ ~Failed(whole') /\ ParserInv(whole') /\ Related(cut', whole', FALSE)
    BY <1>4, <1>5, <1>7, <1>9 DEF Matched
  <2>2. Related(cut', whole', blind')
    BY <2>1 DEF Related
  <2> QED BY <1>9, <2>1, <2>2 DEF BothInv, Failed
<1> QED BY <1>8, <1>9

\* A cut.
LEMMA CutBoth ==
  ASSUME BothInv, Cut
  PROVE  BothInv'
<1>1. /\ ~Failed(cut) /\ ~Failed(whole) /\ ParserInv(cut) /\ ParserInv(whole)
      /\ Related(cut, whole, blind)
      /\ cut' = EndSegment(cut)
      /\ whole' = IF whole.returned THEN EndSegment(whole) ELSE whole
      /\ blind' = (blind \/ cut.ahead # "none")
  BY DEF Cut, BothInv
<1>2. PICK d \in BOOLEAN : d = (blind \/ cut.ahead # "none")
  OBVIOUS
<1>3. /\ ParserInv(whole') /\ ~Failed(whole')
      /\ \/ Failure(cut') /\ cut'.http_errno = "HEADER_OVERFLOW"
         \/ ParserInv(cut') /\ ~Failed(cut') /\ Related(cut', whole', d)
  BY <1>1, <1>2, CutMatches
<1>4. CASE Failure(cut') /\ cut'.http_errno = "HEADER_OVERFLOW"
  BY <1>3, <1>4 DEF BothInv, Failed
<1>5. CASE ParserInv(cut') /\ ~Failed(cut') /\ Related(cut', whole', d)
  BY <1>1, <1>2, <1>3, <1>5 DEF BothInv, Failed
<1> QED BY <1>3, <1>4, <1>5

\* The inductive invariant of the parsers.
THEOREM BothInvariance == Spec => []BothInv
<1>1. BothInv /\ [Next]_vars => BothInv'
  <2> SUFFICES ASSUME BothInv, [Next]_vars
               PROVE  BothInv'
    OBVIOUS
  <2>1. CASE UNCHANGED vars
    <3>1. cut' = cut /\ whole' = whole /\ blind' = blind
      BY <2>1 DEF vars
    <3> QED BY <3>1 DEF BothInv, Failed
  <2>2. ASSUME NEW ch \in Chars, Feed(ch)
        PROVE  BothInv'
    BY <2>2, FeedBoth
  <2>3. CASE Cut
    BY <2>3, CutBoth
  <2> QED BY <2>1, <2>2, <2>3 DEF Next
<1> QED BY <1>1, InitBoth, PTL DEF Spec

(***************************************************************************)
(* Wherever the stream is cut, http_parser_execute goes on as if it were   *)
(* not: cuts never make it accept what it would refuse, and make it refuse *)
(* a request only for its size, for a byte that it would otherwise skip,   *)
(* or when it looked ahead beyond a segment.                               *)
(***************************************************************************)
THEOREM CutsDoNotMatterAlways == Spec => []CutsDoNotMatter
<1>1. ASSUME BothInv
      PROVE  CutsDoNotMatter
  <2>1. ASSUME ~Failed(cut)
        PROVE  ~Failed(whole) /\ Related(cut, whole, blind) /\ cut \in Parsers /\ whole \in Parsers
    BY <1>1, <2>1 DEF BothInv, ParserInv, Settled, Always
  <2>2. ASSUME ~Failed(cut), whole.ahead = "none"
        PROVE  View(cut) = View(whole)
    <3>1. SameBut(cut, whole) /\ cut.method = whole.method
      BY <2>1, <2>2 DEF Related
    <3>2. DOMAIN cut = Fields /\ DOMAIN whole = Fields
      BY <2>1, <2>2 DEF Parsers, Fields
    <3>3. ASSUME NEW f \in Fields \ {"mark", "run", "skipped", "ahead", "due", "expect", "nread"}
          PROVE  cut[f] = whole[f]
      BY <3>1, <3>3 DEF SameBut, Fields
    <3> QED BY <3>2, <3>3 DEF View
  <2>3. ASSUME ~Failed(whole), ~blind
        PROVE  cut.http_errno \in {"OK", "HEADER_OVERFLOW", "INVALID_HEADER_TOKEN"}
    BY <1>1, <2>3 DEF BothInv, Failed
  <2> QED BY <2>1, <2>2, <2>3 DEF CutsDoNotMatter
<1> QED BY <1>1, BothInvariance, PTL

(***************************************************************************)
(* Every byte of a url, a header field, a header value and a body is       *)
(* handed to its callback once: the marks that http_parser_execute loses   *)
(* at the end of a segment and sets again lose and repeat nothing.         *)
(***************************************************************************)
THEOREM NothingLostAlways == Spec => []NothingLost
<1>1. ASSUME BothInv
      PROVE  NothingLost
  <2> SUFFICES ASSUME ~Failed(cut), NEW e \in Elements
               PROVE  cut.due[e] = IF cut.mark[e] = NoMark THEN 0 ELSE cut.mark[e]
    BY DEF NothingLost
  <2>1. cut \in Parsers /\ cut.due[e] = Between(cut, e, 0) + (IF e \in {} THEN 1 ELSE 0)
    BY <1>1 DEF BothInv, ParserInv, Settled, Always
  <2>2. cut.mark[e] \in Nat \cup {NoMark}
    BY <2>1 DEF Parsers
  <2> QED BY <2>1, <2>2 DEF Between
<1> QED BY <1>1, BothInvariance, PTL

(***************************************************************************)
(* Callbacks come in the order of a message, and on_message_complete comes *)
(* when as many body bytes as Content-Length or the chunk sizes announce   *)
(* have been handed over.                                                  *)
(***************************************************************************)
THEOREM CallbacksInOrderAlways == Spec => []CallbacksInOrder
<1>1. ASSUME BothInv
      PROVE  CallbacksInOrder
  <2>1. CASE Failed(cut)
    <3>1. Failure(cut)
      BY <1>1, <2>1 DEF BothInv
    <3>2. PICK x \in Errors : cut = Fail(cut, x)
      BY <3>1 DEF Failure
    <3> QED BY <3>2, FailIs DEF CallbacksInOrder
  <2>2. CASE ~Failed(cut)
    BY <1>1, <2>2 DEF BothInv, ParserInv, Settled, Always, OrderInv, CallbacksInOrder
  <2> QED BY <2>1, <2>2
<1> QED BY <1>1, BothInvariance, PTL

(***************************************************************************)
(* However it is cut, no header is larger than HTTP_MAX_HEADER_SIZE when   *)
(* the parser is between two of its inner loops.                           *)
(***************************************************************************)
THEOREM HeaderBoundedAlways == Spec => []HeaderBounded
<1>1. ASSUME BothInv
      PROVE  HeaderBounded
  <2> SUFFICES ASSUME ~Failed(cut), cut.run = None
               PROVE  cut.size <= MaxHeader
    BY DEF HeaderBounded
  <2>1. cut \in Parsers /\ SizeInv(cut)
    BY <1>1 DEF BothInv, ParserInv, Settled, Always
  <2>2. cut.size \in Nat /\ cut.nread \in Nat
    BY <2>1 DEF Parsers
  <2> QED BY <2>1, <2>2, LimitsAssumption DEF SizeInv, Run
<1> QED BY <1>1, BothInvariance, PTL

(***************************************************************************)
(* The assertions of http_parser_execute on nread, flags, content_length,  *)
(* the header state and the marks hold.                                    *)
(***************************************************************************)
THEOREM AssertionsHoldAlways == Spec => []AssertionsHold
<1>1. ASSUME BothInv
      PROVE  AssertionsHold
  <2> SUFFICES ASSUME ~Failed(cut)
               PROVE  AssertionsHold
    BY DEF AssertionsHold
  <2>1. /\ cut \in Parsers /\ MarksInv(cut) /\ BodyInv(cut, 0)
        /\ cut.state = "s_chunk_size_start" => cut.nread = 0
    BY <1>1 DEF BothInv, ParserInv, Settled, Always
  <2>2. /\ cut.state \in {"s_chunk_size_start", "s_chunk_size", "s_chunk_parameters",
                          "s_chunk_size_almost_done", "s_chunk_data",
                          "s_chunk_data_almost_done", "s_chunk_data_done"}
             => "CHUNKED" \in cut.flags
        /\ cut.state \in {"s_body_identity", "s_chunk_data"} =>
             cut.content_length \notin {0, UllMax}
        /\ cut.state = "s_chunk_data_almost_done" => cut.content_length = 0
        /\ cut.state = "s_header_value" =>
             cut.header_state \notin {"h_connection", "h_transfer_encoding"}
    BY <2>1, LimitsAssumption DEF BodyInv, ChunkStates, ChunkSizeStates
  <2>3. Cardinality({e \in Elements : cut.mark[e] # NoMark}) <= 1
    <3>1. PICK M : M = {e \in Elements : cut.mark[e] # NoMark}
      OBVIOUS
    <3>2. \A e \in M, f \in M : e = f
      BY <2>1, <3>1 DEF MarksInv, UrlStates, Elements
    <3>3. CASE M = {}
      BY <3>1, <3>3, FS_EmptySet
    <3>4. CASE M # {}
      <4>1. PICK e : e \in M
        BY <3>4
      <4>2. M = {e}
        BY <3>2, <4>1
      <4> QED BY <3>1, <4>2, FS_Singleton
    <3> QED BY <3>3, <3>4
  <2> QED BY <2>1, <2>2, <2>3 DEF AssertionsHold
<1> QED BY <1>1, BothInvariance, PTL

-----------------------------------------------------------------------------
(* php_strip_tags_ex stays inside its two buffers, for texts and allow     *)
(* lists of any length and any PHP_TAG_BUF_SIZE.                           *)

\* WritesFit is not inductive by itself: that tbuf is allocated, with more than
\* PHP_TAG_BUF_SIZE bytes, is what leaves room for it to grow, and that the
\* text is not exceeded is what makes i a bound on the output buffer.
BuffersInv ==
  /\ call = [text |-> call.text, plain |-> call.plain, kept |-> call.kept, on |-> call.on]
  /\ call.text \in Seq(Symbols)
  /\ i \in 0 .. Len(call.text)
  /\ tbuf \in Seq(Symbols) /\ out \in Seq(Symbols)
  /\ size \in Nat
  /\ allow # NoList => size > TagBufSize
  /\ WritesFit

\* What reading a character may do to the buffers.
Writing ==
  \/ UNCHANGED <<tbuf, size, out>>
  \/ out' = Append(out, c) /\ UNCHANGED <<tbuf, size>>
  \/ allow # NoList /\ (\E ch \in {"<", c} : Collect(ch)) /\ UNCHANGED out
  \/ tbuf' = <<>> /\ UNCHANGED <<size, out>>
  \/ /\ allow # NoList
     /\ tbuf' = <<>> /\ size' = Room(Len(tbuf))
     /\ out' \in {out, out \o Append(tbuf, ">")}

\* Every case of the switch does one of these.
LEMMA ReadWrites ==
  ASSUME StripRead
  PROVE  Writing
<1>1. CASE less_than
  BY <1>1 DEF less_than, Ignore, Drop, reg_char, Keep, Writing
<1>2. CASE parenthesis
  BY <1>2 DEF parenthesis, Ignore, Drop, reg_char, Keep, Writing
<1>3. CASE greater_than
  BY <1>3 DEF greater_than, tag_ends, ToText, Ignore, Drop, reg_char, Keep, Writing
<1>4. CASE quote
  BY <1>4 DEF quote, Ignore, Drop, Keep, Writing
<1>5. CASE bang
  BY <1>5 DEF bang, Drop, reg_char, Keep, Writing
<1>6. CASE dash
  BY <1>6 DEF dash, Drop, reg_char, Keep, Writing
<1>7. CASE letter
  BY <1>7 DEF letter, Drop, reg_char, Keep, Writing
<1>8. CASE question
  BY <1>8 DEF question, Drop, Writing
<1>9. CASE other
  BY <1>9 DEF other, Ignore, Drop, reg_char, Keep, Writing
<1> QED BY <1>1, <1>2, <1>3, <1>4, <1>5, <1>6, <1>7, <1>8, <1>9 DEF StripRead

\* Growing gives room for the character, for another one and for a NUL.
LEMMA RoomSuffices ==
  ASSUME NEW n \in Nat, size \in Nat, size > TagBufSize, n < size
  PROVE  /\ Room(n) \in Nat
         /\ Room(n) > TagBufSize
         /\ n + 2 <= Room(n)
  BY TagBufSizeAssumption DEF Room

\* What is read is as long as the text, also where buf ends before it does.
LEMMA CopyIsText ==
  ASSUME NEW s \in Seq(Symbols), NEW buf \in estrndup(s)
  PROVE  buf \in Seq(Symbols) /\ Len(buf) = Len(s)
<1>1. PICK n \in 0 .. Len(s) :
        \E beyond \in [1 .. Len(s) - n -> Symbols] : buf = SubSeq(s, 1, n) \o beyond
  BY DEF estrndup
<1>2. PICK beyond \in [1 .. Len(s) - n -> Symbols] : buf = SubSeq(s, 1, n) \o beyond
  BY <1>1
<1>3. Len(s) \in Nat /\ n \in Nat /\ Len(s) - n \in Nat
  OBVIOUS
<1>4. beyond \in Seq(Symbols) /\ Len(beyond) = Len(s) - n
  BY <1>3
<1>5. SubSeq(s, 1, n) \in Seq(Symbols) /\ Len(SubSeq(s, 1, n)) = n
  BY <1>3
<1> QED BY <1>2, <1>3, <1>4, <1>5, ConcatProperties

\* A call starts with empty buffers.
LEMMA CallKeepsBuffers ==
  ASSUME NEW t \in Texts, NEW list, NEW spaces, NEW s,
         php_strip_tags_ex(t, list, spaces, s)
  PROVE  BuffersInv'
<1>1. PICK buf \in estrndup(t.text) :
        call' = [text |-> buf, plain |-> t.plain, kept |-> t.kept, on |-> TRUE]
  BY DEF php_strip_tags_ex
<1>2. buf \in Seq(Symbols) /\ Len(buf) \in Nat /\ Len(<<>>) = 0 /\ <<>> \in Seq(Symbols)
  BY TextsAssumption, CopyIsText
<1>3. /\ i' = 0 /\ tbuf' = <<>> /\ out' = <<>> /\ allow' = list
      /\ size' = IF list = NoList THEN 0 ELSE TagBufSize + 1
  BY DEF php_strip_tags_ex
<1>4. /\ call'.text = buf /\ call'.plain = t.plain
      /\ call'.kept = t.kept /\ call'.on = TRUE
  BY <1>1
<1>5. size' \in Nat /\ (allow' # NoList => size' = TagBufSize + 1)
  BY <1>3, TagBufSizeAssumption
<1>6. WritesFit'
  BY <1>2, <1>3, <1>5, TagBufSizeAssumption DEF WritesFit, Room
<1> QED BY <1>1, <1>2, <1>3, <1>4, <1>5, <1>6, TagBufSizeAssumption DEF BuffersInv

\* Between calls there is nothing in them.
LEMMA ReturnKeepsBuffers ==
  ASSUME return
  PROVE  BuffersInv'
<1>1. /\ i' = 0 /\ tbuf' = <<>> /\ out' = <<>> /\ allow' = NoList
      /\ size' = 0 /\ call' = Idle
  BY DEF return
<1> QED BY <1>1 DEF BuffersInv, WritesFit, Idle

\* A character that is read leaves room for the next.
LEMMA ReadKeepsBuffers ==
  ASSUME BuffersInv, StripRead
  PROVE  BuffersInv'
<1>1. /\ i' = i + 1 /\ call' = call /\ allow' = allow
      /\ i < Len(call.text)
  BY DEF StripRead, reading, arguments, text
<1>2. /\ call.text \in Seq(Symbols) /\ Len(call.text) \in Nat /\ i \in Nat
      /\ c \in Symbols /\ "<" \in Symbols /\ ">" \in Symbols
  <2>1. call.text \in Seq(Symbols) /\ Len(call.text) \in Nat /\ i \in Nat
    BY DEF BuffersInv
  <2>2. i + 1 \in 1 .. Len(call.text)
    BY <1>1, <2>1
  <2>3. call.text[i + 1] \in Symbols
    BY <2>1, <2>2, ElementOfSeq
  <2>4. c \in Symbols
    BY <2>3 DEF c, text
  <2> QED BY <2>1, <2>4 DEF Symbols
<1>3. i' \in 0 .. Len(call'.text)
  BY <1>1, <1>2
<1>4. /\ tbuf \in Seq(Symbols) /\ out \in Seq(Symbols)
      /\ Len(tbuf) \in Nat /\ Len(out) \in Nat
      /\ size \in Nat
      /\ Len(out) + Len(tbuf) <= i
      /\ allow # NoList => size > TagBufSize /\ Len(tbuf) < size
  BY DEF BuffersInv, WritesFit
<1> DEFINE Fit == /\ tbuf' \in Seq(Symbols) /\ out' \in Seq(Symbols)
                  /\ Len(tbuf') \in Nat
                  /\ size' \in Nat
                  /\ Len(out') + Len(tbuf') <= i'
                  /\ allow # NoList => size' > TagBufSize /\ Len(tbuf') < size'
<1>5. Fit
  <2>1. CASE UNCHANGED <<tbuf, size, out>>
    BY <1>1, <1>2, <1>4, <2>1
  <2>2. CASE out' = Append(out, c) /\ UNCHANGED <<tbuf, size>>
    BY <1>1, <1>2, <1>4, <2>2
  <2>3. ASSUME allow # NoList, NEW ch \in {"<", c}, Collect(ch), out' = out
        PROVE  Fit
    <3>1. size' = Room(Len(tbuf)) /\ tbuf' = Append(tbuf, ch) /\ ch \in Symbols
      BY <1>2, <2>3 DEF Collect
    <3>2. tbuf' \in Seq(Symbols) /\ Len(tbuf') = Len(tbuf) + 1
      BY <1>4, <3>1
    <3>3. /\ Room(Len(tbuf)) \in Nat /\ Room(Len(tbuf)) > TagBufSize
          /\ Len(tbuf) + 2 <= Room(Len(tbuf))
      BY <1>4, <2>3, RoomSuffices
    <3> QED BY <1>1, <1>2, <1>4, <2>3, <3>1, <3>2, <3>3
  <2>4. CASE tbuf' = <<>> /\ UNCHANGED <<size, out>>
    BY <1>1, <1>2, <1>4, <2>4
  <2>5. CASE /\ allow # NoList
             /\ tbuf' = <<>> /\ size' = Room(Len(tbuf))
             /\ out' \in {out, out \o Append(tbuf, ">")}
    <3>1. /\ Append(tbuf, ">") \in Seq(Symbols)
          /\ Len(Append(tbuf, ">")) = Len(tbuf) + 1
      BY <1>2, <1>4
    <3>2. /\ out \o Append(tbuf, ">") \in Seq(Symbols)
          /\ Len(out \o Append(tbuf, ">")) = Len(out) + Len(tbuf) + 1
      BY <1>4, <3>1, ConcatProperties
    <3>3. out' \in Seq(Symbols) /\ Len(out') <= Len(out) + Len(tbuf) + 1 /\ Len(out') \in Nat
      <4>1. CASE out' = out
        BY <1>4, <4>1
      <4>2. CASE out' = out \o Append(tbuf, ">")
        BY <1>4, <3>2, <4>2
      <4> QED BY <2>5, <4>1, <4>2
    <3>4. /\ Room(Len(tbuf)) \in Nat /\ Room(Len(tbuf)) > TagBufSize
      BY <1>4, <2>5, RoomSuffices
    <3>5. Len(tbuf') = 0 /\ tbuf' \in Seq(Symbols)
      BY <2>5
    <3> QED BY <1>1, <1>2, <1>4, <2>5, <3>3, <3>4, <3>5, TagBufSizeAssumption
  <2> HIDE DEF Fit
  <2> QED BY <2>1, <2>2, <2>3, <2>4, <2>5, ReadWrites, Zenon DEF Writing
<1>6. allow' # NoList => Len(tbuf') + 2 <= Room(Len(tbuf))'
  BY <1>1, <1>5, TagBufSizeAssumption DEF Room
<1>7. WritesFit'
  BY <1>1, <1>5, <1>6 DEF WritesFit
<1>8. call' = [text |-> call'.text, plain |-> call'.plain, kept |-> call'.kept, on |-> call'.on]
  BY <1>1 DEF BuffersInv
<1> QED BY <1>1, <1>2, <1>3, <1>5, <1>7, <1>8 DEF BuffersInv

\* The invariant holds throughout, whatever is called with whatever state.
THEOREM BuffersInvariance == StripSpec => []BuffersInv
<1>1. StripInit => BuffersInv
  BY DEF StripInit, BuffersInv, WritesFit, Idle
<1>2. BuffersInv /\ [StripNext]_stripVars => BuffersInv'
  <2> SUFFICES ASSUME BuffersInv, [StripNext]_stripVars
               PROVE  BuffersInv'
    OBVIOUS
  <2>1. CASE StripNext
    BY <2>1, CallKeepsBuffers, ReadKeepsBuffers, ReturnKeepsBuffers DEF StripNext
  <2>2. CASE UNCHANGED stripVars
    BY <2>2 DEF stripVars, arguments, BuffersInv, WritesFit, Room
  <2> QED BY <2>1, <2>2
<1> QED BY <1>1, <1>2, PTL DEF StripSpec

\* Output and collected tag never exceed what was read, and tbuf has room for
\* the next character and a NUL whenever there is an allow list
\* (php_strip_tags.c:126, :195 and :197).
THEOREM WritesFitAlways == StripSpec => []WritesFit
<1>1. BuffersInv => WritesFit
  BY DEF BuffersInv
<1> QED BY <1>1, BuffersInvariance, PTL
=============================================================================
