----------------------------- MODULE HttpServer -----------------------------
(***************************************************************************)
(* The HTTP server of src/httpserver: TcpServer and TcpConnection          *)
(* (tcp_server.cc), HttpContext and HttpServer (http_server.cc), and the   *)
(* demo's MyHttpContext (main.cc).                                         *)
(*                                                                         *)
(* Several threads run one io_service.  An asynchronous operation completes*)
(* when the network lets it, its completion is queued, and any idle thread *)
(* takes it and runs its handler; there is no strand.  A connection object *)
(* lives as long as a bound handler owns it.                               *)
(*                                                                         *)
(* The parser is the sequence of callbacks a request causes (see           *)
(* HttpParser), and a response is one message: async_write_some either     *)
(* transmits it or fails.                                                  *)
(***************************************************************************)
EXTENDS Integers, SequencesExt

CONSTANTS Threads,     \* the threads that run the io_service, as 1 .. 3 in Start
          MaxAccepts,  \* bound: accepts that complete
          Wire,        \* of each request its url, its headers and its chunk trailers
          Streams,     \* what clients may send: sequences of requests
          Malformed    \* a request on which the parser stops

ASSUME ThreadsAssumption == Threads \in Nat \ {0}
ASSUME MaxAcceptsAssumption == MaxAccepts \in Nat

Conns == 1 .. MaxAccepts + 1
None == 0
ThreadIds == 1 .. Threads

\* What the parser finds in a stream: of each request its head, and then its
\* end, the chunk trailers before it.  A header or trailer has its key and the
\* lines of its value, more than one if it is folded.  A segment that ends
\* within a part is one that ends before it, since no other segment is read.
Parts(request) ==
  IF request = Malformed THEN << [part |-> "error"] >>
  ELSE << [part |-> "head", request |-> request], [part |-> "end", request |-> request] >>

NoStream == <<>>
Text == [s \in Streams \cup {NoStream} |-> FlattenSeq([i \in DOMAIN s |-> Parts(s[i])])]

VARIABLES
  accepting,  \* the connection the pending async_accept is for, or None
  queue,      \* completions that no thread has taken
  thread,     \* what each thread is doing
  obj,        \* of a connection object: "none", "live" or "freed"
  owners,     \* its shared_ptrs: bound handlers, pending, queued or running
  wired,      \* its callbacks and its context are set
  sock,       \* its socket: "open" or "closed"
  reading,    \* a read is pending
  writing,    \* the number of writes that are pending
  stream,     \* the requests the client will send in all
  arrived,    \* how much of them has arrived
  taken,      \* how much of that was read
  gone,       \* the client has closed or reset the connection
  ctx,        \* HttpContext
  done,       \* the requests that were parsed to their end
  answers     \* the responses that were transmitted

conn == <<obj, owners, wired>>
io == <<accepting, queue, sock, reading, writing>>
client == <<stream, arrived, taken, gone>>
vars == <<accepting, queue, thread, obj, owners, wired, sock, reading, writing,
          stream, arrived, taken, gone, ctx, done, answers>>

Idle == [op |-> "idle"]

\* A completion, and then a running handler: at is its next step.  A read has
\* the parts next .. size of the stream; next goes on as they are parsed.
Completion(op, c, ec) ==
  [op |-> op, conn |-> c, ec |-> ec, at |-> "start", size |-> arrived[c], next |-> taken[c] + 1]

Context == [request |-> [url |-> "", headers |-> <<>>], key |-> <<>>, seen |-> <<>>]

Init ==
  /\ accepting = 1
  /\ queue = <<>>
  /\ thread = [t \in ThreadIds |-> Idle]
  /\ obj = [c \in Conns |-> IF c = 1 THEN "live" ELSE "none"]
  /\ owners = [c \in Conns |-> IF c = 1 THEN 1 ELSE 0]
  /\ wired = [c \in Conns |-> FALSE]
  /\ sock = [c \in Conns |-> "closed"]
  /\ reading = [c \in Conns |-> FALSE]
  /\ writing = [c \in Conns |-> 0]
  /\ stream = [c \in Conns |-> NoStream]
  /\ arrived = [c \in Conns |-> 0]
  /\ taken = [c \in Conns |-> 0]
  /\ gone = [c \in Conns |-> FALSE]
  /\ ctx = [c \in Conns |-> Context]
  /\ done = [c \in Conns |-> 0]
  /\ answers = [c \in Conns |-> 0]

-----------------------------------------------------------------------------
(* The network and the io_service.                                         *)

\* Mutant: the completion handler is bound to this, not to a shared_ptr.
Bound_raw(c) == owners

\* boost::bind with shared_from_this: the handler owns the connection.
Bound(c) == [owners EXCEPT ![c] = @ + 1]

\* A client connects, or the accept fails.
AcceptCompletes ==
  /\ accepting \in 1 .. MaxAccepts
  /\ \/ \E s \in Streams :
          /\ stream' = [stream EXCEPT ![accepting] = s]
          /\ sock' = [sock EXCEPT ![accepting] = "open"]
          /\ queue' = Append(queue, Completion("accept", accepting, FALSE))
     \/ /\ queue' = Append(queue, Completion("accept", accepting, TRUE))
        /\ UNCHANGED <<stream, sock>>
  /\ accepting' = None
  /\ UNCHANGED <<thread, conn, reading, writing, arrived, taken, gone, ctx, done, answers>>

\* More of the stream arrives, in segments of any size.  It makes no difference
\* what arrives while no read is pending, or who leaves while nothing is.
ClientSends(c) ==
  /\ reading[c] /\ sock[c] = "open" /\ ~gone[c]
  /\ \E n \in arrived[c] + 1 .. Len(Text[stream[c]]) : arrived' = [arrived EXCEPT ![c] = n]
  /\ UNCHANGED <<io, thread, conn, stream, taken, gone, ctx, done, answers>>

ClientGoes(c) ==
  /\ reading[c] \/ writing[c] > 0
  /\ sock[c] = "open" /\ ~gone[c]
  /\ gone' = [gone EXCEPT ![c] = TRUE]
  /\ UNCHANGED <<io, thread, conn, stream, arrived, taken, ctx, done, answers>>

\* An operation fails when the client is gone or the socket closed.
MayFail(c) == sock[c] = "open" => gone[c]

\* async_read_some: what has arrived (it is less than max_msg), or an error.
ReadCompletes(c) ==
  /\ reading[c]
  /\ reading' = [reading EXCEPT ![c] = FALSE]
  /\ \/ /\ sock[c] = "open" /\ arrived[c] > taken[c]
        /\ queue' = Append(queue, Completion("read", c, FALSE))
        /\ taken' = [taken EXCEPT ![c] = arrived[c]]
     \/ /\ MayFail(c)
        /\ queue' = Append(queue, Completion("read", c, TRUE))
        /\ UNCHANGED taken
  /\ UNCHANGED <<accepting, sock, writing, thread, conn, stream, arrived, gone, ctx, done, answers>>

\* async_write_some: the oldest pending write is done, or fails.
WriteCompletes(c) ==
  /\ writing[c] > 0
  /\ writing' = [writing EXCEPT ![c] = @ - 1]
  /\ \/ /\ sock[c] = "open"
        /\ queue' = Append(queue, Completion("write", c, FALSE))
        /\ answers' = [answers EXCEPT ![c] = @ + 1]
     \/ /\ MayFail(c)
        /\ queue' = Append(queue, Completion("write", c, TRUE))
        /\ UNCHANGED answers
  /\ UNCHANGED <<accepting, sock, reading, thread, conn, client, ctx, done>>

\* io_service::run: an idle thread takes the next completion.  The threads are
\* alike, so it is the first of them that is idle.
Run(t) ==
  /\ queue # <<>>
  /\ thread[t] = Idle /\ \A u \in 1 .. t - 1 : thread[u] # Idle
  /\ thread' = [thread EXCEPT ![t] = Head(queue)]
  /\ queue' = Tail(queue)
  /\ UNCHANGED <<accepting, sock, reading, writing, conn, client, ctx, done, answers>>

-----------------------------------------------------------------------------
(* The handlers.                                                           *)

At(t, op, step) == thread[t] # Idle /\ thread[t].op = op /\ thread[t].at = step
GoesTo(t, step) == thread' = [thread EXCEPT ![t].at = step]
Conn(t) == thread[t].conn

\* A handler returns: its shared_ptr goes, and the last one to go destroys the
\* connection and closes its socket.
Returns(t) ==
  /\ thread' = [thread EXCEPT ![t] = Idle]
  /\ owners' = [owners EXCEPT ![Conn(t)] = @ - 1]
  /\ IF owners'[Conn(t)] > 0 THEN UNCHANGED <<obj, sock>>
     ELSE /\ obj' = [obj EXCEPT ![Conn(t)] = "freed"]
          /\ sock' = [sock EXCEPT ![Conn(t)] = "closed"]
  /\ UNCHANGED <<accepting, queue, reading, writing, wired, client, ctx, done, answers>>

HandlerReturns(t) == thread[t] # Idle /\ thread[t].at = "return" /\ Returns(t)

\* Mutant: HandleAccept gives up on an error.
HandleAccept_checked(t) ==
  /\ At(t, "accept", "start")
  /\ IF thread[t].ec
     THEN GoesTo(t, "return") /\ UNCHANGED <<accepting, obj, owners>>
     ELSE /\ accepting' = Conn(t) + 1
          /\ obj' = [obj EXCEPT ![accepting'] = "live"]
          /\ owners' = Bound(accepting')
          /\ GoesTo(t, "wire")
  /\ UNCHANGED <<wired, queue, sock, reading, writing, client, ctx, done, answers>>

\* HandleAccept, whatever the error code: a new connection and its
\* async_accept, which may complete, and run on another thread, at once.
HandleAccept(t) ==
  /\ At(t, "accept", "start")
  /\ accepting' = Conn(t) + 1
  /\ obj' = [obj EXCEPT ![accepting'] = "live"]
  /\ owners' = Bound(accepting')
  /\ GoesTo(t, "wire")
  /\ UNCHANGED <<wired, queue, sock, reading, writing, client, ctx, done, answers>>

\* ... then SetConnectionCallback, SetMessageCallback, SetWriteCompleteCallback
\* and, in OnNewConnection, SetContext.
SetCallbacks(t) ==
  /\ At(t, "accept", "wire")
  /\ wired' = [wired EXCEPT ![Conn(t)] = TRUE]
  /\ GoesTo(t, "open")
  /\ UNCHANGED <<io, obj, owners, client, ctx, done, answers>>

\* ... then AsyncRead.
OnNewConnection(t) ==
  /\ At(t, "accept", "open")
  /\ reading' = [reading EXCEPT ![Conn(t)] = TRUE]
  /\ owners' = Bound(Conn(t))
  /\ GoesTo(t, "return")
  /\ UNCHANGED <<accepting, queue, sock, writing, wired, obj, client, ctx, done, answers>>

\* OnRead and OnWrite with an error: OnConnectionError closes the socket.
OnConnectionError(t) ==
  /\ At(t, "read", "start") \/ At(t, "write", "start")
  /\ thread[t].ec
  /\ sock' = [sock EXCEPT ![Conn(t)] = "closed"]
  /\ GoesTo(t, "return")
  /\ UNCHANGED <<accepting, queue, reading, writing, conn, client, ctx, done, answers>>

\* OnWriteComplete does nothing.
OnWriteComplete(t) == At(t, "write", "start") /\ ~thread[t].ec /\ Returns(t)

-----------------------------------------------------------------------------
(* HttpContext: the callbacks of the parser.                               *)

\* Mutant: the key stays for the next header.
header_value_cb_kept(x, value) ==
  [x EXCEPT !.request.headers = @ @@ (x.key :> value)]

\* std::map::insert keeps the value that is there.
header_value_cb(x, value) ==
  [x EXCEPT !.request.headers = @ @@ (x.key :> value), !.key = <<>>]

header_field_cb(x, key) == [x EXCEPT !.key = Append(@, key)]
request_url_cb(x, url) == [x EXCEPT !.request.url = url]

\* OnRequest sees the url and the headers there are.
headers_complete_cb(x) == [x EXCEPT !.seen = Append(@, x.request)]

\* One header_field callback, and a header_value callback for each line.
header_cb(x, header) == FoldLeft(header_value_cb, header_field_cb(x, header[1]), header[2])

\* The callbacks for a part of the stream.
Callbacks(x, found) ==
  CASE found.part = "head" ->
         headers_complete_cb(FoldLeft(header_cb, request_url_cb(x, Wire[found.request].url),
                                      Wire[found.request].headers))
    [] found.part = "end" -> FoldLeft(header_cb, x, Wire[found.request].trailers)
    [] found.part = "error" -> x

\* input_buffer_.
Input(t) == Text[stream[Conn(t)]]

\* http_parser_execute from next on: to the end of the message, to an error or
\* to the end of what was read.
Stop(t) ==
  LET stops == {i \in thread[t].next .. thread[t].size :
                  Input(t)[i].part \in {"end", "error"}}
  IN  Min(stops \cup {thread[t].size})

EndsMessage(t) == Input(t)[Stop(t)].part = "end"

\* Mutant: nothing is written while a write is under way.
AsyncWrite_busy(c) == IF writing[c] > 0 THEN writing ELSE [writing EXCEPT ![c] = @ + 1]

AsyncWrite(c) == [writing EXCEPT ![c] = @ + 1]

\* OnRead, OnMessage and Parse: the callbacks up to the stop.
\* message_complete_cb calls OnComplete, which locks the weak pointer to the
\* connection and writes the response, and then initialises the parser for the
\* next request.
Parse(t) ==
  /\ At(t, "read", "start") /\ ~thread[t].ec
  /\ thread[t].next <= thread[t].size
  /\ ctx' = [ctx EXCEPT ![Conn(t)] =
               FoldLeft(Callbacks, @, SubSeq(Input(t), thread[t].next, Stop(t)))]
  /\ IF EndsMessage(t)
     THEN /\ writing' = AsyncWrite(Conn(t))
          /\ owners' = IF writing' = writing THEN owners ELSE Bound(Conn(t))
          /\ done' = [done EXCEPT ![Conn(t)] = @ + 1]
          /\ thread' = [thread EXCEPT ![t].next = Stop(t) + 1]
     ELSE /\ thread' = [thread EXCEPT ![t].next = thread[t].size + 1]
          /\ UNCHANGED <<writing, owners, done>>
  /\ UNCHANGED <<accepting, queue, sock, reading, obj, wired, client, answers>>

\* Mutant: OnMessage starts the next read, as MyTcpServer does.
OnMessage_rearmed(t) ==
  /\ At(t, "read", "start") /\ ~thread[t].ec
  /\ thread[t].next > thread[t].size
  /\ reading' = [reading EXCEPT ![Conn(t)] = TRUE]
  /\ owners' = Bound(Conn(t))
  /\ GoesTo(t, "return")
  /\ UNCHANGED <<accepting, queue, sock, writing, obj, wired, client, ctx, done, answers>>

\* OnMessage returns when all is parsed.  It does not start another read.
OnMessage(t) ==
  /\ At(t, "read", "start") /\ ~thread[t].ec
  /\ thread[t].next > thread[t].size
  /\ Returns(t)

-----------------------------------------------------------------------------
Handler(t) ==
  \/ HandleAccept(t) \/ SetCallbacks(t) \/ OnNewConnection(t)
  \/ Parse(t) \/ OnMessage(t)
  \/ OnConnectionError(t) \/ OnWriteComplete(t)
  \/ HandlerReturns(t)

Next ==
  \/ AcceptCompletes
  \/ \E c \in Conns : ClientSends(c) \/ ClientGoes(c) \/ ReadCompletes(c) \/ WriteCompletes(c)
  \/ \E t \in ThreadIds : Run(t) \/ Handler(t)

Spec == Init /\ [][Next]_vars

\* The threads run, and what the network can complete it completes; that a
\* client connects, sends or leaves is not assumed.
FairSpec ==
  /\ Spec
  /\ WF_vars(\E t \in ThreadIds : Run(t))
  /\ \A t \in ThreadIds : WF_vars(Handler(t))
  /\ \A c \in Conns : WF_vars(ReadCompletes(c)) /\ WF_vars(WriteCompletes(c))

-----------------------------------------------------------------------------
(* A connection object is there as long as an operation on it is pending,  *)
(* queued or being handled, on whatever thread (so that the weak pointer   *)
(* of its context can be locked, and socket and buffers may be used); when *)
(* OnRead or OnWrite runs, callbacks and context are set.                  *)
HandlersReady ==
  /\ \A t \in ThreadIds : thread[t] # Idle =>
       /\ obj[Conn(t)] = "live"
       /\ thread[t].op \in {"read", "write"} => wired[Conn(t)]
  /\ \A i \in DOMAIN queue : obj[queue[i].conn] = "live"
  /\ \A c \in Conns : reading[c] \/ writing[c] > 0 \/ accepting = c => obj[c] = "live"

\* The next step of t calls a member of the socket.
UsesSocket(t) ==
  /\ thread[t] # Idle
  /\ \/ At(t, "accept", "open")
     \/ thread[t].at = "start" /\ thread[t].ec /\ thread[t].op # "accept"
     \/ At(t, "read", "start") /\ thread[t].next <= thread[t].size /\ EndsMessage(t)

\* The requests that are complete in what has arrived.
Arrived(c) == Cardinality({i \in 1 .. arrived[c] : Text[stream[c]][i].part = "end"})

(* A socket is not safe for use by two threads at once, and there is no    *)
(* strand.  As OnMessage starts no other read, two threads come to use it  *)
(* only if the client sent a second request behind the first.              *)
SocketExclusive ==
  \A t, u \in ThreadIds :
    t # u /\ UsesSocket(t) /\ UsesSocket(u) /\ Conn(t) = Conn(u) => Arrived(Conn(t)) > 1

(* No request is answered twice, and when the object is destroyed while    *)
(* its client is still there, every request the parser has completed has   *)
(* been answered: the writes keep the connection alive.                    *)
AnsweredOnce ==
  \A c \in Conns :
    /\ answers[c] <= done[c]
    /\ obj[c] = "freed" /\ ~gone[c] => answers[c] = done[c]

\* What is given to the map for these headers: a value under its key, and the
\* folded lines of it under none.
Entries(headers) ==
  FlattenSeq([i \in DOMAIN headers |->
    LET key == headers[i][1]
        lines == headers[i][2]
    IN  [j \in DOMAIN lines |-> << IF j = 1 THEN <<key>> ELSE <<>>, lines[j] >>]])

\* The value that each key had first.
FirstValues(entries) ==
  [key \in {entries[i][1] : i \in DOMAIN entries} |->
     entries[Min({i \in DOMAIN entries : entries[i][1] = key})][2]]

\* The headers in the map for the i-th request of a stream, if none was ever
\* taken out.
Accumulated ==
  [s \in Streams |->
     [i \in {i \in DOMAIN s : Malformed \notin ToSet(SubSeq(s, 1, i))} |->
        FirstValues(Entries(
          FlattenSeq([j \in 1 .. i - 1 |-> Wire[s[j]].headers \o Wire[s[j]].trailers])
            \o Wire[s[i]].headers))]]

(* OnRequest sees the url of its own request and, of the first request on  *)
(* a connection, its headers, each with the first line of its value under  *)
(* its key and the first folded line of all under the empty key.  Nothing  *)
(* clears the map: of a later request it sees a header with the value its  *)
(* key first had, in a header or trailer of this or an earlier request.    *)
RequestSeen ==
  \A c \in Conns : \A i \in DOMAIN ctx[c].seen :
    /\ ctx[c].seen[i].url = Wire[stream[c][i]].url
    /\ ctx[c].seen[i].headers = Accumulated[stream[c]][i]

(* When clients stop coming the server comes to rest in good order: an     *)
(* accept is pending for the next client, whatever the last one returned,  *)
(* and every connection whose client has sent something or left, or whose  *)
(* accept failed, is destroyed, so that connections do not pile up.        *)
ServesAndRests ==
  <>[](/\ accepting # None
       /\ \A c \in Conns \ {accepting} :
            obj[c] = "none" \/ obj[c] = "freed"
              \/ (sock[c] = "open" /\ ~gone[c] /\ arrived[c] = 0))
=============================================================================
