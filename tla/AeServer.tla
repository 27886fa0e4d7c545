------------------------------ MODULE AeServer ------------------------------
(***************************************************************************)
(* The server of src/ae/main.c on the event loop of AeFileEvents: one      *)
(* thread, one descriptor that listens and one per client, accept_handler  *)
(* and drive_machine for the handlers.  Every step of the server is a step *)
(* of AeFileEvents; here are the handlers' own conditions and the clients, *)
(* who connect, send, close, break off and read answers at any moment.     *)
(*                                                                         *)
(* Descriptors are counted from server_fd; what a client sends before its  *)
(* connection is accepted is what it sends right after.  A read takes all  *)
(* there is (the buffer is longer) and is answered with one "ok".          *)
(***************************************************************************)
EXTENDS AeFileEvents

CONSTANTS MaxOpen,     \* descriptors the process may have open
          MaxClients,  \* bound: clients that connect
          MaxSends,    \* bound: messages that are sent, in all
          Window       \* answers that fit in a client's buffers

ASSUME BoundsAssumption == {MaxOpen, MaxClients, MaxSends, Window} \subseteq Nat \ {0}
ASSUME ProgramAssumption ==
  /\ {"READABLE"} \in Masks
  /\ {"accept_handler", "drive_machine"} \subseteq Handlers
  /\ None \notin Handlers

server_fd == 0
Clients == Fds \ {server_fd}

VARIABLES
  step,     \* what the running handler does next
  newfd,    \* client_fd of accept_handler
  beyond,   \* open descriptors of AE_SETSIZE or more
  refused,  \* open descriptors that epoll_ctl refused to add
  killed,   \* a signal has ended the process
  backlog,  \* clients that wait to be accepted
  came,     \* clients that have connected
  sends,    \* messages that were sent
  inbox,    \* messages of a client that were not read
  fin,      \* the client has closed its end
  reset,    \* the connection is broken
  unread    \* answers that the client has not read

handler == <<step, newfd, beyond, refused, killed>>
peers == <<backlog, came, sends, inbox, fin, reset, unread>>
svars == <<vars, handler, peers>>

\* main: init_server, aeCreateEventLoop, aeCreateFileEvent for server_fd, whose
\* result is ignored.
ServerInit ==
  /\ refused \in {{}, {server_fd}}
  /\ mask = [fd \in Fds |-> IF fd = server_fd /\ fd \notin refused THEN {"READABLE"} ELSE {}]
  /\ rfileProc = [fd \in Fds |-> IF fd = server_fd /\ fd \notin refused THEN "accept_handler"
                                                                      ELSE None]
  /\ wfileProc = [fd \in Fds |-> None]
  /\ maxfd = IF server_fd \in refused THEN -1 ELSE server_fd
  /\ stop = FALSE
  /\ interest = mask
  /\ opened = {server_fd}
  /\ ready = [fd \in Fds |-> {}]
  /\ pc = "main" /\ fired = NothingFired /\ cur = -1 /\ rfired = FALSE
  /\ step = "start" /\ newfd = -1 /\ beyond = 0 /\ killed = FALSE
  /\ backlog = 0 /\ came = 0 /\ sends = 0
  /\ inbox = [fd \in Clients |-> 0]
  /\ fin = [fd \in Clients |-> FALSE]
  /\ reset = [fd \in Clients |-> FALSE]
  /\ unread = [fd \in Clients |-> 0]

-----------------------------------------------------------------------------
(* The clients.                                                            *)

\* A descriptor becomes readable, or is so already.
Readable(fd) ==
  IF "READABLE" \in ready[fd] THEN UNCHANGED vars ELSE Arrive(fd, "READABLE")

ClientConnects ==
  /\ came < MaxClients
  /\ came' = came + 1
  /\ backlog' = backlog + 1
  /\ Readable(server_fd)
  /\ UNCHANGED <<handler, sends, inbox, fin, reset, unread>>

Connected(fd) == fd \in opened /\ ~fin[fd] /\ ~reset[fd]

ClientSends(fd) ==
  /\ Connected(fd) /\ sends < MaxSends
  /\ sends' = sends + 1
  /\ inbox' = [inbox EXCEPT ![fd] = @ + 1]
  /\ Readable(fd)
  /\ UNCHANGED <<handler, backlog, came, fin, reset, unread>>

ClientCloses(fd) ==
  /\ Connected(fd)
  /\ fin' = [fin EXCEPT ![fd] = TRUE]
  /\ Readable(fd)
  /\ UNCHANGED <<handler, backlog, came, sends, inbox, reset, unread>>

\* The client resets the connection, or its host answers for it when an
\* answer comes after it has closed.
ClientBreaks(fd) ==
  /\ fd \in opened /\ ~reset[fd]
  /\ reset' = [reset EXCEPT ![fd] = TRUE]
  /\ Readable(fd)
  /\ UNCHANGED <<handler, backlog, came, sends, inbox, fin, unread>>

ClientReads(fd) ==
  /\ unread[fd] > 0
  /\ unread' = [unread EXCEPT ![fd] = @ - 1]
  /\ UNCHANGED <<vars, handler, backlog, came, sends, inbox, fin, reset>>

-----------------------------------------------------------------------------
(* accept_handler.                                                         *)

Handling(proc, s) == ~killed /\ pc = "rproc" /\ rfileProc[cur] = proc /\ step = s

\* accept takes a client from the backlog ...
accept_takes ==
  /\ Handling("accept_handler", "start")
  /\ backlog > 0
  /\ Cardinality(opened) + beyond < MaxOpen
  /\ backlog' = backlog - 1
  /\ step' = "accept"
  /\ IF backlog' = 0 THEN Drain("READABLE") ELSE UNCHANGED vars
  /\ UNCHANGED <<newfd, beyond, refused, killed, came, sends, inbox, fin, reset, unread>>

\* ... or returns -1, with no descriptor left.
accept_fails ==
  /\ Handling("accept_handler", "start")
  /\ Cardinality(opened) + beyond >= MaxOpen
  /\ step' = "done"
  /\ UNCHANGED <<vars, newfd, beyond, refused, killed, peers>>

\* ... and gives it the lowest free descriptor.
accept_returns ==
  /\ Handling("accept_handler", "accept")
  /\ opened # Fds
  /\ Open
  /\ newfd' = Min(Fds \ opened)
  /\ step' = "register"
  /\ inbox' = [inbox EXCEPT ![newfd'] = 0]
  /\ fin' = [fin EXCEPT ![newfd'] = FALSE]
  /\ reset' = [reset EXCEPT ![newfd'] = FALSE]
  /\ unread' = [unread EXCEPT ![newfd'] = 0]
  /\ UNCHANGED <<beyond, refused, killed, backlog, came, sends>>

\* With AE_SETSIZE descriptors open, aeCreateFileEvent returns AE_ERR.  That is
\* ignored, and the connection stays open.
accept_returns_beyond ==
  /\ Handling("accept_handler", "accept")
  /\ opened = Fds
  /\ beyond' = beyond + 1
  /\ step' = "done"
  /\ UNCHANGED <<vars, newfd, refused, killed, peers>>

accept_registers ==
  /\ Handling("accept_handler", "register")
  /\ aeCreateFileEvent(newfd, {"READABLE"}, "drive_machine")
  /\ step' = "done" /\ newfd' = -1
  /\ UNCHANGED <<beyond, refused, killed, peers>>

\* epoll_ctl refuses: AE_ERR is ignored here too, and the connection stays open.
accept_refused ==
  /\ Handling("accept_handler", "register")
  /\ aeCreateFileEvent_refused(newfd)
  /\ refused' = refused \cup {newfd}
  /\ step' = "done" /\ newfd' = -1
  /\ UNCHANGED <<beyond, killed, peers>>

\* Mutant: the descriptor is not closed.
accept_gives_up_open ==
  /\ Handling("accept_handler", "register")
  /\ step' = "done" /\ newfd' = -1
  /\ UNCHANGED <<vars, beyond, refused, killed, peers>>

\* set_nonblocking or set_closexec fails.
accept_gives_up ==
  /\ Handling("accept_handler", "register")
  /\ Close(newfd)
  /\ step' = "done" /\ newfd' = -1
  /\ UNCHANGED <<beyond, refused, killed, peers>>

-----------------------------------------------------------------------------
(* drive_machine.                                                          *)

\* Mutant: the end of the stream is taken for nothing to read.
read_end_ignored ==
  /\ Handling("drive_machine", "start")
  /\ ~reset[cur] => inbox[cur] = 0 /\ fin[cur]
  /\ step' = IF reset[cur] THEN "delete" ELSE "done"
  /\ UNCHANGED <<vars, newfd, beyond, refused, killed, peers>>

\* read returns 0 or an error.
read_end ==
  /\ Handling("drive_machine", "start")
  /\ ~reset[cur] => inbox[cur] = 0 /\ fin[cur]
  /\ step' = "delete"
  /\ UNCHANGED <<vars, newfd, beyond, refused, killed, peers>>

read_data ==
  /\ Handling("drive_machine", "start")
  /\ ~reset[cur] /\ inbox[cur] > 0
  /\ inbox' = [inbox EXCEPT ![cur] = 0]
  /\ step' = "send"
  /\ IF fin[cur] THEN UNCHANGED vars ELSE Drain("READABLE")
  /\ UNCHANGED <<newfd, beyond, refused, killed, backlog, came, sends, fin, reset, unread>>

\* non_block_send: with a full buffer it tries again, for as long as it takes.
send_ok ==
  /\ Handling("drive_machine", "send")
  /\ ~reset[cur] /\ unread[cur] < Window
  /\ unread' = [unread EXCEPT ![cur] = @ + 1]
  /\ step' = "done"
  /\ UNCHANGED <<vars, newfd, beyond, refused, killed, backlog, came, sends, inbox, fin, reset>>

\* On a broken connection it gives up, and its result is ignored; or send raises
\* SIGPIPE, which nobody handles.
send_fails ==
  /\ Handling("drive_machine", "send")
  /\ reset[cur]
  /\ \/ step' = "done" /\ UNCHANGED killed
     \/ killed' = TRUE /\ UNCHANGED step
  /\ UNCHANGED <<vars, newfd, beyond, refused, peers>>

drive_machine_deletes ==
  /\ Handling("drive_machine", "delete")
  /\ aeDeleteFileEvent(cur, {"READABLE"})
  /\ step' = "close"
  /\ UNCHANGED <<newfd, beyond, refused, killed, peers>>

drive_machine_closes ==
  /\ Handling("drive_machine", "close")
  /\ Close(cur)
  /\ refused' = refused \ {cur}
  /\ step' = "done"
  /\ UNCHANGED <<newfd, beyond, killed, peers>>

-----------------------------------------------------------------------------
(* The event loop.                                                         *)

EventLoop ==
  /\ ~killed
  /\ \/ aeProcessEvents
     \/ aeApiPoll
     \/ \E fd \in Fds : dispatch_read(fd)
     \/ dispatch_write
  /\ UNCHANGED <<handler, peers>>

Handler_returns ==
  /\ step = "done" /\ rfileProc_returns
  /\ step' = "start"
  /\ UNCHANGED <<newfd, beyond, refused, killed, peers>>

Server ==
  \/ EventLoop \/ Handler_returns
  \/ accept_takes \/ accept_fails \/ accept_returns \/ accept_returns_beyond
  \/ accept_registers \/ accept_refused \/ accept_gives_up
  \/ read_end \/ read_data \/ send_ok \/ send_fails
  \/ drive_machine_deletes \/ drive_machine_closes

ServerNext ==
  \/ Server
  \/ ClientConnects
  \/ \E fd \in Clients :
       ClientSends(fd) \/ ClientCloses(fd) \/ ClientBreaks(fd) \/ ClientReads(fd)

\* The thread runs.  That clients read their answers has to be assumed: one that
\* does not holds up non_block_send and with it everyone.
ServerSpec ==
  /\ ServerInit /\ [][ServerNext]_svars
  /\ WF_svars(Server)
  /\ \A fd \in Clients : WF_svars(ClientReads(fd))

-----------------------------------------------------------------------------
(* Every open descriptor is registered with the handler it needs, except   *)
(* the one that the running handler is about to register or has deleted in *)
(* order to close it, and those whose registration failed, which           *)
(* accept_handler does not notice: the descriptors of AE_SETSIZE or more   *)
(* and those that epoll_ctl refused.  No other connection stays open       *)
(* without being served, whatever fails.                                   *)
NoOrphan ==
  \A fd \in opened \ refused :
    \/ /\ mask[fd] = {"READABLE"}
       /\ rfileProc[fd] = IF fd = server_fd THEN "accept_handler" ELSE "drive_machine"
    \/ fd = newfd
    \/ fd = cur /\ step = "close"

(* What the server has left to do.                                         *)
Waiting(fd) == fd \in opened \ refused /\ (inbox[fd] > 0 \/ fin[fd] \/ reset[fd])

(* When clients stop coming and sending, and read their answers, the       *)
(* server has accepted them all or has no descriptor left, has answered    *)
(* what it was sent and has closed the connections that ended, but for     *)
(* those whose registration failed; or its listening socket could not be   *)
(* registered, or SIGPIPE has ended it.                                    *)
EveryoneServed ==
  <>[](\/ killed \/ server_fd \in refused
       \/ /\ backlog = 0 \/ Cardinality(opened) + beyond >= MaxOpen
          /\ \A fd \in Clients : ~Waiting(fd)
          /\ step # "send")
=============================================================================
