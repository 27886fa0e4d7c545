------------------------------ MODULE AeProofs ------------------------------
(***************************************************************************)
(* Proofs about the file events of AeFileEvents and the server of          *)
(* AeServer, for every AE_SETSIZE, every set of masks and of handlers, any *)
(* number of clients and any limit of open descriptors.  The server's      *)
(* steps are steps of the event loop, so what is proved of the loop for    *)
(* every program holds for this one.                                       *)
(***************************************************************************)
EXTENDS AeServer, WellFoundedInduction, TLAPS

-----------------------------------------------------------------------------
(* Least and greatest elements.                                            *)

\* Every non-empty set of naturals has a least element: < is well founded on
\* the naturals.  (With the set of the numbers that lack a property, this is
\* induction.)
LEMMA LeastNatural ==
  ASSUME NEW S, S \subseteq Nat, S # {}
  PROVE  \E x \in S : \A y \in S : x <= y
<1>1. \A x, y \in Nat : y < x => <<y, x>> \in OpToRel(<, Nat)
  BY DEF OpToRel
<1>2. PICK x \in S : \A y \in S : ~(<<y, x>> \in OpToRel(<, Nat))
  BY NatLessThanWellFounded, WFMin
<1>3. \A y \in S : ~(y < x)
  BY <1>1, <1>2, Zenon
<1> QED BY <1>3

\* Min is the least element of a non-empty set of naturals.
LEMMA MinIsLeast ==
  ASSUME NEW S, S \subseteq Nat, S # {}
  PROVE  Min(S) \in S /\ \A y \in S : Min(S) <= y
  BY LeastNatural DEF Min

\* Max is the greatest element of a non-empty set of naturals that is bounded.
LEMMA MaxIsGreatest ==
  ASSUME NEW n \in Int, NEW S \in SUBSET (0 .. n), S # {}
  PROVE  Max(S) \in S /\ \A y \in S : Max(S) >= y
<1> DEFINE T == {k \in Nat : n - k \in S}
<1>1. T \subseteq Nat /\ T # {}
  <2>1. PICK x \in S : x \in 0 .. n
    OBVIOUS
  <2>2. n - x \in Nat /\ n - (n - x) = x
    BY <2>1
  <2> QED BY <2>2
<1> HIDE DEF T
<1>2. PICK t \in T : \A u \in T : t <= u
  BY <1>1, LeastNatural
<1>3. n - t \in S /\ t \in Nat
  BY <1>1 DEF T
<1>4. ASSUME NEW y \in S
      PROVE  n - t >= y
  <2>1. y \in 0 .. n
    OBVIOUS
  <2>2. n - y \in Nat /\ n - (n - y) = y
    BY <2>1
  <2>3. n - y \in T
    BY <2>2 DEF T
  <2> QED BY <2>1, <2>2, <2>3, <1>2, <1>3
<1> QED BY <1>3, <1>4 DEF Max

-----------------------------------------------------------------------------
(* The search for the highest registered descriptor.                       *)

\* The result is -1 or a registered descriptor, and no registered one is above.
LEMMA HighestIs ==
  ASSUME NEW events, NEW below \in Fds
  PROVE  /\ Highest(events, below) \in -1 .. below - 1
         /\ Highest(events, below) = -1 \/ events[Highest(events, below)] # {}
         /\ \A fd \in 0 .. below - 1 : events[fd] # {} => fd <= Highest(events, below)
<1> DEFINE S == {fd \in 0 .. below - 1 : events[fd] # {}}
<1>1. below \in Nat
  BY SetSizeAssumption DEF Fds
<1>2. CASE S = {}
  BY <1>1, <1>2 DEF Highest
<1>3. CASE S # {}
  <2>1. S \in SUBSET (0 .. below - 1) /\ below - 1 \in Int
    BY <1>1
  <2>2. Highest(events, below) = Max(S)
    BY <1>3 DEF Highest
  <2>3. Max(S) \in S /\ \A y \in S : Max(S) >= y
    BY <1>3, <2>1, MaxIsGreatest
  <2>4. Max(S) \in 0 .. below - 1 /\ events[Max(S)] # {}
    BY <2>3
  <2>5. \A fd \in 0 .. below - 1 : events[fd] # {} => fd <= Max(S)
    BY <2>3, <2>4
  <2> HIDE DEF S
  <2> QED BY <1>1, <2>2, <2>4, <2>5
<1> QED BY <1>2, <1>3

-----------------------------------------------------------------------------
(* The event loop.                                                         *)

\* A procedure is set for every event that is registered.
HandlersSet ==
  \A fd \in Fds :
    /\ "READABLE" \in mask[fd] => rfileProc[fd] \in Handlers
    /\ "WRITABLE" \in mask[fd] => wfileProc[fd] \in Handlers

\* What the dispatch of a fired event is about.
CurSet == pc \in {"rproc", "write", "wproc"} => cur \in Fds

\* What the steps preserve together.  MaxFdExact needs nothing else of it, but
\* KernelAgrees lets epoll_ctl be accepted and keeps registered descriptors
\* open, and HandlersSet is what makes their calls valid.
LoopInv == KernelAgrees /\ MaxFdExact /\ HandlersSet /\ CurSet

\* aeCreateEventLoop leaves the loop in order.
LEMMA LoopInit == Init => LoopInv
<1> SUFFICES ASSUME Init
             PROVE  LoopInv
  OBVIOUS
<1>1. TypeOK
  <2>1. maxfd \in -1 .. SetSize - 1 /\ cur \in -1 .. SetSize - 1
    BY SetSizeAssumption DEF Init
  <2> QED BY <2>1 DEF Init, TypeOK, NothingFired
<1>2. KernelAgrees
  BY <1>1 DEF Init, KernelAgrees
<1>3. MaxFdExact /\ HandlersSet /\ CurSet
  BY DEF Init, MaxFdExact, HandlersSet, CurSet
<1> QED BY <1>2, <1>3 DEF LoopInv

\* aeCreateFileEvent, of any event and with any handler.
LEMMA CreateStep ==
  ASSUME LoopInv, NEW fd \in Fds, NEW m \in SUBSET Kinds, m # {}, NEW proc \in Handlers,
         aeCreateFileEvent(fd, m, proc)
  PROVE  LoopInv'
<1> USE DEF LoopInv, aeCreateFileEvent
<1>1. TypeOK'
  BY SetSizeAssumption DEF KernelAgrees, TypeOK, Fds, dispatch
<1>2. KernelAgrees'
  BY <1>1 DEF KernelAgrees, TypeOK, CtlAccepted
<1>3. MaxFdExact'
  BY SetSizeAssumption DEF KernelAgrees, TypeOK, MaxFdExact, Fds
<1>4. HandlersSet'
  BY DEF KernelAgrees, TypeOK, HandlersSet
<1>5. CurSet'
  BY DEF CurSet, dispatch
<1> QED BY <1>2, <1>3, <1>4, <1>5

\* aeDeleteFileEvent, of events that need not be registered.
LEMMA DeleteStep ==
  ASSUME LoopInv, NEW fd \in Fds, NEW m \in SUBSET Kinds, aeDeleteFileEvent(fd, m)
  PROVE  LoopInv'
<1> USE DEF LoopInv, aeDeleteFileEvent
<1>1. mask \in [Fds -> SUBSET Kinds] /\ mask' = [mask EXCEPT ![fd] = mask[fd] \ m]
  BY DEF KernelAgrees, TypeOK
<1>2. maxfd \in Fds /\ fd <= maxfd
  BY SetSizeAssumption DEF KernelAgrees, TypeOK, MaxFdExact, Fds
<1>3. /\ Highest(mask', maxfd) \in -1 .. maxfd - 1
      /\ Highest(mask', maxfd) = -1 \/ mask'[Highest(mask', maxfd)] # {}
      /\ \A d \in 0 .. maxfd - 1 : mask'[d] # {} => d <= Highest(mask', maxfd)
  BY <1>2, HighestIs
<1>4. TypeOK'
  <2>1. maxfd' \in -1 .. SetSize - 1
    BY <1>2, <1>3, SetSizeAssumption DEF Fds
  <2>2. mask' \in [Fds -> SUBSET Kinds] /\ interest' \in [Fds -> SUBSET Kinds]
    BY <1>1 DEF KernelAgrees, TypeOK
  <2> QED BY <2>1, <2>2 DEF KernelAgrees, TypeOK, dispatch
<1>5. KernelAgrees'
  <2>1. interest' = mask'
    BY <1>1 DEF KernelAgrees, TypeOK
  <2>2. \A d \in Fds : mask'[d] # {} => d \in opened'
    BY <1>1 DEF KernelAgrees, TypeOK
  <2> QED BY <1>4, <2>1, <2>2 DEF KernelAgrees
<1>6. MaxFdExact'
  <2>1. CASE fd = maxfd /\ mask'[fd] = {}
    <3>1. maxfd' = Highest(mask', maxfd)
      BY <2>1
    <3>2. ASSUME NEW d \in Fds, mask'[d] # {}
          PROVE  d <= maxfd'
      <4>1. d <= maxfd /\ d # maxfd
        BY <1>1, <2>1, <3>2 DEF MaxFdExact
      <4>2. d \in 0 .. maxfd - 1
        BY <4>1, <1>2, SetSizeAssumption DEF Fds
      <4> QED BY <4>2, <1>3, <3>1, <3>2
    <3> QED BY <1>3, <3>1, <3>2 DEF MaxFdExact
  <2>2. CASE ~(fd = maxfd /\ mask'[fd] = {})
    <3>1. maxfd' = maxfd
      BY <2>2
    <3> QED BY <1>1, <1>2, <2>2, <3>1 DEF MaxFdExact
  <2> QED BY <2>1, <2>2
<1>7. HandlersSet'
  BY <1>1 DEF HandlersSet
<1>8. CurSet'
  BY DEF CurSet, dispatch
<1> QED BY <1>5, <1>6, <1>7, <1>8

\* Every step of the program, the network and the loop keeps it in order.
LEMMA LoopStep == LoopInv /\ [Next]_vars => LoopInv'
<1> SUFFICES ASSUME LoopInv, [Next]_vars
             PROVE  LoopInv'
  OBVIOUS
<1> USE DEF LoopInv
<1>1. CASE \E fd \in Fds, m \in Masks, proc \in Handlers : aeCreateFileEvent(fd, m, proc)
  BY <1>1, CreateStep, MasksAssumption
<1>17. CASE \E fd \in Fds : aeCreateFileEvent_refused(fd)
  BY <1>17 DEF aeCreateFileEvent_refused, vars, KernelAgrees, TypeOK, MaxFdExact, HandlersSet,
               CurSet
<1>2. CASE \E fd \in Fds, m \in Masks : aeDeleteFileEvent(fd, m)
  BY <1>2, DeleteStep, MasksAssumption
<1>3. CASE aeStop
  BY <1>3 DEF aeStop, kernel, dispatch, KernelAgrees, TypeOK, MaxFdExact, HandlersSet, CurSet
<1>4. CASE Open
  <2>1. Min(Fds \ opened) \in Fds
    <3>1. Fds \ opened # {}
      BY <1>4 DEF Open, KernelAgrees, TypeOK
    <3>2. Fds \ opened \subseteq Nat
      BY SetSizeAssumption DEF Fds
    <3>3. Min(Fds \ opened) \in Fds \ opened
      BY <3>1, <3>2, MinIsLeast
    <3> QED BY <3>3
  <2> QED BY <1>4, <2>1
          DEF Open, program, dispatch, KernelAgrees, TypeOK, MaxFdExact, HandlersSet, CurSet
<1>5. CASE \E fd \in Fds : Close(fd)
  BY <1>5 DEF Close, program, dispatch, KernelAgrees, TypeOK, MaxFdExact, HandlersSet, CurSet
<1>6. CASE \E k \in Kinds : Drain(k)
  BY <1>6 DEF Drain, program, dispatch, KernelAgrees, TypeOK, MaxFdExact, HandlersSet, CurSet
<1>7. CASE Network
  BY <1>7 DEF Network, Arrive, program, dispatch, KernelAgrees, TypeOK, MaxFdExact, HandlersSet,
              CurSet
<1>8. CASE aeProcessEvents
  BY <1>8 DEF aeProcessEvents, program, kernel, KernelAgrees, TypeOK, MaxFdExact, HandlersSet,
              CurSet
<1>9. CASE aeMain
  BY <1>9 DEF aeMain, kernel, dispatch, KernelAgrees, TypeOK, MaxFdExact, HandlersSet, CurSet
<1>10. CASE aeApiPoll
  BY <1>10 DEF aeApiPoll, Reported, Continue, program, kernel, KernelAgrees, TypeOK, MaxFdExact,
               HandlersSet, CurSet
<1>11. CASE \E fd \in Fds : dispatch_read(fd)
  BY <1>11, SetSizeAssumption
     DEF dispatch_read, program, kernel, KernelAgrees, TypeOK, MaxFdExact, HandlersSet, CurSet, Fds
<1>12. CASE rfileProc_returns
  BY <1>12 DEF rfileProc_returns, program, kernel, KernelAgrees, TypeOK, MaxFdExact, HandlersSet,
               CurSet
<1>13. ASSUME NextFired, pc \in {"write", "wproc"}
       PROVE  LoopInv'
  <2>1. fired' \in [Fds -> SUBSET Kinds] /\ pc' \in {"main", "loop"} /\ cur' = -1 /\ rfired' = FALSE
    BY <1>13 DEF NextFired, Continue, KernelAgrees, TypeOK
  <2>2. UNCHANGED <<program, kernel>> /\ cur' \in -1 .. SetSize - 1
    BY <1>13, <2>1, SetSizeAssumption DEF NextFired
  <2>3. KernelAgrees'
    BY <2>1, <2>2 DEF program, kernel, KernelAgrees, TypeOK
  <2> QED BY <2>1, <2>2, <2>3 DEF program, MaxFdExact, HandlersSet, CurSet
<1>14. CASE dispatch_write
  BY <1>13, <1>14 DEF dispatch_write, program, kernel, KernelAgrees, TypeOK, MaxFdExact,
                      HandlersSet, CurSet
<1>15. CASE wfileProc_returns
  BY <1>13, <1>15 DEF wfileProc_returns
<1>16. CASE UNCHANGED vars
  BY <1>16 DEF vars, KernelAgrees, TypeOK, MaxFdExact, HandlersSet, CurSet
<1> QED BY <1>1, <1>2, <1>3, <1>4, <1>5, <1>6, <1>7, <1>8, <1>9, <1>10, <1>11, <1>12, <1>14,
           <1>15, <1>16, <1>17 DEF Next, Program, Loop

\* The inductive invariant of the event loop, for every program.
THEOREM LoopInvariance == Spec => []LoopInv
<1> QED BY LoopInit, LoopStep, PTL DEF Spec

\* The kernel watches what the program has registered, and only open descriptors
\* are registered (aeApiAddEvent, aeApiDelEvent, close).
THEOREM KernelAgreesAlways == Spec => []KernelAgrees
<1>1. LoopInv => KernelAgrees
  BY DEF LoopInv
<1> QED BY <1>1, LoopInvariance, PTL

\* maxfd is the highest registered descriptor (aeCreateFileEvent,
\* aeDeleteFileEvent).
THEOREM MaxFdExactAlways == Spec => []MaxFdExact
<1>1. LoopInv => MaxFdExact
  BY DEF LoopInv
<1> QED BY <1>1, LoopInvariance, PTL

\* Only the two halves of the dispatch call a handler, and each has compared the
\* event with the registered ones.
LEMMA CallStep == LoopInv /\ [Next]_vars => [CallIsValid]_vars
<1> SUFFICES ASSUME LoopInv, Next
             PROVE  CallIsValid
  OBVIOUS
<1>1. CASE \E fd \in Fds : dispatch_read(fd)
  <2>1. PICK fd \in Fds : dispatch_read(fd)
    BY <1>1
  <2>2. CASE "READABLE" \in mask[fd]
    BY <2>1, <2>2 DEF dispatch_read, CallIsValid, LoopInv, KernelAgrees, HandlersSet
  <2>3. CASE "READABLE" \notin mask[fd]
    BY <2>1, <2>3 DEF dispatch_read, CallIsValid
  <2> QED BY <2>2, <2>3
<1>2. CASE dispatch_write
  <2>1. CASE WriteDue
    <3>1. "WRITABLE" \in mask[cur] /\ cur \in Fds
      BY <1>2, <2>1 DEF dispatch_write, WriteDue, LoopInv, CurSet
    <3>2. cur \in opened /\ wfileProc[cur] \in Handlers
      BY <3>1 DEF LoopInv, KernelAgrees, HandlersSet
    <3> QED BY <1>2, <2>1, <3>2 DEF dispatch_write, CallIsValid
  <2>2. CASE ~WriteDue
    BY <1>2, <2>2 DEF dispatch_write, NextFired, Continue, CallIsValid
  <2> QED BY <2>1, <2>2
<1>3. CASE Program \/ Network
  BY <1>3 DEF Program, Network, aeCreateFileEvent, aeCreateFileEvent_refused, vars, aeDeleteFileEvent, aeStop, Open, Close, Drain,
              Arrive, dispatch, CallIsValid
<1>4. CASE aeProcessEvents \/ aeMain \/ aeApiPoll \/ rfileProc_returns \/ wfileProc_returns
  BY <1>4 DEF aeProcessEvents, aeMain, aeApiPoll, rfileProc_returns, wfileProc_returns, NextFired,
              Continue, dispatch, CallIsValid
<1> QED BY <1>1, <1>2, <1>3, <1>4 DEF Next, Loop

\* Handlers are called for open descriptors only and are ones the program has
\* set (the conditions of the loop over fired[] in aeProcessEvents).
THEOREM CallsAreValidAlways == Spec => CallsAreValid
<1> QED BY LoopInvariance, CallStep, PTL DEF Spec, CallsAreValid

-----------------------------------------------------------------------------
(* The server.                                                             *)

\* Whatever the server, its handlers and its clients do, the event loop sees a
\* step of a program, of the network or of its own.
LEMMA ServerStepIsLoopStep ==
  ASSUME LoopInv, step = "register" => newfd \in Fds, [ServerNext]_svars
  PROVE  [Next]_vars
<1> USE DEF Next
<1>1. ASSUME NEW fd \in Fds, Readable(fd)
      PROVE  [Next]_vars
  BY <1>1 DEF Readable, Network, Kinds
<1>2. \A fd \in Clients : fd \in Fds
  BY DEF Clients
<1>3. server_fd \in Fds
  BY SetSizeAssumption DEF server_fd, Fds
<1>4. CASE \/ ClientConnects
           \/ \E fd \in Clients :
                ClientSends(fd) \/ ClientCloses(fd) \/ ClientBreaks(fd) \/ ClientReads(fd)
  BY <1>1, <1>2, <1>3, <1>4
     DEF ClientConnects, ClientSends, ClientCloses, ClientBreaks, ClientReads
<1>5. CASE EventLoop \/ Handler_returns
  BY <1>5 DEF EventLoop, Handler_returns, Loop
<1>6. CASE accept_takes \/ read_data
  BY <1>6 DEF accept_takes, read_data, Program, Kinds
<1>7. CASE \/ accept_fails \/ accept_returns_beyond \/ accept_refused
           \/ read_end \/ send_ok \/ send_fails
  BY <1>7 DEF accept_refused, aeCreateFileEvent_refused, accept_fails, accept_returns_beyond, read_end, send_ok, send_fails
<1>8. CASE accept_returns
  BY <1>8 DEF accept_returns, Program
<1>9. CASE accept_registers
  BY <1>9, ProgramAssumption DEF accept_registers, Handling, Program
<1>10. CASE accept_gives_up
  BY <1>10 DEF accept_gives_up, Handling, Program
<1>11. CASE drive_machine_deletes \/ drive_machine_closes
  BY <1>11, ProgramAssumption
     DEF drive_machine_deletes, drive_machine_closes, Handling, Program, LoopInv, CurSet
<1>12. CASE UNCHANGED svars
  BY <1>12 DEF svars
<1> QED BY <1>4, <1>5, <1>6, <1>7, <1>8, <1>9, <1>10, <1>11, <1>12 DEF ServerNext, Server
\* Where the running handler is: accept_handler holds a new, unregistered
\* connection between accept and aeCreateFileEvent, and drive_machine never
\* deletes or closes the descriptor that listens.
HandlerState ==
  /\ step \in {"start", "accept", "register", "send", "delete", "close", "done"}
  /\ step # "start" => pc = "rproc"
  /\ step = "register" =>
       /\ newfd \in opened /\ newfd \in Fds
       /\ newfd # server_fd
       /\ mask[newfd] = {}
  /\ step # "register" => newfd = -1
  /\ step \in {"delete", "close"} => cur # server_fd

\* The descriptor that listens is open, and has its handler or, refused, none.
Listening == server_fd \in opened /\ rfileProc[server_fd] \in {"accept_handler", None}

\* What the server's steps preserve together.
ServerInv == LoopInv /\ HandlerState /\ Listening /\ NoOrphan

\* The server starts with its listening socket registered.
LEMMA ServerStart == ServerInit => ServerInv
<1> SUFFICES ASSUME ServerInit
             PROVE  ServerInv
  OBVIOUS
<1> USE DEF server_fd
<1>1. 0 \in Fds /\ 0 \in -1 .. SetSize - 1 /\ -1 \in -1 .. SetSize - 1 /\ \A fd \in Fds : fd \in Nat
  BY SetSizeAssumption DEF Fds
<1>2. "accept_handler" \in Handlers
  BY ProgramAssumption
<1>3. mask \in [Fds -> SUBSET Kinds] /\ rfileProc \in [Fds -> Handlers \cup {None}]
  BY <1>2 DEF ServerInit, Kinds
<1>4. TypeOK
  BY <1>1, <1>3 DEF ServerInit, TypeOK, NothingFired
<1>5. KernelAgrees
  BY <1>4 DEF ServerInit, KernelAgrees
<1>6. MaxFdExact
  BY <1>1 DEF ServerInit, MaxFdExact
<1>7. HandlersSet /\ CurSet
  BY <1>2 DEF ServerInit, HandlersSet, CurSet
<1>8. HandlerState
  BY DEF ServerInit, HandlerState
<1>9. Listening /\ NoOrphan
  BY <1>1 DEF ServerInit, Listening, NoOrphan
<1> QED BY <1>5, <1>6, <1>7, <1>8, <1>9 DEF ServerInv, LoopInv

\* A step that leaves the registrations, the open descriptors and the call of
\* the running handler alone.
LEMMA ServerQuiet ==
  ASSUME ServerInv, LoopInv',
         UNCHANGED <<mask, rfileProc, opened, newfd, refused>>,
         step' = step \/ {step, step'} \cap {"register", "close"} = {},
         step' \in {"start", "accept", "register", "send", "delete", "close", "done"},
         step' # "start" => pc' = "rproc",
         step' \in {"delete", "close"} => cur' # server_fd,
         step' = "close" => cur' = cur
  PROVE  ServerInv'
<1>1. HandlerState'
  BY DEF ServerInv, HandlerState
<1>2. NoOrphan'
  BY DEF ServerInv, NoOrphan
<1> QED BY <1>1, <1>2 DEF ServerInv, Listening

\* Every step of the server, of the loop and of clients keeps the invariant.
LEMMA ServerStep == ServerInv /\ [ServerNext]_svars => ServerInv'
<1> SUFFICES ASSUME ServerInv, [ServerNext]_svars
             PROVE  ServerInv'
  OBVIOUS
<1>1. LoopInv /\ HandlerState /\ Listening /\ NoOrphan
  BY DEF ServerInv
<1>2. LoopInv'
  <2>1. [Next]_vars
    BY <1>1, ServerStepIsLoopStep DEF HandlerState
  <2> QED BY <1>1, <2>1, LoopStep
<1>3. ASSUME NEW fd, Readable(fd)
      PROVE  UNCHANGED <<mask, rfileProc, opened, pc, cur>>
  BY <1>3 DEF Readable, Arrive, program, dispatch, vars
<1>4. CASE \/ ClientConnects
           \/ \E fd \in Clients :
                ClientSends(fd) \/ ClientCloses(fd) \/ ClientBreaks(fd) \/ ClientReads(fd)
  <2>1. UNCHANGED <<mask, rfileProc, opened, pc, cur, step, newfd, refused>>
    BY <1>3, <1>4 DEF ClientConnects, ClientSends, ClientCloses, ClientBreaks, ClientReads, handler,
                      vars
  <2> QED BY <1>1, <1>2, <2>1, ServerQuiet DEF HandlerState
<1>5. CASE EventLoop
  <2>1. UNCHANGED <<mask, rfileProc, opened, step, newfd, refused>> /\ pc # "rproc"
    BY <1>5 DEF EventLoop, aeProcessEvents, aeApiPoll, dispatch_read, dispatch_write, NextFired,
                program, kernel, handler
  <2> QED BY <1>1, <1>2, <2>1, ServerQuiet DEF HandlerState
<1>6. CASE Handler_returns
  <2>1. UNCHANGED <<mask, rfileProc, opened, newfd, refused>> /\ step = "done" /\ step' = "start"
    BY <1>6 DEF Handler_returns, rfileProc_returns, program, kernel
  <2> QED BY <1>1, <1>2, <2>1, ServerQuiet
<1>7. CASE accept_takes \/ read_data
  <2>1. /\ UNCHANGED <<mask, rfileProc, opened, newfd, pc, cur, refused>>
        /\ step = "start" /\ step' \in {"accept", "send"} /\ pc = "rproc"
    BY <1>7 DEF accept_takes, read_data, Handling, Drain, program, dispatch, vars
  <2> QED BY <1>1, <1>2, <2>1, ServerQuiet
<1>8. CASE accept_fails \/ read_end \/ send_ok \/ send_fails
  <2>1. /\ UNCHANGED <<mask, rfileProc, opened, newfd, pc, cur, refused>>
        /\ step \in {"start", "send"} /\ step' \in {"send", "done", "delete"} /\ pc = "rproc"
        /\ step' = "delete" => rfileProc[cur] = "drive_machine"
    BY <1>8 DEF accept_fails, read_end, send_ok, send_fails, Handling, vars
  <2>2. step' = "delete" => cur # server_fd
    BY <1>1, <2>1, ProgramAssumption DEF Listening
  <2> QED BY <1>1, <1>2, <2>1, <2>2, ServerQuiet
<1>9. CASE accept_returns_beyond
  <2>1. /\ UNCHANGED <<mask, rfileProc, opened, newfd, pc, cur, refused>>
        /\ step = "accept" /\ step' = "done" /\ pc = "rproc"
    BY <1>9 DEF accept_returns_beyond, Handling, vars
  <2> QED BY <1>1, <1>2, <2>1, ServerQuiet
<1>10. CASE accept_returns
  <2>1. /\ UNCHANGED <<mask, rfileProc, pc, cur, refused>> /\ opened' = opened \cup {newfd'}
        /\ newfd' = Min(Fds \ opened) /\ opened # Fds
        /\ step = "accept" /\ step' = "register" /\ pc = "rproc"
    BY <1>10 DEF accept_returns, Handling, Open, program, dispatch
  <2>2. newfd' \in Fds /\ newfd' \notin opened
    <3>1. Fds \ opened # {}
      BY <1>1, <2>1 DEF LoopInv, KernelAgrees, TypeOK
    <3>2. Fds \ opened \subseteq Nat
      BY SetSizeAssumption DEF Fds
    <3>3. Min(Fds \ opened) \in Fds \ opened
      BY <3>1, <3>2, MinIsLeast
    <3> QED BY <2>1, <3>3
  <2>3. mask[newfd'] = {} /\ newfd' # server_fd
    BY <1>1, <2>2 DEF LoopInv, KernelAgrees, Listening
  <2>4. HandlerState'
    BY <2>1, <2>2, <2>3 DEF HandlerState
  <2>5. NoOrphan'
    <3> SUFFICES ASSUME NEW fd \in opened \ refused, fd # newfd'
                 PROVE  /\ mask[fd] = {"READABLE"}
                        /\ rfileProc[fd] = IF fd = server_fd THEN "accept_handler"
                                                             ELSE "drive_machine"
      BY <2>1 DEF NoOrphan
    <3>1. fd # newfd
      BY <1>1, <2>1, SetSizeAssumption DEF HandlerState, LoopInv, KernelAgrees, TypeOK, Fds
    <3> QED BY <1>1, <2>1, <3>1 DEF NoOrphan
  <2> QED BY <1>1, <1>2, <2>1, <2>4, <2>5 DEF ServerInv, Listening
<1>11. CASE accept_registers
  <2>1. /\ UNCHANGED <<opened, pc, cur, refused>>
        /\ step = "register" /\ step' = "done" /\ pc = "rproc" /\ newfd' = -1
        /\ mask' = [mask EXCEPT ![newfd] = mask[newfd] \cup {"READABLE"}]
        /\ rfileProc' = [rfileProc EXCEPT ![newfd] = "drive_machine"]
    BY <1>11 DEF accept_registers, Handling, aeCreateFileEvent, dispatch
  <2>2. /\ newfd \in Fds /\ newfd # server_fd /\ mask[newfd] = {} /\ opened \subseteq Fds
        /\ server_fd \in Fds
        /\ mask \in [Fds -> SUBSET Kinds] /\ rfileProc \in [Fds -> Handlers \cup {None}]
    BY <1>1, <2>1 DEF HandlerState, LoopInv, KernelAgrees, TypeOK, Listening
  <2>3. HandlerState' /\ Listening'
    BY <1>1, <2>1, <2>2 DEF HandlerState, Listening
  <2>4. NoOrphan'
    BY <1>1, <2>1, <2>2 DEF NoOrphan
  <2> QED BY <1>2, <2>3, <2>4 DEF ServerInv
<1>16. CASE accept_refused
  <2>1. /\ UNCHANGED <<mask, rfileProc, opened, pc, cur>> /\ refused' = refused \cup {newfd}
        /\ step = "register" /\ step' = "done" /\ pc = "rproc" /\ newfd' = -1
    BY <1>16 DEF accept_refused, aeCreateFileEvent_refused, Handling, vars
  <2>2. HandlerState' /\ Listening' /\ NoOrphan'
    BY <1>1, <2>1 DEF HandlerState, Listening, NoOrphan
  <2> QED BY <1>2, <2>2 DEF ServerInv
<1>12. CASE accept_gives_up
  <2>1. /\ UNCHANGED <<mask, rfileProc, pc, cur, refused>> /\ opened' = opened \ {newfd}
        /\ step = "register" /\ step' = "done" /\ pc = "rproc" /\ newfd' = -1
    BY <1>12 DEF accept_gives_up, Handling, Close, program, dispatch
  <2>2. HandlerState' /\ Listening' /\ NoOrphan'
    BY <1>1, <2>1 DEF HandlerState, Listening, NoOrphan
  <2> QED BY <1>2, <2>2 DEF ServerInv
<1>13. CASE drive_machine_deletes
  <2>1. /\ UNCHANGED <<rfileProc, opened, pc, cur, newfd, refused>>
        /\ step = "delete" /\ step' = "close" /\ pc = "rproc"
        /\ mask' = [mask EXCEPT ![cur] = mask[cur] \ {"READABLE"}]
    BY <1>13 DEF drive_machine_deletes, Handling, aeDeleteFileEvent, dispatch
  <2>2. opened \subseteq Fds /\ mask \in [Fds -> SUBSET Kinds]
    BY <1>1 DEF LoopInv, KernelAgrees, TypeOK
  <2>3. HandlerState' /\ Listening'
    BY <1>1, <2>1 DEF HandlerState, Listening
  <2>4. NoOrphan'
    BY <1>1, <2>1, <2>2 DEF NoOrphan
  <2> QED BY <1>2, <2>3, <2>4 DEF ServerInv
<1>14. CASE drive_machine_closes
  <2>1. /\ UNCHANGED <<mask, rfileProc, pc, cur, newfd>> /\ opened' = opened \ {cur}
        /\ step = "close" /\ step' = "done" /\ pc = "rproc" /\ refused' = refused \ {cur}
    BY <1>14 DEF drive_machine_closes, Handling, Close, program, dispatch
  <2>2. HandlerState' /\ Listening' /\ NoOrphan'
    BY <1>1, <2>1 DEF HandlerState, Listening, NoOrphan
  <2> QED BY <1>2, <2>2 DEF ServerInv
<1>15. CASE UNCHANGED svars
  <2>1. UNCHANGED <<mask, rfileProc, opened, pc, cur, step, newfd, refused>>
    BY <1>15 DEF svars, vars, handler
  <2> QED BY <1>1, <1>2, <2>1, ServerQuiet DEF HandlerState
<1> QED BY <1>4, <1>5, <1>6, <1>7, <1>8, <1>9, <1>10, <1>11, <1>12, <1>13, <1>14, <1>15, <1>16
        DEF ServerNext, Server

\* The inductive invariant of the server.
THEOREM ServerInvariance == ServerSpec => []ServerInv
<1> QED BY ServerStart, ServerStep, PTL DEF ServerSpec

\* Every open descriptor is registered with the handler that it needs, but for
\* the one in the running handler's hands, those of AE_SETSIZE or more and those
\* that epoll_ctl refused (accept_handler, drive_machine).
THEOREM NoOrphanAlways == ServerSpec => []NoOrphan
<1>1. ServerInv => NoOrphan
  BY DEF ServerInv
<1> QED BY <1>1, ServerInvariance, PTL

\* The server keeps to the event loop: what it does to the loop's state is
\* something a program, the network or the loop may do, so maxfd is exact and
\* the calls are valid here too.
THEOREM ServerKeepsLoop == ServerSpec => [][Next]_vars /\ []MaxFdExact /\ CallsAreValid
<1>1. ServerInv => LoopInv /\ MaxFdExact
  BY DEF ServerInv, LoopInv
<1>2. ServerInv /\ [ServerNext]_svars => [Next]_vars
  BY ServerStepIsLoopStep DEF ServerInv, HandlerState
<1>3. ServerInv /\ [ServerNext]_svars => [CallIsValid]_vars
  BY <1>1, <1>2, CallStep
<1> QED BY <1>1, <1>2, <1>3, ServerInvariance, PTL DEF ServerSpec, CallsAreValid
=============================================================================
