---------------------------- MODULE AeFileEvents ----------------------------
(***************************************************************************)
(* The file events of the event loop in src/ae (ae.c over ae_epoll.c): one *)
(* thread that registers handlers for file descriptors, polls the kernel   *)
(* and dispatches what it reported.  Handlers may register and delete any  *)
(* event, open and close descriptors and stop the loop while reported      *)
(* events of other descriptors are still waiting to be dispatched; the     *)
(* network makes descriptors ready at any moment.                          *)
(*                                                                         *)
(* A descriptor of AE_SETSIZE or more is refused by both calls without an  *)
(* effect, so only the others occur here.  clientData is not modelled.     *)
(***************************************************************************)
EXTENDS Integers, FiniteSetsExt

CONSTANTS SetSize,   \* AE_SETSIZE
          Masks,     \* the masks the program registers and deletes
          Handlers,  \* the aeFileProc functions of the program
          None,      \* a file event whose procedure was never set
          Timed      \* flags has AE_TIME_EVENTS and not AE_DONT_WAIT, as in aeMain

Fds == 0 .. SetSize - 1
Kinds == {"READABLE", "WRITABLE"}

ASSUME SetSizeAssumption == SetSize \in Nat \ {0}
ASSUME MasksAssumption == Masks \subseteq (SUBSET Kinds) \ {{}}
ASSUME TimedAssumption == Timed \in BOOLEAN

VARIABLES
  mask,       \* events[fd].mask
  rfileProc,  \* events[fd].rfileProc
  wfileProc,  \* events[fd].wfileProc
  maxfd,      \* highest registered descriptor, or -1
  stop,       \* set by aeStop
  interest,   \* the kernel's epoll set: what it watches fd for, {} if nothing
  opened,     \* the descriptors that are open
  ready,      \* what each descriptor is ready for
  pc,         \* where the thread is
  fired,      \* reported and not yet dispatched: what was reported of each fd
  cur,        \* the fired event being dispatched, -1 if none
  rfired      \* its read handler was called

program == <<mask, rfileProc, wfileProc, maxfd, stop>>
kernel == <<interest, opened, ready>>
dispatch == <<pc, fired, cur, rfired>>
vars == <<mask, rfileProc, wfileProc, maxfd, stop, interest, opened, ready,
          pc, fired, cur, rfired>>

NothingFired == [fd \in Fds |-> {}]

\* aeCreateEventLoop.
Init ==
  /\ mask = [fd \in Fds |-> {}]
  /\ rfileProc = [fd \in Fds |-> None]
  /\ wfileProc = [fd \in Fds |-> None]
  /\ maxfd = -1
  /\ stop = FALSE
  /\ interest = [fd \in Fds |-> {}]
  /\ opened = {}
  /\ ready = [fd \in Fds |-> {}]
  /\ pc = "main"
  /\ fired = NothingFired
  /\ cur = -1
  /\ rfired = FALSE

-----------------------------------------------------------------------------
(* What the program calls, between two rounds or from a handler.           *)

InProgram == pc \in {"main", "rproc", "wproc"}

\* epoll_ctl in aeApiAddEvent: ADD when events[fd].mask is empty, else MOD.
\* The kernel refuses to add what it watches and to modify what it does not.
CtlAccepted(fd) ==
  /\ fd \in opened
  /\ mask[fd] = {} <=> interest[fd] = {}

\* Mutant: aeApiAddEvent does not merge the old events.
aeCreateFileEvent_unmerged(fd, m, proc) ==
  /\ InProgram
  /\ CtlAccepted(fd)
  /\ interest' = [interest EXCEPT ![fd] = m]
  /\ mask' = [mask EXCEPT ![fd] = @ \cup m]
  /\ rfileProc' = IF "READABLE" \in m THEN [rfileProc EXCEPT ![fd] = proc] ELSE rfileProc
  /\ wfileProc' = IF "WRITABLE" \in m THEN [wfileProc EXCEPT ![fd] = proc] ELSE wfileProc
  /\ maxfd' = IF fd > maxfd THEN fd ELSE maxfd
  /\ UNCHANGED <<stop, opened, ready, dispatch>>

\* The kernel watches fd for what is registered and for m.
aeCreateFileEvent(fd, m, proc) ==
  /\ InProgram
  /\ CtlAccepted(fd)
  /\ interest' = [interest EXCEPT ![fd] = m \cup mask[fd]]
  /\ mask' = [mask EXCEPT ![fd] = @ \cup m]
  /\ rfileProc' = IF "READABLE" \in m THEN [rfileProc EXCEPT ![fd] = proc] ELSE rfileProc
  /\ wfileProc' = IF "WRITABLE" \in m THEN [wfileProc EXCEPT ![fd] = proc] ELSE wfileProc
  /\ maxfd' = IF fd > maxfd THEN fd ELSE maxfd
  /\ UNCHANGED <<stop, opened, ready, dispatch>>

\* epoll_ctl may refuse to add a descriptor for want of memory (ENOMEM, ENOSPC):
\* AE_ERR is returned and nothing changes.
aeCreateFileEvent_refused(fd) ==
  /\ InProgram
  /\ fd \in opened /\ mask[fd] = {}
  /\ UNCHANGED vars

\* Mutant: the lower descriptors are not searched.
Highest_none(events, below) == -1

\* The loop that updates maxfd: the highest registered descriptor below.
Highest(events, below) ==
  LET registered == {fd \in 0 .. below - 1 : events[fd] # {}}
  IN  IF registered = {} THEN -1 ELSE Max(registered)

aeDeleteFileEvent(fd, m) ==
  /\ InProgram
  /\ mask[fd] # {}
  /\ mask' = [mask EXCEPT ![fd] = @ \ m]
  /\ maxfd' = IF fd = maxfd /\ mask'[fd] = {} THEN Highest(mask', maxfd) ELSE maxfd
  /\ interest' = [interest EXCEPT ![fd] = IF @ = {} THEN {} ELSE mask'[fd] \ m]
  /\ UNCHANGED <<rfileProc, wfileProc, stop, opened, ready, dispatch>>

aeStop ==
  /\ InProgram
  /\ stop' = TRUE
  /\ UNCHANGED <<mask, rfileProc, wfileProc, maxfd, kernel, dispatch>>

\* socket, accept: the kernel returns the lowest free descriptor.
Open ==
  /\ InProgram
  /\ opened # Fds
  /\ opened' = opened \cup {Min(Fds \ opened)}
  /\ UNCHANGED <<program, interest, ready, dispatch>>

\* close, of a descriptor whose events were deleted (as drive_machine does).
\* The kernel forgets it.
Close(fd) ==
  /\ InProgram
  /\ fd \in opened
  /\ mask[fd] = {}
  /\ opened' = opened \ {fd}
  /\ interest' = [interest EXCEPT ![fd] = {}]
  /\ ready' = [ready EXCEPT ![fd] = {}]
  /\ UNCHANGED <<program, dispatch>>

\* A handler reads or writes until its descriptor would block.
Drain(k) ==
  /\ pc \in {"rproc", "wproc"}
  /\ k \in ready[cur]
  /\ ready' = [ready EXCEPT ![cur] = @ \ {k}]
  /\ UNCHANGED <<program, interest, opened, dispatch>>

\* The network: data arrives, buffer space is freed.
Arrive(fd, k) ==
  /\ fd \in opened
  /\ k \notin ready[fd]
  /\ k \in UNION Masks
  /\ ready' = [ready EXCEPT ![fd] = @ \cup {k}]
  /\ UNCHANGED <<program, interest, opened, dispatch>>

-----------------------------------------------------------------------------
(* One round of aeProcessEvents.                                           *)

\* With no descriptor and nothing to wait for, aeProcessEvents returns.
aeProcessEvents ==
  /\ pc = "main" /\ ~stop
  /\ maxfd # -1 \/ Timed
  /\ pc' = "poll"
  /\ UNCHANGED <<program, kernel, fired, cur, rfired>>

\* aeMain resets stop when it is called again.
aeMain ==
  /\ pc = "main" /\ stop
  /\ stop' = FALSE
  /\ UNCHANGED <<mask, rfileProc, wfileProc, maxfd, kernel, dispatch>>

Reported == [fd \in Fds |-> interest[fd] \cap ready[fd]]

\* Where the loop over fired[] goes when nothing or something is left.
Continue(pending) == IF pending = NothingFired THEN "main" ELSE "loop"

\* epoll_wait reports every watched descriptor that is ready, in no particular
\* order; with none it waits, or returns 0 at its timeout or for a signal.
aeApiPoll ==
  /\ pc = "poll"
  /\ fired' = Reported
  /\ pc' = Continue(Reported)
  /\ UNCHANGED <<program, kernel, cur, rfired>>

\* The read half of the dispatch of fd: call the read handler if the event was
\* reported and is still registered.
dispatch_read(fd) ==
  /\ pc = "loop"
  /\ fired[fd] # {}
  /\ cur' = fd
  /\ rfired' = ("READABLE" \in mask[fd] \cap fired[fd])
  /\ pc' = IF rfired' THEN "rproc" ELSE "write"
  /\ UNCHANGED <<program, kernel, fired>>

\* Mutant: the reported event is not compared with the registered one.
WriteDue_unchecked ==
  /\ "WRITABLE" \in fired[cur]
  /\ ~rfired \/ wfileProc[cur] # rfileProc[cur]

WriteDue ==
  /\ "WRITABLE" \in mask[cur] \cap fired[cur]
  /\ ~rfired \/ wfileProc[cur] # rfileProc[cur]

\* The dispatch of cur is over.
NextFired ==
  /\ fired' = [fired EXCEPT ![cur] = {}]
  /\ pc' = Continue(fired')
  /\ cur' = -1
  /\ rfired' = FALSE
  /\ UNCHANGED <<program, kernel>>

rfileProc_returns ==
  /\ pc = "rproc"
  /\ pc' = "write"
  /\ UNCHANGED <<program, kernel, fired, cur, rfired>>

\* The write half: call the write handler, or go on.
dispatch_write ==
  /\ pc = "write"
  /\ \/ /\ WriteDue
        /\ pc' = "wproc"
        /\ UNCHANGED <<program, kernel, fired, cur, rfired>>
     \/ ~WriteDue /\ NextFired

wfileProc_returns == pc = "wproc" /\ NextFired

Program ==
  \/ \E fd \in Fds, m \in Masks, proc \in Handlers : aeCreateFileEvent(fd, m, proc)
  \/ \E fd \in Fds : aeCreateFileEvent_refused(fd)
  \/ \E fd \in Fds, m \in Masks : aeDeleteFileEvent(fd, m)
  \/ aeStop
  \/ Open
  \/ \E fd \in Fds : Close(fd)
  \/ \E k \in Kinds : Drain(k)

Network == \E fd \in Fds, k \in Kinds : Arrive(fd, k)

\* The steps of the event loop itself.
Loop ==
  \/ aeProcessEvents
  \/ aeMain
  \/ aeApiPoll
  \/ \E fd \in Fds : dispatch_read(fd)
  \/ rfileProc_returns
  \/ dispatch_write
  \/ wfileProc_returns

Next == Program \/ Network \/ Loop

Spec == Init /\ [][Next]_vars

-----------------------------------------------------------------------------
(* The types; what the descriptors index has AE_SETSIZE places (ae.c:90).  *)
TypeOK ==
  /\ mask \in [Fds -> SUBSET Kinds]
  /\ rfileProc \in [Fds -> Handlers \cup {None}]
  /\ wfileProc \in [Fds -> Handlers \cup {None}]
  /\ maxfd \in -1 .. SetSize - 1
  /\ stop \in BOOLEAN
  /\ interest \in [Fds -> SUBSET Kinds]
  /\ opened \subseteq Fds
  /\ ready \in [Fds -> SUBSET Kinds]
  /\ pc \in {"main", "poll", "loop", "rproc", "write", "wproc"}
  /\ fired \in [Fds -> SUBSET Kinds]
  /\ cur \in -1 .. SetSize - 1
  /\ rfired \in BOOLEAN

(* What the kernel watches is what the program has registered, although    *)
(* ADD, MOD and DEL are chosen from the program's own masks and close      *)
(* changes the kernel's set behind their back; only open descriptors are   *)
(* registered.  So epoll_ctl never fails for EEXIST, ENOENT or EBADF.      *)
KernelAgrees ==
  /\ TypeOK
  /\ interest = mask
  /\ \A fd \in Fds : mask[fd] # {} => fd \in opened

(* maxfd is the highest registered descriptor, in whatever order events    *)
(* were created and deleted, partly or wholly: aeProcessEvents skips the   *)
(* poll when it is -1.                                                     *)
MaxFdExact ==
  /\ maxfd = -1 \/ mask[maxfd] # {}
  /\ \A fd \in Fds : mask[fd] # {} => fd <= maxfd

\* The step does not call a handler, or may call it.
CallIsValid ==
  /\ pc' = "rproc" /\ pc # "rproc" =>
       cur' \in opened /\ rfileProc[cur'] \in Handlers
  /\ pc' = "wproc" /\ pc # "wproc" =>
       cur' \in opened /\ wfileProc[cur'] \in Handlers

(* A handler is called for an open descriptor only, and it is one the      *)
(* program has set, although events were deleted and descriptors closed    *)
(* after the kernel reported them.                                         *)
CallsAreValid == [][CallIsValid]_vars
=============================================================================
