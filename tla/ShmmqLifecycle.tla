--------------------------- MODULE ShmmqLifecycle ---------------------------
(***************************************************************************)
(* How the shared-memory queue of src/shmmq comes into being and goes: the *)
(* kernel objects behind SEM_KEY and SHM_KEY, shmmq_open and shmmq_close   *)
(* with either value of their flag, system call by system call, and the    *)
(* critical sections of the other calls as one step (module Shmmq has      *)
(* their inside).  Processes are interrupted while they wait, killed and   *)
(* started anew.                                                           *)
(*                                                                         *)
(* What the callers must keep to, for the code does not: one process, the  *)
(* Creator, creates and destroys the queue; it creates only when there is  *)
(* none (after a failed open it first calls shmmq_close(1)); nobody uses   *)
(* the queue after shmmq_close or a failed open.                           *)
(***************************************************************************)
EXTENDS Integers, FiniteSetsExt

CONSTANTS Creator,   \* the process that calls shmmq_open(1) and shmmq_close(1)
          Users,     \* the others, which call shmmq_open(0) and shmmq_close(0)
          MaxSems,   \* bound on the semaphores made
          MaxSegs    \* bound on the segments made

ASSUME BoundsAssumption == MaxSems \in Nat /\ MaxSegs \in Nat

Procs == {Creator} \cup Users
Sems == 1 .. MaxSems
Segs == 1 .. MaxSegs
\* No identifier: -1 in g_s_semid and g_s_shmid, NULL in g_s_pbase.
None == 0

VARIABLES
  semkey,    \* kernel: the semaphore of SEM_KEY
  semval,    \* kernel: the value of each semaphore
  semadj,    \* kernel: what the death of a process adds to it (SEM_UNDO)
  shmkey,    \* kernel: the segment of SHM_KEY
  attached,  \* kernel: how often each process has a segment attached
  sems,      \* kernel: the semaphores made so far, removed ones included
  segs,      \* kernel: the segments made so far, removed ones included
  removed,   \* kernel: the semaphores removed
  semid,     \* g_s_semid of each process
  shmid,     \* g_s_shmid
  base,      \* the segment g_s_pbase points into
  pc,        \* where each process is
  op,        \* the call it is in
  set,       \* history: the semaphores a creator has set to 1
  queue      \* history: the semaphore that was meant to guard each segment

kernel == <<semkey, semval, semadj, shmkey, attached, sems, segs, removed>>
process == <<semid, shmid, base>>
vars == <<kernel, process, pc, op, set, queue>>

\* A new process has opened nothing.
Init ==
  /\ semkey = None
  /\ semval = [s \in Sems |-> 0]
  /\ semadj = [p \in Procs |-> [s \in Sems |-> 0]]
  /\ shmkey = None
  /\ attached = [p \in Procs |-> [g \in Segs |-> 0]]
  /\ sems = {} /\ segs = {} /\ removed = {}
  /\ semid = [p \in Procs |-> None]
  /\ shmid = [p \in Procs |-> None]
  /\ base = [p \in Procs |-> None]
  /\ pc = [p \in Procs |-> "closed"]
  /\ op = [p \in Procs |-> "none"]
  /\ set = {}
  /\ queue = [g \in Segs |-> None]

Goto(p, label) == pc' = [pc EXCEPT ![p] = label]

\* The call returns: a failed open leaves the process without a queue.
Return(p, label) ==
  /\ Goto(p, label)
  /\ op' = [op EXCEPT ![p] = "none"]
Failed(p) == IF op[p] = "open" THEN "failed" ELSE "open"

\* The next identifier of all that was not used.
Fresh(all, used) == Min(all \ used)

-----------------------------------------------------------------------------
(* shmmq_open.                                                             *)

\* Nobody has set the semaphore up and there is no segment: what Creator must
\* know before it creates.
NoQueue == shmkey = None /\ semkey \notin set

\* Mutant: every opener sets the semaphore.
AfterGet_set(p) == "set"
AfterGet(p) == IF p = Creator THEN "set" ELSE "p"

\* get_semvalue: the semaphore of SEM_KEY is made if there is none, with
\* value 0, whatever the flag.
shmmq_open(p) ==
  /\ pc[p] \in {"closed", "failed"}
  /\ p = Creator => NoQueue
  /\ \/ /\ semkey # None
        /\ UNCHANGED <<semkey, sems>>
     \/ /\ semkey = None /\ sems # Sems
        /\ semkey' = Fresh(Sems, sems)
        /\ sems' = sems \cup {Fresh(Sems, sems)}
  /\ semid' = [semid EXCEPT ![p] = semkey']
  /\ Goto(p, AfterGet(p))
  /\ op' = [op EXCEPT ![p] = "open"]
  /\ UNCHANGED <<semval, semadj, shmkey, attached, segs, removed, shmid, base,
                 set, queue>>

\* The kernel refuses (there are too many semaphores).
get_semvalue_fails(p) ==
  /\ pc[p] \in {"closed", "failed"}
  /\ p = Creator => NoQueue
  /\ semkey = None
  /\ semid' = [semid EXCEPT ![p] = None]
  /\ Goto(p, "failed")
  /\ UNCHANGED <<kernel, shmid, base, op, set, queue>>

\* SETVAL: the value becomes 1 and every pending undo of it is dropped.  Nobody
\* else removes the semaphore, so it cannot fail.
set_semvalue(p) ==
  /\ pc[p] = "set"
  /\ semval' = [semval EXCEPT ![semid[p]] = 1]
  /\ semadj' = [q \in Procs |-> [semadj[q] EXCEPT ![semid[p]] = 0]]
  /\ set' = set \cup {semid[p]}
  /\ Goto(p, "p")
  /\ UNCHANGED <<semkey, shmkey, attached, sems, segs, removed, process, op, queue>>

\* Only a creator makes the segment; it is missing for the others, or the
\* kernel refuses.
shmget(p) ==
  /\ pc[p] = "shmget"
  /\ \/ /\ shmkey # None
        /\ shmid' = [shmid EXCEPT ![p] = shmkey]
        /\ Goto(p, "shmat")
        /\ UNCHANGED <<shmkey, segs, queue>>
     \/ /\ shmkey = None /\ p = Creator /\ segs # Segs
        /\ shmkey' = Fresh(Segs, segs)
        /\ segs' = segs \cup {Fresh(Segs, segs)}
        /\ shmid' = [shmid EXCEPT ![p] = Fresh(Segs, segs)]
        /\ queue' = [queue EXCEPT ![Fresh(Segs, segs)] = semid[p]]
        /\ Goto(p, "shmat")
     \/ /\ shmid' = [shmid EXCEPT ![p] = None]
        /\ Goto(p, "give_up")
        /\ UNCHANGED <<shmkey, segs, queue>>
  /\ UNCHANGED <<semkey, semval, semadj, attached, sems, removed, semid, base,
                 op, set>>

\* A removed segment is there while somebody has it attached.
Exists(g) == g = shmkey \/ \E q \in Procs : attached[q][g] > 0

\* The creator initialises the head next, under the semaphore.
shmat(p) ==
  /\ pc[p] = "shmat"
  /\ Exists(shmid[p])
  /\ base' = [base EXCEPT ![p] = shmid[p]]
  /\ attached' = [attached EXCEPT ![p][shmid[p]] = @ + 1]
  /\ Goto(p, IF p = Creator THEN "init" ELSE "v")
  /\ UNCHANGED <<semkey, semval, semadj, shmkey, sems, segs, removed, semid, shmid,
                 op, set, queue>>

shmat_fails(p) ==
  /\ pc[p] = "shmat"
  /\ base' = [base EXCEPT ![p] = None]
  /\ Goto(p, "give_up")
  /\ UNCHANGED <<kernel, semid, shmid, op, set, queue>>

\* enq_pos = deq_pos = -1, the two stores taken as one.  Until then the kernel's
\* zeros are in the head, an empty queue as well.
initial_head(p) ==
  /\ pc[p] = "init"
  /\ Goto(p, "v")
  /\ UNCHANGED <<kernel, process, op, set, queue>>

\* Mutant: an opener that fails returns at once.
open_error_at_once(p) ==
  /\ pc[p] = "give_up"
  /\ \/ p = Creator /\ Goto(p, "rmid") /\ UNCHANGED op
     \/ p # Creator /\ Return(p, "failed")
  /\ UNCHANGED <<kernel, process, set, queue>>

\* What open does with an error: a creator removes what it made, before and
\* after it releases the semaphore; the others release it and return.
open_error(p) ==
  /\ pc[p] = "give_up"
  /\ Goto(p, IF p = Creator THEN "rmid" ELSE "v_error")
  /\ UNCHANGED <<kernel, process, op, set, queue>>

-----------------------------------------------------------------------------
(* Removal of the kernel objects, in shmmq_close(1) and in a failed        *)
(* shmmq_open(1).  Removing what is already gone fails and changes         *)
(* nothing.                                                                *)

AfterRmid(p) == IF op[p] = "open" THEN "v_error" ELSE "del"

shmctl_rmid(p) ==
  /\ pc[p] = "rmid"
  /\ shmkey' = IF shmid[p] = shmkey THEN None ELSE shmkey
  /\ shmid' = IF op[p] = "open" THEN shmid ELSE [shmid EXCEPT ![p] = None]
  /\ Goto(p, AfterRmid(p))
  /\ UNCHANGED <<semkey, semval, semadj, attached, sems, segs, removed, semid, base,
                 op, set, queue>>

\* Whoever waits for the semaphore is woken with an error.
del_semvalue(p) ==
  /\ pc[p] = "del"
  /\ semkey' = IF semid[p] = semkey THEN None ELSE semkey
  /\ removed' = removed \cup ({semid[p]} \ {None})
  /\ semval' = [s \in Sems |-> IF s = semid[p] THEN 0 ELSE semval[s]]
  /\ semadj' = [q \in Procs |-> [s \in Sems |-> IF s = semid[p] THEN 0 ELSE semadj[q][s]]]
  /\ semid' = IF op[p] = "open" THEN semid ELSE [semid EXCEPT ![p] = None]
  /\ Return(p, IF op[p] = "open" THEN "failed" ELSE "closed")
  /\ UNCHANGED <<shmkey, attached, sems, segs, shmid, base, set, queue>>

\* shmmq_close: shmdt, and only the creator goes on to destroy.  A process
\* whose open failed may have something to detach or to destroy, too.
shmmq_close(p) ==
  /\ pc[p] \in {"open", "failed"}
  /\ attached' = IF base[p] = None THEN attached
                 ELSE [attached EXCEPT ![p][base[p]] = @ - 1]
  /\ base' = [base EXCEPT ![p] = None]
  /\ \/ p # Creator /\ Goto(p, "closed") /\ UNCHANGED op
     \/ p = Creator /\ Goto(p, "rmid") /\ op' = [op EXCEPT ![p] = "close"]
  /\ UNCHANGED <<semkey, semval, semadj, shmkey, sems, segs, removed, semid, shmid,
                 set, queue>>

-----------------------------------------------------------------------------
(* The semaphore, and the other calls.                                     *)

\* shmmq_enqueue, shmmq_dequeue or shmmq_clear is called.
use(p) ==
  /\ pc[p] = "open"
  /\ Goto(p, "p")
  /\ op' = [op EXCEPT ![p] = "use"]
  /\ UNCHANGED <<kernel, process, set, queue>>

semaphore_p(p) ==
  /\ pc[p] = "p"
  /\ semid[p] \notin removed
  /\ semval[semid[p]] > 0
  /\ semval' = [semval EXCEPT ![semid[p]] = @ - 1]
  /\ semadj' = [semadj EXCEPT ![p][semid[p]] = @ + 1]
  /\ Goto(p, IF op[p] = "open" THEN "shmget" ELSE "inside")
  /\ UNCHANGED <<semkey, shmkey, attached, sems, segs, removed, process, op, set, queue>>

\* semop fails: the semaphore is removed before or during the wait.
semaphore_p_removed(p) ==
  /\ pc[p] = "p"
  /\ semid[p] \in removed
  /\ Return(p, Failed(p))
  /\ UNCHANGED <<kernel, process, set, queue>>

\* semop fails: a signal ends the wait.
semaphore_p_interrupted(p) ==
  /\ pc[p] = "p"
  /\ semid[p] \notin removed
  /\ Return(p, Failed(p))
  /\ UNCHANGED <<kernel, process, set, queue>>

\* The call reads and writes the segment, then leaves.
leave(p) ==
  /\ pc[p] = "inside"
  /\ Goto(p, "v")
  /\ UNCHANGED <<kernel, process, op, set, queue>>

\* Where semaphore_v brings the process: at "v_error" the call has failed, and
\* a creator still has the semaphore to remove.
AfterV(p, ok) ==
  CASE pc[p] = "v_error" /\ p = Creator -> "del"
    [] pc[p] = "v_error" /\ p # Creator -> "failed"
    [] pc[p] = "v" /\ ok                -> "open"
    [] pc[p] = "v" /\ ~ok               -> Failed(p)

semaphore_v(p) ==
  /\ pc[p] \in {"v", "v_error"}
  /\ semid[p] \notin removed
  /\ semval' = [semval EXCEPT ![semid[p]] = @ + 1]
  /\ semadj' = [semadj EXCEPT ![p][semid[p]] = @ - 1]
  /\ Goto(p, AfterV(p, TRUE))
  /\ op' = [op EXCEPT ![p] = IF AfterV(p, TRUE) = "del" THEN @ ELSE "none"]
  /\ UNCHANGED <<semkey, shmkey, attached, sems, segs, removed, process, set, queue>>

\* Mutant: open does not look at what its last semop returns.
semaphore_v_fails_unseen(p) ==
  /\ pc[p] \in {"v", "v_error"}
  /\ semid[p] \in removed
  /\ Return(p, AfterV(p, TRUE))
  /\ UNCHANGED <<kernel, process, set, queue>>

\* The semaphore was removed while the process was inside.
semaphore_v_fails(p) ==
  /\ pc[p] \in {"v", "v_error"}
  /\ semid[p] \in removed
  /\ Return(p, AfterV(p, FALSE))
  /\ UNCHANGED <<kernel, process, set, queue>>

-----------------------------------------------------------------------------
\* The process is killed, or exits.  The kernel detaches its segments and
\* applies its undos; another process takes its place.
Die(p) ==
  /\ pc[p] # "closed"
  /\ semval' = [s \in Sems |-> semval[s] + semadj[p][s]]
  /\ semadj' = [semadj EXCEPT ![p] = [s \in Sems |-> 0]]
  /\ attached' = [attached EXCEPT ![p] = [g \in Segs |-> 0]]
  /\ semid' = [semid EXCEPT ![p] = None]
  /\ shmid' = [shmid EXCEPT ![p] = None]
  /\ base' = [base EXCEPT ![p] = None]
  /\ Return(p, "closed")
  /\ UNCHANGED <<semkey, shmkey, sems, segs, removed, set, queue>>

\* What a process does by itself once it is in a call.
Step(p) ==
  \/ set_semvalue(p)
  \/ semaphore_p_removed(p)
  \/ shmget(p)
  \/ shmat(p)
  \/ shmat_fails(p)
  \/ initial_head(p)
  \/ open_error(p)
  \/ shmctl_rmid(p)
  \/ del_semvalue(p)
  \/ leave(p)
  \/ semaphore_v(p)
  \/ semaphore_v_fails(p)

Next ==
  \E p \in Procs :
    \/ shmmq_open(p)
    \/ get_semvalue_fails(p)
    \/ shmmq_close(p)
    \/ use(p)
    \/ semaphore_p(p)
    \/ semaphore_p_interrupted(p)
    \/ Step(p)
    \/ Die(p)

\* Processes that can run do; semop serves its waiters in order of arrival.
FairSpec ==
  /\ Init /\ [][Next]_vars
  /\ \A p \in Procs : WF_vars(Step(p)) /\ SF_vars(semaphore_p(p))

-----------------------------------------------------------------------------
\* p reads or writes the head and the slots of its segment.
InSegment(p) == pc[p] \in {"init", "inside"}

(* No two processes are in one segment together, over creation,            *)
(* destruction under waiters and users, re-creation, failed opens and      *)
(* deaths: shmmq_open(1) may set the semaphore to 1 without owning it      *)
(* (shmmq.c:82) because nobody can be inside then.                         *)
Exclusive ==
  \A p, q \in Procs :
    InSegment(p) /\ InSegment(q) /\ base[p] = base[q] => p = q

(* A process whose shmmq_open returned 0 has the semaphore that guards its *)
(* segment, and no creator is about to initialise the head of that segment *)
(* under it, even if the queue was destroyed and made again between its    *)
(* semget and its shmget: the semop at its end then fails on the old       *)
(* semaphore, and open with it (shmmq.c:133).                              *)
OpenedWhole ==
  \A p \in Procs :
    pc[p] = "open" \/ op[p] = "use" =>
      /\ base[p] \in Segs /\ queue[base[p]] = semid[p]
      /\ ~(pc[Creator] \in {"shmat", "init"} /\ shmid[Creator] = base[p])

(* Whoever waits for a semaphore that a creator has set comes to an end of *)
(* the wait, with the semaphore or with an error: though openers fail,     *)
(* processes die inside, and the creator destroys the queue under its      *)
(* waiters.                                                                *)
WaitersReturn ==
  \A p \in Procs : pc[p] = "p" /\ semid[p] \in set ~> pc[p] # "p"
=============================================================================
