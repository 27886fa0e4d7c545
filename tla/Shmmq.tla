------------------------------- MODULE Shmmq --------------------------------
(***************************************************************************)
(* The shared-memory message queue of src/shmmq: processes that have the   *)
(* segment attached run shmmq_enqueue, shmmq_dequeue and shmmq_clear under *)
(* one System V semaphore, may be interrupted while they wait for it, and  *)
(* may die at any step; the kernel then undoes their semaphore operations  *)
(* (SEM_UNDO).  The queue has been created (shmmq_open with iscreated = 1) *)
(* and is not destroyed; processes open and close it with the other value  *)
(* of the flag.  Creation and destruction are in module ShmmqLifecycle.    *)
(*                                                                         *)
(* Each memory access of a call is a step of its own: between two of them  *)
(* the process may be preempted or killed.                                 *)
(***************************************************************************)
EXTENDS Integers, Sequences

CONSTANTS Procs,     \* the processes that use the queue
          Items,     \* the items they enqueue, each g_s_itemsize bytes or less
          MqSize,    \* g_s_mqsize, the same in every process
          PosMod,    \* number of values of enq_pos and deq_pos (2^32 in the code)
          Garbage    \* bytes of a slot that no enqueue has completely written

ASSUME MqSizeAssumption == MqSize \in Nat \ {0}
\* g_s_mqsize is a positive int and the positions are unsigned ints.
ASSUME PosModAssumption == PosMod \in Nat /\ MqSize < PosMod
ASSUME ItemsAssumption == Garbage \notin Items

VARIABLES
  sem,       \* value of the semaphore g_s_semid
  semadj,    \* what the kernel adds to sem when a process dies (SEM_UNDO)
  enq_pos,   \* shared head: position of the last enqueued item
  deq_pos,   \* shared head: position of the last dequeued item
  content,   \* the slots of the ring, g_s_pcontent
  pc,        \* where each process is
  op,        \* the call it is in
  item,      \* the caller's item: the argument of enqueue, the result of dequeue
  begin,     \* local variable of shmmq_clear
  ret,       \* local variable ret: what the call will return
  fifo       \* history: accepted items nobody has dequeued, oldest first

shared == <<enq_pos, deq_pos, content, fifo>>
lock == <<sem, semadj>>
locals == <<op, item, begin, ret>>
vars == <<sem, semadj, enq_pos, deq_pos, content, pc, op, item, begin, ret, fifo>>

Positions == 0 .. PosMod - 1
Slots == 0 .. MqSize - 1

\* The slot of a position: pos % g_s_mqsize, both unsigned.
Slot(pos) == pos % MqSize
\* Mutant: positions that never wrap around.
Succ_unbounded(pos) == pos + 1
\* pos++ on an unsigned int.
Succ(pos) == (pos + 1) % PosMod

\* A process waits for the semaphore at "p" and owns it from "cs" to "v".
Critical == {"cs", "copy", "adv", "v"}
Ops == {"none", "open", "enqueue", "dequeue", "clear"}
Rets == {"SUCCESS", "ERROR_INVALID_ARGUMENT", "ERROR_SHMAT", "ERROR_MSGQUEUE_FULL"}

Goto(p, label) == pc' = [pc EXCEPT ![p] = label]
Return(p, code) == ret' = [ret EXCEPT ![p] = code]
\* The call of p is over and its local variables with it.
Leave(p) ==
  /\ op' = [op EXCEPT ![p] = "none"]
  /\ item' = [item EXCEPT ![p] = Garbage]
  /\ begin' = [begin EXCEPT ![p] = 0]
  /\ ret' = [ret EXCEPT ![p] = "SUCCESS"]

\* The creator has initialised the head to (unsigned)-1 and the segment is
\* zero-filled; no process is inside a call.
Init ==
  /\ sem = 1
  /\ semadj = [p \in Procs |-> 0]
  /\ enq_pos = PosMod - 1
  /\ deq_pos = PosMod - 1
  /\ content = [s \in Slots |-> Garbage]
  /\ pc = [p \in Procs |-> "closed"]
  /\ op = [p \in Procs |-> "none"]
  /\ item = [p \in Procs |-> Garbage]
  /\ begin = [p \in Procs |-> 0]
  /\ ret = [p \in Procs |-> "SUCCESS"]
  /\ fifo = <<>>

-----------------------------------------------------------------------------
(* Calls begin: the argument checks, then the wait for the semaphore.  A   *)
(* call whose arguments are refused (a null pointer, a size out of         *)
(* 1 .. g_s_itemsize) returns before it touches anything: it is no step.   *)

Begin(p, o, i) ==
  /\ op' = [op EXCEPT ![p] = o]
  /\ item' = [item EXCEPT ![p] = i]
  /\ Goto(p, "p")
  /\ UNCHANGED <<lock, shared, begin, ret>>

shmmq_open(p) == pc[p] = "closed" /\ Begin(p, "open", Garbage)

shmmq_enqueue(p, i) == pc[p] = "idle" /\ Begin(p, "enqueue", i)

\* The caller's buffer holds whatever it held before the call.
shmmq_dequeue(p) == pc[p] = "idle" /\ Begin(p, "dequeue", Garbage)

shmmq_clear(p) == pc[p] = "idle" /\ Begin(p, "clear", Garbage)

shmmq_close(p) ==
  /\ pc[p] = "idle"
  /\ Goto(p, "closed")
  /\ UNCHANGED <<lock, shared, locals>>

-----------------------------------------------------------------------------
(* The semaphore.                                                          *)

\* Mutant: semop without SEM_UNDO.
semaphore_p_no_undo(p) ==
  /\ pc[p] = "p"
  /\ sem > 0
  /\ sem' = sem - 1
  /\ Goto(p, "cs")
  /\ UNCHANGED <<semadj, shared, locals>>

semaphore_p(p) ==
  /\ pc[p] = "p"
  /\ sem > 0
  /\ sem' = sem - 1
  /\ semadj' = [semadj EXCEPT ![p] = @ + 1]
  /\ Goto(p, "cs")
  /\ UNCHANGED <<shared, locals>>

\* Where a finished call leaves the process: a failed open did not attach.
Outcome(o, code) == IF o = "open" /\ code # "SUCCESS" THEN "closed" ELSE "idle"

\* semop returns -1: a signal ended the wait.
semaphore_p_fails(p) ==
  /\ pc[p] = "p"
  /\ Goto(p, Outcome(op[p], "ERROR_SEMAPHORE_P"))
  /\ Leave(p)
  /\ UNCHANGED <<lock, shared>>

semaphore_v(p) ==
  /\ pc[p] = "v"
  /\ sem' = sem + 1
  /\ semadj' = [semadj EXCEPT ![p] = @ - 1]
  /\ Goto(p, Outcome(op[p], ret[p]))
  /\ Leave(p)
  /\ UNCHANGED shared

-----------------------------------------------------------------------------
(* Inside the critical section.                                            *)

\* shmget and shmat with iscreated = 0; the head is left alone.
open_attach(p, code) ==
  /\ pc[p] = "cs" /\ op[p] = "open"
  /\ Return(p, code)
  /\ Goto(p, "v")
  /\ UNCHANGED <<lock, shared, op, item, begin>>

\* Mutant: the ring filled to its last slot.
Full_off_by_one == (deq_pos + MqSize) % PosMod = enq_pos
\* deq_pos + g_s_mqsize - 1 == enq_pos in unsigned arithmetic.
Full == (deq_pos + MqSize - 1) % PosMod = enq_pos

\* Mutant: no check for a full queue.
enqueue_check_missing(p) ==
  /\ pc[p] = "cs" /\ op[p] = "enqueue"
  /\ Goto(p, "copy")
  /\ UNCHANGED <<lock, shared, locals>>

enqueue_check(p) ==
  /\ pc[p] = "cs" /\ op[p] = "enqueue"
  /\ \/ Full /\ Return(p, "ERROR_MSGQUEUE_FULL") /\ Goto(p, "v")
     \/ ~Full /\ UNCHANGED ret /\ Goto(p, "copy")
  /\ UNCHANGED <<lock, shared, op, item, begin>>

\* Mutant: the item goes to the slot of the last position.
enqueue_copy_last(p) ==
  /\ pc[p] = "copy" /\ op[p] = "enqueue"
  /\ content' = [content EXCEPT ![Slot(enq_pos)] = item[p]]
  /\ Goto(p, "adv")
  /\ UNCHANGED <<lock, enq_pos, deq_pos, fifo, locals>>

enqueue_copy(p) ==
  /\ pc[p] = "copy" /\ op[p] = "enqueue"
  /\ content' = [content EXCEPT ![Slot(Succ(enq_pos))] = item[p]]
  /\ Goto(p, "adv")
  /\ UNCHANGED <<lock, enq_pos, deq_pos, fifo, locals>>

enqueue_advance(p) ==
  /\ pc[p] = "adv" /\ op[p] = "enqueue"
  /\ enq_pos' = Succ(enq_pos)
  /\ fifo' = Append(fifo, item[p])
  /\ Goto(p, "v")
  /\ UNCHANGED <<lock, deq_pos, content, locals>>

\* An empty queue is reported with the code of a full one.
dequeue_check(p) ==
  /\ pc[p] = "cs" /\ op[p] = "dequeue"
  /\ \/ enq_pos = deq_pos /\ Return(p, "ERROR_MSGQUEUE_FULL") /\ Goto(p, "v")
     \/ enq_pos # deq_pos /\ UNCHANGED ret /\ Goto(p, "copy")
  /\ UNCHANGED <<lock, shared, op, item, begin>>

\* Mutant: the item comes from the slot of the last position.
dequeue_copy_last(p) ==
  /\ pc[p] = "copy" /\ op[p] = "dequeue"
  /\ item' = [item EXCEPT ![p] = content[Slot(deq_pos)]]
  /\ Goto(p, "adv")
  /\ UNCHANGED <<lock, shared, op, begin, ret>>

dequeue_copy(p) ==
  /\ pc[p] = "copy" /\ op[p] = "dequeue"
  /\ item' = [item EXCEPT ![p] = content[Slot(Succ(deq_pos))]]
  /\ Goto(p, "adv")
  /\ UNCHANGED <<lock, shared, op, begin, ret>>

dequeue_advance(p) ==
  /\ pc[p] = "adv" /\ op[p] = "dequeue"
  /\ deq_pos' = Succ(deq_pos)
  /\ fifo' = Tail(fifo)
  /\ Goto(p, "v")
  /\ UNCHANGED <<lock, enq_pos, content, locals>>

\* The callback sf is given deq_pos and enq_pos modulo g_s_mqsize and returns
\* critical; MqSize stands for every index out of range.  Nothing is removed.
clear_scan(p, critical) ==
  /\ pc[p] = "cs" /\ op[p] = "clear"
  /\ begin' = [begin EXCEPT ![p] = critical]
  /\ Return(p, IF critical \in Slots THEN "SUCCESS" ELSE "ERROR_INVALID_ARGUMENT")
  /\ Goto(p, "v")
  /\ UNCHANGED <<lock, shared, op, item>>

-----------------------------------------------------------------------------
\* What a process killed in its memcpy to a slot may leave there.
Leftover(p) ==
  IF pc[p] = "copy" /\ op[p] = "enqueue"
  THEN LET s == Slot(Succ(enq_pos))
       IN  {[content EXCEPT ![s] = c] : c \in {content[s], item[p], Garbage}}
  ELSE {content}

\* The process dies or exits; the kernel applies its semaphore undo.  A new
\* process may take its place.
Die(p) ==
  /\ pc[p] # "closed"
  /\ sem' = sem + semadj[p]
  /\ semadj' = [semadj EXCEPT ![p] = 0]
  /\ content' \in Leftover(p)
  /\ Goto(p, "closed")
  /\ Leave(p)
  /\ UNCHANGED <<enq_pos, deq_pos, fifo>>

Call(p) ==
  \/ shmmq_open(p)
  \/ \E i \in Items : shmmq_enqueue(p, i)
  \/ shmmq_dequeue(p)
  \/ shmmq_clear(p)
  \/ shmmq_close(p)

\* The steps a call takes once it owns the semaphore.
Section(p) ==
  \/ \E code \in {"SUCCESS", "ERROR_SHMAT"} : open_attach(p, code)
  \/ enqueue_check(p)
  \/ enqueue_copy(p)
  \/ enqueue_advance(p)
  \/ dequeue_check(p)
  \/ dequeue_copy(p)
  \/ dequeue_advance(p)
  \/ \E critical \in 0 .. MqSize : clear_scan(p, critical)
  \/ semaphore_v(p)

Next ==
  \E p \in Procs :
    \/ Call(p)
    \/ semaphore_p(p)
    \/ semaphore_p_fails(p)
    \/ Section(p)
    \/ Die(p)

Spec == Init /\ [][Next]_vars

\* The scheduler runs every process that can run; semop hands a released
\* semaphore to its waiters in the order of their arrival, so a waiter to
\* whom it is available again and again gets it.
Fairness ==
  \A p \in Procs : WF_vars(Section(p)) /\ SF_vars(semaphore_p(p))

FairSpec == Spec /\ Fairness

-----------------------------------------------------------------------------
(* The types; positions are those of an unsigned int.                      *)
TypeOK ==
  /\ sem \in Nat
  /\ semadj \in [Procs -> Int]
  /\ enq_pos \in Positions
  /\ deq_pos \in Positions
  /\ content \in [Slots -> Items \cup {Garbage}]
  /\ pc \in [Procs -> Critical \cup {"closed", "idle", "p"}]
  /\ op \in [Procs -> Ops]
  /\ item \in [Procs -> Items \cup {Garbage}]
  /\ begin \in [Procs -> 0 .. MqSize]
  /\ ret \in [Procs -> Rets]
  /\ fifo \in Seq(Items)

(* A process owns the semaphore exactly while it is in its critical        *)
(* section: never two processes at once, the semaphore is free when none   *)
(* is, and what the kernel would undo is what the process has taken.  So   *)
(* a process that dies inside enqueue, dequeue, clear or open              *)
(* neither keeps the queue locked nor unlocks it twice.                    *)
LockOwned ==
  /\ \A p, q \in Procs : pc[p] \in Critical /\ pc[q] \in Critical => p = q
  /\ sem = IF \E p \in Procs : pc[p] \in Critical THEN 0 ELSE 1
  /\ semadj = [p \in Procs |-> IF pc[p] \in Critical THEN 1 ELSE 0]

\* An enqueue has an item to enqueue, and ret is 0 until a call knows better.
LocalsSet ==
  \A p \in Procs :
    /\ op[p] = "enqueue" => item[p] \in Items
    /\ pc[p] # "v" => ret[p] = "SUCCESS"

(* The positions agree with the items that were accepted and not yet       *)
(* dequeued, also after they wrapped around, and at most MqSize - 1 items  *)
(* are waiting: enqueue never overtakes dequeue and dequeue never passes   *)
(* enqueue, whoever died between its copy and its position update.         *)
PositionsAgree ==
  /\ Len(fifo) < MqSize
  /\ enq_pos = (deq_pos + Len(fifo)) % PosMod

(* Every accepted item that nobody has dequeued is still in the slot its   *)
(* position designates: no enqueue, and no enqueue that was killed in the  *)
(* middle of its memcpy, has overwritten it.                               *)
FifoIntact ==
  \A i \in 1 .. Len(fifo) : content[Slot((deq_pos + i) % PosMod)] = fifo[i]

\* What a call concluded from the positions is so until it releases the
\* semaphore: nobody changes them between its check and its later steps.
CheckHolds ==
  \A p \in Procs :
    /\ pc[p] \in {"copy", "adv"} /\ op[p] = "enqueue" => Len(fifo) < MqSize - 1
    /\ pc[p] \in {"copy", "adv"} /\ op[p] = "dequeue" => fifo # <<>>
    /\ pc[p] = "v" /\ ret[p] = "ERROR_MSGQUEUE_FULL" =>
         Len(fifo) = IF op[p] = "enqueue" THEN MqSize - 1 ELSE 0

\* What a call copied is what it is about to publish or to consume.
CopyHolds ==
  \A p \in Procs :
    pc[p] = "adv" =>
      /\ op[p] = "enqueue" => content[Slot(Succ(enq_pos))] = item[p]
      /\ op[p] = "dequeue" => item[p] = Head(fifo)

(* The check, the memcpy and the position update of one enqueue or dequeue *)
(* see one queue: the verdict full or empty is not stale when the call     *)
(* acts on it, the slot still holds the item enqueue copied when its       *)
(* position is published, and dequeue hands out the oldest item.           *)
VerdictHolds == CheckHolds /\ CopyHolds

\* The item an enqueue in progress has not yet published, and the item a
\* dequeue has consumed and not yet returned with.
Offered ==
  [p \in Procs |->
     IF op[p] = "enqueue" /\ pc[p] \in {"p", "cs", "copy", "adv"}
     THEN item[p] ELSE Garbage]
Taken ==
  [p \in Procs |->
     IF op[p] = "dequeue" /\ pc[p] = "v" /\ ret[p] = "SUCCESS"
     THEN item[p] ELSE Garbage]

BQ == INSTANCE BoundedQueue
        WITH queue <- fifo, offered <- Offered, taken <- Taken,
             None <- Garbage, Capacity <- MqSize - 1

(* The ring in shared memory, with all its interleavings and deaths, is a  *)
(* first-in first-out queue of MqSize - 1 items: what a dequeue hands its  *)
(* caller is the oldest item an enqueue has published.                     *)
ImplementsBoundedQueue == BQ!Spec

(* A call that waits for the semaphore comes to an end, whatever the other *)
(* processes do and wherever they die.                                     *)
CallsReturn ==
  \A p \in Procs : pc[p] = "p" ~> pc[p] \in {"idle", "closed"}
=============================================================================
