---------------------------- MODULE BoundedQueue ----------------------------
(***************************************************************************)
(* What the shared-memory message queue of src/shmmq promises its callers: *)
(* a first-in first-out queue of at most Capacity items.  An item that a   *)
(* process offers is accepted at most once, in the position after every    *)
(* item accepted earlier; the oldest accepted item is taken by exactly one *)
(* process.  Module Shmmq implements it with a ring in shared memory.      *)
(***************************************************************************)
EXTENDS Naturals, Sequences

CONSTANTS Procs,     \* the processes that share the queue
          Items,     \* what may be enqueued
          None,      \* no item
          Capacity   \* how many accepted items the queue can hold

VARIABLES queue,     \* the accepted items nobody has taken yet, oldest first
          offered,   \* the item a process is trying to enqueue
          taken      \* the item a process has taken and not yet returned with

vars == <<queue, offered, taken>>

Init ==
  /\ queue = <<>>
  /\ offered = [p \in Procs |-> None]
  /\ taken = [p \in Procs |-> None]

\* A process calls enqueue with item i.
Offer(p, i) ==
  /\ offered[p] = None
  /\ offered' = [offered EXCEPT ![p] = i]
  /\ UNCHANGED <<queue, taken>>

\* The offered item becomes the youngest item of the queue.
Accept(p) ==
  /\ offered[p] # None
  /\ Len(queue) < Capacity
  /\ queue' = Append(queue, offered[p])
  /\ offered' = [offered EXCEPT ![p] = None]
  /\ UNCHANGED taken

\* The offer ends without effect: the queue is full, the wait for the lock
\* was interrupted, or the process died.
Withdraw(p) ==
  /\ offered[p] # None
  /\ offered' = [offered EXCEPT ![p] = None]
  /\ UNCHANGED <<queue, taken>>

\* The oldest item leaves the queue.
Take(p) ==
  /\ taken[p] = None
  /\ queue # <<>>
  /\ taken' = [taken EXCEPT ![p] = Head(queue)]
  /\ queue' = Tail(queue)
  /\ UNCHANGED offered

\* The process returns with the item it took, or dies with it.
Deliver(p) ==
  /\ taken[p] # None
  /\ taken' = [taken EXCEPT ![p] = None]
  /\ UNCHANGED <<queue, offered>>

Next ==
  \E p \in Procs :
    \/ \E i \in Items : Offer(p, i)
    \/ Accept(p)
    \/ Withdraw(p)
    \/ Take(p)
    \/ Deliver(p)

Spec == Init /\ [][Next]_vars
=============================================================================
