---------------------------- MODULE ShmmqProofs -----------------------------
(***************************************************************************)
(* Proofs about Shmmq for every number of processes, every item set, every *)
(* queue size and every width of the positions.  The lock and the          *)
(* positions are right for every queue size; the contents of the ring are  *)
(* right when the queue size divides the number of position values.        *)
(***************************************************************************)
EXTENDS Shmmq, TLAPS

-----------------------------------------------------------------------------
(* Arithmetic modulo n.                                                    *)

\* Quotient and remainder.
LEMMA ModDef ==
  ASSUME NEW n \in Nat \ {0}, NEW x \in Nat
  PROVE  \E q \in Nat, r \in 0 .. n - 1 : x = n * q + r /\ x % n = r
<1>1. x = n * (x \div n) + (x % n) /\ x \div n \in Nat /\ x % n \in 0 .. n - 1
  OBVIOUS
<1> QED BY <1>1

\* The remainder is the only number below n that differs from x by a multiple of n.
LEMMA ModUnique ==
  ASSUME NEW n \in Nat \ {0}, NEW q \in Nat, NEW r \in 0 .. n - 1
  PROVE  (n * q + r) % n = r
  OBVIOUS

\* Below 2n, reduction subtracts n at most once.
LEMMA ModOnce ==
  ASSUME NEW n \in Nat \ {0}
  PROVE  \A x \in Nat : x < 2 * n => x % n = IF x < n THEN x ELSE x - n
  OBVIOUS

\* Adding a multiple of n does not change the remainder.
LEMMA ModMultiple ==
  ASSUME NEW n \in Nat \ {0}, NEW x \in Nat, NEW k \in Nat
  PROVE  (x + n * k) % n = x % n
<1>1. PICK q \in Nat, r \in 0 .. n - 1 : x = n * q + r /\ x % n = r
  BY ModDef
<1>2. x + n * k = n * (q + k) + r /\ q + k \in Nat
  BY <1>1
<1>3. (n * (q + k) + r) % n = r
  BY <1>2, ModUnique
<1> QED BY <1>1, <1>2, <1>3

\* Numbers less than n apart have different remainders.
LEMMA ModDistinct ==
  ASSUME NEW n \in Nat \ {0}, NEW x \in Nat, NEW d \in 1 .. n - 1
  PROVE  (x + d) % n # x % n
<1>1. PICK q \in Nat, r \in 0 .. n - 1 : x = n * q + r /\ x % n = r
  BY ModDef
<1>2. CASE r + d < n
  <2>1. x + d = n * q + (r + d) /\ r + d \in 0 .. n - 1
    BY <1>1, <1>2
  <2>2. (n * q + (r + d)) % n = r + d
    BY <2>1, ModUnique
  <2> QED BY <2>1, <2>2, <1>1
<1>3. CASE r + d >= n
  <2>1. x + d = n * (q + 1) + (r + d - n) /\ r + d - n \in 0 .. n - 1 /\ q + 1 \in Nat
    BY <1>1, <1>3
  <2>2. (n * (q + 1) + (r + d - n)) % n = r + d - n
    BY <2>1, ModUnique
  <2> QED BY <2>1, <2>2, <1>1
<1> QED BY <1>1, <1>2, <1>3

-----------------------------------------------------------------------------
(* Positions.                                                              *)

\* Succ stays in range and wraps to zero.
LEMMA SuccWraps ==
  ASSUME NEW pos \in Positions
  PROVE  /\ Succ(pos) \in Positions
         /\ Succ(pos) = IF pos + 1 = PosMod THEN 0 ELSE pos + 1
<1>1. PosMod \in Nat \ {0} /\ pos + 1 \in Nat /\ pos + 1 < 2 * PosMod
  BY PosModAssumption, MqSizeAssumption DEF Positions
<1>2. \A x \in Nat : x < 2 * PosMod =>
        x % PosMod = IF x < PosMod THEN x ELSE x - PosMod
  BY <1>1, ModOnce
<1> QED BY <1>1, <1>2 DEF Positions, Succ

\* Every position has a slot.
LEMMA SlotInRange ==
  ASSUME NEW pos \in Positions
  PROVE  Slot(pos) \in Slots
  BY MqSizeAssumption, PosModAssumption DEF Positions, Slot, Slots

\* The k-th position after pos, for an offset a queue can have.
LEMMA AfterWraps ==
  ASSUME NEW pos \in Positions, NEW k \in 0 .. MqSize
  PROVE  /\ (pos + k) % PosMod \in Positions
         /\ (pos + k) % PosMod = IF pos + k < PosMod THEN pos + k ELSE pos + k - PosMod
<1>1. PosMod \in Nat \ {0} /\ pos + k \in Nat /\ pos + k < 2 * PosMod
  BY PosModAssumption, MqSizeAssumption DEF Positions
<1>2. \A x \in Nat : x < 2 * PosMod =>
        x % PosMod = IF x < PosMod THEN x ELSE x - PosMod
  BY <1>1, ModOnce
<1> QED BY <1>1, <1>2 DEF Positions

\* Moving the end of the queue forward, and its beginning.
LEMMA SuccAfter ==
  ASSUME NEW pos \in Positions, NEW k \in 0 .. MqSize - 1
  PROVE  /\ Succ((pos + k) % PosMod) = (pos + (k + 1)) % PosMod
         /\ (Succ(pos) + k) % PosMod = (pos + (k + 1)) % PosMod
<1>1. k \in 0 .. MqSize /\ k + 1 \in 0 .. MqSize /\ Succ(pos) \in Positions
  BY MqSizeAssumption, SuccWraps
<1>2. /\ (pos + k) % PosMod \in Positions
      /\ (pos + k) % PosMod = IF pos + k < PosMod THEN pos + k ELSE pos + k - PosMod
  BY <1>1, AfterWraps
<1>3. (pos + (k + 1)) % PosMod =
        IF pos + (k + 1) < PosMod THEN pos + (k + 1) ELSE pos + (k + 1) - PosMod
  BY <1>1, AfterWraps
<1>4. (Succ(pos) + k) % PosMod =
        IF Succ(pos) + k < PosMod THEN Succ(pos) + k ELSE Succ(pos) + k - PosMod
  BY <1>1, AfterWraps
<1>5. Succ(pos) = IF pos + 1 = PosMod THEN 0 ELSE pos + 1
  BY SuccWraps
<1>6. Succ((pos + k) % PosMod) =
        IF ((pos + k) % PosMod) + 1 = PosMod THEN 0 ELSE ((pos + k) % PosMod) + 1
  BY <1>2, SuccWraps
<1> QED BY <1>1, <1>2, <1>3, <1>4, <1>5, <1>6, PosModAssumption, MqSizeAssumption
        DEF Positions

-----------------------------------------------------------------------------
(* The lock and the positions.                                             *)

\* What the steps preserve together.  Each part needs the others: sem stays a
\* number because semadj records what was taken, fifo is not empty when a
\* dequeue consumes from it because nobody else moved the positions.
IndInv == TypeOK /\ LockOwned /\ LocalsSet /\ PositionsAgree /\ CheckHolds

\* enqueue reports a full queue exactly when MqSize - 1 items are waiting, and
\* dequeue an empty one exactly when none is.
LEMMA VerdictIsExact ==
  ASSUME TypeOK, PositionsAgree
  PROVE  /\ Full <=> Len(fifo) = MqSize - 1
         /\ enq_pos = deq_pos <=> Len(fifo) = 0
<1> DEFINE n == Len(fifo)
<1>1. n \in 0 .. MqSize /\ n < MqSize /\ MqSize - 1 \in 0 .. MqSize /\ 0 \in 0 .. MqSize
  BY MqSizeAssumption DEF TypeOK, PositionsAgree
<1>2. enq_pos = (deq_pos + n) % PosMod /\ deq_pos \in Positions
  BY DEF TypeOK, PositionsAgree
<1> HIDE DEF n
<1>3. (deq_pos + n) % PosMod =
        IF deq_pos + n < PosMod THEN deq_pos + n ELSE deq_pos + n - PosMod
  BY <1>1, <1>2, AfterWraps
<1>4. (deq_pos + (MqSize - 1)) % PosMod =
        IF deq_pos + (MqSize - 1) < PosMod
        THEN deq_pos + (MqSize - 1) ELSE deq_pos + (MqSize - 1) - PosMod
  BY <1>1, <1>2, AfterWraps
<1>5. deq_pos + MqSize - 1 = deq_pos + (MqSize - 1)
  BY <1>2, MqSizeAssumption, PosModAssumption DEF Positions
<1>6. Full <=> n = MqSize - 1
  BY <1>1, <1>2, <1>3, <1>4, <1>5, MqSizeAssumption, PosModAssumption DEF Positions, Full
<1>7. enq_pos = deq_pos <=> n = 0
  BY <1>1, <1>2, <1>3, MqSizeAssumption, PosModAssumption DEF Positions
<1> QED BY <1>6, <1>7 DEF n

\* The created queue satisfies the invariant.
LEMMA InitIndInv == Init => IndInv
<1> SUFFICES ASSUME Init PROVE IndInv
  OBVIOUS
<1>1. PosMod - 1 \in Positions /\ 0 \in 0 .. MqSize
  BY MqSizeAssumption, PosModAssumption DEF Positions
<1>2. TypeOK
  BY <1>1 DEF Init, TypeOK, Ops, Rets
<1>3. LockOwned
  BY DEF Init, LockOwned, Critical
<1>4. PositionsAgree
  <2>1. PosMod - 1 + 0 = PosMod - 1 /\ PosMod - 1 \in Nat /\ PosMod \in Nat \ {0}
    BY MqSizeAssumption, PosModAssumption
  <2>2. (PosMod - 1) % PosMod = PosMod - 1
    BY <2>1, ModOnce
  <2> QED BY <2>1, <2>2, MqSizeAssumption DEF Init, PositionsAgree
<1>5. LocalsSet /\ CheckHolds
  BY DEF Init, LocalsSet, CheckHolds
<1> QED BY <1>2, <1>3, <1>4, <1>5 DEF IndInv

\* Every step preserves it.
LEMMA StepIndInv == IndInv /\ [Next]_vars => IndInv'
<1> SUFFICES ASSUME IndInv, [Next]_vars PROVE IndInv'
  OBVIOUS
<1> USE DEF IndInv, shared, lock, locals, Goto, Return
<1>0. CASE UNCHANGED vars
  BY <1>0 DEF vars, TypeOK, LockOwned, LocalsSet, PositionsAgree, CheckHolds
<1>1. ASSUME NEW p \in Procs, NEW o \in Ops, NEW i \in Items \cup {Garbage},
             o = "enqueue" => i \in Items,
             pc[p] \in {"closed", "idle"}, Begin(p, o, i)
      PROVE  IndInv'
  <2> USE <1>1 DEF Begin
  <2>1. TypeOK'
    BY DEF TypeOK
  <2>2. LockOwned'
    BY DEF TypeOK, LockOwned, Critical
  <2>3. LocalsSet' /\ PositionsAgree' /\ CheckHolds'
    BY DEF TypeOK, LocalsSet, PositionsAgree, CheckHolds
  <2> QED BY <2>1, <2>2, <2>3
<1>2. ASSUME NEW p \in Procs, Call(p) PROVE IndInv'
  <2>1. CASE shmmq_close(p)
    BY <2>1 DEF shmmq_close, TypeOK, LockOwned, Critical, LocalsSet, PositionsAgree, CheckHolds
  <2> QED BY <1>1, <1>2, <2>1 DEF Call, shmmq_open, shmmq_enqueue, shmmq_dequeue, shmmq_clear, Ops
<1>3. ASSUME NEW p \in Procs, semaphore_p(p) PROVE IndInv'
  <2> USE <1>3 DEF semaphore_p
  <2>1. TypeOK'
    BY DEF TypeOK, Critical
  <2>2. LockOwned'
    BY DEF TypeOK, LockOwned, Critical
  <2>3. LocalsSet' /\ PositionsAgree' /\ CheckHolds'
    BY DEF TypeOK, LocalsSet, PositionsAgree, CheckHolds
  <2> QED BY <2>1, <2>2, <2>3
<1>4. ASSUME NEW p \in Procs, semaphore_p_fails(p) PROVE IndInv'
  <2> USE <1>4 DEF semaphore_p_fails, Leave, Outcome
  <2>1. TypeOK'
    BY MqSizeAssumption DEF TypeOK, Ops, Rets
  <2>2. LockOwned'
    BY DEF TypeOK, LockOwned, Critical
  <2>3. LocalsSet' /\ PositionsAgree' /\ CheckHolds'
    BY DEF TypeOK, LocalsSet, PositionsAgree, CheckHolds
  <2> QED BY <2>1, <2>2, <2>3
<1>5. ASSUME NEW p \in Procs, semaphore_v(p) PROVE IndInv'
  <2> USE <1>5 DEF semaphore_v, Leave, Outcome
  <2>1. TypeOK'
    BY MqSizeAssumption DEF TypeOK, Ops, Rets
  <2>2. LockOwned'
    BY DEF TypeOK, LockOwned, Critical
  <2>3. LocalsSet' /\ PositionsAgree' /\ CheckHolds'
    BY DEF TypeOK, LocalsSet, PositionsAgree, CheckHolds
  <2> QED BY <2>1, <2>2, <2>3
<1>6. ASSUME NEW p \in Procs, Die(p) PROVE IndInv'
  <2> USE <1>6 DEF Die, Leave
  <2>0. content' \in [Slots -> Items \cup {Garbage}]
    <3>1. ASSUME NEW s, NEW c \in Items \cup {Garbage}
          PROVE  [content EXCEPT ![s] = c] \in [Slots -> Items \cup {Garbage}]
      BY DEF TypeOK
    <3>2. CASE pc[p] = "copy" /\ op[p] = "enqueue"
      <4> DEFINE s == Slot(Succ(enq_pos))
      <4>1. /\ content[s] \in Items \cup {Garbage}
            /\ item[p] \in Items \cup {Garbage}
        BY SlotInRange, SuccWraps DEF TypeOK
      <4>2. PICK c \in {content[s], item[p], Garbage} : content' = [content EXCEPT ![s] = c]
        BY <3>2 DEF Leftover
      <4> QED BY <3>1, <4>1, <4>2
    <3>3. CASE ~(pc[p] = "copy" /\ op[p] = "enqueue")
      BY <3>3 DEF Leftover, TypeOK
    <3> QED BY <3>2, <3>3
  <2>1. TypeOK'
    BY <2>0, MqSizeAssumption DEF TypeOK, Ops, Rets, LockOwned
  <2>2. LockOwned'
    <3>1. /\ pc'[p] = "closed" /\ semadj'[p] = 0 /\ sem' = sem + semadj[p]
          /\ \A q \in Procs \ {p} : pc'[q] = pc[q] /\ semadj'[q] = semadj[q]
          /\ semadj' \in [Procs -> Int]
      BY DEF TypeOK
    <3>2. semadj' = [q \in Procs |-> IF pc'[q] \in Critical THEN 1 ELSE 0]
      BY <3>1 DEF LockOwned, Critical
    <3>3. CASE pc[p] \in Critical
      BY <3>1, <3>2, <3>3 DEF LockOwned, Critical
    <3>4. CASE pc[p] \notin Critical
      BY <3>1, <3>2, <3>4 DEF LockOwned, Critical
    <3> QED BY <3>3, <3>4
  <2>3. LocalsSet' /\ PositionsAgree' /\ CheckHolds'
    BY DEF TypeOK, LocalsSet, PositionsAgree, CheckHolds
  <2> QED BY <2>1, <2>2, <2>3
<1>7. ASSUME NEW p \in Procs, Section(p) PROVE IndInv'
  <2>1. ASSUME NEW code \in {"SUCCESS", "ERROR_SHMAT"}, open_attach(p, code) PROVE IndInv'
    <3> USE <2>1 DEF open_attach
    <3>1. TypeOK' /\ LockOwned'
      BY DEF TypeOK, LockOwned, Critical, Rets
    <3>2. LocalsSet' /\ PositionsAgree' /\ CheckHolds'
      BY DEF TypeOK, LocalsSet, PositionsAgree, CheckHolds
    <3> QED BY <3>1, <3>2
  <2>2. CASE enqueue_check(p)
    <3> USE <2>2 DEF enqueue_check
    <3>1. TypeOK' /\ LockOwned'
      BY DEF TypeOK, LockOwned, Critical, Rets
    <3>2. LocalsSet' /\ PositionsAgree'
      BY DEF TypeOK, LocalsSet, PositionsAgree
    <3>3. CheckHolds'
      <4>1. Len(fifo) \in Nat /\ Len(fifo) < MqSize /\ (Full <=> Len(fifo) = MqSize - 1)
        BY VerdictIsExact DEF TypeOK, PositionsAgree
      <4>2. UNCHANGED fifo /\ op' = op /\ \A q \in Procs \ {p} : pc'[q] = pc[q] /\ ret'[q] = ret[q]
        BY DEF TypeOK
      <4>3. \/ pc'[p] = "v" /\ Len(fifo) = MqSize - 1
            \/ pc'[p] = "copy" /\ Len(fifo) < MqSize - 1
        BY <4>1, MqSizeAssumption DEF TypeOK
      <4> QED BY <4>2, <4>3 DEF CheckHolds
    <3> QED BY <3>1, <3>2, <3>3
  <2>3. CASE enqueue_copy(p)
    <3> USE <2>3 DEF enqueue_copy
    <3>1. TypeOK' /\ LockOwned'
      BY SlotInRange, SuccWraps DEF TypeOK, LockOwned, Critical
    <3>2. LocalsSet' /\ PositionsAgree' /\ CheckHolds'
      BY DEF TypeOK, LocalsSet, PositionsAgree, CheckHolds
    <3> QED BY <3>1, <3>2
  <2>4. CASE enqueue_advance(p)
    <3> USE <2>4 DEF enqueue_advance
    <3>1. item[p] \in Items /\ Len(fifo) < MqSize - 1 /\ fifo \in Seq(Items)
      BY DEF TypeOK, LocalsSet, CheckHolds
    <3>2. fifo' \in Seq(Items) /\ Len(fifo') = Len(fifo) + 1
      BY <3>1
    <3>3. TypeOK' /\ LockOwned'
      BY <3>2, SuccWraps DEF TypeOK, LockOwned, Critical
    <3>4. LocalsSet'
      BY DEF TypeOK, LocalsSet
    <3>5. PositionsAgree'
      <4>1. Len(fifo) \in 0 .. MqSize - 1 /\ deq_pos \in Positions
        <5>1. Len(fifo) \in Nat
          BY <3>1
        <5> QED BY <3>1, <5>1, MqSizeAssumption DEF TypeOK
      <4>2. Succ((deq_pos + Len(fifo)) % PosMod) = (deq_pos + (Len(fifo) + 1)) % PosMod
        BY <4>1, SuccAfter
      <4> QED BY <3>1, <3>2, <4>2, MqSizeAssumption DEF PositionsAgree
    <3>6. CheckHolds'
      <4>1. \A q \in Procs \ {p} : pc'[q] = pc[q] /\ pc[q] \notin {"copy", "adv", "v"}
        BY DEF TypeOK, LockOwned, Critical
      <4>2. pc'[p] = "v" /\ ret'[p] = "SUCCESS"
        BY DEF TypeOK, LocalsSet
      <4> QED BY <4>1, <4>2 DEF CheckHolds
    <3> QED BY <3>3, <3>4, <3>5, <3>6
  <2>5. CASE dequeue_check(p)
    <3> USE <2>5 DEF dequeue_check
    <3>1. TypeOK' /\ LockOwned'
      BY DEF TypeOK, LockOwned, Critical, Rets
    <3>2. LocalsSet' /\ PositionsAgree'
      BY DEF TypeOK, LocalsSet, PositionsAgree
    <3>3. CheckHolds'
      BY VerdictIsExact DEF TypeOK, PositionsAgree, CheckHolds
    <3> QED BY <3>1, <3>2, <3>3
  <2>6. CASE dequeue_copy(p)
    <3> USE <2>6 DEF dequeue_copy
    <3>1. TypeOK' /\ LockOwned'
      BY SlotInRange, SuccWraps DEF TypeOK, LockOwned, Critical
    <3>2. LocalsSet' /\ PositionsAgree' /\ CheckHolds'
      BY DEF TypeOK, LocalsSet, PositionsAgree, CheckHolds
    <3> QED BY <3>1, <3>2
  <2>7. CASE dequeue_advance(p)
    <3> USE <2>7 DEF dequeue_advance
    <3>1. fifo # <<>> /\ fifo \in Seq(Items) /\ Len(fifo) < MqSize
      BY DEF TypeOK, PositionsAgree, CheckHolds
    <3>2. fifo' \in Seq(Items) /\ Len(fifo') = Len(fifo) - 1 /\ Len(fifo) > 0
      BY <3>1
    <3>3. TypeOK' /\ LockOwned'
      BY <3>2, SuccWraps DEF TypeOK, LockOwned, Critical
    <3>4. LocalsSet'
      BY DEF TypeOK, LocalsSet
    <3>5. PositionsAgree'
      <4>1. Len(fifo) - 1 \in 0 .. MqSize - 1 /\ deq_pos \in Positions
        BY <3>1, <3>2, MqSizeAssumption DEF TypeOK
      <4>2. (Succ(deq_pos) + (Len(fifo) - 1)) % PosMod = (deq_pos + (Len(fifo) - 1 + 1)) % PosMod
        BY <4>1, SuccAfter
      <4>3. Len(fifo) - 1 + 1 = Len(fifo)
        BY <3>1
      <4> QED BY <3>1, <3>2, <4>2, <4>3, MqSizeAssumption DEF PositionsAgree
    <3>6. CheckHolds'
      <4>1. \A q \in Procs \ {p} : pc'[q] = pc[q] /\ pc[q] \notin {"copy", "adv", "v"}
        BY DEF TypeOK, LockOwned, Critical
      <4>2. pc'[p] = "v" /\ ret'[p] = "SUCCESS"
        BY DEF TypeOK, LocalsSet
      <4> QED BY <4>1, <4>2 DEF CheckHolds
    <3> QED BY <3>3, <3>4, <3>5, <3>6
  <2>8. ASSUME NEW critical \in 0 .. MqSize, clear_scan(p, critical) PROVE IndInv'
    <3> USE <2>8 DEF clear_scan
    <3>1. TypeOK' /\ LockOwned'
      BY DEF TypeOK, LockOwned, Critical, Rets
    <3>2. LocalsSet' /\ PositionsAgree' /\ CheckHolds'
      BY DEF TypeOK, LocalsSet, PositionsAgree, CheckHolds
    <3> QED BY <3>1, <3>2
  <2> QED BY <1>5, <1>7, <2>1, <2>2, <2>3, <2>4, <2>5, <2>6, <2>7, <2>8 DEF Section
<1> QED BY <1>0, <1>2, <1>3, <1>4, <1>6, <1>7 DEF Next

\* The invariant holds throughout.
THEOREM Invariance == Spec => []IndInv
<1> QED BY InitIndInv, StepIndInv, PTL DEF Spec

\* Types are right in every reachable state, whatever the constants.
THEOREM TypeSafety == Spec => []TypeOK
<1>1. IndInv => TypeOK
  BY DEF IndInv
<1> QED BY <1>1, Invariance, PTL

\* Mutual exclusion and the kernel's undo: for every set of processes, one of
\* them owns the semaphore at a time, and death gives it back exactly once.
THEOREM MutualExclusion == Spec => []LockOwned
<1>1. IndInv => LockOwned
  BY DEF IndInv
<1> QED BY <1>1, Invariance, PTL

\* For every queue size and every width of the positions, the positions count
\* the waiting items and never more than MqSize - 1 of them.
THEOREM PositionsSafety == Spec => []PositionsAgree
<1>1. IndInv => PositionsAgree
  BY DEF IndInv
<1> QED BY <1>1, Invariance, PTL

-----------------------------------------------------------------------------
(* The contents of the ring.                                               *)

\* The queue size divides 2^32: for every other size the slot of a position
\* jumps when the positions wrap around (run shmmq_wrap).
SizeDivides == PosMod % MqSize = 0

\* Wrapping around does not change the slot.
LEMMA SlotAfter ==
  ASSUME SizeDivides, NEW pos \in Positions, NEW k \in 0 .. MqSize
  PROVE  Slot((pos + k) % PosMod) = (pos + k) % MqSize
<1>1. /\ MqSize \in Nat \ {0} /\ PosMod \in Nat /\ pos \in Nat /\ k \in Nat
      /\ pos + k \in Nat
  BY MqSizeAssumption, PosModAssumption DEF Positions
<1>2. PICK q \in Nat, r \in 0 .. MqSize - 1 : PosMod = MqSize * q + r /\ PosMod % MqSize = r
  BY <1>1, ModDef
<1>3. PosMod = MqSize * q
  BY <1>1, <1>2 DEF SizeDivides
<1>4. (pos + k) % PosMod = IF pos + k < PosMod THEN pos + k ELSE pos + k - PosMod
  BY AfterWraps
<1>5. CASE pos + k < PosMod
  BY <1>4, <1>5 DEF Slot
<1>6. CASE pos + k >= PosMod
  <2> DEFINE x == pos + k - PosMod
  <2>1. x \in Nat /\ x + MqSize * q = pos + k
    BY <1>1, <1>3, <1>6
  <2>2. (pos + k) % PosMod = x
    BY <1>1, <1>4, <1>6
  <2> HIDE DEF x
  <2>3. (x + MqSize * q) % MqSize = x % MqSize
    BY <1>1, <2>1, ModMultiple
  <2> QED BY <2>1, <2>2, <2>3 DEF Slot
<1> QED BY <1>1, <1>5, <1>6

\* Two positions less than MqSize apart have slots of their own.
LEMMA SlotsDistinct ==
  ASSUME SizeDivides, NEW pos \in Positions,
         NEW i \in 0 .. MqSize, NEW j \in 0 .. MqSize, i < j, j - i < MqSize
  PROVE  Slot((pos + i) % PosMod) # Slot((pos + j) % PosMod)
<1> DEFINE x == pos + i  d == j - i
<1>1. x \in Nat /\ d \in 1 .. MqSize - 1 /\ x + d = pos + j /\ MqSize \in Nat \ {0}
  BY MqSizeAssumption, PosModAssumption DEF Positions
<1>2. Slot((pos + j) % PosMod) = (pos + j) % MqSize
  BY SlotAfter
<1>3. Slot((pos + i) % PosMod) = x % MqSize
  BY SlotAfter
<1> HIDE DEF x, d
<1>4. (x + d) % MqSize # x % MqSize
  BY <1>1, ModDistinct
<1> QED BY <1>1, <1>2, <1>3, <1>4

\* The slot enqueue writes to, and no waiting item lives there.
LEMMA FreshSlot ==
  ASSUME SizeDivides, TypeOK, PositionsAgree, Len(fifo) < MqSize - 1
  PROVE  /\ Slot(Succ(enq_pos)) \in Slots
         /\ Slot(Succ(enq_pos)) = Slot((deq_pos + (Len(fifo) + 1)) % PosMod)
         /\ \A i \in 1 .. Len(fifo) : Slot((deq_pos + i) % PosMod) # Slot(Succ(enq_pos))
<1> DEFINE n == Len(fifo)
<1>1. n \in 0 .. MqSize - 1 /\ n + 1 \in 0 .. MqSize /\ n + 1 < MqSize /\ n \in Nat
  <2>1. n \in Nat
    BY DEF TypeOK
  <2> QED BY <2>1, MqSizeAssumption
<1>2. enq_pos = (deq_pos + n) % PosMod /\ deq_pos \in Positions /\ enq_pos \in Positions
  BY DEF TypeOK, PositionsAgree
<1>3. Slot(Succ(enq_pos)) \in Slots
  BY <1>2, SuccWraps, SlotInRange
<1> HIDE DEF n
<1>4. Succ(enq_pos) = (deq_pos + (n + 1)) % PosMod
  BY <1>1, <1>2, SuccAfter
<1>5. ASSUME NEW i \in 1 .. n
      PROVE  Slot((deq_pos + i) % PosMod) # Slot((deq_pos + (n + 1)) % PosMod)
  <2>1. i \in 0 .. MqSize /\ i < n + 1 /\ (n + 1) - i < MqSize
    BY <1>1, MqSizeAssumption
  <2> QED BY <1>1, <1>2, <2>1, SlotsDistinct
<1> QED BY <1>3, <1>4, <1>5 DEF n

\* What the steps preserve on top of IndInv.
DataInv == FifoIntact /\ CopyHolds

\* A step that leaves the queue alone and brings nobody to "adv".
LEMMA QuietStep ==
  ASSUME DataInv, UNCHANGED shared,
         \A q \in Procs : pc'[q] = "adv" => pc[q] = "adv" /\ op'[q] = op[q] /\ item'[q] = item[q]
  PROVE  DataInv'
  BY DEF DataInv, FifoIntact, CopyHolds, shared

\* An overwrite of the slot of the next position.
LEMMA FreshSlotWrite ==
  ASSUME SizeDivides, TypeOK, PositionsAgree, Len(fifo) < MqSize - 1, FifoIntact,
         NEW c, content' = [content EXCEPT ![Slot(Succ(enq_pos))] = c],
         UNCHANGED <<deq_pos, fifo>>
  PROVE  FifoIntact'
<1>1. ASSUME NEW i \in 1 .. Len(fifo)
      PROVE  content'[Slot((deq_pos + i) % PosMod)] = content[Slot((deq_pos + i) % PosMod)]
  <2>1. Slot((deq_pos + i) % PosMod) # Slot(Succ(enq_pos))
    BY FreshSlot
  <2>2. Slot((deq_pos + i) % PosMod) \in Slots
    <3>1. Len(fifo) \in Nat
      BY DEF TypeOK
    <3>2. i \in 0 .. MqSize
      BY <3>1, MqSizeAssumption
    <3> QED BY <3>2, AfterWraps, SlotInRange DEF TypeOK
  <2> QED BY <2>1, <2>2 DEF TypeOK
<1> QED BY <1>1 DEF FifoIntact

\* Every step preserves the contents of the queue.
LEMMA StepDataInv ==
  ASSUME SizeDivides, IndInv, DataInv, [Next]_vars
  PROVE  DataInv'
<1> USE DEF IndInv, shared, lock, locals, Goto, Return
<1>0. CASE UNCHANGED vars
  BY <1>0 DEF vars, DataInv, FifoIntact, CopyHolds
<1>1. ASSUME NEW p \in Procs, Call(p) PROVE DataInv'
  BY <1>1, QuietStep
     DEF Call, shmmq_open, shmmq_enqueue, shmmq_dequeue, shmmq_clear, shmmq_close, Begin, TypeOK
<1>2. ASSUME NEW p \in Procs, semaphore_p(p) PROVE DataInv'
  BY <1>2, QuietStep DEF semaphore_p, TypeOK
<1>3. ASSUME NEW p \in Procs, semaphore_p_fails(p) PROVE DataInv'
  BY <1>3, QuietStep DEF semaphore_p_fails, Outcome, Leave, TypeOK
<1>4. ASSUME NEW p \in Procs, semaphore_v(p) PROVE DataInv'
  BY <1>4, QuietStep DEF semaphore_v, Outcome, Leave, TypeOK
<1>5. ASSUME NEW p \in Procs, Die(p) PROVE DataInv'
  <2> USE <1>5 DEF Die, Leave
  <2>1. CASE pc[p] = "copy" /\ op[p] = "enqueue"
    <3>1. PICK c : content' = [content EXCEPT ![Slot(Succ(enq_pos))] = c]
      BY <2>1 DEF Leftover
    <3>2. Len(fifo) < MqSize - 1
      BY <2>1 DEF CheckHolds
    <3>3. FifoIntact'
      BY <3>1, <3>2, FreshSlotWrite DEF DataInv
    <3>4. CopyHolds'
      BY <2>1 DEF TypeOK, LockOwned, Critical, CopyHolds
    <3> QED BY <3>3, <3>4 DEF DataInv
  <2>2. CASE ~(pc[p] = "copy" /\ op[p] = "enqueue")
    BY <2>2, QuietStep DEF Leftover, TypeOK
  <2> QED BY <2>1, <2>2
<1>6. ASSUME NEW p \in Procs, Section(p) PROVE DataInv'
  <2>1. ASSUME NEW code \in {"SUCCESS", "ERROR_SHMAT"}, open_attach(p, code) PROVE DataInv'
    BY <2>1, QuietStep DEF open_attach, TypeOK
  <2>2. CASE enqueue_check(p)
    BY <2>2, QuietStep DEF enqueue_check, TypeOK
  <2>3. CASE enqueue_copy(p)
    <3> USE <2>3 DEF enqueue_copy
    <3>1. Len(fifo) < MqSize - 1
      BY DEF CheckHolds
    <3>2. FifoIntact'
      BY <3>1, FreshSlotWrite DEF DataInv
    <3>3. content'[Slot(Succ(enq_pos))] = item[p]
      BY <3>1, FreshSlot DEF TypeOK
    <3>4. \A q \in Procs \ {p} : pc'[q] # "adv"
      BY DEF TypeOK, LockOwned, Critical
    <3>5. CopyHolds'
      BY <3>3, <3>4 DEF CopyHolds
    <3> QED BY <3>2, <3>5 DEF DataInv
  <2>4. CASE enqueue_advance(p)
    <3> USE <2>4 DEF enqueue_advance
    <3>1. Len(fifo) < MqSize - 1 /\ item[p] \in Items /\ fifo \in Seq(Items)
      BY DEF CheckHolds, LocalsSet, TypeOK
    <3>2. content[Slot((deq_pos + (Len(fifo) + 1)) % PosMod)] = item[p]
      BY <3>1, FreshSlot DEF DataInv, CopyHolds
    <3>3. /\ Len(fifo') = Len(fifo) + 1 /\ Len(fifo) \in Nat
          /\ fifo'[Len(fifo) + 1] = item[p]
          /\ \A i \in 1 .. Len(fifo) : fifo'[i] = fifo[i]
      BY <3>1
    <3>4. FifoIntact'
      <4> SUFFICES ASSUME NEW i \in 1 .. Len(fifo) + 1
                   PROVE  content[Slot((deq_pos + i) % PosMod)] = fifo'[i]
        BY <3>3 DEF FifoIntact
      <4>1. CASE i = Len(fifo) + 1
        BY <3>2, <3>3, <4>1
      <4>2. CASE i \in 1 .. Len(fifo)
        BY <3>3, <4>2 DEF DataInv, FifoIntact
      <4> QED BY <3>3, <4>1, <4>2
    <3>5. \A q \in Procs : pc'[q] # "adv"
      BY DEF TypeOK, LockOwned, Critical
    <3> QED BY <3>4, <3>5 DEF DataInv, CopyHolds
  <2>5. CASE dequeue_check(p)
    BY <2>5, QuietStep DEF dequeue_check, TypeOK
  <2>6. CASE dequeue_copy(p)
    <3> USE <2>6 DEF dequeue_copy
    <3>1. fifo # <<>> /\ fifo \in Seq(Items)
      BY DEF CheckHolds, TypeOK
    <3>2. 1 \in 1 .. Len(fifo) /\ Head(fifo) = fifo[1]
      BY <3>1
    <3>3. item'[p] = Head(fifo)
      BY <3>2 DEF TypeOK, DataInv, FifoIntact, Succ
    <3>4. \A q \in Procs \ {p} : pc'[q] # "adv"
      BY DEF TypeOK, LockOwned, Critical
    <3>5. CopyHolds'
      BY <3>3, <3>4 DEF CopyHolds
    <3> QED BY <3>5 DEF DataInv, FifoIntact
  <2>7. CASE dequeue_advance(p)
    <3> USE <2>7 DEF dequeue_advance
    <3>1. fifo # <<>> /\ fifo \in Seq(Items) /\ Len(fifo) < MqSize /\ deq_pos \in Positions
      BY DEF CheckHolds, TypeOK, PositionsAgree
    <3>2. /\ Len(fifo') = Len(fifo) - 1 /\ Len(fifo) \in Nat
          /\ \A i \in 1 .. Len(fifo) - 1 : fifo'[i] = fifo[i + 1]
      BY <3>1
    <3>3. FifoIntact'
      <4> SUFFICES ASSUME NEW i \in 1 .. Len(fifo) - 1
                   PROVE  content[Slot((Succ(deq_pos) + i) % PosMod)] = fifo'[i]
        BY <3>2 DEF FifoIntact
      <4>1. i \in 0 .. MqSize - 1 /\ i + 1 \in 1 .. Len(fifo)
        BY <3>1, <3>2, MqSizeAssumption
      <4>2. (Succ(deq_pos) + i) % PosMod = (deq_pos + (i + 1)) % PosMod
        BY <3>1, <4>1, SuccAfter
      <4> QED BY <3>2, <4>1, <4>2 DEF DataInv, FifoIntact
    <3>4. \A q \in Procs : pc'[q] # "adv"
      BY DEF TypeOK, LockOwned, Critical
    <3> QED BY <3>3, <3>4 DEF DataInv, CopyHolds
  <2>8. ASSUME NEW critical \in 0 .. MqSize, clear_scan(p, critical) PROVE DataInv'
    BY <2>8, QuietStep DEF clear_scan, TypeOK
  <2> QED BY <1>4, <1>6, <2>1, <2>2, <2>3, <2>4, <2>5, <2>6, <2>7, <2>8 DEF Section
<1> QED BY <1>0, <1>1, <1>2, <1>3, <1>5, <1>6 DEF Next

\* When the queue size divides the number of position values, no accepted item
\* is overwritten before it is dequeued, for every number of processes and
\* wherever they die.
THEOREM ContentsSafety ==
  ASSUME SizeDivides
  PROVE  Spec => []FifoIntact
<1>1. Init => DataInv
  BY DEF Init, DataInv, FifoIntact, CopyHolds
<1>2. IndInv /\ DataInv /\ [Next]_vars => DataInv'
  BY StepDataInv
<1>3. DataInv => FifoIntact
  BY DEF DataInv
<1> QED BY <1>1, <1>2, <1>3, Invariance, PTL DEF Spec

\* Under the same condition, what a call has checked and copied under the
\* semaphore is not stale when it publishes or consumes.
THEOREM VerdictSafety ==
  ASSUME SizeDivides
  PROVE  Spec => []VerdictHolds
<1>1. Init => DataInv
  BY DEF Init, DataInv, FifoIntact, CopyHolds
<1>2. IndInv /\ DataInv /\ [Next]_vars => DataInv'
  BY StepDataInv
<1>3. IndInv /\ DataInv => VerdictHolds
  BY DEF IndInv, DataInv, VerdictHolds
<1> QED BY <1>1, <1>2, <1>3, Invariance, PTL DEF Spec

-----------------------------------------------------------------------------
(* The ring implements the bounded queue.                                  *)

\* How a step of p changes the offers and the taken items: for the others,
\* nothing, as their locals do not change.
LEMMA MappedStep ==
  ASSUME NEW p \in Procs,
         \A q \in Procs \ {p} :
           pc'[q] = pc[q] /\ op'[q] = op[q] /\ item'[q] = item[q] /\ ret'[q] = ret[q]
  PROVE  /\ Offered' = [Offered EXCEPT ![p] = Offered'[p]]
         /\ Taken' = [Taken EXCEPT ![p] = Taken'[p]]
  BY DEF Offered, Taken

\* Every step is a step of the bounded queue or leaves it alone.
LEMMA StepRefines ==
  ASSUME SizeDivides, IndInv, DataInv, [Next]_vars
  PROVE  [BQ!Next]_BQ!vars
<1> USE DEF IndInv, DataInv, shared, lock, locals, Goto, Return
<1> DEFINE Same == UNCHANGED <<fifo, Offered, Taken>>
<1>a. Same => [BQ!Next]_BQ!vars
  BY DEF BQ!vars
<1>o. Offered = [p \in Procs |-> Offered[p]] /\ Taken = [p \in Procs |-> Taken[p]]
  BY DEF Offered, Taken
<1>b. ASSUME NEW p \in Procs, UNCHANGED fifo, Offered'[p] = Offered[p], Taken'[p] = Taken[p],
             Offered' = [Offered EXCEPT ![p] = Offered'[p]],
             Taken' = [Taken EXCEPT ![p] = Taken'[p]]
      PROVE  Same
  BY <1>b, <1>o
<1>c. ASSUME NEW p \in Procs, UNCHANGED fifo, Offered[p] # Garbage, Offered'[p] = Garbage,
             Taken'[p] = Taken[p],
             Offered' = [Offered EXCEPT ![p] = Offered'[p]],
             Taken' = [Taken EXCEPT ![p] = Taken'[p]]
      PROVE  BQ!Withdraw(p)
  BY <1>c, <1>o DEF BQ!Withdraw
<1>d. ASSUME NEW p \in Procs, UNCHANGED fifo, Taken[p] # Garbage, Taken'[p] = Garbage,
             Offered'[p] = Offered[p],
             Offered' = [Offered EXCEPT ![p] = Offered'[p]],
             Taken' = [Taken EXCEPT ![p] = Taken'[p]]
      PROVE  BQ!Deliver(p)
  BY <1>d, <1>o DEF BQ!Deliver
<1> HIDE DEF Same
<1>0. CASE UNCHANGED vars
  <2>1. Same
    BY <1>0 DEF vars, Same, Offered, Taken
  <2> QED BY <2>1, <1>a
<1>1. ASSUME NEW p \in Procs, Call(p) PROVE [BQ!Next]_BQ!vars
  <2>1. ASSUME NEW i \in Items, shmmq_enqueue(p, i) PROVE BQ!Offer(p, i)
    <3> USE <2>1 DEF shmmq_enqueue, Begin
    <3>1. /\ Offered' = [Offered EXCEPT ![p] = Offered'[p]]
          /\ Taken' = [Taken EXCEPT ![p] = Taken'[p]]
      BY MappedStep DEF TypeOK
    <3>2. Offered[p] = Garbage /\ Offered'[p] = i /\ Taken[p] = Garbage /\ Taken'[p] = Garbage
      BY DEF TypeOK, Offered, Taken
    <3>3. Taken' = Taken
      BY <3>1, <3>2 DEF Taken
    <3> QED BY <3>1, <3>2, <3>3 DEF BQ!Offer
  <2>2. CASE shmmq_open(p) \/ shmmq_dequeue(p) \/ shmmq_clear(p) \/ shmmq_close(p)
    <3> USE <2>2 DEF shmmq_open, shmmq_dequeue, shmmq_clear, shmmq_close, Begin
    <3>1. /\ Offered' = [Offered EXCEPT ![p] = Offered'[p]]
          /\ Taken' = [Taken EXCEPT ![p] = Taken'[p]]
      BY MappedStep DEF TypeOK
    <3>2. Offered[p] = Garbage /\ Offered'[p] = Garbage /\ Taken[p] = Garbage /\ Taken'[p] = Garbage
      BY DEF TypeOK, Offered, Taken
    <3>3. UNCHANGED fifo
      OBVIOUS
    <3> QED BY <1>a, <1>b, <3>1, <3>2, <3>3
  <2> QED BY <1>1, <2>1, <2>2 DEF Call, BQ!Next
<1>2. ASSUME NEW p \in Procs, semaphore_p(p) PROVE [BQ!Next]_BQ!vars
  <2>1. Same
    BY <1>2 DEF semaphore_p, TypeOK, Same, Offered, Taken
  <2> QED BY <2>1, <1>a
<1>3. ASSUME NEW p \in Procs, semaphore_p_fails(p) PROVE [BQ!Next]_BQ!vars
  <2> USE <1>3 DEF semaphore_p_fails, Leave
  <2>1. /\ Offered' = [Offered EXCEPT ![p] = Offered'[p]]
        /\ Taken' = [Taken EXCEPT ![p] = Taken'[p]]
    BY MappedStep DEF TypeOK
  <2>2. Offered'[p] = Garbage /\ Taken[p] = Garbage /\ Taken'[p] = Garbage /\ UNCHANGED fifo
    BY DEF TypeOK, Offered, Taken
  <2>3. CASE Offered[p] = Garbage
    BY <1>a, <1>b, <2>1, <2>2, <2>3
  <2>4. CASE Offered[p] # Garbage
    BY <1>c, <2>1, <2>2, <2>4 DEF BQ!Next
  <2> QED BY <2>3, <2>4
<1>4. ASSUME NEW p \in Procs, semaphore_v(p) \/ Die(p) PROVE [BQ!Next]_BQ!vars
  <2> USE <1>4 DEF semaphore_v, Die, Leave
  <2>1. /\ Offered' = [Offered EXCEPT ![p] = Offered'[p]]
        /\ Taken' = [Taken EXCEPT ![p] = Taken'[p]]
    BY MappedStep DEF TypeOK
  <2>2. Offered'[p] = Garbage /\ Taken'[p] = Garbage /\ UNCHANGED fifo
    BY DEF TypeOK, Offered, Taken
  <2>3. Offered[p] = Garbage \/ Taken[p] = Garbage
    BY DEF Offered, Taken
  <2>4. CASE Offered[p] = Garbage /\ Taken[p] = Garbage
    BY <1>a, <1>b, <2>1, <2>2, <2>4
  <2>5. CASE Offered[p] # Garbage /\ Taken[p] = Garbage
    BY <1>c, <2>1, <2>2, <2>5 DEF BQ!Next
  <2>6. CASE Offered[p] = Garbage /\ Taken[p] # Garbage
    BY <1>d, <2>1, <2>2, <2>6 DEF BQ!Next
  <2> QED BY <2>3, <2>4, <2>5, <2>6
<1>5. ASSUME NEW p \in Procs, Section(p) PROVE [BQ!Next]_BQ!vars
  <2>1. ASSUME NEW code \in {"SUCCESS", "ERROR_SHMAT"}, open_attach(p, code) PROVE Same
    BY <2>1 DEF open_attach, TypeOK, Same, Offered, Taken
  <2>2. ASSUME NEW critical \in 0 .. MqSize, clear_scan(p, critical) PROVE Same
    BY <2>2 DEF clear_scan, TypeOK, Same, Offered, Taken
  <2>3. CASE enqueue_check(p)
    <3> USE <2>3 DEF enqueue_check
    <3>1. /\ Offered' = [Offered EXCEPT ![p] = Offered'[p]]
          /\ Taken' = [Taken EXCEPT ![p] = Taken'[p]]
      BY MappedStep DEF TypeOK
    <3>2. Offered[p] # Garbage /\ Taken[p] = Garbage /\ Taken'[p] = Garbage /\ UNCHANGED fifo
      BY ItemsAssumption DEF TypeOK, LocalsSet, Offered, Taken
    <3>3. Offered'[p] = Garbage \/ Offered'[p] = Offered[p]
      BY DEF TypeOK, Offered
    <3> QED BY <1>a, <1>b, <1>c, <3>1, <3>2, <3>3 DEF BQ!Next
  <2>4. CASE enqueue_copy(p)
    <3>1. Same
      BY <2>4 DEF enqueue_copy, TypeOK, Same, Offered, Taken
    <3> QED BY <3>1, <1>a
  <2>5. CASE enqueue_advance(p)
    <3> USE <2>5 DEF enqueue_advance
    <3>1. /\ Offered' = [Offered EXCEPT ![p] = Offered'[p]]
          /\ Taken' = [Taken EXCEPT ![p] = Taken'[p]]
      BY MappedStep DEF TypeOK
    <3>2. /\ Offered[p] = item[p] /\ Offered[p] # Garbage /\ Offered'[p] = Garbage
          /\ Taken[p] = Garbage /\ Taken'[p] = Garbage
      BY ItemsAssumption DEF TypeOK, LocalsSet, Offered, Taken
    <3>3. Taken' = Taken
      BY <3>1, <3>2 DEF Taken
    <3>4. Len(fifo) < MqSize - 1
      BY DEF CheckHolds
    <3>5. BQ!Accept(p)
      BY <3>1, <3>2, <3>3, <3>4 DEF BQ!Accept
    <3> QED BY <3>5 DEF BQ!Next
  <2>6. CASE dequeue_check(p) \/ dequeue_copy(p)
    <3> USE <2>6 DEF dequeue_check, dequeue_copy
    <3>1. /\ Offered' = [Offered EXCEPT ![p] = Offered'[p]]
          /\ Taken' = [Taken EXCEPT ![p] = Taken'[p]]
      BY MappedStep DEF TypeOK
    <3>2. /\ Offered[p] = Garbage /\ Offered'[p] = Garbage
          /\ Taken[p] = Garbage /\ Taken'[p] = Garbage /\ UNCHANGED fifo
      BY DEF TypeOK, Offered, Taken
    <3> QED BY <1>a, <1>b, <3>1, <3>2
  <2>7. CASE dequeue_advance(p)
    <3> USE <2>7 DEF dequeue_advance
    <3>1. /\ Offered' = [Offered EXCEPT ![p] = Offered'[p]]
          /\ Taken' = [Taken EXCEPT ![p] = Taken'[p]]
      BY MappedStep DEF TypeOK
    <3>2. item[p] = Head(fifo) /\ fifo # <<>>
      BY DEF CheckHolds, CopyHolds
    <3>3. /\ Offered[p] = Garbage /\ Offered'[p] = Garbage
          /\ Taken[p] = Garbage /\ Taken'[p] = item[p]
      BY DEF TypeOK, LocalsSet, Offered, Taken
    <3>4. Offered' = Offered
      BY <3>1, <3>3 DEF Offered
    <3>5. BQ!Take(p)
      BY <3>1, <3>2, <3>3, <3>4 DEF BQ!Take
    <3> QED BY <3>5 DEF BQ!Next
  <2> QED BY <1>a, <1>4, <1>5, <2>1, <2>2, <2>3, <2>4, <2>5, <2>6, <2>7 DEF Section
<1> QED BY <1>0, <1>1, <1>2, <1>3, <1>4, <1>5 DEF Next

\* For every number of processes and every queue size that divides the number
\* of position values, the ring is a first-in first-out queue of MqSize - 1
\* items, whatever the interleaving and wherever processes die.
THEOREM Refinement ==
  ASSUME SizeDivides
  PROVE  Spec => ImplementsBoundedQueue
<1>1. Init => DataInv /\ BQ!Init
  BY DEF Init, DataInv, FifoIntact, CopyHolds, BQ!Init, Offered, Taken
<1>2. IndInv /\ DataInv /\ [Next]_vars => DataInv'
  BY StepDataInv
<1>3. IndInv /\ DataInv /\ [Next]_vars => [BQ!Next]_BQ!vars
  BY StepRefines
<1> QED BY <1>1, <1>2, <1>3, Invariance, PTL DEF Spec, ImplementsBoundedQueue, BQ!Spec
=============================================================================
