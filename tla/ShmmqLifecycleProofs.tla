------------------------ MODULE ShmmqLifecycleProofs ------------------------
(***************************************************************************)
(* Proofs about ShmmqLifecycle for every number of users and every number  *)
(* of semaphores and segments that are made over time.  The argument: the  *)
(* semaphore of SEM_KEY is the only one that is not removed, one process   *)
(* at most holds it, and it guards the segment of SHM_KEY; who still holds *)
(* a removed one was alone with it and stays so.                           *)
(***************************************************************************)
EXTENDS ShmmqLifecycle, WellFoundedInduction, TLAPS

-----------------------------------------------------------------------------
(* Least elements.                                                         *)

\* Every non-empty set of naturals has a least element: < is well founded on
\* the naturals.  (With the set of the numbers that lack a property, this is
\* induction.)
LEMMA LeastNatural ==
  ASSUME NEW S, S \subseteq Nat, S # {}
  PROVE  \E x \in S : \A y \in S : x <= y
<1>1. \A x, y \in Nat : y < x => <<y, x>> \in OpToRel(<, Nat)
  BY DEF OpToRel
<1>2. PICK x \in S : \A y \in S : ~(<<y, x>> \in OpToRel(<, Nat))
  BY NatLessThanWellFounded, WFMin
<1>3. \A y \in S : ~(y < x)
  BY <1>1, <1>2, Zenon
<1> QED BY <1>3

\* Min is the least element of a non-empty set of naturals.
LEMMA MinIsLeast ==
  ASSUME NEW S, S \subseteq Nat, S # {}
  PROVE  Min(S) \in S /\ \A y \in S : Min(S) <= y
  BY LeastNatural DEF Min

Labels == {"closed", "failed", "open", "set", "p", "shmget", "shmat", "init", "give_up",
           "rmid", "v_error", "del", "inside", "v"}

\* Between a semaphore_p that succeeded and its semaphore_v.
Holds(p) ==
  \/ pc[p] \in {"shmget", "shmat", "init", "give_up", "inside", "v", "v_error"}
  \/ pc[p] = "rmid" /\ op[p] = "open"

\* The types.
Shape ==
  /\ semkey \in sems \cup {None} /\ shmkey \in segs \cup {None}
  /\ sems \subseteq Sems /\ segs \subseteq Segs
  /\ removed \subseteq sems /\ set \subseteq sems
  /\ semval \in [Sems -> Int]
  /\ semadj \in [Procs -> [Sems -> Int]]
  /\ semid \in [Procs -> sems \cup {None}]
  /\ shmid \in [Procs -> segs \cup {None}]
  /\ base \in [Procs -> segs \cup {None}]
  /\ queue \in [Segs -> Sems \cup {None}]
  /\ pc \in [Procs -> Labels]
  /\ op \in [Procs -> {"none", "open", "use", "close"}]

\* Which call a process is in, and what only the creator does.
CallsAgree ==
  \A p \in Procs :
    /\ pc[p] \in {"closed", "failed", "open"} <=> op[p] = "none"
    /\ pc[p] \in {"set", "shmget", "shmat", "init", "give_up", "v_error"} => op[p] = "open"
    /\ pc[p] = "inside" => op[p] = "use"
    /\ pc[p] \in {"p", "v"} => op[p] \in {"open", "use"}
    /\ pc[p] \in {"rmid", "del"} => op[p] \in {"open", "close"}
    /\ pc[p] \in {"set", "init", "rmid", "del"} => p = Creator
    /\ pc[p] = "open" \/ op[p] \in {"open", "use"} => semid[p] # None

\* A semaphore that was set and not removed is 1 or held, and the holder's death
\* gives it back; every other one is 0.  Once it is removed nobody can take it,
\* but whoever held it does not know.
SemsAgree ==
  /\ \A p, q \in Procs : Holds(p) /\ Holds(q) /\ semid[p] = semid[q] => p = q
  /\ \A p \in Procs : Holds(p) => semid[p] \in set
  /\ \A s \in Sems :
       IF s \in set \ removed
       THEN /\ \A p \in Procs : semadj[p][s] = IF Holds(p) /\ semid[p] = s THEN 1 ELSE 0
            /\ semval[s] = 1 <=> ~\E p \in Procs : Holds(p) /\ semid[p] = s
            /\ semval[s] \in {0, 1}
       ELSE semval[s] = 0 /\ \A p \in Procs : semadj[p][s] = 0

\* The semaphore of SEM_KEY is the only one that is not removed, and the one
\* that guards the segment of SHM_KEY.
KeysAgree ==
  /\ semkey \notin removed
  /\ \A s \in sems : s \in removed \/ s = semkey
  /\ shmkey # None => semkey # None /\ queue[shmkey] = semkey

\* The creator keeps to its semaphore until it has removed it, and makes a
\* segment only when there is none.
CreatorAgrees ==
  /\ op[Creator] = "open" => semid[Creator] = semkey /\ semkey # None
  /\ pc[Creator] # "closed" => shmkey \in {None, shmid[Creator]}
  /\ pc[Creator] \in {"set", "shmget", "v_error", "del"} => shmkey = None
  /\ pc[Creator] = "p" /\ op[Creator] = "open" => shmkey = None
  /\ pc[Creator] = "set" => semkey \notin set

\* An open that is under way has the segment of its semaphore, unless that
\* semaphore has been removed.
OpensAgree ==
  \A p \in Procs :
    /\ pc[p] = "shmat" =>
         shmid[p] \in segs /\ (semid[p] \in removed \/ queue[shmid[p]] = semid[p])
    /\ pc[p] = "init" \/ (pc[p] = "v" /\ op[p] = "open") =>
         base[p] \in segs /\ (semid[p] \in removed \/ queue[base[p]] = semid[p])

\* What the steps preserve together.
LifeInv ==
  Shape /\ CallsAgree /\ SemsAgree /\ KeysAgree /\ CreatorAgrees /\ OpensAgree /\ OpenedWhole

\* The creator is one of the processes.
LEMMA CreatorIsProc == Creator \in Procs
  BY DEF Procs

\* None stands for no identifier.
LEMMA NoneIsNoId == None \notin Sems /\ None \notin Segs
  BY BoundsAssumption DEF None, Sems, Segs

\* The next identifier is a new one.
LEMMA FreshIsNew ==
  /\ \A used \in SUBSET Sems : used # Sems => Fresh(Sems, used) \in Sems \ used
  /\ \A used \in SUBSET Segs : used # Segs => Fresh(Segs, used) \in Segs \ used
<1>1. Sems \subseteq Nat /\ Segs \subseteq Nat
  BY BoundsAssumption DEF Sems, Segs
<1>2. ASSUME NEW all \in SUBSET Nat, NEW used \in SUBSET all, used # all
      PROVE  Fresh(all, used) \in all \ used
  <2>1. all \ used \subseteq Nat /\ all \ used # {}
    BY <1>2
  <2> QED BY <2>1, MinIsLeast DEF Fresh
<1> QED BY <1>1, <1>2

\* Nothing exists at first.
LEMMA LifeInit == Init => LifeInv
<1> SUFFICES ASSUME Init
             PROVE  LifeInv
  OBVIOUS
<1>1. Shape
  BY DEF Init, Shape, Labels
<1>2. CallsAgree /\ SemsAgree
  BY DEF Init, CallsAgree, SemsAgree, Holds
<1>3. KeysAgree /\ CreatorAgrees /\ OpensAgree /\ OpenedWhole
  BY CreatorIsProc DEF Init, KeysAgree, CreatorAgrees, OpensAgree, OpenedWhole
<1> QED BY <1>1, <1>2, <1>3 DEF LifeInv

\* A step that leaves the semaphores alone, with whoever holds one.
LEMMA SemsUntouched ==
  ASSUME SemsAgree, UNCHANGED <<semval, semadj, set, removed>>,
         \A q \in Procs : Holds(q)' <=> Holds(q),
         \A q \in Procs : Holds(q) => semid'[q] = semid[q]
  PROVE  SemsAgree'
<1>1. \A s \in Sems, q \in Procs : Holds(q)' /\ semid'[q] = s <=> Holds(q) /\ semid[q] = s
  OBVIOUS
<1> HIDE DEF Holds
<1>2. \A q, r \in Procs : Holds(q)' /\ Holds(r)' /\ semid'[q] = semid'[r] => q = r
  BY DEF SemsAgree
<1>3. \A q \in Procs : Holds(q)' => semid'[q] \in set
  BY DEF SemsAgree
<1> QED BY <1>1, <1>2, <1>3 DEF SemsAgree

\* semget: a semaphore that is new has no holder.
LEMMA shmmq_open_keeps ==
  ASSUME LifeInv, NEW p \in Procs, shmmq_open(p)
  PROVE  LifeInv'
<1> USE CreatorIsProc, NoneIsNoId DEF LifeInv
<1>1. Shape'
  BY FreshIsNew DEF shmmq_open, Goto, AfterGet, NoQueue, Shape, Labels
<1>2. CallsAgree'
  BY FreshIsNew DEF shmmq_open, Goto, AfterGet, NoQueue, Shape, CallsAgree
<1>3. SemsAgree'
  <2>1. /\ \A q \in Procs : Holds(q)' <=> Holds(q)
        /\ \A q \in Procs : Holds(q) => semid'[q] = semid[q]
    BY DEF shmmq_open, Goto, AfterGet, NoQueue, Shape, CallsAgree, Holds
  <2>2. UNCHANGED <<semval, semadj, set, removed>>
    BY DEF shmmq_open, kernel
  <2> QED BY <2>1, <2>2, SemsUntouched
<1>4. KeysAgree'
  BY FreshIsNew DEF shmmq_open, Goto, AfterGet, NoQueue, Shape, CallsAgree, KeysAgree,
       CreatorAgrees
<1>5. CreatorAgrees'
  BY FreshIsNew DEF shmmq_open, Goto, AfterGet, NoQueue, Shape, CallsAgree, KeysAgree,
       CreatorAgrees
<1>6. OpensAgree'
  BY FreshIsNew DEF shmmq_open, Goto, AfterGet, NoQueue, Shape, CallsAgree, KeysAgree,
       CreatorAgrees, OpensAgree
<1>7. OpenedWhole'
  BY FreshIsNew DEF shmmq_open, Goto, AfterGet, NoQueue, Shape, CallsAgree, OpensAgree,
       OpenedWhole
<1> QED BY <1>1, <1>2, <1>3, <1>4, <1>5, <1>6, <1>7

\* semget is refused.
LEMMA get_semvalue_fails_keeps ==
  ASSUME LifeInv, NEW p \in Procs, get_semvalue_fails(p)
  PROVE  LifeInv'
<1> USE CreatorIsProc, NoneIsNoId DEF LifeInv
<1>1. Shape'
  BY DEF get_semvalue_fails, Goto, kernel, NoQueue, Shape, Labels
<1>2. CallsAgree'
  BY DEF get_semvalue_fails, Goto, kernel, NoQueue, Shape, CallsAgree
<1>3. SemsAgree'
  <2>1. /\ \A q \in Procs : Holds(q)' <=> Holds(q)
        /\ \A q \in Procs : Holds(q) => semid'[q] = semid[q]
    BY DEF get_semvalue_fails, Goto, kernel, NoQueue, Shape, CallsAgree, Holds
  <2>2. UNCHANGED <<semval, semadj, set, removed>>
    BY DEF get_semvalue_fails, kernel
  <2> QED BY <2>1, <2>2, SemsUntouched
<1>4. KeysAgree'
  BY DEF get_semvalue_fails, Goto, kernel, NoQueue, Shape, CallsAgree, KeysAgree, CreatorAgrees
<1>5. CreatorAgrees'
  BY DEF get_semvalue_fails, Goto, kernel, NoQueue, Shape, CallsAgree, KeysAgree, CreatorAgrees
<1>6. OpensAgree'
  BY DEF get_semvalue_fails, Goto, kernel, NoQueue, Shape, CallsAgree, KeysAgree, CreatorAgrees,
       OpensAgree
<1>7. OpenedWhole'
  BY DEF get_semvalue_fails, Goto, kernel, NoQueue, Shape, CallsAgree, OpensAgree, OpenedWhole
<1> QED BY <1>1, <1>2, <1>3, <1>4, <1>5, <1>6, <1>7

\* SETVAL: nobody held the semaphore before it was set.
LEMMA set_semvalue_keeps ==
  ASSUME LifeInv, NEW p \in Procs, set_semvalue(p)
  PROVE  LifeInv'
<1> USE CreatorIsProc, NoneIsNoId DEF LifeInv
<1>1. Shape'
  <2>1. p = Creator /\ semid[p] \in sems
    BY DEF set_semvalue, Shape, CallsAgree
  <2>2. semval' \in [Sems -> Int] /\ semadj' \in [Procs -> [Sems -> Int]] /\ set' \subseteq sems
    BY <2>1 DEF set_semvalue, Shape
  <2> QED BY <2>2 DEF set_semvalue, Goto, process, Shape, Labels
<1>2. CallsAgree'
  BY DEF set_semvalue, Goto, process, Shape, CallsAgree
<1>3. SemsAgree'
  <2> DEFINE s == semid[p]
  <2>1. p = Creator /\ s \in Sems /\ s \notin set /\ s \notin removed
    BY DEF set_semvalue, Shape, CallsAgree, KeysAgree, CreatorAgrees
  <2>2. \A q \in Procs : Holds(q)' <=> Holds(q)
    BY DEF set_semvalue, Goto, Shape, Holds
  <2>3. \A q \in Procs : Holds(q) => semid[q] # s
    BY <2>1 DEF SemsAgree
  <2>4. /\ semval' = [semval EXCEPT ![s] = 1]
        /\ \A q \in Procs, z \in Sems : semadj'[q][z] = IF z = s THEN 0 ELSE semadj[q][z]
        /\ set' = set \cup {s} /\ UNCHANGED <<removed, semid>>
    BY DEF set_semvalue, Shape, process
  <2>5. \A q, r \in Procs : Holds(q)' /\ Holds(r)' /\ semid'[q] = semid'[r] => q = r
    BY <2>2, <2>4 DEF SemsAgree
  <2>6. \A q \in Procs : Holds(q)' => semid'[q] \in set'
    BY <2>2, <2>4 DEF SemsAgree
  <2> HIDE DEF s, Holds
  <2> QED BY <2>1, <2>2, <2>3, <2>4, <2>5, <2>6 DEF SemsAgree, Shape
<1>4. KeysAgree'
  BY DEF set_semvalue, Goto, process, Shape, CallsAgree, KeysAgree, CreatorAgrees
<1>5. CreatorAgrees'
  BY DEF set_semvalue, Goto, process, Shape, CallsAgree, KeysAgree, CreatorAgrees
<1>6. OpensAgree'
  BY DEF set_semvalue, Goto, process, Shape, CallsAgree, KeysAgree, CreatorAgrees, OpensAgree
<1>7. OpenedWhole'
  BY DEF set_semvalue, Goto, process, Shape, CallsAgree, OpensAgree, OpenedWhole
<1> QED BY <1>1, <1>2, <1>3, <1>4, <1>5, <1>6, <1>7

\* A new segment is in nobody else's hands, and gets the semaphore of SEM_KEY.
LEMMA shmget_keeps ==
  ASSUME LifeInv, NEW p \in Procs, shmget(p)
  PROVE  LifeInv'
<1> USE CreatorIsProc, NoneIsNoId DEF LifeInv
<1>1. Shape'
  <2>1. shmkey = None /\ segs # Segs => Fresh(Segs, segs) \in Segs \ segs
    BY FreshIsNew DEF Shape
  <2>2. semid[p] \in Sems \cup {None}
    BY DEF Shape
  <2>3. pc' \in [Procs -> Labels]
    BY DEF shmget, Goto, Shape, Labels
  <2>4. segs' \subseteq Segs /\ segs \subseteq segs' /\ shmkey' \in segs' \cup {None}
    BY <2>1 DEF shmget, Shape
  <2>5. queue' \in [Segs -> Sems \cup {None}]
    BY <2>1, <2>2 DEF shmget, Shape
  <2>6. shmid' \in [Procs -> segs' \cup {None}]
    <3>1. shmid'[p] \in segs' \cup {None} /\ shmid' = [shmid EXCEPT ![p] = shmid'[p]]
      BY DEF shmget, Shape
    <3> QED BY <2>4, <3>1 DEF Shape
  <2>7. base' \in [Procs -> segs' \cup {None}]
    BY <2>4 DEF shmget, Shape
  <2> QED BY <2>3, <2>4, <2>5, <2>6, <2>7 DEF shmget, Shape
<1>2. CallsAgree'
  BY FreshIsNew DEF shmget, Goto, Shape, CallsAgree
<1>3. SemsAgree'
  <2>1. /\ \A q \in Procs : Holds(q)' <=> Holds(q)
        /\ \A q \in Procs : Holds(q) => semid'[q] = semid[q]
    BY DEF shmget, Goto, Shape, CallsAgree, Holds
  <2>2. UNCHANGED <<semval, semadj, set, removed>>
    BY DEF shmget, kernel
  <2> QED BY <2>1, <2>2, SemsUntouched
<1>4. KeysAgree'
  BY FreshIsNew DEF shmget, Goto, Shape, CallsAgree, KeysAgree, CreatorAgrees
<1>5. CreatorAgrees'
  BY FreshIsNew DEF shmget, Goto, Shape, CallsAgree, KeysAgree, CreatorAgrees
<1>6. OpensAgree'
  <2>1. segs # Segs => Fresh(Segs, segs) \in Segs \ segs
    BY FreshIsNew DEF Shape
  <2>2. p \in Procs /\ semid[p] \in sems
    BY DEF shmget, Shape, CallsAgree
  <2>3. semid[p] \in removed \/ semid[p] = semkey
    BY <2>2 DEF KeysAgree
  <2>4. CASE shmkey # None /\ UNCHANGED <<shmkey, segs, queue>>
    BY <2>2, <2>3, <2>4 DEF shmget, Goto, Shape, KeysAgree, OpensAgree
  <2>5. CASE segs # Segs /\ segs' = segs \cup {Fresh(Segs, segs)} /\ shmkey = None
    BY <2>1, <2>2, <2>5 DEF shmget, Goto, Shape, OpensAgree
  <2>6. CASE pc' = [pc EXCEPT ![p] = "give_up"] /\ UNCHANGED <<segs, queue>>
    BY <2>6 DEF shmget, Shape, OpensAgree
  <2> QED BY <2>4, <2>5, <2>6 DEF shmget, Goto
<1>7. OpenedWhole'
  <2>1. segs # Segs => Fresh(Segs, segs) \in Segs \ segs
    BY FreshIsNew DEF Shape
  <2>2. op[p] = "open" /\ pc[p] = "shmget" /\ (p = Creator => shmkey = None)
    BY DEF shmget, CallsAgree, CreatorAgrees
  <2>3. \A q \in Procs : pc'[q] = "open" \/ op'[q] = "use" =>
           q # p /\ (pc[q] = "open" \/ op[q] = "use")
    BY <2>2 DEF shmget, Goto, Shape
  <2>4. \A q \in Procs : pc[q] = "open" \/ op[q] = "use" =>
           base[q] \in segs /\ queue'[base[q]] = queue[base[q]]
    BY <2>1 DEF shmget, OpenedWhole, Shape
  <2>5. ASSUME NEW q \in Procs, pc[q] = "open" \/ op[q] = "use",
               pc'[Creator] \in {"shmat", "init"}
        PROVE  shmid'[Creator] # base[q]
    <3>1. CASE p = Creator
      BY <2>1, <2>2, <2>4, <2>5, <3>1 DEF shmget, Goto, Shape
    <3>2. CASE p # Creator
      BY <2>5, <3>2 DEF shmget, Goto, Shape, OpenedWhole
    <3> QED BY <3>1, <3>2
  <2> QED BY <2>3, <2>4, <2>5 DEF shmget, OpenedWhole, Shape
<1> QED BY <1>1, <1>2, <1>3, <1>4, <1>5, <1>6, <1>7

\* The segment is attached.
LEMMA shmat_keeps ==
  ASSUME LifeInv, NEW p \in Procs, shmat(p)
  PROVE  LifeInv'
<1> USE CreatorIsProc, NoneIsNoId DEF LifeInv
<1>1. Shape'
  BY DEF shmat, Goto, Shape, Labels
<1>2. CallsAgree'
  BY DEF shmat, Goto, Shape, CallsAgree
<1>3. SemsAgree'
  <2>1. /\ \A q \in Procs : Holds(q)' <=> Holds(q)
        /\ \A q \in Procs : Holds(q) => semid'[q] = semid[q]
    BY DEF shmat, Goto, Shape, CallsAgree, Holds
  <2>2. UNCHANGED <<semval, semadj, set, removed>>
    BY DEF shmat, kernel
  <2> QED BY <2>1, <2>2, SemsUntouched
<1>4. KeysAgree'
  BY DEF shmat, Goto, Shape, CallsAgree, KeysAgree, CreatorAgrees
<1>5. CreatorAgrees'
  BY DEF shmat, Goto, Shape, CallsAgree, KeysAgree, CreatorAgrees
<1>6. OpensAgree'
  BY DEF shmat, Goto, Shape, CallsAgree, KeysAgree, CreatorAgrees, OpensAgree
<1>7. OpenedWhole'
  BY DEF shmat, Goto, Shape, CallsAgree, OpensAgree, OpenedWhole
<1> QED BY <1>1, <1>2, <1>3, <1>4, <1>5, <1>6, <1>7

\* The segment cannot be attached.
LEMMA shmat_fails_keeps ==
  ASSUME LifeInv, NEW p \in Procs, shmat_fails(p)
  PROVE  LifeInv'
<1> USE CreatorIsProc, NoneIsNoId DEF LifeInv
<1>1. Shape'
  BY DEF shmat_fails, Goto, kernel, Shape, Labels
<1>2. CallsAgree'
  BY DEF shmat_fails, Goto, kernel, Shape, CallsAgree
<1>3. SemsAgree'
  <2>1. /\ \A q \in Procs : Holds(q)' <=> Holds(q)
        /\ \A q \in Procs : Holds(q) => semid'[q] = semid[q]
    BY DEF shmat_fails, Goto, kernel, Shape, CallsAgree, Holds
  <2>2. UNCHANGED <<semval, semadj, set, removed>>
    BY DEF shmat_fails, kernel
  <2> QED BY <2>1, <2>2, SemsUntouched
<1>4. KeysAgree'
  BY DEF shmat_fails, Goto, kernel, Shape, CallsAgree, KeysAgree, CreatorAgrees
<1>5. CreatorAgrees'
  BY DEF shmat_fails, Goto, kernel, Shape, CallsAgree, KeysAgree, CreatorAgrees
<1>6. OpensAgree'
  BY DEF shmat_fails, Goto, kernel, Shape, CallsAgree, KeysAgree, CreatorAgrees, OpensAgree
<1>7. OpenedWhole'
  BY DEF shmat_fails, Goto, kernel, Shape, CallsAgree, OpensAgree, OpenedWhole
<1> QED BY <1>1, <1>2, <1>3, <1>4, <1>5, <1>6, <1>7

\* The creator initialises the head.
LEMMA initial_head_keeps ==
  ASSUME LifeInv, NEW p \in Procs, initial_head(p)
  PROVE  LifeInv'
<1> USE CreatorIsProc, NoneIsNoId DEF LifeInv
<1>1. Shape'
  BY DEF initial_head, Goto, kernel, process, Shape, Labels
<1>2. CallsAgree'
  BY DEF initial_head, Goto, kernel, process, Shape, CallsAgree
<1>3. SemsAgree'
  <2>1. /\ \A q \in Procs : Holds(q)' <=> Holds(q)
        /\ \A q \in Procs : Holds(q) => semid'[q] = semid[q]
    BY DEF initial_head, Goto, kernel, process, Shape, CallsAgree, Holds
  <2>2. UNCHANGED <<semval, semadj, set, removed>>
    BY DEF initial_head, kernel
  <2> QED BY <2>1, <2>2, SemsUntouched
<1>4. KeysAgree'
  BY DEF initial_head, Goto, kernel, process, Shape, CallsAgree, KeysAgree, CreatorAgrees
<1>5. CreatorAgrees'
  BY DEF initial_head, Goto, kernel, process, Shape, CallsAgree, KeysAgree, CreatorAgrees
<1>6. OpensAgree'
  BY DEF initial_head, Goto, kernel, process, Shape, CallsAgree, KeysAgree, CreatorAgrees,
       OpensAgree
<1>7. OpenedWhole'
  BY DEF initial_head, Goto, kernel, process, Shape, CallsAgree, OpensAgree, OpenedWhole
<1> QED BY <1>1, <1>2, <1>3, <1>4, <1>5, <1>6, <1>7

\* An open gives up.
LEMMA open_error_keeps ==
  ASSUME LifeInv, NEW p \in Procs, open_error(p)
  PROVE  LifeInv'
<1> USE CreatorIsProc, NoneIsNoId DEF LifeInv
<1>1. Shape'
  BY DEF open_error, Goto, kernel, process, Shape, Labels
<1>2. CallsAgree'
  BY DEF open_error, Goto, kernel, process, Shape, CallsAgree
<1>3. SemsAgree'
  <2>1. /\ \A q \in Procs : Holds(q)' <=> Holds(q)
        /\ \A q \in Procs : Holds(q) => semid'[q] = semid[q]
    BY DEF open_error, Goto, kernel, process, Shape, CallsAgree, Holds
  <2>2. UNCHANGED <<semval, semadj, set, removed>>
    BY DEF open_error, kernel
  <2> QED BY <2>1, <2>2, SemsUntouched
<1>4. KeysAgree'
  BY DEF open_error, Goto, kernel, process, Shape, CallsAgree, KeysAgree, CreatorAgrees
<1>5. CreatorAgrees'
  BY DEF open_error, Goto, kernel, process, Shape, CallsAgree, KeysAgree, CreatorAgrees
<1>6. OpensAgree'
  BY DEF open_error, Goto, kernel, process, Shape, CallsAgree, KeysAgree, CreatorAgrees,
       OpensAgree
<1>7. OpenedWhole'
  BY DEF open_error, Goto, kernel, process, Shape, CallsAgree, OpensAgree, OpenedWhole
<1> QED BY <1>1, <1>2, <1>3, <1>4, <1>5, <1>6, <1>7

\* IPC_RMID of the segment.
LEMMA shmctl_rmid_keeps ==
  ASSUME LifeInv, NEW p \in Procs, shmctl_rmid(p)
  PROVE  LifeInv'
<1> USE CreatorIsProc, NoneIsNoId DEF LifeInv
<1>1. Shape'
  BY DEF shmctl_rmid, Goto, AfterRmid, Shape, Labels
<1>2. CallsAgree'
  BY DEF shmctl_rmid, Goto, AfterRmid, Shape, CallsAgree
<1>3. SemsAgree'
  <2>1. /\ \A q \in Procs : Holds(q)' <=> Holds(q)
        /\ \A q \in Procs : Holds(q) => semid'[q] = semid[q]
    BY DEF shmctl_rmid, Goto, AfterRmid, Shape, CallsAgree, Holds
  <2>2. UNCHANGED <<semval, semadj, set, removed>>
    BY DEF shmctl_rmid, kernel
  <2> QED BY <2>1, <2>2, SemsUntouched
<1>4. KeysAgree'
  BY DEF shmctl_rmid, Goto, AfterRmid, Shape, CallsAgree, KeysAgree, CreatorAgrees
<1>5. CreatorAgrees'
  BY DEF shmctl_rmid, Goto, AfterRmid, Shape, CallsAgree, KeysAgree, CreatorAgrees
<1>6. OpensAgree'
  BY DEF shmctl_rmid, Goto, AfterRmid, Shape, CallsAgree, KeysAgree, CreatorAgrees, OpensAgree
<1>7. OpenedWhole'
  BY DEF shmctl_rmid, Goto, AfterRmid, Shape, CallsAgree, OpensAgree, OpenedWhole
<1> QED BY <1>1, <1>2, <1>3, <1>4, <1>5, <1>6, <1>7

\* IPC_RMID of the semaphore: its holder, if any, does not know.
LEMMA del_semvalue_keeps ==
  ASSUME LifeInv, NEW p \in Procs, del_semvalue(p)
  PROVE  LifeInv'
<1> USE CreatorIsProc, NoneIsNoId DEF LifeInv
<1>1. Shape'
  BY DEF del_semvalue, Return, Goto, Shape, Labels
<1>2. CallsAgree'
  BY DEF del_semvalue, Return, Goto, Shape, CallsAgree
<1>3. SemsAgree'
  <2> DEFINE s == semid[p]
  <2>1. \A q \in Procs : Holds(q)' <=> Holds(q)
    BY DEF del_semvalue, Return, Goto, Shape, Holds
  <2>2. pc[p] = "del" /\ ~Holds(p)
    BY DEF del_semvalue, Holds
  <2>3. \A q \in Procs : q # p => semid'[q] = semid[q]
    BY DEF del_semvalue, Shape
  <2>4. /\ \A z \in Sems : semval'[z] = IF z = s THEN 0 ELSE semval[z]
        /\ \A q \in Procs, z \in Sems : semadj'[q][z] = IF z = s THEN 0 ELSE semadj[q][z]
        /\ set' = set /\ \A z \in Sems : z \in removed' <=> z \in removed \/ z = s
    BY DEF del_semvalue
  <2>5. \A q, r \in Procs : Holds(q)' /\ Holds(r)' /\ semid'[q] = semid'[r] => q = r
    BY <2>1, <2>2, <2>3 DEF SemsAgree
  <2>6. \A q \in Procs : Holds(q)' => semid'[q] \in set'
    BY <2>1, <2>2, <2>3, <2>4 DEF SemsAgree
  <2>7. \A q \in Procs, z \in Sems : Holds(q)' /\ semid'[q] = z <=> Holds(q) /\ semid[q] = z
    BY <2>1, <2>2, <2>3
  <2> HIDE DEF s, Holds
  <2> QED BY <2>4, <2>5, <2>6, <2>7 DEF SemsAgree
<1>4. KeysAgree'
  BY DEF del_semvalue, Return, Goto, Shape, CallsAgree, KeysAgree, CreatorAgrees
<1>5. CreatorAgrees'
  BY DEF del_semvalue, Return, Goto, Shape, CallsAgree, KeysAgree, CreatorAgrees
<1>6. OpensAgree'
  BY DEF del_semvalue, Return, Goto, Shape, CallsAgree, KeysAgree, CreatorAgrees, OpensAgree
<1>7. OpenedWhole'
  BY DEF del_semvalue, Return, Goto, Shape, CallsAgree, OpensAgree, OpenedWhole
<1> QED BY <1>1, <1>2, <1>3, <1>4, <1>5, <1>6, <1>7

\* shmdt.
LEMMA shmmq_close_keeps ==
  ASSUME LifeInv, NEW p \in Procs, shmmq_close(p)
  PROVE  LifeInv'
<1> USE CreatorIsProc, NoneIsNoId DEF LifeInv
<1>1. Shape'
  <2>1. pc' \in [Procs -> Labels] /\ op' \in [Procs -> {"none", "open", "use", "close"}]
    BY DEF shmmq_close, Goto, Shape, Labels
  <2>2. base' \in [Procs -> segs \cup {None}]
    BY DEF shmmq_close, Shape
  <2> QED BY <2>1, <2>2 DEF shmmq_close, Shape
<1>2. CallsAgree'
  BY DEF shmmq_close, Goto, Shape, CallsAgree
<1>3. SemsAgree'
  <2>1. /\ \A q \in Procs : Holds(q)' <=> Holds(q)
        /\ \A q \in Procs : Holds(q) => semid'[q] = semid[q]
    BY DEF shmmq_close, Goto, Shape, CallsAgree, Holds
  <2>2. UNCHANGED <<semval, semadj, set, removed>>
    BY DEF shmmq_close, kernel
  <2> QED BY <2>1, <2>2, SemsUntouched
<1>4. KeysAgree'
  BY DEF shmmq_close, Goto, Shape, CallsAgree, KeysAgree, CreatorAgrees
<1>5. CreatorAgrees'
  BY DEF shmmq_close, Goto, Shape, CallsAgree, KeysAgree, CreatorAgrees
<1>6. OpensAgree'
  BY DEF shmmq_close, Goto, Shape, CallsAgree, KeysAgree, CreatorAgrees, OpensAgree
<1>7. OpenedWhole'
  BY DEF shmmq_close, Goto, Shape, CallsAgree, OpensAgree, OpenedWhole
<1> QED BY <1>1, <1>2, <1>3, <1>4, <1>5, <1>6, <1>7

\* A call on the open queue begins.
LEMMA use_keeps ==
  ASSUME LifeInv, NEW p \in Procs, use(p)
  PROVE  LifeInv'
<1> USE CreatorIsProc, NoneIsNoId DEF LifeInv
<1>1. Shape'
  BY DEF use, Goto, kernel, process, Shape, Labels
<1>2. CallsAgree'
  BY DEF use, Goto, kernel, process, Shape, CallsAgree
<1>3. SemsAgree'
  <2>1. /\ \A q \in Procs : Holds(q)' <=> Holds(q)
        /\ \A q \in Procs : Holds(q) => semid'[q] = semid[q]
    BY DEF use, Goto, kernel, process, Shape, CallsAgree, Holds
  <2>2. UNCHANGED <<semval, semadj, set, removed>>
    BY DEF use, kernel
  <2> QED BY <2>1, <2>2, SemsUntouched
<1>4. KeysAgree'
  BY DEF use, Goto, kernel, process, Shape, CallsAgree, KeysAgree, CreatorAgrees
<1>5. CreatorAgrees'
  BY DEF use, Goto, kernel, process, Shape, CallsAgree, KeysAgree, CreatorAgrees
<1>6. OpensAgree'
  BY DEF use, Goto, kernel, process, Shape, CallsAgree, KeysAgree, CreatorAgrees, OpensAgree
<1>7. OpenedWhole'
  BY DEF use, Goto, kernel, process, Shape, CallsAgree, OpensAgree, OpenedWhole
<1> QED BY <1>1, <1>2, <1>3, <1>4, <1>5, <1>6, <1>7

\* The semaphore was 1, so the process becomes its only holder.
LEMMA semaphore_p_keeps ==
  ASSUME LifeInv, NEW p \in Procs, semaphore_p(p)
  PROVE  LifeInv'
<1> USE CreatorIsProc, NoneIsNoId DEF LifeInv
<1>1. Shape'
  <2>1. semid[p] \in Sems
    BY DEF semaphore_p, Shape, CallsAgree
  <2>2. semval' \in [Sems -> Int] /\ semadj' \in [Procs -> [Sems -> Int]]
    BY <2>1 DEF semaphore_p, Shape
  <2>3. pc' \in [Procs -> Labels]
    BY DEF semaphore_p, Goto, Shape, Labels
  <2> QED BY <2>2, <2>3 DEF semaphore_p, process, Shape
<1>2. CallsAgree'
  BY DEF semaphore_p, Goto, process, Shape, CallsAgree
<1>3. SemsAgree'
  <2> DEFINE s == semid[p]
  <2>1. s \in Sems /\ s \notin removed /\ semval[s] > 0
    BY DEF semaphore_p, Shape, CallsAgree
  <2>2. s \in set /\ semval[s] = 1 /\ \A q \in Procs : ~(Holds(q) /\ semid[q] = s)
    BY <2>1 DEF SemsAgree
  <2>3. Holds(p)' /\ ~Holds(p) /\ \A q \in Procs : q # p => (Holds(q)' <=> Holds(q))
    BY DEF semaphore_p, Goto, Shape, Holds
  <2>4. /\ \A z \in Sems : semval'[z] = IF z = s THEN semval[s] - 1 ELSE semval[z]
        /\ \A q \in Procs, z \in Sems :
             semadj'[q][z] = IF q = p /\ z = s THEN semadj[p][s] + 1 ELSE semadj[q][z]
        /\ UNCHANGED <<set, removed, semid>>
    BY <2>1 DEF semaphore_p, Shape, process
  <2> HIDE DEF s, Holds
  <2>5. \A q, r \in Procs : Holds(q)' /\ Holds(r)' /\ semid'[q] = semid'[r] => q = r
    BY <2>2, <2>3, <2>4 DEF SemsAgree, s
  <2>6. \A q \in Procs : Holds(q)' => semid'[q] \in set'
    BY <2>2, <2>3, <2>4 DEF SemsAgree, s
  <2>7. ASSUME NEW z \in Sems, z # s
        PROVE  \A q \in Procs : Holds(q)' /\ semid'[q] = z <=> Holds(q) /\ semid[q] = z
    BY <2>3, <2>4, <2>7 DEF s
  <2>8. semadj[p][s] = 0
    BY <2>1, <2>2 DEF SemsAgree
  <2>9. \A q \in Procs : semadj'[q][s] = IF Holds(q)' /\ semid'[q] = s THEN 1 ELSE 0
    BY <2>1, <2>2, <2>3, <2>4, <2>8 DEF SemsAgree, s
  <2>10. semval'[s] = 0 /\ Holds(p)' /\ semid'[p] = s
    BY <2>1, <2>2, <2>3, <2>4 DEF s
  <2> QED BY <2>1, <2>2, <2>4, <2>5, <2>6, <2>7, <2>9, <2>10 DEF SemsAgree
<1>4. KeysAgree'
  BY DEF semaphore_p, Goto, process, Shape, CallsAgree, KeysAgree, CreatorAgrees
<1>5. CreatorAgrees'
  BY DEF semaphore_p, Goto, process, Shape, CallsAgree, KeysAgree, CreatorAgrees
<1>6. OpensAgree'
  BY DEF semaphore_p, Goto, process, Shape, CallsAgree, KeysAgree, CreatorAgrees, OpensAgree
<1>7. OpenedWhole'
  BY DEF semaphore_p, Goto, process, Shape, CallsAgree, OpensAgree, OpenedWhole
<1> QED BY <1>1, <1>2, <1>3, <1>4, <1>5, <1>6, <1>7

\* The wait ends with the semaphore.
LEMMA semaphore_p_removed_keeps ==
  ASSUME LifeInv, NEW p \in Procs, semaphore_p_removed(p)
  PROVE  LifeInv'
<1> USE CreatorIsProc, NoneIsNoId DEF LifeInv
<1>1. Shape'
  BY DEF semaphore_p_removed, Return, Goto, kernel, process, Failed, Shape, Labels
<1>2. CallsAgree'
  BY DEF semaphore_p_removed, Return, Goto, kernel, process, Failed, Shape, CallsAgree
<1>3. SemsAgree'
  <2>1. /\ \A q \in Procs : Holds(q)' <=> Holds(q)
        /\ \A q \in Procs : Holds(q) => semid'[q] = semid[q]
    BY DEF semaphore_p_removed, Return, Goto, kernel, process, Failed, Shape, CallsAgree, Holds
  <2>2. UNCHANGED <<semval, semadj, set, removed>>
    BY DEF semaphore_p_removed, kernel
  <2> QED BY <2>1, <2>2, SemsUntouched
<1>4. KeysAgree'
  BY DEF semaphore_p_removed, Return, Goto, kernel, process, Failed, Shape, CallsAgree,
       KeysAgree, CreatorAgrees
<1>5. CreatorAgrees'
  BY DEF semaphore_p_removed, Return, Goto, kernel, process, Failed, Shape, CallsAgree,
       KeysAgree, CreatorAgrees
<1>6. OpensAgree'
  BY DEF semaphore_p_removed, Return, Goto, kernel, process, Failed, Shape, CallsAgree,
       KeysAgree, CreatorAgrees, OpensAgree
<1>7. OpenedWhole'
  BY DEF semaphore_p_removed, Return, Goto, kernel, process, Failed, Shape, CallsAgree,
       OpensAgree, OpenedWhole
<1> QED BY <1>1, <1>2, <1>3, <1>4, <1>5, <1>6, <1>7

\* The wait ends with a signal.
LEMMA semaphore_p_interrupted_keeps ==
  ASSUME LifeInv, NEW p \in Procs, semaphore_p_interrupted(p)
  PROVE  LifeInv'
<1> USE CreatorIsProc, NoneIsNoId DEF LifeInv
<1>1. Shape'
  BY DEF semaphore_p_interrupted, Return, Goto, kernel, process, Failed, Shape, Labels
<1>2. CallsAgree'
  BY DEF semaphore_p_interrupted, Return, Goto, kernel, process, Failed, Shape, CallsAgree
<1>3. SemsAgree'
  <2>1. /\ \A q \in Procs : Holds(q)' <=> Holds(q)
        /\ \A q \in Procs : Holds(q) => semid'[q] = semid[q]
    BY DEF semaphore_p_interrupted, Return, Goto, kernel, process, Failed, Shape, CallsAgree,
         Holds
  <2>2. UNCHANGED <<semval, semadj, set, removed>>
    BY DEF semaphore_p_interrupted, kernel
  <2> QED BY <2>1, <2>2, SemsUntouched
<1>4. KeysAgree'
  BY DEF semaphore_p_interrupted, Return, Goto, kernel, process, Failed, Shape, CallsAgree,
       KeysAgree, CreatorAgrees
<1>5. CreatorAgrees'
  BY DEF semaphore_p_interrupted, Return, Goto, kernel, process, Failed, Shape, CallsAgree,
       KeysAgree, CreatorAgrees
<1>6. OpensAgree'
  BY DEF semaphore_p_interrupted, Return, Goto, kernel, process, Failed, Shape, CallsAgree,
       KeysAgree, CreatorAgrees, OpensAgree
<1>7. OpenedWhole'
  BY DEF semaphore_p_interrupted, Return, Goto, kernel, process, Failed, Shape, CallsAgree,
       OpensAgree, OpenedWhole
<1> QED BY <1>1, <1>2, <1>3, <1>4, <1>5, <1>6, <1>7

\* The critical section ends.
LEMMA leave_keeps ==
  ASSUME LifeInv, NEW p \in Procs, leave(p)
  PROVE  LifeInv'
<1> USE CreatorIsProc, NoneIsNoId DEF LifeInv
<1>1. Shape'
  BY DEF leave, Goto, kernel, process, Shape, Labels
<1>2. CallsAgree'
  BY DEF leave, Goto, kernel, process, Shape, CallsAgree
<1>3. SemsAgree'
  <2>1. /\ \A q \in Procs : Holds(q)' <=> Holds(q)
        /\ \A q \in Procs : Holds(q) => semid'[q] = semid[q]
    BY DEF leave, Goto, kernel, process, Shape, CallsAgree, Holds
  <2>2. UNCHANGED <<semval, semadj, set, removed>>
    BY DEF leave, kernel
  <2> QED BY <2>1, <2>2, SemsUntouched
<1>4. KeysAgree'
  BY DEF leave, Goto, kernel, process, Shape, CallsAgree, KeysAgree, CreatorAgrees
<1>5. CreatorAgrees'
  BY DEF leave, Goto, kernel, process, Shape, CallsAgree, KeysAgree, CreatorAgrees
<1>6. OpensAgree'
  BY DEF leave, Goto, kernel, process, Shape, CallsAgree, KeysAgree, CreatorAgrees, OpensAgree
<1>7. OpenedWhole'
  BY DEF leave, Goto, kernel, process, Shape, CallsAgree, OpensAgree, OpenedWhole
<1> QED BY <1>1, <1>2, <1>3, <1>4, <1>5, <1>6, <1>7

\* Who can still release its semaphore has the semaphore of SEM_KEY: no creator
\* holds it, so none is initialising the segment.
LEMMA semaphore_v_keeps ==
  ASSUME LifeInv, NEW p \in Procs, semaphore_v(p)
  PROVE  LifeInv'
<1> USE CreatorIsProc, NoneIsNoId DEF LifeInv
<1>1. Shape'
  <2>1. semid[p] \in Sems
    BY DEF semaphore_v, Shape, CallsAgree
  <2>2. semval' \in [Sems -> Int] /\ semadj' \in [Procs -> [Sems -> Int]]
    BY <2>1 DEF semaphore_v, Shape
  <2>3. pc' \in [Procs -> Labels] /\ op' \in [Procs -> {"none", "open", "use", "close"}]
    BY DEF semaphore_v, Goto, AfterV, Shape, Labels
  <2> QED BY <2>2, <2>3 DEF semaphore_v, process, Shape
<1>2. CallsAgree'
  BY DEF semaphore_v, Goto, process, AfterV, Failed, Shape, CallsAgree
<1>3. SemsAgree'
  BY DEF semaphore_v, Goto, process, AfterV, Failed, Shape, CallsAgree, SemsAgree, Holds
<1>4. KeysAgree'
  BY DEF semaphore_v, Goto, process, AfterV, Failed, Shape, CallsAgree, KeysAgree, CreatorAgrees
<1>5. CreatorAgrees'
  BY DEF semaphore_v, Goto, process, AfterV, Failed, Shape, CallsAgree, KeysAgree, CreatorAgrees
<1>6. OpensAgree'
  BY DEF semaphore_v, Goto, process, AfterV, Failed, Shape, CallsAgree, KeysAgree,
       CreatorAgrees, OpensAgree
<1>7. OpenedWhole'
  <2>1. \A q \in Procs : q # p => pc'[q] = pc[q] /\ op'[q] = op[q]
    BY DEF semaphore_v, Goto, Shape
  <2>2. /\ UNCHANGED <<base, queue, semid, shmid>>
        /\ pc'[p] \in {"open", "failed", "del"} /\ op'[p] # "use"
        /\ pc'[p] = "open" => pc[p] = "v"
    BY DEF semaphore_v, Goto, AfterV, process, Shape, CallsAgree
  <2>3. ASSUME pc[p] = "v"
        PROVE  base[p] \in Segs /\ queue[base[p]] = semid[p]
    BY <2>3 DEF semaphore_v, Shape, CallsAgree, OpensAgree, OpenedWhole
  <2>4. ASSUME pc[Creator] \in {"shmat", "init"}
        PROVE  p = Creator
    <3>1. Holds(p) /\ Holds(Creator) /\ semid[Creator] = semkey
      BY <2>4 DEF semaphore_v, Holds, CallsAgree, CreatorAgrees
    <3>2. semid[p] = semkey
      BY DEF semaphore_v, Shape, CallsAgree, KeysAgree
    <3> QED BY <3>1, <3>2 DEF SemsAgree
  <2>5. ~(pc'[Creator] \in {"shmat", "init"})
    BY <2>1, <2>2, <2>4
  <2> QED BY <2>1, <2>2, <2>3, <2>5 DEF OpenedWhole
<1> QED BY <1>1, <1>2, <1>3, <1>4, <1>5, <1>6, <1>7

\* The semaphore is gone, and with it the open.
LEMMA semaphore_v_fails_keeps ==
  ASSUME LifeInv, NEW p \in Procs, semaphore_v_fails(p)
  PROVE  LifeInv'
<1> USE CreatorIsProc, NoneIsNoId DEF LifeInv
<1>1. Shape'
  BY DEF semaphore_v_fails, Return, Goto, kernel, process, AfterV, Failed, Shape, Labels
<1>2. CallsAgree'
  BY DEF semaphore_v_fails, Return, Goto, kernel, process, AfterV, Failed, Shape, CallsAgree,
       CreatorAgrees, KeysAgree
<1>3. SemsAgree'
  BY DEF semaphore_v_fails, Return, Goto, kernel, process, AfterV, Failed, Shape, CallsAgree,
       SemsAgree, Holds
<1>4. KeysAgree'
  BY DEF semaphore_v_fails, Return, Goto, kernel, process, AfterV, Failed, Shape, CallsAgree,
       KeysAgree, CreatorAgrees
<1>5. CreatorAgrees'
  BY DEF semaphore_v_fails, Return, Goto, kernel, process, AfterV, Failed, Shape, CallsAgree,
       KeysAgree, CreatorAgrees
<1>6. OpensAgree'
  BY DEF semaphore_v_fails, Return, Goto, kernel, process, AfterV, Failed, Shape, CallsAgree,
       KeysAgree, CreatorAgrees, OpensAgree
<1>7. OpenedWhole'
  BY DEF semaphore_v_fails, Return, Goto, kernel, process, AfterV, Failed, Shape, CallsAgree,
       OpensAgree, OpenedWhole
<1> QED BY <1>1, <1>2, <1>3, <1>4, <1>5, <1>6, <1>7

\* SEM_UNDO gives back exactly what the process held.
LEMMA Die_keeps ==
  ASSUME LifeInv, NEW p \in Procs, Die(p)
  PROVE  LifeInv'
<1> USE CreatorIsProc, NoneIsNoId DEF LifeInv
<1>1. Shape'
  BY DEF Die, Return, Goto, Shape, Labels
<1>2. CallsAgree'
  BY DEF Die, Return, Goto, Shape, CallsAgree
<1>3. SemsAgree'
  <2>1. ~Holds(p)' /\ \A q \in Procs : q # p => (Holds(q)' <=> Holds(q)) /\ semid'[q] = semid[q]
    BY DEF Die, Return, Goto, Shape, Holds
  <2>2. /\ \A z \in Sems : semval'[z] = semval[z] + semadj[p][z]
        /\ \A q \in Procs, z \in Sems : semadj'[q][z] = IF q = p THEN 0 ELSE semadj[q][z]
        /\ UNCHANGED <<set, removed>>
    BY DEF Die, Shape
  <2> HIDE DEF Holds
  <2>3. \A q, r \in Procs : Holds(q)' /\ Holds(r)' /\ semid'[q] = semid'[r] => q = r
    BY <2>1 DEF SemsAgree
  <2>4. \A q \in Procs : Holds(q)' => semid'[q] \in set'
    BY <2>1, <2>2 DEF SemsAgree
  <2>5. ASSUME NEW z \in Sems, z \in set \ removed
        PROVE  /\ \A q \in Procs : semadj'[q][z] = IF Holds(q)' /\ semid'[q] = z THEN 1 ELSE 0
               /\ semval'[z] = 1 <=> ~\E q \in Procs : Holds(q)' /\ semid'[q] = z
               /\ semval'[z] \in {0, 1}
    <3>1. \A q \in Procs : semadj[q][z] = IF Holds(q) /\ semid[q] = z THEN 1 ELSE 0
      BY <2>5 DEF SemsAgree
    <3>2. \A q \in Procs : semadj'[q][z] = IF Holds(q)' /\ semid'[q] = z THEN 1 ELSE 0
      BY <2>1, <2>2, <3>1
    <3>3. CASE Holds(p) /\ semid[p] = z
      <4>1. semval[z] = 0 /\ \A q \in Procs : q # p => ~(Holds(q) /\ semid[q] = z)
        BY <2>5, <3>3 DEF SemsAgree
      <4> QED BY <2>1, <2>2, <3>1, <3>2, <3>3, <4>1
    <3>4. CASE ~(Holds(p) /\ semid[p] = z)
      <4>1. semval'[z] = semval[z]
        BY <2>2, <2>5, <3>1, <3>4 DEF SemsAgree
      <4> QED BY <2>1, <2>5, <3>2, <3>4, <4>1 DEF SemsAgree
    <3> QED BY <3>3, <3>4
  <2>6. ASSUME NEW z \in Sems, z \notin set \ removed
        PROVE  semval'[z] = 0 /\ \A q \in Procs : semadj'[q][z] = 0
    BY <2>2, <2>6 DEF SemsAgree
  <2> QED BY <2>2, <2>3, <2>4, <2>5, <2>6 DEF SemsAgree
<1>4. KeysAgree'
  BY DEF Die, Return, Goto, Shape, CallsAgree, KeysAgree, CreatorAgrees
<1>5. CreatorAgrees'
  BY DEF Die, Return, Goto, Shape, CallsAgree, KeysAgree, CreatorAgrees
<1>6. OpensAgree'
  BY DEF Die, Return, Goto, Shape, CallsAgree, KeysAgree, CreatorAgrees, OpensAgree
<1>7. OpenedWhole'
  BY DEF Die, Return, Goto, Shape, CallsAgree, OpensAgree, OpenedWhole
<1> QED BY <1>1, <1>2, <1>3, <1>4, <1>5, <1>6, <1>7

\* Every step keeps the invariant.
LEMMA LifeStep == LifeInv /\ [Next]_vars => LifeInv'
<1> SUFFICES ASSUME LifeInv, [Next]_vars
             PROVE  LifeInv'
  OBVIOUS
<1>1. CASE Next
  <2>1. PICK p \in Procs :
          \/ shmmq_open(p) \/ get_semvalue_fails(p) \/ shmmq_close(p) \/ use(p)
          \/ semaphore_p(p) \/ semaphore_p_interrupted(p) \/ Step(p) \/ Die(p)
    BY <1>1 DEF Next
  <2>2. CASE Step(p)
    BY <2>2, set_semvalue_keeps, semaphore_p_removed_keeps, shmget_keeps, shmat_keeps,
       shmat_fails_keeps, initial_head_keeps, open_error_keeps, shmctl_rmid_keeps,
       del_semvalue_keeps, leave_keeps, semaphore_v_keeps, semaphore_v_fails_keeps DEF Step
  <2> QED BY <2>1, <2>2, shmmq_open_keeps, get_semvalue_fails_keeps, shmmq_close_keeps, use_keeps,
             semaphore_p_keeps, semaphore_p_interrupted_keeps, Die_keeps
<1>2. CASE UNCHANGED vars
  <2> USE <1>2 DEF LifeInv, vars, kernel, process
  <2>1. Shape' /\ CallsAgree' /\ KeysAgree' /\ CreatorAgrees' /\ OpensAgree' /\ OpenedWhole'
    BY DEF Shape, CallsAgree, KeysAgree, CreatorAgrees, OpensAgree, OpenedWhole
  <2>2. SemsAgree'
    BY SemsUntouched DEF Holds
  <2> QED BY <2>1, <2>2
<1> QED BY <1>1, <1>2

\* The inductive invariant of the queue's life.
THEOREM LifeInvariance == FairSpec => []LifeInv
<1> QED BY LifeInit, LifeStep, PTL DEF FairSpec

\* No two processes are in one segment together: each has the semaphore that
\* guards it, and that has one holder (semaphore_p, set_semvalue, del_semvalue).
THEOREM ExclusiveAlways == FairSpec => []Exclusive
<1>1. LifeInv => Exclusive
  <2> SUFFICES ASSUME LifeInv, NEW p \in Procs, NEW q \in Procs,
                      InSegment(p), InSegment(q), base[p] = base[q]
               PROVE  p = q
    BY DEF Exclusive
  <2>1. ASSUME NEW r \in Procs, InSegment(r)
        PROVE  Holds(r) /\ queue[base[r]] = semid[r]
    <3>1. CASE pc[r] = "inside"
      BY <3>1 DEF LifeInv, Holds, CallsAgree, OpenedWhole
    <3>2. CASE pc[r] = "init"
      BY <3>2 DEF LifeInv, Holds, CallsAgree, CreatorAgrees, KeysAgree, OpensAgree
    <3> QED BY <2>1, <3>1, <3>2 DEF InSegment
  <2> QED BY <2>1 DEF LifeInv, SemsAgree
<1> QED BY <1>1, LifeInvariance, PTL

\* A successful shmmq_open has the semaphore that guards its segment, and no
\* creator initialises that segment under it.
THEOREM OpenedWholeAlways == FairSpec => []OpenedWhole
<1>1. LifeInv => OpenedWhole
  BY DEF LifeInv
<1> QED BY <1>1, LifeInvariance, PTL
=============================================================================
