---------------------------- MODULE AeTimeProofs ----------------------------
(***************************************************************************)
(* Proofs about AeTimeEvents, for every number of timers, every delay,     *)
(* every clock and every length of a second.                               *)
(***************************************************************************)
EXTENDS AeTimeEvents, SequenceTheorems, WellFoundedInduction, TLAPS

-----------------------------------------------------------------------------
(* Least elements and sequences.                                           *)

\* Every non-empty set of naturals has a least element: < is well founded on
\* the naturals.  (With the set of the numbers that lack a property, this is
\* induction.)
LEMMA LeastNatural ==
  ASSUME NEW S, S \subseteq Nat, S # {}
  PROVE  \E x \in S : \A y \in S : x <= y
<1>1. \A x, y \in Nat : y < x => <<y, x>> \in OpToRel(<, Nat)
  BY DEF OpToRel
<1>2. PICK x \in S : \A y \in S : ~(<<y, x>> \in OpToRel(<, Nat))
  BY NatLessThanWellFounded, WFMin
<1>3. \A y \in S : ~(y < x)
  BY <1>1, <1>2, Zenon
<1> QED BY <1>3

\* What RemoveAt leaves.
LEMMA RemoveAtIs ==
  ASSUME NEW S, NEW s \in Seq(S), NEW k \in 1 .. Len(s)
  PROVE  /\ RemoveAt(s, k) \in Seq(S)
         /\ Len(RemoveAt(s, k)) = Len(s) - 1
         /\ \A i \in 1 .. Len(s) - 1 : RemoveAt(s, k)[i] = IF i < k THEN s[i] ELSE s[i + 1]
<1> DEFINE a == SubSeq(s, 1, k - 1)
           b == SubSeq(s, k + 1, Len(s))
<1>1. a \in Seq(S) /\ Len(a) = k - 1 /\ \A i \in 1 .. k - 1 : a[i] = s[i]
  OBVIOUS
<1>2. b \in Seq(S) /\ Len(b) = Len(s) - k /\ \A i \in 1 .. Len(s) - k : b[i] = s[i + k]
  OBVIOUS
<1>3. RemoveAt(s, k) = a \o b
  BY DEF RemoveAt
<1> HIDE DEF a, b
<1>4. a \o b \in Seq(S)
  BY <1>1, <1>2, ConcatProperties
<1>5. Len(a \o b) = Len(a) + Len(b)
  BY <1>1, <1>2, ConcatProperties
<1>6. \A i \in 1 .. Len(s) - 1 : (a \o b)[i] = IF i < k THEN s[i] ELSE s[i + 1]
  BY <1>1, <1>2
<1> QED BY <1>1, <1>2, <1>3, <1>4, <1>5, <1>6

\* What ReplaceAt leaves.
LEMMA ReplaceAtIs ==
  ASSUME NEW S, NEW s \in Seq(S), NEW k \in 1 .. Len(s), NEW e \in S
  PROVE  /\ ReplaceAt(s, k, e) \in Seq(S)
         /\ Len(ReplaceAt(s, k, e)) = Len(s)
         /\ \A i \in 1 .. Len(s) : ReplaceAt(s, k, e)[i] = IF i = k THEN e ELSE s[i]
  BY DEF ReplaceAt

Timers == [id : Nat, when_sec : Nat, when_ms : 0 .. SecMs - 1, due : Nat]

-----------------------------------------------------------------------------
(* Arithmetic.                                                             *)

\* Quotient and remainder.
LEMMA Division ==
  ASSUME NEW n \in Nat \ {0}, NEW x \in Nat
  PROVE  /\ x \div n \in Nat /\ x % n \in 0 .. n - 1
         /\ x = (x \div n) * n + (x % n)
  OBVIOUS

\* Seconds count for more than milliseconds.
LEMMA SecondsFirst ==
  ASSUME NEW n \in Nat \ {0}, NEW s1 \in Int, NEW s2 \in Int, s1 < s2,
         NEW m1 \in 0 .. n - 1, NEW m2 \in 0 .. n - 1
  PROVE  s1 * n + m1 < s2 * n + m2
<1>1. PICK k \in Nat : s2 = s1 + 1 + k
  <2>1. s2 - s1 - 1 \in Nat /\ s2 = s1 + 1 + (s2 - s1 - 1)
    OBVIOUS
  <2> QED BY <2>1
<1>2. s2 * n = s1 * n + n + k * n /\ k * n \in Nat
  BY <1>1
<1>3. s1 * n \in Int /\ s2 * n \in Int
  OBVIOUS
<1> QED BY <1>2, <1>3

\* aeAddMillisecondsToNow carries into the seconds as it should.
LEMMA AddIsExact ==
  ASSUME now \in Nat, NEW id \in Nat, NEW d \in Nat
  PROVE  LET t == AddMilliseconds(id, d)
         IN  /\ t \in Timers
             /\ t.id = id
             /\ t.when_sec * SecMs + t.when_ms = t.due
             /\ t.due = now + d
<1> DEFINE sec == NowSec + (d \div SecMs)
           ms == NowMs + (d % SecMs)
<1>1. /\ NowSec \in Nat /\ NowMs \in 0 .. SecMs - 1 /\ now = NowSec * SecMs + NowMs
      /\ d \div SecMs \in Nat /\ d % SecMs \in 0 .. SecMs - 1
      /\ d = (d \div SecMs) * SecMs + (d % SecMs)
  BY SecMsAssumption, Division DEF NowSec, NowMs
<1>2. /\ sec \in Nat /\ ms \in 0 .. 2 * SecMs - 2
      /\ sec * SecMs = NowSec * SecMs + (d \div SecMs) * SecMs
      /\ NowSec * SecMs \in Nat /\ (d \div SecMs) * SecMs \in Nat
  BY <1>1, SecMsAssumption
<1>3. sec * SecMs + ms = now + d
  BY <1>1, <1>2, SecMsAssumption
<1>4. sec \in Nat /\ ms \in 0 .. 2 * SecMs - 2
  BY <1>2
<1>5. AddMilliseconds(id, d) = IF ms >= SecMs THEN Timer(id, sec + 1, ms - SecMs, now + d)
                                              ELSE Timer(id, sec, ms, now + d)
  BY DEF AddMilliseconds
<1> HIDE DEF sec, ms
<1>6. CASE ms >= SecMs
  <2>1. (sec + 1) * SecMs = sec * SecMs + SecMs /\ sec * SecMs \in Nat
    BY <1>4, SecMsAssumption
  <2>2. ms - SecMs \in 0 .. SecMs - 1 /\ sec + 1 \in Nat /\ now + d \in Nat
    BY <1>4, <1>6, SecMsAssumption
  <2>3. (sec + 1) * SecMs + (ms - SecMs) = now + d
    BY <1>3, <1>4, <2>1, SecMsAssumption
  <2> QED BY <1>5, <1>6, <2>2, <2>3 DEF Timer, Timers
<1>7. CASE ~(ms >= SecMs)
  <2>1. ms \in 0 .. SecMs - 1 /\ now + d \in Nat
    BY <1>4, <1>7, SecMsAssumption
  <2> QED BY <1>3, <1>4, <1>5, <1>7, <2>1 DEF Timer, Timers
<1> QED BY <1>6, <1>7

-----------------------------------------------------------------------------
(* The list.                                                               *)

\* Position finds a timer that is in the list.
LEMMA PositionFinds ==
  ASSUME NEW list \in Seq(Timers), NEW id \in Ids(list)
  PROVE  Position(list, id) \in 1 .. Len(list) /\ list[Position(list, id)].id = id
<1>1. \E i \in DOMAIN list : list[i].id = id
  BY DEF Ids
<1>2. Position(list, id) \in DOMAIN list /\ list[Position(list, id)].id = id
  BY <1>1 DEF Position
<1> QED BY <1>2
\* A timer's seconds and milliseconds are the instant that was asked for.
Exact(t) == t.when_sec * SecMs + t.when_ms = t.due

\* A list without repetitions, of exact timers with identifiers below n.
Sound(list, n) ==
  /\ list \in Seq(Timers)
  /\ \A i, j \in 1 .. Len(list) : list[i].id = list[j].id => i = j
  /\ \A i \in 1 .. Len(list) : list[i].id < n /\ Exact(list[i])

\* The identifiers are those of the timers from the first to the last.
LEMMA IdsAre ==
  ASSUME NEW list \in Seq(Timers)
  PROVE  /\ DOMAIN list = 1 .. Len(list)
         /\ Ids(list) = {list[i].id : i \in 1 .. Len(list)}
  BY DEF Ids

\* A new timer at the head.
LEMMA CreateSound ==
  ASSUME NEW n \in Nat, NEW list, Sound(list, n), NEW t \in Timers, t.id = n, Exact(t)
  PROVE  /\ Sound(<<t>> \o list, n + 1)
         /\ Ids(list) \subseteq Ids(<<t>> \o list)
         /\ \A i \in 1 .. Len(list) : \E j \in 1 .. Len(<<t>> \o list) : (<<t>> \o list)[j] = list[i]
<1> DEFINE new == <<t>> \o list
<1>1. list \in Seq(Timers) /\ Len(list) \in Nat
  BY DEF Sound
<1>2. <<t>> \in Seq(Timers) /\ Len(<<t>>) = 1 /\ <<t>>[1] = t
  OBVIOUS
<1>3. /\ new \in Seq(Timers) /\ Len(new) = 1 + Len(list)
      /\ \A i \in 1 .. 1 + Len(list) : new[i] = IF i <= 1 THEN <<t>>[i] ELSE list[i - 1]
  BY <1>1, <1>2, ConcatProperties
<1> HIDE DEF new
<1>4. /\ new[1] = t
      /\ \A i \in 2 .. Len(new) : i - 1 \in 1 .. Len(list) /\ new[i] = list[i - 1]
  <2>1. new[1] = t
    BY <1>1, <1>2, <1>3
  <2>2. ASSUME NEW i \in 2 .. Len(new)
        PROVE  i - 1 \in 1 .. Len(list) /\ new[i] = list[i - 1]
    <3>1. i \in 1 .. 1 + Len(list) /\ ~(i <= 1) /\ i - 1 \in 1 .. Len(list)
      BY <1>1, <1>3
    <3> QED BY <1>3, <3>1
  <2> QED BY <2>1, <2>2
<1>5. \A i \in 1 .. Len(list) : list[i].id < n /\ list[i].id \in Nat /\ Exact(list[i])
  <2>1. \A i \in 1 .. Len(list) : list[i] \in Timers
    BY <1>1
  <2>2. \A u \in Timers : u.id \in Nat
    BY DEF Timers
  <2> QED BY <2>1, <2>2 DEF Sound
<1>6. \A i \in 1 .. Len(new) : i = 1 \/ i \in 2 .. Len(new)
  BY <1>1, <1>3
<1>7. \A i \in 1 .. Len(new) : new[i].id < n + 1 /\ Exact(new[i])
  <2> TAKE i \in 1 .. Len(new)
  <2>1. CASE i = 1
    BY <1>4, <2>1
  <2>2. CASE i \in 2 .. Len(new)
    BY <1>4, <1>5, <2>2
  <2> QED BY <1>6, <2>1, <2>2
<1>8. ASSUME NEW i \in 1 .. Len(new), NEW j \in 1 .. Len(new), new[i].id = new[j].id
      PROVE  i = j
  <2>1. CASE i = 1 /\ j = 1
    BY <2>1
  <2>2. CASE i = 1 /\ j \in 2 .. Len(new)
    BY <1>4, <1>5, <1>8, <2>2
  <2>3. CASE i \in 2 .. Len(new) /\ j = 1
    BY <1>4, <1>5, <1>8, <2>3
  <2>4. CASE i \in 2 .. Len(new) /\ j \in 2 .. Len(new)
    <3>1. i - 1 = j - 1
      BY <1>4, <1>8, <2>4 DEF Sound
    <3> QED BY <2>4, <3>1
  <2> QED BY <1>6, <2>1, <2>2, <2>3, <2>4
<1>9. Ids(list) \subseteq Ids(new)
  <2> SUFFICES ASSUME NEW i \in 1 .. Len(list)
               PROVE  list[i].id \in Ids(new)
    BY <1>1, IdsAre
  <2>1. i + 1 \in 1 .. Len(new) /\ i + 1 \in 2 .. Len(new) /\ (i + 1) - 1 = i
    BY <1>1, <1>3
  <2>2. new[i + 1].id = list[i].id
    BY <1>4, <2>1
  <2> QED BY <1>3, <2>1, <2>2, IdsAre
<1>10. \A i \in 1 .. Len(list) : \E j \in 1 .. Len(new) : new[j] = list[i]
  <2> TAKE i \in 1 .. Len(list)
  <2>1. i + 1 \in 1 .. Len(new) /\ i + 1 \in 2 .. Len(new) /\ (i + 1) - 1 = i
    BY <1>1, <1>3
  <2>2. new[i + 1] = list[i]
    BY <1>4, <2>1
  <2> QED BY <2>1, <2>2
<1> QED BY <1>3, <1>7, <1>8, <1>9, <1>10 DEF Sound, new

\* aeDeleteTimeEvent takes out one timer and no other.
LEMMA DeleteSound ==
  ASSUME NEW n \in Nat, NEW list, Sound(list, n), NEW id
  PROVE  /\ Sound(Delete(list, id), n)
         /\ Ids(Delete(list, id)) = Ids(list) \ {id}
         /\ \A i \in 1 .. Len(list) : list[i].id # id =>
              \E j \in 1 .. Len(Delete(list, id)) : Delete(list, id)[j] = list[i]
<1>1. list \in Seq(Timers) /\ Len(list) \in Nat
  BY DEF Sound
<1>2. CASE id \notin Ids(list)
  BY <1>2 DEF Delete
<1>3. CASE id \in Ids(list)
  <2> DEFINE k == Position(list, id)
             new == RemoveAt(list, k)
  <2>1. k \in 1 .. Len(list) /\ list[k].id = id
    BY <1>1, <1>3, PositionFinds
  <2>2. Delete(list, id) = new
    BY <1>3 DEF Delete
  <2> HIDE DEF k
  <2>3. /\ new \in Seq(Timers) /\ Len(new) = Len(list) - 1
        /\ \A i \in 1 .. Len(list) - 1 : new[i] = IF i < k THEN list[i] ELSE list[i + 1]
    BY <1>1, <2>1, RemoveAtIs
  <2> HIDE DEF new
  <2> DEFINE At(i) == IF i < k THEN i ELSE i + 1
  <2>4. \A i \in 1 .. Len(new) : At(i) \in 1 .. Len(list) /\ At(i) # k /\ new[i] = list[At(i)]
    BY <1>1, <2>1, <2>3
  <2>5. \A i, j \in 1 .. Len(new) : At(i) = At(j) => i = j
    BY <1>1, <2>1, <2>3
  <2>6. \A a \in 1 .. Len(list) : a # k => \E i \in 1 .. Len(new) : At(i) = a
    <3> SUFFICES ASSUME NEW a \in 1 .. Len(list), a # k
                 PROVE  \E i \in 1 .. Len(new) : At(i) = a
      OBVIOUS
    <3>1. CASE a < k
      BY <1>1, <2>1, <2>3, <3>1
    <3>2. CASE a > k
      <4>1. a - 1 \in 1 .. Len(new) /\ At(a - 1) = a
        BY <1>1, <2>1, <2>3, <3>2
      <4> QED BY <4>1
    <3> QED BY <1>1, <2>1, <3>1, <3>2
  <2> HIDE DEF At
  <2>7. \A i, j \in 1 .. Len(new) : new[i].id = new[j].id => i = j
    BY <2>4, <2>5 DEF Sound
  <2>8. \A i \in 1 .. Len(new) : new[i].id < n /\ Exact(new[i])
    BY <2>4 DEF Sound
  <2>9. ASSUME NEW x
        PROVE  x \in Ids(new) <=> x \in Ids(list) /\ x # id
    <3>1. ASSUME x \in Ids(new)
          PROVE  x \in Ids(list) /\ x # id
      <4>1. PICK i \in 1 .. Len(new) : x = new[i].id
        BY <2>3, <3>1, IdsAre
      <4>2. x = list[At(i)].id /\ At(i) \in 1 .. Len(list) /\ At(i) # k
        BY <2>4, <4>1
      <4>3. x # id
        BY <2>1, <4>2 DEF Sound
      <4> QED BY <1>1, <4>2, <4>3, IdsAre
    <3>2. ASSUME x \in Ids(list), x # id
          PROVE  x \in Ids(new)
      <4>1. PICK a \in 1 .. Len(list) : x = list[a].id
        BY <1>1, <3>2, IdsAre
      <4>2. PICK i \in 1 .. Len(new) : At(i) = a
        BY <2>1, <2>6, <3>2, <4>1
      <4> QED BY <2>3, <2>4, <4>1, <4>2, IdsAre
    <3> QED BY <3>1, <3>2
  <2>10. \A a \in 1 .. Len(list) : list[a].id # id => \E i \in 1 .. Len(new) : new[i] = list[a]
    BY <2>1, <2>4, <2>6
  <2> QED BY <2>2, <2>3, <2>7, <2>8, <2>9, <2>10 DEF Sound
<1> QED BY <1>2, <1>3

\* A timer that is armed again keeps its place and its identifier.
LEMMA RearmSound ==
  ASSUME NEW n \in Nat, NEW list, Sound(list, n), NEW id \in Ids(list),
         NEW t \in Timers, t.id = id, Exact(t)
  PROVE  /\ Sound(ReplaceAt(list, Position(list, id), t), n)
         /\ Ids(ReplaceAt(list, Position(list, id), t)) = Ids(list)
         /\ First(ReplaceAt(list, Position(list, id), t)) = First(list)
         /\ \A i \in 1 .. Len(list) : list[i].id # id =>
              \E j \in 1 .. Len(ReplaceAt(list, Position(list, id), t)) :
                ReplaceAt(list, Position(list, id), t)[j] = list[i]
<1> DEFINE k == Position(list, id)
           new == ReplaceAt(list, k, t)
<1>1. list \in Seq(Timers) /\ Len(list) \in Nat
  BY DEF Sound
<1>2. k \in 1 .. Len(list) /\ list[k].id = id
  BY <1>1, PositionFinds
<1> HIDE DEF k
<1>3. /\ new \in Seq(Timers) /\ Len(new) = Len(list)
      /\ \A i \in 1 .. Len(list) : new[i] = IF i = k THEN t ELSE list[i]
  BY <1>1, <1>2, ReplaceAtIs
<1> HIDE DEF new
<1>4. \A i \in 1 .. Len(list) : new[i].id = list[i].id
  BY <1>2, <1>3
<1>5. Ids(new) = Ids(list)
  <2>1. Ids(new) = {new[i].id : i \in 1 .. Len(list)} /\ Ids(list) = {list[i].id : i \in 1 .. Len(list)}
    BY <1>1, <1>3, IdsAre
  <2> QED BY <1>4, <2>1
<1>6. Sound(new, n)
  BY <1>3, <1>4 DEF Sound
<1>7. First(new) = First(list)
  <2>1. list # <<>> /\ new # <<>> /\ 1 \in 1 .. Len(list)
    BY <1>1, <1>2, <1>3
  <2> QED BY <1>4, <2>1 DEF First
<1>8. \A i \in 1 .. Len(list) : list[i].id # id => \E j \in 1 .. Len(new) : new[j] = list[i]
  BY <1>2, <1>3
<1> QED BY <1>5, <1>6, <1>7, <1>8 DEF new, k

\* te = timeEventHead and te = te->next stay in the list.
LEMMA WalkStays ==
  ASSUME NEW list \in Seq(Timers)
  PROVE  /\ First(list) = None \/ First(list) \in Ids(list)
         /\ \A id \in Ids(list) :
              Following(list, id) = None \/ Following(list, id) \in Ids(list)
<1>1. First(list) = None \/ First(list) \in Ids(list)
  <2>1. CASE list = <<>>
    BY <2>1 DEF First
  <2>2. CASE list # <<>>
    <3>1. 1 \in 1 .. Len(list)
      BY <2>2
    <3> QED BY <2>2, <3>1, IdsAre DEF First
  <2> QED BY <2>1, <2>2
<1>2. ASSUME NEW id \in Ids(list), Following(list, id) # None
      PROVE  Following(list, id) \in Ids(list)
  <2> DEFINE i == Position(list, id)
  <2>1. i \in 1 .. Len(list)
    BY PositionFinds
  <2>2. i < Len(list) /\ Following(list, id) = list[i + 1].id
    BY <1>2 DEF Following
  <2> HIDE DEF i
  <2>3. i + 1 \in 1 .. Len(list)
    BY <2>1, <2>2
  <2> QED BY <2>2, <2>3, IdsAre
<1> QED BY <1>1, <1>2

\* Timers that are due and stay in the list as they are remain due.
LEMMA DueKept ==
  ASSUME NEW list \in Seq(Timers), NEW new \in Seq(Timers), NEW n, NEW S,
         S \subseteq DueBy(list, n),
         \A i \in 1 .. Len(list) : list[i].id \in S => \E j \in 1 .. Len(new) : new[j] = list[i]
  PROVE  S \subseteq DueBy(new, n)
<1> SUFFICES ASSUME NEW id \in S
             PROVE  id \in DueBy(new, n)
  OBVIOUS
<1>1. PICK i \in 1 .. Len(list) : list[i].id = id /\ list[i].due <= n
  BY DEF DueBy
<1>2. PICK j \in 1 .. Len(new) : new[j] = list[i]
  BY <1>1
<1> QED BY <1>1, <1>2 DEF DueBy

\* The timers in S are at te or after it.
Ahead(list, p, S) ==
  \A i \in 1 .. Len(list) : list[i].id \in S => p # None /\ Position(list, p) <= i

\* The position of a timer is the only one that holds its identifier.
LEMMA PositionIs ==
  ASSUME NEW n \in Nat, NEW list, Sound(list, n), NEW i \in 1 .. Len(list)
  PROVE  Position(list, list[i].id) = i /\ list[i].id \in Nat /\ list[i].id # None
<1>1. list \in Seq(Timers) /\ list[i].id \in Ids(list)
  BY IdsAre DEF Sound
<1>2. /\ Position(list, list[i].id) \in 1 .. Len(list)
      /\ list[Position(list, list[i].id)].id = list[i].id
  BY <1>1, PositionFinds
<1>3. Position(list, list[i].id) = i
  BY <1>2 DEF Sound
<1>4. list[i] \in Timers
  BY <1>1
<1>5. list[i].id \in Nat
  BY <1>4 DEF Timers
<1> QED BY <1>3, <1>5 DEF None

\* From the head every timer is ahead.
LEMMA FirstAhead ==
  ASSUME NEW n \in Nat, NEW list, Sound(list, n), NEW S
  PROVE  Ahead(list, First(list), S)
<1> SUFFICES ASSUME NEW i \in 1 .. Len(list)
             PROVE  First(list) # None /\ Position(list, First(list)) <= i
  BY DEF Ahead
<1>1. list \in Seq(Timers) /\ 1 \in 1 .. Len(list) /\ list # <<>>
  BY DEF Sound
<1>2. First(list) = list[1].id
  BY <1>1 DEF First
<1> QED BY <1>1, <1>2, PositionIs

\* A step to the next timer leaves behind only the one it stood on.
LEMMA FollowingAhead ==
  ASSUME NEW n \in Nat, NEW list, Sound(list, n), NEW S, NEW id \in Ids(list),
         Ahead(list, id, S), id \notin S
  PROVE  Ahead(list, Following(list, id), S)
<1> SUFFICES ASSUME NEW i \in 1 .. Len(list), list[i].id \in S
             PROVE  /\ Following(list, id) # None
                    /\ Position(list, Following(list, id)) <= i
  BY DEF Ahead
<1> DEFINE k == Position(list, id)
<1>1. list \in Seq(Timers) /\ Len(list) \in Nat
  BY DEF Sound
<1>2. k \in 1 .. Len(list) /\ list[k].id = id
  BY <1>1, PositionFinds
<1>3. k <= i
  BY DEF Ahead
<1>4. Following(list, id) = IF k < Len(list) THEN list[k + 1].id ELSE None
  BY DEF Following
<1> HIDE DEF k
<1>5. k # i
  BY <1>2
<1>6. k < Len(list) /\ k + 1 \in 1 .. Len(list) /\ k + 1 <= i
  BY <1>1, <1>2, <1>3, <1>5
<1> QED BY <1>4, <1>6, PositionIs
-----------------------------------------------------------------------------
(* The sleep.                                                              *)

\* Comparing seconds and then milliseconds compares the instants.
LEMMA EarlierIs ==
  ASSUME NEW a \in Timers, NEW b \in Timers, Exact(a), Exact(b)
  PROVE  Earlier(a, b) <=> a.due < b.due
<1>1. /\ a.when_sec \in Int /\ a.when_ms \in 0 .. SecMs - 1
      /\ b.when_sec \in Int /\ b.when_ms \in 0 .. SecMs - 1
      /\ a.due \in Nat /\ b.due \in Nat
  BY DEF Timers
<1>2. /\ a.due = a.when_sec * SecMs + a.when_ms
      /\ b.due = b.when_sec * SecMs + b.when_ms
  BY DEF Exact
<1>3. CASE a.when_sec < b.when_sec
  <2>1. a.due < b.due
    BY <1>1, <1>2, <1>3, SecMsAssumption, SecondsFirst
  <2> QED BY <1>3, <2>1 DEF Earlier
<1>4. CASE b.when_sec < a.when_sec
  <2>1. b.due < a.due
    BY <1>1, <1>2, <1>4, SecMsAssumption, SecondsFirst
  <2> QED BY <1>1, <1>4, <2>1 DEF Earlier
<1>5. CASE a.when_sec = b.when_sec
  <2>1. a.when_sec * SecMs = b.when_sec * SecMs /\ b.when_sec * SecMs \in Int
    BY <1>1, <1>5, SecMsAssumption
  <2>2. a.due < b.due <=> a.when_ms < b.when_ms
    BY <1>1, <1>2, <2>1, SecMsAssumption
  <2> QED BY <1>1, <1>5, <2>2 DEF Earlier
<1> QED BY <1>1, <1>3, <1>4, <1>5

\* A timer fires at the instant it is due and not before.
LEMMA DueIs ==
  ASSUME now \in Nat, NEW t \in Timers, Exact(t)
  PROVE  Due(t) <=> t.due <= now
<1> DEFINE u == Timer(0, NowSec, NowMs, now)
<1>1. NowSec \in Nat /\ NowMs \in 0 .. SecMs - 1 /\ now = NowSec * SecMs + NowMs
  BY SecMsAssumption, Division DEF NowSec, NowMs
<1>2. u \in Timers /\ Exact(u) /\ u.due = now /\ u.when_sec = NowSec /\ u.when_ms = NowMs
  BY <1>1 DEF Timer, Timers, Exact
<1> HIDE DEF u
<1>3. Earlier(u, t) <=> now < t.due
  BY <1>2, EarlierIs
<1>4. t.when_sec \in Nat /\ t.when_ms \in 0 .. SecMs - 1 /\ t.due \in Nat
  BY DEF Timers
<1>5. Due(t) <=> ~Earlier(u, t)
  BY <1>1, <1>2, <1>4, SecMsAssumption DEF Due, Earlier
<1> QED BY <1>3, <1>4, <1>5

\* aeSearchNearestTimer finds a timer that no other precedes.
LEMMA NearestIs ==
  ASSUME NEW n, Sound(timeEvents, n), timeEvents # <<>>
  PROVE  \E k \in 1 .. Len(timeEvents) :
           /\ Nearest = timeEvents[k]
           /\ \A i \in 1 .. Len(timeEvents) : Nearest.due <= timeEvents[i].due
<1> DEFINE D == 1 .. Len(timeEvents)
           dues == {timeEvents[i].due : i \in D}
<1>1. /\ timeEvents \in Seq(Timers) /\ DOMAIN timeEvents = D
      /\ \A i \in D : timeEvents[i] \in Timers /\ Exact(timeEvents[i])
  BY DEF Sound
<1>2. \A t \in Timers : t.due \in Nat
  BY DEF Timers
<1>3. D # {}
  BY <1>1
<1> HIDE DEF D
<1>4. dues \subseteq Nat /\ dues # {}
  BY <1>1, <1>2, <1>3
<1>5. PICK d \in dues : \A e \in dues : d <= e
  BY <1>4, LeastNatural
<1>6. PICK k \in D : \A i \in D : timeEvents[k].due <= timeEvents[i].due
  BY <1>5
<1>7. \A i, j \in D : ~Earlier(timeEvents[i], timeEvents[j]) <=>
                        timeEvents[j].due <= timeEvents[i].due
  BY <1>1, <1>2, EarlierIs
<1>8. ToSet(timeEvents) = {timeEvents[i] : i \in D}
  BY <1>1 DEF ToSet
<1>9. \E t \in ToSet(timeEvents) : \A u \in ToSet(timeEvents) : ~Earlier(u, t)
  BY <1>6, <1>7, <1>8
<1>10. Nearest \in ToSet(timeEvents) /\ \A u \in ToSet(timeEvents) : ~Earlier(u, Nearest)
  BY <1>9 DEF Nearest
<1>11. PICK m \in D : Nearest = timeEvents[m]
  BY <1>8, <1>10
<1>12. \A i \in D : Nearest.due <= timeEvents[i].due
  BY <1>7, <1>8, <1>10, <1>11
<1> QED BY <1>11, <1>12 DEF D

\* The time that is missing for a timer, borrowed and cut off: exact for a timer
\* that is still to come, less than a second for one that is overdue.
LEMMA TimeoutIs ==
  ASSUME now \in Nat, NEW t \in Timers, Exact(t)
  PROVE  /\ TimeoutFor(t) \in Nat
         /\ now <= t.due => now + TimeoutFor(t) = t.due
         /\ t.due < now => TimeoutFor(t) < SecMs
<1> DEFINE b == IF t.when_ms < NowMs THEN 1 ELSE 0
           sec == t.when_sec - NowSec - b
           ms == t.when_ms - NowMs + b * SecMs
<1>1. /\ t.when_sec \in Nat /\ t.when_ms \in 0 .. SecMs - 1 /\ t.due \in Nat
      /\ t.when_sec * SecMs + t.when_ms = t.due
  BY DEF Timers, Exact
<1>2. NowSec \in Nat /\ NowMs \in 0 .. SecMs - 1 /\ now = NowSec * SecMs + NowMs
  BY SecMsAssumption, Division DEF NowSec, NowMs
<1>3. sec \in Int /\ ms \in 0 .. SecMs - 1
  BY <1>1, <1>2, SecMsAssumption
<1>4. sec * SecMs + ms = t.due - now
  <2>1. sec * SecMs = t.when_sec * SecMs - NowSec * SecMs - b * SecMs
    BY <1>1, <1>2, SecMsAssumption
  <2>2. t.when_sec * SecMs \in Int /\ NowSec * SecMs \in Int /\ b * SecMs \in Int
    BY <1>1, <1>2, SecMsAssumption
  <2> QED BY <1>1, <1>2, <2>1, <2>2, SecMsAssumption
<1>5. TimeoutFor(t) = (IF sec < 0 THEN 0 ELSE sec) * SecMs + ms
  BY <1>1, <1>2, SecMsAssumption DEF TimeoutFor
<1> HIDE DEF b, sec, ms
<1>6. CASE sec < 0
  <2>1. sec * SecMs + ms < 0 * SecMs + 0
    BY <1>3, <1>6, SecMsAssumption, SecondsFirst
  <2>2. t.due < now
    BY <1>1, <1>4, <2>1, SecMsAssumption
  <2>3. TimeoutFor(t) = ms
    BY <1>3, <1>5, <1>6, SecMsAssumption
  <2>4. ms \in Nat /\ ms < SecMs /\ ~(now <= t.due)
    BY <1>1, <1>3, <2>2, SecMsAssumption
  <2> QED BY <2>3, <2>4
<1>7. CASE ~(sec < 0)
  <2>1. sec * SecMs \in Nat
    BY <1>3, <1>7, SecMsAssumption
  <2>2. TimeoutFor(t) = sec * SecMs + ms
    BY <1>5, <1>7
  <2>3. TimeoutFor(t) = t.due - now /\ TimeoutFor(t) \in Nat
    BY <1>1, <1>3, <1>4, <2>1, <2>2, SecMsAssumption
  <2> QED BY <1>1, <2>3, SecMsAssumption
<1> QED BY <1>6, <1>7

-----------------------------------------------------------------------------
(* The scan.                                                               *)

\* What the steps preserve together: the list is sound, te is in it while the
\* scan reads it, and the timers owed are due, old enough and still ahead of te.
ScanInv ==
  /\ now \in Nat /\ nextId \in Nat
  /\ Sound(timeEvents, nextId)
  /\ pc = "scan" /\ te # None => te \in Ids(timeEvents)
  /\ owed \subseteq DueBy(timeEvents, now)
  /\ \A id \in owed : id <= maxId
  /\ pc \notin {"scan", "timeProc"} => owed = {}
  /\ pc \in {"scan", "timeProc"} => maxId \in Int
  /\ pc = "timeProc" => te \notin owed
  /\ pc = "scan" => Ahead(timeEvents, te, owed)
  /\ SleepBounded

\* The list is empty at first.
LEMMA ScanInit == Init => ScanInv
  BY DEF Init, ScanInv, Sound, SleepBounded, Ahead

\* A step that leaves the list, the clock and the poll alone.
LEMMA SleepUntouched ==
  ASSUME SleepBounded, pc' # "poll" \/ UNCHANGED <<pc, timeEvents, now, timeout>>
  PROVE  SleepBounded'
  BY DEF SleepBounded

\* Every step of timeProcs, the scan, the poll and the clock keeps the invariant.
LEMMA ScanStep == ScanInv /\ [Next]_vars => ScanInv'
<1> SUFFICES ASSUME ScanInv, [Next]_vars
             PROVE  ScanInv'
  OBVIOUS
<1>1. /\ now \in Nat /\ nextId \in Nat /\ Sound(timeEvents, nextId) /\ SleepBounded
      /\ timeEvents \in Seq(Timers)
  BY DEF ScanInv, Sound
<1>2. \A id \in Ids(timeEvents) : id \in Nat /\ id < nextId
  <2>1. \A t \in Timers : t.id \in Nat
    BY DEF Timers
  <2>2. \A i \in 1 .. Len(timeEvents) : timeEvents[i].id \in Nat /\ timeEvents[i].id < nextId
    BY <1>1, <2>1 DEF Sound
  <2> QED BY <1>1, <2>2, IdsAre
<1>3. CASE \E d \in Delays : aeCreateTimeEvent(d)
  <2>1. PICK d \in Delays : aeCreateTimeEvent(d)
    BY <1>3
  <2> DEFINE t == AddMilliseconds(nextId, d)
  <2>2. t \in Timers /\ t.id = nextId /\ Exact(t)
    BY <1>1, DelaysAssumption, AddIsExact DEF Exact
  <2>3. timeEvents' = <<t>> \o timeEvents /\ nextId' = nextId + 1
    BY <2>1 DEF aeCreateTimeEvent
  <2> HIDE DEF t
  <2>4. /\ Sound(timeEvents', nextId')
        /\ \A i \in 1 .. Len(timeEvents) :
             \E j \in 1 .. Len(timeEvents') : timeEvents'[j] = timeEvents[i]
    BY <1>1, <2>2, <2>3, CreateSound
  <2>5. pc \notin {"poll", "scan"} /\ UNCHANGED <<now, pc, te, maxId, owed>>
    BY <2>1 DEF aeCreateTimeEvent, InProgram
  <2>6. owed \subseteq DueBy(timeEvents', now)
    BY <1>1, <2>4, DueKept DEF Sound, ScanInv
  <2>7. SleepBounded'
    BY <1>1, <2>5, SleepUntouched
  <2>8. nextId' \in Nat
    BY <1>1, <2>3
  <2> QED BY <1>1, <2>4, <2>5, <2>6, <2>7, <2>8 DEF ScanInv
<1>4. CASE \E id \in 0 .. MaxTimers - 1 : aeDeleteTimeEvent(id)
  <2>1. PICK id \in 0 .. MaxTimers - 1 : aeDeleteTimeEvent(id)
    BY <1>4
  <2>2. /\ Sound(timeEvents', nextId)
        /\ \A i \in 1 .. Len(timeEvents) : timeEvents[i].id # id =>
             \E j \in 1 .. Len(timeEvents') : timeEvents'[j] = timeEvents[i]
    BY <1>1, <2>1, DeleteSound DEF aeDeleteTimeEvent
  <2>3. /\ pc \notin {"poll", "scan"} /\ owed' = owed \ {id}
        /\ UNCHANGED <<now, nextId, pc, te, maxId>>
    BY <2>1 DEF aeDeleteTimeEvent, InProgram
  <2>4. owed' \subseteq DueBy(timeEvents', now)
    BY <1>1, <2>2, <2>3, DueKept DEF Sound, ScanInv
  <2>5. SleepBounded'
    BY <1>1, <2>3, SleepUntouched
  <2> QED BY <1>1, <2>2, <2>3, <2>4, <2>5 DEF ScanInv
<1>5. CASE \E t \in 0 .. MaxNow : Clock(t)
  <2>1. /\ pc # "poll" /\ now' \in Nat /\ owed' = owed \cap DueBy(timeEvents, now')
        /\ UNCHANGED <<timeEvents, nextId, pc, te, maxId>>
    BY <1>5, BoundsAssumption DEF Clock
  <2>2. SleepBounded'
    BY <1>1, <2>1, SleepUntouched
  <2>3. pc = "scan" => Ahead(timeEvents, te, owed')
    BY <2>1 DEF ScanInv, Ahead
  <2> QED BY <1>1, <2>1, <2>2, <2>3 DEF ScanInv
<1>6. CASE \E wait \in BOOLEAN : aeProcessEvents(wait)
  <2>1. PICK wait \in BOOLEAN : aeProcessEvents(wait)
    BY <1>6
  <2>2. pc = "main" /\ pc' = "poll" /\ UNCHANGED <<now, timeEvents, nextId, maxId, owed>>
    BY <2>1 DEF aeProcessEvents
  <2>3. SleepBounded'
    <3>1. CASE timeEvents = <<>>
      BY <2>2, <3>1 DEF SleepBounded
    <3>2. CASE timeEvents # <<>> /\ ~wait
      <4>1. timeout' = 0
        BY <2>1, <3>2 DEF aeProcessEvents
      <4>2. timeout' # Forever /\ timeout' < SecMs
        BY <4>1, SecMsAssumption DEF Forever
      <4> QED BY <4>1, <4>2 DEF SleepBounded
    <3>3. CASE timeEvents # <<>> /\ wait
      <4>1. timeout' = TimeoutFor(Nearest)
        BY <2>1, <3>3 DEF aeProcessEvents
      <4>2. PICK k \in 1 .. Len(timeEvents) :
              /\ Nearest = timeEvents[k]
              /\ \A i \in 1 .. Len(timeEvents) : Nearest.due <= timeEvents[i].due
        BY <1>1, <3>3, NearestIs
      <4>3. Nearest \in Timers /\ Exact(Nearest)
        BY <1>1, <4>2 DEF Sound
      <4>4. /\ TimeoutFor(Nearest) \in Nat
            /\ now <= Nearest.due => now + TimeoutFor(Nearest) = Nearest.due
            /\ Nearest.due < now => TimeoutFor(Nearest) < SecMs
        BY <1>1, <4>3, TimeoutIs
      <4>5. Nearest.due \in Nat /\ DOMAIN timeEvents = 1 .. Len(timeEvents)
        BY <1>1, <4>3 DEF Timers
      <4>6. CASE now <= Nearest.due
        <5>1. \A i \in DOMAIN timeEvents :
                now + timeout' <= timeEvents[i].due /\ ~(timeEvents[i].due < now)
          <6> TAKE i \in DOMAIN timeEvents
          <6>1. timeEvents[i] \in Timers /\ Nearest.due <= timeEvents[i].due
            BY <1>1, <4>2, <4>5
          <6>2. timeEvents[i].due \in Nat
            BY <6>1 DEF Timers
          <6> QED BY <1>1, <4>1, <4>4, <4>5, <4>6, <6>1, <6>2
        <5>2. timeout' # Forever
          BY <4>1, <4>4 DEF Forever
        <5> QED BY <2>2, <5>1, <5>2 DEF SleepBounded
      <4>7. CASE Nearest.due < now
        <5>1. \E i \in DOMAIN timeEvents : ~(now <= timeEvents[i].due)
          BY <1>1, <4>2, <4>5, <4>7
        <5>2. timeout' # Forever /\ timeout' < SecMs
          BY <4>1, <4>4, <4>7 DEF Forever
        <5> QED BY <2>2, <5>1, <5>2 DEF SleepBounded
      <4> QED BY <1>1, <4>5, <4>6, <4>7
    <3> QED BY <3>1, <3>2, <3>3
  <2> QED BY <1>1, <2>2, <2>3 DEF ScanInv
<1>7. CASE \E slept \in 0 .. MaxNow - now : aeApiPoll(slept)
  <2>1. /\ pc = "poll" /\ pc' = "file" /\ now' \in Nat
        /\ UNCHANGED <<timeEvents, nextId, maxId, owed>>
    BY <1>1, <1>7, BoundsAssumption DEF aeApiPoll
  <2>2. SleepBounded'
    BY <1>1, <2>1, SleepUntouched
  <2> QED BY <1>1, <2>1, <2>2 DEF ScanInv
<1>8. CASE processTimeEvents
  <2>1. /\ pc' = "scan" /\ UNCHANGED <<now, timeEvents, nextId>>
        /\ te' = First(timeEvents) /\ maxId' = nextId - 1 /\ owed' = DueBy(timeEvents, now)
    BY <1>8 DEF processTimeEvents
  <2>2. te' = None \/ te' \in Ids(timeEvents)
    BY <1>1, <2>1, WalkStays
  <2>3. \A id \in owed' : id <= maxId'
    <3>1. DueBy(timeEvents, now) \subseteq Ids(timeEvents)
      BY DEF DueBy, Ids
    <3> QED BY <1>1, <1>2, <2>1, <3>1
  <2>4. Ahead(timeEvents, te', owed')
    BY <1>1, <2>1, FirstAhead
  <2>5. SleepBounded'
    BY <1>1, <2>1, SleepUntouched
  <2> QED BY <1>1, <2>1, <2>2, <2>3, <2>4, <2>5 DEF ScanInv
<1>9. CASE scan_skip
  <2>1. /\ pc = "scan" /\ te # None /\ te' = Following(timeEvents, te)
        /\ te > maxId \/ ~Due(timeEvents[Position(timeEvents, te)])
        /\ UNCHANGED <<now, timeEvents, nextId, pc, maxId, owed>>
    BY <1>9 DEF scan_skip
  <2>2. te \in Ids(timeEvents) /\ Ahead(timeEvents, te, owed)
    BY <2>1 DEF ScanInv
  <2>3. te' = None \/ te' \in Ids(timeEvents)
    BY <1>1, <2>1, <2>2, WalkStays
  <2>4. te \notin owed
    <3> SUFFICES ASSUME te \in owed
                 PROVE  FALSE
      OBVIOUS
    <3>1. PICK i \in 1 .. Len(timeEvents) : timeEvents[i].id = te /\ timeEvents[i].due <= now
      BY <1>1 DEF ScanInv, DueBy
    <3>2. Position(timeEvents, te) = i /\ te \in Nat
      BY <1>1, <3>1, PositionIs
    <3>3. Due(timeEvents[i])
      BY <1>1, <3>1, DueIs DEF Sound
    <3>4. te <= maxId
      BY DEF ScanInv
    <3>5. te > maxId
      BY <2>1, <3>2, <3>3
    <3>6. maxId \in Int
      BY <2>1 DEF ScanInv
    <3> QED BY <3>2, <3>4, <3>5, <3>6
  <2>5. Ahead(timeEvents, te', owed)
    BY <1>1, <2>1, <2>2, <2>4, FollowingAhead
  <2>6. SleepBounded'
    BY <1>1, <2>1, SleepUntouched
  <2> QED BY <1>1, <2>1, <2>3, <2>5, <2>6 DEF ScanInv
<1>10. CASE scan_fire
  <2>1. /\ pc = "scan" /\ pc' = "timeProc" /\ owed' = owed \ {te}
        /\ UNCHANGED <<now, timeEvents, nextId, te, maxId>>
    BY <1>10 DEF scan_fire
  <2>2. SleepBounded'
    BY <1>1, <2>1, SleepUntouched
  <2> QED BY <1>1, <2>1, <2>2 DEF ScanInv
<1>11. CASE timeProc_nomore
  <2>1. /\ pc = "timeProc" /\ pc' = "scan" /\ timeEvents' = Delete(timeEvents, te)
        /\ te' = First(timeEvents') /\ UNCHANGED <<now, nextId, maxId, owed>>
    BY <1>11 DEF timeProc_nomore
  <2>2. /\ Sound(timeEvents', nextId)
        /\ \A i \in 1 .. Len(timeEvents) : timeEvents[i].id # te =>
             \E j \in 1 .. Len(timeEvents') : timeEvents'[j] = timeEvents[i]
    BY <1>1, <2>1, DeleteSound
  <2>3. te' = None \/ te' \in Ids(timeEvents')
    BY <2>1, <2>2, WalkStays DEF Sound
  <2>4. owed \subseteq DueBy(timeEvents', now)
    <3>1. te \notin owed /\ owed \subseteq DueBy(timeEvents, now)
      BY <2>1 DEF ScanInv
    <3> QED BY <1>1, <2>2, <3>1, DueKept DEF Sound
  <2>5. Ahead(timeEvents', te', owed)
    BY <1>1, <2>1, <2>2, FirstAhead
  <2>6. SleepBounded'
    BY <1>1, <2>1, SleepUntouched
  <2> QED BY <1>1, <2>1, <2>2, <2>3, <2>4, <2>5, <2>6 DEF ScanInv
<1>12. CASE \E d \in Returns : timeProc_again(d)
  <2>1. PICK d \in Returns : timeProc_again(d)
    BY <1>12
  <2> DEFINE t == AddMilliseconds(te, d)
  <2>2. /\ pc = "timeProc" /\ pc' = "scan" /\ te \in Ids(timeEvents)
        /\ timeEvents' = ReplaceAt(timeEvents, Position(timeEvents, te), t)
        /\ te' = First(timeEvents) /\ UNCHANGED <<now, nextId, maxId, owed>>
    BY <2>1 DEF timeProc_again
  <2>3. t \in Timers /\ t.id = te /\ Exact(t)
    BY <1>1, <1>2, <2>2, DelaysAssumption, AddIsExact DEF Exact
  <2> HIDE DEF t
  <2>4. /\ Sound(timeEvents', nextId) /\ Ids(timeEvents') = Ids(timeEvents)
        /\ First(timeEvents') = First(timeEvents)
        /\ \A i \in 1 .. Len(timeEvents) : timeEvents[i].id # te =>
             \E j \in 1 .. Len(timeEvents') : timeEvents'[j] = timeEvents[i]
    BY <1>1, <2>2, <2>3, RearmSound
  <2>5. te' = None \/ te' \in Ids(timeEvents)
    BY <1>1, <2>2, WalkStays
  <2>6. owed \subseteq DueBy(timeEvents', now)
    <3>1. te \notin owed /\ owed \subseteq DueBy(timeEvents, now)
      BY <2>2 DEF ScanInv
    <3> QED BY <1>1, <2>4, <3>1, DueKept DEF Sound
  <2>7. Ahead(timeEvents', te', owed)
    BY <1>1, <2>2, <2>4, FirstAhead
  <2>8. SleepBounded'
    BY <1>1, <2>2, SleepUntouched
  <2> QED BY <1>1, <2>2, <2>4, <2>5, <2>6, <2>7, <2>8 DEF ScanInv
<1>13. CASE scan_ends
  <2>1. pc' = "main" /\ owed' = {} /\ UNCHANGED <<now, timeEvents, nextId>>
    BY <1>13 DEF scan_ends
  <2>2. SleepBounded'
    BY <1>1, <2>1, SleepUntouched
  <2> QED BY <1>1, <2>1, <2>2 DEF ScanInv
<1>14. CASE UNCHANGED vars
  <2>1. UNCHANGED <<now, timeEvents, nextId, pc, te, maxId, timeout, owed>>
    BY <1>14 DEF vars
  <2>2. SleepBounded'
    BY <1>1, <2>1, SleepUntouched
  <2> QED BY <1>1, <2>1, <2>2 DEF ScanInv
<1> QED BY <1>3, <1>4, <1>5, <1>6, <1>7, <1>8, <1>9, <1>10, <1>11, <1>12, <1>13, <1>14
        DEF Next, Program, Loop

\* The inductive invariant of the timers.
THEOREM ScanInvariance == Spec => []ScanInv
<1> QED BY ScanInit, ScanStep, PTL DEF Spec

\* The list holds no timer twice, and te is never left on a freed timer
\* (processTimeEvents starting over after a callback, aeDeleteTimeEvent).
THEOREM ListIntactAlways == Spec => []ListIntact
<1>1. ScanInv => ListIntact
  <2> SUFFICES ASSUME ScanInv
               PROVE  ListIntact
    OBVIOUS
  <2>1. timeEvents \in Seq(Timers) /\ DOMAIN timeEvents = 1 .. Len(timeEvents)
    BY DEF ScanInv, Sound
  <2>2. \A id \in Ids(timeEvents) : id < nextId
    BY <2>1, IdsAre DEF ScanInv, Sound
  <2> QED BY <2>1, <2>2 DEF ScanInv, Sound, ListIntact
<1> QED BY <1>1, ScanInvariance, PTL

\* A timer's seconds and milliseconds are the instant that was asked for
\* (aeAddMillisecondsToNow).
THEOREM DueExactAlways == Spec => []DueExact
<1>1. ScanInv => DueExact
  <2> SUFFICES ASSUME ScanInv
               PROVE  DueExact
    OBVIOUS
  <2>1. DOMAIN timeEvents = 1 .. Len(timeEvents)
    BY DEF ScanInv, Sound
  <2> QED BY <2>1 DEF ScanInv, Sound, Exact, DueExact
<1> QED BY <1>1, ScanInvariance, PTL

\* A scan that ends has fired every timer that was due when it began and that
\* was neither deleted nor put off by the clock (processTimeEvents).
THEOREM ScanFiresAllAlways == Spec => []ScanFiresAll
<1>1. ScanInv => ScanFiresAll
  <2> SUFFICES ASSUME ScanInv, pc = "scan", te = None, NEW id \in owed
               PROVE  FALSE
    BY DEF ScanFiresAll
  <2>1. timeEvents \in Seq(Timers)
    BY DEF ScanInv, Sound
  <2>2. PICK i \in 1 .. Len(timeEvents) : timeEvents[i].id = id
    BY <2>1 DEF ScanInv, DueBy
  <2> QED BY <2>2 DEF ScanInv, Ahead
<1> QED BY <1>1, ScanInvariance, PTL

\* The loop does not sleep past a timer that is to come, and for less than a
\* second when one is overdue (the computation of tv in aeProcessEvents).
THEOREM SleepBoundedAlways == Spec => []SleepBounded
<1>1. ScanInv => SleepBounded
  BY DEF ScanInv
<1> QED BY <1>1, ScanInvariance, PTL
=============================================================================
