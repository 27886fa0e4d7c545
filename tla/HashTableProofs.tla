-------------------------- MODULE HashTableProofs ---------------------------
(***************************************************************************)
(* List, chains and walks of the hash table, for any set of items, of keys *)
(* and of buckets, any hash function and any limit of apply2.  What an     *)
(* operation does to the links is first shown to be what it does to the    *)
(* sequences the links describe: taking an item out, adding one at either  *)
(* end, turning the list.  The loops over the links are the smallest sets  *)
(* that the links do not lead out of, and these are the sequences' items.  *)
(***************************************************************************)
EXTENDS HashTable, SequenceTheorems, FiniteSetTheorems, TLAPS

\* The links lead from each item of s to the one after it, or before it.
Forward(link, s) == \A j \in DOMAIN s : link[s[j]] = At(s, j + 1)
Backward(link, s) == \A j \in DOMAIN s : link[s[j]] = At(s, j - 1)

\* The items of s from x on.
From(s, x) == {s[j] : j \in {j \in DOMAIN s : \E m \in 1 .. j : s[m] = x}}

\* What the walk has not visited is still ahead of it.
WalkOrder ==
  /\ pc = "loop" => unvisited \subseteq From(order, hi)
  /\ pc = "func" => unvisited \subseteq From(order, nxt)

\* A callback runs only while apply2 may count it.
Counted == n > 0 => i <= n /\ (pc = "func" => i < n)

-----------------------------------------------------------------------------
(* Numbers and sequences.                                                  *)

\* Every non-empty set of naturals has a least element: < is well founded on
\* the naturals.  (With the set of the numbers that lack a property, this is
\* induction.)
LEMMA LeastNatural ==
  ASSUME NEW S, S \subseteq Nat, S # {}
  PROVE  \E x \in S : \A y \in S : x <= y
<1>1. \A x, y \in Nat : y < x => <<y, x>> \in OpToRel(<, Nat)
  BY DEF OpToRel
<1>2. PICK x \in S : \A y \in S : ~(<<y, x>> \in OpToRel(<, Nat))
  BY NatLessThanWellFounded, WFMin
<1>3. \A y \in S : ~(y < x)
  BY <1>1, <1>2, Zenon
<1> QED BY <1>3

\* What RemoveAt leaves.
LEMMA RemoveAtIs ==
  ASSUME NEW S, NEW s \in Seq(S), NEW k \in 1 .. Len(s)
  PROVE  /\ RemoveAt(s, k) \in Seq(S)
         /\ Len(RemoveAt(s, k)) = Len(s) - 1
         /\ \A j \in 1 .. Len(s) - 1 : RemoveAt(s, k)[j] = IF j < k THEN s[j] ELSE s[j + 1]
<1> DEFINE a == SubSeq(s, 1, k - 1)
           b == SubSeq(s, k + 1, Len(s))
<1>1. a \in Seq(S) /\ Len(a) = k - 1 /\ \A j \in 1 .. k - 1 : a[j] = s[j]
  OBVIOUS
<1>2. b \in Seq(S) /\ Len(b) = Len(s) - k /\ \A j \in 1 .. Len(s) - k : b[j] = s[j + k]
  OBVIOUS
<1>3. RemoveAt(s, k) = a \o b
  BY DEF RemoveAt
<1> HIDE DEF a, b
<1>4. a \o b \in Seq(S)
  BY <1>1, <1>2, ConcatProperties
<1>5. Len(a \o b) = Len(a) + Len(b)
  BY <1>1, <1>2, ConcatProperties
<1>6. \A j \in 1 .. Len(s) - 1 : (a \o b)[j] = IF j < k THEN s[j] ELSE s[j + 1]
  BY <1>1, <1>2
<1> QED BY <1>1, <1>2, <1>3, <1>4, <1>5, <1>6

\* At within the sequence and outside of it.
LEMMA AtIs ==
  ASSUME NEW s \in Seq(Items), NEW j \in Int
  PROVE  /\ At(s, j) \in Allocated
         /\ j \in 1 .. Len(s) => At(s, j) = s[j] /\ s[j] \in Items /\ s[j] # Null
         /\ j \notin 1 .. Len(s) => At(s, j) = Null
  BY NullAssumption DEF At, Allocated

-----------------------------------------------------------------------------
(* The loops along links.                                                  *)

\* A loop stays in every set of items that no link leads out of.
LEMMA MetWithin ==
  ASSUME NEW link \in [Items -> Allocated], NEW x \in Allocated, NEW S \in SUBSET Items,
         x # Null => x \in S,
         \A y \in S : link[y] # Null => link[y] \in S
  PROVE  Met(link, x) \subseteq S
<1> DEFINE targets == ({x} \cup Range(link)) \ {Null}
           T == S \cap targets
<1>1. T \in SUBSET targets /\ (x # Null => x \in T)
  OBVIOUS
<1>2. \A y \in T : link[y] # Null => link[y] \in T
  BY DEF Range
<1>3. Met(link, x) \subseteq T
  BY <1>1, <1>2 DEF Met
<1> QED BY <1>3

\* A loop that starts at the first item of s meets the items to which the links
\* lead along s.
LEMMA MetAlong ==
  ASSUME NEW link \in [Items -> Allocated], NEW s \in Seq(Items), NEW m \in 1 .. Len(s),
         \A j \in 1 .. m - 1 : link[s[j]] = s[j + 1]
  PROVE  \A j \in 1 .. m : s[j] \in Met(link, s[1])
<1> DEFINE targets == ({s[1]} \cup Range(link)) \ {Null}
<1>1. ASSUME NEW S \in SUBSET targets, s[1] \in S,
             \A y \in S : link[y] # Null => link[y] \in S
      PROVE  \A j \in 1 .. m : s[j] \in S
  <2> DEFINE Missed == {j \in 1 .. m : s[j] \notin S}
  <2>1. SUFFICES ASSUME Missed # {}
                 PROVE  FALSE
    OBVIOUS
  <2>2. Missed \subseteq Nat
    OBVIOUS
  <2> HIDE DEF Missed
  <2>3. PICK j \in Missed : \A k \in Missed : j <= k
    BY <2>1, <2>2, LeastNatural
  <2>4. j \in 1 .. m /\ s[j] \notin S /\ j # 1
    BY <1>1 DEF Missed
  <2>5. j - 1 \in 1 .. m - 1 /\ j - 1 \in 1 .. m /\ (j - 1) + 1 = j /\ ~(j <= j - 1)
    BY <2>4
  <2>6. s[j - 1] \in S
    BY <2>3, <2>5 DEF Missed
  <2>7. link[s[j - 1]] = s[j]
    BY <2>5
  <2>8. s[j] # Null
    BY <2>4, NullAssumption
  <2> QED BY <1>1, <2>4, <2>6, <2>7, <2>8
<1>2. \A j \in 1 .. m : s[j] \in targets
  <2> TAKE j \in 1 .. m
  <2>1. s[j] \in Items /\ s[j] # Null
    BY NullAssumption
  <2>2. CASE j = 1
    BY <2>1, <2>2
  <2>3. CASE j # 1
    <3>1. j - 1 \in 1 .. m - 1 /\ (j - 1) + 1 = j /\ j - 1 \in 1 .. Len(s)
      BY <2>3
    <3>2. link[s[j - 1]] = s[j] /\ s[j - 1] \in Items
      BY <3>1
    <3> QED BY <2>1, <3>2 DEF Range
  <2> QED BY <2>2, <2>3
<1> QED BY <1>1, <1>2 DEF Met

\* Along links that lead through s a loop meets the items of s.
LEMMA MetIs ==
  ASSUME NEW link \in [Items -> Allocated], NEW s \in Seq(Items), Forward(link, s)
  PROVE  Met(link, At(s, 1)) = Range(s)
<1>1. /\ Range(s) \in SUBSET Items
      /\ \A y \in Range(s) : link[y] # Null => link[y] \in Range(s)
  <2>1. ASSUME NEW j \in DOMAIN s
        PROVE  link[s[j]] # Null => link[s[j]] \in Range(s)
    BY AtIs DEF Forward, At, Range
  <2> QED BY <2>1 DEF Range
<1>2. At(s, 1) \in Allocated /\ (At(s, 1) # Null => At(s, 1) \in Range(s))
  BY AtIs DEF At, Range
<1>3. Met(link, At(s, 1)) \subseteq Range(s)
  BY <1>1, <1>2, MetWithin
<1>4. ASSUME NEW j \in DOMAIN s
      PROVE  s[j] \in Met(link, At(s, 1))
  <2>1. Len(s) \in 1 .. Len(s) /\ j \in 1 .. Len(s) /\ At(s, 1) = s[1]
    BY DEF At
  <2>2. \A k \in 1 .. Len(s) - 1 : link[s[k]] = s[k + 1]
    BY DEF Forward, At
  <2>3. \A k \in 1 .. Len(s) : s[k] \in Met(link, s[1])
    BY <2>1, <2>2, MetAlong
  <2> QED BY <2>1, <2>3
<1> QED BY <1>3, <1>4 DEF Range

\* The chain c is the one of key k, and no key is in it twice.
ChainOf(k, c) ==
  /\ c \in Seq(Items)
  /\ primary_hashtable[BucketOf[k]] = At(c, 1)
  /\ h_next \in [Items -> Allocated]
  /\ Forward(h_next, c)
  /\ \A j, m \in DOMAIN c : KeyOf[c[j]] = KeyOf[c[m]] => j = m

\* hashtable_find finds nothing when no item of the chain has the key.
LEMMA FindNone ==
  ASSUME NEW k \in Keys, NEW c, ChainOf(k, c), \A j \in DOMAIN c : KeyOf[c[j]] # k
  PROVE  hashtable_find(k) = Null
<1> DEFINE onward == [x \in Items |-> IF KeyOf[x] = k THEN Null ELSE h_next[x]]
           first == primary_hashtable[BucketOf[k]]
<1>1. c \in Seq(Items) /\ onward \in [Items -> Allocated] /\ first \in Allocated
  BY AtIs DEF ChainOf, Allocated
<1>2. Range(c) \in SUBSET Items /\ (first # Null => first \in Range(c))
  BY DEF ChainOf, At, Range
<1>3. \A y \in Range(c) : onward[y] # Null => onward[y] \in Range(c)
  <2>1. ASSUME NEW j \in DOMAIN c
        PROVE  h_next[c[j]] # Null => h_next[c[j]] \in Range(c)
    BY DEF ChainOf, Forward, At, Range
  <2> QED BY <1>2, <2>1 DEF Range
<1> HIDE DEF onward, first
<1>4. Met(onward, first) \subseteq Range(c)
  BY <1>1, <1>2, <1>3, MetWithin
<1>5. \A x \in Met(onward, first) : KeyOf[x] # k
  BY <1>4 DEF Range
<1> QED BY <1>5 DEF hashtable_find, onward, first

\* It finds the item of the chain that has the key, and _hashitem_before the one
\* before that.
LEMMA FindOne ==
  ASSUME NEW k \in Keys, NEW c, ChainOf(k, c), NEW m \in DOMAIN c, KeyOf[c[m]] = k
  PROVE  /\ hashtable_find(k) = c[m]
         /\ hashitem_before(k) = At(c, m - 1)
<1> DEFINE onward == [x \in Items |-> IF KeyOf[x] = k THEN Null ELSE h_next[x]]
           first == primary_hashtable[BucketOf[k]]
<1>1. c \in Seq(Items) /\ onward \in [Items -> Allocated]
  BY DEF ChainOf, Allocated
<1>2. DOMAIN c = 1 .. Len(c) /\ Len(c) \in Nat /\ m \in 1 .. Len(c) /\ first = c[1]
  BY <1>1 DEF ChainOf, At
<1>3. \A j \in DOMAIN c : c[j] \in Items /\ c[j] # Null
  BY <1>1, NullAssumption
<1>4. \A j \in DOMAIN c : h_next[c[j]] = At(c, j + 1)
  BY DEF ChainOf, Forward
<1>5. \A j \in 1 .. m - 1 : onward[c[j]] = c[j + 1]
  <2> TAKE j \in 1 .. m - 1
  <2>1. j \in DOMAIN c /\ j + 1 \in DOMAIN c /\ j # m
    BY <1>2
  <2>2. KeyOf[c[j]] # k
    BY <2>1 DEF ChainOf
  <2> QED BY <1>3, <1>4, <2>1, <2>2 DEF At
<1>6. \A y \in Range(c) : onward[y] # Null => onward[y] \in Range(c)
  <2>1. ASSUME NEW j \in DOMAIN c
        PROVE  h_next[c[j]] # Null => h_next[c[j]] \in Range(c)
    BY <1>4 DEF At, Range
  <2> QED BY <1>3, <2>1 DEF Range
<1> HIDE DEF onward
<1>7. c[m] \in Met(onward, c[1])
  <2>1. \A j \in 1 .. m : c[j] \in Met(onward, c[1])
    BY <1>1, <1>2, <1>5, MetAlong
  <2>2. m \in 1 .. m
    BY <1>2
  <2> QED BY <2>1, <2>2
<1>8. Met(onward, c[1]) \subseteq Range(c)
  <2>1. c[1] \in Allocated /\ c[1] \in Range(c) /\ Range(c) \in SUBSET Items
    BY <1>2, <1>3 DEF Range, Allocated
  <2> QED BY <1>1, <1>6, <2>1, MetWithin
<1>9. \A x \in Met(onward, c[1]) : KeyOf[x] = k => x = c[m]
  BY <1>8 DEF Range, ChainOf
<1>10. hashtable_find(k) = c[m]
  <2>1. (CHOOSE x \in Met(onward, c[1]) : KeyOf[x] = k) = c[m]
    BY <1>7, <1>9
  <2>2. \E x \in Met(onward, c[1]) : KeyOf[x] = k
    BY <1>7
  <2> QED BY <1>2, <2>1, <2>2 DEF hashtable_find, onward
<1>11. hashitem_before(k) = At(c, m - 1)
  <2>1. CASE m = 1
    BY <1>2, <1>10, <2>1 DEF hashitem_before, At
  <2>2. CASE m # 1
    <3>1. m - 1 \in DOMAIN c /\ (m - 1) + 1 = m /\ 1 \in DOMAIN c
      BY <1>2, <2>2
    <3>2. c[1] # c[m]
      BY <2>2, <3>1 DEF ChainOf
    <3>3. Met(h_next, c[1]) = Range(c)
      <4>1. h_next \in [Items -> Allocated] /\ Forward(h_next, c) /\ At(c, 1) = c[1]
        BY <3>1 DEF ChainOf, At
      <4> QED BY <1>1, <4>1, MetIs
    <3>4. c[m - 1] \in Range(c) /\ h_next[c[m - 1]] = c[m]
      BY <1>4, <3>1 DEF At, Range
    <3>5. ASSUME NEW x \in Range(c), h_next[x] = c[m]
          PROVE  x = c[m - 1]
      <4>1. PICK j \in DOMAIN c : x = c[j]
        BY DEF Range
      <4>2. At(c, j + 1) = c[m]
        BY <1>4, <3>5, <4>1
      <4>3. j + 1 \in DOMAIN c /\ c[j + 1] = c[m]
        BY <1>3, <4>2 DEF At
      <4>4. j + 1 = m
        BY <4>3 DEF ChainOf
      <4> QED BY <1>2, <4>1, <4>4
    <3>6. (CHOOSE x \in Range(c) : h_next[x] = c[m]) = c[m - 1]
      BY <3>4, <3>5
    <3> QED BY <1>2, <1>10, <3>1, <3>2, <3>3, <3>6 DEF hashitem_before, At
  <2> QED BY <2>1, <2>2
<1> QED BY <1>10, <1>11

-----------------------------------------------------------------------------
(* Taking an item out of a sequence.                                       *)

\* r is s without its item at m.
LeavesOut(s, m, r) ==
  /\ s \in Seq(Items) /\ IsInjective(s) /\ m \in DOMAIN s
  /\ r \in Seq(Items) /\ Len(r) = Len(s) - 1
  /\ \A j \in 1 .. Len(s) - 1 : r[j] = IF j < m THEN s[j] ELSE s[j + 1]

\* The place of an item in a sequence without repetitions.
LEMMA IndexInIs ==
  ASSUME NEW s \in Seq(Items), IsInjective(s), NEW m \in DOMAIN s
  PROVE  IndexIn(s, s[m]) = m
<1>1. \A j \in DOMAIN s : s[j] = s[m] => j = m
  BY DEF IsInjective
<1> QED BY <1>1 DEF IndexIn

\* Without leaves out one item.
LEMMA WithoutLeavesOut ==
  ASSUME NEW s \in Seq(Items), IsInjective(s), NEW m \in DOMAIN s
  PROVE  LeavesOut(s, m, Without(s, s[m]))
<1>1. Without(s, s[m]) = RemoveAt(s, m)
  BY IndexInIs DEF Without
<1>2. m \in 1 .. Len(s)
  OBVIOUS
<1> QED BY <1>1, <1>2, RemoveAtIs DEF LeavesOut

\* What is left has the other items, each once, and the ends that are left.
LEMMA LeavesOutOthers ==
  ASSUME NEW s, NEW m, NEW r, LeavesOut(s, m, r)
  PROVE  /\ Range(r) = Range(s) \ {s[m]}
         /\ IsInjective(r)
         /\ At(r, 1) = IF m = 1 THEN At(s, 2) ELSE At(s, 1)
         /\ At(r, Len(r)) = IF m = Len(s) THEN At(s, Len(s) - 1) ELSE At(s, Len(s))
<1>1. /\ s \in Seq(Items) /\ r \in Seq(Items) /\ Len(s) \in Nat /\ m \in 1 .. Len(s)
      /\ DOMAIN s = 1 .. Len(s) /\ DOMAIN r = 1 .. Len(s) - 1 /\ Len(r) = Len(s) - 1
  BY DEF LeavesOut
<1>2. \A j \in 1 .. Len(s) - 1 : r[j] = IF j < m THEN s[j] ELSE s[j + 1]
  BY DEF LeavesOut
<1>3. \A j, k \in 1 .. Len(s) : s[j] = s[k] => j = k
  BY <1>1 DEF LeavesOut, IsInjective
<1>4. ASSUME NEW j \in 1 .. Len(s) - 1
      PROVE  r[j] \in Range(s) \ {s[m]}
  <2>1. CASE j < m
    <3>1. j \in 1 .. Len(s) /\ j # m
      BY <1>1, <2>1
    <3>2. r[j] = s[j]
      BY <1>2, <2>1
    <3> QED BY <1>1, <1>3, <3>1, <3>2 DEF Range
  <2>2. CASE ~(j < m)
    <3>1. j + 1 \in 1 .. Len(s) /\ j + 1 # m
      BY <1>1, <2>2
    <3>2. r[j] = s[j + 1]
      BY <1>2, <2>2
    <3> QED BY <1>1, <1>3, <3>1, <3>2 DEF Range
  <2> QED BY <2>1, <2>2
<1>5. ASSUME NEW j \in 1 .. Len(s), j # m
      PROVE  s[j] \in Range(r)
  <2>1. CASE j < m
    <3>1. j \in 1 .. Len(s) - 1
      BY <1>1, <2>1
    <3>2. r[j] = s[j]
      BY <1>2, <2>1, <3>1
    <3> QED BY <1>1, <3>1, <3>2 DEF Range
  <2>2. CASE ~(j < m)
    <3>1. j - 1 \in 1 .. Len(s) - 1 /\ ~(j - 1 < m) /\ (j - 1) + 1 = j
      BY <1>1, <1>5, <2>2
    <3>2. r[j - 1] = s[j]
      BY <1>2, <3>1
    <3> QED BY <1>1, <3>1, <3>2 DEF Range
  <2> QED BY <2>1, <2>2
<1>6. Range(r) = Range(s) \ {s[m]}
  BY <1>1, <1>4, <1>5 DEF Range
<1>7. IsInjective(r)
  <2>1. ASSUME NEW j \in 1 .. Len(s) - 1, NEW k \in 1 .. Len(s) - 1, r[j] = r[k]
        PROVE  j = k
    <3>1. j \in 1 .. Len(s) /\ j + 1 \in 1 .. Len(s) /\ k \in 1 .. Len(s) /\ k + 1 \in 1 .. Len(s)
      BY <1>1
    <3>2. CASE j < m /\ k < m
      BY <1>2, <1>3, <2>1, <3>1, <3>2
    <3>3. CASE j < m /\ ~(k < m)
      <4>1. s[j] = s[k + 1]
        BY <1>2, <2>1, <3>3
      <4>2. j = k + 1
        BY <1>3, <3>1, <4>1
      <4> QED BY <1>1, <3>3, <4>2
    <3>4. CASE ~(j < m) /\ k < m
      <4>1. s[j + 1] = s[k]
        BY <1>2, <2>1, <3>4
      <4>2. j + 1 = k
        BY <1>3, <3>1, <4>1
      <4> QED BY <1>1, <3>4, <4>2
    <3>5. CASE ~(j < m) /\ ~(k < m)
      <4>1. s[j + 1] = s[k + 1]
        BY <1>2, <2>1, <3>5
      <4>2. j + 1 = k + 1
        BY <1>3, <3>1, <4>1
      <4> QED BY <4>2
    <3> QED BY <3>2, <3>3, <3>4, <3>5
  <2> QED BY <1>1, <2>1 DEF IsInjective
<1>8. At(r, 1) = IF m = 1 THEN At(s, 2) ELSE At(s, 1)
  BY <1>1, <1>2 DEF At
<1>9. At(r, Len(r)) = IF m = Len(s) THEN At(s, Len(s) - 1) ELSE At(s, Len(s))
  <2>1. CASE Len(s) = 1
    BY <1>1, <2>1 DEF At
  <2>2. CASE Len(s) # 1
    <3>1. /\ Len(s) - 1 \in 1 .. Len(s) - 1 /\ Len(s) - 1 \in 1 .. Len(s) /\ Len(s) \in 1 .. Len(s)
          /\ (Len(s) - 1) + 1 = Len(s)
      BY <1>1, <2>2
    <3>2. Len(s) - 1 < m <=> m = Len(s)
      <4>1. Len(s) \in Nat /\ m \in 1 .. Len(s)
        BY <1>1
      <4> QED BY <4>1
    <3>3. r[Len(s) - 1] = IF m = Len(s) THEN s[Len(s) - 1] ELSE s[Len(s)]
      BY <1>2, <3>1, <3>2
    <3> QED BY <1>1, <3>1, <3>3 DEF At
  <2> QED BY <2>1, <2>2
<1> QED BY <1>6, <1>7, <1>8, <1>9

\* The links lead around the item when the one before it is linked to the one
\* after it.
LEMMA ForwardAround ==
  ASSUME NEW s, NEW m, NEW r, LeavesOut(s, m, r), NEW link, NEW link2, Forward(link, s),
         \A y \in Range(s) \ {s[m]} :
           link2[y] = IF y = At(s, m - 1) THEN link[s[m]] ELSE link[y]
  PROVE  Forward(link2, r)
<1>1. /\ s \in Seq(Items) /\ Len(s) \in Nat /\ m \in 1 .. Len(s)
      /\ DOMAIN s = 1 .. Len(s) /\ DOMAIN r = 1 .. Len(s) - 1
  BY DEF LeavesOut
<1>2. \A j \in 1 .. Len(s) - 1 : r[j] = IF j < m THEN s[j] ELSE s[j + 1]
  BY DEF LeavesOut
<1>3. \A j, k \in 1 .. Len(s) : s[j] = s[k] => j = k
  BY <1>1 DEF LeavesOut, IsInjective
<1>4. \A j \in 1 .. Len(s) : s[j] \in Range(s) /\ s[j] # Null /\ link[s[j]] = At(s, j + 1)
  BY <1>1, NullAssumption DEF Forward, Range
<1>5. ASSUME NEW j \in 1 .. Len(s) - 1
      PROVE  link2[r[j]] = At(r, j + 1)
  <2>1. CASE j < m - 1
    <3>1. j \in 1 .. Len(s) /\ j # m /\ m - 1 \in 1 .. Len(s) /\ j # m - 1
      BY <1>1, <2>1
    <3>2. r[j] = s[j] /\ s[j] # s[m] /\ s[j] # At(s, m - 1)
      BY <1>1, <1>2, <1>3, <2>1, <3>1 DEF At
    <3>3. link2[r[j]] = At(s, j + 1)
      BY <1>4, <3>1, <3>2
    <3> QED BY <1>1, <1>2, <2>1, <3>3 DEF At
  <2>2. CASE j = m - 1
    <3>1. j \in 1 .. Len(s) /\ j # m
      BY <1>1, <2>2
    <3>2. r[j] = s[j] /\ s[j] # s[m] /\ s[j] = At(s, m - 1)
      BY <1>1, <1>2, <1>3, <2>2, <3>1 DEF At
    <3>3. link2[r[j]] = At(s, m + 1)
      BY <1>1, <1>4, <3>1, <3>2
    <3> QED BY <1>1, <1>2, <2>2, <3>3 DEF At
  <2>3. CASE ~(j < m)
    <3>1. j + 1 \in 1 .. Len(s) /\ j + 1 # m /\ j + 1 # m - 1
      BY <1>1, <2>3
    <3>2. r[j] = s[j + 1] /\ s[j + 1] # s[m] /\ s[j + 1] # At(s, m - 1)
      BY <1>1, <1>2, <1>3, <1>4, <2>3, <3>1 DEF At
    <3>3. link2[r[j]] = At(s, (j + 1) + 1)
      BY <1>4, <3>1, <3>2
    <3> QED BY <1>1, <1>2, <2>3, <3>3 DEF At
  <2> QED BY <1>1, <2>1, <2>2, <2>3
<1> QED BY <1>1, <1>5 DEF Forward

\* The same for the links to the item before.
LEMMA BackwardAround ==
  ASSUME NEW s, NEW m, NEW r, LeavesOut(s, m, r), NEW link, NEW link2, Backward(link, s),
         \A y \in Range(s) \ {s[m]} :
           link2[y] = IF y = At(s, m + 1) THEN link[s[m]] ELSE link[y]
  PROVE  Backward(link2, r)
<1>1. /\ s \in Seq(Items) /\ Len(s) \in Nat /\ m \in 1 .. Len(s)
      /\ DOMAIN s = 1 .. Len(s) /\ DOMAIN r = 1 .. Len(s) - 1
  BY DEF LeavesOut
<1>2. \A j \in 1 .. Len(s) - 1 : r[j] = IF j < m THEN s[j] ELSE s[j + 1]
  BY DEF LeavesOut
<1>3. \A j, k \in 1 .. Len(s) : s[j] = s[k] => j = k
  BY <1>1 DEF LeavesOut, IsInjective
<1>4. \A j \in 1 .. Len(s) : s[j] \in Range(s) /\ s[j] # Null /\ link[s[j]] = At(s, j - 1)
  BY <1>1, NullAssumption DEF Backward, Range
<1>5. ASSUME NEW j \in 1 .. Len(s) - 1
      PROVE  link2[r[j]] = At(r, j - 1)
  <2>1. CASE j < m
    <3>1. j \in 1 .. Len(s) /\ j # m /\ j # m + 1
      BY <1>1, <2>1
    <3>2. r[j] = s[j] /\ s[j] # s[m] /\ s[j] # At(s, m + 1)
      BY <1>1, <1>2, <1>3, <1>4, <2>1, <3>1 DEF At
    <3>3. link2[r[j]] = At(s, j - 1)
      BY <1>4, <3>1, <3>2
    <3> QED BY <1>1, <1>2, <2>1, <3>3 DEF At
  <2>2. CASE j = m
    <3>1. j + 1 \in 1 .. Len(s) /\ j + 1 # m
      BY <1>1, <2>2
    <3>2. r[j] = s[j + 1] /\ s[j + 1] # s[m] /\ s[j + 1] = At(s, m + 1)
      BY <1>1, <1>2, <1>3, <2>2, <3>1 DEF At
    <3>3. link2[r[j]] = At(s, m - 1)
      BY <1>1, <1>4, <3>1, <3>2
    <3> QED BY <1>1, <1>2, <2>2, <3>3 DEF At
  <2>3. CASE j > m
    <3>1. j + 1 \in 1 .. Len(s) /\ j + 1 # m /\ j + 1 # m + 1
      BY <1>1, <2>3
    <3>2. r[j] = s[j + 1] /\ s[j + 1] # s[m] /\ s[j + 1] # At(s, m + 1)
      BY <1>1, <1>2, <1>3, <1>4, <2>3, <3>1 DEF At
    <3>3. link2[r[j]] = At(s, (j + 1) - 1)
      BY <1>4, <3>1, <3>2
    <3> QED BY <1>1, <1>2, <2>3, <3>3 DEF At
  <2> QED BY <1>1, <2>1, <2>2, <2>3
<1> QED BY <1>1, <1>5 DEF Backward

\* What comes from another item on is still to come.
LEMMA FromLeavesOut ==
  ASSUME NEW s, NEW m, NEW r, LeavesOut(s, m, r), NEW x, x # s[m]
  PROVE  From(s, x) \ {s[m]} \subseteq From(r, x)
<1>1. /\ Len(s) \in Nat /\ m \in 1 .. Len(s)
      /\ DOMAIN s = 1 .. Len(s) /\ DOMAIN r = 1 .. Len(s) - 1
  BY DEF LeavesOut
<1>2. \A j \in 1 .. Len(s) - 1 : r[j] = IF j < m THEN s[j] ELSE s[j + 1]
  BY DEF LeavesOut
<1> DEFINE Place(j) == IF j < m THEN j ELSE j - 1
<1>3. ASSUME NEW j \in 1 .. Len(s), j # m
      PROVE  Place(j) \in 1 .. Len(s) - 1 /\ r[Place(j)] = s[j]
  <2>1. CASE j < m
    <3>1. j \in 1 .. Len(s) - 1
      BY <1>1, <2>1
    <3> QED BY <1>2, <2>1, <3>1
  <2>2. CASE ~(j < m)
    <3>1. j - 1 \in 1 .. Len(s) - 1 /\ ~(j - 1 < m) /\ (j - 1) + 1 = j
      BY <1>1, <1>3, <2>2
    <3> QED BY <1>2, <2>2, <3>1
  <2> QED BY <2>1, <2>2
<1>4. ASSUME NEW y \in From(s, x) \ {s[m]}
      PROVE  y \in From(r, x)
  <2>1. PICK j \in 1 .. Len(s) : y = s[j] /\ \E k \in 1 .. j : s[k] = x
    BY <1>1 DEF From
  <2>2. PICK k \in 1 .. j : s[k] = x
    BY <2>1
  <2>3. j # m /\ k # m /\ k \in 1 .. Len(s)
    BY <1>1, <1>4, <2>1, <2>2
  <2>4. Place(k) \in 1 .. Place(j)
    BY <1>1, <2>2, <2>3
  <2>5. Place(j) \in 1 .. Len(s) - 1 /\ r[Place(j)] = y /\ r[Place(k)] = x
    BY <1>3, <2>1, <2>2, <2>3
  <2> HIDE DEF Place
  <2> QED BY <1>1, <2>4, <2>5 DEF From
<1> QED BY <1>4

-----------------------------------------------------------------------------
(* Adding an item at either end.                                           *)

\* r is s with a new item x after it.
AddsLast(s, x, r) ==
  /\ s \in Seq(Items) /\ IsInjective(s) /\ x \in Items \ Range(s)
  /\ r \in Seq(Items) /\ Len(r) = Len(s) + 1
  /\ \A j \in 1 .. Len(s) + 1 : r[j] = IF j <= Len(s) THEN s[j] ELSE x

\* r is s with a new item x before it.
AddsFirst(s, x, r) ==
  /\ s \in Seq(Items) /\ IsInjective(s) /\ x \in Items \ Range(s)
  /\ r \in Seq(Items) /\ Len(r) = Len(s) + 1
  /\ \A j \in 1 .. Len(s) + 1 : r[j] = IF j = 1 THEN x ELSE s[j - 1]

\* Append adds an item last.
LEMMA AppendAdds ==
  ASSUME NEW s \in Seq(Items), IsInjective(s), NEW x \in Items \ Range(s)
  PROVE  AddsLast(s, x, Append(s, x))
  BY AppendProperties DEF AddsLast

\* Concatenation to a sequence of one item adds it first.
LEMMA ConcatAdds ==
  ASSUME NEW s \in Seq(Items), IsInjective(s), NEW x \in Items \ Range(s)
  PROVE  AddsFirst(s, x, <<x>> \o s)
<1>1. <<x>> \in Seq(Items) /\ Len(<<x>>) = 1 /\ <<x>>[1] = x
  OBVIOUS
<1>2. <<x>> \o s \in Seq(Items)
  BY <1>1, ConcatProperties
<1>3. Len(<<x>> \o s) = Len(s) + 1
  BY <1>1, ConcatProperties
<1>4. \A j \in 1 .. Len(s) + 1 : (<<x>> \o s)[j] = IF j = 1 THEN x ELSE s[j - 1]
  BY <1>1
<1> QED BY <1>2, <1>3, <1>4 DEF AddsFirst

\* The items after an item was added, each once.
LEMMA AddsLastItems ==
  ASSUME NEW s, NEW x, NEW r, AddsLast(s, x, r)
  PROVE  /\ Range(r) = Range(s) \cup {x}
         /\ IsInjective(r)
         /\ At(r, 1) = IF s = <<>> THEN x ELSE At(s, 1)
         /\ At(r, Len(r)) = x
<1>1. /\ s \in Seq(Items) /\ x \in Items /\ x \notin Range(s) /\ Len(s) \in Nat
      /\ DOMAIN s = 1 .. Len(s) /\ DOMAIN r = 1 .. Len(s) + 1 /\ Len(r) = Len(s) + 1
  BY DEF AddsLast
<1>2. (\A j \in 1 .. Len(s) : r[j] = s[j]) /\ r[Len(s) + 1] = x
  BY <1>1 DEF AddsLast
<1>3. \A j \in 1 .. Len(s) + 1 : j \in 1 .. Len(s) \/ j = Len(s) + 1
  BY <1>1
<1>4. \A j \in 1 .. Len(s) : j \in 1 .. Len(s) + 1 /\ Len(s) + 1 \in 1 .. Len(s) + 1
  BY <1>1
<1>5. Range(r) = Range(s) \cup {x}
  <2>1. ASSUME NEW y \in Range(r)
        PROVE  y \in Range(s) \cup {x}
    BY <1>1, <1>2, <1>3 DEF Range
  <2>2. ASSUME NEW y \in Range(s)
        PROVE  y \in Range(r)
    BY <1>1, <1>2, <1>4 DEF Range
  <2>3. x \in Range(r)
    <3>1. Len(s) + 1 \in DOMAIN r
      BY <1>1
    <3> QED BY <1>2, <3>1 DEF Range
  <2> QED BY <2>1, <2>2, <2>3
<1>6. IsInjective(r)
  <2>1. \A j \in 1 .. Len(s) : s[j] # x
    BY <1>1 DEF Range
  <2>2. \A j, k \in 1 .. Len(s) : s[j] = s[k] => j = k
    BY <1>1 DEF AddsLast, IsInjective
  <2>3. \A j, k \in 1 .. Len(s) + 1 : r[j] = r[k] => j = k
    BY <1>2, <1>3, <2>1, <2>2
  <2> QED BY <1>1, <2>3 DEF IsInjective
<1>7. At(r, 1) = IF s = <<>> THEN x ELSE At(s, 1)
  <2>1. CASE s = <<>>
    BY <1>1, <1>2, <2>1 DEF At
  <2>2. CASE s # <<>>
    <3>1. 1 \in 1 .. Len(s) /\ 1 \in 1 .. Len(s) + 1
      BY <1>1, <2>2
    <3> QED BY <1>1, <1>2, <2>2, <3>1 DEF At
  <2> QED BY <2>1, <2>2
<1>8. At(r, Len(r)) = x
  BY <1>1, <1>2 DEF At
<1> QED BY <1>5, <1>6, <1>7, <1>8

\* The links lead on to a new last item when the last one is linked to it and it
\* to nothing.
LEMMA ForwardLast ==
  ASSUME NEW s, NEW x, NEW r, AddsLast(s, x, r), NEW link, NEW link2, Forward(link, s),
         link2[x] = Null,
         \A y \in Range(s) : link2[y] = IF y = At(s, Len(s)) THEN x ELSE link[y]
  PROVE  Forward(link2, r)
<1>1. /\ s \in Seq(Items) /\ Len(s) \in Nat
      /\ DOMAIN s = 1 .. Len(s) /\ DOMAIN r = 1 .. Len(s) + 1
  BY DEF AddsLast
<1>2. (\A j \in 1 .. Len(s) : r[j] = s[j]) /\ r[Len(s) + 1] = x
  BY <1>1 DEF AddsLast
<1>3. \A j, k \in 1 .. Len(s) : s[j] = s[k] => j = k
  BY <1>1 DEF AddsLast, IsInjective
<1>4. \A j \in 1 .. Len(s) : s[j] \in Range(s) /\ link[s[j]] = At(s, j + 1)
  BY <1>1 DEF Forward, Range
<1>5. ASSUME NEW j \in 1 .. Len(s) + 1
      PROVE  link2[r[j]] = At(r, j + 1)
  <2>1. CASE j = Len(s) + 1
    BY <1>1, <1>2, <2>1 DEF At
  <2>2. CASE j = Len(s)
    <3>1. j \in 1 .. Len(s) /\ j + 1 = Len(s) + 1 /\ j + 1 \in DOMAIN r
      BY <1>1, <2>2
    <3>2. s[j] = At(s, Len(s))
      BY <1>1, <2>2, <3>1 DEF At
    <3> QED BY <1>2, <1>4, <3>1, <3>2 DEF At
  <2>3. CASE j < Len(s)
    <3>1. j \in 1 .. Len(s) /\ j + 1 \in 1 .. Len(s) /\ j + 1 \in DOMAIN r /\ Len(s) \in 1 .. Len(s)
      BY <1>1, <2>3
    <3>2. s[j] # At(s, Len(s))
      BY <1>1, <1>3, <2>3, <3>1 DEF At
    <3> QED BY <1>1, <1>2, <1>4, <3>1, <3>2 DEF At
  <2>4. j = Len(s) + 1 \/ j = Len(s) \/ j < Len(s)
    <3>1. Len(s) \in Nat
      BY <1>1
    <3> QED BY <3>1
  <2> QED BY <2>1, <2>2, <2>3, <2>4
<1> QED BY <1>1, <1>5 DEF Forward

\* The same for the links to the item before: only the new item is linked.
LEMMA BackwardLast ==
  ASSUME NEW s, NEW x, NEW r, AddsLast(s, x, r), NEW link, NEW link2, Backward(link, s),
         link2[x] = At(s, Len(s)),
         \A y \in Range(s) : link2[y] = link[y]
  PROVE  Backward(link2, r)
<1>1. /\ s \in Seq(Items) /\ Len(s) \in Nat
      /\ DOMAIN s = 1 .. Len(s) /\ DOMAIN r = 1 .. Len(s) + 1
  BY DEF AddsLast
<1>2. (\A j \in 1 .. Len(s) : r[j] = s[j]) /\ r[Len(s) + 1] = x
  BY <1>1 DEF AddsLast
<1>3. \A j \in 1 .. Len(s) : s[j] \in Range(s) /\ link[s[j]] = At(s, j - 1)
  BY <1>1 DEF Backward, Range
<1>4. ASSUME NEW j \in 1 .. Len(s) + 1
      PROVE  link2[r[j]] = At(r, j - 1)
  <2>1. CASE j = Len(s) + 1
    <3>1. j - 1 = Len(s)
      BY <1>1, <2>1
    <3>2. At(r, Len(s)) = At(s, Len(s))
      BY <1>1, <1>2 DEF At
    <3> QED BY <1>2, <2>1, <3>1, <3>2
  <2>2. CASE j \in 1 .. Len(s)
    <3>1. At(r, j - 1) = At(s, j - 1)
      BY <1>1, <1>2, <2>2 DEF At
    <3> QED BY <1>2, <1>3, <2>2, <3>1
  <2> QED BY <1>1, <2>1, <2>2
<1> QED BY <1>1, <1>4 DEF Backward

\* What comes from an item on is still to come.
LEMMA FromLast ==
  ASSUME NEW s, NEW x, NEW r, AddsLast(s, x, r), NEW y
  PROVE  From(s, y) \subseteq From(r, y)
<1>1. Len(s) \in Nat /\ DOMAIN s = 1 .. Len(s) /\ DOMAIN r = 1 .. Len(s) + 1
  BY DEF AddsLast
<1>2. \A j \in 1 .. Len(s) : r[j] = s[j]
  BY <1>1 DEF AddsLast
<1>3. ASSUME NEW z \in From(s, y)
      PROVE  z \in From(r, y)
  <2>1. PICK j \in 1 .. Len(s) : z = s[j] /\ \E k \in 1 .. j : s[k] = y
    BY <1>1 DEF From
  <2>2. PICK k \in 1 .. j : s[k] = y
    BY <2>1
  <2>3. k \in 1 .. Len(s) /\ j \in 1 .. Len(s) + 1
    BY <1>1, <2>2
  <2>4. r[j] = z /\ r[k] = y
    BY <1>2, <2>1, <2>2, <2>3
  <2> QED BY <1>1, <2>2, <2>3, <2>4 DEF From
<1> QED BY <1>3

\* The items of a chain after one was added, each once.
LEMMA AddsFirstItems ==
  ASSUME NEW s, NEW x, NEW r, AddsFirst(s, x, r)
  PROVE  /\ Range(r) = Range(s) \cup {x}
         /\ IsInjective(r)
         /\ At(r, 1) = x
<1>1. /\ s \in Seq(Items) /\ x \in Items /\ x \notin Range(s) /\ Len(s) \in Nat
      /\ DOMAIN s = 1 .. Len(s) /\ DOMAIN r = 1 .. Len(s) + 1
  BY DEF AddsFirst
<1>2. \A j \in 1 .. Len(s) + 1 : r[j] = IF j = 1 THEN x ELSE s[j - 1]
  BY DEF AddsFirst
<1>3. \A j \in 1 .. Len(s) : s[j] \in Range(s) /\ s[j] # x
  BY <1>1 DEF Range
<1>4. \A j \in 1 .. Len(s) + 1 : j # 1 => j - 1 \in 1 .. Len(s)
  BY <1>1
<1>5. Range(r) = Range(s) \cup {x}
  <2>1. ASSUME NEW y \in Range(r)
        PROVE  y \in Range(s) \cup {x}
    BY <1>1, <1>2, <1>3, <1>4 DEF Range
  <2>2. ASSUME NEW j \in 1 .. Len(s)
        PROVE  s[j] \in Range(r)
    <3>1. j + 1 \in 1 .. Len(s) + 1 /\ j + 1 # 1 /\ (j + 1) - 1 = j
      BY <1>1
    <3>2. r[j + 1] = s[j]
      BY <1>2, <3>1
    <3> QED BY <1>1, <3>1, <3>2 DEF Range
  <2>3. x \in Range(r)
    <3>1. 1 \in DOMAIN r /\ r[1] = x
      BY <1>1, <1>2
    <3> QED BY <3>1 DEF Range
  <2> QED BY <1>1, <2>1, <2>2, <2>3 DEF Range
<1>6. IsInjective(r)
  <2>1. \A j, k \in 1 .. Len(s) : s[j] = s[k] => j = k
    BY <1>1 DEF AddsFirst, IsInjective
  <2>2. ASSUME NEW j \in 1 .. Len(s) + 1, NEW k \in 1 .. Len(s) + 1, r[j] = r[k]
        PROVE  j = k
    <3>1. CASE j = 1 \/ k = 1
      BY <1>2, <1>3, <1>4, <2>2, <3>1
    <3>2. CASE j # 1 /\ k # 1
      <4>1. s[j - 1] = s[k - 1]
        BY <1>2, <2>2, <3>2
      <4>2. j - 1 = k - 1
        BY <1>4, <2>1, <3>2, <4>1
      <4> QED BY <4>2
    <3> QED BY <3>1, <3>2
  <2> QED BY <1>1, <2>2 DEF IsInjective
<1>7. At(r, 1) = x
  BY <1>1, <1>2 DEF At
<1> QED BY <1>5, <1>6, <1>7

\* The links lead from a new first item to the others.
LEMMA ForwardFirst ==
  ASSUME NEW s, NEW x, NEW r, AddsFirst(s, x, r), NEW link, NEW link2, Forward(link, s),
         link2[x] = At(s, 1),
         \A y \in Range(s) : link2[y] = link[y]
  PROVE  Forward(link2, r)
<1>1. Len(s) \in Nat /\ DOMAIN s = 1 .. Len(s) /\ DOMAIN r = 1 .. Len(s) + 1
  BY DEF AddsFirst
<1>2. \A j \in 1 .. Len(s) + 1 : r[j] = IF j = 1 THEN x ELSE s[j - 1]
  BY DEF AddsFirst
<1>3. \A j \in 1 .. Len(s) : s[j] \in Range(s) /\ link[s[j]] = At(s, j + 1)
  BY <1>1 DEF Forward, Range
<1>4. \A j \in 1 .. Len(s) + 1 : At(r, j + 1) = At(s, j)
  BY <1>1, <1>2 DEF At
<1>5. ASSUME NEW j \in 1 .. Len(s) + 1
      PROVE  link2[r[j]] = At(r, j + 1)
  <2>1. CASE j = 1
    BY <1>2, <1>4, <2>1
  <2>2. CASE j # 1
    <3>1. j - 1 \in 1 .. Len(s) /\ (j - 1) + 1 = j
      BY <1>1, <2>2
    <3>2. r[j] = s[j - 1]
      BY <1>2, <2>2
    <3>3. link2[s[j - 1]] = At(s, j)
      BY <1>3, <3>1
    <3> QED BY <1>4, <3>2, <3>3
  <2> QED BY <2>1, <2>2
<1> QED BY <1>1, <1>5 DEF Forward

-----------------------------------------------------------------------------
(* Turning the list.                                                       *)

\* r begins with the items of s from m on, d of them, and goes on with the rest.
Turns(s, m, d, r) ==
  /\ s \in Seq(Items) /\ IsInjective(s) /\ m \in DOMAIN s
  /\ d = Len(s) - m + 1
  /\ r \in Seq(Items) /\ Len(r) = Len(s)
  /\ \A j \in 1 .. Len(s) : r[j] = IF j <= d THEN s[j + m - 1] ELSE s[j - d]

\* Rotated turns the list.
LEMMA RotatedTurns ==
  ASSUME NEW s \in Seq(Items), order = s, IsInjective(s), NEW m \in DOMAIN s
  PROVE  Turns(s, m, Len(s) - m + 1, Rotated(s[m]))
<1> DEFINE a == SubSeq(s, m, Len(s))
           b == SubSeq(s, 1, m - 1)
           d == Len(s) - m + 1
<1>1. m \in 1 .. Len(s) /\ Len(s) \in Nat
  OBVIOUS
<1>2. a \in Seq(Items) /\ Len(a) = d /\ \A j \in 1 .. d : a[j] = s[j + m - 1]
  BY <1>1
<1>3. b \in Seq(Items) /\ Len(b) = m - 1 /\ \A j \in 1 .. m - 1 : b[j] = s[j]
  BY <1>1
<1>4. Rotated(s[m]) = a \o b
  BY IndexInIs DEF Rotated
<1> HIDE DEF a, b
<1>5. /\ a \o b \in Seq(Items) /\ Len(a \o b) = Len(a) + Len(b)
      /\ \A j \in 1 .. Len(a) + Len(b) : (a \o b)[j] = IF j <= Len(a) THEN a[j] ELSE b[j - Len(a)]
  BY <1>2, <1>3, ConcatProperties
<1>6. Len(a) + Len(b) = Len(s)
  <2>1. Len(s) \in Nat /\ m \in Nat /\ Len(a) = Len(s) - m + 1 /\ Len(b) = m - 1
    BY <1>1, <1>2, <1>3
  <2>2. \A l, k \in Nat : (l - k + 1) + (k - 1) = l
    OBVIOUS
  <2> QED BY <2>1, <2>2, Zenon
<1>7. ASSUME NEW j \in 1 .. Len(s)
      PROVE  (a \o b)[j] = IF j <= d THEN s[j + m - 1] ELSE s[j - d]
  <2>1. (a \o b)[j] = IF j <= d THEN a[j] ELSE b[j - d]
    BY <1>2, <1>5, <1>6
  <2>2. CASE j <= d
    <3>1. j \in 1 .. d
      BY <1>1, <2>2
    <3> QED BY <1>2, <2>1, <2>2, <3>1
  <2>3. CASE ~(j <= d)
    <3>1. j - d \in 1 .. m - 1
      BY <1>1, <2>3
    <3> QED BY <1>3, <2>1, <2>3, <3>1
  <2> QED BY <2>2, <2>3
<1> QED BY <1>4, <1>5, <1>6, <1>7 DEF Turns

\* The same items, each once, and the new ends.
LEMMA TurnsItems ==
  ASSUME NEW s, NEW m, NEW d, NEW r, Turns(s, m, d, r)
  PROVE  /\ Range(r) = Range(s)
         /\ IsInjective(r)
         /\ At(r, 1) = s[m]
         /\ At(r, Len(r)) = IF m = 1 THEN s[Len(s)] ELSE s[m - 1]
<1>1. PICK l \in Nat : l = Len(s)
  BY DEF Turns
<1>2. /\ DOMAIN s = 1 .. l /\ DOMAIN r = 1 .. l /\ Len(r) = l
      /\ m \in 1 .. l /\ d = l - m + 1
  BY <1>1 DEF Turns
<1>3. \A j \in 1 .. l : r[j] = IF j <= d THEN s[j + m - 1] ELSE s[j - d]
  BY <1>1 DEF Turns
<1>4. \A j, k \in 1 .. l : s[j] = s[k] => j = k
  BY <1>2 DEF Turns, IsInjective
<1>5. ASSUME NEW j \in 1 .. l
      PROVE  r[j] \in Range(s)
  <2>1. CASE j <= d
    <3>1. j + m - 1 \in 1 .. l
      BY <1>2, <2>1
    <3> QED BY <1>2, <1>3, <2>1, <3>1 DEF Range
  <2>2. CASE ~(j <= d)
    <3>1. j - d \in 1 .. l
      BY <1>2, <2>2
    <3> QED BY <1>2, <1>3, <2>2, <3>1 DEF Range
  <2> QED BY <2>1, <2>2
<1>6. ASSUME NEW k \in 1 .. l
      PROVE  s[k] \in Range(r)
  <2>1. CASE k >= m
    <3>1. PICK j \in 1 .. l : j = k - m + 1
      BY <1>2, <2>1
    <3>2. j <= d /\ j + m - 1 = k
      BY <1>2, <3>1
    <3>3. r[j] = s[k]
      BY <1>3, <3>2
    <3> QED BY <1>2, <3>3 DEF Range
  <2>2. CASE ~(k >= m)
    <3>1. PICK j \in 1 .. l : j = k + d
      BY <1>2, <2>2
    <3>2. ~(j <= d) /\ j - d = k
      BY <1>2, <3>1
    <3>3. r[j] = s[k]
      BY <1>3, <3>2
    <3> QED BY <1>2, <3>3 DEF Range
  <2> QED BY <2>1, <2>2
<1>7. Range(r) = Range(s)
  BY <1>2, <1>5, <1>6 DEF Range
<1>8. IsInjective(r)
  <2>1. ASSUME NEW j \in 1 .. l, NEW k \in 1 .. l, r[j] = r[k]
        PROVE  j = k
    <3>1. CASE j <= d /\ k <= d
      <4>1. j + m - 1 \in 1 .. l /\ k + m - 1 \in 1 .. l
        BY <1>2, <3>1
      <4>2. s[j + m - 1] = s[k + m - 1]
        BY <1>3, <2>1, <3>1
      <4>3. j + m - 1 = k + m - 1
        BY <1>4, <4>1, <4>2
      <4> QED BY <1>2, <4>3
    <3>2. CASE j <= d /\ ~(k <= d)
      <4>1. j + m - 1 \in 1 .. l /\ k - d \in 1 .. l
        BY <1>2, <3>2
      <4>2. s[j + m - 1] = s[k - d]
        BY <1>3, <2>1, <3>2
      <4>3. j + m - 1 = k - d
        BY <1>4, <4>1, <4>2
      <4> QED BY <1>2, <4>3
    <3>3. CASE ~(j <= d) /\ k <= d
      <4>1. j - d \in 1 .. l /\ k + m - 1 \in 1 .. l
        BY <1>2, <3>3
      <4>2. s[j - d] = s[k + m - 1]
        BY <1>3, <2>1, <3>3
      <4>3. j - d = k + m - 1
        BY <1>4, <4>1, <4>2
      <4> QED BY <1>2, <4>3
    <3>4. CASE ~(j <= d) /\ ~(k <= d)
      <4>1. j - d \in 1 .. l /\ k - d \in 1 .. l
        BY <1>2, <3>4
      <4>2. s[j - d] = s[k - d]
        BY <1>3, <2>1, <3>4
      <4>3. j - d = k - d
        BY <1>4, <4>1, <4>2
      <4> QED BY <1>2, <4>3
    <3> QED BY <3>1, <3>2, <3>3, <3>4
  <2> QED BY <1>2, <2>1 DEF IsInjective
<1>9. At(r, 1) = s[m]
  <2>1. 1 \in 1 .. l /\ 1 <= d /\ 1 + m - 1 = m
    BY <1>2
  <2> QED BY <1>2, <1>3, <2>1 DEF At
<1>10. At(r, Len(r)) = IF m = 1 THEN s[Len(s)] ELSE s[m - 1]
  <2>1. l \in 1 .. l /\ At(r, Len(r)) = r[l]
    BY <1>2 DEF At
  <2>2. CASE m = 1
    <3>1. l <= d /\ l + m - 1 = l
      BY <1>2, <2>2
    <3> QED BY <1>1, <1>3, <2>1, <2>2, <3>1
  <2>3. CASE m # 1
    <3>1. ~(l <= d) /\ l - d = m - 1
      BY <1>2, <2>3
    <3> QED BY <1>3, <2>1, <2>3, <3>1
  <2> QED BY <2>2, <2>3
<1> QED BY <1>7, <1>8, <1>9, <1>10

\* The links lead around the turned list when the old last item is linked to the
\* old first one and then the new last one to nothing.
LEMMA ForwardTurned ==
  ASSUME NEW s, NEW m, NEW d, NEW r, Turns(s, m, d, r), NEW link, NEW link2, Forward(link, s),
         \A y \in Range(s) :
           link2[y] = IF y = At(r, Len(r)) THEN Null ELSE IF y = s[Len(s)] THEN s[1] ELSE link[y]
  PROVE  Forward(link2, r)
<1>1. PICK l \in Nat : l = Len(s)
  BY DEF Turns
<1>2. /\ DOMAIN s = 1 .. l /\ DOMAIN r = 1 .. l /\ Len(r) = l
      /\ m \in 1 .. l /\ d = l - m + 1
  BY <1>1 DEF Turns
<1>3. \A j \in 1 .. l : r[j] = IF j <= d THEN s[j + m - 1] ELSE s[j - d]
  BY <1>1 DEF Turns
<1>4. \A j, k \in 1 .. l : s[j] = s[k] => j = k
  BY <1>2 DEF Turns, IsInjective
<1>5. \A j \in 1 .. l : s[j] \in Range(s) /\ link[s[j]] = At(s, j + 1)
  BY <1>2 DEF Forward, Range
<1>6. /\ \A j, k \in 1 .. l : r[j] = r[k] => j = k
      /\ \A j \in 1 .. l : r[j] \in Range(s)
  <2>1. Range(r) = Range(s) /\ IsInjective(r)
    BY TurnsItems
  <2> QED BY <1>2, <2>1 DEF IsInjective, Range
<1>7. At(r, Len(r)) = r[l] /\ s[Len(s)] = s[l] /\ l \in 1 .. l
  BY <1>1, <1>2 DEF At
<1>8. ASSUME NEW j \in 1 .. l
      PROVE  link2[r[j]] = At(r, j + 1)
  <2>1. CASE j = l
    <3>1. link2[r[j]] = Null
      BY <1>6, <1>7, <2>1
    <3> QED BY <1>2, <2>1, <3>1 DEF At
  <2>2. CASE j # l /\ j < d
    <3>1. PICK k \in 1 .. l : k = j + m - 1
      BY <1>2, <2>2
    <3>2. k # l /\ k + 1 \in 1 .. l /\ j <= d /\ j + 1 <= d /\ j + 1 \in 1 .. l /\ (j + 1) + m - 1 = k + 1
      BY <1>2, <2>2, <3>1
    <3>3. r[j] = s[k] /\ r[j + 1] = s[k + 1]
      BY <1>3, <3>1, <3>2
    <3>4. r[j] # r[l] /\ s[k] # s[l]
      BY <1>4, <1>6, <1>7, <2>2, <3>2
    <3>5. link2[r[j]] = link[s[k]]
      BY <1>5, <1>7, <3>3, <3>4
    <3> QED BY <1>2, <1>5, <3>2, <3>3, <3>5 DEF At
  <2>3. CASE j # l /\ j = d
    <3>1. j <= d /\ j + m - 1 = l /\ ~(j + 1 <= d) /\ j + 1 \in 1 .. l /\ (j + 1) - d = 1
      BY <1>2, <2>3
    <3>2. r[j] = s[l] /\ r[j + 1] = s[1]
      BY <1>3, <3>1
    <3>3. r[j] # r[l]
      BY <1>6, <1>7, <2>3
    <3>4. link2[r[j]] = s[1]
      BY <1>5, <1>7, <3>2, <3>3
    <3> QED BY <1>2, <3>1, <3>2, <3>4 DEF At
  <2>4. CASE j # l /\ j > d
    <3>1. PICK k \in 1 .. l : k = j - d
      BY <1>2, <2>4
    <3>2. k # l /\ k + 1 \in 1 .. l /\ ~(j <= d) /\ ~(j + 1 <= d) /\ j + 1 \in 1 .. l /\ (j + 1) - d = k + 1
      BY <1>2, <2>4, <3>1
    <3>3. r[j] = s[k] /\ r[j + 1] = s[k + 1]
      BY <1>3, <3>1, <3>2
    <3>4. r[j] # r[l] /\ s[k] # s[l]
      BY <1>4, <1>6, <1>7, <2>4, <3>2
    <3>5. link2[r[j]] = link[s[k]]
      BY <1>5, <1>7, <3>3, <3>4
    <3> QED BY <1>2, <1>5, <3>2, <3>3, <3>5 DEF At
  <2>5. j < d \/ j = d \/ j > d
    BY <1>2
  <2> QED BY <2>1, <2>2, <2>3, <2>4, <2>5
<1> QED BY <1>2, <1>8 DEF Forward

\* The same for the links to the item before.
LEMMA BackwardTurned ==
  ASSUME NEW s, NEW m, NEW d, NEW r, Turns(s, m, d, r), NEW link, NEW link2, Backward(link, s),
         \A y \in Range(s) :
           link2[y] = IF y = s[m] THEN Null ELSE IF y = s[1] THEN s[Len(s)] ELSE link[y]
  PROVE  Backward(link2, r)
<1>1. PICK l \in Nat : l = Len(s)
  BY DEF Turns
<1>2. /\ DOMAIN s = 1 .. l /\ DOMAIN r = 1 .. l
      /\ m \in 1 .. l /\ d = l - m + 1
  BY <1>1 DEF Turns
<1>3. \A j \in 1 .. l : r[j] = IF j <= d THEN s[j + m - 1] ELSE s[j - d]
  BY <1>1 DEF Turns
<1>4. \A j, k \in 1 .. l : s[j] = s[k] => j = k
  BY <1>2 DEF Turns, IsInjective
<1>5. \A j \in 1 .. l : s[j] \in Range(s) /\ link[s[j]] = At(s, j - 1)
  BY <1>2 DEF Backward, Range
<1>6. 1 \in 1 .. l /\ s[Len(s)] = s[l]
  BY <1>1, <1>2
<1>7. ASSUME NEW j \in 1 .. l
      PROVE  link2[r[j]] = At(r, j - 1)
  <2>1. CASE j = 1
    <3>1. 1 <= d /\ 1 + m - 1 = m
      BY <1>2
    <3>2. r[j] = s[m]
      BY <1>3, <1>6, <2>1, <3>1
    <3>3. link2[r[j]] = Null
      BY <1>2, <1>5, <3>2
    <3> QED BY <1>2, <2>1, <3>3 DEF At
  <2>2. CASE j # 1 /\ j <= d
    <3>1. PICK k \in 1 .. l : k = j + m - 1
      BY <1>2, <2>2
    <3>2. k # 1 /\ k # m /\ k - 1 \in 1 .. l /\ j - 1 <= d /\ j - 1 \in 1 .. l /\ (j - 1) + m - 1 = k - 1
      BY <1>2, <2>2, <3>1
    <3>3. r[j] = s[k] /\ r[j - 1] = s[k - 1]
      BY <1>3, <2>2, <3>1, <3>2
    <3>4. s[k] # s[m] /\ s[k] # s[1]
      BY <1>2, <1>4, <1>6, <3>2
    <3>5. link2[r[j]] = link[s[k]]
      BY <1>5, <3>3, <3>4
    <3> QED BY <1>2, <1>5, <3>2, <3>3, <3>5 DEF At
  <2>3. CASE j = d + 1
    <3>1. /\ ~(j <= d) /\ j - d = 1 /\ j - 1 <= d /\ j - 1 \in 1 .. l /\ (j - 1) + m - 1 = l
          /\ m # 1
      BY <1>2, <2>3
    <3>2. r[j] = s[1] /\ r[j - 1] = s[l]
      BY <1>3, <3>1
    <3>3. s[1] # s[m]
      BY <1>2, <1>4, <1>6, <3>1
    <3>4. link2[r[j]] = s[l]
      BY <1>5, <1>6, <3>2, <3>3
    <3> QED BY <1>2, <3>1, <3>2, <3>4 DEF At
  <2>4. CASE j > d + 1
    <3>1. PICK k \in 1 .. l : k = j - d
      BY <1>2, <2>4
    <3>2. /\ k # 1 /\ k # m /\ k - 1 \in 1 .. l /\ ~(j <= d)
          /\ ~(j - 1 <= d) /\ j - 1 \in 1 .. l /\ (j - 1) - d = k - 1
      BY <1>2, <2>4, <3>1
    <3>3. r[j] = s[k] /\ r[j - 1] = s[k - 1]
      BY <1>3, <3>1, <3>2
    <3>4. s[k] # s[m] /\ s[k] # s[1]
      BY <1>2, <1>4, <1>6, <3>2
    <3>5. link2[r[j]] = link[s[k]]
      BY <1>5, <3>3, <3>4
    <3> QED BY <1>2, <1>5, <3>2, <3>3, <3>5 DEF At
  <2>5. j <= d \/ j = d + 1 \/ j > d + 1
    BY <1>2
  <2> QED BY <2>1, <2>2, <2>3, <2>4, <2>5
<1> QED BY <1>2, <1>7 DEF Backward

-----------------------------------------------------------------------------
(* The inductive invariant, in the terms of the lemmas above.              *)

\* The chain of a bucket, which has no item twice.
ChainExact(b) ==
  /\ chains[b] \in Seq(Items)
  /\ IsInjective(chains[b])
  /\ Forward(h_next, chains[b])
  /\ primary_hashtable[b] = At(chains[b], 1)
  /\ Range(chains[b]) = {x \in Range(order) : BucketOf[KeyOf[x]] = b}

\* The list and the chains; a table that was destroyed is empty.
TableInv ==
  /\ TypeOK
  /\ IsInjective(order)
  /\ Forward(next, order)
  /\ Backward(prev, order)
  /\ head = At(order, 1) /\ tail = At(order, Len(order))
  /\ \A b \in Buckets : ChainExact(b)
  /\ \A x, y \in Range(order) : KeyOf[x] = KeyOf[y] => x = y
  /\ Range(order) \subseteq heap
  /\ hash_items = Len(order)
  /\ ~live => order = <<>>

\* The walk: the cursor is in the table, and so are the items that wait for it.
WalkInv == WalkIsValid /\ WalkOrder /\ Counted

\* An item of the table is in the chain of its key.
LEMMA ChainOfKey ==
  ASSUME TableInv, NEW k \in Keys
  PROVE  ChainOf(k, chains[BucketOf[k]])
<1>1. BucketOf[k] \in Buckets
  BY BucketOfAssumption
<1>2. ChainExact(BucketOf[k])
  BY <1>1 DEF TableInv
<1>3. h_next \in [Items -> Allocated]
  BY DEF TableInv, TypeOK
<1> DEFINE c == chains[BucketOf[k]]
<1>4. \A j \in DOMAIN c : c[j] \in Range(order)
  BY <1>2 DEF ChainExact, Range
<1>5. \A j, m \in DOMAIN c : KeyOf[c[j]] = KeyOf[c[m]] => c[j] = c[m]
  BY <1>4 DEF TableInv
<1>6. \A j, m \in DOMAIN c : c[j] = c[m] => j = m
  BY <1>2 DEF ChainExact, IsInjective
<1> QED BY <1>2, <1>3, <1>5, <1>6 DEF ChainOf, ChainExact

\* An item is found at the same time in the list and in its chain.
LEMMA FindsListed ==
  ASSUME TableInv, NEW k \in Keys, NEW x \in Range(order), KeyOf[x] = k
  PROVE  /\ hashtable_find(k) = x
         /\ \E m \in DOMAIN chains[BucketOf[k]] :
              /\ chains[BucketOf[k]][m] = x
              /\ hashitem_before(k) = At(chains[BucketOf[k]], m - 1)
<1> DEFINE c == chains[BucketOf[k]]
<1>1. BucketOf[k] \in Buckets
  BY BucketOfAssumption
<1>2. x \in Range(c)
  BY <1>1 DEF TableInv, ChainExact
<1>3. PICK m \in DOMAIN c : c[m] = x
  BY <1>2 DEF Range
<1>4. ChainOf(k, c)
  BY ChainOfKey
<1> HIDE DEF c
<1>5. hashtable_find(k) = c[m] /\ hashitem_before(k) = At(c, m - 1)
  BY <1>3, <1>4, FindOne
<1> QED BY <1>3, <1>5 DEF c

\* hashtable_find returns NULL exactly for the keys that are not in the table.
LEMMA FindExact ==
  ASSUME TableInv, NEW k \in Keys
  PROVE  IF \E x \in Range(order) : KeyOf[x] = k
         THEN hashtable_find(k) \in Range(order) /\ KeyOf[hashtable_find(k)] = k
         ELSE hashtable_find(k) = Null
<1>1. CASE \E x \in Range(order) : KeyOf[x] = k
  BY <1>1, FindsListed
<1>2. CASE ~ \E x \in Range(order) : KeyOf[x] = k
  <2> DEFINE c == chains[BucketOf[k]]
  <2>1. BucketOf[k] \in Buckets
    BY BucketOfAssumption
  <2>2. \A j \in DOMAIN c : c[j] \in Range(order)
    <3>1. ChainExact(BucketOf[k])
      BY <2>1 DEF TableInv
    <3> QED BY <3>1 DEF ChainExact, Range
  <2>3. \A j \in DOMAIN c : KeyOf[c[j]] # k
    BY <1>2, <2>2
  <2>4. ChainOf(k, c)
    BY ChainOfKey
  <2> HIDE DEF c
  <2>5. hashtable_find(k) = Null
    BY <2>3, <2>4, FindNone
  <2> QED BY <1>2, <2>5
<1> QED BY <1>1, <1>2

\* Items whose links do not change stay linked.
LEMMA LinksSame ==
  ASSUME NEW s, NEW link, NEW link2, \A y \in Range(s) : link2[y] = link[y]
  PROVE  /\ Forward(link, s) => Forward(link2, s)
         /\ Backward(link, s) => Backward(link2, s)
<1>1. \A j \in DOMAIN s : link2[s[j]] = link[s[j]]
  BY DEF Range
<1> QED BY <1>1 DEF Forward, Backward

\* A sequence without items is empty.
LEMMA EmptyRange ==
  ASSUME NEW s \in Seq(Items), Range(s) = {}
  PROVE  s = <<>>
<1>1. SUFFICES ASSUME s # <<>>
               PROVE  FALSE
  OBVIOUS
<1>2. 1 \in DOMAIN s
  BY <1>1
<1> QED BY <1>2 DEF Range

\* A sequence has as many items as it is long when it has none twice.
LEMMA CardinalityOfRange ==
  ASSUME NEW s \in Seq(Items), IsInjective(s)
  PROVE  Cardinality(Range(s)) = Len(s)
<1>1. Len(s) \in Nat /\ s \in [1 .. Len(s) -> Range(s)]
  BY DEF Range
<1>2. \A j, k \in 1 .. Len(s) : s[j] = s[k] => j = k
  BY DEF IsInjective
<1>3. \A y \in Range(s) : \E j \in 1 .. Len(s) : s[j] = y
  BY DEF Range
<1>4. s \in Bijection(1 .. Len(s), Range(s))
  BY <1>1, <1>2, <1>3 DEF Bijection, Injection, Surjection, IsInjective
<1> QED BY <1>1, <1>4, FS_CountingElements DEF ExistsBijection

-----------------------------------------------------------------------------
(* The steps on the table.                                                 *)

\* The empty table.
LEMMA InitTable == Init => TableInv /\ WalkInv
<1> SUFFICES ASSUME Init
             PROVE  TableInv /\ WalkInv
  OBVIOUS
<1>1. TypeOK
  <2>1. order \in Seq(Items) /\ chains \in [Buckets -> Seq(Items)]
    BY DEF Init
  <2>2. i \in 0 .. MaxN /\ n \in 0 .. MaxN /\ hash_items \in Nat
    BY MaxNAssumption DEF Init
  <2> QED BY <2>1, <2>2 DEF Init, TypeOK, Allocated
<1>2. order = <<>> /\ Len(order) = 0 /\ Range(order) = {} /\ IsInjective(order)
  BY DEF Init, Range, IsInjective
<1>3. \A b \in Buckets : ChainExact(b)
  BY <1>2 DEF Init, ChainExact, IsInjective, Forward, At, Range
<1>4. TableInv
  BY <1>1, <1>2, <1>3 DEF Init, TableInv, Forward, Backward, At
<1>5. WalkInv
  BY DEF Init, WalkInv, WalkIsValid, WalkOrder, Counted
<1> QED BY <1>4, <1>5

\* hashtable_init: a table that was destroyed was empty.
LEMMA InitStep ==
  ASSUME TableInv, WalkInv, hashtable_init
  PROVE  (TableInv /\ WalkInv)'
<1> USE DEF hashtable_init, links, walk, history
<1>1. TypeOK'
  BY DEF TableInv, TypeOK, Allocated
<1>2. order = <<>> /\ order' = order /\ chains' = chains /\ Range(order) = {}
  BY DEF TableInv, Range
<1>3. \A b \in Buckets : ChainExact(b)'
  <2> TAKE b \in Buckets
  <2>1. ChainExact(b) /\ chains[b] \in Seq(Items)
    BY DEF TableInv, ChainExact
  <2>2. chains[b] = <<>>
    <3>1. Range(chains[b]) = {}
      BY <1>2, <2>1 DEF ChainExact
    <3> QED BY <2>1, <3>1, EmptyRange
  <2>3. primary_hashtable'[b] = At(chains[b], 1)
    BY <2>2 DEF At
  <2> QED BY <1>2, <2>1, <2>3 DEF ChainExact
<1>4. TableInv'
  BY <1>1, <1>2, <1>3 DEF TableInv, Forward, Backward, At
<1>5. WalkInv'
  BY DEF WalkInv, WalkIsValid, WalkOrder, Counted
<1> QED BY <1>4, <1>5

\* hashitem_alloc: no item of the table is allocated again.
LEMMA AllocStep ==
  ASSUME TableInv, WalkInv, NEW x \in Items, hashitem_alloc(x)
  PROVE  (TableInv /\ WalkInv)'
<1> USE DEF hashitem_alloc, table, walk, history
<1>1. TypeOK'
  BY DEF TableInv, TypeOK, Allocated
<1>2. x \notin Range(order) /\ Range(order) \subseteq heap' /\ order' = order /\ chains' = chains
  BY DEF TableInv
<1>3. \A y \in Items : y # x => next'[y] = next[y] /\ prev'[y] = prev[y] /\ h_next'[y] = h_next[y]
  BY DEF TableInv, TypeOK
<1>4. Range(order) \subseteq Items
  BY DEF TableInv, TypeOK, Range
<1>5. Forward(next', order) /\ Backward(prev', order)
  BY <1>2, <1>3, <1>4, LinksSame DEF TableInv
<1>6. \A b \in Buckets : ChainExact(b)'
  <2> TAKE b \in Buckets
  <2>1. ChainExact(b)
    BY DEF TableInv
  <2>2. Range(chains[b]) \subseteq Range(order)
    BY <2>1 DEF ChainExact
  <2>3. Forward(h_next', chains[b])
    <3>1. \A y \in Range(chains[b]) : h_next'[y] = h_next[y]
      BY <1>2, <1>3, <1>4, <2>2
    <3> QED BY <2>1, <3>1, LinksSame DEF ChainExact
  <2> QED BY <1>2, <2>1, <2>3 DEF ChainExact
<1>7. TableInv'
  BY <1>1, <1>2, <1>5, <1>6 DEF TableInv
<1>8. WalkInv'
  BY DEF WalkInv, WalkIsValid, WalkOrder, Counted
<1> QED BY <1>7, <1>8

\* hashitem_free: no item of the table is freed by the program.
LEMMA FreeStep ==
  ASSUME TableInv, WalkInv, NEW x \in Items, hashitem_free(x)
  PROVE  (TableInv /\ WalkInv)'
<1> USE DEF hashitem_free, table, links, walk, history
<1>1. TypeOK'
  BY DEF TableInv, TypeOK
<1>2. \A b \in Buckets : ChainExact(b)'
  BY DEF TableInv, ChainExact
<1>3. TableInv'
  BY <1>1, <1>2 DEF TableInv
<1>4. WalkInv'
  BY DEF WalkInv, WalkIsValid, WalkOrder, Counted
<1> QED BY <1>3, <1>4

\* hashtable_insert puts the item last in the list and first in its chain.
LEMMA InsertStep ==
  ASSUME TableInv, WalkInv, NEW x \in Items, hashtable_insert(x)
  PROVE  (TableInv /\ WalkInv)'
<1> DEFINE k == KeyOf[x]
           b == BucketOf[k]
<1>1. k \in Keys /\ b \in Buckets
  BY KeyOfAssumption, BucketOfAssumption
<1>2. TypeOK /\ order \in Seq(Items) /\ IsInjective(order) /\ x \in heap
  BY DEF TableInv, TypeOK, hashtable_insert
<1>3. \A y \in Range(order) : KeyOf[y] # k
  <2>1. hashtable_find(k) = Null
    BY DEF hashtable_insert
  <2>2. Null \notin Range(order)
    BY <1>2, NullAssumption DEF Range
  <2> QED BY <1>1, <2>1, <2>2, FindExact
<1>4. x \in Items \ Range(order)
  BY <1>3
<1>5. order' = Append(order, x)
  BY DEF hashtable_insert
<1>6. AddsLast(order, x, order')
  BY <1>2, <1>4, <1>5, AppendAdds
<1>7. ChainExact(b) /\ chains[b] \in Seq(Items) /\ IsInjective(chains[b])
  BY <1>1 DEF TableInv, ChainExact
<1>8. x \in Items \ Range(chains[b])
  BY <1>4, <1>7 DEF ChainExact
<1> HIDE DEF k, b
<1>9. /\ h_next' = [h_next EXCEPT ![x] = primary_hashtable[b]]
      /\ primary_hashtable' = [primary_hashtable EXCEPT ![b] = x]
      /\ chains' = [chains EXCEPT ![b] = <<x>> \o @]
      /\ next' = [y \in Items |-> IF y = x THEN Null ELSE IF y = tail THEN x ELSE next[y]]
      /\ prev' = [prev EXCEPT ![x] = tail]
      /\ tail' = x /\ head' = NewHead(x)
      /\ hash_items' = hash_items + 1
      /\ live /\ live' = live /\ heap' = heap
  BY DEF hashtable_insert, k, b
<1>10. chains'[b] = <<x>> \o chains[b]
  BY <1>1, <1>2, <1>9 DEF TypeOK
<1>11. AddsFirst(chains[b], x, chains'[b])
  BY <1>7, <1>8, <1>10, ConcatAdds
<1>12. /\ Range(order') = Range(order) \cup {x} /\ IsInjective(order')
       /\ At(order', 1) = (IF order = <<>> THEN x ELSE At(order, 1))
       /\ At(order', Len(order')) = x
  BY <1>6, AddsLastItems
<1>13. order' \in Seq(Items) /\ Len(order') = Len(order) + 1
  BY <1>6 DEF AddsLast
<1>14. \A y \in Range(order) : y \in Items /\ y # x
  BY <1>2, <1>4 DEF Range
<1>15. Forward(next', order')
  <2>1. Forward(next, order) /\ tail = At(order, Len(order))
    BY DEF TableInv
  <2>2. next'[x] = Null
    BY <1>9
  <2>3. \A y \in Range(order) : next'[y] = IF y = At(order, Len(order)) THEN x ELSE next[y]
    BY <1>9, <1>14, <2>1
  <2> QED BY <1>6, <2>1, <2>2, <2>3, ForwardLast
<1>16. Backward(prev', order')
  <2>1. Backward(prev, order) /\ tail = At(order, Len(order))
    BY DEF TableInv
  <2>2. prev'[x] = At(order, Len(order))
    BY <1>2, <1>9, <2>1 DEF TypeOK
  <2>3. \A y \in Range(order) : prev'[y] = prev[y]
    BY <1>2, <1>9, <1>14 DEF TypeOK
  <2> QED BY <1>6, <2>1, <2>2, <2>3, BackwardLast
<1>17. ASSUME NEW a \in Buckets
       PROVE  ChainExact(a)'
  <2>1. ChainExact(a)
    BY DEF TableInv
  <2>2. CASE a = b
    <3>1. /\ Range(chains'[b]) = Range(chains[b]) \cup {x} /\ IsInjective(chains'[b])
          /\ At(chains'[b], 1) = x
      BY <1>11, AddsFirstItems
    <3>2. chains'[b] \in Seq(Items)
      BY <1>11 DEF AddsFirst
    <3>3. Forward(h_next', chains'[b])
      <4>1. Forward(h_next, chains[b]) /\ primary_hashtable[b] = At(chains[b], 1)
        BY <1>7 DEF ChainExact
      <4>2. h_next'[x] = At(chains[b], 1)
        BY <1>2, <1>9, <4>1 DEF TypeOK
      <4>3. \A y \in Range(chains[b]) : h_next'[y] = h_next[y]
        BY <1>2, <1>7, <1>8, <1>9, <1>14 DEF TypeOK, ChainExact
      <4> QED BY <1>11, <4>1, <4>2, <4>3, ForwardFirst
    <3>4. primary_hashtable'[b] = At(chains'[b], 1)
      BY <1>1, <1>2, <1>9, <3>1 DEF TypeOK
    <3>5. Range(chains'[b]) = {y \in Range(order') : BucketOf[KeyOf[y]] = b}
      BY <1>7, <1>12, <3>1 DEF ChainExact, b, k
    <3> QED BY <2>2, <3>1, <3>2, <3>3, <3>4, <3>5 DEF ChainExact
  <2>3. CASE a # b
    <3>1. chains'[a] = chains[a] /\ primary_hashtable'[a] = primary_hashtable[a]
      BY <1>2, <1>9, <2>3 DEF TypeOK
    <3>2. \A y \in Range(chains[a]) : h_next'[y] = h_next[y]
      BY <1>2, <1>9, <1>14, <2>1 DEF TypeOK, ChainExact
    <3>3. Forward(h_next', chains[a])
      BY <2>1, <3>2, LinksSame DEF ChainExact
    <3>4. Range(chains[a]) = {y \in Range(order') : BucketOf[KeyOf[y]] = a}
      BY <1>12, <2>1, <2>3 DEF ChainExact, b, k
    <3> QED BY <2>1, <3>1, <3>3, <3>4 DEF ChainExact
  <2> QED BY <2>2, <2>3
<1>18. TypeOK'
  <2>1. chains' \in [Buckets -> Seq(Items)]
    BY <1>1, <1>2, <1>9, <1>11 DEF TypeOK, AddsFirst
  <2>2. /\ primary_hashtable' \in [Buckets -> Allocated] /\ h_next' \in [Items -> Allocated]
        /\ next' \in [Items -> Allocated] /\ prev' \in [Items -> Allocated]
        /\ head' \in Allocated /\ tail' \in Allocated
    BY <1>1, <1>2, <1>9 DEF TypeOK, Allocated, NewHead
  <2>3. hash_items' \in Nat
    BY <1>2, <1>9 DEF TypeOK
  <2> QED BY <1>2, <1>9, <1>13, <2>1, <2>2, <2>3 DEF TypeOK, hashtable_insert, walk
<1>19. head' = At(order', 1)
  <2>1. head = At(order, 1)
    BY DEF TableInv
  <2>2. head = Null <=> order = <<>>
    BY <1>2, <2>1, NullAssumption DEF At
  <2> QED BY <1>9, <1>12, <2>1, <2>2 DEF NewHead
<1>20. \A y, z \in Range(order') : KeyOf[y] = KeyOf[z] => y = z
  <2>1. \A y, z \in Range(order) : KeyOf[y] = KeyOf[z] => y = z
    BY DEF TableInv
  <2> QED BY <1>3, <1>12, <2>1 DEF k
<1>21. Range(order') \subseteq heap' /\ hash_items' = Len(order')
  BY <1>2, <1>9, <1>12, <1>13 DEF TableInv
<1>22. TableInv'
  BY <1>9, <1>12, <1>15, <1>16, <1>17, <1>18, <1>19, <1>20, <1>21 DEF TableInv
<1>23. WalkInv'
  <2>1. pc' = pc /\ hi' = hi /\ nxt' = nxt /\ i' = i /\ n' = n /\ unvisited' = unvisited
    BY DEF hashtable_insert, walk
  <2>2. pc # "loop"
    BY DEF hashtable_insert, InProgram
  <2>3. From(order, nxt) \subseteq From(order', nxt)
    BY <1>6, FromLast
  <2> QED BY <1>12, <2>1, <2>2, <2>3 DEF WalkInv, WalkIsValid, WalkOrder, Counted
<1> QED BY <1>22, <1>23

\* hashtable_remove takes the item out of the list and out of its chain, wherever
\* it is in them, and never the one that a walk will visit next.
LEMMA RemoveStep ==
  ASSUME TableInv, WalkInv, NEW k \in Keys, hashtable_remove(k)
  PROVE  (TableInv /\ WalkInv)'
<1> DEFINE b == BucketOf[k]
<1>1. PICK x : x = hashtable_find(k) /\ x # Null
  BY DEF hashtable_remove
<1>2. b \in Buckets /\ TypeOK /\ order \in Seq(Items) /\ IsInjective(order)
  BY BucketOfAssumption DEF TableInv, TypeOK
<1>3. x \in Range(order) /\ KeyOf[x] = k
  BY <1>1, FindExact
<1>4. PICK m \in DOMAIN order : order[m] = x
  BY <1>3 DEF Range
<1>5. PICK q \in DOMAIN chains[b] :
        chains[b][q] = x /\ hashitem_before(k) = At(chains[b], q - 1)
  BY <1>3, FindsListed
<1>6. ChainExact(b) /\ chains[b] \in Seq(Items) /\ IsInjective(chains[b])
  BY <1>2 DEF TableInv, ChainExact
<1>7. PICK before : before = At(chains[b], q - 1)
  OBVIOUS
<1> HIDE DEF b
<1>8. /\ pc = "func" => x # nxt
      /\ primary_hashtable' = IF before = Null
                              THEN [primary_hashtable EXCEPT ![b] = h_next[x]]
                              ELSE primary_hashtable
      /\ h_next' = [y \in Items |-> IF y = x THEN Null
                                    ELSE IF y = before THEN h_next[x] ELSE h_next[y]]
      /\ head' = IF x = head THEN next[x] ELSE head
      /\ tail' = IF x = tail THEN prev[x] ELSE tail
      /\ next' = [y \in Items |-> IF y = x THEN Null
                                  ELSE IF y = prev[x] THEN next[x] ELSE next[y]]
      /\ prev' = [y \in Items |-> IF y = x THEN Null
                                  ELSE IF y = next[x] THEN prev[x] ELSE prev[y]]
      /\ order' = Without(order, x)
      /\ chains' = [chains EXCEPT ![b] = Without(@, x)]
      /\ unvisited' = unvisited \ {x}
      /\ hash_items' = hash_items - 1
      /\ live /\ live' = live /\ heap' = heap
  BY <1>1, <1>5, <1>7 DEF hashtable_remove, Unchain, b
<1>9. LeavesOut(order, m, order')
  BY <1>2, <1>4, <1>8, WithoutLeavesOut
<1>10. chains'[b] = Without(chains[b], x)
  BY <1>2, <1>8 DEF TypeOK
<1>11. LeavesOut(chains[b], q, chains'[b])
  BY <1>5, <1>6, <1>10, WithoutLeavesOut
<1>12. /\ Range(order') = Range(order) \ {x} /\ IsInjective(order')
       /\ At(order', 1) = (IF m = 1 THEN At(order, 2) ELSE At(order, 1))
       /\ At(order', Len(order')) =
            (IF m = Len(order) THEN At(order, Len(order) - 1) ELSE At(order, Len(order)))
  BY <1>4, <1>9, LeavesOutOthers
<1>13. order' \in Seq(Items) /\ Len(order') = Len(order) - 1
  BY <1>9 DEF LeavesOut
<1>14. /\ Forward(next, order) /\ Backward(prev, order)
       /\ head = At(order, 1) /\ tail = At(order, Len(order))
  BY DEF TableInv
<1>15. /\ Len(order) \in Nat /\ m \in 1 .. Len(order) /\ DOMAIN order = 1 .. Len(order)
       /\ 1 \in 1 .. Len(order) /\ Len(order) \in 1 .. Len(order)
  BY <1>2
<1>16. next[x] = At(order, m + 1) /\ prev[x] = At(order, m - 1)
  BY <1>4, <1>14 DEF Forward, Backward
<1>17. \A y \in Range(order) : y \in Items
  BY <1>2 DEF Range
<1>18. Forward(next', order')
  <2>1. \A y \in Range(order) \ {order[m]} :
          next'[y] = IF y = At(order, m - 1) THEN next[order[m]] ELSE next[y]
    BY <1>4, <1>8, <1>16, <1>17
  <2> QED BY <1>9, <1>14, <2>1, ForwardAround
<1>19. Backward(prev', order')
  <2>1. \A y \in Range(order) \ {order[m]} :
          prev'[y] = IF y = At(order, m + 1) THEN prev[order[m]] ELSE prev[y]
    BY <1>4, <1>8, <1>16, <1>17
  <2> QED BY <1>9, <1>14, <2>1, BackwardAround
<1>20. head' = At(order', 1)
  <2>1. \A j \in DOMAIN order : order[j] = order[m] => j = m
    BY <1>2 DEF IsInjective
  <2>2. At(order, 1) = order[1]
    BY <1>15 DEF At
  <2>3. x = head <=> m = 1
    BY <1>4, <1>14, <1>15, <2>1, <2>2
  <2>4. m = 1 => m + 1 = 2
    OBVIOUS
  <2> QED BY <1>8, <1>12, <1>14, <1>16, <2>3, <2>4
<1>21. tail' = At(order', Len(order'))
  <2>1. \A j \in DOMAIN order : order[j] = order[m] => j = m
    BY <1>2 DEF IsInjective
  <2>2. At(order, Len(order)) = order[Len(order)]
    BY <1>15 DEF At
  <2>3. x = tail <=> m = Len(order)
    BY <1>4, <1>14, <1>15, <2>1, <2>2
  <2> QED BY <1>8, <1>12, <1>14, <1>16, <2>3
<1>22. ASSUME NEW a \in Buckets
       PROVE  ChainExact(a)'
  <2>1. ChainExact(a)
    BY DEF TableInv
  <2>2. CASE a = b
    <3>1. /\ Range(chains'[b]) = Range(chains[b]) \ {x} /\ IsInjective(chains'[b])
          /\ At(chains'[b], 1) = (IF q = 1 THEN At(chains[b], 2) ELSE At(chains[b], 1))
      BY <1>5, <1>11, LeavesOutOthers
    <3>2. chains'[b] \in Seq(Items)
      BY <1>11 DEF LeavesOut
    <3>3. Forward(h_next, chains[b]) /\ primary_hashtable[b] = At(chains[b], 1)
      BY <1>6 DEF ChainExact
    <3>4. Forward(h_next', chains'[b])
      <4>1. \A y \in Range(chains[b]) : y \in Items
        BY <1>6 DEF Range
      <4>2. \A y \in Range(chains[b]) \ {chains[b][q]} :
              h_next'[y] = IF y = At(chains[b], q - 1) THEN h_next[chains[b][q]] ELSE h_next[y]
        BY <1>5, <1>7, <1>8, <4>1
      <4> QED BY <1>11, <3>3, <4>2, ForwardAround
    <3>5. primary_hashtable'[b] = At(chains'[b], 1)
      <4>1. q \in Nat /\ q \in 1 .. Len(chains[b])
        BY <1>6
      <4>2. h_next[x] = At(chains[b], q + 1)
        BY <1>5, <3>3 DEF Forward
      <4>3. CASE q = 1
        <5>1. before = Null
          BY <1>6, <1>7, <4>3 DEF At
        <5>2. primary_hashtable'[b] = h_next[x]
          BY <1>2, <1>8, <5>1 DEF TypeOK
        <5>3. q + 1 = 2
          BY <4>3
        <5> QED BY <3>1, <4>2, <4>3, <5>2, <5>3
      <4>4. CASE q # 1
        <5>1. q - 1 \in 1 .. Len(chains[b])
          BY <4>1, <4>4
        <5>2. before # Null
          BY <1>6, <1>7, <5>1, AtIs
        <5> QED BY <1>8, <3>1, <3>3, <4>4, <5>2
      <4> QED BY <4>3, <4>4
    <3>6. Range(chains'[b]) = {y \in Range(order') : BucketOf[KeyOf[y]] = b}
      BY <1>6, <1>12, <3>1 DEF ChainExact
    <3> QED BY <2>2, <3>1, <3>2, <3>4, <3>5, <3>6 DEF ChainExact
  <2>3. CASE a # b
    <3>1. chains'[a] = chains[a] /\ primary_hashtable'[a] = primary_hashtable[a]
      BY <1>2, <1>8, <2>3 DEF TypeOK
    <3>2. before \in Range(chains[b]) \cup {Null}
      BY <1>7 DEF At, Range
    <3>3. \A y \in Range(chains[a]) : y \in Items /\ y # x /\ y # before
      <4>1. \A y \in Range(chains[a]) : y \in Items /\ BucketOf[KeyOf[y]] = a
        BY <1>17, <2>1 DEF ChainExact
      <4>2. before = Null \/ BucketOf[KeyOf[before]] = b
        BY <1>6, <3>2 DEF ChainExact
      <4>3. BucketOf[KeyOf[x]] = b
        BY <1>3 DEF b
      <4> QED BY <2>3, <4>1, <4>2, <4>3, NullAssumption
    <3>4. \A y \in Range(chains[a]) : h_next'[y] = h_next[y]
      BY <1>8, <3>3
    <3>5. Forward(h_next', chains[a])
      BY <2>1, <3>4, LinksSame DEF ChainExact
    <3>6. Range(chains[a]) = {y \in Range(order') : BucketOf[KeyOf[y]] = a}
      BY <1>12, <2>1, <3>3 DEF ChainExact
    <3> QED BY <2>1, <3>1, <3>5, <3>6 DEF ChainExact
  <2> QED BY <2>2, <2>3
<1>23. TypeOK'
  <2>1. chains' \in [Buckets -> Seq(Items)]
    BY <1>2, <1>8, <1>10, <1>11 DEF TypeOK, LeavesOut
  <2>2. x \in Items /\ next[x] \in Allocated /\ prev[x] \in Allocated /\ h_next[x] \in Allocated
    BY <1>2, <1>3, <1>17 DEF TypeOK
  <2>3. /\ primary_hashtable' \in [Buckets -> Allocated] /\ h_next' \in [Items -> Allocated]
        /\ next' \in [Items -> Allocated] /\ prev' \in [Items -> Allocated]
        /\ head' \in Allocated /\ tail' \in Allocated
    BY <1>2, <1>8, <2>2 DEF TypeOK, Allocated
  <2>4. hash_items' \in Nat
    BY <1>8, <1>15 DEF TableInv
  <2>5. unvisited' \subseteq Items
    BY <1>2, <1>8 DEF TypeOK
  <2> QED BY <1>2, <1>8, <1>13, <2>1, <2>3, <2>4, <2>5 DEF TypeOK, hashtable_remove, walk
<1>24. \A y, z \in Range(order') : KeyOf[y] = KeyOf[z] => y = z
  BY <1>12 DEF TableInv
<1>25. Range(order') \subseteq heap' /\ hash_items' = Len(order')
  BY <1>8, <1>12, <1>13 DEF TableInv
<1>26. TableInv'
  BY <1>8, <1>12, <1>18, <1>19, <1>20, <1>21, <1>22, <1>23, <1>24, <1>25 DEF TableInv
<1>27. WalkInv'
  <2>1. pc' = pc /\ hi' = hi /\ nxt' = nxt /\ i' = i /\ n' = n
    BY DEF hashtable_remove, walk
  <2>2. pc # "loop"
    BY DEF hashtable_remove, InProgram
  <2>3. ASSUME pc = "func"
        PROVE  From(order, nxt) \ {x} \subseteq From(order', nxt)
    BY <1>4, <1>8, <1>9, <2>3, FromLeavesOut
  <2>4. pc = "func" => nxt \in Range(order') \cup {Null}
    BY <1>8, <1>12 DEF WalkInv, WalkIsValid
  <2>5. pc = "func" => unvisited' \subseteq From(order', nxt)
    BY <1>8, <2>3 DEF WalkInv, WalkOrder
  <2> QED BY <2>1, <2>2, <2>4, <2>5 DEF WalkInv, WalkIsValid, WalkOrder, Counted
<1> QED BY <1>26, <1>27

\* hashtable_clear takes out every item of the table and counts it.
LEMMA ClearStep ==
  ASSUME TableInv, WalkInv, NEW destroy \in BOOLEAN, hashtable_clear(destroy)
  PROVE  (TableInv /\ WalkInv)'
<1>1. TypeOK /\ order \in Seq(Items) /\ IsInjective(order)
  BY DEF TableInv, TypeOK
<1>2. Listed = Range(order)
  BY MetIs DEF Listed, TableInv, TypeOK
<1>3. hash_items' = 0
  <2>1. hash_items' = hash_items - Cardinality(Range(order))
    BY <1>2 DEF hashtable_clear
  <2>2. hash_items = Len(order) /\ Cardinality(Range(order)) = Len(order) /\ Len(order) \in Nat
    BY <1>1, CardinalityOfRange DEF TableInv
  <2> QED BY <2>1, <2>2
<1>4. order' = <<>> /\ Len(order') = 0 /\ Range(order') = {} /\ IsInjective(order')
  BY DEF hashtable_clear, Range, IsInjective
<1>5. TypeOK'
  <2>1. order' \in Seq(Items) /\ chains' \in [Buckets -> Seq(Items)]
    BY DEF hashtable_clear
  <2> QED BY <1>1, <1>3, <2>1 DEF hashtable_clear, TypeOK, Allocated, walk
<1>6. \A b \in Buckets : ChainExact(b)'
  BY <1>4 DEF hashtable_clear, ChainExact, IsInjective, Forward, At, Range
<1>7. head' = Null /\ tail' = Null
  BY DEF hashtable_clear
<1>8. TableInv'
  BY <1>3, <1>4, <1>5, <1>6, <1>7 DEF TableInv, Forward, Backward, At
<1>9. WalkInv'
  BY DEF hashtable_clear, walk, WalkInv, WalkIsValid, WalkOrder, Counted
<1> QED BY <1>8, <1>9

-----------------------------------------------------------------------------
(* The walk.                                                               *)

\* A step that leaves the table alone keeps the invariant of the table.
LEMMA TableUnchanged ==
  ASSUME TableInv, TypeOK',
         UNCHANGED <<primary_hashtable, live, head, tail, hash_items, next, prev, h_next, heap,
                     order, chains>>
  PROVE  TableInv'
<1>1. \A b \in Buckets : ChainExact(b)'
  BY DEF TableInv, ChainExact
<1> QED BY <1>1 DEF TableInv

\* A walk begins before all items.
LEMMA ApplyStep ==
  ASSUME TableInv, WalkInv, NEW limit \in 0 .. MaxN, hashtable_apply(limit)
  PROVE  (TableInv /\ WalkInv)'
<1>1. TypeOK /\ order \in Seq(Items) /\ head = At(order, 1)
  BY DEF TableInv, TypeOK
<1>2. Range(order) \subseteq Items
  BY <1>1 DEF Range
<1>3. TypeOK'
  BY <1>1, <1>2, MaxNAssumption DEF hashtable_apply, TypeOK, table, links, Allocated
<1>4. TableInv'
  BY <1>3, TableUnchanged DEF hashtable_apply, table, links
<1>5. head \in Range(order) \cup {Null}
  BY <1>1 DEF At, Range
<1>6. Range(order) \subseteq From(order, head)
  <2>1. ASSUME NEW j \in DOMAIN order
        PROVE  order[j] \in From(order, head)
    <3>1. 1 \in 1 .. j /\ 1 \in DOMAIN order
      BY <1>1
    <3>2. order[1] = head
      BY <1>1, <3>1 DEF At
    <3> QED BY <3>1, <3>2 DEF From
  <2> QED BY <2>1 DEF Range
<1>7. WalkInv'
  BY <1>5, <1>6 DEF hashtable_apply, WalkInv, WalkIsValid, WalkOrder, Counted
<1> QED BY <1>4, <1>7

\* What comes from an item on, but not the item, comes from the next one on.
LEMMA FromNext ==
  ASSUME NEW s \in Seq(Items), IsInjective(s), NEW m \in DOMAIN s
  PROVE  From(s, s[m]) \ {s[m]} \subseteq From(s, At(s, m + 1))
<1>1. DOMAIN s = 1 .. Len(s) /\ Len(s) \in Nat
  OBVIOUS
<1>2. \A j, k \in DOMAIN s : s[j] = s[k] => j = k
  BY DEF IsInjective
<1>3. ASSUME NEW y \in From(s, s[m]) \ {s[m]}
      PROVE  y \in From(s, At(s, m + 1))
  <2>1. PICK j \in DOMAIN s : y = s[j] /\ \E k \in 1 .. j : s[k] = s[m]
    BY DEF From
  <2>2. PICK k \in 1 .. j : s[k] = s[m]
    BY <2>1
  <2>3. k \in DOMAIN s
    BY <1>1, <2>2
  <2>4. k = m
    BY <1>2, <2>2, <2>3
  <2>5. j # m
    BY <1>3, <2>1
  <2>6. m + 1 \in 1 .. j /\ m + 1 \in DOMAIN s
    BY <1>1, <2>2, <2>4, <2>5
  <2>7. s[m + 1] = At(s, m + 1)
    BY <2>6 DEF At
  <2> QED BY <2>1, <2>6, <2>7 DEF From
<1> QED BY <1>3

\* The walk visits an item and reads the next one.
LEMMA VisitStep ==
  ASSUME TableInv, WalkInv, apply_visit
  PROVE  (TableInv /\ WalkInv)'
<1>1. TypeOK /\ order \in Seq(Items) /\ IsInjective(order) /\ Forward(next, order)
  BY DEF TableInv, TypeOK
<1>2. hi \in Range(order)
  BY DEF apply_visit, WalkInv, WalkIsValid
<1>3. PICK m \in DOMAIN order : order[m] = hi
  BY <1>2 DEF Range
<1>4. nxt' = At(order, m + 1)
  BY <1>1, <1>3 DEF apply_visit, Forward
<1>5. nxt' \in Range(order) \cup {Null}
  BY <1>4 DEF At, Range
<1>6. TypeOK'
  <2>1. nxt' \in Allocated /\ unvisited' \subseteq Items
    BY <1>1, <1>5 DEF Range, Allocated, TypeOK, apply_visit
  <2> QED BY <1>1, <2>1 DEF apply_visit, TypeOK, table, links
<1>7. TableInv'
  BY <1>6, TableUnchanged DEF apply_visit, table, links
<1>8. unvisited' \subseteq From(order, nxt')
  <2>1. From(order, hi) \ {hi} \subseteq From(order, nxt')
    BY <1>1, <1>3, <1>4, FromNext
  <2> QED BY <2>1 DEF apply_visit, WalkInv, WalkOrder
<1>9. Counted'
  <2>1. n \in Nat /\ i \in Nat
    BY <1>1, MaxNAssumption DEF TypeOK
  <2>2. ~(n > 0 /\ i >= n) /\ n' = n /\ i' = i
    BY DEF apply_visit, LimitReached
  <2> QED BY <2>1, <2>2 DEF Counted
<1>10. WalkInv'
  BY <1>5, <1>8, <1>9 DEF apply_visit, WalkInv, WalkIsValid, WalkOrder
<1> QED BY <1>7, <1>10

\* The callback has returned.
LEMMA ReturnStep ==
  ASSUME TableInv, WalkInv, NEW counted \in BOOLEAN, apply_func_returns(counted)
  PROVE  (TableInv /\ WalkInv)'
<1>1. TypeOK
  BY DEF TableInv
<1>2. n \in 0 .. MaxN /\ i \in 0 .. MaxN /\ MaxN \in Nat
  BY <1>1, MaxNAssumption DEF TypeOK
<1>3. n > 0 => i < n
  BY DEF WalkInv, Counted, apply_func_returns
<1>4. i' \in 0 .. MaxN /\ (n > 0 => i' <= n)
  BY <1>2, <1>3 DEF apply_func_returns
<1>5. TypeOK'
  BY <1>1, <1>4 DEF apply_func_returns, TypeOK, table, links, history, Allocated
<1>6. TableInv'
  BY <1>5, TableUnchanged DEF apply_func_returns, table, links, history
<1>7. WalkInv'
  BY <1>4 DEF apply_func_returns, history, WalkInv, WalkIsValid, WalkOrder, Counted
<1> QED BY <1>6, <1>7

\* The walk is over.
LEMMA EndStep ==
  ASSUME TableInv, WalkInv, apply_ends
  PROVE  (TableInv /\ WalkInv)'
<1>1. TypeOK'
  BY MaxNAssumption DEF TableInv, TypeOK, apply_ends, WalkOver, table, links, Allocated
<1>2. TableInv'
  BY <1>1, TableUnchanged DEF apply_ends, table, links
<1>3. WalkInv'
  BY DEF apply_ends, WalkOver, WalkInv, WalkIsValid, WalkOrder, Counted
<1> QED BY <1>2, <1>3

\* apply2 turns the list so that it begins where the walk stopped.
LEMMA RotateStep ==
  ASSUME TableInv, WalkInv, apply2_rotates
  PROVE  (TableInv /\ WalkInv)'
<1>1. /\ TypeOK /\ order \in Seq(Items) /\ IsInjective(order)
      /\ Forward(next, order) /\ Backward(prev, order)
      /\ head = At(order, 1) /\ tail = At(order, Len(order))
  BY DEF TableInv, TypeOK
<1>2. hi \in Range(order)
  BY DEF apply2_rotates, WalkInv, WalkIsValid
<1>3. PICK m \in DOMAIN order : order[m] = hi
  BY <1>2 DEF Range
<1>4. /\ Len(order) \in Nat /\ m \in 1 .. Len(order) /\ DOMAIN order = 1 .. Len(order)
      /\ 1 \in DOMAIN order /\ Len(order) \in DOMAIN order
  BY <1>1
<1>5. head = order[1] /\ tail = order[Len(order)] /\ head \in Items /\ tail \in Items /\ hi \in Items
  BY <1>1, <1>3, <1>4 DEF At
<1>6. PICK d : d = Len(order) - m + 1
  OBVIOUS
<1>7. order' = Rotated(order[m])
  BY <1>3 DEF apply2_rotates
<1>8. Turns(order, m, d, order')
  BY <1>1, <1>6, <1>7, RotatedTurns
<1>9. /\ Range(order') = Range(order) /\ IsInjective(order')
      /\ At(order', 1) = order[m]
      /\ At(order', Len(order')) = IF m = 1 THEN order[Len(order)] ELSE order[m - 1]
  BY <1>8, TurnsItems
<1>10. order' \in Seq(Items) /\ Len(order') = Len(order)
  BY <1>8 DEF Turns
<1>11. PICK last : last = At(order', Len(order'))
  OBVIOUS
<1>12. [prev EXCEPT ![head] = tail][hi] = last
  <2>1. prev \in [Items -> Allocated]
    BY <1>1 DEF TypeOK
  <2>2. CASE m = 1
    BY <1>3, <1>5, <1>9, <1>11, <2>1, <2>2
  <2>3. CASE m # 1
    <3>1. hi # head
      BY <1>1, <1>3, <1>4, <1>5, <2>3 DEF IsInjective
    <3>2. m - 1 \in DOMAIN order
      BY <1>4, <2>3
    <3>3. prev[hi] = order[m - 1]
      BY <1>1, <1>3, <3>2 DEF Backward, At
    <3> QED BY <1>5, <1>9, <1>11, <2>1, <2>3, <3>1, <3>3
  <2> QED BY <2>2, <2>3
<1>13. /\ head' = hi /\ tail' = last
       /\ prev' = [[prev EXCEPT ![head] = tail] EXCEPT ![hi] = Null]
       /\ next' = [[next EXCEPT ![tail] = head] EXCEPT ![last] = Null]
  BY <1>12 DEF apply2_rotates
<1>14. last \in Items
  <2>1. m # 1 => m - 1 \in DOMAIN order
    BY <1>4
  <2> QED BY <1>1, <1>4, <1>9, <1>11, <2>1
<1>15. next \in [Items -> Allocated] /\ prev \in [Items -> Allocated]
  BY <1>1 DEF TypeOK
<1>16. \A y \in Range(order) : y \in Items
  BY <1>1 DEF Range
<1>17. Forward(next', order')
  <2>1. \A y \in Range(order) :
          next'[y] = IF y = last THEN Null ELSE IF y = order[Len(order)] THEN order[1] ELSE next[y]
    BY <1>5, <1>13, <1>14, <1>15, <1>16
  <2> QED BY <1>1, <1>8, <1>11, <2>1, ForwardTurned
<1>18. Backward(prev', order')
  <2>1. \A y \in Range(order) :
          prev'[y] = IF y = order[m] THEN Null ELSE IF y = order[1] THEN order[Len(order)] ELSE prev[y]
    BY <1>3, <1>5, <1>13, <1>15, <1>16
  <2> QED BY <1>1, <1>8, <2>1, BackwardTurned
<1>19. TypeOK'
  <2>1. next' \in [Items -> Allocated] /\ prev' \in [Items -> Allocated]
        /\ head' \in Allocated /\ tail' \in Allocated
    BY <1>5, <1>13, <1>14, <1>15 DEF Allocated
  <2> QED BY <1>1, <1>10, <2>1, MaxNAssumption DEF TypeOK, apply2_rotates, WalkOver, Allocated
<1>20. \A b \in Buckets : ChainExact(b)'
  BY <1>9 DEF TableInv, ChainExact, apply2_rotates
<1>21. TableInv'
  <2>1. head' = At(order', 1) /\ tail' = At(order', Len(order'))
    BY <1>3, <1>9, <1>11, <1>13
  <2>2. /\ \A x, y \in Range(order') : KeyOf[x] = KeyOf[y] => x = y
        /\ Range(order') \subseteq heap' /\ hash_items' = Len(order')
    BY <1>9, <1>10 DEF TableInv, apply2_rotates
  <2>3. live' = live /\ live
    <3>1. order # <<>>
      BY <1>4
    <3> QED BY <1>1, <3>1 DEF TableInv, TypeOK, apply2_rotates
  <2> QED BY <1>9, <1>17, <1>18, <1>19, <1>20, <2>1, <2>2, <2>3 DEF TableInv
<1>22. WalkInv'
  BY DEF apply2_rotates, WalkOver, WalkInv, WalkIsValid, WalkOrder, Counted
<1> QED BY <1>21, <1>22

-----------------------------------------------------------------------------
(* The theorems.                                                           *)

\* Every step keeps the invariant.
LEMMA StepKeeps ==
  ASSUME TableInv, WalkInv, [Next]_vars
  PROVE  (TableInv /\ WalkInv)'
<1>1. CASE hashtable_init
  BY <1>1, InitStep
<1>2. CASE \E x \in Items : hashitem_alloc(x) \/ hashitem_free(x) \/ hashtable_insert(x)
  BY <1>2, AllocStep, FreeStep, InsertStep
<1>3. CASE \E k \in Keys : hashtable_remove(k)
  BY <1>3, RemoveStep
<1>4. CASE \E destroy \in BOOLEAN : hashtable_clear(destroy)
  BY <1>4, ClearStep
<1>5. CASE \E limit \in 0 .. MaxN : hashtable_apply(limit)
  BY <1>5, ApplyStep
<1>6. CASE apply_visit
  BY <1>6, VisitStep
<1>7. CASE \E counted \in BOOLEAN : apply_func_returns(counted)
  BY <1>7, ReturnStep
<1>8. CASE apply_ends
  BY <1>8, EndStep
<1>9. CASE apply2_rotates
  BY <1>9, RotateStep
<1>10. CASE UNCHANGED vars
  <2>1. TypeOK'
    BY <1>10 DEF TableInv, TypeOK, vars
  <2>2. TableInv'
    BY <1>10, <2>1, TableUnchanged DEF vars
  <2>3. WalkInv'
    BY <1>10 DEF WalkInv, WalkIsValid, WalkOrder, Counted, vars
  <2> QED BY <2>2, <2>3
<1> QED BY <1>1, <1>2, <1>3, <1>4, <1>5, <1>6, <1>7, <1>8, <1>9, <1>10 DEF Next

\* The inductive invariant: the table and the walk, whatever the program and the
\* callbacks of hashtable_apply and hashtable_apply2 do.
THEOREM TableInvariance == Spec => [](TableInv /\ WalkInv)
<1>1. TableInv /\ WalkInv /\ [Next]_vars => (TableInv /\ WalkInv)'
  BY StepKeeps
<1> QED BY InitTable, <1>1, PTL DEF Spec

\* The list, walked either way, and the chains of the buckets are two exact views
\* of one table, with each key once, after any sequence of insertions, removals,
\* walks with callbacks, rotations, clear, destroy and init.
THEOREM TableExactAlways == Spec => []TableExact
<1>1. TableInv => TableExact
  BY DEF TableInv, TableExact, ListExact, ChainsExact, ChainExact, Forward, Backward, IsInjective
<1> QED BY <1>1, TableInvariance, PTL

\* hashtable_find returns the item of the table that has the key, and NULL when
\* there is none: no chain hides an item that the list has.
THEOREM FindExactAlways ==
  Spec => [](\A k \in Keys : IF \E x \in Range(order) : KeyOf[x] = k
                             THEN hashtable_find(k) \in Range(order) /\ KeyOf[hashtable_find(k)] = k
                             ELSE hashtable_find(k) = Null)
<1>1. TableInv => \A k \in Keys : IF \E x \in Range(order) : KeyOf[x] = k
                                  THEN hashtable_find(k) \in Range(order) /\ KeyOf[hashtable_find(k)] = k
                                  ELSE hashtable_find(k) = Null
  BY FindExact
<1> QED BY <1>1, TableInvariance, PTL

\* A walk stands on an item of the table or at the end, also after callbacks that
\* removed and freed the item they were called for.
THEOREM WalkIsValidAlways == Spec => []WalkIsValid
<1>1. TableInv /\ WalkInv => WalkIsValid
  BY DEF WalkInv
<1> QED BY <1>1, TableInvariance, PTL

\* hashtable_apply misses no item that was in the table when it began and that no
\* callback removed: from no item on, there is nothing to come.
THEOREM ApplyVisitsAllAlways == Spec => []ApplyVisitsAll
<1>1. TableInv /\ WalkInv => ApplyVisitsAll
  <2> SUFFICES ASSUME TableInv, WalkInv, pc = "loop", hi = Null
               PROVE  unvisited = {}
    BY DEF ApplyVisitsAll
  <2>1. order \in Seq(Items)
    BY DEF TableInv, TypeOK
  <2>2. \A j \in DOMAIN order : order[j] # Null
    BY <2>1, NullAssumption
  <2>3. From(order, Null) = {}
    <3>1. \A j \in DOMAIN order : \A m \in 1 .. j : m \in DOMAIN order
      BY <2>1
    <3> QED BY <2>2, <3>1 DEF From
  <2> QED BY <2>3 DEF WalkInv, WalkOrder
<1> QED BY <1>1, TableInvariance, PTL
=============================================================================
