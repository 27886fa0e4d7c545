------------------------ MODULE ResourceCacheProofs -------------------------
(***************************************************************************)
(* Ring, map and values of ResourceCache<T> agree, for any set of keys and *)
(* any capacity but 0.  The functions on links are first shown to do to    *)
(* the ring what taking out and prepending does to a list of entries; the  *)
(* two cases of Set are then compositions of these.                        *)
(***************************************************************************)
EXTENDS ResourceCache, SequenceTheorems, FiniteSetTheorems, TLAPS

-----------------------------------------------------------------------------
(* Sequences.                                                              *)

\* What RemoveAt leaves.
LEMMA RemoveAtIs ==
  ASSUME NEW S, NEW s \in Seq(S), NEW k \in 1 .. Len(s)
  PROVE  /\ RemoveAt(s, k) \in Seq(S)
         /\ Len(RemoveAt(s, k)) = Len(s) - 1
         /\ \A i \in 1 .. Len(s) - 1 : RemoveAt(s, k)[i] = IF i < k THEN s[i] ELSE s[i + 1]
<1> DEFINE a == SubSeq(s, 1, k - 1)
           b == SubSeq(s, k + 1, Len(s))
<1>1. a \in Seq(S) /\ Len(a) = k - 1 /\ \A i \in 1 .. k - 1 : a[i] = s[i]
  OBVIOUS
<1>2. b \in Seq(S) /\ Len(b) = Len(s) - k /\ \A i \in 1 .. Len(s) - k : b[i] = s[i + k]
  OBVIOUS
<1>3. RemoveAt(s, k) = a \o b
  BY DEF RemoveAt
<1> HIDE DEF a, b
<1>4. a \o b \in Seq(S)
  BY <1>1, <1>2, ConcatProperties
<1>5. Len(a \o b) = Len(a) + Len(b)
  BY <1>1, <1>2, ConcatProperties
<1>6. \A i \in 1 .. Len(s) - 1 : (a \o b)[i] = IF i < k THEN s[i] ELSE s[i + 1]
  BY <1>1, <1>2
<1> QED BY <1>1, <1>2, <1>3, <1>4, <1>5, <1>6

-----------------------------------------------------------------------------
(* Lists of entries and the rings they describe.                           *)

KeysOf(s) == {s[i].key : i \in DOMAIN s}
Distinct(s) == \A i, j \in DOMAIN s : s[i].key = s[j].key => i = j

\* A list the cache may hold.
Lists == {s \in Seq(Entries) : Distinct(s)}

\* As At, for any list.
Node(s, i) == IF i \in DOMAIN s THEN s[i].key ELSE lru_head_

Links == [Nodes -> Nodes \cup {Null}]

\* The links run through s.
Linked(nxt, prv, s) ==
  \A i \in 0 .. Len(s) : nxt[Node(s, i)] = Node(s, i + 1) /\ prv[Node(s, i + 1)] = Node(s, i)

\* Links that differ on the nodes of a list and the sentinel only.
SameBut(old, new, S) == \A k \in Nodes \ (S \cup {lru_head_}) : new[k] = old[k]

\* What is known of the nodes of a list: its keys, each at one place only, and
\* the sentinel at both ends.
LEMMA NodesOfList ==
  ASSUME NEW s \in Lists
  PROVE  /\ Len(s) \in Nat /\ DOMAIN s = 1 .. Len(s) /\ s \in Seq(Entries)
         /\ \A i \in 1 .. Len(s) : Node(s, i) = s[i].key /\ Node(s, i) \in Keys
         /\ Node(s, 0) = lru_head_ /\ Node(s, Len(s) + 1) = lru_head_
         /\ \A i \in 0 .. Len(s) + 1 : Node(s, i) \in Nodes
         /\ \A i, j \in 0 .. Len(s) : Node(s, i) = Node(s, j) => i = j
         /\ \A i, j \in 1 .. Len(s) + 1 : Node(s, i) = Node(s, j) => i = j
<1>1. s \in Seq(Entries) /\ Distinct(s)
  BY DEF Lists
<1>2. Len(s) \in Nat /\ DOMAIN s = 1 .. Len(s)
  BY <1>1
<1>3. ASSUME NEW i \in 1 .. Len(s)
      PROVE  Node(s, i) = s[i].key /\ Node(s, i) \in Keys
  <2>1. s[i] \in Entries
    BY <1>1
  <2> QED BY <1>2, <2>1 DEF Node, Entries
<1>4. Node(s, 0) = lru_head_ /\ Node(s, Len(s) + 1) = lru_head_
  BY <1>2 DEF Node
<1>5. lru_head_ \notin Keys
  BY KeysAssumption
<1>6. \A i, j \in 1 .. Len(s) : Node(s, i) = Node(s, j) => i = j
  BY <1>1, <1>2, <1>3 DEF Distinct
<1>7. \A i \in 0 .. Len(s) + 1 : i \in 1 .. Len(s) \/ i = 0 \/ i = Len(s) + 1
  BY <1>2
<1>8. \A i \in 0 .. Len(s) + 1 : Node(s, i) \in Nodes
  BY <1>3, <1>4, <1>7 DEF Nodes
<1>9. ASSUME NEW i \in 0 .. Len(s), NEW j \in 0 .. Len(s), Node(s, i) = Node(s, j)
      PROVE  i = j
  <2>1. CASE i \in 1 .. Len(s) /\ j \in 1 .. Len(s)
    BY <1>6, <1>9, <2>1
  <2>2. CASE i = 0 /\ j \in 1 .. Len(s)
    BY <1>3, <1>4, <1>5, <1>9, <2>2
  <2>3. CASE j = 0 /\ i \in 1 .. Len(s)
    BY <1>3, <1>4, <1>5, <1>9, <2>3
  <2> QED BY <1>2, <2>1, <2>2, <2>3
<1>10. ASSUME NEW i \in 1 .. Len(s) + 1, NEW j \in 1 .. Len(s) + 1, Node(s, i) = Node(s, j)
       PROVE  i = j
  <2>1. CASE i \in 1 .. Len(s) /\ j \in 1 .. Len(s)
    BY <1>6, <1>10, <2>1
  <2>2. CASE i = Len(s) + 1 /\ j \in 1 .. Len(s)
    BY <1>3, <1>4, <1>5, <1>10, <2>2
  <2>3. CASE j = Len(s) + 1 /\ i \in 1 .. Len(s)
    BY <1>3, <1>4, <1>5, <1>10, <2>3
  <2> QED BY <1>2, <2>1, <2>2, <2>3
<1> QED BY <1>1, <1>2, <1>3, <1>4, <1>8, <1>9, <1>10

\* A list without one of its entries.
LEMMA WithoutIsList ==
  ASSUME NEW s \in Lists, NEW p \in 1 .. Len(s)
  PROVE  /\ RemoveAt(s, p) \in Lists
         /\ Len(RemoveAt(s, p)) = Len(s) - 1
         /\ KeysOf(RemoveAt(s, p)) = KeysOf(s) \ {s[p].key}
         /\ \A i \in 0 .. Len(s) :
              Node(RemoveAt(s, p), i) = IF i < p THEN Node(s, i) ELSE Node(s, i + 1)
         /\ \A i \in DOMAIN RemoveAt(s, p) :
              \E j \in DOMAIN s : j # p /\ RemoveAt(s, p)[i] = s[j]
<1> DEFINE t == RemoveAt(s, p)
<1>1. /\ s \in Seq(Entries) /\ Distinct(s)
      /\ Len(s) \in Nat /\ DOMAIN s = 1 .. Len(s)
  BY NodesOfList DEF Lists
<1>2. /\ t \in Seq(Entries)
      /\ Len(t) = Len(s) - 1
      /\ \A i \in 1 .. Len(s) - 1 : t[i] = IF i < p THEN s[i] ELSE s[i + 1]
  BY <1>1, RemoveAtIs
<1>3. DOMAIN t = 1 .. Len(s) - 1
  BY <1>2
<1> HIDE DEF t
<1>4. Distinct(t)
  <2> SUFFICES ASSUME NEW i \in 1 .. Len(s) - 1, NEW j \in 1 .. Len(s) - 1,
                      t[i].key = t[j].key
               PROVE  i = j
    BY <1>3 DEF Distinct
  <2> DEFINE f(k) == IF k < p THEN k ELSE k + 1
  <2>1. f(i) \in DOMAIN s /\ f(j) \in DOMAIN s /\ t[i] = s[f(i)] /\ t[j] = s[f(j)]
    BY <1>1, <1>2
  <2>2. f(i) = f(j)
    BY <1>1, <2>1, Zenon DEF Distinct
  <2> QED BY <1>1, <2>2
<1>5. ASSUME NEW i \in DOMAIN t
      PROVE  \E j \in DOMAIN s : j # p /\ t[i] = s[j]
  <2>1. CASE i < p
    BY <1>1, <1>2, <1>3, <2>1
  <2>2. CASE ~(i < p)
    <3>1. i + 1 \in DOMAIN s /\ i + 1 # p /\ t[i] = s[i + 1]
      BY <1>1, <1>2, <1>3, <2>2
    <3> QED BY <3>1
  <2> QED BY <2>1, <2>2
<1>6. ASSUME NEW j \in DOMAIN s, j # p
      PROVE  \E i \in DOMAIN t : t[i] = s[j]
  <2>1. CASE j < p
    <3>1. j \in DOMAIN t /\ t[j] = s[j]
      BY <1>1, <1>2, <1>3, <2>1
    <3> QED BY <3>1
  <2>2. CASE ~(j < p)
    <3>1. j - 1 \in DOMAIN t /\ t[j - 1] = s[j]
      BY <1>1, <1>2, <1>3, <1>6, <2>2
    <3> QED BY <3>1
  <2> QED BY <2>1, <2>2
<1>7. KeysOf(t) = KeysOf(s) \ {s[p].key}
  <2>1. ASSUME NEW k \in KeysOf(t)
        PROVE  k \in KeysOf(s) \ {s[p].key}
    <3>1. PICK i \in DOMAIN t : k = t[i].key
      BY DEF KeysOf
    <3>2. PICK j \in DOMAIN s : j # p /\ t[i] = s[j]
      BY <1>5
    <3>3. p \in DOMAIN s
      BY <1>1
    <3> QED BY <1>1, <3>1, <3>2, <3>3 DEF KeysOf, Distinct
  <2>2. ASSUME NEW k \in KeysOf(s) \ {s[p].key}
        PROVE  k \in KeysOf(t)
    <3>1. PICK j \in DOMAIN s : k = s[j].key
      BY DEF KeysOf
    <3>2. j # p
      BY <3>1
    <3>3. PICK i \in DOMAIN t : t[i] = s[j]
      BY <1>6, <3>2
    <3> QED BY <3>1, <3>3 DEF KeysOf
  <2> QED BY <2>1, <2>2
<1>8. ASSUME NEW i \in 0 .. Len(s)
      PROVE  Node(t, i) = IF i < p THEN Node(s, i) ELSE Node(s, i + 1)
  <2>1. CASE i \in 1 .. Len(s) - 1
    <3>1. i \in DOMAIN t /\ i \in DOMAIN s /\ i + 1 \in DOMAIN s
      BY <1>1, <1>3, <2>1
    <3> QED BY <1>2, <2>1, <3>1 DEF Node
  <2>2. CASE i = 0
    BY <1>1, <1>3, <2>2 DEF Node
  <2>3. CASE i = Len(s)
    <3>1. i \notin DOMAIN t /\ i + 1 \notin DOMAIN s /\ ~(i < p)
      BY <1>1, <1>3, <2>3
    <3> QED BY <3>1 DEF Node
  <2>4. Len(s) \in Nat
    BY <1>1
  <2>5. i \in 1 .. Len(s) - 1 \/ i = 0 \/ i = Len(s)
    BY <2>4
  <2> QED BY <2>1, <2>2, <2>3, <2>5
<1>9. t \in Lists
  BY <1>2, <1>4 DEF Lists
<1> QED BY <1>2, <1>5, <1>7, <1>8, <1>9 DEF t

\* A list with an entry put before it, for a key that has none.
LEMMA WithIsList ==
  ASSUME NEW s \in Lists, NEW e \in Entries, e.key \notin KeysOf(s)
  PROVE  /\ <<e>> \o s \in Lists
         /\ Len(<<e>> \o s) = Len(s) + 1
         /\ KeysOf(<<e>> \o s) = KeysOf(s) \cup {e.key}
         /\ Node(<<e>> \o s, 0) = lru_head_ /\ Node(<<e>> \o s, 1) = e.key
         /\ \A i \in 1 .. Len(s) + 1 : Node(<<e>> \o s, i + 1) = Node(s, i)
         /\ \A i \in DOMAIN (<<e>> \o s) :
              \/ i = 1 /\ (<<e>> \o s)[i] = e
              \/ i - 1 \in DOMAIN s /\ (<<e>> \o s)[i] = s[i - 1]
<1> DEFINE t == <<e>> \o s
<1>1. /\ s \in Seq(Entries) /\ Distinct(s)
      /\ Len(s) \in Nat /\ DOMAIN s = 1 .. Len(s)
  BY NodesOfList DEF Lists
<1>2. <<e>> \in Seq(Entries) /\ Len(<<e>>) = 1 /\ <<e>>[1] = e
  OBVIOUS
<1>3. /\ t \in Seq(Entries)
      /\ Len(t) = 1 + Len(s)
      /\ \A i \in 1 .. 1 + Len(s) : t[i] = IF i <= 1 THEN <<e>>[i] ELSE s[i - 1]
  BY <1>1, <1>2, ConcatProperties
<1> HIDE DEF t
<1>4. DOMAIN t = 1 .. Len(s) + 1 /\ Len(t) = Len(s) + 1
  BY <1>1, <1>3
<1>5. t[1] = e
  BY <1>1, <1>2, <1>3
<1>6. ASSUME NEW i \in 1 .. Len(s)
      PROVE  t[i + 1] = s[i]
  <2>1. i + 1 \in 1 .. 1 + Len(s) /\ ~(i + 1 <= 1) /\ i + 1 - 1 = i
    BY <1>1
  <2> QED BY <1>3, <2>1
<1>7. ASSUME NEW i \in DOMAIN t
      PROVE  \/ i = 1 /\ t[i] = e
             \/ i - 1 \in DOMAIN s /\ t[i] = s[i - 1]
  <2>1. CASE i = 1
    BY <1>5, <2>1
  <2>2. CASE i # 1
    <3>1. i - 1 \in 1 .. Len(s) /\ (i - 1) + 1 = i
      BY <1>1, <1>4, <2>2
    <3>2. t[(i - 1) + 1] = s[i - 1]
      BY <1>6, <3>1
    <3> QED BY <1>1, <3>1, <3>2
  <2> QED BY <2>1, <2>2
<1>8. \A j \in DOMAIN s : s[j].key # e.key
  BY DEF KeysOf
<1>9. Distinct(t)
  <2> SUFFICES ASSUME NEW i \in DOMAIN t, NEW j \in DOMAIN t, t[i].key = t[j].key
               PROVE  i = j
    BY DEF Distinct
  <2>1. CASE i = 1 /\ j = 1
    BY <2>1
  <2>2. CASE i = 1 /\ j - 1 \in DOMAIN s /\ t[j] = s[j - 1]
    BY <1>5, <1>8, <2>2
  <2>3. CASE j = 1 /\ i - 1 \in DOMAIN s /\ t[i] = s[i - 1]
    BY <1>5, <1>8, <2>3
  <2>4. CASE /\ i - 1 \in DOMAIN s /\ t[i] = s[i - 1]
             /\ j - 1 \in DOMAIN s /\ t[j] = s[j - 1]
    <3>1. i - 1 = j - 1
      BY <1>1, <2>4, Zenon DEF Distinct
    <3> QED BY <1>4, <3>1
  <2> QED BY <1>7, <2>1, <2>2, <2>3, <2>4
<1>10. KeysOf(t) = KeysOf(s) \cup {e.key}
  <2>1. ASSUME NEW k \in KeysOf(t)
        PROVE  k \in KeysOf(s) \cup {e.key}
    <3>1. PICK i \in DOMAIN t : k = t[i].key
      BY DEF KeysOf
    <3> QED BY <1>7, <3>1 DEF KeysOf
  <2>2. e.key \in KeysOf(t)
    <3>1. 1 \in DOMAIN t
      BY <1>1, <1>4
    <3> QED BY <1>5, <3>1 DEF KeysOf
  <2>3. ASSUME NEW k \in KeysOf(s)
        PROVE  k \in KeysOf(t)
    <3>1. PICK i \in DOMAIN s : k = s[i].key
      BY DEF KeysOf
    <3>2. i + 1 \in DOMAIN t /\ t[i + 1] = s[i]
      BY <1>1, <1>4, <1>6
    <3> QED BY <3>1, <3>2 DEF KeysOf
  <2> QED BY <2>1, <2>2, <2>3
<1>11. Node(t, 0) = lru_head_ /\ Node(t, 1) = e.key
  <2>1. 0 \notin DOMAIN t /\ 1 \in DOMAIN t
    BY <1>1, <1>4
  <2> QED BY <1>5, <2>1 DEF Node
<1>12. ASSUME NEW i \in 1 .. Len(s) + 1
       PROVE  Node(t, i + 1) = Node(s, i)
  <2>1. CASE i \in 1 .. Len(s)
    <3>1. i + 1 \in DOMAIN t /\ i \in DOMAIN s
      BY <1>1, <1>4, <2>1
    <3> QED BY <1>6, <2>1, <3>1 DEF Node
  <2>2. CASE i = Len(s) + 1
    <3>1. i + 1 \notin DOMAIN t /\ i \notin DOMAIN s
      BY <1>1, <1>4, <2>2
    <3> QED BY <3>1 DEF Node
  <2> QED BY <1>1, <2>1, <2>2
<1>13. t \in Lists
  BY <1>3, <1>9 DEF Lists
<1> QED BY <1>4, <1>7, <1>10, <1>11, <1>12, <1>13 DEF t

-----------------------------------------------------------------------------
(* What the functions on links do to a ring.                               *)

\* Unlinking an item leaves the ring of the list without its entry.
LEMMA UnlinkLinks ==
  ASSUME NEW nxt \in Links, NEW prv \in Links, NEW s \in Lists, Linked(nxt, prv, s),
         NEW p \in 1 .. Len(s),
         NEW links, links = Unlink([nxt |-> nxt, prv |-> prv], s[p].key)
  PROVE  /\ links = [nxt |-> links.nxt, prv |-> links.prv]
         /\ links.nxt \in Links /\ links.prv \in Links
         /\ Linked(links.nxt, links.prv, RemoveAt(s, p))
         /\ SameBut(nxt, links.nxt, KeysOf(s)) /\ SameBut(prv, links.prv, KeysOf(s))
<1> DEFINE a == Node(s, p - 1)
           b == Node(s, p + 1)
           n1 == [nxt EXCEPT ![a] = b]
           p1 == [prv EXCEPT ![b] = a]
           t == RemoveAt(s, p)
<1>1. Len(s) \in Nat /\ p \in Int /\ p - 1 \in 0 .. Len(s) /\ p + 1 \in 1 .. Len(s) + 1
  BY NodesOfList
<1>2. /\ \A i \in 0 .. Len(s) + 1 : Node(s, i) \in Nodes
      /\ \A i, j \in 0 .. Len(s) : Node(s, i) = Node(s, j) => i = j
      /\ \A i, j \in 1 .. Len(s) + 1 : Node(s, i) = Node(s, j) => i = j
      /\ Node(s, p) = s[p].key
  BY NodesOfList
<1>3. \A i \in 0 .. Len(s) : nxt[Node(s, i)] = Node(s, i + 1) /\ prv[Node(s, i + 1)] = Node(s, i)
  BY DEF Linked
<1>4. nxt[s[p].key] = b /\ prv[s[p].key] = a
  <2>1. p \in 0 .. Len(s) /\ p - 1 \in 0 .. Len(s) /\ (p - 1) + 1 = p
    BY <1>1
  <2> QED BY <1>2, <1>3, <2>1
<1>5. links = [nxt |-> n1, prv |-> p1]
  BY <1>4 DEF Unlink
<1>6. a \in Nodes /\ b \in Nodes
  BY <1>1, <1>2
<1>7. n1 \in Links /\ p1 \in Links
  BY <1>6 DEF Links
<1>8. /\ Len(t) = Len(s) - 1
      /\ \A i \in 0 .. Len(s) : Node(t, i) = IF i < p THEN Node(s, i) ELSE Node(s, i + 1)
  BY WithoutIsList
<1>9. /\ \A x \in Nodes : n1[x] = IF x = a THEN b ELSE nxt[x]
      /\ \A x \in Nodes : p1[x] = IF x = b THEN a ELSE prv[x]
  BY <1>6 DEF Links
<1>10. a = Node(s, p - 1) /\ b = Node(s, p + 1)
  OBVIOUS
<1> HIDE DEF a, b, n1, p1, t
<1>11. ASSUME NEW i \in 0 .. Len(t)
       PROVE  n1[Node(t, i)] = Node(t, i + 1) /\ p1[Node(t, i + 1)] = Node(t, i)
  <2>1. i \in 0 .. Len(s) /\ i + 1 \in 0 .. Len(s) /\ i \in Int
    BY <1>1, <1>8
  <2>2. CASE i + 1 < p
    <3>1. Node(t, i) = Node(s, i) /\ Node(t, i + 1) = Node(s, i + 1)
      BY <1>1, <1>8, <2>1, <2>2
    <3>2. i # p - 1 /\ i + 1 # p + 1 /\ i + 1 \in 1 .. Len(s) + 1
      BY <1>1, <2>1, <2>2
    <3>3. Node(s, i) # a /\ Node(s, i + 1) # b
      BY <1>1, <1>2, <1>10, <2>1, <3>2
    <3>4. Node(s, i) \in Nodes /\ Node(s, i + 1) \in Nodes
      BY <1>1, <1>2, <2>1
    <3> QED BY <1>3, <1>9, <2>1, <3>1, <3>3, <3>4
  <2>3. CASE i + 1 = p
    <3>1. Node(t, i) = a /\ Node(t, i + 1) = b
      BY <1>1, <1>8, <1>10, <2>1, <2>3
    <3> QED BY <1>6, <1>9, <3>1
  <2>4. CASE i >= p
    <3>1. Node(t, i) = Node(s, i + 1) /\ Node(t, i + 1) = Node(s, (i + 1) + 1)
      BY <1>1, <1>8, <2>1, <2>4
    <3>2. i + 1 # p - 1 /\ (i + 1) + 1 # p + 1 /\ (i + 1) + 1 \in 1 .. Len(s) + 1
      BY <1>1, <2>1, <2>4
    <3>3. Node(s, i + 1) # a /\ Node(s, (i + 1) + 1) # b
      BY <1>1, <1>2, <1>10, <2>1, <3>2
    <3>4. Node(s, i + 1) \in Nodes /\ Node(s, (i + 1) + 1) \in Nodes
      BY <1>1, <1>2, <2>1, <3>2
    <3>5. /\ nxt[Node(s, i + 1)] = Node(s, (i + 1) + 1)
          /\ prv[Node(s, (i + 1) + 1)] = Node(s, i + 1)
      BY <1>3, <2>1
    <3> QED BY <1>9, <3>1, <3>3, <3>4, <3>5
  <2> QED BY <1>1, <2>1, <2>2, <2>3, <2>4
<1>12. Linked(n1, p1, t)
  BY <1>11 DEF Linked
<1>13. a \in KeysOf(s) \cup {lru_head_} /\ b \in KeysOf(s) \cup {lru_head_}
  BY <1>10 DEF Node, KeysOf
<1>14. SameBut(nxt, n1, KeysOf(s)) /\ SameBut(prv, p1, KeysOf(s))
  BY <1>9, <1>13 DEF SameBut
<1>15. links.nxt = n1 /\ links.prv = p1
  BY <1>5
<1> QED BY <1>5, <1>7, <1>12, <1>14, <1>15 DEF t

\* Inserting an item that is not in the ring puts its entry first.
LEMMA InsertLinks ==
  ASSUME NEW nxt \in Links, NEW prv \in Links, NEW s \in Lists, Linked(nxt, prv, s),
         NEW e \in Entries, e.key \notin KeysOf(s),
         NEW links, links = InsertToLRU([nxt |-> nxt, prv |-> prv], e.key)
  PROVE  /\ links.nxt \in Links /\ links.prv \in Links
         /\ Linked(links.nxt, links.prv, <<e>> \o s)
         /\ SameBut(nxt, links.nxt, KeysOf(s) \cup {e.key})
         /\ SameBut(prv, links.prv, KeysOf(s) \cup {e.key})
<1> DEFINE k == e.key
           first == Node(s, 1)
           n1 == [nxt EXCEPT ![k] = first, ![lru_head_] = k]
           p1 == [[prv EXCEPT ![k] = lru_head_] EXCEPT ![first] = k]
           t == <<e>> \o s
<1>1. Len(s) \in Nat
  BY NodesOfList
<1>2. /\ \A i \in 1 .. Len(s) : Node(s, i) = s[i].key /\ Node(s, i) \in Keys
      /\ \A i \in 0 .. Len(s) + 1 : Node(s, i) \in Nodes
      /\ \A i, j \in 1 .. Len(s) + 1 : Node(s, i) = Node(s, j) => i = j
      /\ Node(s, 0) = lru_head_
  BY NodesOfList
<1>3. \A i \in 0 .. Len(s) : nxt[Node(s, i)] = Node(s, i + 1) /\ prv[Node(s, i + 1)] = Node(s, i)
  BY DEF Linked
<1>4. nxt[lru_head_] = first
  <2>1. 0 \in 0 .. Len(s) /\ 0 + 1 = 1
    BY <1>1
  <2> QED BY <1>2, <1>3, <2>1
<1>5. links = [nxt |-> n1, prv |-> p1]
  BY <1>4 DEF InsertToLRU
<1>6. /\ k \in Nodes /\ k # lru_head_ /\ lru_head_ \in Nodes /\ lru_head_ \notin Keys
      /\ first \in Nodes
  <2>1. k \in Keys
    BY DEF Entries
  <2>2. 1 \in 0 .. Len(s) + 1
    BY <1>1
  <2> QED BY <1>2, <2>1, <2>2, KeysAssumption DEF Nodes
<1>7. n1 \in Links /\ p1 \in Links
  BY <1>6 DEF Links
<1>8. /\ Len(t) = Len(s) + 1
      /\ Node(t, 0) = lru_head_ /\ Node(t, 1) = k
      /\ \A i \in 1 .. Len(s) + 1 : Node(t, i + 1) = Node(s, i)
  BY WithIsList
<1>9. /\ \A x \in Nodes : n1[x] = IF x = lru_head_ THEN k ELSE IF x = k THEN first ELSE nxt[x]
      /\ \A x \in Nodes : p1[x] = IF x = first THEN k ELSE IF x = k THEN lru_head_ ELSE prv[x]
  BY <1>6 DEF Links
<1>10. \A i \in 0 .. Len(s) + 1 : Node(s, i) # k
  <2>1. \A j \in DOMAIN s : s[j].key # e.key
    BY DEF KeysOf
  <2> QED BY <1>6, <2>1 DEF Node
<1>11. first = Node(s, 1)
  OBVIOUS
<1> HIDE DEF k, first, n1, p1, t
<1>12. ASSUME NEW i \in 0 .. Len(t)
       PROVE  n1[Node(t, i)] = Node(t, i + 1) /\ p1[Node(t, i + 1)] = Node(t, i)
  <2>1. CASE i = 0
    <3>1. k # first
      BY <1>1, <1>10, <1>11
    <3> QED BY <1>6, <1>8, <1>9, <2>1, <3>1
  <2>2. CASE i = 1
    <3>1. Node(t, 1 + 1) = first
      BY <1>1, <1>8, <1>11
    <3> QED BY <1>6, <1>8, <1>9, <2>2, <3>1
  <2>3. CASE i >= 2
    <3>1. /\ i - 1 \in 1 .. Len(s) /\ i \in 1 .. Len(s) + 1 /\ 1 \in 1 .. Len(s) + 1
          /\ (i - 1) + 1 = i /\ i # 1
          /\ i - 1 \in 0 .. Len(s) /\ i \in 0 .. Len(s) + 1 /\ i - 1 \in 0 .. Len(s) + 1
          /\ i - 1 \in 1 .. Len(s) + 1
      BY <1>1, <1>8, <2>3
    <3>2. Node(t, (i - 1) + 1) = Node(s, i - 1) /\ Node(t, i + 1) = Node(s, i)
      BY <1>8, <3>1
    <3>3. /\ nxt[Node(s, i - 1)] = Node(s, (i - 1) + 1)
          /\ prv[Node(s, (i - 1) + 1)] = Node(s, i - 1)
      BY <1>3, <3>1
    <3>4. Node(s, i) # first /\ Node(s, i) # k /\ Node(s, i) \in Nodes
      BY <1>2, <1>10, <1>11, <3>1
    <3>5. Node(s, i - 1) # lru_head_ /\ Node(s, i - 1) # k /\ Node(s, i - 1) \in Nodes
      BY <1>2, <1>6, <1>10, <3>1
    <3> QED BY <1>9, <3>1, <3>2, <3>3, <3>4, <3>5
  <2> QED BY <1>1, <1>8, <2>1, <2>2, <2>3
<1>13. Linked(n1, p1, t)
  BY <1>12 DEF Linked
<1>14. first \in KeysOf(s) \cup {lru_head_}
  BY <1>11 DEF Node, KeysOf
<1>15. SameBut(nxt, n1, KeysOf(s) \cup {k}) /\ SameBut(prv, p1, KeysOf(s) \cup {k})
  BY <1>9, <1>14 DEF SameBut
<1>16. links.nxt = n1 /\ links.prv = p1
  BY <1>5
<1> QED BY <1>7, <1>13, <1>15, <1>16 DEF t, k

\* Removing an item takes it out of the ring and clears its links.
LEMMA RemoveLinks ==
  ASSUME NEW nxt \in Links, NEW prv \in Links, NEW s \in Lists, Linked(nxt, prv, s),
         NEW p \in 1 .. Len(s),
         NEW links, links = RemoveFromLRU([nxt |-> nxt, prv |-> prv], s[p].key)
  PROVE  /\ links = [nxt |-> links.nxt, prv |-> links.prv]
         /\ links.nxt \in Links /\ links.prv \in Links
         /\ Linked(links.nxt, links.prv, RemoveAt(s, p))
         /\ SameBut(nxt, links.nxt, KeysOf(s)) /\ SameBut(prv, links.prv, KeysOf(s))
         /\ links.nxt[s[p].key] = Null /\ links.prv[s[p].key] = Null
<1> DEFINE k == s[p].key
           t == RemoveAt(s, p)
           rest == Unlink([nxt |-> nxt, prv |-> prv], k)
           n1 == [rest.nxt EXCEPT ![k] = Null]
           p1 == [rest.prv EXCEPT ![k] = Null]
<1>1. /\ rest.nxt \in Links /\ rest.prv \in Links
      /\ Linked(rest.nxt, rest.prv, t)
      /\ SameBut(nxt, rest.nxt, KeysOf(s)) /\ SameBut(prv, rest.prv, KeysOf(s))
  BY UnlinkLinks
<1>2. links = [nxt |-> n1, prv |-> p1]
  BY DEF RemoveFromLRU
<1>3. k \in Keys /\ k \in KeysOf(s)
  BY NodesOfList DEF KeysOf
<1>4. t \in Lists /\ KeysOf(t) = KeysOf(s) \ {k}
  BY WithoutIsList
<1> HIDE DEF k, t, rest
<1>5. n1 \in Links /\ p1 \in Links
  BY <1>1 DEF Links
<1>6. /\ \A x \in Nodes : n1[x] = IF x = k THEN Null ELSE rest.nxt[x]
      /\ \A x \in Nodes : p1[x] = IF x = k THEN Null ELSE rest.prv[x]
  BY <1>1 DEF Links
<1> HIDE DEF n1, p1
<1>7. ASSUME NEW i \in 0 .. Len(t)
      PROVE  n1[Node(t, i)] = Node(t, i + 1) /\ p1[Node(t, i + 1)] = Node(t, i)
  <2>1. Node(t, i) \in Nodes /\ Node(t, i + 1) \in Nodes
    <3>1. Len(t) \in Nat /\ \A j \in 0 .. Len(t) + 1 : Node(t, j) \in Nodes
      BY <1>4, NodesOfList
    <3>2. i \in 0 .. Len(t) + 1 /\ i + 1 \in 0 .. Len(t) + 1
      BY <3>1
    <3> QED BY <3>1, <3>2
  <2>2. \A j : Node(t, j) # k
    <3>1. k # lru_head_
      BY <1>3, KeysAssumption
    <3> QED BY <1>4, <3>1 DEF Node, KeysOf
  <2>3. rest.nxt[Node(t, i)] = Node(t, i + 1) /\ rest.prv[Node(t, i + 1)] = Node(t, i)
    BY <1>1 DEF Linked
  <2> QED BY <1>6, <2>1, <2>2, <2>3
<1>8. Linked(n1, p1, t)
  BY <1>7 DEF Linked
<1>9. SameBut(nxt, n1, KeysOf(s)) /\ SameBut(prv, p1, KeysOf(s))
  BY <1>1, <1>3, <1>6 DEF SameBut
<1>10. n1[k] = Null /\ p1[k] = Null
  BY <1>3, <1>6 DEF Nodes
<1>11. links.nxt = n1 /\ links.prv = p1
  BY <1>2
<1> QED BY <1>2, <1>5, <1>8, <1>9, <1>10, <1>11 DEF t, k

-----------------------------------------------------------------------------
(* The invariant.                                                          *)

\* Resources and times are those of the entries: with ring and map exact, this
\* is what Get depends on.
ContentsAgree ==
  \A i \in DOMAIN recent :
    res[recent[i].key] = recent[i].value /\ last_modified[recent[i].key] = recent[i].at

CacheInv == CacheExact /\ ContentsAgree

\* The invariant in terms of lists and links.
LEMMA CacheInvIs ==
  CacheInv <=>
    /\ now \in 0 .. MaxNow
    /\ res \in [Keys -> Values \cup {Null}]
    /\ last_modified \in [Keys -> 0 .. MaxNow]
    /\ next \in Links /\ prev \in Links
    /\ next[lru_head_] # Null /\ prev[lru_head_] # Null
    /\ recent \in Lists
    /\ Linked(next, prev, recent)
    /\ \A k \in Keys : k \notin cache_map_ => next[k] = Null /\ prev[k] = Null
    /\ cache_map_ \subseteq Keys /\ cache_map_ = KeysOf(recent)
    /\ Capacity > 0 => Len(recent) <= Capacity
    /\ ContentsAgree
<1>1. \A i : At(i) = Node(recent, i)
  BY DEF At, Node
<1> QED BY <1>1 DEF CacheInv, CacheExact, TypeOK, RingIsLru, MapIsRing, Lists, Distinct,
                    KeysOf, Linked, Links

\* A map of distinct keys is as large as the list.
LEMMA AtCapacityIs ==
  ASSUME CacheInv
  PROVE  AtCapacity <=> Len(recent) = Capacity
<1>1. /\ recent \in Lists /\ cache_map_ = KeysOf(recent)
      /\ Len(recent) \in Nat /\ DOMAIN recent = 1 .. Len(recent)
  BY CacheInvIs, NodesOfList
<1> DEFINE f == [i \in 1 .. Len(recent) |-> recent[i].key]
<1>2. f \in Bijection(1 .. Len(recent), KeysOf(recent))
  <2>1. f \in [1 .. Len(recent) -> KeysOf(recent)]
    BY <1>1 DEF KeysOf
  <2>2. \A i, j \in 1 .. Len(recent) : f[i] = f[j] => i = j
    BY <1>1 DEF Lists, Distinct
  <2>3. \A k \in KeysOf(recent) : \E i \in 1 .. Len(recent) : f[i] = k
    BY <1>1 DEF KeysOf
  <2> QED BY <2>1, <2>2, <2>3 DEF Bijection, Injection, Surjection, IsInjective
<1>3. Cardinality(KeysOf(recent)) = Len(recent)
  BY <1>1, <1>2, FS_CountingElements DEF ExistsBijection
<1> QED BY <1>1, <1>3 DEF AtCapacity

\* The entries that were not touched keep their resources and times.
LEMMA ContentsFollow ==
  ASSUME CacheInv, NEW s \in Lists, NEW key \in Keys, NEW value \in Values,
         \A i \in DOMAIN s : \E j \in DOMAIN recent : s[i] = recent[j],
         key \notin KeysOf(s),
         recent' = <<[key |-> key, value |-> value, at |-> now]>> \o s,
         res'[key] = value, last_modified'[key] = now,
         \A k \in KeysOf(s) : res'[k] = res[k] /\ last_modified'[k] = last_modified[k]
  PROVE  ContentsAgree'
<1> DEFINE e == [key |-> key, value |-> value, at |-> now]
<1>1. e \in Entries /\ e.key = key /\ e.value = value /\ e.at = now
  BY CacheInvIs DEF Entries
<1> HIDE DEF e
<1>2. recent' = <<e>> \o s
  BY DEF e
<1> SUFFICES ASSUME NEW i \in DOMAIN recent'
             PROVE  /\ res'[recent'[i].key] = recent'[i].value
                    /\ last_modified'[recent'[i].key] = recent'[i].at
  BY DEF ContentsAgree
<1>3. \/ recent'[i] = e
      \/ i - 1 \in DOMAIN s /\ recent'[i] = s[i - 1]
  <2>1. \A m \in DOMAIN (<<e>> \o s) :
          \/ m = 1 /\ (<<e>> \o s)[m] = e
          \/ m - 1 \in DOMAIN s /\ (<<e>> \o s)[m] = s[m - 1]
    BY <1>1, WithIsList
  <2> QED BY <1>2, <2>1
<1>4. CASE recent'[i] = e
  BY <1>1, <1>4
<1>5. ASSUME i - 1 \in DOMAIN s, recent'[i] = s[i - 1]
      PROVE  /\ res'[recent'[i].key] = recent'[i].value
             /\ last_modified'[recent'[i].key] = recent'[i].at
  <2>1. PICK j \in DOMAIN recent : s[i - 1] = recent[j]
    BY <1>5
  <2>2. s[i - 1].key \in KeysOf(s)
    BY <1>5 DEF KeysOf
  <2>3. res[recent[j].key] = recent[j].value /\ last_modified[recent[j].key] = recent[j].at
    BY CacheInvIs DEF ContentsAgree
  <2> QED BY <1>5, <2>1, <2>2, <2>3
<1> QED BY <1>3, <1>4, <1>5

\* The other entries, when the key has one and when it has none.
LEMMA OthersAre ==
  ASSUME CacheInv, NEW key \in Keys
  PROVE  /\ key \in cache_map_ =>
              \E p \in 1 .. Len(recent) : recent[p].key = key /\ Others(key) = RemoveAt(recent, p)
         /\ key \notin cache_map_ => Others(key) = recent
<1> DEFINE places == {i \in DOMAIN recent : recent[i].key = key}
<1>1. /\ cache_map_ = KeysOf(recent) /\ DOMAIN recent = 1 .. Len(recent)
  BY CacheInvIs, NodesOfList
<1>2. Others(key) = IF places = {} THEN recent ELSE RemoveAt(recent, CHOOSE i \in places : TRUE)
  BY DEF Others
<1>3. key \in cache_map_ <=> places # {}
  BY <1>1 DEF KeysOf
<1>4. places # {} => (CHOOSE i \in places : TRUE) \in places
  OBVIOUS
<1>5. \A p \in places : p \in 1 .. Len(recent) /\ recent[p].key = key
  BY <1>1
<1> HIDE DEF places
<1> QED BY <1>2, <1>3, <1>4, <1>5

\* The invariant holds again when lists and links do.
LEMMA CacheInvAgain ==
  ASSUME now' \in 0 .. MaxNow,
         res' \in [Keys -> Values \cup {Null}],
         last_modified' \in [Keys -> 0 .. MaxNow],
         next' \in Links, prev' \in Links,
         recent' \in Lists,
         Linked(next', prev', recent'),
         \A k \in Keys : k \notin cache_map_' => next'[k] = Null /\ prev'[k] = Null,
         cache_map_' \subseteq Keys, cache_map_' = KeysOf(recent'),
         Capacity > 0 => Len(recent') <= Capacity,
         ContentsAgree'
  PROVE  CacheInv'
<1>1. \A i : At(i)' = Node(recent', i)
  BY DEF At, Node
<1>2. next'[lru_head_] # Null /\ prev'[lru_head_] # Null
  <2> DEFINE n == Len(recent')
  <2>1. /\ n \in Nat /\ Node(recent', 0) = lru_head_ /\ Node(recent', n + 1) = lru_head_
        /\ \A i \in 0 .. n + 1 : Node(recent', i) \in Nodes
    BY NodesOfList
  <2>2. /\ next'[Node(recent', 0)] = Node(recent', 0 + 1)
        /\ prev'[Node(recent', n + 1)] = Node(recent', n)
    BY <2>1 DEF Linked
  <2>3. Null \notin Nodes
    BY KeysAssumption DEF Nodes
  <2>4. 0 + 1 \in 0 .. n + 1 /\ n \in 0 .. n + 1
    BY <2>1
  <2> HIDE DEF n
  <2> QED BY <2>1, <2>2, <2>3, <2>4
<1>3. TypeOK'
  BY <1>2 DEF TypeOK, Links, Lists
<1>4. RingIsLru'
  BY <1>1 DEF RingIsLru, Linked
<1>5. MapIsRing'
  BY DEF MapIsRing, Lists, Distinct, KeysOf
<1> QED BY <1>3, <1>4, <1>5 DEF CacheInv, CacheExact

\* Setting a key whose item is not, or no longer, in the ring: the part that
\* both cases of Set share.
LEMMA PrependKeeps ==
  ASSUME CacheInv, NEW key \in Keys, NEW value \in Values, NEW s \in Lists,
         NEW nxt \in Links, NEW prv \in Links, Linked(nxt, prv, s),
         KeysOf(s) \subseteq Keys \ {key},
         \A i \in DOMAIN s : \E j \in DOMAIN recent : s[i] = recent[j],
         \A k \in Keys : k \notin KeysOf(s) \cup {key} => nxt[k] = Null /\ prv[k] = Null,
         Capacity > 0 => Len(s) + 1 <= Capacity,
         NEW links, links = InsertToLRU([nxt |-> nxt, prv |-> prv], key),
         next' = links.nxt, prev' = links.prv,
         recent' = <<[key |-> key, value |-> value, at |-> now]>> \o s,
         cache_map_' = KeysOf(s) \cup {key},
         now' = now,
         res' \in [Keys -> Values \cup {Null}],
         last_modified' \in [Keys -> 0 .. MaxNow],
         res'[key] = value, last_modified'[key] = now,
         \A k \in KeysOf(s) : res'[k] = res[k] /\ last_modified'[k] = last_modified[k]
  PROVE  CacheInv'
<1> DEFINE e == [key |-> key, value |-> value, at |-> now]
<1>1. now \in 0 .. MaxNow
  BY CacheInvIs
<1>2. e \in Entries /\ e.key = key
  BY <1>1 DEF Entries
<1>3. recent' = <<e>> \o s
  OBVIOUS
<1>4. ContentsAgree'
  BY ContentsFollow
<1> HIDE DEF e
<1>5. /\ links.nxt \in Links /\ links.prv \in Links
      /\ Linked(links.nxt, links.prv, <<e>> \o s)
      /\ SameBut(nxt, links.nxt, KeysOf(s) \cup {key})
      /\ SameBut(prv, links.prv, KeysOf(s) \cup {key})
  BY <1>2, InsertLinks
<1>6. /\ <<e>> \o s \in Lists
      /\ Len(<<e>> \o s) = Len(s) + 1
      /\ KeysOf(<<e>> \o s) = KeysOf(s) \cup {key}
  BY <1>2, WithIsList
<1>7. ASSUME NEW k \in Keys, k \notin cache_map_'
      PROVE  next'[k] = Null /\ prev'[k] = Null
  <2>1. k \in Nodes \ ((KeysOf(s) \cup {key}) \cup {lru_head_})
    BY <1>7, KeysAssumption DEF Nodes
  <2>2. nxt[k] = Null /\ prv[k] = Null
    BY <1>7
  <2> QED BY <1>5, <2>1, <2>2 DEF SameBut
<1>8. Linked(next', prev', recent') /\ next' \in Links /\ prev' \in Links
  BY <1>3, <1>5
<1>9. /\ recent' \in Lists /\ cache_map_' = KeysOf(recent') /\ cache_map_' \subseteq Keys
      /\ Capacity > 0 => Len(recent') <= Capacity
  BY <1>3, <1>6
<1> QED BY <1>1, <1>4, <1>7, <1>8, <1>9, CacheInvAgain

\* Setting a key that has an item keeps the cache exact.
LEMMA Set_existingKeeps ==
  ASSUME CacheInv, NEW key \in Keys, NEW value \in Values, Set_existing(key, value)
  PROVE  CacheInv'
<1> DEFINE rest == Unlink([nxt |-> next, prv |-> prev], key)
           links == InsertToLRU(rest, key)
<1>1. /\ key \in cache_map_
      /\ next' = links.nxt /\ prev' = links.prv
      /\ res' = [res EXCEPT ![key] = value]
      /\ last_modified' = [last_modified EXCEPT ![key] = now]
      /\ recent' = Expected(key, value)
      /\ now' = now /\ cache_map_' = cache_map_
  BY DEF Set_existing, MoveToLRUHead
<1>2. /\ next \in Links /\ prev \in Links /\ recent \in Lists /\ Linked(next, prev, recent)
      /\ cache_map_ \subseteq Keys /\ cache_map_ = KeysOf(recent)
      /\ now \in 0 .. MaxNow
      /\ res \in [Keys -> Values \cup {Null}]
      /\ last_modified \in [Keys -> 0 .. MaxNow]
      /\ Capacity > 0 => Len(recent) <= Capacity
      /\ \A k \in Keys : k \notin cache_map_ => next[k] = Null /\ prev[k] = Null
  BY CacheInvIs
<1>3. PICK p \in 1 .. Len(recent) : recent[p].key = key /\ Others(key) = RemoveAt(recent, p)
  BY <1>1, OthersAre
<1> DEFINE t == RemoveAt(recent, p)
<1>4. /\ t \in Lists /\ Len(t) = Len(recent) - 1 /\ Len(recent) \in Nat
      /\ KeysOf(t) = KeysOf(recent) \ {key}
      /\ \A i \in DOMAIN t : \E j \in DOMAIN recent : t[i] = recent[j]
  BY <1>2, <1>3, WithoutIsList, NodesOfList
<1>5. /\ rest = [nxt |-> rest.nxt, prv |-> rest.prv]
      /\ rest.nxt \in Links /\ rest.prv \in Links
      /\ Linked(rest.nxt, rest.prv, t)
      /\ SameBut(next, rest.nxt, KeysOf(recent)) /\ SameBut(prev, rest.prv, KeysOf(recent))
  BY <1>2, <1>3, UnlinkLinks
<1> HIDE DEF t, rest
<1>6. links = InsertToLRU([nxt |-> rest.nxt, prv |-> rest.prv], key)
  BY <1>5
<1> HIDE DEF links
<1>7. recent' = <<[key |-> key, value |-> value, at |-> now]>> \o t
  <2> DEFINE e == [key |-> key, value |-> value, at |-> now]
  <2>1. e \in Entries /\ e.key = key
    BY <1>2 DEF Entries
  <2>2. Expected(key, value) = IF Len(<<e>> \o t) = Capacity + 1
                               THEN SubSeq(<<e>> \o t, 1, Capacity) ELSE <<e>> \o t
    BY <1>3 DEF Expected, t
  <2> HIDE DEF e
  <2>3. Len(<<e>> \o t) = Len(t) + 1
    BY <1>4, <2>1, WithIsList
  <2>4. Len(t) + 1 # Capacity + 1
    BY <1>2, <1>3, <1>4, CapacityAssumption
  <2> QED BY <1>1, <2>2, <2>3, <2>4 DEF e
<1>8. /\ res' \in [Keys -> Values \cup {Null}]
      /\ last_modified' \in [Keys -> 0 .. MaxNow]
      /\ res'[key] = value /\ last_modified'[key] = now
      /\ \A k \in Keys \ {key} : res'[k] = res[k] /\ last_modified'[k] = last_modified[k]
  BY <1>1, <1>2
<1>9. /\ KeysOf(t) \subseteq Keys \ {key}
      /\ cache_map_' = KeysOf(t) \cup {key}
  BY <1>1, <1>2, <1>4
<1>10. ASSUME NEW k \in Keys, k \notin KeysOf(t) \cup {key}
       PROVE  rest.nxt[k] = Null /\ rest.prv[k] = Null
  <2>1. k \in Nodes \ (KeysOf(recent) \cup {lru_head_})
    BY <1>4, <1>10, KeysAssumption DEF Nodes
  <2> QED BY <1>2, <1>5, <2>1 DEF SameBut
<1>11. Capacity > 0 => Len(t) + 1 <= Capacity
  BY <1>2, <1>4, CapacityAssumption
<1>12. \A k \in KeysOf(t) : res'[k] = res[k] /\ last_modified'[k] = last_modified[k]
  BY <1>8, <1>9
<1> QED BY <1>1, <1>4, <1>5, <1>6, <1>7, <1>8, <1>9, <1>10, <1>11, <1>12, PrependKeeps

\* Setting a new key keeps it exact, with room left.
LEMMA Set_newKeeps ==
  ASSUME CacheInv, NEW key \in Keys, NEW value \in Values, Set_new(key, value), ~AtCapacity
  PROVE  CacheInv'
<1> DEFINE links == InsertToLRU([nxt |-> next, prv |-> prev], key)
<1>1. /\ key \notin cache_map_
      /\ next' = links.nxt /\ prev' = links.prv
      /\ cache_map_' = cache_map_ \cup {key}
      /\ res' = [k \in Keys |-> IF k = key THEN value ELSE res[k]]
      /\ last_modified' = [k \in Keys |-> IF k = key THEN now ELSE last_modified[k]]
      /\ recent' = Expected(key, value)
      /\ now' = now
  BY DEF Set_new
<1>2. /\ next \in Links /\ prev \in Links /\ recent \in Lists /\ Linked(next, prev, recent)
      /\ cache_map_ \subseteq Keys /\ cache_map_ = KeysOf(recent)
      /\ now \in 0 .. MaxNow
      /\ res \in [Keys -> Values \cup {Null}]
      /\ last_modified \in [Keys -> 0 .. MaxNow]
      /\ Capacity > 0 => Len(recent) <= Capacity
      /\ \A k \in Keys : k \notin cache_map_ => next[k] = Null /\ prev[k] = Null
      /\ Len(recent) \in Nat
      /\ Len(recent) # Capacity
  BY CacheInvIs, NodesOfList, AtCapacityIs
<1>3. Others(key) = recent
  BY <1>1, OthersAre
<1> HIDE DEF links
<1>4. recent' = <<[key |-> key, value |-> value, at |-> now]>> \o recent
  <2> DEFINE e == [key |-> key, value |-> value, at |-> now]
  <2>1. e \in Entries /\ e.key = key
    BY <1>2 DEF Entries
  <2>2. Expected(key, value) = IF Len(<<e>> \o recent) = Capacity + 1
                               THEN SubSeq(<<e>> \o recent, 1, Capacity) ELSE <<e>> \o recent
    BY <1>3 DEF Expected
  <2> HIDE DEF e
  <2>3. Len(<<e>> \o recent) = Len(recent) + 1
    BY <1>1, <1>2, <2>1, WithIsList
  <2>4. Len(recent) + 1 # Capacity + 1
    BY <1>2, CapacityAssumption
  <2> QED BY <1>1, <2>2, <2>3, <2>4 DEF e
<1>5. /\ res' \in [Keys -> Values \cup {Null}]
      /\ last_modified' \in [Keys -> 0 .. MaxNow]
      /\ res'[key] = value /\ last_modified'[key] = now
      /\ \A k \in Keys \ {key} : res'[k] = res[k] /\ last_modified'[k] = last_modified[k]
  BY <1>1, <1>2
<1>6. /\ KeysOf(recent) \subseteq Keys \ {key}
      /\ cache_map_' = KeysOf(recent) \cup {key}
  BY <1>1, <1>2
<1>7. Capacity > 0 => Len(recent) + 1 <= Capacity
  BY <1>2, CapacityAssumption
<1>8. \A k \in KeysOf(recent) : res'[k] = res[k] /\ last_modified'[k] = last_modified[k]
  BY <1>5, <1>6
<1>9. \A k \in Keys : k \notin KeysOf(recent) \cup {key} => next[k] = Null /\ prev[k] = Null
  BY <1>2
<1> QED BY <1>1, <1>2, <1>4, <1>5, <1>6, <1>7, <1>8, <1>9, PrependKeeps DEF links

\* Setting a new key when the cache is full evicts the item that was set longest
\* ago, and no other.
LEMMA Set_newEvicts ==
  ASSUME CacheInv, NEW key \in Keys, NEW value \in Values, Set_new(key, value), AtCapacity
  PROVE  CacheInv'
<1> DEFINE last == prev[lru_head_]
           kept == RemoveFromLRU([nxt |-> next, prv |-> prev], last)
           links == InsertToLRU(kept, key)
           t == RemoveAt(recent, Len(recent))
<1>1. /\ key \notin cache_map_
      /\ next' = links.nxt /\ prev' = links.prv
      /\ cache_map_' = (cache_map_ \ {last}) \cup {key}
      /\ res' = [k \in Keys |-> IF k = key THEN value ELSE IF k \in {last} THEN Null ELSE res[k]]
      /\ last_modified' = [k \in Keys |-> IF k = key THEN now
                                          ELSE IF k \in {last} THEN 0 ELSE last_modified[k]]
      /\ recent' = Expected(key, value)
      /\ now' = now
  BY DEF Set_new
<1>2. /\ next \in Links /\ prev \in Links /\ recent \in Lists /\ Linked(next, prev, recent)
      /\ cache_map_ \subseteq Keys /\ cache_map_ = KeysOf(recent)
      /\ now \in 0 .. MaxNow
      /\ res \in [Keys -> Values \cup {Null}]
      /\ last_modified \in [Keys -> 0 .. MaxNow]
      /\ \A k \in Keys : k \notin cache_map_ => next[k] = Null /\ prev[k] = Null
      /\ Len(recent) \in Nat
      /\ Len(recent) = Capacity
  BY CacheInvIs, NodesOfList, AtCapacityIs
<1>3. Len(recent) \in 1 .. Len(recent)
  BY <1>2, CapacityAssumption
<1>4. last = recent[Len(recent)].key /\ last \in KeysOf(recent)
  <2>1. /\ Node(recent, Len(recent) + 1) = lru_head_
        /\ Node(recent, Len(recent)) = recent[Len(recent)].key
        /\ DOMAIN recent = 1 .. Len(recent)
    BY <1>2, <1>3, NodesOfList
  <2>2. prev[Node(recent, Len(recent) + 1)] = Node(recent, Len(recent))
    BY <1>2 DEF Linked
  <2> QED BY <1>3, <2>1, <2>2 DEF KeysOf
<1>5. Others(key) = recent
  BY <1>1, OthersAre
<1>6. /\ t \in Lists /\ Len(t) = Len(recent) - 1
      /\ KeysOf(t) = KeysOf(recent) \ {last}
      /\ \A i \in DOMAIN t : \E j \in DOMAIN recent : t[i] = recent[j]
  <2>1. /\ t \in Lists /\ Len(t) = Len(recent) - 1
        /\ KeysOf(t) = KeysOf(recent) \ {recent[Len(recent)].key}
        /\ \A i \in DOMAIN t : \E j \in DOMAIN recent : j # Len(recent) /\ t[i] = recent[j]
    BY <1>2, <1>3, WithoutIsList
  <2> HIDE DEF t
  <2> QED BY <1>4, <2>1
<1>7. /\ kept = [nxt |-> kept.nxt, prv |-> kept.prv]
      /\ kept.nxt \in Links /\ kept.prv \in Links
      /\ Linked(kept.nxt, kept.prv, t)
      /\ SameBut(next, kept.nxt, KeysOf(recent)) /\ SameBut(prev, kept.prv, KeysOf(recent))
      /\ kept.nxt[last] = Null /\ kept.prv[last] = Null
  BY <1>2, <1>3, <1>4, RemoveLinks
<1> HIDE DEF kept, last
<1>8. links = InsertToLRU([nxt |-> kept.nxt, prv |-> kept.prv], key)
  BY <1>7
<1> HIDE DEF links
<1>9. recent' = <<[key |-> key, value |-> value, at |-> now]>> \o t
  <2> DEFINE e == [key |-> key, value |-> value, at |-> now]
             all == <<e>> \o recent
  <2>1. e \in Entries /\ e.key = key
    BY <1>2 DEF Entries
  <2>2. Expected(key, value) = IF Len(all) = Capacity + 1 THEN SubSeq(all, 1, Capacity) ELSE all
    BY <1>5 DEF Expected
  <2> HIDE DEF e
  <2>3. Len(all) = Len(recent) + 1 /\ all \in Seq(Entries)
    BY <1>1, <1>2, <2>1, WithIsList DEF Lists
  <2>4. recent' = SubSeq(all, 1, Capacity)
    BY <1>1, <1>2, <2>2, <2>3
  <2>5. /\ recent \in Seq(Entries) /\ <<e>> \in Seq(Entries) /\ Len(<<e>>) = 1
        /\ t \in Seq(Entries)
    BY <1>2, <1>6, <2>1 DEF Lists
  <2>6. \A i \in 1 .. 1 + Len(recent) : all[i] = IF i <= 1 THEN <<e>>[i] ELSE recent[i - 1]
    BY <2>5, ConcatProperties
  <2>7. /\ <<e>> \o t \in Seq(Entries) /\ Len(<<e>> \o t) = 1 + Len(t)
        /\ \A i \in 1 .. 1 + Len(t) : (<<e>> \o t)[i] = IF i <= 1 THEN <<e>>[i] ELSE t[i - 1]
    BY <2>5, ConcatProperties
  <2>8. \A i \in 1 .. Len(recent) - 1 : t[i] = IF i < Len(recent) THEN recent[i] ELSE recent[i + 1]
    BY <1>3, <2>5, RemoveAtIs
  <2> HIDE DEF all, t
  <2>9. /\ SubSeq(all, 1, Capacity) \in Seq(Entries)
        /\ Len(SubSeq(all, 1, Capacity)) = Capacity
        /\ \A i \in 1 .. Capacity : SubSeq(all, 1, Capacity)[i] = all[i]
    <3>1. 1 \in Int /\ Capacity \in Int /\ 1 <= Capacity /\ \A i \in 1 .. Capacity : all[i] \in Entries
      BY <1>2, <1>3, <2>3
    <3>2. /\ SubSeq(all, 1, Capacity) \in Seq(Entries)
          /\ Len(SubSeq(all, 1, Capacity)) = IF 1 <= Capacity THEN Capacity - 1 + 1 ELSE 0
          /\ \A i \in 1 .. Capacity - 1 + 1 : SubSeq(all, 1, Capacity)[i] = all[1 + i - 1]
      BY <3>1, SubSeqProperties
    <3> QED BY <3>1, <3>2
  <2>10. ASSUME NEW i \in 1 .. Capacity
         PROVE  all[i] = (<<e>> \o t)[i]
    <3>1. i \in 1 .. 1 + Len(recent) /\ i \in 1 .. 1 + Len(t)
      BY <1>2, <1>3, <1>6
    <3>2. CASE i <= 1
      BY <2>6, <2>7, <3>1, <3>2
    <3>3. CASE ~(i <= 1)
      <4>1. i - 1 \in 1 .. Len(recent) - 1 /\ i - 1 < Len(recent)
        BY <1>2, <3>3
      <4> QED BY <2>6, <2>7, <2>8, <3>1, <3>3, <4>1
    <3> QED BY <3>2, <3>3
  <2>11. SubSeq(all, 1, Capacity) = <<e>> \o t
    <3>1. Len(<<e>> \o t) = Capacity
      BY <1>2, <1>6, <2>7
    <3> QED BY <2>7, <2>9, <2>10, <3>1, SeqEqual
  <2> QED BY <2>4, <2>11 DEF e
<1> HIDE DEF t
<1>10. KeysOf(t) \subseteq Keys \ {key, last}
  BY <1>1, <1>2, <1>6
<1>11. /\ res' \in [Keys -> Values \cup {Null}]
       /\ last_modified' \in [Keys -> 0 .. MaxNow]
       /\ res'[key] = value /\ last_modified'[key] = now
       /\ \A k \in Keys \ {key, last} : res'[k] = res[k] /\ last_modified'[k] = last_modified[k]
  BY <1>1, <1>2, MaxNowAssumption
<1>12. cache_map_' = KeysOf(t) \cup {key}
  BY <1>1, <1>2, <1>6
<1>13. ASSUME NEW k \in Keys, k \notin KeysOf(t) \cup {key}
       PROVE  kept.nxt[k] = Null /\ kept.prv[k] = Null
  <2>1. CASE k = last
    BY <1>7, <2>1
  <2>2. CASE k # last
    <3>1. k \in Nodes \ (KeysOf(recent) \cup {lru_head_})
      BY <1>6, <1>13, <2>2, KeysAssumption DEF Nodes
    <3> QED BY <1>2, <1>7, <3>1 DEF SameBut
  <2> QED BY <2>1, <2>2
<1>14. Capacity > 0 => Len(t) + 1 <= Capacity
  BY <1>2, <1>6
<1>15. \A k \in KeysOf(t) : res'[k] = res[k] /\ last_modified'[k] = last_modified[k]
  BY <1>10, <1>11
<1>16. KeysOf(t) \subseteq Keys \ {key}
  BY <1>10
<1> QED BY <1>1, <1>6, <1>7, <1>8, <1>9, <1>11, <1>12, <1>13, <1>14, <1>15, <1>16, PrependKeeps

-----------------------------------------------------------------------------
(* The theorems.                                                           *)

\* The invariant holds throughout.
THEOREM CacheInvariance == Spec => []CacheInv
<1>1. Init => CacheInv
  <2> SUFFICES ASSUME Init
               PROVE  CacheInv
    OBVIOUS
  <2>1. /\ now = 0 /\ cache_map_ = {} /\ recent = <<>>
        /\ res = [k \in Keys |-> Null]
        /\ last_modified = [k \in Keys |-> 0]
        /\ next = [n \in Nodes |-> IF n = lru_head_ THEN lru_head_ ELSE Null]
        /\ prev = next
    BY DEF Init
  <2>2. lru_head_ \in Nodes /\ lru_head_ # Null /\ lru_head_ \notin Keys /\ Keys \subseteq Nodes
    BY KeysAssumption DEF Nodes
  <2>3. TypeOK
    BY <2>1, <2>2, MaxNowAssumption DEF TypeOK
  <2>4. RingIsLru
    BY <2>1, <2>2 DEF RingIsLru, At
  <2>5. MapIsRing /\ ContentsAgree
    <3>1. DOMAIN recent = {} /\ Len(recent) = 0
      BY <2>1
    <3> QED BY <2>1, <3>1, CapacityAssumption DEF MapIsRing, ContentsAgree
  <2> QED BY <2>3, <2>4, <2>5 DEF CacheInv, CacheExact
<1>2. CacheInv /\ [Next]_vars => CacheInv'
  <2> SUFFICES ASSUME CacheInv, [Next]_vars
               PROVE  CacheInv'
    OBVIOUS
  <2>1. ASSUME NEW key \in Keys, NEW value \in Values, Set_existing(key, value)
        PROVE  CacheInv'
    BY <2>1, Set_existingKeeps
  <2>2. ASSUME NEW key \in Keys, NEW value \in Values, Set_new(key, value)
        PROVE  CacheInv'
    BY <2>2, Set_newKeeps, Set_newEvicts
  <2>3. ASSUME NEW t \in 0 .. MaxNow, Clock(t)
        PROVE  CacheInv'
    BY <2>3 DEF Clock, CacheInv, CacheExact, TypeOK, RingIsLru, MapIsRing, ContentsAgree, At
  <2>4. CASE UNCHANGED vars
    BY <2>4 DEF vars, CacheInv, CacheExact, TypeOK, RingIsLru, MapIsRing, ContentsAgree, At
  <2> QED BY <2>1, <2>2, <2>3, <2>4 DEF Next
<1> QED BY <1>1, <1>2, PTL DEF Spec

\* Ring and map are two exact views of one cache, whatever is set in whatever
\* order (resource_cache.h:92-153).
THEOREM CacheExactAlways == Spec => []CacheExact
<1>1. CacheInv => CacheExact
  BY DEF CacheInv
<1> QED BY <1>1, CacheInvariance, PTL

\* Get returns what was set last, while it is young and among the Capacity most
\* recently set, and nothing otherwise, also when the clock is set back
\* (resource_cache.h:76-90).
THEOREM GetIsFreshAlways == Spec => []GetIsFresh
<1>1. CacheInv => GetIsFresh
  <2> SUFFICES ASSUME CacheInv, NEW k \in Keys, NEW v \in Values
               PROVE  Get(k) = v <=>
                        \E i \in DOMAIN recent :
                          recent[i].key = k /\ recent[i].value = v /\ now - recent[i].at < Expire
    BY DEF GetIsFresh
  <2>1. /\ cache_map_ = {recent[i].key : i \in DOMAIN recent}
        /\ \A i, j \in DOMAIN recent : recent[i].key = recent[j].key => i = j
        /\ \A i \in DOMAIN recent :
             res[recent[i].key] = recent[i].value /\ last_modified[recent[i].key] = recent[i].at
    BY DEF CacheInv, CacheExact, MapIsRing, ContentsAgree
  <2>2. v # Null
    BY KeysAssumption
  <2>3. CASE k \notin cache_map_
    BY <2>1, <2>2, <2>3 DEF Get
  <2>4. CASE k \in cache_map_
    <3>1. PICK i \in DOMAIN recent : recent[i].key = k
      BY <2>1, <2>4
    <3>2. Get(k) = IF now - recent[i].at < Expire THEN recent[i].value ELSE Null
      BY <2>1, <2>4, <3>1 DEF Get
    <3>3. \A j \in DOMAIN recent : recent[j].key = k => j = i
      BY <2>1, <3>1
    <3> QED BY <2>2, <3>1, <3>2, <3>3
  <2> QED BY <2>3, <2>4
<1> QED BY <1>1, CacheInvariance, PTL
=============================================================================
