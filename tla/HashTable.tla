----------------------------- MODULE HashTable ------------------------------
(***************************************************************************)
(* The hash table of src/hashtable/hashtable.c: items chained in buckets   *)
(* through h_next and, in the order of their insertion, in a doubly linked *)
(* list through next and prev, which hashtable_apply walks and             *)
(* hashtable_apply2 rotates.  A callback of the two may insert and remove  *)
(* items in the middle of the walk; it must not remove the item that the   *)
(* walk has already chosen to visit next, nor clear the table.             *)
(***************************************************************************)
EXTENDS Integers, FiniteSets, SequencesExt

CONSTANTS Items,     \* the HashItems the program allocates
          Keys,
          KeyOf,     \* the key of each item
          Buckets,
          BucketOf,  \* hash(key) & hashmask(hashpower)
          Null,
          MaxN       \* bound: the largest n that hashtable_apply2 is given

ASSUME KeyOfAssumption == KeyOf \in [Items -> Keys]
ASSUME BucketOfAssumption == BucketOf \in [Keys -> Buckets]
ASSUME NullAssumption == Null \notin Items
ASSUME MaxNAssumption == MaxN \in Nat

VARIABLES
  primary_hashtable,  \* the first item of each bucket
  live,               \* primary_hashtable # NULL
  head, tail,         \* the ends of the list
  hash_items,         \* the number of items
  next, prev, h_next, \* the links of the items
  heap,               \* the items that are allocated
  pc, hi, nxt, i, n,  \* the walk of apply (n = 0) or apply2: its local variables
  order,              \* history: the items in the table, as apply should visit them
  chains,             \* history: the items of each bucket, inserted last first
  unvisited           \* history: items of the table when the walk began, still there and not visited

links == <<next, prev, h_next>>
table == <<primary_hashtable, live, head, tail, hash_items>>
walk == <<pc, hi, nxt, i, n>>
history == <<order, chains, unvisited>>
vars == <<primary_hashtable, live, head, tail, hash_items, next, prev, h_next,
          heap, pc, hi, nxt, i, n, order, chains, unvisited>>

Allocated == Items \cup {Null}

\* Where x is in s, and s without it.
IndexIn(s, x) == CHOOSE j \in DOMAIN s : s[j] = x
Without(s, x) == RemoveAt(s, IndexIn(s, x))

Init ==
  /\ primary_hashtable = [b \in Buckets |-> Null]
  /\ live = FALSE
  /\ head = Null /\ tail = Null
  /\ hash_items = 0
  /\ next = [x \in Items |-> Null]
  /\ prev = [x \in Items |-> Null]
  /\ h_next = [x \in Items |-> Null]
  /\ heap = {}
  /\ pc = "idle" /\ hi = Null /\ nxt = Null /\ i = 0 /\ n = 0
  /\ order = <<>>
  /\ chains = [b \in Buckets |-> <<>>]
  /\ unvisited = {}

-----------------------------------------------------------------------------
\* The program runs: outside the table's functions, or in a callback.
InProgram == pc \in {"idle", "func"}

hashtable_init ==
  /\ ~live /\ pc = "idle"
  /\ live' = TRUE
  /\ primary_hashtable' = [b \in Buckets |-> Null]
  /\ head' = Null /\ tail' = Null /\ hash_items' = 0
  /\ UNCHANGED <<links, heap, walk, history>>

\* alloc_func and memset.
hashitem_alloc(x) ==
  /\ InProgram /\ live
  /\ x \notin heap
  /\ heap' = heap \cup {x}
  /\ next' = [next EXCEPT ![x] = Null]
  /\ prev' = [prev EXCEPT ![x] = Null]
  /\ h_next' = [h_next EXCEPT ![x] = Null]
  /\ UNCHANGED <<table, walk, history>>

\* The program frees an item that it has removed or not inserted.
hashitem_free(x) ==
  /\ InProgram
  /\ x \in heap \ Range(order)
  /\ heap' = heap \ {x}
  /\ UNCHANGED <<table, links, walk, history>>

\* The items that a loop along link meets when it starts at x: the smallest set
\* that has x and, of each of its items, the next one.
Met(link, x) ==
  LET targets == ({x} \cup Range(link)) \ {Null}
      closed == {S \in SUBSET targets :
                   /\ x # Null => x \in S
                   /\ \A y \in S : link[y] # Null => link[y] \in S}
  IN  {y \in targets : \A S \in closed : y \in S}

\* hashtable_find: a loop along the chain of the key's bucket that goes no
\* further than an item with the key.
hashtable_find(k) ==
  LET onward == [x \in Items |-> IF KeyOf[x] = k THEN Null ELSE h_next[x]]
      met == Met(onward, primary_hashtable[BucketOf[k]])
  IN  IF \E x \in met : KeyOf[x] = k THEN CHOOSE x \in met : KeyOf[x] = k ELSE Null

\* _hashitem_before: the item whose h_next is the one found, Null if that is
\* the bucket itself.
hashitem_before(k) ==
  LET found == hashtable_find(k)
      first == primary_hashtable[BucketOf[k]]
  IN  IF first = found THEN Null ELSE CHOOSE x \in Met(h_next, first) : h_next[x] = found

\* The head after x was appended.
NewHead(x) == IF head = Null THEN x ELSE head

\* HT_EXISTS for a key that is present: nothing changes.
hashtable_insert(x) ==
  /\ InProgram /\ live
  /\ x \in heap
  /\ hashtable_find(KeyOf[x]) = Null
  /\ LET b == BucketOf[KeyOf[x]]
     IN  /\ h_next' = [h_next EXCEPT ![x] = primary_hashtable[b]]
         /\ primary_hashtable' = [primary_hashtable EXCEPT ![b] = x]
         /\ chains' = [chains EXCEPT ![b] = <<x>> \o @]
  /\ next' = [y \in Items |-> IF y = x THEN Null ELSE IF y = tail THEN x ELSE next[y]]
  /\ prev' = [prev EXCEPT ![x] = tail]
  /\ tail' = x
  /\ head' = NewHead(x)
  /\ hash_items' = hash_items + 1
  /\ order' = Append(order, x)
  /\ UNCHANGED <<live, heap, walk, unvisited>>

\* Mutant: the chain is cut at the removed item.
Unchain_cut(x) == Null
\* What *before is set to when x is removed.
Unchain(x) == h_next[x]

hashtable_remove(k) ==
  /\ InProgram /\ live
  /\ LET x == hashtable_find(k)
         before == hashitem_before(k)
         b == BucketOf[k]
     IN  /\ x # Null
         /\ pc = "func" => x # nxt
         /\ primary_hashtable' = IF before = Null
                                 THEN [primary_hashtable EXCEPT ![b] = Unchain(x)]
                                 ELSE primary_hashtable
         /\ h_next' = [y \in Items |-> IF y = x THEN Null
                                       ELSE IF y = before THEN Unchain(x) ELSE h_next[y]]
         /\ head' = IF x = head THEN next[x] ELSE head
         /\ tail' = IF x = tail THEN prev[x] ELSE tail
         /\ next' = [y \in Items |-> IF y = x THEN Null
                                     ELSE IF y = prev[x] THEN next[x] ELSE next[y]]
         /\ prev' = [y \in Items |-> IF y = x THEN Null
                                     ELSE IF y = next[x] THEN prev[x] ELSE prev[y]]
         /\ order' = Without(order, x)
         /\ chains' = [chains EXCEPT ![b] = Without(@, x)]
         /\ unvisited' = unvisited \ {x}
  /\ hash_items' = hash_items - 1
  /\ UNCHANGED <<live, heap, walk>>

\* The items that the loop of hashtable_clear takes out and frees.
Listed == Met(next, head)

\* hashtable_clear, and hashtable_destroy, which frees the buckets as well.
\* Both return -1 and do nothing on an empty table.
hashtable_clear(destroy) ==
  /\ pc = "idle" /\ live
  /\ head # Null /\ tail # Null
  /\ heap' = heap \ Listed
  /\ next' = [x \in Items |-> IF x \in Listed THEN Null ELSE next[x]]
  /\ prev' = [x \in Items |-> IF x \in Listed THEN Null ELSE prev[x]]
  /\ hash_items' = hash_items - Cardinality(Listed)
  /\ head' = Null /\ tail' = Null
  /\ primary_hashtable' = [b \in Buckets |-> Null]
  /\ live' = ~destroy
  /\ h_next' = [x \in Items |-> IF x \in Listed THEN Null ELSE h_next[x]]
  /\ order' = <<>>
  /\ chains' = [b \in Buckets |-> <<>>]
  /\ UNCHANGED <<walk, unvisited>>

-----------------------------------------------------------------------------
(* hashtable_apply and hashtable_apply2.                                   *)

\* limit = 0 is hashtable_apply: no limit.
hashtable_apply(limit) ==
  /\ pc = "idle" /\ live
  /\ pc' = "loop" /\ hi' = head /\ nxt' = Null /\ i' = 0 /\ n' = limit
  /\ unvisited' = Range(order)
  /\ UNCHANGED <<table, links, heap, order, chains>>

\* apply2 has counted n calls.
LimitReached == n > 0 /\ i >= n

\* The item to visit next is read before the callback runs.
apply_visit ==
  /\ pc = "loop" /\ hi # Null /\ ~LimitReached
  /\ nxt' = next[hi]
  /\ pc' = "func"
  /\ unvisited' = unvisited \ {hi}
  /\ UNCHANGED <<table, links, heap, hi, i, n, order, chains>>

\* Mutants: next is read after the callback; a counted item is not passed over.
apply_func_returns_late(counted) ==
  /\ pc = "func"
  /\ hi' = next[hi]
  /\ nxt' = Null
  /\ i' = IF n > 0 /\ counted THEN i + 1 ELSE i
  /\ pc' = "loop"
  /\ UNCHANGED <<table, links, heap, n, history>>
apply_func_returns_stay(counted) ==
  /\ pc = "func"
  /\ hi' = IF counted THEN hi ELSE nxt
  /\ nxt' = Null
  /\ i' = IF n > 0 /\ counted THEN i + 1 ELSE i
  /\ pc' = "loop"
  /\ UNCHANGED <<table, links, heap, n, history>>

\* apply_func returns; apply2 counts the calls that returned non-zero.
apply_func_returns(counted) ==
  /\ pc = "func"
  /\ hi' = nxt
  /\ nxt' = Null
  /\ i' = IF n > 0 /\ counted THEN i + 1 ELSE i
  /\ pc' = "loop"
  /\ UNCHANGED <<table, links, heap, n, history>>

WalkOver == pc' = "idle" /\ hi' = Null /\ i' = 0 /\ n' = 0 /\ unvisited' = {}

apply_ends ==
  /\ pc = "loop" /\ hi = Null
  /\ WalkOver
  /\ UNCHANGED <<table, links, heap, nxt, order, chains>>

\* The list from x on, then the part before x.
Rotated(x) ==
  LET at == IndexIn(order, x)
  IN  SubSeq(order, at, Len(order)) \o SubSeq(order, 1, at - 1)

\* apply2 stopped at hi: tie the ends of the list together and cut before hi.
apply2_rotates ==
  /\ pc = "loop" /\ hi # Null /\ LimitReached
  /\ LET tied == [next EXCEPT ![tail] = head]
         back == [prev EXCEPT ![head] = tail]
     IN  /\ head' = hi
         /\ tail' = back[hi]
         /\ prev' = [back EXCEPT ![hi] = Null]
         /\ next' = [tied EXCEPT ![back[hi]] = Null]
  /\ order' = Rotated(hi)
  /\ WalkOver
  /\ UNCHANGED <<primary_hashtable, live, hash_items, h_next, heap, nxt, chains>>

Next ==
  \/ hashtable_init
  \/ \E x \in Items : hashitem_alloc(x) \/ hashitem_free(x) \/ hashtable_insert(x)
  \/ \E k \in Keys : hashtable_remove(k)
  \/ \E destroy \in BOOLEAN : hashtable_clear(destroy)
  \/ \E limit \in 0 .. MaxN : hashtable_apply(limit)
  \/ apply_visit
  \/ \E counted \in BOOLEAN : apply_func_returns(counted)
  \/ apply_ends
  \/ apply2_rotates

Spec == Init /\ [][Next]_vars

-----------------------------------------------------------------------------
TypeOK ==
  /\ primary_hashtable \in [Buckets -> Allocated]
  /\ live \in BOOLEAN
  /\ head \in Allocated /\ tail \in Allocated
  /\ hash_items \in Nat
  /\ next \in [Items -> Allocated]
  /\ prev \in [Items -> Allocated]
  /\ h_next \in [Items -> Allocated]
  /\ heap \subseteq Items
  /\ pc \in {"idle", "loop", "func"}
  /\ hi \in Allocated /\ nxt \in Allocated
  /\ i \in 0 .. MaxN /\ n \in 0 .. MaxN
  /\ order \in Seq(Items)
  /\ chains \in [Buckets -> Seq(Items)]
  /\ unvisited \subseteq Items

\* A sequence of items, Null before and after it.
At(s, j) == IF j \in DOMAIN s THEN s[j] ELSE Null

(* The list holds the items in the order of their insertion, rotated by    *)
(* apply2, forwards from head and backwards from tail, whatever callbacks  *)
(* inserted and removed in the middle of a walk.                           *)
ListExact ==
  /\ head = At(order, 1) /\ tail = At(order, Len(order))
  /\ \A j \in DOMAIN order :
       next[order[j]] = At(order, j + 1) /\ prev[order[j]] = At(order, j - 1)
  /\ \A j, k \in DOMAIN order : order[j] = order[k] => j = k

(* Every bucket's chain holds the items of the list whose keys hash to it, *)
(* each key once, and they are counted: so an item can be found exactly    *)
(* while it is in the list, and no chain or list leads to a freed item.    *)
ChainsExact ==
  /\ \A b \in Buckets :
       /\ primary_hashtable[b] = At(chains[b], 1)
       /\ \A j \in DOMAIN chains[b] : h_next[chains[b][j]] = At(chains[b], j + 1)
       /\ Range(chains[b]) = {x \in Range(order) : BucketOf[KeyOf[x]] = b}
  /\ \A x, y \in Range(order) : KeyOf[x] = KeyOf[y] => x = y
  /\ Range(order) \subseteq heap
  /\ hash_items = Len(order)

(* List and chains are two exact views of one table.                       *)
TableExact == TypeOK /\ ListExact /\ ChainsExact

(* A walk stands on an item of the table, and the one it visits next is in *)
(* the table while the callback runs, although the callback may remove     *)
(* and free the item it was called for.                                    *)
WalkIsValid ==
  /\ pc = "loop" => hi \in Range(order) \cup {Null}
  /\ pc = "func" => nxt \in Range(order) \cup {Null}

(* hashtable_apply misses no item that was in the table when it began and  *)
(* that no callback removed; hashtable_apply2 that was not cut short too.  *)
ApplyVisitsAll == pc = "loop" /\ hi = Null => unvisited = {}
=============================================================================
