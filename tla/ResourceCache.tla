--------------------------- MODULE ResourceCache ----------------------------
(***************************************************************************)
(* ResourceCache<T> of src/resource_cache: a map from keys to items, which *)
(* are also linked in a ring through the sentinel lru_head_, the item set  *)
(* last behind it and the one to evict before it.  Every public operation  *)
(* holds cache_mutex_ from its first to its last line, so each is one      *)
(* step; threads interleave between them and the system clock, which may   *)
(* be set, between any two.                                                *)
(*                                                                         *)
(* An item is named by its key: the map holds at most one for each.        *)
(***************************************************************************)
EXTENDS Integers, FiniteSets, SequencesExt

CONSTANTS Keys, Values,
          Capacity,  \* capacity_; compared with a size_t, a negative one is never reached
          Expire,    \* expire_seconds_
          MaxNow,    \* bound: the last instant of the clock, in seconds
          lru_head_, \* the sentinel, a member of the cache
          Null       \* nullptr

\* With capacity 0 the first Set would evict, and delete, the sentinel: the
\* constructor does not refuse it, and its callers must not pass it.
ASSUME CapacityAssumption == Capacity \in Int \ {0}
ASSUME ExpireAssumption == Expire \in Int
ASSUME MaxNowAssumption == MaxNow \in Nat
ASSUME KeysAssumption == lru_head_ \notin Keys /\ Null \notin Keys \cup {lru_head_} \cup Values

Nodes == Keys \cup {lru_head_}

VARIABLES
  now,            \* system_clock
  cache_map_,     \* the keys that have an item
  res,            \* the resource of each item
  last_modified,  \* when it was set
  next, prev,     \* the links of the ring; Null for a freed item
  recent          \* history: what the cache should hold, set last first

vars == <<now, cache_map_, res, last_modified, next, prev, recent>>

\* The constructors.
Init ==
  /\ now = 0
  /\ cache_map_ = {}
  /\ res = [k \in Keys |-> Null]
  /\ last_modified = [k \in Keys |-> 0]
  /\ next = [n \in Nodes |-> IF n = lru_head_ THEN lru_head_ ELSE Null]
  /\ prev = [n \in Nodes |-> IF n = lru_head_ THEN lru_head_ ELSE Null]
  /\ recent = <<>>

-----------------------------------------------------------------------------
(* The ring: what each function does to <<next, prev>>.                    *)

\* item->prev->next = item->next; item->next->prev = item->prev
Unlink(links, k) ==
  [nxt |-> [links.nxt EXCEPT ![links.prv[k]] = links.nxt[k]],
   prv |-> [links.prv EXCEPT ![links.nxt[k]] = links.prv[k]]]

\* Mutant: the old first item keeps its link to the sentinel.
InsertToLRU_oneway(links, k) ==
  [nxt |-> [links.nxt EXCEPT ![k] = links.nxt[lru_head_], ![lru_head_] = k],
   prv |-> [links.prv EXCEPT ![k] = lru_head_]]

InsertToLRU(links, k) ==
  LET first == links.nxt[lru_head_]
  IN  [nxt |-> [links.nxt EXCEPT ![k] = first, ![lru_head_] = k],
       prv |-> [[links.prv EXCEPT ![k] = lru_head_] EXCEPT ![first] = k]]

RemoveFromLRU(links, k) ==
  LET rest == Unlink(links, k)
  IN  [nxt |-> [rest.nxt EXCEPT ![k] = Null], prv |-> [rest.prv EXCEPT ![k] = Null]]

\* Mutant: an item that is set again stays where it is.
MoveToLRUHead_stay(links, k) == links

MoveToLRUHead(links, k) == InsertToLRU(Unlink(links, k), k)

-----------------------------------------------------------------------------
(* The public operations.                                                  *)

\* Mutant: an item that is as old as Expire is still returned.
Get_stale(key) ==
  IF key \in cache_map_ /\ now - last_modified[key] <= Expire THEN res[key] ELSE Null

\* What Get returns: the resource, unless it is missing or too old.  Reading an
\* item does not move it to the head of the ring.
Get(key) ==
  IF key \in cache_map_ /\ now - last_modified[key] < Expire THEN res[key] ELSE Null

\* cache_map_.size() == capacity_
AtCapacity == Cardinality(cache_map_) = Capacity

\* What is held for other keys.
Others(key) ==
  LET places == {i \in DOMAIN recent : recent[i].key = key}
  IN  IF places = {} THEN recent ELSE RemoveAt(recent, CHOOSE i \in places : TRUE)

\* What a cache of Capacity items should hold after Set: the new item before
\* the others, and without the last one if they are too many.
Expected(key, value) ==
  LET all == <<[key |-> key, value |-> value, at |-> now]>> \o Others(key)
  IN  IF Len(all) = Capacity + 1 THEN SubSeq(all, 1, Capacity) ELSE all

\* Set on a key that has an item: replace the resource, move the item.
Set_existing(key, value) ==
  /\ key \in cache_map_
  /\ LET links == MoveToLRUHead([nxt |-> next, prv |-> prev], key)
     IN  next' = links.nxt /\ prev' = links.prv
  /\ res' = [res EXCEPT ![key] = value]
  /\ last_modified' = [last_modified EXCEPT ![key] = now]
  /\ recent' = Expected(key, value)
  /\ UNCHANGED <<now, cache_map_>>

\* Set on a new key: evict the item before the sentinel if the cache is full,
\* then insert behind the sentinel.
Set_new(key, value) ==
  /\ key \notin cache_map_
  /\ LET links == [nxt |-> next, prv |-> prev]
         evicted == IF AtCapacity THEN {prev[lru_head_]} ELSE {}
         kept == IF AtCapacity THEN RemoveFromLRU(links, prev[lru_head_]) ELSE links
         inserted == InsertToLRU(kept, key)
     IN  /\ next' = inserted.nxt /\ prev' = inserted.prv
         /\ cache_map_' = (cache_map_ \ evicted) \cup {key}
         /\ res' = [k \in Keys |-> IF k = key THEN value
                                   ELSE IF k \in evicted THEN Null ELSE res[k]]
         /\ last_modified' = [k \in Keys |-> IF k = key THEN now
                                             ELSE IF k \in evicted THEN 0 ELSE last_modified[k]]
  /\ recent' = Expected(key, value)
  /\ UNCHANGED now

\* The system clock moves on, or is set.
Clock(t) ==
  /\ t # now
  /\ now' = t
  /\ UNCHANGED <<cache_map_, res, last_modified, next, prev, recent>>

Next ==
  \/ \E key \in Keys, value \in Values : Set_existing(key, value) \/ Set_new(key, value)
  \/ \E t \in 0 .. MaxNow : Clock(t)

Spec == Init /\ [][Next]_vars

-----------------------------------------------------------------------------
Entries == [key : Keys, value : Values, at : 0 .. MaxNow]

TypeOK ==
  /\ now \in 0 .. MaxNow
  /\ cache_map_ \subseteq Keys
  /\ res \in [Keys -> Values \cup {Null}]
  /\ last_modified \in [Keys -> 0 .. MaxNow]
  /\ next \in [Nodes -> Nodes \cup {Null}]
  /\ prev \in [Nodes -> Nodes \cup {Null}]
  /\ next[lru_head_] # Null /\ prev[lru_head_] # Null
  /\ recent \in Seq(Entries)

\* The i-th node of the ring that recent describes, the sentinel at both ends.
At(i) == IF i \in DOMAIN recent THEN recent[i].key ELSE lru_head_

(* The ring runs through exactly the items the cache should hold, most     *)
(* recently set first, forwards and backwards: no order of insertions,     *)
(* moves and evictions breaks a link, links a freed item or leaves the     *)
(* wrong item to be evicted next.                                          *)
RingIsLru ==
  /\ \A i \in 0 .. Len(recent) : next[At(i)] = At(i + 1) /\ prev[At(i + 1)] = At(i)
  /\ \A k \in Keys : k \notin cache_map_ => next[k] = Null /\ prev[k] = Null

(* The map and the ring hold the same items, one for each key, and never   *)
(* more than Capacity of them, if that is not negative.                    *)
MapIsRing ==
  /\ cache_map_ = {recent[i].key : i \in DOMAIN recent}
  /\ \A i, j \in DOMAIN recent : recent[i].key = recent[j].key => i = j
  /\ Capacity > 0 => Len(recent) <= Capacity

(* Ring and map are two exact views of one cache.                          *)
CacheExact == TypeOK /\ RingIsLru /\ MapIsRing

(* Get returns what was last set for the key if that was less than Expire  *)
(* seconds ago and fewer than Capacity other keys were set since, and      *)
(* nothing otherwise.                                                      *)
GetIsFresh ==
  \A k \in Keys, v \in Values :
    Get(k) = v <=>
      \E i \in DOMAIN recent :
        recent[i].key = k /\ recent[i].value = v /\ now - recent[i].at < Expire
=============================================================================
