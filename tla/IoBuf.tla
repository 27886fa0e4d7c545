-------------------------------- MODULE IoBuf --------------------------------
(***************************************************************************)
(* The I/O buffers of src/httpserver/iobuf.cc: an IOBuf is a ring of       *)
(* blocks, each block a window on a piece of memory that several blocks    *)
(* may share by reference count.  Bytes are written at the last block and  *)
(* taken from both ends; Split moves whole blocks and clones the one it    *)
(* has to cut, so that two buffers have windows on one memory.             *)
(*                                                                         *)
(* The ring from head_ to head_->prev_ is a sequence of blocks: next_ and  *)
(* prev_ are its order.                                                    *)
(***************************************************************************)
EXTENDS Integers, SequencesExt

CONSTANTS Bufs,      \* the IOBuf objects
          Memories,  \* the pieces of memory malloc may return
          Capacity,  \* kDefaultBufferSize - sizeof(SharedInfo)
          Sources    \* bound: the sequences of bytes that callers write

ASSUME CapacityAssumption == Capacity \in Nat \ {0}
ASSUME SourcesAssumption == \A s \in Sources : s # <<>>

VARIABLES
  alive,    \* the IOBuf objects that exist
  blocks,   \* blocks[b]: the ring of b, from head_ on
  length,   \* length_ of b
  ref,      \* SharedInfo of a piece of memory, 0 when it is free
  cell,     \* what is written in a piece of memory
  content   \* history: the bytes b was given and that were not taken from it

vars == <<alive, blocks, length, ref, cell, content>>

\* A block: len bytes from data on, inside the memory.
Block == {block \in [mem : Memories, data : 0 .. Capacity, len : 0 .. Capacity] :
            block.data + block.len <= Capacity}
Bytes == UNION {ToSet(s) : s \in Sources}
Offsets == 0 .. Capacity - 1
Lost == "lost"      \* in content: a byte that was overwritten or not copied
Garbage == [i \in Offsets |-> "unwritten"]

Init ==
  /\ alive = {}
  /\ blocks = [b \in Bufs |-> <<>>]
  /\ length = [b \in Bufs |-> 0]
  /\ ref = [m \in Memories |-> 0]
  /\ cell = [m \in Memories |-> Garbage]
  /\ content = [b \in Bufs |-> <<>>]

-----------------------------------------------------------------------------
(* Blocks and rings.                                                       *)

\* Mutant: the bytes trimmed at the start are taken for space at the end.
Space_untrimmed(block) == Capacity - block.len

Space(block) == Capacity - (block.data + block.len)

\* Block::TrimStart, Block::TrimEnd and Block::Append.
Later(block, n) == [block EXCEPT !.data = @ + n, !.len = @ - n]
Shorter(block, n) == [block EXCEPT !.len = @ - n]
Longer(block, n) == [block EXCEPT !.len = @ + n]

\* Ref and Unref: every block that goes gives back its count.  A memory that
\* nobody counts is freed.
OnMemory(ring, m) == Cardinality({i \in DOMAIN ring : ring[i].mem = m})
Unref(gone) == [m \in Memories |-> ref[m] - OnMemory(gone, m)]
Freed(refs) == [m \in Memories |-> IF refs[m] = 0 THEN Garbage ELSE cell[m]]

LengthOf(ring) == FoldLeft(LAMBDA n, block : n + block.len, 0, ring)

\* The loops of TrimStart and Split.  To take n bytes they pop whole blocks
\* until no byte is left to take, the next block is longer than what is left
\* or there is none; of the longer block they cut off what is left.
Take(ring, n) ==
  LET Popped(k) == LengthOf(SubSeq(ring, 1, k))
      k == CHOOSE k \in 0 .. Len(ring) :
             /\ Popped(k) = n \/ k = Len(ring) \/ Popped(k + 1) > n
             /\ \A j \in 0 .. k - 1 : Popped(j) < n /\ Popped(j + 1) <= n
      left == SubSeq(ring, k + 1, Len(ring))
      cut == IF left = <<>> THEN 0 ELSE n - Popped(k)
  IN  [whole |-> SubSeq(ring, 1, k),
       cut |-> cut,
       rest |-> IF cut = 0 THEN left ELSE <<Later(Head(left), cut)>> \o Tail(left)]

\* The loop of TrimEnd, which takes from the rear.
TakeEnd(ring, n) ==
  LET taken == Take(Reverse(ring), n)
      left == SubSeq(ring, 1, Len(ring) - Len(taken.whole))
  IN  [whole |-> taken.whole,
       cut |-> taken.cut,
       rest |-> IF taken.cut = 0 THEN left
                ELSE Append(Front(left), Shorter(Last(left), taken.cut))]

\* ByteAt walks the ring; a block that ends before pos is skipped.
Place(b, pos) ==
  LET Before(i) == LengthOf(SubSeq(blocks[b], 1, i - 1))
      i == CHOOSE i \in DOMAIN blocks[b] :
             Before(i) <= pos /\ pos < Before(i) + blocks[b][i].len
  IN  [mem |-> blocks[b][i].mem, offset |-> blocks[b][i].data + pos - Before(i)]
ByteAt(b, pos) == cell[Place(b, pos).mem][Place(b, pos).offset]

StringOf(b) ==
  FlattenSeq([i \in DOMAIN blocks[b] |->
                [j \in 1 .. blocks[b][i].len |->
                   cell[blocks[b][i].mem][blocks[b][i].data + j - 1]]])

-----------------------------------------------------------------------------
(* The operations of an IOBuf.                                             *)

Create(b) ==
  /\ b \notin alive
  /\ alive' = alive \cup {b}
  /\ UNCHANGED <<blocks, length, ref, cell, content>>

\* ~IOBuf pops every block.
Destroy(b) ==
  /\ b \in alive
  /\ alive' = alive \ {b}
  /\ ref' = Unref(blocks[b])
  /\ cell' = Freed(ref')
  /\ blocks' = [blocks EXCEPT ![b] = <<>>]
  /\ length' = [length EXCEPT ![b] = 0]
  /\ content' = [content EXCEPT ![b] = <<>>]

\* PreAllocate needs a new block when there is none or the last one is full.
Full(b) == blocks[b] # <<>> => Space(Last(blocks[b])) = 0
NewBlock(m) == [mem |-> m, data |-> 0, len |-> 0]

\* Whoever calls PreAllocate may find nothing to write: an empty block stays.
PreAllocate(b) ==
  /\ b \in alive
  /\ Full(b)
  /\ \E m \in {m \in Memories : ref[m] = 0} :
       /\ ref' = [ref EXCEPT ![m] = 1]
       /\ blocks' = [blocks EXCEPT ![b] = Append(@, NewBlock(m))]
  /\ UNCHANGED <<alive, length, cell, content>>

\* The bytes that the buffers were given, where the next n bytes of b overwrite
\* one: the tail of a block that Split has cloned is not the end of what was
\* written behind it.
AfterCopy(b, n) ==
  LET last == Last(blocks[b])
      tail == last.data + last.len
      Hit(c, k) == /\ Place(c, k - 1).mem = last.mem
                   /\ Place(c, k - 1).offset \in tail .. tail + n - 1
  IN  [c \in Bufs |-> [k \in DOMAIN content[c] |-> IF Hit(c, k) THEN Lost ELSE content[c][k]]]

\* memcpy of the first amount[i] bytes to the tail of each block, and
\* PostAllocate: the blocks grow, the bytes are in their memories.
Copy(b, ring, amount, bytes) ==
  LET tail(i) == ring[i].data + ring[i].len
      Target(i, m) == IF ring[i].mem = m THEN tail(i) .. tail(i) + amount[i] - 1 ELSE {}
  IN  /\ blocks' = [blocks EXCEPT ![b] = [i \in DOMAIN ring |-> Longer(ring[i], amount[i])]]
      /\ cell' = [m \in Memories |-> [pos \in Offsets |->
                    IF \E i \in DOMAIN ring : pos \in Target(i, m)
                    THEN bytes[pos + 1 - tail(CHOOSE i \in DOMAIN ring : pos \in Target(i, m))]
                    ELSE cell[m][pos]]]
      /\ length' = [length EXCEPT ![b] = @ + Len(bytes)]

\* The caller has copied bytes to the block with space that PreAllocate found,
\* no more than it was told there is room for.
PostAllocate(b, bytes) ==
  /\ b \in alive
  /\ ~Full(b)
  /\ Len(bytes) <= Space(Last(blocks[b]))
  /\ Copy(b, blocks[b], [i \in DOMAIN blocks[b] |-> IF i = Len(blocks[b]) THEN Len(bytes) ELSE 0],
          bytes)
  /\ content' = [AfterCopy(b, Len(bytes)) EXCEPT ![b] = @ \o bytes]
  /\ UNCHANGED <<alive, ref>>

\* The loop of Append: every round copies from the beginning of the source, and
\* as much as there is room for or the whole source has.  So it ends only when
\* the rooms of the first block and of some new ones add up to the size.
Ends(room, size) == size <= room \/ (size > Capacity /\ (size - room) % Capacity = 0)
Rounds(room, size) == IF size <= room THEN 0 ELSE (size - room) \div Capacity

\* Append of a source of any size.  When the loop does not end (remain has
\* passed zero, and the process runs out of memory) there is no state after it.
AppendData(b, bytes) ==
  LET old == blocks[b]
      room == IF Full(b) THEN Capacity ELSE Space(Last(old))
      first == IF Full(b) THEN Len(old) + 1 ELSE Len(old)
      more == Rounds(room, Len(bytes))
      free == {m \in Memories : ref[m] = 0}
  IN  /\ b \in alive
      /\ Ends(room, Len(bytes))
      /\ \E fresh \in {f \in [1 .. first + more - Len(old) -> free] : IsInjective(f)} :
           /\ ref' = [m \in Memories |-> IF m \in ToSet(fresh) THEN 1 ELSE ref[m]]
           /\ Copy(b, old \o [i \in DOMAIN fresh |-> NewBlock(fresh[i])],
                   [i \in 1 .. first + more |->
                      CASE i < first -> 0
                        [] i = first -> Min({room, Len(bytes)})
                        [] i > first -> Capacity],
                   bytes)
      /\ content' = [(IF Full(b) THEN content ELSE AfterCopy(b, Min({room, Len(bytes)}))) EXCEPT
                       ![b] = @ \o [k \in DOMAIN bytes |-> IF k <= room THEN bytes[k] ELSE Lost]]
      /\ UNCHANGED alive

\* Mutant: the bytes of the popped blocks stay in length_.
Trim_uncounted(b, taken) ==
  /\ ref' = Unref(taken.whole)
  /\ cell' = Freed(ref')
  /\ blocks' = [blocks EXCEPT ![b] = taken.rest]
  /\ length' = [length EXCEPT ![b] = @ - taken.cut]
  /\ UNCHANGED alive

\* The taken blocks are deleted.
Trim(b, taken) ==
  /\ ref' = Unref(taken.whole)
  /\ cell' = Freed(ref')
  /\ blocks' = [blocks EXCEPT ![b] = taken.rest]
  /\ length' = [length EXCEPT ![b] = @ - LengthOf(taken.whole) - taken.cut]
  /\ UNCHANGED alive

TrimStart(b, n) ==
  /\ b \in alive
  /\ Trim(b, Take(blocks[b], n))
  /\ content' = [content EXCEPT ![b] = SubSeq(@, n + 1, Len(@))]

TrimEnd(b, n) ==
  /\ b \in alive
  /\ Trim(b, TakeEnd(blocks[b], n))
  /\ content' = [content EXCEPT ![b] = SubSeq(@, 1, Len(@) - n)]

\* Mutant: Clone without Ref.
Cloned_uncounted(block) == ref

\* Clone: another window on the same memory, which it counts.
Cloned(block) == [ref EXCEPT ![block.mem] = @ + 1]

\* Split: the first n bytes become the buffer c.
Split(b, n, c) ==
  /\ b \in alive /\ c \notin alive
  /\ LET taken == Take(blocks[b], n)
         cutBlock == blocks[b][Len(taken.whole) + 1]
         piece == IF taken.cut = 0 THEN taken.whole
                  ELSE Append(taken.whole, Shorter(cutBlock, cutBlock.len - taken.cut))
     IN  /\ ref' = IF taken.cut = 0 THEN ref ELSE Cloned(cutBlock)
         /\ blocks' = [blocks EXCEPT ![b] = taken.rest, ![c] = piece]
         /\ length' = [length EXCEPT ![b] = @ - LengthOf(piece), ![c] = LengthOf(piece)]
  /\ alive' = alive \cup {c}
  /\ content' = [content EXCEPT ![b] = SubSeq(@, n + 1, Len(@)),
                                ![c] = SubSeq(content[b], 1, Min({n, Len(content[b])}))]
  /\ UNCHANGED cell

Amounts(b) == 0 .. Len(content[b]) + 1

Next ==
  \E b \in Bufs :
    \/ Create(b)
    \/ Destroy(b)
    \/ PreAllocate(b)
    \/ \E bytes \in Sources : PostAllocate(b, bytes) \/ AppendData(b, bytes)
    \/ \E n \in Amounts(b) : TrimStart(b, n)
    \/ \E n \in Amounts(b) : TrimEnd(b, n)
    \/ \E n \in Amounts(b), c \in Bufs : Split(b, n, c)

Spec == Init /\ [][Next]_vars

-----------------------------------------------------------------------------
(* Every block is a window inside its memory, after trims, splits and      *)
(* writes to the space that is left (iobuf.h:33).                          *)
TypeOK ==
  /\ alive \subseteq Bufs
  /\ \A b \in Bufs : blocks[b] \in Seq(Block) /\ content[b] \in Seq(Bytes \cup {Lost})
  /\ length \in [Bufs -> Nat]
  /\ ref \in [Memories -> Nat]
  /\ cell \in [Memories -> [Offsets -> Bytes \cup {"unwritten"}]]

(* Every buffer gives back, by ToString and by ByteAt, exactly the bytes   *)
(* that were written to it or split off into it and not taken from it:     *)
(* windows of several buffers on one memory, empty blocks and amounts that *)
(* end at a block's end or beyond all change nothing about it.  Two things *)
(* do, for the bytes in question and no others: an Append copies nothing   *)
(* of its source beyond what the first block has room for, and a write     *)
(* behind the clone of a Split overwrites the other buffer's bytes there.  *)
(* length_ counts the bytes even then.                                     *)
ContentExact ==
  \A b \in alive :
    /\ length[b] = Len(content[b]) /\ Len(StringOf(b)) = length[b]
    /\ \A k \in DOMAIN content[b] :
         /\ ByteAt(b, k - 1) = StringOf(b)[k]
         /\ content[b][k] # Lost => StringOf(b)[k] = content[b][k]

(* The count of a memory is the number of blocks that have a window on it, *)
(* in all buffers: it is freed when the last of them goes and not before,  *)
(* although Split, the trims and ~IOBuf delete them in any order.          *)
RefsExact ==
  \A m \in Memories :
    ref[m] = MapThenSumSet(LAMBDA b : OnMemory(blocks[b], m), Bufs)
=============================================================================
