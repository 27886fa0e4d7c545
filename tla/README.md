# Verification of cclab

cclab is a collection of small systems components in C and C++: a message
queue in System V shared memory, a single-threaded event loop, a hash table, an
LRU resource cache, an asynchronous HTTP server with its buffers and its parser,
a tag stripper and an XML wrapper. This directory holds TLA+ modules that model
them, TLC configurations that check the models, and TLAPS proofs.

## Inventory

| Component | State it keeps | Operations | What is hard |
|---|---|---|---|
| `shmmq/shmmq.c`, `semutil.c` | in the segment: `enq_pos`, `deq_pos`, the slots; in the kernel: the semaphore and its undo values; per process: the identifiers and the attachment | `shmmq_open`, `close`, `enqueue`, `dequeue`, `clear` | several processes, death at any instruction (SEM_UNDO), signals while waiting, 32-bit positions that wrap around, a ring with one slot unused; kernel objects that are removed and made again under their users |
| `ae/ae.c`, `ae_epoll.c`: file events | `events[]` (mask and two handlers per descriptor), `maxfd`, `fired[]`, `stop`; the kernel's epoll set | `aeCreateFileEvent`, `aeDeleteFileEvent`, `aeProcessEvents`, `aeMain`, `aeStop` | handlers change registrations, close and reopen descriptors while fired events wait; the program's masks and the kernel's set must agree |
| `ae/ae.c`: time events | the timer list, `timeEventNextId`, the scan's pointer | `aeCreateTimeEvent`, `aeDeleteTimeEvent`, `aeSearchNearestTimer`, `processTimeEvents` | callbacks change the list that is being scanned; seconds and milliseconds are computed apart; the wall clock may be set |
| `ae/main.c` | one connection per descriptor | `accept_handler`, `drive_machine`, `non_block_send` | clients that leave, break off or do not read, more of them than there are descriptors or places in the event loop |
| `ae/zmalloc.c` | `used_memory` | `zmalloc`, `zcalloc`, `zrealloc`, `zfree`, `zstrdup` | a counter with an optional lock |
| `hashtable/hashtable.c` | buckets with chains, a doubly linked list of all items, a count | `init`, `insert`, `remove`, `find`, `clear`, `destroy`, `apply`, `apply2` | three hand-written link fields; callbacks that change the table during a walk; the rotation of the list in `apply2` |
| `resource_cache/resource_cache.h` | map, LRU ring with a sentinel, insertion times | `Get`, `Set` | ring and map must agree through evictions and moves; expiry by a clock that may be set |
| `httpserver/iobuf.cc` | reference-counted blocks in rings | `PreAllocate`, `PostAllocate`, `Append`, `Pop`, `TrimStart`, `TrimEnd`, `Split` | blocks that share a buffer after `Split` |
| `httpserver/tcp_server.cc`, `http_server.cc` | sockets, read and write buffers, one parser per connection | accept, read and write completions on three threads; parser callbacks | overlapping writes into one buffer, partial reads and writes |
| `httpserver/http_parser.cc` | parser state, flags, `content_length`, `nread` | `http_parser_execute`, `http_parser_parse_url` | the state machine must not depend on how its input is cut |
| `php_strip_tags/php_strip_tags.c` | the state machine of the stripper | `php_strip_tags`, `php_strip_tags_ex` | quotes, comments and tags that nest; output written over the input; a tag buffer that grows; a state that is handed from call to call |
| `s3xml/s3_xml.cc` | a document in the arena of rapidxml (not in the repository) | accessors | lifetimes |

The components do not call each other, with these exceptions: the echo server
`ae/main.c` runs on the event loop, whose two halves share one thread and one
call (`aeProcessEvents`: sleep until the nearest timer, dispatch the fired file
events, scan the timers); and in `httpserver` the connection's read completion
feeds the parser out of an `IOBuf`, and the parser's callbacks start the write.

What makes each component correct:

* **shmmq**: the ring is a first-in first-out queue; an item that `enqueue`
  accepted is neither lost nor overwritten; whoever dies, the queue stays usable.
* **file events**: the kernel watches what the program registered; handlers run
  only for descriptors that are open and with a handler that was set; a ready
  descriptor is served.
* **time events**: a timer fires at the instant asked for, not before; the
  scan never follows a freed timer; the loop does not sleep past a timer.
* **hash table**: the list and the chains hold the same items at every moment;
  a walk visits what it promises whatever its callback removes.
* **resource cache**: the cache holds the last `capacity` keys set, and returns
  nothing that is older than its expiry time.
* **echo server**: no connection is left open and unserved, and everyone is
  served if clients read.
* **I/O buffers**: a buffer gives back the bytes it was given, whoever shares its
  memory, and the memory is freed with its last window.
* **HTTP parser**: what it hands over does not depend on how the stream is cut.
* **TCP and HTTP server**: an object outlives its operations; requests are
  answered once; the server goes on accepting and frees what is done.
* **php_strip_tags**: writes stay inside both buffers; of a well-formed text, the
  text and the allowed tags come out.

## Modules

Each component's module has its state as variables and one action per operation
or step. `MC*` modules add the symmetry sets and the inputs for TLC;
`MCTextParsers` is the instance of `HttpParser` and of `PhpStripTags`; `AeServer` and
`ShmmqLifecycle` need none. The theorems are in
`*Proofs` modules (see Proofs). Definitions called
`X_<something>` directly before a definition `X` are mutants of `X`: plausible
bugs, kept to show that the properties notice them. They occur in no
specification.

### `Shmmq`, `BoundedQueue`

`Shmmq` has the processes `Procs` that open, use and close a queue which exists.
Every access to shared memory is a step: a call goes from `"p"` (waiting in
`semaphore_p`) to `"cs"` (full or empty check), `"copy"` (the memcpy), `"adv"`
(the position update) and `"v"`. `Die` may happen at each of them; the kernel
adds the process's `semadj` to the semaphore, and a memcpy that was under way
leaves the old bytes, the new item or a mixture (`Garbage`).
`semaphore_p_fails` is a wait ended by a signal. Positions are counted modulo
`PosMod` (2^32 in the code) and start at `PosMod - 1`, which is
`(unsigned)-1`. `fifo` is a history variable: the items that were accepted
(their position was published) and not yet dequeued.

`BoundedQueue` is what the queue promises: an item is offered, put at the end of
a bounded queue, taken from its front. `ImplementsBoundedQueue` is the
refinement from `Shmmq`, with capacity `MqSize - 1`.

`shmmq_clear` calls its callback and ignores the answer; the action does the
same. Creating and destroying the kernel objects is in `ShmmqLifecycle`.

### `ShmmqLifecycle`

The life of the kernel objects behind `SEM_KEY` and `SHM_KEY`. Each system call
of `shmmq_open` and `shmmq_close` is a step: `semget`, `SETVAL`, the semop,
`shmget`, `shmat`, the initialisation, the semop back, and on an error the two
removals around it. `semval` and `semadj` are the kernel's, per semaphore; a
removed semaphore keeps its identifier, so that a process that still holds it gets
an error, and a removed segment lives while it is attached. The other calls are one
critical section (`use`, `semaphore_p`, `leave`, `semaphore_v`). Every system call
that can fail does, waits are interrupted, and a process that dies is replaced by
a new one.

The contract the code needs and does not enforce is in the guards: one process,
`Creator`, calls `shmmq_open(1)` and `shmmq_close(1)`, and it creates only when
there is no queue (`NoQueue`; after an open that failed it destroys first); nobody
uses the queue after a close or a failed open.

### `AeFileEvents`

The program between rounds and inside handlers (`InProgram`) may create and
delete events, open and close descriptors and stop the loop; `Arrive` is the
network. A round is `aeProcessEvents`, `aeApiPoll`, then for each fired
descriptor `dispatch_read`, the read handler, `dispatch_write`, the write
handler. `interest` is the kernel's epoll set: `aeApiAddEvent` chooses ADD or
MOD from the program's mask, and the kernel refuses the wrong one
(`CtlAccepted`); closing a descriptor removes it from the set. Descriptors are
numbered by the kernel, lowest first. Programs close a descriptor after deleting
its events, as `drive_machine` does: `Close` requires it.

### `AeTimeEvents`

`now` is the wall clock in milliseconds with `SecMs` of them in a second; it
passes between any two steps and may be set, forwards or backwards. Timers keep
seconds and milliseconds apart, as `aeTimeEvent` does; the history field `due`
is the instant that was asked for, `owed` the timers that were due when the scan
began and that it has still to fire. `scan_skip`, `scan_fire` and the two returns
of a timeProc are the iterations of `processTimeEvents`. A timeProc that deletes
its own timer returns `AE_NOMORE`.

### `AeServer`

`AeServer` composes `ae/main.c` with `AeFileEvents`: every step of the server is a
step of the event loop, and the handlers `accept_handler` and `drive_machine` go
through their calls one at a time while clients connect, send, close, break off
and read. `Open`, `Close`, `aeCreateFileEvent` and `aeDeleteFileEvent` are the
actions of `AeFileEvents`. `epoll_ctl` may refuse a descriptor
(`aeCreateFileEvent_refused`: `AE_ERR`, no event and no change), the listening socket's
among them; nobody looks at the result, and `refused` are the open descriptors this
happened to. Connections beyond `AE_SETSIZE` are counted in
`beyond`; `MaxOpen` is the limit of open descriptors. A send into a full buffer is
not enabled until the client reads, which is the spinning of `non_block_send`; on
a broken connection it fails or SIGPIPE ends the process (`killed`).

### `HashTable`

Items with their three link fields, the buckets, head, tail and count, each
operation as one action except the walks: `hashtable_apply` and
`hashtable_apply2` stop at every callback, which may insert and remove (not the
item the walk has already chosen as its next one). `apply2` ends with the
rotation of the list. The hash of a key is a constant function. The loops along
`h_next` and `next` are closures: `Met(link, x)` is the set of items such a loop
meets, and `hashtable_find` stops at the first item with the key.

### `ResourceCache`

The ring with its sentinel, the map and the insertion times. `Set` of a new key
evicts at capacity, `Set` of an existing one moves it to the head and `Get`
does not. The history variable `recent` lists the
keys by the time they were set.

### `HttpParser`

One operator per state of `http_parser_execute`, from a parser and a byte to a
parser; `Step` is the switch, `Consume` the body of the loop. A byte is a symbol
of its class. The words the parser knows are abbreviated to two letters, so that
a segment can end within each of them: `GET`, `CONNECT`, `POST` and `PUT` are
`ge`, `cn`, `pt` and `pu`; `Connection`, `Content-Length`, `Transfer-Encoding`
and `Upgrade` are `cn`, `ct`, `te` and `up`; `close`, `keep-alive`, `upgrade` and
`chunked` are `ce`, `ke`, `up` and `cn`; `HTTP/1.1` is one symbol.
`Proxy-Connection`, which is read like `Connection`, and the other methods are
left out. Local variables of `http_parser_execute` that matter are fields: the
four marks (as distances from the current byte), the start of the inner loops
(`run`), the byte looked ahead at. `message_complete` is HttpContext's callback,
which initialises the parser while it runs.

The state is two parsers on one stream: `cut` gets it in segments, `whole` in
one. A parser in error reads no more, so only its error is kept. The history
fields `due`, `announced`, `expect`, `size` and `called` are what the callbacks
owe the program: bytes read and not handed over, the length that was read,
without overflow, body bytes announced and not handed over, header bytes, the
last notification.

### `IoBuf`

A ring of blocks is a sequence of windows `[mem, data, len]`; `ref` is the
`SharedInfo` of a memory, `cell` its bytes. `Take` is the loop that `TrimStart`
and `Split` share (pop whole blocks, cut the last), `TakeEnd` that of `TrimEnd`,
`Split` clones the block it cuts. `content` is the reference: the bytes as a
sequence, with `Lost` for a byte that the code is known not to keep. Bytes are written
in two ways, by a caller who asks for room (`PreAllocate`, then `PostAllocate`) and by
`Append` of a source of any size (`AppendData`), to any buffer, also one whose last
block `Split` has cloned. Two of the code's ways to lose bytes are therefore in
the model. A write behind a clone overwrites what the other buffer has at that place
(`AfterCopy`). And `Append` of more than the block has room for copies `min(room, size)`
of the same source in every round, so that the bytes after the first block are again
those of the beginning, and subtracts it from an unsigned remainder: the loop ends only
if the rooms add up to the size (`Ends`). If they do not, it takes memory without end,
and the action, which has no state after it, is not enabled.

### `HttpServer`

`TcpServer`, `TcpConnection`, `HttpContext` and `HttpServer`, with the answer of
the demo's `MyHttpContext`. Threads take completions from one queue and run their
handlers step by step, without a strand; `owners` counts the shared_ptrs of a
connection in pending operations, queued completions and running handlers, and the
last one to go frees it. A client sends a prefix of a stream of requests in
segments of any size and may leave; accepts, reads and writes may fail. The parser
is the sequence of callbacks that a request causes (its bytes are `HttpParser`'s
subject): a header or trailer is its key and the lines of its value, with a
`header_value` callback for each line, and the trailers of a chunked body come after
`headers_complete`. The callbacks update url, key and headers as the code does; `done`
counts the requests parsed to their end.

### `PhpStripTags`

One action per case of the switch, for one character. Characters are symbols:
every one the code tests for, two for all others, and one for each of the words
`doctyp` and `xm`, which the code compares as a whole. `p - 1` at the start of a
buffer that is read with the state of an earlier call is any symbol. `tbuf` and
`out` are sequences, `size` what is allocated for `tbuf`. `estrndup` is `strndup`
(php_strip_tags.c:11): if the text has a NUL, `buf` ends there, and the loop, which goes
on to `len`, reads beyond the allocation; the model lets it read any symbols.

The reference is in the input: `MCTextParsers` puts texts together from pieces
(text, tags, comments, PHP, declarations), each with what should remain of it with
and without the allow list. A declaration counts as a tag without its first word, which the
code drops: `<!DOCTYPE x>` leaves `< x>` if `<x>` is allowed. Not among the pieces are
PHP strings that hold a quote of the other kind, and `<` or `>` inside a quoted
attribute of an allowed tag, of which the code makes something else (listed at the end
of this file), and texts with a NUL.

## Runs

| Run | Shows | Bounds |
|---|---|---|
| `shmmq` | one owner of the queue at a time (`LockOwned`); positions agree with the accepted items (`PositionsAgree`), which are where they belong (`FifoIntact`); no call acts on a stale check (`VerdictHolds`); calls return (`CallsReturn`); the ring implements the queue (`ImplementsBoundedQueue`) | two processes, two items, three slots, positions modulo 6: the queue fills, empties and wraps around |
| `shmmq_wrap` | *violation*: with `MqSize` not dividing the number of positions, an accepted item is overwritten at the wrap | three slots, positions modulo 4 |
| `shmmq_lifecycle` | nobody shares a segment (`Exclusive`); who opened has segment and semaphore of one queue (`OpenedWhole`); waits end (`WaitersReturn`) | a creator and two users, two semaphores and two segments, so that the queue is destroyed and made again once |
| `ae_dispatch` | `KernelAgrees`, `MaxFdExact` and `CallsAreValid` while handlers delete, close and reopen descriptors of pending events | two descriptors, all masks, two handlers (one per descriptor and kind, or the same for both) |
| `ae_server` | no connection is open and unserved, except those whose registration failed unnoticed: beyond `AE_SETSIZE`, or refused by `epoll_ctl` (`NoOrphan`); everyone else is served (`EveryoneServed`) | three places in the event loop (two for clients), four descriptors, four clients, three messages: one client is beyond `AE_SETSIZE`, one finds no descriptor, numbers are used again |
| `ae_timers` | `ListIntact`, `DueExact`, `ScanFiresAll`, `SleepBounded` | three timers, seconds of three milliseconds, two seconds; delays with and without a carry |
| `ae_sleep` | *violation*: the poll sleeps although a timer is due (`NoEventDelayed`) | one timer, two seconds |
| `hashtable` | list, chains, ends and count agree (`TableExact`); `WalkIsValid`, `ApplyVisitsAll` | five items, two of one key; three keys share a bucket |
| `resource_cache` | ring, map and recency agree (`CacheExact`); `GetIsFresh` | five keys, capacity three, expiry within the clock's range |
| `text_parsers` | of the HTTP parser `CutsDoNotMatter`, `NothingLost`, `CallbacksInOrder`, `HeaderBounded`, `AssertionsHold`; of the tag stripper `WritesFit` for every text of up to four characters, first call or later; `TextOnly` for every text of up to three of 16 pieces. A behaviour is one of the one or of the other | HTTP parser: every stream over 17 symbols, cut at one place; headers up to 13 symbols, which a request with Content-Length, with chunks and trailers, with a folded or listed value, and one of two pipelined requests fit into; 21 for `ULLONG_MAX`, so that two-digit lengths occur and overflow. Tag stripper: `PHP_TAG_BUF_SIZE` 2, so that the buffer grows several times; texts with a NUL up to three characters |
| `http_server` | `HandlersReady`, `SocketExclusive`, `AnsweredOnce`, `RequestSeen`, `ServesAndRests` | two connections and a third object for the pending accept, two threads, a stream of two requests and a malformed one, of which any part arrives; the requests have a key in common, each has a folded header, and a trailer of the first has a key of the second |
| `iobuf` | blocks inside their memory (`TypeOK`); `ContentExact`, `RefsExact` | three buffers, two memories of three bytes; sources of one, two and four bytes, so that memories fill in part and exactly and `Append` needs a second one; a memory is shared by up to three windows |

The bounds make the special
cases happen: an empty, a full and a wrapped ring, an item in the middle of a
chain, a list of one, a carry and a borrow. In `HttpParser` a field or value that
is longer than the header may be is not made longer (`Possible`), which loses
nothing: the parser refuses it when it ends. One cut
is checked; the proofs are about any number of them, and do not use that bound.

### Fairness

`Shmmq!Fairness` has weak fairness for a process that owns the semaphore (the
scheduler runs it) and strong fairness for `semaphore_p`: Linux hands a released
System V semaphore to its waiters in their order of arrival, so a waiter for
whom it becomes free again and again gets it. Nothing is assumed of processes
that are outside a call; a process may die anywhere. `ShmmqLifecycle` assumes
the same. `WaitersReturn` is about semaphores that a creator has set up: one that an
opener without a queue made has value 0, and waiting for it has no end.

`AeServer` has weak fairness of the server's steps (its thread runs) and of clients
reading their answers. The second is not the code's to guarantee: it states
what the server needs, since `non_block_send` spins until the client reads.
Clients need not connect, send or close.

`HttpServer` has weak fairness of the threads (`Run`, `Handler`) and of completions
that the network can deliver; nothing is assumed of clients.

## Proofs

TLC checks the instances of the table; the theorems below hold for every value of
the constants that satisfies the assumptions in the modules. The proofs are in
modules of their own, one for a component, or for two that are alike: `AeProofs` is
about the event loop and the server on it, `ParserProofs` about the two programs that
read a text byte by byte. The pattern is the same: an inductive invariant,
one lemma per operation that keeps it, and the properties that follow. The other
assumptions on constants only type them: sizes are positive, bounds are natural
numbers, texts are sequences of symbols, masks are not empty. Those that say more
are named below.

| Module | Theorems | Of the properties |
|---|---|---|
| `ShmmqProofs` | `TypeSafety`, `MutualExclusion`, `PositionsSafety`, `ContentsSafety`, `VerdictSafety`, `Refinement` | `TypeOK`, `LockOwned`, `PositionsAgree`, `FifoIntact`, `VerdictHolds`, `ImplementsBoundedQueue` |
| `ShmmqLifecycleProofs` | `LifeInvariance`, `ExclusiveAlways`, `OpenedWholeAlways` | `Exclusive`, `OpenedWhole` |
| `AeProofs` | `LoopInvariance`, `KernelAgreesAlways`, `MaxFdExactAlways`, `CallsAreValidAlways`; `ServerInvariance`, `NoOrphanAlways`, `ServerKeepsLoop` | `KernelAgrees`, `MaxFdExact`, `CallsAreValid`; `NoOrphan` |
| `AeTimeProofs` | `ScanInvariance`, `ListIntactAlways`, `DueExactAlways`, `ScanFiresAllAlways`, `SleepBoundedAlways` | `ListIntact`, `DueExact`, `ScanFiresAll`, `SleepBounded` |
| `ResourceCacheProofs` | `CacheInvariance`, `CacheExactAlways`, `GetIsFreshAlways` | `CacheExact`, `GetIsFresh` |
| `HashTableProofs` | `TableInvariance`, `TableExactAlways`, `WalkIsValidAlways`, `ApplyVisitsAllAlways`, `FindExactAlways` | `TableExact`, `WalkIsValid`, `ApplyVisitsAll` |
| `HttpServerProofs` | `ConnInvariance`, `HandlersReadyAlways`, `SocketExclusiveAlways`, `AnsweredOnceAlways` | `HandlersReady`, `SocketExclusive`, `AnsweredOnce` |
| `ParserProofs` | `BothInvariance`, `CutsDoNotMatterAlways`, `NothingLostAlways`, `CallbacksInOrderAlways`, `HeaderBoundedAlways`, `AssertionsHoldAlways`; `BuffersInvariance`, `WritesFitAlways` | `CutsDoNotMatter`, `NothingLost`, `CallbacksInOrder`, `HeaderBounded`, `AssertionsHold`; `WritesFit` |

In several modules `LeastNatural` (a non-empty set of naturals has a least element,
from the library's well-founded orders) takes the place of induction: a claim about
all places of a list or all numbers is shown by looking at the least
counterexample.

**The queue.** `ContentsSafety`, `VerdictSafety` and `Refinement` are under the
hypothesis `SizeDivides == PosMod % MqSize = 0`. It is needed: `shmmq_wrap` is the
counterexample without it. With the default size 1024 and 2^32 positions it holds.
The inductive invariant `IndInv` is the conjunction of the invariants with
`LocalsSet`. None of them is inductive alone: `FifoIntact` survives a copy only
because the slot written is free, which follows from the length bound of
`PositionsAgree` and from the full check being still valid (`CheckHolds`), which
holds because no other process has moved a position, which is `LockOwned`.
`PositionsAgree` survives a position update for the same reason. The arithmetic
(`Succ`, `Slot` and differences modulo `PosMod`) is in lemmas: two positions less
than `MqSize` apart have different slots, and adding one to a position adds one
to the difference. The refinement follows action by action: publishing a
position is the abstract put, the advance of `deq_pos` the abstract get, a return
or a death gives up what is offered or taken, and every other step stutters.

**Its life.** `Exclusive` says that two processes inside one segment are one. It
follows because everyone inside holds a semaphore (`SemsAgree`: one holder at most,
whose death gives it back) and the segment has one semaphore (`KeysAgree`). The
hard part is removal: a process that holds a removed semaphore does not know.
`SemsAgree` is therefore about holders of removed semaphores too, and `KeysAgree`
says that of all semaphores only that of `SEM_KEY` is not removed. `CreatorAgrees`
and `OpensAgree` carry what an open under way has seen to its end.

**File events and the server.** `LoopInv` adds to `KernelAgrees` and `MaxFdExact`
that registered kinds have a handler (`HandlersSet`), which makes calls valid although
`fired[]` is older than the registrations. That `aeDeleteFileEvent` finds the next
`maxfd` by searching downwards is `HighestIs`. `ServerKeepsLoop` shows that the
server's handlers are one of the programs the loop was proved for, so its theorems
are used, not repeated. `NoOrphan` needs that the descriptor a handler has in its
hands is the one it accepted and registers next (`HandlerState`); what `epoll_ctl` refused
is exempt, and stays exempt until it is closed. The server needs
`ProgramAssumption`: the masks and handlers it uses are among those of the loop.

**Time events.** `ScanInv` says that no timer is listed twice, that each has the
instant it was asked for, that `te` is in the list while the scan reads it, and that the
timers `owed` are due, not above `maxId` and not behind `te` (`Ahead`): new timers are put
before the head, and after a callback the scan starts over, so nothing is passed by.
`SleepBounded` comes from arithmetic on seconds and milliseconds with a borrow (`SecondsFirst` and the lemmas after it), for a second of
any length.

**Resource cache.** The functions on links are first shown to do to the ring what
taking out and prepending does to a list of entries (`UnlinkLinks`, `InsertLinks`,
`RemoveLinks`); both cases of `Set` are compositions of these. `CacheExact` is
inductive, `GetIsFresh` needs `ContentsAgree` as well. The capacity is any integer but
0 (see below).

**Hash table.** The sequences `order` and `chains` are what the links should
describe; the proof shows that each operation does to the links what it does to
the sequences. There is a lemma for each: leaving an item out (`ForwardAround`,
`BackwardAround`), adding one at an end (`ForwardLast`, `BackwardLast`,
`ForwardFirst`), turning the list (`ForwardTurned`, `BackwardTurned`). They are
about any sequence and any link field, so the list and the chains share them. A
loop along links meets the smallest set that the links do not lead out of
(`Met`), which is the sequence's range (`MetIs`, by the least counterexample): so
`hashtable_find` and `_hashitem_before` find what is there (`FindOne`, `FindNone`).
`TableExact` is not inductive alone: a chain must not have an item twice, and a
table that was destroyed must be empty, or `hashtable_init` would not be right.
`ApplyVisitsAll` needs `WalkOrder`: the items not visited yet lie from the cursor
on, while the callback runs from the item read in advance on; and `WalkIsValid`
needs that the callback does not remove that item, which is in the guard of
`hashtable_remove`.

**TCP and HTTP server.** `Owned` counts: the shared_ptrs of a connection are its
pending operations, its queued completions and its running handlers, the latter
two as cardinalities. `Chain` and `Token` count handlers at certain steps: of a
connection one of accept, HandleAccept and read is pending or under way at a time, and
there is one accept in all. That a handler is alone at its step then is
arithmetic, in any number of threads. `AllSound` is what a handler, queued or running,
may rely on, and `Answered` relates writes, answers and requests that were parsed.
`HandlersReady` follows from `Owned`, `AnsweredOnce` from `Answered` and `Owned`.
`SocketExclusive` is proved by cases: two threads at one socket are not both at a
step of the chain; if one is in OnWrite a request was parsed already, and the other
either is in OnWrite for a second one or is about to write the answer to a second one.

**HTTP parser.** None of the five properties is inductive: that a mark is where it
should be depends on the state, that a body ends when it should on
`content_length`, that on the flags and the digits read, that the header fits on
`nread`. `ParserInv` has all of it for one parser between two bytes, in parts:
`MarksInv` (an element other than the body is marked exactly in its states),
`LengthInv` (`content_length` is the number that was read and has not
overflowed), `BodyInv` (what is announced and not handed over is still to be read, or
marked), `OrderInv` (the last callback in each state), `SizeInv` (`nread`, with the
bytes of an inner loop, is at least the size of the header) and `LocalsInv` (when the
inner loops run, and the look ahead). A byte breaks these parts for a moment: it is
part of an element before it is handed over, and `nread` counts it before the
state says so. So a byte goes through three phases, `Reading` after it was counted,
`Settled` with `k = 1` after its case of the switch, and `ParserInv`, which is
`Settled` with `k = 0`, after `p++`; and each state of the switch has a lemma that
leads from the first to the second or to an error (`X_steps`), resting on one that
says which fields the case changes (`X_is`).

`CutsDoNotMatter` is about two parsers, and their fields are not equal: the one that is
cut counts the bytes of an inner loop at the end of each segment, looks at bytes of a
value that the other one skips (`CountsMore`), and may have taken a `P` for `POST` where the
other has seen the `U`. `Related` is what remains, and `X_matches` shows for each
state that the same byte leaves both related, both in error, or the one that was cut in
error, for one of the reasons that the property allows. `BothInv`, both
parsers' `ParserInv` with `Related`, is inductive, for any number of cuts;
the five properties follow from it. `ULLONG_MAX` is any number from 16 on: the
value of every hexadecimal digit must fit.

**php_strip_tags.** What a character does to the buffers is one of five things
(`ReadWrites`, over all cases of the switch); `BuffersInv` says that with an allow list
`tbuf` has more than `PHP_TAG_BUF_SIZE` bytes, so that growing it by as much leaves room
for the next character and a NUL (`RoomSuffices`).

Only model-checked:

* the liveness properties `CallsReturn`, `WaitersReturn`, `EveryoneServed` and
  `ServesAndRests`: fairness is outside the reach of TLAPS here;
* `TextOnly`, `RequestSeen`, and `TypeOK`, `ContentExact` and `RefsExact` of `IoBuf`:
  they are about folds, over the pieces of a text, the headers of a request or the
  blocks of a ring, and so need induction over data.

## Where code and comments disagree

* `shmmq.c:212`: any `mqsize` is accepted, but only one that divides 2^32 survives
  the wrap-around of the positions. This is the run `shmmq_wrap`.
* `shmmq.c:287`: `shmmq_clear` ("clear the overdue items from the queue")
  computes the critical index and drops it.
* `ae.c:310`: the cut-off of a negative timeout leaves the milliseconds, so
  the poll sleeps up to a second past an overdue timer; ae.c:187 says the
  sleep delays no event. This is the run `ae_sleep`; `SleepBounded` states what does hold.
* `ae.c:250`: a timeProc that returns 0 is due again at once, under an identifier that
  is not above `maxId`, and the scan starts over: ae.c:238 says that it does not loop
  forever. The comment is true of timers that callbacks create. `ScanFiresAll` says what
  a scan that ends has done, and that it ends is not claimed.
* `ae.c:250`: `te` is written after a callback that may have freed it. The guard of
  `timeProc_again` leaves that case out, so no property says anything of it.
* `http_server.cc:88`: `message_complete_cb` initialises the parser that calls it,
  and so undoes the refusal of further messages after `Connection: close`
  (http_parser.cc:722).

What else the models had to exclude, or show only in a weaker form:

* `shmmq_open(0)` without a queue makes the semaphore, with value 0, and waits. A
  second creator, a creator that starts anew while users are inside, or one that
  retries an open that was interrupted, sets the semaphore to 1 under whoever
  owns it. A creator killed between the stores of `enq_pos` and `deq_pos` leaves
  a queue that looks used (the two stores are one step in `initial_head`).
* `shmmq.c:34`: a comma is missing in `errlist`, so the texts are off by one and
  the last index is outside.
* `ae/main.c:40`: `set_closexec` uses `F_GETFL` and `F_SETFL`, which do not set the
  flag. `ae/main.c:86`: nothing handles SIGPIPE. `ae/main.c:156`: the result of
  `aeCreateFileEvent` is ignored, so a connection that was not registered stays open
  for good.
* `hashtable.c:248`: a callback must not remove the item the walk has chosen as its
  next. `resource_cache.h:105`: with capacity 0 the sentinel is deleted.
* `iobuf.cc:149`: `Append` beyond the space of the last block copies the beginning of the
  source again, or does not end; `iobuf.cc:82`: writing to the piece of a `Split`
  overwrites bytes of the rest. `ContentExact` is about all other bytes (see `IoBuf`).
* `resource_cache.h:83`: when the clock is set back an old item is young again.
  `GetIsFresh` judges age by the same clock, so it permits that.
* `http_server.cc:133`: no second read is started, so a request in two segments
  is never answered; the connection is freed (`ServesAndRests`).
* `http_server.cc:29`: the headers of earlier requests stay, and win
  (`RequestSeen` says exactly which); the folded lines of a value go under the empty
  key, since the first one cleared it, and a trailer counts as a header of the next
  request. `http_server.cc:36`: a url in two pieces would
  be replaced by its second piece; it needs a second read, which does not happen.
* `tcp_server.cc:20`: with pipelined requests the answer is copied into the buffer of
  a write under way (it is the same text), and the socket may be used by two
  threads (`SocketExclusive` says when not). A write that is transmitted in part is
  not continued.
* `php_strip_tags.c:234`: in PHP, a quote inside quotes of the other kind leaves `lc`
  set, and `?>` no longer ends the PHP part. `:116` and `:175`: `<` and `>` inside
  a quoted attribute are dropped from an allowed tag. `:304`: after `<!DOCTYPE x>`
  the collected tag is `< x>`, which is kept if `<x>` is allowed. `:89`: between
  calls only `state` is handed over, and `p - 1` is read before the buffer. `:92`: a text
  with a NUL is copied up to it and read beyond it.

## Not modelled

The hash function (`hash.c`) and the slab stub (`slabs.c`) have no state. `aeWait`
is one `select` call. `zmalloc.c` is malloc with a counter, whose one question of
order, an update without the mutex, does not arise in the single-threaded
loop. The demos and tests are programs that use the components.
`s3xml` forwards to a library that is not here. Of the parser, the states for
responses, pausing, the end of the input and `http_parser_parse_url` are left
out: nothing in `httpserver` uses them. So is the return of `HttpContext::Parse` when
its buffer has less room than was read (http_server.cc:113): with one read for a
connection it does not happen. `AssertionsHold` has the assertions on the parser's
fields, not those that a `default` of a `switch` is not reached. Of `HttpContext`, the
splitting of the url into `path_` and `query_params_` is left out: strings that nothing reads. `MyTcpServer`
in `httpserver/main.cc` is not started.

## Plan

Done, in this order, because the queue is the one component with several
processes and with recovery, and the event loop the one with callbacks that
change what is being walked: `Shmmq` with its proofs, `AeFileEvents`,
`AeTimeEvents`, `HashTable`, `ResourceCache`, `HttpParser`; then `IoBuf`,
`HttpServer`, `ShmmqLifecycle`, `AeServer` (the server composed with the event loop)
and `PhpStripTags`; then the proofs about the queue's life, the event loop, the
timers, the echo server, the resource cache, the HTTP server, the buffers of the tag
stripper, the hash table and the HTTP parser.
