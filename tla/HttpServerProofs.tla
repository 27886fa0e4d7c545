-------------------------- MODULE HttpServerProofs --------------------------
(***************************************************************************)
(* Life and death of the connections of the HTTP server, for any number of *)
(* threads, of connections and of requests.  The references to a           *)
(* connection are counted: what is pending, what is queued and what runs   *)
(* on a thread add up to its shared_ptrs.  Counting handlers at certain    *)
(* steps also shows that accepting and reading go on one after the other,  *)
(* and that there are no more writes than requests.                        *)
(***************************************************************************)
EXTENDS HttpServer, SequenceTheorems, FiniteSetTheorems, TLAPS

-----------------------------------------------------------------------------
(* Least elements.                                                         *)

\* Every non-empty set of naturals has a least element: < is well founded on
\* the naturals.  (With the set of the numbers that lack a property, this is
\* induction.)
LEMMA LeastNatural ==
  ASSUME NEW S, S \subseteq Nat, S # {}
  PROVE  \E x \in S : \A y \in S : x <= y
<1>1. \A x, y \in Nat : y < x => <<y, x>> \in OpToRel(<, Nat)
  BY DEF OpToRel
<1>2. PICK x \in S : \A y \in S : ~(<<y, x>> \in OpToRel(<, Nat))
  BY NatLessThanWellFounded, WFMin
<1>3. \A y \in S : ~(y < x)
  BY <1>1, <1>2, Zenon
<1> QED BY <1>3

\* Min is the least element of a non-empty set of naturals.
LEMMA MinIsLeast ==
  ASSUME NEW S, S \subseteq Nat, S # {}
  PROVE  Min(S) \in S /\ \A y \in S : Min(S) <= y
  BY LeastNatural DEF Min

Ops == {"accept", "read", "write"}
Steps == {"start", "wire", "open", "return"}
Handlers == [op : Ops, conn : Conns, ec : BOOLEAN, at : Steps, size : Nat, next : Nat]

Shape ==
  /\ accepting \in Conns \cup {None}
  /\ queue \in Seq(Handlers)
  /\ thread \in [ThreadIds -> Handlers \cup {Idle}]
  /\ obj \in [Conns -> {"none", "live", "freed"}]
  /\ owners \in [Conns -> Nat]
  /\ wired \in [Conns -> BOOLEAN]
  /\ sock \in [Conns -> {"open", "closed"}]
  /\ reading \in [Conns -> BOOLEAN]
  /\ writing \in [Conns -> Nat]
  /\ stream \in [Conns -> Streams \cup {NoStream}]
  /\ arrived \in [Conns -> Nat]
  /\ taken \in [Conns -> Nat]
  /\ gone \in [Conns -> BOOLEAN]
  /\ done \in [Conns -> Nat]
  /\ answers \in [Conns -> Nat]

-----------------------------------------------------------------------------
(* Counting handlers.                                                      *)

\* A handler of connection c that is at one of the steps K.
Is(h, c, K) == h # Idle /\ h.conn = c /\ <<h.op, h.at>> \in K

Queued(c, K) == {i \in DOMAIN queue : Is(queue[i], c, K)}
Running(c, K) == {t \in ThreadIds : Is(thread[t], c, K)}
Count(c, K) == Cardinality(Queued(c, K)) + Cardinality(Running(c, K))
One(b) == IF b THEN 1 ELSE 0

\* A finite set with an element, or with two, has as many.
LEMMA AtLeast ==
  ASSUME NEW S, IsFiniteSet(S)
  PROVE  /\ Cardinality(S) \in Nat
         /\ \A x \in S : Cardinality(S) >= 1
         /\ \A x, y \in S : x # y => Cardinality(S) >= 2
<1>1. Cardinality(S) \in Nat
  BY FS_CardinalityType
<1>2. ASSUME NEW x \in S
      PROVE  Cardinality(S) >= 1
  BY <1>1, FS_EmptySet
<1>3. ASSUME NEW x \in S, NEW y \in S, x # y
      PROVE  Cardinality(S) >= 2
  <2>1. IsFiniteSet(S \ {x}) /\ Cardinality(S \ {x}) = Cardinality(S) - 1
    BY FS_RemoveElement
  <2>2. Cardinality(S \ {x}) \in Nat
    BY <2>1, FS_CardinalityType
  <2>3. Cardinality(S \ {x}) # 0
    BY <1>3, <2>1, FS_EmptySet
  <2> QED BY <1>1, <2>1, <2>2, <2>3
<1> QED BY <1>1, <1>2, <1>3

\* What is counted is finite.
LEMMA Countable ==
  ASSUME Shape, NEW c, NEW K
  PROVE  /\ IsFiniteSet(Queued(c, K)) /\ IsFiniteSet(Running(c, K))
         /\ Cardinality(Queued(c, K)) \in Nat /\ Cardinality(Running(c, K)) \in Nat
         /\ Count(c, K) \in Nat
<1>1. Len(queue) \in Nat /\ DOMAIN queue = 1 .. Len(queue)
  BY DEF Shape
<1>2. IsFiniteSet(1 .. Len(queue)) /\ IsFiniteSet(1 .. Threads)
  BY <1>1, FS_Interval, ThreadsAssumption
<1>3. Queued(c, K) \in SUBSET (1 .. Len(queue)) /\ Running(c, K) \in SUBSET (1 .. Threads)
  BY <1>1 DEF Queued, Running, ThreadIds
<1>4. IsFiniteSet(Queued(c, K)) /\ IsFiniteSet(Running(c, K))
  BY <1>2, <1>3, FS_Subset
<1>5. Cardinality(Queued(c, K)) \in Nat /\ Cardinality(Running(c, K)) \in Nat
  BY <1>4, FS_CardinalityType
<1> QED BY <1>4, <1>5 DEF Count

\* Whatever is queued or runs is counted.
LEMMA Counted ==
  ASSUME Shape, NEW c, NEW K
  PROVE  /\ \A i \in DOMAIN queue : Is(queue[i], c, K) => Count(c, K) >= 1
         /\ \A t \in ThreadIds : Is(thread[t], c, K) => Count(c, K) >= 1
         /\ \A i \in DOMAIN queue, t \in ThreadIds :
              Is(queue[i], c, K) /\ Is(thread[t], c, K) => Count(c, K) >= 2
         /\ \A t, u \in ThreadIds :
              t # u /\ Is(thread[t], c, K) /\ Is(thread[u], c, K) => Count(c, K) >= 2
<1> DEFINE q == Cardinality(Queued(c, K))
           r == Cardinality(Running(c, K))
<1>1. q \in Nat /\ r \in Nat /\ Count(c, K) = q + r
  BY Countable DEF Count
<1>2. \A i \in Queued(c, K) : q >= 1
  BY Countable, AtLeast
<1>3. \A t \in Running(c, K) : r >= 1
  BY Countable, AtLeast
<1>4. \A t, u \in Running(c, K) : t # u => r >= 2
  BY Countable, AtLeast
<1>5. \A i \in DOMAIN queue : Is(queue[i], c, K) => i \in Queued(c, K)
  BY DEF Queued
<1>6. \A t \in ThreadIds : Is(thread[t], c, K) => t \in Running(c, K)
  BY DEF Running
<1> HIDE DEF q, r
<1>7. \A i \in DOMAIN queue : Is(queue[i], c, K) => q + r >= 1
  BY <1>1, <1>2, <1>5
<1>8. \A t \in ThreadIds : Is(thread[t], c, K) => q + r >= 1
  BY <1>1, <1>3, <1>6
<1>9. \A i \in DOMAIN queue, t \in ThreadIds :
        Is(queue[i], c, K) /\ Is(thread[t], c, K) => q + r >= 2
  BY <1>1, <1>2, <1>3, <1>5, <1>6
<1>10. \A t, u \in ThreadIds :
         t # u /\ Is(thread[t], c, K) /\ Is(thread[u], c, K) => q + r >= 2
  BY <1>1, <1>4, <1>6
<1> QED BY <1>1, <1>7, <1>8, <1>9, <1>10

\* A completion that is queued counts one more.
LEMMA QueueGrows ==
  ASSUME Shape, NEW h \in Handlers, queue' = Append(queue, h), NEW c, NEW K
  PROVE  Cardinality(Queued(c, K))' = Cardinality(Queued(c, K)) + One(Is(h, c, K))
<1>1. /\ Len(queue) \in Nat /\ DOMAIN queue = 1 .. Len(queue)
      /\ DOMAIN queue' = 1 .. Len(queue) + 1
      /\ \A i \in 1 .. Len(queue) : queue'[i] = queue[i]
      /\ queue'[Len(queue) + 1] = h
  <2>1. queue \in Seq(Handlers)
    BY DEF Shape
  <2> QED BY <2>1, AppendProperties
<1> DEFINE n == Len(queue)
           S == Queued(c, K)
           T == {i \in DOMAIN queue' : Is(queue'[i], c, K)}
<1>2. T = Queued(c, K)'
  BY DEF Queued
<1>3. IsFiniteSet(S) /\ Cardinality(S) \in Nat
  BY Countable
<1>4. \A i \in 1 .. n + 1 : i \in 1 .. n \/ i = n + 1
  BY <1>1
<1>5. n + 1 \notin S
  BY <1>1 DEF Queued
<1>6. CASE Is(h, c, K)
  <2>1. T = S \cup {n + 1}
    <3>1. ASSUME NEW i \in T
          PROVE  i \in S \cup {n + 1}
      <4>1. i \in 1 .. n + 1 /\ Is(queue'[i], c, K)
        BY <1>1
      <4>2. CASE i \in 1 .. n
        BY <1>1, <4>1, <4>2 DEF Queued
      <4> QED BY <1>4, <4>1, <4>2
    <3>2. ASSUME NEW i \in S
          PROVE  i \in T
      BY <1>1 DEF Queued
    <3>3. n + 1 \in T
      BY <1>1, <1>6
    <3> QED BY <3>1, <3>2, <3>3
  <2>2. Cardinality(T) = Cardinality(S) + 1
    BY <1>3, <1>5, <2>1, FS_AddElement
  <2> QED BY <1>2, <1>6, <2>2 DEF One
<1>7. CASE ~Is(h, c, K)
  <2>1. T = S
    <3>1. ASSUME NEW i \in T
          PROVE  i \in S
      BY <1>1, <1>4, <1>7 DEF Queued
    <3>2. ASSUME NEW i \in S
          PROVE  i \in T
      BY <1>1 DEF Queued
    <3> QED BY <3>1, <3>2
  <2>2. One(Is(h, c, K)) = 0
    BY <1>7 DEF One
  <2> HIDE DEF S, T
  <2>3. Cardinality(T) = Cardinality(S) + 0
    BY <1>3, <2>1
  <2> QED BY <1>2, <2>2, <2>3 DEF S
<1> QED BY <1>6, <1>7

\* A completion that is taken counts one less.
LEMMA QueueShrinks ==
  ASSUME Shape, queue # <<>>, queue' = Tail(queue), NEW c, NEW K
  PROVE  Cardinality(Queued(c, K))' = Cardinality(Queued(c, K)) - One(Is(Head(queue), c, K))
<1> DEFINE n == Len(queue)
           S == Queued(c, K)
           T == {i \in DOMAIN queue' : Is(queue'[i], c, K)}
<1>1. /\ n \in Nat \ {0} /\ DOMAIN queue = 1 .. n
      /\ DOMAIN queue' = 1 .. n - 1
      /\ \A i \in 1 .. n - 1 : queue'[i] = queue[i + 1]
      /\ Head(queue) = queue[1]
  <2>1. queue \in Seq(Handlers)
    BY DEF Shape
  <2> QED BY <2>1, HeadTailProperties, EmptySeq
<1>2. T = Queued(c, K)'
  BY DEF Queued
<1>3. IsFiniteSet(S) /\ Cardinality(S) \in Nat
  BY Countable
<1>4. IsFiniteSet(S \ {1}) /\ Cardinality(S \ {1}) = IF 1 \in S THEN Cardinality(S) - 1 ELSE Cardinality(S)
  BY <1>3, FS_RemoveElement
<1>5. 1 \in S <=> Is(Head(queue), c, K)
  BY <1>1 DEF Queued
<1> DEFINE f == [i \in S \ {1} |-> i - 1]
<1>6. f \in Bijection(S \ {1}, T)
  <2>1. ASSUME NEW i \in S \ {1}
        PROVE  i - 1 \in T /\ i \in Int
    <3>1. i \in 1 .. n /\ i - 1 \in 1 .. n - 1 /\ (i - 1) + 1 = i /\ Is(queue[i], c, K)
      BY <1>1 DEF Queued
    <3> QED BY <1>1, <3>1
  <2>2. f \in [S \ {1} -> T]
    BY <2>1
  <2>3. \A i, j \in S \ {1} : f[i] = f[j] => i = j
    BY <2>1
  <2>4. ASSUME NEW k \in T
        PROVE  \E i \in S \ {1} : f[i] = k
    <3>1. k \in 1 .. n - 1 /\ k + 1 \in 1 .. n /\ k + 1 # 1 /\ (k + 1) - 1 = k /\ Is(queue[k + 1], c, K)
      BY <1>1
    <3>2. k + 1 \in S \ {1}
      BY <1>1, <3>1 DEF Queued
    <3> QED BY <3>1, <3>2
  <2> HIDE DEF f
  <2> QED BY <2>2, <2>3, <2>4 DEF Bijection, Injection, Surjection, IsInjective
<1> HIDE DEF f, S, T
<1>7. Cardinality(T) = Cardinality(S \ {1})
  BY <1>4, <1>6, FS_Bijection DEF ExistsBijection
<1>8. Cardinality(T) = Cardinality(S) - One(Is(Head(queue), c, K))
  BY <1>3, <1>4, <1>5, <1>7 DEF One
<1> QED BY <1>2, <1>8 DEF S

\* A thread that goes on to another handler, or another step, is counted by it.
LEMMA ThreadChanges ==
  ASSUME Shape, NEW t \in ThreadIds, NEW h, thread' = [thread EXCEPT ![t] = h], NEW c, NEW K
  PROVE  Cardinality(Running(c, K))' =
           Cardinality(Running(c, K)) - One(Is(thread[t], c, K)) + One(Is(h, c, K))
<1> DEFINE S == Running(c, K)
           T == {u \in ThreadIds : Is(thread'[u], c, K)}
<1>1. T = Running(c, K)'
  BY DEF Running
<1>2. thread'[t] = h /\ \A u \in ThreadIds \ {t} : thread'[u] = thread[u]
  BY DEF Shape
<1>3. IsFiniteSet(S) /\ Cardinality(S) \in Nat
  BY Countable
<1>4. /\ IsFiniteSet(S \ {t})
      /\ Cardinality(S \ {t}) = IF t \in S THEN Cardinality(S) - 1 ELSE Cardinality(S)
  BY <1>3, FS_RemoveElement
<1>5. t \in S <=> Is(thread[t], c, K)
  BY DEF Running
<1>6. Cardinality(S \ {t}) = Cardinality(S) - One(Is(thread[t], c, K))
  BY <1>3, <1>4, <1>5 DEF One
<1>7. T = IF Is(h, c, K) THEN (S \ {t}) \cup {t} ELSE S \ {t}
  BY <1>2 DEF Running
<1>8. /\ IsFiniteSet((S \ {t}) \cup {t})
      /\ Cardinality((S \ {t}) \cup {t}) = Cardinality(S \ {t}) + 1
  BY <1>4, FS_AddElement
<1>9. Cardinality(S \ {t}) \in Nat
  BY <1>4, FS_CardinalityType
<1> HIDE DEF S, T
<1>10. Cardinality(T) = Cardinality(S \ {t}) + One(Is(h, c, K))
  BY <1>7, <1>8, <1>9 DEF One
<1> QED BY <1>1, <1>3, <1>6, <1>9, <1>10 DEF S, One

-----------------------------------------------------------------------------
(* The same for the three kinds of steps.                                  *)

\* A completion is queued.
LEMMA CountQueued ==
  ASSUME Shape, NEW h \in Handlers, queue' = Append(queue, h), thread' = thread, NEW c, NEW K
  PROVE  Count(c, K)' = Count(c, K) + One(Is(h, c, K))
<1>1. Cardinality(Queued(c, K))' = Cardinality(Queued(c, K)) + One(Is(h, c, K))
  BY QueueGrows
<1>2. Cardinality(Running(c, K))' = Cardinality(Running(c, K))
  BY DEF Running
<1>3. Cardinality(Queued(c, K)) \in Nat /\ Cardinality(Running(c, K)) \in Nat
  BY Countable
<1> QED BY <1>1, <1>2, <1>3 DEF Count, One

\* A thread takes a completion.
LEMMA CountTaken ==
  ASSUME Shape, NEW t \in ThreadIds, Run(t), NEW c, NEW K
  PROVE  Count(c, K)' = Count(c, K)
<1>1. /\ queue # <<>> /\ queue' = Tail(queue)
      /\ thread[t] = Idle /\ thread' = [thread EXCEPT ![t] = Head(queue)]
  BY DEF Run
<1>2. Cardinality(Queued(c, K))' = Cardinality(Queued(c, K)) - One(Is(Head(queue), c, K))
  BY <1>1, QueueShrinks
<1>3. Cardinality(Running(c, K))' =
        Cardinality(Running(c, K)) - One(Is(thread[t], c, K)) + One(Is(Head(queue), c, K))
  BY <1>1, ThreadChanges
<1>4. One(Is(thread[t], c, K)) = 0
  BY <1>1 DEF One, Is
<1>5. Cardinality(Queued(c, K)) \in Nat /\ Cardinality(Running(c, K)) \in Nat
  BY Countable
<1> QED BY <1>2, <1>3, <1>4, <1>5 DEF Count, One

\* A thread takes a step of its handler.
LEMMA CountStep ==
  ASSUME Shape, NEW t \in ThreadIds, NEW h, thread' = [thread EXCEPT ![t] = h], queue' = queue,
         NEW c, NEW K
  PROVE  Count(c, K)' = Count(c, K) - One(Is(thread[t], c, K)) + One(Is(h, c, K))
<1>1. Cardinality(Queued(c, K))' = Cardinality(Queued(c, K))
  BY DEF Queued
<1>2. Cardinality(Running(c, K))' =
        Cardinality(Running(c, K)) - One(Is(thread[t], c, K)) + One(Is(h, c, K))
  BY ThreadChanges
<1>3. Cardinality(Queued(c, K)) \in Nat /\ Cardinality(Running(c, K)) \in Nat
  BY Countable
<1> QED BY <1>1, <1>2, <1>3 DEF Count, One

-----------------------------------------------------------------------------
(* The invariant.                                                          *)

Anything == Ops \X Steps
Accepted == {<<"accept", "start">>}
Opening == {<<"accept", "start">>, <<"accept", "wire">>, <<"accept", "open">>}
Chained == Opening \cup {<<"read", "start">>}
Writes == {<<"write", "start">>}

\* A connection has as many shared_ptrs as there are operations and handlers
\* that are bound to it, and is destroyed with the last one.
Owned ==
  \A c \in Conns :
    /\ owners[c] = One(accepting = c) + One(reading[c]) + writing[c] + Count(c, Anything)
    /\ obj[c] = "live" <=> owners[c] > 0

\* Of a connection, one thing is pending, queued or under way at a time: its
\* accept, the rest of HandleAccept, or its read.
Chain == \A c \in Conns : One(accepting = c) + One(reading[c]) + Count(c, Chained) <= 1

\* There is one accept, for the connection that was made last; the others are
\* unused.
Token ==
  \E m \in Conns :
    /\ accepting \in {m, None}
    /\ One(accepting = m) + Count(m, Accepted) <= 1
    /\ \A c \in Conns : /\ c # m => Count(c, Accepted) = 0
                        /\ c > m => owners[c] = 0 /\ done[c] = 0

\* The ends of requests within the first n parts of a stream.
Ends(s, n) == {i \in 1 .. n : Text[s][i].part = "end"}

\* What a handler, queued or running, may rely on: callbacks that are set, a
\* client that is behind every error, and requests that have arrived.
SoundIn(h, w, d, s, a, k, g) ==
  /\ h.op = "accept" => h.conn <= MaxAccepts
  /\ h.op # "accept" \/ h.at = "open" => w[h.conn]
  /\ h.op = "accept" /\ h.at # "return" => d[h.conn] = 0
  /\ h.op = "read" /\ h.at = "start" /\ h.ec => d[h.conn] = 0
  /\ h.op = "read" /\ h.at = "start" /\ ~h.ec =>
       /\ h.next > 0 /\ h.next <= h.size + 1 /\ h.size <= a[h.conn]
       /\ d[h.conn] <= Cardinality(Ends(s[h.conn], h.next - 1))
       /\ k[h.conn] = "open" \/ g[h.conn]
  /\ h.op # "accept" /\ h.at = "start" /\ h.ec => g[h.conn] \/ k[h.conn] = "closed"

Sound(h) == SoundIn(h, wired, done, stream, arrived, sock, gone)

AllSound ==
  /\ \A i \in DOMAIN queue : queue[i].at = "start" /\ Sound(queue[i])
  /\ \A t \in ThreadIds : thread[t] # Idle => Sound(thread[t])

\* What is pending has yet to cause a response.
Pending ==
  \A c \in Conns :
    /\ accepting = c \/ reading[c] => done[c] = 0
    /\ reading[c] \/ writing[c] > 0 => wired[c]

\* Writes are for requests that are done, and none fails or is left out while
\* the client is there.
Answered ==
  \A c \in Conns :
    /\ answers[c] + writing[c] <= done[c]
    /\ Count(c, Writes) + writing[c] <= done[c]
    /\ ~gone[c] => answers[c] + writing[c] = done[c]
    /\ ~gone[c] /\ sock[c] = "closed" => writing[c] = 0
    /\ done[c] <= Cardinality(Ends(stream[c], arrived[c]))

ConnInv == Shape /\ Owned /\ Chain /\ Token /\ AllSound /\ Pending /\ Answered

\* What Is says for the steps that are counted.
LEMMA IsAre ==
  ASSUME NEW h \in Handlers, NEW c
  PROVE  /\ h # Idle
         /\ Is(h, c, Anything) <=> h.conn = c
         /\ Is(h, c, Accepted) <=> h.conn = c /\ h.op = "accept" /\ h.at = "start"
         /\ Is(h, c, Chained) <=> /\ h.conn = c
                                  /\ \/ h.op = "accept" /\ h.at # "return"
                                     \/ h.op = "read" /\ h.at = "start"
         /\ Is(h, c, Writes) <=> h.conn = c /\ h.op = "write" /\ h.at = "start"
<1>1. h.op \in Ops /\ h.at \in Steps
  BY DEF Handlers
<1>2. h # Idle
  BY <1>1 DEF Idle, Ops
<1> QED BY <1>1, <1>2 DEF Is, Anything, Accepted, Chained, Opening, Writes, Ops, Steps

\* An idle thread is not counted.
LEMMA IdleIsNone ==
  ASSUME NEW c, NEW K
  PROVE  ~Is(Idle, c, K)
  BY DEF Is

\* Ends are finitely many, and no fewer in more of the stream.
LEMMA EndsGrow ==
  ASSUME NEW s, NEW m \in Nat, NEW n \in Nat, m <= n
  PROVE  /\ IsFiniteSet(Ends(s, n))
         /\ Cardinality(Ends(s, m)) \in Nat /\ Cardinality(Ends(s, n)) \in Nat
         /\ Cardinality(Ends(s, m)) <= Cardinality(Ends(s, n))
         /\ \A i \in m + 1 .. n :
              i \in Ends(s, n) => Cardinality(Ends(s, m)) + 1 <= Cardinality(Ends(s, n))
<1>1. IsFiniteSet(1 .. n) /\ IsFiniteSet(1 .. m)
  BY FS_Interval
<1>2. Ends(s, n) \in SUBSET (1 .. n) /\ Ends(s, m) \in SUBSET (1 .. m)
  BY DEF Ends
<1>3. IsFiniteSet(Ends(s, n)) /\ IsFiniteSet(Ends(s, m))
  BY <1>1, <1>2, FS_Subset
<1>4. Ends(s, m) \in SUBSET Ends(s, n)
  BY DEF Ends
<1>5. /\ Cardinality(Ends(s, m)) \in Nat /\ Cardinality(Ends(s, n)) \in Nat
      /\ Cardinality(Ends(s, m)) <= Cardinality(Ends(s, n))
  BY <1>3, <1>4, FS_CardinalityType, FS_Subset
<1>6. ASSUME NEW i \in m + 1 .. n, i \in Ends(s, n)
      PROVE  Cardinality(Ends(s, m)) + 1 <= Cardinality(Ends(s, n))
  <2>1. i \notin Ends(s, m)
    BY DEF Ends
  <2>2. Ends(s, m) \cup {i} \in SUBSET Ends(s, n)
    BY <1>4, <1>6
  <2>3. Cardinality(Ends(s, m) \cup {i}) = Cardinality(Ends(s, m)) + 1
    BY <1>3, <2>1, FS_AddElement
  <2>4. Cardinality(Ends(s, m) \cup {i}) <= Cardinality(Ends(s, n))
    BY <1>3, <2>2, FS_Subset
  <2> QED BY <2>3, <2>4
<1> QED BY <1>3, <1>5, <1>6

\* A handler stays sound when nothing it relies on is taken back.
LEMMA SoundKept ==
  ASSUME NEW h \in Handlers,
         NEW w, NEW d, NEW s, NEW a \in [Conns -> Nat], NEW k, NEW g,
         NEW w2, NEW s2, NEW d2, NEW a2 \in [Conns -> Nat], NEW k2, NEW g2,
         SoundIn(h, w, d, s, a, k, g),
         w[h.conn] => w2[h.conn], d2[h.conn] = d[h.conn], s2[h.conn] = s[h.conn],
         a2[h.conn] >= a[h.conn], k2[h.conn] = k[h.conn], g[h.conn] => g2[h.conn]
  PROVE  SoundIn(h, w2, d2, s2, a2, k2, g2)
<1>1. h.conn \in Conns /\ h.size \in Nat /\ h.next \in Nat
  BY DEF Handlers
<1>2. a[h.conn] \in Nat /\ a2[h.conn] \in Nat
  BY <1>1
<1>3. h.size <= a[h.conn] => h.size <= a2[h.conn]
  BY <1>1, <1>2
<1> QED BY <1>3 DEF SoundIn

\* The handler a thread runs, and its connection, which is live.
LEMMA RunningIs ==
  ASSUME ConnInv, NEW t \in ThreadIds, thread[t] # Idle
  PROVE  /\ thread[t] \in Handlers
         /\ thread[t].conn \in Conns
         /\ Sound(thread[t])
         /\ Count(thread[t].conn, Anything) >= 1
         /\ owners[thread[t].conn] >= 1
         /\ obj[thread[t].conn] = "live"
<1>1. thread[t] \in Handlers
  BY DEF ConnInv, Shape
<1>2. PICK g \in Handlers : g = thread[t]
  BY <1>1
<1>3. g.conn \in Conns
  BY DEF Handlers
<1>4. Is(thread[t], g.conn, Anything)
  BY <1>2, IsAre
<1>5. Count(g.conn, Anything) >= 1 /\ Count(g.conn, Anything) \in Nat
  BY <1>4, Counted, Countable DEF ConnInv
<1>6. owners[g.conn] >= 1
  <2>1. owners[g.conn] =
          One(accepting = g.conn) + One(reading[g.conn]) + writing[g.conn] + Count(g.conn, Anything)
    BY <1>3 DEF ConnInv, Owned
  <2>2. writing[g.conn] \in Nat
    BY <1>3 DEF ConnInv, Shape
  <2> QED BY <1>5, <2>1, <2>2 DEF One
<1>7. obj[g.conn] = "live"
  <2>1. obj[g.conn] = "live" <=> owners[g.conn] > 0
    BY <1>3 DEF ConnInv, Owned
  <2>2. owners[g.conn] \in Nat
    BY <1>3 DEF ConnInv, Shape
  <2> QED BY <1>6, <2>1, <2>2
<1>8. Sound(thread[t])
  BY DEF ConnInv, AllSound
<1> QED BY <1>1, <1>2, <1>3, <1>5, <1>6, <1>7, <1>8

\* The same of what is queued.
LEMMA QueuedIs ==
  ASSUME ConnInv, NEW i \in DOMAIN queue
  PROVE  /\ queue[i] \in Handlers
         /\ queue[i].conn \in Conns
         /\ queue[i].at = "start" /\ Sound(queue[i])
         /\ obj[queue[i].conn] = "live"
<1>1. queue[i] \in Handlers
  BY DEF ConnInv, Shape
<1>2. PICK g \in Handlers : g = queue[i]
  BY <1>1
<1>3. g.conn \in Conns
  BY DEF Handlers
<1>4. Is(queue[i], g.conn, Anything)
  BY <1>2, IsAre
<1>5. Count(g.conn, Anything) >= 1 /\ Count(g.conn, Anything) \in Nat
  BY <1>4, Counted, Countable DEF ConnInv
<1>6. obj[g.conn] = "live"
  <2>1. owners[g.conn] =
          One(accepting = g.conn) + One(reading[g.conn]) + writing[g.conn] + Count(g.conn, Anything)
    BY <1>3 DEF ConnInv, Owned
  <2>2. writing[g.conn] \in Nat
    BY <1>3 DEF ConnInv, Shape
  <2>3. owners[g.conn] > 0
    BY <1>5, <2>1, <2>2 DEF One
  <2> QED BY <1>3, <2>3 DEF ConnInv, Owned
<1>7. queue[i].at = "start" /\ Sound(queue[i])
  BY DEF ConnInv, AllSound
<1> QED BY <1>1, <1>2, <1>3, <1>6, <1>7

-----------------------------------------------------------------------------
(* Steps of handlers: counts and soundness.                                *)

\* What is counted of a handler.
AtAccepted(h, d) == h.conn = d /\ h.op = "accept" /\ h.at = "start"
AtChained(h, d) ==
  /\ h.conn = d
  /\ \/ h.op = "accept" /\ h.at # "return"
     \/ h.op = "read" /\ h.at = "start"
AtWrite(h, d) == h.conn = d /\ h.op = "write" /\ h.at = "start"

\* The four counts are numbers.
LEMMA CountsAre ==
  ASSUME Shape, NEW d
  PROVE  /\ Count(d, Anything) \in Nat /\ Count(d, Accepted) \in Nat
         /\ Count(d, Chained) \in Nat /\ Count(d, Writes) \in Nat
  BY Countable

\* A completion is queued.
LEMMA CountsQueued ==
  ASSUME Shape, NEW h \in Handlers, queue' = Append(queue, h), thread' = thread, NEW d
  PROVE  /\ Count(d, Anything)' = Count(d, Anything) + One(h.conn = d)
         /\ Count(d, Accepted)' = Count(d, Accepted) + One(AtAccepted(h, d))
         /\ Count(d, Chained)' = Count(d, Chained) + One(AtChained(h, d))
         /\ Count(d, Writes)' = Count(d, Writes) + One(AtWrite(h, d))
<1>1. /\ One(Is(h, d, Anything)) = One(h.conn = d)
      /\ One(Is(h, d, Accepted)) = One(AtAccepted(h, d))
      /\ One(Is(h, d, Chained)) = One(AtChained(h, d))
      /\ One(Is(h, d, Writes)) = One(AtWrite(h, d))
  BY IsAre DEF One, AtAccepted, AtChained, AtWrite
<1>2. \A K : Count(d, K)' = Count(d, K) + One(Is(h, d, K))
  BY CountQueued
<1> QED BY <1>1, <1>2

\* Thread t goes on from g to h.
Moves(t, g, h) == g = thread[t] /\ thread' = [thread EXCEPT ![t] = h] /\ queue' = queue

\* It is then counted by h.
LEMMA CountsStep ==
  ASSUME Shape, NEW t \in ThreadIds, NEW g \in Handlers, NEW h \in Handlers, Moves(t, g, h), NEW d
  PROVE  /\ Count(d, Anything)' = Count(d, Anything) - One(g.conn = d) + One(h.conn = d)
         /\ Count(d, Accepted)' = Count(d, Accepted) - One(AtAccepted(g, d)) + One(AtAccepted(h, d))
         /\ Count(d, Chained)' = Count(d, Chained) - One(AtChained(g, d)) + One(AtChained(h, d))
         /\ Count(d, Writes)' = Count(d, Writes) - One(AtWrite(g, d)) + One(AtWrite(h, d))
<1>1. /\ One(Is(h, d, Anything)) = One(h.conn = d)
      /\ One(Is(h, d, Accepted)) = One(AtAccepted(h, d))
      /\ One(Is(h, d, Chained)) = One(AtChained(h, d))
      /\ One(Is(h, d, Writes)) = One(AtWrite(h, d))
  BY IsAre DEF One, AtAccepted, AtChained, AtWrite
<1>2. /\ One(Is(g, d, Anything)) = One(g.conn = d)
      /\ One(Is(g, d, Accepted)) = One(AtAccepted(g, d))
      /\ One(Is(g, d, Chained)) = One(AtChained(g, d))
      /\ One(Is(g, d, Writes)) = One(AtWrite(g, d))
  BY IsAre DEF One, AtAccepted, AtChained, AtWrite
<1>3. g = thread[t] /\ thread' = [thread EXCEPT ![t] = h] /\ queue' = queue
  BY DEF Moves
<1>4. \A K : Count(d, K)' = Count(d, K) - One(Is(thread[t], d, K)) + One(Is(h, d, K))
  BY <1>3, CountStep
<1> QED BY <1>1, <1>2, <1>3, <1>4

\* A handler returns.
LEMMA CountsReturn ==
  ASSUME Shape, NEW t \in ThreadIds, NEW g \in Handlers, Moves(t, g, Idle), NEW d
  PROVE  /\ Count(d, Anything)' = Count(d, Anything) - One(g.conn = d)
         /\ Count(d, Accepted)' = Count(d, Accepted) - One(AtAccepted(g, d))
         /\ Count(d, Chained)' = Count(d, Chained) - One(AtChained(g, d))
         /\ Count(d, Writes)' = Count(d, Writes) - One(AtWrite(g, d))
<1>1. /\ One(Is(g, d, Anything)) = One(g.conn = d)
      /\ One(Is(g, d, Accepted)) = One(AtAccepted(g, d))
      /\ One(Is(g, d, Chained)) = One(AtChained(g, d))
      /\ One(Is(g, d, Writes)) = One(AtWrite(g, d))
  BY IsAre DEF One, AtAccepted, AtChained, AtWrite
<1>2. \A K : One(Is(Idle, d, K)) = 0
  BY IdleIsNone DEF One
<1>3. g = thread[t] /\ thread' = [thread EXCEPT ![t] = Idle] /\ queue' = queue
  BY DEF Moves
<1>4. \A K : Count(d, K)' = Count(d, K) - One(Is(thread[t], d, K)) + One(Is(Idle, d, K))
  BY <1>3, CountStep
<1>5. \A K : Count(d, K) \in Nat /\ One(Is(thread[t], d, K)) \in Nat
  BY Countable DEF One
<1>6. \A K : Count(d, K)' = Count(d, K) - One(Is(thread[t], d, K))
  BY <1>2, <1>4, <1>5
<1> QED BY <1>1, <1>3, <1>6

\* As Sound, in the next state, of a handler there is now.
SoundNext(h) == SoundIn(h, wired', done', stream', arrived', sock', gone')

\* All handlers there are now are sound in the next state.
StaySound ==
  /\ \A i \in DOMAIN queue : SoundNext(queue[i])
  /\ \A t \in ThreadIds : thread[t] # Idle => SoundNext(thread[t])

\* That is so if nothing they rely on is taken back.
LEMMA StaySoundIf ==
  ASSUME ConnInv, arrived' \in [Conns -> Nat],
         \A c \in Conns : wired[c] => wired'[c],
         \A c \in Conns : done'[c] = done[c],
         \A c \in Conns : stream'[c] = stream[c],
         \A c \in Conns : arrived'[c] >= arrived[c],
         \A c \in Conns : sock'[c] = sock[c],
         \A c \in Conns : gone[c] => gone'[c]
  PROVE  StaySound
<1>1. arrived \in [Conns -> Nat]
  BY DEF ConnInv, Shape
<1>2. ASSUME NEW h \in Handlers, Sound(h)
      PROVE  SoundNext(h)
  <2>1. h.conn \in Conns
    BY DEF Handlers
  <2>2. SoundIn(h, wired, done, stream, arrived, sock, gone)
    BY <1>2 DEF Sound
  <2>3. SoundIn(h, wired', done', stream', arrived', sock', gone')
    BY <1>1, <2>1, <2>2, SoundKept
  <2> QED BY <2>3 DEF SoundNext
<1>3. \A i \in DOMAIN queue : SoundNext(queue[i])
  BY <1>2, QueuedIs
<1>4. \A t \in ThreadIds : thread[t] # Idle => SoundNext(thread[t])
  BY <1>2, RunningIs
<1> QED BY <1>3, <1>4 DEF StaySound

\* It is enough for a queued completion to be sound.
LEMMA SoundQueued ==
  ASSUME ConnInv, StaySound, NEW h \in Handlers, SoundNext(h), h.at = "start",
         queue' = Append(queue, h), thread' = thread
  PROVE  AllSound'
<1>1. /\ Len(queue) \in Nat /\ DOMAIN queue = 1 .. Len(queue)
      /\ DOMAIN queue' = 1 .. Len(queue) + 1
      /\ \A i \in 1 .. Len(queue) : queue'[i] = queue[i]
      /\ queue'[Len(queue) + 1] = h
  <2>1. queue \in Seq(Handlers)
    BY DEF ConnInv, Shape
  <2> QED BY <2>1, AppendProperties
<1>2. ASSUME NEW i \in DOMAIN queue'
      PROVE  queue'[i].at = "start" /\ SoundNext(queue'[i])
  <2>1. CASE i \in 1 .. Len(queue)
    <3>1. i \in DOMAIN queue /\ queue'[i] = queue[i]
      BY <1>1, <2>1
    <3>2. queue[i].at = "start" /\ SoundNext(queue[i])
      BY <3>1, QueuedIs DEF StaySound
    <3> QED BY <3>1, <3>2
  <2>2. CASE i = Len(queue) + 1
    BY <1>1, <2>2
  <2> QED BY <1>1, <2>1, <2>2
<1> QED BY <1>2 DEF AllSound, StaySound, Sound, SoundNext

\* The same of all but the one that thread t runs.
OthersStaySound(t) ==
  /\ \A i \in DOMAIN queue : SoundNext(queue[i])
  /\ \A u \in ThreadIds \ {t} : thread[u] # Idle => SoundNext(thread[u])

\* It is enough for the step a thread goes to to be sound.
LEMMA SoundStep ==
  ASSUME ConnInv, NEW t \in ThreadIds, OthersStaySound(t), NEW h, h # Idle => SoundNext(h),
         queue' = queue, thread' = [thread EXCEPT ![t] = h]
  PROVE  AllSound'
<1>1. ASSUME NEW u \in ThreadIds, thread'[u] # Idle
      PROVE  SoundNext(thread'[u])
  <2>1. thread'[u] = IF u = t THEN h ELSE thread[u]
    BY DEF ConnInv, Shape
  <2> QED BY <1>1, <2>1 DEF OthersStaySound
<1>2. \A i \in DOMAIN queue : queue[i].at = "start"
  BY QueuedIs
<1> QED BY <1>1, <1>2 DEF AllSound, OthersStaySound, Sound, SoundNext

\* A handler goes to another step and nothing else of it changes.
LEMMA GoesToIs ==
  ASSUME Shape, NEW t \in ThreadIds, NEW g \in Handlers, g = thread[t], NEW step \in Steps,
         GoesTo(t, step)
  PROVE  \E h \in Handlers :
           /\ thread' = [thread EXCEPT ![t] = h]
           /\ h.op = g.op /\ h.conn = g.conn /\ h.ec = g.ec /\ h.size = g.size /\ h.next = g.next
           /\ h.at = step
<1> DEFINE h == [g EXCEPT !.at = step]
<1>1. /\ h \in Handlers
      /\ h.op = g.op /\ h.conn = g.conn /\ h.ec = g.ec /\ h.size = g.size /\ h.next = g.next
      /\ h.at = step
  BY DEF Handlers
<1>2. thread' = [thread EXCEPT ![t] = h]
  BY DEF GoesTo
<1> QED BY <1>1, <1>2

-----------------------------------------------------------------------------
(* The network and the io_service.                                         *)

\* The token stays with the last connection, as long as no other is made.
LEMMA TokenKept ==
  ASSUME ConnInv, accepting' \in {accepting, None},
         \A c \in Conns : Count(c, Accepted)' \in Nat,
         \A c \in Conns : One(accepting' = c) + Count(c, Accepted)'
                            <= One(accepting = c) + Count(c, Accepted),
         \A c \in Conns : owners[c] = 0 => owners'[c] = 0 /\ done'[c] = done[c]
  PROVE  Token'
<1>1. PICK m \in Conns :
        /\ accepting \in {m, None}
        /\ One(accepting = m) + Count(m, Accepted) <= 1
        /\ \A c \in Conns : /\ c # m => Count(c, Accepted) = 0
                            /\ c > m => owners[c] = 0 /\ done[c] = 0
  BY DEF ConnInv, Token
<1>2. \A c \in Conns : Count(c, Accepted) \in Nat
  BY CountsAre DEF ConnInv
<1>3. \A c \in Conns : c # None
  BY DEF Conns, None
<1>4. One(accepting' = m) + Count(m, Accepted)' <= 1
  BY <1>1, <1>2 DEF One
<1>5. ASSUME NEW c \in Conns, c # m
      PROVE  Count(c, Accepted)' = 0
  <2>1. accepting # c /\ accepting' # c
    BY <1>1, <1>3, <1>5
  <2>2. One(accepting = c) = 0 /\ One(accepting' = c) = 0
    BY <2>1 DEF One
  <2> QED BY <1>1, <1>5, <2>2
<1>6. accepting' \in {m, None}
  BY <1>1
<1>7. \A c \in Conns : c > m => owners'[c] = 0 /\ done'[c] = 0
  BY <1>1
<1> QED BY <1>4, <1>5, <1>6, <1>7 DEF Token

\* A completion is a handler at its start.
LEMMA CompletionIs ==
  ASSUME Shape, NEW op \in Ops, NEW c \in Conns, NEW ec \in BOOLEAN
  PROVE  /\ Completion(op, c, ec) \in Handlers
         /\ Completion(op, c, ec).op = op /\ Completion(op, c, ec).conn = c
         /\ Completion(op, c, ec).ec = ec /\ Completion(op, c, ec).at = "start"
         /\ Completion(op, c, ec).size = arrived[c]
         /\ Completion(op, c, ec).next = taken[c] + 1
<1>1. arrived[c] \in Nat /\ taken[c] + 1 \in Nat
  BY DEF Shape
<1> QED BY <1>1 DEF Completion, Handlers, Steps

\* An accept completes: nothing else was under way on its connection.
LEMMA AcceptCompletesKeeps ==
  ASSUME ConnInv, AcceptCompletes
  PROVE  ConnInv'
<1>1. PICK c \in Conns : c = accepting /\ c <= MaxAccepts
  BY MaxAcceptsAssumption DEF AcceptCompletes, Conns
<1>2. PICK ec \in BOOLEAN :
        /\ queue' = Append(queue, Completion("accept", c, ec))
        /\ \/ sock' = [sock EXCEPT ![c] = "open"] /\ \E s \in Streams : stream' = [stream EXCEPT ![c] = s]
           \/ sock' = sock /\ stream' = stream
  <2>1. CASE \E s \in Streams :
               /\ stream' = [stream EXCEPT ![accepting] = s]
               /\ sock' = [sock EXCEPT ![accepting] = "open"]
               /\ queue' = Append(queue, Completion("accept", accepting, FALSE))
    BY <1>1, <2>1
  <2>2. CASE /\ queue' = Append(queue, Completion("accept", accepting, TRUE))
             /\ UNCHANGED <<stream, sock>>
    BY <1>1, <2>2
  <2> QED BY <2>1, <2>2 DEF AcceptCompletes
<1>3. /\ accepting' = None
      /\ thread' = thread /\ obj' = obj /\ owners' = owners /\ wired' = wired
      /\ reading' = reading /\ writing' = writing /\ arrived' = arrived /\ taken' = taken
      /\ gone' = gone /\ done' = done /\ answers' = answers
  BY DEF AcceptCompletes, conn
<1>4. Shape
  BY DEF ConnInv
<1>5. PICK h \in Handlers :
        /\ queue' = Append(queue, h)
        /\ h.op = "accept" /\ h.conn = c /\ h.at = "start"
  <2>1. "accept" \in Ops
    BY DEF Ops
  <2> QED BY <1>2, <1>4, <2>1, CompletionIs
<1>6. /\ sock' \in [Conns -> {"open", "closed"}] /\ stream' \in [Conns -> Streams \cup {NoStream}]
      /\ \A d \in Conns : d # c => sock'[d] = sock[d] /\ stream'[d] = stream[d]
  <2>1. /\ sock \in [Conns -> {"open", "closed"}]
        /\ stream \in [Conns -> Streams \cup {NoStream}]
    BY <1>4 DEF Shape
  <2>2. CASE sock' = [sock EXCEPT ![c] = "open"] /\ \E s \in Streams : stream' = [stream EXCEPT ![c] = s]
    <3>1. PICK s \in Streams : stream' = [stream EXCEPT ![c] = s]
      BY <2>2
    <3> QED BY <2>1, <2>2, <3>1
  <2>3. CASE sock' = sock /\ stream' = stream
    BY <2>1, <2>3
  <2> QED BY <1>2, <2>2, <2>3
<1>7. Shape'
  <2>1. queue' \in Seq(Handlers)
    BY <1>4, <1>5, AppendProperties DEF Shape
  <2> QED BY <1>3, <1>4, <1>6, <2>1 DEF Shape
<1>8. c # None /\ \A d \in Conns : d # None
  BY DEF Conns, None
<1>9. ASSUME NEW d \in Conns
      PROVE  /\ Count(d, Anything)' = Count(d, Anything) + One(c = d)
             /\ Count(d, Accepted)' = Count(d, Accepted) + One(c = d)
             /\ Count(d, Chained)' = Count(d, Chained) + One(c = d)
             /\ Count(d, Writes)' = Count(d, Writes)
             /\ One(accepting = d) = One(c = d) /\ One(accepting' = d) = 0
             /\ Count(d, Anything) \in Nat /\ Count(d, Accepted) \in Nat
             /\ Count(d, Chained) \in Nat /\ Count(d, Writes) \in Nat
  <2>1. /\ One(h.conn = d) = One(c = d) /\ One(AtAccepted(h, d)) = One(c = d)
        /\ One(AtChained(h, d)) = One(c = d) /\ One(AtWrite(h, d)) = 0
    BY <1>5 DEF One, AtAccepted, AtChained, AtWrite
  <2>2. One(accepting = d) = One(c = d) /\ One(accepting' = d) = 0
    BY <1>1, <1>3, <1>8 DEF One
  <2>3. /\ Count(d, Anything) \in Nat /\ Count(d, Accepted) \in Nat
        /\ Count(d, Chained) \in Nat /\ Count(d, Writes) \in Nat
    BY <1>4, CountsAre
  <2>4. /\ Count(d, Anything)' = Count(d, Anything) + One(c = d)
        /\ Count(d, Accepted)' = Count(d, Accepted) + One(c = d)
        /\ Count(d, Chained)' = Count(d, Chained) + One(c = d)
        /\ Count(d, Writes)' = Count(d, Writes) + 0
    BY <1>3, <1>4, <1>5, <2>1, CountsQueued
  <2> QED BY <2>2, <2>3, <2>4
<1>10. ASSUME NEW d \in Conns
       PROVE  /\ owners'[d] = One(accepting' = d) + One(reading'[d]) + writing'[d] + Count(d, Anything)'
              /\ obj'[d] = "live" <=> owners'[d] > 0
              /\ One(accepting' = d) + One(reading'[d]) + Count(d, Chained)' <= 1
  <2>1. /\ owners[d] = One(accepting = d) + One(reading[d]) + writing[d] + Count(d, Anything)
        /\ obj[d] = "live" <=> owners[d] > 0
        /\ One(accepting = d) + One(reading[d]) + Count(d, Chained) <= 1
        /\ writing[d] \in Nat
    BY <1>4 DEF ConnInv, Owned, Chain, Shape
  <2> QED BY <1>3, <1>9, <2>1 DEF One
<1>11. Owned' /\ Chain'
  BY <1>10 DEF Owned, Chain
<1>12. Token'
  BY <1>3, <1>9, TokenKept DEF One
<1>13. done[c] = 0 /\ Count(c, Writes) = 0 /\ writing[c] = 0 /\ Count(c, Chained) = 0
  <2>1. done[c] = 0
    BY <1>1 DEF ConnInv, Pending
  <2>2. Count(c, Writes) + writing[c] <= done[c] /\ writing[c] \in Nat
    BY <1>4 DEF ConnInv, Answered, Shape
  <2>3. One(accepting = c) + One(reading[c]) + Count(c, Chained) <= 1 /\ One(accepting = c) = 1
    BY <1>1 DEF ConnInv, Chain, One
  <2>4. One(reading[c]) \in Nat /\ Count(c, Writes) \in Nat /\ Count(c, Chained) \in Nat
    BY <1>9 DEF One
  <2> QED BY <2>1, <2>2, <2>3, <2>4
<1>14. StaySound
  <2>1. ASSUME NEW x \in Handlers, Sound(x), ~Is(x, c, Chained), ~Is(x, c, Writes)
        PROVE  SoundNext(x)
    <3>1. CASE x.conn = c
      <4>1. x.at \in Steps /\ x.op \in Ops
        BY DEF Handlers
      <4>2. ~(x.op = "accept" /\ x.at # "return") /\ x.at # "start"
        BY <2>1, <3>1, <4>1, IsAre DEF Ops
      <4> QED BY <1>3, <2>1, <4>2 DEF Sound, SoundNext, SoundIn
    <3>2. CASE x.conn # c
      <4>1. x.conn \in Conns
        BY DEF Handlers
      <4>2. sock'[x.conn] = sock[x.conn] /\ stream'[x.conn] = stream[x.conn]
        BY <1>6, <3>2, <4>1
      <4> QED BY <1>3, <2>1, <4>2 DEF Sound, SoundNext, SoundIn
    <3> QED BY <3>1, <3>2
  <2>2. /\ \A i \in DOMAIN queue : ~Is(queue[i], c, Chained) /\ ~Is(queue[i], c, Writes)
        /\ \A t \in ThreadIds : ~Is(thread[t], c, Chained) /\ ~Is(thread[t], c, Writes)
    BY <1>4, <1>13, Counted
  <2> QED BY <2>1, <2>2, QueuedIs, RunningIs DEF StaySound
<1>15. AllSound'
  <2>1. SoundNext(h)
    BY <1>1, <1>3, <1>5, <1>13 DEF SoundNext, SoundIn
  <2> QED BY <1>3, <1>5, <1>14, <2>1, SoundQueued
<1>16. Pending'
  BY <1>3, <1>8 DEF ConnInv, Pending
<1>17. Answered'
  <2> SUFFICES ASSUME NEW d \in Conns
               PROVE  /\ answers'[d] + writing'[d] <= done'[d]
                      /\ Count(d, Writes)' + writing'[d] <= done'[d]
                      /\ ~gone'[d] => answers'[d] + writing'[d] = done'[d]
                      /\ ~gone'[d] /\ sock'[d] = "closed" => writing'[d] = 0
                      /\ done'[d] <= Cardinality(Ends(stream'[d], arrived'[d]))
    BY DEF Answered
  <2>1. /\ answers[d] + writing[d] <= done[d]
        /\ Count(d, Writes) + writing[d] <= done[d]
        /\ ~gone[d] => answers[d] + writing[d] = done[d]
        /\ ~gone[d] /\ sock[d] = "closed" => writing[d] = 0
        /\ done[d] <= Cardinality(Ends(stream[d], arrived[d]))
    BY DEF ConnInv, Answered
  <2>2. CASE d # c
    BY <1>3, <1>6, <1>9, <2>1, <2>2
  <2>3. CASE d = c
    <3>1. Cardinality(Ends(stream'[d], arrived[d])) \in Nat
      <4>1. arrived[d] \in Nat /\ arrived[d] <= arrived[d]
        BY <1>4 DEF Shape
      <4> QED BY <4>1, EndsGrow
    <3> QED BY <1>3, <1>9, <1>13, <2>1, <2>3, <3>1
  <2> QED BY <2>2, <2>3
<1> QED BY <1>7, <1>11, <1>12, <1>15, <1>16, <1>17 DEF ConnInv

\* A read completes: its handler takes its place.
LEMMA ReadCompletesKeeps ==
  ASSUME ConnInv, NEW c \in Conns, ReadCompletes(c)
  PROVE  ConnInv'
<1>1. /\ reading[c] /\ reading' = [reading EXCEPT ![c] = FALSE]
      /\ accepting' = accepting /\ sock' = sock /\ writing' = writing /\ thread' = thread
      /\ obj' = obj /\ owners' = owners /\ wired' = wired /\ stream' = stream
      /\ arrived' = arrived /\ gone' = gone /\ done' = done /\ answers' = answers
  BY DEF ReadCompletes, conn
<1>2. Shape
  BY DEF ConnInv
<1>3. PICK ec \in BOOLEAN :
        /\ queue' = Append(queue, Completion("read", c, ec))
        /\ ~ec => sock[c] = "open" /\ arrived[c] > taken[c]
        /\ ec => MayFail(c)
        /\ taken' \in {taken, [taken EXCEPT ![c] = arrived[c]]}
  BY DEF ReadCompletes
<1>4. PICK h \in Handlers :
        /\ queue' = Append(queue, h)
        /\ h.op = "read" /\ h.conn = c /\ h.at = "start" /\ h.ec = ec
        /\ h.size = arrived[c] /\ h.next = taken[c] + 1
  <2>1. "read" \in Ops
    BY DEF Ops
  <2> QED BY <1>2, <1>3, <2>1, CompletionIs
<1>5. Shape'
  <2>1. queue' \in Seq(Handlers)
    BY <1>2, <1>4, AppendProperties DEF Shape
  <2>2. taken' \in [Conns -> Nat] /\ reading' \in [Conns -> BOOLEAN]
    BY <1>1, <1>2, <1>3 DEF Shape
  <2> QED BY <1>1, <1>2, <2>1, <2>2 DEF Shape
<1>6. ASSUME NEW d \in Conns
      PROVE  /\ Count(d, Anything)' = Count(d, Anything) + One(c = d)
             /\ Count(d, Accepted)' = Count(d, Accepted)
             /\ Count(d, Chained)' = Count(d, Chained) + One(c = d)
             /\ Count(d, Writes)' = Count(d, Writes)
             /\ One(reading[d]) = One(reading'[d]) + One(c = d)
             /\ Count(d, Anything) \in Nat /\ Count(d, Accepted) \in Nat
             /\ Count(d, Chained) \in Nat /\ Count(d, Writes) \in Nat
  <2>1. /\ One(h.conn = d) = One(c = d) /\ One(AtAccepted(h, d)) = 0
        /\ One(AtChained(h, d)) = One(c = d) /\ One(AtWrite(h, d)) = 0
    BY <1>4 DEF One, AtAccepted, AtChained, AtWrite
  <2>2. One(reading[d]) = One(reading'[d]) + One(c = d)
    <3>1. d = c => reading[d] /\ ~reading'[d]
      BY <1>1, <1>2 DEF Shape
    <3>2. d # c => reading'[d] = reading[d]
      BY <1>1, <1>2 DEF Shape
    <3> QED BY <3>1, <3>2 DEF One
  <2>3. /\ Count(d, Anything) \in Nat /\ Count(d, Accepted) \in Nat
        /\ Count(d, Chained) \in Nat /\ Count(d, Writes) \in Nat
    BY <1>2, CountsAre
  <2>4. /\ Count(d, Anything)' = Count(d, Anything) + One(c = d)
        /\ Count(d, Accepted)' = Count(d, Accepted) + 0
        /\ Count(d, Chained)' = Count(d, Chained) + One(c = d)
        /\ Count(d, Writes)' = Count(d, Writes) + 0
    BY <1>1, <1>2, <1>4, <2>1, CountsQueued
  <2> QED BY <2>2, <2>3, <2>4
<1>7. ASSUME NEW d \in Conns
      PROVE  /\ owners'[d] = One(accepting' = d) + One(reading'[d]) + writing'[d] + Count(d, Anything)'
             /\ obj'[d] = "live" <=> owners'[d] > 0
             /\ One(accepting' = d) + One(reading'[d]) + Count(d, Chained)' <= 1
  <2>1. /\ owners[d] = One(accepting = d) + One(reading[d]) + writing[d] + Count(d, Anything)
        /\ obj[d] = "live" <=> owners[d] > 0
        /\ One(accepting = d) + One(reading[d]) + Count(d, Chained) <= 1
        /\ writing[d] \in Nat
    BY <1>2 DEF ConnInv, Owned, Chain, Shape
  <2>2. One(reading'[d]) \in Nat /\ One(c = d) \in Nat /\ One(accepting = d) \in Nat
    BY DEF One
  <2>3. owners[d] = One(accepting = d) + One(reading'[d]) + writing[d] + Count(d, Anything)'
    BY <1>6, <2>1, <2>2
  <2>4. One(accepting = d) + One(reading'[d]) + Count(d, Chained)' <= 1
    BY <1>6, <2>1, <2>2
  <2> QED BY <1>1, <2>1, <2>3, <2>4
<1>8. Owned' /\ Chain'
  BY <1>7 DEF Owned, Chain
<1>9. Token'
  BY <1>1, <1>6, TokenKept DEF One
<1>10. StaySound
  <2>1. \A d \in Conns : arrived'[d] >= arrived[d]
    BY <1>1, <1>2 DEF Shape
  <2> QED BY <1>1, <1>5, <2>1, StaySoundIf DEF Shape
<1>11. AllSound'
  <2>1. done[c] = 0 /\ wired[c]
    BY <1>1 DEF ConnInv, Pending
  <2>2. arrived[c] \in Nat /\ taken[c] \in Nat /\ sock[c] \in {"open", "closed"}
    BY <1>2 DEF Shape
  <2>3. Cardinality(Ends(stream[c], taken[c] + 1 - 1)) \in Nat
    BY <2>2, EndsGrow
  <2>4. ec => gone[c] \/ sock[c] = "closed"
    BY <1>3, <2>2 DEF MayFail
  <2>5. SoundNext(h)
    BY <1>1, <1>3, <1>4, <2>1, <2>2, <2>3, <2>4 DEF SoundNext, SoundIn
  <2> QED BY <1>1, <1>4, <1>10, <2>5, SoundQueued
<1>12. Pending'
  BY <1>1, <1>2 DEF ConnInv, Pending, Shape
<1>13. Answered'
  BY <1>1, <1>6 DEF ConnInv, Answered
<1> QED BY <1>5, <1>8, <1>9, <1>11, <1>12, <1>13 DEF ConnInv

\* A write completes: its handler takes its place, and it only fails when the
\* client is gone.
LEMMA WriteCompletesKeeps ==
  ASSUME ConnInv, NEW c \in Conns, WriteCompletes(c)
  PROVE  ConnInv'
<1>1. /\ writing[c] > 0 /\ writing' = [writing EXCEPT ![c] = writing[c] - 1]
      /\ accepting' = accepting /\ sock' = sock /\ reading' = reading /\ thread' = thread
      /\ obj' = obj /\ owners' = owners /\ wired' = wired /\ stream' = stream
      /\ arrived' = arrived /\ taken' = taken /\ gone' = gone /\ done' = done
  BY DEF WriteCompletes, conn, client
<1>2. Shape
  BY DEF ConnInv
<1>3. PICK ec \in BOOLEAN :
        /\ queue' = Append(queue, Completion("write", c, ec))
        /\ ~ec => answers' = [answers EXCEPT ![c] = answers[c] + 1]
        /\ ec => MayFail(c) /\ answers' = answers
  BY DEF WriteCompletes
<1>4. PICK h \in Handlers :
        /\ queue' = Append(queue, h)
        /\ h.op = "write" /\ h.conn = c /\ h.at = "start" /\ h.ec = ec
  <2>1. "write" \in Ops
    BY DEF Ops
  <2> QED BY <1>2, <1>3, <2>1, CompletionIs
<1>5. /\ writing \in [Conns -> Nat] /\ answers \in [Conns -> Nat]
      /\ writing' \in [Conns -> Nat] /\ answers' \in [Conns -> Nat]
  <2>1. writing \in [Conns -> Nat] /\ answers \in [Conns -> Nat]
    BY <1>2 DEF Shape
  <2>2. writing[c] - 1 \in Nat /\ answers[c] + 1 \in Nat
    BY <1>1, <2>1
  <2> QED BY <1>1, <1>3, <2>1, <2>2
<1>6. Shape'
  <2>1. queue' \in Seq(Handlers)
    BY <1>2, <1>4, AppendProperties DEF Shape
  <2> QED BY <1>1, <1>2, <1>5, <2>1 DEF Shape
<1>7. ASSUME NEW d \in Conns
      PROVE  /\ Count(d, Anything)' = Count(d, Anything) + One(c = d)
             /\ Count(d, Accepted)' = Count(d, Accepted)
             /\ Count(d, Chained)' = Count(d, Chained)
             /\ Count(d, Writes)' = Count(d, Writes) + One(c = d)
             /\ writing[d] = writing'[d] + One(c = d)
             /\ Count(d, Anything) \in Nat /\ Count(d, Accepted) \in Nat
             /\ Count(d, Chained) \in Nat /\ Count(d, Writes) \in Nat
             /\ writing[d] \in Nat /\ writing'[d] \in Nat
             /\ One(c = d) \in Nat
  <2>1. /\ One(h.conn = d) = One(c = d) /\ One(AtAccepted(h, d)) = 0
        /\ One(AtChained(h, d)) = 0 /\ One(AtWrite(h, d)) = One(c = d)
    BY <1>4 DEF One, AtAccepted, AtChained, AtWrite
  <2>2. writing[d] = writing'[d] + One(c = d) /\ writing[d] \in Nat /\ writing'[d] \in Nat
    BY <1>1, <1>5 DEF One
  <2>3. /\ Count(d, Anything) \in Nat /\ Count(d, Accepted) \in Nat
        /\ Count(d, Chained) \in Nat /\ Count(d, Writes) \in Nat
    BY <1>2, CountsAre
  <2>4. /\ Count(d, Anything)' = Count(d, Anything) + One(c = d)
        /\ Count(d, Accepted)' = Count(d, Accepted) + 0
        /\ Count(d, Chained)' = Count(d, Chained) + 0
        /\ Count(d, Writes)' = Count(d, Writes) + One(c = d)
    BY <1>1, <1>2, <1>4, <2>1, CountsQueued
  <2>5. One(c = d) \in Nat
    BY DEF One
  <2> QED BY <2>2, <2>3, <2>4, <2>5
<1>8. ASSUME NEW d \in Conns
      PROVE  /\ owners'[d] = One(accepting' = d) + One(reading'[d]) + writing'[d] + Count(d, Anything)'
             /\ obj'[d] = "live" <=> owners'[d] > 0
             /\ One(accepting' = d) + One(reading'[d]) + Count(d, Chained)' <= 1
  <2>1. /\ owners[d] = One(accepting = d) + One(reading[d]) + writing[d] + Count(d, Anything)
        /\ obj[d] = "live" <=> owners[d] > 0
        /\ One(accepting = d) + One(reading[d]) + Count(d, Chained) <= 1
    BY DEF ConnInv, Owned, Chain
  <2>2. One(reading[d]) \in Nat /\ One(accepting = d) \in Nat
    BY DEF One
  <2>3. owners[d] = One(accepting = d) + One(reading[d]) + writing'[d] + Count(d, Anything)'
    BY <1>7, <2>1, <2>2
  <2> QED BY <1>1, <1>7, <2>1, <2>3
<1>9. Owned' /\ Chain'
  BY <1>8 DEF Owned, Chain
<1>10. Token'
  BY <1>1, <1>7, TokenKept DEF One
<1>11. StaySound
  <2>1. \A d \in Conns : arrived'[d] >= arrived[d]
    BY <1>1, <1>2 DEF Shape
  <2> QED BY <1>1, <1>6, <2>1, StaySoundIf DEF Shape
<1>12. ec => gone[c] \/ sock[c] = "closed"
  <2>1. sock[c] \in {"open", "closed"}
    BY <1>2 DEF Shape
  <2> QED BY <1>3, <2>1 DEF MayFail
<1>13. AllSound'
  <2>1. wired[c]
    BY <1>1 DEF ConnInv, Pending
  <2>2. SoundNext(h)
    BY <1>1, <1>4, <1>12, <2>1 DEF SoundNext, SoundIn
  <2> QED BY <1>1, <1>4, <1>11, <2>2, SoundQueued
<1>14. Pending'
  <2> SUFFICES ASSUME NEW d \in Conns
               PROVE  /\ accepting' = d \/ reading'[d] => done'[d] = 0
                      /\ reading'[d] \/ writing'[d] > 0 => wired'[d]
    BY DEF Pending
  <2>1. /\ accepting = d \/ reading[d] => done[d] = 0
        /\ reading[d] \/ writing[d] > 0 => wired[d]
    BY DEF ConnInv, Pending
  <2>2. writing'[d] > 0 => writing[d] > 0
    BY <1>7
  <2> QED BY <1>1, <2>1, <2>2
<1>15. Answered'
  <2> SUFFICES ASSUME NEW d \in Conns
               PROVE  /\ answers'[d] + writing'[d] <= done'[d]
                      /\ Count(d, Writes)' + writing'[d] <= done'[d]
                      /\ ~gone'[d] => answers'[d] + writing'[d] = done'[d]
                      /\ ~gone'[d] /\ sock'[d] = "closed" => writing'[d] = 0
                      /\ done'[d] <= Cardinality(Ends(stream'[d], arrived'[d]))
    BY DEF Answered
  <2>1. /\ answers[d] + writing[d] <= done[d]
        /\ Count(d, Writes) + writing[d] <= done[d]
        /\ ~gone[d] => answers[d] + writing[d] = done[d]
        /\ ~gone[d] /\ sock[d] = "closed" => writing[d] = 0
        /\ done[d] <= Cardinality(Ends(stream[d], arrived[d]))
    BY DEF ConnInv, Answered
  <2>2. answers[d] \in Nat /\ answers'[d] \in Nat /\ done[d] \in Nat
    BY <1>2, <1>5 DEF Shape
  <2>3. Count(d, Writes)' + writing'[d] <= done[d]
    BY <1>7, <2>1, <2>2
  <2>4. CASE d # c
    <3>1. answers'[d] = answers[d] /\ writing'[d] = writing[d]
      BY <1>1, <1>3, <1>5, <2>4
    <3> QED BY <1>1, <2>1, <2>3, <3>1
  <2>5. CASE d = c /\ ~ec
    <3>1. answers'[d] = answers[d] + 1 /\ writing'[d] = writing[d] - 1 /\ writing[d] > 0
      BY <1>1, <1>3, <1>5, <2>5
    <3>2. answers'[d] + writing'[d] = answers[d] + writing[d]
      BY <1>7, <2>2, <3>1
    <3>3. ~gone[d] => sock[d] # "closed"
      BY <1>7, <2>1, <3>1
    <3> QED BY <1>1, <2>1, <2>3, <3>2, <3>3
  <2>6. CASE d = c /\ ec
    <3>1. answers'[d] = answers[d] /\ writing'[d] = writing[d] - 1 /\ writing[d] > 0
      BY <1>1, <1>3, <1>5, <2>6
    <3>2. gone[d]
      BY <1>7, <1>12, <2>1, <2>6, <3>1
    <3>3. answers'[d] + writing'[d] <= done[d]
      BY <1>7, <2>1, <2>2, <3>1
    <3> QED BY <1>1, <2>1, <2>3, <3>2, <3>3
  <2> QED BY <2>4, <2>5, <2>6
<1> QED BY <1>6, <1>9, <1>10, <1>13, <1>14, <1>15 DEF ConnInv

\* Counts depend on queue and threads alone.
LEMMA CountsSame ==
  ASSUME queue' = queue, thread' = thread, NEW d, NEW K
  PROVE  Count(d, K)' = Count(d, K)
  BY DEF Count, Queued, Running

\* More of a stream arrives.
LEMMA ClientSendsKeeps ==
  ASSUME ConnInv, NEW c \in Conns, ClientSends(c)
  PROVE  ConnInv'
<1>1. /\ accepting' = accepting /\ queue' = queue /\ sock' = sock /\ reading' = reading
      /\ writing' = writing /\ thread' = thread /\ obj' = obj /\ owners' = owners
      /\ wired' = wired /\ stream' = stream /\ taken' = taken /\ gone' = gone
      /\ done' = done /\ answers' = answers
  BY DEF ClientSends, io, conn
<1>2. Shape
  BY DEF ConnInv
<1>3. arrived \in [Conns -> Nat]
  BY <1>2 DEF Shape
<1>4. PICK n \in Nat : n > arrived[c] /\ arrived' = [arrived EXCEPT ![c] = n]
  <2>1. PICK n \in arrived[c] + 1 .. Len(Text[stream[c]]) : arrived' = [arrived EXCEPT ![c] = n]
    BY DEF ClientSends
  <2>2. n \in Int /\ arrived[c] + 1 <= n /\ arrived[c] \in Nat
    BY <1>3
  <2>3. n \in Nat /\ n > arrived[c]
    BY <2>2
  <2> QED BY <2>1, <2>3
<1>5. arrived' \in [Conns -> Nat] /\ \A d \in Conns : arrived'[d] >= arrived[d]
  BY <1>3, <1>4
<1>6. Shape'
  BY <1>1, <1>2, <1>5 DEF Shape
<1>7. \A d, K : Count(d, K)' = Count(d, K)
  BY <1>1, CountsSame
<1>8. Owned' /\ Chain' /\ Token' /\ Pending'
  BY <1>1, <1>7 DEF ConnInv, Owned, Chain, Token, Pending
<1>9. StaySound
  BY <1>1, <1>5, StaySoundIf
<1>10. AllSound'
  BY <1>1, <1>9 DEF ConnInv, AllSound, StaySound, Sound, SoundNext
<1>11. \A d \in Conns : Cardinality(Ends(stream[d], arrived[d])) <= Cardinality(Ends(stream[d], arrived'[d]))
  <2> TAKE d \in Conns
  <2>1. arrived[d] \in Nat /\ arrived'[d] \in Nat /\ arrived[d] <= arrived'[d]
    BY <1>3, <1>5
  <2> QED BY <2>1, EndsGrow
<1>12. ASSUME NEW d \in Conns
       PROVE  done[d] <= Cardinality(Ends(stream[d], arrived'[d]))
  <2>1. arrived[d] \in Nat /\ arrived'[d] \in Nat /\ arrived[d] <= arrived'[d] /\ done[d] \in Nat
    BY <1>2, <1>3, <1>5 DEF Shape
  <2>2. /\ Cardinality(Ends(stream[d], arrived[d])) \in Nat
        /\ Cardinality(Ends(stream[d], arrived'[d])) \in Nat
    BY <2>1, EndsGrow
  <2>3. done[d] <= Cardinality(Ends(stream[d], arrived[d]))
    BY DEF ConnInv, Answered
  <2> QED BY <1>11, <2>1, <2>2, <2>3
<1>13. Answered'
  BY <1>1, <1>7, <1>12 DEF ConnInv, Answered
<1> QED BY <1>6, <1>8, <1>10, <1>13 DEF ConnInv

\* A client leaves.
LEMMA ClientGoesKeeps ==
  ASSUME ConnInv, NEW c \in Conns, ClientGoes(c)
  PROVE  ConnInv'
<1>1. /\ accepting' = accepting /\ queue' = queue /\ sock' = sock /\ reading' = reading
      /\ writing' = writing /\ thread' = thread /\ obj' = obj /\ owners' = owners
      /\ wired' = wired /\ stream' = stream /\ taken' = taken /\ arrived' = arrived
      /\ done' = done /\ answers' = answers
      /\ gone' = [gone EXCEPT ![c] = TRUE]
  BY DEF ClientGoes, io, conn
<1>2. Shape
  BY DEF ConnInv
<1>3. gone' \in [Conns -> BOOLEAN] /\ \A d \in Conns : gone[d] => gone'[d]
  BY <1>1, <1>2 DEF Shape
<1>4. Shape'
  BY <1>1, <1>2, <1>3 DEF Shape
<1>5. \A d, K : Count(d, K)' = Count(d, K)
  BY <1>1, CountsSame
<1>6. Owned' /\ Chain' /\ Token' /\ Pending'
  BY <1>1, <1>5 DEF ConnInv, Owned, Chain, Token, Pending
<1>7. StaySound
  <2>1. \A d \in Conns : arrived'[d] >= arrived[d]
    BY <1>1, <1>2 DEF Shape
  <2> QED BY <1>1, <1>3, <1>4, <2>1, StaySoundIf DEF Shape
<1>8. AllSound'
  BY <1>1, <1>7 DEF ConnInv, AllSound, StaySound, Sound, SoundNext
<1>9. Answered'
  BY <1>1, <1>3, <1>5 DEF ConnInv, Answered
<1> QED BY <1>4, <1>6, <1>8, <1>9 DEF ConnInv

\* A thread takes a completion: what is counted moves from the queue to it.
LEMMA RunKeeps ==
  ASSUME ConnInv, NEW t \in ThreadIds, Run(t)
  PROVE  ConnInv'
<1>1. /\ accepting' = accepting /\ sock' = sock /\ reading' = reading
      /\ writing' = writing /\ obj' = obj /\ owners' = owners
      /\ wired' = wired /\ stream' = stream /\ taken' = taken /\ arrived' = arrived
      /\ done' = done /\ answers' = answers /\ gone' = gone
      /\ queue # <<>> /\ queue' = Tail(queue)
      /\ thread' = [thread EXCEPT ![t] = Head(queue)]
  BY DEF Run, conn, client
<1>2. Shape
  BY DEF ConnInv
<1>3. /\ queue \in Seq(Handlers) /\ Len(queue) \in Nat \ {0} /\ DOMAIN queue = 1 .. Len(queue)
      /\ queue' \in Seq(Handlers) /\ DOMAIN queue' = 1 .. Len(queue) - 1
      /\ \A i \in 1 .. Len(queue) - 1 : queue'[i] = queue[i + 1]
      /\ Head(queue) = queue[1] /\ 1 \in DOMAIN queue
  <2>1. queue \in Seq(Handlers)
    BY <1>2 DEF Shape
  <2> QED BY <1>1, <2>1, HeadTailProperties, EmptySeq
<1>4. Head(queue) \in Handlers
  BY <1>3, QueuedIs
<1>5. Shape'
  <2>1. thread' \in [ThreadIds -> Handlers \cup {Idle}]
    BY <1>1, <1>2, <1>4 DEF Shape
  <2> QED BY <1>1, <1>2, <1>3, <2>1 DEF Shape
<1>6. \A d, K : Count(d, K)' = Count(d, K)
  BY <1>2, CountTaken
<1>7. Owned' /\ Chain' /\ Token' /\ Pending' /\ Answered'
  BY <1>1, <1>6 DEF ConnInv, Owned, Chain, Token, Pending, Answered
<1>8. StaySound
  <2>1. \A d \in Conns : arrived'[d] >= arrived[d]
    BY <1>1, <1>2 DEF Shape
  <2> QED BY <1>1, <1>5, <2>1, StaySoundIf DEF Shape
<1>9. ASSUME NEW i \in DOMAIN queue'
      PROVE  queue'[i].at = "start" /\ SoundNext(queue'[i])
  <2>1. i + 1 \in DOMAIN queue /\ queue'[i] = queue[i + 1]
    BY <1>3
  <2>2. queue[i + 1].at = "start" /\ SoundNext(queue[i + 1])
    BY <1>8, <2>1, QueuedIs DEF StaySound
  <2> QED BY <2>1, <2>2
<1>10. ASSUME NEW u \in ThreadIds, thread'[u] # Idle
       PROVE  SoundNext(thread'[u])
  <2>1. thread'[u] = IF u = t THEN queue[1] ELSE thread[u]
    BY <1>1, <1>2, <1>3 DEF Shape
  <2> QED BY <1>3, <1>8, <1>10, <2>1 DEF StaySound
<1>11. AllSound'
  BY <1>9, <1>10 DEF AllSound, Sound, SoundNext
<1> QED BY <1>5, <1>7, <1>11 DEF ConnInv

-----------------------------------------------------------------------------
(* The handlers.                                                           *)

\* What a thread changes when it goes to another step of a handler of c, apart
\* from what the step itself does.
LEMMA StepKeepsCounts ==
  ASSUME ConnInv, NEW t \in ThreadIds, NEW g \in Handlers, NEW h \in Handlers, Moves(t, g, h),
         h.op = g.op, h.conn = g.conn, NEW d \in Conns
  PROVE  /\ Count(d, Anything)' = Count(d, Anything)
         /\ Count(d, Accepted)' = Count(d, Accepted) - One(AtAccepted(g, d)) + One(AtAccepted(h, d))
         /\ Count(d, Chained)' = Count(d, Chained) - One(AtChained(g, d)) + One(AtChained(h, d))
         /\ Count(d, Writes)' = Count(d, Writes) - One(AtWrite(g, d)) + One(AtWrite(h, d))
         /\ Count(d, Anything) \in Nat /\ Count(d, Accepted) \in Nat
         /\ Count(d, Chained) \in Nat /\ Count(d, Writes) \in Nat
<1>1. /\ Count(d, Anything)' = Count(d, Anything) - One(g.conn = d) + One(h.conn = d)
      /\ Count(d, Accepted)' = Count(d, Accepted) - One(AtAccepted(g, d)) + One(AtAccepted(h, d))
      /\ Count(d, Chained)' = Count(d, Chained) - One(AtChained(g, d)) + One(AtChained(h, d))
      /\ Count(d, Writes)' = Count(d, Writes) - One(AtWrite(g, d)) + One(AtWrite(h, d))
  <2>1. Shape
    BY DEF ConnInv
  <2> QED BY <2>1, CountsStep
<1>2. /\ Count(d, Anything) \in Nat /\ Count(d, Accepted) \in Nat
      /\ Count(d, Chained) \in Nat /\ Count(d, Writes) \in Nat
  BY CountsAre DEF ConnInv
<1>3. Count(d, Anything)' = Count(d, Anything)
  BY <1>1, <1>2 DEF One
<1> QED BY <1>1, <1>2, <1>3

\* The thread itself is among what it counts.
LEMMA SelfCounted ==
  ASSUME ConnInv, NEW t \in ThreadIds, NEW g \in Handlers, g = thread[t]
  PROVE  /\ AtAccepted(g, g.conn) => Count(g.conn, Accepted) >= 1
         /\ AtChained(g, g.conn) => Count(g.conn, Chained) >= 1
         /\ AtWrite(g, g.conn) => Count(g.conn, Writes) >= 1
<1>1. \A K : Is(thread[t], g.conn, K) => Count(g.conn, K) >= 1
  BY Counted DEF ConnInv
<1>2. /\ AtAccepted(g, g.conn) => Is(g, g.conn, Accepted)
      /\ AtChained(g, g.conn) => Is(g, g.conn, Chained)
      /\ AtWrite(g, g.conn) => Is(g, g.conn, Writes)
  BY IsAre DEF AtAccepted, AtChained, AtWrite
<1> QED BY <1>1, <1>2

\* While a thread runs one of the steps that follow each other, no other handler
\* is at one for the same connection, and nothing of them is pending.
LEMMA ChainExclusive ==
  ASSUME ConnInv, NEW t \in ThreadIds, NEW g \in Handlers, g = thread[t], AtChained(g, g.conn)
  PROVE  /\ accepting # g.conn /\ ~reading[g.conn] /\ Count(g.conn, Chained) = 1
         /\ \A i \in DOMAIN queue : ~Is(queue[i], g.conn, Chained)
         /\ \A u \in ThreadIds \ {t} : ~Is(thread[u], g.conn, Chained)
<1>1. g.conn \in Conns
  BY DEF Handlers
<1>2. One(accepting = g.conn) + One(reading[g.conn]) + Count(g.conn, Chained) <= 1
  BY <1>1 DEF ConnInv, Chain
<1>3. Count(g.conn, Chained) >= 1 /\ Count(g.conn, Chained) \in Nat
  BY SelfCounted, CountsAre DEF ConnInv
<1>4. /\ One(accepting = g.conn) \in {0, 1} /\ One(reading[g.conn]) \in {0, 1}
  BY DEF One
<1>5. /\ One(accepting = g.conn) = 0 /\ One(reading[g.conn]) = 0 /\ Count(g.conn, Chained) = 1
  BY <1>2, <1>3, <1>4
<1>6. accepting # g.conn /\ ~reading[g.conn]
  BY <1>5 DEF One
<1>7. Is(thread[t], g.conn, Chained)
  BY IsAre DEF AtChained
<1>8. /\ \A i \in DOMAIN queue : ~Is(queue[i], g.conn, Chained)
      /\ \A u \in ThreadIds \ {t} : ~Is(thread[u], g.conn, Chained)
  <2>1. /\ \A i \in DOMAIN queue, u \in ThreadIds :
             Is(queue[i], g.conn, Chained) /\ Is(thread[u], g.conn, Chained) => Count(g.conn, Chained) >= 2
        /\ \A v, u \in ThreadIds :
             v # u /\ Is(thread[v], g.conn, Chained) /\ Is(thread[u], g.conn, Chained) => Count(g.conn, Chained) >= 2
    BY Counted DEF ConnInv
  <2>2. ~(Count(g.conn, Chained) >= 2)
    BY <1>5
  <2> QED BY <1>7, <2>1, <2>2
<1> QED BY <1>5, <1>6, <1>8

\* A handler returns: the last one to do so leaves nothing behind.
LEMMA ReturnsKeeps ==
  ASSUME ConnInv, NEW t \in ThreadIds, thread[t] # Idle, Returns(t)
  PROVE  ConnInv'
<1>1. PICK g \in Handlers : g = thread[t]
  BY RunningIs
<1>2. PICK c \in Conns : c = g.conn
  BY DEF Handlers
<1>3. Shape
  BY DEF ConnInv
<1>4. /\ thread' = [thread EXCEPT ![t] = Idle]
      /\ owners' = [owners EXCEPT ![c] = owners[c] - 1]
      /\ accepting' = accepting /\ queue' = queue /\ reading' = reading /\ writing' = writing
      /\ wired' = wired /\ stream' = stream /\ arrived' = arrived /\ taken' = taken
      /\ gone' = gone /\ done' = done /\ answers' = answers
      /\ owners'[c] > 0 => obj' = obj /\ sock' = sock
      /\ ~(owners'[c] > 0) => /\ obj' = [obj EXCEPT ![c] = "freed"]
                              /\ sock' = [sock EXCEPT ![c] = "closed"]
  BY <1>1, <1>2 DEF Returns, Conn, client
<1>5. owners[c] >= 1 /\ owners[c] \in Nat /\ obj[c] = "live" /\ Count(c, Anything) >= 1
  BY <1>1, <1>2, <1>3, RunningIs DEF Shape
<1>6. /\ owners' \in [Conns -> Nat] /\ owners'[c] = owners[c] - 1
      /\ \A d \in Conns : d # c => owners'[d] = owners[d]
  <2>1. owners \in [Conns -> Nat] /\ owners[c] - 1 \in Nat
    BY <1>3, <1>5 DEF Shape
  <2> QED BY <1>4, <2>1
<1>7. /\ obj' \in [Conns -> {"none", "live", "freed"}] /\ sock' \in [Conns -> {"open", "closed"}]
      /\ \A d \in Conns : d # c => obj'[d] = obj[d] /\ sock'[d] = sock[d]
      /\ ~(owners'[c] > 0) => obj'[c] = "freed"
  <2>1. obj \in [Conns -> {"none", "live", "freed"}] /\ sock \in [Conns -> {"open", "closed"}]
    BY <1>3 DEF Shape
  <2>2. CASE owners'[c] > 0
    BY <1>4, <2>1, <2>2
  <2>3. CASE ~(owners'[c] > 0)
    BY <1>4, <2>1, <2>3
  <2> QED BY <2>2, <2>3
<1>8. Shape'
  <2>1. thread' \in [ThreadIds -> Handlers \cup {Idle}]
    BY <1>3, <1>4 DEF Shape
  <2> QED BY <1>3, <1>4, <1>6, <1>7, <2>1 DEF Shape
<1>9. ASSUME NEW d \in Conns
      PROVE  /\ Count(d, Anything)' = Count(d, Anything) - One(c = d)
             /\ Count(d, Accepted)' <= Count(d, Accepted) /\ Count(d, Accepted)' \in Nat
             /\ Count(d, Chained)' <= Count(d, Chained) /\ Count(d, Chained)' \in Nat
             /\ Count(d, Writes)' <= Count(d, Writes) /\ Count(d, Writes)' \in Nat
             /\ Count(d, Anything) \in Nat /\ Count(d, Accepted) \in Nat
             /\ Count(d, Chained) \in Nat /\ Count(d, Writes) \in Nat
  <2>1. /\ Count(d, Anything) \in Nat /\ Count(d, Accepted) \in Nat
        /\ Count(d, Chained) \in Nat /\ Count(d, Writes) \in Nat
    BY <1>3, CountsAre
  <2>2. /\ Count(d, Anything)' = Count(d, Anything) - One(g.conn = d)
        /\ Count(d, Accepted)' = Count(d, Accepted) - One(AtAccepted(g, d))
        /\ Count(d, Chained)' = Count(d, Chained) - One(AtChained(g, d))
        /\ Count(d, Writes)' = Count(d, Writes) - One(AtWrite(g, d))
    <3>1. Moves(t, g, Idle)
      BY <1>1, <1>4 DEF Moves
    <3> QED BY <1>1, <1>3, <3>1, CountsReturn
  <2>3. /\ AtAccepted(g, d) => Count(d, Accepted) >= 1
        /\ AtChained(g, d) => Count(d, Chained) >= 1
        /\ AtWrite(g, d) => Count(d, Writes) >= 1
    <3>1. CASE d = g.conn
      BY <1>1, <3>1, SelfCounted
    <3>2. CASE d # g.conn
      BY <3>2 DEF AtAccepted, AtChained, AtWrite
    <3> QED BY <3>1, <3>2
  <2> QED BY <1>2, <2>1, <2>2, <2>3 DEF One
<1>10. ASSUME NEW d \in Conns
       PROVE  /\ owners'[d] = One(accepting' = d) + One(reading'[d]) + writing'[d] + Count(d, Anything)'
              /\ obj'[d] = "live" <=> owners'[d] > 0
              /\ One(accepting' = d) + One(reading'[d]) + Count(d, Chained)' <= 1
  <2>1. /\ owners[d] = One(accepting = d) + One(reading[d]) + writing[d] + Count(d, Anything)
        /\ obj[d] = "live" <=> owners[d] > 0
        /\ One(accepting = d) + One(reading[d]) + Count(d, Chained) <= 1
        /\ writing[d] \in Nat /\ owners[d] \in Nat
    BY <1>3 DEF ConnInv, Owned, Chain, Shape
  <2>2. One(reading[d]) \in Nat /\ One(accepting = d) \in Nat
    BY DEF One
  <2>3. owners'[d] = owners[d] - One(c = d)
    BY <1>6, <2>1 DEF One
  <2>4. owners'[d] = One(accepting = d) + One(reading[d]) + writing[d] + Count(d, Anything)'
    <3>1. One(c = d) \in Nat
      BY DEF One
    <3> QED BY <1>9, <2>1, <2>2, <2>3, <3>1
  <2>5. One(accepting = d) + One(reading[d]) + Count(d, Chained)' <= 1
    BY <1>9, <2>1, <2>2
  <2>6. obj'[d] = "live" <=> owners'[d] > 0
    <3>1. CASE d # c
      BY <1>6, <1>7, <2>1, <3>1
    <3>2. CASE d = c
      BY <1>4, <1>5, <1>7, <3>2
    <3> QED BY <3>1, <3>2
  <2> QED BY <1>4, <2>4, <2>5, <2>6
<1>11. Owned' /\ Chain'
  BY <1>10 DEF Owned, Chain
<1>12. Token'
  <2>1. \A d \in Conns : owners[d] = 0 => owners'[d] = 0 /\ done'[d] = done[d]
    BY <1>4, <1>5, <1>6
  <2>2. \A d \in Conns : One(accepting' = d) + Count(d, Accepted)'
                            <= One(accepting = d) + Count(d, Accepted)
    BY <1>4, <1>9 DEF One
  <2> QED BY <1>4, <1>9, <2>1, <2>2, TokenKept
<1>13. CASE owners'[c] > 0
  <2>1. sock' = sock /\ obj' = obj
    BY <1>4, <1>13
  <2>2. StaySound
    <3>1. \A d \in Conns : arrived'[d] >= arrived[d]
      BY <1>3, <1>4 DEF Shape
    <3> QED BY <1>4, <1>8, <2>1, <3>1, StaySoundIf DEF Shape
  <2>3. AllSound'
    BY <1>4, <2>2, SoundStep DEF StaySound, OthersStaySound
  <2>4. Pending'
    BY <1>4 DEF ConnInv, Pending
  <2>5. Answered'
    <3> SUFFICES ASSUME NEW d \in Conns
                 PROVE  Count(d, Writes)' + writing[d] <= done[d]
      BY <1>4, <2>1 DEF ConnInv, Answered
    <3>1. Count(d, Writes) + writing[d] <= done[d] /\ writing[d] \in Nat /\ done[d] \in Nat
      BY <1>3 DEF ConnInv, Answered, Shape
    <3> QED BY <1>9, <3>1
  <2> QED BY <1>8, <1>11, <1>12, <2>3, <2>4, <2>5 DEF ConnInv
<1>14. CASE ~(owners'[c] > 0)
  <2>1. owners'[c] = 0 /\ owners[c] = 1
    BY <1>5, <1>6, <1>14
  <2>2. writing[c] = 0 /\ Count(c, Anything) = 1
    <3>1. owners[c] = One(accepting = c) + One(reading[c]) + writing[c] + Count(c, Anything)
      BY DEF ConnInv, Owned
    <3>2. writing[c] \in Nat /\ Count(c, Anything) \in Nat
      BY <1>3, CountsAre DEF Shape
    <3> QED BY <1>5, <2>1, <3>1, <3>2 DEF One
  <2>3. /\ \A i \in DOMAIN queue : queue[i].conn # c
        /\ \A u \in ThreadIds \ {t} : thread[u] # Idle => thread[u].conn # c
    <3>1. Is(thread[t], c, Anything)
      BY <1>1, <1>2, IsAre
    <3>2. /\ \A i \in DOMAIN queue, u \in ThreadIds :
               Is(queue[i], c, Anything) /\ Is(thread[u], c, Anything) => Count(c, Anything) >= 2
          /\ \A v, u \in ThreadIds :
               v # u /\ Is(thread[v], c, Anything) /\ Is(thread[u], c, Anything) => Count(c, Anything) >= 2
      BY <1>3, Counted
    <3>3. /\ \A i \in DOMAIN queue : ~Is(queue[i], c, Anything)
          /\ \A u \in ThreadIds \ {t} : ~Is(thread[u], c, Anything)
      BY <2>2, <3>1, <3>2
    <3> QED BY <3>3, IsAre, QueuedIs, RunningIs
  <2>4. OthersStaySound(t)
    <3>1. ASSUME NEW x \in Handlers, Sound(x), x.conn # c
          PROVE  SoundNext(x)
      <4>1. x.conn \in Conns
        BY DEF Handlers
      <4>2. sock'[x.conn] = sock[x.conn]
        BY <1>7, <3>1, <4>1
      <4> QED BY <1>4, <3>1, <4>2 DEF Sound, SoundNext, SoundIn
    <3> QED BY <2>3, <3>1, QueuedIs, RunningIs DEF OthersStaySound
  <2>5. AllSound'
    BY <1>4, <2>4, SoundStep
  <2>6. Pending'
    BY <1>4 DEF ConnInv, Pending
  <2>7. Answered'
    <3> SUFFICES ASSUME NEW d \in Conns
                 PROVE  /\ Count(d, Writes)' + writing[d] <= done[d]
                        /\ ~gone[d] /\ sock'[d] = "closed" => writing[d] = 0
      BY <1>4 DEF ConnInv, Answered
    <3>1. /\ Count(d, Writes) + writing[d] <= done[d] /\ writing[d] \in Nat /\ done[d] \in Nat
          /\ ~gone[d] /\ sock[d] = "closed" => writing[d] = 0
      BY <1>3 DEF ConnInv, Answered, Shape
    <3>2. ~gone[d] /\ sock'[d] = "closed" => writing[d] = 0
      BY <1>7, <2>2, <3>1
    <3> QED BY <1>9, <3>1, <3>2
  <2> QED BY <1>8, <1>11, <1>12, <2>5, <2>6, <2>7 DEF ConnInv
<1> QED BY <1>13, <1>14

\* No step is counted more often than all steps are.
LEMMA CountLess ==
  ASSUME Shape, NEW d, NEW K
  PROVE  Count(d, K) <= Count(d, Anything)
<1>1. /\ IsFiniteSet(Queued(d, Anything)) /\ IsFiniteSet(Running(d, Anything))
      /\ Cardinality(Queued(d, K)) \in Nat /\ Cardinality(Running(d, K)) \in Nat
      /\ Cardinality(Queued(d, Anything)) \in Nat /\ Cardinality(Running(d, Anything)) \in Nat
  BY Countable
<1>2. ASSUME NEW h \in Handlers \cup {Idle}, Is(h, d, K)
      PROVE  Is(h, d, Anything)
  <2>1. h \in Handlers /\ h.conn = d
    BY <1>2 DEF Is
  <2> QED BY <2>1, IsAre
<1>3. Queued(d, K) \in SUBSET Queued(d, Anything)
  <2>1. \A i \in DOMAIN queue : queue[i] \in Handlers
    BY DEF Shape
  <2> QED BY <1>2, <2>1 DEF Queued
<1>4. Running(d, K) \in SUBSET Running(d, Anything)
  <2>1. \A t \in ThreadIds : thread[t] \in Handlers \cup {Idle}
    BY DEF Shape
  <2> QED BY <1>2, <2>1 DEF Running
<1>5. /\ Cardinality(Queued(d, K)) <= Cardinality(Queued(d, Anything))
      /\ Cardinality(Running(d, K)) <= Cardinality(Running(d, Anything))
  BY <1>1, <1>3, <1>4, FS_Subset
<1> QED BY <1>1, <1>5 DEF Count

\* A step of HandleAccept: the next connection is made, and the accept is for it.
LEMMA HandleAcceptKeeps ==
  ASSUME ConnInv, NEW t \in ThreadIds, HandleAccept(t)
  PROVE  ConnInv'
<1>1. PICK g \in Handlers : g = thread[t] /\ g.op = "accept" /\ g.at = "start" /\ Sound(g)
  BY RunningIs DEF HandleAccept, At
<1>2. PICK c \in Conns : c = g.conn
  BY DEF Handlers
<1>3. Shape
  BY DEF ConnInv
<1>4. c <= MaxAccepts /\ done[c] = 0
  BY <1>1, <1>2 DEF Sound, SoundIn
<1>5. PICK n \in Conns : n = c + 1
  BY <1>4, MaxAcceptsAssumption DEF Conns
<1>6. PICK h \in Handlers :
        /\ thread' = [thread EXCEPT ![t] = h]
        /\ h.op = "accept" /\ h.conn = c /\ h.at = "wire"
  <2>1. GoesTo(t, "wire") /\ "wire" \in Steps
    BY DEF HandleAccept, Steps
  <2> QED BY <1>1, <1>2, <1>3, <2>1, GoesToIs
<1>7. /\ accepting' = n
      /\ obj' = [obj EXCEPT ![n] = "live"]
      /\ owners' = [owners EXCEPT ![n] = owners[n] + 1]
      /\ wired' = wired /\ queue' = queue /\ sock' = sock /\ reading' = reading
      /\ writing' = writing /\ stream' = stream /\ arrived' = arrived /\ taken' = taken
      /\ gone' = gone /\ done' = done /\ answers' = answers
  BY <1>1, <1>2, <1>5 DEF HandleAccept, Conn, Bound, client
<1>8. Moves(t, g, h)
  BY <1>1, <1>6, <1>7 DEF Moves
<1>9. c \in Nat /\ n \in Nat /\ n # c /\ n # None /\ c # None /\ \A d \in Conns : d \in Nat /\ d # None
  BY <1>5, MaxAcceptsAssumption DEF Conns, None
<1>10. /\ accepting = None /\ Count(c, Accepted) = 1
       /\ \A d \in Conns : /\ d # c => Count(d, Accepted) = 0
                           /\ d > c => owners[d] = 0 /\ done[d] = 0
  <2>1. PICK m \in Conns :
          /\ accepting \in {m, None}
          /\ One(accepting = m) + Count(m, Accepted) <= 1
          /\ \A d \in Conns : /\ d # m => Count(d, Accepted) = 0
                              /\ d > m => owners[d] = 0 /\ done[d] = 0
    BY DEF ConnInv, Token
  <2>2. Count(c, Accepted) >= 1 /\ Count(c, Accepted) \in Nat
    <3>1. AtAccepted(g, g.conn)
      BY <1>1 DEF AtAccepted
    <3> QED BY <1>1, <1>2, <1>3, <3>1, SelfCounted, CountsAre
  <2>3. m = c
    BY <2>1, <2>2
  <2>4. One(accepting = c) \in {0, 1} /\ (accepting = c => One(accepting = c) = 1)
    BY DEF One
  <2>5. accepting # c /\ Count(c, Accepted) = 1
    BY <2>1, <2>2, <2>3, <2>4
  <2> QED BY <2>1, <2>3, <2>5
<1>11. owners[n] = 0 /\ done[n] = 0
  BY <1>5, <1>9, <1>10
<1>12. /\ reading[n] = FALSE /\ writing[n] = 0
       /\ Count(n, Anything) = 0 /\ Count(n, Chained) = 0 /\ Count(n, Writes) = 0
  <2>1. owners[n] = One(accepting = n) + One(reading[n]) + writing[n] + Count(n, Anything)
    BY DEF ConnInv, Owned
  <2>2. /\ Count(n, Anything) \in Nat /\ Count(n, Chained) \in Nat /\ Count(n, Writes) \in Nat
        /\ writing[n] \in Nat /\ reading[n] \in BOOLEAN
    BY <1>3, CountsAre DEF Shape
  <2>3. /\ One(accepting = n) \in {0, 1} /\ One(reading[n]) \in {0, 1}
        /\ reading[n] => One(reading[n]) = 1
    BY DEF One
  <2>4. One(reading[n]) = 0 /\ writing[n] = 0 /\ Count(n, Anything) = 0
    BY <1>11, <2>1, <2>2, <2>3
  <2>5. Count(n, Chained) <= Count(n, Anything) /\ Count(n, Writes) <= Count(n, Anything)
    BY <1>3, CountLess
  <2> QED BY <2>2, <2>3, <2>4, <2>5
<1>13. Shape'
  <2>1. /\ owners' \in [Conns -> Nat] /\ obj' \in [Conns -> {"none", "live", "freed"}]
        /\ thread' \in [ThreadIds -> Handlers \cup {Idle}]
    BY <1>3, <1>6, <1>7 DEF Shape
  <2> QED BY <1>3, <1>7, <2>1 DEF Shape
<1>14. ASSUME NEW d \in Conns
       PROVE  /\ Count(d, Anything)' = Count(d, Anything)
              /\ Count(d, Accepted)' = 0
              /\ Count(d, Chained)' = Count(d, Chained)
              /\ Count(d, Writes)' = Count(d, Writes)
              /\ Count(d, Anything) \in Nat /\ Count(d, Chained) \in Nat /\ Count(d, Writes) \in Nat
  <2>1. /\ One(AtAccepted(g, d)) = One(c = d) /\ One(AtAccepted(h, d)) = 0
        /\ One(AtChained(g, d)) = One(c = d) /\ One(AtChained(h, d)) = One(c = d)
        /\ One(AtWrite(g, d)) = 0 /\ One(AtWrite(h, d)) = 0
    BY <1>1, <1>2, <1>6 DEF One, AtAccepted, AtChained, AtWrite
  <2>2. /\ Count(d, Anything)' = Count(d, Anything)
        /\ Count(d, Accepted)' = Count(d, Accepted) - One(AtAccepted(g, d)) + One(AtAccepted(h, d))
        /\ Count(d, Chained)' = Count(d, Chained) - One(AtChained(g, d)) + One(AtChained(h, d))
        /\ Count(d, Writes)' = Count(d, Writes) - One(AtWrite(g, d)) + One(AtWrite(h, d))
        /\ Count(d, Anything) \in Nat /\ Count(d, Accepted) \in Nat
        /\ Count(d, Chained) \in Nat /\ Count(d, Writes) \in Nat
    BY <1>1, <1>2, <1>6, <1>8, StepKeepsCounts
  <2>3. One(c = d) \in {0, 1} /\ Count(d, Accepted) = One(c = d)
    BY <1>10 DEF One
  <2> QED BY <2>1, <2>2, <2>3
<1>15. ASSUME NEW d \in Conns
       PROVE  /\ owners'[d] = One(accepting' = d) + One(reading'[d]) + writing'[d] + Count(d, Anything)'
              /\ obj'[d] = "live" <=> owners'[d] > 0
              /\ One(accepting' = d) + One(reading'[d]) + Count(d, Chained)' <= 1
  <2>1. /\ owners[d] = One(accepting = d) + One(reading[d]) + writing[d] + Count(d, Anything)
        /\ obj[d] = "live" <=> owners[d] > 0
        /\ One(accepting = d) + One(reading[d]) + Count(d, Chained) <= 1
        /\ writing[d] \in Nat
    BY <1>3 DEF ConnInv, Owned, Chain, Shape
  <2>2. CASE d = n
    <3>1. owners'[d] = 1 /\ obj'[d] = "live" /\ One(accepting' = d) = 1 /\ One(reading'[d]) = 0
      BY <1>3, <1>7, <1>11, <1>12, <2>2 DEF Shape, One
    <3> QED BY <1>7, <1>12, <1>14, <2>2, <3>1
  <2>3. CASE d # n
    <3>1. owners'[d] = owners[d] /\ obj'[d] = obj[d]
      BY <1>3, <1>7, <2>3 DEF Shape
    <3>2. One(accepting' = d) = One(accepting = d)
      BY <1>7, <1>9, <1>10, <2>3 DEF One
    <3> QED BY <1>7, <1>14, <2>1, <3>1, <3>2
  <2> QED BY <2>2, <2>3
<1>16. Owned' /\ Chain'
  BY <1>15 DEF Owned, Chain
<1>17. Token'
  <2>1. One(accepting' = n) + Count(n, Accepted)' <= 1
    BY <1>14 DEF One
  <2>2. ASSUME NEW d \in Conns, d > n
        PROVE  owners'[d] = 0 /\ done'[d] = 0
    <3>1. d > c /\ d # n
      BY <1>5, <1>9, <2>2
    <3>2. owners'[d] = owners[d]
      BY <1>3, <1>7, <3>1 DEF Shape
    <3> QED BY <1>7, <1>10, <3>1, <3>2
  <2> QED BY <1>7, <1>14, <2>1, <2>2 DEF Token
<1>18. StaySound
  <2>1. \A d \in Conns : arrived'[d] >= arrived[d]
    BY <1>3, <1>7 DEF Shape
  <2> QED BY <1>7, <1>13, <2>1, StaySoundIf DEF Shape
<1>19. AllSound'
  <2>1. SoundNext(h)
    BY <1>4, <1>6, <1>7 DEF SoundNext, SoundIn
  <2> QED BY <1>6, <1>7, <1>18, <2>1, SoundStep DEF StaySound, OthersStaySound
<1>20. Pending'
  BY <1>7, <1>11 DEF ConnInv, Pending
<1>21. Answered'
  BY <1>7, <1>14 DEF ConnInv, Answered
<1> QED BY <1>13, <1>16, <1>17, <1>19, <1>20, <1>21 DEF ConnInv

\* A step of HandleAccept: callbacks and context are set.
LEMMA SetCallbacksKeeps ==
  ASSUME ConnInv, NEW t \in ThreadIds, SetCallbacks(t)
  PROVE  ConnInv'
<1>1. PICK g \in Handlers : g = thread[t] /\ g.op = "accept" /\ g.at = "wire" /\ Sound(g)
  BY RunningIs DEF SetCallbacks, At
<1>2. PICK c \in Conns : c = g.conn
  BY DEF Handlers
<1>3. Shape
  BY DEF ConnInv
<1>4. c <= MaxAccepts /\ done[c] = 0
  BY <1>1, <1>2 DEF Sound, SoundIn
<1>5. PICK h \in Handlers :
        /\ thread' = [thread EXCEPT ![t] = h]
        /\ h.op = "accept" /\ h.conn = c /\ h.at = "open"
  <2>1. GoesTo(t, "open") /\ "open" \in Steps
    BY DEF SetCallbacks, Steps
  <2> QED BY <1>1, <1>2, <1>3, <2>1, GoesToIs
<1>6. /\ wired' = [wired EXCEPT ![c] = TRUE]
      /\ accepting' = accepting /\ queue' = queue /\ sock' = sock /\ reading' = reading
      /\ writing' = writing /\ obj' = obj /\ owners' = owners
      /\ stream' = stream /\ arrived' = arrived /\ taken' = taken
      /\ gone' = gone /\ done' = done /\ answers' = answers
  BY <1>1, <1>2 DEF SetCallbacks, Conn, io, client
<1>7. wired' \in [Conns -> BOOLEAN] /\ wired'[c] /\ \A d \in Conns : wired[d] => wired'[d]
  BY <1>3, <1>6 DEF Shape
<1>8. Shape'
  <2>1. thread' \in [ThreadIds -> Handlers \cup {Idle}]
    BY <1>3, <1>5 DEF Shape
  <2> QED BY <1>3, <1>6, <1>7, <2>1 DEF Shape
<1>9. ASSUME NEW d \in Conns
      PROVE  /\ Count(d, Anything)' = Count(d, Anything)
             /\ Count(d, Accepted)' = Count(d, Accepted)
             /\ Count(d, Chained)' = Count(d, Chained)
             /\ Count(d, Writes)' = Count(d, Writes)
  <2>1. /\ One(AtAccepted(g, d)) = 0 /\ One(AtAccepted(h, d)) = 0
        /\ One(AtChained(g, d)) = One(c = d) /\ One(AtChained(h, d)) = One(c = d)
        /\ One(AtWrite(g, d)) = 0 /\ One(AtWrite(h, d)) = 0
    BY <1>1, <1>2, <1>5 DEF One, AtAccepted, AtChained, AtWrite
  <2>2. Moves(t, g, h)
    BY <1>1, <1>5, <1>6 DEF Moves
  <2>3. /\ Count(d, Anything)' = Count(d, Anything)
        /\ Count(d, Accepted)' = Count(d, Accepted) - One(AtAccepted(g, d)) + One(AtAccepted(h, d))
        /\ Count(d, Chained)' = Count(d, Chained) - One(AtChained(g, d)) + One(AtChained(h, d))
        /\ Count(d, Writes)' = Count(d, Writes) - One(AtWrite(g, d)) + One(AtWrite(h, d))
        /\ Count(d, Accepted) \in Nat /\ Count(d, Chained) \in Nat /\ Count(d, Writes) \in Nat
    BY <1>1, <1>2, <1>5, <2>2, StepKeepsCounts
  <2>4. One(c = d) \in {0, 1}
    BY DEF One
  <2> QED BY <2>1, <2>3, <2>4
<1>10. Owned' /\ Chain' /\ Token' /\ Answered'
  BY <1>6, <1>9 DEF ConnInv, Owned, Chain, Token, Answered
<1>11. Pending'
  BY <1>6, <1>7 DEF ConnInv, Pending
<1>12. StaySound
  <2>1. \A d \in Conns : arrived'[d] >= arrived[d]
    BY <1>3, <1>6 DEF Shape
  <2> QED BY <1>6, <1>7, <1>8, <2>1, StaySoundIf DEF Shape
<1>13. AllSound'
  <2>1. SoundNext(h)
    BY <1>4, <1>5, <1>6, <1>7 DEF SoundNext, SoundIn
  <2> QED BY <1>5, <1>6, <1>12, <2>1, SoundStep DEF StaySound, OthersStaySound
<1> QED BY <1>8, <1>10, <1>11, <1>13 DEF ConnInv

\* A step of HandleAccept: the read takes the place of the handler.
LEMMA OnNewConnectionKeeps ==
  ASSUME ConnInv, NEW t \in ThreadIds, OnNewConnection(t)
  PROVE  ConnInv'
<1>1. PICK g \in Handlers : g = thread[t] /\ g.op = "accept" /\ g.at = "open" /\ Sound(g)
  BY RunningIs DEF OnNewConnection, At
<1>2. PICK c \in Conns : c = g.conn
  BY DEF Handlers
<1>3. Shape
  BY DEF ConnInv
<1>4. c <= MaxAccepts /\ done[c] = 0 /\ wired[c]
  BY <1>1, <1>2 DEF Sound, SoundIn
<1>5. PICK h \in Handlers :
        /\ thread' = [thread EXCEPT ![t] = h]
        /\ h.op = "accept" /\ h.conn = c /\ h.at = "return"
  <2>1. GoesTo(t, "return") /\ "return" \in Steps
    BY DEF OnNewConnection, Steps
  <2> QED BY <1>1, <1>2, <1>3, <2>1, GoesToIs
<1>6. /\ reading' = [reading EXCEPT ![c] = TRUE]
      /\ owners' = [owners EXCEPT ![c] = owners[c] + 1]
      /\ accepting' = accepting /\ queue' = queue /\ sock' = sock
      /\ writing' = writing /\ obj' = obj /\ wired' = wired
      /\ stream' = stream /\ arrived' = arrived /\ taken' = taken
      /\ gone' = gone /\ done' = done /\ answers' = answers
  BY <1>1, <1>2 DEF OnNewConnection, Conn, Bound, client
<1>7. /\ reading' \in [Conns -> BOOLEAN] /\ owners' \in [Conns -> Nat]
      /\ reading'[c] /\ owners'[c] = owners[c] + 1
      /\ \A d \in Conns : d # c => reading'[d] = reading[d] /\ owners'[d] = owners[d]
  BY <1>3, <1>6 DEF Shape
<1>8. Shape'
  <2>1. thread' \in [ThreadIds -> Handlers \cup {Idle}]
    BY <1>3, <1>5 DEF Shape
  <2> QED BY <1>3, <1>6, <1>7, <2>1 DEF Shape
<1>9. ASSUME NEW d \in Conns
      PROVE  /\ Count(d, Anything)' = Count(d, Anything)
             /\ Count(d, Accepted)' = Count(d, Accepted)
             /\ Count(d, Chained)' = Count(d, Chained) - One(c = d)
             /\ Count(d, Writes)' = Count(d, Writes)
             /\ Count(d, Anything) \in Nat /\ Count(d, Accepted) \in Nat
             /\ Count(d, Chained) \in Nat /\ Count(d, Writes) \in Nat
             /\ One(c = d) \in {0, 1}
  <2>1. /\ One(AtAccepted(g, d)) = 0 /\ One(AtAccepted(h, d)) = 0
        /\ One(AtChained(g, d)) = One(c = d) /\ One(AtChained(h, d)) = 0
        /\ One(AtWrite(g, d)) = 0 /\ One(AtWrite(h, d)) = 0
    BY <1>1, <1>2, <1>5 DEF One, AtAccepted, AtChained, AtWrite
  <2>2. Moves(t, g, h)
    BY <1>1, <1>5, <1>6 DEF Moves
  <2>3. /\ Count(d, Anything)' = Count(d, Anything)
        /\ Count(d, Accepted)' = Count(d, Accepted) - One(AtAccepted(g, d)) + One(AtAccepted(h, d))
        /\ Count(d, Chained)' = Count(d, Chained) - One(AtChained(g, d)) + One(AtChained(h, d))
        /\ Count(d, Writes)' = Count(d, Writes) - One(AtWrite(g, d)) + One(AtWrite(h, d))
        /\ Count(d, Anything) \in Nat /\ Count(d, Accepted) \in Nat
        /\ Count(d, Chained) \in Nat /\ Count(d, Writes) \in Nat
    BY <1>1, <1>2, <1>5, <2>2, StepKeepsCounts
  <2>4. One(c = d) \in {0, 1}
    BY DEF One
  <2> QED BY <2>1, <2>3, <2>4
<1>10. ~reading[c] /\ owners[c] > 0
  <2>1. AtChained(g, g.conn)
    BY <1>1 DEF AtChained
  <2>2. owners[c] >= 1 /\ owners[c] \in Nat
    BY <1>1, <1>2, <1>3, RunningIs, IsAre DEF Shape
  <2> QED BY <1>1, <1>2, <2>1, <2>2, ChainExclusive
<1>11. ASSUME NEW d \in Conns
       PROVE  One(reading'[d]) = One(reading[d]) + One(c = d) /\ owners'[d] = owners[d] + One(c = d)
  <2>1. owners[d] \in Nat
    BY <1>3 DEF Shape
  <2> QED BY <1>7, <1>10, <2>1 DEF One
<1>12. ASSUME NEW d \in Conns
       PROVE  /\ owners'[d] = One(accepting' = d) + One(reading'[d]) + writing'[d] + Count(d, Anything)'
              /\ obj'[d] = "live" <=> owners'[d] > 0
              /\ One(accepting' = d) + One(reading'[d]) + Count(d, Chained)' <= 1
  <2>1. /\ owners[d] = One(accepting = d) + One(reading[d]) + writing[d] + Count(d, Anything)
        /\ obj[d] = "live" <=> owners[d] > 0
        /\ One(accepting = d) + One(reading[d]) + Count(d, Chained) <= 1
        /\ writing[d] \in Nat /\ owners[d] \in Nat
    BY <1>3 DEF ConnInv, Owned, Chain, Shape
  <2>2. One(accepting = d) \in {0, 1} /\ One(reading[d]) \in {0, 1}
    BY DEF One
  <2>3. owners'[d] = One(accepting = d) + One(reading'[d]) + writing[d] + Count(d, Anything)'
    BY <1>9, <1>11, <2>1, <2>2
  <2>4. One(accepting = d) + One(reading'[d]) + Count(d, Chained)' <= 1
    BY <1>9, <1>11, <2>1, <2>2
  <2>5. owners[d] > 0 <=> owners'[d] > 0
    BY <1>7, <1>10, <2>1
  <2> QED BY <1>6, <2>1, <2>3, <2>4, <2>5
<1>13. Owned' /\ Chain'
  BY <1>12 DEF Owned, Chain
<1>14. Token'
  <2>1. \A d \in Conns : owners[d] = 0 => owners'[d] = 0 /\ done'[d] = done[d]
    BY <1>6, <1>7, <1>10
  <2>2. \A d \in Conns : One(accepting' = d) + Count(d, Accepted)'
                            <= One(accepting = d) + Count(d, Accepted)
    BY <1>6, <1>9 DEF One
  <2> QED BY <1>6, <1>9, <2>1, <2>2, TokenKept
<1>15. StaySound
  <2>1. \A d \in Conns : arrived'[d] >= arrived[d]
    BY <1>3, <1>6 DEF Shape
  <2> QED BY <1>6, <1>8, <2>1, StaySoundIf DEF Shape
<1>16. AllSound'
  <2>1. SoundNext(h)
    BY <1>4, <1>5, <1>6 DEF SoundNext, SoundIn
  <2> QED BY <1>5, <1>6, <1>15, <2>1, SoundStep DEF StaySound, OthersStaySound
<1>17. Pending'
  BY <1>4, <1>6, <1>7 DEF ConnInv, Pending
<1>18. Answered'
  BY <1>6, <1>9 DEF ConnInv, Answered
<1> QED BY <1>8, <1>13, <1>14, <1>16, <1>17, <1>18 DEF ConnInv

\* A failed read or write: the socket is closed, if it was not, and only if the
\* client is gone.
LEMMA OnConnectionErrorKeeps ==
  ASSUME ConnInv, NEW t \in ThreadIds, OnConnectionError(t)
  PROVE  ConnInv'
<1>1. PICK g \in Handlers : /\ g = thread[t] /\ g.op \in {"read", "write"} /\ g.at = "start"
                            /\ g.ec /\ Sound(g)
  BY RunningIs DEF OnConnectionError, At
<1>2. PICK c \in Conns : c = g.conn
  BY DEF Handlers
<1>3. Shape
  BY DEF ConnInv
<1>4. wired[c] /\ (gone[c] \/ sock[c] = "closed")
  BY <1>1, <1>2 DEF Sound, SoundIn
<1>5. PICK h \in Handlers :
        /\ thread' = [thread EXCEPT ![t] = h]
        /\ h.op = g.op /\ h.conn = c /\ h.at = "return"
  <2>1. GoesTo(t, "return") /\ "return" \in Steps
    BY DEF OnConnectionError, Steps
  <2> QED BY <1>1, <1>2, <1>3, <2>1, GoesToIs
<1>6. /\ sock' = [sock EXCEPT ![c] = "closed"]
      /\ accepting' = accepting /\ queue' = queue /\ reading' = reading
      /\ writing' = writing /\ obj' = obj /\ owners' = owners /\ wired' = wired
      /\ stream' = stream /\ arrived' = arrived /\ taken' = taken
      /\ gone' = gone /\ done' = done /\ answers' = answers
  BY <1>1, <1>2 DEF OnConnectionError, Conn, conn, client
<1>7. /\ sock' \in [Conns -> {"open", "closed"}]
      /\ \A d \in Conns : sock'[d] = sock[d] \/ (gone[d] /\ d = c /\ sock'[d] = "closed")
  <2>1. sock \in [Conns -> {"open", "closed"}]
    BY <1>3 DEF Shape
  <2> QED BY <1>4, <1>6, <2>1
<1>8. Shape'
  <2>1. thread' \in [ThreadIds -> Handlers \cup {Idle}]
    BY <1>3, <1>5 DEF Shape
  <2> QED BY <1>3, <1>6, <1>7, <2>1 DEF Shape
<1>9. ASSUME NEW d \in Conns
      PROVE  /\ Count(d, Anything)' = Count(d, Anything)
             /\ Count(d, Accepted)' = Count(d, Accepted)
             /\ Count(d, Chained)' <= Count(d, Chained) /\ Count(d, Chained)' \in Int
             /\ Count(d, Writes)' <= Count(d, Writes) /\ Count(d, Writes)' \in Int
             /\ Count(d, Anything) \in Nat /\ Count(d, Accepted) \in Nat
             /\ Count(d, Chained) \in Nat /\ Count(d, Writes) \in Nat
  <2>1. /\ One(AtAccepted(g, d)) = 0 /\ One(AtAccepted(h, d)) = 0
        /\ One(AtChained(g, d)) \in {0, 1} /\ One(AtChained(h, d)) = 0
        /\ One(AtWrite(g, d)) \in {0, 1} /\ One(AtWrite(h, d)) = 0
    BY <1>1, <1>2, <1>5 DEF One, AtAccepted, AtChained, AtWrite
  <2>2. Moves(t, g, h)
    BY <1>1, <1>5, <1>6 DEF Moves
  <2>3. /\ Count(d, Anything)' = Count(d, Anything)
        /\ Count(d, Accepted)' = Count(d, Accepted) - One(AtAccepted(g, d)) + One(AtAccepted(h, d))
        /\ Count(d, Chained)' = Count(d, Chained) - One(AtChained(g, d)) + One(AtChained(h, d))
        /\ Count(d, Writes)' = Count(d, Writes) - One(AtWrite(g, d)) + One(AtWrite(h, d))
        /\ Count(d, Anything) \in Nat /\ Count(d, Accepted) \in Nat
        /\ Count(d, Chained) \in Nat /\ Count(d, Writes) \in Nat
    BY <1>1, <1>2, <1>5, <2>2, StepKeepsCounts
  <2> QED BY <2>1, <2>3
<1>10. Owned' /\ Token' /\ Pending'
  BY <1>6, <1>9 DEF ConnInv, Owned, Token, Pending
<1>11. Chain'
  <2> SUFFICES ASSUME NEW d \in Conns
               PROVE  One(accepting = d) + One(reading[d]) + Count(d, Chained)' <= 1
    BY <1>6 DEF Chain
  <2>1. One(accepting = d) + One(reading[d]) + Count(d, Chained) <= 1
    BY DEF ConnInv, Chain
  <2>2. One(accepting = d) \in {0, 1} /\ One(reading[d]) \in {0, 1}
    BY DEF One
  <2> QED BY <1>9, <2>1, <2>2
<1>12. OthersStaySound(t)
  <2>1. ASSUME NEW x \in Handlers, Sound(x)
        PROVE  SoundNext(x)
    <3>1. x.conn \in Conns
      BY DEF Handlers
    <3>2. sock'[x.conn] = sock[x.conn] \/ (gone[x.conn] /\ sock'[x.conn] = "closed")
      BY <1>7, <3>1
    <3> QED BY <1>6, <2>1, <3>2 DEF Sound, SoundNext, SoundIn
  <2> QED BY <2>1, QueuedIs, RunningIs DEF OthersStaySound
<1>13. AllSound'
  <2>1. SoundNext(h)
    BY <1>1, <1>4, <1>5, <1>6 DEF SoundNext, SoundIn
  <2> QED BY <1>5, <1>6, <1>12, <2>1, SoundStep
<1>14. Answered'
  <2> SUFFICES ASSUME NEW d \in Conns
               PROVE  /\ Count(d, Writes)' + writing[d] <= done[d]
                      /\ ~gone[d] /\ sock'[d] = "closed" => writing[d] = 0
    BY <1>6 DEF ConnInv, Answered
  <2>1. /\ Count(d, Writes) + writing[d] <= done[d] /\ writing[d] \in Nat /\ done[d] \in Nat
        /\ ~gone[d] /\ sock[d] = "closed" => writing[d] = 0
    BY <1>3 DEF ConnInv, Answered, Shape
  <2> QED BY <1>7, <1>9, <2>1
<1> QED BY <1>8, <1>10, <1>11, <1>13, <1>14 DEF ConnInv

\* The parser stops within what was read.
LEMMA StopIs ==
  ASSUME NEW t \in ThreadIds, NEW g \in Handlers, g = thread[t], g.next <= g.size
  PROVE  Stop(t) \in Nat /\ g.next <= Stop(t) /\ Stop(t) <= g.size
<1> DEFINE S == {i \in g.next .. g.size : Input(t)[i].part \in {"end", "error"}} \cup {g.size}
<1>1. g.next \in Nat /\ g.size \in Nat
  BY DEF Handlers
<1>2. S \in SUBSET (g.next .. g.size) /\ S # {} /\ S \subseteq Nat
  BY <1>1
<1>3. Stop(t) = Min(S)
  BY DEF Stop
<1> HIDE DEF S
<1>4. Min(S) \in S
  BY <1>2, MinIsLeast
<1>5. Stop(t) \in g.next .. g.size
  BY <1>2, <1>3, <1>4
<1> QED BY <1>1, <1>5

\* A handler goes on within what was read ...
NextTo(t, k) == thread' = [thread EXCEPT ![t].next = k]

\* ... and nothing else of it changes.
LEMMA NextIs ==
  ASSUME Shape, NEW t \in ThreadIds, NEW g \in Handlers, g = thread[t], NEW k \in Nat, NextTo(t, k)
  PROVE  \E h \in Handlers :
           /\ thread' = [thread EXCEPT ![t] = h]
           /\ h.op = g.op /\ h.conn = g.conn /\ h.ec = g.ec /\ h.at = g.at /\ h.size = g.size
           /\ h.next = k
<1> DEFINE h == [g EXCEPT !.next = k]
<1>1. /\ h \in Handlers
      /\ h.op = g.op /\ h.conn = g.conn /\ h.ec = g.ec /\ h.at = g.at /\ h.size = g.size
      /\ h.next = k
  BY DEF Handlers
<1>2. thread' = [thread EXCEPT ![t] = h]
  BY DEF NextTo
<1> QED BY <1>1, <1>2

\* Parse up to a stop k of connection c: what it changes of what is counted.
Parses(t, g, k, more) ==
  /\ thread' = [thread EXCEPT ![t].next = k + 1]
  /\ writing' = [writing EXCEPT ![g.conn] = @ + more]
  /\ owners' = [owners EXCEPT ![g.conn] = @ + more]
  /\ done' = [done EXCEPT ![g.conn] = @ + more]
  /\ UNCHANGED <<accepting, queue, sock, reading, obj, wired, stream, arrived, taken, gone, answers>>

\* Parse is that, with a response if it stops at the end of a message.
LEMMA ParseIs ==
  ASSUME ConnInv, NEW t \in ThreadIds, Parse(t), NEW g \in Handlers, g = thread[t]
  PROVE  \E k \in Nat, more \in {0, 1} :
           /\ g.next <= k /\ k <= g.size
           /\ more = 1 => k \in Ends(stream[g.conn], k)
           /\ Parses(t, g, k, more)
<1>1. PICK c \in Conns : c = g.conn
  BY DEF Handlers
<1>2. /\ writing \in [Conns -> Nat] /\ owners \in [Conns -> Nat] /\ done \in [Conns -> Nat]
  BY DEF ConnInv, Shape
<1>3. /\ g.next <= g.size /\ g.next \in Nat /\ g.size \in Nat /\ g.size + 1 \in Nat
  BY DEF Parse, Handlers
<1>4. PICK s \in Nat : s = Stop(t) /\ g.next <= s /\ s <= g.size
  BY <1>3, StopIs
<1>5. /\ accepting' = accepting /\ queue' = queue /\ sock' = sock /\ reading' = reading
      /\ obj' = obj /\ wired' = wired /\ stream' = stream /\ arrived' = arrived
      /\ taken' = taken /\ gone' = gone /\ answers' = answers
  BY DEF Parse, client
<1>6. CASE EndsMessage(t)
  <2>1. /\ writing' = [writing EXCEPT ![c] = writing[c] + 1]
        /\ owners' = IF writing' = writing THEN owners ELSE [owners EXCEPT ![c] = owners[c] + 1]
        /\ done' = [done EXCEPT ![c] = done[c] + 1]
        /\ thread' = [thread EXCEPT ![t].next = s + 1]
    BY <1>1, <1>4, <1>6 DEF Parse, Conn, AsyncWrite, Bound
  <2>2. writing' # writing
    <3>1. writing'[c] = writing[c] + 1 /\ writing[c] \in Nat
      BY <1>2, <2>1
    <3> QED BY <3>1
  <2>3. s \in Ends(stream[c], s)
    <3>1. Text[stream[c]][s].part = "end"
      BY <1>1, <1>4, <1>6 DEF EndsMessage, Input, Conn
    <3>2. g.next > 0
      <4>1. Sound(g) /\ g.op = "read" /\ g.at = "start" /\ ~g.ec
        BY RunningIs DEF Parse, At
      <4> QED BY <4>1 DEF Sound, SoundIn
    <3>3. s \in 1 .. s
      BY <1>3, <1>4, <3>2
    <3> QED BY <3>1, <3>3 DEF Ends
  <2>4. Parses(t, g, s, 1)
    BY <1>1, <1>5, <2>1, <2>2 DEF Parses
  <2> QED BY <1>1, <1>4, <2>3, <2>4
<1>7. CASE ~EndsMessage(t)
  <2>1. /\ writing' = writing /\ owners' = owners /\ done' = done
        /\ thread' = [thread EXCEPT ![t].next = g.size + 1]
    BY <1>7 DEF Parse
  <2>2. /\ writing = [writing EXCEPT ![c] = writing[c] + 0]
        /\ owners = [owners EXCEPT ![c] = owners[c] + 0]
        /\ done = [done EXCEPT ![c] = done[c] + 0]
    BY <1>2
  <2>3. Parses(t, g, g.size, 0)
    BY <1>1, <1>5, <2>1, <2>2 DEF Parses
  <2>4. g.size <= g.size
    BY <1>3
  <2> QED BY <1>3, <2>3, <2>4
<1> QED BY <1>6, <1>7

\* OnRead parses on: a response is written for each request that ends.
LEMMA ParseKeeps ==
  ASSUME ConnInv, NEW t \in ThreadIds, Parse(t)
  PROVE  ConnInv'
<1>1. PICK g \in Handlers : g = thread[t] /\ g.op = "read" /\ g.at = "start" /\ ~g.ec /\ Sound(g)
  BY RunningIs DEF Parse, At
<1>2. PICK c \in Conns : c = g.conn
  BY DEF Handlers
<1>3. Shape
  BY DEF ConnInv
<1>4. PICK k \in Nat, more \in {0, 1} :
        /\ g.next <= k /\ k <= g.size
        /\ more = 1 => k \in Ends(stream[g.conn], k)
        /\ Parses(t, g, k, more)
  BY <1>1, ParseIs
<1>5. PICK h \in Handlers :
        /\ thread' = [thread EXCEPT ![t] = h]
        /\ h.op = "read" /\ h.conn = c /\ h.at = "start" /\ ~h.ec /\ h.size = g.size
        /\ h.next = k + 1
  <2>1. PICK j \in Nat : j = k + 1
    OBVIOUS
  <2>2. NextTo(t, j)
    BY <1>4, <2>1 DEF Parses, NextTo
  <2>3. PICK x \in Handlers :
          /\ thread' = [thread EXCEPT ![t] = x]
          /\ x.op = g.op /\ x.conn = g.conn /\ x.ec = g.ec /\ x.at = g.at /\ x.size = g.size
          /\ x.next = j
    BY <1>1, <1>3, <2>2, NextIs
  <2> QED BY <1>1, <1>2, <2>1, <2>3
<1>6. /\ accepting' = accepting /\ queue' = queue /\ sock' = sock /\ reading' = reading
      /\ obj' = obj /\ wired' = wired /\ stream' = stream /\ arrived' = arrived
      /\ taken' = taken /\ gone' = gone /\ answers' = answers
      /\ writing' = [writing EXCEPT ![c] = writing[c] + more]
      /\ owners' = [owners EXCEPT ![c] = owners[c] + more]
      /\ done' = [done EXCEPT ![c] = done[c] + more]
  BY <1>2, <1>4 DEF Parses
<1>7. /\ writing' \in [Conns -> Nat] /\ owners' \in [Conns -> Nat] /\ done' \in [Conns -> Nat]
      /\ writing'[c] = writing[c] + more /\ owners'[c] = owners[c] + more /\ done'[c] = done[c] + more
      /\ \A d \in Conns : d # c => writing'[d] = writing[d] /\ owners'[d] = owners[d] /\ done'[d] = done[d]
      /\ writing[c] \in Nat /\ owners[c] \in Nat /\ done[c] \in Nat
  <2>1. writing \in [Conns -> Nat] /\ owners \in [Conns -> Nat] /\ done \in [Conns -> Nat]
    BY <1>3 DEF Shape
  <2>2. writing[c] + more \in Nat /\ owners[c] + more \in Nat /\ done[c] + more \in Nat
    BY <2>1
  <2> QED BY <1>6, <2>1, <2>2
<1>8. Shape'
  <2>1. thread' \in [ThreadIds -> Handlers \cup {Idle}]
    BY <1>3, <1>5 DEF Shape
  <2> QED BY <1>3, <1>6, <1>7, <2>1 DEF Shape
<1>9. ASSUME NEW d \in Conns
      PROVE  /\ Count(d, Anything)' = Count(d, Anything)
             /\ Count(d, Accepted)' = Count(d, Accepted)
             /\ Count(d, Chained)' = Count(d, Chained)
             /\ Count(d, Writes)' = Count(d, Writes)
             /\ Count(d, Anything) \in Nat /\ Count(d, Accepted) \in Nat
             /\ Count(d, Chained) \in Nat /\ Count(d, Writes) \in Nat
  <2>1. /\ One(AtAccepted(g, d)) = 0 /\ One(AtAccepted(h, d)) = 0
        /\ One(AtChained(g, d)) = One(c = d) /\ One(AtChained(h, d)) = One(c = d)
        /\ One(AtWrite(g, d)) = 0 /\ One(AtWrite(h, d)) = 0
    BY <1>1, <1>2, <1>5 DEF One, AtAccepted, AtChained, AtWrite
  <2>2. Moves(t, g, h)
    BY <1>1, <1>5, <1>6 DEF Moves
  <2>3. /\ Count(d, Anything)' = Count(d, Anything)
        /\ Count(d, Accepted)' = Count(d, Accepted) - One(AtAccepted(g, d)) + One(AtAccepted(h, d))
        /\ Count(d, Chained)' = Count(d, Chained) - One(AtChained(g, d)) + One(AtChained(h, d))
        /\ Count(d, Writes)' = Count(d, Writes) - One(AtWrite(g, d)) + One(AtWrite(h, d))
        /\ Count(d, Anything) \in Nat /\ Count(d, Accepted) \in Nat
        /\ Count(d, Chained) \in Nat /\ Count(d, Writes) \in Nat
    BY <1>1, <1>2, <1>5, <2>2, StepKeepsCounts
  <2>4. One(c = d) \in {0, 1}
    BY DEF One
  <2> QED BY <2>1, <2>3, <2>4
<1>10. owners[c] >= 1 /\ wired[c] /\ (sock[c] = "open" \/ gone[c])
  BY <1>1, <1>2, RunningIs, IsAre DEF Sound, SoundIn
<1>11. /\ accepting # c /\ ~reading[c]
       /\ \A i \in DOMAIN queue : ~Is(queue[i], c, Chained)
       /\ \A u \in ThreadIds \ {t} : ~Is(thread[u], c, Chained)
  <2>1. AtChained(g, g.conn)
    BY <1>1 DEF AtChained
  <2> QED BY <1>1, <1>2, <2>1, ChainExclusive
<1>12. ASSUME NEW d \in Conns
       PROVE  /\ owners'[d] = One(accepting = d) + One(reading[d]) + writing'[d] + Count(d, Anything)
              /\ obj[d] = "live" <=> owners'[d] > 0
  <2>1. /\ owners[d] = One(accepting = d) + One(reading[d]) + writing[d] + Count(d, Anything)
        /\ obj[d] = "live" <=> owners[d] > 0
        /\ Count(d, Anything) \in Nat
    BY <1>9 DEF ConnInv, Owned
  <2>2. One(accepting = d) \in {0, 1} /\ One(reading[d]) \in {0, 1}
    BY DEF One
  <2>3. CASE d = c
    <3>1. owners[c] + more =
            One(accepting = d) + One(reading[d]) + (writing[c] + more) + Count(d, Anything)
      BY <1>7, <2>1, <2>2, <2>3
    <3>2. owners[c] > 0 /\ owners[c] + more > 0
      BY <1>7, <1>10
    <3> QED BY <1>7, <2>1, <2>3, <3>1, <3>2
  <2>4. CASE d # c
    BY <1>7, <2>1, <2>4
  <2> QED BY <2>3, <2>4
<1>13. Owned' /\ Chain'
  BY <1>6, <1>9, <1>12 DEF ConnInv, Owned, Chain
<1>14. Token'
  <2>1. \A d \in Conns : owners[d] = 0 => owners'[d] = 0 /\ done'[d] = done[d]
    BY <1>7, <1>10
  <2>2. \A d \in Conns : One(accepting' = d) + Count(d, Accepted)'
                            <= One(accepting = d) + Count(d, Accepted)
    BY <1>6, <1>9 DEF One
  <2> QED BY <1>6, <1>9, <2>1, <2>2, TokenKept
<1>15. OthersStaySound(t)
  <2>1. ASSUME NEW x \in Handlers, Sound(x), ~Is(x, c, Chained)
        PROVE  SoundNext(x)
    <3>1. x.conn \in Conns
      BY DEF Handlers
    <3>2. CASE x.conn = c
      <4>1. ~(x.op = "accept" /\ x.at # "return") /\ ~(x.op = "read" /\ x.at = "start")
        BY <2>1, <3>2, IsAre
      <4> QED BY <1>6, <2>1, <4>1 DEF Sound, SoundNext, SoundIn
    <3>3. CASE x.conn # c
      <4>1. done'[x.conn] = done[x.conn]
        BY <1>7, <3>1, <3>3
      <4> QED BY <1>6, <2>1, <4>1 DEF Sound, SoundNext, SoundIn
    <3> QED BY <3>2, <3>3
  <2> QED BY <1>11, <2>1, QueuedIs, RunningIs DEF OthersStaySound
<1>16. done[c] + more <= Cardinality(Ends(stream[c], k)) /\ g.size <= arrived[c] /\ g.next > 0
  <2>1. /\ g.next > 0 /\ g.size <= arrived[c]
        /\ done[c] <= Cardinality(Ends(stream[c], g.next - 1))
    BY <1>1, <1>2 DEF Sound, SoundIn
  <2>2. g.next \in Nat
    BY DEF Handlers
  <2>3. g.next - 1 \in Nat /\ g.next - 1 <= k /\ k \in (g.next - 1) + 1 .. k
    BY <1>4, <2>1, <2>2
  <2>4. PICK j \in Nat : j = g.next - 1
    BY <2>3
  <2>5. /\ Cardinality(Ends(stream[c], j)) \in Nat /\ Cardinality(Ends(stream[c], k)) \in Nat
        /\ Cardinality(Ends(stream[c], j)) <= Cardinality(Ends(stream[c], k))
        /\ more = 1 => Cardinality(Ends(stream[c], j)) + 1 <= Cardinality(Ends(stream[c], k))
    BY <1>2, <1>4, <2>3, <2>4, EndsGrow
  <2>6. done[c] <= Cardinality(Ends(stream[c], j))
    BY <2>1, <2>4
  <2> QED BY <1>7, <2>1, <2>5, <2>6
<1>17. AllSound'
  <2>1. h.next > 0 /\ h.next <= h.size + 1 /\ h.next - 1 = k
    <3>1. g.size \in Nat
      BY DEF Handlers
    <3> QED BY <1>4, <1>5, <3>1
  <2>2. done'[c] <= Cardinality(Ends(stream'[c], h.next - 1)) /\ h.size <= arrived'[c]
    BY <1>5, <1>6, <1>7, <1>16, <2>1
  <2>3. SoundNext(h)
    BY <1>5, <1>6, <1>10, <2>1, <2>2 DEF SoundNext, SoundIn
  <2> QED BY <1>5, <1>6, <1>15, <2>3, SoundStep
<1>18. Pending'
  <2> SUFFICES ASSUME NEW d \in Conns
               PROVE  /\ accepting = d \/ reading[d] => done'[d] = 0
                      /\ reading[d] \/ writing'[d] > 0 => wired[d]
    BY <1>6 DEF Pending
  <2>1. CASE d = c
    BY <1>10, <1>11, <2>1
  <2>2. CASE d # c
    BY <1>7, <2>2 DEF ConnInv, Pending
  <2> QED BY <2>1, <2>2
<1>19. Answered'
  <2> SUFFICES ASSUME NEW d \in Conns
               PROVE  /\ answers[d] + writing'[d] <= done'[d]
                      /\ Count(d, Writes) + writing'[d] <= done'[d]
                      /\ ~gone[d] => answers[d] + writing'[d] = done'[d]
                      /\ ~gone[d] /\ sock[d] = "closed" => writing'[d] = 0
                      /\ done'[d] <= Cardinality(Ends(stream[d], arrived[d]))
    BY <1>6, <1>9 DEF Answered
  <2>1. /\ answers[d] + writing[d] <= done[d]
        /\ Count(d, Writes) + writing[d] <= done[d]
        /\ ~gone[d] => answers[d] + writing[d] = done[d]
        /\ ~gone[d] /\ sock[d] = "closed" => writing[d] = 0
        /\ done[d] <= Cardinality(Ends(stream[d], arrived[d]))
        /\ answers[d] \in Nat /\ arrived[d] \in Nat
    BY <1>3 DEF ConnInv, Answered, Shape
  <2>2. CASE d # c
    BY <1>7, <2>1, <2>2
  <2>3. CASE d = c
    <3>1. /\ answers[d] + writing'[d] <= done'[d]
          /\ ~gone[d] => answers[d] + writing'[d] = done'[d]
      BY <1>7, <2>1, <2>3
    <3>2. Count(d, Writes) + writing'[d] <= done'[d]
      BY <1>7, <1>9, <2>1, <2>3
    <3>3. ~(~gone[d] /\ sock[d] = "closed")
      BY <1>10, <2>3
    <3>4. done'[d] <= Cardinality(Ends(stream[d], arrived[d]))
      <4>1. g.size \in Nat /\ k <= arrived[d]
        <5>1. g.size \in Nat
          BY DEF Handlers
        <5> QED BY <1>4, <1>16, <2>1, <2>3, <5>1
      <4>2. /\ Cardinality(Ends(stream[d], k)) <= Cardinality(Ends(stream[d], arrived[d]))
            /\ Cardinality(Ends(stream[d], k)) \in Nat
            /\ Cardinality(Ends(stream[d], arrived[d])) \in Nat
        <5>1. PICK n \in Nat : n = arrived[d]
          BY <2>1
        <5> QED BY <4>1, <5>1, EndsGrow
      <4> QED BY <1>7, <1>16, <2>3, <4>2
    <3> QED BY <3>1, <3>2, <3>3, <3>4
  <2> QED BY <2>2, <2>3
<1> QED BY <1>8, <1>13, <1>14, <1>17, <1>18, <1>19 DEF ConnInv

-----------------------------------------------------------------------------
(* The invariant holds, and what follows.                                  *)

\* Nothing but the first accept is there at first.
LEMMA InitIsSound ==
  ASSUME Init
  PROVE  ConnInv
<1>1. 1 \in Conns /\ \A c \in Conns : c \in Nat /\ c # None
  BY MaxAcceptsAssumption DEF Conns, None
<1>2. Shape
  <2>1. queue \in Seq(Handlers)
    BY EmptySeq DEF Init
  <2> QED BY <1>1, <2>1 DEF Init, Shape, NoStream
<1>3. \A c, K : Count(c, K) = 0
  <2>1. \A c, K : Queued(c, K) = {} /\ Running(c, K) = {}
    BY DEF Init, Queued, Running, Is
  <2>2. Cardinality({}) = 0
    BY FS_EmptySet
  <2> QED BY <2>1, <2>2 DEF Count
<1>4. Owned
  BY <1>3 DEF Init, Owned, One
<1>5. Chain
  BY <1>3 DEF Init, Chain, One
<1>6. Token
  <2>1. /\ accepting \in {1, None}
        /\ One(accepting = 1) + Count(1, Accepted) <= 1
        /\ \A c \in Conns : /\ c # 1 => Count(c, Accepted) = 0
                            /\ c > 1 => owners[c] = 0 /\ done[c] = 0
    BY <1>1, <1>3 DEF Init, One
  <2> QED BY <1>1, <2>1 DEF Token
<1>7. AllSound
  BY DEF Init, AllSound
<1>8. Pending
  BY DEF Init, Pending
<1>9. Answered
  <2> SUFFICES ASSUME NEW c \in Conns
               PROVE  done[c] <= Cardinality(Ends(stream[c], arrived[c]))
    BY <1>3 DEF Init, Answered
  <2>1. done[c] = 0 /\ arrived[c] = 0
    BY DEF Init
  <2>2. Cardinality(Ends(stream[c], 0)) \in Nat
    BY EndsGrow
  <2> QED BY <2>1, <2>2
<1> QED BY <1>2, <1>4, <1>5, <1>6, <1>7, <1>8, <1>9 DEF ConnInv

\* A step of a thread keeps the invariant.
LEMMA HandlerKeeps ==
  ASSUME ConnInv, NEW t \in ThreadIds, Handler(t)
  PROVE  ConnInv'
<1>1. CASE HandleAccept(t)
  BY <1>1, HandleAcceptKeeps
<1>2. CASE SetCallbacks(t)
  BY <1>2, SetCallbacksKeeps
<1>3. CASE OnNewConnection(t)
  BY <1>3, OnNewConnectionKeeps
<1>4. CASE Parse(t)
  BY <1>4, ParseKeeps
<1>5. CASE OnMessage(t)
  BY <1>5, ReturnsKeeps DEF OnMessage, At
<1>6. CASE OnConnectionError(t)
  BY <1>6, OnConnectionErrorKeeps
<1>7. CASE OnWriteComplete(t)
  BY <1>7, ReturnsKeeps DEF OnWriteComplete, At
<1>8. CASE HandlerReturns(t)
  BY <1>8, ReturnsKeeps DEF HandlerReturns
<1> QED BY <1>1, <1>2, <1>3, <1>4, <1>5, <1>6, <1>7, <1>8 DEF Handler

\* Every step keeps the invariant.
LEMMA NextKeeps ==
  ASSUME ConnInv, [Next]_vars
  PROVE  ConnInv'
<1>1. CASE AcceptCompletes
  BY <1>1, AcceptCompletesKeeps
<1>2. ASSUME NEW c \in Conns,
             ClientSends(c) \/ ClientGoes(c) \/ ReadCompletes(c) \/ WriteCompletes(c)
      PROVE  ConnInv'
  BY <1>2, ClientSendsKeeps, ClientGoesKeeps, ReadCompletesKeeps, WriteCompletesKeeps
<1>3. ASSUME NEW t \in ThreadIds, Run(t) \/ Handler(t)
      PROVE  ConnInv'
  BY <1>3, RunKeeps, HandlerKeeps
<1>4. CASE vars' = vars
  <2>1. /\ accepting' = accepting /\ queue' = queue /\ thread' = thread /\ obj' = obj
        /\ owners' = owners /\ wired' = wired /\ sock' = sock /\ reading' = reading
        /\ writing' = writing /\ stream' = stream /\ arrived' = arrived /\ taken' = taken
        /\ gone' = gone /\ done' = done /\ answers' = answers
    BY <1>4 DEF vars
  <2>2. \A d, K : Count(d, K)' = Count(d, K)
    BY <2>1, CountsSame
  <2>3. Shape' /\ AllSound' /\ Pending'
    BY <2>1 DEF ConnInv, Shape, AllSound, Sound, Pending
  <2>4. Owned' /\ Chain' /\ Token' /\ Answered'
    BY <2>1, <2>2 DEF ConnInv, Owned, Chain, Token, Answered
  <2> QED BY <2>3, <2>4 DEF ConnInv
<1> QED BY <1>1, <1>2, <1>3, <1>4 DEF Next

(* The references to connections are counted, their accepts and reads go   *)
(* on one after the other and their writes are for requests, in every      *)
(* interleaving of any number of threads.                                  *)
THEOREM ConnInvariance == Spec => []ConnInv
<1>1. Init => ConnInv
  BY InitIsSound
<1>2. ConnInv /\ [Next]_vars => ConnInv'
  BY NextKeeps
<1> QED BY <1>1, <1>2, PTL DEF Spec

\* By the count of references, what is pending, queued or runs keeps its
\* connection, and the callbacks are set before the first read.
LEMMA ReadyIf ==
  ASSUME ConnInv
  PROVE  HandlersReady
<1>1. ASSUME NEW t \in ThreadIds, thread[t] # Idle
      PROVE  /\ obj[Conn(t)] = "live"
             /\ thread[t].op \in {"read", "write"} => wired[Conn(t)]
  <2>1. Sound(thread[t]) /\ obj[thread[t].conn] = "live"
    BY <1>1, RunningIs
  <2> QED BY <2>1 DEF Sound, SoundIn, Conn
<1>2. \A i \in DOMAIN queue : obj[queue[i].conn] = "live"
  BY QueuedIs
<1>3. ASSUME NEW c \in Conns, reading[c] \/ writing[c] > 0 \/ accepting = c
      PROVE  obj[c] = "live"
  <2>1. /\ owners[c] = One(accepting = c) + One(reading[c]) + writing[c] + Count(c, Anything)
        /\ obj[c] = "live" <=> owners[c] > 0
    BY DEF ConnInv, Owned
  <2>2. writing[c] \in Nat /\ Count(c, Anything) \in Nat
    BY CountsAre DEF ConnInv, Shape
  <2>3. /\ One(accepting = c) \in {0, 1} /\ One(reading[c]) \in {0, 1}
        /\ accepting = c => One(accepting = c) = 1
        /\ reading[c] => One(reading[c]) = 1
    BY DEF One
  <2> QED BY <1>3, <2>1, <2>2, <2>3
<1> QED BY <1>1, <1>2, <1>3 DEF HandlersReady

(* A connection object is there as long as an operation on it is pending,  *)
(* queued or being handled, for any number of threads: binding             *)
(* shared_from_this in every handler is enough.                            *)
THEOREM HandlersReadyAlways == Spec => []HandlersReady
  BY ConnInvariance, ReadyIf, PTL

\* When the last reference is gone no write is pending, so that all are
\* answered if none failed.
LEMMA AnsweredIf ==
  ASSUME ConnInv
  PROVE  AnsweredOnce
<1> SUFFICES ASSUME NEW c \in Conns
             PROVE  /\ answers[c] <= done[c]
                    /\ obj[c] = "freed" /\ ~gone[c] => answers[c] = done[c]
  BY DEF AnsweredOnce
<1>1. /\ answers[c] + writing[c] <= done[c]
      /\ ~gone[c] => answers[c] + writing[c] = done[c]
  BY DEF ConnInv, Answered
<1>2. /\ answers[c] \in Nat /\ writing[c] \in Nat /\ done[c] \in Nat /\ owners[c] \in Nat
      /\ Count(c, Anything) \in Nat
  BY CountsAre DEF ConnInv, Shape
<1>3. ASSUME obj[c] = "freed"
      PROVE  writing[c] = 0
  <2>1. /\ owners[c] = One(accepting = c) + One(reading[c]) + writing[c] + Count(c, Anything)
        /\ ~(owners[c] > 0)
    BY <1>3 DEF ConnInv, Owned
  <2>2. One(accepting = c) \in {0, 1} /\ One(reading[c]) \in {0, 1}
    BY DEF One
  <2> QED BY <1>2, <2>1, <2>2
<1> QED BY <1>1, <1>2, <1>3

(* No request is answered twice, and none that was parsed is left          *)
(* unanswered by a connection that is destroyed while its client is there. *)
THEOREM AnsweredOnceAlways == Spec => []AnsweredOnce
  BY ConnInvariance, AnsweredIf, PTL

\* What a thread that is about to use a socket does: a step of the one thing
\* that goes on, or OnWrite with an error.
LEMMA UsesAre ==
  ASSUME ConnInv, NEW t \in ThreadIds, UsesSocket(t)
  PROVE  \E g \in Handlers :
           /\ g = thread[t] /\ Sound(g)
           /\ AtChained(g, g.conn) \/ AtWrite(g, g.conn)
<1>1. PICK g \in Handlers : g = thread[t] /\ Sound(g)
  BY RunningIs DEF UsesSocket
<1>2. AtChained(g, g.conn) \/ AtWrite(g, g.conn)
  <2>1. g.op \in Ops
    BY DEF Handlers
  <2> QED BY <1>1, <2>1 DEF UsesSocket, At, AtChained, AtWrite, Ops
<1> QED BY <1>1, <1>2

\* Requests that are done have arrived.
LEMMA DoneHaveArrived ==
  ASSUME ConnInv, NEW c \in Conns
  PROVE  /\ Arrived(c) = Cardinality(Ends(stream[c], arrived[c]))
         /\ Arrived(c) \in Nat /\ done[c] \in Nat /\ Count(c, Writes) \in Nat
         /\ Count(c, Writes) <= done[c] /\ done[c] <= Arrived(c)
<1>1. Arrived(c) = Cardinality(Ends(stream[c], arrived[c]))
  BY DEF Arrived, Ends
<1>2. PICK n \in Nat : n = arrived[c]
  BY DEF ConnInv, Shape
<1>3. Arrived(c) \in Nat
  <2>1. n <= n
    OBVIOUS
  <2> QED BY <1>1, <1>2, <2>1, EndsGrow
<1>4. done[c] \in Nat /\ Count(c, Writes) \in Nat /\ writing[c] \in Nat
  BY CountsAre DEF ConnInv, Shape
<1>5. Count(c, Writes) + writing[c] <= done[c] /\ done[c] <= Arrived(c)
  BY <1>1 DEF ConnInv, Answered
<1> QED BY <1>1, <1>3, <1>4, <1>5

\* If one of two threads is in OnWrite, a response was written before the other
\* one writes the next.
LEMMA WriteBesideRead ==
  ASSUME ConnInv, NEW t \in ThreadIds, NEW u \in ThreadIds, UsesSocket(t),
         NEW g \in Handlers, g = thread[t], Sound(g), AtChained(g, g.conn),
         NEW x \in Handlers, x = thread[u], AtWrite(x, x.conn), x.conn = g.conn
  PROVE  Arrived(g.conn) > 1
<1>1. PICK c \in Conns : c = g.conn
  BY DEF Handlers
<1>2. /\ Arrived(c) = Cardinality(Ends(stream[c], arrived[c]))
      /\ Arrived(c) \in Nat /\ done[c] \in Nat /\ Count(c, Writes) \in Nat
      /\ Count(c, Writes) <= done[c] /\ done[c] <= Arrived(c)
  BY DoneHaveArrived
<1>3. done[c] >= 1
  <2>1. Count(x.conn, Writes) >= 1
    BY SelfCounted
  <2> QED BY <1>1, <1>2, <2>1
<1>4. /\ ~(g.op = "accept" /\ g.at # "return")
      /\ ~(g.op = "read" /\ g.at = "start" /\ g.ec)
  <2>1. done[c] # 0
    BY <1>2, <1>3
  <2> QED BY <1>1, <2>1 DEF Sound, SoundIn
<1>5. g.op = "read" /\ g.at = "start" /\ ~g.ec
  BY <1>4 DEF AtChained
<1>6. g.next <= g.size /\ EndsMessage(t)
  BY <1>5 DEF UsesSocket, At
<1>7. PICK s \in Nat : s = Stop(t) /\ g.next <= s /\ s <= g.size
  BY <1>6, StopIs
<1>8. /\ g.next > 0 /\ g.next \in Nat /\ g.size \in Nat /\ g.size <= arrived[c]
      /\ done[c] <= Cardinality(Ends(stream[c], g.next - 1))
  BY <1>1, <1>5 DEF Sound, SoundIn, Handlers
<1>9. PICK j \in Nat : j = g.next - 1
  BY <1>8
<1>10. PICK n \in Nat : n = arrived[c]
  BY DEF ConnInv, Shape
<1>11. s \in j + 1 .. n /\ j <= n /\ s \in 1 .. n
  BY <1>7, <1>8, <1>9, <1>10
<1>12. s \in Ends(stream[c], n)
  <2>1. Text[stream[c]][s].part = "end"
    BY <1>1, <1>6, <1>7 DEF EndsMessage, Input, Conn
  <2> QED BY <1>11, <2>1 DEF Ends
<1>13. /\ Cardinality(Ends(stream[c], j)) + 1 <= Cardinality(Ends(stream[c], n))
       /\ Cardinality(Ends(stream[c], j)) \in Nat /\ Cardinality(Ends(stream[c], n)) \in Nat
  BY <1>11, <1>12, EndsGrow
<1>14. done[c] <= Cardinality(Ends(stream[c], j))
  BY <1>8, <1>9
<1>15. Arrived(c) = Cardinality(Ends(stream[c], n))
  BY <1>2, <1>10
<1> QED BY <1>1, <1>2, <1>3, <1>13, <1>14, <1>15

\* Two threads at one socket: not both at the one thing that goes on.
LEMMA ExclusiveIf ==
  ASSUME ConnInv
  PROVE  SocketExclusive
<1> SUFFICES ASSUME NEW t \in ThreadIds, NEW u \in ThreadIds, t # u,
                    UsesSocket(t), UsesSocket(u), Conn(t) = Conn(u)
             PROVE  Arrived(Conn(t)) > 1
  BY DEF SocketExclusive
<1>1. PICK g \in Handlers : /\ g = thread[t] /\ Sound(g)
                            /\ AtChained(g, g.conn) \/ AtWrite(g, g.conn)
  BY UsesAre
<1>2. PICK x \in Handlers : /\ x = thread[u] /\ Sound(x)
                            /\ AtChained(x, x.conn) \/ AtWrite(x, x.conn)
  BY UsesAre
<1>3. PICK c \in Conns : c = g.conn
  BY DEF Handlers
<1>4. Conn(t) = c /\ x.conn = c
  BY <1>1, <1>2, <1>3 DEF Conn
<1>5. CASE AtChained(g, g.conn) /\ AtChained(x, x.conn)
  <2>1. ~Is(thread[u], c, Chained)
    BY <1>1, <1>3, <1>5, ChainExclusive
  <2>2. Is(x, c, Chained)
    BY <1>4, <1>5, IsAre DEF AtChained
  <2> QED BY <1>2, <2>1, <2>2
<1>6. CASE AtChained(g, g.conn) /\ AtWrite(x, x.conn)
  BY <1>1, <1>2, <1>3, <1>4, <1>6, WriteBesideRead
<1>7. CASE AtWrite(g, g.conn) /\ AtChained(x, x.conn)
  BY <1>1, <1>2, <1>3, <1>4, <1>7, WriteBesideRead
<1>8. CASE AtWrite(g, g.conn) /\ AtWrite(x, x.conn)
  <2>1. Is(thread[t], c, Writes) /\ Is(thread[u], c, Writes)
    BY <1>1, <1>2, <1>3, <1>4, <1>8, IsAre DEF AtWrite
  <2>2. Count(c, Writes) >= 2
    BY <2>1, Counted DEF ConnInv
  <2>3. /\ Arrived(c) \in Nat /\ done[c] \in Nat /\ Count(c, Writes) \in Nat
        /\ Count(c, Writes) <= done[c] /\ done[c] <= Arrived(c)
    BY DoneHaveArrived
  <2> QED BY <1>4, <2>2, <2>3
<1> QED BY <1>1, <1>2, <1>5, <1>6, <1>7, <1>8

(* Two threads are at the socket of one connection only if its client has  *)
(* sent a second request behind the first, for any number of threads.      *)
THEOREM SocketExclusiveAlways == Spec => []SocketExclusive
  BY ConnInvariance, ExclusiveIf, PTL
=============================================================================
