---------------------------- MODULE AeTimeEvents ----------------------------
(***************************************************************************)
(* The time events of the event loop in src/ae/ae.c: an unsorted list of   *)
(* timers, the poll that sleeps until the nearest of them, and the scan    *)
(* that fires those that are due and starts over after each callback.      *)
(* Timers are created and deleted from callbacks, from file handlers and   *)
(* between rounds.  Time is the wall clock of gettimeofday: it passes at   *)
(* any point, and may be set.                                              *)
(***************************************************************************)
EXTENDS Integers, Sequences, SequencesExt

CONSTANTS SecMs,      \* milliseconds in a second (1000)
          MaxNow,     \* bound: the last instant of the clock, in milliseconds
          MaxTimers,  \* bound: how many timers are created
          Delays,     \* the delays, in milliseconds, that callers ask for
          Returns     \* the delays that a timeProc may return, to run again

ASSUME SecMsAssumption == SecMs \in Nat \ {0}
ASSUME DelaysAssumption == Delays \subseteq Nat /\ Returns \subseteq Nat
ASSUME BoundsAssumption == MaxNow \in Nat /\ MaxTimers \in Nat

None == -1          \* the null pointer te
Forever == -1       \* the timeout of epoll_wait when no timer is set

VARIABLES
  now,         \* the clock, in milliseconds
  timeEvents,  \* the list from timeEventHead on
  nextId,      \* timeEventNextId
  pc,          \* where the thread is
  te,          \* the id of the timer that te points to, or None
  maxId,       \* local variable of processTimeEvents
  timeout,     \* what epoll_wait is given
  owed         \* history: the timers due since the scan began and not yet fired

vars == <<now, timeEvents, nextId, pc, te, maxId, timeout, owed>>

\* A timer has its time in seconds and milliseconds; due is a history field,
\* the instant its creator or its timeProc asked for.
Timer(id, sec, ms, due) == [id |-> id, when_sec |-> sec, when_ms |-> ms, due |-> due]
Ids(list) == {list[i].id : i \in DOMAIN list}
DueBy(list, t) == {list[i].id : i \in {j \in DOMAIN list : list[j].due <= t}}

\* aeGetTime.
NowSec == now \div SecMs
NowMs == now % SecMs

\* Mutant: no carry into the seconds.
AddMilliseconds_nocarry(id, d) ==
  Timer(id, NowSec + (d \div SecMs), (NowMs + d) % SecMs, now + d)

\* aeAddMillisecondsToNow: one carry into the seconds.
AddMilliseconds(id, d) ==
  LET sec == NowSec + (d \div SecMs)
      ms == NowMs + (d % SecMs)
  IN  IF ms >= SecMs THEN Timer(id, sec + 1, ms - SecMs, now + d)
                     ELSE Timer(id, sec, ms, now + d)

\* Where the timer with this id is in the list; 0 if it is not.
Position(list, id) ==
  IF id \in Ids(list) THEN CHOOSE i \in DOMAIN list : list[i].id = id ELSE 0

\* aeDeleteTimeEvent: unlink, run the finalizer, free; or AE_ERR.
Delete(list, id) ==
  IF id \in Ids(list) THEN RemoveAt(list, Position(list, id)) ELSE list

\* te = te->next, and te = timeEventHead.
Following(list, id) ==
  LET i == Position(list, id)
  IN  IF i < Len(list) THEN list[i + 1].id ELSE None
First(list) == IF list = <<>> THEN None ELSE list[1].id

Init ==
  /\ now = 0
  /\ timeEvents = <<>>
  /\ nextId = 0
  /\ pc = "main"
  /\ te = None
  /\ maxId = None
  /\ timeout = 0
  /\ owed = {}

-----------------------------------------------------------------------------
(* What the program does between rounds, in file handlers, in callbacks.   *)

InProgram == pc \in {"main", "file", "timeProc"}

aeCreateTimeEvent(d) ==
  /\ InProgram
  /\ nextId < MaxTimers
  /\ nextId' = nextId + 1
  /\ timeEvents' = <<AddMilliseconds(nextId, d)>> \o timeEvents
  /\ UNCHANGED <<now, pc, te, maxId, timeout, owed>>

aeDeleteTimeEvent(id) ==
  /\ InProgram
  /\ id \in Ids(timeEvents)
  /\ timeEvents' = Delete(timeEvents, id)
  /\ owed' = owed \ {id}
  /\ UNCHANGED <<now, nextId, pc, te, maxId, timeout>>

\* The clock moves on, or is set, while the thread is not asleep.
Clock(t) ==
  /\ pc # "poll"
  /\ t # now
  /\ now' = t
  /\ owed' = owed \cap DueBy(timeEvents, t)
  /\ UNCHANGED <<timeEvents, nextId, pc, te, maxId, timeout>>

-----------------------------------------------------------------------------
(* aeProcessEvents: sleep, file events, time events.                       *)

Earlier(a, b) ==
  \/ a.when_sec < b.when_sec
  \/ a.when_sec = b.when_sec /\ a.when_ms < b.when_ms

\* aeSearchNearestTimer: the first of the earliest timers.
Nearest == CHOOSE t \in ToSet(timeEvents) :
             \A u \in ToSet(timeEvents) : ~Earlier(u, t)

\* Mutant: the milliseconds do not borrow from the seconds.
TimeoutFor_noborrow(t) ==
  LET sec == t.when_sec - NowSec
      ms == t.when_ms - NowMs
  IN  (IF sec < 0 THEN 0 ELSE sec) * SecMs + (IF ms < 0 THEN 0 ELSE ms)

\* The time missing for a timer to fire: borrow, then cut off each of the two
\* parts at zero.
TimeoutFor(t) ==
  LET borrow == t.when_ms < NowMs
      sec == t.when_sec - NowSec - (IF borrow THEN 1 ELSE 0)
      ms == t.when_ms - NowMs + (IF borrow THEN SecMs ELSE 0)
  IN  (IF sec < 0 THEN 0 ELSE sec) * SecMs + ms

\* aeProcessEvents is entered with AE_ALL_EVENTS, and wait says that
\* AE_DONT_WAIT is not set.
aeProcessEvents(wait) ==
  /\ pc = "main"
  /\ pc' = "poll"
  /\ timeout' = IF ~wait THEN 0
                ELSE IF timeEvents = <<>> THEN Forever
                ELSE TimeoutFor(Nearest)
  /\ UNCHANGED <<now, timeEvents, nextId, te, maxId, owed>>

\* epoll_wait returns at its timeout or, for a file event or a signal, before.
aeApiPoll(slept) ==
  /\ pc = "poll"
  /\ timeout = Forever \/ slept <= timeout
  /\ now' = now + slept
  /\ pc' = "file"
  /\ timeout' = 0
  /\ UNCHANGED <<timeEvents, nextId, te, maxId, owed>>

\* Timers created from now on are not fired in this scan.
processTimeEvents ==
  /\ pc = "file"
  /\ pc' = "scan"
  /\ te' = First(timeEvents)
  /\ maxId' = nextId - 1
  /\ owed' = DueBy(timeEvents, now)
  /\ UNCHANGED <<now, timeEvents, nextId, timeout>>

\* Mutant: seconds and milliseconds are compared apart.
Due_apart(t) == NowSec >= t.when_sec /\ NowMs >= t.when_ms

\* Has its time come?
Due(t) == NowSec > t.when_sec \/ (NowSec = t.when_sec /\ NowMs >= t.when_ms)

scan_skip ==
  /\ pc = "scan" /\ te # None
  /\ te > maxId \/ ~Due(timeEvents[Position(timeEvents, te)])
  /\ te' = Following(timeEvents, te)
  /\ UNCHANGED <<now, timeEvents, nextId, pc, maxId, timeout, owed>>

scan_fire ==
  /\ pc = "scan" /\ te # None
  /\ te <= maxId /\ Due(timeEvents[Position(timeEvents, te)])
  /\ pc' = "timeProc"
  /\ owed' = owed \ {te}
  /\ UNCHANGED <<now, timeEvents, nextId, te, maxId, timeout>>

\* Mutant: the scan does not start over from the head.
timeProc_nomore_stay ==
  /\ pc = "timeProc"
  /\ timeEvents' = Delete(timeEvents, te)
  /\ pc' = "scan"
  /\ UNCHANGED <<now, nextId, te, maxId, timeout, owed>>

\* timeProc returns AE_NOMORE: the timer is deleted, if it still exists.
timeProc_nomore ==
  /\ pc = "timeProc"
  /\ timeEvents' = Delete(timeEvents, te)
  /\ pc' = "scan"
  /\ te' = First(timeEvents')
  /\ UNCHANGED <<now, nextId, maxId, timeout, owed>>

\* timeProc returns a delay: te is armed again.  A timeProc that has deleted its
\* own timer must not do so: the code would write to freed memory.
timeProc_again(d) ==
  /\ pc = "timeProc"
  /\ te \in Ids(timeEvents)
  /\ timeEvents' = ReplaceAt(timeEvents, Position(timeEvents, te), AddMilliseconds(te, d))
  /\ pc' = "scan"
  /\ te' = First(timeEvents)
  /\ UNCHANGED <<now, nextId, maxId, timeout, owed>>

scan_ends ==
  /\ pc = "scan" /\ te = None
  /\ pc' = "main"
  /\ maxId' = None
  /\ owed' = {}
  /\ UNCHANGED <<now, timeEvents, nextId, te, timeout>>

Program ==
  \/ \E d \in Delays : aeCreateTimeEvent(d)
  \/ \E id \in 0 .. MaxTimers - 1 : aeDeleteTimeEvent(id)

Loop ==
  \/ \E wait \in BOOLEAN : aeProcessEvents(wait)
  \/ \E slept \in 0 .. MaxNow - now : aeApiPoll(slept)
  \/ processTimeEvents
  \/ scan_skip
  \/ scan_fire
  \/ timeProc_nomore
  \/ \E d \in Returns : timeProc_again(d)
  \/ scan_ends

Next == Program \/ (\E t \in 0 .. MaxNow : Clock(t)) \/ Loop

Spec == Init /\ [][Next]_vars

-----------------------------------------------------------------------------
(* The list holds no timer twice and none that was not created, and the    *)
(* scan's pointer te points into it: no callback, deletion or creation     *)
(* during the scan leaves te on a freed timer when the scan reads it.      *)
ListIntact ==
  /\ \A i, j \in DOMAIN timeEvents : timeEvents[i].id = timeEvents[j].id => i = j
  /\ \A id \in Ids(timeEvents) : id < nextId
  /\ pc = "scan" /\ te # None => te \in Ids(timeEvents)

(* A timer is due, in seconds and milliseconds, at the instant that was    *)
(* asked for: the carry of aeAddMillisecondsToNow is right, so Due fires   *)
(* no timer early and none late.                                           *)
DueExact ==
  \A i \in DOMAIN timeEvents :
    LET t == timeEvents[i] IN t.when_sec * SecMs + t.when_ms = t.due

(* A scan that ends has fired every timer that was due when it began,      *)
(* except those that were deleted or that the clock, set back, made wait   *)
(* again: starting over from the head and the changes that callbacks make  *)
(* to the list lose none of them.                                          *)
ScanFiresAll == pc = "scan" /\ te = None => owed = {}

(* With timers set the loop never sleeps for ever; when none of them is    *)
(* overdue it does not sleep past any, and when one is it sleeps for less  *)
(* than a second (it should not sleep at all: see NoEventDelayed).         *)
SleepBounded ==
  pc = "poll" /\ timeEvents # <<>> =>
    LET dues == {timeEvents[i].due : i \in DOMAIN timeEvents}
    IN  /\ timeout # Forever
        /\ (\A due \in dues : now <= due) => \A due \in dues : timeout = 0 \/ now + timeout <= due
        /\ (\E due \in dues : due < now) => timeout < SecMs

(* What the comment on aeSearchNearestTimer says it is for: the select     *)
(* sleeps "without to delay any event".  It does not hold: the time        *)
(* missing for a timer that is overdue is cut off at zero in its seconds   *)
(* only, and up to a second of milliseconds is left.                       *)
NoEventDelayed ==
  pc = "poll" =>
    \A i \in DOMAIN timeEvents :
      timeout = 0 \/ (timeout # Forever /\ now + timeout <= timeEvents[i].due)
=============================================================================
