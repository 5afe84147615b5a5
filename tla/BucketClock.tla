----------------------------- MODULE BucketClock -----------------------------
(***************************************************************************)
(* The time arithmetic of emitBucket (internal/server/runmgr.go): which    *)
(* interval a bucket covers, its duration in milliseconds and the second   *)
(* it is stamped with.  Time is counted in ticks of the monotonic clock,   *)
(* MS of them to the millisecond and SEC to the second; the level's        *)
(* measured window is [windowStart + Warmup, + Duration].                  *)
(* Module Run models who calls emitBucket when; here only the times count, *)
(* and Collector, which extends this module, puts the counts into buckets. *)
(* The buckets themselves are summed up: the last one, and how much of the *)
(* level's window all of them cover.                                       *)
(***************************************************************************)
EXTENDS Integers

CONSTANTS
  MS, SEC,           \* clock ticks per millisecond and per second
  Warmup, Duration,  \* of every level, in clock ticks
  Levels,
  MaxTime            \* bound: the clock stops there

ASSUME BucketClockAssumption ==
  /\ MS \in Nat \ {0} /\ SEC \in Nat \ {0}
  /\ Warmup \in Nat /\ Duration \in Nat \ {0}
  /\ Levels \in Nat /\ MaxTime \in Nat

VARIABLES
  now,
  step,          \* of the coordinator: idle, level, fired, open, closed, flush, over
  li,            \* levels finished
  firedAt,       \* barrier.FiredAt()
  windowStart, lastBucketAt, measuring,  \* of the Run
  cancelled,
  deserted,      \* no target is left alive
  last,          \* the last bucket of this level: [lo, hi, dt, t], or none
  covered        \* clock ticks covered by the buckets of this level

vars == <<now, step, li, firedAt, windowStart, lastBucketAt, measuring, cancelled, deserted, last, covered>>
window == <<windowStart, lastBucketAt, measuring>>

NoBucket == [lo |-> 0, hi |-> 0, dt |-> 0, t |-> 0]

TypeOK ==
  /\ now \in Nat /\ step \in {"idle", "level", "fired", "open", "closed", "flush", "over"} /\ li \in Nat
  /\ firedAt \in Nat /\ windowStart \in Nat /\ lastBucketAt \in Nat
  /\ measuring \in BOOLEAN /\ cancelled \in BOOLEAN /\ deserted \in BOOLEAN
  /\ last \in [lo : Nat, hi : Nat, dt : Nat, t : Nat] /\ covered \in Nat

Init ==
  /\ now = 0 /\ step = "idle" /\ li = 0 /\ firedAt = 0
  /\ windowStart = 0 /\ lastBucketAt = 0 /\ measuring = FALSE /\ cancelled = FALSE
  /\ deserted = FALSE /\ last = NoBucket /\ covered = 0

-----------------------------------------------------------------------------
(* emitBucket *)

MeasStart == windowStart + Warmup
MeasEnd == MeasStart + Duration

\* The overlap of the time since the previous bucket with the measured window.
Lo == IF lastBucketAt < MeasStart THEN MeasStart ELSE lastBucketAt
Hi == IF now > MeasEnd THEN MeasEnd ELSE now

\* A positive overlap in milliseconds, rounded up.
Truncated == IF Hi > Lo THEN (Hi - Lo) \div MS ELSE 0  \* wrong: rounded down
DtMs == IF Hi > Lo THEN (Hi - Lo + MS - 1) \div MS ELSE 0

NoFloor(d) == d  \* wrong: a zero is emitted
Floor(d) == IF d = 0 THEN 1 ELSE d

\* A tick is ignored outside the window and once the run is cancelled.
UntilClosed == ~measuring \/ cancelled  \* wrong: the drain after the window counts
Ignored == ~measuring \/ cancelled \/ now > MeasEnd

Emit(dt) ==
  /\ last' = [lo |-> Lo, hi |-> Hi, dt |-> dt, t |-> Hi \div SEC]
  /\ covered' = covered + (IF Hi > Lo THEN Hi - Lo ELSE 0)

\* emitBucket(false): a tick without overlap, one of the warm-up say, leaves no
\* bucket but moves lastBucketAt all the same.  So does one without targets.
Tick ==
  /\ ~Ignored
  /\ lastBucketAt' = now
  /\ IF DtMs = 0 \/ deserted THEN UNCHANGED <<last, covered>> ELSE Emit(DtMs)
  /\ UNCHANGED <<now, step, li, firedAt, windowStart, measuring, cancelled, deserted>>

\* emitBucket(true), after the window: what is left of it, be it nothing.
Flush ==
  /\ step = "flush"
  /\ lastBucketAt' = now
  /\ IF deserted THEN UNCHANGED <<last, covered>> ELSE Emit(Floor(DtMs))
  /\ step' = "idle" /\ li' = li + 1
  /\ UNCHANGED <<now, firedAt, windowStart, measuring, cancelled, deserted>>

-----------------------------------------------------------------------------
(* The level around it *)

\* The top of the loop.
LevelTop ==
  /\ step = "idle" /\ li < Levels /\ ~cancelled /\ ~deserted
  /\ step' = "level"
  /\ UNCHANGED <<now, li, firedAt, window, cancelled, deserted, last, covered>>

Fire ==
  /\ step = "level"
  /\ step' = "fired" /\ firedAt' = now
  /\ UNCHANGED <<now, li, window, cancelled, deserted, last, covered>>

\* The window starts at the instant the barrier fired, however late the
\* coordinator gets to say so.
FromNow == /\ windowStart' = firedAt /\ lastBucketAt' = now  \* wrong: what came before is lost
FromFired == /\ windowStart' = firedAt /\ lastBucketAt' = firedAt

OpenWindow ==
  /\ step = "fired"
  /\ FromFired
  /\ step' = "open" /\ measuring' = TRUE
  /\ last' = NoBucket /\ covered' = 0
  /\ UNCHANGED <<now, li, firedAt, cancelled, deserted>>

\* The last target still alive dies, its token found too short after the barrier.
Desert ==
  /\ step \in {"fired", "open"} /\ ~deserted
  /\ deserted' = TRUE
  /\ UNCHANGED <<now, step, li, firedAt, window, cancelled, last, covered>>

\* RunLevel of every target has returned: not before the end of the window,
\* unless the run was cancelled or every target has failed.
CloseWindow ==
  /\ step = "open" /\ (now >= MeasEnd \/ cancelled \/ deserted)
  /\ step' = "closed" /\ measuring' = FALSE
  /\ UNCHANGED <<now, li, firedAt, windowStart, lastBucketAt, cancelled, deserted, last, covered>>

\* The check for a cancellation, which may still come before the flush.
Completed ==
  /\ step = "closed" /\ ~cancelled
  /\ step' = "flush"
  /\ UNCHANGED <<now, li, firedAt, window, cancelled, deserted, last, covered>>

Stop ==
  /\ \/ step \in {"idle", "closed"} /\ cancelled
     \/ step = "idle" /\ (li = Levels \/ deserted)
  /\ step' = "over"
  /\ UNCHANGED <<now, li, firedAt, window, cancelled, deserted, last, covered>>

Cancel ==
  /\ ~cancelled /\ cancelled' = TRUE
  /\ UNCHANGED <<now, step, li, firedAt, window, deserted, last, covered>>

TimePasses ==
  /\ now < MaxTime /\ now' = now + 1
  /\ UNCHANGED <<step, li, firedAt, window, cancelled, deserted, last, covered>>

Next == \/ LevelTop \/ Fire \/ OpenWindow \/ Desert \/ CloseWindow \/ Completed \/ Stop
        \/ Tick \/ Flush \/ Cancel \/ TimePasses

Spec == Init /\ [][Next]_vars

-----------------------------------------------------------------------------
(* Properties *)

\* No bucket has a duration of zero, which its readers would take for a legacy
\* bucket of a second, and none overstates what it covers by a millisecond or
\* more, the flush of nothing excepted, which counts as one.
DurationIsCeiling ==
  last # NoBucket =>
    /\ last.dt >= 1
    /\ last.dt * MS >= last.hi - last.lo
    /\ last.dt * MS < last.hi - last.lo + MS \/ last.dt = 1

\* A bucket ends inside the measured window of its level and is stamped with the
\* second it ends in, the flush too, long as the level may have drained.
EndsInsideTheWindow ==
  last # NoBucket =>
    /\ MeasStart <= last.lo /\ last.lo <= last.hi /\ last.hi <= MeasEnd
    /\ last.t * SEC <= last.hi /\ last.hi < (last.t + 1) * SEC

\* Taken together: what a bucket says of its time is true.
BucketsAreTrue == DurationIsCeiling /\ EndsInsideTheWindow

\* The buckets of a level tile its measured window: they cover it without gap or
\* overlap up to the last tick, and the whole of it once the tail is flushed, so
\* that every rate is a count over the time it was counted in.  (Of a level none
\* of whose targets is left there is nothing to plot.)
Tiled ==
  ~deserted =>
  /\ step \in {"open", "closed", "flush"} =>
       covered = IF lastBucketAt > MeasStart THEN lastBucketAt - MeasStart ELSE 0
  /\ step = "idle" /\ li > 0 => covered = Duration
=============================================================================
