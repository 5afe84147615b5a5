------------------------------ MODULE Collector ------------------------------
(***************************************************************************)
(* The live counts of one target (internal/server/collector.go) between    *)
(* the agents that record samples into it, emitBucket, which takes them    *)
(* out, and the coordinator, which resets it for the next level; and the   *)
(* summary of the level the engine makes of the same samples               *)
(* (internal/bench/stats.go, demoAgg in internal/server/demo.go).          *)
(*                                                                         *)
(* Module BucketClock says when emitBucket is called and what it makes of  *)
(* its reading of the clock: each of its actions is one here.  The samples *)
(* are taken out after the clock was read, in a step of its own:           *)
(* emitBucket holds r.mu from one to the other, which keeps the            *)
(* coordinator and other calls out, but not the agents, and time goes on.  *)
(* The run has this one target; a target that dies does so before its      *)
(* agents start and counts nothing.  Counters and histograms are sets of   *)
(* the samples they count: a sample is [by, offset, fin], an agent and     *)
(* when the operation began and ended, from the fire of the barrier.       *)
(***************************************************************************)
EXTENDS BucketClock, Sequences

CONSTANTS
  Agents,
  Grace,  \* until the agents' context is done, after the window
  W       \* windowSecs

ASSUME CollectorAssumption == Grace \in Nat /\ W \in Nat \ {0}

VARIABLES
  running,         \* the agents of the level have been started and have not all returned
  busy,            \* agent -> idle, op, done
  from, upto,      \* agent -> when its operation began and ended
  cur, ring, pos,  \* of the collector
  samples,         \* of the agents, for the summary
  taking,          \* emitBucket has read the clock and is to take the samples out; it holds r.mu
  buckets          \* history: [hi, live, rolling] of each bucket of the level

agents == <<running, busy, from, upto>>
col    == <<cur, ring, pos>>
collectorVars == <<vars, agents, col, samples, taking, buckets>>

End == Warmup + Duration
Slots == 0..(W - 1)
Sample == [by : Agents, offset : Nat, fin : Nat]

CollectorTypeOK ==
  /\ running \in BOOLEAN /\ busy \in [Agents -> {"idle", "op", "done"}]
  /\ from \in [Agents -> Nat] /\ upto \in [Agents -> Nat]
  /\ cur \subseteq Sample /\ ring \in [Slots -> SUBSET Sample] /\ pos \in Slots
  /\ samples \subseteq Sample /\ taking \in BOOLEAN
  /\ buckets \in Seq([hi : Nat, live : SUBSET Sample, rolling : SUBSET Sample])

EmptyRing == [s \in Slots |-> {}]

CollectorInit ==
  /\ Init
  /\ running = FALSE /\ busy = [a \in Agents |-> "idle"]
  /\ from = [a \in Agents |-> 0] /\ upto = from
  /\ cur = {} /\ ring = EmptyRing /\ pos = 0
  /\ samples = {} /\ taking = FALSE /\ buckets = <<>>

-----------------------------------------------------------------------------
(* The agents *)

SinceFire == now - firedAt
CtxDone == cancelled \/ SinceFire >= End + Grace

\* Held back by the barrier until now.
Begin ==
  /\ step \in {"fired", "open"} /\ ~running /\ ~deserted
  /\ running' = TRUE
  /\ UNCHANGED <<vars, busy, from, upto, col, samples, taking, buckets>>

Start(a) ==
  /\ running /\ busy[a] = "idle" /\ ~CtxDone /\ SinceFire < End
  /\ busy' = [busy EXCEPT ![a] = "op"] /\ from' = [from EXCEPT ![a] = SinceFire]
  /\ UNCHANGED <<vars, running, upto, col, samples, taking, buckets>>

\* An operation ends at any time; its end is measured before its sample gets to
\* the collector.
Finish(a) ==
  /\ busy[a] = "op" /\ SinceFire > from[a]
  /\ busy' = [busy EXCEPT ![a] = "done"] /\ upto' = [upto EXCEPT ![a] = SinceFire]
  /\ UNCHANGED <<vars, running, from, col, samples, taking, buckets>>

Idle(a) ==
  /\ busy' = [busy EXCEPT ![a] = "idle"]
  /\ from' = [from EXCEPT ![a] = 0] /\ upto' = [upto EXCEPT ![a] = 0]
  /\ running' = running

\* The operation was cut off: no sample.
CutOff(a) ==
  /\ busy[a] = "op" /\ CtxDone /\ Idle(a)
  /\ UNCHANGED <<vars, col, samples, taking, buckets>>

\* record and OnSample: what began in the warm-up or ended after the window is
\* not counted live.
Counts(s) == s.offset >= Warmup /\ s.fin <= End

OnSample(a) ==
  LET s == [by |-> a, offset |-> from[a], fin |-> upto[a]] IN
  /\ busy[a] = "done"
  /\ samples' = samples \cup {s}
  /\ cur' = IF Counts(s) THEN cur \cup {s} ELSE cur
  /\ Idle(a)
  /\ UNCHANGED <<vars, ring, pos, taking, buckets>>

-----------------------------------------------------------------------------
(* The run *)

\* Who needs r.mu waits while emitBucket holds it.
NoLock == TRUE  \* wrong: emitBucket lets go of it before it takes the samples out
LockFree == ~taking

\* emitBucket, to the end of its arithmetic: it may have nothing to emit, or nobody
\* to emit it for.
TickRead ==
  /\ LockFree /\ Tick
  /\ taking' = ~(DtMs = 0 \/ deserted)
  /\ UNCHANGED <<agents, col, samples, buckets>>

\* The tail, which is emitted even if nothing is left of the window.
TailLost == FALSE  \* wrong: the tail is lost
TailTaken == ~deserted

FlushRead ==
  /\ LockFree /\ Flush
  /\ taking' = TailTaken
  /\ UNCHANGED <<agents, col, samples, buckets>>

NextPos == (pos + 1) % W

\* snapshot: the current second goes into the ring, and its percentiles are of
\* what the ring then holds. The bucket ends where the clock was read.
Snapshot ==
  /\ ring' = [ring EXCEPT ![pos] = cur]
  /\ pos' = NextPos /\ cur' = {}
  /\ buckets' = Append(buckets, [hi |-> last.hi, live |-> cur, rolling |-> UNION {ring'[s] : s \in Slots}])

TakeOut ==
  /\ taking /\ Snapshot
  /\ taking' = FALSE
  /\ UNCHANGED <<vars, agents, samples>>

\* reset, of the level that begins.
Kept == ring  \* wrong: the window of the previous level
Cleared == EmptyRing

Reset ==
  /\ LockFree /\ LevelTop
  /\ cur' = {} /\ ring' = Cleared /\ pos' = 0
  /\ samples' = {} /\ buckets' = <<>>
  /\ UNCHANGED <<agents, taking>>

\* RunLevel refuses the level before it starts an agent, or returns when every
\* agent has.
Refused ==
  /\ LockFree /\ ~running /\ Desert
  /\ UNCHANGED <<agents, col, samples, taking, buckets>>

Returned ==
  /\ LockFree
  /\ deserted \/ (running /\ \A a \in Agents : busy[a] = "idle")
  /\ CloseWindow
  /\ running' = FALSE
  /\ UNCHANGED <<busy, from, upto, col, samples, taking, buckets>>

\* The coordinator, which also makes the flush and is in it until it returns.
Coordinator ==
  /\ LockFree
  /\ Fire \/ OpenWindow \/ Completed \/ Stop
  /\ UNCHANGED <<agents, col, samples, taking, buckets>>

Elsewhere ==
  /\ Cancel \/ TimePasses
  /\ UNCHANGED <<agents, col, samples, taking, buckets>>

CollectorNext ==
  \/ \E a \in Agents : Start(a) \/ Finish(a) \/ CutOff(a) \/ OnSample(a)
  \/ Begin \/ TickRead \/ FlushRead \/ TakeOut \/ Reset \/ Refused \/ Returned \/ Coordinator \/ Elsewhere

CollectorSpec == CollectorInit /\ [][CollectorNext]_collectorVars

-----------------------------------------------------------------------------
(* Properties *)

Measured == {s \in samples : s.offset >= Warmup}  \* what the summary counts
Live == UNION {buckets[i].live : i \in DOMAIN buckets}

\* The buckets of a whole level, the flushed tail included, count every sample of
\* its summary once, but for the operations that overran the window, which only
\* the summary counts; at every moment what was recorded is in one bucket or still
\* in the current second; and the interval of a bucket is in the window of the level
\* whose samples it counts. All this with samples recorded, and the clock going on,
\* between emitBucket's reading of the clock and its snapshots.
LiveAgreesWithSummary ==
  /\ step = "idle" /\ ~taking => Live = {s \in Measured : s.fin <= End}
  /\ cur \cup Live = {s \in samples : Counts(s)} /\ cur \cap Live = {}
  /\ \A i, j \in DOMAIN buckets : i # j => buckets[i].live \cap buckets[j].live = {}
  /\ \A i \in DOMAIN buckets : firedAt + Warmup <= buckets[i].hi /\ buckets[i].hi <= firedAt + End

\* The rolling percentiles of a bucket are of the samples of the last W buckets
\* of this level, and of no other level.
RollsOverTheLast ==
  \A i \in DOMAIN buckets :
    buckets[i].rolling = UNION {buckets[j].live : j \in {k \in DOMAIN buckets : i - W < k /\ k <= i}}
=============================================================================
