-------------------------- MODULE Collector_proofs --------------------------
(***************************************************************************)
(* The promises of emitBucket's comment, for every warm-up and duration,   *)
(* every resolution of the clock and any schedule of the ticker; and of    *)
(* the collector it empties, for any agents and any ring, that the live    *)
(* buckets and the summary count the same samples.  Then the figures of a  *)
(* level, for any latencies, buckets, percentiles and error texts: those   *)
(* of the summary are true of its samples, and the demo's are the same.    *)
(***************************************************************************)
EXTENDS Collector, Stats, FiniteSetTheorems, FunctionTheorems, WellFoundedInduction, TLAPS

\* Integer division is what it should be.
LEMMA Division ==
  ASSUME NEW a \in Nat, NEW b \in Nat \ {0}
  PROVE  /\ a \div b \in Nat
         /\ (a \div b) * b <= a
         /\ a < (a \div b) * b + b
BY Z3

\* Rounding up: the least number of units that covers d.
LEMMA CeilingDivision ==
  ASSUME NEW d \in Nat \ {0}, NEW b \in Nat \ {0}
  PROVE  LET q == (d + b - 1) \div b IN
         q \in Nat /\ q >= 1 /\ q * b >= d /\ q * b < d + b
<1> DEFINE q == (d + b - 1) \div b
<1>1. q \in Nat /\ q * b <= d + b - 1 /\ d + b - 1 < q * b + b
  BY Division
<1>2. q # 0
  <2> SUFFICES ASSUME q = 0 PROVE FALSE
    OBVIOUS
  <2>1. q * b = 0
    OBVIOUS
  <2> QED BY <1>1, <2>1
<1>3. q * b \in Nat
  BY <1>1
<1> HIDE DEF q
<1>4. q >= 1 /\ q * b >= d /\ q * b < d + b
  BY <1>1, <1>2, <1>3
<1> QED BY <1>1, <1>4 DEF q

-----------------------------------------------------------------------------
(* The inductive invariant *)

\* Ticks past the end of the window are ignored, so lastBucketAt stays in it
\* while the level lasts; a level that was not cancelled lasts to the end.
LevelInv ==
  /\ measuring <=> step = "open"
  /\ firedAt <= now
  /\ step \in {"open", "closed", "flush"} =>
       /\ windowStart <= lastBucketAt /\ lastBucketAt <= now /\ lastBucketAt <= MeasEnd
  /\ (step = "closed" /\ ~cancelled) \/ step = "flush" => deserted \/ now >= MeasEnd

IInv == TypeOK /\ LevelInv /\ DurationIsCeiling /\ EndsInsideTheWindow /\ Tiled

LEMMA InitInv == Init => IInv
<1> SUFFICES ASSUME Init PROVE IInv
  OBVIOUS
<1> USE BucketClockAssumption DEF Init
<1>1. TypeOK
  BY DEF TypeOK, NoBucket
<1>2. LevelInv
  BY DEF LevelInv
<1>3. DurationIsCeiling /\ EndsInsideTheWindow
  BY DEF DurationIsCeiling, EndsInsideTheWindow
<1>4. Tiled
  BY DEF Tiled
<1> QED BY <1>1, <1>2, <1>3, <1>4 DEF IInv

\* What any call of emitBucket leaves behind, given a proper overlap.
LEMMA Emitted ==
  ASSUME IInv, Lo <= Hi, UNCHANGED windowStart,
         NEW dt \in Nat, Emit(dt),
         IF Hi > Lo THEN dt = DtMs ELSE dt = 1
  PROVE  /\ last' \in [lo : Nat, hi : Nat, dt : Nat, t : Nat]
         /\ DurationIsCeiling' /\ EndsInsideTheWindow'
<1> USE BucketClockAssumption
<1>1. Lo \in Nat /\ Hi \in Nat /\ MeasStart \in Nat /\ MeasEnd \in Nat
      /\ MeasStart <= Lo /\ Hi <= MeasEnd
  BY DEF IInv, TypeOK, Lo, Hi, MeasStart, MeasEnd
<1>2. last' = [lo |-> Lo, hi |-> Hi, dt |-> dt, t |-> Hi \div SEC]
  BY DEF Emit
<1>3. /\ Hi \div SEC \in Nat /\ (Hi \div SEC) * SEC <= Hi
      /\ Hi < (Hi \div SEC) * SEC + SEC
  BY <1>1, Division
<1>4. (Hi \div SEC + 1) * SEC = (Hi \div SEC) * SEC + SEC
  BY <1>3
<1>5. EndsInsideTheWindow'
  BY <1>1, <1>2, <1>3, <1>4 DEF EndsInsideTheWindow, MeasStart, MeasEnd
<1>6. DurationIsCeiling'
  <2>1. CASE Hi > Lo
    <3>1. Hi - Lo \in Nat \ {0}
      BY <1>1, <2>1
    <3>2. dt = (Hi - Lo + MS - 1) \div MS
      BY <2>1 DEF DtMs
    <3>3. dt >= 1 /\ dt * MS >= Hi - Lo /\ dt * MS < Hi - Lo + MS
      BY <3>1, <3>2, CeilingDivision
    <3> QED BY <1>2, <3>3 DEF DurationIsCeiling
  <2>2. CASE ~(Hi > Lo)
    <3>1. dt = 1 /\ Hi - Lo = 0
      BY <1>1, <2>2
    <3> QED BY <1>2, <3>1 DEF DurationIsCeiling
  <2> QED BY <2>1, <2>2
<1> QED BY <1>1, <1>2, <1>3, <1>5, <1>6

LEMMA TickInv == IInv /\ Tick => IInv'
<1> SUFFICES ASSUME IInv, Tick PROVE IInv'
  OBVIOUS
<1> USE BucketClockAssumption
<1>1. /\ measuring /\ ~cancelled /\ now <= MeasEnd /\ step = "open" /\ lastBucketAt' = now
      /\ UNCHANGED <<now, step, li, firedAt, windowStart, measuring, cancelled, deserted>>
  BY DEF Tick, Ignored, IInv, LevelInv, TypeOK, MeasEnd, MeasStart
<1>2. Hi = now /\ Lo \in Nat /\ Hi \in Nat /\ MeasStart \in Nat
  BY <1>1 DEF Hi, Lo, IInv, TypeOK, MeasEnd, MeasStart
<1>3. TypeOK' /\ DurationIsCeiling' /\ EndsInsideTheWindow'
  <2>1. CASE DtMs = 0 \/ deserted
    BY <1>1, <2>1 DEF Tick, IInv, TypeOK, DurationIsCeiling, EndsInsideTheWindow, MeasStart, MeasEnd
  <2>2. CASE ~(DtMs = 0 \/ deserted)
    <3>1. Hi > Lo /\ Emit(DtMs)
      BY <2>2 DEF DtMs, Tick
    <3>2. DtMs \in Nat
      BY <1>2, <3>1, CeilingDivision DEF DtMs
    <3>3. /\ last' \in [lo : Nat, hi : Nat, dt : Nat, t : Nat]
          /\ DurationIsCeiling' /\ EndsInsideTheWindow'
      BY <1>1, <1>2, <3>1, <3>2, Emitted
    <3>4. covered' \in Nat
      BY <1>2, <3>1 DEF Emit, IInv, TypeOK
    <3> QED BY <1>1, <3>3, <3>4 DEF IInv, TypeOK
  <2> QED BY <2>1, <2>2
<1>4. LevelInv'
  BY <1>1 DEF IInv, LevelInv, TypeOK, MeasEnd, MeasStart
<1>5. Tiled'
  <2> SUFFICES ASSUME ~deserted PROVE Tiled'
    BY <1>1 DEF Tiled
  <2>1. DtMs = 0 <=> ~(Hi > Lo)
    <3>1. CASE Hi > Lo
      BY <1>2, <3>1, CeilingDivision DEF DtMs
    <3>2. CASE ~(Hi > Lo)
      BY <3>2 DEF DtMs
    <3> QED BY <3>1, <3>2
  <2>2. covered' = covered + (IF Hi > Lo THEN Hi - Lo ELSE 0)
    BY <1>2, <2>1 DEF Tick, Emit, IInv, TypeOK
  <2>3. lastBucketAt \in Nat /\ covered \in Nat /\ now \in Nat /\ lastBucketAt <= now
    BY <1>1 DEF IInv, LevelInv, TypeOK
  <2>4. covered = IF lastBucketAt > MeasStart THEN lastBucketAt - MeasStart ELSE 0
    BY <1>1 DEF IInv, Tiled
  <2>5. MeasStart' = MeasStart
    BY <1>1 DEF MeasStart
  <2> QED BY <1>1, <1>2, <2>2, <2>3, <2>4, <2>5 DEF Tiled, Lo
<1> QED BY <1>3, <1>4, <1>5 DEF IInv

LEMMA FlushInv == IInv /\ Flush => IInv'
<1> SUFFICES ASSUME IInv, Flush PROVE IInv'
  OBVIOUS
<1> USE BucketClockAssumption
<1>1. /\ step = "flush" /\ (deserted \/ now >= MeasEnd) /\ lastBucketAt <= MeasEnd /\ ~measuring
      /\ lastBucketAt' = now /\ step' = "idle" /\ li' = li + 1
      /\ UNCHANGED <<now, firedAt, windowStart, measuring, cancelled, deserted>>
  BY DEF Flush, IInv, LevelInv
<1>2. LevelInv'
  BY <1>1 DEF IInv, LevelInv
<1>3. CASE deserted
  BY <1>1, <1>2, <1>3
  DEF Flush, IInv, TypeOK, DurationIsCeiling, EndsInsideTheWindow, Tiled, MeasStart, MeasEnd
<1>4. CASE ~deserted
  <2>1. /\ Lo \in Nat /\ Hi = MeasEnd /\ Hi \in Nat /\ MeasStart \in Nat /\ Lo <= Hi
        /\ lastBucketAt \in Nat /\ covered \in Nat /\ Emit(Floor(DtMs))
    BY <1>1, <1>4 DEF Flush, Hi, Lo, IInv, TypeOK, MeasEnd, MeasStart
  <2>2. Floor(DtMs) \in Nat /\ IF Hi > Lo THEN Floor(DtMs) = DtMs ELSE Floor(DtMs) = 1
    <3>1. CASE Hi > Lo
      BY <2>1, <3>1, CeilingDivision DEF Floor, DtMs
    <3>2. CASE ~(Hi > Lo)
      BY <3>2 DEF Floor, DtMs
    <3> QED BY <3>1, <3>2
  <2>3. /\ last' \in [lo : Nat, hi : Nat, dt : Nat, t : Nat]
        /\ DurationIsCeiling' /\ EndsInsideTheWindow'
    BY <1>1, <2>1, <2>2, Emitted
  <2>4. covered' = Duration
    <3>1. covered' = covered + (IF Hi > Lo THEN Hi - Lo ELSE 0)
      BY <2>1 DEF Emit
    <3>2. covered = IF lastBucketAt > MeasStart THEN lastBucketAt - MeasStart ELSE 0
      BY <1>1, <1>4 DEF IInv, Tiled
    <3> QED BY <1>1, <2>1, <3>1, <3>2 DEF Lo, MeasEnd
  <2>5. TypeOK'
    BY <1>1, <2>3, <2>4 DEF IInv, TypeOK
  <2>6. Tiled'
    BY <1>1, <2>4 DEF IInv, Tiled
  <2> QED BY <1>2, <2>3, <2>5, <2>6 DEF IInv
<1> QED BY <1>3, <1>4

LEMMA NextInv == IInv /\ [Next]_vars => IInv'
<1> SUFFICES ASSUME IInv, [Next]_vars PROVE IInv'
  OBVIOUS
<1> USE BucketClockAssumption DEF IInv, TypeOK, LevelInv, DurationIsCeiling, EndsInsideTheWindow,
                                  Tiled, MeasStart, MeasEnd, window
<1>1. CASE LevelTop
  BY <1>1 DEF LevelTop
<1>2. CASE Fire
  BY <1>2 DEF Fire
<1>3. CASE OpenWindow
  BY <1>3 DEF OpenWindow, FromFired, NoBucket
<1>4. CASE Desert
  BY <1>4 DEF Desert
<1>5. CASE CloseWindow
  BY <1>5 DEF CloseWindow
<1>6. CASE Completed
  BY <1>6 DEF Completed
<1>7. CASE Stop
  BY <1>7 DEF Stop
<1>8. CASE Cancel
  BY <1>8 DEF Cancel
<1>9. CASE TimePasses
  BY <1>9 DEF TimePasses
<1>10. CASE UNCHANGED vars
  BY <1>10 DEF vars
<1> QED BY <1>1, <1>2, <1>3, <1>4, <1>5, <1>6, <1>7, <1>8, <1>9, <1>10, TickInv, FlushInv
       DEF Next

LEMMA Inductive == Spec => []IInv
BY InitInv, NextInv, PTL DEF Spec

\* Every bucket, the tail flush included, lasts at least a millisecond, is rounded
\* up by less than one and ends inside its level's window.
THEOREM BucketSafe == Spec => []BucketsAreTrue
<1>1. IInv => BucketsAreTrue
  BY DEF IInv, BucketsAreTrue
<1> QED BY <1>1, Inductive, PTL

\* The buckets of a level cover its measured window, without gap or overlap.
THEOREM TilingSafe == Spec => []Tiled
<1>1. IInv => Tiled
  BY DEF IInv
<1> QED BY <1>1, Inductive, PTL

-----------------------------------------------------------------------------
(* The collector *)

\* Whatever the collector does, the clock around it is that of BucketClock.
LEMMA ClockStep == [CollectorNext]_collectorVars => [Next]_vars
<1> SUFFICES ASSUME [CollectorNext]_collectorVars PROVE [Next]_vars
  OBVIOUS
<1>1. CASE \E a \in Agents : Start(a) \/ Finish(a) \/ CutOff(a) \/ OnSample(a)
  BY <1>1 DEF Start, Finish, CutOff, OnSample
<1>2. CASE Begin
  BY <1>2 DEF Begin
<1>3. CASE TickRead \/ TakeOut
  BY <1>3 DEF TickRead, TakeOut, Next
<1>4. CASE FlushRead
  BY <1>4 DEF FlushRead, Next
<1>5. CASE Reset
  BY <1>5 DEF Reset, Next
<1>6. CASE Refused
  BY <1>6 DEF Refused, Next
<1>7. CASE Returned
  BY <1>7 DEF Returned, Next
<1>8. CASE Coordinator \/ Elsewhere
  BY <1>8 DEF Coordinator, Elsewhere, Next
<1>9. CASE UNCHANGED collectorVars
  BY <1>9 DEF collectorVars
<1> QED BY <1>1, <1>2, <1>3, <1>4, <1>5, <1>6, <1>7, <1>8, <1>9 DEF CollectorNext

\* Agents are about only between the fire of a barrier and the return of their
\* level, and a target that died had none.
Returning ==
  /\ running => step \in {"fired", "open"} /\ ~deserted
  /\ \A a \in Agents : busy[a] # "idle" => running
  /\ step = "level" \/ deserted => samples = {}
  /\ step \in {"fired", "open"} /\ ~running => samples = {}

\* While emitBucket holds its reading of the clock, the level is open or all of it
\* but this snapshot is over; and what it read is a bucket of a target that lives.
Held == taking => step \in {"open", "idle"} /\ ~deserted /\ last # NoBucket

\* Samples and buckets have one origin of time, and a level no bucket before it.
Origin ==
  /\ step \in {"open", "closed", "flush"} \/ taking => windowStart = firedAt
  /\ step \in {"level", "fired"} => buckets = <<>>

\* What is recorded has ended, and an agent's operations follow one another.
InTime ==
  /\ \A a \in Agents : busy[a] = "op" => firedAt + from[a] <= now
  /\ \A a \in Agents : busy[a] = "done" => from[a] < upto[a] /\ firedAt + upto[a] <= now
  /\ \A s \in samples : firedAt + s.fin <= now
  /\ \A s \in samples : busy[s.by] # "idle" => s.fin <= from[s.by]

\* At every moment what counts is either in the current second or in one bucket.
Tally ==
  /\ cur \cup Live = {s \in samples : Counts(s)}
  /\ cur \cap Live = {}
  /\ step = "idle" /\ ~taking => cur = {}
  /\ \A i, j \in DOMAIN buckets : i # j => buckets[i].live \cap buckets[j].live = {}
  /\ \A i \in DOMAIN buckets : firedAt + Warmup <= buckets[i].hi /\ buckets[i].hi <= firedAt + End

\* The slot filled d before the last one, the next to fill being p; it holds the
\* bucket of then, if there is one.
Back(p, d) == IF p > d THEN p - 1 - d ELSE p - 1 - d + W
Wheel ==
  \A d \in Slots : ring[Back(pos, d)] = IF d < Len(buckets) THEN buckets[Len(buckets) - d].live ELSE {}

CInv == IInv /\ CollectorTypeOK /\ Returning /\ Held /\ Origin /\ InTime /\ Tally /\ Wheel /\ RollsOverTheLast

LEMMA CollectorInitInv == CollectorInit => CInv
<1> SUFFICES ASSUME CollectorInit PROVE CInv
  OBVIOUS
<1> USE CollectorAssumption DEF CollectorInit
<1>1. IInv
  BY InitInv
<1>2. CollectorTypeOK
  <2>1. buckets \in Seq([hi : Nat, live : SUBSET Sample, rolling : SUBSET Sample])
    OBVIOUS
  <2>2. ring \in [Slots -> SUBSET Sample] /\ pos \in Slots
    BY DEF EmptyRing, Slots
  <2> QED BY <2>1, <2>2 DEF CollectorTypeOK
<1>3. Returning /\ Held /\ Origin /\ InTime
  BY DEF Returning, Held, Origin, InTime, Init
<1>4. Tally
  BY DEF Tally, Live
<1>5. Wheel
  BY DEF Wheel, Back, EmptyRing, Slots
<1>6. RollsOverTheLast
  BY DEF RollsOverTheLast
<1> QED BY <1>1, <1>2, <1>3, <1>4, <1>5, <1>6 DEF CInv

-----------------------------------------------------------------------------
(* snapshot *)

\* The ring advances by a slot.
LEMMA NextSlot ==
  ASSUME pos \in Slots
  PROVE  /\ NextPos \in Slots
         /\ NextPos = IF pos = W - 1 THEN 0 ELSE pos + 1
<1> USE CollectorAssumption DEF Slots
<1>1. CASE pos = W - 1
  <2>1. W % W = 0
    BY Z3
  <2> QED BY <1>1, <2>1 DEF NextPos
<1>2. CASE pos # W - 1
  <2>1. pos + 1 \in 0..(W - 1)
    BY <1>2
  <2>2. \A m \in 0..(W - 1) : m % W = m
    BY Z3
  <2> QED BY <1>2, <2>1, <2>2 DEF NextPos
<1> QED BY <1>1, <1>2

\* Going back in the ring goes through all of it.
LEMMA BackIsSlot ==
  ASSUME NEW p \in Slots
  PROVE  /\ \A d \in Slots : Back(p, d) \in Slots
         /\ \A s \in Slots : \E d \in Slots : Back(p, d) = s
<1> USE CollectorAssumption DEF Slots, Back
<1>1. ASSUME NEW s \in Slots PROVE \E d \in Slots : Back(p, d) = s
  <2>1. CASE s < p
    <3>1. p - 1 - s \in Slots /\ Back(p, p - 1 - s) = s
      BY <2>1
    <3> QED BY <3>1
  <2>2. CASE ~(s < p)
    <3>1. p - 1 - s + W \in Slots /\ Back(p, p - 1 - s + W) = s
      BY <2>2
    <3> QED BY <3>1
  <2> QED BY <2>1, <2>2
<1> QED BY <1>1

\* What the buckets hold when one is appended.
LEMMA LiveGrows ==
  ASSUME CollectorTypeOK, Snapshot
  PROVE  /\ Len(buckets') = Len(buckets) + 1
         /\ DOMAIN buckets = 1..Len(buckets) /\ DOMAIN buckets' = 1..(Len(buckets) + 1)
         /\ \A i \in DOMAIN buckets : buckets'[i] = buckets[i]
         /\ buckets'[Len(buckets) + 1] = [hi |-> last.hi, live |-> cur, rolling |-> UNION {ring'[s] : s \in Slots}]
         /\ Live' = Live \cup cur
<1> DEFINE n == Len(buckets)
           b == [hi |-> last.hi, live |-> cur, rolling |-> UNION {ring'[s] : s \in Slots}]
<1>1. n \in Nat /\ DOMAIN buckets = 1..n
  BY DEF CollectorTypeOK
<1>2. buckets' = Append(buckets, b)
  BY DEF Snapshot
<1> HIDE DEF b
<1>3. Len(buckets') = n + 1 /\ DOMAIN buckets' = 1..(n + 1) /\ buckets'[n + 1] = b
      /\ \A i \in DOMAIN buckets : buckets'[i] = buckets[i]
  BY <1>1, <1>2 DEF CollectorTypeOK
<1>4. Live' = Live \cup cur
  <2>1. b.live = cur
    BY DEF b
  <2> QED BY <1>1, <1>3, <2>1 DEF Live
<1> QED BY <1>1, <1>3, <1>4 DEF b

\* The new bucket's percentiles are of the slots, hence of the last W buckets.
LEMMA WheelTurns ==
  ASSUME CollectorTypeOK, Wheel, RollsOverTheLast, Snapshot
  PROVE  Wheel' /\ RollsOverTheLast'
<1> USE CollectorAssumption
<1> DEFINE n == Len(buckets)
<1>1. n \in Nat /\ DOMAIN buckets = 1..n /\ DOMAIN buckets' = 1..(n + 1) /\ Len(buckets') = n + 1
      /\ (\A i \in DOMAIN buckets : buckets'[i] = buckets[i])
      /\ buckets'[n + 1] = [hi |-> last.hi, live |-> cur, rolling |-> UNION {ring'[s] : s \in Slots}]
  BY LiveGrows DEF CollectorTypeOK
<1>2. pos \in Slots /\ pos' = (IF pos = W - 1 THEN 0 ELSE pos + 1) /\ pos' \in Slots
  BY NextSlot DEF Snapshot, CollectorTypeOK
<1>3. ring' = [ring EXCEPT ![pos] = cur] /\ ring \in [Slots -> SUBSET Sample]
  BY DEF Snapshot, CollectorTypeOK
<1>4. \A d \in Slots : ring'[Back(pos', d)] = IF d < n + 1 THEN buckets'[n + 1 - d].live ELSE {}
  <2> SUFFICES ASSUME NEW d \in Slots
               PROVE  ring'[Back(pos', d)] = IF d < n + 1 THEN buckets'[n + 1 - d].live ELSE {}
    OBVIOUS
  <2>1. CASE d = 0
    <3>1. Back(pos', d) = pos
      BY <1>2, <2>1 DEF Back, Slots
    <3>2. ring'[pos] = cur
      BY <1>2, <1>3
    <3> QED BY <1>1, <2>1, <3>1, <3>2
  <2>2. CASE d # 0
    <3>1. d - 1 \in Slots /\ Back(pos', d) = Back(pos, d - 1) /\ Back(pos, d - 1) # pos /\ Back(pos, d - 1) \in Slots
      BY <1>2, <2>2 DEF Back, Slots
    <3>2. ring'[Back(pos, d - 1)] = ring[Back(pos, d - 1)]
      BY <1>3, <3>1
    <3>3. ring[Back(pos, d - 1)] = IF d - 1 < n THEN buckets[n - (d - 1)].live ELSE {}
      BY <3>1 DEF Wheel
    <3>4. d < n + 1 <=> d - 1 < n
      BY <1>1 DEF Slots
    <3>5. d < n + 1 => n - (d - 1) \in DOMAIN buckets /\ n + 1 - d = n - (d - 1)
      BY <1>1, <2>2 DEF Slots
    <3> QED BY <1>1, <3>1, <3>2, <3>3, <3>4, <3>5
  <2> QED BY <2>1, <2>2
<1> DEFINE Rolling(m) == UNION {buckets'[j].live : j \in {k \in 1..(n + 1) : m - W < k /\ k <= m}}
<1>5. UNION {ring'[s] : s \in Slots} = Rolling(n + 1)
  <2> DEFINE Window == {k \in 1..(n + 1) : n + 1 - W < k /\ k <= n + 1}
  <2>1. (\A d \in Slots : Back(pos', d) \in Slots) /\ (\A s \in Slots : \E d \in Slots : Back(pos', d) = s)
    BY <1>2, BackIsSlot
  <2>2. ASSUME NEW s \in Slots, NEW x \in ring'[s] PROVE \E j \in Window : x \in buckets'[j].live
    <3>1. PICK d \in Slots : Back(pos', d) = s
      BY <2>1
    <3>2. d < n + 1 /\ x \in buckets'[n + 1 - d].live
      BY <1>4, <2>2, <3>1
    <3>3. n + 1 - d \in Window
      BY <1>1, <3>2 DEF Slots
    <3> QED BY <3>2, <3>3
  <2>3. ASSUME NEW j \in Window, NEW x \in buckets'[j].live PROVE \E s \in Slots : x \in ring'[s]
    <3>1. n + 1 - j \in Slots /\ n + 1 - j < n + 1 /\ n + 1 - (n + 1 - j) = j
      BY <1>1 DEF Slots
    <3>2. ring'[Back(pos', n + 1 - j)] = buckets'[j].live
      BY <1>4, <3>1
    <3> QED BY <2>1, <2>3, <3>1, <3>2
  <2> QED BY <2>2, <2>3
<1>6. RollsOverTheLast'
  <2> SUFFICES ASSUME NEW i \in 1..(n + 1)
               PROVE  buckets'[i].rolling
                        = UNION {buckets'[j].live : j \in {k \in 1..(n + 1) : i - W < k /\ k <= i}}
    BY <1>1 DEF RollsOverTheLast
  <2>1. CASE i = n + 1
    <3>1. buckets'[n + 1].rolling = UNION {ring'[s] : s \in Slots}
      BY <1>1
    <3> HIDE DEF n, Rolling
    <3>2. buckets'[i].rolling = Rolling(i)
      BY <1>5, <2>1, <3>1
    <3> QED BY <3>2 DEF Rolling
  <2>2. CASE i # n + 1
    <3>1. i \in 1..n
      BY <1>1, <2>2
    <3>2. buckets[i].rolling = UNION {buckets[j].live : j \in {k \in 1..n : i - W < k /\ k <= i}}
      BY <1>1, <3>1 DEF RollsOverTheLast
    <3>3. {k \in 1..n : i - W < k /\ k <= i} = {k \in 1..(n + 1) : i - W < k /\ k <= i}
      BY <1>1, <3>1
    <3>4. \A j \in 1..n : buckets'[j].live = buckets[j].live
      BY <1>1
    <3> QED BY <1>1, <3>1, <3>2, <3>3, <3>4
  <2> QED BY <2>1, <2>2
<1>7. Wheel'
  BY <1>1, <1>4 DEF Wheel, Slots
<1> QED BY <1>6, <1>7

\* What is taken out is in no bucket before this one, which ends where the clock was
\* read, in the window that is open or was just closed.
LEMMA TakeOutInv == CInv /\ TakeOut => CInv'
<1> SUFFICES ASSUME CInv, TakeOut PROVE CInv'
  OBVIOUS
<1> USE CollectorAssumption, BucketClockAssumption
<1> DEFINE n == Len(buckets)
<1>0. Snapshot /\ taking /\ taking' = FALSE /\ UNCHANGED <<vars, agents, samples>>
  BY DEF TakeOut
<1>1. n \in Nat /\ DOMAIN buckets = 1..n /\ DOMAIN buckets' = 1..(n + 1)
      /\ (\A i \in 1..n : buckets'[i] = buckets[i])
      /\ buckets'[n + 1] = [hi |-> last.hi, live |-> cur, rolling |-> UNION {ring'[s] : s \in Slots}]
      /\ Live' = Live \cup cur
  BY <1>0, LiveGrows DEF CollectorTypeOK, CInv
<1>2. cur' = {} /\ pos' \in Slots /\ ring' = [ring EXCEPT ![pos] = cur]
  BY <1>0, NextSlot DEF Snapshot, CollectorTypeOK, CInv
<1>3. last.hi \in Nat /\ firedAt + Warmup <= last.hi /\ last.hi <= firedAt + End
  <2>1. last # NoBucket /\ windowStart = firedAt
    BY <1>0 DEF CInv, Held, Origin
  <2>2. last.hi \in Nat /\ last.lo \in Nat /\ MeasStart <= last.lo /\ last.lo <= last.hi /\ last.hi <= MeasEnd
    BY <2>1 DEF CInv, IInv, TypeOK, EndsInsideTheWindow
  <2>3. MeasStart \in Nat /\ MeasStart = firedAt + Warmup /\ MeasEnd = firedAt + End /\ firedAt \in Nat
    BY <2>1 DEF MeasStart, MeasEnd, End, CInv, IInv, TypeOK
  <2> QED BY <2>2, <2>3
<1>4. cur \subseteq Sample /\ ring' \in [Slots -> SUBSET Sample]
  BY <1>2 DEF CInv, CollectorTypeOK
<1>5. CollectorTypeOK'
  <2> DEFINE Bucket == [hi : Nat, live : SUBSET Sample, rolling : SUBSET Sample]
             b == [hi |-> last.hi, live |-> cur, rolling |-> UNION {ring'[s] : s \in Slots}]
  <2>1. UNION {ring'[s] : s \in Slots} \in SUBSET Sample
    BY <1>4
  <2>2. b \in Bucket
    BY <1>3, <1>4, <2>1
  <2>3. buckets \in Seq(Bucket) /\ buckets' = Append(buckets, b)
    BY <1>0 DEF CInv, CollectorTypeOK, Snapshot
  <2> HIDE DEF Bucket, b
  <2>4. buckets' \in Seq(Bucket)
    BY <2>2, <2>3
  <2> QED BY <1>0, <1>2, <1>4, <2>4 DEF Bucket, CInv, CollectorTypeOK, agents
<1>6. InTime'
  BY <1>0 DEF CInv, InTime, agents, vars
<1>7. Tally'
  <2>4. \A i \in 1..n : buckets[i].live \cap cur = {}
    BY <1>1 DEF CInv, Tally, Live
  <2>5. \A i, j \in 1..(n + 1) : i # j => buckets'[i].live \cap buckets'[j].live = {}
    <3> SUFFICES ASSUME NEW i \in 1..(n + 1), NEW j \in 1..(n + 1), i # j
                 PROVE  buckets'[i].live \cap buckets'[j].live = {}
      OBVIOUS
    <3>1. CASE i = n + 1
      <4>1. j \in 1..n /\ buckets'[i].live = cur
        BY <1>1, <3>1
      <4> QED BY <1>1, <2>4, <4>1
    <3>2. CASE j = n + 1
      <4>1. i \in 1..n /\ buckets'[j].live = cur
        BY <1>1, <3>2
      <4> QED BY <1>1, <2>4, <4>1
    <3>3. CASE i # n + 1 /\ j # n + 1
      <4>1. i \in 1..n /\ j \in 1..n
        BY <1>1, <3>3
      <4> QED BY <1>1, <4>1 DEF CInv, Tally
    <3> QED BY <3>1, <3>2, <3>3
  <2>6. cur' \cup Live' = {s \in samples' : Counts(s)}
    BY <1>0, <1>1, <1>2 DEF CInv, Tally
  <2>7. \A i \in 1..(n + 1) : firedAt + Warmup <= buckets'[i].hi /\ buckets'[i].hi <= firedAt + End
    <3> SUFFICES ASSUME NEW i \in 1..(n + 1)
                 PROVE  firedAt + Warmup <= buckets'[i].hi /\ buckets'[i].hi <= firedAt + End
      OBVIOUS
    <3>1. CASE i = n + 1
      BY <1>1, <1>3, <3>1
    <3>2. CASE i # n + 1
      <4>1. i \in 1..n
        BY <1>1, <3>2
      <4> QED BY <1>1, <4>1 DEF CInv, Tally
    <3> QED BY <3>1, <3>2
  <2>8. firedAt' = firedAt
    BY <1>0 DEF vars
  <2> QED BY <1>1, <1>2, <2>5, <2>6, <2>7, <2>8 DEF Tally, Counts
<1>8. Wheel' /\ RollsOverTheLast'
  BY <1>0, WheelTurns DEF CInv
<1>9. UNCHANGED <<now, step, firedAt, windowStart, deserted, last>> /\ IInv'
  BY <1>0, NextInv DEF vars, CInv
<1>10. Returning' /\ Held' /\ Origin'
  BY <1>0, <1>9 DEF CInv, Returning, Held, Origin, agents
<1> QED BY <1>5, <1>6, <1>7, <1>8, <1>9, <1>10 DEF CInv

-----------------------------------------------------------------------------
(* Every step *)

\* What a step that leaves the collector alone leaves true of it.
LEMMA CollectorAlone ==
  ASSUME CInv, UNCHANGED <<col, samples, buckets>>, UNCHANGED firedAt \/ buckets = <<>>,
         (step' = "idle" /\ ~taking') => (step = "idle" /\ ~taking) \/ cur = {}
  PROVE  Tally' /\ Wheel' /\ RollsOverTheLast'
<1>1. ring' = ring /\ pos' = pos /\ cur' = cur /\ buckets' = buckets /\ samples' = samples
  BY DEF col
<1>2. Wheel'
  BY <1>1 DEF CInv, Wheel
<1>3. RollsOverTheLast'
  BY <1>1 DEF CInv, RollsOverTheLast
<1>4. Live' = Live
  BY <1>1 DEF Live
<1>5. Tally'
  BY <1>1, <1>4 DEF CInv, Tally, Counts
<1> QED BY <1>2, <1>3, <1>5

LEMMA AgentInv == CInv /\ (Begin \/ \E a \in Agents : Start(a) \/ Finish(a) \/ CutOff(a)) => CInv'
<1> SUFFICES ASSUME CInv, Begin \/ \E a \in Agents : Start(a) \/ Finish(a) \/ CutOff(a) PROVE CInv'
  OBVIOUS
<1> USE CollectorAssumption, BucketClockAssumption
<1>1. UNCHANGED <<vars, col, samples, taking, buckets>>
  BY DEF Begin, Start, Finish, CutOff
<1>2. IInv'
  BY <1>1, NextInv DEF CInv
<1>3. Tally' /\ Wheel' /\ RollsOverTheLast'
  BY <1>1, CollectorAlone DEF vars
<1>4. UNCHANGED <<now, step, firedAt, windowStart, deserted, last>>
  BY <1>1 DEF vars
<1>5. Held' /\ Origin'
  BY <1>1, <1>4 DEF CInv, Held, Origin
<1>6. now \in Nat /\ firedAt \in Nat /\ firedAt <= now /\ SinceFire \in Nat /\ SinceFire = now - firedAt
  BY DEF CInv, IInv, TypeOK, LevelInv, SinceFire
<1>7. CASE Begin
  <2>1. running' = TRUE /\ step \in {"fired", "open"} /\ ~deserted /\ UNCHANGED <<busy, from, upto>>
    BY <1>7 DEF Begin
  <2>2. CollectorTypeOK'
    BY <1>1, <2>1 DEF CInv, CollectorTypeOK, col
  <2>3. Returning' /\ InTime'
    BY <1>1, <1>4, <2>1 DEF CInv, Returning, InTime
  <2> QED BY <1>2, <1>3, <1>5, <2>2, <2>3 DEF CInv
<1>8. ASSUME NEW a \in Agents, Start(a) PROVE CInv'
  <2>1. /\ running /\ running' = running /\ busy' = [busy EXCEPT ![a] = "op"]
        /\ from' = [from EXCEPT ![a] = SinceFire] /\ upto' = upto
    BY <1>8 DEF Start
  <2>2. CollectorTypeOK'
    BY <1>1, <1>6, <2>1 DEF CInv, CollectorTypeOK, col
  <2>3. Returning'
    BY <1>1, <1>4, <2>1 DEF CInv, Returning, CollectorTypeOK
  <2>4. InTime'
    BY <1>1, <1>4, <1>6, <2>1 DEF CInv, InTime, CollectorTypeOK, Sample
  <2> QED BY <1>2, <1>3, <1>5, <2>2, <2>3, <2>4 DEF CInv
<1>9. ASSUME NEW a \in Agents, Finish(a) PROVE CInv'
  <2>1. /\ busy[a] = "op" /\ SinceFire > from[a] /\ running' = running
        /\ busy' = [busy EXCEPT ![a] = "done"] /\ upto' = [upto EXCEPT ![a] = SinceFire] /\ from' = from
    BY <1>9 DEF Finish
  <2>2. CollectorTypeOK'
    BY <1>1, <1>6, <2>1 DEF CInv, CollectorTypeOK, col
  <2>3. Returning'
    BY <1>1, <1>4, <2>1 DEF CInv, Returning, CollectorTypeOK
  <2>4. InTime'
    BY <1>1, <1>4, <1>6, <2>1 DEF CInv, InTime, CollectorTypeOK, Sample
  <2> QED BY <1>2, <1>3, <1>5, <2>2, <2>3, <2>4 DEF CInv
<1>10. ASSUME NEW a \in Agents, CutOff(a) PROVE CInv'
  <2>1. /\ busy[a] = "op" /\ running' = running /\ busy' = [busy EXCEPT ![a] = "idle"]
        /\ upto' = [upto EXCEPT ![a] = 0] /\ from' = [from EXCEPT ![a] = 0]
    BY <1>10 DEF CutOff, Idle
  <2>2. CollectorTypeOK'
    BY <1>1, <2>1 DEF CInv, CollectorTypeOK, col
  <2>3. Returning'
    BY <1>1, <1>4, <2>1 DEF CInv, Returning, CollectorTypeOK
  <2>4. InTime'
    BY <1>1, <1>4, <2>1 DEF CInv, InTime, CollectorTypeOK, Sample
  <2> QED BY <1>2, <1>3, <1>5, <2>2, <2>3, <2>4 DEF CInv
<1> QED BY <1>7, <1>8, <1>9, <1>10

\* A sample is new: its agent's earlier ones ended before this one began.
LEMMA OnSampleInv == ASSUME CInv, NEW a \in Agents, OnSample(a) PROVE CInv'
<1> USE CollectorAssumption, BucketClockAssumption
<1> DEFINE s == [by |-> a, offset |-> from[a], fin |-> upto[a]]
<1>1. /\ busy[a] = "done" /\ samples' = samples \cup {s}
      /\ cur' = (IF Counts(s) THEN cur \cup {s} ELSE cur)
      /\ busy' = [busy EXCEPT ![a] = "idle"] /\ running' = running
      /\ from' = [from EXCEPT ![a] = 0] /\ upto' = [upto EXCEPT ![a] = 0]
      /\ UNCHANGED <<vars, ring, pos, taking, buckets>>
  BY DEF OnSample, Idle
<1>2. UNCHANGED <<now, step, firedAt, windowStart, deserted, last>>
  BY <1>1 DEF vars
<1>3. IInv'
  BY <1>1, NextInv DEF CInv
<1>4. running /\ ~deserted /\ step \in {"fired", "open"}
  BY <1>1 DEF CInv, Returning
<1>5. from[a] < upto[a] /\ firedAt + upto[a] <= now /\ from[a] \in Nat /\ upto[a] \in Nat
  BY <1>1 DEF CInv, InTime, CollectorTypeOK
<1>6. s \in Sample /\ s.by = a /\ s.fin = upto[a]
  BY <1>5 DEF Sample
<1>7. s \notin samples
  <2>1. \A q \in samples : q.by = a => q.fin <= from[a] /\ q.fin \in Nat
    BY <1>1 DEF CInv, InTime, CollectorTypeOK, Sample
  <2> QED BY <1>5, <1>6, <2>1
<1> HIDE DEF s
<1>8. CollectorTypeOK'
  BY <1>1, <1>6 DEF CInv, CollectorTypeOK
<1>9. Returning'
  BY <1>1, <1>2, <1>4 DEF CInv, Returning, CollectorTypeOK
<1>10. Held' /\ Origin'
  BY <1>1, <1>2 DEF CInv, Held, Origin
<1>11. InTime'
  <2>1. \A b \in Agents : b # a => busy'[b] = busy[b] /\ from'[b] = from[b] /\ upto'[b] = upto[b]
    BY <1>1 DEF CInv, CollectorTypeOK
  <2>2. busy'[a] = "idle"
    BY <1>1 DEF CInv, CollectorTypeOK
  <2>3. \A q \in samples' : q = s \/ q \in samples
    BY <1>1
  <2>4. \A q \in samples : q.by \in Agents
    BY DEF CInv, CollectorTypeOK, Sample
  <2> QED BY <1>1, <1>2, <1>5, <1>6, <2>1, <2>2, <2>3, <2>4 DEF CInv, InTime
<1>12. Tally'
  <2>1. Live' = Live
    BY <1>1 DEF Live
  <2>2. \A q \in cur \cup Live : q \in samples
    BY DEF CInv, Tally
  <2>3. cur' \cup Live' = {q \in samples' : Counts(q)} /\ cur' \cap Live' = {}
    BY <1>1, <1>7, <2>1, <2>2 DEF CInv, Tally
  <2> QED BY <1>1, <1>2, <1>4, <2>3 DEF CInv, Tally, Counts
<1>13. Wheel' /\ RollsOverTheLast'
  BY <1>1 DEF CInv, Wheel, RollsOverTheLast
<1> QED BY <1>3, <1>8, <1>9, <1>10, <1>11, <1>12, <1>13 DEF CInv

LEMMA ResetInv == CInv /\ Reset => CInv'
<1> SUFFICES ASSUME CInv, Reset PROVE CInv'
  OBVIOUS
<1> USE CollectorAssumption
<1>1. /\ step = "idle" /\ step' = "level" /\ UNCHANGED agents /\ ~taking /\ taking' = taking
      /\ cur' = {} /\ ring' = EmptyRing /\ pos' = 0 /\ samples' = {} /\ buckets' = <<>>
      /\ ~deserted' /\ ~running
  BY DEF Reset, LevelTop, LockFree, Cleared, CInv, Returning
<1>2. IInv'
  BY NextInv DEF CInv, Reset, Next
<1>3. UNCHANGED <<now, firedAt>>
  BY DEF Reset, LevelTop
<1>4. CollectorTypeOK'
  <2>1. buckets' \in Seq([hi : Nat, live : SUBSET Sample, rolling : SUBSET Sample])
    BY <1>1
  <2>2. ring' \in [Slots -> SUBSET Sample] /\ pos' \in Slots
    BY <1>1 DEF EmptyRing, Slots
  <2> QED BY <1>1, <2>1, <2>2 DEF CInv, CollectorTypeOK, agents
<1>5. Returning' /\ Held' /\ Origin' /\ InTime'
  BY <1>1, <1>3 DEF CInv, Returning, Held, Origin, InTime, agents
<1>6. Tally'
  BY <1>1 DEF Tally, Live
<1>7. Wheel'
  BY <1>1 DEF Wheel, Back, EmptyRing, Slots
<1>8. RollsOverTheLast'
  BY <1>1 DEF RollsOverTheLast
<1> QED BY <1>2, <1>4, <1>5, <1>6, <1>7, <1>8 DEF CInv

\* A step of the coordinator, the clock or a client, with all agents where they were.
LEMMA Undisturbed ==
  ASSUME CInv, IInv', UNCHANGED <<busy, from, upto, col, samples, buckets>>,
         UNCHANGED firedAt \/ (buckets = <<>> /\ samples = {} /\ ~running),
         now' \in Nat, now' >= now, running' \in BOOLEAN, taking' \in BOOLEAN,
         Returning', Held', Origin', (step' = "idle" /\ ~taking') => (step = "idle" /\ ~taking) \/ cur = {}
  PROVE  CInv'
<1>1. Tally' /\ Wheel' /\ RollsOverTheLast'
  BY CollectorAlone
<1>2. CollectorTypeOK'
  BY DEF CInv, CollectorTypeOK, col
<1>3. now \in Nat /\ firedAt \in Nat /\ (\A a \in Agents : upto[a] \in Nat /\ from[a] \in Nat)
      /\ \A s \in samples : s.fin \in Nat
  BY DEF CInv, IInv, TypeOK, CollectorTypeOK, Sample
<1>4. CASE UNCHANGED firedAt
  <2>1. \A a \in Agents : busy[a] = "op" => firedAt + from[a] <= now'
    BY <1>3 DEF CInv, InTime
  <2>2. \A a \in Agents : busy[a] = "done" => from[a] < upto[a] /\ firedAt + upto[a] <= now'
    BY <1>3 DEF CInv, InTime
  <2>3. \A s \in samples : firedAt + s.fin <= now'
    BY <1>3 DEF CInv, InTime
  <2>4. InTime'
    BY <1>4, <2>1, <2>2, <2>3 DEF CInv, InTime
  <2> QED BY <1>1, <1>2, <2>4 DEF CInv
<1>5. CASE samples = {} /\ ~running
  <2>1. \A a \in Agents : busy[a] = "idle"
    BY <1>5 DEF CInv, Returning, CollectorTypeOK
  <2>2. InTime'
    BY <1>5, <2>1 DEF InTime
  <2> QED BY <1>1, <1>2, <2>2 DEF CInv
<1> QED BY <1>4, <1>5

\* A bucket of some duration is one.
LEMMA EmittedSome == ASSUME NEW dt, dt # 0, Emit(dt) PROVE last' # NoBucket
<1>1. last'.dt = dt
  BY DEF Emit
<1>2. NoBucket.dt = 0
  BY DEF NoBucket
<1> QED BY <1>1, <1>2

\* emitBucket reads the clock of the open window; if there is nothing to take, no
\* lock is held afterwards.
LEMMA TickReadInv == CInv /\ TickRead => CInv'
<1> SUFFICES ASSUME CInv, TickRead PROVE CInv'
  OBVIOUS
<1>1. /\ step = "open" /\ taking' = ~(DtMs = 0 \/ deserted)
      /\ UNCHANGED <<now, step, firedAt, windowStart, deserted, agents, col, samples, buckets>>
  BY DEF TickRead, Tick, Ignored, CInv, IInv, LevelInv
<1>2. IInv' /\ now \in Nat /\ running \in BOOLEAN /\ now >= now
  BY NextInv DEF CInv, TickRead, Next, IInv, TypeOK, CollectorTypeOK
<1>3. taking' => last' # NoBucket
  <2>1. taking' => DtMs # 0 /\ Emit(DtMs)
    BY <1>1 DEF TickRead, Tick
  <2> QED BY <2>1, EmittedSome
<1>4. Returning' /\ Held' /\ Origin'
  BY <1>1, <1>3 DEF CInv, Returning, Held, Origin, agents
<1> QED BY <1>1, <1>2, <1>4, Undisturbed DEF agents

\* The tail is taken after the last sample of the level; if it is not, the target
\* had died and counts nothing.
LEMMA FlushReadInv == CInv /\ FlushRead => CInv'
<1> SUFFICES ASSUME CInv, FlushRead PROVE CInv'
  OBVIOUS
<1>1. /\ step = "flush" /\ step' = "idle" /\ taking' = ~deserted
      /\ UNCHANGED <<now, firedAt, windowStart, deserted, agents, col, samples, buckets>>
      /\ ~running /\ windowStart = firedAt
  BY DEF FlushRead, Flush, TailTaken, CInv, Returning, Origin
<1>2. IInv' /\ now \in Nat /\ running \in BOOLEAN /\ now >= now
  BY NextInv DEF CInv, FlushRead, Next, IInv, TypeOK, CollectorTypeOK
<1>3. taking' => last' # NoBucket
  <2>1. Floor(DtMs) # 0
    BY DEF Floor
  <2>2. taking' => Emit(Floor(DtMs))
    BY <1>1 DEF FlushRead, Flush
  <2> QED BY <2>1, <2>2, EmittedSome
<1>4. Returning' /\ Held' /\ Origin'
  BY <1>1, <1>3 DEF CInv, Returning, Held, Origin, agents
<1>5. deserted => cur = {}
  BY DEF CInv, Returning, Tally
<1> QED BY <1>1, <1>2, <1>4, <1>5, Undisturbed DEF agents

LEMMA AroundInv == CInv /\ (Refused \/ Returned \/ Coordinator \/ Elsewhere) => CInv'
<1> SUFFICES ASSUME CInv, Refused \/ Returned \/ Coordinator \/ Elsewhere PROVE CInv'
  OBVIOUS
<1>1. UNCHANGED <<busy, from, upto, col, samples, taking, buckets>>
  BY DEF Refused, Returned, Coordinator, Elsewhere, agents
<1>2. IInv'
  BY NextInv DEF CInv, Refused, Returned, Coordinator, Elsewhere, Next
<1>3. now \in Nat /\ running \in BOOLEAN /\ now >= now /\ taking \in BOOLEAN
  BY DEF CInv, IInv, TypeOK, CollectorTypeOK
<1>4. CASE Refused
  <2>1. step \in {"fired", "open"} /\ ~running /\ running' = running
        /\ UNCHANGED <<now, step, firedAt, windowStart>> /\ ~taking
    BY <1>4 DEF Refused, Desert, LockFree, agents, window
  <2>2. Returning' /\ Held' /\ Origin'
    BY <1>1, <2>1 DEF CInv, Returning, Held, Origin
  <2> QED BY <1>1, <1>2, <1>3, <2>1, <2>2, Undisturbed
<1>5. CASE Returned
  <2>1. /\ step = "open" /\ step' = "closed" /\ running' = FALSE
        /\ deserted \/ \A a \in Agents : busy[a] = "idle"
        /\ UNCHANGED <<now, firedAt, windowStart, deserted>> /\ ~taking
    BY <1>5 DEF Returned, CloseWindow, LockFree
  <2>2. \A a \in Agents : busy[a] = "idle"
    BY <2>1 DEF CInv, Returning
  <2>3. Returning' /\ Held' /\ Origin'
    BY <1>1, <2>1, <2>2 DEF CInv, Returning, Held, Origin
  <2> QED BY <1>1, <1>2, <1>3, <2>1, <2>3, Undisturbed
<1>6. CASE Fire /\ UNCHANGED agents /\ ~taking
  <2>1. /\ step = "level" /\ step' = "fired" /\ samples = {} /\ ~running /\ running' = running /\ buckets = <<>>
        /\ UNCHANGED <<now, deserted>>
    BY <1>6 DEF Fire, CInv, Returning, Origin, agents
  <2>2. Returning' /\ Held' /\ Origin'
    BY <1>1, <2>1 DEF CInv, Returning, Held, Origin
  <2> QED BY <1>1, <1>2, <1>3, <2>1, <2>2, Undisturbed
<1>7. CASE OpenWindow /\ UNCHANGED agents /\ ~taking
  <2>1. /\ step = "fired" /\ step' = "open" /\ windowStart' = firedAt /\ running' = running
        /\ UNCHANGED <<now, firedAt, deserted>>
    BY <1>7 DEF OpenWindow, FromFired, agents
  <2>2. Returning' /\ Held' /\ Origin'
    BY <1>1, <2>1 DEF CInv, Returning, Held, Origin
  <2> QED BY <1>1, <1>2, <1>3, <2>1, <2>2, Undisturbed
<1>8. CASE (Completed \/ Stop) /\ UNCHANGED agents /\ ~taking
  <2>1. /\ (step \in {"idle", "closed"} /\ step' = "over") \/ (step = "closed" /\ step' = "flush")
        /\ running' = running /\ ~taking /\ UNCHANGED <<now, firedAt, windowStart, deserted>>
    BY <1>8 DEF Completed, Stop, agents, window
  <2>2. Returning' /\ Held' /\ Origin'
    BY <1>1, <2>1 DEF CInv, Returning, Held, Origin
  <2> QED BY <1>1, <1>2, <1>3, <2>1, <2>2, Undisturbed
<1>9. CASE (Cancel \/ TimePasses) /\ UNCHANGED agents
  <2>1. /\ now' \in Nat /\ now' >= now /\ running' = running
        /\ UNCHANGED <<step, firedAt, windowStart, deserted, last>>
    BY <1>3, <1>9 DEF Cancel, TimePasses, agents, window
  <2>2. Returning' /\ Held' /\ Origin'
    BY <1>1, <2>1 DEF CInv, Returning, Held, Origin
  <2> QED BY <1>1, <1>2, <1>3, <2>1, <2>2, Undisturbed
<1> QED BY <1>4, <1>5, <1>6, <1>7, <1>8, <1>9 DEF Coordinator, Elsewhere, LockFree

LEMMA CollectorNextInv == CInv /\ [CollectorNext]_collectorVars => CInv'
<1> SUFFICES ASSUME CInv, [CollectorNext]_collectorVars PROVE CInv'
  OBVIOUS
<1>1. CASE UNCHANGED collectorVars
  <2>1. UNCHANGED <<vars, agents, col, samples, taking, buckets>>
    BY <1>1 DEF collectorVars
  <2>2. UNCHANGED <<now, step, firedAt, windowStart, deserted, last>> /\ IInv'
    BY <2>1, NextInv DEF vars, CInv
  <2>3. Returning' /\ Held' /\ Origin' /\ UNCHANGED agents
    BY <2>1, <2>2 DEF CInv, Returning, Held, Origin, agents
  <2>4. now \in Nat /\ running \in BOOLEAN /\ taking \in BOOLEAN /\ now >= now
    BY DEF CInv, IInv, TypeOK, CollectorTypeOK
  <2> QED BY <2>1, <2>2, <2>3, <2>4, Undisturbed DEF agents
<1>2. CASE CollectorNext
  BY <1>2, AgentInv, OnSampleInv, TickReadInv, FlushReadInv, TakeOutInv, ResetInv, AroundInv DEF CollectorNext
<1> QED BY <1>1, <1>2

LEMMA CollectorInductive == CollectorSpec => []CInv
BY CollectorInitInv, CollectorNextInv, PTL DEF CollectorSpec

\* The collector disturbs no bucket's time: with the agents, the counts and the
\* ring beside it the clock makes its own steps or none.
THEOREM CollectorRunsOnTheClock == CollectorSpec => Spec
<1>1. CollectorInit => Init
  BY DEF CollectorInit
<1> QED BY <1>1, ClockStep, PTL DEF CollectorSpec, Spec

\* The buckets of a whole level and its summary count the same samples, each once,
\* but for those that overran the window, and every bucket lies in the window of the
\* level it counts, though agents go on between emitBucket's clock and its snapshots.
THEOREM CountsSafe == CollectorSpec => []LiveAgreesWithSummary
<1>1. CInv => LiveAgreesWithSummary
  <2> SUFFICES ASSUME CInv PROVE LiveAgreesWithSummary
    OBVIOUS
  <2>1. {s \in samples : Counts(s)} = {s \in Measured : s.fin <= End}
    BY DEF Counts, Measured
  <2>2. step = "idle" /\ ~taking => Live = {s \in Measured : s.fin <= End}
    BY <2>1 DEF CInv, Tally
  <2> QED BY <2>2 DEF CInv, Tally, LiveAgreesWithSummary
<1> QED BY <1>1, CollectorInductive, PTL

\* Rolling percentiles are of the last W buckets of the level, whatever W.
THEOREM RollingSafe == CollectorSpec => []RollsOverTheLast
<1>1. CInv => RollsOverTheLast
  BY DEF CInv
<1> QED BY <1>1, CollectorInductive, PTL

-----------------------------------------------------------------------------
(* Least and greatest numbers *)

\* A set of numbers has its least.
LEMMA LeastOf ==
  ASSUME NEW S \in SUBSET Nat, S # {}
  PROVE  Min(S) \in S /\ \A m \in S : Min(S) <= m
<1> DEFINE Less == OpToRel(<, Nat)
<1>1. IsWellFoundedOn(Less, Nat)
  BY NatLessThanWellFounded, Zenon
<1>2. Less = {p \in Nat \X Nat : p[1] < p[2]}
  BY DEF OpToRel
<1> HIDE DEF Less
<1>3. PICK n \in S : \A m \in S : <<m, n>> \notin Less
  BY <1>1, WFMin
<1>4. \A m \in Nat : m < n => <<m, n>> \in Less
  BY <1>2
<1>5. \A m \in S : ~(m < n)
  BY <1>3, <1>4
<1>6. \A m \in S : n <= m
  BY <1>5
<1> QED BY <1>6 DEF Min

\* A bounded one has its greatest.
LEMMA GreatestOf ==
  ASSUME NEW S \in SUBSET Nat, S # {}, NEW b \in Nat, \A m \in S : m <= b
  PROVE  Max(S) \in S /\ \A m \in S : m <= Max(S)
<1> DEFINE Bounds == {n \in Nat : \A m \in S : m <= n}
<1>1. b \in Bounds /\ Bounds \in SUBSET Nat
  OBVIOUS
<1> DEFINE top == Min(Bounds)
<1>2. top \in Bounds /\ \A n \in Bounds : top <= n
  BY <1>1, LeastOf
<1> HIDE DEF top
<1>3. top \in S
  <2> SUFFICES ASSUME top \notin S PROVE FALSE
    OBVIOUS
  <2>1. top \in Nat /\ \A m \in S : m \in Nat /\ m < top
    BY <1>2
  <2> PICK low \in S : TRUE
    OBVIOUS
  <2>2. top - 1 \in Nat /\ \A m \in S : m <= top - 1
    BY <2>1
  <2>3. top - 1 \in Bounds
    BY <2>2
  <2> QED BY <2>1, <2>3, <1>2
<1> QED BY <1>2, <1>3 DEF Max

\* The larger and the smaller of two.
LEMMA LargerOf ==
  ASSUME NEW a \in Int, NEW b \in Int
  PROVE  /\ Max({a, b}) = IF a >= b THEN a ELSE b
         /\ Min({a, b}) = IF a <= b THEN a ELSE b
BY DEF Max, Min

-----------------------------------------------------------------------------
(* Tallies *)

\* The units of a tally, one by one.
LEMMA UnitsAre ==
  ASSUME NEW f, NEW u
  PROVE  u \in Units(f) <=> \E x \in DOMAIN f : \E i \in 1..f[x] : u = <<x, i>>
BY DEF Units

\* One more of x is one more unit, of x, and no other changes.
LEMMA OneMore ==
  ASSUME NEW X, NEW f \in [X -> Nat], NEW x \in X
  PROVE  LET g == [f EXCEPT ![x] = @ + 1]
             u == <<x, f[x] + 1>> IN
         Units(g) = Units(f) \cup {u} /\ u \notin Units(f)
<1> DEFINE g == [f EXCEPT ![x] = @ + 1]
           u == <<x, f[x] + 1>>
<1>1. g \in [X -> Nat] /\ g[x] = f[x] + 1 /\ \A y \in X : y # x => g[y] = f[y]
  OBVIOUS
<1>2. \A i : i \in 1..(f[x] + 1) <=> i \in 1..f[x] \/ i = f[x] + 1
  OBVIOUS
<1> HIDE DEF g
<1>3. ASSUME NEW v PROVE v \in Units(g) <=> v \in Units(f) \/ v = u
  <2>1. v \in Units(g) <=> \E y \in X : \E i \in 1..g[y] : v = <<y, i>>
    BY UnitsAre, <1>1
  <2>2. v \in Units(f) <=> \E y \in X : \E i \in 1..f[y] : v = <<y, i>>
    BY UnitsAre
  <2>3. ASSUME v \in Units(g) PROVE v \in Units(f) \/ v = u
    <3> PICK y \in X : \E i \in 1..g[y] : v = <<y, i>>
      BY <2>1, <2>3
    <3>1. CASE y = x
      BY <3>1, <2>2, <1>1, <1>2
    <3>2. CASE y # x
      BY <3>2, <2>2, <1>1
    <3> QED BY <3>1, <3>2
  <2>4. ASSUME v \in Units(f) PROVE v \in Units(g)
    <3> PICK y \in X : \E i \in 1..f[y] : v = <<y, i>>
      BY <2>2, <2>4
    <3>1. CASE y = x
      BY <3>1, <2>1, <1>1, <1>2
    <3>2. CASE y # x
      BY <3>2, <2>1, <1>1
    <3> QED BY <3>1, <3>2
  <2>5. u \in Units(g)
    <3>1. u = <<x, f[x] + 1>> /\ f[x] + 1 \in 1..g[x]
      BY <1>1
    <3>2. u \in Units(g) <=> \E y \in X : \E i \in 1..g[y] : u = <<y, i>>
      BY UnitsAre, <1>1
    <3> QED BY <3>1, <3>2
  <2> QED BY <2>3, <2>4, <2>5
<1>4. u \notin Units(f)
  <2> SUFFICES ASSUME u \in Units(f) PROVE FALSE
    OBVIOUS
  <2> PICK y \in X : \E i \in 1..f[y] : u = <<y, i>>
    BY UnitsAre
  <2> PICK i \in 1..f[y] : u = <<y, i>>
    OBVIOUS
  <2>1. y = x /\ i = f[x] + 1
    OBVIOUS
  <2> QED BY <2>1
<1>5. Units(g) = Units(f) \cup {u}
  BY <1>3
<1> QED BY <1>4, <1>5 DEF g

\* B and C are of the same members of S, and u is one more that C may have.
UpTo(u, S, B, C) ==
  /\ IsFiniteSet(S) /\ u \notin S
  /\ B \subseteq S /\ C \subseteq S \cup {u} /\ \A v \in S : v \in B <=> v \in C

\* So C has one more member if it has u.
LEMMA OneMoreOf ==
  ASSUME NEW u, NEW S, NEW B, NEW C, UpTo(u, S, B, C)
  PROVE  /\ IsFiniteSet(B) /\ IsFiniteSet(C)
         /\ Cardinality(B) \in Nat
         /\ Cardinality(C) = IF u \in C THEN Cardinality(B) + 1 ELSE Cardinality(B)
<1> USE DEF UpTo
<1>1. IsFiniteSet(B) /\ Cardinality(B) \in Nat
  BY FS_Subset, FS_CardinalityType
<1>2. CASE u \in C
  <2>1. C = B \cup {u} /\ u \notin B
    BY <1>2
  <2> QED BY <1>1, <1>2, <2>1, FS_AddElement
<1>3. CASE u \notin C
  <2>1. C = B
    BY <1>3
  <2> QED BY <1>1, <1>3, <2>1
<1> QED BY <1>1, <1>2, <1>3

\* The finite set E falls into classes, f[i] with c[i] members.
Classified(E, I, f, c) ==
  /\ IsFiniteSet(E) /\ DOMAIN f = I /\ c \in [I -> Nat]
  /\ \A i \in I : f[i] \subseteq E /\ c[i] = Cardinality(f[i])
  /\ \A i, j \in I : i # j => f[i] \cap f[j] = {}
  /\ \A e \in E : \E i \in I : e \in f[i]

\* They are as many in all as their sizes say.
LEMMA Classes ==
  ASSUME NEW E, NEW I, NEW f, NEW c, Classified(E, I, f, c)
  PROVE  Total(c) = Cardinality(E)
<1> USE DEF Classified
<1> DEFINE number(i) == CHOOSE b : b \in Bijection(1..c[i], f[i])
           nth == [u \in Units(c) |-> number(u[1])[u[2]]]
<1>1. ASSUME NEW i \in I
      PROVE  /\ number(i) \in [1..c[i] -> f[i]]
             /\ \A j, k \in 1..c[i] : number(i)[j] = number(i)[k] => j = k
             /\ \A e \in f[i] : \E j \in 1..c[i] : number(i)[j] = e
  <2>1. IsFiniteSet(f[i]) /\ c[i] = Cardinality(f[i])
    BY FS_Subset
  <2>2. ExistsBijection(1..c[i], f[i])
    BY <2>1, FS_CardinalityType
  <2>3. number(i) \in Bijection(1..c[i], f[i])
    BY <2>2, Zenon DEF ExistsBijection
  <2> HIDE DEF number
  <2> QED BY <2>3, Fun_BijectionProperties
<1> HIDE DEF number
<1>2. \A u \in Units(c) : u = <<u[1], u[2]>> /\ u[1] \in I /\ u[2] \in 1..c[u[1]]
  BY UnitsAre
<1>3. \A i \in I : \A j \in 1..c[i] : <<i, j>> \in Units(c)
  BY DEF Units
<1>4. nth \in [Units(c) -> E]
  <2> SUFFICES ASSUME NEW u \in Units(c) PROVE number(u[1])[u[2]] \in E
    OBVIOUS
  <2>1. u[1] \in I /\ u[2] \in 1..c[u[1]]
    BY <1>2
  <2> QED BY <2>1, <1>1
<1>5. ASSUME NEW u \in Units(c), NEW v \in Units(c), nth[u] = nth[v] PROVE u = v
  <2>1. u[1] \in I /\ u[2] \in 1..c[u[1]] /\ v[1] \in I /\ v[2] \in 1..c[v[1]]
    BY <1>2
  <2>2. number(u[1])[u[2]] = number(v[1])[v[2]]
    BY <1>5
  <2>3. number(u[1])[u[2]] \in f[u[1]] /\ number(v[1])[v[2]] \in f[v[1]]
    <3>1. number(u[1]) \in [1..c[u[1]] -> f[u[1]]] /\ number(v[1]) \in [1..c[v[1]] -> f[v[1]]]
      BY <2>1, <1>1
    <3> QED BY <2>1, <3>1
  <2>4. u[1] = v[1]
    BY <2>1, <2>2, <2>3
  <2>5. u[2] = v[2]
    BY <2>1, <2>2, <2>4, <1>1
  <2> QED BY <2>4, <2>5, <1>2
<1>6. ASSUME NEW e \in E PROVE \E u \in Units(c) : nth[u] = e
  <2>1. PICK i \in I : e \in f[i]
    OBVIOUS
  <2>2. PICK j \in 1..c[i] : number(i)[j] = e
    BY <2>1, <1>1
  <2>3. <<i, j>> \in Units(c)
    BY <1>3
  <2> DEFINE u == <<i, j>>
  <2>4. u \in Units(c) /\ u[1] = i /\ u[2] = j
    BY <2>3
  <2> HIDE DEF u
  <2>5. nth[u] = e
    BY <2>2, <2>4
  <2> QED BY <2>4, <2>5
<1> HIDE DEF nth
<1>7. nth \in Bijection(Units(c), E)
  BY <1>4, <1>5, <1>6, Fun_IsBij
<1>8. ExistsBijection(Units(c), E)
  BY <1>7 DEF ExistsBijection
<1>9. ExistsBijection(E, Units(c))
  BY <1>8, Fun_ExistsBijSymmetric
<1> QED BY <1>9, FS_Bijection DEF Total

-----------------------------------------------------------------------------
(* The inductive invariant *)

StatsTypeOK ==
  /\ strategy \in {"branch", "clone", "session"}
  /\ pushesLeft \in [Ids -> Nat] /\ IsFiniteSet(Units(pushesLeft))
  /\ kept \in [Kind -> Nat] /\ IsFiniteSet(Samples)
  /\ agg \in [n : [Counters -> Nat], lat : [Buckets -> Nat], cloneLat : [Buckets -> Nat]]

\* The histogram h has the durations of the samples in D: as many in any set of buckets.
Durations(h, D) ==
  /\ IsFiniteSet(Units(h))
  /\ \A B \in SUBSET Buckets :
       Cardinality({u \in Units(h) : u[1] \in B}) = Cardinality({u \in D : latHistIdx[u[1].dur] \in B})

\* demoAgg counts the samples in the figures, each where it belongs.
Aggregated ==
  /\ \A c \in Counters : agg.n[c] = Cardinality({u \in Samples : ~u[1].warm /\ c \in Counted(u[1])})
  /\ Durations(agg.lat, Of("push", "ok")) /\ Durations(agg.cloneLat, Of("clone", "ok"))

SInv == StatsTypeOK /\ Aggregated /\ SessionMix

\* A tally of nothing has no units.
LEMMA NoUnits ==
  ASSUME NEW X
  PROVE  Units([x \in X |-> 0]) = {}
<1> SUFFICES ASSUME NEW u \in Units([x \in X |-> 0]) PROVE FALSE
  OBVIOUS
<1> DEFINE f == [x \in X |-> 0]
<1>1. DOMAIN f = X /\ \A x \in X : f[x] = 0
  OBVIOUS
<1> HIDE DEF f
<1>2. PICK x \in X : \E i \in 1..f[x] : u = <<x, i>>
  BY <1>1, UnitsAre DEF f
<1> QED BY <1>1, <1>2

\* Before the first operation there is nothing to count.
LEMMA StatsInitInv == StatsInit => SInv
<1> SUFFICES ASSUME StatsInit PROVE SInv
  OBVIOUS
<1> USE DEF StatsInit
<1>1. Units(pushesLeft) = {} /\ Samples = {} /\ Units(agg.lat) = {} /\ Units(agg.cloneLat) = {}
  BY NoUnits DEF Samples
<1>2. IsFiniteSet({}) /\ Cardinality({}) = 0
  BY FS_EmptySet
<1>3. StatsTypeOK
  BY <1>1, <1>2 DEF StatsTypeOK
<1>4. Aggregated
  <2>1. ASSUME NEW c \in Counters
        PROVE  agg.n[c] = Cardinality({u \in Samples : ~u[1].warm /\ c \in Counted(u[1])})
    <3>1. {u \in Samples : ~u[1].warm /\ c \in Counted(u[1])} = {}
      BY <1>1
    <3> QED BY <3>1, <1>2
  <2>2. ASSUME NEW D, D = {}, NEW h, Units(h) = {} PROVE Durations(h, D)
    <3>1. ASSUME NEW B PROVE {u \in Units(h) : u[1] \in B} = {} /\ {u \in D : latHistIdx[u[1].dur] \in B} = {}
      BY <2>2
    <3> QED BY <2>2, <3>1, <1>2 DEF Durations
  <2>3. Of("push", "ok") = {} /\ Of("clone", "ok") = {}
    BY <1>1 DEF Of, All
  <2> QED BY <2>1, <2>2, <2>3, <1>1 DEF Aggregated
<1>5. SessionMix
  <2> DEFINE P == {u \in Samples : u[1].op = "push"}
             C == {u \in Samples : u[1].op = "clone" /\ u[1].res = "ok"}
  <2>1. P = {} /\ C = {}
    BY <1>1
  <2> HIDE DEF P, C
  <2>2. Total(pushesLeft) = 0
    BY <1>1, <1>2 DEF Total
  <2>3. SessionCommits * 0 = 0
    BY StatsAssumption
  <2>4. Cardinality(P) + Total(pushesLeft) = SessionCommits * Cardinality(C)
    BY <1>2, <2>1, <2>2, <2>3
  <2> QED BY <2>4 DEF SessionMix, P, C
<1> QED BY <1>3, <1>4, <1>5 DEF SInv

\* What is kept of an operation that was not successful has no duration, and a
\* clone loses no race for a ref.
LEMMA KindsAre ==
  ASSUME NEW s \in Kind
  PROVE  /\ s.op \in Op /\ s.res \in {"ok", "cas", "err"} /\ s.warm \in BOOLEAN
         /\ s.res = "ok" => s.dur \in Latencies /\ latHistIdx[s.dur] \in Buckets
         /\ s.res = "cas" => s.op = "push"
         /\ s.res = "err" => s.msg \in Raw /\ Key[s.msg] \in Range(Key)
<1>1. \A l \in Latencies : latHistIdx[l] \in Buckets
  BY StatsAssumption DEF Buckets, Range
<1>2. \A m \in Raw : Key[m] \in Range(Key)
  BY StatsAssumption DEF Range
<1> QED BY <1>1, <1>2 DEF Kind, Op

\* Every sample is of a kind.
LEMMA SamplesAre ==
  ASSUME StatsTypeOK, NEW u \in Samples
  PROVE  u[1] \in Kind
BY UnitsAre DEF StatsTypeOK, Samples

\* A session has its pushes ahead of it once its clone has succeeded, and one less
\* after each of them.
LEMMA SessionStep ==
  ASSUME StatsTypeOK, NEW a \in Ids, NEW s \in Kind, Complete(a, s)
  PROVE  /\ pushesLeft' \in [Ids -> Nat] /\ IsFiniteSet(Units(pushesLeft'))
         /\ strategy = "session" =>
              Total(pushesLeft') = Total(pushesLeft) + IF s.op = "push" THEN -1
                                                       ELSE IF s.res = "ok" THEN SessionCommits ELSE 0
<1> DEFINE left == pushesLeft[a]
<1>1. left \in Nat /\ IsFiniteSet(Units(pushesLeft)) /\ Total(pushesLeft) \in Nat
  BY FS_CardinalityType DEF StatsTypeOK, Total
<1>2. s.op \in Op /\ SessionCommits \in Nat
  BY KindsAre, StatsAssumption
<1>3. CASE strategy # "session"
  <2>1. pushesLeft' = pushesLeft
    BY <1>3 DEF Complete
  <2> QED BY <2>1, <1>1, <1>3 DEF StatsTypeOK
<1>4. CASE strategy = "session" /\ s.op = "push"
  <2>1. left # 0 /\ pushesLeft' = [pushesLeft EXCEPT ![a] = left - 1]
    BY <1>4 DEF Complete, NextOp, Session
  <2>2. pushesLeft \in [Ids -> Nat] /\ left - 1 \in Nat /\ (left - 1) + 1 = left
    BY <2>1, <1>1 DEF StatsTypeOK
  <2>3. pushesLeft' \in [Ids -> Nat]
    BY <2>1, <2>2
  <2>4. [pushesLeft' EXCEPT ![a] = @ + 1] = [pushesLeft EXCEPT ![a] = (left - 1) + 1]
    BY <2>1, <2>2
  <2>5. pushesLeft' \in [Ids -> Nat] /\ pushesLeft = [pushesLeft' EXCEPT ![a] = @ + 1]
    BY <2>2, <2>3, <2>4
  <2>6. PICK u : Units(pushesLeft) = Units(pushesLeft') \cup {u} /\ u \notin Units(pushesLeft')
    BY <2>5, OneMore
  <2>7. Units(pushesLeft') = Units(pushesLeft) \ {u} /\ u \in Units(pushesLeft)
    BY <2>6
  <2>8. IsFiniteSet(Units(pushesLeft')) /\ Total(pushesLeft') = Total(pushesLeft) - 1
    BY <1>1, <2>7, FS_RemoveElement DEF Total
  <2> QED BY <1>1, <1>4, <2>5, <2>8
<1>5. CASE strategy = "session" /\ s.op = "clone" /\ s.res = "ok"
  <2>1. left = 0 /\ pushesLeft' = [pushesLeft EXCEPT ![a] = SessionCommits]
    BY <1>5 DEF Complete, NextOp, Session
  <2>2. pushesLeft' \in [Ids -> Nat]
    BY <2>1, <1>2 DEF StatsTypeOK
  <2> DEFINE new == {a} \X (1..SessionCommits)
  <2>3. Units(pushesLeft') = Units(pushesLeft) \cup new
    <3> HIDE DEF new
    <3>1. ASSUME NEW v PROVE v \in new <=> \E i \in 1..SessionCommits : v = <<a, i>>
      BY DEF new
    <3>2. ASSUME NEW v PROVE v \in Units(pushesLeft') <=> v \in Units(pushesLeft) \/ v \in new
      <4>1. v \in Units(pushesLeft') <=> \E x \in Ids : \E i \in 1..pushesLeft'[x] : v = <<x, i>>
        BY UnitsAre, <2>2
      <4>2. v \in Units(pushesLeft) <=> \E x \in Ids : \E i \in 1..pushesLeft[x] : v = <<x, i>>
        BY UnitsAre DEF StatsTypeOK
      <4>3. /\ pushesLeft'[a] = SessionCommits /\ 1..left = {}
            /\ \A x \in Ids : x # a => pushesLeft'[x] = pushesLeft[x]
        BY <2>1 DEF StatsTypeOK
      <4>4. (\E x \in Ids : \E i \in 1..pushesLeft'[x] : v = <<x, i>>)
              <=> \/ \E x \in Ids : \E i \in 1..pushesLeft[x] : v = <<x, i>>
                  \/ \E i \in 1..SessionCommits : v = <<a, i>>
        BY <4>3, Zenon
      <4> QED BY <4>1, <4>2, <4>4, <3>1
    <3> QED BY <3>2
  <2>4. Units(pushesLeft) \cap new = {}
    <3> SUFFICES ASSUME NEW v \in Units(pushesLeft), v \in new PROVE FALSE
      OBVIOUS
    <3>1. PICK x \in Ids : \E i \in 1..pushesLeft[x] : v = <<x, i>>
      BY UnitsAre DEF StatsTypeOK
    <3>2. PICK i \in 1..pushesLeft[x] : v = <<x, i>>
      BY <3>1
    <3>3. x = a
      BY <3>2
    <3> QED BY <3>2, <3>3, <2>1
  <2>5. IsFiniteSet(new) /\ Cardinality(new) = SessionCommits
    <3> DEFINE A == {a}
               N == 1..SessionCommits
    <3>1. IsFiniteSet(A) /\ Cardinality(A) = 1
      BY FS_Singleton
    <3>2. IsFiniteSet(N) /\ Cardinality(N) = SessionCommits
      BY FS_Interval, <1>2
    <3> HIDE DEF A, N
    <3>3. IsFiniteSet(A \X N) /\ Cardinality(A \X N) = Cardinality(A) * Cardinality(N)
      BY <3>1, <3>2, FS_Product
    <3>4. IsFiniteSet(A \X N) /\ Cardinality(A \X N) = SessionCommits
      BY <1>2, <3>1, <3>2, <3>3
    <3> QED BY <3>4 DEF A, N
  <2> HIDE DEF new
  <2>6. IsFiniteSet(Units(pushesLeft')) /\ Total(pushesLeft') = Total(pushesLeft) + SessionCommits
    <3> DEFINE P == Units(pushesLeft)
               Q == Units(pushesLeft')
    <3>1. IsFiniteSet(P) /\ Q = P \cup new /\ P \cap new = {}
      BY <1>1, <2>3, <2>4
    <3>2. Total(pushesLeft) = Cardinality(P) /\ Total(pushesLeft') = Cardinality(Q) /\ Cardinality(P) \in Nat
      BY <1>1 DEF Total
    <3> HIDE DEF P, Q
    <3>3. Cardinality(P \cap new) = 0
      BY <3>1, FS_EmptySet
    <3>4. IsFiniteSet(P \cup new) /\ Cardinality(P \cup new) = Cardinality(P) + Cardinality(new) - Cardinality(P \cap new)
      BY <3>1, <2>5, FS_Union
    <3>5. IsFiniteSet(Q) /\ Cardinality(Q) = Cardinality(P) + SessionCommits
      BY <1>2, <2>5, <3>1, <3>2, <3>3, <3>4
    <3> QED BY <3>2, <3>5 DEF Q
  <2> QED BY <1>5, <2>2, <2>6
<1>6. CASE strategy = "session" /\ s.op = "clone" /\ s.res # "ok"
  <2>1. pushesLeft' = pushesLeft
    BY <1>6 DEF Complete, Session, StatsTypeOK
  <2> QED BY <2>1, <1>1, <1>6 DEF StatsTypeOK
<1> QED BY <1>2, <1>3, <1>4, <1>5, <1>6 DEF Op

\* A step keeps one more sample, and all stays of its type.
LEMMA StatsTypeStep ==
  ASSUME StatsTypeOK, NEW a \in Ids, NEW s \in Kind, Complete(a, s)
  PROVE  /\ StatsTypeOK'
         /\ Samples' = Samples \cup {<<s, kept[s] + 1>>} /\ <<s, kept[s] + 1>> \notin Samples
<1> USE DEF StatsTypeOK
<1>1. Samples' = Samples \cup {<<s, kept[s] + 1>>} /\ <<s, kept[s] + 1>> \notin Samples
  <2>1. kept' = [kept EXCEPT ![s] = @ + 1]
    BY DEF Complete
  <2>2. Samples' = Units(kept')
    BY DEF Samples
  <2> QED BY <2>1, <2>2, OneMore DEF Samples
<1>2. IsFiniteSet(Samples')
  BY <1>1, FS_AddElement
<1>3. kept' \in [Kind -> Nat] /\ strategy' = strategy
  BY DEF Complete
<1>4. agg' \in [n : [Counters -> Nat], lat : [Buckets -> Nat], cloneLat : [Buckets -> Nat]]
  <2>1. agg' = Add(s)
    BY DEF Complete
  <2>2. ASSUME NEW h \in [Buckets -> Nat], s.res = "ok" PROVE InHist(h, s) \in [Buckets -> Nat]
    BY <2>2, KindsAre DEF InHist
  <2>3. [c \in Counters |-> agg.n[c] + IF c \in Counted(s) THEN 1 ELSE 0] \in [Counters -> Nat]
    OBVIOUS
  <2> QED BY <2>1, <2>2, <2>3 DEF Add
<1>5. pushesLeft' \in [Ids -> Nat] /\ IsFiniteSet(Units(pushesLeft'))
  BY SessionStep
<1>6. IsFiniteSet(Units(pushesLeft))'
  BY <1>5
<1> QED BY <1>1, <1>2, <1>3, <1>4, <1>5, <1>6

\* One more sample of the histogram's op is one more in its bucket.
LEMMA DurationsStep ==
  ASSUME NEW h \in [Buckets -> Nat], NEW D, IsFiniteSet(D), Durations(h, D),
         NEW s \in Kind, s.res = "ok", NEW u, u \notin D, u[1] = s
  PROVE  Durations(InHist(h, s), D \cup {u})
<1> DEFINE b == latHistIdx[s.dur]
           v == <<b, h[b] + 1>>
           g == InHist(h, s)
<1>1. b \in Buckets /\ g = [h EXCEPT ![b] = @ + 1]
  BY KindsAre DEF InHist
<1>2. v[1] = b
  OBVIOUS
<1>3. Units([h EXCEPT ![b] = @ + 1]) = Units(h) \cup {v} /\ v \notin Units(h)
  <2> HIDE DEF b
  <2> QED BY <1>1, OneMore
<1>4. Units(g) = Units(h) \cup {v} /\ v \notin Units(h) /\ v[1] = b
  BY <1>1, <1>2, <1>3
<1>5. IsFiniteSet(Units(h)) /\ IsFiniteSet(Units(g))
  BY <1>4, FS_AddElement DEF Durations
<1> HIDE DEF v, g
<1>6. ASSUME NEW B \in SUBSET Buckets
      PROVE  Cardinality({w \in Units(g) : w[1] \in B})
               = Cardinality({w \in D \cup {u} : latHistIdx[w[1].dur] \in B})
  <2> DEFINE H  == {w \in Units(h) : w[1] \in B}
             G  == {w \in Units(g) : w[1] \in B}
             C  == {w \in D : latHistIdx[w[1].dur] \in B}
             C1 == {w \in D \cup {u} : latHistIdx[w[1].dur] \in B}
  <2>1. v \in G <=> b \in B
    BY <1>4
  <2>2. u \in C1 <=> b \in B
    OBVIOUS
  <2>3. UpTo(v, Units(h), H, G)
    BY <1>4, <1>5 DEF UpTo
  <2>4. UpTo(u, D, C, C1)
    BY DEF UpTo
  <2>5. Cardinality(H) = Cardinality(C)
    BY DEF Durations
  <2> HIDE DEF H, G, C, C1
  <2>6. Cardinality(G) = IF v \in G THEN Cardinality(H) + 1 ELSE Cardinality(H)
    BY <2>3, OneMoreOf
  <2>7. Cardinality(C1) = IF u \in C1 THEN Cardinality(C) + 1 ELSE Cardinality(C)
    BY <2>4, OneMoreOf
  <2>8. Cardinality(G) = Cardinality(C1)
    BY <2>1, <2>2, <2>5, <2>6, <2>7
  <2> QED BY <2>8 DEF G, C1
<1> QED BY <1>5, <1>6 DEF Durations, g

\* The samples in the figures grow by the one that was completed, unless it began
\* in the warm-up.
LEMMA OfStep ==
  ASSUME StatsTypeOK, NEW a \in Ids, NEW s \in Kind, Complete(a, s), NEW op, NEW res
  PROVE  LET u == <<s, kept[s] + 1>> IN
         /\ Of(op, res)' = IF ~s.warm /\ s.op = op /\ s.res = res THEN Of(op, res) \cup {u} ELSE Of(op, res)
         /\ u \notin Of(op, res) /\ IsFiniteSet(Of(op, res))
<1> DEFINE u == <<s, kept[s] + 1>>
<1>1. Samples' = Samples \cup {u} /\ u \notin Samples /\ u[1] = s
  BY StatsTypeStep
<1>2. Of(op, res) \subseteq Samples /\ IsFiniteSet(Samples)
  BY DEF Of, All, StatsTypeOK
<1>3. IsFiniteSet(Of(op, res))
  BY <1>2, FS_Subset
<1> HIDE DEF u
<1>4. \A w : w \in Of(op, res)' <=> w \in Samples' /\ ~w[1].warm /\ w[1].op = op /\ w[1].res = res
  BY DEF Of, All
<1>5. \A w : w \in Of(op, res) <=> w \in Samples /\ ~w[1].warm /\ w[1].op = op /\ w[1].res = res
  BY DEF Of, All
<1>6. CASE ~s.warm /\ s.op = op /\ s.res = res
  <2>1. Of(op, res)' = Of(op, res) \cup {u}
    BY <1>1, <1>4, <1>5, <1>6
  <2> QED BY <1>1, <1>2, <1>3, <1>6, <2>1 DEF u
<1>7. CASE ~(~s.warm /\ s.op = op /\ s.res = res)
  <2>1. Of(op, res)' = Of(op, res)
    BY <1>1, <1>4, <1>5, <1>7
  <2> QED BY <1>1, <1>2, <1>3, <1>7, <2>1 DEF u
<1> QED BY <1>6, <1>7

\* The demo's aggregate follows.
LEMMA AggregatedStep ==
  ASSUME StatsTypeOK, Aggregated, NEW a \in Ids, NEW s \in Kind, Complete(a, s)
  PROVE  Aggregated'
<1> DEFINE u == <<s, kept[s] + 1>>
<1>1. agg' = Add(s) /\ agg.lat \in [Buckets -> Nat] /\ agg.cloneLat \in [Buckets -> Nat]
  BY DEF Complete, StatsTypeOK
<1>2. Samples' = Samples \cup {u} /\ u \notin Samples /\ u[1] = s /\ IsFiniteSet(Samples)
  BY StatsTypeStep DEF StatsTypeOK
<1> HIDE DEF u
<1>3. ASSUME NEW c \in Counters
      PROVE  agg'.n[c] = Cardinality({w \in Samples' : ~w[1].warm /\ c \in Counted(w[1])})
  <2> DEFINE B == {w \in Samples : ~w[1].warm /\ c \in Counted(w[1])}
             C == {w \in Samples' : ~w[1].warm /\ c \in Counted(w[1])}
  <2>1. UpTo(u, Samples, B, C)
    BY <1>2 DEF UpTo
  <2>2. u \in C <=> ~s.warm /\ c \in Counted(s)
    BY <1>2
  <2>3. agg.n[c] = Cardinality(B)
    BY DEF Aggregated
  <2> HIDE DEF B, C
  <2>4. /\ IsFiniteSet(B) /\ IsFiniteSet(C) /\ Cardinality(B) \in Nat
        /\ Cardinality(C) = IF u \in C THEN Cardinality(B) + 1 ELSE Cardinality(B)
    BY <2>1, OneMoreOf
  <2>5. agg'.n[c] = IF ~s.warm /\ c \in Counted(s) THEN agg.n[c] + 1 ELSE agg.n[c]
    <3>1. CASE s.warm
      BY <1>1, <3>1 DEF Add
    <3>2. CASE ~s.warm
      <4>1. agg'.n = [k \in Counters |-> agg.n[k] + IF k \in Counted(s) THEN 1 ELSE 0]
        BY <1>1, <3>2 DEF Add
      <4> QED BY <4>1, <3>2, <2>3, <2>4
    <3> QED BY <3>1, <3>2
  <2>6. agg'.n[c] = Cardinality(C)
    BY <2>2, <2>3, <2>4, <2>5
  <2> QED BY <2>6 DEF C
<1>4. Durations(agg'.lat, Of("push", "ok")')
  <2>1. CASE ~s.warm /\ s.op = "push" /\ s.res = "ok"
    <3>1. agg'.lat = InHist(agg.lat, s)
      BY <1>1, <2>1 DEF Add
    <3>2. Of("push", "ok")' = Of("push", "ok") \cup {u} /\ u \notin Of("push", "ok") /\ IsFiniteSet(Of("push", "ok"))
      BY <2>1, OfStep DEF u
    <3>3. Durations(agg.lat, Of("push", "ok"))
      BY DEF Aggregated
    <3> QED BY <1>1, <1>2, <2>1, <3>1, <3>2, <3>3, DurationsStep
  <2>2. CASE ~(~s.warm /\ s.op = "push" /\ s.res = "ok")
    <3>1. agg'.lat = agg.lat
      BY <1>1, <2>2 DEF Add
    <3>2. Of("push", "ok")' = Of("push", "ok")
      BY <2>2, OfStep
    <3> QED BY <3>1, <3>2 DEF Aggregated
  <2> QED BY <2>1, <2>2
<1>5. Durations(agg'.cloneLat, Of("clone", "ok")')
  <2>1. CASE ~s.warm /\ s.op = "clone" /\ s.res = "ok"
    <3>1. agg'.cloneLat = InHist(agg.cloneLat, s)
      BY <1>1, <2>1 DEF Add
    <3>2. Of("clone", "ok")' = Of("clone", "ok") \cup {u} /\ u \notin Of("clone", "ok") /\ IsFiniteSet(Of("clone", "ok"))
      BY <2>1, OfStep DEF u
    <3>3. Durations(agg.cloneLat, Of("clone", "ok"))
      BY DEF Aggregated
    <3> QED BY <1>1, <1>2, <2>1, <3>1, <3>2, <3>3, DurationsStep
  <2>2. CASE ~(~s.warm /\ s.op = "clone" /\ s.res = "ok")
    <3>1. agg'.cloneLat = agg.cloneLat
      BY <1>1, <2>2 DEF Add
    <3>2. Of("clone", "ok")' = Of("clone", "ok")
      BY <2>2, OfStep
    <3> QED BY <3>1, <3>2 DEF Aggregated
  <2> QED BY <2>1, <2>2
<1>6. Durations(agg.lat, Of("push", "ok"))' /\ Durations(agg.cloneLat, Of("clone", "ok"))'
  BY <1>4, <1>5 DEF Durations
<1> QED BY <1>3, <1>6 DEF Aggregated

\* So do the sessions.
LEMMA MixStep ==
  ASSUME StatsTypeOK, SessionMix, NEW a \in Ids, NEW s \in Kind, Complete(a, s)
  PROVE  SessionMix'
<1> SUFFICES ASSUME strategy = "session" PROVE SessionMix'
  BY DEF SessionMix, Complete
<1> DEFINE u  == <<s, kept[s] + 1>>
           P  == {w \in Samples : w[1].op = "push"}
           P1 == {w \in Samples' : w[1].op = "push"}
           C  == {w \in Samples : w[1].op = "clone" /\ w[1].res = "ok"}
           C1 == {w \in Samples' : w[1].op = "clone" /\ w[1].res = "ok"}
<1>1. Samples' = Samples \cup {u} /\ u \notin Samples /\ u[1] = s /\ IsFiniteSet(Samples)
  BY StatsTypeStep DEF StatsTypeOK
<1> HIDE DEF u
<1>2. UpTo(u, Samples, P, P1)
  BY <1>1 DEF UpTo
<1>3. UpTo(u, Samples, C, C1)
  BY <1>1 DEF UpTo
<1>4. (u \in P1 <=> s.op = "push") /\ (u \in C1 <=> s.op = "clone" /\ s.res = "ok")
  BY <1>1
<1>5. Cardinality(P) + Total(pushesLeft) = SessionCommits * Cardinality(C)
  BY DEF SessionMix
<1>6. Total(pushesLeft) \in Nat
  BY FS_CardinalityType DEF StatsTypeOK, Total
<1>7. Total(pushesLeft') = Total(pushesLeft) + IF s.op = "push" THEN -1
                                               ELSE IF s.res = "ok" THEN SessionCommits ELSE 0
  BY SessionStep
<1> HIDE DEF P, P1, C, C1
<1>8. Cardinality(P) \in Nat /\ Cardinality(P1) = IF u \in P1 THEN Cardinality(P) + 1 ELSE Cardinality(P)
  BY <1>2, OneMoreOf
<1>9. Cardinality(C) \in Nat /\ Cardinality(C1) = IF u \in C1 THEN Cardinality(C) + 1 ELSE Cardinality(C)
  BY <1>3, OneMoreOf
<1>10. s.op \in Op /\ SessionCommits \in Nat
  BY KindsAre, StatsAssumption
<1> DEFINE p == Cardinality(P)  c == Cardinality(C)  t == Total(pushesLeft)  t1 == Total(pushesLeft')
<1>11. Cardinality(P1) + t1 = SessionCommits * Cardinality(C1)
  <2>1. SessionCommits * (c + 1) = SessionCommits * c + SessionCommits
    <3> HIDE DEF c
    <3> QED BY <1>9, <1>10 DEF c
  <2> HIDE DEF p, c, t, t1
  <2>2. CASE s.op = "push"
    <3>1. Cardinality(P1) = p + 1 /\ Cardinality(C1) = c /\ t1 = t - 1
      BY <1>4, <1>7, <1>8, <1>9, <2>2 DEF p, c, t, t1
    <3> QED BY <1>5, <1>6, <1>8, <3>1 DEF p, c, t
  <2>3. CASE s.op = "clone" /\ s.res = "ok"
    <3>1. Cardinality(P1) = p /\ Cardinality(C1) = c + 1 /\ t1 = t + SessionCommits
      BY <1>4, <1>7, <1>8, <1>9, <2>3 DEF p, c, t, t1
    <3> QED BY <1>5, <1>6, <1>8, <1>10, <2>1, <3>1 DEF p, c, t
  <2>4. CASE s.op = "clone" /\ s.res # "ok"
    <3>1. Cardinality(P1) = p /\ Cardinality(C1) = c /\ t1 = t
      BY <1>4, <1>6, <1>7, <1>8, <1>9, <2>4 DEF p, c, t, t1
    <3> QED BY <1>5, <3>1 DEF p, c, t
  <2> QED BY <1>10, <2>2, <2>3, <2>4 DEF Op
<1>12. Total(pushesLeft)' = t1
  BY DEF Total, Units
<1> QED BY <1>11, <1>12 DEF SessionMix, P1, C1

\* Every operation preserves the invariant.
LEMMA StatsNextInv == SInv /\ [StatsNext]_statsVars => SInv'
<1> SUFFICES ASSUME SInv, [StatsNext]_statsVars PROVE SInv'
  OBVIOUS
<1> USE DEF SInv
<1>1. ASSUME NEW a \in Ids, NEW s \in Kind, Complete(a, s) PROVE SInv'
  BY <1>1, StatsTypeStep, AggregatedStep, MixStep
<1>2. CASE UNCHANGED statsVars
  <2> USE <1>2 DEF statsVars
  <2>1. Samples' = Samples /\ Of("push", "ok")' = Of("push", "ok") /\ Of("clone", "ok")' = Of("clone", "ok")
    BY DEF Samples, Of, All, Units
  <2>2. StatsTypeOK'
    BY <2>1 DEF StatsTypeOK, Units
  <2>3. Aggregated'
    <3>1. Durations(agg.lat, Of("push", "ok"))' /\ Durations(agg.cloneLat, Of("clone", "ok"))'
      BY <2>1 DEF Aggregated, Durations
    <3> QED BY <2>1, <3>1 DEF Aggregated
  <2>4. SessionMix'
    BY <2>1 DEF SessionMix, Total, Units
  <2> QED BY <2>2, <2>3, <2>4
<1> QED BY <1>1, <1>2 DEF StatsNext, Over

\* The tallies are type correct and finite, the demo's aggregate counts what the
\* engine keeps, and sessions have their operations.
THEOREM StatsInvariant == StatsSpec => []SInv
BY StatsInitInv, StatsNextInv, PTL DEF StatsSpec

\* The operations of the session strategy come in sessions (demoRunner.RunLevel).
THEOREM SessionsSafe == StatsSpec => []SessionMix
<1>1. SInv => SessionMix
  BY DEF SInv
<1> QED BY StatsInvariant, <1>1, PTL

-----------------------------------------------------------------------------
(* Percentiles *)

\* Successful samples have durations.
Timed(D) == IsFiniteSet(D) /\ \A u \in D : u[1].dur \in Latencies

\* One of finitely many takes longest.
LEMMA LongestOf ==
  ASSUME NEW D, Timed(D), D # {}
  PROVE  \E v \in D : \A u \in D : u[1].dur <= v[1].dur
<1> DEFINE n == Cardinality(D)
<1>1. n \in Nat /\ ExistsBijection(1..n, D)
  BY FS_CardinalityType DEF Timed
<1> HIDE DEF n
<1>2. PICK b : b \in Bijection(1..n, D)
  BY <1>1 DEF ExistsBijection
<1>3. b \in [1..n -> D] /\ \A u \in D : \E i \in 1..n : b[i] = u
  <2> DEFINE N == 1..n
  <2>1. b \in Bijection(N, D)
    BY <1>2
  <2> HIDE DEF N
  <2>2. b \in [N -> D] /\ \A u \in D : \E i \in N : b[i] = u
    BY <2>1, Fun_BijectionProperties
  <2> QED BY <2>2 DEF N
<1>4. \A u \in D : u[1].dur \in Nat
  <2>1. Latencies \subseteq Nat
    BY StatsAssumption
  <2> QED BY <2>1 DEF Timed
<1> DEFINE Bounded(j) == \E t \in Nat : \A i \in 1..j : b[i][1].dur <= t
           Bad == {j \in 0..n : ~Bounded(j)}
<1>5. Bad = {}
  <2> SUFFICES ASSUME Bad # {} PROVE FALSE
    OBVIOUS
  <2>1. Bad \in SUBSET Nat
    BY <1>1
  <2> DEFINE j == Min(Bad)
  <2>2. j \in Bad /\ \A i \in Bad : j <= i
    BY <2>1, LeastOf
  <2> HIDE DEF j
  <2>3. j \in 0..n /\ ~Bounded(j)
    BY <2>2
  <2>4. j # 0
    <3> SUFFICES ASSUME j = 0 PROVE FALSE
      OBVIOUS
    <3>1. \A i \in 1..j : b[i][1].dur <= 0
      OBVIOUS
    <3> QED BY <3>1, <2>3
  <2>5. j - 1 \in 0..n /\ ~(j <= j - 1)
    <3> HIDE DEF Bounded, Bad
    <3>1. j \in Nat /\ j # 0 /\ j <= n
      BY <2>3, <2>4, <1>1
    <3>2. j \in Int /\ 1 <= j /\ n \in Int
      BY <3>1, <1>1
    <3> QED BY <3>1, <3>2
  <2>6. Bounded(j - 1)
    BY <2>2, <2>5
  <2>7. PICK t \in Nat : \A i \in 1..(j - 1) : b[i][1].dur <= t
    BY <2>6
  <2> DEFINE d == b[j][1].dur
             top == IF d <= t THEN t ELSE d
  <2>8. \A i \in 1..j : b[i][1].dur \in Nat
    <3>1. \A i \in 1..j : i \in 1..n
      BY <1>1, <2>3
    <3>2. \A i \in 1..n : b[i] \in D
      BY <1>3
    <3> QED BY <1>4, <3>1, <3>2
  <2>9. d \in Nat
    BY <2>3, <2>4, <2>8, <1>1
  <2> HIDE DEF d
  <2>10. top \in Nat /\ d <= top /\ t <= top
    BY <2>9
  <2>11. \A i \in 1..j : b[i][1].dur <= top
    <3> HIDE DEF top
    <3> SUFFICES ASSUME NEW i \in 1..j PROVE b[i][1].dur <= top
      OBVIOUS
    <3>1. CASE i = j
      BY <3>1, <2>10 DEF d
    <3>2. CASE i # j
      <4>1. i \in 1..(j - 1)
        BY <3>2, <2>3
      <4>2. b[i][1].dur <= t /\ b[i][1].dur \in Nat
        BY <4>1, <2>7, <2>8
      <4> QED BY <4>2, <2>10
    <3> QED BY <3>1, <3>2
  <2> QED BY <2>3, <2>10, <2>11
<1>6. Bounded(n)
  <2>1. n \in 0..n
    BY <1>1
  <2> HIDE DEF Bounded
  <2> QED BY <1>5, <2>1
<1>7. PICK t \in Nat : \A i \in 1..n : b[i][1].dur <= t
  BY <1>6
<1> DEFINE S == {u[1].dur : u \in D}
<1>8. S \in SUBSET Nat /\ S # {} /\ \A m \in S : m <= t
  BY <1>3, <1>4, <1>7
<1>9. Max(S) \in S /\ \A m \in S : m <= Max(S)
  BY <1>8, GreatestOf
<1> QED BY <1>9

\* What is in a place of the sorted durations: so many samples take no longer, and
\* fewer take less.
LEMMA SortedAre ==
  ASSUME NEW D, Timed(D), NEW k \in 1..Cardinality(D)
  PROVE  /\ Sorted(D)[k] \in Latencies /\ AtMost(D, Sorted(D)[k]) >= k
         /\ Cardinality({u \in D : u[1].dur < Sorted(D)[k]}) < k
         /\ \A m \in Latencies : AtMost(D, m) >= k => Sorted(D)[k] <= m
<1> DEFINE S == {l \in Latencies : AtMost(D, l) >= k}
           n == Cardinality(D)
<1>1. IsFiniteSet(D) /\ n \in Nat /\ Latencies \subseteq Nat /\ \A u \in D : u[1].dur \in Latencies
  BY FS_CardinalityType, StatsAssumption DEF Timed
<1>2. D # {}
  BY <1>1, FS_EmptySet
<1>3. \A l : IsFiniteSet({u \in D : u[1].dur <= l}) /\ AtMost(D, l) \in Nat
  <2> SUFFICES ASSUME NEW l PROVE IsFiniteSet({u \in D : u[1].dur <= l}) /\ AtMost(D, l) \in Nat
    OBVIOUS
  <2> DEFINE T == {u \in D : u[1].dur <= l}
  <2>1. T \in SUBSET D
    OBVIOUS
  <2>2. IsFiniteSet(T) /\ Cardinality(T) \in Nat
    BY <1>1, <2>1, FS_Subset, FS_CardinalityType
  <2> QED BY <2>2 DEF AtMost
<1>4. S # {}
  <2>1. PICK v \in D : \A u \in D : u[1].dur <= v[1].dur
    BY <1>2, LongestOf
  <2>2. {u \in D : u[1].dur <= v[1].dur} = D
    BY <2>1
  <2>3. AtMost(D, v[1].dur) = n
    BY <2>2 DEF AtMost
  <2>4. v[1].dur \in S
    BY <1>1, <2>3
  <2> QED BY <2>4
<1> DEFINE s == Min(S)
<1>5. s \in S /\ \A m \in S : s <= m
  BY <1>1, <1>4, LeastOf
<1>6. Sorted(D)[k] = s
  BY DEF Sorted
<1> HIDE DEF s
<1>7. Cardinality({u \in D : u[1].dur < s}) < k
  <2> DEFINE B == {u \in D : u[1].dur < s}
  <2>1. IsFiniteSet(B) /\ Cardinality(B) \in Nat
    <3>1. B \in SUBSET D
      OBVIOUS
    <3> QED BY <1>1, <3>1, FS_Subset, FS_CardinalityType
  <2> SUFFICES ASSUME Cardinality(B) >= k PROVE FALSE
    BY <2>1
  <2>2. B # {}
    BY <2>1, FS_EmptySet
  <2>3. Timed(B)
    BY <1>1, <2>1 DEF Timed
  <2> HIDE DEF B
  <2>4. PICK v \in B : \A u \in B : u[1].dur <= v[1].dur
    BY <2>2, <2>3, LongestOf
  <2>5. v[1].dur \in Latencies /\ v[1].dur < s
    BY <2>4, <1>1 DEF B
  <2>6. B \subseteq {u \in D : u[1].dur <= v[1].dur}
    BY <2>4 DEF B
  <2>7. Cardinality(B) <= AtMost(D, v[1].dur)
    <3> DEFINE T == {u \in D : u[1].dur <= v[1].dur}
    <3>1. IsFiniteSet(T) /\ B \in SUBSET T
      BY <1>3, <2>6
    <3> HIDE DEF T
    <3>2. Cardinality(B) <= Cardinality(T)
      BY <3>1, FS_Subset
    <3> QED BY <3>2 DEF T, AtMost
  <2>8. AtMost(D, v[1].dur) >= k
    <3> DEFINE m == AtMost(D, v[1].dur)  c == Cardinality(B)
    <3>1. m \in Nat
      BY <1>3
    <3>2. c \in Nat /\ k \in Nat
      BY <1>1, <2>1
    <3>3. m \in Nat /\ c \in Nat /\ k \in Nat /\ c <= m /\ c >= k
      BY <3>1, <3>2, <2>7
    <3> HIDE DEF m, c
    <3>4. m >= k
      BY <3>3
    <3> QED BY <3>4 DEF m
  <2>9. s <= v[1].dur
    BY <1>5, <2>5, <2>8
  <2>10. s \in Nat /\ v[1].dur \in Nat
    BY <1>1, <1>5, <2>5
  <2> QED BY <2>5, <2>9, <2>10
<1> QED BY <1>5, <1>6, <1>7

\* The rank of a percentile: the least that makes up its share, or the one above it
\* if the floats say so and the share is whole.
LEMMA RankIs ==
  ASSUME NEW n \in Nat \ {0}, NEW p \in Percents
  PROVE  /\ CeilOf(p, n) \in 1..n
         /\ CeilOf(p, n) * 1000 >= p * n /\ (CeilOf(p, n) - 1) * 1000 <= p * n
         /\ <<p, n>> \notin FloatAbove => (CeilOf(p, n) - 1) * 1000 < p * n
<1> DEFINE q == p * n
           c == (q + 999) \div 1000
<1>1. p \in Nat /\ 1 <= p /\ p <= 1000
  BY StatsAssumption
<1>2. q \in Nat /\ 1 <= q /\ q <= 1000 * n
  <2>1. p * n >= 1 * n /\ p * n <= 1000 * n
    BY <1>1
  <2> QED BY <1>1, <2>1
<1>3. CeilOf(p, n) = c + (IF <<p, n>> \in FloatAbove THEN 1 ELSE 0)
  BY DEF CeilOf
<1>4. <<p, n>> \in FloatAbove => p < 1000 /\ q % 1000 = 0
  BY <1>1, FloatAssumption
<1>5. p < 1000 => q < 1000 * n
  <2>1. p < 1000 => p * n <= 999 * n
    BY <1>1
  <2> QED BY <1>1, <2>1
<1> HIDE DEF q
<1>6. c \in Nat /\ c * 1000 <= q + 999 /\ q + 999 < c * 1000 + 1000 /\ (q % 1000 = 0 => c * 1000 = q)
  BY <1>2
<1> HIDE DEF c
<1>7. CASE <<p, n>> \in FloatAbove
  <2>1. CeilOf(p, n) = c + 1 /\ c * 1000 = q /\ q < 1000 * n
    BY <1>3, <1>4, <1>5, <1>6, <1>7
  <2>2. CeilOf(p, n) \in 1..n /\ CeilOf(p, n) * 1000 >= q /\ (CeilOf(p, n) - 1) * 1000 <= q
    BY <1>2, <1>6, <2>1
  <2> QED BY <1>7, <2>2 DEF q
<1>8. CASE <<p, n>> \notin FloatAbove
  <2>1. c \in 1..n /\ c * 1000 >= q /\ (c - 1) * 1000 < q
    BY <1>2, <1>6
  <2>2. CeilOf(p, n) = c
    BY <1>3, <1>6, <1>8
  <2>3. (c - 1) * 1000 <= q
    BY <1>2, <2>1
  <2> QED BY <2>1, <2>2, <2>3 DEF q
<1> QED BY <1>7, <1>8

\* In particular, there is a value of that rank.
LEMMA RankInRange ==
  ASSUME NEW n \in Nat \ {0}, NEW p \in Percents
  PROVE  CeilOf(p, n) \in 1..n
<1>1. /\ CeilOf(p, n) \in 1..n
      /\ CeilOf(p, n) * 1000 >= p * n /\ (CeilOf(p, n) - 1) * 1000 <= p * n
      /\ <<p, n>> \notin FloatAbove => (CeilOf(p, n) - 1) * 1000 < p * n
  BY RankIs
<1> QED BY <1>1

\* What percentile picks.
LEMMA PercentileIs ==
  ASSUME NEW D, Timed(D), NEW p \in Percents
  PROVE  Percentile(Sorted(D), p)
           = IF D = {} THEN 0 ELSE Sorted(D)[CeilOf(p, Cardinality(D))]
<1> DEFINE n == Cardinality(D)
<1>1. n \in Nat /\ (n = 0 <=> D = {})
  BY FS_CardinalityType, FS_EmptySet DEF Timed
<1>2. Sorted(D) = [k \in 1..n |-> Sorted(D)[k]] /\ DOMAIN Sorted(D) = 1..n
  BY DEF Sorted
<1> HIDE DEF n
<1>3. CASE n = 0
  <2>1. Sorted(D) = <<>>
    BY <1>2, <1>3
  <2> QED BY <1>1, <1>3, <2>1 DEF Percentile
<1>4. CASE n # 0
  <2>1. Sorted(D) # <<>>
    BY <1>1, <1>2, <1>4
  <2>2. Len(Sorted(D)) = n
    BY <1>1, <1>2
  <2> DEFINE c == CeilOf(p, n)
  <2>3. c \in 1..n
    <3>1. n \in Nat \ {0}
      BY <1>1, <1>4
    <3> QED BY <3>1, RankInRange
  <2> HIDE DEF c
  <2>4. Max({c, 1}) = c
    BY <2>3, LargerOf
  <2>5. Min({c, n}) = c
    BY <1>1, <2>3, LargerOf
  <2>6. Percentile(Sorted(D), p) = Sorted(D)[c]
    BY <2>1, <2>2, <2>4, <2>5 DEF Percentile, c
  <2> QED BY <1>1, <1>4, <2>6 DEF c, n
<1> QED BY <1>3, <1>4

\* So it is of the nearest rank, or of the one above.
LEMMA PercentilesAreRanks ==
  ASSUME NEW D, Timed(D), D # {}, NEW p \in Percents
  PROVE  LET n == Cardinality(D)
             l == Percentile(Sorted(D), p)
             below == Cardinality({u \in D : u[1].dur < l}) IN
         /\ \E u \in D : u[1].dur = l
         /\ AtMost(D, l) * 1000 >= p * n /\ below * 1000 <= p * n
         /\ <<p, n>> \notin FloatAbove => below * 1000 < p * n
<1> DEFINE n == Cardinality(D)
           c == CeilOf(p, n)
           l == Percentile(Sorted(D), p)
           B == {u \in D : u[1].dur < l}
           exact == <<p, n>> \notin FloatAbove
<1>1. n \in Nat \ {0} /\ IsFiniteSet(D)
  BY FS_CardinalityType, FS_EmptySet DEF Timed
<1>2. c \in 1..n /\ c * 1000 >= p * n /\ (c - 1) * 1000 <= p * n /\ (exact => (c - 1) * 1000 < p * n)
  BY <1>1, RankIs
<1>3. l = Sorted(D)[c]
  BY PercentileIs
<1>4. l \in Latencies /\ AtMost(D, l) >= c /\ Cardinality(B) < c
  <2>1. c \in 1..Cardinality(D)
    BY <1>2
  <2> HIDE DEF c, l
  <2> QED BY <1>3, <2>1, SortedAre
<1>5. AtMost(D, l) \in Nat /\ Cardinality(B) \in Nat
  <2>1. B \in SUBSET D /\ {u \in D : u[1].dur <= l} \in SUBSET D
    OBVIOUS
  <2> QED BY <1>1, <2>1, FS_Subset, FS_CardinalityType DEF AtMost
<1>6. p * n \in Nat
  <2>1. p \in Nat
    BY StatsAssumption
  <2> QED BY <1>1, <2>1
<1>7. \E u \in D : u[1].dur = l
  <2> SUFFICES ASSUME \A u \in D : u[1].dur # l PROVE FALSE
    OBVIOUS
  <2>1. l \in Nat /\ \A u \in D : u[1].dur \in Nat
    <3> HIDE DEF l, B, c, n, exact
    <3>1. Latencies \subseteq Nat
      BY StatsAssumption
    <3>2. l \in Nat
      BY <1>4, <3>1
    <3>3. \A u \in D : u[1].dur \in Nat
      BY <3>1 DEF Timed
    <3> QED BY <3>2, <3>3
  <2> HIDE DEF l
  <2>2. B = {u \in D : u[1].dur <= l}
    BY <2>1
  <2>3. AtMost(D, l) = Cardinality(B)
    BY <2>2 DEF AtMost
  <2> HIDE DEF B, c
  <2> QED BY <1>2, <1>4, <1>5, <2>3
<1> DEFINE q == p * n  m == AtMost(D, l)  k == Cardinality(B)
<1> HIDE DEF q, m, k, c, n, exact
<1>8. m * 1000 >= q /\ k * 1000 <= q /\ (exact => k * 1000 < q)
  BY <1>2, <1>4, <1>5, <1>6, <1>1 DEF q, m, k
<1> QED BY <1>7, <1>8 DEF q, m, k, n, exact

-----------------------------------------------------------------------------
(* The histograms *)

\* A latency is in some bucket, and in no lower one than a shorter latency.
LEMMA BucketsAre ==
  /\ Buckets \subseteq Nat \ {0}
  /\ \A l \in Latencies : l \in Nat \ {0} /\ latHistIdx[l] \in Buckets
  /\ \A l, m \in Latencies : l <= m => latHistIdx[l] <= latHistIdx[m]
BY StatsAssumption DEF Buckets, Range

\* What the histogram says of the samples it has: how many, how many up to a bucket,
\* and which buckets are not empty.
LEMMA HistogramSays ==
  ASSUME NEW h \in [Buckets -> Nat], NEW D, Timed(D), Durations(h, D)
  PROVE  /\ Total(h) = Cardinality(D)
         /\ \A b \in Buckets : Upto(h, b) = Cardinality({u \in D : latHistIdx[u[1].dur] <= b})
         /\ \A b \in Buckets : h[b] > 0 <=> \E u \in D : latHistIdx[u[1].dur] = b
<1>1. \A u \in D : latHistIdx[u[1].dur] \in Buckets
  BY BucketsAre DEF Timed
<1>2. \A v \in Units(h) : v[1] \in Buckets
  BY UnitsAre
<1>3. Total(h) = Cardinality(D)
  <2>1. {v \in Units(h) : v[1] \in Buckets} = Units(h) /\ {u \in D : latHistIdx[u[1].dur] \in Buckets} = D
    BY <1>1, <1>2
  <2>2. Buckets \in SUBSET Buckets
    OBVIOUS
  <2> QED BY <2>1, <2>2 DEF Durations, Total
<1>4. ASSUME NEW b \in Buckets PROVE Upto(h, b) = Cardinality({u \in D : latHistIdx[u[1].dur] <= b})
  <2> DEFINE B == {c \in Buckets : c <= b}
  <2>1. {v \in Units(h) : v[1] \in B} = {v \in Units(h) : v[1] <= b}
    BY <1>2
  <2>2. {u \in D : latHistIdx[u[1].dur] \in B} = {u \in D : latHistIdx[u[1].dur] <= b}
    BY <1>1
  <2>3. B \in SUBSET Buckets
    OBVIOUS
  <2> HIDE DEF B
  <2> QED BY <2>1, <2>2, <2>3 DEF Durations, Upto
<1>5. ASSUME NEW b \in Buckets PROVE h[b] > 0 <=> \E u \in D : latHistIdx[u[1].dur] = b
  <2> DEFINE V == {v \in Units(h) : v[1] \in {b}}
             U == {u \in D : latHistIdx[u[1].dur] \in {b}}
  <2>1. Cardinality(V) = Cardinality(U)
    BY DEF Durations
  <2>2. IsFiniteSet(V) /\ IsFiniteSet(U)
    <3>1. V \in SUBSET Units(h) /\ U \in SUBSET D
      OBVIOUS
    <3> QED BY <3>1, FS_Subset DEF Durations, Timed
  <2>3. V = {} <=> U = {}
    BY <2>1, <2>2, FS_EmptySet
  <2>4. V # {} <=> h[b] > 0
    <3>1. ASSUME h[b] > 0 PROVE V # {}
      <4>1. 1 \in 1..h[b]
        BY <3>1
      <4>2. <<b, 1>> \in Units(h)
        BY <4>1, UnitsAre
      <4> DEFINE v == <<b, 1>>
      <4>3. v \in Units(h) /\ v[1] = b
        BY <4>2
      <4> HIDE DEF v
      <4> QED BY <4>3
    <3>2. ASSUME NEW v \in V PROVE h[b] > 0
      <4>1. v \in Units(h) /\ v[1] = b
        OBVIOUS
      <4>2. PICK x \in Buckets : \E i \in 1..h[x] : v = <<x, i>>
        BY <4>1, UnitsAre
      <4>3. PICK i \in 1..h[x] : v = <<x, i>>
        BY <4>2
      <4>4. x = b
        BY <4>1, <4>3
      <4> QED BY <4>3, <4>4
    <3> QED BY <3>1, <3>2
  <2>5. U # {} <=> \E u \in D : latHistIdx[u[1].dur] = b
    OBVIOUS
  <2> QED BY <2>3, <2>4, <2>5
<1> QED BY <1>3, <1>4, <1>5

\* A quantile of the histogram is the bucket of the percentile.
LEMMA QuantilesAgree ==
  ASSUME NEW h \in [Buckets -> Nat], NEW D, Timed(D), Durations(h, D), NEW p \in Percents
  PROVE  Quantile(h, p) = InBucket(Percentile(Sorted(D), p))
<1> DEFINE n == Cardinality(D)
<1>1. n \in Nat /\ (n = 0 <=> D = {}) /\ IsFiniteSet(D)
  BY FS_CardinalityType, FS_EmptySet DEF Timed
<1>2. Total(h) = n
  BY HistogramSays
<1>3. CASE n = 0
  <2>1. Percentile(Sorted(D), p) = 0
    BY <1>1, <1>3, PercentileIs
  <2> QED BY <1>2, <1>3, <2>1 DEF Quantile, InBucket
<1>4. CASE n # 0
  <2> DEFINE k == CeilOf(p, n)
             l == Sorted(D)[k]
             top == latHistIdx[l]
             S == {b \in Buckets : Upto(h, b) >= k}
  <2>1. k \in 1..n
    <3>1. n \in Nat \ {0}
      BY <1>1, <1>4
    <3> HIDE DEF n
    <3> QED BY <3>1, RankInRange
  <2>2. /\ l \in Latencies /\ AtMost(D, l) >= k
        /\ \A m \in Latencies : AtMost(D, m) >= k => l <= m
    BY <2>1, SortedAre
  <2>3. Percentile(Sorted(D), p) = l /\ l # 0
    BY <1>1, <1>4, <2>2, PercentileIs, BucketsAre
  <2>4. Quantile(h, p) = Min(S)
    <3> HIDE DEF n
    <3>1. Max({1, k}) = k
      <4> HIDE DEF k
      <4> QED BY <2>1, LargerOf
    <3> QED BY <1>2, <1>4, <3>1 DEF Quantile
  <2> HIDE DEF k, l
  <2>5. \A T \in SUBSET D : IsFiniteSet(T) /\ Cardinality(T) \in Nat
    BY <1>1, FS_Subset, FS_CardinalityType
  <2>6. top \in S
    <3> DEFINE T1 == {u \in D : u[1].dur <= l}
               T2 == {u \in D : latHistIdx[u[1].dur] <= top}
    <3>1. top \in Buckets
      BY <2>2, BucketsAre
    <3>2. T1 \in SUBSET T2 /\ T1 \in SUBSET D /\ T2 \in SUBSET D
      BY <2>2, BucketsAre DEF Timed
    <3>3. Upto(h, top) = Cardinality(T2)
      BY <3>1, HistogramSays
    <3>4. AtMost(D, l) = Cardinality(T1)
      BY DEF AtMost
    <3> HIDE DEF T1, T2, top
    <3>5. Cardinality(T1) <= Cardinality(T2) /\ Cardinality(T1) \in Nat /\ Cardinality(T2) \in Nat
      BY <2>5, <3>2, FS_Subset
    <3>6. Upto(h, top) >= k
      BY <2>1, <2>2, <3>3, <3>4, <3>5
    <3> QED BY <3>1, <3>6
  <2>7. ASSUME NEW b \in S PROVE top <= b
    <3>1. top \in Nat /\ b \in Nat
      <4>1. top \in Buckets /\ b \in Buckets
        BY <2>2, BucketsAre
      <4> QED BY <4>1, BucketsAre
    <3> SUFFICES ASSUME b < top PROVE FALSE
      BY <3>1
    <3> DEFINE T == {u \in D : latHistIdx[u[1].dur] <= b}
    <3>2. Cardinality(T) >= k
      BY HistogramSays
    <3>3. T \in SUBSET D
      OBVIOUS
    <3>4. IsFiniteSet(T) /\ T # {} /\ Cardinality(T) \in Nat
      <4>1. IsFiniteSet(T) /\ Cardinality(T) \in Nat
        BY <2>5, <3>3
      <4> HIDE DEF T
      <4> QED BY <2>1, <3>2, <4>1, FS_EmptySet
    <3>5. Timed(T)
      BY <3>4 DEF Timed
    <3>6. PICK v \in T : \A u \in T : u[1].dur <= v[1].dur
      BY <3>4, <3>5, LongestOf
    <3>7. v[1].dur \in Latencies /\ latHistIdx[v[1].dur] <= b
      BY <3>6 DEF Timed
    <3> DEFINE T2 == {u \in D : u[1].dur <= v[1].dur}
    <3>8. T \in SUBSET T2 /\ T2 \in SUBSET D
      BY <3>6
    <3>9. AtMost(D, v[1].dur) = Cardinality(T2)
      BY DEF AtMost
    <3> HIDE DEF T, T2
    <3>10. Cardinality(T) <= Cardinality(T2) /\ Cardinality(T2) \in Nat
      BY <2>5, <3>8, FS_Subset
    <3>11. AtMost(D, v[1].dur) >= k
      BY <2>1, <3>2, <3>4, <3>9, <3>10
    <3>12. l <= v[1].dur
      BY <2>2, <3>7, <3>11
    <3>13. top <= latHistIdx[v[1].dur]
      BY <2>2, <3>7, <3>12, BucketsAre
    <3>14. top \in Nat /\ latHistIdx[v[1].dur] \in Nat /\ b \in Nat
      BY <2>2, <3>7, BucketsAre
    <3> QED BY <3>7, <3>13, <3>14
  <2>8. Min(S) = top
    <3>1. S \in SUBSET Nat /\ S # {}
      BY <2>6, BucketsAre
    <3> HIDE DEF S, top
    <3>2. Min(S) \in S /\ \A m \in S : Min(S) <= m
      BY <3>1, LeastOf
    <3>3. top <= Min(S) /\ Min(S) <= top /\ Min(S) \in Nat /\ top \in Nat
      BY <2>6, <2>7, <3>1, <3>2
    <3> QED BY <3>3
  <2> QED BY <2>3, <2>4, <2>8 DEF InBucket
<1> QED BY <1>3, <1>4

\* Its highest bucket is that of the longest duration.
LEMMA MaximaAgree ==
  ASSUME NEW h \in [Buckets -> Nat], NEW D, Timed(D), Durations(h, D)
  PROVE  MaxValue(h) = InBucket(IF Sorted(D) = <<>> THEN 0 ELSE Sorted(D)[Len(Sorted(D))])
<1> DEFINE n == Cardinality(D)
           S == {0} \cup {b \in Buckets : h[b] > 0}
<1>1. n \in Nat /\ (n = 0 <=> D = {}) /\ IsFiniteSet(D)
  BY FS_CardinalityType, FS_EmptySet DEF Timed
<1>2. \A b \in Buckets : h[b] > 0 <=> \E u \in D : latHistIdx[u[1].dur] = b
  BY HistogramSays
<1>3. DOMAIN Sorted(D) = 1..n /\ Sorted(D) = [k \in 1..n |-> Sorted(D)[k]]
  BY DEF Sorted
<1> HIDE DEF n
<1>4. CASE n = 0
  <2>1. Sorted(D) = <<>>
    BY <1>3, <1>4
  <2>2. S = {0}
    BY <1>1, <1>2, <1>4
  <2>3. Max({0}) = 0
    BY DEF Max
  <2> QED BY <2>1, <2>2, <2>3 DEF MaxValue, InBucket
<1>5. CASE n # 0
  <2> DEFINE l == Sorted(D)[n]
             top == latHistIdx[l]
             B == {u \in D : u[1].dur < l}
             T == {u \in D : u[1].dur <= l}
  <2>1. Sorted(D) # <<>> /\ Len(Sorted(D)) = n /\ n \in 1..n
    BY <1>1, <1>3, <1>5
  <2>2. l \in Latencies /\ AtMost(D, l) >= n /\ Cardinality(B) < n
    BY <2>1, SortedAre DEF n
  <2> HIDE DEF l
  <2>3. T = D
    <3>1. T \in SUBSET D /\ AtMost(D, l) = Cardinality(T)
      BY DEF AtMost
    <3> HIDE DEF T
    <3>2. Cardinality(T) <= Cardinality(D) /\ Cardinality(T) \in Nat /\ (Cardinality(T) = Cardinality(D) => T = D)
      BY <1>1, <3>1, FS_Subset, FS_CardinalityType
    <3> QED BY <1>1, <2>2, <3>1, <3>2 DEF n
  <2>4. B # D
    <3> HIDE DEF B
    <3> QED BY <1>1, <2>2 DEF n
  <2>5. PICK v \in D : v[1].dur = l
    <3>1. PICK v \in D : ~(v[1].dur < l) /\ v[1].dur <= l
      BY <2>3, <2>4
    <3>2. v[1].dur \in Nat /\ l \in Nat
      BY <2>2, BucketsAre DEF Timed
    <3> QED BY <3>1, <3>2
  <2>6. top \in Buckets /\ h[top] > 0
    BY <1>2, <2>2, <2>5, BucketsAre
  <2>7. \A b \in Buckets : h[b] > 0 => b <= top
    <3> SUFFICES ASSUME NEW b \in Buckets, h[b] > 0 PROVE b <= top
      OBVIOUS
    <3>1. PICK u \in D : latHistIdx[u[1].dur] = b
      BY <1>2
    <3>2. u[1].dur <= l /\ u[1].dur \in Latencies
      BY <2>3 DEF Timed
    <3> QED BY <2>2, <3>1, <3>2, BucketsAre
  <2>8. S \in SUBSET Nat /\ top \in Nat /\ top \in S /\ \A b \in S : b <= top
    <3>1. Buckets \subseteq Nat
      BY BucketsAre
    <3> HIDE DEF top
    <3>2. top \in Nat /\ 0 <= top
      BY <2>6, <3>1
    <3>3. S \subseteq Nat
      <4> SUFFICES ASSUME NEW x \in S PROVE x \in Nat
        OBVIOUS
      <4>1. x = 0 \/ x \in Buckets
        OBVIOUS
      <4> QED BY <3>1, <4>1
    <3>4. top \in S
      BY <2>6
    <3>5. S \in SUBSET Nat /\ top \in S
      BY <3>3, <3>4
    <3>6. ASSUME NEW b \in S PROVE b <= top
      <4>1. b = 0 \/ (b \in Buckets /\ h[b] > 0)
        OBVIOUS
      <4> QED BY <2>7, <3>2, <4>1
    <3> QED BY <3>2, <3>5, <3>6
  <2> HIDE DEF S, top
  <2>9. Max(S) \in S /\ \A m \in S : m <= Max(S)
    BY <2>8, GreatestOf
  <2>10. Max(S) \in Nat /\ Max(S) <= top /\ top <= Max(S)
    BY <2>8, <2>9
  <2>11. Max(S) = top
    BY <2>8, <2>10
  <2>12. l # 0
    BY <2>2, BucketsAre
  <2>13. MaxValue(h) = Max(S)
    BY DEF MaxValue, S
  <2> QED BY <2>1, <2>11, <2>12, <2>13 DEF InBucket, top, l
<1> QED BY <1>4, <1>5

-----------------------------------------------------------------------------
(* The breakdown of the errors *)

\* Groups that are told apart by their messages, in a set.
Groups(S) ==
  /\ IsFiniteSet(S) /\ \A g \in S : g.message \in Messages /\ g.count \in Nat
  /\ \A g, h \in S : g.message = h.message => g = h

\* The same in a sequence, in order.
Arranged(e, S) ==
  /\ e \in [1..Cardinality(S) -> S] /\ \A g \in S : \E i \in 1..Cardinality(S) : e[i] = g
  /\ \A i, j \in 1..Cardinality(S) : i < j => ByFreq(e[i], e[j]) /\ e[i].message # e[j].message

\* The order of groups is total.
LEMMA FreqIsTotal ==
  ASSUME NEW S, Groups(S)
  PROVE  /\ \A g \in S : ~ByFreq(g, g)
         /\ \A g, h \in S : g # h => ByFreq(g, h) \/ ByFreq(h, g)
         /\ \A f, g, h \in S : ByFreq(f, g) /\ ByFreq(g, h) => ByFreq(f, h)
<1> USE DEF Groups, ByFreq
<1>1. ASSUME NEW g \in S PROVE ~ByFreq(g, g)
  BY MessagesAssumption
<1>2. ASSUME NEW g \in S, NEW h \in S, g # h PROVE ByFreq(g, h) \/ ByFreq(h, g)
  <2>1. g.message # h.message
    BY <1>2
  <2>2. Before(g.message, h.message) \/ Before(h.message, g.message)
    BY <2>1, MessagesAssumption
  <2> QED BY <2>2
<1>3. ASSUME NEW f \in S, NEW g \in S, NEW h \in S, ByFreq(f, g), ByFreq(g, h) PROVE ByFreq(f, h)
  <2>1. Before(f.message, g.message) /\ Before(g.message, h.message) => Before(f.message, h.message)
    BY MessagesAssumption
  <2> QED BY <1>3, <2>1
<1> QED BY <1>1, <1>2, <1>3

\* Sorting arranges the groups: each is in the place that so many are before it.
LEMMA InOrderIs ==
  ASSUME NEW S, Groups(S)
  PROVE  Arranged(InOrder(S), S)
<1> DEFINE n == Cardinality(S)
           Bef(g) == {h \in S : ByFreq(h, g)}
           rank == [g \in S |-> Cardinality(Bef(g))]
           N == 0..(n - 1)
           e == InOrder(S)
<1>1. IsFiniteSet(S) /\ n \in Nat
  BY FS_CardinalityType DEF Groups
<1>2. ASSUME NEW g \in S PROVE IsFiniteSet(Bef(g)) /\ Cardinality(Bef(g)) \in Nat /\ g \notin Bef(g)
  <2>1. Bef(g) \in SUBSET S /\ g \notin Bef(g)
    BY FreqIsTotal
  <2> HIDE DEF Bef
  <2> QED BY <1>1, <2>1, FS_Subset, FS_CardinalityType
<1>3. ASSUME NEW g \in S PROVE rank[g] \in N
  <2>1. Bef(g) \in SUBSET S /\ Bef(g) # S
    BY <1>2
  <2> HIDE DEF Bef
  <2>2. Cardinality(Bef(g)) <= n /\ Cardinality(Bef(g)) # n
    BY <1>1, <2>1, FS_Subset
  <2> QED BY <1>1, <1>2, <2>2
<1>4. ASSUME NEW g \in S, NEW h \in S, ByFreq(g, h) PROVE rank[g] < rank[h]
  <2>1. Bef(g) \cup {g} \in SUBSET Bef(h)
    BY <1>4, FreqIsTotal
  <2> HIDE DEF Bef
  <2>2. IsFiniteSet(Bef(g) \cup {g}) /\ Cardinality(Bef(g) \cup {g}) = Cardinality(Bef(g)) + 1
    BY <1>2, FS_AddElement
  <2>3. Cardinality(Bef(g) \cup {g}) <= Cardinality(Bef(h))
    BY <1>2, <2>1, FS_Subset
  <2> QED BY <1>2, <2>2, <2>3
<1> HIDE DEF rank, Bef
<1>5. ASSUME NEW g \in S, NEW h \in S, rank[g] = rank[h] PROVE g = h
  <2>1. rank[g] \in Int /\ rank[h] \in Int
    BY <1>1, <1>3
  <2> QED BY <1>4, <1>5, <2>1, FreqIsTotal
<1>6. rank \in [S -> N]
  BY <1>3 DEF rank
<1>7. IsFiniteSet(N) /\ Cardinality(N) = n
  <2> HIDE DEF n
  <2>1. n - 1 \in Int /\ n \in Nat
    BY <1>1
  <2>2. IsFiniteSet(0..(n - 1)) /\ Cardinality(0..(n - 1)) = IF 0 > n - 1 THEN 0 ELSE (n - 1) - 0 + 1
    BY <2>1, FS_Interval
  <2> QED BY <2>1, <2>2
<1> HIDE DEF N
<1>8. rank \in Injection(S, N)
  BY <1>5, <1>6, Fun_IsInj
<1>9. rank \in Surjection(S, N)
  BY <1>7, <1>8, FS_Injection
<1>10. \A r \in N : \E g \in S : rank[g] = r
  BY <1>9, Fun_SurjectionProperties
<1> HIDE DEF n
<1>11. \A i \in 1..n : i - 1 \in N
  BY <1>1 DEF N
<1>12. e = [i \in 1..n |-> e[i]] /\ \A i \in 1..n : e[i] = CHOOSE g \in S : rank[g] = i - 1
  <2>1. \A i \in 1..n : (CHOOSE g \in S : Cardinality({h \in S : ByFreq(h, g)}) = i - 1) = (CHOOSE g \in S : rank[g] = i - 1)
    <3> SUFFICES ASSUME NEW i \in 1..n
                 PROVE  (CHOOSE g \in S : Cardinality({h \in S : ByFreq(h, g)}) = i - 1) = (CHOOSE g \in S : rank[g] = i - 1)
      OBVIOUS
    <3>1. \A g \in S : Cardinality({h \in S : ByFreq(h, g)}) = rank[g]
      BY DEF rank, Bef
    <3> QED BY <3>1
  <2> DEFINE at(i) == CHOOSE g \in S : Cardinality({h \in S : ByFreq(h, g)}) = i - 1
  <2>2. e = [i \in 1..n |-> at(i)]
    BY DEF InOrder, n
  <2>3. \A i \in 1..n : at(i) = CHOOSE g \in S : rank[g] = i - 1
    BY <2>1
  <2> HIDE DEF e, at
  <2>4. \A i \in 1..n : e[i] = at(i)
    BY <2>2
  <2>5. e = [i \in 1..n |-> e[i]]
    BY <2>2
  <2> QED BY <2>3, <2>4, <2>5
<1> HIDE DEF e
<1>13. ASSUME NEW i \in 1..n PROVE e[i] \in S /\ rank[e[i]] = i - 1
  <2>1. \E g \in S : rank[g] = i - 1
    BY <1>10, <1>11
  <2>2. e[i] = CHOOSE g \in S : rank[g] = i - 1
    BY <1>12
  <2> QED BY <2>1, <2>2
<1>14. e \in [1..n -> S]
  BY <1>12, <1>13
<1>15. ASSUME NEW g \in S PROVE \E i \in 1..n : e[i] = g
  <2>1. rank[g] + 1 \in 1..n /\ (rank[g] + 1) - 1 = rank[g]
    BY <1>1, <1>3 DEF N
  <2>2. e[rank[g] + 1] \in S /\ rank[e[rank[g] + 1]] = rank[g]
    BY <1>13, <2>1
  <2>3. e[rank[g] + 1] = g
    BY <1>5, <2>2
  <2> QED BY <2>1, <2>3
<1>16. ASSUME NEW i \in 1..n, NEW j \in 1..n, i < j PROVE ByFreq(e[i], e[j]) /\ e[i].message # e[j].message
  <2>1. e[i] \in S /\ e[j] \in S /\ rank[e[i]] = i - 1 /\ rank[e[j]] = j - 1
    BY <1>13
  <2>2. e[i] # e[j] /\ ~(rank[e[j]] < rank[e[i]])
    BY <1>16, <2>1
  <2>3. ByFreq(e[i], e[j])
    BY <1>4, <2>1, <2>2, FreqIsTotal
  <2>4. e[i].message # e[j].message
    BY <2>1, <2>2 DEF Groups
  <2> QED BY <2>3, <2>4
<1> QED BY <1>14, <1>15, <1>16 DEF Arranged, n, e

\* Errors have texts, and so keys.
Texts(E) == IsFiniteSet(E) /\ \A u \in E : Key[u[1].msg] \in Range(Key)

GroupsOf(E) == {[message |-> k, count |-> Cardinality(OfKey(E, k))] : k \in {Key[u[1].msg] : u \in E}}

\* The groups of the errors are of their keys, one each, with as many as there are.
LEMMA GroupsAre ==
  ASSUME NEW E, Texts(E)
  PROVE  /\ Groups(GroupsOf(E)) /\ Arranged(Grouped(E), GroupsOf(E))
         /\ \A g \in GroupsOf(E) : g.message \in Range(Key) /\ g.count = Cardinality(OfKey(E, g.message))
         /\ \A u \in E : \E g \in GroupsOf(E) : g.message = Key[u[1].msg]
         /\ \A k : IsFiniteSet(OfKey(E, k)) /\ Cardinality(OfKey(E, k)) \in Nat
<1> DEFINE K == {Key[u[1].msg] : u \in E}
           group(k) == [message |-> k, count |-> Cardinality(OfKey(E, k))]
           G == GroupsOf(E)
<1>1. \A k : IsFiniteSet(OfKey(E, k)) /\ Cardinality(OfKey(E, k)) \in Nat
  <2> SUFFICES ASSUME NEW k PROVE IsFiniteSet(OfKey(E, k)) /\ Cardinality(OfKey(E, k)) \in Nat
    OBVIOUS
  <2>1. OfKey(E, k) \in SUBSET E
    BY DEF OfKey
  <2> QED BY <2>1, FS_Subset, FS_CardinalityType DEF Texts
<1>2. K \subseteq Range(Key)
  BY DEF Texts
<1>3. IsFiniteSet(K)
  <2> DEFINE f == [u \in E |-> Key[u[1].msg]]
  <2>1. f \in [E -> K] /\ \A k \in K : \E u \in E : f[u] = k
    OBVIOUS
  <2> HIDE DEF f, K
  <2>2. f \in Surjection(E, K)
    BY <2>1, Fun_IsSurj
  <2> QED BY <2>2, FS_Surjection DEF Texts
<1>4. G = {group(k) : k \in K}
  BY DEF GroupsOf
<1>5. \A u \in E : Key[u[1].msg] \in K
  OBVIOUS
<1> HIDE DEF G, K
<1>6. IsFiniteSet(G)
  <2> DEFINE f == [k \in K |-> group(k)]
  <2>1. f \in [K -> G] /\ \A g \in G : \E k \in K : f[k] = g
    BY <1>4
  <2> HIDE DEF f
  <2>2. f \in Surjection(K, G)
    BY <2>1, Fun_IsSurj
  <2> QED BY <1>3, <2>2, FS_Surjection
<1>7. \A g \in G : g.message \in K /\ g = group(g.message)
  BY <1>4
<1>8. \A g \in G : g.message \in Range(Key) /\ g.count = Cardinality(OfKey(E, g.message))
  BY <1>2, <1>7
<1>9. ASSUME NEW u \in E PROVE \E g \in G : g.message = Key[u[1].msg]
  <2> DEFINE k == Key[u[1].msg]
  <2>1. group(k) \in G /\ group(k).message = k
    BY <1>4, <1>5
  <2> QED BY <2>1
<1>10. Groups(G)
  <2>1. \A g \in G : g.message \in Messages /\ g.count \in Nat
    BY <1>1, <1>8 DEF Messages
  <2>2. \A g, h \in G : g.message = h.message => g = h
    <3> HIDE DEF group
    <3> QED BY <1>7
  <2> QED BY <1>6, <2>1, <2>2 DEF Groups
<1>11. Grouped(E) = InOrder(G)
  BY DEF Grouped, G, GroupsOf
<1> QED BY <1>1, <1>8, <1>9, <1>10, <1>11, InOrderIs DEF G

\* The groups in some places have as many errors as there are of their keys.
LEMMA CountsOf ==
  ASSUME NEW E, Texts(E), NEW I, I \subseteq 1..Cardinality(GroupsOf(E))
  PROVE  LET all == Grouped(E)
             F == {u \in E : \E i \in I : all[i].message = Key[u[1].msg]} IN
         Total([i \in I |-> all[i].count]) = Cardinality(F) /\ IsFiniteSet(F)
<1> DEFINE all == Grouped(E)
           G == GroupsOf(E)
           n == Cardinality(G)
           F == {u \in E : \E i \in I : all[i].message = Key[u[1].msg]}
           c == [i \in I |-> all[i].count]
           f == [i \in I |-> OfKey(E, all[i].message)]
<1>1. /\ all \in [1..n -> G]
      /\ \A i, j \in 1..n : i < j => all[i].message # all[j].message
  BY GroupsAre DEF Arranged
<1>2. /\ \A g \in G : g.count = Cardinality(OfKey(E, g.message))
      /\ \A k : Cardinality(OfKey(E, k)) \in Nat
  BY GroupsAre
<1>3. n \in Nat
  BY GroupsAre, FS_CardinalityType DEF Groups
<1>4. F \in SUBSET E /\ IsFiniteSet(F)
  <2>1. F \in SUBSET E
    OBVIOUS
  <2> QED BY <2>1, FS_Subset DEF Texts
<1> HIDE DEF G, n, all
<1>5. \A i \in I : all[i] \in G
  BY <1>1 DEF n, G
<1>6. c \in [I -> Nat] /\ \A i \in I : f[i] \subseteq F /\ c[i] = Cardinality(f[i])
  <2>1. ASSUME NEW i \in I PROVE c[i] \in Nat /\ c[i] = Cardinality(f[i])
    BY <1>2, <1>5
  <2>2. ASSUME NEW i \in I PROVE f[i] \subseteq F
    BY DEF OfKey
  <2> QED BY <2>1, <2>2
<1>7. \A i, j \in I : i # j => f[i] \cap f[j] = {}
  <2> SUFFICES ASSUME NEW i \in I, NEW j \in I, i # j, NEW u \in f[i], u \in f[j] PROVE FALSE
    OBVIOUS
  <2>1. all[i].message = Key[u[1].msg] /\ all[j].message = Key[u[1].msg]
    BY DEF OfKey
  <2>2. i \in 1..n /\ j \in 1..n
    BY DEF n, G
  <2>3. i < j \/ j < i
    BY <1>3, <2>2
  <2> QED BY <1>1, <2>1, <2>2, <2>3
<1>8. \A u \in F : \E i \in I : u \in f[i]
  BY DEF OfKey
<1>9. DOMAIN f = I
  OBVIOUS
<1> HIDE DEF f, c, F
<1>10. Classified(F, I, f, c)
  BY <1>4, <1>6, <1>7, <1>8, <1>9 DEF Classified
<1>11. Total(c) = Cardinality(F)
  BY <1>10, Classes
<1> QED BY <1>4, <1>11 DEF c, F, all

\* What ErrorsAddUp says of the errors E and their breakdown e.
BreaksDown(E, e) ==
  LET listed == {i \in DOMAIN e : e[i].message # Other} IN
  /\ Total([i \in DOMAIN e |-> e[i].count]) = Cardinality(E)
  /\ Cardinality(listed) <= maxDistinctErrors
  /\ \A i, j \in DOMAIN e : i < j => e[i].count >= e[j].count /\ e[i].message # e[j].message
  /\ \A i \in listed : e[i].count = Cardinality(OfKey(E, e[i].message))
  /\ \A m \in Range(Key) \ {e[i].message : i \in listed}, i \in listed : Cardinality(OfKey(E, m)) <= e[i].count

\* Of arranged groups, the listed are as many as the groups with keys.
LEMMA ListedAre ==
  ASSUME NEW S, Groups(S), NEW e, Arranged(e, S), NEW T, IsFiniteSet(T),
         \A g \in S : g.message # Other => g \in T
  PROVE  Cardinality({i \in DOMAIN e : e[i].message # Other}) <= Cardinality(T)
<1> DEFINE L == {i \in DOMAIN e : e[i].message # Other}
           n == Cardinality(S)
           f == [i \in L |-> e[i]]
<1>1. /\ n \in Nat /\ DOMAIN e = 1..n /\ \A i \in 1..n : e[i] \in S
      /\ \A i, j \in 1..n : i < j => e[i].message # e[j].message
  BY FS_CardinalityType DEF Groups, Arranged
<1> HIDE DEF n
<1>2. \A i \in L : i \in 1..n /\ e[i] \in T
  BY <1>1
<1>3. \A i, j \in L : e[i] = e[j] => i = j
  <2> SUFFICES ASSUME NEW i \in L, NEW j \in L, e[i] = e[j], i # j PROVE FALSE
    OBVIOUS
  <2>1. i < j \/ j < i
    BY <1>1, <1>2
  <2> QED BY <1>1, <1>2, <2>1
<1> HIDE DEF L
<1>4. f \in [L -> T] /\ \A i, j \in L : f[i] = f[j] => i = j
  BY <1>2, <1>3
<1> HIDE DEF f
<1>5. f \in Injection(L, T)
  BY <1>4, Fun_IsInj
<1> QED BY <1>5, FS_Injection DEF L

\* The errors of the first places and of the rest are all the errors.
LEMMA ErrGroupsAddUp ==
  ASSUME NEW E, Texts(E)
  PROVE  BreaksDown(E, ErrGroups(E))
<1> DEFINE all == Grouped(E)
           G == GroupsOf(E)
           n == Cardinality(G)
           e == ErrGroups(E)
           size(k) == Cardinality(OfKey(E, k))
<1>1. /\ Groups(G) /\ Arranged(all, G) /\ IsFiniteSet(E)
      /\ \A g \in G : g.message \in Range(Key) /\ g.count = size(g.message)
      /\ \A u \in E : \E g \in G : g.message = Key[u[1].msg]
      /\ \A k : size(k) \in Nat
  BY GroupsAre DEF Texts
<1>2. /\ n \in Nat /\ IsFiniteSet(G) /\ DOMAIN all = 1..n /\ \A i \in 1..n : all[i] \in G
      /\ \A g \in G : \E i \in 1..n : all[i] = g
      /\ \A i, j \in 1..n : i < j => ByFreq(all[i], all[j]) /\ all[i].message # all[j].message
  BY <1>1, FS_CardinalityType DEF Groups, Arranged
<1>3. Len(all) = n
  <2>1. all \in [1..n -> G]
    BY <1>1 DEF Arranged
  <2> HIDE DEF all, n, G
  <2> QED BY <1>2, <2>1
<1>4. maxDistinctErrors \in Nat \ {0} /\ Other \notin Range(Key)
  BY StatsAssumption, MessagesAssumption
<1>5. \A u \in E : \E i \in 1..n : all[i].message = Key[u[1].msg]
  <2> HIDE DEF all, n, G
  <2> QED BY <1>1, <1>2
<1>6. ASSUME NEW k, ~\E i \in 1..n : all[i].message = k PROVE size(k) = 0
  <2>1. OfKey(E, k) = {}
    BY <1>5, <1>6 DEF OfKey
  <2> QED BY <2>1, FS_EmptySet
<1>7. CASE n <= maxDistinctErrors
  <2>1. e = all
    BY <1>3, <1>7 DEF ErrGroups
  <2>2. Total([i \in 1..n |-> all[i].count]) = Cardinality(E)
    <3> DEFINE F == {u \in E : \E i \in 1..n : all[i].message = Key[u[1].msg]}
    <3>1. F = E
      BY <1>5
    <3>2. Total([i \in 1..n |-> all[i].count]) = Cardinality(F)
      BY CountsOf
    <3> QED BY <3>1, <3>2
  <2> HIDE DEF e, all, n, G
  <2>3. Cardinality({i \in DOMAIN all : all[i].message # Other}) <= n
    BY <1>1, <1>2, ListedAre DEF n
  <2>4. \A i \in 1..n : all[i].count = size(all[i].message) /\ all[i].message \in Range(Key) /\ all[i].message # Other
    BY <1>1, <1>2, <1>4
  <2>5. \A i, j \in 1..n : i < j => all[i].count >= all[j].count /\ all[i].message # all[j].message
    <3> SUFFICES ASSUME NEW i \in 1..n, NEW j \in 1..n, i < j
                 PROVE  all[i].count >= all[j].count /\ all[i].message # all[j].message
      OBVIOUS
    <3>1. all[i].count \in Nat /\ all[j].count \in Nat
      BY <1>1, <2>4
    <3> QED BY <1>2, <3>1 DEF ByFreq
  <2> DEFINE listed == {i \in DOMAIN all : all[i].message # Other}
  <2>6. listed = 1..n
    BY <1>2, <2>4
  <2>7. Cardinality(listed) <= maxDistinctErrors
    <3>1. IsFiniteSet(1..n) /\ Cardinality(1..n) = n
      BY <1>2, FS_Interval
    <3> QED BY <1>7, <2>6, <3>1
  <2>8. ASSUME NEW m \in Range(Key) \ {all[i].message : i \in listed}, NEW i \in listed
        PROVE  size(m) <= all[i].count
    <3>1. size(m) = 0
      <4> HIDE DEF size
      <4> QED BY <1>6, <2>6, <2>8
    <3>2. all[i].count \in Nat
      BY <1>1, <2>4, <2>6
    <3> QED BY <3>1, <3>2
  <2>9. BreaksDown(E, all)
    <3> HIDE DEF listed
    <3> QED BY <1>2, <2>2, <2>4, <2>5, <2>6, <2>7, <2>8 DEF BreaksDown, listed
  <2> QED BY <2>1, <2>9 DEF e
<1>8. CASE ~(n <= maxDistinctErrors)
  <2> DEFINE rest == FirstFolded..Len(all)
             F == {u \in E : \E i \in rest : all[i].message = Key[u[1].msg]}
             other == [message |-> Other, count |-> Total([i \in rest |-> all[i].count])]
             head == {all[i] : i \in 1..maxDistinctErrors}
             S == head \cup {other}
             k == Cardinality(S)
  <2>1. e = InOrder(S)
    BY <1>3, <1>8 DEF ErrGroups
  <2>2. rest = (maxDistinctErrors + 1)..n /\ rest \subseteq 1..n /\ 1..maxDistinctErrors \subseteq 1..n
    BY <1>2, <1>3, <1>4, <1>8 DEF FirstFolded
  <2>3. other.count = Cardinality(F) /\ IsFiniteSet(F) /\ other.message = Other /\ Cardinality(F) \in Nat
    <3>1. Total([i \in rest |-> all[i].count]) = Cardinality(F) /\ IsFiniteSet(F)
      BY <2>2, CountsOf
    <3> QED BY <3>1, FS_CardinalityType
  <2> HIDE DEF e, all, n, G, rest, other
  <2>4. IsFiniteSet(head) /\ Cardinality(head) <= maxDistinctErrors /\ head \subseteq G
    <3> DEFINE N == 1..maxDistinctErrors
               f == [i \in N |-> all[i]]
    <3>1. IsFiniteSet(N) /\ Cardinality(N) = maxDistinctErrors
      BY <1>4, FS_Interval
    <3>2. head \subseteq G
      BY <1>2, <2>2
    <3>3. f \in [N -> head] /\ \A g \in head : \E i \in N : f[i] = g
      OBVIOUS
    <3> HIDE DEF f, head, N
    <3>4. f \in Surjection(N, head)
      BY <3>3, Fun_IsSurj
    <3>5. IsFiniteSet(head) /\ Cardinality(head) <= Cardinality(N)
      BY <3>1, <3>4, FS_Surjection
    <3> QED BY <3>1, <3>2, <3>5
  <2>5. \A g \in head : g.message \in Range(Key) /\ g.message # Other /\ g.count = size(g.message)
    BY <1>1, <1>4, <2>4
  <2>6. Groups(S)
    <3>1. IsFiniteSet(S)
      BY <2>4, FS_AddElement
    <3>2. \A g \in S : g.message \in Messages /\ g.count \in Nat
      BY <1>1, <2>3, <2>5 DEF Messages
    <3>3. \A g, h \in head : g.message = h.message => g = h
      BY <1>1, <2>4 DEF Groups
    <3>4. \A g, h \in S : g.message = h.message => g = h
      <4> HIDE DEF head
      <4> QED BY <2>3, <2>5, <3>3
    <3> QED BY <3>1, <3>2, <3>4 DEF Groups
  <2>7. Arranged(e, S)
    BY <2>1, <2>6, InOrderIs
  <2>8. /\ k \in Nat /\ DOMAIN e = 1..k /\ \A i \in 1..k : e[i] \in S
        /\ \A g \in S : \E i \in 1..k : e[i] = g
        /\ \A i, j \in 1..k : i < j => ByFreq(e[i], e[j]) /\ e[i].message # e[j].message
    BY <2>6, <2>7, FS_CardinalityType DEF Groups, Arranged
  <2> DEFINE listed == {i \in DOMAIN e : e[i].message # Other}
  <2>9. Cardinality(listed) <= maxDistinctErrors
    <3> HIDE DEF head, k
    <3>1. \A g \in S : g.message # Other => g \in head
      BY <2>3
    <3> HIDE DEF S
    <3>2. Cardinality({i \in DOMAIN e : e[i].message # Other}) <= Cardinality(head)
      BY <2>4, <2>6, <2>7, <3>1, ListedAre
    <3>3. Cardinality(head) \in Nat /\ Cardinality(listed) \in Nat
      <4>1. IsFiniteSet(1..k) /\ listed \in SUBSET (1..k)
        BY <2>8, FS_Interval
      <4> QED BY <2>4, <4>1, FS_Subset, FS_CardinalityType
    <3> HIDE DEF listed
    <3>4. Cardinality(listed) <= Cardinality(head)
      BY <3>2 DEF listed
    <3> QED BY <1>4, <2>4, <3>3, <3>4
  <2>10. \A i \in 1..k : e[i].count \in Nat
    BY <2>6, <2>8 DEF Groups
  <2>11. \A i, j \in 1..k : i < j => e[i].count >= e[j].count /\ e[i].message # e[j].message
    <3> HIDE DEF k
    <3> SUFFICES ASSUME NEW i \in 1..k, NEW j \in 1..k, i < j
                 PROVE  e[i].count >= e[j].count /\ e[i].message # e[j].message
      OBVIOUS
    <3>1. e[i].count \in Nat /\ e[j].count \in Nat
      BY <2>10
    <3> QED BY <2>8, <3>1 DEF ByFreq
  <2> HIDE DEF k
  <2>12. \A i \in listed : i \in 1..k /\ e[i] \in head /\ e[i].count = size(e[i].message)
    <3> HIDE DEF head, size
    <3> QED BY <2>3, <2>5, <2>8
  <2>13. Total([i \in 1..k |-> e[i].count]) = Cardinality(E)
    <3> DEFINE c == [i \in 1..k |-> e[i].count]
               f == [i \in 1..k |-> IF e[i].message = Other THEN F ELSE OfKey(E, e[i].message)]
    <3>1. c \in [1..k -> Nat] /\ DOMAIN f = 1..k
      BY <2>10
    <3>2. ASSUME NEW i \in 1..k PROVE f[i] \subseteq E /\ c[i] = Cardinality(f[i])
      <4>1. CASE e[i].message = Other
        <5>1. e[i] = other
          <6> HIDE DEF head
          <6> QED BY <2>5, <2>8, <4>1
        <5>2. f[i] = F /\ c[i] = e[i].count
          BY <4>1
        <5>3. F \subseteq E
          OBVIOUS
        <5> HIDE DEF F, f, c
        <5> QED BY <2>3, <5>1, <5>2, <5>3
      <4>2. CASE e[i].message # Other
        <5>1. f[i] = OfKey(E, e[i].message) /\ c[i] = e[i].count
          BY <4>2
        <5>2. i \in listed
          BY <2>8, <4>2
        <5>3. OfKey(E, e[i].message) \subseteq E
          BY DEF OfKey
        <5> HIDE DEF F, f, c, listed
        <5> QED BY <2>12, <5>1, <5>2, <5>3
      <4> QED BY <4>1, <4>2
    <3>3. ASSUME NEW i \in 1..k, NEW j \in 1..k, i < j PROVE f[i] \cap f[j] = {}
      <4> SUFFICES ASSUME NEW u \in f[i], u \in f[j] PROVE FALSE
        OBVIOUS
      <4> DEFINE m == Key[u[1].msg]
      <4>1. ASSUME NEW g \in 1..k, u \in f[g]
            PROVE  IF e[g].message = Other THEN u \in F
                   ELSE g \in listed /\ e[g].message = m
        BY <2>8, <4>1 DEF OfKey
      <4>2. e[i].message # e[j].message
        BY <2>8, <3>3
      <4>3. ASSUME NEW g \in listed, e[g].message = m, u \in F PROVE FALSE
        <5>1. e[g] \in head
          BY <2>12, <4>3
        <5>2. PICK h \in 1..maxDistinctErrors : e[g] = all[h]
          BY <5>1
        <5>3. PICK r \in rest : all[r].message = m
          BY <4>3
        <5>4. h \in 1..n /\ r \in 1..n /\ h < r
          BY <1>2, <1>4, <2>2
        <5>5. all[h].message # all[r].message
          BY <1>2, <5>4
        <5> QED BY <4>3, <5>2, <5>3, <5>5
      <4> HIDE DEF f, F, listed, m
      <4> QED BY <4>1, <4>2, <4>3
    <3>4. \A i, j \in 1..k : i # j => f[i] \cap f[j] = {}
      <4> SUFFICES ASSUME NEW i \in 1..k, NEW j \in 1..k, i # j PROVE f[i] \cap f[j] = {}
        OBVIOUS
      <4>1. i < j \/ j < i
        BY <2>8
      <4> HIDE DEF f
      <4> QED BY <3>3, <4>1
    <3>5. ASSUME NEW u \in E PROVE \E i \in 1..k : u \in f[i]
      <4> DEFINE m == Key[u[1].msg]
      <4>1. PICK g \in 1..n : all[g].message = m
        BY <1>5
      <4>2. CASE g \in 1..maxDistinctErrors
        <5>1. all[g] \in head
          BY <4>2
        <5>2. all[g] \in S /\ all[g].message # Other
          BY <2>5, <5>1
        <5>3. PICK i \in 1..k : e[i] = all[g]
          BY <2>8, <5>2
        <5>4. u \in OfKey(E, e[i].message)
          BY <4>1, <5>3 DEF OfKey
        <5>5. f[i] = OfKey(E, e[i].message)
          BY <5>2, <5>3
        <5> QED BY <5>4, <5>5
      <4>3. CASE g \notin 1..maxDistinctErrors
        <5>1. g \in rest
          BY <1>2, <1>4, <2>2, <4>3
        <5>2. u \in F
          BY <4>1, <5>1
        <5>3. other \in S
          OBVIOUS
        <5>4. PICK i \in 1..k : e[i] = other
          BY <2>8, <5>3
        <5>5. f[i] = F
          BY <2>3, <5>4
        <5> QED BY <5>2, <5>5
      <4> QED BY <4>2, <4>3
    <3> HIDE DEF f, c, F
    <3>6. Classified(E, 1..k, f, c)
      BY <1>1, <3>1, <3>2, <3>4, <3>5 DEF Classified
    <3>7. Total(c) = Cardinality(E)
      BY <3>6, Classes
    <3> QED BY <3>7 DEF c
  <2>14. ASSUME NEW m \in Range(Key) \ {e[i].message : i \in listed}, NEW i \in listed
         PROVE  size(m) <= e[i].count
    <3>1. i \in 1..k /\ e[i] \in head /\ e[i].count \in Nat
      BY <2>10, <2>12
    <3>2. CASE \E g \in 1..n : all[g].message = m
      <4>1. PICK g \in 1..n : all[g].message = m
        BY <3>2
      <4>2. g \notin 1..maxDistinctErrors
        <5> SUFFICES ASSUME g \in 1..maxDistinctErrors PROVE FALSE
          OBVIOUS
        <5>1. all[g] \in head
          OBVIOUS
        <5>2. all[g] \in S /\ all[g].message # Other
          BY <2>5, <5>1
        <5>3. PICK j \in 1..k : e[j] = all[g]
          BY <2>8, <5>2
        <5>4. j \in listed /\ e[j].message = m
          BY <2>8, <4>1, <5>2, <5>3
        <5> QED BY <5>4, <2>14
      <4>3. PICK h \in 1..maxDistinctErrors : e[i] = all[h]
        BY <3>1
      <4>4. h \in 1..n /\ h < g
        BY <1>2, <1>4, <2>2, <4>2
      <4>5. ByFreq(all[h], all[g])
        BY <1>2, <4>4
      <4>6. all[g].count = size(m)
        <5> HIDE DEF size
        <5> QED BY <1>1, <1>2, <4>1
      <4>7. size(m) \in Nat
        BY <1>1
      <4> HIDE DEF size
      <4> QED BY <3>1, <4>3, <4>5, <4>6, <4>7 DEF ByFreq
    <3>3. CASE ~\E g \in 1..n : all[g].message = m
      <4>1. size(m) = 0
        BY <1>6, <3>3
      <4> QED BY <3>1, <4>1
    <3> QED BY <3>2, <3>3
  <2> HIDE DEF listed, head, F, S
  <2> QED BY <2>8, <2>9, <2>11, <2>12, <2>13, <2>14 DEF BreaksDown, listed, e
<1> QED BY <1>7, <1>8

-----------------------------------------------------------------------------
(* The properties *)

\* In the figures, those that were successful have durations and the errors have keys.
LEMMA OfAre ==
  ASSUME SInv, NEW op \in Op
  PROVE  Timed(Of(op, "ok")) /\ Texts(Of(op, "err"))
<1>1. ASSUME NEW res
      PROVE  IsFiniteSet(Of(op, res)) /\ \A u \in Of(op, res) : u[1] \in Kind /\ u[1].res = res
  <2>1. Of(op, res) \in SUBSET Samples
    BY DEF Of, All
  <2>2. \A u \in Of(op, res) : u[1] \in Kind
    BY <2>1, SamplesAre DEF SInv
  <2>3. \A u \in Of(op, res) : u[1].res = res
    BY DEF Of
  <2> QED BY <2>1, <2>2, <2>3, FS_Subset DEF SInv, StatsTypeOK
<1> QED BY <1>1, KindsAre DEF Timed, Texts

\* The figures of the summary are true in every state of the invariant: its samples
\* are finitely many, and nothing else matters.
LEMMA FiguresFollow == SInv => FiguresAreTrue
<1> SUFFICES ASSUME SInv PROVE FiguresAreTrue
  OBVIOUS
<1>1. NearestRank
  BY OfAre, PercentilesAreRanks DEF NearestRank
<1>2. ErrorsAddUp
  <2>1. \A op \in Op : BreaksDown(Of(op, "err"), ErrGroups(Of(op, "err")))
    BY OfAre, ErrGroupsAddUp
  <2> QED BY <2>1 DEF ErrorsAddUp, BreaksDown
<1> QED BY <1>1, <1>2 DEF FiguresAreTrue

\* What each counter of demoAgg counts.
LEMMA CountersSay ==
  ASSUME SInv
  PROVE  /\ agg.n["pushes"] = Cardinality(All("push")) /\ agg.n["clones"] = Cardinality(All("clone"))
         /\ agg.n["ok"] = Cardinality(Of("push", "ok")) /\ agg.n["cloneOK"] = Cardinality(Of("clone", "ok"))
         /\ agg.n["cas"] = Cardinality(Of("push", "cas"))
         /\ agg.n["errs"] = Cardinality(Of("push", "err")) /\ agg.n["cloneErrs"] = Cardinality(Of("clone", "err"))
<1> DEFINE In(c) == {u \in Samples : ~u[1].warm /\ c \in Counted(u[1])}
<1>1. \A u \in Samples : u[1].op \in {"push", "clone"} /\ u[1].res \in {"ok", "cas", "err"} /\ (u[1].res = "cas" => u[1].op = "push")
  BY SamplesAre, KindsAre DEF SInv, Op
<1>2. \A c \in Counters : agg.n[c] = Cardinality(In(c))
  BY DEF SInv, Aggregated
<1>3. In("pushes") = All("push") /\ In("clones") = All("clone")
  BY <1>1 DEF Counted, All
<1>4. In("ok") = Of("push", "ok") /\ In("cloneOK") = Of("clone", "ok")
  BY <1>1 DEF Counted, All, Of
<1>5. In("cas") = Of("push", "cas")
  BY <1>1 DEF Counted, All, Of
<1>6. In("errs") = Of("push", "err") /\ In("cloneErrs") = Of("clone", "err")
  BY <1>1 DEF Counted, All, Of
<1> HIDE DEF In
<1> QED BY <1>2, <1>3, <1>4, <1>5, <1>6 DEF Counters

\* The demo's counters and histograms tally the samples that are in the figures, so
\* what is made of them is what is made of the samples, to the bucket.
LEMMA DemoFollows == SInv => DemoAgreesWithSummary
<1> SUFFICES ASSUME SInv PROVE DemoAgreesWithSummary
  OBVIOUS
<1> DEFINE primary == IF strategy = "clone" THEN "clone" ELSE "push"
           h == IF strategy = "clone" THEN agg.cloneLat ELSE agg.lat
           D == Of(primary, "ok")
           C == Of("clone", "ok")
           E == Of(primary, "err")
<1>1. \A op \in Op : Timed(Of(op, "ok")) /\ Texts(Of(op, "err"))
  BY OfAre
<1>2. primary \in Op /\ "clone" \in Op
  BY DEF Op
<1>3. /\ h \in [Buckets -> Nat] /\ Durations(h, D) /\ Timed(D)
      /\ agg.cloneLat \in [Buckets -> Nat] /\ Durations(agg.cloneLat, C) /\ Timed(C) /\ Texts(E)
  BY <1>1, <1>2 DEF SInv, StatsTypeOK, Aggregated
<1> HIDE DEF h, D, C, E
<1>4. ASSUME NEW p \in Percents
      PROVE  /\ Quantile(h, p) = InBucket(Percentile(Sorted(D), p))
             /\ Quantile(agg.cloneLat, p) = InBucket(Percentile(Sorted(C), p))
  BY <1>3, QuantilesAgree
<1>5. MaxValue(h) = InBucket(IF Sorted(D) = <<>> THEN 0 ELSE Sorted(D)[Len(Sorted(D))])
  BY <1>3, MaximaAgree
<1>6. Total([i \in DOMAIN ErrGroups(E) |-> ErrGroups(E)[i].count]) = Cardinality(E)
  BY <1>3, ErrGroupsAddUp DEF BreaksDown
<1> DEFINE d == DemoResult
           e == Summarize
<1>7. /\ d.max = MaxValue(h)
      /\ \A p \in Percents : d.quantiles[p] = Quantile(h, p) /\ d.cloneQuantiles[p] = Quantile(agg.cloneLat, p)
  BY DEF DemoResult, h
<1>8. /\ e.max = IF Sorted(D) = <<>> THEN 0 ELSE Sorted(D)[Len(Sorted(D))]
      /\ \A p \in Percents : /\ e.quantiles[p] = Percentile(Sorted(D), p)
                             /\ e.cloneQuantiles[p] = Percentile(Sorted(C), p)
      /\ e.errors = ErrGroups(E)
  BY DEF Summarize, D, C, E
<1>9. /\ d.pushes = e.pushes /\ d.ok = e.ok /\ d.cas = e.cas /\ d.errs = e.errs
      /\ d.clones = e.clones /\ d.cloneOK = e.cloneOK /\ d.cloneErrs = e.cloneErrs
      /\ d.errs = Cardinality(E)
  BY CountersSay DEF DemoResult, Summarize, E
<1> HIDE DEF d, e
<1>10. \A c \in {"pushes", "ok", "cas", "errs", "clones", "cloneOK", "cloneErrs"} : d[c] = e[c]
  BY <1>9
<1>11. d.max = InBucket(e.max)
  BY <1>5, <1>7, <1>8
<1>12. Total([i \in DOMAIN e.errors |-> e.errors[i].count]) = d.errs
  BY <1>6, <1>8, <1>9
<1>13. \A p \in Percents : d.quantiles[p] = InBucket(e.quantiles[p]) /\ d.cloneQuantiles[p] = InBucket(e.cloneQuantiles[p])
  BY <1>4, <1>7, <1>8
<1> QED BY <1>10, <1>11, <1>12, <1>13 DEF DemoAgreesWithSummary, d, e

\* Percentiles are of the nearest rank, and the breakdown of the errors accounts for
\* all of them (percentile, errGroups in stats.go).
THEOREM FiguresSafe == StatsSpec => []FiguresAreTrue
BY StatsInvariant, FiguresFollow, PTL

\* What the demo publishes is what summarize would have (demoAgg, latHist).
THEOREM DemoSafe == StatsSpec => []DemoAgreesWithSummary
BY StatsInvariant, DemoFollows, PTL
=============================================================================
