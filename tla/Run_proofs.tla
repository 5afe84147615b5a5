------------------------------ MODULE Run_proofs ------------------------------
(***************************************************************************)
(* Fair starts, results of whole levels, no credential held at the end and *)
(* a log that is a transcript, for any number of targets and levels,       *)
(* whoever fails at whichever point and whenever the run is cancelled.     *)
(***************************************************************************)
EXTENDS Run, FiniteSetTheorems, TLAPS

(* The inductive invariant *)

InLevel == {"await", "fire", "open", "announce", "wait"}
Timed == {"run", "full", "partial"}

\* Where the goroutine of a target can be while the coordinator is somewhere.
Places ==
  /\ \A t \in Targets : t \in dead <=> tpc[t] \in {"dying", "down"}
  /\ cpc = "setup" => Settled(Targets, {"setup", "ready", "up", "dying", "down"})
  /\ cpc = "sweep" => Settled(Targets, {"sweeping", "up", "down"})
  /\ cpc \in InLevel => Settled(Targets, {"build", "held", "up", "dying", "down"} \cup Timed)
  /\ cpc \notin {"setup", "sweep"} \cup InLevel => Settled(Targets, {"up", "down"})

\* The barrier waits for those that still build, and fires after the last of them.
Barrier ==
  /\ missing = {t \in Targets : tpc[t] = "build"}
  /\ missing # {} => cpc = "await"
  /\ fired => cpc \notin {"await", "fire"}
  /\ \A t \in Targets : tpc[t] \in Timed => fired
  /\ cpc \in InLevel => \A t \in Alive : at[t] = li

\* Where the coordinator is in its loop over the levels.
Position ==
  /\ cpc \in {"setup", "sweep"} => li = 0
  /\ cpc \in InLevel \cup {"closed", "flush", "collect"} => li < Levels
  /\ \A t \in Targets : tpc[t] = "partial" => cancelled

\* How many results there are by then: one for every level before, and one of the
\* level in progress once the target is back from it.
Tally ==
  \A t \in Alive :
    /\ Len(results[t]) >= li
    /\ cpc \in {"setup", "sweep", "top"} \/ tpc[t] \in {"build", "held"} \cup Timed => Len(results[t]) = li
    /\ cpc \in InLevel \cup {"closed"} /\ tpc[t] = "up" => cancelled \/ Len(results[t]) = li + 1
    /\ cpc \in {"flush", "collect"} => Len(results[t]) = li + 1

Whole == \A t \in Targets : \A i \in DOMAIN results[t] : results[t][i] = [level |-> i - 1, full |-> TRUE]

Published == \A i \in DOMAIN log : log[i].name = "level_result" => log[i].level < li

Counting == Position /\ Tally /\ Whole /\ Published

\* Who holds a secret or a runner, and what has been told of deaths and losses.
Telling ==
  /\ \A t \in secret : tpc[t] = "setup"
  /\ cpc \in {"say", "seal", "clear", "end", "ended"} => runner = {}
  /\ sealed => cpc \in {"clear", "end", "ended"}
  /\ \A i \in DOMAIN log : log[i].name = "run_done" => cpc \in {"seal", "clear", "end", "ended"}
  /\ \A t \in Targets : tpc[t] = "down" => \E r \in remarks : r.kind = "error" /\ r.target = t
  /\ cpc \in {"persist", "release", "say", "seal", "clear", "end", "ended"} => state \in Terminal
  /\ file = "lost" => \E r \in remarks : r.kind = "error" /\ r.target = NoTarget

IInv == TypeOK /\ Places /\ Barrier /\ Counting /\ Telling

\* What no goroutine of the run does.
Quiet == Advance \/ Cancel \/ Ended \/ UNCHANGED vars

\* TypeOK in four parts.
Data ==
  /\ remarks \subseteq Remark /\ results \in [Targets -> Seq(Result)]
  /\ col \in [Targets -> [cur : SUBSET Level, old : SUBSET Level]]
  /\ log \in Seq(Entry)

Threads ==
  /\ cpc \in CPC /\ tpc \in [Targets -> TPC] /\ at \in [Targets -> Level]
  /\ secret \subseteq Targets /\ runner \subseteq Targets /\ dead \subseteq Targets
  /\ missing \subseteq Targets

Scalars ==
  /\ li \in 0..Levels /\ levelIdx \in Level /\ phase \in {"shut", "warm", "measured", "over"}
  /\ ticks \in 0..MaxTicks
  /\ state \in Terminal \cup {"starting", "running"} /\ file \in Terminal \cup {"none", "lost"}

Flags ==
  /\ measuring \in BOOLEAN /\ fired \in BOOLEAN /\ ticker \in BOOLEAN
  /\ cancelled \in BOOLEAN /\ sealed \in BOOLEAN

LEMMA Parts == TypeOK <=> Data /\ Threads /\ Scalars /\ Flags
BY DEF TypeOK, Data, Threads, Scalars, Flags

-----------------------------------------------------------------------------
LEMMA Initially == Init => IInv
<1> SUFFICES ASSUME Init PROVE IInv
  OBVIOUS
<1> USE RunAssumption DEF Init
<1>1. Data
  <2>1. log \in Seq(Entry)
    BY DEF Entry
  <2>2. results \in [Targets -> Seq(Result)]
    OBVIOUS
  <2>3. col \in [Targets -> [cur : SUBSET Level, old : SUBSET Level]]
    OBVIOUS
  <2> QED
    BY <2>1, <2>2, <2>3 DEF Data
<1>2. Threads /\ Scalars
  BY DEF Threads, Scalars, CPC, TPC, Level
<1>5. Flags
  BY DEF Flags
<1>3. Places /\ Barrier
  BY DEF Places, Barrier, Settled, InLevel, Timed, Alive
<1>4. Counting /\ Telling
  BY DEF Counting, Position, Tally, Whole, Published, Telling, InLevel, Timed, Alive
<1> QED
  BY <1>1, <1>2, <1>3, <1>4, <1>5, Parts DEF IInv

-----------------------------------------------------------------------------
(* Types *)

LEMMA Remarking ==
  ASSUME Data, NEW kind \in {"ready", "error"}, NEW t \in Targets \cup {NoTarget},
         NEW l \in Level \cup {Levels}, Remarked(kind, t, l)
  PROVE  remarks' \subseteq Remark
BY DEF Data, Remarked, Remark

LEMMA Saying ==
  ASSUME Data, NEW e \in Entry, Say(e)
  PROVE  log' \in Seq(Entry)
BY DEF Data, Say

LEMMA Snapshots ==
  ASSUME Data, Scalars, Snapshot
  PROVE  /\ log' \in Seq(Entry)
         /\ col' \in [Targets -> [cur : SUBSET Level, old : SUBSET Level]]
<1>1. CASE Alive = {}
  BY <1>1 DEF Snapshot, Data
<1>2. CASE Alive # {}
  <2> DEFINE of == UNION {col[t].cur \cup col[t].old : t \in Alive}
  <2>1. of \in SUBSET Level /\ levelIdx \in Level
    BY DEF Data, Scalars, Alive
  <2>2. [name |-> "bucket", level |-> levelIdx, of |-> of] \in Entry
    BY <2>1 DEF Entry
  <2>3. log' \in Seq(Entry)
    BY <1>2, <2>2, Saying DEF Snapshot
  <2> QED
    BY <1>2, <2>3 DEF Snapshot, Data
<1> QED
  BY <1>1, <1>2

LEMMA DataTypes == ASSUME IInv, [Next]_vars PROVE Data'
<1> USE RunAssumption DEF target, level, bucket, output
<1>0. Data /\ Threads /\ Scalars
  BY Parts DEF IInv
<1>1. CASE UNCHANGED <<remarks, results, col, log>>
  BY <1>0, <1>1 DEF Data
<1>2. CASE LevelTop
  <2>1. col' \in [Targets -> [cur : SUBSET Level, old : SUBSET Level]]
    BY <1>0, <1>2 DEF LevelTop, Reset, Data
  <2> QED
    BY <1>0, <1>2, <2>1 DEF LevelTop, Data
<1>3. CASE Announce \/ LevelResult
  <2>1. li \in Level
    BY <1>0, <1>3 DEF IInv, Counting, Position, InLevel, Announce, LevelResult, Step, Scalars, Level
  <2>2. /\ [name |-> "level_start", level |-> li] \in Entry
        /\ [name |-> "level_result", level |-> li] \in Entry
    BY <2>1 DEF Entry
  <2>3. log' \in Seq(Entry)
    BY <1>0, <1>3, <2>2, Saying DEF Announce, LevelResult
  <2> QED
    BY <1>0, <1>3, <2>3 DEF Announce, LevelResult, Data
<1>4. CASE FlushTail \/ Tick
  BY <1>0, <1>4, Snapshots DEF FlushTail, Tick, Data
<1>5. CASE Persist
  <2>1. remarks' \subseteq Remark
    BY <1>0, <1>5, Remarking DEF Persist, NoLevel, Data
  <2> QED
    BY <1>0, <1>5, <2>1 DEF Persist, Data
<1>6. CASE RunDone
  <2>1. state \in Terminal
    BY <1>0, <1>6 DEF RunDone, IInv, Telling, Step
  <2>2. [name |-> "run_done", state |-> state] \in Entry
    BY <2>1 DEF Entry
  <2>3. log' \in Seq(Entry)
    BY <1>0, <1>6, <2>2, Saying DEF RunDone
  <2> QED
    BY <1>0, <1>6, <2>3 DEF RunDone, Data
<1>7. ASSUME NEW t \in Targets, Died(t) \/ Ready(t) \/ Sweep(t) PROVE Data'
  <2>1. at[t] \in Level /\ remarks \subseteq Remark
    BY <1>0 DEF Data, Threads
  <2>2. remarks' \subseteq Remark
    BY <1>0, <1>7, <2>1, Remarking DEF Died, Ready, Sweep, NoLevel
  <2> QED
    BY <1>0, <1>7, <2>2 DEF Died, Ready, Sweep, Data
<1>8. ASSUME NEW t \in Targets, Publish(t) PROVE Data'
  <2>1. PICK end \in {"full", "partial"} :
          results' = IF Publishable
            THEN [results EXCEPT ![t] = Append(@, [level |-> at[t], full |-> end = "full"])]
            ELSE results
    BY <1>8 DEF Publish
  <2>2. [level |-> at[t], full |-> end = "full"] \in Result
    BY <1>0 DEF Threads, Result
  <2>3. results' \in [Targets -> Seq(Result)]
    BY <1>0, <2>1, <2>2 DEF Data
  <2> QED
    BY <1>0, <1>8, <2>3 DEF Publish, Data
<1>9. ASSUME NEW t \in Targets, Sample(t) PROVE Data'
  <2>1. at[t] \in Level
    BY <1>0 DEF Threads
  <2>2. [col[t] EXCEPT !.cur = @ \cup {at[t]}] \in [cur : SUBSET Level, old : SUBSET Level]
    BY <1>0, <2>1 DEF Data
  <2>3. col' \in [Targets -> [cur : SUBSET Level, old : SUBSET Level]]
    BY <1>0, <1>9, <2>2 DEF Sample, Data
  <2> QED
    BY <1>0, <1>9, <2>3 DEF Sample, Data
<1>10. CASE SetUpDone \/ SweepDone \/ LevelsOver \/ Await \/ Fire \/ OpenWindow \/ CloseWindow \/ Closed
  BY <1>1, <1>10 DEF SetUpDone, SweepDone, LevelsOver, Await, Fire, OpenWindow, CloseWindow, Closed
<1>11. CASE StopTicker \/ Conclude \/ Release \/ Seal \/ ClearActive \/ End \/ Quiet
  BY <1>1, <1>11 DEF StopTicker, Conclude, Release, Seal, ClearActive, End, Quiet, Advance, Cancel, Ended, vars
<1>12. ASSUME NEW t \in Targets,
              SetUp(t) \/ SetUpFails(t) \/ BuildFails(t) \/ Arrive(t) \/ Start(t) \/ StartFails(t) \/ LevelEnds(t)
       PROVE  Data'
  BY <1>1, <1>12 DEF SetUp, SetUpFails, BuildFails, Arrive, Start, StartFails, LevelEnds
<1> QED
  BY <1>2, <1>3, <1>4, <1>5, <1>6, <1>7, <1>8, <1>9, <1>10, <1>11, <1>12 DEF Next, Coordinator, Goroutine, Quiet

LEMMA ThreadTypes == ASSUME IInv, [Next]_vars PROVE Threads'
<1> USE RunAssumption DEF target, level, bucket, output, Step, Goto, MarkDead
<1>0. Threads /\ Scalars
  BY Parts DEF IInv
<1>1. CASE SetUpDone \/ SweepDone \/ LevelsOver \/ Await \/ Fire \/ OpenWindow \/ Announce \/ CloseWindow
  BY <1>0, <1>1 DEF SetUpDone, SweepDone, LevelsOver, Await, Fire, OpenWindow, Announce, CloseWindow, Threads, CPC, TPC
<1>2. CASE Closed \/ FlushTail \/ LevelResult \/ StopTicker \/ Conclude \/ Persist \/ Release \/ RunDone \/ Seal \/ ClearActive \/ End
  BY <1>0, <1>2 DEF Closed, FlushTail, LevelResult, StopTicker, Conclude, Persist, Release, ReleaseAll, RunDone,
     Seal, ClearActive, End, Threads, CPC
<1>3. CASE LevelTop
  <2>1. li \in Level
    BY <1>0, <1>3 DEF LevelTop, LevelsLeft, Scalars, Level
  <2> QED
    BY <1>0, <1>3, <2>1 DEF LevelTop, Threads, CPC, TPC, Alive
<1>4. CASE Tick \/ Quiet
  BY <1>0, <1>4 DEF Tick, Quiet, Advance, Cancel, Ended, vars, Threads
<1>5. ASSUME NEW t \in Targets, NEW p \in TPC, tpc' = [tpc EXCEPT ![t] = p] PROVE tpc' \in [Targets -> TPC]
  BY <1>0, <1>5 DEF Threads
<1>6. \A p \in {"ready", "dying", "down", "up", "held", "run", "full", "partial"} : p \in TPC
  BY DEF TPC
<1>7. ASSUME NEW t \in Targets, Goroutine(t) \/ Sample(t) PROVE Threads'
  <2>1. CASE SetUp(t) \/ SetUpFails(t) \/ Ready(t) \/ Died(t) \/ Sweep(t)
    BY <1>0, <1>5, <1>6, <2>1 DEF SetUp, SetUpFails, Ready, Died, Sweep, Threads
  <2>2. CASE BuildFails(t) \/ Arrive(t) \/ Start(t) \/ StartFails(t)
    BY <1>0, <1>5, <1>6, <2>2 DEF BuildFails, ArriveOnFailure, Arrive, Start, StartFails, Threads
  <2>3. CASE LevelEnds(t) \/ Publish(t) \/ Sample(t)
    BY <1>0, <1>5, <1>6, <2>3 DEF LevelEnds, Publish, Sample, Threads
  <2> QED
    BY <1>7, <2>1, <2>2, <2>3 DEF Goroutine
<1> QED
  BY <1>1, <1>2, <1>3, <1>4, <1>7 DEF Next, Coordinator, Quiet

LEMMA ScalarTypes == ASSUME IInv, [Next]_vars PROVE Scalars'
<1> USE RunAssumption DEF target, level, bucket, output, Step
<1>0. Scalars
  BY Parts DEF IInv
<1>1. CASE SetUpDone \/ SweepDone \/ LevelsOver \/ Await \/ Fire \/ OpenWindow \/ Announce \/ CloseWindow
  BY <1>0, <1>1 DEF SetUpDone, SweepDone, LevelsOver, Await, Fire, OpenWindow, Announce, CloseWindow,
     Scalars, Outcome, Terminal
<1>2. CASE Closed \/ FlushTail \/ StopTicker \/ Conclude \/ Release \/ RunDone \/ Seal \/ ClearActive \/ End
  BY <1>0, <1>2 DEF Closed, FlushTail, StopTicker, Conclude, Release, RunDone, Seal, ClearActive, End,
     Scalars, FinalState, Terminal
<1>3. CASE LevelTop
  BY <1>0, <1>3 DEF LevelTop, LevelsLeft, Scalars, Level
<1>4. CASE LevelResult
  BY <1>0, <1>4 DEF LevelResult, IInv, Counting, Position, Scalars
<1>5. CASE Persist
  BY <1>0, <1>5 DEF Persist, IInv, Telling, Scalars
<1>6. CASE Tick \/ Quiet
  BY <1>0, <1>6 DEF Tick, Quiet, Advance, Cancel, Ended, vars, Scalars
<1>7. ASSUME NEW t \in Targets, Goroutine(t) \/ Sample(t)
      PROVE UNCHANGED <<li, levelIdx, phase, ticks, state, file>>
  BY <1>7 DEF Goroutine, Sample, SetUp, SetUpFails, Ready, Died, Sweep, BuildFails, Arrive, Start, StartFails,
     LevelEnds, Publish
<1> QED
  BY <1>0, <1>1, <1>2, <1>3, <1>4, <1>5, <1>6, <1>7 DEF Next, Coordinator, Quiet, Scalars

LEMMA FlagTypes == ASSUME IInv, [Next]_vars PROVE Flags'
<1> USE DEF target, level, bucket, output
<1>0. Flags
  BY Parts DEF IInv
<1>1. CASE Coordinator
  BY <1>0, <1>1, Zenon DEF Coordinator, SetUpDone, SweepDone, LevelTop, LevelsOver, Await, Fire, OpenWindow, Announce,
     CloseWindow, Closed, FlushTail, LevelResult, StopTicker, Conclude, Persist, Release, RunDone, Seal, ClearActive, End, Flags
<1>2. ASSUME NEW t \in Targets, Goroutine(t) \/ Sample(t)
      PROVE UNCHANGED <<measuring, fired, ticker, cancelled, sealed>>
  BY <1>2 DEF Goroutine, Sample, SetUp, SetUpFails, Ready, Died, Sweep, BuildFails, Arrive, Start, StartFails,
     LevelEnds, Publish
<1>3. CASE Tick \/ Quiet
  BY <1>0, <1>3, Zenon DEF Tick, Quiet, Advance, Cancel, Ended, vars, Flags
<1> QED
  BY <1>0, <1>1, <1>2, <1>3, Zenon DEF Next, Quiet, Flags

LEMMA TypesKept == ASSUME IInv, [Next]_vars PROVE TypeOK'
<1>1. Data' /\ Threads' /\ Scalars' /\ Flags'
  BY DataTypes, ThreadTypes, ScalarTypes, FlagTypes
<1> QED
  BY <1>1 DEF TypeOK, Data, Threads, Scalars, Flags

-----------------------------------------------------------------------------
(* Places *)

LEMMA PlacesKept == ASSUME IInv, [Next]_vars PROVE Places'
<1> USE DEF Settled, InLevel, Timed, Step, Goto, MarkDead, target, level, bucket, output
<1>0. Places /\ Threads
  BY Parts DEF IInv
<1>1. CASE UNCHANGED <<cpc, tpc, dead>>
  BY <1>0, <1>1 DEF Places
<1>2. CASE SetUpDone
  BY <1>0, <1>2 DEF SetUpDone, Places, Alive, Threads
<1>3. CASE SweepDone \/ LevelsOver
  BY <1>0, <1>3 DEF SweepDone, LevelsOver, Places, Alive
<1>4. CASE LevelTop
  BY <1>0, <1>4 DEF LevelTop, Places, Alive, Threads
<1>5. CASE Await \/ Fire \/ OpenWindow \/ Announce
  BY <1>0, <1>5 DEF Await, Fire, OpenWindow, Announce, Places
<1>6. CASE CloseWindow
  BY <1>0, <1>6 DEF CloseWindow, Returned, Places
<1>7. CASE Closed \/ FlushTail \/ LevelResult
  BY <1>0, <1>7 DEF Closed, FlushTail, LevelResult, Places
<1>8. CASE StopTicker \/ Conclude \/ Persist \/ Release \/ RunDone \/ Seal \/ ClearActive \/ End
  BY <1>0, <1>8 DEF StopTicker, Conclude, Persist, Release, RunDone, Seal, ClearActive, End, Places
<1>9. CASE Quiet \/ Tick
  BY <1>1, <1>9 DEF Quiet, Advance, Cancel, Ended, vars, Tick
<1>10. ASSUME NEW t \in Targets, Sample(t) PROVE Places'
  BY <1>1, <1>10 DEF Sample
<1>11. ASSUME NEW t \in Targets, SetUp(t) \/ Ready(t) \/ Sweep(t) \/ Died(t) PROVE Places'
  BY <1>0, <1>11 DEF SetUp, Ready, Sweep, Died, Places, Threads
<1>12. ASSUME NEW t \in Targets, SetUpFails(t) \/ BuildFails(t) \/ StartFails(t) PROVE Places'
  BY <1>0, <1>12 DEF SetUpFails, BuildFails, StartFails, Places, Threads
<1>13. ASSUME NEW t \in Targets, Arrive(t) \/ Start(t) \/ LevelEnds(t) \/ Publish(t) PROVE Places'
  BY <1>0, <1>13 DEF Arrive, Start, LevelEnds, Publish, Places, Threads
<1> QED
  BY <1>2, <1>3, <1>4, <1>5, <1>6, <1>7, <1>8, <1>9, <1>10, <1>11, <1>12, <1>13
  DEF Next, Coordinator, Goroutine, Quiet

-----------------------------------------------------------------------------
(* The barrier *)

LEMMA BarrierKept == ASSUME IInv, [Next]_vars PROVE Barrier'
<1> USE DEF InLevel, Timed, Step, Goto, MarkDead, target, level, bucket, output
<1>0. Barrier /\ Places /\ Threads
  BY Parts DEF IInv
<1>1. CASE UNCHANGED <<cpc, li, tpc, at, dead, missing, fired>>
  BY <1>0, <1>1 DEF Barrier, Alive
<1>2. CASE SetUpDone \/ SweepDone \/ LevelsOver
  BY <1>0, <1>2 DEF SetUpDone, SweepDone, LevelsOver, Barrier, Places, Settled, Alive, Threads
<1>3. CASE LevelTop
  BY <1>0, <1>3 DEF LevelTop, Barrier, Places, Settled, Alive, Threads
<1>4. CASE Await \/ Fire \/ OpenWindow \/ Announce
  BY <1>0, <1>4 DEF Await, AllArrived, Fire, OpenWindow, Announce, Barrier, Alive
<1>5. CASE CloseWindow \/ Closed \/ FlushTail \/ LevelResult
  BY <1>0, <1>5 DEF CloseWindow, Closed, FlushTail, LevelResult, Barrier, Alive
<1>6. CASE StopTicker \/ Conclude \/ Persist \/ Release \/ RunDone \/ Seal \/ ClearActive \/ End
  BY <1>0, <1>6 DEF StopTicker, Conclude, Persist, Release, RunDone, Seal, ClearActive, End, Barrier, Alive
<1>7. CASE Quiet \/ Tick
  BY <1>1, <1>7 DEF Quiet, Advance, Cancel, Ended, vars, Tick
<1>8. ASSUME NEW t \in Targets, Sample(t) PROVE Barrier'
  BY <1>1, <1>8 DEF Sample
<1>9. ASSUME NEW t \in Targets, SetUp(t) \/ SetUpFails(t) \/ Ready(t) \/ Sweep(t) \/ Died(t) PROVE Barrier'
  BY <1>0, <1>9 DEF SetUp, SetUpFails, Ready, Sweep, Died, Barrier, Alive, Threads
<1>10. ASSUME NEW t \in Targets, BuildFails(t) \/ Arrive(t) PROVE Barrier'
  BY <1>0, <1>10 DEF BuildFails, ArriveOnFailure, Arrive, Barrier, Alive, Threads
<1>11. ASSUME NEW t \in Targets, Start(t) \/ StartFails(t) PROVE Barrier'
  BY <1>0, <1>11 DEF Start, StartFails, Barrier, Alive, Threads
<1>12. ASSUME NEW t \in Targets, LevelEnds(t) \/ Publish(t) PROVE Barrier'
  BY <1>0, <1>12 DEF LevelEnds, Publish, Barrier, Alive, Threads
<1> QED
  BY <1>2, <1>3, <1>4, <1>5, <1>6, <1>7, <1>8, <1>9, <1>10, <1>11, <1>12
  DEF Next, Coordinator, Goroutine, Quiet

-----------------------------------------------------------------------------
(* What has been told *)

\* What is in a log after something was said.
LEMMA Appended ==
  ASSUME log \in Seq(Entry), NEW e, log' = log \/ log' = Append(log, e), NEW i \in DOMAIN log'
  PROVE  log'[i] = e \/ (i \in DOMAIN log /\ log'[i] = log[i])
OBVIOUS

\* A remark that is made while the log is open is there, beside the others.
LEMMA Told ==
  ASSUME ~sealed, NEW kind, NEW t, NEW l, Remarked(kind, t, l)
  PROVE  /\ remarks \subseteq remarks'
         /\ \E r \in remarks' : r.kind = kind /\ r.target = t
<1>1. [kind |-> kind, target |-> t, level |-> l] \in remarks' /\ remarks \subseteq remarks'
  BY DEF Remarked
<1> QED
  BY <1>1

LEMMA TellingKept == ASSUME IInv, [Next]_vars PROVE Telling'
<1> USE DEF Step, Goto, MarkDead, target, level, bucket, output
<1>0. Telling /\ Places /\ Threads /\ log \in Seq(Entry)
  BY Parts DEF IInv, Data
<1>1. CASE UNCHANGED <<cpc, tpc, secret, runner, remarks, state, file, log, sealed>>
  BY <1>0, <1>1 DEF Telling
<1>2. CASE SetUpDone
  <2>1. secret = {} /\ cpc = "setup"
    BY <1>0, <1>2 DEF SetUpDone, Settled, Telling, Threads
  <2>2. \A t \in Targets : tpc'[t] = "down" => tpc[t] = "down"
    BY <1>0, <1>2 DEF SetUpDone, Threads
  <2>3. cpc' \in {"sweep", "persist"} /\ (cpc' = "persist" => state' \in Terminal)
    BY <1>2 DEF SetUpDone, Outcome, Terminal
  <2> QED
    BY <1>0, <1>2, <2>1, <2>2, <2>3 DEF SetUpDone, Telling
<1>15. CASE SweepDone \/ LevelsOver
  BY <1>0, <1>15 DEF SweepDone, LevelsOver, Telling
<1>16. CASE LevelTop
  <2>1. secret = {} /\ cpc = "top" /\ cpc' = "await"
    BY <1>0, <1>16 DEF LevelTop, Settled, Telling, Places, InLevel, Threads
  <2>2. \A t \in Targets : tpc'[t] = "down" => tpc[t] = "down"
    BY <1>0, <1>16 DEF LevelTop, Threads
  <2> QED
    BY <1>0, <1>16, <2>1, <2>2 DEF LevelTop, Telling
<1>3. CASE Await \/ Fire \/ OpenWindow \/ CloseWindow \/ Closed
  BY <1>0, <1>3 DEF Await, Fire, OpenWindow, CloseWindow, Closed, Telling
<1>4. ASSUME NEW e, Say(e), e.name # "run_done", NEW i \in DOMAIN log', log'[i].name = "run_done"
      PROVE  cpc \in {"seal", "clear", "end", "ended"}
  BY <1>0, <1>4, Appended DEF Say, Telling
<1>5. CASE Announce \/ LevelResult
  <2>1. \A i \in DOMAIN log' : log'[i].name = "run_done" => cpc \in {"seal", "clear", "end", "ended"}
    BY <1>4, <1>5 DEF Announce, LevelResult
  <2> QED
    BY <1>0, <1>5, <2>1 DEF Announce, LevelResult, Telling
<1>6. CASE FlushTail \/ Tick
  <2>1. \A i \in DOMAIN log' : log'[i].name = "run_done" => cpc \in {"seal", "clear", "end", "ended"}
    BY <1>0, <1>4, <1>6 DEF FlushTail, Tick, Snapshot, Telling
  <2> QED
    BY <1>0, <1>6, <2>1 DEF FlushTail, Tick, Telling
<1>7. CASE RunDone
  BY <1>0, <1>7 DEF RunDone, Telling
<1>8. CASE StopTicker \/ Conclude \/ Release \/ Seal \/ ClearActive \/ End
  BY <1>0, <1>8 DEF StopTicker, Conclude, FinalState, Terminal, Release, ReleaseAll, Seal, ClearActive, End, Telling
<1>9. CASE Persist
  <2>1. ~sealed
    BY <1>0, <1>9 DEF Telling, Persist
  <2>2. /\ remarks \subseteq remarks'
        /\ file' = "lost" => \E r \in remarks' : r.kind = "error" /\ r.target = NoTarget
    BY <1>0, <1>9, <2>1, Told DEF Persist, Terminal, Telling
  <2> QED
    BY <1>0, <1>9, <2>2 DEF Persist, Telling
<1>10. CASE Quiet
  BY <1>1, <1>10 DEF Quiet, Advance, Cancel, Ended, vars
<1>11. ASSUME NEW t \in Targets, Sample(t) \/ Start(t) \/ Arrive(t) \/ LevelEnds(t) \/ Publish(t) PROVE Telling'
  BY <1>0, <1>11 DEF Sample, Start, Arrive, LevelEnds, Publish, Telling, Threads
<1>12. ASSUME NEW t \in Targets, SetUp(t) \/ SetUpFails(t) \/ BuildFails(t) \/ StartFails(t) PROVE Telling'
  BY <1>0, <1>12 DEF SetUp, SetUpFails, BuildFails, StartFails, Telling, Places, Settled, InLevel, Threads
<1>13. ASSUME NEW t \in Targets, Ready(t) \/ Sweep(t) PROVE Telling'
  BY <1>0, <1>13 DEF Ready, Sweep, Remarked, Telling, Threads
<1>14. ASSUME NEW t \in Targets, Died(t) PROVE Telling'
  <2>1. cpc \in {"setup"} \cup InLevel
    BY <1>0, <1>14 DEF Died, Places, Settled
  <2>2. ~sealed
    BY <1>0, <2>1 DEF Telling, InLevel
  <2>3. /\ remarks \subseteq remarks'
        /\ \E r \in remarks' : r.kind = "error" /\ r.target = t
    BY <1>14, <2>2, Told DEF Died
  <2> QED
    BY <1>0, <1>14, <2>3 DEF Died, Telling, Threads
<1> QED
  BY <1>2, <1>3, <1>5, <1>6, <1>7, <1>8, <1>9, <1>10, <1>11, <1>12, <1>13, <1>14, <1>15, <1>16
  DEF Next, Coordinator, Goroutine, Quiet

-----------------------------------------------------------------------------
(* Results *)

\* The results of a target that publishes: one more, of the level in progress.
LEMMA OneMore ==
  ASSUME IInv, NEW t \in Targets, NEW r \in Result,
         results' = [results EXCEPT ![t] = Append(@, r)]
  PROVE  /\ Len(results'[t]) = Len(results[t]) + 1
         /\ results'[t][Len(results[t]) + 1] = r
         /\ DOMAIN results'[t] = 1..(Len(results[t]) + 1)
         /\ \A i \in DOMAIN results[t] : results'[t][i] = results[t][i]
         /\ \A u \in Targets \ {t} : results'[u] = results[u]
<1>1. results \in [Targets -> Seq(Result)]
  BY Parts DEF IInv, Data
<1>2. results'[t] = Append(results[t], r) /\ results[t] \in Seq(Result)
  BY <1>1
<1> QED
  BY <1>1, <1>2

LEMMA PositionKept == ASSUME IInv, [Next]_vars PROVE Position'
<1> USE RunAssumption DEF InLevel, Step, Goto, MarkDead, target, level, bucket, output
<1>0. Position /\ Threads /\ li \in 0..Levels
  BY Parts DEF IInv, Counting, Scalars
<1>1. CASE UNCHANGED <<cpc, li, tpc, cancelled>>
  BY <1>0, <1>1 DEF Position
<1>2. CASE SetUpDone \/ SweepDone \/ LevelsOver
  BY <1>0, <1>2 DEF SetUpDone, SweepDone, LevelsOver, Position, Threads
<1>3. CASE LevelTop
  BY <1>0, <1>3 DEF LevelTop, LevelsLeft, Position, Threads
<1>4. CASE Await \/ Fire \/ OpenWindow \/ Announce \/ CloseWindow \/ Closed
  BY <1>0, <1>4 DEF Await, Fire, OpenWindow, Announce, CloseWindow, Closed, Position
<1>5. CASE FlushTail \/ LevelResult \/ StopTicker \/ Conclude
  BY <1>0, <1>5 DEF FlushTail, LevelResult, StopTicker, Conclude, Position
<1>6. CASE Persist \/ Release \/ RunDone \/ Seal \/ ClearActive \/ End \/ Cancel
  BY <1>0, <1>6 DEF Persist, Release, RunDone, Seal, ClearActive, End, Cancel, Position
<1>7. CASE Tick \/ Advance \/ Ended \/ UNCHANGED vars
  BY <1>1, <1>7 DEF Tick, Advance, Ended, vars
<1>8. ASSUME NEW t \in Targets, Sample(t) PROVE Position'
  BY <1>1, <1>8 DEF Sample
<1>9. ASSUME NEW t \in Targets, SetUp(t) \/ SetUpFails(t) \/ Ready(t) \/ Sweep(t) \/ Died(t) PROVE Position'
  BY <1>0, <1>9 DEF SetUp, SetUpFails, Ready, Sweep, Died, Position, Threads
<1>10. ASSUME NEW t \in Targets, BuildFails(t) \/ Arrive(t) \/ Start(t) \/ StartFails(t) PROVE Position'
  BY <1>0, <1>10 DEF BuildFails, Arrive, Start, StartFails, Position, Threads
<1>11. ASSUME NEW t \in Targets, LevelEnds(t) \/ Publish(t) PROVE Position'
  BY <1>0, <1>11 DEF LevelEnds, Publish, Position, Threads
<1> QED
  BY <1>2, <1>3, <1>4, <1>5, <1>6, <1>7, <1>8, <1>9, <1>10, <1>11 DEF Next, Coordinator, Goroutine

LEMMA PublishedKept == ASSUME IInv, [Next]_vars PROVE Published'
<1> USE DEF target, level, bucket, output
<1>0. Published /\ log \in Seq(Entry) /\ li \in Nat
  BY Parts DEF IInv, Counting, Data, Scalars
<1>1. CASE UNCHANGED <<li, log>>
  BY <1>0, <1>1 DEF Published
<1>2. ASSUME NEW e, Say(e), e.name = "level_result" => e.level = li,
             NEW i \in DOMAIN log', log'[i].name = "level_result"
      PROVE  log'[i].level < li \/ (log'[i].level = li /\ e.name = "level_result")
  BY <1>0, <1>2, Appended DEF Say, Published
<1>3. CASE Announce
  BY <1>2, <1>3 DEF Announce, Published
<1>4. CASE RunDone
  BY <1>2, <1>4 DEF RunDone, Published
<1>5. CASE FlushTail \/ Tick
  <2>1. CASE Alive = {}
    BY <1>1, <1>5, <2>1 DEF FlushTail, Tick, Snapshot
  <2>2. CASE Alive # {}
    BY <1>2, <1>5, <2>2 DEF FlushTail, Tick, Snapshot, Published
  <2> QED
    BY <2>1, <2>2
<1>6. CASE LevelResult
  <2>1. Say([name |-> "level_result", level |-> li]) /\ li' = li + 1
    BY <1>6 DEF LevelResult
  <2>2. ASSUME NEW i \in DOMAIN log', log'[i].name = "level_result" PROVE log'[i].level < li + 1
    <3>1. log'[i].level < li \/ log'[i].level = li
      BY <1>2, <2>1, <2>2
    <3>2. log'[i] = [name |-> "level_result", level |-> li] \/ (i \in DOMAIN log /\ log'[i] = log[i])
      BY <1>0, <2>1, Appended DEF Say
    <3>3. log'[i].level \in Nat
      BY <1>0, <2>2, <3>2 DEF Entry, Level
    <3> QED
      BY <1>0, <3>1, <3>3
  <2> QED
    BY <2>1, <2>2 DEF Published
<1>7. CASE SetUpDone \/ SweepDone \/ LevelTop \/ LevelsOver \/ Await \/ Fire \/ OpenWindow
  BY <1>1, <1>7 DEF SetUpDone, SweepDone, LevelTop, LevelsOver, Await, Fire, OpenWindow
<1>8. CASE CloseWindow \/ Closed \/ StopTicker \/ Conclude \/ Persist \/ Release \/ Seal \/ ClearActive \/ End \/ Quiet
  BY <1>1, <1>8 DEF CloseWindow, Closed, StopTicker, Conclude, Persist, Release, Seal, ClearActive, End, Quiet, Advance, Cancel, Ended, vars
<1>9. ASSUME NEW t \in Targets, Goroutine(t) \/ Sample(t) PROVE Published'
  BY <1>1, <1>9 DEF Goroutine, Sample, SetUp, SetUpFails, Ready, Died, Sweep, BuildFails, Arrive, Start, StartFails,
     LevelEnds, Publish
<1> QED
  BY <1>3, <1>4, <1>5, <1>6, <1>7, <1>8, <1>9 DEF Next, Coordinator, Quiet

\* Results are added by Publish only; while the target is in a level, not cancelled
\* and back with a whole window.
LEMMA Publishing ==
  ASSUME IInv, NEW t \in Targets, Publish(t)
  PROVE  /\ t \in Alive /\ cpc \in InLevel /\ at[t] = li /\ Len(results[t]) = li
         /\ UNCHANGED <<cpc, li, dead, cancelled, log>> /\ tpc' = [tpc EXCEPT ![t] = "up"]
         /\ \/ cancelled /\ results' = results
            \/ ~cancelled /\ results' = [results EXCEPT ![t] = Append(@, [level |-> li, full |-> TRUE])]
<1> USE DEF InLevel, Timed
<1>0. Places /\ Barrier /\ Position /\ Tally /\ Threads
  BY Parts DEF IInv, Counting
<1>1. PICK end \in {"full", "partial"} :
        /\ Goto(t, end, "up")
        /\ results' = IF Publishable
             THEN [results EXCEPT ![t] = Append(@, [level |-> at[t], full |-> end = "full"])]
             ELSE results
  BY DEF Publish
<1>2. /\ UNCHANGED <<cpc, li, dead, cancelled, log>> /\ tpc[t] = end /\ tpc' = [tpc EXCEPT ![t] = "up"]
  BY <1>1 DEF Publish, Goto, output
<1>3. cpc \in InLevel /\ t \in Alive
  BY <1>0, <1>2 DEF Places, Settled, Alive
<1>4. at[t] = li /\ Len(results[t]) = li
  BY <1>0, <1>2, <1>3 DEF Barrier, Tally
<1>5. ~cancelled => end = "full"
  BY <1>0, <1>2 DEF Position
<1>6. \/ cancelled /\ results' = results
      \/ ~cancelled /\ results' = [results EXCEPT ![t] = Append(@, [level |-> li, full |-> TRUE])]
  BY <1>1, <1>4, <1>5 DEF Publishable
<1> QED
  BY <1>2, <1>3, <1>4, <1>6

LEMMA ResultsElse ==
  ASSUME [Next]_vars
  PROVE  results' = results \/ \E t \in Targets : Publish(t)
<1> USE DEF target, level, bucket, output
<1>1. Coordinator => results' = results
  BY DEF Coordinator, SetUpDone, SweepDone, LevelTop, LevelsOver, Await, Fire, OpenWindow, Announce, CloseWindow, Closed,
     FlushTail, LevelResult, StopTicker, Conclude, Persist, Release, RunDone, Seal, ClearActive, End
<1>2. ASSUME NEW t \in Targets, Goroutine(t) \/ Sample(t) PROVE results' = results \/ Publish(t)
  BY <1>2 DEF Goroutine, Sample, SetUp, SetUpFails, Ready, Died, Sweep, BuildFails, Arrive, Start, StartFails, LevelEnds
<1>3. Tick \/ Quiet => results' = results
  BY DEF Tick, Quiet, Advance, Cancel, Ended, vars
<1> QED
  BY <1>1, <1>2, <1>3 DEF Next, Quiet

LEMMA WholeKept == ASSUME IInv, [Next]_vars PROVE Whole'
<1>0. Whole /\ li \in Nat /\ results \in [Targets -> Seq(Result)]
  BY Parts DEF IInv, Counting, Data, Scalars
<1>1. CASE results' = results
  BY <1>0, <1>1 DEF Whole
<1>2. ASSUME NEW t \in Targets, Publish(t), results' # results PROVE Whole'
  <2> DEFINE r == [level |-> li, full |-> TRUE]
  <2>1. results' = [results EXCEPT ![t] = Append(@, r)] /\ Len(results[t]) = li /\ at[t] = li
    BY <1>2, Publishing
  <2>2. r \in Result
    BY <2>1, Parts DEF IInv, Threads, Result
  <2>3. /\ results'[t][li + 1] = r /\ DOMAIN results'[t] = 1..(li + 1) /\ DOMAIN results[t] = 1..li
        /\ \A i \in DOMAIN results[t] : results'[t][i] = results[t][i]
        /\ \A u \in Targets \ {t} : results'[u] = results[u]
    <3> HIDE DEF r
    <3> QED
      BY <1>0, <2>1, <2>2, OneMore
  <2>4. ASSUME NEW i \in DOMAIN results'[t] PROVE results'[t][i] = [level |-> i - 1, full |-> TRUE]
    <3>1. CASE i = li + 1
      BY <1>0, <2>3, <3>1
    <3>2. CASE i # li + 1
      <4>1. i \in DOMAIN results[t]
        BY <1>0, <2>3, <2>4, <3>2
      <4> QED
        BY <1>0, <2>3, <4>1 DEF Whole
    <3> QED
      BY <3>1, <3>2
  <2>5. ASSUME NEW u \in Targets, u # t PROVE \A i \in DOMAIN results'[u] : results'[u][i] = [level |-> i - 1, full |-> TRUE]
    <3>1. results'[u] = results[u]
      BY <2>3, <2>5
    <3> QED
      BY <1>0, <3>1 DEF Whole
  <2> QED
    BY <2>4, <2>5 DEF Whole
<1> QED
  BY <1>1, <1>2, ResultsElse

LEMMA TallyKept == ASSUME IInv, [Next]_vars PROVE Tally'
<1> USE DEF InLevel, Timed, Step, Goto, MarkDead, target, level, bucket, output
<1>0. Tally /\ Places /\ Position /\ Threads /\ li \in Nat /\ results \in [Targets -> Seq(Result)]
  BY Parts DEF IInv, Counting, Data, Scalars
<1>1. CASE UNCHANGED <<cpc, li, tpc, dead, results, cancelled>>
  BY <1>0, <1>1 DEF Tally, Alive
<1>2. CASE SetUpDone
  BY <1>0, <1>2 DEF SetUpDone, Tally, Alive, Threads
<1>3. CASE SweepDone \/ LevelsOver
  BY <1>0, <1>3 DEF SweepDone, LevelsOver, Tally, Alive
<1>4. CASE LevelTop
  BY <1>0, <1>4 DEF LevelTop, Tally, Alive, Threads
<1>5. CASE Await \/ Fire \/ OpenWindow \/ Announce
  BY <1>0, <1>5 DEF Await, Fire, OpenWindow, Announce, Tally, Alive
<1>6. CASE CloseWindow
  BY <1>0, <1>6 DEF CloseWindow, Tally, Alive
<1>7. CASE Closed
  BY <1>0, <1>7 DEF Closed, Settled, Tally, Places, Alive
<1>8. CASE FlushTail
  BY <1>0, <1>8 DEF FlushTail, Tally, Alive
<1>9. CASE LevelResult
  BY <1>0, <1>9 DEF LevelResult, Settled, Tally, Places, Alive
<1>10. CASE StopTicker \/ Conclude \/ Persist \/ Release \/ RunDone
  BY <1>0, <1>10 DEF StopTicker, Conclude, Persist, Release, RunDone, Tally, Alive
<1>11. CASE Cancel \/ Seal \/ ClearActive \/ End
  BY <1>0, <1>11 DEF Cancel, Seal, ClearActive, End, Tally, Alive
<1>12. CASE Tick \/ Advance \/ Ended \/ UNCHANGED vars
  BY <1>1, <1>12 DEF Tick, Advance, Ended, vars
<1>13. ASSUME NEW t \in Targets, Sample(t) PROVE Tally'
  BY <1>1, <1>13 DEF Sample
<1>14. ASSUME NEW t \in Targets, NEW p, tpc' = [tpc EXCEPT ![t] = p],
              dead' = dead \cup {t} \/ (dead' = dead /\ (p \in {"held"} \cup Timed =>
                                                           tpc[t] \in {"build", "held"} \cup Timed)
                                                     /\ (p = "up" => cpc \in {"setup", "sweep"})
                                                     /\ p # "build"),
              UNCHANGED <<cpc, li, results, cancelled>>
       PROVE  Tally'
  <2>1. \A u \in Alive' : u \in Alive /\ (u # t => tpc'[u] = tpc[u])
    BY <1>0, <1>14 DEF Alive, Threads
  <2>2. dead' = dead => tpc'[t] = p
    BY <1>0, <1>14 DEF Threads
  <2> QED
    BY <1>0, <1>14, <2>1, <2>2 DEF Tally, Alive
<1>15. ASSUME NEW t \in Targets, SetUp(t) \/ SetUpFails(t) \/ BuildFails(t) \/ StartFails(t) PROVE Tally'
  BY <1>14, <1>15 DEF SetUp, SetUpFails, BuildFails, StartFails
<1>16. ASSUME NEW t \in Targets, Ready(t) \/ Sweep(t) PROVE Tally'
  <2>1. cpc \in {"setup", "sweep"}
    BY <1>0, <1>16 DEF Ready, Sweep, Places, Settled
  <2> QED
    BY <1>14, <1>16, <2>1 DEF Ready, Sweep
<1>17. ASSUME NEW t \in Targets, Died(t) \/ Arrive(t) \/ Start(t) \/ LevelEnds(t) PROVE Tally'
  BY <1>14, <1>17 DEF Died, Arrive, Start, LevelEnds
<1>18. ASSUME NEW t \in Targets, Publish(t) PROVE Tally'
  <2> DEFINE r == [level |-> li, full |-> TRUE]
  <2>1. /\ t \in Alive /\ cpc \in InLevel /\ at[t] = li /\ Len(results[t]) = li
        /\ UNCHANGED <<cpc, li, dead, cancelled>> /\ tpc' = [tpc EXCEPT ![t] = "up"]
        /\ \/ cancelled /\ results' = results
           \/ ~cancelled /\ results' = [results EXCEPT ![t] = Append(@, r)]
    BY <1>18, Publishing
  <2>2. r \in Result
    BY <2>1, Parts DEF IInv, Threads, Result
  <2> HIDE DEF r
  <2>3. Len(results'[t]) = li \/ Len(results'[t]) = li + 1
    BY <1>0, <2>1, <2>2, OneMore
  <2>4. cancelled \/ Len(results'[t]) = li + 1
    BY <1>0, <2>1, <2>2, OneMore
  <2>5. \A u \in Targets \ {t} : Len(results'[u]) = Len(results[u]) /\ tpc'[u] = tpc[u]
    BY <1>0, <2>1, <2>2, OneMore DEF Threads
  <2>6. tpc'[t] = "up"
    BY <1>0, <2>1 DEF Threads
  <2> QED
    BY <1>0, <2>1, <2>3, <2>4, <2>5, <2>6 DEF Tally, Alive
<1> QED
  BY <1>2, <1>3, <1>4, <1>5, <1>6, <1>7, <1>8, <1>9, <1>10, <1>11, <1>12, <1>13, <1>15, <1>16, <1>17, <1>18
  DEF Next, Coordinator, Goroutine

LEMMA CountingKept == ASSUME IInv, [Next]_vars PROVE Counting'
BY PositionKept, TallyKept, WholeKept, PublishedKept DEF Counting

-----------------------------------------------------------------------------
(* Theorems *)

LEMMA Inductive == IInv /\ [Next]_vars => IInv'
BY TypesKept, PlacesKept, BarrierKept, CountingKept, TellingKept DEF IInv

LEMMA Invariance == Spec => []IInv
<1>1. Init => IInv
  BY Initially
<1>2. IInv /\ [Next]_vars => IInv'
  BY Inductive
<1> QED
  BY <1>1, <1>2, PTL DEF Spec

\* The coordinator, its goroutines and the log are type correct.
THEOREM TypeCorrect == Spec => []TypeOK
<1>1. IInv => TypeOK
  BY DEF IInv
<1> QED
  BY <1>1, Invariance, PTL

\* No target starts a level's window before every target alive has arrived at its
\* barrier (StartBarrier), for any number of targets, failures included.
THEOREM FairStarts == Spec => []NobodyStartsEarly
<1>1. IInv => NobodyStartsEarly
  BY DEF IInv, Places, Settled, Barrier, InLevel, Timed, Alive, NobodyStartsEarly
<1> QED
  BY <1>1, Invariance, PTL

\* Results are those of whole levels, in order and none missing (the checks for
\* cancellation in coordinate), for any number of levels.
THEOREM WholeLevels == Spec => []ResultsAreOfWholeLevels
<1>1. IInv => ResultsAreOfWholeLevels
  <2> SUFFICES ASSUME IInv, NEW t \in Targets
               PROVE  /\ \A i \in DOMAIN results[t] : results[t][i] = [level |-> i - 1, full |-> TRUE]
                      /\ t \in Alive => \A i \in DOMAIN log :
                           log[i].name = "level_result" => log[i].level < Len(results[t])
    BY DEF ResultsAreOfWholeLevels
  <2>1. Len(results[t]) \in Nat /\ li \in Nat
    BY Parts DEF IInv, Data, Scalars
  <2>2. ASSUME NEW i \in DOMAIN log, log[i].name = "level_result" PROVE log[i].level \in Nat
    BY <2>2, Parts DEF IInv, Data, Entry, Level
  <2> QED
    BY <2>1, <2>2 DEF IInv, Counting, Tally, Whole, Published
<1> QED
  BY <1>1, Invariance, PTL

\* A run that has said run_done holds no credential and has told every death and
\* loss (finish, markDead).
THEOREM NothingHeld == Spec => []NothingHeldAtTheEnd
<1>1. IInv => NothingHeldAtTheEnd
  <2> SUFFICES ASSUME IInv, cpc \in {"seal", "clear", "end", "ended"}
               PROVE  /\ secret = {} /\ runner = {}
                      /\ \A t \in dead \cup (IF file = "lost" THEN {NoTarget} ELSE {}) :
                           \E r \in remarks : r.kind = "error" /\ r.target = t
    BY DEF IInv, Telling, NothingHeldAtTheEnd
  <2>1. Places /\ Telling /\ secret \subseteq Targets /\ dead \subseteq Targets
    BY Parts DEF IInv, Threads
  <2>2. \A t \in Targets : tpc[t] \in {"up", "down"}
    BY <2>1 DEF Places, Settled, InLevel
  <2>3. secret = {} /\ runner = {} /\ \A t \in dead : tpc[t] = "down"
    BY <2>1, <2>2 DEF Telling, Places
  <2> QED
    BY <2>1, <2>3 DEF Telling
<1> QED
  BY <1>1, Invariance, PTL
-----------------------------------------------------------------------------
(* The log as a transcript *)

Sayings(name) == {i \in DOMAIN log : log[i].name = name}
Counted(name) == Cardinality(Sayings(name))

\* How many levels the log has announced and published.
Heard ==
  /\ Counted("level_result") = li
  /\ cpc \in {"setup", "sweep", "top", "await", "fire", "open", "announce"} => Counted("level_start") = li
  /\ cpc \in {"wait", "closed", "flush", "collect"} => Counted("level_start") = li + 1

\* Whose samples the collectors hold while there are buckets.
Attributed ==
  /\ measuring => cpc \in {"announce", "wait"}
  /\ cpc \in InLevel \cup {"closed", "flush"} =>
       /\ levelIdx = li
       /\ \A t \in Alive : col[t].cur \cup col[t].old \subseteq {li}

\* What has become of the levels of a run that is done.
Complete ==
  /\ cpc \in {"stop", "conclude"} => li = Levels \/ cancelled \/ Alive = {}
  /\ state = "done" => li = Levels

Voice == Heard /\ Attributed /\ Complete

\* One more entry is one more of its name, and of no other.
LEMMA CountedTypes ==
  ASSUME log \in Seq(Entry), NEW name
  PROVE  IsFiniteSet(Sayings(name)) /\ Counted(name) \in Nat
<1>1. Sayings(name) \subseteq 1..Len(log) /\ Len(log) \in Nat
  BY DEF Sayings
<1>2. IsFiniteSet(1..Len(log))
  BY <1>1, FS_Interval
<1>3. IsFiniteSet(Sayings(name))
  BY <1>1, <1>2, FS_Subset
<1> QED
  BY <1>3, FS_CardinalityType DEF Counted

LEMMA OneSaying ==
  ASSUME log \in Seq(Entry), NEW e, log' = Append(log, e), NEW name
  PROVE  /\ e.name = name => Counted(name)' = Counted(name) + 1
         /\ e.name # name => Counted(name)' = Counted(name)
<1>1. /\ DOMAIN log' = 1..(Len(log) + 1) /\ DOMAIN log = 1..Len(log) /\ Len(log) \in Nat
      /\ log'[Len(log) + 1] = e
      /\ \A i \in DOMAIN log : log'[i] = log[i]
  OBVIOUS
<1>2. Len(log) + 1 \notin Sayings(name)
  BY <1>1 DEF Sayings
<1>3. CASE e.name = name
  <2>1. Sayings(name)' = Sayings(name) \cup {Len(log) + 1}
    BY <1>1, <1>3 DEF Sayings
  <2>2. IsFiniteSet(Sayings(name)) /\ Counted(name) \in Nat
    BY CountedTypes
  <2>3. Cardinality(Sayings(name) \cup {Len(log) + 1}) = Cardinality(Sayings(name)) + 1
    BY <1>2, <2>2, FS_AddElement
  <2> QED
    BY <1>3, <2>1, <2>3 DEF Counted
<1>4. CASE e.name # name
  <2>1. Sayings(name)' = Sayings(name)
    BY <1>1, <1>4 DEF Sayings
  <2> QED
    BY <1>4, <2>1 DEF Counted
<1> QED
  BY <1>3, <1>4

LEMMA VoiceInitially == Init => Voice
<1> SUFFICES ASSUME Init PROVE Voice
  OBVIOUS
<1> USE RunAssumption DEF Init
<1>1. ASSUME NEW name \in {"level_result", "level_start"} PROVE Counted(name) = 0
  <2>1. Sayings(name) = {}
    BY <1>1 DEF Sayings
  <2> QED
    BY <2>1, FS_EmptySet DEF Counted
<1>2. Heard
  BY <1>1 DEF Heard
<1>3. Attributed /\ Complete
  BY DEF Attributed, Complete, InLevel
<1> QED
  BY <1>2, <1>3 DEF Voice

LEMMA HeardKept == ASSUME IInv, Voice, [Next]_vars PROVE Heard'
<1> USE DEF Step, target, level, bucket, output
<1>0. Heard /\ Telling /\ log \in Seq(Entry) /\ li \in Nat
  BY Parts DEF IInv, Voice, Data, Scalars
<1>1. ASSUME log' = log, NEW name PROVE Counted(name)' = Counted(name)
  BY <1>1 DEF Counted, Sayings
<1>2. CASE UNCHANGED <<cpc, li, log>>
  BY <1>0, <1>1, <1>2 DEF Heard
<1>3. CASE SetUpDone \/ SweepDone \/ LevelTop \/ LevelsOver \/ Await \/ Fire \/ OpenWindow
  BY <1>0, <1>1, <1>3 DEF SetUpDone, SweepDone, LevelTop, LevelsOver, Await, Fire, OpenWindow, Heard
<1>4. CASE CloseWindow \/ Closed \/ StopTicker \/ Conclude \/ Persist \/ Release \/ Seal \/ ClearActive \/ End
  BY <1>0, <1>1, <1>4 DEF CloseWindow, Closed, StopTicker, Conclude, Persist, Release, Seal, ClearActive, End, Heard
<1>5. CASE Announce
  <2> DEFINE e == [name |-> "level_start", level |-> li]
  <2>1. log' = Append(log, e)
    BY <1>0, <1>5 DEF Announce, Say, Telling
  <2>2. e.name = "level_start" /\ e.name # "level_result"
    OBVIOUS
  <2> HIDE DEF e
  <2>3. Counted("level_start")' = Counted("level_start") + 1 /\ Counted("level_result")' = Counted("level_result")
    BY <1>0, <2>1, <2>2, OneSaying
  <2> QED
    BY <1>0, <1>5, <2>3 DEF Announce, Heard
<1>6. CASE LevelResult
  <2> DEFINE e == [name |-> "level_result", level |-> li]
  <2>1. log' = Append(log, e)
    BY <1>0, <1>6 DEF LevelResult, Say, Telling
  <2>2. e.name = "level_result" /\ e.name # "level_start"
    OBVIOUS
  <2> HIDE DEF e
  <2>3. Counted("level_result")' = Counted("level_result") + 1 /\ Counted("level_start")' = Counted("level_start")
    BY <1>0, <2>1, <2>2, OneSaying
  <2> QED
    BY <1>0, <1>6, <2>3 DEF LevelResult, Heard
<1>7. ASSUME NEW e, Say(e), e.name \notin {"level_result", "level_start"},
             NEW name \in {"level_result", "level_start"}
      PROVE  Counted(name)' = Counted(name)
  BY <1>0, <1>1, <1>7, OneSaying DEF Say
<1>8. CASE FlushTail \/ Tick
  <2>1. ASSUME NEW name \in {"level_result", "level_start"} PROVE Counted(name)' = Counted(name)
    <3>1. CASE log' = log
      BY <1>1, <3>1
    <3>2. CASE Alive # {}
      <4> DEFINE of == UNION {col[t].cur \cup col[t].old : t \in Alive}
                 e == [name |-> "bucket", level |-> levelIdx, of |-> of]
      <4>1. Say(e) /\ e.name = "bucket"
        BY <1>8, <3>2 DEF FlushTail, Tick, Snapshot
      <4> HIDE DEF e
      <4> QED
        BY <1>7, <4>1
    <3> QED
      BY <1>8, <3>1, <3>2 DEF FlushTail, Tick, Snapshot
  <2> QED
    BY <1>0, <1>8, <2>1 DEF FlushTail, Tick, Heard
<1>9. CASE RunDone
  <2> DEFINE e == [name |-> "run_done", state |-> state]
  <2>1. Say(e) /\ e.name = "run_done"
    BY <1>9 DEF RunDone
  <2> HIDE DEF e
  <2>2. ASSUME NEW name \in {"level_result", "level_start"} PROVE Counted(name)' = Counted(name)
    BY <1>7, <2>1
  <2> QED
    BY <1>0, <1>9, <2>2 DEF RunDone, Heard
<1>10. CASE Quiet
  BY <1>2, <1>10 DEF Quiet, Advance, Cancel, Ended, vars
<1>11. ASSUME NEW t \in Targets, Goroutine(t) \/ Sample(t) PROVE Heard'
  BY <1>2, <1>11 DEF Goroutine, Sample, SetUp, SetUpFails, Ready, Died, Sweep, BuildFails, Arrive, Start, StartFails,
     LevelEnds, Publish
<1> QED
  BY <1>3, <1>4, <1>5, <1>6, <1>8, <1>9, <1>10, <1>11 DEF Next, Coordinator, Quiet

LEMMA AttributedKept == ASSUME IInv, Voice, [Next]_vars PROVE Attributed'
<1> USE DEF InLevel, Step, target, level, bucket, output
<1>0. /\ Attributed /\ Places /\ Barrier /\ Data /\ Threads
  BY Parts DEF IInv, Voice
<1>1. ASSUME UNCHANGED <<li, levelIdx, col, measuring, cpc>>, dead \subseteq dead' PROVE Attributed'
  BY <1>0, <1>1 DEF Attributed, Alive
<1>2. CASE SetUpDone \/ SweepDone \/ LevelsOver
  BY <1>0, <1>2 DEF SetUpDone, SweepDone, LevelsOver, Attributed
<1>3. CASE LevelTop
  <2>1. \A t \in Alive : col'[t].cur \cup col'[t].old \subseteq {li}
    BY <1>3 DEF LevelTop, Reset, Alive
  <2> QED
    BY <1>0, <1>3, <2>1 DEF LevelTop, Attributed, Alive
<1>4. CASE Await \/ Fire \/ OpenWindow \/ Announce \/ CloseWindow \/ Closed
  BY <1>0, <1>4 DEF Await, Fire, OpenWindow, Announce, CloseWindow, Closed, Attributed, Alive
<1>5. CASE FlushTail \/ LevelResult \/ StopTicker \/ Conclude \/ Persist \/ Release \/ RunDone \/ Seal \/ ClearActive \/ End
  BY <1>0, <1>5 DEF FlushTail, LevelResult, StopTicker, Conclude, Persist, Release, RunDone, Seal, ClearActive, End, Attributed
<1>6. CASE Tick
  <2>1. ASSUME NEW t \in Alive, col[t].cur \cup col[t].old \subseteq {li}
        PROVE  col'[t].cur \cup col'[t].old \subseteq {li}
    <3>1. col'[t] = [cur |-> {}, old |-> col[t].old \cup col[t].cur]
      BY <1>6, <2>1 DEF Tick, Snapshot, Alive
    <3> QED
      BY <2>1, <3>1
  <2> QED
    BY <1>0, <1>6, <2>1 DEF Tick, Attributed, Alive
<1>7. CASE Quiet
  BY <1>1, <1>7 DEF Quiet, Advance, Cancel, Ended, vars
<1>8. ASSUME NEW t \in Targets, Sample(t) PROVE Attributed'
  <2>1. cpc \in InLevel /\ t \in Alive /\ at[t] = li
    BY <1>0, <1>8 DEF Sample, Places, Settled, Barrier, Timed, Alive
  <2>2. \A u \in Alive : col'[u].cur \cup col'[u].old \subseteq {li}
    BY <1>0, <1>8, <2>1 DEF Sample, Attributed, Data, Alive
  <2> QED
    BY <1>0, <1>8, <2>1, <2>2 DEF Sample, Attributed, Alive
<1>9. ASSUME NEW t \in Targets, Goroutine(t) PROVE Attributed'
  BY <1>1, <1>9 DEF Goroutine, MarkDead, SetUp, SetUpFails, Ready, Died, Sweep, BuildFails, Arrive, Start, StartFails,
     LevelEnds, Publish
<1> QED
  BY <1>2, <1>3, <1>4, <1>5, <1>6, <1>7, <1>8, <1>9 DEF Next, Coordinator, Quiet

LEMMA CompleteKept == ASSUME IInv, Voice, [Next]_vars PROVE Complete'
<1> USE DEF InLevel, Step, target, level, bucket, output
<1>0. Complete /\ Places /\ Position /\ li \in 0..Levels /\ Levels \in Nat
  BY Parts, RunAssumption DEF IInv, Voice, Counting, Scalars
<1>1. ASSUME UNCHANGED <<cpc, li, state>>, dead \subseteq dead', cancelled => cancelled' PROVE Complete'
  BY <1>0, <1>1 DEF Complete, Alive
<1>2. CASE SetUpDone
  BY <1>2 DEF SetUpDone, Outcome, Complete
<1>3. CASE SweepDone \/ LevelTop \/ Await \/ Fire \/ OpenWindow \/ Announce \/ CloseWindow
  BY <1>0, <1>3 DEF SweepDone, LevelTop, Await, Fire, OpenWindow, Announce, CloseWindow, Complete
<1>4. CASE LevelsOver \/ Closed \/ FlushTail
  BY <1>0, <1>4 DEF LevelsOver, LevelsLeft, Closed, FlushTail, Complete, Alive
<1>5. CASE LevelResult
  BY <1>0, <1>5 DEF LevelResult, Complete, Position
<1>6. CASE StopTicker \/ Conclude \/ Persist \/ Release \/ RunDone \/ Seal \/ ClearActive \/ End
  BY <1>0, <1>6 DEF StopTicker, Conclude, FinalState, Persist, Release, RunDone, Seal, ClearActive, End, Complete, Alive
<1>7. CASE Tick \/ Quiet
  BY <1>1, <1>7 DEF Tick, Quiet, Advance, Cancel, Ended, vars
<1>8. ASSUME NEW t \in Targets, Goroutine(t) \/ Sample(t) PROVE Complete'
  BY <1>1, <1>8 DEF Goroutine, MarkDead, SetUp, SetUpFails, Ready, Died, Sweep, BuildFails, Arrive, Start, StartFails,
     LevelEnds, Publish, Sample
<1> QED
  BY <1>2, <1>3, <1>4, <1>5, <1>6, <1>7, <1>8 DEF Next, Coordinator, Quiet
LEMMA VoiceKept == IInv /\ Voice /\ [Next]_vars => Voice'
BY HeardKept, AttributedKept, CompleteKept DEF Voice

-----------------------------------------------------------------------------
(* Every step of the run is a step of the transcript, or none *)

LEMMA Dictionary ==
  ASSUME IInv, Voice
  PROVE  /\ Transcript!Current = li
         /\ Transcript!Started <=> Counted("level_start") > li
         /\ cpc \notin {"seal", "clear", "end", "ended"} => ~Transcript!Said("run_done")
<1>1. \A name : Transcript!Count(name) = Counted(name)
  BY DEF Transcript!Count, Counted, Sayings, Transcript!Cardinality, Cardinality
<1>2. cpc \notin {"seal", "clear", "end", "ended"} => ~Transcript!Said("run_done")
  BY DEF Transcript!Said, IInv, Telling
<1> QED
  BY <1>1, <1>2 DEF Transcript!Current, Transcript!Started, Voice, Heard

LEMMA SayingBucket ==
  ASSUME IInv, Voice, Snapshot, cpc \in InLevel \cup {"flush"}
  PROVE  [Transcript!Next]_log
<1>0. /\ Attributed /\ Position /\ ~sealed /\ log \in Seq(Entry) /\ li < Levels
  BY Parts DEF IInv, Voice, Telling, Data, Counting, Position, InLevel
<1>1. CASE Alive = {}
  BY <1>1 DEF Snapshot
<1>2. CASE Alive # {}
  <2> DEFINE of == UNION {col[t].cur \cup col[t].old : t \in Alive}
  <2>1. of \subseteq {li} /\ levelIdx = li
    BY <1>0 DEF Attributed
  <2>2. log' = Append(log, [name |-> "bucket", level |-> levelIdx, of |-> of])
    BY <1>0, <1>2 DEF Snapshot, Say
  <2>3. of = {} \/ of = {li}
    BY <2>1
  <2>4. Transcript!Current = li /\ ~Transcript!Said("run_done")
    BY Dictionary DEF InLevel
  <2> HIDE DEF of
  <2>5. Transcript!Bucket
    BY <1>0, <2>1, <2>2, <2>3, <2>4 DEF Transcript!Bucket, Transcript!Say
  <2> QED
    BY <2>5 DEF Transcript!Next
<1> QED
  BY <1>1, <1>2

LEMMA TranscriptStep == ASSUME IInv, Voice, [Next]_vars PROVE [Transcript!Next]_log
<1> USE DEF Step, target, level, bucket, output
<1>0. /\ Heard /\ Attributed /\ Complete /\ Telling /\ Position /\ li \in Nat
  BY Parts DEF IInv, Voice, Counting, Scalars
<1>1. CASE Announce
  <2>1. /\ ~Transcript!Said("run_done") /\ ~Transcript!Started /\ Transcript!Current = li /\ li < Levels
    BY <1>0, <1>1, Dictionary DEF Announce, Heard, Position, InLevel
  <2>2. log' = Append(log, [name |-> "level_start", level |-> li])
    BY <1>0, <1>1 DEF Announce, Say, Telling
  <2> QED
    BY <2>1, <2>2 DEF Transcript!LevelStart, Transcript!Say, Transcript!Next
<1>2. CASE LevelResult
  <2>1. /\ ~Transcript!Said("run_done") /\ Transcript!Started /\ Transcript!Current = li
    BY <1>0, <1>2, Dictionary DEF LevelResult, Heard
  <2>2. log' = Append(log, [name |-> "level_result", level |-> li])
    BY <1>0, <1>2 DEF LevelResult, Say, Telling
  <2> QED
    BY <2>1, <2>2 DEF Transcript!LevelResult, Transcript!Say, Transcript!Next
<1>3. CASE RunDone
  <2>1. /\ ~Transcript!Said("run_done") /\ Transcript!Current = li
    BY <1>3, Dictionary DEF RunDone
  <2>2. state \in {"done", "failed", "cancelled"} /\ (state = "done" => li = Levels)
    BY <1>0, <1>3 DEF RunDone, Telling, Terminal, Complete
  <2>3. log' = Append(log, [name |-> "run_done", state |-> state])
    BY <1>0, <1>3 DEF RunDone, Say, Telling
  <2> QED
    BY <2>1, <2>2, <2>3 DEF Transcript!RunDone, Transcript!Say, Transcript!Next
<1>4. CASE FlushTail
  BY <1>4, SayingBucket DEF FlushTail
<1>5. CASE Tick
  BY <1>0, <1>5, SayingBucket DEF Tick, TickEmits, Attributed, InLevel
<1>6. CASE SetUpDone \/ SweepDone \/ LevelTop \/ LevelsOver \/ Await \/ Fire \/ OpenWindow
  BY <1>6 DEF SetUpDone, SweepDone, LevelTop, LevelsOver, Await, Fire, OpenWindow
<1>7. CASE CloseWindow \/ Closed \/ StopTicker \/ Conclude \/ Persist \/ Release \/ Seal \/ ClearActive \/ End \/ Quiet
  BY <1>7 DEF CloseWindow, Closed, StopTicker, Conclude, Persist, Release, Seal, ClearActive, End, Quiet, Advance, Cancel, Ended, vars
<1>8. ASSUME NEW t \in Targets, Goroutine(t) \/ Sample(t) PROVE log' = log
  BY <1>8 DEF Goroutine, Sample, SetUp, SetUpFails, Ready, Died, Sweep, BuildFails, Arrive, Start, StartFails,
     LevelEnds, Publish
<1> QED
  BY <1>1, <1>2, <1>3, <1>4, <1>5, <1>6, <1>7, <1>8 DEF Next, Coordinator, Quiet

\* A run implements its transcript: whoever fails and whenever it is cancelled, its log
\* says hello, then the levels in turn, each with its start, buckets of its own samples
\* and a result, and run_done last, once and truthfully (coordinate, emitBucket, finish).
THEOREM LogIsTranscript == Spec => IsTranscript
<1>1. Init => Transcript!Init /\ Voice
  BY VoiceInitially DEF Init, Transcript!Init
<1>2. IInv /\ Voice /\ [Next]_vars => Voice'
  BY VoiceKept
<1>3. IInv /\ Voice /\ [Next]_vars => [Transcript!Next]_log
  BY TranscriptStep
<1> QED
  BY <1>1, <1>2, <1>3, Invariance, PTL DEF Spec, IsTranscript, Transcript!Spec

-----------------------------------------------------------------------------
(* A run is the coordinator that RunManager has in its place *)

\* A step that the manager does not see.
LEMMA Unseen ==
  ASSUME UNCHANGED <<state, file, cancelled>>, Place' = Place,
         cpc' \in {"end", "ended"} <=> cpc \in {"end", "ended"}
  PROVE  UNCHANGED Manager!vars
BY DEF Manager!vars, Manager!request, Manager!registry, Manager!run, Manager!server

\* The maps of a manager that has but one run.
LEMMA OneRun ==
  ASSUME NEW x, NEW y
  PROVE  [[r \in {"run"} |-> x] EXCEPT !["run"] = y] = [r \in {"run"} |-> y]
OBVIOUS

LEMMA Moved ==
  ASSUME NEW from, NEW to, Place = from, Place' = to
  PROVE  Manager!Move("run", from, to)
BY OneRun DEF Manager!Move

\* Every step of the run is one of the coordinator or a cancellation, or the manager
\* does not see it.
LEMMA ManagerStep ==
  ASSUME IInv, [Next]_vars
  PROVE  [Manager!Coordinate("run") \/ Manager!CancelRun("run")]_Manager!vars
<1> USE DEF Step, target, level, bucket, output
<1> USE DEF Manager!request, Manager!registry, Manager!run, Manager!server
<1>0. /\ Telling /\ cpc \in CPC /\ cancelled \in BOOLEAN
      /\ state \in Terminal \cup {"starting", "running"} /\ file \in Terminal \cup {"none", "lost"}
  BY Parts DEF IInv, Threads, Flags, Scalars
<1>1. CASE SetUpDone
  <2>1. CASE Alive = {}
    <3>1. state' \in {"cancelled", "failed"} /\ (state' = "cancelled" <=> cancelled)
      BY <1>1, <2>1 DEF SetUpDone, Outcome
    <3>2. Place = "setup" /\ Place' = "finish" /\ UNCHANGED <<file, cancelled>>
      BY <1>1, <2>1 DEF SetUpDone, Place
    <3>3. Manager!Conclude("run", state')
      BY <1>0, <1>1, <2>1, <3>1, <3>2, Moved, OneRun DEF SetUpDone, Manager!Conclude, Manager!CtxDone
    <3>4. state' \in Manager!State
      BY <3>1 DEF Manager!State
    <3> QED BY <3>3, <3>4 DEF Manager!Coordinate
  <2>2. CASE Alive # {}
    <3>1. Place = "setup" /\ Place' = "levels" /\ UNCHANGED <<file, cancelled>>
      BY <1>1, <2>2 DEF SetUpDone, Place
    <3>2. Manager!SetUp("run")
      BY <1>1, <2>2, <3>1, Moved, OneRun DEF SetUpDone, Manager!SetUp
    <3> QED BY <3>2 DEF Manager!Coordinate
  <2> QED BY <2>1, <2>2
<1>2. CASE Conclude
  <2>1. state' \in Terminal /\ (state' = "cancelled" <=> cancelled)
    BY <1>2 DEF Conclude, FinalState, Terminal
  <2>2. Place = "levels" /\ Place' = "finish" /\ UNCHANGED <<file, cancelled>>
    BY <1>2 DEF Conclude, Place
  <2>3. Manager!Conclude("run", state')
    BY <1>0, <1>2, <2>1, <2>2, Moved, OneRun DEF Conclude, Terminal, Manager!Conclude, Manager!CtxDone
  <2>4. state' \in Manager!State
    BY <2>1 DEF Terminal, Manager!State
  <2> QED BY <2>3, <2>4 DEF Manager!Coordinate
<1>3. CASE Persist
  <2>1. Place = "finish" /\ Place' = "persisted" /\ UNCHANGED <<state, cancelled>>
    BY <1>3 DEF Persist, Place
  <2>2. file' \in Terminal \/ (file' = "lost" /\ "lost" \notin Terminal)
    BY <1>0, <1>3 DEF Persist, Telling, Terminal
  <2>3. Manager!Persist("run", IF file' \in Terminal THEN "saved" ELSE file')
    BY <1>3, <2>1, <2>2, Moved, OneRun DEF Persist, Manager!Persist
  <2>4. (IF file' \in Terminal THEN "saved" ELSE file') \in {"saved", "lost"}
    BY <2>2
  <2> QED BY <2>3, <2>4 DEF Manager!Coordinate
<1>4. CASE RunDone
  <2>1. Place = "persisted" /\ Place' = "announced" /\ UNCHANGED <<state, file, cancelled>>
    BY <1>4 DEF RunDone, Place
  <2>2. Manager!Announce("run")
    BY <1>4, <2>1, Moved DEF RunDone, Manager!Announce
  <2> QED BY <2>2 DEF Manager!Coordinate
<1>5. CASE Seal
  <2>1. Place = "announced" /\ Place' = "sealed" /\ UNCHANGED <<state, file, cancelled>>
    BY <1>5 DEF Seal, Place
  <2>2. Manager!Seal("run")
    BY <1>5, <2>1, Moved DEF Seal, Manager!Seal
  <2> QED BY <2>2 DEF Manager!Coordinate
<1>6. CASE ClearActive
  <2>1. Place = "sealed" /\ Place' = "cleared" /\ UNCHANGED <<state, file, cancelled>>
    BY <1>6 DEF ClearActive, Place
  <2>2. Manager!ClearActive("run")
    BY <1>6, <2>1, Moved DEF ClearActive, Manager!ClearActive, Manager!Clear
  <2> QED BY <2>2 DEF Manager!Coordinate
<1>7. CASE End
  <2>1. Place = "cleared" /\ Place' = "ended" /\ UNCHANGED <<state, file>> /\ cancelled'
    BY <1>7 DEF End, Place
  <2>2. Manager!End("run")
    BY <1>7, <2>1, Moved DEF End, Manager!End
  <2> QED BY <2>2 DEF Manager!Coordinate
<1>8. CASE Cancel
  <2>1. Place' = Place /\ ~cancelled /\ cancelled' /\ UNCHANGED <<cpc, state, file>>
    BY <1>8 DEF Cancel, Place
  <2>2. Manager!CancelRun("run")
    BY <2>1 DEF Manager!CancelRun
  <2> QED BY <2>2
<1>9. CASE SweepDone \/ LevelTop \/ LevelsOver \/ Await \/ Fire \/ OpenWindow \/ Announce
  <2>1. UNCHANGED <<state, file, cancelled>> /\ Place = "levels" /\ Place' = "levels"
    BY <1>9 DEF SweepDone, LevelTop, LevelsOver, Await, Fire, OpenWindow, Announce, Place
  <2>2. cpc' \notin {"end", "ended"} /\ cpc \notin {"end", "ended"}
    BY <1>9 DEF SweepDone, LevelTop, LevelsOver, Await, Fire, OpenWindow, Announce
  <2> QED BY <2>1, <2>2, Unseen
<1>10. CASE CloseWindow \/ Closed \/ FlushTail \/ LevelResult \/ StopTicker \/ Release
  <2>1. UNCHANGED <<state, file, cancelled>> /\ Place' = Place
    BY <1>10 DEF CloseWindow, Closed, FlushTail, LevelResult, StopTicker, Release, Place
  <2>2. cpc' \notin {"end", "ended"} /\ cpc \notin {"end", "ended"}
    BY <1>10 DEF CloseWindow, Closed, FlushTail, LevelResult, StopTicker, Release
  <2> QED BY <2>1, <2>2, Unseen
<1>11. CASE Tick \/ Advance \/ Ended \/ UNCHANGED vars
  <2>1. UNCHANGED <<cpc, state, file, cancelled>>
    BY <1>11 DEF Tick, Advance, Ended, vars
  <2> QED BY <2>1, Unseen DEF Place
<1>12. ASSUME NEW t \in Targets, Goroutine(t) \/ Sample(t) PROVE UNCHANGED Manager!vars
  <2>1. UNCHANGED <<cpc, state, file, cancelled>>
    BY <1>12 DEF Goroutine, Sample, SetUp, SetUpFails, Ready, Died, Sweep, BuildFails, Arrive, Start, StartFails,
       LevelEnds, Publish
  <2> QED BY <2>1, Unseen DEF Place
<1> QED
  BY <1>1, <1>2, <1>3, <1>4, <1>5, <1>6, <1>7, <1>8, <1>9, <1>10, <1>11, <1>12 DEF Next, Coordinator

\* A run is to the registry and to a shutdown what RunManager assumes of it: it takes
\* the same steps in the same order, ends in the state its context says, and gives the
\* slot back only after its results are decided (coordinate, finish, start).
THEOREM RunsAsManaged == Spec => IsCoordinator
<1>1. Init => Place = "setup" /\ state = "starting" /\ file = "none"
  BY DEF Init, Place
<1>2. IInv /\ [Next]_vars => [Manager!Coordinate("run") \/ Manager!CancelRun("run")]_Manager!vars
  BY ManagerStep
<1> QED
  BY <1>1, <1>2, Invariance, PTL DEF Spec, IsCoordinator
===============================================================================
