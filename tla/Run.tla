--------------------------------- MODULE Run ---------------------------------
(***************************************************************************)
(* One run, from its registration to its end: coordinate, finish, markDead *)
(* and emitBucket of internal/server/runmgr.go, the start barrier and the  *)
(* outline of RunLevel of internal/bench/runner.go, and the counting side  *)
(* of collector.go.  Processes: the coordinator, one goroutine per target, *)
(* the bucket ticker, the agents (Sample), the clock, and whoever cancels. *)
(*                                                                         *)
(* r.mu makes emitBucket, the level transition and the result append       *)
(* single steps.  Time is the phase of the level's window: warm-up,        *)
(* measured, over.  A sample is the level whose agents produced it.        *)
(* Remarks (target_ready, target_error) are a set, apart from the          *)
(* log: only their presence matters, not their order.                      *)
(***************************************************************************)
EXTENDS Naturals, Sequences, FiniteSets

CONSTANTS
  Targets,
  NoTarget,  \* the target of a remark about the run itself (-1)
  Levels,   \* the number of concurrency levels, len(bw.Concurrency)
  MaxTicks  \* bound: periodic buckets per level

ASSUME RunAssumption == /\ IsFiniteSet(Targets) /\ Targets # {} /\ NoTarget \notin Targets
                        /\ Levels \in Nat \ {0} /\ MaxTicks \in Nat

VARIABLES
  cpc,        \* where the coordinator is
  li,         \* its loop variable
  tpc,        \* where the goroutine of a target is
  at,         \* the level RunLevel was last called with for a target
  secret,     \* targets whose spec still holds a secret
  runner,     \* targets with a runner (which holds a credential)
  dead,       \* targets marked dead
  remarks,    \* target_ready and target_error events of the log
  results,    \* t.results: for each target the levels it completed, and how
  col,        \* t.col: samples since the last snapshot and in the window before it
  levelIdx,   \* r.levelIdx, the level buckets are attributed to
  measuring,  \* r.measuring
  phase,      \* where the clock is in the level's window
  missing,    \* targets that have still to arrive at the start barrier
  fired,      \* the barrier has been fired
  ticks,      \* periodic buckets of this level
  ticker,     \* the ticker goroutine runs
  cancelled,  \* the run's context is done
  state,      \* r.state
  file,       \* the result document: none, lost, or the state it was saved with
  log,        \* the event log, less the remarks
  sealed      \* log.close was called

target == <<tpc, at, secret, runner, dead>>
level  == <<li, results, levelIdx, measuring, phase, missing, fired>>
bucket == <<col, ticks, ticker>>
output == <<remarks, state, file, log, sealed>>
vars   == <<cpc, target, level, bucket, cancelled, output>>

CPC == {"setup", "sweep", "top", "await", "fire", "open", "announce", "wait", "closed",
        "flush", "collect", "stop", "conclude", "persist", "release", "say", "seal", "clear", "end", "ended"}
TPC == {"setup", "ready", "up", "sweeping", "build", "held", "run", "full", "partial",
        "dying", "down"}
Level == 0..(Levels - 1)
Remark == [kind : {"ready", "error"}, target : Targets \cup {NoTarget}, level : Level \cup {Levels}]
Result == [level : Level, full : BOOLEAN]
Terminal == {"done", "failed", "cancelled"}
Entry ==
  [name : {"hello"}] \cup [name : {"level_start", "level_result"}, level : Level]
    \cup [name : {"bucket"}, level : Level, of : SUBSET Level]
    \cup [name : {"run_done"}, state : Terminal]

NoLevel == Levels  \* the level_index -1 of a remark outside the level loop

TypeOK ==
  /\ cpc \in CPC /\ li \in 0..Levels /\ tpc \in [Targets -> TPC] /\ at \in [Targets -> Level]
  /\ secret \subseteq Targets /\ runner \subseteq Targets /\ dead \subseteq Targets
  /\ remarks \subseteq Remark
  /\ results \in [Targets -> Seq(Result)]
  /\ col \in [Targets -> [cur : SUBSET Level, old : SUBSET Level]]
  /\ levelIdx \in Level /\ measuring \in BOOLEAN
  /\ phase \in {"shut", "warm", "measured", "over"}
  /\ missing \subseteq Targets /\ fired \in BOOLEAN
  /\ ticks \in 0..MaxTicks /\ ticker \in BOOLEAN /\ cancelled \in BOOLEAN
  /\ state \in Terminal \cup {"starting", "running"}
  /\ file \in Terminal \cup {"none", "lost"}
  /\ log \in Seq(Entry) /\ sealed \in BOOLEAN

Init ==
  /\ cpc = "setup" /\ li = 0 /\ tpc = [t \in Targets |-> "setup"]
  /\ at = [t \in Targets |-> 0]
  /\ secret = Targets /\ runner = {} /\ dead = {} /\ remarks = {}
  /\ results = [t \in Targets |-> <<>>]
  /\ col = [t \in Targets |-> [cur |-> {}, old |-> {}]]
  /\ levelIdx = 0 /\ measuring = FALSE /\ phase = "shut"
  /\ missing = {} /\ fired = FALSE /\ ticks = 0 /\ ticker = FALSE
  /\ cancelled = FALSE /\ state = "starting" /\ file = "none"
  /\ log = <<[name |-> "hello"]>> /\ sealed = FALSE  \* start emits hello first

-----------------------------------------------------------------------------
(* Emitting: a sealed log drops what it is given. *)

Say(e) == log' = IF sealed THEN log ELSE Append(log, e)
Remarked(kind, t, l) ==
  remarks' = IF sealed THEN remarks ELSE remarks \cup {[kind |-> kind, target |-> t, level |-> l]}

Alive == Targets \ dead
Goto(t, from, to) == tpc[t] = from /\ tpc' = [tpc EXCEPT ![t] = to]
Step(from, to) == cpc = from /\ cpc' = to
Settled(ts, steps) == \A t \in ts : tpc[t] \in steps

\* markDead is two steps: the flag under r.mu, then the remark.
MarkDead(t, from) == Goto(t, from, "dying") /\ dead' = dead \cup {t}

Died(t) ==
  /\ Goto(t, "dying", "down")
  /\ Remarked("error", t, IF cpc = "setup" THEN NoLevel ELSE at[t])
  /\ UNCHANGED <<cpc, at, secret, runner, dead, level, bucket, cancelled, state, file, log, sealed>>

-----------------------------------------------------------------------------
(* Setting the targets up, and sweeping their stale refs *)

SetUp(t) ==
  /\ Goto(t, "setup", "ready")
  /\ secret' = secret \ {t} /\ runner' = runner \cup {t}
  /\ UNCHANGED <<cpc, at, dead, level, bucket, cancelled, output>>

\* NewRunner fails for a bad target, and for every target once cancelled.
SetUpFails(t) ==
  /\ MarkDead(t, "setup")
  /\ secret' = secret \ {t}
  /\ UNCHANGED <<cpc, at, runner, level, bucket, cancelled, output>>

Ready(t) ==
  /\ Goto(t, "ready", "up")
  /\ Remarked("ready", t, NoLevel)
  /\ UNCHANGED <<cpc, at, secret, runner, dead, level, bucket, cancelled, state, file, log, sealed>>

Outcome == IF cancelled THEN "cancelled" ELSE "failed"

SetUpDone ==
  /\ Settled(Targets, {"up", "down"})
  /\ IF Alive = {}
       THEN Step("setup", "persist") /\ state' = Outcome /\ UNCHANGED tpc
       ELSE /\ Step("setup", "sweep") /\ state' = "running"
            /\ tpc' = [t \in Targets |-> IF t \in Alive THEN "sweeping" ELSE tpc[t]]
  /\ UNCHANGED <<at, secret, runner, dead, level, bucket, cancelled, remarks, file, log, sealed>>

\* The sweep reports what it could not delete, unless cancelled; a demo target has
\* nothing to sweep.  It never kills the target.  (What it deleted is told as well,
\* which nothing depends on: that event is left out.)
Sweep(t) ==
  /\ Goto(t, "sweeping", "up")
  /\ \/ ~cancelled /\ Remarked("error", t, NoLevel)
     \/ UNCHANGED remarks
  /\ UNCHANGED <<cpc, at, secret, runner, dead, level, bucket, cancelled, state, file, log, sealed>>

SweepDone ==
  /\ Settled(Alive, {"up"}) /\ Step("sweep", "top")
  /\ ticker' = TRUE
  /\ UNCHANGED <<target, level, col, ticks, cancelled, output>>

-----------------------------------------------------------------------------
(* The level loop of coordinate *)

ResetForgotten == UNCHANGED col  \* wrong: the collectors are not reset
Reset == col' = [t \in Targets |-> IF t \in Alive THEN [cur |-> {}, old |-> {}] ELSE col[t]]

LevelsLeft == li < Levels

\* The top of the loop: the level transition, under r.mu, and the start of one
\* RunLevel per target still alive, with a fresh barrier.
LevelTop ==
  /\ LevelsLeft /\ ~cancelled /\ Alive # {}
  /\ Step("top", "await")
  /\ Reset
  /\ levelIdx' = li
  /\ phase' = "shut" /\ missing' = Alive /\ fired' = FALSE /\ ticks' = 0
  /\ tpc' = [t \in Targets |-> IF t \in Alive THEN "build" ELSE tpc[t]]
  /\ at' = [t \in Targets |-> IF t \in Alive THEN li ELSE at[t]]
  /\ UNCHANGED <<li, secret, runner, dead, results, measuring, ticker, cancelled, output>>

LevelsOver ==
  /\ ~LevelsLeft \/ cancelled \/ Alive = {}
  /\ Step("top", "stop")
  /\ UNCHANGED <<target, level, bucket, cancelled, output>>

\* barrier.Await: one arrival per target the barrier was made for.
AllButOne == Cardinality(missing) <= 1  \* wrong: one arrival too few
AllArrived == missing = {}

Await ==
  /\ AllArrived /\ Step("await", "fire")
  /\ UNCHANGED <<target, level, bucket, cancelled, output>>

Fire ==
  /\ Step("fire", "open")
  /\ fired' = TRUE /\ phase' = "warm"
  /\ UNCHANGED <<li, target, results, levelIdx, measuring, missing, bucket, cancelled, output>>

OpenWindow ==
  /\ Step("open", "announce")
  /\ measuring' = TRUE
  /\ UNCHANGED <<li, target, results, levelIdx, phase, missing, fired, bucket, cancelled, output>>

\* level_start is emitted only after the window has been opened.
Announce ==
  /\ Step("announce", "wait")
  /\ Say([name |-> "level_start", level |-> li])
  /\ UNCHANGED <<target, level, bucket, cancelled, remarks, state, file, sealed>>

\* lwg.Wait, then the window is closed.
Returned == Settled(Targets, {"up", "down"})

CloseWindow ==
  /\ Returned /\ Step("wait", "closed")
  /\ measuring' = FALSE
  /\ UNCHANGED <<li, target, results, levelIdx, phase, missing, fired, bucket, cancelled, output>>

\* The check that keeps a cancelled level from being published.
Closed ==
  /\ Step("closed", IF cancelled THEN "stop" ELSE "flush")
  /\ UNCHANGED <<target, level, bucket, cancelled, output>>

\* emitBucket from its snapshots on: one bucket with the samples of every target
\* alive, each collector moving what it had into its rolling window.
Snapshot ==
  LET of == UNION {col[t].cur \cup col[t].old : t \in Alive} IN
  IF Alive = {} THEN UNCHANGED <<col, log>>
  ELSE /\ Say([name |-> "bucket", level |-> levelIdx, of |-> of])
       /\ col' = [t \in Targets |->
            IF t \in Alive THEN [cur |-> {}, old |-> col[t].old \cup col[t].cur] ELSE col[t]]

FlushTail ==
  /\ Step("flush", "collect")
  /\ Snapshot
  /\ UNCHANGED <<target, level, ticks, ticker, cancelled, remarks, state, file, sealed>>

\* level_result carries the result of every target that has one for this level.
LevelResult ==
  /\ Step("collect", "top")
  /\ Say([name |-> "level_result", level |-> li])
  /\ li' = li + 1
  /\ UNCHANGED <<target, results, levelIdx, measuring, phase, missing, fired, bucket, cancelled, remarks, state, file, sealed>>

-----------------------------------------------------------------------------
(* RunLevel of one target *)

\* newAgent fails, or the token would not outlast the level: arrive all the same.
NoArrival(t) == UNCHANGED missing  \* wrong: a failed target does not arrive
ArriveOnFailure(t) == missing' = missing \ {t}

BuildFails(t) ==
  /\ MarkDead(t, "build")
  /\ ArriveOnFailure(t)
  /\ UNCHANGED <<cpc, li, at, secret, runner, results, levelIdx, measuring, phase, fired,
                 bucket, cancelled, output>>

Arrive(t) ==
  /\ Goto(t, "build", "held")
  /\ missing' = missing \ {t}
  /\ UNCHANGED <<cpc, li, at, secret, runner, dead, results, levelIdx, measuring, phase, fired,
                 bucket, cancelled, output>>

\* barrier.Hold returns once the barrier has been fired.
Start(t) ==
  /\ fired /\ Goto(t, "held", "run")
  /\ UNCHANGED <<cpc, at, secret, runner, dead, level, bucket, cancelled, output>>

\* The token is checked again after the hold.
StartFails(t) ==
  /\ fired /\ MarkDead(t, "held")
  /\ UNCHANGED <<cpc, at, secret, runner, level, bucket, cancelled, output>>

\* An agent completes an operation inside the measured window (OnSample drops
\* the others); it may be noticed when the window is over already.
Sample(t) ==
  /\ tpc[t] = "run" /\ phase \in {"measured", "over"}
  /\ col' = [col EXCEPT ![t].cur = @ \cup {at[t]}]
  /\ UNCHANGED <<cpc, target, level, ticks, ticker, cancelled, output>>

\* RunLevel returns when the window is over and its agents and their session
\* cleanup are done, or, with a partial summary, when the run is cancelled.
LevelEnds(t) ==
  /\ \/ phase = "over" /\ Goto(t, "run", "full")
     \/ phase # "over" /\ cancelled /\ Goto(t, "run", "partial")
  /\ UNCHANGED <<cpc, at, secret, runner, dead, level, bucket, cancelled, output>>

PublishAll == TRUE  \* wrong: a partial level is published
Publishable == ~cancelled

\* The result is kept, under r.mu, unless the run has been cancelled.
Publish(t) ==
  /\ \E end \in {"full", "partial"} :
       /\ Goto(t, end, "up")
       /\ results' = IF Publishable
            THEN [results EXCEPT ![t] = Append(@, [level |-> at[t], full |-> end = "full"])]
            ELSE results
  /\ UNCHANGED <<cpc, li, at, secret, runner, dead, levelIdx, measuring, phase, missing, fired,
                 bucket, cancelled, output>>

-----------------------------------------------------------------------------
(* The clock, the ticker and cancellation *)

Advance ==
  /\ \/ phase = "warm" /\ phase' = "measured"
     \/ phase = "measured" /\ phase' = "over"
  /\ UNCHANGED <<cpc, li, target, results, levelIdx, measuring, missing, fired, bucket,
                 cancelled, output>>

\* emitBucket(false): nothing outside an open window, past its end, once
\* cancelled, or in the warm-up, whose overlap with the measured window is zero.
TickEmits == measuring /\ ~cancelled /\ phase = "measured"

Tick ==
  /\ ticker /\ TickEmits /\ ticks < MaxTicks
  /\ ticks' = ticks + 1
  /\ Snapshot
  /\ UNCHANGED <<cpc, target, level, ticker, cancelled, remarks, state, file, sealed>>

\* POST cancel, or the shutdown of the server.
Cancel ==
  /\ ~cancelled /\ cpc # "ended"
  /\ cancelled' = TRUE
  /\ UNCHANGED <<cpc, target, level, bucket, output>>

-----------------------------------------------------------------------------
(* The end of the run *)

StopTicker ==
  /\ Step("stop", "conclude")
  /\ ticker' = FALSE
  /\ UNCHANGED <<target, level, col, ticks, cancelled, output>>

FailedFirst == IF Alive = {} THEN "failed" ELSE IF cancelled THEN "cancelled" ELSE "done"  \* wrong
FinalState == IF cancelled THEN "cancelled" ELSE IF Alive = {} THEN "failed" ELSE "done"

Conclude ==
  /\ Step("conclude", "persist")
  /\ state' = FinalState
  /\ UNCHANGED <<target, level, bucket, cancelled, remarks, file, log, sealed>>

\* persistResults: the run still finishes when the write fails.
Persist ==
  /\ Step("persist", "release")
  /\ \/ file' = state /\ UNCHANGED remarks
     \/ file' = "lost" /\ Remarked("error", NoTarget, NoLevel)
  /\ UNCHANGED <<target, level, bucket, cancelled, state, log, sealed>>

ReleaseAlive == runner' = runner \ Alive  \* wrong: the runners of dead targets are kept
ReleaseAll == runner' = {}

Release ==
  /\ Step("release", "say")
  /\ ReleaseAll
  /\ UNCHANGED <<tpc, at, secret, dead, level, bucket, cancelled, output>>

RunDone ==
  /\ Step("say", "seal")
  /\ Say([name |-> "run_done", state |-> state])
  /\ UNCHANGED <<target, level, bucket, cancelled, remarks, state, file, sealed>>

\* log.close
Seal ==
  /\ Step("seal", "clear")
  /\ sealed' = TRUE
  /\ UNCHANGED <<target, level, bucket, cancelled, remarks, state, file, log>>

\* clearActive: the slot is the manager's.
ClearActive ==
  /\ Step("clear", "end")
  /\ UNCHANGED <<target, level, bucket, cancelled, output>>

\* The deferred cancel and close(done).
End ==
  /\ Step("end", "ended")
  /\ cancelled' = TRUE
  /\ UNCHANGED <<target, level, bucket, output>>

-----------------------------------------------------------------------------
Coordinator == \/ SetUpDone \/ SweepDone \/ LevelTop \/ LevelsOver \/ Await \/ Fire \/ OpenWindow
               \/ Announce \/ CloseWindow \/ Closed \/ FlushTail \/ LevelResult
               \/ StopTicker \/ Conclude \/ Persist \/ Release \/ RunDone \/ Seal \/ ClearActive \/ End

Goroutine(t) == \/ SetUp(t) \/ SetUpFails(t) \/ Ready(t) \/ Died(t) \/ Sweep(t)
                \/ BuildFails(t) \/ Arrive(t) \/ Start(t) \/ StartFails(t)
                \/ LevelEnds(t) \/ Publish(t)

Ended == cpc = "ended" /\ UNCHANGED vars

Next == \/ Coordinator
        \/ \E t \in Targets : Goroutine(t) \/ Sample(t)
        \/ Advance \/ Tick \/ Cancel \/ Ended

\* Goroutines are scheduled and time passes; setup, sweep and RunLevel return,
\* each being bounded by timeouts of its own.  Nobody has to cancel.
Fairness == /\ WF_vars(Coordinator) /\ WF_vars(Advance)
            /\ \A t \in Targets : WF_vars(Goroutine(t))

Spec == Init /\ [][Next]_vars /\ Fairness

-----------------------------------------------------------------------------
(* Properties *)

\* Nobody starts its timed window before everyone has arrived at the barrier,
\* built or failed: setup time that differs between the targets shifts no window.
NobodyStartsEarly ==
  \A t \in Targets : tpc[t] \in {"run", "full", "partial"} =>
    \A u \in Targets : tpc[u] # "build" /\ (u \notin dead => at[u] = at[t])

\* The i-th result of a target is that of the i-th level and of its whole
\* window: a cancelled level leaves nothing behind.  Whatever level has been
\* published, every target still alive has its result.
ResultsAreOfWholeLevels ==
  \A t \in Targets :
    /\ \A i \in DOMAIN results[t] : results[t][i] = [level |-> i - 1, full |-> TRUE]
    /\ t \in Alive => \A i \in DOMAIN log : log[i].name = "level_result" => log[i].level < Len(results[t])

\* A run that has said run_done holds no credential, whether its targets lived
\* or died; every death, and a result document that was lost, have been told.
NothingHeldAtTheEnd ==
  (\E i \in DOMAIN log : log[i].name = "run_done") =>
    /\ secret = {} /\ runner = {}
    /\ \A t \in dead \cup (IF file = "lost" THEN {NoTarget} ELSE {}) :
         \E r \in remarks : r.kind = "error" /\ r.target = t

\* The log is a transcript as its readers expect it, and ends.
Transcript == INSTANCE RunTranscript
IsTranscript == Transcript!Spec

\* To the registry and to a shutdown a run is the coordinator that RunManager has in
\* its place: with one request, answered, whose run is registered and has the slot
\* until the run gives it back.  A shutdown, seen from here, is one more cancellation.
Place ==
  CASE cpc = "setup" -> "setup"
    [] cpc = "persist" -> "finish"
    [] cpc \in {"release", "say"} -> "persisted"
    [] cpc = "seal" -> "announced"
    [] cpc = "clear" -> "sealed"
    [] cpc = "end" -> "cleared"
    [] cpc = "ended" -> "ended"
    [] OTHER -> "levels"

Manager ==
  INSTANCE RunManager WITH
    Reqs <- {"run"}, None <- "none", Keep <- 0,
    pc <- [r \in {"run"} |-> "replied"], reply <- [r \in {"run"} |-> "ok"], gone <- {}, vanished <- {},
    active <- IF cpc \in {"end", "ended"} THEN "none" ELSE "run", runs <- {"run"}, born <- [r \in {"run"} |-> 1],
    cancelled <- IF cancelled THEN {"run"} ELSE {}, cpc <- [r \in {"run"} |-> Place],
    state <- [r \in {"run"} |-> state], file <- [r \in {"run"} |-> IF file \in Terminal THEN "saved" ELSE file],
    baseDone <- FALSE, spc <- "serving", waitFor <- "none", timedOut <- FALSE

IsCoordinator ==
  /\ Place = "setup" /\ state = "starting" /\ file = "none"
  /\ [][Manager!Coordinate("run") \/ Manager!CancelRun("run")]_Manager!vars

\* Every run ends, whichever targets fail at whichever point and whenever it is
\* cancelled: nobody waits at the barrier for someone who will not come.
RunEnds == <>[](cpc = "ended" /\ sealed)
=============================================================================
