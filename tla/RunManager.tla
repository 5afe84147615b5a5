----------------------------- MODULE RunManager -----------------------------
(***************************************************************************)
(* The server's run registry (RunManager in internal/server/runmgr.go):    *)
(* concurrent POST /api/runs handlers running start, cancel requests, the  *)
(* coordinator of every accepted run reduced to its end game (module Run   *)
(* models the rest), and the shutdown path of ListenAndServe.              *)
(*                                                                         *)
(* A run is named by the request that created it: run IDs are unique.      *)
(* m.runs and m.order hold the same runs, so they are one set, runs, and   *)
(* the order of registration, born.  A context is done when it or its      *)
(* parent was cancelled; baseDone is the manager's base context.           *)
(***************************************************************************)
EXTENDS Naturals, FiniteSets

CONSTANTS
  Reqs,  \* POST /api/runs requests
  None,
  Keep   \* keepFinishedRuns

ASSUME RunManagerAssumption == IsFiniteSet(Reqs) /\ None \notin Reqs /\ Keep \in Nat

VARIABLES
  pc,         \* where start is for a request
  reply,      \* what the request was answered
  gone,       \* requests whose client has hung up (reqCtx is done)
  vanished,   \* history: those that had hung up while secrets were resolved
  active,     \* m.active
  runs,       \* m.runs, m.order
  born,       \* the order of registration; 0: never registered
  cancelled,  \* runs whose own context was cancelled
  baseDone,   \* the base context was cancelled (beginShutdown)
  cpc,        \* where a run's coordinator is
  state,      \* run.state
  file,       \* the run's result document
  spc,        \* where ListenAndServe is
  waitFor,    \* the run stopActive waits for
  timedOut    \* stopActive gave up waiting

request == <<pc, reply, gone, vanished>>
registry == <<active, runs, born>>
run     == <<cancelled, cpc, state, file>>
server  == <<baseDone, spc, waitFor, timedOut>>
vars    == <<request, registry, run, server>>

ReqPC  == {"new", "precheck", "shutcheck", "resolve", "recheck", "gonecheck",
           "register", "hello", "replied"}
Reply  == {"none", "ok", "invalid", "active", "shutdown", "secret", "abandoned"}
CoordPC == {"none", "setup", "levels", "finish", "persisted", "announced", "sealed",
            "cleared", "ended"}
State  == {"starting", "running", "done", "failed", "cancelled"}
ServerPC == {"serving", "shutdown", "waiting", "drained", "returned"}

TypeOK ==
  /\ pc \in [Reqs -> ReqPC] /\ reply \in [Reqs -> Reply]
  /\ gone \subseteq Reqs /\ vanished \subseteq Reqs
  /\ active \in Reqs \cup {None} /\ runs \subseteq Reqs /\ born \in [Reqs -> Nat]
  /\ cancelled \subseteq Reqs /\ baseDone \in BOOLEAN
  /\ cpc \in [Reqs -> CoordPC] /\ state \in [Reqs -> State]
  /\ file \in [Reqs -> {"none", "saved", "lost"}]
  /\ spc \in ServerPC /\ waitFor \in Reqs \cup {None} /\ timedOut \in BOOLEAN

Init ==
  /\ pc = [r \in Reqs |-> "new"] /\ reply = [r \in Reqs |-> "none"]
  /\ gone = {} /\ vanished = {}
  /\ active = None /\ runs = {} /\ born = [r \in Reqs |-> 0]
  /\ cancelled = {} /\ baseDone = FALSE
  /\ cpc = [r \in Reqs |-> "none"] /\ state = [r \in Reqs |-> "starting"]
  /\ file = [r \in Reqs |-> "none"]
  /\ spc = "serving" /\ waitFor = None /\ timedOut = FALSE

CtxDone(r) == baseDone \/ r \in cancelled

-----------------------------------------------------------------------------
(* start, one request *)

At(r, from, to) == pc[r] = from /\ pc' = [pc EXCEPT ![r] = to]
Pass(r, from, to) == At(r, from, to) /\ UNCHANGED reply
Refuse(r, from, why) == At(r, from, "replied") /\ reply' = [reply EXCEPT ![r] = why]

\* The checks of the body, the workload and the targets touch no shared state.
Validate(r) ==
  /\ Pass(r, "new", "precheck") \/ Refuse(r, "new", "invalid")
  /\ UNCHANGED <<gone, vanished, registry, run, server>>

\* The early check under m.mu, which spares a doomed request its secrets.
PreCheck(r) ==
  /\ \/ active = None /\ Pass(r, "precheck", "shutcheck")
     \/ active # None /\ Refuse(r, "precheck", "active")
  /\ UNCHANGED <<gone, vanished, registry, run, server>>

ShutCheck(r) ==
  /\ \/ ~baseDone /\ Pass(r, "shutcheck", "resolve")
     \/ baseDone /\ Refuse(r, "shutcheck", "shutdown")
  /\ UNCHANGED <<gone, vanished, registry, run, server>>

\* Credential resolution succeeds or fails; cancelling its context only makes
\* failure likely (a CLI may have answered already, a target may need none).
Resolve(r) ==
  /\ Pass(r, "resolve", "recheck") \/ Refuse(r, "resolve", "secret")
  /\ vanished' = IF r \in gone THEN vanished \cup {r} ELSE vanished
  /\ UNCHANGED <<gone, registry, run, server>>

Recheck(r) ==
  /\ \/ ~baseDone /\ Pass(r, "recheck", "gonecheck")
     \/ baseDone /\ Refuse(r, "recheck", "shutdown")
  /\ UNCHANGED <<gone, vanished, registry, run, server>>

NeverAbandoned(r) == FALSE  \* wrong: the request's context is not checked
Abandoned(r) == r \in gone

GoneCheck(r) ==
  /\ \/ ~Abandoned(r) /\ Pass(r, "gonecheck", "register")
     \/ Abandoned(r) /\ Refuse(r, "gonecheck", "abandoned")
  /\ UNCHANGED <<gone, vanished, registry, run, server>>

\* pruneLocked: the registered runs less the oldest finished ones beyond Keep.
\* Every run that is not active counts as finished.
AtLeastAsNew(r, rs, b) == {s \in rs : b[s] >= b[r]}
PrunedLate(rs, act, b) ==  \* wrong: one too many is kept
  {r \in rs : r = act \/ Cardinality(AtLeastAsNew(r, rs \ {act}, b)) <= Keep + 1}
Pruned(rs, act, b) ==
  {r \in rs : r = act \/ Cardinality(AtLeastAsNew(r, rs \ {act}, b)) <= Keep}

\* The authoritative checks and the registration, under one hold of m.mu.
ShuttingDownStale == FALSE  \* wrong: not checked again under the lock
ShuttingDown == baseDone
NotBusy == FALSE  \* wrong: not checked again under the lock
Busy == active # None

Register(r) ==
  /\ ~ShuttingDown /\ ~Busy
  /\ Pass(r, "register", "hello")
  /\ active' = r
  /\ born' = [born EXCEPT ![r] = 1 + Cardinality({s \in Reqs : born[s] # 0})]
  /\ runs' = Pruned(runs \cup {r}, r, born')
  /\ UNCHANGED <<gone, vanished, run, server>>

RefuseLocked(r) ==
  /\ \/ ShuttingDown /\ Refuse(r, "register", "shutdown")
     \/ ~ShuttingDown /\ Busy /\ Refuse(r, "register", "active")
  /\ UNCHANGED <<gone, vanished, registry, run, server>>

\* The hello event, then go run.coordinate.
Hello(r) ==
  /\ At(r, "hello", "replied")
  /\ reply' = [reply EXCEPT ![r] = "ok"]
  /\ cpc' = [cpc EXCEPT ![r] = "setup"]
  /\ UNCHANGED <<gone, vanished, registry, cancelled, state, file, server>>

\* The client of an unanswered request hangs up.
HangUp(r) ==
  /\ pc[r] # "replied" /\ r \notin gone
  /\ gone' = gone \cup {r}
  /\ UNCHANGED <<pc, reply, vanished, registry, run, server>>

\* POST /api/runs/{id}/cancel, on any run still registered.
CancelRun(r) ==
  /\ r \in runs \ cancelled
  /\ cancelled' = cancelled \cup {r}
  /\ UNCHANGED <<request, registry, cpc, state, file, server>>

-----------------------------------------------------------------------------
(* coordinate, reduced to the steps the registry and the shutdown can see *)

Move(r, from, to) == cpc[r] = from /\ cpc' = [cpc EXCEPT ![r] = to]

\* Some target came up.
SetUp(r) ==
  /\ Move(r, "setup", "levels")
  /\ state' = [state EXCEPT ![r] = "running"]
  /\ UNCHANGED <<request, registry, cancelled, file, server>>

\* The state is read off the context and the targets left.  With every target
\* dead in setup it cannot be done.
Conclude(r, s) ==
  /\ \/ s # "done" /\ Move(r, "setup", "finish")
     \/ Move(r, "levels", "finish")
  /\ IF CtxDone(r) THEN s = "cancelled" ELSE s \in {"done", "failed"}
  /\ state' = [state EXCEPT ![r] = s]
  /\ UNCHANGED <<request, registry, cancelled, file, server>>

\* persistResults: the document is written or, the write failing, lost.
Persist(r, f) ==
  /\ Move(r, "finish", "persisted")
  /\ file' = [file EXCEPT ![r] = f]
  /\ UNCHANGED <<request, registry, cancelled, state, server>>

\* run_done is emitted, then the log closed.
Announce(r) ==
  /\ Move(r, "persisted", "announced")
  /\ UNCHANGED <<request, registry, cancelled, state, file, server>>

Seal(r) ==
  /\ Move(r, "announced", "sealed")
  /\ UNCHANGED <<request, registry, cancelled, state, file, server>>

ClearForgotten(r) == UNCHANGED active  \* wrong: the slot is kept
Clear(r) == active' = IF active = r THEN None ELSE active

ClearActive(r) ==
  /\ Move(r, "sealed", "cleared")
  /\ Clear(r)
  /\ UNCHANGED <<request, runs, born, cancelled, state, file, server>>

\* The deferred cancel and close(done).
EndForgotten(r) == FALSE /\ UNCHANGED vars  \* wrong: done is never closed
End(r) ==
  /\ Move(r, "cleared", "ended")
  /\ cancelled' = cancelled \cup {r}
  /\ UNCHANGED <<request, registry, state, file, server>>

-----------------------------------------------------------------------------
(* ListenAndServe: drain on a failed listener or a cancelled context *)

BeginShutdown ==
  /\ spc = "serving"
  /\ spc' = "shutdown" /\ baseDone' = TRUE
  /\ UNCHANGED <<request, registry, run, waitFor, timedOut>>

\* stopActive reads m.active under the lock, cancels the run it finds, and
\* waits for its coordinator to end.
StopActive ==
  /\ spc = "shutdown"
  /\ waitFor' = active
  /\ IF active = None
       THEN spc' = "drained" /\ UNCHANGED cancelled
       ELSE spc' = "waiting" /\ cancelled' = cancelled \cup {active}
  /\ UNCHANGED <<request, registry, cpc, state, file, baseDone, timedOut>>

WaitOver == cpc[waitFor] = "ended"

DoneClosed ==
  /\ spc = "waiting" /\ WaitOver
  /\ spc' = "drained"
  /\ UNCHANGED <<request, registry, run, baseDone, waitFor, timedOut>>

\* The coordinator may take longer than shutdownDrain.
DrainTimeout ==
  /\ spc = "waiting"
  /\ spc' = "drained" /\ timedOut' = TRUE
  /\ UNCHANGED <<request, registry, run, baseDone, waitFor>>

\* After the bounded srv.Shutdown, or at once when the listener had failed.
ServeReturns ==
  /\ spc = "drained"
  /\ spc' = "returned"
  /\ UNCHANGED <<request, registry, run, baseDone, waitFor, timedOut>>

-----------------------------------------------------------------------------
Post(r) == \/ Validate(r) \/ PreCheck(r) \/ ShutCheck(r) \/ Resolve(r) \/ Recheck(r)
           \/ GoneCheck(r) \/ Register(r) \/ RefuseLocked(r) \/ Hello(r)

Coordinate(r) == \/ SetUp(r)
                 \/ \E s \in State : Conclude(r, s)
                 \/ \E f \in {"saved", "lost"} : Persist(r, f)
                 \/ Announce(r) \/ Seal(r) \/ ClearActive(r) \/ End(r)

Drain == StopActive \/ DoneClosed \/ ServeReturns

Next == \/ \E r \in Reqs : Post(r) \/ HangUp(r) \/ CancelRun(r) \/ Coordinate(r)
        \/ BeginShutdown \/ Drain \/ DrainTimeout

\* Goroutines are scheduled, and a coordinator reaches its end (module Run).
\* Clients need not do anything and the server need not be shut down.
Fairness == /\ \A r \in Reqs : WF_vars(Post(r)) /\ WF_vars(Coordinate(r))
            /\ WF_vars(Drain)

Spec == Init /\ [][Next]_vars /\ Fairness

-----------------------------------------------------------------------------
(* Properties *)

\* From its registration until its coordinator has given the slot back a run
\* may generate load, write its results or talk to its viewers.
Unfinished(r) == \/ pc[r] = "hello"
                 \/ cpc[r] \in {"setup", "levels", "finish", "persisted", "announced", "sealed"}

Registered(r) == born[r] # 0

\* One active run at a time: overlapping load generators would corrupt each
\* other's numbers.  m.active names exactly the run that is not finished,
\* however the POSTs, their two checks and a finishing run interleave.
OneAtATime == \A r \in Reqs : Unfinished(r) <=> active = r

\* Once the drain of a shutdown is over, and unless it gave up waiting, every
\* run is finished with its results decided, and (OneAtATime, and the base
\* context being cancelled) none can start: no coordinator outlives
\* ListenAndServe, whatever POST was in flight.
NothingOutlivesTheServer ==
  spc \in {"drained", "returned"} /\ ~timedOut =>
    \A r \in Reqs : ~Unfinished(r) /\ (Registered(r) => file[r] # "none")

\* The registry stays bounded: the active run and Keep finished ones, or one
\* more when the active one has finished.  What it forgets is finished, older
\* than all it still has, and was in nobody's way: it is full.
RegistryKeepsTheNewest ==
  /\ Cardinality(runs) <= Keep + 1
  /\ \A r \in Reqs : Registered(r) /\ r \notin runs =>
       /\ ~Unfinished(r)
       /\ Cardinality(runs) = Keep + 1
       /\ \A s \in runs : born[s] > born[r]

\* A client gone while its credentials were being resolved gets no run.
VanishedGetsNoRun == \A r \in vanished : ~Registered(r)

\* A registered run ends and gives its slot back, so a later start can have it.
RunsEnd == \A r \in Reqs : Unfinished(r) ~> cpc[r] = "ended" /\ active # r

\* A shutdown ends without the help of the timeout.
ShutdownReturns == spc = "shutdown" ~> spc = "returned"

\* Runs give the slot back and the server comes down, whoever waits for whom.
EverythingEnds == RunsEnd /\ ShutdownReturns
=============================================================================
