# forgemark: specification

TLA+ models of forgemark, the push/clone load generator for git forges and its
web server, the TLC runs that check them on small instances, and proofs, checked
by TLAPS, that the properties that matter most hold for every value of the
constants. Paths below are relative to the repository.

Run from this directory:

    tlc -config RunManager.cfg RunManager          # any run of PROJECT.json
    tlapm RunManager_proofs.tla                    # and the other *_proofs modules

## 1. The system

A **run** drives one or more **targets** (git remotes) through a sweep of
**levels** (numbers of concurrent agents), measuring for a window after a warm-up.
The server accepts runs one at a time, streams what happens to browsers and
stores a result document. The same engine runs from the command line, without
the server.

| Component | State it keeps | Operations |
|---|---|---|
| Run manager (`internal/server/runmgr.go`, `server.go`) | `m.active`, the registry `m.runs`/`m.order`, the base context | `start`, `get`, `list`, cancel, `pruneLocked`, `clearActive`, `beginShutdown`, `stopActive` |
| Run coordinator (`runmgr.go`: `coordinate`, `finish`) | targets (dead, results, runner, credential), level index, `measuring`, state | set-up of all targets in parallel, sweep, level loop behind a start barrier, persistence, `run_done` |
| Bucket clock (`emitBucket`) | `windowStart`, `lastBucketAt` | a tick per second, the flush of a level's tail |
| Collector (`internal/server/collector.go`) | the second in progress, a ring of past seconds | `OnSample`, `snapshot`, `reset` |
| Event log (`internal/server/events.go`) | the events, the subscribers' channels | `emit`, `subscribe`, `close`, `serveSSE` |
| Browser stream (`static/js/sse.js`) | the last event id | open, reconnect, hang up on `run_done` |
| Runner (`internal/bench/runner.go`, `endpoint.go`) | the nodes of the target, levels left, token expiry | `NewRunner` with discovery, pinning and probes; `RunLevel`, `tokenCovers`, `StartBarrier`, `Close` |
| Agent (`agent.go`, `session.go`) | latency estimates, in-memory repository, session ref | the branch, clone and session loops, `record`, `deleteRef` |
| Sweep (`cleanup.go`) | none that lasts; the refs on the forge | list, batch deletion, retries ref by ref |
| Summary (`stats.go`), demo target (`demo.go`) | samples; counters and histograms, the sessions | `summarize`, `errGroups`, `percentile`; `nextOp`, `demoAgg` |
| Results store (`internal/results`), history endpoints (`server.go`) | JSON files; two reader slots | `Save`, `List`, `Load`, `limitHistory` |
| Guards, local credential sources, command line, front end, scripts | – | see "What is not modelled" |

How they interact. `POST /api/runs` runs `start` in its handler's goroutine, which
releases the manager's lock while credentials are resolved, then registers the
run and spawns its coordinator. The coordinator spawns a goroutine per target
for set-up and for each level, and a ticker. A level's agents call `OnSample`
while the ticker, under `r.mu`, takes the bucket out; `log.emit` hands events to the
SSE handlers over bounded channels. A cancellation is a context: the run's, with
the manager's base context as its parent (shutdown), a level's (hard deadline),
an operation's. When it ends, the coordinator writes a document into a
directory that the history handlers, CLI processes and people share.

What is hard to get right, and to test: three goroutine families around one lock
that is released in the middle of `start`; a barrier with participants that
fail; ticks that fall before, in and after a window; subscribers dropped in
mid-stream and coming back; deadlines that cut operations off after they took
effect; deletions on a repository others push to; a credential that follows what
servers say of themselves; files half written when a process dies.
`PROJECT.json` lists each hazard at its line with the properties that would
catch it.

What makes each component correct:

- run manager: one active run; none outlives the server; a bounded registry that
  forgets only what is finished; no run for a client that is gone; a slot that is
  given back; a shutdown that ends;
- coordinator: fair starts; results of whole levels only; a well-formed event
  log; no credential kept; an end, whoever fails;
- bucket clock and collector: rates that are counts over the time they were
  counted in; the live series agrees with the summary;
- event log: a gapless ordered stream for every viewer, whose lifecycle events
  survive the cap;
- runner: a token that lasts, a credential that stays where it belongs, push
  options that every node pushed to understands;
- agent: nothing starts that will not fit, everything is accounted for, refs and
  memory do not accumulate, and it ends on time;
- sweep: never touches what may be in use, and leaves only what was refused;
- summary and demo: the same samples give the same figures, by either code;
- results: what was announced can be loaded, what is listed is what opens, and
  readers take turns.

## 2. Modules

| Module | Models | Composes / refines |
|---|---|---|
| `RunManager` | concurrent `start` calls step by step, cancellation, each run's coordinator in the coarse, `ListenAndServe`'s shutdown | detailed by `Run` |
| `Run` | one run: coordinator, target goroutines, barrier, ticker, agents as samples, canceller | refines `RunTranscript`, and the coordinator of `RunManager` |
| `RunTranscript` | abstract: what the event log may say, in which order | |
| `EventLog` | the log, SSE handlers with channels, browsers that break and reconnect | refines `Feed` |
| `Feed` | abstract: an append-only log that every viewer reads in full | |
| `BucketClock` | `emitBucket`'s arithmetic, in clock ticks, milliseconds and seconds | |
| `Collector` | `OnSample`, `snapshot`, `reset` between agents, ticker and coordinator, and the summary | extends `BucketClock`: every action of the clock, with what it does to the collector |
| `Runner`, `MCRunner` | one target's runner: discovery with its redirect, pinning, probes for push options, the token's budget over the sweep | uses the bound that `Agent` shows |
| `Agent` | one agent's loop during a level, and the refs of its sessions on the forge | |
| `Sweep`, `MCSweep` | the sweep, with other processes on the same repositories | |
| `Stats`, `MCStats` | the demo's operations, counters and histograms beside `summarize` of the same samples | |
| `Results`, `MCResults` | the directory of documents: runs and CLIs that write, history handlers that read two at a time, edits and crashes | |
| `*_proofs` | the theorems | each extends its module; `Collector_proofs` extends `Stats` too |

Variables carry the names of the fields they stand for. An action stands for what
happens between two points where another goroutine can interfere: a critical
section is one action, a step outside a lock one action per access. Program
counters name the place in the function; `PROJECT.json` "map" gives the lines
of every definition. Definitions marked `\* wrong:` are not part of the model:
each is a plausible mistake in the definition below it, and is kept to show that
a property would notice it ("mutants" in `PROJECT.json`).

Where the models abstract:

- `RunManager`: a run is named by the request that made it. Validation of a
  request's body is a choice between valid and invalid. Its coordinator has only the
  steps that the registry and a shutdown can see; that `Run` takes these and no
  others is `IsCoordinator`, where a shutdown's cancellation is one of the run's.
- `Run`: time is the phase of the window; a sample is the level that produced it;
  remarks (`target_ready`, `target_error`) are a set, and what a sweep tells of its deletions
  (`cleanup`) is left out. A tick reads the
  run's context in the step in which it emits. A bucket may overtake
  `level_start`, as in the code, where the window opens before the event is sent;
  `RunTranscript` allows it. Between `run_done` and `clearActive` a start
  request still gets a 409, and a pruned run's viewer a 404.
- `EventLog`: payloads are left out; the heartbeat too. TCP connections and
  `EventSource` are external and modelled by how the code relies on them.
- `BucketClock`: all targets share one clock; `deserted` says that none is left
  (then there is no bucket). Constants fix how many ticks make a millisecond and a
  second, so that rounding is exact.
- `Collector`: counters and histograms are the sets of samples they count. It
  covers the engine and the demo target: they differ in `Grace`. The run has one
  target. `emitBucket` is two steps: it reads the clock, which fixes the bucket's interval
  (`TickRead`, `FlushRead`; `runmgr.go:831`), and takes the samples out (`TakeOut`, `:888`).
  In between it holds `r.mu` (`taking`), which the coordinator needs and agents and
  the clock do not. `OnSample` and `snapshot` are one step each, under `c.mu`. An agent's
  estimate of what fits is left to `Agent`; here any operation
  may begin in the window.
- `Runner`: an origin (scheme, host, port) is a value; which origins are siblings
  of the entry host is a constant. What a server answers is any choice of
  list, redirect or refusal. The bounds `Validate` puts on numbers are one bit. The
  agents of a level are not there: a level lasts at most as long as
  `Agent`'s `BackInTime` says.
- `Agent`: a network operation takes at least a tick, a commit up to
  `MaxCommit`. A push that is cut off or answered by an error may have
  landed. The outcome of an operation other than landed/answered does not matter.
- `Sweep`: the shape of a ref's name is one bit plus the start time it embeds.
  Listing and reading the clock are two steps. The forge refuses any ref it likes.
- `Stats`: a latency is a number, buckets are a monotone map of latencies named by
  the values they stand for; an error text is a value with the key it is normalized to.
  A percentile's rank is a product of floats, rounded up (`stats.go:224`,
  `collector.go:67`). All that the float error can do to it is to put a whole product above
  itself, so that the rank is the next one; for which percentiles and numbers of samples
  it does is a constant (`FloatAbove`), any that `FloatAssumption` admits.
  What is counted is said by units: the samples are pairs of a kind and a number, those of a
  histogram of a bucket and a number, so that a total is the size of a set. Sorting is said by
  place: in place k of the durations is the least that k of them do not exceed, and
  a group of errors is where as many are before it. The order of messages is a
  strict total one; that "(other errors)" is the message of no other group
  (`MessagesAssumption`) holds because every recorded text names the operation that failed,
  or is "(no message)".
- `Results`: of a document, what its two readers tell apart. A write is two
  steps, `os.WriteFile` truncating first; reading one file is one. The order of
  a listing by time is left out, as are runs that begin after a restart (they
  write files of their own). The queue of readers that wait for a slot keeps its order, and
  what a listing has yet to read is a set of places in the directory it was given.
- That two event logs are in the same order when some names are left out
  (`SameWithout` in `EventLog`) is said by the rank of each event among the others.

## 3. Runs

| Run | Shows | Bounds, and why they are enough |
|---|---|---|
| `RunManager` | one active run, none outlives the server, the registry, slots come back, shutdown ends | 2 requests that race for the slot, `Keep = 0`: the first run to end is to be pruned |
| `Run` | a run's safety, that its log refines `RunTranscript`, that it is the coordinator `RunManager` assumes, that it ends | 2 targets (one fails while the other goes on), 2 levels (leftovers), 1 periodic tick per level beside the flush |
| `EventLog` | streams are intact, refine `Feed`, and end | 1 viewer, 2 connections (an old one and its successor), channel of 1 and cap of 2 (both overflow), 3 buckets, 1 break |
| `BucketClock` | buckets tile the window | 2 levels, window not a whole number of milliseconds or seconds |
| `Collector` | live counts agree with the summary, whatever is recorded between the reading of the clock and the snapshot; the rolling window | 2 agents, window of 2 ticks after a warm-up of 1, ring of 2 (a third bucket wraps it), 2 levels, 2 ticks to be late or to drain in |
| `Runner` | the token, the credential, push options | 2 repositories; an entry host, a sibling, a foreign origin; 2 levels, of 1 and 4 agents (every node and every repository is pushed to; an agent's number chooses both, so of two nodes and two repositories two pairs are, while all four are probed); tokens that expire before, at and after what the sweep needs (8 ticks and a skew of 1, sessions 10) |
| `Agent` | the agent's promises, all strategies | a window of 8 ticks: several sessions of 2 commits and two resets fit |
| `Sweep` | what is spared, visited, left, counted | 2 repositories, runs of two ages, a blanket rule after 2 refusals, so that 3 stale refs exceed it |
| `Stats` | demo and summary agree, percentiles, error groups, sessions | 2 agents, 4 samples of every kind and order, 3 latencies in 2 buckets, 4 texts of 3 keys with one reported: the folded rest outranks it; two percentiles whose rank comes out above a whole one, of 2 samples and of 4, in place of the code's 99.9 of 1000 |
| `Results` | announced documents load, listings tell the truth, readers end | 1 run, 1 CLI that may be told to write the run's file, an old document that is edited once, 2 requests for 1 slot, a restart |
| `AgentLeak`, `SweepCount` | violations: see findings | |

`CHECK_DEADLOCK FALSE` is set where the system may come to rest: every request
answered and the server serving or returned (`RunManager`), time at its bound
(`BucketClock`, `Collector`). The other models have an explicit step at their end and are
checked for deadlock.

The type invariants of `RunManager`, `Run`, `EventLog`, `BucketClock`, `Collector`, `Runner`,
`Agent`, `Sweep`, `Results` and `Stats` are proved (section 4) rather than run, being part of the inductive
invariants there.

Fairness. Goroutines that can run are scheduled, and a client's wait for the
server is the server's step, hence weak fairness of coordinators, handlers and
agents. `RunManager` assumes that the coordinator gets through its phases, which
`Run` shows from the weaker assumption that set-up, sweep and `RunLevel` return
(each is bounded by a timeout or a deadline) and that time passes. `EventLog`
assumes that a browser reads its socket and reconnects, as `EventSource` does.
`Sweep` assumes that requests are answered, if only by the context. `Results`
assumes of a history handler that it gets on: the server sets no write
timeout, so a slot comes back when the client takes its response or its
connection is dropped. Nobody ever has to cancel, hang up, shut down, break a
connection, fail or be slow.

Findings: where the code does not do what a comment or a document says.

1. `AgentLeak`: a session's ref whose push landed unacknowledged is never deleted
   by the agent (`session.go:86-105`, against `README.md:337`).
2. `SweepCount`: if the retries stop at a run of refusals, what the refused
   batch had deleted is not in the count the sweep returns (`cleanup.go:226`).

Observations: behaviour the models allow as the code has it, which no property forbids.

- A client that hangs up after `start`'s last look at its context
  (`runmgr.go:430`) and before the registration (`:461`) still has its run made.
- A bucket's `t`, floored to a second (`runmgr.go:880`), may lie before the start
  of the window it belongs to, which the comment at `:810` excludes.
- The CLI, interrupted, appends what the level under way had measured and
  writes a document without a state, which the history reads as "done"; the
  server discards such a level, for the reason its comment gives
  (`runmgr.go:664`). If a later level is refused, the CLI writes nothing of
  the earlier ones.
- What is recorded between `emitBucket`'s reading of the clock (`runmgr.go:831`) and its
  snapshot (`:888`) is counted in a bucket that ended before it, and its time in the next
  bucket's duration: the rate of one bucket may be too high by that much, and the next too
  low. Over the level both counts and durations are exact.
- `percentile` and `quantile` are of the nearest rank, as their comments say
  (`stats.go:219`, `collector.go:58`), but for p99.9 of 1000 samples and of most multiples of
  1000: `99.9/100*1000` is 999.0000000000001 in floats, its ceiling 1000, and the p99.9 the
  maximum. `FiguresAreTrue` allows the next rank there and nowhere else. For 50, 95 and 99
  the floats do no harm (computed for up to 3 million samples).
- The demo drops an operation the deadline cuts off without counting it as
  cancelled, which the engine does.

## 4. Proofs

Each proof module has an inductive invariant `IInv`, checked by TLC as an
invariant before it was proved, and derives its theorems from it; a later property
that needs more has a second invariant on top of it (named below), checked the same way.
The constants are any that the assumptions named in the modules admit.
Every safety property of every passing run is a theorem.

- `RunManager_proofs` (any finite set of requests, any `Keep`): `TypeCorrect`,
  `OneActiveRun`, `NoOrphan`, `VanishedSafe`, `RegistrySafe`. One-at-a-time alone is not
  inductive: that a coordinator exists only for an accepted request (`RequestInv`), and
  that the base context is cancelled before the shutdown looks for an active run
  (`DrainInv`: afterwards `m.active` can only become free) carry the argument. For the
  registry, `RegistryInv` says that every registration takes the next number, that an active
  run is in the registry, and that what was forgotten is older than all that is kept, of
  which there is as much as can be; `pruneLocked` drops the oldest
  finished run, which exists because numbers are well-founded (`LeastNumber`, `Pruning`).
- `Run_proofs` (any targets and levels): `FairStarts`, `WholeLevels`,
  `NothingHeld`, `TypeCorrect`, `LogIsTranscript`, `RunsAsManaged`. `Places` says where every target's goroutine can
  be while the coordinator is at some place; `Barrier` that the barrier misses
  exactly those that still build, so that nobody runs before it fires;
  `Counting` how many results a living target has at each place, from which it
  follows that a cancelled level's result is never among them; `Telling` who
  can still hold a secret or a runner, and that deaths are told as they happen.
  `LogIsTranscript` is the whole refinement of `RunTranscript`, initial states and every
  step. The abstract module knows only the log, so `Voice` ties the log to the
  run: `Heard`, how many starts and results it has at each place of the coordinator;
  `Attributed`, that a collector holds samples of the current level only, although the
  level index and the collectors are changed beside the ticker; `Complete`, that
  a run is done only with every level. The lemmas count the events of a name
  when one is appended. `RunsAsManaged` is the other refinement: every step of a run is, to the
  manager, a step of the coordinator it has in the run's place, a cancellation, or
  nothing. That `Run` may therefore stand for each coordinator of `RunManager`, which share
  nothing but the manager's slot and contexts, is argued here and not proved; the fairness
  assumed of a coordinator is what `RunEnds` shows.
- `EventLog_proofs` (any viewers, connections, capacities, events and breaks):
  `StreamSafe`, `SubscriptionsSafe`, `TypeCorrect`, `FeedSafe`, `LogSafe`. A stream is cut into
  what the viewer has seen, the wire, the replay and the channel; `Streams` says
  that each piece continues the log where the one before it ends, and that a
  subscribed stream reaches the log's end. Every action moves one event from a piece to the
  piece before it, adds one at the end, or drops pieces with their
  connection; `Numbered` makes the Last-Event-ID the length of what was seen, so
  the next replay begins at the right place. `FeedSafe` is the refinement of
  `Feed`, step by step, without its fairness; it needs besides that `hello` is never discarded.
  `LogSafe` compares the log with what `emit` was asked to say (`LogInv`). Its lemmas
  are about sequences with some names left out: an event that counts extends both by one
  at the same rank (`SameBoth`), one that does not leaves both alone (`SameOne`);
  so each of the four ways an event can land (lifecycle, bucket, marker, lost)
  preserves the equality, the single marker and the bound on buckets.
- `Collector_proofs` (any warm-up, duration, clock resolution, agents and ring): of
  `BucketClock`, `BucketSafe`, durations are ceilings and buckets end inside the window, and
  `TilingSafe`, they tile it. The invariant ties `lastBucketAt` to what has been
  covered, at every place of the coordinator. What is used of division is stated as lemmas.
  `CollectorRunsOnTheClock` carries all of this over to `Collector`, whose steps are the clock's or stutter.
  There (`CInv`) `Held` says what is so while `emitBucket` has read the clock and not yet taken
  the samples: the level is open, or over but for this; nobody died; and what was read is a
  bucket of this window. `Tally` says that at every moment each sample that counts is in the
  current second or in exactly one bucket. A new sample is in none of them, since an agent's
  operations follow one another in time (`InTime`); the tail is taken out after
  the last of them, since agents exist only between the barrier and the return of
  `RunLevel` (`Returning`). Hence `CountsSafe`. `Wheel` says which bucket each slot of
  the ring holds, counted back from the next slot to fill, and gives `RollingSafe`.
  Of `Stats` (any agents, latencies, monotone buckets, percentiles, float errors within
  `FloatAssumption`, texts and limit of groups): `SessionsSafe`, `FiguresSafe`, `DemoSafe`.
  `StatsInvariant` says that the demo's counters and histograms are the numbers of the samples
  that `summarize` would count, and that sessions have their clones and pushes; it is
  preserved because one more sample is one more unit of a tally (`OneMore`). The rest holds in every state with that invariant.
  A histogram and the samples agree on any set of buckets (`Durations`), and the
  bucket of a latency does not decrease with it, so the bucket of the k-th duration
  is the first with k at or below it (`QuantilesAgree`, `MaximaAgree`). For the errors,
  the sizes of the groups add up to the size of the whole (`Classes`), a permutation
  puts every group in one place (`InOrderIs`), and to fold the last of them adds up their
  counts (`ErrGroupsAddUp`). Where an induction over the samples would do it, the proofs take a least
  counterexample (`LongestOf`) or a bijection instead.
- `Runner_proofs` (any repositories, origins, sweep and timeouts): `TokenSafe`,
  `RefusalsSafe`, `OptionsSafe`, `PinnedSafe`, `TypeCorrect`. `Vetting` says that every
  list in effect was pinned and every node comes from one, `Probing` that what
  is probed and what is not yet probed are all pairs, `Counting` that the levels left are the
  sweep's less those begun, and `Budgeting` that the lifetime left is what the
  levels left need, and the slack, less the time spent idle.
- `Agent_proofs` (any window, timeouts, number of commits): accounting, fitting,
  the schedule, the refs of sessions, and `RepositorySafe`. `Schedule` says for every place of the
  loops how late it can be; `Refs` that only the session in progress may have an
  acknowledged ref; `Cuts` that an agent is cut off once, and then stops;
  `Generation` how many commits the repository can hold at every place of the branch loop, given
  the commits since a reset was last due and the resets that failed (what is used of
  quotients and remainders are lemmas). The
  theorem of the schedule rests on `AgentAssumption`: a commit takes no longer than
  `drainGrace`, and with a deletion no longer than the shutdown waits. The first
  part holds of the constants in the code (30 s, 35 s) if a commit takes seconds
  at most; the code does not enforce it.
- `Sweep_proofs` (any refs, repositories and limits): nothing of others is
  deleted, everything is visited, and `ReportSafe`, the report is true. A ref is selected only if it
  is stale; a stale ref has no live run (`Longest <= StaleAfter`: 112 h against a
  week), so nobody can push it again and it cannot become the default branch after
  it was listed. For the report, `RInv` follows each ref that was asked for
  to the end: it is pending, or gone, or refused, or its repository has seen as many
  refusals as make a blanket rule; and what was counted is no more than what was
  asked for, is not pending and is gone, because a stale ref does not come back. Both
  rest on the order of the sweep, one repository after the other (`InOrder`).
- `Results_proofs` (any runs, CLIs, readers, edits): `AnnouncedSafe`, `ListingsSafe`. `Written`
  follows the file of a run from the truncation to the announcement: two runs
  never share a file, so what is whole when it is announced stays whole,
  whoever dies. `ReadInv` says of a listing under way that each document readable since it
  began is either still ahead of it or in the answer, once and as it is; and of
  requests that they wait once each, so that a slot is not handed to a listing already under way.
  That the two readers of a document see the same in it is a lemma (`ReadersAgree`).

Only model-checked: liveness (`EverythingEnds`, `RunEnds`, `EveryoneHangsUp`, `Returns`,
`SweepEnds`, `EveryReaderEnds`) and the fairness of `FeedSpec`, which are beyond the
prover.

## 5. Not modelled

- Local credential sources (`local.go`): runs the forges' own CLIs and parses
  what they print. `RunManager`'s `Resolve` stands for the outcome and for the time it takes.
- The front end, but for the stream it reads: it renders. Its merging of a flush
  into the second of the last tick, live and replayed, is the one part with
  state (see the plan).
- Origin, peer and bind guards: stateless predicates over one request.
- URL parsing, the decision which host is a sibling, the object format of a
  remote and the redaction of secrets in error texts: parsing.
- The command line's flags and the scripts: sequential glue. The CLI's loop over
  the levels and its document are a writer of `Results`.
- What a commit contains, and the fallback of a session's clone to an orphan branch.

## 6. Plan

Done: the run registry and a run, the stream, bucket time and counts, the
runner and its token, the agent, the sweep, the figures, the results store.
What remains is the front end's merge of buckets by second and level, live against
replayed (`Replay`).
