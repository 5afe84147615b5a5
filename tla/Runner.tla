-------------------------------- MODULE Runner --------------------------------
(***************************************************************************)
(* The runner of one target (internal/bench/runner.go, endpoint.go):       *)
(* NewRunner with the discovery of an Entire cluster's nodes and the probe *)
(* for push options, then the levels of the sweep, as far as the nodes and *)
(* repositories they load and the lifetime of the access token go.  What   *)
(* the agents do in a level is Agent's; Run has the barrier.               *)
(*                                                                         *)
(* An origin (scheme, host, port) is a model value.  Time is counted in    *)
(* ticks; it passes outside the levels too: in requests, in the sweep of   *)
(* stale refs, while other targets get ready.                              *)
(***************************************************************************)
EXTENDS Integers, Sequences

CONSTANTS
  Repos,      \* t.Repos, a sequence
  Origins,    \* that a reply can name
  Base,       \* the origin of t.Remote
  Siblings,   \* the origins pinReplicas admits besides Base
  Adverts,    \* the lists of origins an X-Entire-Replicas header can hold
  Sweep,      \* w.Concurrency, a sequence
  Window,     \* w.Warmup + w.Duration
  DrainGrace, SessionCleanup, Skew,  \* drainGrace, sessionCleanupTimeout, tokenSkew
  NoExp,      \* the secret is no JWT with an expiry
  Expiries,   \* when a token can expire
  MaxIdle     \* bound: ticks outside the levels, before and after the set-up

ASSUME RunnerAssumption ==
  /\ Repos \in Seq(STRING) /\ Base \in Origins /\ Siblings \subseteq Origins
  /\ Adverts \subseteq Seq(Origins)
  /\ Sweep \in Seq(Nat \ {0}) /\ Len(Sweep) > 0
  /\ Window \in Nat \ {0} /\ DrainGrace \in Nat /\ SessionCleanup \in Nat /\ Skew \in Nat
  /\ Expiries \subseteq Nat /\ NoExp \notin Nat /\ MaxIdle \in Nat

VARIABLES
  cfg,         \* the target and the workload
  step,        \* new, probe, reprobe, options, budget: NewRunner; ready, arrived, released, level:
               \* the sweep; over, dead: it ended; refused, closed: the runner is gone
  now, exp,    \* exp: when the secret expires
  advertised,  \* the X-Entire-Replicas in effect
  via,         \* the node the discovery was redirected to
  nodes,       \* ep.nodes
  unprobed,    \* (node, repository) pairs whose push options are still to be probed
  tokenExp, levelsLeft,  \* of the runner
  level,       \* the index of the level to come or under way
  firedAt,     \* of its barrier
  idle,        \* ticks outside the levels, since the set-up succeeded
  slack,       \* history: lifetime to spare when the set-up succeeded
  named,       \* history: the origins named by replies
  presented,   \* history: the origins the credential was presented to
  withOptions  \* history: the pairs that advertised push options

discovery == <<advertised, via, nodes, named>>
budget    == <<exp, tokenExp, levelsLeft, slack>>
sweep     == <<level, firedAt>>
vars      == <<cfg, step, now, discovery, unprobed, budget, sweep, idle, presented, withOptions>>

Strategy == {"branch", "repo", "clone", "session"}
Config == [wellFormed : BOOLEAN, tokenURL : BOOLEAN, jurisdiction : BOOLEAN,
           options : BOOLEAN, strategy : Strategy]
Elems(s) == {s[i] : i \in DOMAIN s}
SetUp == {"new", "probe", "reprobe", "options", "budget"}
Underway == {"ready", "arrived", "released", "level"}
Gone == {"over", "dead", "refused", "closed"}

TypeOK ==
  /\ cfg \in Config /\ step \in SetUp \cup Underway \cup Gone
  /\ now \in Nat /\ exp \in Expiries \cup {NoExp}
  /\ advertised \in Seq(Origins) /\ via \in Origins /\ nodes \in Seq(Origins)
  /\ unprobed \subseteq Origins \X Elems(Repos) /\ withOptions \subseteq Origins \X Elems(Repos)
  /\ tokenExp \in Expiries \cup {NoExp} /\ levelsLeft \in Nat
  /\ level \in 1..(Len(Sweep) + 1) /\ firedAt \in Nat
  /\ idle \in 0..MaxIdle /\ slack \in Int
  /\ named \subseteq Origins /\ presented \subseteq Origins

Init ==
  /\ cfg \in Config /\ step = "new" /\ now = 0 /\ exp \in Expiries \cup {NoExp}
  /\ advertised = <<>> /\ via = Base /\ nodes = <<>> /\ unprobed = {}
  /\ tokenExp = NoExp /\ levelsLeft = Len(Sweep) /\ level = 1 /\ firedAt = 0
  /\ idle = 0 /\ slack = 0
  /\ named = {} /\ presented = {} /\ withOptions = {}

-----------------------------------------------------------------------------
(* NewRunner *)

IsEntire == cfg.tokenURL \/ cfg.jurisdiction

\* An error of NewRunner: what it held is closed.
Refuse ==
  /\ step \in SetUp /\ step' = "refused"
  /\ UNCHANGED <<cfg, now, discovery, unprobed, budget, sweep, idle, presented, withOptions>>

\* Validate, and the checks of NewRunner, setupGeneric and setupEntiredb.
Valid ==
  /\ cfg.wellFormed
  /\ cfg.strategy = "repo" => Len(Repos) >= 2
  /\ Len(Repos) > 0
  /\ IsEntire => cfg.tokenURL /\ cfg.jurisdiction

\* The set-up of the endpoint is done: the push options come next.
Resolved(ns) ==
  /\ nodes' = ns
  /\ unprobed' = IF cfg.options THEN Elems(ns) \X Elems(Repos) ELSE {}
  /\ step' = "options"

Invalid == step = "new" /\ ~Valid /\ Refuse

\* A plain forge has one node and needs no discovery.
Generic ==
  /\ step = "new" /\ Valid /\ ~IsEntire
  /\ Resolved(<<Base>>)
  /\ UNCHANGED <<cfg, now, advertised, via, named, budget, sweep, idle, presented, withOptions>>

Discover ==
  /\ step = "new" /\ Valid /\ IsEntire
  /\ step' = "probe" /\ presented' = presented \cup {Base}
  /\ UNCHANGED <<cfg, now, discovery, unprobed, budget, sweep, idle, withOptions>>

\* pinReplicas: one replica that is neither the entry host nor its sibling
\* fails the run.
Unpinned(list) == TRUE  \* wrong: whatever a reply lists is taken
Pinned(list) == \A i \in DOMAIN list : list[i] \in Siblings \cup {Base}

\* Without replicas the entry host is the only node.
NodesOf(list) == IF list = <<>> THEN <<Base>> ELSE list

\* The entry host answers.
Answered(list) ==
  /\ step = "probe" /\ advertised' = list /\ named' = Elems(list)
  /\ IF Pinned(list) THEN Resolved(NodesOf(list)) ELSE step' = "refused" /\ UNCHANGED <<nodes, unprobed>>
  /\ UNCHANGED <<cfg, now, via, budget, sweep, idle, presented, withOptions>>

RedirectNode(list, loc) == loc \in Elems(list)

\* The entry host redirects to loc, which must be one of the nodes it lists; the
\* probe is repeated there.
Redirected(list, loc) ==
  /\ step = "probe" /\ advertised' = list /\ named' = Elems(list)
  /\ IF Pinned(list) /\ RedirectNode(list, loc)
     THEN step' = "reprobe" /\ via' = loc /\ presented' = presented \cup {loc}
     ELSE step' = "refused" /\ UNCHANGED <<via, presented>>
  /\ UNCHANGED <<cfg, now, nodes, unprobed, budget, sweep, idle, withOptions>>

\* The replica answers; its list, if it sends one, replaces the entry host's and
\* is vetted in its turn.  (A second redirect is refused: Refuse.)
Vetted(list) == Pinned(list)

ReplicaAnswered(list, present) ==
  LET inEffect == IF present THEN list ELSE advertised IN
  /\ step = "reprobe"
  /\ advertised' = inEffect /\ named' = IF present THEN named \cup Elems(list) ELSE named
  /\ IF Vetted(inEffect) THEN Resolved(NodesOf(inEffect))
     ELSE step' = "refused" /\ UNCHANGED <<nodes, unprobed>>
  /\ UNCHANGED <<cfg, now, via, budget, sweep, idle, presented, withOptions>>

\* requirePushOptions: every node is asked about every repository.
FirstRepoProbed == \A pair \in unprobed : pair[2] # Repos[1]  \* wrong: one repository stands for all
AllProbed == unprobed = {}

ProbeOptions(pair) ==
  /\ step = "options" /\ pair \in unprobed /\ ~AllProbed
  /\ unprobed' = unprobed \ {pair} /\ withOptions' = withOptions \cup {pair}
  /\ presented' = presented \cup {pair[1]}
  /\ UNCHANGED <<cfg, step, now, discovery, budget, sweep, idle>>

OptionsProbed ==
  /\ step = "options" /\ AllProbed
  /\ step' = "budget"
  /\ tokenExp' = IF IsEntire THEN exp ELSE NoExp
  /\ UNCHANGED <<cfg, now, discovery, unprobed, exp, levelsLeft, slack, sweep, idle, presented, withOptions>>

\* tokenCovers, at time t.
IsSession == cfg.strategy = "session"
Unclean == Window + DrainGrace  \* wrong: without the clean-up of sessions
PerLevel == Window + DrainGrace + (IF IsSession THEN SessionCleanup ELSE 0)
Need == (IF levelsLeft > 1 THEN levelsLeft ELSE 1) * PerLevel + Skew
TokenCovers(t) == tokenExp # NoExp => tokenExp - t >= Need

CoveredAtSetUp ==
  /\ step = "budget" /\ TokenCovers(now)
  /\ step' = "ready" /\ idle' = 0
  /\ slack' = IF tokenExp = NoExp THEN 0 ELSE tokenExp - now - Need
  /\ UNCHANGED <<cfg, now, discovery, unprobed, exp, tokenExp, levelsLeft, sweep, presented, withOptions>>

NotCovered == step = "budget" /\ ~TokenCovers(now) /\ Refuse

\* A request fails, is answered by an error or without the capability; or the
\* replica redirects again.
RequestFails ==
  /\ \/ step \in {"probe", "reprobe"}
     \/ step = "options" /\ ~AllProbed
  /\ Refuse

-----------------------------------------------------------------------------
(* RunLevel *)

RepoOf(i) == IF cfg.strategy = "repo" THEN Repos[(i % Len(Repos)) + 1] ELSE Repos[1]
NodeOf(i) == nodes[(i % Len(nodes)) + 1]
Agents == IF level \in DOMAIN Sweep THEN 0..(Sweep[level] - 1) ELSE {}

\* The agents are built, or one of them is not.
Build(ok) ==
  /\ step = "ready" /\ level <= Len(Sweep)
  /\ step' = IF ok THEN "arrived" ELSE "dead"
  /\ UNCHANGED <<cfg, now, discovery, unprobed, budget, sweep, idle, presented, withOptions>>

Fire ==
  /\ step = "arrived" /\ step' = "released" /\ firedAt' = now
  /\ UNCHANGED <<cfg, now, discovery, unprobed, budget, level, idle, presented, withOptions>>

\* The token is looked at again, as of the shared start.
NotCounted == levelsLeft  \* wrong: a level begun is still budgeted
OneLess == IF levelsLeft > 0 THEN levelsLeft - 1 ELSE 0

StartLevel ==
  /\ step = "released" /\ TokenCovers(firedAt)
  /\ step' = "level" /\ levelsLeft' = OneLess
  /\ presented' = presented \cup {NodeOf(i) : i \in Agents}
  /\ UNCHANGED <<cfg, now, discovery, unprobed, exp, tokenExp, slack, sweep, idle, withOptions>>

RefuseLevel ==
  /\ step = "released" /\ ~TokenCovers(firedAt) /\ step' = "dead"
  /\ UNCHANGED <<cfg, now, discovery, unprobed, budget, sweep, idle, presented, withOptions>>

\* The answer to a push is a redirect: followed within the origin on a plain
\* forge, never on Entire.
Follows(from, to) == ~IsEntire /\ to = from

PushRedirected(i, to) ==
  /\ step = "level" /\ i \in Agents /\ Follows(NodeOf(i), to)
  /\ presented' = presented \cup {to}
  /\ UNCHANGED <<cfg, step, now, discovery, unprobed, budget, sweep, idle, withOptions>>

\* The level's agents are back, not before the end of the window.
LevelReturns ==
  /\ step = "level" /\ now >= firedAt + Window
  /\ level' = level + 1 /\ step' = IF level = Len(Sweep) THEN "over" ELSE "ready"
  /\ UNCHANGED <<cfg, now, discovery, unprobed, budget, firedAt, idle, presented, withOptions>>

\* A cancelled run starts no level and cuts the one under way short.
Stop ==
  /\ step \in {"ready", "level"} /\ step' = "over"
  /\ UNCHANGED <<cfg, now, discovery, unprobed, budget, sweep, idle, presented, withOptions>>

Close ==
  /\ step \in {"over", "dead"} /\ step' = "closed"
  /\ UNCHANGED <<cfg, now, discovery, unprobed, budget, sweep, idle, presented, withOptions>>

\* A level lasts until its agents' hard deadline, and the deletion of the refs
\* of their sessions, at most (Agent's BackInTime).
Latest == firedAt + Window + DrainGrace + (IF IsSession THEN SessionCleanup ELSE 0)

TimePasses ==
  /\ \/ step = "level" /\ now < Latest /\ UNCHANGED idle
     \/ step \notin {"level"} \cup Gone /\ idle < MaxIdle /\ idle' = idle + 1
  /\ now' = now + 1
  /\ UNCHANGED <<cfg, step, discovery, unprobed, budget, sweep, presented, withOptions>>

Over == step \in {"refused", "closed"} /\ UNCHANGED vars

NewRunner == \/ Invalid \/ Generic \/ Discover \/ RequestFails
             \/ \E list \in Adverts : \/ Answered(list)
                                      \/ \E loc \in Origins : Redirected(list, loc)
                                      \/ \E present \in BOOLEAN : ReplicaAnswered(list, present)
             \/ \E pair \in unprobed : ProbeOptions(pair)
             \/ OptionsProbed \/ CoveredAtSetUp \/ NotCovered

RunLevel == \/ \E ok \in BOOLEAN : Build(ok)
            \/ Fire \/ StartLevel \/ RefuseLevel \/ LevelReturns \/ Stop
            \/ \E i \in Agents, to \in Origins : PushRedirected(i, to)

Next == NewRunner \/ RunLevel \/ Close \/ TimePasses \/ Over

Spec == Init /\ [][Next]_vars

-----------------------------------------------------------------------------
(* Properties *)

\* As long as the agents of a level may talk to the forge, in its drain and the
\* clean-up of its sessions too, the token is valid by the clock of an issuer that
\* is up to Skew ahead: no level reports the refusals of an expired token as
\* throughput.
TokenOutlivesTheLevel ==
  step = "level" /\ now <= Latest /\ IsEntire /\ exp # NoExp => now + Skew <= exp

\* Once the token was found to cover the sweep, a level is refused only if more
\* time went by between the levels than the token had to spare: what a level
\* takes has been budgeted for, for every level not yet started.
RefusalsAreDueToDelays ==
  step = "released" /\ ~TokenCovers(firedAt) => idle > slack

\* Wherever an agent pushes with push options, that node was seen to advertise
\* them for that repository: none is dropped in silence, whatever nodes and
\* repositories the agents are spread over.
OptionsWhereverPushed ==
  step = "level" /\ cfg.options => \A i \in Agents : <<NodeOf(i), RepoOf(i)>> \in withOptions

\* The credential goes to the entry host and to siblings of it that a reply named:
\* through discovery, a redirect, a second list of replicas, probes and pushes.
CredentialStaysPinned ==
  presented \subseteq {Base} \cup (IF IsEntire THEN Siblings \cap named ELSE {})
=============================================================================
