-------------------------------- MODULE Agent --------------------------------
(***************************************************************************)
(* One load-generating agent during one level (internal/bench/agent.go and *)
(* session.go): the loops of the branch (and repo), clone and session      *)
(* strategies, and the forge it talks to, as far as the refs of the        *)
(* sessions go.                                                            *)
(*                                                                         *)
(* Time is counted in ticks from the fire of the barrier.  A network       *)
(* operation takes at least one tick and a commit any number up to         *)
(* MaxCommit; the steps between them take none.  An operation whose        *)
(* context is done returns at once, having reached the forge or not.       *)
(***************************************************************************)
EXTENDS Integers

CONSTANTS
  End,         \* of the window: warm-up + duration
  DrainGrace,  \* drainGrace
  Cleanup,     \* sessionCleanupTimeout
  Drain,       \* shutdownDrain of the server
  Commits,     \* of a session: w.SessionCommits
  ResetEvery,  \* resetEvery
  MaxCommit,   \* assumed bound: what a commit takes
  MaxFaults    \* bound: local failures, of a commit or of git init

ASSUME AgentAssumption ==
  /\ End \in Nat \ {0} /\ DrainGrace \in Nat /\ Cleanup \in Nat \ {0} /\ Drain \in Nat
  /\ Commits \in Nat \ {0} /\ ResetEvery \in Nat \ {0}
  /\ MaxCommit \in Nat /\ MaxFaults \in Nat
  /\ MaxCommit <= DrainGrace /\ MaxCommit + Cleanup <= Drain

VARIABLES
  now,
  strategy,
  pc,         \* top, clone, next, commit, push, cleanup, delete, returned
  since,      \* when the operation, commit or deletion in progress began
  est,        \* a.est
  iter,       \* commits tried, of this session or of the agent
  held,       \* commits the in-memory repository holds
  session,    \* the number of the session
  pushed,     \* a push of this session is known to have succeeded
  started, recorded, cut,  \* operations begun, recorded as samples, and a.cancelled
  faults,     \* local failures so far
  cancelledAt,\* when the run was cancelled, or Never
  remote,     \* the session refs on the forge
  unacked,    \* history: those pushed by an operation reported as a failure, or cut off
  undeleted   \* history: those whose deletion failed

forge == <<remote, unacked, undeleted>>
count == <<started, recorded, cut>>
vars  == <<now, strategy, pc, since, est, iter, held, session, pushed, count, faults,
           cancelledAt, forge>>

Never == -1
Op == {"push", "clone"}
Strategy == {"branch", "clone", "session"}

TypeOK ==
  /\ now \in Nat /\ strategy \in Strategy
  /\ pc \in {"top", "clone", "next", "commit", "push", "cleanup", "delete", "returned"}
  /\ since \in Nat /\ est \in [Op -> Nat] /\ iter \in Nat /\ held \in Nat /\ session \in Nat
  /\ pushed \in BOOLEAN /\ started \in Nat /\ recorded \in Nat /\ cut \in Nat /\ faults \in 0..MaxFaults
  /\ cancelledAt \in Nat \cup {Never}
  /\ remote \subseteq Nat /\ unacked \subseteq Nat /\ undeleted \subseteq Nat

Init ==
  /\ now = 0 /\ strategy \in Strategy /\ pc = "top" /\ since = 0
  /\ est = [op \in Op |-> 0] /\ iter = 0 /\ held = 0 /\ session = 0 /\ pushed = FALSE
  /\ started = 0 /\ recorded = 0 /\ cut = 0 /\ faults = 0 /\ cancelledAt = Never
  /\ remote = {} /\ unacked = {} /\ undeleted = {}

\* The level's context: its parent cancelled, or past its hard deadline.
NoDeadline == cancelledAt # Never  \* wrong: only a cancellation stops an operation
CtxDone == cancelledAt # Never \/ now >= End + DrainGrace

\* An operation begun now is expected to finish inside the window.
Fits(op) == now + est[op] < End

\* The estimate rises at once and decays by a quarter (truncated towards zero).
Smoothed(e, d) == IF e > 0 /\ d < e THEN e - (e - d) \div 4 ELSE d

-----------------------------------------------------------------------------
(* Steps shared by the strategies *)

Begin(op) ==
  /\ pc' = op /\ since' = now /\ started' = started + 1
  /\ UNCHANGED <<recorded, cut>>

\* record: an operation that was cut off is counted instead of being recorded.
Forgotten(op) == UNCHANGED <<recorded, cut, est>>  \* wrong: dropped without a trace
CutOff(op) == cut' = cut + 1 /\ UNCHANGED <<recorded, est>>
Account(op) ==
  /\ IF CtxDone THEN CutOff(op)
     ELSE /\ recorded' = recorded + 1
          /\ est' = [est EXCEPT ![op] = Smoothed(@, now - since)]
          /\ UNCHANGED cut
  /\ UNCHANGED started

Unheeding(op) == pc = op /\ now > since /\ ~CtxDone  \* wrong: the context is not heeded
OpReturns(op) == pc = op /\ (now > since \/ CtxDone)

Return == pc' = "returned"

\* A failure before anything is sent: it is recorded, as no operation of the
\* forge, and the agent goes on.
Fault == faults < MaxFaults /\ faults' = faults + 1

-----------------------------------------------------------------------------
(* run: branch and repo *)

MayGoOn(op) == ~CtxDone /\ Fits(op)

\* Every ResetEvery commits the repository is made anew.
ResetOnce == iter = ResetEvery  \* wrong: only once
ResetDue == iter > 0 /\ iter % ResetEvery = 0

BranchTop ==
  /\ strategy = "branch" /\ pc = "top" /\ MayGoOn("push")
  /\ held' = IF ResetDue THEN 0 ELSE held
  /\ pc' = "commit" /\ since' = now
  /\ UNCHANGED <<now, strategy, est, iter, session, pushed, count, faults, cancelledAt, forge>>

ResetFails ==
  /\ strategy = "branch" /\ pc = "top" /\ MayGoOn("push") /\ ResetDue
  /\ Fault /\ iter' = iter + 1
  /\ UNCHANGED <<now, strategy, pc, since, est, held, session, pushed, count, cancelledAt, forge>>

\* The commit may have spent what was left of the window.
Unchecked(op) == TRUE  \* wrong: the window is not looked at again
StillFits(op) == Fits(op)

CommitMade ==
  /\ pc = "commit" /\ held' = held + 1
  /\ IF StillFits("push") THEN Begin("push")
     ELSE pc' = (IF strategy = "branch" THEN "returned" ELSE "cleanup") /\ UNCHANGED <<since, count>>
  /\ UNCHANGED <<now, strategy, est, iter, session, pushed, faults, cancelledAt, forge>>

CommitFails ==
  /\ pc = "commit" /\ Fault
  /\ iter' = iter + 1
  /\ pc' = IF strategy = "branch" THEN "top" ELSE "next"
  /\ UNCHANGED <<now, strategy, since, est, held, session, pushed, count, cancelledAt, forge>>

BranchPushed ==
  /\ strategy = "branch" /\ OpReturns("push") /\ Account("push")
  /\ IF CtxDone THEN Return /\ UNCHANGED iter ELSE pc' = "top" /\ iter' = iter + 1
  /\ UNCHANGED <<now, strategy, since, held, session, pushed, faults, cancelledAt, forge>>

-----------------------------------------------------------------------------
(* runClones, runSessions *)

CloneTop ==
  /\ strategy \in {"clone", "session"} /\ pc = "top" /\ MayGoOn("clone")
  /\ Begin("clone")
  /\ UNCHANGED <<now, strategy, est, iter, held, session, pushed, faults, cancelledAt, forge>>

\* The next session starts over.
NextSession == session' = session + 1 /\ iter' = 0 /\ pushed' = FALSE

Cloned(ok) ==
  /\ OpReturns("clone") /\ Account("clone")
  /\ IF CtxDone THEN Return /\ UNCHANGED <<session, iter, pushed, held>>
     ELSE IF strategy = "session" /\ ok
       THEN pc' = "next" /\ held' = 0 /\ UNCHANGED <<session, iter, pushed>>
       ELSE pc' = "top" /\ UNCHANGED held
            /\ IF strategy = "session" THEN NextSession ELSE UNCHANGED <<session, iter, pushed>>
  /\ UNCHANGED <<now, strategy, since, faults, cancelledAt, forge>>

\* The head of the commit loop of a session.
SessionNext ==
  /\ pc = "next"
  /\ pc' = IF iter < Commits /\ MayGoOn("push") THEN "commit" ELSE "cleanup"
  /\ since' = now
  /\ UNCHANGED <<now, strategy, est, iter, held, session, pushed, count, faults, cancelledAt, forge>>

\* A push lands on the forge or not and is answered or not, cut off or not; the
\* ref is known to exist only after an answer without error.
SessionPushed(landed, answered) ==
  /\ strategy = "session" /\ OpReturns("push") /\ Account("push")
  /\ answered => landed
  /\ remote' = IF landed THEN remote \cup {session} ELSE remote
  /\ unacked' = IF landed /\ ~answered THEN unacked \cup {session} ELSE unacked
  /\ pushed' = (pushed \/ answered)
  /\ IF CtxDone THEN pc' = "cleanup" /\ UNCHANGED iter ELSE pc' = "next" /\ iter' = iter + 1
  /\ UNCHANGED <<now, strategy, since, held, session, faults, cancelledAt, undeleted>>

\* The branch is abandoned: deleted if it was created, on a context of its own.
AbandonUnlessOver == pushed /\ ~CtxDone  \* wrong: a dead context deletes nothing
ToDelete == pushed

Abandon ==
  /\ pc = "cleanup"
  /\ IF ToDelete THEN pc' = "delete" /\ since' = now /\ UNCHANGED <<session, iter, pushed>>
     ELSE pc' = "top" /\ NextSession /\ UNCHANGED since
  /\ UNCHANGED <<now, strategy, est, held, count, faults, cancelledAt, forge>>

\* The deletion succeeds, or fails or times out, whatever the forge made of it.
Deleted(ok) ==
  /\ pc = "delete" /\ now > since
  /\ \/ remote' = remote \ {session} /\ UNCHANGED undeleted
     \/ ~ok /\ undeleted' = undeleted \cup {session} /\ UNCHANGED remote
  /\ pc' = "top" /\ NextSession
  /\ UNCHANGED <<now, strategy, since, est, held, count, faults, cancelledAt, unacked>>

-----------------------------------------------------------------------------
\* The loop ends: the context is done or nothing more fits.
LoopOver ==
  /\ pc = "top" /\ ~MayGoOn(IF strategy = "branch" THEN "push" ELSE "clone")
  /\ Return
  /\ UNCHANGED <<now, strategy, since, est, iter, held, session, pushed, count, faults, cancelledAt, forge>>

\* POST cancel, or a shutdown, while the level lasts.
Cancel ==
  /\ cancelledAt = Never /\ pc # "returned"
  /\ cancelledAt' = now
  /\ UNCHANGED <<now, strategy, pc, since, est, iter, held, session, pushed, count, faults, forge>>

\* Time passes in an operation until its context is done, in a commit and, up to
\* its timeout, in a deletion.
Waiting ==
  \/ pc \in Op /\ ~CtxDone
  \/ pc = "commit" /\ now < since + MaxCommit
  \/ pc = "delete" /\ now < since + Cleanup

TimePasses ==
  /\ Waiting /\ now' = now + 1
  /\ UNCHANGED <<strategy, pc, since, est, iter, held, session, pushed, count, faults, cancelledAt, forge>>

Works == \/ BranchTop \/ ResetFails \/ CommitMade \/ CommitFails \/ BranchPushed
         \/ CloneTop \/ SessionNext \/ Abandon \/ LoopOver
         \/ \E ok \in BOOLEAN : Cloned(ok) \/ Deleted(ok)
         \/ \E landed, answered \in BOOLEAN : SessionPushed(landed, answered)

Over == pc = "returned" /\ UNCHANGED vars

Next == Works \/ Cancel \/ TimePasses \/ Over

\* The agent is scheduled and time passes.
Spec == Init /\ [][Next]_vars /\ WF_vars(Works \/ TimePasses)

-----------------------------------------------------------------------------
(* Properties *)

InFlight == IF pc \in Op THEN 1 ELSE 0

\* Every operation sent to the forge is recorded or counted as cut off, exactly
\* once, and an agent is cut off at most once: what throughput leaves out shows
\* in the cancelled column.
EveryOpAccounted == started = recorded + cut + InFlight /\ cut <= 1

\* An operation was expected, when it began, to finish inside the window, so the
\* end of the window cuts nothing off that the estimate could foresee, and a
\* sample's offset is inside the window, however long building its commit took.
StartsWhatFits == pc \in Op => since + est[pc] < End

\* The agent is back DrainGrace and one ref deletion after the window at the
\* latest, as tokenCovers budgets for a level; after a cancellation in the time
\* the server's shutdown waits, a deletion just begun included.
BackInTime ==
  pc # "returned" =>
    /\ now <= End + DrainGrace + Cleanup
    /\ cancelledAt # Never => now <= cancelledAt + Drain

\* A session leaves its ref behind only if the agent was never told that it
\* exists or could not delete it, and one at most exists besides: the refs do
\* not accumulate, not even where the window or the run ends within a session.
AbandonedRefsAreGone ==
  LET known == remote \ (unacked \cup undeleted) IN
  /\ known \subseteq {session}
  /\ pc \in {"top", "returned"} => known = {}

\* Whatever goes wrong locally, an agent's repository holds the commits of one
\* generation and of one more for every reset that failed.
RepositoryBounded == strategy = "branch" => held <= ResetEvery * (1 + faults)

\* README: `session` deletes each ephemeral ref as the agent abandons it, and the
\* comments of runSessions: a push cut off by the end of the window still has its
\* ref cleaned up.  (Best effort: a failed deletion leaves one behind.)
SessionRefsDeleted == pc = "top" => remote \subseteq undeleted

\* The agent returns.
Returns == <>(pc = "returned")
=============================================================================
