-------------------------------- MODULE Sweep --------------------------------
(***************************************************************************)
(* The sweep of stale refs before a run (internal/bench/cleanup.go), of    *)
(* one target and all its repositories, beside other processes that push   *)
(* to and delete from the same repositories.                               *)
(*                                                                         *)
(* A ref is [repo, born, n]: born is the start of the run that owns it, as *)
(* its name embeds it, or Foreign when the name has not the shape of one   *)
(* of forgemark's.  The order of the advertisement is any order.           *)
(***************************************************************************)
EXTENDS Integers, FiniteSets

CONSTANTS
  Refs,        \* the refs there can be
  StaleAfter,  \* staleAfter
  Longest,     \* the longest run Validate admits
  Refusals,    \* consecutive refusals that look like a blanket rule
  Horizon      \* bound: of the time

Foreign == -1
Repos == {r.repo : r \in Refs}
Born == {r.born : r \in Refs} \ {Foreign}
None == [repo |-> "none", born |-> Foreign, n |-> 0]

ASSUME SweepAssumption ==
  /\ StaleAfter \in Nat /\ Longest \in Nat /\ Longest <= StaleAfter
  /\ Refusals \in Nat \ {0} /\ Horizon \in Nat
  /\ IsFiniteSet(Refs) /\ None \notin Refs
  /\ \A r \in Refs : r.born \in Nat \cup {Foreign}

VARIABLES
  now,
  live,     \* the runs executing elsewhere, by their start
  remote,   \* the refs on the forge
  head,     \* each repository's default branch, or None
  pc,       \* list, select, batch, retry, done
  repo,     \* the repository being swept
  left,     \* the repositories after it
  specs,    \* the refs listed, then those to delete
  untried,  \* of the specs, those not yet retried
  refusals, \* consecutive
  deleted,  \* the count the sweep returns
  dead,     \* the context is done
  asked, refused, mine  \* history: refs selected, refused on their own, removed by the sweep

forge == <<now, live, remote, head>>
sweep == <<pc, repo, left, specs, untried, refusals, deleted>>
past  == <<asked, refused, mine>>
vars  == <<forge, sweep, dead, past>>

TypeOK ==
  /\ now \in Nat /\ live \subseteq Born /\ remote \subseteq Refs
  /\ head \in [Repos -> Refs \cup {None}]
  /\ pc \in {"list", "select", "batch", "retry", "done"}
  /\ repo \in Repos /\ left \subseteq Repos
  /\ specs \subseteq Refs /\ untried \subseteq specs
  /\ refusals \in 0..(Refusals - 1) /\ deleted \in 0..Cardinality(Refs) /\ dead \in BOOLEAN
  /\ asked \subseteq Refs /\ refused \subseteq asked /\ mine \subseteq asked

Executing(b) == b <= now /\ now <= b + Longest

Init ==
  /\ now \in 0..Horizon
  /\ live \in SUBSET {b \in Born : Executing(b)}
  /\ remote \in SUBSET {r \in Refs : r.born <= now}
  /\ head \in [Repos -> Refs \cup {None}]
  /\ \A p \in Repos : head[p] # None => head[p] \in remote /\ head[p].repo = p
  /\ pc = "list" /\ repo \in Repos /\ left = Repos \ {repo}
  /\ specs = {} /\ untried = {} /\ refusals = 0 /\ deleted = 0 /\ dead = FALSE
  /\ asked = {} /\ refused = {} /\ mine = {}

-----------------------------------------------------------------------------
(* The sweep *)

AnyAge(r) == r.born # Foreign /\ r.born < now  \* wrong: of a run that may execute
Stale(r) == r.born # Foreign /\ r.born + StaleAfter < now

\* On to the next repository; one that failed ends the sweep only if the
\* context is done.
StopAtError(failed) == failed  \* wrong: whatever the error was
Breaks(failed) == failed /\ dead

Requeued(failed) == IF failed THEN left \cup {repo} ELSE left  \* wrong: one that failed is swept again
Remaining(failed) == left

NextRepo(failed) ==
  /\ specs' = {} /\ untried' = {} /\ refusals' = 0
  /\ IF Breaks(failed) \/ Remaining(failed) = {} THEN pc' = "done" /\ UNCHANGED <<repo, left>>
     ELSE /\ pc' = "list"
          /\ \E p \in Remaining(failed) : repo' = p /\ left' = Remaining(failed) \ {p}

Candidates == {r \in remote : r.repo = repo} \ {head[repo]}

\* A repository without refs lists as none.
List ==
  /\ pc = "list" /\ ~dead
  /\ specs' = Candidates /\ pc' = "select"
  /\ UNCHANGED <<forge, repo, left, untried, refusals, deleted, dead, past>>

\* Minting the token or listing fails.
ListFails ==
  /\ pc = "list" /\ NextRepo(TRUE)
  /\ UNCHANGED <<forge, deleted, dead, past>>

\* The age is that of the moment after the listing.
Select ==
  /\ pc = "select"
  /\ LET old == {r \in specs : Stale(r)} IN
       /\ asked' = asked \cup old
       /\ IF old = {} THEN NextRepo(FALSE)
          ELSE pc' = "batch" /\ specs' = old /\ UNCHANGED <<repo, left, untried, refusals>>
  /\ UNCHANGED <<forge, deleted, dead, refused, mine>>

\* A push of deletions: the forge applies each on its own or refuses it, and the
\* sweep hears of no error only if every ref is gone.  A ref that is gone
\* already needs no deletion.
Push(these, applied, ok) ==
  /\ applied \subseteq these \cap remote
  /\ ok => applied = these \cap remote
  /\ remote' = remote \ applied
  /\ mine' = mine \cup applied

CountAll == deleted + Cardinality(specs)

Batch(applied, ok) ==
  /\ pc = "batch" /\ Push(specs, applied, ok)
  /\ IF ok
     THEN deleted' = CountAll /\ NextRepo(FALSE)
     ELSE /\ IF dead THEN NextRepo(TRUE)
             ELSE pc' = "retry" /\ untried' = specs /\ UNCHANGED <<repo, left, specs, refusals>>
          /\ UNCHANGED deleted
  /\ UNCHANGED <<now, live, head, dead, asked, refused>>

\* The refs one by one, until a run of refusals.
OneIsEnough(n) == n >= 1      \* wrong: the first refusal counts as a rule
Blanket(n) == n >= Refusals
CountTried(ok) == deleted + 1  \* wrong: refused ones too
Counted(ok) == IF ok THEN deleted + 1 ELSE deleted

Retry(r, applied, ok) ==
  /\ pc = "retry" /\ ~dead /\ r \in untried /\ Push({r}, applied, ok)
  /\ deleted' = Counted(ok)
  /\ refused' = IF ok THEN refused ELSE refused \cup {r}
  /\ LET inARow == IF ok THEN 0 ELSE refusals + 1 IN
       IF Blanket(inARow) THEN NextRepo(TRUE)
       ELSE /\ refusals' = inARow /\ untried' = untried \ {r}
            /\ UNCHANGED <<pc, repo, left, specs>>
  /\ UNCHANGED <<now, live, head, dead, asked>>

\* All were tried, or the context is done.
NoMoreTries == untried = {} \/ dead

RetriesOver ==
  /\ pc = "retry" /\ NoMoreTries
  /\ NextRepo(untried # {} \/ refused \cap specs # {})
  /\ UNCHANGED <<forge, deleted, dead, past>>

Cancel ==
  /\ pc # "done" /\ ~dead /\ dead' = TRUE
  /\ UNCHANGED <<forge, sweep, past>>

-----------------------------------------------------------------------------
(* The others *)

TimePasses ==
  /\ now < Horizon /\ now' = now + 1
  /\ live' = {b \in live : now + 1 <= b + Longest}
  /\ UNCHANGED <<remote, head, sweep, dead, past>>

RunStarts ==
  /\ now \in Born \ live /\ live' = live \cup {now}
  /\ UNCHANGED <<now, remote, head, sweep, dead, past>>

RunEnds(b) ==
  /\ b \in live /\ live' = live \ {b}
  /\ UNCHANGED <<now, remote, head, sweep, dead, past>>

\* A run, or anybody, pushes; the first branch may become the default branch.
Pushed(r) ==
  /\ r \notin remote /\ (r.born = Foreign \/ r.born \in live)
  /\ remote' = remote \cup {r}
  /\ \/ UNCHANGED head
     \/ head[r.repo] = None /\ head' = [head EXCEPT ![r.repo] = r]
  /\ UNCHANGED <<now, live, sweep, dead, past>>

\* Another sweep deletes a stale ref, or anybody one of theirs; not the default
\* branch.
DeletedElsewhere(r) ==
  /\ r \in remote /\ r # head[r.repo] /\ (Stale(r) \/ r.born = Foreign)
  /\ remote' = remote \ {r}
  /\ UNCHANGED <<now, live, head, sweep, dead, past>>

-----------------------------------------------------------------------------
Steps == \/ List \/ ListFails \/ Select \/ RetriesOver
         \/ \E ok \in BOOLEAN, applied \in SUBSET specs :
              Batch(applied, ok) \/ \E r \in untried : Retry(r, applied, ok)

World == \/ TimePasses \/ RunStarts
         \/ \E b \in live : RunEnds(b)
         \/ \E r \in Refs : Pushed(r) \/ DeletedElsewhere(r)

Over == pc = "done" /\ UNCHANGED vars

Next == Steps \/ Cancel \/ World \/ Over

\* Every request of the sweep is answered, if only by its context.
Spec == Init /\ [][Next]_vars /\ WF_vars(Steps)

-----------------------------------------------------------------------------
(* Properties *)

\* The deletion of a ref is asked for only if it is one of forgemark's, its run
\* executes nowhere any more and it is not the default branch, however long ago
\* it was listed and whatever was pushed since.
OthersAreSpared ==
  pc \in {"batch", "retry"} =>
    \A r \in specs : r.born \in Born \ live /\ r # head[r.repo]

\* A sweep that was not cancelled visits every repository: a refusal in one of
\* them leaves none of the others unswept.
EveryRepoIsSwept == pc = "done" /\ ~dead => left = {}

\* And a stale ref survives only if the forge refused that very ref, or as many
\* others of its repository as look like a blanket rule.
LeftoversWereRefused ==
  pc = "done" /\ ~dead =>
    \A r \in asked \cap remote :
      r \in refused \/ Cardinality({q \in refused : q.repo = r.repo}) >= Refusals

\* The count it reports is of refs that are gone: one the forge refused, or that
\* came back, is not among them.
CountedAreGone == deleted <= Cardinality(asked \ remote)

\* So neither what it leaves nor what it reports is more than the forge made it.
ReportIsTrue == LeftoversWereRefused /\ CountedAreGone

\* The comments of CleanStaleBenchRefs and cleanRepoRefs: it returns how many refs
\* it deleted, also if the forge protects some of them (if no answer was lost: all
\* that it took for refused are still there).
ReportsWhatWasDeleted ==
  pc = "done" /\ ~dead /\ refused \subseteq remote => deleted >= Cardinality(mine)

\* The sweep comes to an end.
SweepEnds == <>(pc = "done")
=============================================================================
