---------------------------- MODULE Sweep_proofs ----------------------------
(***************************************************************************)
(* What the sweep spares, for every set of refs and repositories: proved   *)
(* from an inductive invariant about the refs listed and selected.  And    *)
(* that what it leaves was refused, and what it counts is gone.            *)
(***************************************************************************)
EXTENDS Sweep, FiniteSetTheorems, TLAPS

\* A listed ref of a run is there still, or it is stale and so cannot return.
Listed(r) == r.born # Foreign => r # head[r.repo] /\ (r \in remote \/ Stale(r))
Selected(r) == Stale(r) /\ r # head[r.repo]

IInv ==
  /\ now \in Nat
  /\ live \subseteq {b \in Born : Executing(b)}
  /\ specs \subseteq Refs /\ remote \subseteq Refs
  /\ pc = "select" => \A r \in specs : Listed(r)
  /\ pc \in {"batch", "retry"} => \A r \in specs : Selected(r)

\* A run whose refs are stale executes no longer, whatever the time.
LEMMA StaleIsOver ==
  ASSUME now \in Nat, live \subseteq {b \in Born : Executing(b)}, NEW r \in Refs, Stale(r)
  PROVE  r.born \in Born \ live
BY SweepAssumption DEF Stale, Executing, Born, Foreign

LEMMA InitInv == Init => IInv
BY SweepAssumption DEF Init, IInv, Born, Executing

\* The time and the set of runs only ever make more refs stale.
LEMMA TimeInv == IInv /\ (TimePasses \/ RunStarts \/ (\E b \in live : RunEnds(b))) => IInv'
<1> SUFFICES ASSUME IInv, TimePasses \/ RunStarts \/ (\E b \in live : RunEnds(b)) PROVE IInv'
  OBVIOUS
<1>1. now' \in Nat /\ now <= now' /\ UNCHANGED <<remote, head, pc, specs>>
  BY DEF IInv, TimePasses, RunStarts, RunEnds, sweep
<1>2. live' \subseteq {b \in Born : b <= now' /\ now' <= b + Longest}
  <2>1. CASE TimePasses
    BY <2>1, SweepAssumption DEF IInv, TimePasses, Executing, Born, Foreign
  <2>2. CASE RunStarts
    BY <2>2, SweepAssumption DEF IInv, RunStarts, Executing, Born, Foreign
  <2>3. CASE \E b \in live : RunEnds(b)
    BY <2>3 DEF IInv, RunEnds, Executing
  <2> QED BY <2>1, <2>2, <2>3
<1>3. \A r \in Refs : Stale(r) => Stale(r)'
  BY <1>1, SweepAssumption DEF IInv, Stale, Foreign
<1> QED BY <1>1, <1>2, <1>3 DEF IInv, Executing, Listed, Selected

\* A ref that is pushed is not stale: it is none of those selected.
LEMMA PushedInv == ASSUME NEW r \in Refs, IInv, Pushed(r) PROVE IInv'
<1>1. UNCHANGED <<now, live, pc, specs>> /\ r \notin remote /\ remote' = remote \cup {r}
  BY DEF Pushed, sweep
<1>2. ~Stale(r)
  BY SweepAssumption DEF IInv, Pushed, Stale, Executing, Foreign
<1>3. \A q \in Refs : q # r /\ q # head[q.repo] => q # head'[q.repo]
  <2> SUFFICES ASSUME NEW q \in Refs, q # r, q # head[q.repo] PROVE q # head'[q.repo]
    OBVIOUS
  <2>1. CASE UNCHANGED head
    BY <2>1
  <2>2. CASE head' = [head EXCEPT ![r.repo] = r]
    BY <2>2
  <2> QED BY <2>1, <2>2 DEF Pushed
<1>4. \A q \in Refs : Stale(q)' <=> Stale(q)
  BY <1>1 DEF Stale
<1>5. pc' = "select" => \A q \in specs' : Listed(q)'
  <2> SUFFICES ASSUME pc = "select", NEW q \in specs, q.born # Foreign
               PROVE q # head'[q.repo] /\ (q \in remote' \/ Stale(q)')
    BY <1>1 DEF Listed
  <2>1. q \in Refs /\ q # head[q.repo] /\ (q \in remote \/ Stale(q))
    BY DEF IInv, Listed
  <2> QED BY <1>1, <1>2, <1>3, <1>4, <2>1
<1>6. pc' \in {"batch", "retry"} => \A q \in specs' : Selected(q)'
  BY <1>1, <1>2, <1>3, <1>4 DEF IInv, Selected
<1> QED BY <1>1, <1>5, <1>6 DEF IInv, Executing

LEMMA DeletedInv == ASSUME NEW r \in Refs, IInv, DeletedElsewhere(r) PROVE IInv'
<1>1. /\ UNCHANGED <<now, live, head, pc, specs>>
      /\ remote' = remote \ {r} /\ (Stale(r) \/ r.born = Foreign)
  BY DEF DeletedElsewhere, sweep
<1>2. \A q \in Refs : (Stale(q)' <=> Stale(q)) /\ (Listed(q) => Listed(q)') /\ (Selected(q) => Selected(q)')
  BY <1>1 DEF Stale, Listed, Selected
<1> QED BY <1>1, <1>2 DEF IInv, Executing

\* The sweep itself: what it lists is not the default branch, what it selects is stale.
LEMMA StepsInv == IInv /\ (Steps \/ Cancel) => IInv'
<1> SUFFICES ASSUME IInv, Steps \/ Cancel PROVE IInv'
  OBVIOUS
<1>0. UNCHANGED <<now, live, head>>
  BY DEF Steps, Cancel, List, ListFails, Select, RetriesOver, Batch, Retry, forge
<1>1. now' \in Nat /\ live' \subseteq {b \in Born : Executing(b)'} /\ remote' \subseteq Refs
  <2>1. now' \in Nat /\ live' \subseteq {b \in Born : Executing(b)'}
    BY <1>0 DEF IInv, Executing
  <2>2. remote' \subseteq remote
    BY DEF Steps, Cancel, List, ListFails, Select, RetriesOver, Batch, Retry, Push, forge
  <2> QED BY <2>1, <2>2 DEF IInv
<1>2. \A r \in Refs : (Stale(r)' <=> Stale(r)) /\ (Selected(r)' <=> Selected(r))
  BY <1>0 DEF Stale, Selected
<1>3. ASSUME NEW failed, NextRepo(failed) PROVE specs' = {} /\ pc' \in {"list", "done"}
  BY <1>3 DEF NextRepo
<1>a. ASSUME specs' = {}, pc' \in {"list", "done"} PROVE IInv'
  BY <1>1, <1>a DEF IInv
<1>b. ASSUME specs' = specs, pc \in {"batch", "retry"}, pc' \in {"batch", "retry"} PROVE IInv'
  BY <1>1, <1>2, <1>b DEF IInv
<1>4. CASE List
  <2>1. pc' = "select" /\ specs' = Candidates /\ remote' = remote
    BY <1>4 DEF List, forge
  <2>2. specs' \subseteq Refs /\ \A r \in specs' : Listed(r)'
    BY <1>0, <2>1 DEF Candidates, Listed, IInv
  <2> QED BY <1>1, <2>1, <2>2 DEF IInv
<1>5. CASE ListFails
  BY <1>5, <1>3, <1>a DEF ListFails
<1>6. CASE Select
  <2> DEFINE old == {r \in specs : Stale(r)}
  <2>1. CASE old = {}
    BY <1>6, <2>1, <1>3, <1>a DEF Select
  <2>2. CASE old # {}
    <3>1. pc = "select" /\ pc' = "batch" /\ specs' = old
      BY <1>6, <2>2 DEF Select
    <3>2. \A r \in old : r \in Refs /\ Selected(r)
      BY <3>1 DEF IInv, Listed, Selected, Stale
    <3> QED BY <1>1, <1>2, <3>1, <3>2 DEF IInv
  <2> QED BY <2>1, <2>2
<1>7. CASE RetriesOver
  BY <1>7, <1>3, <1>a DEF RetriesOver
<1>8. ASSUME NEW ok \in BOOLEAN, NEW applied \in SUBSET specs, Batch(applied, ok) PROVE IInv'
  BY <1>8, <1>3, <1>a, <1>b DEF Batch
<1>9. ASSUME NEW ok \in BOOLEAN, NEW applied \in SUBSET specs, NEW r \in untried, Retry(r, applied, ok)
      PROVE IInv'
  BY <1>9, <1>3, <1>a, <1>b DEF Retry
<1>10. CASE Cancel
  <2>1. UNCHANGED <<remote, pc, specs>>
    BY <1>10 DEF Cancel, forge, sweep
  <2> QED BY <1>0, <1>1, <1>2, <2>1 DEF IInv, Listed
<1> QED BY <1>4, <1>5, <1>6, <1>7, <1>8, <1>9, <1>10 DEF Steps

LEMMA Inductive == Spec => []IInv
<1>1. IInv /\ [Next]_vars => IInv'
  <2>1. IInv /\ UNCHANGED vars => IInv'
    BY DEF IInv, vars, forge, sweep, Executing, Listed, Selected, Stale
  <2> QED BY <2>1, TimeInv, PushedInv, DeletedInv, StepsInv DEF Next, World, Over
<1> QED BY <1>1, InitInv, PTL DEF Spec

\* No ref of a run that executes, of anybody else or of the default branch is
\* ever asked to be deleted.
THEOREM SparedSafe == Spec => []OthersAreSpared
<1>1. IInv => OthersAreSpared
  <2> SUFFICES ASSUME IInv, pc \in {"batch", "retry"}, NEW r \in specs
               PROVE r.born \in Born \ live /\ r # head[r.repo]
    BY DEF OthersAreSpared
  <2>1. r \in Refs /\ Selected(r)
    BY DEF IInv
  <2> QED BY <2>1, StaleIsOver DEF IInv, Selected
<1> QED BY <1>1, Inductive, PTL

\* A refusal in one repository leaves no other unswept.
THEOREM SweptSafe == Spec => []EveryRepoIsSwept
<1>1. Init => EveryRepoIsSwept
  BY DEF Init, EveryRepoIsSwept
<1>2. EveryRepoIsSwept /\ [Next]_vars => EveryRepoIsSwept'
  <2> SUFFICES ASSUME EveryRepoIsSwept, [Next]_vars PROVE EveryRepoIsSwept'
    OBVIOUS
  <2>1. ASSUME NEW failed, NextRepo(failed), dead' = dead PROVE EveryRepoIsSwept'
    BY <2>1 DEF NextRepo, Remaining, Breaks, EveryRepoIsSwept
  <2>2. ASSUME UNCHANGED <<pc, left, dead>> PROVE EveryRepoIsSwept'
    BY <2>2 DEF EveryRepoIsSwept
  <2>3. ASSUME pc' \in {"select", "batch", "retry"} PROVE EveryRepoIsSwept'
    BY <2>3 DEF EveryRepoIsSwept
  <2>4. CASE Steps
    <3>1. CASE List \/ ListFails \/ Select \/ RetriesOver
      BY <3>1, <2>1, <2>3 DEF List, ListFails, Select, RetriesOver
    <3>2. ASSUME NEW ok \in BOOLEAN, NEW applied \in SUBSET specs, Batch(applied, ok)
          PROVE EveryRepoIsSwept'
      BY <3>2, <2>1, <2>3 DEF Batch
    <3>3. ASSUME NEW ok \in BOOLEAN, NEW applied \in SUBSET specs, NEW r \in untried,
                 Retry(r, applied, ok)
          PROVE EveryRepoIsSwept'
      BY <3>3, <2>1, <2>2 DEF Retry
    <3> QED BY <2>4, <3>1, <3>2, <3>3 DEF Steps
  <2>5. CASE Cancel
    BY <2>5 DEF Cancel, EveryRepoIsSwept
  <2>6. CASE World \/ UNCHANGED vars
    BY <2>6, <2>2 DEF World, TimePasses, RunStarts, RunEnds, Pushed, DeletedElsewhere, sweep, vars
  <2> QED BY <2>4, <2>5, <2>6 DEF Next, Over
<1> QED BY <1>1, <1>2, PTL DEF Spec

-----------------------------------------------------------------------------
(* The report *)

\* The refs asked for that the sweep has neither deleted nor given up.
Pending == IF pc = "batch" THEN specs ELSE IF pc = "retry" THEN untried ELSE {}

RefusedIn(p) == {q \in refused : q.repo = p}
Excused(r) == r \in refused \/ Cardinality(RefusedIn(r.repo)) >= Refusals

\* The repositories are swept one after the other.
InOrder ==
  /\ repo \notin left
  /\ \A r \in asked : r.repo \notin left
  /\ pc \in {"list", "select"} => \A r \in asked : r.repo # repo

\* All refs at hand are of the repository being swept, and asked for once selected.
AtHand ==
  /\ \A r \in specs : r.repo = repo
  /\ pc \in {"batch", "retry"} => specs \subseteq asked
  /\ untried \subseteq specs /\ (pc # "retry" => untried = {})

\* What was asked for is stale, and so does not come back once it is gone.
Asked ==
  /\ asked \subseteq Refs
  /\ refused \subseteq asked \ Pending
  /\ \A r \in asked : Stale(r)

RefusalsSeen == refusals \in Nat /\ refusals <= Cardinality(RefusedIn(repo))
DoneOrExcused == ~dead => \A r \in (asked \cap remote) \ Pending : Excused(r)
GoneAreMore == deleted \in Nat /\ deleted <= Cardinality((asked \ Pending) \ remote)

RInv == IInv /\ InOrder /\ AtHand /\ Asked /\ RefusalsSeen /\ DoneOrExcused /\ GoneAreMore

LEMMA FinitelyMany == ASSUME NEW S \in SUBSET Refs PROVE IsFiniteSet(S) /\ Cardinality(S) \in Nat
BY SweepAssumption, FS_Subset, FS_CardinalityType

\* What is refused stays refused: an excuse does not lapse.
LEMMA ExcuseLasts ==
  ASSUME refused \subseteq refused', refused' \subseteq Refs
  PROVE  /\ \A p : Cardinality(RefusedIn(p)) <= Cardinality(RefusedIn(p)')
         /\ \A r : Excused(r) => Excused(r)'
<1>1. ASSUME NEW p PROVE Cardinality(RefusedIn(p)) <= Cardinality(RefusedIn(p)')
  <2>1. RefusedIn(p)' \in SUBSET Refs /\ RefusedIn(p) \in SUBSET (RefusedIn(p)')
    BY DEF RefusedIn
  <2>2. IsFiniteSet(RefusedIn(p)')
    BY <2>1, FinitelyMany
  <2> QED BY <2>1, <2>2, FS_Subset
<1>2. ASSUME NEW r, Excused(r) PROVE Excused(r)'
  <2>1. CASE r \in refused
    BY <2>1 DEF Excused
  <2>2. CASE Cardinality(RefusedIn(r.repo)) >= Refusals
    <3>1. RefusedIn(r.repo) \in SUBSET Refs /\ RefusedIn(r.repo)' \in SUBSET Refs
      BY DEF RefusedIn
    <3>2. /\ Cardinality(RefusedIn(r.repo)) \in Nat
          /\ Cardinality(RefusedIn(r.repo)') \in Nat
      BY <3>1, FinitelyMany
    <3>3. Cardinality(RefusedIn(r.repo)') >= Refusals
      BY <1>1, <2>2, <3>2, SweepAssumption
    <3> QED BY <3>3 DEF Excused
  <2> QED BY <1>2, <2>1, <2>2 DEF Excused
<1> QED BY <1>1, <1>2

LEMMA RInit == Init => RInv
<1> SUFFICES ASSUME Init PROVE RInv
  OBVIOUS
<1>1. IsFiniteSet({}) /\ Cardinality({}) = 0
  BY FS_EmptySet
<1>2. (asked \ Pending) \ remote = {} /\ RefusedIn(repo) = {}
  BY DEF Init, RefusedIn
<1>3. RefusalsSeen /\ GoneAreMore
  BY <1>1, <1>2 DEF Init, RefusalsSeen, GoneAreMore
<1>4. InOrder /\ AtHand /\ Asked /\ DoneOrExcused
  BY DEF Init, InOrder, AtHand, Asked, DoneOrExcused, Pending
<1> QED BY <1>3, <1>4, InitInv DEF RInv

\* A step that leaves the sweep alone and brings back nothing it asked for.
LEMMA RStays ==
  ASSUME RInv, IInv', UNCHANGED <<sweep, past>>, dead => dead',
         asked \cap remote' \subseteq remote, \A r \in asked : Stale(r)'
  PROVE  RInv'
<1>1. UNCHANGED <<pc, repo, left, specs, untried, refusals, deleted, asked, refused>>
  BY DEF sweep, past
<1>2. Pending' = Pending /\ \A p : RefusedIn(p)' = RefusedIn(p)
  BY <1>1 DEF Pending, RefusedIn
<1>3. InOrder' /\ AtHand' /\ Asked' /\ RefusalsSeen'
  BY <1>1, <1>2 DEF RInv, InOrder, AtHand, Asked, RefusalsSeen
<1>4. \A r : Excused(r)' <=> Excused(r)
  BY <1>1, <1>2 DEF Excused
<1>5. DoneOrExcused'
  BY <1>1, <1>2, <1>4 DEF RInv, DoneOrExcused
<1>6. GoneAreMore'
  <2> DEFINE was == (asked \ Pending) \ remote
             is  == (asked \ Pending) \ remote'
  <2>1. was \in SUBSET is /\ was \in SUBSET Refs /\ is \in SUBSET Refs
    BY DEF RInv, Asked
  <2>2. Cardinality(was) <= Cardinality(is) /\ Cardinality(was) \in Nat /\ Cardinality(is) \in Nat
    BY <2>1, FinitelyMany, FS_Subset
  <2>3. deleted \in Nat /\ deleted <= Cardinality(was)
    BY DEF RInv, GoneAreMore
  <2>4. deleted' = deleted /\ ((asked \ Pending) \ remote)' = is
    BY <1>1, <1>2
  <2> HIDE DEF was, is
  <2>5. deleted <= Cardinality(is)
    BY <2>2, <2>3
  <2> QED BY <2>3, <2>4, <2>5 DEF GoneAreMore
<1> QED BY <1>3, <1>5, <1>6 DEF RInv

\* The end of a repository, with what the step leading to it has to show.
LEMMA RNextRepo ==
  ASSUME RInv, IInv', NEW failed, NextRepo(failed), UNCHANGED <<now, asked, dead>>,
         refused \subseteq refused', refused' \subseteq asked,
         ~dead => \A r \in asked \cap remote' : Excused(r)',
         deleted' \in Nat, deleted' <= Cardinality(asked \ remote')
  PROVE  RInv'
<1>1. specs' = {} /\ untried' = {} /\ refusals' = 0
  BY DEF NextRepo
<1>2. \/ pc' = "done" /\ UNCHANGED <<repo, left>>
      \/ pc' = "list" /\ repo' \in left /\ left' = left \ {repo'}
  BY DEF NextRepo, Remaining
<1>3. Pending' = {}
  BY <1>2 DEF Pending
<1>4. InOrder' /\ AtHand'
  BY <1>1, <1>2 DEF RInv, InOrder, AtHand
<1>5. Asked'
  BY <1>3 DEF RInv, Asked, Stale
<1>6. RefusalsSeen'
  <2>1. RefusedIn(repo)' \in SUBSET Refs
    BY <1>5 DEF Asked, RefusedIn
  <2>2. Cardinality(RefusedIn(repo)') \in Nat
    BY <2>1, FinitelyMany
  <2> QED BY <1>1, <2>2 DEF RefusalsSeen
<1>7. DoneOrExcused' /\ GoneAreMore'
  BY <1>3 DEF DoneOrExcused, GoneAreMore
<1> QED BY <1>4, <1>5, <1>6, <1>7 DEF RInv

\* What the sweep has removed only ever grows.
LEMMA GoneGrow ==
  ASSUME NEW S \in SUBSET Refs, NEW T \in SUBSET Refs, S \subseteq T
  PROVE  Cardinality(S) <= Cardinality(T) /\ Cardinality(S) \in Nat /\ Cardinality(T) \in Nat
BY FinitelyMany, FS_Subset

LEMMA RSelect == RInv /\ IInv' /\ Select => RInv'
<1> SUFFICES ASSUME RInv, IInv', Select PROVE RInv'
  OBVIOUS
<1> DEFINE old == {r \in specs : Stale(r)}
<1>1. /\ pc = "select" /\ asked' = asked \cup old
      /\ UNCHANGED <<now, remote, deleted, dead, refused>> /\ Pending = {}
  BY DEF Select, forge, Pending
<1>2. deleted \in Nat /\ deleted <= Cardinality(asked \ remote)
  BY <1>1 DEF RInv, GoneAreMore
<1>3. \A r : Excused(r)' <=> Excused(r)
  BY <1>1 DEF Excused, RefusedIn
<1>4. CASE old = {}
  <2>1. asked' = asked /\ NextRepo(FALSE)
    BY <1>1, <1>4 DEF Select
  <2>2. ~dead => \A r \in asked \cap remote' : Excused(r)'
    BY <1>1, <1>3 DEF RInv, DoneOrExcused
  <2>3. refused \subseteq refused' /\ refused' \subseteq asked
    BY <1>1 DEF RInv, Asked
  <2> QED BY <1>1, <1>2, <2>1, <2>2, <2>3, RNextRepo
<1>5. CASE old # {}
  <2>1. pc' = "batch" /\ specs' = old /\ UNCHANGED <<repo, left, untried, refusals>>
    BY <1>5 DEF Select
  <2>2. Pending' = old
    BY <2>1 DEF Pending
  <2>3. old \in SUBSET Refs /\ old \cap asked = {} /\ asked' \ old = asked
    BY <1>1 DEF RInv, IInv, AtHand, InOrder
  <2>4. InOrder'
    BY <1>1, <2>1 DEF RInv, InOrder, AtHand
  <2>5. AtHand'
    BY <1>1, <2>1 DEF RInv, AtHand
  <2>6. Asked'
    <3>1. asked' \subseteq Refs /\ refused' \subseteq asked' \ Pending'
      BY <1>1, <2>2, <2>3 DEF RInv, Asked
    <3>2. \A r \in asked' : Stale(r)'
      BY <1>1 DEF RInv, Asked, Stale
    <3> QED BY <3>1, <3>2 DEF Asked
  <2>7. RefusalsSeen'
    BY <1>1, <2>1 DEF RInv, RefusalsSeen, RefusedIn
  <2>8. DoneOrExcused' /\ GoneAreMore'
    <3>1. (asked \ Pending)' = asked
      BY <2>2, <2>3
    <3>2. ~dead => \A r \in asked \cap remote : Excused(r)
      BY <1>1 DEF RInv, DoneOrExcused
    <3> QED BY <1>1, <1>2, <1>3, <3>1, <3>2 DEF DoneOrExcused, GoneAreMore
  <2> QED BY <2>4, <2>5, <2>6, <2>7, <2>8 DEF RInv
<1> QED BY <1>4, <1>5

\* A push that heard no error leaves none of its refs on the forge: all may be counted.
LEMMA RBatch ==
  ASSUME NEW ok \in BOOLEAN, NEW applied \in SUBSET specs, RInv, IInv', Batch(applied, ok)
  PROVE  RInv'
<1>1. /\ pc = "batch" /\ UNCHANGED <<now, dead, asked, refused>>
      /\ Pending = specs /\ specs \in SUBSET asked /\ asked \in SUBSET Refs
      /\ refused \subseteq asked /\ refused \cap specs = {}
  BY DEF Batch, Pending, RInv, AtHand, Asked
<1>2. remote' = remote \ applied /\ applied \subseteq specs \cap remote /\ (ok => applied = specs \cap remote)
  BY DEF Batch, Push
<1>3. \A r : Excused(r)' <=> Excused(r)
  BY <1>1 DEF Excused, RefusedIn
<1>4. ~dead => \A r \in (asked \cap remote') \ specs : Excused(r)'
  BY <1>1, <1>2, <1>3 DEF RInv, DoneOrExcused
<1> DEFINE was == (asked \ specs) \ remote
           others == (asked \ specs) \ remote'
           gone == asked \ remote'
<1>5. deleted \in Nat /\ deleted <= Cardinality(was)
  BY <1>1 DEF RInv, GoneAreMore
<1>6. /\ was \in SUBSET others /\ others \in SUBSET gone
      /\ was \in SUBSET Refs /\ others \in SUBSET Refs /\ gone \in SUBSET Refs
  BY <1>1, <1>2
<1>7. /\ Cardinality(was) <= Cardinality(others) /\ Cardinality(others) <= Cardinality(gone)
      /\ Cardinality(was) \in Nat /\ Cardinality(others) \in Nat /\ Cardinality(gone) \in Nat
  BY <1>6, GoneGrow
<1>8. CASE ok
  <2>1. deleted' = CountAll /\ NextRepo(FALSE)
    BY <1>8 DEF Batch
  <2>2. was \cup specs = gone /\ was \cap specs = {}
    BY <1>1, <1>2, <1>8
  <2>3. /\ IsFiniteSet(was) /\ IsFiniteSet(specs) /\ Cardinality(specs) \in Nat
        /\ Cardinality(was \cap specs) = 0
    BY <1>1, <1>6, <2>2, FinitelyMany, FS_EmptySet
  <2> HIDE DEF was, gone
  <2>4. Cardinality(was \cup specs) = Cardinality(was) + Cardinality(specs) - Cardinality(was \cap specs)
    BY <2>3, FS_Union
  <2>5. Cardinality(gone) = Cardinality(was) + Cardinality(specs)
    <3>1. Cardinality(gone) = Cardinality(was \cup specs)
      BY <2>2
    <3> QED BY <1>7, <2>3, <2>4, <3>1
  <2>6. deleted' \in Nat /\ deleted' <= Cardinality(gone)
    BY <1>5, <1>7, <2>1, <2>3, <2>5 DEF CountAll
  <2>7. ~dead => \A r \in asked \cap remote' : Excused(r)'
    BY <1>1, <1>2, <1>4, <1>8
  <2> QED BY <1>1, <2>1, <2>6, <2>7, RNextRepo DEF gone
<1>9. CASE ~ok /\ dead
  <2>1. deleted' = deleted /\ NextRepo(TRUE)
    BY <1>9 DEF Batch
  <2> HIDE DEF was, others, gone
  <2>2. deleted' \in Nat /\ deleted' <= Cardinality(gone)
    BY <1>5, <1>7, <2>1
  <2> QED BY <1>1, <1>9, <2>1, <2>2, RNextRepo DEF gone
<1>10. CASE ~ok /\ ~dead
  <2>1. /\ pc' = "retry" /\ untried' = specs
        /\ UNCHANGED <<repo, left, specs, refusals, deleted>>
    BY <1>10 DEF Batch
  <2>2. Pending' = specs
    BY <2>1 DEF Pending
  <2>3. InOrder' /\ AtHand'
    BY <1>1, <2>1 DEF RInv, InOrder, AtHand
  <2>4. Asked'
    BY <1>1, <2>2 DEF RInv, Asked, Stale
  <2>5. RefusalsSeen'
    BY <1>1, <2>1 DEF RInv, RefusalsSeen, RefusedIn
  <2>6. DoneOrExcused'
    BY <1>1, <1>4, <2>2 DEF DoneOrExcused
  <2>7. GoneAreMore'
    <3>1. ((asked \ Pending) \ remote)' = others
      BY <1>1, <2>2
    <3> HIDE DEF was, others
    <3> QED BY <1>5, <1>7, <2>1, <3>1 DEF GoneAreMore
  <2> QED BY <2>3, <2>4, <2>5, <2>6, <2>7 DEF RInv
<1> QED BY <1>8, <1>9, <1>10

\* One ref: it is gone and counted, or refused; a run of refusals excuses the others
\* of its repository.
LEMMA RRetry ==
  ASSUME NEW ok \in BOOLEAN, NEW applied \in SUBSET specs, NEW r \in untried,
         RInv, IInv', Retry(r, applied, ok)
  PROVE  RInv'
<1>1. /\ pc = "retry" /\ ~dead /\ UNCHANGED <<now, dead, asked>>
      /\ Pending = untried /\ untried \in SUBSET specs /\ specs \in SUBSET asked
      /\ asked \in SUBSET Refs /\ r.repo = repo
      /\ refused \subseteq asked \ untried
  BY DEF Retry, Pending, RInv, AtHand, Asked
<1>2. /\ remote' = remote \ applied /\ applied \subseteq {r} \cap remote
      /\ (ok => applied = {r} \cap remote)
      /\ deleted' = Counted(ok) /\ refused' = IF ok THEN refused ELSE refused \cup {r}
  BY DEF Retry, Push
<1>3. refused \subseteq refused' /\ refused' \subseteq asked \ (untried \ {r})
  BY <1>1, <1>2
<1>4. /\ \A p : Cardinality(RefusedIn(p)) <= Cardinality(RefusedIn(p)')
      /\ \A q : Excused(q) => Excused(q)'
  BY <1>1, <1>3, ExcuseLasts
<1>5. \A q \in (asked \cap remote') \ (untried \ {r}) : Excused(q)'
  <2>1. \A q \in (asked \cap remote') \ untried : Excused(q)'
    BY <1>1, <1>2, <1>4 DEF RInv, DoneOrExcused
  <2>2. r \in remote' => Excused(r)'
    BY <1>1, <1>2 DEF Excused
  <2> QED BY <2>1, <2>2
<1> DEFINE was == (asked \ untried) \ remote
           is == (asked \ (untried \ {r})) \ remote'
           gone == asked \ remote'
           n == IF ok THEN 0 ELSE refusals + 1
<1>6. deleted \in Nat /\ deleted <= Cardinality(was)
  BY <1>1 DEF RInv, GoneAreMore
<1>7. /\ was \in SUBSET is /\ is \in SUBSET gone
      /\ was \in SUBSET Refs /\ is \in SUBSET Refs /\ gone \in SUBSET Refs
  BY <1>1, <1>2
<1>8. /\ Cardinality(was) <= Cardinality(is) /\ Cardinality(is) <= Cardinality(gone)
      /\ Cardinality(was) \in Nat /\ Cardinality(is) \in Nat /\ Cardinality(gone) \in Nat
      /\ IsFiniteSet(was)
  BY <1>7, GoneGrow, FinitelyMany
<1>9. deleted' \in Nat /\ deleted' <= Cardinality(is)
  <2>1. CASE ok
    <3>1. r \notin was /\ was \cup {r} \in SUBSET is
      BY <1>1, <1>2, <2>1
    <3>2. is \in SUBSET Refs
      BY <1>7
    <3> HIDE DEF was, is
    <3>3. Cardinality(was \cup {r}) = Cardinality(was) + 1
      BY <1>8, <3>1, FS_AddElement
    <3>4. Cardinality(was \cup {r}) <= Cardinality(is)
      BY <3>1, <3>2, GoneGrow
    <3> QED BY <1>2, <1>6, <1>8, <2>1, <3>3, <3>4 DEF Counted
  <2>2. CASE ~ok
    <3> HIDE DEF was, is
    <3> QED BY <1>2, <1>6, <1>8, <2>2 DEF Counted
  <2> QED BY <2>1, <2>2
<1> DEFINE here == {q \in refused' : q.repo = repo}
<1>10. n \in Nat /\ n <= Cardinality(here) /\ Cardinality(here) \in Nat
  <2>1. RefusedIn(repo) \in SUBSET Refs /\ here \in SUBSET Refs
    BY <1>1, <1>3 DEF RefusedIn
  <2>2. /\ IsFiniteSet(RefusedIn(repo)) /\ Cardinality(RefusedIn(repo)) \in Nat
        /\ Cardinality(here) \in Nat
    BY <2>1, FinitelyMany
  <2>3. refusals \in Nat /\ refusals <= Cardinality(RefusedIn(repo))
    BY DEF RInv, RefusalsSeen
  <2>4. CASE ok
    <3> HIDE DEF here
    <3> QED BY <2>2, <2>4
  <2>5. CASE ~ok
    <3>1. here = RefusedIn(repo) \cup {r} /\ r \notin RefusedIn(repo)
      BY <1>1, <1>2, <2>5 DEF RefusedIn
    <3> HIDE DEF here
    <3>2. Cardinality(here) = Cardinality(RefusedIn(repo) \cup {r})
      BY <3>1
    <3>3. Cardinality(here) = Cardinality(RefusedIn(repo)) + 1
      BY <2>2, <3>1, <3>2, FS_AddElement
    <3> QED BY <2>2, <2>3, <2>5, <3>3
  <2> QED BY <2>4, <2>5
<1>11. CASE Blanket(n)
  <2>1. NextRepo(TRUE)
    BY <1>11 DEF Retry
  <2>2. \A q \in untried : Excused(q)'
    <3>1. Cardinality(here) >= Refusals
      <4> HIDE DEF here
      <4> QED BY <1>10, <1>11, SweepAssumption DEF Blanket
    <3>2. \A q \in untried : {u \in refused' : u.repo = q.repo} = here
      BY <1>1 DEF RInv, AtHand
    <3>3. \A q \in untried : Cardinality({u \in refused' : u.repo = q.repo}) >= Refusals
      BY <3>1, <3>2
    <3> QED BY <3>3 DEF Excused, RefusedIn
  <2>3. \A q \in asked \cap remote' : Excused(q)'
    BY <1>5, <2>2
  <2>4. deleted' \in Nat /\ deleted' <= Cardinality(gone)
    <3> HIDE DEF is, gone
    <3> QED BY <1>8, <1>9
  <2> QED BY <1>1, <1>3, <2>1, <2>3, <2>4, RNextRepo DEF gone
<1>12. CASE ~Blanket(n)
  <2>1. refusals' = n /\ untried' = untried \ {r} /\ UNCHANGED <<pc, repo, left, specs>>
    BY <1>12 DEF Retry
  <2>2. Pending' = untried \ {r}
    BY <1>1, <2>1 DEF Pending
  <2>3. InOrder' /\ AtHand'
    BY <1>1, <2>1 DEF RInv, InOrder, AtHand
  <2>4. Asked'
    BY <1>1, <1>3, <2>2 DEF RInv, Asked, Stale
  <2>5. RefusalsSeen'
    <3>1. RefusedIn(repo)' = here
      BY <2>1 DEF RefusedIn
    <3> HIDE DEF here
    <3> QED BY <1>10, <2>1, <3>1 DEF RefusalsSeen
  <2>6. DoneOrExcused'
    BY <1>1, <1>5, <2>2 DEF DoneOrExcused
  <2>7. GoneAreMore'
    <3>1. ((asked \ Pending) \ remote)' = is
      BY <1>1, <2>2
    <3> HIDE DEF is
    <3> QED BY <1>9, <3>1 DEF GoneAreMore
  <2> QED BY <2>3, <2>4, <2>5, <2>6, <2>7 DEF RInv
<1> QED BY <1>11, <1>12

LEMMA RSteps == RInv /\ IInv' /\ (Steps \/ Cancel) => RInv'
<1> SUFFICES ASSUME RInv, IInv', Steps \/ Cancel PROVE RInv'
  OBVIOUS
<1>1. CASE List
  <2>1. /\ pc = "list" /\ pc' = "select" /\ specs' = Candidates
        /\ UNCHANGED <<now, remote, repo, left, untried, refusals, deleted, dead, asked, refused>>
    BY <1>1 DEF List, forge, past
  <2>2. Pending = {} /\ Pending' = {}
    BY <2>1 DEF Pending
  <2>3. InOrder' /\ AtHand'
    BY <2>1 DEF RInv, InOrder, AtHand, Candidates
  <2>4. Asked' /\ RefusalsSeen' /\ GoneAreMore'
    BY <2>1, <2>2 DEF RInv, Asked, Stale, RefusalsSeen, RefusedIn, GoneAreMore
  <2>5. DoneOrExcused'
    BY <2>1, <2>2 DEF RInv, DoneOrExcused, Excused, RefusedIn
  <2> QED BY <2>3, <2>4, <2>5 DEF RInv
<1>2. CASE ListFails
  <2>1. pc = "list" /\ NextRepo(TRUE) /\ UNCHANGED <<now, remote, deleted, dead, asked, refused>>
    BY <1>2 DEF ListFails, forge, past
  <2>2. Pending = {} /\ (\A r : Excused(r)' <=> Excused(r))
    BY <2>1 DEF Pending, Excused, RefusedIn
  <2>3. /\ ~dead => \A r \in asked \cap remote' : Excused(r)'
        /\ deleted' \in Nat /\ deleted' <= Cardinality(asked \ remote')
        /\ refused \subseteq refused' /\ refused' \subseteq asked
    BY <2>1, <2>2 DEF RInv, DoneOrExcused, GoneAreMore, Asked
  <2> QED BY <2>1, <2>3, RNextRepo
<1>3. CASE RetriesOver
  <2> DEFINE failed == untried # {} \/ refused \cap specs # {}
  <2>1. /\ pc = "retry" /\ NoMoreTries /\ NextRepo(failed) /\ Pending = untried
        /\ UNCHANGED <<now, remote, deleted, dead, asked, refused>>
    BY <1>3 DEF RetriesOver, forge, past, Pending
  <2> HIDE DEF failed
  <2>2. \A r : Excused(r)' <=> Excused(r)
    BY <2>1 DEF Excused, RefusedIn
  <2>3. /\ ~dead => \A r \in asked \cap remote' : Excused(r)'
        /\ refused \subseteq refused' /\ refused' \subseteq asked
    BY <2>1, <2>2 DEF RInv, DoneOrExcused, NoMoreTries, Asked
  <2>4. deleted' \in Nat /\ deleted' <= Cardinality(asked \ remote')
    <3>1. asked \ remote \in SUBSET Refs /\ (asked \ Pending) \ remote \in SUBSET (asked \ remote)
      BY DEF RInv, Asked
    <3>2. /\ Cardinality((asked \ Pending) \ remote) <= Cardinality(asked \ remote)
          /\ Cardinality((asked \ Pending) \ remote) \in Nat /\ Cardinality(asked \ remote) \in Nat
      BY <3>1, GoneGrow
    <3>3. deleted \in Nat /\ deleted <= Cardinality((asked \ Pending) \ remote)
      BY DEF RInv, GoneAreMore
    <3>4. deleted <= Cardinality(asked \ remote)
      BY <3>2, <3>3
    <3> QED BY <2>1, <3>3, <3>4
  <2> QED BY <2>1, <2>3, <2>4, RNextRepo
<1>4. CASE Cancel
  <2>1. UNCHANGED <<forge, sweep, past>> /\ dead'
    BY <1>4 DEF Cancel
  <2>2. asked \cap remote' \subseteq remote /\ \A r \in asked : Stale(r)'
    BY <2>1 DEF forge, RInv, Asked, Stale
  <2> QED BY <2>1, <2>2, RStays
<1> QED BY <1>1, <1>2, <1>3, <1>4, RSelect, RBatch, RRetry DEF Steps

\* The world outside brings none of the refs asked for back: they are stale.
LEMMA RWorld == RInv /\ IInv' /\ World => RInv'
<1> SUFFICES ASSUME RInv, IInv', World PROVE RInv'
  OBVIOUS
<1>1. UNCHANGED <<sweep, past, dead>> /\ now \in Nat /\ now' \in Nat /\ now <= now'
  <2>1. now \in Nat
    BY DEF RInv, IInv
  <2> QED BY <2>1 DEF World, TimePasses, RunStarts, RunEnds, Pushed, DeletedElsewhere
<1>2. \A r \in asked : r \in Refs /\ Stale(r) /\ Stale(r)'
  BY <1>1, SweepAssumption DEF RInv, Asked, Stale, Foreign
<1>3. asked \cap remote' \subseteq remote
  <2>1. CASE TimePasses \/ RunStarts \/ \E b \in live : RunEnds(b)
    BY <2>1 DEF TimePasses, RunStarts, RunEnds
  <2>2. ASSUME NEW r \in Refs, Pushed(r) PROVE asked \cap remote' \subseteq remote
    <3>1. ~Stale(r) /\ remote' = remote \cup {r}
      BY <2>2, StaleIsOver DEF RInv, IInv, Pushed, Stale
    <3> QED BY <1>2, <3>1
  <2>3. ASSUME NEW r \in Refs, DeletedElsewhere(r) PROVE asked \cap remote' \subseteq remote
    BY <2>3 DEF DeletedElsewhere
  <2> QED BY <2>1, <2>2, <2>3 DEF World
<1> QED BY <1>1, <1>2, <1>3, RStays

LEMMA RInductive == Spec => []RInv
<1>1. RInv /\ IInv' /\ [Next]_vars => RInv'
  <2> SUFFICES ASSUME RInv, IInv', UNCHANGED vars PROVE RInv'
    BY RSteps, RWorld DEF Next, Over
  <2>1. UNCHANGED <<forge, sweep, past, dead>>
    BY DEF vars
  <2>2. asked \cap remote' \subseteq remote /\ \A r \in asked : Stale(r)'
    BY <2>1 DEF forge, RInv, Asked, Stale
  <2> QED BY <2>1, <2>2, RStays
<1> QED BY <1>1, RInit, Inductive, PTL DEF Spec

\* What an uncancelled sweep leaves of the refs it asked for was refused, one by one
\* or as a rule, and it reports no more deletions than there are refs gone.
THEOREM ReportSafe == Spec => []ReportIsTrue
<1>1. RInv => ReportIsTrue
  <2> SUFFICES ASSUME RInv PROVE LeftoversWereRefused /\ CountedAreGone
    BY DEF ReportIsTrue
  <2>1. LeftoversWereRefused
    BY DEF RInv, DoneOrExcused, Pending, Excused, RefusedIn, LeftoversWereRefused
  <2>2. CountedAreGone
    <3>1. asked \ remote \in SUBSET Refs /\ (asked \ Pending) \ remote \in SUBSET (asked \ remote)
      BY DEF RInv, Asked
    <3>2. /\ Cardinality((asked \ Pending) \ remote) <= Cardinality(asked \ remote)
          /\ Cardinality((asked \ Pending) \ remote) \in Nat /\ Cardinality(asked \ remote) \in Nat
      BY <3>1, GoneGrow
    <3>3. deleted \in Nat /\ deleted <= Cardinality((asked \ Pending) \ remote)
      BY DEF RInv, GoneAreMore
    <3>4. deleted <= Cardinality(asked \ remote)
      BY <3>2, <3>3
    <3> QED BY <3>4 DEF CountedAreGone
  <2> QED BY <2>1, <2>2
<1> QED BY <1>1, RInductive, PTL
=============================================================================
