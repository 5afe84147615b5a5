---------------------------- MODULE Agent_proofs ----------------------------
(***************************************************************************)
(* What an agent promises, for every length of the window, the grace and   *)
(* the timeouts and any number of operations: proved from one inductive    *)
(* invariant, which says for every place of the loops how late it can be,  *)
(* and a second one of the size of the repository at each place.           *)
(***************************************************************************)
EXTENDS Agent, TLAPS

\* The estimate lies between the latest duration and the slower of the two.
LEMMA Smoothing ==
  ASSUME NEW e \in Nat, NEW d \in Nat
  PROVE  /\ Smoothed(e, d) \in Nat
         /\ d <= Smoothed(e, d)
         /\ Smoothed(e, d) <= e \/ Smoothed(e, d) <= d
BY DEF Smoothed

\* Accounting for an operation keeps the estimates and the counts numbers.
LEMMA Accounting ==
  ASSUME TypeOK, since <= now, NEW op \in Op, Account(op)
  PROVE  /\ est' \in [Op -> Nat]
         /\ started' \in Nat /\ recorded' \in Nat /\ cut' \in Nat
<1>1. est[op] \in Nat /\ now - since \in Nat
  BY DEF TypeOK
<1>2. Smoothed(est[op], now - since) \in Nat
  BY <1>1, Smoothing
<1>3. est' = est \/ est' = [est EXCEPT ![op] = Smoothed(est[op], now - since)]
  BY DEF Account, CutOff
<1>4. est' \in [Op -> Nat]
  BY <1>2, <1>3 DEF TypeOK
<1>5. started' \in Nat /\ recorded' \in Nat /\ cut' \in Nat
  BY DEF TypeOK, Account, CutOff
<1> QED BY <1>4, <1>5

-----------------------------------------------------------------------------
(* The inductive invariant *)

\* When the agent was cancelled, and how late it may be then in a step that takes
\* no more than d from there.
Since(d) == cancelledAt # Never => now <= cancelledAt + d

\* How late each place of the loops can be: an operation is over by the hard
\* deadline; a commit begins in the window, before any cancellation; a deletion
\* begins by the deadline and, if cancelled, at most a commit later.
Schedule ==
  /\ cancelledAt # Never => cancelledAt <= now
  /\ pc \in {"commit", "clone", "push", "delete"} => since <= now
  /\ pc \in {"clone", "push"} => now <= End + DrainGrace /\ Since(MaxCommit)
  /\ pc = "commit" =>
       /\ since < End /\ now <= since + MaxCommit
       /\ cancelledAt # Never => since <= cancelledAt
  /\ pc \in {"next", "cleanup"} => now <= End + DrainGrace /\ Since(MaxCommit)
  /\ pc = "delete" =>
       /\ since <= End + DrainGrace /\ now <= since + Cleanup
       /\ cancelledAt # Never => since <= cancelledAt + MaxCommit
  /\ pc = "top" => now <= End + DrainGrace + Cleanup /\ Since(MaxCommit + Cleanup)

\* The only ref that may be on the forge without a blemish is that of the session
\* in progress, and then the agent knows of it.
Refs ==
  /\ \A s \in remote : s \in unacked \/ s \in undeleted \/ (s = session /\ pushed)
  /\ pc \in {"top", "clone", "returned"} => ~pushed
  /\ strategy # "session" => ~pushed

\* An operation is cut off only by the context, after which the loops end.
Cuts == /\ started = recorded + cut + InFlight /\ cut <= 1
        /\ cut = 1 => CtxDone /\ pc \in {"cleanup", "delete", "top", "returned"}

IInv == TypeOK /\ Schedule /\ StartsWhatFits /\ Refs /\ Cuts

LEMMA InitInv == Init => IInv
<1> SUFFICES ASSUME Init PROVE IInv
  OBVIOUS
<1> USE AgentAssumption DEF Init
<1>1. TypeOK
  <2>1. est \in [Op -> Nat]
    BY DEF Op
  <2>2. pushed \in BOOLEAN /\ strategy \in Strategy
    OBVIOUS
  <2> QED BY <2>1, <2>2 DEF TypeOK, Never
<1>2. Schedule /\ StartsWhatFits
  BY DEF Schedule, Since, StartsWhatFits, Never, Op
<1>3. Refs /\ Cuts
  BY DEF Refs, Cuts, InFlight, Op
<1> QED BY <1>1, <1>2, <1>3 DEF IInv

LEMMA NextInv == IInv /\ [Next]_vars => IInv'
<1> SUFFICES ASSUME IInv, [Next]_vars PROVE IInv'
  OBVIOUS
<1> USE AgentAssumption DEF CtxDone, Fits, MayGoOn, Never, Op, Strategy, count, forge
<1>0. TypeOK /\ Schedule /\ StartsWhatFits /\ Refs /\ Cuts
  BY DEF IInv
<1>1. CASE BranchTop
  <2>2. TypeOK'
    BY <1>0, <1>1 DEF TypeOK, BranchTop
  <2>3. Schedule' /\ StartsWhatFits'
    BY <1>0, <1>1 DEF TypeOK, Schedule, Since, StartsWhatFits, BranchTop
  <2>4. Refs'
    BY <1>0, <1>1 DEF TypeOK, Refs, BranchTop
  <2>5. Cuts'
    BY <1>0, <1>1 DEF TypeOK, Cuts, InFlight, BranchTop
  <2> QED BY <2>2, <2>3, <2>4, <2>5 DEF IInv
<1>2. CASE ResetFails
  <2>2. TypeOK'
    BY <1>0, <1>2 DEF TypeOK, ResetFails, Fault
  <2>3. Schedule' /\ StartsWhatFits'
    BY <1>0, <1>2 DEF TypeOK, Schedule, Since, StartsWhatFits, ResetFails, Fault
  <2>4. Refs'
    BY <1>0, <1>2 DEF TypeOK, Refs, ResetFails, Fault
  <2>5. Cuts'
    BY <1>0, <1>2 DEF TypeOK, Cuts, InFlight, ResetFails, Fault
  <2> QED BY <2>2, <2>3, <2>4, <2>5 DEF IInv
<1>3. CASE CommitMade
  <2>2. TypeOK'
    BY <1>0, <1>3 DEF TypeOK, CommitMade, StillFits, Begin
  <2>3. Schedule' /\ StartsWhatFits'
    BY <1>0, <1>3 DEF TypeOK, Schedule, Since, StartsWhatFits, CommitMade, StillFits, Begin
  <2>4. Refs'
    BY <1>0, <1>3 DEF TypeOK, Refs, CommitMade, StillFits, Begin
  <2>5. Cuts'
    BY <1>0, <1>3 DEF TypeOK, Cuts, InFlight, CommitMade, StillFits, Begin
  <2> QED BY <2>2, <2>3, <2>4, <2>5 DEF IInv
<1>4. CASE CommitFails
  <2>2. TypeOK'
    BY <1>0, <1>4 DEF TypeOK, CommitFails, Fault
  <2>3. Schedule' /\ StartsWhatFits'
    BY <1>0, <1>4 DEF TypeOK, Schedule, Since, StartsWhatFits, CommitFails, Fault
  <2>4. Refs'
    BY <1>0, <1>4 DEF TypeOK, Refs, CommitFails, Fault
  <2>5. Cuts'
    BY <1>0, <1>4 DEF TypeOK, Cuts, InFlight, CommitFails, Fault
  <2> QED BY <2>2, <2>3, <2>4, <2>5 DEF IInv
<1>5. CASE BranchPushed
  <2>1. /\ est' \in [Op -> Nat]
        /\ started' \in Nat /\ recorded' \in Nat /\ cut' \in Nat
    <3>1. since <= now
      BY <1>0, <1>5 DEF BranchPushed, OpReturns, Schedule
    <3>2. Account("push")
      BY <1>5 DEF BranchPushed
    <3> QED BY <1>0, <3>1, <3>2, Accounting
  <2>2. TypeOK'
    BY <1>0, <1>5, <2>1 DEF TypeOK, BranchPushed, Account, CutOff, OpReturns, Return
  <2>3. Schedule' /\ StartsWhatFits'
    BY <1>0, <1>5 DEF TypeOK, Schedule, Since, StartsWhatFits, BranchPushed, Account, CutOff, OpReturns, Return
  <2>4. Refs'
    BY <1>0, <1>5 DEF TypeOK, Refs, BranchPushed, Account, CutOff, OpReturns, Return
  <2>5. Cuts'
    BY <1>0, <1>5 DEF TypeOK, Cuts, InFlight, BranchPushed, Account, CutOff, OpReturns, Return
  <2> QED BY <2>2, <2>3, <2>4, <2>5 DEF IInv
<1>6. CASE CloneTop
  <2>2. TypeOK'
    BY <1>0, <1>6 DEF TypeOK, CloneTop, Begin
  <2>3. Schedule' /\ StartsWhatFits'
    BY <1>0, <1>6 DEF TypeOK, Schedule, Since, StartsWhatFits, CloneTop, Begin
  <2>4. Refs'
    BY <1>0, <1>6 DEF TypeOK, Refs, CloneTop, Begin
  <2>5. Cuts'
    BY <1>0, <1>6 DEF TypeOK, Cuts, InFlight, CloneTop, Begin
  <2> QED BY <2>2, <2>3, <2>4, <2>5 DEF IInv
<1>7. CASE \E ok \in BOOLEAN : Cloned(ok)
  <2>1. /\ est' \in [Op -> Nat]
        /\ started' \in Nat /\ recorded' \in Nat /\ cut' \in Nat
    <3>1. since <= now
      BY <1>0, <1>7 DEF Cloned, OpReturns, Schedule
    <3>2. Account("clone")
      BY <1>7 DEF Cloned
    <3> QED BY <1>0, <3>1, <3>2, Accounting
  <2>2. TypeOK'
    <3>1. pushed' \in BOOLEAN
      BY <1>0, <1>7 DEF TypeOK, Cloned, NextSession
    <3>2. session' \in Nat /\ iter' \in Nat /\ held' \in Nat
      BY <1>0, <1>7 DEF TypeOK, Cloned, NextSession
    <3>3. pc' \in {"top", "next", "returned"}
      BY <1>7 DEF Cloned, Return
    <3> QED BY <1>0, <1>7, <2>1, <3>1, <3>2, <3>3 DEF TypeOK, Cloned
  <2>3. Schedule' /\ StartsWhatFits'
    BY <1>0, <1>7 DEF TypeOK, Schedule, Since, StartsWhatFits, Cloned, Account, CutOff, OpReturns, Return, NextSession
  <2>4. Refs'
    BY <1>0, <1>7 DEF TypeOK, Refs, Cloned, Account, CutOff, OpReturns, Return, NextSession
  <2>5. Cuts'
    BY <1>0, <1>7 DEF TypeOK, Cuts, InFlight, Cloned, Account, CutOff, OpReturns, Return, NextSession
  <2> QED BY <2>2, <2>3, <2>4, <2>5 DEF IInv
<1>8. CASE SessionNext
  <2>2. TypeOK'
    BY <1>0, <1>8 DEF TypeOK, SessionNext
  <2>3. Schedule' /\ StartsWhatFits'
    BY <1>0, <1>8 DEF TypeOK, Schedule, Since, StartsWhatFits, SessionNext
  <2>4. Refs'
    BY <1>0, <1>8 DEF TypeOK, Refs, SessionNext
  <2>5. Cuts'
    BY <1>0, <1>8 DEF TypeOK, Cuts, InFlight, SessionNext
  <2> QED BY <2>2, <2>3, <2>4, <2>5 DEF IInv
<1>9. CASE \E landed, answered \in BOOLEAN : SessionPushed(landed, answered)
  <2>1. /\ est' \in [Op -> Nat]
        /\ started' \in Nat /\ recorded' \in Nat /\ cut' \in Nat
    <3>1. since <= now
      BY <1>0, <1>9 DEF SessionPushed, OpReturns, Schedule
    <3>2. Account("push")
      BY <1>9 DEF SessionPushed
    <3> QED BY <1>0, <3>1, <3>2, Accounting
  <2>2. TypeOK'
    BY <1>0, <1>9, <2>1 DEF TypeOK, SessionPushed, Account, CutOff, OpReturns
  <2>3. Schedule' /\ StartsWhatFits'
    BY <1>0, <1>9 DEF TypeOK, Schedule, Since, StartsWhatFits, SessionPushed, Account, CutOff, OpReturns
  <2>4. Refs'
    BY <1>0, <1>9 DEF TypeOK, Refs, SessionPushed, Account, CutOff, OpReturns
  <2>5. Cuts'
    BY <1>0, <1>9 DEF TypeOK, Cuts, InFlight, SessionPushed, Account, CutOff, OpReturns
  <2> QED BY <2>2, <2>3, <2>4, <2>5 DEF IInv
<1>10. CASE Abandon
  <2>2. TypeOK'
    <3>1. pushed' \in BOOLEAN
      BY <1>0, <1>10 DEF TypeOK, Abandon, NextSession
    <3>2. session' \in Nat /\ iter' \in Nat /\ since' \in Nat
      BY <1>0, <1>10 DEF TypeOK, Abandon, NextSession
    <3>3. pc' \in {"top", "delete"}
      BY <1>10 DEF Abandon
    <3> QED BY <1>0, <1>10, <3>1, <3>2, <3>3 DEF TypeOK, Abandon
  <2>3. Schedule' /\ StartsWhatFits'
    BY <1>0, <1>10 DEF TypeOK, Schedule, Since, StartsWhatFits, Abandon, ToDelete, NextSession
  <2>4. Refs'
    BY <1>0, <1>10 DEF TypeOK, Refs, Abandon, ToDelete, NextSession
  <2>5. Cuts'
    BY <1>0, <1>10 DEF TypeOK, Cuts, InFlight, Abandon, ToDelete, NextSession
  <2> QED BY <2>2, <2>3, <2>4, <2>5 DEF IInv
<1>11. CASE \E ok \in BOOLEAN : Deleted(ok)
  <2>2. TypeOK'
    <3>1. remote' \subseteq Nat /\ undeleted' \subseteq Nat
      BY <1>0, <1>11 DEF TypeOK, Deleted
    <3>2. pushed' \in BOOLEAN
      BY <1>11 DEF Deleted, NextSession
    <3>3. session' \in Nat /\ iter' \in Nat
      BY <1>0, <1>11 DEF TypeOK, Deleted, NextSession
    <3> QED BY <1>0, <1>11, <3>1, <3>2, <3>3 DEF TypeOK, Deleted
  <2>3. Schedule' /\ StartsWhatFits'
    BY <1>0, <1>11 DEF TypeOK, Schedule, Since, StartsWhatFits, Deleted, NextSession
  <2>4. Refs'
    BY <1>0, <1>11 DEF TypeOK, Refs, Deleted, NextSession
  <2>5. Cuts'
    BY <1>0, <1>11 DEF TypeOK, Cuts, InFlight, Deleted, NextSession
  <2> QED BY <2>2, <2>3, <2>4, <2>5 DEF IInv
<1>12. CASE LoopOver
  <2>2. TypeOK'
    BY <1>0, <1>12 DEF TypeOK, LoopOver, Return
  <2>3. Schedule' /\ StartsWhatFits'
    BY <1>0, <1>12 DEF TypeOK, Schedule, Since, StartsWhatFits, LoopOver, Return
  <2>4. Refs'
    BY <1>0, <1>12 DEF TypeOK, Refs, LoopOver, Return
  <2>5. Cuts'
    BY <1>0, <1>12 DEF TypeOK, Cuts, InFlight, LoopOver, Return
  <2> QED BY <2>2, <2>3, <2>4, <2>5 DEF IInv
<1>13. CASE Cancel
  <2>2. TypeOK'
    BY <1>0, <1>13 DEF TypeOK, Cancel
  <2>3. Schedule' /\ StartsWhatFits'
    BY <1>0, <1>13 DEF TypeOK, Schedule, Since, StartsWhatFits, Cancel
  <2>4. Refs'
    BY <1>0, <1>13 DEF TypeOK, Refs, Cancel
  <2>5. Cuts'
    BY <1>0, <1>13 DEF TypeOK, Cuts, InFlight, Cancel
  <2> QED BY <2>2, <2>3, <2>4, <2>5 DEF IInv
<1>14. CASE TimePasses
  <2>2. TypeOK'
    BY <1>0, <1>14 DEF TypeOK, TimePasses, Waiting
  <2>3. Schedule' /\ StartsWhatFits'
    BY <1>0, <1>14 DEF TypeOK, Schedule, Since, StartsWhatFits, TimePasses, Waiting
  <2>4. Refs'
    BY <1>0, <1>14 DEF TypeOK, Refs, TimePasses, Waiting
  <2>5. Cuts'
    BY <1>0, <1>14 DEF TypeOK, Cuts, InFlight, TimePasses, Waiting
  <2> QED BY <2>2, <2>3, <2>4, <2>5 DEF IInv
<1>15. CASE UNCHANGED vars
  <2>2. TypeOK'
    BY <1>0, <1>15 DEF TypeOK, vars
  <2>3. Schedule' /\ StartsWhatFits'
    BY <1>0, <1>15 DEF TypeOK, Schedule, Since, StartsWhatFits, vars
  <2>4. Refs'
    BY <1>0, <1>15 DEF TypeOK, Refs, vars
  <2>5. Cuts'
    BY <1>0, <1>15 DEF TypeOK, Cuts, InFlight, vars
  <2> QED BY <2>2, <2>3, <2>4, <2>5 DEF IInv
<1> QED BY <1>1, <1>2, <1>3, <1>4, <1>5, <1>6, <1>7, <1>8, <1>9, <1>10, <1>11, <1>12, <1>13,
           <1>14, <1>15 DEF Next, Works, Over

LEMMA Inductive == Spec => []IInv
BY InitInv, NextInv, PTL DEF Spec

\* Every operation is recorded or counted as cut off, exactly once.
THEOREM AccountingSafe == Spec => []EveryOpAccounted
<1>1. IInv => EveryOpAccounted
  BY DEF IInv, Cuts, EveryOpAccounted
<1> QED BY <1>1, Inductive, PTL

\* No operation begins that the estimate does not see finished inside the window.
THEOREM FittingSafe == Spec => []StartsWhatFits
<1>1. IInv => StartsWhatFits
  BY DEF IInv
<1> QED BY <1>1, Inductive, PTL

\* The agent keeps to the time a level, and the shutdown of the server, allow.
THEOREM ScheduleSafe == Spec => []BackInTime
<1>1. IInv => BackInTime
  BY AgentAssumption DEF IInv, TypeOK, Schedule, Since, BackInTime, Never
<1> QED BY <1>1, Inductive, PTL

\* Only refs the agent never heard of, or failed to delete, outlive a session.
THEOREM RefsSafe == Spec => []AbandonedRefsAreGone
<1>1. IInv => AbandonedRefsAreGone
  BY DEF IInv, Refs, AbandonedRefsAreGone
<1> QED BY <1>1, Inductive, PTL

-----------------------------------------------------------------------------
(* The repository of the branch strategy *)

LEMMA DivMod ==
  ASSUME NEW n \in Nat \ {0}, NEW i \in Nat
  PROVE  i = n * (i \div n) + (i % n) /\ i % n \in 0..(n - 1) /\ i \div n \in Nat
OBVIOUS

LEMMA RemainderUnique ==
  ASSUME NEW n \in Nat \ {0}, NEW q \in Nat, NEW p \in Nat,
         NEW s \in 0..(n - 1), NEW t \in 0..(n - 1), n * q + s = n * p + t
  PROVE  s = t
<1>1. q = p \/ q >= p + 1 \/ p >= q + 1
  OBVIOUS
<1>2. ASSUME q >= p + 1 PROVE FALSE
  <2>1. PICK d \in Nat : q = p + 1 + d
    BY <1>2
  <2>2. n * q = n * p + n + n * d
    BY <2>1
  <2>3. n * p \in Nat /\ n * d \in Nat
    OBVIOUS
  <2> QED BY <2>2, <2>3
<1>3. ASSUME p >= q + 1 PROVE FALSE
  <2>1. PICK d \in Nat : p = q + 1 + d
    BY <1>3
  <2>2. n * p = n * q + n + n * d
    BY <2>1
  <2>3. n * q \in Nat /\ n * d \in Nat
    OBVIOUS
  <2> QED BY <2>2, <2>3
<1> QED BY <1>1, <1>2, <1>3

\* Between two multiples of n the remainder grows with the number.
LEMMA RemainderOfPredecessor ==
  ASSUME NEW n \in Nat \ {0}, NEW i \in Nat \ {0}, i % n # 0
  PROVE  ((i - 1) % n) + 1 = i % n
<1> DEFINE k == i - 1
           a == i \div n
           r == i % n
           b == k \div n
           s == k % n
<1>1. i = n * a + r /\ r \in 0..(n - 1) /\ a \in Nat
  BY DivMod
<1>2. k \in Nat
  OBVIOUS
<1>3. k = n * b + s /\ s \in 0..(n - 1) /\ b \in Nat
  BY <1>2, DivMod
<1>4. r - 1 \in 0..(n - 1)
  BY <1>1
<1>5. k = i - 1 /\ n * a \in Int /\ n * b \in Int
  BY <1>1, <1>3
<1> HIDE DEF a, r, b, s, k
<1>6. n * a + (r - 1) = n * b + s
  BY <1>1, <1>3, <1>5
<1>7. r - 1 = s
  BY <1>1, <1>3, <1>4, <1>6, RemainderUnique
<1>8. s + 1 = r
  BY <1>1, <1>3, <1>7
<1> QED BY <1>8 DEF r, s, k

\* What the resets that failed leave behind.
Surplus == ResetEvery * faults

\* The commits held are those since the last multiple of ResetEvery and a generation
\* for every fault.
Generation ==
  strategy = "branch" =>
    /\ pc \in {"top", "commit", "push", "returned"}
    /\ pc = "top" => held <= (IF iter = 0 THEN 0 ELSE ((iter - 1) % ResetEvery) + 1) + Surplus
    /\ pc = "commit" => held <= (iter % ResetEvery) + Surplus
    /\ pc = "push" => held <= (iter % ResetEvery) + 1 + Surplus
    /\ pc = "returned" => held <= ResetEvery + Surplus

\* Multiplication by ResetEvery as the invariant needs it, and the remainders.
LEMMA Generations ==
  ASSUME TypeOK
  PROVE  /\ Surplus \in Nat /\ ResetEvery * (1 + faults) = ResetEvery + Surplus
         /\ iter % ResetEvery \in 0..(ResetEvery - 1)
         /\ ((iter + 1) - 1) % ResetEvery = iter % ResetEvery
         /\ faults' = faults => Surplus' = Surplus
         /\ faults' = faults + 1 => Surplus' = ResetEvery + Surplus
         /\ iter # 0 => ((iter - 1) % ResetEvery) + 1 \in 1..ResetEvery
         /\ iter # 0 /\ iter % ResetEvery # 0 => ((iter - 1) % ResetEvery) + 1 = iter % ResetEvery
<1>1. faults \in Nat /\ iter \in Nat /\ ResetEvery \in Nat \ {0}
  BY AgentAssumption DEF TypeOK
<1>2. ResetEvery * faults \in Nat /\ ResetEvery * (1 + faults) = ResetEvery + ResetEvery * faults
      /\ ResetEvery * (faults + 1) = ResetEvery + ResetEvery * faults
  BY <1>1
<1>3. iter % ResetEvery \in 0..(ResetEvery - 1)
  BY <1>1, DivMod
<1>4. (iter + 1) - 1 = iter
  BY <1>1
<1>5. ASSUME iter # 0 PROVE ((iter - 1) % ResetEvery) + 1 \in 1..ResetEvery
  <2>1. iter - 1 \in Nat
    BY <1>1, <1>5
  <2>2. (iter - 1) % ResetEvery \in 0..(ResetEvery - 1)
    BY <1>1, <2>1, DivMod
  <2> QED BY <1>1, <2>2
<1>6. ASSUME iter # 0, iter % ResetEvery # 0
      PROVE  ((iter - 1) % ResetEvery) + 1 = iter % ResetEvery
  <2>1. iter \in Nat \ {0}
    BY <1>1, <1>6
  <2> QED BY <1>1, <1>6, <2>1, RemainderOfPredecessor
<1>7. ((iter + 1) - 1) % ResetEvery = iter % ResetEvery
  BY <1>4
<1>8. faults' = faults => Surplus' = Surplus
  BY DEF Surplus
<1>9. faults' = faults + 1 => Surplus' = ResetEvery + Surplus
  BY <1>2 DEF Surplus
<1> QED BY <1>2, <1>3, <1>5, <1>6, <1>7, <1>8, <1>9 DEF Surplus

LEMMA GenerationInit == Init => Generation
BY AgentAssumption DEF Init, Generation, Surplus

LEMMA GenerationNext == TypeOK /\ Generation /\ [Next]_vars => Generation'
<1> SUFFICES ASSUME TypeOK, Generation, [Next]_vars, strategy = "branch" PROVE Generation'
  BY DEF Generation, Next, Works, Over, BranchTop, ResetFails, CommitMade, CommitFails, BranchPushed,
         CloneTop, Cloned, SessionNext, SessionPushed, Abandon, Deleted, LoopOver, Cancel, TimePasses,
         vars
<1> DEFINE low == iter % ResetEvery
           top == ((iter - 1) % ResetEvery) + 1
<1>1. /\ ResetEvery \in Nat \ {0} /\ iter \in Nat /\ held \in Nat /\ faults \in Nat
      /\ Surplus \in Nat /\ low \in 0..(ResetEvery - 1)
      /\ ((iter + 1) - 1) % ResetEvery = low
      /\ faults' = faults => Surplus' = Surplus
      /\ faults' = faults + 1 => Surplus' = ResetEvery + Surplus
      /\ iter # 0 => top \in 1..ResetEvery
      /\ iter # 0 /\ low # 0 => top = low
  BY Generations, AgentAssumption DEF TypeOK
<1>2. /\ pc \in {"top", "commit", "push", "returned"}
      /\ pc = "top" => held <= (IF iter = 0 THEN 0 ELSE top) + Surplus
      /\ pc = "commit" => held <= low + Surplus
      /\ pc = "push" => held <= low + 1 + Surplus
      /\ pc = "returned" => held <= ResetEvery + Surplus
  BY DEF Generation
<1>3. iter' = iter => low' = low /\ top' = top
  OBVIOUS
<1>4. iter' = iter + 1 => iter' # 0 /\ top' = low + 1
  BY <1>1
<1>5. iter = 0 => low = 0
  BY <1>1, DivMod
<1>s. /\ strategy' = "branch"
      /\ Generation' <=>
           /\ pc' \in {"top", "commit", "push", "returned"}
           /\ pc' = "top" => held' <= (IF iter' = 0 THEN 0 ELSE top') + Surplus'
           /\ pc' = "commit" => held' <= low' + Surplus'
           /\ pc' = "push" => held' <= low' + 1 + Surplus'
           /\ pc' = "returned" => held' <= ResetEvery + Surplus'
  BY DEF Generation, Next, Works, Over, BranchTop, ResetFails, CommitMade, CommitFails, BranchPushed,
         CloneTop, Cloned, SessionNext, SessionPushed, Abandon, Deleted, LoopOver, Cancel, TimePasses,
         vars
<1>0. ResetDue => low = 0
  BY DEF ResetDue
<1>d. iter # 0 /\ ~ResetDue => low # 0
  BY <1>1 DEF ResetDue
<1> HIDE DEF low, top
<1>6. CASE BranchTop
  <2>1. /\ pc = "top" /\ pc' = "commit" /\ iter' = iter /\ faults' = faults
        /\ held' = IF ResetDue THEN 0 ELSE held
    BY <1>6 DEF BranchTop
  <2> QED BY <1>1, <1>2, <1>3, <1>5, <1>s, <1>d, <2>1
<1>7. CASE ResetFails
  <2>1. pc = "top" /\ pc' = pc /\ ResetDue /\ iter' = iter + 1 /\ faults' = faults + 1 /\ held' = held
    BY <1>7 DEF ResetFails, Fault
  <2> QED BY <1>0, <1>1, <1>2, <1>4, <1>s, <2>1
<1>8. CASE CommitMade
  <2>1. /\ pc = "commit" /\ pc' \in {"push", "returned"} /\ iter' = iter /\ faults' = faults
        /\ held' = held + 1
    BY <1>8 DEF CommitMade, Begin
  <2> QED BY <1>1, <1>2, <1>3, <1>s, <2>1
<1>9. CASE CommitFails
  <2>1. /\ pc = "commit" /\ pc' = "top" /\ iter' = iter + 1 /\ faults' = faults + 1
        /\ held' = held
    BY <1>9 DEF CommitFails, Fault
  <2> QED BY <1>1, <1>2, <1>4, <1>s, <2>1
<1>10. CASE BranchPushed
  <2>1. /\ pc = "push" /\ faults' = faults /\ held' = held
        /\ \/ pc' = "returned"
           \/ pc' = "top" /\ iter' = iter + 1
    BY <1>10 DEF BranchPushed, OpReturns, Return
  <2> QED BY <1>1, <1>2, <1>4, <1>s, <2>1
<1>11. CASE LoopOver
  <2>1. pc = "top" /\ pc' = "returned" /\ faults' = faults /\ held' = held
    BY <1>11 DEF LoopOver, Return
  <2> QED BY <1>1, <1>2, <1>s, <2>1
<1>12. CASE Cancel \/ TimePasses \/ UNCHANGED vars
  <2>1. UNCHANGED <<pc, iter, held, faults>>
    BY <1>12 DEF Cancel, TimePasses, vars
  <2> QED BY <1>1, <1>2, <1>3, <1>s, <2>1
<1>13. ~CloneTop /\ ~SessionNext /\ ~Abandon
       /\ \A ok \in BOOLEAN : ~Cloned(ok) /\ ~Deleted(ok)
       /\ \A landed, answered \in BOOLEAN : ~SessionPushed(landed, answered)
  BY <1>2 DEF CloneTop, SessionNext, Abandon, Cloned, Deleted, SessionPushed, OpReturns
<1> QED BY <1>6, <1>7, <1>8, <1>9, <1>10, <1>11, <1>12, <1>13 DEF Next, Works, Over

\* However many resets and commits fail, the repository an agent keeps in memory
\* holds one generation of commits and one more for each failure.
THEOREM RepositorySafe == Spec => []RepositoryBounded
<1>1. TypeOK /\ Generation => RepositoryBounded
  <2> SUFFICES ASSUME TypeOK, Generation, strategy = "branch" PROVE held <= ResetEvery * (1 + faults)
    BY DEF RepositoryBounded
  <2>1. /\ ResetEvery \in Nat \ {0} /\ held \in Nat /\ Surplus \in Nat
        /\ ResetEvery * (1 + faults) = ResetEvery + Surplus
        /\ iter % ResetEvery \in 0..(ResetEvery - 1)
        /\ iter # 0 => ((iter - 1) % ResetEvery) + 1 \in 1..ResetEvery
    BY Generations, AgentAssumption DEF TypeOK
  <2> QED BY <2>1 DEF Generation
<1>2. IInv => TypeOK
  BY DEF IInv
<1> QED BY <1>1, <1>2, GenerationInit, GenerationNext, Inductive, PTL DEF Spec

=============================================================================
