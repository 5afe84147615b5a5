-------------------------- MODULE RunManager_proofs --------------------------
(***************************************************************************)
(* One active run at a time, no run outliving the server, and a bounded    *)
(* registry that forgets the oldest, for any number of requests and any    *)
(* interleaving of their steps.                                            *)
(***************************************************************************)
EXTENDS RunManager, FiniteSetTheorems, WellFoundedInduction, TLAPS

Accepted(r) == pc[r] = "replied" /\ reply[r] = "ok"
Persisted == {"persisted", "announced", "sealed", "cleared", "ended"}

\* The place of a request says whether it has a run and a coordinator.
RequestInv ==
  \A r \in Reqs :
    /\ pc[r] # "replied" <=> reply[r] = "none"
    /\ Registered(r) <=> pc[r] = "hello" \/ Accepted(r)
    /\ cpc[r] # "none" <=> Accepted(r)
    /\ cpc[r] \in Persisted => file[r] # "none"

\* A client seen gone at the end of credential resolution stays gone, and its
\* request cannot get past the check that follows.
VanishedInv ==
  \A r \in vanished : /\ r \in gone
                      /\ pc[r] \in {"recheck", "gonecheck", "replied"}
                      /\ reply[r] # "ok"

\* The base context is cancelled before stopActive looks: from then on m.active
\* can only be the run it saw, and is nothing once that run has ended.
DrainInv ==
  /\ spc # "serving" => baseDone
  /\ spc = "waiting" => waitFor \in Reqs /\ active \in {None, waitFor}
  /\ spc \in {"drained", "returned"} /\ ~timedOut => active = None

IInv == TypeOK /\ OneAtATime /\ RequestInv /\ VanishedInv /\ DrainInv

LEMMA InitInv == Init => IInv
<1> SUFFICES ASSUME Init PROVE IInv
  OBVIOUS
<1> USE DEF Init
<1>1. TypeOK
  BY DEF TypeOK, ReqPC, Reply, CoordPC, State, ServerPC
<1>2. OneAtATime
  BY RunManagerAssumption DEF OneAtATime, Unfinished
<1>3. RequestInv
  BY DEF RequestInv, Registered, Accepted, Persisted
<1>4. VanishedInv /\ DrainInv
  BY DEF VanishedInv, DrainInv
<1> QED BY <1>1, <1>2, <1>3, <1>4 DEF IInv

\* Counting the registered runs gives a number: there are finitely many requests.
LEMMA CountRegistered == Cardinality({s \in Reqs : born[s] # 0}) \in Nat
BY RunManagerAssumption, FS_Subset, FS_CardinalityType

USE DEF IInv, TypeOK, OneAtATime, RequestInv, VanishedInv, DrainInv, Unfinished, Registered,
        Accepted, Persisted, ReqPC, Reply, CoordPC, State, ServerPC,
        request, registry, run, server, vars

LEMMA PostInv ==
  ASSUME IInv, NEW r \in Reqs, Post(r)
  PROVE  IInv'
<1> USE RunManagerAssumption DEF At, Pass, Refuse
<1>1. CASE Validate(r)
  BY <1>1 DEF Validate
<1>2. CASE PreCheck(r)
  BY <1>2 DEF PreCheck
<1>3. CASE ShutCheck(r)
  BY <1>3 DEF ShutCheck
<1>4. CASE Resolve(r)
  BY <1>4 DEF Resolve
<1>5. CASE Recheck(r)
  BY <1>5 DEF Recheck
<1>6. CASE GoneCheck(r)
  BY <1>6 DEF GoneCheck, Abandoned
<1>7. CASE Register(r)
  <2>1. /\ ~baseDone /\ active = None /\ active' = r
        /\ pc[r] = "register" /\ pc' = [pc EXCEPT ![r] = "hello"]
        /\ UNCHANGED <<reply, gone, vanished, run, server>>
    BY <1>7 DEF Register, ShuttingDown, Busy
  <2>2. born' \in [Reqs -> Nat] /\ \A s \in Reqs : born'[s] = 0 <=> s # r /\ born[s] = 0
    <3> DEFINE n == Cardinality({s \in Reqs : born[s] # 0})
    <3>1. n \in Nat
      BY CountRegistered
    <3>2. born' = [born EXCEPT ![r] = 1 + n]
      BY <1>7 DEF Register
    <3> HIDE DEF n
    <3> QED BY <3>1, <3>2
  <2>3. runs' \subseteq Reqs
    BY <1>7, <2>1 DEF Register, Pruned
  <2>4. TypeOK'
    BY <2>1, <2>2, <2>3
  <2>5. OneAtATime' /\ RequestInv'
    BY <2>1, <2>2
  <2>6. VanishedInv' /\ DrainInv'
    BY <2>1
  <2> QED BY <2>4, <2>5, <2>6
<1>8. CASE RefuseLocked(r)
  BY <1>8 DEF RefuseLocked, ShuttingDown, Busy
<1>9. CASE Hello(r)
  BY <1>9 DEF Hello
<1> QED BY <1>1, <1>2, <1>3, <1>4, <1>5, <1>6, <1>7, <1>8, <1>9 DEF Post

LEMMA CoordinateInv ==
  ASSUME IInv, NEW r \in Reqs, Coordinate(r)
  PROVE  IInv'
<1> USE RunManagerAssumption DEF Move
<1>1. CASE SetUp(r)
  BY <1>1 DEF SetUp
<1>2. ASSUME NEW s \in State, Conclude(r, s) PROVE IInv'
  BY <1>2 DEF Conclude
<1>3. ASSUME NEW f \in {"saved", "lost"}, Persist(r, f) PROVE IInv'
  BY <1>3 DEF Persist
<1>4. CASE Announce(r)
  BY <1>4 DEF Announce
<1>5. CASE Seal(r)
  BY <1>5 DEF Seal
<1>6. CASE ClearActive(r)
  BY <1>6 DEF ClearActive, Clear
<1>7. CASE End(r)
  BY <1>7 DEF End
<1> QED BY <1>1, <1>2, <1>3, <1>4, <1>5, <1>6, <1>7 DEF Coordinate

LEMMA ServerInv ==
  ASSUME IInv, BeginShutdown \/ Drain \/ DrainTimeout
  PROVE  IInv'
<1> USE RunManagerAssumption
<1>1. CASE BeginShutdown
  BY <1>1 DEF BeginShutdown
<1>2. CASE StopActive
  BY <1>2 DEF StopActive
<1>3. CASE DoneClosed
  BY <1>3 DEF DoneClosed, WaitOver
<1>4. CASE ServeReturns
  BY <1>4 DEF ServeReturns
<1>5. CASE DrainTimeout
  BY <1>5 DEF DrainTimeout
<1> QED BY <1>1, <1>2, <1>3, <1>4, <1>5 DEF Drain

LEMMA ClientInv ==
  ASSUME IInv, NEW r \in Reqs, HangUp(r) \/ CancelRun(r)
  PROVE  IInv'
BY DEF HangUp, CancelRun

LEMMA NextInv == IInv /\ [Next]_vars => IInv'
<1> SUFFICES ASSUME IInv, [Next]_vars PROVE IInv'
  OBVIOUS
<1>1. CASE \E r \in Reqs : Post(r) \/ HangUp(r) \/ CancelRun(r) \/ Coordinate(r)
  BY <1>1, PostInv, ClientInv, CoordinateInv
<1>2. CASE BeginShutdown \/ Drain \/ DrainTimeout
  BY <1>2, ServerInv
<1>3. CASE UNCHANGED vars
  BY <1>3
<1> QED BY <1>1, <1>2, <1>3 DEF Next

LEMMA Inductive == Spec => []IInv
BY InitInv, NextInv, PTL DEF Spec

\* The variables keep their types whatever the number of requests.
THEOREM TypeCorrect == Spec => []TypeOK
BY Inductive, PTL

\* m.active names exactly the unfinished run: load generators never overlap.
THEOREM OneActiveRun == Spec => []OneAtATime
BY Inductive, PTL

\* After a drain that did not time out nothing runs, nothing is unwritten.
THEOREM NoOrphan == Spec => []NothingOutlivesTheServer
<1>1. IInv => NothingOutlivesTheServer
  BY RunManagerAssumption DEF NothingOutlivesTheServer
<1> QED BY <1>1, Inductive, PTL

\* No run is registered for a client that left while its secrets were resolved.
THEOREM VanishedSafe == Spec => []VanishedGetsNoRun
<1>1. IInv => VanishedGetsNoRun
  BY DEF VanishedGetsNoRun
<1> QED BY <1>1, Inductive, PTL

-----------------------------------------------------------------------------
(* What the registry keeps and forgets *)

\* Every registration takes the next number, the active run is registered, and what
\* was forgotten is older than all that is kept, of which there is as much as can be.
RegistryInv ==
  LET known == {r \in Reqs : Registered(r)} IN
  /\ runs \subseteq known /\ active \in runs \cup {None}
  /\ \A r \in known : born[r] <= Cardinality(known)
  /\ \A r, s \in known : born[r] = born[s] => r = s
  /\ Cardinality(runs) <= Keep + 1
  /\ \A r \in known \ runs : Cardinality(runs) = Keep + 1 /\ \A s \in runs : born[s] > born[r]

HIDE DEF IInv, TypeOK, OneAtATime, RequestInv, VanishedInv, DrainInv, Unfinished

\* Every set of numbers has a least one.
LEMMA LeastNumber ==
  ASSUME NEW S \in SUBSET Nat, S # {}
  PROVE  \E n \in S : \A m \in S : n <= m
<1> DEFINE Less == OpToRel(<, Nat)
<1>1. IsWellFoundedOn(Less, Nat)
  BY NatLessThanWellFounded, Zenon
<1>2. Less = {p \in Nat \X Nat : p[1] < p[2]}
  BY DEF OpToRel
<1> HIDE DEF Less
<1>3. PICK n \in S : \A m \in S : <<m, n>> \notin Less
  BY <1>1, WFMin
<1>4. \A m \in Nat : m < n => <<m, n>> \in Less
  BY <1>2
<1>5. \A m \in S : ~(m < n)
  BY <1>3, <1>4
<1> QED BY <1>5

\* Pruning finished runs, of distinct age and Keep + 1 at most, forgets nothing as
\* long as they are Keep and otherwise the oldest.
LEMMA Pruning ==
  ASSUME NEW rs, IsFiniteSet(rs), NEW b \in [Reqs -> Nat], rs \subseteq Reqs,
         \A p, q \in rs : b[p] = b[q] => p = q,
         Cardinality(rs) <= Keep + 1, NEW act \in Reqs \ rs
  PROVE  \/ Cardinality(rs) <= Keep /\ Pruned(rs \cup {act}, act, b) = rs \cup {act}
         \/ /\ Cardinality(rs) = Keep + 1
            /\ \E o \in rs : /\ \A q \in rs \ {o} : b[q] > b[o]
                             /\ Pruned(rs \cup {act}, act, b) = (rs \ {o}) \cup {act}
<1> DEFINE newer(q) == AtLeastAsNew(q, rs, b)
           n == Cardinality(rs)
<1>1. Keep \in Nat /\ n \in Nat
  BY RunManagerAssumption, FS_CardinalityType
<1>2. (rs \cup {act}) \ {act} = rs
  OBVIOUS
<1>3. Pruned(rs \cup {act}, act, b) = {q \in rs : Cardinality(newer(q)) <= Keep} \cup {act}
  BY <1>2 DEF Pruned
<1>4. \A q \in rs : newer(q) \in SUBSET rs
  BY DEF AtLeastAsNew
<1>5. CASE n <= Keep
  <2>1. ASSUME NEW q \in rs PROVE Cardinality(newer(q)) <= Keep
    <3> DEFINE c == Cardinality(newer(q))
    <3>1. c <= n /\ c \in Nat
      BY <1>4, FS_Subset, FS_CardinalityType
    <3> HIDE DEF c, n
    <3>2. c <= Keep
      BY <1>1, <1>5, <3>1
    <3> QED BY <3>2 DEF c
  <2> HIDE DEF newer
  <2> QED BY <1>3, <1>5, <2>1
<1>6. CASE ~(n <= Keep)
  <2>1. n = Keep + 1
    <3> HIDE DEF n
    <3>1. n <= Keep + 1
      BY DEF n
    <3> QED BY <1>1, <1>6, <3>1
  <2>2. rs # {}
    <3>1. rs = {} => n = 0
      BY FS_EmptySet
    <3> HIDE DEF n
    <3> QED BY <1>1, <2>1, <3>1
  <2>3. PICK o \in rs : \A q \in rs : b[o] <= b[q]
    <3> DEFINE ages == {b[q] : q \in rs}
    <3>1. ages \in SUBSET Nat /\ ages # {}
      BY <2>2
    <3>2. \E m \in ages : \A k \in ages : m <= k
      <4> HIDE DEF ages
      <4> QED BY <3>1, LeastNumber
    <3> QED BY <3>2
  <2>4. \A q \in rs \ {o} : b[q] > b[o]
    <3>1. \A q \in rs : b[q] \in Nat
      OBVIOUS
    <3> QED BY <2>3, <3>1
  <2>5. newer(o) = rs
    BY <2>3 DEF AtLeastAsNew
  <2>6. ASSUME NEW q \in rs \ {o} PROVE Cardinality(newer(q)) <= Keep
    <3> DEFINE c == Cardinality(newer(q))
    <3>1. b[q] \in Nat /\ b[o] \in Nat
      OBVIOUS
    <3>2. newer(q) \in SUBSET (rs \ {o})
      BY <2>4, <3>1 DEF AtLeastAsNew
    <3>3. IsFiniteSet(rs \ {o}) /\ Cardinality(rs \ {o}) = n - 1
      BY FS_RemoveElement
    <3>4. c <= n - 1
      BY <3>2, <3>3, FS_Subset
    <3> HIDE DEF c, n
    <3>5. c <= Keep
      BY <1>1, <2>1, <3>4
    <3> QED BY <3>5 DEF c
  <2>7. ~(Cardinality(newer(o)) <= Keep)
    <3>1. Cardinality(newer(o)) = n
      BY <2>5
    <3> QED BY <1>1, <2>1, <3>1
  <2>8. {q \in rs : Cardinality(newer(q)) <= Keep} = rs \ {o}
    <3> HIDE DEF newer
    <3> QED BY <2>6, <2>7
  <2> QED BY <1>3, <2>1, <2>4, <2>8
<1> QED BY <1>5, <1>6

LEMMA RegistryInit == Init => RegistryInv
<1> SUFFICES ASSUME Init PROVE RegistryInv
  OBVIOUS
<1>1. Cardinality({}) = 0
  BY FS_EmptySet
<1>2. runs = {} /\ active = None /\ {r \in Reqs : Registered(r)} = {}
  BY DEF Init
<1> QED BY <1>1, <1>2, RunManagerAssumption DEF RegistryInv

\* Only a registration changes the registry, and the active run is cleared.
LEMMA RegistryStays ==
  ASSUME RegistryInv, UNCHANGED <<runs, born>>, active' \in {active, None}
  PROVE  RegistryInv'
BY DEF RegistryInv

LEMMA RegisterKeeps ==
  ASSUME TypeOK, RegistryInv, NEW r \in Reqs, ~Registered(r), Register(r)
  PROVE  RegistryInv'
<1> DEFINE known == {s \in Reqs : Registered(s)}
           n == Cardinality(known)
           b == [born EXCEPT ![r] = 1 + n]
<1>1. /\ active = None /\ active' = r /\ born' = b
      /\ runs' = Pruned(runs \cup {r}, r, b)
  BY DEF Register, Busy, Pass
<1>2. IsFiniteSet(known) /\ n \in Nat /\ Keep \in Nat /\ born \in [Reqs -> Nat]
  BY RunManagerAssumption, FS_Subset, FS_CardinalityType DEF TypeOK
<1>3. /\ runs \subseteq known /\ \A s \in known : born[s] <= n
      /\ \A s, t \in known : born[s] = born[t] => s = t
      /\ Cardinality(runs) <= Keep + 1
      /\ \A s \in known \ runs : Cardinality(runs) = Keep + 1 /\ \A t \in runs : born[t] > born[s]
  BY DEF RegistryInv
<1>4. r \notin known /\ known \subseteq Reqs
  OBVIOUS
<1>5. IsFiniteSet(runs)
  BY <1>2, <1>3, FS_Subset
<1>6. Cardinality(runs) \in Nat
  BY <1>5, FS_CardinalityType
<1>7. Cardinality(known \cup {r}) = n + 1
  BY <1>2, <1>4, FS_AddElement
<1>8. {s \in Reqs : Registered(s)'} = known \cup {r}
  BY <1>1, <1>2
<1>n. n \in Nat
  BY <1>2
<1> HIDE DEF n
<1>9. b \in [Reqs -> Nat] /\ b[r] = n + 1 /\ \A s \in known : b[s] = born[s]
  BY <1>2, <1>4, <1>n
<1>10. \A s \in known : b[s] \in Nat /\ b[s] < n + 1
  BY <1>2, <1>3, <1>4, <1>9, <1>n
<1> HIDE DEF known, b
<1>11. /\ \A s \in known \cup {r} : b[s] <= n + 1
       /\ \A s, t \in known \cup {r} : b[s] = b[t] => s = t
  BY <1>3, <1>9, <1>10, <1>n
<1>12. \/ Cardinality(runs) <= Keep /\ runs' = runs \cup {r}
       \/ /\ Cardinality(runs) = Keep + 1
          /\ \E o \in runs : /\ \A q \in runs \ {o} : b[q] > b[o]
                             /\ runs' = (runs \ {o}) \cup {r}
  <2>1. runs \subseteq Reqs /\ r \in Reqs \ runs
    BY <1>3, <1>4
  <2>2. \A p, q \in runs : b[p] = b[q] => p = q
    BY <1>3, <1>11
  <2> QED BY <1>1, <1>3, <1>5, <1>9, <2>1, <2>2, Pruning
<1>13. /\ Cardinality(runs') <= Keep + 1
       /\ \A s \in (known \cup {r}) \ runs' :
            Cardinality(runs') = Keep + 1 /\ \A t \in runs' : b[t] > b[s]
  <2>1. CASE Cardinality(runs) <= Keep /\ runs' = runs \cup {r}
    <3>1. Cardinality(runs') = Cardinality(runs) + 1
      BY <1>3, <1>4, <1>5, <2>1, FS_AddElement
    <3>2. known \ runs = {}
      BY <1>2, <1>3, <1>6, <2>1
    <3> QED BY <1>2, <1>6, <2>1, <3>1, <3>2
  <2>2. ASSUME Cardinality(runs) = Keep + 1, NEW o \in runs,
               \A q \in runs \ {o} : b[q] > b[o], runs' = (runs \ {o}) \cup {r}
        PROVE  /\ Cardinality(runs') <= Keep + 1
               /\ \A s \in (known \cup {r}) \ runs' :
                    Cardinality(runs') = Keep + 1 /\ \A t \in runs' : b[t] > b[s]
    <3>0. IsFiniteSet(runs \ {o}) /\ Cardinality(runs \ {o}) = Cardinality(runs) - 1
      BY <1>5, FS_RemoveElement
    <3>1. IsFiniteSet(runs \ {o}) /\ Cardinality(runs \ {o}) = Keep
      BY <1>2, <2>2, <3>0
    <3>2. Cardinality(runs') = Keep + 1
      BY <1>3, <1>4, <2>2, <3>1, FS_AddElement
    <3>3. ASSUME NEW s \in (known \cup {r}) \ runs', NEW t \in runs' PROVE b[t] > b[s]
      <4>1. s \in known /\ (s = o \/ s \notin runs) /\ (t = r \/ t \in runs \ {o})
        BY <1>3, <1>4, <2>2, <3>3
      <4>2. CASE t = r
        BY <1>9, <1>10, <1>n, <4>1, <4>2
      <4>3. CASE t \in runs \ {o} /\ s = o
        BY <2>2, <4>3
      <4>4. CASE t \in runs \ {o} /\ s \notin runs
        BY <1>3, <1>9, <4>1, <4>4
      <4> QED BY <4>1, <4>2, <4>3, <4>4
    <3> QED BY <1>2, <3>2, <3>3
  <2> QED BY <1>12, <2>1, <2>2
<1>14. runs' \subseteq known \cup {r} /\ active' \in runs'
  BY <1>1, <1>3, <1>12
<1> DEFINE now == {s \in Reqs : Registered(s)}'
<1>15. now = known \cup {r} /\ Cardinality(now) = n + 1 /\ born' = b
  BY <1>1, <1>7, <1>8
<1> HIDE DEF now
<1>16. /\ runs' \subseteq now /\ active' \in runs' \cup {None}
       /\ \A s \in now : born'[s] <= Cardinality(now)
       /\ \A s, t \in now : born'[s] = born'[t] => s = t
       /\ Cardinality(runs') <= Keep + 1
       /\ \A s \in now \ runs' : Cardinality(runs') = Keep + 1 /\ \A t \in runs' : born'[t] > born'[s]
  BY <1>11, <1>13, <1>14, <1>15
<1> QED BY <1>16 DEF RegistryInv, now

LEMMA RegistryNext == IInv /\ RegistryInv /\ [Next]_vars => RegistryInv'
<1> SUFFICES ASSUME IInv, RegistryInv, [Next]_vars PROVE RegistryInv'
  OBVIOUS
<1>1. ASSUME NEW r \in Reqs, Post(r) PROVE RegistryInv'
  <2>1. CASE Register(r)
    <3>1. TypeOK /\ ~Registered(r)
      BY <2>1 DEF IInv, RequestInv, Register, Pass, At
    <3> QED BY <2>1, <3>1, RegisterKeeps
  <2>2. CASE ~Register(r)
    <3>1. UNCHANGED <<runs, born, active>>
      BY <1>1, <2>2 DEF Post, Validate, PreCheck, ShutCheck, Resolve, Recheck, GoneCheck, RefuseLocked, Hello
    <3> QED BY <3>1, RegistryStays
  <2> QED BY <2>1, <2>2
<1>2. ASSUME NEW r \in Reqs, Coordinate(r) PROVE RegistryInv'
  <2>1. UNCHANGED <<runs, born>> /\ active' \in {active, None}
    BY <1>2 DEF Coordinate, SetUp, Conclude, Persist, Announce, Seal, ClearActive, Clear, End
  <2> QED BY <2>1, RegistryStays
<1>3. CASE \/ \E r \in Reqs : HangUp(r) \/ CancelRun(r)
           \/ BeginShutdown \/ Drain \/ DrainTimeout \/ UNCHANGED vars
  <2>1. UNCHANGED <<runs, born, active>>
    BY <1>3 DEF HangUp, CancelRun, BeginShutdown, Drain, StopActive, DoneClosed, ServeReturns, DrainTimeout
  <2> QED BY <2>1, RegistryStays
<1> QED BY <1>1, <1>2, <1>3 DEF Next

\* The registry is bounded, and it forgets only finished runs, the oldest first and
\* only when it is full.
THEOREM RegistrySafe == Spec => []RegistryKeepsTheNewest
<1>1. IInv /\ RegistryInv => RegistryKeepsTheNewest
  BY RunManagerAssumption DEF RegistryInv, RegistryKeepsTheNewest, IInv, OneAtATime
<1> QED BY <1>1, RegistryInit, RegistryNext, Inductive, PTL DEF Spec

=============================================================================
