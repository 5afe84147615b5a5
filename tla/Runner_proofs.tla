---------------------------- MODULE Runner_proofs ----------------------------
(***************************************************************************)
(* What the set-up of a runner establishes holds for every level: the      *)
(* token's lifetime, the pinned nodes and the probed push options, for any *)
(* sweep, any windows and timeouts, any replies and any delays.            *)
(***************************************************************************)
EXTENDS Runner, TLAPS

(* The inductive invariant *)

\* Where the credential may go.
Allowed == {Base} \cup (IF IsEntire THEN Siblings \cap named ELSE {})

Vetting ==
  /\ presented \subseteq Allowed
  /\ step \in {"new", "probe"} => named = {}
  /\ step \in {"probe", "reprobe"} => IsEntire
  /\ step = "reprobe" => Elems(advertised) \subseteq Siblings \cup {Base} /\ Elems(advertised) \subseteq named
  /\ Elems(nodes) \subseteq Allowed

Probing ==
  /\ step \notin {"new"} \cup Gone => Repos # <<>>
  /\ step \in {"options", "budget"} \cup Underway => nodes # <<>>
  /\ unprobed \subseteq Elems(nodes) \X Elems(Repos)
  /\ cfg.options /\ step = "options" => Elems(nodes) \X Elems(Repos) \subseteq unprobed \cup withOptions
  /\ cfg.options /\ step \in {"budget"} \cup Underway => Elems(nodes) \X Elems(Repos) \subseteq withOptions

\* The levels that are left, and which token is looked at.
Counting ==
  /\ step \in SetUp => level = 1 /\ levelsLeft = Len(Sweep)
  /\ step \in Underway \ {"level"} => levelsLeft = Len(Sweep) + 1 - level
  /\ step = "level" => levelsLeft = Len(Sweep) - level
  /\ step \in Underway => level <= Len(Sweep)
  /\ step \in {"budget"} \cup Underway => tokenExp = IF IsEntire THEN exp ELSE NoExp

\* What the budget holds back for the levels that are left.
Reserved == levelsLeft * PerLevel

\* The lifetime that is left, with what was lost to delays, covers the levels that
\* are left and what was to spare at the beginning.
Budgeting ==
  tokenExp # NoExp =>
    /\ step \in Underway => tokenExp - now + idle >= slack + Reserved + Skew
    /\ step = "released" => tokenExp - firedAt + idle >= slack + Reserved + Skew
    /\ step = "level" => /\ tokenExp - firedAt + idle >= slack + Reserved + PerLevel + Skew
                         /\ tokenExp - firedAt >= PerLevel + Skew

IInv == TypeOK /\ Vetting /\ Probing /\ Counting /\ Budgeting

-----------------------------------------------------------------------------
(* Lemmas about nodes and repositories *)

\* The nodes made of a list of replicas: never none, and no others than the list's
\* or the entry host.
LEMMA Lists ==
  ASSUME NEW list \in Seq(Origins)
  PROVE  /\ Elems(list) \subseteq Origins
         /\ NodesOf(list) \in Seq(Origins) /\ NodesOf(list) # <<>>
         /\ Elems(NodesOf(list)) \subseteq Elems(list) \cup {Base}
<1>1. Elems(list) \subseteq Origins
  BY DEF Elems
<1>2. /\ <<Base>> \in Seq(Origins) /\ <<Base>> # <<>>
      /\ Elems(<<Base>>) = {Base}
  BY RunnerAssumption DEF Elems
<1> QED BY <1>1, <1>2 DEF NodesOf

LEMMA Alone ==
  <<Base>> \in Seq(Origins) /\ <<Base>> # <<>> /\ Elems(<<Base>>) = {Base}
BY RunnerAssumption DEF Elems

\* A repository there must be.
LEMMA SomeRepo == Valid => Repos # <<>>
BY RunnerAssumption DEF Valid

\* Every agent is given a node and a repository there is.
LEMMA Placement ==
  ASSUME TypeOK, nodes # <<>>, Repos # <<>>, NEW i \in Agents
  PROVE  NodeOf(i) \in Elems(nodes) /\ RepoOf(i) \in Elems(Repos)
<1>1. i \in Nat
  BY RunnerAssumption DEF Agents, TypeOK
<1>2. Len(nodes) \in Nat \ {0} /\ Len(Repos) \in Nat \ {0}
  BY RunnerAssumption DEF TypeOK
<1>3. (i % Len(nodes)) + 1 \in 1..Len(nodes) /\ (i % Len(Repos)) + 1 \in 1..Len(Repos)
  BY <1>1, <1>2
<1>4. DOMAIN nodes = 1..Len(nodes) /\ DOMAIN Repos = 1..Len(Repos)
  BY RunnerAssumption DEF TypeOK
<1>5. NodeOf(i) \in Elems(nodes)
  BY <1>3, <1>4 DEF NodeOf, Elems
<1>6. RepoOf(i) \in Elems(Repos)
  BY <1>2, <1>3, <1>4 DEF RepoOf, Elems
<1> QED BY <1>5, <1>6

\* A level's share of the budget is a number, and one level more is one share more.
LEMMA Shares ==
  /\ PerLevel \in Nat /\ Skew \in Nat
  /\ \A k \in Nat : k * PerLevel \in Nat /\ (k + 1) * PerLevel = k * PerLevel + PerLevel
<1>1. PerLevel \in Nat /\ Skew \in Nat
  BY RunnerAssumption DEF PerLevel
<1> HIDE DEF PerLevel
<1> QED BY <1>1

\* A level that starts takes its share out of what was held back.
LEMMA LevelBudget ==
  ASSUME Budgeting,
         tokenExp \in Nat \/ tokenExp = NoExp,
         now \in Nat /\ firedAt \in Nat /\ idle \in Nat /\ slack \in Int /\ Skew \in Nat,
         /\ step = "released" /\ step' = "level"
         /\ now' = now /\ firedAt' = firedAt /\ tokenExp' = tokenExp /\ slack' = slack /\ idle' = idle
         /\ tokenExp # NoExp => tokenExp - firedAt >= Reserved + Skew,
         /\ Reserved' \in Nat /\ Reserved = Reserved' + PerLevel
         /\ PerLevel \in Nat /\ PerLevel' = PerLevel
  PROVE  Budgeting'
<1>1. tokenExp # NoExp =>
        /\ tokenExp - now + idle >= slack + Reserved + Skew
        /\ tokenExp - firedAt + idle >= slack + Reserved + Skew
        /\ tokenExp - firedAt >= Reserved + Skew
  BY DEF Budgeting, Underway
<1>2. tokenExp # NoExp =>
        /\ tokenExp - now + idle >= slack + Reserved' + Skew
        /\ tokenExp - firedAt + idle >= slack + Reserved' + PerLevel + Skew
        /\ tokenExp - firedAt >= PerLevel + Skew
  BY <1>1
<1> QED BY <1>2 DEF Budgeting, Underway

\* The budget of the levels that are left.
LEMMA NeedIs ==
  ASSUME TypeOK, levelsLeft >= 1
  PROVE  Need = Reserved + Skew /\ Reserved \in Nat
<1>1. levelsLeft \in Nat
  BY DEF TypeOK
<1> QED BY <1>1, Shares DEF Need, Reserved

LEMMA LatestIs == Latest = firedAt + PerLevel \/ firedAt \notin Nat
BY RunnerAssumption DEF Latest, PerLevel

-----------------------------------------------------------------------------
LEMMA InitInv == Init => IInv
<1> SUFFICES ASSUME Init PROVE IInv
  OBVIOUS
<1> USE RunnerAssumption DEF Init, SetUp, Underway, Gone
<1>1. TypeOK
  BY DEF TypeOK
<1>2. Vetting /\ Probing
  BY DEF Vetting, Probing, Elems
<1>3. Counting /\ Budgeting
  BY DEF Counting, Budgeting
<1> QED BY <1>1, <1>2, <1>3 DEF IInv

LEMMA NextInv == IInv /\ [Next]_vars => IInv'
<1> SUFFICES ASSUME IInv, [Next]_vars PROVE IInv'
  OBVIOUS
<1> USE DEF discovery, budget, sweep, SetUp, Underway, Gone
<1>0. TypeOK /\ Vetting /\ Probing /\ Counting /\ Budgeting
  BY DEF IInv
<1>1. CASE Invalid
  <2>1. TypeOK'
    BY RunnerAssumption, <1>0, <1>1 DEF TypeOK, Invalid, Refuse
  <2>2. Vetting'
    BY RunnerAssumption, <1>0, <1>1 DEF TypeOK, Vetting, Allowed, IsEntire, Invalid, Refuse
  <2>3. Probing'
    BY RunnerAssumption, <1>0, <1>1 DEF TypeOK, Probing, Invalid, Refuse
  <2>4. Counting'
    BY RunnerAssumption, <1>0, <1>1 DEF TypeOK, Counting, IsEntire, Invalid, Refuse
  <2>5. Budgeting'
    BY RunnerAssumption, <1>0, <1>1 DEF TypeOK, Counting, Budgeting, Reserved, PerLevel, IsSession, Invalid, Refuse
  <2> QED BY <2>1, <2>2, <2>3, <2>4, <2>5 DEF IInv
<1>2. CASE Generic
  <2>1. TypeOK'
    BY RunnerAssumption, <1>0, <1>2, Alone DEF TypeOK, Generic, Resolved
  <2>2. Vetting'
    BY RunnerAssumption, <1>0, <1>2, Alone DEF TypeOK, Vetting, Allowed, IsEntire, Generic, Resolved
  <2>3. Probing'
    BY RunnerAssumption, <1>0, <1>2, Alone, SomeRepo DEF TypeOK, Probing, Generic, Resolved
  <2>4. Counting'
    BY RunnerAssumption, <1>0, <1>2 DEF TypeOK, Counting, IsEntire, Generic, Resolved
  <2>5. Budgeting'
    BY RunnerAssumption, <1>0, <1>2 DEF TypeOK, Counting, Budgeting, Reserved, PerLevel, IsSession, Generic, Resolved
  <2> QED BY <2>1, <2>2, <2>3, <2>4, <2>5 DEF IInv
<1>3. CASE Discover
  <2>1. TypeOK'
    BY RunnerAssumption, <1>0, <1>3 DEF TypeOK, Discover
  <2>2. Vetting'
    BY RunnerAssumption, <1>0, <1>3 DEF TypeOK, Vetting, Allowed, IsEntire, Discover
  <2>3. Probing'
    BY RunnerAssumption, <1>0, <1>3, SomeRepo DEF TypeOK, Probing, Discover
  <2>4. Counting'
    BY RunnerAssumption, <1>0, <1>3 DEF TypeOK, Counting, IsEntire, Discover
  <2>5. Budgeting'
    BY RunnerAssumption, <1>0, <1>3 DEF TypeOK, Counting, Budgeting, Reserved, PerLevel, IsSession, Discover
  <2> QED BY <2>1, <2>2, <2>3, <2>4, <2>5 DEF IInv
<1>4. CASE RequestFails
  <2>1. TypeOK'
    BY RunnerAssumption, <1>0, <1>4 DEF TypeOK, RequestFails, Refuse
  <2>2. Vetting'
    BY RunnerAssumption, <1>0, <1>4 DEF TypeOK, Vetting, Allowed, IsEntire, RequestFails, Refuse
  <2>3. Probing'
    BY RunnerAssumption, <1>0, <1>4 DEF TypeOK, Probing, RequestFails, Refuse
  <2>4. Counting'
    BY RunnerAssumption, <1>0, <1>4 DEF TypeOK, Counting, IsEntire, RequestFails, Refuse
  <2>5. Budgeting'
    BY RunnerAssumption, <1>0, <1>4 DEF TypeOK, Counting, Budgeting, Reserved, PerLevel, IsSession, RequestFails, Refuse
  <2> QED BY <2>1, <2>2, <2>3, <2>4, <2>5 DEF IInv
<1>5. ASSUME NEW list \in Adverts, Answered(list) PROVE IInv'
  <2>1. list \in Seq(Origins) /\ Elems(list) \subseteq Origins
        /\ NodesOf(list) \in Seq(Origins) /\ NodesOf(list) # <<>>
        /\ Elems(NodesOf(list)) \subseteq Elems(list) \cup {Base}
    BY RunnerAssumption, Lists
  <2>2. Pinned(list) => Elems(list) \subseteq Siblings \cup {Base}
    BY DEF Pinned, Elems
  <2>3. TypeOK'
    BY RunnerAssumption, <1>0, <1>5, <2>1 DEF TypeOK, Answered, Resolved
  <2>4. Vetting'
    BY RunnerAssumption, <1>0, <1>5, <2>1, <2>2 DEF TypeOK, Vetting, Allowed, IsEntire, Answered, Resolved
  <2>5. Probing'
    BY RunnerAssumption, <1>0, <1>5, <2>1 DEF TypeOK, Probing, Answered, Resolved
  <2>6. Counting'
    BY RunnerAssumption, <1>0, <1>5 DEF TypeOK, Counting, IsEntire, Answered, Resolved
  <2>7. Budgeting'
    BY RunnerAssumption, <1>0, <1>5 DEF TypeOK, Counting, Budgeting, Reserved, PerLevel, IsSession, Answered, Resolved
  <2> QED BY <2>3, <2>4, <2>5, <2>6, <2>7 DEF IInv
<1>6. ASSUME NEW list \in Adverts, NEW loc \in Origins, Redirected(list, loc) PROVE IInv'
  <2>1. list \in Seq(Origins) /\ Elems(list) \subseteq Origins
        /\ NodesOf(list) \in Seq(Origins) /\ NodesOf(list) # <<>>
        /\ Elems(NodesOf(list)) \subseteq Elems(list) \cup {Base}
    BY RunnerAssumption, Lists
  <2>2. Pinned(list) => Elems(list) \subseteq Siblings \cup {Base}
    BY DEF Pinned, Elems
  <2>3. TypeOK'
    BY RunnerAssumption, <1>0, <1>6, <2>1 DEF TypeOK, RedirectNode, Redirected
  <2>4. Vetting'
    BY RunnerAssumption, <1>0, <1>6, <2>1, <2>2 DEF TypeOK, Vetting, Allowed, IsEntire, RedirectNode, Redirected
  <2>5. Probing'
    BY RunnerAssumption, <1>0, <1>6 DEF TypeOK, Probing, RedirectNode, Redirected
  <2>6. Counting'
    BY RunnerAssumption, <1>0, <1>6 DEF TypeOK, Counting, IsEntire, RedirectNode, Redirected
  <2>7. Budgeting'
    BY RunnerAssumption, <1>0, <1>6 DEF TypeOK, Counting, Budgeting, Reserved, PerLevel, IsSession, RedirectNode, Redirected
  <2> QED BY <2>3, <2>4, <2>5, <2>6, <2>7 DEF IInv
<1>7. ASSUME NEW list \in Adverts, NEW present \in BOOLEAN, ReplicaAnswered(list, present) PROVE IInv'
  <2> DEFINE inEffect == IF present THEN list ELSE advertised
  <2>1. list \in Seq(Origins) /\ inEffect \in Seq(Origins)
    BY RunnerAssumption, <1>0 DEF TypeOK
  <2>2. /\ Elems(inEffect) \subseteq Origins /\ Elems(list) \subseteq Origins
        /\ NodesOf(inEffect) \in Seq(Origins) /\ NodesOf(inEffect) # <<>>
        /\ Elems(NodesOf(inEffect)) \subseteq Elems(inEffect) \cup {Base}
    BY <2>1, Lists
  <2>3. Pinned(inEffect) => Elems(inEffect) \subseteq Siblings \cup {Base}
    BY DEF Pinned, Elems
  <2>4. Elems(inEffect) \subseteq named'
    BY RunnerAssumption, <1>0, <1>7 DEF ReplicaAnswered, Vetting
  <2>5. /\ step = "reprobe" /\ advertised' = inEffect
        /\ named' = IF present THEN named \cup Elems(list) ELSE named
        /\ IF Vetted(inEffect) THEN Resolved(NodesOf(inEffect))
           ELSE step' = "refused" /\ UNCHANGED <<nodes, unprobed>>
        /\ UNCHANGED <<cfg, now, via, budget, sweep, idle, presented, withOptions>>
    BY <1>7 DEF ReplicaAnswered
  <2> HIDE DEF inEffect
  <2>6. TypeOK'
    BY RunnerAssumption, <1>0, <2>1, <2>2, <2>5 DEF TypeOK, Resolved
  <2>7. Vetting'
    BY RunnerAssumption, <1>0, <2>2, <2>3, <2>4, <2>5 DEF TypeOK, Vetting, Allowed, IsEntire, Resolved, Vetted
  <2>8. Probing'
    BY RunnerAssumption, <1>0, <2>2, <2>5 DEF TypeOK, Probing, Resolved
  <2>9. Counting'
    BY RunnerAssumption, <1>0, <1>7 DEF TypeOK, Counting, IsEntire, ReplicaAnswered, Resolved, Vetted
  <2>10. Budgeting'
    BY RunnerAssumption, <1>0, <1>7 DEF TypeOK, Counting, Budgeting, Reserved, PerLevel, IsSession, ReplicaAnswered, Resolved, Vetted
  <2> QED BY <2>6, <2>7, <2>8, <2>9, <2>10 DEF IInv
<1>8. ASSUME NEW pair \in unprobed, ProbeOptions(pair) PROVE IInv'
  <2>1. pair[1] \in Elems(nodes)
    BY RunnerAssumption, <1>0, <1>8 DEF Probing
  <2>2. TypeOK'
    BY RunnerAssumption, <1>0, <1>8 DEF TypeOK, ProbeOptions
  <2>3. Vetting'
    BY RunnerAssumption, <1>0, <1>8, <2>1 DEF TypeOK, Vetting, Allowed, IsEntire, ProbeOptions
  <2>4. Probing'
    BY RunnerAssumption, <1>0, <1>8 DEF TypeOK, Probing, ProbeOptions
  <2>5. Counting'
    BY RunnerAssumption, <1>0, <1>8 DEF TypeOK, Counting, IsEntire, ProbeOptions
  <2>6. Budgeting'
    BY RunnerAssumption, <1>0, <1>8 DEF TypeOK, Counting, Budgeting, Reserved, PerLevel, IsSession, ProbeOptions
  <2> QED BY <2>2, <2>3, <2>4, <2>5, <2>6 DEF IInv
<1>9. CASE OptionsProbed
  <2>1. TypeOK'
    BY RunnerAssumption, <1>0, <1>9 DEF TypeOK, OptionsProbed
  <2>2. Vetting'
    BY RunnerAssumption, <1>0, <1>9 DEF TypeOK, Vetting, Allowed, IsEntire, OptionsProbed
  <2>3. Probing'
    BY RunnerAssumption, <1>0, <1>9 DEF TypeOK, Probing, OptionsProbed, AllProbed
  <2>4. Counting'
    BY RunnerAssumption, <1>0, <1>9 DEF TypeOK, Counting, IsEntire, OptionsProbed
  <2>5. Budgeting'
    BY RunnerAssumption, <1>0, <1>9 DEF TypeOK, Counting, Budgeting, Reserved, PerLevel, IsSession, OptionsProbed
  <2> QED BY <2>1, <2>2, <2>3, <2>4, <2>5 DEF IInv
<1>10. CASE CoveredAtSetUp
  <2>1. TypeOK'
    BY RunnerAssumption, <1>0, <1>10 DEF TypeOK, CoveredAtSetUp
  <2>2. Vetting'
    BY RunnerAssumption, <1>0, <1>10 DEF TypeOK, Vetting, Allowed, IsEntire, CoveredAtSetUp
  <2>3. Probing'
    BY RunnerAssumption, <1>0, <1>10 DEF TypeOK, Probing, CoveredAtSetUp
  <2>4. Counting'
    BY RunnerAssumption, <1>0, <1>10 DEF TypeOK, Counting, IsEntire, CoveredAtSetUp
  <2>5. PerLevel' = PerLevel /\ PerLevel \in Nat /\ Reserved' = Reserved /\ Reserved \in Nat
    BY RunnerAssumption, <1>0, <1>10, Shares DEF CoveredAtSetUp, Reserved, PerLevel, IsSession, TypeOK
  <2>6. levelsLeft >= 1 /\ levelsLeft \in Nat
    BY RunnerAssumption, <1>0, <1>10 DEF CoveredAtSetUp, Counting, TypeOK
  <2>7. Need = Reserved + Skew
    BY RunnerAssumption, <1>0, <2>6, NeedIs
  <2>8. Budgeting'
    BY RunnerAssumption, <1>0, <1>10, <2>5, <2>7 DEF TypeOK, Budgeting, CoveredAtSetUp
  <2> QED BY <2>1, <2>2, <2>3, <2>4, <2>8 DEF IInv
<1>11. CASE NotCovered
  <2>1. TypeOK'
    BY RunnerAssumption, <1>0, <1>11 DEF TypeOK, NotCovered, Refuse
  <2>2. Vetting'
    BY RunnerAssumption, <1>0, <1>11 DEF TypeOK, Vetting, Allowed, IsEntire, NotCovered, Refuse
  <2>3. Probing'
    BY RunnerAssumption, <1>0, <1>11 DEF TypeOK, Probing, NotCovered, Refuse
  <2>4. Counting'
    BY RunnerAssumption, <1>0, <1>11 DEF TypeOK, Counting, IsEntire, NotCovered, Refuse
  <2>5. Budgeting'
    BY RunnerAssumption, <1>0, <1>11 DEF TypeOK, Counting, Budgeting, Reserved, PerLevel, IsSession, NotCovered, Refuse
  <2> QED BY <2>1, <2>2, <2>3, <2>4, <2>5 DEF IInv
<1>12. ASSUME NEW ok \in BOOLEAN, Build(ok) PROVE IInv'
  <2>1. TypeOK'
    BY RunnerAssumption, <1>0, <1>12 DEF TypeOK, Build
  <2>2. Vetting'
    BY RunnerAssumption, <1>0, <1>12 DEF TypeOK, Vetting, Allowed, IsEntire, Build
  <2>3. Probing'
    BY RunnerAssumption, <1>0, <1>12 DEF TypeOK, Probing, Build
  <2>4. Counting'
    BY RunnerAssumption, <1>0, <1>12 DEF TypeOK, Counting, IsEntire, Build
  <2>5. Budgeting'
    BY RunnerAssumption, <1>0, <1>12 DEF TypeOK, Counting, Budgeting, Reserved, PerLevel, IsSession, Build
  <2> QED BY <2>1, <2>2, <2>3, <2>4, <2>5 DEF IInv
<1>13. CASE Fire
  <2>1. TypeOK'
    BY RunnerAssumption, <1>0, <1>13 DEF TypeOK, Fire
  <2>2. Vetting'
    BY RunnerAssumption, <1>0, <1>13 DEF TypeOK, Vetting, Allowed, IsEntire, Fire
  <2>3. Probing'
    BY RunnerAssumption, <1>0, <1>13 DEF TypeOK, Probing, Fire
  <2>4. Counting'
    BY RunnerAssumption, <1>0, <1>13 DEF TypeOK, Counting, IsEntire, Fire
  <2>5. Budgeting'
    BY RunnerAssumption, <1>0, <1>13 DEF TypeOK, Counting, Budgeting, Reserved, PerLevel, IsSession, Fire
  <2> QED BY <2>1, <2>2, <2>3, <2>4, <2>5 DEF IInv
<1>14. CASE StartLevel
  <2>1. levelsLeft \in Nat /\ levelsLeft >= 1
    BY RunnerAssumption, <1>0, <1>14 DEF StartLevel, Counting, TypeOK
  <2>2. levelsLeft' = levelsLeft - 1 /\ levelsLeft' \in Nat
    BY <1>14, <2>1 DEF StartLevel, OneLess
  <2>3. {NodeOf(i) : i \in Agents} \subseteq Elems(nodes)
    BY RunnerAssumption, <1>0, <1>14, Placement DEF Probing, StartLevel
  <2>4. Elems(nodes) \subseteq Origins
    BY RunnerAssumption, <1>0 DEF TypeOK, Elems
  <2>5. TypeOK'
    BY RunnerAssumption, <1>0, <1>14, <2>2, <2>3, <2>4 DEF TypeOK, StartLevel
  <2>6. Vetting'
    BY RunnerAssumption, <1>0, <1>14, <2>3 DEF TypeOK, Vetting, Allowed, IsEntire, StartLevel
  <2>7. Probing'
    BY RunnerAssumption, <1>0, <1>14 DEF TypeOK, Probing, StartLevel
  <2>8. Counting'
    BY RunnerAssumption, <1>0, <1>14, <2>2 DEF TypeOK, Counting, IsEntire, StartLevel
  <2>9. /\ PerLevel' = PerLevel /\ PerLevel \in Nat
        /\ levelsLeft' * PerLevel \in Nat /\ levelsLeft * PerLevel = levelsLeft' * PerLevel + PerLevel
    <3>1. PerLevel' = PerLevel
      BY <1>14 DEF StartLevel, PerLevel, IsSession
    <3>2. levelsLeft' + 1 = levelsLeft
      BY <2>1, <2>2
    <3> QED BY <3>1, <3>2, <2>2, Shares
  <2>10. Need = Reserved + Skew
    BY RunnerAssumption, <1>0, <2>1, NeedIs
  <2>11. tokenExp \in Nat \/ tokenExp = NoExp
    BY RunnerAssumption, <1>0 DEF TypeOK
  <2>12. /\ step = "released" /\ step' = "level"
         /\ now' = now /\ firedAt' = firedAt /\ tokenExp' = tokenExp /\ slack' = slack /\ idle' = idle
         /\ tokenExp # NoExp => tokenExp - firedAt >= Reserved + Skew
    BY <1>14, <2>10 DEF StartLevel, TokenCovers
  <2>13. now \in Nat /\ firedAt \in Nat /\ idle \in Nat /\ slack \in Int /\ Skew \in Nat
    BY RunnerAssumption, <1>0 DEF TypeOK
  <2>14. /\ Reserved' \in Nat /\ Reserved = Reserved' + PerLevel
         /\ PerLevel \in Nat /\ PerLevel' = PerLevel
    BY <2>9 DEF Reserved
  <2>15. Budgeting'
    BY RunnerAssumption, <1>0, <2>11, <2>12, <2>13, <2>14, LevelBudget
  <2> QED BY <2>5, <2>6, <2>7, <2>8, <2>15 DEF IInv
<1>15. CASE RefuseLevel
  <2>1. TypeOK'
    BY RunnerAssumption, <1>0, <1>15 DEF TypeOK, RefuseLevel
  <2>2. Vetting'
    BY RunnerAssumption, <1>0, <1>15 DEF TypeOK, Vetting, Allowed, IsEntire, RefuseLevel
  <2>3. Probing'
    BY RunnerAssumption, <1>0, <1>15 DEF TypeOK, Probing, RefuseLevel
  <2>4. Counting'
    BY RunnerAssumption, <1>0, <1>15 DEF TypeOK, Counting, IsEntire, RefuseLevel
  <2>5. Budgeting'
    BY RunnerAssumption, <1>0, <1>15 DEF TypeOK, Counting, Budgeting, Reserved, PerLevel, IsSession, RefuseLevel
  <2> QED BY <2>1, <2>2, <2>3, <2>4, <2>5 DEF IInv
<1>16. CASE LevelReturns
  <2>1. TypeOK'
    BY RunnerAssumption, <1>0, <1>16 DEF TypeOK, Counting, LevelReturns
  <2>2. Vetting'
    BY RunnerAssumption, <1>0, <1>16 DEF TypeOK, Vetting, Allowed, IsEntire, LevelReturns
  <2>3. Probing'
    BY RunnerAssumption, <1>0, <1>16 DEF TypeOK, Probing, LevelReturns
  <2>4. Counting'
    BY RunnerAssumption, <1>0, <1>16 DEF TypeOK, Counting, IsEntire, LevelReturns
  <2>5. Budgeting'
    BY RunnerAssumption, <1>0, <1>16 DEF TypeOK, Counting, Budgeting, Reserved, PerLevel, IsSession, LevelReturns
  <2> QED BY <2>1, <2>2, <2>3, <2>4, <2>5 DEF IInv
<1>17. CASE Stop
  <2>1. TypeOK'
    BY RunnerAssumption, <1>0, <1>17 DEF TypeOK, Stop
  <2>2. Vetting'
    BY RunnerAssumption, <1>0, <1>17 DEF TypeOK, Vetting, Allowed, IsEntire, Stop
  <2>3. Probing'
    BY RunnerAssumption, <1>0, <1>17 DEF TypeOK, Probing, Stop
  <2>4. Counting'
    BY RunnerAssumption, <1>0, <1>17 DEF TypeOK, Counting, IsEntire, Stop
  <2>5. Budgeting'
    BY RunnerAssumption, <1>0, <1>17 DEF TypeOK, Counting, Budgeting, Reserved, PerLevel, IsSession, Stop
  <2> QED BY <2>1, <2>2, <2>3, <2>4, <2>5 DEF IInv
<1>18. ASSUME NEW i \in Agents, NEW to \in Origins, PushRedirected(i, to) PROVE IInv'
  <2>1. NodeOf(i) \in Elems(nodes)
    BY RunnerAssumption, <1>0, <1>18, Placement DEF Probing, PushRedirected
  <2>2. TypeOK'
    BY RunnerAssumption, <1>0, <1>18 DEF TypeOK, PushRedirected
  <2>3. Vetting'
    BY RunnerAssumption, <1>0, <1>18, <2>1 DEF TypeOK, Vetting, Allowed, IsEntire, PushRedirected, Follows
  <2>4. Probing'
    BY RunnerAssumption, <1>0, <1>18 DEF TypeOK, Probing, PushRedirected
  <2>5. Counting'
    BY RunnerAssumption, <1>0, <1>18 DEF TypeOK, Counting, IsEntire, PushRedirected
  <2>6. Budgeting'
    BY RunnerAssumption, <1>0, <1>18 DEF TypeOK, Counting, Budgeting, Reserved, PerLevel, IsSession, PushRedirected
  <2> QED BY <2>2, <2>3, <2>4, <2>5, <2>6 DEF IInv
<1>19. CASE Close
  <2>1. TypeOK'
    BY RunnerAssumption, <1>0, <1>19 DEF TypeOK, Close
  <2>2. Vetting'
    BY RunnerAssumption, <1>0, <1>19 DEF TypeOK, Vetting, Allowed, IsEntire, Close
  <2>3. Probing'
    BY RunnerAssumption, <1>0, <1>19 DEF TypeOK, Probing, Close
  <2>4. Counting'
    BY RunnerAssumption, <1>0, <1>19 DEF TypeOK, Counting, IsEntire, Close
  <2>5. Budgeting'
    BY RunnerAssumption, <1>0, <1>19 DEF TypeOK, Counting, Budgeting, Reserved, PerLevel, IsSession, Close
  <2> QED BY <2>1, <2>2, <2>3, <2>4, <2>5 DEF IInv
<1>20. CASE TimePasses
  <2>1. TypeOK'
    BY RunnerAssumption, <1>0, <1>20 DEF TypeOK, TimePasses
  <2>2. Vetting'
    BY RunnerAssumption, <1>0, <1>20 DEF TypeOK, Vetting, Allowed, IsEntire, TimePasses
  <2>3. Probing'
    BY RunnerAssumption, <1>0, <1>20 DEF TypeOK, Probing, TimePasses
  <2>4. Counting'
    BY RunnerAssumption, <1>0, <1>20 DEF TypeOK, Counting, IsEntire, TimePasses
  <2>5. PerLevel' = PerLevel /\ PerLevel \in Nat /\ Reserved' = Reserved /\ Reserved \in Nat
    BY RunnerAssumption, <1>0, <1>20, Shares DEF TimePasses, Reserved, PerLevel, IsSession, TypeOK
  <2>6. Latest = firedAt + PerLevel
    BY RunnerAssumption, <1>0, LatestIs DEF TypeOK
  <2>7. /\ now' = now + 1 /\ UNCHANGED <<step, tokenExp, firedAt, slack>>
        /\ step = "level" => now < Latest /\ idle' = idle
        /\ step # "level" => idle' = idle + 1
    BY <1>20 DEF TimePasses, budget, sweep
  <2>8. /\ now \in Int /\ firedAt \in Int /\ idle \in Int /\ slack \in Int /\ Skew \in Int
        /\ tokenExp # NoExp => tokenExp \in Int
    BY RunnerAssumption, <1>0 DEF TypeOK
  <2>9. ASSUME step = "level" PROVE Budgeting'
    BY <1>0, <2>5, <2>6, <2>7, <2>8, <2>9 DEF Budgeting
  <2>10. ASSUME step # "level" PROVE Budgeting'
    BY <1>0, <2>5, <2>7, <2>8, <2>10 DEF Budgeting
  <2>11. Budgeting'
    BY <2>9, <2>10
  <2> QED BY <2>1, <2>2, <2>3, <2>4, <2>11 DEF IInv
<1>21. CASE UNCHANGED vars
  <2>1. TypeOK'
    BY RunnerAssumption, <1>0, <1>21 DEF TypeOK, vars
  <2>2. Vetting'
    BY RunnerAssumption, <1>0, <1>21 DEF TypeOK, Vetting, Allowed, IsEntire, vars
  <2>3. Probing'
    BY RunnerAssumption, <1>0, <1>21 DEF TypeOK, Probing, vars
  <2>4. Counting'
    BY RunnerAssumption, <1>0, <1>21 DEF TypeOK, Counting, IsEntire, vars
  <2>5. Budgeting'
    BY RunnerAssumption, <1>0, <1>21 DEF TypeOK, Counting, Budgeting, Reserved, PerLevel, IsSession, vars
  <2> QED BY <2>1, <2>2, <2>3, <2>4, <2>5 DEF IInv
<1> QED
  BY <1>1, <1>2, <1>3, <1>4, <1>5, <1>6, <1>7, <1>8, <1>9, <1>10, <1>11, <1>12, <1>13, <1>14, <1>15, <1>16, <1>17, <1>18, <1>19, <1>20, <1>21 DEF Next, NewRunner, RunLevel, Over

-----------------------------------------------------------------------------
(* The theorems *)

LEMMA SpecInv == Spec => []IInv
<1>1. Init => IInv
  BY InitInv
<1>2. IInv /\ [Next]_vars => IInv'
  BY NextInv
<1> QED BY <1>1, <1>2, PTL DEF Spec

\* Every reachable state of the set-up and of the levels is of its type.
THEOREM TypeCorrect == Spec => []TypeOK
<1>1. IInv => TypeOK
  BY DEF IInv
<1> QED BY <1>1, SpecInv, PTL

\* The token outlives every level: what tokenCovers found at the shared start
\* holds to the end of the drain and of the clean-up of sessions.
THEOREM TokenSafe == Spec => []TokenOutlivesTheLevel
<1>1. IInv => TokenOutlivesTheLevel
  <2> SUFFICES ASSUME IInv, step = "level", now <= Latest, IsEntire, exp # NoExp
               PROVE  now + Skew <= exp
    BY DEF TokenOutlivesTheLevel
  <2>1. tokenExp = exp
    BY DEF IInv, Counting, Underway
  <2>2. Latest = firedAt + PerLevel /\ PerLevel \in Nat /\ Skew \in Nat
    BY LatestIs, Shares DEF IInv, TypeOK
  <2>3. tokenExp - firedAt >= PerLevel + Skew
    BY <2>1 DEF IInv, Budgeting
  <2>4. exp \in Nat /\ now \in Nat /\ firedAt \in Nat
    BY RunnerAssumption DEF IInv, TypeOK
  <2> QED BY <2>1, <2>2, <2>3, <2>4
<1> QED BY <1>1, SpecInv, PTL

\* A level is refused only for time lost between the levels.
THEOREM RefusalsSafe == Spec => []RefusalsAreDueToDelays
<1>1. IInv => RefusalsAreDueToDelays
  <2> SUFFICES ASSUME IInv, step = "released", ~TokenCovers(firedAt)
               PROVE  idle > slack
    BY DEF RefusalsAreDueToDelays
  <2>1. TypeOK /\ levelsLeft \in Nat /\ levelsLeft >= 1
    BY RunnerAssumption DEF IInv, TypeOK, Counting, Underway
  <2>2. Need = Reserved + Skew /\ Reserved \in Nat /\ Skew \in Nat
    BY <2>1, NeedIs, Shares
  <2>3. tokenExp # NoExp /\ ~(tokenExp - firedAt >= Need)
    BY DEF TokenCovers
  <2>4. tokenExp - firedAt + idle >= slack + Reserved + Skew
    BY <2>3 DEF IInv, Budgeting
  <2>5. tokenExp \in Nat /\ firedAt \in Nat /\ idle \in Nat /\ slack \in Int
    BY <2>1, <2>3, RunnerAssumption DEF TypeOK
  <2> QED BY <2>2, <2>3, <2>4, <2>5
<1> QED BY <1>1, SpecInv, PTL

\* No push option is dropped in silence.
THEOREM OptionsSafe == Spec => []OptionsWhereverPushed
<1>1. IInv => OptionsWhereverPushed
  <2> SUFFICES ASSUME IInv, step = "level", cfg.options, NEW i \in Agents
               PROVE  <<NodeOf(i), RepoOf(i)>> \in withOptions
    BY DEF OptionsWhereverPushed
  <2>1. TypeOK /\ nodes # <<>> /\ Repos # <<>>
    BY DEF IInv, Probing, Underway, Gone
  <2>2. NodeOf(i) \in Elems(nodes) /\ RepoOf(i) \in Elems(Repos)
    BY <2>1, Placement
  <2>3. Elems(nodes) \X Elems(Repos) \subseteq withOptions
    BY DEF IInv, Probing, Underway
  <2> QED BY <2>2, <2>3
<1> QED BY <1>1, SpecInv, PTL

\* The credential stays on the pinned nodes.
THEOREM PinnedSafe == Spec => []CredentialStaysPinned
<1>1. IInv => CredentialStaysPinned
  BY DEF IInv, Vetting, Allowed, CredentialStaysPinned
<1> QED BY <1>1, SpecInv, PTL
=============================================================================
