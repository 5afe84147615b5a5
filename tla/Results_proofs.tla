---------------------------- MODULE Results_proofs ----------------------------
(***************************************************************************)
(* What a run announces is on the disk, whole, and stays there: for any    *)
(* number of runs, CLI processes, readers and edits, and for crashes of    *)
(* the server between any two steps.  And a listing says of each document  *)
(* what its opening would show, whatever is written beside it.             *)
(***************************************************************************)
EXTENDS Results, WellFoundedInduction, TLAPS

(* The inductive invariant *)

Shape ==
  /\ DOMAIN file = Files
  /\ DOMAIN phase = Writers /\ DOMAIN doc = Writers /\ DOMAIN announced = Runs
  /\ out \in [Writers -> Files] /\ \A r \in Runs : out[r] = FileOf[r]

\* Nobody but the run itself writes its file.
Exclusive(r) == out[r] \notin Editable /\ \A p \in Clis : out[p] # out[r]

\* The file of a run at every step of its writing: only once it is written whole
\* is it announced, and nothing happens to it later, whoever dies.
Written ==
  \A r \in Runs :
    /\ announced[r] # "none" => phase[r] = "ended" /\ announced[r] = out[r]
    /\ Exclusive(r) =>
         /\ phase[r] = "opened" => file[out[r]] = Cut(doc[r])
         /\ phase[r] = "saved" \/ announced[r] # "none" => file[out[r]] = Whole(doc[r])

IInv == Shape /\ Written

-----------------------------------------------------------------------------
(* Lemmas *)

LEMMA ListedFiles == Discoverable \subseteq Files
BY ResultsAssumption DEF Discoverable, Range

\* Two runs never write the same file, nor does a run share one with anybody if it
\* is exclusive.
LEMMA FilesApart ==
  ASSUME Shape, NEW r \in Runs, Exclusive(r), NEW w \in Writers, w # r
  PROVE  out[w] # out[r]
BY ResultsAssumption DEF Shape, Exclusive, Writers

\* A run's own steps aside, what happens to the files leaves the run's alone.
LEMMA Untouched ==
  ASSUME Shape, NEW r \in Runs, NEW f \in Files, NEW c, Put(f, c), f # out[r]
  PROVE  file'[out[r]] = file[out[r]]
BY DEF Shape, Put, Writers

\* Steps that change neither files nor documents nor announcements, and bring no
\* writer to a place where its file matters, preserve the invariant.
Harmless ==
  /\ UNCHANGED <<file, out, announced>>
  /\ DOMAIN phase' = DOMAIN phase /\ DOMAIN doc' = DOMAIN doc
  /\ \A r \in Runs :
       /\ phase'[r] \in {"opened", "saved"} => phase'[r] = phase[r] 
       /\ phase[r] = "ended" => phase'[r] = "ended"
       /\ phase[r] # "executing" => doc'[r] = doc[r]
       /\ phase'[r] \in {"opened", "saved"} \/ announced[r] # "none" => phase[r] # "executing"

LEMMA HarmlessSteps ==
  ASSUME IInv, Harmless
  PROVE  IInv'
<1>1. Shape'
  BY DEF IInv, Shape, Harmless
<1>2. ASSUME NEW r \in Runs PROVE
        /\ announced'[r] # "none" => phase'[r] = "ended" /\ announced'[r] = out'[r]
        /\ Exclusive(r)' =>
             /\ phase'[r] = "opened" => file'[out'[r]] = Cut(doc[r])'
             /\ phase'[r] = "saved" \/ announced'[r] # "none" => file'[out'[r]] = Whole(doc[r])'
  BY <1>2 DEF IInv, Written, Harmless, Exclusive, Cut, Whole
<1> QED
  BY <1>1, <1>2 DEF IInv, Written, Cut, Whole

-----------------------------------------------------------------------------
(* The steps *)

LEMMA Initially == Init => IInv
<1> SUFFICES ASSUME Init PROVE IInv
  OBVIOUS
<1>1. Shape
  BY ResultsAssumption DEF Init, Shape, Writers
<1>2. Written
  BY DEF Init, Written, Writers
<1> QED
  BY <1>1, <1>2 DEF IInv

\* The reading side, deaths and the writing that leaves files alone.
LEMMA QuietSteps ==
  ASSUME IInv,
         \/ Read \/ ServerDies \/ ServerStarts \/ UNCHANGED vars
         \/ \E r \in Runs, n \in 0..Levels, s \in States : RunEnds(r, s, n)
         \/ \E p \in Clis : CliLevel(p) \/ CliEnds(p) \/ CliFails(p) \/ CliDies(p)
         \/ \E w \in Writers : OpenFails(w) \/ WriteFails(w)
  PROVE  IInv'
<1>1. CASE Read
  <2>1. UNCHANGED <<file, phase, out, doc, announced>>
    BY <1>1 DEF Read, Handle, ReadDir, ReadEntry, Listed, LoadDoc, Return, HangUp, Arrive, writers
  <2> QED
    BY <2>1, HarmlessSteps DEF Harmless, IInv, Written
<1>2. CASE ServerDies
  BY <1>2, HarmlessSteps DEF ServerDies, Harmless, IInv, Shape, Written, Writers
<1>3. CASE ServerStarts \/ UNCHANGED vars
  BY <1>3, HarmlessSteps DEF ServerStarts, vars, writers, Harmless, IInv, Written
<1>4. ASSUME NEW r \in Runs, NEW n \in 0..Levels, NEW s \in States, RunEnds(r, s, n)
      PROVE  IInv'
  BY <1>4, HarmlessSteps DEF RunEnds, Harmless, IInv, Shape, Written, Writers
<1>5. ASSUME NEW p \in Clis, CliLevel(p) \/ CliEnds(p) \/ CliFails(p) \/ CliDies(p)
      PROVE  IInv'
  <2>1. p \in Writers /\ p \notin Runs
    BY ResultsAssumption DEF Writers
  <2>2. /\ UNCHANGED <<file, out, announced>>
        /\ DOMAIN phase' = DOMAIN phase /\ DOMAIN doc' = DOMAIN doc
        /\ \A r \in Runs : phase'[r] = phase[r] /\ doc'[r] = doc[r]
    BY <1>5, <2>1 DEF CliLevel, CliEnds, CliFails, CliDies, readers, IInv, Shape, Writers
  <2> QED
    BY <2>2, HarmlessSteps DEF Harmless, IInv, Written
<1>6. ASSUME NEW w \in Writers, OpenFails(w) \/ WriteFails(w)
      PROVE  IInv'
  BY <1>6, HarmlessSteps DEF OpenFails, WriteFails, Harmless, IInv, Shape, Written, Writers
<1> QED
  BY <1>1, <1>2, <1>3, <1>4, <1>5, <1>6

\* A writer truncates its file.
LEMMA OpensStep ==
  ASSUME IInv, NEW w \in Writers, Opens(w)
  PROVE  IInv'
<1> USE DEF IInv
<1>1. Shape' /\ UNCHANGED <<out, doc, announced>>
  BY DEF Opens, Put, Shape
<1>2. ASSUME NEW r \in Runs, Exclusive(r), r # w
      PROVE  file'[out[r]] = file[out[r]] /\ phase'[r] = phase[r]
  <2>1. out[w] # out[r]
    BY <1>2, FilesApart
  <2> QED
    BY <1>2, <2>1, Untouched DEF Opens, Shape, Writers
<1>3. phase[w] = "saving" /\ phase'[w] = "opened" /\ file'[out[w]] = Cut(doc[w])
  BY DEF Opens, Put, Shape
<1>4. \A r \in Runs : r # w => phase'[r] = phase[r]
  BY DEF Opens, Shape, Writers
<1> QED
  BY <1>1, <1>2, <1>3, <1>4 DEF Written, Exclusive, Cut, Whole

\* A writer finishes its file: a run, alone with it, writes all of it.
LEMMA WritesStep ==
  ASSUME IInv, NEW w \in Writers, Writes(w)
  PROVE  IInv'
<1> USE DEF IInv
<1>1. Shape' /\ UNCHANGED <<out, doc, announced>>
  BY DEF Writes, Put, Shape
<1>2. ASSUME NEW r \in Runs, Exclusive(r), r # w
      PROVE  file'[out[r]] = file[out[r]]
  <2>1. out[w] # out[r]
    BY <1>2, FilesApart
  <2>2. PICK c : Put(out[w], c)
    BY DEF Writes
  <2> QED
    BY <2>1, <2>2, Untouched DEF Shape, Writers
<1>3. ASSUME w \in Runs, Exclusive(w)
      PROVE  file'[out[w]] = Whole(doc[w])
  <2>1. file[out[w]] = Cut(doc[w])
    BY <1>3 DEF Written, Writes
  <2>2. Alone(w)
    BY <1>3, <2>1, FilesApart DEF Alone
  <2> QED
    BY <2>2 DEF Writes, Put, Shape
<1>4. /\ phase[w] = "opened" /\ phase'[w] = "saved"
      /\ \A r \in Runs : r # w => phase'[r] = phase[r]
  BY DEF Writes, Shape, Writers
<1> QED
  BY <1>1, <1>2, <1>3, <1>4 DEF Written, Exclusive, Cut, Whole

\* A run says run_done.
LEMMA AnnounceStep ==
  ASSUME IInv, NEW r \in Runs, Announce(r)
  PROVE  IInv'
<1> USE DEF IInv
<1>1. Shape' /\ UNCHANGED <<file, out, doc>>
  BY DEF Announce, Shape
<1>2. /\ phase'[r] = "ended" /\ announced'[r] = ResultsFile(r)
      /\ \A s \in Runs : s # r => phase'[s] = phase[s] /\ announced'[s] = announced[s]
  BY DEF Announce, Shape, Writers
<1> QED
  BY <1>1, <1>2 DEF Written, Exclusive, ResultsFile, Cut, Whole

\* Somebody edits a file: none of an exclusive run.
LEMMA EditStep ==
  ASSUME IInv, NEW f \in Editable, NEW d \in {"absent", "cut", "series"}, Edit(f, d)
  PROVE  IInv'
<1> USE DEF IInv
<1>1. f \in Files /\ UNCHANGED <<phase, out, doc, announced>>
  BY ResultsAssumption, ListedFiles DEF Edit, writers
<1>2. PICK c : Put(f, c)
  BY DEF Edit
<1>3. Shape'
  BY <1>1, <1>2 DEF Put, Shape
<1>4. ASSUME NEW r \in Runs, Exclusive(r)
      PROVE  file'[out[r]] = file[out[r]]
  BY <1>1, <1>2, <1>4, Untouched DEF Exclusive
<1> QED
  BY <1>1, <1>3, <1>4 DEF Written, Exclusive, Cut, Whole

LEMMA Inductive == IInv /\ [Next]_vars => IInv'
<1> SUFFICES ASSUME IInv, [Next]_vars PROVE IInv'
  OBVIOUS
<1>1. CASE Write
  <2>1. ASSUME NEW w \in Writers, Opens(w) \/ Writes(w) PROVE IInv'
    BY <2>1, OpensStep, WritesStep
  <2>2. ASSUME NEW r \in Runs, Announce(r) PROVE IInv'
    BY <2>2, AnnounceStep
  <2> QED
    BY <1>1, <2>1, <2>2, QuietSteps DEF Write
<1>2. ASSUME NEW f \in Editable, NEW d \in {"absent", "cut", "series"}, Edit(f, d) PROVE IInv'
  BY <1>2, EditStep
<1> QED
  BY <1>1, <1>2, QuietSteps DEF Next

\* The invariant holds throughout.
LEMMA Invariance == Spec => []IInv
<1>1. Init => IInv
  BY Initially
<1>2. IInv /\ [Next]_vars => IInv'
  BY Inductive
<1> QED
  BY <1>1, <1>2, PTL DEF Spec

-----------------------------------------------------------------------------
\* The file a run named in run_done holds its whole document, whatever crashed or
\* was written in the meantime: persistResults names a file only after Save, and
\* no two runs share one.
THEOREM AnnouncedSafe == Spec => []AnnouncedLoads
<1>1. ASSUME IInv, NEW r \in Runs,
             announced[r] # "none", out[r] \notin Editable, \A p \in Clis : out[p] # out[r]
      PROVE  Loadable(file[announced[r]]) /\ Load(file[announced[r]].doc) = Load(doc[r])
  <2>1. file[announced[r]] = Whole(doc[r])
    BY <1>1 DEF IInv, Written, Exclusive
  <2>2. Whole(doc[r]).damage = "none" /\ Whole(doc[r]).doc = doc[r]
    BY DEF Whole
  <2> QED
    BY <2>1, <2>2 DEF Loadable
<1>2. IInv => AnnouncedLoads
  BY <1>1 DEF AnnouncedLoads
<1> QED
  BY <1>2, Invariance, PTL

-----------------------------------------------------------------------------
(* What a listing tells *)

Current(f) == [file |-> f, summary |-> SummaryOf(Load(file[f].doc))]
Entries(q, f) == {e \in answer[q] : e.file = f}
Ahead(q, f) == \E i \in todo[q] : Directory[i] = f

\* Requests wait once each, and only in the queue is a request given a slot.
QueueInv ==
  /\ queue \in Seq(Requests)
  /\ \A i \in DOMAIN queue : at[queue[i]] = "waiting"
  /\ \A i, j \in DOMAIN queue : queue[i] = queue[j] => i = j

\* A file that could be listed all the while is still to be looked at or listed, and
\* listed as it is.
ListingInv(q) ==
  /\ at[q] # "reading" => todo[q] = {}
  /\ at[q] \notin {"reading", "answering"} => answer[q] = {} /\ steady[q] = {}
  /\ todo[q] \subseteq DOMAIN Directory /\ steady[q] \subseteq Discoverable
  /\ \A f \in steady[q] :
       /\ Summarizable(file[f]) /\ Entries(q, f) \subseteq {Current(f)}
       /\ Ahead(q, f) \/ Entries(q, f) = {Current(f)}

ReadShape ==
  /\ at \in [Requests -> {"away", "waiting", "begun", "reading", "answering", "gone"}]
  /\ DOMAIN todo = Requests /\ DOMAIN answer = Requests /\ DOMAIN steady = Requests

ReadInv == ReadShape /\ QueueInv /\ \A q \in Requests : ListingInv(q)

LEMMA LeastNumber ==
  ASSUME NEW S \in SUBSET Nat, S # {}
  PROVE  Min(S) \in S
<1> DEFINE Less == OpToRel(<, Nat)
<1>1. IsWellFoundedOn(Less, Nat)
  BY NatLessThanWellFounded, Zenon
<1>2. Less = {p \in Nat \X Nat : p[1] < p[2]}
  BY DEF OpToRel
<1> HIDE DEF Less
<1>3. PICK n \in S : \A m \in S : <<m, n>> \notin Less
  BY <1>1, WFMin
<1>4. \A m \in Nat : m < n => <<m, n>> \in Less
  BY <1>2
<1>5. \A m \in S : ~(m < n)
  BY <1>3, <1>4
<1>6. \A m \in S : n <= m
  BY <1>5
<1> QED BY <1>6 DEF Min

\* Both readers of a document see the same targets, state and namespace in it.
LEMMA ReadersAgree == ASSUME NEW d PROVE SummaryOf(Load(d)) = ReadSummary(d)
<1>1. CASE IsLegacy(d)
  <2> DEFINE one == <<[name |-> d.target, levels |-> d.levels]>>
  <2>1. /\ DOMAIN one = {1} /\ one[1].name = d.target /\ one[1].levels = d.levels
        /\ d.targets = <<>> /\ DOMAIN d.targets = {}
    BY <1>1 DEF IsLegacy
  <2>2. [i \in DOMAIN one |-> one[i].name] = <<d.target>>
    BY <2>1
  <2>3. {one[i].levels : i \in DOMAIN one} = {d.levels}
    BY <2>1
  <2>4. {d.targets[i].levels : i \in DOMAIN d.targets} \cup {d.levels} = {d.levels}
    BY <2>1
  <2>5. Load(d) = [targets |-> one, state |-> "done", ns |-> NamespaceOf(d)]
    BY <1>1 DEF Load
  <2> HIDE DEF one
  <2> QED BY <1>1, <2>2, <2>3, <2>4, <2>5 DEF SummaryOf, ReadSummary
<1>2. CASE ~IsLegacy(d)
  <2>1. Load(d) = [targets |-> d.targets, state |-> d.state, ns |-> NamespaceOf(d)]
    BY <1>2 DEF Load
  <2>2. {d.targets[i].levels : i \in DOMAIN d.targets} \cup {} = {d.targets[i].levels : i \in DOMAIN d.targets}
    OBVIOUS
  <2> QED BY <1>2, <2>1, <2>2 DEF SummaryOf, ReadSummary
<1> QED BY <1>1, <1>2

\* Whoever leaves the queue leaves the others in it, each once.
LEMMA Removing ==
  ASSUME NEW s \in Seq(Requests), NEW k \in DOMAIN s, \A i, j \in DOMAIN s : s[i] = s[j] => i = j
  PROVE  /\ RemoveAt(s, k) \in Seq(Requests)
         /\ \A i \in DOMAIN RemoveAt(s, k) : \E j \in DOMAIN s \ {k} : RemoveAt(s, k)[i] = s[j]
         /\ \A i, j \in DOMAIN RemoveAt(s, k) : RemoveAt(s, k)[i] = RemoveAt(s, k)[j] => i = j
<1> DEFINE t == RemoveAt(s, k)
<1>1. k \in 1..Len(s) /\ Len(s) \in Nat
  OBVIOUS
<1> DEFINE a == SubSeq(s, 1, k - 1)
           b == SubSeq(s, k + 1, Len(s))
<1>a. a \in Seq(Requests) /\ Len(a) = k - 1 /\ \A i \in 1..(k - 1) : a[i] = s[i]
  BY <1>1
<1>b. b \in Seq(Requests) /\ Len(b) = Len(s) - k /\ \A i \in 1..(Len(s) - k) : b[i] = s[k + i]
  BY <1>1
<1>c. t = a \o b
  BY DEF RemoveAt
<1> HIDE DEF a, b, t
<1>2. t \in Seq(Requests) /\ Len(t) = Len(s) - 1
  BY <1>1, <1>a, <1>b, <1>c
<1>3. \A i \in 1..Len(t) : t[i] = IF i < k THEN s[i] ELSE s[i + 1]
  <2> SUFFICES ASSUME NEW i \in 1..Len(t) PROVE t[i] = IF i < k THEN s[i] ELSE s[i + 1]
    OBVIOUS
  <2>1. t[i] = IF i <= k - 1 THEN a[i] ELSE b[i - (k - 1)]
    BY <1>1, <1>2, <1>a, <1>b, <1>c
  <2>2. CASE i < k
    BY <1>1, <1>a, <2>1, <2>2
  <2>3. CASE ~(i < k)
    <3>1. i - (k - 1) \in 1..(Len(s) - k) /\ k + (i - (k - 1)) = i + 1
      BY <1>1, <1>2, <2>3
    <3>2. b[i - (k - 1)] = s[i + 1]
      BY <1>b, <3>1
    <3> QED BY <1>1, <2>1, <2>3, <3>2
  <2> QED BY <2>2, <2>3
<1>4. \A i \in 1..Len(t) : \E j \in DOMAIN s \ {k} : t[i] = s[j]
  <2> TAKE i \in 1..Len(t)
  <2>1. CASE i < k
    BY <1>1, <1>2, <1>3, <2>1
  <2>2. CASE ~(i < k)
    <3>1. i + 1 \in DOMAIN s \ {k} /\ t[i] = s[i + 1]
      BY <1>1, <1>2, <1>3, <2>2
    <3> QED BY <3>1
  <2> QED BY <2>1, <2>2
<1>5. ASSUME NEW i \in 1..Len(t), NEW j \in 1..Len(t), t[i] = t[j] PROVE i = j
  <2> DEFINE was(x) == IF x < k THEN x ELSE x + 1
  <2>1. was(i) \in DOMAIN s /\ was(j) \in DOMAIN s /\ t[i] = s[was(i)] /\ t[j] = s[was(j)]
    BY <1>1, <1>2, <1>3
  <2>2. was(i) = was(j)
    <3> HIDE DEF was
    <3> QED BY <1>5, <2>1
  <2> QED BY <1>1, <1>2, <2>2
<1>6. /\ t \in Seq(Requests)
      /\ \A i \in DOMAIN t : \E j \in DOMAIN s \ {k} : t[i] = s[j]
      /\ \A i, j \in DOMAIN t : t[i] = t[j] => i = j
  <2>1. DOMAIN t = 1..Len(t)
    BY <1>2
  <2> QED BY <1>2, <1>4, <1>5, <2>1
<1> QED BY <1>6 DEF t

\* A listing whose files stay what they are, or are off its list, stays true.
LEMMA ListingStays ==
  ASSUME NEW q \in Requests, ListingInv(q),
         UNCHANGED <<todo[q], answer[q]>>, steady'[q] \subseteq steady[q],
         at'[q] = at[q] \/ {at[q], at'[q]} \cap {"reading", "answering"} = {},
         \A f \in steady'[q] : file'[f] = file[f]
  PROVE  ListingInv(q)'
BY DEF ListingInv, Entries, Ahead, Current

\* So does one that has not begun or is over.
LEMMA ListingEmpty ==
  ASSUME NEW q \in Requests, todo'[q] = {}, answer'[q] = {}, steady'[q] = {}
  PROVE  ListingInv(q)'
BY DEF ListingInv

LEMMA ReadInit == Init => ReadInv
<1> SUFFICES ASSUME Init PROVE ReadInv
  OBVIOUS
<1>1. ReadShape /\ QueueInv
  BY DEF Init, ReadShape, QueueInv
<1>2. \A q \in Requests : ListingInv(q)
  BY DEF Init, ListingInv
<1> QED BY <1>1, <1>2 DEF ReadInv

\* A file that changes is off the lists of steady ones.
LEMMA PutKeeps ==
  ASSUME Shape, ReadInv, NEW f \in Files, NEW c, Put(f, c)
  PROVE  ReadInv'
<1>1. /\ UNCHANGED <<at, queue, todo, answer>>
      /\ DOMAIN steady' = Requests /\ \A q \in Requests : steady'[q] = steady[q] \ {f}
  BY DEF Put
<1>2. \A g \in Files : g # f => file'[g] = file[g]
  BY DEF Put, Shape
<1>3. ReadShape' /\ QueueInv'
  BY <1>1 DEF ReadInv, ReadShape, QueueInv
<1>4. ASSUME NEW q \in Requests PROVE ListingInv(q)'
  <2>1. ListingInv(q) /\ steady'[q] \subseteq steady[q] /\ UNCHANGED <<at[q], todo[q], answer[q]>>
    BY <1>1 DEF ReadInv
  <2>2. \A g \in steady'[q] : g \in Files /\ g # f
    BY <1>1, <2>1, ListedFiles DEF ListingInv
  <2> QED BY <1>2, <2>1, <2>2, ListingStays
<1> QED BY <1>3, <1>4 DEF ReadInv

LEMMA AwayKeeps == ASSUME ReadInv, UNCHANGED <<file, readers>> PROVE ReadInv'
<1>1. UNCHANGED <<file, at, queue, todo, answer, steady>>
  BY DEF readers
<1>2. ASSUME NEW q \in Requests PROVE ListingInv(q)'
  BY <1>1, ListingStays DEF ReadInv
<1>3. ReadShape' /\ QueueInv'
  BY <1>1 DEF ReadInv, ReadShape, QueueInv
<1> QED BY <1>2, <1>3 DEF ReadInv

LEMMA WriteKeeps ==
  ASSUME Shape, ReadInv,
         \/ Write \/ ServerStarts \/ UNCHANGED vars
         \/ \E f \in Editable, d \in {"absent", "cut", "series"} : Edit(f, d)
  PROVE  ReadInv'
<1>1. CASE Write
  <2>1. ASSUME NEW w \in Writers, Opens(w) \/ Writes(w) PROVE ReadInv'
    <3>1. out[w] \in Files /\ \E c : Put(out[w], c)
      BY <2>1 DEF Opens, Writes, Shape
    <3> QED BY <3>1, PutKeeps
  <2>2. ASSUME NEW w \in Writers, OpenFails(w) \/ WriteFails(w) PROVE ReadInv'
    BY <2>2, AwayKeeps DEF OpenFails, WriteFails
  <2>3. ASSUME NEW p \in Clis, CliLevel(p) \/ CliEnds(p) \/ CliFails(p) \/ CliDies(p) PROVE ReadInv'
    BY <2>3, AwayKeeps DEF CliLevel, CliEnds, CliFails, CliDies
  <2>4. ASSUME NEW r \in Runs, Announce(r) \/ \E n \in 0..Levels, s \in States : RunEnds(r, s, n)
        PROVE  ReadInv'
    BY <2>4, AwayKeeps DEF Announce, RunEnds
  <2> QED BY <1>1, <2>1, <2>2, <2>3, <2>4 DEF Write
<1>2. CASE ServerStarts \/ UNCHANGED vars
  BY <1>2, AwayKeeps DEF ServerStarts, vars
<1>3. ASSUME NEW f \in Editable, NEW d \in {"absent", "cut", "series"}, Edit(f, d) PROVE ReadInv'
  <2>1. f \in Files /\ \E c : Put(f, c)
    BY <1>3, ResultsAssumption, ListedFiles DEF Edit
  <2> QED BY <2>1, PutKeeps
<1> QED BY <1>1, <1>2, <1>3

\* What a handler does to its request is nothing to the others and their queue.
LEMMA HandlerKeeps ==
  ASSUME ReadInv, NEW q \in Requests, at[q] # "waiting", UNCHANGED <<file, queue>>, ReadShape',
         \A p \in Requests \ {q} : UNCHANGED <<at[p], todo[p], answer[p], steady[p]>>,
         ListingInv(q)'
  PROVE  ReadInv'
<1>1. QueueInv'
  BY DEF ReadInv, QueueInv
<1>2. ASSUME NEW p \in Requests \ {q} PROVE ListingInv(p)'
  BY <1>2, ListingStays DEF ReadInv
<1> QED BY <1>1, <1>2 DEF ReadInv

LEMMA ReadDirKeeps == ASSUME Shape, ReadInv, NEW q \in Requests, ReadDir(q) PROVE ReadInv'
<1> DEFINE there == {i \in DOMAIN Directory : file[Directory[i]] # Absent}
           whole == {f \in Discoverable : Summarizable(file[f])}
<1>1. /\ at[q] = "begun" /\ at' = [at EXCEPT ![q] = "reading"]
      /\ todo' = [todo EXCEPT ![q] = there] /\ steady' = [steady EXCEPT ![q] = whole]
      /\ UNCHANGED <<file, queue, answer>>
  BY DEF ReadDir
<1>2. ReadShape' /\ at'[q] = "reading" /\ todo'[q] = there /\ steady'[q] = whole /\ answer'[q] = {}
  BY <1>1 DEF ReadInv, ReadShape, ListingInv
<1>3. \A f \in whole : \E i \in there : Directory[i] = f
  BY DEF Discoverable, Range, Summarizable, Absent
<1>4. ListingInv(q)'
  BY <1>1, <1>2, <1>3 DEF ListingInv, Entries, Ahead, Current, Summarizable
<1>5. \A p \in Requests \ {q} : UNCHANGED <<at[p], todo[p], answer[p], steady[p]>>
  BY <1>1 DEF ReadInv, ReadShape
<1> QED BY <1>1, <1>2, <1>4, <1>5, HandlerKeeps

LEMMA ReadEntryKeeps == ASSUME ReadInv, NEW q \in Requests, ReadEntry(q) PROVE ReadInv'
<1> DEFINE k == Min(todo[q])
           f == Directory[k]
           e == [file |-> f, summary |-> ReadSummary(file[f].doc)]
<1>0. todo[q] \subseteq DOMAIN Directory /\ todo[q] # {} /\ todo[q] \subseteq Nat
  BY ResultsAssumption DEF ReadInv, ListingInv, ReadEntry
<1>1. k \in todo[q]
  BY <1>0, LeastNumber
<1>2. /\ at[q] = "reading" /\ todo' = [todo EXCEPT ![q] = @ \ {k}]
      /\ answer' = [answer EXCEPT ![q] = IF Summarizable(file[f]) THEN @ \cup {e} ELSE @]
      /\ UNCHANGED <<file, at, queue, steady>>
  BY DEF ReadEntry, Others
<1>3. e = Current(f)
  BY ReadersAgree DEF Current
<1> HIDE DEF k, f, e
<1>4. /\ ReadShape' /\ todo'[q] = todo[q] \ {k}
      /\ answer'[q] = IF Summarizable(file[f]) THEN answer[q] \cup {e} ELSE answer[q]
  BY <1>2 DEF ReadInv, ReadShape
<1>5. Current(f).file = f
  BY DEF Current
<1>6. ASSUME NEW g \in steady[q]
      PROVE  /\ Summarizable(file[g])' /\ Entries(q, g)' \subseteq {Current(g)'}
             /\ Ahead(q, g)' \/ Entries(q, g)' = {Current(g)'}
  <2>1. /\ Summarizable(file[g]) /\ Entries(q, g) \subseteq {Current(g)} /\ Current(g)' = Current(g)
        /\ Ahead(q, g) \/ Entries(q, g) = {Current(g)}
    BY <1>2 DEF ReadInv, ListingInv, Current
  <2>2. CASE g = f
    <3>1. answer'[q] = answer[q] \cup {Current(g)}
      BY <1>3, <1>4, <2>1, <2>2
    <3>2. Entries(q, g)' = {Current(g)}
      BY <1>5, <2>1, <2>2, <3>1 DEF Entries
    <3> QED BY <1>2, <2>1, <3>2 DEF Summarizable
  <2>3. CASE g # f
    <3>1. Entries(q, g)' = Entries(q, g)
      BY <1>3, <1>4, <1>5, <2>3 DEF Entries
    <3>2. Ahead(q, g) => Ahead(q, g)'
      BY <1>4, <2>3 DEF Ahead, f
    <3> QED BY <1>2, <2>1, <3>1, <3>2 DEF Summarizable
  <2> QED BY <2>2, <2>3
<1>7. ListingInv(q)'
  BY <1>0, <1>2, <1>4, <1>6 DEF ReadInv, ListingInv
<1>8. \A p \in Requests \ {q} : UNCHANGED <<at[p], todo[p], answer[p], steady[p]>>
  BY <1>2 DEF ReadInv, ReadShape
<1> QED BY <1>2, <1>4, <1>7, <1>8, HandlerKeeps

LEMMA AnsweringKeeps == ASSUME ReadInv, NEW q \in Requests, Listed(q) \/ LoadDoc(q) PROVE ReadInv'
<1>1. /\ at[q] \in {"begun", "reading"} /\ at' = [at EXCEPT ![q] = "answering"]
      /\ UNCHANGED <<file, queue, todo, answer, steady>>
      /\ todo[q] = {}
  BY DEF Listed, LoadDoc, ReadInv, ListingInv
<1>2. ReadShape' /\ \A p \in Requests \ {q} : UNCHANGED <<at[p], todo[p], answer[p], steady[p]>>
  BY <1>1 DEF ReadInv, ReadShape
<1>3. ListingInv(q)'
  BY <1>1, <1>2 DEF ReadInv, ReadShape, ListingInv, Entries, Ahead, Current
<1> QED BY <1>1, <1>2, <1>3, HandlerKeeps

LEMMA ArriveKeeps ==
  ASSUME ReadInv, NEW q \in Requests, NEW what, Arrive(q, what)
  PROVE  ReadInv'
<1>1. /\ at[q] = "away" /\ UNCHANGED <<file, todo, answer, steady>>
      /\ \/ at' = [at EXCEPT ![q] = "begun"] /\ UNCHANGED queue
         \/ at' = [at EXCEPT ![q] = "waiting"] /\ queue' = Append(queue, q)
  BY DEF Arrive, writers
<1>2. ReadShape' /\ at'[q] \in {"begun", "waiting"} /\ \A p \in Requests \ {q} : at'[p] = at[p]
  BY <1>1 DEF ReadInv, ReadShape
<1>3. QueueInv'
  <2>1. \A i \in DOMAIN queue : queue[i] # q
    BY <1>1 DEF ReadInv, QueueInv
  <2>2. CASE UNCHANGED queue
    BY <1>2, <2>1, <2>2 DEF ReadInv, QueueInv
  <2>3. CASE at'[q] = "waiting" /\ queue' = Append(queue, q)
    <3>1. /\ queue' \in Seq(Requests) /\ DOMAIN queue' = 1..(Len(queue) + 1)
          /\ queue'[Len(queue) + 1] = q
          /\ \A i \in DOMAIN queue : queue'[i] = queue[i]
          /\ DOMAIN queue = 1..Len(queue) /\ Len(queue) \in Nat
      BY <2>3 DEF ReadInv, QueueInv
    <3> QED BY <1>2, <2>1, <2>3, <3>1 DEF ReadInv, QueueInv
  <2> QED BY <1>1, <1>2, <2>2, <2>3 DEF ReadInv, ReadShape
<1>4. ASSUME NEW p \in Requests PROVE ListingInv(p)'
  BY <1>1, <1>2, ListingStays DEF ReadInv
<1> QED BY <1>2, <1>3, <1>4 DEF ReadInv

LEMMA HangUpKeeps == ASSUME ReadInv, NEW q \in Requests, HangUp(q) PROVE ReadInv'
<1>1. /\ at[q] = "waiting" /\ at' = [at EXCEPT ![q] = "gone"] /\ UNCHANGED file
      /\ \E k \in DOMAIN queue : queue[k] = q /\ queue' = RemoveAt(queue, k)
      /\ Forget({q})
  BY DEF HangUp
<1>2. PICK k \in DOMAIN queue : queue[k] = q /\ queue' = RemoveAt(queue, k)
  BY <1>1
<1>3. ReadShape' /\ at'[q] = "gone" /\ \A p \in Requests \ {q} : at'[p] = at[p]
  BY <1>1 DEF ReadInv, ReadShape, Forget
<1>4. queue \in Seq(Requests) /\ \A i, j \in DOMAIN queue : queue[i] = queue[j] => i = j
  BY DEF ReadInv, QueueInv
<1>5. /\ queue' \in Seq(Requests)
      /\ \A i \in DOMAIN queue' : \E j \in DOMAIN queue \ {k} : queue'[i] = queue[j]
      /\ \A i, j \in DOMAIN queue' : queue'[i] = queue'[j] => i = j
  BY <1>2, <1>4, Removing
<1>6. \A j \in DOMAIN queue \ {k} : queue[j] \in Requests \ {q} /\ at[queue[j]] = "waiting"
  BY <1>2, <1>4 DEF ReadInv, QueueInv
<1>7. QueueInv'
  BY <1>3, <1>5, <1>6 DEF QueueInv
<1>8. ASSUME NEW p \in Requests PROVE ListingInv(p)'
  <2>1. CASE p = q
    BY <1>1, <2>1, ListingEmpty DEF Forget
  <2>2. CASE p # q
    BY <1>1, <1>3, <2>2, ListingStays DEF Forget, ReadInv
  <2> QED BY <2>1, <2>2
<1> QED BY <1>3, <1>7, <1>8 DEF ReadInv

LEMMA ReturnKeeps == ASSUME ReadInv, NEW q \in Requests, Return(q) PROVE ReadInv'
<1>1. at[q] = "answering" /\ HandOn(q) /\ Forget({q}) /\ UNCHANGED file
  BY DEF Return
<1>2. ReadShape' /\ QueueInv'
      /\ \A p \in Requests \ {q} : at'[p] = at[p] \/ (at[p] = "waiting" /\ at'[p] = "begun")
  <2>1. CASE queue = <<>>
    <3>1. at' = [at EXCEPT ![q] = "gone"] /\ queue' = queue
      BY <1>1, <2>1 DEF HandOn
    <3>2. QueueInv'
      BY <2>1, <3>1 DEF QueueInv
    <3>3. ReadShape' /\ \A p \in Requests \ {q} : at'[p] = at[p]
      BY <1>1, <3>1 DEF ReadInv, ReadShape, Forget
    <3> QED BY <3>2, <3>3
  <2>2. CASE queue # <<>>
    <3>1. /\ at' = [at EXCEPT ![q] = "gone", ![Head(queue)] = "begun"] /\ queue' = Tail(queue)
      BY <1>1, <2>2 DEF HandOn
    <3>2. /\ queue \in Seq(Requests) /\ Len(queue) \in Nat \ {0} /\ DOMAIN queue = 1..Len(queue)
          /\ \A i \in DOMAIN queue : at[queue[i]] = "waiting"
          /\ \A i, j \in DOMAIN queue : queue[i] = queue[j] => i = j
      BY <2>2 DEF ReadInv, QueueInv
    <3> DEFINE h == Head(queue)
    <3>3. h = queue[1] /\ 1 \in DOMAIN queue /\ h \in Requests /\ at[h] = "waiting" /\ h # q
      BY <1>1, <2>2, <3>2
    <3>4. /\ queue' \in Seq(Requests) /\ DOMAIN queue' = 1..(Len(queue) - 1)
          /\ \A i \in DOMAIN queue' : queue'[i] = queue[i + 1] /\ i + 1 \in DOMAIN queue
      BY <2>2, <3>1, <3>2
    <3> HIDE DEF h
    <3>5. ReadShape' /\ at'[h] = "begun" /\ at'[q] = "gone" /\ \A p \in Requests \ {q, h} : at'[p] = at[p]
      BY <1>1, <3>1, <3>3 DEF ReadInv, ReadShape, Forget, h
    <3>6. \A i \in DOMAIN queue' : queue'[i] \in Requests \ {q, h}
      <4>1. \A i \in DOMAIN queue' : queue[i + 1] # q
        BY <1>1, <3>2, <3>4
      <4>2. \A i \in DOMAIN queue' : queue[i + 1] # h
        BY <3>2, <3>3, <3>4
      <4>3. \A i \in DOMAIN queue' : queue[i + 1] \in Requests
        BY <3>2, <3>4
      <4> QED BY <3>4, <4>1, <4>2, <4>3
    <3>7. \A i \in DOMAIN queue' : at'[queue'[i]] = "waiting"
      BY <3>2, <3>4, <3>5, <3>6
    <3>8. ASSUME NEW i \in DOMAIN queue', NEW j \in DOMAIN queue', queue'[i] = queue'[j] PROVE i = j
      <4>1. i + 1 = j + 1
        BY <3>2, <3>4, <3>8
      <4> QED BY <3>2, <3>4, <4>1
    <3>9. QueueInv'
      BY <3>4, <3>7, <3>8 DEF QueueInv
    <3>10. ASSUME NEW p \in Requests \ {q}
           PROVE  at'[p] = at[p] \/ (at[p] = "waiting" /\ at'[p] = "begun")
      <4>1. CASE p = h
        BY <3>3, <3>5, <4>1
      <4>2. CASE p # h
        BY <3>5, <4>2
      <4> QED BY <4>1, <4>2
    <3> QED BY <3>5, <3>9, <3>10
  <2> QED BY <2>1, <2>2
<1>3. ASSUME NEW p \in Requests PROVE ListingInv(p)'
  <2>1. CASE p = q
    BY <1>1, <2>1, ListingEmpty DEF Forget
  <2>2. CASE p # q
    BY <1>1, <1>2, <2>2, ListingStays DEF Forget, ReadInv
  <2> QED BY <2>1, <2>2
<1> QED BY <1>2, <1>3 DEF ReadInv

LEMMA DiesKeeps == ASSUME ReadInv, ServerDies PROVE ReadInv'
<1>1. /\ at' = [q \in Requests |-> IF at[q] = "away" THEN "away" ELSE "gone"] /\ queue' = <<>>
      /\ Forget(Requests)
  BY DEF ServerDies
<1>2. ReadShape' /\ QueueInv'
  BY <1>1 DEF ReadShape, QueueInv, Forget
<1>3. ASSUME NEW p \in Requests PROVE ListingInv(p)'
  BY <1>1, ListingEmpty DEF Forget
<1> QED BY <1>2, <1>3 DEF ReadInv

LEMMA ReadNext == IInv /\ ReadInv /\ [Next]_vars => ReadInv'
<1> SUFFICES ASSUME Shape, ReadInv, [Next]_vars PROVE ReadInv'
  BY DEF IInv
<1>1. CASE Read
  BY <1>1, ReadDirKeeps, ReadEntryKeeps, AnsweringKeeps, ArriveKeeps, HangUpKeeps, ReturnKeeps
  DEF Read, Handle
<1> QED BY <1>1, WriteKeeps, DiesKeeps DEF Next

\* A listing has every document that could be read all the while, and says of it what
\* opening it would, whatever is written, removed, damaged or lost in the meantime.
THEOREM ListingsSafe == Spec => []ListingsTellTheTruth
<1>1. ReadInv => ListingsTellTheTruth
  <2> SUFFICES ASSUME ReadInv, NEW q \in Requests, at[q] = "answering", NEW f \in steady[q]
               PROVE  Entries(q, f) = {Current(f)}
    BY DEF ListingsTellTheTruth, Entries, Current
  <2> QED BY DEF ReadInv, ListingInv, Ahead
<1> QED BY <1>1, ReadInit, ReadNext, Invariance, PTL DEF Spec
===============================================================================
