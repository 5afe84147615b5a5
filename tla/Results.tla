------------------------------- MODULE Results -------------------------------
(***************************************************************************)
(* The directory of result documents (internal/results): the server and    *)
(* CLI processes write into it, the history handlers of the server read    *)
(* it, two at a time, and people edit it.  A write takes two steps, the    *)
(* file being empty or cut in between, and a process can die or the disk   *)
(* fill up at each.                                                        *)
(*                                                                         *)
(* Of a document the model keeps what the two readers of it, readSummary   *)
(* and Load, tell apart.  Reading one file is one step.                    *)
(***************************************************************************)
EXTENDS Integers, SequencesExt

CONSTANTS
  Runs,        \* of the server
  Clis,        \* CLI processes
  Requests,    \* of the history
  Files,
  Directory,   \* those whose name is of the shape List looks for, by name
  FileOf,      \* run -> its file
  Outs,        \* the files a CLI can be told to write, its default included
  Found,       \* file -> what is in it at the beginning
  Namespace,   \* of the workloads
  Levels,      \* of every sweep
  States,      \* a run can end in
  Asks,        \* request -> what it can ask for: a listing, one of the files
  historyReaders,
  Editable, MaxEdits  \* bounds: the files edited by hand, and how often

Discoverable == Range(Directory)

ASSUME ResultsAssumption ==
  /\ Runs \cap Clis = {}
  /\ Directory \in Seq(Files) /\ FileOf \in [Runs -> Discoverable] /\ Outs \subseteq Files /\ Editable \subseteq Discoverable
  /\ \A r, s \in Runs : FileOf[r] = FileOf[s] => r = s
  /\ DOMAIN Found = Files /\ "none" \notin Files
  /\ States \subseteq {"done", "cancelled", "failed"} /\ Asks \in [Requests -> SUBSET ({"listing"} \cup Files)]
  /\ Levels \in Nat \ {0} /\ historyReaders \in Nat \ {0} /\ MaxEdits \in Nat

VARIABLES
  up,         \* the server
  file,       \* file -> its content
  phase,      \* run or CLI -> executing, saving, opened, saved, unsaved, ended, dead
  out,        \* run or CLI -> the file it writes
  doc,        \* run or CLI -> the document it has made
  complete,   \* CLI -> levels that returned
  announced,  \* run -> results_file of run_done
  edits,
  asked,      \* request -> nothing, a listing, or a file
  at,         \* request -> away, waiting, begun, reading, answering, gone
  queue,      \* requests that wait for a slot, first come first served
  todo,       \* request -> the entries of the directory, by place, not yet looked at
  answer,     \* request -> the listing, so far
  steady      \* history: request -> files that could be listed ever since its ReadDir

writers == <<phase, out, doc, complete, announced>>
readers == <<asked, at, queue, todo, answer, steady>>
vars    == <<up, file, writers, edits, readers>>

Absent == [damage |-> "absent"]
NoDoc  == [format |-> 2, targets |-> <<>>, target |-> "", levels |-> 0, ns |-> "", state |-> ""]
Whole(d) == [damage |-> "none", doc |-> d]
Cut(d)   == [damage |-> "cut", doc |-> d]
Writers  == Runs \cup Clis

-----------------------------------------------------------------------------
(* What is read out of a file *)

\* A file that is cut, or damaged in its levels, does not decode; readSummary skips
\* the series.
Summarizable(c) == c.damage \in {"none", "series"}
Loadable(c) == c.damage = "none"

IsLegacy(d) == d.format = 0 /\ d.targets = <<>>
NamespaceOf(d) == IF d.ns = "" THEN "refs/heads/" ELSE d.ns
Most(ns) == Max({0} \cup ns)

AsStored(d) == [targets |-> [i \in DOMAIN d.targets |-> d.targets[i].name],  \* wrong: not normalized
                levels |-> Most({d.targets[i].levels : i \in DOMAIN d.targets}),
                state |-> d.state, ns |-> NamespaceOf(d)]

ReadSummary(d) ==
  [targets |-> IF IsLegacy(d) THEN <<d.target>> ELSE [i \in DOMAIN d.targets |-> d.targets[i].name],
   levels  |-> Most({d.targets[i].levels : i \in DOMAIN d.targets} \cup IF IsLegacy(d) THEN {d.levels} ELSE {}),
   state   |-> IF IsLegacy(d) THEN "done" ELSE d.state,
   ns      |-> NamespaceOf(d)]

Load(d) ==
  [targets |-> IF IsLegacy(d) THEN <<[name |-> d.target, levels |-> d.levels]>> ELSE d.targets,
   state   |-> IF IsLegacy(d) THEN "done" ELSE d.state,
   ns      |-> NamespaceOf(d)]

-----------------------------------------------------------------------------
Init ==
  /\ up = TRUE /\ file = Found /\ edits = 0
  /\ phase = [w \in Writers |-> "executing"]
  /\ out \in {o \in [Writers -> Files] : /\ \A r \in Runs : o[r] = FileOf[r]
                                         /\ \A p \in Clis : o[p] \in Outs}
  /\ doc = [w \in Writers |-> NoDoc] /\ complete = [p \in Clis |-> 0]
  /\ announced = [r \in Runs |-> "none"]
  /\ asked = [q \in Requests |-> "nothing"] /\ at = [q \in Requests |-> "away"] /\ queue = <<>>
  /\ todo = [q \in Requests |-> {}]
  /\ answer = [q \in Requests |-> {}] /\ steady = [q \in Requests |-> {}]

-----------------------------------------------------------------------------
(* Writers *)

\* persistResults: the document of a run that ended in state s after n levels.
RunEnds(r, s, n) ==
  /\ up /\ phase[r] = "executing"
  /\ doc' = [doc EXCEPT ![r] = [NoDoc EXCEPT !.targets = <<[name |-> "t", levels |-> n]>>, !.ns = Namespace, !.state = s]]
  /\ phase' = [phase EXCEPT ![r] = "saving"]
  /\ UNCHANGED <<up, file, out, complete, announced, edits, readers>>

\* A level of a CLI returns; a cancelled one returns too, with what it has.
CliLevel(p) ==
  /\ phase[p] = "executing" /\ complete[p] < Levels
  /\ complete' = [complete EXCEPT ![p] = @ + 1]
  /\ UNCHANGED <<up, file, phase, out, doc, announced, edits, readers>>

\* writeResults: after the sweep, or after the interrupt that ended it.
CliEnds(p) ==
  /\ phase[p] = "executing"
  /\ doc' = [doc EXCEPT ![p] = [NoDoc EXCEPT !.format = 0, !.target = "t", !.levels = complete[p], !.ns = Namespace]]
  /\ phase' = [phase EXCEPT ![p] = "saving"]
  /\ UNCHANGED <<up, file, out, complete, announced, edits, readers>>

\* An error of the set-up or of a level ends a CLI without results.
CliFails(p) ==
  /\ phase[p] = "executing" /\ phase' = [phase EXCEPT ![p] = "dead"]
  /\ UNCHANGED <<up, file, out, doc, complete, announced, edits, readers>>

\* Every file that changes is off the lists of steady ones.
Put(f, c) ==
  /\ file' = [file EXCEPT ![f] = c]
  /\ steady' = [q \in Requests |-> steady[q] \ {f}]
  /\ UNCHANGED <<asked, at, queue, todo, answer>>

\* Save: the directory or the file cannot be opened ...
OpenFails(w) ==
  /\ phase[w] = "saving" /\ phase' = [phase EXCEPT ![w] = "unsaved"]
  /\ UNCHANGED <<up, file, out, doc, complete, announced, edits, readers>>

\* ... or os.WriteFile truncates it ...
Opens(w) ==
  /\ phase[w] = "saving" /\ phase' = [phase EXCEPT ![w] = "opened"]
  /\ Put(out[w], Cut(doc[w]))
  /\ UNCHANGED <<up, out, doc, complete, announced, edits>>

\* ... and writes, all of it or not.  Where someone else writes the same file, what
\* is left is of either or of both.
Alone(w) ==
  /\ file[out[w]] = Cut(doc[w])
  /\ \A v \in Writers \ {w} : phase[v] = "opened" => out[v] # out[w]

Writes(w) ==
  /\ phase[w] = "opened" /\ phase' = [phase EXCEPT ![w] = "saved"]
  /\ \E c \in {Whole(doc[w])} \cup IF Alone(w) THEN {} ELSE {Cut(doc[w])} : Put(out[w], c)
  /\ UNCHANGED <<up, out, doc, complete, announced, edits>>

WriteFails(w) ==
  /\ phase[w] = "opened" /\ phase' = [phase EXCEPT ![w] = "unsaved"]
  /\ UNCHANGED <<up, file, out, doc, complete, announced, edits, readers>>

\* finish: run_done names the file, if it was written.
EvenUnsaved(r) == out[r]  \* wrong: named in any case
ResultsFile(r) == IF phase[r] = "saved" THEN out[r] ELSE "none"

Announce(r) ==
  /\ phase[r] \in {"saved", "unsaved"}
  /\ announced' = [announced EXCEPT ![r] = ResultsFile(r)]
  /\ phase' = [phase EXCEPT ![r] = "ended"]
  /\ UNCHANGED <<up, file, out, doc, complete, edits, readers>>

-----------------------------------------------------------------------------
(* limitHistory *)

InHand == {q \in Requests : at[q] \in {"begun", "reading", "answering"}}

SlotFree == Cardinality(InHand) < historyReaders

Arrive(q, what) ==
  /\ up /\ at[q] = "away" /\ asked' = [asked EXCEPT ![q] = what]
  /\ IF SlotFree
     THEN at' = [at EXCEPT ![q] = "begun"] /\ UNCHANGED queue
     ELSE at' = [at EXCEPT ![q] = "waiting"] /\ queue' = Append(queue, q)
  /\ UNCHANGED <<up, file, writers, edits, todo, answer, steady>>

Forget(qs) ==
  /\ asked' = [q \in Requests |-> IF q \in qs THEN "nothing" ELSE asked[q]]
  /\ todo' = [q \in Requests |-> IF q \in qs THEN {} ELSE todo[q]]
  /\ answer' = [q \in Requests |-> IF q \in qs THEN {} ELSE answer[q]]
  /\ steady' = [q \in Requests |-> IF q \in qs THEN {} ELSE steady[q]]

\* A client that gives up while it waits just leaves.
HangUp(q) ==
  /\ at[q] = "waiting" /\ at' = [at EXCEPT ![q] = "gone"]
  /\ \E i \in DOMAIN queue : queue[i] = q /\ queue' = RemoveAt(queue, i)
  /\ Forget({q}) /\ UNCHANGED <<up, file, writers, edits>>

\* The handler returns, its response written or its client gone; the slot goes to
\* the first that waits.
Dropped(q) == at' = [at EXCEPT ![q] = "gone"] /\ UNCHANGED queue  \* wrong: the slot is lost on the waiting
HandOn(q) ==
  IF queue = <<>> THEN at' = [at EXCEPT ![q] = "gone"] /\ UNCHANGED queue
  ELSE at' = [at EXCEPT ![q] = "gone", ![Head(queue)] = "begun"] /\ queue' = Tail(queue)

Return(q) ==
  /\ at[q] = "answering" /\ HandOn(q)
  /\ Forget({q}) /\ UNCHANGED <<up, file, writers, edits>>

-----------------------------------------------------------------------------
(* handleHistory, handleHistoryDoc *)

ReadDir(q) ==
  /\ at[q] = "begun" /\ asked[q] = "listing"
  /\ at' = [at EXCEPT ![q] = "reading"]
  /\ todo' = [todo EXCEPT ![q] = {i \in DOMAIN Directory : file[Directory[i]] # Absent}]
  /\ steady' = [steady EXCEPT ![q] = {f \in Discoverable : Summarizable(file[f])}]
  /\ UNCHANGED <<up, file, writers, edits, asked, queue, answer>>

\* What cannot be summarized, or is gone by now, is skipped.
UntilBad(q) == IF Summarizable(file[Directory[Min(todo[q])]]) THEN todo[q] \ {Min(todo[q])} ELSE {}  \* wrong: it ends the listing
Others(q) == todo[q] \ {Min(todo[q])}

ReadEntry(q) ==
  LET f == Directory[Min(todo[q])] IN
  /\ at[q] = "reading" /\ todo[q] # {}
  /\ todo' = [todo EXCEPT ![q] = Others(q)]
  /\ answer' = [answer EXCEPT ![q] =
       IF Summarizable(file[f]) THEN @ \cup {[file |-> f, summary |-> ReadSummary(file[f].doc)]} ELSE @]
  /\ UNCHANGED <<up, file, writers, edits, asked, at, queue, steady>>

Listed(q) ==
  /\ at[q] = "reading" /\ todo[q] = {} /\ at' = [at EXCEPT ![q] = "answering"]
  /\ UNCHANGED <<up, file, writers, edits, asked, queue, todo, answer, steady>>

\* What it is answered, the document or an error, is Load's of the file then.
LoadDoc(q) ==
  /\ at[q] = "begun" /\ asked[q] \in Files /\ at' = [at EXCEPT ![q] = "answering"]
  /\ UNCHANGED <<up, file, writers, edits, asked, queue, todo, answer, steady>>

-----------------------------------------------------------------------------
(* Crashes, and people *)

\* The server dies with its runs and requests; another is started.
ServerDies ==
  /\ up /\ up' = FALSE
  /\ phase' = [w \in Writers |-> IF w \in Runs /\ phase[w] # "ended" THEN "dead" ELSE phase[w]]
  /\ at' = [q \in Requests |-> IF at[q] = "away" THEN "away" ELSE "gone"] /\ queue' = <<>>
  /\ Forget(Requests) /\ UNCHANGED <<file, out, doc, complete, announced, edits>>

ServerStarts ==
  /\ ~up /\ up' = TRUE
  /\ UNCHANGED <<file, writers, edits, readers>>

CliDies(p) ==
  /\ phase[p] \in {"saving", "opened"} /\ phase' = [phase EXCEPT ![p] = "dead"]
  /\ UNCHANGED <<up, file, out, doc, complete, announced, edits, readers>>

\* A file is removed, or damaged in its series or elsewhere.
Edit(f, damage) ==
  /\ edits < MaxEdits /\ edits' = edits + 1
  /\ file[f].damage \in {"none", "series"}
  /\ Put(f, IF damage = "absent" THEN Absent ELSE [file[f] EXCEPT !.damage = damage])
  /\ UNCHANGED <<up, writers>>

Write == \/ \E r \in Runs, n \in 0..Levels, s \in States : RunEnds(r, s, n)
         \/ \E p \in Clis : CliLevel(p) \/ CliEnds(p) \/ CliFails(p) \/ CliDies(p)
         \/ \E w \in Writers : OpenFails(w) \/ Opens(w) \/ Writes(w) \/ WriteFails(w)
         \/ \E r \in Runs : Announce(r)

Handle(q) == ReadDir(q) \/ ReadEntry(q) \/ Listed(q) \/ LoadDoc(q) \/ Return(q)

Read == \/ \E q \in Requests : Handle(q) \/ HangUp(q)
        \/ \E q \in Requests : \E what \in Asks[q] : Arrive(q, what)

Next == \/ Write \/ Read \/ ServerDies \/ ServerStarts
        \/ \E f \in Editable, d \in {"absent", "cut", "series"} : Edit(f, d)
        \/ /\ \A w \in Writers : phase[w] \in {"saved", "unsaved", "ended", "dead"}
           /\ UNCHANGED vars

\* The handlers of requests run on; a client takes its response or is cut off.
Spec == Init /\ [][Next]_vars /\ \A q \in Requests : WF_vars(Handle(q))

-----------------------------------------------------------------------------
(* Properties *)

TypeOK ==
  /\ up \in BOOLEAN /\ edits \in 0..MaxEdits
  /\ \A f \in Files : file[f].damage \in {"absent", "none", "cut", "series"}
  /\ phase \in [Writers -> {"executing", "saving", "opened", "saved", "unsaved", "ended", "dead"}]
  /\ out \in [Writers -> Files] /\ announced \in [Runs -> Files \cup {"none"}]
  /\ complete \in [Clis -> 0..Levels]
  /\ asked \in [Requests -> {"nothing", "listing"} \cup Files]
  /\ at \in [Requests -> {"away", "waiting", "begun", "reading", "answering", "gone"}]
  /\ todo \in [Requests -> SUBSET DOMAIN Directory] /\ steady \in [Requests -> SUBSET Discoverable]

\* What a listing says of a document is what opening it shows: the same targets,
\* state and namespace, of old documents too.
SummaryOf(view) ==
  [targets |-> [i \in DOMAIN view.targets |-> view.targets[i].name],
   levels  |-> Most({view.targets[i].levels : i \in DOMAIN view.targets}),
   state   |-> view.state, ns |-> view.ns]

\* A listing has every document that could be read all the while, whatever else is
\* in the directory, half written, damaged or removed meanwhile; and says of it what
\* opening it would.
ListingsTellTheTruth ==
  \A q \in Requests : at[q] = "answering" /\ asked[q] = "listing" =>
    \A f \in steady[q] : {e \in answer[q] : e.file = f} = {[file |-> f, summary |-> SummaryOf(Load(file[f].doc))]}

\* The file that run_done named holds the whole document of the run, after crashes
\* and restarts too, unless a CLI was told to write it or it was edited.
AnnouncedLoads ==
  \A r \in Runs :
    announced[r] # "none" /\ out[r] \notin Editable /\ (\A p \in Clis : out[p] # out[r]) =>
      Loadable(file[announced[r]]) /\ Load(file[announced[r]].doc) = Load(doc[r])

\* Whoever waits gets a turn, leaves, or is cut off with the server.
EveryReaderEnds == \A q \in Requests : at[q] # "away" ~> at[q] = "gone"
=============================================================================
