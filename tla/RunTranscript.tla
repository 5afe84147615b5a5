---------------------------- MODULE RunTranscript ----------------------------
(***************************************************************************)
(* What the event log of a run may say, and in which order: hello; for     *)
(* each level, in turn, its start, its buckets and its result; run_done.   *)
(* The dashboard, the race view and the history replay are written against *)
(* this order.  Targets coming up, dying or being swept are remarks that   *)
(* may come anywhere and are left out.                                     *)
(***************************************************************************)
EXTENDS Naturals, Sequences, FiniteSets

CONSTANTS Levels  \* the number of concurrency levels of the workload

VARIABLE log

Said(name) == \E i \in DOMAIN log : log[i].name = name
Count(name) == Cardinality({i \in DOMAIN log : log[i].name = name})

\* The level in progress, and whether its start has been announced.
Current == Count("level_result")
Started == Count("level_start") > Current

Say(e) == log' = Append(log, e)

Init == log = <<[name |-> "hello"]>>

LevelStart == /\ ~Said("run_done")
              /\ ~Started /\ Current < Levels
              /\ Say([name |-> "level_start", level |-> Current])

\* A bucket carries samples of the level it is attributed to and of no other.
\* The first one may overtake the announcement of its level.
Bucket == /\ ~Said("run_done") /\ Current < Levels
          /\ \E of \in {{}, {Current}} :
               Say([name |-> "bucket", level |-> Current, of |-> of])

LevelResult == /\ Started /\ ~Said("run_done")
               /\ Say([name |-> "level_result", level |-> Current])

\* A run is done only when the result of every level has been published.
RunDone == /\ ~Said("run_done")
           /\ \E state \in {"done", "failed", "cancelled"} :
                /\ state = "done" => Current = Levels
                /\ Say([name |-> "run_done", state |-> state])

Next == LevelStart \/ Bucket \/ LevelResult \/ RunDone

Spec == Init /\ [][Next]_log
==============================================================================
