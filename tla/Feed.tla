-------------------------------- MODULE Feed --------------------------------
(***************************************************************************)
(* What a run's event stream promises its viewers (sse.js: "handlers can   *)
(* treat the stream as gapless and in-order"): one append-only log, and    *)
(* viewers that each read it from the first event on, one event at a time, *)
(* whatever happens to the connections underneath.                         *)
(***************************************************************************)
EXTENDS Naturals, Sequences

CONSTANT Viewers

VARIABLES log,     \* the events of the run so far
          sealed,  \* no event will be added any more
          seen     \* what each viewer's handlers were called with

vars == <<log, sealed, seen>>

Init == /\ log = <<>>
        /\ sealed = FALSE
        /\ seen = [v \in Viewers |-> <<>>]

\* The log grows at its end by one event; nothing written ever changes.
Publish == /\ ~sealed
           /\ Len(log') = Len(log) + 1
           /\ SubSeq(log', 1, Len(log)) = log
           /\ UNCHANGED <<sealed, seen>>

Seal == /\ log # <<>>
        /\ sealed' = TRUE
        /\ UNCHANGED <<log, seen>>

Unread(v) == Len(seen[v]) < Len(log)

Read(v) == /\ Unread(v)
           /\ seen' = [seen EXCEPT ![v] = Append(@, log[Len(@) + 1])]
           /\ UNCHANGED <<log, sealed>>

Next == Publish \/ Seal \/ \E v \in Viewers : Read(v)

\* Every viewer keeps being served as long as there is something it has not read.
Spec == Init /\ [][Next]_vars /\ \A v \in Viewers : WF_vars(Read(v))
=============================================================================
