------------------------------- MODULE MCSweep -------------------------------
(* One repository with three refs of one run and one of a later run, another *)
(* with a stale ref and a branch of somebody else's.                         *)
EXTENDS Sweep

MCRefs == {[repo |-> "a", born |-> 0, n |-> i] : i \in 1..3}
          \cup {[repo |-> "a", born |-> 1, n |-> 1], [repo |-> "b", born |-> 0, n |-> 1],
                [repo |-> "b", born |-> Foreign, n |-> 1]}
=============================================================================
