------------------------------ MODULE MCResults ------------------------------
(* A run, a CLI that may be told to write its own file, the run's or one that *)
(* no listing finds, and a document found there whose age is told by what it  *)
(* lacks; two requests for one slot.                                         *)
EXTENDS Results

MCFiles == {"run", "cli", "old", "elsewhere"}
MCDirectory == <<"cli", "old", "run">>
MCFileOf == [r \in Runs |-> "run"]
MCAsks == [q \in Requests |-> IF q = "first" THEN {"listing"} ELSE {"listing", "run"}]
MCFound == [f \in MCFiles |->
              IF f = "old" THEN Whole([NoDoc EXCEPT !.targets = <<[name |-> "a", levels |-> 1], [name |-> "b", levels |-> 2]>>,
                                                    !.state = "failed"])
              ELSE Absent]
=============================================================================
