------------------------------- MODULE MCStats -------------------------------
(* Three latencies in two buckets; error texts of more keys than are reported, *)
(* two of them of one; and ranks computed too high, of two samples and of four *)
(* (the code's are of 1000 and more).                                          *)
EXTENDS Stats

MCLatHistIdx == [l \in Latencies |-> IF l = 1 THEN 1 ELSE 2]
MCFloatAbove == {<<500, 2>>, <<250, 4>>}
MCKey == [m \in Raw |-> IF m \in {"m1", "m2"} THEN "k1" ELSE IF m = "m3" THEN "k2" ELSE "k3"]
MCOrder == <<"k1", "k2", "k3", Other>>
MCBefore(k, l) == \E i, j \in DOMAIN MCOrder : i < j /\ MCOrder[i] = k /\ MCOrder[j] = l
=============================================================================
