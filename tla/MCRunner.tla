------------------------------ MODULE MCRunner ------------------------------
(* Two repositories; an entry host, a sibling of it and a foreign origin.  Two *)
(* levels, the second with agents enough for every node and every repository,  *)
(* paired as the agents' numbers pair them.                                    *)
EXTENDS Runner

MCRepos == <<"p", "q">>
MCOrigins == {"entry", "sibling", "foreign"}
MCAdverts == {<<>>, <<"sibling">>, <<"entry", "sibling">>, <<"sibling", "foreign">>}
MCSweep == <<1, 4>>
=============================================================================
