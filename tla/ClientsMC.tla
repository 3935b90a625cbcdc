-------------------------------- MODULE ClientsMC --------------------------------
(* Model values and files with which TLC checks Clients.                       *)
EXTENDS Clients, TLC

MCPartials == <<<<"", "header">>, <<"es", "header">>, <<"es", "footer">>>>
MCTemplates == {<<"", "welcome">>, <<"", "header">>}

MCOptions ==
    {[name |-> "unnamed", reuse |-> FALSE, image |-> "mongo"]}
    \cup [name : {"fixed"}, reuse : BOOLEAN, image : {"mongo"}]
    \cup [name : {"fixed"}, reuse : {TRUE}, image : {"redis"}]

Symmetry == Permutations(Sends) \cup Permutations(Disconnects) \cup Permutations(Instances)
================================================================================
