--------------------------------- MODULE CoreMC ---------------------------------
(* Model values and inputs with which TLC checks Core.                         *)
EXTENDS Core, SequencesExt, TLC

CONSTANTS s1, s2, s3, home, mobile, r1, r2

MCNumber == [w \in {"7", "007"} |-> 7]

Paths == {"storage", "memory", "elasticsearch", "camunda", "typeorm", "redis", "services"}
MCConfigs ==
    {[path \in Paths |-> "given"],
     [path \in Paths |-> IF path = "redis" THEN "given" ELSE "absent"],
     [path \in Paths |-> IF path = "memory" THEN "heap only" ELSE "empty"],
     [path \in Paths |-> IF path = "services" THEN "bad url" ELSE "absent"]}

MCCalls ==
    [level : {"info", "error", "silent"}, message : {"text", "error", "object"},
     params : BoundedSeq({"text", "stack", "other"}, 2)]

MCRedactions ==
    [paths : {{}, {"body", "query"}, {"headers", "response"}}, censor : {2, None}, serialize : {FALSE}]
    \cup [paths : {{"body"}}, censor : {0, 2}, serialize : BOOLEAN]

Symmetry == Permutations(Secrets) \cup Permutations(Addresses) \cup Permutations(Requests)
================================================================================
