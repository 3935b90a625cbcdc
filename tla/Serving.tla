--------------------------------- MODULE Serving ---------------------------------
(***************************************************************************)
(* What serves a request: the pipeline around its handler, and the ids     *)
(* that handlers make.  The two share no state: a behaviour is one of one  *)
(* part, chosen at the beginning, while the other stays as it begins.      *)
(***************************************************************************)
EXTENDS Snowflake, RequestPipeline

VARIABLE part

sumVars == <<part, vars, pipelineVars>>

\* One beginning of the part that does nothing is enough.
SumInit ==
    /\ Init /\ PipelineInit
    /\ \/ part = "ids" /\ chain = (CHOOSE c \in Chains : TRUE) /\ sdk = "off"
       \/ part = "pipeline" /\ now = 0

SumNext ==
    \/ part = "ids" /\ Next /\ UNCHANGED <<part, pipelineVars>>
    \/ part = "pipeline" /\ PipelineNext /\ UNCHANGED <<part, vars>>

SumSpec == SumInit /\ [][SumNext]_sumVars
================================================================================
