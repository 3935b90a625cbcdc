------------------------------ MODULE DockerCompose ------------------------------
(***************************************************************************)
(* initDockerCompose and closeDockerCompose: the set-up and the tear-down  *)
(* of a docker-compose environment for a run of tests, which the module    *)
(* and globalThis both remember.  Docker itself is external.               *)
(***************************************************************************)
CONSTANTS
    Composes,       \* the calls of the set-up; each names the environment it makes
    None

VARIABLES
    compose,        \* compose[c]: how far the set-up c is
    up,             \* the environments that are up
    environment,    \* the environment that the module knows
    global,         \* globalThis.__TESTCONTAINERS__
    closing,        \* the environment that a tear-down takes down, if one runs
    doubled         \* history: an environment came up beside another

vars == <<compose, up, environment, global, closing, doubled>>

Init ==
    /\ compose = [c \in Composes |-> "idle"]
    /\ up = {}
    /\ environment = None
    /\ global = None
    /\ closing = None
    /\ doubled = FALSE

--------------------------------------------------------------------------------
InitDockerCompose(c) ==
    /\ compose[c] = "idle"
    /\ compose' = [compose EXCEPT ![c] = "waiting"]
    /\ UNCHANGED <<up, environment, global, closing, doubled>>

\* An error is swallowed and nothing is up.
ComposeUp(c) ==
    /\ compose[c] = "waiting"
    /\ \/ /\ compose' = [compose EXCEPT ![c] = "failed"]
          /\ UNCHANGED <<up, environment, global, doubled>>
       \/ /\ compose' = [compose EXCEPT ![c] = "up"]
          /\ up' = up \cup {c}
          /\ environment' = c
          /\ global' = c
          /\ doubled' = (doubled \/ up # {})
    /\ UNCHANGED <<closing>>

\* The module is evaluated again, as for a tear-down in a file of its own.
Reload ==
    /\ environment' = None
    /\ UNCHANGED <<compose, up, global, closing, doubled>>

StartedEnvironment == IF environment # None THEN environment ELSE global

\* Without an environment the call of down throws, which is swallowed.
CloseDockerCompose ==
    /\ closing = None
    /\ closing' = StartedEnvironment
    /\ UNCHANGED <<compose, up, environment, global, doubled>>

\* Mutant: the environment is forgotten whether or not it went down.
ComposeDownForgetting ==
    /\ closing # None
    /\ closing' = None
    /\ up' \in {up, up \ {closing}}
    /\ environment' = None
    /\ global' = None
    /\ UNCHANGED <<compose, doubled>>

\* down ends, or fails: then nothing is forgotten.
ComposeDown ==
    /\ closing # None
    /\ closing' = None
    /\ \/ UNCHANGED <<up, environment, global>>
       \/ up' = up \ {closing} /\ environment' = None /\ global' = None
    /\ UNCHANGED <<compose, doubled>>

--------------------------------------------------------------------------------
Next ==
    \/ \E c \in Composes : InitDockerCompose(c) \/ ComposeUp(c)
    \/ Reload
    \/ CloseDockerCompose
    \/ ComposeDown

Spec == Init /\ [][Next]_vars

--------------------------------------------------------------------------------
\* The next tear-down closes the environment that is up, also after one that failed
\* and in a module evaluated again, unless another came up beside it.  Tear-downs do not
\* overlap, by the guard of closing: a runner awaits its global tear-down.
ComposeKnown == ~doubled => up \subseteq {StartedEnvironment}

================================================================================
