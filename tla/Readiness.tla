-------------------------------- MODULE Readiness --------------------------------
(***************************************************************************)
(* From the environment to the readiness of an application: the schema     *)
(* that validates its variables at the start, with Zod or with Joi, which  *)
(* checks SKIP_HEALTH_CHECKS leaves out, and the checks that               *)
(* ReadinessController runs of what is configured and not left out.        *)
(*                                                                         *)
(* Zod, Joi and terminus, which runs the checks at the same time and       *)
(* answers 503 if one is down, are external.                               *)
(***************************************************************************)
EXTENDS Naturals, SequencesExt

CONSTANTS
    Services,       \* the services whose liveness is checked
    Configs,        \* the configurations: what is absent, empty or given
    Volatile        \* the parts that go down and come back

VARIABLES
    env,            \* the variables of the process, by kind, and the schema in use
    config,         \* config[p]: what the application is configured with
    app,            \* "none", "up", or "refused" by its schema
    down,           \* the parts that are down
    checking,       \* the checks of the request in progress that have not answered
    report,         \* the parts that its answers say are down
    verdict,        \* "none", "pending", "ok" or "error"
    asked,          \* the checks that the request made
    wasDown,        \* history: the parts that were down since the request came in
    wasUp           \* history: those that were up since then

vars == <<env, config, app, down, checking, report, verdict, asked, wasDown, wasUp>>

ESkipHealthChecks == {"storage", "memory", "elasticsearch", "camunda", "typeorm", "redis"}
Parts == {"storage", "heap", "rss", "elasticsearch", "camunda", "typeorm", "redis"} \cup Services

\* The path of the configuration a check looks at, and the name that skips it.
Path(part) == IF part \in Services THEN "services" ELSE IF part \in {"heap", "rss"} THEN "memory" ELSE part

Kinds == {"absent", "empty", "text", "number", "boolean"}
NoEnv ==
    [string |-> "text", number |-> "number", boolean |-> "boolean", optional |-> "absent",
     stage |-> "local", csrf |-> "absent", validates |-> FALSE, skip |-> <<>>, schema |-> "zod"]
Envs ==
    UNION {
        {[NoEnv EXCEPT !.schema = s, !.string = k] : k \in Kinds}
        \cup {[NoEnv EXCEPT !.schema = s, !.number = k] : k \in Kinds}
        \cup {[NoEnv EXCEPT !.schema = s, !.boolean = k] : k \in Kinds}
        \cup {[NoEnv EXCEPT !.schema = s, !.optional = k] : k \in Kinds}
        \cup {[NoEnv EXCEPT !.schema = s, !.stage = g, !.csrf = c, !.validates = TRUE] :
                g \in {"local", "prod", "unknown"}, c \in {"absent", "empty", "text", "good"}}
        \cup {[NoEnv EXCEPT !.schema = s, !.skip = l] :
                l \in BoundedSeq({"", "redis", "memory", "unknown"}, 2)}
        : s \in {"zod", "joi"}}

Init ==
    /\ env \in Envs
    /\ config \in Configs
    /\ app = "none"
    /\ down = {} /\ checking = {} /\ report = {} /\ verdict = "none"
    /\ asked = {} /\ wasDown = {} /\ wasUp = {}

--------------------------------------------------------------------------------
(* The variables.  SKIP_HEALTH_CHECKS is the list of its items, <<>> if it is  *)
(* absent and <<"">> if it is empty.                                           *)

\* z.string takes an empty text, z.coerce.number makes 0 of it.
ZodAccepts(e) ==
    /\ e.string # "absent"
    /\ e.number \in {"empty", "number"}
    /\ e.boolean = "boolean"
    /\ e.stage # "unknown"
    /\ ToSet(e.skip) \subseteq ESkipHealthChecks
    /\ e.validates /\ e.stage = "prod" => e.csrf = "good"

\* Joi refuses an empty text wherever it is given.
JoiAccepts(e) ==
    /\ e.string \notin {"absent", "empty"}
    /\ e.number = "number"
    /\ e.boolean = "boolean"
    /\ e.optional # "empty"
    /\ e.stage # "unknown"
    /\ ToSet(e.skip) \subseteq ESkipHealthChecks
    /\ e.validates => e.csrf # "empty" /\ (e.stage = "prod" => e.csrf = "good")

Accepts(e) == IF e.schema = "zod" THEN ZodAccepts(e) ELSE JoiAccepts(e)

\* getSkipHealthChecks drops the empty items.
GetSkipHealthChecks(items) == ToSet(items) \ {""}

Start ==
    /\ app = "none"
    /\ app' = IF Accepts(env) THEN "up" ELSE "refused"
    /\ UNCHANGED <<env, config, down, checking, report, verdict, asked, wasDown, wasUp>>

--------------------------------------------------------------------------------
(* ReadinessController.                                                        *)

\* Mutant: what is left out is not looked at.
IsConfigured(part) == config[Path(part)] \notin {"absent", "empty"}

\* Services cannot be skipped.
IsEnabled(part) ==
    /\ config[Path(part)] \notin {"absent", "empty"}
    /\ Path(part) \notin GetSkipHealthChecks(env.skip)

\* check: heap and rss are each checked if they are numbers, and a service whose url
\* cannot be parsed is down.
Check ==
    /\ app = "up" /\ verdict # "pending"
    /\ verdict' = "pending"
    /\ asked' = {part \in Parts : IsEnabled(part) /\ ~(part = "rss" /\ config["memory"] = "heap only")}
    /\ checking' = asked'
    /\ report' = {}
    /\ wasDown' = down
    /\ wasUp' = Parts \ down
    /\ UNCHANGED <<env, config, app, down>>

Ping(part) ==
    /\ part \in checking
    /\ checking' = checking \ {part}
    /\ report' = IF part \in down \/ (part \in Services /\ config["services"] = "bad url")
                 THEN report \cup {part} ELSE report
    /\ UNCHANGED <<env, config, app, down, verdict, asked, wasDown, wasUp>>

Answer ==
    /\ verdict = "pending" /\ checking = {}
    /\ verdict' = IF report = {} THEN "ok" ELSE "error"
    /\ UNCHANGED <<env, config, app, down, checking, report, asked, wasDown, wasUp>>

\* A part goes down or comes back.
Change(part) ==
    /\ app = "up"
    /\ down' = IF part \in down THEN down \ {part} ELSE down \cup {part}
    /\ wasDown' = wasDown \cup down'
    /\ wasUp' = wasUp \cup (Parts \ down')
    /\ UNCHANGED <<env, config, app, checking, report, verdict, asked>>

Next ==
    \/ Start
    \/ Check
    \/ \E part \in Parts : Ping(part)
    \/ Answer
    \/ \E part \in Volatile : Change(part)

Spec == Init /\ [][Next]_vars

--------------------------------------------------------------------------------
\* What an answer has to speak for.
Concerned ==
    {part \in Parts :
        /\ config[Path(part)] \notin {"absent", "empty"}
        /\ Path(part) \notin ToSet(env.skip)
        /\ ~(part = "rss" /\ config["memory"] = "heap only")}

\* An answer speaks for what is configured and not named by SKIP_HEALTH_CHECKS: if
\* it is "ok" each such part was up at some time of the request, and if it is an
\* error one of them was down at some time, or is a service without a proper url.
ReadyForCause ==
    /\ verdict = "ok" => Concerned \subseteq wasUp
    /\ verdict = "error" => \/ Concerned \cap wasDown # {}
                            \/ Concerned \cap Services # {} /\ config["services"] = "bad url"

================================================================================
