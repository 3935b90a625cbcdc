--------------------------------- MODULE Startup ---------------------------------
(***************************************************************************)
(* From the registration of modules to a running application and its end:  *)
(* which of the ways of an asynchronous registration gives the options,    *)
(* the initialization of dynamoose, whose settings are global while every  *)
(* DynamooseModule brings one for config.dynamodb beside its own, the      *)
(* models made after it, the connection of Redis and the client of         *)
(* Camunda, which polls for the topics of the handlers.                    *)
(*                                                                         *)
(* Nest is external: it makes the providers of an application at the same  *)
(* time, each after those it injects, refuses the start if one fails, and  *)
(* gives a model the DYNAMOOSE_INITIALIZATION of the first import.  A      *)
(* Redis client is open until it is closed or gives up to reconnect; the   *)
(* client of Camunda refuses a second subscription to a topic.             *)
(***************************************************************************)
EXTENDS Naturals, FiniteSets, SequencesExt

CONSTANTS
    Models,         \* the models of forFeature
    Topics          \* the topics of Camunda

VARIABLES
    setup,          \* which module is registered and how, and the options of dynamoose
    app,            \* "starting", "up", "failed", "closing" or "closed"
    options,        \* where the options came from, "none" before that
    init,           \* init[s]: how far the initialization with the options of s is
    client,         \* dynamoose.aws.ddb, as whose it is and its kind, or <<>>
    table,          \* the source of dynamoose.Table.defaults, or "none"
    loggers,        \* the log providers of dynamoose, by their sources
    models,         \* models[m]: {"none"}, or the loggers there were when m was made
    redis,          \* "connecting", "open", "gone" or "closed"
    subscribed,     \* the subscriptions of the client of Camunda
    polling         \* "off", "on" or "stopped"

vars == <<setup, app, options, init, client, table, loggers, models, redis, subscribed, polling>>

Ways == {"useFactory", "useExisting", "useClass"}
Sources == {"config", "root"}

\* DynamooseModuleOptions, or undefined.
Undefined == [defined |-> FALSE]
DynamooseOptions ==
    {Undefined} \cup [defined : {TRUE}, ddb : BOOLEAN, aws : BOOLEAN, local : BOOLEAN,
                      table : BOOLEAN, logger : BOOLEAN]
Full == [defined |-> TRUE, ddb |-> TRUE, aws |-> FALSE, local |-> TRUE, table |-> TRUE, logger |-> TRUE]

\* The handlers of Nest are kept by their pattern, which is the topic unless it is
\* an object with topic and options.
HandlerSets ==
    {handlers \in SUBSET [topic : Topics, form : {"decorated", "plain", "pattern"}] :
        \A h \in handlers : h.form = "plain" => [h EXCEPT !.form = "decorated"] \notin handlers}

Setups ==
    [module : {"sqs", "http", "redact"}, by : {"static", "sync", "async"}, ways : SUBSET Ways,
     config : {Undefined}, root : {Undefined}]
    \cup [module : {"camunda"}, by : {"static"}, ways : {{}}, config : {Undefined}, root : {Undefined},
          handlers : HandlerSets]
    \cup [module : {"dynamoose"}, by : {"static"}, ways : {{}}, config : DynamooseOptions, root : {Undefined}]
    \cup [module : {"dynamoose"}, by : {"sync", "async"}, ways : SUBSET Ways,
          config : {Undefined, Full}, root : DynamooseOptions]

Init ==
    /\ setup \in Setups
    /\ app = "starting"
    /\ options = "none"
    /\ init = [s \in Sources |-> "waiting"]
    /\ client = <<>> /\ table = "none" /\ loggers = <<>>
    /\ models = [m \in Models |-> {"none"}]
    /\ redis = "connecting"
    /\ subscribed = {} /\ polling = "off"

--------------------------------------------------------------------------------
\* What createAsyncOptionsProvider asks for the options: the first of the ways it
\* looks for, and what createAsyncProviders provides beside that: useClass, unless
\* it is in no use.
FirstOf(order, ways) ==
    LET found == SelectSeq(order, LAMBDA way : way \in ways) IN
    IF found = <<>> THEN "nothing" ELSE found[1]
ProvidedBut(others, ways) == IF ways \cap others = {} THEN ways \cap {"useClass"} ELSE {}

SqsInject(ways) == FirstOf(<<"useFactory", "useExisting", "useClass">>, ways)
SqsProvides(ways) == ProvidedBut({"useExisting", "useFactory"}, ways)
HttpInject(ways) == FirstOf(<<"useFactory", "useExisting", "useClass">>, ways)
HttpProvides(ways) == ProvidedBut({"useExisting", "useFactory"}, ways)
DynamooseInject(ways) == FirstOf(<<"useFactory", "useClass", "useExisting">>, ways)
DynamooseProvides(ways) == ProvidedBut({"useExisting", "useFactory"}, ways)
RedactInject(ways) == FirstOf(<<"useFactory", "useClass">>, ways)
RedactProvides(ways) == ProvidedBut({"useFactory"}, ways)

\* The factory and useExisting are there if they are named, a class must be provided.
Async(inject, provided) ==
    IF inject = "nothing" \/ (inject = "useClass" /\ provided = {}) THEN "unprovided" ELSE inject

\* What is given to register or forRoot comes before the static providers, which
\* take the options from the configuration.
OptionsOf ==
    CASE setup.by = "static" -> "config"
      [] setup.by = "sync" -> "given"
      [] setup.module = "sqs" -> Async(SqsInject(setup.ways), SqsProvides(setup.ways))
      [] setup.module = "http" -> Async(HttpInject(setup.ways), HttpProvides(setup.ways))
      [] setup.module = "redact" -> Async(RedactInject(setup.ways), RedactProvides(setup.ways))
      [] OTHER -> Async(DynamooseInject(setup.ways), DynamooseProvides(setup.ways))

ResolveOptions ==
    /\ app = "starting" /\ options = "none"
    /\ options' = OptionsOf
    /\ app' = IF OptionsOf = "unprovided" THEN "failed" ELSE app
    /\ UNCHANGED <<setup, init, client, table, loggers, models, redis, subscribed, polling>>

--------------------------------------------------------------------------------
(* Dynamoose.                                                                  *)

Given(s) == IF s = "config" THEN setup.config ELSE setup.root

\* The client of the options, which "local" points to its endpoint; without any of
\* the three the client stays as it is.
ClientOf(s) ==
    LET o == Given(s) IN
    IF o.ddb THEN <<s, IF o.local THEN "ddb at the endpoint" ELSE "ddb">>
    ELSE IF o.aws \/ o.local THEN <<s, "new">>
    ELSE client

\* initialization, up to the await of the logger.
Initialization(s) ==
    /\ app = "starting" /\ options # "none"
    /\ init[s] = "waiting"
    /\ IF Given(s).defined
       THEN /\ client' = ClientOf(s)
            /\ table' = IF Given(s).table THEN s ELSE table
            /\ init' = [init EXCEPT ![s] = IF Given(s).logger THEN "logger" ELSE "done"]
       ELSE init' = [init EXCEPT ![s] = "done"] /\ UNCHANGED <<client, table>>
    /\ UNCHANGED <<setup, app, options, loggers, models, redis, subscribed, polling>>

AddLogger(s) ==
    /\ app = "starting" /\ init[s] = "logger"
    /\ init' = [init EXCEPT ![s] = "done"]
    /\ loggers' = Append(loggers, s)
    /\ UNCHANGED <<setup, app, options, client, table, models, redis, subscribed, polling>>

\* Mutant: a model does not inject DYNAMOOSE_INITIALIZATION.
CreateModelAtOnce(m) ==
    /\ app = "starting" /\ models[m] = {"none"}
    /\ models' = [models EXCEPT ![m] = ToSet(loggers)]
    /\ UNCHANGED <<setup, app, options, init, client, table, loggers, redis, subscribed, polling>>

\* createDynamooseProviders, and the asynchronous ones, which wait for more.
CreateModel(m) ==
    /\ app = "starting" /\ models[m] = {"none"}
    /\ init["config"] = "done"
    /\ models' = [models EXCEPT ![m] = ToSet(loggers)]
    /\ UNCHANGED <<setup, app, options, init, client, table, loggers, redis, subscribed, polling>>

--------------------------------------------------------------------------------
(* Redis, and the application.                                                 *)

\* createRedisClient awaits the connection.
RedisConnect ==
    /\ app = "starting" /\ redis = "connecting"
    /\ \/ redis' = "open" /\ UNCHANGED app
       \/ app' = "failed" /\ UNCHANGED redis
    /\ UNCHANGED <<setup, options, init, client, table, loggers, models, subscribed, polling>>

RedisGivesUp ==
    /\ redis = "open"
    /\ redis' = "gone"
    /\ UNCHANGED <<setup, app, options, init, client, table, loggers, models, subscribed, polling>>

Up ==
    /\ app = "starting" /\ options # "none" /\ redis # "connecting"
    /\ \A s \in Sources : init[s] = "done"
    /\ \A m \in Models : models[m] # {"none"}
    /\ app' = "up"
    /\ UNCHANGED <<setup, options, init, client, table, loggers, models, redis, subscribed, polling>>

Close ==
    /\ app = "up"
    /\ app' = "closing"
    /\ UNCHANGED <<setup, options, init, client, table, loggers, models, redis, subscribed, polling>>

\* onModuleDestroy closes the client unless it is not open.
OnModuleDestroy ==
    /\ app = "closing"
    /\ app' = "closed"
    /\ redis' = IF redis = "gone" THEN redis ELSE "closed"
    /\ UNCHANGED <<setup, options, init, client, table, loggers, models, subscribed, polling>>

--------------------------------------------------------------------------------
(* CamundaTaskConnector.                                                       *)

ResolveSubscription(handler) ==
    [topic |-> handler.topic, options |-> IF handler.form = "plain" THEN "none" ELSE "own"]

\* listen, which calls init: all handlers are subscribed and then the client starts;
\* a handler whose topic is taken ends it.
Listen ==
    /\ app = "up" /\ setup.module = "camunda" /\ polling = "off"
    /\ \E done \in SUBSET setup.handlers :
        LET taken == {h.topic : h \in done} IN
        /\ Cardinality(taken) = Cardinality(done)
        /\ subscribed' = {ResolveSubscription(h) : h \in done}
        /\ \/ done = setup.handlers /\ polling' = "on" /\ UNCHANGED app
           \/ /\ \E h \in setup.handlers \ done : h.topic \in taken
              /\ app' = "failed" /\ UNCHANGED polling
    /\ UNCHANGED <<setup, options, init, client, table, loggers, models, redis>>

\* close, when the application closes.
CloseCamunda ==
    /\ app = "closing" /\ polling = "on"
    /\ polling' = "stopped"
    /\ UNCHANGED <<setup, app, options, init, client, table, loggers, models, redis, subscribed>>

--------------------------------------------------------------------------------
Next ==
    \/ ResolveOptions
    \/ \E s \in Sources : Initialization(s) \/ AddLogger(s)
    \/ \E m \in Models : CreateModel(m)
    \/ RedisConnect
    \/ RedisGivesUp
    \/ Up
    \/ Close
    \/ OnModuleDestroy
    \/ Listen
    \/ CloseCamunda

Spec == Init /\ [][Next]_vars

--------------------------------------------------------------------------------
\* A model is made after config.dynamodb took effect, its logger included.  When the
\* application is up, each source that has a logger has it once; the client and the
\* table defaults are of a source that names them, and are there if one does; and
\* an application that has only one source is configured by that one alone.  The
\* client of Camunda polls only with every handler subscribed.  What is said of models
\* is empty of a config without a logger; and that nothing polls before it is subscribed
\* is how Listen is written, subscribe and start being one synchronous block.
UpAsConfigured ==
    LET Client(s) == Given(s).defined /\ (Given(s).ddb \/ Given(s).aws \/ Given(s).local)
        Table(s) == Given(s).defined /\ Given(s).table
        Logger(s) == Given(s).defined /\ Given(s).logger IN
    /\ \A m \in Models : models[m] # {"none"} /\ Logger("config") => "config" \in models[m]
    /\ app = "up" =>
        /\ IF \E s \in Sources : Client(s) THEN Client(client[1]) ELSE client = <<>>
        /\ IF \E s \in Sources : Table(s) THEN table # "none" /\ Table(table) ELSE table = "none"
        /\ IsInjective(loggers) /\ ToSet(loggers) = {s \in Sources : Logger(s)}
    /\ polling = "on" => subscribed = {ResolveSubscription(h) : h \in setup.handlers}

================================================================================
