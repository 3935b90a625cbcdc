--------------------------------- MODULE Clients ---------------------------------
(***************************************************************************)
(* What an application makes of its clients: the producer, the mailer, the *)
(* containers of its tests and its start.  They share no state, so that a  *)
(* behaviour is one of one part, chosen at the beginning, with the others  *)
(* off; every part is checked in all of its own behaviours.                *)
(***************************************************************************)
EXTENDS KafkaProducer, Sequences

CONSTANTS
    Mails, Names, Partials, Templates,                  \* of Mailer
    Instances, Attempts, Starts, Unnamed, TestOptions,  \* of TestContainers
    Composes,                                           \* of DockerCompose
    Models, Topics                                      \* of Startup

ASSUME ClientsAssumption ==
    /\ None \notin Composes
    /\ Attempts \in Nat \ {0} /\ Starts \in Nat
    /\ \A o \in TestOptions : o.reuse \in BOOLEAN
    /\ Partials \in Seq(STRING \X STRING)

VARIABLES
    part,
    mailOptions, service, transporters, precompiled, partials, registered, global, mail, seen,
    singleton, made, testOptions, daemon, held, stopped, phase, attempt, tried,
    compose, up, environment, globalThis, teardown, doubled,
    setup, app, appOptions, init, client, table, loggers, models, redis, subscribed, polling

Mail == INSTANCE Mailer WITH options <- mailOptions
Test == INSTANCE TestContainers WITH options <- testOptions, pc <- phase
Compose == INSTANCE DockerCompose WITH global <- globalThis, closing <- teardown
Start == INSTANCE Startup WITH options <- appOptions

producerVars == vars
mailVars == <<mailOptions, service, transporters, precompiled, partials, registered, global, mail, seen>>
testVars == <<singleton, made, testOptions, daemon, held, stopped, phase, attempt, tried>>
composeVars == <<compose, up, environment, globalThis, teardown, doubled>>
startVars == <<setup, app, appOptions, init, client, table, loggers, models, redis, subscribed, polling>>
sumVars == <<part, producerVars, mailVars, testVars, composeVars, startVars>>

--------------------------------------------------------------------------------
\* A part that is off; the producer stays as it is made.
Off == "off"
MailOff ==
    /\ mailOptions = Off /\ service = Off /\ transporters = Off /\ precompiled = Off
    /\ partials = Off /\ registered = Off /\ global = Off /\ mail = Off /\ seen = Off
TestOff ==
    /\ singleton = Off /\ made = Off /\ testOptions = Off /\ daemon = Off /\ held = Off
    /\ stopped = Off /\ phase = Off /\ attempt = Off /\ tried = Off
ComposeOff ==
    /\ compose = Off /\ up = Off /\ environment = Off /\ globalThis = Off
    /\ teardown = Off /\ doubled = Off
StartOff ==
    /\ setup = Off /\ app = Off /\ appOptions = Off /\ init = Off /\ client = Off
    /\ table = Off /\ loggers = Off /\ models = Off /\ redis = Off
    /\ subscribed = Off /\ polling = Off

SumInit ==
    \/ part = "producer" /\ Init /\ MailOff /\ TestOff /\ ComposeOff /\ StartOff
    \/ part = "mail" /\ Mail!Init /\ Init /\ TestOff /\ ComposeOff /\ StartOff
    \/ part = "test" /\ Test!Init /\ Init /\ MailOff /\ ComposeOff /\ StartOff
    \/ part = "compose" /\ Compose!Init /\ Init /\ MailOff /\ TestOff /\ StartOff
    \/ part = "start" /\ Start!Init /\ Init /\ MailOff /\ TestOff /\ ComposeOff

SumNext ==
    \/ /\ part = "producer" /\ Next
       /\ UNCHANGED <<part, mailVars, testVars, composeVars, startVars>>
    \/ /\ part = "mail" /\ Mail!Next
       /\ UNCHANGED <<part, producerVars, testVars, composeVars, startVars>>
    \/ /\ part = "test" /\ Test!Next
       /\ UNCHANGED <<part, producerVars, mailVars, composeVars, startVars>>
    \/ /\ part = "compose" /\ Compose!Next
       /\ UNCHANGED <<part, producerVars, mailVars, testVars, startVars>>
    \/ /\ part = "start" /\ Start!Next
       /\ UNCHANGED <<part, producerVars, mailVars, testVars, composeVars>>

SumSpec == SumInit /\ [][SumNext]_sumVars

--------------------------------------------------------------------------------
(* The properties of the parts, which are those of their modules; KafkaProducer's  *)
(* keep their names.                                                               *)

\* A mail is rendered with all partials, also after one that failed (HandlebarsAdapter).
RenderedWithAll == part = "mail" => Mail!RenderedWithAll

\* A retry of a container's start takes away what its own attempts have left running,
\* and only this unless the name is shared (TestContainersTD, docker-retry).
RetryTidy == part = "test" => Test!RetryTidy

\* What docker-retry documents: a retry takes away all that its own attempts have left.
LeftoverRemoved == part = "test" => Test!LeftoverRemoved

\* The next tear-down closes the environment that is up (closeDockerCompose).
ComposeKnown == part = "compose" => Compose!ComposeKnown

\* An application that is up is configured by the sources it was given, and made its
\* models after that (DynamooseModule and DynamooseCoreModule).
UpAsConfigured == part = "start" => Start!UpAsConfigured

================================================================================
