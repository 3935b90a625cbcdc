----------------------------- MODULE KafkaConsumer -----------------------------
(***************************************************************************)
(* ConsumerService: onModuleInit connects a kafkajs consumer and an admin, *)
(* reads the offsets of every topic, subscribes, runs the consumer, waits  *)
(* until it joins its group and seeks; disconnect, which onModuleDestroy   *)
(* calls, takes it all down.  They interleave at every await, as a signal  *)
(* may destroy the module while it starts.                                 *)
(*                                                                         *)
(* kafkajs is external: run resolves when the consumer has joined or was   *)
(* stopped and goes on in the background, a crash disconnects it, with or  *)
(* without a restart, disconnect stops it, and seek throws when it has     *)
(* been stopped.                                                           *)
(***************************************************************************)
EXTENDS Naturals

CONSTANTS
    Topics,         \* the keys of SUBSCRIBER_MAP, with a partition each
    Seeks,          \* the topics of options.seek
    Attempts,       \* TOPIC_OFFSETS_RETRY_ATTEMPTS and SEEK_RETRY_ATTEMPTS
    Disconnects,    \* the calls of disconnect
    Faults          \* whether kafkajs can reject a request or crash

\* Only topics that are subscribed are sought.  seekTopic fetches the offsets of any other
\* topic of options.seek then, with retries of its own; that fetch is left out.
ASSUME ConsumerAssumption ==
    /\ Topics # {}
    /\ Seeks \subseteq Topics
    /\ Attempts \in Nat \ {0}
    /\ Faults \in BOOLEAN

VARIABLES
    init,               \* what onModuleInit awaits, or how it ended
    task,               \* task[t]: where topic t is in withRetry, for its offsets or its seek
    tries,              \* tries[t]: the attempt of withRetry
    closing,            \* closing[d]: what disconnect d awaits, or how it ended
    consumerConnected,
    adminConnected,
    consumerRunning,
    run,                \* the promise of consumer.run(): consumerRunPromise while pending
    consumer,           \* kafkajs: whether the consumer is connected
    group,              \* kafkajs: whether the consumer is in its group
    admin,              \* kafkajs: whether the admin is connected
    overlapped          \* history: a disconnect began before onModuleInit ended

starting == <<init, task, tries>>
flags == <<consumerConnected, adminConnected, consumerRunning>>
kafkajs == <<run, consumer, group, admin>>
vars == <<starting, closing, flags, kafkajs, overlapped>>

AtRest == {"ready", "failed"}

Init ==
    /\ init = "idle"
    /\ task = [t \in Topics |-> "idle"]
    /\ tries = [t \in Topics |-> 0]
    /\ closing = [d \in Disconnects |-> "idle"]
    /\ consumerConnected = FALSE
    /\ adminConnected = FALSE
    /\ consumerRunning = FALSE
    /\ run = "none"
    /\ consumer = "down"
    /\ group = "out"
    /\ admin = "down"
    /\ overlapped = FALSE

--------------------------------------------------------------------------------
(* onModuleInit, connect.                                                      *)

OnModuleInit ==
    /\ init = "idle"
    /\ init' = "connectConsumer"
    /\ overlapped' = (\E d \in Disconnects : closing[d] # "idle")
    /\ UNCHANGED <<task, tries, closing, flags, kafkajs>>

ConsumerConnects ==
    /\ init = "connectConsumer"
    /\ consumer' = "up"
    /\ consumerConnected' = TRUE
    /\ init' = "connectAdmin"
    /\ UNCHANGED <<task, tries, closing, adminConnected, consumerRunning, run, group, admin, overlapped>>

\* The offsets of all topics are then requested in parallel.
AdminConnects ==
    /\ init = "connectAdmin"
    /\ admin' = "up"
    /\ adminConnected' = TRUE
    /\ init' = "offsets"
    /\ task' = [t \in Topics |-> "fetch"]
    /\ tries' = [t \in Topics |-> 1]
    /\ UNCHANGED <<closing, consumerConnected, consumerRunning, run, consumer, group, overlapped>>

\* A connect or the subscribe is rejected.
RequestFails ==
    /\ Faults
    /\ init \in {"connectConsumer", "connectAdmin", "subscribe"}
    /\ init' = "failed"
    /\ UNCHANGED <<task, tries, closing, flags, kafkajs, overlapped>>

--------------------------------------------------------------------------------
(* withRetry, for the offsets of a topic and for its seek.                     *)

\* Mutant: Promise.any.
SucceedAny(t, phase, set, done, step) ==
    /\ task' = [task EXCEPT ![t] = done]
    /\ init' = IF init = phase THEN step ELSE init

\* Promise.all: the phase goes on to step when all its topics are done.
Succeed(t, phase, set, done, step) ==
    /\ task' = [task EXCEPT ![t] = done]
    /\ init' = IF init = phase /\ \A u \in set : task'[u] = done THEN step ELSE init

\* The last attempt ends the phase, while other topics keep on trying.
Retry(t, phase, delay, lost) ==
    /\ task' = [task EXCEPT ![t] = IF tries[t] < Attempts THEN delay ELSE lost]
    /\ init' = IF init = phase /\ tries[t] >= Attempts THEN "failed" ELSE init

FetchSucceeds(t) ==
    /\ task[t] = "fetch"
    /\ admin = "up"
    /\ Succeed(t, "offsets", Topics, "known", "subscribe")
    /\ UNCHANGED <<tries, closing, flags, kafkajs, overlapped>>

FetchFails(t) ==
    /\ task[t] = "fetch"
    /\ Faults \/ admin = "down"
    /\ Retry(t, "offsets", "fetchDelay", "lost")
    /\ UNCHANGED <<tries, closing, flags, kafkajs, overlapped>>

SeekSucceeds(t) ==
    /\ task[t] = "seek"
    /\ group # "out"
    /\ Succeed(t, "seek", Seeks, "sought", "ready")
    /\ UNCHANGED <<tries, closing, flags, kafkajs, overlapped>>

SeekFails(t) ==
    /\ task[t] = "seek"
    /\ Faults \/ group = "out"
    /\ Retry(t, "seek", "seekDelay", "lost")
    /\ UNCHANGED <<tries, closing, flags, kafkajs, overlapped>>

DelayEnds(t) ==
    /\ task[t] \in {"fetchDelay", "seekDelay"}
    /\ task' = [task EXCEPT ![t] = IF @ = "fetchDelay" THEN "fetch" ELSE "seek"]
    /\ tries' = [tries EXCEPT ![t] = @ + 1]
    /\ UNCHANGED <<init, closing, flags, kafkajs, overlapped>>

--------------------------------------------------------------------------------
(* subscribeToAllTopics, bindAllTopicToConsumer, waitForGroupJoin.             *)

\* consumer.run, which is not awaited.
BindAllTopicToConsumer ==
    /\ consumerRunning' = TRUE
    /\ run' = "pending"
    /\ group' = "joining"

\* The subscription is made and the consumer set to run; init awaits the join.
Subscribed ==
    /\ init = "subscribe"
    /\ init' = "join"
    /\ BindAllTopicToConsumer
    /\ UNCHANGED <<task, tries, closing, consumerConnected, adminConnected, consumer, admin, overlapped>>

\* The event consumer.group_join; only an init that still awaits it goes on.
GroupJoins ==
    /\ group = "joining"
    /\ group' = "in"
    /\ consumer' = "up"
    /\ IF init = "join"
       THEN /\ init' = IF Seeks = {} THEN "ready" ELSE "seek"
            /\ task' = [t \in Topics |-> IF t \in Seeks THEN "seek" ELSE task[t]]
            /\ tries' = [t \in Topics |-> IF t \in Seeks THEN 1 ELSE tries[t]]
       ELSE UNCHANGED starting
    /\ UNCHANGED <<closing, flags, run, admin, overlapped>>

\* Mutant: the timer is started when run has settled.
JoinTimesOutAfterRun ==
    /\ init = "join"
    /\ run # "pending"
    /\ init' = "failed"
    /\ UNCHANGED <<task, tries, closing, flags, kafkajs, overlapped>>

\* GROUP_JOIN_TIMEOUT_MS have passed; the consumer keeps running.
JoinTimesOut ==
    /\ init = "join"
    /\ init' = "failed"
    /\ UNCHANGED <<task, tries, closing, flags, kafkajs, overlapped>>

\* The catch and the finally of run.
RunResolves ==
    /\ run = "pending"
    /\ group # "joining"
    /\ run' = "resolved"
    /\ consumerRunning' = FALSE
    /\ UNCHANGED <<starting, closing, consumerConnected, adminConnected, consumer, group, admin, overlapped>>

RunRejects ==
    /\ Faults
    /\ run = "pending"
    /\ run' = "rejected"
    /\ group' = "out"
    /\ consumerRunning' = FALSE
    /\ UNCHANGED <<starting, closing, consumerConnected, adminConnected, consumer, admin, overlapped>>

\* kafkajs disconnects a consumer that crashes; it may start it again, later.
Crash ==
    /\ Faults
    /\ group \in {"joining", "in"}
    /\ \E next \in {"out", "joining"} : group' = next
    /\ consumer' = "down"
    /\ UNCHANGED <<starting, closing, flags, run, admin, overlapped>>

--------------------------------------------------------------------------------
(* disconnect, onModuleDestroy.                                                *)

AfterConsumer == IF adminConnected THEN "disconnectAdmin" ELSE "done"
AfterStop == IF consumerConnected THEN "disconnectConsumer" ELSE AfterConsumer

\* Mutant: the run is awaited and not stopped.
DisconnectUnstopped(d) ==
    /\ closing[d] = "idle"
    /\ closing' = [closing EXCEPT ![d] = IF consumerRunning THEN "awaitRun" ELSE AfterStop]
    /\ overlapped' = (overlapped \/ init \notin AtRest \cup {"idle"})
    /\ UNCHANGED <<starting, flags, kafkajs>>

Disconnect(d) ==
    /\ closing[d] = "idle"
    /\ closing' = [closing EXCEPT ![d] = IF consumerRunning THEN "stop" ELSE AfterStop]
    /\ overlapped' = (overlapped \/ init \notin AtRest \cup {"idle"})
    /\ UNCHANGED <<starting, flags, kafkajs>>

Stopped(d) ==
    /\ closing[d] = "stop"
    /\ closing' = [closing EXCEPT ![d] = "awaitRun"]
    /\ group' = "out"
    /\ consumerRunning' = FALSE
    /\ UNCHANGED <<starting, consumerConnected, adminConnected, run, consumer, admin, overlapped>>

RunAwaited(d) ==
    /\ closing[d] = "awaitRun"
    /\ run # "pending"
    /\ closing' = [closing EXCEPT ![d] = AfterStop]
    /\ UNCHANGED <<starting, flags, kafkajs, overlapped>>

\* Mutant: the admin is left alone.
ConsumerDisconnectedOnly(d) ==
    /\ closing[d] = "disconnectConsumer"
    /\ closing' = [closing EXCEPT ![d] = "done"]
    /\ consumer' = "down"
    /\ group' = "out"
    /\ consumerConnected' = FALSE
    /\ UNCHANGED <<starting, adminConnected, consumerRunning, run, admin, overlapped>>

ConsumerDisconnected(d) ==
    /\ closing[d] = "disconnectConsumer"
    /\ closing' = [closing EXCEPT ![d] = AfterConsumer]
    /\ consumer' = "down"
    /\ group' = "out"
    /\ consumerConnected' = FALSE
    /\ UNCHANGED <<starting, adminConnected, consumerRunning, run, admin, overlapped>>

AdminDisconnected(d) ==
    /\ closing[d] = "disconnectAdmin"
    /\ closing' = [closing EXCEPT ![d] = "done"]
    /\ admin' = "down"
    /\ adminConnected' = FALSE
    /\ UNCHANGED <<starting, consumerConnected, consumerRunning, run, consumer, group, overlapped>>

\* kafkajs rejects the stop or a disconnect, and disconnect rejects with it.
DisconnectFails(d) ==
    /\ Faults
    /\ closing[d] \in {"stop", "disconnectConsumer", "disconnectAdmin"}
    /\ closing' = [closing EXCEPT ![d] = "failed"]
    /\ UNCHANGED <<starting, flags, kafkajs, overlapped>>

--------------------------------------------------------------------------------
Request == ConsumerConnects \/ AdminConnects \/ RequestFails \/ Subscribed
Attempt(t) == FetchSucceeds(t) \/ FetchFails(t) \/ SeekSucceeds(t) \/ SeekFails(t) \/ DelayEnds(t)
Close(d) ==
    \/ Stopped(d)
    \/ RunAwaited(d)
    \/ ConsumerDisconnected(d)
    \/ AdminDisconnected(d)
    \/ DisconnectFails(d)

Next ==
    \/ OnModuleInit
    \/ Request
    \/ \E t \in Topics : Attempt(t)
    \/ GroupJoins
    \/ JoinTimesOut
    \/ RunResolves
    \/ RunRejects
    \/ Crash
    \/ \E d \in Disconnects : Disconnect(d) \/ Close(d)

Spec == Init /\ [][Next]_vars

\* kafkajs answers every request and a timer fires.  A join, a crash and a destroy
\* need not happen, nor a rejection; but a run that was stopped settles.
Fairness ==
    /\ WF_vars(Request)
    /\ \A t \in Topics : WF_vars(Attempt(t))
    /\ WF_vars(JoinTimesOut)
    /\ WF_vars(RunResolves)
    /\ \A d \in Disconnects : WF_vars(Close(d))

FairSpec == Spec /\ Fairness

--------------------------------------------------------------------------------
TypeOK ==
    /\ init \in {"idle", "connectConsumer", "connectAdmin", "offsets", "subscribe", "join", "seek"}
                    \cup AtRest
    /\ task \in [Topics -> {"idle", "fetch", "fetchDelay", "known", "seek", "seekDelay", "sought", "lost"}]
    /\ tries \in [Topics -> 0 .. Attempts]
    /\ closing \in [Disconnects ->
            {"idle", "stop", "awaitRun", "disconnectConsumer", "disconnectAdmin", "done", "failed"}]
    /\ consumerConnected \in BOOLEAN
    /\ adminConnected \in BOOLEAN
    /\ consumerRunning \in BOOLEAN
    /\ run \in {"none", "pending", "resolved", "rejected"}
    /\ consumer \in {"down", "up"}
    /\ group \in {"out", "joining", "in"}
    /\ admin \in {"down", "up"}
    /\ overlapped \in BOOLEAN

\* Nothing is subscribed before the offsets of all topics are known, nor is the
\* service ready before all its seeks are done, however the attempts interleave.
Positioned ==
    /\ init \in {"subscribe", "join"} => \A t \in Topics : task[t] = "known"
    /\ init = "ready" => \A t \in Topics : task[t] = IF t \in Seeks THEN "sought" ELSE "known"

\* A disconnect that returns has taken down the consumer, its run and the admin,
\* whatever else disconnects, fails or times out meanwhile, unless it overlapped
\* with onModuleInit.
ClosedUnlessOverlapped ==
    ~overlapped /\ (\E d \in Disconnects : closing[d] = "done") /\ init # "idle" =>
        consumer = "down" /\ group = "out" /\ admin = "down"

\* Inductive: what the topics are at in each phase, and that a topic that waits
\* has an attempt left.
PhaseOK ==
    /\ \A t \in Topics : task[t] \in {"fetchDelay", "seekDelay"} => tries[t] < Attempts
    /\ init = "offsets" => \A t \in Topics : task[t] \in {"fetch", "fetchDelay", "known"}
    /\ init = "seek" =>
        \A t \in Topics : IF t \in Seeks THEN task[t] \in {"seek", "seekDelay", "sought"} ELSE task[t] = "known"

\* Inductive: without an overlap what is up is known to be, and no disconnect has
\* begun while onModuleInit has still to end.
KnownOK ==
    ~overlapped /\ init # "idle" =>
        /\ consumer = "up" \/ group # "out" => consumerConnected
        /\ admin = "up" => adminConnected
        /\ init \notin AtRest => \A d \in Disconnects : closing[d] = "idle"
        /\ init \notin AtRest \cup {"connectConsumer"} => consumerConnected
        /\ \A d \in Disconnects : closing[d] \in {"disconnectAdmin", "done"} => ~consumerConnected
        /\ \A d \in Disconnects : closing[d] = "done" => ~adminConnected

IdleOK ==
    init = "idle" =>
        /\ ~consumerConnected /\ ~adminConnected /\ consumer = "down" /\ group = "out" /\ admin = "down"
        /\ run = "none" /\ ~overlapped

\* What isConsumerConnected returns, by its comment: that the consumer is connected.
ConnectedIsTrue == consumerConnected => consumer = "up"

\* onModuleInit ends, even if the broker never lets the consumer into its group.
InitEnds == init # "idle" ~> init \in AtRest

\* A disconnect ends, even if the consumer has still to join when it is stopped.
DisconnectEnds ==
    \A d \in Disconnects : closing[d] # "idle" ~> closing[d] \in {"done", "failed"}

================================================================================
