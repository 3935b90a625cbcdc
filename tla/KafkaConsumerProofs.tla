-------------------------- MODULE KafkaConsumerProofs --------------------------
(* The life of the consumer, for any topics, attempts and disconnects.         *)
EXTENDS KafkaConsumer, TLAPS

PositionInv == TypeOK /\ PhaseOK /\ Positioned

LEMMA TypeInit == Init => TypeOK
<1> SUFFICES ASSUME Init PROVE TypeOK
  OBVIOUS
<1>1. tries \in [Topics -> 0 .. Attempts]
  BY ConsumerAssumption DEF Init
<1>2. /\ init \in {"idle", "connectConsumer", "connectAdmin", "offsets", "subscribe", "join", "seek"} \cup AtRest
      /\ task \in [Topics -> {"idle", "fetch", "fetchDelay", "known", "seek", "seekDelay", "sought", "lost"}]
      /\ closing \in [Disconnects ->
            {"idle", "stop", "awaitRun", "disconnectConsumer", "disconnectAdmin", "done", "failed"}]
  BY DEF Init
<1>3. QED
  BY <1>1, <1>2 DEF Init, TypeOK

LEMMA PositionInit == Init => PositionInv
  BY TypeInit DEF Init, PositionInv, PhaseOK, Positioned, AtRest

LEMMA PositionStep == PositionInv /\ [Next]_vars => PositionInv'
<1> SUFFICES ASSUME PositionInv, [Next]_vars PROVE PositionInv'
  OBVIOUS
<1> USE ConsumerAssumption DEF PositionInv, AtRest
<1>1. CASE OnModuleInit
  BY <1>1 DEF OnModuleInit, TypeOK, PhaseOK, Positioned, flags, kafkajs
<1>2. CASE Request
  <2>1. CASE ConsumerConnects
    BY <2>1 DEF ConsumerConnects, TypeOK, PhaseOK, Positioned
  <2>2. CASE AdminConnects
    BY <2>2 DEF AdminConnects, TypeOK, PhaseOK, Positioned
  <2>3. CASE RequestFails
    BY <2>3 DEF RequestFails, TypeOK, PhaseOK, Positioned, flags, kafkajs
  <2>4. CASE Subscribed
    BY <2>4 DEF Subscribed, BindAllTopicToConsumer, TypeOK, PhaseOK, Positioned
  <2>5. QED
    BY <1>2, <2>1, <2>2, <2>3, <2>4 DEF Request
<1>3. ASSUME NEW t \in Topics, Attempt(t) PROVE PositionInv'
  <2>1. CASE FetchSucceeds(t)
    BY <2>1 DEF FetchSucceeds, Succeed, TypeOK, PhaseOK, Positioned, flags, kafkajs
  <2>2. CASE FetchFails(t)
    BY <2>2 DEF FetchFails, Retry, TypeOK, PhaseOK, Positioned, flags, kafkajs
  <2>3. CASE SeekSucceeds(t)
    BY <2>3 DEF SeekSucceeds, Succeed, TypeOK, PhaseOK, Positioned, flags, kafkajs
  <2>4. CASE SeekFails(t)
    BY <2>4 DEF SeekFails, Retry, TypeOK, PhaseOK, Positioned, flags, kafkajs
  <2>5. CASE DelayEnds(t)
    BY <2>5 DEF DelayEnds, TypeOK, PhaseOK, Positioned, flags, kafkajs
  <2>6. QED
    BY <1>3, <2>1, <2>2, <2>3, <2>4, <2>5 DEF Attempt
<1>4. CASE GroupJoins
  BY <1>4 DEF GroupJoins, TypeOK, PhaseOK, Positioned, starting, flags
<1>5. CASE JoinTimesOut
  BY <1>5 DEF JoinTimesOut, TypeOK, PhaseOK, Positioned, flags, kafkajs
<1>6. CASE RunResolves \/ RunRejects \/ Crash
  <2>1. UNCHANGED starting
    BY <1>6 DEF RunResolves, RunRejects, Crash
  <2>2. TypeOK'
    <3>1. CASE RunResolves
      BY <2>1, <3>1 DEF RunResolves, TypeOK, starting
    <3>2. CASE RunRejects
      BY <2>1, <3>2 DEF RunRejects, TypeOK, starting
    <3>3. CASE Crash
      BY <2>1, <3>3 DEF Crash, TypeOK, starting, flags
    <3>4. QED
      BY <1>6, <3>1, <3>2, <3>3
  <2>3. QED
    BY <2>1, <2>2 DEF PhaseOK, Positioned, starting
<1>7. ASSUME NEW d \in Disconnects, Disconnect(d) \/ Close(d) PROVE PositionInv'
  <2>1. UNCHANGED starting
    BY <1>7 DEF Disconnect, Close, Stopped, RunAwaited, ConsumerDisconnected, AdminDisconnected, DisconnectFails
  <2>2. TypeOK'
    <3>1. CASE Disconnect(d)
      BY <2>1, <3>1 DEF Disconnect, AfterStop, AfterConsumer, TypeOK, starting, flags, kafkajs
    <3>2. CASE Stopped(d)
      BY <2>1, <3>2 DEF Stopped, TypeOK, starting
    <3>3. CASE RunAwaited(d)
      BY <2>1, <3>3 DEF RunAwaited, AfterStop, AfterConsumer, TypeOK, starting, flags, kafkajs
    <3>4. CASE ConsumerDisconnected(d)
      BY <2>1, <3>4 DEF ConsumerDisconnected, AfterConsumer, TypeOK, starting
    <3>5. CASE AdminDisconnected(d)
      BY <2>1, <3>5 DEF AdminDisconnected, TypeOK, starting
    <3>6. CASE DisconnectFails(d)
      BY <2>1, <3>6 DEF DisconnectFails, TypeOK, starting, flags, kafkajs
    <3>7. QED
      BY <1>7, <3>1, <3>2, <3>3, <3>4, <3>5, <3>6 DEF Close
  <2>3. QED
    BY <2>1, <2>2 DEF PhaseOK, Positioned, starting
<1>8. CASE UNCHANGED vars
  BY <1>8 DEF vars, starting, flags, kafkajs, TypeOK, PhaseOK, Positioned
<1>9. QED
  BY <1>1, <1>2, <1>3, <1>4, <1>5, <1>6, <1>7, <1>8 DEF Next

LEMMA PositionSafe == Spec => []PositionInv
  BY PositionInit, PositionStep, PTL DEF Spec

\* Types; and no topic is tried more than Attempts times.
THEOREM TypeCorrect == Spec => []TypeOK
<1>1. PositionInv => TypeOK
  BY DEF PositionInv
<1>2. QED
  BY <1>1, PositionSafe, PTL

\* The service subscribes when it knows the offsets of all topics, and is ready when
\* all seeks are done, for any topics and any number of attempts.
THEOREM PositionedSafe == Spec => []Positioned
<1>1. PositionInv => Positioned
  BY DEF PositionInv
<1>2. QED
  BY <1>1, PositionSafe, PTL

--------------------------------------------------------------------------------
ClosingInv == TypeOK /\ KnownOK /\ IdleOK

LEMMA ClosingStep == ClosingInv /\ TypeOK' /\ [Next]_vars => ClosingInv'
<1> SUFFICES ASSUME ClosingInv, TypeOK', [Next]_vars PROVE ClosingInv'
  OBVIOUS
<1> USE DEF ClosingInv, AtRest
<1>1. CASE OnModuleInit
  BY <1>1 DEF OnModuleInit, TypeOK, KnownOK, IdleOK, flags, kafkajs
<1>2. CASE Request
  <2>1. CASE ConsumerConnects
    BY <2>1 DEF ConsumerConnects, TypeOK, KnownOK, IdleOK
  <2>2. CASE AdminConnects
    BY <2>2 DEF AdminConnects, TypeOK, KnownOK, IdleOK
  <2>3. CASE RequestFails
    BY <2>3 DEF RequestFails, TypeOK, KnownOK, IdleOK, flags, kafkajs
  <2>4. CASE Subscribed
    <3>1. IdleOK'
      BY <2>4 DEF Subscribed, BindAllTopicToConsumer, IdleOK
    <3>2. KnownOK'
      BY <2>4 DEF Subscribed, BindAllTopicToConsumer, KnownOK
    <3>3. QED
      BY <3>1, <3>2
  <2>5. QED
    BY <1>2, <2>1, <2>2, <2>3, <2>4 DEF Request
<1>3. ASSUME NEW t \in Topics, Attempt(t) PROVE ClosingInv'
  BY <1>3 DEF Attempt, FetchSucceeds, FetchFails, SeekSucceeds, SeekFails, DelayEnds, Succeed, Retry,
      KnownOK, IdleOK, flags, kafkajs
<1>4. CASE GroupJoins
  BY <1>4 DEF GroupJoins, KnownOK, IdleOK, starting, flags
<1>5. CASE JoinTimesOut
  BY <1>5 DEF JoinTimesOut, KnownOK, IdleOK, flags, kafkajs
<1>6. CASE RunResolves \/ RunRejects \/ Crash
  BY <1>6 DEF RunResolves, RunRejects, Crash, KnownOK, IdleOK, starting, flags
<1>7. ASSUME NEW d \in Disconnects, Disconnect(d) \/ Close(d) PROVE ClosingInv'
  <2>1. CASE Disconnect(d)
    BY <2>1 DEF Disconnect, AfterStop, AfterConsumer, TypeOK, KnownOK, IdleOK, starting, flags, kafkajs
  <2>2. CASE Stopped(d)
    BY <2>2 DEF Stopped, TypeOK, KnownOK, IdleOK, starting
  <2>3. CASE RunAwaited(d)
    BY <2>3 DEF RunAwaited, AfterStop, AfterConsumer, TypeOK, KnownOK, IdleOK, starting, flags, kafkajs
  <2>4. CASE ConsumerDisconnected(d)
    BY <2>4 DEF ConsumerDisconnected, AfterConsumer, TypeOK, KnownOK, IdleOK, starting
  <2>5. CASE AdminDisconnected(d)
    BY <2>5 DEF AdminDisconnected, TypeOK, KnownOK, IdleOK, starting
  <2>6. CASE DisconnectFails(d)
    BY <2>6 DEF DisconnectFails, TypeOK, KnownOK, IdleOK, starting, flags, kafkajs
  <2>7. QED
    BY <1>7, <2>1, <2>2, <2>3, <2>4, <2>5, <2>6 DEF Close
<1>8. CASE UNCHANGED vars
  BY <1>8 DEF vars, starting, flags, kafkajs, KnownOK, IdleOK
<1>9. QED
  BY <1>1, <1>2, <1>3, <1>4, <1>5, <1>6, <1>7, <1>8 DEF Next

\* A disconnect that did not overlap with onModuleInit leaves nothing running,
\* however many run at once and whatever fails, crashes or times out.
THEOREM ClosedUnlessOverlappedSafe == Spec => []ClosedUnlessOverlapped
<1>1. Init => ClosingInv
  BY TypeInit DEF Init, ClosingInv, KnownOK, IdleOK
<1>2. ClosingInv => ClosedUnlessOverlapped
  BY DEF ClosingInv, TypeOK, KnownOK, ClosedUnlessOverlapped
<1>3. QED
  BY <1>1, <1>2, ClosingStep, TypeCorrect, PTL DEF Spec

--------------------------------------------------------------------------------
(* What InitEnds and DisconnectEnds rest on, apart from fairness: a start and  *)
(* a disconnect never wait for nothing, and every step takes them nearer to    *)
(* their end.                                                                  *)

\* The phases of onModuleInit that may follow.
PhasesLeft(i) ==
    CASE i = "idle" -> 7
      [] i = "connectConsumer" -> 6
      [] i = "connectAdmin" -> 5
      [] i = "offsets" -> 4
      [] i = "subscribe" -> 3
      [] i = "join" -> 2
      [] i = "seek" -> 1
      [] i \in AtRest -> 0

\* The answers and delays that withRetry may still wait for, for topic t.
StepsLeft(t) ==
    CASE task[t] \in {"fetch", "seek"} -> 2 * (Attempts - tries[t]) + 1
      [] task[t] \in {"fetchDelay", "seekDelay"} -> 2 * (Attempts - tries[t])
      [] task[t] \in {"idle", "known", "sought", "lost"} -> 0

\* The step begins a later phase or leaves fewer steps of withRetry for some topic,
\* and more for none, unless it leaves the start alone.
StartNearer ==
    /\ init' # init => PhasesLeft(init') < PhasesLeft(init)
    /\ init' = init => \A t \in Topics : StepsLeft(t)' <= StepsLeft(t)
    /\ starting' # starting => init' # init \/ \E t \in Topics : StepsLeft(t)' < StepsLeft(t)

\* No phase comes twice, and within a phase every step of withRetry for a topic
\* leaves fewer of them, which no other step adds to.
StartProgress == [][StartNearer]_vars

\* A phase with retries waits for the answer or the delay of some topic, and the
\* steps left are never negative.
StartAwaits ==
    /\ \A t \in Topics : StepsLeft(t) \in Nat
    /\ init = "offsets" => \E t \in Topics : task[t] \in {"fetch", "fetchDelay"}
    /\ init = "seek" => \E t \in Seeks : task[t] \in {"seek", "seekDelay"}

AwaitInv == PositionInv /\ StartAwaits

LEMMA StepsLeftTyped ==
  ASSUME TypeOK, PhaseOK, NEW t \in Topics
  PROVE  StepsLeft(t) \in Nat
<1>1. /\ Attempts \in Nat /\ tries[t] \in 0 .. Attempts
      /\ task[t] \in {"idle", "fetch", "fetchDelay", "known", "seek", "seekDelay", "sought", "lost"}
  BY ConsumerAssumption DEF TypeOK
<1>2. QED
  BY <1>1 DEF StepsLeft

LEMMA AwaitInit == Init => AwaitInv
<1> SUFFICES ASSUME Init PROVE AwaitInv
  OBVIOUS
<1>1. PositionInv
  BY PositionInit
<1>2. QED
  BY <1>1, StepsLeftTyped DEF Init, AwaitInv, PositionInv, StartAwaits

LEMMA AwaitStep == AwaitInv /\ [Next]_vars => AwaitInv'
<1> SUFFICES ASSUME AwaitInv, [Next]_vars PROVE AwaitInv'
  OBVIOUS
<1> USE ConsumerAssumption DEF AwaitInv, AtRest
<1>1. PositionInv'
  BY PositionStep
<1>2. \A t \in Topics : StepsLeft(t)' \in Nat
  <2>1. TypeOK' /\ PhaseOK'
    BY <1>1 DEF PositionInv
  <2>2. ASSUME NEW t \in Topics PROVE StepsLeft(t)' \in Nat
    <3>1. /\ Attempts \in Nat /\ tries'[t] \in 0 .. Attempts
          /\ task'[t] \in {"idle", "fetch", "fetchDelay", "known", "seek", "seekDelay", "sought", "lost"}
      BY <2>1 DEF TypeOK
    <3>2. QED
      BY <3>1 DEF StepsLeft
  <2>3. QED
    BY <2>2
<1> DEFINE Awaits ==
      /\ init = "offsets" => \E t \in Topics : task[t] \in {"fetch", "fetchDelay"}
      /\ init = "seek" => \E t \in Seeks : task[t] \in {"seek", "seekDelay"}
<1>3. Awaits
  BY DEF StartAwaits
<1>4. Awaits'
  <2> USE DEF PositionInv
  <2>1. CASE OnModuleInit \/ Request \/ JoinTimesOut
    BY <2>1, <1>3
       DEF OnModuleInit, Request, ConsumerConnects, AdminConnects, RequestFails, Subscribed, BindAllTopicToConsumer, JoinTimesOut
  <2>2. ASSUME NEW t \in Topics, Attempt(t) PROVE Awaits'
    <3> HIDE DEF Awaits
    <3>1. CASE FetchSucceeds(t)
      BY <3>1, <1>3 DEF FetchSucceeds, Succeed, TypeOK, PhaseOK, Awaits
    <3>2. CASE FetchFails(t)
      BY <3>2, <1>3 DEF FetchFails, Retry, TypeOK, PhaseOK, Awaits
    <3>3. CASE SeekSucceeds(t)
      BY <3>3, <1>3 DEF SeekSucceeds, Succeed, TypeOK, PhaseOK, Awaits
    <3>4. CASE SeekFails(t)
      BY <3>4, <1>3 DEF SeekFails, Retry, TypeOK, PhaseOK, Awaits
    <3>5. CASE DelayEnds(t)
      BY <3>5, <1>3 DEF DelayEnds, TypeOK, PhaseOK, Awaits
    <3>6. QED
      BY <2>2, <3>1, <3>2, <3>3, <3>4, <3>5 DEF Attempt
  <2>3. CASE GroupJoins
    BY <2>3, <1>3 DEF GroupJoins, starting
  <2>4. CASE RunResolves \/ RunRejects \/ Crash \/ \E d \in Disconnects : Disconnect(d) \/ Close(d)
    BY <2>4, <1>3
       DEF RunResolves, RunRejects, Crash, Disconnect, Close, Stopped, RunAwaited, ConsumerDisconnected,
           AdminDisconnected, DisconnectFails, starting
  <2>5. CASE UNCHANGED vars
    BY <2>5, <1>3 DEF vars, starting
  <2>6. QED
    BY <2>1, <2>2, <2>3, <2>4, <2>5 DEF Next
<1>5. QED
  BY <1>1, <1>2, <1>4 DEF StartAwaits

\* A start never waits for nothing: whatever the broker answers, some topic has an
\* attempt or a delay to come, for any topics and attempts.
THEOREM StartAwaitsSafe == Spec => []StartAwaits
<1>1. AwaitInv => StartAwaits
  BY DEF AwaitInv
<1>2. QED
  BY <1>1, AwaitInit, AwaitStep, PTL DEF Spec

LEMMA StartProgressStep == PositionInv /\ [Next]_vars => StartNearer
<1> SUFFICES ASSUME PositionInv, [Next]_vars PROVE StartNearer
  OBVIOUS
<1>1. Attempts \in Nat /\ TypeOK /\ PhaseOK
  BY ConsumerAssumption DEF PositionInv
<1>2. \A t \in Topics : StepsLeft(t) \in Nat
  BY <1>1, StepsLeftTyped
<1>3. ASSUME UNCHANGED starting PROVE StartNearer
  <2>1. \A t \in Topics : StepsLeft(t)' = StepsLeft(t)
    BY <1>3 DEF starting, StepsLeft
  <2>2. init' = init
    BY <1>3 DEF starting
  <2>3. \A t \in Topics : StepsLeft(t)' <= StepsLeft(t)
    BY <2>1, <1>2
  <2>4. QED
    BY <1>3, <2>2, <2>3 DEF StartNearer
<1>4. ASSUME init' # init, PhasesLeft(init') < PhasesLeft(init) PROVE StartNearer
  BY <1>4 DEF StartNearer
\* A topic moves from one task to another with fewer steps left, if its phase goes on.
<1>5. ASSUME NEW t \in Topics, UNCHANGED init,
             \A u \in Topics \ {t} : task'[u] = task[u] /\ tries'[u] = tries[u],
             StepsLeft(t)' < StepsLeft(t), StepsLeft(t)' \in Nat
      PROVE  StartNearer
  <2>1. \A u \in Topics \ {t} : StepsLeft(u)' = StepsLeft(u)
    BY <1>5 DEF StepsLeft
  <2>2. StepsLeft(t)' <= StepsLeft(t)
    <3> HIDE DEF StepsLeft
    <3>1. QED
      BY <1>2, <1>5
  <2>3. \A u \in Topics : StepsLeft(u)' <= StepsLeft(u)
    BY <2>1, <2>2, <1>2
  <2>4. QED
    BY <2>3, <1>5 DEF StartNearer
<1>6. CASE OnModuleInit \/ Request \/ JoinTimesOut
  <2>1. CASE OnModuleInit
    BY <2>1, <1>4 DEF OnModuleInit, PhasesLeft, AtRest
  <2>2. CASE ConsumerConnects
    BY <2>2, <1>4 DEF ConsumerConnects, PhasesLeft, AtRest
  <2>3. CASE AdminConnects
    BY <2>3, <1>4 DEF AdminConnects, PhasesLeft, AtRest
  <2>4. CASE RequestFails
    BY <2>4, <1>4 DEF RequestFails, PhasesLeft, AtRest
  <2>5. CASE Subscribed
    BY <2>5, <1>4 DEF Subscribed, BindAllTopicToConsumer, PhasesLeft, AtRest
  <2>6. CASE JoinTimesOut
    BY <2>6, <1>4 DEF JoinTimesOut, PhasesLeft, AtRest
  <2>7. QED
    BY <1>6, <2>1, <2>2, <2>3, <2>4, <2>5, <2>6 DEF Request
<1>7. ASSUME NEW t \in Topics, FetchSucceeds(t) \/ SeekSucceeds(t) PROVE StartNearer
  <2>1. CASE init' # init
    BY <2>1, <1>7, <1>4 DEF FetchSucceeds, SeekSucceeds, Succeed, PhasesLeft, AtRest
  <2>2. CASE UNCHANGED init
    <3>1. /\ task[t] \in {"fetch", "seek"} /\ task'[t] \in {"known", "sought"}
          /\ \A u \in Topics \ {t} : task'[u] = task[u] /\ tries'[u] = tries[u]
      BY <1>1, <1>7 DEF FetchSucceeds, SeekSucceeds, Succeed, TypeOK
    <3>2. tries[t] \in 0 .. Attempts
      BY <1>1 DEF TypeOK
    <3>3. StepsLeft(t)' < StepsLeft(t) /\ StepsLeft(t)' \in Nat
      BY <1>1, <3>1, <3>2 DEF StepsLeft
    <3>4. QED
      BY <2>2, <3>1, <3>3, <1>5
  <2>3. QED
    BY <2>1, <2>2
<1>8. ASSUME NEW t \in Topics, FetchFails(t) \/ SeekFails(t) PROVE StartNearer
  <2>1. CASE init' # init
    BY <2>1, <1>8, <1>4 DEF FetchFails, SeekFails, Retry, PhasesLeft, AtRest
  <2>2. CASE UNCHANGED init
    <3>1. /\ task[t] \in {"fetch", "seek"} /\ task'[t] \in {"fetchDelay", "seekDelay", "lost"}
          /\ \A u \in Topics \ {t} : task'[u] = task[u] /\ tries'[u] = tries[u]
          /\ tries' = tries
      BY <1>1, <1>8 DEF FetchFails, SeekFails, Retry, TypeOK
    <3>2. tries[t] \in 0 .. Attempts
      BY <1>1 DEF TypeOK
    <3>3. StepsLeft(t)' < StepsLeft(t) /\ StepsLeft(t)' \in Nat
      BY <1>1, <3>1, <3>2 DEF StepsLeft
    <3>4. QED
      BY <2>2, <3>1, <3>3, <1>5
  <2>3. QED
    BY <2>1, <2>2
<1>9. ASSUME NEW t \in Topics, DelayEnds(t) PROVE StartNearer
  <2>1. /\ task[t] \in {"fetchDelay", "seekDelay"} /\ task'[t] \in {"fetch", "seek"}
        /\ tries'[t] = tries[t] + 1 /\ tries[t] \in 0 .. Attempts /\ tries[t] < Attempts
        /\ \A u \in Topics \ {t} : task'[u] = task[u] /\ tries'[u] = tries[u]
    BY <1>1, <1>9 DEF DelayEnds, TypeOK, PhaseOK
  <2>2. StepsLeft(t)' < StepsLeft(t) /\ StepsLeft(t)' \in Nat
    BY <1>1, <2>1 DEF StepsLeft
  <2>3. UNCHANGED init
    BY <1>9 DEF DelayEnds
  <2>4. QED
    BY <2>1, <2>2, <2>3, <1>5
<1>10. CASE GroupJoins
  <2>1. CASE init = "join"
    BY <1>10, <2>1, <1>4 DEF GroupJoins, PhasesLeft, AtRest
  <2>2. CASE init # "join"
    BY <1>10, <2>2, <1>3 DEF GroupJoins
  <2>3. QED
    BY <2>1, <2>2
<1>11. CASE RunResolves \/ RunRejects \/ Crash \/ (\E d \in Disconnects : Disconnect(d) \/ Close(d))
            \/ UNCHANGED vars
  <2>1. UNCHANGED starting
    BY <1>11
       DEF RunResolves, RunRejects, Crash, Disconnect, Close, Stopped, RunAwaited, ConsumerDisconnected,
           AdminDisconnected, DisconnectFails, vars
  <2>2. QED
    BY <2>1, <1>3
<1>12. ASSUME NEW t \in Topics, Attempt(t) PROVE StartNearer
  BY <1>12, <1>7, <1>8, <1>9 DEF Attempt
<1>13. QED
  BY <1>6, <1>10, <1>11, <1>12 DEF Next

\* No phase of a start comes twice, and within a phase its attempts are used up one
\* by one: a start has a bounded number of steps, for any topics and attempts.
THEOREM StartProgressSafe == Spec => StartProgress
<1>1. PositionInv /\ [Next]_vars => [StartNearer]_vars
  BY StartProgressStep
<1>2. QED
  BY <1>1, PositionSafe, PTL DEF Spec, StartProgress

--------------------------------------------------------------------------------
\* A consumer that disconnect has stopped stays out of its group: no join, crash or
\* subscription brings it back while the end of its run is awaited.
StoppedForGood == \A d \in Disconnects : closing[d] = "awaitRun" => group = "out"

\* Only a consumer that was subscribed is running, or stopped.
RunningOK ==
    consumerRunning \/ (\E d \in Disconnects : closing[d] \in {"stop", "awaitRun"}) =>
        init \in {"join", "seek"} \cup AtRest

StoppingInv == RunningOK /\ StoppedForGood

LEMMA StoppingStep == TypeOK /\ StoppingInv /\ [Next]_vars => StoppingInv'
<1> SUFFICES ASSUME TypeOK, StoppingInv, [Next]_vars PROVE StoppingInv'
  OBVIOUS
<1> USE DEF StoppingInv, RunningOK, StoppedForGood, AtRest
<1>1. CASE OnModuleInit \/ Request \/ JoinTimesOut
  <2>1. CASE Subscribed
    BY <2>1 DEF Subscribed, BindAllTopicToConsumer
  <2>2. CASE ConsumerConnects \/ AdminConnects
    BY <2>2 DEF ConsumerConnects, AdminConnects
  <2>3. CASE OnModuleInit
    BY <2>3 DEF OnModuleInit, flags, kafkajs
  <2>4. CASE RequestFails \/ JoinTimesOut
    BY <2>4 DEF RequestFails, JoinTimesOut, flags, kafkajs
  <2>5. QED
    BY <1>1, <2>1, <2>2, <2>3, <2>4 DEF Request
<1>2. ASSUME NEW t \in Topics, Attempt(t) PROVE StoppingInv'
  <2>1. UNCHANGED <<closing, flags, kafkajs>>
    BY <1>2 DEF Attempt, FetchSucceeds, FetchFails, SeekSucceeds, SeekFails, DelayEnds
  <2>2. init' = init \/ init' \in {"subscribe", "ready", "failed"}
    BY <1>2 DEF Attempt, FetchSucceeds, FetchFails, SeekSucceeds, SeekFails, DelayEnds, Succeed, Retry
  <2>3. init' = "subscribe" => init \in {"offsets", "subscribe"}
    BY <1>2 DEF Attempt, FetchSucceeds, FetchFails, SeekSucceeds, SeekFails, DelayEnds, Succeed, Retry
  <2>4. QED
    BY <2>1, <2>2, <2>3 DEF flags, kafkajs
<1>3. CASE GroupJoins
  BY <1>3 DEF GroupJoins, starting, flags
<1>4. CASE RunResolves \/ RunRejects \/ Crash
  BY <1>4 DEF RunResolves, RunRejects, Crash, starting, flags
<1>5. ASSUME NEW d \in Disconnects, Disconnect(d) PROVE StoppingInv'
  BY <1>5 DEF Disconnect, AfterStop, AfterConsumer, TypeOK, starting, flags, kafkajs
<1>6. ASSUME NEW d \in Disconnects, Close(d) PROVE StoppingInv'
  BY <1>6
     DEF Close, Stopped, RunAwaited, ConsumerDisconnected, AdminDisconnected, DisconnectFails, AfterStop,
         AfterConsumer, TypeOK, starting, flags, kafkajs
<1>7. CASE UNCHANGED vars
  BY <1>7 DEF vars, starting, flags, kafkajs
<1>8. QED
  BY <1>1, <1>2, <1>3, <1>4, <1>5, <1>6, <1>7 DEF Next

\* A disconnect that awaits the end of the run has nothing in its way, overlapping
\* with onModuleInit or not, for any number of disconnects, crashes and faults.
THEOREM StoppedForGoodSafe == Spec => []StoppedForGood
<1>1. Init => StoppingInv
  BY DEF Init, StoppingInv, RunningOK, StoppedForGood
<1>2. StoppingInv => StoppedForGood
  BY DEF StoppingInv
<1>3. QED
  BY <1>1, <1>2, StoppingStep, TypeCorrect, PTL DEF Spec

\* The requests that a disconnect may still make.
RequestsLeft(c) ==
    CASE c = "idle" -> 5
      [] c = "stop" -> 4
      [] c = "awaitRun" -> 3
      [] c = "disconnectConsumer" -> 2
      [] c = "disconnectAdmin" -> 1
      [] c \in {"done", "failed"} -> 0

\* No request of a disconnect comes twice, and one that ended has ended for good.
DisconnectProgress ==
    [][\A d \in Disconnects : closing'[d] # closing[d] => RequestsLeft(closing'[d]) < RequestsLeft(closing[d])]_vars

LEMMA DisconnectProgressStep ==
  ASSUME TypeOK, [Next]_vars, NEW d \in Disconnects, closing'[d] # closing[d]
  PROVE  RequestsLeft(closing'[d]) < RequestsLeft(closing[d])
<1>1. closing' # closing
  OBVIOUS
<1>2. PICK e \in Disconnects : Disconnect(e) \/ Close(e)
  BY <1>1
     DEF Next, OnModuleInit, Request, ConsumerConnects, AdminConnects, RequestFails, Subscribed, BindAllTopicToConsumer, Attempt,
         FetchSucceeds, FetchFails, SeekSucceeds, SeekFails, DelayEnds, GroupJoins, JoinTimesOut, RunResolves,
         RunRejects, Crash, vars
<1>3. CASE Disconnect(e)
  BY <1>3 DEF Disconnect, AfterStop, AfterConsumer, TypeOK, RequestsLeft
<1>4. CASE Close(e)
  BY <1>4
     DEF Close, Stopped, RunAwaited, ConsumerDisconnected, AdminDisconnected, DisconnectFails, AfterStop,
         AfterConsumer, TypeOK, RequestsLeft
<1>5. QED
  BY <1>2, <1>3, <1>4

\* Every step of a disconnect takes it nearer to its end.
THEOREM DisconnectProgressSafe == Spec => DisconnectProgress
<1>1. TypeOK /\ [Next]_vars =>
        [\A d \in Disconnects : closing'[d] # closing[d] => RequestsLeft(closing'[d]) < RequestsLeft(closing[d])]_vars
  BY DisconnectProgressStep
<1>2. QED
  BY <1>1, TypeCorrect, PTL DEF Spec, DisconnectProgress

================================================================================
