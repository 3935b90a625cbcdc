----------------------------- MODULE TestContainers -----------------------------
(***************************************************************************)
(* TestContainersTD: containers for tests, one per instance, whose start   *)
(* retries on transient errors of the Docker socket.                       *)
(*                                                                         *)
(* The daemon and testcontainers are external: an attempt may create its   *)
(* container, and start it, although its answer is lost; a name is taken   *)
(* as long as a container has it; a container is listed while it runs.     *)
(* With reuse, a container that was made with the same options is taken as *)
(* it is; one that does not run may be started, or be in the way.          *)
(***************************************************************************)
EXTENDS FiniteSets, Naturals

CONSTANTS
    Instances,      \* the TestContainersTD that are made
    Attempts,       \* attempts of a start, 3 unless told otherwise
    Starts,         \* bound: how often an instance is started
    Unnamed,        \* no containerName: every attempt takes a new name
    TestOptions,    \* their options: a containerName or Unnamed, reuse, and all others
    None

VARIABLES
    singleton,      \* TestContainersTD._instance
    made,           \* made[i]: how instance i came to be, or "refused"
    options,        \* options[i]: those of instance i
    daemon,         \* the containers there are: whose, of which attempt, named how, running?
    held,           \* held[i]: the _container of i, and the attempt that got it
    stopped,        \* history: the containers that stop has stopped
    pc,             \* pc[i]: what start awaits, or how the last one ended
    attempt,        \* attempt[i]: the number of the attempt, counted over all starts
    tried           \* tried[i]: the attempts of this start

vars == <<singleton, made, options, daemon, held, stopped, pc, attempt, tried>>

Init ==
    /\ singleton = None
    /\ made = [i \in Instances |-> "none"]
    /\ options \in [Instances -> TestOptions]
    /\ daemon = {}
    /\ held = [i \in Instances |-> None]
    /\ stopped = {}
    /\ pc = [i \in Instances |-> "idle"]
    /\ attempt = [i \in Instances |-> 0]
    /\ tried = [i \in Instances |-> 0]

--------------------------------------------------------------------------------
\* new TestContainersTD(image, options, isSingleton).
New(i, isSingleton) ==
    /\ made[i] = "none"
    /\ IF isSingleton /\ singleton # None
       THEN made' = [made EXCEPT ![i] = "refused"] /\ UNCHANGED singleton
       ELSE /\ made' = [made EXCEPT ![i] = "made"]
            /\ singleton' = IF isSingleton THEN i ELSE singleton
    /\ UNCHANGED <<options, daemon, held, stopped, pc, attempt, tried>>

\* getInstance with the options of i: they are ignored if there is an instance.
GetInstance(i) ==
    /\ made[i] = "none"
    /\ IF singleton # None
       THEN made' = [made EXCEPT ![i] = "refused"] /\ UNCHANGED singleton
       ELSE made' = [made EXCEPT ![i] = "made"] /\ singleton' = i
    /\ UNCHANGED <<options, daemon, held, stopped, pc, attempt, tried>>

Start(i) ==
    /\ made[i] = "made"
    /\ pc[i] \in {"idle", "started", "failed"}
    /\ attempt[i] <= Attempts * (Starts - 1)
    /\ pc' = [pc EXCEPT ![i] = "attempt"]
    /\ tried' = [tried EXCEPT ![i] = 1]
    /\ attempt' = [attempt EXCEPT ![i] = @ + 1]
    /\ UNCHANGED <<singleton, made, options, daemon, held, stopped>>

\* What the attempt of i would create: prepareContainer draws a name if it has none.
Name(i) == IF options[i].name = Unnamed THEN <<i, attempt[i]>> ELSE <<options[i].name>>
Prepared(i, running) ==
    [of |-> i, attempt |-> attempt[i], running |-> running, name |-> Name(i)]

\* What has that name already, and what of it withReuse lets the attempt take.
Named(i) == {c \in daemon : c.name = Name(i)}
Reusable(i) == {c \in Named(i) : options[i].reuse /\ options[c.of] = options[i]}

\* c as it is once it runs.
Running(c) == [of |-> c.of, attempt |-> c.attempt, running |-> TRUE, name |-> c.name]
Starting(c) == (daemon \ {c}) \cup {Running(c)}

\* What the attempt may start: a container of its own, or one that it reuses.
Startable(i) == IF Named(i) = {} THEN {Prepared(i, FALSE)} ELSE Reusable(i)

\* The attempt answers with a container that runs.
AttemptSucceeds(i) ==
    /\ pc[i] = "attempt"
    /\ \E c \in Startable(i) :
        /\ daemon' = Starting(c)
        /\ held' = [held EXCEPT ![i] = [container |-> Running(c), since |-> attempt[i]]]
    /\ pc' = [pc EXCEPT ![i] = "started"]
    /\ UNCHANGED <<singleton, made, options, stopped, attempt, tried>>

\* A transient error, before or after the daemon did what it was asked.
AttemptBreaks(i) ==
    /\ pc[i] = "attempt"
    /\ daemon' \in {daemon} \cup {daemon \cup {c} : c \in Startable(i)}
                             \cup {Starting(c) : c \in Startable(i)}
    /\ pc' = [pc EXCEPT ![i] = IF tried[i] >= Attempts THEN "failed"
                               ELSE IF options[i].name = Unnamed THEN "delay" ELSE "list"]
    /\ UNCHANGED <<singleton, made, options, held, stopped, attempt, tried>>

\* Any other error ends the start, which swallows it: that the name is taken, by a
\* container that cannot be reused or that does not run, ...
NameTaken(i) ==
    /\ pc[i] = "attempt"
    /\ \E c \in Named(i) : c \notin Reusable(i) \/ ~c.running
    /\ pc' = [pc EXCEPT ![i] = "failed"]
    /\ UNCHANGED <<singleton, made, options, daemon, held, stopped, attempt, tried>>

\* Mutant: what a lost answer left behind is not removed.
RetryOnly(i) ==
    /\ pc[i] = "list"
    /\ pc' = [pc EXCEPT ![i] = "delay"]
    /\ UNCHANGED <<singleton, made, options, daemon, held, stopped, attempt, tried>>

\* onRetry: removeContainerByName finds the container among those that run.
RemoveContainerByName(i) ==
    /\ pc[i] = "list"
    /\ daemon' = {c \in daemon : ~(c.running /\ c.name = <<options[i].name>>)}
    /\ pc' = [pc EXCEPT ![i] = "delay"]
    /\ UNCHANGED <<singleton, made, options, held, stopped, attempt, tried>>

\* ... or that onRetry fails.
StartFails(i) ==
    /\ pc[i] \in {"attempt", "list"}
    /\ pc' = [pc EXCEPT ![i] = "failed"]
    /\ UNCHANGED <<singleton, made, options, daemon, held, stopped, attempt, tried>>

\* After the delay the next attempt is made.
Retry(i) ==
    /\ pc[i] = "delay"
    /\ pc' = [pc EXCEPT ![i] = "attempt"]
    /\ tried' = [tried EXCEPT ![i] = @ + 1]
    /\ attempt' = [attempt EXCEPT ![i] = @ + 1]
    /\ UNCHANGED <<singleton, made, options, daemon, held, stopped>>

\* stop removes the container that i holds, whoever else reuses it, and goes on holding
\* it; it swallows that there is none and that Docker refuses.
Stop(i) ==
    /\ held[i] # None
    /\ stopped' = stopped \cup {held[i].container}
    /\ daemon' \in {daemon, daemon \ {held[i].container}}
    /\ UNCHANGED <<singleton, made, options, held, pc, attempt, tried>>

--------------------------------------------------------------------------------
Next ==
    \/ \E i \in Instances :
        \/ \E isSingleton \in BOOLEAN : New(i, isSingleton)
        \/ GetInstance(i)
        \/ Start(i)
        \/ AttemptSucceeds(i)
        \/ AttemptBreaks(i)
        \/ NameTaken(i)
        \/ RemoveContainerByName(i)
        \/ StartFails(i)
        \/ Retry(i)
        \/ Stop(i)

Spec == Init /\ [][Next]_vars

--------------------------------------------------------------------------------
\* What docker-retry and the README document: before a retry what an earlier attempt has
\* left under the fixed name is removed, also what it has only half created.
LeftoverRemoved ==
    \A i \in Instances : \A c \in Named(i) :
        pc[i] = "attempt" /\ tried[i] > 1 => c.of # i

\* A retry that cannot reuse a container is not in the way of itself: none that runs
\* since an earlier attempt of the same start has the name that it needs.  One that was
\* half created and does not run may have it, against LeftoverRemoved.
RetryNotBlocked ==
    \A i \in Instances : \A c \in Named(i) :
        pc[i] = "attempt" /\ tried[i] > 1 /\ c \notin Reusable(i) => ~c.running \/ c.of # i

\* The container that an instance holds, and that nobody who holds it has stopped, runs:
\* what a retry removes is a leftover, unless starts share the name, as those do that
\* reuse one container.
HeldRuns ==
    \A i \in Instances :
        held[i] # None /\ held[i].container \notin stopped \cup daemon
        => /\ options[i].name # Unnamed
           /\ \/ attempt[i] > held[i].since
              \/ \E j \in Instances \ {i} : options[j].name = options[i].name /\ attempt[j] > 0

\* A retry of a start removes what an earlier attempt of it has left running, and
\* nothing else that an instance uses under a name of its own.
RetryTidy == RetryNotBlocked /\ HeldRuns

================================================================================
