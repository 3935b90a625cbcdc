------------------------------- MODULE Snowflake -------------------------------
(***************************************************************************)
(* SnowflakeService: 64-bit ids made of a millisecond, a node and a        *)
(* sequence number.  The last millisecond used and the sequence are static *)
(* members, shared by the instances of one process (a host) and lost with  *)
(* it.  generate() is synchronous, so the instances of a host take turns;  *)
(* the clock moves on while one of them waits for the next millisecond.    *)
(***************************************************************************)
EXTENDS Absent, Integers

CONSTANTS
    Instances,  \* the services, of all hosts
    Hosts,      \* the processes they run in
    HostOf,     \* HostOf[i]: the process of instance i
    Epoch,      \* Epoch[i]: its epoch option
    Node,       \* Node[i]: its workerId and processId, as one 10-bit number
    Nodes,      \* how many nodes there are, 2^10
    Sequences,  \* SEQUENCE_MASK + 1, 2^12
    MaxOffset,  \* MAX_TIMESTAMP_OFFSET, 2^41 - 1
    Horizon,    \* a bound on the clock
    Dates,      \* the explicit dates callers pass to generate
    Steady      \* whether what follows a restart is later than all that came before

ASSUME SnowflakeAssumption ==
    /\ HostOf \in [Instances -> Hosts]
    /\ Epoch \in [Instances -> Nat]
    /\ Node \in [Instances -> 0 .. Nodes - 1]
    /\ Nodes \in Nat \ {0} /\ Sequences \in Nat \ {0} /\ MaxOffset \in Nat /\ Horizon \in Nat
    /\ Dates \subseteq 0 .. Horizon
    /\ Steady \in BOOLEAN
    /\ None \notin Instances

VARIABLES
    now,        \* Date.now()
    started,    \* started[h]: now when the process h started, or 0 for the first one
    last,       \* last[h]: SnowflakeService.lastTimestamp of host h
    sequence,   \* sequence[h]: SnowflakeService.sequence of host h
    stage,      \* stage[h]: "ready", or where generate is in waitUntilNextMillis
    caller,     \* caller[h]: the instance that waits there
    issued,     \* history: who issued which id, as [by, ts, seq]
    repeated    \* history: the ids that were issued again

statics == <<last, sequence>>
clock == <<now, started>>
waiting == <<stage, caller>>
history == <<issued, repeated>>
vars == <<clock, statics, waiting, history>>

\* Mutant: the milliseconds are not counted from the epoch.
IdFromZero(e) == (e.ts * Nodes + Node[e.by]) * Sequences + e.seq

\* The fields of an id do not overlap, so << and | are * and +.
Id(e) == ((e.ts - Epoch[e.by]) * Nodes + Node[e.by]) * Sequences + e.seq

Parse(i, id) ==
    [timestamp |-> (id \div (Sequences * Nodes)) + Epoch[i],
     node |-> (id \div Sequences) % Nodes,
     increment |-> id % Sequences]

IsSnowflake(i, id) == Parse(i, id).timestamp > Epoch[i] /\ Parse(i, id).timestamp <= now

Init ==
    /\ now \in 0 .. Horizon
    /\ started = [h \in Hosts |-> 0]
    /\ last = [h \in Hosts |-> -1]
    /\ sequence = [h \in Hosts |-> 0]
    /\ stage = [h \in Hosts |-> "ready"]
    /\ caller = [h \in Hosts |-> None]
    /\ issued = {}
    /\ repeated = {}

\* The end of generate: the range check, then the new lastTimestamp and the id.
\* A millisecond out of range throws and leaves lastTimestamp, not the sequence.
Finish(i, ts, seq) ==
    LET h == HostOf[i]
        e == [by |-> i, ts |-> ts, seq |-> seq]
    IN  IF ts - Epoch[i] > MaxOffset
        THEN UNCHANGED <<last, history>>
        ELSE /\ last' = [last EXCEPT ![h] = ts]
             /\ issued' = issued \cup {e}
             /\ repeated' = repeated \cup {id \in {Id(e)} : \E f \in issued : Id(f) = id}

\* Mutant: a sequence that overflows starts again within the same millisecond.
GenerateWrapping(i, ts) ==
    LET h == HostOf[i]
        next == IF ts = last[h] THEN (sequence[h] + 1) % Sequences ELSE 0
    IN  /\ stage[h] = "ready"
        /\ ts >= Epoch[i] /\ ts >= last[h]
        /\ sequence' = [sequence EXCEPT ![h] = next]
        /\ Finish(i, ts, next)
        /\ UNCHANGED <<clock, waiting>>

\* Mutant: no check that the clock has not gone back.
GenerateUnordered(i, ts) ==
    LET h == HostOf[i]
        next == IF ts = last[h] THEN (sequence[h] + 1) % Sequences ELSE 0
    IN  /\ stage[h] = "ready"
        /\ ts >= Epoch[i]
        /\ sequence' = [sequence EXCEPT ![h] = next]
        /\ IF ts = last[h] /\ next = 0
           THEN /\ stage' = [stage EXCEPT ![h] = "overflow"]
                /\ caller' = [caller EXCEPT ![h] = i]
                /\ UNCHANGED <<last, history>>
           ELSE Finish(i, ts, next) /\ UNCHANGED waiting
        /\ UNCHANGED clock

\* generate(date), for the current time or an explicit date: a date before the
\* epoch or before the last millisecond used throws and changes nothing.
Generate(i, ts) ==
    LET h == HostOf[i]
        next == IF ts = last[h] THEN (sequence[h] + 1) % Sequences ELSE 0
    IN  /\ stage[h] = "ready"
        /\ ts >= Epoch[i] /\ ts >= last[h]
        /\ sequence' = [sequence EXCEPT ![h] = next]
        /\ IF ts = last[h] /\ next = 0
           THEN /\ stage' = [stage EXCEPT ![h] = "overflow"]
                /\ caller' = [caller EXCEPT ![h] = i]
                /\ UNCHANGED <<last, history>>
           ELSE Finish(i, ts, next) /\ UNCHANGED waiting
        /\ UNCHANGED clock

\* Mutant: it takes the next millisecond without waiting for it.
WaitBorrowing(h) ==
    /\ stage[h] = "overflow" /\ Finish(caller[h], last[h] + 1, sequence[h])
    /\ stage' = [stage EXCEPT ![h] = "ready"]
    /\ caller' = [caller EXCEPT ![h] = None]
    /\ UNCHANGED <<clock, sequence>>

\* waitUntilNextMillis reads the clock: ahead of the clock it takes the next
\* millisecond at once, in the present one it spins until the clock moves on.
Wait(h) ==
    /\ \/ stage[h] = "overflow" /\ now < last[h] /\ Finish(caller[h], last[h] + 1, sequence[h])
       \/ stage[h] \in {"overflow", "spin"} /\ now > last[h] /\ Finish(caller[h], now, sequence[h])
    /\ stage' = [stage EXCEPT ![h] = "ready"]
    /\ caller' = [caller EXCEPT ![h] = None]
    /\ UNCHANGED <<clock, sequence>>

Spin(h) ==
    /\ stage[h] = "overflow" /\ now = last[h]
    /\ stage' = [stage EXCEPT ![h] = "spin"]
    /\ UNCHANGED <<clock, statics, caller, history>>

Tick ==
    /\ now < Horizon
    /\ now' = now + 1
    /\ UNCHANGED <<started, statics, waiting, history>>

\* The clock is set back; if Steady, never to before a process started.
StepBack ==
    /\ \E t \in 0 .. now - 1 : (Steady => \A h \in Hosts : t >= started[h]) /\ now' = t
    /\ UNCHANGED <<started, statics, waiting, history>>

\* A new process takes the place of h, a millisecond later at least and, if Steady,
\* when the clock has caught up with its ids; it starts from fresh statics.
Restart(h) ==
    /\ now < Horizon
    /\ Steady => now >= last[h]
    /\ now' = now + 1
    /\ started' = [started EXCEPT ![h] = now + 1]
    /\ last' = [last EXCEPT ![h] = -1]
    /\ sequence' = [sequence EXCEPT ![h] = 0]
    /\ stage' = [stage EXCEPT ![h] = "ready"]
    /\ caller' = [caller EXCEPT ![h] = None]
    /\ UNCHANGED history

\* What callers of i pass to generate: no date, or one that, if Steady, is not
\* before the process started.
Given(i) == {now} \cup {d \in Dates : Steady => d >= started[HostOf[i]]}

Next ==
    \/ \E i \in Instances : \E ts \in Given(i) : Generate(i, ts)
    \/ \E h \in Hosts : Wait(h) \/ Spin(h) \/ Restart(h)
    \/ Tick
    \/ StepBack

Spec == Init /\ [][Next]_vars

--------------------------------------------------------------------------------
Issue == [by : Instances, ts : 0 .. Horizon + 1, seq : 0 .. Sequences - 1]

TypeOK ==
    /\ now \in 0 .. Horizon
    /\ started \in [Hosts -> 0 .. Horizon]
    /\ last \in [Hosts -> -1 .. Horizon + 1]
    /\ sequence \in [Hosts -> 0 .. Sequences - 1]
    /\ stage \in [Hosts -> {"ready", "overflow", "spin"}]
    /\ caller \in [Hosts -> Instances \cup {None}]
    /\ issued \subseteq Issue
    /\ repeated \subseteq Int

\* What uniqueness asks of a deployment, beside Steady: the instances of a node
\* share a process and an epoch, and the clock stays within every 41-bit range.
OwnNodes ==
    \A i, j \in Instances : Node[i] = Node[j] => HostOf[i] = HostOf[j] /\ Epoch[i] = Epoch[j]
WithinRange == \A i \in Instances : Horizon + 1 - Epoch[i] <= MaxOffset

\* Inductive: the ids of a host lie behind the statics that its next id follows,
\* or behind the start of its process.
WaitingOK ==
    \A h \in Hosts : stage[h] # "ready" =>
        /\ sequence[h] = 0
        /\ caller[h] \in Instances
        /\ HostOf[caller[h]] = h
        /\ last[h] \in Epoch[caller[h]] .. Horizon

Behind(e, h) ==
    \/ e.ts < last[h]
    \/ e.ts = last[h] /\ (stage[h] # "ready" \/ e.seq <= sequence[h])
    \/ e.ts < started[h]

IssuedOK ==
    /\ \A e \in issued : e.ts >= Epoch[e.by] /\ Behind(e, HostOf[e.by])
    /\ \A h \in Hosts : started[h] <= now

\* No id is issued twice, by any instance of any process.
UniqueIds == repeated = {}

\* The ids of an instance increase, across overflows, explicit dates, calls of
\* other instances of its host and corrections of the clock.
Monotonic ==
    [][\A e \in issued' \ issued : \A f \in issued : f.by = e.by => Id(f) < Id(e)]_issued

\* An id fits in 63 bits, and any instance with the same epoch reads back who made
\* it and when, and recognises it unless it lies in the future or at the epoch.
Decodable ==
    \A e \in issued, i \in Instances : Epoch[i] = Epoch[e.by] =>
        /\ Id(e) \in 0 .. (MaxOffset + 1) * Nodes * Sequences - 1
        /\ Parse(i, Id(e)) = [timestamp |-> e.ts, node |-> Node[e.by], increment |-> e.seq]
        /\ e.ts \in Epoch[i] + 1 .. now => IsSnowflake(i, Id(e))

================================================================================
