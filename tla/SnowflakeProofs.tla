---------------------------- MODULE SnowflakeProofs ----------------------------
(* Uniqueness of the ids, for any number of hosts, instances and nodes, any    *)
(* width of the fields and any dates.                                          *)
EXTENDS Snowflake, TLAPS

\* Packing is lexicographic: the low field never carries into the high one.
LEMMA PackOrder ==
  ASSUME NEW K \in Nat \ {0}, NEW a \in Int, NEW b \in Int,
         NEW x \in 0 .. K - 1, NEW y \in 0 .. K - 1
  PROVE  /\ a < b => a * K + x < b * K + y
         /\ a * K + x = b * K + y => a = b /\ x = y
<1>1. \A c, d \in Int : c < d => (c + 1) * K <= d * K
  <2>1. SUFFICES ASSUME NEW c \in Int, NEW d \in Int, c < d PROVE (c + 1) * K <= d * K
    OBVIOUS
  <2>2. d * K = (c + 1) * K + (d - c - 1) * K
    OBVIOUS
  <2>3. (d - c - 1) * K >= 0
    <3>1. d - c - 1 \in Nat
      BY <2>1
    <3>2. QED
      BY <3>1
  <2>4. QED
    BY <2>2, <2>3
<1>2. \A c, d \in Int : c < d => \A u, v \in 0 .. K - 1 : c * K + u < d * K + v
  <2>1. SUFFICES ASSUME NEW c \in Int, NEW d \in Int, c < d,
                        NEW u \in 0 .. K - 1, NEW v \in 0 .. K - 1
                 PROVE  c * K + u < d * K + v
    OBVIOUS
  <2>2. (c + 1) * K <= d * K
    BY <1>1, <2>1
  <2>3. (c + 1) * K = c * K + K
    OBVIOUS
  <2>4. QED
    BY <2>2, <2>3
<1>3. QED
  BY <1>2

\* An id determines its millisecond, its node and its sequence number.
LEMMA IdInjective ==
  ASSUME OwnNodes, NEW e \in Issue, NEW f \in Issue, Id(e) = Id(f)
  PROVE  e.ts = f.ts /\ e.seq = f.seq /\ HostOf[e.by] = HostOf[f.by]
<1> USE SnowflakeAssumption
<1> DEFINE A == e.ts - Epoch[e.by]
           B == f.ts - Epoch[f.by]
           M == Node[e.by]
           N == Node[f.by]
<1>1. A \in Int /\ B \in Int /\ M \in 0 .. Nodes - 1 /\ N \in 0 .. Nodes - 1
  BY DEF Issue
<1>2. e.seq \in 0 .. Sequences - 1 /\ f.seq \in 0 .. Sequences - 1
  BY DEF Issue
<1>3. Id(e) = (A * Nodes + M) * Sequences + e.seq /\ Id(f) = (B * Nodes + N) * Sequences + f.seq
  BY DEF Id
<1> HIDE DEF A, B, M, N
<1>4. A * Nodes + M \in Int /\ B * Nodes + N \in Int
  BY <1>1
<1>5. A * Nodes + M = B * Nodes + N /\ e.seq = f.seq
  <2> DEFINE P == A * Nodes + M
             Q == B * Nodes + N
  <2>1. P \in Int /\ Q \in Int /\ P * Sequences + e.seq = Q * Sequences + f.seq
    BY <1>3, <1>4
  <2> HIDE DEF P, Q
  <2>2. P = Q /\ e.seq = f.seq
    BY <1>2, <2>1, PackOrder
  <2>3. QED
    BY <2>2 DEF P, Q
<1>6. A = B /\ M = N
  BY <1>1, <1>5, PackOrder
<1>7. HostOf[e.by] = HostOf[f.by] /\ Epoch[e.by] = Epoch[f.by]
  BY <1>6 DEF M, N, OwnNodes, Issue
<1>8. e.ts = f.ts
  BY <1>6, <1>7 DEF A, B, Issue
<1>9. QED
  BY <1>5, <1>7, <1>8

\* Of two ids of an instance, the one of a later millisecond, or of the same one and
\* a larger sequence number, is the larger.
LEMMA IdOrder ==
  ASSUME NEW e \in Issue, NEW f \in Issue, e.by = f.by,
         f.ts < e.ts \/ (f.ts = e.ts /\ f.seq < e.seq)
  PROVE  Id(f) < Id(e)
<1> USE SnowflakeAssumption
<1> DEFINE A == f.ts - Epoch[e.by]
           B == e.ts - Epoch[e.by]
           M == Node[e.by]
<1>1. /\ A \in Int /\ B \in Int /\ M \in 0 .. Nodes - 1
      /\ e.seq \in 0 .. Sequences - 1 /\ f.seq \in 0 .. Sequences - 1
      /\ A < B \/ (A = B /\ f.seq < e.seq)
  BY DEF Issue
<1>2. Id(e) = (B * Nodes + M) * Sequences + e.seq /\ Id(f) = (A * Nodes + M) * Sequences + f.seq
  BY DEF Id
<1> HIDE DEF A, B, M
<1>3. A * Nodes + M \in Int /\ B * Nodes + M \in Int
  BY <1>1
<1>4. CASE A < B
  <2> DEFINE P == A * Nodes + M
             Q == B * Nodes + M
  <2>1. P < Q
    BY <1>1, <1>4, PackOrder
  <2>2. P \in Int /\ Q \in Int
    BY <1>3
  <2> HIDE DEF P, Q
  <2>3. P * Sequences + f.seq < Q * Sequences + e.seq
    BY <1>1, <2>1, <2>2, PackOrder
  <2>4. QED
    BY <1>2, <2>3 DEF P, Q
<1>5. CASE A = B /\ f.seq < e.seq
  <2> DEFINE P == (A * Nodes + M) * Sequences
  <2>1. P \in Int
    BY <1>3
  <2>2. Id(f) = P + f.seq /\ Id(e) = P + e.seq
    BY <1>2, <1>5
  <2> HIDE DEF P
  <2>3. QED
    BY <1>1, <1>5, <2>1, <2>2
<1>6. QED
  BY <1>1, <1>4, <1>5

Increase == \A e \in issued' \ issued : \A f \in issued : f.by = e.by => Id(f) < Id(e)

UniquenessInv == TypeOK /\ WaitingOK /\ IssuedOK /\ UniqueIds

LEMMA UniquenessInit == Init => UniquenessInv
  BY SnowflakeAssumption DEF Init, UniquenessInv, TypeOK, WaitingOK, IssuedOK, UniqueIds

\* The end of generate, for a millisecond and a sequence number that come after
\* every id the host has issued.
LEMMA FinishFresh ==
  ASSUME OwnNodes, WithinRange, UniquenessInv,
         NEW i \in Instances, NEW ts \in Epoch[i] .. Horizon + 1, NEW seq \in 0 .. Sequences - 1,
         \A f \in issued : HostOf[f.by] = HostOf[i] => f.ts < ts \/ (f.ts = ts /\ f.seq < seq),
         Finish(i, ts, seq)
  PROVE  /\ last' = [last EXCEPT ![HostOf[i]] = ts]
         /\ issued' = issued \cup {[by |-> i, ts |-> ts, seq |-> seq]}
         /\ issued' \subseteq Issue
         /\ repeated' = {}
         /\ Increase
<1> USE SnowflakeAssumption
<1> DEFINE e == [by |-> i, ts |-> ts, seq |-> seq]
<1>1. ~(ts - Epoch[i] > MaxOffset)
  BY DEF WithinRange
<1>2. e \in Issue /\ issued \subseteq Issue
  BY DEF Issue, UniquenessInv, TypeOK
<1>3. \A f \in issued : Id(f) # Id(e)
  <2>1. SUFFICES ASSUME NEW f \in issued, Id(f) = Id(e) PROVE FALSE
    OBVIOUS
  <2>2. e.ts = f.ts /\ e.seq = f.seq /\ HostOf[e.by] = HostOf[f.by]
    BY <1>2, <2>1, IdInjective
  <2>3. f.ts \in Int /\ f.seq \in Int
    BY <1>2 DEF Issue
  <2>4. QED
    BY <2>2, <2>3
<1>4. last' = [last EXCEPT ![HostOf[i]] = ts] /\ issued' = issued \cup {e}
      /\ repeated' = repeated \cup {id \in {Id(e)} : \E f \in issued : Id(f) = id}
  BY <1>1 DEF Finish
<1>5. repeated' = {}
  BY <1>3, <1>4 DEF UniquenessInv, UniqueIds
<1>6. ASSUME NEW f \in issued, f.by = i PROVE Id(f) < Id(e)
  <2>1. f \in Issue /\ f.by = e.by /\ (f.ts < e.ts \/ (f.ts = e.ts /\ f.seq < e.seq))
    BY <1>2, <1>6
  <2>2. QED
    BY <1>2, <2>1, IdOrder
<1>7. Increase
  BY <1>4, <1>6 DEF Increase
<1>8. QED
  BY <1>2, <1>4, <1>5, <1>7

LEMMA GenerateUnique ==
  ASSUME OwnNodes, WithinRange, Steady, UniquenessInv,
         NEW i \in Instances, NEW ts \in Given(i), Generate(i, ts)
  PROVE  UniquenessInv' /\ Increase
<1> USE SnowflakeAssumption DEF UniquenessInv
<1> DEFINE h == HostOf[i]
           next == IF ts = last[h] THEN (sequence[h] + 1) % Sequences ELSE 0
<1>1. /\ h \in Hosts /\ ts \in 0 .. Horizon /\ now \in 0 .. Horizon
      /\ last[h] \in -1 .. Horizon + 1 /\ sequence[h] \in 0 .. Sequences - 1
      /\ Epoch[i] \in Nat /\ issued \subseteq Issue
      /\ started[h] \in 0 .. Horizon /\ ts >= started[h]
  BY DEF TypeOK, Given, IssuedOK
<1>2. next \in 0 .. Sequences - 1
  BY <1>1
<1>3. ts = last[h] /\ next # 0 => next = sequence[h] + 1
  BY <1>1
<1>4. /\ stage[h] = "ready" /\ ts >= Epoch[i] /\ ts >= last[h] /\ now' = now /\ started' = started
      /\ sequence' = [sequence EXCEPT ![h] = next]
  BY DEF Generate, clock
<1>5. CASE ts = last[h] /\ next = 0
  <2>1. /\ stage' = [stage EXCEPT ![h] = "overflow"] /\ caller' = [caller EXCEPT ![h] = i]
        /\ UNCHANGED <<last, issued, repeated>>
    BY <1>5 DEF Generate, history
  <2>2. TypeOK'
    BY <1>1, <1>2, <1>4, <2>1 DEF TypeOK
  <2>3. WaitingOK'
    BY <1>1, <1>4, <1>5, <2>1 DEF WaitingOK, TypeOK
  <2>4. IssuedOK'
    BY <1>1, <1>4, <2>1 DEF IssuedOK, Behind, TypeOK, Issue
  <2>5. QED
    BY <2>1, <2>2, <2>3, <2>4 DEF UniqueIds, Increase
<1>6. CASE ~(ts = last[h] /\ next = 0)
  <2>1. Finish(i, ts, next) /\ UNCHANGED <<stage, caller>>
    BY <1>6 DEF Generate, waiting
  <2>2. \A f \in issued : HostOf[f.by] = h => f.ts < ts \/ (f.ts = ts /\ f.seq < next)
    BY <1>1, <1>3, <1>4, <1>6 DEF IssuedOK, Behind, Issue
  <2>3. /\ last' = [last EXCEPT ![h] = ts] /\ issued' \subseteq Issue /\ repeated' = {} /\ Increase
        /\ issued' = issued \cup {[by |-> i, ts |-> ts, seq |-> next]}
    BY <1>1, <1>2, <1>4, <2>1, <2>2, FinishFresh
  <2>4. TypeOK'
    BY <1>1, <1>2, <1>4, <2>1, <2>3 DEF TypeOK
  <2>5. WaitingOK'
    BY <1>1, <1>4, <2>1, <2>3 DEF WaitingOK, TypeOK
  <2>6. IssuedOK'
    BY <1>1, <1>2, <1>4, <2>1, <2>2, <2>3 DEF IssuedOK, Behind, TypeOK, Issue
  <2>7. QED
    BY <2>3, <2>4, <2>5, <2>6 DEF UniqueIds
<1>7. QED
  BY <1>5, <1>6

LEMMA WaitUnique ==
  ASSUME OwnNodes, WithinRange, Steady, UniquenessInv, NEW h \in Hosts, Wait(h)
  PROVE  UniquenessInv' /\ Increase
<1> USE SnowflakeAssumption DEF UniquenessInv
<1> DEFINE i == caller[h]
           ts == IF now < last[h] THEN last[h] + 1 ELSE now
<1>1. /\ i \in Instances /\ HostOf[i] = h /\ sequence[h] = 0 /\ last[h] \in Epoch[i] .. Horizon
      /\ now \in 0 .. Horizon /\ Epoch[i] \in Nat /\ issued \subseteq Issue
  BY DEF Wait, WaitingOK, TypeOK
<1>2. /\ Finish(i, ts, sequence[h])
      /\ ts > last[h] /\ ts >= now /\ ts \in Epoch[i] .. Horizon + 1
      /\ started[h] <= now
      /\ stage[h] # "ready"
  BY <1>1 DEF Wait, IssuedOK
<1>3. /\ stage' = [stage EXCEPT ![h] = "ready"] /\ caller' = [caller EXCEPT ![h] = None]
      /\ now' = now /\ started' = started /\ sequence' = sequence
  BY DEF Wait, clock
<1> HIDE DEF i, ts
<1>4. \A f \in issued : HostOf[f.by] = h => f.ts < ts \/ (f.ts = ts /\ f.seq < sequence[h])
  <2>1. started[h] \in 0 .. Horizon
    BY DEF TypeOK
  <2>2. QED
    BY <1>1, <1>2, <2>1 DEF IssuedOK, Behind, Issue
<1>5. /\ last' = [last EXCEPT ![h] = ts] /\ issued' \subseteq Issue /\ repeated' = {} /\ Increase
      /\ issued' = issued \cup {[by |-> i, ts |-> ts, seq |-> sequence[h]]}
  <2>1. sequence[h] \in 0 .. Sequences - 1
    BY DEF TypeOK
  <2>2. QED
    BY <1>1, <1>2, <1>4, <2>1, FinishFresh
<1>6. TypeOK'
  BY <1>1, <1>2, <1>3, <1>5 DEF TypeOK
<1>7. WaitingOK'
  BY <1>3, <1>5 DEF WaitingOK, TypeOK
<1>8. IssuedOK'
  <2>1. \A f \in issued : f.ts >= Epoch[f.by] /\ Behind(f, HostOf[f.by])'
    BY <1>1, <1>2, <1>3, <1>5 DEF IssuedOK, Behind, TypeOK, Issue
  <2>2. last'[h] = ts /\ sequence'[h] = 0
    BY <1>1, <1>3, <1>5 DEF TypeOK
  <2>3. \A g \in Hosts : started'[g] <= now'
    BY <1>3 DEF IssuedOK
  <2>4. ASSUME NEW f \in issued', f \notin issued
        PROVE  f.ts >= Epoch[f.by] /\ Behind(f, HostOf[f.by])'
    <3>1. f = [by |-> i, ts |-> ts, seq |-> sequence[h]]
      BY <1>5, <2>4
    <3>2. f.by = i /\ f.ts = ts /\ f.seq = 0 /\ HostOf[f.by] = h
      BY <1>1, <3>1
    <3>3. f.ts = last'[h] /\ f.seq <= sequence'[h]
      BY <2>2, <3>2
    <3>4. QED
      BY <1>2, <3>2, <3>3 DEF Behind
  <2>5. QED
    BY <2>1, <2>3, <2>4 DEF IssuedOK
<1>9. QED
  BY <1>5, <1>6, <1>7, <1>8 DEF UniqueIds

LEMMA ClockUnique ==
  ASSUME OwnNodes, WithinRange, Steady, UniquenessInv,
         Tick \/ StepBack \/ (\E h \in Hosts : Spin(h) \/ Restart(h))
  PROVE  UniquenessInv' /\ Increase
<1> USE SnowflakeAssumption DEF UniquenessInv
<1>1. CASE Tick \/ StepBack
  BY <1>1 DEF Tick, StepBack, statics, waiting, history,
              TypeOK, WaitingOK, IssuedOK, Behind, UniqueIds, Issue, Increase
<1>2. ASSUME NEW h \in Hosts, Spin(h) PROVE UniquenessInv' /\ Increase
  BY <1>2 DEF Spin, clock, statics, history, TypeOK, WaitingOK, IssuedOK, Behind, UniqueIds,
              Increase
<1>3. ASSUME NEW h \in Hosts, Restart(h) PROVE UniquenessInv' /\ Increase
  <2>1. /\ now < Horizon /\ now >= last[h] /\ now' = now + 1 /\ started' = [started EXCEPT ![h] = now + 1]
        /\ last' = [last EXCEPT ![h] = -1] /\ sequence' = [sequence EXCEPT ![h] = 0]
        /\ stage' = [stage EXCEPT ![h] = "ready"] /\ caller' = [caller EXCEPT ![h] = None]
        /\ UNCHANGED <<issued, repeated>>
    BY <1>3 DEF Restart, history
  <2>2. TypeOK' /\ WaitingOK'
    BY <2>1 DEF TypeOK, WaitingOK
  <2>3. \A f \in issued : HostOf[f.by] = h => f.ts < started'[h]
    BY <2>1 DEF IssuedOK, Behind, TypeOK, Issue
  <2>4. IssuedOK'
    BY <2>1, <2>3 DEF IssuedOK, Behind, TypeOK
  <2>5. QED
    BY <2>1, <2>2, <2>4 DEF UniqueIds, Increase
<1>4. QED
  BY <1>1, <1>2, <1>3

LEMMA UniquenessStep ==
  ASSUME OwnNodes, WithinRange, Steady, UniquenessInv, [Next]_vars
  PROVE  UniquenessInv' /\ Increase
<1>1. CASE Next
  BY <1>1, GenerateUnique, WaitUnique, ClockUnique DEF Next
<1>2. CASE UNCHANGED vars
  BY <1>2 DEF vars, clock, statics, waiting, history, UniquenessInv, TypeOK, WaitingOK,
              IssuedOK, Behind, UniqueIds, Increase
<1>3. QED
  BY <1>1, <1>2

LEMMA UniquenessSafe ==
  ASSUME OwnNodes, WithinRange, Steady
  PROVE  Spec => []UniquenessInv
<1>1. UniquenessInv /\ [Next]_vars => UniquenessInv'
  BY UniquenessStep
<1>2. QED
  BY <1>1, UniquenessInit, PTL DEF Spec

\* No two calls of generate return the same id, in a deployment where the instances
\* of a node share a process and an epoch, no epoch is out of range, and what follows the
\* restart of a process is later than all that came before.
THEOREM UniqueIdsSafe ==
  ASSUME OwnNodes, WithinRange, Steady
  PROVE  Spec => []UniqueIds
<1>1. UniquenessInv => UniqueIds
  BY DEF UniquenessInv
<1>2. QED
  BY <1>1, UniquenessSafe, PTL

\* In the same deployments the ids an instance returns increase, whichever dates are
\* given, whatever other instances do and however the clock is corrected.
THEOREM MonotonicSafe ==
  ASSUME OwnNodes, WithinRange, Steady
  PROVE  Spec => Monotonic
<1>1. UniquenessInv /\ [Next]_vars => [Increase]_issued
  BY UniquenessStep
<1>2. QED
  BY <1>1, UniquenessSafe, PTL DEF Spec, Monotonic, Increase

--------------------------------------------------------------------------------
(* What holds in every deployment: types, and that ids can be read back.       *)

InRange == \A e \in issued : e.ts - Epoch[e.by] \in 0 .. MaxOffset

RangeInv == TypeOK /\ WaitingOK /\ InRange

\* generate ends in range, or throws and leaves what was issued.
LEMMA FinishInRange ==
  ASSUME RangeInv, NEW i \in Instances,
         NEW ts \in Epoch[i] .. Horizon + 1, NEW seq \in 0 .. Sequences - 1, Finish(i, ts, seq)
  PROVE  /\ last' = last \/ last' = [last EXCEPT ![HostOf[i]] = ts]
         /\ issued' \subseteq Issue /\ repeated' \subseteq Int /\ InRange'
<1> USE SnowflakeAssumption
<1> DEFINE e == [by |-> i, ts |-> ts, seq |-> seq]
<1>1. e \in Issue /\ e.by = i /\ e.ts = ts /\ Epoch[i] \in Nat
  BY DEF Issue
<1>2. Id(e) \in Int
  BY <1>1 DEF Id, Issue
<1>3. CASE ts - Epoch[i] > MaxOffset
  BY <1>3 DEF Finish, history, RangeInv, TypeOK, InRange
<1>4. CASE ~(ts - Epoch[i] > MaxOffset)
  <2>1. /\ last' = [last EXCEPT ![HostOf[i]] = ts] /\ issued' = issued \cup {e}
        /\ repeated' = repeated \cup {id \in {Id(e)} : \E f \in issued : Id(f) = id}
    BY <1>4 DEF Finish
  <2>2. e.ts - Epoch[e.by] \in 0 .. MaxOffset
    BY <1>1, <1>4
  <2> HIDE DEF e
  <2>3. QED
    BY <1>1, <1>2, <2>1, <2>2 DEF RangeInv, TypeOK, InRange
<1>5. QED
  BY <1>3, <1>4

LEMMA GenerateInRange ==
  ASSUME RangeInv, NEW i \in Instances, NEW ts \in Given(i), Generate(i, ts)
  PROVE  RangeInv'
<1> USE SnowflakeAssumption DEF RangeInv
<1> DEFINE h == HostOf[i]
           next == IF ts = last[h] THEN (sequence[h] + 1) % Sequences ELSE 0
<1>1. /\ h \in Hosts /\ ts \in 0 .. Horizon /\ last[h] \in -1 .. Horizon + 1
      /\ sequence[h] \in 0 .. Sequences - 1 /\ Epoch[i] \in Nat
  BY DEF TypeOK, Given
<1>2. next \in 0 .. Sequences - 1
  BY <1>1
<1>3. /\ stage[h] = "ready" /\ ts >= Epoch[i] /\ now' = now /\ started' = started
      /\ sequence' = [sequence EXCEPT ![h] = next]
  BY DEF Generate, clock
<1>4. CASE ts = last[h] /\ next = 0
  <2>1. /\ stage' = [stage EXCEPT ![h] = "overflow"] /\ caller' = [caller EXCEPT ![h] = i]
        /\ UNCHANGED <<last, issued, repeated>>
    BY <1>4 DEF Generate, history
  <2>2. TypeOK'
    BY <1>1, <1>2, <1>3, <2>1 DEF TypeOK
  <2>3. WaitingOK'
    BY <1>1, <1>3, <1>4, <2>1 DEF WaitingOK, TypeOK
  <2>4. QED
    BY <2>1, <2>2, <2>3 DEF InRange
<1>5. CASE ~(ts = last[h] /\ next = 0)
  <2>1. Finish(i, ts, next) /\ UNCHANGED <<stage, caller>>
    BY <1>5 DEF Generate, waiting
  <2>2. /\ last' = last \/ last' = [last EXCEPT ![h] = ts]
        /\ issued' \subseteq Issue /\ repeated' \subseteq Int /\ InRange'
    BY <1>1, <1>2, <1>3, <2>1, FinishInRange
  <2>3. TypeOK'
    BY <1>1, <1>2, <1>3, <2>1, <2>2 DEF TypeOK
  <2>4. WaitingOK'
    BY <1>1, <1>3, <2>1, <2>2 DEF WaitingOK, TypeOK
  <2>5. QED
    BY <2>2, <2>3, <2>4
<1>6. QED
  BY <1>4, <1>5

LEMMA WaitInRange ==
  ASSUME RangeInv, NEW h \in Hosts, Wait(h)
  PROVE  RangeInv'
<1> USE SnowflakeAssumption DEF RangeInv
<1> DEFINE i == caller[h]
           ts == IF now < last[h] THEN last[h] + 1 ELSE now
<1>1. /\ i \in Instances /\ HostOf[i] = h /\ last[h] \in Epoch[i] .. Horizon
      /\ now \in 0 .. Horizon /\ Epoch[i] \in Nat /\ sequence[h] \in 0 .. Sequences - 1
  BY DEF Wait, WaitingOK, TypeOK
<1>2. Finish(i, ts, sequence[h]) /\ ts \in Epoch[i] .. Horizon + 1
  BY <1>1 DEF Wait
<1>3. /\ stage' = [stage EXCEPT ![h] = "ready"] /\ caller' = [caller EXCEPT ![h] = None]
      /\ now' = now /\ started' = started /\ sequence' = sequence
  BY DEF Wait, clock
<1> HIDE DEF i, ts
<1>4. /\ last' = last \/ last' = [last EXCEPT ![h] = ts]
      /\ issued' \subseteq Issue /\ repeated' \subseteq Int /\ InRange'
  BY <1>1, <1>2, FinishInRange
<1>5. TypeOK'
  BY <1>1, <1>2, <1>3, <1>4 DEF TypeOK
<1>6. WaitingOK'
  BY <1>3, <1>4 DEF WaitingOK, TypeOK
<1>7. QED
  BY <1>4, <1>5, <1>6

LEMMA RangeStep == RangeInv /\ [Next]_vars => RangeInv'
<1> USE SnowflakeAssumption
<1>1. SUFFICES ASSUME RangeInv, [Next]_vars PROVE RangeInv'
  OBVIOUS
<1>2. ASSUME NEW h \in Hosts, Spin(h) PROVE RangeInv'
  BY <1>1, <1>2 DEF Spin, clock, statics, history, RangeInv, TypeOK, WaitingOK, InRange
<1>3. ASSUME NEW h \in Hosts, Restart(h) PROVE RangeInv'
  BY <1>1, <1>3 DEF Restart, history, RangeInv, TypeOK, WaitingOK, InRange
<1>4. CASE Tick \/ StepBack \/ UNCHANGED vars
  <2>1. now' \in 0 .. Horizon /\ UNCHANGED <<started, statics, waiting, history>>
    BY <1>1, <1>4 DEF Tick, StepBack, vars, clock, RangeInv, TypeOK
  <2>2. QED
    BY <1>1, <2>1 DEF statics, waiting, history, RangeInv, TypeOK, WaitingOK, InRange
<1>5. QED
  BY <1>1, <1>2, <1>3, <1>4, GenerateInRange, WaitInRange DEF Next

LEMMA RangeSafe == Spec => []RangeInv
<1>1. Init => RangeInv
  BY SnowflakeAssumption DEF Init, RangeInv, TypeOK, WaitingOK, InRange
<1>2. QED
  BY <1>1, RangeStep, PTL DEF Spec

\* In every deployment the statics keep their ranges: an overflow wraps the
\* sequence to 0 and the last millisecond never passes the end of the clock.
THEOREM TypeCorrect == Spec => []TypeOK
<1>1. RangeInv => TypeOK
  BY DEF RangeInv
<1>2. QED
  BY <1>1, RangeSafe, PTL

\* Division undoes packing.
LEMMA DivUnique ==
  ASSUME NEW K \in Nat \ {0}, NEW a \in Nat, NEW x \in 0 .. K - 1
  PROVE  (a * K + x) \div K = a /\ (a * K + x) % K = x
  OBVIOUS

\* Two divisions are one by the product.
LEMMA DivTwice ==
  ASSUME NEW K \in Nat \ {0}, NEW L \in Nat \ {0}, NEW a \in Nat,
         NEW m \in 0 .. L - 1, NEW x \in 0 .. K - 1
  PROVE  ((a * L + m) * K + x) \div (K * L) = a
<1>1. m * K + x \in 0 .. K * L - 1
  <2>1. (L - 1 - m) * K >= 0
    <3>1. L - 1 - m \in Nat
      OBVIOUS
    <3>2. QED
      BY <3>1
  <2>2. m * K + x = K * L - (L - 1 - m) * K - K + x
    OBVIOUS
  <2>3. m * K \in Nat
    OBVIOUS
  <2>4. QED
    BY <2>1, <2>2, <2>3
<1>2. (a * L + m) * K + x = a * (K * L) + (m * K + x)
  OBVIOUS
<1>3. K * L \in Nat \ {0}
  OBVIOUS
<1>4. QED
  BY <1>1, <1>2, <1>3, DivUnique

\* The number of an id with its fields in range is below the product of the ranges.
LEMMA PackBound ==
  ASSUME NEW K \in Nat \ {0}, NEW B \in Nat, NEW a \in 0 .. B - 1, NEW x \in 0 .. K - 1
  PROVE  a * K + x \in 0 .. B * K - 1
<1>1. (B - 1 - a) * K >= 0
  <2>1. B - 1 - a \in Nat
    OBVIOUS
  <2>2. QED
    BY <2>1
<1>2. a * K + x = B * K - (B - 1 - a) * K - K + x
  OBVIOUS
<1>3. a * K \in Nat
  OBVIOUS
<1>4. QED
  BY <1>1, <1>2, <1>3

\* An id whose fields are in range is read back by an instance with its epoch.
LEMMA ReadBack ==
  ASSUME NEW e \in Issue, NEW i \in Instances, Epoch[i] = Epoch[e.by],
         e.ts - Epoch[e.by] \in 0 .. MaxOffset
  PROVE  /\ Id(e) \in 0 .. (MaxOffset + 1) * Nodes * Sequences - 1
         /\ Parse(i, Id(e)) = [timestamp |-> e.ts, node |-> Node[e.by], increment |-> e.seq]
<1> USE SnowflakeAssumption
<1> DEFINE A == e.ts - Epoch[e.by]
           M == Node[e.by]
           Q == A * Nodes + M
<1>1. /\ A \in 0 .. MaxOffset /\ A \in Nat /\ M \in 0 .. Nodes - 1 /\ e.seq \in 0 .. Sequences - 1
      /\ A + Epoch[i] = e.ts
  BY DEF Issue
<1>2. Id(e) = Q * Sequences + e.seq
  BY DEF Id
<1> HIDE DEF A, M, Q
<1>3. Q \in 0 .. (MaxOffset + 1) * Nodes - 1 /\ Q \in Nat
  <2>1. A \in 0 .. (MaxOffset + 1) - 1 /\ MaxOffset + 1 \in Nat
    BY <1>1
  <2>2. QED
    BY <1>1, <2>1, PackBound DEF Q
<1>4. Nodes \in Nat \ {0} /\ Sequences \in Nat \ {0} /\ (MaxOffset + 1) * Nodes \in Nat
  OBVIOUS
<1>5. Q % Nodes = M
  BY <1>1, <1>4, DivUnique, Zenon DEF Q
<1> DEFINE S == e.seq
<1>6. S \in 0 .. Sequences - 1 /\ Id(e) = Q * Sequences + S
  BY <1>1, <1>2
<1> HIDE DEF S
<1>7. Id(e) \div (Sequences * Nodes) = A
  <2>1. ((A * Nodes + M) * Sequences + S) \div (Sequences * Nodes) = A
    <3>1. \A a \in Nat, m \in 0 .. Nodes - 1, x \in 0 .. Sequences - 1 :
            ((a * Nodes + m) * Sequences + x) \div (Sequences * Nodes) = a
      BY <1>4, DivTwice, Zenon
    <3>2. QED
      BY <1>1, <1>6, <3>1, Zenon
  <2>2. QED
    BY <1>6, <2>1, Zenon DEF Q
<1>8. Id(e) \div Sequences = Q /\ Id(e) % Sequences = S
  <2>1. (Q * Sequences + S) \div Sequences = Q /\ (Q * Sequences + S) % Sequences = S
    BY <1>3, <1>4, <1>6, DivUnique, Zenon
  <2>2. QED
    BY <1>6, <2>1, Zenon
<1>9. Id(e) \in 0 .. (MaxOffset + 1) * Nodes * Sequences - 1
  <2>1. Q * Sequences + S \in 0 .. ((MaxOffset + 1) * Nodes) * Sequences - 1
    BY <1>3, <1>4, <1>6, PackBound, Zenon
  <2>2. QED
    BY <1>6, <2>1, Zenon
<1>10. Parse(i, Id(e)) = [timestamp |-> e.ts, node |-> M, increment |-> S]
  BY <1>1, <1>5, <1>7, <1>8, Zenon DEF Parse
<1>11. QED
  BY <1>9, <1>10 DEF M, S

LEMMA RangeDecodable ==
  ASSUME RangeInv
  PROVE  Decodable
<1> USE SnowflakeAssumption
<1>1. ASSUME NEW e \in issued, NEW i \in Instances, Epoch[i] = Epoch[e.by]
      PROVE  /\ Id(e) \in 0 .. (MaxOffset + 1) * Nodes * Sequences - 1
             /\ Parse(i, Id(e)) = [timestamp |-> e.ts, node |-> Node[e.by], increment |-> e.seq]
             /\ e.ts \in Epoch[i] + 1 .. now => IsSnowflake(i, Id(e))
  <2>1. e \in Issue /\ e.ts - Epoch[e.by] \in 0 .. MaxOffset /\ now \in Nat
    BY <1>1 DEF RangeInv, TypeOK, InRange
  <2>2. /\ Id(e) \in 0 .. (MaxOffset + 1) * Nodes * Sequences - 1
        /\ Parse(i, Id(e)) = [timestamp |-> e.ts, node |-> Node[e.by], increment |-> e.seq]
    BY <1>1, <2>1, ReadBack
  <2>3. ASSUME e.ts \in Epoch[i] + 1 .. now PROVE IsSnowflake(i, Id(e))
    <3>1. Parse(i, Id(e)).timestamp = e.ts
      BY <2>2
    <3>2. e.ts > Epoch[i] /\ e.ts <= now
      BY <2>1, <2>3 DEF Issue
    <3>3. QED
      BY <3>1, <3>2 DEF IsSnowflake
  <2>4. QED
    BY <2>2, <2>3
<1>2. QED
  BY <1>1 DEF Decodable

\* In every deployment, also with epochs out of range and clocks set back, an id
\* fits in its bits and parse gives back what generate packed.
THEOREM DecodableSafe == Spec => []Decodable
<1>1. RangeInv => Decodable
  BY RangeDecodable
<1>2. QED
  BY <1>1, RangeSafe, PTL

================================================================================
