------------------------- MODULE AvroSerializerProofs -------------------------
(* Proofs about AvroSerializer: AvroInv is inductive, for any number of sends  *)
(* and topics, and implies the invariants and the action property of the runs. *)
EXTENDS AvroSerializer, TLAPS

\* The initial state satisfies the inductive invariant.
LEMMA InitAvro == Init => AvroInv
<1> SUFFICES ASSUME Init PROVE AvroInv
    OBVIOUS
<1> USE DEF Init
<1>1. TypeOK
  <2>1. 0 \in 0 .. MaxId /\ 0 \in 0 .. MaxClock
      BY AvroAssumption
  <2> QED
      BY <2>1 DEF TypeOK
<1>2. FailsForCause
    BY DEF FailsForCause
<1>3. Unstarted
    BY DEF Unstarted
<1>4. \A o \in Owners : OwnerOK(o)
    BY DEF OwnerOK
<1>5. \A s \in Sends : SendOK(s)
    BY DEF SendOK, Owners, Steps
<1>6. \A t \in Topics : TopicOK(t)
    BY DEF TopicOK, Busy, Steps
<1> QED
    BY <1>1, <1>2, <1>3, <1>4, <1>5, <1>6 DEF AvroInv

\* serialize begins; the first one begins a registration of each topic.
LEMMA SerializeStep ==
    ASSUME AvroInv, NEW s \in Sends, Serialize(s)
    PROVE  AvroInv'
<1> USE DEF AvroInv, Serialize, registry, registrations
<1>0. PICK t \in Topics \cup Others : topic' = [topic EXCEPT ![s] = t]
    OBVIOUS
<1>1. TypeOK'
    BY <1>0, AvroAssumption DEF TypeOK, Owners, Steps
<1>2. FailsForCause'
    BY <1>0 DEF FailsForCause, TypeOK
<1>3. \A o \in Owners : at'[o] # at[o] => o \in Topics /\ at[o] = "none" /\ at'[o] = "registerKey"
    BY DEF Unstarted, TypeOK, Owners
<1>4. \A o \in Owners : at[o] # "none" => TopicOf(o)' = TopicOf(o)
    BY <1>0 DEF SendOK, TopicOf, TypeOK, Owners
<1>5. \A o \in Owners : OwnerOK(o)'
    BY <1>3, <1>4 DEF OwnerOK
<1>6. \A r \in Sends : SendOK(r)'
    BY <1>0, <1>3, AvroAssumption DEF SendOK, TypeOK, Known, Steps, Owners
<1>7. \A u \in Topics : TopicOK(u)'
  <2> SUFFICES ASSUME NEW u \in Topics PROVE TopicOK(u)'
      OBVIOUS
  <2>1. CASE initialization
      BY <2>1, <1>4 DEF TopicOK, Busy, Known, Steps
  <2>2. CASE Unstarted
    <3>1. \A o \in Owners : at'[o] \in Steps => o \in Topics /\ TopicOf(o)' = o /\ at'[o] = "registerKey"
        BY <2>2, <1>3 DEF Unstarted, Steps, TopicOf
    <3> QED
        BY <3>1, <2>2 DEF TopicOK, Busy, Known, Steps
  <2> QED
      BY <2>1, <2>2
<1> QED
    BY <1>1, <1>2, <1>5, <1>6, <1>7

\* updateSchemas fails, begins a registration, or leaves the stored ids to be used.
LEMMA UpdateStep ==
    ASSUME AvroInv, NEW s \in Sends, Update(s)
    PROVE  AvroInv'
<1> USE DEF AvroInv, Update, registry
<1>0. topic[s] \in Topics \cup Others /\ at[s] = "none" /\ TopicOf(s) = topic[s] /\ s \in Owners /\ initialization
    BY AvroAssumption DEF SendOK, TopicOf, Owners, Unstarted
<1>1. TypeOK'
  <2>1. CASE Refused(topic[s]) \/ Expired(topic[s])
      BY <2>1, <1>0 DEF TypeOK, Steps, Refused
  <2>2. CASE ~Refused(topic[s]) /\ ~Expired(topic[s])
    <3>1. schemas[topic[s]] # None
        BY <2>2 DEF Expired, Refused, TypeOK
    <3> QED
        BY <2>2, <3>1 DEF TypeOK, Refused
  <2> QED
      BY <2>1, <2>2
<1>2. FailsForCause'
    BY <1>0 DEF FailsForCause, TypeOK, Refused
<1>3. \A o \in Owners : o # s => at'[o] = at[o]
    BY DEF TypeOK
<1>4. \A o \in Owners : TopicOf(o)' = TopicOf(o)
    BY DEF TopicOf
<1>5. \A o \in Owners : OwnerOK(o)'
    BY <1>3, <1>4, <1>0 DEF OwnerOK, TypeOK
<1>6. \A r \in Sends : SendOK(r)'
  <2>1. CASE Refused(topic[s])
      BY <2>1, <1>0 DEF SendOK, TypeOK, Known, Steps, Refused
  <2>2. CASE ~Refused(topic[s]) /\ Expired(topic[s])
    <3>1. pc' = [pc EXCEPT ![s] = "update"] /\ at' = [at EXCEPT ![s] = "registerKey"]
        BY <2>2
    <3>2. topic[s] \in Topics
        BY <2>2 DEF Refused
    <3> QED
        BY <2>2, <3>1, <3>2 DEF SendOK, TypeOK, Known, Steps, Owners
  <2>3. CASE ~Refused(topic[s]) /\ ~Expired(topic[s])
    <3>1. schemas[topic[s]] # None
        BY <2>3 DEF Expired, Refused, TypeOK
    <3>2. Known(topic[s], schemas[topic[s]])
        BY <2>3, <3>1 DEF TopicOK, Refused
    <3> QED
        BY <2>3, <3>1, <3>2, <1>0 DEF SendOK, TypeOK, Known, Steps, Refused
  <2> QED
      BY <2>1, <2>2, <2>3
<1>7. \A u \in Topics : TopicOK(u)'
  <2> SUFFICES ASSUME NEW u \in Topics PROVE TopicOK(u)'
      OBVIOUS
  <2>1. CASE pc'[s] = "update"
    <3>1. at' = [at EXCEPT ![s] = "registerKey"] /\ overlapped' = overlapped \cup {t \in {topic[s]} : Busy(t) # {}}
        BY <2>1, <1>0 DEF TypeOK
    <3>2. Busy(u)' \subseteq Busy(u) \cup (IF u = topic[s] THEN {s} ELSE {})
        BY <3>1, <1>0, <1>4 DEF Busy, TypeOK
    <3>3. u \notin overlapped' => u \notin overlapped /\ (u = topic[s] => Busy(u) = {})
        BY <3>1
    <3>4. \A o \in Busy(u)' : at'[o] = "latestValue" => o \in Busy(u) /\ at[o] = "latestValue"
        BY <3>1, <3>2, <1>0 DEF TypeOK, Busy, Steps
    <3> QED
        BY <3>2, <3>3, <3>4 DEF TopicOK, Known
  <2>2. CASE pc'[s] # "update"
    <3>1. at' = at /\ overlapped' = overlapped
        BY <2>2 DEF TypeOK
    <3> QED
        BY <3>1, <1>4 DEF TopicOK, Known, Busy
  <2> QED
      BY <2>1, <2>2
<1> QED
    BY <1>0, <1>1, <1>2, <1>5, <1>6, <1>7

\* A field's schema is registered, or there is none: ids only grow.
LEMMA RegisterStep ==
    ASSUME AvroInv, NEW o \in Owners,
           RegisterKey(o) \/ RegisterValue(o)
    PROVE  AvroInv'
<1> USE DEF AvroInv, sends
<1>0. /\ UNCHANGED <<clock, initialization, keyId, schemas, fetched, overlapped, sends, rejected>>
      /\ at[o] \in {"registerKey", "registerValue"}
      /\ at' = [at EXCEPT ![o] = IF at[o] = "registerKey" THEN "registerValue" ELSE "latestKey"]
    BY DEF RegisterKey, RegisterValue, Register
<1>1. TopicOf(o) \in Topics
    BY <1>0 DEF SendOK, TopicOf, Owners
<1>2. /\ latest' \in [Topics -> [Fields -> 0 .. MaxId]]
      /\ \A t \in Topics, f \in Fields : latest'[t][f] >= latest[t][f]
      /\ at[o] = "registerKey" /\ "key" \in Schema[TopicOf(o)] => latest'[TopicOf(o)]["key"] >= 1
      /\ at[o] = "registerValue" /\ "value" \in Schema[TopicOf(o)] => latest'[TopicOf(o)]["value"] >= 1
  <2>1. latest \in [Topics -> [Fields -> 0 .. MaxId]] /\ 1 \in 0 .. MaxId
      BY AvroAssumption DEF TypeOK
  <2> DEFINE field == IF at[o] = "registerKey" THEN "key" ELSE "value"
  <2>2. latest' = IF field \in Schema[TopicOf(o)] /\ latest[TopicOf(o)][field] = 0
                  THEN [latest EXCEPT ![TopicOf(o)][field] = 1]
                  ELSE latest
      BY DEF RegisterKey, RegisterValue, Register
  <2>3. field \in Fields
      BY DEF Fields
  <2> HIDE DEF field
  <2>4. /\ latest' \in [Topics -> [Fields -> 0 .. MaxId]]
        /\ \A t \in Topics, f \in Fields : latest'[t][f] >= latest[t][f]
        /\ field \in Schema[TopicOf(o)] => latest'[TopicOf(o)][field] >= 1
    <3>1. CASE field \in Schema[TopicOf(o)] /\ latest[TopicOf(o)][field] = 0
        BY <3>1, <2>1, <2>2, <2>3, <1>1
    <3>2. CASE ~(field \in Schema[TopicOf(o)] /\ latest[TopicOf(o)][field] = 0)
      <4>1. latest[TopicOf(o)][field] \in 0 .. MaxId
          BY <2>1, <2>3, <1>1
      <4> QED
        BY <3>2, <4>1, <2>1, <2>2
    <3> QED
        BY <3>1, <3>2
  <2> QED
      BY <2>4, <1>0 DEF field
<1>3. TypeOK'
    BY <1>0, <1>2 DEF TypeOK, Steps
<1>4. \A p \in Owners : TopicOf(p)' = TopicOf(p) /\ (at[p] \in Steps => TopicOf(p) \in Topics)
    BY <1>0 DEF TopicOf, Owners, SendOK, Steps
<1>5. \A p \in Owners : OwnerOK(p)'
  <2> SUFFICES ASSUME NEW p \in Owners PROVE OwnerOK(p)'
      OBVIOUS
  <2>1. CASE at'[p] \notin Steps
      BY <2>1 DEF OwnerOK, Steps
  <2>2. CASE at'[p] \in Steps
    <3>1. TopicOf(p) \in Topics /\ at[p] \in Steps
        BY <2>2, <1>0, <1>4 DEF TypeOK, Steps
    <3>2. /\ latest[TopicOf(p)]["key"] \in Nat /\ latest'[TopicOf(p)]["key"] \in Nat
          /\ latest[TopicOf(p)]["value"] \in Nat /\ latest'[TopicOf(p)]["value"] \in Nat
          /\ latest'[TopicOf(p)]["key"] >= latest[TopicOf(p)]["key"]
          /\ latest'[TopicOf(p)]["value"] >= latest[TopicOf(p)]["value"]
        BY <3>1, <1>2 DEF TypeOK, Fields
    <3> QED
        BY <3>1, <3>2, <1>0, <1>2, <1>4 DEF OwnerOK, TypeOK
  <2> QED
      BY <2>1, <2>2
<1>6. \A t \in Topics, id \in [Fields -> 0 .. MaxId] : Known(t, id) => Known(t, id)'
    BY <1>2 DEF Known, TypeOK
<1>7. \A s \in Sends : SendOK(s)'
    BY <1>0, <1>6, AvroAssumption DEF SendOK, TypeOK, Steps, Owners
<1>8. \A t \in Topics : Busy(t)' = Busy(t)
    BY <1>0, <1>4 DEF Busy, Steps, TypeOK
<1>9. \A t \in Topics : TopicOK(t)'
    BY <1>0, <1>6, <1>8 DEF TopicOK, TypeOK
<1>10. (initialization \/ Unstarted)' /\ FailsForCause'
    BY <1>0 DEF Unstarted, FailsForCause, TypeOK
<1> QED
    BY <1>3, <1>5, <1>7, <1>9, <1>10

\* The key is looked up: nothing that is stored is newer.
LEMMA LatestKeyStep ==
    ASSUME AvroInv, NEW o \in Owners, LatestKey(o)
    PROVE  AvroInv'
<1> USE DEF AvroInv, LatestKey, sends, registry
<1>1. TopicOf(o) \in Topics
    BY DEF SendOK, TopicOf, Owners
<1>2. /\ latest[TopicOf(o)]["key"] \in 0 .. MaxId
      /\ LatestId(TopicOf(o), "key") \in 0 .. MaxId
      /\ "key" \in Fields
    BY <1>1, AvroAssumption DEF TypeOK, LatestId, Fields
<1>3. TypeOK'
    BY <1>2 DEF TypeOK, Steps
<1>4. \A p \in Owners : TopicOf(p)' = TopicOf(p)
    BY DEF TopicOf
<1>5. \A p \in Owners : OwnerOK(p)'
    BY <1>2, <1>4 DEF OwnerOK, TypeOK, LatestId
<1>6. \A s \in Sends : SendOK(s)'
    BY AvroAssumption DEF SendOK, TypeOK, Steps, Owners, Known
<1>7. \A t \in Topics : Busy(t)' = Busy(t)
    BY <1>4 DEF Busy, Steps, TypeOK
<1>8. \A t \in Topics : TopicOK(t)'
  <2> SUFFICES ASSUME NEW t \in Topics PROVE TopicOK(t)'
      OBVIOUS
  <2>1. schemas[t] # None => Known(t, schemas[t]) /\ Known(t, schemas[t])'
      BY DEF TopicOK, Known
  <2>2. schemas[t] # None /\ o \in Busy(t) => LatestId(t, "key") >= schemas[t]["key"]
    <3>1. schemas[t] # None => schemas[t]["key"] \in 0 .. MaxId /\ latest[t]["key"] \in 0 .. MaxId
        BY <1>2 DEF TypeOK
    <3> QED
        BY <2>1, <3>1, <1>2 DEF Known, LatestId
  <2>3. o \in Busy(t) => TopicOf(o) = t
      BY DEF Busy
  <2> QED
      BY <2>1, <2>2, <2>3, <1>7 DEF TopicOK, TypeOK
<1>9. (initialization \/ Unstarted)' /\ FailsForCause'
    BY DEF Unstarted, FailsForCause, TypeOK
<1> QED
    BY <1>3, <1>5, <1>6, <1>8, <1>9

\* What a registration has found is known, and not older than what is stored unless
\* two of the topic overlapped.
LEMMA FoundKnown ==
    ASSUME AvroInv, NEW o \in Owners, at[o] = "latestValue"
    PROVE  /\ TopicOf(o) \in Topics
           /\ Found(o) \in [Fields -> 0 .. MaxId]
           /\ Known(TopicOf(o), Found(o))
           /\ TopicOf(o) \notin overlapped /\ schemas[TopicOf(o)] # None =>
                \A f \in Fields : Found(o)[f] >= schemas[TopicOf(o)][f]
<1> USE DEF AvroInv
<1>1. TopicOf(o) \in Topics
    BY DEF SendOK, TopicOf, Owners
<1> DEFINE t == TopicOf(o)
<1>2. /\ latest[t]["key"] \in 0 .. MaxId /\ latest[t]["value"] \in 0 .. MaxId
      /\ keyId[o] \in 0 .. MaxId
    BY <1>1 DEF TypeOK, Fields
<1>3. OwnerOK(o)
    OBVIOUS
<1>4. Found(o) \in [Fields -> 0 .. MaxId]
    BY <1>2, AvroAssumption DEF Found, LatestId, Fields
<1>5. Found(o)["key"] = keyId[o] /\ Found(o)["value"] = LatestId(t, "value")
    BY DEF Found, Fields
<1>6. Known(t, Found(o))
    BY <1>2, <1>3, <1>5 DEF OwnerOK, Known, LatestId, Fields
<1>7. ASSUME t \notin overlapped, schemas[t] # None
      PROVE  \A f \in Fields : Found(o)[f] >= schemas[t][f]
  <2>1. keyId[o] >= schemas[t]["key"]
      BY <1>1, <1>7 DEF TopicOK, Busy, Steps
  <2>2. Known(t, schemas[t]) /\ schemas[t]["value"] \in 0 .. MaxId
      BY <1>1, <1>7 DEF TopicOK, TypeOK, Fields
  <2>3. LatestId(t, "value") >= schemas[t]["value"]
      BY <2>2, <1>2 DEF Known, LatestId, Fields
  <2> QED
      BY <2>1, <2>3, <1>5 DEF Fields
<1> QED
    BY <1>1, <1>4, <1>6, <1>7

\* The ids are stored, and a send goes on with them.
LEMMA LatestValueStep ==
    ASSUME AvroInv, NEW o \in Owners, LatestValue(o)
    PROVE  AvroInv'
<1> USE DEF AvroInv, LatestValue, registry
<1>0. at[o] = "latestValue"
    OBVIOUS
<1>1. /\ TopicOf(o) \in Topics
      /\ Found(o) \in [Fields -> 0 .. MaxId]
      /\ Known(TopicOf(o), Found(o))
    BY <1>0, FoundKnown
<1>2. Found(o) # None /\ clock # None /\ 0 \in 0 .. MaxId
    BY <1>1, AvroAssumption DEF TypeOK
<1>3. TypeOK'
    BY <1>1, <1>2 DEF TypeOK, Steps
<1>4. \A p \in Owners : TopicOf(p)' = TopicOf(p)
    BY DEF TopicOf
<1>5. \A p \in Owners : OwnerOK(p)'
    BY <1>4 DEF OwnerOK, TypeOK
<1>6. \A s \in Sends : SendOK(s)'
  <2> SUFFICES ASSUME NEW s \in Sends PROVE SendOK(s)'
      OBVIOUS
  <2>1. CASE s = o
    <3>1. TopicOf(o) = topic[s] /\ o \in Owners
        BY <2>1, AvroAssumption DEF TopicOf
    <3>2. at'[s] = "done" /\ pc'[s] = "encode" /\ ids'[s] = Found(o) /\ topic' = topic
        BY <2>1 DEF TypeOK
    <3> QED
        BY <3>1, <3>2, <1>1 DEF SendOK, Steps, Known
  <2>2. CASE s # o
    <3>1. at'[s] = at[s] /\ pc'[s] = pc[s] /\ ids'[s] = ids[s] /\ topic' = topic
        BY <2>2 DEF TypeOK, Owners
    <3> QED
        BY <3>1 DEF SendOK, Steps, Known
  <2> QED
      BY <2>1, <2>2
<1>7. \A t \in Topics : Busy(t)' = Busy(t) \ {o}
    BY <1>4 DEF Busy, Steps, TypeOK
<1>8. \A t \in Topics : TopicOK(t)'
  <2> SUFFICES ASSUME NEW t \in Topics PROVE TopicOK(t)'
      OBVIOUS
  <2>1. CASE t = TopicOf(o)
    <3>1. schemas'[t] = Found(o)
        BY <2>1 DEF TypeOK
    <3>2. Known(t, schemas[t])'
        BY <2>1, <3>1, <1>1 DEF Known
    <3>3. o \in Busy(t)
        BY <2>1 DEF Busy, Steps
    <3>4. t \notin overlapped => Busy(t)' = {}
        BY <3>3, <1>7 DEF TopicOK
    <3> QED
        BY <3>2, <3>4 DEF TopicOK
  <2>2. CASE t # TopicOf(o)
    <3>1. schemas'[t] = schemas[t] /\ o \notin Busy(t)
        BY <2>2 DEF TypeOK, Busy
    <3>2. \A p \in Busy(t) : at'[p] = at[p] /\ keyId'[p] = keyId[p]
        BY <3>1 DEF TypeOK, Busy
    <3> QED
        BY <3>1, <3>2, <1>7 DEF TopicOK, Known
  <2> QED
      BY <2>1, <2>2
<1>9. (initialization \/ Unstarted)' /\ FailsForCause'
    BY DEF Unstarted, FailsForCause, TypeOK
<1> QED
    BY <1>3, <1>5, <1>6, <1>8, <1>9

\* A rejected request ends a registration and, if it is of a send, the send.
LEMMA RejectStep ==
    ASSUME AvroInv, NEW o \in Owners, Reject(o)
    PROVE  AvroInv'
<1> USE DEF AvroInv, Reject, registry
<1>0. at[o] \in Steps
    BY DEF Rejectable, Steps
<1>1. TypeOK'
  <2>1. 0 \in 0 .. MaxId
      BY AvroAssumption
  <2> QED
      BY <2>1 DEF TypeOK, Owners
<1>2. FailsForCause'
    BY DEF FailsForCause, TypeOK
<1>3. \A p \in Owners : TopicOf(p)' = TopicOf(p)
    BY DEF TopicOf
<1>4. \A p \in Owners : OwnerOK(p)'
    BY <1>3 DEF OwnerOK, TypeOK
<1>5. \A s \in Sends : SendOK(s)'
    BY <1>0 DEF SendOK, TypeOK, Known, Steps, Owners
<1>6. \A t \in Topics : Busy(t)' = Busy(t) \ {o}
    BY <1>3 DEF Busy, Steps, TypeOK
<1>7. \A t \in Topics : TopicOK(t)'
    BY <1>6 DEF TopicOK, Known, TypeOK, Busy
<1>8. (initialization \/ Unstarted)'
    BY <1>0 DEF Unstarted, Steps
<1> QED
    BY <1>1, <1>2, <1>4, <1>5, <1>7, <1>8

\* A message is encoded, or it is not.
LEMMA EncodeStep ==
    ASSUME AvroInv, NEW s \in Sends, Encode(s)
    PROVE  AvroInv'
<1> USE DEF AvroInv, Encode, registry, registrations
<1>1. TypeOK'
    BY DEF TypeOK, Owners
<1>2. FailsForCause'
    BY DEF FailsForCause, TypeOK
<1>3. \A p \in Owners : TopicOf(p)' = TopicOf(p)
    BY DEF TopicOf
<1>4. \A p \in Owners : OwnerOK(p)'
    BY <1>3 DEF OwnerOK
<1>5. \A r \in Sends : SendOK(r)'
    BY DEF SendOK, TypeOK, Known, Steps
<1>6. \A t \in Topics : TopicOK(t)'
    BY <1>3 DEF TopicOK, Known, Busy
<1>7. (initialization \/ Unstarted)'
    BY DEF Unstarted
<1> QED
    BY <1>1, <1>2, <1>4, <1>5, <1>6, <1>7

\* The environment: known ids stay known.
LEMMA EnvironmentStep ==
    ASSUME AvroInv, (\E t \in Topics, f \in Fields : Evolve(t, f)) \/ Tick
    PROVE  AvroInv'
<1> USE DEF AvroInv, registrations, sends
<1>0. UNCHANGED <<initialization, registrations, sends, rejected>>
    BY DEF Evolve, Tick
<1>1. /\ latest' \in [Topics -> [Fields -> 0 .. MaxId]]
      /\ \A t \in Topics, f \in Fields : latest'[t][f] >= latest[t][f]
      /\ clock' \in 0 .. MaxClock
  <2>1. latest \in [Topics -> [Fields -> 0 .. MaxId]] /\ clock \in 0 .. MaxClock
      BY DEF TypeOK
  <2>2. CASE Tick
      BY <2>1, <2>2, AvroAssumption DEF Tick
  <2>3. ASSUME NEW t \in Topics, NEW f \in Fields, Evolve(t, f)
        PROVE  /\ latest' \in [Topics -> [Fields -> 0 .. MaxId]]
               /\ \A u \in Topics, g \in Fields : latest'[u][g] >= latest[u][g]
               /\ clock' \in 0 .. MaxClock
      BY <2>1, <2>3, AvroAssumption DEF Evolve
  <2> QED
      BY <2>2, <2>3
<1>2. TypeOK'
    BY <1>0, <1>1 DEF TypeOK
<1>3. \A p \in Owners : TopicOf(p)' = TopicOf(p) /\ (at[p] \in Steps => TopicOf(p) \in Topics)
    BY <1>0 DEF TopicOf, Owners, SendOK, Steps
<1>4. \A p \in Owners : OwnerOK(p)'
  <2> SUFFICES ASSUME NEW p \in Owners, at[p] \in Steps PROVE OwnerOK(p)'
      BY <1>0 DEF OwnerOK, Steps
  <2>1. TopicOf(p) \in Topics
      BY <1>3
  <2>2. /\ latest[TopicOf(p)]["key"] \in Nat /\ latest'[TopicOf(p)]["key"] \in Nat
        /\ latest[TopicOf(p)]["value"] \in Nat /\ latest'[TopicOf(p)]["value"] \in Nat
        /\ latest'[TopicOf(p)]["key"] >= latest[TopicOf(p)]["key"]
        /\ latest'[TopicOf(p)]["value"] >= latest[TopicOf(p)]["value"]
      BY <2>1, <1>1 DEF TypeOK, Fields
  <2> QED
      BY <2>2, <1>0, <1>3 DEF OwnerOK, TypeOK
<1>5. \A t \in Topics, id \in [Fields -> 0 .. MaxId] : Known(t, id) => Known(t, id)'
    BY <1>1 DEF Known, TypeOK
<1>6. \A s \in Sends : SendOK(s)'
    BY <1>0, <1>5 DEF SendOK, TypeOK
<1>7. \A t \in Topics : Busy(t)' = Busy(t)
    BY <1>0, <1>3 DEF Busy
<1>8. \A t \in Topics : TopicOK(t)'
    BY <1>0, <1>5, <1>7 DEF TopicOK, TypeOK
<1>9. (initialization \/ Unstarted)' /\ FailsForCause'
    BY <1>0 DEF Unstarted, FailsForCause
<1> QED
    BY <1>2, <1>4, <1>6, <1>8, <1>9

\* Every step of the serializer and its environment keeps the invariant.
LEMMA StepAvro == AvroInv /\ [Next]_vars => AvroInv'
<1> SUFFICES ASSUME AvroInv, [Next]_vars PROVE AvroInv'
    OBVIOUS
<1>1. ASSUME NEW s \in Sends, Serialize(s) \/ Update(s) \/ Encode(s) PROVE AvroInv'
    BY <1>1, SerializeStep, UpdateStep, EncodeStep
<1>2. ASSUME NEW o \in Owners, Registration(o) PROVE AvroInv'
    BY <1>2, RegisterStep, LatestKeyStep, LatestValueStep, RejectStep DEF Registration
<1>3. ASSUME (\E t \in Topics, f \in Fields : Evolve(t, f)) \/ Tick PROVE AvroInv'
    BY <1>3, EnvironmentStep
<1>4. CASE UNCHANGED vars
    BY <1>4 DEF vars, registry, registrations, sends, AvroInv, TypeOK, FailsForCause, Unstarted,
        OwnerOK, SendOK, TopicOK, Known, TopicOf, Busy
<1> QED
    BY <1>1, <1>2, <1>3, <1>4 DEF Next

\* The inductive invariant holds in every reachable state.
THEOREM AvroSafe == Spec => []AvroInv
<1> QED
    BY InitAvro, StepAvro, PTL DEF Spec

\* Types, and the ids of a topic are stored with their time.
THEOREM TypeCorrect == Spec => []TypeOK
<1>1. AvroInv => TypeOK
    BY DEF AvroInv
<1> QED
    BY <1>1, AvroSafe, PTL

\* A send fails for a cause of its own, never for another topic's or send's.
THEOREM FailsForCauseSafe == Spec => []FailsForCause
<1>1. AvroInv => FailsForCause
    BY DEF AvroInv
<1> QED
    BY <1>1, AvroSafe, PTL

\* What a consumer gets is what was sent, up to values that count as false and to an
\* encoded field beside a plain one.
THEOREM RoundTripSafe == Spec => []RoundTrip
<1>1. AvroInv => RoundTrip
  <2> SUFFICES ASSUME AvroInv, NEW s \in Sends, pc[s] = "sent"
               PROVE  /\ topic[s] \in Topics
                      /\ \A f \in Schema[topic[s]] : ids[s][f] \in 1 .. latest[topic[s]][f]
                      /\ \A f \in Fields \ Schema[topic[s]] : ids[s][f] = 0
                      /\ \A m \in Messages, f \in Fields :
                          LET wire == Wire(ids[s], m)
                              got == Deserialize(wire, m)
                          IN  \/ got[f] = m[f]
                              \/ got[f] = "null" /\ m[f] = "falsy"
                              \/ /\ got[f] = "garbled" /\ wire[f] = "avro"
                                 /\ \E g \in Fields : wire[g] = "plain"
      BY DEF RoundTrip
  <2>1. topic[s] \in Topics /\ Known(topic[s], ids[s])
      BY DEF AvroInv, SendOK
  <2>2. Schema[topic[s]] \subseteq Fields
      BY <2>1, AvroAssumption
  <2>3. ASSUME NEW m \in Messages, NEW f \in Fields
        PROVE  LET wire == Wire(ids[s], m)
                   got == Deserialize(wire, m)
               IN  \/ got[f] = m[f]
                   \/ got[f] = "null" /\ m[f] = "falsy"
                   \/ /\ got[f] = "garbled" /\ wire[f] = "avro"
                      /\ \E g \in Fields : wire[g] = "plain"
    <3>1. /\ m["key"] \in {"null", "falsy", "truthy"}
          /\ m["value"] \in {"null", "falsy", "truthy"}
          /\ f \in {"key", "value"}
        BY DEF Messages, Fields
    <3> DEFINE id == ids[s]
    <3> HIDE DEF id
    <3> DEFINE wire == Wire(id, m)
    <3>2. /\ wire["key"] = IF id["key"] = 0 THEN IF m["key"] = "null" THEN "null" ELSE "plain"
                           ELSE IF m["key"] = "truthy" THEN "avro" ELSE "null"
          /\ wire["value"] = IF id["value"] = 0 THEN IF m["value"] = "null" THEN "null" ELSE "plain"
                             ELSE IF m["value"] = "truthy" THEN "avro" ELSE "null"
        BY DEF Wire, Fields
    <3> HIDE DEF wire
    <3>3. /\ wire[f] = "avro" => Fallback(wire, m)[f] = "garbled"
          /\ wire[f] = "null" => Fallback(wire, m)[f] = "null"
          /\ wire[f] = "plain" => Fallback(wire, m)[f] = m[f]
        BY DEF Fallback
    <3>4. Decoded(wire, m)[f] = IF wire[f] = "avro" THEN m[f] ELSE "null"
        BY DEF Decoded
    <3>5. CASE Undecodable(wire, m)
      <4>1. \E g \in Fields : wire[g] = "plain"
          BY <3>5 DEF Undecodable, Fields
      <4> QED
          BY <4>1, <3>1, <3>2, <3>3, <3>5 DEF Deserialize, wire, id
    <3>6. CASE ~Undecodable(wire, m)
        BY <3>1, <3>2, <3>4, <3>6 DEF Deserialize, Undecodable, wire, id
    <3> QED
        BY <3>5, <3>6
  <2> QED
      BY <2>1, <2>2, <2>3 DEF Known, Fields
<1> QED
    BY <1>1, AvroSafe, PTL

\* Ids in use are never lost, nor replaced by older ones without an overlap.
THEOREM NeverOlderSafe == Spec => NeverOlder
<1> DEFINE Step ==
        \A t \in Topics :
            schemas[t] # None =>
                /\ schemas'[t] # None
                /\ t \notin overlapped => \A f \in Fields : schemas'[t][f] >= schemas[t][f]
<1>1. AvroInv /\ [Next]_vars => [Step]_vars
  <2> SUFFICES ASSUME AvroInv, [Next]_vars, NEW t \in Topics, schemas[t] # None
               PROVE  /\ schemas'[t] # None
                      /\ t \notin overlapped => \A f \in Fields : schemas'[t][f] >= schemas[t][f]
      OBVIOUS
  <2>1. \A f \in Fields : schemas[t][f] \in 0 .. MaxId
      BY DEF AvroInv, TypeOK
  <2>2. CASE schemas'[t] = schemas[t]
      BY <2>1, <2>2
  <2>3. ASSUME NEW o \in Owners, LatestValue(o)
        PROVE  schemas'[t] = schemas[t] \/ (t = TopicOf(o) /\ schemas'[t] = Found(o))
      BY <2>3 DEF AvroInv, TypeOK, LatestValue
  <2>4. ASSUME NEW o \in Owners, LatestValue(o), t = TopicOf(o), schemas'[t] = Found(o)
        PROVE  /\ schemas'[t] # None
               /\ t \notin overlapped => \A f \in Fields : schemas'[t][f] >= schemas[t][f]
      BY <2>4, FoundKnown, AvroAssumption DEF LatestValue
  <2>5. schemas' = schemas \/ \E o \in Owners : LatestValue(o)
      BY DEF Next, Registration, Serialize, Update, Encode, RegisterKey, RegisterValue, Register,
         LatestKey, Reject, Evolve, Tick, vars, registrations
  <2> QED
      BY <2>2, <2>3, <2>4, <2>5
<1> QED
    BY <1>1, AvroSafe, PTL DEF Spec, NeverOlder

--------------------------------------------------------------------------------
(* What Ends rests on, apart from fairness: a send never waits for nothing, and *)
(* every step of a registration or a send takes it nearer to its end.          *)

\* A send that waits for the initialization finds it settled or some registration of
\* it at work; one that updates its topic has a registration of its own at work.
SendAwaits ==
    \A s \in Sends :
        /\ pc[s] = "initialization" => InitializationSettled \/ \E t \in Topics : at[t] \in Steps
        /\ pc[s] = "update" => at[s] \in Steps

\* The initialization begins a registration of every topic, and only it does.
BegunOK == initialization => \A t \in Topics : at[t] # "none"

LEMMA BegunStep == AvroInv /\ BegunOK /\ [Next]_vars => BegunOK'
<1> SUFFICES ASSUME AvroInv, BegunOK, [Next]_vars, initialization' PROVE \A t \in Topics : at'[t] # "none"
    BY DEF BegunOK
<1>1. TypeOK
    BY DEF AvroInv
<1>2. ASSUME NEW s \in Sends, Serialize(s) PROVE \A t \in Topics : at'[t] # "none"
    BY <1>2 DEF Serialize, BegunOK, Owners
<1>3. initialization \/ \E s \in Sends : Serialize(s)
    BY DEF Next, Registration, Update, Encode, RegisterKey, RegisterValue, Register, LatestKey, LatestValue,
       Reject, Evolve, Tick, vars
<1>4. ASSUME initialization, NEW o \in Owners, Registration(o) PROVE \A t \in Topics : at'[t] # "none"
    BY <1>1, <1>4 DEF Registration, RegisterKey, RegisterValue, Register, LatestKey, LatestValue, Reject,
       BegunOK, TypeOK, Owners
<1>5. ASSUME initialization, NEW s \in Sends, Update(s) PROVE \A t \in Topics : at'[t] # "none"
    BY <1>1, <1>5 DEF Update, BegunOK, TypeOK, Owners
<1>6. CASE UNCHANGED at
    BY <1>2, <1>3, <1>6 DEF BegunOK
<1> QED
    BY <1>2, <1>3, <1>4, <1>5, <1>6 DEF Next, Encode, Evolve, Tick, vars, registrations

\* No send waits for something that will never come: for any sends and topics, and
\* whatever is rejected, what it waits for is settled or at work.
THEOREM SendAwaitsSafe == Spec => []SendAwaits
<1>1. Init => BegunOK
    BY DEF Init, BegunOK
<1>2. AvroInv /\ BegunOK => SendAwaits
  <2> SUFFICES ASSUME AvroInv, BegunOK, NEW s \in Sends
               PROVE  /\ pc[s] = "initialization" =>
                            InitializationSettled \/ \E t \in Topics : at[t] \in Steps
                      /\ pc[s] = "update" => at[s] \in Steps
      BY DEF SendAwaits
  <2>1. pc[s] = "update" => at[s] \in Steps
      BY DEF AvroInv, SendOK
  <2>2. pc[s] = "initialization" => initialization
      BY DEF AvroInv, Unstarted
  <2>3. initialization => \A t \in Topics : at[t] \in Steps \cup {"done", "failed"}
      BY DEF AvroInv, TypeOK, BegunOK, Owners
  <2> QED
      BY <2>1, <2>2, <2>3 DEF InitializationSettled
<1> QED
    BY <1>1, <1>2, BegunStep, AvroSafe, PTL DEF Spec

\* The requests that a registration may still make, and the awaits of a send.
RequestsLeft(o) ==
    CASE at[o] = "none" -> 5
      [] at[o] = "registerKey" -> 4
      [] at[o] = "registerValue" -> 3
      [] at[o] = "latestKey" -> 2
      [] at[o] = "latestValue" -> 1
      [] at[o] \in {"done", "failed"} -> 0
AwaitsLeft(s) ==
    CASE pc[s] = "idle" -> 4
      [] pc[s] = "initialization" -> 3
      [] pc[s] = "update" -> 2
      [] pc[s] = "encode" -> 1
      [] pc[s] \in {"sent", "failed"} -> 0

\* The step takes no registration and no send back, and an initialization that is
\* settled stays so.
SendNearer ==
    /\ \A o \in Owners : at'[o] = at[o] \/ RequestsLeft(o)' < RequestsLeft(o)
    /\ \A s \in Sends : pc'[s] = pc[s] \/ AwaitsLeft(s)' < AwaitsLeft(s)
    /\ InitializationSettled => InitializationSettled'

\* Registrations and sends only go forward, and nothing unsettles the initialization.
SendProgress == [][SendNearer]_vars

LEMMA SendProgressStep == AvroInv /\ [Next]_vars => SendNearer
<1> SUFFICES ASSUME AvroInv, [Next]_vars PROVE SendNearer
    OBVIOUS
<1>1. TypeOK
    BY DEF AvroInv
<1>2. \A o \in Owners : at'[o] = at[o] \/ RequestsLeft(o)' < RequestsLeft(o)
  <2> SUFFICES ASSUME NEW o \in Owners, at'[o] # at[o] PROVE RequestsLeft(o)' < RequestsLeft(o)
      OBVIOUS
  <2>1. ASSUME NEW s \in Sends, Serialize(s) PROVE RequestsLeft(o)' < RequestsLeft(o)
    <3>1. at[o] = "none" /\ at'[o] = "registerKey"
        BY <2>1 DEF Serialize, AvroInv, Unstarted
    <3> QED
        BY <3>1 DEF RequestsLeft
  <2>2. ASSUME NEW s \in Sends, Update(s) PROVE RequestsLeft(o)' < RequestsLeft(o)
    <3>1. at[s] = "none" /\ at' = [at EXCEPT ![s] = "registerKey"]
        BY <2>2, <1>1 DEF Update, AvroInv, SendOK
    <3>2. o = s /\ at'[o] = "registerKey"
        BY <3>1, <1>1 DEF TypeOK
    <3> QED
        BY <3>1, <3>2 DEF RequestsLeft
  <2>3. ASSUME NEW p \in Owners, Registration(p) PROVE RequestsLeft(o)' < RequestsLeft(o)
    <3>1. o = p
        BY <2>3, <1>1 DEF Registration, RegisterKey, RegisterValue, Register, LatestKey, LatestValue, Reject, TypeOK
    <3>2. \/ at[p] = "registerKey" /\ at'[p] = "registerValue"
          \/ at[p] = "registerValue" /\ at'[p] = "latestKey"
          \/ at[p] = "latestKey" /\ at'[p] = "latestValue"
          \/ at[p] = "latestValue" /\ at'[p] = "done"
          \/ at[p] \in Steps /\ at'[p] = "failed"
        BY <2>3, <1>1 DEF Registration, RegisterKey, RegisterValue, Register, LatestKey, LatestValue, Reject,
           Rejectable, TypeOK, Steps
    <3> QED
        BY <3>1, <3>2 DEF RequestsLeft, Steps
  <2> QED
      BY <2>1, <2>2, <2>3 DEF Next, Encode, Evolve, Tick, vars, registrations
<1>3. \A s \in Sends : pc'[s] = pc[s] \/ AwaitsLeft(s)' < AwaitsLeft(s)
  <2> SUFFICES ASSUME NEW s \in Sends, pc'[s] # pc[s] PROVE AwaitsLeft(s)' < AwaitsLeft(s)
      OBVIOUS
  <2>1. ASSUME NEW r \in Sends, Serialize(r) \/ Update(r) \/ Encode(r) PROVE AwaitsLeft(s)' < AwaitsLeft(s)
    <3>1. r = s
        BY <2>1, <1>1 DEF Serialize, Update, Encode, TypeOK
    <3>2. \/ pc[s] = "idle" /\ pc'[s] = "initialization"
          \/ pc[s] = "initialization" /\ pc'[s] \in {"failed", "update", "encode"}
          \/ pc[s] = "encode" /\ pc'[s] \in {"sent", "failed"}
        BY <2>1, <3>1, <1>1 DEF Serialize, Update, Encode, TypeOK
    <3> QED
        BY <3>2 DEF AwaitsLeft
  <2>2. ASSUME NEW p \in Owners, Registration(p) PROVE AwaitsLeft(s)' < AwaitsLeft(s)
    <3>1. s = p /\ pc'[s] \in {"encode", "failed"} /\ at[s] \in Steps
        BY <2>2, <1>1 DEF Registration, RegisterKey, RegisterValue, Register, LatestKey, LatestValue, Reject,
           Rejectable, TypeOK, sends, Steps
    <3>2. pc[s] = "update"
        BY <3>1 DEF AvroInv, SendOK
    <3> QED
        BY <3>1, <3>2 DEF AwaitsLeft
  <2> QED
      BY <2>1, <2>2 DEF Next, Evolve, Tick, vars, sends
<1>4. InitializationSettled => InitializationSettled'
  <2> SUFFICES ASSUME InitializationSettled PROVE InitializationSettled'
      OBVIOUS
  <2>1. \A t \in Topics : t \in Owners /\ at[t] \in Steps \cup {"none", "done", "failed"}
      BY <1>1 DEF TypeOK, Owners
  <2>2. \A t \in Topics : at[t] \in {"done", "failed"} => at'[t] = at[t]
    <3> SUFFICES ASSUME NEW t \in Topics, at[t] \in {"done", "failed"}, at'[t] # at[t] PROVE FALSE
        OBVIOUS
    <3>1. t \in Owners
        BY DEF Owners
    <3>2. ASSUME NEW s \in Sends, Serialize(s) PROVE FALSE
        BY <3>1, <3>2 DEF Serialize, AvroInv, Unstarted
    <3>3. ASSUME NEW s \in Sends, Update(s) PROVE FALSE
      <4>1. at[s] = "none" /\ at' = [at EXCEPT ![s] = "registerKey"]
          BY <3>3, <3>1, <1>1 DEF Update, AvroInv, SendOK
      <4> QED
          BY <4>1, <3>1, <1>1 DEF TypeOK
    <3>4. ASSUME NEW p \in Owners, Registration(p) PROVE FALSE
        BY <3>1, <3>4, <1>1 DEF Registration, RegisterKey, RegisterValue, Register, LatestKey, LatestValue, Reject,
           Rejectable, TypeOK
    <3> QED
        BY <3>2, <3>3, <3>4 DEF Next, Encode, Evolve, Tick, vars, registrations
  <2> QED
      BY <2>1, <2>2 DEF InitializationSettled
<1> QED
    BY <1>2, <1>3, <1>4 DEF SendNearer

\* Every send has a bounded number of steps, however registrations interleave and
\* whatever is rejected, for any number of sends and topics.
THEOREM SendProgressSafe == Spec => SendProgress
<1>1. AvroInv /\ [Next]_vars => [SendNearer]_vars
    BY SendProgressStep
<1> QED
    BY <1>1, AvroSafe, PTL DEF Spec, SendProgress

================================================================================
