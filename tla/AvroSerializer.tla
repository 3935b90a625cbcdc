---------------------------- MODULE AvroSerializer ----------------------------
(***************************************************************************)
(* KafkaAvroRequestSerializer and KafkaAvroResponseDeserializer: the ids   *)
(* of the schemas of each topic, registered by the first serialize for all *)
(* topics at once and again by any serialize that finds them old, and what *)
(* a consumer gets of a message encoded with them.  Calls of serialize are *)
(* asynchronous and interleave at every request to the schema registry.    *)
(*                                                                         *)
(* The registry is external: a subject (a topic and a field) has a latest  *)
(* id, which registering the first schema or another application's newer   *)
(* one raises; any request can be rejected.                                *)
(***************************************************************************)
EXTENDS Naturals

CONSTANTS
    Sends,          \* the calls of serialize
    Topics,         \* the topics of config.schemas
    Others,         \* topics that are sent to but not configured
    Schema,         \* Schema[t]: the fields of topic t with a schema, "key" or "value"
    Interval,       \* schemaFetchIntervalSeconds, in ticks
    MaxClock,       \* bound on the clock
    MaxId,          \* bound on the ids of a subject
    None

Fields == {"key", "value"}

\* What a field of a message holds: nothing, a value that counts as false, any other.
\* No step but the coding of a message reads it, so the properties range over messages.
Messages == [Fields -> {"null", "falsy", "truthy"}]

ASSUME AvroAssumption ==
    /\ Schema \in [Topics -> SUBSET Fields]
    /\ Sends \cap Topics = {} /\ Topics \cap Others = {}
    /\ Interval \in Nat /\ MaxClock \in Nat /\ MaxId \in Nat \ {0}
    /\ None \notin [Fields -> 0 .. MaxId] \cup Nat \cup Topics \cup Others

VARIABLES
    latest,         \* latest[t][f]: the latest id of a subject in the registry, 0 if unknown
    clock,          \* Date.now()
    initialization, \* this.initialization: whether initializeSchemas has begun
    at,             \* at[o]: the request that a registration awaits, or how it ended
    keyId,          \* keyId[o]: what a registration looked up first, 0 for null
    schemas,        \* schemas[t]: this.schemas
    fetched,        \* fetched[t]: this.lastSchemaFetchInterval
    pc,             \* pc[s]: what send s awaits, or how it ended
    topic,          \* topic[s]: data.topic
    ids,            \* ids[s]: the ids that the message is encoded with
    rejected,       \* history: registrations and sends with a rejected request
    overlapped      \* history: topics that two registrations were busy with at once

registry == <<latest, clock>>
registrations == <<at, keyId, schemas, fetched, overlapped>>
sends == <<pc, topic, ids>>
vars == <<registry, initialization, registrations, sends, rejected>>

\* initializeSchemas makes one registration per topic, updateSchemas one of the send.
Owners == Topics \cup Sends
TopicOf(o) == IF o \in Topics THEN o ELSE topic[o]

Steps == {"registerKey", "registerValue", "latestKey", "latestValue"}
Busy(t) == {o \in Owners : at[o] \in Steps /\ TopicOf(o) = t}

Init ==
    /\ latest = [t \in Topics |-> [f \in Fields |-> 0]]
    /\ clock = 0
    /\ initialization = FALSE
    /\ at = [o \in Owners |-> "none"]
    /\ keyId = [o \in Owners |-> 0]
    /\ schemas = [t \in Topics |-> None]
    /\ fetched = [t \in Topics |-> None]
    /\ pc = [s \in Sends |-> "idle"]
    /\ topic = [s \in Sends |-> None]
    /\ ids = [s \in Sends |-> None]
    /\ rejected = {}
    /\ overlapped = {}

--------------------------------------------------------------------------------
(* serialize, to the first request of its own.                                 *)

Serialize(s) ==
    /\ pc[s] = "idle"
    /\ \E t \in Topics \cup Others : topic' = [topic EXCEPT ![s] = t]
    /\ pc' = [pc EXCEPT ![s] = "initialization"]
    /\ initialization' = TRUE
    /\ at' = IF initialization
             THEN at
             ELSE [o \in Owners |-> IF o \in Topics THEN "registerKey" ELSE at[o]]
    /\ UNCHANGED <<registry, keyId, schemas, fetched, overlapped, ids, rejected>>

\* Mutant: a topic that cannot be registered keeps every send waiting.
AllRegistered == \A t \in Topics : at[t] = "done"

\* Promise.all settles when all are registered, or at the first that is rejected:
\* then other registrations go on behind its back.
InitializationSettled ==
    (\A t \in Topics : at[t] = "done") \/ (\E t \in Topics : at[t] = "failed")

Expired(t) == fetched[t] # None => fetched[t] + Interval <= clock

\* Mutant: initializeSchemas without the catch.
RefusedUncaught(t) == t \notin Topics \/ \E u \in Topics : at[u] = "failed"

\* No schema is configured for the topic.
Refused(t) == t \notin Topics

\* updateSchemas: throws for a topic without configuration, registers a topic whose
\* ids are unknown or old, and otherwise leaves the ids to be used at once.
Update(s) ==
    /\ pc[s] = "initialization"
    /\ InitializationSettled
    /\ IF Refused(topic[s])
       THEN pc' = [pc EXCEPT ![s] = "failed"] /\ UNCHANGED <<at, ids, overlapped>>
       ELSE IF Expired(topic[s])
       THEN /\ pc' = [pc EXCEPT ![s] = "update"]
            /\ at' = [at EXCEPT ![s] = "registerKey"]
            /\ overlapped' = overlapped \cup {t \in {topic[s]} : Busy(t) # {}}
            /\ UNCHANGED ids
       ELSE /\ pc' = [pc EXCEPT ![s] = "encode"]
            /\ ids' = [ids EXCEPT ![s] = schemas[topic[s]]]
            /\ UNCHANGED <<at, overlapped>>
    /\ UNCHANGED <<registry, initialization, keyId, schemas, fetched, topic, rejected>>

--------------------------------------------------------------------------------
(* registerSchema.  A field without a schema makes no request: its step only   *)
(* goes on.                                                                     *)

Register(o, field, step, next) ==
    /\ at[o] = step
    /\ at' = [at EXCEPT ![o] = next]
    /\ latest' = IF field \in Schema[TopicOf(o)] /\ latest[TopicOf(o)][field] = 0
                 THEN [latest EXCEPT ![TopicOf(o)][field] = 1]
                 ELSE latest
    /\ UNCHANGED <<clock, initialization, keyId, schemas, fetched, overlapped, sends, rejected>>

RegisterKey(o) == Register(o, "key", "registerKey", "registerValue")
RegisterValue(o) == Register(o, "value", "registerValue", "latestKey")

\* getLatestSchemaId, for a subject that is configured.
LatestId(t, field) == IF field \in Schema[t] THEN latest[t][field] ELSE 0

LatestKey(o) ==
    /\ at[o] = "latestKey"
    /\ at' = [at EXCEPT ![o] = "latestValue"]
    /\ keyId' = [keyId EXCEPT ![o] = LatestId(TopicOf(o), "key")]
    /\ UNCHANGED <<registry, initialization, schemas, fetched, overlapped, sends, rejected>>

Found(o) == [f \in Fields |-> IF f = "key" THEN keyId[o] ELSE LatestId(TopicOf(o), f)]

\* The ids are stored, with the time; a send goes on with what is stored.
LatestValue(o) ==
    /\ at[o] = "latestValue"
    /\ at' = [at EXCEPT ![o] = "done"]
    /\ keyId' = [keyId EXCEPT ![o] = 0]
    /\ schemas' = [schemas EXCEPT ![TopicOf(o)] = Found(o)]
    /\ fetched' = [fetched EXCEPT ![TopicOf(o)] = clock]
    /\ pc' = [s \in Sends |-> IF s = o THEN "encode" ELSE pc[s]]
    /\ ids' = [s \in Sends |-> IF s = o THEN Found(o) ELSE ids[s]]
    /\ UNCHANGED <<registry, initialization, overlapped, topic, rejected>>

Rejectable(o) ==
    \/ at[o] \in {"registerKey", "latestKey"} /\ "key" \in Schema[TopicOf(o)]
    \/ at[o] \in {"registerValue", "latestValue"} /\ "value" \in Schema[TopicOf(o)]

\* Mutant: a topic that could not be refreshed is forgotten.
RejectForgetting(o) ==
    /\ Rejectable(o)
    /\ at' = [at EXCEPT ![o] = "failed"]
    /\ keyId' = [keyId EXCEPT ![o] = 0]
    /\ schemas' = [schemas EXCEPT ![TopicOf(o)] = None]
    /\ fetched' = [fetched EXCEPT ![TopicOf(o)] = None]
    /\ pc' = [s \in Sends |-> IF s = o THEN "failed" ELSE pc[s]]
    /\ rejected' = rejected \cup {o}
    /\ UNCHANGED <<registry, initialization, overlapped, topic, ids>>

\* A request is rejected: a send fails; in the initialization, only this topic does.
Reject(o) ==
    /\ Rejectable(o)
    /\ at' = [at EXCEPT ![o] = "failed"]
    /\ keyId' = [keyId EXCEPT ![o] = 0]
    /\ pc' = [s \in Sends |-> IF s = o THEN "failed" ELSE pc[s]]
    /\ rejected' = rejected \cup {o}
    /\ UNCHANGED <<registry, initialization, schemas, fetched, overlapped, topic, ids>>

Registration(o) ==
    \/ RegisterKey(o)
    \/ RegisterValue(o)
    \/ LatestKey(o)
    \/ LatestValue(o)
    \/ Reject(o)

--------------------------------------------------------------------------------
(* encodeField, and deserialize at the consumer.                               *)

\* On the wire a field is nothing, encoded with its id, or as it was given.
Wire(id, m) ==
    [f \in Fields |->
        IF id[f] = 0 THEN IF m[f] = "null" THEN "null" ELSE "plain"
        ELSE IF m[f] = "truthy" THEN "avro" ELSE "null"]

\* The registry can reject the request for a schema, and the schema the message.
Encode(s) ==
    /\ pc[s] = "encode"
    /\ \/ pc' = [pc EXCEPT ![s] = "sent"] /\ UNCHANGED rejected
       \/ /\ \E m \in Messages, f \in Fields : Wire(ids[s], m)[f] = "avro"
          /\ pc' = [pc EXCEPT ![s] = "failed"]
          /\ rejected' = rejected \cup {s}
    /\ UNCHANGED <<registry, initialization, registrations, topic, ids>>

\* Decoding throws for what does not start like an encoded field; a key of no length
\* is not decoded.
Undecodable(wire, m) ==
    \/ wire["key"] = "plain" /\ m["key"] # "falsy"
    \/ wire["value"] = "plain"

Decoded(wire, m) == [f \in Fields |-> IF wire[f] = "avro" THEN m[f] ELSE "null"]

\* KafkaResponseDeserializer, for the whole message: bytes become text.
Fallback(wire, m) ==
    [f \in Fields |-> CASE wire[f] = "avro" -> "garbled"
                        [] wire[f] = "null" -> "null"
                        [] wire[f] = "plain" -> m[f]]

\* Mutant: a message without a key is decoded as one with a key.
DeserializeKeyless(wire, m) ==
    IF Undecodable(wire, m) \/ wire["key"] = "null" THEN Fallback(wire, m) ELSE Decoded(wire, m)

\* Both fields are decoded or, if one of them cannot be, neither.
Deserialize(wire, m) == IF Undecodable(wire, m) THEN Fallback(wire, m) ELSE Decoded(wire, m)

--------------------------------------------------------------------------------
(* The environment: another application registers a newer schema; time.        *)

Evolve(t, f) ==
    /\ f \in Schema[t]
    /\ latest[t][f] < MaxId
    /\ latest' = [latest EXCEPT ![t][f] = @ + 1]
    /\ UNCHANGED <<clock, initialization, registrations, sends, rejected>>

Tick ==
    /\ clock < MaxClock
    /\ clock' = clock + 1
    /\ UNCHANGED <<latest, initialization, registrations, sends, rejected>>

--------------------------------------------------------------------------------
Next ==
    \/ \E s \in Sends : Serialize(s) \/ Update(s) \/ Encode(s)
    \/ \E o \in Owners : Registration(o)
    \/ \E t \in Topics, f \in Fields : Evolve(t, f)
    \/ Tick

Spec == Init /\ [][Next]_vars

\* Requests are answered, with success or not, and continuations run.
Fairness ==
    /\ \A t \in Topics : WF_vars(Registration(t))
    /\ \A s \in Sends : WF_vars(Update(s) \/ Registration(s) \/ Encode(s))

FairSpec == Spec /\ Fairness

--------------------------------------------------------------------------------
\* Types; the ids of a topic are stored together with their time, and a send that
\* encodes has taken some.
TypeOK ==
    /\ latest \in [Topics -> [Fields -> 0 .. MaxId]]
    /\ clock \in 0 .. MaxClock
    /\ initialization \in BOOLEAN
    /\ at \in [Owners -> Steps \cup {"none", "done", "failed"}]
    /\ keyId \in [Owners -> 0 .. MaxId]
    /\ schemas \in [Topics -> [Fields -> 0 .. MaxId] \cup {None}]
    /\ fetched \in [Topics -> 0 .. MaxClock \cup {None}]
    /\ pc \in [Sends -> {"idle", "initialization", "update", "encode", "sent", "failed"}]
    /\ topic \in [Sends -> Topics \cup Others \cup {None}]
    /\ ids \in [Sends -> [Fields -> 0 .. MaxId] \cup {None}]
    /\ rejected \subseteq Owners
    /\ overlapped \subseteq Topics
    /\ \A t \in Topics : schemas[t] = None <=> fetched[t] = None
    /\ \A s \in Sends : pc[s] \in {"encode", "sent"} => ids[s] # None

\* A send fails for a cause of its own: its topic is not configured, or one of its
\* requests was rejected.  A topic that failed to register in the initialization, and
\* a registration of another send, do it no harm.
FailsForCause == \A s \in Sends : pc[s] = "failed" => topic[s] \in Others \/ s \in rejected

\* The ids in use are never lost, and never replaced by older ones, unless two
\* registrations of the topic overlapped: then the later to end may know less.
NeverOlder ==
    [][\A t \in Topics :
        schemas[t] # None =>
            /\ schemas'[t] # None
            /\ t \notin overlapped => \A f \in Fields : schemas'[t][f] >= schemas[t][f]]_vars

\* What is sent is encoded where the topic has a schema, with an id the registry
\* knows, and only there; and a consumer whose registry answers gets what was sent,
\* but for values that count as false, which may come as null, and for an encoded
\* field beside one that is not, whose bytes come as text.
RoundTrip ==
    \A s \in Sends : pc[s] = "sent" =>
        /\ topic[s] \in Topics
        /\ \A f \in Schema[topic[s]] : ids[s][f] \in 1 .. latest[topic[s]][f]
        /\ \A f \in Fields \ Schema[topic[s]] : ids[s][f] = 0
        /\ \A m \in Messages, f \in Fields :
            LET wire == Wire(ids[s], m)
                got == Deserialize(wire, m)
            IN  \/ got[f] = m[f]
                \/ got[f] = "null" /\ m[f] = "falsy"
                \/ got[f] = "garbled" /\ wire[f] = "avro" /\ \E g \in Fields : wire[g] = "plain"

\* Every send ends, whatever fails.
Ends == \A s \in Sends : pc[s] = "initialization" ~> pc[s] \in {"sent", "failed"}

--------------------------------------------------------------------------------
(* The inductive invariant.                                                    *)

\* Ids of topic t that the registry knows, for the fields with a schema.
Known(t, id) == \A f \in Fields : IF f \in Schema[t] THEN id[f] \in 1 .. latest[t][f] ELSE id[f] = 0

\* A registration looks up what it, or another one, has registered.
OwnerOK(o) ==
    /\ at[o] \in {"registerValue", "latestKey", "latestValue"} /\ "key" \in Schema[TopicOf(o)]
        => latest[TopicOf(o)]["key"] >= 1
    /\ at[o] \in {"latestKey", "latestValue"} /\ "value" \in Schema[TopicOf(o)]
        => latest[TopicOf(o)]["value"] >= 1
    /\ at[o] = "latestValue" =>
        IF "key" \in Schema[TopicOf(o)]
        THEN keyId[o] \in 1 .. latest[TopicOf(o)]["key"]
        ELSE keyId[o] = 0

\* A send has a topic, a registration only where it awaits one, and known ids where it
\* encodes.
SendOK(s) ==
    /\ pc[s] # "idle" => topic[s] \in Topics \cup Others
    /\ pc[s] \in {"idle", "initialization"} => at[s] = "none"
    /\ pc[s] = "update" <=> at[s] \in Steps
    /\ at[s] # "none" => topic[s] \in Topics
    /\ pc[s] \in {"encode", "sent"} => topic[s] \in Topics /\ Known(topic[s], ids[s])

\* The stored ids are known; without an overlap, the one registration at work has not
\* looked up an older key than the one stored.
TopicOK(t) ==
    /\ schemas[t] # None => Known(t, schemas[t])
    /\ t \notin overlapped => \A o, p \in Busy(t) : o = p
    /\ t \notin overlapped /\ schemas[t] # None =>
        \A o \in Busy(t) : at[o] = "latestValue" => keyId[o] >= schemas[t]["key"]

Unstarted == (\A s \in Sends : pc[s] = "idle") /\ (\A o \in Owners : at[o] = "none")

AvroInv ==
    /\ TypeOK
    /\ FailsForCause
    /\ initialization \/ Unstarted
    /\ \A o \in Owners : OwnerOK(o)
    /\ \A s \in Sends : SendOK(s)
    /\ \A t \in Topics : TopicOK(t)

================================================================================
