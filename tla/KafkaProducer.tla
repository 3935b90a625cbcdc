----------------------------- MODULE KafkaProducer -----------------------------
(***************************************************************************)
(* ProducerService: the connection of a kafkajs producer, opened by the    *)
(* first send, shared by the sends that follow or run meanwhile, and       *)
(* closed by disconnect, which onModuleDestroy calls.  The sends and the   *)
(* disconnects are asynchronous and interleave at every await.             *)
(*                                                                         *)
(* kafkajs is external: connect makes the producer "connected" when it     *)
(* ends, disconnect makes it "disconnecting" at once and "disconnected" at *)
(* its end, and send throws unless the producer is connected.              *)
(***************************************************************************)
EXTENDS FiniteSets, Naturals

CONSTANTS
    Sends,          \* the calls of sendMessages and sendBatchMessages
    Disconnects,    \* the calls of disconnect
    Faults,         \* whether a connect or a disconnect can be rejected
    None

ASSUME ProducerAssumption ==
    /\ None \notin Sends
    /\ Faults \in BOOLEAN

VARIABLES
    status,         \* the connection status of the kafkajs producer
    promise,        \* promise[s]: the promise of the connect that s called, if it did
    connection,     \* this.connection: None or the send whose promise it holds
    pc,             \* pc[s]: what send s awaits, or how it ended
    awaited,        \* awaited[s]: the send whose promise s awaits
    closing,        \* closing[d]: what disconnect d awaits, or that it ended
    overlapped      \* history: a connect and a disconnect have overlapped

vars == <<status, promise, connection, pc, awaited, closing, overlapped>>

Pending == {s \in Sends : promise[s] = "pending"}
Closing == {d \in Disconnects : closing[d] = "awaiting"}

Init ==
    /\ status = "disconnected"
    /\ promise = [s \in Sends |-> "none"]
    /\ connection = None
    /\ pc = [s \in Sends |-> "idle"]
    /\ awaited = [s \in Sends |-> None]
    /\ closing = [d \in Disconnects |-> "idle"]
    /\ overlapped = FALSE

--------------------------------------------------------------------------------
(* kafkajs answers a connect, and the catch of connect() runs.                 *)

ConnectSucceeds(s) ==
    /\ promise[s] = "pending"
    /\ promise' = [promise EXCEPT ![s] = "resolved"]
    /\ status' = "connected"
    /\ UNCHANGED <<connection, pc, awaited, closing, overlapped>>

\* The catch clears the connection, whichever promise that holds by then.
ConnectFails(s) ==
    /\ Faults
    /\ promise[s] = "pending"
    /\ promise' = [promise EXCEPT ![s] = "rejected"]
    /\ connection' = None
    /\ UNCHANGED <<status, pc, awaited, closing, overlapped>>

--------------------------------------------------------------------------------
(* sendMessages, sendBatchMessages: connect, serialize, send.                  *)

\* Mutant: the connection is stored when it is established, not when it is begun.
ConnectUnshared(s) ==
    /\ pc[s] = "idle"
    /\ pc' = [pc EXCEPT ![s] = "connect"]
    /\ awaited' = [awaited EXCEPT ![s] = s]
    /\ promise' = [promise EXCEPT ![s] = "pending"]
    /\ overlapped' = (overlapped \/ Closing # {})
    /\ UNCHANGED <<status, connection, closing>>

\* connection ??= producer.connect().
Connect(s) ==
    /\ pc[s] = "idle"
    /\ pc' = [pc EXCEPT ![s] = "connect"]
    /\ IF connection = None
       THEN /\ promise' = [promise EXCEPT ![s] = "pending"]
            /\ connection' = s
            /\ awaited' = [awaited EXCEPT ![s] = s]
            /\ overlapped' = (overlapped \/ Closing # {})
       ELSE /\ awaited' = [awaited EXCEPT ![s] = connection]
            /\ UNCHANGED <<promise, connection, overlapped>>
    /\ UNCHANGED <<status, closing>>

Serialize(s) ==
    /\ pc[s] = "connect"
    /\ promise[awaited[s]] \in {"resolved", "rejected"}
    /\ pc' = [pc EXCEPT ![s] = IF promise[awaited[s]] = "resolved" THEN "serialize" ELSE "failed"]
    /\ UNCHANGED <<status, promise, connection, awaited, closing, overlapped>>

\* The messages are serialized, asynchronously; producer.send throws unless the
\* producer is still connected.
Send(s) ==
    /\ pc[s] = "serialize"
    /\ pc' = [pc EXCEPT ![s] = IF status = "connected" THEN "send" ELSE "failed"]
    /\ UNCHANGED <<status, promise, connection, awaited, closing, overlapped>>

\* The serializer fails, or the brokers answer.
Settle(s) ==
    /\ \/ pc[s] = "serialize" /\ pc' = [pc EXCEPT ![s] = "failed"]
       \/ pc[s] = "send" /\ \E outcome \in {"sent", "failed"} : pc' = [pc EXCEPT ![s] = outcome]
    /\ UNCHANGED <<status, promise, connection, awaited, closing, overlapped>>

--------------------------------------------------------------------------------
(* disconnect, onModuleDestroy.                                                *)

\* Mutant: the connection is only forgotten.
DisconnectForgetting(d) ==
    /\ closing[d] = "idle"
    /\ connection' = None
    /\ closing' = [closing EXCEPT ![d] = "done"]
    /\ overlapped' = (overlapped \/ (connection # None /\ Pending # {}))
    /\ UNCHANGED <<status, promise, pc, awaited>>

Disconnect(d) ==
    /\ closing[d] = "idle"
    /\ IF connection = None
       THEN /\ closing' = [closing EXCEPT ![d] = "done"]
            /\ UNCHANGED <<status, connection>>
       ELSE /\ closing' = [closing EXCEPT ![d] = "awaiting"]
            /\ connection' = None
            /\ status' = "disconnecting"
    /\ overlapped' = (overlapped \/ (connection # None /\ Pending # {}))
    /\ UNCHANGED <<promise, pc, awaited>>

\* Mutant: no listener of the DISCONNECT event.
DisconnectedUnheard(d) ==
    /\ closing[d] = "awaiting"
    /\ closing' = [closing EXCEPT ![d] = "done"]
    /\ status' = "disconnected"
    /\ UNCHANGED <<promise, connection, pc, awaited, overlapped>>

\* The producer is disconnected and emits DISCONNECT, which clears the connection.
Disconnected(d) ==
    /\ closing[d] = "awaiting"
    /\ closing' = [closing EXCEPT ![d] = "done"]
    /\ status' = "disconnected"
    /\ connection' = None
    /\ UNCHANGED <<promise, pc, awaited, overlapped>>

DisconnectFails(d) ==
    /\ Faults
    /\ closing[d] = "awaiting"
    /\ closing' = [closing EXCEPT ![d] = "done"]
    /\ UNCHANGED <<status, promise, connection, pc, awaited, overlapped>>

--------------------------------------------------------------------------------
Next ==
    \/ \E s \in Sends :
        \/ Connect(s)
        \/ ConnectSucceeds(s)
        \/ ConnectFails(s)
        \/ Serialize(s)
        \/ Send(s)
        \/ Settle(s)
    \/ \E d \in Disconnects : Disconnect(d) \/ Disconnected(d) \/ DisconnectFails(d)

Spec == Init /\ [][Next]_vars

--------------------------------------------------------------------------------
\* Types, and the fact that a send awaits a promise that some connect has made.
TypeOK ==
    /\ status \in {"disconnected", "connected", "disconnecting"}
    /\ promise \in [Sends -> {"none", "pending", "resolved", "rejected"}]
    /\ connection \in Sends \cup {None}
    /\ pc \in [Sends -> {"idle", "connect", "serialize", "send", "sent", "failed"}]
    /\ awaited \in [Sends -> Sends \cup {None}]
    /\ closing \in [Disconnects -> {"idle", "awaiting", "done"}]
    /\ overlapped \in BOOLEAN
    /\ \A s \in Sends : pc[s] # "idle" => awaited[s] \in Sends /\ promise[awaited[s]] # "none"

\* The connection that a send reuses is up or on its way: it is neither one that
\* failed nor one that a disconnect, even one still in flight, has taken down.
ReusedIsUp ==
    connection # None =>
        \/ promise[connection] = "pending"
        \/ promise[connection] = "resolved" /\ status = "connected"

\* Concurrent sends share one connect, until somebody disconnects.
ConnectShared == (\A d \in Disconnects : closing[d] = "idle") => Cardinality(Pending) <= 1

\* A producer that is connected is known to be, so that the next disconnect closes
\* it, as long as no connect and disconnect have overlapped.
KnownUnlessOverlapped == ~overlapped /\ status = "connected" => connection # None

\* Inductive: without an overlap the one connect that is pending is the connection
\* the service holds, and only a disconnect makes an overlap.
PendingOK ==
    /\ ~overlapped => \A s \in Pending : connection = s /\ status # "connected"
    /\ ~overlapped => Pending = {} \/ Closing = {}
    /\ (\A d \in Disconnects : closing[d] = "idle") => ~overlapped

\* What the documentation of the class says: the connection is closed when the
\* module is destroyed.  When all is settled and the service holds no connection,
\* the producer is not connected, as no later disconnect would close it.
ClosedByDestroy ==
    /\ connection = None
    /\ \A d \in Disconnects : closing[d] = "done"
    /\ \A s \in Sends : pc[s] \in {"sent", "failed"}
    => status # "connected"

================================================================================
