------------------------------ MODULE SqsListener ------------------------------
(***************************************************************************)
(* AwsSqsListener: one background loop per method decorated with           *)
(* @AwsSqsMessageHandler, which receives from its queue, runs the handler, *)
(* deletes what was handled and waits a second.  The loops of a queue may  *)
(* belong to several handlers and to several replicas of the application.  *)
(*                                                                         *)
(* SQS is external.  A message that was received is invisible until its    *)
(* visibility timeout, and is delivered again unless it was deleted; a     *)
(* FIFO queue delivers a message when all the earlier ones are deleted, or *)
(* together with them.  Every request to SQS may be rejected.              *)
(***************************************************************************)
EXTENDS Naturals, Sequences

CONSTANTS
    Limit,      \* a bound on the messages that are sent
    Orders,     \* what the queue may be: FIFO, with one message group, or not
    Apps,       \* the replicas of the application
    Loops,      \* the polling loops
    AppOf,      \* AppOf[l]: the replica loop l runs in
    Destroys,   \* whether a replica may be shut down
    Crashes     \* whether a replica may crash, and start again

ASSUME SqsAssumption ==
    /\ Limit \in Nat
    /\ Orders \subseteq BOOLEAN
    /\ AppOf \in [Loops -> Apps]
    /\ Destroys \in BOOLEAN /\ Crashes \in BOOLEAN

VARIABLES
    ordered,        \* whether the queue is FIFO
    sent,           \* the messages 1 .. sent are in the queue, unless deleted
    invisible,      \* the messages received and within their visibility timeout
    deleted,        \* the messages deleted from the queue
    isListening,    \* isListening[a]: the flag of the listener of a
    pc,             \* pc[l]: what loop l awaits
    batch,          \* batch[l]: the messages received and not processed yet
    handled,        \* history: the messages a handler succeeded on
    late            \* history: the handler calls of l since its listener stopped

queue == <<ordered, sent, invisible, deleted>>
loop == <<pc, batch>>
history == <<handled, late>>
vars == <<queue, isListening, loop, history>>

Message == 1 .. Limit

Init ==
    /\ ordered \in Orders
    /\ sent = 0
    /\ invisible = {}
    /\ deleted = {}
    /\ isListening = [a \in Apps |-> TRUE]
    /\ pc = [l \in Loops |-> "receive"]
    /\ batch = [l \in Loops |-> <<>>]
    /\ handled = {}
    /\ late = [l \in Loops |-> 0]

--------------------------------------------------------------------------------
(* SQS.                                                                        *)

SendMessage ==
    /\ sent < Limit
    /\ sent' = sent + 1
    /\ UNCHANGED <<ordered, invisible, deleted, isListening, loop, history>>

Available == (1 .. sent) \ (deleted \cup invisible)

\* What one ReceiveMessage of at most max messages may return.
Deliverable(max) ==
    {s \in UNION {[1 .. n -> Available] : n \in 1 .. max} :
        /\ \A i, j \in DOMAIN s : i < j => s[i] < s[j]
        /\ ordered => \A i \in DOMAIN s : \A m \in 1 .. s[i] - 1 :
            m \in deleted \/ \E j \in 1 .. i - 1 : s[j] = m}

VisibilityTimeout(m) ==
    /\ m \in invisible
    /\ invisible' = invisible \ {m}
    /\ UNCHANGED <<ordered, sent, deleted, isListening, loop, history>>

--------------------------------------------------------------------------------
(* The loop: pollQueue, processMessage, delay.                                 *)

\* Mutant: a batch of two.
TwoMessages == 2

\* The default of receiveMessage, which the listener uses.
MaxNumberOfMessages == 1

Goto(l, step) == pc' = [pc EXCEPT ![l] = step]

\* The handler is called, and the call counted if the listener has stopped.
CallHandler(l) ==
    /\ Goto(l, "handle")
    /\ late' = [late EXCEPT ![l] = IF isListening[AppOf[l]] THEN @ ELSE @ + 1]

ReceiveMessages(l, messages) ==
    /\ pc[l] = "receive"
    /\ invisible' = invisible \cup {messages[i] : i \in DOMAIN messages}
    /\ batch' = [batch EXCEPT ![l] = messages]
    /\ CallHandler(l)
    /\ UNCHANGED <<ordered, sent, deleted, isListening, handled>>

\* No message within the long poll, or an error, which is logged.
ReceiveNothing(l) ==
    /\ pc[l] = "receive"
    /\ Goto(l, "delay")
    /\ UNCHANGED <<queue, isListening, batch, history>>

\* The handler succeeds; the message has a ReceiptHandle, as all of SQS have.
HandlerSucceeds(l) ==
    /\ pc[l] = "handle"
    /\ handled' = handled \cup {Head(batch[l])}
    /\ Goto(l, "delete")
    /\ UNCHANGED <<queue, isListening, batch, late>>

\* processMessage ends, whatever its outcome: the next message of the batch.
NextMessage(l) ==
    /\ batch' = [batch EXCEPT ![l] = Tail(@)]
    /\ IF Len(batch[l]) > 1 THEN CallHandler(l) ELSE Goto(l, "delay") /\ UNCHANGED late

\* Mutant: the error of the handler is swallowed and the message deleted.
HandlerFailsSilently(l) ==
    /\ pc[l] = "handle"
    /\ Goto(l, "delete")
    /\ UNCHANGED <<queue, isListening, batch, history>>

\* Mutant: the error of the handler ends the loop.
HandlerFailsForGood(l) ==
    /\ pc[l] = "handle"
    /\ batch' = [batch EXCEPT ![l] = <<>>]
    /\ Goto(l, "stopped")
    /\ UNCHANGED <<queue, isListening, history>>

HandlerFails(l) ==
    /\ pc[l] = "handle"
    /\ NextMessage(l)
    /\ UNCHANGED <<queue, isListening, handled>>

DeleteMessage(l) ==
    /\ pc[l] = "delete"
    /\ deleted' = deleted \cup {Head(batch[l])}
    /\ invisible' = invisible \ {Head(batch[l])}
    /\ NextMessage(l)
    /\ UNCHANGED <<ordered, sent, isListening, handled>>

\* The request is rejected, or the receipt has expired with the visibility timeout.
DeleteFails(l) ==
    /\ pc[l] = "delete"
    /\ NextMessage(l)
    /\ UNCHANGED <<queue, isListening, handled>>

\* Mutant: while (true).
DelayForever(l) ==
    /\ pc[l] = "delay"
    /\ Goto(l, "receive")
    /\ UNCHANGED <<queue, isListening, batch, history>>

Delay(l) ==
    /\ pc[l] = "delay"
    /\ Goto(l, IF isListening[AppOf[l]] THEN "receive" ELSE "stopped")
    /\ UNCHANGED <<queue, isListening, batch, history>>

--------------------------------------------------------------------------------
(* The application.                                                            *)

\* onModuleDestroy of the listener and of the service: the loops are not awaited,
\* and destroying the client at most makes their requests fail.
OnModuleDestroy(a) ==
    /\ Destroys
    /\ isListening[a]
    /\ isListening' = [isListening EXCEPT ![a] = FALSE]
    /\ UNCHANGED <<queue, loop, history>>

\* The process dies, and a new one starts its loops in onModuleInit.
Restart(a) ==
    /\ Crashes
    /\ isListening' = [isListening EXCEPT ![a] = TRUE]
    /\ pc' = [l \in Loops |-> IF AppOf[l] = a THEN "receive" ELSE pc[l]]
    /\ batch' = [l \in Loops |-> IF AppOf[l] = a THEN <<>> ELSE batch[l]]
    /\ late' = [l \in Loops |-> IF AppOf[l] = a THEN 0 ELSE late[l]]
    /\ UNCHANGED <<queue, handled>>

--------------------------------------------------------------------------------
Next ==
    \/ SendMessage
    \/ \E m \in Message : VisibilityTimeout(m)
    \/ \E l \in Loops :
        \/ \E s \in Deliverable(MaxNumberOfMessages) : ReceiveMessages(l, s)
        \/ ReceiveNothing(l)
        \/ HandlerSucceeds(l)
        \/ HandlerFails(l)
        \/ DeleteMessage(l)
        \/ DeleteFails(l)
        \/ Delay(l)
    \/ \E a \in Apps : OnModuleDestroy(a) \/ Restart(a)

Spec == Init /\ [][Next]_vars

\* A request to SQS is answered and a handler returns, so every loop goes on; an
\* invisible message becomes visible again.
Progress ==
    /\ \A l \in Loops :
        /\ WF_vars(ReceiveNothing(l)
                    \/ \E s \in Deliverable(MaxNumberOfMessages) : ReceiveMessages(l, s))
        /\ WF_vars(HandlerSucceeds(l) \/ HandlerFails(l))
        /\ WF_vars(DeleteMessage(l) \/ DeleteFails(l))
        /\ WF_vars(Delay(l))
    /\ \A m \in Message : WF_vars(VisibilityTimeout(m))

\* What works infinitely often if it is tried infinitely often, for each message:
\* SQS delivers it, some handler succeeds on it, and SQS deletes it.
Success ==
    \A m \in Message :
        /\ SF_vars(\E l \in Loops, s \in Deliverable(MaxNumberOfMessages) :
                    s[1] = m /\ ReceiveMessages(l, s))
        /\ SF_vars(\E l \in Loops : batch[l] # <<>> /\ Head(batch[l]) = m /\ HandlerSucceeds(l))
        /\ SF_vars(\E l \in Loops : batch[l] # <<>> /\ Head(batch[l]) = m /\ DeleteMessage(l))

FairSpec == Spec /\ Progress

--------------------------------------------------------------------------------
\* Types, and the fact that a loop holds messages just while it processes them.
TypeOK ==
    /\ ordered \in BOOLEAN
    /\ sent \in 0 .. Limit
    /\ invisible \subseteq 1 .. sent
    /\ deleted \subseteq 1 .. sent
    /\ isListening \in [Apps -> BOOLEAN]
    /\ pc \in [Loops -> {"receive", "handle", "delete", "delay", "stopped"}]
    /\ batch \in [Loops -> Seq(1 .. sent)]
    /\ handled \subseteq 1 .. sent
    /\ late \in [Loops -> Nat]
    /\ \A l \in Loops : pc[l] \in {"handle", "delete"} <=> batch[l] # <<>>

\* Inductive: a loop at work has received one message, and in a FIFO queue some
\* handler has succeeded on all the earlier ones.
HandlingOK ==
    /\ deleted \subseteq handled
    /\ \A l \in Loops : pc[l] \in {"handle", "delete"} =>
        \E m \in 1 .. sent :
            /\ batch[l] = <<m>>
            /\ ordered => 1 .. m - 1 \subseteq handled
            /\ pc[l] = "delete" => m \in handled

LateOK ==
    \A l \in Loops : late[l] > 0 =>
        late[l] = 1 /\ pc[l] # "receive" /\ ~isListening[AppOf[l]]

\* A message is deleted only after a handler succeeded on it, whatever crashes,
\* times out or is delivered twice; and the handlers of a FIFO queue succeed in the
\* order the messages were sent.
Channel == INSTANCE AtLeastOnce WITH removed <- deleted

ImplementsAtLeastOnce == Channel!Spec

\* A loop starts at most one handler call once its listener has stopped: the one
\* for the poll that was in flight.
LateAtMostOne == \A l \in Loops : late[l] <= 1

\* A replica that is shut down ends its loops, unless it is started again.
Drains ==
    \A l \in Loops : ~isListening[AppOf[l]] ~> (pc[l] = "stopped" \/ isListening[AppOf[l]])

\* Every message is handled and deleted in the end, if what is tried again and again
\* succeeds at last, unless every replica is shut down.
Delivered ==
    Success => \A m \in Message :
        m <= sent ~> m \in deleted \/ \A a \in Apps : ~isListening[a]

================================================================================
