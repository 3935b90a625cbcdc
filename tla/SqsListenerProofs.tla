--------------------------- MODULE SqsListenerProofs ---------------------------
(* The listener consumes its queue at least once and, if it is FIFO, in order, *)
(* for any number of messages, loops and replicas.                             *)
EXTENDS SqsListener, TLAPS

ListenerInv == TypeOK /\ HandlingOK /\ LateOK

\* What one poll returns: a message that is in the queue, and in a FIFO queue the
\* first one.
LEMMA OneDelivered ==
  ASSUME NEW s \in Deliverable(MaxNumberOfMessages)
  PROVE  /\ s \in [1 .. 1 -> Available]
         /\ s = <<s[1]>> /\ s[1] \in Available
         /\ ordered => 1 .. s[1] - 1 \subseteq deleted
<1>1. PICK n \in 1 .. 1 : s \in [1 .. n -> Available]
  BY DEF Deliverable, MaxNumberOfMessages
<1>2. s \in [1 .. 1 -> Available] /\ n = 1
  BY <1>1
<1>3. s = <<s[1]>> /\ s[1] \in Available
  BY <1>2
<1>4. ordered => \A m \in 1 .. s[1] - 1 : m \in deleted
  BY <1>2 DEF Deliverable
<1>5. QED
  BY <1>2, <1>3, <1>4

LEMMA EmptySeqTyped == \A S : <<>> \in Seq(S)
  OBVIOUS

LEMMA ListenerInit == Init => ListenerInv
  BY SqsAssumption DEF Init, ListenerInv, TypeOK, HandlingOK, LateOK

\* The end of processMessage: with batches of one message the loop goes on to wait.
LEMMA OneProcessed ==
  ASSUME ListenerInv, NEW l \in Loops, pc[l] \in {"handle", "delete"}, NextMessage(l)
  PROVE  /\ batch' = [batch EXCEPT ![l] = <<>>]
         /\ pc' = [pc EXCEPT ![l] = "delay"]
         /\ late' = late
<1>1. PICK m \in 1 .. sent : batch[l] = <<m>>
  BY DEF ListenerInv, HandlingOK
<1>2. ~(Len(batch[l]) > 1) /\ Tail(batch[l]) = <<>>
  BY <1>1
<1>3. batch' = [batch EXCEPT ![l] = Tail(batch[l])]
  BY DEF NextMessage
<1>4. Goto(l, "delay") /\ UNCHANGED late
  BY <1>2 DEF NextMessage
<1>5. QED
  BY <1>2, <1>3, <1>4 DEF Goto

LEMMA ListenerStep == ListenerInv /\ [Next]_vars => ListenerInv'
<1> SUFFICES ASSUME ListenerInv, [Next]_vars PROVE ListenerInv'
  OBVIOUS
<1> USE SqsAssumption DEF ListenerInv
<1>1. CASE SendMessage
  <2>1. TypeOK'
    BY <1>1 DEF SendMessage, loop, history, TypeOK
  <2>2. HandlingOK' /\ LateOK'
    BY <1>1 DEF SendMessage, loop, history, TypeOK, HandlingOK, LateOK
  <2>3. QED
    BY <2>1, <2>2
<1>2. ASSUME NEW m \in Message, VisibilityTimeout(m) PROVE ListenerInv'
  BY <1>2 DEF VisibilityTimeout, loop, history, TypeOK, HandlingOK, LateOK
<1>3. ASSUME NEW l \in Loops, NEW s \in Deliverable(MaxNumberOfMessages), ReceiveMessages(l, s)
      PROVE ListenerInv'
  <2> DEFINE m == s[1]
  <2>1. /\ s = <<m>> /\ m \in 1 .. sent
        /\ ordered => 1 .. m - 1 \subseteq deleted
        /\ {s[i] : i \in DOMAIN s} \subseteq 1 .. sent
    <3>1. Available \subseteq 1 .. sent /\ sent \in Nat
      BY DEF Available, TypeOK
    <3>2. s \in [1 .. 1 -> Available] /\ s = <<m>> /\ m \in Available
      BY OneDelivered
    <3>3. ordered => 1 .. m - 1 \subseteq deleted
      BY <3>1, OneDelivered
    <3>4. QED
      BY <3>1, <3>2, <3>3
  <2>2. /\ pc[l] = "receive" /\ pc' = [pc EXCEPT ![l] = "handle"]
        /\ batch' = [batch EXCEPT ![l] = s]
        /\ invisible' = invisible \cup {s[i] : i \in DOMAIN s}
        /\ late' = [late EXCEPT ![l] = IF isListening[AppOf[l]] THEN @ ELSE @ + 1]
        /\ UNCHANGED <<ordered, sent, deleted, isListening, handled>>
    BY <1>3 DEF ReceiveMessages, CallHandler, Goto
  <2> HIDE DEF m
  <2>3. late[l] = 0
    BY <2>2 DEF LateOK, TypeOK
  <2>4. TypeOK'
    <3>1. s \in Seq(1 .. sent) /\ s # <<>>
      BY <2>1
    <3>2. late' \in [Loops -> Nat]
      BY <2>2 DEF TypeOK
    <3>3. batch' \in [Loops -> Seq(1 .. sent)] /\ pc' \in [Loops -> {"receive", "handle", "delete", "delay", "stopped"}]
      BY <2>2, <3>1 DEF TypeOK
    <3>4. \A k \in Loops : pc'[k] \in {"handle", "delete"} <=> batch'[k] # <<>>
      BY <2>2, <3>1 DEF TypeOK
    <3>5. QED
      BY <2>1, <2>2, <3>2, <3>3, <3>4 DEF TypeOK
  <2>5. HandlingOK'
    BY <2>1, <2>2 DEF TypeOK, HandlingOK
  <2>6. LateOK'
    BY <2>2, <2>3 DEF TypeOK, LateOK
  <2>7. QED
    BY <2>4, <2>5, <2>6
<1>4. ASSUME NEW l \in Loops, ReceiveNothing(l) PROVE ListenerInv'
  BY <1>4 DEF ReceiveNothing, Goto, queue, history, TypeOK, HandlingOK, LateOK
<1>5. ASSUME NEW l \in Loops, HandlerSucceeds(l) PROVE ListenerInv'
  <2>1. PICK m \in 1 .. sent : batch[l] = <<m>> /\ (ordered => 1 .. m - 1 \subseteq handled)
    BY <1>5 DEF HandlerSucceeds, HandlingOK
  <2>2. /\ pc[l] = "handle" /\ pc' = [pc EXCEPT ![l] = "delete"]
        /\ handled' = handled \cup {m}
        /\ UNCHANGED <<ordered, sent, invisible, deleted, isListening, batch, late>>
    BY <1>5, <2>1 DEF HandlerSucceeds, Goto, queue
  <2>3. TypeOK' /\ LateOK'
    BY <2>2 DEF TypeOK, LateOK
  <2>4. HandlingOK'
    BY <2>1, <2>2 DEF TypeOK, HandlingOK
  <2>5. QED
    BY <2>3, <2>4
<1>6. ASSUME NEW l \in Loops, HandlerFails(l) \/ DeleteFails(l) PROVE ListenerInv'
  <2>1. pc[l] \in {"handle", "delete"} /\ NextMessage(l) /\ UNCHANGED <<queue, isListening, handled>>
    BY <1>6 DEF HandlerFails, DeleteFails
  <2>2. /\ batch' = [batch EXCEPT ![l] = <<>>] /\ pc' = [pc EXCEPT ![l] = "delay"]
        /\ UNCHANGED <<ordered, sent, invisible, deleted, isListening, handled, late>>
    BY <2>1, OneProcessed DEF queue
  <2>3. TypeOK'
    BY <2>2, EmptySeqTyped DEF TypeOK
  <2>4. HandlingOK'
    BY <2>2 DEF TypeOK, HandlingOK
  <2>5. LateOK'
    BY <2>1, <2>2 DEF TypeOK, LateOK
  <2>6. QED
    BY <2>3, <2>4, <2>5
<1>7. ASSUME NEW l \in Loops, DeleteMessage(l) PROVE ListenerInv'
  <2>1. PICK m \in 1 .. sent : batch[l] = <<m>> /\ m \in handled
    BY <1>7 DEF DeleteMessage, HandlingOK
  <2>2. /\ batch' = [batch EXCEPT ![l] = <<>>] /\ pc' = [pc EXCEPT ![l] = "delay"]
        /\ late' = late
    BY <1>7, OneProcessed DEF DeleteMessage
  <2>3. /\ deleted' = deleted \cup {m} /\ invisible' = invisible \ {m}
        /\ UNCHANGED <<ordered, sent, isListening, handled>>
    BY <1>7, <2>1 DEF DeleteMessage
  <2>4. TypeOK'
    BY <2>1, <2>2, <2>3, EmptySeqTyped DEF TypeOK
  <2>5. HandlingOK'
    BY <2>1, <2>2, <2>3 DEF TypeOK, HandlingOK
  <2>6. LateOK'
    BY <1>7, <2>2, <2>3 DEF DeleteMessage, TypeOK, LateOK
  <2>7. QED
    BY <2>4, <2>5, <2>6
<1>8. ASSUME NEW l \in Loops, Delay(l) PROVE ListenerInv'
  <2>1. /\ pc[l] = "delay"
        /\ pc' = [pc EXCEPT ![l] = IF isListening[AppOf[l]] THEN "receive" ELSE "stopped"]
        /\ UNCHANGED <<ordered, sent, invisible, deleted, isListening, batch, handled, late>>
    BY <1>8 DEF Delay, Goto, queue, history
  <2>2. QED
    BY <2>1 DEF TypeOK, HandlingOK, LateOK
<1>9. ASSUME NEW a \in Apps, OnModuleDestroy(a) PROVE ListenerInv'
  BY <1>9 DEF OnModuleDestroy, queue, loop, history, TypeOK, HandlingOK, LateOK
<1>10. ASSUME NEW a \in Apps, Restart(a) PROVE ListenerInv'
  <2>1. TypeOK'
    <3>1. batch' \in [Loops -> Seq(1 .. sent)]
      BY <1>10, EmptySeqTyped DEF Restart, TypeOK
    <3>2. \A k \in Loops : pc'[k] \in {"handle", "delete"} <=> batch'[k] # <<>>
      BY <1>10 DEF Restart, TypeOK
    <3>3. QED
      BY <1>10, <3>1, <3>2 DEF Restart, queue, TypeOK
  <2>2. HandlingOK'
    BY <1>10 DEF Restart, queue, TypeOK, HandlingOK
  <2>3. LateOK'
    BY <1>10 DEF Restart, queue, TypeOK, LateOK
  <2>4. QED
    BY <2>1, <2>2, <2>3
<1>11. CASE UNCHANGED vars
  BY <1>11 DEF vars, queue, loop, history, TypeOK, HandlingOK, LateOK
<1>12. QED
  BY <1>1, <1>2, <1>3, <1>4, <1>5, <1>6, <1>7, <1>8, <1>9, <1>10, <1>11 DEF Next

LEMMA ListenerSafe == Spec => []ListenerInv
  BY ListenerInit, ListenerStep, PTL DEF Spec

\* Types, and a loop holds messages just while it processes them.
THEOREM TypeCorrect == Spec => []TypeOK
<1>1. ListenerInv => TypeOK
  BY DEF ListenerInv
<1>2. QED
  BY <1>1, ListenerSafe, PTL

\* A loop starts at most one handler call once its listener has stopped.
THEOREM LateBounded == Spec => []LateAtMostOne
<1>1. ListenerInv => LateAtMostOne
  <2>1. late \in [Loops -> Nat] /\ LateOK => LateAtMostOne
    BY DEF LateOK, LateAtMostOne
  <2>2. QED
    BY <2>1 DEF ListenerInv, TypeOK
<1>2. QED
  BY <1>1, ListenerSafe, PTL

LEMMA ChannelStep == ListenerInv /\ [Next]_vars => [Channel!Next]_(Channel!channel)
<1> SUFFICES ASSUME ListenerInv, [Next]_vars PROVE [Channel!Next]_(Channel!channel)
  OBVIOUS
<1> USE DEF Channel!Next, Channel!channel
<1>1. CASE SendMessage
  BY <1>1 DEF SendMessage, history, Channel!Send
<1>2. ASSUME NEW l \in Loops, HandlerSucceeds(l) PROVE Channel!Next
  <2>1. PICK m \in 1 .. sent : batch[l] = <<m>> /\ (ordered => 1 .. m - 1 \subseteq handled)
    BY <1>2 DEF HandlerSucceeds, ListenerInv, HandlingOK
  <2>2. Channel!Handle(m)
    BY <1>2, <2>1 DEF HandlerSucceeds, queue, Channel!Handle
  <2>3. m \in 1 .. Limit
    BY SqsAssumption DEF ListenerInv, TypeOK
  <2>4. QED
    BY <2>2, <2>3
<1>3. ASSUME NEW l \in Loops, DeleteMessage(l) PROVE Channel!Next
  <2>1. PICK m \in 1 .. sent : batch[l] = <<m>> /\ m \in handled
    BY <1>3 DEF DeleteMessage, ListenerInv, HandlingOK
  <2>2. Channel!Remove(m)
    BY <1>3, <2>1 DEF DeleteMessage, Channel!Remove
  <2>3. m \in 1 .. Limit
    BY SqsAssumption DEF ListenerInv, TypeOK
  <2>4. QED
    BY <2>2, <2>3
<1>4. CASE UNCHANGED <<ordered, sent, handled, deleted>>
  BY <1>4
<1>5. QED
  BY <1>1, <1>2, <1>3, <1>4
     DEF Next, VisibilityTimeout, ReceiveMessages, ReceiveNothing, HandlerFails, DeleteFails,
         Delay, OnModuleDestroy, Restart, vars, queue, history

\* Whatever crashes, times out or is delivered twice, a message leaves the queue
\* only after a handler succeeded on it; in a FIFO queue handlers succeed in order.
THEOREM ListenerImplementsAtLeastOnce == Spec => ImplementsAtLeastOnce
<1>1. Init => Channel!Init
  BY SqsAssumption DEF Init, Channel!Init
<1>2. QED
  BY <1>1, ChannelStep, ListenerSafe, PTL DEF Spec, ImplementsAtLeastOnce, Channel!Spec

--------------------------------------------------------------------------------
(* What Drains and Delivered rest on, apart from fairness: a loop that is shut *)
(* down only goes towards its end, a loop that is not goes on polling, and a   *)
(* poll can get any message whose turn it is.                                  *)

\* The steps that a loop may still make before it stops.
StepsLeft(l) ==
    CASE pc[l] = "receive" -> 4
      [] pc[l] = "handle" -> 3
      [] pc[l] = "delete" -> 2
      [] pc[l] = "delay" -> 1
      [] pc[l] = "stopped" -> 0

\* The messages in the queue whose turn it is.
Ready == {m \in Available : ordered => 1 .. m - 1 \subseteq deleted}

\* A poll may return any message whose turn it is, and nothing else.
LEMMA DeliverableReady ==
  ASSUME TypeOK
  PROVE  Deliverable(MaxNumberOfMessages) = {<<m>> : m \in Ready}
<1>1. Available \subseteq 1 .. sent /\ sent \in Nat
  BY DEF Available, TypeOK
<1>2. ASSUME NEW s \in Deliverable(MaxNumberOfMessages) PROVE s \in {<<m>> : m \in Ready}
  <2>1. s = <<s[1]>> /\ s[1] \in Available /\ (ordered => 1 .. s[1] - 1 \subseteq deleted)
    BY OneDelivered
  <2>2. QED
    BY <2>1 DEF Ready
<1>3. ASSUME NEW m \in Ready PROVE <<m>> \in Deliverable(MaxNumberOfMessages)
  <2>1. m \in Available /\ (ordered => 1 .. m - 1 \subseteq deleted)
    BY DEF Ready
  <2> DEFINE s == <<m>>
  <2>2. DOMAIN s = 1 .. 1 /\ s[1] = m /\ s \in [1 .. 1 -> Available]
    BY <2>1
  <2> HIDE DEF s
  <2>3. s \in UNION {[1 .. n -> Available] : n \in 1 .. 1}
    BY <2>2
  <2>4. \A i, j \in DOMAIN s : i < j => s[i] < s[j]
    BY <2>2
  <2>5. ordered => \A i \in DOMAIN s : \A k \in 1 .. s[i] - 1 :
                     k \in deleted \/ \E j \in 1 .. i - 1 : s[j] = k
    BY <2>1, <2>2
  <2>6. s \in Deliverable(MaxNumberOfMessages)
    BY <2>3, <2>4, <2>5 DEF Deliverable, MaxNumberOfMessages
  <2>7. QED
    BY <2>6 DEF s
<1>4. QED
  BY <1>2, <1>3

\* A loop of a replica that stays shut down goes towards its end with every step it
\* makes, and stays there.
DrainProgress ==
    [][\A l \in Loops : ~isListening[AppOf[l]] /\ ~isListening'[AppOf[l]] =>
        pc'[l] = pc[l] \/ StepsLeft(l)' < StepsLeft(l)]_vars

LEMMA DrainStep ==
  ASSUME ListenerInv, [Next]_vars, NEW l \in Loops, ~isListening[AppOf[l]], ~isListening'[AppOf[l]]
  PROVE  pc'[l] = pc[l] \/ StepsLeft(l)' < StepsLeft(l)
<1> USE SqsAssumption
<1>1. pc \in [Loops -> {"receive", "handle", "delete", "delay", "stopped"}] /\ isListening \in [Apps -> BOOLEAN]
  BY DEF ListenerInv, TypeOK
<1>2. CASE UNCHANGED pc
  BY <1>2
<1>3. ASSUME NEW k \in Loops, NEW s \in Deliverable(MaxNumberOfMessages), ReceiveMessages(k, s)
      PROVE  pc'[l] = pc[l] \/ StepsLeft(l)' < StepsLeft(l)
  BY <1>1, <1>3 DEF ReceiveMessages, CallHandler, Goto, StepsLeft
<1>4. ASSUME NEW k \in Loops, ReceiveNothing(k) \/ HandlerSucceeds(k)
      PROVE  pc'[l] = pc[l] \/ StepsLeft(l)' < StepsLeft(l)
  BY <1>1, <1>4 DEF ReceiveNothing, HandlerSucceeds, Goto, StepsLeft
<1>5. ASSUME NEW k \in Loops, HandlerFails(k) \/ DeleteMessage(k) \/ DeleteFails(k)
      PROVE  pc'[l] = pc[l] \/ StepsLeft(l)' < StepsLeft(l)
  <2>1. pc[k] \in {"handle", "delete"} /\ NextMessage(k)
    BY <1>5 DEF HandlerFails, DeleteMessage, DeleteFails
  <2>2. pc' = [pc EXCEPT ![k] = "delay"]
    BY <2>1, OneProcessed
  <2>3. QED
    BY <1>1, <2>1, <2>2 DEF StepsLeft
<1>6. ASSUME NEW k \in Loops, Delay(k)
      PROVE  pc'[l] = pc[l] \/ StepsLeft(l)' < StepsLeft(l)
  BY <1>1, <1>6 DEF Delay, Goto, StepsLeft
<1>7. ASSUME NEW a \in Apps, OnModuleDestroy(a) \/ Restart(a)
      PROVE  pc'[l] = pc[l] \/ StepsLeft(l)' < StepsLeft(l)
  <2>1. CASE OnModuleDestroy(a)
    BY <2>1 DEF OnModuleDestroy, loop
  <2>2. CASE Restart(a)
    <3>1. AppOf[l] # a
      BY <1>1, <2>2 DEF Restart
    <3>2. QED
      BY <2>2, <3>1 DEF Restart
  <2>3. QED
    BY <1>7, <2>1, <2>2
<1>8. QED
  BY <1>2, <1>3, <1>4, <1>5, <1>6, <1>7 DEF Next, SendMessage, VisibilityTimeout, vars, loop

\* A shut-down takes a bounded number of steps, whatever is in flight when it comes,
\* for any number of messages, loops and replicas.
THEOREM DrainProgressSafe == Spec => DrainProgress
<1>1. ListenerInv /\ [Next]_vars =>
        [\A l \in Loops : ~isListening[AppOf[l]] /\ ~isListening'[AppOf[l]] =>
            pc'[l] = pc[l] \/ StepsLeft(l)' < StepsLeft(l)]_vars
  BY DrainStep
<1>2. QED
  BY <1>1, ListenerSafe, PTL DEF Spec, DrainProgress

\* No loop ends but by a shut-down, and none polls a queue in vain in which it is the
\* turn of some message.
KeepsPolling ==
    /\ \A l \in Loops : isListening[AppOf[l]] => pc[l] # "stopped"
    /\ \A m \in Ready : <<m>> \in Deliverable(MaxNumberOfMessages)

LEMMA PollingStep ==
  ASSUME ListenerInv, [Next]_vars, \A l \in Loops : isListening[AppOf[l]] => pc[l] # "stopped"
  PROVE  \A l \in Loops : isListening'[AppOf[l]] => pc'[l] # "stopped"
<1> SUFFICES ASSUME NEW l \in Loops, isListening'[AppOf[l]] PROVE pc'[l] # "stopped"
  OBVIOUS
<1> USE SqsAssumption
<1>1. pc \in [Loops -> {"receive", "handle", "delete", "delay", "stopped"}] /\ isListening \in [Apps -> BOOLEAN]
  BY DEF ListenerInv, TypeOK
<1>2. CASE UNCHANGED <<pc, isListening>>
  BY <1>2
<1>3. ASSUME NEW k \in Loops,
             \/ \E s \in Deliverable(MaxNumberOfMessages) : ReceiveMessages(k, s)
             \/ ReceiveNothing(k) \/ HandlerSucceeds(k) \/ Delay(k)
      PROVE  pc'[l] # "stopped"
  BY <1>1, <1>3 DEF ReceiveMessages, CallHandler, ReceiveNothing, HandlerSucceeds, Delay, Goto
<1>4. ASSUME NEW k \in Loops, HandlerFails(k) \/ DeleteMessage(k) \/ DeleteFails(k)
      PROVE  pc'[l] # "stopped"
  <2>1. pc[k] \in {"handle", "delete"} /\ NextMessage(k) /\ UNCHANGED isListening
    BY <1>4 DEF HandlerFails, DeleteMessage, DeleteFails
  <2>2. pc' = [pc EXCEPT ![k] = "delay"]
    BY <2>1, OneProcessed
  <2>3. QED
    BY <1>1, <2>1, <2>2
<1>5. ASSUME NEW a \in Apps, OnModuleDestroy(a) \/ Restart(a) PROVE pc'[l] # "stopped"
  BY <1>1, <1>5 DEF OnModuleDestroy, Restart, loop
<1>6. QED
  BY <1>2, <1>3, <1>4, <1>5 DEF Next, SendMessage, VisibilityTimeout, vars, loop

\* A replica goes on polling until it is shut down, whatever its handlers and SQS
\* reject, and a poll can get the message whose turn it is.
THEOREM KeepsPollingSafe == Spec => []KeepsPolling
<1> DEFINE Polling == \A l \in Loops : isListening[AppOf[l]] => pc[l] # "stopped"
<1>1. Init => Polling
  BY DEF Init
<1>2. ListenerInv /\ Polling /\ [Next]_vars => Polling'
  BY PollingStep
<1>3. ListenerInv /\ Polling => KeepsPolling
  BY DeliverableReady DEF ListenerInv, KeepsPolling
<1> HIDE DEF Polling
<1>4. QED
  BY <1>1, <1>2, <1>3, ListenerSafe, PTL DEF Spec

================================================================================
