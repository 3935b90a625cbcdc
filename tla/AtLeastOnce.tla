------------------------------ MODULE AtLeastOnce ------------------------------
(***************************************************************************)
(* What consuming a queue promises: a message leaves the queue only after  *)
(* a handler succeeded on it, which may happen more than once; in a FIFO   *)
(* queue no handler succeeds on a message before one has on all the        *)
(* messages sent earlier.                                                  *)
(***************************************************************************)
EXTENDS Naturals

CONSTANTS
    Limit       \* the number of messages

VARIABLES
    ordered,    \* whether the queue is FIFO
    sent,       \* the messages sent so far are 1 .. sent
    handled,    \* the messages a handler succeeded on
    removed     \* the messages that left the queue

channel == <<ordered, sent, handled, removed>>

Init == ordered \in BOOLEAN /\ sent = 0 /\ handled = {} /\ removed = {}

Send ==
    /\ sent < Limit
    /\ sent' = sent + 1
    /\ UNCHANGED <<ordered, handled, removed>>

Handle(m) ==
    /\ m \in 1 .. sent
    /\ ordered => \A k \in 1 .. m - 1 : k \in handled
    /\ handled' = handled \cup {m}
    /\ UNCHANGED <<ordered, sent, removed>>

Remove(m) ==
    /\ m \in handled
    /\ removed' = removed \cup {m}
    /\ UNCHANGED <<ordered, sent, handled>>

Next == Send \/ \E m \in 1 .. Limit : Handle(m) \/ Remove(m)

Spec == Init /\ [][Next]_channel

================================================================================
