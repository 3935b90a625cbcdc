------------------------------ MODULE TokenLedger ------------------------------
(***************************************************************************)
(* What the refresh tokens promise, whatever stores them: a token is born  *)
(* once, belongs to one user, and dies for good; it is granted to a user   *)
(* who logs in or replaces exactly one token of the same user, which died  *)
(* in the exchange.                                                        *)
(***************************************************************************)
CONSTANTS Users, Tokens, None

VARIABLES
    status,     \* status[t]: "unborn", "live" or "dead"
    holder,     \* holder[t]: the user t was issued to
    owed        \* the tokens exchanged whose replacement is still to be issued

ledger == <<status, holder, owed>>

Init ==
    /\ status = [t \in Tokens |-> "unborn"]
    /\ holder = [t \in Tokens |-> None]
    /\ owed = {}

Issue(t, u) ==
    /\ status[t] = "unborn"
    /\ status' = [status EXCEPT ![t] = "live"]
    /\ holder' = [holder EXCEPT ![t] = u]

\* A login.
Grant(t, u) == Issue(t, u) /\ UNCHANGED owed

\* The first half of a refresh: t is spent and a replacement is owed for it.
Exchange(t) ==
    /\ status[t] = "live"
    /\ status' = [status EXCEPT ![t] = "dead"]
    /\ owed' = owed \cup {t}
    /\ UNCHANGED holder

\* The second half: n replaces t, for the same user, once.
Replace(t, n) ==
    /\ t \in owed
    /\ Issue(n, holder[t])
    /\ owed' = owed \ {t}

\* The refresh broke off: nothing is owed for t any more.
Forfeit(t) ==
    /\ t \in owed
    /\ owed' = owed \ {t}
    /\ UNCHANGED <<status, holder>>

\* The tokens of S expire or are revoked.
Withdraw(S) ==
    /\ \A t \in S : status[t] = "live"
    /\ status' = [t \in Tokens |-> IF t \in S THEN "dead" ELSE status[t]]
    /\ UNCHANGED <<holder, owed>>

Next ==
    \/ \E t \in Tokens : Exchange(t) \/ Forfeit(t)
    \/ \E t \in Tokens, u \in Users : Grant(t, u)
    \/ \E t, n \in Tokens : Replace(t, n)
    \/ \E S \in SUBSET Tokens : Withdraw(S)

Spec == Init /\ [][Next]_ledger

================================================================================
