------------------------------ MODULE PasswordHash ------------------------------
(***************************************************************************)
(* BcryptService: hashes whose cost is set by generateSalt, while          *)
(* asynchronous hashes that began with an older cost are still made.       *)
(*                                                                         *)
(* bcrypt is external: it refuses rounds that are no number and unknown    *)
(* versions, takes 10 rounds for 0 and brings others into 4..31.           *)
(***************************************************************************)
EXTENDS Naturals

CONSTANTS
    Hashes,         \* the calls that make a hash
    Rounds,         \* the rounds that are asked for, natural numbers
    MaxSalts        \* bound: salts that are made

VARIABLES
    service,        \* "none", "up", or "refused" when the first salt fails
    rounds,         \* this.rounds
    salt,           \* the rounds that this.salt names
    salts,          \* the salts made so far
    pc,             \* pc[h]: "idle", "pending", "made" or "failed"
    hash            \* hash[h]: its rounds, and the number of salts made before it

vars == <<service, rounds, salt, salts, pc, hash>>

NoHash == [rounds |-> 0, since |-> 0]

\* What bcrypt makes of the rounds.
Cost(r) == IF r = 0 THEN 10 ELSE IF r < 4 THEN 4 ELSE IF r > 31 THEN 31 ELSE r

Init ==
    /\ service = "none"
    /\ rounds = 0 /\ salt = 0 /\ salts = 0
    /\ pc = [h \in Hashes |-> "idle"]
    /\ hash = [h \in Hashes |-> NoHash]

--------------------------------------------------------------------------------
\* Mutant: the rounds are stored before the salt is made.
GenerateSaltStored(r, valid) ==
    /\ service # "refused" /\ salts < MaxSalts
    /\ salts' = IF valid THEN salts + 1 ELSE salts
    /\ service' = IF valid THEN "up" ELSE IF service = "none" THEN "refused" ELSE service
    /\ rounds' = r
    /\ salt' = IF valid THEN Cost(r) ELSE salt
    /\ UNCHANGED <<pc, hash>>

\* generateSalt, which the constructor calls first; it fails for a bad version, and
\* then changes nothing.
GenerateSalt(r, valid) ==
    /\ service # "refused" /\ salts < MaxSalts
    /\ salts' = IF valid THEN salts + 1 ELSE salts
    /\ service' = IF valid THEN "up" ELSE IF service = "none" THEN "refused" ELSE service
    /\ IF valid THEN rounds' = r /\ salt' = Cost(r) ELSE UNCHANGED <<rounds, salt>>
    /\ UNCHANGED <<pc, hash>>

Hashed == [rounds |-> Cost(rounds), since |-> salts]

\* encryptSync and generatePasswordHash.
EncryptSync(h) ==
    /\ service = "up" /\ pc[h] = "idle"
    /\ pc' = [pc EXCEPT ![h] = "made"]
    /\ hash' = [hash EXCEPT ![h] = Hashed]
    /\ UNCHANGED <<service, rounds, salt, salts>>

\* encrypt gives the rounds to bcrypt when it is called.
Encrypt(h) ==
    /\ service = "up" /\ pc[h] = "idle"
    /\ pc' = [pc EXCEPT ![h] = "pending"]
    /\ hash' = [hash EXCEPT ![h] = Hashed]
    /\ UNCHANGED <<service, rounds, salt, salts>>

Encrypted(h) ==
    /\ pc[h] = "pending"
    /\ \E end \in {"made", "failed"} : pc' = [pc EXCEPT ![h] = end]
    /\ UNCHANGED <<service, rounds, salt, salts, hash>>

ValidateHash(h) == hash[h].rounds = salt

Next ==
    \/ \E r \in Rounds, valid \in BOOLEAN : GenerateSalt(r, valid)
    \/ \E h \in Hashes : EncryptSync(h) \/ Encrypt(h) \/ Encrypted(h)

Spec == Init /\ [][Next]_vars

--------------------------------------------------------------------------------
\* A hash that was asked for since the last salt was made validates, also when later
\* calls of generateSalt failed and when it is made after a newer one was asked for;
\* an older one validates only if its rounds are still the current ones.
NewHashesValid ==
    \A h \in Hashes : pc[h] = "made" =>
        /\ hash[h].since = salts => ValidateHash(h)
        /\ ValidateHash(h) => hash[h].rounds = Cost(rounds)

================================================================================
