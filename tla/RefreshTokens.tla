----------------------------- MODULE RefreshTokens -----------------------------
(***************************************************************************)
(* TokenService of the auth package: opaque single-use refresh tokens kept *)
(* in Redis, with a per-user index set used to revoke all of them.         *)
(*                                                                         *)
(* Every request (a login, a refresh, a logout, a global logout) is a      *)
(* process that awaits one Redis command after another.  Redis executes a  *)
(* command atomically, so a step is one command together with the code up  *)
(* to the next await.  The steps of different requests interleave freely,  *)
(* seconds may pass between any two of them (Tick), and with Faults a      *)
(* request may stop half way: a command rejected or the process died.      *)
(***************************************************************************)
EXTENDS Naturals

CONSTANTS
    Users,      \* the ids of authenticated users
    Tokens,     \* the refresh tokens randomUUID() can return
    Requests,   \* the calls made to the service, one each
    Ops,        \* the operations those calls may be, a subset of OpNames
    TTL,        \* refreshTokenTtlSeconds, in ticks of the Redis clock
    Faults,     \* whether a request can stop half way
    None,       \* no token, no user
    Login       \* the origin of a pair that was issued by generateTokens

OpNames == {"generateTokens", "refreshTokens", "revokeRefreshToken", "revokeAllForUser"}

ASSUME TokenAssumption ==
    /\ TTL \in Nat
    /\ Faults \in BOOLEAN
    /\ Ops \subseteq OpNames
    /\ None \notin Tokens \cup Users
    /\ Login \notin Tokens \cup {None}

VARIABLES
    value,      \* value[t]: the user in the JSON that was stored under the key of t
    life,       \* life[t]: the TTL left on that key, 0 when there is no key
    index,      \* index[u]: the members of the set auth:refresh:user:<u>
    indexLife,  \* indexLife[u]: the TTL left on that set, 0 when there is no set
    pc,         \* pc[r]: the Redis command request r awaits, or how it ended
    user,       \* user[r]: the user r works for, None while unknown
    token,      \* token[r]: the token r presents, Login for a login
    fresh,      \* fresh[r]: the token r has minted
    todo,       \* todo[r]: the deletions of revokeAllForUser still in flight
    parent,     \* history: parent[t], what t was issued in exchange for
    lost,       \* history: the live tokens that fell out of an index in one of two windows:
                \* a global logout deleted it that had not found them by SMEMBERS, or it ran
                \* out before their own EXPIRE
    found,      \* history: the members SMEMBERS gave the revokeAll r
    target      \* history: the live tokens clients held when the revokeAll r began

redis == <<value, life, index, indexLife>>
locals == <<pc, user, token, fresh, todo>>
history == <<parent, lost, found, target>>
vars == <<redis, locals, history>>

Forever == TTL + 1          \* the TTL of a key that never expires
Life == 0 .. Forever

Minting == {"set", "sAdd", "expire"}
Awaiting == Minting \cup
    {"refreshDel", "refreshSRem", "revokeDel", "revokeSRem", "revokeAllDel"}
Final == {"issued", "revoked", "allRevoked", "rejected", "failed"}

Init ==
    /\ value = [t \in Tokens |-> None]
    /\ life = [t \in Tokens |-> 0]
    /\ index = [u \in Users |-> {}]
    /\ indexLife = [u \in Users |-> 0]
    /\ pc = [r \in Requests |-> "idle"]
    /\ user = [r \in Requests |-> None]
    /\ token = [r \in Requests |-> None]
    /\ fresh = [r \in Requests |-> None]
    /\ todo = [r \in Requests |-> {}]
    /\ parent = [t \in Tokens |-> None]
    /\ lost = {}
    /\ found = [r \in Requests |-> {}]
    /\ target = [r \in Requests |-> {}]

--------------------------------------------------------------------------------
(* What the rest of the module says about the state.                           *)

Live(t) == life[t] > 0
Born(t) == parent[t] # None

\* The tokens a client holds: a request that minted one answered with the pair.
Held == {fresh[r] : r \in {q \in Requests : pc[q] = "issued"}}

\* Mutant: the index is deleted instead of one member.
RemoveIndex(u, t) ==
    /\ index' = [index EXCEPT ![u] = {}]
    /\ indexLife' = [indexLife EXCEPT ![u] = 0]

\* Redis removes a set with its last member, and the TTL goes with it.
RemoveMember(u, t) ==
    /\ index' = [index EXCEPT ![u] = @ \ {t}]
    /\ indexLife' = [indexLife EXCEPT ![u] = IF index[u] \subseteq {t} THEN 0 ELSE @]

Goto(r, step) == pc' = [pc EXCEPT ![r] = step]

--------------------------------------------------------------------------------
(* generateTokens: SETEX of the token, SADD to the index, EXPIRE of the index. *)

\* The caller authenticated u; nothing has reached Redis yet.
CallGenerate(r, u) ==
    /\ "generateTokens" \in Ops
    /\ pc[r] = "idle"
    /\ Goto(r, "set")
    /\ user' = [user EXCEPT ![r] = u]
    /\ token' = [token EXCEPT ![r] = Login]
    /\ UNCHANGED <<redis, fresh, todo, history>>

\* RedisService.set sends SETEX for a positive number of seconds and a plain
\* SET, a key that never expires, otherwise.
StoredLife == IF TTL > 0 THEN TTL ELSE Forever

GenerateSet(r, t) ==
    /\ pc[r] = "set"
    /\ ~Born(t)
    /\ value' = [value EXCEPT ![t] = user[r]]
    /\ life' = [life EXCEPT ![t] = StoredLife]
    /\ fresh' = [fresh EXCEPT ![r] = t]
    /\ parent' = [parent EXCEPT ![t] = token[r]]
    /\ Goto(r, "sAdd")
    /\ UNCHANGED <<index, indexLife, user, token, todo, lost, found, target>>

\* SADD creates a set without a TTL and leaves the TTL of an existing one.
GenerateSAdd(r) ==
    /\ pc[r] = "sAdd"
    /\ index' = [index EXCEPT ![user[r]] = @ \cup {fresh[r]}]
    /\ indexLife' = [indexLife EXCEPT ![user[r]] = IF @ = 0 THEN Forever ELSE @]
    /\ Goto(r, "expire")
    /\ UNCHANGED <<value, life, user, token, fresh, todo, history>>

\* Mutant: EXPIRE only if the index has no TTL yet (EXPIRE ... NX).
GenerateExpireOnce(r) ==
    /\ pc[r] = "expire"
    /\ indexLife' = [indexLife EXCEPT ![user[r]] = IF @ = Forever THEN TTL ELSE @]
    /\ Goto(r, "issued")
    /\ UNCHANGED <<value, life, index, user, token, fresh, todo, history>>

\* Mutant: no EXPIRE.
GenerateWithoutExpire(r) ==
    /\ pc[r] = "expire"
    /\ Goto(r, "issued")
    /\ UNCHANGED <<redis, user, token, fresh, todo, history>>

\* EXPIRE sets the TTL of the set if it is there; EXPIRE 0 deletes it.
GenerateExpire(r) ==
    /\ pc[r] = "expire"
    /\ indexLife' = [indexLife EXCEPT ![user[r]] = IF @ = 0 THEN 0 ELSE TTL]
    /\ index' = [index EXCEPT ![user[r]] = IF TTL = 0 THEN {} ELSE @]
    /\ Goto(r, "issued")
    /\ UNCHANGED <<value, life, user, token, fresh, todo, history>>

--------------------------------------------------------------------------------
(* refreshTokens: GET, DEL (its result decides), SREM, then generateTokens.    *)

RefreshGet(r, t) ==
    /\ "refreshTokens" \in Ops
    /\ pc[r] = "idle"
    /\ t \in Held
    /\ Goto(r, IF Live(t) THEN "refreshDel" ELSE "rejected")
    /\ user' = [user EXCEPT ![r] = IF Live(t) THEN value[t] ELSE None]
    /\ token' = [token EXCEPT ![r] = t]
    /\ UNCHANGED <<redis, fresh, todo, history>>

\* Mutant: the result of DEL is ignored, as GET found the token.
RefreshDelUnchecked(r) ==
    /\ pc[r] = "refreshDel"
    /\ life' = [life EXCEPT ![token[r]] = 0]
    /\ Goto(r, "refreshSRem")
    /\ UNCHANGED <<value, index, indexLife, user, token, fresh, todo, history>>

\* Mutant: EXISTS instead of DEL.
RefreshExists(r) ==
    /\ pc[r] = "refreshDel"
    /\ Goto(r, IF Live(token[r]) THEN "refreshSRem" ELSE "rejected")
    /\ UNCHANGED <<redis, user, token, fresh, todo, history>>

RefreshDel(r) ==
    /\ pc[r] = "refreshDel"
    /\ life' = [life EXCEPT ![token[r]] = 0]
    /\ Goto(r, IF Live(token[r]) THEN "refreshSRem" ELSE "rejected")
    /\ UNCHANGED <<value, index, indexLife, user, token, fresh, todo, history>>

RefreshSRem(r) ==
    /\ pc[r] = "refreshSRem"
    /\ RemoveMember(user[r], token[r])
    /\ Goto(r, "set")
    /\ UNCHANGED <<value, life, user, token, fresh, todo, history>>

--------------------------------------------------------------------------------
(* revokeRefreshToken: GET unless the caller knows the user, DEL, SREM.        *)

RevokeGet(r, t) ==
    /\ "revokeRefreshToken" \in Ops
    /\ pc[r] = "idle"
    /\ t \in Held
    /\ Goto(r, "revokeDel")
    /\ user' = [user EXCEPT ![r] = IF Live(t) THEN value[t] ELSE None]
    /\ token' = [token EXCEPT ![r] = t]
    /\ UNCHANGED <<redis, fresh, todo, history>>

\* The caller passes the owner: no GET, and the owner is known of a dead token.
CallRevoke(r, t) ==
    /\ "revokeRefreshToken" \in Ops
    /\ pc[r] = "idle"
    /\ t \in Held
    /\ Goto(r, "revokeDel")
    /\ user' = [user EXCEPT ![r] = value[t]]
    /\ token' = [token EXCEPT ![r] = t]
    /\ UNCHANGED <<redis, fresh, todo, history>>

RevokeDel(r) ==
    /\ pc[r] = "revokeDel"
    /\ life' = [life EXCEPT ![token[r]] = 0]
    /\ Goto(r, IF user[r] # None THEN "revokeSRem" ELSE "revoked")
    /\ UNCHANGED <<value, index, indexLife, user, token, fresh, todo, history>>

RevokeSRem(r) ==
    /\ pc[r] = "revokeSRem"
    /\ RemoveMember(user[r], token[r])
    /\ Goto(r, "revoked")
    /\ UNCHANGED <<value, life, user, token, fresh, todo, history>>

--------------------------------------------------------------------------------
(* revokeAllForUser: SMEMBERS, a DEL per member in parallel, DEL of the index. *)

RevokeAllSMembers(r, u) ==
    /\ "revokeAllForUser" \in Ops
    /\ pc[r] = "idle"
    /\ Goto(r, "revokeAllDel")
    /\ user' = [user EXCEPT ![r] = u]
    /\ todo' = [todo EXCEPT ![r] = index[u]]
    /\ found' = [found EXCEPT ![r] = index[u]]
    /\ target' = [target EXCEPT ![r] = {t \in Held : Live(t) /\ value[t] = u}]
    /\ UNCHANGED <<redis, token, fresh, parent, lost>>

\* Promise.all sent every DEL at once: they run in any order, and those in
\* flight when one of them is rejected still run.
RevokeAllDelToken(r, t) ==
    /\ pc[r] \in {"revokeAllDel", "failed"}
    /\ t \in todo[r]
    /\ life' = [life EXCEPT ![t] = 0]
    /\ todo' = [todo EXCEPT ![r] = @ \ {t}]
    /\ UNCHANGED <<value, index, indexLife, pc, user, token, fresh, history>>

\* What the DEL of the index drops alive although r never deleted it: their SADD came
\* after the SMEMBERS of r.
Unfound(r) == {t \in index[user[r]] : Live(t)} \ found[r]

\* Mutant: Promise.all is not awaited.
RevokeAllDelIndexEarly(r) ==
    /\ pc[r] = "revokeAllDel"
    /\ index' = [index EXCEPT ![user[r]] = {}]
    /\ indexLife' = [indexLife EXCEPT ![user[r]] = 0]
    /\ lost' = lost \cup Unfound(r)
    /\ Goto(r, "allRevoked")
    /\ UNCHANGED <<value, life, user, token, fresh, todo, parent, found, target>>

RevokeAllDelIndex(r) ==
    /\ pc[r] = "revokeAllDel"
    /\ todo[r] = {}
    /\ index' = [index EXCEPT ![user[r]] = {}]
    /\ indexLife' = [indexLife EXCEPT ![user[r]] = 0]
    /\ lost' = lost \cup Unfound(r)
    /\ Goto(r, "allRevoked")
    /\ UNCHANGED <<value, life, user, token, fresh, todo, parent, found, target>>

--------------------------------------------------------------------------------
(* A Redis command is rejected, or the process dies, between two steps.        *)
Fail(r) ==
    /\ Faults
    /\ pc[r] \in Awaiting
    /\ Goto(r, "failed")
    /\ UNCHANGED <<redis, user, token, fresh, todo, history>>

(* A second passes in Redis: keys that run out of TTL are gone.                *)
Older(n) == IF n \in 1 .. TTL THEN n - 1 ELSE n

\* The tokens whose EXPIRE has not been executed: their index may be too old.
Unsettled == {fresh[r] : r \in {q \in Requests : pc[q] = "expire"}}

Tick ==
    LET expired == {u \in Users : indexLife[u] = 1 /\ TTL > 0}
    IN  /\ life' = [t \in Tokens |-> Older(life[t])]
        /\ indexLife' = [u \in Users |-> Older(indexLife[u])]
        /\ index' = [u \in Users |-> IF u \in expired THEN {} ELSE index[u]]
        /\ lost' = lost \cup {t \in Unsettled : \E u \in expired : t \in index[u]}
        /\ UNCHANGED <<value, locals, parent, found, target>>

--------------------------------------------------------------------------------
Call(r) ==
    \/ \E u \in Users : CallGenerate(r, u) \/ RevokeAllSMembers(r, u)
    \/ \E t \in Tokens : RefreshGet(r, t) \/ RevokeGet(r, t) \/ CallRevoke(r, t)

Continue(r) ==
    \/ \E t \in Tokens : GenerateSet(r, t) \/ RevokeAllDelToken(r, t)
    \/ GenerateSAdd(r)
    \/ GenerateExpire(r)
    \/ RefreshDel(r)
    \/ RefreshSRem(r)
    \/ RevokeDel(r)
    \/ RevokeSRem(r)
    \/ RevokeAllDelIndex(r)

Next ==
    \/ \E r \in Requests : Call(r) \/ Continue(r) \/ Fail(r)
    \/ Tick

Spec == Init /\ [][Next]_vars

\* Every awaited command is answered and the clock of Redis never stops; no
\* client is bound to call, and nothing is bound to fail.
Fairness ==
    /\ \A r \in Requests : WF_vars(Continue(r))
    /\ WF_vars(Tick)

FairSpec == Spec /\ Fairness

--------------------------------------------------------------------------------
\* Types, and the fact that Redis keeps no empty set.
TypeOK ==
    /\ value \in [Tokens -> Users \cup {None}]
    /\ life \in [Tokens -> Life]
    /\ index \in [Users -> SUBSET Tokens]
    /\ indexLife \in [Users -> Life]
    /\ pc \in [Requests -> {"idle"} \cup Awaiting \cup Final]
    /\ user \in [Requests -> Users \cup {None}]
    /\ token \in [Requests -> Tokens \cup {Login, None}]
    /\ fresh \in [Requests -> Tokens \cup {None}]
    /\ todo \in [Requests -> SUBSET Tokens]
    /\ parent \in [Tokens -> Tokens \cup {Login, None}]
    /\ lost \subseteq Tokens
    /\ found \in [Requests -> SUBSET Tokens]
    /\ target \in [Requests -> SUBSET Tokens]
    /\ \A u \in Users : indexLife[u] = 0 <=> index[u] = {}

\* Single use: however many refreshes of one token run at once, fail half way or
\* race with a logout, at most one of them issues a pair in exchange for it.
SingleUse ==
    \A a, b \in Tokens : parent[a] = parent[b] /\ parent[a] \in Tokens => a = b

\* Rotation: once a refresh has issued a pair, the token it was exchanged for
\* cannot be presented any more; the two are never valid side by side.
Rotated == \A t \in Tokens : parent[t] \in Tokens => ~Live(parent[t])

\* The index of a user lives at least as long as every token in it that
\* generateTokens has returned, whatever ran between SADD and EXPIRE.
IndexOutlives ==
    \A t \in Held : t \in index[value[t]] => life[t] <= indexLife[value[t]]

\* Every live token a client holds is in the index of its user, except those whose SADD
\* came between the SMEMBERS and the DEL of a global logout, be the login over by then
\* or not, and those whose index ran out between their SADD and their EXPIRE: no logout,
\* refresh or expiry of another token unlists it, nor a global logout that found it.
Listed == \A t \in Held : Live(t) => t \in index[value[t]] \cup lost

\* When a global logout returns, none of the tokens its user's clients held when it began
\* is live, but for those that had fallen out of the index in the windows of Listed.
RevokeAllReaches ==
    \A r \in Requests : pc[r] = "allRevoked" => \A t \in target[r] : Live(t) => t \in lost

\* What revokeAllForUser documents: it revokes all the tokens in force of a user.
RevokeAllRevokes ==
    \A r \in Requests : pc[r] = "allRevoked" => \A t \in target[r] : ~Live(t)

OwnsLive(u) == \E t \in Tokens : value[t] = u /\ Live(t)
FailedToIssue(u) == \E r \in Requests : pc[r] = "failed" /\ user[r] = u /\ fresh[r] # None

\* The index of a user without live tokens goes away, whatever requests fail, unless
\* a new token is issued or one of them failed with a token it had already stored.
IndexCleared ==
    \A u \in Users : ~OwnsLive(u) ~> (index[u] = {} \/ OwnsLive(u) \/ FailedToIssue(u))

--------------------------------------------------------------------------------
(* The inductive invariants behind those properties: what a request that waits *)
(* for its next command may rely on, whatever the others did meanwhile.        *)
Minted == {r \in Requests : pc[r] \in {"sAdd", "expire", "issued"}}
Presenting == {r \in Requests : pc[r] \in {"refreshDel", "refreshSRem", "revokeDel", "revokeSRem"}}
Exchanging == {r \in Requests : pc[r] \in {"refreshSRem", "set"} /\ token[r] \in Tokens}

\* A key is written once, with its user; what it replaces existed before it.
TokenOK ==
    \A t \in Tokens :
        /\ Born(t) => value[t] \in Users
        /\ ~Born(t) => value[t] = None /\ ~Live(t)
        /\ parent[t] \in Tokens => Born(parent[t])

\* The locals of a request agree with what is, or was, in Redis.
RequestOK ==
    /\ \A r \in Requests :
        /\ pc[r] \in Minting \cup {"issued", "refreshDel", "refreshSRem", "revokeSRem", "revokeAllDel"}
               => user[r] \in Users
        /\ pc[r] = "set" => token[r] \in Tokens \cup {Login}
    /\ \A r \in Presenting : token[r] \in Tokens /\ Born(token[r])
    /\ \A r \in Presenting : pc[r] = "refreshDel" => user[r] = value[token[r]]
    /\ \A r \in Minted : fresh[r] \in Tokens /\ Born(fresh[r]) /\ value[fresh[r]] = user[r]

\* A token in exchange is dead, has no replacement yet, and is exchanged by one
\* request only: the one whose DEL returned true.
ExchangeOK ==
    /\ \A r \in Exchanging :
        /\ Born(token[r]) /\ ~Live(token[r])
        /\ user[r] = value[token[r]]
        /\ \A t \in Tokens : parent[t] # token[r]
    /\ \A q, r \in Exchanging : token[q] = token[r] => q = r

RotationInv == TypeOK /\ TokenOK /\ RequestOK /\ ExchangeOK /\ SingleUse /\ Rotated

\* A token has one minter; SREM only unlists dead tokens; a token waiting for its
\* EXPIRE is listed already; a global logout still has to delete what it found.
IndexingOK ==
    /\ \A u \in Users : \A t \in index[u] : Born(t)
    /\ \A r \in Requests : \A t \in found[r] : Born(t)
    /\ \A r \in Requests :
        pc[r] = "revokeAllDel" => \A t \in found[r] : Live(t) => t \in todo[r]
    /\ \A t \in Tokens : life[t] <= TTL
    /\ \A q, r \in Minted : fresh[q] = fresh[r] => q = r
    /\ \A r \in Requests : pc[r] \in {"refreshSRem", "revokeSRem"} => ~Live(token[r])
    /\ \A r \in Requests :
        pc[r] = "expire" /\ Live(fresh[r]) => fresh[r] \in index[user[r]] \cup lost
    /\ \A r \in Requests : \A t \in target[r] : Born(t)
    /\ \A r \in Requests :
        pc[r] = "revokeAllDel" => \A t \in target[r] : Live(t) => t \in todo[r] \cup lost

IndexInv == IndexingOK /\ IndexOutlives /\ Listed /\ RevokeAllReaches

--------------------------------------------------------------------------------
(* The service implements the ledger of TokenLedger: a token is owed while the *)
(* refresh that deleted it has not issued the pair that replaces it.           *)
Ledger == INSTANCE TokenLedger WITH
    status <- [t \in Tokens |-> IF ~Born(t) THEN "unborn" ELSE IF Live(t) THEN "live" ELSE "dead"],
    holder <- value,
    owed <- {token[r] : r \in Exchanging}

\* Every behaviour of the service is one of the ledger.
ImplementsLedger == Ledger!Spec

================================================================================
