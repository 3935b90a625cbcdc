-------------------------- MODULE RefreshTokensProofs --------------------------
(* Proofs of the safety properties of RefreshTokens, for every set of users,   *)
(* tokens and requests, every TTL, with and without faults.                    *)
EXTENDS RefreshTokens, TLAPS

LEMMA RotationInit == Init => RotationInv
  BY TokenAssumption DEF Init, RotationInv, TypeOK, TokenOK, RequestOK, ExchangeOK, SingleUse,
     Rotated, Life, Forever, Born, Live, Minted, Presenting, Exchanging, Minting

LEMMA CallGenerateRotation ==
  ASSUME NEW r \in Requests, NEW u \in Users, RotationInv, CallGenerate(r, u)
  PROVE  RotationInv'
<1> USE TokenAssumption DEF RotationInv, CallGenerate, Goto, Live, Born, redis, locals, history
<1>1. TypeOK'
  BY DEF TypeOK, RequestOK, TokenOK, Minted, Life, Forever, Awaiting, Minting, Final
<1>2. TokenOK'
  BY DEF TypeOK, TokenOK, RequestOK, ExchangeOK, Exchanging, Minted, Presenting, Minting
<1>3. RequestOK'
  BY DEF TypeOK, TokenOK, RequestOK, ExchangeOK, Exchanging, Minted, Presenting, Minting
<1>4. ExchangeOK'
  BY DEF TypeOK, TokenOK, RequestOK, ExchangeOK, Exchanging, Minted, Presenting, Minting
<1>5. SingleUse'
  BY DEF TypeOK, TokenOK, RequestOK, ExchangeOK, Exchanging, Minted, Presenting, Minting, SingleUse
<1>6. Rotated'
  BY DEF TypeOK, TokenOK, RequestOK, ExchangeOK, Exchanging, Minted, Presenting, Minting, Rotated
<1>7. QED
  BY <1>1, <1>2, <1>3, <1>4, <1>5, <1>6

LEMMA GenerateSetRotation ==
  ASSUME NEW r \in Requests, NEW t \in Tokens, RotationInv, GenerateSet(r, t)
  PROVE  RotationInv'
<1> USE TokenAssumption DEF RotationInv, GenerateSet, Goto, Live, Born, redis, locals, history
<1>1. TypeOK'
  BY DEF TypeOK, StoredLife, RequestOK, TokenOK, Minted, Life, Forever, Awaiting, Minting, Final
<1>2. TokenOK'
  BY DEF StoredLife, TypeOK, TokenOK, RequestOK, ExchangeOK, Exchanging, Minted, Presenting, Minting
<1>3. RequestOK'
  BY DEF StoredLife, TypeOK, TokenOK, RequestOK, ExchangeOK, Exchanging, Minted, Presenting, Minting
<1>4. ExchangeOK'
  BY DEF StoredLife, TypeOK, TokenOK, RequestOK, ExchangeOK, Exchanging, Minted, Presenting, Minting
<1>5. SingleUse'
  BY DEF StoredLife, TypeOK, TokenOK, RequestOK, ExchangeOK, Exchanging, Minted, Presenting, Minting, SingleUse
<1>6. Rotated'
  BY DEF StoredLife, TypeOK, TokenOK, RequestOK, ExchangeOK, Exchanging, Minted, Presenting, Minting, Rotated
<1>7. QED
  BY <1>1, <1>2, <1>3, <1>4, <1>5, <1>6

LEMMA GenerateSAddRotation ==
  ASSUME NEW r \in Requests, RotationInv, GenerateSAdd(r)
  PROVE  RotationInv'
<1> USE TokenAssumption DEF RotationInv, GenerateSAdd, Goto, Live, Born, redis, locals, history
<1>1. TypeOK'
  <2>1. fresh[r] \in Tokens /\ user[r] \in Users
    BY DEF TypeOK, RequestOK, Minted, Minting
  <2>2. pc' \in [Requests -> {"idle"} \cup Awaiting \cup Final]
    BY DEF TypeOK, Awaiting, Minting
  <2>3. index' \in [Users -> SUBSET Tokens] /\ indexLife' \in [Users -> Life]
    BY <2>1 DEF TypeOK, Life, Forever
  <2>4. \A u \in Users : indexLife'[u] = 0 <=> index'[u] = {}
    <3>1. index'[user[r]] # {} /\ indexLife'[user[r]] # 0
      BY <2>1 DEF TypeOK, Life, Forever
    <3>2. ASSUME NEW u \in Users, u # user[r]
          PROVE  index'[u] = index[u] /\ indexLife'[u] = indexLife[u]
      BY <2>1, <3>2 DEF TypeOK
    <3>3. QED
      BY <3>1, <3>2 DEF TypeOK
  <2>5. QED
    BY <2>2, <2>3, <2>4 DEF TypeOK
<1>2. TokenOK'
  BY DEF TypeOK, TokenOK, RequestOK, ExchangeOK, Exchanging, Minted, Presenting, Minting
<1>3. RequestOK'
  BY DEF TypeOK, TokenOK, RequestOK, ExchangeOK, Exchanging, Minted, Presenting, Minting
<1>4. ExchangeOK'
  BY DEF TypeOK, TokenOK, RequestOK, ExchangeOK, Exchanging, Minted, Presenting, Minting
<1>5. SingleUse'
  BY DEF TypeOK, TokenOK, RequestOK, ExchangeOK, Exchanging, Minted, Presenting, Minting, SingleUse
<1>6. Rotated'
  BY DEF TypeOK, TokenOK, RequestOK, ExchangeOK, Exchanging, Minted, Presenting, Minting, Rotated
<1>7. QED
  BY <1>1, <1>2, <1>3, <1>4, <1>5, <1>6

LEMMA GenerateExpireRotation ==
  ASSUME NEW r \in Requests, RotationInv, GenerateExpire(r)
  PROVE  RotationInv'
<1> USE TokenAssumption DEF RotationInv, GenerateExpire, Goto, Live, Born, redis, locals, history
<1>1. TypeOK'
  BY DEF TypeOK, RequestOK, TokenOK, Minted, Life, Forever, Awaiting, Minting, Final
<1>2. TokenOK'
  BY DEF TypeOK, TokenOK, RequestOK, ExchangeOK, Exchanging, Minted, Presenting, Minting
<1>3. RequestOK'
  BY DEF TypeOK, TokenOK, RequestOK, ExchangeOK, Exchanging, Minted, Presenting, Minting
<1>4. ExchangeOK'
  BY DEF TypeOK, TokenOK, RequestOK, ExchangeOK, Exchanging, Minted, Presenting, Minting
<1>5. SingleUse'
  BY DEF TypeOK, TokenOK, RequestOK, ExchangeOK, Exchanging, Minted, Presenting, Minting, SingleUse
<1>6. Rotated'
  BY DEF TypeOK, TokenOK, RequestOK, ExchangeOK, Exchanging, Minted, Presenting, Minting, Rotated
<1>7. QED
  BY <1>1, <1>2, <1>3, <1>4, <1>5, <1>6

LEMMA RefreshGetRotation ==
  ASSUME NEW r \in Requests, NEW t \in Tokens, RotationInv, RefreshGet(r, t)
  PROVE  RotationInv'
<1> USE TokenAssumption DEF RotationInv, RefreshGet, Goto, Live, Born, redis, locals, history
<1>1. TypeOK'
  BY DEF TypeOK, Held, RequestOK, TokenOK, Minted, Life, Forever, Awaiting, Minting, Final
<1>2. TokenOK'
  BY DEF Held, TypeOK, TokenOK, RequestOK, ExchangeOK, Exchanging, Minted, Presenting, Minting
<1>3. RequestOK'
  BY DEF Held, TypeOK, TokenOK, RequestOK, ExchangeOK, Exchanging, Minted, Presenting, Minting
<1>4. ExchangeOK'
  BY DEF Held, TypeOK, TokenOK, RequestOK, ExchangeOK, Exchanging, Minted, Presenting, Minting
<1>5. SingleUse'
  BY DEF Held, TypeOK, TokenOK, RequestOK, ExchangeOK, Exchanging, Minted, Presenting, Minting, SingleUse
<1>6. Rotated'
  BY DEF Held, TypeOK, TokenOK, RequestOK, ExchangeOK, Exchanging, Minted, Presenting, Minting, Rotated
<1>7. QED
  BY <1>1, <1>2, <1>3, <1>4, <1>5, <1>6

LEMMA RefreshDelRotation ==
  ASSUME NEW r \in Requests, RotationInv, RefreshDel(r)
  PROVE  RotationInv'
<1> USE TokenAssumption DEF RotationInv, RefreshDel, Goto, Live, Born, redis, locals, history
<1>1. TypeOK'
  BY DEF TypeOK, RequestOK, Presenting, Life, Forever, Awaiting, Minting, Final
<1>2. TokenOK'
  BY DEF TypeOK, TokenOK, RequestOK, ExchangeOK, Exchanging, Minted, Presenting, Minting
<1>3. RequestOK'
  BY DEF TypeOK, TokenOK, RequestOK, ExchangeOK, Exchanging, Minted, Presenting, Minting
<1>4. ExchangeOK'
  BY DEF Rotated, TypeOK, TokenOK, RequestOK, ExchangeOK, Exchanging, Minted, Presenting, Minting
<1>5. SingleUse'
  BY DEF TypeOK, TokenOK, RequestOK, ExchangeOK, Exchanging, Minted, Presenting, Minting, SingleUse
<1>6. Rotated'
  BY DEF TypeOK, TokenOK, RequestOK, ExchangeOK, Exchanging, Minted, Presenting, Minting, Rotated
<1>7. QED
  BY <1>1, <1>2, <1>3, <1>4, <1>5, <1>6

LEMMA RefreshSRemRotation ==
  ASSUME NEW r \in Requests, RotationInv, RefreshSRem(r)
  PROVE  RotationInv'
<1> USE TokenAssumption DEF RotationInv, RefreshSRem, Goto, Live, Born, redis, locals, history
<1>1. TypeOK'
  BY DEF TypeOK, RemoveMember, RequestOK, TokenOK, Minted, Life, Forever, Awaiting, Minting, Final
<1>2. TokenOK'
  BY DEF RemoveMember, TypeOK, TokenOK, RequestOK, ExchangeOK, Exchanging, Minted, Presenting, Minting
<1>3. RequestOK'
  BY DEF RemoveMember, TypeOK, TokenOK, RequestOK, ExchangeOK, Exchanging, Minted, Presenting, Minting
<1>4. ExchangeOK'
  BY DEF RemoveMember, TypeOK, TokenOK, RequestOK, ExchangeOK, Exchanging, Minted, Presenting, Minting
<1>5. SingleUse'
  BY DEF RemoveMember, TypeOK, TokenOK, RequestOK, ExchangeOK, Exchanging, Minted, Presenting, Minting, SingleUse
<1>6. Rotated'
  BY DEF RemoveMember, TypeOK, TokenOK, RequestOK, ExchangeOK, Exchanging, Minted, Presenting, Minting, Rotated
<1>7. QED
  BY <1>1, <1>2, <1>3, <1>4, <1>5, <1>6

LEMMA RevokeGetRotation ==
  ASSUME NEW r \in Requests, NEW t \in Tokens, RotationInv, RevokeGet(r, t)
  PROVE  RotationInv'
<1> USE TokenAssumption DEF RotationInv, RevokeGet, Goto, Live, Born, redis, locals, history
<1>1. TypeOK'
  BY DEF TypeOK, Held, RequestOK, TokenOK, Minted, Life, Forever, Awaiting, Minting, Final
<1>2. TokenOK'
  BY DEF Held, TypeOK, TokenOK, RequestOK, ExchangeOK, Exchanging, Minted, Presenting, Minting
<1>3. RequestOK'
  BY DEF Held, TypeOK, TokenOK, RequestOK, ExchangeOK, Exchanging, Minted, Presenting, Minting
<1>4. ExchangeOK'
  BY DEF Held, TypeOK, TokenOK, RequestOK, ExchangeOK, Exchanging, Minted, Presenting, Minting
<1>5. SingleUse'
  BY DEF Held, TypeOK, TokenOK, RequestOK, ExchangeOK, Exchanging, Minted, Presenting, Minting, SingleUse
<1>6. Rotated'
  BY DEF Held, TypeOK, TokenOK, RequestOK, ExchangeOK, Exchanging, Minted, Presenting, Minting, Rotated
<1>7. QED
  BY <1>1, <1>2, <1>3, <1>4, <1>5, <1>6

LEMMA CallRevokeRotation ==
  ASSUME NEW r \in Requests, NEW t \in Tokens, RotationInv, CallRevoke(r, t)
  PROVE  RotationInv'
<1> USE TokenAssumption DEF RotationInv, CallRevoke, Goto, Live, Born, redis, locals, history
<1>1. TypeOK'
  BY DEF TypeOK, Held, RequestOK, TokenOK, Minted, Life, Forever, Awaiting, Minting, Final
<1>2. TokenOK'
  BY DEF Held, TypeOK, TokenOK, RequestOK, ExchangeOK, Exchanging, Minted, Presenting, Minting
<1>3. RequestOK'
  BY DEF Held, TypeOK, TokenOK, RequestOK, ExchangeOK, Exchanging, Minted, Presenting, Minting
<1>4. ExchangeOK'
  BY DEF Held, TypeOK, TokenOK, RequestOK, ExchangeOK, Exchanging, Minted, Presenting, Minting
<1>5. SingleUse'
  BY DEF Held, TypeOK, TokenOK, RequestOK, ExchangeOK, Exchanging, Minted, Presenting, Minting, SingleUse
<1>6. Rotated'
  BY DEF Held, TypeOK, TokenOK, RequestOK, ExchangeOK, Exchanging, Minted, Presenting, Minting, Rotated
<1>7. QED
  BY <1>1, <1>2, <1>3, <1>4, <1>5, <1>6

LEMMA RevokeDelRotation ==
  ASSUME NEW r \in Requests, RotationInv, RevokeDel(r)
  PROVE  RotationInv'
<1> USE TokenAssumption DEF RotationInv, RevokeDel, Goto, Live, Born, redis, locals, history
<1>1. TypeOK'
  BY DEF TypeOK, RequestOK, Presenting, Life, Forever, Awaiting, Minting, Final
<1>2. TokenOK'
  BY DEF TypeOK, TokenOK, RequestOK, ExchangeOK, Exchanging, Minted, Presenting, Minting
<1>3. RequestOK'
  BY DEF TypeOK, TokenOK, RequestOK, ExchangeOK, Exchanging, Minted, Presenting, Minting
<1>4. ExchangeOK'
  BY DEF TypeOK, TokenOK, RequestOK, ExchangeOK, Exchanging, Minted, Presenting, Minting
<1>5. SingleUse'
  BY DEF TypeOK, TokenOK, RequestOK, ExchangeOK, Exchanging, Minted, Presenting, Minting, SingleUse
<1>6. Rotated'
  BY DEF TypeOK, TokenOK, RequestOK, ExchangeOK, Exchanging, Minted, Presenting, Minting, Rotated
<1>7. QED
  BY <1>1, <1>2, <1>3, <1>4, <1>5, <1>6

LEMMA RevokeSRemRotation ==
  ASSUME NEW r \in Requests, RotationInv, RevokeSRem(r)
  PROVE  RotationInv'
<1> USE TokenAssumption DEF RotationInv, RevokeSRem, Goto, Live, Born, redis, locals, history
<1>1. TypeOK'
  BY DEF TypeOK, RemoveMember, RequestOK, TokenOK, Minted, Life, Forever, Awaiting, Minting, Final
<1>2. TokenOK'
  BY DEF RemoveMember, TypeOK, TokenOK, RequestOK, ExchangeOK, Exchanging, Minted, Presenting, Minting
<1>3. RequestOK'
  BY DEF RemoveMember, TypeOK, TokenOK, RequestOK, ExchangeOK, Exchanging, Minted, Presenting, Minting
<1>4. ExchangeOK'
  BY DEF RemoveMember, TypeOK, TokenOK, RequestOK, ExchangeOK, Exchanging, Minted, Presenting, Minting
<1>5. SingleUse'
  BY DEF RemoveMember, TypeOK, TokenOK, RequestOK, ExchangeOK, Exchanging, Minted, Presenting, Minting, SingleUse
<1>6. Rotated'
  BY DEF RemoveMember, TypeOK, TokenOK, RequestOK, ExchangeOK, Exchanging, Minted, Presenting, Minting, Rotated
<1>7. QED
  BY <1>1, <1>2, <1>3, <1>4, <1>5, <1>6

LEMMA RevokeAllSMembersRotation ==
  ASSUME NEW r \in Requests, NEW u \in Users, RotationInv, RevokeAllSMembers(r, u)
  PROVE  RotationInv'
<1> USE TokenAssumption DEF RotationInv, RevokeAllSMembers, Goto, Live, Born, redis, locals, history
<1>1. TypeOK'
  BY DEF TypeOK, Held, RequestOK, TokenOK, Minted, Life, Forever, Awaiting, Minting, Final
<1>2. TokenOK'
  BY DEF Held, TypeOK, TokenOK, RequestOK, ExchangeOK, Exchanging, Minted, Presenting, Minting
<1>3. RequestOK'
  BY DEF Held, TypeOK, TokenOK, RequestOK, ExchangeOK, Exchanging, Minted, Presenting, Minting
<1>4. ExchangeOK'
  BY DEF Held, TypeOK, TokenOK, RequestOK, ExchangeOK, Exchanging, Minted, Presenting, Minting
<1>5. SingleUse'
  BY DEF Held, TypeOK, TokenOK, RequestOK, ExchangeOK, Exchanging, Minted, Presenting, Minting, SingleUse
<1>6. Rotated'
  BY DEF Held, TypeOK, TokenOK, RequestOK, ExchangeOK, Exchanging, Minted, Presenting, Minting, Rotated
<1>7. QED
  BY <1>1, <1>2, <1>3, <1>4, <1>5, <1>6

LEMMA RevokeAllDelTokenRotation ==
  ASSUME NEW r \in Requests, NEW t \in Tokens, RotationInv, RevokeAllDelToken(r, t)
  PROVE  RotationInv'
<1> USE TokenAssumption DEF RotationInv, RevokeAllDelToken, Goto, Live, Born, redis, locals, history
<1>1. TypeOK'
  BY DEF TypeOK, RequestOK, TokenOK, Minted, Life, Forever, Awaiting, Minting, Final
<1>2. TokenOK'
  BY DEF TypeOK, TokenOK, RequestOK, ExchangeOK, Exchanging, Minted, Presenting, Minting
<1>3. RequestOK'
  BY DEF TypeOK, TokenOK, RequestOK, ExchangeOK, Exchanging, Minted, Presenting, Minting
<1>4. ExchangeOK'
  BY DEF TypeOK, TokenOK, RequestOK, ExchangeOK, Exchanging, Minted, Presenting, Minting
<1>5. SingleUse'
  BY DEF TypeOK, TokenOK, RequestOK, ExchangeOK, Exchanging, Minted, Presenting, Minting, SingleUse
<1>6. Rotated'
  BY DEF TypeOK, TokenOK, RequestOK, ExchangeOK, Exchanging, Minted, Presenting, Minting, Rotated
<1>7. QED
  BY <1>1, <1>2, <1>3, <1>4, <1>5, <1>6

LEMMA RevokeAllDelIndexRotation ==
  ASSUME NEW r \in Requests, RotationInv, RevokeAllDelIndex(r)
  PROVE  RotationInv'
<1> USE TokenAssumption DEF RotationInv, RevokeAllDelIndex, Goto, Unfound, Live, Born, redis, locals, history
<1>1. TypeOK'
  BY DEF TypeOK, RequestOK, TokenOK, Minted, Life, Forever, Awaiting, Minting, Final
<1>2. TokenOK'
  BY DEF TypeOK, TokenOK, RequestOK, ExchangeOK, Exchanging, Minted, Presenting, Minting
<1>3. RequestOK'
  BY DEF TypeOK, TokenOK, RequestOK, ExchangeOK, Exchanging, Minted, Presenting, Minting
<1>4. ExchangeOK'
  BY DEF TypeOK, TokenOK, RequestOK, ExchangeOK, Exchanging, Minted, Presenting, Minting
<1>5. SingleUse'
  BY DEF TypeOK, TokenOK, RequestOK, ExchangeOK, Exchanging, Minted, Presenting, Minting, SingleUse
<1>6. Rotated'
  BY DEF TypeOK, TokenOK, RequestOK, ExchangeOK, Exchanging, Minted, Presenting, Minting, Rotated
<1>7. QED
  BY <1>1, <1>2, <1>3, <1>4, <1>5, <1>6

LEMMA FailRotation ==
  ASSUME NEW r \in Requests, RotationInv, Fail(r)
  PROVE  RotationInv'
<1> USE TokenAssumption DEF RotationInv, Fail, Goto, Live, Born, redis, locals, history
<1>1. TypeOK'
  BY DEF TypeOK, RequestOK, TokenOK, Minted, Life, Forever, Awaiting, Minting, Final
<1>2. TokenOK'
  BY DEF TypeOK, TokenOK, RequestOK, ExchangeOK, Exchanging, Minted, Presenting, Minting
<1>3. RequestOK'
  BY DEF TypeOK, TokenOK, RequestOK, ExchangeOK, Exchanging, Minted, Presenting, Minting
<1>4. ExchangeOK'
  BY DEF TypeOK, TokenOK, RequestOK, ExchangeOK, Exchanging, Minted, Presenting, Minting
<1>5. SingleUse'
  BY DEF TypeOK, TokenOK, RequestOK, ExchangeOK, Exchanging, Minted, Presenting, Minting, SingleUse
<1>6. Rotated'
  BY DEF TypeOK, TokenOK, RequestOK, ExchangeOK, Exchanging, Minted, Presenting, Minting, Rotated
<1>7. QED
  BY <1>1, <1>2, <1>3, <1>4, <1>5, <1>6

LEMMA TickRotation == RotationInv /\ Tick => RotationInv'
<1> SUFFICES ASSUME RotationInv, Tick PROVE RotationInv'
  OBVIOUS
<1> USE TokenAssumption DEF RotationInv, Tick, Older, Live, Born, locals
<1>1. TypeOK'
  BY DEF TypeOK, Life, Forever, Unsettled, RequestOK, Minted
<1>2. TokenOK'
  BY DEF TokenOK, TypeOK, Life, Forever
<1>3. RequestOK'
  BY DEF RequestOK, Presenting, Minted
<1>4. ExchangeOK'
  BY DEF ExchangeOK, Exchanging, TypeOK
<1>5. SingleUse' /\ Rotated'
  BY DEF SingleUse, Rotated, TypeOK
<1>6. QED
  BY <1>1, <1>2, <1>3, <1>4, <1>5

LEMMA RotationStep == RotationInv /\ [Next]_vars => RotationInv'
<1> SUFFICES ASSUME RotationInv, [Next]_vars PROVE RotationInv'
  OBVIOUS
<1>1. ASSUME NEW r \in Requests, Call(r) PROVE RotationInv'
  BY <1>1, CallGenerateRotation, RevokeAllSMembersRotation, RefreshGetRotation,
     RevokeGetRotation, CallRevokeRotation DEF Call
<1>2. ASSUME NEW r \in Requests, Continue(r) PROVE RotationInv'
  BY <1>2, GenerateSetRotation, RevokeAllDelTokenRotation, GenerateSAddRotation,
     GenerateExpireRotation, RefreshDelRotation, RefreshSRemRotation, RevokeDelRotation,
     RevokeSRemRotation, RevokeAllDelIndexRotation DEF Continue
<1>3. ASSUME NEW r \in Requests, Fail(r) PROVE RotationInv'
  BY <1>3, FailRotation
<1>4. CASE Tick
  BY <1>4, TickRotation
<1>5. CASE UNCHANGED vars
  BY <1>5 DEF vars, redis, locals, history, RotationInv, TypeOK, TokenOK, RequestOK, ExchangeOK,
     SingleUse, Rotated, Live, Born, Minted, Presenting, Exchanging
<1>6. QED
  BY <1>1, <1>2, <1>3, <1>4, <1>5 DEF Next

\* The inductive invariant of rotation holds in every reachable state.
THEOREM RotationSafe == Spec => []RotationInv
  BY RotationInit, RotationStep, PTL DEF Spec

\* Every variable of the service keeps its type, and Redis holds no empty index.
THEOREM TypeCorrect == Spec => []TypeOK
  BY RotationSafe, PTL DEF RotationInv

\* However the requests interleave, time out or fail, a refresh token is exchanged
\* for at most one pair: the DEL that decides (refreshTokens) has one winner.
THEOREM SingleUseSafe == Spec => []SingleUse
  BY RotationSafe, PTL DEF RotationInv

\* A token and the one issued in exchange for it are never valid together.
THEOREM RotatedSafe == Spec => []Rotated
  BY RotationSafe, PTL DEF RotationInv

--------------------------------------------------------------------------------
(* The service implements the ledger.                                          *)

LEMMA LedgerInit == Init => Ledger!Init
  BY DEF Init, Ledger!Init, Born, Live, Exchanging

\* A step that touches no key and starts or ends no exchange is a stutter.
LEMMA LedgerStutter ==
  ASSUME UNCHANGED <<value, life, parent>>, Exchanging' = Exchanging,
         \A r \in Exchanging : token'[r] = token[r]
  PROVE  UNCHANGED Ledger!ledger
<1>1. {token[r] : r \in Exchanging}' = {token[r] : r \in Exchanging}
  OBVIOUS
<1>2. QED
  BY <1>1 DEF Ledger!ledger, Born, Live

\* A step that only removes keys, and starts or ends no exchange, is a Withdraw.
LEMMA LedgerWithdraw ==
  ASSUME RotationInv, UNCHANGED <<value, parent>>, Exchanging' = Exchanging,
         \A r \in Exchanging : token'[r] = token[r],
         \A t \in Tokens : Live(t)' => Live(t)
  PROVE  Ledger!Next
<1> DEFINE S == {t \in Tokens : Live(t) /\ ~Live(t)'}
<1>1. {token[r] : r \in Exchanging}' = {token[r] : r \in Exchanging}
  OBVIOUS
<1>2. \A t \in S : Born(t)
  BY DEF RotationInv, TokenOK
<1>3. Ledger!Withdraw(S)
  BY <1>1, <1>2 DEF Ledger!Withdraw, Born
<1>4. S \in SUBSET Tokens
  OBVIOUS
<1>5. QED
  BY <1>3, <1>4 DEF Ledger!Next

\* The SETEX of a login grants a token; that of a refresh replaces the one spent.
LEMMA LedgerGenerateSet ==
  ASSUME RotationInv, NEW r \in Requests, NEW t \in Tokens, GenerateSet(r, t)
  PROVE  Ledger!Next
<1> USE TokenAssumption DEF GenerateSet, Goto
<1>1. user[r] \in Users /\ token[r] \in Tokens \cup {Login}
  BY DEF RotationInv, RequestOK, Minting
<1>2. Ledger!Issue(t, user[r])
  <2>1. Live(t)' /\ Born(t)' /\ ~Born(t)
    BY <1>1 DEF RotationInv, TypeOK, Live, Born, StoredLife, Forever
  <2>2. \A x \in Tokens \ {t} : (Live(x)' <=> Live(x)) /\ (Born(x)' <=> Born(x))
    BY DEF RotationInv, TypeOK, Live, Born
  <2>3. QED
    BY <2>1, <2>2 DEF Ledger!Issue
<1>3. CASE token[r] = Login
  <2>1. Exchanging' = Exchanging
    BY <1>3 DEF RotationInv, TypeOK, Exchanging
  <2>2. {token[q] : q \in Exchanging}' = {token[q] : q \in Exchanging}
    BY <2>1
  <2>3. Ledger!Grant(t, user[r])
    BY <1>2, <2>2 DEF Ledger!Grant
  <2>4. QED
    BY <1>1, <2>3 DEF Ledger!Next
<1>4. CASE token[r] \in Tokens
  <2>1. r \in Exchanging /\ user[r] = value[token[r]]
    BY <1>4 DEF RotationInv, ExchangeOK, Exchanging
  <2>2. Exchanging' = Exchanging \ {r}
    BY DEF RotationInv, TypeOK, Exchanging
  <2>3. \A q \in Exchanging \ {r} : token[q] # token[r]
    BY <2>1 DEF RotationInv, ExchangeOK
  <2>4. {token[q] : q \in Exchanging}' = {token[q] : q \in Exchanging} \ {token[r]}
    BY <2>1, <2>2, <2>3
  <2>5. Ledger!Replace(token[r], t)
    BY <1>2, <2>1, <2>4 DEF Ledger!Replace
  <2>6. QED
    BY <1>4, <2>5 DEF Ledger!Next
<1>5. QED
  BY <1>1, <1>3, <1>4

\* The DEL of a refresh exchanges the token if it was there, else nothing happens.
LEMMA LedgerRefreshDel ==
  ASSUME RotationInv, NEW r \in Requests, RefreshDel(r)
  PROVE  [Ledger!Next]_(Ledger!ledger)
<1> USE TokenAssumption DEF RefreshDel, Goto, history
<1>1. token[r] \in Tokens /\ Born(token[r])
  BY DEF RotationInv, RequestOK, Presenting
<1>2. CASE Live(token[r])
  <2>1. Exchanging' = Exchanging \cup {r}
    BY <1>1, <1>2 DEF RotationInv, TypeOK, Exchanging
  <2>2. {token[q] : q \in Exchanging}' = {token[q] : q \in Exchanging} \cup {token[r]}
    BY <2>1
  <2>3. \A x \in Tokens : Live(x)' <=> (Live(x) /\ x # token[r])
    BY <1>1 DEF RotationInv, TypeOK, Live
  <2>4. Ledger!Exchange(token[r])
    BY <1>1, <1>2, <2>2, <2>3 DEF Ledger!Exchange, Born
  <2>5. Ledger!Next
    BY <1>1, <2>4 DEF Ledger!Next, Ledger!Exchange
  <2>6. QED
    BY <2>5
<1>3. CASE ~Live(token[r])
  <2>1. life' = life
    BY <1>1, <1>3 DEF RotationInv, TypeOK, Live, Life
  <2>2. Exchanging' = Exchanging
    BY <1>3 DEF RotationInv, TypeOK, Exchanging
  <2>3. QED
    BY <2>1, <2>2, LedgerStutter
<1>4. QED
  BY <1>2, <1>3

\* A refresh that breaks off between its DEL and its SETEX forfeits the pair.
LEMMA LedgerFail ==
  ASSUME RotationInv, NEW r \in Requests, Fail(r)
  PROVE  [Ledger!Next]_(Ledger!ledger)
<1> USE TokenAssumption DEF Fail, Goto, redis, history
<1>1. CASE r \in Exchanging
  <2>1. Exchanging' = Exchanging \ {r}
    BY DEF RotationInv, TypeOK, Exchanging
  <2>2. \A q \in Exchanging \ {r} : token[q] # token[r]
    BY <1>1 DEF RotationInv, ExchangeOK
  <2>3. {token[q] : q \in Exchanging}' = {token[q] : q \in Exchanging} \ {token[r]}
    BY <1>1, <2>1, <2>2
  <2>4. Ledger!Forfeit(token[r])
    BY <1>1, <2>3 DEF Ledger!Forfeit, Born, Live
  <2>5. token[r] \in Tokens
    BY <1>1 DEF Exchanging
  <2>6. Ledger!Next
    BY <2>4, <2>5 DEF Ledger!Next, Ledger!Forfeit
  <2>7. QED
    BY <2>6
<1>2. CASE r \notin Exchanging
  <2>1. Exchanging' = Exchanging
    BY <1>2 DEF RotationInv, TypeOK, Exchanging
  <2>2. QED
    BY <2>1, LedgerStutter
<1>3. QED
  BY <1>1, <1>2

LEMMA LedgerStep == RotationInv /\ [Next]_vars => [Ledger!Next]_(Ledger!ledger)
<1> SUFFICES ASSUME RotationInv, [Next]_vars
             PROVE  [Ledger!Next]_(Ledger!ledger)
  OBVIOUS
<1> USE TokenAssumption DEF Goto, redis, locals, history
<1>1. ASSUME NEW r \in Requests, Call(r) PROVE [Ledger!Next]_(Ledger!ledger)
  <2>1. UNCHANGED <<value, life, parent>>
    BY <1>1 DEF Call, CallGenerate, RevokeAllSMembers, RefreshGet, RevokeGet, CallRevoke
  <2>2. r \notin Exchanging
    BY <1>1 DEF Call, CallGenerate, RevokeAllSMembers, RefreshGet, RevokeGet, CallRevoke, Exchanging
  <2>3. Exchanging' = Exchanging /\ \A q \in Requests \ {r} : token'[q] = token[q]
    BY <1>1 DEF RotationInv, TypeOK, Call, CallGenerate, RevokeAllSMembers, RefreshGet, RevokeGet,
       CallRevoke, Exchanging
  <2>4. QED
    BY <2>1, <2>2, <2>3, LedgerStutter DEF Exchanging
<1>2. ASSUME NEW r \in Requests, Continue(r) PROVE [Ledger!Next]_(Ledger!ledger)
  <2>1. CASE \E t \in Tokens : GenerateSet(r, t)
    BY <2>1, LedgerGenerateSet
  <2>2. CASE RefreshDel(r)
    BY <2>2, LedgerRefreshDel
  <2>3. CASE GenerateSAdd(r) \/ GenerateExpire(r) \/ RefreshSRem(r) \/ RevokeSRem(r) \/ RevokeAllDelIndex(r)
    <3>1. UNCHANGED <<value, life, parent, token>>
      BY <2>3 DEF GenerateSAdd, GenerateExpire, RefreshSRem, RevokeSRem, RevokeAllDelIndex
    <3>2. Exchanging' = Exchanging
      BY <2>3 DEF RotationInv, TypeOK, Exchanging, GenerateSAdd, GenerateExpire, RefreshSRem,
         RevokeSRem, RevokeAllDelIndex
    <3>3. QED
      BY <3>1, <3>2, LedgerStutter
  <2>4. CASE RevokeDel(r)
    <3>1. \A t \in Tokens : Live(t)' => Live(t)
      BY <2>4 DEF RotationInv, TypeOK, RevokeDel, Live
    <3>2. Exchanging' = Exchanging
      BY <2>4 DEF RotationInv, TypeOK, Exchanging, RevokeDel
    <3>3. QED
      BY <2>4, <3>1, <3>2, LedgerWithdraw DEF RevokeDel
  <2>5. ASSUME NEW t \in Tokens, RevokeAllDelToken(r, t) PROVE Ledger!Next
    <3>1. \A x \in Tokens : Live(x)' => Live(x)
      BY <2>5 DEF RotationInv, TypeOK, RevokeAllDelToken, Live
    <3>2. Exchanging' = Exchanging
      BY <2>5 DEF Exchanging, RevokeAllDelToken
    <3>3. QED
      BY <2>5, <3>1, <3>2, LedgerWithdraw DEF RevokeAllDelToken
  <2>6. QED
    BY <1>2, <2>1, <2>2, <2>3, <2>4, <2>5 DEF Continue
<1>3. ASSUME NEW r \in Requests, Fail(r) PROVE [Ledger!Next]_(Ledger!ledger)
  BY <1>3, LedgerFail
<1>4. CASE Tick
  <2>1. \A t \in Tokens : Live(t)' => Live(t)
    BY <1>4 DEF RotationInv, TypeOK, Tick, Live, Older, Life
  <2>2. Exchanging' = Exchanging
    BY <1>4 DEF Exchanging, Tick
  <2>3. QED
    BY <1>4, <2>1, <2>2, LedgerWithdraw DEF Tick
<1>5. CASE UNCHANGED vars
  BY <1>5, LedgerStutter DEF vars, Exchanging
<1>6. QED
  BY <1>1, <1>2, <1>3, <1>4, <1>5 DEF Next

\* TokenService implements the ledger: every pair it issues answers to a login or
\* to exactly one token of the same user, which died in the exchange for good.
THEOREM ServiceImplementsLedger == Spec => ImplementsLedger
  BY LedgerInit, LedgerStep, RotationSafe, PTL DEF Spec, ImplementsLedger, Ledger!Spec

--------------------------------------------------------------------------------
(* The index, when tokens have a positive TTL.                                 *)

LEMMA IndexInit == TTL > 0 /\ Init => IndexInv
  BY TokenAssumption DEF Init, IndexInv, IndexingOK, IndexOutlives, Listed, RevokeAllReaches,
     Held, Live, Minted

\* A token is held if a request that minted it has answered.
LEMMA HeldMember ==
    /\ \A t : t \in Held <=> \E r \in Requests : pc[r] = "issued" /\ fresh[r] = t
    /\ \A t : t \in Held' <=> \E r \in Requests : pc'[r] = "issued" /\ fresh'[r] = t
  BY DEF Held

LEMMA CallGenerateIndex ==
  ASSUME TTL > 0, NEW r \in Requests, NEW u \in Users, RotationInv, RotationInv', IndexInv, CallGenerate(r, u)
  PROVE  IndexInv'
<1> USE TokenAssumption DEF RotationInv, IndexInv, CallGenerate, Goto, redis, locals, history
<1>1. IndexingOK'
  BY HeldMember DEF Listed, TypeOK, TokenOK, RequestOK, ExchangeOK, IndexingOK, Exchanging, Minted, Presenting, Minting, Live, Born, Life, Forever
<1>2. IndexOutlives'
  BY HeldMember DEF IndexOutlives, TypeOK, TokenOK, RequestOK, ExchangeOK, IndexingOK, Exchanging, Minted, Presenting, Minting, Live, Born, Life, Forever
<1>3. Listed'
  BY HeldMember DEF Listed, TypeOK, TokenOK, RequestOK, ExchangeOK, IndexingOK, Exchanging, Minted, Presenting, Minting, Live, Born, Life, Forever
<1>4. RevokeAllReaches'
  BY HeldMember DEF RevokeAllReaches, TypeOK, TokenOK, RequestOK, ExchangeOK, IndexingOK, Exchanging, Minted, Presenting, Minting, Live, Born, Life, Forever
<1>5. QED
  BY <1>1, <1>2, <1>3, <1>4

LEMMA GenerateSetIndex ==
  ASSUME TTL > 0, NEW r \in Requests, NEW t \in Tokens, RotationInv, RotationInv', IndexInv, GenerateSet(r, t)
  PROVE  IndexInv'
<1> USE TokenAssumption DEF RotationInv, IndexInv, GenerateSet, Goto, redis, locals, history
<1>1. IndexingOK'
  BY HeldMember DEF Listed, TypeOK, TokenOK, RequestOK, ExchangeOK, IndexingOK, Exchanging, Minted, Presenting, Minting, Live, Born, Life, Forever, StoredLife
<1>2. IndexOutlives'
  BY HeldMember DEF IndexOutlives, TypeOK, TokenOK, RequestOK, ExchangeOK, IndexingOK, Exchanging, Minted, Presenting, Minting, Live, Born, Life, Forever, StoredLife
<1>3. Listed'
  BY HeldMember DEF Listed, TypeOK, TokenOK, RequestOK, ExchangeOK, IndexingOK, Exchanging, Minted, Presenting, Minting, Live, Born, Life, Forever, StoredLife
<1>4. RevokeAllReaches'
  BY HeldMember DEF RevokeAllReaches, TypeOK, TokenOK, RequestOK, ExchangeOK, IndexingOK, Exchanging, Minted, Presenting, Minting, Live, Born, Life, Forever, StoredLife
<1>5. QED
  BY <1>1, <1>2, <1>3, <1>4

LEMMA GenerateSAddIndex ==
  ASSUME TTL > 0, NEW r \in Requests, RotationInv, RotationInv', IndexInv, GenerateSAdd(r)
  PROVE  IndexInv'
<1> USE TokenAssumption DEF RotationInv, IndexInv, GenerateSAdd, Goto, redis, locals, history
<1>1. IndexingOK'
  BY HeldMember DEF Listed, TypeOK, TokenOK, RequestOK, ExchangeOK, IndexingOK, Exchanging, Minted, Presenting, Minting, Live, Born, Life, Forever
<1>2. IndexOutlives'
  BY HeldMember DEF IndexOutlives, TypeOK, TokenOK, RequestOK, ExchangeOK, IndexingOK, Exchanging, Minted, Presenting, Minting, Live, Born, Life, Forever
<1>3. Listed'
  BY HeldMember DEF Listed, TypeOK, TokenOK, RequestOK, ExchangeOK, IndexingOK, Exchanging, Minted, Presenting, Minting, Live, Born, Life, Forever
<1>4. RevokeAllReaches'
  BY HeldMember DEF RevokeAllReaches, TypeOK, TokenOK, RequestOK, ExchangeOK, IndexingOK, Exchanging, Minted, Presenting, Minting, Live, Born, Life, Forever
<1>5. QED
  BY <1>1, <1>2, <1>3, <1>4

LEMMA GenerateExpireIndex ==
  ASSUME TTL > 0, NEW r \in Requests, RotationInv, RotationInv', IndexInv, GenerateExpire(r)
  PROVE  IndexInv'
<1> USE TokenAssumption DEF RotationInv, IndexInv, GenerateExpire, Goto, redis, locals, history
<1>1. IndexingOK'
  BY HeldMember DEF Listed, TypeOK, TokenOK, RequestOK, ExchangeOK, IndexingOK, Exchanging, Minted, Presenting, Minting, Live, Born, Life, Forever
<1>2. IndexOutlives'
  BY HeldMember DEF IndexOutlives, TypeOK, TokenOK, RequestOK, ExchangeOK, IndexingOK, Exchanging, Minted, Presenting, Minting, Live, Born, Life, Forever
<1>3. Listed'
  BY HeldMember DEF Listed, TypeOK, TokenOK, RequestOK, ExchangeOK, IndexingOK, Exchanging, Minted, Presenting, Minting, Live, Born, Life, Forever
<1>4. RevokeAllReaches'
  BY HeldMember DEF RevokeAllReaches, TypeOK, TokenOK, RequestOK, ExchangeOK, IndexingOK, Exchanging, Minted, Presenting, Minting, Live, Born, Life, Forever
<1>5. QED
  BY <1>1, <1>2, <1>3, <1>4

LEMMA RefreshGetIndex ==
  ASSUME TTL > 0, NEW r \in Requests, NEW t \in Tokens, RotationInv, RotationInv', IndexInv, RefreshGet(r, t)
  PROVE  IndexInv'
<1> USE TokenAssumption DEF RotationInv, IndexInv, RefreshGet, Goto, redis, locals, history
<1>1. IndexingOK'
  BY HeldMember DEF Listed, TypeOK, TokenOK, RequestOK, ExchangeOK, IndexingOK, Exchanging, Minted, Presenting, Minting, Live, Born, Life, Forever
<1>2. IndexOutlives'
  BY HeldMember DEF IndexOutlives, TypeOK, TokenOK, RequestOK, ExchangeOK, IndexingOK, Exchanging, Minted, Presenting, Minting, Live, Born, Life, Forever
<1>3. Listed'
  BY HeldMember DEF Listed, TypeOK, TokenOK, RequestOK, ExchangeOK, IndexingOK, Exchanging, Minted, Presenting, Minting, Live, Born, Life, Forever
<1>4. RevokeAllReaches'
  BY HeldMember DEF RevokeAllReaches, TypeOK, TokenOK, RequestOK, ExchangeOK, IndexingOK, Exchanging, Minted, Presenting, Minting, Live, Born, Life, Forever
<1>5. QED
  BY <1>1, <1>2, <1>3, <1>4

LEMMA RefreshDelIndex ==
  ASSUME TTL > 0, NEW r \in Requests, RotationInv, RotationInv', IndexInv, RefreshDel(r)
  PROVE  IndexInv'
<1> USE TokenAssumption DEF RotationInv, IndexInv, RefreshDel, Goto, redis, locals, history
<1>1. IndexingOK'
  BY HeldMember DEF Listed, TypeOK, TokenOK, RequestOK, ExchangeOK, IndexingOK, Exchanging, Minted, Presenting, Minting, Live, Born, Life, Forever
<1>2. IndexOutlives'
  BY HeldMember DEF IndexOutlives, TypeOK, TokenOK, RequestOK, ExchangeOK, IndexingOK, Exchanging, Minted, Presenting, Minting, Live, Born, Life, Forever
<1>3. Listed'
  BY HeldMember DEF Listed, TypeOK, TokenOK, RequestOK, ExchangeOK, IndexingOK, Exchanging, Minted, Presenting, Minting, Live, Born, Life, Forever
<1>4. RevokeAllReaches'
  BY HeldMember DEF RevokeAllReaches, TypeOK, TokenOK, RequestOK, ExchangeOK, IndexingOK, Exchanging, Minted, Presenting, Minting, Live, Born, Life, Forever
<1>5. QED
  BY <1>1, <1>2, <1>3, <1>4

LEMMA RefreshSRemIndex ==
  ASSUME TTL > 0, NEW r \in Requests, RotationInv, RotationInv', IndexInv, RefreshSRem(r)
  PROVE  IndexInv'
<1> USE TokenAssumption DEF RotationInv, IndexInv, RefreshSRem, Goto, redis, locals, history
<1>1. IndexingOK'
  BY HeldMember DEF Listed, TypeOK, TokenOK, RequestOK, ExchangeOK, IndexingOK, Exchanging, Minted, Presenting, Minting, Live, Born, Life, Forever, RemoveMember
<1>2. IndexOutlives'
  BY HeldMember DEF IndexOutlives, TypeOK, TokenOK, RequestOK, ExchangeOK, IndexingOK, Exchanging, Minted, Presenting, Minting, Live, Born, Life, Forever, RemoveMember
<1>3. Listed'
  BY HeldMember DEF Listed, TypeOK, TokenOK, RequestOK, ExchangeOK, IndexingOK, Exchanging, Minted, Presenting, Minting, Live, Born, Life, Forever, RemoveMember
<1>4. RevokeAllReaches'
  BY HeldMember DEF RevokeAllReaches, TypeOK, TokenOK, RequestOK, ExchangeOK, IndexingOK, Exchanging, Minted, Presenting, Minting, Live, Born, Life, Forever, RemoveMember
<1>5. QED
  BY <1>1, <1>2, <1>3, <1>4

LEMMA RevokeGetIndex ==
  ASSUME TTL > 0, NEW r \in Requests, NEW t \in Tokens, RotationInv, RotationInv', IndexInv, RevokeGet(r, t)
  PROVE  IndexInv'
<1> USE TokenAssumption DEF RotationInv, IndexInv, RevokeGet, Goto, redis, locals, history
<1>1. IndexingOK'
  BY HeldMember DEF Listed, TypeOK, TokenOK, RequestOK, ExchangeOK, IndexingOK, Exchanging, Minted, Presenting, Minting, Live, Born, Life, Forever
<1>2. IndexOutlives'
  BY HeldMember DEF IndexOutlives, TypeOK, TokenOK, RequestOK, ExchangeOK, IndexingOK, Exchanging, Minted, Presenting, Minting, Live, Born, Life, Forever
<1>3. Listed'
  BY HeldMember DEF Listed, TypeOK, TokenOK, RequestOK, ExchangeOK, IndexingOK, Exchanging, Minted, Presenting, Minting, Live, Born, Life, Forever
<1>4. RevokeAllReaches'
  BY HeldMember DEF RevokeAllReaches, TypeOK, TokenOK, RequestOK, ExchangeOK, IndexingOK, Exchanging, Minted, Presenting, Minting, Live, Born, Life, Forever
<1>5. QED
  BY <1>1, <1>2, <1>3, <1>4

LEMMA CallRevokeIndex ==
  ASSUME TTL > 0, NEW r \in Requests, NEW t \in Tokens, RotationInv, RotationInv', IndexInv, CallRevoke(r, t)
  PROVE  IndexInv'
<1> USE TokenAssumption DEF RotationInv, IndexInv, CallRevoke, Goto, redis, locals, history
<1>1. IndexingOK'
  BY HeldMember DEF Listed, TypeOK, TokenOK, RequestOK, ExchangeOK, IndexingOK, Exchanging, Minted, Presenting, Minting, Live, Born, Life, Forever
<1>2. IndexOutlives'
  BY HeldMember DEF IndexOutlives, TypeOK, TokenOK, RequestOK, ExchangeOK, IndexingOK, Exchanging, Minted, Presenting, Minting, Live, Born, Life, Forever
<1>3. Listed'
  BY HeldMember DEF Listed, TypeOK, TokenOK, RequestOK, ExchangeOK, IndexingOK, Exchanging, Minted, Presenting, Minting, Live, Born, Life, Forever
<1>4. RevokeAllReaches'
  BY HeldMember DEF RevokeAllReaches, TypeOK, TokenOK, RequestOK, ExchangeOK, IndexingOK, Exchanging, Minted, Presenting, Minting, Live, Born, Life, Forever
<1>5. QED
  BY <1>1, <1>2, <1>3, <1>4

LEMMA RevokeDelIndex ==
  ASSUME TTL > 0, NEW r \in Requests, RotationInv, RotationInv', IndexInv, RevokeDel(r)
  PROVE  IndexInv'
<1> USE TokenAssumption DEF RotationInv, IndexInv, RevokeDel, Goto, redis, locals, history
<1>1. IndexingOK'
  BY HeldMember DEF Listed, TypeOK, TokenOK, RequestOK, ExchangeOK, IndexingOK, Exchanging, Minted, Presenting, Minting, Live, Born, Life, Forever
<1>2. IndexOutlives'
  BY HeldMember DEF IndexOutlives, TypeOK, TokenOK, RequestOK, ExchangeOK, IndexingOK, Exchanging, Minted, Presenting, Minting, Live, Born, Life, Forever
<1>3. Listed'
  BY HeldMember DEF Listed, TypeOK, TokenOK, RequestOK, ExchangeOK, IndexingOK, Exchanging, Minted, Presenting, Minting, Live, Born, Life, Forever
<1>4. RevokeAllReaches'
  BY HeldMember DEF RevokeAllReaches, TypeOK, TokenOK, RequestOK, ExchangeOK, IndexingOK, Exchanging, Minted, Presenting, Minting, Live, Born, Life, Forever
<1>5. QED
  BY <1>1, <1>2, <1>3, <1>4

LEMMA RevokeSRemIndex ==
  ASSUME TTL > 0, NEW r \in Requests, RotationInv, RotationInv', IndexInv, RevokeSRem(r)
  PROVE  IndexInv'
<1> USE TokenAssumption DEF RotationInv, IndexInv, RevokeSRem, Goto, redis, locals, history
<1>1. IndexingOK'
  BY HeldMember DEF Listed, TypeOK, TokenOK, RequestOK, ExchangeOK, IndexingOK, Exchanging, Minted, Presenting, Minting, Live, Born, Life, Forever, RemoveMember
<1>2. IndexOutlives'
  BY HeldMember DEF IndexOutlives, TypeOK, TokenOK, RequestOK, ExchangeOK, IndexingOK, Exchanging, Minted, Presenting, Minting, Live, Born, Life, Forever, RemoveMember
<1>3. Listed'
  BY HeldMember DEF Listed, TypeOK, TokenOK, RequestOK, ExchangeOK, IndexingOK, Exchanging, Minted, Presenting, Minting, Live, Born, Life, Forever, RemoveMember
<1>4. RevokeAllReaches'
  BY HeldMember DEF RevokeAllReaches, TypeOK, TokenOK, RequestOK, ExchangeOK, IndexingOK, Exchanging, Minted, Presenting, Minting, Live, Born, Life, Forever, RemoveMember
<1>5. QED
  BY <1>1, <1>2, <1>3, <1>4

LEMMA RevokeAllSMembersIndex ==
  ASSUME TTL > 0, NEW r \in Requests, NEW u \in Users, RotationInv, RotationInv', IndexInv, RevokeAllSMembers(r, u)
  PROVE  IndexInv'
<1> USE TokenAssumption DEF RotationInv, IndexInv, RevokeAllSMembers, Goto, redis, locals, history
<1>1. IndexingOK'
  BY HeldMember DEF Listed, TypeOK, TokenOK, RequestOK, ExchangeOK, IndexingOK, Exchanging, Minted, Presenting, Minting, Live, Born, Life, Forever
<1>2. IndexOutlives'
  BY HeldMember DEF IndexOutlives, TypeOK, TokenOK, RequestOK, ExchangeOK, IndexingOK, Exchanging, Minted, Presenting, Minting, Live, Born, Life, Forever
<1>3. Listed'
  BY HeldMember DEF Listed, TypeOK, TokenOK, RequestOK, ExchangeOK, IndexingOK, Exchanging, Minted, Presenting, Minting, Live, Born, Life, Forever
<1>4. RevokeAllReaches'
  BY HeldMember DEF RevokeAllReaches, TypeOK, TokenOK, RequestOK, ExchangeOK, IndexingOK, Exchanging, Minted, Presenting, Minting, Live, Born, Life, Forever
<1>5. QED
  BY <1>1, <1>2, <1>3, <1>4

LEMMA RevokeAllDelTokenIndex ==
  ASSUME TTL > 0, NEW r \in Requests, NEW t \in Tokens, RotationInv, RotationInv', IndexInv, RevokeAllDelToken(r, t)
  PROVE  IndexInv'
<1> USE TokenAssumption DEF RotationInv, IndexInv, RevokeAllDelToken, Goto, redis, locals, history
<1>1. IndexingOK'
  BY HeldMember DEF Listed, TypeOK, TokenOK, RequestOK, ExchangeOK, IndexingOK, Exchanging, Minted, Presenting, Minting, Live, Born, Life, Forever
<1>2. IndexOutlives'
  BY HeldMember DEF IndexOutlives, TypeOK, TokenOK, RequestOK, ExchangeOK, IndexingOK, Exchanging, Minted, Presenting, Minting, Live, Born, Life, Forever
<1>3. Listed'
  BY HeldMember DEF Listed, TypeOK, TokenOK, RequestOK, ExchangeOK, IndexingOK, Exchanging, Minted, Presenting, Minting, Live, Born, Life, Forever
<1>4. RevokeAllReaches'
  BY HeldMember DEF RevokeAllReaches, TypeOK, TokenOK, RequestOK, ExchangeOK, IndexingOK, Exchanging, Minted, Presenting, Minting, Live, Born, Life, Forever
<1>5. QED
  BY <1>1, <1>2, <1>3, <1>4

LEMMA RevokeAllDelIndexIndex ==
  ASSUME TTL > 0, NEW r \in Requests, RotationInv, RotationInv', IndexInv, RevokeAllDelIndex(r)
  PROVE  IndexInv'
<1> USE TokenAssumption DEF RotationInv, IndexInv, RevokeAllDelIndex, Goto, Unfound, redis, locals, history
<1>1. IndexingOK'
  BY HeldMember DEF Listed, TypeOK, TokenOK, RequestOK, ExchangeOK, IndexingOK, Exchanging, Minted, Presenting, Minting, Live, Born, Life, Forever
<1>2. IndexOutlives'
  BY HeldMember DEF IndexOutlives, TypeOK, TokenOK, RequestOK, ExchangeOK, IndexingOK, Exchanging, Minted, Presenting, Minting, Live, Born, Life, Forever
<1>3. Listed'
  BY HeldMember DEF Listed, TypeOK, TokenOK, RequestOK, ExchangeOK, IndexingOK, Exchanging, Minted, Presenting, Minting, Live, Born, Life, Forever
<1>4. RevokeAllReaches'
  BY HeldMember DEF RevokeAllReaches, TypeOK, TokenOK, RequestOK, ExchangeOK, IndexingOK, Exchanging, Minted, Presenting, Minting, Live, Born, Life, Forever
<1>5. QED
  BY <1>1, <1>2, <1>3, <1>4

LEMMA FailIndex ==
  ASSUME TTL > 0, NEW r \in Requests, RotationInv, RotationInv', IndexInv, Fail(r)
  PROVE  IndexInv'
<1> USE TokenAssumption DEF RotationInv, IndexInv, Fail, Goto, redis, locals, history
<1>1. IndexingOK'
  BY HeldMember DEF Listed, TypeOK, TokenOK, RequestOK, ExchangeOK, IndexingOK, Exchanging, Minted, Presenting, Minting, Live, Born, Life, Forever
<1>2. IndexOutlives'
  BY HeldMember DEF IndexOutlives, TypeOK, TokenOK, RequestOK, ExchangeOK, IndexingOK, Exchanging, Minted, Presenting, Minting, Live, Born, Life, Forever
<1>3. Listed'
  BY HeldMember DEF Listed, TypeOK, TokenOK, RequestOK, ExchangeOK, IndexingOK, Exchanging, Minted, Presenting, Minting, Live, Born, Life, Forever
<1>4. RevokeAllReaches'
  BY HeldMember DEF RevokeAllReaches, TypeOK, TokenOK, RequestOK, ExchangeOK, IndexingOK, Exchanging, Minted, Presenting, Minting, Live, Born, Life, Forever
<1>5. QED
  BY <1>1, <1>2, <1>3, <1>4

LEMMA TickIndex == TTL > 0 /\ RotationInv /\ IndexInv /\ Tick => IndexInv'
<1> SUFFICES ASSUME TTL > 0, RotationInv, IndexInv, Tick PROVE IndexInv'
  OBVIOUS
<1> USE TokenAssumption DEF RotationInv, IndexInv, Tick, Older, locals, Live, TypeOK, Life, Forever
<1>1. \A t \in Tokens : Live(t)' => Live(t)
  OBVIOUS
<1>2. IndexingOK'
  <2>1. \A t \in Tokens : life'[t] <= TTL
    BY DEF IndexingOK
  <2>2. ASSUME NEW r \in Requests, pc[r] = "expire", Live(fresh[r])'
        PROVE  fresh[r] \in index'[user[r]] \cup lost'
    <3>1. fresh[r] \in Unsettled /\ fresh[r] \in Tokens /\ user[r] \in Users
      BY <2>2 DEF Unsettled, RequestOK, Minted, Minting
    <3>2. fresh[r] \in index[user[r]] \cup lost
      BY <1>1, <2>2, <3>1 DEF IndexingOK
    <3>3. QED
      BY <3>1, <3>2
  <2>3. ASSUME NEW r \in Requests, pc[r] = "revokeAllDel", NEW t \in target[r], Live(t)'
        PROVE  t \in todo[r] \cup lost'
    BY <1>1, <2>3 DEF IndexingOK
  <2>4. ASSUME NEW r \in Requests, pc[r] \in {"refreshSRem", "revokeSRem"}
        PROVE  ~Live(token[r])'
    BY <1>1, <2>4 DEF IndexingOK, RequestOK, Presenting
  <2>5. ASSUME NEW r \in Requests, pc[r] = "revokeAllDel", NEW t \in found[r], Live(t)'
        PROVE  t \in todo[r]
    BY <1>1, <2>5 DEF IndexingOK
  <2>6. /\ \A u \in Users : \A t \in index'[u] : Born(t)
        /\ \A r \in Requests : \A t \in found[r] \cup target[r] : Born(t)
    BY DEF IndexingOK
  <2>7. \A q, r \in Minted : fresh[q] = fresh[r] => q = r
    BY DEF IndexingOK
  <2>8. QED
    BY <2>1, <2>2, <2>3, <2>4, <2>5, <2>6, <2>7 DEF IndexingOK, Minted, Born
<1>3. IndexOutlives'
  BY HeldMember DEF IndexOutlives, RequestOK, TokenOK, Minted, Born
<1>4. Listed'
  BY <1>1, HeldMember DEF Listed, IndexOutlives, RequestOK, TokenOK, Minted, Born
<1>5. RevokeAllReaches'
  BY <1>1 DEF RevokeAllReaches
<1>6. QED
  BY <1>2, <1>3, <1>4, <1>5

LEMMA IndexStep == TTL > 0 /\ RotationInv /\ RotationInv' /\ IndexInv /\ [Next]_vars => IndexInv'
<1> SUFFICES ASSUME TTL > 0, RotationInv, RotationInv', IndexInv, [Next]_vars PROVE IndexInv'
  OBVIOUS
<1>1. ASSUME NEW r \in Requests, Call(r) PROVE IndexInv'
  BY <1>1, CallGenerateIndex, RevokeAllSMembersIndex, RefreshGetIndex, RevokeGetIndex,
     CallRevokeIndex DEF Call
<1>2. ASSUME NEW r \in Requests, Continue(r) PROVE IndexInv'
  BY <1>2, GenerateSetIndex, RevokeAllDelTokenIndex, GenerateSAddIndex, GenerateExpireIndex,
     RefreshDelIndex, RefreshSRemIndex, RevokeDelIndex, RevokeSRemIndex, RevokeAllDelIndexIndex
     DEF Continue
<1>3. ASSUME NEW r \in Requests, Fail(r) PROVE IndexInv'
  BY <1>3, FailIndex
<1>4. CASE Tick
  BY <1>4, TickIndex
<1>5. CASE UNCHANGED vars
  BY <1>5 DEF vars, redis, locals, history, IndexInv, IndexingOK, IndexOutlives, Listed,
     RevokeAllReaches, Held, Live, Born, Minted
<1>6. QED
  BY <1>1, <1>2, <1>3, <1>4, <1>5 DEF Next

LEMMA IndexSafe == ASSUME TTL > 0 PROVE Spec => []IndexInv
<1>1. Init => IndexInv
  BY IndexInit
<1>2. RotationInv /\ RotationInv' /\ IndexInv /\ [Next]_vars => IndexInv'
  BY IndexStep
<1>3. QED
  BY <1>1, <1>2, RotationSafe, PTL DEF Spec

\* With a positive TTL, the index of a user does not run out before a token in it that
\* a client holds, whatever ran between the SADD and the EXPIRE of that token.
THEOREM IndexOutlivesSafe == ASSUME TTL > 0 PROVE Spec => []IndexOutlives
  BY IndexSafe, PTL DEF IndexInv

\* With a positive TTL, the only live tokens of a client missing from the index are those
\* whose SADD came between the SMEMBERS and the DEL of a global logout, be the login over
\* by then or not, and those whose index ran out between their SADD and their EXPIRE.
THEOREM ListedSafe == ASSUME TTL > 0 PROVE Spec => []Listed
  BY IndexSafe, PTL DEF IndexInv

\* With a positive TTL, revokeAllForUser leaves no token of the user live that a client
\* held when it was called, but for those missing from the index as in ListedSafe.
THEOREM RevokeAllReachesSafe == ASSUME TTL > 0 PROVE Spec => []RevokeAllReaches
  BY IndexSafe, PTL DEF IndexInv

--------------------------------------------------------------------------------
(* What IndexCleared rests on, apart from fairness, with any TTL.              *)

\* An index that would never expire has a cause: a request that has still to send
\* its EXPIRE, or that failed with the token it had stored.
LeakHasCause ==
    \A u \in Users : indexLife[u] = Forever =>
        (\E r \in Requests : pc[r] = "expire" /\ user[r] = u) \/ FailedToIssue(u)

LEMMA LeakStep == RotationInv /\ LeakHasCause /\ [Next]_vars => LeakHasCause'
<1> SUFFICES ASSUME RotationInv, LeakHasCause, [Next]_vars, NEW u \in Users, indexLife'[u] = Forever
             PROVE  (\E r \in Requests : pc'[r] = "expire" /\ user'[r] = u) \/ FailedToIssue(u)'
  BY DEF LeakHasCause
<1> USE TokenAssumption DEF Goto, redis, locals, history, Forever
<1>1. TypeOK /\ RequestOK
  BY DEF RotationInv
\* A cause stays one, but for the EXPIRE that removes it.
<1>2. ASSUME NEW q \in Requests, pc[q] = "expire" /\ user[q] = u, pc'[q] = "expire" /\ user'[q] = u
      PROVE  \E r \in Requests : pc'[r] = "expire" /\ user'[r] = u
  BY <1>2
<1>3. ASSUME NEW q \in Requests, pc'[q] = "failed" /\ user'[q] = u /\ fresh'[q] # None
      PROVE  FailedToIssue(u)'
  BY <1>3 DEF FailedToIssue
<1>4. \A q \in Requests : pc[q] = "expire" => fresh[q] # None
  BY <1>1 DEF RequestOK, Minted
<1>5. ASSUME NEW r \in Requests, Call(r)
      PROVE  (\E q \in Requests : pc'[q] = "expire" /\ user'[q] = u) \/ FailedToIssue(u)'
  <2>1. pc[r] = "idle" /\ UNCHANGED <<indexLife, fresh>>
        /\ \A q \in Requests \ {r} : pc'[q] = pc[q] /\ user'[q] = user[q]
    BY <1>1, <1>5 DEF Call, CallGenerate, RevokeAllSMembers, RefreshGet, RevokeGet, CallRevoke, TypeOK
  <2>2. QED
    BY <2>1 DEF LeakHasCause, FailedToIssue
<1>6. ASSUME NEW r \in Requests, NEW t \in Tokens, GenerateSet(r, t)
      PROVE  (\E q \in Requests : pc'[q] = "expire" /\ user'[q] = u) \/ FailedToIssue(u)'
  <2>1. pc[r] = "set" /\ UNCHANGED <<indexLife, user>>
        /\ \A q \in Requests \ {r} : pc'[q] = pc[q] /\ fresh'[q] = fresh[q]
    BY <1>1, <1>6 DEF GenerateSet, TypeOK
  <2>2. QED
    BY <2>1 DEF LeakHasCause, FailedToIssue
<1>7. ASSUME NEW r \in Requests, NEW t \in Tokens, RevokeAllDelToken(r, t)
      PROVE  (\E q \in Requests : pc'[q] = "expire" /\ user'[q] = u) \/ FailedToIssue(u)'
  BY <1>7 DEF RevokeAllDelToken, LeakHasCause, FailedToIssue
<1>8. ASSUME NEW r \in Requests, GenerateSAdd(r)
      PROVE  (\E q \in Requests : pc'[q] = "expire" /\ user'[q] = u) \/ FailedToIssue(u)'
  <2>1. /\ pc[r] = "sAdd" /\ pc' = [pc EXCEPT ![r] = "expire"] /\ UNCHANGED <<user, fresh>>
        /\ user[r] # u => indexLife'[u] = indexLife[u]
    BY <1>1, <1>8 DEF GenerateSAdd, TypeOK
  <2>2. CASE user[r] = u
    BY <1>1, <2>1, <2>2 DEF TypeOK
  <2>3. CASE user[r] # u
    BY <1>1, <2>1, <2>3 DEF LeakHasCause, FailedToIssue, TypeOK
  <2>4. QED
    BY <2>2, <2>3
<1>9. ASSUME NEW r \in Requests, GenerateExpire(r)
      PROVE  (\E q \in Requests : pc'[q] = "expire" /\ user'[q] = u) \/ FailedToIssue(u)'
  <2>1. /\ pc[r] = "expire" /\ pc' = [pc EXCEPT ![r] = "issued"] /\ UNCHANGED <<user, fresh>>
        /\ user[r] = u => indexLife'[u] # Forever
        /\ user[r] # u => indexLife'[u] = indexLife[u]
    BY <1>1, <1>9 DEF GenerateExpire, TypeOK
  <2>2. user[r] # u /\ indexLife[u] = Forever
    BY <2>1
  <2>3. QED
    BY <1>1, <2>1, <2>2 DEF LeakHasCause, FailedToIssue, TypeOK
<1>10. ASSUME NEW r \in Requests,
              RefreshDel(r) \/ RefreshSRem(r) \/ RevokeDel(r) \/ RevokeSRem(r) \/ RevokeAllDelIndex(r)
       PROVE  (\E q \in Requests : pc'[q] = "expire" /\ user'[q] = u) \/ FailedToIssue(u)'
  <2>1. /\ pc[r] \in {"refreshDel", "refreshSRem", "revokeDel", "revokeSRem", "revokeAllDel"}
        /\ \A q \in Requests \ {r} : pc'[q] = pc[q]
        /\ UNCHANGED <<user, fresh>>
    BY <1>1, <1>10 DEF RefreshDel, RefreshSRem, RevokeDel, RevokeSRem, RevokeAllDelIndex, TypeOK
  <2>2. indexLife'[u] \in {indexLife[u], 0}
    BY <1>1, <1>10
       DEF RefreshDel, RefreshSRem, RevokeDel, RevokeSRem, RevokeAllDelIndex, RemoveMember, TypeOK
  <2>3. indexLife[u] = Forever
    BY <2>2
  <2>4. QED
    BY <2>1, <2>3 DEF LeakHasCause, FailedToIssue
<1>11. ASSUME NEW r \in Requests, Fail(r)
       PROVE  (\E q \in Requests : pc'[q] = "expire" /\ user'[q] = u) \/ FailedToIssue(u)'
  <2>1. pc[r] \in Awaiting /\ pc' = [pc EXCEPT ![r] = "failed"] /\ UNCHANGED <<indexLife, user, fresh>>
    BY <1>11 DEF Fail
  <2>2. CASE \E q \in Requests : pc[q] = "expire" /\ user[q] = u
    BY <1>1, <1>4, <2>1, <2>2 DEF FailedToIssue, TypeOK
  <2>3. CASE FailedToIssue(u)
    BY <1>1, <2>1, <2>3 DEF FailedToIssue, TypeOK
  <2>4. QED
    BY <2>1, <2>2, <2>3 DEF LeakHasCause
<1>12. CASE Tick
  <2>1. indexLife[u] = Forever /\ UNCHANGED <<pc, user, fresh>>
    BY <1>1, <1>12 DEF Tick, Older, TypeOK, Life
  <2>2. QED
    BY <2>1 DEF LeakHasCause, FailedToIssue
<1>13. CASE UNCHANGED vars
  BY <1>13 DEF vars, LeakHasCause, FailedToIssue
<1>14. QED
  BY <1>5, <1>6, <1>7, <1>8, <1>9, <1>10, <1>11, <1>12, <1>13 DEF Next, Continue

\* No index is left without a time to live, whatever logins, refreshes, logouts and
\* expiries interleave, but by a request that failed between its SADD and its EXPIRE.
THEOREM LeakHasCauseSafe == Spec => []LeakHasCause
<1>1. Init => LeakHasCause
  BY TokenAssumption DEF Init, LeakHasCause, Forever
<1>2. QED
  BY <1>1, LeakStep, RotationSafe, PTL DEF Spec

\* A request is listing a token of the user.
Listing(u) == \E r \in Requests : user[r] = u /\ pc[r] \in {"sAdd", "expire"}

\* The index of u does not live longer, and grows older with every second.
Ages(u) ==
    /\ indexLife'[u] <= indexLife[u]
    /\ Tick => indexLife'[u] < indexLife[u]

\* An index in which nobody is listing a token, nor failed to, only gets older.
IndexAges ==
    [][\A u \in Users : index[u] # {} /\ ~Listing(u) /\ ~FailedToIssue(u) => Ages(u)]_vars

LEMMA AgesStep ==
  ASSUME RotationInv, LeakHasCause, [Next]_vars, NEW u \in Users,
         index[u] # {}, ~Listing(u), ~FailedToIssue(u)
  PROVE  Ages(u)
<1> USE TokenAssumption DEF Goto, redis, locals, history, Forever
<1>1. TypeOK /\ RequestOK
  BY DEF RotationInv
<1>2. indexLife[u] \in 1 .. TTL
  BY <1>1 DEF TypeOK, Life, LeakHasCause, Listing
<1>3. CASE Tick
  BY <1>1, <1>2, <1>3 DEF Tick, Older, TypeOK, Ages
<1>4. ASSUME indexLife'[u] \in {indexLife[u], 0}, ~Tick PROVE Ages(u)
  BY <1>2, <1>4 DEF Ages
<1>5. CASE UNCHANGED indexLife
  <2>1. ~Tick
    BY <1>1, <1>2, <1>5 DEF Tick, Older, TypeOK
  <2>2. QED
    BY <1>4, <1>5, <2>1
<1>6. ASSUME NEW r \in Requests, GenerateSAdd(r) \/ GenerateExpire(r) PROVE indexLife'[u] = indexLife[u]
  <2>1. user[r] # u
    BY <1>6 DEF GenerateSAdd, GenerateExpire, Listing
  <2>2. QED
    BY <1>1, <1>6, <2>1 DEF GenerateSAdd, GenerateExpire, TypeOK
<1>7. ASSUME NEW r \in Requests, RefreshSRem(r) \/ RevokeSRem(r) \/ RevokeAllDelIndex(r)
      PROVE  indexLife'[u] \in {indexLife[u], 0}
  BY <1>1, <1>7 DEF RefreshSRem, RevokeSRem, RevokeAllDelIndex, RemoveMember, TypeOK
<1>8. CASE ~Tick
  <2>1. indexLife'[u] \in {indexLife[u], 0}
    BY <1>6, <1>7, <1>8
       DEF Next, Call, Continue, CallGenerate, RevokeAllSMembers, RefreshGet, RevokeGet, CallRevoke, GenerateSet,
           RevokeAllDelToken, RefreshDel, RevokeDel, Fail, vars
  <2>2. QED
    BY <2>1, <1>4, <1>8
<1>9. QED
  BY <1>3, <1>8

\* The index of a user goes away within its time to live, for any TTL, users and
\* requests, unless a token is listed in it again or one failed to be.
THEOREM IndexAgesSafe == Spec => IndexAges
<1>1. RotationInv /\ LeakHasCause /\ [Next]_vars =>
        [\A u \in Users : index[u] # {} /\ ~Listing(u) /\ ~FailedToIssue(u) => Ages(u)]_vars
  BY AgesStep
<1>2. QED
  BY <1>1, RotationSafe, LeakHasCauseSafe, PTL DEF Spec, IndexAges

--------------------------------------------------------------------------------
(* The theorems about the index assume a positive TTL, and need to: with a TTL *)
(* of zero SETEX is a SET without expiry, and EXPIRE deletes the index.        *)

\* No token that a client holds is in the index of its user, nor will it expire.
Unlisted == \A t \in Held : t \notin index[value[t]] /\ life[t] \in {0, Forever}

MintedOnce == \A q, r \in Minted : fresh[q] = fresh[r] => q = r

LEMMA UnlistedStep ==
  ASSUME TTL = 0, RotationInv, MintedOnce, Unlisted, [Next]_vars
  PROVE  (MintedOnce /\ Unlisted)'
<1> USE TokenAssumption DEF Goto, redis, locals, history, Forever, Life, MintedOnce, Unlisted, Held, Minted
<1>1. TypeOK /\ TokenOK /\ RequestOK
  BY DEF RotationInv
<1>2. \A r \in Minted : fresh[r] \in Tokens /\ Born(fresh[r]) /\ value[fresh[r]] = user[r] /\ user[r] \in Users
  BY <1>1 DEF RequestOK, Minting
<1>3. \A t \in Tokens : ~Born(t) => t \notin {fresh[r] : r \in Minted}
  BY <1>2
<1>4. ASSUME NEW r \in Requests, Call(r) PROVE (MintedOnce /\ Unlisted)'
  <2>1. /\ pc[r] = "idle" /\ pc'[r] \in {"set", "refreshDel", "rejected", "revokeDel", "revokeAllDel"}
        /\ \A q \in Requests \ {r} : pc'[q] = pc[q]
        /\ UNCHANGED <<fresh, value, life, index>>
    BY <1>1, <1>4 DEF Call, CallGenerate, RevokeAllSMembers, RefreshGet, RevokeGet, CallRevoke, TypeOK
  <2>2. QED
    BY <2>1
<1>5. ASSUME NEW r \in Requests, NEW t \in Tokens, GenerateSet(r, t) PROVE (MintedOnce /\ Unlisted)'
  <2>1. /\ pc[r] = "set" /\ pc'[r] = "sAdd" /\ fresh'[r] = t
        /\ \A q \in Requests \ {r} : pc'[q] = pc[q] /\ fresh'[q] = fresh[q]
        /\ \A u \in Tokens \ {t} : value'[u] = value[u] /\ life'[u] = life[u]
        /\ UNCHANGED index
        /\ ~Born(t)
    BY <1>1, <1>5 DEF GenerateSet, TypeOK
  <2>2. MintedOnce'
    BY <2>1, <1>3
  <2>3. Unlisted'
    BY <2>1, <1>2, <1>3
  <2>4. QED
    BY <2>2, <2>3
<1>6. ASSUME NEW r \in Requests, NEW t \in Tokens, RevokeAllDelToken(r, t) PROVE (MintedOnce /\ Unlisted)'
  BY <1>1, <1>2, <1>6 DEF RevokeAllDelToken, TypeOK
<1>7. ASSUME NEW r \in Requests, GenerateSAdd(r) PROVE (MintedOnce /\ Unlisted)'
  <2>1. /\ pc[r] = "sAdd" /\ pc' = [pc EXCEPT ![r] = "expire"]
        /\ index' = [index EXCEPT ![user[r]] = @ \cup {fresh[r]}]
        /\ UNCHANGED <<fresh, value, life>>
    BY <1>7 DEF GenerateSAdd
  <2>2. MintedOnce'
    BY <1>1, <2>1 DEF TypeOK
  <2>3. Held' = Held /\ fresh[r] \notin Held
    BY <1>1, <2>1 DEF TypeOK
  <2>4. \A t \in Held : t \in Tokens /\ value[t] \in Users
    BY <1>2
  <2>5. Unlisted'
    <3>1. SUFFICES ASSUME NEW t \in Held PROVE t \notin index'[value[t]] /\ life[t] \in {0, Forever}
      BY <2>1, <2>3 DEF Unlisted
    <3>2. t # fresh[r]
      BY <2>3
    <3>3. QED
      BY <1>1, <2>1, <2>4, <3>2 DEF TypeOK
  <2>6. QED
    BY <2>2, <2>5
<1>8. ASSUME NEW r \in Requests, GenerateExpire(r) PROVE (MintedOnce /\ Unlisted)'
  <2>1. /\ pc[r] = "expire" /\ pc' = [pc EXCEPT ![r] = "issued"]
        /\ index' = [index EXCEPT ![user[r]] = {}]
        /\ UNCHANGED <<fresh, value, life>>
    BY <1>8 DEF GenerateExpire
  <2>2. MintedOnce'
    BY <1>1, <2>1 DEF TypeOK
  <2>3. \A t \in Held' : t \in Tokens /\ (t \in Held \/ (value[t] = user[r] /\ user[r] \in Users))
    BY <1>1, <1>2, <2>1 DEF TypeOK
  <2>4. \A t \in Tokens : life[t] \in {0, Forever}
    BY <1>1 DEF TypeOK
  <2>5. Unlisted'
    BY <1>1, <2>1, <2>3, <2>4 DEF TypeOK
  <2>6. QED
    BY <2>2, <2>5
<1>9. ASSUME NEW r \in Requests,
             RefreshDel(r) \/ RefreshSRem(r) \/ RevokeDel(r) \/ RevokeSRem(r) \/ RevokeAllDelIndex(r) \/ Fail(r)
      PROVE  (MintedOnce /\ Unlisted)'
  <2>1. /\ pc'[r] \notin {"sAdd", "expire", "issued"} /\ \A q \in Requests \ {r} : pc'[q] = pc[q]
        /\ UNCHANGED <<fresh, value>>
    BY <1>1, <1>9 DEF RefreshDel, RefreshSRem, RevokeDel, RevokeSRem, RevokeAllDelIndex, Fail, TypeOK
  <2>2. /\ \A u \in Users : index'[u] \subseteq index[u]
        /\ \A t \in Tokens : life'[t] \in {0, life[t]}
    BY <1>1, <1>9
       DEF RefreshDel, RefreshSRem, RevokeDel, RevokeSRem, RevokeAllDelIndex, Fail, RemoveMember, TypeOK
  <2>3. \A t \in Held : t \in Tokens /\ value[t] \in Users
    BY <1>2
  <2>4. MintedOnce'
    BY <2>1
  <2>5. Held' \subseteq Held
    BY <2>1
  <2>6. Unlisted'
    <3> HIDE DEF Held
    <3>1. QED
      BY <2>1, <2>2, <2>3, <2>5
  <2>7. QED
    BY <2>4, <2>6
<1>10. CASE Tick
  <2>1. UNCHANGED <<pc, fresh, value>> /\ \A u \in Users : index'[u] \subseteq index[u]
    BY <1>1, <1>10 DEF Tick, TypeOK
  <2>2. \A t \in Tokens : life'[t] = life[t]
    BY <1>1, <1>10 DEF Tick, Older, TypeOK
  <2>3. \A t \in Held : t \in Tokens /\ value[t] \in Users
    BY <1>2
  <2>4. QED
    BY <2>1, <2>2, <2>3
<1>11. CASE UNCHANGED vars
  BY <1>11 DEF vars
<1>12. QED
  BY <1>4, <1>5, <1>6, <1>7, <1>8, <1>9, <1>10, <1>11 DEF Next, Continue

\* With a TTL of zero no token that a client holds is ever in an index, and none
\* expires: revokeAllForUser reaches none of them, whoever runs when.
THEOREM UnlistedWithoutTTL == ASSUME TTL = 0 PROVE Spec => []Unlisted
<1>1. Init => MintedOnce /\ Unlisted
  BY DEF Init, MintedOnce, Unlisted, Minted, Held
<1>2. RotationInv /\ MintedOnce /\ Unlisted /\ [Next]_vars => (MintedOnce /\ Unlisted)'
  BY UnlistedStep
<1>3. QED
  BY <1>1, <1>2, RotationSafe, PTL DEF Spec

================================================================================
