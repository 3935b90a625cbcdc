--------------------------- MODULE CoreProofs ----------------------------------
(* Why the guard refuses a request, and how a session is lost, for any number  *)
(* of requests in flight, secrets and addresses; which hashes validate, what a *)
(* readiness answer speaks for, which pages follow each other, how filters are *)
(* read and what of a request is logged, for any hashes, rounds, services,     *)
(* items, words and redactions.                                                *)
EXTENDS Core, Integers, Sequences, SequenceTheorems, WellFoundedInduction, TLAPS

SessionInv ==
    TypeOK /\ MatchedOK /\ MadeOK /\ NewOK /\ RacedOK /\ RefusedForCause /\ KeptUnlessRaced

\* Only time changes what a secret has left.
Renewal ==
    secretCookie.of # None /\ secretCookie'.of = secretCookie.of
        => secretCookie'.life <= secretCookie.life

LEMMA SessionInit == Init => SessionInv
<1> SUFFICES ASSUME Init PROVE SessionInv
  OBVIOUS
<1> USE CsrfAssumption
<1>1. InFlight = {}
  BY DEF Init, InFlight
<1>2. TypeOK
  <2>1. NoCookie \in Cookie /\ NoCookie.of = None /\ NoCookie.life = 0
    BY DEF NoCookie, Cookie
  <2>2. /\ NoRequest \in [route : Routes, from : Addresses \cup {None},
                         secret : Secrets \cup {None}, token : Secrets \cup {None}]
        /\ NoResponse \in [status : {"ok", "forbidden"},
                          secret : Secrets \cup {None}, token : Secrets \cup {None}]
    BY DEF NoRequest, NoResponse, Routes
  <2>3. QED
    BY <2>1, <2>2 DEF Init, TypeOK
<1>3. MatchedOK /\ NewOK /\ RacedOK /\ KeptUnlessRaced
  BY <1>1 DEF Init, MatchedOK, NewOK, RacedOK, KeptUnlessRaced, Former, NoCookie
<1>4. MadeOK /\ RefusedForCause
  BY <1>1 DEF Init, MadeOK, RefusedForCause, NoCookie, NoResponse
<1>5. QED
  BY <1>2, <1>3, <1>4 DEF SessionInv

LEMMA SendSession ==
  ASSUME SessionInv, NEW r \in Requests, NEW route \in Routes, Send(r, route)
  PROVE  SessionInv' /\ Renewal
<1> USE CsrfAssumption DEF SessionInv
<1>1. /\ pc[r] = "idle" /\ response[r] = NoResponse
      /\ pc' = [pc EXCEPT ![r] = "sent"]
      /\ request' = [request EXCEPT ![r] =
            [route |-> route, from |-> address, secret |-> secretCookie.of, token |-> tokenCookie.of]]
      /\ UNCHANGED <<address, secretCookie, tokenCookie, response, owner, gone, overwritten>>
      /\ raced' = (raced \/ (secretCookie.of = None /\ \E q \in InFlight : request[q].secret = None))
  BY DEF Send, MadeOK, jar
<1>2. TypeOK'
  BY <1>1 DEF TypeOK, Cookie
<1>3. InFlight' = InFlight \cup {r} /\ r \notin InFlight
  BY <1>1 DEF InFlight, TypeOK
<1>4. /\ request'[r].secret = secretCookie.of /\ request'[r].token = tokenCookie.of
      /\ request'[r].from = address /\ address \in Addresses /\ pc'[r] = "sent"
      /\ response'[r].secret = None
      /\ \A q \in Requests \ {r} : request'[q] = request[q] /\ pc'[q] = pc[q]
  BY <1>1 DEF TypeOK, NoResponse
<1>5. MatchedOK'
  BY <1>1, <1>3, <1>4 DEF MatchedOK, Former, NoResponse, InFlight
<1>6. MadeOK'
  <2>1. \A q \in Requests : pc'[q] # "answered" => response'[q] = NoResponse
    BY <1>1, <1>4 DEF MadeOK
  <2>2. \A q \in InFlight' : request'[q].from # None
    BY <1>3, <1>4 DEF MadeOK, InFlight
  <2>3. ASSUME NEW s \in Secrets, owner'[s] = None
        PROVE  /\ s # secretCookie'.of /\ s \notin gone'
               /\ \A q \in InFlight' : s # request'[q].secret /\ s # response'[q].secret
    BY <1>1, <1>3, <1>4, <2>3 DEF MadeOK, InFlight
  <2>4. QED
    BY <2>1, <2>2, <2>3 DEF MadeOK
<1>7. RacedOK' /\ NewOK'
  <2>1. \A q \in InFlight : request'[q] = request[q] /\ response'[q] = response[q] /\ q # r
    BY <1>1, <1>3, <1>4 DEF InFlight
  <2>2. RacedOK'
    BY <1>1, <1>3, <1>4, <2>1 DEF RacedOK
  <2>3. NewOK'
    BY <1>1, <1>3, <1>4, <2>1 DEF NewOK
  <2>4. QED
    BY <2>2, <2>3
<1>8. RefusedForCause'
  BY <1>1, <1>4 DEF RefusedForCause, NoResponse
<1>9. KeptUnlessRaced' /\ Renewal
  <2>1. raced => raced'
    BY <1>1
  <2>2. secretCookie'.life <= secretCookie.life
    BY <1>1 DEF TypeOK, Cookie
  <2>3. QED
    BY <1>1, <2>1, <2>2 DEF KeptUnlessRaced, Renewal
<1>10. QED
  BY <1>2, <1>5, <1>6, <1>7, <1>8, <1>9

\* The end of an exchange: request and response are forgotten.
LEMMA SettleSession ==
  ASSUME TypeOK, NEW r \in Requests, Settle(r)
  PROVE  /\ pc' \in [Requests -> {"idle", "sent", "answered"}]
         /\ request' \in [Requests -> [route : Routes, from : Addresses \cup {None},
                                       secret : Secrets \cup {None}, token : Secrets \cup {None}]]
         /\ response' \in [Requests -> [status : {"ok", "forbidden"},
                                        secret : Secrets \cup {None}, token : Secrets \cup {None}]]
         /\ InFlight' = InFlight \ {r}
         /\ response'[r] = NoResponse
         /\ \A q \in Requests \ {r} :
                request'[q] = request[q] /\ response'[q] = response[q] /\ pc'[q] = pc[q]
  BY CsrfAssumption DEF Settle, TypeOK, InFlight, NoRequest, NoResponse, Routes

LEMMA ReceiveSession ==
  ASSUME SessionInv, NEW r \in Requests, Receive(r)
  PROVE  SessionInv' /\ Renewal
<1> USE CsrfAssumption DEF SessionInv
<1> DEFINE set(cookie, s) == IF s = None THEN cookie ELSE [of |-> s, life |-> MaxAge]
           replaced == {s \in {secretCookie.of} \ {None} : response[r].secret # None}
<1>1. /\ pc[r] = "answered" /\ r \in InFlight
      /\ secretCookie' = set(secretCookie, response[r].secret)
      /\ tokenCookie' = set(tokenCookie, response[r].token)
      /\ gone' = gone \cup replaced
      /\ overwritten' = (overwritten \/ replaced # {})
      /\ UNCHANGED <<address, owner, raced>>
  BY DEF Receive, InFlight
<1>2. Settle(r)
  BY DEF Receive
<1>3. /\ InFlight' = InFlight \ {r} /\ response'[r] = NoResponse
      /\ \A q \in Requests \ {r} :
            request'[q] = request[q] /\ response'[q] = response[q] /\ pc'[q] = pc[q]
  BY <1>2, SettleSession
<1>4. /\ response[r].secret \in Secrets \cup {None} /\ response[r].token \in Secrets \cup {None}
      /\ secretCookie.of \in Secrets \cup {None} /\ gone \subseteq Secrets
      /\ secretCookie \in Cookie /\ tokenCookie \in Cookie
  BY DEF TypeOK, Cookie
<1>5. secretCookie'.of = IF response[r].secret = None THEN secretCookie.of ELSE response[r].secret
  BY <1>1
<1>6. tokenCookie'.of = IF response[r].token = None THEN tokenCookie.of ELSE response[r].token
  BY <1>1
<1>7. gone' = IF response[r].secret = None \/ secretCookie.of = None
              THEN gone ELSE gone \cup {secretCookie.of}
  BY <1>1
<1>8. overwritten' = (overwritten \/ (response[r].secret # None /\ secretCookie.of # None))
  BY <1>1
<1>9. TypeOK'
  <2>1. secretCookie' \in Cookie /\ tokenCookie' \in Cookie
    BY <1>1, <1>4 DEF Cookie
  <2>2. /\ secretCookie'.of = None <=> secretCookie'.life = 0
        /\ tokenCookie'.of = None <=> tokenCookie'.life = 0
    BY <1>1, <1>4 DEF TypeOK
  <2>3. QED
    BY <1>1, <1>2, <1>4, <1>7, <1>8, <2>1, <2>2, SettleSession DEF TypeOK
<1>10. \A s : Former(s) => Former(s)'
  BY <1>5, <1>7 DEF Former
<1>11. MatchedOK'
  <2>1. Former(tokenCookie.of)'
    <3>1. CASE response[r].token = None
      BY <1>6, <1>10, <3>1 DEF MatchedOK
    <3>2. CASE response[r].token # None /\ response[r].secret # None
      BY <1>1, <1>5, <1>6, <3>2 DEF MatchedOK, Former
    <3>3. CASE response[r].token # None /\ response[r].secret = None
      BY <1>1, <1>6, <1>10, <3>3 DEF MatchedOK
    <3>4. QED
      BY <3>1, <3>2, <3>3
  <2>2. gone \subseteq gone'
    BY <1>7
  <2>3. \A q \in InFlight' : q \in InFlight /\ q # r /\ q \in Requests
    BY <1>3 DEF InFlight
  <2>4. QED
    BY <1>3, <1>10, <2>1, <2>2, <2>3 DEF MatchedOK
<1>12. MadeOK'
  <2>1. ASSUME NEW q \in Requests, pc'[q] # "answered" PROVE response'[q] = NoResponse
    BY <1>3, <2>1 DEF MadeOK
  <2>2. ASSUME NEW s \in Secrets, owner'[s] = None
        PROVE  s # secretCookie'.of /\ s \notin gone'
    BY <1>1, <1>5, <1>7, <2>2 DEF MadeOK
  <2>3. ASSUME NEW s \in Secrets, owner'[s] = None, NEW q \in InFlight'
        PROVE  s # request'[q].secret /\ s # response'[q].secret
    BY <1>1, <1>3, <2>3 DEF MadeOK, InFlight
  <2>4. \A q \in InFlight' : request'[q].from # None
    BY <1>3 DEF MadeOK, InFlight
  <2>5. QED
    BY <2>1, <2>2, <2>3, <2>4 DEF MadeOK
<1>13. response[r].secret # None => request[r].secret = None
  BY <1>1 DEF MatchedOK
<1>14. RacedOK'
  <2>1. SUFFICES ASSUME ~raced, NEW q \in InFlight', request'[q].secret = None
                 PROVE  /\ secretCookie'.of = None
                        /\ \A p \in InFlight' : request'[p].secret = None => p = q
    BY <1>1 DEF RacedOK
  <2>2. q \in InFlight /\ q # r /\ q \in Requests /\ request[q].secret = None
    BY <1>3, <2>1 DEF InFlight
  <2>3. secretCookie.of = None /\ request[r].secret # None
    BY <1>1, <2>1, <2>2 DEF RacedOK
  <2>4. \A p \in InFlight' : p \in InFlight /\ request'[p] = request[p]
    BY <1>3 DEF InFlight
  <2>5. QED
    BY <1>5, <1>13, <2>1, <2>2, <2>3, <2>4 DEF RacedOK
<1>15. NewOK'
  <2>1. \A p \in InFlight' : p \in InFlight /\ p # r /\ response'[p] = response[p]
    BY <1>3 DEF InFlight
  <2>2. QED
    BY <1>1, <1>5, <2>1 DEF NewOK
<1>16. RefusedForCause'
  BY <1>1, <1>3, <1>7 DEF RefusedForCause, NoResponse
<1>17. KeptUnlessRaced'
  BY <1>1, <1>8, <1>13 DEF KeptUnlessRaced, RacedOK
<1>18. Renewal
  <2>1. CASE response[r].secret = None
    BY <1>1, <1>4, <2>1 DEF Renewal, Cookie
  <2>2. CASE response[r].secret # None /\ secretCookie.of # None
    <3>1. secretCookie'.of # secretCookie.of
      BY <1>1, <1>5, <2>2 DEF NewOK
    <3>2. QED
      BY <3>1 DEF Renewal
  <2>3. QED
    BY <2>1, <2>2 DEF Renewal
<1>19. QED
  BY <1>9, <1>11, <1>12, <1>14, <1>15, <1>16, <1>17, <1>18

LEMMA LoseSession ==
  ASSUME SessionInv, NEW r \in Requests, Lose(r)
  PROVE  SessionInv' /\ Renewal
<1> USE CsrfAssumption DEF SessionInv
<1>1. Settle(r) /\ UNCHANGED <<address, secretCookie, tokenCookie, owner, gone, overwritten, raced>>
  BY DEF Lose, jar, history
<1>2. /\ InFlight' = InFlight \ {r} /\ response'[r] = NoResponse
      /\ \A q \in Requests \ {r} :
            request'[q] = request[q] /\ response'[q] = response[q] /\ pc'[q] = pc[q]
  BY <1>1, SettleSession
<1>3. TypeOK'
  BY <1>1, SettleSession DEF TypeOK
<1>4. \A p \in InFlight' :
        p \in InFlight /\ p \in Requests /\ request'[p] = request[p] /\ response'[p] = response[p]
  BY <1>2 DEF InFlight
<1>5. MatchedOK' /\ RacedOK' /\ NewOK'
  BY <1>1, <1>4 DEF MatchedOK, RacedOK, NewOK, Former
<1>6. MadeOK'
  BY <1>1, <1>2, <1>4 DEF MadeOK
<1>7. RefusedForCause' /\ KeptUnlessRaced'
  BY <1>1, <1>2 DEF RefusedForCause, KeptUnlessRaced, NoResponse
<1>8. Renewal
  BY <1>1 DEF TypeOK, Cookie, Renewal
<1>9. QED
  BY <1>3, <1>5, <1>6, <1>7, <1>8

LEMMA TickSession ==
  ASSUME SessionInv, Tick
  PROVE  SessionInv' /\ Renewal
<1> USE CsrfAssumption DEF SessionInv
<1> DEFINE age(cookie) == IF cookie.life > 1 THEN [cookie EXCEPT !.life = @ - 1] ELSE NoCookie
<1>1. /\ secretCookie' = age(secretCookie)
      /\ tokenCookie' = age(tokenCookie)
      /\ gone' = gone \cup {s \in {secretCookie.of} \ {None} : secretCookie.life = 1}
      /\ UNCHANGED <<address, pc, request, response, owner, overwritten, raced>>
  BY DEF Tick, exchange
<1>2. /\ secretCookie \in Cookie /\ (secretCookie.of = None <=> secretCookie.life = 0)
      /\ tokenCookie \in Cookie /\ (tokenCookie.of = None <=> tokenCookie.life = 0)
      /\ gone \subseteq Secrets
  BY DEF TypeOK
<1>3. \A c \in Cookie : (c.of = None <=> c.life = 0) =>
        /\ age(c) \in Cookie
        /\ age(c).of = None <=> age(c).life = 0
        /\ c.life \in Nat
        /\ age(c).of = IF c.life > 1 THEN c.of ELSE None
        /\ age(c).life <= c.life
  <2>1. SUFFICES ASSUME NEW c \in Cookie, c.of = None <=> c.life = 0
                 PROVE  /\ age(c) \in Cookie
                        /\ age(c).of = None <=> age(c).life = 0
                        /\ c.life \in Nat
                        /\ age(c).of = IF c.life > 1 THEN c.of ELSE None
                        /\ age(c).life <= c.life
    OBVIOUS
  <2>2. CASE c.life > 1
    BY <2>1, <2>2 DEF Cookie
  <2>3. CASE ~(c.life > 1)
    BY <2>1, <2>3 DEF Cookie, NoCookie
  <2>4. QED
    BY <2>2, <2>3
<1> HIDE DEF age
<1>4. /\ secretCookie' \in Cookie /\ (secretCookie'.of = None <=> secretCookie'.life = 0)
      /\ tokenCookie' \in Cookie /\ (tokenCookie'.of = None <=> tokenCookie'.life = 0)
      /\ secretCookie'.of = IF secretCookie.life > 1 THEN secretCookie.of ELSE None
      /\ tokenCookie'.of \in {None, tokenCookie.of}
      /\ secretCookie'.life <= secretCookie.life
      /\ secretCookie.life \in Nat
  BY <1>1, <1>2, <1>3
<1>5. /\ gone' = IF secretCookie.of # None /\ secretCookie.life = 1
                 THEN gone \cup {secretCookie.of} ELSE gone
      /\ InFlight' = InFlight
  BY <1>1 DEF InFlight
<1>6. TypeOK'
  <2>1. secretCookie.of \in Secrets \cup {None}
    BY <1>2 DEF Cookie
  <2>2. gone' \subseteq Secrets
    BY <1>2, <1>5, <2>1
  <2>3. QED
    BY <1>1, <1>4, <2>2 DEF TypeOK
<1>7. \A s : Former(s) => Former(s)'
  BY <1>2, <1>4, <1>5 DEF Former
<1>8. MatchedOK'
  <2>1. Former(tokenCookie.of)'
    BY <1>4, <1>7 DEF MatchedOK, Former
  <2>2. gone \subseteq gone'
    BY <1>5
  <2>3. QED
    BY <1>1, <1>5, <1>7, <2>1, <2>2 DEF MatchedOK
<1>9. MadeOK' /\ NewOK' /\ RacedOK'
  BY <1>1, <1>4, <1>5 DEF MadeOK, NewOK, RacedOK
<1>10. RefusedForCause' /\ KeptUnlessRaced' /\ Renewal
  BY <1>1, <1>4, <1>5 DEF RefusedForCause, KeptUnlessRaced, Renewal
<1>11. QED
  BY <1>6, <1>8, <1>9, <1>10

LEMMA CreateSession ==
  ASSUME SessionInv, NEW r \in Requests, NEW s \in Secrets, CreateSecret(r, s)
  PROVE  SessionInv' /\ Renewal
<1> USE CsrfAssumption DEF SessionInv
<1> DEFINE status == IF request[r].route = "guarded" THEN "forbidden" ELSE "ok"
           token == IF request[r].route = "login" THEN s ELSE None
<1>1. /\ pc[r] = "sent" /\ request[r].secret = None /\ owner[s] = None
      /\ owner' = [owner EXCEPT ![s] = request[r].from]
      /\ pc' = [pc EXCEPT ![r] = "answered"]
      /\ response' = [response EXCEPT ![r] = [status |-> status, secret |-> s, token |-> token]]
      /\ UNCHANGED <<address, secretCookie, tokenCookie, request, gone, overwritten, raced>>
  BY DEF CreateSecret, Answer, jar, history
<1>2. /\ r \in InFlight /\ InFlight' = InFlight
      /\ response'[r].secret = s /\ response'[r].token \in {None, s}
      /\ \A q \in Requests \ {r} : response'[q] = response[q] /\ pc'[q] = pc[q]
  BY <1>1 DEF InFlight, TypeOK
<1>3. TypeOK'
  BY <1>1 DEF TypeOK
<1>4. MatchedOK' /\ RacedOK'
  BY <1>1, <1>2 DEF MatchedOK, RacedOK, Former, InFlight
<1>5. MadeOK'
  <2>1. \A t \in Secrets : owner'[t] = None => t # s /\ owner[t] = None
    BY <1>1, <1>2 DEF MadeOK, TypeOK
  <2>2. \A q \in Requests : pc'[q] # "answered" => response'[q] = NoResponse
    BY <1>1, <1>2 DEF MadeOK, TypeOK
  <2>3. \A q \in InFlight' : request'[q].from # None
    BY <1>1, <1>2 DEF MadeOK
  <2>4. ASSUME NEW t \in Secrets, owner'[t] = None
        PROVE  /\ t # secretCookie'.of /\ t \notin gone'
               /\ \A q \in InFlight' : t # request'[q].secret /\ t # response'[q].secret
    BY <1>1, <1>2, <2>1, <2>4 DEF MadeOK, InFlight
  <2>5. QED
    BY <2>2, <2>3, <2>4 DEF MadeOK
<1>6. NewOK'
  BY <1>1, <1>2 DEF NewOK, MadeOK, InFlight
<1>7. RefusedForCause'
  <2>1. \A q \in Requests : response'[q].status = "forbidden" /\ q # r => response[q].status = "forbidden"
    BY <1>2
  <2>2. \A q \in InFlight : request[q].secret # None => owner'[request[q].secret] = owner[request[q].secret]
    BY <1>1 DEF MadeOK, TypeOK, InFlight
  <2>3. \A q \in Requests : response[q].status = "forbidden" => q \in InFlight
    BY DEF MadeOK, NoResponse, InFlight
  <2>4. QED
    BY <1>1, <2>1, <2>2, <2>3 DEF RefusedForCause
<1>8. KeptUnlessRaced' /\ Renewal
  BY <1>1 DEF KeptUnlessRaced, Renewal, TypeOK, Cookie
<1>9. QED
  BY <1>3, <1>4, <1>5, <1>6, <1>7, <1>8

LEMMA KeepSession ==
  ASSUME SessionInv, NEW r \in Requests, KeepSecret(r)
  PROVE  SessionInv' /\ Renewal
<1> USE CsrfAssumption DEF SessionInv
<1>1. PICK status \in {"ok", "forbidden"}, token \in {None, request[r].secret} :
        /\ response' = [response EXCEPT ![r] = [status |-> status, secret |-> None, token |-> token]]
        /\ status = "forbidden" => request[r].route = "guarded" /\ ~Activates(r)
  BY DEF KeepSecret, Answer
<1>2. /\ pc[r] = "sent" /\ request[r].secret # None
      /\ pc' = [pc EXCEPT ![r] = "answered"]
      /\ UNCHANGED <<address, secretCookie, tokenCookie, request, owner, gone, overwritten, raced>>
  BY DEF KeepSecret, Answer, jar, history
<1>3. /\ r \in InFlight /\ InFlight' = InFlight
      /\ response'[r].secret = None /\ response'[r].token \in {None, request[r].secret}
      /\ response'[r].status = status
      /\ \A q \in Requests \ {r} : response'[q] = response[q] /\ pc'[q] = pc[q]
  BY <1>1, <1>2 DEF InFlight, TypeOK
<1>4. TypeOK'
  BY <1>1, <1>2 DEF TypeOK
<1>5. MatchedOK'
  BY <1>2, <1>3 DEF MatchedOK, Former, InFlight
<1>6. MadeOK' /\ NewOK' /\ RacedOK'
  <2>1. \A q \in Requests : pc'[q] # "answered" => response'[q] = NoResponse
    BY <1>2, <1>3 DEF MadeOK, TypeOK
  <2>2. ASSUME NEW s \in Secrets, owner'[s] = None
        PROVE  /\ s # secretCookie'.of /\ s \notin gone'
               /\ \A q \in InFlight' : s # request'[q].secret /\ s # response'[q].secret
    BY <1>2, <1>3, <2>2 DEF MadeOK, InFlight
  <2>3. MadeOK'
    BY <1>2, <1>3, <2>1, <2>2 DEF MadeOK
  <2>4. NewOK' /\ RacedOK'
    BY <1>2, <1>3 DEF NewOK, RacedOK, InFlight
  <2>5. QED
    BY <2>3, <2>4
<1>7. RefusedForCause'
  <2>1. ASSUME status = "forbidden", request[r].token # None,
               owner[request[r].secret] = request[r].from
        PROVE  request[r].token \in gone
    BY <1>1, <1>3, <2>1 DEF Activates, MatchedOK
  <2>2. QED
    BY <1>2, <1>3, <2>1 DEF RefusedForCause
<1>8. KeptUnlessRaced' /\ Renewal
  BY <1>2 DEF KeptUnlessRaced, Renewal, TypeOK, Cookie
<1>9. QED
  BY <1>4, <1>5, <1>6, <1>7, <1>8

LEMMA SessionStep ==
  ASSUME SessionInv, [Next]_vars
  PROVE  SessionInv' /\ [Renewal]_vars
<1>1. CASE \E a \in Addresses : Move(a)
  <2>1. address' \in Addresses /\ UNCHANGED <<secretCookie, tokenCookie, pc, request, response,
                                             owner, gone, overwritten, raced>>
    BY <1>1 DEF Move, jar, exchange, history
  <2>2. SessionInv'
    BY <2>1 DEF SessionInv, TypeOK, MatchedOK, MadeOK, NewOK, RacedOK, RefusedForCause,
                KeptUnlessRaced, Former, InFlight
  <2>3. Renewal
    BY <2>1 DEF SessionInv, TypeOK, Cookie, Renewal
  <2>4. QED
    BY <2>2, <2>3
<1>2. CASE UNCHANGED vars
  BY <1>2 DEF vars, jar, exchange, history, SessionInv, TypeOK, MatchedOK, MadeOK, NewOK, RacedOK,
              RefusedForCause, KeptUnlessRaced, Former, InFlight
<1>3. QED
  BY <1>1, <1>2, SendSession, ReceiveSession, LoseSession, TickSession, CreateSession, KeepSession
  DEF Next

LEMMA SessionSafe == Spec => []SessionInv
<1>1. SessionInv /\ [Next]_vars => SessionInv'
  BY SessionStep
<1>2. QED
  BY <1>1, SessionInit, PTL DEF Spec

\* The cookies of the browser, the requests and the responses are well formed, and
\* a cookie that has run out is gone from the jar.
THEOREM TypeCorrect == Spec => []TypeOK
<1>1. SessionInv => TypeOK
  BY DEF SessionInv
<1>2. QED
  BY <1>1, SessionSafe, PTL

\* However requests and responses interleave and get lost, the guard refuses one
\* only for a missing cookie, a new address, or a token whose secret has left the
\* browser.
THEOREM RefusedForCauseSafe == Spec => []RefusedForCause
<1>1. SessionInv => RefusedForCause
  BY DEF SessionInv
<1>2. QED
  BY <1>1, SessionSafe, PTL

\* A browser whose requests without a secret do not overlap never loses a secret
\* before it expires.
THEOREM KeptUnlessRacedSafe == Spec => []KeptUnlessRaced
<1>1. SessionInv => KeptUnlessRaced
  BY DEF SessionInv
<1>2. QED
  BY <1>1, SessionSafe, PTL

\* No response, late or not, prolongs the life of a secret.
THEOREM SecretNotRenewedSafe == Spec => SecretNotRenewed
<1>1. SessionInv /\ [Next]_vars => [Renewal]_vars
  BY SessionStep
<1>2. QED
  BY <1>1, SessionSafe, PTL DEF Spec, SecretNotRenewed, Renewal

\* A behaviour of the sum is one of the session, whichever part it is of: what is
\* proved of CsrfSession holds of Core.
THEOREM SumIsSession == SumSpec => Spec
<1>1. SumInit => Init
  BY DEF SumInit
<1>2. [SumNext]_sumVars => [Next]_vars
  BY DEF SumNext, sumVars, csrfVars
<1>3. QED
  BY <1>1, <1>2, PTL DEF SumSpec, Spec

--------------------------------------------------------------------------------
(* PasswordHash.                                                               *)

\* The salt in use has the stored rounds, and a hash that was asked for since the
\* last salt has them too.
SaltOK ==
    /\ rounds \in Nat /\ salts \in Nat
    /\ service = "up" => salt = Password!Cost(rounds)
    /\ hash \in [Hashes -> [rounds : Nat, since : Nat]]
    /\ hashing \in [Hashes -> {"idle", "pending", "made", "failed"}]
    /\ \A h \in Hashes : hashing[h] # "idle" =>
        /\ service = "up"
        /\ hash[h].since <= salts
        /\ hash[h].since = salts => hash[h].rounds = Password!Cost(rounds)

LEMMA CostNatural == \A r \in Nat : Password!Cost(r) \in Nat
  BY DEF Password!Cost

LEMMA SaltInit == Password!Init => SaltOK
  BY DEF Password!Init, Password!NoHash, SaltOK

LEMMA SaltStep == ASSUME SaltOK, Password!Next PROVE SaltOK'
<1> USE CoreAssumption DEF SaltOK
<1>1. ASSUME NEW r \in Rounds, NEW valid \in BOOLEAN, Password!GenerateSalt(r, valid)
      PROVE  SaltOK'
  <2>1. r \in Nat /\ UNCHANGED <<hashing, hash>>
    BY <1>1 DEF Password!GenerateSalt
  <2>2. CASE valid
    <3>1. /\ salts' = salts + 1 /\ service' = "up" /\ rounds' = r /\ salt' = Password!Cost(r)
      BY <1>1, <2>2 DEF Password!GenerateSalt
    <3>2. ASSUME NEW h \in Hashes, hashing[h] # "idle"
          PROVE  hash[h].since <= salts' /\ hash[h].since # salts'
      <4>1. hash[h].since \in Nat /\ hash[h].since <= salts
        BY <3>2
      <4>2. QED
        BY <3>1, <4>1
    <3>3. rounds' \in Nat /\ salts' \in Nat /\ salt' = Password!Cost(rounds)'
      BY <2>1, <3>1 DEF Password!Cost
    <3>4. QED
      BY <2>1, <3>1, <3>2, <3>3
  <2>3. CASE ~valid
    BY <1>1, <2>1, <2>3 DEF Password!GenerateSalt
  <2>4. QED
    BY <2>2, <2>3
<1>2. ASSUME NEW h \in Hashes, Password!EncryptSync(h) \/ Password!Encrypt(h)
      PROVE  SaltOK'
  <2>1. Password!Hashed \in [rounds : Nat, since : Nat]
    BY CostNatural DEF Password!Hashed
  <2>2. /\ service = "up" /\ UNCHANGED <<service, rounds, salt, salts>>
        /\ hash' = [hash EXCEPT ![h] = Password!Hashed]
        /\ \E s \in {"made", "pending"} : hashing' = [hashing EXCEPT ![h] = s]
    BY <1>2 DEF Password!EncryptSync, Password!Encrypt
  <2>3. Password!Hashed.since = salts /\ Password!Hashed.rounds = Password!Cost(rounds)
    BY DEF Password!Hashed
  <2> DEFINE new == Password!Hashed
  <2>4. new \in [rounds : Nat, since : Nat] /\ new.since = salts /\ new.rounds = Password!Cost(rounds)
    BY <2>1, <2>3
  <2> HIDE DEF new
  <2>5. hash' \in [Hashes -> [rounds : Nat, since : Nat]]
        /\ hashing' \in [Hashes -> {"idle", "pending", "made", "failed"}]
    BY <2>2, <2>4 DEF new
  <2>6. ASSUME NEW g \in Hashes, hashing'[g] # "idle"
        PROVE  hash'[g].since <= salts /\ (hash'[g].since = salts => hash'[g].rounds = Password!Cost(rounds))
    <3>1. CASE g = h
      <4>1. hash'[g] = new
        BY <2>2, <3>1 DEF new
      <4>2. QED
        BY <2>4, <4>1
    <3>2. CASE g # h
      BY <2>2, <2>6, <3>2
    <3>3. QED
      BY <3>1, <3>2
  <2>7. QED
    BY <2>2, <2>5, <2>6 DEF Password!Cost
<1>3. ASSUME NEW h \in Hashes, Password!Encrypted(h) PROVE SaltOK'
  BY <1>3 DEF Password!Encrypted
<1>4. QED
  BY <1>1, <1>2, <1>3 DEF Password!Next

\* Whatever generateSalt was called with and however many hashes are being made, a
\* hash that was asked for since the last salt validates (BcryptService).
THEOREM NewHashesValidSafe == SumSpec => []NewHashesValid
<1> DEFINE Inv == part = "password" => SaltOK
<1>1. SumInit => Inv
  BY SaltInit DEF SumInit
<1>2. Inv /\ [SumNext]_sumVars => Inv'
  <2>1. CASE part = "password" /\ SumNext
    BY <2>1, SaltStep DEF SumNext
  <2>2. CASE part # "password" /\ SumNext
    BY <2>2 DEF SumNext
  <2>3. CASE UNCHANGED sumVars
    BY <2>3 DEF sumVars, passwordVars, SaltOK
  <2>4. QED
    BY <2>1, <2>2, <2>3
<1>3. Inv => NewHashesValid
  BY DEF NewHashesValid, Password!NewHashesValid, Password!ValidateHash, SaltOK
<1>4. QED
  BY <1>1, <1>2, <1>3, PTL DEF SumSpec

--------------------------------------------------------------------------------
(* Readiness.                                                                  *)

\* What a request has asked is what it is concerned with; of that, what is neither
\* awaited nor reported was up, and what is reported was down or has no proper url.
CheckOK ==
    /\ verdict # "none" => asked = Ready!Concerned /\ Ready!Parts \ down \subseteq wasUp /\ down \subseteq wasDown
    /\ verdict = "none" => asked = {}
    /\ checking \subseteq asked /\ report \subseteq asked
    /\ asked \ (checking \cup report) \subseteq wasUp
    /\ \A p \in report : p \in wasDown \/ (p \in Services /\ config["services"] = "bad url")
    /\ verdict = "ok" => checking = {} /\ report = {}
    /\ verdict = "error" => report # {}

LEMMA PathNamed == \A p \in Ready!Parts : Ready!Path(p) # ""
  BY Zenon DEF Ready!Parts, Ready!Path

\* The empty items of SKIP_HEALTH_CHECKS skip nothing.
LEMMA AsksConcerned ==
  {p \in Ready!Parts : Ready!IsEnabled(p) /\ ~(p = "rss" /\ config["memory"] = "heap only")}
    = Ready!Concerned
<1> DEFINE Skipped == Ready!ToSet(env.skip)
           Open(p) == config[Ready!Path(p)] \notin {"absent", "empty"}
<1>1. \A p \in Ready!Parts : Ready!IsEnabled(p) <=> Open(p) /\ Ready!Path(p) \notin Skipped
  BY PathNamed, Zenon DEF Ready!IsEnabled, Ready!GetSkipHealthChecks
<1>2. QED
  BY <1>1, Zenon DEF Ready!Concerned

LEMMA CheckStep == ASSUME CheckOK, Ready!Next PROVE CheckOK'
<1> USE DEF CheckOK
<1>1. ASSUME Ready!Start PROVE CheckOK'
  BY <1>1 DEF Ready!Start, Ready!Concerned
<1>2. ASSUME Ready!Check PROVE CheckOK'
  <2>1. /\ verdict' = "pending" /\ asked' = Ready!Concerned /\ checking' = asked' /\ report' = {}
        /\ wasDown' = down /\ wasUp' = Ready!Parts \ down /\ UNCHANGED <<env, config, app, down>>
    BY <1>2, AsksConcerned DEF Ready!Check
  <2>2. Ready!Concerned' = Ready!Concerned
    BY <2>1 DEF Ready!Concerned
  <2>3. QED
    BY <2>1, <2>2
<1>3. ASSUME NEW p \in Ready!Parts, Ready!Ping(p) PROVE CheckOK'
  <2>1. /\ p \in checking /\ checking' = checking \ {p}
        /\ UNCHANGED <<env, config, app, down, verdict, asked, wasDown, wasUp>>
    BY <1>3 DEF Ready!Ping
  <2>2. Ready!Concerned' = Ready!Concerned
    BY <2>1 DEF Ready!Concerned
  <2>3. verdict # "none" /\ verdict # "ok"
    BY <2>1
  <2>4. CASE p \in down \/ (p \in Services /\ config["services"] = "bad url")
    <3>1. report' = report \cup {p}
      BY <1>3, <2>4 DEF Ready!Ping
    <3>2. QED
      BY <2>1, <2>2, <2>3, <2>4, <3>1
  <2>5. CASE ~(p \in down \/ (p \in Services /\ config["services"] = "bad url"))
    <3>1. report' = report /\ p \in wasUp
      BY <1>3, <2>3, <2>5 DEF Ready!Ping
    <3>2. QED
      BY <2>1, <2>2, <2>3, <3>1
  <2>6. QED
    BY <2>4, <2>5
<1>4. ASSUME Ready!Answer PROVE CheckOK'
  BY <1>4 DEF Ready!Answer, Ready!Concerned
<1>5. ASSUME NEW p \in Volatile, Ready!Change(p) PROVE CheckOK'
  <2>1. /\ wasDown' = wasDown \cup down' /\ wasUp' = wasUp \cup (Ready!Parts \ down')
        /\ UNCHANGED <<env, config, app, checking, report, verdict, asked>>
    BY <1>5 DEF Ready!Change
  <2>2. Ready!Concerned' = Ready!Concerned
    BY <2>1 DEF Ready!Concerned
  <2>3. QED
    BY <2>1, <2>2
<1>6. QED
  BY <1>1, <1>2, <1>3, <1>4, <1>5 DEF Ready!Next

\* A readiness answer speaks for what is configured and not skipped, whatever goes
\* down or comes back while the checks run, and for any services and configurations.
THEOREM ReadyForCauseSafe == SumSpec => []ReadyForCause
<1> DEFINE Inv == part = "ready" => CheckOK
<1>1. SumInit => Inv
  BY DEF SumInit, Ready!Init, CheckOK
<1>2. Inv /\ [SumNext]_sumVars => Inv'
  <2>1. CASE part = "ready" /\ SumNext
    BY <2>1, CheckStep DEF SumNext
  <2>2. CASE part # "ready" /\ SumNext
    BY <2>2 DEF SumNext
  <2>3. CASE UNCHANGED sumVars
    BY <2>3 DEF sumVars, readyVars, CheckOK, Ready!Concerned
  <2>4. QED
    BY <2>1, <2>2, <2>3
<1>3. Inv => ReadyForCause
  BY DEF ReadyForCause, Ready!ReadyForCause, CheckOK
<1>4. QED
  BY <1>1, <1>2, <1>3, PTL DEF SumSpec

--------------------------------------------------------------------------------
(* QueryParams.                                                                *)

LEMMA Quotient ==
  ASSUME NEW a \in Nat, NEW s \in Nat \ {0}
  PROVE  a \div s \in Nat /\ s * (a \div s) <= a /\ a < s * ((a \div s) + 1)
<1>1. a \div s \in Int /\ a % s \in 0..(s - 1) /\ a = s * (a \div s) + (a % s)
  OBVIOUS
<1>2. s * ((a \div s) + 1) = s * (a \div s) + s
  BY <1>1
<1> DEFINE q == a \div s
           m == s * q
<1>3. m \in Int /\ a < m + s /\ m <= a
  BY <1>1
<1>4. q \in Nat
  <2>1. CASE q < 0
    <3>1. s * q <= s * (0 - 1)
      BY <1>1, <2>1
    <3>2. QED
      BY <1>3, <3>1
  <2>2. QED
    BY <1>1, <2>1
<1>5. QED
  BY <1>2, <1>3, <1>4

LEMMA Monotonic ==
  ASSUME NEW s \in Nat \ {0}, NEW a \in Int, NEW b \in Int
  PROVE  /\ a <= b => s * a <= s * b
         /\ s * a < s * b => a < b
         /\ s * (a + 1) = s * a + s /\ s * (a - 1) = s * a - s
         /\ s * a \in Int
  OBVIOUS

\* The pages of t items of s each.
LEMMA CeilOK ==
  ASSUME NEW t \in Nat, NEW s \in Nat \ {0}
  PROVE  /\ Query!Ceil(t, s) \in Nat
         /\ s * Query!Ceil(t, s) >= t
         /\ t > 0 => Query!Ceil(t, s) >= 1 /\ s * (Query!Ceil(t, s) - 1) < t
         /\ t = 0 => Query!Ceil(t, s) = 0
         /\ Query!Ceil(t, s) <= t
<1> DEFINE k == (t + s - 1) \div s
<1>1. k \in Nat /\ s * k <= t + s - 1 /\ t + s - 1 < s * (k + 1)
  BY Quotient
<1> HIDE DEF k
<1>2. /\ s * (k + 1) = s * k + s /\ s * (k - 1) = s * k - s /\ s * k \in Int
      /\ s * (t + 1) = s * t + s /\ s * t >= t
  BY <1>1
<1>3. s * k >= t /\ s * (k - 1) < t
  BY <1>1, <1>2
<1>4. t > 0 => k >= 1
  BY <1>1, <1>3
<1>5. t = 0 => k = 0
  <2>1. ASSUME t = 0, k >= 1 PROVE FALSE
    <3>1. s * k >= s * 1
      BY <1>1, <2>1, Monotonic
    <3>2. QED
      BY <1>1, <1>2, <2>1, <3>1
  <2>2. QED
    BY <1>1, <2>1
<1>6. k <= t
  <2>1. ASSUME k >= t + 1 PROVE FALSE
    <3>1. s * k >= s * (t + 1)
      BY <1>1, <2>1, Monotonic
    <3>2. QED
      BY <1>1, <1>2, <3>1
  <2>2. QED
    BY <1>1, <2>1
<1>7. k = Query!Ceil(t, s)
  BY DEF k, Query!Ceil
<1>8. QED
  BY <1>1, <1>3, <1>4, <1>5, <1>6, <1>7

SizeOK(size) == size = Query!Absent \/ size[1] # "integer" \/ size[2] \in Nat
TypedOK(r) == r.total \in Nat /\ SizeOK(r.size)

QueryOK ==
    /\ TypedOK(input)
    /\ pagination.size \in Nat \ {0}

LEMMA InputTyped == \A x \in Query!Inputs : TypedOK(x)
<1>1. Query!NoInput.total = 0 /\ Query!NoInput.size = Query!Absent
  BY DEF Query!NoInput
<1>2. DOMAIN Query!NoInput =
        {"route", "payload", "filters", "sort", "page", "size", "total", "headers", "returns"}
  BY DEF Query!NoInput
<1>3. ASSUME NEW x \in Query!RouteInputs PROVE TypedOK(x)
  <2>1. PICK r : x = [Query!NoInput EXCEPT !.route = r.route, !.payload = r.payload]
    BY Zenon DEF Query!RouteInputs
  <2>2. x.total = 0 /\ x.size = Query!Absent
    BY <1>1, <1>2, <2>1
  <2>3. QED
    BY <2>2 DEF TypedOK, SizeOK
<1>4. ASSUME NEW x \in Query!FilterInputs PROVE TypedOK(x)
  BY <1>1, <1>2 DEF Query!FilterInputs, TypedOK, SizeOK
<1>5. ASSUME NEW x \in Query!SortInputs PROVE TypedOK(x)
  <2>1. PICK r : x = [Query!NoInput EXCEPT !.sort = r.sort, !.headers = r.headers, !.returns = r.returns]
    BY Zenon DEF Query!SortInputs
  <2>2. x.total = 0 /\ x.size = Query!Absent
    BY <1>1, <1>2, <2>1
  <2>3. QED
    BY <2>2 DEF TypedOK, SizeOK
<1>6. ASSUME NEW x \in Query!PageInputs PROVE TypedOK(x)
  <2> DEFINE pages == {Query!Absent, Query!NotInteger} \cup {Query!Given(n) : n \in 0..3}
             sizes == {Query!Absent, Query!NotInteger} \cup {Query!Given(n) : n \in {0, 1, 2, 3, 100, 101}}
  <2>1. PICK r \in [page : pages, size : sizes, total : 0..MaxTotal] :
            x = [Query!NoInput EXCEPT !.page = r.page, !.size = r.size, !.total = r.total]
    BY Zenon DEF Query!PageInputs
  <2>2. x.total = r.total /\ x.size = r.size
    BY <1>1, <1>2, <2>1
  <2>3. r.total \in Nat /\ r.size \in sizes
    <3> HIDE DEF pages, sizes
    <3>1. QED
      BY <2>1, CoreAssumption
  <2>4. SizeOK(r.size)
    <3>1. Query!NotInteger[1] # "integer"
      BY DEF Query!NotInteger
    <3>2. \A n \in {0, 1, 2, 3, 100, 101} : Query!Given(n)[2] \in Nat
      BY DEF Query!Given
    <3>3. QED
      BY <2>3, <3>1, <3>2, Zenon DEF SizeOK
  <2>5. QED
    BY <2>2, <2>3, <2>4 DEF TypedOK
<1>7. QED
  BY <1>3, <1>4, <1>5, <1>6 DEF Query!Inputs

LEMMA QueryStep == ASSUME QueryOK, Query!Next PROVE QueryOK'
<1>1. ASSUME Query!ReadParams PROVE QueryOK'
  <2>1. CASE Query!PaginationAccepts(input.page, input.size)
    <3>1. Query!Valid(input.size, 100)
      BY <2>1 DEF Query!PaginationAccepts, Query!MAX_SIZE
    <3>2. CASE input.size = Query!Absent
      <4>1. Query!Pagination(input.page, input.size).size = 10
        BY <3>2 DEF Query!Pagination, Query!DEFAULT_SIZE
      <4>2. QED
        BY <1>1, <4>1 DEF Query!ReadParams, QueryOK, TypedOK, SizeOK
    <3>3. CASE input.size # Query!Absent
      <4>1. input.size[1] = "integer" /\ input.size[2] \in Nat
        BY <3>1, <3>3, Zenon DEF Query!Valid, QueryOK, TypedOK, SizeOK
      <4>2. input.size[2] >= 1
        BY <3>1, <3>3, Zenon DEF Query!Valid
      <4>3. Query!Pagination(input.page, input.size).size = input.size[2]
        BY <3>3 DEF Query!Pagination
      <4>4. QED
        BY <1>1, <4>1, <4>2, <4>3 DEF Query!ReadParams, QueryOK, TypedOK, SizeOK
    <3>4. QED
      BY <3>2, <3>3
  <2>2. CASE ~Query!PaginationAccepts(input.page, input.size)
    BY <1>1, <2>2 DEF Query!ReadParams, QueryOK, TypedOK, SizeOK
  <2>3. QED
    BY <2>1, <2>2
<1>2. ASSUME Query!Authenticate \/ Query!Guard \/ Query!Respond PROVE QueryOK'
  BY <1>2 DEF Query!Authenticate, Query!Guard, Query!Respond, QueryOK, TypedOK, SizeOK
<1>3. QED
  BY <1>1, <1>2 DEF Query!Next

\* The pages that follow each other are 1..totalPages, or 1 if there is nothing.
LEMMA PagesFollow ==
  ASSUME NEW t \in Nat, NEW s \in Nat \ {0}
  PROVE  {p \in 1..t + 1 : \A q \in 1..p - 1 : q < Query!Ceil(t, s)}
           = 1..(IF t = 0 THEN 1 ELSE Query!Ceil(t, s))
<1> DEFINE k == Query!Ceil(t, s)
<1>1. k \in Nat /\ k <= t /\ (t > 0 => k >= 1)
  BY CeilOK
<1> HIDE DEF k
<1>2. ASSUME NEW p \in 1..t + 1, \A q \in 1..p - 1 : q < k, t > 0
      PROVE  p <= k
  <2>1. CASE p = 1
    BY <1>1, <1>2, <2>1
  <2>2. CASE p > 1
    <3>1. p - 1 \in 1..p - 1
      BY <2>2
    <3>2. p - 1 < k
      BY <1>2, <3>1
    <3>3. QED
      BY <1>1, <3>2
  <2>3. QED
    BY <2>1, <2>2
<1>3. CASE t = 0
  BY <1>1, <1>3 DEF k
<1>4. CASE t > 0
  <2>1. {p \in 1..t + 1 : \A q \in 1..p - 1 : q < k} = 1..k
    BY <1>1, <1>2, <1>4
  <2>2. QED
    BY <1>4, <2>1 DEF k
<1>5. QED
  BY <1>3, <1>4

\* The items of page p.
PageItems(t, s, p) == ((p - 1) * s + 1) .. Query!Min({p * s, t})

LEMMA MinOfTwo ==
  ASSUME NEW a \in Int, NEW b \in Int
  PROVE  Query!Min({a, b}) = IF a < b THEN a ELSE b
<1> DEFINE min == IF a < b THEN a ELSE b
<1>1. min \in {a, b} /\ \A y \in {a, b} : min <= y
  OBVIOUS
<1>2. \A z \in {a, b} : (\A y \in {a, b} : z <= y) => z = min
  OBVIOUS
<1>3. Query!Min({a, b}) \in {a, b} /\ \A y \in {a, b} : Query!Min({a, b}) <= y
  BY <1>1 DEF Query!Min
<1>4. QED
  BY <1>2, <1>3

LEMMA PagesItems ==
  ASSUME NEW t \in Nat \ {0}, NEW s \in Nat \ {0}
  PROVE  /\ \A item \in 1..t : \E p \in 1..Query!Ceil(t, s) : item \in PageItems(t, s, p)
         /\ \A p \in 1..Query!Ceil(t, s) : PageItems(t, s, p) # {}
<1> DEFINE k == Query!Ceil(t, s)
<1>1. k \in Nat /\ s * k >= t /\ k >= 1 /\ s * (k - 1) < t
  BY CeilOK
<1>2. ASSUME NEW item \in 1..t
      PROVE  \E p \in 1..k : item \in PageItems(t, s, p)
  <2> DEFINE p == Query!Ceil(item, s)
  <2>1. p \in Nat /\ s * p >= item /\ p >= 1 /\ s * (p - 1) < item
    BY CeilOK
  <2> HIDE DEF k, p
  <2>2. p <= k
    <3>1. s * (p - 1) < s * k
      <4>1. s * (p - 1) \in Int /\ s * k \in Int
        BY <1>1, <2>1
      <4>2. QED
        BY <1>1, <2>1, <4>1
    <3>2. p - 1 < k
      BY <1>1, <2>1, <3>1, Monotonic
    <3>3. QED
      BY <1>1, <2>1, <3>2
  <2>3. (p - 1) * s = s * (p - 1) /\ p * s = s * p /\ s * (p - 1) \in Int /\ s * p \in Int
    BY <2>1
  <2>4. Query!Min({p * s, t}) >= item
    BY <2>1, <2>3, MinOfTwo
  <2>5. Query!Min({p * s, t}) \in Int
    BY <2>3, MinOfTwo
  <2>6. item \in PageItems(t, s, p)
    BY <2>1, <2>3, <2>4, <2>5 DEF PageItems
  <2>7. QED
    BY <1>1, <2>1, <2>2, <2>6
<1>3. ASSUME NEW p \in 1..k
      PROVE  PageItems(t, s, p) # {}
  <2> HIDE DEF k
  <2>1. s * (p - 1) <= s * (k - 1)
    BY <1>1, Monotonic
  <2>2. /\ (p - 1) * s = s * (p - 1) /\ p * s = s * p /\ s * p = s * (p - 1) + s
        /\ s * (p - 1) \in Int /\ s * p \in Int /\ s * (k - 1) \in Int
    BY <1>1
  <2>3. (p - 1) * s + 1 <= Query!Min({p * s, t}) /\ Query!Min({p * s, t}) \in Int
    BY <1>1, <2>1, <2>2, MinOfTwo
  <2>4. (p - 1) * s + 1 \in PageItems(t, s, p)
    BY <2>2, <2>3 DEF PageItems
  <2>5. QED
    BY <2>4
<1>4. QED
  BY <1>2, <1>3

\* Who follows the pages gets every item, on no empty page, for any number of items
\* and any size of a page (calculatePagination).
THEOREM PagesCoverSafe == SumSpec => []PagesCover
<1> DEFINE Inv == part = "query" => QueryOK
<1>1. SumInit => Inv
  BY InputTyped DEF SumInit, Query!Init, QueryOK, Query!DEFAULT_SIZE
<1>2. Inv /\ [SumNext]_sumVars => Inv'
  <2>1. CASE part = "query" /\ SumNext
    BY <2>1, QueryStep DEF SumNext
  <2>2. CASE part # "query" /\ SumNext
    BY <2>2 DEF SumNext
  <2>3. CASE UNCHANGED sumVars
    BY <2>3 DEF sumVars, queryVars, QueryOK, TypedOK, SizeOK
  <2>4. QED
    BY <2>1, <2>2, <2>3
<1>3. Inv => PagesCover
  <2>1. ASSUME QueryOK PROVE Query!PagesCover
    <3> DEFINE t == input.total
               s == pagination.size
               k == Query!Ceil(t, s)
               Reached == {p \in 1..t + 1 : \A q \in 1..p - 1 : q < k}
    <3>1. t \in Nat /\ s \in Nat \ {0}
      BY <2>1 DEF QueryOK, TypedOK
    <3>2. \A p : /\ Query!CalculatePagination(t, p, s).hasNext = (p < k)
                 /\ Query!CalculatePagination(t, p, s).totalPages = k
      BY DEF Query!CalculatePagination
    <3> HIDE DEF t, s, k
    <3>3. Reached = 1..(IF t = 0 THEN 1 ELSE k)
      BY <3>1, PagesFollow DEF k
    <3>4. /\ \A item \in 1..t : \E p \in Reached : item \in PageItems(t, s, p)
          /\ \A p \in Reached : PageItems(t, s, p) # {} \/ t = 0
      <4>1. CASE t = 0
        BY <4>1
      <4>2. CASE t # 0
        <5>1. Reached = 1..k
          BY <3>3, <4>2
        <5>2. QED
          BY <3>1, <4>2, <5>1, PagesItems DEF k
      <4>3. QED
        BY <4>1, <4>2
    <3>5. Reached = 1..k \/ t = 0
      BY <3>3
    <3>6. QED
      BY <3>2, <3>4, <3>5 DEF Query!PagesCover, PageItems, t, s
  <2>2. QED
    BY <2>1 DEF PagesCover
<1>4. QED
  BY <1>1, <1>2, <1>3, PTL DEF SumSpec

--------------------------------------------------------------------------------
(* The filters of QueryParams.  The texts and the scan are recursive functions *)
(* on numbers: what holds of them is shown by counting up to a number.         *)

LEMMA Counting ==
  ASSUME NEW N \in Nat, NEW S, 0 \in S, \A n \in 0..N - 1 : n \in S => n + 1 \in S
  PROVE  0..N \subseteq S
<1> DEFINE T == (0..N) \ S
           R == {ss \in Nat \X Nat : ss[1] < ss[2]}
<1>1. SUFFICES ASSUME T # {} PROVE FALSE
  OBVIOUS
<1>2. IsWellFoundedOn(R, Nat)
  BY NatLessThanWellFounded DEF OpToRel
<1>3. T \subseteq 0..N /\ T \subseteq Nat
  OBVIOUS
<1>4. \A a, b \in Nat : a < b => <<a, b>> \in R
  OBVIOUS
<1>5. \A n \in 0..N : n \notin T => n \in S
  OBVIOUS
<1>6. \A n \in T : n \notin S
  OBVIOUS
<1> HIDE DEF R, T
<1>7. PICK t \in T : \A u \in T : <<u, t>> \notin R
  BY <1>1, <1>2, <1>3, WFMin, Zenon
<1>8. t \in 1..N /\ t - 1 \in 0..N - 1 /\ t - 1 \in 0..N /\ (t - 1) + 1 = t
  BY <1>3, <1>6, <1>7
<1>9. t - 1 \notin T
  <2>1. t - 1 \in Nat /\ t \in Nat /\ t - 1 < t
    BY <1>8
  <2>2. <<t - 1, t>> \in R
    BY <1>4, <2>1, Zenon
  <2>3. QED
    BY <1>7, <2>2, Zenon
<1>10. QED
  BY <1>5, <1>6, <1>7, <1>8, <1>9

Fresh(parsed) == [filters |-> parsed, buffer |-> <<>>, inValue |-> FALSE]
ScanAt(text, s, n) ==
    IF n = 0 THEN [filters |-> <<>>, buffer |-> <<>>, inValue |-> FALSE] ELSE Query!Scan(s[n - 1], text[n])
TextAt(list, t, n) ==
    IF n = 0 THEN <<>>
    ELSE IF n = 1 THEN Query!Text(list[1])
    ELSE t[n - 1] \o <<Query!Comma>> \o Query!Text(list[n])

LEMMA ScannedRec ==
  ASSUME NEW text, Len(text) \in Nat
  PROVE  /\ DOMAIN Query!Scanned(text) = 0..Len(text)
         /\ \A k \in 0..Len(text) : Query!Scanned(text)[k] = ScanAt(text, Query!Scanned(text), k)
<1> DEFINE N == Len(text)
           Def(g, m) == g = [n \in 0..m |-> ScanAt(text, g, n)]
           S == {m \in 0..N : \E g : Def(g, m)}
<1>1. 0 \in S
  <2> DEFINE g == [n \in 0..0 |-> ScanAt(text, <<>>, 0)]
  <2>1. Def(g, 0)
    BY DEF ScanAt
  <2> HIDE DEF g, Def
  <2>2. QED
    BY <2>1
<1>2. ASSUME NEW m \in 0..N - 1, m \in S PROVE m + 1 \in S
  <2>1. PICK g : Def(g, m)
    BY <1>2
  <2> DEFINE h == [n \in 0..m + 1 |-> IF n <= m THEN g[n] ELSE ScanAt(text, g, m + 1)]
  <2>2. ASSUME NEW n \in 0..m + 1 PROVE h[n] = ScanAt(text, h, n)
    <3>1. n # 0 => n - 1 \in 0..m /\ h[n - 1] = g[n - 1]
      OBVIOUS
    <3>2. ScanAt(text, h, n) = ScanAt(text, g, n)
      <4> HIDE DEF h
      <4>1. QED
        BY <3>1 DEF ScanAt
    <3>3. n <= m => h[n] = ScanAt(text, g, n)
      BY <2>1
    <3>4. n = m + 1 => h[n] = ScanAt(text, g, n)
      OBVIOUS
    <3>5. QED
      BY <3>2, <3>3, <3>4
  <2>3. Def(h, m + 1)
    BY <2>2
  <2> HIDE DEF h, Def
  <2>4. QED
    BY <2>3
<1>3. N \in S
  <2>1. \A n \in 0..N - 1 : n \in S => n + 1 \in S
    BY <1>2
  <2>2. N \in Nat /\ N \in 0..N
    OBVIOUS
  <2> HIDE DEF N, S
  <2>3. QED
    BY <1>1, <2>1, <2>2, Counting, Zenon
<1>4. Def(Query!Scanned(text), N)
  <2>1. \E g : Def(g, N)
    BY <1>3
  <2>2. Query!Scanned(text) = CHOOSE g : Def(g, N)
    BY DEF Query!Scanned, ScanAt
  <2> HIDE DEF Def
  <2>3. QED
    BY <2>1, <2>2
<1>5. QED
  BY <1>4

LEMMA TextsRec ==
  ASSUME NEW list, Len(list) \in Nat
  PROVE  /\ DOMAIN Query!Texts(list) = 0..Len(list)
         /\ \A k \in 0..Len(list) : Query!Texts(list)[k] = TextAt(list, Query!Texts(list), k)
<1> DEFINE N == Len(list)
           Def(g, m) == g = [n \in 0..m |-> TextAt(list, g, n)]
           S == {m \in 0..N : \E g : Def(g, m)}
<1>1. 0 \in S
  <2> DEFINE g == [n \in 0..0 |-> <<>>]
  <2>1. Def(g, 0)
    BY DEF TextAt
  <2> HIDE DEF g, Def
  <2>2. QED
    BY <2>1
<1>2. ASSUME NEW m \in 0..N - 1, m \in S PROVE m + 1 \in S
  <2>1. PICK g : Def(g, m)
    BY <1>2
  <2> DEFINE h == [n \in 0..m + 1 |-> IF n <= m THEN g[n] ELSE TextAt(list, g, m + 1)]
  <2>2. ASSUME NEW n \in 0..m + 1 PROVE h[n] = TextAt(list, h, n)
    <3>1. n # 0 => n - 1 \in 0..m /\ h[n - 1] = g[n - 1]
      OBVIOUS
    <3>2. TextAt(list, h, n) = TextAt(list, g, n)
      <4> HIDE DEF h
      <4>1. QED
        BY <3>1 DEF TextAt
    <3>3. n <= m => h[n] = TextAt(list, g, n)
      BY <2>1
    <3>4. n = m + 1 => h[n] = TextAt(list, g, n)
      OBVIOUS
    <3>5. QED
      BY <3>2, <3>3, <3>4
  <2>3. Def(h, m + 1)
    BY <2>2
  <2> HIDE DEF h, Def
  <2>4. QED
    BY <2>3
<1>3. N \in S
  <2>1. \A n \in 0..N - 1 : n \in S => n + 1 \in S
    BY <1>2
  <2>2. N \in Nat /\ N \in 0..N
    OBVIOUS
  <2> HIDE DEF N, S
  <2>3. QED
    BY <1>1, <2>1, <2>2, Counting, Zenon
<1>4. Def(Query!Texts(list), N)
  <2>1. \E g : Def(g, N)
    BY <1>3
  <2>2. Query!Texts(list) = CHOOSE g : Def(g, N)
    BY DEF Query!Texts, TextAt
  <2> HIDE DEF Def
  <2>3. QED
    BY <2>1, <2>2
<1>5. QED
  BY <1>4

--------------------------------------------------------------------------------
\* What the texts of filters are made of, and the filters of requests.
Token == Words \cup Rules \cup {"age", "other"} \cup {Query!Colon, Query!Comma}
Filter == [property : {"age", "other"}, rule : Rules, values : Seq(Words)]

LEMMA Separators ==
  /\ \A t \in Words \cup Rules \cup {"age", "other"} : t \in Token /\ t # Query!Colon /\ t # Query!Comma
  /\ Query!Colon \in Token /\ Query!Comma \in Token /\ Query!Colon # Query!Comma
<1>1. \A t \in Words \cup Rules : t # ":" /\ t # ","
  BY WordsAssumption, Zenon
<1>2. \A t \in {"age", "other"} : t # ":" /\ t # ","
  BY Zenon
<1>3. \A t \in Words \cup Rules \cup {"age", "other"} : t # ":" /\ t # ","
  BY <1>1, <1>2, Zenon
<1>4. \A t \in Words \cup Rules \cup {"age", "other"} : t \in Token
  BY Zenon DEF Token
<1>5. Query!Colon \in Token /\ Query!Comma \in Token /\ ":" # ","
  BY Zenon DEF Token
<1>6. QED
  BY <1>3, <1>4, <1>5, Zenon DEF Query!Colon, Query!Comma

LEMMA TextAsWritten ==
  ASSUME NEW f \in Filter
  PROVE  /\ Len(f.values) \in Nat /\ Len(Query!Text(f)) = 3 + 2 * Len(f.values)
         /\ Query!Text(f) = [k \in 1..Len(Query!Text(f)) |-> Query!Text(f)[k]]
         /\ Query!Text(f)[1] = f.property /\ Query!Text(f)[2] = Query!Colon /\ Query!Text(f)[3] = f.rule
         /\ Len(f.values) > 0 => Query!Text(f)[4] = Query!Colon
         /\ \A i \in 1..Len(f.values) :
                Query!Text(f)[2 * i + 3] = f.values[i] /\ (i > 1 => Query!Text(f)[2 * i + 2] = Query!Comma)
<1> DEFINE text == Query!Text(f)
           n == Len(f.values)
           At(k) == CASE k = 1 -> f.property
                      [] k = 3 -> f.rule
                      [] k \in {2, 4} -> Query!Colon
                      [] OTHER -> IF k % 2 = 0 THEN Query!Comma ELSE f.values[(k - 3) \div 2]
<1>1. n \in Nat
  BY DEF Filter
<1>2. text = [k \in 1..3 + 2 * n |-> At(k)]
  BY DEF Query!Text
<1>3. At(1) = f.property /\ At(2) = Query!Colon /\ At(3) = f.rule /\ At(4) = Query!Colon
  OBVIOUS
<1>4. ASSUME NEW i \in 1..n
      PROVE  At(2 * i + 3) = f.values[i] /\ (i > 1 => At(2 * i + 2) = Query!Comma)
  <2> HIDE DEF n
  <2>1. /\ (2 * i + 3) % 2 = 1 /\ ((2 * i + 3) - 3) \div 2 = i /\ (2 * i + 2) % 2 = 0
        /\ 2 * i + 3 \notin {1, 2, 3, 4} /\ 2 * i + 2 \notin {1, 2, 3} /\ (i > 1 => 2 * i + 2 # 4)
    BY <1>1
  <2>2. ASSUME NEW k, k \notin {1, 2, 3, 4}
        PROVE  At(k) = IF k % 2 = 0 THEN Query!Comma ELSE f.values[(k - 3) \div 2]
    BY <2>2
  <2> HIDE DEF At
  <2>4. At(2 * i + 3) = f.values[i]
    BY <2>1, <2>2
  <2>5. i > 1 => 2 * i + 2 \notin {1, 2, 3, 4}
    BY <2>1
  <2>6. i > 1 => At(2 * i + 2) = Query!Comma
    BY <2>1, <2>2, <2>5
  <2>7. QED
    BY <2>4, <2>6
<1> HIDE DEF text, n, At
<1>5. /\ Len(text) = 3 + 2 * n /\ \A k \in 1..3 + 2 * n : text[k] = At(k)
      /\ text = [k \in 1..Len(text) |-> text[k]]
  BY <1>1, <1>2
<1>6. ASSUME NEW i \in 1..n PROVE 2 * i + 3 \in 1..3 + 2 * n /\ 2 * i + 2 \in 1..3 + 2 * n
  BY <1>1
<1>7. /\ 1 \in 1..3 + 2 * n /\ 2 \in 1..3 + 2 * n /\ 3 \in 1..3 + 2 * n
      /\ n > 0 => 4 \in 1..3 + 2 * n
  BY <1>1
<1>8. /\ text[1] = f.property /\ text[2] = Query!Colon /\ text[3] = f.rule
      /\ n > 0 => text[4] = Query!Colon
  BY <1>3, <1>5, <1>7, Zenon
<1>9. \A i \in 1..n : text[2 * i + 3] = f.values[i] /\ (i > 1 => text[2 * i + 2] = Query!Comma)
  BY <1>4, <1>5, <1>6, Zenon
<1>10. QED
  BY <1>1, <1>5, <1>8, <1>9 DEF text, n

\* A text from its fifth token on.
LEMMA TextValues ==
  ASSUME NEW f \in Filter, NEW i \in 5..Len(Query!Text(f))
  PROVE  /\ i % 2 = 0 => Query!Text(f)[i] = Query!Comma
         /\ i % 2 = 1 => Query!Text(f)[i] \in Words
<1> DEFINE text == Query!Text(f)
           n == Len(f.values)
           v == (i - 3) \div 2
<1>1. /\ n \in Nat /\ Len(text) = 3 + 2 * n
      /\ \A k \in 1..n : text[2 * k + 3] = f.values[k] /\ (k > 1 => text[2 * k + 2] = Query!Comma)
  BY TextAsWritten, Zenon
<1>2. \A k \in 1..n : f.values[k] \in Words
  BY DEF Filter
<1> HIDE DEF text, n
<1>3. /\ i % 2 = 1 => v \in 1..n /\ 2 * v + 3 = i
      /\ i % 2 = 0 => v + 1 \in 1..n /\ v + 1 > 1 /\ 2 * (v + 1) + 2 = i
  <2>1. Len(text) = 3 + 2 * n /\ n \in Nat /\ i \in 5..Len(text)
    BY <1>1 DEF text
  <2>2. i \in 5..3 + 2 * n
    BY <2>1
  <2>3. QED
    BY <2>1, <2>2
<1> HIDE DEF v
<1>4. ASSUME i % 2 = 1 PROVE text[i] \in Words
  <2>1. v \in 1..n /\ 2 * v + 3 = i
    BY <1>3, <1>4
  <2>2. QED
    BY <1>1, <1>2, <2>1, Zenon
<1>5. ASSUME i % 2 = 0 PROVE text[i] = Query!Comma
  <2>1. v + 1 \in 1..n /\ v + 1 > 1 /\ 2 * (v + 1) + 2 = i
    BY <1>3, <1>5
  <2>2. QED
    BY <1>1, <2>1, Zenon
<1>6. QED
  BY <1>4, <1>5 DEF text

LEMMA TextOK ==
  ASSUME NEW f \in Filter
  PROVE  /\ Query!Text(f) \in Seq(Token)
         /\ \A i \in 5..Len(Query!Text(f)) :
                Query!Text(f)[i] # Query!Colon /\ (Query!Text(f)[i] = Query!Comma <=> i % 2 = 0)
<1> DEFINE text == Query!Text(f)
           n == Len(f.values)
<1>1. n \in Nat /\ Len(text) = 3 + 2 * n /\ text = [k \in 1..Len(text) |-> text[k]]
  BY TextAsWritten, Zenon
<1>2. /\ text[1] = f.property /\ text[2] = Query!Colon /\ text[3] = f.rule
      /\ n > 0 => text[4] = Query!Colon
  BY TextAsWritten, Zenon
<1>3. \A i \in 5..Len(text) : (i % 2 = 0 => text[i] = Query!Comma) /\ (i % 2 = 1 => text[i] \in Words)
  BY TextValues, Zenon
<1>4. f.property \in {"age", "other"} /\ f.rule \in Rules
  BY DEF Filter
<1>5. \A i \in 5..Len(text) : i % 2 = 0 \/ i % 2 = 1
  OBVIOUS
<1> HIDE DEF text, n
<1>7. \A i \in 5..Len(text) : text[i] # Query!Colon /\ (text[i] = Query!Comma <=> i % 2 = 0)
  <2> SUFFICES ASSUME NEW i \in 5..Len(text) PROVE text[i] # Query!Colon /\ (text[i] = Query!Comma <=> i % 2 = 0)
    OBVIOUS
  <2>1. CASE i % 2 = 0
    <3>1. text[i] = Query!Comma
      BY <1>3, <2>1, Zenon
    <3>2. QED
      BY <2>1, <3>1, Separators, Zenon
  <2>2. CASE i % 2 = 1
    <3>1. text[i] \in Words
      BY <1>3, <2>2, Zenon
    <3>2. text[i] # Query!Colon /\ text[i] # Query!Comma
      BY <3>1, Separators, Zenon
    <3>3. i % 2 # 0
      BY <2>2
    <3>4. QED
      BY <3>2, <3>3, Zenon
  <2>3. QED
    BY <1>5, <2>1, <2>2, Zenon
<1>8. \A i \in 1..Len(text) : text[i] \in Token
  <2> SUFFICES ASSUME NEW i \in 1..Len(text) PROVE text[i] \in Token
    OBVIOUS
  <2>1. CASE i \in 5..Len(text)
    BY <1>3, <1>5, <2>1, Separators, Zenon
  <2>2. CASE i \in 1..4
    <3>1. i \in {1, 2, 3, 4} /\ (i = 4 => n > 0)
      BY <1>1, <2>2
    <3>2. QED
      BY <1>2, <1>4, <3>1, Separators, Zenon
  <2>3. QED
    BY <1>1, <2>1, <2>2
<1>9. text \in Seq(Token)
  <2>1. Len(text) \in Nat
    BY <1>1
  <2>2. QED
    BY <1>1, <1>8, <2>1
<1>10. QED
  BY <1>7, <1>9 DEF text

LEMMA TextFormatted == \A f \in Filter : Query!Formatted(Query!Text(f))
<1> SUFFICES ASSUME NEW f \in Filter PROVE Query!Formatted(Query!Text(f))
  OBVIOUS
<1> DEFINE text == Query!Text(f)
           n == Len(f.values)
<1>1. n \in Nat /\ Len(text) = 3 + 2 * n
  BY TextAsWritten, Zenon
<1>2. /\ text[1] = f.property /\ text[2] = Query!Colon /\ text[3] = f.rule
      /\ n > 0 => text[4] = Query!Colon
  BY TextAsWritten, Zenon
<1>3. \A i \in 5..Len(text) : text[i] # Query!Colon /\ (text[i] = Query!Comma <=> i % 2 = 0)
  BY TextOK, Zenon
<1>4. f.property \in {"age", "other"} /\ f.rule \in Rules
  BY DEF Filter
<1> HIDE DEF text, n
<1>5. {text[1], text[3]} \cap {Query!Colon, Query!Comma} = {}
  BY <1>2, <1>4, Separators
<1>6. Len(text) >= 3 /\ (Len(text) > 3 => n > 0)
  BY <1>1
<1>7. ASSUME Len(text) > 3 PROVE text[Len(text)] # Query!Comma
  <2>1. Len(text) \in 5..Len(text) /\ Len(text) % 2 # 0
    BY <1>1, <1>7
  <2>2. QED
    BY <1>3, <2>1, Zenon
<1>8. Query!Formatted(text)
  BY <1>2, <1>3, <1>5, <1>6, <1>7, Zenon DEF Query!Formatted, Query!Last
<1>9. QED
  BY <1>8 DEF text

LEMMA TextRead ==
  ASSUME NEW f \in Filter
  PROVE  Query!ReadFilter(Query!Text(f)) =
            [property |-> f.property, rule |-> f.rule,
             values |-> IF f.rule \in {"isnull", "isnotnull"} THEN <<>>
                        ELSE [k \in DOMAIN f.values |-> Query!ConvertFilterValue(f.rule, f.values[k])]]
<1> DEFINE text == Query!Text(f)
           n == Len(f.values)
<1>1. n \in Nat /\ Len(text) = 3 + 2 * n
  BY TextAsWritten, Zenon
<1>2. /\ text[1] = f.property /\ text[3] = f.rule
      /\ \A k \in 1..n : text[2 * k + 3] = f.values[k]
  BY TextAsWritten, Zenon
<1>3. DOMAIN f.values = 1..n
  BY DEF Filter
<1> HIDE DEF text, n
<1>4. (Len(text) - 3) \div 2 = n
  BY <1>1
<1>5. [i \in 1..(Len(text) - 3) \div 2 |-> Query!ConvertFilterValue(text[3], text[2 * i + 3])]
        = [k \in DOMAIN f.values |-> Query!ConvertFilterValue(f.rule, f.values[k])]
  BY <1>2, <1>3, <1>4
<1>6. QED
  BY <1>2, <1>5 DEF Query!ReadFilter, text

\* Where the text of a filter begins.
Before(list, i) == IF i = 1 THEN 0 ELSE Len(Query!Texts(list)[i - 1]) + 1

LEMMA TextsEquation ==
  ASSUME NEW list \in Seq(Filter)
  PROVE  /\ Query!Texts(list)[0] = <<>>
         /\ \A m \in 1..Len(list) :
                /\ m - 1 \in 0..Len(list) /\ list[m] \in Filter
                /\ Query!Text(list[m]) \in Seq(Token)
                /\ Query!Texts(list)[m] =
                     IF m = 1 THEN Query!Text(list[m])
                     ELSE Query!Texts(list)[m - 1] \o <<Query!Comma>> \o Query!Text(list[m])
<1>1. Len(list) \in Nat /\ \A m \in 1..Len(list) : list[m] \in Filter
  OBVIOUS
<1>2. \A k \in 0..Len(list) : Query!Texts(list)[k] = TextAt(list, Query!Texts(list), k)
  BY <1>1, TextsRec, Zenon
<1>3. 0 \in 0..Len(list)
      /\ \A m \in 1..Len(list) : m # 0 /\ m \in 0..Len(list) /\ m - 1 \in 0..Len(list)
  BY <1>1
<1>4. \A m \in 1..Len(list) : Query!Text(list[m]) \in Seq(Token)
  BY <1>1, TextOK, Zenon
<1>5. QED
  BY <1>1, <1>2, <1>3, <1>4, Zenon DEF TextAt

LEMMA Joined ==
  ASSUME NEW T, NEW c \in T, NEW a \in Seq(T), NEW b \in Seq(T)
  PROVE  LET joined == a \o <<c>> \o b IN
         /\ joined \in Seq(T) /\ Len(joined) = Len(a) + 1 + Len(b)
         /\ \A k \in 1..Len(a) : joined[k] = a[k]
         /\ joined[Len(a) + 1] = c
         /\ \A k \in 1..Len(b) : joined[Len(a) + 1 + k] = b[k]
<1> DEFINE d == a \o <<c>>
<1>1. d \in Seq(T) /\ Len(d) = Len(a) + 1 /\ d[Len(a) + 1] = c /\ \A k \in 1..Len(a) : d[k] = a[k]
  OBVIOUS
<1> HIDE DEF d
<1>2. /\ d \o b \in Seq(T) /\ Len(d \o b) = Len(d) + Len(b)
      /\ \A k \in 1..Len(d) : (d \o b)[k] = d[k]
      /\ \A k \in 1..Len(b) : (d \o b)[Len(d) + k] = b[k]
  BY <1>1
<1>3. Len(a) \in Nat /\ \A k \in 1..Len(a) : k \in 1..Len(a) + 1
  OBVIOUS
<1>4. Len(a) + 1 \in 1..Len(a) + 1
  BY <1>3
<1>5. QED
  BY <1>1, <1>2, <1>3, <1>4, Zenon DEF d

LEMMA TextsTyped ==
  ASSUME NEW list \in Seq(Filter)
  PROVE  \A m \in 0..Len(list) : Query!Texts(list)[m] \in Seq(Token)
<1> DEFINE N == Len(list)
           S == {m \in 0..N : Query!Texts(list)[m] \in Seq(Token)}
<1>1. N \in Nat
  OBVIOUS
<1>2. 0 \in S
  <2>1. Query!Texts(list)[0] = <<>> /\ <<>> \in Seq(Token)
    BY TextsEquation, EmptySeq, Zenon
  <2>2. 0 \in 0..N
    BY <1>1
  <2>3. QED
    BY <2>1, <2>2, Zenon
<1>3. ASSUME NEW m \in 0..N - 1, m \in S PROVE m + 1 \in S
  <2> DEFINE before == Query!Texts(list)[m]
             text == Query!Text(list[m + 1])
  <2>1. m + 1 \in 1..N /\ (m + 1) - 1 = m /\ m + 1 \in 0..N
    BY <1>1
  <2>2. text \in Seq(Token)
    BY <2>1, TextsEquation, Zenon
  <2>3. Query!Texts(list)[m + 1] = IF m + 1 = 1 THEN text ELSE before \o <<Query!Comma>> \o text
    BY <2>1, TextsEquation, Zenon
  <2>4. before \in Seq(Token) /\ Query!Comma \in Token
    BY <1>3, Separators
  <2> HIDE DEF before, text
  <2>5. before \o <<Query!Comma>> \o text \in Seq(Token)
    BY <2>2, <2>4, Joined, Zenon
  <2>6. QED
    BY <2>1, <2>2, <2>3, <2>5
<1>4. 0..N \subseteq S
  <2>1. \A n \in 0..N - 1 : n \in S => n + 1 \in S
    BY <1>3
  <2> HIDE DEF N, S
  <2>2. QED
    BY <1>1, <1>2, <2>1, Counting, Zenon
<1>5. QED
  BY <1>4

LEMMA TextsStep ==
  ASSUME NEW list \in Seq(Filter), NEW m \in 1..Len(list)
  PROVE  /\ Before(list, m) \in Nat
         /\ Len(Query!Texts(list)[m]) = Before(list, m) + Len(Query!Text(list[m]))
         /\ Len(Query!Texts(list)[m - 1]) <= Before(list, m)
         /\ \A k \in 1..Len(Query!Text(list[m])) :
                Query!Texts(list)[m][Before(list, m) + k] = Query!Text(list[m])[k]
         /\ m > 1 => Query!Texts(list)[m][Before(list, m)] = Query!Comma /\ Before(list, m) >= 1
         /\ \A k \in 1..Len(Query!Texts(list)[m - 1]) :
                Query!Texts(list)[m][k] = Query!Texts(list)[m - 1][k]
<1> DEFINE before == Query!Texts(list)[m - 1]
           text == Query!Text(list[m])
           after == Query!Texts(list)[m]
<1>1. text \in Seq(Token) /\ (m = 1 => after = text)
  BY TextsEquation, Zenon
<1>2. m - 1 \in 0..Len(list)
  OBVIOUS
<1>3. before \in Seq(Token)
  BY <1>2, TextsTyped, Zenon
<1>4. m = 1 => before = <<>>
  <2>1. m = 1 => m - 1 = 0
    OBVIOUS
  <2>2. QED
    BY <2>1, TextsEquation, Zenon
<1>5. Before(list, m) = IF m = 1 THEN 0 ELSE Len(before) + 1
  BY DEF Before
<1> HIDE DEF before, text, after
<1>6. CASE m = 1
  BY <1>1, <1>3, <1>4, <1>5, <1>6 DEF before, text, after
<1>7. CASE m # 1
  <2>1. Before(list, m) = Len(before) + 1 /\ Query!Comma \in Token
    BY <1>5, <1>7, Separators, Zenon
  <2>2. /\ Len(after) = Len(before) + 1 + Len(text)
        /\ \A k \in 1..Len(before) : after[k] = before[k]
        /\ after[Len(before) + 1] = Query!Comma
        /\ \A k \in 1..Len(text) : after[Len(before) + 1 + k] = text[k]
    <3>1. after = before \o <<Query!Comma>> \o text
      BY <1>7, TextsEquation, Zenon DEF after, before, text
    <3>2. text \in Seq(Token)
      BY <1>1
    <3>3. QED
      BY <1>3, <2>1, <3>1, <3>2, Joined
  <2>3. Len(before) \in Nat /\ Len(text) \in Nat
    BY <1>1, <1>3
  <2>4. Before(list, m) \in Nat /\ Before(list, m) >= 1 /\ Len(before) <= Before(list, m)
    BY <2>1, <2>3
  <2>5. Len(after) = Before(list, m) + Len(text)
    BY <2>1, <2>2, Zenon
  <2>6. /\ \A k \in 1..Len(text) : after[Before(list, m) + k] = text[k]
        /\ after[Before(list, m)] = Query!Comma
        /\ \A k \in 1..Len(before) : after[k] = before[k]
    BY <2>1, <2>2, Zenon
  <2>7. QED
    BY <2>4, <2>5, <2>6, Zenon DEF before, text, after
<1>8. QED
  BY <1>6, <1>7

\* The texts only grow.
LEMMA TextsPrefix ==
  ASSUME NEW list \in Seq(Filter), NEW i \in 0..Len(list)
  PROVE  /\ Len(Query!Texts(list)[i]) <= Len(Query!Written(list))
         /\ \A k \in 1..Len(Query!Texts(list)[i]) : Query!Written(list)[k] = Query!Texts(list)[i][k]
<1> DEFINE N == Len(list)
           text(m) == Query!Texts(list)[m]
           Grown(m) == Len(text(i)) <= Len(text(m)) /\ \A k \in 1..Len(text(i)) : text(m)[k] = text(i)[k]
           S == {m \in 0..N : m >= i => Grown(m)}
<1>1. N \in Nat
  OBVIOUS
<1>2. \A m \in 0..N : text(m) \in Seq(Token)
  BY TextsTyped
<1>3. Grown(i)
  BY <1>2
<1>4. 0 \in S
  BY <1>1, <1>3
<1>5. ASSUME NEW m \in 0..N - 1, m \in S PROVE m + 1 \in S
  <2>1. CASE m + 1 <= i
    BY <1>3, <2>1
  <2>2. CASE m >= i
    <3>1. Grown(m)
      BY <1>5, <2>2
    <3> DEFINE n == m + 1
    <3>2. n \in 1..Len(list) /\ n - 1 = m /\ m \in 0..N /\ n \in 0..N
      BY <1>5
    <3>3. /\ Before(list, n) \in Nat /\ Len(text(n)) = Before(list, n) + Len(Query!Text(list[n]))
          /\ Len(text(n - 1)) <= Before(list, n)
          /\ \A k \in 1..Len(text(n - 1)) : text(n)[k] = text(n - 1)[k]
      BY <3>2, TextsStep, Zenon
    <3>4. Query!Text(list[n]) \in Seq(Token)
      BY <3>2, TextsEquation, Zenon
    <3>5. Len(Query!Text(list[n])) \in Nat /\ Len(text(i)) \in Nat /\ Len(text(m)) \in Nat
      BY <1>2, <3>2, <3>4
    <3> HIDE DEF text
    <3>6. Grown(n)
      BY <3>1, <3>2, <3>3, <3>5
    <3>7. QED
      BY <3>2, <3>6
  <2>3. QED
    BY <1>5, <2>1, <2>2
<1>6. 0..N \subseteq S
  <2>1. \A n \in 0..N - 1 : n \in S => n + 1 \in S
    BY <1>5
  <2> HIDE DEF N, S
  <2>2. QED
    BY <1>1, <1>4, <2>1, Counting, Zenon
<1>7. Grown(N)
  BY <1>1, <1>6
<1>8. QED
  BY <1>7 DEF Query!Written

\* A filter in the text of its list.
LEMMA WrittenAt ==
  ASSUME NEW list \in Seq(Filter), NEW i \in 1..Len(list)
  PROVE  /\ Query!Written(list) \in Seq(Token) /\ Before(list, i) \in Nat
         /\ Before(list, i) + Len(Query!Text(list[i])) <= Len(Query!Written(list))
         /\ \A k \in 1..Len(Query!Text(list[i])) :
                Query!Written(list)[Before(list, i) + k] = Query!Text(list[i])[k]
         /\ i < Len(list) =>
                /\ Before(list, i + 1) = Before(list, i) + Len(Query!Text(list[i])) + 1
                /\ Query!Written(list)[Before(list, i + 1)] = Query!Comma
                /\ Before(list, i + 1) + Len(Query!Text(list[i + 1])) <= Len(Query!Written(list))
         /\ i = Len(list) => Len(Query!Written(list)) = Before(list, i) + Len(Query!Text(list[i]))
<1> DEFINE N == Len(list)
           W == Query!Written(list)
           texts == Query!Texts(list)
           text(m) == Query!Text(list[m])
<1>1. N \in Nat /\ i \in 0..N /\ N \in 0..N
  OBVIOUS
<1>2. \A m \in 0..N : texts[m] \in Seq(Token)
  BY TextsTyped, Zenon
<1>3. W = texts[N] /\ W \in Seq(Token)
  BY <1>1, <1>2, Zenon DEF Query!Written
<1>4. \A m \in 0..N : Len(texts[m]) <= Len(W) /\ \A k \in 1..Len(texts[m]) : W[k] = texts[m][k]
  BY TextsPrefix, Zenon
<1>5. \A m \in 1..N : text(m) \in Seq(Token)
  BY TextsEquation, Zenon
<1>6. ASSUME NEW m \in 1..N
      PROVE  /\ Before(list, m) \in Nat /\ Len(texts[m]) = Before(list, m) + Len(text(m))
             /\ \A k \in 1..Len(text(m)) : texts[m][Before(list, m) + k] = text(m)[k]
             /\ m > 1 => texts[m][Before(list, m)] = Query!Comma /\ Before(list, m) >= 1
  BY TextsStep, Zenon
<1>7. ASSUME NEW m \in 1..N
      PROVE  /\ Before(list, m) + Len(text(m)) <= Len(W)
             /\ \A k \in 1..Len(text(m)) : W[Before(list, m) + k] = text(m)[k]
             /\ m > 1 => W[Before(list, m)] = Query!Comma
  <2>1. m \in 0..N /\ Len(text(m)) \in Nat
    BY <1>5
  <2> DEFINE o == Before(list, m)
             t == texts[m]
             x == text(m)
  <2>2. /\ o \in Nat /\ Len(t) = o + Len(x) /\ Len(t) <= Len(W)
        /\ \A k \in 1..Len(x) : t[o + k] = x[k]
        /\ m > 1 => t[o] = Query!Comma /\ o >= 1
        /\ \A k \in 1..Len(t) : W[k] = t[k]
    BY <1>4, <1>6, <2>1, Zenon
  <2> HIDE DEF W, o, t, x, texts, text
  <2>3. Len(x) \in Nat /\ Len(W) \in Nat
    BY <1>3, <2>1 DEF x
  <2> DEFINE n == Len(x)
             lt == Len(t)
             lw == Len(W)
  <2> HIDE DEF n, lt, lw
  <2>4. \A k \in 1..n : o + k \in 1..lt
    BY <2>2, <2>3 DEF n, lt
  <2>5. m > 1 => o \in 1..lt
    BY <2>2, <2>3 DEF n, lt
  <2>6. /\ o + Len(x) <= Len(W)
        /\ \A k \in 1..Len(x) : W[o + k] = x[k]
        /\ m > 1 => W[o] = Query!Comma
    BY <2>2, <2>4, <2>5, Zenon DEF n, lt
  <2>7. QED
    BY <2>6 DEF o, x
<1>8. ASSUME i < N
      PROVE  /\ i + 1 \in 1..N /\ i + 1 > 1
             /\ Before(list, i + 1) = Before(list, i) + Len(text(i)) + 1
  <2>1. i + 1 \in 1..N /\ i + 1 > 1 /\ i + 1 # 1 /\ (i + 1) - 1 = i
    BY <1>1, <1>8
  <2>2. Before(list, i + 1) = Len(texts[i]) + 1
    BY <2>1 DEF Before
  <2>3. Len(texts[i]) = Before(list, i) + Len(text(i))
    BY <1>6
  <2>4. QED
    BY <2>1, <2>2, <2>3, Zenon
<1>9. i = N => Len(W) = Before(list, i) + Len(text(i))
  BY <1>3, <1>6, Zenon
<1>10. QED
  BY <1>3, <1>6, <1>7, <1>8, <1>9, Zenon

--------------------------------------------------------------------------------
\* The state of the scan.
ScanState == [filters : Seq(Seq(Token)), buffer : Seq(Token), inValue : BOOLEAN]

LEMMA ScanSplits ==
  ASSUME NEW s \in ScanState, ~s.inValue
  PROVE  /\ Query!Scan(s, Query!Comma) = Fresh(Append(s.filters, s.buffer))
         /\ Query!Scan(s, Query!Comma) \in ScanState
<1>1. Query!Scan(s, Query!Comma) = Fresh(Append(s.filters, s.buffer))
  BY DEF Query!Scan, Fresh
<1>2. Append(s.filters, s.buffer) \in Seq(Seq(Token)) /\ <<>> \in Seq(Token)
  BY DEF ScanState
<1>3. QED
  BY <1>1, <1>2 DEF Fresh, ScanState

LEMMA ScanKeeps ==
  ASSUME NEW s \in ScanState, NEW c \in Token, c # Query!Comma \/ s.inValue
  PROVE  /\ Query!Scan(s, c) \in ScanState
         /\ Query!Scan(s, c).filters = s.filters
         /\ Query!Scan(s, c).buffer = Append(s.buffer, c)
         /\ Query!Scan(s, c).inValue =
                ((c = Query!Colon /\ Query!AtList(s.buffer)) \/ (s.inValue /\ c # Query!Comma))
<1> DEFINE b == Append(s.buffer, c)
           v == IF c = Query!Colon /\ Query!AtList(s.buffer) THEN TRUE ELSE s.inValue /\ c # Query!Comma
<1>1. b \in Seq(Token) /\ v \in BOOLEAN
  <2>1. s.buffer \in Seq(Token) /\ s.inValue \in BOOLEAN
    BY DEF ScanState
  <2>2. b \in Seq(Token)
    BY <2>1
  <2>3. v \in BOOLEAN
    BY <2>1, Zenon
  <2>4. QED
    BY <2>2, <2>3
<1>2. s = [filters |-> s.filters, buffer |-> s.buffer, inValue |-> s.inValue]
  <2> DEFINE P == Seq(Seq(Token))
             Q == Seq(Token)
  <2>1. s \in [filters : P, buffer : Q, inValue : BOOLEAN]
    BY DEF ScanState
  <2> HIDE DEF P, Q
  <2>2. QED
    BY <2>1
<1>3. Query!Scan(s, c) = [s EXCEPT !.buffer = b, !.inValue = v]
  BY DEF Query!Scan
<1> HIDE DEF b, v
<1>4. Query!Scan(s, c) = [filters |-> s.filters, buffer |-> b, inValue |-> v]
  BY <1>2, <1>3
<1>5. s.filters \in Seq(Seq(Token))
  BY DEF ScanState
<1>6. v = ((c = Query!Colon /\ Query!AtList(s.buffer)) \/ (s.inValue /\ c # Query!Comma))
  BY DEF v, ScanState
<1>7. QED
  BY <1>1, <1>4, <1>5, <1>6 DEF ScanState, b

LEMMA ScannedStep ==
  ASSUME NEW text \in Seq(Token)
  PROVE  /\ Query!Scanned(text)[0] = Fresh(<<>>)
         /\ \A k \in 1..Len(text) :
                Query!Scanned(text)[k] = Query!Scan(Query!Scanned(text)[k - 1], text[k])
<1>1. Len(text) \in Nat
  OBVIOUS
<1>2. \A k \in 0..Len(text) : Query!Scanned(text)[k] = ScanAt(text, Query!Scanned(text), k)
  BY <1>1, ScannedRec, Zenon
<1>3. 0 \in 0..Len(text) /\ \A k \in 1..Len(text) : k \in 0..Len(text) /\ k # 0
  BY <1>1
<1>4. QED
  BY <1>2, <1>3, Zenon DEF ScanAt, Fresh

LEMMA ScannedTyped ==
  ASSUME NEW text \in Seq(Token)
  PROVE  \A k \in 0..Len(text) : Query!Scanned(text)[k] \in ScanState
<1> DEFINE N == Len(text)
           S == {k \in 0..N : Query!Scanned(text)[k] \in ScanState}
<1>1. N \in Nat
  OBVIOUS
<1>2. 0 \in S
  <2>1. Fresh(<<>>) \in ScanState
    BY DEF Fresh, ScanState
  <2>2. QED
    BY <1>1, <2>1, ScannedStep
<1>3. ASSUME NEW n \in 0..N - 1, n \in S PROVE n + 1 \in S
  <2> DEFINE s == Query!Scanned(text)[n]
             c == text[n + 1]
  <2>1. n + 1 \in 1..N /\ (n + 1) - 1 = n /\ n + 1 \in 0..N /\ s \in ScanState
    BY <1>3
  <2>2. Query!Scanned(text)[n + 1] = Query!Scan(s, c)
    BY <2>1, ScannedStep, Zenon
  <2>3. c \in Token
    BY <2>1
  <2> HIDE DEF s, c
  <2>4. Query!Scan(s, c) \in ScanState
    <3>1. CASE c = Query!Comma /\ ~s.inValue
      BY <2>1, <3>1, ScanSplits
    <3>2. CASE c # Query!Comma \/ s.inValue
      BY <2>1, <2>3, <3>2, ScanKeeps
    <3>3. QED
      BY <3>1, <3>2
  <2>5. QED
    BY <2>1, <2>2, <2>4
<1>4. 0..N \subseteq S
  <2>1. \A n \in 0..N - 1 : n \in S => n + 1 \in S
    BY <1>3
  <2> HIDE DEF N, S
  <2>2. QED
    BY <1>1, <1>2, <2>1, Counting, Zenon
<1>5. QED
  BY <1>4

--------------------------------------------------------------------------------
\* How far the scan reads a filter without cutting it.
IsList(f) == f.rule \in {"in", "nin"}
Limit(f) == IF IsList(f) THEN 7 ELSE 5

LEMMA RuleRead ==
  ASSUME NEW buffer \in Seq(Token)
  PROVE  /\ Len(buffer) = 1 /\ buffer[1] # Query!Colon => ~Query!AtList(buffer)
         /\ Len(buffer) = 3 /\ buffer[1] # Query!Colon /\ buffer[2] = Query!Colon /\ buffer[3] # Query!Colon
                => (Query!AtList(buffer) <=> buffer[3] \in {"in", "nin"})
<1>1. DOMAIN buffer = 1..Len(buffer) /\ Len(buffer) \in Nat
  OBVIOUS
<1>2. ASSUME Len(buffer) = 1, buffer[1] # Query!Colon PROVE ~Query!AtList(buffer)
  <2>1. DOMAIN buffer = {1}
    BY <1>1, <1>2
  <2>2. QED
    BY <1>2, <2>1, Zenon DEF Query!AtList
<1>3. ASSUME Len(buffer) = 3, buffer[1] # Query!Colon, buffer[2] = Query!Colon, buffer[3] # Query!Colon
      PROVE  Query!AtList(buffer) <=> buffer[3] \in {"in", "nin"}
  <2>1. DOMAIN buffer = {1, 2, 3}
    BY <1>1, <1>3
  <2>2. \A j \in DOMAIN buffer : buffer[j] = Query!Colon <=> j = 2
    BY <1>3, <2>1
  <2>3. 2 \in DOMAIN buffer
    BY <2>1
  <2>4. QED
    BY <1>3, <2>2, <2>3, Zenon DEF Query!AtList, Query!Last
<1>4. QED
  BY <1>2, <1>3

\* The scan has read j tokens of f, and before them the filters parsed.
Reading(s, parsed, f, j) ==
    /\ s \in ScanState /\ s.filters = parsed
    /\ Len(s.buffer) = j /\ \A k \in 1..j : s.buffer[k] = Query!Text(f)[k]
    /\ s.inValue = (IsList(f) /\ j \in {4, 5})

LEMMA ReadingStep ==
  ASSUME NEW f \in Filter, NEW s, NEW parsed, NEW j \in Nat, Reading(s, parsed, f, j),
         j + 1 <= Len(Query!Text(f)), j + 1 <= Limit(f)
  PROVE  Reading(Query!Scan(s, Query!Text(f)[j + 1]), parsed, f, j + 1)
<1> DEFINE text == Query!Text(f)
           n == Len(f.values)
           c == text[j + 1]
           r == Query!Scan(s, c)
           b == s.buffer
<1>1. /\ n \in Nat /\ Len(text) = 3 + 2 * n
      /\ text[1] = f.property /\ text[2] = Query!Colon /\ text[3] = f.rule
      /\ n > 0 => text[4] = Query!Colon
  BY TextAsWritten, Zenon
<1>2. /\ text \in Seq(Token)
      /\ \A i \in 5..Len(text) : text[i] # Query!Colon /\ (text[i] = Query!Comma <=> i % 2 = 0)
  BY TextOK, Zenon
<1>3. f.property \in {"age", "other"} /\ f.rule \in Rules
  BY DEF Filter
<1>4. f.property # Query!Colon /\ f.property # Query!Comma /\ f.rule # Query!Colon /\ f.rule # Query!Comma
      /\ Query!Colon # Query!Comma
  BY <1>3, Separators, Zenon
<1>5. /\ s \in ScanState /\ s.filters = parsed /\ b \in Seq(Token) /\ Len(b) = j
      /\ \A k \in 1..j : b[k] = text[k]
      /\ s.inValue = (IsList(f) /\ j \in {4, 5})
  BY DEF Reading, ScanState
<1>6. c \in Token /\ j + 1 \in 1..Len(text) /\ j + 1 <= Limit(f)
  BY <1>2
<1> HIDE DEF text, n, c, b
<1>7. (c = Query!Colon <=> j \in {1, 3}) /\ (c = Query!Comma <=> j = 5)
  <2>1. j + 1 \in 1..7
    BY <1>6 DEF Limit
  <2>2. CASE j = 0
    BY <1>1, <1>4, <2>2 DEF c
  <2>3. CASE j = 1
    BY <1>1, <1>4, <2>3 DEF c
  <2>4. CASE j = 2
    BY <1>1, <1>4, <2>4 DEF c
  <2>5. CASE j = 3
    BY <1>1, <1>4, <1>6, <2>5 DEF c
  <2>6. CASE j \in 4..6
    <3>1. j + 1 \in 5..Len(text)
      BY <1>6, <2>6
    <3>2. c # Query!Colon /\ (c = Query!Comma <=> (j + 1) % 2 = 0)
      BY <1>2, <3>1, Zenon DEF c
    <3>3. QED
      BY <2>6, <3>2
  <2>7. QED
    BY <2>1, <2>2, <2>3, <2>4, <2>5, <2>6
<1>8. c # Query!Comma \/ s.inValue
  <2>1. c = Query!Comma => j = 5 /\ IsList(f)
    BY <1>6, <1>7 DEF Limit
  <2>2. QED
    BY <1>5, <2>1
<1>9. /\ r \in ScanState /\ r.filters = parsed /\ r.buffer = Append(b, c)
      /\ r.inValue = ((c = Query!Colon /\ Query!AtList(b)) \/ (s.inValue /\ c # Query!Comma))
  BY <1>5, <1>6, <1>8, ScanKeeps, Zenon DEF b
<1>10. c = Query!Colon /\ Query!AtList(b) <=> j = 3 /\ IsList(f)
  <2>1. CASE j = 1
    <3>1. Len(b) = 1 /\ b[1] # Query!Colon
      BY <1>1, <1>4, <1>5, <2>1
    <3>2. ~Query!AtList(b)
      BY <1>5, <3>1, RuleRead, Zenon
    <3>3. QED
      BY <2>1, <3>2
  <2>2. CASE j = 3
    <3>1. Len(b) = 3 /\ b[1] # Query!Colon /\ b[2] = Query!Colon /\ b[3] = f.rule
      BY <1>1, <1>4, <1>5, <2>2
    <3>2. Query!AtList(b) <=> f.rule \in {"in", "nin"}
      BY <1>4, <1>5, <3>1, RuleRead, Zenon
    <3>3. QED
      BY <1>7, <2>2, <3>2 DEF IsList
  <2>3. CASE j \notin {1, 3}
    BY <1>7, <2>3
  <2>4. QED
    BY <2>1, <2>2, <2>3
<1>11. s.inValue /\ c # Query!Comma <=> IsList(f) /\ j = 4
  <2>1. j \in {4, 5} /\ j # 5 <=> j = 4
    OBVIOUS
  <2>2. QED
    BY <1>5, <1>7, <2>1, Zenon
<1>12. r.inValue = (IsList(f) /\ j + 1 \in {4, 5})
  <2>1. (j + 1 \in {4, 5}) <=> (j = 3 \/ j = 4)
    OBVIOUS
  <2>2. QED
    BY <1>9, <1>10, <1>11, <2>1, Zenon
<1>13. Len(r.buffer) = j + 1 /\ \A k \in 1..j + 1 : r.buffer[k] = text[k]
  <2>1. Len(Append(b, c)) = j + 1 /\ \A k \in 1..j + 1 : Append(b, c)[k] = text[k]
    BY <1>5, <1>6 DEF c
  <2>2. QED
    BY <1>9, <2>1, Zenon
<1>14. Reading(r, parsed, f, j + 1)
  BY <1>9, <1>12, <1>13, Zenon DEF Reading, text
<1>15. QED
  BY <1>14 DEF c, text

LEMMA FilterRead ==
  ASSUME NEW text \in Seq(Token), NEW f \in Filter, NEW o \in Nat, NEW parsed,
         o + Len(Query!Text(f)) <= Len(text),
         \A k \in 1..Len(Query!Text(f)) : text[o + k] = Query!Text(f)[k],
         Query!Scanned(text)[o] = Fresh(parsed),
         NEW N \in Nat, N <= Len(Query!Text(f)), N <= Limit(f)
  PROVE  Reading(Query!Scanned(text)[o + N], parsed, f, N)
<1> DEFINE S == {j \in 0..N : Reading(Query!Scanned(text)[o + j], parsed, f, j)}
           L == Len(Query!Text(f))
<1>1. L \in Nat /\ Len(text) \in Nat /\ o + L <= Len(text)
  BY TextOK
<1>2. 0 \in S
  <2> DEFINE s == Query!Scanned(text)[o]
  <2>1. o \in 0..Len(text) /\ o + 0 = o
    BY <1>1
  <2>2. s \in ScanState
    BY <2>1, ScannedTyped, Zenon
  <2>3. s.filters = parsed /\ s.buffer = <<>> /\ s.inValue = FALSE
    BY DEF Fresh
  <2> HIDE DEF s
  <2>4. Len(s.buffer) = 0 /\ 1..0 = {} /\ 0 \notin {4, 5} /\ 0 \in 0..N
    BY <2>3
  <2>5. Reading(s, parsed, f, 0)
    BY <2>2, <2>3, <2>4, Zenon DEF Reading
  <2>6. QED
    BY <2>1, <2>4, <2>5, Zenon DEF s
<1>3. ASSUME NEW n \in 0..N - 1, n \in S PROVE n + 1 \in S
  <2> DEFINE s == Query!Scanned(text)[o + n]
             k == o + (n + 1)
  <2>1. /\ k \in 1..Len(text) /\ k - 1 = o + n /\ n + 1 \in 1..L /\ n + 1 <= Limit(f) /\ n + 1 <= L
        /\ n \in Nat /\ n + 1 \in 0..N
    <3>1. Limit(f) \in Nat
      BY DEF Limit
    <3> HIDE DEF L
    <3>2. QED
      BY <1>1, <3>1 DEF L
  <2>2. Query!Scanned(text)[k] = Query!Scan(s, text[k])
    BY <2>1, ScannedStep, Zenon
  <2>3. text[k] = Query!Text(f)[n + 1]
    BY <2>1, Zenon
  <2>4. Reading(s, parsed, f, n)
    BY <1>3, Zenon
  <2> HIDE DEF s, k
  <2>5. Reading(Query!Scan(s, Query!Text(f)[n + 1]), parsed, f, n + 1)
    BY <2>1, <2>4, ReadingStep, Zenon
  <2>6. Reading(Query!Scanned(text)[k], parsed, f, n + 1)
    BY <2>2, <2>3, <2>5, Zenon
  <2>7. QED
    BY <2>1, <2>6, Zenon DEF k
<1>4. N \in S
  <2>1. \A n \in 0..N - 1 : n \in S => n + 1 \in S
    BY <1>3
  <2>2. N \in 0..N
    OBVIOUS
  <2> HIDE DEF S
  <2>3. QED
    BY <1>2, <2>1, <2>2, Counting, Zenon
<1>5. QED
  BY <1>4, Zenon

--------------------------------------------------------------------------------
\* Filter i of a list is not cut, and what follows it is not taken for its own.
Readable(list, i) ==
    IF IsList(list[i])
    THEN Len(list[i].values) \in {0, 2} \/ (Len(list[i].values) = 1 /\ i = Len(list))
    ELSE Len(list[i].values) <= 1

TextsOf(list, n) == [j \in 1..n |-> Query!Text(list[j])]

\* The scan is about to read filter i, and has read those before it.
Begun(list, i) ==
    Query!Scanned(Query!Written(list))[Before(list, i)] = Fresh(TextsOf(list, i - 1))

LEMMA ReadUpTo ==
  ASSUME NEW list \in Seq(Filter), NEW i \in 1..Len(list), Begun(list, i),
         NEW N \in Nat, N <= Len(Query!Text(list[i])), N <= Limit(list[i])
  PROVE  Reading(Query!Scanned(Query!Written(list))[Before(list, i) + N], TextsOf(list, i - 1), list[i], N)
<1> DEFINE W == Query!Written(list)
           o == Before(list, i)
           f == list[i]
           parsed == TextsOf(list, i - 1)
<1>1. /\ W \in Seq(Token) /\ o \in Nat /\ o + Len(Query!Text(f)) <= Len(W)
      /\ \A k \in 1..Len(Query!Text(f)) : W[o + k] = Query!Text(f)[k]
  BY WrittenAt, Zenon
<1>2. f \in Filter
  OBVIOUS
<1>3. Query!Scanned(W)[o] = Fresh(parsed) /\ N <= Len(Query!Text(f)) /\ N <= Limit(f)
  BY DEF Begun
<1> HIDE DEF W, o, f, parsed
<1>4. Reading(Query!Scanned(W)[o + N], parsed, f, N)
  BY <1>1, <1>2, <1>3, FilterRead, Zenon
<1>5. QED
  BY <1>4 DEF W, o, f, parsed

\* The buffer is the whole text of the filter at its end.
LEMMA ReadWhole ==
  ASSUME NEW f \in Filter, NEW s, NEW parsed, Reading(s, parsed, f, Len(Query!Text(f)))
  PROVE  s.buffer = Query!Text(f) /\ s.filters = parsed
<1> DEFINE text == Query!Text(f)
           b == s.buffer
<1>1. text \in Seq(Token)
  BY TextOK, Zenon
<1>2. b \in Seq(Token) /\ Len(b) = Len(text) /\ (\A k \in 1..Len(text) : b[k] = text[k]) /\ s.filters = parsed
  BY DEF Reading, ScanState
<1> HIDE DEF text, b
<1>3. b = text
  BY <1>1, <1>2
<1>4. QED
  BY <1>2, <1>3 DEF text, b

LEMMA BeginsNext ==
  ASSUME NEW list \in Seq(Filter), NEW i \in 1..Len(list), i < Len(list),
         Begun(list, i), Readable(list, i)
  PROVE  Begun(list, i + 1)
<1> DEFINE W == Query!Written(list)
           o == Before(list, i)
           f == list[i]
           L == Len(Query!Text(f))
           n == Len(f.values)
           s == Query!Scanned(W)[o + L]
           parsed == TextsOf(list, i - 1)
<1>1. f \in Filter
  OBVIOUS
<1>2. n \in Nat /\ L = 3 + 2 * n
  BY <1>1, TextAsWritten, Zenon
<1>3. IF IsList(f) THEN n \in {0, 2} ELSE n <= 1
  BY DEF Readable
<1>4. L \in Nat /\ L <= Limit(f) /\ ~(IsList(f) /\ L \in {4, 5}) /\ L <= L
  <2> HIDE DEF n, L, f
  <2>1. CASE IsList(f)
    <3>1. n = 0 \/ n = 2
      BY <1>3, <2>1, Zenon
    <3>2. QED
      BY <1>2, <2>1, <3>1 DEF Limit
  <2>2. CASE ~IsList(f)
    <3>1. n <= 1
      BY <1>3, <2>2, Zenon
    <3>2. QED
      BY <1>2, <2>2, <3>1 DEF Limit
  <2>3. QED
    BY <2>1, <2>2
<1>5. Reading(s, parsed, f, L)
  BY <1>4, ReadUpTo, Zenon
<1>6. s.buffer = Query!Text(f) /\ s.filters = parsed
  <2> HIDE DEF s, f, parsed
  <2>1. Reading(s, parsed, f, Len(Query!Text(f)))
    BY <1>5
  <2>2. QED
    BY <1>1, <2>1, ReadWhole
<1>7. s \in ScanState /\ s.inValue = FALSE
  BY <1>4, <1>5, Zenon DEF Reading
<1>8. /\ W \in Seq(Token) /\ o \in Nat /\ Before(list, i + 1) = o + L + 1
      /\ W[Before(list, i + 1)] = Query!Comma
      /\ Before(list, i + 1) + Len(Query!Text(list[i + 1])) <= Len(W)
  BY WrittenAt, Zenon
<1>9. Len(Query!Text(list[i + 1])) \in Nat
  <2>1. list[i + 1] \in Filter
    BY <1>1
  <2>2. Query!Text(list[i + 1]) \in Seq(Token)
    BY <2>1, TextOK, Zenon
  <2>3. QED
    BY <2>2
<1> HIDE DEF W, o, L, f, parsed
<1>10. Before(list, i + 1) \in 1..Len(W) /\ Before(list, i + 1) - 1 = o + L
  BY <1>4, <1>8, <1>9
<1>11. Query!Scanned(W)[Before(list, i + 1)] = Query!Scan(s, Query!Comma)
  BY <1>8, <1>10, ScannedStep, Zenon
<1>12. Query!Scan(s, Query!Comma) = Fresh(Append(parsed, Query!Text(f)))
  BY <1>6, <1>7, ScanSplits, Zenon
<1>13. Append(parsed, Query!Text(f)) = TextsOf(list, (i + 1) - 1)
  <2>1. i - 1 \in Nat /\ (i + 1) - 1 = i
    OBVIOUS
  <2>2. Append(TextsOf(list, i - 1), Query!Text(list[i])) = TextsOf(list, i)
    BY <2>1 DEF TextsOf
  <2>3. QED
    BY <2>1, <2>2 DEF parsed, f
<1>14. QED
  BY <1>11, <1>12, <1>13, Zenon DEF Begun, W

LEMMA Begins ==
  ASSUME NEW list \in Seq(Filter), NEW m \in 1..Len(list),
         \A i \in 1..m - 1 : Readable(list, i)
  PROVE  Begun(list, m)
<1> DEFINE N == m - 1
           S == {n \in 0..N : Begun(list, n + 1)}
<1>1. N \in Nat /\ N \in 0..N /\ 0 \in 0..N /\ N + 1 = m
  OBVIOUS
<1>2. 0 \in S
  <2>1. Query!Written(list) \in Seq(Token)
    BY WrittenAt, Zenon
  <2>2. Query!Scanned(Query!Written(list))[0] = Fresh(<<>>)
    BY <2>1, ScannedStep, Zenon
  <2>3. TextsOf(list, 0) = <<>> /\ 0 + 1 = 1 /\ 1 - 1 = 0
    BY DEF TextsOf
  <2>4. Begun(list, 0 + 1)
    BY <2>2, <2>3, Zenon DEF Begun, Before
  <2>5. QED
    BY <1>1, <2>4, Zenon
<1>3. ASSUME NEW n \in 0..N - 1, n \in S PROVE n + 1 \in S
  <2>1. n + 1 \in 1..Len(list) /\ n + 1 < Len(list) /\ n + 1 \in 1..m - 1 /\ n + 1 \in 0..N
    OBVIOUS
  <2>2. Begun(list, n + 1) /\ Readable(list, n + 1)
    BY <1>3, <2>1, Zenon
  <2>3. Begun(list, (n + 1) + 1)
    BY <2>1, <2>2, BeginsNext, Zenon
  <2>4. QED
    BY <2>1, <2>3, Zenon
<1>4. N \in S
  <2>1. \A n \in 0..N - 1 : n \in S => n + 1 \in S
    BY <1>3
  <2> HIDE DEF N, S
  <2>2. QED
    BY <1>1, <1>2, <2>1, Counting, Zenon
<1>5. QED
  BY <1>1, <1>4, Zenon

\* What is readable is parsed as it was written.
LEMMA ReadableParsed ==
  ASSUME NEW list \in Seq(Filter), \A i \in 1..Len(list) : Readable(list, i)
  PROVE  Query!ParseFilters(Query!Written(list)) = TextsOf(list, Len(list))
<1> DEFINE W == Query!Written(list)
           end == Query!Scanned(W)[Len(W)]
           N == Len(list)
<1>1. CASE N = 0
  <2>1. W = <<>>
    BY <1>1, TextsEquation, Zenon DEF Query!Written
  <2>2. Len(W) = 0 /\ W \in Seq(Token)
    BY <2>1
  <2>3. end = Fresh(<<>>)
    BY <2>2, ScannedStep, Zenon
  <2>4. TextsOf(list, N) = <<>>
    BY <1>1 DEF TextsOf
  <2>5. end.buffer = <<>> /\ end.filters = <<>>
    BY <2>3 DEF Fresh
  <2>6. QED
    BY <2>4, <2>5, Zenon DEF Query!ParseFilters
<1>2. CASE N # 0
  <2> DEFINE o == Before(list, N)
             f == list[N]
             L == Len(Query!Text(f))
             n == Len(f.values)
  <2>1. N \in 1..N /\ f \in Filter /\ \A i \in 1..N - 1 : i \in 1..N
    BY <1>2
  <2>2. Begun(list, N)
    BY <2>1, Begins, Zenon
  <2>3. n \in Nat /\ L = 3 + 2 * n
    BY <2>1, TextAsWritten, Zenon
  <2>4. IF IsList(f) THEN n \in {0, 2} \/ n = 1 ELSE n <= 1
    BY <2>1, Zenon DEF Readable
  <2>5. L \in Nat /\ L <= Limit(f) /\ L <= L /\ L > 0
    <3> HIDE DEF n, L, f
    <3>1. CASE IsList(f)
      <4>1. n = 0 \/ n = 2 \/ n = 1
        BY <2>4, <3>1, Zenon
      <4>2. QED
        BY <2>3, <3>1, <4>1 DEF Limit
    <3>2. CASE ~IsList(f)
      <4>1. n <= 1
        BY <2>4, <3>2, Zenon
      <4>2. QED
        BY <2>3, <3>2, <4>1 DEF Limit
    <3>3. QED
      BY <3>1, <3>2
  <2>6. Reading(Query!Scanned(W)[o + L], TextsOf(list, N - 1), f, L)
    BY <2>1, <2>2, <2>5, ReadUpTo, Zenon
  <2>7. Len(W) = o + L
    BY <2>1, WrittenAt, Zenon
  <2>8. end.buffer = Query!Text(f) /\ end.filters = TextsOf(list, N - 1)
    <3> DEFINE parsed == TextsOf(list, N - 1)
    <3>1. Reading(end, parsed, f, L)
      BY <2>6, <2>7
    <3> HIDE DEF end, f, parsed
    <3>2. Reading(end, parsed, f, Len(Query!Text(f)))
      BY <3>1
    <3>3. end.buffer = Query!Text(f) /\ end.filters = parsed
      BY <2>1, <3>2, ReadWhole
    <3>4. QED
      BY <3>3 DEF parsed
  <2>9. Query!Text(f) # <<>>
    BY <2>5
  <2>10. Append(TextsOf(list, N - 1), Query!Text(f)) = TextsOf(list, N)
    <3>1. N - 1 \in Nat
      BY <1>2
    <3>2. QED
      BY <3>1 DEF TextsOf
  <2>11. QED
    BY <2>8, <2>9, <2>10, Zenon DEF Query!ParseFilters
<1>3. QED
  BY <1>1, <1>2

--------------------------------------------------------------------------------
\* What is not readable is refused: a piece that is cut has no rule, and a filter that
\* takes the next one for its own has a colon among its values.
Doomed(s) ==
    \/ \E k \in 1..Len(s.filters) : ~Query!Formatted(s.filters[k])
    \/ Len(s.buffer) >= 8 /\ s.buffer[8] = Query!Colon

LEMMA NotFormatted ==
  ASSUME NEW b \in Seq(Token), Len(b) = 1 \/ (Len(b) >= 8 /\ b[8] = Query!Colon)
  PROVE  ~Query!Formatted(b)
<1>1. Len(b) \in Nat
  OBVIOUS
<1>2. CASE Len(b) = 1
  <2>1. ~(Len(b) >= 3)
    BY <1>2
  <2>2. QED
    BY <2>1, Zenon DEF Query!Formatted
<1>3. CASE Len(b) >= 8 /\ b[8] = Query!Colon
  <2>1. 8 \in 5..Len(b) /\ Len(b) > 3
    BY <1>1, <1>3
  <2>2. QED
    BY <1>3, <2>1, Zenon DEF Query!Formatted
<1>4. QED
  BY <1>2, <1>3

\* A piece that is not formatted has been pushed.
LEMMA Pushed ==
  ASSUME NEW s \in ScanState, ~s.inValue, ~Query!Formatted(s.buffer)
  PROVE  Doomed(Query!Scan(s, Query!Comma))
<1> DEFINE p == s.filters
           b == s.buffer
           q == Append(p, b)
<1>1. p \in Seq(Seq(Token)) /\ b \in Seq(Token)
  BY DEF ScanState
<1>2. Query!Scan(s, Query!Comma).filters = q
  <2>1. Query!Scan(s, Query!Comma) = Fresh(q)
    BY ScanSplits, Zenon
  <2>2. QED
    BY <2>1 DEF Fresh
<1> HIDE DEF p, b
<1>3. Len(q) \in 1..Len(q) /\ q[Len(q)] = b
  BY <1>1
<1>4. ~Query!Formatted(b)
  BY DEF b
<1> HIDE DEF q
<1>5. QED
  BY <1>2, <1>3, <1>4, Zenon DEF Doomed

LEMMA DoomedStep ==
  ASSUME NEW s \in ScanState, NEW c \in Token, Doomed(s)
  PROVE  Doomed(Query!Scan(s, c))
<1> DEFINE p == s.filters
           b == s.buffer
           r == Query!Scan(s, c)
<1>1. p \in Seq(Seq(Token)) /\ b \in Seq(Token)
  BY DEF ScanState
<1>2. CASE c = Query!Comma /\ ~s.inValue
  <2>1. CASE Len(b) >= 8 /\ b[8] = Query!Colon
    <3>1. ~Query!Formatted(b)
      BY <1>1, <2>1, NotFormatted, Zenon
    <3>2. QED
      BY <1>2, <3>1, Pushed, Zenon
  <2>2. CASE \E k \in 1..Len(p) : ~Query!Formatted(p[k])
    <3>1. PICK k \in 1..Len(p) : ~Query!Formatted(p[k])
      BY <2>2
    <3>2. r = Fresh(Append(p, b))
      BY <1>2, ScanSplits, Zenon
    <3>3. r.filters = Append(p, b)
      BY <3>2 DEF Fresh
    <3> HIDE DEF p, b, r
    <3>4. k \in 1..Len(Append(p, b)) /\ Append(p, b)[k] = p[k]
      BY <1>1
    <3>5. Doomed(r)
      BY <3>1, <3>3, <3>4, Zenon DEF Doomed
    <3>6. QED
      BY <3>5 DEF r
  <2>3. QED
    BY <2>1, <2>2 DEF Doomed
<1>3. CASE c # Query!Comma \/ s.inValue
  <2>1. r.filters = p /\ r.buffer = Append(b, c)
    BY <1>3, ScanKeeps, Zenon
  <2>2. CASE Len(b) >= 8 /\ b[8] = Query!Colon
    <3> HIDE DEF p, b, r
    <3>1. Len(Append(b, c)) >= 8 /\ Append(b, c)[8] = Query!Colon
      BY <1>1, <2>2
    <3>2. QED
      BY <2>1, <3>1, Zenon DEF Doomed, r
  <2>3. CASE \E k \in 1..Len(p) : ~Query!Formatted(p[k])
    BY <2>1, <2>3, Zenon DEF Doomed
  <2>4. QED
    BY <2>2, <2>3 DEF Doomed
<1>4. QED
  BY <1>2, <1>3

Refused(text) == \E k \in 1..Len(Query!ParseFilters(text)) : ~Query!Formatted(Query!ParseFilters(text)[k])

LEMMA DoomedRefused ==
  ASSUME NEW text \in Seq(Token), NEW o \in 0..Len(text), Doomed(Query!Scanned(text)[o])
  PROVE  Refused(text)
<1> DEFINE N == Len(text) - o
           S == {n \in 0..N : Doomed(Query!Scanned(text)[o + n])}
           end == Query!Scanned(text)[Len(text)]
<1>1. N \in Nat /\ N \in 0..N /\ 0 \in 0..N /\ o + N = Len(text) /\ Len(text) \in 0..Len(text)
      /\ o + 0 = o
  OBVIOUS
<1>2. 0 \in S
  BY <1>1, Zenon
<1>3. ASSUME NEW n \in 0..N - 1, n \in S PROVE n + 1 \in S
  <2> DEFINE s == Query!Scanned(text)[o + n]
             k == o + (n + 1)
             c == text[k]
  <2>1. k \in 1..Len(text) /\ k - 1 = o + n /\ o + n \in 0..Len(text) /\ n + 1 \in 0..N /\ c \in Token
    OBVIOUS
  <2>2. s \in ScanState
    BY <2>1, ScannedTyped, Zenon
  <2>3. Query!Scanned(text)[k] = Query!Scan(s, c)
    BY <2>1, ScannedStep, Zenon
  <2>4. Doomed(s)
    BY <1>3, Zenon
  <2> HIDE DEF s, k, c
  <2>5. Doomed(Query!Scanned(text)[k])
    BY <2>1, <2>2, <2>3, <2>4, DoomedStep
  <2>6. QED
    BY <2>1, <2>5, Zenon DEF k
<1>4. N \in S
  <2>1. \A n \in 0..N - 1 : n \in S => n + 1 \in S
    BY <1>3
  <2> HIDE DEF N, S
  <2>2. QED
    BY <1>1, <1>2, <2>1, Counting, Zenon
<1>5. Doomed(end) /\ end \in ScanState
  BY <1>1, <1>4, ScannedTyped, Zenon
<1> DEFINE p == end.filters
           b == end.buffer
<1>6. p \in Seq(Seq(Token)) /\ b \in Seq(Token)
  BY <1>5 DEF ScanState
<1>7. Query!ParseFilters(text) = IF b = <<>> THEN p ELSE Append(p, b)
  BY DEF Query!ParseFilters
<1>8. (\E k \in 1..Len(p) : ~Query!Formatted(p[k])) \/ (Len(b) >= 8 /\ b[8] = Query!Colon)
  BY <1>5, Zenon DEF Doomed
<1> HIDE DEF p, b
<1>9. CASE Len(b) >= 8 /\ b[8] = Query!Colon
  <2>1. ~Query!Formatted(b)
    BY <1>6, <1>9, NotFormatted, Zenon
  <2>2. b # <<>>
    BY <1>9
  <2>3. Len(Append(p, b)) \in 1..Len(Append(p, b)) /\ Append(p, b)[Len(Append(p, b))] = b
    BY <1>6
  <2>4. QED
    BY <1>7, <2>1, <2>2, <2>3, Zenon DEF Refused
<1>10. CASE \E k \in 1..Len(p) : ~Query!Formatted(p[k])
  <2>1. PICK k \in 1..Len(p) : ~Query!Formatted(p[k])
    BY <1>10
  <2>2. k \in 1..Len(Append(p, b)) /\ Append(p, b)[k] = p[k]
    BY <1>6
  <2>3. QED
    BY <1>7, <2>1, <2>2, Zenon DEF Refused
<1>11. QED
  BY <1>8, <1>9, <1>10

\* A word between two commas, or between one and the end, is refused.
LEMMA LonelyRefused ==
  ASSUME NEW text \in Seq(Token), NEW o \in 0..Len(text),
         ~Query!Scanned(text)[o].inValue, Len(Query!Scanned(text)[o].buffer) = 1,
         o = Len(text) \/ text[o + 1] = Query!Comma
  PROVE  Refused(text)
<1> DEFINE s == Query!Scanned(text)[o]
           p == s.filters
           b == s.buffer
<1>1. s \in ScanState
  BY ScannedTyped, Zenon
<1>2. p \in Seq(Seq(Token)) /\ b \in Seq(Token)
  BY <1>1 DEF ScanState
<1>3. ~Query!Formatted(b)
  BY <1>2, NotFormatted, Zenon
<1>4. CASE o = Len(text)
  <2>1. Query!ParseFilters(text) = IF b = <<>> THEN p ELSE Append(p, b)
    BY <1>4 DEF Query!ParseFilters
  <2>2. b # <<>>
    OBVIOUS
  <2> HIDE DEF p, b, s
  <2>3. Len(Append(p, b)) \in 1..Len(Append(p, b)) /\ Append(p, b)[Len(Append(p, b))] = b
    BY <1>2
  <2>4. QED
    BY <1>3, <2>1, <2>2, <2>3, Zenon DEF Refused
<1>5. CASE o # Len(text)
  <2>1. o + 1 \in 1..Len(text) /\ (o + 1) - 1 = o /\ o + 1 \in 0..Len(text)
    BY <1>5
  <2>2. Query!Scanned(text)[o + 1] = Query!Scan(s, Query!Comma)
    BY <1>5, <2>1, ScannedStep, Zenon
  <2>3. Doomed(Query!Scanned(text)[o + 1])
    BY <1>1, <1>3, <2>2, Pushed, Zenon
  <2>4. QED
    BY <2>1, <2>3, DoomedRefused, Zenon
<1>6. QED
  BY <1>4, <1>5

\* A filter with more values than the scan leaves together.
LEMMA TooManyRefused ==
  ASSUME NEW list \in Seq(Filter), NEW i \in 1..Len(list), Begun(list, i),
         Limit(list[i]) + 2 <= Len(Query!Text(list[i]))
  PROVE  Refused(Query!Written(list))
<1> DEFINE W == Query!Written(list)
           o == Before(list, i)
           f == list[i]
           text == Query!Text(f)
           M == Limit(f)
           s == Query!Scanned(W)[o + M]
           p == TextsOf(list, i - 1)
           cut == Query!Scanned(W)[o + M + 1]
           alone == Query!Scanned(W)[o + M + 2]
<1>1. f \in Filter
  OBVIOUS
<1>2. M \in {5, 7} /\ (IsList(f) => M = 7)
  BY DEF Limit
<1>3. text \in Seq(Token) /\ \A k \in 5..Len(text) : text[k] # Query!Colon /\ (text[k] = Query!Comma <=> k % 2 = 0)
  BY <1>1, TextOK, Zenon
<1>4. /\ W \in Seq(Token) /\ o \in Nat /\ o + Len(text) <= Len(W)
      /\ \A k \in 1..Len(text) : W[o + k] = text[k]
      /\ i < Len(list) => Before(list, i + 1) = o + Len(text) + 1 /\ W[Before(list, i + 1)] = Query!Comma
      /\ i = Len(list) => Len(W) = o + Len(text)
  BY WrittenAt, Zenon
<1>5. M \in Nat /\ M <= Len(text) /\ M <= M
  BY <1>2, <1>3
<1>6. Reading(s, p, f, M)
  BY <1>5, ReadUpTo, Zenon
<1>7. M + 2 <= Len(text)
  OBVIOUS
<1> HIDE DEF W, o, f, text, M, s, p
<1>8. s \in ScanState /\ s.inValue = FALSE
  <2>1. ~(IsList(f) /\ M \in {4, 5})
    BY <1>2
  <2>2. QED
    BY <1>6, <2>1, Zenon DEF Reading
<1>9. /\ M + 1 \in 1..Len(text) /\ M + 1 \in 5..Len(text) /\ (M + 1) % 2 = 0
      /\ M + 2 \in 1..Len(text) /\ M + 2 \in 5..Len(text) /\ (M + 2) % 2 # 0
      /\ o + M + 1 \in 1..Len(W) /\ (o + M + 1) - 1 = o + M /\ o + M + 1 = o + (M + 1)
      /\ o + M + 2 \in 1..Len(W) /\ (o + M + 2) - 1 = o + M + 1 /\ o + M + 2 = o + (M + 2)
      /\ o + M + 2 \in 0..Len(W)
  <2>1. Len(text) \in Nat /\ Len(W) \in Nat /\ o \in Nat /\ o + Len(text) <= Len(W)
    BY <1>3, <1>4
  <2> DEFINE lt == Len(text)
             lw == Len(W)
  <2>2. lt \in Nat /\ lw \in Nat /\ o \in Nat /\ o + lt <= lw /\ M + 2 <= lt
    BY <1>7, <2>1
  <2> HIDE DEF lt, lw
  <2>3. CASE M = 5
    BY <2>2, <2>3 DEF lt, lw
  <2>4. CASE M = 7
    BY <2>2, <2>4 DEF lt, lw
  <2>5. QED
    BY <1>2, <2>3, <2>4
<1>10. W[o + M + 1] = Query!Comma
  BY <1>3, <1>4, <1>9, Zenon
<1>11. cut = Query!Scan(s, Query!Comma)
  BY <1>4, <1>9, <1>10, ScannedStep, Zenon DEF s
<1>12. cut \in ScanState /\ cut = Fresh(Append(s.filters, s.buffer))
  BY <1>8, <1>11, ScanSplits, Zenon
<1>13. cut.buffer = <<>> /\ cut.inValue = FALSE
  BY <1>12 DEF Fresh
<1> DEFINE w == W[o + M + 2]
<1>14. w # Query!Comma /\ w # Query!Colon /\ w \in Token
  <2>1. w = text[M + 2]
    <3>1. W[o + (M + 2)] = text[M + 2]
      BY <1>4, <1>9, Zenon
    <3>2. o + M + 2 = o + (M + 2)
      BY <1>9
    <3>3. QED
      BY <3>1, <3>2, Zenon
  <2>2. text[M + 2] # Query!Colon /\ text[M + 2] # Query!Comma
    BY <1>3, <1>9, Zenon
  <2>3. w \in Token
    <3>1. W \in Seq(Token) /\ o + M + 2 \in 1..Len(W)
      BY <1>4, <1>9
    <3> DEFINE k == o + M + 2
    <3> HIDE DEF k
    <3>2. QED
      BY <3>1 DEF k
  <2>4. QED
    BY <2>1, <2>2, <2>3, Zenon
<1>15. alone = Query!Scan(cut, w)
  BY <1>4, <1>9, ScannedStep, Zenon
<1> HIDE DEF cut, w
<1>16. alone.buffer = Append(cut.buffer, w)
       /\ alone.inValue = ((w = Query!Colon /\ Query!AtList(cut.buffer)) \/ (cut.inValue /\ w # Query!Comma))
  BY <1>12, <1>14, <1>15, ScanKeeps
<1>17. ~alone.inValue
  BY <1>13, <1>14, <1>16, Zenon
<1>18. Len(alone.buffer) = 1
  <2>1. alone.buffer = Append(<<>>, w)
    BY <1>13, <1>16, Zenon
  <2>2. Len(Append(<<>>, w)) = 1
    OBVIOUS
  <2>3. QED
    BY <2>1, <2>2, Zenon
<1>19. o + M + 2 = Len(W) \/ W[(o + M + 2) + 1] = Query!Comma
  <2>1. CASE M + 2 < Len(text)
    <3>1. M + 3 \in 5..Len(text) /\ M + 3 \in 1..Len(text) /\ (M + 3) % 2 = 0 /\ (o + M + 2) + 1 = o + (M + 3)
      <4>1. o \in Nat /\ Len(text) \in Nat
        BY <1>3, <1>4
      <4>2. CASE M = 5
        BY <2>1, <4>1, <4>2
      <4>3. CASE M = 7
        BY <2>1, <4>1, <4>3
      <4>4. QED
        BY <1>2, <4>2, <4>3
    <3>2. QED
      BY <1>3, <1>4, <3>1, Zenon
  <2>2. CASE M + 2 = Len(text) /\ i < Len(list)
    <3>1. (o + M + 2) + 1 = o + Len(text) + 1
      BY <1>2, <1>4, <2>2
    <3>2. QED
      BY <1>4, <2>2, <3>1, Zenon
  <2>3. CASE M + 2 = Len(text) /\ i = Len(list)
    <3>1. o + M + 2 = o + Len(text)
      BY <1>2, <1>4, <2>3
    <3>2. QED
      BY <1>4, <2>3, <3>1, Zenon
  <2>4. QED
    <3>1. Len(list) \in Nat /\ Len(text) \in Nat
      BY <1>3
    <3>2. QED
      BY <1>2, <1>7, <2>1, <2>2, <2>3, <3>1
<1> HIDE DEF alone
<1>20. Refused(W)
  BY <1>4, <1>9, <1>17, <1>18, <1>19, LonelyRefused, Zenon DEF alone
<1>21. QED
  BY <1>20 DEF W

\* An "in" of one value takes the filter after it for its own.
LEMMA SwallowingRefused ==
  ASSUME NEW list \in Seq(Filter), NEW i \in 1..Len(list), Begun(list, i), i < Len(list),
         IsList(list[i]), Len(Query!Text(list[i])) = 5
  PROVE  Refused(Query!Written(list))
<1> DEFINE W == Query!Written(list)
           o == Before(list, i)
           f == list[i]
           g == list[i + 1]
           S == Query!Scanned(W)
           p == TextsOf(list, i - 1)
<1>1. i + 1 \in 1..Len(list) /\ g \in Filter
  OBVIOUS
<1>2. /\ W \in Seq(Token) /\ o \in Nat /\ Before(list, i + 1) = o + 5 + 1
      /\ W[Before(list, i + 1)] = Query!Comma
  BY WrittenAt, Zenon
<1>3. /\ Before(list, i + 1) + Len(Query!Text(g)) <= Len(W)
      /\ \A k \in 1..Len(Query!Text(g)) : W[Before(list, i + 1) + k] = Query!Text(g)[k]
  BY <1>1, WrittenAt, Zenon
<1>4. /\ Len(g.values) \in Nat /\ Len(Query!Text(g)) = 3 + 2 * Len(g.values)
      /\ Query!Text(g)[1] = g.property /\ Query!Text(g)[2] = Query!Colon
  BY <1>1, TextAsWritten, Zenon
<1>5. /\ g.property # Query!Colon /\ g.property # Query!Comma /\ g.property \in Token
      /\ Query!Colon # Query!Comma /\ Query!Colon \in Token /\ Query!Comma \in Token
  <2>1. g.property \in {"age", "other"}
    BY <1>1 DEF Filter
  <2>2. QED
    BY <2>1, Separators, Zenon
<1>6. Reading(S[o + 5], p, f, 5)
  <2>1. 5 \in Nat /\ 5 <= Len(Query!Text(f)) /\ 5 <= Limit(f)
    BY DEF Limit
  <2>2. QED
    BY <2>1, ReadUpTo, Zenon
<1>7. IsList(f)
  OBVIOUS
<1> HIDE DEF W, f, g, p, o
<1>8. W[o + 6] = Query!Comma /\ W[o + 7] = g.property /\ W[o + 8] = Query!Colon /\ o + 8 <= Len(W)
  <2>1. Before(list, i + 1) + 1 = o + 7 /\ Before(list, i + 1) + 2 = o + 8 /\ Before(list, i + 1) = o + 6
    BY <1>2
  <2>2. 1 \in 1..Len(Query!Text(g)) /\ 2 \in 1..Len(Query!Text(g)) /\ Len(Query!Text(g)) >= 2
    BY <1>4
  <2>3. o + 8 <= Len(W)
    BY <1>2, <1>3, <1>4, <2>1
  <2>4. QED
    BY <1>2, <1>3, <1>4, <2>1, <2>2, <2>3, Zenon
<1>9. /\ o + 6 \in 1..Len(W) /\ o + 7 \in 1..Len(W) /\ o + 8 \in 1..Len(W) /\ o + 8 \in 0..Len(W)
      /\ (o + 6) - 1 = o + 5 /\ (o + 7) - 1 = o + 6 /\ (o + 8) - 1 = o + 7
  BY <1>2, <1>8
<1>10. /\ S[o + 6] = Query!Scan(S[o + 5], Query!Comma)
       /\ S[o + 7] = Query!Scan(S[o + 6], g.property)
       /\ S[o + 8] = Query!Scan(S[o + 7], Query!Colon)
  BY <1>2, <1>8, <1>9, ScannedStep, Zenon
<1> HIDE DEF S
<1> DEFINE a == S[o + 5]
           b == S[o + 6]
           c == S[o + 7]
           d == S[o + 8]
<1>11. a \in ScanState /\ Len(a.buffer) = 5 /\ a.inValue
  <2>1. 5 \in {4, 5}
    OBVIOUS
  <2>2. QED
    BY <1>6, <1>7, <2>1, Zenon DEF Reading
<1> HIDE DEF a, b, c, d
<1>12. b \in ScanState /\ b.buffer = Append(a.buffer, Query!Comma)
  <2>1. b = Query!Scan(a, Query!Comma)
    BY <1>10 DEF a, b
  <2>2. QED
    BY <1>5, <1>11, <2>1, ScanKeeps
<1>13. c \in ScanState /\ c.buffer = Append(b.buffer, g.property)
  <2>1. c = Query!Scan(b, g.property)
    BY <1>10 DEF b, c
  <2>2. QED
    BY <1>5, <1>12, <2>1, ScanKeeps
<1>14. d.buffer = Append(c.buffer, Query!Colon)
  <2>1. d = Query!Scan(c, Query!Colon)
    BY <1>10 DEF c, d
  <2>2. QED
    BY <1>5, <1>13, <2>1, ScanKeeps
<1>15. a.buffer \in Seq(Token) /\ b.buffer \in Seq(Token) /\ c.buffer \in Seq(Token)
  BY <1>11, <1>12, <1>13 DEF ScanState
<1>16. Len(d.buffer) = 8 /\ d.buffer[8] = Query!Colon
  <2>1. Len(b.buffer) = Len(a.buffer) + 1
    BY <1>12, <1>15
  <2>2. Len(c.buffer) = Len(b.buffer) + 1
    BY <1>13, <1>15
  <2>3. Len(d.buffer) = Len(c.buffer) + 1 /\ d.buffer[Len(c.buffer) + 1] = Query!Colon
    BY <1>14, <1>15
  <2>4. Len(c.buffer) + 1 = 8
    BY <1>11, <2>1, <2>2
  <2>5. QED
    BY <2>3, <2>4, Zenon
<1>17. Doomed(d)
  <2>1. Len(d.buffer) >= 8
    BY <1>16
  <2>2. QED
    BY <1>16, <2>1, Zenon DEF Doomed
<1>18. Refused(W)
  BY <1>2, <1>9, <1>17, DoomedRefused, Zenon DEF d, S
<1>19. QED
  BY <1>18 DEF W

LEMMA AllReadable ==
  ASSUME NEW list \in Seq(Filter), ~Refused(Query!Written(list))
  PROVE  \A i \in 1..Len(list) : Readable(list, i)
<1> DEFINE N == Len(list)
           S == {n \in 0..N : \A i \in 1..n : Readable(list, i)}
<1>1. N \in Nat /\ N \in 0..N
  OBVIOUS
<1>2. 0 \in S
  OBVIOUS
<1>3. ASSUME NEW n \in 0..N - 1, n \in S PROVE n + 1 \in S
  <2> DEFINE i == n + 1
             f == list[i]
             L == Len(Query!Text(f))
  <2>1. i \in 1..N /\ i - 1 = n /\ i \in 0..N /\ f \in Filter
    OBVIOUS
  <2>2. Begun(list, i)
    BY <1>3, <2>1, Begins, Zenon
  <2>3. Len(f.values) \in Nat /\ L = 3 + 2 * Len(f.values)
    BY <2>1, TextAsWritten, Zenon
  <2>4. ~(Limit(f) + 2 <= L)
    BY <2>1, <2>2, TooManyRefused, Zenon
  <2>5. ~(i < Len(list) /\ IsList(f) /\ L = 5)
    BY <2>1, <2>2, SwallowingRefused, Zenon
  <2> HIDE DEF L, f, i
  <2>6. Readable(list, i)
    <3>1. CASE IsList(f)
      <4>1. Len(f.values) \in 0..2
        <5>1. Limit(f) = 7
          BY <3>1, Zenon DEF Limit
        <5>2. QED
          <6> DEFINE v == Len(f.values)
                     m == Limit(f)
          <6>1. v \in Nat /\ L = 3 + 2 * v /\ m = 7 /\ ~(m + 2 <= L)
            BY <2>3, <2>4, <5>1
          <6> HIDE DEF v, m
          <6>2. v \in 0..2
            BY <6>1
          <6>3. QED
            BY <6>2 DEF v
      <4>2. Len(f.values) = 1 => i = Len(list)
        BY <1>1, <2>1, <2>3, <2>5, <3>1
      <4>3. Len(f.values) \in {0, 2} \/ (Len(f.values) = 1 /\ i = Len(list))
        BY <4>1, <4>2
      <4>4. QED
        BY <3>1, <4>3, Zenon DEF Readable, f
    <3>2. CASE ~IsList(f)
      <4>1. Len(f.values) <= 1
        BY <2>3, <2>4, <3>2 DEF Limit
      <4>2. QED
        BY <3>2, <4>1, Zenon DEF Readable, f
    <3>3. QED
      BY <3>1, <3>2
  <2>7. ASSUME NEW j \in 1..i PROVE Readable(list, j)
    <3>1. j = i \/ j \in 1..n
      BY <1>1, <2>1
    <3>2. QED
      BY <1>3, <2>6, <3>1, Zenon
  <2>8. QED
    BY <2>1, <2>7, Zenon DEF i
<1>4. N \in S
  <2>1. \A n \in 0..N - 1 : n \in S => n + 1 \in S
    BY <1>3
  <2> HIDE DEF N, S
  <2>2. QED
    BY <1>1, <1>2, <2>1, Counting, Zenon
<1>5. QED
  BY <1>4, Zenon

--------------------------------------------------------------------------------
(* The requests, and what is kept of them.                                     *)

Accepted(list) == Query!FilteringAccepts(Query!Written(list), {"age"})

LEMMA ParsedTyped ==
  ASSUME NEW text \in Seq(Token)
  PROVE  Query!ParseFilters(text) \in Seq(Seq(Token))
<1> DEFINE end == Query!Scanned(text)[Len(text)]
<1>1. Len(text) \in 0..Len(text)
  OBVIOUS
<1>2. end \in ScanState
  BY <1>1, ScannedTyped, Zenon
<1> HIDE DEF end
<1>3. end.filters \in Seq(Seq(Token)) /\ end.buffer \in Seq(Token)
  BY <1>2 DEF ScanState
<1>4. Append(end.filters, end.buffer) \in Seq(Seq(Token))
  BY <1>3
<1>5. QED
  BY <1>3, <1>4, Zenon DEF Query!ParseFilters, end

LEMMA WrittenTyped == \A list \in Seq(Filter) : Query!Written(list) \in Seq(Token)
<1> SUFFICES ASSUME NEW list \in Seq(Filter) PROVE Query!Written(list) \in Seq(Token)
  OBVIOUS
<1>1. Len(list) \in 0..Len(list)
  OBVIOUS
<1>2. QED
  BY <1>1, TextsTyped, Zenon DEF Query!Written

\* A list that is accepted is read as it was written.
LEMMA AcceptedRead ==
  ASSUME NEW list \in Seq(Filter), Accepted(list)
  PROVE  Query!FilteringParams(Query!Written(list)) = [i \in 1..Len(list) |-> Query!ReadFilter(Query!Text(list[i]))]
<1> DEFINE W == Query!Written(list)
           P == Query!ParseFilters(W)
<1>1. P \in Seq(Seq(Token))
  BY WrittenTyped, ParsedTyped, Zenon
<1>2. \A filter \in {P[k] : k \in DOMAIN P} : Query!Formatted(filter)
  BY Zenon DEF Accepted, Query!FilteringAccepts, Query!ToSet
<1>3. ~Refused(W)
  <2>1. DOMAIN P = 1..Len(P)
    BY <1>1
  <2>2. \A k \in 1..Len(P) : Query!Formatted(P[k])
    BY <1>2, <2>1, Zenon
  <2>3. QED
    BY <2>2, Zenon DEF Refused
<1>4. P = TextsOf(list, Len(list))
  BY <1>3, AllReadable, ReadableParsed, Zenon
<1>5. Query!FilteringParams(W) = [i \in DOMAIN P |-> Query!ReadFilter(P[i])]
  BY Zenon DEF Query!FilteringParams
<1> HIDE DEF W, P
<1>6. DOMAIN P = 1..Len(list) /\ \A i \in 1..Len(list) : P[i] = Query!Text(list[i])
  BY <1>4 DEF TextsOf
<1>7. QED
  BY <1>5, <1>6 DEF W

\* A list of good filters that are readable is accepted.
LEMMA ReadableAccepted ==
  ASSUME NEW list \in Seq(Filter), \A i \in 1..Len(list) : Readable(list, i),
         \A i \in 1..Len(list) : list[i].property = "age" /\ Query!ValidRule(list[i].rule)
  PROVE  Accepted(list)
<1> DEFINE P == Query!ParseFilters(Query!Written(list))
<1>1. P = TextsOf(list, Len(list))
  BY ReadableParsed, Zenon
<1>2. DOMAIN P = 1..Len(list) /\ \A i \in 1..Len(list) : P[i] = Query!Text(list[i])
  BY <1>1 DEF TextsOf
<1>3. ASSUME NEW i \in 1..Len(list)
      PROVE  Query!Formatted(P[i]) /\ P[i][1] \in {"age"} /\ Query!ValidRule(P[i][3])
  <2>1. list[i] \in Filter
    OBVIOUS
  <2>2. Query!Text(list[i])[1] = list[i].property /\ Query!Text(list[i])[3] = list[i].rule
    BY <2>1, TextAsWritten, Zenon
  <2>3. Query!Formatted(Query!Text(list[i]))
    BY <2>1, TextFormatted, Zenon
  <2> HIDE DEF P
  <2>4. P[i][1] = "age" /\ P[i][3] = list[i].rule /\ Query!Formatted(P[i])
    BY <1>2, <2>2, <2>3, Zenon
  <2>5. QED
    BY <2>4, Zenon
<1> HIDE DEF P
<1>4. \A filter \in {P[k] : k \in DOMAIN P} :
        Query!Formatted(filter) /\ filter[1] \in {"age"} /\ Query!ValidRule(filter[3])
  BY <1>2, <1>3, Zenon
<1>5. QED
  BY <1>4, Zenon DEF Accepted, Query!FilteringAccepts, Query!ToSet, P

Alone(r) ==
    /\ r.filters \in Seq(Filter)
    /\ r.filters # <<>> => r.sort = <<>> /\ r.page = Query!Absent /\ r.size = Query!Absent

LEMMA InputAlone == \A x \in Query!Inputs : Alone(x)
<1>1. /\ Query!NoInput.filters = <<>> /\ Query!NoInput.sort = <<>>
      /\ Query!NoInput.page = Query!Absent /\ Query!NoInput.size = Query!Absent
  BY DEF Query!NoInput
<1>2. DOMAIN Query!NoInput =
        {"route", "payload", "filters", "sort", "page", "size", "total", "headers", "returns"}
  BY DEF Query!NoInput
<1>3. ASSUME NEW x, x.filters = <<>> PROVE Alone(x)
  BY <1>3 DEF Alone
<1>4. ASSUME NEW x \in Query!RouteInputs PROVE Alone(x)
  <2>1. PICK r : x = [Query!NoInput EXCEPT !.route = r.route, !.payload = r.payload]
    BY Zenon DEF Query!RouteInputs
  <2>2. x.filters = <<>>
    BY <1>1, <1>2, <2>1
  <2>3. QED
    BY <1>3, <2>2
<1>5. ASSUME NEW x \in Query!FilterInputs PROVE Alone(x)
  <2> DEFINE Lists == UNION {[1..m -> [property : {"age", "other"}, rule : Rules,
                                       values : UNION {[1..k -> Words] : k \in 0..MaxValues}]] : m \in 0..MaxFilters}
  <2>1. PICK list \in Lists : x = [Query!NoInput EXCEPT !.filters = list]
    BY Zenon DEF Query!FilterInputs, Query!BoundedSeq, Query!SeqOf
  <2>2. list \in Seq(Filter)
    <3> DEFINE V == UNION {[1..k -> Words] : k \in 0..MaxValues}
               F == [property : {"age", "other"}, rule : Rules, values : V]
    <3>1. V \subseteq Seq(Words)
      BY CoreAssumption
    <3>2. F \subseteq Filter
      <4> HIDE DEF V
      <4>1. QED
        BY <3>1 DEF Filter
    <3> HIDE DEF F
    <3>3. PICK m \in 0..MaxFilters : list \in [1..m -> F]
      BY <2>1 DEF F
    <3>4. m \in Nat
      BY <3>3, CoreAssumption
    <3>5. list \in [1..m -> Filter]
      BY <3>2, <3>3
    <3>6. QED
      BY <3>4, <3>5
  <2> HIDE DEF Lists
  <2>3. x.filters = list /\ x.sort = <<>> /\ x.page = Query!Absent /\ x.size = Query!Absent
    BY <1>1, <1>2, <2>1
  <2>4. QED
    BY <2>2, <2>3, Zenon DEF Alone
<1>6. ASSUME NEW x \in Query!SortInputs PROVE Alone(x)
  <2>1. PICK r : x = [Query!NoInput EXCEPT !.sort = r.sort, !.headers = r.headers, !.returns = r.returns]
    BY Zenon DEF Query!SortInputs
  <2>2. x.filters = <<>>
    BY <1>1, <1>2, <2>1
  <2>3. QED
    BY <1>3, <2>2
<1>7. ASSUME NEW x \in Query!PageInputs PROVE Alone(x)
  <2>1. PICK r : x = [Query!NoInput EXCEPT !.page = r.page, !.size = r.size, !.total = r.total]
    BY Zenon DEF Query!PageInputs
  <2>2. x.filters = <<>>
    BY <1>1, <1>2, <2>1
  <2>3. QED
    BY <1>3, <2>2
<1>8. QED
  BY <1>4, <1>5, <1>6, <1>7, Zenon DEF Query!Inputs

\* Inductive: which requests are answered, and what their handlers are given.
FiltersOK ==
    /\ Alone(input)
    /\ stage \in {"handler", "answered"} =>
        Accepted(input.filters) /\ filters = Query!FilteringParams(Query!Written(input.filters))
    /\ stage = "400" /\ input.filters # <<>> => ~Accepted(input.filters)

LEMMA OthersAccept ==
  ASSUME Alone(input), input.filters # <<>>
  PROVE  Query!SortingAccepts(input.sort, {"age"}) /\ Query!PaginationAccepts(input.page, input.size)
<1>1. input.sort = <<>> /\ input.page = Query!Absent /\ input.size = Query!Absent
  BY Zenon DEF Alone
<1>2. DOMAIN <<>> = {}
  OBVIOUS
<1>3. Query!SortingAccepts(input.sort, {"age"})
  BY <1>1, <1>2, Zenon DEF Query!SortingAccepts
<1>4. Query!PaginationAccepts(input.page, input.size)
  BY <1>1, Zenon DEF Query!PaginationAccepts, Query!Valid
<1>5. QED
  BY <1>3, <1>4

LEMMA FiltersStep == ASSUME FiltersOK, Query!Next PROVE FiltersOK'
<1>1. input' = input /\ Alone(input)'
  <2>1. input' = input
    BY Zenon DEF Query!Next, Query!Authenticate, Query!Guard, Query!ReadParams, Query!Respond
  <2>2. QED
    BY <2>1, Zenon DEF FiltersOK, Alone
<1>2. ASSUME Query!ReadParams PROVE FiltersOK'
  <2> DEFINE accepts == /\ Accepted(input.filters)
                        /\ Query!SortingAccepts(input.sort, {"age"})
                        /\ Query!PaginationAccepts(input.page, input.size)
  <2>1. CASE accepts
    <3>1. stage' = "handler" /\ filters' = Query!FilteringParams(Query!Written(input.filters))
      BY <1>2, <2>1, Zenon DEF Query!ReadParams, Accepted
    <3>2. Accepted(input.filters)' /\ "handler" # "400"
      BY <1>1, <2>1, Zenon DEF Accepted
    <3>3. QED
      BY <1>1, <3>1, <3>2, Zenon DEF FiltersOK
  <2>2. CASE ~accepts
    <3>1. stage' = "400" /\ "400" \notin {"handler", "answered"}
      BY <1>2, <2>2, Zenon DEF Query!ReadParams, Accepted
    <3>2. input.filters # <<>> => ~Accepted(input.filters)
      BY <1>1, <2>2, OthersAccept, Zenon DEF FiltersOK
    <3>3. QED
      BY <1>1, <3>1, <3>2, Zenon DEF FiltersOK, Accepted
  <2>3. QED
    BY <2>1, <2>2
<1>3. ASSUME Query!Authenticate PROVE FiltersOK'
  <2>1. stage' \in {"guard", "401"}
    BY <1>3, Zenon DEF Query!Authenticate
  <2>2. stage' \notin {"handler", "answered", "400"}
    BY <2>1, Zenon
  <2>3. QED
    BY <1>1, <2>2, Zenon DEF FiltersOK
<1>4. ASSUME Query!Guard PROVE FiltersOK'
  <2>1. stage' \in {"params", "403"}
    BY <1>4, Zenon DEF Query!Guard
  <2>2. stage' \notin {"handler", "answered", "400"}
    BY <2>1, Zenon
  <2>3. QED
    BY <1>1, <2>2, Zenon DEF FiltersOK
<1>5. ASSUME Query!Respond PROVE FiltersOK'
  <2>1. stage = "handler" /\ stage' = "answered" /\ filters' = filters /\ "answered" # "400"
    BY <1>5, Zenon DEF Query!Respond
  <2>2. Accepted(input.filters) /\ filters = Query!FilteringParams(Query!Written(input.filters))
    BY <2>1, Zenon DEF FiltersOK
  <2>3. QED
    BY <1>1, <2>1, <2>2, Zenon DEF FiltersOK, Accepted
<1>6. QED
  BY <1>2, <1>3, <1>4, <1>5 DEF Query!Next

\* What FilteringParams makes of a value is what its rule has of it.
LEMMA ValueConverted ==
  ASSUME NEW rule, NEW v, rule \notin {"isnull", "isnotnull"}
  PROVE  Query!ConvertFilterValue(rule, v) =
            IF rule \in {"gt", "gte", "lt", "lte"} \/ (rule \in {"eq", "neq"} /\ v \in DOMAIN Number)
            THEN IF v \in DOMAIN Number THEN <<"number", Number[v]>> ELSE <<"NaN">>
            ELSE <<"string", v>>
  BY DEF Query!ConvertFilterValue

LEMMA FiltersRead == ASSUME FiltersOK PROVE Query!ReadAsWritten
<1> DEFINE list == input.filters
           Value(rule, v) == IF rule \in {"gt", "gte", "lt", "lte"} \/ (rule \in {"eq", "neq"} /\ v \in DOMAIN Number)
                             THEN IF v \in DOMAIN Number THEN <<"number", Number[v]>> ELSE <<"NaN">>
                             ELSE <<"string", v>>
           Good(f) == /\ f.property = "age" /\ Query!ValidRule(f.rule)
                      /\ f.rule \notin {"in", "nin"} => Len(f.values) <= 1
           Unread(i) == /\ list[i].rule \in {"in", "nin"}
                        /\ \/ Len(list[i].values) > 2
                           \/ Len(list[i].values) = 1 /\ i < Len(list)
<1>1. list \in Seq(Filter)
  BY DEF FiltersOK, Alone
<1>2. DOMAIN list = 1..Len(list) /\ Len(list) \in Nat /\ \A i \in 1..Len(list) : list[i] \in Filter
  <2> HIDE DEF list
  <2>1. QED
    BY <1>1
<1>3. ASSUME stage \in {"handler", "answered"}
      PROVE  /\ Len(filters) = Len(list)
             /\ \A i \in DOMAIN list :
                 /\ filters[i].property = list[i].property /\ filters[i].rule = list[i].rule
                 /\ filters[i].values =
                      IF list[i].rule \in {"isnull", "isnotnull"} THEN <<>>
                      ELSE [k \in DOMAIN list[i].values |-> Value(list[i].rule, list[i].values[k])]
  <2>1. Accepted(list) /\ filters = Query!FilteringParams(Query!Written(list))
    BY <1>3, Zenon DEF FiltersOK
  <2>2. filters = [i \in 1..Len(list) |-> Query!ReadFilter(Query!Text(list[i]))]
    BY <1>1, <2>1, AcceptedRead, Zenon
  <2> HIDE DEF list
  <2>3. Len(filters) = Len(list) /\ \A i \in 1..Len(list) : filters[i] = Query!ReadFilter(Query!Text(list[i]))
    BY <1>2, <2>2
  <2>4. ASSUME NEW i \in 1..Len(list)
        PROVE  /\ filters[i].property = list[i].property /\ filters[i].rule = list[i].rule
               /\ filters[i].values =
                    IF list[i].rule \in {"isnull", "isnotnull"} THEN <<>>
                    ELSE [k \in DOMAIN list[i].values |-> Value(list[i].rule, list[i].values[k])]
    <3> DEFINE f == list[i]
               values == IF f.rule \in {"isnull", "isnotnull"} THEN <<>>
                         ELSE [k \in DOMAIN f.values |-> Query!ConvertFilterValue(f.rule, f.values[k])]
    <3>1. f \in Filter
      BY <1>2
    <3>2. filters[i] = [property |-> f.property, rule |-> f.rule, values |-> values]
      BY <2>3, <3>1, TextRead, Zenon
    <3>3. values = IF f.rule \in {"isnull", "isnotnull"} THEN <<>>
                   ELSE [k \in DOMAIN f.values |-> Value(f.rule, f.values[k])]
      <4>1. ASSUME f.rule \notin {"isnull", "isnotnull"}, NEW k \in DOMAIN f.values
            PROVE  Query!ConvertFilterValue(f.rule, f.values[k]) = Value(f.rule, f.values[k])
        BY <4>1, ValueConverted, Zenon
      <4> HIDE DEF f, Value
      <4>2. QED
        BY <4>1
    <3> HIDE DEF f, values, Value
    <3>4. filters[i].property = f.property /\ filters[i].rule = f.rule /\ filters[i].values = values
      BY <3>2
    <3>5. QED
      BY <3>3, <3>4, Zenon DEF f
  <2>5. QED
    BY <1>2, <2>3, <2>4, Zenon
<1>4. ASSUME stage = "400", list # <<>>, \A i \in DOMAIN list : Good(list[i])
      PROVE  \E i \in DOMAIN list : Unread(i)
  <2>1. SUFFICES ASSUME \A i \in DOMAIN list : ~Unread(i) PROVE FALSE
    BY Zenon
  <2>2. ~Accepted(list)
    BY <1>4, Zenon DEF FiltersOK
  <2> HIDE DEF list
  <2>3. ASSUME NEW i \in 1..Len(list) PROVE Readable(list, i)
    <3>1. Len(list[i].values) \in Nat
      BY <1>2, TextAsWritten, Zenon
    <3>2. CASE IsList(list[i])
      <4> DEFINE v == Len(list[i].values)
      <4>1. ~(v > 2) /\ ~(v = 1 /\ i < Len(list))
        BY <1>2, <2>1, <3>2, Zenon DEF IsList
      <4>2. v \in Nat
        BY <3>1
      <4> HIDE DEF v
      <4>3. Len(list) \in Nat /\ i \in 1..Len(list)
        BY <1>2
      <4> DEFINE N == Len(list)
      <4>4. N \in Nat /\ i \in 1..N /\ ~(v > 2) /\ ~(v = 1 /\ i < N)
        BY <4>1, <4>3
      <4> HIDE DEF N
      <4>5. v \in {0, 2} \/ (v = 1 /\ i = N)
        BY <4>2, <4>4
      <4>6. QED
        BY <3>2, <4>5, Zenon DEF Readable, v, N
    <3>3. CASE ~IsList(list[i])
      <4>1. Len(list[i].values) <= 1
        BY <1>2, <1>4, <3>3, Zenon DEF IsList
      <4>2. QED
        BY <3>3, <4>1, Zenon DEF Readable
    <3>4. QED
      BY <3>2, <3>3
  <2>4. \A i \in 1..Len(list) : list[i].property = "age" /\ Query!ValidRule(list[i].rule)
    BY <1>2, <1>4, Zenon
  <2>5. Accepted(list)
    BY <1>1, <2>3, <2>4, ReadableAccepted, Zenon
  <2>6. QED
    BY <2>2, <2>5
<1>5. QED
  BY <1>3, <1>4, Zenon DEF Query!ReadAsWritten

\* Every list of filters, of any length and with any words and rules, is read as it
\* was written or refused, and refused only for what parseFilters cannot keep
\* together (FilteringParams).
THEOREM ReadAsWrittenSafe == SumSpec => []ReadAsWritten
<1> DEFINE Inv == part = "query" => FiltersOK
<1>1. SumInit => Inv
  <2>1. ASSUME Query!Init PROVE FiltersOK
    <3>1. stage = "auth" /\ input \in Query!Inputs /\ "auth" \notin {"handler", "answered", "400"}
      BY <2>1, Zenon DEF Query!Init
    <3>2. QED
      BY <3>1, InputAlone, Zenon DEF FiltersOK
  <2>2. SumInit /\ part = "query" => Query!Init
    BY DEF SumInit
  <2>3. QED
    BY <2>1, <2>2
<1>2. Inv /\ [SumNext]_sumVars => Inv'
  <2>1. CASE part = "query" /\ SumNext
    BY <2>1, FiltersStep DEF SumNext
  <2>2. CASE part # "query" /\ SumNext
    BY <2>2 DEF SumNext
  <2>3. CASE UNCHANGED sumVars
    BY <2>3, Zenon DEF sumVars, queryVars, FiltersOK, Alone, Accepted
  <2>4. QED
    BY <2>1, <2>2, <2>3
<1>3. Inv => ReadAsWritten
  BY FiltersRead DEF ReadAsWritten
<1>4. QED
  BY <1>1, <1>2, <1>3, PTL DEF SumSpec

--------------------------------------------------------------------------------
(* LogRecords.                                                                 *)

\* A field as it is in a request.
Whole(field) ==
    /\ field.value.length \in Nat /\ field.value.shown = field.value.length
    /\ DOMAIN field.value = {"type", "length", "shown"}
    /\ DOMAIN field = {"form", "value"}
    /\ field.form \in {"object", "absent"}

\* What may be logged of it.
Shown(field, at, redact) ==
    LET hidden == field.value.length - field.value.shown IN
    IF field.form = "absent" \/ at \notin redact.paths THEN hidden = 0
    ELSE IF redact.censor = None \/ field.value.type # "text" \/ field.value.length < redact.censor
    THEN field.value.shown = 0
    ELSE hidden = redact.censor

LEMMA MaxOfZero == \A x \in Int : Log!Max({0, x}) = IF x > 0 THEN x ELSE 0
<1> SUFFICES ASSUME NEW x \in Int PROVE Log!Max({0, x}) = IF x > 0 THEN x ELSE 0
  OBVIOUS
<1> DEFINE max == IF x > 0 THEN x ELSE 0
<1>1. max \in {0, x} /\ \A y \in {0, x} : max >= y
  OBVIOUS
<1>2. \A z \in {0, x} : (\A y \in {0, x} : z >= y) => z = max
  OBVIOUS
<1>3. Log!Max({0, x}) \in {0, x} /\ \A y \in {0, x} : Log!Max({0, x}) >= y
  BY <1>1 DEF Log!Max
<1>4. QED
  BY <1>2, <1>3

LEMMA CensoredShown ==
  ASSUME NEW field, Whole(field), field.form = "object", NEW redact \in Redactions, NEW at \in redact.paths
  PROVE  Shown([field EXCEPT !.value = Log!Censored(@, redact)], at, redact)
<1> DEFINE value == field.value
           shown == IF redact.censor = None \/ value.type # "text" THEN 0
                    ELSE Log!Max({0, value.length - redact.censor})
<1>1. Log!Censored(value, redact) = [value EXCEPT !.shown = shown]
  BY DEF Log!Censored, Log!ObfuscateValue
<1>2. /\ [value EXCEPT !.shown = shown].shown = shown
      /\ [value EXCEPT !.shown = shown].length = value.length
      /\ [value EXCEPT !.shown = shown].type = value.type
  BY DEF Whole
<1>3. redact.censor # None => redact.censor \in Nat
  BY CoreAssumption
<1>4. redact.censor # None /\ value.type = "text" =>
        shown = IF value.length > redact.censor THEN value.length - redact.censor ELSE 0
  BY <1>3, MaxOfZero DEF Whole
<1> DEFINE new == [field EXCEPT !.value = [value EXCEPT !.shown = shown]]
<1>5. /\ new.form = "object" /\ new.value.shown = shown
      /\ new.value.length = value.length /\ new.value.type = value.type
  BY <1>2 DEF Whole
<1>6. Shown(new, at, redact)
  <2> HIDE DEF new, shown
  <2>1. value.length \in Nat
    BY DEF Whole
  <2>2. CASE redact.censor = None \/ value.type # "text"
    <3>1. shown = 0
      BY <2>2 DEF shown
    <3>2. QED
      BY <1>5, <2>2, <3>1 DEF Shown
  <2>3. CASE redact.censor # None /\ value.type = "text"
    BY <1>3, <1>4, <1>5, <2>1, <2>3 DEF Shown
  <2>4. QED
    BY <2>2, <2>3
<1>7. QED
  BY <1>1, <1>6

\* A record before and after.
Record(record) == \A at \in DOMAIN record : Whole(record[at])

LEMMA RecordShown ==
  ASSUME NEW record, Record(record), logOptions.redact \in Redactions,
         NEW logged \in Log!RedactLogs(record)
  PROVE  \A at \in DOMAIN logged.fields : Shown(logged.fields[at], at, logOptions.redact)
<1> DEFINE redacted == Log!Obfuscate(record, logOptions.redact)
<1>1. logged.fields = Log!Stringified(redacted)
  BY DEF Log!RedactLogs
<1>2. ASSUME NEW at \in DOMAIN record
      PROVE  Shown(redacted[at], at, logOptions.redact)
  <2>1. CASE at \in logOptions.redact.paths /\ record[at].form = "object"
    BY <2>1, CensoredShown DEF Log!Obfuscate, Record
  <2>2. CASE ~(at \in logOptions.redact.paths /\ record[at].form = "object")
    BY <2>2 DEF Log!Obfuscate, Record, Whole, Shown
  <2>3. QED
    BY <2>1, <2>2
<1>3. DOMAIN redacted = DOMAIN record /\ DOMAIN logged.fields = DOMAIN record
  BY <1>1 DEF Log!Obfuscate, Log!Stringified
<1>4. ASSUME NEW at \in DOMAIN record
      PROVE  \/ logged.fields[at] = redacted[at]
             \/ redacted[at].form = "object" /\ logged.fields[at] = [redacted[at] EXCEPT !.form = "string"]
  BY <1>1, <1>3 DEF Log!Stringified
<1>5. \A at \in DOMAIN record : DOMAIN redacted[at] = {"form", "value"}
  BY DEF Log!Obfuscate, Record, Whole
<1> HIDE DEF redacted
<1>6. ASSUME NEW at \in DOMAIN record
      PROVE  Shown(logged.fields[at], at, logOptions.redact)
  <2>1. CASE logged.fields[at] = redacted[at]
    BY <1>2, <2>1
  <2>2. CASE redacted[at].form = "object" /\ logged.fields[at] = [redacted[at] EXCEPT !.form = "string"]
    <3>1. logged.fields[at].form = "string" /\ logged.fields[at].value = redacted[at].value
      BY <1>5, <2>2
    <3>2. QED
      BY <1>2, <2>2, <3>1 DEF Shown
  <2>3. QED
    BY <1>4, <2>1, <2>2
<1>7. QED
  BY <1>3, <1>6

\* The two records of an exchange.
LEMMA ExchangeWhole ==
  ASSUME NEW r \in Log!Exchanges
  PROVE  Record(Log!AddRequestLogs(r)) /\ Record(Log!AddResponseLogs(r))
<1> DEFINE Values == {Log!Absent, Log!Field(Log!NoText)} \cup {Log!Field(Log!Text(n)) : n \in Lengths}
<1>1. Whole(Log!Absent) /\ Whole(Log!Field(Log!NoText))
  BY DEF Whole, Log!Absent, Log!Field, Log!NoText, Log!Text
<1>2. \A n \in Lengths : Whole(Log!Field(Log!Text(n)))
  BY CoreAssumption DEF Whole, Log!Field, Log!Text
<1>3. \A v \in Values : Whole(v)
  BY <1>1, <1>2
<1>4. r.body \in Values /\ r.headers \in Values /\ r.response \in Values
      /\ r.query \in Values
  BY DEF Log!Exchanges
<1> HIDE DEF Values
<1>5. Whole(r.body) /\ Whole(r.headers) /\ Whole(r.query) /\ Whole(r.response)
  BY <1>3, <1>4
<1>6. QED
  BY <1>1, <1>5 DEF Record, Log!AddRequestLogs, Log!AddResponseLogs

LogOK ==
    /\ logOptions.redact \in Redactions
    /\ Log!SecretsCensored

LEMMA EmittedOnce == \A level, line : Len(Log!Emitted(level, line)) # 2
  BY DEF Log!Emitted

LEMMA LogStep == ASSUME LogOK, Log!Next PROVE LogOK'
<1>1. logOptions' = logOptions
  BY DEF Log!Next, Log!LogFn, Log!LogRequest, Log!Return
<1>2. ASSUME Len(lines') # 2 \/ call' = None PROVE LogOK'
  BY <1>1, <1>2 DEF LogOK, Log!SecretsCensored
<1>3. ASSUME NEW c \in Calls, Log!LogFn(c.level, c.message, c.params) PROVE LogOK'
  BY <1>2, <1>3, EmittedOnce DEF Log!LogFn
<1>4. ASSUME NEW r \in Log!Exchanges, Log!LogRequest(r) PROVE LogOK'
  <2> DEFINE one == Log!RedactLogs(Log!AddRequestLogs(r))
             two == Log!RedactLogs(Log!AddResponseLogs(r))
             records == <<one, two>>
  <2>1. \/ \E line : lines' = Log!Emitted("error", line)
        \/ lines' = <<>>
        \/ {} \notin {one, two} /\ lines' = [i \in 1..2 |-> CHOOSE record \in records[i] : TRUE]
    <3>1. Log!ToSet(records) = {one, two}
      <4> HIDE DEF one, two
      <4>1. QED
        BY DEF Log!ToSet
    <3>2. QED
      BY <1>4, <3>1 DEF Log!LogRequest
  <2> HIDE DEF one, two
  <2>2. CASE \/ \E line : lines' = Log!Emitted("error", line)
             \/ lines' = <<>>
    <3>1. Len(lines') # 2
      BY <2>2, EmittedOnce
    <3>2. QED
      BY <1>2, <3>1
  <2>3. CASE {} \notin {one, two} /\ lines' = [i \in 1..2 |-> CHOOSE record \in records[i] : TRUE]
    <3>1. lines'[1] \in one /\ lines'[2] \in two
      BY <2>3
    <3>2. ASSUME NEW i \in 1..2, NEW at \in DOMAIN lines'[i].fields
          PROVE  Shown(lines'[i].fields[at], at, logOptions.redact)
      <4>1. logOptions.redact \in Redactions
        BY DEF LogOK
      <4>2. CASE i = 1
        BY <3>1, <3>2, <4>1, <4>2, ExchangeWhole, RecordShown DEF one
      <4>3. CASE i = 2
        BY <3>1, <3>2, <4>1, <4>3, ExchangeWhole, RecordShown DEF two
      <4>4. QED
        BY <4>2, <4>3
    <3>3. QED
      BY <1>1, <3>2 DEF LogOK, Log!SecretsCensored, Shown
  <2>4. QED
    BY <2>1, <2>2, <2>3
<1>5. ASSUME Log!Return PROVE LogOK'
  BY <1>2, <1>5 DEF Log!Return
<1>6. QED
  BY <1>3, <1>4, <1>5 DEF Log!Next

\* No record of a request shows what is to be redacted, whatever the texts, the
\* paths and the censor are (LoggingService, RedactService).
THEOREM SecretsCensoredSafe == SumSpec => []SecretsCensored
<1> DEFINE Inv == part = "log" => LogOK
<1>1. SumInit => Inv
  BY DEF SumInit, Log!Init, LogOK, Log!SecretsCensored
<1>2. Inv /\ [SumNext]_sumVars => Inv'
  <2>1. CASE part = "log" /\ SumNext
    BY <2>1, LogStep DEF SumNext
  <2>2. CASE part # "log" /\ SumNext
    BY <2>2 DEF SumNext
  <2>3. CASE UNCHANGED sumVars
    BY <2>3 DEF sumVars, logVars, LogOK, Log!SecretsCensored
  <2>4. QED
    BY <2>1, <2>2, <2>3
<1>3. Inv => SecretsCensored
  BY DEF SecretsCensored, LogOK
<1>4. QED
  BY <1>1, <1>2, <1>3, PTL DEF SumSpec

================================================================================
