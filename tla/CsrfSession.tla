------------------------------ MODULE CsrfSession ------------------------------
(***************************************************************************)
(* The CSRF middleware and guard.  The server keeps no state: a browser    *)
(* holds two cookies, a secret bound to its address (IP and user agent)    *)
(* and a token made from a secret, and each expires on its own.  Requests  *)
(* carry what the browser held when they left; responses set cookies when  *)
(* they arrive, in any order, or get lost.                                 *)
(***************************************************************************)
EXTENDS Naturals

CONSTANTS
    Secrets,    \* a bound on the secrets the server makes
    Addresses,  \* the pairs of IP and user agent
    Requests,   \* what bounds the requests in flight at once
    MaxAge,     \* maxAge, in ticks of the clock
    None

ASSUME CsrfAssumption ==
    /\ MaxAge \in Nat \ {0}
    /\ None \notin Secrets \cup Addresses

VARIABLES
    address,        \* where the browser is
    secretCookie,   \* the cookie _csrf: its secret and the ticks it has left
    tokenCookie,    \* the cookie xsrf-token: the secret it is made from, and its ticks
    pc,             \* pc[r]: "idle", "sent" or "answered"
    request,        \* request[r]: its route, its address and the cookies it carries
    response,       \* response[r]: its status and the cookies it sets
    owner,          \* owner[s]: the address that createSecret put into s, if made
    gone,           \* history: the secrets whose cookie has expired or was overwritten
    overwritten,    \* history: whether a secret that had not expired was overwritten
    raced           \* history: whether two requests without a secret were in flight

jar == <<secretCookie, tokenCookie>>
exchange == <<pc, request, response>>
history == <<gone, overwritten, raced>>
vars == <<address, jar, exchange, owner, history>>

\* A public route, one that calls req.csrfToken(), and one behind the guard.
Routes == {"public", "login", "guarded"}

Cookie == [of : Secrets \cup {None}, life : 0 .. MaxAge]
NoCookie == [of |-> None, life |-> 0]
NoRequest == [route |-> "public", from |-> None, secret |-> None, token |-> None]
NoResponse == [status |-> "ok", secret |-> None, token |-> None]

Init ==
    /\ address \in Addresses
    /\ secretCookie = NoCookie
    /\ tokenCookie = NoCookie
    /\ pc = [r \in Requests |-> "idle"]
    /\ request = [r \in Requests |-> NoRequest]
    /\ response = [r \in Requests |-> NoResponse]
    /\ owner = [s \in Secrets |-> None]
    /\ gone = {}
    /\ overwritten = FALSE
    /\ raced = FALSE

InFlight == {r \in Requests : pc[r] # "idle"}

--------------------------------------------------------------------------------
(* The browser.                                                                *)

Send(r, route) ==
    /\ pc[r] = "idle"
    /\ pc' = [pc EXCEPT ![r] = "sent"]
    /\ request' = [request EXCEPT ![r] =
            [route |-> route, from |-> address, secret |-> secretCookie.of, token |-> tokenCookie.of]]
    /\ raced' = (raced \/ (secretCookie.of = None /\ \E q \in InFlight : request[q].secret = None))
    /\ UNCHANGED <<address, jar, response, owner, gone, overwritten>>

Settle(r) ==
    /\ pc' = [pc EXCEPT ![r] = "idle"]
    /\ request' = [request EXCEPT ![r] = NoRequest]
    /\ response' = [response EXCEPT ![r] = NoResponse]

Receive(r) ==
    LET set(cookie, s) == IF s = None THEN cookie ELSE [of |-> s, life |-> MaxAge]
        replaced == {s \in {secretCookie.of} \ {None} : response[r].secret # None}
    IN  /\ pc[r] = "answered"
        /\ secretCookie' = set(secretCookie, response[r].secret)
        /\ tokenCookie' = set(tokenCookie, response[r].token)
        /\ gone' = gone \cup replaced
        /\ overwritten' = (overwritten \/ replaced # {})
        /\ Settle(r)
        /\ UNCHANGED <<address, owner, raced>>

\* The response is lost, or the browser has left the page.
Lose(r) ==
    /\ pc[r] = "answered"
    /\ Settle(r)
    /\ UNCHANGED <<address, jar, owner, history>>

Tick ==
    LET age(cookie) == IF cookie.life > 1 THEN [cookie EXCEPT !.life = @ - 1] ELSE NoCookie
    IN  /\ secretCookie # NoCookie \/ tokenCookie # NoCookie
        /\ secretCookie' = age(secretCookie)
        /\ tokenCookie' = age(tokenCookie)
        /\ gone' = gone \cup {s \in {secretCookie.of} \ {None} : secretCookie.life = 1}
        /\ UNCHANGED <<address, exchange, owner, overwritten, raced>>

\* The browser changes its network.
Move(a) ==
    /\ a # address
    /\ address' = a
    /\ UNCHANGED <<jar, exchange, owner, history>>

--------------------------------------------------------------------------------
(* The server: csrfToken(), then the guard or the handler of the route.        *)

Answer(r, status, secret, token) ==
    /\ pc' = [pc EXCEPT ![r] = "answered"]
    /\ response' = [response EXCEPT ![r] = [status |-> status, secret |-> secret, token |-> token]]
    /\ UNCHANGED <<address, jar, request, history>>

\* Mutant: the token is made from a second secret, which no cookie holds.
CreateTwice(r, s) ==
    /\ pc[r] = "sent" /\ request[r].secret = None
    /\ owner[s] = None
    /\ \E t \in Secrets \ {s} :
        /\ owner[t] = None
        /\ owner' = [owner EXCEPT ![s] = request[r].from, ![t] = request[r].from]
        /\ Answer(r, IF request[r].route = "guarded" THEN "forbidden" ELSE "ok", s,
                  IF request[r].route = "login" THEN t ELSE None)

\* Mutant: every request gets a new secret.
CreateAlways(r, s) ==
    /\ pc[r] = "sent"
    /\ owner[s] = None
    /\ owner' = [owner EXCEPT ![s] = request[r].from]
    /\ Answer(r, IF request[r].route = "guarded" THEN "forbidden" ELSE "ok", s,
              IF request[r].route = "login" THEN s ELSE None)

\* A request without a secret: the middleware makes one, which the response sets
\* even if the guard, which looks for the secret in the request, refuses it.
CreateSecret(r, s) ==
    /\ pc[r] = "sent" /\ request[r].secret = None
    /\ owner[s] = None
    /\ owner' = [owner EXCEPT ![s] = request[r].from]
    /\ Answer(r, IF request[r].route = "guarded" THEN "forbidden" ELSE "ok", s,
              IF request[r].route = "login" THEN s ELSE None)

\* canActivate, for a request with a secret: its address and its token match it.
Activates(r) ==
    /\ request[r].token # None
    /\ owner[request[r].secret] = request[r].from
    /\ request[r].token = request[r].secret

\* Mutant: the secret is renewed with the token.
KeepRenewed(r) ==
    /\ pc[r] = "sent" /\ request[r].secret # None
    /\ IF request[r].route = "login" \/ (request[r].route = "guarded" /\ Activates(r))
       THEN Answer(r, "ok", request[r].secret, request[r].secret)
       ELSE Answer(r, IF request[r].route = "guarded" THEN "forbidden" ELSE "ok", None, None)
    /\ UNCHANGED owner

\* A request with a secret: a login and a request that passes the guard get a new
\* token made from it; the cookie of the secret itself is not renewed.
KeepSecret(r) ==
    /\ pc[r] = "sent" /\ request[r].secret # None
    /\ IF request[r].route = "login" \/ (request[r].route = "guarded" /\ Activates(r))
       THEN Answer(r, "ok", None, request[r].secret)
       ELSE Answer(r, IF request[r].route = "guarded" THEN "forbidden" ELSE "ok", None, None)
    /\ UNCHANGED owner

--------------------------------------------------------------------------------
Next ==
    \/ \E r \in Requests :
        \/ \E route \in Routes : Send(r, route)
        \/ Receive(r)
        \/ Lose(r)
        \/ \E s \in Secrets : CreateSecret(r, s)
        \/ KeepSecret(r)
    \/ \E a \in Addresses : Move(a)
    \/ Tick

Spec == Init /\ [][Next]_vars

--------------------------------------------------------------------------------
TypeOK ==
    /\ address \in Addresses
    /\ secretCookie \in Cookie /\ (secretCookie.of = None <=> secretCookie.life = 0)
    /\ tokenCookie \in Cookie /\ (tokenCookie.of = None <=> tokenCookie.life = 0)
    /\ pc \in [Requests -> {"idle", "sent", "answered"}]
    /\ request \in [Requests -> [route : Routes, from : Addresses \cup {None},
                                 secret : Secrets \cup {None}, token : Secrets \cup {None}]]
    /\ response \in [Requests -> [status : {"ok", "forbidden"},
                                  secret : Secrets \cup {None}, token : Secrets \cup {None}]]
    /\ owner \in [Secrets -> Addresses \cup {None}]
    /\ gone \subseteq Secrets
    /\ overwritten \in BOOLEAN
    /\ raced \in BOOLEAN

\* The guard turns a request away only if it lacks a cookie, or has changed its
\* address since the secret was made, or has a token whose secret had expired or
\* been overwritten in the browser: never for another order of the responses.  The 500 it
\* answers where the middleware is not configured is left out: here it always is.
RefusedForCause ==
    \A r \in Requests : response[r].status = "forbidden" =>
        \/ request[r].secret = None
        \/ request[r].token = None
        \/ owner[request[r].secret] # request[r].from
        \/ request[r].token \in gone

\* A secret that has not expired is overwritten only by a request that left without
\* a secret while another one was in flight: one request at a time keeps the session.
KeptUnlessRaced == overwritten => raced

\* A session ends: however busy the browser, time alone changes what its secret has
\* left, so that the refusals a change of address brings last one MaxAge at most.
SecretNotRenewed ==
    [][secretCookie.of # None /\ secretCookie'.of = secretCookie.of
        => secretCookie'.life <= secretCookie.life]_vars

\* Inductive: what the browser and the requests hold is the secret in the jar, or
\* one that has left it.
Former(s) == s = None \/ s = secretCookie.of \/ s \in gone

MatchedOK ==
    /\ Former(tokenCookie.of)
    /\ \A r \in InFlight :
        /\ Former(request[r].secret)
        /\ request[r].secret # None => response[r].secret = None
        /\ response[r].secret = None => Former(response[r].token)
        /\ response[r].secret # None => response[r].token \in {None, response[r].secret}
        /\ request[r].token \in {None, request[r].secret} \cup gone

\* Inductive: only an answered request has a response, a request in flight has an
\* address, and every secret about was made by the server.
MadeOK ==
    /\ \A r \in Requests : pc[r] # "answered" => response[r] = NoResponse
    /\ \A r \in InFlight : request[r].from # None
    /\ \A s \in Secrets : owner[s] = None =>
        /\ s # secretCookie.of
        /\ s \notin gone
        /\ \A r \in InFlight : s # request[r].secret /\ s # response[r].secret

\* Inductive: the secret that a response sets is new to the browser.
NewOK ==
    \A r \in InFlight : response[r].secret # None =>
        /\ response[r].secret # secretCookie.of
        /\ \A q \in InFlight : response[q].secret = response[r].secret => q = r

\* Inductive: before any race at most one request in flight is without a secret,
\* and then so is the browser.
RacedOK ==
    ~raced => \A r \in InFlight : request[r].secret = None =>
        /\ secretCookie.of = None
        /\ \A q \in InFlight : request[q].secret = None => q = r

================================================================================
