----------------------------------- MODULE Core -----------------------------------
(***************************************************************************)
(* What an application does with a request beside its handlers: the CSRF   *)
(* session, the parameters of the request, the readiness, the hashes of    *)
(* passwords and the records of the log.  They share no state, so that a   *)
(* behaviour is one of one part, chosen at the beginning, with the others  *)
(* off; every part is checked in all of its own behaviours.                *)
(***************************************************************************)
EXTENDS CsrfSession

CONSTANTS
    Rules, Words, Number, MaxFilters, MaxValues, MaxTotal,  \* of QueryParams
    Services, Configs, Volatile,                            \* of Readiness
    Hashes, Rounds, MaxSalts,                               \* of PasswordHash
    Lengths, Calls, Redactions                              \* of LogRecords

ASSUME CoreAssumption ==
    /\ Rounds \subseteq Nat /\ MaxSalts \in Nat
    /\ MaxTotal \in Nat /\ Lengths \subseteq Nat
    /\ MaxFilters \in Nat /\ MaxValues \in Nat
    /\ \A redact \in Redactions : redact.censor \in Nat \cup {None} /\ redact.serialize \in BOOLEAN

\* The separators of a list of filters are in no rule and in no value.
ASSUME WordsAssumption == (Rules \cup Words) \cap {":", ","} = {}

VARIABLES
    part,
    input, stage, filters, sorting, pagination, answer,
    env, config, app, down, checking, report, verdict, asked, wasDown, wasUp,
    service, rounds, salt, salts, hashing, hash,
    logOptions, ownPackage, appPackage, call, lines

Query == INSTANCE QueryParams WITH pc <- stage, response <- answer
Ready == INSTANCE Readiness
Password == INSTANCE PasswordHash WITH pc <- hashing
Log == INSTANCE LogRecords WITH options <- logOptions

csrfVars == vars
queryVars == <<input, stage, filters, sorting, pagination, answer>>
readyVars == <<env, config, app, down, checking, report, verdict, asked, wasDown, wasUp>>
passwordVars == <<service, rounds, salt, salts, hashing, hash>>
logVars == <<logOptions, ownPackage, appPackage, call, lines>>
sumVars == <<part, csrfVars, queryVars, readyVars, passwordVars, logVars>>

--------------------------------------------------------------------------------
\* A part that is off; the session stays as it begins.
Off == "off"
QueryOff ==
    /\ input = Off /\ stage = Off /\ filters = Off /\ sorting = Off /\ pagination = Off /\ answer = Off
ReadyOff ==
    /\ env = Off /\ config = Off /\ app = Off /\ down = Off /\ checking = Off
    /\ report = Off /\ verdict = Off /\ asked = Off /\ wasDown = Off /\ wasUp = Off
PasswordOff ==
    /\ service = Off /\ rounds = Off /\ salt = Off /\ salts = Off /\ hashing = Off /\ hash = Off
LogOff ==
    /\ logOptions = Off /\ ownPackage = Off /\ appPackage = Off /\ call = Off /\ lines = Off

SumInit ==
    \/ part = "csrf" /\ Init /\ QueryOff /\ ReadyOff /\ PasswordOff /\ LogOff
    \/ part = "query" /\ Query!Init /\ Init /\ ReadyOff /\ PasswordOff /\ LogOff
    \/ part = "ready" /\ Ready!Init /\ Init /\ QueryOff /\ PasswordOff /\ LogOff
    \/ part = "password" /\ Password!Init /\ Init /\ QueryOff /\ ReadyOff /\ LogOff
    \/ part = "log" /\ Log!Init /\ Init /\ QueryOff /\ ReadyOff /\ PasswordOff

SumNext ==
    \/ /\ part = "csrf" /\ Next
       /\ UNCHANGED <<part, queryVars, readyVars, passwordVars, logVars>>
    \/ /\ part = "query" /\ Query!Next
       /\ UNCHANGED <<part, csrfVars, readyVars, passwordVars, logVars>>
    \/ /\ part = "ready" /\ Ready!Next
       /\ UNCHANGED <<part, csrfVars, queryVars, passwordVars, logVars>>
    \/ /\ part = "password" /\ Password!Next
       /\ UNCHANGED <<part, csrfVars, queryVars, readyVars, logVars>>
    \/ /\ part = "log" /\ Log!Next
       /\ UNCHANGED <<part, csrfVars, queryVars, readyVars, passwordVars>>

SumSpec == SumInit /\ [][SumNext]_sumVars

--------------------------------------------------------------------------------
(* The properties of the parts, which are those of their modules; CsrfSession's    *)
(* keep their names.                                                               *)

\* Filters reach the handler as they were written (FilteringParams).
ReadAsWritten == part = "query" => Query!ReadAsWritten

\* Following the pages gives every item once (calculatePagination).
PagesCover == part = "query" => Query!PagesCover

\* A readiness answer speaks for what is configured and not skipped (ReadinessController).
ReadyForCause == part = "ready" => Ready!ReadyForCause

\* Hashes asked for since the last salt validate (BcryptService).
NewHashesValid == part = "password" => Password!NewHashesValid

\* No record of a request shows what is to be redacted (LoggingService, RedactService).
SecretsCensored == part = "log" => Log!SecretsCensored

================================================================================
