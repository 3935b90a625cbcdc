------------------------------- MODULE LogRecords -------------------------------
(***************************************************************************)
(* LoggingService: the lines that an application logs, and the records of  *)
(* a request and its response, redacted by the RedactService that the      *)
(* logger has for itself.  Each call is synchronous; what is modelled is   *)
(* what reaches the log of a value under a path to redact, and what is     *)
(* made of the positional parameters of a call.                            *)
(*                                                                         *)
(* pino, which drops the lines below its level, and fast-redact, which     *)
(* applies the censor at the paths that exist, are external.               *)
(***************************************************************************)
EXTENDS Integers, FiniteSetsExt, SequencesExt

CONSTANTS
    Lengths,        \* the lengths of the texts in a request
    Calls,          \* the calls of the logger, the logging of a request beside
    Redactions,     \* config.logger.redact
    None            \* undefined

VARIABLES
    options,        \* the options of the service, and what the process is started with
    ownPackage,     \* LoggingService.ownPackageJson, as whether it was read
    appPackage,     \* LoggingService.appPackageJson, or None
    call,           \* the call in progress: None, its parameters, or the records it logs
    lines           \* the lines of the last call

vars == <<options, ownPackage, appPackage, call, lines>>

Levels == <<"trace", "debug", "info", "warn", "error", "fatal", "silent">>
Rank(level) == SelectInSeq(Levels, LAMBDA l : l = level)

--------------------------------------------------------------------------------
(* Redaction.  A value is a text, of which some characters are shown, or none. *)

Text(n) == [type |-> "text", length |-> n, shown |-> n]
NoText == [type |-> "number", length |-> 1, shown |-> 1]

\* obfuscateValue: as many characters as the censor has give way to it, at either end.
ObfuscateValue(value, censor) ==
    IF value.type # "text" THEN [value EXCEPT !.shown = 0]
    ELSE [value EXCEPT !.shown = Max({0, value.length - censor})]

\* redactProvider: a censor that is no text is used as it is.
Censored(value, redact) ==
    IF redact.censor = None THEN [value EXCEPT !.shown = 0] ELSE ObfuscateValue(value, redact.censor)

\* RedactService.obfuscate: a field is an object, absent, or a text (where no path ends).
Obfuscate(record, redact) ==
    [at \in DOMAIN record |->
        IF at \in redact.paths /\ record[at].form = "object"
        THEN [record[at] EXCEPT !.value = Censored(@, redact)] ELSE record[at]]

Stringified(record) ==
    [at \in DOMAIN record |->
        IF options.env \notin {"production", "test"} \/ record[at].form # "object" THEN record[at]
        ELSE [record[at] EXCEPT !.form = "string"]]

\* Mutant: the fields are made texts before they are redacted.
RedactStringified(record) ==
    IF options.redact.serialize THEN {}
    ELSE {[fields |-> Obfuscate(Stringified(record), options.redact)]}

\* redactLogs: with "serialize" the result is a text, and the assignment throws.
RedactLogs(record) ==
    IF options.redact.serialize THEN {}
    ELSE {[fields |-> Stringified(Obfuscate(record, options.redact))]}

--------------------------------------------------------------------------------
(* The records of a request.                                                   *)

Field(value) == [form |-> "object", value |-> value]
Absent == [form |-> "absent", value |-> Text(0)]

AddRequestLogs(request) ==
    [body |-> request.body, headers |-> request.headers, query |-> request.query, response |-> Absent]

\* The body is left out for an excluded content type; the body of an exception
\* that is an Error has its name and message only.
AddResponseLogs(request) ==
    [body |-> Absent, headers |-> Absent, query |-> request.query,
     response |-> IF request.excluded \/ request.error = "error" THEN Absent ELSE request.response]

--------------------------------------------------------------------------------
(* The parameters of a call: texts, texts that look like a stack, and others.  *)

IsString(param) == param \in {"text", "stack"}

\* The last one is the context, if it is a text.
ExtractContext(params) == IF params # <<>> /\ IsString(Last(params)) THEN Last(params) ELSE None

ExtractContextAndStack(params) ==
    IF Len(params) = 1
    THEN IF params = <<"stack">> THEN [stack |-> "stack", context |-> None]
         ELSE [stack |-> None, context |-> ExtractContext(params)]
    ELSE [stack |-> IF params # <<>> /\ IsString(params[1]) THEN params[1] ELSE None,
          context |-> IF params = <<>> THEN None ELSE ExtractContext(Tail(params))]

\* error and fatal take a stack, the others do not.
Params(level, params) ==
    IF level \in {"error", "fatal"} THEN ExtractContextAndStack(params)
    ELSE [stack |-> None, context |-> ExtractContext(params)]

\* getGenericLog reads the two packages, once each: the names that npm gives, or the
\* file in the working directory, or else what npm gives of them.
GenericLog ==
    /\ ownPackage' = TRUE
    /\ appPackage' = IF appPackage # None THEN appPackage
                     ELSE IF options.npm = "both" THEN "npm"
                     ELSE IF options.file THEN "file" ELSE "incomplete"

\* formatMessage: other than in development an object is a text.
FormatMessage(message) ==
    IF message = "object" /\ options.env \in {"production", "test"} THEN "text" ELSE message

Emitted(level, line) == IF Rank(level) >= Rank(options.level) /\ level # "silent" THEN <<line>> ELSE <<>>

--------------------------------------------------------------------------------
Init ==
    /\ options \in [env : {"production", "local"}, level : {"trace", "info", "error"},
                    redact : Redactions, npm : {"both", "name", "none"}, file : BOOLEAN]
    /\ ownPackage = FALSE
    /\ appPackage = None
    /\ call = None
    /\ lines = <<>>

Exchanges ==
    LET Values == {Absent, Field(NoText)} \cup {Field(Text(n)) : n \in Lengths} IN
    [body : Values, headers : Values, query : {Field(NoText)}, response : Values,
     excluded : BOOLEAN, error : {"none", "error"}]

\* logFn of a message that is no record: an Error brings its own stack.
LogFn(level, message, params) ==
    LET given == Params(level, params) IN
    /\ call = None
    /\ GenericLog
    /\ call' = [level |-> level, message |-> message, params |-> params]
    /\ lines' = Emitted(level,
        [message |-> FormatMessage(message), context |-> given.context,
         stack |-> IF message = "error" /\ given.stack = None THEN "own" ELSE given.stack])
    /\ UNCHANGED options

\* The interceptor makes both records before it logs them, and logs the error of
\* either instead.
LogRequest(request) ==
    /\ call = None
    /\ GenericLog
    /\ call' = [request |-> request]
    /\ LET records == <<RedactLogs(AddRequestLogs(request)), RedactLogs(AddResponseLogs(request))>> IN
       lines' = IF {} \in ToSet(records)
                THEN Emitted("error", [message |-> "error", context |-> "text", stack |-> "own"])
                ELSE IF Rank("info") < Rank(options.level) THEN <<>>
                ELSE [i \in 1..2 |-> CHOOSE record \in records[i] : TRUE]
    /\ UNCHANGED options

Return ==
    /\ call # None
    /\ call' = None
    /\ lines' = <<>>
    /\ UNCHANGED <<options, ownPackage, appPackage>>

Next ==
    \/ \E c \in Calls : LogFn(c.level, c.message, c.params)
    \/ \E request \in Exchanges : LogRequest(request)
    \/ Return

Spec == Init /\ [][Next]_vars

--------------------------------------------------------------------------------
\* No record of a request shows a value at a path to redact: of a text as many
\* characters are hidden as the censor has, and of anything else everything; the
\* other fields are as they were, and no record is logged half redacted.
SecretsCensored ==
    call # None /\ "request" \in DOMAIN call /\ Len(lines) = 2 =>
        \A i \in 1..2 : \A at \in DOMAIN lines[i].fields :
            LET field == lines[i].fields[at]
                hidden == field.value.length - field.value.shown
                censor == options.redact.censor IN
            IF field.form = "absent" \/ at \notin options.redact.paths THEN hidden = 0
            ELSE IF censor = None \/ field.value.type # "text" \/ field.value.length < censor
            THEN field.value.shown = 0
            ELSE hidden = censor

================================================================================
