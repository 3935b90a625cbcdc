---------------------------- MODULE RequestPipeline ----------------------------
(***************************************************************************)
(* What the toolkit wraps around a request: guards, the interceptors of    *)
(* tracing, http-client, logger and elk in the order they are registered,  *)
(* the handler and the calls it makes with HttpClientService, and the      *)
(* exceptions filter.  Requests interleave at every await; the interceptors*)
(* and services they pass through are shared.                              *)
(*                                                                         *)
(* Nest, express, axios and OpenTelemetry are external.  A header is       *)
(* modelled by the request it came with, and a trace by the request it     *)
(* began with and who began it.                                            *)
(***************************************************************************)
EXTENDS Absent, Naturals, Sequences

CONSTANTS
    Requests,   \* the incoming requests
    Chains,     \* the orders in which the interceptors may be registered
    Paths,      \* the kinds of path that are requested, some of PathKinds
    Retries     \* retries of axios-retry

\* excludePaths() lists the core paths.  logger and elk leave out what starts like
\* one of them, tracing what one of its globs matches (under any prefix, and docs);
\* a route with SkipTrace is left out by the interceptor of tracing alone.
PathKinds == {"core", "coreLike", "ignored", "skipped", "plain"}
Excluded == {"core", "coreLike"}
Ignored == {"core", "ignored"}

Interceptors == {"tracing", "httpClient", "logging", "elk"}

ASSUME PipelineAssumption ==
    /\ Chains \subseteq Seq(Interceptors)
    /\ Paths \subseteq PathKinds
    /\ Retries \in Nat
    /\ None \notin Requests \cup Nat \cup {"guards", "handler"}
    /\ None \notin Requests \X {"caller", "server", "interceptor"}

VARIABLES
    chain,          \* the interceptors of the application
    sdk,            \* what otelProvider has made: "off" if it failed, "plain" if the
                    \* instrumentation of http is disabled, "http" otherwise
    request,        \* request[r]: the request, its response and where it is
    store,          \* store[r]: what outgoingRequestContext holds in the context of r
    call,           \* call[r]: the outgoing call made for r
    span,           \* span[r]: the span of the interceptor
    log,            \* log[r]: the status that was logged, if it was
    doc             \* doc[r]: the document sent to Elasticsearch

setup == <<chain, sdk>>
pipelineVars == <<setup, request, store, call, span, log, doc>>

Trace == (Requests \X {"caller", "server", "interceptor"}) \cup {None}

\* A value, one that cannot be serialized (it is circular), an HttpException, another
\* error that carries a status of its own, or any other error.
Results == {"value", "circular", "http", "carrying", "error"}

Fresh == [pc |-> "idle", entered |-> 0, path |-> "plain", trace |-> None, active |-> None,
          result |-> None, early |-> FALSE, status |-> None]
NoCall == [state |-> "none", from |-> None, of |-> None, trace |-> None, attempts |-> 0]
NoSpan == [state |-> "none", trace |-> None, status |-> None]

PipelineInit ==
    /\ chain \in Chains
    /\ sdk \in {"off", "plain", "http"}
    /\ request = [r \in Requests |-> Fresh]
    /\ store = [r \in Requests |-> [of |-> None, trace |-> None]]
    /\ call = [r \in Requests |-> NoCall]
    /\ span = [r \in Requests |-> NoSpan]
    /\ log = [r \in Requests |-> None]
    /\ doc = [r \in Requests |-> [state |-> "none", status |-> None]]

At(r, pc) == request[r].pc = pc
records == <<span, log, doc>>

\* What a request has read of its path and its trace is not needed any more.
End(r, result) ==
    request' = [request EXCEPT ![r] =
        [Fresh EXCEPT !.pc = "sending", !.result = result, !.early = request[r].early,
                      !.status = request[r].status]]

--------------------------------------------------------------------------------
(* A request arrives, and passes the guards or not.                            *)

\* The caller may send a trace, in a header that http-client propagates (by default that
\* of X-Ray); the instrumentation goes on with it or begins one.
Arrive(r, path, traced) ==
    /\ At(r, "idle")
    /\ LET caller == IF traced THEN <<r, "caller">> ELSE None
           active == IF sdk # "http" \/ path \in Ignored THEN None
                     ELSE IF traced THEN caller ELSE <<r, "server">>
       IN  request' = [request EXCEPT ![r].pc = "guards", ![r].path = path,
                                      ![r].trace = caller, ![r].active = active]
    /\ UNCHANGED <<setup, store, call, records>>

GuardsPass(r) ==
    /\ At(r, "guards")
    /\ request' = [request EXCEPT ![r].pc = IF chain = <<>> THEN "handler" ELSE "interceptors"]
    /\ UNCHANGED <<setup, store, call, records>>

GuardsRefuse(r, result) ==
    /\ At(r, "guards") /\ result \notin {"value", "circular"}
    /\ End(r, result)
    /\ UNCHANGED <<setup, store, call, records>>

--------------------------------------------------------------------------------
(* The interceptors, on the way in.                                            *)

Entering(r, interceptor) ==
    /\ At(r, "interceptors")
    /\ chain[request[r].entered + 1] = interceptor

\* Trace t is what the headers of the request carry from here on.
Pass(r, t) ==
    LET entered == request[r].entered + 1
    IN  request' = [request EXCEPT ![r].entered = entered, ![r].trace = t,
                        ![r].pc = IF entered = Len(chain) THEN "handler" ELSE "interceptors"]

\* getParentContext: the active span if there is one, or the headers; else a root.
Parent(r) ==
    IF request[r].active # None THEN request[r].active
    ELSE IF request[r].trace # None THEN request[r].trace ELSE <<r, "interceptor">>

\* Without an SDK a span is none, and nothing is read from headers or written to them.
Traced(r) == sdk # "off" /\ request[r].path \notin Ignored \cup {"skipped"}

\* Mutant: the trace is not written to the headers of the request.
EnterTracingOnly(r) ==
    /\ Entering(r, "tracing") /\ Traced(r)
    /\ span' = [span EXCEPT ![r].state = "open", ![r].trace = Parent(r)]
    /\ Pass(r, request[r].trace)
    /\ UNCHANGED <<setup, store, call, log, doc>>

\* setSpanContext: the span is not made active, so that the headers carry on what was
\* active before.
Carried(r) == IF request[r].active # None THEN request[r].active ELSE request[r].trace

EnterTracing(r) ==
    /\ Entering(r, "tracing")
    /\ IF Traced(r)
       THEN /\ span' = [span EXCEPT ![r].state = "open", ![r].trace = Parent(r)]
            /\ Pass(r, Carried(r))
       ELSE /\ Pass(r, request[r].trace)
            /\ UNCHANGED span
    /\ UNCHANGED <<setup, store, call, log, doc>>

\* Mutant: the headers are kept on the instance, which all requests share.
EnterHttpClientShared(r) ==
    /\ Entering(r, "httpClient")
    /\ store' = [q \in Requests |-> [of |-> r, trace |-> request[r].trace]]
    /\ Pass(r, request[r].trace)
    /\ UNCHANGED <<setup, call, records>>

\* initAxios, in the context of this request.
Captured(r) == [of |-> r, trace |-> request[r].trace]

EnterHttpClient(r) ==
    /\ Entering(r, "httpClient")
    /\ store' = [store EXCEPT ![r] = Captured(r)]
    /\ Pass(r, request[r].trace)
    /\ UNCHANGED <<setup, call, records>>

EnterOther(r) ==
    /\ Entering(r, "logging") \/ Entering(r, "elk")
    /\ Pass(r, request[r].trace)
    /\ UNCHANGED <<setup, store, call, records>>

--------------------------------------------------------------------------------
(* HttpClientService: a call by a guard or by the handler, which need not wait *)
(* for it.                                                                     *)

\* fetch: what is sent, with the headers of the context.
Outgoing(r) ==
    [state |-> "sent", from |-> request[r].pc, of |-> store[r].of,
     trace |-> store[r].trace, attempts |-> 1]

Fetch(r) ==
    /\ request[r].pc \in {"guards", "handler"}
    /\ call[r].state = "none"
    /\ call' = [call EXCEPT ![r] = Outgoing(r)]
    /\ UNCHANGED <<setup, request, store, records>>

\* axios-retry sends the same configuration again.
Retry(r) ==
    /\ call[r].state = "sent" /\ call[r].attempts <= Retries
    /\ call' = [call EXCEPT ![r].attempts = @ + 1]
    /\ UNCHANGED <<setup, request, store, records>>

\* It resolves, or rejects with what is not retried: logged once either way.
FetchEnds(r) ==
    /\ call[r].state = "sent"
    /\ call' = [call EXCEPT ![r] = [NoCall EXCEPT !.state = "logged"]]
    /\ UNCHANGED <<setup, request, store, records>>

--------------------------------------------------------------------------------
(* The handler ends, and the interceptors see how, from the inside out.        *)

\* What tracing and elk (buildErrorPayload) make of an outcome; the status of a response
\* with a value is that of its route.
Status(result) ==
    CASE result \in {"value", "circular"} -> 200
      [] result = "http" -> 404
      [] OTHER -> 500

\* What logger makes of it: an error that is no HttpException may carry a status of
\* its own, as those of axios do.
LogStatus(result) == IF result = "carrying" THEN 404 ELSE Status(result)

\* What the client gets: a value that cannot be sent is an exception to ExceptionsFilter.
Answer(result) == IF result = "circular" THEN 500 ELSE Status(result)

\* The handler uses the response itself, which goes out before it ends.
SendEarly(r) ==
    /\ At(r, "handler") /\ ~request[r].early
    /\ request' = [request EXCEPT ![r].early = TRUE, ![r].status = 200]
    /\ UNCHANGED <<setup, store, call, records>>

InChain(interceptor) == \E i \in DOMAIN chain : chain[i] = interceptor
Excludes(r) == request[r].path \in Excluded

\* logger and elk make JSON of what they record, and give up what cannot be.
Serializable(result) == result # "circular"

EndSpan(r, result) ==
    IF span[r].state # "open" THEN span[r]
    ELSE [NoSpan EXCEPT !.state = "ended", !.status = Status(result)]

LogResponse(r, result) ==
    IF InChain("logging") /\ ~Excludes(r) /\ Serializable(result)
    THEN LogStatus(result) ELSE log[r]

IndexResponse(r, result) ==
    IF ~InChain("elk") \/ Excludes(r) THEN doc[r]
    ELSE [state |-> IF Serializable(result) THEN "sent" ELSE "lost", status |-> Status(result)]

\* Mutant: the document of an exception has the status of the response so far.
CompleteUntranslated(r, result) ==
    /\ At(r, "handler")
    /\ End(r, result)
    /\ span' = [span EXCEPT ![r] = EndSpan(r, result)]
    /\ log' = [log EXCEPT ![r] = LogResponse(r, result)]
    /\ doc' = [doc EXCEPT ![r] = IndexResponse(r, "value")]
    /\ UNCHANGED <<setup, store, call>>

\* tap and finalize run at once, with what the handler returned or threw.
Complete(r, result) ==
    /\ At(r, "handler")
    /\ End(r, result)
    /\ span' = [span EXCEPT ![r] = EndSpan(r, result)]
    /\ log' = [log EXCEPT ![r] = LogResponse(r, result)]
    /\ doc' = [doc EXCEPT ![r] = IndexResponse(r, result)]
    /\ UNCHANGED <<setup, store, call>>

\* Elasticsearch takes the document or not: nobody waits.
Index(r, state) ==
    /\ doc[r].state = "sent"
    /\ doc' = [doc EXCEPT ![r].state = state]
    /\ UNCHANGED <<setup, request, store, call, span, log>>

\* The response is out with its status, and the context and the records of the request
\* are out of the model, but for a document on its way.
Send(r, status) ==
    /\ request' = [request EXCEPT ![r] = [Fresh EXCEPT !.pc = "done", !.status = status]]
    /\ store' = [store EXCEPT ![r] = [of |-> None, trace |-> None]]
    /\ span' = [span EXCEPT ![r] = NoSpan]
    /\ log' = [log EXCEPT ![r] = None]
    /\ doc' = [doc EXCEPT ![r].status = None]
    /\ UNCHANGED <<setup, call>>

\* Nest sends the value, or the filter the exception, unless the response is out.
Respond(r) ==
    /\ At(r, "sending")
    /\ Send(r, IF request[r].early THEN request[r].status ELSE Answer(request[r].result))

--------------------------------------------------------------------------------
PipelineNext == \E r \in Requests :
    \/ \E path \in Paths, traced \in BOOLEAN : Arrive(r, path, traced)
    \/ GuardsPass(r)
    \/ EnterTracing(r)
    \/ EnterHttpClient(r)
    \/ EnterOther(r)
    \/ SendEarly(r)
    \/ \E result \in Results : GuardsRefuse(r, result) \/ Complete(r, result)
    \/ Respond(r)
    \/ Fetch(r)
    \/ Retry(r)
    \/ FetchEnds(r)
    \/ \E state \in {"indexed", "lost"} : Index(r, state)

PipelineSpec == PipelineInit /\ [][PipelineNext]_pipelineVars

--------------------------------------------------------------------------------
PipelineTyped ==
    /\ chain \in Chains
    /\ sdk \in {"off", "plain", "http"}
    /\ request \in [Requests ->
            [pc : {"idle", "guards", "interceptors", "handler", "sending", "done"},
             entered : Nat, path : PathKinds, trace : Trace, active : Trace,
             result : Results \cup {None}, early : BOOLEAN, status : {200, 404, 500, None}]]
    /\ store \in [Requests -> [of : Requests \cup {None}, trace : Trace]]
    /\ call \in [Requests ->
            [state : {"none", "sent", "logged"}, from : {"guards", "handler", None},
             of : Requests \cup {None}, trace : Trace, attempts : 0 .. Retries + 1]]
    /\ span \in [Requests ->
            [state : {"none", "open", "ended"}, trace : Trace, status : {200, 404, 500, None}]]
    /\ log \in [Requests -> {200, 404, 500, None}]
    /\ doc \in [Requests ->
            [state : {"none", "sent", "indexed", "lost"}, status : {200, 404, 500, None}]]
    /\ \A r \in Requests : At(r, "interceptors") => request[r].entered \in 0 .. Len(chain) - 1

\* An outgoing call carries the headers and the trace of the request it is made for,
\* whatever other requests are in flight and however often it is retried; a call by
\* a guard, which runs before initAxios, carries none.
OwnHeaders ==
    \A r \in Requests : call[r].state = "sent" =>
        /\ call[r].of = IF call[r].from = "handler" /\ InChain("httpClient") THEN r ELSE None
        /\ call[r].trace # None => call[r].trace[1] = r

Before(first, second) ==
    \E i, j \in DOMAIN chain : i < j /\ chain[i] = first /\ chain[j] = second

\* If tracing is registered before http-client, the calls of a handler belong to the
\* trace of its span, provided that http is instrumented or the caller sent a trace in a
\* header that http-client propagates (Arrive's assumption).  Nothing is claimed of a
\* caller that sends a lone traceparent or b3 while http is not instrumented: the
\* interceptor continues that trace, and http-client does not pass it on.
OneTrace ==
    \A r \in Requests :
        /\ Before("tracing", "httpClient")
        /\ call[r].from = "handler" /\ span[r].state = "open"
        /\ span[r].trace # <<r, "interceptor">>
        => call[r].trace = span[r].trace

\* When a response goes out, its span has ended, and the span, the log and the document
\* tell the status the client gets, unless the handler had sent it itself or its value
\* cannot be sent; the log also differs if an error carries a status of its own.
Agreement ==
    \A r \in Requests :
        /\ At(r, "sending") /\ ~request[r].early /\ request[r].result # "circular"
        /\ At(r, "done")'
        => LET sent == request'[r].status
           IN  /\ span[r].state # "none" => span[r].state = "ended" /\ span[r].status = sent
               /\ doc[r].state # "none" => doc[r].status = sent
               /\ log[r] # None /\ request[r].result # "carrying" => log[r] = sent

\* That holds of every step: no response goes out at odds with what was recorded of it.
StatusAgreed == [][Agreement]_pipelineVars

--------------------------------------------------------------------------------
(* The inductive invariants behind those properties.                           *)

\* The interceptors a request has passed.
Passed(r) ==
    CASE request[r].pc \in {"idle", "guards"} -> {}
      [] request[r].pc = "interceptors" -> 1 .. request[r].entered
      [] OTHER -> DOMAIN chain

\* The traces that headers carry for a request, or its active span belongs to.
Own(r) == {None, <<r, "caller">>, <<r, "server">>}

\* The context of a request holds its own headers once http-client has been passed.
ContextOK(r) ==
    /\ request[r].pc \in {"idle", "guards"} => request[r].entered = 0
    /\ request[r].trace \in Own(r)
    /\ request[r].active \in Own(r)
    /\ store[r].trace \in Own(r)
    /\ store[r].of \in {None, r}
    /\ request[r].pc \in {"idle", "guards", "interceptors", "handler"} =>
        (store[r].of = r <=> \E i \in Passed(r) : chain[i] = "httpClient")

\* Once tracing has been passed the headers carry the trace of its span, unless it is
\* a root, and what http-client captures from then on is that trace.
TraceOK(r) ==
    request[r].pc \in {"interceptors", "handler"} =>
        /\ span[r].state \in {"none", "open"}
        /\ span[r].state = "none" /\ Traced(r) => \A i \in Passed(r) : chain[i] # "tracing"
        /\ span[r].state = "open" /\ span[r].trace = <<r, "interceptor">> =>
            request[r].trace = None /\ request[r].active = None
        /\ span[r].state = "open" /\ span[r].trace # <<r, "interceptor">> =>
            /\ request[r].trace = span[r].trace
            /\ request[r].active \in {None, span[r].trace}
            /\ \A i, j \in Passed(r) :
                i < j /\ chain[i] = "tracing" /\ chain[j] = "httpClient" =>
                    store[r].trace = span[r].trace

\* Between the end of a handler and its response every record tells its outcome.
RecordsOK(r) ==
    /\ request[r].pc \in {"idle", "guards"} => span[r] = NoSpan
    /\ request[r].pc \in {"idle", "guards", "interceptors", "handler"} =>
        doc[r].state = "none" /\ log[r] = None
    /\ At(r, "sending") =>
        /\ request[r].result \in Results
        /\ span[r].state # "none" =>
            span[r].state = "ended" /\ span[r].status = Status(request[r].result)
        /\ doc[r].state # "none" => doc[r].status = Status(request[r].result)
        /\ log[r] # None => log[r] = LogStatus(request[r].result)

\* A call by the handler is made in the context the interceptors have left.
CallOK(r) ==
    /\ call[r].from = "handler" => request[r].pc \in {"handler", "sending", "done"}
    /\ call[r].state = "sent" =>
        /\ call[r].of = IF call[r].from = "handler" /\ InChain("httpClient") THEN r ELSE None
        /\ call[r].trace # None => call[r].trace[1] = r

PipelineInv ==
    /\ PipelineTyped
    /\ \A r \in Requests : ContextOK(r) /\ TraceOK(r) /\ RecordsOK(r) /\ CallOK(r)
    /\ OneTrace

================================================================================
