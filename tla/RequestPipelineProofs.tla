------------------------- MODULE RequestPipelineProofs -------------------------
(* Requests keep to their own headers and trace, and their records agree, for  *)
(* any number of requests, any order of the interceptors and any retries.      *)
EXTENDS RequestPipeline, TLAPS

Codes == {200, 404, 500, None}
RequestType ==
    [pc : {"idle", "guards", "interceptors", "handler", "sending", "done"},
     entered : Nat, path : PathKinds, trace : Trace, active : Trace,
     result : Results \cup {None}, early : BOOLEAN, status : Codes]
StoreType == [of : Requests \cup {None}, trace : Trace]
CallType ==
    [state : {"none", "sent", "logged"}, from : {"guards", "handler", None},
     of : Requests \cup {None}, trace : Trace, attempts : 0 .. Retries + 1]
SpanType == [state : {"none", "open", "ended"}, trace : Trace, status : Codes]
DocType == [state : {"none", "sent", "indexed", "lost"}, status : Codes]

\* The invariant of one request.
Typed(r) ==
    /\ request[r] \in RequestType
    /\ store[r] \in StoreType
    /\ call[r] \in CallType
    /\ span[r] \in SpanType
    /\ log[r] \in Codes
    /\ doc[r] \in DocType
    /\ At(r, "interceptors") => request[r].entered \in 0 .. Len(chain) - 1

OneTraceOf(r) ==
    Before("tracing", "httpClient") /\ call[r].from = "handler" /\ span[r].state = "open"
        /\ span[r].trace # <<r, "interceptor">>
        => call[r].trace = span[r].trace

Sound(r) ==
    Typed(r) /\ ContextOK(r) /\ TraceOK(r) /\ RecordsOK(r) /\ CallOK(r) /\ OneTraceOf(r)

\* A step of request r.
StepOf(r) ==
    /\ UNCHANGED setup
    /\ request' = [request EXCEPT ![r] = request'[r]]
    /\ store' = [store EXCEPT ![r] = store'[r]]
    /\ call' = [call EXCEPT ![r] = call'[r]]
    /\ span' = [span EXCEPT ![r] = span'[r]]
    /\ log' = [log EXCEPT ![r] = log'[r]]
    /\ doc' = [doc EXCEPT ![r] = doc'[r]]

LEMMA RequestTypes ==
  PipelineInv => /\ request \in [Requests -> RequestType] /\ store \in [Requests -> StoreType]
                 /\ call \in [Requests -> CallType] /\ span \in [Requests -> SpanType]
                 /\ log \in [Requests -> Codes] /\ doc \in [Requests -> DocType]
                 /\ chain \in Chains /\ sdk \in {"off", "plain", "http"}
  BY DEF PipelineInv, PipelineTyped, RequestType, StoreType, CallType, SpanType, DocType, Codes

LEMMA OneByOne == PipelineInv => \A r \in Requests : Sound(r)
<1> SUFFICES ASSUME PipelineInv, NEW r \in Requests PROVE Sound(r)
  OBVIOUS
<1>1. Typed(r)
  <2>1. At(r, "interceptors") => request[r].entered \in 0 .. Len(chain) - 1
    BY DEF PipelineInv, PipelineTyped
  <2>2. QED
    BY <2>1, RequestTypes DEF Typed
<1>2. ContextOK(r) /\ TraceOK(r) /\ RecordsOK(r) /\ CallOK(r)
  BY DEF PipelineInv
<1>3. OneTraceOf(r)
  BY DEF PipelineInv, OneTrace, OneTraceOf
<1>4. QED
  BY <1>1, <1>2, <1>3 DEF Sound

\* What holds of the request that takes a step is all there is to show.
LEMMA Frame ==
  ASSUME PipelineInv, NEW r \in Requests, StepOf(r), Sound(r)'
  PROVE  PipelineInv'
<1>1. \A q \in Requests : Sound(q)
  BY OneByOne
<1>2. /\ request' \in [Requests -> RequestType] /\ store' \in [Requests -> StoreType]
      /\ call' \in [Requests -> CallType] /\ span' \in [Requests -> SpanType]
      /\ log' \in [Requests -> Codes] /\ doc' \in [Requests -> DocType]
  BY RequestTypes DEF StepOf, Sound, Typed
<1>3. \A q \in Requests \ {r} :
        /\ request'[q] = request[q] /\ store'[q] = store[q] /\ call'[q] = call[q]
        /\ span'[q] = span[q] /\ log'[q] = log[q] /\ doc'[q] = doc[q]
  BY RequestTypes DEF StepOf
<1>4. chain' = chain /\ sdk' = sdk
  BY DEF StepOf, setup
<1>5. ASSUME NEW q \in Requests \ {r} PROVE Sound(q)'
  <2>1. Sound(q)
    BY <1>1
  <2>2. Typed(q)'
    BY <2>1, <1>3, <1>4 DEF Sound, Typed, At
  <2>3. ContextOK(q)'
    BY <2>1, <1>3, <1>4 DEF Sound, ContextOK, Passed, Own
  <2>4. TraceOK(q)'
    BY <2>1, <1>3, <1>4 DEF Sound, TraceOK, Passed, Traced
  <2>5. RecordsOK(q)'
    BY <2>1, <1>3, <1>4 DEF Sound, RecordsOK, At
  <2>6. CallOK(q)'
    BY <2>1, <1>3, <1>4 DEF Sound, CallOK, InChain
  <2>7. OneTraceOf(q)'
    BY <2>1, <1>3, <1>4 DEF Sound, OneTraceOf, Before
  <2>8. QED
    BY <2>2, <2>3, <2>4, <2>5, <2>6, <2>7 DEF Sound
<1>6. \A q \in Requests : Sound(q)'
  BY <1>5
<1>7. PipelineTyped'
  <2>1. \A q \in Requests : (At(q, "interceptors") => request[q].entered \in 0 .. Len(chain) - 1)'
    BY <1>6 DEF Sound, Typed
  <2>2. chain' \in Chains /\ sdk' \in {"off", "plain", "http"}
    BY <1>4, RequestTypes DEF StepOf
  <2>3. QED
    BY <1>2, <2>1, <2>2 DEF PipelineTyped, RequestType, StoreType, CallType, SpanType, DocType, Codes
<1>8. \A q \in Requests : (ContextOK(q) /\ TraceOK(q) /\ RecordsOK(q) /\ CallOK(q))'
  BY <1>6 DEF Sound
<1>9. OneTrace'
  BY <1>6 DEF Sound, OneTraceOf, OneTrace
<1>10. QED
  BY <1>7, <1>8, <1>9 DEF PipelineInv

LEMMA Records ==
  /\ Fresh \in RequestType /\ NoCall \in CallType /\ NoSpan \in SpanType
  /\ [of |-> None, trace |-> None] \in StoreType
  /\ [state |-> "none", status |-> None] \in DocType
<1>1. None \in Trace
  BY DEF Trace
<1>2. Fresh \in RequestType
  BY <1>1 DEF Fresh, RequestType, PathKinds, Codes
<1>3. NoCall \in CallType
  BY <1>1, PipelineAssumption DEF NoCall, CallType
<1>4. NoSpan \in SpanType
  BY <1>1 DEF NoSpan, SpanType, Codes
<1>5. QED
  BY <1>1, <1>2, <1>3, <1>4 DEF StoreType, DocType, Codes

LEMMA PipelineBegins == PipelineInit => PipelineInv
<1> SUFFICES ASSUME PipelineInit PROVE PipelineInv
  OBVIOUS
<1>1. ASSUME NEW r \in Requests
      PROVE  /\ request[r] = Fresh /\ store[r] = [of |-> None, trace |-> None]
             /\ call[r] = NoCall /\ span[r] = NoSpan /\ log[r] = None
             /\ doc[r] = [state |-> "none", status |-> None]
  BY DEF PipelineInit
<1>2. PipelineTyped
  <2>1. \A r \in Requests : ~At(r, "interceptors")
    <3> TAKE r \in Requests
    <3>1. request[r].pc = "idle"
      BY <1>1 DEF Fresh
    <3>2. QED
      BY <3>1 DEF At
  <2>2. /\ request \in [Requests -> RequestType] /\ store \in [Requests -> StoreType]
        /\ call \in [Requests -> CallType] /\ span \in [Requests -> SpanType]
        /\ log \in [Requests -> Codes] /\ doc \in [Requests -> DocType]
    BY Records DEF PipelineInit, Codes
  <2>3. chain \in Chains /\ sdk \in {"off", "plain", "http"}
    BY DEF PipelineInit, Trace
  <2>4. QED
    BY <2>1, <2>2, <2>3 DEF PipelineTyped, RequestType, StoreType, CallType, SpanType, DocType, Codes
<1>3. ASSUME NEW r \in Requests PROVE ContextOK(r) /\ TraceOK(r) /\ RecordsOK(r) /\ CallOK(r)
  <2>1. ContextOK(r)
    BY <1>1, PipelineAssumption DEF ContextOK, Fresh, Passed, Own
  <2>2. TraceOK(r)
    BY <1>1 DEF TraceOK, Fresh
  <2>3. RecordsOK(r)
    BY <1>1 DEF RecordsOK, Fresh, At
  <2>4. CallOK(r)
    <3>1. call[r].from = None /\ call[r].state = "none"
      BY <1>1 DEF NoCall
    <3>2. QED
      BY <3>1, PipelineAssumption DEF CallOK
  <2>5. QED
    BY <2>1, <2>2, <2>3, <2>4
<1>4. OneTrace
  <2> SUFFICES ASSUME NEW r \in Requests PROVE OneTraceOf(r)
    BY DEF OneTrace, OneTraceOf
  <2>1. call[r].from = None
    BY <1>1 DEF NoCall
  <2>2. QED
    BY <2>1, PipelineAssumption DEF OneTraceOf
<1>5. QED
  BY <1>2, <1>3, <1>4 DEF PipelineInv

--------------------------------------------------------------------------------
(* A step of a request keeps what is sound about it.                           *)

\* A step that changes no more than the call of a request.
LEMMA CallStep ==
  ASSUME PipelineInv, NEW r \in Requests, NEW c \in CallType,
         UNCHANGED <<setup, request, store, records>>,
         call' = [call EXCEPT ![r] = c],
         c.from = "handler" => request[r].pc \in {"handler", "sending", "done"},
         c.state = "sent" =>
            /\ c.of = IF c.from = "handler" /\ InChain("httpClient") THEN r ELSE None
            /\ c.trace # None => c.trace[1] = r,
         Before("tracing", "httpClient") /\ c.from = "handler" /\ span[r].state = "open"
            /\ span[r].trace # <<r, "interceptor">> => c.trace = span[r].trace
  PROVE  PipelineInv'
<1>1. call'[r] = c /\ \A q \in Requests : Sound(q)
  BY RequestTypes, OneByOne
<1>2. /\ chain' = chain /\ sdk' = sdk /\ request' = request /\ store' = store /\ span' = span
      /\ log' = log /\ doc' = doc
  BY DEF setup, records
<1>3. StepOf(r)
  BY <1>1, <1>2, RequestTypes DEF StepOf, records
<1>4. Sound(r)'
  <2>1. Sound(r)
    BY <1>1
  <2>2. Typed(r)'
    BY <2>1, <1>1, <1>2 DEF Sound, Typed, At
  <2>3. ContextOK(r)'
    BY <2>1, <1>2 DEF Sound, ContextOK, Passed, Own
  <2>4. TraceOK(r)'
    BY <2>1, <1>2 DEF Sound, TraceOK, Passed, Traced
  <2>5. RecordsOK(r)'
    BY <2>1, <1>2 DEF Sound, RecordsOK, At
  <2>6. CallOK(r)'
    BY <1>1, <1>2 DEF CallOK, InChain
  <2>7. OneTraceOf(r)'
    BY <1>1, <1>2 DEF OneTraceOf, Before
  <2>8. QED
    BY <2>2, <2>3, <2>4, <2>5, <2>6, <2>7 DEF Sound
<1>5. QED
  BY <1>3, <1>4, Frame

\* A guard has no context yet; the handler has that which http-client has left.
LEMMA FetchStep ==
  ASSUME PipelineInv, NEW r \in Requests, Fetch(r)
  PROVE  PipelineInv'
<1> DEFINE c == [state |-> "sent", from |-> request[r].pc, of |-> store[r].of,
                 trace |-> store[r].trace, attempts |-> 1]
<1>1. Sound(r) /\ request[r].pc \in {"guards", "handler"}
  BY OneByOne DEF Fetch
<1>2. /\ c.from = request[r].pc /\ c.of = store[r].of /\ c.trace = store[r].trace
      /\ c.state = "sent"
  OBVIOUS
<1>3. c \in CallType
  BY <1>1, PipelineAssumption DEF Sound, Typed, StoreType, CallType
<1>4. c.of = IF c.from = "handler" /\ InChain("httpClient") THEN r ELSE None
  <2>1. request[r].pc = "guards" => Passed(r) = {}
    BY DEF Passed
  <2>2. request[r].pc = "handler" => Passed(r) = DOMAIN chain
    BY DEF Passed
  <2>3. store[r].of \in {None, r} /\ (store[r].of = r <=> \E i \in Passed(r) : chain[i] = "httpClient")
    BY <1>1 DEF Sound, ContextOK
  <2>4. QED
    BY <1>1, <1>2, <2>1, <2>2, <2>3 DEF InChain
<1>5. c.trace # None => c.trace[1] = r
  BY <1>1, <1>2 DEF Sound, ContextOK, Own
<1>6. Before("tracing", "httpClient") /\ c.from = "handler" /\ span[r].state = "open"
        /\ span[r].trace # <<r, "interceptor">> => c.trace = span[r].trace
  <2>1. request[r].pc = "handler" => Passed(r) = DOMAIN chain
    BY DEF Passed
  <2>2. QED
    BY <1>1, <1>2, <2>1 DEF Sound, TraceOK, Before
<1>7. c.from = "handler" => request[r].pc \in {"handler", "sending", "done"}
  BY <1>2
<1>8. call' = [call EXCEPT ![r] = c] /\ UNCHANGED <<setup, request, store, records>>
  BY DEF Fetch, Outgoing
<1> HIDE DEF c
<1>9. QED
  BY <1>2, <1>3, <1>4, <1>5, <1>6, <1>7, <1>8, CallStep

LEMMA RetryStep ==
  ASSUME PipelineInv, NEW r \in Requests, Retry(r)
  PROVE  PipelineInv'
<1> DEFINE c == [call[r] EXCEPT !.attempts = @ + 1]
<1>1. Sound(r) /\ call[r] \in CallType
  BY OneByOne, RequestTypes
<1>2. /\ c.from = call[r].from /\ c.of = call[r].of /\ c.trace = call[r].trace
      /\ c.state = call[r].state
  BY <1>1 DEF CallType
<1>3. c \in CallType
  BY <1>1, PipelineAssumption DEF Retry, CallType
<1>4. /\ c.from = "handler" => request[r].pc \in {"handler", "sending", "done"}
      /\ c.state = "sent" =>
            /\ c.of = IF c.from = "handler" /\ InChain("httpClient") THEN r ELSE None
            /\ c.trace # None => c.trace[1] = r
  BY <1>1, <1>2 DEF Sound, CallOK
<1>5. Before("tracing", "httpClient") /\ c.from = "handler" /\ span[r].state = "open"
        /\ span[r].trace # <<r, "interceptor">> => c.trace = span[r].trace
  BY <1>1, <1>2 DEF Sound, OneTraceOf
<1>6. call' = [call EXCEPT ![r] = c] /\ UNCHANGED <<setup, request, store, records>>
  BY DEF Retry
<1> HIDE DEF c
<1>7. QED
  BY <1>3, <1>4, <1>5, <1>6, CallStep

LEMMA FetchEndsStep ==
  ASSUME PipelineInv, NEW r \in Requests, FetchEnds(r)
  PROVE  PipelineInv'
<1> DEFINE c == [NoCall EXCEPT !.state = "logged"]
<1>1. c \in CallType /\ c.state = "logged" /\ c.from = None
  BY Records DEF NoCall, CallType
<1>2. c.state # "sent" /\ c.from # "handler"
  BY <1>1, PipelineAssumption
<1>3. call' = [call EXCEPT ![r] = c] /\ UNCHANGED <<setup, request, store, records>>
  BY DEF FetchEnds
<1> HIDE DEF c
<1>4. QED
  BY <1>1, <1>2, <1>3, CallStep

--------------------------------------------------------------------------------
(* The interceptors.                                                           *)

\* An interceptor more has been passed.
LEMMA PassFacts ==
  ASSUME PipelineInv, NEW r \in Requests, NEW t \in Trace, At(r, "interceptors"), Pass(r, t),
         chain' = chain
  PROVE  /\ request' = [request EXCEPT ![r] = request'[r]]
         /\ request'[r] \in RequestType
         /\ request'[r].trace = t /\ request'[r].active = request[r].active
         /\ request'[r].path = request[r].path
         /\ request'[r].pc \in {"interceptors", "handler"}
         /\ request'[r].pc = "interceptors" => request'[r].entered \in 0 .. Len(chain) - 1
         /\ Passed(r) = 1 .. request[r].entered
         /\ Passed(r)' = 1 .. request[r].entered + 1
         /\ request[r].entered \in Nat
<1>1. /\ request[r] \in RequestType /\ request[r].entered \in 0 .. Len(chain) - 1
      /\ request[r].pc = "interceptors"
  BY OneByOne DEF Sound, Typed, At
<1>2. chain \in Seq(Interceptors)
  BY RequestTypes, PipelineAssumption
<1>3. request[r].entered + 1 \in 1 .. Len(chain) /\ Len(chain) \in Nat
      /\ request[r].entered \in Nat /\ DOMAIN chain = 1 .. Len(chain)
  BY <1>1, <1>2
<1>4. request'[r] = [request[r] EXCEPT !.entered = request[r].entered + 1, !.trace = t,
        !.pc = IF request[r].entered + 1 = Len(chain) THEN "handler" ELSE "interceptors"]
  BY RequestTypes DEF Pass
<1>5. /\ request'[r] \in RequestType /\ request'[r].path = request[r].path
      /\ request'[r].entered = request[r].entered + 1
      /\ request'[r].trace = t /\ request'[r].active = request[r].active
      /\ request'[r].pc =
            IF request[r].entered + 1 = Len(chain) THEN "handler" ELSE "interceptors"
  <2> DEFINE pc == IF request[r].entered + 1 = Len(chain) THEN "handler" ELSE "interceptors"
             e == request[r].entered + 1
  <2>1. pc \in {"interceptors", "handler"} /\ e \in Nat
    BY <1>3
  <2>2. request'[r] = [request[r] EXCEPT !.entered = e, !.trace = t, !.pc = pc]
    BY <1>4
  <2> HIDE DEF pc, e
  <2>3. request'[r] \in RequestType /\ request'[r].entered = e /\ request'[r].trace = t
        /\ request'[r].path = request[r].path
        /\ request'[r].active = request[r].active /\ request'[r].pc = pc
    BY <1>1, <2>1, <2>2 DEF RequestType
  <2>4. QED
    BY <2>3 DEF pc, e
<1>6. request' = [request EXCEPT ![r] = request'[r]]
  BY RequestTypes DEF Pass
<1>7. request'[r].pc = "interceptors" => request'[r].entered \in 0 .. Len(chain) - 1
  BY <1>3, <1>5
<1>8. Passed(r) = 1 .. request[r].entered
  BY <1>1 DEF Passed
<1>9. Passed(r)' = 1 .. request[r].entered + 1
  <2>1. request'[r].pc = "interceptors" => Passed(r)' = 1 .. request[r].entered + 1
    BY <1>5 DEF Passed
  <2>2. request'[r].pc = "handler" => Passed(r)' = DOMAIN chain
    BY DEF Passed
  <2>3. request'[r].pc = "handler" => request[r].entered + 1 = Len(chain)
    BY <1>5
  <2>4. QED
    BY <1>3, <1>5, <2>1, <2>2, <2>3
<1>10. QED
  BY <1>3, <1>5, <1>6, <1>7, <1>8, <1>9

\* What every interceptor leaves alone, logger and elk everything.
LEMMA EnterOtherStep ==
  ASSUME PipelineInv, NEW r \in Requests, EnterOther(r)
  PROVE  PipelineInv'
<1>1. /\ At(r, "interceptors") /\ Pass(r, request[r].trace) /\ request[r].trace \in Trace
      /\ chain[request[r].entered + 1] \notin {"tracing", "httpClient"}
      /\ Sound(r)
  BY OneByOne DEF EnterOther, Entering, Sound, Typed, RequestType
<1>2. /\ chain' = chain /\ sdk' = sdk /\ store' = store /\ call' = call /\ span' = span
      /\ log' = log /\ doc' = doc
  BY DEF EnterOther, setup, records
<1>3. /\ request' = [request EXCEPT ![r] = request'[r]]
      /\ request'[r] \in RequestType
      /\ request'[r].trace = request[r].trace /\ request'[r].active = request[r].active
      /\ request'[r].path = request[r].path
      /\ request'[r].pc \in {"interceptors", "handler"}
      /\ request'[r].pc = "interceptors" => request'[r].entered \in 0 .. Len(chain) - 1
      /\ Passed(r) = 1 .. request[r].entered
      /\ Passed(r)' = 1 .. request[r].entered + 1
      /\ request[r].entered \in Nat
  BY <1>1, <1>2, PassFacts
<1>4. StepOf(r)
  BY <1>2, <1>3, RequestTypes DEF StepOf, EnterOther
<1>5. Sound(r)'
  <2>1. Typed(r)'
    BY <1>1, <1>2, <1>3 DEF Sound, Typed, At
  <2>2. ContextOK(r)'
    <3>1. (\E i \in Passed(r)' : chain[i] = "httpClient") <=> \E i \in Passed(r) : chain[i] = "httpClient"
      BY <1>1, <1>3
    <3>2. request[r].pc = "interceptors"
      BY <1>1 DEF At
    <3>3. QED
      BY <1>1, <1>2, <1>3, <3>1, <3>2 DEF Sound, ContextOK, Own
  <2>3. TraceOK(r)'
    <3>1. request[r].pc = "interceptors"
      BY <1>1 DEF At
    <3>2. \A i, j \in Passed(r)' : i < j /\ chain[i] = "tracing" /\ chain[j] = "httpClient"
            => i \in Passed(r) /\ j \in Passed(r)
      BY <1>1, <1>3
    <3>3. QED
      BY <1>1, <1>2, <1>3, <3>1, <3>2 DEF Sound, TraceOK, Traced
  <2>4. RecordsOK(r)'
    <3>1. request[r].pc = "interceptors"
      BY <1>1 DEF At
    <3>2. QED
      BY <1>1, <1>2, <1>3, <3>1 DEF Sound, RecordsOK, At
  <2>5. CallOK(r)'
    BY <1>1, <1>2, <1>3 DEF Sound, CallOK, InChain, At
  <2>6. OneTraceOf(r)'
    BY <1>1, <1>2 DEF Sound, OneTraceOf, Before
  <2>7. QED
    BY <2>1, <2>2, <2>3, <2>4, <2>5, <2>6 DEF Sound
<1>6. QED
  BY <1>4, <1>5, Frame

\* http-client stores the headers as they are when the request gets there.
LEMMA EnterHttpClientStep ==
  ASSUME PipelineInv, NEW r \in Requests, EnterHttpClient(r)
  PROVE  PipelineInv'
<1>1. /\ request[r].pc = "interceptors" /\ At(r, "interceptors")
      /\ Pass(r, request[r].trace) /\ request[r].trace \in Trace
      /\ chain[request[r].entered + 1] = "httpClient"
      /\ Sound(r)
  BY OneByOne DEF EnterHttpClient, Entering, Sound, Typed, RequestType, At
<1>2. /\ chain' = chain /\ sdk' = sdk /\ call' = call /\ span' = span
      /\ log' = log /\ doc' = doc
  BY DEF EnterHttpClient, setup, records
<1>3. /\ request' = [request EXCEPT ![r] = request'[r]]
      /\ request'[r] \in RequestType
      /\ request'[r].trace = request[r].trace /\ request'[r].active = request[r].active
      /\ request'[r].path = request[r].path
      /\ request'[r].pc \in {"interceptors", "handler"}
      /\ request'[r].pc = "interceptors" => request'[r].entered \in 0 .. Len(chain) - 1
      /\ Passed(r) = 1 .. request[r].entered
      /\ Passed(r)' = 1 .. request[r].entered + 1
      /\ request[r].entered \in Nat
  BY <1>1, <1>2, PassFacts
<1>4. /\ store'[r] = [of |-> r, trace |-> request[r].trace]
      /\ store' = [store EXCEPT ![r] = store'[r]]
  BY RequestTypes DEF EnterHttpClient, Captured
<1>5. StepOf(r)
  BY <1>2, <1>3, <1>4, RequestTypes DEF StepOf, EnterHttpClient
<1>6. Sound(r)'
  <2>1. Typed(r)'
    <3>1. store'[r] \in StoreType
      BY <1>1, <1>4 DEF StoreType
    <3>2. QED
      BY <1>1, <1>2, <1>3, <3>1 DEF Sound, Typed, At
  <2>2. ContextOK(r)'
    <3>1. \E i \in Passed(r)' : chain[i] = "httpClient"
      BY <1>1, <1>3
    <3>2. QED
      BY <1>1, <1>2, <1>3, <1>4, <3>1 DEF Sound, ContextOK, Own
  <2>3. TraceOK(r)'
    <3>1. \A i \in Passed(r)' : chain[i] = "tracing" => i \in Passed(r)
      BY <1>1, <1>3
    <3>2. QED
      BY <1>1, <1>2, <1>3, <1>4, <3>1 DEF Sound, TraceOK, Traced
  <2>4. RecordsOK(r)'
    BY <1>1, <1>2, <1>3 DEF Sound, RecordsOK, At
  <2>5. CallOK(r)'
    BY <1>1, <1>2, <1>3 DEF Sound, CallOK, InChain
  <2>6. OneTraceOf(r)'
    BY <1>1, <1>2 DEF Sound, OneTraceOf, Before
  <2>7. QED
    BY <2>1, <2>2, <2>3, <2>4, <2>5, <2>6 DEF Sound
<1>7. QED
  BY <1>5, <1>6, Frame

\* The span of a request is a root, or of the trace that its headers carry from here on;
\* a second span of tracing is of the same trace as the first.
LEMMA EnterTracingStep ==
  ASSUME PipelineInv, NEW r \in Requests, EnterTracing(r)
  PROVE  PipelineInv'
<1> DEFINE t == IF Traced(r) THEN Carried(r) ELSE request[r].trace
<1>1. /\ request[r].pc = "interceptors" /\ At(r, "interceptors") /\ Pass(r, t)
      /\ chain[request[r].entered + 1] = "tracing"
      /\ Sound(r)
  BY OneByOne DEF EnterTracing, Entering, At
<1>2. /\ chain' = chain /\ sdk' = sdk /\ call' = call /\ store' = store
      /\ log' = log /\ doc' = doc
  BY DEF EnterTracing, setup
<1>3. request[r].trace \in Trace /\ request[r].active \in Trace /\ t \in Trace /\ t \in Own(r)
  BY <1>1 DEF Sound, Typed, RequestType, ContextOK, Carried
<1>4. /\ request' = [request EXCEPT ![r] = request'[r]]
      /\ request'[r] \in RequestType
      /\ request'[r].trace = t /\ request'[r].active = request[r].active
      /\ request'[r].path = request[r].path
      /\ request'[r].pc \in {"interceptors", "handler"}
      /\ request'[r].pc = "interceptors" => request'[r].entered \in 0 .. Len(chain) - 1
      /\ Passed(r) = 1 .. request[r].entered
      /\ Passed(r)' = 1 .. request[r].entered + 1
      /\ request[r].entered \in Nat
  <2> HIDE DEF t
  <2>1. QED
    BY <1>1, <1>2, <1>3, PassFacts
<1>5. /\ Traced(r) => span' = [span EXCEPT ![r].state = "open", ![r].trace = Parent(r)]
      /\ ~Traced(r) => span' = span
  BY DEF EnterTracing
<1>6. span[r] \in SpanType /\ Parent(r) \in Trace
  BY <1>1, <1>3 DEF Sound, Typed, Parent, Trace
<1>7. Traced(r) => span'[r].state = "open" /\ span'[r].trace = Parent(r) /\ span'[r] \in SpanType
  BY <1>5, <1>6, RequestTypes DEF SpanType
<1>8. ~Traced(r) => span'[r] = span[r]
  BY <1>5
<1>9. StepOf(r)
  <2>1. span' = [span EXCEPT ![r] = span'[r]]
    BY <1>5, RequestTypes
  <2>2. UNCHANGED setup
    BY DEF EnterTracing
  <2>3. QED
    BY <1>2, <1>4, <2>1, <2>2, RequestTypes DEF StepOf
<1>10. Sound(r)'
  <2>1. Typed(r)'
    BY <1>1, <1>2, <1>4, <1>6, <1>7, <1>8 DEF Sound, Typed, At
  <2>2. ContextOK(r)'
    <3>1. (\E i \in Passed(r)' : chain[i] = "httpClient") <=> \E i \in Passed(r) : chain[i] = "httpClient"
      BY <1>1, <1>4
    <3>2. QED
      BY <1>1, <1>2, <1>3, <1>4, <3>1 DEF Sound, ContextOK, Own
  <2>3. TraceOK(r)'
    <3>1. \A j \in Passed(r)' : chain[j] = "httpClient" => j \in Passed(r)
      BY <1>1, <1>4
    <3>2. \A i, j \in Passed(r)' : i < j /\ j \in Passed(r) => i \in Passed(r)
      BY <1>4
    <3>3. CASE ~Traced(r)
      <4>1. request'[r].trace = request[r].trace /\ ~Traced(r)'
        BY <1>2, <1>4, <3>3 DEF Traced
      <4>2. QED
        BY <1>1, <1>2, <1>4, <1>8, <3>1, <3>2, <3>3, <4>1 DEF Sound, TraceOK
    <3>4. CASE Traced(r)
      <4>1. t = Carried(r)
        BY <3>4
      <4>2. request[r].active # <<r, "interceptor">> /\ request[r].trace # <<r, "interceptor">>
        <5>1. <<r, "interceptor">> # None
          <6>1. <<r, "interceptor">> \in Requests \X {"caller", "server", "interceptor"}
            OBVIOUS
          <6>2. QED
            BY <6>1, PipelineAssumption
        <5>2. <<r, "interceptor">> # <<r, "caller">> /\ <<r, "interceptor">> # <<r, "server">>
          OBVIOUS
        <5>3. QED
          BY <1>1, <5>1, <5>2 DEF Sound, ContextOK, Own
      <4>3. Parent(r) = <<r, "interceptor">> => t = None /\ request[r].active = None
        BY <4>1, <4>2 DEF Parent, Carried
      <4>4. Parent(r) # <<r, "interceptor">> => t = Parent(r) /\ request[r].active \in {None, Parent(r)}
        BY <4>1 DEF Parent, Carried
      <4>5. ASSUME Parent(r) # <<r, "interceptor">>,
                   NEW i \in Passed(r)', NEW j \in Passed(r)',
                   i < j, chain[i] = "tracing", chain[j] = "httpClient"
            PROVE  store[r].trace = Parent(r)
        <5>1. i \in Passed(r) /\ j \in Passed(r)
          BY <3>1, <3>2, <4>5
        <5>2. span[r].state = "open"
          BY <1>1, <3>4, <4>5, <5>1 DEF Sound, TraceOK
        <5>3. span[r].trace = Parent(r) /\ span[r].trace # <<r, "interceptor">>
          <6>1. CASE span[r].trace = <<r, "interceptor">>
            BY <1>1, <5>2, <6>1, <4>5 DEF Sound, TraceOK, Parent
          <6>2. CASE span[r].trace # <<r, "interceptor">>
            <7>1. request[r].trace = span[r].trace /\ request[r].active \in {None, span[r].trace}
              BY <1>1, <5>2, <6>2 DEF Sound, TraceOK
            <7>2. QED
              BY <7>1, <6>2, <4>5 DEF Parent
          <6>3. QED
            BY <6>1, <6>2
        <5>4. QED
          BY <1>1, <5>1, <5>2, <5>3, <4>5 DEF Sound, TraceOK
      <4>6. span'[r].state = "open" /\ span'[r].trace = Parent(r)
        BY <1>7, <3>4
      <4> HIDE DEF t
      <4>7. QED
        BY <1>2, <1>4, <4>3, <4>4, <4>5, <4>6 DEF TraceOK
    <3>5. QED
      BY <3>3, <3>4
  <2>4. RecordsOK(r)'
    BY <1>1, <1>2, <1>4 DEF Sound, RecordsOK, At
  <2>5. CallOK(r)'
    BY <1>1, <1>2, <1>4 DEF Sound, CallOK, InChain
  <2>6. OneTraceOf(r)'
    <3>1. call[r].from # "handler"
      BY <1>1 DEF Sound, CallOK
    <3>2. QED
      BY <1>2, <3>1 DEF OneTraceOf
  <2>7. QED
    BY <2>1, <2>2, <2>3, <2>4, <2>5, <2>6 DEF Sound
<1>11. QED
  BY <1>9, <1>10, Frame

--------------------------------------------------------------------------------
(* The request itself.                                                         *)

LEMMA ArriveStep ==
  ASSUME PipelineInv, NEW r \in Requests, NEW path \in Paths, NEW traced \in BOOLEAN,
         Arrive(r, path, traced)
  PROVE  PipelineInv'
<1> DEFINE caller == IF traced THEN <<r, "caller">> ELSE None
           active == IF sdk # "http" \/ path \in Ignored THEN None
                     ELSE IF traced THEN caller ELSE <<r, "server">>
<1>1. Sound(r) /\ request[r] \in RequestType /\ request[r].pc = "idle"
  BY OneByOne DEF Arrive, At, Sound, Typed
<1>2. /\ chain' = chain /\ sdk' = sdk /\ store' = store /\ call' = call /\ span' = span
      /\ log' = log /\ doc' = doc
  BY DEF Arrive, setup, records
<1>3. /\ caller \in Own(r) /\ active \in Own(r) /\ caller \in Trace /\ active \in Trace
      /\ path \in PathKinds
  BY PipelineAssumption DEF Own, Trace
<1>4. request' = [request EXCEPT ![r].pc = "guards", ![r].path = path,
                                 ![r].trace = caller, ![r].active = active]
  BY DEF Arrive
<1> HIDE DEF caller, active
<1>5. request'[r] = [request[r] EXCEPT !.pc = "guards", !.path = path, !.trace = caller,
                                       !.active = active]
  BY <1>4, RequestTypes
<1>6. request'[r] \in RequestType /\ request'[r].pc = "guards" /\ request'[r].trace = caller
      /\ request'[r].active = active /\ request'[r].entered = request[r].entered
  BY <1>1, <1>3, <1>5 DEF RequestType
<1>7. StepOf(r)
  <2>1. request' = [request EXCEPT ![r] = request'[r]]
    BY <1>4, RequestTypes
  <2>2. QED
    BY <1>2, <2>1, RequestTypes DEF StepOf, Arrive
<1>8. Sound(r)'
  <2>1. Typed(r)'
    BY <1>1, <1>2, <1>6 DEF Sound, Typed, At
  <2>2. ContextOK(r)'
    <3>1. Passed(r) = {} /\ Passed(r)' = {}
      BY <1>1, <1>6 DEF Passed
    <3>2. QED
      BY <1>1, <1>2, <1>3, <1>6, <3>1 DEF Sound, ContextOK, Own
  <2>3. TraceOK(r)'
    BY <1>6 DEF TraceOK
  <2>4. RecordsOK(r)'
    BY <1>1, <1>2, <1>6 DEF Sound, RecordsOK, At
  <2>5. CallOK(r)'
    BY <1>1, <1>2, <1>6 DEF Sound, CallOK, InChain
  <2>6. OneTraceOf(r)'
    BY <1>1, <1>2 DEF Sound, OneTraceOf, Before
  <2>7. QED
    BY <2>1, <2>2, <2>3, <2>4, <2>5, <2>6 DEF Sound
<1>9. QED
  BY <1>7, <1>8, Frame

LEMMA GuardsPassStep ==
  ASSUME PipelineInv, NEW r \in Requests, GuardsPass(r)
  PROVE  PipelineInv'
<1> DEFINE pc == IF chain = <<>> THEN "handler" ELSE "interceptors"
<1>1. Sound(r) /\ request[r] \in RequestType /\ request[r].pc = "guards"
  BY OneByOne DEF GuardsPass, At, Sound, Typed
<1>2. /\ chain' = chain /\ sdk' = sdk /\ store' = store /\ call' = call /\ span' = span
      /\ log' = log /\ doc' = doc
  BY DEF GuardsPass, setup, records
<1>3. request' = [request EXCEPT ![r].pc = pc]
  BY DEF GuardsPass
<1>4. pc \in {"handler", "interceptors"}
  OBVIOUS
<1>5. /\ request'[r] \in RequestType /\ request'[r].pc = pc /\ request'[r].trace = request[r].trace
      /\ request'[r].active = request[r].active /\ request'[r].entered = request[r].entered
      /\ request' = [request EXCEPT ![r] = request'[r]]
  <2> HIDE DEF pc
  <2>1. request'[r] = [request[r] EXCEPT !.pc = pc] /\ request' = [request EXCEPT ![r] = request'[r]]
    BY <1>3, RequestTypes
  <2>2. QED
    BY <1>1, <1>4, <2>1 DEF RequestType
<1>6. StepOf(r)
  BY <1>2, <1>5, RequestTypes DEF StepOf, GuardsPass
<1>7. request[r].entered = 0 /\ span[r] = NoSpan
  BY <1>1 DEF Sound, ContextOK, RecordsOK
<1>8. chain \in Seq(Interceptors)
  BY RequestTypes, PipelineAssumption
<1>9. Passed(r)' = {}
  <2>1. pc = "interceptors" => Passed(r)' = 1 .. 0
    BY <1>5, <1>7 DEF Passed
  <2>2. pc = "handler" => Passed(r)' = DOMAIN chain /\ chain = <<>>
    BY <1>2, <1>5 DEF Passed
  <2>3. QED
    BY <1>4, <2>1, <2>2
<1>10. Sound(r)'
  <2>1. Typed(r)'
    <3>1. pc = "interceptors" => 0 \in 0 .. Len(chain) - 1
      BY <1>8
    <3>2. QED
      BY <1>1, <1>2, <1>5, <1>7, <3>1 DEF Sound, Typed, At
  <2>2. ContextOK(r)'
    <3>1. Passed(r) = {}
      BY <1>1 DEF Passed
    <3>2. QED
      BY <1>1, <1>2, <1>4, <1>5, <1>9, <3>1 DEF Sound, ContextOK, Own
  <2>3. TraceOK(r)'
    <3>1. span'[r].state = "none"
      BY <1>2, <1>7 DEF NoSpan
    <3>2. QED
      BY <1>9, <3>1 DEF TraceOK
  <2>4. RecordsOK(r)'
    BY <1>1, <1>2, <1>4, <1>5 DEF Sound, RecordsOK, At
  <2>5. CallOK(r)'
    BY <1>1, <1>2, <1>4, <1>5 DEF Sound, CallOK, InChain
  <2>6. OneTraceOf(r)'
    BY <1>1, <1>2 DEF Sound, OneTraceOf, Before
  <2>7. QED
    BY <2>1, <2>2, <2>3, <2>4, <2>5, <2>6 DEF Sound
<1>11. QED
  BY <1>6, <1>10, Frame

LEMMA SendEarlyStep ==
  ASSUME PipelineInv, NEW r \in Requests, SendEarly(r)
  PROVE  PipelineInv'
<1>1. Sound(r) /\ request[r] \in RequestType /\ request[r].pc = "handler"
  BY OneByOne DEF SendEarly, At, Sound, Typed
<1>2. /\ chain' = chain /\ sdk' = sdk /\ store' = store /\ call' = call /\ span' = span
      /\ log' = log /\ doc' = doc
  BY DEF SendEarly, setup, records
<1>3. request' = [request EXCEPT ![r].early = TRUE, ![r].status = 200]
  BY DEF SendEarly
<1>4. /\ request'[r] = [request[r] EXCEPT !.early = TRUE, !.status = 200]
      /\ request' = [request EXCEPT ![r] = request'[r]]
  BY <1>3, RequestTypes
<1>5. /\ request'[r] \in RequestType /\ request'[r].pc = "handler"
      /\ request'[r].trace = request[r].trace /\ request'[r].active = request[r].active
      /\ request'[r].path = request[r].path
  <2> DEFINE early == TRUE
             status == 200
  <2>1. early \in BOOLEAN /\ status \in Codes
    BY DEF Codes
  <2>2. request'[r] = [request[r] EXCEPT !.early = early, !.status = status]
    BY <1>4
  <2> HIDE DEF early, status
  <2>3. QED
    BY <1>1, <2>1, <2>2 DEF RequestType
<1>6. StepOf(r)
  BY <1>2, <1>4, RequestTypes DEF StepOf, SendEarly
<1>7. Passed(r) = DOMAIN chain /\ Passed(r)' = DOMAIN chain
  BY <1>1, <1>2, <1>5 DEF Passed
<1>8. Sound(r)'
  <2>1. Typed(r)'
    BY <1>1, <1>2, <1>5 DEF Sound, Typed, At
  <2>2. ContextOK(r)'
    BY <1>1, <1>2, <1>5, <1>7 DEF Sound, ContextOK, Own
  <2>3. TraceOK(r)'
    BY <1>1, <1>2, <1>5, <1>7 DEF Sound, TraceOK, Traced
  <2>4. RecordsOK(r)'
    BY <1>1, <1>2, <1>5 DEF Sound, RecordsOK, At
  <2>5. CallOK(r)'
    BY <1>1, <1>2, <1>5 DEF Sound, CallOK, InChain
  <2>6. OneTraceOf(r)'
    BY <1>1, <1>2 DEF Sound, OneTraceOf, Before
  <2>7. QED
    BY <2>1, <2>2, <2>3, <2>4, <2>5, <2>6 DEF Sound
<1>9. QED
  BY <1>6, <1>8, Frame

\* What is left of a request that has ended.
LEMMA EndFacts ==
  ASSUME PipelineInv, NEW r \in Requests, NEW result \in Results, End(r, result)
  PROVE  /\ request' = [request EXCEPT ![r] = request'[r]]
         /\ request'[r] \in RequestType
         /\ request'[r].pc = "sending" /\ request'[r].result = result
         /\ request'[r].trace = None /\ request'[r].active = None
<1>1. request[r] \in RequestType /\ Fresh \in RequestType
  BY RequestTypes, Records
<1>2. request[r].early \in BOOLEAN /\ request[r].status \in Codes
  BY <1>1 DEF RequestType
<1>3. /\ request'[r] = [Fresh EXCEPT !.pc = "sending", !.result = result,
                             !.early = request[r].early, !.status = request[r].status]
      /\ request' = [request EXCEPT ![r] = request'[r]]
  BY RequestTypes DEF End
<1>4. request'[r] \in RequestType /\ request'[r].pc = "sending" /\ request'[r].result = result
      /\ request'[r].trace = Fresh.trace /\ request'[r].active = Fresh.active
  BY <1>1, <1>2, <1>3 DEF RequestType
<1>5. QED
  BY <1>3, <1>4 DEF Fresh

LEMMA GuardsRefuseStep ==
  ASSUME PipelineInv, NEW r \in Requests, NEW result \in Results, GuardsRefuse(r, result)
  PROVE  PipelineInv'
<1>1. Sound(r) /\ request[r].pc = "guards"
  BY OneByOne DEF GuardsRefuse, At
<1>2. /\ chain' = chain /\ sdk' = sdk /\ store' = store /\ call' = call /\ span' = span
      /\ log' = log /\ doc' = doc
  BY DEF GuardsRefuse, setup, records
<1>3. /\ request' = [request EXCEPT ![r] = request'[r]] /\ request'[r] \in RequestType
      /\ request'[r].pc = "sending" /\ request'[r].result = result
      /\ request'[r].trace = None /\ request'[r].active = None
  BY EndFacts DEF GuardsRefuse
<1>4. StepOf(r)
  BY <1>2, <1>3, RequestTypes DEF StepOf, GuardsRefuse
<1>5. Sound(r)'
  <2>1. Typed(r)'
    BY <1>1, <1>2, <1>3 DEF Sound, Typed, At
  <2>2. ContextOK(r)'
    BY <1>1, <1>2, <1>3 DEF Sound, ContextOK, Own
  <2>3. TraceOK(r)'
    BY <1>3 DEF TraceOK
  <2>4. RecordsOK(r)'
    <3>1. span'[r].state = "none" /\ doc'[r].state = "none" /\ log'[r] = None
      BY <1>1, <1>2 DEF Sound, RecordsOK, NoSpan
    <3>2. QED
      BY <1>3, <3>1 DEF RecordsOK, At
  <2>5. CallOK(r)'
    BY <1>1, <1>2, <1>3 DEF Sound, CallOK, InChain
  <2>6. OneTraceOf(r)'
    BY <1>1, <1>2 DEF Sound, OneTraceOf, Before
  <2>7. QED
    BY <2>1, <2>2, <2>3, <2>4, <2>5, <2>6 DEF Sound
<1>6. QED
  BY <1>4, <1>5, Frame

LEMMA StatusType ==
  ASSUME NEW result \in Results
  PROVE  /\ Status(result) \in {200, 404, 500} /\ LogStatus(result) \in {200, 404, 500}
         /\ Answer(result) \in {200, 404, 500}
         /\ result # "carrying" => LogStatus(result) = Status(result)
BY DEF Results, Status, LogStatus, Answer

\* A handler ends with every record that is made of it.
LEMMA CompleteStep ==
  ASSUME PipelineInv, NEW r \in Requests, NEW result \in Results, Complete(r, result)
  PROVE  PipelineInv'
<1>1. Sound(r) /\ request[r].pc = "handler"
  BY OneByOne DEF Complete, At
<1>2. /\ chain' = chain /\ sdk' = sdk /\ store' = store /\ call' = call
  BY DEF Complete, setup
<1>3. /\ request' = [request EXCEPT ![r] = request'[r]] /\ request'[r] \in RequestType
      /\ request'[r].pc = "sending" /\ request'[r].result = result
      /\ request'[r].trace = None /\ request'[r].active = None
  BY EndFacts DEF Complete
<1>4. span[r] \in SpanType /\ log[r] \in Codes /\ doc[r] \in DocType
  BY <1>1 DEF Sound, Typed
<1>5. Status(result) \in Codes /\ LogStatus(result) \in Codes
  BY StatusType DEF Codes
<1>6. /\ span' = [span EXCEPT ![r] = span'[r]] /\ span'[r] \in SpanType
      /\ span'[r].state # "none" => span'[r].state = "ended" /\ span'[r].status = Status(result)
      /\ span'[r].state # "open"
  <2> DEFINE new == [NoSpan EXCEPT !.state = "ended", !.status = Status(result)]
  <2>1. new \in SpanType /\ new.state = "ended" /\ new.status = Status(result)
    <3>1. NoSpan \in SpanType
      BY Records
    <3>2. QED
      BY <1>5, <3>1 DEF SpanType
  <2>2. span' = [span EXCEPT ![r] = IF span[r].state = "open" THEN new ELSE span[r]]
    BY DEF Complete, EndSpan
  <2> HIDE DEF new
  <2>3. span' = [span EXCEPT ![r] = span'[r]]
    BY <2>2, RequestTypes
  <2>4. span'[r] = IF span[r].state = "open" THEN new ELSE span[r]
    BY <2>2, RequestTypes
  <2>5. span[r].state \in {"none", "open"}
    BY <1>1 DEF Sound, TraceOK
  <2>6. QED
    BY <1>4, <2>1, <2>3, <2>4, <2>5
<1>7. /\ log' = [log EXCEPT ![r] = log'[r]] /\ log'[r] \in Codes
      /\ log'[r] # None => log'[r] = LogStatus(result)
  <2>1. log[r] = None
    BY <1>1 DEF Sound, RecordsOK
  <2>2. log' = [log EXCEPT ![r] = LogResponse(r, result)]
    BY DEF Complete
  <2>3. log' = [log EXCEPT ![r] = log'[r]] /\ log'[r] = LogResponse(r, result)
    BY <2>2, RequestTypes
  <2>4. QED
    BY <1>4, <1>5, <2>1, <2>3 DEF LogResponse
<1>8. /\ doc' = [doc EXCEPT ![r] = doc'[r]] /\ doc'[r] \in DocType
      /\ doc'[r].state # "none" => doc'[r].status = Status(result)
  <2>1. doc[r].state = "none"
    BY <1>1 DEF Sound, RecordsOK
  <2>2. doc' = [doc EXCEPT ![r] = IndexResponse(r, result)]
    BY DEF Complete
  <2>3. doc' = [doc EXCEPT ![r] = doc'[r]] /\ doc'[r] = IndexResponse(r, result)
    BY <2>2, RequestTypes
  <2>4. QED
    BY <1>4, <1>5, <2>1, <2>3 DEF IndexResponse, DocType
<1>9. StepOf(r)
  <2>1. UNCHANGED <<setup, store, call>>
    BY DEF Complete
  <2>2. QED
    BY <1>3, <1>6, <1>7, <1>8, <2>1, RequestTypes DEF StepOf
<1>10. Sound(r)'
  <2>1. Typed(r)'
    BY <1>1, <1>2, <1>3, <1>6, <1>7, <1>8 DEF Sound, Typed, At
  <2>2. ContextOK(r)'
    BY <1>1, <1>2, <1>3 DEF Sound, ContextOK, Own
  <2>3. TraceOK(r)'
    BY <1>3 DEF TraceOK
  <2>4. RecordsOK(r)'
    BY <1>3, <1>6, <1>7, <1>8 DEF RecordsOK, At
  <2>5. CallOK(r)'
    BY <1>1, <1>2, <1>3 DEF Sound, CallOK, InChain
  <2>6. OneTraceOf(r)'
    BY <1>6 DEF OneTraceOf
  <2>7. QED
    BY <2>1, <2>2, <2>3, <2>4, <2>5, <2>6 DEF Sound
<1>11. QED
  BY <1>9, <1>10, Frame

\* A document is on its way from the end of the handler, whose outcome it tells.
LEMMA IndexStep ==
  ASSUME PipelineInv, NEW r \in Requests, NEW state \in {"indexed", "lost"}, Index(r, state)
  PROVE  PipelineInv'
<1>1. Sound(r) /\ doc[r] \in DocType /\ doc[r].state = "sent"
  BY OneByOne, RequestTypes DEF Index
<1>2. /\ chain' = chain /\ sdk' = sdk /\ request' = request /\ store' = store /\ call' = call
      /\ span' = span /\ log' = log
  BY DEF Index, setup
<1>3. doc'[r] = [doc[r] EXCEPT !.state = state] /\ doc' = [doc EXCEPT ![r] = doc'[r]]
  BY RequestTypes DEF Index
<1>4. doc'[r] \in DocType /\ doc'[r].status = doc[r].status
  BY <1>1, <1>3 DEF DocType
<1>5. StepOf(r)
  BY <1>2, <1>3, RequestTypes DEF StepOf, Index
<1>6. Sound(r)'
  <2>1. Typed(r)'
    BY <1>1, <1>2, <1>4 DEF Sound, Typed, At
  <2>2. ContextOK(r)'
    BY <1>1, <1>2 DEF Sound, ContextOK, Passed, Own
  <2>3. TraceOK(r)'
    BY <1>1, <1>2 DEF Sound, TraceOK, Passed, Traced
  <2>4. RecordsOK(r)'
    BY <1>1, <1>2, <1>4 DEF Sound, RecordsOK, At
  <2>5. CallOK(r)'
    BY <1>1, <1>2 DEF Sound, CallOK, InChain
  <2>6. OneTraceOf(r)'
    BY <1>1, <1>2 DEF Sound, OneTraceOf, Before
  <2>7. QED
    BY <2>1, <2>2, <2>3, <2>4, <2>5, <2>6 DEF Sound
<1>7. QED
  BY <1>5, <1>6, Frame

LEMMA FinishStep ==
  ASSUME PipelineInv, NEW r \in Requests, NEW status \in Codes, At(r, "sending"),
         Send(r, status)
  PROVE  PipelineInv' /\ request'[r].status = status
<1>1. Sound(r) /\ request[r].pc = "sending" /\ doc[r] \in DocType
  BY OneByOne, RequestTypes DEF At
<1>2. /\ chain' = chain /\ sdk' = sdk /\ call' = call
  BY DEF Send, setup
<1>3. /\ request'[r] = [Fresh EXCEPT !.pc = "done", !.status = status]
      /\ request' = [request EXCEPT ![r] = request'[r]]
      /\ store'[r] = [of |-> None, trace |-> None] /\ store' = [store EXCEPT ![r] = store'[r]]
      /\ span'[r] = NoSpan /\ span' = [span EXCEPT ![r] = span'[r]]
      /\ log'[r] = None /\ log' = [log EXCEPT ![r] = log'[r]]
      /\ doc'[r] = [doc[r] EXCEPT !.status = None] /\ doc' = [doc EXCEPT ![r] = doc'[r]]
  BY RequestTypes DEF Send
<1>4. /\ request'[r] \in RequestType /\ request'[r].pc = "done" /\ request'[r].status = status
      /\ request'[r].trace = Fresh.trace /\ request'[r].active = Fresh.active
  BY <1>3, Records DEF RequestType
<1>5. request'[r].trace = None /\ request'[r].active = None
  BY <1>4 DEF Fresh
<1>6. doc'[r] \in DocType
  BY <1>1, <1>3 DEF DocType, Codes
<1>7. StepOf(r)
  <2>1. UNCHANGED setup
    BY DEF Send
  <2>2. QED
    BY <1>2, <1>3, <2>1, RequestTypes DEF StepOf
<1>8. span'[r].state = "none"
  BY <1>3 DEF NoSpan
<1>9. Sound(r)'
  <2>1. Typed(r)'
    BY <1>1, <1>2, <1>3, <1>4, <1>6, Records DEF Sound, Typed, At, Codes
  <2>2. ContextOK(r)'
    BY <1>3, <1>4, <1>5 DEF ContextOK, Own
  <2>3. TraceOK(r)'
    BY <1>4 DEF TraceOK
  <2>4. RecordsOK(r)'
    BY <1>4 DEF RecordsOK, At
  <2>5. CallOK(r)'
    BY <1>1, <1>2, <1>4 DEF Sound, CallOK, InChain
  <2>6. OneTraceOf(r)'
    BY <1>8 DEF OneTraceOf
  <2>7. QED
    BY <2>1, <2>2, <2>3, <2>4, <2>5, <2>6 DEF Sound
<1>10. QED
  BY <1>4, <1>7, <1>9, Frame

LEMMA RespondStep ==
  ASSUME PipelineInv, NEW r \in Requests, Respond(r)
  PROVE  /\ PipelineInv'
         /\ ~request[r].early => request'[r].status = Answer(request[r].result)
<1> DEFINE status == IF request[r].early THEN request[r].status ELSE Answer(request[r].result)
<1>1. Sound(r) /\ request[r] \in RequestType /\ At(r, "sending")
  BY OneByOne, RequestTypes DEF Respond
<1>2. request[r].result \in Results /\ request[r].status \in Codes
  BY <1>1 DEF Sound, RecordsOK, RequestType
<1>3. status \in Codes
  BY <1>2, StatusType DEF Codes
<1>4. Send(r, status)
  BY DEF Respond
<1> HIDE DEF status
<1>5. PipelineInv' /\ request'[r].status = status
  BY <1>1, <1>3, <1>4, FinishStep
<1>6. QED
  BY <1>5 DEF status

--------------------------------------------------------------------------------
LEMMA PipelineStutter ==
  ASSUME PipelineInv, UNCHANGED pipelineVars
  PROVE  PipelineInv'
<1>1. /\ chain' = chain /\ sdk' = sdk /\ request' = request
      /\ store' = store /\ call' = call /\ span' = span /\ log' = log /\ doc' = doc
  BY DEF pipelineVars, setup
<1>2. PipelineTyped'
  BY <1>1 DEF PipelineInv, PipelineTyped, At
<1>3. OneTrace'
  BY <1>1 DEF PipelineInv, OneTrace, Before
<1>4. ASSUME NEW r \in Requests
      PROVE  ContextOK(r)' /\ TraceOK(r)' /\ RecordsOK(r)' /\ CallOK(r)'
  <2>1. ContextOK(r) /\ TraceOK(r) /\ RecordsOK(r) /\ CallOK(r)
    BY DEF PipelineInv
  <2>2. ContextOK(r)'
    BY <1>1, <2>1 DEF ContextOK, Passed, Own
  <2>3. TraceOK(r)'
    BY <1>1, <2>1 DEF TraceOK, Passed, Traced
  <2>4. RecordsOK(r)'
    BY <1>1, <2>1 DEF RecordsOK, At
  <2>5. CallOK(r)'
    BY <1>1, <2>1 DEF CallOK, InChain
  <2>6. QED
    BY <2>2, <2>3, <2>4, <2>5
<1>5. QED
  BY <1>2, <1>3, <1>4 DEF PipelineInv

LEMMA PipelineStep == PipelineInv /\ [PipelineNext]_pipelineVars => PipelineInv'
<1> SUFFICES ASSUME PipelineInv, [PipelineNext]_pipelineVars PROVE PipelineInv'
  OBVIOUS
<1>1. CASE UNCHANGED pipelineVars
  BY <1>1, PipelineStutter
<1>2. CASE PipelineNext
  <2> PICK r \in Requests :
        \/ \E path \in Paths, traced \in BOOLEAN : Arrive(r, path, traced)
        \/ GuardsPass(r) \/ EnterTracing(r) \/ EnterHttpClient(r) \/ EnterOther(r)
        \/ SendEarly(r)
        \/ \E result \in Results : GuardsRefuse(r, result) \/ Complete(r, result)
        \/ Respond(r) \/ Fetch(r) \/ Retry(r) \/ FetchEnds(r)
        \/ \E state \in {"indexed", "lost"} : Index(r, state)
    BY <1>2 DEF PipelineNext
  <2>1. CASE \E path \in Paths, traced \in BOOLEAN : Arrive(r, path, traced)
    BY <2>1, ArriveStep
  <2>2. CASE GuardsPass(r)
    BY <2>2, GuardsPassStep
  <2>3. CASE EnterTracing(r)
    BY <2>3, EnterTracingStep
  <2>4. CASE EnterHttpClient(r)
    BY <2>4, EnterHttpClientStep
  <2>5. CASE EnterOther(r)
    BY <2>5, EnterOtherStep
  <2>6. CASE SendEarly(r)
    BY <2>6, SendEarlyStep
  <2>7. CASE \E result \in Results : GuardsRefuse(r, result) \/ Complete(r, result)
    BY <2>7, GuardsRefuseStep, CompleteStep
  <2>8. CASE Respond(r)
    BY <2>8, RespondStep
  <2>9. CASE Fetch(r)
    BY <2>9, FetchStep
  <2>10. CASE Retry(r)
    BY <2>10, RetryStep
  <2>11. CASE FetchEnds(r)
    BY <2>11, FetchEndsStep
  <2>12. CASE \E state \in {"indexed", "lost"} : Index(r, state)
    BY <2>12, IndexStep
  <2>13. QED
    BY <2>1, <2>2, <2>3, <2>4, <2>5, <2>6, <2>7, <2>8, <2>9, <2>10, <2>11, <2>12
<1>3. QED
  BY <1>1, <1>2

\* The inductive invariant, of which the properties are parts.
THEOREM PipelineSafe == PipelineSpec => []PipelineInv
  BY PipelineBegins, PipelineStep, PTL DEF PipelineSpec

\* Every variable has its type, whatever the requests do.
THEOREM TypeCorrect == PipelineSpec => []PipelineTyped
<1>1. PipelineInv => PipelineTyped
  BY DEF PipelineInv
<1>2. QED
  BY <1>1, PipelineSafe, PTL

\* An outgoing call, retried or not, carries the headers and the trace of the request it is
\* made for, however many requests are in flight and whatever the interceptors.
THEOREM OwnHeadersSafe == PipelineSpec => []OwnHeaders
<1>1. PipelineInv => OwnHeaders
  BY DEF PipelineInv, CallOK, OwnHeaders
<1>2. QED
  BY <1>1, PipelineSafe, PTL

\* With tracing before http-client the calls of a handler belong to the trace of its span,
\* if http is instrumented or the caller's trace comes in a header http-client propagates.
THEOREM OneTraceSafe == PipelineSpec => []OneTrace
<1>1. PipelineInv => OneTrace
  BY DEF PipelineInv
<1>2. QED
  BY <1>1, PipelineSafe, PTL

--------------------------------------------------------------------------------
(* What a response tells and what is recorded of it.                           *)

\* Nothing else ends a request.
LEMMA OnlyResponses ==
  ASSUME PipelineInv, NEW r \in Requests, PipelineNext, At(r, "sending"), At(r, "done")'
  PROVE  Respond(r)
<1>1. request[r].pc = "sending" /\ request'[r].pc = "done"
  BY DEF At
<1>2. PICK q \in Requests :
        \/ \E path \in Paths, traced \in BOOLEAN : Arrive(q, path, traced)
        \/ GuardsPass(q) \/ EnterTracing(q) \/ EnterHttpClient(q) \/ EnterOther(q)
        \/ SendEarly(q)
        \/ \E result \in Results : GuardsRefuse(q, result) \/ Complete(q, result)
        \/ Respond(q) \/ Fetch(q) \/ Retry(q) \/ FetchEnds(q)
        \/ \E state \in {"indexed", "lost"} : Index(q, state)
  BY DEF PipelineNext
<1>3. CASE request' = request
  BY <1>1, <1>3
<1>4. CASE request' # request /\ q # r
  <2>1. \E v : request' = [request EXCEPT ![q] = v]
    <3>1. request \in [Requests -> RequestType]
      BY RequestTypes
    <3>2. CASE \E path \in Paths, traced \in BOOLEAN : Arrive(q, path, traced)
      BY <3>2 DEF Arrive
    <3>3. CASE GuardsPass(q)
      BY <3>3 DEF GuardsPass
    <3>4. CASE EnterTracing(q) \/ EnterHttpClient(q) \/ EnterOther(q)
      BY <3>4 DEF EnterTracing, EnterHttpClient, EnterOther, Pass
    <3>5. CASE SendEarly(q)
      BY <3>5 DEF SendEarly
    <3>6. CASE \E result \in Results : GuardsRefuse(q, result) \/ Complete(q, result)
      BY <3>6 DEF GuardsRefuse, Complete, End
    <3>7. CASE Respond(q)
      BY <3>7 DEF Respond, Send
    <3>8. CASE Fetch(q) \/ Retry(q) \/ FetchEnds(q) \/ \E state \in {"indexed", "lost"} : Index(q, state)
      BY <3>8, <1>4 DEF Fetch, Retry, FetchEnds, Index
    <3>9. QED
      BY <1>2, <3>2, <3>3, <3>4, <3>5, <3>6, <3>7, <3>8
  <2>2. request'[r] = request[r]
    BY <1>4, <2>1, RequestTypes
  <2>3. QED
    BY <1>1, <2>2
<1>5. CASE request' # request /\ q = r
  <2>1. ~\E path \in Paths, traced \in BOOLEAN : Arrive(q, path, traced)
    BY <1>1, <1>5 DEF Arrive, At
  <2>2. ~GuardsPass(q)
    BY <1>1, <1>5 DEF GuardsPass, At
  <2>3. ~EnterTracing(q) /\ ~EnterHttpClient(q) /\ ~EnterOther(q)
    BY <1>1, <1>5 DEF EnterTracing, EnterHttpClient, EnterOther, Entering, At
  <2>4. ~SendEarly(q)
    BY <1>1, <1>5 DEF SendEarly, At
  <2>5. ~\E result \in Results : GuardsRefuse(q, result) \/ Complete(q, result)
    BY <1>1, <1>5 DEF GuardsRefuse, Complete, At
  <2>6. ~Fetch(q) /\ ~Retry(q) /\ ~FetchEnds(q) /\ ~\E state \in {"indexed", "lost"} : Index(q, state)
    BY <1>5 DEF Fetch, Retry, FetchEnds, Index
  <2>7. QED
    BY <1>2, <1>5, <2>1, <2>2, <2>3, <2>4, <2>5, <2>6
<1>6. QED
  BY <1>3, <1>4, <1>5

\* Every record of a request tells the status that its client gets, in whatever order the
\* interceptors run and the requests end; the exceptions are those of StatusAgreed.
THEOREM StatusAgreedSafe == PipelineSpec => StatusAgreed
<1> DEFINE Agreed(r) ==
      /\ At(r, "sending") /\ ~request[r].early /\ request[r].result # "circular"
      /\ At(r, "done")'
      => LET sent == request'[r].status
         IN  /\ span[r].state # "none" => span[r].state = "ended" /\ span[r].status = sent
             /\ doc[r].state # "none" => doc[r].status = sent
             /\ log[r] # None /\ request[r].result # "carrying" => log[r] = sent
<1>1. ASSUME PipelineInv, PipelineNext, NEW r \in Requests
      PROVE  Agreed(r)
  <2> SUFFICES ASSUME At(r, "sending"), ~request[r].early, At(r, "done")',
                      request[r].result # "circular"
               PROVE  /\ span[r].state # "none" =>
                            span[r].state = "ended" /\ span[r].status = request'[r].status
                      /\ doc[r].state # "none" => doc[r].status = request'[r].status
                      /\ log[r] # None /\ request[r].result # "carrying" =>
                            log[r] = request'[r].status
    OBVIOUS
  <2>1. Respond(r)
    BY <1>1, OnlyResponses
  <2>2. request'[r].status = Status(request[r].result)
    BY <1>1, <2>1, RespondStep DEF Answer
  <2>3. RecordsOK(r)
    BY <1>1 DEF PipelineInv
  <2>4. request[r].result # "carrying" => LogStatus(request[r].result) = Status(request[r].result)
    BY DEF LogStatus
  <2>5. QED
    BY <2>2, <2>3, <2>4 DEF RecordsOK
<1>2. PipelineInv /\ [PipelineNext]_pipelineVars => [Agreement]_pipelineVars
  BY <1>1 DEF Agreement
<1>3. QED
  BY <1>2, PipelineSafe, PTL DEF PipelineSpec, StatusAgreed
================================================================================
