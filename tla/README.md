# TLA+ models of tresdoce-nestjs-toolkit

The toolkit is a monorepo of NestJS packages (`src/packages/*`). Most of them wrap a library:
they read a configuration, build a client and register a module. What can go wrong over time is
in some of them, where requests, timers, loops and connections meet across `await`s, Redis,
queues and brokers, or where what one step leaves behind decides what a later one does. Those are
modelled here, checked with TLC and, for every value of the constants, proved with TLAPS.

## Running

    tlc -workers 2 -config Serving_safety.cfg ServingMC.tla
    tlapm SnowflakeProofs.tla

`PROJECT.json` lists every run with its module and configuration, the lines of code each
definition stands for (`map`), a plausible bug for every property that makes it fail
(`mutants`, defined just before the definitions they replace and marked *Mutant*), the
theorems, and the hazards of the code with the properties that watch them.

## The system

| Part | State it keeps | Operations | Talks to |
| --- | --- | --- | --- |
| `auth` TokenService | none in memory; keys and index sets in Redis | generateTokens, refreshTokens, revokeRefreshToken, revokeAllForUser | `redis`, JWT |
| `redis` RedisService | the client | set, get, del, exists, ... | Redis |
| `snowflake-uid` | two statics per process | generate, parse, isSnowflake | the clock |
| `aws-sqs` listener | a flag, a background loop per handler | onModuleInit, pollQueue, processMessage, onModuleDestroy | SQS |
| `kafka` ProducerService | the promise of one connection | sendMessages, sendBatchMessages, disconnect | kafkajs, the Avro serializer |
| `kafka` ConsumerService | three flags, the promise of the run | onModuleInit, connect, seek, disconnect | kafkajs consumer and admin |
| `kafka` Avro (de)serializers | schema ids, time of the last refresh | registerSchema, updateSchemas, serialize, deserialize | the registry |
| `core` CSRF middleware and guard | none; two cookies in the browser | csrfToken, canActivate | browsers |
| `core` guards, decorators; `response-parser` | none | authentication, roles, filtering, sorting, pagination, wrapping | - |
| `http-client` | headers bound to the async context | request with retries, header propagation | other services |
| `tracing` | one span context in a singleton | spans of requests and of methods | OpenTelemetry |
| `logger`, `elk`, `filters` | two packages, read once | log, index and answer a request, redact it, translate exceptions | Elasticsearch |
| `core` environment, `health` | none | schemas of the variables, readiness | what is configured |
| `utils` BcryptService, RedactService | rounds and salt; a redactor | hash, validate, obfuscate | bcrypt, fast-redact |
| `mailer` | transports, caches of templates and partials | sendMail | SMTP, template engines |
| `test-utils` | a container singleton, a compose environment | start with retries, stop, set-up, tear-down | Docker |
| `dynamoose`, `camunda`, and the modules of `redis`, `aws-sqs`, `http-client`, `utils` | global settings, a client | register, start, stop | libraries |
| `typeorm`, `database`, `rate-limit`, `qrcode`, `commons`, `archetype`, `paas`, ... | configuration | wrappers and formatting | libraries |

Components meet in few places: TokenService calls RedisService; ProducerService calls the
serializer; the logger redacts with a RedactService of its own; guards, interceptors and filters run around a request and share it, and what one of
them writes (headers, the active span, the status) another one reads. Everything else is separate by construction, so each model has the component and its environment.

What is hard, by component, and the properties that make it correct:

* **Refresh tokens.** Every operation is several Redis commands with no transaction; requests
  interleave between any two, keys expire meanwhile, and a request can break off. A token is
  exchanged at most once and never lives beside its replacement; the index of a user knows every
  live token, lives as long as they do, and is gone when they are.
* **Snowflake ids.** Sequences overflow, the clock is set back, callers give explicit dates,
  several instances share statics. Ids are unique, increase, and can be read back.
* **SQS listener.** Delivery at least once, visibility timeouts, failing handlers and deletes,
  crashes, shutdown without waiting. Nothing unhandled is deleted, a FIFO queue is handled in
  order, loops end after a shutdown and messages are handled in the end.
* **Kafka producer.** Sends share one lazy connection that disconnects take down. A send never
  reuses what is down, and no connection is left that nobody knows of.
* **Kafka consumer.** A start of many steps with retries in parallel and a timer, and a shutdown
  that may overlap with it. Offsets come before the subscription and seeks before readiness; both
  ends come in bounded time; what was started is taken down.
* **Avro.** One registration of all topics is shared by the first sends and settles at its first
  failure; later ones are repeated by any send that finds its ids old. A send fails only for
  causes of its own, uses ids the registry knows, and can be read at the other end.
* **Requests.** Four interceptors and a filter treat each request, in an order that the
  application chooses, with shared services and an async context. What goes out for a request
  carries its headers and its trace, and what is recorded of it is what the client got.
* **CSRF session.** Two cookies that expire apart and responses that arrive in any order. The
  guard refuses only for a cause one can name.
* **Parameters of a request.** Filters are a text with commas between filters and between the
  values of one; the last page depends on a total that is a multiple of the size, or zero. What
  the handler reads is what was written, and following the pages gives every item once.
* **Readiness.** Parts are checked at the same time, go down and come back meanwhile, and are
  left out by three different places. An answer speaks for what is configured and not skipped.
* **Passwords.** `generateSalt` changes the cost of a service that all share, while hashes are
  made. What was asked for since the last salt validates.
* **Logs.** What is redacted depends on whether a field is still an object, on the kind of its
  value and on its length. No record shows what is to be hidden.
* **Mails.** Partials are registered file by file, any of which cannot be read, in two places of
  which one knows basenames only. A mail gets each partial it names, also after one that failed.
* **Containers.** An attempt that is repeated may have created its container. A retry takes away
  what its own attempts left, and nothing that is in use; the next tear-down finds the
  environment that is up.
* **Start.** Providers are made at the same time, the settings of dynamoose are global and are
  written once per source, models are made meanwhile. An application that is up is configured
  by the sources it was given.

## The modules

A model keeps every state change, guard, early return and error path of the code it maps, and one
step is the code between two `await`s. Strings, payloads, signatures and log lines are left out;
ids, secrets and topics are model values.

### RefreshTokens, TokenLedger (`auth`, with the commands of `redis`)

Redis is `value`, `life` (TTL of each key), `index` and `indexLife`; a request `r` has `pc[r]`,
the command it awaits, and its locals. Each command is an action that executes it atomically,
with the code up to the next `await`: `GenerateSet`, `GenerateSAdd`, `GenerateExpire` are
`generateTokens`; `RefreshGet`, `RefreshDel`, `RefreshSRem` lead into them; and so on. The DELs
of `revokeAllForUser` are sent together (`Promise.all`), so they run in any order, and go on if
another one is rejected. `Tick` is the clock of Redis, `Fail` a rejected command or a dead
process. History variables say what a token was exchanged for, what SMEMBERS gave a global
logout (`found`), which live tokens an index has dropped (`lost`) and what a global logout had to
reach. When a global logout deletes the index, `lost` takes the live members that are not in its
`found`, and no others.

`TokenLedger` is the promise without Redis: a token is born once, dies for good, and is granted
by a login or replaces one token of the same user. `ImplementsLedger` is the refinement: `status`
is read from `value` and `life`, and a token is *owed* from its DEL to the SETEX of its
replacement, which is where a refresh that breaks off forfeits it.

### Snowflake (`snowflake-uid`)

`last` and `sequence` are the statics, per process; `generate` is synchronous, so it is one
action, except that an overflow waits (`Wait`, `Spin`) while the clock and the other processes go
on. An id is the number the shifts build, with the widths as constants, so that TLC overflows
them early. `Tick`, `StepBack` and `Restart` are the environment. With `Steady` a restart loses
nothing that matters: the clock has caught up with the last id, and neither the clock nor an
explicit date goes back behind the start of a process. The code cannot check this, since its
state is in memory: it is what uniqueness needs from the deployment, and `UniqueIds` shows nothing
of a restart that breaks it.

### SqsListener, AtLeastOnce (`aws-sqs`)

The loops of a queue, over the queue itself: `pc` and `batch` per loop, `isListening` per
replica. The code receives one message at a time (`MaxNumberOfMessages`) but the loop over a
batch is modelled for any size: the order on a FIFO queue depends on that default. SQS is
external: messages become visible again (`VisibilityTimeout`), a FIFO queue with one group
delivers a message once the earlier ones are deleted, any request fails; `ordered` says which
kind the queue is, so that one run has both. `AtLeastOnce` is
the promise; `ImplementsAtLeastOnce` maps `removed` to `deleted`.

### KafkaProducer, KafkaConsumer (`kafka`)

The services are modelled in full where they hold state; kafkajs is external, by what its own
states do. The producer's `connection` holds a promise, so the model names it by the send that
made it: a catch or a DISCONNECT listener that clears a newer promise than its own is then a
reachable step. The consumer has one action per `await` of `onModuleInit` and `disconnect`;
`task[t]` is where topic `t` is within `withRetry`, for its offsets and then for its seek.
Assumed of kafkajs: `run` resolves when the consumer has joined or was stopped; a crash
disconnects the consumer, with or without a restart; `seek` throws after a stop. Only topics with
a subscription are sought (`Seeks \subseteq Topics`): for any other topic of `options.seek`,
`seekTopic` fetches the offsets once more, with retries of its own (`consumer.service.ts`, lines
371 and 372), which is left out.

### AvroSerializer (`kafka`)

The owner of a registration is a topic, for the ones `initializeSchemas` makes, or the send that
found its ids old; `at[o]` is the request to the registry that it awaits. `LatestValue` stores
the ids with their time and, as the continuation is synchronous, lets the send go on with them.
The registry is external: a subject has a latest id that registering raises. What a message holds
matters only where it is encoded, so no variable keeps it: `Wire` and `Deserialize` are operators
over all messages and `RoundTrip` relates them. A plain value is taken for text that is neither
JSON nor starts like an encoded field.

### RequestPipeline (`http-client`, `tracing`, `logger`, `elk`, `filters`, `utils`)

`chain` is the order of the interceptors, `sdk` what `otelProvider` could set up. A request is at
the guards, at an interceptor (`EnterTracing`, `EnterHttpClient`, `EnterOther`), in its handler,
and on its way back (`Complete`, in one step, as the `tap`s and the filter of an outcome run
synchronously). `store[r]` is what `AsyncLocalStorage` holds in the context of `r`, and a header
is modelled by the request it came with, so that a mixture is seen. What http-client propagates by
default are two trace headers (`uber-trace-id`, `x-amzn-trace-id`); others are configured. Nest, express, axios and the instrumentation of
http by OpenTelemetry are external. `spanContext`, a field of a singleton that every request
overwrites, is left out since nothing in the packages reads it. A caller's trace comes in a header that http-client
propagates: `Arrive` assumes it. For a caller that sends a lone `traceparent` or `b3`, the
README of `tracing` (lines 254 and 255) lets the interceptor continue that trace, which without the
instrumentation of http goes no further, as http-client does not pass it on; `OneTrace` says
nothing of it.

### CsrfSession (`core`)

The server is stateless: what matters is the browser's two cookies, each with the ticks it has
left, and the requests in flight, which carry what the jar held when they left. `CreateSecret` is
the middleware for a request that brings no secret, `KeepSecret` for one that does, both with the
guard or the handler that follows in the same turn. The browser (`Send`, `Receive`, `Lose`,
`Tick`, `Move`) is external. The middleware is always configured: the 500 that the guard
answers without it (`csrf.guard.ts`, lines 49 to 53) is left out.

### Clients, Core and Serving

The modules below are small, and neither share state with each other nor with the producer or
the session. Three modules put parts together as disjoint sums: `Clients` (`KafkaProducer`, `Mailer`,
`TestContainers`, `DockerCompose`, `Startup`), `Core` (`CsrfSession`, `QueryParams`,
`Readiness`, `PasswordHash`, `LogRecords`) and `Serving` (`Snowflake`, `RequestPipeline`). The
disjunct of `SumInit` chooses the part; the variables of the others stay `"off"`, and the producer,
the session and both parts of `Serving`, which these modules extend, stay as they begin. A step is a step of that part. Since no action of a part reads
a variable of another, every behaviour of a part is a behaviour of the sum and the other way
round, and the product, which would only interleave them, shows nothing more.
`SumIsProducer` and `SumIsSession` prove this for the parts that are extended. One run of a sum
answers for all its parts, whose properties it names with the part they are about.

### Mailer (`mailer`)

`Construct` is the constructor of `MailerService`, `SendMail` looks the transporter up, and the
plugin that nodemailer runs is `SkipTemplate`, `PugCompile`, `EjsCompile` or, for handlebars,
`Compile`. `HandlebarsAdapter.compile` is synchronous, so it is one action, whose choice is where
it fails: at the template, at the n-th partial, or when it renders. The four variables
`precompiled`, `partials`, `registered` and `global` are its caches, and what a mail named is
looked up in them in the order handlebars does (`Resolved`). Files are pairs of a directory and a
basename; what they hold is left out.

### TestContainers, DockerCompose (`test-utils`)

`TestContainers` is `TestContainersTD` with `retryOnTransientDockerError`: `attempt` numbers the
attempts of an instance over all its starts, and a container in `daemon` remembers the attempt that
made it. `options[i]` has a name or none, `reuse`, and what else tells containers apart. With
`reuse` an attempt takes the container that has its name, if that was made with the same options
(`Reusable`): so do the `TC*Options` of the package, all of which have a fixed name and reuse.
Otherwise the name is in its way (`NameTaken`), as is a container that cannot be started.
`AttemptBreaks` is a transient error before or after the daemon created, or started, the
container; then `RemoveContainerByName` (if it has a name of its own) and `Retry` follow, and
the removal finds what the daemon lists, which is what runs. `Stop` removes the container that
the instance holds, also if others reuse it.
`DockerCompose` is the set-up and tear-down of `globalTestContainersTD`, with the module's
variable and the one of `globalThis`; `Reload` is Vitest, which evaluates the module again.
Tear-downs do not overlap (the guard of `closing`). Docker and the library are external.

### Startup (`dynamoose`, `camunda`, and the modules of `redis`, `aws-sqs`, `http-client`, `utils`)

`setup` is one registration of one module; `ResolveOptions` follows `createAsyncOptionsProvider`
and `createAsyncProviders` of it, each with its own order. `Initialization` and `AddLogger` are
the two halves of the initialization of dynamoose, around the `await` of its logger, once per
source: `config.dynamodb`, which every `DynamooseModule` reads, and the options of `forRoot`.
`CreateModel` is a model, `RedisConnect`, `RedisGivesUp` and `OnModuleDestroy` the life of the
client of Redis, `Listen` and `CloseCamunda` the subscriptions of Camunda. The container of Nest is
external: it makes the providers concurrently, each after those it injects. Most ways of
registration and the life of the client of Redis are there because the code has these paths, and
were compared with it by hand: `UpAsConfigured` is about dynamoose and Camunda, and no property
depends on the others.

### QueryParams (`core`, `auth`, `response-parser`)

One request goes through `Authenticate` (JwtAuthGuard), `Guard` (RolesGuard), `ReadParams`
(FilteringParams, Sorting, Pagination) and `Respond` (calculatePagination, ResponseInterceptor).
`Scan` is one character of `parseFilters`, over texts whose words are single tokens, and `Scanned`
its loop; `ReadAsWritten` compares it with the list the text was written from. `Init` enumerates requests
in which one of the route, the filters, the sorts or the page is free at a time, since the code
reads each of them alone. The properties are about filters and pages; none depends on the roles,
the sorting or the response, which are translated as operators that nothing is claimed of.

### Readiness (`core`, `health`)

`Accepts` is the schema, Zod's or Joi's, by the kinds of variables; `Check` starts the checks of
`ReadinessController` at once, `Ping` is the answer of one of them, `Answer` what terminus makes
of them, `Change` a part that goes down or comes back. `asked` is what the code checks, whereas
`Concerned` says, without the helpers of the code, what it should check.

### PasswordHash, LogRecords (`utils`, `logger`)

`GenerateSalt` is synchronous; `Encrypt` hands the rounds to bcrypt when it is called and ends at
`Encrypted`. `LogRecords` has a call of the logger with its positional parameters (`LogFn`) or the
two records of a request (`LogRequest`). A text is its length and how many characters of it are
shown, which is all that `obfuscateValue` changes.

## The runs

| Run | Question | Bounds |
| --- | --- | --- |
| `tokens` | Rotation, the index, the ledger, with expiry and faults; does an index without live tokens go away? | 1 user, 3 tokens, 3 requests, TTL 2, fairness |
| `tokens_revoke_all` | *violation*: does a global logout revoke everything? | 1 user, 1 token, 3 requests |
| `serving` | Uniqueness, order and decoding of ids; headers, traces and recorded statuses of concurrent requests | 3 instances, 2 processes, 2 ids per ms, clock to 2; 2 requests, 2 orders of the interceptors, 3 kinds of path, 1 retry |
| `snowflake_range` | *violation*: is state untouched by a date out of range? | 4 ids per ms, dates beyond the range |
| `sqs` | FIFO order, nothing unhandled deleted, late calls; drains; delivery | 2 messages, 2 loops, 2 replicas, both kinds of queue, crashes, fairness |
| `clients` | Sharing and closing of the connection of the producer; partials of mails; leftovers of containers; the environment that is up; the configuration of a start | 4 sends, 2 disconnects, faults; 3 mails, 3 partials (2 with the same basename), 2 templates; 2 instances, a start of 3 attempts each, without a name, or with one and with or without reuse of 2 kinds; 3 set-ups; 2 models, 2 topics, all registrations |
| `test_leftover` | *violation*: does a retry remove what was half created? | as `clients` |
| `producer_destroy` | *violation*: is the connection closed on destroy? | 1 send, 1 disconnect, no faults |
| `consumer_life` | Order of the start, teardown, both end | 2 topics (1 seeks), 2 attempts, 2 disconnects, fairness |
| `consumer_crash` | *violation*: is isConsumerConnected true of a connected consumer? | 1 topic, 1 disconnect |
| `avro` | Causes of a failed send, the ids in use, decoding, every send ends | 2 sends, 2 topics (1 without a key schema) and one not configured, 2 ids per subject, ids old after a tick, fairness |
| `core` | Causes of a refusal, loss of a session; filters as written, pages; readiness; hashes; redaction | 2 requests in flight, 3 secrets, 2 addresses, MaxAge 2; 2 filters of 3 values, 7 items, sizes 1 to 3 and at the limit; 4 configurations, 1 service, 2 parts that change; 2 hashes, 3 salts; texts of 1 and 3 characters, censors of 0 and 2 and none |

Why the bounds are enough to see something: two requests on one token with a third that revokes
all are the largest conflict of the token code; the operations of different users share no key,
as the theorems, which hold for any number of users, confirm. A TTL of two lets an index be
renewed half way and run out between two commands. Two ids per millisecond overflow twice within
the clock's range, and three instances give two that share statics and one that does not. Two
messages let a FIFO queue go wrong behind one that failed, and two replicas let one crash while
the other is shut down. Four sends make a connect that fails while a second one is pending and
others wait for each. Three mails are one that fails half way, one that ends the registration and one
that uses it. Three attempts let a leftover be removed between two others; two instances share a
name, with a container that both may reuse or one that only its owner may. Three set-ups let two environments stand beside each other and a third come after. Two filters of three values put each kind of comma before each other; totals
up to seven are multiples of each size, one less and one more. Two topics let one exhaust its attempts while the other goes on. Two sends
beside the initialization are three registrations, two of which can meet at one topic with a
newer schema between their requests. Three secrets let a race be followed by an expiry and a
recovery. Two requests are enough to mix one's data with another's, and two orders of the
interceptors put tracing before and after http-client. The mutants show that each property can
fail within these bounds.

No run checks a type invariant: each module that has state of its own over time has one that is
proved for every value of the constants, and the eight parts of the sums that are added to the
producer and the session have their types in the inductive invariants where a proof needs them.
Symmetry is declared over interchangeable model values, in runs without liveness only.
Deadlock is not checked: every run bounds the calls (or ids, or messages), so the system may stop
when they are used up.

### Fairness

* `RefreshTokens`: a command that was sent is answered, and the clock of Redis does not stop.
  No client need call and nothing need fail. `IndexCleared` excepts a request that broke off with
  a token it had already stored (`FailedToIssue`), since one that does so between SADD and EXPIRE
  may leave the index for good (below).
* `SqsListener`: `Progress` is weak fairness of each loop, which runs on timers and awaited
  requests, and of visibility timeouts. `Drains` needs no more, so it holds even if every request
  fails for ever. `Delivered` has `Success` as its hypothesis: for each message, a delivery, a
  handler and a delete that are tried again and again succeed at last. Without it nobody could
  promise delivery.
* `KafkaConsumer`: kafkajs answers requests, with success or not, timers fire, and a run that has
  joined or was stopped settles. The group need never be joined.
* `AvroSerializer`: the registry answers a request, with success or not (a request that times out
  is rejected), and continuations run.

## What is proved

| Module | Theorems | Assumptions |
| --- | --- | --- |
| `RefreshTokensProofs` | types, SingleUse, Rotated, ImplementsLedger | none |
| | IndexOutlives, Listed, RevokeAllReaches | `TTL > 0` |
| | LeakHasCause, IndexAges | none |
| | Unlisted | `TTL = 0` |
| `SnowflakeProofs` | types, Decodable | none |
| | UniqueIds, Monotonic | `OwnNodes`, `WithinRange`, `Steady` |
| `SqsListenerProofs` | types, LateAtMostOne, ImplementsAtLeastOnce | none |
| | DrainProgress, KeepsPolling | none |
| `ClientsProofs` | types, ReusedIsUp, ConnectShared, KnownUnlessOverlapped of the producer | none |
| | RenderedWithAll, RetryTidy, ComposeKnown, UpAsConfigured | none |
| `KafkaConsumerProofs` | types, Positioned, ClosedUnlessOverlapped | none |
| | StartAwaits, StartProgress, StoppedForGood, DisconnectProgress | none |
| `AvroSerializerProofs` | types, FailsForCause, RoundTrip, NeverOlder | none |
| | SendAwaits, SendProgress | none |
| `RequestPipelineProofs` | types, OwnHeaders, OneTrace (with the assumption of `Arrive`), StatusAgreed | none |
| `CoreProofs` | types, RefusedForCause, KeptUnlessRaced, SecretNotRenewed of the session | none |
| | ReadAsWritten, PagesCover, ReadyForCause, NewHashesValid, SecretsCensored | none |

*None* means beyond the `ASSUME` of the module, which types its constants (and, in `Clients`, says
that a start makes at least one attempt and that constants for "nothing" are told apart; in
`Core`, that the separators of a list of filters occur in no rule and in no value, as a client
that writes one there means something else).

* **Tokens.** SingleUse is not inductive: two refreshes wait with the same token between GET and
  DEL. `ExchangeOK` says what makes that safe: among the requests past their DEL, each has a
  token of its own, which is dead and has no replacement. `RequestOK` ties the locals of a
  request to Redis. The refinement follows from the same invariant, one lemma per command.
  For the index, `IndexingOK` says that a token waiting for its EXPIRE is listed already (or
  dropped), that SREM only meets dead tokens, and that a global logout still has to delete every
  live token it found.
* **Snowflake.** `IssuedOK`: every id of a process lies behind the statics that the next id
  follows, or behind the start of the process. `PackOrder`, on numbers, shows that packing is
  lexicographic; with it an id determines its fields (`IdInjective`) and grows with them
  (`IdOrder`). Decodable needs none of that: it is division by the widths.
* **SQS.** `HandlingOK`: a loop at work holds one message, and on a FIFO queue all the earlier
  ones were handled. `LateOK`: a loop that made a late call will not poll again.
* **Producer.** `PendingOK`: as long as no connect and disconnect have overlapped, a pending
  connect is the connection the service holds.
* **Consumer.** `PhaseOK` is what every topic is at in each phase of the start; `KnownOK` says
  that, without an overlap, the flags know of all that is up.
* **Mails.** `PartialsOK`: the flag is set only when all files are in both registries, so that a
  mail after a failure either registers them again or finds them all. What a basename stands for
  is the last file with it, which exists by a minimum over the positions (`SomeLast`, from
  well-founded induction on the naturals).
* **Containers.** RetryTidy is not inductive: a leftover may be running when the next attempt
  begins unless the listing came between. `LeftoversGone` says, of a start without reuse, what
  is gone by each phase of the retry, `DaemonOK` that a container is of an attempt that was made
  and has its name, `HeldOK` that what an instance holds came from an attempt of its own that ended. `ComposeOK`: what is up is what
  `globalThis` knows, whatever the module does.
* **Start.** `LoggersOK` counts the loggers by how far each source is; `ClientOK` says whose
  the client and the table defaults can be once a source has run.
* **Filters.** The text of a list is a sequence, built by one recursive function (`Texts`) and read
  by another (`Scanned`), so everything is an induction on positions. `Counting` gets that
  induction from the well-founded order of the naturals: the theorem of the library takes an
  operator, but the set of positions where a claim fails has a least one. `WrittenAt` says where a
  filter begins in the text; `FilterRead` that, from the state between two filters, the scan of
  one yields just its tokens and the same state, if `parseFilters` can keep it together; `ReadUpTo`
  goes through the list. For the converse, `LonelyRefused`, `TooManyRefused` and
  `SwallowingRefused` follow the first filter it cannot keep together, and `DoomedRefused` shows
  that what is then in the buffer or among the filters no later character repairs.
  `FiltersOK`, the inductive invariant of the request, is short once that is known: what the
  handler has is what the text of the request reads as.
* **Pages.** `CeilOK` characterises the rounded quotient by two products, from which `PagesFollow`
  says which page a next page exists for and `PagesItems` where an item is. `ReadyForCause` rests
  on `CheckOK`, which relates the checks not yet answered, the report and the two histories.
  `SaltOK` ties the salt to the rounds and each hash to the salts before it. `RecordShown` follows
  one field through redaction and serialization.
* **CSRF.** `MatchedOK`: whatever the jar, a request or a response holds is the secret in the jar
  or one that has left it; `NewOK` and `RacedOK`: two first requests in flight are needed for
  one secret to replace another.
* **Avro.** `OwnerOK` follows what a registration may rely on from one request to the next (a
  subject it looks up is known by then, ids only grow); `SendOK` ties a send to its registration;
  `TopicOK` says that, without an overlap, the one registration at work of a topic has not looked
  up an older key than the one stored.
* **Requests.** `PipelineInv` is about one request at a time, so each action needs a lemma for the
  request that acts and a frame for the others: `ContextOK` (its context holds its own headers
  just from http-client on), `TraceOK` (what tracing injected and http-client captured is the
  trace of its span), `RecordsOK` (span, log and document of the outcome) and `CallOK`.

### What liveness rests on

The prover has no rules for fairness, so that IndexCleared, Drains, Delivered, InitEnds,
DisconnectEnds and Ends are model-checked only. What they rest on apart from fairness is proved
for every value of the constants, in the form of two kinds of facts: nobody waits for what cannot
come (an invariant), and every step counts a measure down that no other step raises (an action
property). TLC's part is then to put these together with the fairness of the actions.

* A start of the consumer has an answer or a delay of some topic to come in each phase with retries
  (`StartAwaits`), and its phases and `StepsLeft` count down (`StartProgress`). A disconnect goes
  forward (`DisconnectProgress`); the one thing it waits for that is not an answer to itself is
  the end of the run, and a consumer that was stopped stays out of its group (`StoppedForGood`,
  even with an overlap), so that nothing keeps `RunResolves` from it. The invariant behind
  it, `RunningOK`: a disconnect stops only what was subscribed, which happens once.
* A loop of a replica that stays shut down counts `StepsLeft` down (`DrainProgress`), since
  a batch has one message; otherwise it never ends, and it can get any message whose turn it is
  (`KeepsPolling`, from `DeliverableReady`, which says what one poll of SQS may return).
* What a send of the serializer waits for is settled or a registration at work (`SendAwaits`);
  sends and registrations only go forward and the initialization stays settled (`SendProgress`).
* An index without a time to live belongs to a request before its EXPIRE or to one that failed
  there (`LeakHasCause`); any other in which no token is being listed is older after every
  second (`IndexAges`). With `TTL = 0` no token that a client holds is listed at all
  (`Unlisted`), which is why the theorems on the index assume a positive TTL.

These facts are in the modules of the proofs. They were checked with TLC on the instances of the
runs before they were proved (`Unlisted` with a TTL of zero) and are in no run, as the theorems
cover those instances.

## What was met on the way

Each of these has a run that ends in the violation and an entry in `findings`:

* A login whose SADD comes between the SMEMBERS and the DEL of a global logout leaves a live token
  that is in no index and that no later global logout finds (`tokens_revoke_all`), whether the
  login is over by then (SETEX, SADD, EXPIRE and its answer can all come in between) or still
  waits for its EXPIRE. `Listed` and `RevokeAllReaches` prove that this window, and an index that
  runs out between a SADD and its EXPIRE, are the only ones.
* A date beyond the 41-bit range throws after the sequence was reset; the millisecond's next id
  repeats one (`snowflake_range`).
* A module destroyed while the first send connects leaves a connected producer
  (`producer_destroy`). `KnownUnlessOverlapped` shows that only such an overlap does.
* `isConsumerConnected` stays true after kafkajs has disconnected a consumer that crashed
  (`consumer_crash`).
* The retry of a start is said to remove the half-created container: "e.g. to remove a
  half-created container" (`docker-retry.ts`, line 15), "Force-removes the container with that
  name, if it exists" (line 51), and in the README of `test-utils`, lines 600 and 601. But
  `removeContainerByName` searches `client.container.list()`, which lists what runs: a container
  that was created and not started stays, and the retry meets its name (`test_leftover`,
  `LeftoverRemoved`). The tests replace `removeContainerByName` by a mock. `RetryTidy` says what
  holds: of its own leftovers none that runs is in the way of a retry that cannot reuse it, and no
  container is removed that an instance holds under a name that no other start uses.

The properties of `AvroSerializer` and `RequestPipeline` hold, with exceptions they name because
the code has them:

* `RoundTrip` excepts an encoded field beside a plain one. The README of `kafka` (line 185) says
  that key and value are independent, and with a schema for the value alone the key is sent as
  is; but the deserializer then fails to decode the key and falls back for both fields, so that the
  value comes as text. It also excepts values that count as false, which an encoded field turns
  into null. (Its line 183 says that the registration starts at construction, in the background;
  the code starts it at the first `serialize`.)
* `NeverOlder` excepts overlapping registrations of a topic: concurrent sends that find the ids
  old do not share one, and the later to end may store the older ids, until the next refresh.
* `OneTrace` needs tracing to be registered before http-client, and `StatusAgreed` excepts a
  response that the handler sent itself, a value that cannot be serialized, and, for the log, an
  error that carries a status of its own, which the logger records while the filter sends 500.

So do those of the parts of `Clients` and `Core`; what they except, or what the models show beside
them, is:

* A filter with `in` or `nin` is read only with exactly two values, or with one if it is the last
  filter: `parseFilters` protects one comma after the rule. With three values the request is
  answered 400, although the README of `core` (line 793) speaks of an array of strings
  separated by commas, and the comment of the function (`filtering.decorator.ts`, lines 63 and 64)
  says that none of its commas divides the text. An `IN` in capitals is
  accepted and then treated like a rule that takes one value.
* The comment of `pagination.decorator.ts` (lines 21 and 47) says that an invalid page or size
  falls back to the default; the code answers 400.
* An empty `@Roles()` on a handler overrides the roles of its class and so opens what the class
  restricts.
* `SKIP_HEALTH_CHECKS` with an empty item is refused by both schemas, though
  `getSkipHealthChecks` drops empty items. Zod takes an empty text for a string and as the number
  0, where Joi refuses both. Services cannot be skipped.
* `error(err, 'text', 'context')` takes `text` for a stack. `redact.serialize` makes `redactLogs`
  throw, so that an error is logged in place of each record; an empty censor hides nothing.
* Every `DynamooseModule` initializes `config.dynamodb` beside its own options, in any order, and
  the last one to write a global setting wins. Models wait for `config.dynamodb` only. A
  registration with `useExisting` and `useClass`, or with no way at all, fails at the start, and so
  does one while Redis is down.
* A start of a container without a name leaves behind what a lost answer created. Of instances
  that share a name, a retry of one removes what another holds, and a stop what others reuse;
  `RetryTidy` excepts both by name.
* A topic of Camunda that is registered by the decorator and by a pattern at once ends `listen`
  before the client starts.

Changing a constant shows more, without a run of its own: with `TTL = 0` a key is stored without
expiry while EXPIRE 0 deletes the index at once; a request that breaks off between SADD and
EXPIRE leaves an index without TTL; two instances of a process with the same node and different
epochs issue equal ids (`OwnNodes` excludes it); a clock set back during an overflow keeps the
process spinning until it has caught up; a consumer module destroyed during its start goes on
starting.

## Not modelled, and the plan

`PROJECT.json` gives the status of each part. Left out for good:

* **Configuration.** `typeorm`, `database`, `rate-limit`, `commons`, `paas`, `config` and the options of
  the modules of `auth`, `elk`, `kafka` hand an object to a library, without a state of their own.
* **Formatting.** QR payloads and images, FormatService, texts of the exceptions and the documents,
  attributes of spans, serializers of dynamoose's models: no step depends on what they compute.
* **One command each.** `exists`, `copy`, `rename`, `incr` and the like of RedisService, the sample service
  of `archetype`, the liveness controller: a model would restate the call.
* **Declarations and I/O.** DTOs and typings, mocks and fixtures, reading of certificates, templates and
  build scripts.
* **A TTL of zero** is in the model of the tokens (`StoredLife`, `GenerateExpire`) but no property speaks
  of it: what EXPIRE 0 does to the index is documented by Redis and promised by nobody here.

What remains, in this order:

1. The composition of `KafkaProducer` and `AvroSerializer`: `Settle` of the producer is a
   serialization that may fail at any time, which covers what the serializer can do to a send (it
   ends, by `Ends`, with success or not). A composition would show that for each send.
2. The dispatch of the consumer: which handler a message of a topic goes to, and what is lost when
   one throws in `eachMessage`, with the commits of kafkajs as the environment. So far the model
   ends where the run begins.
3. A second run of a consumer after a stop, and what `seek` means for it.

Abstract specifications still worth stating: a connection that is open exactly while it is used,
which producer and consumer should both implement up to the overlaps found; and, for the ids of a
topic, a register that only grows, which the serializer implements up to overlaps.
