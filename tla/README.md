# TLA+ models of kit.go's dynamic endpoint pool

This directory holds TLA+ models of the parts of `a69/kit.go` that have real
concurrency or protocol behaviour, the TLC configurations that check them,
and `PROJECT.json`, which maps every model definition to the source lines it
translates and lists the runs, mutants, findings and hazards.

## 1. Inventory

### Components, their state and operations

| Component | Source | State | Operations |
|---|---|---|---|
| Endpoint cache (`sd.endpointCache`) | `src/unnamed/part_008` | `cache` (instance → endpoint + closer), `endpoints` (sorted snapshot), `err`, `invalidateDeadline`, `options`, an `RWMutex` | `Update(event)` (happy path: `updateCache`; sad path: sticky first error and deadline), `updateCache(instances)`, `Endpoints()` (read-locked fast path, write-locked slow path with re-check and invalidation) |
| Endpointer (`sd.DefaultEndpointer`, `FixedEndpointer`) | `src/sd/endpointer.go` | the cache, the Instancer, the unbuffered channel `ch` | `NewEndpointer` (starts `receive`, registers `ch`), `receive` (one goroutine applying events in order), `Close` (deregister, close `ch`), `Endpoints` |
| Factory | `src/unnamed/part_009` (lines 1–17) | none (user-supplied) | instance → endpoint, closer, error |
| Balancers (`lb.random`, `lb.roundRobin`) | `src/unnamed/part_009`, `src/unnamed/part_010` | random: a shared `*rand.Rand`; round robin: an atomic `uint64` counter | `Endpoint()`: fetch the snapshot, `ErrNoEndpoints` when empty, pick an index |
| Retry executor (`lb.Retry`, `RetryWithCallback`, `RetryError`) | not under `src/` (tests in `src/unnamed/part_010`, consumers in `src/tracing/*/endpoint.go`) | per call: attempt index, error history, one deadline | the retry loop of spec §4.4 |
| Endpoint and middleware chain (`endpoint.Chain`) | `src/endpoint/endpoint.go` | none | compose middlewares, outermost first |
| Endpoint tracers and HandyBreaker | `src/tracing/opencensus/endpoint.go`, `src/tracing/opentracing/endpoint.go`, `src/circuitbreaker/gobreaker.go` | the tracer closure's captured name | start a span, defer its status and end; allow or refuse, defer the outcome report |
| Transport servers (HTTP/JSON-RPC, gRPC, NATS, AWS Lambda) | `src/unnamed/part_002`, `src/transport/grpc/server.go`, `src/unnamed/part_004`, `src/unnamed/part_006` | none across requests | the request pipeline: before hooks, decode, endpoint, after hooks, encode, error handler/encoder, finalizers |
| Transport clients (gRPC, JSON-RPC, NATS, AMQP publishers) | `src/unnamed/part_000`, `src/unnamed/part_002`, `src/transport/nats/publisher.go`, `src/transport/amqp/publisher.go` | AMQP: the reply queue shared by every call | encode, before, deliver, wait for a reply with a matching correlation id or the context deadline, after, decode |
| Middlewares (circuit breakers, rate limiters, basic/JWT auth, tracing) | `src/circuitbreaker/*`, `src/unnamed/part_007`, `src/unnamed/part_011`, `src/unnamed/part_024`, `src/tracing/*`, `src/unnamed/part_021`, `src/unnamed/part_022` | held by external libraries | wrap an endpoint: allow/deny, record success/failure, annotate spans |
| Examples (addsvc, profilesvc, shipping, stringsvc, apigateway) | `src/examples/*`, several `src/unnamed/part_0xx` | application data | demonstration services |

### How the components interact

The Instancer (a discovery source, outside `src/`) sends `Event`s on the
Endpointer's unbuffered channel. One goroutine, `receive`, applies them in
order with `endpointCache.Update`, under the cache's write lock. Many caller
goroutines call `Endpoints()` concurrently. A balancer fetches the snapshot on
every `Endpoint()` call and picks one endpoint. The retry executor asks the
balancer for an endpoint on every attempt, invokes it under one shared
deadline, and aggregates the errors. Endpoints are built by the user's Factory
and released through their `io.Closer`.

### What is hard

* The lock upgrade in `Endpoints()`: the read lock is released before the
  write lock is taken, and `receive` may apply a good event in between; the
  re-check under the write lock is what keeps a reader from invalidating a
  fresh cache.
* `Update` calls the Factory, which may dial a remote service, with the
  write lock held. Every `Endpoints()` caller waits until it is done.
* Time: the invalidation deadline is set once by the first error after a
  good event. Later errors must not move it. A read exactly at the deadline
  invalidates (`Before` is strict).
* Resource lifecycle: every endpoint the Factory built must be closed exactly
  once, when its instance disappears or when the cache is invalidated, and a
  surviving instance must keep its endpoint. The Factory may fail for some
  instances of an event and succeed for others.
* Several readers may pass the deadline at once and all invalidate.
* The snapshot a caller got stays in use after the lock is released, while
  `receive` may close the endpoints in it.
* Balancers are shared by concurrent callers: the round-robin counter is
  atomic and wraps at 2^64; the random balancer's `*rand.Rand` is not safe for
  concurrent use.
* Retry: one deadline for all attempts, the callback's abort and override, and
  deadline errors returned as they are.
* AMQP publisher: every call consumes the shared reply queue and drops the
  deliveries whose correlation id is not its own.

### What makes each component correct

* Cache: answers follow the invalidation policy exactly (§4.1 of the spec).
  Endpoints are closed exactly once and never while cached. Surviving entries
  are stable. The snapshot is in instance order.
* Endpointer: events are applied in order, and nothing is applied after
  `Close`.
* Balancers: `ErrNoEndpoints` exactly when the snapshot is empty. Round robin
  visits every endpoint once per n calls.
* Retry: it stops at the first success, after `max` attempts, or at the
  callback's abort. The history holds every attempt error in order. A deadline
  error is never wrapped.

## 2. Plan

Modules in order of importance (✔ = done):

1. ✔ `EndpointCache` — cache plus `receive`/`Close` plus concurrent
   `Endpoints()` callers. `MCEndpointCache` instantiates it.
2. ✔ `EndpointerAbstract` — what `Endpoints()` promises: the snapshot of the
   last good event, or the first standing error once its grace has passed.
   `EndpointCache` is shown to refine it, with the abstract spec as a
   PROPERTY under a refinement mapping.
3. ✔ Reader blocking, inside `EndpointCache`: a good event's `Update` holds
   the write lock across the Factory calls, as two steps with readers waiting
   in between. Readers do block there, unlike what spec §5 says ("never blocks
   readers"); `EndpointsReturns` checks that every wait ends.
4. ✔ `Balancer` — round robin (counter modulo 2^W, as the code wraps at 2^64) and random
   (the source abstracted to any index), both over an Endpointer answer
   that may change between calls. Round robin's rotation is checked against
   a reference definition. Still open: picking from `EndpointCache`
   snapshots themselves.
5. ✔ `Retry` (spec_modelled) — fixed and callback variants over a `Balancer`,
   with a shared deadline. Properties: attempt bound, history order, no
   wrapping of deadline errors, termination under fairness of the clock.
   Still open: composing with `EndpointCache`, where a caller invokes an
   endpoint from a stale snapshot that has since been closed.
6. ✔ `Chain` — `endpoint.Chain` as a RECURSIVE operator, checked against a
   reference composition over bounded middleware lists.
7. ✔ `TransportPipeline` — the request paths of the JSON-RPC, gRPC, NATS
   and Lambda servers and of the JSON-RPC, gRPC and NATS client endpoints. Properties: one outcome per request,
   after hooks only on success, and finalizers always run once (violated
   for JSON-RPC).
8. ✔ `AmqpPublisher` — concurrent publishers that share a reply queue.
9. ✔ `Middleware` — tracer, circuit-breaker, rate-limiter, instrumenting
   and logging middlewares in a `Chain`, and the addsvc `Sum` stack over
   gRPC: spans, breaker reports and metrics record each call's outcome,
   business errors cross the wire, and the sticky span name (violation).

## 3. What is modelled now

### `EndpointCache` (sd/endpoint_cache, sd/endpointer.go)

State: `cache` is a function from instances (numbers, so that `<` is the sort
order) to endpoint numbers. The Factory numbers endpoints 1, 2, … in creation
order. `endpoints`, `err` and `invalidateDeadline` are the fields of the same
name. `closeCount` counts `Closer.Close` calls per endpoint. The model's
Factory always returns a Closer, as apigateway's `addsvcFactory` (the gRPC
connection) does. The Factories of stringsvc's gateway and of profilesvc's
client return a nil Closer, which `updateCache` skips (`if sc.Closer != nil`).
For them, `closeCount` counts the releases `updateCache` decides on. `options` is
chosen in `Init` from the options a program can set: none (`NoOptions`, the
zero `endpointerOptions`) or `InvalidateOnError(t)` for a timeout `t` in
0..`MaxTimeout`. `registered` is false after `Close`. `pc` and `got` hold
each caller's position in `Endpoints()` and its last answer. `degraded` is a
history variable: the first error since the last good event, and when it
arrived.

Actions:

* `receive` takes an event off the channel and enters `Update`, which takes
  the write lock. A bad event runs the sad path to its deferred `Unlock` in
  the same step: policy off, already in error, or first error. A good event
  is left in `updating` with the lock held.
* `UpdateUnlock` is the rest of a good event's `Update`: the whole
  `updateCache`, then `err = nil` and the deferred `Unlock`. `updateCache`
  sorts, carries over or calls the Factory (which fails at any subset of
  positions), closes the leftovers and swaps in the new map and slice.
  While `updating` is set, `Unlocked` is false and no reader step can run,
  because each one needs the read or the write lock.
* `Close` is `DefaultEndpointer.Close`.
* `EndpointsFast`, `EndpointsUpgrade` and `EndpointsRecheck` are the three
  atomic pieces of `Endpoints()`: the read-locked fast path, the step from
  `RUnlock` to waiting for `Lock`, and the write-locked re-check with
  `updateCache(nil)`.
* `CallerReturns` is the caller finishing with the answer.
* `Tick` advances `timeNow`.

Every other locked region is one step, because nothing else can observe the
state inside it. The good event's `Update` is split because that is where the
code waits on the Factory with the lock held. The open window in
`Endpoints()` is the `upgrading` state. A reader at `idle` is at
`c.mtx.RLock()`.

Fairness: weak fairness of `UpdateUnlock`, because the Factory returns. Each
reader has weak fairness of its locking steps: callers such as a balancer
call `Endpoints()` on every request. Go's `sync.RWMutex` lets waiting readers
in before the next `Lock`, which would justify strong fairness. With
`MaxEvents` bounding the Updates, weak fairness already ends every wait.
Nothing obliges the Instancer to publish or the clock to move.

Properties (run `cache_safety`):

* `ReadsFollowInvalidationPolicy` (action property): every answer is
  `(nil, first error)` exactly when the first error since the last good event
  has stood for the timeout. Otherwise it is the current snapshot, and the
  read changes nothing. This covers the upgrade race, the sticky first error
  and the strict deadline.
* `EndpointLifecycle`: every endpoint built is either cached and never
  closed, or gone from the cache and closed exactly once.
* `SnapshotOrderedByInstance`: the snapshot is the cache in instance order.
* `EntryStability` (action property): a surviving instance keeps its
  endpoint.
* `ImplementsEndpointerAbstract`: `EndpointCache` implements
  `EndpointerAbstract`, the endpointer with no locks in which a read is one
  atomic step. The refinement mapping sends `cache` to the abstract `pool`.
  The standing error is `err` with the time it arrived
  (`invalidateDeadline - timeout`), and a reader in the upgrade window is
  still idle. The endpointer still counts as registered while an `Update`
  is in hand, because `close(de.ch)` stops `receive` only after it. So the
  abstract `Publish` may stop delivery in the same step. This shows that the
  open window between `RUnlock` and `Lock`, and the lock held across the
  Factory calls, are invisible to callers.
* `EndpointsReturns` (liveness): every `Endpoints()` call returns, although
  the Factory runs under the write lock and the slow path drops its read lock
  to wait for the write lock. No path of `Update` or `Endpoints()` keeps the
  lock.

Each property has a mutant in `PROJECT.json` that TLC catches. The mutants
are:

* no re-check after taking the write lock;
* no `delete` of a carried entry;
* no sort;
* always calling the Factory;
* no skip of an instance whose Factory failed, so a nil endpoint enters
  the snapshot (caught by `TypeOK`);
* a non-sticky first error (caught by the refinement);
* the happy path of `Update` returning without releasing the lock
  (`UpdateUnlockNot`, caught by `EndpointsReturns`).

Bounds (`MCEndpointCache.cfg`): 2 instances, 1 error value, 2 readers,
3 events, time 0..2, timeouts 0..2, at most 4 endpoints built. These are
smaller than the bounds of the safety-only run, because liveness checking
keeps the whole behaviour graph. The violation run `cache_duplicate_instances`
keeps 2 errors and 4 events. The event lists are
every order of every set of instances. With these bounds TLC reaches:

* carry-over together with creation and close;
* Factory failure;
* invalidation followed by recovery;
* two readers invalidating one after the other;
* a good event landing inside a reader's upgrade window;
* a second error before the deadline (the same error again);
* readers arriving while the Factory runs under the lock, and `Close` during
  an `Update`;
* reads at, before and after the deadline, with timeout 0.

The run has about 290,000 distinct states and takes about 80 seconds.

Run `cache_duplicate_instances` (expect violation) allows event lists that
name an instance twice, as a `[]string` can. TLC finds `EndpointLifecycle`
violated after one event, `<<1, 1>>`. The Factory is called twice for
instance 1. The first endpoint is overwritten in the map and never closed,
and the snapshot lists the second endpoint twice (finding in `PROJECT.json`).

Run `cache_readers_block_on_factory` (expect violation) checks
`ReadersNeverWaitOnFactory`, the promise of spec section 5 that a slow
Factory "never blocks readers": a caller inside `Endpoints()` always has a
step while `Update` is calling the Factory for a new instance
(`CallingFactory`). One reader, two instances and two events are enough:
TLC's trace is one `receive` of `<<1>>`, after which the caller at
`c.mtx.RLock()` has no enabled step until `UpdateUnlock`. The code calls
the Factory with the write lock held (finding in `PROJECT.json`).
`EndpointsReturns` shows that the wait does end.

The fairness that `EndpointsReturns` needs is described with the actions
above. No safety property depends on it.

### `Balancer` (sd/lb roundrobin.go, random.go)

`Endpoint()` is two steps. `Fetch` is the call to `Endpoints()`, whose
slice the caller keeps. `Pick` is the rest: the two early returns
(`Refuse`), then either the atomic increment of `rr.c` and the index
(`RoundRobinPick`), or `Intn` (`RandomPick`). Other callers and a change
of the Endpointer's answer (`Rediscover`) can come between the two.
`Call` and `Consume` are the caller's side. `rr.c` is kept modulo
2^`CounterBits`. `hist` records the round-robin picks in counter order, and
its length bounds them (`MaxPicks`). The seeded source of `random` is abstracted to a choice of any
index.

The balancer has no property of its own. The rotation is `old % len` on a
counter that no run wraps, so checking it would only restate that line.
The balancer is exercised in run `retry_loop` (below) as the one the
retries pick through.

* The wrap of `rr.c` is kept, but no run reaches it: the pool of
  `retry_loop` has two endpoints, and 2 divides 2^`CounterBits`. With a pool of three
  and a 4-bit counter (2^4 mod 3 = 2^64 mod 3 = 1), the 17th pick would
  repeat endpoint 1. In the code that needs 2^64 calls on one balancer,
  so it is listed as a hazard and not as a run.

### `Retry` (lb.Retry, RetryWithCallback; from spec 4.4)

The retry loop is not under `src/`. It is modelled from the spec, and its
map entries are marked `spec_modelled`. `Retry` extends `Balancer`: the
attempt of caller p uses the balancer steps of p.

* `Begin`: derive the one deadline.
* `LoopHead`: return the bare deadline error once it has passed, else start
  an attempt.
* `Invoke`: a balancer error fails the attempt; otherwise the endpoint is
  invoked.
* `Respond`: the endpoint answers. It may succeed if healthy, fail, or
  return the deadline error once the deadline has passed. It may also
  never answer.
* `Receive`: the call takes the attempt's result. It records an error and
  asks the continuation (`Decisions`: `n < max`, always, or any choice with
  or without an override).
* `Expire`: the deadline fires while the attempt is outstanding. The
  attempt is abandoned but still finishes, and still advances the shared
  counter.

When the attempt and the deadline are both ready, either may be taken, as
in a Go `select`.

Run `retry_loop`:

* Setup: 2 callers, both policies, a pool [1, 2] with 2 healthy that
  discovery may replace by an error, all three continuations, `max` 2,
  3 attempts at most per call, timeout 2, time 0..2. About 620 000
  states.
* `AttemptBudget`: `Retry(max)` never exceeds max attempts. A RetryError
  from it holds exactly max errors. Mutant: `n <= max`.
* `RetryCallReturns` (liveness): every call returns. It holds under weak
  fairness of the clock and of every step of the call and its attempt
  (the Go scheduler runs runnable goroutines, and time passes). There is
  no fairness for `Respond` (an endpoint may hang) or for `Begin` and
  `Rediscover`. Mutant: a `select` without the deadline case.
* `RetryTypeOK`. Mutant: the balancer's error is not checked and the nil
  endpoint is invoked.
* Deadlock is not checked. Each caller makes one call, so the model stops
  once all have returned and the clock is at `MaxTime`.

A violation run records a disagreement with the spec (finding in
`PROJECT.json`):

* `retry_deadline_wrapped`: an endpoint that honours its context fails its
  last allowed attempt with the deadline error, and the loop wraps that
  error in a RetryError. This contradicts spec §7 ("Deadline exceeded: surfaced as-is") and `TestRetryTimeout`.

Concurrent calls share the round-robin counter, so one call can meet the
same failing endpoint twice. Spec 4.4 makes the balancer shared, and
spec 8 promises rotation over consecutive calls, not within one `Retry`
call, so this is allowed and not checked.

### `Chain` (endpoint/endpoint.go)

A middleware is a name, or itself a chain `[outer, others]`, because
`Chain` returns a `Middleware`. `Apply(m, next)` is the endpoint that `m`
returns for `next`. For a chain, the code's reverse loop is `FoldRight` over
`others`, and the result is wrapped in `outer`. `Traversal` is the order in
which a request passes the layers. `Declared` is the reference: the
declaration order, with each nested chain flattened in its place.

`ChainTraversalOrder` is checked in run `middleware_stack` (see
`Middleware`) for every input built from the two middlewares there, with up
to two `others`, at up to two levels of chaining. Mutant: the loop runs
front to back.

### `Middleware` (tracing/*/endpoint.go, circuitbreaker HandyBreaker)

Calls go through an `endpoint.Chain` (module `Chain`) of two middleware
values: `Trace`, a `TraceEndpoint` of opencensus or opentracing (the
`tracer` is chosen in `Init`), and `Breaker`, a `HandyBreaker`. A value
used twice in a chain is one closure, so its captured variables are shared,
as in Go. Calls are sequential.

* `Call`: a call enters the outermost layer.
* `TraceDown`: the tracer's closure up to `next`: the name hook's answer is
  stored in the captured `name`/`operationName` when it is not empty
  (`TraceName`), a span starts, and the layer's frame gets its deferred
  calls (`OcDefers`: `End` then the status closure; `OtDefers`: `Finish`
  then the error logger).
* `BreakerDown`: `Allow` refuses (`ErrCircuitOpen`, the call turns back)
  or lets the call through and defers the report of its outcome.
* `Endpoint`: the base endpoint succeeds or fails.
* `Unwind`: a layer runs its frame last-in first-out (`RunDeferred`). A
  deferred closure reads the named result `err` when it runs (`SeenErr`).
  A span ignores a status set after it ended (`SetStatus`).
* `Return`: the outermost layer returns `err`.

`mw` may also be `Addsvc`: the addsvc example's `Sum` called over gRPC.
Its layers (`AddsvcLayers`) are the client stack of `NewGRPCClient`
(`Gobreaker`, the limiter, `TraceClient`), the gRPC hop, and the server
stack of `addendpoint.New` (instrumenting, logging, `TraceServer`,
`Gobreaker`, the limiter), over `MakeSumEndpoint`. No zipkin tracer is
configured. More actions serve it:

* `LimiterDown`: `NewErroringLimiter` returns `ErrLimited` or calls next.
* `ObserveDown`: instrumenting and logging defer a record of `err == nil`.
* `BreakerDown` also covers `Gobreaker`, whose frame adds the zero
  response it returns on error (`BreakerDefers`).
* `GrpcDown`: `Invoke` fails before the server runs, or the server's
  `grpcServer.Sum` decodes the request and calls the server stack.
* `SumEndpoint`: the service's error goes in `response.Err`; `err` is nil.
* `GrpcUp`: the server's error becomes a gRPC status error; else the
  reply carries `err2str(response.Err)`. The answer may be lost on the
  way back, after the server ran. The client decodes `str2err(reply.Err)`.
* `SumErr` is `Set.Sum`: the transport error, else `response.Err`.

`mw` may also be `AddsvcHTTP`: the same `Sum` over HTTP
(`AddsvcHTTPLayers`). `NewHTTPClient` builds the same client stack, and
`NewHTTPHandler` serves the same server stack at `/sum`.

* `HttpDown`: the request is JSON-encoded and either fails before the
  handler runs or reaches the server stack.
* `HttpUp`: an endpoint error goes to the server's error encoder, which
  answers with a non-200 status, and `decodeHTTPSumResponse` turns the
  status into the client's error. Otherwise the response is written with
  `encodeHTTPGenericResponse` and decoded from JSON
  (`EncodeHTTPGenericResponse`). `SumResponse.Err` is tagged `json:"-"`,
  so the client's response has no `Err`. The answer may also be lost.

The Go kit HTTP transport package (`transport/http`) is not in the
repository. Its server is taken to do what every server transport under
`src/` does: an endpoint error goes to the error encoder, and a response
goes to the response encoder. No transport under `src/` checks
`endpoint.Failer`.

`mw` may also be `Handling`: the shipping example's handling service behind
`MakeHandler` (`HandlingLayers`). The layers are the HTTP handler,
`makeRegisterIncidentEndpoint`, and the service wrapped by
`NewLoggingService`. The service itself is not under `src/`; it succeeds or
fails with `cargo.ErrUnknown`, `ErrInvalidArgument` or another error
(`HandlingErrors`).

* `HandlingDown`: `decodeRegisterIncidentRequest` fails and `encodeError`
  answers 500, or the endpoint is called.
* `RegisterIncidentDown` and `RegisterIncidentUp`: the endpoint calls the
  service and returns its error in `registerIncidentResponse.Err`, with
  a nil error.
* `LoggingServiceDown`: `loggingService` defers a log of its named result
  `err`. It runs below the endpoint, so it sees the service's error
  (side `service`).
* `RegisterHandlingEvent`: the service answers.
* `HandlingUp`: an endpoint error goes to `encodeError` (`EncodeError`:
  404, 400 or 500). Otherwise `encodeResponse` writes the response with
  status 200.

The instrumenting service only counts calls, whatever they return, so it
is not modelled.

`mw` may also be `Stringsvc`: the stringsvc example's `Uppercase`
(`StringsvcLayers`, from `main`). An HTTP server decodes the request and
calls a NATS publisher endpoint. The subscriber on its subject calls
`makeUppercaseEndpoint`, which calls `stringService.Uppercase`.

* `StringHttpDown`: `decodeHTTPRequest` fails and the server's error
  encoder answers 500, or the publisher endpoint is called.
* `NatsDown`: `EncodeJSONRequest` cannot fail on an `uppercaseRequest`.
  `RequestWithContext` fails when no subscriber takes the message in
  time. Otherwise the subscriber decodes the request it was sent.
* `UppercaseDown`, `Uppercase`, `UppercaseUp`: the service returns
  `ErrEmpty` ("empty") for an empty string. The endpoint puts
  `err.Error()` in `uppercaseResponse.Err` and returns a nil error.
* `NatsUp`: the subscriber publishes its reply (`NatsReplyErr`:
  `DefaultErrorEncoder`'s `{"err": ...}` for an endpoint error, else the
  response). The publisher's `decode` reads it into an
  `uppercaseResponse`. Or no reply comes before the publisher's context
  expires, for instance because `Publish` failed, and the call fails.
* `StringHttpUp`: an error goes to the error encoder (500), and a response
  goes to `EncodeJSONResponse` (200). `Err` has the tag
  `json:"err,omitempty"`, so it survives both JSON hops
  (`EncodeUppercaseResponse`).

`mw` may also be `Routing`: the shipping example's routing proxy
(`RoutingLayers`, from `NewProxyingMiddleware`). `proxyService` calls
`makeFetchRoutesEndpoint` wrapped in `circuitbreaker.Hystrix`. The routing
service and the hystrix-go library are the environment.

* `ProxyDown`: `FetchRoutesForSpecification` calls its endpoint.
* `HystrixDown`: `hystrix.Do` refuses at once (open circuit, or too many
  concurrent commands), or runs the command in a goroutine of its own.
* `FetchRoutes`: the HTTP GET fails, or `decodeFetchRoutesResponse` fails,
  or the service's paths come back (some or none). `served` records what
  the endpoint returned, and whether Hystrix had already given up on it
  (`late`).
* `HystrixUp`: `Do` returns the command's error when the command finished
  in time. Otherwise it returns `ErrTimeout` while the command runs on.
  The command then writes `next`'s response into the named result
  `response` that the middleware is returning. That is a data race, so
  the caller gets the zero response or the late one, with `ErrTimeout`.
* `ProxyUp`: `Itineraries`: no itineraries when the endpoint returned an
  error, else one per path. The proxy returns no error.

Spans and breaker reports record their side (client or server of the
hop). A server-side layer sees the server's err (`RemoteOf`), a client
one the call's.

Run `middleware_stack`: every chain of up to 3 middlewares per level at two
levels, both tracers, one call; the addsvc call over gRPC and over HTTP;
the handling registration; stringsvc's Uppercase; and the routing proxy.
About 370 000 states.

* `SpanRecordsOutcome`: every span of a finished call ended exactly once,
  with status error when the call failed (whichever layer refused it), OK
  for opencensus otherwise. Mutant: `End` deferred after the status closure,
  so the status is set on an ended span.
* `MiddlewaresSeeOutcome`: every call a breaker let through is reported
  once, as a failure exactly when the err below it was an error. The
  instrumenting and logging records say success exactly then. So a
  business error counts against neither, and a request the server's
  limiter refused counts against the server's breaker. The handling
  `loggingService` logs the service's error, which the endpoint above it
  turns into a success. Mutant: the
  deferred closure sees `err` as it was at the `defer` statement.
* `SumReturnsServiceError`: `Set.Sum` on the client returns the business
  error exactly when the service failed for this call and the reply came
  back, over gRPC. Mutant: `decodeGRPCSumResponse` leaves out `Err`.
* `StringsvcReturnsServiceError`: every 200 that stringsvc's `/uppercase`
  answers carries, in the body's `err`, what `Uppercase` returned for that
  same request. No 200 is answered for a request the service never saw.
  This holds even when the NATS reply is lost after the service ran.
  Mutant: `Err` is left out of the JSON (`json:"-"`, as in addsvc's
  `SumResponse`).
* `RoutesOnlyFromTimelyAnswer`: the routing proxy returns itineraries only
  for a call whose endpoint answered them before Hystrix's timeout. A
  response that Hystrix abandoned, and that the late command wrote into
  the result anyway, never becomes routes. A refused or failed fetch gives
  none. Mutant: `FetchRoutesForSpecification` reads `response.Paths`
  without looking at `err`.
* `ChainTraversalOrder` (above).

Run `trace_name_sticky` (expect violation) has one tracer, two calls and a
hook that may answer `""` or `"custom"`. `SpanNamedForCall` fails: after a
call named `"custom"`, a call whose hook answers `""` gets a span named
`"custom"` too, because the closure overwrote the variable every call
shares. The opentracing doc says the span is called `operationName`
(finding in `PROJECT.json`). Concurrent calls would also race on the
variable; calls are sequential here.

Run `http_business_error_lost` (expect violation) makes one call through
each stack. `HTTPBusinessErrorReported` says two things. First, an addsvc
call over HTTP returns the business error, as `SumReturnsServiceError`
says over gRPC. Second, the handling handler answers a failed registration
with `encodeError`'s status. Both halves fail. TLC's shortest trace is the
handling one: the registration fails with `ErrUnknown` and the answer is
200. The endpoint put the error in the response, and `encodeResponse`
never checks the `errorer` interface that the file declares. So
`encodeError` ("encode errors from business-logic") is reached only by
decode failures. Over addsvc HTTP, the service returns a business error and
`encodeHTTPGenericResponse` writes `{"v":0}` with status 200. It never
looks at `Failed()`, and `NewHTTPHandler` sets no error encoder, so
`errorEncoder` and `err2code` are never used. The client's `Sum` returns
a nil error. `SumResponse`'s comment says `Err` "should be intercepted by
Failed/errorEncoder" (two findings in `PROJECT.json`).

Not modelled here: attributes, tags and the RetryError messages (data
only), and the state machines of the breaker and limiter libraries
(environment choice: allow or refuse). `Concat` is built like `Sum`. The
Thrift transport of addsvc is not modelled. `str2err` maps an empty
message to nil, as the comment above it says. The addsvc errors all have
messages, and so does the model's business error.

### `AmqpPublisher` (transport/amqp/publisher.go)

One `Publisher` is shared by the callers. Each caller goes through the
steps of a call, then calls again:

* `Start`: the timeout context, encode (which may fail), the before hooks.
* `Publish`: `ch.Publish`, which may fail.
* `Consume`: `ch.Consume` on the reply queue, which may fail.
* `Receive` / `Expire`: the `select` of `DefaultDeliverer`.
* `Finish`: the caller returns and may call again.
* `SendAndForget`: with `SendAndForgetDeliverer` (`deliverer`, chosen in
  `Init` among `Deliverers`, as `PublisherDeliverer` may set it), the call
  publishes, which may fail, and returns with a nil delivery that `dec`
  may reject. `Publish`, `Consume`, `Receive` and `Expire` are the
  `DefaultDeliverer` path.

The remote service (`Reply`) and the broker (`Dispatch`, which hands the
head of the reply queue to any registered consumer) are the environment.
Consumers are never removed, because the code never cancels them. A call's
correlation id is the pair (caller, call number). The random id of 5 to
255 characters is taken to be unique.

Run `amqp_reply_routing`: 2 callers, 2 calls each, timeout 2, time 0..3,
autoAck false (the default), either deliverer. About 1.5 million states.

* `CallsReturn` (liveness): every waiting call returns. It holds under weak
  fairness of the clock and the caller's steps. There is no fairness for
  the service or the broker. Mutant: no `ctx.Done` case.

Run `amqp_stolen_reply` (expect violation) has one caller making two calls.
The second call's reply reaches the queue before its `Consume`, is handed
to the first call's leftover consumer, and the second call times out.
This contradicts the deliverer's doc comment (finding in `PROJECT.json`).

`Endpoint` sets `ReplyTo` whatever the deliverer. With
`SendAndForgetDeliverer`, the service's answers pile up on a reply queue
that nothing consumes. This is listed as a hazard.

### `TransportPipeline` (server handlers and client endpoints)

Covers four server handlers and three client endpoints:
* servers: jsonrpc `ServeHTTP` with `EndpointCodec.Handle`, grpc
  `ServeGRPC`, nats `ServeMsg`, awslambda `Invoke`;
* clients: jsonrpc `Client.Endpoint`, grpc `Client.Endpoint`, nats
  `Publisher.Endpoint`.

Each is straight-line code with early returns, and keeps no state across
requests. So one request or call is modelled, for any transport and any
configuration (`cfg`):
* a finalizer or not;
* JSON-RPC client buffered streaming or not;
* a NATS reply subject or not;
* gRPC header and trailer metadata or not.

`Steps` lists the function's steps in code order. A step is
`[name, fallible, onFail, defer]`:
* `onFail` is the error path the code runs before it returns (error
  handler, error encoder, JSON-RPC's logger, the 405 answer);
* `defer` is the call a `defer` statement registers (cancel, finalizer,
  response body close).

The actions:
* `Pass`: the next step succeeds; a defer pushes its call onto `defers`.
* `Fail`: a fallible step fails; the error path runs.
* `Return`: the deferred calls run, last registered first, as Go runs
  them.

`JsonRpcHandleSteps` (`EndpointCodec.Handle`) is spliced into `ServeHTTP`.
`ServeHTTP` handles its error as one failure.

Run `transport_pipeline` explores every transport, configuration and
failing step (about 3,800 states, which is all of them).

* `OneOutcome`: a finished request either produced a response or took the
  error path, never both and never neither.
  * A server reports a failure once. The exception is JSON-RPC's 405,
    which is reported none.
  * A client only returns the error.
  * A gRPC response that is already encoded is dropped when `SendHeader`
    fails.
  * Mutant: the NATS handler calls the error handler only after the
    reply-subject check.
* `AfterOnlyOnSuccess`: the after hooks run only after the endpoint (for
  a client, the remote call) succeeded. Mutant: Lambda runs the after
  hooks before the endpoint.
* `ClientCleanup`: on every path of a client call, in this order:
  1. the JSON-RPC response body is closed once, when the call answered
     and the client does not stream;
  2. the finalizer runs once;
  3. the context is cancelled once, last.

  Mutant: the body's `Close` is deferred only after the body is decoded.

Run `server_finalizer_skipped` (expect violation) checks
`FinalizerRunsOnce`. A non-POST JSON-RPC request returns 405 before the
finalizer's `defer` is registered, so a configured finalizer never runs.
Yet `ServerFinalizer`'s comment says it runs "at the end of every HTTP
request" (finding in `PROJECT.json`).

Not modelled here: the JSON-RPC `autoIncrementID` request-id generator, an
atomic counter no property depends on.

## 4. Not modelled, and why

* Wire encodings, JSON/protobuf codecs, HTTP header handling and logging
  are pure data conversion with no state across calls.
* Transport-level tracing, zipkin, metrics and logging only annotate;
  their state lives in external libraries. The endpoint tracers are
  modelled in `Middleware`.
* The circuit breakers' and rate limiters' state lives in
  `sony/gobreaker`, `hystrix-go`, `streadway/handy` and `x/time/rate`,
  outside `src/`. The wrappers `HandyBreaker`, `Gobreaker`, `Hystrix` and
  `NewErroringLimiter` are layers of `Middleware`, with the library's
  decision as a free choice. `NewDelayingLimiter` is used by no program
  under `src/`; it is a wait that fails with the context's error, or
  `next`, the same shape as the erroring limiter.
* The basic and JWT auth middlewares (`src/unnamed/part_024`) are used by
  no program under `src/`, only by their tests. Each is one guard in
  front of `next`: parse the credential, then compare hashes (basic) or
  verify a signature and claims (JWT). Those decisions are base64,
  SHA-256 and `golang-jwt` work, with no state across calls. As a layer,
  each would be a refusal like the limiter's, which `Middleware` already
  checks. The casbin middleware's source is not in the repository, only
  its test.
* Examples are demonstration applications. Four call paths of theirs are
  modelled in `Middleware`: addsvc's `Sum` (gRPC and HTTP), shipping's
  incident registration, stringsvc's `Uppercase` (HTTP and NATS) and
  shipping's routing proxy over Hystrix. The
  rest is application data over the same transports and middlewares.
* The profilesvc client (`examples/profilesvc/client/client.go`) builds
  one stack per method: `lb.Retry(3, 500ms)` over `lb.NewRoundRobin` over
  `sd.NewEndpointer`, fed by a Consul Instancer. Each piece is a module
  here: `Retry` over `Balancer`, with an Endpointer whose answers may
  change, and `EndpointCache`. `EndpointCache` refines
  `EndpointerAbstract`. They are not composed into one model, because
  the product of the cache's state and the retry loop's is beyond a
  five-minute TLC run.
* The Instancer and `lb.Retry` are not under `src/`. The Instancer is
  modelled only as the events it sends. `Retry` is modelled from the
  spec and marked `spec_modelled`.
* The data race on the `*rand.Rand` shared by concurrent callers of the
  random balancer is a race inside `math/rand`, outside `src/`. The model
  abstracts `Intn` to any index.
