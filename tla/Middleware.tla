----------------------------- MODULE Middleware -----------------------------
(***************************************************************************)
(* Calls through a chain of Go kit endpoint middlewares built with         *)
(* endpoint.Chain (module Chain): the endpoint tracers of                   *)
(* tracing/opencensus and tracing/opentracing ("trace") and                *)
(* circuitbreaker.HandyBreaker ("breaker").  Middlewares names the values  *)
(* a program passes to Chain; a value passed twice is the same closure and *)
(* shares its captured variables, as in Go.                                *)
(*                                                                         *)
(* A call goes down the layers, outermost first: each layer runs the code *)
(* before next(ctx, request), including its defer statements, which push  *)
(* on the layer's frame.  The base endpoint answers or fails; the call    *)
(* then unwinds and every layer runs its frame last-in first-out, with    *)
(* the err its closures see: the named result, set by next.  The tracer   *)
(* and the breaker are the environment: a span records a status until it  *)
(* ends, and the breaker may refuse a call.  Calls are sequential.        *)
(*                                                                         *)
(* Besides the chains, mw may be Addsvc: the Sum method of the addsvc     *)
(* example called over gRPC, the client stack of NewGRPCClient in front of *)
(* the server stack of addendpoint.New, joined by the gRPC hop.  Its base  *)
(* is MakeSumEndpoint, which puts the service's error in the response.    *)
(* AddsvcHTTP is the same Sum over HTTP: NewHTTPClient in front of the     *)
(* handler of NewHTTPHandler, around the same server stack.  Handling is  *)
(* the shipping example's handling service behind MakeHandler: the HTTP    *)
(* server, makeRegisterIncidentEndpoint and the logging service.           *)
(* Stringsvc is the stringsvc example's Uppercase: an HTTP server over a   *)
(* NATS publisher, the subscriber, makeUppercaseEndpoint and the service. *)
(* Routing is the shipping example's routing proxy: proxyService over     *)
(* Hystrix over the HTTP client of the routing service.                    *)
(***************************************************************************)
EXTENDS Naturals, Sequences, SequencesExt

CONSTANTS
    Trace,         \* a TraceEndpoint middleware value
    Breaker,       \* a HandyBreaker middleware value
    Base,          \* the endpoint at the bottom of the chain
    MaxOthers,     \* bound on the others of one Chain call
    Names,         \* what cfg.GetName / cfg.GetOperationName may return
    DefaultName,   \* the name passed to TraceEndpoint
    MaxCalls,
    Addsvc,        \* the addsvc Sum stack over gRPC
    AddsvcHTTP,    \* the addsvc Sum stack over HTTP
    Handling,      \* the shipping handling service behind its HTTP handler
    Stringsvc,     \* the stringsvc Uppercase over HTTP and NATS
    Routing        \* the shipping routing proxy over Hystrix and HTTP

VARIABLES
    mw,        \* the middleware applied to Base (a name or a chain)
    tracer,    \* "opencensus" or "opentracing"
    opName,    \* the tracer closure's captured name / operationName
    calls,     \* calls made so far
    phase,     \* "idle", "down" (before next), "up" (after next returned)
    depth,     \* the layer the call is in; 0 outside the chain
    err,       \* the err result of the current layer
    resp,      \* the Err field of the response (addsvc), "none" if nil
    frames,    \* per layer: the deferred calls, the most recent first
    spans,     \* spans started: [call, asked, name, status, ended]
    reports,   \* per call the breaker let through: [call, outcome, count]
    results,   \* per finished call: [err, resp] it returned
    remote,    \* per call a server answered: [call, err, resp, status]
    served,    \* per call the service ran for: [call, out]
    observed   \* instrumenting/logging records: [call, success]

mvars == <<mw, tracer, opName, calls, phase, depth, err, resp, frames,
           spans, reports, results, remote, served, observed>>

Middlewares == {Trace, Breaker}

C == INSTANCE Chain

\* NewGRPCClient's Sum endpoint: Gobreaker around the limiter around
\* TraceClient around the gRPC client endpoint.
AddsvcClientLayers == <<"gobreaker", "limiter", "traceClient">>

\* addendpoint.New's Sum endpoint (no zipkin tracer): instrumenting around
\* logging around TraceServer around Gobreaker around the limiter.
AddsvcServerLayers ==
    <<"instrumenting", "logging", "traceServer", "gobreaker", "limiter">>

AddsvcLayers == AddsvcClientLayers \o <<"grpc">> \o AddsvcServerLayers

\* NewHTTPClient's Sum endpoint: the same client stack around the HTTP
\* client endpoint.
AddsvcHTTPClientLayers == AddsvcClientLayers

\* NewHTTPHandler serves endpoints.SumEndpoint, the server stack, at /sum.
AddsvcHTTPLayers == AddsvcHTTPClientLayers \o <<"http">> \o AddsvcServerLayers

\* MakeHandler's handler of /handling/v1/incidents over
\* makeRegisterIncidentEndpoint, over the service wrapped by
\* NewLoggingService.
HandlingLayers == <<"handlingHttp", "registerEndpoint", "loggingSvc">>

\* main of the stringsvc example: the /uppercase HTTP handler over the
\* NATS publisher of makeUppercaseHTTPEndpoint, whose subject the
\* subscriber over makeUppercaseEndpoint(stringService{}) serves.
StringsvcLayers == <<"stringHttp", "nats", "uppercaseEndpoint">>

\* NewProxyingMiddleware: proxyService's FetchRoutesEndpoint is
\* makeFetchRoutesEndpoint wrapped in circuitbreaker.Hystrix.
RoutingLayers == <<"proxyService", "hystrix">>

IsAddsvc == mw \in {Addsvc, AddsvcHTTP}

\* The call goes through a chain, not one of the example stacks.
IsChain == mw \notin {Addsvc, AddsvcHTTP, Handling, Stringsvc, Routing}

\* The layers a call passes, outermost first.
Layers == CASE mw = Addsvc     -> AddsvcLayers
            [] mw = AddsvcHTTP -> AddsvcHTTPLayers
            [] mw = Handling   -> HandlingLayers
            [] mw = Stringsvc  -> StringsvcLayers
            [] mw = Routing    -> RoutingLayers
            [] OTHER           -> C!Traversal(C!Apply(mw, Base))

\* A layer below the gRPC or HTTP hop runs in the server; a layer below
\* makeRegisterIncidentEndpoint wraps the handling service.
Side(k) == CASE IsAddsvc /\ k > Len(AddsvcClientLayers) + 1 -> "server"
             [] mw = Handling /\ k > 2                       -> "service"
             [] OTHER                                        -> "client"

MaxDepth == Max({(1 + MaxOthers) * (1 + MaxOthers), Len(AddsvcLayers)})

\* A deferred call on a span or a breaker report (ref), with the err of the
\* moment it was deferred.
Deferred(op, ref) == [op |-> op, ref |-> ref, captured |-> err]

\* Mutant: span.End() is deferred after the status closure.
OcDefersEndFirst(s) == <<Deferred("end", s), Deferred("status", s)>>

\* opencensus: defer span.End(), then defer the status closure; they run
\* in the other order.
OcDefers(s) == <<Deferred("status", s), Deferred("end", s)>>

\* opentracing: defer span.Finish(), then defer the error logger.
OtDefers(s) == <<Deferred("logError", s), Deferred("end", s)>>

\* A call starts at the outermost layer.
Call ==
    /\ phase = "idle"
    /\ calls < MaxCalls
    /\ calls' = calls + 1
    /\ phase' = "down"
    /\ depth' = 0
    /\ err' = "none"
    /\ resp' = "none"
    /\ UNCHANGED <<mw, tracer, opName, frames, spans, reports, results,
                   remote, served, observed>>

\* The name the span gets: GetName's answer, stored in the closure's
\* variable when it is not empty.
TraceName(n) == IF n # "" THEN n ELSE opName

\* What the name hook may answer: addsvc's TraceClient and TraceServer
\* have no hook.
Hooks(k) == IF Layers[k] = Trace THEN Names ELSE {""}

\* TraceEndpoint's closure up to next(ctx, request); TraceServer and
\* TraceClient are TraceEndpoint with a span.kind tag.
TraceDown ==
    LET k == depth + 1
        s == Len(spans) + 1
    IN /\ phase = "down"
       /\ k <= Len(Layers)
       /\ Layers[k] \in {Trace, "traceClient", "traceServer"}
       /\ \E n \in Hooks(k) :
            /\ opName' = TraceName(n)
            /\ spans' = Append(spans, [call |-> calls, side |-> Side(k),
                                       asked |-> n, name |-> TraceName(n),
                                       status |-> "unset", ended |-> 0])
       /\ frames' = [frames EXCEPT ![k] =
                        IF tracer = "opencensus" THEN OcDefers(s) ELSE OtDefers(s)]
       /\ depth' = k
       /\ UNCHANGED <<mw, tracer, calls, phase, err, resp, reports, results,
                      remote, served, observed>>

\* What a breaker runs after next returned: HandyBreaker's deferred
\* Success/Failure; Gobreaker's count inside cb.Execute, then its
\* early return of the zero response when err is not nil.
BreakerDefers(k, r) ==
    IF Layers[k] = Breaker THEN <<Deferred("outcome", r)>>
    ELSE <<Deferred("outcome", r), Deferred("zeroOnErr", r)>>

\* HandyBreaker and Gobreaker: a refused call returns ErrCircuitOpen
\* (ErrOpenState) at once; an allowed one reports its outcome after next.
BreakerDown ==
    LET k == depth + 1
    IN /\ phase = "down"
       /\ k <= Len(Layers)
       /\ Layers[k] \in {Breaker, "gobreaker"}
       /\ \/ /\ err' = "open"
             /\ phase' = "up"
             /\ depth' = k - 1
             /\ UNCHANGED <<frames, reports>>
          \/ /\ reports' = Append(reports, [call |-> calls, side |-> Side(k),
                                             outcome |-> "none", count |-> 0])
             /\ frames' = [frames EXCEPT ![k] = BreakerDefers(k, Len(reports) + 1)]
             /\ depth' = k
             /\ UNCHANGED <<phase, err>>
       /\ UNCHANGED <<mw, tracer, opName, calls, resp, spans, results,
                      remote, served, observed>>

\* ratelimit.NewErroringLimiter: ErrLimited at once when Allow says no,
\* else return next(ctx, request).
LimiterDown ==
    LET k == depth + 1
    IN /\ phase = "down"
       /\ k <= Len(Layers)
       /\ Layers[k] = "limiter"
       /\ \/ /\ err' = "limited"
             /\ phase' = "up"
             /\ depth' = k - 1
          \/ /\ depth' = k
             /\ UNCHANGED <<phase, err>>
       /\ UNCHANGED <<mw, tracer, opName, calls, resp, frames, spans, reports,
                      results, remote, served, observed>>

\* InstrumentingMiddleware and LoggingMiddleware: defer the record of
\* err == nil (the "success" label, the "transport_error" field).
ObserveDown ==
    LET k == depth + 1
    IN /\ phase = "down"
       /\ k <= Len(Layers)
       /\ Layers[k] \in {"instrumenting", "logging"}
       /\ observed' = Append(observed, [call |-> calls, side |-> Side(k),
                                         success |-> "unset"])
       /\ frames' = [frames EXCEPT ![k] = <<Deferred("observe", Len(observed) + 1)>>]
       /\ depth' = k
       /\ UNCHANGED <<mw, tracer, opName, calls, phase, err, resp, spans,
                      reports, results, remote, served>>

\* The handling loggingService: defers the log of its named result err.
LoggingServiceDown ==
    LET k == depth + 1
    IN /\ phase = "down"
       /\ k <= Len(Layers)
       /\ Layers[k] = "loggingSvc"
       /\ observed' = Append(observed, [call |-> calls, side |-> Side(k),
                                         success |-> "unset"])
       /\ frames' = [frames EXCEPT ![k] = <<Deferred("observe", Len(observed) + 1)>>]
       /\ depth' = k
       /\ UNCHANGED <<mw, tracer, opName, calls, phase, err, resp, spans,
                      reports, results, remote, served>>

\* The gRPC client endpoint: encodeGRPCSumRequest cannot fail, and
\* c.client.Invoke either fails before the server ran or reaches
\* grpcServer.Sum, whose ServeGRPC decodes (decodeGRPCSumRequest cannot
\* fail) and calls the server stack.
GrpcDown ==
    LET k == depth + 1
    IN /\ phase = "down"
       /\ k <= Len(Layers)
       /\ Layers[k] = "grpc"
       /\ \/ /\ err' = "transport"
             /\ phase' = "up"
             /\ depth' = k - 1
          \/ /\ depth' = k
             /\ UNCHANGED <<phase, err>>
       /\ UNCHANGED <<mw, tracer, opName, calls, resp, frames, spans, reports,
                      results, remote, served, observed>>

\* The base endpoint of a chain answers or fails.
Endpoint ==
    /\ phase = "down"
    /\ IsChain
    /\ depth = Len(Layers)
    /\ phase' = "up"
    /\ err' \in {"none", "fail"}
    /\ UNCHANGED <<mw, tracer, opName, calls, depth, resp, frames, spans,
                   reports, results, remote, served, observed>>

\* MakeSumEndpoint: the service's error goes in the response, err is nil.
SumEndpoint ==
    /\ phase = "down"
    /\ IsAddsvc
    /\ depth = Len(Layers)
    /\ phase' = "up"
    /\ err' = "none"
    /\ resp' \in {"none", "biz"}
    /\ served' = Append(served, [call |-> calls, out |-> resp'])
    /\ UNCHANGED <<mw, tracer, opName, calls, depth, frames, spans, reports,
                   results, remote, observed>>

\* err2str: the error's message, "" for nil.
Err2Str(e) == IF e = "none" THEN "" ELSE e

\* str2err: nil for "", else errors.New(s).
Str2Err(s) == IF s = "" THEN "none" ELSE s

\* Mutant: the reply's Err field is not decoded.
DecodeSumResponseNoErr(s) == "none"

\* decodeGRPCSumResponse: the response's Err is str2err(reply.Err).
DecodeSumResponse(s) == Str2Err(s)

\* The server stack returned to the gRPC hop.  ServeGRPC returns an
\* endpoint error as it is, which grpc turns into a status error; else
\* encodeGRPCSumResponse puts err2str(response.Err) in the reply.  The
\* answer may be lost on the way back (Invoke fails although the server
\* ran); else the client endpoint decodes the reply and returns it.
GrpcUp ==
    /\ phase = "up"
    /\ depth >= 1
    /\ Layers[depth] = "grpc"
    /\ remote' = Append(remote, [call |-> calls, err |-> err, resp |-> resp])
    /\ \/ /\ err # "none"
          /\ err' = "status"
          /\ resp' = "none"
       \/ /\ err = "none"
          /\ err' = "transport"
          /\ resp' = "none"
       \/ /\ err = "none"
          /\ resp' = DecodeSumResponse(Err2Str(resp))
          /\ UNCHANGED err
    /\ depth' = depth - 1
    /\ UNCHANGED <<mw, tracer, opName, calls, phase, frames, spans, reports,
                   results, served, observed>>

\* The HTTP client endpoint: encodeHTTPGenericRequest JSON-encodes the
\* request (it cannot fail for SumRequest), and the request either fails
\* before the handler ran or reaches the server, which decodes it with
\* decodeHTTPSumRequest and calls the server stack.
HttpDown ==
    LET k == depth + 1
    IN /\ phase = "down"
       /\ k <= Len(Layers)
       /\ Layers[k] = "http"
       /\ \/ /\ err' = "transport"
             /\ phase' = "up"
             /\ depth' = k - 1
          \/ /\ depth' = k
             /\ UNCHANGED <<phase, err>>
       /\ UNCHANGED <<mw, tracer, opName, calls, resp, frames, spans, reports,
                      results, remote, served, observed>>

\* encodeHTTPGenericResponse writes the response as JSON, and on a 200
\* decodeHTTPSumResponse reads it back: the Err of the response the client
\* gets.  SumResponse's Err is tagged json:"-", neither written nor read.
EncodeHTTPGenericResponse(e) == "none"

\* The server stack returned to the HTTP handler.  An endpoint error goes
\* to the server's error encoder (NewHTTPHandler sets none, so not
\* errorEncoder), which answers with a non-200 status, and the client's
\* decodeHTTPSumResponse returns errors.New(r.Status); else the response
\* is encoded with status 200.  The answer may be lost on the way back;
\* else the client decodes the body.
HttpUp ==
    /\ phase = "up"
    /\ depth >= 1
    /\ Layers[depth] = "http"
    /\ remote' = Append(remote, [call |-> calls, err |-> err, resp |-> resp])
    /\ \/ /\ err # "none"
          /\ err' = "status"
          /\ resp' = "none"
       \/ /\ err = "none"
          /\ err' = "transport"
          /\ resp' = "none"
       \/ /\ err = "none"
          /\ resp' = EncodeHTTPGenericResponse(resp)
          /\ UNCHANGED err
    /\ depth' = depth - 1
    /\ UNCHANGED <<mw, tracer, opName, calls, phase, frames, spans, reports,
                   results, served, observed>>

\* The handling service's errors: cargo.ErrUnknown, ErrInvalidArgument,
\* or another (a repository's).
HandlingErrors == {"unknown", "invalid", "other"}

\* encodeError: the status for an error the server's endpoint returned.
EncodeError(e) == CASE e = "unknown" -> 404
                    [] e = "invalid" -> 400
                    [] OTHER         -> 500

\* The handler of MakeHandler: decodeRegisterIncidentRequest fails on a
\* body that is not JSON, and the server's error encoder, encodeError,
\* answers; else the endpoint is called.
HandlingDown ==
    LET k == depth + 1
    IN /\ phase = "down"
       /\ k <= Len(Layers)
       /\ Layers[k] = "handlingHttp"
       /\ \/ /\ err' = "decode"
             /\ remote' = Append(remote, [call |-> calls, err |-> "decode",
                                          resp |-> "none",
                                          status |-> EncodeError("decode")])
             /\ phase' = "up"
             /\ depth' = k - 1
          \/ /\ depth' = k
             /\ UNCHANGED <<phase, err, remote>>
       /\ UNCHANGED <<mw, tracer, opName, calls, resp, frames, spans, reports,
                      results, served, observed>>

\* makeRegisterIncidentEndpoint calls hs.RegisterHandlingEvent.
RegisterIncidentDown ==
    LET k == depth + 1
    IN /\ phase = "down"
       /\ k <= Len(Layers)
       /\ Layers[k] = "registerEndpoint"
       /\ depth' = k
       /\ UNCHANGED <<mw, tracer, opName, calls, phase, err, resp, frames, spans,
                      reports, results, remote, served, observed>>

\* The handling service registers the event or fails.
RegisterHandlingEvent ==
    /\ phase = "down"
    /\ mw = Handling
    /\ depth = Len(Layers)
    /\ phase' = "up"
    /\ err' \in {"none"} \cup HandlingErrors
    /\ served' = Append(served, [call |-> calls, out |-> err'])
    /\ UNCHANGED <<mw, tracer, opName, calls, depth, resp, frames, spans,
                   reports, results, remote, observed>>

\* makeRegisterIncidentEndpoint returns registerIncidentResponse{Err: err}
\* and a nil error.
RegisterIncidentUp ==
    /\ phase = "up"
    /\ depth >= 1
    /\ Layers[depth] = "registerEndpoint"
    /\ resp' = err
    /\ err' = "none"
    /\ depth' = depth - 1
    /\ UNCHANGED <<mw, tracer, opName, calls, phase, frames, spans, reports,
                   results, remote, served, observed>>

\* The endpoint returned to the handler: an error goes to encodeError;
\* else encodeResponse writes the response as JSON with status 200 (its
\* "error" field is there when Err is not nil).
HandlingUp ==
    /\ phase = "up"
    /\ depth >= 1
    /\ Layers[depth] = "handlingHttp"
    /\ remote' = Append(remote, [call |-> calls, err |-> err, resp |-> resp,
                                 status |-> IF err # "none" THEN EncodeError(err)
                                            ELSE 200])
    /\ depth' = depth - 1
    /\ UNCHANGED <<mw, tracer, opName, calls, phase, err, resp, frames, spans,
                   reports, results, served, observed>>

\* The stringsvc example's Uppercase over HTTP and NATS.  A request body
\* that is not JSON fails decodeHTTPRequest and the HTTP server's error
\* encoder answers 500; else the endpoint, a NATS publisher, is called.
StringHttpDown ==
    LET k == depth + 1
    IN /\ phase = "down"
       /\ k <= Len(Layers)
       /\ Layers[k] = "stringHttp"
       /\ \/ /\ err' = "decode"
             /\ remote' = Append(remote, [call |-> calls, err |-> "decode",
                                          resp |-> "none", status |-> 500])
             /\ phase' = "up"
             /\ depth' = k - 1
          \/ /\ depth' = k
             /\ UNCHANGED <<phase, err, remote>>
       /\ UNCHANGED <<mw, tracer, opName, calls, resp, frames, spans, reports,
                      results, served, observed>>

\* The publisher's endpoint: EncodeJSONRequest cannot fail on an
\* uppercaseRequest; RequestWithContext fails when no subscriber takes
\* the message in time, else the subscriber decodes the JSON it was sent
\* and calls makeUppercaseEndpoint.
NatsDown ==
    LET k == depth + 1
    IN /\ phase = "down"
       /\ k <= Len(Layers)
       /\ Layers[k] = "nats"
       /\ \/ /\ err' = "nats"
             /\ phase' = "up"
             /\ depth' = k - 1
          \/ /\ depth' = k
             /\ UNCHANGED <<phase, err>>
       /\ UNCHANGED <<mw, tracer, opName, calls, resp, frames, spans, reports,
                      results, remote, served, observed>>

\* makeUppercaseEndpoint calls svc.Uppercase.
UppercaseDown ==
    LET k == depth + 1
    IN /\ phase = "down"
       /\ k <= Len(Layers)
       /\ Layers[k] = "uppercaseEndpoint"
       /\ depth' = k
       /\ UNCHANGED <<mw, tracer, opName, calls, phase, err, resp, frames, spans,
                      reports, results, remote, served, observed>>

\* stringService.Uppercase: ErrEmpty ("empty") when the request's S is
\* empty, else the upper-cased string.
Uppercase ==
    /\ phase = "down"
    /\ mw = Stringsvc
    /\ depth = Len(Layers)
    /\ phase' = "up"
    /\ err' \in {"none", "empty"}
    /\ served' = Append(served, [call |-> calls, out |-> err'])
    /\ UNCHANGED <<mw, tracer, opName, calls, depth, resp, frames, spans,
                   reports, results, remote, observed>>

\* makeUppercaseEndpoint returns uppercaseResponse{v, err.Error()} or
\* uppercaseResponse{v, ""}, and a nil error.
UppercaseUp ==
    /\ phase = "up"
    /\ depth >= 1
    /\ Layers[depth] = "uppercaseEndpoint"
    /\ resp' = err
    /\ err' = "none"
    /\ depth' = depth - 1
    /\ UNCHANGED <<mw, tracer, opName, calls, phase, frames, spans, reports,
                   results, remote, served, observed>>

\* Mutant: the Err field is left out of the JSON, as json:"-" would.
EncodeUppercaseResponseNoErr(r) == "none"

\* The "err" member of an uppercaseResponse marshalled to JSON: Err,
\* omitted when "" (omitempty), and "" again when decoded.
EncodeUppercaseResponse(r) == r

\* The "err" member of the subscriber's reply: DefaultErrorEncoder's
\* Response{Error: err.Error()} for an endpoint error, else
\* EncodeJSONResponse's uppercaseResponse.
NatsReplyErr(e, r) == IF e # "none" THEN e ELSE EncodeUppercaseResponse(r)

\* The subscriber publishes its reply, and the publisher's decode reads it
\* into an uppercaseResponse; or no reply reaches the publisher before its
\* context times out (a Publish failed, or came late), and
\* RequestWithContext returns the error.
NatsUp ==
    /\ phase = "up"
    /\ depth >= 1
    /\ Layers[depth] = "nats"
    /\ \/ /\ resp' = NatsReplyErr(err, resp)
          /\ err' = "none"
       \/ /\ err' = "nats"
          /\ resp' = "none"
    /\ depth' = depth - 1
    /\ UNCHANGED <<mw, tracer, opName, calls, phase, frames, spans, reports,
                   results, remote, served, observed>>

\* The publisher endpoint returned to the HTTP server: an error goes to
\* its error encoder (500), a response to EncodeJSONResponse (200).
StringHttpUp ==
    /\ phase = "up"
    /\ depth >= 1
    /\ Layers[depth] = "stringHttp"
    /\ remote' = Append(remote,
                    [call |-> calls, err |-> err,
                     resp |-> IF err # "none" THEN "none"
                              ELSE EncodeUppercaseResponse(resp),
                     status |-> IF err # "none" THEN 500 ELSE 200])
    /\ depth' = depth - 1
    /\ UNCHANGED <<mw, tracer, opName, calls, phase, err, resp, frames, spans,
                   reports, results, served, observed>>

\* The shipping routing service's proxy: FetchRoutesForSpecification calls
\* its FetchRoutesEndpoint.
ProxyDown ==
    LET k == depth + 1
    IN /\ phase = "down"
       /\ k <= Len(Layers)
       /\ Layers[k] = "proxyService"
       /\ depth' = k
       /\ UNCHANGED <<mw, tracer, opName, calls, phase, err, resp, frames, spans,
                      reports, results, remote, served, observed>>

\* circuitbreaker.Hystrix: hystrix.Do refuses at once when the command's
\* circuit is open or its concurrency is exhausted (ErrCircuitOpen,
\* ErrMaxConcurrency); else it runs the command, which calls next, in a
\* goroutine of its own.
HystrixDown ==
    LET k == depth + 1
    IN /\ phase = "down"
       /\ k <= Len(Layers)
       /\ Layers[k] = "hystrix"
       /\ \/ /\ err' = "open"
             /\ phase' = "up"
             /\ depth' = k - 1
          \/ /\ depth' = k
             /\ UNCHANGED <<phase, err>>
       /\ UNCHANGED <<mw, tracer, opName, calls, resp, frames, spans, reports,
                      results, remote, served, observed>>

\* makeFetchRoutesEndpoint's HTTP client: encodeFetchRoutesRequest cannot
\* fail; the GET fails, or decodeFetchRoutesResponse fails on its body, or
\* the routing service's paths ("routes", or none) come back.
FetchRoutes ==
    /\ phase = "down"
    /\ mw = Routing
    /\ depth = Len(Layers)
    /\ phase' = "up"
    /\ \/ err' = "http" /\ resp' = "none"
       \/ err' = "none" /\ resp' \in {"none", "routes"}
    /\ served' = Append(served, [call |-> calls, late |-> FALSE,
                                 out |-> IF err' # "none" THEN err' ELSE resp'])
    /\ UNCHANGED <<mw, tracer, opName, calls, depth, frames, spans, reports,
                   results, remote, observed>>

\* hystrix.Do returns the command's err when the command finishes within
\* the command's timeout; else it returns ErrTimeout while the command
\* runs on, and the command later writes the next's response into the
\* named result the middleware is returning: the returned response, read
\* without synchronisation, is the zero value or that late one.
HystrixUp ==
    /\ phase = "up"
    /\ depth >= 1
    /\ Layers[depth] = "hystrix"
    /\ \/ UNCHANGED <<err, resp, served>>
       \/ /\ err' = "timeout"
          /\ resp' \in {"none", resp}
          /\ served' = [served EXCEPT ![Len(served)].late = TRUE]
    /\ depth' = depth - 1
    /\ UNCHANGED <<mw, tracer, opName, calls, phase, frames, spans, reports,
                   results, remote, observed>>

\* Mutant: the paths are read without looking at the endpoint's error.
ItinerariesIgnoreErr(e, r) == r

\* FetchRoutesForSpecification: no itineraries when the endpoint returned
\* an error, else one per path of the response.
Itineraries(e, r) == IF e # "none" THEN "none" ELSE r

\* The proxy returns the itineraries and no error.
ProxyUp ==
    /\ phase = "up"
    /\ depth >= 1
    /\ Layers[depth] = "proxyService"
    /\ resp' = Itineraries(err, resp)
    /\ err' = "none"
    /\ depth' = depth - 1
    /\ UNCHANGED <<mw, tracer, opName, calls, phase, frames, spans, reports,
                   results, remote, served, observed>>

\* Mutant: the deferred call sees err as it was when it was deferred.
SeenErrAtDefer(d, e) == d.captured

\* A deferred closure reads the named result err when it runs.
SeenErr(d, e) == e

\* span.SetStatus / otext.LogError, which a span ignores once it has ended.
SetStatus(sp, st) == IF sp.ended = 0 THEN [sp EXCEPT !.status = st] ELSE sp

\* One deferred call: the status closure, the error logger, End/Finish,
\* the breaker's Success/Failure, Gobreaker's zero response on error, or
\* the instrumenting/logging record.
RunDeferred(acc, d) ==
    LET e == SeenErr(d, err)
    IN CASE d.op = "outcome" ->
            [acc EXCEPT !.reports[d.ref] =
                [@ EXCEPT !.outcome = IF e = "none" THEN "success" ELSE "failure",
                          !.count = @ + 1]]
         [] d.op = "zeroOnErr" ->
            [acc EXCEPT !.resp = IF e = "none" THEN @ ELSE "none"]
         [] d.op = "observe" ->
            [acc EXCEPT !.observed[d.ref].success =
                            IF e = "none" THEN "true" ELSE "false"]
         [] OTHER -> [acc EXCEPT !.spans[d.ref] =
                CASE d.op = "status"   -> SetStatus(@, IF e = "none" THEN "ok" ELSE "error")
                  [] d.op = "logError" -> IF e = "none" THEN @ ELSE SetStatus(@, "error")
                  [] d.op = "end"      -> [@ EXCEPT !.ended = @ + 1]]

\* next returned to layer depth: its deferred calls run, then it returns
\* err to the layer above.
Unwind ==
    LET out == FoldLeft(RunDeferred, [spans |-> spans, reports |-> reports,
                                      resp |-> resp, observed |-> observed],
                        frames[depth])
    IN /\ phase = "up"
       /\ depth >= 1
       /\ Layers[depth] \notin {"grpc", "http", "handlingHttp", "registerEndpoint",
                                 "stringHttp", "nats", "uppercaseEndpoint",
                                 "proxyService", "hystrix"}
       /\ spans' = out.spans
       /\ reports' = out.reports
       /\ resp' = out.resp
       /\ observed' = out.observed
       /\ frames' = [frames EXCEPT ![depth] = <<>>]
       /\ depth' = depth - 1
       /\ UNCHANGED <<mw, tracer, opName, calls, phase, err, results,
                      remote, served>>

\* The outermost layer returned: the call's result is (response, err).
Return ==
    /\ phase = "up"
    /\ depth = 0
    /\ phase' = "idle"
    /\ results' = Append(results, [err |-> err, resp |-> resp])
    /\ UNCHANGED <<mw, tracer, opName, calls, depth, err, resp, frames, spans,
                   reports, remote, served, observed>>

Init ==
    /\ mw \in C!Inputs \cup {Addsvc, AddsvcHTTP, Handling, Stringsvc, Routing}
    /\ tracer \in {"opencensus", "opentracing"}
    /\ ~IsChain => tracer = "opentracing"
    /\ opName = DefaultName
    /\ calls = 0
    /\ phase = "idle"
    /\ depth = 0
    /\ err = "none"
    /\ resp = "none"
    /\ frames = [k \in 1..MaxDepth |-> <<>>]
    /\ spans = <<>>
    /\ reports = <<>>
    /\ results = <<>>
    /\ remote = <<>>
    /\ served = <<>>
    /\ observed = <<>>

Next ==
    \/ Call
    \/ TraceDown \/ BreakerDown \/ LimiterDown \/ ObserveDown \/ LoggingServiceDown
    \/ GrpcDown \/ HttpDown \/ HandlingDown \/ RegisterIncidentDown
    \/ StringHttpDown \/ NatsDown \/ UppercaseDown \/ ProxyDown \/ HystrixDown
    \/ Endpoint \/ SumEndpoint \/ RegisterHandlingEvent \/ Uppercase \/ FetchRoutes
    \/ GrpcUp \/ HttpUp \/ RegisterIncidentUp \/ HandlingUp
    \/ UppercaseUp \/ NatsUp \/ StringHttpUp \/ HystrixUp \/ ProxyUp \/ Unwind
    \/ Return

Spec == Init /\ [][Next]_mvars

-----------------------------------------------------------------------------
\* Requests traverse the middlewares in the order they are declared
\* (endpoint.Chain's doc comment and ExampleChain).
ChainTraversalOrder == IsChain => C!ChainTraversalOrder

\* Set.Sum: the transport error if there is one, else response.Err.
SumErr(r) == IF r.err # "none" THEN r.err ELSE r.resp

\* What the server returned to the gRPC hop for call c.
RemoteOf(c) == remote[CHOOSE j \in DOMAIN remote : remote[j].call = c]

\* What the service returned for call c.
ServedOf(c) == served[CHOOSE j \in DOMAIN served : served[j].call = c]

\* The err returned below a layer of the given side during call c: the
\* call's own err on the client side (layers outside a refusal never see
\* a later one), the server's on the server side, the service's below
\* the handling endpoint.
ErrSeen(c, side) ==
    CASE side = "server"  -> RemoteOf(c).err
      [] side = "service" -> ServedOf(c).out
      [] OTHER            -> results[c].err

\* Every span a finished call started has ended exactly once, and its
\* status says whether the err its endpoint returned was an error (a
\* refusal of a layer below, a transport error, a failed endpoint), for
\* opencensus OK otherwise.  A business error in an addsvc response is
\* not an error to the span.  A status set after End is lost, so this
\* depends on the order of the defers.
SpanRecordsOutcome ==
    \A j \in DOMAIN spans :
        LET sp == spans[j] IN
        sp.call <= Len(results) =>
            /\ sp.ended = 1
            /\ sp.status =
                 IF ErrSeen(sp.call, sp.side) # "none" THEN "error"
                 ELSE IF tracer = "opencensus" THEN "ok" ELSE "unset"

\* Every call a circuit breaker lets through is reported to it exactly
\* once, as a failure exactly when the endpoint below returned an error,
\* and instrumenting and logging record success exactly then: the
\* deferred closures read err when they run, not when they were deferred.
\* Business errors count against neither.
MiddlewaresSeeOutcome ==
    /\ \A j \in DOMAIN reports :
          reports[j].call <= Len(results) =>
            /\ reports[j].count = 1
            /\ reports[j].outcome =
                  IF ErrSeen(reports[j].call, reports[j].side) = "none"
                  THEN "success" ELSE "failure"
    /\ \A j \in DOMAIN observed :
          observed[j].call <= Len(results) =>
            observed[j].success =
                IF ErrSeen(observed[j].call, observed[j].side) = "none"
                THEN "true" ELSE "false"

\* An addsvc client's Sum returns the service's business error exactly
\* when the service failed for this call and its reply came back: the
\* error survives MakeSumEndpoint, the server middlewares, err2str on the
\* server, str2err on the client and the client middlewares, and no
\* refusal or transport error is mistaken for one.
ServiceErrorReaches(m) ==
    mw = m =>
        \A c \in DOMAIN results :
            SumErr(results[c]) = "biz" <=>
                /\ \E j \in DOMAIN served : served[j] = [call |-> c, out |-> "biz"]
                /\ results[c].err = "none"

SumReturnsServiceError == ServiceErrorReaches(Addsvc)

\* The status the handling handler should answer call c with: encodeError's
\* for a business error ("encode errors from business-logic"), else 200.
IntendedStatus(c) ==
    IF ServedOf(c).out = "none" THEN 200 ELSE EncodeError(ServedOf(c).out)

\* A business error reaches an HTTP client as an error: an addsvc Sum call
\* over HTTP returns the service's error as it does over gRPC
\* (SumResponse's comment: its Err, which JSON does not encode, "should be
\* intercepted by Failed/errorEncoder"), and the handling handler answers
\* a failed registration with encodeError's status.
HTTPBusinessErrorReported ==
    /\ ServiceErrorReaches(AddsvcHTTP)
    /\ mw = Handling =>
          \A j \in DOMAIN remote :
              remote[j].err # "decode" =>
                  remote[j].status = IntendedStatus(remote[j].call)

\* A stringsvc client that gets a 200 from /uppercase gets, in the body's
\* "err", the error Uppercase returned for its own request ("" when none):
\* makeUppercaseEndpoint moves the error into the response, the NATS
\* subscriber and the publisher's decode carry it, and the HTTP server
\* encodes it; and no 200 is answered for a request the service never saw.
StringsvcReturnsServiceError ==
    mw = Stringsvc =>
        \A j \in DOMAIN remote :
            remote[j].status = 200 =>
                \E i \in DOMAIN served :
                    served[i] = [call |-> remote[j].call, out |-> remote[j].resp]

\* The routing proxy returns itineraries only for a call whose
\* FetchRoutesEndpoint answered them in time: a response Hystrix abandoned
\* at its timeout, which the late command may still write into the result
\* the middleware returns, is never turned into routes, and a refusal of
\* the circuit or an HTTP failure yields none.
RoutesOnlyFromTimelyAnswer ==
    mw = Routing =>
        \A c \in DOMAIN results :
            results[c].resp = "routes" =>
                \E j \in DOMAIN served :
                    served[j] = [call |-> c, late |-> FALSE, out |-> "routes"]

\* Every span is named for its own call: by what GetName returned for it,
\* or by the name given to TraceEndpoint when that was empty.
SpanNamedForCall ==
    \A j \in DOMAIN spans :
        spans[j].name = IF spans[j].asked # "" THEN spans[j].asked ELSE DefaultName

=============================================================================
