------------------------- MODULE TransportPipeline --------------------------
(***************************************************************************)
(* The request paths of the transports, one request (or one call of a     *)
(* client endpoint) at a time:                                             *)
(*   servers: jsonrpc.Server.ServeHTTP (with EndpointCodec.Handle),        *)
(*            grpc.Server.ServeGRPC, nats.Subscriber.ServeMsg,             *)
(*            awslambda.Handler.Invoke;                                    *)
(*   clients: jsonrpc.Client.Endpoint, grpc.Client.Endpoint,               *)
(*            nats.Publisher.Endpoint.                                     *)
(* Each is straight-line code with early returns: a sequence of steps,    *)
(* some of which can fail (a decoder, the endpoint, an encoder, a send),  *)
(* and a failure runs the transport's error path and returns.  Whether a  *)
(* step fails depends on the request, so it is a choice.  A `defer` is a  *)
(* step too: it pushes its call on the stack of deferred calls, which run *)
(* last-in first-out when the function returns.  Requests share no state, *)
(* so one request is the whole state machine; hooks are named, not run.   *)
(***************************************************************************)
EXTENDS Naturals, Sequences, FiniteSets

VARIABLES
    transport,  \* which handler or client endpoint
    cfg,        \* the options it was constructed with, and the request's
                \* reply subject (NATS) and the gRPC metadata set by after
    i,          \* the next step
    log,        \* what the handler has done, in order
    defers,     \* deferred calls, the most recent first
    failed,     \* a step has failed
    done

pvars == <<transport, cfg, i, log, defers, failed, done>>

Servers == {"jsonrpc", "grpc", "nats", "lambda"}
Clients == {"jsonrpcClient", "grpcClient", "natsPublisher"}

\* A step is [name, fallible, onFail, defer]: onFail is what the code does
\* after the step fails and before it returns, defer the call it defers.
Step(name, fallible, onFail) ==
    [name |-> name, fallible |-> fallible, onFail |-> onFail, defer |-> "none"]
Do(name) == Step(name, FALSE, <<>>)
Try(name) == Step(name, TRUE, <<>>)
Defer(call) == [Do("defer") EXCEPT !.defer = call]
DeferIf(b, call) == IF b THEN <<Defer(call)>> ELSE <<>>

\* EndpointCodec.Handle: decode the params, call the endpoint, the after
\* functions, encode; any error is returned to ServeHTTP.
JsonRpcHandleSteps(report) ==
    << Step("decode", TRUE, report),
       Step("endpoint", TRUE, report),
       Do("after"),
       Step("encode", TRUE, report) >>

\* ServeHTTP (jsonrpc): a non-POST request is answered 405 before the
\* finalizer's defer; every later failure is logged and error-encoded.
JsonRpcSteps ==
    LET report == <<"log", "errorEncoder">>
    IN << Step("checkMethod", TRUE, <<"write405">>) >>
       \o DeferIf(cfg.finalizer, "finalizer")
       \o << Do("before"),
             Step("decodeJSON", TRUE, report),
             Do("beforeCodec"),
             Step("lookupMethod", TRUE, report) >>
       \o JsonRpcHandleSteps(report)
       \o << Do("respond") >>

\* ServeGRPC: the error handler sees each failure and the error is
\* returned; the header and trailer are sent only when non-empty.
GrpcSteps ==
    LET report == <<"errorHandler">>
    IN DeferIf(cfg.finalizer, "finalizer")
       \o << Do("before"),
             Step("decode", TRUE, report),
             Step("endpoint", TRUE, report),
             Do("after"),
             Step("encode", TRUE, report) >>
       \o (IF cfg.header THEN <<Step("sendHeader", TRUE, report)>> ELSE <<>>)
       \o (IF cfg.trailer THEN <<Step("setTrailer", TRUE, report)>> ELSE <<>>)
       \o << Do("respond") >>

\* Mutant: the error handler is called only after the reply-subject check.
NatsStepsHandleAfterReplyCheck ==
    LET report == IF cfg.reply THEN <<"errorHandler", "errorEncoder">> ELSE <<>>
    IN << Defer("cancel") >>
       \o DeferIf(cfg.finalizer, "finalizer")
       \o << Do("before"),
             Step("decode", TRUE, report),
             Step("endpoint", TRUE, report),
             Do("after") >>
       \o (IF cfg.reply
           THEN << Step("encode", TRUE, <<"errorHandler", "errorEncoder">>),
                   Do("respond") >>
           ELSE <<>>)

\* ServeMsg (nats): an error is encoded only when the message has a reply
\* subject, and a response is encoded only then.
NatsSteps ==
    LET report == IF cfg.reply THEN <<"errorHandler", "errorEncoder">>
                               ELSE <<"errorHandler">>
    IN << Defer("cancel") >>
       \o DeferIf(cfg.finalizer, "finalizer")
       \o << Do("before"),
             Step("decode", TRUE, report),
             Step("endpoint", TRUE, report),
             Do("after") >>
       \o (IF cfg.reply
           THEN << Step("encode", TRUE, <<"errorHandler", "errorEncoder">>),
                   Do("respond") >>
           ELSE <<>>)

\* Mutant: the after functions run before the endpoint is invoked.
LambdaStepsAfterFirst ==
    LET report == <<"errorHandler", "errorEncoder">>
    IN DeferIf(cfg.finalizer, "finalizer")
       \o << Do("before"),
             Step("decode", TRUE, report),
             Do("after"),
             Step("endpoint", TRUE, report),
             Step("encode", TRUE, report),
             Do("respond") >>

\* Invoke (awslambda): every failure goes to the error handler and its
\* result is what the error encoder returns.
LambdaSteps ==
    LET report == <<"errorHandler", "errorEncoder">>
    IN DeferIf(cfg.finalizer, "finalizer")
       \o << Do("before"),
             Step("decode", TRUE, report),
             Step("endpoint", TRUE, report),
             Do("after"),
             Step("encode", TRUE, report),
             Do("respond") >>

\* Mutant: the body's Close is deferred only once the body is decoded.
JsonRpcClientStepsLateClose ==
    << Defer("cancel") >>
    \o DeferIf(cfg.finalizer, "finalizer")
    \o << Try("encodeParams"), Try("newRequest"), Try("encodeJSON"),
          Do("before"), Try("call"), Do("after"), Try("decodeJSON") >>
    \o DeferIf(~cfg.buffered, "closeBody")
    \o << Try("decode"), Do("respond") >>

\* Client.Endpoint (jsonrpc): the response body is closed by a defer
\* unless the client streams buffered responses.
JsonRpcClientSteps ==
    << Defer("cancel") >>
    \o DeferIf(cfg.finalizer, "finalizer")
    \o << Try("encodeParams"), Try("newRequest"), Try("encodeJSON"),
          Do("before"), Try("call") >>
    \o DeferIf(~cfg.buffered, "closeBody")
    \o << Do("after"), Try("decodeJSON"), Try("decode"), Do("respond") >>

\* Client.Endpoint (grpc): Invoke is the call.
GrpcClientSteps ==
    << Defer("cancel") >>
    \o DeferIf(cfg.finalizer, "finalizer")
    \o << Try("encode"), Do("before"), Try("call"), Do("after"),
          Try("decode"), Do("respond") >>

\* Publisher.Endpoint (nats): RequestWithContext under p.timeout is the
\* call; a publisher has no finalizer.
NatsPublisherSteps ==
    << Defer("cancel"), Try("encode"), Do("before"), Try("call"), Do("after"),
       Try("decode"), Do("respond") >>

Steps ==
    CASE transport = "jsonrpc"       -> JsonRpcSteps
      [] transport = "grpc"          -> GrpcSteps
      [] transport = "nats"          -> NatsSteps
      [] transport = "lambda"        -> LambdaSteps
      [] transport = "jsonrpcClient" -> JsonRpcClientSteps
      [] transport = "grpcClient"    -> GrpcClientSteps
      [] transport = "natsPublisher" -> NatsPublisherSteps

Event(kind, name) == [kind |-> kind, name |-> name]

\* The step succeeds; a defer statement pushes its call.
Pass ==
    /\ ~done
    /\ i <= Len(Steps)
    /\ log' = Append(log, Event("step", Steps[i].name))
    /\ defers' = IF Steps[i].defer = "none" THEN defers
                 ELSE <<Steps[i].defer>> \o defers
    /\ i' = i + 1
    /\ UNCHANGED <<transport, cfg, failed, done>>

\* The step fails: the error path runs and the function returns.
Fail ==
    /\ ~done
    /\ i <= Len(Steps)
    /\ Steps[i].fallible
    /\ log' = log \o <<Event("fail", Steps[i].name)>>
               \o [k \in DOMAIN Steps[i].onFail |-> Event("report", Steps[i].onFail[k])]
    /\ i' = Len(Steps) + 1
    /\ failed' = TRUE
    /\ UNCHANGED <<transport, cfg, defers, done>>

\* The function returns and its deferred calls run, last deferred first.
Return ==
    /\ ~done
    /\ i > Len(Steps)
    /\ log' = log \o [k \in DOMAIN defers |-> Event("deferred", defers[k])]
    /\ defers' = <<>>
    /\ done' = TRUE
    /\ UNCHANGED <<transport, cfg, i, failed>>

\* The constructors and options: finalizers, buffered streaming (jsonrpc
\* client) and, per request, a NATS reply subject and gRPC metadata.
Init ==
    /\ transport \in Servers \cup Clients
    /\ cfg \in [finalizer : BOOLEAN, reply : BOOLEAN, header : BOOLEAN,
                trailer : BOOLEAN, buffered : BOOLEAN]
    /\ transport = "natsPublisher" => ~cfg.finalizer
    /\ i = 1
    /\ log = <<>>
    /\ defers = <<>>
    /\ failed = FALSE
    /\ done = FALSE

Next == Pass \/ Fail \/ Return

Spec == Init /\ [][Next]_pvars

-----------------------------------------------------------------------------
Ran(name) == \E k \in DOMAIN log : log[k] = Event("step", name)
FailedAt(name) == \E k \in DOMAIN log : log[k] = Event("fail", name)
Count(e) == Cardinality({k \in DOMAIN log : log[k] = e})
Position(e) == CHOOSE k \in DOMAIN log : log[k] = e
ErrorReports == {Event("report", "errorHandler"), Event("report", "log")}
Reports == Cardinality({k \in DOMAIN log : log[k] \in ErrorReports})

\* The step whose success the after functions follow.
CallStep == IF transport \in Servers THEN "endpoint" ELSE "call"

\* A finished request either got a response or took the error path, never
\* both and never neither: after a failure nothing is written or returned
\* (a gRPC response already encoded is dropped when sending its header
\* fails) and a server gave the failure to its error handler (the error
\* logger for JSON-RPC) exactly once, except that a non-POST JSON-RPC
\* request is answered 405 without one; a client only returns the error.
\* Without a failure the response was written or returned, unless a NATS
\* message has no reply subject.
OneOutcome ==
    done =>
        /\ failed =>
              /\ ~Ran("respond")
              /\ Reports = IF transport \in Clients \/ FailedAt("checkMethod")
                           THEN 0 ELSE 1
        /\ ~failed =>
              /\ Ran(CallStep)
              /\ Ran("respond") \/ (transport = "nats" /\ ~cfg.reply)

\* The after functions run only once the endpoint (for a client, the
\* remote call) has returned without an error, and before the response is
\* encoded or decoded (ServerAfter's doc comment: "after the endpoint is
\* invoked, but before anything is written"; ClientAfter's: "prior to it
\* being decoded").
AfterOnlyOnSuccess ==
    \A k \in DOMAIN log :
        log[k] = Event("step", "after") =>
            /\ \E j \in 1..(k - 1) : log[j] = Event("step", CallStep)
            /\ \A j \in (k + 1)..Len(log) : log[j] # Event("fail", CallStep)

\* A client call cleans up on every path: once the remote call has
\* answered, the response body of a JSON-RPC client that does not stream
\* is closed exactly once whatever fails next; the finalizer runs after
\* the body is closed and before the call's context is cancelled; and the
\* context is cancelled exactly once, last.
ClientCleanup ==
    done /\ transport \in Clients =>
        LET closed == Event("deferred", "closeBody")
            fin    == Event("deferred", "finalizer")
            cancel == Event("deferred", "cancel")
        IN /\ Count(cancel) = 1
           /\ log[Len(log)] = cancel
           /\ cfg.finalizer => Count(fin) = 1
           /\ transport = "jsonrpcClient" /\ Ran("call") /\ ~cfg.buffered =>
                 /\ Count(closed) = 1
                 /\ cfg.finalizer => Position(closed) < Position(fin)

\* A configured finalizer runs exactly once, as the last thing a server
\* handler does, for every request ("ServerFinalizer is executed at the
\* end of every HTTP request"; likewise for gRPC, NATS and Lambda), the
\* context's cancel aside.
FinalizerRunsOnce ==
    done /\ cfg.finalizer /\ transport \in Servers =>
        /\ Count(Event("deferred", "finalizer")) = 1
        /\ \A k \in DOMAIN log :
              log[k].kind = "step" => k < Position(Event("deferred", "finalizer"))

=============================================================================
