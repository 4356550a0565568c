\* Calls through every chain of the two middleware values, with either
\* tracer, a breaker that may refuse, and an endpoint that may fail; and
\* the addsvc Sum stack over gRPC and over HTTP, where every layer may refuse.
SPECIFICATION Spec
CONSTANTS
    Trace = Trace
    Breaker = Breaker
    Base = Base
    MaxOthers = 2
    Names = {""}
    DefaultName = "op"
    MaxCalls = 1
    Addsvc = Addsvc
    AddsvcHTTP = AddsvcHTTP
    Handling = Handling
    Stringsvc = Stringsvc
    Routing = Routing
INVARIANTS
    ChainTraversalOrder
    SpanRecordsOutcome
    MiddlewaresSeeOutcome
    SumReturnsServiceError
    StringsvcReturnsServiceError
    RoutesOnlyFromTimelyAnswer
\* A program makes finitely many calls.
CHECK_DEADLOCK FALSE
