\* Two successive calls through a tracer whose GetName hook names the
\* first call and leaves the second to the default.
SPECIFICATION Spec
CONSTANTS
    Trace = Trace
    Breaker = Breaker
    Base = Base
    MaxOthers = 0
    Names = {"", "custom"}
    DefaultName = "op"
    MaxCalls = 2
    Addsvc = Addsvc
    AddsvcHTTP = AddsvcHTTP
    Handling = Handling
    Stringsvc = Stringsvc
    Routing = Routing
INVARIANT SpanNamedForCall
CHECK_DEADLOCK FALSE
