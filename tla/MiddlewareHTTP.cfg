\* One call of the addsvc Sum over HTTP whose service fails with a
\* business error (the chains are checked in middleware_stack).
SPECIFICATION Spec
CONSTANTS
    Trace = Trace
    Breaker = Breaker
    Base = Base
    MaxOthers = 0
    Names = {""}
    DefaultName = "op"
    MaxCalls = 1
    Addsvc = Addsvc
    AddsvcHTTP = AddsvcHTTP
    Handling = Handling
    Stringsvc = Stringsvc
    Routing = Routing
INVARIANT HTTPBusinessErrorReported
CHECK_DEADLOCK FALSE
