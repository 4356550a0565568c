------------------------------- MODULE Retry --------------------------------
(***************************************************************************)
(* The Retry Executor of spec 4.4 (lb.Retry and lb.RetryWithCallback),     *)
(* composed with the balancers of module Balancer.  Each caller makes one  *)
(* call of the retrying endpoint.  The call derives one deadline, then     *)
(* loops: check the deadline, run an attempt (ask the balancer for an      *)
(* endpoint, invoke it), and wait for the attempt or the deadline,         *)
(* whichever is ready first.  A failed attempt is recorded and the         *)
(* continuation decides whether to go on.                                  *)
(*                                                                         *)
(* The attempt runs apart from the call (a goroutine in the code): when    *)
(* the deadline wins, the call returns and the attempt is abandoned, but   *)
(* it still finishes, picking from the shared round-robin counter.  An     *)
(* endpoint may hang; one invoked at or after the deadline may return the  *)
(* deadline's error, as a context-honouring endpoint does.                 *)
(***************************************************************************)
EXTENDS Balancer, SequencesExt

CONSTANTS
    Healthy,       \* endpoints whose invocation succeeds
    Callbacks,     \* continuations: "max" (Retry), "nil", "user"
    MaxAttempts,   \* max of Retry(max, ...)
    MaxHistory,    \* bound on attempts per call, for the "nil" and "user" loops
    Timeout,       \* timeout of Retry(..., timeout, ...)
    MaxTime

VARIABLES
    now,
    cb,        \* the continuation of this executor
    rpc,       \* per caller: "idle", "loop", "waiting", "returned"
    deadline,  \* per caller: the one deadline of its call
    raw,       \* per caller: RetryError.RawErrors so far
    att,       \* per caller's attempt: "none", "balancing", "invoking", "done"
    outcome,   \* per caller's attempt: its result once done, [ok, err]
    tried,     \* history: endpoints invoked by the caller's attempts
    result     \* per caller: <<>> or <<the call's result>>

retryvars == <<now, cb, rpc, deadline, raw, att, outcome, tried, result>>
vars == <<balvars, retryvars>>

ErrDeadline == [code |-> "deadline", ep |-> 0]
ErrOverride == [code |-> "override", ep |-> 0]
EndpointErr(k) == [code |-> "endpoint", ep |-> k]

Response == [kind |-> "response", final |-> NoErr, raw |-> <<>>]
Bare(e) == [kind |-> "error", final |-> e, raw |-> <<>>]
RetryError(final, errs) == [kind |-> "retryError", final |-> final, raw |-> errs]

Return(p, r) ==
    /\ rpc' = [rpc EXCEPT ![p] = "returned"]
    /\ result' = [result EXCEPT ![p] = <<r>>]

\* A call begins: one deadline for every attempt.  The clock bound keeps
\* the deadline inside the modelled time.
Begin(p) ==
    /\ rpc[p] = "idle"
    /\ now + Timeout <= MaxTime
    /\ rpc' = [rpc EXCEPT ![p] = "loop"]
    /\ deadline' = [deadline EXCEPT ![p] = now + Timeout]
    /\ UNCHANGED <<balvars, now, cb, raw, att, outcome, tried, result>>

\* The loop head: stop with the deadline's own error once it has passed,
\* otherwise start an attempt, whose first step is the balancer's.
LoopHead(p) ==
    /\ rpc[p] = "loop"
    /\ \/ /\ now >= deadline[p]
          /\ Return(p, Bare(ErrDeadline))
          /\ UNCHANGED <<balvars, att>>
       \/ /\ now < deadline[p]
          /\ Len(raw[p]) < MaxHistory
          /\ rpc' = [rpc EXCEPT ![p] = "waiting"]
          /\ att' = [att EXCEPT ![p] = "balancing"]
          /\ bpc' = [bpc EXCEPT ![p] = "calling"]
          /\ UNCHANGED <<answer, policy, c, seen, picked, hist, result>>
    /\ UNCHANGED <<now, cb, deadline, raw, outcome, tried>>

\* Mutant: the balancer's error is not checked and the nil endpoint is
\* invoked.
InvokeNoErrCheck(p) ==
    /\ att[p] = "balancing"
    /\ bpc[p] = "picked"
    /\ bpc' = [bpc EXCEPT ![p] = "idle"]
    /\ att' = [att EXCEPT ![p] = "invoking"]
    /\ tried' = [tried EXCEPT ![p] = Append(@, picked[p].ep)]
    /\ UNCHANGED <<answer, policy, c, seen, picked, hist, now, cb, rpc, deadline, raw, outcome, result>>

\* The attempt takes the balancer's result: its error fails the attempt at
\* once, an endpoint is invoked.
Invoke(p) ==
    /\ att[p] = "balancing"
    /\ bpc[p] = "picked"
    /\ bpc' = [bpc EXCEPT ![p] = "idle"]
    /\ \/ /\ picked[p].err # NoErr
          /\ att' = [att EXCEPT ![p] = "done"]
          /\ outcome' = [outcome EXCEPT ![p] = [ok |-> FALSE, err |-> picked[p].err]]
          /\ UNCHANGED tried
       \/ /\ picked[p].err = NoErr
          /\ att' = [att EXCEPT ![p] = "invoking"]
          /\ tried' = [tried EXCEPT ![p] = Append(@, picked[p].ep)]
          /\ UNCHANGED outcome
    /\ UNCHANGED <<answer, policy, c, seen, picked, hist, now, cb, rpc, deadline, raw, result>>

\* The invoked endpoint answers.  It may also never answer.
Respond(p) ==
    LET ep == Last(tried[p])
    IN /\ att[p] = "invoking"
       /\ att' = [att EXCEPT ![p] = "done"]
       /\ \/ /\ ep \in Healthy
             /\ outcome' = [outcome EXCEPT ![p] = [ok |-> TRUE, err |-> NoErr]]
          \/ /\ ep \notin Healthy
             /\ outcome' = [outcome EXCEPT ![p] = [ok |-> FALSE, err |-> EndpointErr(ep)]]
          \/ /\ now >= deadline[p]
             /\ outcome' = [outcome EXCEPT ![p] = [ok |-> FALSE, err |-> ErrDeadline]]
       /\ UNCHANGED <<balvars, now, cb, rpc, deadline, raw, tried, result>>

\* Mutant: Retry(max) keeps trying while n <= max.
DecisionsOffByOne(i) ==
    CASE cb = "max"  -> {[keep |-> i <= MaxAttempts, repl |-> NoErr]}
      [] cb = "nil"  -> {[keep |-> TRUE, repl |-> NoErr]}
      [] cb = "user" -> [keep : BOOLEAN, repl : {NoErr, ErrOverride}]

\* The continuation: (keep trying, replacement error) for attempt i.
Decisions(i) ==
    CASE cb = "max"  -> {[keep |-> i < MaxAttempts, repl |-> NoErr]}
      [] cb = "nil"  -> {[keep |-> TRUE, repl |-> NoErr]}
      [] cb = "user" -> [keep : BOOLEAN, repl : {NoErr, ErrOverride}]

\* The call takes the attempt's result: a response ends the call; an error
\* is recorded and the continuation decides between stopping with a
\* RetryError and going back to the loop head.
Receive(p) ==
    /\ rpc[p] = "waiting"
    /\ att[p] = "done"
    /\ att' = [att EXCEPT ![p] = "none"]
    /\ \/ /\ outcome[p].ok
          /\ Return(p, Response)
          /\ UNCHANGED raw
       \/ /\ ~outcome[p].ok
          /\ LET errs == Append(raw[p], outcome[p].err)
             IN /\ raw' = [raw EXCEPT ![p] = errs]
                /\ \E d \in Decisions(Len(errs)) :
                     IF d.keep
                     THEN rpc' = [rpc EXCEPT ![p] = "loop"] /\ UNCHANGED result
                     ELSE Return(p, RetryError(IF d.repl # NoErr THEN d.repl
                                                ELSE outcome[p].err, errs))
    /\ UNCHANGED <<balvars, now, cb, deadline, outcome, tried>>

\* Mutant: the call waits only for the attempt, not for the deadline.
ExpireNever(p) == FALSE

\* The deadline fires while the attempt is outstanding: the call returns
\* the deadline's error and abandons the attempt.
Expire(p) ==
    /\ rpc[p] = "waiting"
    /\ now >= deadline[p]
    /\ Return(p, Bare(ErrDeadline))
    /\ UNCHANGED <<balvars, now, cb, deadline, raw, att, outcome, tried>>

Tick ==
    /\ now < MaxTime
    /\ now' = now + 1
    /\ UNCHANGED <<balvars, cb, rpc, deadline, raw, att, outcome, tried, result>>

Init ==
    /\ BalInit
    /\ now = 0
    /\ cb \in Callbacks
    /\ rpc = [p \in Callers |-> "idle"]
    /\ deadline = [p \in Callers |-> 0]
    /\ raw = [p \in Callers |-> <<>>]
    /\ att = [p \in Callers |-> "none"]
    /\ outcome = [p \in Callers |-> [ok |-> FALSE, err |-> NoErr]]
    /\ tried = [p \in Callers |-> <<>>]
    /\ result = [p \in Callers |-> <<>>]

\* The attempt's balancer steps, Fetch and Pick, are Balancer's.
BalancerStep(p) ==
    /\ Fetch(p) \/ Pick(p)
    /\ UNCHANGED retryvars

Next ==
    \/ Tick
    \/ Rediscover /\ UNCHANGED retryvars
    \/ \E p \in Callers :
         \/ Begin(p) \/ LoopHead(p) \/ BalancerStep(p) \/ Invoke(p)
         \/ Respond(p) \/ Receive(p) \/ Expire(p)

\* The Go scheduler runs every runnable goroutine and the clock advances;
\* nothing obliges a caller to call or an endpoint to answer.
Fairness ==
    /\ WF_vars(Tick)
    /\ \A p \in Callers :
         /\ WF_vars(LoopHead(p))
         /\ WF_vars(BalancerStep(p))
         /\ WF_vars(Invoke(p))
         /\ WF_vars(Receive(p))
         /\ WF_vars(Expire(p))

Spec == Init /\ [][Next]_vars /\ Fairness

-----------------------------------------------------------------------------
Errors == {NoErr, ErrNoEndpoints, ErrDeadline, ErrOverride}
          \cup {a.err : a \in Answers} \cup {EndpointErr(k) : k \in EndpointIds}
Results == {Response} \cup {Bare(ErrDeadline)}
           \cup {RetryError(f, r) : f \in Errors, r \in {raw[p] : p \in Callers}}

RetryTypeOK ==
    /\ BalTypeOK
    /\ now \in 0..MaxTime
    /\ cb \in Callbacks
    /\ rpc \in [Callers -> {"idle", "loop", "waiting", "returned"}]
    /\ att \in [Callers -> {"none", "balancing", "invoking", "done"}]
    /\ \A p \in Callers :
         /\ deadline[p] \in 0..MaxTime
         /\ \A i \in DOMAIN raw[p] : raw[p][i] \in Errors
         /\ outcome[p] \in [ok : BOOLEAN, err : Errors]
         /\ \A i \in DOMAIN tried[p] : tried[p][i] \in EndpointIds
         /\ result[p] = <<>> \/ (Len(result[p]) = 1 /\ result[p][1] \in Results)

IsRetryError(p) == result[p] # <<>> /\ result[p][1].kind = "retryError"

\* Retry(max, ...) makes at most max attempts, and when it gives up with a
\* RetryError it has made exactly max, all recorded in order (spec 4.4:
\* "continue unless attemptIndex == maxAttempts"), however the attempts
\* race the deadline.
AttemptBudget ==
    \A p \in Callers :
        cb = "max" =>
            /\ Len(raw[p]) <= MaxAttempts
            /\ IsRetryError(p) => result[p][1].raw = raw[p]
                                /\ Len(raw[p]) = MaxAttempts

\* Every call returns, with a response, a RetryError or the deadline's
\* error, even when an endpoint never answers (spec 8, "Retry timeout").
RetryCallReturns ==
    \A p \in Callers : rpc[p] = "loop" ~> rpc[p] = "returned"

\* The deadline's error is surfaced as it is, never wrapped in a RetryError
\* (spec section 7: callers tell "ran out of time" from "all attempts
\* failed").
DeadlineErrorNotWrapped ==
    \A p \in Callers : IsRetryError(p) => result[p][1].final # ErrDeadline

=============================================================================
