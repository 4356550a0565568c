------------------------------ MODULE Balancer ------------------------------
(***************************************************************************)
(* lb.roundRobin and lb.random: Endpoint() fetches the Endpointer's        *)
(* answer, fails with its error or with ErrNoEndpoints when it is empty,  *)
(* and otherwise picks one endpoint.  Many goroutines call Endpoint() at   *)
(* once; the only state they share is the round-robin counter, a uint64    *)
(* incremented with atomic.AddUint64, modelled modulo 2^CounterBits.       *)
(*                                                                         *)
(* A call is two steps: Fetch is the call to Endpoints(), which returns a  *)
(* slice the caller keeps, and Pick is everything after it.  Between them *)
(* other callers may pick and the Endpointer may change its answer.        *)
(***************************************************************************)
EXTENDS Naturals, Sequences, FiniteSets

CONSTANTS
    Callers,       \* goroutines calling Endpoint()
    Answers,       \* answers the Endpointer may give: [eps, err]
    CounterBits,   \* width of rr.c (64 in the code)
    MaxPicks       \* bound on the round-robin picks recorded in hist

VARIABLES
    answer,   \* what Endpoints() returns now
    policy,   \* "roundRobin" (NewRoundRobin) or "random" (NewRandom)
    c,        \* rr.c
    bpc,      \* per caller: "idle", "calling", "fetched", "picked"
    seen,     \* per caller: the answer its Endpoints() call returned
    picked,   \* per caller: the result of Endpoint(): [ep, err]
    hist      \* history: round-robin picks in counter order, [ep, pool]

balvars == <<answer, policy, c, bpc, seen, picked, hist>>

\* Errors are records so that every error compares with every other.
NoErr == [code |-> "none", ep |-> 0]
ErrNoEndpoints == [code |-> "noEndpoints", ep |-> 0]

CounterMod == 2 ^ CounterBits

\* A caller starts a call of Endpoint().
Call(p) ==
    /\ bpc[p] = "idle"
    /\ bpc' = [bpc EXCEPT ![p] = "calling"]
    /\ UNCHANGED <<answer, policy, c, seen, picked, hist>>

\* endpoints, err := rr.s.Endpoints()  (and r.s.Endpoints())
Fetch(p) ==
    /\ bpc[p] = "calling"
    /\ bpc' = [bpc EXCEPT ![p] = "fetched"]
    /\ seen' = [seen EXCEPT ![p] = answer]
    /\ UNCHANGED <<answer, policy, c, picked, hist>>

\* The two early returns common to both balancers.
Refuse(p) ==
    /\ \/ /\ seen[p].err # NoErr
          /\ picked' = [picked EXCEPT ![p] = [ep |-> 0, err |-> seen[p].err]]
       \/ /\ seen[p].err = NoErr
          /\ seen[p].eps = <<>>
          /\ picked' = [picked EXCEPT ![p] = [ep |-> 0, err |-> ErrNoEndpoints]]
    /\ UNCHANGED <<c, hist>>

\* old := atomic.AddUint64(&rr.c, 1) - 1; idx := old % len(endpoints)
RoundRobinIndex(old, n) == old % n

\* Mutant: a counter that never wraps.
NextCounterUnwrapped(x) == x + 1

\* atomic.AddUint64 on a uint64 wraps at 2^64.
NextCounter(x) == (x + 1) % CounterMod

RoundRobinPick(p) ==
    LET eps == seen[p].eps
        ep  == eps[RoundRobinIndex(c, Len(eps)) + 1]
    IN /\ seen[p].err = NoErr
       /\ eps # <<>>
       /\ Len(hist) < MaxPicks
       /\ c' = NextCounter(c)
       /\ picked' = [picked EXCEPT ![p] = [ep |-> ep, err |-> NoErr]]
       /\ hist' = Append(hist, [ep |-> ep, pool |-> eps])

\* endpoints[r.r.Intn(len(endpoints))]: the seeded source is abstracted to
\* a choice of any index.
RandomPick(p) ==
    /\ seen[p].err = NoErr
    /\ seen[p].eps # <<>>
    /\ \E i \in 1..Len(seen[p].eps) :
         picked' = [picked EXCEPT ![p] = [ep |-> seen[p].eps[i], err |-> NoErr]]
    /\ UNCHANGED <<c, hist>>

Pick(p) ==
    /\ bpc[p] = "fetched"
    /\ bpc' = [bpc EXCEPT ![p] = "picked"]
    /\ \/ Refuse(p)
       \/ policy = "roundRobin" /\ RoundRobinPick(p)
       \/ policy = "random" /\ RandomPick(p)
    /\ UNCHANGED <<answer, policy, seen>>

\* The caller uses the result and is ready for another call.
Consume(p) ==
    /\ bpc[p] = "picked"
    /\ bpc' = [bpc EXCEPT ![p] = "idle"]
    /\ UNCHANGED <<answer, policy, c, seen, picked, hist>>

\* The Endpointer's answer changes (an event reached its cache).
Rediscover ==
    /\ \E a \in Answers \ {answer} : answer' = a
    /\ UNCHANGED <<policy, c, bpc, seen, picked, hist>>

BalInit ==
    /\ answer \in Answers
    /\ policy \in {"roundRobin", "random"}
    /\ c = 0
    /\ bpc = [p \in Callers |-> "idle"]
    /\ seen = [p \in Callers |-> [eps |-> <<>>, err |-> NoErr]]
    /\ picked = [p \in Callers |-> [ep |-> 0, err |-> NoErr]]
    /\ hist = <<>>

BalNext ==
    \/ Rediscover
    \/ \E p \in Callers : Call(p) \/ Fetch(p) \/ Pick(p) \/ Consume(p)

BalSpec == BalInit /\ [][BalNext]_balvars

-----------------------------------------------------------------------------
EndpointIds == UNION {{a.eps[i] : i \in DOMAIN a.eps} : a \in Answers}

BalTypeOK ==
    /\ answer \in Answers
    /\ policy \in {"roundRobin", "random"}
    /\ c \in 0..(CounterMod - 1)
    /\ bpc \in [Callers -> {"idle", "calling", "fetched", "picked"}]
    /\ \A p \in Callers : seen[p] \in Answers \/ seen[p] = [eps |-> <<>>, err |-> NoErr]
    /\ \A p \in Callers : picked[p].ep \in EndpointIds \cup {0}
    /\ Len(hist) <= MaxPicks

=============================================================================
