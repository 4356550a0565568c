------------------------------- MODULE Chain --------------------------------
(***************************************************************************)
(* endpoint.Chain(outer, others...) composes middlewares: it wraps next in *)
(* others from the last to the first, then in outer.  Its comment promises *)
(* that requests traverse the middlewares in the order they are declared,  *)
(* the first one outermost.                                                *)
(*                                                                         *)
(* An endpoint is the base endpoint or a record [mw, next]: the endpoint   *)
(* that middleware mw returns for next.  A middleware is a name from       *)
(* Middlewares or itself a chain [outer, others], since Chain returns a    *)
(* Middleware that can be chained again.                                   *)
(***************************************************************************)
EXTENDS Naturals, Sequences, SequencesExt

CONSTANTS Middlewares, Base, MaxOthers

VARIABLE mw   \* the middleware applied to Base

IsChain(m) == m \notin Middlewares

\* The endpoint a named middleware returns for next.
Wrap(m, next) == [mw |-> m, next |-> next]

RECURSIVE Apply(_, _)

\* Mutant: the loop runs over others front to back.
WrapOthersForward(others, next) ==
    FoldLeft(LAMBDA acc, m : Apply(m, acc), next, others)

\* for i := len(others) - 1; i >= 0; i-- { next = others[i](next) }
WrapOthers(others, next) ==
    FoldRight(LAMBDA m, acc : Apply(m, acc), others, next)

\* Chain(outer, others...)(next) == outer(the loop's next)
Apply(m, next) ==
    IF IsChain(m) THEN Apply(m.outer, WrapOthers(m.others, next))
                  ELSE Wrap(m, next)

\* The middlewares a request passes through, outermost first, on its way
\* to the base endpoint.
RECURSIVE Traversal(_)
Traversal(e) == IF e = Base THEN <<>> ELSE <<e.mw>> \o Traversal(e.next)

\* The declaration order, with a chained chain in its place.
RECURSIVE Declared(_)
Declared(m) ==
    IF IsChain(m)
    THEN Declared(m.outer) \o FoldLeft(LAMBDA acc, o : acc \o Declared(o), <<>>, m.others)
    ELSE <<m>>

Chains(S) == [outer : S, others : BoundedSeq(S, MaxOthers)]

\* Every middleware a program can pass: names, chains of names, and chains
\* of those.
Inputs == Middlewares \cup Chains(Middlewares \cup Chains(Middlewares))

Init == mw \in Inputs
Next == UNCHANGED mw
Spec == Init /\ [][Next]_mw

\* A request through Chain(outer, others...) traverses outer, then others
\* in the order given, each chained chain flattened in its place (the
\* doc comment of endpoint.Chain).
ChainTraversalOrder == Traversal(Apply(mw, Base)) = Declared(mw)

=============================================================================
