------------------------- MODULE EndpointerAbstract -------------------------
(***************************************************************************)
(* What an sd.Endpointer promises its callers (spec sections 3 and 4.1),  *)
(* with no locks and no upgrade window: Endpoints() is one atomic step.    *)
(*                                                                         *)
(* pool maps each live instance to its endpoint.  An endpoint is made the  *)
(* first time its instance is published, kept while the instance keeps   *)
(* being published, and closed once, when the instance disappears or when *)
(* a standing error has outlived the invalidation timeout and a read       *)
(* empties the pool.  A read answers the pool in instance order, or       *)
(* (nil, the standing error) once that error has matured.                 *)
(***************************************************************************)
EXTENDS Naturals, Sequences, FiniteSets, SequencesExt, Functions

CONSTANTS Instances, Errors, NoErr, Readers, MaxTime, MaxTimeout, MaxCreated

VARIABLES
    options,      \* invalidateOnError and the timeout
    pool,         \* live instance -> endpoint
    created,      \* endpoints made so far (numbered 1..created)
    closeCount,   \* closes per endpoint
    standing,     \* the first error since the last good publication, and when
    now,
    registered,   \* publications still arrive
    pc,
    got

absvars == <<options, pool, created, closeCount, standing, now, registered, pc, got>>

EndpointIds == 1..MaxCreated
NoStanding == [err |-> NoErr, at |-> 0]

Snapshot ==
    LET keys == SetToSortSeq(DOMAIN pool, <)
    IN  [k \in 1..Len(keys) |-> pool[keys[k]]]

Matured ==
    /\ standing.err # NoErr
    /\ now >= standing.at + options.invalidateTimeout

CloseAll(ids) ==
    closeCount' = [id \in EndpointIds |->
                     IF id \in ids THEN closeCount[id] + 1 ELSE closeCount[id]]

\* A good publication of the instance set S.  Instances already live keep
\* their endpoint; a new instance gets a fresh one unless making it fails
\* (it is then absent); instances no longer published are closed.  Stop
\* may take effect with it: a publication already accepted still lands.
Publish(S) ==
    /\ registered
    /\ \E T \in SUBSET S :
         /\ S \cap DOMAIN pool \subseteq T
         /\ LET N == T \ DOMAIN pool
            IN \E f \in [N -> (created + 1)..(created + Cardinality(N))] :
                 /\ IsInjective(f)
                 /\ pool' = [i \in T |-> IF i \in DOMAIN pool THEN pool[i] ELSE f[i]]
                 /\ created' = created + Cardinality(N)
         /\ CloseAll({pool[i] : i \in DOMAIN pool \ T})
    /\ standing' = NoStanding
    /\ registered' \in BOOLEAN
    /\ UNCHANGED <<options, now, pc, got>>

\* A publication of an error: it stands from now on unless one already does.
PublishError(e) ==
    /\ registered
    /\ standing' = IF options.invalidateOnError /\ standing.err = NoErr
                   THEN [err |-> e, at |-> now] ELSE standing
    /\ UNCHANGED <<options, pool, created, closeCount, now, registered, pc, got>>

Stop ==
    /\ registered
    /\ registered' = FALSE
    /\ UNCHANGED <<options, pool, created, closeCount, standing, now, pc, got>>

Read(r) ==
    /\ pc[r] = "idle"
    /\ pc' = [pc EXCEPT ![r] = "returned"]
    /\ \/ /\ ~Matured
          /\ got' = [got EXCEPT ![r] = <<[eps |-> Snapshot, err |-> NoErr]>>]
          /\ UNCHANGED <<pool, closeCount>>
       \/ /\ Matured
          /\ got' = [got EXCEPT ![r] = <<[eps |-> <<>>, err |-> standing.err]>>]
          /\ pool' = [i \in {} |-> 0]
          /\ CloseAll(Range(pool))
    /\ UNCHANGED <<options, created, standing, now, registered>>

Done(r) ==
    /\ pc[r] = "returned"
    /\ pc' = [pc EXCEPT ![r] = "idle"]
    /\ UNCHANGED <<options, pool, created, closeCount, standing, now, registered, got>>

Advance ==
    /\ now < MaxTime
    /\ now' = now + 1
    /\ UNCHANGED <<options, pool, created, closeCount, standing, registered, pc, got>>

AbsInit ==
    /\ options \in [invalidateOnError : BOOLEAN, invalidateTimeout : 0..MaxTimeout]
    /\ pool = [i \in {} |-> 0]
    /\ created = 0
    /\ closeCount = [id \in EndpointIds |-> 0]
    /\ standing = NoStanding
    /\ now = 0
    /\ registered = TRUE
    /\ pc = [r \in Readers |-> "idle"]
    /\ got = [r \in Readers |-> <<>>]

AbsNext ==
    \/ \E S \in SUBSET Instances : Publish(S)
    \/ \E e \in Errors : PublishError(e)
    \/ Stop
    \/ Advance
    \/ \E r \in Readers : Read(r) \/ Done(r)

AbsSpec == AbsInit /\ [][AbsNext]_absvars

=============================================================================
