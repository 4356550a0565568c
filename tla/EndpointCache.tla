--------------------------- MODULE EndpointCache ---------------------------
(***************************************************************************)
(* The endpoint cache of package sd (endpoint_cache.go) together with the  *)
(* DefaultEndpointer that feeds it (endpointer.go).                        *)
(*                                                                         *)
(* One background goroutine (DefaultEndpointer.receive) applies discovery  *)
(* events with Update, under the write lock.  Any number of goroutines     *)
(* call Endpoints(): the fast path under the read lock, the slow path      *)
(* drops the read lock, takes the write lock and re-checks.  Everything    *)
(* done under a lock is one atomic step here, but for a good event: its   *)
(* Update holds the write lock while updateCache calls the Factory, so it *)
(* is two steps, taking the lock and releasing it, and a reader arriving   *)
(* in between waits.  The window the code leaves open between RUnlock and *)
(* Lock in Endpoints() is the reader's "upgrading" program counter.        *)
(*                                                                         *)
(* Endpoints built by the Factory are numbered 1, 2, ... in creation       *)
(* order, so that a snapshot is a sequence of numbers and closing one is   *)
(* counted per number.                                                     *)
(***************************************************************************)
EXTENDS Naturals, Sequences, FiniteSets, SequencesExt, Functions, TLC

CONSTANTS
    Instances,    \* instance strings; numbers so that < is the sort order
    Errors,       \* errors an Instancer may publish (model values)
    NoErr,        \* the nil error (model value)
    Readers,      \* goroutines calling Endpoints()
    EventLists,   \* the Event.Instances slices the Instancer may publish
    MaxTime,      \* bound on the clock read by timeNow
    MaxTimeout,   \* largest InvalidateOnError timeout tried
    MaxEvents,    \* bound on the events delivered to receive
    MaxCreated    \* bound on the endpoints the Factory creates

ASSUME Instances \subseteq Nat /\ NoErr \notin Errors
ASSUME \A l \in EventLists : l \in Seq(Instances)

VARIABLES
    options,             \* endpointerOptions, fixed at NewEndpointer
    cache,               \* c.cache: instance -> endpoint number
    err,                 \* c.err
    endpoints,           \* c.endpoints, the published snapshot
    invalidateDeadline,  \* c.invalidateDeadline
    now,                 \* the value timeNow() returns
    created,             \* endpoints the Factory has returned so far
    closeCount,          \* times Closer.Close was called, per endpoint
    registered,          \* de.ch is registered and open (not yet Close()d)
    delivered,           \* events receive has taken off de.ch
    updating,            \* <<event>> while its Update holds c.mtx, else <<>>
    pc,                  \* where each Endpoints() caller is
    got,                 \* <<what the caller's last Endpoints() returned>>
    degraded             \* history: first error since the last good event

vars == <<options, cache, err, endpoints, invalidateDeadline, now, created,
          closeCount, registered, delivered, updating, pc, got, degraded>>

EndpointIds == 1..MaxCreated
EmptyMap == [i \in {} |-> 0]

\* An Event: instances and a nil error, or an error (which takes precedence).
Event == [instances : EventLists, err : {NoErr}]
           \cup [instances : {<<>>}, err : Errors]

Result == [eps : Seq(EndpointIds), err : Errors \cup {NoErr}]

TypeOK ==
    /\ options \in [invalidateOnError : BOOLEAN, invalidateTimeout : 0..MaxTimeout]
    /\ cache \in UNION {[D -> EndpointIds] : D \in SUBSET Instances}
    /\ err \in Errors \cup {NoErr}
    /\ endpoints \in Seq(EndpointIds)
    /\ invalidateDeadline \in 0..(MaxTime + MaxTimeout)
    /\ now \in 0..MaxTime
    /\ created \in 0..MaxCreated
    /\ closeCount \in [EndpointIds -> Nat]
    /\ registered \in BOOLEAN
    /\ delivered \in 0..MaxEvents
    /\ updating \in Seq(Event) /\ Len(updating) <= 1
    /\ pc \in [Readers -> {"idle", "upgrading", "returned"}]
    /\ \A r \in Readers : got[r] = <<>> \/ (Len(got[r]) = 1 /\ got[r][1] \in Result)
    /\ degraded \in [err : Errors \cup {NoErr}, at : 0..MaxTime]

-----------------------------------------------------------------------------
(* updateCache                                                             *)

\* Mutants of the loop body below, each a plausible slip in updateCache:
\* carrying an endpoint over without delete(c.cache, instance) ...
CarryOrCreateNoDelete(acc, inst, k, fails) ==
    IF inst \in DOMAIN acc.old
    THEN [acc EXCEPT !.new = (inst :> acc.old[inst]) @@ acc.new]
    ELSE IF k \in fails THEN acc
    ELSE [acc EXCEPT !.new = (inst :> acc.next) @@ acc.new,
                     !.next = acc.next + 1]

\* ... and calling the Factory for every instance, cached or not.
CarryOrCreateAlwaysNew(acc, inst, k, fails) ==
    IF k \in fails THEN acc
    ELSE [acc EXCEPT !.new = (inst :> acc.next) @@ acc.new,
                     !.next = acc.next + 1]

\* Mutant: the instances are not sorted (sort.Strings left out).
SortInstancesNot(instances) == instances

\* One iteration of the loop over the sorted instances: carry an existing
\* endpoint over (and delete it from the old map), or call the Factory,
\* which fails when the position is in fails and is then skipped.
CarryOrCreate(acc, inst, k, fails) ==
    IF inst \in DOMAIN acc.old
    THEN [acc EXCEPT !.new = (inst :> acc.old[inst]) @@ acc.new,
                     !.old = Restrict(acc.old, DOMAIN acc.old \ {inst})]
    ELSE IF k \in fails THEN acc
    ELSE [acc EXCEPT !.new = (inst :> acc.next) @@ acc.new,
                     !.next = acc.next + 1]

RECURSIVE BuildCache(_, _, _, _)
BuildCache(s, k, acc, fails) ==
    IF k > Len(s) THEN acc
    ELSE BuildCache(s, k + 1, CarryOrCreate(acc, s[k], k, fails), fails)

\* Mutant: the "bad factory" check left out, so an instance whose Factory
\* failed contributes the zero endpoint (nil, numbered 0) to the slice.
PopulateEndpointsNoSkip(s, new) ==
    [k \in 1..Len(s) |-> IF s[k] \in DOMAIN new THEN new[s[k]] ELSE 0]

\* Populate the slice: the sorted instances that made it into the new map.
PopulateEndpoints(s, new) ==
    LET present == SelectSeq(s, LAMBDA i : i \in DOMAIN new)
    IN  [k \in 1..Len(present) |-> new[present[k]]]

SortInstances(instances) == SortSeq(instances, <)

\* The whole of updateCache(instances) with the Factory failing at the
\* positions in fails: build the new map, close what is left of the old
\* one, swap in the new map and snapshot.
updateCache(instances, fails) ==
    LET s   == SortInstances(instances)
        acc == BuildCache(s, 1, [old |-> cache, new |-> EmptyMap,
                                 next |-> created + 1], fails)
    IN  /\ acc.next - 1 <= MaxCreated
        /\ closeCount' = [id \in EndpointIds |->
                            IF id \in Range(acc.old) THEN closeCount[id] + 1
                                                     ELSE closeCount[id]]
        /\ endpoints' = PopulateEndpoints(s, acc.new)
        /\ cache' = acc.new
        /\ created' = acc.next - 1

-----------------------------------------------------------------------------
(* Update and the receive loop                                             *)

\* Mutant: every error re-arms the deadline (the c.err != nil return lost).
UpdateNotSticky(event) ==
    \/ /\ event.err = NoErr
       /\ \E fails \in SUBSET DOMAIN event.instances :
             updateCache(event.instances, fails)
       /\ err' = NoErr
       /\ UNCHANGED invalidateDeadline
    \/ /\ event.err # NoErr
       /\ ~options.invalidateOnError
       /\ UNCHANGED <<err, invalidateDeadline, cache, endpoints, created, closeCount>>
    \/ /\ event.err # NoErr
       /\ options.invalidateOnError
       /\ err' = event.err
       /\ invalidateDeadline' = now + options.invalidateTimeout
       /\ UNCHANGED <<cache, endpoints, created, closeCount>>

\* Update(event), under c.mtx.Lock().
Update(event) ==
    \/ /\ event.err = NoErr
       /\ \E fails \in SUBSET DOMAIN event.instances :
             updateCache(event.instances, fails)
       /\ err' = NoErr
       /\ UNCHANGED invalidateDeadline
    \/ /\ event.err # NoErr
       /\ ~options.invalidateOnError
       /\ UNCHANGED <<err, invalidateDeadline, cache, endpoints, created, closeCount>>
    \/ /\ event.err # NoErr
       /\ options.invalidateOnError
       /\ err # NoErr
       /\ UNCHANGED <<err, invalidateDeadline, cache, endpoints, created, closeCount>>
    \/ /\ event.err # NoErr
       /\ options.invalidateOnError
       /\ err = NoErr
       /\ err' = event.err
       /\ invalidateDeadline' = now + options.invalidateTimeout
       /\ UNCHANGED <<cache, endpoints, created, closeCount>>

\* History: the first error published since the last good event, and when.
NextDegraded(event) ==
    IF event.err = NoErr THEN [err |-> NoErr, at |-> 0]
    ELSE IF degraded.err = NoErr THEN [err |-> event.err, at |-> now]
    ELSE degraded

\* The write lock c.mtx is free: no Update is between Lock and Unlock.
Unlocked == updating = <<>>

\* DefaultEndpointer.receive: take the next event off de.ch and call
\* Update, which takes c.mtx.Lock().  The sad path runs to its deferred
\* Unlock in the same step; the happy path goes on to updateCache, whose
\* Factory calls run with the lock held.
receive ==
    /\ registered
    /\ delivered < MaxEvents
    /\ Unlocked
    /\ \E event \in Event :
          \/ /\ event.err = NoErr
             /\ updating' = <<event>>
             /\ UNCHANGED <<cache, err, endpoints, invalidateDeadline, created,
                            closeCount, degraded>>
          \/ /\ event.err # NoErr
             /\ Update(event)
             /\ degraded' = NextDegraded(event)
             /\ UNCHANGED updating
    /\ delivered' = delivered + 1
    /\ UNCHANGED <<options, now, registered, pc, got>>

\* Mutant: the happy path returns without releasing c.mtx (an Unlock
\* written out by hand and missed on the return after updateCache).
UpdateUnlockNot ==
    /\ ~Unlocked
    /\ Update(updating[1])
    /\ degraded' = NextDegraded(updating[1])
    /\ UNCHANGED <<options, now, registered, delivered, updating, pc, got>>

\* The happy path of Update: updateCache returns, c.err = nil, and the
\* deferred c.mtx.Unlock() releases the lock.
UpdateUnlock ==
    /\ ~Unlocked
    /\ Update(updating[1])
    /\ degraded' = NextDegraded(updating[1])
    /\ updating' = <<>>
    /\ UNCHANGED <<options, now, registered, delivered, pc, got>>

\* DefaultEndpointer.Close: deregister and close de.ch, ending receive
\* once it is done with the event in hand.  The cached endpoints are left
\* open.
Close ==
    /\ registered
    /\ registered' = FALSE
    /\ UNCHANGED <<options, cache, err, endpoints, invalidateDeadline, now,
                   created, closeCount, delivered, updating, pc, got, degraded>>

-----------------------------------------------------------------------------
(* Endpoints()                                                             *)

\* c.err == nil || c.timeNow().Before(c.invalidateDeadline)
Valid == err = NoErr \/ now < invalidateDeadline

Answer(eps, e) == <<[eps |-> eps, err |-> e]>>

\* Fast path, all under the read lock, which the caller waits for while an
\* Update holds c.mtx.  A caller at "idle" is at c.mtx.RLock().
EndpointsFast(r) ==
    /\ pc[r] = "idle"
    /\ Unlocked
    /\ Valid
    /\ pc' = [pc EXCEPT ![r] = "returned"]
    /\ got' = [got EXCEPT ![r] = Answer(endpoints, NoErr)]
    /\ UNCHANGED <<options, cache, err, endpoints, invalidateDeadline, now,
                   created, closeCount, registered, delivered, updating, degraded>>

\* The fast-path check fails: RUnlock, then wait for the write lock.
EndpointsUpgrade(r) ==
    /\ pc[r] = "idle"
    /\ Unlocked
    /\ ~Valid
    /\ pc' = [pc EXCEPT ![r] = "upgrading"]
    /\ UNCHANGED <<options, cache, err, endpoints, invalidateDeadline, now,
                   created, closeCount, registered, delivered, updating, got, degraded>>

\* Mutant: the write-lock branch trusts the check made under the read lock.
EndpointsRecheckNot(r) ==
    /\ pc[r] = "upgrading"
    /\ Unlocked
    /\ pc' = [pc EXCEPT ![r] = "returned"]
    /\ updateCache(<<>>, {})
    /\ got' = [got EXCEPT ![r] = Answer(<<>>, err)]
    /\ UNCHANGED <<options, err, invalidateDeadline, now, registered,
                   delivered, updating, degraded>>

\* Under the write lock: re-check, and invalidate with updateCache(nil).
EndpointsRecheck(r) ==
    /\ pc[r] = "upgrading"
    /\ Unlocked
    /\ pc' = [pc EXCEPT ![r] = "returned"]
    /\ \/ /\ Valid
          /\ got' = [got EXCEPT ![r] = Answer(endpoints, NoErr)]
          /\ UNCHANGED <<cache, endpoints, created, closeCount>>
       \/ /\ ~Valid
          /\ updateCache(<<>>, {})
          /\ got' = [got EXCEPT ![r] = Answer(<<>>, err)]
    /\ UNCHANGED <<options, err, invalidateDeadline, now, registered,
                   delivered, updating, degraded>>

\* The caller is done with the answer and may call Endpoints() again.
CallerReturns(r) ==
    /\ pc[r] = "returned"
    /\ pc' = [pc EXCEPT ![r] = "idle"]
    /\ UNCHANGED <<options, cache, err, endpoints, invalidateDeadline, now,
                   created, closeCount, registered, delivered, updating, got, degraded>>

\* Wall-clock time passes.
Tick ==
    /\ now < MaxTime
    /\ now' = now + 1
    /\ UNCHANGED <<options, cache, err, endpoints, invalidateDeadline, created,
                   closeCount, registered, delivered, updating, pc, got, degraded>>

-----------------------------------------------------------------------------

\* NewEndpointer: an empty cache, with any options.
\* The endpointerOptions of NewEndpointer without options: the zero value.
NoOptions == [invalidateOnError |-> FALSE, invalidateTimeout |-> 0]

\* The option InvalidateOnError(timeout) sets both fields.
InvalidateOnError(timeout) ==
    [invalidateOnError |-> TRUE, invalidateTimeout |-> timeout]

Init ==
    /\ options \in {NoOptions} \cup {InvalidateOnError(t) : t \in 0..MaxTimeout}
    /\ cache = EmptyMap
    /\ err = NoErr
    /\ endpoints = <<>>
    /\ invalidateDeadline = 0
    /\ now = 0
    /\ created = 0
    /\ closeCount = [id \in EndpointIds |-> 0]
    /\ registered = TRUE
    /\ delivered = 0
    /\ updating = <<>>
    /\ pc = [r \in Readers |-> "idle"]
    /\ got = [r \in Readers |-> <<>>]
    /\ degraded = [err |-> NoErr, at |-> 0]

Next ==
    \/ receive
    \/ UpdateUnlock
    \/ Close
    \/ Tick
    \/ \E r \in Readers :
          \/ EndpointsFast(r)
          \/ EndpointsUpgrade(r)
          \/ EndpointsRecheck(r)
          \/ CallerReturns(r)

\* The Factory returns, so an Update holding the lock releases it, and a
\* caller at c.mtx goes on once the lock is free (sync.RWMutex lets waiting
\* readers in before the next Lock; with MaxEvents bounding the Updates,
\* weak fairness already ends every wait).  The callers call Endpoints()
\* again and again, as a balancer does per request; nothing obliges the
\* Instancer to publish or time to pass.
Fairness ==
    /\ WF_vars(UpdateUnlock)
    /\ \A r \in Readers :
          /\ WF_vars(EndpointsFast(r) \/ EndpointsUpgrade(r))
          /\ WF_vars(EndpointsRecheck(r))

Spec == Init /\ [][Next]_vars /\ Fairness

-----------------------------------------------------------------------------
(* Properties                                                              *)

\* The invalidation policy of Update and Endpoints(): the error the
\* Instancer published first since its last good event has been standing
\* for at least the InvalidateOnError timeout.
Matured ==
    /\ options.invalidateOnError
    /\ degraded.err # NoErr
    /\ now >= degraded.at + options.invalidateTimeout

\* Every answer Endpoints() gives follows the invalidation policy, whatever
\* the receive goroutine did in the window between RUnlock and Lock: once
\* the first error since the last good event has stood for the timeout,
\* the answer is (nil, that error); before that, it is the current snapshot
\* with no error, and the read neither changes the cache nor closes anything.
ReadsFollowInvalidationPolicy ==
    [][\A r \in Readers :
         pc'[r] = "returned" /\ pc[r] # "returned" =>
            IF Matured
            THEN got'[r][1].err = degraded.err /\ got'[r][1].eps = <<>>
            ELSE /\ got'[r][1].err = NoErr
                 /\ got'[r][1].eps = endpoints
                 /\ cache' = cache /\ closeCount' = closeCount]_vars

\* Every endpoint the Factory returned is either still cached and never
\* closed, or gone from the cache and closed exactly once: updateCache and
\* the invalidation in Endpoints() neither leak, double-close, nor close a
\* live endpoint.
EndpointLifecycle ==
    \A id \in 1..created :
        IF id \in Range(cache) THEN closeCount[id] = 0 ELSE closeCount[id] = 1

\* The published snapshot is the cached endpoints in instance order,
\* whatever order the Instancer listed the instances in.
SnapshotOrderedByInstance ==
    LET keys == SetToSortSeq(DOMAIN cache, <)
    IN  endpoints = [k \in 1..Len(keys) |-> cache[keys[k]]]

\* An instance that stays in the cache across a step keeps the endpoint the
\* Factory first made for it: Update never rebuilds a surviving entry.
EntryStability ==
    [][\A i \in DOMAIN cache \cap DOMAIN cache' : cache'[i] = cache[i]]_vars

\* Every Endpoints() call returns, though updateCache calls the Factory
\* with the write lock held and the slow path drops its read lock to wait
\* for the write lock: no path of Update or Endpoints() keeps c.mtx.
EndpointsReturns ==
    \A r \in Readers : pc[r] = "idle" ~> pc[r] = "returned"

\* Spec section 5: a slow Factory in Update "never blocks readers".  A
\* caller inside Endpoints(), at c.mtx.RLock() or at the slow path's
\* c.mtx.Lock(), can always take its next step, even while updateCache is
\* calling the Factory under the write lock (an instance of the event being
\* applied is not in c.cache yet).
CallingFactory ==
    /\ ~Unlocked
    /\ \E k \in DOMAIN updating[1].instances :
          updating[1].instances[k] \notin DOMAIN cache

ReadersNeverWaitOnFactory ==
    \A r \in Readers :
        CallingFactory /\ pc[r] \in {"idle", "upgrading"} =>
            ENABLED (EndpointsFast(r) \/ EndpointsUpgrade(r) \/ EndpointsRecheck(r))

-----------------------------------------------------------------------------
(* Refinement                                                              *)

\* The standing error of the abstract endpointer is c.err, armed at the
\* time the deadline was computed from.
AbsStanding ==
    IF err = NoErr THEN [err |-> NoErr, at |-> 0]
    ELSE [err |-> err, at |-> invalidateDeadline - options.invalidateTimeout]

\* A caller in the RUnlock/Lock window has not read anything yet.
AbsPc == [r \in Readers |-> IF pc[r] = "upgrading" THEN "idle" ELSE pc[r]]

\* close(de.ch) ends receive only after the Update in hand is done.
AbsRegistered == registered \/ ~Unlocked

Abs == INSTANCE EndpointerAbstract WITH pool <- cache, standing <- AbsStanding, pc <- AbsPc,
                                        registered <- AbsRegistered

\* The locked cache with its two-step slow path implements the atomic
\* endpointer of the spec: every read is linearised at the step that takes
\* the lock it answers under, and every Update is one publication.
ImplementsEndpointerAbstract == Abs!AbsSpec

=============================================================================
