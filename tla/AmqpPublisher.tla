--------------------------- MODULE AmqpPublisher ----------------------------
(***************************************************************************)
(* amqp.Publisher.Endpoint.  With the DefaultDeliverer every call of the  *)
(* endpoint encodes, publishes its request with a fresh correlation id and *)
(* ReplyTo the publisher's one reply queue, then starts a consumer on that *)
(* queue and reads deliveries until one carries its correlation id or its *)
(* context times out.  Deliveries with another id are dropped.  Nothing    *)
(* cancels a consumer: it stays registered after its call has returned.   *)
(*                                                                         *)
(* The broker and the remote service are the environment: the service     *)
(* answers a published request by putting its id on the reply queue, and  *)
(* the broker hands the head of the queue to any registered consumer (the *)
(* consumer's Go channel buffers it), unacknowledged unless autoAck.       *)
(* With SendAndForgetDeliverer a call returns once its request is         *)
(* published; the request still names the reply queue in ReplyTo.         *)
(* A call is named by <<caller, call number>>: the random correlation id  *)
(* of 5 to 255 characters is taken to be unique.                           *)
(***************************************************************************)
EXTENDS Naturals, Sequences

CONSTANTS
    Callers,     \* goroutines calling the endpoint of one Publisher
    MaxCalls,    \* calls per caller
    AutoAck,     \* getConsumeAutoAck(ctx)
    Timeout,     \* p.timeout
    MaxTime

VARIABLES
    deliverer,   \* p.deliverer: "default" or "sendAndForget"
    now,
    pc,          \* per caller: "idle", "encoded", "published", "waiting", "returned"
    calls,       \* per caller: calls made so far
    deadline,    \* per caller: deadline of its current call
    res,         \* per caller: outcome of its last call
    got,         \* per caller: correlation id of the delivery it returned
    pending,     \* requests published and not yet answered
    queue,       \* the reply queue at the broker
    consumers,   \* consumers registered on the reply queue, named by call
    buf,         \* per consumer: deliveries handed to it and not yet read
    unacked,     \* deliveries handed out and not acknowledged
    stolen       \* history: replies handed, while their call was in flight,
                 \* to a consumer not of their call

vars == <<deliverer, now, pc, calls, deadline, res, got, pending, queue,
          consumers, buf, unacked, stolen>>

CallIds == Callers \X (1..MaxCalls)
Cur(p) == <<p, calls[p]>>

Return(p, r) ==
    /\ pc' = [pc EXCEPT ![p] = "returned"]
    /\ res' = [res EXCEPT ![p] = r]

\* ctx, cancel := context.WithTimeout(ctx, p.timeout); pub := ...;
\* p.enc(ctx, &pub, request), which may fail; the before functions.
Start(p) ==
    /\ pc[p] = "idle"
    /\ calls[p] < MaxCalls
    /\ now + Timeout <= MaxTime
    /\ calls' = [calls EXCEPT ![p] = @ + 1]
    /\ deadline' = [deadline EXCEPT ![p] = now + Timeout]
    /\ \/ pc' = [pc EXCEPT ![p] = "encoded"] /\ UNCHANGED res
       \/ Return(p, "encodeError")
    /\ UNCHANGED <<deliverer, now, got, pending, queue, consumers, buf, unacked, stolen>>

\* What PublisherDeliverer may set p.deliverer to; NewPublisher's default
\* is DefaultDeliverer.
Deliverers == {"default", "sendAndForget"}

\* DefaultDeliverer: p.ch.Publish, which may fail.
Publish(p) ==
    /\ deliverer = "default"
    /\ pc[p] = "encoded"
    /\ \/ /\ pc' = [pc EXCEPT ![p] = "published"]
          /\ pending' = pending \cup {Cur(p)}
          /\ UNCHANGED res
       \/ Return(p, "publishError") /\ UNCHANGED pending
    /\ UNCHANGED <<deliverer, now, calls, deadline, got, queue, consumers, buf, unacked, stolen>>

\* DefaultDeliverer: p.ch.Consume on the reply queue, which may fail; the
\* request is out either way.
Consume(p) ==
    /\ pc[p] = "published"
    /\ \/ /\ pc' = [pc EXCEPT ![p] = "waiting"]
          /\ consumers' = consumers \cup {Cur(p)}
          /\ UNCHANGED res
       \/ Return(p, "consumeError") /\ UNCHANGED consumers
    /\ UNCHANGED <<deliverer, now, calls, deadline, got, pending, queue, buf, unacked, stolen>>

\* SendAndForgetDeliverer: p.ch.Publish, which may fail, and a nil
\* delivery; then the after functions and p.dec on nil, which may fail.
SendAndForget(p) ==
    /\ deliverer = "sendAndForget"
    /\ pc[p] = "encoded"
    /\ \/ /\ pending' = pending \cup {Cur(p)}
          /\ \/ Return(p, "ok")
             \/ Return(p, "decodeError")
       \/ Return(p, "publishError") /\ UNCHANGED pending
    /\ UNCHANGED <<deliverer, now, calls, deadline, got, queue, consumers, buf,
                   unacked, stolen>>

\* d.CorrelationId == pub.CorrelationId
Matches(d, p) == d = Cur(p)

\* case d := <-msg: a matching delivery is acknowledged (unless autoAck)
\* and returned, then the after functions and p.dec, which may fail; any
\* other delivery is dropped, neither acknowledged nor rejected.
Receive(p) ==
    LET d == Head(buf[Cur(p)])
    IN /\ pc[p] = "waiting"
       /\ buf[Cur(p)] # <<>>
       /\ buf' = [buf EXCEPT ![Cur(p)] = Tail(@)]
       /\ \/ /\ Matches(d, p)
             /\ unacked' = unacked \ {d}
             /\ got' = [got EXCEPT ![p] = d]
             /\ \/ Return(p, "ok")
                \/ Return(p, "decodeError")
          \/ /\ ~Matches(d, p)
             /\ UNCHANGED <<pc, res, got, unacked>>
       /\ UNCHANGED <<deliverer, now, calls, deadline, pending, queue, consumers, stolen>>

\* Mutant: the select has no ctx.Done case.
ExpireNever(p) == FALSE

\* case <-ctx.Done(): return nil, ctx.Err()
Expire(p) ==
    /\ pc[p] = "waiting"
    /\ now >= deadline[p]
    /\ Return(p, "timeout")
    /\ UNCHANGED <<deliverer, now, calls, deadline, got, pending, queue, consumers, buf, unacked, stolen>>

\* The caller goes on to its next call.
Finish(p) ==
    /\ pc[p] = "returned"
    /\ pc' = [pc EXCEPT ![p] = "idle"]
    /\ UNCHANGED <<deliverer, now, calls, deadline, res, got, pending, queue, consumers, buf, unacked, stolen>>

\* The remote service answers a request on the reply queue.
Reply(id) ==
    /\ id \in pending
    /\ pending' = pending \ {id}
    /\ queue' = Append(queue, id)
    /\ UNCHANGED <<deliverer, now, pc, calls, deadline, res, got, consumers, buf, unacked, stolen>>

\* The reply's call is still waiting for it (or about to).
InFlight(d) == calls[d[1]] = d[2] /\ pc[d[1]] \in {"published", "waiting"}

\* The broker hands the head of the reply queue to a registered consumer.
Dispatch(cons) ==
    /\ queue # <<>>
    /\ cons \in consumers
    /\ queue' = Tail(queue)
    /\ buf' = [buf EXCEPT ![cons] = Append(@, Head(queue))]
    /\ unacked' = IF AutoAck THEN unacked ELSE unacked \cup {Head(queue)}
    /\ stolen' = IF Head(queue) # cons /\ InFlight(Head(queue))
                 THEN stolen \cup {Head(queue)} ELSE stolen
    /\ UNCHANGED <<deliverer, now, pc, calls, deadline, res, got, pending, consumers>>

Tick ==
    /\ now < MaxTime
    /\ now' = now + 1
    /\ UNCHANGED <<deliverer, pc, calls, deadline, res, got, pending, queue, consumers, buf,
                   unacked, stolen>>

Init ==
    /\ deliverer \in Deliverers
    /\ now = 0
    /\ pc = [p \in Callers |-> "idle"]
    /\ calls = [p \in Callers |-> 0]
    /\ deadline = [p \in Callers |-> 0]
    /\ res = [p \in Callers |-> "none"]
    /\ got = [p \in Callers |-> <<p, 0>>]
    /\ pending = {}
    /\ queue = <<>>
    /\ consumers = {}
    /\ buf = [id \in CallIds |-> <<>>]
    /\ unacked = {}
    /\ stolen = {}

Next ==
    \/ Tick
    \/ \E id \in CallIds : Reply(id) \/ Dispatch(id)
    \/ \E p \in Callers :
         \/ Start(p) \/ Publish(p) \/ SendAndForget(p) \/ Consume(p)
         \/ Receive(p) \/ Expire(p) \/ Finish(p)

\* Runnable goroutines run and time passes; neither the service nor the
\* broker is obliged to deliver, and nobody is obliged to call.
Fairness ==
    /\ WF_vars(Tick)
    /\ \A p \in Callers :
         WF_vars(Publish(p)) /\ WF_vars(SendAndForget(p)) /\ WF_vars(Consume(p))
         /\ WF_vars(Receive(p))
         /\ WF_vars(Expire(p))

Spec == Init /\ [][Next]_vars /\ Fairness

-----------------------------------------------------------------------------
\* Every call returns, with a reply or with the context's error, even when
\* its reply never comes to it.
CallsReturn ==
    \A p \in Callers : pc[p] = "waiting" ~> pc[p] = "returned"

\* A call that times out did so because no reply for it reached the
\* broker's consumers in time, not because its reply was handed to a
\* consumer of another call and dropped there (the doc comment promises
\* the matching delivery, an error only when the context times out
\* "while waiting for a reply").
TimeoutOnlyWithoutReply ==
    \A p \in Callers : pc[p] = "returned" /\ res[p] = "timeout" => Cur(p) \notin stolen

=============================================================================
