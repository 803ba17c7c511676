-------------------------- MODULE WebhookDelivery --------------------------
(***************************************************************************)
(* The delivery of webhook events (webhooks.rs).  An append spawns a task  *)
(* that queues a job for every webhook that wants the event, or drops it   *)
(* if the queue is full.  One worker takes the jobs in order, asks the     *)
(* webhook's circuit breaker, waits for a permit and spawns the delivery,  *)
(* which tries several times and then tells the breaker how it went.       *)
(*                                                                         *)
(* A job is a webhook and an event.  Time is told only by the breaker's    *)
(* pauses, which may be over at any moment; an endpoint answers each       *)
(* attempt as it pleases.                                                  *)
(***************************************************************************)
EXTENDS Naturals, Sequences, FiniteSets

CONSTANTS
    MaxHooks,      \* bound: webhooks, in the order they were registered
    MaxEvents,     \* bound: thoughts appended
    EventCapacity, \* WEBHOOK_DELIVERY_QUEUE_CAPACITY
    Permits,       \* WEBHOOK_MAX_CONCURRENT_DELIVERIES
    MaxRetries,    \* WEBHOOK_MAX_RETRIES
    Threshold      \* WEBHOOK_BREAKER_FAILURE_THRESHOLD

ASSUME DeliveryAssumption ==
    /\ {MaxHooks, MaxEvents} \subseteq Nat
    /\ {EventCapacity, Permits, MaxRetries, Threshold} \subseteq Nat \ {0}

Hooks == 1 .. MaxHooks
Events == 1 .. MaxEvents
DeliveryJobs == Hooks \X Events

VARIABLES
    delivery, \* where each job is
    tries,    \* attempts made for it
    events,   \* the channel to the worker
    breaker,  \* per webhook: BreakerState, and whether its pause is over
    late      \* history: deliveries begun since the webhook was paused

deliveryVars == <<delivery, tries, events, breaker, late>>

Closed == [count |-> 0, pause |-> "no"]

DeliveryInit ==
    /\ delivery = [j \in DeliveryJobs |-> "none"]
    /\ tries = [j \in DeliveryJobs |-> 0]
    /\ events = <<>>
    /\ breaker = [h \in Hooks |-> Closed]
    /\ late = [h \in Hooks |-> 0]

In(where) == {j \in DeliveryJobs : delivery[j] \in where}
Move(j, where) == delivery' = [delivery EXCEPT ![j] = where]

-----------------------------------------------------------------------------
(* CircuitBreaker *)

\* allow
Allow(h) == breaker[h].pause # "yes"

\* The cooldown has elapsed: half-open, one more failure trips it again.
AfterAllow(h) ==
    IF breaker[h].pause = "over"
      THEN [count |-> Threshold - 1, pause |-> "no"]
      ELSE breaker[h]

\* record_success
AfterSuccess(h) == Closed

\* record_failure
AfterFailure(h) ==
    LET count == breaker[h].count + 1
    IN  [count |-> count,
         pause |-> IF count >= Threshold THEN "yes" ELSE breaker[h].pause]

\* Time passes.
PauseEnds(h) ==
    /\ breaker[h].pause = "yes"
    /\ breaker' = [breaker EXCEPT ![h].pause = "over"]
    /\ UNCHANGED <<delivery, tries, events, late>>

-----------------------------------------------------------------------------
(* deliver_for_thought, in a task of its own: any order of the events *)

\* The registrations that are active and whose filters match.
Notify(n) ==
    /\ \A h \in Hooks : delivery[<<h, n>>] = "none"
    /\ \E wanted \in SUBSET Hooks :
          delivery' = [j \in DeliveryJobs |-> IF j[2] # n THEN delivery[j]
                                 ELSE IF j[1] \in wanted THEN "posted"
                                 ELSE "unwanted"]
    /\ UNCHANGED <<tries, events, breaker, late>>

\* try_send, for one webhook after the other
Post(j) ==
    /\ delivery[j] = "posted"
    /\ \A h \in Hooks : delivery[<<h, j[2]>>] = "posted" => h >= j[1]
    /\ IF Len(events) < EventCapacity
         THEN Move(j, "queued") /\ events' = Append(events, j)
         ELSE Move(j, "dropped") /\ UNCHANGED events
    /\ UNCHANGED <<tries, breaker, late>>

-----------------------------------------------------------------------------
(* The worker of spawn_delivery_worker_with_breaker *)

\* Variant: the breaker is not asked.
ReceiveAll ==
    /\ events # <<>> /\ In({"waiting"}) = {}
    /\ events' = Tail(events)
    /\ Move(Head(events), "waiting")
    /\ UNCHANGED <<tries, breaker, late>>
Receive ==
    /\ events # <<>> /\ In({"waiting"}) = {}
    /\ events' = Tail(events)
    /\ LET j == Head(events)
           h == j[1]
       IN  /\ Move(j, IF Allow(h) THEN "waiting" ELSE "skipped")
           /\ breaker' = [breaker EXCEPT ![h] = AfterAllow(h)]
    /\ UNCHANGED <<tries, late>>

\* The job has waited for a permit since it was allowed.
Dispatch(j) ==
    /\ delivery[j] = "waiting" /\ Cardinality(In({"trying", "sleeping"})) < Permits
    /\ Move(j, "trying")
    /\ late' = [late EXCEPT ![j[1]] =
                   @ + IF breaker[j[1]].pause = "yes" THEN 1 ELSE 0]
    /\ UNCHANGED <<tries, events, breaker>>

-----------------------------------------------------------------------------
(* deliver_with_retries, in a task of its own *)

Succeed(j) ==
    /\ delivery[j] = "trying"
    /\ tries' = [tries EXCEPT ![j] = @ + 1]
    /\ Move(j, "delivered")
    /\ breaker' = [breaker EXCEPT ![j[1]] = AfterSuccess(j[1])]
    /\ late' = [late EXCEPT ![j[1]] = 0]
    /\ UNCHANGED events

\* An attempt fails: back off, if another attempt is left.
Retry(j) ==
    /\ delivery[j] = "trying" /\ tries[j] + 1 < MaxRetries
    /\ tries' = [tries EXCEPT ![j] = @ + 1]
    /\ Move(j, "sleeping")
    /\ UNCHANGED <<events, breaker, late>>

Wake(j) ==
    /\ delivery[j] = "sleeping"
    /\ Move(j, "trying")
    /\ UNCHANGED <<tries, events, breaker, late>>

\* Variant: what failed is queued again.
GiveUpRequeues(j) ==
    /\ delivery[j] = "trying" /\ tries[j] + 1 >= MaxRetries
    /\ Move(j, "queued") /\ events' = Append(events, j)
    /\ UNCHANGED <<tries, breaker, late>>
GiveUp(j) ==
    /\ delivery[j] = "trying" /\ tries[j] + 1 >= MaxRetries
    /\ tries' = [tries EXCEPT ![j] = @ + 1]
    /\ Move(j, "failed")
    /\ breaker' = [breaker EXCEPT ![j[1]] = AfterFailure(j[1])]
    /\ late' = IF breaker[j[1]].pause # "yes" /\ breaker'[j[1]].pause = "yes"
                 THEN [late EXCEPT ![j[1]] = 0] ELSE late
    /\ UNCHANGED events

Deliver(j) == Succeed(j) \/ Retry(j) \/ Wake(j) \/ GiveUp(j)

DeliveryNext ==
    \/ \E h \in Hooks : PauseEnds(h)
    \/ \E n \in Events : Notify(n)
    \/ Receive
    \/ \E j \in DeliveryJobs : Post(j) \/ Dispatch(j) \/ Deliver(j)

\* The runtime runs every task that can go on; requests time out.
DeliveryFairness ==
    /\ \A j \in DeliveryJobs : WF_deliveryVars(Post(j)) /\ WF_deliveryVars(Deliver(j))
    /\ WF_deliveryVars(Receive \/ \E j \in DeliveryJobs : Dispatch(j))

DeliverySpec == DeliveryInit /\ [][DeliveryNext]_deliveryVars /\ DeliveryFairness

-----------------------------------------------------------------------------
(* Properties *)

\* Every piece of state has its type; the queue holds the queued jobs, once.
DeliveryTypeOK ==
    /\ delivery \in [DeliveryJobs -> {"none", "unwanted", "posted", "queued", "dropped",
                         "skipped", "waiting", "trying", "sleeping",
                         "delivered", "failed"}]
    /\ tries \in [DeliveryJobs -> 0 .. MaxRetries]
    /\ Len(events) <= EventCapacity
    /\ {events[k] : k \in DOMAIN events} = In({"queued"})
    /\ Len(events) = Cardinality(In({"queued"}))
    /\ \A h \in Hooks : breaker[h].pause \in {"no", "yes", "over"}

\* While a webhook is paused at most one of its deliveries begins: the job that
\* the breaker let through before and that was waiting for a permit.  Until the
\* pause is over no other starts, unless one that was under way succeeds.
PausedAfterOne ==
    \A h \in Hooks : breaker[h].pause = "yes" => late[h] <= 1

\* Whatever the endpoints do every event ends up delivered, given up, skipped
\* or dropped, and the permits are free again.
EveryJobEnds ==
    \A j \in DeliveryJobs : delivery[j] = "posted"
        ~> delivery[j] \in {"delivered", "failed", "skipped", "dropped"}

=============================================================================
