------------------------- MODULE WebhookDispatcher -------------------------
(***************************************************************************)
(* packages/integrations/src/dispatcher.ts: one domain event on its way to *)
(* the endpoints registered for it.  A delivery row has an id derived from *)
(* event, entity and endpoint.  Each attempt is a POST between two         *)
(* database calls, with no transaction around them: a worker may stop      *)
(* after any of the three, and sweeps may run beside each other.           *)
(*                                                                         *)
(* Time is what is left of a row's back-off, and the age of a worker's     *)
(* `now`, from which the next back-off is counted.                         *)
(***************************************************************************)
EXTENDS Integers, FiniteSets

CONSTANTS
    Endpoints,      \* endpoints the event is dispatched to
    Registered,     \* those still in the registry the sweeps are given
    Dispatchers,    \* callers of dispatchEvent
    Sweepers,       \* callers of retryDueDeliveries
    MaxAttempts,    \* MAX_DELIVERY_ATTEMPTS: 5
    MaxStops        \* bound: workers that stop half-way, per endpoint

ASSUME RegisteredAssumption == Registered \subseteq Endpoints
ASSUME WorkersAssumption == Dispatchers \cap Sweepers = {}
ASSUME AttemptsAssumption == MaxAttempts \in Nat \ {0}
ASSUME StopsAssumption == MaxStops \in Nat

VARIABLES
    delivery,   \* the WebhookDelivery rows
    worker,     \* the dispatches and sweeps under way
    sends,      \* POSTs made, per endpoint
    received,   \* POSTs the endpoint accepted
    stops,      \* workers that stopped while an endpoint was theirs
    crossed     \* two sweeps have been under way together

webhookVars == <<delivery, worker, sends, received, stops, crossed>>

Workers == Dispatchers \cup Sweepers
NoEndpoint == "NONE"
ASSUME EndpointsAssumption == NoEndpoint \notin Endpoints

backoff(attempt) == IF 2 ^ (attempt - 1) < 60 THEN 2 ^ (attempt - 1) ELSE 60

Unseen == [e \in Endpoints |-> 0]
Resting == [stage |-> "IDLE", todo |-> {}, at |-> NoEndpoint, seen |-> Unseen, age |-> 0]
Beginning(todo, seen) == [stage |-> "LOOP", todo |-> todo, at |-> NoEndpoint, seen |-> seen, age |-> 0]

WebhookTypeOK ==
    /\ delivery \in [Endpoints -> [status : {"NONE", "PENDING", "RETRYING", "DELIVERED", "FAILED"},
                                   attempts : 0..MaxAttempts, wait : Nat]]
    /\ worker \in [Workers -> [stage : {"IDLE", "LOOP", "CREATE", "SEND", "OK", "REFUSED"},
                               todo : SUBSET Endpoints, at : Endpoints \cup {NoEndpoint},
                               seen : [Endpoints -> 0..MaxAttempts], age : Nat]]
    /\ sends \in [Endpoints -> Nat] /\ received \in [Endpoints -> Nat]
    /\ stops \in [Endpoints -> 0..MaxStops]
    /\ crossed \in BOOLEAN

WebhookInit ==
    /\ delivery = [e \in Endpoints |-> [status |-> "NONE", attempts |-> 0, wait |-> 0]]
    /\ worker = [w \in Workers |-> Resting]
    /\ sends = [e \in Endpoints |-> 0]
    /\ received = [e \in Endpoints |-> 0]
    /\ stops = [e \in Endpoints |-> 0]
    /\ crossed = FALSE

Onwards(w, stage, todo, e) ==
    worker' = [worker EXCEPT ![w] = [stage |-> stage, todo |-> todo, at |-> e,
                                     seen |-> worker[w].seen, age |-> worker[w].age]]
Goes(w, stage, e) == Onwards(w, stage, worker[w].todo, e)

-----------------------------------------------------------------------------
(* Dispatch *)

\* The event may be dispatched again at any time: by a replay, or a retry of
\* the operation that raised it.
dispatchEvent(w) ==
    /\ worker[w].stage = "IDLE"
    /\ worker' = [worker EXCEPT ![w] = Beginning(Endpoints, Unseen)]
    /\ UNCHANGED <<delivery, sends, received, stops, crossed>>

\* A row that is there is left alone, whatever became of it.
findDelivery(w, e) ==
    /\ worker[w].stage = "LOOP" /\ e \in worker[w].todo
    /\ IF delivery[e].status = "NONE"
         THEN Onwards(w, "CREATE", worker[w].todo \ {e}, e)
         ELSE Onwards(w, "LOOP", worker[w].todo \ {e}, NoEndpoint)
    /\ UNCHANGED <<delivery, sends, received, stops, crossed>>

createDelivery(w) ==
    LET e == worker[w].at IN
    /\ worker[w].stage = "CREATE"
    /\ delivery[e].status = "NONE"
    /\ delivery' = [delivery EXCEPT ![e].status = "PENDING"]
    /\ Goes(w, "SEND", e)
    /\ UNCHANGED <<sends, received, stops, crossed>>

\* The id is taken: the dispatch throws, and leaves the endpoints after this
\* one to whoever took it.
createRefused(w) ==
    /\ worker[w].stage = "CREATE"
    /\ delivery[worker[w].at].status # "NONE"
    /\ worker' = [worker EXCEPT ![w] = Resting]
    /\ UNCHANGED <<delivery, sends, received, stops, crossed>>

-----------------------------------------------------------------------------
(* Retries *)

\* Mutant of Due: the comparison of times is the wrong way round.
DueTooEarly(e) == delivery[e].status = "RETRYING" /\ delivery[e].wait > 0

Due(e) == delivery[e].status = "RETRYING" /\ delivery[e].wait = 0

\* The rows are read once; each attempt counts on from what was read.
retryDueDeliveries(w) ==
    LET due == {e \in Registered : Due(e)} IN
    /\ worker[w].stage = "IDLE"
    /\ due # {}
    /\ worker' = [worker EXCEPT ![w] =
         Beginning(due, [e \in Endpoints |-> IF e \in due THEN delivery[e].attempts ELSE 0])]
    /\ crossed' = (crossed \/ \E v \in Sweepers \ {w} : worker[v].stage # "IDLE")
    /\ UNCHANGED <<delivery, sends, received, stops>>

nextDelivery(w, e) ==
    /\ worker[w].stage = "LOOP" /\ e \in worker[w].todo
    /\ Onwards(w, "SEND", worker[w].todo \ {e}, e)
    /\ UNCHANGED <<delivery, sends, received, stops, crossed>>

-----------------------------------------------------------------------------
(* Attempts *)

post(w, ok) ==
    LET e == worker[w].at IN
    /\ worker[w].stage = "SEND"
    /\ sends' = [sends EXCEPT ![e] = @ + 1]
    /\ received' = IF ok THEN [received EXCEPT ![e] = @ + 1] ELSE received
    /\ Goes(w, IF ok THEN "OK" ELSE "REFUSED", e)
    /\ UNCHANGED <<delivery, stops, crossed>>

\* Mutant of exhausted: one attempt more.
exhaustedLate(attempt) == attempt > MaxAttempts

exhausted(attempt) == attempt >= MaxAttempts

recordSuccess(w) ==
    LET e == worker[w].at IN
    /\ worker[w].stage = "OK"
    /\ delivery' = [delivery EXCEPT ![e] =
         [status |-> "DELIVERED", attempts |-> worker[w].seen[e] + 1, wait |-> 0]]
    /\ Goes(w, "LOOP", NoEndpoint)
    /\ UNCHANGED <<sends, received, stops, crossed>>

recordFailure(w) ==
    LET e == worker[w].at
        attempt == worker[w].seen[e] + 1
        left == backoff(attempt) - worker[w].age
    IN  /\ worker[w].stage = "REFUSED"
        /\ delivery' = [delivery EXCEPT ![e] =
             IF exhausted(attempt)
               THEN [status |-> "FAILED", attempts |-> attempt, wait |-> 0]
               ELSE [status |-> "RETRYING", attempts |-> attempt,
                     wait |-> IF left > 0 THEN left ELSE 0]]
        /\ Goes(w, "LOOP", NoEndpoint)
        /\ UNCHANGED <<sends, received, stops, crossed>>

finish(w) ==
    /\ worker[w].stage = "LOOP" /\ worker[w].todo = {}
    /\ worker' = [worker EXCEPT ![w] = Resting]
    /\ UNCHANGED <<delivery, sends, received, stops, crossed>>

\* The process ends, or the database refuses an update: the worker is gone.
stop(w) ==
    LET e == worker[w].at IN
    /\ e # NoEndpoint
    /\ stops[e] < MaxStops
    /\ stops' = [stops EXCEPT ![e] = @ + 1]
    /\ worker' = [worker EXCEPT ![w] = Resting]
    /\ UNCHANGED <<delivery, sends, received, crossed>>

\* A second passes.  Beyond the longest back-off an age no longer matters.
second ==
    /\ \/ \E e \in Endpoints : delivery[e].wait > 0
       \/ \E w \in Workers : worker[w].stage \in {"SEND", "OK", "REFUSED"}
    /\ delivery' = [e \in Endpoints |->
         [delivery[e] EXCEPT !.wait = IF @ > 0 THEN @ - 1 ELSE 0]]
    /\ worker' = [w \in Workers |->
         [worker[w] EXCEPT !.age =
            IF worker[w].stage # "IDLE" /\ @ < backoff(MaxAttempts) THEN @ + 1 ELSE @]]
    /\ UNCHANGED <<sends, received, stops, crossed>>

Works(w) ==
    \/ createDelivery(w) \/ createRefused(w)
    \/ \E ok \in BOOLEAN : post(w, ok)
    \/ recordSuccess(w) \/ recordFailure(w)
    \/ finish(w)

Sweeps(w) == retryDueDeliveries(w) \/ (\E e \in Endpoints : nextDelivery(w, e)) \/ Works(w)

WebhookNext ==
    \/ \E w \in Dispatchers :
         dispatchEvent(w) \/ (\E e \in Endpoints : findDelivery(w, e)) \/ Works(w)
    \/ \E w \in Sweepers : Sweeps(w)
    \/ \E w \in Workers : stop(w)
    \/ second

WebhookSpec == WebhookInit /\ [][WebhookNext]_webhookVars

\* The sweep is called again and again, calls go on, time passes.
WebhookFairness ==
    /\ \A w \in Sweepers : WF_webhookVars(Sweeps(w))
    /\ WF_webhookVars(second)

-----------------------------------------------------------------------------
(* Properties *)

Handling(e) == {w \in Workers : worker[w].at = e}
Sending(e) == {w \in Handling(e) : worker[w].stage \in {"OK", "REFUSED"}}

\* dispatcher.ts:97 and :157.  What a row says happened did: a delivered one was
\* accepted.  As long as sweeps do not cross, an event is posted to an endpoint
\* at most MaxAttempts times and accepted once, but for one more each time a
\* worker stopped half-way; and only such a stop leaves a row PENDING with
\* nobody working on it, where no sweep and no replay looks again.
DeliveriesAddUp ==
    \A e \in Endpoints :
        /\ delivery[e].status = "DELIVERED" => received[e] > 0
        /\ delivery[e].status = "PENDING" => Handling(e) # {} \/ stops[e] > 0
        /\ ~crossed =>
             /\ sends[e] <= delivery[e].attempts + Cardinality(Sending(e)) + stops[e]
             /\ sends[e] <= MaxAttempts + stops[e]
             /\ received[e] <= 1 + stops[e]

\* dispatcher.ts:177: a delivery that is being retried is delivered or given up,
\* whatever replays, other sweeps and stopped workers do in between.
RetriesEnd ==
    \A e \in Registered :
        delivery[e].status = "RETRYING" ~> delivery[e].status \in {"DELIVERED", "FAILED"}

=============================================================================
