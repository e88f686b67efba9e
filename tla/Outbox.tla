------------------------------- MODULE Outbox -------------------------------
(***************************************************************************)
(* The plugin's outbox of shop order events                                *)
(* (wordpress-plugins/superlatif-app-bridge/includes/commerce.php) and the *)
(* webhook that receives them (apps/web/src/lib/commerce/webhook.ts).      *)
(*                                                                         *)
(* A PHP request that changes an order's status queues one row for each    *)
(* client whose allowlist names the product, one insert after another, any *)
(* of which may fail unnoticed; when it ends, and every few minutes in a   *)
(* WP-Cron run, what is due is sent and the outcome recorded.              *)
(* A run takes an advisory lock, reads the due rows once, and then sends   *)
(* and records them one by one: a run slower than the lock's lifetime      *)
(* overlaps with the next, and a killed one leaves the lock behind.        *)
(*                                                                         *)
(* Times are relative: `wait` of a row is what is left of its backoff,     *)
(* `lock` how long ago its holder started, `elapsed` how long a run has    *)
(* been going by its own reading of the clock.  Nothing outlives MaxRun    *)
(* (PHP's execution limit), and the horizon is shorter than the 30 days    *)
(* after which a delivered row is purged.  What the app does with an event *)
(* it has taken is module Commerce.                                        *)
(***************************************************************************)
EXTENDS Integers, Sequences, FiniteSets

CONSTANTS
    Changes,     \* order status changes, each of one order of one product
    Clients,     \* configured app deployments
    Listed,      \* <<change, client>>: the client's allowlist has the product
    Malformed,   \* rows whose body the client's app refuses
    Runs,        \* PHP requests that may deliver at once
    Backoff,     \* SUPERLATIF_BRIDGE_COMMERCE_BACKOFF, in ticks
    StaleAfter,  \* the lock's lifetime (120 s), in ticks
    Batch,       \* rows read by one run (25)
    MaxRun,      \* bound on a run's duration, in ticks
    MaxDeaths,   \* bound on killed runs
    NoLock       \* the option is not there

ASSUME OutboxAssumption ==
    /\ Listed \subseteq Changes \X Clients /\ Malformed \subseteq Listed
    /\ Backoff \in Seq(Nat) /\ Backoff # <<>>
    /\ {StaleAfter, MaxRun, MaxDeaths} \subseteq Nat /\ Batch \in Nat \ {0}
    /\ NoLock \notin Int

VARIABLES
    happened,  \* status changes Sejoli has fired
    outbox,    \* rows, by <<change, client>>
    order,     \* their ids' order
    lock,      \* superlatif_bridge_commerce_lock
    run,       \* the runs
    inbox,     \* events the app has a durable receipt of
    deaths     \* how many runs were killed

outboxVars == <<happened, outbox, order, lock, run, inbox, deaths>>

Statuses == {"absent", "pending", "delivered", "dead"}
NoRow == [status |-> "absent", attempts |-> 0, wait |-> 0]
Asleep == [pc |-> "idle", elapsed |-> 0, todo |-> {}, queued |-> FALSE,
           queue |-> <<>>, result |-> "none"]

OutboxInit ==
    /\ happened = {}
    /\ outbox = [r \in Listed |-> NoRow]
    /\ order = <<>>
    /\ lock = NoLock
    /\ run = [p \in Runs |-> Asleep]
    /\ inbox = {}
    /\ deaths = 0

-----------------------------------------------------------------------------
(* Queueing *)

\* superlatif_bridge_commerce_accepts_product
AcceptsProduct(change, client) == <<change, client>> \in Listed

\* superlatif_bridge_commerce_on_order_status: the rows the request has to
\* insert, for the clients that list the product.
OnOrderStatus(p, change) ==
    /\ run[p].pc = "idle" /\ change \notin happened
    /\ happened' = happened \cup {change}
    /\ run' = [run EXCEPT ![p].pc = "queueing",
                 ![p].todo = {<<change, client>> : client \in
                                {k \in Clients : AcceptsProduct(change, k)}}]
    /\ UNCHANGED <<outbox, order, lock, inbox, deaths>>

\* superlatif_bridge_commerce_enqueue: a pending row, due when the request
\* read the clock; or the insert fails, and the request goes on to the next.
Enqueue(p, r) ==
    /\ run[p].pc = "queueing" /\ r \in run[p].todo
    /\ \/ /\ outbox' = [outbox EXCEPT ![r] =
                          [status |-> "pending", attempts |-> 0, wait |-> -run[p].elapsed]]
          /\ order' = Append(order, r)
          /\ run' = [run EXCEPT ![p].todo = @ \ {r}, ![p].queued = TRUE]
       \/ /\ run' = [run EXCEPT ![p].todo = @ \ {r}]
          /\ UNCHANGED <<outbox, order>>
    /\ UNCHANGED <<happened, lock, inbox, deaths>>

\* The shutdown hook: a request that queued a row delivers before it ends.
OnShutdown(p) ==
    /\ run[p].pc = "queueing" /\ run[p].todo = {}
    /\ run' = [run EXCEPT ![p] = IF run[p].queued THEN [Asleep EXCEPT !.pc = "starting"]
                                 ELSE Asleep]
    /\ UNCHANGED <<happened, outbox, order, lock, inbox, deaths>>

\* superlatif_bridge_commerce_deliver_now, called by WP-Cron.
DeliverNow(p) ==
    /\ run[p].pc = "idle"
    /\ run' = [run EXCEPT ![p].pc = "starting"]
    /\ UNCHANGED <<happened, outbox, order, lock, inbox, deaths>>

-----------------------------------------------------------------------------
(* superlatif_bridge_commerce_deliver_due *)

\* Mutant: the lock's age is taken from the run's own start.
HeldForNothing(p) == run[p].elapsed - run[p].elapsed

\* The lock's age when the run took its reading of the clock.
HeldFor(p) == lock - run[p].elapsed

\* add_option: the run gets the lock, or sees that another holds it.
TakeLock(p) ==
    /\ run[p].pc = "starting"
    /\ \/ lock = NoLock /\ lock' = run[p].elapsed /\ run' = [run EXCEPT ![p].pc = "reading"]
       \/ lock # NoLock /\ UNCHANGED lock /\ run' = [run EXCEPT ![p].pc = "checking"]
    /\ UNCHANGED <<happened, outbox, order, inbox, deaths>>

\* get_option: the run leaves when the lock is fresh, and takes it over when it
\* is stale, or gone by now, which reads as held since 1970.
CheckLock(p) ==
    /\ run[p].pc = "checking"
    /\ run' = IF lock # NoLock /\ HeldFor(p) < StaleAfter THEN [run EXCEPT ![p] = Asleep]
              ELSE [run EXCEPT ![p].pc = "stealing"]
    /\ UNCHANGED <<happened, outbox, order, lock, inbox, deaths>>

\* update_option, whoever holds the lock by now.
StealLock(p) ==
    /\ run[p].pc = "stealing"
    /\ lock' = run[p].elapsed
    /\ run' = [run EXCEPT ![p].pc = "reading"]
    /\ UNCHANGED <<happened, outbox, order, inbox, deaths>>

\* superlatif_bridge_commerce_due: pending rows due when the run started, the
\* oldest first, with the attempts made so far.
IsDue(r, elapsed) == outbox[r].status = "pending" /\ outbox[r].wait <= -elapsed

OldestFirst(places) ==
    {q \in [1..Cardinality(places) -> places] : \A i, j \in DOMAIN q : i < j => q[i] < q[j]}

Due(elapsed) ==
    LET due    == {i \in 1..Len(order) : IsDue(order[i], elapsed)}
        length == IF Cardinality(due) < Batch THEN Cardinality(due) ELSE Batch
        item(i) == [row |-> order[i], attempts |-> outbox[order[i]].attempts]
    IN  {[i \in 1..length |-> item(q[i])] : q \in OldestFirst(due)}

ReadDue(p) ==
    /\ run[p].pc = "reading"
    /\ \E queue \in Due(run[p].elapsed) :
         run' = [run EXCEPT ![p].pc = "sending", ![p].queue = queue]
    /\ UNCHANGED <<happened, outbox, order, lock, inbox, deaths>>

\* handleCommerceWebhook: 202 once the receipt is durable; 400 for a body it
\* cannot read; 404, 401, 403 or 503 while the endpoint is off, its keys are
\* being changed, writes are frozen or processing failed, possibly after the
\* receipt was stored.
HandleCommerceWebhook(r) ==
    {[answer |-> "later", stored |-> FALSE]} \cup
    (IF r \in Malformed THEN {[answer |-> "refused", stored |-> FALSE]}
     ELSE {[answer |-> "ok", stored |-> TRUE], [answer |-> "later", stored |-> TRUE]})

\* Mutant: no answer is taken for a good one.
OutcomeHopeful(answer, heard) == IF heard THEN answer ELSE "ok"

\* superlatif_bridge_commerce_outcome: a lost answer is a transport failure.
Outcome(answer, heard) == IF heard THEN answer ELSE "later"

\* superlatif_bridge_commerce_send: one signed request, one outcome.
Send(p, heard) ==
    LET r == Head(run[p].queue).row
    IN  /\ run[p].pc = "sending" /\ run[p].queue # <<>> /\ run[p].result = "none"
        /\ \E reply \in HandleCommerceWebhook(r) :
             /\ inbox' = IF reply.stored THEN inbox \cup {r} ELSE inbox
             /\ run' = [run EXCEPT ![p].result = Outcome(reply.answer, heard)]
        /\ UNCHANGED <<happened, outbox, order, lock, deaths>>

\* superlatif_bridge_commerce_next: what to do after this many attempts.
NextState(result, attempts) ==
    CASE result = "ok"      -> [status |-> "delivered", delay |-> 0]
      [] result = "refused" -> [status |-> "dead", delay |-> 0]
      [] result = "later"   -> IF attempts > Len(Backoff) THEN [status |-> "dead", delay |-> 0]
                               ELSE [status |-> "pending", delay |-> Backoff[attempts]]

\* superlatif_bridge_commerce_record_attempt: by id, over whatever another
\* run recorded meanwhile; the next attempt counts from the run's own start.
RecordAttempt(p) ==
    LET item     == Head(run[p].queue)
        attempts == item.attempts + 1
        next     == NextState(run[p].result, attempts)
    IN  /\ run[p].pc = "sending" /\ run[p].result # "none"
        /\ outbox' = [outbox EXCEPT ![item.row] =
                        [status |-> next.status, attempts |-> attempts,
                         wait |-> next.delay - run[p].elapsed]]
        /\ run' = [run EXCEPT ![p].queue = Tail(@), ![p].result = "none"]
        /\ UNCHANGED <<happened, order, lock, inbox, deaths>>

\* finally: the lock is deleted, whoever holds it by now.
ReleaseLock(p) ==
    /\ run[p].pc = "sending" /\ run[p].queue = <<>>
    /\ lock' = NoLock
    /\ run' = [run EXCEPT ![p] = Asleep]
    /\ UNCHANGED <<happened, outbox, order, inbox, deaths>>

-----------------------------------------------------------------------------
(* Failures, time, fairness *)

\* The PHP process is killed: no `finally`, the lock stays.
RunKilled(p) ==
    /\ run[p].pc # "idle" /\ deaths < MaxDeaths
    /\ deaths' = deaths + 1
    /\ run' = [run EXCEPT ![p] = Asleep]
    /\ UNCHANGED <<happened, outbox, order, lock, inbox>>

\* Ages are counted only as far as a comparison can tell them apart.
Older(age) == IF age < StaleAfter + MaxRun THEN age + 1 ELSE age
Sooner(wait) == IF wait > -MaxRun THEN wait - 1 ELSE wait

OutboxTick ==
    /\ \A p \in Runs : run[p].elapsed < MaxRun
    /\ lock' = IF lock = NoLock THEN NoLock ELSE Older(lock)
    /\ run' = [p \in Runs |-> IF run[p].pc = "idle" THEN run[p]
                              ELSE [run[p] EXCEPT !.elapsed = @ + 1]]
    /\ outbox' = [r \in Listed |-> IF outbox[r].status = "pending"
                                   THEN [outbox[r] EXCEPT !.wait = Sooner(@)] ELSE outbox[r]]
    /\ UNCHANGED <<happened, order, inbox, deaths>>

\* A request or a run in progress takes its next step.
Step(p) ==
    \/ \E r \in Listed : Enqueue(p, r)
    \/ OnShutdown(p)
    \/ TakeLock(p) \/ CheckLock(p) \/ StealLock(p) \/ ReadDue(p) \/ RecordAttempt(p) \/ ReleaseLock(p)
    \/ \E heard \in BOOLEAN : Send(p, heard)

OutboxNext ==
    \/ \E p \in Runs, change \in Changes : OnOrderStatus(p, change)
    \/ \E p \in Runs : DeliverNow(p) \/ Step(p) \/ RunKilled(p)
    \/ OutboxTick

\* WP-Cron fires again and again, PHP executes what it has started, and time
\* passes.  Nothing is assumed of the app: it may answer "later" for ever.
OutboxFairness ==
    /\ \A p \in Runs : WF_outboxVars(Step(p))
    /\ WF_outboxVars(\E p \in Runs : DeliverNow(p))
    /\ WF_outboxVars(OutboxTick)

OutboxSpec == OutboxInit /\ [][OutboxNext]_outboxVars /\ OutboxFairness

-----------------------------------------------------------------------------
(* Properties *)

\* No queued row is lost: a row is marked delivered only when its own client
\* has a durable receipt of it, and one is given up only when the app refused
\* its content or every attempt was used (commerce.php next, record_attempt),
\* whatever runs overlap, write over one another or are killed.  (A change whose
\* insert failed, or whose request was killed before it, has no row at all.)
NoRowIsLost ==
    \A r \in Listed :
        /\ outbox[r].status = "delivered" => r \in inbox
        /\ outbox[r].status = "dead" => r \in Malformed \/ outbox[r].attempts > Len(Backoff)

\* Every queued event is settled in the end: delivered, or given up for a
\* human to look at, although runs overlap, are killed or find the lock held
\* by a dead one (commerce.php deliver_due).
EveryEventSettles ==
    \A r \in Listed :
        (outbox[r].status = "pending") ~> (outbox[r].status \in {"delivered", "dead"})

=============================================================================
