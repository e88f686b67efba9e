----------------------------- MODULE MCDelivery -----------------------------
(***************************************************************************)
(* TLC instance of the shop's event outbox, of the app's handling of its   *)
(* events one request at a time, and of the rate limiter.  They share no   *)
(* state, so one behaviour runs one of them, chosen by `scene`.            *)
(***************************************************************************)
EXTENDS Outbox, RateLimit, Commerce

VARIABLE scene

deliveryVars == <<outboxVars, rateVars, vars, scene>>

\* A paid order that two clients list; one's app cannot read what is sent.
MCListed == {<<"paid", "prod">>, <<"paid", "staging">>}
MCMalformed == {<<"paid", "staging">>}
MCBackoff == <<1>>

\* A scope that asks the counter for every request, and one that buffers.
MCRule == [signin |-> [limit |-> 1, batch |-> 1], save |-> [limit |-> 2, batch |-> 2]]

\* An order that fails and is paid again, then refunded; the payment also
\* arrives unsigned, and the end of a dispute is of a type the map lacks.
LOCAL Report(id, status, at) == [id |-> id, status |-> status, at |-> at, subject |-> "b1"]
MCUnsigned == {Report(2, "paid", 2)}
MCUnreadable == {Report(6, "chargeback", 4)}
MCEvents == MCUnsigned \cup
    {Report(1, "pending", 1), Report(3, "failed", 3),
     Report(4, "refunded_partial", 3), Report(5, "refunded_full", 4)} \cup MCUnreadable

DeliveryInit ==
    /\ OutboxInit /\ RateInit /\ Init
    /\ scene \in {"outbox", "commerce", "limiter"}
    /\ scene = "commerce" \/ mapped
    /\ scene = "limiter" \/ scope = "signin"

InOutbox(A)   == scene = "outbox" /\ A /\ UNCHANGED <<scene, rateVars, vars>>
InCommerce(A) == scene = "commerce" /\ A /\ UNCHANGED <<scene, outboxVars, rateVars>>
InLimiter(A)  == scene = "limiter" /\ A /\ UNCHANGED <<scene, outboxVars, vars>>

DeliveryNext == InOutbox(OutboxNext) \/ InCommerce(Next) \/ InLimiter(RateNext)

\* OutboxFairness, in the outbox's scene.
DeliveryFairness ==
    /\ \A p \in Runs : WF_deliveryVars(InOutbox(Step(p)))
    /\ WF_deliveryVars(InOutbox(\E p \in Runs : DeliverNow(p)))
    /\ WF_deliveryVars(InOutbox(OutboxTick))

DeliverySpec == DeliveryInit /\ [][DeliveryNext]_deliveryVars /\ DeliveryFairness

=============================================================================
