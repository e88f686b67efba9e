------------------------------ MODULE Commerce ------------------------------
(***************************************************************************)
(* One external order, from the webhook deliveries that report it to the   *)
(* access grants it pays for (packages/db/src/commerce/): receipt and      *)
(* normalization, the purchase lifecycle transaction, the claim that binds *)
(* an order to a buyer who signs in later, and the operator's repair of a  *)
(* reconciliation case.                                                    *)
(*                                                                         *)
(* A lifecycle transaction reads the purchase without a lock, then the     *)
(* buyer's identity, and only its writes are atomic; a repair reads its    *)
(* case before its transaction and the purchase without a lock.  So        *)
(* deliveries, claims and repairs interleave at each of these reads.  The  *)
(* sender may deliver an event any number of times, in any order, or never.*)
(*                                                                         *)
(* Abstracted: a buyer subject is the user who owns it once linked; the    *)
(* offer's components are granted together, so a user's grants from this   *)
(* order have one status; a case is its type, its event and its status     *)
(* ("assigned" is open), two open rows alike being one; the outbox rows    *)
(* written beside each grant and case, which nothing reads, are left out.  *)
(***************************************************************************)
EXTENDS Integers, FiniteSets

CONSTANTS Events,      \* what the order's events say: id, status, at, subject
          Unsigned,    \* the events also delivered without a valid signature
          Unreadable,  \* the events whose type the status map lacks; the
                       \* status they are given here is never read
          Deliveries,  \* concurrent webhook requests
          Operators,   \* concurrent repair requests
          Nobody,      \* the buyer of an unbound purchase
          LastTime     \* the latest time of an event or a repair

States == {"pending", "paid", "failed", "expired", "cancelled",
           "refunded_partial", "refunded_full", "chargeback"}
Times == 1..LastTime

ASSUME EventAssumption ==
  \A e \in Events : e.status \in States /\ e.at \in Times /\ e.subject # Nobody
ASSUME TimeAssumption ==
  LastTime \in Nat /\ Unsigned \subseteq Events /\ Unreadable \subseteq Events

Subjects == {e.subject : e \in Events}

VARIABLES raw,         \* raw_commerce_events, by event key
          normalized,  \* normalized_commerce_events
          accepted,    \* events the sender was told are accepted: it will not
                       \* send them again (history)
          purchase,    \* the order's purchases row
          recorded,    \* purchase_events
          grants,      \* status of each user's grants from this order
          cases,       \* reconciliation_cases
          linked,      \* external_identities: subjects who have signed in
          mapped,      \* the SKU has an offer
          delivery,    \* what each webhook request is doing
          repair       \* what each repair request is doing

orderVars == <<purchase, recorded, grants, cases>>
receiptVars == <<raw, normalized, accepted>>
vars == <<receiptVars, orderVars, linked, mapped, delivery, repair>>

Absent == [status |-> "absent", last |-> 0, user |-> Nobody, offer |-> FALSE]
Outcomes == {"applied", "ignored_duplicate", "ignored_out_of_order",
             "ignored_identity_mismatch"}
CaseTypes == {"unresolved_identity", "unknown_sku", "identity_mismatch",
              "ambiguous_transition", "chargeback_review",
              "unverifiable_partial_refund"}
Idle == [pc |-> "idle"]

Unrecorded(e) == \A r \in recorded : r.event # e
Case(type, e, held) ==
  [type |-> type, event |-> e, held |-> held, status |-> "open"]

(* resolveReconciliationCase: a no-op on a case that is terminal. *)
Closing(ks, which, status) ==
  {k \in ks : ~(k.status = "open" /\ k \in which)}
  \cup {[k EXCEPT !.status = status] : k \in {j \in ks : j.status = "open" /\ j \in which}}

----------------------------------------------------------------------------
(* resolvePurchaseTransition *)
Allowed == [s \in States |->
  CASE s = "pending" -> {"paid", "failed", "expired", "cancelled"}
    [] s = "paid" -> {"refunded_partial", "refunded_full", "chargeback", "cancelled"}
    [] s = "failed" -> {"paid"}
    [] s = "refunded_partial" -> {"refunded_full"}
    [] OTHER -> {}]

Terminal == {s \in States : Allowed[s] = {}}

(* A broken transition: an event as late as its legality allows applies. *)
TransitionAnyTime(row, e) ==
  IF e.status = row.status THEN "duplicate"
  ELSE IF e.status \in Allowed[row.status] THEN "apply"
  ELSE "illegal"

Transition(row, e) ==
  IF e.at < row.last THEN "stale"
  ELSE IF e.status = row.status THEN "duplicate"
  ELSE IF e.status \in Allowed[row.status] THEN "apply"
  ELSE "illegal"

OutcomeOf(transition) ==
  CASE transition = "apply" -> "applied"
    [] transition = "duplicate" -> "ignored_duplicate"
    [] OTHER -> "ignored_out_of_order"

(* issueGrant, recordGrantEvent and deriveGrantStatus: a grant is issued   *)
(* once per source key, and revocation is permanent.                       *)
Issue(g, u) == IF g[u] = "none" THEN [g EXCEPT ![u] = "active"] ELSE g
Revoke(g, u) == IF g[u] = "none" THEN g ELSE [g EXCEPT ![u] = "revoked"]
Suspend(g, u) == IF g[u] = "active" THEN [g EXCEPT ![u] = "suspended"] ELSE g

(* applyPurchaseStatusEffects, on the row its caller holds: grants ... *)
GrantEffect(g, row, status) ==
  IF row.user = Nobody THEN g
  ELSE CASE status = "paid" /\ row.offer -> Issue(g, row.user)
         [] status \in {"refunded_full", "cancelled"} -> Revoke(g, row.user)
         [] status = "chargeback" -> Suspend(g, row.user)
         [] OTHER -> g

(* ... and the cases it raises. *)
CaseEffect(g, row, status, e) ==
  CASE status = "paid" /\ row.user = Nobody ->
         {Case("unresolved_identity", e, {})}
    [] status = "paid" /\ row.user # Nobody /\ ~row.offer ->
         {Case("unknown_sku", e, {})}
    [] status = "chargeback" /\ row.user # Nobody ->
         {Case("chargeback_review", e, {u \in {row.user} : g[u] # "none"})}
    [] status = "refunded_partial" ->
         {Case("unverifiable_partial_refund", e, {})}
    [] OTHER -> {}

(* A broken bind: any event of the order may name its buyer. *)
BindableByAny(u) == purchase.user = Nobody

(* bindUnboundPurchaseToBuyer, which locks the purchase's row: every event *)
(* must name the buyer; a paid, mapped order is granted; the open cases    *)
(* about its buyer are resolved.                                           *)
Bindable(u) ==
  /\ purchase.user = Nobody
  /\ \A r \in recorded : r.event.subject = u

Unchanged == [row |-> purchase, grants |-> grants, cases |-> cases]
Bound(u) ==
  [row |-> [purchase EXCEPT !.user = u],
   grants |-> IF purchase.status = "paid" /\ purchase.offer
              THEN Issue(grants, u) ELSE grants,
   cases |-> Closing(cases, {k \in cases : k.type = "unresolved_identity"}, "resolved")]

----------------------------------------------------------------------------
(* Webhook deliveries.                                                     *)
Goto(d, c) == delivery' = [delivery EXCEPT ![d] = c]

(* Answer 202: the request ends, and the sender is done with the event.    *)
Accept(d, e) == Goto(d, Idle) /\ accepted' = accepted \cup {e}

(* deriveEventKey, of the envelope receiveCommerceEvent makes: an          *)
(* unverified delivery loses its event id and is keyed by its checksum.    *)
EventKey(e, verified) == <<IF verified THEN "id" ELSE "checksum", e>>

(* ingestCommerceEvent: a delivery whose key is there writes nothing,      *)
(* whether the lookup or the unique index finds it; a new one is stored,   *)
(* and normalized when it is verified and its type is known, quarantined   *)
(* when not.                                                               *)
Ingest(e, verified) ==
  LET key == EventKey(e, verified)
  IN /\ raw' = raw \cup {key}
     /\ normalized' = normalized \cup
          {x \in {e} \ Unreadable : verified /\ key \notin raw}

(* A broken duplicate branch: a delivery seen before is accepted as done.  *)
ReceiveAsDone(d, e, verified) ==
  /\ delivery[d] = Idle
  /\ Ingest(e, verified)
  /\ \/ /\ verified /\ EventKey(e, verified) \notin raw /\ e \in normalized'
        /\ Goto(d, [pc |-> "begin", event |-> e]) /\ UNCHANGED accepted
     \/ /\ verified /\ ~(EventKey(e, verified) \notin raw /\ e \in normalized')
        /\ Accept(d, e)
     \/ ~verified /\ UNCHANGED <<delivery, accepted>>
  /\ UNCHANGED <<orderVars, linked, mapped, repair>>

(* handleCommerceWebhook and receiveCommerceEvent up to the lifecycle.  A  *)
(* verified delivery goes on to the lifecycle when its raw row has a       *)
(* normalized event, its own or the one an earlier delivery stored; one    *)
(* that was quarantined is accepted and ends, and an unverified one is     *)
(* stored and refused.                                                     *)
Receive(d, e, verified) ==
  /\ delivery[d] = Idle
  /\ Ingest(e, verified)
  /\ \/ /\ verified /\ e \in normalized'
        /\ Goto(d, [pc |-> "begin", event |-> e]) /\ UNCHANGED accepted
     \/ verified /\ e \notin normalized' /\ Accept(d, e)
     \/ ~verified /\ UNCHANGED <<delivery, accepted>>
  /\ UNCHANGED <<orderVars, linked, mapped, repair>>

(* The lifecycle, in a transaction after the receipt's: the check that the *)
(* event is not processed yet, then the read of the purchase.              *)
ReadPurchase(d) ==
  LET e == delivery[d].event
  IN /\ delivery[d].pc = "begin"
     /\ \/ /\ Unrecorded(e)
           /\ Goto(d, [pc |-> "identity", event |-> e, existing |-> purchase])
           /\ UNCHANGED accepted
        \/ ~Unrecorded(e) /\ Accept(d, e)
     /\ UNCHANGED <<raw, normalized, orderVars, linked, mapped, repair>>

(* A broken buyer check: only a bound purchase's buyer is compared. *)
ReadIdentityBoundOnly(d) ==
  LET c == delivery[d]
      known == c.event.subject \in linked
  IN /\ c.pc = "identity"
     /\ Goto(d, [pc |-> "commit", event |-> c.event, existing |-> c.existing,
                 known |-> known, offer |-> mapped,
                 mismatch |-> /\ c.existing.user # Nobody
                              /\ ~(known /\ c.event.subject = c.existing.user)])
     /\ UNCHANGED <<receiptVars, orderVars, linked, mapped, repair>>

(* The event's identity, the SKU's mapping and the subjects the order's    *)
(* recorded events name.                                                   *)
ReadIdentity(d) ==
  LET c == delivery[d]
      known == c.event.subject \in linked
      subjectChanged == \E r \in recorded : r.event.subject # c.event.subject
      boundUserChanged == /\ c.existing.user # Nobody
                          /\ ~(known /\ c.event.subject = c.existing.user)
  IN /\ c.pc = "identity"
     /\ Goto(d, [pc |-> "commit", event |-> c.event, existing |-> c.existing,
                 known |-> known, offer |-> mapped,
                 mismatch |-> /\ c.existing # Absent
                              /\ subjectChanged \/ boundUserChanged])
     /\ UNCHANGED <<receiptVars, orderVars, linked, mapped, repair>>

(* The order's first event; purchase_provider_site_order_uq refuses it     *)
(* when another delivery created the purchase meanwhile.                   *)
Create(d) ==
  LET c == delivery[d]
      e == c.event
      row == [status |-> e.status, last |-> e.at, offer |-> c.offer,
              user |-> IF c.known THEN e.subject ELSE Nobody]
  IN /\ c.pc = "commit" /\ c.existing = Absent /\ purchase = Absent
     /\ purchase' = row
     /\ recorded' = recorded \cup {[event |-> e, outcome |-> "applied"]}
     /\ \/ /\ ~c.known
           /\ cases' = cases \cup {Case("unresolved_identity", e, {})}
           /\ UNCHANGED grants
        \/ /\ c.known /\ ~c.offer
           /\ cases' = cases \cup {Case("unknown_sku", e, {})}
           /\ UNCHANGED grants
        \/ /\ c.known /\ c.offer
           /\ grants' = GrantEffect(grants, row, e.status)
           /\ cases' = cases \cup CaseEffect(grants, row, e.status, e)
     /\ Accept(d, e)
     /\ UNCHANGED <<raw, normalized, linked, mapped, repair>>

RefuseBuyer(d) ==
  LET c == delivery[d]
      e == c.event
  IN /\ c.pc = "commit" /\ c.mismatch /\ Unrecorded(e)
     /\ recorded' = recorded \cup
          {[event |-> e, outcome |-> "ignored_identity_mismatch"]}
     /\ cases' = cases \cup {Case("identity_mismatch", e, {})}
     /\ Accept(d, e)
     /\ UNCHANGED <<raw, normalized, purchase, grants, linked, mapped, repair>>

Write(b) == purchase' = b.row /\ grants' = b.grants /\ cases' = b.cases

(* The transition of a purchase that exists.  A buyer who has signed in    *)
(* since is bound first, on the locked row; the transition itself is       *)
(* decided on the status and time read before.                             *)
Apply(d) ==
  LET c == delivery[d]
      e == c.event
      old == c.existing
      late == c.known /\ old.user = Nobody
      b == IF late /\ Bindable(e.subject) THEN Bound(e.subject) ELSE Unchanged
      current == IF late /\ b.row.user # Nobody THEN b.row ELSE old
      transition == Transition(old, e)
  IN /\ c.pc = "commit" /\ old # Absent /\ ~c.mismatch /\ Unrecorded(e)
     /\ recorded' = recorded \cup {[event |-> e, outcome |-> OutcomeOf(transition)]}
     /\ \/ /\ transition \in {"stale", "illegal"}
           /\ Write([b EXCEPT !.cases = @ \cup {Case("ambiguous_transition", e, {})}])
        \/ /\ transition = "duplicate"
           /\ Write([b EXCEPT !.row.status = old.status, !.row.last = e.at])
        \/ /\ transition = "apply"
           /\ Write([row |-> [b.row EXCEPT !.status = e.status, !.last = e.at],
                     grants |-> GrantEffect(b.grants, current, e.status),
                     cases |-> b.cases \cup CaseEffect(b.grants, current, e.status, e)])
     /\ Accept(d, e)
     /\ UNCHANGED <<raw, normalized, linked, mapped, repair>>

(* The request dies, or its transaction fails on a unique index. *)
AbortDelivery(d) ==
  /\ delivery[d] # Idle
  /\ Goto(d, Idle)
  /\ UNCHANGED <<receiptVars, orderVars, linked, mapped, repair>>

----------------------------------------------------------------------------
(* Sign-in, the claim on the landing page, and the catalogue.              *)
SignIn(u) ==
  /\ u \notin linked
  /\ linked' = linked \cup {u}
  /\ UNCHANGED <<receiptVars, orderVars, mapped, delivery, repair>>

(* A broken claim: the buyer's case is resolved, a paid order not granted. *)
ClaimWithoutGrant(u) ==
  /\ u \in linked
  /\ \E r \in recorded : r.event.subject = u
  /\ Bindable(u)
  /\ Write([Bound(u) EXCEPT !.grants = grants])
  /\ UNCHANGED <<receiptVars, recorded, linked, mapped, delivery, repair>>

(* claimPurchasesForUser *)
Claim(u) ==
  /\ u \in linked
  /\ \E r \in recorded : r.event.subject = u
  /\ Bindable(u)
  /\ Write(Bound(u))
  /\ UNCHANGED <<receiptVars, recorded, linked, mapped, delivery, repair>>

MapSku ==
  /\ ~mapped
  /\ mapped' = TRUE
  /\ UNCHANGED <<receiptVars, orderVars, linked, delivery, repair>>

----------------------------------------------------------------------------
(* repairReconciliationCase.                                               *)
Handle(o, c) == repair' = [repair EXCEPT ![o] = c]

(* The check that the case is open, before the transaction. *)
PickCase(o, k, decision) ==
  /\ repair[o] = Idle
  /\ k.status = "open"
  /\ k.type \in {"unresolved_identity", "unknown_sku", "ambiguous_transition",
                 "chargeback_review"}
  /\ Handle(o, [pc |-> "read", case |-> k, decision |-> decision])
  /\ UNCHANGED <<receiptVars, orderVars, linked, mapped, delivery>>

RepairRead(o) ==
  /\ repair[o].pc = "read"
  /\ Handle(o, [pc |-> "commit", case |-> repair[o].case,
                decision |-> repair[o].decision, row |-> purchase])
  /\ UNCHANGED <<receiptVars, orderVars, linked, mapped, delivery>>

Finish(o, status, b) ==
  /\ Write([b EXCEPT !.cases = Closing(@, {repair[o].case}, status)])
  /\ Handle(o, Idle)
  /\ UNCHANGED <<receiptVars, recorded, linked, mapped, delivery>>

(* The write a repair makes: the status and time of the row it read, with  *)
(* the field it repairs, and the effects of the status on that row.        *)
Repaired(row, status, at, patched, effects, e) ==
  [row |-> [patched EXCEPT !.status = status, !.last = at],
   grants |-> IF effects THEN GrantEffect(grants, row, status) ELSE grants,
   cases |-> IF effects THEN cases \cup CaseEffect(grants, row, status, e) ELSE cases]

(* A broken repair: the grants of an order are issued when its SKU is      *)
(* mapped, paid or not.                                                    *)
RepairSkuUnpaid(o) ==
  LET c == repair[o]
  IN /\ c.pc = "commit" /\ c.case.type = "unknown_sku" /\ mapped
     /\ Finish(o, "resolved",
          [Repaired([c.row EXCEPT !.offer = TRUE], c.row.status, c.row.last,
                    [purchase EXCEPT !.offer = TRUE], FALSE, c.case.event)
             EXCEPT !.grants = Issue(@, c.row.user)])

RepairSku(o) ==
  LET c == repair[o]
  IN /\ c.pc = "commit" /\ c.case.type = "unknown_sku" /\ mapped
     /\ Finish(o, "resolved",
          Repaired([c.row EXCEPT !.offer = TRUE], c.row.status, c.row.last,
                   [purchase EXCEPT !.offer = TRUE], c.row.status = "paid",
                   c.case.event))

(* A broken repair: the case is resolved though its buyer is still unknown.*)
RepairIdentityUnchecked(o) ==
  LET c == repair[o]
      u == c.case.event.subject
      known == u \in linked
      row == IF known THEN [c.row EXCEPT !.user = u] ELSE c.row
  IN /\ c.pc = "commit" /\ c.case.type = "unresolved_identity"
     /\ Finish(o, "resolved",
          Repaired(row, c.row.status, c.row.last,
                   IF known THEN [purchase EXCEPT !.user = u] ELSE purchase,
                   known /\ c.row.status = "paid" /\ c.row.offer, c.case.event))

RepairIdentity(o) ==
  LET c == repair[o]
      u == c.case.event.subject
  IN /\ c.pc = "commit" /\ c.case.type = "unresolved_identity" /\ u \in linked
     /\ Finish(o, "resolved",
          Repaired([c.row EXCEPT !.user = u], c.row.status, c.row.last,
                   [purchase EXCEPT !.user = u],
                   c.row.status = "paid" /\ c.row.offer, c.case.event))

(* An operator applies the pending event, stamped with the repair's time,  *)
(* or leaves it.                                                           *)
RepairTransition(o, now) ==
  LET c == repair[o]
      e == c.case.event
  IN /\ c.pc = "commit" /\ c.case.type = "ambiguous_transition"
     /\ \A x \in normalized : x.at <= now
     /\ \/ /\ c.decision = "apply"
           /\ Finish(o, "resolved",
                Repaired([c.row EXCEPT !.status = e.status], e.status, now,
                         purchase, TRUE, e))
        \/ /\ c.decision = "reject"
           /\ Finish(o, "ignored_with_reason", Unchanged)

(* A confirmed chargeback revokes the grants its case suspended. *)
RepairChargeback(o) ==
  LET c == repair[o]
  IN /\ c.pc = "commit" /\ c.case.type = "chargeback_review"
     /\ \/ /\ c.decision = "apply"
           /\ Finish(o, "resolved",
                [Unchanged EXCEPT !.grants =
                   [u \in Subjects |-> IF u \in c.case.held THEN "revoked" ELSE @[u]]])
        \/ /\ c.decision = "reject"
           /\ Finish(o, "ignored_with_reason", Unchanged)

(* The request dies, or finds the case still blocked. *)
AbortRepair(o) ==
  /\ repair[o] # Idle
  /\ Handle(o, Idle)
  /\ UNCHANGED <<receiptVars, orderVars, linked, mapped, delivery>>

----------------------------------------------------------------------------
Init ==
  /\ raw = {} /\ normalized = {} /\ accepted = {}
  /\ purchase = Absent /\ recorded = {} /\ cases = {}
  /\ grants = [u \in Subjects |-> "none"]
  /\ linked = {} /\ mapped \in BOOLEAN
  /\ delivery = [d \in Deliveries |-> Idle]
  /\ repair = [o \in Operators |-> Idle]

Process(d) ==
  \/ ReadPurchase(d) \/ ReadIdentity(d) \/ Create(d) \/ RefuseBuyer(d)
  \/ Apply(d) \/ AbortDelivery(d)

Repair(o) ==
  \/ \E k \in cases, decision \in {"apply", "reject"} : PickCase(o, k, decision)
  \/ RepairRead(o) \/ RepairSku(o) \/ RepairIdentity(o) \/ RepairChargeback(o)
  \/ \E now \in Times : RepairTransition(o, now)
  \/ AbortRepair(o)

Next ==
  \/ \E d \in Deliveries : \/ \E e \in Events : Receive(d, e, TRUE)
                           \/ \E e \in Unsigned : Receive(d, e, FALSE)
                           \/ Process(d)
  \/ \E u \in Subjects : SignIn(u) \/ Claim(u)
  \/ MapSku
  \/ \E o \in Operators : Repair(o)

Spec == Init /\ [][Next]_vars

----------------------------------------------------------------------------
(* Properties.                                                             *)

Row == [status : States \cup {"absent"}, last : 0..LastTime,
        user : Subjects \cup {Nobody}, offer : BOOLEAN]
CaseRow == [type : CaseTypes, event : Events, held : SUBSET Subjects,
            status : {"open", "resolved", "ignored_with_reason"}]
Processing == {Idle}
  \cup [pc : {"begin"}, event : Events]
  \cup [pc : {"identity"}, event : Events, existing : Row]
  \cup [pc : {"commit"}, event : Events, existing : Row, known : BOOLEAN,
        offer : BOOLEAN, mismatch : BOOLEAN]
Repairing == {Idle}
  \cup [pc : {"read"}, case : CaseRow, decision : {"apply", "reject"}]
  \cup [pc : {"commit"}, case : CaseRow, decision : {"apply", "reject"}, row : Row]

(* The type invariant. *)
TypeOK ==
  /\ raw \subseteq {"id", "checksum"} \X Events
  /\ normalized \subseteq Events /\ accepted \subseteq Events
  /\ purchase \in Row
  /\ recorded \subseteq [event : Events, outcome : Outcomes]
  /\ grants \in [Subjects -> {"none", "active", "suspended", "revoked"}]
  /\ cases \subseteq CaseRow
  /\ linked \subseteq Subjects /\ mapped \in BOOLEAN
  /\ delivery \in [Deliveries -> Processing]
  /\ repair \in [Operators -> Repairing]

(* An order has one buyer, whoever races to bind it: only that user holds  *)
(* its grants, and every event it took named them.                         *)
OneBuyer ==
  /\ \A u \in Subjects : grants[u] # "none" => purchase.user = u
  /\ purchase.user # Nobody =>
       \A r \in recorded : r.outcome # "ignored_identity_mismatch" =>
         r.event.subject = purchase.user

(* An event is recorded once, however often it is delivered and however    *)
(* many deliveries of it overlap.                                          *)
EventOnce == \A r, q \in recorded : r.event = q.event => r = q

(* A paid order whose buyer and offer are known is granted, or a human has *)
(* an open case about it, whenever its buyer claims it.  (Deliveries that  *)
(* overlap can break this for an order reopened as below.)                 *)
PaidIsServed ==
  purchase.status = "paid" /\ purchase.user # Nobody /\ purchase.offer =>
    \/ grants[purchase.user] # "none"
    \/ \E k \in cases : k.status = "open"

(* An order without a buyer keeps an open case asking for one, until it is *)
(* bound.                                                                  *)
UnboundIsQueued ==
  purchase # Absent /\ purchase.user = Nobody =>
    \E k \in cases : k.type = "unresolved_identity" /\ k.status = "open"

(* Grants exist only for an order one of whose accepted events says paid. *)
GrantedMeansPaid ==
  \A u \in Subjects : grants[u] # "none" =>
    \E r \in recorded : /\ r.event.status = "paid" /\ r.event.subject = u
                        /\ r.outcome # "ignored_identity_mismatch"

(* Accepting is processing: an event of a known type that the sender was   *)
(* told is accepted is recorded on its purchase, though an earlier request *)
(* died between its receipt and its lifecycle, deliveries of it overlap,   *)
(* or an unverified copy of it came first (commerce-receipt-service.ts).   *)
AcceptedIsRecorded ==
  \A e \in accepted \ Unreadable : \E r \in recorded : r.event = e

(* An order that an event closed for good stays closed: reopening one is a *)
(* case for a human, never an automatic transition.                        *)
TerminalIsFinal ==
  \A r \in recorded : r.outcome = "applied" /\ r.event.status \in Terminal =>
    purchase.status = r.event.status

(* The purchase shows the newest event it took, in whatever order they     *)
(* were delivered.                                                         *)
StatusIsNewest ==
  purchase # Absent =>
    LET taken == {r \in recorded : r.outcome \in {"applied", "ignored_duplicate"}}
    IN /\ \E r \in taken : r.event.status = purchase.status
                           /\ r.event.at = purchase.last
       /\ \A r \in taken : r.event.at <= purchase.last

=============================================================================
