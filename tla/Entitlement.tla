---------------------------- MODULE Entitlement ----------------------------
(***************************************************************************)
(* What a student's purchases entitle to (packages/domain/src/access/,     *)
(* packages/db/src/access/): windows of validity, the decision over        *)
(* overlapping grants, its cache, and the two drift checks of              *)
(* entitlement-rebuild-service.ts.                                         *)
(*                                                                         *)
(* A decision is read in steps, the grants and then each grant's events,   *)
(* while payments commit.  A payment's transaction invalidates the cache   *)
(* before it commits, so a read in between stores what is no longer true;  *)
(* a drift check compares the cache with a fresh read and empties it.      *)
(*                                                                         *)
(* A payment grants only an order whose SKU has an offer; it leaves a case *)
(* about the others, and the repair of that case grants once there is one. *)
(*                                                                         *)
(* Abstracted: one student and one server process; a target stands for a   *)
(* target with an action; a product has one component; no caller records   *)
(* an activation or supplies the hierarchy of targets; transactions on one *)
(* purchase do not race, and what its buyer, its transitions and its       *)
(* chargebacks leave to repair is not here (Commerce has these); a drift   *)
(* check dies only with its process, which also empties the cache.         *)
(***************************************************************************)
EXTENDS Integers, Sequences, FiniteSets, FiniteSetsExt

CONSTANTS
    Orders,     \* purchases, in the order they were placed: a set of numbers
    Policy,     \* [Orders -> [validity, claims]], validity [mode, startsAt,
                \* endsAt, days], claims a sequence of [target, startsAt, endsAt]
    Unmapped,   \* orders whose SKU may have had no offer when they were placed
    Queried,
    Endings,    \* what a paid purchase may become
    Tasks,      \* requests served at once
    FinalDay, MaxRequests, MaxCases,   \* bounds on days, requests and cases
    NoDate      \* an absent date, grant or decision

ASSUME EntitlementAssumption ==
    /\ Orders \subseteq Nat /\ DOMAIN Policy = Orders
    /\ Unmapped \subseteq Orders
    /\ Endings \subseteq {"refunded_full", "cancelled", "chargeback", "refunded_partial"}

VARIABLES
    day, requests,
    purchase,   \* purchases.status
    offered,    \* purchases with an offerId
    grant,      \* the order's row of access_grants: [from, to]
    ended,      \* types of its grant_events
    cases,      \* reconciliation_cases, in the order they were raised
    cached,     \* the process's decision on each target
    paying,     \* what each purchase's transaction is about to commit
    task,       \* what each request is doing
    vouched,    \* history: targets a drift check read undisturbed, until the next change
    repaired    \* history: purchases that a repair granted

source == <<purchase, offered, grant, ended, repaired>>
entitlementVars == <<day, requests, source, cases, cached, paying, task, vouched>>

Idle == [pc |-> "idle", for |-> "nothing"]
Case(type, o) == [type |-> type, order |-> o, status |-> "open"]
Terminal == {"resolved", "ignored_with_reason"}
Decision(reason, decisive, ignored, from, to) ==
    [reason |-> reason, decisive |-> decisive, ignored |-> ignored, from |-> from, to |-> to]
Allowed(d) == d.decisive # {}

-----------------------------------------------------------------------------
(* Pure functions of packages/domain/src/access. *)

Window(from, to) == [from |-> from, to |-> to]

\* Of its modes, through_program_or_batch_end needs an end that the only
\* caller never passes, and manual dates are never passed either.
Usable(v) ==
    CASE v.mode = "fixed_window" -> NoDate \notin {v.startsAt, v.endsAt} /\ v.endsAt > v.startsAt
      [] v.mode \in {"duration_after_purchase", "duration_after_activation"} ->
           v.days # NoDate /\ v.days > 0
      [] v.mode \in {"lifetime", "manual"} -> TRUE
      [] OTHER -> FALSE

ComputeValidityWindow(v, issuedAt) ==
    CASE v.mode = "fixed_window" -> Window(v.startsAt, v.endsAt)
      [] v.mode = "duration_after_purchase" -> Window(issuedAt, issuedAt + v.days)
      [] v.mode = "duration_after_activation" -> Window(NoDate, NoDate)
      [] OTHER -> Window(issuedAt, NoDate)

\* A grant pending its activation has no window and stays scheduled.
DeriveGrantStatus(o, events, now) ==
    IF "revoked" \in events THEN "revoked"
    ELSE IF "suspended" \in events THEN "suspended"
    ELSE IF Policy[o].validity.mode = "duration_after_activation" THEN "scheduled"
    ELSE IF grant[o].from > now THEN "scheduled"
    ELSE IF grant[o].to # NoDate /\ grant[o].to <= now THEN "expired"
    ELSE "active"

ClaimMatches(claim, target) == claim.target = target
Claiming(o, target) == \E i \in DOMAIN Policy[o].claims : ClaimMatches(Policy[o].claims[i], target)
FirstClaim(o, target) ==
    LET at == {i \in DOMAIN Policy[o].claims : ClaimMatches(Policy[o].claims[i], target)}
    IN  Policy[o].claims[Min(at)]

\* The later start and the earlier end; one that is absent does not narrow.
Dates(D) == D \ {NoDate}
NarrowedWindow(w, claim) ==
    LET from == Dates({w.from, claim.startsAt})
        to   == Dates({w.to, claim.endsAt})
    IN  Window(IF from = {} THEN NoDate ELSE Max(from), IF to = {} THEN NoDate ELSE Min(to))

EarliestStart(windows) ==
    LET starts == Dates({w.from : w \in windows}) IN IF starts = {} THEN NoDate ELSE Min(starts)
LatestSupportingEnd(windows) ==
    LET ends == {w.to : w \in windows} IN IF NoDate \in ends THEN NoDate ELSE Max(ends)

\* status: the derived status of each grant read.
ResolveEffectiveAccess(status, target) ==
    LET claiming  == {o \in DOMAIN status : Claiming(o, target)}
        active    == {o \in claiming : status[o] = "active"}
        scheduled == {o \in claiming : status[o] = "scheduled"}
        windows(S) == {NarrowedWindow(grant[o], FirstClaim(o, target)) : o \in S}
        rest      == claiming \ (active \cup scheduled)
    IN  CASE claiming = {} -> Decision("NOT_CLAIMED", {}, {}, NoDate, NoDate)
          [] active # {} ->
               Decision(IF Cardinality(claiming) > 1 THEN "OVERLAPPING_ACTIVE_GRANT" ELSE "ACTIVE_GRANT",
                        active, claiming \ active,
                        EarliestStart(windows(active)), LatestSupportingEnd(windows(active)))
          [] active = {} /\ scheduled # {} ->
               Decision("SCHEDULED", {}, rest,
                        EarliestStart({IF Policy[o].validity.mode = "duration_after_activation"
                                       THEN Window(FirstClaim(o, target).startsAt, NoDate)
                                       ELSE NarrowedWindow(grant[o], FirstClaim(o, target)) : o \in scheduled}),
                        NoDate)
          [] OTHER -> Decision("NO_ACTIVE_GRANT", {}, rest, NoDate, NoDate)

\* A broken comparison: it only asks whether the cache allows too much.
DriftsIfPermissive(held, rebuilt) == held # NoDate /\ Allowed(held) /\ ~Allowed(rebuilt)

\* compareEffectiveAccessDecisions, its hasDrift.
Drifts(held, rebuilt) ==
    /\ held # NoDate
    /\ \/ Allowed(held) # Allowed(rebuilt)
       \/ Allowed(held) /\ Allowed(rebuilt) /\ held.decisive # rebuilt.decisive

-----------------------------------------------------------------------------
(* Payments. *)

Change == vouched' = {}   \* of what the database holds
Disturbed == [t \in Tasks |-> IF task[t].for = "drift" THEN [task[t] EXCEPT !.quiet = FALSE] ELSE task[t]]

\* A transaction under way has invalidated the student if it is to issue a
\* grant or to record an event.
Touches(o, status) ==
    \/ status = "paid" /\ o \in offered /\ Usable(Policy[o].validity)
    \/ status \in {"refunded_full", "cancelled", "chargeback"} /\ grant[o] # NoDate

PaymentArrives(o, status) ==
    /\ paying[o] = NoDate
    /\ status \in CASE purchase[o] = "pending" -> {"paid"}
                     [] purchase[o] = "paid" -> Endings
                     [] OTHER -> {}
    /\ requests < MaxRequests /\ requests' = requests + 1
    /\ paying' = [paying EXCEPT ![o] = status]
    /\ cached' = IF Touches(o, status) THEN [q \in Queried |-> NoDate] ELSE cached
    /\ UNCHANGED <<day, source, cases, task, vouched>>

\* A grant is issued once under its source key.
Issued(o) == IF Usable(Policy[o].validity) /\ grant[o] = NoDate
             THEN [grant EXCEPT ![o] = ComputeValidityWindow(Policy[o].validity, day)]
             ELSE grant

RaisedBy(o, status) ==
    CASE status = "paid" /\ o \notin offered -> <<Case("unknown_sku", o)>>
      [] status = "paid" /\ o \in offered /\ ~Usable(Policy[o].validity) ->
           <<Case("policy_validity_unresolvable", o)>>
      [] status = "chargeback" -> <<Case("chargeback_review", o)>>
      [] status = "refunded_partial" -> <<Case("unverifiable_partial_refund", o)>>
      [] OTHER -> <<>>

\* applyPurchaseStatusEffects.
PaymentCommits(o) ==
    LET status == paying[o]
    IN  /\ status \notin {NoDate, "repair"}
        /\ purchase' = [purchase EXCEPT ![o] = status]
        /\ grant' = IF status = "paid" /\ o \in offered THEN Issued(o) ELSE grant
        /\ ended' = IF grant[o] = NoDate THEN ended
                    ELSE [ended EXCEPT ![o] = @ \cup
                            (IF status \in {"refunded_full", "cancelled"} THEN {"revoked"}
                             ELSE IF status = "chargeback" THEN {"suspended"} ELSE {})]
        /\ cases' = cases \o RaisedBy(o, status)
        /\ paying' = [paying EXCEPT ![o] = NoDate]
        /\ task' = Disturbed /\ Change
        /\ UNCHANGED <<day, requests, offered, cached, repaired>>

PaymentRollsBack(o) ==
    /\ paying[o] # NoDate /\ paying' = [paying EXCEPT ![o] = NoDate]
    /\ UNCHANGED <<day, requests, source, cases, cached, task, vouched>>

\* repairReconciliationCase reads the case outside its transaction; while the
\* SKU has no offer, it changes nothing.
RepairArrives(o, i) ==
    /\ paying[o] = NoDate
    /\ i \in DOMAIN cases /\ cases[i].order = o
    /\ cases[i].type = "unknown_sku" /\ cases[i].status \notin Terminal
    /\ requests < MaxRequests /\ requests' = requests + 1
    /\ paying' = [paying EXCEPT ![o] = "repair"]
    /\ cached' = IF purchase[o] = "paid" /\ Usable(Policy[o].validity)
                 THEN [q \in Queried |-> NoDate] ELSE cached
    /\ UNCHANGED <<day, source, cases, task, vouched>>

RepairedCase(k, o) ==
    IF k.type = "unknown_sku" /\ k.order = o /\ k.status \notin Terminal
    THEN [k EXCEPT !.status = "resolved"] ELSE k

\* repairUnknownSku: the purchase has its offer, and its grant if it is paid.
RepairCommits(o) ==
    LET granting == purchase[o] = "paid"
        fails    == granting /\ ~Usable(Policy[o].validity)
    IN  /\ paying[o] = "repair"
        /\ offered' = offered \cup {o}
        /\ grant' = IF granting THEN Issued(o) ELSE grant
        /\ repaired' = IF granting THEN repaired \cup {o} ELSE repaired
        /\ cases' = [i \in DOMAIN cases |-> RepairedCase(cases[i], o)]
                    \o IF fails THEN <<Case("policy_validity_unresolvable", o)>> ELSE <<>>
        /\ paying' = [paying EXCEPT ![o] = NoDate]
        /\ task' = Disturbed /\ Change
        /\ UNCHANGED <<day, requests, purchase, ended, cached>>

-----------------------------------------------------------------------------
(* A query and a cache drift check. *)

Starts(t, c) ==
    /\ task[t] = Idle /\ requests < MaxRequests
    /\ requests' = requests + 1
    /\ task' = [task EXCEPT ![t] = c]
    /\ UNCHANGED <<day, source, cases, cached, paying, vouched>>
Goes(t, c) == task' = [task EXCEPT ![t] = c] /\ UNCHANGED <<day, requests, source, paying>>

\* What a read has found so far: the status of each grant read.
Unread == [o \in {} |-> "active"]
Noted(status, o, found) == [x \in DOMAIN status \cup {o} |-> IF x = o THEN found ELSE status[x]]

\* getEffectiveAccess: a hit reads nothing.
Query(t, q) ==
    /\ cached[q] = NoDate
    /\ Starts(t, [pc |-> "list", for |-> "query", target |-> q, at |-> day, todo |-> {}, status |-> Unread])

\* detectEffectiveAccessDrift takes the cache's answer first.  Its read is
\* quiet while no query is under way and nothing changes.
CheckDrift(t, q) ==
    Starts(t, [pc |-> "list", for |-> "drift", target |-> q, at |-> day, todo |-> {}, status |-> Unread,
               held |-> cached[q], quiet |-> \A u \in Tasks : task[u].for # "query"])

ListGrants(t) ==
    LET c == task[t]
    IN  /\ c.pc = "list"
        /\ Goes(t, [c EXCEPT !.pc = "events", !.todo = {o \in Orders : grant[o] # NoDate}])
        /\ UNCHANGED <<cases, cached, vouched>>

\* Grants in creation order, each with its policy and its events.
ReadEvents(t) ==
    LET c == task[t]
        o == Min(c.todo)
    IN  /\ c.pc = "events" /\ c.todo # {}
        /\ Goes(t, [c EXCEPT !.todo = @ \ {o},
                             !.status = Noted(@, o, DeriveGrantStatus(o, ended[o], c.at))])
        /\ UNCHANGED <<cases, cached, vouched>>

\* What disturbs a drift check stores while it reads.
StoreDecision(t) ==
    LET c == task[t]
    IN  /\ c.pc = "events" /\ c.todo = {} /\ c.for = "query"
        /\ cached' = [cached EXCEPT ![c.target] = ResolveEffectiveAccess(c.status, c.target)]
        /\ task' = [Disturbed EXCEPT ![t] = Idle]
        /\ UNCHANGED <<day, requests, source, paying, cases, vouched>>

RepairDrift(t) ==
    LET c == task[t]
        rebuilt == ResolveEffectiveAccess(c.status, c.target)
    IN  /\ c.pc = "events" /\ c.todo = {} /\ c.for = "drift"
        /\ cached' = IF Drifts(c.held, rebuilt) THEN [q \in Queried |-> NoDate] ELSE cached
        /\ vouched' = IF c.quiet THEN vouched \cup {c.target} ELSE vouched
        /\ Goes(t, Idle) /\ UNCHANGED cases

-----------------------------------------------------------------------------
(* detectPurchaseGrantDrift: paid purchases, then grants, then each paid    *)
(* purchase without one.                                                   *)

PaidWithoutGrant(paid) == {o \in paid : grant[o] = NoDate}

CheckPurchases(t) ==
    Starts(t, [pc |-> "paid", for |-> "purchases"])

\* A broken filter: pending purchases are listed too.
ListPurchases(t) ==
    /\ task[t].pc = "paid"
    /\ Goes(t, [pc |-> "granted", for |-> "purchases",
                paid |-> {o \in Orders : purchase[o] \in {"pending", "paid"}}])
    /\ UNCHANGED <<cases, cached, vouched>>

ListPaid(t) ==
    LET paid == {o \in Orders : purchase[o] = "paid"}
    IN  /\ task[t].pc = "paid"
        /\ Goes(t, IF paid = {} THEN Idle ELSE [pc |-> "granted", for |-> "purchases", paid |-> paid])
        /\ UNCHANGED <<cases, cached, vouched>>

ListGranted(t) ==
    LET c == task[t]
    IN  /\ c.pc = "granted"
        /\ Goes(t, [pc |-> "cases", for |-> "purchases", todo |-> PaidWithoutGrant(c.paid)])
        /\ UNCHANGED <<cases, cached, vouched>>

Open(o) == \E i \in DOMAIN cases :
             cases[i].order = o /\ cases[i].type = "paid_purchase_no_grant" /\ cases[i].status \notin Terminal

\* The cases of the next purchase are read, and one raised unless one is open.
FindCase(t) ==
    LET c == task[t]
        o == Min(c.todo)
    IN  /\ c.pc = "cases" /\ c.todo # {}
        /\ Goes(t, IF Open(o) THEN [c EXCEPT !.todo = @ \ {o}] ELSE [c EXCEPT !.pc = "raise"])
        /\ UNCHANGED <<cases, cached, vouched>>

RaiseCase(t) ==
    LET c == task[t]
        o == Min(c.todo)
    IN  /\ c.pc = "raise" /\ Len(cases) < MaxCases
        /\ cases' = Append(cases, Case("paid_purchase_no_grant", o))
        /\ Goes(t, [c EXCEPT !.pc = "cases", !.todo = @ \ {o}])
        /\ UNCHANGED <<cached, vouched>>

Report(t) ==
    /\ task[t].pc = "cases" /\ task[t].todo = {}
    /\ Goes(t, Idle) /\ UNCHANGED <<cases, cached, vouched>>

\* assignReconciliationCase, resolveReconciliationCase: a closed case stays.
MoveCase(i, status) ==
    /\ i \in DOMAIN cases /\ cases[i].status \notin Terminal /\ cases[i].status # status
    /\ requests < MaxRequests /\ requests' = requests + 1
    /\ cases' = [cases EXCEPT ![i].status = status]
    /\ UNCHANGED <<day, source, cached, paying, task, vouched>>

-----------------------------------------------------------------------------

NextDay ==
    /\ day < FinalDay /\ day' = day + 1
    /\ task' = Disturbed /\ Change
    /\ UNCHANGED <<requests, source, cases, cached, paying>>

EntitlementInit ==
    /\ day = 0 /\ requests = 0
    /\ purchase = [o \in Orders |-> "pending"]
    /\ \E S \in SUBSET Unmapped : offered = Orders \ S
    /\ grant = [o \in Orders |-> NoDate] /\ ended = [o \in Orders |-> {}]
    /\ cases = <<>> /\ cached = [q \in Queried |-> NoDate]
    /\ paying = [o \in Orders |-> NoDate]
    /\ task = [t \in Tasks |-> Idle]
    /\ vouched = {} /\ repaired = {}

EntitlementNext ==
    \/ \E o \in Orders, status \in Endings \cup {"paid"} : PaymentArrives(o, status)
    \/ \E o \in Orders : PaymentCommits(o) \/ PaymentRollsBack(o) \/ RepairCommits(o)
    \/ \E o \in Orders, i \in 1..MaxCases : RepairArrives(o, i)
    \/ \E t \in Tasks, q \in Queried : Query(t, q) \/ CheckDrift(t, q)
    \/ \E t \in Tasks : ListGrants(t) \/ ReadEvents(t) \/ StoreDecision(t) \/ RepairDrift(t)
    \/ \E t \in Tasks : CheckPurchases(t) \/ ListPaid(t) \/ ListGranted(t)
    \/ \E t \in Tasks : FindCase(t) \/ RaiseCase(t) \/ Report(t)
    \/ \E i \in 1..MaxCases, status \in {"assigned", "resolved"} : MoveCase(i, status)
    \/ NextDay

EntitlementSpec == EntitlementInit /\ [][EntitlementNext]_entitlementVars

-----------------------------------------------------------------------------

\* What a fresh read of the database decides at this moment.
Rebuilt(q) ==
    ResolveEffectiveAccess([o \in {x \in Orders : grant[x] # NoDate} |->
                              DeriveGrantStatus(o, ended[o], day)], q)

(* A decision kept past a drift check agrees with the database until       *)
(* something changes: after detectEffectiveAccessDrift read undisturbed,   *)
(* the cache of that target is empty or allows what the grants, their      *)
(* events and the day allow, by the same grants and for the same window.   *)
DriftCheckVouches ==
    \A q \in vouched : cached[q] # NoDate =>
      /\ Allowed(cached[q]) = Allowed(Rebuilt(q))
      /\ Allowed(cached[q]) => /\ cached[q].decisive = Rebuilt(q).decisive
                               /\ cached[q].to = Rebuilt(q).to

(* detectPurchaseGrantDrift raises no false alarm: a purchase it reports   *)
(* was paid, and has no grant unless the repair of its unmapped SKU issued *)
(* one, however payments and repairs commit between its reads.  An order   *)
(* that was granted as it was paid is never reported.                      *)
AlarmIsReal ==
    \A i \in DOMAIN cases : cases[i].type = "paid_purchase_no_grant" =>
        /\ purchase[cases[i].order] # "pending"
        /\ grant[cases[i].order] = NoDate \/ cases[i].order \in repaired

=============================================================================
