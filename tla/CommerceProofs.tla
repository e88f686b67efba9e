--------------------------- MODULE CommerceProofs ---------------------------
(***************************************************************************)
(* Proofs about Commerce, for any events of an order, any number of        *)
(* webhook requests, buyers and operators at once, and about Catalogue,    *)
(* for any files and any number of runs of the loader at once.             *)
(***************************************************************************)
EXTENDS Commerce, Catalogue, TLAPS

(* The order took an event, and one that says paid. *)
Accepted(rs, e) == \E r \in rs : r.event = e /\ r.outcome # "ignored_identity_mismatch"
SaysPaid(rs) == \E r \in rs : r.event.status = "paid" /\ r.outcome # "ignored_identity_mismatch"
Names(rs, u) == \A r \in rs : r.outcome # "ignored_identity_mismatch" => r.event.subject = u

(* The events taken name one buyer. *)
OneSubject(rs) ==
  \A r, q \in rs : r.outcome # "ignored_identity_mismatch" /\ q.outcome # "ignored_identity_mismatch"
                     => r.event.subject = q.event.subject

Begun ==
  IF purchase = Absent THEN recorded = {} /\ cases = {} /\ \A u \in Subjects : grants[u] = "none"
  ELSE purchase.status \in States /\ \E e \in Events : Accepted(recorded, e)

BuyerNamed == purchase.user # Nobody => Names(recorded, purchase.user)
GrantsHeld == \A u \in Subjects : grants[u] # "none" => purchase.user = u /\ SaysPaid(recorded)
PaidIsSaid == purchase.status = "paid" => SaysPaid(recorded)

(* A case is about an event the order took, but for a refused buyer's.     *)
CaseFits(k, rs, g) ==
  /\ k.type # "identity_mismatch" => Accepted(rs, k.event)
  /\ \A u \in k.held : u \in Subjects /\ g[u] # "none"

(* A row read earlier: its buyer is still the buyer. *)
RowFits(row, now, rs) ==
  /\ row.status \in States
  /\ row.user # Nobody => now.user = row.user
  /\ row.status = "paid" => SaysPaid(rs)

DeliveryFits(c, now, rs, ns) ==
  /\ c # Idle => c.event \in ns
  /\ c.pc \in {"identity", "commit"} => (c.existing # Absent => now # Absent /\ RowFits(c.existing, now, rs))
  /\ c.pc = "commit" /\ c.existing # Absent /\ ~c.mismatch => Names(rs, c.event.subject)
  /\ c.pc = "commit" /\ c.mismatch => c.existing # Absent

RepairFits(c, now, rs, g) ==
  /\ c.pc \in {"read", "commit"} => CaseFits(c.case, rs, g) /\ c.case.type # "identity_mismatch"
  /\ c.pc = "commit" => RowFits(c.row, now, rs)

Order ==
  /\ Begun /\ OneSubject(recorded) /\ EventOnce /\ BuyerNamed /\ GrantsHeld /\ PaidIsSaid
  /\ UnboundIsQueued /\ \A k \in cases : CaseFits(k, recorded, grants)

(* A delivery stored under its event's id was normalized, if it could be.  *)
Receipts ==
  /\ \A e \in Events \ Unreadable : EventKey(e, TRUE) \in raw => e \in normalized
  /\ AcceptedIsRecorded

Inv ==
  /\ TypeOK /\ Order /\ Receipts
  /\ \A d \in Deliveries : DeliveryFits(delivery[d], purchase, recorded, normalized)
  /\ \A o \in Operators : RepairFits(repair[o], purchase, recorded, grants)

----------------------------------------------------------------------------
LEMMA SubjectFacts ==
  /\ Nobody \notin Subjects
  /\ \A e \in Events : e.subject \in Subjects /\ e.status \in States /\ e.at \in Times
  /\ "absent" \notin States
  /\ Times \subseteq 0..LastTime
BY EventAssumption, TimeAssumption DEF Subjects, States, Times

LEMMA InitInv == Init => Inv
<1> SUFFICES ASSUME Init PROVE Inv
  OBVIOUS
<1>1. TypeOK
  BY TimeAssumption DEF Init, TypeOK, Absent, Row, Processing, Repairing
<1>2. Order
  BY SubjectFacts DEF Init, Order, Begun, OneSubject, EventOnce, BuyerNamed, GrantsHeld,
    PaidIsSaid, UnboundIsQueued, Absent
<1>3. \A d \in Deliveries : DeliveryFits(delivery[d], purchase, recorded, normalized)
  BY DEF Init, DeliveryFits, Idle
<1>4. \A o \in Operators : RepairFits(repair[o], purchase, recorded, grants)
  BY DEF Init, RepairFits, Idle
<1>5. Receipts
  BY DEF Init, Receipts, AcceptedIsRecorded
<1> QED BY <1>1, <1>2, <1>3, <1>4, <1>5 DEF Inv

----------------------------------------------------------------------------
(* What the handlers are built of. *)
GrantStates == {"none", "active", "suspended", "revoked"}

LEMMA GrantEffectFacts ==
  ASSUME NEW g \in [Subjects -> GrantStates], NEW row \in Row, NEW status
  PROVE  /\ GrantEffect(g, row, status) \in [Subjects -> GrantStates]
         /\ \A u \in Subjects : g[u] # "none" => GrantEffect(g, row, status)[u] # "none"
         /\ \A u \in Subjects : GrantEffect(g, row, status)[u] # "none" =>
              g[u] # "none" \/ (u = row.user /\ status = "paid")
<1> DEFINE u0 == row.user
<1>1. u0 \in Subjects \cup {Nobody}
  BY DEF Row
<1>2. CASE u0 = Nobody
  <2>1. GrantEffect(g, row, status) = g
    BY <1>2 DEF GrantEffect
  <2> QED BY <2>1
<1>3. CASE u0 # Nobody /\ status = "paid" /\ row.offer
  <2>1. GrantEffect(g, row, status) = Issue(g, u0)
    BY <1>3 DEF GrantEffect
  <2> QED BY <1>1, <1>3, <2>1 DEF Issue, GrantStates
<1>4. CASE u0 # Nobody /\ status \in {"refunded_full", "cancelled"}
  <2>1. GrantEffect(g, row, status) = Revoke(g, u0)
    BY <1>4 DEF GrantEffect
  <2> QED BY <1>1, <1>4, <2>1 DEF Revoke, GrantStates
<1>5. CASE u0 # Nobody /\ status = "chargeback"
  <2>1. GrantEffect(g, row, status) = Suspend(g, u0)
    BY <1>5 DEF GrantEffect
  <2> QED BY <1>1, <1>5, <2>1 DEF Suspend, GrantStates
<1>6. CASE /\ u0 # Nobody /\ ~(status = "paid" /\ row.offer)
           /\ status \notin {"refunded_full", "cancelled", "chargeback"}
  <2>1. GrantEffect(g, row, status) = g
    BY <1>6 DEF GrantEffect
  <2> QED BY <2>1
<1> QED BY <1>2, <1>3, <1>4, <1>5, <1>6

LEMMA CaseEffectFacts ==
  ASSUME NEW g \in [Subjects -> GrantStates], NEW row \in Row, NEW status, NEW e \in Events,
         NEW k \in CaseEffect(g, row, status, e)
  PROVE  /\ k \in CaseRow /\ k.event = e /\ k.type # "identity_mismatch"
         /\ \A u \in k.held : u \in Subjects /\ g[u] # "none"
<1>1. row.user \in Subjects \cup {Nobody}
  BY DEF Row
<1>2. CASE \E type \in CaseTypes \ {"identity_mismatch"} : k = Case(type, e, {})
  BY <1>2 DEF Case, CaseRow
<1>3. CASE row.user # Nobody /\ k = Case("chargeback_review", e, {u \in {row.user} : g[u] # "none"})
  BY <1>1, <1>3 DEF Case, CaseRow, CaseTypes
<1> QED BY <1>2, <1>3 DEF CaseEffect, CaseTypes

LEMMA ClosingFacts ==
  ASSUME NEW ks \in SUBSET CaseRow, NEW which, NEW status \in {"resolved", "ignored_with_reason"},
         NEW k \in Closing(ks, which, status)
  PROVE  k \in CaseRow /\ \E j \in ks : k.type = j.type /\ k.event = j.event /\ k.held = j.held
<1>1. CASE k \in ks
  BY <1>1
<1>2. CASE \E j \in ks : k = [j EXCEPT !.status = status]
  <2>1. PICK j \in ks : k = [j EXCEPT !.status = status]
    BY <1>2
  <2>2. j \in CaseRow
    OBVIOUS
  <2>3. k \in CaseRow /\ k.type = j.type /\ k.event = j.event /\ k.held = j.held
    BY <2>1, <2>2 DEF CaseRow
  <2> QED BY <2>3
<1> QED BY <1>1, <1>2 DEF Closing

LEMMA ClosingKeepsOthers ==
  ASSUME NEW ks, NEW which, NEW status, NEW k \in ks, k \notin which
  PROVE  k \in Closing(ks, which, status)
BY DEF Closing

(* Records and rows kept fit later states. *)
LEMMA FitsLater ==
  ASSUME NEW now, NEW now2, NEW rs, NEW rs2, NEW g, NEW g2, NEW ns, NEW ns2,
         rs \subseteq rs2, ns \subseteq ns2, OneSubject(rs2),
         now # Absent => now2 # Absent /\ \E e : Accepted(rs, e),
         now.user # Nobody => now2.user = now.user,
         \A u \in Subjects : g[u] # "none" => g2[u] # "none"
  PROVE  /\ \A k : CaseFits(k, rs, g) => CaseFits(k, rs2, g2)
         /\ \A c : DeliveryFits(c, now, rs, ns) => DeliveryFits(c, now2, rs2, ns2)
         /\ \A c : RepairFits(c, now, rs, g) => RepairFits(c, now2, rs2, g2)
<1>1. \A e : Accepted(rs, e) => Accepted(rs2, e)
  BY DEF Accepted
<1>2. SaysPaid(rs) => SaysPaid(rs2)
  BY DEF SaysPaid
<1>3. \A k : CaseFits(k, rs, g) => CaseFits(k, rs2, g2)
  BY <1>1 DEF CaseFits
<1>4. \A row : RowFits(row, now, rs) => RowFits(row, now2, rs2)
  BY <1>2 DEF RowFits
<1>5. \A u : now # Absent /\ Names(rs, u) => Names(rs2, u)
  BY DEF Names, OneSubject, Accepted
<1>6. \A c : DeliveryFits(c, now, rs, ns) => DeliveryFits(c, now2, rs2, ns2)
  BY <1>4, <1>5 DEF DeliveryFits
<1>7. \A c : RepairFits(c, now, rs, g) => RepairFits(c, now2, rs2, g2)
  BY <1>3, <1>4 DEF RepairFits
<1> QED BY <1>3, <1>6, <1>7

(* What is accepted stays recorded, and the event a request has recorded   *)
(* may be accepted.                                                        *)
LEMMA ReceiptsLater ==
  ASSUME Inv, UNCHANGED <<raw, normalized>>, recorded \subseteq recorded',
         \A e \in accepted' \ accepted : \E r \in recorded' : r.event = e
  PROVE  Receipts'
BY DEF Inv, Receipts, AcceptedIsRecorded, EventKey

LEMMA AcceptFacts ==
  ASSUME Inv, NEW e \in Events, NEW out, accepted' = accepted \cup {e},
         recorded' = recorded \cup {[event |-> e, outcome |-> out]}
  PROVE  /\ accepted' \subseteq Events
         /\ \A x \in accepted' \ accepted : \E r \in recorded' : r.event = x
<1> DEFINE new == [event |-> e, outcome |-> out]
<1>1. new \in recorded' /\ new.event = e
  OBVIOUS
<1> HIDE DEF new
<1> QED BY <1>1 DEF Inv, TypeOK

(* A write to the order by one request, which ends with it. *)
LEMMA OrderStep ==
  ASSUME Inv, UNCHANGED <<raw, normalized, linked, mapped>>,
         purchase' \in Row, recorded' \subseteq [event : Events, outcome : Outcomes],
         grants' \in [Subjects -> GrantStates], cases' \subseteq CaseRow,
         purchase'.status \in States,
         purchase.user # Nobody => purchase'.user = purchase.user,
         recorded \subseteq recorded',
         \A u \in Subjects : grants[u] # "none" => grants'[u] # "none",
         Order', accepted' \subseteq Events,
         \A e \in accepted' \ accepted : \E r \in recorded' : r.event = e,
         delivery' \in [Deliveries -> Processing], repair' \in [Operators -> Repairing],
         \A d \in Deliveries : delivery'[d] \in {delivery[d], Idle},
         \A o \in Operators : repair'[o] \in {repair[o], Idle}
  PROVE  Inv'
<1>1. TypeOK'
  BY DEF Inv, TypeOK, GrantStates
<1>2. purchase' # Absent
  BY SubjectFacts DEF Absent
<1>3. purchase # Absent => \E e : Accepted(recorded, e)
  BY DEF Inv, Order, Begun
<1>4. OneSubject(recorded')
  BY DEF Order
<1>5. /\ \A c : DeliveryFits(c, purchase, recorded, normalized) =>
                    DeliveryFits(c, purchase', recorded', normalized')
      /\ \A c : RepairFits(c, purchase, recorded, grants) =>
                    RepairFits(c, purchase', recorded', grants')
  <2>1. /\ recorded \subseteq recorded' /\ normalized \subseteq normalized'
        /\ purchase # Absent => purchase' # Absent /\ \E e : Accepted(recorded, e)
        /\ purchase.user # Nobody => purchase'.user = purchase.user
        /\ \A u \in Subjects : grants[u] # "none" => grants'[u] # "none"
    BY <1>2, <1>3
  <2> QED BY ONLY <1>4, <2>1, FitsLater
<1>6. /\ DeliveryFits(Idle, purchase', recorded', normalized')
      /\ RepairFits(Idle, purchase', recorded', grants')
  BY DEF DeliveryFits, RepairFits, Idle
<1>7. \A d \in Deliveries : DeliveryFits(delivery'[d], purchase', recorded', normalized')
  BY <1>5, <1>6 DEF Inv
<1>8. \A o \in Operators : RepairFits(repair'[o], purchase', recorded', grants')
  BY <1>5, <1>6 DEF Inv
<1>9. Receipts'
  BY ReceiptsLater
<1> QED BY <1>1, <1>7, <1>8, <1>9 DEF Inv

(* A step that writes nothing of the order. *)
LEMMA QuietStep ==
  ASSUME Inv, UNCHANGED orderVars, TypeOK', Receipts', normalized \subseteq normalized',
         \A d \in Deliveries : \/ delivery'[d] = delivery[d]
                              \/ DeliveryFits(delivery'[d], purchase, recorded, normalized'),
         \A o \in Operators : \/ repair'[o] = repair[o]
                             \/ RepairFits(repair'[o], purchase, recorded, grants)
  PROVE  Inv'
<1>1. Order'
  BY DEF Inv, Order, orderVars, Begun, EventOnce, BuyerNamed, GrantsHeld, PaidIsSaid, UnboundIsQueued
<1>2. \A d \in Deliveries : DeliveryFits(delivery[d], purchase, recorded, normalized')
  BY DEF Inv, DeliveryFits
<1>3. \A d \in Deliveries : DeliveryFits(delivery'[d], purchase', recorded', normalized')
  BY <1>2 DEF orderVars
<1>4. \A o \in Operators : RepairFits(repair'[o], purchase', recorded', grants')
  BY DEF Inv, orderVars
<1> QED BY <1>1, <1>3, <1>4 DEF Inv

----------------------------------------------------------------------------
(* What the state offers a handler. *)
LEMMA Held ==
  ASSUME Inv
  PROVE  /\ purchase \in Row /\ recorded \subseteq [event : Events, outcome : Outcomes]
         /\ grants \in [Subjects -> GrantStates] /\ cases \subseteq CaseRow
         /\ purchase = Absent => /\ recorded = {} /\ cases = {}
                                /\ \A u \in Subjects : grants[u] = "none"
         /\ purchase # Absent => purchase.status \in States /\ recorded # {}
BY DEF Inv, TypeOK, GrantStates, Order, Begun, Accepted

LEMMA CommitHeld ==
  ASSUME Inv, NEW d \in Deliveries, delivery[d].pc = "commit"
  PROVE  /\ delivery[d].event \in Events /\ delivery[d].existing \in Row
         /\ delivery[d].known \in BOOLEAN /\ delivery[d].offer \in BOOLEAN
         /\ delivery[d].mismatch \in BOOLEAN
         /\ delivery[d] # Idle
<1>1. delivery[d] \in Processing
  BY DEF Inv, TypeOK
<1> QED BY <1>1 DEF Processing, Idle

LEMMA RepairHeld ==
  ASSUME Inv, NEW o \in Operators, repair[o].pc = "commit"
  PROVE  /\ repair[o].case \in CaseRow /\ repair[o].row \in Row
         /\ repair[o].case.event \in Events /\ repair[o].case.held \in SUBSET Subjects
         /\ CaseFits(repair[o].case, recorded, grants) /\ Accepted(recorded, repair[o].case.event)
         /\ RowFits(repair[o].row, purchase, recorded)
         /\ purchase # Absent /\ repair[o].row.status \in States
<1>1. repair[o] \in Repairing
  BY DEF Inv, TypeOK
<1>2. repair[o].case \in CaseRow /\ repair[o].row \in Row
  BY <1>1 DEF Repairing, Idle
<1>3. /\ CaseFits(repair[o].case, recorded, grants) /\ Accepted(recorded, repair[o].case.event)
      /\ RowFits(repair[o].row, purchase, recorded)
  BY DEF Inv, RepairFits, CaseFits
<1>4. purchase # Absent
  BY <1>3, Held DEF Accepted
<1> QED BY <1>2, <1>3, <1>4 DEF CaseRow, RowFits

(* One more event is recorded. *)
LEMMA RecordFacts ==
  ASSUME NEW rs \in SUBSET [event : Events, outcome : Outcomes], NEW e \in Events, NEW out \in Outcomes,
         OneSubject(rs), \A r, q \in rs : r.event = q.event => r = q,
         \A r \in rs : r.event # e,
         out # "ignored_identity_mismatch" => Names(rs, e.subject),
         NEW rs2, rs2 = rs \cup {[event |-> e, outcome |-> out]}
  PROVE  /\ rs2 \subseteq [event : Events, outcome : Outcomes] /\ rs \subseteq rs2
         /\ OneSubject(rs2) /\ \A r, q \in rs2 : r.event = q.event => r = q
         /\ out # "ignored_identity_mismatch" =>
              /\ Accepted(rs2, e) /\ Names(rs2, e.subject)
              /\ e.status = "paid" => SaysPaid(rs2)
         /\ out = "ignored_identity_mismatch" => \A u : Names(rs, u) => Names(rs2, u)
<1>1. /\ rs2 \subseteq [event : Events, outcome : Outcomes] /\ rs \subseteq rs2
      /\ \A r, q \in rs2 : r.event = q.event => r = q
  OBVIOUS
<1>2. out # "ignored_identity_mismatch" => Accepted(rs2, e) /\ (e.status = "paid" => SaysPaid(rs2))
  <2> DEFINE new == [event |-> e, outcome |-> out]
  <2>1. new \in rs2 /\ new.event = e /\ new.outcome = out
    OBVIOUS
  <2> HIDE DEF new
  <2> QED BY <2>1 DEF Accepted, SaysPaid
<1>3. out # "ignored_identity_mismatch" => Names(rs2, e.subject)
  BY DEF Names
<1>4. out = "ignored_identity_mismatch" => \A u : Names(rs, u) => Names(rs2, u)
  BY DEF Names
<1>5. OneSubject(rs2)
  <2>1. CASE out = "ignored_identity_mismatch"
    BY <2>1 DEF OneSubject
  <2>2. CASE out # "ignored_identity_mismatch"
    BY <1>3, <2>2 DEF OneSubject, Names
  <2> QED BY <2>1, <2>2
<1> QED BY <1>1, <1>2, <1>3, <1>4, <1>5

(* The order's first event. *)
LEMMA CreateKeeps ==
  ASSUME Inv, NEW d \in Deliveries, Create(d)
  PROVE  Inv'
<1> DEFINE c == delivery[d]
           e == c.event
           row == [status |-> e.status, last |-> e.at, offer |-> c.offer,
                   user |-> IF c.known THEN e.subject ELSE Nobody]
<1>1. /\ c.pc = "commit" /\ purchase = Absent /\ purchase' = row
      /\ recorded' = recorded \cup {[event |-> e, outcome |-> "applied"]}
      /\ delivery' = [delivery EXCEPT ![d] = Idle]
      /\ accepted' = accepted \cup {e}
      /\ UNCHANGED <<raw, normalized, linked, mapped, repair>>
  BY DEF Create, Goto, Accept
<1>2. /\ e \in Events /\ c.known \in BOOLEAN /\ c.offer \in BOOLEAN
      /\ e.subject \in Subjects /\ e.status \in States /\ e.at \in Times
  BY <1>1, CommitHeld, SubjectFacts
<1>3. /\ row \in Row /\ row.status = e.status /\ row.user \in Subjects \cup {Nobody}
      /\ row.user # Nobody => row.user = e.subject
      /\ row.user = Nobody <=> ~c.known
  BY <1>2, SubjectFacts DEF Row
<1>4. recorded = {} /\ cases = {} /\ \A u \in Subjects : grants[u] = "none"
  BY <1>1, Held
<1>5. /\ recorded' \subseteq [event : Events, outcome : Outcomes] /\ recorded \subseteq recorded'
      /\ OneSubject(recorded') /\ \A r, q \in recorded' : r.event = q.event => r = q
      /\ Accepted(recorded', e) /\ Names(recorded', e.subject)
      /\ e.status = "paid" => SaysPaid(recorded')
  <2>1. OneSubject(recorded) /\ Names(recorded, e.subject)
    BY <1>4 DEF OneSubject, Names
  <2> QED BY <1>1, <1>2, <1>4, <2>1, RecordFacts DEF Outcomes
<1>6. /\ grants' \in [Subjects -> GrantStates]
      /\ \A u \in Subjects : grants'[u] # "none" => u = row.user /\ e.status = "paid"
      /\ cases' \subseteq CaseRow
      /\ \A k \in cases' : /\ k.type # "identity_mismatch" /\ k.event = e
                          /\ \A u \in k.held : u \in Subjects /\ grants[u] # "none"
      /\ ~c.known => \E k \in cases' : k.type = "unresolved_identity" /\ k.status = "open"
  <2>0. /\ grants \in [Subjects -> GrantStates]
        /\ \A type \in CaseTypes \ {"identity_mismatch"} :
              LET k == Case(type, e, {})
              IN  /\ k \in CaseRow /\ k.type = type /\ k.status = "open" /\ k.event = e /\ k.held = {}
    BY <1>2, Held DEF Case, CaseRow
  <2>1. CASE ~c.known /\ cases' = cases \cup {Case("unresolved_identity", e, {})} /\ UNCHANGED grants
    <3>1. "unresolved_identity" \in CaseTypes \ {"identity_mismatch"}
      BY DEF CaseTypes
    <3> QED BY <1>4, <2>0, <2>1, <3>1
  <2>2. CASE c.known /\ cases' = cases \cup {Case("unknown_sku", e, {})} /\ UNCHANGED grants
    <3>1. "unknown_sku" \in CaseTypes \ {"identity_mismatch"}
      BY DEF CaseTypes
    <3> QED BY <1>4, <2>0, <2>2, <3>1
  <2>3. CASE /\ c.known /\ grants' = GrantEffect(grants, row, e.status)
             /\ cases' = cases \cup CaseEffect(grants, row, e.status, e)
    <3>1. \A k \in CaseEffect(grants, row, e.status, e) :
            /\ k \in CaseRow /\ k.event = e /\ k.type # "identity_mismatch"
            /\ \A u \in k.held : u \in Subjects /\ grants[u] # "none"
      BY <1>2, <1>3, <2>0, CaseEffectFacts
    <3>2. /\ GrantEffect(grants, row, e.status) \in [Subjects -> GrantStates]
          /\ \A u \in Subjects : GrantEffect(grants, row, e.status)[u] # "none" =>
               grants[u] # "none" \/ (u = row.user /\ e.status = "paid")
      BY <1>3, <2>0, GrantEffectFacts
    <3> QED BY <1>4, <2>3, <3>1, <3>2
  <2> QED BY <1>1, <1>2, <2>1, <2>2, <2>3 DEF Create
<1> HIDE DEF row
<1>7. Order'
  <2>1. Begun' /\ PaidIsSaid'
    BY <1>1, <1>2, <1>3, <1>5, SubjectFacts DEF Begun, PaidIsSaid, Absent
  <2>2. BuyerNamed' /\ EventOnce'
    BY <1>1, <1>3, <1>5 DEF BuyerNamed, EventOnce
  <2>3. GrantsHeld'
    BY <1>1, <1>5, <1>6 DEF GrantsHeld
  <2>4. UnboundIsQueued'
    BY <1>1, <1>3, <1>6 DEF UnboundIsQueued
  <2>5. \A k \in cases' : CaseFits(k, recorded', grants')
    BY <1>4, <1>5, <1>6 DEF CaseFits
  <2> QED BY <1>5, <2>1, <2>2, <2>3, <2>4, <2>5 DEF Order
<1>8. /\ delivery' \in [Deliveries -> Processing] /\ repair' \in [Operators -> Repairing]
      /\ \A x \in Deliveries : delivery'[x] \in {delivery[x], Idle}
      /\ \A o \in Operators : repair'[o] \in {repair[o], Idle}
  BY <1>1 DEF Inv, TypeOK, Processing
<1> QED
  BY <1>1, <1>2, <1>3, <1>4, <1>5, <1>6, <1>7, <1>8, AcceptFacts, OrderStep DEF Absent

(* What a transaction leaves of an order that is there fits. *)
LEMMA OrderLater ==
  ASSUME Inv, purchase # Absent, purchase'.status \in States,
         purchase.user # Nobody => purchase'.user = purchase.user,
         recorded \subseteq recorded', OneSubject(recorded'),
         \A r, q \in recorded' : r.event = q.event => r = q,
         purchase'.user # Nobody => Names(recorded', purchase'.user),
         purchase'.status = "paid" => SaysPaid(recorded'),
         \A u \in Subjects : grants'[u] # "none" =>
           grants[u] # "none" \/ (u = purchase'.user /\ SaysPaid(recorded')),
         \A k \in cases' : CaseFits(k, recorded', grants'),
         purchase'.user = Nobody => \E k \in cases' : k.type = "unresolved_identity" /\ k.status = "open"
  PROVE  Order'
<1>1. Begun'
  <2>1. PICK e \in Events : Accepted(recorded, e)
    BY DEF Inv, Order, Begun
  <2>2. Accepted(recorded', e)
    BY <2>1 DEF Accepted
  <2>3. purchase' # Absent
    BY SubjectFacts DEF Absent
  <2> QED BY <2>2, <2>3 DEF Begun
<1>2. GrantsHeld'
  <2> SUFFICES ASSUME NEW u \in Subjects, grants'[u] # "none"
               PROVE  purchase'.user = u /\ SaysPaid(recorded')
    BY DEF GrantsHeld
  <2>1. CASE grants[u] # "none"
    <3>1. purchase.user = u /\ SaysPaid(recorded)
      BY <2>1 DEF Inv, Order, GrantsHeld
    <3> QED BY <3>1, SubjectFacts DEF SaysPaid
  <2> QED BY <2>1
<1>3. BuyerNamed' /\ PaidIsSaid' /\ EventOnce' /\ UnboundIsQueued'
  BY DEF BuyerNamed, PaidIsSaid, EventOnce, UnboundIsQueued
<1> QED BY <1>1, <1>2, <1>3 DEF Order

LEMMA RefuseBuyerKeeps ==
  ASSUME Inv, NEW d \in Deliveries, RefuseBuyer(d)
  PROVE  Inv'
<1> DEFINE c == delivery[d]
           e == c.event
           refused == Case("identity_mismatch", e, {})
<1>1. /\ c.pc = "commit" /\ c.mismatch /\ \A r \in recorded : r.event # e
      /\ recorded' = recorded \cup {[event |-> e, outcome |-> "ignored_identity_mismatch"]}
      /\ cases' = cases \cup {refused}
      /\ delivery' = [delivery EXCEPT ![d] = Idle]
      /\ accepted' = accepted \cup {e}
      /\ UNCHANGED <<raw, normalized, purchase, grants, linked, mapped, repair>>
  BY DEF RefuseBuyer, Goto, Accept, Unrecorded
<1>2. e \in Events
  BY <1>1, CommitHeld
<1>3. purchase # Absent /\ purchase.status \in States
  <2>1. DeliveryFits(delivery[d], purchase, recorded, normalized)
    BY DEF Inv
  <2> QED BY <1>1, <2>1, Held DEF DeliveryFits
<1>4. /\ recorded' \subseteq [event : Events, outcome : Outcomes] /\ recorded \subseteq recorded'
      /\ OneSubject(recorded') /\ \A r, q \in recorded' : r.event = q.event => r = q
      /\ \A u : Names(recorded, u) => Names(recorded', u)
  <2>1. /\ recorded \in SUBSET [event : Events, outcome : Outcomes] /\ OneSubject(recorded)
        /\ \A r, q \in recorded : r.event = q.event => r = q
    BY Held DEF Inv, Order, EventOnce
  <2>2. "ignored_identity_mismatch" \in Outcomes
    BY DEF Outcomes
  <2> DEFINE new == [event |-> e, outcome |-> "ignored_identity_mismatch"]
  <2>3. /\ new \in [event : Events, outcome : Outcomes] /\ recorded' = recorded \cup {new}
        /\ new.event = e /\ new.outcome = "ignored_identity_mismatch"
    BY <1>1, <1>2, <2>2
  <2>4. \A r \in recorded : r.event # e
    BY <1>1
  <2> HIDE DEF e, new
  <2>5. OneSubject(recorded')
    BY <2>1, <2>3 DEF OneSubject
  <2>6. \A u : Names(recorded, u) => Names(recorded', u)
    BY <2>3 DEF Names
  <2>7. \A r, q \in recorded' : r.event = q.event => r = q
    BY <2>1, <2>3, <2>4
  <2> QED BY <2>1, <2>3, <2>5, <2>6, <2>7
<1>5. refused \in CaseRow /\ refused.type = "identity_mismatch" /\ refused.held = {}
  BY <1>2 DEF Case, CaseRow, CaseTypes
<1>6. cases' \subseteq CaseRow /\ \A k \in cases' : CaseFits(k, recorded', grants')
  <2>1. \A k \in cases : CaseFits(k, recorded, grants)
    BY DEF Inv, Order
  <2>2. \A k \in cases : CaseFits(k, recorded', grants')
    BY <1>1, <1>4, <2>1 DEF CaseFits, Accepted
  <2>3. CaseFits(refused, recorded', grants')
    BY <1>5 DEF CaseFits
  <2> QED BY <1>1, <1>5, <2>2, <2>3, Held
<1>7. Order'
  <2>1. purchase'.user # Nobody => Names(recorded', purchase'.user)
    BY <1>1, <1>4 DEF Inv, Order, BuyerNamed
  <2>2. purchase'.status = "paid" => SaysPaid(recorded')
    BY <1>1, <1>4 DEF Inv, Order, PaidIsSaid, SaysPaid
  <2>3. purchase'.user = Nobody => \E k \in cases' : k.type = "unresolved_identity" /\ k.status = "open"
    BY <1>1, <1>3 DEF Inv, Order, UnboundIsQueued
  <2> QED BY <1>1, <1>3, <1>4, <1>6, <2>1, <2>2, <2>3, OrderLater
<1>8. /\ delivery' \in [Deliveries -> Processing] /\ repair' \in [Operators -> Repairing]
      /\ \A x \in Deliveries : delivery'[x] \in {delivery[x], Idle}
      /\ \A o \in Operators : repair'[o] \in {repair[o], Idle}
  BY <1>1 DEF Inv, TypeOK, Processing
<1> QED BY <1>1, <1>2, <1>3, <1>4, <1>6, <1>7, <1>8, Held, AcceptFacts, OrderStep

(* Every event the order took names the buyer one of them names. *)
LEMMA AcceptedNames ==
  ASSUME Inv, NEW e, Accepted(recorded, e)
  PROVE  Names(recorded, e.subject) /\ (purchase.user # Nobody => purchase.user = e.subject)
<1>1. Names(recorded, e.subject)
  BY DEF Inv, Order, OneSubject, Accepted, Names
<1>2. purchase.user # Nobody => purchase.user = e.subject
  BY DEF Inv, Order, BuyerNamed, Accepted, Names
<1> QED BY <1>1, <1>2

(* What a bind, or none, leaves for the write that follows. *)
LEMMA BoundFacts ==
  ASSUME Inv, purchase # Absent, NEW u \in Subjects, NEW b,
         b = Unchanged \/ (Bindable(u) /\ b = Bound(u))
  PROVE  /\ b = [row |-> b.row, grants |-> b.grants, cases |-> b.cases]
         /\ b.row \in Row /\ b.row.status = purchase.status
         /\ b.row.user = purchase.user \/ (purchase.user = Nobody /\ b.row.user = u)
         /\ b.row.user # Nobody => Names(recorded, b.row.user)
         /\ b.grants \in [Subjects -> GrantStates]
         /\ \A v \in Subjects : grants[v] # "none" => b.grants[v] # "none"
         /\ \A v \in Subjects : b.grants[v] # "none" => b.row.user = v /\ SaysPaid(recorded)
         /\ b.cases \subseteq CaseRow
         /\ \A k \in b.cases : CaseFits(k, recorded, b.grants)
         /\ b.row.user = Nobody => \E k \in b.cases : k.type = "unresolved_identity" /\ k.status = "open"
<1>1. /\ purchase \in Row /\ grants \in [Subjects -> GrantStates] /\ cases \subseteq CaseRow
      /\ purchase.user # Nobody => Names(recorded, purchase.user)
      /\ \A v \in Subjects : grants[v] # "none" => purchase.user = v /\ SaysPaid(recorded)
      /\ purchase.status = "paid" => SaysPaid(recorded)
      /\ \A k \in cases : CaseFits(k, recorded, grants)
      /\ purchase.user = Nobody => \E k \in cases : k.type = "unresolved_identity" /\ k.status = "open"
      /\ u # Nobody
  BY Held, SubjectFacts DEF Inv, Order, BuyerNamed, GrantsHeld, PaidIsSaid, UnboundIsQueued
<1>2. CASE b = Unchanged
  <2>1. /\ b = [row |-> b.row, grants |-> b.grants, cases |-> b.cases]
        /\ b.row = purchase /\ b.grants = grants /\ b.cases = cases
    BY <1>2 DEF Unchanged
  <2> QED BY <1>1, <2>1
<1>3. CASE Bindable(u) /\ b = Bound(u)
  <2> DEFINE row == [purchase EXCEPT !.user = u]
             g == IF purchase.status = "paid" /\ purchase.offer THEN Issue(grants, u) ELSE grants
             ks == Closing(cases, {k \in cases : k.type = "unresolved_identity"}, "resolved")
  <2>1. /\ b = [row |-> b.row, grants |-> b.grants, cases |-> b.cases]
        /\ b.row = row /\ b.grants = g /\ b.cases = ks
    BY <1>3 DEF Bound
  <2>2. purchase.user = Nobody /\ Names(recorded, u) /\ \A v \in Subjects : grants[v] = "none"
    BY <1>1, <1>3, SubjectFacts DEF Bindable, Names
  <2>3. row \in Row /\ row.status = purchase.status /\ row.user = u
    BY <1>1 DEF Row
  <2>4. /\ g \in [Subjects -> GrantStates]
        /\ \A v \in Subjects : g[v] # "none" => v = u /\ purchase.status = "paid"
    BY <1>1, <2>2 DEF Issue, GrantStates
  <2>5. ks \subseteq CaseRow /\ \A k \in ks : CaseFits(k, recorded, g)
    <3>1. \A k \in ks : k \in CaseRow /\ \E j \in cases : k.type = j.type /\ k.event = j.event /\ k.held = j.held
      BY <1>1, ClosingFacts
    <3>2. \A k \in cases : k.held = {}
      BY <1>1, <2>2 DEF CaseFits
    <3> QED BY <1>1, <3>1, <3>2 DEF CaseFits
  <2> HIDE DEF row, g, ks
  <2> QED BY <1>1, <2>1, <2>2, <2>3, <2>4, <2>5
<1> QED BY <1>2, <1>3

(* The transition of an order that is there, after a late bind or none. *)
LEMMA ApplyKeeps ==
  ASSUME Inv, NEW d \in Deliveries, Apply(d)
  PROVE  Inv'
<1> DEFINE c == delivery[d]
           e == c.event
           old == c.existing
           late == c.known /\ old.user = Nobody
           b == IF late /\ Bindable(e.subject) THEN Bound(e.subject) ELSE Unchanged
           current == IF late /\ b.row.user # Nobody THEN b.row ELSE old
           transition == Transition(old, e)
           out == OutcomeOf(transition)
<1>1. /\ c.pc = "commit" /\ old # Absent /\ ~c.mismatch /\ \A r \in recorded : r.event # e
      /\ recorded' = recorded \cup {[event |-> e, outcome |-> out]}
      /\ delivery' = [delivery EXCEPT ![d] = Idle]
      /\ accepted' = accepted \cup {e}
      /\ UNCHANGED <<raw, normalized, linked, mapped, repair>>
      /\ \/ Write([b EXCEPT !.cases = @ \cup {Case("ambiguous_transition", e, {})}])
         \/ Write([b EXCEPT !.row.status = old.status, !.row.last = e.at])
         \/ Write([row |-> [b.row EXCEPT !.status = e.status, !.last = e.at],
                   grants |-> GrantEffect(b.grants, current, e.status),
                   cases |-> b.cases \cup CaseEffect(b.grants, current, e.status, e)])
  BY DEF Apply, Goto, Accept, Unrecorded
<1>2. /\ e \in Events /\ old \in Row /\ e.subject \in Subjects /\ e.status \in States /\ e.at \in 0..LastTime
      /\ c.known \in BOOLEAN
  BY <1>1, CommitHeld, SubjectFacts
<1>3. purchase # Absent /\ RowFits(old, purchase, recorded) /\ Names(recorded, e.subject)
  <2>1. DeliveryFits(delivery[d], purchase, recorded, normalized)
    BY DEF Inv
  <2> QED BY <1>1, <2>1 DEF DeliveryFits
<1>4. /\ recorded' \subseteq [event : Events, outcome : Outcomes] /\ recorded \subseteq recorded'
      /\ OneSubject(recorded') /\ \A r, q \in recorded' : r.event = q.event => r = q
      /\ Accepted(recorded', e) /\ Names(recorded', e.subject)
      /\ e.status = "paid" => SaysPaid(recorded')
      /\ SaysPaid(recorded) => SaysPaid(recorded')
      /\ \A k, g : CaseFits(k, recorded, g) => CaseFits(k, recorded', g)
  <2>1. /\ recorded \in SUBSET [event : Events, outcome : Outcomes] /\ OneSubject(recorded)
        /\ \A r, q \in recorded : r.event = q.event => r = q
    BY Held DEF Inv, Order, EventOnce
  <2>2. out \in Outcomes /\ out # "ignored_identity_mismatch"
    BY DEF Outcomes, OutcomeOf
  <2> HIDE DEF e, out
  <2>3. /\ recorded' \subseteq [event : Events, outcome : Outcomes] /\ recorded \subseteq recorded'
        /\ OneSubject(recorded') /\ \A r, q \in recorded' : r.event = q.event => r = q
        /\ Accepted(recorded', e) /\ Names(recorded', e.subject)
        /\ e.status = "paid" => SaysPaid(recorded')
    BY <1>1, <1>2, <1>3, <2>1, <2>2, RecordFacts
  <2>4. SaysPaid(recorded) => SaysPaid(recorded')
    BY <2>3 DEF SaysPaid
  <2>5. \A k, g : CaseFits(k, recorded, g) => CaseFits(k, recorded', g)
    BY <2>3 DEF CaseFits, Accepted
  <2> QED BY <2>3, <2>4, <2>5
<1>5. /\ b = [row |-> b.row, grants |-> b.grants, cases |-> b.cases]
      /\ b.row \in Row /\ b.row.status = purchase.status
      /\ b.row.user = purchase.user \/ (purchase.user = Nobody /\ b.row.user = e.subject)
      /\ b.row.user # Nobody => Names(recorded, b.row.user)
      /\ b.grants \in [Subjects -> GrantStates]
      /\ \A v \in Subjects : grants[v] # "none" => b.grants[v] # "none"
      /\ \A v \in Subjects : b.grants[v] # "none" => b.row.user = v /\ SaysPaid(recorded)
      /\ b.cases \subseteq CaseRow
      /\ \A k \in b.cases : CaseFits(k, recorded, b.grants)
      /\ b.row.user = Nobody => \E k \in b.cases : k.type = "unresolved_identity" /\ k.status = "open"
  <2>1. b = Unchanged \/ (Bindable(e.subject) /\ b = Bound(e.subject))
    OBVIOUS
  <2> HIDE DEF b, e
  <2> QED BY <1>2, <1>3, <2>1, BoundFacts
<1>6. current \in Row /\ (current.user # Nobody => current.user = b.row.user)
  <2>1. CASE late /\ b.row.user # Nobody
    BY <1>5, <2>1
  <2>2. CASE ~(late /\ b.row.user # Nobody)
    <3>1. current = old
      BY <2>2
    <3>2. old.user # Nobody => purchase.user = old.user
      BY <1>3 DEF RowFits
    <3>3. old.user # Nobody => b.row.user = purchase.user
      BY <1>5, <3>2
    <3> QED BY <1>2, <3>1, <3>2, <3>3
  <2> QED BY <2>1, <2>2
<1> HIDE DEF b, current, out, transition, e, old, late
<1>7. /\ purchase' \in Row /\ purchase'.status \in States /\ purchase'.user = b.row.user
      /\ purchase'.status = "paid" => SaysPaid(recorded')
      /\ grants' \in [Subjects -> GrantStates]
      /\ \A v \in Subjects : b.grants[v] # "none" => grants'[v] # "none"
      /\ \A v \in Subjects : grants'[v] # "none" => b.grants[v] # "none" \/ (v = b.row.user /\ SaysPaid(recorded'))
      /\ cases' \subseteq CaseRow /\ b.cases \subseteq cases'
      /\ \A k \in cases' : \/ k \in b.cases
                          \/ /\ k.type # "identity_mismatch" /\ k.event = e
                             /\ \A v \in k.held : v \in Subjects /\ b.grants[v] # "none"
  <2>1. purchase.status = "paid" => SaysPaid(recorded)
    BY DEF Inv, Order, PaidIsSaid
  <2>2. purchase.status \in States
    BY <1>3, Held
  <2>3. CASE Write([b EXCEPT !.cases = @ \cup {Case("ambiguous_transition", e, {})}])
    <3> DEFINE k == Case("ambiguous_transition", e, {})
    <3>1. purchase' = b.row /\ grants' = b.grants /\ cases' = b.cases \cup {k}
      BY <1>5, <2>3 DEF Write
    <3>2. k \in CaseRow /\ k.type # "identity_mismatch" /\ k.event = e /\ k.held = {}
      BY <1>2 DEF Case, CaseRow, CaseTypes
    <3> HIDE DEF k
    <3> QED BY <1>4, <1>5, <2>1, <2>2, <3>1, <3>2
  <2>4. CASE Write([b EXCEPT !.row.status = old.status, !.row.last = e.at])
    <3>1. purchase' = [b.row EXCEPT !.status = old.status, !.last = e.at] /\ grants' = b.grants /\ cases' = b.cases
      BY <1>5, <2>4 DEF Write, Row
    <3>2. old.status \in States /\ (old.status = "paid" => SaysPaid(recorded))
      BY <1>3 DEF RowFits
    <3>3. /\ purchase' \in Row /\ purchase'.status = old.status /\ purchase'.user = b.row.user
      BY <1>2, <1>5, <3>1, <3>2 DEF Row
    <3> QED BY <1>4, <1>5, <3>1, <3>2, <3>3
  <2>5. CASE Write([row |-> [b.row EXCEPT !.status = e.status, !.last = e.at],
                    grants |-> GrantEffect(b.grants, current, e.status),
                    cases |-> b.cases \cup CaseEffect(b.grants, current, e.status, e)])
    <3>1. /\ purchase' = [b.row EXCEPT !.status = e.status, !.last = e.at]
          /\ grants' = GrantEffect(b.grants, current, e.status)
          /\ cases' = b.cases \cup CaseEffect(b.grants, current, e.status, e)
      BY <2>5 DEF Write
    <3>2. purchase' \in Row /\ purchase'.status = e.status /\ purchase'.user = b.row.user
      BY <1>2, <1>5, <3>1 DEF Row
    <3>3. /\ grants' \in [Subjects -> GrantStates]
          /\ \A v \in Subjects : b.grants[v] # "none" => grants'[v] # "none"
          /\ \A v \in Subjects : grants'[v] # "none" =>
               b.grants[v] # "none" \/ (v = current.user /\ e.status = "paid")
      BY <1>5, <1>6, <3>1, GrantEffectFacts
    <3>4. \A v \in Subjects : v = current.user => v = b.row.user
      BY <1>6, SubjectFacts
    <3>5. \A k \in CaseEffect(b.grants, current, e.status, e) :
            /\ k \in CaseRow /\ k.event = e /\ k.type # "identity_mismatch"
            /\ \A v \in k.held : v \in Subjects /\ b.grants[v] # "none"
      BY <1>2, <1>5, <1>6, CaseEffectFacts
    <3> QED BY <1>2, <1>4, <1>5, <3>1, <3>2, <3>3, <3>4, <3>5
  <2> QED BY <1>1, <2>3, <2>4, <2>5
<1>8. \A k \in cases' : CaseFits(k, recorded', grants')
  <2>1. \A k \in b.cases : CaseFits(k, recorded', grants')
    BY <1>4, <1>5, <1>7 DEF CaseFits
  <2> QED BY <1>4, <1>7, <2>1 DEF CaseFits
<1>9. /\ purchase.user # Nobody => purchase'.user = purchase.user
      /\ purchase'.user # Nobody => Names(recorded', purchase'.user)
      /\ \A v \in Subjects : grants[v] # "none" => grants'[v] # "none"
      /\ \A v \in Subjects : grants'[v] # "none" => v = purchase'.user /\ SaysPaid(recorded')
      /\ purchase'.user = Nobody => \E k \in cases' : k.type = "unresolved_identity" /\ k.status = "open"
  <2>1. purchase'.user # Nobody => Names(recorded', purchase'.user)
    <3>1. SUFFICES ASSUME purchase'.user # Nobody PROVE purchase'.user = e.subject
      BY <1>4
    <3>2. purchase # Absent /\ \E r \in recorded : r.outcome # "ignored_identity_mismatch"
      BY <1>3 DEF Inv, Order, Begun, Accepted
    <3> QED BY <1>3, <1>5, <1>7, <3>1, <3>2 DEF Names
  <2> QED BY <1>4, <1>5, <1>7, <2>1
<1>10. Order'
  BY <1>3, <1>4, <1>7, <1>8, <1>9, OrderLater
<1>11. /\ delivery' \in [Deliveries -> Processing] /\ repair' \in [Operators -> Repairing]
       /\ \A x \in Deliveries : delivery'[x] \in {delivery[x], Idle}
       /\ \A o \in Operators : repair'[o] \in {repair[o], Idle}
  BY <1>1 DEF Inv, TypeOK, Processing
<1>12. /\ accepted' \subseteq Events
       /\ \A x \in accepted' \ accepted : \E r \in recorded' : r.event = x
  BY <1>1, <1>2, AcceptFacts
<1> QED BY <1>1, <1>4, <1>7, <1>9, <1>10, <1>11, <1>12, OrderStep

(* claimPurchasesForUser *)
LEMMA ClaimKeeps ==
  ASSUME Inv, NEW u \in Subjects, Claim(u)
  PROVE  Inv'
<1> DEFINE b == Bound(u)
<1>1. /\ Bindable(u) /\ \E r \in recorded : r.event.subject = u
      /\ purchase' = b.row /\ grants' = b.grants /\ cases' = b.cases
      /\ UNCHANGED <<raw, normalized, accepted, recorded, linked, mapped, delivery, repair>>
  BY DEF Claim, Write, receiptVars
<1>2. purchase # Absent
  BY <1>1, Held
<1>3. /\ b.row \in Row /\ b.row.status = purchase.status
      /\ b.row.user = purchase.user \/ (purchase.user = Nobody /\ b.row.user = u)
      /\ b.row.user # Nobody => Names(recorded, b.row.user)
      /\ b.grants \in [Subjects -> GrantStates]
      /\ \A v \in Subjects : grants[v] # "none" => b.grants[v] # "none"
      /\ \A v \in Subjects : b.grants[v] # "none" => b.row.user = v /\ SaysPaid(recorded)
      /\ b.cases \subseteq CaseRow
      /\ \A k \in b.cases : CaseFits(k, recorded, b.grants)
      /\ b.row.user = Nobody => \E k \in b.cases : k.type = "unresolved_identity" /\ k.status = "open"
  BY <1>1, <1>2, BoundFacts
<1> HIDE DEF b
<1>4. Order'
  <2>1. /\ OneSubject(recorded') /\ \A r, q \in recorded' : r.event = q.event => r = q
        /\ purchase.status = "paid" => SaysPaid(recorded)
    BY <1>1 DEF Inv, Order, EventOnce, PaidIsSaid
  <2> QED BY <1>1, <1>2, <1>3, <2>1, Held, OrderLater
<1>5. /\ delivery' \in [Deliveries -> Processing] /\ repair' \in [Operators -> Repairing]
      /\ recorded' \subseteq [event : Events, outcome : Outcomes] /\ accepted' \subseteq Events
  BY <1>1 DEF Inv, TypeOK
<1> QED BY <1>1, <1>2, <1>3, <1>4, <1>5, Held, OrderStep

----------------------------------------------------------------------------
(* Repairs.  A repair's write that fits the order keeps it. *)
LEMMA FinishKeeps ==
  ASSUME Inv, NEW o \in Operators, repair[o].pc = "commit",
         NEW status \in {"resolved", "ignored_with_reason"}, NEW b,
         b = [row |-> b.row, grants |-> b.grants, cases |-> b.cases], Finish(o, status, b),
         b.row \in Row, b.row.status \in States, purchase.user # Nobody => b.row.user = purchase.user,
         b.row.user # Nobody => Names(recorded, b.row.user),
         b.row.status = "paid" => SaysPaid(recorded),
         b.grants \in [Subjects -> GrantStates],
         \A v \in Subjects : grants[v] # "none" => b.grants[v] # "none",
         \A v \in Subjects : b.grants[v] # "none" =>
           grants[v] # "none" \/ (v = b.row.user /\ SaysPaid(recorded)),
         b.cases \subseteq CaseRow, cases \subseteq b.cases,
         \A k \in b.cases : CaseFits(k, recorded, b.grants),
         b.row.user = Nobody => repair[o].case.type # "unresolved_identity"
  PROVE  Inv'
<1> DEFINE ks == Closing(b.cases, {repair[o].case}, status)
<1>1. /\ purchase' = b.row /\ grants' = b.grants /\ cases' = ks
      /\ repair' = [repair EXCEPT ![o] = Idle]
      /\ UNCHANGED <<raw, normalized, accepted, recorded, linked, mapped, delivery>>
  <2>1. /\ Write([b EXCEPT !.cases = Closing(@, {repair[o].case}, status)])
        /\ repair' = [repair EXCEPT ![o] = Idle]
        /\ UNCHANGED <<raw, normalized, accepted, recorded, linked, mapped, delivery>>
    BY DEF Finish, Handle, receiptVars
  <2> QED BY <2>1 DEF Write
<1>2. ks \subseteq CaseRow /\ \A k \in ks : CaseFits(k, recorded, b.grants)
  <2>1. \A k \in ks : k \in CaseRow /\ \E j \in b.cases : k.type = j.type /\ k.event = j.event /\ k.held = j.held
    BY ClosingFacts
  <2> QED BY <2>1 DEF CaseFits
<1>3. b.row.user = Nobody => \E k \in ks : k.type = "unresolved_identity" /\ k.status = "open"
  <2> SUFFICES ASSUME b.row.user = Nobody
               PROVE  \E k \in ks : k.type = "unresolved_identity" /\ k.status = "open"
    OBVIOUS
  <2>1. purchase.user = Nobody /\ purchase # Absent
    BY RepairHeld
  <2>2. PICK k \in cases : k.type = "unresolved_identity" /\ k.status = "open"
    BY <2>1 DEF Inv, Order, UnboundIsQueued
  <2>3. k \in b.cases /\ k \notin {repair[o].case}
    BY <2>2
  <2>4. k \in ks
    BY <2>3, ClosingKeepsOthers
  <2> QED BY <2>2, <2>4
<1> HIDE DEF ks
<1>4. purchase # Absent
  BY RepairHeld
<1>5. Order'
  <2>1. /\ OneSubject(recorded') /\ \A r, q \in recorded' : r.event = q.event => r = q
        /\ recorded \subseteq recorded' /\ recorded' = recorded
    BY <1>1 DEF Inv, Order, EventOnce
  <2> QED BY <1>1, <1>2, <1>3, <1>4, <2>1, OrderLater
<1>6. /\ delivery' \in [Deliveries -> Processing] /\ repair' \in [Operators -> Repairing]
      /\ recorded' \subseteq [event : Events, outcome : Outcomes] /\ accepted' \subseteq Events
      /\ \A x \in Deliveries : delivery'[x] \in {delivery[x], Idle}
      /\ \A x \in Operators : repair'[x] \in {repair[x], Idle}
  BY <1>1 DEF Inv, TypeOK, Repairing
<1> QED BY <1>1, <1>2, <1>5, <1>6, OrderStep

(* The write of a repair with the effects of a status the order's events   *)
(* account for.                                                            *)
LEMMA RepairedFacts ==
  ASSUME Inv, NEW row \in Row, NEW patched \in Row, NEW status \in States, NEW at \in 0..LastTime,
         NEW effects \in BOOLEAN, NEW e \in Events, Accepted(recorded, e),
         status = "paid" => SaysPaid(recorded), row.user # Nobody => patched.user = row.user,
         NEW b, b = Repaired(row, status, at, patched, effects, e)
  PROVE  /\ b = [row |-> b.row, grants |-> b.grants, cases |-> b.cases]
         /\ b.row \in Row /\ b.row.status = status /\ b.row.user = patched.user
         /\ b.grants \in [Subjects -> GrantStates]
         /\ \A v \in Subjects : grants[v] # "none" => b.grants[v] # "none"
         /\ \A v \in Subjects : b.grants[v] # "none" =>
               grants[v] # "none" \/ (v = b.row.user /\ SaysPaid(recorded))
         /\ b.cases \subseteq CaseRow /\ cases \subseteq b.cases
         /\ \A k \in b.cases : CaseFits(k, recorded, b.grants)
<1> DEFINE new == [patched EXCEPT !.status = status, !.last = at]
           g == IF effects THEN GrantEffect(grants, row, status) ELSE grants
           ks == IF effects THEN cases \cup CaseEffect(grants, row, status, e) ELSE cases
<1>1. b = [row |-> new, grants |-> g, cases |-> ks]
  BY DEF Repaired
<1>2. new \in Row /\ new.status = status /\ new.user = patched.user
  BY DEF Row
<1>3. /\ grants \in [Subjects -> GrantStates] /\ cases \subseteq CaseRow
      /\ \A k \in cases : CaseFits(k, recorded, grants)
  BY Held DEF Inv, Order
<1>4. /\ g \in [Subjects -> GrantStates]
      /\ \A v \in Subjects : grants[v] # "none" => g[v] # "none"
      /\ \A v \in Subjects : g[v] # "none" =>
           grants[v] # "none" \/ (v = patched.user /\ SaysPaid(recorded))
  <2>1. CASE effects
    <3>1. /\ g \in [Subjects -> GrantStates]
          /\ \A v \in Subjects : grants[v] # "none" => g[v] # "none"
          /\ \A v \in Subjects : g[v] # "none" => grants[v] # "none" \/ (v = row.user /\ status = "paid")
      BY <1>3, <2>1, GrantEffectFacts
    <3> QED BY <3>1, SubjectFacts
  <2>2. CASE ~effects
    BY <1>3, <2>2
  <2> QED BY <2>1, <2>2
<1>5. /\ ks \subseteq CaseRow /\ cases \subseteq ks
      /\ \A k \in ks : CaseFits(k, recorded, g)
  <2>1. \A k \in CaseEffect(grants, row, status, e) :
          /\ k \in CaseRow /\ k.event = e
          /\ \A v \in k.held : v \in Subjects /\ grants[v] # "none"
    BY <1>3, CaseEffectFacts
  <2>2. \A k \in ks : k \in CaseRow /\ CaseFits(k, recorded, grants)
    BY <1>3, <2>1 DEF CaseFits
  <2>3. \A k : CaseFits(k, recorded, grants) => CaseFits(k, recorded, g)
    BY <1>4 DEF CaseFits
  <2>4. cases \subseteq ks
    OBVIOUS
  <2> HIDE DEF ks, g
  <2> QED BY <2>2, <2>3, <2>4
<1> HIDE DEF new, g, ks
<1>6. b.row = new /\ b.grants = g /\ b.cases = ks
  BY <1>1
<1> QED BY <1>1, <1>2, <1>4, <1>5, <1>6

(* What the order says of itself when a repair commits. *)
LEMMA RepairFacts ==
  ASSUME Inv, NEW o \in Operators, repair[o].pc = "commit"
  PROVE  /\ purchase \in Row /\ purchase.status \in States
         /\ repair[o].row \in Row /\ repair[o].row.last \in 0..LastTime /\ repair[o].row.offer \in BOOLEAN
         /\ repair[o].row.user # Nobody => purchase.user = repair[o].row.user
         /\ repair[o].row.status = "paid" => SaysPaid(recorded)
         /\ purchase.user # Nobody => Names(recorded, purchase.user)
         /\ purchase.status = "paid" => SaysPaid(recorded)
         /\ \A k \in cases : CaseFits(k, recorded, grants)
         /\ repair[o].case.event.subject \in Subjects /\ repair[o].case.event.subject # Nobody
         /\ repair[o].case.event.status \in States
         /\ repair[o].case.event.status = "paid" => SaysPaid(recorded)
<1>1. /\ repair[o].row \in Row /\ RowFits(repair[o].row, purchase, recorded) /\ purchase # Absent
      /\ repair[o].case.event \in Events /\ Accepted(recorded, repair[o].case.event)
  BY RepairHeld
<1>2. repair[o].row.last \in 0..LastTime /\ repair[o].row.offer \in BOOLEAN
  BY <1>1 DEF Row
<1>3. purchase \in Row /\ purchase.status \in States
  BY <1>1, Held
<1>4. repair[o].case.event.status = "paid" => SaysPaid(recorded)
  BY <1>1 DEF Accepted, SaysPaid
<1>5. /\ purchase.user # Nobody => Names(recorded, purchase.user)
      /\ purchase.status = "paid" => SaysPaid(recorded)
      /\ \A k \in cases : CaseFits(k, recorded, grants)
  BY DEF Inv, Order, BuyerNamed, PaidIsSaid
<1> QED BY <1>1, <1>2, <1>3, <1>4, <1>5, SubjectFacts DEF RowFits

LEMMA RepairSkuKeeps ==
  ASSUME Inv, NEW o \in Operators, RepairSku(o)
  PROVE  Inv'
<1> DEFINE c == repair[o]
           row == [c.row EXCEPT !.offer = TRUE]
           patched == [purchase EXCEPT !.offer = TRUE]
           effects == c.row.status = "paid"
           e == c.case.event
           status == c.row.status
           at == c.row.last
           b == Repaired(row, status, at, patched, effects, e)
<1>1. c.pc = "commit" /\ c.case.type = "unknown_sku" /\ Finish(o, "resolved", b)
  BY DEF RepairSku
<1>2. /\ row \in Row /\ patched \in Row /\ row.user = c.row.user /\ patched.user = purchase.user
      /\ effects \in BOOLEAN /\ status \in States
      /\ e \in Events /\ Accepted(recorded, e)
  BY <1>1, RepairHeld, RepairFacts DEF Row
<1>3. row.user # Nobody => patched.user = row.user
  BY <1>1, <1>2, RepairFacts
<1>4. at \in 0..LastTime /\ (status = "paid" => SaysPaid(recorded))
  BY <1>1, RepairFacts
<1> HIDE DEF row, patched, effects, e, status, at
<1>5. /\ b = [row |-> b.row, grants |-> b.grants, cases |-> b.cases]
      /\ b.row \in Row /\ b.row.status = status /\ b.row.user = patched.user
      /\ b.grants \in [Subjects -> GrantStates]
      /\ \A v \in Subjects : grants[v] # "none" => b.grants[v] # "none"
      /\ \A v \in Subjects : b.grants[v] # "none" =>
            grants[v] # "none" \/ (v = b.row.user /\ SaysPaid(recorded))
      /\ b.cases \subseteq CaseRow /\ cases \subseteq b.cases
      /\ \A k \in b.cases : CaseFits(k, recorded, b.grants)
  BY <1>2, <1>3, <1>4, RepairedFacts
<1> HIDE DEF b
<1>6. purchase.user # Nobody => Names(recorded, purchase.user)
  BY <1>1, RepairFacts
<1> QED BY <1>1, <1>2, <1>4, <1>5, <1>6, FinishKeeps

LEMMA RepairIdentityKeeps ==
  ASSUME Inv, NEW o \in Operators, RepairIdentity(o)
  PROVE  Inv'
<1> DEFINE c == repair[o]
           u == c.case.event.subject
           row == [c.row EXCEPT !.user = u]
           patched == [purchase EXCEPT !.user = u]
           effects == c.row.status = "paid" /\ c.row.offer
           e == c.case.event
           status == c.row.status
           at == c.row.last
           b == Repaired(row, status, at, patched, effects, e)
<1>1. c.pc = "commit" /\ Finish(o, "resolved", b)
  BY DEF RepairIdentity
<1>2. u \in Subjects /\ u # Nobody /\ Names(recorded, u) /\ (purchase.user # Nobody => purchase.user = u)
  BY <1>1, RepairHeld, RepairFacts, AcceptedNames
<1>3. /\ row \in Row /\ patched \in Row /\ row.user = u /\ patched.user = u
      /\ effects \in BOOLEAN /\ status \in States
      /\ e \in Events /\ Accepted(recorded, e)
  BY <1>1, <1>2, RepairHeld, RepairFacts DEF Row
<1>4. at \in 0..LastTime /\ (status = "paid" => SaysPaid(recorded))
  BY <1>1, RepairFacts
<1> HIDE DEF row, patched, effects, e, status, at
<1>5. /\ b = [row |-> b.row, grants |-> b.grants, cases |-> b.cases]
      /\ b.row \in Row /\ b.row.status = status /\ b.row.user = patched.user
      /\ b.grants \in [Subjects -> GrantStates]
      /\ \A v \in Subjects : grants[v] # "none" => b.grants[v] # "none"
      /\ \A v \in Subjects : b.grants[v] # "none" =>
            grants[v] # "none" \/ (v = b.row.user /\ SaysPaid(recorded))
      /\ b.cases \subseteq CaseRow /\ cases \subseteq b.cases
      /\ \A k \in b.cases : CaseFits(k, recorded, b.grants)
  BY <1>3, <1>4, RepairedFacts
<1> HIDE DEF b, u
<1> QED BY <1>1, <1>2, <1>3, <1>4, <1>5, FinishKeeps

(* A decision not to act, whatever the case. *)
LEMMA RejectKeeps ==
  ASSUME Inv, NEW o \in Operators, repair[o].pc = "commit", repair[o].case.type # "unresolved_identity",
         Finish(o, "ignored_with_reason", Unchanged)
  PROVE  Inv'
<1> DEFINE b == Unchanged
<1>1. /\ b = [row |-> b.row, grants |-> b.grants, cases |-> b.cases]
      /\ b.row = purchase /\ b.grants = grants /\ b.cases = cases
  BY DEF Unchanged
<1> HIDE DEF b
<1>2. Finish(o, "ignored_with_reason", b)
  BY DEF b
<1> QED BY <1>1, <1>2, RepairFacts, Held, FinishKeeps

LEMMA RepairTransitionKeeps ==
  ASSUME Inv, NEW o \in Operators, NEW now \in Times, RepairTransition(o, now)
  PROVE  Inv'
<1> DEFINE c == repair[o]
           e == c.case.event
           row == [c.row EXCEPT !.status = e.status]
           b == Repaired(row, e.status, now, purchase, TRUE, e)
<1>1. CASE Finish(o, "resolved", b)
  <2>1. c.pc = "commit" /\ c.case.type = "ambiguous_transition"
    BY DEF RepairTransition
  <2>2. /\ row \in Row /\ row.user = c.row.user /\ e.status \in States
        /\ e \in Events /\ Accepted(recorded, e) /\ purchase \in Row
    BY <2>1, RepairHeld, RepairFacts DEF Row
  <2>3. /\ now \in 0..LastTime /\ (e.status = "paid" => SaysPaid(recorded))
        /\ row.user # Nobody => purchase.user = row.user
    BY <2>1, <2>2, RepairFacts, SubjectFacts
  <2> HIDE DEF row, e
  <2>4. /\ b = [row |-> b.row, grants |-> b.grants, cases |-> b.cases]
        /\ b.row \in Row /\ b.row.status = e.status /\ b.row.user = purchase.user
        /\ b.grants \in [Subjects -> GrantStates]
        /\ \A v \in Subjects : grants[v] # "none" => b.grants[v] # "none"
        /\ \A v \in Subjects : b.grants[v] # "none" =>
              grants[v] # "none" \/ (v = b.row.user /\ SaysPaid(recorded))
        /\ b.cases \subseteq CaseRow /\ cases \subseteq b.cases
        /\ \A k \in b.cases : CaseFits(k, recorded, b.grants)
    BY <2>2, <2>3, RepairedFacts
  <2> HIDE DEF b
  <2>5. purchase.user # Nobody => Names(recorded, purchase.user)
    BY <2>1, RepairFacts
  <2> QED BY <1>1, <2>1, <2>2, <2>3, <2>4, <2>5, FinishKeeps
<1>2. CASE Finish(o, "ignored_with_reason", Unchanged)
  BY <1>2, RejectKeeps DEF RepairTransition
<1> QED BY <1>1, <1>2 DEF RepairTransition

LEMMA RepairChargebackKeeps ==
  ASSUME Inv, NEW o \in Operators, RepairChargeback(o)
  PROVE  Inv'
<1> DEFINE c == repair[o]
           g == [u \in Subjects |-> IF u \in c.case.held THEN "revoked" ELSE grants[u]]
           b == [row |-> purchase, grants |-> g, cases |-> cases]
<1>0. c.pc = "commit" /\ c.case.type = "chargeback_review"
  BY DEF RepairChargeback
<1>1. CASE Finish(o, "resolved", [Unchanged EXCEPT !.grants =
                   [u \in Subjects |-> IF u \in c.case.held THEN "revoked" ELSE @[u]]])
  <2>1. Finish(o, "resolved", b)
    BY <1>1 DEF Unchanged
  <2>2. b = [row |-> b.row, grants |-> b.grants, cases |-> b.cases]
        /\ b.row = purchase /\ b.grants = g /\ b.cases = cases
    OBVIOUS
  <2>3. \A u \in c.case.held : u \in Subjects /\ grants[u] # "none"
    BY <1>0, RepairHeld DEF CaseFits
  <2>4. /\ g \in [Subjects -> GrantStates]
        /\ \A u \in Subjects : grants[u] # "none" <=> g[u] # "none"
    BY <2>3, Held DEF GrantStates
  <2>5. \A k \in cases : CaseFits(k, recorded, g)
    BY <1>0, <2>4, RepairFacts DEF CaseFits
  <2> HIDE DEF b, g
  <2> QED BY <1>0, <2>1, <2>2, <2>4, <2>5, RepairFacts, Held, FinishKeeps
<1>2. CASE Finish(o, "ignored_with_reason", Unchanged)
  BY <1>0, <1>2, RejectKeeps
<1> QED BY <1>1, <1>2 DEF RepairChargeback

----------------------------------------------------------------------------
(* The steps that only read, or write beside the order. *)
LEMMA ReceiveKeeps ==
  ASSUME Inv, NEW d \in Deliveries, NEW e \in Events, NEW verified \in BOOLEAN, Receive(d, e, verified)
  PROVE  Inv'
<1> DEFINE begun == [pc |-> "begin", event |-> e]
           key == EventKey(e, verified)
<1>1. /\ raw' = raw \cup {key}
      /\ normalized' = normalized \cup {x \in {e} \ Unreadable : verified /\ key \notin raw}
      /\ UNCHANGED <<orderVars, linked, mapped, repair>>
  BY DEF Receive, Ingest
<1>2. \/ verified /\ e \in normalized' /\ delivery' = [delivery EXCEPT ![d] = begun] /\ accepted' = accepted
      \/ verified /\ e \notin normalized' /\ delivery' = [delivery EXCEPT ![d] = Idle] /\ accepted' = accepted \cup {e}
      \/ delivery' = delivery /\ accepted' = accepted
  BY DEF Receive, Accept, Goto
<1>3. begun \in Processing /\ Idle \in Processing
  BY DEF Processing
<1>4. key \in {"id", "checksum"} \X Events /\ (verified => key = EventKey(e, TRUE))
  BY DEF EventKey
<1>5. \A x \in Events \ Unreadable : EventKey(x, TRUE) \in raw' => x \in normalized'
  <2> SUFFICES ASSUME NEW x \in Events \ Unreadable, EventKey(x, TRUE) \in raw' PROVE x \in normalized'
    OBVIOUS
  <2>1. CASE EventKey(x, TRUE) \in raw
    BY <1>1, <2>1 DEF Inv, Receipts
  <2>2. CASE EventKey(x, TRUE) = key /\ key \notin raw
    <3>1. x = e /\ verified
      BY <2>2 DEF EventKey
    <3> QED BY <1>1, <2>2, <3>1
  <2> QED BY <1>1, <2>1, <2>2
<1>6. TypeOK'
  <2>1. delivery' \in [Deliveries -> Processing]
    BY <1>2, <1>3 DEF Inv, TypeOK
  <2>2. /\ raw' \subseteq {"id", "checksum"} \X Events
        /\ normalized' \subseteq Events /\ accepted' \subseteq Events
    BY <1>1, <1>2, <1>4 DEF Inv, TypeOK
  <2> HIDE DEF begun, key
  <2> QED BY <1>1, <2>1, <2>2 DEF Inv, TypeOK, orderVars
<1>7. AcceptedIsRecorded'
  <2>1. verified /\ e \notin Unreadable => e \in normalized'
    BY <1>1, <1>4, <1>5
  <2>2. \A x \in accepted' \ accepted : x \in Unreadable
    BY <1>2, <2>1
  <2>3. recorded' = recorded
    BY <1>1 DEF orderVars
  <2> QED BY <2>2, <2>3 DEF Inv, Receipts, AcceptedIsRecorded
<1>8. e \in normalized' => DeliveryFits(begun, purchase, recorded, normalized')
  BY DEF DeliveryFits
<1>9. DeliveryFits(Idle, purchase, recorded, normalized')
  BY DEF DeliveryFits, Idle
<1>10. Receipts'
  BY <1>5, <1>7 DEF Receipts, EventKey
<1> HIDE DEF begun, key
<1>11. \A x \in Deliveries : \/ delivery'[x] = delivery[x]
                            \/ DeliveryFits(delivery'[x], purchase, recorded, normalized')
  BY <1>2, <1>8, <1>9 DEF Inv, TypeOK
<1>12. UNCHANGED orderVars /\ normalized \subseteq normalized' /\ repair' = repair
  BY <1>1
<1> QED BY <1>6, <1>10, <1>11, <1>12, QuietStep

(* A delivery that only moves on, to what fits. *)
LEMMA MoveKeeps ==
  ASSUME Inv, NEW d \in Deliveries, NEW c \in Processing, DeliveryFits(c, purchase, recorded, normalized),
         delivery' = [delivery EXCEPT ![d] = c],
         UNCHANGED <<raw, normalized, orderVars, linked, mapped, repair>>,
         accepted' # accepted => /\ accepted' \subseteq Events
                                 /\ \A e \in accepted' \ accepted : \E r \in recorded : r.event = e
  PROVE  Inv'
<1>1. TypeOK' /\ Receipts'
  BY ReceiptsLater DEF Inv, TypeOK, orderVars
<1>2. \A x \in Deliveries : \/ delivery'[x] = delivery[x]
                           \/ DeliveryFits(delivery'[x], purchase, recorded, normalized')
  BY DEF Inv, TypeOK
<1> QED BY <1>1, <1>2, QuietStep

(* And a repair. *)
LEMMA HandleKeeps ==
  ASSUME Inv, NEW o \in Operators, NEW c \in Repairing, RepairFits(c, purchase, recorded, grants),
         repair' = [repair EXCEPT ![o] = c],
         UNCHANGED <<raw, normalized, accepted, orderVars, linked, mapped, delivery>>
  PROVE  Inv'
<1>1. TypeOK' /\ Receipts'
  BY ReceiptsLater DEF Inv, TypeOK, orderVars
<1>2. \A x \in Operators : \/ repair'[x] = repair[x]
                          \/ RepairFits(repair'[x], purchase, recorded, grants)
  BY DEF Inv, TypeOK
<1> QED BY <1>1, <1>2, QuietStep

LEMMA IdleFacts ==
  /\ Idle \in Processing /\ Idle \in Repairing
  /\ \A now, rs, ns : DeliveryFits(Idle, now, rs, ns)
  /\ \A now, rs, g : RepairFits(Idle, now, rs, g)
BY DEF Idle, Processing, Repairing, DeliveryFits, RepairFits

LEMMA ReadPurchaseKeeps ==
  ASSUME Inv, NEW d \in Deliveries, ReadPurchase(d)
  PROVE  Inv'
<1> DEFINE c == delivery[d]
           next == [pc |-> "identity", event |-> c.event, existing |-> purchase]
<1>1. /\ c.pc = "begin"
      /\ UNCHANGED <<raw, normalized, orderVars, linked, mapped, repair>>
  BY DEF ReadPurchase
<1>2. c # Idle /\ c.event \in Events /\ c.event \in normalized
  BY <1>1 DEF Inv, TypeOK, Processing, Idle, DeliveryFits
<1>3. CASE UNCHANGED accepted /\ delivery' = [delivery EXCEPT ![d] = next]
  <2>1. purchase \in Row
    BY Held
  <2>2. next \in Processing
    BY <1>2, <2>1 DEF Processing
  <2>3. purchase # Absent => RowFits(purchase, purchase, recorded)
    BY Held DEF Inv, Order, PaidIsSaid, RowFits
  <2>4. next.pc = "identity" /\ next.event \in normalized /\ next.existing = purchase
    BY <1>2
  <2> HIDE DEF next, c
  <2>5. DeliveryFits(next, purchase, recorded, normalized)
    BY <2>3, <2>4 DEF DeliveryFits
  <2>6. accepted' \subseteq Events
    BY <1>3 DEF Inv, TypeOK
  <2> QED BY <1>1, <1>3, <2>2, <2>5, <2>6, MoveKeeps
<1>4. CASE ~Unrecorded(c.event) /\ accepted' = accepted \cup {c.event} /\ delivery' = [delivery EXCEPT ![d] = Idle]
  <2>1. \E r \in recorded : r.event = c.event
    BY <1>4 DEF Unrecorded
  <2>2. accepted' \subseteq Events /\ \A e \in accepted' \ accepted : \E r \in recorded : r.event = e
    BY <1>2, <1>4, <2>1 DEF Inv, TypeOK
  <2> QED BY <1>1, <1>4, <2>2, IdleFacts, MoveKeeps
<1> QED BY <1>3, <1>4 DEF ReadPurchase, Accept, Goto

(* The verdict on the buyer is right when it is reached, and stays right:  *)
(* the events an order takes never change their buyer.                     *)
LEMMA ReadIdentityKeeps ==
  ASSUME Inv, NEW d \in Deliveries, ReadIdentity(d)
  PROVE  Inv'
<1> DEFINE c == delivery[d]
           known == c.event.subject \in linked
           changed == \E r \in recorded : r.event.subject # c.event.subject
           bound == c.existing.user # Nobody /\ ~(known /\ c.event.subject = c.existing.user)
           refuse == c.existing # Absent /\ (changed \/ bound)
           next == [pc |-> "commit", event |-> c.event, existing |-> c.existing,
                    known |-> known, offer |-> mapped, mismatch |-> refuse]
<1>1. /\ c.pc = "identity" /\ delivery' = [delivery EXCEPT ![d] = next]
      /\ UNCHANGED <<raw, normalized, accepted, orderVars, linked, mapped, repair>>
  BY DEF ReadIdentity, Goto, receiptVars
<1>2. c \in Processing /\ DeliveryFits(c, purchase, recorded, normalized) /\ mapped \in BOOLEAN
  BY DEF Inv, TypeOK
<1>3. c.event \in Events /\ c.existing \in Row /\ c # Idle
  BY <1>1, <1>2 DEF Processing, Idle
<1>4. /\ next.pc = "commit" /\ next.event = c.event /\ next.existing = c.existing
      /\ (next.mismatch => c.existing # Absent)
      /\ (~next.mismatch => c.existing = Absent \/ ~changed)
  OBVIOUS
<1>5. next \in Processing
  <2>1. known \in BOOLEAN /\ refuse \in BOOLEAN
    OBVIOUS
  <2> HIDE DEF known, refuse
  <2> QED BY <1>2, <1>3, <2>1 DEF Processing
<1>6. ~changed => Names(recorded, c.event.subject)
  BY DEF Names
<1> HIDE DEF next, changed
<1>7. DeliveryFits(next, purchase, recorded, normalized)
  BY <1>1, <1>2, <1>3, <1>4, <1>6 DEF DeliveryFits
<1> QED BY <1>1, <1>5, <1>7, MoveKeeps

LEMMA PickCaseKeeps ==
  ASSUME Inv, NEW o \in Operators, NEW k \in cases, NEW decision \in {"apply", "reject"},
         PickCase(o, k, decision)
  PROVE  Inv'
<1> DEFINE c == [pc |-> "read", case |-> k, decision |-> decision]
<1>1. /\ k.type # "identity_mismatch" /\ repair' = [repair EXCEPT ![o] = c]
      /\ UNCHANGED <<raw, normalized, accepted, orderVars, linked, mapped, delivery>>
  BY DEF PickCase, Handle, receiptVars
<1>2. k \in CaseRow /\ CaseFits(k, recorded, grants)
  BY Held DEF Inv, Order
<1>3. c \in Repairing
  BY <1>2 DEF Repairing
<1>4. c.pc = "read" /\ c.case = k
  OBVIOUS
<1> HIDE DEF c
<1>5. RepairFits(c, purchase, recorded, grants)
  BY <1>1, <1>2, <1>4 DEF RepairFits
<1> QED BY <1>1, <1>3, <1>5, HandleKeeps

LEMMA RepairReadKeeps ==
  ASSUME Inv, NEW o \in Operators, RepairRead(o)
  PROVE  Inv'
<1> DEFINE old == repair[o]
           c == [pc |-> "commit", case |-> old.case, decision |-> old.decision, row |-> purchase]
<1>1. /\ old.pc = "read" /\ repair' = [repair EXCEPT ![o] = c]
      /\ UNCHANGED <<raw, normalized, accepted, orderVars, linked, mapped, delivery>>
  BY DEF RepairRead, Handle, receiptVars
<1>2. old \in Repairing /\ RepairFits(old, purchase, recorded, grants)
  BY DEF Inv, TypeOK
<1>3. /\ old.case \in CaseRow /\ old.decision \in {"apply", "reject"}
      /\ CaseFits(old.case, recorded, grants) /\ old.case.type # "identity_mismatch"
  BY <1>1, <1>2 DEF Repairing, Idle, RepairFits
<1>4. c \in Repairing
  BY <1>3, Held DEF Repairing
<1>5. c.pc = "commit" /\ c.case = old.case /\ c.row = purchase
  OBVIOUS
<1>6. RowFits(purchase, purchase, recorded)
  <2>1. purchase # Absent
    BY <1>3, Held DEF CaseFits, Accepted
  <2> QED BY <2>1, Held DEF Inv, Order, PaidIsSaid, RowFits
<1> HIDE DEF c, old
<1>7. RepairFits(c, purchase, recorded, grants)
  BY <1>3, <1>5, <1>6 DEF RepairFits
<1> QED BY <1>1, <1>4, <1>7, HandleKeeps

----------------------------------------------------------------------------
LEMMA DeliveryKeeps ==
  ASSUME Inv, NEW d \in Deliveries, Process(d)
  PROVE  Inv'
<1>1. CASE AbortDelivery(d)
  BY <1>1, IdleFacts, MoveKeeps DEF AbortDelivery, Goto, receiptVars
<1> QED BY <1>1, ReadPurchaseKeeps, ReadIdentityKeeps, CreateKeeps, RefuseBuyerKeeps, ApplyKeeps DEF Process

LEMMA RepairKeeps ==
  ASSUME Inv, NEW o \in Operators, Repair(o)
  PROVE  Inv'
<1>1. CASE AbortRepair(o)
  BY <1>1, IdleFacts, HandleKeeps DEF AbortRepair, Handle, receiptVars
<1> QED BY <1>1, PickCaseKeeps, RepairReadKeeps, RepairSkuKeeps, RepairIdentityKeeps,
          RepairChargebackKeeps, RepairTransitionKeeps DEF Repair

(* Sign-ins and mappings. *)
LEMMA CatalogueKeeps ==
  ASSUME Inv, (\E u \in Subjects : SignIn(u)) \/ MapSku
  PROVE  Inv'
<1>1. /\ UNCHANGED <<raw, normalized, accepted, orderVars, delivery, repair>>
      /\ linked' \subseteq Subjects /\ mapped' \in BOOLEAN
  BY DEF SignIn, MapSku, Inv, TypeOK, receiptVars
<1>2. TypeOK' /\ Receipts'
  BY <1>1, ReceiptsLater DEF Inv, TypeOK, orderVars
<1> QED BY <1>1, <1>2, QuietStep

LEMMA NextKeeps ==
  ASSUME Inv, Next
  PROVE  Inv'
<1>1. CASE \E d \in Deliveries : \/ \E e \in Events : Receive(d, e, TRUE)
                                 \/ \E e \in Unsigned : Receive(d, e, FALSE)
                                 \/ Process(d)
  BY <1>1, ReceiveKeeps, DeliveryKeeps, TimeAssumption
<1>2. CASE \E u \in Subjects : SignIn(u) \/ Claim(u)
  BY <1>2, CatalogueKeeps, ClaimKeeps
<1>3. CASE MapSku
  BY <1>3, CatalogueKeeps
<1>4. CASE \E o \in Operators : Repair(o)
  BY <1>4, RepairKeeps
<1> QED BY <1>1, <1>2, <1>3, <1>4 DEF Next

THEOREM AlwaysInv == Spec => []Inv
<1>1. Inv /\ UNCHANGED vars => Inv'
  <2> SUFFICES ASSUME Inv, UNCHANGED vars PROVE Inv'
    OBVIOUS
  <2>1. /\ TypeOK' /\ UNCHANGED orderVars /\ delivery' = delivery /\ repair' = repair
        /\ UNCHANGED <<raw, normalized, accepted, recorded>>
    BY DEF vars, orderVars, receiptVars, Inv, TypeOK
  <2>2. Receipts'
    BY <2>1, ReceiptsLater
  <2> QED BY <2>1, <2>2, QuietStep
<1>2. Inv /\ [Next]_vars => Inv'
  BY <1>1, NextKeeps
<1> QED BY <1>2, InitInv, PTL DEF Spec

----------------------------------------------------------------------------
(* An order, its events, its grants, its cases and every request about it  *)
(* keep their types.                                                       *)
THEOREM TypeCorrect == Spec => []TypeOK
BY AlwaysInv, PTL DEF Inv

(* However deliveries, claims and repairs of an order race to name its     *)
(* buyer, one buyer holds its grants and is named by every event it took.  *)
THEOREM OrderHasOneBuyer == Spec => []OneBuyer
<1>1. Inv => OneBuyer
  BY DEF Inv, Order, GrantsHeld, BuyerNamed, Names, OneBuyer
<1> QED BY <1>1, AlwaysInv, PTL

(* Overlapping and repeated deliveries of an event record it once. *)
THEOREM EventsCountOnce == Spec => []EventOnce
<1>1. Inv => EventOnce
  BY DEF Inv, Order
<1> QED BY <1>1, AlwaysInv, PTL

(* Nothing that overlaps grants access an accepted event did not pay for.  *)
THEOREM GrantsArePaid == Spec => []GrantedMeansPaid
<1>1. Inv => GrantedMeansPaid
  <2> SUFFICES ASSUME Inv, NEW u \in Subjects, grants[u] # "none"
               PROVE  \E r \in recorded : /\ r.event.status = "paid" /\ r.event.subject = u
                                          /\ r.outcome # "ignored_identity_mismatch"
    BY DEF GrantedMeansPaid
  <2>1. purchase.user = u /\ SaysPaid(recorded) /\ u # Nobody
    BY SubjectFacts DEF Inv, Order, GrantsHeld
  <2>2. Names(recorded, u)
    BY <2>1 DEF Inv, Order, BuyerNamed
  <2> QED BY <2>1, <2>2 DEF SaysPaid, Names
<1> QED BY <1>1, AlwaysInv, PTL

(* No repair or claim closes the case of an order that has no buyer yet.   *)
THEOREM UnboundHasCase == Spec => []UnboundIsQueued
<1>1. Inv => UnboundIsQueued
  BY DEF Inv, Order
<1> QED BY <1>1, AlwaysInv, PTL

(* Accepting is processing: whatever requests for an event die between its *)
(* receipt and its lifecycle, overlap or come unsigned, the one that tells *)
(* the sender it is accepted has it recorded.                              *)
THEOREM AcceptedGetsRecorded == Spec => []AcceptedIsRecorded
<1>1. Inv => AcceptedIsRecorded
  BY DEF Inv, Receipts
<1> QED BY <1>1, AlwaysInv, PTL

----------------------------------------------------------------------------
(* The catalogue.  A product some run created keeps its code, so that no   *)
(* later run takes it, and a file given to a run names each code once.     *)
CreatedStands ==
  \A create \in applied : \A p \in create :
    IsSold(p) /\ p.code \in products /\ {p.code, p.offer} \subseteq Codes /\ PoliciesOf(p) \subseteq PolicyCodes

VersionsAreNamed == \A c \in Codes : versions[c] # NoOffer => c \in products

PlanStands(l) ==
  l.pc = "planned" => l.file \in Catalogues /\ ParseCatalogueSpec(l.file) /\ l.create \subseteq l.file

CatalogueInv ==
  /\ policies \in [PolicyCodes -> {"absent", "draft", "published"}]
  /\ load = [r \in Loads |-> load[r]]
  /\ CreatedStands /\ VersionsAreNamed
  /\ \A r \in Loads : PlanStands(load[r])
  /\ CatalogueIsWhole

LEMMA CatalogueInitInv == CatalogueInit => CatalogueInv
<1> SUFFICES ASSUME CatalogueInit PROVE CatalogueInv
  OBVIOUS
<1>1. CreatedStands /\ VersionsAreNamed /\ CatalogueIsWhole
  BY DEF CatalogueInit, CreatedStands, VersionsAreNamed, CatalogueIsWhole
<1>2. \A r \in Loads : PlanStands(load[r])
  BY DEF CatalogueInit, NoLoad, PlanStands
<1>3. /\ policies \in [PolicyCodes -> {"absent", "draft", "published"}]
      /\ load = [r \in Loads |-> load[r]]
  BY DEF CatalogueInit
<1> QED BY <1>1, <1>2, <1>3 DEF CatalogueInv

(* What people do, or a run that writes nothing, takes nothing from a      *)
(* product that was created.                                               *)
LEMMA RecordsOnlyGrow ==
  ASSUME CatalogueInv, UNCHANGED <<versions, offers, applied>>, products \subseteq products',
         mappings \subseteq mappings', \A m \in mappings' \ mappings : m.by # "load",
         policies' \in [PolicyCodes -> {"absent", "draft", "published"}],
         \A c \in PolicyCodes : policies[c] = "published" => policies'[c] = "published",
         load' = [r \in Loads |-> load'[r]], \A r \in Loads : PlanStands(load'[r])
  PROVE  CatalogueInv'
<1>1. ASSUME NEW create \in applied, NEW p \in create
      PROVE  /\ IsSold(p)' /\ p.code \in products'
             /\ {p.code, p.offer} \subseteq Codes /\ PoliciesOf(p) \subseteq PolicyCodes
  BY DEF CatalogueInv, CreatedStands, IsSold
<1>2. CreatedStands'
  BY <1>1 DEF CreatedStands
<1>3. VersionsAreNamed'
  BY DEF CatalogueInv, VersionsAreNamed
<1>4. CatalogueIsWhole'
  <2>1. \A create \in applied' : \A p \in create : IsSold(p)'
    BY <1>1
  <2> QED BY <2>1 DEF CatalogueInv, CatalogueIsWhole
<1> QED BY <1>2, <1>3, <1>4 DEF CatalogueInv

LEMMA PeopleKeepCatalogue ==
  ASSUME CatalogueInv, PeopleStep
  PROVE  CatalogueInv'
<1>1. \A r \in Loads : PlanStands(load[r])
  BY DEF CatalogueInv
<1>2. CASE \E t \in Targets : ChangeTarget(t)
  <2>1. UNCHANGED <<versions, offers, applied, products, mappings, policies, load>>
    BY <1>2 DEF ChangeTarget, records
  <2> QED BY <1>1, <2>1, RecordsOnlyGrow DEF CatalogueInv
<1>3. ASSUME NEW c \in PolicyCodes, CreatePolicyDraft(c) \/ PublishPolicyVersion(c)
      PROVE  CatalogueInv'
  <2>1. UNCHANGED <<versions, offers, applied, products, mappings, load>>
    BY <1>3 DEF CreatePolicyDraft, PublishPolicyVersion
  <2>2. /\ policies[c] # "published"
        /\ policies' = [policies EXCEPT ![c] = "draft"] \/ policies' = [policies EXCEPT ![c] = "published"]
    BY <1>3 DEF CreatePolicyDraft, PublishPolicyVersion
  <2>3. /\ policies' \in [PolicyCodes -> {"absent", "draft", "published"}]
        /\ \A k \in PolicyCodes : policies[k] = "published" => policies'[k] = "published"
    BY <2>2 DEF CatalogueInv
  <2> QED BY <1>1, <2>1, <2>3, RecordsOnlyGrow DEF CatalogueInv
<1>4. CASE \E c \in Codes : CreateProduct(c)
  <2>1. UNCHANGED <<versions, offers, applied, mappings, policies, load>> /\ products \subseteq products'
    BY <1>4 DEF CreateProduct
  <2> QED BY <1>1, <2>1, RecordsOnlyGrow DEF CatalogueInv
<1>5. CASE \E s \in Skus, c \in Codes, from \in Days, to \in Days \cup {NoOffer}, p \in 0..1 :
             CreateSkuMapping(s, c, from, to, p)
  <2>1. /\ UNCHANGED <<versions, offers, applied, products, policies, load>>
        /\ mappings \subseteq mappings' /\ \A m \in mappings' \ mappings : m.by # "load"
    BY <1>5 DEF CreateSkuMapping, SkuMapping
  <2> QED BY <1>1, <2>1, RecordsOnlyGrow DEF CatalogueInv
<1> QED BY <1>2, <1>3, <1>4, <1>5 DEF PeopleStep

(* Planning and rolling back write nothing. *)
LEMMA PlanKeepsCatalogue ==
  ASSUME CatalogueInv, NEW r \in Loads,
         (\E file \in Catalogues : PlanCatalogue(r, file)) \/ RollBackLoad(r)
  PROVE  CatalogueInv'
<1>1. UNCHANGED <<versions, offers, applied, products, mappings, policies>>
  BY DEF PlanCatalogue, RollBackLoad, records
<1>2. PICK l : load' = [load EXCEPT ![r] = l] /\ PlanStands(l)
  <2>1. ASSUME RollBackLoad(r)
        PROVE  \E l : load' = [load EXCEPT ![r] = l] /\ PlanStands(l)
    <3>1. load' = [load EXCEPT ![r] = NoLoad] /\ PlanStands(NoLoad)
      BY <2>1 DEF RollBackLoad, PlanStands, NoLoad
    <3> QED BY <3>1
  <2>2. ASSUME NEW file \in Catalogues, PlanCatalogue(r, file)
        PROVE  \E l : load' = [load EXCEPT ![r] = l] /\ PlanStands(l)
    <3> DEFINE l == [pc |-> "planned", file |-> file, at |-> today, create |-> Planned(file, "create")]
    <3>1. load' = [load EXCEPT ![r] = l] /\ ParseCatalogueSpec(file)
      BY <2>2 DEF PlanCatalogue
    <3>2. PlanStands(l)
      BY <3>1 DEF PlanStands, Planned
    <3> QED BY <3>1, <3>2
  <2> QED BY <2>1, <2>2
<1>3. load' = [q \in Loads |-> load'[q]] /\ \A q \in Loads : PlanStands(load'[q])
  BY <1>2 DEF CatalogueInv
<1> QED BY <1>1, <1>3, RecordsOnlyGrow DEF CatalogueInv

(* In a file that parses a code names one product. *)
LEMMA CodesAreUnique ==
  ASSUME NEW file \in Catalogues, ParseCatalogueSpec(file), NEW create \in SUBSET file, NEW p \in create
  PROVE  /\ (CHOOSE q \in create : q.code = p.code) = p
         /\ (CHOOSE q \in create : q.offer = p.offer) = p
         /\ {p.code, p.offer} \subseteq Codes /\ PoliciesOf(p) \subseteq PolicyCodes
<1>1. \A q \in create : (q.code = p.code => q = p) /\ (q.offer = p.offer => q = p)
  BY DEF ParseCatalogueSpec
<1>2. {p.code, p.offer} \subseteq Codes /\ DOMAIN p.parts \subseteq Components
  BY CatalogueAssumption
<1>3. PoliciesOf(p) \subseteq PolicyCodes
  BY <1>2 DEF PoliciesOf, PolicyCodes
<1> QED BY <1>1, <1>2, <1>3

(* A run writes its products whole, and over nothing that was there. *)
LEMMA ApplyKeepsCatalogue ==
  ASSUME CatalogueInv, NEW r \in Loads, ApplyCatalogue(r)
  PROVE  CatalogueInv'
<1> DEFINE create == load[r].create
<1>1. PICK made : made = create
  OBVIOUS
<1>2. PICK file : file = load[r].file
  OBVIOUS
<1>3. file \in Catalogues /\ ParseCatalogueSpec(file) /\ made \subseteq file
  BY <1>1, <1>2 DEF ApplyCatalogue, CatalogueInv, PlanStands
<1>4. /\ KeysAreFree(made, load[r].at)
      /\ policies' = [c \in PolicyCodes |-> IF c \in UNION {PoliciesOf(p) : p \in made} /\ policies[c] = "absent"
                                            THEN "published" ELSE policies[c]]
      /\ products' = products \cup {p.code : p \in made}
      /\ versions' = [c \in Codes |-> IF \E p \in made : p.code = c
                        THEN PublishProductVersion(ProductVersionDraft((CHOOSE p \in made : p.code = c).parts))
                        ELSE versions[c]]
      /\ offers' = [c \in Codes |-> IF \E p \in made : p.offer = c
                      THEN PublishOffer(OfferDraft((CHOOSE p \in made : p.offer = c).code))
                      ELSE offers[c]]
      /\ mappings' = mappings \cup {SkuMapping(p.sku, 1, p.offer, load[r].at, NoOffer, 0, "load") : p \in made}
      /\ applied' = applied \cup {made}
      /\ load' = [load EXCEPT ![r] = NoLoad]
  BY <1>1 DEF ApplyCatalogue
<1>5. /\ \A p \in made : p.code \notin products /\ offers[p.offer] = NoOffer
      /\ \A p \in made : \A c \in PoliciesOf(p) : policies[c] = "absent"
  BY <1>4 DEF KeysAreFree
<1>6. \A p \in made : /\ (CHOOSE q \in made : q.code = p.code) = p
                      /\ (CHOOSE q \in made : q.offer = p.offer) = p
                      /\ {p.code, p.offer} \subseteq Codes /\ PoliciesOf(p) \subseteq PolicyCodes
  BY <1>3, CodesAreUnique
<1>7. \A c \in PolicyCodes : policies[c] = "published" => policies'[c] = "published"
  BY <1>4
<1>8. policies' \in [PolicyCodes -> {"absent", "draft", "published"}]
  BY <1>4 DEF CatalogueInv
<1>9. ASSUME NEW p \in made
      PROVE  IsSold(p)'
  <2>1. \E m \in mappings' : m.by = "load" /\ m.sku = p.sku /\ m.offer = p.offer
    <3> DEFINE m == SkuMapping(p.sku, 1, p.offer, load[r].at, NoOffer, 0, "load")
    <3>1. m \in mappings'
      BY <1>4
    <3>2. m.by = "load" /\ m.sku = p.sku /\ m.offer = p.offer
      BY DEF SkuMapping
    <3> QED BY <3>1, <3>2
  <2>2. offers'[p.offer] = PublishOffer(OfferDraft(p.code))
    BY <1>4, <1>6
  <2>3. versions'[p.code] = PublishProductVersion(ProductVersionDraft(p.parts))
    BY <1>4, <1>6
  <2>4. \A c \in PoliciesOf(p) : policies'[c] = "published"
    BY <1>4, <1>5, <1>6
  <2>5. PublishOffer(OfferDraft(p.code)) = [status |-> "published", product |-> p.code]
    BY DEF PublishOffer, OfferDraft
  <2>6. PublishProductVersion(ProductVersionDraft(p.parts)) = [status |-> "published", parts |-> p.parts]
    BY DEF PublishProductVersion, ProductVersionDraft
  <2> QED BY <2>1, <2>2, <2>3, <2>4, <2>5, <2>6 DEF IsSold
<1>10. ASSUME NEW was \in applied, NEW p \in was
       PROVE  IsSold(p)' /\ p.code \in products'
  <2>1. IsSold(p) /\ p.code \in products /\ {p.code, p.offer} \subseteq Codes /\ PoliciesOf(p) \subseteq PolicyCodes
    BY DEF CatalogueInv, CreatedStands
  <2>2. \E m \in mappings' : m.by = "load" /\ m.sku = p.sku /\ m.offer = p.offer
    BY <1>4, <2>1 DEF IsSold
  <2>3. offers[p.offer] # NoOffer
    BY <2>1, CatalogueAssumption DEF IsSold
  <2>4. offers'[p.offer] = offers[p.offer]
    BY <1>4, <1>5, <2>1, <2>3
  <2>5. versions'[p.code] = versions[p.code]
    BY <1>4, <1>5, <2>1
  <2>6. \A c \in PoliciesOf(p) : policies'[c] = "published"
    BY <1>7, <2>1 DEF IsSold
  <2>7. p.code \in products'
    BY <1>4, <2>1
  <2> QED BY <2>1, <2>2, <2>4, <2>5, <2>6, <2>7 DEF IsSold
<1>11. CreatedStands'
  <2>1. ASSUME NEW was \in applied', NEW p \in was
        PROVE  /\ IsSold(p)' /\ p.code \in products'
               /\ {p.code, p.offer} \subseteq Codes /\ PoliciesOf(p) \subseteq PolicyCodes
    <3>1. CASE was \in applied
      BY <1>10, <3>1 DEF CatalogueInv, CreatedStands
    <3>2. CASE was = made
      BY <1>4, <1>6, <1>9, <3>2
    <3> QED BY <1>4, <3>1, <3>2
  <2> QED BY <2>1 DEF CreatedStands
<1>12. VersionsAreNamed'
  <2>1. ASSUME NEW c \in Codes, versions'[c] # NoOffer
        PROVE  c \in products'
    <3>1. CASE \E p \in made : p.code = c
      BY <1>4, <3>1
    <3>2. CASE ~\E p \in made : p.code = c
      BY <1>4, <2>1, <3>2 DEF CatalogueInv, VersionsAreNamed
    <3> QED BY <3>1, <3>2
  <2> QED BY <2>1 DEF VersionsAreNamed
<1>13. CatalogueIsWhole'
  <2>1. \A was \in applied' : \A p \in was : IsSold(p)'
    BY <1>4, <1>9, <1>10
  <2>2. ASSUME NEW c \in Codes, versions'[c] # NoOffer
        PROVE  \E was \in applied' : \E p \in was : p.code = c
    <3>1. CASE \E p \in made : p.code = c
      BY <1>4, <3>1
    <3>2. CASE ~\E p \in made : p.code = c
      BY <1>4, <2>2, <3>2 DEF CatalogueInv, CatalogueIsWhole
    <3> QED BY <3>1, <3>2
  <2>3. ASSUME NEW m \in mappings', m.by = "load"
        PROVE  \E was \in applied' : \E p \in was : p.sku = m.sku /\ p.offer = m.offer
    <3>1. CASE m \in mappings
      BY <1>4, <2>3, <3>1 DEF CatalogueInv, CatalogueIsWhole
    <3>2. CASE m \notin mappings
      <4>1. PICK p \in made : m = SkuMapping(p.sku, 1, p.offer, load[r].at, NoOffer, 0, "load")
        BY <1>4, <3>2
      <4>2. p.sku = m.sku /\ p.offer = m.offer
        BY <4>1 DEF SkuMapping
      <4> QED BY <1>4, <4>2
    <3> QED BY <3>1, <3>2
  <2> QED BY <2>1, <2>2, <2>3 DEF CatalogueIsWhole
<1>14. load' = [q \in Loads |-> load'[q]] /\ \A q \in Loads : PlanStands(load'[q])
  BY <1>4 DEF CatalogueInv, PlanStands, NoLoad
<1> QED BY <1>8, <1>11, <1>12, <1>13, <1>14 DEF CatalogueInv

LEMMA CatalogueNextKeeps ==
  ASSUME CatalogueInv, [CatalogueNext]_catalogueVars
  PROVE  CatalogueInv'
<1>1. \A r \in Loads : PlanStands(load[r])
  BY DEF CatalogueInv
<1>2. CASE UNCHANGED catalogueVars \/ CatalogueTick
  <2>1. UNCHANGED <<versions, offers, applied, products, mappings, policies, load>>
    BY <1>2 DEF CatalogueTick, catalogueVars, records
  <2> QED BY <1>1, <2>1, RecordsOnlyGrow DEF CatalogueInv
<1>3. CASE PeopleStep
  BY <1>3, PeopleKeepCatalogue
<1>4. ASSUME NEW r \in Loads, LoaderStep(r)
      PROVE  CatalogueInv'
  BY <1>4, PlanKeepsCatalogue, ApplyKeepsCatalogue DEF LoaderStep
<1> QED BY <1>2, <1>3, <1>4 DEF CatalogueNext

(* However runs of the loader overlap, with one another and with people at *)
(* work, and whichever of their codes collide, a product that is there by  *)
(* a run's hand is there whole, and stays so.                              *)
THEOREM ProductsAreLoadedWhole == CatalogueSpec => []CatalogueIsWhole
<1>1. CatalogueInv => CatalogueIsWhole
  BY DEF CatalogueInv
<1> QED BY <1>1, CatalogueInitInv, CatalogueNextKeeps, PTL DEF CatalogueSpec

----------------------------------------------------------------------------
(* An order whose deliveries come one at a time, which no operator repairs *)
(* and which anyone may claim at any moment.  What a delivery read of the  *)
(* status is then what it writes over; with two at once it is not.         *)
OneAtATime == (\A d, f \in Deliveries : d = f) /\ Operators = {}

Newest(row, rs) ==
  LET taken == {r \in rs : r.outcome \in {"applied", "ignored_duplicate"}}
  IN /\ \E r \in taken : r.event.status = row.status /\ r.event.at = row.last
     /\ \A r \in taken : r.event.at <= row.last

Final(row, rs) ==
  \A r \in rs : r.outcome = "applied" /\ r.event.status \in Terminal => row.status = r.event.status

Served(row, g, ks) ==
  row.status = "paid" /\ row.user # Nobody /\ row.offer =>
    g[row.user] # "none" \/ \E k \in ks : k.status = "open"

AsRead(c, row) ==
  c.pc \in {"identity", "commit"} => c.existing.status = row.status /\ c.existing.last = row.last

Serial ==
  /\ StatusIsNewest /\ TerminalIsFinal /\ PaidIsServed
  /\ \A d \in Deliveries : AsRead(delivery[d], purchase)

LEMMA SerialParts ==
  /\ StatusIsNewest <=> (purchase # Absent => Newest(purchase, recorded))
  /\ StatusIsNewest' <=> (purchase' # Absent => Newest(purchase', recorded'))
  /\ TerminalIsFinal <=> Final(purchase, recorded)
  /\ TerminalIsFinal' <=> Final(purchase', recorded')
  /\ PaidIsServed <=> Served(purchase, grants, cases)
  /\ PaidIsServed' <=> Served(purchase', grants', cases')
BY DEF StatusIsNewest, Newest, TerminalIsFinal, Final, PaidIsServed, Served

LEMMA InitSerial == Init => Serial
BY DEF Init, Serial, StatusIsNewest, TerminalIsFinal, PaidIsServed, AsRead, Absent, Idle

(* A step that leaves the order, and a delivery that reads it. *)
LEMMA QuietSerial ==
  ASSUME Serial, UNCHANGED orderVars,
         \A d \in Deliveries : delivery'[d] = delivery[d] \/ AsRead(delivery'[d], purchase)
  PROVE  Serial'
<1>1. StatusIsNewest' /\ TerminalIsFinal' /\ PaidIsServed'
  BY DEF Serial, StatusIsNewest, TerminalIsFinal, PaidIsServed, orderVars
<1>2. \A d \in Deliveries : AsRead(delivery'[d], purchase')
  BY DEF Serial, AsRead, orderVars
<1> QED BY <1>1, <1>2 DEF Serial

(* The one delivery there is has written. *)
LEMMA AloneSerial ==
  ASSUME OneAtATime, NEW d \in Deliveries, Inv, delivery' = [delivery EXCEPT ![d] = Idle],
         Newest(purchase', recorded'), Final(purchase', recorded'), Served(purchase', grants', cases')
  PROVE  Serial'
<1>1. \A f \in Deliveries : delivery'[f] = Idle
  BY DEF OneAtATime, Inv, TypeOK
<1>2. \A f \in Deliveries : AsRead(delivery'[f], purchase')
  BY <1>1 DEF AsRead, Idle
<1> QED BY <1>2, SerialParts DEF Serial

LEMMA BoundSerial ==
  ASSUME Inv, PaidIsServed, NEW u \in Subjects, NEW b,
         b = Unchanged \/ (Bindable(u) /\ b = Bound(u))
  PROVE  /\ b.row.status = purchase.status /\ b.row.last = purchase.last
         /\ Served(b.row, b.grants, b.cases)
<1>1. purchase \in Row /\ grants \in [Subjects -> GrantStates]
  BY Held
<1>2. CASE b = Unchanged
  BY <1>2, SerialParts DEF Unchanged
<1>3. CASE b = Bound(u)
  <2> DEFINE row == [purchase EXCEPT !.user = u]
             g == IF purchase.status = "paid" /\ purchase.offer THEN Issue(grants, u) ELSE grants
  <2>1. b.row = row /\ b.grants = g
    BY <1>3 DEF Bound
  <2>2. /\ row.user = u /\ row.status = purchase.status /\ row.last = purchase.last
        /\ row.offer = purchase.offer
    BY <1>1 DEF Row
  <2>3. Issue(grants, u)[u] # "none"
    BY <1>1 DEF Issue
  <2> HIDE DEF row
  <2> QED BY <2>1, <2>2, <2>3 DEF Served
<1> QED BY <1>2, <1>3

LEMMA ClaimSerial ==
  ASSUME Inv, Inv', Serial, NEW u \in Subjects, Claim(u)
  PROVE  Serial'
<1>1. PICK b : b = Bound(u)
  OBVIOUS
<1>2. /\ Bindable(u) /\ \E r \in recorded : r.event.subject = u
      /\ purchase' = b.row /\ grants' = b.grants /\ cases' = b.cases
      /\ UNCHANGED <<recorded, delivery>>
  BY <1>1 DEF Claim, Write
<1>3. purchase'.status = purchase.status /\ purchase'.last = purchase.last /\ Served(purchase', grants', cases')
  BY <1>1, <1>2, BoundSerial DEF Serial
<1>4. purchase # Absent
  BY <1>2, Held
<1>5. Newest(purchase', recorded')
  BY <1>2, <1>3, <1>4, SerialParts DEF Serial, Newest
<1>6. \A d \in Deliveries : AsRead(delivery'[d], purchase')
  BY <1>2, <1>3 DEF Serial, AsRead
<1>7. Final(purchase', recorded')
  BY <1>2, <1>3, SerialParts DEF Serial, Final
<1> QED BY <1>3, <1>5, <1>6, <1>7, SerialParts DEF Serial

(* A delivery that starts, reads or gives up. *)
LEMMA ReadingSerial ==
  ASSUME Inv, Serial, NEW d \in Deliveries,
         \/ \E e \in Events, verified \in BOOLEAN : Receive(d, e, verified)
         \/ ReadPurchase(d) \/ ReadIdentity(d) \/ AbortDelivery(d)
  PROVE  Serial'
<1>1. UNCHANGED orderVars
  BY DEF Receive, ReadPurchase, ReadIdentity, AbortDelivery
<1>2. \E c : AsRead(c, purchase) /\ delivery' \in {delivery, [delivery EXCEPT ![d] = c]}
  <2>1. ASSUME NEW e \in Events, NEW verified \in BOOLEAN, Receive(d, e, verified)
        PROVE  \E c : AsRead(c, purchase) /\ delivery' \in {delivery, [delivery EXCEPT ![d] = c]}
    <3>1. AsRead([pc |-> "begin", event |-> e], purchase) /\ AsRead(Idle, purchase)
      BY DEF AsRead, Idle
    <3>2. delivery' \in {delivery, [delivery EXCEPT ![d] = [pc |-> "begin", event |-> e]],
                         [delivery EXCEPT ![d] = Idle]}
      BY <2>1 DEF Receive, Accept, Goto
    <3> QED BY <3>1, <3>2
  <2>2. CASE ReadPurchase(d)
    <3> DEFINE c == [pc |-> "identity", event |-> delivery[d].event, existing |-> purchase]
    <3>1. AsRead(c, purchase) /\ AsRead(Idle, purchase)
      BY DEF AsRead, Idle
    <3>2. delivery' \in {[delivery EXCEPT ![d] = c], [delivery EXCEPT ![d] = Idle]}
      BY <2>2 DEF ReadPurchase, Accept, Goto
    <3> HIDE DEF c
    <3> QED BY <3>1, <3>2
  <2>3. CASE ReadIdentity(d)
    <3>1. \E c : delivery' = [delivery EXCEPT ![d] = c] /\ c.existing = delivery[d].existing
      <4> DEFINE was == delivery[d]
                 known == was.event.subject \in linked
                 c == [pc |-> "commit", event |-> was.event, existing |-> was.existing,
                       known |-> known, offer |-> mapped,
                       mismatch |-> /\ was.existing # Absent
                                    /\ \/ \E r \in recorded : r.event.subject # was.event.subject
                                       \/ /\ was.existing.user # Nobody
                                          /\ ~(known /\ was.event.subject = was.existing.user)]
      <4>1. delivery' = [delivery EXCEPT ![d] = c]
        BY <2>3 DEF ReadIdentity, Goto
      <4>2. c.existing = delivery[d].existing
        OBVIOUS
      <4> HIDE DEF c
      <4> QED BY <4>1, <4>2
    <3> PICK c : delivery' = [delivery EXCEPT ![d] = c] /\ c.existing = delivery[d].existing
      BY <3>1
    <3>2. delivery[d].pc = "identity"
      BY <2>3 DEF ReadIdentity
    <3>3. AsRead(c, purchase)
      BY <3>2 DEF AsRead, Serial
    <3> QED BY <3>3
  <2>4. CASE AbortDelivery(d)
    <3>1. AsRead(Idle, purchase)
      BY DEF AsRead, Idle
    <3> QED BY <2>4, <3>1 DEF AbortDelivery, Goto
  <2> QED BY <2>1, <2>2, <2>3, <2>4
<1>3. \A f \in Deliveries : delivery'[f] = delivery[f] \/ AsRead(delivery'[f], purchase)
  BY <1>2 DEF Inv, TypeOK
<1> QED BY <1>1, <1>3, QuietSerial

LEMMA CreateSerial ==
  ASSUME OneAtATime, Inv, NEW d \in Deliveries, Create(d)
  PROVE  Serial'
<1>1. PICK c : c = delivery[d]
  OBVIOUS
<1>2. PICK row : row = [status |-> c.event.status, last |-> c.event.at, offer |-> c.offer,
                        user |-> IF c.known THEN c.event.subject ELSE Nobody]
  OBVIOUS
<1>3. /\ c.pc = "commit" /\ purchase = Absent /\ purchase' = row
      /\ recorded' = recorded \cup {[event |-> c.event, outcome |-> "applied"]}
      /\ delivery' = [delivery EXCEPT ![d] = Idle]
      /\ \/ cases' = cases \cup {Case("unresolved_identity", c.event, {})}
         \/ cases' = cases \cup {Case("unknown_sku", c.event, {})}
         \/ c.known /\ c.offer /\ grants' = GrantEffect(grants, row, c.event.status)
  BY <1>1, <1>2 DEF Create, Accept, Goto
<1>4. c.event \in Events /\ c.event.subject \in Subjects /\ c.event.at \in Times
  BY <1>1, <1>3, CommitHeld, SubjectFacts
<1>5. recorded = {} /\ grants \in [Subjects -> GrantStates]
  BY <1>3, Held
<1>6. Newest(purchase', recorded')
  <2>1. c.event.at <= c.event.at
    BY <1>4, TimeAssumption DEF Times
  <2> DEFINE r == [event |-> c.event, outcome |-> "applied"]
  <2>2. recorded' = {r} /\ r.outcome = "applied" /\ r.event = c.event
    BY <1>3, <1>5
  <2>3. purchase'.status = c.event.status /\ purchase'.last = c.event.at
    BY <1>2, <1>3
  <2> HIDE DEF r
  <2> QED BY <2>1, <2>2, <2>3 DEF Newest
<1>7. Final(purchase', recorded')
  BY <1>2, <1>3, <1>5 DEF Final
<1>8. Served(purchase', grants', cases')
  <2>1. ASSUME NEW type, cases' = cases \cup {Case(type, c.event, {})}
        PROVE  Served(purchase', grants', cases')
    <3>1. Case(type, c.event, {}).status = "open" /\ Case(type, c.event, {}) \in cases'
      BY <2>1 DEF Case
    <3> QED BY <3>1 DEF Served
  <2>2. CASE c.known /\ c.offer /\ grants' = GrantEffect(grants, row, c.event.status)
    <3>1. SUFFICES ASSUME row.status = "paid", row.user # Nobody, row.offer
                   PROVE  grants'[row.user] # "none"
      BY <1>3 DEF Served
    <3>2. grants' = Issue(grants, row.user) /\ row.user \in Subjects
      BY <1>2, <1>4, <2>2, <3>1 DEF GrantEffect
    <3> QED BY <1>5, <3>2 DEF Issue
  <2> QED BY <1>3, <2>1, <2>2
<1> QED BY <1>3, <1>6, <1>7, <1>8, AloneSerial

LEMMA RefuseSerial ==
  ASSUME OneAtATime, Inv, Serial, NEW d \in Deliveries, RefuseBuyer(d)
  PROVE  Serial'
<1>1. /\ delivery' = [delivery EXCEPT ![d] = Idle] /\ UNCHANGED <<purchase, grants>>
      /\ recorded' = recorded \cup {[event |-> delivery[d].event, outcome |-> "ignored_identity_mismatch"]}
      /\ cases \subseteq cases'
      /\ delivery[d].pc = "commit" /\ delivery[d].mismatch
  BY DEF RefuseBuyer, Accept, Goto
<1>2. purchase # Absent
  BY <1>1 DEF Inv, DeliveryFits
<1>3. Newest(purchase', recorded')
  BY <1>1, <1>2, SerialParts DEF Serial, Newest
<1>4. Served(purchase', grants', cases')
  BY <1>1, SerialParts DEF Serial, Served
<1>5. Final(purchase', recorded')
  BY <1>1, SerialParts DEF Serial, Final
<1> QED BY <1>1, <1>3, <1>4, <1>5, AloneSerial

(* The transition: decided on the status the one delivery there is read.   *)
LEMMA ApplySerial ==
  ASSUME OneAtATime, Inv, Serial, NEW d \in Deliveries, Apply(d)
  PROVE  Serial'
<1>1. PICK c : c = delivery[d]
  OBVIOUS
<1>2. PICK e : e = c.event
  OBVIOUS
<1>3. PICK old : old = c.existing
  OBVIOUS
<1>4. PICK b : b = IF (c.known /\ old.user = Nobody) /\ Bindable(e.subject) THEN Bound(e.subject) ELSE Unchanged
  OBVIOUS
<1>5. PICK current : current = IF (c.known /\ old.user = Nobody) /\ b.row.user # Nobody THEN b.row ELSE old
  OBVIOUS
<1>6. PICK transition : transition = Transition(old, e)
  OBVIOUS
<1>7. /\ c.pc = "commit" /\ old # Absent /\ ~c.mismatch
      /\ recorded' = recorded \cup {[event |-> e, outcome |-> OutcomeOf(transition)]}
      /\ delivery' = [delivery EXCEPT ![d] = Idle]
      /\ \/ /\ transition \in {"stale", "illegal"}
            /\ Write([b EXCEPT !.cases = @ \cup {Case("ambiguous_transition", e, {})}])
         \/ /\ transition = "duplicate"
            /\ Write([b EXCEPT !.row.status = old.status, !.row.last = e.at])
         \/ /\ transition = "apply"
            /\ Write([row |-> [b.row EXCEPT !.status = e.status, !.last = e.at],
                      grants |-> GrantEffect(b.grants, current, e.status),
                      cases |-> b.cases \cup CaseEffect(b.grants, current, e.status, e)])
  BY <1>1, <1>2, <1>3, <1>4, <1>5, <1>6 DEF Apply, Accept, Goto
<1>8. /\ e \in Events /\ old \in Row /\ e.subject \in Subjects /\ e.at \in Int /\ e.status \in States
  BY <1>1, <1>2, <1>3, <1>7, CommitHeld, SubjectFacts, TimeAssumption DEF Times
<1>9. purchase # Absent /\ RowFits(old, purchase, recorded)
  <2>1. DeliveryFits(delivery[d], purchase, recorded, normalized)
    BY DEF Inv
  <2> QED BY <1>1, <1>3, <1>7, <2>1 DEF DeliveryFits
<1>10. old.status = purchase.status /\ old.last = purchase.last
  BY <1>1, <1>3, <1>7 DEF Serial, AsRead
<1>11. purchase \in Row /\ recorded \subseteq [event : Events, outcome : Outcomes] /\ Newest(purchase, recorded)
       /\ Final(purchase, recorded)
  BY <1>9, Held, SerialParts DEF Serial
<1>12. /\ b = [row |-> b.row, grants |-> b.grants, cases |-> b.cases]
       /\ b.row \in Row /\ b.grants \in [Subjects -> GrantStates]
       /\ b.row.user = purchase.user \/ (purchase.user = Nobody /\ b.row.user = e.subject)
       /\ b.row.status = purchase.status /\ b.row.last = purchase.last
       /\ Served(b.row, b.grants, b.cases)
  <2>1. b = Unchanged \/ (Bindable(e.subject) /\ b = Bound(e.subject))
    BY <1>4
  <2> QED BY <1>8, <1>9, <2>1, BoundFacts, BoundSerial DEF Serial
<1>13. CASE /\ transition \in {"stale", "illegal"}
            /\ Write([b EXCEPT !.cases = @ \cup {Case("ambiguous_transition", e, {})}])
  <2>1. purchase' = b.row /\ grants' = b.grants /\ b.cases \subseteq cases'
    BY <1>12, <1>13 DEF Write
  <2>2. OutcomeOf(transition) = "ignored_out_of_order"
    BY <1>13 DEF OutcomeOf
  <2>3. Newest(purchase', recorded')
    BY <1>7, <1>11, <1>12, <2>1, <2>2 DEF Newest
  <2>4. Served(purchase', grants', cases')
    BY <1>12, <2>1 DEF Served
  <2>5. Final(purchase', recorded')
    BY <1>7, <1>11, <1>12, <2>1, <2>2 DEF Final
  <2> QED BY <1>7, <2>3, <2>4, <2>5, AloneSerial
<1>14. transition \in {"duplicate", "apply"} => old.last <= e.at
  <2>1. old.last \in Int
    BY <1>8, TimeAssumption DEF Row
  <2> QED BY <1>6, <1>8, <2>1 DEF Transition
<1>15. ASSUME transition \in {"duplicate", "apply"},
              purchase'.status = e.status, purchase'.last = e.at
       PROVE  Newest(purchase', recorded')
  <2> DEFINE r == [event |-> e, outcome |-> OutcomeOf(transition)]
  <2>1. OutcomeOf(transition) \in {"applied", "ignored_duplicate"}
    BY <1>15 DEF OutcomeOf
  <2>2. r \in recorded' /\ r.event = e /\ r.outcome \in {"applied", "ignored_duplicate"}
    BY <1>7, <2>1
  <2>3. ASSUME NEW q \in recorded', q.outcome \in {"applied", "ignored_duplicate"}
        PROVE  q.event.at <= e.at
    <3>1. CASE q = r
      BY <1>8, <3>1
    <3>2. CASE q \in recorded
      <4>1. q.event.at \in Int /\ old.last \in Int
        BY <1>8, <1>11, <3>2, SubjectFacts, TimeAssumption DEF Times, Row
      <4>2. q.event.at <= old.last
        BY <1>10, <1>11, <2>3, <3>2 DEF Newest
      <4> QED BY <1>8, <1>14, <1>15, <4>1, <4>2
    <3> QED BY <1>7, <3>1, <3>2
  <2> HIDE DEF r
  <2> QED BY <1>15, <2>2, <2>3 DEF Newest
<1>16. CASE /\ transition = "duplicate"
            /\ Write([b EXCEPT !.row.status = old.status, !.row.last = e.at])
  <2>1. purchase' = [b.row EXCEPT !.status = old.status, !.last = e.at] /\ grants' = b.grants /\ cases' = b.cases
    BY <1>12, <1>16 DEF Write, Row
  <2>2. /\ purchase'.status = old.status /\ purchase'.last = e.at
        /\ purchase'.user = b.row.user /\ purchase'.offer = b.row.offer
    BY <1>12, <2>1 DEF Row
  <2>3. old.status = e.status
    BY <1>6, <1>16 DEF Transition
  <2>4. Newest(purchase', recorded')
    BY <1>15, <1>16, <2>2, <2>3
  <2>5. Served(purchase', grants', cases')
    BY <1>10, <1>12, <2>1, <2>2 DEF Served
  <2>6. OutcomeOf(transition) = "ignored_duplicate"
    BY <1>16 DEF OutcomeOf
  <2>7. Final(purchase', recorded')
    BY <1>7, <1>10, <1>11, <2>2, <2>6 DEF Final
  <2> QED BY <1>7, <2>4, <2>5, <2>7, AloneSerial
<1>17. CASE /\ transition = "apply"
            /\ Write([row |-> [b.row EXCEPT !.status = e.status, !.last = e.at],
                      grants |-> GrantEffect(b.grants, current, e.status),
                      cases |-> b.cases \cup CaseEffect(b.grants, current, e.status, e)])
  <2>1. /\ purchase' = [b.row EXCEPT !.status = e.status, !.last = e.at]
        /\ grants' = GrantEffect(b.grants, current, e.status)
        /\ cases' = b.cases \cup CaseEffect(b.grants, current, e.status, e)
    BY <1>17 DEF Write
  <2>2. purchase'.status = e.status /\ purchase'.last = e.at /\ purchase'.user = b.row.user
    BY <1>12, <2>1 DEF Row
  <2>3. current.user # Nobody => current.user = b.row.user
    BY <1>5, <1>9, <1>12 DEF RowFits
  <2>4. current.user \in Subjects \cup {Nobody} /\ current.offer \in BOOLEAN
    BY <1>5, <1>8, <1>12 DEF Row
  <2>5. ASSUME e.status = "paid"
        PROVE  grants'[b.row.user] # "none" \/ \E k \in cases' : k.status = "open"
    <3>1. CASE current.user # Nobody /\ current.offer
      <4>1. grants' = Issue(b.grants, b.row.user) /\ b.row.user \in Subjects
        BY <2>1, <2>3, <2>4, <2>5, <3>1 DEF GrantEffect
      <4> QED BY <1>12, <4>1 DEF Issue
    <3>2. ASSUME NEW type, CaseEffect(b.grants, current, e.status, e) = {Case(type, e, {})}
          PROVE  \E k \in cases' : k.status = "open"
      <4>1. Case(type, e, {}).status = "open" /\ Case(type, e, {}) \in cases'
        BY <2>1, <3>2 DEF Case
      <4> QED BY <4>1
    <3>3. CASE current.user = Nobody
      <4>1. CaseEffect(b.grants, current, e.status, e) = {Case("unresolved_identity", e, {})}
        BY <2>5, <3>3 DEF CaseEffect
      <4> QED BY <3>2, <4>1
    <3>4. CASE current.user # Nobody /\ ~current.offer
      <4>1. CaseEffect(b.grants, current, e.status, e) = {Case("unknown_sku", e, {})}
        BY <2>5, <3>4 DEF CaseEffect
      <4> QED BY <3>2, <4>1
    <3> QED BY <3>1, <3>3, <3>4
  <2>6. Newest(purchase', recorded')
    BY <1>15, <1>17, <2>2
  <2>7. Served(purchase', grants', cases')
    BY <2>2, <2>5 DEF Served
  <2>8. old.status \notin Terminal
    BY <1>6, <1>17 DEF Transition, Terminal
  <2>9. Final(purchase', recorded')
    BY <1>7, <1>10, <1>11, <2>2, <2>8 DEF Final
  <2> QED BY <1>7, <2>6, <2>7, <2>9, AloneSerial
<1> QED BY <1>7, <1>13, <1>16, <1>17

LEMMA NextSerial ==
  ASSUME OneAtATime, Inv, Inv', Serial, [Next]_vars
  PROVE  Serial'
<1>1. CASE \E d \in Deliveries : \/ \E e \in Events : Receive(d, e, TRUE)
                                 \/ \E e \in Unsigned : Receive(d, e, FALSE)
                                 \/ Process(d)
  BY <1>1, ReadingSerial, CreateSerial, RefuseSerial, ApplySerial, TimeAssumption DEF Process
<1>2. CASE \E u \in Subjects : Claim(u)
  BY <1>2, ClaimSerial
<1>3. CASE UNCHANGED vars \/ MapSku \/ \E u \in Subjects : SignIn(u)
  <2>1. UNCHANGED <<orderVars, delivery>>
    BY <1>3 DEF SignIn, MapSku, receiptVars, vars
  <2> QED BY <2>1, QuietSerial
<1> QED BY <1>1, <1>2, <1>3 DEF Next, OneAtATime

LEMMA AlwaysSerial ==
  ASSUME OneAtATime
  PROVE  Spec => []Serial
<1>1. Inv /\ Inv' /\ Serial /\ [Next]_vars => Serial'
  BY NextSerial
<1> QED BY <1>1, InitSerial, AlwaysInv, PTL DEF Spec

(* While its deliveries do not overlap and nobody repairs it by hand, an   *)
(* order shows the newest event it took, in whatever order they come.      *)
THEOREM StatusFollowsNewest ==
  ASSUME OneAtATime
  PROVE  Spec => []StatusIsNewest
<1>1. Serial => StatusIsNewest
  BY DEF Serial
<1> QED BY <1>1, AlwaysSerial, PTL

(* Then what closed an order for good is final.  Of two that overlap, one  *)
(* writes back the status it read before the other closed the order.       *)
THEOREM ClosedOrdersStayClosed ==
  ASSUME OneAtATime
  PROVE  Spec => []TerminalIsFinal
<1>1. Serial => TerminalIsFinal
  BY DEF Serial
<1> QED BY <1>1, AlwaysSerial, PTL

(* Then, too, a paid order of a known buyer and offer is granted, or has   *)
(* an open case, whenever the buyer signs in and claims it.                *)
THEOREM PaidOrdersAreServed ==
  ASSUME OneAtATime
  PROVE  Spec => []PaidIsServed
<1>1. Serial => PaidIsServed
  BY DEF Serial
<1> QED BY <1>1, AlwaysSerial, PTL

============================================================================
