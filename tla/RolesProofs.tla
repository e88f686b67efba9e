----------------------------- MODULE RolesProofs -----------------------------
(***************************************************************************)
(* Proofs about Roles, for any people, permissions, objects and requests   *)
(* at once, and without a bound on how often roles change; about Player,   *)
(* for any tabs, questions, options and pages; and about Entitlement, for  *)
(* any orders, policies, targets, days and requests at once.               *)
(***************************************************************************)
EXTENDS Roles, Player, Entitlement, SequenceTheorems, WellFoundedInduction, TLAPS

(* Rows and requests, as far as the argument needs them. *)
Assignment == People \X Staffing
Event == [of : Assignment, type : {"revoked", "reinstated"}, at : Nat]

Assigning == [pc : {"assign"}, of : Assignment]
Recording == [pc : {"record"}, event : Event]
Reading == [pc : {"read"}, person : People, kind : Kinds, object : Objects, audited : BOOLEAN,
            rest : SUBSET Assignment, holdings : SUBSET Staffing, from : Nat]

Rows == /\ moment \in Nat /\ seeded \subseteq Staffing
        /\ assigned \subseteq Assignment /\ events \subseteq Event
Requests == desk \in [Desks -> {Vacant} \cup Assigning \cup Recording \cup Reading]

(* Among the events of an assignment one is newest: there is no longer a   *)
(* newer one for every event. *)
HasNewest ==
  \A e \in events :
    \E n \in events : n.of = e.of /\ \A f \in events : f.of = e.of => f.at <= n.at

HeldSince(person, role, from) ==
  \E m \in from..moment : <<<<person, role>>, m>> \in inForce

(* What a request has yet to read are its person's assignments, and each   *)
(* role it has found was in force at some moment since it asked. *)
ReadFits(d) ==
  desk[d].pc = "read" =>
    /\ desk[d].from <= moment
    /\ \A a \in desk[d].rest : a \in assigned /\ a[1] = desk[d].person
    /\ \A role \in desk[d].holdings : HeldSince(desk[d].person, role, desk[d].from)

ReadsFit == \A d \in Desks : ReadFits(d)

Inv == Rows /\ Requests /\ HasNewest /\ ReadsFit /\ ActsUnderARole

LEMMA InitInv == RolesInit => Inv
BY DEF RolesInit, Inv, Rows, Requests, HasNewest, ReadsFit, ReadFits, ActsUnderARole,
       Vacant

----------------------------------------------------------------------------
(* The newest event decides as the administrator would: an assignment that *)
(* isRoleAssignmentActive reports is in force. *)
LEMMA ActiveStands ==
  ASSUME Rows, HasNewest, NEW a,
         IsRoleAssignmentActive({e \in events : e.of = a})
  PROVE  Stands(events, a)
<1> SUFFICES ASSUME NEW e \in events, e.of = a, e.type = "revoked"
             PROVE  \E f \in events : f.of = a /\ f.type = "reinstated" /\ f.at > e.at
  BY DEF Stands
<1>1. PICK n \in events : n.of = a /\ \A f \in events : f.of = a => f.at <= n.at
  BY DEF HasNewest
<1>2. n.type = "reinstated"
  <2>1. n.type # "revoked"
    BY <1>1 DEF IsRoleAssignmentActive
  <2> QED
    BY <2>1 DEF Rows, Event
<1>3. n.at > e.at
  <2>1. n.at \in Nat /\ e.at \in Nat /\ e.at <= n.at
    BY <1>1 DEF Rows, Event
  <2>2. CASE n.at = e.at
    <3>1. \A f \in {x \in events : x.of = a} : f.at <= e.at
      BY <1>1, <2>2
    <3> QED
      BY <3>1 DEF IsRoleAssignmentActive
  <2> QED
    BY <2>1, <2>2
<1> QED
  BY <1>1, <1>2, <1>3

(* What was in force at a moment stays on record, and time goes on. *)
LEMMA MomentGrows ==
  ASSUME Rows, At(moment) \/ NextMoment
  PROVE  /\ moment' \in Nat /\ moment <= moment'
         /\ inForce \subseteq inForce'
BY DEF Rows, NextMoment, At

LEMMA ActsStay ==
  ASSUME Rows, At(moment) \/ NextMoment, ActsUnderARole, UNCHANGED acts
  PROVE  ActsUnderARole'
<1>1. inForce \subseteq inForce'
  BY MomentGrows
<1> QED
  BY <1>1 DEF ActsUnderARole

(* A request that this step does not take keeps its reading.               *)
LEMMA ReadStays ==
  ASSUME Inv, At(moment) \/ NextMoment, assigned \subseteq assigned',
         NEW d \in Desks, desk'[d] = desk[d]
  PROVE  ReadFits(d)'
<1> SUFFICES ASSUME desk[d].pc = "read" PROVE ReadFits(d)'
  BY DEF ReadFits
<1> DEFINE c == desk[d]
<1>1. c.from \in Nat /\ Rows /\ ReadFits(d)
  BY DEF Inv, ReadsFit, Requests, Reading, Assigning, Recording, Vacant
<1>2. /\ c.from <= moment'
      /\ \A a \in c.rest : a \in assigned' /\ a[1] = c.person
  BY <1>1, MomentGrows DEF ReadFits, Rows
<1>3. ASSUME NEW role \in desk[d].holdings
      PROVE  HeldSince(desk[d].person, role, desk[d].from)'
  <2>1. PICK m \in c.from..moment : <<<<c.person, role>>, m>> \in inForce
    BY <1>1, <1>3 DEF ReadFits, HeldSince
  <2>2. m \in c.from..moment' /\ <<<<c.person, role>>, m>> \in inForce'
    BY <1>1, <2>1, MomentGrows DEF Rows
  <2> QED
    BY <2>2 DEF HeldSince
<1> QED
  BY <1>2, <1>3 DEF ReadFits

Work == {Vacant} \cup Assigning \cup Recording \cup Reading

(* The invariant after a step, from what it wrote and where its own        *)
(* request stands. *)
LEMMA OneDesk ==
  ASSUME Inv, At(moment) \/ NextMoment, assigned \subseteq assigned', Rows', HasNewest',
         ActsUnderARole', NEW d \in Desks, NEW c \in Work, desk' = [desk EXCEPT ![d] = c],
         ReadFits(d)'
  PROVE  Inv'
<1>1. Requests' /\ \A e \in Desks : e # d => desk'[e] = desk[e]
  BY DEF Inv, Requests, Work
<1>2. ReadsFit'
  BY <1>1, ReadStays DEF ReadsFit
<1> QED
  BY <1>1, <1>2 DEF Inv

LEMMA WorkKind ==
  ASSUME NEW c \in Work
  PROVE  /\ c.pc = "assign" => c \in Assigning
         /\ c.pc = "record" => c \in Recording
         /\ c.pc = "read" => c \in Reading
BY DEF Work, Vacant, Assigning, Recording, Reading

LEMMA DeskIs ==
  ASSUME Inv, NEW d \in Desks, NEW c, desk' = [desk EXCEPT ![d] = c]
  PROVE  /\ desk[d] \in Work /\ desk'[d] = c
         /\ c.pc # "read" => ReadFits(d)'
<1>1. desk \in [Desks -> Work]
  BY DEF Inv, Requests, Work
<1> QED
  BY <1>1 DEF ReadFits

----------------------------------------------------------------------------
LEMMA SeedStep == ASSUME Inv, SeedCanonicalRoles PROVE Inv'
<1>1. NextMoment /\ UNCHANGED <<assigned, events, desk, acts>> /\ seeded' = Staffing
  BY DEF SeedCanonicalRoles
<1>2. Rows' /\ Requests' /\ HasNewest' /\ ActsUnderARole'
  BY <1>1, MomentGrows, ActsStay DEF Inv, Rows, Requests, HasNewest
<1>3. ReadsFit'
  BY <1>1, ReadStays DEF ReadsFit
<1> QED
  BY <1>2, <1>3 DEF Inv

LEMMA AssignStep ==
  ASSUME Inv, NEW d \in Desks, NEW p \in People, NEW role \in Staffing, AssignRole(d, p, role)
  PROVE  Inv'
<1> DEFINE c == [pc |-> "assign", of |-> <<p, role>>]
<1>1. /\ NextMoment /\ UNCHANGED <<seeded, assigned, events, acts>>
      /\ desk' = [desk EXCEPT ![d] = c]
  BY DEF AssignRole, Sit, roleRows
<1>2. c \in Work
  BY DEF Work, Assigning, Assignment
<1>3. Rows' /\ HasNewest' /\ ActsUnderARole'
  BY <1>1, MomentGrows, ActsStay DEF Inv, Rows, HasNewest
<1> QED
  BY <1>1, <1>2, <1>3, DeskIs, OneDesk

LEMMA InsertAssignmentStep ==
  ASSUME Inv, NEW d \in Desks, InsertAssignment(d)
  PROVE  Inv'
<1>1. /\ At(moment) /\ UNCHANGED <<seeded, events, acts>>
      /\ assigned' = assigned \cup {desk[d].of} /\ desk[d].pc = "assign"
      /\ desk' = [desk EXCEPT ![d] = Vacant]
  BY DEF InsertAssignment, Rise
<1>2. desk[d].of \in Assignment
  BY <1>1, DeskIs, WorkKind DEF Assigning
<1>3. Rows' /\ HasNewest' /\ ActsUnderARole'
  BY <1>1, <1>2, MomentGrows, ActsStay DEF Inv, Rows, HasNewest
<1>4. Vacant \in Work /\ Vacant.pc # "read"
  BY DEF Work, Vacant
<1> QED
  BY <1>1, <1>3, <1>4, DeskIs, OneDesk

LEMMA RecordStep ==
  ASSUME Inv, NEW d \in Desks, NEW a \in assigned, NEW type \in {"revoked", "reinstated"},
         RecordRoleAssignmentEvent(d, a, type)
  PROVE  Inv'
<1> DEFINE c == [pc |-> "record", event |-> [of |-> a, type |-> type, at |-> moment]]
<1>1. /\ NextMoment /\ UNCHANGED <<seeded, assigned, events, acts>>
      /\ desk' = [desk EXCEPT ![d] = c]
  BY DEF RecordRoleAssignmentEvent, Sit, roleRows
<1>2. [of |-> a, type |-> type, at |-> moment] \in Event
  BY DEF Inv, Rows, Event
<1>3. c \in Work
  BY <1>2 DEF Work, Recording
<1>4. Rows' /\ HasNewest' /\ ActsUnderARole'
  BY <1>1, MomentGrows, ActsStay DEF Inv, Rows, HasNewest
<1> QED
  BY <1>1, <1>3, <1>4, DeskIs, OneDesk

(* The newest of an assignment's events is the old one, or the one that    *)
(* is added, whatever the order in which they commit. *)
LEMMA NewestStays ==
  ASSUME Rows, HasNewest, NEW event \in Event, events' = events \cup {event}
  PROVE  HasNewest'
<1> SUFFICES ASSUME NEW e \in events'
             PROVE  \E n \in events' : n.of = e.of /\ \A f \in events' : f.of = e.of => f.at <= n.at
  BY DEF HasNewest
<1>1. \A f \in events' : f.at \in Nat
  BY DEF Rows, Event
<1>2. CASE \A f \in events : f.of = e.of => f.at <= event.at
  <2>1. CASE event.of = e.of
    BY <1>1, <1>2, <2>1
  <2>2. CASE event.of # e.of
    <3>1. e \in events
      BY <2>2
    <3>2. PICK n \in events : n.of = e.of /\ \A f \in events : f.of = e.of => f.at <= n.at
      BY <3>1 DEF HasNewest
    <3> QED
      BY <2>2, <3>2
  <2> QED
    BY <2>1, <2>2
<1>3. CASE ~\A f \in events : f.of = e.of => f.at <= event.at
  <2>1. PICK g \in events : g.of = e.of /\ event.at <= g.at
    BY <1>1, <1>3
  <2>2. PICK n \in events : n.of = g.of /\ \A f \in events : f.of = g.of => f.at <= n.at
    BY DEF HasNewest
  <2>3. g.at <= n.at /\ event.at <= n.at
    BY <1>1, <2>1, <2>2
  <2> QED
    BY <2>1, <2>2, <2>3
<1> QED
  BY <1>2, <1>3

LEMMA InsertEventStep ==
  ASSUME Inv, NEW d \in Desks, InsertEvent(d)
  PROVE  Inv'
<1>1. /\ At(moment) /\ UNCHANGED <<seeded, assigned, acts>>
      /\ events' = events \cup {desk[d].event} /\ desk[d].pc = "record"
      /\ desk' = [desk EXCEPT ![d] = Vacant]
  BY DEF InsertEvent, Rise
<1>2. desk[d].event \in Event
  BY <1>1, DeskIs, WorkKind DEF Recording
<1>3. Rows' /\ HasNewest' /\ ActsUnderARole'
  BY <1>1, <1>2, MomentGrows, ActsStay, NewestStays DEF Inv, Rows
<1>4. Vacant \in Work /\ Vacant.pc # "read"
  BY DEF Work, Vacant
<1> QED
  BY <1>1, <1>3, <1>4, DeskIs, OneDesk

LEMMA ListRolesStep ==
  ASSUME Inv, NEW d \in Desks, NEW p \in People, NEW k \in Kinds, NEW o \in Objects,
         NEW audited \in BOOLEAN, ListRoles(d, p, k, o, audited)
  PROVE  Inv'
<1> DEFINE mine == {a \in assigned : a[1] = p}
           c == [pc |-> "read", person |-> p, kind |-> k, object |-> o, audited |-> audited,
                 rest |-> mine, holdings |-> {}, from |-> moment + 1]
<1>1. /\ NextMoment /\ UNCHANGED <<seeded, assigned, events, acts>>
      /\ desk' = [desk EXCEPT ![d] = c]
  BY DEF ListRoles, Sit, roleRows
<1>2. c \in Work
  <2>1. mine \in SUBSET Assignment /\ {} \in SUBSET Staffing /\ moment + 1 \in Nat
    BY DEF Inv, Rows
  <2> HIDE DEF mine
  <2> QED
    BY <2>1 DEF Work, Reading
<1>3. Rows' /\ HasNewest' /\ ActsUnderARole'
  BY <1>1, MomentGrows, ActsStay DEF Inv, Rows, HasNewest
<1>4. ReadFits(d)'
  <2>1. desk'[d] = c
    BY <1>1, DeskIs
  <2> QED
    BY <1>1, <2>1 DEF ReadFits, NextMoment, At, Inv, Rows
<1> QED
  BY <1>1, <1>2, <1>3, <1>4, OneDesk

LEMMA ListActiveStep ==
  ASSUME Inv, NEW d \in Desks, ListActiveRoleHoldings(d)
  PROVE  Inv'
<1> DEFINE old == desk[d]
<1>0. old \in Reading /\ At(moment) /\ UNCHANGED <<seeded, assigned, events, acts>>
  BY WorkKind DEF ListActiveRoleHoldings, roleRows, Inv, Requests, Work
<1>1. PICK a \in old.rest :
        desk' = [desk EXCEPT ![d].rest = @ \ {a},
                   ![d].holdings = IF IsRoleAssignmentActive({e \in events : e.of = a})
                                   THEN @ \cup {a[2]} ELSE @]
  BY DEF ListActiveRoleHoldings
<1> DEFINE active == IsRoleAssignmentActive({e \in events : e.of = a})
           found == IF active THEN old.holdings \cup {a[2]} ELSE old.holdings
           c == [old EXCEPT !.rest = old.rest \ {a}, !.holdings = found]
<1>2. desk' = [desk EXCEPT ![d] = c]
  BY <1>1 DEF Inv, Requests
<1>3. /\ a \in Assignment /\ a \in assigned /\ a = <<old.person, a[2]>> /\ a[2] \in Staffing
  <2>1. ReadFits(d) /\ old.pc = "read"
    BY <1>0 DEF Inv, ReadsFit, Reading
  <2>2. a \in assigned /\ a[1] = old.person /\ a \in Assignment
    BY <1>0, <1>1, <2>1 DEF ReadFits, Reading
  <2> QED
    BY <2>2 DEF Assignment
<1>4. found \subseteq Staffing
  BY <1>0, <1>3 DEF Reading
<1>5. /\ c \in Reading /\ c.person = old.person /\ c.from = old.from
      /\ c.rest = old.rest \ {a} /\ c.holdings = found
  <2> HIDE DEF found
  <2> QED
    BY <1>0, <1>4 DEF Reading
<1>6. Rows' /\ HasNewest' /\ ActsUnderARole'
  BY <1>0, MomentGrows, ActsStay DEF Inv, Rows, HasNewest
<1>7. active => <<a, moment>> \in inForce'
  <2>1. active => Stands(events, a)
    BY ActiveStands DEF Inv
  <2> QED
    BY <1>0, <1>3, <2>1 DEF At
<1>8. old.from \in Nat /\ moment \in Nat /\ moment' = moment /\ inForce \subseteq inForce'
  BY <1>0, MomentGrows DEF Reading, At, Inv, Rows
<1>9. ReadFits(d)'
  <2>1. desk'[d] = c /\ ReadFits(d) /\ old.pc = "read"
    BY <1>0, <1>2, DeskIs DEF Inv, ReadsFit, Reading
  <2>2. ASSUME NEW role \in found
        PROVE  \E m \in old.from..moment' : <<<<old.person, role>>, m>> \in inForce'
    <3>1. CASE role \in old.holdings
      BY <1>8, <2>1, <3>1 DEF ReadFits, HeldSince
    <3>2. CASE role = a[2] /\ active
      <4>1. <<<<old.person, role>>, moment>> \in inForce'
        BY <1>3, <1>7, <3>2
      <4>2. moment \in old.from..moment'
        BY <1>8, <2>1 DEF ReadFits
      <4> QED
        BY <4>1, <4>2
    <3> QED
      BY <2>2, <3>1, <3>2
  <2> HIDE DEF found
  <2>3. \A x \in old.rest \ {a} : x \in assigned' /\ x[1] = old.person
    BY <1>0, <2>1 DEF ReadFits
  <2>4. \A role \in desk'[d].holdings :
          \E m \in desk'[d].from..moment' : <<<<desk'[d].person, role>>, m>> \in inForce'
    BY <1>5, <2>1, <2>2
  <2> HIDE DEF c
  <2>5. /\ desk'[d].from <= moment'
        /\ \A x \in desk'[d].rest : x \in assigned' /\ x[1] = desk'[d].person
    BY <1>5, <1>8, <2>1, <2>3 DEF ReadFits
  <2> QED
    BY <2>4, <2>5 DEF ReadFits, HeldSince
<1> QED
  BY <1>0, <1>2, <1>5, <1>6, <1>9, OneDesk DEF Work

LEMMA DecideStep ==
  ASSUME Inv, NEW d \in Desks, Decide(d)
  PROVE  Inv'
<1> DEFINE c == desk[d]
           act == [of |-> c, until |-> moment]
<1>1. /\ c \in Reading /\ At(moment) /\ UNCHANGED <<seeded, assigned, events>>
      /\ desk' = [desk EXCEPT ![d] = Vacant]
  BY WorkKind DEF Decide, Rise, roleRows, Inv, Requests, Work
<1>2. Vacant \in Work /\ Vacant.pc # "read"
  BY DEF Work, Vacant
<1>3. Rows' /\ HasNewest' /\ inForce \subseteq inForce'
  BY <1>1, MomentGrows DEF Inv, Rows, HasNewest
<1>4. ASSUME Authorize(c)
      PROVE  /\ \E role \in Staffing : \E m \in c.from..moment :
                  <<<<c.person, role>>, m>> \in inForce' /\ c.kind.permission \in GrantsTo[role]
             /\ c.kind.maker => MakerOf[c.object] # c.person
             /\ c.kind.risky => c.audited
  <2>1. PICK role \in c.holdings : c.kind.permission \in GrantsTo[role]
    BY <1>4 DEF Authorize, ResolvePermission
  <2>2. role \in Staffing
    BY <1>1 DEF Reading
  <2>3. PICK m \in c.from..moment : <<<<c.person, role>>, m>> \in inForce
    BY <1>1 DEF Inv, ReadsFit, ReadFits, HeldSince, Reading
  <2> QED
    BY <1>3, <1>4, <2>1, <2>2, <2>3 DEF Authorize, ViolatesMakerChecker, IsAudited
<1>5. ActsUnderARole'
  <2>1. CASE ~Authorize(c)
    BY <1>1, <2>1, ActsStay DEF Decide, Inv
  <2>2. CASE Authorize(c)
    <3>1. acts' = acts \cup {act} /\ act.of = c /\ act.until = moment
      BY <2>2 DEF Decide
    <3> QED
      BY <1>3, <1>4, <2>2, <3>1 DEF ActsUnderARole, Inv
  <2> QED
    BY <2>1, <2>2
<1> QED
  BY <1>1, <1>2, <1>3, <1>5, DeskIs, OneDesk

LEMMA StepInv == Inv /\ [RolesNext]_rolesVars => Inv'
<1> SUFFICES ASSUME Inv, [RolesNext]_rolesVars PROVE Inv'
  OBVIOUS
<1>1. CASE UNCHANGED rolesVars
  BY <1>1 DEF rolesVars, roleRows, Inv, Rows, Requests, HasNewest, ReadsFit, ReadFits,
     HeldSince, ActsUnderARole
<1>2. CASE RolesNext
  BY <1>2, SeedStep, AssignStep, InsertAssignmentStep, RecordStep, InsertEventStep,
     ListRolesStep, ListActiveStep, DecideStep DEF RolesNext
<1> QED
  BY <1>1, <1>2

(* Whoever acted held a role in force that grants what was done at some    *)
(* moment between asking and deciding, although the answer is put together *)
(* from several reads while roles are assigned, revoked and reinstated,    *)
(* and their events commit out of order; and nobody approved his own.      *)
THEOREM ActorsHaveRoles == RolesSpec => []ActsUnderARole
<1>1. Inv => ActsUnderARole
  BY DEF Inv
<1> QED
  BY <1>1, InitInv, StepInv, PTL DEF RolesSpec

-----------------------------------------------------------------------------
(* Player: what a page shows once its saves are answered.                  *)

Save == [question : Questions, option : Options, expected : Nat, previous : Entry, base : Entry]
Reply == [kind : {"waiting", "saved", "refused"}, revision : Nat]

PlayerTypes ==
  /\ row \in [Questions -> Entry]
  /\ answers \in [Tabs -> [Questions -> Entry] \cup {Closed}]
  /\ saves \in [Tabs -> Seq(Save)] /\ reply \in [Tabs -> Reply]
  /\ orphans \subseteq Save /\ hurried \in [Tabs -> SUBSET Questions]

(* Blank, or taken by the server at that revision. *)
Vouched(q, e) == e.option = NoOption \/ <<q, e.option, e.revision>> \in accepted

(* A save read an entry the server had, and, unless its learner hurried,   *)
(* took the place of one. *)
SaveFits(s, hasty) ==
  /\ s.base = NotRead \/ Vouched(s.question, s.base)
  /\ s.question \notin hasty => Vouched(s.question, s.previous)

ShownFits(t) ==
  \A q \in Questions : Settled(t, q) /\ q \notin hurried[t] => Vouched(q, answers[t][q])

(* A page with a save out is open, and a reply is to its first save, which *)
(* the server has taken if the reply says so. *)
PageFits(t) ==
  /\ saves[t] # <<>> => answers[t] # Closed
  /\ reply[t].kind # "waiting" => saves[t] # <<>>
  /\ reply[t].kind = "saved" =>
       LET s == Head(saves[t])
       IN  Vouched(s.question, [option |-> s.option, revision |-> reply[t].revision])
  /\ \A i \in DOMAIN saves[t] : SaveFits(saves[t][i], hurried[t])
  /\ ShownFits(t)

PlayerInv ==
  /\ PlayerTypes
  /\ \A q \in Questions : Vouched(q, row[q])
  /\ \A t \in Tabs : PageFits(t)

LEMMA PlayerInitInv == PlayerInit => PlayerInv
<1> SUFFICES ASSUME PlayerInit PROVE PlayerInv
  OBVIOUS
<1>1. PlayerTypes
  BY DEF PlayerInit, PlayerTypes, Unanswered, Entry, Reply, Waiting
<1>2. \A q \in Questions : Vouched(q, row[q])
  BY DEF PlayerInit, Unanswered, Vouched
<1>3. \A t \in Tabs : PageFits(t)
  BY DEF PlayerInit, PageFits, ShownFits, Settled, Waiting
<1> QED BY <1>1, <1>2, <1>3 DEF PlayerInv

LEMMA PlayerInvShown == PlayerInv => ShownWasSaved
BY DEF PlayerInv, PageFits, ShownFits, Vouched, ShownWasSaved

(* What the server has taken stays taken. *)
LEMMA VouchedStays ==
  ASSUME accepted \subseteq accepted', NEW q, NEW e, Vouched(q, e)
  PROVE  Vouched(q, e)'
BY DEF Vouched

LEMMA SaveFitsStays ==
  ASSUME accepted \subseteq accepted', NEW s, NEW hasty, NEW later, hasty \subseteq later,
         SaveFits(s, hasty)
  PROVE  SaveFits(s, later)'
BY DEF SaveFits, Vouched

(* A page that a step does not touch. *)
LEMMA PageFitsStays ==
  ASSUME NEW t \in Tabs, PageFits(t), accepted \subseteq accepted',
         answers'[t] = answers[t], saves'[t] = saves[t], reply'[t] = reply[t],
         hurried'[t] = hurried[t]
  PROVE  PageFits(t)'
<1>1. ShownFits(t)'
  BY DEF PageFits, ShownFits, Settled, Outstanding, Vouched
<1>2. (\A i \in DOMAIN saves[t] : SaveFits(saves[t][i], hurried[t]))'
  BY DEF PageFits, SaveFits, Vouched
<1>3. (reply[t].kind = "saved" =>
        LET s == Head(saves[t])
        IN  Vouched(s.question, [option |-> s.option, revision |-> reply[t].revision]))'
  BY DEF PageFits, Vouched
<1>4. /\ (saves[t] # <<>> => answers[t] # Closed)'
      /\ (reply[t].kind # "waiting" => saves[t] # <<>>)'
  BY DEF PageFits
<1> QED BY <1>1, <1>2, <1>3, <1>4 DEF PageFits

(* The first save of a page. *)
LEMMA HeadFits ==
  ASSUME PlayerInv, NEW t \in Tabs, saves[t] # <<>>
  PROVE  /\ Head(saves[t]) \in Save /\ Head(saves[t]) = saves[t][1] /\ 1 \in DOMAIN saves[t]
         /\ SaveFits(Head(saves[t]), hurried[t])
         /\ answers[t] # Closed /\ answers[t] \in [Questions -> Entry]
<1>1. saves[t] \in Seq(Save)
  BY DEF PlayerInv, PlayerTypes
<1>2. Head(saves[t]) \in Save /\ Head(saves[t]) = saves[t][1]
  BY <1>1, HeadTailProperties
<1>3. 1 \in DOMAIN saves[t]
  BY <1>1, EmptySeq, LenProperties
<1> QED BY <1>2, <1>3 DEF PlayerInv, PageFits, PlayerTypes

(* A page opens on the rows the server has. *)
LEMMA OpenPageKeeps ==
  ASSUME PlayerInv, NEW t \in Tabs, OpenPage(t) PROVE PlayerInv'
<1>1. PlayerTypes /\ UNCHANGED <<row, accepted>> /\ answers' = [answers EXCEPT ![t] = row]
      /\ saves' = [saves EXCEPT ![t] = <<>>] /\ reply' = [reply EXCEPT ![t] = Waiting]
      /\ hurried' = [hurried EXCEPT ![t] = {}] /\ orphans' = orphans \cup LeftBehind(t)
  BY DEF PlayerInv, OpenPage, serverVars
<1>2. LeftBehind(t) \subseteq Save
  BY HeadFits DEF LeftBehind
<1>3. PlayerTypes'
  <2>1. <<>> \in Seq(Save) /\ Waiting \in Reply
    BY DEF Waiting, Reply
  <2> QED BY <1>1, <1>2, <2>1 DEF PlayerTypes
<1>4. \A q \in Questions : Vouched(q, row[q])'
  BY <1>1 DEF PlayerInv, Vouched
<1>5. ASSUME NEW u \in Tabs, u # t PROVE PageFits(u)'
  BY <1>1, <1>5, PageFitsStays DEF PlayerInv, PlayerTypes
<1>6. PageFits(t)'
  <2>1. answers'[t] = row /\ saves'[t] = <<>> /\ reply'[t] = Waiting
    BY <1>1 DEF PlayerTypes
  <2> QED BY <1>1, <1>4, <2>1 DEF PageFits, ShownFits, Waiting, Vouched
<1> QED BY <1>3, <1>4, <1>5, <1>6 DEF PlayerInv

(* A choice waits for its save from the moment it is shown. *)
LEMMA SelectKeeps ==
  ASSUME PlayerInv, NEW t \in Tabs, NEW q \in Questions, NEW o \in Options, Select(t, q, o)
  PROVE  PlayerInv'
<1>0. PICK s : s = [question |-> q, option |-> o, expected |-> answers[t][q].revision,
                    previous |-> answers[t][q], base |-> NotRead]
  OBVIOUS
<1>a. UNCHANGED <<row, accepted, reply, orphans>> /\ PlayerTypes
  BY DEF PlayerInv, Select, serverVars
<1>1. /\ PlayerTypes /\ UNCHANGED <<row, accepted, reply, orphans>> /\ answers[t] # Closed
      /\ answers' = [answers EXCEPT ![t][q].option = o]
      /\ saves' = [saves EXCEPT ![t] = Append(@, s)]
      /\ hurried' = [hurried EXCEPT ![t] = IF Outstanding(t, q) THEN @ \cup {q} ELSE @]
  BY <1>0 DEF PlayerInv, Select, serverVars
<1>2. /\ answers[t] \in [Questions -> Entry] /\ answers[t][q] \in Entry
      /\ saves[t] \in Seq(Save) /\ hurried[t] \subseteq Questions
  BY <1>1 DEF PlayerTypes
<1>3. s \in Save /\ s.question = q /\ s.base = NotRead /\ s.previous = answers[t][q]
  BY <1>0, <1>2 DEF Save, Entry, NotRead
<1>4. /\ Append(saves[t], s) \in Seq(Save) /\ Append(saves[t], s) # <<>>
      /\ Len(Append(saves[t], s)) = Len(saves[t]) + 1
      /\ Append(saves[t], s)[Len(saves[t]) + 1] = s
      /\ \A i \in 1..Len(saves[t]) : Append(saves[t], s)[i] = saves[t][i]
      /\ saves[t] # <<>> => Head(Append(saves[t], s)) = Head(saves[t])
  BY <1>2, <1>3, AppendProperties
<1> DEFINE now == [answers[t] EXCEPT ![q].option = o]
<1>5. /\ answers'[t] = now /\ now \in [Questions -> Entry]
      /\ \A p \in Questions \ {q} : now[p] = answers[t][p]
      /\ answers' \in [Tabs -> [Questions -> Entry] \cup {Closed}]
  <2>1. [answers[t][q] EXCEPT !.option = o] \in Entry
    BY <1>2 DEF Entry
  <2>2. now \in [Questions -> Entry] /\ \A p \in Questions \ {q} : now[p] = answers[t][p]
    BY <1>2, <2>1
  <2>3. answers' = [answers EXCEPT ![t] = now]
    BY <1>1
  <2> HIDE DEF now
  <2> QED BY <1>1, <2>2, <2>3 DEF PlayerTypes
<1> HIDE DEF now
<1>6. /\ saves'[t] = Append(saves[t], s) /\ reply'[t] = reply[t]
      /\ saves' \in [Tabs -> Seq(Save)]
      /\ \A u \in Tabs \ {t} : saves'[u] = saves[u] /\ answers'[u] = answers[u]
                               /\ reply'[u] = reply[u] /\ hurried'[u] = hurried[u]
  BY <1>1, <1>4 DEF PlayerTypes
<1>7. /\ hurried' \in [Tabs -> SUBSET Questions] /\ hurried[t] \subseteq hurried'[t]
      /\ q \notin hurried'[t] => ~Outstanding(t, q)
  BY <1>1, <1>2 DEF PlayerTypes
<1>8. PlayerTypes'
  <2>1. row' \in [Questions -> Entry] /\ reply' \in [Tabs -> Reply] /\ orphans' \subseteq Save
    BY <1>a DEF PlayerTypes
  <2>2. /\ answers' \in [Tabs -> [Questions -> Entry] \cup {Closed}]
        /\ saves' \in [Tabs -> Seq(Save)] /\ hurried' \in [Tabs -> SUBSET Questions]
    BY <1>5, <1>6, <1>7
  <2> QED BY <2>1, <2>2 DEF PlayerTypes
<1>9. \A p \in Questions : Vouched(p, row[p])'
  BY <1>1 DEF PlayerInv, Vouched
<1>10. ASSUME NEW u \in Tabs, u # t PROVE PageFits(u)'
  BY <1>1, <1>6, <1>10, PageFitsStays DEF PlayerInv
<1>11. PageFits(t)'
  <2>0. PageFits(t)
    BY DEF PlayerInv
  <2>1. answers'[t] # Closed /\ saves'[t] # <<>>
    BY <1>4, <1>5, <1>6, PlayerAssumption
  <2>2. (reply[t].kind = "saved" =>
          LET h == Head(saves[t])
          IN  Vouched(h.question, [option |-> h.option, revision |-> reply[t].revision]))'
    <3>1. reply[t].kind = "saved" => saves[t] # <<>> /\ Head(saves[t])' = Head(saves[t])
      BY <2>0, <1>4, <1>6 DEF PageFits
    <3> QED BY <1>1, <2>0, <3>1 DEF PageFits, Vouched
  <2>3. DOMAIN saves[t] = 1..Len(saves[t]) /\ DOMAIN saves'[t] = 1..(Len(saves[t]) + 1)
        /\ Len(saves[t]) \in Nat
    BY <1>2, <1>4, <1>6, LenProperties
  <2>4. SaveFits(s, hurried[t])'
    <3>1. q \notin hurried'[t] => Vouched(q, answers[t][q])
      <4>1. q \notin hurried'[t] => Settled(t, q) /\ q \notin hurried[t]
        <5>1. answers[t] # Closed
          BY <1>1
        <5> QED BY <1>7, <5>1 DEF Settled
      <4> QED BY <2>0, <4>1 DEF PageFits, ShownFits
    <3>2. SaveFits(s, hurried'[t])
      BY <1>3, <3>1 DEF SaveFits
    <3> QED BY <1>a, <3>2 DEF SaveFits, Vouched
  <2>5. ASSUME NEW i \in DOMAIN saves'[t] PROVE SaveFits(saves[t][i], hurried[t])'
    <3>1. CASE i \in DOMAIN saves[t]
      <4>1. SaveFits(saves[t][i], hurried[t]) /\ saves'[t][i] = saves[t][i]
        BY <1>4, <1>6, <2>0, <2>3, <3>1 DEF PageFits
      <4> QED BY <1>1, <1>7, <4>1 DEF SaveFits, Vouched
    <3>2. CASE i = Len(saves[t]) + 1
      <4>1. saves'[t][i] = s
        BY <1>4, <1>6, <3>2
      <4> QED BY <2>4, <4>1
    <3> QED BY <2>3, <3>1, <3>2
  <2>6. ShownFits(t)'
    <3> SUFFICES ASSUME NEW p \in Questions, Settled(t, p)', p \notin hurried'[t]
                 PROVE  Vouched(p, answers[t][p])'
      BY DEF ShownFits
    <3>1. p # q
      <4>1. Len(saves[t]) + 1 \in DOMAIN saves'[t] /\ saves'[t][Len(saves[t]) + 1] = s
        BY <1>4, <1>6, <2>3
      <4> QED BY <1>3, <4>1 DEF Settled, Outstanding
    <3>2. ~Outstanding(t, p)
      BY <1>4, <1>6, <2>3 DEF Settled, Outstanding
    <3>3. Vouched(p, answers[t][p]) /\ answers'[t][p] = answers[t][p]
      BY <1>1, <1>5, <1>7, <2>0, <3>1, <3>2 DEF PageFits, ShownFits, Settled
    <3> QED BY <1>a, <3>3 DEF Vouched
  <2> QED BY <2>1, <2>2, <2>5, <2>6 DEF PageFits
<1> QED BY <1>8, <1>9, <1>10, <1>11 DEF PlayerInv

(* The transaction reads an entry the server has. *)
LEMMA ReadRowKeeps ==
  ASSUME PlayerInv, NEW t \in Tabs, ReadRow(t) PROVE PlayerInv'
<1>1. /\ saves[t] # <<>> /\ reply[t] = Waiting
      /\ saves' = [saves EXCEPT ![t][1].base = row[Head(saves[t]).question]]
      /\ UNCHANGED <<row, accepted, answers, reply, orphans, hurried>> /\ PlayerTypes
  BY DEF ReadRow, serverVars, PlayerInv
<1>2. /\ Head(saves[t]) \in Save /\ Head(saves[t]) = saves[t][1] /\ 1 \in DOMAIN saves[t]
      /\ SaveFits(Head(saves[t]), hurried[t]) /\ answers[t] # Closed
  BY <1>1, HeadFits
<1>3. PICK h : h = [saves[t][1] EXCEPT !.base = row[Head(saves[t]).question]]
  OBVIOUS
<1>4. /\ h \in Save /\ h.question = saves[t][1].question /\ h.previous = saves[t][1].previous
      /\ h.base = row[h.question]
  <2>1. saves[t][1] \in Save /\ row[Head(saves[t]).question] \in Entry
        /\ Head(saves[t]).question = saves[t][1].question
    BY <1>1, <1>2 DEF PlayerTypes, Save
  <2> QED BY <1>3, <2>1 DEF Save
<1>5. saves[t] \in Seq(Save) /\ DOMAIN saves[t] = 1..Len(saves[t])
  BY <1>1, LenProperties DEF PlayerTypes
<1>6. /\ [saves[t] EXCEPT ![1] = h] \in Seq(Save)
      /\ Len([saves[t] EXCEPT ![1] = h]) = Len(saves[t])
      /\ \A j \in 1..Len(saves[t]) : [saves[t] EXCEPT ![1] = h][j] = IF j = 1 THEN h ELSE saves[t][j]
  BY <1>2, <1>4, <1>5, ExceptSeq
<1>7. PICK now : now = [saves[t] EXCEPT ![1] = h]
  OBVIOUS
<1>8. saves' = [saves EXCEPT ![t] = now]
  BY <1>1, <1>3, <1>7
<1>9. /\ saves' \in [Tabs -> Seq(Save)] /\ saves'[t] = now
      /\ \A u \in Tabs \ {t} : saves'[u] = saves[u]
  BY <1>1, <1>6, <1>7, <1>8 DEF PlayerTypes
<1>10. PlayerTypes'
  BY <1>1, <1>9 DEF PlayerTypes
<1>11. \A q \in Questions : Vouched(q, row[q])'
  BY <1>1 DEF PlayerInv, Vouched
<1>12. ASSUME NEW u \in Tabs, u # t PROVE PageFits(u)'
  BY <1>1, <1>9, <1>12, PageFitsStays DEF PlayerInv
<1>13. PageFits(t)'
  <2>0. PageFits(t)
    BY DEF PlayerInv
  <2>1. DOMAIN now = DOMAIN saves[t] /\ now # <<>>
    <3>1. now \in Seq(Save) /\ Len(now) = Len(saves[t])
      BY <1>6, <1>7
    <3>2. DOMAIN now = 1..Len(now)
      BY <3>1, LenProperties
    <3>3. Len(saves[t]) # 0
      BY <1>1, <1>5, EmptySeq
    <3> QED BY <1>5, <3>1, <3>2, <3>3, EmptySeq
  <2>2. answers'[t] # Closed /\ saves'[t] # <<>> /\ reply'[t].kind = "waiting"
    BY <1>1, <1>2, <1>9, <2>1 DEF Waiting
  <2>3. ASSUME NEW i \in DOMAIN now PROVE SaveFits(now[i], hurried[t])
    <3>1. SaveFits(saves[t][i], hurried[t])
      BY <2>0, <2>1 DEF PageFits
    <3>2. CASE i = 1
      <4>1. now[i] = h
        BY <1>5, <1>6, <1>7, <2>1, <3>2
      <4>2. Vouched(h.question, row[h.question])
        BY <1>4 DEF PlayerInv, Save
      <4> QED BY <1>4, <3>1, <3>2, <4>1, <4>2 DEF SaveFits
    <3>3. CASE i # 1
      BY <1>5, <1>6, <1>7, <2>1, <3>1, <3>3
    <3> QED BY <3>2, <3>3
  <2>4. (\A i \in DOMAIN saves[t] : SaveFits(saves[t][i], hurried[t]))'
    <3>1. saves'[t] = now /\ hurried' = hurried /\ accepted' = accepted
      BY <1>1, <1>9
    <3> QED BY <2>3, <3>1 DEF SaveFits, Vouched
  <2>5. \A i \in DOMAIN saves[t] : now[i].question = saves[t][i].question
    BY <1>4, <1>5, <1>6, <1>7
  <2>6. \A q \in Questions : Settled(t, q)' => Settled(t, q)
    BY <1>1, <1>9, <2>1, <2>5 DEF Settled, Outstanding
  <2>7. ShownFits(t)'
    BY <1>1, <2>0, <2>6 DEF PageFits, ShownFits, Vouched
  <2> QED BY <2>2, <2>4, <2>7 DEF PageFits
<1> QED BY <1>10, <1>11, <1>12, <1>13 DEF PlayerInv

(* A save the server takes is the entry it then has. *)
LEMMA CommitIsVouched ==
  ASSUME PlayerInv, NEW s \in Save, s.base # NotRead, Commit(s)
  PROVE  /\ row' \in [Questions -> Entry] /\ accepted \subseteq accepted'
         /\ \A q \in Questions : Vouched(q, row[q])'
<1>1. CASE s.expected = s.base.revision
  <2>1. /\ row' = [row EXCEPT ![s.question] = [option |-> s.option, revision |-> s.expected + 1]]
        /\ accepted' = accepted \cup {<<s.question, s.option, s.expected + 1>>}
    BY <1>1 DEF Commit
  <2>2. row \in [Questions -> Entry] /\ s.question \in Questions
        /\ [option |-> s.option, revision |-> s.expected + 1] \in Entry
    BY DEF PlayerInv, PlayerTypes, Save, Entry
  <2> QED BY <2>1, <2>2 DEF PlayerInv, Vouched
<1>2. CASE s.expected # s.base.revision
  BY <1>2 DEF Commit, serverVars, PlayerInv, PlayerTypes, Vouched
<1> QED BY <1>1, <1>2

(* The reply says saved of what the server has taken. *)
LEMMA CommitSaveKeeps ==
  ASSUME PlayerInv, NEW t \in Tabs, CommitSave(t) PROVE PlayerInv'
<1>1. /\ saves[t] # <<>> /\ reply[t] = Waiting /\ Head(saves[t]).base # NotRead
      /\ reply' = [reply EXCEPT ![t] = CasOutcome(Head(saves[t]))]
      /\ Commit(Head(saves[t]))
      /\ UNCHANGED <<answers, saves, orphans, hurried>> /\ PlayerTypes
  BY DEF CommitSave, PlayerInv
<1>2. PICK s : s = Head(saves[t])
  OBVIOUS
<1>3. s \in Save /\ s.base # NotRead /\ SaveFits(s, hurried[t]) /\ answers[t] # Closed
  BY <1>1, <1>2, HeadFits
<1>4. /\ row' \in [Questions -> Entry] /\ accepted \subseteq accepted'
      /\ \A q \in Questions : Vouched(q, row[q])'
  BY <1>1, <1>2, <1>3, CommitIsVouched
<1>5. CasOutcome(s) \in Reply
  BY <1>3 DEF CasOutcome, Reply, Refusal, Save, Entry
<1>6. /\ reply' \in [Tabs -> Reply] /\ reply'[t] = CasOutcome(s)
      /\ \A u \in Tabs \ {t} : reply'[u] = reply[u]
  BY <1>1, <1>2, <1>5 DEF PlayerTypes
<1>7. PlayerTypes'
  BY <1>1, <1>4, <1>6 DEF PlayerTypes
<1>8. ASSUME NEW u \in Tabs, u # t PROVE PageFits(u)'
  BY <1>1, <1>4, <1>6, <1>8, PageFitsStays DEF PlayerInv
<1>9. PageFits(t)'
  <2>0. PageFits(t)
    BY DEF PlayerInv
  <2>1. CasOutcome(s).kind = "saved" =>
          Vouched(s.question, [option |-> s.option, revision |-> CasOutcome(s).revision])'
    <3>1. CASE s.expected = s.base.revision
      <4>1. accepted' = accepted \cup {<<s.question, s.option, s.expected + 1>>}
        BY <1>1, <1>2, <3>1 DEF Commit
      <4>2. CasOutcome(s).revision = s.expected + 1
        BY <3>1 DEF CasOutcome
      <4> QED BY <4>1, <4>2 DEF Vouched
    <3>2. CASE s.expected # s.base.revision /\ s.option = s.base.option
      <4>1. CasOutcome(s).revision = s.base.revision
        BY <3>2 DEF CasOutcome
      <4>2. Vouched(s.question, s.base)
        BY <1>3 DEF SaveFits
      <4> QED BY <1>4, <3>2, <4>1, <4>2 DEF Vouched
    <3>3. CASE s.expected # s.base.revision /\ s.option # s.base.option
      BY <3>3 DEF CasOutcome, Refusal
    <3> QED BY <3>1, <3>2, <3>3
  <2>2. (reply[t].kind = "saved" =>
          LET h == Head(saves[t])
          IN  Vouched(h.question, [option |-> h.option, revision |-> reply[t].revision]))'
    <3>1. reply'[t] = CasOutcome(s) /\ Head(saves[t])' = s
      BY <1>1, <1>2, <1>6
    <3>2. CasOutcome(s).kind = "saved" =>
            s.option = NoOption \/ <<s.question, s.option, CasOutcome(s).revision>> \in accepted'
      BY <2>1 DEF Vouched
    <3> QED BY <3>1, <3>2 DEF Vouched
  <2>3. (\A i \in DOMAIN saves[t] : SaveFits(saves[t][i], hurried[t]))'
    BY <1>1, <1>4, <2>0 DEF PageFits, SaveFits, Vouched
  <2>4. ShownFits(t)'
    BY <1>1, <1>4, <2>0 DEF PageFits, ShownFits, Settled, Outstanding, Vouched
  <2> QED BY <1>1, <1>3, <2>2, <2>3, <2>4 DEF PageFits
<1> QED BY <1>4, <1>7, <1>8, <1>9 DEF PlayerInv

LEMMA RefuseSaveKeeps ==
  ASSUME PlayerInv, NEW t \in Tabs, RefuseSave(t) PROVE PlayerInv'
<1>1. /\ saves[t] # <<>> /\ reply' = [reply EXCEPT ![t] = Refusal]
      /\ UNCHANGED <<row, accepted, answers, saves, orphans, hurried>> /\ PlayerTypes
  BY DEF RefuseSave, serverVars, PlayerInv
<1>2. /\ reply' \in [Tabs -> Reply] /\ reply'[t] = Refusal
      /\ \A u \in Tabs \ {t} : reply'[u] = reply[u]
  BY <1>1 DEF PlayerTypes, Refusal, Reply
<1>3. PlayerTypes'
  BY <1>1, <1>2 DEF PlayerTypes
<1>4. \A q \in Questions : Vouched(q, row[q])'
  BY <1>1 DEF PlayerInv, Vouched
<1>5. ASSUME NEW u \in Tabs, u # t PROVE PageFits(u)'
  BY <1>1, <1>2, <1>5, PageFitsStays DEF PlayerInv
<1>6. PageFits(t)'
  <2>0. PageFits(t)
    BY DEF PlayerInv
  <2>1. reply'[t].kind = "refused"
    BY <1>2 DEF Refusal
  <2>2. (\A i \in DOMAIN saves[t] : SaveFits(saves[t][i], hurried[t]))'
    BY <1>1, <2>0 DEF PageFits, SaveFits, Vouched
  <2>3. ShownFits(t)'
    BY <1>1, <2>0 DEF PageFits, ShownFits, Settled, Outstanding, Vouched
  <2> QED BY <1>1, <2>0, <2>1, <2>2, <2>3 DEF PageFits
<1> QED BY <1>3, <1>4, <1>5, <1>6 DEF PlayerInv

(* An abandoned save may be taken late; pages wait for none of its reply. *)
LEMMA ServeOrphanKeeps ==
  ASSUME PlayerInv, NEW s \in orphans, ServeOrphan(s) PROVE PlayerInv'
<1>1. UNCHANGED <<answers, saves, reply, hurried>> /\ PlayerTypes /\ s \in Save
  BY DEF ServeOrphan, pageVars, PlayerInv, PlayerTypes
<1>2. /\ row' \in [Questions -> Entry] /\ accepted \subseteq accepted'
      /\ \A q \in Questions : Vouched(q, row[q])'
      /\ orphans' \subseteq Save
  <2>1. CASE s.base = NotRead
    <3>1. orphans' = (orphans \ {s}) \cup {[s EXCEPT !.base = row[s.question]]}
          /\ UNCHANGED <<row, accepted>>
      BY <2>1 DEF ServeOrphan, serverVars
    <3>2. [s EXCEPT !.base = row[s.question]] \in Save
      BY <1>1 DEF PlayerTypes, Save
    <3> QED BY <1>1, <3>1, <3>2 DEF PlayerTypes, PlayerInv, Vouched
  <2>2. CASE s.base # NotRead
    <3>1. Commit(s) /\ orphans' = orphans \ {s}
      BY <2>2 DEF ServeOrphan
    <3>2. orphans' \subseteq Save
      BY <1>1, <3>1 DEF PlayerTypes
    <3> QED BY <1>1, <2>2, <3>1, <3>2, CommitIsVouched
  <2> QED BY <2>1, <2>2
<1>3. PlayerTypes'
  BY <1>1, <1>2 DEF PlayerTypes
<1>4. ASSUME NEW u \in Tabs PROVE PageFits(u)'
  BY <1>1, <1>2, PageFitsStays DEF PlayerInv
<1> QED BY <1>2, <1>3, <1>4 DEF PlayerInv

(* A reply puts an entry in the place of its question's, and no other's. *)
LEMMA SettleKeeps ==
  ASSUME PlayerInv, NEW t \in Tabs, saves[t] # <<>>, NEW entry \in Entry, Settle(t, entry),
         Head(saves[t]).question \notin hurried[t] => Vouched(Head(saves[t]).question, entry)
  PROVE  PlayerInv'
<1>1. /\ UNCHANGED <<row, accepted, orphans, hurried>> /\ PlayerTypes
      /\ answers' = [answers EXCEPT ![t][Head(saves[t]).question] = entry]
      /\ saves' = [saves EXCEPT ![t] = Tail(@)] /\ reply' = [reply EXCEPT ![t] = Waiting]
  BY DEF Settle, serverVars, PlayerInv
<1>2. PICK q : q = Head(saves[t]).question
  OBVIOUS
<1>3. /\ Head(saves[t]) = saves[t][1] /\ 1 \in DOMAIN saves[t] /\ q \in Questions
      /\ answers[t] # Closed /\ answers[t] \in [Questions -> Entry]
  BY <1>2, HeadFits DEF Save
<1>4. PICK now : now = [answers[t] EXCEPT ![q] = entry]
  OBVIOUS
<1>5. answers' = [answers EXCEPT ![t] = now]
  BY <1>1, <1>2, <1>4
<1>6. /\ now \in [Questions -> Entry] /\ now[q] = entry
      /\ \A p \in Questions \ {q} : now[p] = answers[t][p]
  BY <1>3, <1>4
<1>7. /\ answers' \in [Tabs -> [Questions -> Entry] \cup {Closed}] /\ answers'[t] = now
      /\ \A u \in Tabs \ {t} : answers'[u] = answers[u]
  BY <1>1, <1>5, <1>6 DEF PlayerTypes
<1>8. /\ saves[t] \in Seq(Save) /\ Tail(saves[t]) \in Seq(Save)
      /\ Len(Tail(saves[t])) = Len(saves[t]) - 1 /\ Len(saves[t]) \in Nat
      /\ DOMAIN saves[t] = 1..Len(saves[t]) /\ DOMAIN Tail(saves[t]) = 1..(Len(saves[t]) - 1)
      /\ \A i \in 1..Len(Tail(saves[t])) : Tail(saves[t])[i] = saves[t][i + 1]
  <2>1. saves[t] \in Seq(Save)
    BY <1>1 DEF PlayerTypes
  <2>2. /\ Tail(saves[t]) \in Seq(Save) /\ Len(Tail(saves[t])) = Len(saves[t]) - 1
        /\ \A i \in 1..Len(Tail(saves[t])) : Tail(saves[t])[i] = saves[t][i + 1]
    BY <2>1, HeadTailProperties
  <2> QED BY <2>1, <2>2, LenProperties
<1>9. /\ saves' \in [Tabs -> Seq(Save)] /\ saves'[t] = Tail(saves[t])
      /\ \A u \in Tabs \ {t} : saves'[u] = saves[u]
  BY <1>1, <1>8 DEF PlayerTypes
<1>10. /\ reply' \in [Tabs -> Reply] /\ reply'[t] = Waiting
       /\ \A u \in Tabs \ {t} : reply'[u] = reply[u]
  BY <1>1 DEF PlayerTypes, Waiting, Reply
<1>11. PlayerTypes'
  BY <1>1, <1>7, <1>9, <1>10 DEF PlayerTypes
<1>12. \A p \in Questions : Vouched(p, row[p])'
  BY <1>1 DEF PlayerInv, Vouched
<1>13. ASSUME NEW u \in Tabs, u # t PROVE PageFits(u)'
  BY <1>1, <1>7, <1>9, <1>10, <1>13, PageFitsStays DEF PlayerInv
<1>14. PageFits(t)'
  <2>0. PageFits(t) /\ accepted' = accepted /\ hurried' = hurried
    BY <1>1 DEF PlayerInv
  <2>1. answers'[t] # Closed /\ reply'[t].kind = "waiting"
    BY <1>6, <1>7, <1>10, PlayerAssumption DEF Waiting
  <2>2. \A i \in DOMAIN saves'[t] : i + 1 \in DOMAIN saves[t] /\ saves'[t][i] = saves[t][i + 1]
    BY <1>8, <1>9
  <2>3. (\A i \in DOMAIN saves[t] : SaveFits(saves[t][i], hurried[t]))'
    <3> SUFFICES ASSUME NEW i \in DOMAIN saves'[t]
                 PROVE  SaveFits(saves[t][i], hurried[t])'
      OBVIOUS
    <3>1. SaveFits(saves[t][i + 1], hurried[t]) /\ saves'[t][i] = saves[t][i + 1]
      BY <2>0, <2>2 DEF PageFits
    <3> QED BY <2>0, <3>1 DEF SaveFits, Vouched
  <2>4. ShownFits(t)'
    <3> SUFFICES ASSUME NEW p \in Questions, Settled(t, p)', p \notin hurried[t]
                 PROVE  Vouched(p, answers[t][p])'
      BY <2>0 DEF ShownFits
    <3>1. CASE p = q
      <4>1. Vouched(p, entry) /\ answers'[t][p] = entry
        BY <1>2, <1>6, <1>7, <3>1
      <4> QED BY <2>0, <4>1 DEF Vouched
    <3>2. CASE p # q
      <4>1. ~Outstanding(t, p)
        <5> SUFFICES ASSUME NEW i \in DOMAIN saves[t], saves[t][i].question = p PROVE FALSE
          BY DEF Outstanding
        <5>1. i # 1
          BY <1>2, <1>3, <3>2
        <5>2. i - 1 \in DOMAIN saves'[t] /\ saves'[t][i - 1] = saves[t][i]
          BY <1>8, <1>9, <5>1
        <5> QED BY <5>2 DEF Settled, Outstanding
      <4>2. Vouched(p, answers[t][p]) /\ answers'[t][p] = answers[t][p]
        BY <1>3, <1>6, <1>7, <2>0, <3>2, <4>1 DEF PageFits, ShownFits, Settled
      <4> QED BY <2>0, <4>2 DEF Vouched
    <3> QED BY <3>1, <3>2
  <2> QED BY <2>1, <2>3, <2>4 DEF PageFits
<1> QED BY <1>11, <1>12, <1>13, <1>14 DEF PlayerInv

LEMMA AcknowledgeKeeps ==
  ASSUME PlayerInv, NEW t \in Tabs, Acknowledge(t) PROVE PlayerInv'
<1>1. reply[t].kind = "saved" /\ saves[t] # <<>>
  BY DEF Acknowledge, PlayerInv, PageFits
<1> DEFINE entry == [option |-> Head(saves[t]).option, revision |-> reply[t].revision]
<1>2. entry \in Entry
  BY <1>1, HeadFits DEF PlayerInv, PlayerTypes, Entry, Save, Reply
<1>3. Vouched(Head(saves[t]).question, entry)
  BY <1>1 DEF PlayerInv, PageFits
<1> QED BY <1>1, <1>2, <1>3, SettleKeeps DEF Acknowledge

(* What comes back after a refusal was the server's, unless hurried. *)
LEMMA RestoreKeeps ==
  ASSUME PlayerInv, NEW t \in Tabs, Restore(t) PROVE PlayerInv'
<1>1. saves[t] # <<>>
  BY DEF Restore, PlayerInv, PageFits
<1>2. Head(saves[t]) \in Save /\ SaveFits(Head(saves[t]), hurried[t])
  BY <1>1, HeadFits
<1>3. Head(saves[t]).previous \in Entry
  BY <1>2 DEF Save
<1> QED BY <1>1, <1>2, <1>3, SettleKeeps DEF Restore, SaveFits

LEMMA FailKeeps ==
  ASSUME PlayerInv, NEW t \in Tabs, Fail(t) PROVE PlayerInv'
<1>1. PlayerTypes /\ UNCHANGED <<row, accepted, hurried>> /\ answers' = [answers EXCEPT ![t] = Closed]
      /\ saves' = [saves EXCEPT ![t] = <<>>] /\ reply' = [reply EXCEPT ![t] = Waiting]
      /\ orphans' = orphans \cup LeftBehind(t)
  BY DEF PlayerInv, Fail, serverVars
<1>2. LeftBehind(t) \subseteq Save
  BY HeadFits DEF LeftBehind
<1>3. PlayerTypes'
  <2>1. <<>> \in Seq(Save) /\ Waiting \in Reply
    BY DEF Waiting, Reply
  <2> QED BY <1>1, <1>2, <2>1 DEF PlayerTypes
<1>4. \A q \in Questions : Vouched(q, row[q])'
  BY <1>1 DEF PlayerInv, Vouched
<1>5. ASSUME NEW u \in Tabs, u # t PROVE PageFits(u)'
  BY <1>1, <1>5, PageFitsStays DEF PlayerInv, PlayerTypes
<1>6. PageFits(t)'
  <2>1. answers'[t] = Closed /\ saves'[t] = <<>> /\ reply'[t] = Waiting
    BY <1>1 DEF PlayerTypes
  <2> QED BY <1>1, <2>1 DEF PageFits, ShownFits, Settled, Waiting
<1> QED BY <1>3, <1>4, <1>5, <1>6 DEF PlayerInv

(* Whatever other tabs save, whatever is refused, and whatever an          *)
(* abandoned page's save does later, a page whose save of a question is    *)
(* answered shows a blank or an answer the server took at that revision,   *)
(* unless its learner chose again before the reply (AttemptRunner.tsx).    *)
THEOREM AnswersShownWereSaved == PlayerSpec => []ShownWasSaved
<1>1. PlayerInv /\ [PlayerNext]_playerVars => PlayerInv'
  <2> SUFFICES ASSUME PlayerInv, [PlayerNext]_playerVars PROVE PlayerInv'
    OBVIOUS
  <2>1. CASE UNCHANGED playerVars
    <3>1. /\ accepted' = accepted /\ row' = row /\ answers' = answers /\ saves' = saves
          /\ reply' = reply /\ hurried' = hurried /\ orphans' = orphans
      BY <2>1 DEF playerVars
    <3>2. PlayerTypes' /\ \A q \in Questions : Vouched(q, row[q])'
      BY <3>1 DEF PlayerInv, PlayerTypes, Vouched
    <3>3. ASSUME NEW t \in Tabs PROVE PageFits(t)'
      BY <3>1, PageFitsStays DEF PlayerInv
    <3> QED BY <3>2, <3>3 DEF PlayerInv
  <2>2. CASE PlayerNext
    BY <2>2, OpenPageKeeps, ReadRowKeeps, CommitSaveKeeps, RefuseSaveKeeps, AcknowledgeKeeps,
       RestoreKeeps, FailKeeps, SelectKeeps, ServeOrphanKeeps DEF PlayerNext
  <2> QED BY <2>1, <2>2
<1> QED BY <1>1, PlayerInitInv, PlayerInvShown, PTL DEF PlayerSpec

-----------------------------------------------------------------------------
(* Entitlement: what a drift check finds.                                  *)

(* A set of numbers has a least one. *)
LEMMA LeastIsThere ==
  ASSUME NEW T, T \subseteq Nat, T # {}
  PROVE  Min(T) \in T
<1> DEFINE R == OpToRel(<, Nat)
<1>1. \A x, y \in Nat : y < x => <<y, x>> \in R
  BY Zenon DEF OpToRel
<1>2. IsWellFoundedOn(R, Nat)
  BY NatLessThanWellFounded, Zenon
<1> HIDE DEF R
<1>3. PICK x \in T : \A y \in T : <<y, x>> \notin R
  BY <1>2, WFMin
<1>4. ASSUME NEW y \in T PROVE x =< y
  <2>1. x \in Nat /\ y \in Nat /\ ~(y < x)
    BY <1>1, <1>3, Zenon
  <2> QED BY <2>1
<1> QED BY <1>4 DEF Min

(* The database a read finds, and what it proves of a decision.            *)
Granted == {o \in Orders : grant[o] # NoDate}
Unserved == {o \in Orders : purchase[o] # "pending" /\ (grant[o] = NoDate \/ o \in repaired)}
EndOf(S, q) == LatestSupportingEnd({NarrowedWindow(grant[o], FirstClaim(o, q)) : o \in S})

(* A decision that allows rests on grants there are, and ends with them.   *)
Grounded(d, q) == Allowed(d) => d.decisive \subseteq Granted /\ d.to = EndOf(d.decisive, q)
Kept(d, q) == d = NoDate \/ Grounded(d, q)

(* What each request is doing, as far as the argument needs it.            *)
ReadingFits(c) ==
  /\ c.pc \in {"list", "events"} /\ c.target \in Queried
  /\ c.todo \subseteq Granted /\ DOMAIN c.status \subseteq Granted
  /\ c.status = [o \in DOMAIN c.status |-> c.status[o]]
  /\ c.pc = "list" => c.todo = {} /\ DOMAIN c.status = {}
QueryFits(c) ==
  /\ c = [pc |-> c.pc, for |-> "query", target |-> c.target, at |-> c.at, todo |-> c.todo,
          status |-> c.status]
  /\ ReadingFits(c)
DriftFits(c) ==
  /\ c = [pc |-> c.pc, for |-> "drift", target |-> c.target, at |-> c.at, todo |-> c.todo,
          status |-> c.status, held |-> c.held, quiet |-> c.quiet]
  /\ ReadingFits(c) /\ Kept(c.held, c.target)
PurchasesFit(c) ==
  \/ c = [pc |-> "paid", for |-> "purchases"]
  \/ /\ c = [pc |-> "granted", for |-> "purchases", paid |-> c.paid]
     /\ \A o \in c.paid : o \in Orders /\ purchase[o] # "pending"
  \/ /\ c = [pc |-> c.pc, for |-> "purchases", todo |-> c.todo] /\ c.pc \in {"cases", "raise"}
     /\ c.todo \subseteq Unserved /\ (c.pc = "raise" => c.todo # {})
TaskFits(c) == c = Idle \/ QueryFits(c) \/ DriftFits(c) \/ PurchasesFit(c)

(* A read that is current has found what is there.                         *)
Current(c) ==
  /\ c.at = day
  /\ c.pc = "events" => c.todo \cup DOMAIN c.status = Granted
  /\ \A o \in DOMAIN c.status : c.status[o] = DeriveGrantStatus(o, ended[o], day)

Quiet(c) == c.for = "drift" /\ c.quiet
QuietFits(c) == Quiet(c) => Current(c) /\ cached[c.target] \in {NoDate, c.held}
Undisturbed == vouched # {} \/ \E t \in Tasks : Quiet(task[t])

(* A cached decision and a fresh one agree. *)
Agrees(d, e) ==
  /\ Allowed(d) = Allowed(e)
  /\ Allowed(d) => d.decisive = e.decisive /\ d.to = e.to

CaseRow == [type : {"unknown_sku", "paid_purchase_no_grant", "policy_validity_unresolvable", "chargeback_review",
                    "unverifiable_partial_refund"},
            order : Orders, status : {"open", "assigned", "resolved"}]
AlarmFits(k) == k.type = "paid_purchase_no_grant" => k.order \in Unserved

DatabaseFits ==
  /\ purchase = [o \in Orders |-> purchase[o]] /\ grant = [o \in Orders |-> grant[o]]
  /\ ended = [o \in Orders |-> ended[o]] /\ paying = [o \in Orders |-> paying[o]]
  /\ \A o \in Orders : paying[o] # NoDate =>
       paying[o] # "pending" /\ (paying[o] = "paid" => purchase[o] = "pending")
CacheFits ==
  /\ cached = [q \in Queried |-> cached[q]]
  /\ \A q \in Queried : Kept(cached[q], q)
TasksFit ==
  /\ task = [t \in Tasks |-> task[t]]
  /\ \A t \in Tasks : TaskFits(task[t]) /\ QuietFits(task[t])
QueriesFit == Undisturbed => \A t \in Tasks : task[t].for = "query" => Current(task[t])
VouchedFits ==
  vouched \subseteq Queried /\ \A q \in vouched : cached[q] # NoDate => Agrees(cached[q], Rebuilt(q))
CasesFit == cases \in Seq(CaseRow) /\ \A i \in DOMAIN cases : AlarmFits(cases[i])

EntitlementInv ==
  DatabaseFits /\ CacheFits /\ TasksFit /\ QueriesFit /\ VouchedFits /\ CasesFit

LEMMA EntitlementInitInv == EntitlementInit => EntitlementInv
<1> SUFFICES ASSUME EntitlementInit PROVE EntitlementInv
  OBVIOUS
<1>1. DatabaseFits /\ CacheFits
  BY DEF EntitlementInit, DatabaseFits, CacheFits, Kept
<1>2. TasksFit /\ QueriesFit
  BY DEF EntitlementInit, TasksFit, TaskFits, QuietFits, Quiet, QueriesFit, Idle
<1>3. VouchedFits /\ CasesFit
  BY DEF EntitlementInit, VouchedFits, CasesFit
<1> QED BY <1>1, <1>2, <1>3 DEF EntitlementInv

LEMMA EntitlementInvMeans == EntitlementInv => DriftCheckVouches /\ AlarmIsReal
BY DEF EntitlementInv, VouchedFits, CasesFit, Agrees, AlarmFits, Unserved, DriftCheckVouches, AlarmIsReal

(* What a read that is current and complete resolves is what a fresh read  *)
(* does; what any read resolves is grounded.                               *)
LEMMA CurrentIsRebuilt ==
  ASSUME NEW c, ReadingFits(c), Current(c), c.pc = "events", c.todo = {}, NEW q
  PROVE  ResolveEffectiveAccess(c.status, q) = Rebuilt(q)
<1>1. c.status = [o \in {x \in Orders : grant[x] # NoDate} |-> DeriveGrantStatus(o, ended[o], day)]
  BY DEF ReadingFits, Current, Granted
<1> QED BY <1>1 DEF Rebuilt

LEMMA ResolvedIsGrounded ==
  ASSUME NEW status, DOMAIN status \subseteq Granted, NEW q
  PROVE  Grounded(ResolveEffectiveAccess(status, q), q)
BY DEF Grounded, ResolveEffectiveAccess, Allowed, Decision, EndOf

LEMMA AgreeUnlessDrift ==
  ASSUME NEW d, NEW e, NEW q, Grounded(d, q), Grounded(e, q), d # NoDate, ~Drifts(d, e)
  PROVE  Agrees(d, e)
BY DEF Agrees, Drifts, Grounded, Allowed

LEMMA RebuiltIsGrounded ==
  ASSUME NEW q
  PROVE  Grounded(Rebuilt(q), q)
<1> DEFINE status == [o \in {x \in Orders : grant[x] # NoDate} |-> DeriveGrantStatus(o, ended[o], day)]
<1>1. DOMAIN status \subseteq Granted
  BY DEF Granted
<1> HIDE DEF status
<1>2. Grounded(ResolveEffectiveAccess(status, q), q)
  BY <1>1, ResolvedIsGrounded
<1> QED BY <1>2 DEF status, Rebuilt

(* While the database and the cache stay, what is known of a task stays.   *)
LEMMA TaskStays ==
  ASSUME UNCHANGED <<day, source>>, NEW c
  PROVE  /\ Granted' = Granted /\ Unserved' = Unserved
         /\ \A q : Rebuilt(q)' = Rebuilt(q)
         /\ \A d, q : Kept(d, q)' <=> Kept(d, q)
         /\ TaskFits(c)' <=> TaskFits(c)
         /\ Current(c)' <=> Current(c)
         /\ \A k : AlarmFits(k)' <=> AlarmFits(k)
<1>1. Granted' = Granted /\ Unserved' = Unserved
  BY DEF source, Granted, Unserved
<1>2. \A q : Rebuilt(q)' = Rebuilt(q)
  BY DEF source, Rebuilt, ResolveEffectiveAccess, DeriveGrantStatus
<1>3. \A d, q : Kept(d, q)' <=> Kept(d, q)
  BY <1>1 DEF source, Kept, Grounded, EndOf
<1>4. Current(c)' <=> Current(c)
  BY <1>1 DEF source, Current, DeriveGrantStatus
<1>5. ReadingFits(c)' <=> ReadingFits(c)
  BY <1>1 DEF ReadingFits
<1>6. TaskFits(c)' <=> TaskFits(c)
  BY <1>1, <1>3, <1>5 DEF source, TaskFits, QueryFits, DriftFits, PurchasesFit
<1>7. \A k : AlarmFits(k)' <=> AlarmFits(k)
  BY <1>1 DEF AlarmFits
<1> QED BY <1>1, <1>2, <1>3, <1>4, <1>6, <1>7

(* A step of one request, which changes nothing but cases. *)
LEMMA TaskMoves ==
  ASSUME EntitlementInv, NEW t \in Tasks, NEW c, task' = [task EXCEPT ![t] = c],
         UNCHANGED <<day, source, cached, paying, vouched>>, CasesFit',
         TaskFits(c), QuietFits(c),
         Quiet(c) => Quiet(task[t]) \/ \A u \in Tasks : task[u].for # "query",
         Undisturbed /\ c.for = "query" => Current(c)
  PROVE  EntitlementInv'
<1>1. DatabaseFits'
  BY DEF EntitlementInv, DatabaseFits, source
<1>2. CacheFits'
  BY TaskStays DEF EntitlementInv, CacheFits
<1>3. TasksFit'
  <2>1. task' = [u \in Tasks |-> task'[u]] /\ \A u \in Tasks : task'[u] = IF u = t THEN c ELSE task[u]
    BY DEF EntitlementInv, TasksFit
  <2>2. ASSUME NEW u \in Tasks PROVE TaskFits(task[u])' /\ QuietFits(task[u])'
    <3>1. TaskFits(task'[u]) /\ QuietFits(task'[u])
      BY <2>1 DEF EntitlementInv, TasksFit
    <3>2. PICK d : d = task'[u]
      OBVIOUS
    <3>3. TaskFits(d)' /\ QuietFits(d)'
      BY <3>1, <3>2, TaskStays DEF QuietFits, Quiet
    <3> QED BY <3>2, <3>3
  <2> QED BY <2>1, <2>2 DEF TasksFit
<1>4. QueriesFit'
  <2> SUFFICES ASSUME Undisturbed', NEW u \in Tasks, task'[u].for = "query" PROVE Current(task[u])'
    BY DEF QueriesFit
  <2>1. \A x \in Tasks : task'[x] = IF x = t THEN c ELSE task[x]
    BY DEF EntitlementInv, TasksFit
  <2>2. Undisturbed \/ (Quiet(c) /\ \A x \in Tasks : task[x].for # "query")
    BY <2>1 DEF Undisturbed, Quiet
  <2>3. Current(task'[u])
    <3>1. CASE u = t
      BY <2>1, <2>2, <3>1 DEF Quiet
    <3>2. CASE u # t
      BY <2>1, <2>2, <3>2 DEF EntitlementInv, QueriesFit
    <3> QED BY <3>1, <3>2
  <2>4. PICK d : d = task'[u]
    OBVIOUS
  <2> QED BY <2>3, <2>4, TaskStays
<1>5. VouchedFits'
  BY TaskStays DEF EntitlementInv, VouchedFits, Agrees
<1> QED BY <1>1, <1>2, <1>3, <1>4, <1>5 DEF EntitlementInv

LEMMA CasesStay == CasesFit /\ UNCHANGED <<source, cases>> => CasesFit'
BY DEF CasesFit, AlarmFits, Unserved, source

LEMMA QueryKeeps ==
  ASSUME EntitlementInv, NEW t \in Tasks, NEW q \in Queried, Query(t, q)
  PROVE  EntitlementInv'
<1>1. PICK c : c = [pc |-> "list", for |-> "query", target |-> q, at |-> day, todo |-> {}, status |-> Unread]
  OBVIOUS
<1>2. task' = [task EXCEPT ![t] = c] /\ UNCHANGED <<day, source, cached, paying, vouched, cases>>
  BY <1>1 DEF Query, Starts
<1>3. Current(c) /\ ReadingFits(c)
  BY <1>1 DEF Current, ReadingFits, Unread
<1>4. TaskFits(c) /\ ~Quiet(c)
  BY <1>1, <1>3 DEF TaskFits, QueryFits, Quiet
<1>5. CasesFit'
  BY <1>2, CasesStay DEF EntitlementInv
<1> QED BY <1>2, <1>3, <1>4, <1>5, TaskMoves DEF QuietFits

LEMMA CheckDriftKeeps ==
  ASSUME EntitlementInv, NEW t \in Tasks, NEW q \in Queried, CheckDrift(t, q)
  PROVE  EntitlementInv'
<1>1. PICK c : c = [pc |-> "list", for |-> "drift", target |-> q, at |-> day, todo |-> {},
                    status |-> Unread, held |-> cached[q],
                    quiet |-> \A u \in Tasks : task[u].for # "query"]
  OBVIOUS
<1>2. task' = [task EXCEPT ![t] = c] /\ UNCHANGED <<day, source, cached, paying, vouched, cases>>
  BY <1>1 DEF CheckDrift, Starts
<1>3. Current(c) /\ ReadingFits(c)
  BY <1>1 DEF Current, ReadingFits, Unread
<1>4. Kept(c.held, c.target) /\ QuietFits(c)
  BY <1>1, <1>3 DEF EntitlementInv, CacheFits, QuietFits
<1>5. TaskFits(c)
  BY <1>1, <1>3, <1>4 DEF TaskFits, DriftFits
<1>6. Quiet(c) => \A u \in Tasks : task[u].for # "query"
  BY <1>1 DEF Quiet
<1>7. CasesFit'
  BY <1>2, CasesStay DEF EntitlementInv
<1> QED BY <1>1, <1>2, <1>4, <1>5, <1>6, <1>7, TaskMoves

(* A read goes on. *)
LEMMA ReadGoesOn ==
  ASSUME EntitlementInv, NEW t \in Tasks, NEW todo, NEW status,
         Goes(t, [task[t] EXCEPT !.pc = "events", !.todo = todo, !.status = status]),
         UNCHANGED <<cases, cached, vouched>>,
         task[t].for \in {"query", "drift"},
         todo \subseteq Granted, DOMAIN status \subseteq Granted,
         status = [o \in DOMAIN status |-> status[o]],
         Current(task[t]) =>
           /\ todo \cup DOMAIN status = Granted
           /\ \A o \in DOMAIN status : status[o] = DeriveGrantStatus(o, ended[o], day)
  PROVE  EntitlementInv'
<1>1. PICK b : b = task[t]
  OBVIOUS
<1>2. PICK c : c = [b EXCEPT !.pc = "events", !.todo = todo, !.status = status]
  OBVIOUS
<1>3. task' = [task EXCEPT ![t] = c] /\ UNCHANGED <<day, source, cached, paying, vouched, cases>>
  BY <1>1, <1>2 DEF Goes
<1>4. QueryFits(b) \/ DriftFits(b)
  BY <1>1 DEF EntitlementInv, TasksFit, TaskFits, Idle, PurchasesFit
<1>5. /\ c.pc = "events" /\ c.todo = todo /\ c.status = status
      /\ c.for = b.for /\ c.target = b.target /\ c.at = b.at
      /\ b.for = "drift" => c.held = b.held /\ c.quiet = b.quiet
  BY <1>2, <1>4 DEF QueryFits, DriftFits
<1>6. ReadingFits(c)
  BY <1>4, <1>5 DEF QueryFits, DriftFits, ReadingFits
<1>7. TaskFits(c)
  <2>1. CASE QueryFits(b)
    <3> PICK p, q, a, w, s : b = [pc |-> p, for |-> "query", target |-> q, at |-> a, todo |-> w, status |-> s]
      BY <2>1 DEF QueryFits
    <3>1. c = [pc |-> "events", for |-> "query", target |-> q, at |-> a, todo |-> todo, status |-> status]
      BY <1>2
    <3> QED BY <1>6, <3>1 DEF QueryFits, TaskFits
  <2>2. CASE DriftFits(b)
    <3> PICK p, q, a, w, s, h, x :
          b = [pc |-> p, for |-> "drift", target |-> q, at |-> a, todo |-> w, status |-> s,
               held |-> h, quiet |-> x]
      BY <2>2 DEF DriftFits
    <3>1. c = [pc |-> "events", for |-> "drift", target |-> q, at |-> a, todo |-> todo, status |-> status,
               held |-> h, quiet |-> x]
      BY <1>2
    <3>2. Kept(c.held, c.target)
      BY <1>5, <2>2 DEF DriftFits
    <3> QED BY <1>6, <3>1, <3>2 DEF DriftFits, TaskFits
  <2> QED BY <1>4, <2>1, <2>2
<1>8. Current(b) => Current(c)
  BY <1>1, <1>5 DEF Current
<1>9. QuietFits(b) /\ (Undisturbed /\ b.for = "query" => Current(b))
  BY <1>1 DEF EntitlementInv, TasksFit, QueriesFit
<1>10. QuietFits(c) /\ (Quiet(c) => Quiet(task[t]))
  BY <1>1, <1>5, <1>8, <1>9 DEF QuietFits, Quiet
<1>11. CasesFit'
  BY <1>3, CasesStay DEF EntitlementInv
<1> QED BY <1>3, <1>5, <1>7, <1>8, <1>9, <1>10, <1>11, TaskMoves

LEMMA ListGrantsKeeps ==
  ASSUME EntitlementInv, NEW t \in Tasks, ListGrants(t)
  PROVE  EntitlementInv'
<1>1. PICK b : b = task[t]
  OBVIOUS
<1>2. QueryFits(b) \/ DriftFits(b)
  BY <1>1 DEF EntitlementInv, TasksFit, TaskFits, Idle, PurchasesFit, ListGrants
<1>3. b.pc = "list" /\ DOMAIN b.status = {} /\ b.status = [o \in DOMAIN b.status |-> b.status[o]]
  BY <1>1, <1>2 DEF QueryFits, DriftFits, ReadingFits, ListGrants
<1>4. PICK todo : todo = Granted
  OBVIOUS
<1>5. [b EXCEPT !.pc = "events", !.todo = todo] = [b EXCEPT !.pc = "events", !.todo = todo, !.status = b.status]
  BY <1>2 DEF QueryFits, DriftFits
<1>6. Goes(t, [task[t] EXCEPT !.pc = "events", !.todo = todo, !.status = b.status])
  BY <1>1, <1>4, <1>5 DEF ListGrants, Granted
<1>7. PICK status : status = b.status
  OBVIOUS
<1>8. task[t].for \in {"query", "drift"} /\ UNCHANGED <<cases, cached, vouched>>
  BY <1>1, <1>2 DEF QueryFits, DriftFits, ListGrants
<1> QED BY <1>1, <1>3, <1>4, <1>6, <1>7, <1>8, ReadGoesOn

LEMMA ReadEventsKeeps ==
  ASSUME EntitlementInv, NEW t \in Tasks, ReadEvents(t)
  PROVE  EntitlementInv'
<1>1. PICK b : b = task[t]
  OBVIOUS
<1>2. b.pc = "events" /\ b.todo # {} /\ UNCHANGED <<cases, cached, vouched>>
  BY <1>1 DEF ReadEvents
<1>3. (QueryFits(b) \/ DriftFits(b)) /\ ReadingFits(b)
  BY <1>1, <1>2 DEF EntitlementInv, TasksFit, TaskFits, Idle, PurchasesFit, QueryFits, DriftFits
<1>4. PICK o : o = Min(b.todo)
  OBVIOUS
<1>5. o \in b.todo
  BY <1>2, <1>3, <1>4, LeastIsThere, EntitlementAssumption DEF ReadingFits, Granted
<1>6. PICK found : found = DeriveGrantStatus(o, ended[o], b.at)
  OBVIOUS
<1>7. PICK todo : todo = b.todo \ {o}
  OBVIOUS
<1>8. PICK status : status = Noted(b.status, o, found)
  OBVIOUS
<1>9. Goes(t, [b EXCEPT !.todo = todo, !.status = status])
  BY <1>1, <1>4, <1>6, <1>7, <1>8 DEF ReadEvents
<1>10. [b EXCEPT !.todo = todo, !.status = status] = [b EXCEPT !.pc = "events", !.todo = todo, !.status = status]
  BY <1>2, <1>3 DEF QueryFits, DriftFits
<1>11. Goes(t, [task[t] EXCEPT !.pc = "events", !.todo = todo, !.status = status])
  BY <1>1, <1>9, <1>10
<1>12. /\ DOMAIN status = DOMAIN b.status \cup {o} /\ status = [x \in DOMAIN status |-> status[x]]
       /\ \A x \in DOMAIN status : status[x] = IF x = o THEN found ELSE b.status[x]
  BY <1>8 DEF Noted
<1>13. todo \subseteq Granted /\ DOMAIN status \subseteq Granted
  BY <1>3, <1>5, <1>7, <1>12 DEF ReadingFits
<1>14. ASSUME Current(b)
       PROVE  /\ todo \cup DOMAIN status = Granted
              /\ \A x \in DOMAIN status : status[x] = DeriveGrantStatus(x, ended[x], day)
  BY <1>2, <1>5, <1>6, <1>7, <1>12, <1>14 DEF Current
<1>15. task[t].for \in {"query", "drift"}
  BY <1>1, <1>3 DEF QueryFits, DriftFits
<1> QED BY <1>1, <1>2, <1>11, <1>12, <1>13, <1>14, <1>15, ReadGoesOn

(* Disturbing the drift checks keeps what every task is. *)
LEMMA DisturbedFits ==
  ASSUME EntitlementInv, NEW u \in Tasks
  PROVE  /\ TaskFits(Disturbed[u]) /\ ~Quiet(Disturbed[u])
         /\ task[u].for # "drift" => Disturbed[u] = task[u]
         /\ Disturbed[u].for = task[u].for
<1>1. PICK b : b = task[u]
  OBVIOUS
<1>2. TaskFits(b)
  BY <1>1 DEF EntitlementInv, TasksFit
<1>3. CASE b.for = "drift"
  <2>1. Disturbed[u] = [b EXCEPT !.quiet = FALSE]
    BY <1>1, <1>3 DEF Disturbed
  <2>2. DriftFits(b)
    BY <1>2, <1>3 DEF TaskFits, QueryFits, Idle, PurchasesFit
  <2>3. PICK c : c = [b EXCEPT !.quiet = FALSE]
    OBVIOUS
  <2> PICK p, q, a, w, s, h, x :
        b = [pc |-> p, for |-> "drift", target |-> q, at |-> a, todo |-> w, status |-> s,
             held |-> h, quiet |-> x]
    BY <2>2 DEF DriftFits
  <2>4. c = [pc |-> p, for |-> "drift", target |-> q, at |-> a, todo |-> w, status |-> s,
             held |-> h, quiet |-> FALSE]
    BY <2>3
  <2>5. DriftFits(c)
    BY <2>2, <2>4 DEF DriftFits, ReadingFits
  <2> QED BY <1>1, <1>3, <2>1, <2>3, <2>4, <2>5 DEF TaskFits, Quiet
<1>4. CASE b.for # "drift"
  <2>1. Disturbed[u] = b
    BY <1>1, <1>4 DEF Disturbed
  <2> QED BY <1>1, <1>2, <1>4, <2>1 DEF Quiet
<1> QED BY <1>3, <1>4

LEMMA StoreDecisionKeeps ==
  ASSUME EntitlementInv, NEW t \in Tasks, StoreDecision(t)
  PROVE  EntitlementInv'
<1>1. PICK b : b = task[t]
  OBVIOUS
<1>2. QueryFits(b) /\ ReadingFits(b) /\ b.for = "query" /\ b.pc = "events" /\ b.todo = {}
  BY <1>1 DEF EntitlementInv, TasksFit, TaskFits, Idle, PurchasesFit, QueryFits, DriftFits, StoreDecision
<1>3. PICK d : d = ResolveEffectiveAccess(b.status, b.target)
  OBVIOUS
<1>4. /\ cached' = [cached EXCEPT ![b.target] = d] /\ task' = [Disturbed EXCEPT ![t] = Idle]
      /\ UNCHANGED <<day, source, paying, cases, vouched>>
  BY <1>1, <1>3 DEF StoreDecision
<1>5. Grounded(d, b.target) /\ b.target \in Queried
  BY <1>2, <1>3, ResolvedIsGrounded DEF ReadingFits
<1>6. \A u \in Tasks : task'[u] = IF u = t THEN Idle ELSE Disturbed[u]
  BY <1>4 DEF Disturbed
<1>7. \A u \in Tasks : TaskFits(task'[u]) /\ ~Quiet(task'[u])
  BY <1>6, DisturbedFits DEF TaskFits, Quiet, Idle
<1>8. DatabaseFits'
  BY <1>4 DEF EntitlementInv, DatabaseFits, source
<1>9. CacheFits'
  <2>1. cached' = [q \in Queried |-> IF q = b.target THEN d ELSE cached[q]]
    BY <1>4, <1>5 DEF EntitlementInv, CacheFits
  <2>2. \A q \in Queried : Kept(cached'[q], q)
    BY <2>1, <1>5 DEF EntitlementInv, CacheFits, Kept
  <2>3. ASSUME NEW q \in Queried PROVE Kept(cached[q], q)'
    <3>1. PICK e : e = cached'[q]
      OBVIOUS
    <3>2. Kept(e, q)'
      BY <1>4, <2>2, <3>1, TaskStays
    <3> QED BY <3>1, <3>2
  <2> QED BY <2>1, <2>3 DEF CacheFits
<1>10. TasksFit'
  <2>1. task' = [u \in Tasks |-> task'[u]]
    BY <1>4 DEF Disturbed
  <2>2. ASSUME NEW u \in Tasks PROVE (TaskFits(task[u]) /\ QuietFits(task[u]))'
    <3>1. PICK e : e = task'[u]
      OBVIOUS
    <3>2. TaskFits(e)' /\ ~Quiet(e)
      BY <1>4, <1>7, <3>1, TaskStays
    <3>3. TaskFits(e)' /\ QuietFits(e)'
      BY <3>2 DEF QuietFits, Quiet
    <3> QED BY <3>1, <3>3
  <2> QED BY <2>1, <2>2 DEF TasksFit
<1>11. QueriesFit'
  <2> SUFFICES ASSUME Undisturbed', NEW u \in Tasks, task'[u].for = "query" PROVE Current(task[u])'
    BY DEF QueriesFit
  <2>1. vouched # {}
    BY <1>4, <1>7 DEF Undisturbed, Quiet
  <2>2. task'[u] = task[u] /\ Current(task[u])
    BY <1>6, <2>1, DisturbedFits DEF Idle, EntitlementInv, QueriesFit, Undisturbed
  <2>3. PICK e : e = task'[u]
    OBVIOUS
  <2>4. Current(e)'
    BY <1>4, <2>2, <2>3, TaskStays
  <2> QED BY <2>3, <2>4
<1>12. VouchedFits'
  <2>1. ASSUME NEW q \in vouched, cached'[q] # NoDate PROVE Agrees(cached'[q], Rebuilt(q))
    <3>1. q \in Queried
      BY DEF EntitlementInv, VouchedFits
    <3>2. CASE q = b.target
      <4>1. Current(b)
        BY <1>1, <1>2 DEF EntitlementInv, QueriesFit, Undisturbed
      <4>2. cached'[q] = Rebuilt(q)
        BY <1>2, <1>3, <1>4, <3>1, <3>2, <4>1, CurrentIsRebuilt DEF EntitlementInv, CacheFits
      <4> QED BY <4>2 DEF Agrees
    <3>3. CASE q # b.target
      BY <1>4, <2>1, <3>1, <3>3 DEF EntitlementInv, CacheFits, VouchedFits
    <3> QED BY <3>2, <3>3
  <2>2. vouched' \subseteq Queried /\ vouched' = vouched /\ \A q : Rebuilt(q)' = Rebuilt(q)
    BY <1>4, TaskStays DEF EntitlementInv, VouchedFits
  <2> QED BY <2>1, <2>2 DEF VouchedFits, Agrees
<1>13. CasesFit'
  BY <1>4, CasesStay DEF EntitlementInv
<1> QED BY <1>8, <1>9, <1>10, <1>11, <1>12, <1>13 DEF EntitlementInv

LEMMA IdleFits == TaskFits(Idle) /\ QuietFits(Idle) /\ ~Quiet(Idle) /\ Idle.for # "query"
BY DEF TaskFits, QuietFits, Quiet, Idle

LEMMA RepairDriftKeeps ==
  ASSUME EntitlementInv, NEW t \in Tasks, RepairDrift(t)
  PROVE  EntitlementInv'
<1>1. PICK b : b = task[t]
  OBVIOUS
<1>2. DriftFits(b) /\ ReadingFits(b) /\ b.for = "drift" /\ b.pc = "events" /\ b.todo = {} /\ QuietFits(b)
  BY <1>1 DEF EntitlementInv, TasksFit, TaskFits, Idle, PurchasesFit, QueryFits, DriftFits, RepairDrift
<1>3. PICK d : d = ResolveEffectiveAccess(b.status, b.target)
  OBVIOUS
<1>4. /\ cached' = IF Drifts(b.held, d) THEN [q \in Queried |-> NoDate] ELSE cached
      /\ vouched' = IF b.quiet THEN vouched \cup {b.target} ELSE vouched
      /\ task' = [task EXCEPT ![t] = Idle]
      /\ UNCHANGED <<day, source, paying, cases>>
  BY <1>1, <1>3 DEF RepairDrift, Goes
<1>5. cached' = [q \in Queried |-> cached'[q]] /\ \A q \in Queried : cached'[q] \in {NoDate, cached[q]}
  BY <1>4 DEF EntitlementInv, CacheFits
<1>6. \A u \in Tasks : task'[u] = IF u = t THEN Idle ELSE task[u]
  BY <1>4 DEF EntitlementInv, TasksFit
<1>7. DatabaseFits'
  BY <1>4 DEF EntitlementInv, DatabaseFits, source
<1>8. CacheFits'
  <2>1. ASSUME NEW q \in Queried PROVE Kept(cached[q], q)'
    <3>1. PICK e : e = cached'[q]
      OBVIOUS
    <3>2. Kept(e, q)'
      BY <1>4, <1>5, <3>1, TaskStays DEF EntitlementInv, CacheFits, Kept
    <3> QED BY <3>1, <3>2
  <2> QED BY <1>5, <2>1 DEF CacheFits
<1>9. TasksFit'
  <2>1. task' = [u \in Tasks |-> task'[u]]
    BY <1>4 DEF EntitlementInv, TasksFit
  <2>2. ASSUME NEW u \in Tasks PROVE (TaskFits(task[u]) /\ QuietFits(task[u]))'
    <3>1. PICK e : e = task'[u]
      OBVIOUS
    <3>2. TaskFits(e) /\ QuietFits(e)
      BY <1>6, <3>1, IdleFits DEF EntitlementInv, TasksFit
    <3>3. TaskFits(e)' /\ (Current(e)' <=> Current(e))
      BY <1>4, <3>2, TaskStays
    <3>4. Quiet(e) => e.target \in Queried
      BY <3>2 DEF TaskFits, Quiet, Idle, QueryFits, DriftFits, PurchasesFit, ReadingFits
    <3>5. QuietFits(e)'
      BY <1>5, <3>2, <3>3, <3>4 DEF QuietFits, Quiet
    <3> QED BY <3>1, <3>3, <3>5
  <2> QED BY <2>1, <2>2 DEF TasksFit
<1>10. QueriesFit'
  <2> SUFFICES ASSUME Undisturbed', NEW u \in Tasks, task'[u].for = "query" PROVE Current(task[u])'
    BY DEF QueriesFit
  <2>1. Undisturbed
    BY <1>1, <1>2, <1>4, <1>6, IdleFits DEF Undisturbed, Quiet
  <2>2. task'[u] = task[u] /\ Current(task[u])
    BY <1>6, <2>1, IdleFits DEF EntitlementInv, QueriesFit
  <2>3. PICK e : e = task'[u]
    OBVIOUS
  <2>4. Current(e)'
    BY <1>4, <2>2, <2>3, TaskStays
  <2> QED BY <2>3, <2>4
<1>11. VouchedFits'
  <2>1. vouched' \subseteq Queried /\ \A q : Rebuilt(q)' = Rebuilt(q)
    BY <1>2, <1>4, TaskStays DEF EntitlementInv, VouchedFits, ReadingFits
  <2>2. ASSUME NEW q \in vouched', cached'[q] # NoDate PROVE Agrees(cached'[q], Rebuilt(q))
    <3>1. q \in Queried /\ cached'[q] = cached[q]
      BY <1>5, <2>1, <2>2
    <3>2. CASE q \in vouched
      BY <2>2, <3>1, <3>2 DEF EntitlementInv, VouchedFits
    <3>3. CASE q \notin vouched
      <4>1. q = b.target /\ b.quiet
        BY <1>4, <3>3
      <4>2. Current(b) /\ cached[q] = b.held
        BY <1>2, <2>2, <3>1, <4>1 DEF QuietFits, Quiet
      <4>3. ~Drifts(b.held, d)
        BY <1>4, <2>2, <3>1
      <4>4. d = Rebuilt(q)
        BY <1>2, <1>3, <4>1, <4>2, CurrentIsRebuilt
      <4>5. Grounded(b.held, q) /\ Grounded(Rebuilt(q), q) /\ b.held # NoDate
        BY <1>2, <2>2, <3>1, <4>1, <4>2, RebuiltIsGrounded DEF DriftFits, Kept
      <4>6. Agrees(b.held, Rebuilt(q))
        BY <4>3, <4>4, <4>5, AgreeUnlessDrift
      <4> QED BY <3>1, <4>2, <4>6
    <3> QED BY <3>2, <3>3
  <2> QED BY <2>1, <2>2 DEF VouchedFits, Agrees
<1>12. CasesFit'
  BY <1>4, CasesStay DEF EntitlementInv
<1> QED BY <1>7, <1>8, <1>9, <1>10, <1>11, <1>12 DEF EntitlementInv

(* A step of the check of purchases. *)
LEMMA PurchasesMove ==
  ASSUME EntitlementInv, NEW t \in Tasks, NEW c, task' = [task EXCEPT ![t] = c],
         UNCHANGED <<day, source, cached, paying, vouched>>, CasesFit', c = Idle \/ PurchasesFit(c)
  PROVE  EntitlementInv'
<1>1. TaskFits(c) /\ ~Quiet(c) /\ c.for # "query"
  BY DEF TaskFits, Quiet, Idle, PurchasesFit
<1> QED BY <1>1, TaskMoves DEF QuietFits

LEMMA ReadersAre ==
  ASSUME NEW b, TaskFits(b)
  PROVE  /\ b.pc \in {"cases", "raise", "granted", "paid"} => PurchasesFit(b)
         /\ b.pc \in {"list", "events"} => QueryFits(b) \/ DriftFits(b)
BY DEF TaskFits, Idle, PurchasesFit, QueryFits, DriftFits, ReadingFits

LEMMA NextIsUnserved ==
  ASSUME EntitlementInv, NEW t \in Tasks, task[t].pc \in {"cases", "raise"},
         task[t].pc = "cases" => task[t].todo # {}
  PROVE  \E p, w : /\ task[t] = [pc |-> p, for |-> "purchases", todo |-> w]
                  /\ w # {} /\ w \subseteq Unserved /\ Min(w) \in w
<1>1. PICK b : b = task[t]
  OBVIOUS
<1>2. TaskFits(b)
  BY <1>1 DEF EntitlementInv, TasksFit
<1>3. PurchasesFit(b)
  BY <1>1, <1>2, ReadersAre
<1>3a. /\ b = [pc |-> b.pc, for |-> "purchases", todo |-> b.todo]
       /\ b.todo \subseteq Unserved /\ (b.pc = "raise" => b.todo # {})
  BY <1>1, <1>3 DEF PurchasesFit
<1>3b. PICK p, w : p = b.pc /\ w = b.todo
  OBVIOUS
<1>4. /\ b = [pc |-> p, for |-> "purchases", todo |-> w]
      /\ w \subseteq Unserved /\ (p = "raise" => w # {})
  BY <1>3a, <1>3b
<1>5. w # {} /\ w \subseteq Nat
  BY <1>1, <1>3b, <1>4, EntitlementAssumption DEF Unserved
<1>6. Min(w) \in w
  BY <1>5, LeastIsThere
<1> QED BY <1>1, <1>4, <1>5, <1>6

LEMMA FindCaseKeeps ==
  ASSUME EntitlementInv, NEW t \in Tasks, FindCase(t)
  PROVE  EntitlementInv'
<1>1. PICK p, w : task[t] = [pc |-> p, for |-> "purchases", todo |-> w] /\ p = "cases"
                  /\ w # {} /\ w \subseteq Unserved
  <2>1. task[t].pc = "cases" /\ task[t].todo # {}
    BY DEF FindCase
  <2>2. PICK p, w : /\ task[t] = [pc |-> p, for |-> "purchases", todo |-> w]
                    /\ w # {} /\ w \subseteq Unserved /\ Min(w) \in w
    BY <2>1, NextIsUnserved
  <2>3. p = "cases"
    BY <2>1, <2>2
  <2> QED BY <2>2, <2>3, Zenon
<1>2. PICK c : c = [pc |-> "cases", for |-> "purchases", todo |-> w \ {Min(w)}]
  OBVIOUS
<1>3. PICK e : e = [pc |-> "raise", for |-> "purchases", todo |-> w]
  OBVIOUS
<1>4. PurchasesFit(c) /\ PurchasesFit(e)
  BY <1>1, <1>2, <1>3 DEF PurchasesFit
<1>5. /\ task' = [task EXCEPT ![t] = c] \/ task' = [task EXCEPT ![t] = e]
      /\ UNCHANGED <<day, source, cached, paying, vouched, cases>>
  <2>1. /\ [task[t] EXCEPT !.todo = @ \ {Min(w)}] = c
        /\ [task[t] EXCEPT !.pc = "raise"] = e
        /\ task[t].todo = w
    BY <1>1, <1>2, <1>3
  <2> QED BY <2>1 DEF FindCase, Goes
<1>6. CasesFit'
  BY <1>5, CasesStay DEF EntitlementInv
<1> QED BY <1>4, <1>5, <1>6, PurchasesMove

LEMMA RaiseCaseKeeps ==
  ASSUME EntitlementInv, NEW t \in Tasks, RaiseCase(t)
  PROVE  EntitlementInv'
<1>2. PICK p, w : /\ task[t] = [pc |-> p, for |-> "purchases", todo |-> w]
                  /\ w # {} /\ w \subseteq Unserved /\ Min(w) \in w
  BY NextIsUnserved DEF RaiseCase
<1>3. PICK c : c = [pc |-> "cases", for |-> "purchases", todo |-> w \ {Min(w)}]
  OBVIOUS
<1>4. PurchasesFit(c)
  BY <1>2, <1>3 DEF PurchasesFit
<1>5. PICK k : k = Case("paid_purchase_no_grant", Min(w))
  OBVIOUS
<1>6. task' = [task EXCEPT ![t] = c] /\ cases' = Append(cases, k)
      /\ UNCHANGED <<day, source, cached, paying, vouched>>
  <2>1. PICK m : m = Min(w)
    OBVIOUS
  <2>2. [task[t] EXCEPT !.pc = "cases", !.todo = @ \ {m}] = c /\ task[t].todo = w
    <3>1. PICK b : b = task[t]
      OBVIOUS
    <3>2. b = [pc |-> p, for |-> "purchases", todo |-> w] /\ b.todo = w
      BY <1>2, <3>1
    <3>3. PICK r : r = w \ {m}
      OBVIOUS
    <3>3a. PICK d : d = [b EXCEPT !.pc = "cases", !.todo = r]
      OBVIOUS
    <3>3b. d = [pc |-> "cases", for |-> "purchases", todo |-> r]
      BY <3>2, <3>3a
    <3>4. [b EXCEPT !.pc = "cases", !.todo = @ \ {m}] = [b EXCEPT !.pc = "cases", !.todo = w \ {m}]
      BY <3>2
    <3> QED BY <1>3, <2>1, <3>1, <3>2, <3>3, <3>3a, <3>3b, <3>4, Zenon
  <2>3. [task[t] EXCEPT !.pc = "cases", !.todo = @ \ {Min(task[t].todo)}] = c /\ task[t].todo = w
    BY <2>1, <2>2
  <2> QED BY <2>3, <1>5 DEF RaiseCase, Goes
<1>7. k \in CaseRow /\ AlarmFits(k)
  BY <1>2, <1>5 DEF CaseRow, Case, AlarmFits, Unserved
<1>8. cases' \in Seq(CaseRow) /\ \A i \in DOMAIN cases' : AlarmFits(cases'[i])
  <2>1. cases \in Seq(CaseRow) /\ \A i \in DOMAIN cases : AlarmFits(cases[i])
    BY DEF EntitlementInv, CasesFit
  <2>2. /\ cases' \in Seq(CaseRow) /\ DOMAIN cases' = 1..(Len(cases) + 1) /\ DOMAIN cases = 1..Len(cases)
        /\ \A i \in 1..Len(cases) : cases'[i] = cases[i]
        /\ cases'[Len(cases) + 1] = k
    BY <1>6, <1>7, <2>1, AppendProperties
  <2>3. \A i \in 1..(Len(cases) + 1) : i \in 1..Len(cases) \/ i = Len(cases) + 1
    BY <2>1
  <2> QED BY <1>7, <2>1, <2>2, <2>3
<1>9. CasesFit'
  BY <1>6, <1>8 DEF CasesFit, AlarmFits, Unserved, source
<1> QED BY <1>4, <1>6, <1>9, PurchasesMove

LEMMA PurchaseStepsKeep ==
  ASSUME EntitlementInv, NEW t \in Tasks,
         CheckPurchases(t) \/ ListPaid(t) \/ ListGranted(t) \/ Report(t)
  PROVE  EntitlementInv'
<1>1. ASSUME NEW c, task' = [task EXCEPT ![t] = c], c = Idle \/ PurchasesFit(c),
             UNCHANGED <<day, source, cached, paying, vouched, cases>>
      PROVE  EntitlementInv'
  BY <1>1, CasesStay, PurchasesMove DEF EntitlementInv
<1>2. CASE CheckPurchases(t)
  <2>1. PICK c : c = [pc |-> "paid", for |-> "purchases"]
    OBVIOUS
  <2> QED BY <1>1, <1>2, <2>1 DEF CheckPurchases, Starts, PurchasesFit
<1>3. CASE ListPaid(t)
  <2>1. PICK paid : paid = {o \in Orders : purchase[o] = "paid"}
    OBVIOUS
  <2>2. PICK c : c = [pc |-> "granted", for |-> "purchases", paid |-> paid]
    OBVIOUS
  <2>3. PurchasesFit(c)
    BY <2>1, <2>2 DEF PurchasesFit
  <2>4. task' = [task EXCEPT ![t] = c] \/ task' = [task EXCEPT ![t] = Idle]
    BY <1>3, <2>1, <2>2 DEF ListPaid, Goes
  <2>5. PICK i : i = Idle
    OBVIOUS
  <2> QED BY <1>1, <1>3, <2>3, <2>4, <2>5 DEF ListPaid, Goes
<1>4. CASE ListGranted(t)
  <2>1. PICK b : b = task[t]
    OBVIOUS
  <2>2. PICK c : c = [pc |-> "cases", for |-> "purchases", todo |-> PaidWithoutGrant(b.paid)]
    OBVIOUS
  <2>3. \A o \in b.paid : o \in Orders /\ purchase[o] # "pending"
    <3>1. PurchasesFit(b) /\ b.pc = "granted"
      BY <1>4, <2>1, ReadersAre DEF ListGranted, EntitlementInv, TasksFit
    <3> QED BY <3>1 DEF PurchasesFit
  <2>4. PurchasesFit(c)
    BY <2>2, <2>3 DEF PurchasesFit, PaidWithoutGrant, Unserved
  <2> QED BY <1>1, <1>4, <2>1, <2>2, <2>4 DEF ListGranted, Goes
<1>5. CASE Report(t)
  <2>1. PICK c : c = Idle
    OBVIOUS
  <2> QED BY <1>1, <1>5, <2>1 DEF Report, Goes
<1> QED BY <1>2, <1>3, <1>4, <1>5

(* What a change of the database leaves of the argument: grants are only   *)
(* added, and to a purchase that was seen without one only by a repair.    *)
Grows ==
  /\ Granted \subseteq Granted' /\ \A o \in Granted : grant'[o] = grant[o]
  /\ Unserved \subseteq Unserved'
  /\ \A o \in Orders : purchase[o] # "pending" => purchase'[o] # "pending"

LEMMA GrowthKeepsTasks ==
  ASSUME Grows, NEW c
  PROVE  /\ \A d, q : Kept(d, q) => Kept(d, q)'
         /\ TaskFits(c) => TaskFits(c)'
         /\ \A k : AlarmFits(k) => AlarmFits(k)'
<1>1. ASSUME NEW d, NEW q, Kept(d, q) PROVE Kept(d, q)'
  <2>1. ASSUME NEW S, S \subseteq Granted PROVE EndOf(S, q)' = EndOf(S, q)
    <3>1. \A o \in S : grant'[o] = grant[o]
      BY <2>1 DEF Grows
    <3>2. {NarrowedWindow(grant'[o], FirstClaim(o, q)) : o \in S}
            = {NarrowedWindow(grant[o], FirstClaim(o, q)) : o \in S}
      BY <3>1
    <3> QED BY <3>2 DEF EndOf
  <2>2. CASE d = NoDate
    BY <2>2 DEF Kept
  <2>3. CASE d # NoDate /\ Allowed(d)
    <3>1. d.decisive \subseteq Granted /\ d.to = EndOf(d.decisive, q)
      BY <1>1, <2>3 DEF Kept, Grounded
    <3>2. PICK S : S = d.decisive
      OBVIOUS
    <3>3. EndOf(S, q)' = EndOf(S, q) /\ S \subseteq Granted'
      BY <2>1, <3>1, <3>2 DEF Grows
    <3> QED BY <3>1, <3>2, <3>3 DEF Kept, Grounded
  <2>4. CASE ~Allowed(d)
    BY <2>4 DEF Kept, Grounded
  <2> QED BY <2>2, <2>3, <2>4
<1>2. ReadingFits(c) => ReadingFits(c)'
  BY DEF ReadingFits, Grows
<1>3. PurchasesFit(c) => PurchasesFit(c)'
  BY DEF PurchasesFit, Grows
<1>4. TaskFits(c) => TaskFits(c)'
  BY <1>1, <1>2, <1>3 DEF TaskFits, QueryFits, DriftFits
<1>5. \A k : AlarmFits(k) => AlarmFits(k)'
  BY DEF AlarmFits, Grows
<1> QED BY <1>1, <1>4, <1>5

LEMMA ChangeKeeps ==
  ASSUME EntitlementInv, Grows, task' = Disturbed, Change, cached' = cached, DatabaseFits', CasesFit'
  PROVE  EntitlementInv'
<1>1. CacheFits'
  <2>1. ASSUME NEW q \in Queried PROVE Kept(cached[q], q)'
    <3>1. PICK e : e = cached'[q]
      OBVIOUS
    <3>2. Kept(e, q)
      BY <3>1 DEF EntitlementInv, CacheFits
    <3>3. Kept(e, q)'
      BY <3>2, GrowthKeepsTasks
    <3> QED BY <3>1, <3>3
  <2> QED BY <2>1 DEF EntitlementInv, CacheFits
<1>2. TasksFit'
  <2>1. task' = [u \in Tasks |-> task'[u]]
    BY DEF Disturbed
  <2>2. ASSUME NEW u \in Tasks PROVE (TaskFits(task[u]) /\ QuietFits(task[u]))'
    <3>1. PICK e : e = task'[u]
      OBVIOUS
    <3>2. TaskFits(e) /\ ~Quiet(e)
      BY <3>1, DisturbedFits
    <3>3. TaskFits(e)' /\ QuietFits(e)'
      BY <3>2, GrowthKeepsTasks DEF QuietFits, Quiet
    <3> QED BY <3>1, <3>3
  <2> QED BY <2>1, <2>2 DEF TasksFit
<1>3. QueriesFit' /\ VouchedFits'
  <2>1. ~Undisturbed'
    BY DisturbedFits DEF Undisturbed, Change, Quiet
  <2> QED BY <2>1 DEF QueriesFit, VouchedFits, Change
<1> QED BY <1>1, <1>2, <1>3 DEF EntitlementInv

(* A transaction on a purchase begins, which may empty the cache. *)
LEMMA ArrivalKeeps ==
  ASSUME EntitlementInv, NEW o \in Orders, NEW status,
         status # "pending", status = "paid" => purchase[o] = "pending",
         paying' = [paying EXCEPT ![o] = status], UNCHANGED <<day, source, cases, task, vouched>>,
         cached' = [q \in Queried |-> NoDate] \/ cached' = cached
  PROVE  EntitlementInv'
<1>1. status # "pending" /\ (status = "paid" => purchase[o] = "pending")
  OBVIOUS
<1>2. /\ paying' = [paying EXCEPT ![o] = status] /\ UNCHANGED <<day, source, cases, task, vouched>>
      /\ cached' = [q \in Queried |-> NoDate] \/ cached' = cached
  OBVIOUS
<1>3. DatabaseFits'
  <2>1. paying' = [x \in Orders |-> IF x = o THEN status ELSE paying[x]] /\ UNCHANGED <<purchase, grant, ended>>
    BY <1>2 DEF EntitlementInv, DatabaseFits, source
  <2> QED BY <1>1, <2>1 DEF EntitlementInv, DatabaseFits
<1>4. cached' = [q \in Queried |-> cached'[q]] /\ \A q \in Queried : cached'[q] \in {NoDate, cached[q]}
  BY <1>2 DEF EntitlementInv, CacheFits
<1>5. CacheFits'
  <2>1. ASSUME NEW q \in Queried PROVE Kept(cached[q], q)'
    <3>1. PICK e : e = cached'[q]
      OBVIOUS
    <3>2. Kept(e, q)'
      BY <1>2, <1>4, <3>1, TaskStays DEF EntitlementInv, CacheFits, Kept
    <3> QED BY <3>1, <3>2
  <2> QED BY <1>4, <2>1 DEF CacheFits
<1>6. TasksFit'
  <2>1. ASSUME NEW u \in Tasks PROVE (TaskFits(task[u]) /\ QuietFits(task[u]))'
    <3>1. PICK e : e = task[u]
      OBVIOUS
    <3>2. TaskFits(e) /\ QuietFits(e)
      BY <3>1 DEF EntitlementInv, TasksFit
    <3>3. TaskFits(e)' /\ (Current(e)' <=> Current(e))
      BY <1>2, <3>2, TaskStays
    <3>4. Quiet(e) => e.target \in Queried
      BY <3>2 DEF TaskFits, Quiet, Idle, QueryFits, DriftFits, PurchasesFit, ReadingFits
    <3>5. QuietFits(e)'
      BY <1>4, <3>2, <3>3, <3>4 DEF QuietFits, Quiet
    <3> QED BY <1>2, <3>1, <3>3, <3>5
  <2> QED BY <1>2, <2>1 DEF EntitlementInv, TasksFit
<1>7. QueriesFit'
  <2> SUFFICES ASSUME Undisturbed', NEW u \in Tasks, task'[u].for = "query" PROVE Current(task[u])'
    BY DEF QueriesFit
  <2>1. Current(task[u])
    BY <1>2 DEF EntitlementInv, QueriesFit, Undisturbed, Quiet
  <2>2. PICK e : e = task[u]
    OBVIOUS
  <2>3. Current(e)'
    BY <1>2, <2>1, <2>2, TaskStays
  <2> QED BY <1>2, <2>2, <2>3
<1>8. VouchedFits'
  <2>1. \A q : Rebuilt(q)' = Rebuilt(q)
    BY <1>2, TaskStays
  <2>2. vouched' = vouched /\ vouched \subseteq Queried
    BY <1>2 DEF EntitlementInv, VouchedFits
  <2>3. \A q \in vouched : cached'[q] # NoDate => Agrees(cached'[q], Rebuilt(q))
    BY <1>4, <2>2 DEF EntitlementInv, VouchedFits
  <2> QED BY <2>1, <2>2, <2>3 DEF VouchedFits, Agrees
<1>9. CasesFit'
  BY <1>2, CasesStay DEF EntitlementInv
<1> QED BY <1>3, <1>5, <1>6, <1>7, <1>8, <1>9 DEF EntitlementInv

LEMMA PaymentArrivesKeeps ==
  ASSUME EntitlementInv, NEW o \in Orders, NEW status, PaymentArrives(o, status)
  PROVE  EntitlementInv'
<1>1. status # "pending" /\ (status = "paid" => purchase[o] = "pending")
  BY EntitlementAssumption DEF PaymentArrives
<1>2. /\ paying' = [paying EXCEPT ![o] = status] /\ UNCHANGED <<day, source, cases, task, vouched>>
      /\ cached' = [q \in Queried |-> NoDate] \/ cached' = cached
  BY DEF PaymentArrives
<1> QED BY <1>1, <1>2, ArrivalKeeps

LEMMA RepairArrivesKeeps ==
  ASSUME EntitlementInv, NEW o \in Orders, NEW i, RepairArrives(o, i)
  PROVE  EntitlementInv'
<1>1. PICK status : status = "repair"
  OBVIOUS
<1>2. /\ paying' = [paying EXCEPT ![o] = status] /\ UNCHANGED <<day, source, cases, task, vouched>>
      /\ cached' = [q \in Queried |-> NoDate] \/ cached' = cached
  BY <1>1 DEF RepairArrives
<1> QED BY <1>1, <1>2, ArrivalKeeps

LEMMA PaymentRollsBackKeeps ==
  ASSUME EntitlementInv, NEW o \in Orders, PaymentRollsBack(o)
  PROVE  EntitlementInv'
<1>1. paying' = [paying EXCEPT ![o] = NoDate] /\ UNCHANGED <<day, source, cases, cached, task, vouched>>
  BY DEF PaymentRollsBack
<1>2. DatabaseFits'
  <2>1. paying' = [x \in Orders |-> IF x = o THEN NoDate ELSE paying[x]] /\ UNCHANGED <<purchase, grant, ended>>
    BY <1>1 DEF EntitlementInv, DatabaseFits, source
  <2> QED BY <2>1 DEF EntitlementInv, DatabaseFits
<1>3. CacheFits'
  BY <1>1, TaskStays DEF EntitlementInv, CacheFits
<1>4. TasksFit' /\ QueriesFit'
  <2>1. ASSUME NEW u \in Tasks
        PROVE  (TaskFits(task[u]) /\ QuietFits(task[u]))' /\ (Current(task[u])' <=> Current(task[u]))
    <3>1. PICK e : e = task[u]
      OBVIOUS
    <3>2. TaskFits(e)' /\ QuietFits(e)' /\ (Current(e)' <=> Current(e))
      BY <1>1, <3>1, TaskStays DEF EntitlementInv, TasksFit, QuietFits, Quiet
    <3> QED BY <1>1, <3>1, <3>2
  <2>2. Undisturbed' => Undisturbed
    BY <1>1 DEF Undisturbed, Quiet
  <2> QED BY <1>1, <2>1, <2>2 DEF EntitlementInv, TasksFit, QueriesFit
<1>5. VouchedFits'
  BY <1>1, TaskStays DEF EntitlementInv, VouchedFits, Agrees
<1>6. CasesFit'
  BY <1>1, CasesStay DEF EntitlementInv
<1> QED BY <1>2, <1>3, <1>4, <1>5, <1>6 DEF EntitlementInv

(* The cases after a transaction: those there were, and none that alarms.  *)
LEMMA CasesGrow ==
  ASSUME NEW m \in Seq(CaseRow), NEW r \in Seq(CaseRow), \A i \in DOMAIN m : AlarmFits(m[i]),
         \A i \in DOMAIN r : r[i].type # "paid_purchase_no_grant", Grows, cases' = m \o r
  PROVE  CasesFit'
<1>1. /\ cases' \in Seq(CaseRow) /\ Len(cases') = Len(m) + Len(r)
      /\ \A i \in 1..(Len(m) + Len(r)) : cases'[i] = IF i =< Len(m) THEN m[i] ELSE r[i - Len(m)]
  BY ConcatProperties
<1>2. ASSUME NEW i \in DOMAIN cases' PROVE (AlarmFits(cases[i]))'
  <2>1. PICK k : k = cases'[i]
    OBVIOUS
  <2>2. i \in 1..(Len(m) + Len(r)) /\ Len(m) \in Nat /\ Len(r) \in Nat
    BY <1>1
  <2>3. AlarmFits(k)
    <3>1. CASE i =< Len(m)
      BY <1>1, <2>1, <2>2, <3>1
    <3>2. CASE i > Len(m)
      <4>1. i - Len(m) \in DOMAIN r /\ k = r[i - Len(m)]
        BY <1>1, <2>1, <2>2, <3>2
      <4> QED BY <4>1 DEF AlarmFits
    <3> QED BY <2>2, <3>1, <3>2
  <2>4. AlarmFits(k)'
    BY <2>3, GrowthKeepsTasks
  <2> QED BY <2>1, <2>4
<1> QED BY <1>1, <1>2 DEF CasesFit

LEMMA PaymentCommitsKeeps ==
  ASSUME EntitlementInv, NEW o \in Orders, PaymentCommits(o)
  PROVE  EntitlementInv'
<1>1. PICK status : status = paying[o]
  OBVIOUS
<1>2. /\ status # NoDate /\ purchase' = [purchase EXCEPT ![o] = status]
      /\ paying' = [paying EXCEPT ![o] = NoDate] /\ task' = Disturbed /\ Change
      /\ cases' = cases \o RaisedBy(o, status) /\ UNCHANGED <<day, requests, offered, cached, repaired>>
  BY <1>1 DEF PaymentCommits
<1>3. status = "paid" => purchase[o] = "pending"
  BY <1>1, <1>2 DEF EntitlementInv, DatabaseFits
<1>3a. status # "pending"
  BY <1>1, <1>2 DEF EntitlementInv, DatabaseFits
<1>4. PICK w : grant' = grant \/ (status = "paid" /\ grant[o] = NoDate /\ grant' = [grant EXCEPT ![o] = w])
  BY <1>1 DEF PaymentCommits, Issued
<1>5. PICK e : ended' = ended \/ ended' = [ended EXCEPT ![o] = e]
  BY <1>1 DEF PaymentCommits
<1>6. /\ \A x \in Orders : purchase'[x] = IF x = o THEN status ELSE purchase[x]
      /\ \A x \in Orders : grant'[x] = grant[x] \/ (x = o /\ status = "paid" /\ grant[x] = NoDate)
      /\ \A x \in Orders : paying'[x] = IF x = o THEN NoDate ELSE paying[x]
  BY <1>2, <1>4 DEF EntitlementInv, DatabaseFits
<1>7. Grows
  <2>1. UNCHANGED repaired
    BY <1>2
  <2> QED BY <2>1, <1>3, <1>3a, <1>6 DEF Grows, Granted, Unserved
<1>8. DatabaseFits'
  <2>1. purchase' = [x \in Orders |-> purchase'[x]] /\ paying' = [x \in Orders |-> paying'[x]]
    BY <1>2 DEF EntitlementInv, DatabaseFits
  <2>2. grant' = [x \in Orders |-> grant'[x]] /\ ended' = [x \in Orders |-> ended'[x]]
    BY <1>4, <1>5 DEF EntitlementInv, DatabaseFits
  <2>3. \A x \in Orders : paying'[x] # NoDate =>
          paying'[x] # "pending" /\ (paying'[x] = "paid" => purchase'[x] = "pending")
    BY <1>6 DEF EntitlementInv, DatabaseFits
  <2> QED BY <2>1, <2>2, <2>3 DEF DatabaseFits
<1>9. CasesFit'
  <2>1. PICK r : r = RaisedBy(o, status)
    OBVIOUS
  <2>2. /\ r \in Seq(CaseRow)
        /\ \A i \in DOMAIN r : r[i].type # "paid_purchase_no_grant"
    <3>1. PICK k1 : k1 = Case("policy_validity_unresolvable", o)
      OBVIOUS
    <3>2. PICK k2 : k2 = Case("chargeback_review", o)
      OBVIOUS
    <3>3. PICK k3 : k3 = Case("unverifiable_partial_refund", o)
      OBVIOUS
    <3>3a. PICK k4 : k4 = Case("unknown_sku", o)
      OBVIOUS
    <3>4. /\ k1 \in CaseRow /\ k2 \in CaseRow /\ k3 \in CaseRow /\ k4 \in CaseRow
          /\ "paid_purchase_no_grant" \notin {k1.type, k2.type, k3.type, k4.type}
      BY <3>1, <3>2, <3>3, <3>3a DEF Case, CaseRow
    <3>5. r \in {<<k1>>, <<k2>>, <<k3>>, <<k4>>, <<>>}
      <4>0. CASE status = "paid" /\ o \notin offered
        BY <2>1, <3>3a, <4>0 DEF RaisedBy
      <4>1. CASE status = "paid" /\ o \in offered /\ ~Usable(Policy[o].validity)
        BY <2>1, <3>1, <4>1 DEF RaisedBy
      <4>2. CASE status = "chargeback"
        BY <2>1, <3>2, <4>2 DEF RaisedBy
      <4>3. CASE status = "refunded_partial"
        BY <2>1, <3>3, <4>3 DEF RaisedBy
      <4>4. CASE /\ ~(status = "paid" /\ o \notin offered)
                 /\ ~(status = "paid" /\ o \in offered /\ ~Usable(Policy[o].validity))
                 /\ status # "chargeback" /\ status # "refunded_partial"
        BY <2>1, <4>4 DEF RaisedBy
      <4> QED BY <4>0, <4>1, <4>2, <4>3, <4>4
    <3>6. ASSUME NEW k \in CaseRow, k.type # "paid_purchase_no_grant", r = <<k>>
          PROVE  r \in Seq(CaseRow) /\ \A i \in DOMAIN r : r[i].type # "paid_purchase_no_grant"
      BY <3>6
    <3>7. CASE r = <<>>
      BY <3>7
    <3>8. r = <<k1>> \/ r = <<k2>> \/ r = <<k3>> \/ r = <<k4>> \/ r = <<>>
      BY <3>5
    <3>9. k1.type # "paid_purchase_no_grant" /\ k2.type # "paid_purchase_no_grant"
          /\ k3.type # "paid_purchase_no_grant" /\ k4.type # "paid_purchase_no_grant"
      BY <3>4
    <3> QED BY <3>4, <3>6, <3>7, <3>8, <3>9, Zenon
  <2>3. cases \in Seq(CaseRow) /\ \A i \in DOMAIN cases : AlarmFits(cases[i])
    BY DEF EntitlementInv, CasesFit
  <2> QED BY <1>2, <1>7, <2>1, <2>2, <2>3, CasesGrow
<1> QED BY <1>2, <1>7, <1>8, <1>9, ChangeKeeps

LEMMA RepairCommitsKeeps ==
  ASSUME EntitlementInv, NEW o \in Orders, RepairCommits(o)
  PROVE  EntitlementInv'
<1>1. PICK m : m = [i \in DOMAIN cases |-> RepairedCase(cases[i], o)]
  OBVIOUS
<1>2. PICK r : r = IF purchase[o] = "paid" /\ ~Usable(Policy[o].validity)
                   THEN <<Case("policy_validity_unresolvable", o)>> ELSE <<>>
  OBVIOUS
<1>3. /\ cases' = m \o r /\ paying' = [paying EXCEPT ![o] = NoDate]
      /\ task' = Disturbed /\ Change /\ UNCHANGED <<day, requests, purchase, ended, cached>>
  BY <1>1, <1>2 DEF RepairCommits
<1>4. /\ repaired \subseteq repaired' /\ (purchase[o] = "paid" => o \in repaired')
  BY DEF RepairCommits
<1>5. PICK w : grant' = grant
               \/ (purchase[o] = "paid" /\ grant[o] = NoDate /\ grant' = [grant EXCEPT ![o] = w])
  BY DEF RepairCommits, Issued
<1>6. /\ \A x \in Orders : grant'[x] = grant[x] \/ (x = o /\ purchase[x] = "paid" /\ grant[x] = NoDate)
      /\ \A x \in Orders : paying'[x] = IF x = o THEN NoDate ELSE paying[x]
  BY <1>3, <1>5 DEF EntitlementInv, DatabaseFits
<1>7. Grows
  BY <1>3, <1>4, <1>6 DEF Grows, Granted, Unserved
<1>8. DatabaseFits'
  <2>1. grant' = [x \in Orders |-> grant'[x]] /\ paying' = [x \in Orders |-> paying'[x]]
    BY <1>3, <1>5 DEF EntitlementInv, DatabaseFits
  <2>2. purchase' = [x \in Orders |-> purchase'[x]] /\ ended' = [x \in Orders |-> ended'[x]]
    BY <1>3 DEF EntitlementInv, DatabaseFits
  <2>3. \A x \in Orders : paying'[x] # NoDate =>
          paying'[x] # "pending" /\ (paying'[x] = "paid" => purchase'[x] = "pending")
    BY <1>3, <1>6 DEF EntitlementInv, DatabaseFits
  <2> QED BY <2>1, <2>2, <2>3 DEF DatabaseFits
<1>9. CasesFit'
  <2>1. cases \in Seq(CaseRow) /\ \A i \in DOMAIN cases : AlarmFits(cases[i])
    BY DEF EntitlementInv, CasesFit
  <2>2. ASSUME NEW k \in CaseRow, AlarmFits(k) PROVE RepairedCase(k, o) \in CaseRow /\ AlarmFits(RepairedCase(k, o))
    BY <2>2 DEF RepairedCase, CaseRow, AlarmFits
  <2>3. m \in Seq(CaseRow) /\ \A i \in DOMAIN m : AlarmFits(m[i])
    BY <1>1, <2>1, <2>2
  <2>4. PICK k : k = Case("policy_validity_unresolvable", o)
    OBVIOUS
  <2>5. k \in CaseRow /\ k.type # "paid_purchase_no_grant" /\ (r = <<k>> \/ r = <<>>)
    BY <1>2, <2>4 DEF Case, CaseRow
  <2>6. r \in Seq(CaseRow) /\ \A i \in DOMAIN r : r[i].type # "paid_purchase_no_grant"
    <3>1. CASE r = <<k>>
      BY <2>5, <3>1
    <3>2. CASE r = <<>>
      BY <3>2
    <3> QED BY <2>5, <3>1, <3>2
  <2> QED BY <1>3, <1>7, <2>3, <2>6, CasesGrow
<1> QED BY <1>3, <1>7, <1>8, <1>9, ChangeKeeps

LEMMA NextDayKeeps == EntitlementInv /\ NextDay => EntitlementInv'
<1> SUFFICES ASSUME EntitlementInv, NextDay PROVE EntitlementInv'
  OBVIOUS
<1>1. task' = Disturbed /\ Change /\ UNCHANGED <<source, cases, cached, paying>>
  BY DEF NextDay
<1>2. Grows
  BY <1>1 DEF Grows, Granted, Unserved, source
<1>3. DatabaseFits' /\ CasesFit'
  BY <1>1, CasesStay DEF EntitlementInv, DatabaseFits, source
<1> QED BY <1>1, <1>2, <1>3, ChangeKeeps

LEMMA MoveCaseKeeps ==
  ASSUME EntitlementInv, NEW i, NEW status \in {"assigned", "resolved"}, MoveCase(i, status)
  PROVE  EntitlementInv'
<1>1. /\ i \in DOMAIN cases /\ cases' = [cases EXCEPT ![i].status = status]
      /\ UNCHANGED <<day, source, cached, paying, task, vouched>>
  BY DEF MoveCase
<1>2. cases \in Seq(CaseRow) /\ \A j \in DOMAIN cases : AlarmFits(cases[j])
  BY DEF EntitlementInv, CasesFit
<1>3. PICK k : k = [cases[i] EXCEPT !.status = status]
  OBVIOUS
<1>4. k \in CaseRow /\ AlarmFits(k)
  <2>1. cases[i] \in CaseRow /\ AlarmFits(cases[i])
    BY <1>1, <1>2
  <2> QED BY <1>3, <2>1 DEF CaseRow, AlarmFits
<1>5. /\ cases' = [cases EXCEPT ![i] = k] /\ cases' \in Seq(CaseRow) /\ DOMAIN cases' = DOMAIN cases
      /\ \A j \in DOMAIN cases : cases'[j] = IF j = i THEN k ELSE cases[j]
  BY <1>1, <1>2, <1>3, <1>4
<1>6. \A j \in DOMAIN cases' : AlarmFits(cases'[j])
  BY <1>2, <1>4, <1>5
<1>7. CasesFit'
  BY <1>1, <1>5, <1>6 DEF CasesFit, AlarmFits, Unserved, source
<1>8. PICK t : t \in Tasks \/ Tasks = {}
  OBVIOUS
<1>9. DatabaseFits' /\ CacheFits'
  BY <1>1, TaskStays DEF EntitlementInv, DatabaseFits, CacheFits, source
<1>10. TasksFit' /\ QueriesFit'
  <2>1. ASSUME NEW u \in Tasks
        PROVE  (TaskFits(task[u]) /\ QuietFits(task[u]))' /\ (Current(task[u])' <=> Current(task[u]))
    <3>1. PICK e : e = task[u]
      OBVIOUS
    <3>2. TaskFits(e)' /\ QuietFits(e)' /\ (Current(e)' <=> Current(e))
      BY <1>1, <3>1, TaskStays DEF EntitlementInv, TasksFit, QuietFits, Quiet
    <3> QED BY <1>1, <3>1, <3>2
  <2>2. Undisturbed' => Undisturbed
    BY <1>1 DEF Undisturbed, Quiet
  <2> QED BY <1>1, <2>1, <2>2 DEF EntitlementInv, TasksFit, QueriesFit
<1>11. VouchedFits'
  BY <1>1, TaskStays DEF EntitlementInv, VouchedFits, Agrees
<1> QED BY <1>7, <1>9, <1>10, <1>11 DEF EntitlementInv

LEMMA EntitlementStepKeeps == EntitlementInv /\ [EntitlementNext]_entitlementVars => EntitlementInv'
<1> SUFFICES ASSUME EntitlementInv, [EntitlementNext]_entitlementVars PROVE EntitlementInv'
  OBVIOUS
<1>1. ASSUME NEW o \in Orders, NEW status, PaymentArrives(o, status) PROVE EntitlementInv'
  BY <1>1, PaymentArrivesKeeps
<1>2. ASSUME NEW o \in Orders, PaymentCommits(o) \/ PaymentRollsBack(o) \/ RepairCommits(o)
      PROVE  EntitlementInv'
  BY <1>2, PaymentCommitsKeeps, PaymentRollsBackKeeps, RepairCommitsKeeps
<1>2a. ASSUME NEW o \in Orders, NEW i, RepairArrives(o, i) PROVE EntitlementInv'
  BY <1>2a, RepairArrivesKeeps
<1>3. ASSUME NEW t \in Tasks, NEW q \in Queried, Query(t, q) \/ CheckDrift(t, q) PROVE EntitlementInv'
  BY <1>3, QueryKeeps, CheckDriftKeeps
<1>4. ASSUME NEW t \in Tasks, ListGrants(t) \/ ReadEvents(t) \/ StoreDecision(t) \/ RepairDrift(t)
      PROVE  EntitlementInv'
  BY <1>4, ListGrantsKeeps, ReadEventsKeeps, StoreDecisionKeeps, RepairDriftKeeps
<1>5. ASSUME NEW t \in Tasks, CheckPurchases(t) \/ ListPaid(t) \/ ListGranted(t) \/ Report(t)
      PROVE  EntitlementInv'
  BY <1>5, PurchaseStepsKeep
<1>6. ASSUME NEW t \in Tasks, FindCase(t) \/ RaiseCase(t) PROVE EntitlementInv'
  BY <1>6, FindCaseKeeps, RaiseCaseKeeps
<1>7. ASSUME NEW i, NEW status \in {"assigned", "resolved"}, MoveCase(i, status) PROVE EntitlementInv'
  BY <1>7, MoveCaseKeeps
<1>8. CASE NextDay
  BY <1>8, NextDayKeeps
<1>9. CASE UNCHANGED entitlementVars
  <2>1. UNCHANGED <<day, source, cached, paying, vouched, task, cases>>
    BY <1>9 DEF entitlementVars
  <2>2. DatabaseFits' /\ CacheFits' /\ CasesFit'
    BY <2>1, TaskStays, CasesStay DEF EntitlementInv, DatabaseFits, CacheFits, source
  <2>3. TasksFit' /\ QueriesFit'
    <3>1. ASSUME NEW u \in Tasks
          PROVE  (TaskFits(task[u]) /\ QuietFits(task[u]))' /\ (Current(task[u])' <=> Current(task[u]))
      <4>1. PICK e : e = task[u]
        OBVIOUS
      <4>2. TaskFits(e)' /\ QuietFits(e)' /\ (Current(e)' <=> Current(e))
        BY <2>1, <4>1, TaskStays DEF EntitlementInv, TasksFit, QuietFits, Quiet
      <4> QED BY <2>1, <4>1, <4>2
    <3>2. Undisturbed' => Undisturbed
      BY <2>1 DEF Undisturbed, Quiet
    <3> QED BY <2>1, <3>1, <3>2 DEF EntitlementInv, TasksFit, QueriesFit
  <2>4. VouchedFits'
    BY <2>1, TaskStays DEF EntitlementInv, VouchedFits, Agrees
  <2> QED BY <2>2, <2>3, <2>4 DEF EntitlementInv
<1> QED BY <1>1, <1>2, <1>2a, <1>3, <1>4, <1>5, <1>6, <1>7, <1>8, <1>9 DEF EntitlementNext

LEMMA EntitlementInvariant == EntitlementSpec => []EntitlementInv
<1> QED BY EntitlementInitInv, EntitlementStepKeeps, PTL DEF EntitlementSpec

(* What a drift check vouches for is true until something changes: after   *)
(* detectEffectiveAccessDrift has read a target while nothing was written  *)
(* and no query was on its way to the cache, the decision kept for it, if  *)
(* any, allows what a fresh read of the grants allows, by the same grants  *)
(* and until the same end, for any number of orders, targets and requests. *)
THEOREM DriftChecksVouch == EntitlementSpec => []DriftCheckVouches
<1> QED BY EntitlementInvariant, EntitlementInvMeans, PTL

(* detectPurchaseGrantDrift raises no false alarm: a purchase it reports   *)
(* was paid, and gets no grant but from the repair of its unmapped SKU,    *)
(* although the check reads the purchases before the grants and both       *)
(* before the open cases, and raises its own when they may have changed.   *)
THEOREM AlarmsAreReal == EntitlementSpec => []AlarmIsReal
<1> QED BY EntitlementInvariant, EntitlementInvMeans, PTL

=============================================================================
