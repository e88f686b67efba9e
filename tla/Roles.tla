-------------------------------- MODULE Roles --------------------------------
(***************************************************************************)
(* Staff roles and the decision whether one may act                        *)
(* (packages/db/src/authorization/role-repository.ts and                   *)
(* packages/domain/src/authorization).                                     *)
(*                                                                         *)
(* An assignment is a row that never changes; revoking and reinstating it  *)
(* are events, and whether it is in force is derived from the newest one.  *)
(* A service asks in several reads - the assignments, then the events of   *)
(* each - decides, and acts in a later commit, while assignments and       *)
(* events are written by others.  Modules Publication, Correction and      *)
(* Access act on such a decision.                                          *)
(*                                                                         *)
(* An assignment can be narrowed to scopes; that bears only on an object   *)
(* that names one, and no caller of authorize does, so scopes are left     *)
(* out.  So are owners and entitlement, which no staff service passes.     *)
(***************************************************************************)
EXTENDS Naturals, FiniteSets

CONSTANTS
    People,
    Kinds,       \* what may be asked for: [permission, maker, risky]
    Objects,     \* what it is asked about
    MakerOf,     \* [Objects -> People]
    Staffing,    \* the canonical roles people are given
    Desks,       \* requests served at once
    LastMoment   \* bound on how often roles change or somebody asks

\* ROLE_PERMISSION_MATRIX, its full grants (hasFullGrant); a "scoped_nuance"
\* is none.
GrantsTo ==
    [ tutor_writer |-> {"question.draft.write"},
      moderator_reviewer |->
        {"question.draft.write", "question.first_approve", "exam.blueprint.first_approve",
         "result.correction.request", "result.correction.publish"},
      academic_admin |->
        {"question.draft.write", "question.first_approve", "question.ranked_publish",
         "exam.blueprint.draft.write", "exam.blueprint.first_approve", "exam.blueprint.publish",
         "program.publish", "batch.publish", "live.occurrence.manage", "access.manual.change",
         "result.correction.request", "result.correction.publish",
         "notification.operational.schedule"},
      operations_admin |->
        {"live.occurrence.manage", "access.manual.change", "reconciliation.manage",
         "notification.operational.schedule"},
      live_class_coordinator |-> {"live.occurrence.manage", "notification.operational.schedule"},
      support |-> {"access.explain"},
      finance_reconciliation |-> {"purchase.raw.read", "reconciliation.manage"},
      super_admin |->
        {"question.draft.write", "question.first_approve", "question.ranked_publish",
         "exam.blueprint.draft.write", "exam.blueprint.first_approve", "exam.blueprint.publish",
         "program.publish", "batch.publish", "live.occurrence.manage", "access.explain",
         "access.manual.change", "purchase.raw.read", "reconciliation.manage",
         "result.correction.request", "result.correction.publish",
         "notification.operational.schedule", "notification.marketing.schedule", "role.manage"} ]

CanonicalRoles == DOMAIN GrantsTo

ASSUME RolesAssumption ==
    LastMoment \in Nat /\ MakerOf \in [Objects -> People] /\ Staffing \subseteq CanonicalRoles

VARIABLES
    moment,      \* counts what people do to roles and ask for
    seeded,      \* rows of roles
    assigned,    \* user_roles: <<person, role>>
    events,      \* role_assignment_events: [of, type, at]
    inForce,     \* <<assignment, moment>>: it was in force then (history)
    desk,        \* what each request is doing
    acts         \* what was done (history)

roleRows == <<seeded, assigned, events>>
rolesVars == <<moment, roleRows, inForce, desk, acts>>

Vacant == [pc |-> "idle"]

RolesInit ==
    /\ moment = 0 /\ seeded = {}
    /\ assigned = {} /\ events = {}
    /\ inForce = {} /\ acts = {}
    /\ desk = [d \in Desks |-> Vacant]

\* As an administrator would say it: no revocation is newer than every
\* reinstatement.
Stands(log, a) ==
    \A e \in log : e.of = a /\ e.type = "revoked" =>
      \E f \in log : f.of = a /\ f.type = "reinstated" /\ f.at > e.at

At(m) == /\ moment' = m
         /\ inForce' = inForce \cup {<<a, m>> : a \in {x \in assigned' : Stands(events', x)}}
NextMoment == moment < LastMoment /\ At(moment + 1)

Sit(d, c) == desk[d] = Vacant /\ desk' = [desk EXCEPT ![d] = c]
Rise(d) == desk' = [desk EXCEPT ![d] = Vacant]

-----------------------------------------------------------------------------
(* Assignments *)

SeedCanonicalRoles ==
    /\ seeded # Staffing /\ seeded' = Staffing
    /\ UNCHANGED <<assigned, events, desk, acts>> /\ NextMoment

\* assignRole looks for the row; one that exists is returned as it is, even
\* when it is revoked.
AssignRole(d, p, role) ==
    /\ role \in seeded /\ <<p, role>> \notin assigned
    /\ Sit(d, [pc |-> "assign", of |-> <<p, role>>])
    /\ UNCHANGED <<roleRows, acts>> /\ NextMoment

\* The insert; who loses it is given the winner's row.
InsertAssignment(d) ==
    /\ desk[d].pc = "assign"
    /\ assigned' = assigned \cup {desk[d].of}
    /\ Rise(d) /\ UNCHANGED <<seeded, events, acts>> /\ At(moment)

\* revokeRoleAssignment and reinstateRoleAssignment: `at` is the caller's
\* clock, read before the row is written, so rows may commit out of order.
RecordRoleAssignmentEvent(d, a, type) ==
    /\ a \in assigned
    /\ Sit(d, [pc |-> "record", event |-> [of |-> a, type |-> type, at |-> moment]])
    /\ UNCHANGED <<roleRows, acts>> /\ NextMoment

InsertEvent(d) ==
    /\ desk[d].pc = "record"
    /\ events' = events \cup {desk[d].event}
    /\ Rise(d) /\ UNCHANGED <<seeded, assigned, acts>> /\ At(moment)

\* Mutant: one reinstatement is enough.
IsActiveOnceReinstated(log) ==
    (\E e \in log : e.type = "revoked") => \E e \in log : e.type = "reinstated"

\* isRoleAssignmentActive, of one assignment's events: the newest decides.
IsRoleAssignmentActive(log) ==
    \A e \in log : (\A f \in log : f.at <= e.at) => e.type # "revoked"

-----------------------------------------------------------------------------
(* Acting *)

\* listActiveRoleHoldings reads the person's assignments first ...
ListRoles(d, p, kind, object, audited) ==
    /\ Sit(d, [pc |-> "read", person |-> p, kind |-> kind, object |-> object, audited |-> audited,
               rest |-> {a \in assigned : a[1] = p}, holdings |-> {}, from |-> moment + 1])
    /\ UNCHANGED <<roleRows, acts>> /\ NextMoment

\* ... and then the events of each.
ListActiveRoleHoldings(d) ==
    /\ desk[d].pc = "read"
    /\ \E a \in desk[d].rest :
         desk' = [desk EXCEPT ![d].rest = @ \ {a},
                    ![d].holdings = IF IsRoleAssignmentActive({e \in events : e.of = a})
                                    THEN @ \cup {a[2]} ELSE @]
    /\ UNCHANGED <<roleRows, acts>> /\ At(moment)

ViolatesMakerChecker(c) == c.kind.maker /\ MakerOf[c.object] = c.person
IsAudited(c) == c.kind.risky => c.audited

\* resolvePermission
ResolvePermission(c) == \E role \in c.holdings : c.kind.permission \in GrantsTo[role]

Authorize(c) == ~ViolatesMakerChecker(c) /\ IsAudited(c) /\ ResolvePermission(c)

\* The service decides, and goes on to its write.
Decide(d) ==
    /\ desk[d].pc = "read" /\ desk[d].rest = {}
    /\ acts' = IF Authorize(desk[d])
               THEN acts \cup {[of |-> desk[d], until |-> moment]} ELSE acts
    /\ Rise(d) /\ UNCHANGED roleRows /\ At(moment)

-----------------------------------------------------------------------------
RolesNext ==
    \/ SeedCanonicalRoles
    \/ \E d \in Desks :
         \/ \E p \in People, role \in Staffing : AssignRole(d, p, role)
         \/ \E a \in assigned, type \in {"revoked", "reinstated"} : RecordRoleAssignmentEvent(d, a, type)
         \/ \E p \in People, k \in Kinds, o \in Objects, audited \in BOOLEAN : ListRoles(d, p, k, o, audited)
         \/ InsertAssignment(d) \/ InsertEvent(d) \/ ListActiveRoleHoldings(d) \/ Decide(d)

RolesSpec == RolesInit /\ [][RolesNext]_rolesVars

-----------------------------------------------------------------------------
(* Properties *)

\* Whoever acted held, at some moment between asking and deciding, a role in
\* force that grants what was done, was not the maker of what was approved,
\* and left a reason where one is required: although roles are revoked and
\* reinstated between the reads, and their events arrive out of order
\* (authorize.ts, role-repository.ts listActiveRoleHoldings).
ActsUnderARole ==
    \A x \in acts :
        /\ \E role \in Staffing : \E m \in x.of.from..x.until :
             <<<<x.of.person, role>>, m>> \in inForce /\ x.of.kind.permission \in GrantsTo[role]
        /\ x.of.kind.maker => MakerOf[x.of.object] # x.of.person
        /\ x.of.kind.risky => x.of.audited

=============================================================================
