----------------------------- MODULE Curriculum -----------------------------
(***************************************************************************)
(* Programs, their curriculum versions and the learners enrolled in them   *)
(* (packages/db/src/program: curriculum-repository.ts,                     *)
(* curriculum-service.ts, enrollment-service.ts).                          *)
(*                                                                         *)
(* A version is a tree of tracks, stages, modules and placements of        *)
(* resource versions, assembled while it is a draft and published once.  A *)
(* learner's enrolment is pinned to the version that was current when it   *)
(* was first synced.  Each handler checks in reads of its own and then     *)
(* writes, so others run in between; nothing is locked.                    *)
(*                                                                         *)
(* Who is entitled to a program is decided by module Access; here it comes *)
(* and goes.  Titles and positions are left out; release rules, assets and *)
(* live sessions are module Learning.                                      *)
(***************************************************************************)
EXTENDS Naturals, FiniteSets, ProgramNames

CONSTANTS
    Programs,
    Numbers,     \* version numbers
    Tracks, Stages, Modules,  \* rows that may be created, as placements are
    Resources,   \* resource versions
    Staff,       \* requests that build a curriculum, at once
    Pages,       \* requests of learners, at once
    MaxSteps     \* bound on requests and on changes of entitlement

ASSUME CurriculumAssumption == Numbers \subseteq Nat /\ MaxSteps \in Nat

Versions == Programs \X Numbers

\* An absent row is none of the rows there may be.
ASSUME NoRowAssumption ==
    NoRow \notin Versions /\ NoRow \notin [pin : Versions \cup {NoRow}, primary : BOOLEAN]

Parts    == Tracks \cup Stages \cup Modules \cup Placements

VARIABLES
    steps,      \* how many inputs there have been
    version,    \* program_versions: absent, draft or published
    part,       \* rows of the tree, NoRow while absent
    archived,   \* modules archived
    resource,   \* resource_versions: absent, draft or published
    entitled,   \* <<learner, program>> with effective access
    enrolment,  \* program_enrollments, NoRow while absent
    job, page,  \* what each request of the staff, of a learner, is doing
    shown       \* <<learner, program, version>> a learner was shown (history)

tree == <<version, part, archived, resource>>
curriculumVars == <<steps, tree, entitled, enrolment, job, page, shown>>

NoJob == [pc |-> "idle"]
OneMoreStep == steps < MaxSteps /\ steps' = steps + 1

\* Rows of tracks, roadmap_stages and modules, and of resource_placements.
Track(v)         == [in |-> v]
RoadmapStage(t)  == [in |-> t]
Module(s)        == [in |-> s]
ResourcePlacement(m, k, needs) == [in |-> m, resource |-> k, needs |-> needs]

\* A row of program_enrollments.
Enrolment(pin) == [pin |-> pin, primary |-> FALSE]

CurriculumInit ==
    /\ steps = 0
    /\ version = [v \in Versions |-> "absent"]
    /\ part = [x \in Parts |-> NoRow]
    /\ archived = {}
    /\ resource = [k \in Resources |-> "absent"]
    /\ entitled = {}
    /\ enrolment = [l \in Learners |-> [p \in Programs |-> NoRow]]
    /\ job = [r \in Staff |-> NoJob]
    /\ page = [r \in Pages |-> NoJob]
    /\ shown = {}

Begin(r, c) ==
    /\ job[r] = NoJob /\ job' = [job EXCEPT ![r] = c]
    /\ OneMoreStep /\ UNCHANGED <<tree, entitled, enrolment, page, shown>>
End(r) == job' = [job EXCEPT ![r] = NoJob]

-----------------------------------------------------------------------------
(* Building a version *)

CreateProgramVersionDraft(v) ==
    /\ version[v] = "absent"
    /\ version' = [version EXCEPT ![v] = "draft"]
    /\ OneMoreStep /\ UNCHANGED <<part, archived, resource, entitled, enrolment, job, page, shown>>

AssertProgramVersionIsDraft(v) == version[v] = "draft"

DraftVersionIdForTrack(t) == part[t].in
DraftVersionIdForStage(s) == part[part[s].in].in
ModuleStageId(m) == part[m].in

CreateTrack(r, t, v) ==
    /\ AssertProgramVersionIsDraft(v)
    /\ Begin(r, [pc |-> "insert", id |-> t, row |-> Track(v)])

CreateRoadmapStage(r, s, t) ==
    /\ part[t] # NoRow /\ AssertProgramVersionIsDraft(DraftVersionIdForTrack(t))
    /\ Begin(r, [pc |-> "insert", id |-> s, row |-> RoadmapStage(t)])

CreateModule(r, m, s) ==
    /\ part[s] # NoRow /\ AssertProgramVersionIsDraft(DraftVersionIdForStage(s))
    /\ Begin(r, [pc |-> "insert", id |-> m, row |-> Module(s)])

\* Ids are drawn by the database: a prerequisite names an older placement.
CreateResourcePlacement(r, x, m, k, needs) ==
    /\ part[m] # NoRow /\ AssertProgramVersionIsDraft(DraftVersionIdForStage(ModuleStageId(m)))
    /\ resource[k] = "published"
    /\ \A y \in needs : part[y] # NoRow
    /\ Begin(r, [pc |-> "insert", id |-> x, row |-> ResourcePlacement(m, k, needs)])

\* The insert; a second one of the same code violates its unique key.
InsertPart(r) ==
    /\ job[r].pc = "insert"
    /\ part' = [part EXCEPT ![job[r].id] = IF @ = NoRow THEN job[r].row ELSE @]
    /\ End(r) /\ UNCHANGED <<steps, version, archived, resource, entitled, enrolment, page, shown>>

\* archiveModule: also in a version already published.
ArchiveModule(m) ==
    /\ part[m] # NoRow /\ m \notin archived
    /\ archived' = archived \cup {m}
    /\ OneMoreStep /\ UNCHANGED <<version, part, resource, entitled, enrolment, job, page, shown>>

CreateResourceVersion(k) ==
    /\ resource[k] = "absent" /\ resource' = [resource EXCEPT ![k] = "draft"]
    /\ OneMoreStep /\ UNCHANGED <<version, part, archived, entitled, enrolment, job, page, shown>>

PublishResourceVersion(k) ==
    /\ resource[k] = "draft" /\ resource' = [resource EXCEPT ![k] = "published"]
    /\ OneMoreStep /\ UNCHANGED <<version, part, archived, entitled, enrolment, job, page, shown>>

\* loadPlacementEdgesForVersion
PlacementsOf(v) ==
    {x \in Placements : part[x] # NoRow /\ DraftVersionIdForStage(ModuleStageId(part[x].in)) = v}

\* findCircularPrerequisite: following prerequisites within the version
\* comes back to where it started.
FindCircularPrerequisite(v) ==
    LET edges == {e \in PlacementsOf(v) \X PlacementsOf(v) : e[2] \in part[e[1]].needs}
        next(X) == {e[2] : e \in {d \in edges : d[1] \in X}}
        reached[n \in Nat] == IF n = 0 THEN [x \in PlacementsOf(v) |-> next({x})]
                              ELSE [x \in PlacementsOf(v) |->
                                      reached[n-1][x] \cup next(reached[n-1][x])]
    IN  \E x \in PlacementsOf(v) : x \in reached[Cardinality(Placements)][x]

\* publishProgramVersion: the graph is searched before the transaction ...
PublishProgramVersion(r, v) ==
    /\ version[v] # "absent" /\ ~FindCircularPrerequisite(v)
    /\ Begin(r, [pc |-> "publish", id |-> v])

\* ... which refuses a version that is no draft by then.
CommitPublish(r) ==
    /\ job[r].pc = "publish"
    /\ version' = [version EXCEPT ![job[r].id] = IF @ = "draft" THEN "published" ELSE @]
    /\ End(r) /\ UNCHANGED <<steps, part, archived, resource, entitled, enrolment, page, shown>>

-----------------------------------------------------------------------------
(* Enrolment *)

\* Access is granted or ends (module Access).
ChangeEntitlement(l, p) ==
    /\ entitled' = IF <<l, p>> \in entitled THEN entitled \ {<<l, p>>} ELSE entitled \cup {<<l, p>>}
    /\ OneMoreStep /\ UNCHANGED <<tree, enrolment, job, page, shown>>

\* findCurrentPublishedProgramVersion: the highest number published, or none.
FindCurrentPublishedProgramVersion(p, c) ==
    LET published == {n \in Numbers : version[<<p, n>>] = "published"}
    IN  \/ c = NoRow /\ published = {}
        \/ \E n \in published : c = <<p, n>> /\ \A m \in published : m <= n

\* syncProgramEnrollments, for one program the learner may view: the current
\* version is read ...
SyncProgramEnrollments(r, l, p) ==
    /\ page[r] = NoJob /\ <<l, p>> \in entitled
    /\ \E c \in Versions \cup {NoRow} :
         /\ FindCurrentPublishedProgramVersion(p, c)
         /\ page' = [page EXCEPT ![r] = [pc |-> "enrol", learner |-> l, program |-> p, current |-> c]]
    /\ OneMoreStep /\ UNCHANGED <<tree, entitled, enrolment, job, shown>>

\* ... the row inserted with it unless there is one ...
InsertEnrolment(r) ==
    LET c == page[r]
    IN  /\ c.pc = "enrol"
        /\ enrolment' = [enrolment EXCEPT ![c.learner][c.program] =
                            IF @ = NoRow THEN Enrolment(c.current) ELSE @]
        /\ page' = [page EXCEPT ![r] = IF c.current = NoRow THEN NoJob ELSE [c EXCEPT !.pc = "pin"]]
        /\ UNCHANGED <<steps, tree, entitled, job, shown>>

\* Mutant: the UPDATE has no `pinned_program_version_id IS NULL`.
PinNewest(r) ==
    LET c == page[r]
    IN  /\ c.pc = "pin"
        /\ enrolment' = [enrolment EXCEPT ![c.learner][c.program].pin = c.current]
        /\ page' = [page EXCEPT ![r] = NoJob]
        /\ UNCHANGED <<steps, tree, entitled, job, shown>>

\* ... and the pin set where there is none yet.
PinVersion(r) ==
    LET c == page[r]
    IN  /\ c.pc = "pin"
        /\ enrolment' = [enrolment EXCEPT ![c.learner][c.program].pin =
                            IF @ = NoRow THEN c.current ELSE @]
        /\ page' = [page EXCEPT ![r] = NoJob]
        /\ UNCHANGED <<steps, tree, entitled, job, shown>>

\* setPrimaryProgram at READ COMMITTED: it clears the choices it can see ...
SetPrimaryProgram(r, l, p) ==
    /\ page[r] = NoJob /\ enrolment[l][p] # NoRow
    /\ page' = [page EXCEPT ![r] = [pc |-> "choose", learner |-> l, program |-> p,
                 seen |-> {q \in Programs : enrolment[l][q] # NoRow /\ enrolment[l][q].primary}]]
    /\ OneMoreStep /\ UNCHANGED <<tree, entitled, enrolment, job, shown>>

\* ... and marks its own.
CommitPrimary(r) ==
    LET c == page[r]
        mine == enrolment[c.learner]
        chosen(q) == q = c.program \/ (mine[q].primary /\ q \notin c.seen)
    IN  /\ c.pc = "choose"
        /\ enrolment' = [enrolment EXCEPT ![c.learner] =
             [q \in Programs |-> IF mine[q] = NoRow THEN NoRow ELSE [mine[q] EXCEPT !.primary = chosen(q)]]]
        /\ page' = [page EXCEPT ![r] = NoJob]
        /\ UNCHANGED <<steps, tree, entitled, job, shown>>

\* getProgramCurriculum: the pinned version's modules that are not archived.
GetProgramCurriculum(l, p) ==
    /\ <<l, p>> \in entitled /\ enrolment[l][p] # NoRow /\ enrolment[l][p].pin # NoRow
    /\ shown' = shown \cup {<<l, p, enrolment[l][p].pin>>}
    /\ UNCHANGED <<steps, tree, entitled, enrolment, job, page>>

-----------------------------------------------------------------------------
StaffStep(r) ==
    \/ \E t \in Tracks, v \in Versions : CreateTrack(r, t, v)
    \/ \E s \in Stages, t \in Tracks : CreateRoadmapStage(r, s, t)
    \/ \E m \in Modules, s \in Stages : CreateModule(r, m, s)
    \/ \E x \in Placements, m \in Modules, k \in Resources, needs \in SUBSET Placements :
         CreateResourcePlacement(r, x, m, k, needs)
    \/ \E v \in Versions : PublishProgramVersion(r, v)
    \/ InsertPart(r) \/ CommitPublish(r)

LearnerStep(r) ==
    \/ \E l \in Learners, p \in Programs : SyncProgramEnrollments(r, l, p) \/ SetPrimaryProgram(r, l, p)
    \/ InsertEnrolment(r) \/ PinVersion(r) \/ CommitPrimary(r)

CurriculumNext ==
    \/ \E r \in Staff : StaffStep(r)
    \/ \E r \in Pages : LearnerStep(r)
    \/ \E v \in Versions : CreateProgramVersionDraft(v)
    \/ \E m \in Modules : ArchiveModule(m)
    \/ \E k \in Resources : CreateResourceVersion(k) \/ PublishResourceVersion(k)
    \/ \E l \in Learners, p \in Programs : ChangeEntitlement(l, p) \/ GetProgramCurriculum(l, p)

CurriculumSpec == CurriculumInit /\ [][CurriculumNext]_curriculumVars

-----------------------------------------------------------------------------
(* Properties *)

\* A learner is only ever shown one version of a program, a published one,
\* although newer versions are published, tabs sync at once with what they
\* read before, and access comes and goes (enrollment-service.ts
\* syncProgramEnrollments: an active enrolment is not silently moved).
ShownOneVersion ==
    /\ \A a, b \in shown : a[1] = b[1] /\ a[2] = b[2] => a[3] = b[3]
    /\ \A a \in shown : version[a[3]] = "published"

=============================================================================
