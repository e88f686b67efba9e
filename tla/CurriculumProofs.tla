-------------------------- MODULE CurriculumProofs --------------------------
(***************************************************************************)
(* Proofs about Curriculum and Learning, for any programs, versions,       *)
(* trees, sessions, items, staff, learners and requests at once, without a *)
(* bound on the steps.                                                     *)
(***************************************************************************)
EXTENDS Curriculum, Learning, TLAPS

(* Rows and requests, as far as the argument needs them. *)
Row == [pin : Versions \cup {NoRow}, primary : BOOLEAN]
Syncing == [pc : {"enrol", "pin"}, learner : Learners, program : Programs,
            current : Versions \cup {NoRow}]
Choosing == [pc : {"choose"}, learner : Learners, program : Programs, seen : SUBSET Programs]

VersionRows == version \in [Versions -> {"absent", "draft", "published"}]
EnrolmentRows == enrolment \in [Learners -> [Programs -> Row \cup {NoRow}]]
PageRequests == page \in [Pages -> {NoJob} \cup Syncing \cup Choosing]

(* What a sync read as the current version stays published while it runs,  *)
(* and the row it pins is there.                                           *)
SyncsPublished ==
  \A r \in Pages : page[r].pc \in {"enrol", "pin"} =>
    /\ page[r].current # NoRow => version[page[r].current] = "published"
    /\ page[r].pc = "pin" => /\ page[r].current # NoRow
                             /\ enrolment[page[r].learner][page[r].program] # NoRow

(* A pin is a published version. *)
PinsPublished ==
  \A l \in Learners, p \in Programs :
    enrolment[l][p] # NoRow /\ enrolment[l][p].pin # NoRow =>
      version[enrolment[l][p].pin] = "published"

(* What was shown is still what is pinned. *)
ShownIsPinned ==
  \A a \in shown :
    /\ a \in Learners \X Programs \X Versions
    /\ enrolment[a[1]][a[2]] # NoRow /\ enrolment[a[1]][a[2]].pin = a[3]

Inv == /\ VersionRows /\ EnrolmentRows /\ PageRequests
       /\ SyncsPublished /\ PinsPublished /\ ShownIsPinned

LEMMA RowIsRow == \A row \in Row : row # NoRow
BY NoRowAssumption DEF Row

LEMMA InitInv == CurriculumInit => Inv
BY DEF CurriculumInit, Inv, VersionRows, EnrolmentRows, PageRequests, SyncsPublished,
       PinsPublished, ShownIsPinned, NoJob

(* A step that leaves the enrolments and the pages' requests alone and     *)
(* unpublishes nothing. *)
LEMMA BuildingKeeps ==
  ASSUME Inv, UNCHANGED <<enrolment, page, shown>>, VersionRows',
         \A v \in Versions : version[v] = "published" => version'[v] = "published"
  PROVE  Inv'
<1>1. EnrolmentRows' /\ PageRequests'
  BY DEF Inv, EnrolmentRows, PageRequests
<1>2. SyncsPublished'
  BY DEF Inv, SyncsPublished, PageRequests, Syncing, Choosing, NoJob
<1>3. PinsPublished'
  BY DEF Inv, PinsPublished, EnrolmentRows, Row
<1>4. ShownIsPinned'
  BY DEF Inv, ShownIsPinned
<1> QED BY <1>1, <1>2, <1>3, <1>4 DEF Inv

LEMMA StaffStepKeeps ==
  ASSUME Inv, NEW r \in Staff, StaffStep(r)
  PROVE  Inv'
<1>1. CASE UNCHANGED version /\ UNCHANGED <<enrolment, page, shown>>
  BY <1>1, BuildingKeeps DEF Inv, VersionRows
<1>2. CASE CommitPublish(r)
  <2>1. version' = [version EXCEPT ![job[r].id] = IF @ = "draft" THEN "published" ELSE @]
        /\ UNCHANGED <<enrolment, page, shown>>
    BY <1>2 DEF CommitPublish
  <2>2. \A v \in Versions : version'[v] \in {version[v], "published"}
    BY <2>1 DEF Inv, VersionRows
  <2>3. VersionRows'
    BY <2>1, <2>2 DEF Inv, VersionRows
  <2> QED BY <2>1, <2>2, <2>3, BuildingKeeps
<1>3. StaffStep(r) => CommitPublish(r) \/ (UNCHANGED version /\ UNCHANGED <<enrolment, page, shown>>)
  BY DEF StaffStep, CreateTrack, CreateRoadmapStage, CreateModule, CreateResourcePlacement,
         PublishProgramVersion, InsertPart, Begin, tree
<1> QED BY <1>1, <1>2, <1>3

LEMMA SyncKeeps ==
  ASSUME Inv, NEW r \in Pages, NEW l \in Learners, NEW p \in Programs, SyncProgramEnrollments(r, l, p)
  PROVE  Inv'
<1>1. PICK c \in Versions \cup {NoRow} :
        /\ FindCurrentPublishedProgramVersion(p, c)
        /\ page' = [page EXCEPT ![r] = [pc |-> "enrol", learner |-> l, program |-> p, current |-> c]]
  BY DEF SyncProgramEnrollments
<1>2. UNCHANGED <<version, enrolment, shown>>
  BY DEF SyncProgramEnrollments, tree
<1>3. c # NoRow => version[c] = "published"
  BY <1>1 DEF FindCurrentPublishedProgramVersion
<1>4. VersionRows' /\ EnrolmentRows' /\ PinsPublished' /\ ShownIsPinned'
  BY <1>2 DEF Inv, VersionRows, EnrolmentRows, PinsPublished, ShownIsPinned
<1>5. PageRequests'
  BY <1>1 DEF Inv, PageRequests, Syncing
<1>6. SyncsPublished'
  BY <1>1, <1>2, <1>3 DEF Inv, SyncsPublished, PageRequests
<1> QED BY <1>4, <1>5, <1>6 DEF Inv

(* A step that only adds rows and fills empty pins, with published         *)
(* versions.                                                               *)
LEMMA PinningKeeps ==
  ASSUME Inv, UNCHANGED <<version, shown>>, EnrolmentRows', PageRequests', SyncsPublished',
         \A l \in Learners, p \in Programs : enrolment[l][p] # NoRow =>
           /\ enrolment'[l][p] # NoRow
           /\ enrolment[l][p].pin # NoRow => enrolment'[l][p].pin = enrolment[l][p].pin,
         PinsPublished'
  PROVE  Inv'
<1>1. VersionRows'
  BY DEF Inv, VersionRows
<1>2. ShownIsPinned'
  BY NoRowAssumption DEF Inv, ShownIsPinned
<1> QED BY <1>1, <1>2 DEF Inv

LEMMA InsertKeeps ==
  ASSUME Inv, NEW r \in Pages, InsertEnrolment(r)
  PROVE  Inv'
<1> DEFINE c == page[r]
<1>1. c.pc = "enrol" /\ c \in Syncing
  BY DEF InsertEnrolment, Inv, PageRequests, Choosing, NoJob
<1>2. c.learner \in Learners /\ c.program \in Programs /\ c.current \in Versions \cup {NoRow}
      /\ (c.current # NoRow => version[c.current] = "published")
  BY <1>1 DEF Inv, SyncsPublished, Syncing
<1>3. UNCHANGED <<version, shown>>
  BY DEF InsertEnrolment, tree
<1> DEFINE row == IF enrolment[c.learner][c.program] = NoRow THEN Enrolment(c.current)
                  ELSE enrolment[c.learner][c.program]
<1>4. row \in Row /\ row # NoRow
  <2>1. Enrolment(c.current) \in Row
    BY <1>2 DEF Enrolment, Row
  <2>2. enrolment[c.learner][c.program] \in Row \cup {NoRow}
    BY <1>2 DEF Inv, EnrolmentRows
  <2> QED BY <2>1, <2>2, RowIsRow
<1>5. enrolment' = [enrolment EXCEPT ![c.learner][c.program] = row]
  BY <1>1, <1>2 DEF InsertEnrolment, Inv, EnrolmentRows
<1>6. EnrolmentRows' /\ \A l \in Learners, p \in Programs :
        enrolment'[l][p] = IF l = c.learner /\ p = c.program THEN row ELSE enrolment[l][p]
  BY <1>2, <1>4, <1>5 DEF Inv, EnrolmentRows
<1>7. page' = [page EXCEPT ![r] = IF c.current = NoRow THEN NoJob ELSE [c EXCEPT !.pc = "pin"]]
  BY DEF InsertEnrolment
<1>8. PageRequests'
  BY <1>1, <1>7 DEF Inv, PageRequests, Syncing
<1>9. SyncsPublished'
  <2> SUFFICES ASSUME NEW s \in Pages, page'[s].pc \in {"enrol", "pin"}
               PROVE  /\ page'[s].current # NoRow => version'[page'[s].current] = "published"
                      /\ page'[s].pc = "pin" => /\ page'[s].current # NoRow
                                                /\ enrolment'[page'[s].learner][page'[s].program] # NoRow
    BY DEF SyncsPublished
  <2>1. CASE s = r
    <3>1. c.current # NoRow /\ page'[s] = [c EXCEPT !.pc = "pin"]
      BY <1>7, <2>1 DEF Inv, PageRequests, NoJob
    <3>2. page'[s].learner = c.learner /\ page'[s].program = c.program /\ page'[s].current = c.current
      BY <1>1, <3>1 DEF Syncing
    <3> QED BY <1>2, <1>3, <1>4, <1>6, <3>1, <3>2
  <2>2. CASE s # r
    <3>1. page'[s] = page[s] /\ page[s] \in Syncing
      BY <1>7, <2>2 DEF Inv, PageRequests, Choosing, NoJob
    <3>2. page[s].learner \in Learners /\ page[s].program \in Programs
      BY <3>1 DEF Syncing
    <3> QED BY <1>3, <1>4, <1>6, <3>1, <3>2 DEF Inv, SyncsPublished
  <2> QED BY <2>1, <2>2
<1>10. PinsPublished'
  <2>1. row.pin # NoRow => version[row.pin] = "published"
    BY <1>2 DEF Enrolment, Inv, PinsPublished
  <2> QED BY <1>3, <1>6, <2>1 DEF Inv, PinsPublished
<1>11. \A l \in Learners, p \in Programs : enrolment[l][p] # NoRow =>
           /\ enrolment'[l][p] # NoRow
           /\ enrolment[l][p].pin # NoRow => enrolment'[l][p].pin = enrolment[l][p].pin
  BY <1>4, <1>6
<1> QED BY <1>3, <1>6, <1>8, <1>9, <1>10, <1>11, PinningKeeps

LEMMA PinKeeps ==
  ASSUME Inv, NEW r \in Pages, PinVersion(r)
  PROVE  Inv'
<1> DEFINE c == page[r]
           old == enrolment[c.learner][c.program]
           row == [old EXCEPT !.pin = IF @ = NoRow THEN c.current ELSE @]
<1>1. c.pc = "pin" /\ c \in Syncing
  BY DEF PinVersion, Inv, PageRequests, Choosing, NoJob
<1>2. c.learner \in Learners /\ c.program \in Programs /\ c.current \in Versions
      /\ version[c.current] = "published" /\ old # NoRow
  BY <1>1 DEF Inv, SyncsPublished, Syncing
<1>3. old \in Row
  BY <1>2 DEF Inv, EnrolmentRows
<1>4. UNCHANGED <<version, shown>>
  BY DEF PinVersion, tree
<1>5. row \in Row /\ row # NoRow /\ row.pin = (IF old.pin = NoRow THEN c.current ELSE old.pin)
  BY <1>2, <1>3, RowIsRow DEF Row
<1>6. enrolment' = [enrolment EXCEPT ![c.learner][c.program] = row]
  BY <1>1, <1>2 DEF PinVersion, Inv, EnrolmentRows
<1>7. EnrolmentRows' /\ \A l \in Learners, p \in Programs :
        enrolment'[l][p] = IF l = c.learner /\ p = c.program THEN row ELSE enrolment[l][p]
  BY <1>2, <1>5, <1>6 DEF Inv, EnrolmentRows
<1>8. page' = [page EXCEPT ![r] = NoJob]
  BY DEF PinVersion
<1>9. PageRequests'
  BY <1>8 DEF Inv, PageRequests
<1>10. \A l \in Learners, p \in Programs : enrolment[l][p] # NoRow =>
           /\ enrolment'[l][p] # NoRow
           /\ enrolment[l][p].pin # NoRow => enrolment'[l][p].pin = enrolment[l][p].pin
  <2> HIDE DEF row
  <2> SUFFICES ASSUME NEW l \in Learners, NEW p \in Programs, enrolment[l][p] # NoRow
               PROVE  /\ enrolment'[l][p] # NoRow
                      /\ enrolment[l][p].pin # NoRow => enrolment'[l][p].pin = enrolment[l][p].pin
    OBVIOUS
  <2>1. CASE l = c.learner /\ p = c.program
    <3>1. enrolment'[l][p] = row /\ enrolment[l][p] = old
      BY <1>7, <2>1
    <3> QED BY <1>5, <3>1
  <2>2. CASE ~(l = c.learner /\ p = c.program)
    BY <1>7, <2>2
  <2> QED BY <2>1, <2>2
<1>11. SyncsPublished'
  <2> SUFFICES ASSUME NEW s \in Pages, page'[s].pc \in {"enrol", "pin"}
               PROVE  /\ page'[s].current # NoRow => version'[page'[s].current] = "published"
                      /\ page'[s].pc = "pin" => /\ page'[s].current # NoRow
                                                /\ enrolment'[page'[s].learner][page'[s].program] # NoRow
    BY DEF SyncsPublished
  <2>1. s # r
    BY <1>8 DEF NoJob, Inv, PageRequests
  <2>2. page'[s] = page[s] /\ page[s] \in Syncing
    BY <1>8, <2>1 DEF Inv, PageRequests, Choosing, NoJob
  <2>3. page[s].learner \in Learners /\ page[s].program \in Programs
    BY <2>2 DEF Syncing
  <2> QED BY <1>4, <1>10, <2>2, <2>3 DEF Inv, SyncsPublished
<1>12. PinsPublished'
  <2>1. row.pin # NoRow => version[row.pin] = "published"
    BY <1>2, <1>5 DEF Inv, PinsPublished
  <2> HIDE DEF row
  <2> SUFFICES ASSUME NEW l \in Learners, NEW p \in Programs,
                      enrolment'[l][p] # NoRow, enrolment'[l][p].pin # NoRow
               PROVE  version'[enrolment'[l][p].pin] = "published"
    BY DEF PinsPublished
  <2>2. enrolment'[l][p] = IF l = c.learner /\ p = c.program THEN row ELSE enrolment[l][p]
    BY <1>7
  <2>3. CASE l = c.learner /\ p = c.program
    BY <1>4, <2>1, <2>2, <2>3
  <2>4. CASE ~(l = c.learner /\ p = c.program)
    BY <1>4, <2>2, <2>4 DEF Inv, PinsPublished
  <2> QED BY <2>3, <2>4
<1> QED BY <1>4, <1>7, <1>9, <1>10, <1>11, <1>12, PinningKeeps

(* Marking a program as primary touches no pin. *)
LEMMA PrimaryKeeps ==
  ASSUME Inv, NEW r \in Pages, CommitPrimary(r)
  PROVE  Inv'
<1> DEFINE c == page[r]
           mine == enrolment[c.learner]
           chosen(q) == q = c.program \/ (mine[q].primary /\ q \notin c.seen)
<1>1. c \in Choosing
  BY DEF CommitPrimary, Inv, PageRequests, Syncing, NoJob
<1>2. c.learner \in Learners
  BY <1>1 DEF Choosing
<1>3. enrolment' = [enrolment EXCEPT ![c.learner] =
         [q \in Programs |-> IF mine[q] = NoRow THEN NoRow ELSE [mine[q] EXCEPT !.primary = chosen(q)]]]
      /\ page' = [page EXCEPT ![r] = NoJob] /\ UNCHANGED <<version, shown>>
  BY DEF CommitPrimary, tree
<1>4. \A q \in Programs : mine[q] # NoRow =>
        /\ [mine[q] EXCEPT !.primary = chosen(q)] \in Row
        /\ [mine[q] EXCEPT !.primary = chosen(q)].pin = mine[q].pin
  <2> SUFFICES ASSUME NEW q \in Programs, mine[q] # NoRow
               PROVE  /\ [mine[q] EXCEPT !.primary = chosen(q)] \in Row
                      /\ [mine[q] EXCEPT !.primary = chosen(q)].pin = mine[q].pin
    OBVIOUS
  <2>1. mine[q] \in Row
    BY <1>2 DEF Inv, EnrolmentRows
  <2>2. chosen(q) \in BOOLEAN
    BY <2>1 DEF Row
  <2> HIDE DEF chosen
  <2> QED BY <2>1, <2>2 DEF Row
<1> HIDE DEF chosen
<1>5. EnrolmentRows'
  BY <1>2, <1>3, <1>4 DEF Inv, EnrolmentRows
<1>6. \A l \in Learners, p \in Programs :
        IF enrolment[l][p] = NoRow THEN enrolment'[l][p] = NoRow
        ELSE enrolment'[l][p] # NoRow /\ enrolment'[l][p].pin = enrolment[l][p].pin
  BY <1>2, <1>3, <1>4, RowIsRow DEF Inv, EnrolmentRows
<1>7. PageRequests'
  BY <1>3 DEF Inv, PageRequests
<1>8. PinsPublished'
  BY <1>3, <1>6 DEF Inv, PinsPublished
<1>9. SyncsPublished'
  <2> SUFFICES ASSUME NEW s \in Pages, page'[s].pc \in {"enrol", "pin"}
               PROVE  /\ page'[s].current # NoRow => version'[page'[s].current] = "published"
                      /\ page'[s].pc = "pin" => /\ page'[s].current # NoRow
                                                /\ enrolment'[page'[s].learner][page'[s].program] # NoRow
    BY DEF SyncsPublished
  <2>1. s # r
    BY <1>3 DEF NoJob, Inv, PageRequests
  <2>2. page'[s] = page[s] /\ page[s] \in Syncing
    BY <1>3, <2>1 DEF Inv, PageRequests, Choosing, NoJob
  <2>3. page[s].learner \in Learners /\ page[s].program \in Programs
    BY <2>2 DEF Syncing
  <2>4. enrolment[page[s].learner][page[s].program] # NoRow
          => enrolment'[page[s].learner][page[s].program] # NoRow
    BY <1>6, <2>3
  <2>5. page[s].pc \in {"enrol", "pin"}
    BY <2>2 DEF Syncing
  <2>6. /\ page[s].current # NoRow => version[page[s].current] = "published"
        /\ page[s].pc = "pin" => /\ page[s].current # NoRow
                                 /\ enrolment[page[s].learner][page[s].program] # NoRow
    BY <2>5 DEF Inv, SyncsPublished
  <2>7. version' = version
    BY <1>3
  <2> QED BY <2>2, <2>4, <2>6, <2>7
<1> QED BY <1>3, <1>5, <1>6, <1>7, <1>8, <1>9, PinningKeeps

LEMMA SetPrimaryKeeps ==
  ASSUME Inv, NEW r \in Pages, NEW l \in Learners, NEW p \in Programs, SetPrimaryProgram(r, l, p)
  PROVE  Inv'
<1> DEFINE seen == {q \in Programs : enrolment[l][q] # NoRow /\ enrolment[l][q].primary}
           c == [pc |-> "choose", learner |-> l, program |-> p, seen |-> seen]
<1>1. page' = [page EXCEPT ![r] = c] /\ UNCHANGED <<version, enrolment, shown>>
  BY DEF SetPrimaryProgram, tree
<1>2. c \in Choosing
  BY DEF Choosing
<1>3. VersionRows' /\ EnrolmentRows' /\ PinsPublished' /\ ShownIsPinned'
  BY <1>1 DEF Inv, VersionRows, EnrolmentRows, PinsPublished, ShownIsPinned
<1>4. c.pc = "choose"
  OBVIOUS
<1> HIDE DEF c
<1>5. PageRequests'
  BY <1>1, <1>2 DEF Inv, PageRequests
<1>6. SyncsPublished'
  BY <1>1, <1>4 DEF Inv, SyncsPublished, PageRequests
<1> QED BY <1>3, <1>5, <1>6 DEF Inv

LEMMA ShowKeeps ==
  ASSUME Inv, NEW l \in Learners, NEW p \in Programs, GetProgramCurriculum(l, p)
  PROVE  Inv'
<1>1. UNCHANGED <<version, enrolment, page>>
      /\ enrolment[l][p] # NoRow /\ enrolment[l][p].pin # NoRow
      /\ shown' = shown \cup {<<l, p, enrolment[l][p].pin>>}
  BY DEF GetProgramCurriculum, tree
<1>2. enrolment[l][p].pin \in Versions
  BY <1>1 DEF Inv, EnrolmentRows, Row
<1>3. VersionRows' /\ EnrolmentRows' /\ PageRequests' /\ SyncsPublished' /\ PinsPublished'
  BY <1>1 DEF Inv, VersionRows, EnrolmentRows, PageRequests, SyncsPublished, PinsPublished
<1>4. ShownIsPinned'
  BY <1>1, <1>2 DEF Inv, ShownIsPinned
<1> QED BY <1>3, <1>4 DEF Inv

LEMMA NextKeeps ==
  ASSUME Inv, [CurriculumNext]_curriculumVars
  PROVE  Inv'
<1>1. CASE UNCHANGED curriculumVars
  BY <1>1, BuildingKeeps DEF curriculumVars, tree, Inv, VersionRows
<1>2. ASSUME NEW r \in Staff, StaffStep(r) PROVE Inv'
  BY <1>2, StaffStepKeeps
<1>3. ASSUME NEW r \in Pages, LearnerStep(r) PROVE Inv'
  BY <1>3, SyncKeeps, SetPrimaryKeeps, InsertKeeps, PinKeeps, PrimaryKeeps DEF LearnerStep
<1>4. ASSUME NEW v \in Versions, CreateProgramVersionDraft(v) PROVE Inv'
  <2>1. version[v] = "absent" /\ version' = [version EXCEPT ![v] = "draft"]
        /\ UNCHANGED <<enrolment, page, shown>>
    BY <1>4 DEF CreateProgramVersionDraft
  <2>2. VersionRows' /\ \A w \in Versions : version[w] = "published" => version'[w] = "published"
    BY <2>1 DEF Inv, VersionRows
  <2> QED BY <2>1, <2>2, BuildingKeeps
<1>5. ASSUME \/ \E m \in Modules : ArchiveModule(m)
             \/ \E k \in Resources : CreateResourceVersion(k) \/ PublishResourceVersion(k)
             \/ \E l \in Learners, p \in Programs : ChangeEntitlement(l, p)
      PROVE Inv'
  <2>1. UNCHANGED <<version, enrolment, page, shown>>
    BY <1>5 DEF ArchiveModule, CreateResourceVersion, PublishResourceVersion, ChangeEntitlement, tree
  <2> QED BY <2>1, BuildingKeeps DEF Inv, VersionRows
<1>6. ASSUME NEW l \in Learners, NEW p \in Programs, GetProgramCurriculum(l, p) PROVE Inv'
  BY <1>6, ShowKeeps
<1> QED BY <1>1, <1>2, <1>3, <1>4, <1>5, <1>6 DEF CurriculumNext

(* A learner is only ever shown one version of a program, a published one: *)
(* the pin of an enrolment, once set, never moves, and what it names is    *)
(* never unpublished.                                                      *)
THEOREM OneVersionIsShown == CurriculumSpec => []ShownOneVersion
<1>1. Inv => ShownOneVersion
  <2> SUFFICES ASSUME Inv PROVE ShownOneVersion
    OBVIOUS
  <2>1. ASSUME NEW a \in shown
        PROVE  /\ a[1] \in Learners /\ a[2] \in Programs /\ a[3] \in Versions
               /\ enrolment[a[1]][a[2]].pin = a[3] /\ version[a[3]] = "published"
    <3>1. /\ a[1] \in Learners /\ a[2] \in Programs /\ a[3] \in Versions
          /\ enrolment[a[1]][a[2]] # NoRow /\ enrolment[a[1]][a[2]].pin = a[3]
      BY DEF Inv, ShownIsPinned
    <3>2. a[3] # NoRow
      BY <3>1, NoRowAssumption
    <3> QED BY <3>1, <3>2 DEF Inv, PinsPublished
  <2>2. ASSUME NEW a \in shown, NEW b \in shown, a[1] = b[1], a[2] = b[2] PROVE a[3] = b[3]
    <3>1. enrolment[a[1]][a[2]].pin = a[3] /\ enrolment[b[1]][b[2]].pin = b[3]
      BY <2>1
    <3> QED BY <2>2, <3>1
  <2> QED BY <2>1, <2>2 DEF ShownOneVersion
<1> QED BY <1>1, InitInv, NextKeeps, PTL DEF CurriculumSpec

-----------------------------------------------------------------------------
(* Learning: what is handed out.                                           *)

SessionTable == session \in [LiveSessions -> LiveSessionRow \cup {NoRow}]

(* A session that may be joined has never been closed. *)
JoinableIsOpen ==
  \A s \in LiveSessions :
    session[s] # NoRow /\ IsLiveSessionJoinable(session[s].status) => session[s].closed = NoRow

(* What a reference says of its session, its learner and its lifetime.     *)
ReferenceTable ==
  /\ reference = [f \in References |-> reference[f]]
  /\ \A f \in References : reference[f] # NoRow =>
       /\ reference[f].kind \in {"asset", "join"} /\ reference[f].learner \in Learners
       /\ reference[f].issued \in Nat /\ reference[f].expires \in Nat
       /\ reference[f].expires <= reference[f].issued + Ttl
       /\ reference[f].kind = "join" => reference[f].of \in LiveSessions
                                         /\ session[reference[f].of] # NoRow

(* The session of a join was not closed before the moment t.               *)
NotClosedBefore(s, t) ==
  s \in LiveSessions /\ session[s] # NoRow
  /\ (session[s].closed = NoRow \/ session[s].closed >= t)

IssueFits(c) ==
  /\ c.learner \in Learners /\ c.at \in 0..now /\ c.kind \in {"asset", "join"}
  /\ c.kind = "join" => c.of \in LiveSessions /\ session[c.of] # NoRow
MoveFits(c) ==
  /\ c.of \in LiveSessions /\ session[c.of] # NoRow
  /\ c.pc = "reschedule" => c.starts \in Times
RedeemFits(c) ==
  /\ c.of \in References /\ reference[c.of] # NoRow
  /\ c.at \in 0..now /\ c.at < reference[c.of].expires
  /\ reference[c.of].kind = "join" /\ c.open => NotClosedBefore(reference[c.of].of, c.at)
Fits(c) ==
  /\ c.pc = "issue" => IssueFits(c)
  /\ c.pc \in {"reschedule", "cancel"} => MoveFits(c)
  /\ c.pc = "redeem" => RedeemFits(c)
RequestTable ==
  asking = [r \in Askers |-> asking[r]] /\ \A r \in Askers : Fits(asking[r])

(* Access in force was in force in every tick since it was given, up to    *)
(* its end.                                                                *)
AccessTable == access \in [Learners -> Nat \cup {NoRow}]
HeldSince(l, g) ==
  /\ g < access[l]
  /\ \A t \in g..now : t < access[l] => <<l, t>> \in held
AccessIsLogged == \A l \in Learners : access[l] # NoRow => \E g \in 0..now : HeldSince(l, g)

(* HandedOutUnderAccess of one hand-out. *)
HandedRightly(h) ==
  /\ h.at \in 0..now
  /\ \E t \in h.at..h.until : <<h.what.learner, t>> \in held
  /\ h.at < h.what.issued + Ttl
  /\ h.what.kind = "join" => NotClosedBefore(h.what.of, h.at)

LearningInv ==
  /\ now \in Nat /\ SessionTable /\ JoinableIsOpen /\ ReferenceTable /\ RequestTable
  /\ AccessTable /\ AccessIsLogged /\ \A h \in handed : HandedRightly(h)

LEMMA LearningInitInv == LearningInit => LearningInv
<1> SUFFICES ASSUME LearningInit PROVE LearningInv
  OBVIOUS
<1>1. now \in Nat /\ SessionTable /\ JoinableIsOpen /\ AccessTable /\ AccessIsLogged
  BY DEF LearningInit, SessionTable, JoinableIsOpen, AccessTable, AccessIsLogged
<1>2. ReferenceTable
  BY DEF LearningInit, ReferenceTable
<1>3. RequestTable
  BY DEF LearningInit, RequestTable, Fits, Unasked
<1> QED BY <1>1, <1>2, <1>3 DEF LearningInv, LearningInit

(* What a step does to a session that is there: it is closed and then not  *)
(* joinable, or neither its closing nor its being joinable changes.        *)
Advances(s) ==
  /\ session'[s] # NoRow
  /\ \/ /\ session'[s].closed = session[s].closed
        /\ IsLiveSessionJoinable(session'[s].status) => IsLiveSessionJoinable(session[s].status)
     \/ /\ session'[s].closed = (IF session[s].closed = NoRow THEN now ELSE session[s].closed)
        /\ ~IsLiveSessionJoinable(session'[s].status)
SessionsAdvance ==
  /\ SessionTable'
  /\ \A s \in LiveSessions : session[s] # NoRow => Advances(s)
  /\ \A s \in LiveSessions : session[s] = NoRow /\ session'[s] # NoRow => session'[s].closed = NoRow

LEMMA StillJoinableIsOpen ==
  ASSUME LearningInv, SessionsAdvance PROVE JoinableIsOpen'
BY DEF LearningInv, JoinableIsOpen, SessionsAdvance, Advances, IsLiveSessionJoinable

LEMMA SameSessions ==
  ASSUME LearningInv, UNCHANGED session PROVE SessionsAdvance
BY DEF LearningInv, SessionTable, SessionsAdvance, Advances, IsLiveSessionJoinable

LEMMA NewSession ==
  ASSUME NEW table \in [LiveSessions -> LiveSessionRow \cup {NoRow}],
         NEW s \in LiveSessions, table[s] = NoRow, NEW t \in Times, NEW from \in LiveSessions \cup {NoRow}
  PROVE  LET new == [table EXCEPT ![s] = LiveSession(t, from)]
         IN  /\ new \in [LiveSessions -> LiveSessionRow \cup {NoRow}]
             /\ \A x \in LiveSessions : new[x] = IF x = s THEN LiveSession(t, from) ELSE table[x]
<1>1. LiveSession(t, from) \in LiveSessionRow
  BY DEF LiveSession, LiveSessionRow
<1> QED BY <1>1

LEMMA ClosedSession ==
  ASSUME LearningInv, NEW s \in LiveSessions, session[s] # NoRow,
         NEW status \in {"rescheduled", "cancelled"}
  PROVE  LET new == UpdateLiveSessionStatus(session, s, status)
         IN  /\ new \in [LiveSessions -> LiveSessionRow \cup {NoRow}]
             /\ \A x \in LiveSessions : x # s => new[x] = session[x]
             /\ new[s] \in LiveSessionRow /\ new[s].status = status
             /\ new[s].closed = IF session[s].closed = NoRow THEN now ELSE session[s].closed
<1>1. session[s] \in LiveSessionRow /\ now \in Nat
  BY DEF LearningInv, SessionTable
<1> DEFINE row == [session[s] EXCEPT !.status = status,
                                     !.closed = IF @ = NoRow THEN now ELSE @]
<1>2. row \in LiveSessionRow /\ row.status = status
      /\ row.closed = IF session[s].closed = NoRow THEN now ELSE session[s].closed
  BY <1>1 DEF LiveSessionRow
<1>3. UpdateLiveSessionStatus(session, s, status) = [session EXCEPT ![s] = row]
  BY <1>1 DEF UpdateLiveSessionStatus, LearningInv, SessionTable, LiveSessionRow
<1> HIDE DEF row
<1> QED BY <1>2, <1>3 DEF LearningInv, SessionTable

LEMMA CreateAdvances ==
  ASSUME LearningInv, NEW s \in LiveSessions, NEW t \in Times, CreateLiveSession(s, t)
  PROVE  SessionsAdvance
<1>1. session[s] = NoRow /\ session' = [session EXCEPT ![s] = LiveSession(t, NoRow)]
  BY DEF CreateLiveSession, Unwritten
<1>2. /\ session' \in [LiveSessions -> LiveSessionRow \cup {NoRow}]
      /\ \A x \in LiveSessions : session'[x] = IF x = s THEN LiveSession(t, NoRow) ELSE session[x]
  BY <1>1, NewSession DEF LearningInv, SessionTable
<1>3. \A x \in LiveSessions : session[x] # NoRow => Advances(x)
  BY <1>1, <1>2 DEF Advances, IsLiveSessionJoinable
<1> QED BY <1>1, <1>2, <1>3 DEF SessionsAdvance, SessionTable, LiveSession

LEMMA CommitAdvances ==
  ASSUME LearningInv, NEW r \in Askers, CommitReschedule(r) \/ CommitCancel(r)
  PROVE  SessionsAdvance
<1> DEFINE c == asking[r]
<1>1. c.pc \in {"reschedule", "cancel"} /\ MoveFits(c)
  BY DEF CommitReschedule, CommitCancel, LearningInv, RequestTable, Fits
<1>2. c.of \in LiveSessions /\ session[c.of] # NoRow
  BY <1>1 DEF MoveFits
<1>3. CASE CommitCancel(r)
  <2>1. session' = UpdateLiveSessionStatus(session, c.of, "cancelled")
    BY <1>3 DEF CommitCancel
  <2>2. /\ session' \in [LiveSessions -> LiveSessionRow \cup {NoRow}]
        /\ \A x \in LiveSessions : x # c.of => session'[x] = session[x]
        /\ session'[c.of] \in LiveSessionRow /\ session'[c.of].status = "cancelled"
        /\ session'[c.of].closed = IF session[c.of].closed = NoRow THEN now ELSE session[c.of].closed
    BY <1>2, <2>1, ClosedSession
  <2>3. \A x \in LiveSessions : session[x] # NoRow => Advances(x)
    BY <2>2, LiveSessionRowAssumption DEF Advances, IsLiveSessionJoinable
  <2> QED BY <1>2, <2>2, <2>3 DEF SessionsAdvance, SessionTable
<1>4. CASE CommitReschedule(r)
  <2> DEFINE old == UpdateLiveSessionStatus(session, c.of, "rescheduled")
  <2>1. PICK new \in Unwritten(LiveSessions) : session' = [old EXCEPT ![new] = LiveSession(c.starts, c.of)]
    BY <1>4 DEF CommitReschedule
  <2>2. c.starts \in Times /\ new \in LiveSessions /\ session[new] = NoRow /\ new # c.of
    BY <1>1, <1>2, <1>4 DEF MoveFits, Unwritten, CommitReschedule
  <2>3. /\ old \in [LiveSessions -> LiveSessionRow \cup {NoRow}]
        /\ \A x \in LiveSessions : x # c.of => old[x] = session[x]
        /\ old[c.of] \in LiveSessionRow /\ old[c.of].status = "rescheduled"
        /\ old[c.of].closed = IF session[c.of].closed = NoRow THEN now ELSE session[c.of].closed
    BY <1>2, ClosedSession
  <2> HIDE DEF old
  <2>4. /\ session' \in [LiveSessions -> LiveSessionRow \cup {NoRow}]
        /\ \A x \in LiveSessions : session'[x] = IF x = new THEN LiveSession(c.starts, c.of) ELSE old[x]
    BY <1>2, <2>1, <2>2, <2>3, NewSession
  <2>5. \A x \in LiveSessions : session[x] # NoRow => Advances(x)
    BY <2>2, <2>3, <2>4, LiveSessionRowAssumption DEF Advances, IsLiveSessionJoinable
  <2> QED BY <1>2, <2>2, <2>3, <2>4, <2>5 DEF SessionsAdvance, SessionTable, LiveSession
<1> QED BY <1>3, <1>4

LEMMA LinkAdvances ==
  ASSUME LearningInv, NEW s \in LiveSessions, LinkRecording(s)
  PROVE  SessionsAdvance
<1> DEFINE row == [session[s] EXCEPT !.recorded = TRUE]
<1>1. session[s] \in LiveSessionRow
  BY DEF LinkRecording, Exists, LearningInv, SessionTable
<1>2. session' = [session EXCEPT ![s] = row]
  BY <1>1 DEF LinkRecording, LinkRecordingToLiveSession, LearningInv, SessionTable, LiveSessionRow
<1>3. row \in LiveSessionRow /\ row.status = session[s].status /\ row.closed = session[s].closed
  BY <1>1 DEF LiveSessionRow
<1> HIDE DEF row
<1>4. /\ session' \in [LiveSessions -> LiveSessionRow \cup {NoRow}]
      /\ \A x \in LiveSessions : session'[x] = IF x = s THEN row ELSE session[x]
  BY <1>2, <1>3 DEF LearningInv, SessionTable
<1>5. \A x \in LiveSessions : session[x] # NoRow => Advances(x)
  BY <1>1, <1>3, <1>4, LiveSessionRowAssumption DEF Advances, IsLiveSessionJoinable
<1> QED BY <1>1, <1>4, <1>5, LiveSessionRowAssumption DEF SessionsAdvance, SessionTable

LEMMA SessionsAlwaysAdvance ==
  ASSUME LearningInv, [LearningNext]_learningVars PROVE SessionsAdvance
<1>1. ASSUME UNCHANGED session PROVE SessionsAdvance
  BY <1>1, SameSessions
<1>2. ASSUME NEW s \in LiveSessions, TimetableStep(s) PROVE SessionsAdvance
  BY <1>1, <1>2, CreateAdvances, LinkAdvances
     DEF TimetableStep, ScheduleReminder, CheckInToLiveSession, CheckOutOfLiveSession
<1>3. ASSUME NEW r \in Askers, LearningStep(r) PROVE SessionsAdvance
  <2>1. CommitReschedule(r) \/ CommitCancel(r) \/ UNCHANGED session
    BY <1>3 DEF LearningStep, RequestAssetDelivery, RequestLiveSessionJoin, RescheduleLiveSession,
                CancelLiveSession, RedeemDelivery, RedeemJoin, IssueDeliveryReference,
                IssueJoinReference, Issued, ResolveAssetDelivery, ResolveLiveSessionJoin, HandOut,
                Refuse, Ask, timetable
  <2> QED BY <1>1, <2>1, CommitAdvances
<1>4. ASSUME NEW p \in Placements, ContentStep(p) PROVE SessionsAdvance
  BY <1>1, <1>4 DEF ContentStep, Publish, timetable
<1> QED
  BY <1>1, <1>2, <1>3, <1>4
     DEF LearningNext, learningVars, timetable, RevokeAccess, GiveAccess, LearningTick

(* Access *)

LEMMA AccessStays ==
  ASSUME LearningInv, [LearningNext]_learningVars
  PROVE  /\ AccessTable' /\ AccessIsLogged' /\ now' \in Nat /\ now <= now' /\ held \subseteq held'
<1>1. ASSUME UNCHANGED <<now, access, held>>
      PROVE  /\ AccessTable' /\ AccessIsLogged' /\ now' \in Nat /\ now <= now' /\ held \subseteq held'
  BY <1>1 DEF LearningInv, AccessTable, AccessIsLogged, HeldSince
<1>2. ASSUME NEW l \in Learners, NEW end \in Times \cup {Forever}, GiveAccess(l, end)
      PROVE  /\ AccessTable' /\ AccessIsLogged' /\ now' \in Nat /\ now <= now' /\ held \subseteq held'
  <2>1. end \in Nat /\ now < end /\ now \in Nat
    BY <1>2, LearningAssumption DEF GiveAccess, Times, Forever, LearningInv
  <2>2. now' = now /\ access' = [access EXCEPT ![l] = end] /\ held' = held \cup {<<l, now>>}
    BY <1>2 DEF GiveAccess
  <2>3. AccessTable' /\ access'[l] = end /\ \A x \in Learners : x # l => access'[x] = access[x]
    BY <2>1, <2>2 DEF LearningInv, AccessTable
  <2>4. ASSUME NEW x \in Learners, access'[x] # NoRow
        PROVE  \E g \in 0..now' : HeldSince(x, g)'
    <3>1. CASE x = l
      <4>1. HeldSince(l, now)'
        BY <2>1, <2>2, <2>3 DEF HeldSince
      <4> QED BY <2>1, <2>2, <3>1, <4>1
    <3>2. CASE x # l
      <4>1. PICK g \in 0..now : HeldSince(x, g)
        BY <2>3, <2>4, <3>2 DEF LearningInv, AccessIsLogged
      <4>2. HeldSince(x, g)'
        BY <2>2, <2>3, <3>2, <4>1 DEF HeldSince
      <4> QED BY <2>2, <4>1, <4>2
    <3> QED BY <3>1, <3>2
  <2> QED BY <2>1, <2>2, <2>3, <2>4 DEF AccessIsLogged
<1>3. ASSUME NEW l \in Learners, RevokeAccess(l)
      PROVE  /\ AccessTable' /\ AccessIsLogged' /\ now' \in Nat /\ now <= now' /\ held \subseteq held'
  <2>1. /\ now' = now /\ held' = held /\ now \in Nat /\ AccessTable'
        /\ \A x \in Learners : access'[x] # NoRow => access'[x] = access[x]
    BY <1>3 DEF RevokeAccess, LearningInv, AccessTable
  <2>2. AccessIsLogged'
    BY <2>1 DEF LearningInv, AccessIsLogged, HeldSince
  <2> QED BY <2>1, <2>2
<1>4. ASSUME LearningTick
      PROVE  /\ AccessTable' /\ AccessIsLogged' /\ now' \in Nat /\ now <= now' /\ held \subseteq held'
  <2>1. /\ now' = now + 1 /\ access' = access /\ now \in Nat /\ AccessTable' /\ held \subseteq held'
        /\ \A l \in Learners : Allowed(l, now + 1) => <<l, now + 1>> \in held'
    BY <1>4 DEF LearningTick, LearningInv, AccessTable
  <2>2. ASSUME NEW l \in Learners, access'[l] # NoRow
        PROVE  \E g \in 0..now' : HeldSince(l, g)'
    <3>1. PICK g \in 0..now : HeldSince(l, g)
      BY <2>1, <2>2 DEF LearningInv, AccessIsLogged
    <3>2. ASSUME NEW t \in g..(now + 1), t < access[l] PROVE <<l, t>> \in held'
      <4>1. CASE t \in g..now
        BY <2>1, <3>1, <3>2, <4>1 DEF HeldSince
      <4>2. CASE t = now + 1
        BY <2>1, <2>2, <3>2, <4>2 DEF Allowed
      <4> QED BY <2>1, <4>1, <4>2
    <3>3. HeldSince(l, g)'
      BY <2>1, <3>1, <3>2 DEF HeldSince
    <3> QED BY <2>1, <3>1, <3>3
  <2> QED BY <2>1, <2>2 DEF AccessIsLogged
<1>5. ASSUME NEW s \in LiveSessions, TimetableStep(s) PROVE UNCHANGED <<now, access, held>>
  BY <1>5 DEF TimetableStep, ScheduleReminder, CheckInToLiveSession, CheckOutOfLiveSession,
              CreateLiveSession, LinkRecording
<1>6. ASSUME NEW r \in Askers, LearningStep(r) PROVE UNCHANGED <<now, access, held>>
  BY <1>6 DEF LearningStep, RequestAssetDelivery, RequestLiveSessionJoin, RescheduleLiveSession,
              CancelLiveSession, RedeemDelivery, RedeemJoin, IssueDeliveryReference,
              IssueJoinReference, Issued, ResolveAssetDelivery, ResolveLiveSessionJoin, HandOut,
              Refuse, Ask, CommitReschedule, CommitCancel
<1>7. ASSUME NEW p \in Placements, ContentStep(p) PROVE UNCHANGED <<now, access, held>>
  BY <1>7 DEF ContentStep, Publish
<1>8. CASE UNCHANGED learningVars
  BY <1>1, <1>8 DEF learningVars
<1> QED BY <1>1, <1>2, <1>3, <1>4, <1>5, <1>6, <1>7, <1>8 DEF LearningNext

(* References *)

ReferencesStay == \A f \in References : reference[f] # NoRow => reference'[f] = reference[f]

LEMMA SameReferences ==
  ASSUME LearningInv, SessionsAdvance, UNCHANGED reference
  PROVE  ReferenceTable' /\ ReferencesStay
BY DEF LearningInv, ReferenceTable, SessionsAdvance, Advances, ReferencesStay

LEMMA InsertedReference ==
  ASSUME LearningInv, SessionsAdvance, NEW f \in References, NEW row, Insert(f, row),
         row.kind \in {"asset", "join"}, row.learner \in Learners,
         row.issued \in Nat, row.expires \in Nat, row.expires <= row.issued + Ttl,
         row.kind = "join" => row.of \in LiveSessions /\ session[row.of] # NoRow
  PROVE  ReferenceTable' /\ ReferencesStay
<1>1. reference[f] = NoRow /\ reference' = [reference EXCEPT ![f] = row]
  BY DEF Insert
<1>2. /\ reference = [g \in References |-> reference[g]]
      /\ reference' = [g \in References |-> reference'[g]]
      /\ \A g \in References : reference'[g] = IF g = f THEN row ELSE reference[g]
  BY <1>1 DEF LearningInv, ReferenceTable
<1>3. ReferencesStay
  BY <1>1, <1>2 DEF ReferencesStay
<1>4. \A s \in LiveSessions : session[s] # NoRow => session'[s] # NoRow
  BY DEF SessionsAdvance, Advances
<1>5. ReferenceTable'
  BY <1>2, <1>4 DEF LearningInv, ReferenceTable
<1> QED BY <1>3, <1>5

(* A reference expires within its lifetime. *)
LEMMA ExpiryIsBounded ==
  ASSUME LearningInv, NEW l \in Learners, NEW t \in Nat
  PROVE  LET expires == ComputeDeliveryExpiry(t, EffectiveTo(l, t))
         IN  expires \in Nat /\ expires <= t + Ttl
<1>1. EffectiveTo(l, t) \in Nat
  BY LearningAssumption DEF EffectiveTo, Allowed, Forever, LearningInv, AccessTable
<1> QED BY <1>1, LearningAssumption DEF ComputeDeliveryExpiry

LEMMA IssueStays ==
  ASSUME LearningInv, SessionsAdvance, NEW r \in Askers,
         IssueDeliveryReference(r) \/ IssueJoinReference(r)
  PROVE  ReferenceTable' /\ ReferencesStay
<1> DEFINE c == asking[r]
<1>1. c.pc = "issue" /\ IssueFits(c)
  BY DEF IssueDeliveryReference, IssueJoinReference, LearningInv, RequestTable, Fits
<1>2. c.learner \in Learners /\ c.at \in Nat
      /\ (c.kind = "join" => c.of \in LiveSessions /\ session[c.of] # NoRow)
  BY <1>1 DEF IssueFits, LearningInv
<1>3. Expiry(c) \in Nat /\ Expiry(c) <= c.at + Ttl
  BY <1>2, ExpiryIsBounded DEF Expiry
<1>4. CASE IssueDeliveryReference(r)
  <2>1. PICK f \in References :
          Insert(f, DeliveryReference(c.of, c.file, c.learner, c.at, Expiry(c)))
    BY <1>4 DEF IssueDeliveryReference, CreateDeliveryReference
  <2> DEFINE row == DeliveryReference(c.of, c.file, c.learner, c.at, Expiry(c))
  <2>2. row.kind = "asset" /\ row.learner = c.learner /\ row.issued = c.at /\ row.expires = Expiry(c)
    BY DEF DeliveryReference
  <2> HIDE DEF row
  <2> QED BY <1>2, <1>3, <2>1, <2>2, InsertedReference DEF row
<1>5. CASE IssueJoinReference(r)
  <2>1. PICK f \in References : Insert(f, JoinReference(c.of, c.learner, c.at, Expiry(c)))
    BY <1>5 DEF IssueJoinReference, CreateJoinReference
  <2> DEFINE row == JoinReference(c.of, c.learner, c.at, Expiry(c))
  <2>2. /\ row.kind = "join" /\ row.learner = c.learner /\ row.issued = c.at /\ row.expires = Expiry(c)
        /\ row.of = c.of /\ c.kind = "join"
    BY <1>5 DEF JoinReference, IssueJoinReference
  <2> HIDE DEF row
  <2> QED BY <1>2, <1>3, <2>1, <2>2, InsertedReference DEF row
<1> QED BY <1>4, <1>5

LEMMA ReferencesAlwaysStay ==
  ASSUME LearningInv, [LearningNext]_learningVars
  PROVE  ReferenceTable' /\ ReferencesStay
<1>1. SessionsAdvance
  BY SessionsAlwaysAdvance
<1>2. ASSUME UNCHANGED reference PROVE ReferenceTable' /\ ReferencesStay
  BY <1>1, <1>2, SameReferences
<1>3. ASSUME NEW r \in Askers, LearningStep(r) PROVE ReferenceTable' /\ ReferencesStay
  <2>1. IssueDeliveryReference(r) \/ IssueJoinReference(r) \/ UNCHANGED reference
    BY <1>3 DEF LearningStep, RequestAssetDelivery, RequestLiveSessionJoin, RescheduleLiveSession,
                CancelLiveSession, RedeemDelivery, RedeemJoin, ResolveAssetDelivery,
                ResolveLiveSessionJoin, HandOut, Refuse, Ask, CommitReschedule, CommitCancel
  <2> QED BY <1>1, <1>2, <2>1, IssueStays
<1>4. ASSUME NEW s \in LiveSessions, TimetableStep(s) PROVE UNCHANGED reference
  BY <1>4 DEF TimetableStep, ScheduleReminder, CheckInToLiveSession, CheckOutOfLiveSession,
              CreateLiveSession, LinkRecording
<1>5. ASSUME NEW p \in Placements, ContentStep(p) PROVE UNCHANGED reference
  BY <1>5 DEF ContentStep, Publish
<1> QED
  BY <1>2, <1>3, <1>4, <1>5 DEF LearningNext, learningVars, RevokeAccess, GiveAccess, LearningTick

(* Requests *)

LEMMA NotClosedStays ==
  ASSUME LearningInv, SessionsAdvance, NEW s, NEW t \in Nat, t <= now, NotClosedBefore(s, t)
  PROVE  NotClosedBefore(s, t)'
BY DEF NotClosedBefore, SessionsAdvance, Advances, LearningInv

LEMMA RequestStays ==
  ASSUME LearningInv, SessionsAdvance, ReferencesStay, now' \in Nat, now <= now',
         NEW r \in Askers, asking'[r] = asking[r]
  PROVE  Fits(asking[r])'
<1> DEFINE c == asking[r]
<1>1. Fits(c)
  BY DEF LearningInv, RequestTable
<1>2. \A s \in LiveSessions : session[s] # NoRow => session'[s] # NoRow
  BY DEF SessionsAdvance, Advances
<1>3. c.pc = "issue" => IssueFits(asking[r])'
  BY <1>1, <1>2 DEF Fits, IssueFits, LearningInv
<1>4. c.pc \in {"reschedule", "cancel"} => MoveFits(asking[r])'
  BY <1>1, <1>2 DEF Fits, MoveFits
<1>5. c.pc = "redeem" => RedeemFits(asking[r])'
  <2> SUFFICES ASSUME c.pc = "redeem" PROVE RedeemFits(asking[r])'
    OBVIOUS
  <2>1. RedeemFits(c) /\ reference'[c.of] = reference[c.of] /\ now \in Nat
    BY <1>1 DEF Fits, RedeemFits, ReferencesStay, LearningInv
  <2>2. reference[c.of].kind = "join" /\ c.open => NotClosedBefore(reference[c.of].of, c.at)
    BY <2>1 DEF RedeemFits
  <2>3. c.at \in Nat /\ c.at <= now
    BY <2>1 DEF RedeemFits
  <2>4. ASSUME reference[c.of].kind = "join", c.open
        PROVE  NotClosedBefore(reference[c.of].of, c.at)'
    BY <2>1, <2>2, <2>3, <2>4 DEF NotClosedBefore, SessionsAdvance, Advances
  <2> QED BY <2>1, <2>4 DEF RedeemFits
<1> QED BY <1>3, <1>4, <1>5 DEF Fits

(* All but one request stay as they are, and that one is well formed.      *)
LEMMA OneRequestChanges ==
  ASSUME LearningInv, SessionsAdvance, ReferencesStay, now' \in Nat, now <= now',
         NEW r \in Askers, NEW c, asking' = [asking EXCEPT ![r] = c], Fits(asking[r])'
  PROVE  RequestTable'
<1>1. asking' = [s \in Askers |-> asking'[s]] /\ \A s \in Askers : s # r => asking'[s] = asking[s]
  BY DEF LearningInv, RequestTable
<1>2. \A s \in Askers : s # r => Fits(asking[s])'
  BY <1>1, RequestStays
<1> QED BY <1>1, <1>2 DEF RequestTable

LEMMA LeaveFits ==
  ASSUME LearningInv, SessionsAdvance, ReferencesStay, now' \in Nat, now <= now',
         NEW r \in Askers, Leave(r)
  PROVE  RequestTable'
<1>1. asking' = [asking EXCEPT ![r] = Unasked] /\ asking'[r] = Unasked
  BY DEF Leave, LearningInv, RequestTable
<1>2. Fits(asking[r])'
  BY <1>1 DEF Fits, Unasked
<1> QED BY <1>1, <1>2, OneRequestChanges

LEMMA AskFits ==
  ASSUME LearningInv, SessionsAdvance, ReferencesStay, NEW r \in Askers, NEW c, Ask(r, c), Fits(c)
  PROVE  RequestTable'
<1>1. /\ asking' = [asking EXCEPT ![r] = c] /\ asking'[r] = c
      /\ UNCHANGED <<now, session, reference>> /\ now \in Nat
  BY DEF Ask, timetable, LearningInv, RequestTable
<1>2. Fits(asking[r])'
  BY <1>1 DEF Fits, IssueFits, MoveFits, RedeemFits, NotClosedBefore
<1>3. now' \in Nat /\ now <= now'
  BY <1>1
<1> QED BY <1>1, <1>2, <1>3, OneRequestChanges

LEMMA AskingFits ==
  ASSUME LearningInv, SessionsAdvance, ReferencesStay, NEW r \in Askers,
         \/ \E l \in Learners : \/ \E p \in Placements : RequestAssetDelivery(r, l, p)
                                \/ \E s \in LiveSessions : RequestLiveSessionJoin(r, l, s)
         \/ \E s \in LiveSessions :
              (\E t \in Times : RescheduleLiveSession(r, s, t)) \/ CancelLiveSession(r, s)
         \/ \E f \in References : RedeemDelivery(r, f) \/ RedeemJoin(r, f)
  PROVE  RequestTable'
<1>1. now \in Nat /\ now \in 0..now
  BY DEF LearningInv
<1>2. ASSUME NEW l \in Learners, NEW p \in Placements, RequestAssetDelivery(r, l, p)
      PROVE  RequestTable'
  <2> DEFINE c == [pc |-> "issue", kind |-> "asset", of |-> p, file |-> FileOf(p),
                   learner |-> l, at |-> now]
  <2>1. Ask(r, c)
    BY <1>2 DEF RequestAssetDelivery
  <2>2. Fits(c)
    BY <1>1 DEF Fits, IssueFits
  <2> QED BY <2>1, <2>2, AskFits
<1>3. ASSUME NEW l \in Learners, NEW s \in LiveSessions, RequestLiveSessionJoin(r, l, s)
      PROVE  RequestTable'
  <2> DEFINE c == [pc |-> "issue", kind |-> "join", of |-> s, file |-> NoRow, learner |-> l, at |-> now]
  <2>1. Ask(r, c) /\ session[s] # NoRow
    BY <1>3 DEF RequestLiveSessionJoin, Exists
  <2>2. Fits(c)
    BY <1>1, <2>1 DEF Fits, IssueFits
  <2> QED BY <2>1, <2>2, AskFits
<1>4. ASSUME NEW s \in LiveSessions, NEW t \in Times, RescheduleLiveSession(r, s, t)
      PROVE  RequestTable'
  <2> DEFINE c == [pc |-> "reschedule", of |-> s, starts |-> t]
  <2>1. Ask(r, c) /\ session[s] # NoRow
    BY <1>4 DEF RescheduleLiveSession, Exists
  <2>2. Fits(c)
    BY <2>1 DEF Fits, MoveFits
  <2> QED BY <2>1, <2>2, AskFits
<1>5. ASSUME NEW s \in LiveSessions, CancelLiveSession(r, s)
      PROVE  RequestTable'
  <2> DEFINE c == [pc |-> "cancel", of |-> s]
  <2>1. Ask(r, c) /\ session[s] # NoRow
    BY <1>5 DEF CancelLiveSession, Exists
  <2>2. Fits(c)
    BY <2>1 DEF Fits, MoveFits
  <2> QED BY <2>1, <2>2, AskFits
<1>6. ASSUME NEW f \in References, RedeemDelivery(r, f)
      PROVE  RequestTable'
  <2> DEFINE c == [pc |-> "redeem", of |-> f, at |-> now, open |-> TRUE]
  <2>1. Ask(r, c) /\ reference[f] # NoRow /\ reference[f].kind = "asset" /\ now < reference[f].expires
    BY <1>6 DEF RedeemDelivery, FindDeliveryReference, ReferenceIsValid
  <2>2. Fits(c)
    BY <1>1, <2>1 DEF Fits, RedeemFits
  <2> QED BY <2>1, <2>2, AskFits
<1>7. ASSUME NEW f \in References, RedeemJoin(r, f)
      PROVE  RequestTable'
  <2> DEFINE joinable == IsLiveSessionJoinable(session[reference[f].of].status)
             c == [pc |-> "redeem", of |-> f, at |-> now, open |-> joinable]
  <2>1. Ask(r, c) /\ reference[f] # NoRow /\ reference[f].kind = "join" /\ now < reference[f].expires
    BY <1>7 DEF RedeemJoin, FindJoinReference, ReferenceIsValid
  <2>2. reference[f].of \in LiveSessions /\ session[reference[f].of] # NoRow
    BY <2>1 DEF LearningInv, ReferenceTable
  <2>3. joinable => NotClosedBefore(reference[f].of, now)
    BY <2>2 DEF NotClosedBefore, LearningInv, JoinableIsOpen
  <2> HIDE DEF joinable
  <2>4. Fits(c)
    BY <1>1, <2>1, <2>3 DEF Fits, RedeemFits
  <2> QED BY <2>1, <2>4, AskFits
<1> QED BY <1>2, <1>3, <1>4, <1>5, <1>6, <1>7

LEMMA RequestsAlwaysFit ==
  ASSUME LearningInv, [LearningNext]_learningVars PROVE RequestTable'
<1>1. SessionsAdvance /\ ReferencesStay /\ now' \in Nat /\ now <= now'
  BY SessionsAlwaysAdvance, ReferencesAlwaysStay, AccessStays
<1>2. ASSUME UNCHANGED asking PROVE RequestTable'
  <2>1. \A r \in Askers : Fits(asking[r])'
    BY <1>1, <1>2, RequestStays
  <2> QED BY <1>2, <2>1 DEF RequestTable, LearningInv
<1>3. ASSUME NEW r \in Askers, LearningStep(r) PROVE RequestTable'
  <2>1. CASE \/ CommitReschedule(r) \/ CommitCancel(r) \/ Refuse(r)
             \/ IssueDeliveryReference(r) \/ IssueJoinReference(r)
             \/ ResolveAssetDelivery(r) \/ ResolveLiveSessionJoin(r)
    <3>1. Leave(r)
      BY <2>1 DEF CommitReschedule, CommitCancel, Refuse, IssueDeliveryReference, IssueJoinReference,
                  Issued, ResolveAssetDelivery, ResolveLiveSessionJoin, HandOut
    <3> QED BY <1>1, <3>1, LeaveFits
  <2> QED BY <1>1, <1>3, <2>1, AskingFits DEF LearningStep
<1>4. ASSUME NEW s \in LiveSessions, TimetableStep(s) PROVE UNCHANGED asking
  BY <1>4 DEF TimetableStep, ScheduleReminder, CheckInToLiveSession, CheckOutOfLiveSession,
              CreateLiveSession, LinkRecording
<1>5. ASSUME NEW p \in Placements, ContentStep(p) PROVE UNCHANGED asking
  BY <1>5 DEF ContentStep, Publish
<1> QED
  BY <1>2, <1>3, <1>4, <1>5 DEF LearningNext, learningVars, RevokeAccess, GiveAccess, LearningTick

(* What is handed out *)

(* Access that is in force at a moment of a redemption was in force in one *)
(* of its ticks: the one it arrived in, or the one access was given in.    *)
LEMMA ResolvedRightly ==
  ASSUME LearningInv, NEW r \in Askers, ResolveAssetDelivery(r) \/ ResolveLiveSessionJoin(r)
  PROVE  HandedRightly([what |-> reference[asking[r].of], at |-> asking[r].at, until |-> now])
<1> DEFINE c == asking[r]
           f == reference[c.of]
<1>1. c.pc = "redeem" /\ AssertProgramAccess(f.learner, c.at)
  BY DEF ResolveAssetDelivery, ResolveLiveSessionJoin
<1>2. RedeemFits(c)
  BY <1>1 DEF LearningInv, RequestTable, Fits
<1>3. c.of \in References /\ f # NoRow /\ c.at \in Nat /\ c.at <= now /\ now \in Nat
      /\ c.at < f.expires
  BY <1>2 DEF RedeemFits, LearningInv
<1>4. f.learner \in Learners /\ f.expires \in Nat /\ f.issued \in Nat /\ f.expires <= f.issued + Ttl
  BY <1>3 DEF LearningInv, ReferenceTable
<1>5. c.at < f.issued + Ttl
  BY <1>3, <1>4, LearningAssumption
<1>6. access[f.learner] # NoRow /\ c.at < access[f.learner]
  BY <1>1 DEF AssertProgramAccess, Allowed
<1>7. PICK g \in 0..now : HeldSince(f.learner, g)
  BY <1>4, <1>6 DEF LearningInv, AccessIsLogged
<1>8. \E t \in c.at..now : <<f.learner, t>> \in held
  <2>1. CASE g <= c.at
    <3>1. c.at \in g..now /\ c.at \in c.at..now
      BY <1>3, <2>1
    <3>2. <<f.learner, c.at>> \in held
      BY <1>6, <1>7, <3>1 DEF HeldSince
    <3> QED BY <3>1, <3>2
  <2>2. CASE c.at < g
    <3>1. g \in g..now /\ g \in c.at..now
      BY <1>3, <1>7, <2>2
    <3>2. <<f.learner, g>> \in held
      BY <1>7, <3>1 DEF HeldSince
    <3> QED BY <3>1, <3>2
  <2> QED BY <1>3, <1>7, <2>1, <2>2
<1>9. f.kind = "join" => NotClosedBefore(f.of, c.at)
  BY <1>2 DEF RedeemFits, ResolveAssetDelivery, ResolveLiveSessionJoin
<1> HIDE DEF c, f
<1> QED BY <1>3, <1>5, <1>8, <1>9 DEF HandedRightly, c, f

LEMMA HandedStays ==
  ASSUME LearningInv, SessionsAdvance, held \subseteq held', now' \in Nat, now <= now',
         NEW h, HandedRightly(h)
  PROVE  HandedRightly(h)'
<1>0. h.at \in Nat /\ h.at <= now /\ h.at \in 0..now'
  BY DEF HandedRightly, LearningInv
<1>1. h.what.kind = "join" => NotClosedBefore(h.what.of, h.at)'
  BY <1>0, NotClosedStays DEF HandedRightly
<1> QED BY <1>0, <1>1 DEF HandedRightly

LEMMA HandedAlwaysStays ==
  ASSUME LearningInv, [LearningNext]_learningVars PROVE \A h \in handed' : HandedRightly(h)'
<1>1. SessionsAdvance /\ held \subseteq held' /\ now' \in Nat /\ now <= now'
  BY SessionsAlwaysAdvance, AccessStays
<1>2. \A h \in handed : HandedRightly(h)'
  BY <1>1, HandedStays DEF LearningInv
<1>3. ASSUME NEW r \in Askers, LearningStep(r) PROVE \A h \in handed' : HandedRightly(h)'
  <2>1. CASE ResolveAssetDelivery(r) \/ ResolveLiveSessionJoin(r)
    <3> DEFINE new == [what |-> reference[asking[r].of], at |-> asking[r].at, until |-> now]
    <3>1. handed' = handed \cup {new}
      BY <2>1 DEF ResolveAssetDelivery, ResolveLiveSessionJoin, HandOut
    <3>2. HandedRightly(new)
      BY <2>1, ResolvedRightly
    <3>3. UNCHANGED <<now, held, session>>
      BY <2>1 DEF ResolveAssetDelivery, ResolveLiveSessionJoin, HandOut, timetable
    <3>4. \A h : HandedRightly(h) => HandedRightly(h)'
      BY <3>3 DEF HandedRightly, NotClosedBefore
    <3>5. ASSUME NEW h \in handed' PROVE HandedRightly(h)'
      <4>1. HandedRightly(h)
        BY <3>1, <3>2, <3>5 DEF LearningInv
      <4> QED BY <3>4, <4>1
    <3> QED BY <3>5
  <2>2. CASE ~(ResolveAssetDelivery(r) \/ ResolveLiveSessionJoin(r))
    <3>1. UNCHANGED handed
      BY <1>3, <2>2 DEF LearningStep, RequestAssetDelivery, RequestLiveSessionJoin,
             RescheduleLiveSession, CancelLiveSession, RedeemDelivery, RedeemJoin,
             IssueDeliveryReference, IssueJoinReference, Issued, Refuse, Ask, CommitReschedule,
             CommitCancel
    <3> QED BY <1>2, <3>1
  <2> QED BY <2>1, <2>2
<1>4. ASSUME NEW s \in LiveSessions, TimetableStep(s) PROVE UNCHANGED handed
  BY <1>4 DEF TimetableStep, ScheduleReminder, CheckInToLiveSession, CheckOutOfLiveSession,
              CreateLiveSession, LinkRecording
<1>5. ASSUME NEW p \in Placements, ContentStep(p) PROVE UNCHANGED handed
  BY <1>5 DEF ContentStep, Publish
<1>6. CASE UNCHANGED handed
  BY <1>2, <1>6
<1> QED
  BY <1>3, <1>4, <1>5, <1>6 DEF LearningNext, learningVars, RevokeAccess, GiveAccess, LearningTick

(* Whatever is handed out goes to a learner whose access was in force      *)
(* while the redemption ran, for a reference within its lifetime, and      *)
(* opens no session closed before the redemption arrived: redemption reads *)
(* access and the session again (delivery-service.ts, schedule-service.ts).*)
THEOREM HandOutsAreUnderAccess == LearningSpec => []HandedOutUnderAccess
<1>1. LearningInv => HandedOutUnderAccess
  BY DEF LearningInv, HandedOutUnderAccess, HandedRightly, NotClosedBefore
<1>2. LearningInv /\ [LearningNext]_learningVars => LearningInv'
  <2> SUFFICES ASSUME LearningInv, [LearningNext]_learningVars PROVE LearningInv'
    OBVIOUS
  <2>1. SessionTable' /\ JoinableIsOpen'
    BY SessionsAlwaysAdvance, StillJoinableIsOpen DEF SessionsAdvance
  <2>2. ReferenceTable' /\ RequestTable' /\ AccessTable' /\ AccessIsLogged' /\ now' \in Nat
    BY ReferencesAlwaysStay, RequestsAlwaysFit, AccessStays
  <2>3. (\A h \in handed : HandedRightly(h))'
    BY HandedAlwaysStays
  <2> QED BY <2>1, <2>2, <2>3 DEF LearningInv
<1> QED BY <1>1, <1>2, LearningInitInv, PTL DEF LearningSpec

=============================================================================
