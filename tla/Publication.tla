---------------------------- MODULE Publication ----------------------------
(***************************************************************************)
(* The editorial workflow behind an exam: question and stimulus versions,  *)
(* scoring policies, blueprints, exam forms and batches, from draft to     *)
(* archive (packages/db/src/exam/{config,batch,question*,stimulus*}).      *)
(*                                                                         *)
(* A handler checks what it needs in reads of their own, then writes: an   *)
(* edit reads the status and later updates the row by id; a status change  *)
(* reads the row and updates it by id in one READ COMMITTED transaction;   *)
(* an approval vets the artifacts below before that transaction.  Other    *)
(* requests run in between.                                                *)
(*                                                                         *)
(* Abstracted: the reads of one check are one step; role grants hold; a    *)
(* refused request leaves no trace; codes and version numbers are the      *)
(* version's name; a checksum is the content, which every writer stores    *)
(* with it; documents are members of small sets.                           *)
(***************************************************************************)
EXTENDS BatchWindows, Sequences, FiniteSets, FiniteSetsExt

CONSTANTS Questions, Stimuli, Policies, Blueprints, Forms, Batches, \* versions
          TypeOf,      \* the type each question is created with
          Staff,       \* people who write and review
          Requests,    \* concurrent requests
          Texts,       \* documents of stimuli and batches
          Codes,       \* option codes
          Sections,    \* section codes
          Structures,  \* blueprint documents: sections, timing, activation scope
          Items,       \* exam form items: [section, order, question]
          WindowSets,  \* window sets a request may carry
          Scenes,      \* instances explored: the versions and parts handled, how
                       \* many requests overlap, and the bound on a question's reviews
          None

Versions == Questions \cup Stimuli \cup Policies \cup Blueprints \cup Forms \cup Batches

ASSUME KindsAssumption ==
  /\ \A k \in {<<Questions, Stimuli>>, <<Questions, Policies>>, <<Questions, Blueprints>>,
               <<Questions, Forms>>, <<Questions, Batches>>, <<Stimuli, Policies>>,
               <<Stimuli, Blueprints>>, <<Stimuli, Forms>>, <<Stimuli, Batches>>,
               <<Policies, Blueprints>>, <<Policies, Forms>>, <<Policies, Batches>>,
               <<Blueprints, Forms>>, <<Blueprints, Batches>>, <<Forms, Batches>>} :
       k[1] \cap k[2] = {}
  /\ None \notin Versions \cup Codes
ASSUME SceneAssumption ==
  \A s \in Scenes : s.open \subseteq Versions /\ s.width \in Nat \ {0} /\ s.reviews \in Nat
ASSUME ItemsAssumption == \A i \in Items : i.question \in Questions
ASSUME WindowsAssumption == \A w \in WindowSets : IsWindowSet(w)

VARIABLES row,   \* each version's row: status, lockedAt, creator, versions it pins, content
          log,   \* question_version_reviews of each question, oldest first
          call,  \* what each request is doing
          scene  \* the instance explored

vars == <<row, log, call, scene>>

Absent == [status |-> "absent"]
Idle == [pc |-> "idle"]
Exists(v) == row[v].status # "absent"

Locked == {"approved", "published", "archived"}
Edges == [draft |-> {"in_review"}, in_review |-> {"changes_requested", "approved"},
          changes_requested |-> {"in_review"}, approved |-> {"published"},
          published |-> {"archived"}, archived |-> {}]
Statuses == DOMAIN Edges

InTurn == scene.width = 1
Free(r) == /\ call[r] = Idle
           /\ Cardinality({x \in Requests : call[x] # Idle}) < scene.width
Open(v) == v \in scene.open

Published(v) == Exists(v) /\ row[v].status = "published"
Mutable(v) == Exists(v) /\ row[v].status \notin Locked

Take(r, c) == call' = [call EXCEPT ![r] = c]
Done(r) == Take(r, Idle)

----------------------------------------------------------------------------
(* What a draft holds.  A question version holds its document with the     *)
(* stimulus it refers to, its options, answer key and assets; a blueprint  *)
(* its scoring policy by code, version and checksum, and its structure.    *)
QuestionContent == [stimulus : Stimuli \cup {None}, options : SUBSET Codes,
                    key : Codes \cup {None}, assets : SUBSET Codes]
StimulusContent == [body : Texts, assets : SUBSET Texts]
PolicyContent == [scored : SUBSET Sections]
BlueprintConfigs == [policy : Policies, checksum : SUBSET Sections, structure : Structures]
BlueprintContent == [config : BlueprintConfigs]
FormContent == [items : SUBSET Items]
BatchContent == [identity : Texts, windows : WindowSets \cup {<<>>}, voided : BOOLEAN]

NewRow(p, pins, content) ==
  [status |-> "draft", locked |-> FALSE, by |-> p, pins |-> pins, content |-> content]

(* Questions, stimuli, policies and blueprints are one insert; a second    *)
(* insert of a version violates its unique key.                            *)
CreateDraft(v, p, content) ==
  /\ \E r \in Requests : Free(r)
  /\ Open(v) /\ ~Exists(v)
  /\ row' = [row EXCEPT ![v] = NewRow(p, {}, content)]
  /\ UNCHANGED <<log, call, scene>>

CreateQuestionDraft(q, p, s) ==
  /\ s # None => Exists(s)
  /\ CreateDraft(q, p, [stimulus |-> s, options |-> {}, key |-> None, assets |-> {}])
CreateStimulusDraft(s, p, t) == CreateDraft(s, p, [body |-> t, assets |-> {}])
CreateScoringPolicyDraft(k, p, scored) == CreateDraft(k, p, [scored |-> scored])
CreateExamBlueprintDraft(b, p, config) == CreateDraft(b, p, [config |-> config])

(* resolvePublishedScoringPolicyRef *)
Resolves(config) == /\ Published(config.policy)
                    /\ row[config.policy].content.scored = config.checksum

(* createExamFormDraft checks the blueprint and resolves its policy again, *)
(* createExamBatchDraft checks the form; each then inserts what pins them. *)
CreateExamFormDraft(r, v, p, b) ==
  /\ Free(r)
  /\ Open(v) /\ Published(b) /\ Resolves(row[b].content.config)
  /\ Take(r, [pc |-> "insert", version |-> v, by |-> p,
              pins |-> {b, row[b].content.config.policy},
              content |-> [items |-> {}]])
  /\ UNCHANGED <<row, log, scene>>

CreateExamBatchDraft(r, v, p, f, t) ==
  /\ Free(r)
  /\ Open(v) /\ Published(f)
  /\ Take(r, [pc |-> "insert", version |-> v, by |-> p, pins |-> {f},
              content |-> [identity |-> t, windows |-> <<>>, voided |-> FALSE]])
  /\ UNCHANGED <<row, log, scene>>

Insert(r) ==
  LET c == call[r]
  IN /\ c.pc = "insert"
     /\ row' = IF Exists(c.version) THEN row
               ELSE [row EXCEPT ![c.version] = NewRow(c.by, c.pins, c.content)]
     /\ Done(r)
     /\ UNCHANGED <<log, scene>>

----------------------------------------------------------------------------
(* Edits of a draft: the status is read, the new value checked, and the    *)
(* row, or its child rows, replaced later.  Scenes choose the parts edited.*)
BeginEdit(r, v, part, value) ==
  /\ Free(r)
  /\ Open(v) /\ part \in scene.parts
  /\ Mutable(v)
  /\ Take(r, [pc |-> "edit", version |-> v, part |-> part, value |-> value])
  /\ UNCHANGED <<row, log, scene>>

UpdateQuestionDraft(r, q, s) == (s # None => Exists(s)) /\ BeginEdit(r, q, "stimulus", s)
SetQuestionOptions(r, q, options) == BeginEdit(r, q, "options", options)
SetQuestionAnswerKey(r, q, key) ==
  BeginEdit(r, q, "key", key) /\ key \in row[q].content.options
AddQuestionAsset(r, q, option) ==
  BeginEdit(r, q, "assets", {option}) /\ option \in row[q].content.options
AddStimulusAsset(r, s, asset) == BeginEdit(r, s, "assets", {asset})
UpdateStimulusDraft(r, s, body) == BeginEdit(r, s, "body", body)
UpdateScoringPolicyDraft(r, k, scored) == BeginEdit(r, k, "scored", scored)
UpdateExamBlueprintDraft(r, b, config) == BeginEdit(r, b, "config", config)
SetExamFormItems(r, f, items) ==
  BeginEdit(r, f, "items", items) /\ \A i \in items : Exists(i.question)
UpdateExamBatchDraft(r, b, identity) == BeginEdit(r, b, "identity", identity)
SetExamBatchWindows(r, b, windows) == Coherent(windows) /\ BeginEdit(r, b, "windows", windows)

(* The row is updated by id: assets are added, the rest is replaced. *)
Edit(r) ==
  LET c == call[r]
  IN /\ c.pc = "edit"
     /\ row' = [row EXCEPT ![c.version].content[c.part] =
          IF c.part = "assets" THEN @ \cup c.value ELSE c.value]
     /\ Done(r)
     /\ UNCHANGED <<log, scene>>

(* Voiding a batch, once, in any status but archived. *)
VoidExamBatch(r, v) ==
  /\ Free(r)
  /\ Open(v) /\ Exists(v)
  /\ ~row[v].content.voided /\ row[v].status # "archived"
  /\ Take(r, [pc |-> "void", version |-> v])
  /\ UNCHANGED <<row, log, scene>>

Void(r) ==
  LET c == call[r]
  IN /\ c.pc = "void"
     /\ row' = [row EXCEPT ![c.version].content.voided = TRUE]
     /\ Done(r)
     /\ UNCHANGED <<log, scene>>

----------------------------------------------------------------------------
(* Approvals.  assertBlueprintVersionPublishable *)
Seconds(structure, s) == structure.sections[s].seconds

TimingConsistent(structure) ==
  structure.mode = "per_section" =>
    /\ \A s \in DOMAIN structure.sections : Seconds(structure, s) > 0
    /\ MapThenSumSet(LAMBDA s : Seconds(structure, s), DOMAIN structure.sections)
         = structure.total

Publishable(config, scored) ==
  /\ config.structure.scope # "production"
  /\ TimingConsistent(config.structure)
  /\ scored = DOMAIN config.structure.sections

(* assertExamFormComposable, with the status a question must have. *)
InSection(items, s) == {i \in items : i.section = s}

Fits(items, structure) ==
  /\ items # {}
  /\ \A i \in items :
       /\ i.section \in DOMAIN structure.sections
       /\ TypeOf[i.question] \in structure.sections[i.section].types
       /\ \A j \in items : j.question = i.question => j = i
  /\ \A s \in DOMAIN structure.sections :
       Cardinality(InSection(items, s)) = structure.sections[s].size

(* A broken composition check: a question under review will do. *)
ComposableFromDrafts(items, structure) ==
  Fits(items, structure) /\ \A i \in items : Exists(i.question)

Composable(items, structure) ==
  Fits(items, structure) /\ \A i \in items : Published(i.question)

PinnedBlueprint(v) == CHOOSE b \in row[v].pins : b \in Blueprints
PinnedPolicy(v) == CHOOSE p \in row[v].pins : p \in Policies
PinnedForm(v) == CHOOSE f \in row[v].pins : f \in Forms

(* What an approval vets is read here and the status changed later. *)
Vet(r, v) ==
  /\ Free(r)
  /\ Open(v) /\ Exists(v)
  /\ Take(r, [pc |-> "vetted", version |-> v])
  /\ UNCHANGED <<row, log, scene>>

(* Only a blueprint must be approved by another than its creator. *)
ApproveExamBlueprint(r, b, p) ==
  /\ Vet(r, b)
  /\ p # row[b].by
  /\ Resolves(row[b].content.config)
  /\ Publishable(row[b].content.config, row[row[b].content.config.policy].content.scored)

ApproveExamForm(r, f) ==
  /\ Vet(r, f)
  /\ Composable(row[f].content.items, row[PinnedBlueprint(f)].content.config.structure)

(* assertBatchPublishable *)
ApproveExamBatch(r, b) ==
  /\ Vet(r, b)
  /\ Published(PinnedForm(b)) /\ Coherent(row[b].content.windows)

----------------------------------------------------------------------------
(* Status changes.  The transaction reads the row and checks the edge; a   *)
(* question's review row is written in the same transaction.               *)
Edge(v, to) == Exists(v) /\ to \in Edges[row[v].status]

ApproveVetted(r) ==
  LET c == call[r]
  IN /\ c.pc = "vetted"
     /\ IF Edge(c.version, "approved")
        THEN Take(r, [pc |-> "write", version |-> c.version, to |-> "approved",
                      seen |-> row[c.version].status])
        ELSE Done(r)
     /\ UNCHANGED <<row, log, scene>>

Transition(r, v, to) ==
  /\ Free(r)
  /\ Open(v) /\ Edge(v, to)
  /\ Take(r, [pc |-> "write", version |-> v, to |-> to, seen |-> row[v].status])
  /\ UNCHANGED <<row, log, scene>>

(* A question is approved, checklist complete, by another than its creator. *)
QuestionTransition(r, q, to, p) ==
  /\ Transition(r, q, to)
  /\ to = "approved" => p # row[q].by
  /\ Len(log[q]) < scene.reviews

(* Changes are never requested of a stimulus or a policy; what is vetted   *)
(* first is approved above.                                                *)
StimulusTransition(r, s, to) == to # "changes_requested" /\ Transition(r, s, to)
PolicyTransition(r, k, to) == to # "changes_requested" /\ Transition(r, k, to)
BlueprintTransition(r, b, to) == to # "approved" /\ Transition(r, b, to)
FormTransition(r, f, to) == to # "approved" /\ Transition(r, f, to)
BatchTransition(r, b, to) == to # "approved" /\ Transition(r, b, to)

(* A broken stamp: every status change computes it again. *)
StampAgain(locked, seen, to) == seen \notin Locked /\ to \in Locked

(* lockedAt is set by the first status that locks, and kept. *)
Stamp(locked, seen, to) == locked \/ (seen \notin Locked /\ to \in Locked)

(* A broken review log: a request for changes discards its reason. *)
ReviewedUnlessReturned(v, to) == IF to = "changes_requested" THEN log[v] ELSE Append(log[v], to)

Reviewed(v, to) == Append(log[v], to)

Write(r) ==
  LET c == call[r]
  IN /\ c.pc = "write"
     /\ row' = [row EXCEPT ![c.version].status = c.to,
                           ![c.version].locked = Stamp(@, c.seen, c.to)]
     /\ Done(r)
     /\ UNCHANGED scene

WriteQuestion(r) ==
  /\ Write(r)
  /\ call[r].version \in Questions
  /\ log' = [log EXCEPT ![call[r].version] = Reviewed(call[r].version, call[r].to)]

WriteOther(r) == Write(r) /\ call[r].version \notin Questions /\ UNCHANGED log

(* A server process dies between two statements of a handler: what it had  *)
(* not committed is lost.                                                  *)
Crash(r) ==
  /\ call[r] # Idle
  /\ Done(r)
  /\ UNCHANGED <<row, log, scene>>

----------------------------------------------------------------------------
Init ==
  /\ row = [v \in Versions |-> Absent]
  /\ log = [q \in Questions |-> <<>>]
  /\ call = [r \in Requests |-> Idle]
  /\ scene \in Scenes

Create(p) ==
  \/ \E q \in Questions, s \in Stimuli \cup {None} : CreateQuestionDraft(q, p, s)
  \/ \E s \in Stimuli, t \in Texts : CreateStimulusDraft(s, p, t)
  \/ \E k \in Policies, scored \in SUBSET Sections : CreateScoringPolicyDraft(k, p, scored)
  \/ \E b \in Blueprints, config \in BlueprintConfigs : CreateExamBlueprintDraft(b, p, config)
  \/ \E r \in Requests, f \in Forms, b \in Blueprints : CreateExamFormDraft(r, f, p, b)
  \/ \E r \in Requests, b \in Batches, f \in Forms, t \in Texts :
       CreateExamBatchDraft(r, b, p, f, t)

EditQuestion(r, q) ==
  \/ \E s \in Stimuli \cup {None} : UpdateQuestionDraft(r, q, s)
  \/ \E options \in SUBSET Codes : SetQuestionOptions(r, q, options)
  \/ \E c \in Codes : SetQuestionAnswerKey(r, q, c) \/ AddQuestionAsset(r, q, c)

EditOther(r) ==
  \/ \E s \in Stimuli, t \in Texts : AddStimulusAsset(r, s, t) \/ UpdateStimulusDraft(r, s, t)
  \/ \E k \in Policies, scored \in SUBSET Sections : UpdateScoringPolicyDraft(r, k, scored)
  \/ \E b \in Blueprints, config \in BlueprintConfigs : UpdateExamBlueprintDraft(r, b, config)
  \/ \E f \in Forms, items \in SUBSET Items : SetExamFormItems(r, f, items)
  \/ \E b \in Batches :
       \/ \E t \in Texts : UpdateExamBatchDraft(r, b, t)
       \/ \E w \in WindowSets : SetExamBatchWindows(r, b, w)
       \/ VoidExamBatch(r, b)

Approve(r, p) ==
  \/ \E b \in Blueprints : ApproveExamBlueprint(r, b, p)
  \/ \E f \in Forms : ApproveExamForm(r, f)
  \/ \E b \in Batches : ApproveExamBatch(r, b)

Move(r, to, p) ==
  \/ \E q \in Questions : QuestionTransition(r, q, to, p)
  \/ \E s \in Stimuli : StimulusTransition(r, s, to)
  \/ \E k \in Policies : PolicyTransition(r, k, to)
  \/ \E b \in Blueprints : BlueprintTransition(r, b, to)
  \/ \E f \in Forms : FormTransition(r, f, to)
  \/ \E b \in Batches : BatchTransition(r, b, to)

Finish(r) == Insert(r) \/ Edit(r) \/ Void(r) \/ ApproveVetted(r)
               \/ WriteQuestion(r) \/ WriteOther(r) \/ Crash(r)

Next ==
  \/ \E p \in Staff : Create(p)
  \/ \E r \in Requests :
       \/ \E q \in Questions : EditQuestion(r, q)
       \/ EditOther(r)
       \/ \E p \in Staff : Approve(r, p)
       \/ \E to \in Statuses, p \in Staff : Move(r, to, p)
       \/ Finish(r)

Spec == Init /\ [][Next]_vars

----------------------------------------------------------------------------
(* A version is absent or a row; a request is idle or holds what it read.  *)
Contents(v) ==
  CASE v \in Questions -> QuestionContent
    [] v \in Stimuli -> StimulusContent
    [] v \in Policies -> PolicyContent
    [] v \in Blueprints -> BlueprintContent
    [] v \in Forms -> FormContent
    [] v \in Batches -> BatchContent

Rows(v) == [status : Statuses, locked : BOOLEAN, by : Staff,
            pins : SUBSET Versions, content : Contents(v)]

TypeOK ==
  /\ \A v \in Versions : Exists(v) => row[v] \in Rows(v)
  /\ \A q \in Questions : \A n \in 1..Len(log[q]) : log[q][n] \in Statuses
  /\ \A r \in Requests : call[r] # Idle =>
       call[r].pc \in {"insert", "edit", "void", "vetted", "write"}

(* However requests interleave, what a form or a batch pins has been       *)
(* approved at some time: no exam rests on a version that never passed     *)
(* review (createExamFormDraft, createExamBatchDraft).                     *)
RestsOnReviewed ==
  \A v \in Versions : Exists(v) =>
    \A pinned \in row[v].pins : Exists(pinned) /\ row[pinned].locked

(* A question's status is the last one its review history records, while   *)
(* requests do not overlap (recordQuestionVersionReview).                  *)
HistoryMatchesStatus ==
  InTurn => \A q \in Questions : Exists(q) =>
    row[q].status = IF log[q] = <<>> THEN "draft" ELSE log[q][Len(log[q])]

(* While requests do not overlap, an approved batch is a complete paper    *)
(* for good: its windows are coherent, its form was composed of reviewed   *)
(* questions in the sizes and types of a blueprint that is consistent with *)
(* the very policy the form is scored by, and all of them stay locked.     *)
Paper(f) ==
  LET items == row[f].content.items
      config == row[PinnedBlueprint(f)].content.config
      policy == PinnedPolicy(f)
      Final(v) == row[v].status \in {"published", "archived"}
  IN /\ Final(f) /\ Final(PinnedBlueprint(f)) /\ Final(policy)
     /\ config.policy = policy /\ config.checksum = row[policy].content.scored
     /\ Publishable(config, row[policy].content.scored)
     /\ Fits(items, config.structure)
     /\ \A i \in items : Final(i.question)

ApprovedIsComplete ==
  InTurn => \A b \in Batches : Exists(b) /\ row[b].status \in Locked =>
    Coherent(row[b].content.windows) /\ Paper(PinnedForm(b))

(* Whatever the interleaving, the windows a batch holds show its answer    *)
(* key only after every release they plan, and its state only moves on     *)
(* (deriveBatchState, explanation-visibility.ts, result-lifecycle.ts).     *)
Instants(w) == {w[type].starts : type \in DOMAIN w} \cup {w[type].ends : type \in DOMAIN w}

ReleasesInOrder ==
  \A b \in Batches : Exists(b) =>
    LET w == row[b].content.windows
    IN w # <<>> => \A t1, t2 \in Instants(w) : KeyAfterEverything(w, t1) /\ OnlyMovesOn(w, t1, t2)

=============================================================================
