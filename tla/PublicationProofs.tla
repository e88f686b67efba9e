------------------------- MODULE PublicationProofs -------------------------
(***************************************************************************)
(* Proofs about Publication, for any versions, requests, documents and     *)
(* scenes: however many requests overlap; about Marking, for any papers,   *)
(* policies and replies, and any number of corrections; and about Import,  *)
(* for any workbooks, however many jobs, reviews and crashes overlap.      *)
(***************************************************************************)
EXTENDS Publication, Marking, Import, FiniteSetTheorems, WellFoundedInduction, TLAPS

There(rows, v) == rows[v].status # "absent"

(* What a form or a batch pins passed its review. *)
Reviews(rows, pins) == \A p \in pins : p \in Versions /\ There(rows, p) /\ rows[p].locked

(* A row that is there is of its kind, is locked when its status says so,  *)
(* rests on what is reviewed, and a batch's windows are coherent.          *)
RowFits(rows, v, it) ==
  /\ it \in Rows(v)
  /\ it.status \in Locked => it.locked
  /\ Reviews(rows, it.pins)
  /\ v \in Batches => \/ it.content.windows = <<>>
                      \/ it.content.windows \in WindowSets /\ Coherent(it.content.windows)

RowsFit(rows) ==
  /\ DOMAIN rows = Versions
  /\ \A v \in Versions : There(rows, v) => RowFits(rows, v, rows[v])

(* The value an edit carries is one its part may have. *)
EditFits(v, part, value) ==
  \/ /\ v \in Questions
     /\ \/ part = "stimulus" /\ value \in Stimuli \cup {None}
        \/ part = "options" /\ value \in SUBSET Codes
        \/ part = "key" /\ value \in Codes
        \/ part = "assets" /\ value \in SUBSET Codes
  \/ /\ v \in Stimuli
     /\ \/ part = "body" /\ value \in Texts
        \/ part = "assets" /\ value \in SUBSET Texts
  \/ v \in Policies /\ part = "scored" /\ value \in SUBSET Sections
  \/ v \in Blueprints /\ part = "config" /\ value \in BlueprintConfigs
  \/ v \in Forms /\ part = "items" /\ value \in SUBSET Items
  \/ /\ v \in Batches
     /\ \/ part = "identity" /\ value \in Texts
        \/ part = "windows" /\ value \in WindowSets /\ Coherent(value)

(* What a request holds still fits the rows. *)
CallFits(rows, c) ==
  \/ c = Idle
  \/ /\ c.pc = "insert"
     /\ c.version \in Forms \cup Batches /\ c.by \in Staff /\ c.pins \subseteq Versions
     /\ Reviews(rows, c.pins)
     /\ c.content \in Contents(c.version)
     /\ c.version \in Batches => c.content.windows = <<>>
  \/ /\ c.pc = "edit"
     /\ c.version \in Versions /\ There(rows, c.version)
     /\ EditFits(c.version, c.part, c.value)
  \/ c.pc = "void" /\ c.version \in Batches /\ There(rows, c.version)
  \/ c.pc = "vetted" /\ c.version \in Versions
  \/ /\ c.pc = "write"
     /\ c.version \in Versions /\ There(rows, c.version)
     /\ c.to \in Statuses /\ (c.seen \in Locked => rows[c.version].locked)

(* The history of a question ends with its status. *)
LogFits ==
  /\ log \in [Questions -> Seq(Statuses)]
  /\ \A q \in Questions :
       IF There(row, q)
       THEN row[q].status = IF log[q] = <<>> THEN "draft" ELSE log[q][Len(log[q])]
       ELSE log[q] = <<>>

CallsFit(rows, calls) == DOMAIN calls = Requests /\ \A r \in Requests : CallFits(rows, calls[r])

Inv == RowsFit(row) /\ CallsFit(row, call) /\ LogFits

(* Nothing goes away and nothing is unlocked. *)
Grows(rows, rows2) ==
  \A v \in Versions : There(rows, v) => There(rows2, v) /\ (rows[v].locked => rows2[v].locked)

----------------------------------------------------------------------------
LEMMA Kinds ==
  /\ \A v \in Questions : Contents(v) = QuestionContent
  /\ \A v \in Stimuli : Contents(v) = StimulusContent /\ v \notin Questions
  /\ \A v \in Policies : Contents(v) = PolicyContent /\ v \notin Questions
  /\ \A v \in Blueprints : Contents(v) = BlueprintContent /\ v \notin Questions
  /\ \A v \in Forms : Contents(v) = FormContent /\ v \notin Questions \cup Batches
  /\ \A v \in Batches : Contents(v) = BatchContent /\ v \notin Questions
  /\ \A v \in Questions \cup Stimuli \cup Policies \cup Blueprints : v \notin Batches
<1>1. /\ Questions \cap Stimuli = {} /\ Questions \cap Policies = {} /\ Questions \cap Blueprints = {}
      /\ Questions \cap Forms = {} /\ Questions \cap Batches = {} /\ Stimuli \cap Policies = {}
      /\ Stimuli \cap Blueprints = {} /\ Stimuli \cap Forms = {} /\ Stimuli \cap Batches = {}
      /\ Policies \cap Blueprints = {} /\ Policies \cap Forms = {} /\ Policies \cap Batches = {}
      /\ Blueprints \cap Forms = {} /\ Blueprints \cap Batches = {} /\ Forms \cap Batches = {}
  BY KindsAssumption
<1> QED BY <1>1 DEF Contents

LEMMA StatusFacts == "absent" \notin Statuses /\ "draft" \in Statuses /\ "draft" \notin Locked
                     /\ Locked \subseteq Statuses
BY DEF Statuses, Edges, Locked

(* What a request holds survives the steps of others. *)
LEMMA CallStaysFit ==
  ASSUME NEW rows, NEW rows2, NEW c, Grows(rows, rows2), CallFits(rows, c)
  PROVE  CallFits(rows2, c)
<1>1. \A pins : Reviews(rows, pins) => Reviews(rows2, pins)
  BY DEF Reviews, Grows
<1>2. c.version \in Batches => c.version \in Versions
  BY DEF Versions
<1>3. c.version \in Versions /\ There(rows, c.version) =>
        There(rows2, c.version) /\ (rows[c.version].locked => rows2[c.version].locked)
  BY DEF Grows
<1> QED BY <1>1, <1>2, <1>3 DEF CallFits

LEMMA CallsStayFit ==
  ASSUME NEW rows, NEW rows2, NEW calls, NEW r \in Requests, NEW c,
         Grows(rows, rows2), CallsFit(rows, calls), CallFits(rows2, c)
  PROVE  CallsFit(rows2, [calls EXCEPT ![r] = c])
BY CallStaysFit DEF CallsFit

(* One row written or inserted. *)
LEMMA RowsStayFit ==
  ASSUME NEW rows, NEW v \in Versions, NEW it,
         RowsFit(rows), RowFits(rows, v, it), There(rows, v) => (rows[v].locked => it.locked)
  PROVE  LET rows2 == [rows EXCEPT ![v] = it] IN RowsFit(rows2) /\ Grows(rows, rows2)
<1> DEFINE rows2 == [rows EXCEPT ![v] = it]
<1>1. DOMAIN rows2 = Versions /\ \A w \in Versions : rows2[w] = IF w = v THEN it ELSE rows[w]
  BY DEF RowsFit
<1>2. it.status # "absent"
  BY StatusFacts DEF RowFits, Rows
<1> HIDE DEF rows2
<1>3. Grows(rows, rows2)
  BY <1>1, <1>2 DEF Grows, There
<1>4. \A pins : Reviews(rows, pins) => Reviews(rows2, pins)
  BY <1>3 DEF Reviews, Grows
<1>5. \A w, x : RowFits(rows, w, x) => RowFits(rows2, w, x)
  BY <1>4 DEF RowFits
<1>6. RowsFit(rows2)
  BY <1>1, <1>5 DEF RowsFit, There
<1> QED BY <1>3, <1>6 DEF rows2

(* An edit leaves a version a version of its kind. *)
LEMMA EditKeepsContent ==
  ASSUME NEW v \in Versions, NEW part, NEW value, EditFits(v, part, value),
         NEW content \in Contents(v), NEW content2,
         content2 = [content EXCEPT ![part] = IF part = "assets" THEN @ \cup value ELSE value]
  PROVE  /\ content2 \in Contents(v)
         /\ v \in Batches => content2.windows = content.windows
                             \/ (content2.windows \in WindowSets /\ Coherent(content2.windows))
<1>1. CASE v \in Questions
  <2>1. content \in QuestionContent /\ v \notin Stimuli \cup Policies \cup Blueprints \cup Forms \cup Batches
    BY <1>1, Kinds
  <2>2. content2 \in QuestionContent
    BY <2>1 DEF EditFits, QuestionContent
  <2> QED BY <1>1, <2>1, <2>2, Kinds
<1>2. CASE v \in Stimuli
  <2>1. content \in StimulusContent /\ v \notin Questions \cup Policies \cup Blueprints \cup Forms \cup Batches
    BY <1>2, Kinds, KindsAssumption
  <2>2. content2 \in StimulusContent
    BY <2>1 DEF EditFits, StimulusContent
  <2> QED BY <1>2, <2>1, <2>2, Kinds
<1>3. CASE v \in Policies
  <2>1. content \in PolicyContent /\ v \notin Questions \cup Stimuli \cup Blueprints \cup Forms \cup Batches
    BY <1>3, Kinds, KindsAssumption
  <2>2. content2 \in PolicyContent
    BY <2>1 DEF EditFits, PolicyContent
  <2> QED BY <1>3, <2>1, <2>2, Kinds
<1>4. CASE v \in Blueprints
  <2>1. content \in BlueprintContent /\ v \notin Questions \cup Stimuli \cup Policies \cup Forms \cup Batches
    BY <1>4, Kinds, KindsAssumption
  <2>2. content2 \in BlueprintContent
    BY <2>1 DEF EditFits, BlueprintContent
  <2> QED BY <1>4, <2>1, <2>2, Kinds
<1>5. CASE v \in Forms
  <2>1. content \in FormContent /\ v \notin Questions \cup Stimuli \cup Policies \cup Blueprints \cup Batches
    BY <1>5, Kinds, KindsAssumption
  <2>2. content2 \in FormContent
    BY <2>1 DEF EditFits, FormContent
  <2> QED BY <1>5, <2>1, <2>2, Kinds
<1>6. CASE v \in Batches
  <2>1. content \in BatchContent /\ v \notin Questions \cup Stimuli \cup Policies \cup Blueprints \cup Forms
    BY <1>6, Kinds, KindsAssumption
  <2>2. \/ part = "identity" /\ value \in Texts
        \/ part = "windows" /\ value \in WindowSets /\ Coherent(value)
    BY <2>1 DEF EditFits
  <2>3. /\ content2 \in BatchContent
        /\ (content2.windows = content.windows
            \/ (content2.windows \in WindowSets /\ Coherent(content2.windows)))
    BY <2>1, <2>2 DEF BatchContent
  <2> QED BY <1>6, <2>3, Kinds
<1> QED BY <1>1, <1>2, <1>3, <1>4, <1>5, <1>6 DEF Versions

----------------------------------------------------------------------------
LEMMA InitInv == Init => Inv
<1> SUFFICES ASSUME Init PROVE Inv
  OBVIOUS
<1>1. RowsFit(row)
  BY DEF Init, RowsFit, There, Absent
<1>2. CallsFit(row, call)
  BY DEF Init, CallsFit, CallFits
<1>3. LogFits
  BY DEF Init, LogFits, There, Absent, Versions
<1> QED BY <1>1, <1>2, <1>3 DEF Inv

(* A request takes a new task; the rows stay. *)
LEMMA TakeKeeps ==
  ASSUME Inv, NEW r \in Requests, NEW c, Take(r, c), UNCHANGED <<row, log>>, CallFits(row, c)
  PROVE  Inv'
<1>1. call' = [call EXCEPT ![r] = c] /\ row' = row /\ log' = log
  BY DEF Take
<1>2. Grows(row, row)
  BY DEF Grows
<1>3. CallsFit(row, call')
  BY <1>1, <1>2, CallsStayFit DEF Inv
<1> QED BY <1>1, <1>3 DEF Inv, LogFits

(* A request writes one row, which is no question or keeps its status.     *)
LEMMA WriteKeeps ==
  ASSUME Inv, NEW v \in Versions, NEW it, row' = [row EXCEPT ![v] = it], UNCHANGED log,
         RowFits(row, v, it), There(row, v) => (row[v].locked => it.locked),
         v \in Questions => it.status = (IF There(row, v) THEN row[v].status ELSE "draft"),
         CallsFit(row, call) /\ Grows(row, row') => CallsFit(row', call')
  PROVE  Inv'
<1>1. RowsFit(row') /\ Grows(row, row')
  BY RowsStayFit DEF Inv
<1>2. \A w \in Versions : row'[w] = IF w = v THEN it ELSE row[w]
  BY DEF Inv, RowsFit
<1>3. it.status # "absent"
  BY StatusFacts DEF RowFits, Rows
<1>4. LogFits'
  <2>1. log' \in [Questions -> Seq(Statuses)]
    BY DEF Inv, LogFits
  <2>2. ASSUME NEW q \in Questions
        PROVE  IF There(row', q)
               THEN row'[q].status = IF log'[q] = <<>> THEN "draft" ELSE log'[q][Len(log'[q])]
               ELSE log'[q] = <<>>
    <3>1. q \in Versions
      BY DEF Versions
    <3>2. CASE q = v
      BY <1>2, <1>3, <3>1, <3>2 DEF Inv, LogFits, There
    <3>3. CASE q # v
      BY <1>2, <3>1, <3>3 DEF Inv, LogFits, There
    <3> QED BY <3>2, <3>3
  <2> QED BY <2>1, <2>2 DEF LogFits
<1> QED BY <1>1, <1>4 DEF Inv

LEMMA CreateKeeps ==
  ASSUME Inv, NEW v \in Versions, NEW p \in Staff, NEW content \in Contents(v),
         CreateDraft(v, p, content), v \in Batches => content.windows = <<>>
  PROVE  Inv'
<1> DEFINE it == NewRow(p, {}, content)
<1>1. row' = [row EXCEPT ![v] = it] /\ UNCHANGED <<log, call>> /\ ~There(row, v)
  BY DEF CreateDraft, Exists, There
<1>2. it.status = "draft" /\ RowFits(row, v, it)
  BY StatusFacts DEF NewRow, RowFits, Rows, Reviews
<1>3. CallsFit(row, call) /\ Grows(row, row') => CallsFit(row', call')
  BY <1>1, CallStaysFit DEF CallsFit
<1> HIDE DEF it
<1> QED BY <1>1, <1>2, <1>3, WriteKeeps

LEMMA InsertKeeps ==
  ASSUME Inv, NEW r \in Requests, Insert(r)
  PROVE  Inv'
<1> DEFINE c == call[r]
           it == NewRow(c.by, c.pins, c.content)
<1>1. /\ c.version \in Forms \cup Batches /\ c.by \in Staff /\ c.pins \subseteq Versions
      /\ Reviews(row, c.pins) /\ c.content \in Contents(c.version)
      /\ c.version \in Batches => c.content.windows = <<>>
  BY DEF Insert, Inv, CallsFit, CallFits, Idle
<1>2. c.version \in Versions /\ c.version \notin Questions
  BY <1>1, Kinds DEF Versions
<1>3. call' = [call EXCEPT ![r] = Idle] /\ UNCHANGED log
  BY DEF Insert, Done, Take
<1>4. Grows(row, row') /\ CallsFit(row, call) => CallsFit(row', call')
  BY <1>3, CallsStayFit DEF CallFits
<1>5. CASE Exists(c.version)
  <2>1. row' = row
    BY <1>5 DEF Insert
  <2>2. Grows(row, row')
    BY <2>1 DEF Grows
  <2> QED BY <1>3, <1>4, <2>1, <2>2 DEF Inv, LogFits
<1>6. CASE ~Exists(c.version)
  <2>1. row' = [row EXCEPT ![c.version] = it]
    BY <1>6 DEF Insert
  <2>2. RowFits(row, c.version, it)
    BY <1>1, StatusFacts DEF NewRow, RowFits, Rows
  <2>3. ~There(row, c.version)
    BY <1>6 DEF Exists, There
  <2> HIDE DEF it
  <2> QED BY <1>2, <1>3, <1>4, <2>1, <2>2, <2>3, WriteKeeps
<1> QED BY <1>5, <1>6

(* A row whose content alone is replaced. *)
LEMMA ContentKeeps ==
  ASSUME Inv, NEW r \in Requests, NEW v \in Versions, There(row, v), NEW content \in Contents(v),
         v \in Batches => content.windows = row[v].content.windows
                          \/ (content.windows \in WindowSets /\ Coherent(content.windows)),
         row' = [row EXCEPT ![v] = [@ EXCEPT !.content = content]],
         Done(r), UNCHANGED log
  PROVE  Inv'
<1> DEFINE it == [row[v] EXCEPT !.content = content]
<1>1. RowFits(row, v, row[v])
  BY DEF Inv, RowsFit
<1>2. row' = [row EXCEPT ![v] = it]
  BY DEF Inv, RowsFit
<1>3. /\ it \in Rows(v) /\ it.status = row[v].status /\ it.locked = row[v].locked
      /\ it.pins = row[v].pins /\ it.content = content
  BY <1>1 DEF RowFits, Rows
<1> HIDE DEF it
<1>4. RowFits(row, v, it)
  BY <1>1, <1>3 DEF RowFits
<1>5. CallsFit(row, call) /\ Grows(row, row') => CallsFit(row', call')
  BY CallsStayFit DEF Done, Take, CallFits
<1> QED BY <1>2, <1>3, <1>4, <1>5, WriteKeeps

LEMMA EditKeeps ==
  ASSUME Inv, NEW r \in Requests, Edit(r)
  PROVE  Inv'
<1> DEFINE c == call[r]
           content == [row[c.version].content EXCEPT ![c.part] =
                         IF c.part = "assets" THEN @ \cup c.value ELSE c.value]
<1>1. c.version \in Versions /\ There(row, c.version) /\ EditFits(c.version, c.part, c.value)
  BY DEF Edit, Inv, CallsFit, CallFits, Idle
<1>2. row[c.version].content \in Contents(c.version)
  BY <1>1 DEF Inv, RowsFit, RowFits, Rows
<1>3. /\ content \in Contents(c.version)
      /\ c.version \in Batches => content.windows = row[c.version].content.windows
                                  \/ (content.windows \in WindowSets /\ Coherent(content.windows))
  BY <1>1, <1>2, EditKeepsContent
<1>4. row' = [row EXCEPT ![c.version] = [@ EXCEPT !.content = content]] /\ Done(r) /\ UNCHANGED log
  BY DEF Edit
<1> HIDE DEF content
<1> QED BY <1>1, <1>3, <1>4, ContentKeeps

LEMMA VoidKeeps ==
  ASSUME Inv, NEW r \in Requests, Void(r)
  PROVE  Inv'
<1> DEFINE c == call[r]
           content == [row[c.version].content EXCEPT !.voided = TRUE]
<1>1. c.version \in Batches /\ c.version \in Versions /\ There(row, c.version)
  BY DEF Void, Inv, CallsFit, CallFits, Idle, Versions
<1>2. row[c.version].content \in BatchContent /\ Contents(c.version) = BatchContent
  BY <1>1, Kinds DEF Inv, RowsFit, RowFits, Rows
<1>3. content \in Contents(c.version) /\ content.windows = row[c.version].content.windows
  BY <1>2 DEF BatchContent
<1>4. row' = [row EXCEPT ![c.version] = [@ EXCEPT !.content = content]] /\ Done(r) /\ UNCHANGED log
  BY DEF Void
<1> HIDE DEF content
<1> QED BY <1>1, <1>3, <1>4, ContentKeeps

(* A status is written: the stamp of a status that locks is kept.          *)
LEMMA StatusKeeps ==
  ASSUME Inv, NEW r \in Requests, WriteQuestion(r) \/ WriteOther(r)
  PROVE  Inv'
<1> DEFINE c == call[r]
           v == c.version
           it == [row[v] EXCEPT !.status = c.to, !.locked = Stamp(row[v].locked, c.seen, c.to)]
<1>1. /\ v \in Versions /\ There(row, v) /\ c.to \in Statuses
      /\ c.seen \in Locked => row[v].locked
  BY DEF WriteQuestion, WriteOther, Write, Inv, CallsFit, CallFits, Idle
<1>2. RowFits(row, v, row[v])
  BY <1>1 DEF Inv, RowsFit
<1>3. row' = [row EXCEPT ![v] = it]
  BY <1>1, <1>2 DEF WriteQuestion, WriteOther, Write, Inv, RowsFit, RowFits, Rows
<1>4. /\ it \in Rows(v) /\ it.status = c.to /\ it.pins = row[v].pins
      /\ it.content = row[v].content /\ it.locked = Stamp(row[v].locked, c.seen, c.to)
  BY <1>1, <1>2 DEF RowFits, Rows, Stamp
<1> HIDE DEF it
<1>5. RowFits(row, v, it) /\ (row[v].locked => it.locked)
  BY <1>1, <1>2, <1>4 DEF RowFits, Stamp
<1>6. CallsFit(row, call) /\ Grows(row, row') => CallsFit(row', call')
  BY CallsStayFit DEF WriteQuestion, WriteOther, Write, Done, Take, CallFits
<1>7. CASE WriteOther(r)
  BY <1>1, <1>3, <1>5, <1>6, <1>7, WriteKeeps DEF WriteOther
<1>8. CASE WriteQuestion(r)
  <2>1. v \in Questions /\ log' = [log EXCEPT ![v] = Append(log[v], c.to)]
    BY <1>8 DEF WriteQuestion, Reviewed
  <2>2. RowsFit(row') /\ CallsFit(row', call')
    BY <1>1, <1>3, <1>5, <1>6, RowsStayFit DEF Inv
  <2>3. log' \in [Questions -> Seq(Statuses)]
    BY <1>1, <2>1 DEF Inv, LogFits
  <2>4. ASSUME NEW q \in Questions
        PROVE  IF There(row', q)
               THEN row'[q].status = IF log'[q] = <<>> THEN "draft" ELSE log'[q][Len(log'[q])]
               ELSE log'[q] = <<>>
    <3>1. q \in Versions /\ row'[q] = (IF q = v THEN it ELSE row[q])
      BY <1>3 DEF Versions, Inv, RowsFit
    <3>2. CASE q = v
      <4>1. log'[q] = Append(log[q], c.to) /\ log[q] \in Seq(Statuses)
        BY <2>1, <3>2 DEF Inv, LogFits
      <4>2. log'[q] # <<>> /\ log'[q][Len(log'[q])] = c.to
        BY <1>1, <4>1
      <4>3. There(row', q)
        BY <1>1, <1>4, <3>1, <3>2, StatusFacts DEF There
      <4> QED BY <1>4, <3>1, <3>2, <4>2, <4>3
    <3>3. CASE q # v
      <4>1. log'[q] = log[q]
        BY <2>1, <3>3 DEF Inv, LogFits
      <4> QED BY <3>1, <3>3, <4>1 DEF Inv, LogFits, There
    <3> QED BY <3>2, <3>3
  <2> QED BY <2>2, <2>3, <2>4 DEF Inv, LogFits
<1> QED BY <1>7, <1>8

----------------------------------------------------------------------------
(* What begins: an insert, an edit, a void, an approval, a status change.  *)
LEMMA PublishedIsReviewed ==
  ASSUME Inv, NEW v \in Versions, Published(v)
  PROVE  There(row, v) /\ row[v].locked
BY DEF Published, Exists, There, Inv, RowsFit, RowFits, Locked

LEMMA NewFormKeeps ==
  ASSUME Inv, NEW r \in Requests, NEW v \in Forms, NEW p \in Staff, NEW b \in Blueprints,
         CreateExamFormDraft(r, v, p, b)
  PROVE  Inv'
<1> DEFINE k == row[b].content.config.policy
           c == [pc |-> "insert", version |-> v, by |-> p, pins |-> {b, k}, content |-> [items |-> {}]]
<1>1. Take(r, c) /\ UNCHANGED <<row, log>> /\ Published(b) /\ Published(k)
  BY DEF CreateExamFormDraft, Resolves
<1>2. b \in Versions /\ v \in Versions /\ v \notin Batches
  BY Kinds DEF Versions
<1>3. k \in Versions
  <2>1. row[b].content \in BlueprintContent
    BY <1>1, <1>2, Kinds, PublishedIsReviewed DEF Inv, RowsFit, RowFits, Rows
  <2> QED BY <2>1 DEF BlueprintContent, BlueprintConfigs, Versions
<1>4. Reviews(row, {b, k})
  BY <1>1, <1>2, <1>3, PublishedIsReviewed DEF Reviews
<1>5. [items |-> {}] \in Contents(v)
  BY Kinds DEF FormContent
<1> HIDE DEF k
<1>6. CallFits(row, c)
  BY <1>2, <1>3, <1>4, <1>5 DEF CallFits
<1> QED BY <1>1, <1>6, TakeKeeps

LEMMA NewBatchKeeps ==
  ASSUME Inv, NEW r \in Requests, NEW v \in Batches, NEW p \in Staff, NEW f \in Forms,
         NEW t \in Texts, CreateExamBatchDraft(r, v, p, f, t)
  PROVE  Inv'
<1> DEFINE content == [identity |-> t, windows |-> <<>>, voided |-> FALSE]
           c == [pc |-> "insert", version |-> v, by |-> p, pins |-> {f}, content |-> content]
<1>1. Take(r, c) /\ UNCHANGED <<row, log>> /\ Published(f)
  BY DEF CreateExamBatchDraft
<1>2. f \in Versions
  BY DEF Versions
<1>3. Reviews(row, {f})
  BY <1>1, <1>2, PublishedIsReviewed DEF Reviews
<1>4. content \in Contents(v) /\ content.windows = <<>>
  BY Kinds DEF BatchContent
<1> HIDE DEF content
<1>5. CallFits(row, c)
  BY <1>2, <1>3, <1>4 DEF CallFits
<1> QED BY <1>1, <1>5, TakeKeeps

LEMMA BeginEditKeeps ==
  ASSUME Inv, NEW r \in Requests, NEW v \in Versions, NEW part, NEW value,
         BeginEdit(r, v, part, value), EditFits(v, part, value)
  PROVE  Inv'
<1> DEFINE c == [pc |-> "edit", version |-> v, part |-> part, value |-> value]
<1>1. Take(r, c) /\ UNCHANGED <<row, log>> /\ There(row, v)
  BY DEF BeginEdit, Mutable, Exists, There
<1>2. CallFits(row, c)
  BY <1>1 DEF CallFits
<1> QED BY <1>1, <1>2, TakeKeeps

LEMMA TransitionKeeps ==
  ASSUME Inv, NEW r \in Requests, NEW v \in Versions, NEW to \in Statuses, Edge(v, to),
         Take(r, [pc |-> "write", version |-> v, to |-> to, seen |-> row[v].status]),
         UNCHANGED <<row, log>>
  PROVE  Inv'
<1> DEFINE c == [pc |-> "write", version |-> v, to |-> to, seen |-> row[v].status]
<1>1. There(row, v)
  BY DEF Edge, Exists, There
<1>2. row[v].status \in Locked => row[v].locked
  BY <1>1 DEF Inv, RowsFit, RowFits
<1>3. CallFits(row, c)
  BY <1>1, <1>2 DEF CallFits
<1> QED BY <1>3, TakeKeeps

LEMMA EditQuestionKeeps ==
  ASSUME Inv, NEW r \in Requests, NEW q \in Questions, EditQuestion(r, q)
  PROVE  Inv'
<1>1. q \in Versions
  BY DEF Versions
<1>2. ASSUME NEW s \in Stimuli \cup {None}, UpdateQuestionDraft(r, q, s) PROVE Inv'
  <2>1. EditFits(q, "stimulus", s)
    BY DEF EditFits
  <2> QED BY <1>1, <1>2, <2>1, BeginEditKeeps DEF UpdateQuestionDraft
<1>3. ASSUME NEW options \in SUBSET Codes, SetQuestionOptions(r, q, options) PROVE Inv'
  <2>1. EditFits(q, "options", options)
    BY DEF EditFits
  <2> QED BY <1>1, <1>3, <2>1, BeginEditKeeps DEF SetQuestionOptions
<1>4. ASSUME NEW k \in Codes, SetQuestionAnswerKey(r, q, k) \/ AddQuestionAsset(r, q, k) PROVE Inv'
  <2>1. EditFits(q, "key", k) /\ EditFits(q, "assets", {k})
    BY DEF EditFits
  <2> QED BY <1>1, <1>4, <2>1, BeginEditKeeps DEF SetQuestionAnswerKey, AddQuestionAsset
<1> QED BY <1>2, <1>3, <1>4 DEF EditQuestion

LEMMA EditOtherKeeps ==
  ASSUME Inv, NEW r \in Requests, EditOther(r)
  PROVE  Inv'
<1>1. CASE \E b \in Batches : VoidExamBatch(r, b)
  <2>1. PICK b \in Batches : VoidExamBatch(r, b)
    BY <1>1
  <2> DEFINE c == [pc |-> "void", version |-> b]
  <2>2. Take(r, c) /\ UNCHANGED <<row, log>> /\ CallFits(row, c)
    BY <2>1 DEF VoidExamBatch, Exists, There, CallFits
  <2> QED BY <2>2, TakeKeeps
<1>2. CASE \E v \in Versions : \E part, value : BeginEdit(r, v, part, value) /\ EditFits(v, part, value)
  BY <1>2, BeginEditKeeps
<1>3. \/ \E b \in Batches : VoidExamBatch(r, b)
      \/ \E v \in Versions : \E part, value : BeginEdit(r, v, part, value) /\ EditFits(v, part, value)
  <2>1. ASSUME NEW s \in Stimuli, NEW t \in Texts, AddStimulusAsset(r, s, t) \/ UpdateStimulusDraft(r, s, t)
        PROVE  \E v \in Versions : \E part, value : BeginEdit(r, v, part, value) /\ EditFits(v, part, value)
    <3>1. EditFits(s, "assets", {t}) /\ EditFits(s, "body", t) /\ s \in Versions
      BY DEF EditFits, Versions
    <3> QED BY <2>1, <3>1 DEF AddStimulusAsset, UpdateStimulusDraft
  <2>2. ASSUME NEW k \in Policies, NEW scored \in SUBSET Sections, UpdateScoringPolicyDraft(r, k, scored)
        PROVE  \E v \in Versions : \E part, value : BeginEdit(r, v, part, value) /\ EditFits(v, part, value)
    <3>1. EditFits(k, "scored", scored) /\ k \in Versions
      BY DEF EditFits, Versions
    <3> QED BY <2>2, <3>1 DEF UpdateScoringPolicyDraft
  <2>3. ASSUME NEW b \in Blueprints, NEW config \in BlueprintConfigs, UpdateExamBlueprintDraft(r, b, config)
        PROVE  \E v \in Versions : \E part, value : BeginEdit(r, v, part, value) /\ EditFits(v, part, value)
    <3>1. EditFits(b, "config", config) /\ b \in Versions
      BY DEF EditFits, Versions
    <3> QED BY <2>3, <3>1 DEF UpdateExamBlueprintDraft
  <2>4. ASSUME NEW f \in Forms, NEW items \in SUBSET Items, SetExamFormItems(r, f, items)
        PROVE  \E v \in Versions : \E part, value : BeginEdit(r, v, part, value) /\ EditFits(v, part, value)
    <3>1. EditFits(f, "items", items) /\ f \in Versions
      BY DEF EditFits, Versions
    <3> QED BY <2>4, <3>1 DEF SetExamFormItems
  <2>5. ASSUME NEW b \in Batches, NEW t \in Texts, UpdateExamBatchDraft(r, b, t)
        PROVE  \E v \in Versions : \E part, value : BeginEdit(r, v, part, value) /\ EditFits(v, part, value)
    <3>1. EditFits(b, "identity", t) /\ b \in Versions
      BY DEF EditFits, Versions
    <3> QED BY <2>5, <3>1 DEF UpdateExamBatchDraft
  <2>6. ASSUME NEW b \in Batches, NEW w \in WindowSets, SetExamBatchWindows(r, b, w)
        PROVE  \E v \in Versions : \E part, value : BeginEdit(r, v, part, value) /\ EditFits(v, part, value)
    <3>1. EditFits(b, "windows", w) /\ b \in Versions
      BY <2>6 DEF SetExamBatchWindows, EditFits, Versions
    <3> QED BY <2>6, <3>1 DEF SetExamBatchWindows
  <2> QED BY <2>1, <2>2, <2>3, <2>4, <2>5, <2>6 DEF EditOther
<1> QED BY <1>1, <1>2, <1>3

LEMMA ApproveKeeps ==
  ASSUME Inv, NEW r \in Requests, NEW p \in Staff, Approve(r, p)
  PROVE  Inv'
<1>1. PICK v \in Versions : Vet(r, v)
  BY DEF Approve, ApproveExamBlueprint, ApproveExamForm, ApproveExamBatch, Versions
<1>2. CallFits(row, [pc |-> "vetted", version |-> v])
  BY DEF CallFits
<1> QED BY <1>1, <1>2, TakeKeeps DEF Vet

LEMMA MoveKeeps ==
  ASSUME Inv, NEW r \in Requests, NEW to \in Statuses, NEW p \in Staff, Move(r, to, p)
  PROVE  Inv'
<1>1. PICK v \in Versions : Transition(r, v, to)
  BY DEF Move, QuestionTransition, StimulusTransition, PolicyTransition, BlueprintTransition,
         FormTransition, BatchTransition, Versions
<1> QED BY <1>1, TransitionKeeps DEF Transition

LEMMA DoneKeeps ==
  ASSUME Inv, NEW r \in Requests, Done(r), UNCHANGED <<row, log>>
  PROVE  Inv'
<1>1. CallFits(row, Idle)
  BY DEF CallFits
<1> QED BY <1>1, TakeKeeps DEF Done

LEMMA ApproveVettedKeeps ==
  ASSUME Inv, NEW r \in Requests, ApproveVetted(r)
  PROVE  Inv'
<1>1. call[r].version \in Versions /\ "approved" \in Statuses
  BY DEF ApproveVetted, Inv, CallsFit, CallFits, Idle, Statuses, Edges
<1>2. CASE Edge(call[r].version, "approved")
  BY <1>1, <1>2, TransitionKeeps DEF ApproveVetted
<1>3. CASE ~Edge(call[r].version, "approved")
  BY <1>3, DoneKeeps DEF ApproveVetted
<1> QED BY <1>2, <1>3

LEMMA CreatesKeep ==
  ASSUME Inv, NEW p \in Staff, Create(p)
  PROVE  Inv'
<1>1. ASSUME NEW q \in Questions, NEW s \in Stimuli \cup {None}, CreateQuestionDraft(q, p, s) PROVE Inv'
  <2> DEFINE content == [stimulus |-> s, options |-> {}, key |-> None, assets |-> {}]
  <2>1. content \in Contents(q) /\ q \in Versions /\ q \notin Batches
    BY Kinds DEF QuestionContent, Versions
  <2> HIDE DEF content
  <2> QED BY <1>1, <2>1, CreateKeeps DEF CreateQuestionDraft, content
<1>2. ASSUME NEW s \in Stimuli, NEW t \in Texts, CreateStimulusDraft(s, p, t) PROVE Inv'
  <2>1. [body |-> t, assets |-> {}] \in Contents(s) /\ s \in Versions /\ s \notin Batches
    BY Kinds DEF StimulusContent, Versions
  <2> QED BY <1>2, <2>1, CreateKeeps DEF CreateStimulusDraft
<1>3. ASSUME NEW k \in Policies, NEW scored \in SUBSET Sections, CreateScoringPolicyDraft(k, p, scored)
      PROVE  Inv'
  <2>1. [scored |-> scored] \in Contents(k) /\ k \in Versions /\ k \notin Batches
    BY Kinds DEF PolicyContent, Versions
  <2> QED BY <1>3, <2>1, CreateKeeps DEF CreateScoringPolicyDraft
<1>4. ASSUME NEW b \in Blueprints, NEW config \in BlueprintConfigs, CreateExamBlueprintDraft(b, p, config)
      PROVE  Inv'
  <2>1. [config |-> config] \in Contents(b) /\ b \in Versions /\ b \notin Batches
    BY Kinds DEF BlueprintContent, Versions
  <2> QED BY <1>4, <2>1, CreateKeeps DEF CreateExamBlueprintDraft
<1> QED BY <1>1, <1>2, <1>3, <1>4, NewFormKeeps, NewBatchKeeps DEF Create

LEMMA NextKeeps ==
  ASSUME Inv, [Next]_vars
  PROVE  Inv'
<1>1. CASE UNCHANGED vars
  BY <1>1 DEF vars, Inv, LogFits
<1>2. ASSUME NEW p \in Staff, Create(p) PROVE Inv'
  BY <1>2, CreatesKeep
<1>3. ASSUME NEW r \in Requests, Finish(r) PROVE Inv'
  <2>1. CASE Crash(r)
    BY <2>1, DoneKeeps DEF Crash
  <2> QED BY <1>3, <2>1, InsertKeeps, EditKeeps, VoidKeeps, ApproveVettedKeeps, StatusKeeps DEF Finish
<1>4. ASSUME NEW r \in Requests, \E to \in Statuses, p \in Staff : Move(r, to, p) PROVE Inv'
  BY <1>4, MoveKeeps
<1>5. ASSUME NEW r \in Requests, \E p \in Staff : Approve(r, p) PROVE Inv'
  BY <1>5, ApproveKeeps
<1>6. ASSUME NEW r \in Requests, EditOther(r) \/ \E q \in Questions : EditQuestion(r, q) PROVE Inv'
  BY <1>6, EditOtherKeeps, EditQuestionKeeps
<1> QED BY <1>1, <1>2, <1>3, <1>4, <1>5, <1>6 DEF Next

LEMMA AlwaysInv == Spec => []Inv
BY InitInv, NextKeeps, PTL DEF Spec

----------------------------------------------------------------------------
(* Every reachable row is absent or of its kind, every entry of a history  *)
(* is a status, and a request is idle or at one of its steps (the columns  *)
(* of schema/exam-config.ts, exam-batches.ts and questions.ts).            *)
THEOREM TypeCorrect == Spec => []TypeOK
<1>1. Inv => TypeOK
  <2> SUFFICES ASSUME Inv PROVE TypeOK
    OBVIOUS
  <2>1. \A v \in Versions : Exists(v) => row[v] \in Rows(v)
    BY DEF Inv, RowsFit, RowFits, Exists, There
  <2>2. \A q \in Questions : \A n \in 1..Len(log[q]) : log[q][n] \in Statuses
    BY DEF Inv, LogFits
  <2>3. \A r \in Requests : call[r] # Idle =>
           call[r].pc \in {"insert", "edit", "void", "vetted", "write"}
    BY DEF Inv, CallsFit, CallFits
  <2> QED BY <2>1, <2>2, <2>3 DEF TypeOK
<1> QED BY <1>1, AlwaysInv, PTL

(* Whatever requests overlap or die, what a form or a batch pins exists    *)
(* and passed its review: the lock of a version is set by the status that  *)
(* makes it citable and no stale write takes it off again.                 *)
THEOREM PinsWereReviewed == Spec => []RestsOnReviewed
<1>1. Inv => RestsOnReviewed
  BY DEF Inv, RowsFit, RowFits, Reviews, RestsOnReviewed, Exists, There
<1> QED BY <1>1, AlwaysInv, PTL

(* A question's review history ends with its status.                       *)
THEOREM HistoryEndsWithStatus == Spec => []HistoryMatchesStatus
<1>1. Inv => HistoryMatchesStatus
  BY DEF Inv, LogFits, HistoryMatchesStatus, Exists, There
<1> QED BY <1>1, AlwaysInv, PTL

(* Coherent windows show the answer key after every release they plan.     *)
LEMMA KeyComesLast ==
  ASSUME NEW w, IsWindowSet(w), Coherent(w), NEW t \in Int
  PROVE  KeyAfterEverything(w, t)
<1> SUFFICES ASSUME PublishedState(w, t) = "review_open"
             PROVE  /\ t >= w["attempt"].ends
                    /\ \A type \in {"late_sync_cutoff", "provisional_result_release",
                                    "final_result_release", "explanation_release"} :
                         Owns(w, type) => Reached(w, type, t)
  BY DEF KeyAfterEverything, KeyShown
<1>1. Owns(w, "attempt") /\ w["attempt"].ends \in Int
      /\ \A type \in WindowTypes : Owns(w, type) => w[type].starts \in Int
  BY DEF IsWindowSet, Coherent, Owns
<1>2. /\ t >= w["attempt"].ends
      /\ Owns(w, "late_sync_cutoff") => Reached(w, "late_sync_cutoff", t)
      /\ FirstReleaseReached(w, t) /\ Reached(w, "explanation_release", t)
  BY <1>1 DEF PublishedState
<1>3. t >= FinalOrEnd(w)
  BY <1>1, <1>2 DEF Coherent, AtOrAfter, Reached, FinalOrEnd, WindowTypes
<1>4. Owns(w, "final_result_release") => Reached(w, "final_result_release", t)
  BY <1>3 DEF FinalOrEnd, Reached
<1>5. Owns(w, "provisional_result_release") => Reached(w, "provisional_result_release", t)
  <2>1. CASE Owns(w, "final_result_release")
    BY <1>1, <1>3, <2>1 DEF Coherent, AtOrAfter, Reached, FinalOrEnd, ProvisionalOrEnd, WindowTypes
  <2>2. CASE ~Owns(w, "final_result_release")
    BY <1>2, <2>2 DEF FirstReleaseReached
  <2> QED BY <2>1, <2>2
<1> QED BY <1>2, <1>4, <1>5

(* The states of any windows only move on. *)
LEMMA StatesMoveOn ==
  ASSUME NEW w, IsWindowSet(w), Owns(w, "attempt"), NEW t1 \in Int, NEW t2 \in Int
  PROVE  OnlyMovesOn(w, t1, t2)
<1> SUFFICES ASSUME t1 <= t2
             PROVE  /\ Rank(PublishedState(w, t1)) <= Rank(PublishedState(w, t2))
                    /\ ScoreShown(PublishedState(w, t1)) => ScoreShown(PublishedState(w, t2))
  BY DEF OnlyMovesOn
<1> DEFINE Started(t) == /\ Owns(w, "registration") => t >= w["registration"].starts
                         /\ Owns(w, "registration") => t >= w["registration"].ends
                         /\ t >= w["attempt"].starts
           Over(t) == Started(t) /\ t >= w["attempt"].ends
           Closed(t) == Over(t) /\ (Owns(w, "late_sync_cutoff") => Reached(w, "late_sync_cutoff", t))
           Shown(t) == Closed(t) /\ FirstReleaseReached(w, t)
           Final(t) == Reached(w, "final_result_release", t)
           Key(t) == Reached(w, "explanation_release", t)
<1>1. /\ Owns(w, "registration") => w["registration"].starts \in Int /\ w["registration"].ends \in Int
      /\ w["attempt"].starts \in Int /\ w["attempt"].ends \in Int
      /\ \A type \in WindowTypes : Owns(w, type) => w[type].starts \in Int
  BY DEF IsWindowSet, Owns
<1>2. \A type \in WindowTypes : Reached(w, type, t1) => Reached(w, type, t2)
  BY <1>1 DEF Reached
<1>3. /\ Started(t1) => Started(t2)
      /\ Over(t1) => Over(t2)
      /\ Closed(t1) => Closed(t2)
      /\ Shown(t1) => Shown(t2)
      /\ Final(t1) => Final(t2)
      /\ Key(t1) => Key(t2)
  <2>1. Started(t1) => Started(t2)
    BY <1>1
  <2>2. Over(t1) => Over(t2)
    BY <1>1, <2>1
  <2>3. Closed(t1) => Closed(t2)
    BY <1>2, <2>2 DEF WindowTypes
  <2>4. FirstReleaseReached(w, t1) => FirstReleaseReached(w, t2)
    BY <1>2 DEF FirstReleaseReached, WindowTypes
  <2> QED BY <1>2, <2>1, <2>2, <2>3, <2>4 DEF WindowTypes
<1>4. ASSUME NEW t \in Int
      PROVE  PublishedState(w, t) \in
               IF ~Started(t) THEN {"scheduled", "registration_open"}
               ELSE IF ~Over(t) THEN {"exam_open"}
               ELSE IF ~Closed(t) THEN {"exam_closed"}
               ELSE IF ~Shown(t) THEN {"scoring"}
               ELSE IF Key(t) THEN {"review_open"}
               ELSE IF Final(t) THEN {"final_released"} ELSE {"provisional_released"}
  BY <1>1 DEF PublishedState
<1> HIDE DEF Started, Over, Closed, Shown, Final, Key
<1> DEFINE s1 == PublishedState(w, t1)
           s2 == PublishedState(w, t2)
<1>5. /\ s1 \in IF ~Started(t1) THEN {"scheduled", "registration_open"}
               ELSE IF ~Over(t1) THEN {"exam_open"}
               ELSE IF ~Closed(t1) THEN {"exam_closed"}
               ELSE IF ~Shown(t1) THEN {"scoring"}
               ELSE IF Key(t1) THEN {"review_open"}
               ELSE IF Final(t1) THEN {"final_released"} ELSE {"provisional_released"}
      /\ s2 \in IF ~Started(t2) THEN {"scheduled", "registration_open"}
               ELSE IF ~Over(t2) THEN {"exam_open"}
               ELSE IF ~Closed(t2) THEN {"exam_closed"}
               ELSE IF ~Shown(t2) THEN {"scoring"}
               ELSE IF Key(t2) THEN {"review_open"}
               ELSE IF Final(t2) THEN {"final_released"} ELSE {"provisional_released"}
  BY <1>4
<1> HIDE DEF s1, s2
<1>6. /\ Rank("scheduled") = 0 /\ Rank("registration_open") = 0 /\ Rank("exam_open") = 1
      /\ Rank("exam_closed") = 2 /\ Rank("scoring") = 3 /\ Rank("provisional_released") = 4
      /\ Rank("final_released") = 5 /\ Rank("review_open") = 6
  BY DEF Rank
<1>7. Rank(s1) <= Rank(s2) /\ (ScoreShown(s1) => ScoreShown(s2))
  BY <1>3, <1>5, <1>6 DEF ScoreShown
<1> QED BY <1>7 DEF s1, s2

(* Whatever the interleaving, a batch's windows show its answer key last   *)
(* and its state only moves on: its windows are only ever replaced by a    *)
(* coherent set, in one write.                                             *)
THEOREM ReleasesComeInOrder == Spec => []ReleasesInOrder
<1>1. Inv => ReleasesInOrder
  <2> SUFFICES ASSUME Inv, NEW b \in Batches, Exists(b), row[b].content.windows # <<>>,
                      NEW t1 \in Instants(row[b].content.windows),
                      NEW t2 \in Instants(row[b].content.windows)
               PROVE  KeyAfterEverything(row[b].content.windows, t1)
                      /\ OnlyMovesOn(row[b].content.windows, t1, t2)
    BY DEF ReleasesInOrder
  <2> DEFINE w == row[b].content.windows
  <2>1. w \in WindowSets /\ Coherent(w)
    BY DEF Inv, RowsFit, RowFits, Exists, There, Versions
  <2>2. IsWindowSet(w) /\ Owns(w, "attempt")
    BY <2>1, WindowsAssumption DEF Coherent
  <2>3. t1 \in Int /\ t2 \in Int
    BY <2>2 DEF Instants, IsWindowSet
  <2> HIDE DEF w
  <2> QED BY <2>1, <2>2, <2>3, KeyComesLast, StatesMoveOn DEF w
<1> QED BY <1>1, AlwaysInv, PTL

----------------------------------------------------------------------------
(* Requests that do not overlap: what an approval vetted still holds when  *)
(* its status is written, and what it rests on is final.                   *)

Issued(rows, v) == There(rows, v) /\ rows[v].status \in {"published", "archived"}

(* A form pins a blueprint that was published and the policy it names, a   *)
(* batch a form that was.                                                  *)
PinsBlueprint(rows, pins) ==
  \E b \in Blueprints : Issued(rows, b) /\ pins = {b, rows[b].content.config.policy}
PinsForm(rows, pins) == \E f \in Forms : Issued(rows, f) /\ pins = {f}

(* What an approval vets of a blueprint, a form and a batch. *)
Composed(rows, items, b) ==
  /\ Fits(items, rows[b].content.config.structure)
  /\ \A i \in items : Issued(rows, i.question)

Supported(rows, config) ==
  /\ Issued(rows, config.policy) /\ rows[config.policy].content.scored = config.checksum
  /\ Publishable(config, rows[config.policy].content.scored)

Ready(rows, v) ==
  /\ v \in Blueprints => Supported(rows, rows[v].content.config)
  /\ v \in Forms => \A b \in Blueprints : b \in rows[v].pins => Composed(rows, rows[v].content.items, b)
  /\ v \in Batches => Coherent(rows[v].content.windows)

Stands(rows) ==
  /\ \A f \in Forms : There(rows, f) => PinsBlueprint(rows, rows[f].pins)
  /\ \A b \in Batches : There(rows, b) => PinsForm(rows, rows[b].pins)
  /\ \A v \in Versions : There(rows, v) /\ rows[v].status \in Locked => Ready(rows, v)

(* What the one request in progress has checked still holds. *)
CallStands(rows, c) ==
  /\ c.pc = "insert" => /\ c.version \in Forms => PinsBlueprint(rows, c.pins)
                        /\ c.version \in Batches => PinsForm(rows, c.pins)
  /\ c.pc = "edit" => rows[c.version].status \notin Locked
  /\ c.pc = "vetted" => There(rows, c.version) /\ Ready(rows, c.version)
  /\ c.pc = "write" => /\ c.to \in Edges[rows[c.version].status]
                       /\ c.to \in Locked => Ready(rows, c.version)

AloneWith(calls, r) == \A x \in Requests \ {r} : calls[x] = Idle

TurnInv ==
  InTurn => /\ Stands(row)
            /\ \A r \in Requests : call[r] # Idle => AloneWith(call, r) /\ CallStands(row, call[r])

(* What a published blueprint names is a policy. *)
LEMMA BlueprintNamesPolicy ==
  ASSUME NEW rows, RowsFit(rows), NEW b \in Blueprints, There(rows, b)
  PROVE  /\ rows[b].content.config.policy \in Policies
         /\ rows[b].content.config.policy \in Versions /\ b \in Versions
<1>1. b \in Versions /\ rows[b].content \in BlueprintContent
  BY Kinds DEF Versions, RowsFit, RowFits, Rows
<1> QED BY <1>1 DEF BlueprintContent, BlueprintConfigs, Versions

(* What was vetted does not change while what it rests on is final. *)
LEMMA ReadyStays ==
  ASSUME NEW rows, NEW rows2, NEW v \in Versions,
         RowsFit(rows), RowsFit(rows2), There(rows, v), Ready(rows, v), Stands(rows),
         \A w \in Versions : Issued(rows, w) =>
           Issued(rows2, w) /\ (w \notin Batches => rows2[w].content = rows[w].content),
         rows2[v].pins = rows[v].pins,
         \/ rows2[v].content = rows[v].content
         \/ v \in Batches /\ rows2[v].content.windows = rows[v].content.windows
  PROVE  Ready(rows2, v)
<1>1. CASE v \in Blueprints
  <2>1. v \notin Batches /\ v \notin Forms
    BY <1>1, KindsAssumption
  <2> DEFINE k == rows[v].content.config.policy
  <2>2. k \in Versions /\ k \notin Batches /\ Issued(rows, k)
    BY <1>1, BlueprintNamesPolicy, Kinds DEF Ready, Supported
  <2>3. Supported(rows2, rows[v].content.config)
    BY <1>1, <2>2 DEF Ready, Supported
  <2> QED BY <2>1, <2>3 DEF Ready
<1>2. CASE v \in Forms
  <2>1. v \notin Batches /\ v \notin Blueprints
    BY <1>2, KindsAssumption
  <2>2. rows2[v].content = rows[v].content
    BY <2>1
  <2>3. v \in Forms => \A b \in Blueprints : b \in rows[v].pins => Composed(rows, rows[v].content.items, b)
    BY DEF Ready
  <2>4. rows[v].content.items \subseteq Items
    <3>1. rows[v].content \in FormContent
      BY <1>2, Kinds DEF RowsFit, RowFits, Rows
    <3> QED BY <3>1 DEF FormContent
  <2>5. ASSUME NEW b \in Blueprints, b \in rows[v].pins
        PROVE  Composed(rows2, rows[v].content.items, b)
    <3>1. PICK b2 \in Blueprints : Issued(rows, b2) /\ rows[v].pins = {b2, rows[b2].content.config.policy}
      BY <1>2 DEF Stands, PinsBlueprint
    <3>2. b2 = b
      <4>1. rows[b2].content.config.policy \in Policies
        BY <3>1, BlueprintNamesPolicy DEF Issued
      <4> QED BY <2>5, <3>1, <4>1, KindsAssumption
    <3>3. b \in Versions /\ b \notin Batches
      BY Kinds DEF Versions
    <3>4. rows2[b].content = rows[b].content
      BY <3>1, <3>2, <3>3
    <3>5. Composed(rows, rows[v].content.items, b)
      BY <1>2, <2>3, <2>5
    <3>6. \A i \in rows[v].content.items : i.question \in Versions
      BY <2>4, ItemsAssumption DEF Versions
    <3> QED BY <3>4, <3>5, <3>6 DEF Composed
  <2> QED BY <2>1, <2>2, <2>5 DEF Ready
<1>3. CASE v \in Batches
  <2>1. v \notin Blueprints /\ v \notin Forms
    BY <1>3, KindsAssumption
  <2> QED BY <1>3, <2>1 DEF Ready
<1>4. CASE v \notin Blueprints \cup Forms \cup Batches
  BY <1>4 DEF Ready
<1> QED BY <1>1, <1>2, <1>3, <1>4

(* One row written, by a request that had the rows to itself. *)
LEMMA StandsStays ==
  ASSUME NEW rows, NEW rows2, NEW v \in Versions, NEW it,
         RowsFit(rows), RowsFit(rows2), Stands(rows), rows2 = [rows EXCEPT ![v] = it],
         There(rows, v) => it.pins = rows[v].pins,
         There(rows, v) /\ rows[v].status \in Locked => it.status \in Locked,
         Issued(rows, v) => it.status \in {"published", "archived"},
         it.status \in Locked =>
           /\ There(rows, v) /\ Ready(rows, v)
           /\ \/ it.content = rows[v].content
              \/ v \in Batches /\ it.content.windows = rows[v].content.windows,
         ~There(rows, v) => /\ v \in Forms => PinsBlueprint(rows, it.pins)
                            /\ v \in Batches => PinsForm(rows, it.pins)
  PROVE  Stands(rows2)
<1>1. \A w \in Versions : rows2[w] = IF w = v THEN it ELSE rows[w]
  BY DEF RowsFit
<1>2. {"published", "archived"} \subseteq Locked /\ "absent" \notin Locked
  BY DEF Locked
<1>3. \A w \in Versions : Issued(rows, w) =>
        Issued(rows2, w) /\ (w \notin Batches => rows2[w].content = rows[w].content)
  BY <1>1, <1>2 DEF Issued, There
<1>4. \A pins : PinsBlueprint(rows, pins) => PinsBlueprint(rows2, pins)
  <2>1. \A b \in Blueprints : b \in Versions /\ b \notin Batches
    BY Kinds DEF Versions
  <2> QED BY <1>3, <2>1 DEF PinsBlueprint
<1>5. \A pins : PinsForm(rows, pins) => PinsForm(rows2, pins)
  <2>1. \A f \in Forms : f \in Versions
    BY DEF Versions
  <2> QED BY <1>3, <2>1 DEF PinsForm
<1>6. ASSUME NEW f \in Forms, There(rows2, f) PROVE PinsBlueprint(rows2, rows2[f].pins)
  <2>1. f \in Versions
    BY DEF Versions
  <2>2. CASE There(rows, f)
    BY <1>1, <1>4, <2>1, <2>2 DEF Stands
  <2>3. CASE ~There(rows, f)
    BY <1>1, <1>4, <1>6, <2>1, <2>3 DEF There
  <2> QED BY <2>2, <2>3
<1>7. ASSUME NEW b \in Batches, There(rows2, b) PROVE PinsForm(rows2, rows2[b].pins)
  <2>1. b \in Versions
    BY DEF Versions
  <2>2. CASE There(rows, b)
    BY <1>1, <1>5, <2>1, <2>2 DEF Stands
  <2>3. CASE ~There(rows, b)
    BY <1>1, <1>5, <1>7, <2>1, <2>3 DEF There
  <2> QED BY <2>2, <2>3
<1>8. ASSUME NEW w \in Versions, There(rows2, w), rows2[w].status \in Locked PROVE Ready(rows2, w)
  <2>1. There(rows, w) /\ Ready(rows, w) /\ rows2[w].pins = rows[w].pins
        /\ (rows2[w].content = rows[w].content
            \/ (w \in Batches /\ rows2[w].content.windows = rows[w].content.windows))
    BY <1>1, <1>8 DEF Stands, There
  <2> QED BY <1>3, <2>1, ReadyStays
<1> QED BY <1>6, <1>7, <1>8 DEF Stands

LEMMA TurnInit == Init => TurnInv
<1> SUFFICES ASSUME Init PROVE TurnInv
  OBVIOUS
<1>1. \A v \in Versions : ~There(row, v)
  BY DEF Init, There, Absent
<1>2. Forms \subseteq Versions /\ Batches \subseteq Versions
  BY DEF Versions
<1>3. Stands(row)
  BY <1>1, <1>2 DEF Stands
<1>4. \A r \in Requests : call[r] = Idle
  BY DEF Init
<1> QED BY <1>3, <1>4 DEF TurnInv

(* Who is free to begin is alone. *)
LEMMA FreeIsAlone ==
  ASSUME TurnInv, InTurn, NEW r \in Requests, Free(r)
  PROVE  \A x \in Requests : call[x] = Idle
<1> SUFFICES ASSUME NEW x \in Requests, call[x] # Idle PROVE FALSE
  OBVIOUS
<1>1. {y \in Requests : call[y] # Idle} = {x}
  BY DEF TurnInv, AloneWith
<1>2. Cardinality({y \in Requests : call[y] # Idle}) = 1
  BY <1>1, FS_Singleton
<1> QED BY <1>2 DEF Free, InTurn

(* A request begins, or goes on, without writing. *)
LEMMA TurnTakes ==
  ASSUME Inv, TurnInv, NEW r \in Requests, NEW c, Take(r, c), UNCHANGED <<row, scene>>,
         InTurn => AloneWith(call, r) /\ CallStands(row, c)
  PROVE  TurnInv'
<1>1. \A x \in Requests : call'[x] = IF x = r THEN c ELSE call[x]
  BY DEF Take, Inv, CallsFit
<1>2. InTurn' <=> InTurn
  BY DEF InTurn
<1> SUFFICES ASSUME InTurn
             PROVE  /\ Stands(row')
                    /\ \A x \in Requests : call'[x] # Idle =>
                         AloneWith(call', x) /\ CallStands(row', call'[x])
  BY <1>2 DEF TurnInv
<1>3. Stands(row')
  BY DEF TurnInv
<1>4. ASSUME NEW x \in Requests, call'[x] # Idle
      PROVE  AloneWith(call', x) /\ CallStands(row', call'[x])
  <2>1. x = r
    BY <1>1, <1>4 DEF AloneWith
  <2> QED BY <1>1, <2>1 DEF AloneWith
<1> QED BY <1>3, <1>4

LEMMA TurnBegins ==
  ASSUME Inv, TurnInv, NEW r \in Requests, NEW c, Free(r), Take(r, c), UNCHANGED <<row, scene>>,
         InTurn => CallStands(row, c)
  PROVE  TurnInv'
<1>1. InTurn => AloneWith(call, r)
  BY FreeIsAlone DEF AloneWith
<1> QED BY <1>1, TurnTakes

(* A request that goes on was alone. *)
LEMMA TurnGoesOn ==
  ASSUME Inv, TurnInv, NEW r \in Requests, NEW c, call[r] # Idle, Take(r, c),
         UNCHANGED <<row, scene>>, InTurn /\ CallStands(row, call[r]) => CallStands(row, c)
  PROVE  TurnInv'
<1>1. InTurn => AloneWith(call, r) /\ CallStands(row, call[r])
  BY DEF TurnInv
<1> QED BY <1>1, TurnTakes

(* A request writes and is done. *)
LEMMA TurnWrites ==
  ASSUME Inv, TurnInv, NEW r \in Requests, call[r] # Idle, Done(r), UNCHANGED scene,
         InTurn /\ Stands(row) /\ CallStands(row, call[r]) => Stands(row')
  PROVE  TurnInv'
<1>1. \A x \in Requests : call'[x] = IF x = r THEN Idle ELSE call[x]
  BY DEF Done, Take, Inv, CallsFit
<1>2. InTurn' <=> InTurn
  BY DEF InTurn
<1> SUFFICES ASSUME InTurn
             PROVE  Stands(row') /\ \A x \in Requests : call'[x] = Idle
  BY <1>2 DEF TurnInv
<1> QED BY <1>1 DEF TurnInv, AloneWith

LEMMA TurnCreate ==
  ASSUME Inv, TurnInv, Inv', NEW v \in Versions, v \notin Forms \cup Batches, NEW p \in Staff,
         NEW content, CreateDraft(v, p, content)
  PROVE  TurnInv'
<1> DEFINE it == NewRow(p, {}, content)
<1>1. /\ row' = [row EXCEPT ![v] = it] /\ UNCHANGED <<log, call, scene>> /\ ~There(row, v)
      /\ \E r \in Requests : Free(r)
  BY DEF CreateDraft, Exists, There
<1>2. it.status = "draft" /\ "draft" \notin Locked
  BY DEF NewRow, Locked
<1> HIDE DEF it
<1>3. InTurn' <=> InTurn
  BY <1>1 DEF InTurn
<1> SUFFICES ASSUME InTurn PROVE Stands(row') /\ \A x \in Requests : call'[x] = Idle
  BY <1>3 DEF TurnInv
<1>4. \A x \in Requests : call'[x] = Idle
  BY <1>1, FreeIsAlone
<1>5. RowsFit(row) /\ RowsFit(row') /\ Stands(row)
  BY DEF Inv, TurnInv
<1>6. ~Issued(row, v)
  BY <1>1 DEF Issued
<1>7. Stands(row')
  BY <1>1, <1>2, <1>5, <1>6, StandsStays
<1> QED BY <1>4, <1>7

LEMMA TurnInsert ==
  ASSUME Inv, TurnInv, Inv', NEW r \in Requests, Insert(r)
  PROVE  TurnInv'
<1> DEFINE c == call[r]
           it == NewRow(c.by, c.pins, c.content)
<1>1. /\ c.pc = "insert" /\ Done(r) /\ UNCHANGED scene /\ c # Idle
      /\ row' = IF Exists(c.version) THEN row ELSE [row EXCEPT ![c.version] = it]
  BY DEF Insert, Idle
<1>2. c.version \in Versions
  BY <1>1 DEF Inv, CallsFit, CallFits, Idle, Versions
<1>3. ASSUME Stands(row), CallStands(row, c) PROVE Stands(row')
  <2>1. CASE Exists(c.version)
    BY <1>1, <1>3, <2>1
  <2>2. CASE ~Exists(c.version)
    <3>1. row' = [row EXCEPT ![c.version] = it] /\ ~There(row, c.version) /\ ~Issued(row, c.version)
      BY <1>1, <2>2 DEF Exists, There, Issued
    <3>2. it.status = "draft" /\ it.pins = c.pins /\ "draft" \notin Locked
      BY DEF NewRow, Locked
    <3> HIDE DEF it
    <3>3. /\ c.version \in Forms => PinsBlueprint(row, it.pins)
          /\ c.version \in Batches => PinsForm(row, it.pins)
      BY <1>1, <1>3, <3>2 DEF CallStands
    <3>4. RowsFit(row) /\ RowsFit(row')
      BY DEF Inv
    <3> QED BY <1>2, <1>3, <3>1, <3>2, <3>3, <3>4, StandsStays
  <2> QED BY <2>1, <2>2
<1> QED BY <1>1, <1>3, TurnWrites

(* An edit writes what no status locks. *)
LEMMA TurnEdit ==
  ASSUME Inv, TurnInv, Inv', NEW r \in Requests, Edit(r)
  PROVE  TurnInv'
<1> DEFINE c == call[r]
           v == c.version
           content == [row[v].content EXCEPT ![c.part] =
                         IF c.part = "assets" THEN @ \cup c.value ELSE c.value]
           it == [row[v] EXCEPT !.content = content]
<1>1. c.pc = "edit" /\ Done(r) /\ UNCHANGED scene /\ c # Idle
  BY DEF Edit, Idle
<1>2. v \in Versions /\ There(row, v)
  BY <1>1 DEF Inv, CallsFit, CallFits, Idle, Versions
<1>3. row' = [row EXCEPT ![v] = it]
  BY <1>2 DEF Edit, Inv, RowsFit
<1>4. it.status = row[v].status /\ it.pins = row[v].pins
  BY <1>2 DEF Inv, RowsFit, RowFits, Rows
<1> HIDE DEF it
<1>5. ASSUME Stands(row), CallStands(row, c) PROVE Stands(row')
  <2>1. row[v].status \notin Locked
    BY <1>1, <1>5 DEF CallStands
  <2>2. ~Issued(row, v)
    BY <2>1 DEF Issued, Locked
  <2>3. RowsFit(row) /\ RowsFit(row')
    BY DEF Inv
  <2> QED BY <1>2, <1>3, <1>4, <1>5, <2>1, <2>2, <2>3, StandsStays
<1> QED BY <1>1, <1>5, TurnWrites

LEMMA TurnVoid ==
  ASSUME Inv, TurnInv, Inv', NEW r \in Requests, Void(r)
  PROVE  TurnInv'
<1> DEFINE c == call[r]
           v == c.version
           it == [row[v] EXCEPT !.content = [row[v].content EXCEPT !.voided = TRUE]]
<1>1. c.pc = "void" /\ Done(r) /\ UNCHANGED scene /\ c # Idle
  BY DEF Void, Idle
<1>2. v \in Versions /\ There(row, v) /\ v \in Batches
  BY <1>1 DEF Inv, CallsFit, CallFits, Idle, Versions
<1>3. row' = [row EXCEPT ![v] = it]
  BY <1>2 DEF Void, Inv, RowsFit
<1>4. row[v].content \in BatchContent /\ row[v] \in Rows(v)
  BY <1>2, Kinds DEF Inv, RowsFit, RowFits, Rows
<1>5. it.status = row[v].status /\ it.pins = row[v].pins /\ it.content.windows = row[v].content.windows
  BY <1>4 DEF Rows, BatchContent
<1> HIDE DEF it
<1>6. ASSUME Stands(row) PROVE Stands(row')
  <2>1. RowsFit(row) /\ RowsFit(row')
    BY DEF Inv
  <2>2. row[v].status \in Locked => Ready(row, v)
    BY <1>2, <1>6 DEF Stands
  <2>3. Issued(row, v) => it.status \in {"published", "archived"}
    BY <1>5 DEF Issued
  <2> QED BY <1>2, <1>3, <1>5, <1>6, <2>1, <2>2, <2>3, StandsStays
<1> QED BY <1>1, <1>6, TurnWrites

(* A status is written that the row's own allows and, if it locks, that    *)
(* what was vetted still bears out. *)
LEMMA TurnStatus ==
  ASSUME Inv, TurnInv, Inv', NEW r \in Requests, Write(r)
  PROVE  TurnInv'
<1> DEFINE c == call[r]
           v == c.version
           it == [row[v] EXCEPT !.status = c.to, !.locked = Stamp(row[v].locked, c.seen, c.to)]
<1>1. c.pc = "write" /\ Done(r) /\ UNCHANGED scene /\ c # Idle
  BY DEF Write, Idle
<1>2. v \in Versions /\ There(row, v)
  BY <1>1 DEF Inv, CallsFit, CallFits, Idle
<1>3. RowFits(row, v, row[v])
  BY <1>2 DEF Inv, RowsFit
<1>4. row' = [row EXCEPT ![v] = it]
  BY <1>2, <1>3 DEF Write, Inv, RowsFit, RowFits, Rows
<1>5. it.status = c.to /\ it.pins = row[v].pins /\ it.content = row[v].content
  BY <1>3 DEF RowFits, Rows
<1> HIDE DEF it
<1>6. ASSUME Stands(row), CallStands(row, c) PROVE Stands(row')
  <2>1. /\ c.to \in Edges[row[v].status] /\ row[v].status \in Statuses
        /\ c.to \in Locked => Ready(row, v)
    BY <1>1, <1>3, <1>6 DEF CallStands, RowFits, Rows
  <2>2. /\ row[v].status \in Locked => c.to \in Locked
        /\ row[v].status \in {"published", "archived"} => c.to \in {"published", "archived"}
    BY <2>1 DEF Edges, Locked, Statuses
  <2>3. RowsFit(row) /\ RowsFit(row')
    BY DEF Inv
  <2>4. Issued(row, v) => it.status \in {"published", "archived"}
    BY <1>5, <2>2 DEF Issued
  <2> QED BY <1>2, <1>4, <1>5, <1>6, <2>1, <2>2, <2>3, <2>4, StandsStays
<1> QED BY <1>1, <1>6, TurnWrites

LEMMA TurnNewForm ==
  ASSUME Inv, TurnInv, NEW r \in Requests, NEW v \in Forms, NEW p \in Staff, NEW b \in Blueprints,
         CreateExamFormDraft(r, v, p, b)
  PROVE  TurnInv'
<1> DEFINE c == [pc |-> "insert", version |-> v, by |-> p,
                 pins |-> {b, row[b].content.config.policy}, content |-> [items |-> {}]]
<1>1. Free(r) /\ Take(r, c) /\ UNCHANGED <<row, scene>> /\ Published(b)
  BY DEF CreateExamFormDraft
<1>2. Issued(row, b)
  BY <1>1 DEF Published, Exists, Issued, There
<1>3. PinsBlueprint(row, c.pins)
  BY <1>2 DEF PinsBlueprint
<1>4. c.pc = "insert" /\ c.version = v /\ v \notin Batches
  BY Kinds
<1> HIDE DEF c
<1>5. CallStands(row, c)
  BY <1>3, <1>4 DEF CallStands
<1> QED BY <1>1, <1>5, TurnBegins

LEMMA TurnNewBatch ==
  ASSUME Inv, TurnInv, NEW r \in Requests, NEW v \in Batches, NEW p \in Staff, NEW f \in Forms,
         NEW t \in Texts, CreateExamBatchDraft(r, v, p, f, t)
  PROVE  TurnInv'
<1> DEFINE c == [pc |-> "insert", version |-> v, by |-> p, pins |-> {f},
                 content |-> [identity |-> t, windows |-> <<>>, voided |-> FALSE]]
<1>1. Free(r) /\ Take(r, c) /\ UNCHANGED <<row, scene>> /\ Published(f)
  BY DEF CreateExamBatchDraft
<1>2. Issued(row, f)
  BY <1>1 DEF Published, Exists, Issued, There
<1>3. PinsForm(row, c.pins)
  BY <1>2 DEF PinsForm
<1>4. c.pc = "insert" /\ c.version = v /\ v \notin Forms
  BY Kinds
<1> HIDE DEF c
<1>5. CallStands(row, c)
  BY <1>3, <1>4 DEF CallStands
<1> QED BY <1>1, <1>5, TurnBegins

LEMMA TurnCreates ==
  ASSUME Inv, TurnInv, Inv', NEW p \in Staff, Create(p)
  PROVE  TurnInv'
<1>1. \A v \in Questions \cup Stimuli \cup Policies \cup Blueprints :
         v \in Versions /\ v \notin Forms \cup Batches
  BY KindsAssumption DEF Versions
<1>2. CASE \E v \in Versions : v \notin Forms \cup Batches /\ \E content : CreateDraft(v, p, content)
  BY <1>2, TurnCreate
<1>3. CASE \/ \E r \in Requests, f \in Forms, b \in Blueprints : CreateExamFormDraft(r, f, p, b)
           \/ \E r \in Requests, b \in Batches, f \in Forms, t \in Texts :
                CreateExamBatchDraft(r, b, p, f, t)
  BY <1>3, TurnNewForm, TurnNewBatch
<1>4. \/ \E v \in Versions : v \notin Forms \cup Batches /\ \E content : CreateDraft(v, p, content)
      \/ \E r \in Requests, f \in Forms, b \in Blueprints : CreateExamFormDraft(r, f, p, b)
      \/ \E r \in Requests, b \in Batches, f \in Forms, t \in Texts :
           CreateExamBatchDraft(r, b, p, f, t)
  BY <1>1 DEF Create, CreateQuestionDraft, CreateStimulusDraft, CreateScoringPolicyDraft,
              CreateExamBlueprintDraft
<1> QED BY <1>2, <1>3, <1>4

LEMMA TurnBeginEdit ==
  ASSUME Inv, TurnInv, NEW r \in Requests, NEW v, NEW part, NEW value,
         BeginEdit(r, v, part, value)
  PROVE  TurnInv'
<1> DEFINE c == [pc |-> "edit", version |-> v, part |-> part, value |-> value]
<1>1. Free(r) /\ Take(r, c) /\ UNCHANGED <<row, scene>> /\ row[v].status \notin Locked
  BY DEF BeginEdit, Mutable
<1>2. CallStands(row, c)
  BY <1>1 DEF CallStands
<1> QED BY <1>1, <1>2, TurnBegins

LEMMA TurnEdits ==
  ASSUME Inv, TurnInv, NEW r \in Requests,
         EditOther(r) \/ \E q \in Questions : EditQuestion(r, q)
  PROVE  TurnInv'
<1>1. CASE \E v, part, value : BeginEdit(r, v, part, value)
  BY <1>1, TurnBeginEdit
<1>2. ASSUME NEW b \in Batches, VoidExamBatch(r, b) PROVE TurnInv'
  <2> DEFINE c == [pc |-> "void", version |-> b]
  <2>1. Free(r) /\ Take(r, c) /\ UNCHANGED <<row, scene>> /\ CallStands(row, c)
    BY <1>2 DEF VoidExamBatch, CallStands
  <2> QED BY <2>1, TurnBegins
<1>3. (\E b \in Batches : VoidExamBatch(r, b)) \/ \E v, part, value : BeginEdit(r, v, part, value)
  <2>1. CASE \E q \in Questions : EditQuestion(r, q)
    BY <2>1 DEF EditQuestion, UpdateQuestionDraft, SetQuestionOptions, SetQuestionAnswerKey,
                AddQuestionAsset
  <2>2. CASE EditOther(r)
    BY <2>2 DEF EditOther, AddStimulusAsset, UpdateStimulusDraft, UpdateScoringPolicyDraft,
                UpdateExamBlueprintDraft, SetExamFormItems, UpdateExamBatchDraft, SetExamBatchWindows
  <2> QED BY <2>1, <2>2
<1> QED BY <1>1, <1>2, <1>3

(* An approval vets what its status will say. *)
LEMMA TurnVet ==
  ASSUME Inv, TurnInv, NEW r \in Requests, NEW v \in Versions, Vet(r, v), InTurn => Ready(row, v)
  PROVE  TurnInv'
<1> DEFINE c == [pc |-> "vetted", version |-> v]
<1>1. Free(r) /\ Take(r, c) /\ UNCHANGED <<row, scene>> /\ There(row, v)
  BY DEF Vet, Exists, There
<1>2. InTurn => CallStands(row, c)
  BY <1>1 DEF CallStands
<1> QED BY <1>1, <1>2, TurnBegins

LEMMA PublishedIsIssued ==
  ASSUME NEW v, Published(v) PROVE Issued(row, v)
BY DEF Published, Exists, Issued, There

LEMMA TurnApprove ==
  ASSUME Inv, TurnInv, NEW r \in Requests, NEW p \in Staff, Approve(r, p)
  PROVE  TurnInv'
<1>1. ASSUME NEW b \in Blueprints, ApproveExamBlueprint(r, b, p) PROVE TurnInv'
  <2>1. b \in Versions /\ b \notin Forms /\ b \notin Batches /\ Vet(r, b)
    BY <1>1, KindsAssumption DEF Versions, ApproveExamBlueprint
  <2>2. Supported(row, row[b].content.config)
    BY <1>1, PublishedIsIssued DEF ApproveExamBlueprint, Resolves, Supported
  <2>3. Ready(row, b)
    BY <2>1, <2>2 DEF Ready
  <2> QED BY <2>1, <2>3, TurnVet
<1>2. ASSUME NEW f \in Forms, ApproveExamForm(r, f) PROVE TurnInv'
  <2>1. f \in Versions /\ f \notin Blueprints /\ f \notin Batches /\ Vet(r, f) /\ There(row, f)
    BY <1>2, KindsAssumption DEF Versions, ApproveExamForm, Vet, Exists, There
  <2>2. Composed(row, row[f].content.items, PinnedBlueprint(f))
    BY <1>2, PublishedIsIssued DEF ApproveExamForm, Composable, Composed
  <2>3. ASSUME InTurn, NEW b \in Blueprints, b \in row[f].pins PROVE b = PinnedBlueprint(f)
    <3>1. PICK b2 \in Blueprints : Issued(row, b2) /\ row[f].pins = {b2, row[b2].content.config.policy}
      BY <2>1, <2>3 DEF TurnInv, Stands, PinsBlueprint
    <3>2. row[b2].content.config.policy \in Policies
      BY <3>1, BlueprintNamesPolicy DEF Issued, Inv
    <3>3. \A x \in row[f].pins : x \in Blueprints => x = b2
      BY <3>1, <3>2, KindsAssumption
    <3> QED BY <2>3, <3>3 DEF PinnedBlueprint
  <2>4. InTurn => Ready(row, f)
    BY <2>1, <2>2, <2>3 DEF Ready
  <2> QED BY <2>1, <2>4, TurnVet
<1>3. ASSUME NEW b \in Batches, ApproveExamBatch(r, b) PROVE TurnInv'
  <2>1. b \in Versions /\ b \notin Blueprints /\ b \notin Forms /\ Vet(r, b)
    BY <1>3, KindsAssumption DEF Versions, ApproveExamBatch
  <2>2. Ready(row, b)
    BY <1>3, <2>1 DEF ApproveExamBatch, Ready
  <2> QED BY <2>1, <2>2, TurnVet
<1> QED BY <1>1, <1>2, <1>3 DEF Approve

LEMMA TurnApproveVetted ==
  ASSUME Inv, TurnInv, NEW r \in Requests, ApproveVetted(r)
  PROVE  TurnInv'
<1> DEFINE v == call[r].version
           c == [pc |-> "write", version |-> v, to |-> "approved", seen |-> row[v].status]
<1>1. call[r].pc = "vetted" /\ call[r] # Idle /\ UNCHANGED <<row, scene>>
  BY DEF ApproveVetted, Idle
<1>2. CASE Edge(v, "approved")
  <2>1. Take(r, c)
    BY <1>2 DEF ApproveVetted
  <2>2. InTurn /\ CallStands(row, call[r]) => CallStands(row, c)
    BY <1>1, <1>2 DEF CallStands, Edge
  <2> QED BY <1>1, <2>1, <2>2, TurnGoesOn
<1>3. CASE ~Edge(v, "approved")
  <2>1. Take(r, Idle) /\ CallStands(row, Idle)
    BY <1>3 DEF ApproveVetted, Done, CallStands, Idle
  <2> QED BY <1>1, <2>1, TurnGoesOn
<1> QED BY <1>2, <1>3

LEMMA TurnMove ==
  ASSUME Inv, TurnInv, NEW r \in Requests, NEW to \in Statuses, NEW p \in Staff, Move(r, to, p)
  PROVE  TurnInv'
<1>1. PICK v \in Versions : /\ Transition(r, v, to)
                            /\ v \in Blueprints \cup Forms \cup Batches => to # "approved"
  <2>1. \A v \in Questions \cup Stimuli \cup Policies :
          v \in Versions /\ v \notin Blueprints \cup Forms \cup Batches
    BY KindsAssumption DEF Versions
  <2>2. \A v \in Blueprints \cup Forms \cup Batches : v \in Versions
    BY DEF Versions
  <2> QED BY <2>1, <2>2 DEF Move, QuestionTransition, StimulusTransition, PolicyTransition,
                            BlueprintTransition, FormTransition, BatchTransition
<1> DEFINE c == [pc |-> "write", version |-> v, to |-> to, seen |-> row[v].status]
<1>2. /\ Free(r) /\ Take(r, c) /\ UNCHANGED <<row, scene>> /\ There(row, v)
      /\ to \in Edges[row[v].status]
  BY <1>1 DEF Transition, Edge, Exists, There
<1>3. row[v].status \in Statuses
  BY <1>2 DEF Inv, RowsFit, RowFits, Rows
<1>4. ASSUME InTurn, to \in Locked PROVE Ready(row, v)
  <2>1. CASE v \in Blueprints \cup Forms \cup Batches
    <3>1. row[v].status \in Locked
      BY <1>1, <1>2, <1>3, <1>4, <2>1 DEF Edges, Locked, Statuses
    <3> QED BY <1>2, <1>4, <3>1 DEF TurnInv, Stands
  <2>2. CASE v \notin Blueprints \cup Forms \cup Batches
    BY <2>2 DEF Ready
  <2> QED BY <2>1, <2>2
<1>5. InTurn => CallStands(row, c)
  BY <1>2, <1>4 DEF CallStands
<1> QED BY <1>2, <1>5, TurnBegins

LEMMA TurnNext ==
  ASSUME Inv, TurnInv, [Next]_vars
  PROVE  TurnInv'
<1>0. Inv'
  BY NextKeeps
<1>1. CASE UNCHANGED vars
  BY <1>1 DEF vars, TurnInv, InTurn, AloneWith
<1>2. ASSUME NEW p \in Staff, Create(p) PROVE TurnInv'
  BY <1>0, <1>2, TurnCreates
<1>3. ASSUME NEW r \in Requests, Finish(r) PROVE TurnInv'
  <2>1. CASE Crash(r)
    <3>1. Take(r, Idle) /\ CallStands(row, Idle) /\ call[r] # Idle /\ UNCHANGED <<row, scene>>
      BY <2>1 DEF Crash, Done, CallStands, Idle
    <3> QED BY <3>1, TurnGoesOn
  <2>2. CASE WriteQuestion(r) \/ WriteOther(r)
    BY <1>0, <2>2, TurnStatus DEF WriteQuestion, WriteOther
  <2> QED BY <1>0, <1>3, <2>1, <2>2, TurnInsert, TurnEdit, TurnVoid, TurnApproveVetted DEF Finish
<1>4. ASSUME NEW r \in Requests, \E to \in Statuses, p \in Staff : Move(r, to, p) PROVE TurnInv'
  BY <1>4, TurnMove
<1>5. ASSUME NEW r \in Requests, \E p \in Staff : Approve(r, p) PROVE TurnInv'
  BY <1>5, TurnApprove
<1>6. ASSUME NEW r \in Requests, EditOther(r) \/ \E q \in Questions : EditQuestion(r, q) PROVE TurnInv'
  BY <1>6, TurnEdits
<1> QED BY <1>1, <1>2, <1>3, <1>4, <1>5, <1>6 DEF Next

(* The paper under a batch's form. *)
LEMMA PaperIsComplete ==
  ASSUME RowsFit(row), Stands(row), NEW b \in Batches, There(row, b)
  PROVE  Paper(PinnedForm(b))
<1>1. PICK f \in Forms : Issued(row, f) /\ row[b].pins = {f}
  BY DEF Stands, PinsForm
<1>2. PinnedForm(b) = f
  BY <1>1 DEF PinnedForm
<1>3. f \in Versions /\ There(row, f) /\ row[f].status \in Locked
  BY <1>1 DEF Versions, Issued, Locked
<1>4. PICK k \in Blueprints : Issued(row, k) /\ row[f].pins = {k, row[k].content.config.policy}
  BY <1>3 DEF Stands, PinsBlueprint
<1> DEFINE policy == row[k].content.config.policy
<1>5. /\ policy \in Policies /\ k \in Versions /\ k \notin Policies /\ policy \notin Blueprints
      /\ There(row, k) /\ row[k].status \in Locked
  BY <1>4, BlueprintNamesPolicy, KindsAssumption DEF Issued, Locked
<1>6. PinnedBlueprint(f) = k /\ PinnedPolicy(f) = policy
  BY <1>4, <1>5 DEF PinnedBlueprint, PinnedPolicy
<1>7. Supported(row, row[k].content.config)
  BY <1>5 DEF Stands, Ready
<1>8. Composed(row, row[f].content.items, k)
  BY <1>3, <1>4 DEF Stands, Ready
<1> QED BY <1>1, <1>2, <1>4, <1>6, <1>7, <1>8 DEF Paper, Supported, Composed, Issued

(* While requests do not overlap, an approved batch is a complete paper    *)
(* for good: coherent windows over a form of reviewed questions that fits  *)
(* a blueprint consistent with the policy it is scored by                  *)
(* (assertBatchPublishable, assertExamFormComposable,                      *)
(* assertBlueprintVersionPublishable).                                     *)
THEOREM ApprovedPapersAreComplete == Spec => []ApprovedIsComplete
<1>1. Inv /\ TurnInv => ApprovedIsComplete
  <2> SUFFICES ASSUME Inv, TurnInv, InTurn, NEW b \in Batches, Exists(b), row[b].status \in Locked
               PROVE  Coherent(row[b].content.windows) /\ Paper(PinnedForm(b))
    BY DEF ApprovedIsComplete
  <2>1. There(row, b) /\ b \in Versions /\ RowsFit(row) /\ Stands(row)
    BY DEF Exists, There, Versions, Inv, TurnInv
  <2>2. Coherent(row[b].content.windows)
    BY <2>1 DEF Stands, Ready
  <2> QED BY <2>1, <2>2, PaperIsComplete
<1>2. Inv /\ TurnInv /\ [Next]_vars => TurnInv'
  BY TurnNext
<1> QED BY <1>1, <1>2, TurnInit, AlwaysInv, PTL DEF Spec

-----------------------------------------------------------------------------
(* Marking: the score and the page that explains it.                       *)

(* The scores the answers handed in may get, released or not. *)
Scored(k, stamp) ==
  [policy |-> k, released |-> stamp, sections |-> SectionScores(k, handedIn),
   total |-> Total(SectionScores(k, handedIn)), overall |-> Overall(k, SectionScores(k, handedIn)),
   unanswered |-> Cardinality({i \in DOMAIN paper : handedIn[i] = NoReply})]
Scores == {Scored(k, FALSE) : k \in Rules} \cup {Scored(k, TRUE) : k \in Rules}

ResultsFit ==
  /\ pinned \in Rules
  /\ results \in Seq(Scores)
  /\ results # <<>> => handedIn # Nobody
  /\ slip \in 0..Len(results)
  /\ visit # 0 => results # <<>>

ReviewFits ==
  review # Nobody =>
    /\ results # <<>>
    /\ \A i \in DOMAIN paper : paper[i].type \in {"single_choice", "weighted_choice"}
    /\ review.items = [i \in DOMAIN paper |-> ReviewAnswer(paper[i], review.seen[i])]

MarkingInv == ResultsFit /\ ReviewFits

(* One answer is explained by what it is worth. *)
LEMMA AnswerIsExplained ==
  ASSUME ReviewFits, review # Nobody, NEW i \in DOMAIN paper, NEW k
  PROVE  /\ Explained(k, i) = ResolvePoints(GradeAnswer(paper[i], review.seen[i]), k.scorers[paper[i].section])
         /\ review.items[i].status = "blank" <=> review.seen[i] = NoReply
<1>1. PICK q, reply, rev, scorer :
        q = paper[i] /\ reply = review.seen[i] /\ rev = review.items[i] /\ scorer = k.scorers[q.section]
  OBVIOUS
<1>2. rev = ReviewAnswer(q, reply) /\ q.type \in {"single_choice", "weighted_choice"}
  BY <1>1 DEF ReviewFits
<1>3. Explained(k, i) = CASE rev.status = "blank" -> scorer.blank
                          [] rev.status = "correct" -> scorer.correct
                          [] rev.status = "incorrect" -> scorer.incorrect
                          [] rev.status \in {"best", "not_best"} -> rev.weight
  BY <1>1 DEF Explained
<1>4. CASE reply = NoReply
  <2>1. rev.status = "blank"
    BY <1>2, <1>4 DEF ReviewAnswer
  <2>2. Explained(k, i) = scorer.blank
    BY <1>3, <2>1
  <2>3. GradeAnswer(q, reply) = Blank
    BY <1>4 DEF GradeAnswer
  <2>4. ResolvePoints(Blank, scorer) = scorer.blank
    BY DEF ResolvePoints, Blank
  <2> QED BY <1>1, <1>4, <2>1, <2>2, <2>3, <2>4
<1>5. CASE reply # NoReply /\ q.type = "single_choice"
  <2>1. PICK right \in BOOLEAN : right = (reply.choice = q.key.option)
    OBVIOUS
  <2>2. rev.status = IF right THEN "correct" ELSE "incorrect"
    BY <1>2, <1>5, <2>1 DEF ReviewAnswer
  <2>3. Explained(k, i) = IF right THEN scorer.correct ELSE scorer.incorrect
    BY <1>3, <2>2
  <2>4. PICK outcome : outcome = [kind |-> "binary", correct |-> right]
    OBVIOUS
  <2>5. GradeAnswer(q, reply) = outcome
    BY <1>5, <2>1, <2>4 DEF GradeAnswer
  <2>6. ResolvePoints(outcome, scorer) = IF right THEN scorer.correct ELSE scorer.incorrect
    BY <2>4 DEF ResolvePoints
  <2>7. rev.status # "blank"
    BY <2>2
  <2> QED BY <1>1, <1>5, <2>3, <2>5, <2>6, <2>7
<1>6. CASE reply # NoReply /\ q.type = "weighted_choice"
  <2>1. PICK weight : weight = WeightOf(q.key, reply.choice)
    OBVIOUS
  <2>2. rev.status \in {"best", "not_best"} /\ rev.weight = weight
    BY <1>2, <1>6, <2>1 DEF ReviewAnswer
  <2>3. Explained(k, i) = weight
    BY <1>3, <2>2
  <2>4. PICK outcome : outcome = [kind |-> "weighted", weight |-> weight]
    OBVIOUS
  <2>5. GradeAnswer(q, reply) = outcome
    BY <1>6, <2>1, <2>4 DEF GradeAnswer
  <2>6. ResolvePoints(outcome, scorer) = weight
    BY <2>4 DEF ResolvePoints
  <2>7. rev.status # "blank"
    BY <2>2
  <2> QED BY <1>1, <1>6, <2>3, <2>5, <2>6, <2>7
<1> QED BY <1>2, <1>4, <1>5, <1>6

(* What the items of the page add up to under the policy of a result.      *)
PageAddsUpTo(r) ==
  [s \in DOMAIN r.sections |-> SumFunction([i \in QuestionsOf(s) |-> Explained(r.policy, i)])]
IsExplained(r, page) ==
  /\ \A s \in DOMAIN r.sections : Intact(s) => r.sections[s] = page[s]
  /\ review.seen = handedIn =>
       /\ r.total = SumFunction(page)
       /\ r.unanswered = Cardinality({i \in DOMAIN paper : review.items[i].status = "blank"})
       /\ (r.overall = "failed") <=> \E i \in Evaluable(r.policy) : ~Holds(r.policy.thresholds[i], page)

LEMMA ScoreIsExplained ==
  ASSUME ReviewFits, review # Nobody, NEW k, NEW r, NEW stamp, r = Scored(k, stamp)
  PROVE  IsExplained(r, PageAddsUpTo(r))
<1> DEFINE explained == PageAddsUpTo(r)
<1>1. PICK scores : scores = SectionScores(k, handedIn)
  OBVIOUS
<1>2. /\ r.policy = k /\ r.sections = scores /\ r.total = Total(scores)
      /\ r.overall = Overall(k, scores)
      /\ r.unanswered = Cardinality({i \in DOMAIN paper : handedIn[i] = NoReply})
  BY <1>1 DEF Scored
<1>3. ASSUME NEW s, Intact(s)
      PROVE  [i \in QuestionsOf(s) |-> Explained(k, i)]
               = [i \in QuestionsOf(s) |-> ResolvePoints(GradeAnswer(paper[i], handedIn[i]), k.scorers[s])]
  <2>1. ASSUME NEW i \in QuestionsOf(s)
        PROVE  Explained(k, i) = ResolvePoints(GradeAnswer(paper[i], handedIn[i]), k.scorers[s])
    <3>1. i \in DOMAIN paper /\ paper[i].section = s
      BY DEF QuestionsOf
    <3>2. review.seen[i] = handedIn[i]
      BY <1>3 DEF Intact
    <3> QED BY <3>1, <3>2, AnswerIsExplained
  <2> QED BY <2>1
<1>4. DOMAIN scores = DOMAIN k.maxScores
  BY <1>1 DEF SectionScores
<1>5. ASSUME NEW s \in DOMAIN scores, Intact(s) PROVE scores[s] = explained[s]
  <2>1. scores[s] = SumFunction([i \in QuestionsOf(s) |->
                      ResolvePoints(GradeAnswer(paper[i], handedIn[i]), k.scorers[s])])
    BY <1>1, <1>4 DEF SectionScores
  <2>2. explained[s] = SumFunction([i \in QuestionsOf(s) |-> Explained(k, i)])
    BY <1>2 DEF PageAddsUpTo
  <2> QED BY <1>3, <1>5, <2>1, <2>2
<1>6. ASSUME review.seen = handedIn
      PROVE  /\ scores = explained
             /\ {i \in DOMAIN paper : handedIn[i] = NoReply}
                  = {i \in DOMAIN paper : review.items[i].status = "blank"}
  <2>1. \A s : Intact(s)
    BY <1>6 DEF Intact
  <2>2. DOMAIN explained = DOMAIN scores
    BY <1>2 DEF PageAddsUpTo
  <2>3. scores = [s \in DOMAIN scores |-> scores[s]] /\ explained = [s \in DOMAIN scores |-> explained[s]]
    BY <1>1, <1>2, <2>2 DEF SectionScores, PageAddsUpTo
  <2> HIDE DEF explained
  <2>4. scores = explained
    BY <1>5, <2>1, <2>3
  <2> QED BY <1>6, <2>4, AnswerIsExplained
<1>7. (Overall(k, scores) = "failed") <=> \E i \in Evaluable(k) : ~Holds(k.thresholds[i], scores)
  BY DEF Overall
<1>8. \A s \in DOMAIN scores : Intact(s) => scores[s] = explained[s]
  BY <1>5
<1> HIDE DEF explained
<1>9. IsExplained(r, explained)
  BY <1>2, <1>6, <1>7, <1>8 DEF Total, IsExplained
<1> QED BY <1>9 DEF explained

LEMMA MarkingInvMeans == MarkingInv => ReviewExplainsScore
<1> SUFFICES ASSUME MarkingInv, review # Nobody, NEW n \in {slip, Len(results)} \ {0}
             PROVE  IsExplained(results[n], PageAddsUpTo(results[n]))
  BY DEF ReviewExplainsScore, IsExplained, PageAddsUpTo
<1>1. n \in DOMAIN results /\ results \in Seq(Scores)
  BY DEF MarkingInv, ResultsFit
<1>2. results[n] \in Scores
  BY <1>1
<1>3. PICK k \in Rules, stamp \in BOOLEAN : results[n] = Scored(k, stamp)
  BY <1>2 DEF Scores
<1>4. PICK r : r = results[n]
  OBVIOUS
<1>5. r = Scored(k, stamp) /\ ReviewFits
  BY <1>3, <1>4 DEF MarkingInv
<1>6. IsExplained(r, PageAddsUpTo(r))
  BY <1>5, ScoreIsExplained
<1> QED BY <1>4, <1>6

LEMMA MarkingInitInv == MarkingInit => MarkingInv
<1> SUFFICES ASSUME MarkingInit PROVE MarkingInv
  OBVIOUS
<1>1. results = <<>> /\ results \in Seq(Scores) /\ slip = 0 /\ visit = 0 /\ review = Nobody
  BY DEF MarkingInit
<1>2. pinned \in Rules
  BY DEF MarkingInit
<1> QED BY <1>1, <1>2 DEF MarkingInv, ResultsFit, ReviewFits

(* While nothing is handed in nothing is scored. *)
LEMMA BeforeScoring ==
  ASSUME MarkingInv, handedIn = Nobody, UNCHANGED <<pinned, results, visit, slip, review>>
  PROVE  MarkingInv'
<1>1. results = <<>> /\ review = Nobody /\ visit = 0 /\ slip = 0
  BY DEF MarkingInv, ResultsFit, ReviewFits
<1>2. results' = <<>> /\ results' \in Seq(Scores')
  BY <1>1
<1> QED BY <1>1, <1>2 DEF MarkingInv, ResultsFit, ReviewFits

LEMMA ScoresStay == UNCHANGED <<paper, handedIn>> => Scores' = Scores
BY DEF Scores, Scored, SectionScores, QuestionsOf

LEMMA ScoredFits ==
  ASSUME NEW k \in Rules, answers = handedIn
  PROVE  ComputeScore(k, answers) \in Scores
<1>1. ComputeScore(k, answers) = Scored(k, FALSE)
  BY DEF ComputeScore, Scored
<1>2. Scored(k, FALSE) \in Scores
  BY DEF Scores
<1> QED BY <1>1, <1>2

(* A step that adds or stamps results. *)
LEMMA ResultsMove ==
  ASSUME MarkingInv, UNCHANGED <<paper, pinned, handedIn, visit, slip, review>>,
         results' \in Seq(Scores), Len(results') >= Len(results), handedIn # Nobody
  PROVE  MarkingInv'
<1>1. results \in Seq(Scores) /\ (results # <<>> => Len(results) > 0)
  BY DEF MarkingInv, ResultsFit
<1>2. results # <<>> => results' # <<>>
  BY <1>1
<1>3. slip' \in 0..Len(results')
  BY <1>1 DEF MarkingInv, ResultsFit
<1>4. ResultsFit'
  BY <1>2, <1>3, ScoresStay DEF MarkingInv, ResultsFit
<1>5. ReviewFits'
  BY <1>2 DEF MarkingInv, ReviewFits
<1> QED BY <1>4, <1>5 DEF MarkingInv

LEMMA MarkingStepKeeps == MarkingInv /\ [MarkingNext]_markingVars => MarkingInv'
<1> SUFFICES ASSUME MarkingInv, [MarkingNext]_markingVars PROVE MarkingInv'
  OBVIOUS
<1>1. results \in Seq(Scores) /\ pinned \in Rules /\ (results # <<>> => handedIn # Nobody)
  BY DEF MarkingInv, ResultsFit
<1>2. ASSUME NEW i, NEW reply, CheckSave(i, reply) \/ CommitSave(i, reply) PROVE MarkingInv'
  BY <1>2, ScoresStay DEF CheckSave, CommitSave, MarkingInv, ResultsFit, ReviewFits
<1>3. CASE HandIn
  BY <1>3, BeforeScoring DEF HandIn
<1>4. CASE ScoreSubmission
  <2>1. PICK r : r = ComputeScore(pinned, answers)
    OBVIOUS
  <2>2. r \in Scores
    BY <1>1, <1>4, <2>1, ScoredFits DEF ScoreSubmission, Computable
  <2>3. results' = <<r>> /\ results = <<>>
    BY <1>4, <2>1 DEF ScoreSubmission
  <2>4. results' \in Seq(Scores) /\ Len(results') >= Len(results)
    BY <2>2, <2>3
  <2> QED BY <1>4, <2>4, ResultsMove DEF ScoreSubmission, Computable
<1>5. ASSUME NEW policy \in Rules, Correct(policy) PROVE MarkingInv'
  <2>1. PICK r : r = ComputeScore(policy, answers)
    OBVIOUS
  <2>2. r \in Scores
    BY <1>5, <2>1, ScoredFits DEF Correct, Computable
  <2>3. results' = Append(results, r)
    BY <1>5, <2>1 DEF Correct
  <2>4. results' \in Seq(Scores) /\ Len(results') >= Len(results)
    BY <1>1, <2>2, <2>3
  <2> QED BY <1>5, <2>4, ResultsMove DEF Correct, Computable
<1>6. ASSUME NEW n, MarkReleased(n) PROVE MarkingInv'
  <2>1. n \in DOMAIN results
    BY <1>6 DEF MarkReleased
  <2>2. PICK r : r = [results[n] EXCEPT !.released = TRUE]
    OBVIOUS
  <2>3. r \in Scores
    <3>1. results[n] \in Scores
      BY <1>1, <2>1
    <3>2. PICK k \in Rules, stamp \in BOOLEAN : results[n] = Scored(k, stamp)
      BY <3>1 DEF Scores
    <3>3. PICK s, x, o, u : Scored(k, stamp) = [policy |-> k, released |-> stamp, sections |-> s,
                                                total |-> x, overall |-> o, unanswered |-> u]
                            /\ Scored(k, TRUE) = [policy |-> k, released |-> TRUE, sections |-> s,
                                                total |-> x, overall |-> o, unanswered |-> u]
      BY DEF Scored
    <3>4. PICK b, now, yes : b = results[n] /\ now = stamp /\ yes = TRUE
      OBVIOUS
    <3>5. b = [policy |-> k, released |-> now, sections |-> s, total |-> x, overall |-> o, unanswered |-> u]
      BY <3>2, <3>3, <3>4, Zenon
    <3>6. [b EXCEPT !.released = yes]
            = [policy |-> k, released |-> yes, sections |-> s, total |-> x, overall |-> o, unanswered |-> u]
      BY <3>5
    <3>7. r = Scored(k, TRUE)
      BY <2>2, <3>3, <3>4, <3>6, Zenon
    <3> QED BY <3>7 DEF Scores
  <2>4. results' = [results EXCEPT ![n] = r]
    BY <1>6, <2>2 DEF MarkReleased
  <2>5. results' \in Seq(Scores) /\ Len(results') = Len(results)
    BY <1>1, <2>1, <2>3, <2>4
  <2>6. results # <<>> /\ Len(results) \in Nat
    BY <1>1, <2>1
  <2> QED BY <1>1, <1>6, <2>5, <2>6, ResultsMove DEF MarkReleased
<1>7. ASSUME NEW n, WindowOpens(n) PROVE MarkingInv'
  BY <1>7, ScoresStay DEF WindowOpens, MarkingInv, ResultsFit, ReviewFits
<1>8. CASE ShowResult
  <2>1. slip' \in 0..Len(results)
    BY <1>1, <1>8 DEF ShowResult
  <2> QED BY <1>8, <2>1, ScoresStay DEF ShowResult, MarkingInv, ResultsFit, ReviewFits
<1>9. CASE AskReview
  BY <1>9, ScoresStay DEF AskReview, MarkingInv, ResultsFit, ReviewFits
<1>10. CASE ShowReview
  <2>1. ResultsFit'
    BY <1>10, ScoresStay DEF ShowReview, MarkingInv, ResultsFit
  <2>2. ReviewFits'
    BY <1>10 DEF ShowReview, MarkingInv, ResultsFit, ReviewFits
  <2> QED BY <2>1, <2>2 DEF MarkingInv
<1>11. CASE UNCHANGED markingVars
  BY <1>11, ScoresStay DEF markingVars, MarkingInv, ResultsFit, ReviewFits
<1> QED BY <1>2, <1>3, <1>4, <1>5, <1>6, <1>7, <1>8, <1>9, <1>10, <1>11 DEF MarkingNext

(* The two pages agree on what was handed in: whatever version of the      *)
(* result a learner was shown (getStudentResultView), the items of the     *)
(* review page (getAttemptReviewView) add up, under that version's policy, *)
(* to the score of every section that no late save touched, and to its     *)
(* total, unanswered count and verdict when no answer was touched; for any *)
(* paper, policies and replies, however many corrections come in between.  *)
THEOREM ReviewsExplainScores == MarkingSpec => []ReviewExplainsScore
<1> QED BY MarkingInitInv, MarkingStepKeeps, MarkingInvMeans, PTL DEF MarkingSpec

----------------------------------------------------------------------------
(* Import.  A transaction is a run of writes: what each of them keeps, all *)
(* of them keep, since the least one after which it was lost would have    *)
(* lost it.                                                                *)

(* A set of numbers has a least one. *)
LEMMA SomeIsLeast ==
  ASSUME NEW T, T \subseteq Nat, T # {}
  PROVE  \E x \in T : \A y \in T : x =< y
<1> DEFINE R == OpToRel(<, Nat)
<1>1. \A x, y \in Nat : y < x => <<y, x>> \in R
  BY Zenon DEF OpToRel
<1>2. IsWellFoundedOn(R, Nat)
  BY NatLessThanWellFounded, Zenon
<1> HIDE DEF R
<1>3. PICK x \in T : \A y \in T : <<y, x>> \notin R
  BY <1>2, WFMin
<1>4. ASSUME NEW y \in T PROVE x =< y
  <2>1. x \in Nat /\ y \in Nat /\ ~(y < x)
    BY <1>1, <1>3, Zenon
  <2> QED BY <2>1
<1> QED BY <1>4

(* What holds of 0 and passes from each number to the next holds of all:   *)
(* the least one it did not hold of would have a predecessor.              *)
LEMMA StepByStep ==
  ASSUME NEW n \in Nat, NEW S, 0 \in S, \A i \in 1..n : i - 1 \in S => i \in S
  PROVE  n \in S
<1> SUFFICES ASSUME n \notin S PROVE FALSE
  OBVIOUS
<1> DEFINE T == {i \in 0..n : i \notin S}
<1>1. PICK x \in T : \A y \in T : x =< y
  <2>1. T \subseteq Nat /\ n \in T
    OBVIOUS
  <2> HIDE DEF T
  <2> QED BY <2>1, SomeIsLeast
<1>2. x \in 1..n /\ x - 1 \in 0..n
  BY <1>1
<1>3. x - 1 \notin T
  BY <1>1, <1>2
<1> QED BY <1>1, <1>2, <1>3

(* The states of a transaction after each of its first n writes. *)
Trail(u, plan, n, f) ==
  f = [i \in 0..n |-> IF i = 0 THEN {Untouched} ELSE UNION {NthWrite(u, s, plan, i) : s \in f[i - 1]}]

LEMMA TrailIsThere ==
  ASSUME NEW u, NEW plan, NEW n \in Nat
  PROVE  \E f : Trail(u, plan, n, f)
<1> DEFINE S == {i \in 0..n : \E f : Trail(u, plan, i, f)}
<1>1. 0 \in S
  <2>1. Trail(u, plan, 0, [i \in 0..0 |-> {Untouched}])
    BY DEF Trail
  <2> QED BY <2>1
<1>2. ASSUME NEW i \in 1..n, i - 1 \in S PROVE i \in S
  <2>1. PICK f : Trail(u, plan, i - 1, f)
    BY <1>2
  <2>2. PICK last : last = UNION {NthWrite(u, s, plan, i) : s \in f[i - 1]}
    OBVIOUS
  <2> DEFINE g == [k \in 0..i |-> IF k = i THEN last ELSE f[k]]
  <2>3. ASSUME NEW k \in 0..i
        PROVE  g[k] = IF k = 0 THEN {Untouched} ELSE UNION {NthWrite(u, s, plan, k) : s \in g[k - 1]}
    <3>1. CASE k = i
      <4>1. g[k - 1] = f[i - 1] /\ g[k] = last /\ k # 0
        BY <3>1
      <4> QED BY <3>1, <4>1, <2>2
    <3>2. CASE k # i
      <4>1. k \in 0..(i - 1) /\ g[k] = f[k] /\ (k # 0 => g[k - 1] = f[k - 1])
        BY <3>2
      <4> QED BY <4>1, <2>1 DEF Trail
    <3> QED BY <3>1, <3>2
  <2>4. Trail(u, plan, i, g)
    <3> HIDE DEF g
    <3>1. g = [k \in 0..i |-> g[k]]
      BY DEF g
    <3> QED BY <2>3, <3>1 DEF Trail
  <2> QED BY <2>4
<1> HIDE DEF S
<1>3. n \in S
  BY <1>1, <1>2, StepByStep
<1> QED BY <1>3 DEF S

LEMMA ResultsTrail ==
  ASSUME NEW u, NEW plan, Writes(plan) \in Nat
  PROVE  \E f : Trail(u, plan, Writes(plan), f) /\ Results(u, plan) = f[Writes(plan)]
<1> DEFINE after[i \in 0..Writes(plan)] ==
             IF i = 0 THEN {Untouched} ELSE UNION {NthWrite(u, s, plan, i) : s \in after[i - 1]}
<1>1. \E f : f = [i \in 0..Writes(plan) |->
                   IF i = 0 THEN {Untouched} ELSE UNION {NthWrite(u, s, plan, i) : s \in f[i - 1]}]
  <2>1. PICK f : Trail(u, plan, Writes(plan), f)
    BY TrailIsThere
  <2> QED BY <2>1, Zenon DEF Trail
<1>3. after = [i \in 0..Writes(plan) |->
                   IF i = 0 THEN {Untouched} ELSE UNION {NthWrite(u, s, plan, i) : s \in after[i - 1]}]
  BY <1>1, Zenon
<1>2. Results(u, plan) = after[Writes(plan)]
  BY DEF Results
<1> HIDE DEF after
<1> QED BY <1>2, <1>3 DEF Trail

IsList(q) == \E S : q \in Seq(S)

LEMMA AppendedList ==
  ASSUME NEW q, IsList(q), NEW v
  PROVE  /\ IsList(Append(q, v)) /\ Len(q) \in Nat /\ DOMAIN q = 1..Len(q)
         /\ Len(Append(q, v)) = Len(q) + 1 /\ DOMAIN Append(q, v) = 1..(Len(q) + 1)
         /\ \A m \in DOMAIN q : Append(q, v)[m] = q[m]
         /\ Append(q, v)[Len(q) + 1] = v
<1>1. PICK S : q \in Seq(S)
  BY DEF IsList
<1>2. q \in Seq(S \cup {v}) /\ v \in S \cup {v}
  BY <1>1
<1>3. PICK T : q \in Seq(T) /\ v \in T
  BY <1>2
<1>4. Append(q, v) \in Seq(T)
  BY <1>3
<1> QED BY <1>3, <1>4 DEF IsList

LEMMA ReplacedList ==
  ASSUME NEW q, IsList(q), NEW n \in DOMAIN q, NEW v
  PROVE  /\ IsList([q EXCEPT ![n] = v]) /\ Len(q) \in Nat /\ DOMAIN q = 1..Len(q)
         /\ Len([q EXCEPT ![n] = v]) = Len(q) /\ DOMAIN [q EXCEPT ![n] = v] = DOMAIN q
         /\ \A m \in DOMAIN q : m # n => [q EXCEPT ![n] = v][m] = q[m]
         /\ [q EXCEPT ![n] = v][n] = v
<1>1. PICK S : q \in Seq(S)
  BY DEF IsList
<1>2. q \in Seq(S \cup {v}) /\ v \in S \cup {v}
  BY <1>1
<1>3. PICK T : q \in Seq(T) /\ v \in T
  BY <1>2
<1>4. [q EXCEPT ![n] = v] \in Seq(T) /\ Len([q EXCEPT ![n] = v]) = Len(q)
  BY <1>3
<1> QED BY <1>3, <1>4 DEF IsList

(* What a bank holds.                                                      *)
BankCodes == QuestionCodes \cup PassageCodes
Fields(c) == IF c \in QuestionCodes
             THEN {"status", "document", "type", "stimulus", "options", "key", "assets"}
             ELSE {"status", "document", "assets"}
VersionFits(c, v) ==
  v = [x \in Fields(c) |-> v[x]] /\ v.document \in Uploads
VersionRight(b, c, v) ==
  /\ ValidAnswerKey(v.type, v.key, v.options)
  /\ \E entry \in RowsOf(c, v.document) :
       LinkedAsNamed(b, v.stimulus, entry) /\ entry.passage \in PassageCodes \cup {NoPassage}
BankFits(b) ==
  /\ b = [c \in BankCodes |-> b[c]]
  /\ \A c \in BankCodes : IsList(b[c]) /\ \A n \in DOMAIN b[c] : VersionFits(c, b[c][n])
BankRight(b) == \A c \in QuestionCodes : \A n \in DOMAIN b[c] : VersionRight(b, c, b[c][n])

(* How a bank b follows a bank a that the job of upload u writes to.       *)
Grown(a, b) == \A c \in BankCodes : Len(a[c]) =< Len(b[c])
SealedKept(a, b) ==
  \A c \in QuestionCodes : \A n \in DOMAIN a[c] : a[c][n].status \in Sealed => b[c][n] = a[c][n]
FromDocument(a, b, u) ==
  \A c \in QuestionCodes : \A n \in DOMAIN b[c] :
    b[c][n].document = u \/ (n \in DOMAIN a[c] /\ b[c][n].document = a[c][n].document)
Follows(a, b, u) ==
  BankFits(b) /\ BankRight(b) /\ Grown(a, b) /\ SealedKept(a, b) /\ FromDocument(a, b, u)

(* A transaction's state, and one with another bank and nothing else.      *)
Shaped(s) == s = [bank |-> s.bank, at |-> s.at, lists |-> s.lists]
Rest(s, t) == Shaped(t) /\ t.at = s.at /\ t.lists = s.lists

(* Banks that differ in version n of code c.                               *)
OneVersion(b, t, c, n, v) ==
  /\ t = [x \in BankCodes |-> t[x]] /\ \A x \in BankCodes : x # c => t[x] = b[x]
  /\ IsList(t[c]) /\ n \in DOMAIN t[c] /\ t[c][n] = v
  /\ \/ n \in DOMAIN b[c] /\ Len(t[c]) = Len(b[c])
     \/ n = Len(b[c]) + 1 /\ Len(t[c]) = n
  /\ \A m \in DOMAIN b[c] : m # n => t[c][m] = b[c][m]

LEMMA AddIsOne ==
  ASSUME NEW s, BankFits(s.bank), Shaped(s),
         NEW c \in BankCodes, NEW v, NEW t, t = AddVersion(s, c, v)
  PROVE  /\ Rest(s, t)
         /\ OneVersion(s.bank, t.bank, c, Len(t.bank[c]), v)
<1>1. PICK b : b = s.bank /\ b = [x \in BankCodes |-> b[x]] /\ IsList(b[c])
  BY DEF BankFits
<1>2. t = [bank |-> [b EXCEPT ![c] = Append(b[c], v)], at |-> s.at, lists |-> s.lists]
  BY <1>1 DEF AddVersion, Shaped
<1>3. PICK q : q = Append(b[c], v)
  OBVIOUS
<1>4. PICK d : d = [b EXCEPT ![c] = q]
  OBVIOUS
<1>5. d = [x \in BankCodes |-> d[x]] /\ d[c] = q /\ \A x \in BankCodes : x # c => d[x] = b[x]
  BY <1>1, <1>4
<1>6. /\ IsList(q) /\ Len(b[c]) \in Nat /\ DOMAIN b[c] = 1..Len(b[c])
      /\ Len(q) = Len(b[c]) + 1 /\ DOMAIN q = 1..(Len(b[c]) + 1)
      /\ \A m \in DOMAIN b[c] : q[m] = b[c][m]
      /\ q[Len(b[c]) + 1] = v
  BY <1>1, <1>3, AppendedList
<1>7. OneVersion(b, d, c, Len(d[c]), v)
  BY <1>5, <1>6 DEF OneVersion
<1> QED BY <1>1, <1>2, <1>3, <1>4, <1>7 DEF Shaped, Rest

LEMMA SetIsOne ==
  ASSUME NEW s, BankFits(s.bank), Shaped(s),
         NEW c \in BankCodes, NEW n \in DOMAIN s.bank[c],
         NEW v, NEW t, t = SetVersion(s, c, n, v)
  PROVE  /\ Rest(s, t)
         /\ OneVersion(s.bank, t.bank, c, n, v)
<1>1. PICK b : b = s.bank /\ b = [x \in BankCodes |-> b[x]] /\ IsList(b[c]) /\ n \in DOMAIN b[c]
  BY DEF BankFits
<1>2. t = [bank |-> [b EXCEPT ![c] = [b[c] EXCEPT ![n] = v]], at |-> s.at, lists |-> s.lists]
  BY <1>1 DEF SetVersion, Shaped
<1>3. PICK q : q = [b[c] EXCEPT ![n] = v]
  OBVIOUS
<1>4. PICK d : d = [b EXCEPT ![c] = q]
  OBVIOUS
<1>5. d = [x \in BankCodes |-> d[x]] /\ d[c] = q /\ \A x \in BankCodes : x # c => d[x] = b[x]
  BY <1>1, <1>4
<1>6. /\ IsList(q) /\ Len(q) = Len(b[c]) /\ DOMAIN q = DOMAIN b[c]
      /\ \A m \in DOMAIN b[c] : m # n => q[m] = b[c][m]
      /\ q[n] = v
  BY <1>1, <1>3, ReplacedList
<1>7. OneVersion(b, d, c, n, v)
  BY <1>1, <1>5, <1>6 DEF OneVersion
<1> QED BY <1>1, <1>2, <1>3, <1>4, <1>7 DEF Shaped, Rest

(* Writing the same version again is still one version. *)
LEMMA SetAgain ==
  ASSUME NEW b, NEW s, BankFits(b), NEW c \in BankCodes, NEW n, NEW w, OneVersion(b, s.bank, c, n, w),
         Shaped(s),
         NEW v, NEW t, t = SetVersion(s, c, n, v)
  PROVE  /\ Rest(s, t)
         /\ OneVersion(b, t.bank, c, n, v)
<1>1. PICK d : d = s.bank /\ d = [x \in BankCodes |-> d[x]] /\ IsList(d[c]) /\ n \in DOMAIN d[c]
  BY DEF OneVersion
<1>2. t = [bank |-> [d EXCEPT ![c] = [d[c] EXCEPT ![n] = v]], at |-> s.at, lists |-> s.lists]
  BY <1>1 DEF SetVersion, Shaped
<1>3. PICK q : q = [d[c] EXCEPT ![n] = v]
  OBVIOUS
<1>4. PICK e : e = [d EXCEPT ![c] = q]
  OBVIOUS
<1>5. e = [x \in BankCodes |-> e[x]] /\ e[c] = q /\ \A x \in BankCodes : x # c => e[x] = d[x]
  BY <1>1, <1>4
<1>6. /\ IsList(q) /\ Len(q) = Len(d[c]) /\ DOMAIN q = DOMAIN d[c] /\ Len(d[c]) \in Nat
      /\ DOMAIN d[c] = 1..Len(d[c])
      /\ \A m \in DOMAIN d[c] : m # n => q[m] = d[c][m]
      /\ q[n] = v
  BY <1>1, <1>3, ReplacedList
<1>7. OneVersion(b, d, c, n, w)
  BY <1>1
<1>8. ASSUME NEW m \in DOMAIN b[c], m # n PROVE q[m] = b[c][m]
  <2>1. DOMAIN b[c] = 1..Len(b[c]) /\ Len(b[c]) \in Nat
    BY AppendedList DEF BankFits
  <2>2. m \in DOMAIN d[c]
    BY <1>6, <1>7, <1>8, <2>1 DEF OneVersion
  <2> QED BY <1>6, <1>7, <1>8, <2>2 DEF OneVersion
<1>9. OneVersion(b, e, c, n, v)
  BY <1>5, <1>6, <1>7, <1>8 DEF OneVersion
<1> QED BY <1>1, <1>2, <1>3, <1>4, <1>9 DEF Shaped, Rest

LEMMA OneVersionGrows ==
  ASSUME NEW b, BankFits(b), NEW c \in BankCodes, NEW t, NEW n, NEW v, OneVersion(b, t, c, n, v)
  PROVE  /\ Grown(b, t)
         /\ \A x \in BankCodes : DOMAIN b[x] \subseteq DOMAIN t[x] /\ Len(b[x]) \in Nat /\ Len(t[x]) \in Nat
         /\ DOMAIN t[c] = 1..Len(t[c])
<1>1. \A x \in BankCodes : IsList(b[x]) /\ IsList(t[x]) /\ Len(b[x]) =< Len(t[x])
  <2>1. ASSUME NEW x \in BankCodes PROVE IsList(b[x]) /\ IsList(t[x]) /\ Len(b[x]) =< Len(t[x])
    <3>1. IsList(b[x]) /\ IsList(t[x])
      BY DEF BankFits, OneVersion
    <3>2. Len(b[x]) \in Nat /\ Len(t[x]) \in Nat
      BY <3>1, AppendedList
    <3> QED BY <3>1, <3>2 DEF OneVersion
  <2> QED BY <2>1
<1>2. \A x \in BankCodes : /\ Len(b[x]) \in Nat /\ DOMAIN b[x] = 1..Len(b[x])
                       /\ Len(t[x]) \in Nat /\ DOMAIN t[x] = 1..Len(t[x])
  BY <1>1, AppendedList
<1> QED BY <1>1, <1>2 DEF Grown

LEMMA LinksStay ==
  ASSUME NEW b, NEW t, \A x \in BankCodes : DOMAIN b[x] \subseteq DOMAIN t[x],
         NEW c, NEW v, VersionRight(b, c, v)
  PROVE  VersionRight(t, c, v)
<1>1. PICK entry \in RowsOf(c, v.document) :
        LinkedAsNamed(b, v.stimulus, entry) /\ entry.passage \in PassageCodes \cup {NoPassage}
  BY DEF VersionRight
<1>2. LinkedAsNamed(t, v.stimulus, entry)
  BY <1>1 DEF LinkedAsNamed, BankCodes
<1> QED BY <1>1, <1>2 DEF VersionRight

LEMMA FollowsOn ==
  ASSUME NEW a, NEW b, NEW u, BankFits(a), Follows(a, b, u), NEW c \in BankCodes, NEW t, NEW n, NEW v,
         OneVersion(b, t, c, n, v), VersionFits(c, v),
         c \in QuestionCodes => v.document = u /\ VersionRight(b, c, v),
         c \in QuestionCodes /\ n \in DOMAIN b[c] => Able(b[c][n])
  PROVE  Follows(a, t, u)
<1>1. BankFits(b) /\ BankRight(b) /\ Grown(a, b) /\ SealedKept(a, b) /\ FromDocument(a, b, u)
  BY DEF Follows
<1>2. /\ \A x \in BankCodes : DOMAIN b[x] \subseteq DOMAIN t[x]
      /\ \A x \in BankCodes : Len(b[x]) =< Len(t[x]) /\ Len(b[x]) \in Nat /\ Len(t[x]) \in Nat
  BY <1>1, OneVersionGrows DEF Grown
<1>3. \A x \in BankCodes : DOMAIN a[x] \subseteq DOMAIN b[x] /\ Len(a[x]) \in Nat
  <2>1. \A x \in BankCodes : /\ Len(a[x]) \in Nat /\ DOMAIN a[x] = 1..Len(a[x])
                         /\ Len(b[x]) \in Nat /\ DOMAIN b[x] = 1..Len(b[x])
    BY <1>1, AppendedList DEF BankFits
  <2> QED BY <1>1, <2>1 DEF Grown
<1>4. ASSUME NEW x \in BankCodes, NEW m \in DOMAIN t[x]
      PROVE  (x = c /\ m = n) \/ (m \in DOMAIN b[x] /\ t[x][m] = b[x][m])
  <2>1. CASE x # c
    BY <2>1, <1>4 DEF OneVersion
  <2>2. CASE x = c
    <3>1. DOMAIN b[c] = 1..Len(b[c]) /\ DOMAIN t[c] = 1..Len(t[c]) /\ Len(b[c]) \in Nat
      BY <1>1, OneVersionGrows, AppendedList DEF BankFits
    <3>2. m # n => m \in DOMAIN b[c]
      BY <1>4, <2>2, <3>1 DEF OneVersion
    <3>3. m # n => t[c][m] = b[c][m]
      BY <3>2 DEF OneVersion
    <3>4. CASE m = n
      BY <2>2, <3>4, Zenon
    <3>5. CASE m # n
      BY <2>2, <3>2, <3>3, <3>5, Zenon
    <3> QED BY <3>4, <3>5
  <2> QED BY <2>1, <2>2
<1>5. t[c][n] = v
  BY DEF OneVersion
<1>6. BankFits(t)
  <2>1. \A x \in BankCodes : IsList(t[x])
    BY <1>1 DEF BankFits, OneVersion
  <2>2. \A x \in BankCodes : \A m \in DOMAIN t[x] : VersionFits(x, t[x][m])
    BY <1>1, <1>4, <1>5 DEF BankFits
  <2>3. t = [x \in BankCodes |-> t[x]]
    BY DEF OneVersion
  <2> QED BY <2>1, <2>2, <2>3 DEF BankFits
<1>7. BankRight(t)
  <2>1. ASSUME NEW x \in QuestionCodes, NEW m \in DOMAIN t[x] PROVE VersionRight(t, x, t[x][m])
    <3>1. x \in BankCodes
      BY DEF BankCodes
    <3>2. CASE x = c /\ m = n
      <4>1. VersionRight(b, x, v)
        BY <3>2, <2>1
      <4> QED BY <1>2, <1>5, <3>2, <4>1, LinksStay
    <3>3. CASE m \in DOMAIN b[x] /\ t[x][m] = b[x][m]
      <4>1. VersionRight(b, x, b[x][m])
        BY <1>1, <2>1, <3>3 DEF BankRight
      <4> QED BY <1>2, <3>3, <4>1, LinksStay
    <3> QED BY <1>4, <2>1, <3>1, <3>2, <3>3
  <2> QED BY <2>1 DEF BankRight
<1>8. Grown(a, t)
  BY <1>1, <1>2, <1>3 DEF Grown
<1>9. SealedKept(a, t)
  <2>1. ASSUME NEW x \in QuestionCodes, NEW m \in DOMAIN a[x], a[x][m].status \in Sealed
        PROVE  t[x][m] = a[x][m]
    <3>1. x \in BankCodes /\ b[x][m] = a[x][m] /\ m \in DOMAIN b[x]
      BY <1>1, <1>3, <2>1 DEF SealedKept, BankCodes
    <3>2. ~(x = c /\ m = n)
      <4> SUFFICES ASSUME x = c, m = n PROVE FALSE
        OBVIOUS
      <4>1. ~Able(b[c][n]) /\ n \in DOMAIN b[c] /\ c \in QuestionCodes
        BY <2>1, <3>1 DEF Able
      <4> QED BY <4>1
    <3> QED BY <3>1, <3>2 DEF OneVersion
  <2> QED BY <2>1 DEF SealedKept
<1>10. FromDocument(a, t, u)
  <2>1. ASSUME NEW x \in QuestionCodes, NEW m \in DOMAIN t[x]
        PROVE  t[x][m].document = u \/ (m \in DOMAIN a[x] /\ t[x][m].document = a[x][m].document)
    <3>1. x \in BankCodes
      BY DEF BankCodes
    <3>2. CASE x = c /\ m = n
      <4>1. t[x][m] = v /\ v.document = u
        BY <1>5, <2>1, <3>2, Zenon
      <4> QED BY <4>1, Zenon
    <3>3. CASE m \in DOMAIN b[x] /\ t[x][m] = b[x][m]
      BY <1>1, <2>1, <3>3 DEF FromDocument
    <3> QED BY <1>4, <2>1, <3>1, <3>2, <3>3
  <2> QED BY <2>1 DEF FromDocument
<1> QED BY <1>6, <1>7, <1>8, <1>9, <1>10 DEF Follows

(* What a plan keeps of the bank it was made on.                           *)
Intents == {"create", "create_revision", "update_draft", "skip"}
ItemFits(p, entry) ==
  /\ p.row = entry /\ p.intent \in Intents
  /\ p.intent \in {"skip", "update_draft"} => p.version \in DOMAIN bank[entry.code]
  /\ p.intent # "create" => Len(bank[entry.code]) >= 1
PlanFits(u, plan) ==
  /\ u \in Uploads
  /\ IsList(plan.passages) /\ DOMAIN plan.passages = DOMAIN Workbook[u].passages
  /\ IsList(plan.questions) /\ DOMAIN plan.questions = DOMAIN Workbook[u].questions
  /\ \A i \in DOMAIN plan.passages : ItemFits(plan.passages[i], Workbook[u].passages[i])
  /\ \A i \in DOMAIN plan.questions :
       /\ ItemFits(plan.questions[i], Workbook[u].questions[i])
       /\ Workbook[u].questions[i].passage # NoPassage =>
            \E j \in DOMAIN Workbook[u].passages :
              Workbook[u].passages[j].code = Workbook[u].questions[i].passage

(* The state of a transaction after i of the writes of its plan.           *)
Lists == {"created", "updated", "revised", "skipped"}
Placing(plan, s, i) ==
  /\ s.at = [c \in PassageCodes |-> s.at[c]]
  /\ \A j \in DOMAIN plan.passages : j =< i =>
       s.at[plan.passages[j].row.code] \in DOMAIN s.bank[plan.passages[j].row.code]
Rowing(plan, s, i) ==
  \A j \in DOMAIN plan.questions : Len(plan.passages) + j =< i => Len(s.bank[plan.questions[j].row.code]) >= 1
Listing(plan, s, i) ==
  /\ s.lists = [l \in Lists |-> s.lists[l]]
  /\ \A c \in QuestionCodes :
       (\E l \in Lists : c \in s.lists[l]) <=>
       (\E j \in DOMAIN plan.questions : Len(plan.passages) + j =< i /\ plan.questions[j].row.code = c)
  /\ \A c \in s.lists["created"] : c \in QuestionCodes /\ Len(s.bank[c]) >= 1
  /\ \A c \in s.lists["revised"] : c \in QuestionCodes /\ Len(s.bank[c]) >= 2
Written(u, plan, s, i) ==
  /\ Shaped(s) /\ Follows(bank, s.bank, u)
  /\ Placing(plan, s, i) /\ Rowing(plan, s, i) /\ Listing(plan, s, i)

LEMMA RowCodes ==
  ASSUME NEW u, NEW plan, PlanFits(u, plan)
  PROVE  /\ \A i \in DOMAIN plan.passages : plan.passages[i].row.code \in PassageCodes
         /\ \A i \in DOMAIN plan.questions :
              /\ plan.questions[i].row.code \in QuestionCodes
              /\ plan.questions[i].row \in RowsOf(plan.questions[i].row.code, u)
              /\ plan.questions[i].row.passage \in PassageCodes \cup {NoPassage}
              /\ plan.questions[i].row.passage # NoPassage =>
                   \E j \in DOMAIN plan.passages : plan.passages[j].row.code = plan.questions[i].row.passage
         /\ Len(plan.passages) \in Nat /\ DOMAIN plan.passages = 1..Len(plan.passages)
         /\ Len(plan.questions) \in Nat /\ DOMAIN plan.questions = 1..Len(plan.questions)
<1>1. PICK P, Q : P = Workbook[u].passages /\ Q = Workbook[u].questions
  OBVIOUS
<1>2. /\ \A i \in DOMAIN P : P[i].code \in PassageCodes
      /\ \A i \in DOMAIN Q : Q[i].code \in QuestionCodes /\ Q[i] \in Range(Q)
  BY <1>1, WorkbookAssumption DEF Range, PlanFits
<1>3. /\ \A i \in DOMAIN plan.passages : i \in DOMAIN P /\ plan.passages[i].row = P[i]
      /\ \A i \in DOMAIN plan.questions : i \in DOMAIN Q /\ plan.questions[i].row = Q[i]
  BY <1>1 DEF PlanFits, ItemFits
<1>4. \A i \in DOMAIN plan.questions : Q[i].passage # NoPassage =>
        \E j \in DOMAIN plan.passages : P[j].code = Q[i].passage
  BY <1>1 DEF PlanFits
<1>5. /\ Len(plan.passages) \in Nat /\ DOMAIN plan.passages = 1..Len(plan.passages)
      /\ Len(plan.questions) \in Nat /\ DOMAIN plan.questions = 1..Len(plan.questions)
  BY AppendedList DEF PlanFits
<1>6. ASSUME NEW i \in DOMAIN plan.questions
      PROVE  /\ plan.questions[i].row.code \in QuestionCodes
             /\ plan.questions[i].row \in RowsOf(plan.questions[i].row.code, u)
             /\ plan.questions[i].row.passage \in PassageCodes \cup {NoPassage}
             /\ plan.questions[i].row.passage # NoPassage =>
                   \E j \in DOMAIN plan.passages : plan.passages[j].row.code = plan.questions[i].row.passage
  <2>1. plan.questions[i].row = Q[i] /\ Q[i].code \in QuestionCodes /\ Q[i] \in Range(Q)
    BY <1>2, <1>3
  <2>2. Q[i] \in RowsOf(Q[i].code, u)
    BY <1>1, <2>1 DEF RowsOf
  <2>3. Q[i].passage # NoPassage => \E j \in DOMAIN plan.passages : plan.passages[j].row.code = Q[i].passage
    BY <1>3, <1>4
  <2>4. Q[i].passage \in PassageCodes \cup {NoPassage}
    BY <1>2, <1>3, <2>3
  <2> QED BY <2>1, <2>2, <2>3, <2>4
<1>7. \A i \in DOMAIN plan.passages : plan.passages[i].row.code \in PassageCodes
  BY <1>2, <1>3
<1> QED BY <1>5, <1>6, <1>7

(* A bank a transaction has reached has what the plan saw. *)
LEMMA StillThere ==
  ASSUME NEW a, NEW b, NEW u, BankFits(a), Follows(a, b, u)
  PROVE  \A c \in BankCodes : /\ DOMAIN a[c] \subseteq DOMAIN b[c] /\ Len(a[c]) =< Len(b[c])
                          /\ Len(a[c]) \in Nat /\ Len(b[c]) \in Nat
                          /\ DOMAIN a[c] = 1..Len(a[c]) /\ DOMAIN b[c] = 1..Len(b[c])
<1>1. \A c \in BankCodes : /\ Len(a[c]) \in Nat /\ DOMAIN a[c] = 1..Len(a[c])
                       /\ Len(b[c]) \in Nat /\ DOMAIN b[c] = 1..Len(b[c])
  BY AppendedList DEF BankFits, Follows
<1> QED BY <1>1 DEF Follows, Grown

PlacedAs(s, p, c, fresh, updated, t) ==
  /\ Rest(s, t)
  /\ OneVersion(s.bank, t.bank, c, Position(t, p), IF p.intent = "update_draft" THEN updated ELSE fresh)
  /\ p.intent = "update_draft" => Position(t, p) = p.version
  /\ p.intent # "update_draft" => Position(t, p) = Len(t.bank[c]) /\ Len(t.bank[c]) = Len(s.bank[c]) + 1

LEMMA PlacedIsOne ==
  ASSUME NEW s, Shaped(s), BankFits(s.bank), NEW p, NEW c \in BankCodes, p.row.code = c,
         p.intent \in {"create", "create_revision", "update_draft"},
         p.intent = "update_draft" => p.version \in DOMAIN s.bank[c],
         NEW fresh, NEW updated, NEW t \in Placed(s, p, fresh, updated)
  PROVE  PlacedAs(s, p, c, fresh, updated, t)
<1> USE DEF PlacedAs
<1>1. CASE p.intent = "update_draft"
  <2>1. t = SetVersion(s, c, p.version, updated)
    BY <1>1 DEF Placed
  <2>2. /\ Rest(s, t)
        /\ OneVersion(s.bank, t.bank, c, p.version, updated)
    BY <1>1, <2>1, SetIsOne
  <2> QED BY <1>1, <2>2 DEF Position
<1>2. CASE p.intent # "update_draft"
  <2>1. t = AddVersion(s, c, fresh)
    BY <1>2 DEF Placed
  <2>2. /\ Rest(s, t)
        /\ OneVersion(s.bank, t.bank, c, Len(t.bank[c]), fresh)
    BY <2>1, AddIsOne
  <2>3. PICK b : b = s.bank
    OBVIOUS
  <2>4. Len(t.bank[c]) = Len(b[c]) + 1
    <3>1. b = [x \in BankCodes |-> b[x]] /\ IsList(b[c])
      BY <2>3 DEF BankFits
    <3>2. t.bank[c] = Append(b[c], fresh)
      BY <2>1, <2>3, <3>1 DEF AddVersion, Shaped
    <3> QED BY <3>1, <3>2, AppendedList
  <2> QED BY <1>2, <2>2, <2>3, <2>4 DEF Position
<1> QED BY <1>1, <1>2

Wider(b, t) == \A x \in BankCodes : DOMAIN b[x] \subseteq DOMAIN t[x] /\ Len(b[x]) =< Len(t[x])
                                /\ Len(b[x]) \in Nat /\ Len(t[x]) \in Nat

LEMMA OneVersionWidens ==
  ASSUME NEW b, BankFits(b), NEW c \in BankCodes, NEW t, NEW n, NEW v, OneVersion(b, t, c, n, v)
  PROVE  Wider(b, t)
BY OneVersionGrows DEF Wider, Grown

LEMMA ListsStay ==
  ASSUME NEW plan, NEW s, NEW t, NEW i, NEW k, Listing(plan, s, i), Wider(s.bank, t.bank), t.lists = s.lists,
         \A j \in DOMAIN plan.questions : Len(plan.passages) + j =< i <=> Len(plan.passages) + j =< k
  PROVE  Listing(plan, t, k)
<1>1. t.lists = [l \in Lists |-> t.lists[l]]
  BY DEF Listing
<1>2. \A c \in QuestionCodes :
       (\E l \in Lists : c \in t.lists[l]) <=>
       (\E j \in DOMAIN plan.questions : Len(plan.passages) + j =< k /\ plan.questions[j].row.code = c)
  BY DEF Listing
<1>3. ASSUME NEW c \in t.lists["created"] PROVE c \in QuestionCodes /\ Len(t.bank[c]) >= 1
  BY <1>3 DEF Listing, Wider, BankCodes
<1>4. ASSUME NEW c \in t.lists["revised"] PROVE c \in QuestionCodes /\ Len(t.bank[c]) >= 2
  <2>1. c \in QuestionCodes /\ Len(s.bank[c]) >= 2
    BY <1>4 DEF Listing
  <2>2. Len(s.bank[c]) =< Len(t.bank[c]) /\ Len(s.bank[c]) \in Nat /\ Len(t.bank[c]) \in Nat
    BY <2>1 DEF Wider, BankCodes
  <2> QED BY <2>1, <2>2
<1> QED BY <1>1, <1>2, <1>3, <1>4 DEF Listing

(* A passage is placed; nothing is listed yet of the questions. *)
LEMMA PassageWritten ==
  ASSUME BankFits(bank), NEW u, NEW plan, PlanFits(u, plan), NEW i \in 1..Len(plan.passages),
         NEW s, Written(u, plan, s, i - 1), NEW t \in WritePassage(u, s, plan.passages[i])
  PROVE  Written(u, plan, t, i)
<1>1. PICK p, c : p = plan.passages[i] /\ c = p.row.code
  OBVIOUS
<1>2. /\ c \in PassageCodes /\ c \in BankCodes /\ c \notin QuestionCodes /\ p.intent \in Intents
      /\ p.intent \in {"skip", "update_draft"} => p.version \in DOMAIN bank[c]
      /\ i \in DOMAIN plan.passages /\ Len(plan.passages) \in Nat
      /\ \A j \in DOMAIN plan.passages : plan.passages[j].row.code \in PassageCodes /\ j \in Nat
      /\ \A j \in DOMAIN plan.questions : j \in Nat /\ j >= 1
  <2>1. c \in PassageCodes /\ i \in DOMAIN plan.passages /\ ItemFits(p, Workbook[u].passages[i])
    BY <1>1, RowCodes DEF PlanFits
  <2> QED BY <1>1, <2>1, RowCodes, WorkbookAssumption DEF ItemFits, BankCodes
<1>3. /\ Shaped(s) /\ Follows(bank, s.bank, u) /\ BankFits(s.bank)
      /\ Placing(plan, s, i - 1) /\ Listing(plan, s, i - 1)
  BY DEF Written, Follows
<1>4. Rowing(plan, t, i)
  BY <1>2 DEF Rowing
<1>5. ASSUME NEW n, Wider(s.bank, t.bank), t.at = [s.at EXCEPT ![c] = n], n \in DOMAIN t.bank[c]
      PROVE  Placing(plan, t, i)
  <2>1. t.at = [x \in PassageCodes |-> t.at[x]] /\ t.at[c] = n
        /\ \A x \in PassageCodes : x # c => t.at[x] = s.at[x]
    BY <1>2, <1>3, <1>5 DEF Placing
  <2>2. ASSUME NEW j \in DOMAIN plan.passages, j =< i
        PROVE  t.at[plan.passages[j].row.code] \in DOMAIN t.bank[plan.passages[j].row.code]
    <3>1. PICK d : d = plan.passages[j].row.code /\ d \in PassageCodes /\ d \in BankCodes
      BY <1>2 DEF BankCodes
    <3>2. CASE d = c
      BY <1>5, <2>1, <3>1, <3>2
    <3>3. CASE d # c
      <4>1. j =< i - 1
        BY <1>1, <1>2, <2>2, <3>1, <3>3
      <4>2. s.at[d] \in DOMAIN s.bank[d]
        BY <1>3, <3>1, <4>1 DEF Placing
      <4> QED BY <1>5, <2>1, <3>1, <3>3, <4>2 DEF Wider
    <3> QED BY <3>2, <3>3
  <2> QED BY <2>1, <2>2 DEF Placing
<1>6. \A j \in DOMAIN plan.questions : Len(plan.passages) + j =< i - 1 <=> Len(plan.passages) + j =< i
  BY <1>2
<1>7. CASE p.intent = "skip"
  <2>1. t = Listed([s EXCEPT !.at[c] = p.version], "skipped", c)
    BY <1>1, <1>7 DEF WritePassage
  <2>2. t = [bank |-> s.bank, at |-> [s.at EXCEPT ![c] = p.version],
             lists |-> [s.lists EXCEPT !["skipped"] = @ \cup {c}]]
    BY <1>3, <2>1 DEF Listed, Shaped
  <2>3. t.bank = s.bank /\ Shaped(t) /\ t.at = [s.at EXCEPT ![c] = p.version]
        /\ t.lists = [s.lists EXCEPT !["skipped"] = @ \cup {c}]
    BY <2>2 DEF Shaped
  <2>4. Wider(s.bank, t.bank) /\ p.version \in DOMAIN t.bank[c]
    BY <1>2, <1>3, <1>7, <2>3, StillThere DEF Wider
  <2>5. Placing(plan, t, i)
    BY <1>5, <2>3, <2>4
  <2>6. Listing(plan, t, i)
    <3>1. /\ t.lists = [l \in Lists |-> t.lists[l]]
          /\ \A l \in Lists : l # "skipped" => t.lists[l] = s.lists[l]
          /\ t.lists["skipped"] = s.lists["skipped"] \cup {c}
      BY <1>3, <2>3 DEF Listing, Lists
    <3>2. \A d \in QuestionCodes : \A l \in Lists : d \in t.lists[l] <=> d \in s.lists[l]
      BY <1>2, <3>1
    <3>3. \A d \in QuestionCodes :
            (\E l \in Lists : d \in t.lists[l]) <=>
            (\E j \in DOMAIN plan.questions : Len(plan.passages) + j =< i /\ plan.questions[j].row.code = d)
      BY <1>3, <1>6, <3>2 DEF Listing
    <3>4. t.lists["created"] = s.lists["created"] /\ t.lists["revised"] = s.lists["revised"]
      BY <3>1 DEF Lists
    <3> QED BY <1>3, <2>3, <3>1, <3>3, <3>4 DEF Listing
  <2> QED BY <1>3, <1>4, <2>3, <2>5, <2>6 DEF Written
<1>8. CASE p.intent # "skip"
  <2>1. PICK updated : updated = [s.bank[c][p.version] EXCEPT !.document = u]
    OBVIOUS
  <2>2. PICK r \in Placed(s, p, Passage(u), updated) :
          t = [AssetsOf(r, c, Position(r, p), {p.row.image}) EXCEPT !.at[c] = Position(r, p)]
    <3>1. t \in WritePassage(u, s, p)
      BY <1>1
    <3>2. \E r \in Placed(s, p, Passage(u), updated) :
            t \in IF p.row.image = NoImage \/ Able(r.bank[c][Position(r, p)])
                  THEN {[AssetsOf(r, c, Position(r, p), {p.row.image}) EXCEPT !.at[c] = Position(r, p)]}
                  ELSE {}
      BY <1>1, <1>8, <2>1, <3>1, Zenon DEF WritePassage
    <3> QED BY <3>2
  <2>3. PICK n, w : n = Position(r, p) /\ w = IF p.intent = "update_draft" THEN updated ELSE Passage(u)
    OBVIOUS
  <2>4. p.intent = "update_draft" => p.version \in DOMAIN s.bank[c]
    BY <1>2, <1>3, StillThere
  <2>5. Rest(s, r) /\ OneVersion(s.bank, r.bank, c, n, w)
    <3>1. p.intent \in {"create", "create_revision", "update_draft"}
      BY <1>2, <1>8 DEF Intents
    <3>2. PlacedAs(s, p, c, Passage(u), updated, r)
      BY <1>1, <1>2, <1>3, <2>4, <3>1, PlacedIsOne
    <3> QED BY <2>3, <3>2 DEF PlacedAs
  <2>6. PICK v : v = WithAssets(r.bank[c][n], {p.row.image})
    OBVIOUS
  <2>7. PICK q : q = SetVersion(r, c, n, v)
    OBVIOUS
  <2>8. Rest(s, q) /\ OneVersion(s.bank, q.bank, c, n, v)
    <3>1. Shaped(r) /\ BankFits(s.bank) /\ OneVersion(s.bank, r.bank, c, n, w)
      BY <1>3, <2>5 DEF Rest
    <3>2. Rest(r, q) /\ OneVersion(s.bank, q.bank, c, n, v)
      BY <1>2, <2>7, <3>1, SetAgain
    <3> QED BY <2>5, <3>2 DEF Rest
  <2>9. VersionFits(c, w)
    <3>1. CASE p.intent = "update_draft"
      <4>1. VersionFits(c, s.bank[c][p.version])
        BY <1>2, <1>3, <2>4, <3>1 DEF BankFits
      <4>2. u \in Uploads
        BY DEF PlanFits
      <4> QED BY <1>2, <2>1, <2>3, <3>1, <4>1, <4>2 DEF VersionFits, Fields
    <3>2. CASE p.intent # "update_draft"
      <4>1. u \in Uploads /\ w = Passage(u)
        BY <2>3, <3>2 DEF PlanFits
      <4> QED BY <1>2, <4>1 DEF VersionFits, Fields, Passage
    <3> QED BY <3>1, <3>2
  <2>10. VersionFits(c, v)
    <3>1. r.bank[c][n] = w
      BY <2>5 DEF OneVersion
    <3> QED BY <1>2, <2>6, <2>9, <3>1 DEF VersionFits, Fields, WithAssets
  <2>11. Follows(bank, q.bank, u) /\ Wider(s.bank, q.bank)
    BY <1>2, <1>3, <2>8, <2>10, FollowsOn, OneVersionWidens
  <2>12. t.bank = q.bank /\ t.lists = s.lists /\ Shaped(t) /\ t.at = [s.at EXCEPT ![c] = n]
    <3>1. t = [q EXCEPT !.at[c] = n]
      BY <2>2, <2>3, <2>6, <2>7 DEF AssetsOf
    <3> QED BY <2>8, <3>1 DEF Shaped, Rest
  <2>13. n \in DOMAIN t.bank[c]
    BY <2>8, <2>12 DEF OneVersion
  <2>14. Placing(plan, t, i)
    BY <1>5, <2>11, <2>12, <2>13
  <2>15. Listing(plan, t, i)
    BY <1>3, <1>6, <2>11, <2>12, ListsStay
  <2> QED BY <1>4, <2>11, <2>12, <2>14, <2>15 DEF Written
<1> QED BY <1>7, <1>8

(* A row that is listed, and how the lists account for it. *)
LEMMA RowListed ==
  ASSUME NEW u, NEW plan, PlanFits(u, plan), NEW i \in DOMAIN plan.questions, NEW s, NEW t, NEW c, NEW l \in Lists,
         Listing(plan, s, Len(plan.passages) + i - 1), Wider(s.bank, t.bank),
         c = plan.questions[i].row.code, t.lists = [s.lists EXCEPT ![l] = @ \cup {c}],
         l = "created" => Len(t.bank[c]) >= 1, l = "revised" => Len(t.bank[c]) >= 2
  PROVE  Listing(plan, t, Len(plan.passages) + i)
<1>1. PICK P : P = Len(plan.passages)
  OBVIOUS
<1>2. c \in QuestionCodes /\ P \in Nat /\ \A j \in DOMAIN plan.questions : j \in Nat
  BY <1>1, RowCodes
<1>3. /\ t.lists = [x \in Lists |-> t.lists[x]] /\ t.lists[l] = s.lists[l] \cup {c}
      /\ \A x \in Lists : x # l => t.lists[x] = s.lists[x]
  BY DEF Listing
<1>4. \A j \in DOMAIN plan.questions : P + j =< P + i <=> P + j =< P + i - 1 \/ j = i
  BY <1>2
<1>5. ASSUME NEW d \in QuestionCodes
      PROVE  (\E x \in Lists : d \in t.lists[x]) <=>
             (\E j \in DOMAIN plan.questions : P + j =< P + i /\ plan.questions[j].row.code = d)
  <2>1. (\E x \in Lists : d \in t.lists[x]) <=> d = c \/ \E x \in Lists : d \in s.lists[x]
    BY <1>3
  <2>2. (\E x \in Lists : d \in s.lists[x]) <=>
        (\E j \in DOMAIN plan.questions : P + j =< P + i - 1 /\ plan.questions[j].row.code = d)
    BY <1>1 DEF Listing
  <2> QED BY <1>4, <2>1, <2>2
<1>6. ASSUME NEW d \in t.lists["created"] PROVE d \in QuestionCodes /\ Len(t.bank[d]) >= 1
  <2>1. d \in s.lists["created"] \/ (d = c /\ l = "created")
    BY <1>3, <1>6 DEF Lists
  <2>2. CASE d \in s.lists["created"]
    <3>1. d \in QuestionCodes /\ Len(s.bank[d]) >= 1
      BY <2>2 DEF Listing
    <3> QED BY <3>1 DEF Wider, BankCodes
  <2> QED BY <1>2, <2>1, <2>2
<1>7. ASSUME NEW d \in t.lists["revised"] PROVE d \in QuestionCodes /\ Len(t.bank[d]) >= 2
  <2>1. d \in s.lists["revised"] \/ (d = c /\ l = "revised")
    BY <1>3, <1>7 DEF Lists
  <2>2. CASE d \in s.lists["revised"]
    <3>1. d \in QuestionCodes /\ Len(s.bank[d]) >= 2
      BY <2>2 DEF Listing
    <3>2. Len(s.bank[d]) =< Len(t.bank[d]) /\ Len(s.bank[d]) \in Nat /\ Len(t.bank[d]) \in Nat
      BY <3>1 DEF Wider, BankCodes
    <3> QED BY <3>1, <3>2
  <2> QED BY <1>2, <2>1, <2>2
<1> QED BY <1>1, <1>3, <1>5, <1>6, <1>7 DEF Listing

Filled(s, c, n, t) ==
  \E codes, key, images :
    /\ Able(s.bank[c][n])
    /\ ValidAnswerKey(s.bank[c][n].type, key, codes)
    /\ t = SetVersion(s, c, n, WithAssets([s.bank[c][n] EXCEPT !.options = codes, !.key = key], images))

LEMMA FillWrites ==
  ASSUME NEW u, NEW s, NEW p, NEW n, NEW t \in Fill(u, s, p, n)
  PROVE  Filled(s, p.row.code, n, t)
BY DEF Fill, Filled

(* The version a row is linked to. *)
LEMMA LinkFits ==
  ASSUME BankFits(bank), NEW u, NEW plan, PlanFits(u, plan), NEW i \in DOMAIN plan.questions,
         NEW s, Follows(bank, s.bank, u), Placing(plan, s, Len(plan.passages) + i - 1)
  PROVE  LinkedAsNamed(s.bank, Linked(u, s, plan.questions[i]), plan.questions[i].row)
<1>1. PICK q, link : q = plan.questions[i].row.passage /\ link = Linked(u, s, plan.questions[i])
  OBVIOUS
<1>2. CASE q = NoPassage
  BY <1>1, <1>2 DEF Linked, LinkedAsNamed
<1>3. CASE q # NoPassage
  <2>1. PICK j \in DOMAIN plan.passages : plan.passages[j].row.code = q
    BY <1>1, <1>3, RowCodes
  <2>2. q \in PassageCodes /\ q \in BankCodes
    BY <2>1, RowCodes DEF BankCodes
  <2>3. j =< Len(plan.passages) + i - 1
    BY <2>1, RowCodes
  <2>4. s.at[q] \in DOMAIN s.bank[q]
    BY <2>1, <2>3 DEF Placing
  <2>5. s.at[q] \in Nat
    BY <2>2, <2>4, StillThere
  <2>6. link = <<q, s.at[q]>>
    BY <1>1, <1>3 DEF Linked
  <2>7. link # NoPassage
    BY <2>2, <2>5, <2>6, NoPassageAssumption
  <2> QED BY <1>1, <1>3, <2>4, <2>6, <2>7 DEF LinkedAsNamed
<1> QED BY <1>2, <1>3

(* A question's row is written with its options and its key, or kept. *)
LEMMA RowWritten ==
  ASSUME BankFits(bank), NEW u, NEW plan, PlanFits(u, plan), NEW i \in DOMAIN plan.questions,
         NEW s, Written(u, plan, s, Len(plan.passages) + i - 1), NEW t \in WriteRow(u, s, plan.questions[i])
  PROVE  Written(u, plan, t, Len(plan.passages) + i)
<1>1. PICK p, c, P : p = plan.questions[i] /\ c = p.row.code /\ P = Len(plan.passages)
  OBVIOUS
<1>2. /\ c \in QuestionCodes /\ c \in BankCodes /\ p.intent \in Intents /\ P \in Nat /\ u \in Uploads
      /\ p.intent \in {"skip", "update_draft"} => p.version \in DOMAIN bank[c]
      /\ p.intent # "create" => Len(bank[c]) >= 1
      /\ p.row \in RowsOf(c, u) /\ p.row.passage \in PassageCodes \cup {NoPassage}
      /\ \A j \in DOMAIN plan.passages : j =< P + i - 1
      /\ \A j \in DOMAIN plan.questions : j \in Nat /\ (P + j =< P + i <=> P + j =< P + i - 1 \/ j = i)
  <2>1. c \in QuestionCodes /\ ItemFits(p, Workbook[u].questions[i])
    BY <1>1, RowCodes DEF PlanFits
  <2>2. P \in Nat /\ DOMAIN plan.passages = 1..P /\ i \in Nat /\ i >= 1
        /\ \A j \in DOMAIN plan.questions : j \in Nat
    BY <1>1, RowCodes
  <2>3. p.row \in RowsOf(c, u) /\ p.row.passage \in PassageCodes \cup {NoPassage}
    BY <1>1, RowCodes
  <2> QED BY <1>1, <2>1, <2>2, <2>3 DEF ItemFits, BankCodes, PlanFits
<1>3. /\ Shaped(s) /\ Follows(bank, s.bank, u) /\ BankFits(s.bank)
      /\ Placing(plan, s, P + i - 1) /\ Rowing(plan, s, P + i - 1) /\ Listing(plan, s, P + i - 1)
  BY <1>1 DEF Written, Follows
<1>4. /\ DOMAIN bank[c] \subseteq DOMAIN s.bank[c] /\ Len(bank[c]) =< Len(s.bank[c])
      /\ Len(bank[c]) \in Nat /\ Len(s.bank[c]) \in Nat /\ DOMAIN s.bank[c] = 1..Len(s.bank[c])
  BY <1>2, <1>3, StillThere
<1>5. ASSUME Wider(s.bank, t.bank), t.at = s.at
      PROVE  Placing(plan, t, P + i)
  <2>1. ASSUME NEW j \in DOMAIN plan.passages
        PROVE  t.at[plan.passages[j].row.code] \in DOMAIN t.bank[plan.passages[j].row.code]
    <3>1. plan.passages[j].row.code \in BankCodes
      BY RowCodes DEF BankCodes
    <3>2. s.at[plan.passages[j].row.code] \in DOMAIN s.bank[plan.passages[j].row.code]
      BY <1>2, <1>3 DEF Placing
    <3> QED BY <1>5, <3>1, <3>2 DEF Wider
  <2> QED BY <1>3, <1>5, <2>1 DEF Placing
<1>6. ASSUME Wider(s.bank, t.bank), Len(t.bank[c]) >= 1
      PROVE  Rowing(plan, t, P + i)
  <2>1. ASSUME NEW j \in DOMAIN plan.questions, P + j =< P + i
        PROVE  Len(t.bank[plan.questions[j].row.code]) >= 1
    <3>1. CASE j = i
      BY <1>1, <1>6, <3>1
    <3>2. CASE j # i
      <4>1. Len(s.bank[plan.questions[j].row.code]) >= 1
        BY <1>1, <1>2, <1>3, <2>1, <3>2 DEF Rowing
      <4>2. plan.questions[j].row.code \in BankCodes
        BY RowCodes DEF BankCodes
      <4> QED BY <1>6, <4>1, <4>2 DEF Wider
    <3> QED BY <3>1, <3>2
  <2> QED BY <1>1, <2>1 DEF Rowing
<1>7. CASE p.intent = "skip"
  <2>1. t = Listed(s, "skipped", c)
    BY <1>1, <1>7 DEF WriteRow
  <2>2. Shaped(t) /\ t.bank = s.bank /\ t.at = s.at /\ t.lists = [s.lists EXCEPT !["skipped"] = @ \cup {c}]
    BY <1>3, <2>1 DEF Listed, Shaped
  <2>3. Wider(s.bank, t.bank)
    BY <1>3, <2>2, StillThere DEF Wider
  <2>4. Len(t.bank[c]) >= 1
    BY <1>2, <1>4, <1>7, <2>2
  <2>5. Listing(plan, t, P + i)
    <3>1. PICK l \in Lists : l = "skipped" /\ l # "created" /\ l # "revised"
      BY DEF Lists
    <3>2. t.lists = [s.lists EXCEPT ![l] = @ \cup {c}]
      BY <2>2, <3>1
    <3> QED BY <1>1, <1>3, <2>3, <3>1, <3>2, RowListed
  <2> QED BY <1>1, <1>3, <1>5, <1>6, <2>2, <2>3, <2>4, <2>5 DEF Written
<1>8. CASE p.intent # "skip"
  <2>1. PICK link : link = Linked(u, s, p) /\ LinkedAsNamed(s.bank, link, p.row)
    BY <1>1, <1>3, LinkFits
  <2>2. PICK updated, fresh :
          /\ updated = [s.bank[c][p.version] EXCEPT !.document = u, !.stimulus = link]
          /\ fresh = [status |-> "draft", document |-> u, type |-> TypeNamed[p.row.type],
                      stimulus |-> link, options |-> {}, key |-> NoJob, assets |-> {}]
    OBVIOUS
  <2>3. PICK r \in Placed(s, p, fresh, updated) :
          t \in Fill(u, Listed(r, ListNamed[p.intent], c), p, Position(r, p))
    <3>1. t \in WriteRow(u, s, p)
      BY <1>1
    <3>2. Linked(u, s, p) = link /\ p.row.code = c
      BY <1>1, <2>1
    <3>3. t \in UNION {Fill(u, Listed(r, ListNamed[p.intent], c), p, Position(r, p)) :
                        r \in Placed(s, p, fresh, updated)}
      BY <1>8, <2>2, <3>1, <3>2 DEF WriteRow
    <3> QED BY <3>3
  <2>4. PICK n, w, list : n = Position(r, p) /\ w = (IF p.intent = "update_draft" THEN updated ELSE fresh)
                          /\ list = ListNamed[p.intent]
    OBVIOUS
  <2>5. /\ Rest(s, r) /\ OneVersion(s.bank, r.bank, c, n, w)
        /\ p.intent # "update_draft" => n = Len(s.bank[c]) + 1
    <3>1. p.intent \in {"create", "create_revision", "update_draft"}
      BY <1>2, <1>8 DEF Intents
    <3>2. p.intent = "update_draft" => p.version \in DOMAIN s.bank[c]
      BY <1>2, <1>4
    <3>3. PlacedAs(s, p, c, fresh, updated, r)
      BY <1>1, <1>2, <1>3, <3>1, <3>2, PlacedIsOne
    <3> QED BY <2>4, <3>3 DEF PlacedAs
  <2>6. /\ list \in Lists /\ (list = "created" => p.intent = "create")
        /\ (list = "revised" => p.intent = "create_revision")
    BY <1>2, <1>8, <2>4 DEF Intents, Lists, ListNamed
  <2>7. PICK l : l = Listed(r, list, c)
    OBVIOUS
  <2>8. Shaped(l) /\ l.bank = r.bank /\ l.at = s.at /\ l.lists = [s.lists EXCEPT ![list] = @ \cup {c}]
    BY <2>5, <2>7 DEF Listed, Shaped, Rest
  <2>9. PICK codes, key, images :
           /\ Able(l.bank[c][n])
           /\ ValidAnswerKey(l.bank[c][n].type, key, codes)
           /\ t = SetVersion(l, c, n, WithAssets([l.bank[c][n] EXCEPT !.options = codes, !.key = key], images))
    <3>1. t \in Fill(u, l, p, n)
      BY <2>3, <2>4, <2>7
    <3>2. Filled(l, c, n, t)
      BY <1>1, <3>1, FillWrites
    <3> QED BY <3>2 DEF Filled
  <2>10. l.bank[c][n] = w
    BY <2>5, <2>8 DEF OneVersion
  <2>11. PICK v : v = WithAssets([w EXCEPT !.options = codes, !.key = key], images)
    OBVIOUS
  <2>12. Rest(l, t) /\ OneVersion(s.bank, t.bank, c, n, v)
    <3>1. OneVersion(s.bank, l.bank, c, n, w)
      BY <2>5, <2>8
    <3>2. t = SetVersion(l, c, n, v)
      BY <2>9, <2>10, <2>11
    <3> QED BY <1>2, <1>3, <2>8, <3>1, <3>2, SetAgain
  <2>13. VersionFits(c, w) /\ w.document = u /\ w.stimulus = link
    <3>1. CASE p.intent = "update_draft"
      <4>1. p.version \in DOMAIN s.bank[c]
        BY <1>2, <1>4, <3>1
      <4>2. VersionFits(c, s.bank[c][p.version])
        BY <1>2, <1>3, <4>1 DEF BankFits
      <4> QED BY <1>2, <2>2, <2>4, <3>1, <4>2 DEF VersionFits, Fields
    <3>2. CASE p.intent # "update_draft"
      <4>1. w = fresh
        BY <2>4, <3>2
      <4> QED BY <1>2, <2>2, <4>1 DEF VersionFits, Fields
    <3> QED BY <3>1, <3>2
  <2>14. /\ VersionFits(c, v) /\ v.document = u /\ v.stimulus = link
         /\ v.type = w.type /\ v.key = key /\ v.options = codes
    BY <1>2, <2>11, <2>13 DEF VersionFits, Fields, WithAssets
  <2>15. VersionRight(s.bank, c, v)
    BY <1>2, <2>1, <2>9, <2>10, <2>14 DEF VersionRight
  <2>open. n \in DOMAIN s.bank[c] => Able(s.bank[c][n])
    <3>1. CASE p.intent = "update_draft"
      <4>1. n = p.version /\ p.version \in DOMAIN s.bank[c]
        BY <1>2, <1>4, <2>4, <3>1 DEF Position
      <4>2. VersionFits(c, s.bank[c][n])
        BY <1>2, <1>3, <4>1 DEF BankFits
      <4>3. w = [s.bank[c][n] EXCEPT !.document = u, !.stimulus = link]
        BY <2>2, <2>4, <3>1, <4>1, Zenon
      <4>4. w.status = s.bank[c][n].status
        BY <1>2, <4>2, <4>3 DEF VersionFits, Fields
      <4> QED BY <2>9, <2>10, <4>4 DEF Able
    <3>2. CASE p.intent # "update_draft"
      BY <1>4, <2>5, <3>2
    <3> QED BY <3>1, <3>2
  <2>16. Follows(bank, t.bank, u) /\ Wider(s.bank, t.bank)
    BY <1>2, <1>3, <2>12, <2>14, <2>15, <2>open, FollowsOn, OneVersionWidens
  <2>17. Shaped(t) /\ t.at = s.at /\ t.lists = [s.lists EXCEPT ![list] = @ \cup {c}]
    BY <2>8, <2>12 DEF Rest
  <2>18. Len(t.bank[c]) >= 1 /\ (p.intent = "create_revision" => Len(t.bank[c]) >= 2)
    <3>1. CASE p.intent = "update_draft"
      <4>1. Len(s.bank[c]) >= 1 /\ Len(s.bank[c]) =< Len(t.bank[c]) /\ Len(t.bank[c]) \in Nat
        BY <1>2, <1>4, <2>16, <3>1 DEF Wider
      <4> QED BY <1>4, <3>1, <4>1
    <3>2. CASE p.intent # "update_draft"
      <4>1. Len(t.bank[c]) = Len(s.bank[c]) + 1
        BY <1>4, <2>5, <2>12, <3>2 DEF OneVersion
      <4> QED BY <1>2, <1>4, <4>1
    <3> QED BY <3>1, <3>2
  <2>19. Listing(plan, t, P + i)
    BY <1>1, <1>3, <2>6, <2>16, <2>17, <2>18, RowListed
  <2> QED BY <1>1, <1>5, <1>6, <2>16, <2>17, <2>18, <2>19 DEF Written
<1> QED BY <1>7, <1>8

(* Images are added to a passage of the workbook, as it was placed. *)
LEMMA AssetsWritten ==
  ASSUME BankFits(bank), NEW u, NEW plan, PlanFits(u, plan), NEW k \in DOMAIN plan.passages, NEW i \in Nat,
         i > Len(plan.passages) + Len(plan.questions),
         NEW s, Written(u, plan, s, i - 1),
         NEW t \in WritePassageAssets(u, s, plan.passages[k])
  PROVE  Written(u, plan, t, i)
<1>1. PICK c : c = plan.passages[k].row.code
  OBVIOUS
<1>2. /\ c \in PassageCodes /\ c \in BankCodes /\ c \notin QuestionCodes
      /\ \A j \in DOMAIN plan.passages : j =< i - 1
      /\ \A j \in DOMAIN plan.questions :
           Len(plan.passages) + j =< i - 1 /\ Len(plan.passages) + j =< i
  <2>1. PICK P, Q : P = Len(plan.passages) /\ Q = Len(plan.questions)
    OBVIOUS
  <2>2. P \in Nat /\ Q \in Nat /\ DOMAIN plan.passages = 1..P /\ DOMAIN plan.questions = 1..Q /\ i > P + Q
    BY <2>1, RowCodes
  <2>3. c \in PassageCodes /\ c \in BankCodes /\ c \notin QuestionCodes
    BY <1>1, RowCodes, WorkbookAssumption DEF BankCodes
  <2>4. \A j \in 1..P : j =< i - 1
    BY <2>2
  <2>5. \A j \in 1..Q : P + j =< i - 1 /\ P + j =< i
    BY <2>2
  <2> QED BY <2>1, <2>2, <2>3, <2>4, <2>5, Zenon
<1>3. /\ Shaped(s) /\ Follows(bank, s.bank, u) /\ BankFits(s.bank)
      /\ Placing(plan, s, i - 1) /\ Rowing(plan, s, i - 1) /\ Listing(plan, s, i - 1)
  BY DEF Written, Follows
<1>4. ASSUME Shaped(t), Follows(bank, t.bank, u), Wider(s.bank, t.bank), t.at = s.at, t.lists = s.lists
      PROVE  Written(u, plan, t, i)
  <2>1. Placing(plan, t, i)
    <3>1. ASSUME NEW j \in DOMAIN plan.passages
          PROVE  t.at[plan.passages[j].row.code] \in DOMAIN t.bank[plan.passages[j].row.code]
      <4>1. plan.passages[j].row.code \in BankCodes
        BY RowCodes DEF BankCodes
      <4>2. s.at[plan.passages[j].row.code] \in DOMAIN s.bank[plan.passages[j].row.code]
        BY <1>2, <1>3 DEF Placing
      <4> QED BY <1>4, <4>1, <4>2 DEF Wider
    <3> QED BY <1>3, <1>4, <3>1 DEF Placing
  <2>2. Rowing(plan, t, i)
    <3>1. ASSUME NEW j \in DOMAIN plan.questions PROVE Len(t.bank[plan.questions[j].row.code]) >= 1
      <4>1. Len(s.bank[plan.questions[j].row.code]) >= 1
        BY <1>2, <1>3 DEF Rowing
      <4>2. plan.questions[j].row.code \in BankCodes
        BY RowCodes DEF BankCodes
      <4> QED BY <1>4, <4>1, <4>2 DEF Wider
    <3> QED BY <3>1 DEF Rowing
  <2>3. Listing(plan, t, i)
    BY <1>2, <1>3, <1>4, ListsStay
  <2> QED BY <1>4, <2>1, <2>2, <2>3 DEF Written
<1>5. CASE t = s
  BY <1>3, <1>4, <1>5, StillThere DEF Wider
<1>6. CASE t # s
  <2>1. PICK n : n = s.at[c] /\ n \in DOMAIN s.bank[c]
    BY <1>1, <1>2, <1>3 DEF Placing
  <2>2. \E images : t = AssetsOf(s, c, n, images)
    BY <1>1, <1>6, <2>1 DEF WritePassageAssets
  <2>3. PICK images : t = AssetsOf(s, c, n, images)
    BY <2>2
  <2>4. PICK v : v = WithAssets(s.bank[c][n], images)
    OBVIOUS
  <2>5. t = SetVersion(s, c, n, v)
    BY <2>3, <2>4 DEF AssetsOf
  <2>6. Rest(s, t) /\ OneVersion(s.bank, t.bank, c, n, v)
    BY <1>2, <1>3, <2>1, <2>3, <2>5, SetIsOne
  <2>7. VersionFits(c, v)
    <3>1. VersionFits(c, s.bank[c][n])
      BY <1>2, <1>3, <2>1 DEF BankFits
    <3> QED BY <1>2, <2>4, <3>1 DEF VersionFits, Fields, WithAssets
  <2>8. Follows(bank, t.bank, u) /\ Wider(s.bank, t.bank)
    BY <1>2, <1>3, <2>6, <2>7, FollowsOn, OneVersionWidens
  <2> QED BY <1>4, <2>6, <2>8 DEF Rest
<1> QED BY <1>5, <1>6

(* The writes one after the other. *)
LEMMA WriteFits ==
  ASSUME BankFits(bank), NEW u, NEW plan, PlanFits(u, plan), NEW i \in 1..Writes(plan),
         NEW s, Written(u, plan, s, i - 1), NEW t \in NthWrite(u, s, plan, i)
  PROVE  Written(u, plan, t, i)
<1>1. PICK P, Q : P = Len(plan.passages) /\ Q = Len(plan.questions)
  OBVIOUS
<1>2. /\ P \in Nat /\ Q \in Nat /\ DOMAIN plan.passages = 1..P /\ DOMAIN plan.questions = 1..Q
      /\ i \in 1..(2 * P + Q)
  BY <1>1, RowCodes DEF Writes
<1>3. CASE i =< P
  <2>1. t \in WritePassage(u, s, plan.passages[i])
    <3>1. i =< P /\ ~(i > P) /\ ~(i > P + Q)
      BY <1>2, <1>3
    <3>2. NthWrite(u, s, plan, i) = WritePassage(u, s, plan.passages[i])
      BY <1>1, <3>1, Zenon DEF NthWrite
    <3> QED BY <3>2
  <2> QED BY <1>1, <1>2, <1>3, <2>1, PassageWritten
<1>4. CASE i > P /\ i =< P + Q
  <2>1. PICK j \in DOMAIN plan.questions : j = i - P /\ P + j = i /\ P + j - 1 = i - 1
    BY <1>2, <1>4
  <2>2. t \in WriteRow(u, s, plan.questions[j])
    <3>1. ~(i =< P) /\ i > P /\ i =< P + Q /\ ~(i > P + Q)
      BY <1>2, <1>4
    <3>2. NthWrite(u, s, plan, i) = WriteRow(u, s, plan.questions[j])
      BY <1>1, <2>1, <3>1, Zenon DEF NthWrite
    <3> QED BY <3>2
  <2>3. Written(u, plan, s, P + j - 1)
    BY <2>1
  <2>4. Written(u, plan, t, P + j)
    BY <1>1, <2>2, <2>3, RowWritten
  <2> QED BY <2>1, <2>4
<1>5. CASE i > P + Q
  <2>1. PICK k \in DOMAIN plan.passages : k = i - (P + Q)
    BY <1>2, <1>5
  <2>2. t \in WritePassageAssets(u, s, plan.passages[k])
    <3>1. ~(i =< P) /\ ~(i =< P + Q) /\ i > P + Q
      BY <1>2, <1>5
    <3>2. NthWrite(u, s, plan, i) = WritePassageAssets(u, s, plan.passages[k])
      BY <1>1, <2>1, <3>1, Zenon DEF NthWrite
    <3> QED BY <3>2
  <2>3. i \in Nat
    BY <1>2
  <2>4. i > Len(plan.passages) + Len(plan.questions)
    BY <1>1, <1>5, Zenon
  <2> QED BY <2>2, <2>3, <2>4, AssetsWritten
<1> QED BY <1>2, <1>3, <1>4, <1>5

LEMMA UntouchedWritten ==
  ASSUME BankFits(bank), BankRight(bank), NEW u, NEW plan, PlanFits(u, plan)
  PROVE  Written(u, plan, Untouched, 0)
<1>1. /\ Untouched.bank = bank /\ Shaped(Untouched)
      /\ Untouched.at = [c \in PassageCodes |-> 0] /\ Untouched.lists = Nothing
  BY DEF Untouched, Shaped
<1>2. Follows(bank, bank, u)
  <2>1. \A c \in BankCodes : Len(bank[c]) \in Nat
    BY AppendedList DEF BankFits
  <2> QED BY <2>1 DEF Follows, Grown, SealedKept, FromDocument
<1>3. /\ Len(plan.passages) \in Nat
      /\ \A j \in DOMAIN plan.passages : ~(j =< 0)
      /\ \A j \in DOMAIN plan.questions : ~(Len(plan.passages) + j =< 0)
  BY RowCodes
<1>4. Placing(plan, Untouched, 0)
  BY <1>1, <1>3 DEF Placing
<1>5. Rowing(plan, Untouched, 0)
  BY <1>3 DEF Rowing
<1>6. Listing(plan, Untouched, 0)
  BY <1>1, <1>3 DEF Listing, Nothing, Lists
<1> QED BY <1>1, <1>2, <1>4, <1>5, <1>6 DEF Written

(* A transaction as a whole. *)
LEMMA ResultsWritten ==
  ASSUME BankFits(bank), BankRight(bank), NEW u, NEW plan, PlanFits(u, plan), NEW s \in Results(u, plan)
  PROVE  Written(u, plan, s, Writes(plan))
<1>1. Writes(plan) \in Nat
  <2>1. PICK P, Q : P = Len(plan.passages) /\ Q = Len(plan.questions)
    OBVIOUS
  <2>2. P \in Nat /\ Q \in Nat
    BY <2>1, RowCodes
  <2>3. Writes(plan) = 2 * P + Q
    BY <2>1, Zenon DEF Writes
  <2> QED BY <2>2, <2>3
<1>2. PICK f : Trail(u, plan, Writes(plan), f) /\ Results(u, plan) = f[Writes(plan)]
  BY <1>1, ResultsTrail
<1> DEFINE S == {i \in 0..Writes(plan) : \A r \in f[i] : Written(u, plan, r, i)}
<1>3. 0 \in S
  <2>1. f[0] = {Untouched}
    BY <1>1, <1>2 DEF Trail
  <2>2. Written(u, plan, Untouched, 0)
    BY UntouchedWritten
  <2> QED BY <1>1, <2>1, <2>2
<1>4. ASSUME NEW i \in 1..Writes(plan), i - 1 \in S PROVE i \in S
  <2>1. f[i] = UNION {NthWrite(u, r, plan, i) : r \in f[i - 1]}
    BY <1>1, <1>2, <1>4 DEF Trail
  <2>2. ASSUME NEW t \in f[i] PROVE Written(u, plan, t, i)
    <3>1. PICK r \in f[i - 1] : t \in NthWrite(u, r, plan, i)
      BY <2>1, <2>2
    <3>2. Written(u, plan, r, i - 1)
      BY <1>4, <3>1
    <3> QED BY <1>4, <3>1, <3>2, WriteFits
  <2> QED BY <1>1, <1>4, <2>2
<1> HIDE DEF S
<1>5. Writes(plan) \in S
  BY <1>1, <1>3, <1>4, StepByStep
<1> QED BY <1>2, <1>5 DEF S

(* A function over the places of a list is a list. *)
LEMMA ListOver ==
  ASSUME NEW q, IsList(q), NEW f, f = [i \in DOMAIN q |-> f[i]]
  PROVE  IsList(f) /\ DOMAIN f = DOMAIN q
<1>1. PICK n \in Nat : DOMAIN q = 1..n
  BY AppendedList
<1>2. PICK S : S = {f[i] : i \in 1..n}
  OBVIOUS
<1>3. f \in [1..n -> S]
  BY <1>1, <1>2
<1>4. f \in Seq(S)
  BY <1>3
<1> QED BY <1>4 DEF IsList

(* A plan fits the bank it is made on. *)
LEMMA RowPlanFits ==
  ASSUME BankFits(bank), NEW mode \in Modes, NEW entry, entry.code \in BankCodes
  PROVE  ItemFits(RowPlan(entry, mode), entry)
<1>1. PICK c, p : c = entry.code /\ p = RowPlan(entry, mode)
  OBVIOUS
<1>2. p.row = entry /\ p.intent = Intent(c, mode) /\ p.version = Len(bank[c])
  BY <1>1 DEF RowPlan
<1>3. IsList(bank[c]) /\ Len(bank[c]) \in Nat /\ DOMAIN bank[c] = 1..Len(bank[c])
  BY <1>1, AppendedList DEF BankFits
<1>4. p.intent \in Intents /\ (p.intent # "create" => bank[c] # <<>>)
  BY <1>2 DEF Intent, Intents, Modes
<1>5. bank[c] # <<>> => Len(bank[c]) >= 1
  <2>1. PICK S : bank[c] \in Seq(S)
    BY <1>3 DEF IsList
  <2> QED BY <2>1
<1>6. p.intent # "create" => Len(bank[c]) >= 1 /\ p.version \in DOMAIN bank[c]
  BY <1>2, <1>3, <1>4, <1>5
<1> QED BY <1>1, <1>2, <1>4, <1>6 DEF ItemFits

LEMMA PlanOfFits ==
  ASSUME BankFits(bank), NEW u \in Uploads, NEW mode \in Modes, Sound(Workbook[u])
  PROVE  PlanFits(u, PlanOf(u, mode))
<1>1. PICK P, Q, plan : P = Workbook[u].passages /\ Q = Workbook[u].questions /\ plan = PlanOf(u, mode)
  OBVIOUS
<1>2. /\ plan.passages = [i \in DOMAIN P |-> RowPlan(P[i], mode)]
      /\ plan.questions = [i \in DOMAIN Q |-> RowPlan(Q[i], mode)]
  BY <1>1 DEF PlanOf
<1>3. /\ IsList(P) /\ IsList(Q)
      /\ \A i \in DOMAIN P : P[i].code \in BankCodes
      /\ \A i \in DOMAIN Q : Q[i].code \in BankCodes
  <2>1. IsList(P) /\ IsList(Q)
    BY <1>1, WorkbookAssumption DEF IsList
  <2>2. /\ \A entry \in Range(Q) : entry.code \in QuestionCodes
        /\ \A entry \in Range(P) : entry.code \in PassageCodes
    BY <1>1, WorkbookAssumption
  <2> QED BY <2>1, <2>2 DEF Range, BankCodes
<1>4. /\ IsList(plan.passages) /\ DOMAIN plan.passages = DOMAIN P
      /\ IsList(plan.questions) /\ DOMAIN plan.questions = DOMAIN Q
  BY <1>2, <1>3, ListOver
<1>5. \A i \in DOMAIN P : ItemFits(plan.passages[i], P[i])
  BY <1>2, <1>3, RowPlanFits
<1>6. \A i \in DOMAIN Q : ItemFits(plan.questions[i], Q[i])
  BY <1>2, <1>3, RowPlanFits
<1>7. ASSUME NEW i \in DOMAIN Q, Q[i].passage # NoPassage
      PROVE  \E j \in DOMAIN P : P[j].code = Q[i].passage
  <2>1. QuestionFits(Workbook[u], Q[i])
    BY <1>1, <1>7 DEF Sound
  <2> QED BY <1>1, <1>7, <2>1 DEF QuestionFits
<1> QED BY <1>1, <1>4, <1>5, <1>6, <1>7 DEF PlanFits

(* What was planned, and what was accounted for, stays so as banks grow. *)
LEMMA PlanStays ==
  ASSUME NEW u, NEW plan, PlanFits(u, plan), Wider(bank, bank')
  PROVE  (PlanFits(u, plan))'
<1>1. ASSUME NEW p, NEW entry, ItemFits(p, entry), entry.code \in BankCodes PROVE (ItemFits(p, entry))'
  <2>1. /\ DOMAIN bank[entry.code] \subseteq DOMAIN bank'[entry.code]
        /\ Len(bank[entry.code]) =< Len(bank'[entry.code])
        /\ Len(bank[entry.code]) \in Nat /\ Len(bank'[entry.code]) \in Nat
    BY <1>1 DEF Wider
  <2> QED BY <1>1, <2>1 DEF ItemFits
<1>2. /\ \A i \in DOMAIN plan.passages : Workbook[u].passages[i].code \in BankCodes
      /\ \A i \in DOMAIN plan.questions : Workbook[u].questions[i].code \in BankCodes
  <2>1. \A i \in DOMAIN plan.passages : plan.passages[i].row = Workbook[u].passages[i]
    BY DEF PlanFits, ItemFits
  <2>2. \A i \in DOMAIN plan.questions : plan.questions[i].row = Workbook[u].questions[i]
    BY DEF PlanFits, ItemFits
  <2>3. /\ \A i \in DOMAIN plan.passages : plan.passages[i].row.code \in PassageCodes
        /\ \A i \in DOMAIN plan.questions : plan.questions[i].row.code \in QuestionCodes
    BY RowCodes
  <2> QED BY <2>1, <2>2, <2>3 DEF BankCodes
<1> QED BY <1>1, <1>2 DEF PlanFits

RowsNamed(u) == {entry.code : entry \in Range(Workbook[u].questions)}
Accounted(u, outcome) ==
  outcome.status = "completed" =>
    /\ RowsNamed(u) = (UNION {outcome.lists[l] : l \in DOMAIN outcome.lists}) \cap QuestionCodes
    /\ \A c \in outcome.lists.created : c \in QuestionCodes /\ Len(bank[c]) >= 1
    /\ \A c \in outcome.lists.revised : c \in QuestionCodes /\ Len(bank[c]) >= 2

LEMMA AccountStays ==
  ASSUME NEW u, NEW outcome, Accounted(u, outcome), Wider(bank, bank')
  PROVE  (Accounted(u, outcome))'
<1>1. ASSUME NEW c \in QuestionCodes, NEW k \in Nat, Len(bank[c]) >= k PROVE Len(bank'[c]) >= k
  <2>1. Len(bank[c]) =< Len(bank'[c]) /\ Len(bank[c]) \in Nat /\ Len(bank'[c]) \in Nat
    BY DEF Wider, BankCodes
  <2> QED BY <1>1, <2>1
<1>2. \A c \in QuestionCodes : (Len(bank[c]) >= 1 => Len(bank'[c]) >= 1) /\ (Len(bank[c]) >= 2 => Len(bank'[c]) >= 2)
  BY <1>1
<1> QED BY <1>2 DEF Accounted

(* Where one row of a workbook was written, every row was. *)
WholeDocuments(b) ==
  \A q \in QuestionCodes : \A n \in DOMAIN b[q] : \A c \in RowsNamed(b[q][n].document) : Len(b[c]) >= 1

(* What a request holds fits the bank.                                     *)
JobFits(j) ==
  \/ j = Idling
  \/ j.pc = "plan" /\ j.upload \in Uploads /\ j.mode \in Modes
  \/ j.pc \in {"check", "write"} /\ PlanFits(j.upload, j.plan)
  \/ j.pc = "record" /\ j.upload \in Uploads /\ Accounted(j.upload, j.outcome)
JobsFit == job = [r \in Importers |-> job[r]] /\ \A r \in Importers : JobFits(job[r])
LedgerFits ==
  /\ ledger = [u \in Uploads |-> ledger[u]]
  /\ \A u \in Uploads : ledger[u] # NoJob => Accounted(u, ledger[u])

ImportInv == BankFits(bank) /\ BankRight(bank) /\ WholeDocuments(bank) /\ JobsFit /\ LedgerFits

LEMMA JobStays ==
  ASSUME NEW j, JobFits(j), Wider(bank, bank') PROVE (JobFits(j))'
BY PlanStays, AccountStays DEF JobFits

LEMMA SameWider ==
  ASSUME BankFits(bank), bank' = bank PROVE Wider(bank, bank')
<1>1. \A x \in BankCodes : Len(bank[x]) \in Nat
  BY AppendedList DEF BankFits
<1> QED BY <1>1 DEF Wider

LEMMA JobStep ==
  ASSUME ImportInv, Wider(bank, bank'), NEW r \in Importers, NEW j, Step(r, j), (JobFits(j))'
  PROVE  JobsFit'
<1>1. job' = [x \in Importers |-> job'[x]] /\ job'[r] = j /\ \A x \in Importers : x # r => job'[x] = job[x]
  BY DEF Step, ImportInv, JobsFit
<1>2. ASSUME NEW x \in Importers PROVE (JobFits(job[x]))'
  <2>1. CASE x = r
    BY <1>1, <2>1
  <2>2. CASE x # r
    <3>1. PICK k : k = job[x] /\ JobFits(k) /\ job'[x] = k
      BY <1>1, <2>2 DEF ImportInv, JobsFit
    <3>2. (JobFits(k))'
      BY <3>1, JobStays
    <3> QED BY <3>1, <3>2
  <2> QED BY <2>1, <2>2
<1> QED BY <1>1, <1>2 DEF JobsFit

LEMMA LedgerStays ==
  ASSUME ImportInv, Wider(bank, bank'), ledger' = ledger PROVE LedgerFits'
<1>1. ASSUME NEW u \in Uploads, ledger[u] # NoJob PROVE (Accounted(u, ledger[u]))'
  <2>1. PICK k : k = ledger[u] /\ Accounted(u, k)
    BY <1>1 DEF ImportInv, LedgerFits
  <2>2. (Accounted(u, k))'
    BY <2>1, AccountStays
  <2> QED BY <2>1, <2>2
<1> QED BY <1>1 DEF ImportInv, LedgerFits

LEMMA CommitKeeps ==
  ASSUME ImportInv, NEW r \in Importers, Commit(r)
  PROVE  ImportInv' /\ SealedKept(bank, bank')
<1>1. PICK u, plan : u = job[r].upload /\ plan = job[r].plan /\ PlanFits(u, plan)
  BY DEF Commit, ImportInv, JobsFit, JobFits, Idling
<1>2. PICK s \in Results(u, plan) :
         /\ bank' = s.bank
         /\ Step(r, [pc |-> "record", upload |-> u, outcome |-> [status |-> "completed", lists |-> s.lists]])
  BY <1>1 DEF Commit
<1>3. Written(u, plan, s, Writes(plan))
  BY <1>1, ResultsWritten DEF ImportInv
<1>4. Follows(bank, bank', u)
  BY <1>2, <1>3 DEF Written
<1>5. Wider(bank, bank')
  BY <1>4, StillThere DEF Wider, ImportInv
<1>6. /\ u \in Uploads
      /\ \A c \in RowsNamed(u) : c \in QuestionCodes /\ \E j \in DOMAIN plan.questions : plan.questions[j].row.code = c
      /\ \A j \in DOMAIN plan.questions : plan.questions[j].row.code \in RowsNamed(u)
      /\ \A j \in DOMAIN plan.questions : Len(plan.passages) + j =< Writes(plan)
  <2>1. PICK Q : Q = Workbook[u].questions /\ DOMAIN Q = DOMAIN plan.questions
    BY <1>1 DEF PlanFits
  <2>2. \A j \in DOMAIN plan.questions : plan.questions[j].row = Q[j]
    BY <1>1, <2>1 DEF PlanFits, ItemFits
  <2>3. \A j \in DOMAIN plan.questions : plan.questions[j].row.code \in QuestionCodes
    BY <1>1, RowCodes
  <2>4. \A j \in DOMAIN plan.questions : Len(plan.passages) + j =< Writes(plan)
    <3>1. PICK A, B : A = Len(plan.passages) /\ B = Len(plan.questions)
      OBVIOUS
    <3>2. A \in Nat /\ B \in Nat /\ DOMAIN plan.questions = 1..B
      BY <1>1, <3>1, RowCodes
    <3>3. Writes(plan) = 2 * A + B
      BY <3>1, Zenon DEF Writes
    <3>4. \A j \in 1..B : A + j =< 2 * A + B
      BY <3>2
    <3> QED BY <3>1, <3>2, <3>3, <3>4, Zenon
  <2>5. u \in Uploads
    BY <1>1 DEF PlanFits
  <2> QED BY <2>1, <2>2, <2>3, <2>4, <2>5 DEF RowsNamed, Range
<1>7. \A c \in RowsNamed(u) : Len(s.bank[c]) >= 1
  BY <1>3, <1>6 DEF Written, Rowing
<1>8. WholeDocuments(bank')
  <2>1. ASSUME NEW q \in QuestionCodes, NEW n \in DOMAIN bank'[q], NEW c \in RowsNamed(bank'[q][n].document)
        PROVE  Len(bank'[c]) >= 1
    <3>1. CASE bank'[q][n].document = u
      BY <1>2, <1>7, <2>1, <3>1
    <3>2. CASE bank'[q][n].document # u
      <4>1. n \in DOMAIN bank[q] /\ bank'[q][n].document = bank[q][n].document
        BY <1>4, <2>1, <3>2 DEF Follows, FromDocument
      <4>2. Len(bank[c]) >= 1
        BY <2>1, <4>1 DEF ImportInv, WholeDocuments
      <4>3. c \in BankCodes
        <5>1. bank[q][n].document \in Uploads
          BY <4>1 DEF ImportInv, BankFits, VersionFits, BankCodes
        <5> QED BY <2>1, <4>1, <5>1, WorkbookAssumption DEF RowsNamed, BankCodes
      <4> QED BY <1>5, <4>2, <4>3 DEF Wider
    <3> QED BY <3>1, <3>2
  <2> QED BY <2>1 DEF WholeDocuments
<1>9. PICK outcome : outcome = [status |-> "completed", lists |-> s.lists]
  OBVIOUS
<1>10. (Accounted(u, outcome))'
  <2>1. Listing(plan, s, Writes(plan))
    BY <1>3 DEF Written
  <2>2. outcome.lists = s.lists /\ DOMAIN s.lists = Lists /\ s.lists = [l \in Lists |-> s.lists[l]]
    BY <1>9, <2>1 DEF Listing
  <2>3. \A c \in QuestionCodes : (\E l \in Lists : c \in s.lists[l]) <=> c \in RowsNamed(u)
    BY <1>6, <2>1 DEF Listing
  <2>4. RowsNamed(u) = (UNION {s.lists[l] : l \in Lists}) \cap QuestionCodes
    BY <1>6, <2>3
  <2>5. /\ \A c \in s.lists["created"] : c \in QuestionCodes /\ Len(bank'[c]) >= 1
        /\ \A c \in s.lists["revised"] : c \in QuestionCodes /\ Len(bank'[c]) >= 2
    BY <1>2, <2>1 DEF Listing
  <2>6. (UNION {s.lists[l] : l \in Lists}) = (UNION {outcome.lists[l] : l \in DOMAIN outcome.lists})
    <3>1. PICK L : L = s.lists /\ DOMAIN L = Lists /\ outcome.lists = L
      BY <2>2
    <3>2. \A x : x \in (UNION {L[l] : l \in Lists}) <=> x \in (UNION {L[l] : l \in DOMAIN L})
      BY <3>1
    <3>3. (UNION {L[l] : l \in Lists}) = (UNION {L[l] : l \in DOMAIN L})
      BY <3>2
    <3> QED BY <3>1, <3>3, Zenon
  <2>7. /\ RowsNamed(u) = (UNION {outcome.lists[l] : l \in DOMAIN outcome.lists}) \cap QuestionCodes
        /\ \A c \in outcome.lists.created : c \in QuestionCodes /\ Len(bank'[c]) >= 1
        /\ \A c \in outcome.lists.revised : c \in QuestionCodes /\ Len(bank'[c]) >= 2
    BY <2>2, <2>4, <2>5, <2>6, Zenon
  <2> QED BY <2>7, Zenon DEF Accounted
<1>11. JobsFit'
  <2>1. PICK j : j = [pc |-> "record", upload |-> u, outcome |-> outcome] /\ Step(r, j)
    BY <1>2, <1>9
  <2>2. (JobFits(j))'
    BY <1>6, <1>10, <2>1 DEF JobFits
  <2> QED BY <1>5, <2>1, <2>2, JobStep
<1>12. LedgerFits'
  BY <1>5, LedgerStays DEF Commit
<1> QED BY <1>4, <1>8, <1>11, <1>12 DEF Follows, ImportInv

(* A review changes the status of one version. *)
StatusChanged(c, n, to) ==
  /\ bank' = [x \in BankCodes |-> bank'[x]]
  /\ \A x \in BankCodes : IsList(bank'[x]) /\ DOMAIN bank'[x] = DOMAIN bank[x] /\ Len(bank'[x]) = Len(bank[x])
  /\ \A x \in BankCodes : \A m \in DOMAIN bank[x] :
       bank'[x][m] = bank[x][m] \/ bank'[x][m] = [bank[x][m] EXCEPT !.status = to]

LEMMA ReviewChanges ==
  ASSUME BankFits(bank), NEW c \in BankCodes, NEW n, NEW to, Review(c, n, to)
  PROVE  StatusChanged(c, n, to)
<1>1. PICK v : v = [bank[c][n] EXCEPT !.status = to]
  OBVIOUS
<1>2. PICK q : q = [bank[c] EXCEPT ![n] = v]
  OBVIOUS
<1>3. bank' = [bank EXCEPT ![c] = q] /\ n \in DOMAIN bank[c]
  BY <1>1, <1>2 DEF Review
<1>4. \A x \in BankCodes : IsList(bank[x])
  BY DEF BankFits
<1>5. /\ IsList(q) /\ Len(q) = Len(bank[c]) /\ DOMAIN q = DOMAIN bank[c] /\ q[n] = v
      /\ \A m \in DOMAIN bank[c] : m # n => q[m] = bank[c][m]
  BY <1>2, <1>3, <1>4, ReplacedList
<1>6. bank' = [x \in BankCodes |-> bank'[x]] /\ bank'[c] = q /\ \A x \in BankCodes : x # c => bank'[x] = bank[x]
  BY <1>3 DEF BankFits
<1>7. ASSUME NEW x \in BankCodes, NEW m \in DOMAIN bank[x]
      PROVE  bank'[x][m] = bank[x][m] \/ bank'[x][m] = [bank[x][m] EXCEPT !.status = to]
  <2>1. CASE x = c /\ m = n
    BY <1>1, <1>5, <1>6, <2>1, Zenon
  <2>2. CASE x = c /\ m # n
    BY <1>5, <1>6, <1>7, <2>2, Zenon
  <2>3. CASE x # c
    BY <1>6, <2>3, Zenon
  <2> QED BY <2>1, <2>2, <2>3
<1> QED BY <1>4, <1>5, <1>6, <1>7 DEF StatusChanged

LEMMA StatusOnly ==
  ASSUME NEW c \in BankCodes, NEW v, VersionFits(c, v), NEW to, NEW w, w = [v EXCEPT !.status = to]
  PROVE  /\ VersionFits(c, w) /\ w.document = v.document /\ w = [v EXCEPT !.status = w.status]
         /\ c \in QuestionCodes => w.type = v.type /\ w.key = v.key /\ w.options = v.options /\ w.stimulus = v.stimulus
         /\ v = [v EXCEPT !.status = v.status]
BY DEF VersionFits, Fields

OnlyStatus == \A c \in BankCodes : \A n \in DOMAIN bank[c] : bank'[c][n] = [bank[c][n] EXCEPT !.status = bank'[c][n].status]

LEMMA ReviewKeeps ==
  ASSUME ImportInv, NEW c \in BankCodes, NEW n, NEW to, Review(c, n, to)
  PROVE  ImportInv' /\ OnlyStatus
<1>1. StatusChanged(c, n, to)
  BY ReviewChanges DEF ImportInv
<1>2. Wider(bank, bank')
  <2>1. \A x \in BankCodes : Len(bank[x]) \in Nat
    BY AppendedList DEF ImportInv, BankFits
  <2> QED BY <1>1, <2>1 DEF StatusChanged, Wider
<1>3. ASSUME NEW x \in BankCodes, NEW m \in DOMAIN bank[x]
      PROVE  /\ VersionFits(x, bank'[x][m]) /\ bank'[x][m].document = bank[x][m].document
             /\ bank'[x][m] = [bank[x][m] EXCEPT !.status = bank'[x][m].status]
             /\ x \in QuestionCodes => VersionRight(bank', x, bank'[x][m])
  <2>1. PICK v : v = bank[x][m] /\ VersionFits(x, v)
    BY <1>3 DEF ImportInv, BankFits
  <2>2. PICK w : w = bank'[x][m] /\ (w = v \/ w = [v EXCEPT !.status = to])
    BY <1>1, <1>3, <2>1 DEF StatusChanged
  <2>3. /\ VersionFits(x, w) /\ w.document = v.document /\ w = [v EXCEPT !.status = w.status]
        /\ x \in QuestionCodes => w.type = v.type /\ w.key = v.key /\ w.options = v.options /\ w.stimulus = v.stimulus
    <3>1. CASE w = v
      BY <2>1, <3>1, StatusOnly
    <3>2. CASE w = [v EXCEPT !.status = to]
      BY <2>1, <3>2, StatusOnly
    <3> QED BY <2>2, <3>1, <3>2
  <2>4. ASSUME x \in QuestionCodes PROVE VersionRight(bank', x, w)
    <3>1. VersionRight(bank, x, v)
      BY <1>3, <2>1, <2>4 DEF ImportInv, BankRight
    <3>2. VersionRight(bank', x, v)
      BY <1>2, <3>1, LinksStay DEF Wider
    <3> QED BY <2>3, <2>4, <3>2 DEF VersionRight
  <2> QED BY <2>1, <2>2, <2>3, <2>4
<1>4. BankFits(bank')
  BY <1>1, <1>3 DEF BankFits, StatusChanged
<1>5. BankRight(bank')
  BY <1>1, <1>3 DEF BankRight, StatusChanged, BankCodes
<1>6. WholeDocuments(bank')
  <2>1. ASSUME NEW q \in QuestionCodes, NEW m \in DOMAIN bank'[q], NEW d \in RowsNamed(bank'[q][m].document)
        PROVE  Len(bank'[d]) >= 1
    <3>1. m \in DOMAIN bank[q] /\ q \in BankCodes
      BY <1>1, <2>1 DEF StatusChanged, BankCodes
    <3>2. d \in RowsNamed(bank[q][m].document) /\ bank[q][m].document \in Uploads
      BY <1>3, <2>1, <3>1 DEF ImportInv, BankFits, VersionFits
    <3>3. Len(bank[d]) >= 1 /\ d \in BankCodes
      BY <3>1, <3>2, WorkbookAssumption DEF ImportInv, WholeDocuments, RowsNamed, BankCodes
    <3> QED BY <1>1, <3>3 DEF StatusChanged
  <2> QED BY <2>1 DEF WholeDocuments
<1>7. JobsFit'
  <2>1. ASSUME NEW r \in Importers PROVE (JobFits(job[r]))'
    <3>1. PICK k : k = job[r] /\ JobFits(k) /\ job'[r] = k
      BY DEF ImportInv, JobsFit, Review
    <3>2. (JobFits(k))'
      BY <1>2, <3>1, JobStays
    <3> QED BY <3>1, <3>2
  <2> QED BY <2>1 DEF ImportInv, JobsFit, Review
<1>8. LedgerFits'
  BY <1>2, LedgerStays DEF Review
<1>9. OnlyStatus
  BY <1>3 DEF OnlyStatus
<1> QED BY <1>4, <1>5, <1>6, <1>7, <1>8, <1>9 DEF ImportInv

LEMMA RecordKeeps ==
  ASSUME ImportInv, NEW r \in Importers, Record(r)
  PROVE  ImportInv' /\ bank' = bank
<1>1. bank' = bank /\ Wider(bank, bank')
  BY SameWider DEF Record, ImportInv
<1>2. PICK u, outcome : u = job[r].upload /\ outcome = job[r].outcome /\ u \in Uploads /\ Accounted(u, outcome)
  BY DEF Record, ImportInv, JobsFit, JobFits, Idling
<1>3. PICK kept : kept = IF ledger[u] = NoJob THEN outcome ELSE ledger[u]
  OBVIOUS
<1>4. ledger' = [ledger EXCEPT ![u] = kept]
  BY <1>2, <1>3 DEF Record
<1>5. ledger' = [x \in Uploads |-> ledger'[x]] /\ ledger'[u] = kept
      /\ \A x \in Uploads : x # u => ledger'[x] = ledger[x]
  BY <1>2, <1>4 DEF ImportInv, LedgerFits
<1>6. \A x \in Uploads : ledger'[x] # NoJob => Accounted(x, ledger'[x])
  BY <1>2, <1>3, <1>5 DEF ImportInv, LedgerFits
<1>7. LedgerFits'
  <2>1. ASSUME NEW x \in Uploads, ledger'[x] # NoJob PROVE (Accounted(x, ledger[x]))'
    <3>1. PICK k : k = ledger'[x] /\ Accounted(x, k)
      BY <1>6, <2>1
    <3>2. (Accounted(x, k))'
      BY <1>1, <3>1, AccountStays
    <3> QED BY <3>1, <3>2
  <2> QED BY <1>5, <2>1 DEF LedgerFits
<1>8. JobsFit'
  <2>1. PICK j : j = Idling /\ Step(r, j)
    BY DEF Record
  <2>2. (JobFits(j))'
    BY <2>1 DEF JobFits, Idling
  <2> QED BY <1>1, <2>1, <2>2, JobStep
<1> QED BY <1>1, <1>7, <1>8 DEF ImportInv

(* Everything else moves one request and leaves the bank alone. *)
LEMMA OthersKeep ==
  ASSUME ImportInv, NEW r \in Importers, bank' = bank, ledger' = ledger, NEW j, Step(r, j), JobFits(j)
  PROVE  ImportInv'
<1>1. Wider(bank, bank')
  BY SameWider DEF ImportInv
<1>2. (JobFits(j))'
  BY <1>1, JobStays
<1>3. JobsFit' /\ LedgerFits'
  BY <1>1, <1>2, JobStep, LedgerStays
<1> QED BY <1>3 DEF ImportInv

LEMMA FailedFits ==
  ASSUME NEW u \in Uploads PROVE JobFits(Failed(u))
BY DEF JobFits, Failed, Accounted

LEMMA ImportSteps ==
  ASSUME ImportInv, ImportNext
  PROVE  ImportInv' /\ (bank' = bank \/ SealedKept(bank, bank') \/ OnlyStatus)
<1>1. ASSUME NEW r \in Importers, NEW u \in Uploads, NEW mode \in Modes, LookUp(r, u, mode)
      PROVE  ImportInv' /\ bank' = bank
  <2>1. PICK j : j = [pc |-> "plan", upload |-> u, mode |-> mode] /\ Step(r, j)
    BY <1>1 DEF LookUp
  <2>2. JobFits(j)
    BY <2>1 DEF JobFits
  <2> QED BY <1>1, <2>1, <2>2, OthersKeep DEF LookUp
<1>2. ASSUME NEW r \in Importers, Refuse(r) PROVE ImportInv' /\ bank' = bank
  <2>1. PICK u : u = job[r].upload /\ u \in Uploads
    BY <1>2 DEF Refuse, ImportInv, JobsFit, JobFits, Idling
  <2> QED BY <1>2, <2>1, OthersKeep, FailedFits DEF Refuse
<1>3. ASSUME NEW r \in Importers, Plan(r) PROVE ImportInv' /\ bank' = bank
  <2>1. PICK u, mode : u = job[r].upload /\ mode = job[r].mode /\ u \in Uploads /\ mode \in Modes
    BY <1>3 DEF Plan, ImportInv, JobsFit, JobFits, Idling
  <2>2. PICK plan : plan = PlanOf(u, mode) /\ PlanFits(u, plan)
    BY <1>3, <2>1, PlanOfFits DEF Plan, ImportInv
  <2>3. PICK j : j = [pc |-> "check", upload |-> u, plan |-> plan] /\ Step(r, j)
    BY <1>3, <2>1, <2>2 DEF Plan
  <2>4. JobFits(j)
    BY <2>2, <2>3 DEF JobFits
  <2> QED BY <1>3, <2>3, <2>4, OthersKeep DEF Plan
<1>9. ASSUME NEW r \in Importers, CheckDrafts(r) PROVE ImportInv' /\ bank' = bank
  <2>1. PICK u, plan : u = job[r].upload /\ plan = job[r].plan /\ PlanFits(u, plan)
    BY <1>9 DEF CheckDrafts, ImportInv, JobsFit, JobFits, Idling
  <2>2. PICK j : j = [pc |-> "write", upload |-> u, plan |-> plan] /\ Step(r, j)
    BY <1>9, <2>1 DEF CheckDrafts
  <2>3. JobFits(j)
    BY <2>1, <2>2 DEF JobFits
  <2> QED BY <1>9, <2>2, <2>3, OthersKeep DEF CheckDrafts
<1>4. ASSUME NEW r \in Importers, Commit(r) PROVE ImportInv' /\ SealedKept(bank, bank')
  BY <1>4, CommitKeeps
<1>5. ASSUME NEW r \in Importers, RollBack(r) PROVE ImportInv' /\ bank' = bank
  <2>1. PICK u : u = job[r].upload /\ u \in Uploads
    BY <1>5 DEF RollBack, ImportInv, JobsFit, JobFits, Idling, PlanFits
  <2> QED BY <1>5, <2>1, OthersKeep, FailedFits DEF RollBack
<1>6. ASSUME NEW r \in Importers, Record(r) PROVE ImportInv' /\ bank' = bank
  BY <1>6, RecordKeeps
<1>7. ASSUME NEW r \in Importers, Die(r) PROVE ImportInv' /\ bank' = bank
  <2>1. PICK j : j = Idling /\ Step(r, j) /\ JobFits(j)
    BY <1>7 DEF Die, JobFits
  <2> QED BY <1>7, <2>1, OthersKeep DEF Die
<1>8. ASSUME NEW c \in BankCodes, NEW n, NEW to, Review(c, n, to) PROVE ImportInv' /\ OnlyStatus
  BY <1>8, ReviewKeeps
<1> QED BY <1>1, <1>2, <1>3, <1>4, <1>5, <1>6, <1>7, <1>8, <1>9 DEF ImportNext, BankCodes

LEMMA ImportStarts ==
  ASSUME ImportInit PROVE ImportInv
<1>1. bank = [c \in BankCodes |-> <<>>] /\ \A c \in BankCodes : bank[c] = <<>>
  BY DEF ImportInit, BankCodes
<1>2. BankFits(bank) /\ BankRight(bank) /\ WholeDocuments(bank)
  BY <1>1 DEF BankFits, BankRight, WholeDocuments, IsList, BankCodes
<1>3. JobsFit /\ LedgerFits
  BY DEF ImportInit, JobsFit, JobFits, LedgerFits
<1> QED BY <1>2, <1>3 DEF ImportInv

LEMMA ImportInvStays ==
  ASSUME ImportInv, [ImportNext]_importVars PROVE ImportInv'
<1>1. CASE ImportNext
  BY <1>1, ImportSteps
<1>2. CASE UNCHANGED importVars
  <2>1. bank' = bank /\ ledger' = ledger /\ job' = job /\ Wider(bank, bank')
    BY <1>2, SameWider DEF importVars, ImportInv
  <2>2. LedgerFits'
    BY <2>1, LedgerStays
  <2>3. ASSUME NEW r \in Importers PROVE (JobFits(job[r]))'
    <3>1. PICK k : k = job[r] /\ JobFits(k) /\ job'[r] = k
      BY <2>1 DEF ImportInv, JobsFit
    <3>2. (JobFits(k))'
      BY <2>1, <3>1, JobStays
    <3> QED BY <3>1, <3>2
  <2>4. JobsFit'
    BY <2>1, <2>3 DEF ImportInv, JobsFit
  <2> QED BY <2>1, <2>2, <2>4 DEF ImportInv
<1> QED BY <1>1, <1>2

(* Jobs, reviews and records keep the invariant, so whatever the workbooks *)
(* hold and however many requests overlap, no job is half in the bank: the *)
(* questions written rest on what their rows name, and a job recorded      *)
(* completed accounts for its rows (runQuestionImportJob).                 *)
THEOREM ImportsAreWhole == ImportSpec => []ImportIsWhole
<1>1. ImportInit => ImportInv
  BY ImportStarts
<1>2. ImportInv /\ [ImportNext]_importVars => ImportInv'
  BY ImportInvStays
<1>3. ImportInv => ImportIsWhole
  <2> SUFFICES ASSUME ImportInv PROVE ImportIsWhole
    OBVIOUS
  <2>1. ASSUME NEW q \in QuestionCodes, NEW n \in DOMAIN bank[q],
               NEW v, v = bank[q][n], NEW i \in DOMAIN Workbook[v.document].questions
        PROVE  bank[Workbook[v.document].questions[i].code] # <<>>
    <3>1. PICK c : c = Workbook[v.document].questions[i].code
      OBVIOUS
    <3>2. c \in RowsNamed(v.document)
      BY <3>1 DEF RowsNamed, Range
    <3>3. Len(bank[c]) >= 1
      BY <2>1, <3>2 DEF ImportInv, WholeDocuments
    <3> QED BY <3>1, <3>3
  <2>2. ASSUME NEW q \in QuestionCodes, NEW n \in DOMAIN bank[q], NEW v, v = bank[q][n]
        PROVE  /\ ValidAnswerKey(v.type, v.key, v.options)
               /\ \E entry \in RowsOf(q, v.document) : LinkedAsNamed(bank, v.stimulus, entry)
    BY <2>2 DEF ImportInv, BankRight, VersionRight
  <2>3. ASSUME NEW u \in Uploads, ledger[u] # NoJob, ledger[u].status = "completed"
        PROVE  /\ RowsNamed(u) = (UNION {ledger[u].lists[l] : l \in DOMAIN ledger[u].lists}) \cap QuestionCodes
               /\ \A c \in ledger[u].lists.created : Len(bank[c]) >= 1
               /\ \A c \in ledger[u].lists.revised : Len(bank[c]) >= 2
    BY <2>3 DEF ImportInv, LedgerFits, Accounted
  <2> QED BY <2>1, <2>2, <2>3 DEF ImportIsWhole, RowsNamed
<1> QED BY <1>1, <1>2, <1>3, PTL DEF ImportSpec

(* An approved question stays what was approved, a review's status aside:  *)
(* a job that read it as a draft before the approval has its row by the    *)
(* time it stores the key, finds it locked there (upsertQuestionVersion-   *)
(* Secret) and rolls back.                                                 *)
THEOREM ApprovedQuestionsStay == ImportSpec => ApprovedQuestionIsKept
<1>1. ImportInit => ImportInv
  BY ImportStarts
<1>2. ImportInv /\ [ImportNext]_importVars => ImportInv'
  BY ImportInvStays
<1> DEFINE Kept == \A q \in QuestionCodes : \A n \in DOMAIN bank[q] :
                     bank[q][n].status \in Sealed =>
                       bank'[q][n] = [bank[q][n] EXCEPT !.status = bank'[q][n].status]
<1>3. ImportInv /\ [ImportNext]_importVars => [Kept]_bank
  <2> SUFFICES ASSUME ImportInv, [ImportNext]_importVars, bank' # bank PROVE Kept
    OBVIOUS
  <2>1. SealedKept(bank, bank') \/ OnlyStatus
    BY ImportSteps DEF importVars
  <2>2. ASSUME NEW q \in QuestionCodes, NEW n \in DOMAIN bank[q], bank[q][n].status \in Sealed
        PROVE  bank'[q][n] = [bank[q][n] EXCEPT !.status = bank'[q][n].status]
    <3>1. q \in BankCodes
      BY DEF BankCodes
    <3>2. CASE SealedKept(bank, bank')
      <4>1. PICK v : v = bank[q][n] /\ VersionFits(q, v)
        BY <3>1, <2>2 DEF ImportInv, BankFits
      <4>2. bank'[q][n] = v /\ v = [v EXCEPT !.status = v.status]
        BY <2>2, <3>1, <3>2, <4>1, StatusOnly DEF SealedKept
      <4> QED BY <4>1, <4>2, Zenon
    <3>3. CASE OnlyStatus
      BY <2>2, <3>1, <3>3 DEF OnlyStatus
    <3> QED BY <2>1, <3>2, <3>3
  <2> QED BY <2>2
<1>4. ApprovedQuestionIsKept <=> [][Kept]_bank
  BY Zenon DEF ApprovedQuestionIsKept
<1> HIDE DEF Kept
<1> QED BY <1>1, <1>2, <1>3, <1>4, PTL DEF ImportSpec
=============================================================================
