------------------------------- MODULE Import -------------------------------
(***************************************************************************)
(* Bulk question import (packages/db/src/exam/import): a workbook and its  *)
(* image archive are checked against themselves and the question bank,     *)
(* written in one transaction, and the job is recorded afterwards, in a    *)
(* statement of its own, under the checksum of the bytes.                  *)
(*                                                                         *)
(* Requests overlap, reviewers move versions on between a request's plan   *)
(* and its transaction, and between the transaction's reads and its        *)
(* updates; the database may refuse, the server may die.                   *)
(*                                                                         *)
(* Abstracted: an upload is its checksum, and names the documents it       *)
(* carries; the reads of one plan are one step; the transaction is two,    *)
(* the statuses it reads before it holds a row, and all the rest; an       *)
(* option's rows are kept with its question's row; the importer's role     *)
(* grant holds; an issue is one that makes the job fail, whatever it says. *)
(* Manual edits are in module Publication: here reviewers change statuses. *)
(***************************************************************************)
EXTENDS AnswerKeys, Sequences, FiniteSetsExt, Functions

CONSTANTS Uploads,       \* contents sent
          Workbook,      \* what each upload holds: [sheets, template, files, passages,
                         \* questions, assets]
          QuestionCodes, PassageCodes,
          Importers,     \* requests in flight
          MaxQuestions, MaxOptions, \* limits per job
          MaxVersions,   \* bound on the versions of one code explored
          MaxBegun,      \* bound on the requests and reviews explored
          NoImage, NoPassage, NoJob

ASSUME WorkbookAssumption ==
  /\ DOMAIN Workbook = Uploads
  /\ QuestionCodes \cap PassageCodes = {}
  /\ \A u \in Uploads :
       /\ Workbook[u].questions \in Seq(Range(Workbook[u].questions))
       /\ Workbook[u].passages \in Seq(Range(Workbook[u].passages))
       /\ \A row \in Range(Workbook[u].questions) : row.code \in QuestionCodes
       /\ \A row \in Range(Workbook[u].passages) : row.code \in PassageCodes
ASSUME NoPassageAssumption == NoPassage \notin PassageCodes \X Nat

VARIABLES bank,     \* versions of each question and passage, oldest first
          ledger,   \* question_import_jobs by checksum
          job,      \* what each request is doing
          begun     \* requests and reviews so far

importVars == <<bank, ledger, job, begun>>

Idling == [pc |-> "idle"]
Modes == {"update_draft", "create_revision"}
Sealed == {"approved", "published", "archived"}   \* isQuestionVersionLocked
NextStatus == [draft |-> {"in_review"}, in_review |-> {"changes_requested", "approved"},
               changes_requested |-> {"in_review"}, approved |-> {"published"},
               published |-> {"archived"}, archived |-> {}]

----------------------------------------------------------------------------
(* The bytes.  A path is the sequence of its segments; one unsafe entry    *)
(* condemns the whole archive.                                             *)
SafeAssetPath(path) ==
  /\ ".." \notin Range(path)
  /\ Len(path) >= 3
  /\ path[1] = "images"
  /\ path[2] \in {"questions", "options", "passages", "explanations"}

Basename(path) == path[Len(path)]

ReadableZip(files) ==
  /\ \A f \in files : ~f.symlink /\ SafeAssetPath(f.path) /\ f.image /\ ~f.oversized
  /\ \A f, g \in files : Basename(f.path) = Basename(g.path) => f = g

ReadableWorkbook(book) == {"Instructions", "Questions"} \subseteq book.sheets
SupportedTemplate(book) == book.template = "2.1"

----------------------------------------------------------------------------
(* The rows.  An option row is [code, correct, weight, image], a statement *)
(* row [code, expected].                                                   *)
TypeNamed == [single_choice |-> "single_choice", weighted_choice |-> "weighted_choice",
              multiple_choice |-> "multiple_choice", numeric |-> "numeric",
              statement_true_false |-> "true_false"]
RolesNamed == [stem |-> "stem", option |-> "option", explanation |-> "explanation",
               passage |-> "stimulus_body"]

Marked(row) == {o.code : o \in {x \in row.options : x.correct}}
Weighted(row) == {o \in row.options : o.weight # NoWeight}

HasKey(type, row) ==
  /\ type = "single_choice" => Cardinality({o \in row.options : o.correct}) = 1
  /\ type = "multiple_choice" => row.partial \in {"all_or_nothing", "proportional"}
  /\ type = "numeric" => row.number # NoWeight

BuiltKey(type, row) ==
  CASE type = "single_choice" -> SingleKey(CHOOSE c \in Marked(row) : TRUE)
    [] type = "weighted_choice" ->
         WeightedKey([c \in {o.code : o \in Weighted(row)} |->
                        (CHOOSE o \in Weighted(row) : o.code = c).weight])
    [] type = "multiple_choice" -> MultipleKey(Marked(row))
    [] type = "true_false" ->
         TrueFalseKey([c \in {s.code : s \in row.statements} |->
                         (CHOOSE s \in row.statements : s.code = c).expected])
    [] type = "numeric" -> NumericKey(row.number, row.tolerance)

(* What the version's options table gets: statements of a true/false item. *)
OptionRows(type, row) == IF type = "true_false" THEN row.statements ELSE row.options
OptionCodes(type, row) == {o.code : o \in OptionRows(type, row)}

(* Images named by rows must be in the archive. *)
Resolvable(book, image) == image = NoImage \/ \E f \in book.files : f.path = image

PassageFits(book, row) == Resolvable(book, row.image)

QuestionFits(book, row) ==
  /\ row.status \in {"draft", "in_review"}
  /\ row.passage = NoPassage \/ \E i \in DOMAIN book.passages : book.passages[i].code = row.passage
  /\ Resolvable(book, row.image)
  /\ row.type \in DOMAIN TypeNamed
  /\ \A o \in row.options : Resolvable(book, o.image)
  /\ HasKey(TypeNamed[row.type], row)
  /\ ValidAnswerKey(TypeNamed[row.type], BuiltKey(TypeNamed[row.type], row),
                    OptionCodes(TypeNamed[row.type], row))

AssetRowFits(book, row) == Resolvable(book, row.image) /\ row.role \in DOMAIN RolesNamed

WithinLimits(book) ==
  /\ Len(book.questions) <= MaxQuestions
  /\ MapThenSumSet(LAMBDA i : Cardinality(book.questions[i].options)
                               + Cardinality(book.questions[i].statements),
                   DOMAIN book.questions) <= MaxOptions

Sound(book) ==
  /\ WithinLimits(book)
  /\ \A i \in DOMAIN book.passages : PassageFits(book, book.passages[i])
  /\ \A i \in DOMAIN book.questions : QuestionFits(book, book.questions[i])
  /\ \A i \in DOMAIN book.assets : AssetRowFits(book, book.assets[i])

(* resolveImportRowIntent over the latest version of the row's code. *)
Intent(c, mode) ==
  LET locked == bank[c][Len(bank[c])].status \in Sealed
  IN CASE bank[c] = <<>> -> "create"
       [] bank[c] # <<>> /\ locked /\ mode = "create_revision" -> "create_revision"
       [] bank[c] # <<>> /\ ~locked /\ mode = "update_draft" -> "update_draft"
       [] OTHER -> "skip"

RowPlan(row, mode) == [row |-> row, intent |-> Intent(row.code, mode), version |-> Len(bank[row.code])]
PlanOf(u, mode) ==
  [passages |-> [i \in DOMAIN Workbook[u].passages |-> RowPlan(Workbook[u].passages[i], mode)],
   questions |-> [i \in DOMAIN Workbook[u].questions |-> RowPlan(Workbook[u].questions[i], mode)]]

----------------------------------------------------------------------------
(* The transaction: a run of writes over a state [bank, at, lists], where  *)
(* "at" is the version each passage of the workbook has.  A write maps the *)
(* state to the set of its results: empty when it throws, which rolls the  *)
(* whole transaction back.  An update names a version by its id alone, so  *)
(* it goes through whatever the status has become since it was read; from  *)
(* then on the row is the transaction's, and what it reads of it is        *)
(* current until it ends.                                                  *)
(* A broken gate: what is approved is not locked yet. *)
AbleUntilPublished(version) == version.status \notin {"published", "archived"}

Able(version) == version.status \notin Sealed

AddVersion(s, c, version) == [s EXCEPT !.bank[c] = Append(@, version)]
SetVersion(s, c, n, version) == [s EXCEPT !.bank[c][n] = version]
Listed(s, list, c) == [s EXCEPT !.lists[list] = @ \cup {c}]

Passage(u) == [status |-> "draft", document |-> u, assets |-> {}]

(* The state with the version that holds the row's document, by intent: a  *)
(* code that is no longer new violates the key on (code, version 1).       *)
Placed(s, plan, fresh, updated) ==
  LET c == plan.row.code
  IN CASE plan.intent = "create" -> IF s.bank[c] = <<>> THEN {AddVersion(s, c, fresh)} ELSE {}
       [] plan.intent = "create_revision" -> {AddVersion(s, c, fresh)}
       [] plan.intent = "update_draft" ->
            {SetVersion(s, c, plan.version, updated)}

Position(s, plan) == IF plan.intent = "update_draft" THEN plan.version ELSE Len(s.bank[plan.row.code])

WithAssets(version, images) == [version EXCEPT !.assets = @ \cup (images \ {NoImage})]
AssetsOf(s, c, n, images) == SetVersion(s, c, n, WithAssets(s.bank[c][n], images))

(* The image is added last, and only to a version not locked by then. *)
WritePassage(u, s, plan) ==
  LET c == plan.row.code
      Kept(t, n) == IF plan.row.image = NoImage \/ Able(t.bank[c][n])
                    THEN {[AssetsOf(t, c, n, {plan.row.image}) EXCEPT !.at[c] = n]} ELSE {}
  IN IF plan.intent = "skip"
     THEN {Listed([s EXCEPT !.at[c] = plan.version], "skipped", c)}
     ELSE UNION {Kept(t, Position(t, plan)) :
                   t \in Placed(s, plan, Passage(u), [s.bank[c][plan.version] EXCEPT !.document = u])}

(* A broken write: a kept passage is not linked again. *)
LinkedToNew(u, s, plan) ==
  IF plan.row.passage = NoPassage \/ s.bank[plan.row.passage][s.at[plan.row.passage]].document # u
  THEN NoPassage ELSE <<plan.row.passage, s.at[plan.row.passage]>>

Linked(u, s, plan) ==
  IF plan.row.passage = NoPassage THEN NoPassage ELSE <<plan.row.passage, s.at[plan.row.passage]>>

(* Assets listed for one owner: an option code goes with the option role   *)
(* and must be an option of the version.                                   *)
ListedAssets(u, c) == {Workbook[u].assets[i] : i \in {j \in DOMAIN Workbook[u].assets :
                                                        Workbook[u].assets[j].owner = c}}
Attachable(asset, codes) ==
  IF RolesNamed[asset.role] = "option" THEN asset.option \in codes ELSE asset.option = NoImage

(* Options are replaced when the row has any; the key is then checked      *)
(* against the version's own type and options, the assets against the      *)
(* options; storing the key reads the status once more.  An update leaves  *)
(* the type as it was.                                                     *)
Fill(u, s, plan, n) ==
  LET c == plan.row.code
      type == TypeNamed[plan.row.type]
      rows == OptionRows(type, plan.row)
      version == s.bank[c][n]
      codes == IF rows = {} THEN version.options ELSE OptionCodes(type, plan.row)
      key == BuiltKey(type, plan.row)
      images == {plan.row.image} \cup {o.image : o \in plan.row.options}
                  \cup {a.image : a \in ListedAssets(u, c)}
  IN IF /\ Able(version)
        /\ Cardinality(OptionCodes(type, plan.row)) = Cardinality(rows)
        /\ ValidAnswerKey(version.type, key, codes)
        /\ \A o \in plan.row.options : o.image # NoImage => o.code \in codes
        /\ \A a \in ListedAssets(u, c) : Attachable(a, codes)
     THEN {SetVersion(s, c, n, WithAssets([version EXCEPT !.options = codes, !.key = key], images))}
     ELSE {}

ListNamed == [create |-> "created", update_draft |-> "updated", create_revision |-> "revised"]

WriteRow(u, s, plan) ==
  LET c == plan.row.code
      link == Linked(u, s, plan)
      fresh == [status |-> "draft", document |-> u, type |-> TypeNamed[plan.row.type],
                stimulus |-> link, options |-> {}, key |-> NoJob, assets |-> {}]
  IN IF plan.intent = "skip" THEN {Listed(s, "skipped", c)}
     ELSE UNION {Fill(u, Listed(t, ListNamed[plan.intent], c), plan, Position(t, plan)) :
                   t \in Placed(s, plan, fresh,
                                [s.bank[c][plan.version] EXCEPT !.document = u, !.stimulus = link])}

(* Then the assets of passages, also of those the job keeps, whose rows it *)
(* does not hold: their status is the one it read (StillOpen).             *)
WritePassageAssets(u, s, plan) ==
  LET c == plan.row.code
      assets == ListedAssets(u, c)
  IN IF assets = {} THEN {s}
     ELSE IF /\ plan.intent = "skip" \/ Able(s.bank[c][s.at[c]])
             /\ \A a \in assets : RolesNamed[a.role] # "option" => a.option = NoImage
          THEN {AssetsOf(s, c, s.at[c], {a.image : a \in assets})}
          ELSE {}

(* The writes of a job in order: passages, questions, passages' assets. *)
Writes(plan) == 2 * Len(plan.passages) + Len(plan.questions)

NthWrite(u, s, plan, i) ==
  LET passages == Len(plan.passages)
      rows == passages + Len(plan.questions)
  IN CASE i <= passages -> WritePassage(u, s, plan.passages[i])
       [] i > passages /\ i <= rows -> WriteRow(u, s, plan.questions[i - passages])
       [] i > rows -> WritePassageAssets(u, s, plan.passages[i - rows])

Nothing == [l \in {"created", "updated", "revised", "skipped"} |-> {}]
Untouched == [bank |-> bank, at |-> [c \in PassageCodes |-> 0], lists |-> Nothing]

Results(u, plan) ==
  LET after[i \in 0..Writes(plan)] ==
        IF i = 0 THEN {Untouched} ELSE UNION {NthWrite(u, s, plan, i) : s \in after[i - 1]}
  IN after[Writes(plan)]

(* What the transaction reads before it holds the row: the versions it     *)
(* updates, and the passages it keeps and adds assets to.                  *)
StillOpen(u, plan) ==
  /\ \A p \in Range(plan.passages) \cup Range(plan.questions) :
       p.intent = "update_draft" => Able(bank[p.row.code][p.version])
  /\ \A p \in Range(plan.passages) :
       p.intent = "skip" /\ ListedAssets(u, p.row.code) # {} => Able(bank[p.row.code][p.version])

----------------------------------------------------------------------------
(* runQuestionImportJob, statement by statement.  A checksum already in    *)
(* the ledger replays its job, which changes nothing.                      *)
Step(r, c) == job' = [job EXCEPT ![r] = c]
Begin == begun < MaxBegun /\ begun' = begun + 1

LookUp(r, u, mode) ==
  /\ job[r] = Idling
  /\ ledger[u] = NoJob
  /\ Step(r, [pc |-> "plan", upload |-> u, mode |-> mode])
  /\ Begin
  /\ UNCHANGED <<bank, ledger>>

Failed(u) == [pc |-> "record", upload |-> u, outcome |-> [status |-> "failed", lists |-> Nothing]]

Refuse(r) ==
  LET u == job[r].upload
      book == Workbook[u]
  IN /\ job[r].pc = "plan"
     /\ ~(/\ ReadableWorkbook(book) /\ ReadableZip(book.files) /\ SupportedTemplate(book)
          /\ Sound(book))
     /\ Step(r, Failed(u))
     /\ UNCHANGED <<bank, ledger, begun>>

Plan(r) ==
  LET u == job[r].upload
      book == Workbook[u]
  IN /\ job[r].pc = "plan"
     /\ ReadableWorkbook(book) /\ ReadableZip(book.files) /\ SupportedTemplate(book) /\ Sound(book)
     /\ Step(r, [pc |-> "check", upload |-> u, plan |-> PlanOf(u, job[r].mode)])
     /\ UNCHANGED <<bank, ledger, begun>>

CheckDrafts(r) ==
  /\ job[r].pc = "check"
  /\ StillOpen(job[r].upload, job[r].plan)
  /\ Step(r, [pc |-> "write", upload |-> job[r].upload, plan |-> job[r].plan])
  /\ UNCHANGED <<bank, ledger, begun>>

Commit(r) ==
  /\ job[r].pc = "write"
  /\ \E s \in Results(job[r].upload, job[r].plan) :
       /\ \A c \in DOMAIN bank : Len(s.bank[c]) <= MaxVersions
       /\ bank' = s.bank
       /\ Step(r, [pc |-> "record", upload |-> job[r].upload,
                   outcome |-> [status |-> "completed", lists |-> s.lists]])
  /\ UNCHANGED <<ledger, begun>>

(* A read or a write threw, or the database refused one (a unique key that *)
(* an overlapping job took first, a lost connection).                      *)
RollBack(r) ==
  /\ job[r].pc \in {"check", "write"}
  /\ Step(r, Failed(job[r].upload))
  /\ UNCHANGED <<bank, ledger, begun>>

(* recordJob: the second insert of a checksum violates its unique key. *)
Record(r) ==
  /\ job[r].pc = "record"
  /\ ledger' = [ledger EXCEPT ![job[r].upload] = IF @ = NoJob THEN job[r].outcome ELSE @]
  /\ Step(r, Idling)
  /\ UNCHANGED <<bank, begun>>

Die(r) ==
  /\ job[r] # Idling
  /\ Step(r, Idling)
  /\ UNCHANGED <<bank, ledger, begun>>

(* Reviewers move a version on. *)
Review(c, n, to) ==
  /\ n \in DOMAIN bank[c]
  /\ to \in NextStatus[bank[c][n].status]
  /\ bank' = [bank EXCEPT ![c][n].status = to]
  /\ Begin
  /\ UNCHANGED <<ledger, job>>

----------------------------------------------------------------------------
ImportInit ==
  /\ bank = [c \in QuestionCodes \cup PassageCodes |-> <<>>]
  /\ ledger = [u \in Uploads |-> NoJob]
  /\ job = [r \in Importers |-> Idling]
  /\ begun = 0

ImportNext ==
  \/ \E r \in Importers, u \in Uploads, mode \in Modes : LookUp(r, u, mode)
  \/ \E r \in Importers : Refuse(r)
  \/ \E r \in Importers : Plan(r)
  \/ \E r \in Importers : CheckDrafts(r)
  \/ \E r \in Importers : Commit(r)
  \/ \E r \in Importers : RollBack(r)
  \/ \E r \in Importers : Record(r)
  \/ \E r \in Importers : Die(r)
  \/ \E c \in QuestionCodes \cup PassageCodes, n \in 1..MaxVersions, to \in DOMAIN NextStatus :
       Review(c, n, to)

ImportSpec == ImportInit /\ [][ImportNext]_importVars

----------------------------------------------------------------------------
(* The workbook rows a version may have been written from. *)
RowsOf(c, u) == {row \in Range(Workbook[u].questions) : row.code = c}

(* The passage a row names is the one a version is linked to. *)
LinkedAsNamed(versions, link, row) ==
  IF row.passage = NoPassage THEN link = NoPassage
  ELSE link # NoPassage /\ link[1] = row.passage /\ link[2] \in DOMAIN versions[link[1]]

(* No job is half in the bank: where one row of a workbook was written,    *)
(* every code of that workbook has a version; every question is linked to  *)
(* a version of the passage its row names and carries a key its own type   *)
(* and options accept; and a job recorded completed accounts for each of   *)
(* its rows, the written ones being there.  Passages are written first,    *)
(* some rows are kept, and reviewers and other jobs go on meanwhile.       *)
ImportIsWhole ==
  /\ \A q \in QuestionCodes : \A n \in DOMAIN bank[q] :
       LET v == bank[q][n]
           book == Workbook[v.document]
       IN /\ \A i \in DOMAIN book.questions : bank[book.questions[i].code] # <<>>
          /\ ValidAnswerKey(v.type, v.key, v.options)
          /\ \E row \in RowsOf(q, v.document) : LinkedAsNamed(bank, v.stimulus, row)
  /\ \A u \in Uploads : ledger[u] # NoJob /\ ledger[u].status = "completed" =>
       LET codes == {row.code : row \in Range(Workbook[u].questions)}
           lists == ledger[u].lists
       IN /\ codes = (UNION {lists[l] : l \in DOMAIN lists}) \cap QuestionCodes
          /\ \A c \in lists.created : Len(bank[c]) >= 1
          /\ \A c \in lists.revised : Len(bank[c]) >= 2

(* A question that was approved keeps what was approved, its text, options,*)
(* key and images: a job that read it as a draft just before the approval  *)
(* has updated the row by the time it stores the key, finds it locked and  *)
(* takes everything back.  Passages have no such last look.                *)
ApprovedQuestionIsKept ==
  [][\A q \in QuestionCodes : \A n \in DOMAIN bank[q] :
       bank[q][n].status \in Sealed =>
         bank'[q][n] = [bank[q][n] EXCEPT !.status = bank'[q][n].status]]_bank
=============================================================================
