------------------------------ MODULE Marking ------------------------------
(***************************************************************************)
(* From an answer to the score a learner sees and the page that explains   *)
(* it: what may be saved, what a scoring policy makes of the answers, and  *)
(* the result and review pages                                             *)
(* (packages/domain/src/exam/{answer-*,score-calculation,scoring-policy},  *)
(* packages/db/src/exam/scoring).                                          *)
(*                                                                         *)
(* The score is computed once from the keys under the attempt's pinned     *)
(* policy, and again under another policy by a correction; the review page *)
(* is computed by other code, later, from the same keys.  A page reads the *)
(* current result and the batch's state first, the questions afterwards;   *)
(* corrections and the batch's clock go on in between.  A save checks that *)
(* the attempt is open before its transaction, and so may write after the  *)
(* hand-in, and after scoring: scoring compares the answers with those     *)
(* handed in, the review page does not.                                    *)
(*                                                                         *)
(* Abstracted: the leases, deadlines and revisions of a save (module       *)
(* Attempt); the races of a correction (module Correction) and of the      *)
(* publication of keys (module Publication): here a paper is fixed; the    *)
(* learner owns the attempt; a batch's state is the window it has reached. *)
(***************************************************************************)
EXTENDS AnswerKeys, Sequences, FiniteSetsExt

CONSTANTS Structure,   \* section code -> question types the section allows
          Papers,      \* papers an attempt may get: instance -> [section, type, key, codes]
          Rules,       \* scoring policies: [maxScores, scorers, thresholds]
          Replies,     \* payloads a learner may send
          MaxResults,  \* bound on the result versions explored
          MaxSaves,    \* bound on the saves explored
          NoScorer, NoValue, NoReply, Nobody

VARIABLES paper,     \* the presented question instances
          pinned,    \* the policy version the attempt pinned
          answers,   \* answer_states of each instance; NoReply: none, or cleared
          saves,     \* saves so far
          saving,    \* <<instance, payload>> of the saves checked and not yet written
          handedIn,  \* the pinned answer set, or Nobody before the hand-in
          results,   \* result_versions: policy and score; the last one is current
          stage,     \* the batch's state
          visit,     \* what the learner's review request is doing
          slip,      \* the score last shown
          review     \* the review page last shown: its items, and the answers
                     \* they were made from (history)

markingVars == <<paper, pinned, answers, saves, saving, handedIn, results, stage, visit, slip, review>>

Stages == <<"ended", "provisional_released", "final_released", "review_open">>
Released == {"provisional_released", "final_released", "review_open"}

----------------------------------------------------------------------------
(* Saving: a payload has the kind of its question's type and only codes    *)
(* the instance presents.                                                  *)
AnswerKind == [single_choice |-> "single_choice", weighted_choice |-> "single_choice",
               multiple_choice |-> "multiple_choice", true_false |-> "statement_true_false",
               numeric |-> "numeric"]

Choose(option) == [kind |-> "single_choice", choice |-> option]
ChooseSome(options) == [kind |-> "multiple_choice", choices |-> options]
Judge(values) == [kind |-> "statement_true_false", verdicts |-> values]
Give(normalized) == [kind |-> "numeric", normalized |-> normalized]

AnswerFits(type, reply, codes) ==
  reply # NoReply =>
    /\ reply.kind = AnswerKind[type]
    /\ reply.kind = "single_choice" => reply.choice \in codes
    /\ reply.kind = "multiple_choice" =>
         /\ \A i, j \in DOMAIN reply.choices : reply.choices[i] = reply.choices[j] => i = j
         /\ \A i \in DOMAIN reply.choices : reply.choices[i] \in codes
    /\ reply.kind = "statement_true_false" => DOMAIN reply.verdicts \subseteq codes
    /\ reply.kind = "numeric" => reply.normalized

----------------------------------------------------------------------------
(* Scoring policies.  A threshold is [kind, section, value].               *)
NeedsSection(rule) == rule.kind \in {"section_score_gte", "selected_section_minimum"}
NeedsValue(rule) == rule.kind \in {"section_score_gte", "total_score_gte"}

RuleFits(rule) ==
  /\ NeedsSection(rule) => rule.section # NoValue
  /\ rule.section # NoValue => rule.section \in DOMAIN Structure
  /\ NeedsValue(rule) => rule.value # NoValue

ScorerTypes == [binary_choice |-> "single_choice", weighted_option |-> "weighted_choice"]
ScorerOf(policy, section) ==
  IF section \in DOMAIN policy.scorers THEN policy.scorers[section] ELSE NoScorer

ConsistentPolicy(policy) ==
  /\ DOMAIN policy.maxScores = DOMAIN Structure
  /\ \A s \in DOMAIN policy.maxScores : policy.maxScores[s] > 0
  /\ \A i \in DOMAIN policy.thresholds : RuleFits(policy.thresholds[i])
  /\ DOMAIN policy.scorers \subseteq DOMAIN Structure
  /\ \A s \in DOMAIN policy.scorers : ScorerTypes[policy.scorers[s].kind] \in Structure[s]

----------------------------------------------------------------------------
(* Grading one answer, and what it is worth.                               *)
Blank == [kind |-> "blank"]

(* assertScorerMatchesQuestionType and gradeAnswer throw otherwise. *)
Gradable(policy, q) ==
  /\ q.section \in DOMAIN policy.maxScores
  /\ ScorerOf(policy, q.section) # NoScorer
  /\ q.type = ScorerTypes[ScorerOf(policy, q.section).kind]
  /\ q.key # Nobody
  /\ q.key.kind = q.type

WeightOf(key, option) == IF option \in DOMAIN key.weights THEN key.weights[option] ELSE 0

GradeAnswer(q, reply) ==
  CASE reply = NoReply -> Blank
    [] reply # NoReply /\ q.type = "single_choice" ->
         [kind |-> "binary", correct |-> reply.choice = q.key.option]
    [] reply # NoReply /\ q.type = "weighted_choice" ->
         [kind |-> "weighted", weight |-> WeightOf(q.key, reply.choice)]

(* A broken scorer: what is left blank is worth nothing. *)
PointsForAnswered(outcome, scorer) ==
  CASE outcome.kind = "blank" -> 0
    [] outcome.kind = "binary" -> IF outcome.correct THEN scorer.correct ELSE scorer.incorrect
    [] outcome.kind = "weighted" -> outcome.weight

ResolvePoints(outcome, scorer) ==
  CASE outcome.kind = "blank" -> scorer.blank
    [] outcome.kind = "binary" -> IF outcome.correct THEN scorer.correct ELSE scorer.incorrect
    [] outcome.kind = "weighted" -> outcome.weight

QuestionsOf(s) == {i \in DOMAIN paper : paper[i].section = s}

(* Every section with a maximum appears, at 0 when nothing was asked. *)
SectionScores(policy, set) ==
  [s \in DOMAIN policy.maxScores |->
     SumFunction([i \in QuestionsOf(s) |->
                    ResolvePoints(GradeAnswer(paper[i], set[i]), policy.scorers[s])])]

Total(scores) == SumFunction(scores)

Least(rule) == IF rule.value = NoValue THEN 0 ELSE rule.value
Holds(rule, scores) ==
  IF rule.kind = "total_score_gte" THEN Total(scores) >= Least(rule)
  ELSE scores[rule.section] >= Least(rule)

Evaluable(policy) == {i \in DOMAIN policy.thresholds : policy.thresholds[i].kind # "no_threshold"}

(* null when no rule can be evaluated, which is not a failure. *)
Overall(policy, scores) ==
  CASE Evaluable(policy) = {} -> "not_rated"
    [] Evaluable(policy) # {} /\ \A i \in Evaluable(policy) : Holds(policy.thresholds[i], scores) -> "passed"
    [] OTHER -> "failed"

ComputeScore(policy, set) ==
  LET scores == SectionScores(policy, set)
  IN [policy |-> policy, released |-> FALSE, sections |-> scores, total |-> Total(scores),
      overall |-> Overall(policy, scores),
      unanswered |-> Cardinality({i \in DOMAIN paper : set[i] = NoReply})]

(* computeScorePayload throws on a question it cannot grade, a section     *)
(* without a scorer, a missing key, or answers that are not those handed   *)
(* in; the job stays pending, the correction is recorded as failed.        *)
Computable(policy) ==
  /\ handedIn # Nobody
  /\ answers = handedIn
  /\ \A i \in DOMAIN paper : Gradable(policy, paper[i])

----------------------------------------------------------------------------
(* The review of one answer, by its own code. *)
MaxWeight(key) == Max({key.weights[c] : c \in DOMAIN key.weights})

ReviewAnswer(q, reply) ==
  IF q.type = "single_choice"
  THEN [kind |-> "binary",
        status |-> CASE reply = NoReply -> "blank"
                     [] reply # NoReply /\ reply.choice = q.key.option -> "correct"
                     [] OTHER -> "incorrect"]
  ELSE LET weight == IF reply = NoReply THEN NoValue ELSE WeightOf(q.key, reply.choice)
       IN [kind |-> "weighted", weight |-> weight, best |-> MaxWeight(q.key),
           status |-> CASE reply = NoReply -> "blank"
                        [] reply # NoReply /\ weight = MaxWeight(q.key) -> "best"
                        [] OTHER -> "not_best"]

----------------------------------------------------------------------------
\* saveAnswer, up to its transaction: the attempt is open, the payload fits.
CheckSave(i, reply) ==
  /\ handedIn = Nobody
  /\ saves < MaxSaves
  /\ AnswerFits(paper[i].type, reply, paper[i].codes)
  /\ saving' = saving \cup {<<i, reply>>}
  /\ saves' = saves + 1
  /\ UNCHANGED <<paper, pinned, answers, handedIn, results, stage, visit, slip, review>>

\* Its transaction, which does not look at the attempt's status again.
CommitSave(i, reply) ==
  /\ <<i, reply>> \in saving
  /\ answers' = [answers EXCEPT ![i] = reply]
  /\ saving' = saving \ {<<i, reply>>}
  /\ UNCHANGED <<paper, pinned, saves, handedIn, results, stage, visit, slip, review>>

HandIn ==
  /\ handedIn = Nobody
  /\ handedIn' = answers
  /\ UNCHANGED <<paper, pinned, answers, saves, saving, results, stage, visit, slip, review>>

(* scoreSubmission, with the policy the attempt pinned. *)
ScoreSubmission ==
  /\ results = <<>>
  /\ Computable(pinned)
  /\ results' = <<ComputeScore(pinned, answers)>>
  /\ UNCHANGED <<paper, pinned, answers, saves, saving, handedIn, stage, visit, slip, review>>

(* An executed correction: another published policy, of any blueprint. *)
Correct(policy) ==
  /\ results # <<>> /\ Len(results) < MaxResults
  /\ results[Len(results)].policy # policy
  /\ Computable(policy)
  /\ results' = Append(results, ComputeScore(policy, answers))
  /\ UNCHANGED <<paper, pinned, answers, saves, saving, handedIn, stage, visit, slip, review>>

WindowOpens(n) ==
  /\ \E m \in 1..(n - 1) : stage = Stages[m]
  /\ stage' = Stages[n]
  /\ UNCHANGED <<paper, pinned, answers, saves, saving, handedIn, results, visit, slip, review>>

(* releaseResult reads the current version, which a correction may have    *)
(* superseded by the time it stamps it.                                    *)
MarkReleased(n) ==
  /\ n \in DOMAIN results /\ stage \in Released
  /\ ~results[n].released
  /\ results' = [results EXCEPT ![n].released = TRUE]
  /\ UNCHANGED <<paper, pinned, answers, saves, saving, handedIn, stage, visit, slip, review>>

(* getStudentResultView *)
ShowResult ==
  /\ results # <<>> /\ stage \in Released
  /\ slip' = Len(results)
  /\ UNCHANGED <<paper, pinned, answers, saves, saving, handedIn, results, stage, visit, review>>

(* getAttemptReviewView: the result and the batch's state, then the rest.  *)
AskReview ==
  /\ visit = 0
  /\ results # <<>> /\ stage = "review_open"
  /\ visit' = Len(results)
  /\ UNCHANGED <<paper, pinned, answers, saves, saving, handedIn, results, stage, slip, review>>

ShowReview ==
  /\ visit # 0
  /\ \A i \in DOMAIN paper : paper[i].type \in {"single_choice", "weighted_choice"}
  /\ review' = [items |-> [i \in DOMAIN paper |-> ReviewAnswer(paper[i], answers[i])],
                 seen  |-> answers]
  /\ visit' = 0
  /\ UNCHANGED <<paper, pinned, answers, saves, saving, handedIn, results, stage, slip>>

----------------------------------------------------------------------------
(* assertExamFormComposable and the blueprint's approval let these pass. *)
MarkingInit ==
  /\ paper \in {p \in Papers : \A i \in DOMAIN p : p[i].type \in Structure[p[i].section]}
  /\ pinned \in {k \in Rules : ConsistentPolicy(k)}
  /\ answers = [i \in DOMAIN paper |-> NoReply]
  /\ saves = 0 /\ saving = {}
  /\ handedIn = Nobody
  /\ results = <<>>
  /\ stage = Stages[1]
  /\ visit = 0
  /\ slip = 0
  /\ review = Nobody

MarkingNext ==
  \/ \E i \in DOMAIN paper, reply \in Replies \cup {NoReply} :
       CheckSave(i, reply) \/ CommitSave(i, reply)
  \/ HandIn
  \/ ScoreSubmission
  \/ \E policy \in Rules : Correct(policy)
  \/ \E n \in DOMAIN Stages : WindowOpens(n)
  \/ \E n \in 1..MaxResults : MarkReleased(n)
  \/ ShowResult
  \/ AskReview
  \/ ShowReview

MarkingSpec == MarkingInit /\ [][MarkingNext]_markingVars

----------------------------------------------------------------------------
(* What the review page says an answer was worth under a policy. *)
Explained(policy, i) ==
  LET item   == review.items[i]
      scorer == policy.scorers[paper[i].section]
  IN CASE item.status = "blank" -> scorer.blank
       [] item.status = "correct" -> scorer.correct
       [] item.status = "incorrect" -> scorer.incorrect
       [] item.status \in {"best", "not_best"} -> item.weight

(* A section of which the page was made from the answers handed in. *)
Intact(s) == \A i \in QuestionsOf(s) : review.seen[i] = handedIn[i]

(* The two pages agree on what was handed in: whichever version of the     *)
(* result a learner was shown, the score of each section whose answers the *)
(* review page found as they were handed in is what its items add up to    *)
(* under that version's policy; and when it found all of them so, the      *)
(* total, the count of unanswered questions and the verdict are too.       *)
(* Score and review are computed by separate code at separate times, with  *)
(* corrections in between (scoring-service.ts, attempt-review-service.ts). *)
ReviewExplainsScore ==
  review # Nobody =>
    \A n \in {slip, Len(results)} \ {0} :
      LET result == results[n]
          explained == [s \in DOMAIN result.sections |->
             SumFunction([i \in QuestionsOf(s) |-> Explained(result.policy, i)])]
      IN /\ \A s \in DOMAIN result.sections : Intact(s) => result.sections[s] = explained[s]
         /\ review.seen = handedIn =>
              /\ result.total = SumFunction(explained)
              /\ result.unanswered = Cardinality({i \in DOMAIN paper : review.items[i].status = "blank"})
              /\ (result.overall = "failed") <=>
                   \E i \in Evaluable(result.policy) : ~Holds(result.policy.thresholds[i], explained)
=============================================================================
