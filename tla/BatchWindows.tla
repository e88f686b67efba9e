---------------------------- MODULE BatchWindows ----------------------------
(***************************************************************************)
(* The windows of a tryout batch, and the operational state and visibility *)
(* derived from them on every read (packages/domain/src/exam/batch-*.ts,   *)
(* result-lifecycle.ts, explanation-visibility.ts).                        *)
(*                                                                         *)
(* A window set is a function from the window types the batch owns to      *)
(* [starts, ends]; a milestone has ends = starts.  Instants are integers.  *)
(***************************************************************************)
EXTENDS Integers

WindowTypes == {"registration", "attempt", "late_sync_cutoff",
                "provisional_result_release", "final_result_release",
                "leaderboard_release", "explanation_release", "access_end"}

IsWindowSet(w) ==
  /\ DOMAIN w \subseteq WindowTypes
  /\ \A type \in DOMAIN w : w[type].starts \in Int /\ w[type].ends \in Int

Owns(w, type) == type \in DOMAIN w
AtOrAfter(w, type, instant) == Owns(w, type) => w[type].starts >= instant

(* Milestones a later one must not precede: the nearest upstream one the   *)
(* batch owns.                                                             *)
ProvisionalOrEnd(w) ==
  IF Owns(w, "provisional_result_release") THEN w["provisional_result_release"].starts
  ELSE w["attempt"].ends
(* A broken rule: explanations are compared with the attempt's end only. *)
FinalIgnored(w) == w["attempt"].ends

FinalOrEnd(w) ==
  IF Owns(w, "final_result_release") THEN w["final_result_release"].starts
  ELSE w["attempt"].ends

(* assertBatchWindowsCoherent, with the missing attempt window that        *)
(* toBatchWindowSet refuses.                                               *)
Coherent(w) ==
  /\ Owns(w, "attempt")
  /\ w["attempt"].ends > w["attempt"].starts
  /\ Owns(w, "registration") =>
       /\ w["registration"].ends > w["registration"].starts
       /\ w["attempt"].ends >= w["registration"].starts
  /\ AtOrAfter(w, "late_sync_cutoff", w["attempt"].ends)
  /\ AtOrAfter(w, "provisional_result_release", w["attempt"].ends)
  /\ AtOrAfter(w, "final_result_release", ProvisionalOrEnd(w))
  /\ AtOrAfter(w, "explanation_release", FinalOrEnd(w))
  /\ AtOrAfter(w, "leaderboard_release", w["attempt"].ends)
  /\ AtOrAfter(w, "access_end", w["attempt"].ends)

Reached(w, type, at) == Owns(w, type) /\ at >= w[type].starts

(* The first release the batch owns: provisional, else final, else         *)
(* explanation.                                                            *)
FirstReleaseReached(w, at) ==
  IF Owns(w, "provisional_result_release") THEN Reached(w, "provisional_result_release", at)
  ELSE IF Owns(w, "final_result_release") THEN Reached(w, "final_result_release", at)
  ELSE Reached(w, "explanation_release", at)

(* deriveBatchState of a published batch. *)
PublishedState(w, at) ==
  IF Owns(w, "registration") /\ at < w["registration"].starts THEN "scheduled"
  ELSE IF Owns(w, "registration") /\ at < w["registration"].ends THEN "registration_open"
  ELSE IF at < w["attempt"].starts THEN "scheduled"
  ELSE IF at < w["attempt"].ends THEN "exam_open"
  ELSE IF Owns(w, "late_sync_cutoff") /\ ~Reached(w, "late_sync_cutoff", at) THEN "exam_closed"
  ELSE IF ~FirstReleaseReached(w, at) THEN "scoring"
  ELSE IF Reached(w, "explanation_release", at) THEN "review_open"
  ELSE IF Reached(w, "final_result_release", at) THEN "final_released"
  ELSE "provisional_released"

(* deriveBatchState *)
BatchState(status, voided, w, at) ==
  IF voided THEN "voided"
  ELSE IF status = "archived" THEN "archived"
  ELSE IF status # "published" THEN "draft"
  ELSE PublishedState(w, at)

(* resolveResultVisibility and resolveExplanationVisibility of a result    *)
(* that is neither withheld nor voided.                                    *)
ScoreShown(state) == state \in {"provisional_released", "final_released", "review_open"}
KeyShown(state) == state = "review_open"

(* The order in which a published batch's states come. *)
Rank(state) ==
  CASE state = "scheduled" -> 0
    [] state = "registration_open" -> 0
    [] state = "exam_open" -> 1
    [] state = "exam_closed" -> 2
    [] state = "scoring" -> 3
    [] state = "provisional_released" -> 4
    [] state = "final_released" -> 5
    [] OTHER -> 6

----------------------------------------------------------------------------
(* The answer key is shown only when every sitting, late answer and result *)
(* release the batch planned before it is over.                            *)
KeyAfterEverything(w, at) ==
  KeyShown(PublishedState(w, at)) =>
    /\ at >= w["attempt"].ends
    /\ \A type \in {"late_sync_cutoff", "provisional_result_release",
                    "final_result_release", "explanation_release"} :
         Owns(w, type) => Reached(w, type, at)

(* As time passes a published batch only moves on, and a score shown stays *)
(* shown.                                                                  *)
OnlyMovesOn(w, earlier, later) ==
  earlier <= later =>
    /\ Rank(PublishedState(w, earlier)) <= Rank(PublishedState(w, later))
    /\ ScoreShown(PublishedState(w, earlier)) => ScoreShown(PublishedState(w, later))
=============================================================================
