--------------------------- MODULE MCPublication ---------------------------
(***************************************************************************)
(* Publication in three scenes: a whole paper from its questions to its    *)
(* batch, one request at a time; a question and its passage; and two       *)
(* requests at once over policy, blueprint and form.                       *)
(***************************************************************************)
EXTENDS Publication, TLC
CONSTANTS q1, q2, s1, p1, k1, f1, b1

Choice == [q \in Questions |-> IF q = q1 THEN "single_choice" ELSE "numeric"]

Section(size, seconds) == [size |-> size, seconds |-> seconds, types |-> {"single_choice"}]
Structure(seconds, total, scope) ==
  [sections |-> [s \in Sections |-> Section(1, seconds)],
   mode |-> "per_section", total |-> total, scope |-> scope]
TwoStructures == {Structure(60, 60, "staging"), Structure(60, 90, "staging")}

Placed == [section : Sections, question : Questions]

At(n) == [starts |-> n, ends |-> n]
Between(n, m) == [starts |-> n, ends |-> m]
Planned == [attempt |-> Between(2, 4), registration |-> Between(1, 3),
            late_sync_cutoff |-> At(5), final_result_release |-> At(6),
            explanation_release |-> At(7)]
Sparse == [attempt |-> Between(2, 4)]
KeyBeforeScore == [attempt |-> Between(2, 4), provisional_result_release |-> At(5),
                   explanation_release |-> At(6), final_result_release |-> At(7)]
ThreeWindowSets == {Planned, Sparse, KeyBeforeScore}

Scene(open, parts, width, reviews) ==
  [open |-> open, parts |-> parts, width |-> width, reviews |-> reviews]
InTurnPaper == Scene({q1, p1, k1, f1, b1}, {"scored", "config", "items", "windows", "identity"}, 1, 4)
InTurnQuestion == Scene({q1, s1}, {"stimulus", "options", "key", "assets", "body"}, 1, 6)
Overlapping == Scene({p1, k1, f1}, {"scored", "config", "items"}, 2, 0)
ThreeScenes == {InTurnPaper, InTurnQuestion, Overlapping}
OverlappingScene == {Overlapping}

Symmetry == Permutations(Staff) \cup Permutations(Requests)
=============================================================================
