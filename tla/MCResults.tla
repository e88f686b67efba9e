----------------------------- MODULE MCResults -----------------------------
(***************************************************************************)
(* Corrections and rankings on a small instance, in two scenes.  In one,   *)
(* two decision requests at a time work on three cases against one         *)
(* attempt, so that cases compete for the same result and deciders for the *)
(* same case.  In the other, two generations at a time rank three          *)
(* attempts, two of them scored before and one at any time, while one case *)
(* against that one is decided; the pinned policy ranks the two that were  *)
(* handed in at the same time first with a tie, and the correction breaks  *)
(* it.                                                                     *)
(***************************************************************************)
EXTENDS Ranking, TLC

CONSTANTS a1, a2, a3, p1, p2, c1, c2, c3

VARIABLE scene

MCTotalScore == [a \in Attempts |->
  IF a = a3 THEN (p1 :> 1 @@ p2 :> 1) ELSE (p1 :> 2 @@ p2 :> 1)]
MCSubmittedAt == (a1 :> 1 @@ a2 :> 1 @@ a3 :> 0)

(* A generation collects the attempts in the order of the batch's list. *)
Listed(c) == c.pc = "collect" => c.todo \in {{a2, a1, a3}, {a1, a3}, {a3}, {}}

(* Cases are numbered as they are requested. *)
Numbered == {r.id : r \in cases'} \in {{}, {c1}, {c1, c2}, {c1, c2, c3}}

ResultsInit == RankingInit /\ scene \in {"corrections", "rankings"}

InCorrections(A) ==
  /\ scene = "corrections" /\ A /\ UNCHANGED <<scene, rankingVars>>
  /\ Numbered /\ \A a \in {a2, a3} : UNCHANGED versions[a]

InRankings(A) ==
  /\ scene = "rankings" /\ A /\ UNCHANGED scene
  /\ \A g \in Generators : Listed(generating'[g])
  /\ generating' = generating \/ \A a \in {a2, a3} : versions[a] # <<>>
  /\ Numbered /\ clock' <= 1 /\ Cardinality(cases') <= 1
  /\ \A r \in cases' : r.attempt = a1

ResultsNext == InCorrections(Next) \/ InRankings(RankingNext)

ResultsSpec == ResultsInit /\ [][ResultsNext]_<<allVars, scene>>

Symmetry == Permutations(Deciders) \cup Permutations(Staff) \cup Permutations(Generators)

=============================================================================
