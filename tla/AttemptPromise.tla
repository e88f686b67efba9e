--------------------------- MODULE AttemptPromise ---------------------------
(***************************************************************************)
(* What the attempt engine promises a learner, without any of its          *)
(* machinery: an attempt is begun once, handed in once, and the paper that *)
(* is marked is the paper that was handed in.  Attempt.tla implements it.  *)
(***************************************************************************)
CONSTANTS Papers,     \* every set of answers that can be handed in
          Blank       \* the paper shown before there is one

VARIABLES phase,      \* "absent", "open", "final" or "scored"
          paper,      \* the paper handed in, Blank before that
          marked      \* the paper that was marked, Blank before that

vars == <<phase, paper, marked>>

Init ==
  /\ phase = "absent"
  /\ paper = Blank
  /\ marked = Blank

Begin ==
  /\ phase = "absent"
  /\ phase' = "open"
  /\ UNCHANGED <<paper, marked>>

HandIn ==
  /\ phase = "open"
  /\ phase' = "final"
  /\ paper' \in Papers
  /\ UNCHANGED marked

Mark ==
  /\ phase = "final"
  /\ phase' = "scored"
  /\ marked' = paper
  /\ UNCHANGED paper

Next == Begin \/ HandIn \/ Mark

Spec == Init /\ [][Next]_vars

=============================================================================
