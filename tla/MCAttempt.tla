----------------------------- MODULE MCAttempt -----------------------------
(***************************************************************************)
(* Attempt on a small instance: two requests at a time, from two browsers  *)
(* of the same learner, on one question.  Requests, browsers and mutation  *)
(* identifiers are interchangeable, and so are sound symmetry sets: every  *)
(* property checked here is a safety property.                             *)
(***************************************************************************)
EXTENDS Attempt, TLC

Symmetry == Permutations(Slots) \cup Permutations(Devices) \cup Permutations(Mutations)

=============================================================================
