------------------------------ MODULE MCPlayer ------------------------------
(***************************************************************************)
(* TLC instance of the player alone: one page, and a learner who chooses   *)
(* again before the first save is answered.                                *)
(***************************************************************************)
EXTENDS Player

=============================================================================
