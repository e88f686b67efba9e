---------------------------- MODULE ProgramNames ----------------------------
(***************************************************************************)
(* What the models of packages/db/src/program share: Curriculum, which     *)
(* version of a program a learner sees, and Learning, what of it is handed *)
(* out.                                                                    *)
(***************************************************************************)

CONSTANTS
    Learners,
    Placements,  \* rows of resource_placements
    NoRow        \* an absent row, or an empty column of one

=============================================================================
