----------------------------- MODULE MCServices -----------------------------
(***************************************************************************)
(* TLC instance of sign-in, of role assignments, of curricula, of          *)
(* delivery to learners and of the player.  They share no row the models   *)
(* keep, so one behaviour runs one of them, chosen by `scene`; delivery    *)
(* runs as two scenes, its content and its timetable.                      *)
(***************************************************************************)
EXTENDS Bridge, Roles, Curriculum, Learning, Player

VARIABLE scene

servicesVars == <<bridgeVars, rolesVars, curriculumVars, learningVars, playerVars,
                  scene>>

\* A low-risk permission that its maker may not use, and a high-risk one.
MCKinds ==
    { [permission |-> "question.first_approve", maker |-> TRUE, risky |-> FALSE],
      [permission |-> "result.correction.request", maker |-> FALSE, risky |-> TRUE] }
MCMakerOf == [o \in Objects |-> CHOOSE p \in People : TRUE]

\* A placement's module opens at enrolment, the placement at a fixed time.
MCRules ==
    [x \in Placements |-> [module |-> [mode |-> "relative_to_enrollment", at |-> 0],
                           own |-> [mode |-> "fixed_datetime", at |-> 0]]]

ServicesInit ==
    /\ BridgeInit /\ RolesInit /\ CurriculumInit /\ LearningInit /\ PlayerInit
    /\ scene \in {"bridge", "roles", "curriculum", "content", "timetable", "player"}
    /\ scene # "bridge" => environment = "paired"
    /\ scene # "content" => enrolledAt = [l \in Learners |-> NoRow]

InBridge(A) ==
    /\ scene = "bridge" /\ A
    /\ UNCHANGED <<scene, rolesVars, curriculumVars, learningVars, playerVars>>
InRoles(A) ==
    /\ scene = "roles" /\ A
    /\ UNCHANGED <<scene, bridgeVars, curriculumVars, learningVars, playerVars>>
InCurriculum(A) ==
    /\ scene = "curriculum" /\ A
    /\ UNCHANGED <<scene, bridgeVars, rolesVars, learningVars, playerVars>>
\* Assets and live sessions meet in the access they ask for and in nothing else;
\* only the life of a reference needs the last input.
InLearning(A) ==
    /\ scene \in {"content", "timetable"} /\ A
    /\ scene = "content" => UNCHANGED timetable
    /\ scene = "timetable" => UNCHANGED content /\ asks' < MaxAsked
    /\ UNCHANGED <<scene, bridgeVars, rolesVars, curriculumVars, playerVars>>
InPlayer(A) ==
    /\ scene = "player" /\ A
    /\ UNCHANGED <<scene, bridgeVars, rolesVars, curriculumVars, learningVars>>

ServicesNext ==
    \/ InBridge(BridgeNext)
    \/ InRoles(RolesNext)
    \/ InCurriculum(CurriculumNext)
    \/ InLearning(LearningNext)
    \/ InPlayer(PlayerNext)

ServicesSpec == ServicesInit /\ [][ServicesNext]_servicesVars

=============================================================================
