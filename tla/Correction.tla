----------------------------- MODULE Correction -----------------------------
(***************************************************************************)
(* Result versions and the correction workflow: a result is scored once,   *)
(* then only replaced by an approved correction case                       *)
(* (packages/db/src/exam/scoring/result-correction-service.ts).            *)
(*                                                                         *)
(* A decision reads the case's decisions, checks that the case's result is *)
(* still the current one, supersedes and inserts in one transaction, and   *)
(* records the decision in a further commit.  Nothing locks the case, so   *)
(* deciders interleave at each of these steps and a request may die        *)
(* between them.                                                           *)
(*                                                                         *)
(* Abstracted: a score is its scoring policy version (the paper is fixed,  *)
(* see Attempt); role checks are membership of Staff; a decision's time    *)
(* stamp is its order of arrival.                                          *)
(***************************************************************************)
EXTENDS Integers, Sequences, FiniteSets

CONSTANTS Attempts,     \* submitted attempts
          Cases,        \* correction case ids
          Staff,        \* users allowed to request and publish corrections
          Policies,     \* published scoring policy versions
          Pinned,       \* the policy version an attempt pinned at start
          Deciders,     \* concurrent decision requests
          NoCase,       \* the author of a first result version
          MaxDecisions  \* bound on the decision requests

ASSUME PolicyAssumption == Pinned \in Policies /\ NoCase \notin Cases
ASSUME BoundAssumption == MaxDecisions \in Nat

VARIABLES versions,   \* result_versions of each attempt, in version order
          cases,      \* correction_cases: set of rows
          decisions,  \* correction_decisions: set of rows
          clock,      \* decision requests so far
          deciding    \* what each decision request is doing

vars == <<versions, cases, decisions, clock, deciding>>

Row == [policy : Policies, current : BOOLEAN, by : Cases \cup {NoCase}]
CaseRow == [id : Cases, attempt : Attempts, base : Nat, policy : Policies,
            requester : Staff]
Decision ==
  [case : Cases, outcome : {"rejected"}, execution : {"none"}, at : Nat] \cup
  [case : Cases, outcome : {"approved"},
   execution : {"executed", "execution_failed"}, at : Nat]
Idle == [pc |-> "idle"]
Deciding == {Idle}
  \cup [pc : {"check", "execute"}, row : CaseRow, at : Nat]
  \cup [pc : {"record"}, decision : Decision]

Versions(a) == DOMAIN versions[a]
Current(a) == {v \in Versions(a) : versions[a][v].current}

(* deriveCorrectionCaseStatus: the latest decision decides. *)
Latest(c) == {d \in decisions : /\ d.case = c
                                /\ \A e \in decisions : e.case = c => e.at <= d.at}
Pending(c) == Latest(c) = {}
Rejected(c) == \E d \in Latest(c) : d.outcome = "rejected"

Goto(s, c) == deciding' = [deciding EXCEPT ![s] = c]

----------------------------------------------------------------------------
(* scoreSubmission's first version, pinned policy. *)
ScoreFirst(a) ==
  /\ versions[a] = <<>>
  /\ versions' = [versions EXCEPT ![a] =
       <<[policy |-> Pinned, current |-> TRUE, by |-> NoCase]>>]
  /\ UNCHANGED <<cases, decisions, clock, deciding>>

(* A broken request: assertCorrectionChangesPolicy compares with the       *)
(* attempt's pinned policy, not the current result's.                      *)
RequestAgainstPinned(c, a, u, p) ==
  /\ \A r \in cases : r.id # c
  /\ \E v \in Current(a) :
       /\ p # Pinned
       /\ cases' = cases \cup {[id |-> c, attempt |-> a, base |-> v, policy |-> p,
                                requester |-> u]}
  /\ UNCHANGED <<versions, decisions, clock, deciding>>

RequestCorrection(c, a, u, p) ==
  /\ \A r \in cases : r.id # c
  /\ \E v \in Current(a) :
       /\ p # versions[a][v].policy
       /\ cases' = cases \cup {[id |-> c, attempt |-> a, base |-> v, policy |-> p,
                                requester |-> u]}
  /\ UNCHANGED <<versions, decisions, clock, deciding>>

(* The requester is refused by authorize's maker-checker rule. *)
DecideArrives(s, r, u, outcome) ==
  /\ deciding[s] = Idle
  /\ Pending(r.id)
  /\ u # r.requester
  /\ clock < MaxDecisions
  /\ clock' = clock + 1
  /\ Goto(s, IF outcome = "rejected"
             THEN [pc |-> "record",
                   decision |-> [case |-> r.id, outcome |-> "rejected",
                                 execution |-> "none", at |-> clock]]
             ELSE [pc |-> "check", row |-> r, at |-> clock])
  /\ UNCHANGED <<versions, cases, decisions>>

Record(s, execution) ==
  Goto(s, [pc |-> "record",
           decision |-> [case |-> deciding[s].row.id, outcome |-> "approved",
                         execution |-> execution, at |-> deciding[s].at]])

(* CorrectionCaseStaleError, or a re-score that throws, is recorded as a   *)
(* failed execution.                                                       *)
CheckCurrent(s) ==
  /\ deciding[s].pc = "check"
  /\ \/ /\ deciding[s].row.base \in Current(deciding[s].row.attempt)
        /\ Goto(s, [deciding[s] EXCEPT !.pc = "execute"])
     \/ Record(s, "execution_failed")
  /\ UNCHANGED <<versions, cases, decisions, clock>>

Superseded(a, v) == [versions[a] EXCEPT ![v].current = FALSE]

(* A broken execute: the old version keeps its flag and the partial unique *)
(* index is missing.                                                       *)
ExecuteWithoutSupersede(s) ==
  LET r == deciding[s].row
  IN /\ deciding[s].pc = "execute"
     /\ IF r.base = Len(versions[r.attempt])
        THEN /\ versions' = [versions EXCEPT ![r.attempt] =
                  Append(@, [policy |-> r.policy, current |-> TRUE, by |-> r.id])]
             /\ Record(s, "executed")
        ELSE /\ Record(s, "execution_failed")
             /\ UNCHANGED versions
     /\ UNCHANGED <<cases, decisions, clock>>

(* A broken execute: the transaction's failure is not noticed. *)
ExecuteUnnoticed(s) ==
  LET r == deciding[s].row
  IN /\ deciding[s].pc = "execute"
     /\ IF r.base = Len(versions[r.attempt])
        THEN versions' = [versions EXCEPT ![r.attempt] =
               Append(Superseded(r.attempt, r.base),
                      [policy |-> r.policy, current |-> TRUE, by |-> r.id])]
        ELSE UNCHANGED versions
     /\ Record(s, "executed")
     /\ UNCHANGED <<cases, decisions, clock>>

(* Supersede the base and insert version base + 1 as the current one, or   *)
(* fail on result_version_attempt_version_uq (there is one already) or     *)
(* result_version_attempt_current_uq (another one is current).             *)
Execute(s) ==
  LET r == deciding[s].row
  IN /\ deciding[s].pc = "execute"
     /\ \/ /\ r.base + 1 \notin Versions(r.attempt)
           /\ Current(r.attempt) \subseteq {r.base}
           /\ versions' = [versions EXCEPT ![r.attempt] =
                Append(Superseded(r.attempt, r.base),
                       [policy |-> r.policy, current |-> TRUE, by |-> r.id])]
           /\ Record(s, "executed")
        \/ /\ ~(/\ r.base + 1 \notin Versions(r.attempt)
                /\ Current(r.attempt) \subseteq {r.base})
           /\ Record(s, "execution_failed")
           /\ UNCHANGED versions
     /\ UNCHANGED <<cases, decisions, clock>>

RecordDecision(s) ==
  /\ deciding[s].pc = "record"
  /\ decisions' = decisions \cup {deciding[s].decision}
  /\ Goto(s, Idle)
  /\ UNCHANGED <<versions, cases, clock>>

Crash(s) ==
  /\ deciding[s] # Idle
  /\ Goto(s, Idle)
  /\ UNCHANGED <<versions, cases, decisions, clock>>

Init ==
  /\ versions = [a \in Attempts |-> <<>>]
  /\ cases = {} /\ decisions = {} /\ clock = 0
  /\ deciding = [s \in Deciders |-> Idle]

Decide(s) ==
  \/ \E r \in cases, u \in Staff, o \in {"approved", "rejected"} :
       DecideArrives(s, r, u, o)
  \/ CheckCurrent(s) \/ Execute(s) \/ RecordDecision(s) \/ Crash(s)

Next ==
  \/ \E a \in Attempts : ScoreFirst(a)
  \/ \E c \in Cases, a \in Attempts, u \in Staff, p \in Policies :
       RequestCorrection(c, a, u, p)
  \/ \E s \in Deciders : Decide(s)

Spec == Init /\ [][Next]_vars

----------------------------------------------------------------------------
(* Properties.                                                             *)

(* The type invariant. *)
TypeOK ==
  /\ versions \in [Attempts -> Seq(Row)]
  /\ cases \subseteq CaseRow
  /\ decisions \subseteq Decision
  /\ clock \in Nat
  /\ deciding \in [Deciders -> Deciding]

(* A scored attempt has exactly one current result, its newest version,    *)
(* however many corrections are approved at once.                          *)
OneCurrentResult ==
  \A a \in Attempts : versions[a] # <<>> => Current(a) = {Len(versions[a])}

(* Every correction replaced exactly the result its requester challenged,  *)
(* by another policy, and no case is executed twice.                       *)
CorrectsWhatWasSeen ==
  \A a \in Attempts : \A v \in Versions(a) \ {1} :
    \E r \in cases :
      /\ r.id = versions[a][v].by /\ r.attempt = a
      /\ r.base = v - 1
      /\ r.policy = versions[a][v].policy
      /\ r.policy # versions[a][v - 1].policy

(* A decision recorded as executed stands for a result version of its      *)
(* case.                                                                   *)
ExecutedHasVersion ==
  \A d \in decisions : d.execution = "executed" =>
    \E a \in Attempts : \E v \in Versions(a) : versions[a][v].by = d.case

=============================================================================
