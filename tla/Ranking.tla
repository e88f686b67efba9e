------------------------------ MODULE Ranking ------------------------------
(***************************************************************************)
(* Leaderboard snapshots of one batch, generated while results are being   *)
(* scored and corrected (packages/db/src/exam/scoring/ranking-service.ts). *)
(*                                                                         *)
(* A generation reads each attempt's current result and access, then the   *)
(* prior snapshot, then the newest version, and publishes in one           *)
(* transaction.  Nothing keeps corrections or a second generation out in   *)
(* between.  The batch's release windows and the learners' access belong   *)
(* to other parts.  The window is taken to be open: before that no result  *)
(* counts, and a generation fails for want of candidates.  Access is what  *)
(* each read of it finds.                                                  *)
(***************************************************************************)
EXTENDS Correction, Functions

CONSTANTS Generators,    \* concurrent snapshot generations
          TotalScore,    \* the score of an attempt's paper under a policy
          SubmittedAt,   \* when each attempt was handed in
          MaxSnapshots   \* bound on the snapshots published

ASSUME RankingAssumption ==
  /\ TotalScore \in [Attempts -> [Policies -> Nat]]
  /\ SubmittedAt \in [Attempts -> Nat]
  /\ MaxSnapshots \in Nat

VARIABLES snapshots,    \* ranking_snapshots in version order
          generating    \* what each generation is doing

rankingVars == <<snapshots, generating>>
allVars == <<vars, rankingVars>>

Step(g, c) == generating' = [generating EXCEPT ![g] = c]

----------------------------------------------------------------------------
(* rankCandidates: sort by score, then by time of submission; a tie shares *)
(* the rank of the first of its group.  `score` gives each candidate's     *)
(* total; candidates that tie are left in any order.                       *)

Ahead(score, a, b) ==
  score[a] > score[b] \/ (score[a] = score[b] /\ SubmittedAt[a] < SubmittedAt[b])

Tied(score, a, b) == score[a] = score[b] /\ SubmittedAt[a] = SubmittedAt[b]

Sorted(score) ==
  {seq \in Bijection(1..Cardinality(DOMAIN score), DOMAIN score) :
     \A i, j \in DOMAIN seq : i < j => ~Ahead(score, seq[j], seq[i])}

Ranks(score) == [DOMAIN score -> 1..Cardinality(DOMAIN score)]

(* A broken ranking: ties are numbered densely. *)
RanksDense(score) ==
  {rank \in Ranks(score) : \E seq \in Sorted(score) : \A i \in DOMAIN seq :
     rank[seq[i]] = IF i = 1 THEN 1
                    ELSE IF Tied(score, seq[i - 1], seq[i]) THEN rank[seq[i - 1]]
                    ELSE rank[seq[i - 1]] + 1}

RankCandidates(score) ==
  {rank \in Ranks(score) : \E seq \in Sorted(score) : \A i \in DOMAIN seq :
     rank[seq[i]] = IF i > 1 /\ Tied(score, seq[i - 1], seq[i]) THEN rank[seq[i - 1]]
                    ELSE i}

----------------------------------------------------------------------------
CurrentSnapshot == {v \in DOMAIN snapshots : snapshots[v].current}

GenerateArrives(g) ==
  /\ generating[g] = Idle
  /\ Len(snapshots) < MaxSnapshots
  /\ Step(g, [pc |-> "collect", todo |-> Attempts, picked |-> <<>>])
  /\ UNCHANGED <<vars, snapshots>>

Including(picked, a, v) == [b \in DOMAIN picked \cup {a} |-> IF b = a THEN v ELSE picked[b]]

(* An attempt counts if it has a current result and its learner is found   *)
(* to have access.                                                         *)
Collect(g, a) ==
  LET c == generating[g]
  IN /\ c.pc = "collect"
     /\ a \in c.todo
     /\ \/ \E v \in Current(a) :
             Step(g, [c EXCEPT !.todo = @ \ {a}, !.picked = Including(c.picked, a, v)])
        \/ Step(g, [c EXCEPT !.todo = @ \ {a}])
     /\ UNCHANGED <<vars, snapshots>>

ReadPrior(g) ==
  LET c == generating[g]
  IN /\ c.pc = "collect"
     /\ c.todo = {}
     /\ Step(g, IF DOMAIN c.picked = {} THEN Idle     \* RankingSnapshotEmptyError
                ELSE [pc |-> "version", picked |-> c.picked, prior |-> CurrentSnapshot])
     /\ UNCHANGED <<vars, snapshots>>

ReadVersion(g) ==
  LET c == generating[g]
  IN /\ c.pc = "version"
     /\ Step(g, [pc |-> "publish", picked |-> c.picked, prior |-> c.prior,
                 version |-> Len(snapshots) + 1])
     /\ UNCHANGED <<vars, snapshots>>

ScoresOf(picked) == [a \in DOMAIN picked |-> TotalScore[a][versions[a][picked[a]].policy]]

(* Broken entries: the score is read again when the entry is written. *)
EntriesReadAgain(picked, rank) ==
  [a \in DOMAIN picked |->
     [version |-> picked[a], rank |-> rank[a],
      score |-> TotalScore[a][versions[a][Len(versions[a])].policy]]]

Entries(picked, rank) ==
  [a \in DOMAIN picked |->
     [version |-> picked[a], rank |-> rank[a], score |-> ScoresOf(picked)[a]]]

Snapshot(c, rank) == [entries |-> Entries(c.picked, rank), current |-> TRUE,
                      state |-> IF c.prior = {} THEN "provisional" ELSE "corrected"]

Replace(prior, new) ==
  Append([v \in DOMAIN snapshots |->
            IF v \in prior THEN [snapshots[v] EXCEPT !.current = FALSE]
            ELSE snapshots[v]],
         new)

(* Supersede the prior snapshot and insert the new version, or fail on     *)
(* ranking_snapshot_batch_version_uq (another one took the version) or     *)
(* ranking_snapshot_batch_current_uq (another one is current).             *)
Publish(g) ==
  LET c == generating[g]
      fits == c.version = Len(snapshots) + 1 /\ CurrentSnapshot \subseteq c.prior
  IN /\ c.pc = "publish"
     /\ \/ /\ fits
           /\ \E rank \in RankCandidates(ScoresOf(c.picked)) :
                snapshots' = Replace(c.prior, Snapshot(c, rank))
        \/ ~fits /\ UNCHANGED snapshots
     /\ Step(g, Idle)
     /\ UNCHANGED vars

GenerateCrash(g) ==
  /\ generating[g] # Idle
  /\ Step(g, Idle)
  /\ UNCHANGED <<vars, snapshots>>

RankingInit ==
  /\ Init
  /\ snapshots = <<>>
  /\ generating = [g \in Generators |-> Idle]

Generate(g) ==
  \/ GenerateArrives(g) \/ ReadPrior(g) \/ ReadVersion(g) \/ Publish(g) \/ GenerateCrash(g)
  \/ \E a \in Attempts : Collect(g, a)

RankingNext ==
  \/ Next /\ UNCHANGED rankingVars
  \/ \E g \in Generators : Generate(g)

RankingSpec == RankingInit /\ [][RankingNext]_allVars

----------------------------------------------------------------------------
(* Properties.                                                             *)

(* The ranks of every snapshot are the standard competition ranks of the   *)
(* scores it shows: one more than the number of entries ahead.             *)
RanksCountWhoIsAhead ==
  \A v \in DOMAIN snapshots :
    LET entries == snapshots[v].entries
        score == [a \in DOMAIN entries |-> entries[a].score]
    IN \A a \in DOMAIN entries :
         entries[a].rank = 1 + Cardinality({b \in DOMAIN entries : Ahead(score, b, a)})

(* An entry shows the score of a result version that its attempt had, and  *)
(* that version is still in the history after any number of corrections.   *)
EntriesTraceToResults ==
  \A v \in DOMAIN snapshots : \A a \in DOMAIN snapshots[v].entries :
    LET e == snapshots[v].entries[a]
    IN e.version \in Versions(a) /\ e.score = TotalScore[a][versions[a][e.version].policy]

=============================================================================
