------------------------------ MODULE Attempt ------------------------------
(***************************************************************************)
(* One learner's attempt at one exam batch: start, writer lease, answer    *)
(* saves, hand-in (by the learner or by the time-out finaliser) and        *)
(* scoring (packages/db/src/exam/attempt, packages/db/src/exam/scoring).   *)
(*                                                                         *)
(* Every request runs in a slot and takes one step per group of SQL        *)
(* statements that commits together.  PostgreSQL runs at READ COMMITTED    *)
(* and the code takes no row locks here, so what a request read in one     *)
(* step may be stale in the next.  A request's clock reading is taken once *)
(* when it arrives (`at`) and used until it ends.  A request may die at    *)
(* any step: what it has committed stays, the rest is rolled back.         *)
(*                                                                         *)
(* Abstracted: a refused request changes nothing, so the reads that refuse *)
(* it are the negation of a guard; views, audit rows and the exam snapshot *)
(* are left out; a token stands for its hash.                              *)
(***************************************************************************)
EXTENDS Integers, FiniteSets

CONSTANTS Slots,       \* concurrent requests
          Devices,     \* browsers: each holds one lease cookie for the attempt
          Instances,   \* presented questions
          Mutations,   \* clientMutationId values
          Choices,     \* answers a learner can select
          Null,        \* the cleared answer
          Duration,    \* from start to deadline
          Grace,       \* from deadline to the late-sync cutoff
          TTL,         \* life of a writer lease after issue or renewal
          ExamClose,   \* the batch is exam_open before this instant
          MaxTime,     \* bound on the clock
          MaxTokens,   \* bound on the leases issued
          MaxExpected  \* bound on the revision a client may expect

ASSUME TimeAssumption ==
  /\ Duration \in Nat /\ Grace \in Nat /\ TTL \in Nat /\ ExamClose \in Nat
  /\ MaxTime \in Nat /\ MaxTokens \in Nat /\ MaxExpected \in Nat

ASSUME FiniteAssumption == IsFiniteSet(Instances) /\ IsFiniteSet(Mutations)

VARIABLES now,         \* the server clock
          status,      \* attempts.status, "none" while there is no row
          startedAt,   \* attempts.started_at
          revision,    \* attempts.attempt_revision
          lease,       \* the active writer lease row; token 0 when there is none
          minted,      \* leases issued so far; the newest token
          cookie,      \* each device's lease cookie, 0 when it has none
          answers,     \* answer_states: revision 0 stands for no row
          log,         \* answer_mutations by (instance, clientMutationId)
          submission,  \* the attempt_submissions row
          job,         \* the scoring_job_outbox row's status
          result,      \* the first result version
          call         \* what each slot is doing

vars == <<now, status, startedAt, revision, lease, minted, cookie, answers,
          log, submission, job, result, call>>

leaseVars == <<lease, minted, cookie>>
answerVars == <<revision, answers, log>>
attemptVars == <<status, startedAt>>
finalVars == <<submission, job, result>>

----------------------------------------------------------------------------

Payloads == Choices \cup {Null}
Answer == [revision : Nat, payload : Payloads]
Papers == [Instances -> Answer]
Blank == [q \in Instances |-> [revision |-> 0, payload |-> Null]]

NoLease == [token |-> 0, expires |-> 0]

LogRow == [outcome : {"none", "accepted", "idempotent_replay", "conflict",
                      "late_sync_recovery_candidate"},
           at : Nat, payload : Payloads, resulting : Nat]
NoRow == [outcome |-> "none", at |-> 0, payload |-> Null, resulting |-> 0]

Submission == [by : {"none", "user", "timeout"}, paper : Papers, at : Nat]
NoSubmission == [by |-> "none", paper |-> Blank, at |-> 0]

NoResult == [scored |-> FALSE, paper |-> Blank]

Idle == [pc |-> "idle"]
StartCall == [pc : {"insert", "activate", "first_lease"}, dev : Devices, at : Nat]
TakeoverCall == [pc : {"revoke", "issue"}, dev : Devices, at : Nat, old : Nat]
ReplyCall == [pc : {"reply"}, dev : Devices, token : Nat]
SaveCall == [pc : {"renew", "check", "late", "cas", "commit"}, token : Nat,
             at : Nat, q : Instances, m : Mutations, expected : Nat,
             payload : Payloads, base : Answer]
SubmitCall == [pc : {"freeze", "submit"}, by : {"user", "timeout"}, at : Nat,
               paper : Papers]
DrainCall == [pc : {"score", "mark"}]
Call == {Idle} \cup StartCall \cup TakeoverCall \cup ReplyCall \cup SaveCall
        \cup SubmitCall \cup DrainCall

StepTo(s, c) == call' = [call EXCEPT ![s] = c]
Advance(s, pc) == StepTo(s, [call[s] EXCEPT !.pc = pc])
End(s) == StepTo(s, Idle)

Deadline == startedAt + Duration
Cutoff == Deadline + Grace

(* "held_here": the presented token is the active, unexpired lease's. *)
HoldsLease(token, at) == lease.token = token /\ token # 0 /\ at < lease.expires

----------------------------------------------------------------------------
(* Start: insert the attempt, activate it, issue the first lease; three    *)
(* separate commits.  A start that finds an attempt resumes it and writes  *)
(* nothing.                                                                *)

StartArrives(s, d) ==
  /\ call[s] = Idle
  /\ status = "none"
  /\ now < ExamClose
  /\ StepTo(s, [pc |-> "insert", dev |-> d, at |-> now])
  /\ UNCHANGED <<now, attemptVars, leaseVars, answerVars, finalVars>>

InsertAttempt(s) ==
  /\ call[s].pc = "insert"
  /\ \/ /\ status = "none"
        /\ status' = "created"
        /\ startedAt' = call[s].at
        /\ Advance(s, "activate")
     \/ /\ status # "none"      \* attempts_user_batch_active_uq
        /\ End(s)
        /\ UNCHANGED attemptVars
  /\ UNCHANGED <<now, leaseVars, answerVars, finalVars>>

Activate(s) ==
  /\ call[s].pc = "activate"
  /\ status = "created"
  /\ status' = "in_progress"
  /\ Advance(s, "first_lease")
  /\ UNCHANGED <<now, startedAt, leaseVars, answerVars, finalVars>>

----------------------------------------------------------------------------
(* Writer lease.                                                           *)

IssueLease(s) ==
  /\ call[s].pc \in {"first_lease", "issue"}
  /\ \/ /\ lease.token = 0
        /\ minted < MaxTokens
        /\ minted' = minted + 1
        /\ lease' = [token |-> minted + 1, expires |-> call[s].at + TTL]
        /\ StepTo(s, [pc |-> "reply", dev |-> call[s].dev, token |-> minted + 1])
     \/ /\ lease.token # 0      \* attempt_writer_lease_active_uq
        /\ End(s)
        /\ UNCHANGED <<lease, minted>>
  /\ UNCHANGED <<now, attemptVars, cookie, answerVars, finalVars>>

SetCookie(s) ==
  /\ call[s].pc = "reply"
  /\ cookie' = [cookie EXCEPT ![call[s].dev] = call[s].token]
  /\ End(s)
  /\ UNCHANGED <<now, attemptVars, lease, minted, answerVars, finalVars>>

TakeoverArrives(s, d) ==
  /\ call[s] = Idle
  /\ status # "none"
  /\ StepTo(s, [pc |-> IF lease.token = 0 THEN "issue" ELSE "revoke",
                dev |-> d, at |-> now, old |-> lease.token])
  /\ UNCHANGED <<now, attemptVars, leaseVars, answerVars, finalVars>>

(* A broken revocation: by the attempt, not by the lease that was read.    *)
RevokeWhoeverHolds(s) ==
  /\ call[s].pc = "revoke"
  /\ lease' = NoLease
  /\ Advance(s, "issue")
  /\ UNCHANGED <<now, attemptVars, minted, cookie, answerVars, finalVars>>

RevokeLease(s) ==
  /\ call[s].pc = "revoke"
  /\ lease' = IF lease.token = call[s].old THEN NoLease ELSE lease
  /\ Advance(s, "issue")
  /\ UNCHANGED <<now, attemptVars, minted, cookie, answerVars, finalVars>>

RenewLease(s) ==
  /\ call[s].pc = "renew"
  /\ \/ /\ lease.token = call[s].token
        /\ lease' = [lease EXCEPT !.expires = call[s].at + TTL]
        /\ Advance(s, "check")
     \/ /\ lease.token # call[s].token
        /\ End(s)
        /\ UNCHANGED lease
  /\ UNCHANGED <<now, attemptVars, minted, cookie, answerVars, finalVars>>

----------------------------------------------------------------------------
(* Answer save: renew the lease, check, then store a late candidate or run *)
(* the compare-and-swap transaction (read, then write and commit).         *)

SaveArrives(s, d, q, m, e, p) ==
  /\ call[s] = Idle
  /\ cookie[d] # 0
  /\ lease.token = cookie[d]
  /\ StepTo(s, [pc |-> "renew", token |-> cookie[d], at |-> now, q |-> q,
                m |-> m, expected |-> e, payload |-> p, base |-> Blank[q]])
  /\ UNCHANGED <<now, attemptVars, leaseVars, answerVars, finalVars>>

Row(c) == <<c.q, c.m>>

(* answer_mutation_attempt_instance_client_uq refuses a second row. *)
Recorded(c) == log[Row(c)].outcome # "none"

(* A broken check: the timing window is not consulted. *)
CheckSaveUntimed(s) ==
  LET c == call[s]
  IN /\ c.pc = "check"
     /\ IF /\ status = "in_progress"
           /\ ~Recorded(c)
           /\ HoldsLease(c.token, c.at)
        THEN Advance(s, "cas")
        ELSE End(s)
     /\ UNCHANGED <<now, attemptVars, leaseVars, answerVars, finalVars>>

CheckSave(s) ==
  LET c == call[s]
  IN /\ c.pc = "check"
     /\ IF /\ status = "in_progress"
           /\ ~Recorded(c)
           /\ c.at < Cutoff
           /\ HoldsLease(c.token, c.at)
        THEN Advance(s, IF c.at < Deadline THEN "cas" ELSE "late")
        ELSE End(s)
     /\ UNCHANGED <<now, attemptVars, leaseVars, answerVars, finalVars>>

Record(c, outcome, resulting) ==
  log' = [log EXCEPT ![Row(c)] =
            [outcome |-> outcome, at |-> c.at, payload |-> c.payload,
             resulting |-> resulting]]

StoreLateCandidate(s) ==
  LET c == call[s]
  IN /\ c.pc = "late"
     /\ IF Recorded(c) THEN UNCHANGED log
                       ELSE Record(c, "late_sync_recovery_candidate", 0)
     /\ End(s)
     /\ UNCHANGED <<now, attemptVars, leaseVars, revision, answers, finalVars>>

ReadAnswer(s) ==
  /\ call[s].pc = "cas"
  /\ StepTo(s, [call[s] EXCEPT !.pc = "commit", !.base = answers[call[s].q]])
  /\ UNCHANGED <<now, attemptVars, leaseVars, answerVars, finalVars>>

(* A broken Accept: the log gets the revision that was read, not the new   *)
(* one.                                                                    *)
AcceptLoggingOldRevision(c) ==
  /\ answers' = [answers EXCEPT ![c.q] =
       [revision |-> c.base.revision + 1, payload |-> c.payload]]
  /\ revision' = revision + 1
  /\ Record(c, "accepted", c.base.revision)

(* A broken Accept: the attempt's counter is written from a value read     *)
(* with the answer instead of incremented in the database.                 *)
AcceptWithoutCounter(c) ==
  /\ answers' = [answers EXCEPT ![c.q] =
       [revision |-> c.base.revision + 1, payload |-> c.payload]]
  /\ revision' = IF c.base.revision = 0 THEN revision + 1 ELSE revision
  /\ Record(c, "accepted", c.base.revision + 1)

(* upsertAnswerState writes by row id, so a row changed since it was read  *)
(* is overwritten.                                                         *)
Accept(c) ==
  /\ answers' = [answers EXCEPT ![c.q] =
       [revision |-> c.base.revision + 1, payload |-> c.payload]]
  /\ revision' = revision + 1
  /\ Record(c, "accepted", c.base.revision + 1)

CasOutcome(c) ==
  IF c.expected = c.base.revision THEN "accepted"
  ELSE IF c.payload = c.base.payload THEN "idempotent_replay" ELSE "conflict"

(* A row that was absent when the transaction first looked and is there    *)
(* now: found by the second look (overwritten) or hit by the insert (the   *)
(* transaction fails).                                                     *)
AppearedSince(c) == c.base.revision = 0 /\ answers[c.q].revision # 0

CommitSave(s) ==
  LET c == call[s]
  IN /\ c.pc = "commit"
     /\ \/ /\ ~Recorded(c)
           /\ CasOutcome(c) = "accepted"
           /\ Accept(c)
        \/ /\ ~Recorded(c)
           /\ CasOutcome(c) # "accepted"
           /\ Record(c, CasOutcome(c), c.base.revision)
           /\ UNCHANGED <<revision, answers>>
        \/ /\ Recorded(c) \/ (CasOutcome(c) = "accepted" /\ AppearedSince(c))
           /\ UNCHANGED answerVars
     /\ End(s)
     /\ UNCHANGED <<now, attemptVars, leaseVars, finalVars>>

----------------------------------------------------------------------------
(* Hand-in.  A learner's submit needs the lease and the current attempt    *)
(* revision; one that finds a submission replays it and drains the scoring *)
(* job.  The time-out finaliser needs neither.                             *)

Submitted == submission.by # "none"

BeginSubmit(s, by) ==
  StepTo(s, [pc |-> "freeze", by |-> by, at |-> now, paper |-> Blank])

SubmitArrives(s, d) ==
  /\ call[s] = Idle
  /\ cookie[d] # 0
  /\ \/ /\ Submitted
        /\ StepTo(s, [pc |-> "score"])
     \/ /\ ~Submitted
        /\ status = "in_progress"
        /\ HoldsLease(cookie[d], now)
        /\ BeginSubmit(s, "user")
  /\ UNCHANGED <<now, attemptVars, leaseVars, answerVars, finalVars>>

TimeoutArrives(s) ==
  /\ call[s] = Idle
  /\ ~Submitted
  /\ status = "in_progress"
  /\ now >= Cutoff
  /\ BeginSubmit(s, "timeout")
  /\ UNCHANGED <<now, attemptVars, leaseVars, answerVars, finalVars>>

Freeze(s) ==
  /\ call[s].pc = "freeze"
  /\ StepTo(s, [call[s] EXCEPT !.pc = "submit", !.paper = answers])
  /\ UNCHANGED <<now, attemptVars, leaseVars, answerVars, finalVars>>

AfterSubmit(s) ==
  IF call[s].by = "user" THEN StepTo(s, [pc |-> "score"]) ELSE End(s)

CommitSubmission(s) ==
  LET c == call[s]
  IN /\ c.pc = "submit"
     /\ \/ /\ ~Submitted
           /\ status = "in_progress"
           /\ submission' = [by |-> c.by, paper |-> c.paper, at |-> c.at]
           /\ status' = "submitted"
           /\ job' = "pending"
        \/ /\ Submitted         \* attempt_submissions_attempt_id_uq: race lost
           /\ UNCHANGED <<submission, status, job>>
     /\ AfterSubmit(s)
     /\ UNCHANGED <<now, startedAt, leaseVars, answerVars, result>>

----------------------------------------------------------------------------
(* Scoring, run by the request that handed in.                             *)

(* A broken score: the answers are scored without comparing their checksum *)
(* with the submission's.                                                  *)
ScoreUnverified(s) ==
  /\ call[s].pc = "score"
  /\ IF job = "pending" /\ ~result.scored
     THEN /\ result' = [scored |-> TRUE, paper |-> answers]
          /\ Advance(s, "mark")
     ELSE /\ UNCHANGED result
          /\ IF job = "pending" THEN Advance(s, "mark") ELSE End(s)
  /\ UNCHANGED <<now, attemptVars, leaseVars, answerVars, submission, job>>

(* A broken score: the checksum mismatch is swallowed instead of thrown. *)
ScoreSwallowingMismatch(s) ==
  /\ call[s].pc = "score"
  /\ IF job = "pending" /\ ~result.scored /\ answers = submission.paper
     THEN result' = [scored |-> TRUE, paper |-> answers]
     ELSE UNCHANGED result
  /\ IF job = "pending" THEN Advance(s, "mark") ELSE End(s)
  /\ UNCHANGED <<now, attemptVars, leaseVars, answerVars, submission, job>>

Score(s) ==
  /\ call[s].pc = "score"
  /\ \/ /\ job = "pending"
        /\ ~result.scored
        /\ answers = submission.paper
        /\ result' = [scored |-> TRUE, paper |-> answers]
        /\ Advance(s, "mark")
     \/ /\ job = "pending"
        /\ result.scored
        /\ Advance(s, "mark")
        /\ UNCHANGED result
     \/ /\ \/ job # "pending"
           \/ ~result.scored /\ answers # submission.paper   \* mismatch thrown
        /\ End(s)
        /\ UNCHANGED result
  /\ UNCHANGED <<now, attemptVars, leaseVars, answerVars, submission, job>>

MarkDelivered(s) ==
  /\ call[s].pc = "mark"
  /\ job' = "delivered"
  /\ End(s)
  /\ UNCHANGED <<now, attemptVars, leaseVars, answerVars, submission, result>>

----------------------------------------------------------------------------

Crash(s) ==
  /\ call[s] # Idle
  /\ End(s)
  /\ UNCHANGED <<now, attemptVars, leaseVars, answerVars, finalVars>>

Tick ==
  /\ now < MaxTime
  /\ now' = now + 1
  /\ UNCHANGED <<attemptVars, leaseVars, answerVars, finalVars, call>>

Init ==
  /\ now = 0
  /\ status = "none" /\ startedAt = 0
  /\ revision = 0 /\ answers = Blank
  /\ log = [r \in Instances \X Mutations |-> NoRow]
  /\ lease = NoLease /\ minted = 0 /\ cookie = [d \in Devices |-> 0]
  /\ submission = NoSubmission /\ job = "none" /\ result = NoResult
  /\ call = [s \in Slots |-> Idle]

Arrive(s) ==
  \/ \E d \in Devices :
       \/ StartArrives(s, d)
       \/ TakeoverArrives(s, d)
       \/ SubmitArrives(s, d)
       \/ \E q \in Instances, m \in Mutations, e \in 0..MaxExpected, p \in Payloads :
            SaveArrives(s, d, q, m, e, p)
  \/ TimeoutArrives(s)

Proceed(s) ==
  \/ InsertAttempt(s) \/ Activate(s)
  \/ IssueLease(s) \/ SetCookie(s) \/ RevokeLease(s) \/ RenewLease(s)
  \/ CheckSave(s) \/ StoreLateCandidate(s) \/ ReadAnswer(s) \/ CommitSave(s)
  \/ Freeze(s) \/ CommitSubmission(s) \/ Score(s) \/ MarkDelivered(s)

Next == Tick \/ \E s \in Slots : Arrive(s) \/ Proceed(s) \/ Crash(s)

Spec == Init /\ [][Next]_vars

----------------------------------------------------------------------------
(* Properties.                                                             *)

(* The type invariant. *)
TypeOK ==
  /\ now \in Nat /\ startedAt \in Nat /\ revision \in Nat /\ minted \in Nat
  /\ status \in {"none", "created", "in_progress", "submitted"}
  /\ lease \in [token : Nat, expires : Nat]
  /\ cookie \in [Devices -> Nat]
  /\ answers \in Papers
  /\ log \in [Instances \X Mutations -> LogRow]
  /\ submission \in Submission
  /\ job \in {"none", "pending", "delivered"}
  /\ result \in [scored : BOOLEAN, paper : Papers]
  /\ call \in [Slots -> Call]

(* The submission row, the attempt's status, the scoring job and the       *)
(* result agree, whatever races or crashes: one exists only with the       *)
(* others, and a job is delivered only once there is a result.             *)
FinalStateCoherent ==
  /\ Submitted <=> status = "submitted"
  /\ Submitted <=> job # "none"
  /\ result.scored => Submitted
  /\ job = "delivered" => result.scored

Accepted == {r \in Instances \X Mutations : log[r].outcome = "accepted"}

(* attempts.attempt_revision counts the accepted mutations: no retry of a  *)
(* mutation, concurrent or later, raises it twice, and none is missed.     *)
RevisionCountsAccepted == revision = Cardinality(Accepted)

(* Every stored answer is the outcome of an accepted mutation that the log *)
(* records with the same revision and payload.                             *)
AnswerHasMutation ==
  \A q \in Instances : answers[q].revision # 0 =>
    \E m \in Mutations :
      /\ log[<<q, m>>].outcome = "accepted"
      /\ log[<<q, m>>].resulting = answers[q].revision
      /\ log[<<q, m>>].payload = answers[q].payload

(* An answer that arrived at or after the deadline never enters the answer *)
(* set, one at or after the cutoff is not even kept as a candidate, and    *)
(* the finaliser closes no attempt before the cutoff.                      *)
DeadlinesHold ==
  /\ \A r \in Instances \X Mutations :
       /\ log[r].outcome = "accepted" => log[r].at < Deadline
       /\ log[r].outcome = "late_sync_recovery_candidate" =>
            Deadline <= log[r].at /\ log[r].at < Cutoff
  /\ submission.by = "timeout" => submission.at >= Cutoff

(* A browser loses the writer lease only to a takeover that was asked for  *)
(* while it held it: of takeovers that race, or that race the first issue, *)
(* the slower never ends the lease the faster was given meanwhile, since   *)
(* each revokes the row it read (takeoverWriterLease).                     *)
LeaseLostToWhoSawIt ==
  [][lease.token # 0 /\ lease'.token # lease.token =>
       \E s \in Slots : call[s].pc = "revoke" /\ call[s].old = lease.token]_vars

(* A recorded mutation outcome is never rewritten. *)
LogIsAppendOnly ==
  [][\A r \in Instances \X Mutations :
       log[r].outcome # "none" => log'[r] = log[r]]_vars

(* The attempt implements AttemptPromise: one hand-in, never changed, and  *)
(* the marked paper is the one handed in.                                  *)
Phase ==
  IF result.scored THEN "scored"
  ELSE IF Submitted THEN "final"
  ELSE IF status = "none" THEN "absent" ELSE "open"

Promise == INSTANCE AttemptPromise
  WITH phase <- Phase, paper <- submission.paper, marked <- result.paper

KeepsPromise == Promise!Spec

----------------------------------------------------------------------------
(* What comments of the code say, which the runs refute.                   *)

(* scoring-service.ts: answer_states mutated after submission is something *)
(* assertAttemptWritable "should already make impossible".                 *)
FrozenAfterSubmit == [][Submitted => answers' = answers]_vars

=============================================================================
