--------------------------- MODULE AttemptProofs ---------------------------
(***************************************************************************)
(* Proofs about Attempt, for any number of requests, browsers, questions   *)
(* and mutations and any timing constants.                                 *)
(***************************************************************************)
EXTENDS Attempt, FiniteSetTheorems, TLAPS

(* The kind of a call is known from its program counter. *)
LEMMA CallKind ==
  ASSUME NEW c \in Call
  PROVE  /\ c.pc \in {"insert", "activate", "first_lease"} => c \in StartCall
         /\ c.pc \in {"revoke", "issue"} => c \in TakeoverCall
         /\ c.pc = "reply" => c \in ReplyCall
         /\ c.pc \in {"renew", "check", "late", "cas", "commit"} => c \in SaveCall
         /\ c.pc \in {"freeze", "submit"} => c \in SubmitCall
         /\ c.pc \in {"score", "mark"} => c \in DrainCall
BY DEF Call, Idle, StartCall, TakeoverCall, ReplyCall, SaveCall, SubmitCall,
       DrainCall

(* Replacing one call keeps the others well typed. *)
LEMMA StepToType ==
  ASSUME call \in [Slots -> Call], NEW s \in Slots, NEW c \in Call, StepTo(s, c)
  PROVE  call' \in [Slots -> Call]
BY DEF StepTo

LEMMA IdleIsCall == Idle \in Call
BY DEF Call

LEMMA InitType == Init => TypeOK
<1> SUFFICES ASSUME Init PROVE TypeOK
  OBVIOUS
<1>1. Blank \in Papers /\ Null \in Payloads
  BY DEF Blank, Papers, Answer, Payloads
<1>2. NoRow \in LogRow /\ NoSubmission \in Submission
  BY <1>1 DEF NoRow, LogRow, NoSubmission, Submission
<1>3. NoResult \in [scored : BOOLEAN, paper : Papers]
  BY <1>1 DEF NoResult
<1>4. NoLease \in [token : Nat, expires : Nat]
  BY DEF NoLease
<1>5. call \in [Slots -> Call]
  BY IdleIsCall DEF Init
<1> QED
  BY <1>1, <1>2, <1>3, <1>4, <1>5 DEF Init, TypeOK

LEMMA ArriveType ==
  ASSUME TypeOK, NEW s \in Slots, Arrive(s)
  PROVE  TypeOK'
<1>1. now \in Nat /\ revision \in Nat /\ lease.token \in Nat /\ Blank \in Papers
  BY DEF TypeOK, Blank, Papers, Answer, Payloads
<1>2. /\ UNCHANGED <<now, attemptVars, leaseVars, answerVars, finalVars>>
      /\ \E c \in Call : StepTo(s, c)
  <2>1. CASE \E d \in Devices : StartArrives(s, d)
    <3>1. PICK d \in Devices : StartArrives(s, d)
      BY <2>1
    <3>2. [pc |-> "insert", dev |-> d, at |-> now] \in Call
      BY <1>1 DEF Call, StartCall
    <3> QED
      BY <3>1, <3>2 DEF StartArrives
  <2>2. CASE \E d \in Devices : TakeoverArrives(s, d)
    <3>1. PICK d \in Devices : TakeoverArrives(s, d)
      BY <2>2
    <3>2. [pc |-> IF lease.token = 0 THEN "issue" ELSE "revoke",
           dev |-> d, at |-> now, old |-> lease.token] \in Call
      BY <1>1 DEF Call, TakeoverCall
    <3> QED
      BY <3>1, <3>2 DEF TakeoverArrives
  <2>3. \A by \in {"user", "timeout"} : BeginSubmit(s, by) => \E c \in Call : StepTo(s, c)
    <3> SUFFICES ASSUME NEW by \in {"user", "timeout"}, BeginSubmit(s, by)
                 PROVE  \E c \in Call : StepTo(s, c)
      OBVIOUS
    <3>1. [pc |-> "freeze", by |-> by, at |-> now, paper |-> Blank] \in Call
      BY <1>1 DEF Call, SubmitCall
    <3> QED
      BY <3>1 DEF BeginSubmit
  <2>4. CASE \E d \in Devices : SubmitArrives(s, d)
    <3>1. [pc |-> "score"] \in Call
      BY DEF Call, DrainCall
    <3> QED
      BY <2>3, <2>4, <3>1 DEF SubmitArrives
  <2>5. CASE TimeoutArrives(s)
    BY <2>3, <2>5 DEF TimeoutArrives
  <2>6. CASE \E d \in Devices, q \in Instances, m \in Mutations,
                e \in 0..MaxExpected, p \in Payloads : SaveArrives(s, d, q, m, e, p)
    <3>1. PICK d \in Devices, q \in Instances, m \in Mutations,
               e \in 0..MaxExpected, p \in Payloads : SaveArrives(s, d, q, m, e, p)
      BY <2>6
    <3>2. cookie[d] \in Nat /\ e \in Nat /\ Blank[q] \in Answer
      BY <1>1, TimeAssumption DEF TypeOK, Papers
    <3>3. [pc |-> "renew", token |-> cookie[d], at |-> now, q |-> q, m |-> m,
           expected |-> e, payload |-> p, base |-> Blank[q]] \in Call
      BY <1>1, <3>2 DEF Call, SaveCall
    <3> QED
      BY <3>1, <3>3 DEF SaveArrives
  <2> QED
    BY <2>1, <2>2, <2>4, <2>5, <2>6 DEF Arrive
<1>3. call' \in [Slots -> Call]
  BY <1>2, StepToType DEF TypeOK
<1> QED
  BY <1>2, <1>3 DEF TypeOK, attemptVars, leaseVars, answerVars, finalVars, Submission

LEMMA ProceedType ==
  ASSUME TypeOK, NEW s \in Slots, Proceed(s)
  PROVE  TypeOK'
<1> DEFINE c == call[s]
<1>0. c \in Call /\ call \in [Slots -> Call] /\ Idle \in Call
  BY IdleIsCall DEF TypeOK
<1>1. CASE InsertAttempt(s)
  <2>1. c \in StartCall
    BY <1>0, <1>1, CallKind DEF InsertAttempt
  <2>2. [c EXCEPT !.pc = "activate"] \in Call
    BY <2>1 DEF StartCall, Call
  <2>3. call' \in [Slots -> Call]
    BY <1>0, <1>1, <2>2, StepToType DEF InsertAttempt, Advance, End
  <2> QED
    BY <1>1, <2>1, <2>3 DEF InsertAttempt, TypeOK, StartCall, attemptVars, leaseVars,
                            answerVars, finalVars
<1>2. CASE Activate(s)
  <2>1. c \in StartCall
    BY <1>0, <1>2, CallKind DEF Activate
  <2>2. [c EXCEPT !.pc = "first_lease"] \in Call
    BY <2>1 DEF StartCall, Call
  <2>3. call' \in [Slots -> Call]
    BY <1>0, <1>2, <2>2, StepToType DEF Activate, Advance
  <2> QED
    BY <1>2, <2>3 DEF Activate, TypeOK, leaseVars, answerVars, finalVars
<1>3. CASE IssueLease(s)
  <2>1. c.dev \in Devices /\ c.at \in Nat
    BY <1>0, <1>3, CallKind DEF IssueLease, StartCall, TakeoverCall
  <2>2. [pc |-> "reply", dev |-> c.dev, token |-> minted + 1] \in Call
    BY <2>1 DEF TypeOK, ReplyCall, Call
  <2>3. call' \in [Slots -> Call]
    BY <1>0, <1>3, <2>2, StepToType DEF IssueLease, End
  <2>4. [token |-> minted + 1, expires |-> c.at + TTL] \in [token : Nat, expires : Nat]
    BY <2>1, TimeAssumption DEF TypeOK
  <2> QED
    BY <1>3, <2>3, <2>4 DEF IssueLease, TypeOK, attemptVars, answerVars, finalVars
<1>4. CASE SetCookie(s)
  <2>1. c.dev \in Devices /\ c.token \in Nat
    BY <1>0, <1>4, CallKind DEF SetCookie, ReplyCall
  <2>2. call' \in [Slots -> Call]
    BY <1>0, <1>4, StepToType DEF SetCookie, End
  <2> QED
    BY <1>4, <2>1, <2>2 DEF SetCookie, TypeOK, attemptVars, answerVars, finalVars
<1>5. CASE RevokeLease(s)
  <2>1. c \in TakeoverCall
    BY <1>0, <1>5, CallKind DEF RevokeLease
  <2>2. [c EXCEPT !.pc = "issue"] \in Call
    BY <2>1 DEF TakeoverCall, Call
  <2>3. call' \in [Slots -> Call]
    BY <1>0, <1>5, <2>2, StepToType DEF RevokeLease, Advance
  <2> QED
    BY <1>5, <2>3 DEF RevokeLease, NoLease, TypeOK, attemptVars, answerVars, finalVars
<1>6. CASE RenewLease(s)
  <2>1. c \in SaveCall
    BY <1>0, <1>6, CallKind DEF RenewLease
  <2>2. [c EXCEPT !.pc = "check"] \in Call
    BY <2>1 DEF SaveCall, Call
  <2>3. call' \in [Slots -> Call]
    BY <1>0, <1>6, <2>2, StepToType DEF RenewLease, Advance, End
  <2>4. lease' \in [token : Nat, expires : Nat]
    BY <1>6, <2>1, TimeAssumption DEF RenewLease, SaveCall, TypeOK
  <2> QED
    BY <1>6, <2>3, <2>4 DEF RenewLease, TypeOK, attemptVars, answerVars, finalVars
<1>7. CASE CheckSave(s)
  <2>1. c \in SaveCall
    BY <1>0, <1>7, CallKind DEF CheckSave
  <2>2. \A pc \in {"cas", "late"} : [c EXCEPT !.pc = pc] \in Call
    BY <2>1 DEF SaveCall, Call
  <2>3. \E d \in Call : StepTo(s, d)
    BY <1>0, <1>7, <2>2 DEF CheckSave, Advance, End
  <2>4. call' \in [Slots -> Call]
    BY <1>0, <2>3, StepToType
  <2> QED
    BY <1>7, <2>4 DEF CheckSave, TypeOK, attemptVars, leaseVars, answerVars, finalVars
<1>8. CASE StoreLateCandidate(s)
  <2>1. c \in SaveCall
    BY <1>0, <1>8, CallKind DEF StoreLateCandidate
  <2>2. call' \in [Slots -> Call]
    BY <1>0, <1>8, StepToType DEF StoreLateCandidate, End
  <2>3. [outcome |-> "late_sync_recovery_candidate", at |-> c.at,
         payload |-> c.payload, resulting |-> 0] \in LogRow
    BY <2>1 DEF SaveCall, LogRow
  <2>4. log' \in [Instances \X Mutations -> LogRow]
    BY <1>8, <2>3 DEF StoreLateCandidate, Record, TypeOK
  <2> QED
    BY <1>8, <2>2, <2>4 DEF StoreLateCandidate, TypeOK, attemptVars, leaseVars, finalVars
<1>9. CASE ReadAnswer(s)
  <2>1. c \in SaveCall
    BY <1>0, <1>9, CallKind DEF ReadAnswer
  <2>2. answers[c.q] \in Answer
    BY <2>1 DEF SaveCall, TypeOK, Papers
  <2>3. [c EXCEPT !.pc = "commit", !.base = answers[c.q]] \in Call
    BY <2>1, <2>2 DEF SaveCall, Call
  <2>4. call' \in [Slots -> Call]
    BY <1>0, <1>9, <2>3, StepToType DEF ReadAnswer
  <2> QED
    BY <1>9, <2>4 DEF ReadAnswer, TypeOK, attemptVars, leaseVars, answerVars, finalVars
<1>10. CASE CommitSave(s)
  <2>1. c \in SaveCall /\ c.base.revision \in Nat
    BY <1>0, <1>10, CallKind DEF CommitSave, SaveCall, Answer
  <2>2. call' \in [Slots -> Call]
    BY <1>0, <1>10, StepToType DEF CommitSave, End
  <2>3. \A o \in {"accepted", "idempotent_replay", "conflict"}, n \in Nat :
          Record(c, o, n) => log' \in [Instances \X Mutations -> LogRow]
    <3> SUFFICES ASSUME NEW o \in {"accepted", "idempotent_replay", "conflict"},
                        NEW n \in Nat, Record(c, o, n)
                 PROVE  log' \in [Instances \X Mutations -> LogRow]
      OBVIOUS
    <3>1. [outcome |-> o, at |-> c.at, payload |-> c.payload, resulting |-> n] \in LogRow
      BY <2>1 DEF SaveCall, LogRow
    <3> QED
      BY <3>1 DEF Record, TypeOK
  <2>4. CasOutcome(c) \in {"accepted", "idempotent_replay", "conflict"}
    BY DEF CasOutcome
  <2>5. [revision |-> c.base.revision + 1, payload |-> c.payload] \in Answer
    BY <2>1 DEF SaveCall, Answer
  <2>6. Accept(c) => /\ answers' \in Papers /\ revision' \in Nat
                     /\ log' \in [Instances \X Mutations -> LogRow]
    <3>1. Accept(c) => answers' \in Papers
      <4>1. \A a \in Answer : [answers EXCEPT ![c.q] = a] \in Papers
        BY DEF Papers, TypeOK
      <4>2. [answers EXCEPT ![c.q] =
               [revision |-> c.base.revision + 1, payload |-> c.payload]] \in Papers
        BY <2>5, <4>1, Zenon
      <4> QED
        BY <4>2 DEF Accept
    <3>2. Accept(c) => revision' \in Nat
      BY DEF Accept, TypeOK
    <3>3. Accept(c) => log' \in [Instances \X Mutations -> LogRow]
      <4>1. c.base.revision + 1 \in Nat
        BY <2>1
      <4>2. Record(c, "accepted", c.base.revision + 1) =>
              log' \in [Instances \X Mutations -> LogRow]
        BY <2>3, <4>1, Zenon
      <4> QED
        BY <4>2 DEF Accept
    <3> QED
      BY <3>1, <3>2, <3>3
  <2>7. /\ answers' \in Papers /\ revision' \in Nat
        /\ log' \in [Instances \X Mutations -> LogRow]
    BY <1>10, <2>1, <2>3, <2>4, <2>6 DEF CommitSave, TypeOK, answerVars
  <2> QED
    BY <1>10, <2>2, <2>7 DEF CommitSave, TypeOK, attemptVars, leaseVars, finalVars
<1>11. CASE Freeze(s)
  <2>1. c \in SubmitCall
    BY <1>0, <1>11, CallKind DEF Freeze
  <2>2. [c EXCEPT !.pc = "submit", !.paper = answers] \in Call
    BY <2>1 DEF SubmitCall, Call, TypeOK
  <2>3. call' \in [Slots -> Call]
    BY <1>0, <1>11, <2>2, StepToType DEF Freeze
  <2> QED
    BY <1>11, <2>3 DEF Freeze, TypeOK, attemptVars, leaseVars, answerVars, finalVars
<1>12. CASE CommitSubmission(s)
  <2>1. c \in SubmitCall
    BY <1>0, <1>12, CallKind DEF CommitSubmission
  <2>2. [pc |-> "score"] \in Call
    BY DEF DrainCall, Call
  <2>3. call' \in [Slots -> Call]
    BY <1>0, <1>12, <2>2, StepToType DEF CommitSubmission, AfterSubmit, End
  <2>4. [by |-> c.by, paper |-> c.paper, at |-> c.at] \in Submission
    BY <2>1 DEF SubmitCall, Submission
  <2> QED
    BY <1>12, <2>3, <2>4 DEF CommitSubmission, TypeOK, leaseVars, answerVars
<1>13. CASE Score(s)
  <2>1. c \in DrainCall
    BY <1>0, <1>13, CallKind DEF Score
  <2>2. [c EXCEPT !.pc = "mark"] \in Call
    BY <2>1 DEF DrainCall, Call
  <2>3. call' \in [Slots -> Call]
    BY <1>0, <1>13, <2>2, StepToType DEF Score, Advance, End
  <2>4. [scored |-> TRUE, paper |-> answers] \in [scored : BOOLEAN, paper : Papers]
    BY DEF TypeOK
  <2>5. result' \in [scored : BOOLEAN, paper : Papers]
    BY <1>13, <2>4 DEF Score, TypeOK
  <2> QED
    BY <1>13, <2>3, <2>5 DEF Score, TypeOK, attemptVars, leaseVars, answerVars
<1>14. CASE MarkDelivered(s)
  <2>1. call' \in [Slots -> Call]
    BY <1>0, <1>14, StepToType DEF MarkDelivered, End
  <2> QED
    BY <1>14, <2>1 DEF MarkDelivered, TypeOK, attemptVars, leaseVars, answerVars
<1> QED
  BY <1>1, <1>2, <1>3, <1>4, <1>5, <1>6, <1>7, <1>8, <1>9, <1>10, <1>11, <1>12,
     <1>13, <1>14 DEF Proceed

LEMMA StepType == TypeOK /\ [Next]_vars => TypeOK'
<1> SUFFICES ASSUME TypeOK, [Next]_vars PROVE TypeOK'
  OBVIOUS
<1>1. CASE Tick
  BY <1>1 DEF Tick, TypeOK, attemptVars, leaseVars, answerVars, finalVars
<1>2. CASE \E s \in Slots : Crash(s)
  <2>1. PICK s \in Slots : Crash(s)
    BY <1>2
  <2>2. call' \in [Slots -> Call]
    BY <2>1, IdleIsCall, StepToType DEF Crash, End, TypeOK
  <2> QED
    BY <2>1, <2>2 DEF Crash, TypeOK, attemptVars, leaseVars, answerVars, finalVars
<1>3. CASE UNCHANGED vars
  BY <1>3 DEF vars, TypeOK
<1> QED
  BY <1>1, <1>2, <1>3, ArriveType, ProceedType DEF Next

(* Type correctness: every variable and every request in progress keeps    *)
(* its shape at every step of the attempt engine.                          *)
THEOREM TypeCorrect == Spec => []TypeOK
BY InitType, StepType, PTL DEF Spec

----------------------------------------------------------------------------
(* A step of one request leaves the other requests alone.                  *)
LEMMA StepToOthers ==
  ASSUME call \in [Slots -> Call], NEW s \in Slots, NEW c, StepTo(s, c)
  PROVE  call'[s] = c /\ \A t \in Slots : t # s => call'[t] = call[t]
BY DEF StepTo

LEMMA AdvanceTo ==
  ASSUME TypeOK, NEW s \in Slots, NEW pc, Advance(s, pc)
  PROVE  /\ call'[s].pc = pc
         /\ \A t \in Slots : t # s => call'[t] = call[t]
<1>1. call \in [Slots -> Call] /\ call[s] \in Call
  BY DEF TypeOK
<1>2. [call[s] EXCEPT !.pc = pc].pc = pc
  BY <1>1 DEF Call, Idle, StartCall, TakeoverCall, ReplyCall, SaveCall, SubmitCall,
              DrainCall
<1> QED
  BY <1>1, <1>2, StepToOthers DEF Advance

LEMMA EndTo ==
  ASSUME TypeOK, NEW s \in Slots, End(s)
  PROVE  call'[s].pc = "idle" /\ \A t \in Slots : t # s => call'[t] = call[t]
BY StepToOthers DEF End, TypeOK, Idle

(* Where a step leads: the program counter it leaves, by action.           *)
LEMMA ArriveTo ==
  ASSUME TypeOK, NEW s \in Slots, Arrive(s)
  PROVE  /\ UNCHANGED <<now, attemptVars, leaseVars, answerVars, finalVars>>
         /\ \A t \in Slots : t # s => call'[t] = call[t]
         /\ call'[s].pc \in {"insert", "revoke", "issue", "renew", "freeze", "score"}
         /\ call'[s].pc = "freeze" =>
              /\ status = "in_progress"
              /\ call'[s].by = "timeout" => call'[s].at >= Cutoff
         /\ call'[s].pc = "score" => Submitted
<1>1. call \in [Slots -> Call]
  BY DEF TypeOK
<1>2. CASE \E d \in Devices : StartArrives(s, d)
  BY <1>1, <1>2, StepToOthers DEF StartArrives
<1>3. CASE \E d \in Devices : TakeoverArrives(s, d)
  BY <1>1, <1>3, StepToOthers DEF TakeoverArrives
<1>4. CASE \E d \in Devices : SubmitArrives(s, d)
  BY <1>1, <1>4, StepToOthers DEF SubmitArrives, BeginSubmit
<1>5. CASE \E d \in Devices, q \in Instances, m \in Mutations,
              e \in 0..MaxExpected, p \in Payloads : SaveArrives(s, d, q, m, e, p)
  BY <1>1, <1>5, StepToOthers DEF SaveArrives
<1>6. CASE TimeoutArrives(s)
  BY <1>1, <1>6, StepToOthers DEF TimeoutArrives, BeginSubmit
<1> QED
  BY <1>2, <1>3, <1>4, <1>5, <1>6 DEF Arrive

LEMMA ReadAnswerTo ==
  ASSUME TypeOK, NEW s \in Slots, ReadAnswer(s)
  PROVE  /\ UNCHANGED <<now, attemptVars, leaseVars, answerVars, finalVars>>
         /\ \A t \in Slots : t # s => call'[t] = call[t]
         /\ call[s] \in SaveCall
         /\ call'[s] = [call[s] EXCEPT !.pc = "commit", !.base = answers[call[s].q]]
         /\ call'[s].pc = "commit" /\ call'[s].at = call[s].at
<1>1. call \in [Slots -> Call] /\ call[s] \in SaveCall
  BY CallKind DEF TypeOK, ReadAnswer
<1>2. /\ call'[s] = [call[s] EXCEPT !.pc = "commit", !.base = answers[call[s].q]]
      /\ \A t \in Slots : t # s => call'[t] = call[t]
  BY <1>1, StepToOthers DEF ReadAnswer
<1>3. /\ [call[s] EXCEPT !.pc = "commit", !.base = answers[call[s].q]].pc = "commit"
      /\ [call[s] EXCEPT !.pc = "commit", !.base = answers[call[s].q]].at = call[s].at
  BY <1>1 DEF SaveCall
<1> QED
  BY <1>1, <1>2, <1>3 DEF ReadAnswer

LEMMA FreezeTo ==
  ASSUME TypeOK, NEW s \in Slots, Freeze(s)
  PROVE  /\ UNCHANGED <<now, attemptVars, leaseVars, answerVars, finalVars>>
         /\ \A t \in Slots : t # s => call'[t] = call[t]
         /\ call'[s].pc = "submit"
         /\ call'[s].by = call[s].by /\ call'[s].at = call[s].at
<1>1. call \in [Slots -> Call] /\ call[s] \in SubmitCall
  BY CallKind DEF TypeOK, Freeze
<1>2. /\ call'[s] = [call[s] EXCEPT !.pc = "submit", !.paper = answers]
      /\ \A t \in Slots : t # s => call'[t] = call[t]
  BY <1>1, StepToOthers DEF Freeze
<1> QED
  BY <1>1, <1>2 DEF Freeze, SubmitCall

LEMMA CrashTo ==
  ASSUME TypeOK, NEW s \in Slots, Crash(s)
  PROVE  /\ UNCHANGED <<now, attemptVars, leaseVars, answerVars, finalVars>>
         /\ \A t \in Slots : t # s => call'[t] = call[t]
         /\ call'[s] = Idle
BY StepToOthers DEF Crash, End, TypeOK

----------------------------------------------------------------------------
(* A request that is about to mark the scoring job delivered has a result. *)
MarkHasResult == \A s \in Slots : call[s].pc = "mark" => result.scored

FinalInv == FinalStateCoherent /\ MarkHasResult

LEMMA FinalInit == Init => FinalInv
BY DEF Init, FinalInv, FinalStateCoherent, MarkHasResult, Submitted, NoSubmission,
       NoResult, Idle

LEMMA FinalStep ==
  TypeOK /\ FinalInv /\ [Next]_vars => FinalInv'
<1> SUFFICES ASSUME TypeOK, FinalInv, [Next]_vars PROVE FinalInv'
  OBVIOUS
<1> USE DEF FinalInv, FinalStateCoherent, MarkHasResult, Submitted
<1>0. call \in [Slots -> Call]
  BY DEF TypeOK
<1>1. CASE UNCHANGED vars \/ Tick
  BY <1>1 DEF vars, Tick, attemptVars, finalVars
<1>2. ASSUME NEW s \in Slots, Arrive(s) PROVE FinalInv'
  BY <1>2, ArriveTo DEF attemptVars, finalVars
<1>3. ASSUME NEW s \in Slots, Crash(s) PROVE FinalInv'
  BY <1>3, CrashTo DEF attemptVars, finalVars, Idle
<1>4. ASSUME NEW s \in Slots, Proceed(s) PROVE FinalInv'
  <2>1. CASE InsertAttempt(s)
    <3>1. /\ UNCHANGED finalVars
          /\ \/ status = "none" /\ status' = "created"
             \/ status' = status
          /\ Advance(s, "activate") \/ End(s)
      BY <2>1 DEF InsertAttempt, attemptVars
    <3>2. call'[s].pc # "mark" /\ \A t \in Slots : t # s => call'[t] = call[t]
      BY <3>1, AdvanceTo, EndTo
    <3> QED
      BY <3>1, <3>2 DEF finalVars
  <2>2. CASE Activate(s)
    BY <2>2, AdvanceTo DEF Activate, finalVars
  <2>3. CASE IssueLease(s) \/ SetCookie(s) \/ RevokeLease(s) \/ RenewLease(s)
    <3>1. /\ UNCHANGED <<attemptVars, finalVars>>
          /\ call'[s].pc # "mark" /\ \A t \in Slots : t # s => call'[t] = call[t]
      <4>1. CASE IssueLease(s)
        BY <1>0, <4>1, StepToOthers, EndTo DEF IssueLease
      <4>2. CASE SetCookie(s)
        BY <4>2, EndTo DEF SetCookie
      <4>3. CASE RevokeLease(s)
        BY <4>3, AdvanceTo DEF RevokeLease
      <4>4. CASE RenewLease(s)
        <5>1. Advance(s, "check") \/ End(s)
          BY <4>4 DEF RenewLease
        <5> QED
          BY <4>4, <5>1, AdvanceTo, EndTo DEF RenewLease
      <4> QED
        BY <2>3, <4>1, <4>2, <4>3, <4>4
    <3> QED
      BY <3>1 DEF attemptVars, finalVars
  <2>4. CASE CheckSave(s) \/ StoreLateCandidate(s) \/ ReadAnswer(s) \/ CommitSave(s)
    <3>1. CASE CheckSave(s) \/ StoreLateCandidate(s) \/ CommitSave(s)
      <4>1. /\ UNCHANGED <<attemptVars, finalVars>>
            /\ Advance(s, "cas") \/ Advance(s, "late") \/ End(s)
        BY <3>1 DEF CheckSave, StoreLateCandidate, CommitSave
      <4>2. call'[s].pc # "mark" /\ \A t \in Slots : t # s => call'[t] = call[t]
        BY <4>1, AdvanceTo, EndTo
      <4> QED
        BY <4>1, <4>2 DEF attemptVars, finalVars
    <3>2. CASE ReadAnswer(s)
      <4>1. /\ UNCHANGED <<attemptVars, finalVars>>
            /\ call'[s].pc # "mark" /\ \A t \in Slots : t # s => call'[t] = call[t]
        BY <3>2, ReadAnswerTo
      <4> QED
        BY <4>1 DEF attemptVars, finalVars
    <3> QED
      BY <2>4, <3>1, <3>2
  <2>5. CASE Freeze(s)
    BY <2>5, FreezeTo DEF attemptVars, finalVars
  <2>6. CASE CommitSubmission(s)
    <3>1. call[s].by \in {"user", "timeout"}
      BY <1>0, <2>6, CallKind DEF CommitSubmission, SubmitCall
    <3>2. call'[s].pc # "mark" /\ \A t \in Slots : t # s => call'[t] = call[t]
      BY <1>0, <2>6 DEF CommitSubmission, AfterSubmit, End, StepTo, Idle
    <3> QED
      BY <2>6, <3>1, <3>2 DEF CommitSubmission
  <2>7. CASE Score(s)
    BY <2>7, AdvanceTo, EndTo DEF Score, attemptVars
  <2>8. CASE MarkDelivered(s)
    BY <2>8, EndTo DEF MarkDelivered, attemptVars
  <2> QED
    BY <1>4, <2>1, <2>2, <2>3, <2>4, <2>5, <2>6, <2>7, <2>8 DEF Proceed
<1> QED
  BY <1>1, <1>2, <1>3, <1>4 DEF Next

(* The submission, the status, the scoring job and the result agree,       *)
(* whatever requests race and wherever they die.                           *)
THEOREM FinalStateIsCoherent == Spec => []FinalStateCoherent
<1>1. Spec => [](TypeOK /\ FinalInv)
  BY InitType, FinalInit, StepType, FinalStep, PTL DEF Spec
<1>2. FinalInv => FinalStateCoherent
  BY DEF FinalInv
<1> QED
  BY <1>1, <1>2, PTL

----------------------------------------------------------------------------
(* Refinement.                                                             *)

LEMMA PromiseInit == Init => Promise!Init
BY DEF Init, Promise!Init, Phase, Submitted, NoSubmission, NoResult

(* A step that touches neither submission nor result and neither creates   *)
(* the attempt is invisible to AttemptPromise.                             *)
LEMMA Invisible ==
  ASSUME UNCHANGED <<submission, result>>, status = "none" <=> status' = "none"
  PROVE  UNCHANGED Promise!vars
BY DEF Promise!vars, Phase, Submitted

LEMMA PromiseStep ==
  TypeOK /\ FinalInv /\ [Next]_vars => [Promise!Next]_(Promise!vars)
<1> SUFFICES ASSUME TypeOK, FinalInv, [Next]_vars PROVE [Promise!Next]_(Promise!vars)
  OBVIOUS
<1>1. CASE UNCHANGED vars \/ Tick
  BY <1>1, Invisible DEF vars, Tick, attemptVars, finalVars
<1>2. ASSUME NEW s \in Slots, Arrive(s) \/ Crash(s) PROVE UNCHANGED Promise!vars
  <2>1. UNCHANGED <<attemptVars, finalVars>>
    BY <1>2, ArriveTo, CrashTo
  <2> QED
    BY <2>1, Invisible DEF attemptVars, finalVars
<1>3. ASSUME NEW s \in Slots, Proceed(s) PROVE [Promise!Next]_(Promise!vars)
  <2>1. CASE InsertAttempt(s)
    <3>1. CASE status = "none" /\ status' = "created"
      <4>1. UNCHANGED <<submission, result>> /\ ~Submitted /\ ~result.scored
        BY <2>1, <3>1 DEF InsertAttempt, finalVars, FinalInv, FinalStateCoherent
      <4>2. Promise!Begin
        BY <3>1, <4>1 DEF Promise!Begin, Phase, Submitted
      <4> QED
        BY <4>2 DEF Promise!Next
    <3>2. CASE status # "none" /\ status' = status
      BY <2>1, <3>2, Invisible DEF InsertAttempt, finalVars
    <3> QED
      BY <2>1, <3>1, <3>2 DEF InsertAttempt, attemptVars
  <2>2. CASE Activate(s)
    BY <2>2, Invisible DEF Activate, finalVars
  <2>3. CASE IssueLease(s) \/ SetCookie(s) \/ RevokeLease(s) \/ RenewLease(s)
    <3>1. UNCHANGED <<attemptVars, finalVars>>
      BY <2>3 DEF IssueLease, SetCookie, RevokeLease, RenewLease
    <3> QED
      BY <3>1, Invisible DEF attemptVars, finalVars
  <2>4. CASE CheckSave(s) \/ StoreLateCandidate(s) \/ ReadAnswer(s) \/ CommitSave(s)
             \/ Freeze(s)
    <3>1. UNCHANGED <<attemptVars, finalVars>>
      BY <2>4 DEF CheckSave, StoreLateCandidate, ReadAnswer, CommitSave, Freeze
    <3> QED
      BY <3>1, Invisible DEF attemptVars, finalVars
  <2>5. CASE CommitSubmission(s)
    <3>1. CASE Submitted
      BY <2>5, <3>1, Invisible DEF CommitSubmission
    <3>2. CASE ~Submitted
      <4>1. call[s] \in SubmitCall
        BY <2>5, CallKind DEF TypeOK, CommitSubmission
      <4>2. /\ status = "in_progress" /\ UNCHANGED result
            /\ submission' = [by |-> call[s].by, paper |-> call[s].paper, at |-> call[s].at]
        BY <2>5, <3>2 DEF CommitSubmission
      <4>3. Submitted' /\ submission'.paper \in Papers /\ ~result.scored
        BY <3>2, <4>1, <4>2 DEF SubmitCall, Submitted, FinalInv, FinalStateCoherent
      <4>4. Promise!HandIn
        BY <3>2, <4>2, <4>3 DEF Promise!HandIn, Phase
      <4> QED
        BY <4>4 DEF Promise!Next
    <3> QED
      BY <3>1, <3>2
  <2>6. CASE Score(s)
    <3>1. UNCHANGED <<status, submission>>
      BY <2>6 DEF Score, attemptVars
    <3>2. CASE UNCHANGED result
      BY <3>1, <3>2, Invisible
    <3>3. CASE /\ job = "pending" /\ ~result.scored /\ answers = submission.paper
               /\ result' = [scored |-> TRUE, paper |-> answers]
      <4>1. Submitted
        BY <3>3 DEF FinalInv, FinalStateCoherent
      <4>2. Promise!Mark
        BY <3>1, <3>3, <4>1 DEF Promise!Mark, Phase
      <4> QED
        BY <4>2 DEF Promise!Next
    <3> QED
      BY <2>6, <3>2, <3>3 DEF Score
  <2>7. CASE MarkDelivered(s)
    BY <2>7, Invisible DEF MarkDelivered, attemptVars
  <2> QED
    BY <1>3, <2>1, <2>2, <2>3, <2>4, <2>5, <2>6, <2>7 DEF Proceed
<1> QED
  BY <1>1, <1>2, <1>3 DEF Next

(* One hand-in for good, and the paper marked is the paper handed in: the  *)
(* attempt engine implements AttemptPromise.                               *)
THEOREM PromiseKept == Spec => KeepsPromise
<1>1. Spec => [](TypeOK /\ FinalInv)
  BY InitType, FinalInit, StepType, FinalStep, PTL DEF Spec
<1> QED
  BY <1>1, PromiseInit, PromiseStep, PTL DEF Spec, KeepsPromise, Promise!Spec

----------------------------------------------------------------------------
(* The answer log.                                                         *)

(* What a step may do to the answers and their log: nothing, record a      *)
(* mutation that is not accepted, or accept one.                           *)
Refused(s) ==
  /\ UNCHANGED <<revision, answers>>
  /\ \E o \in {"idempotent_replay", "conflict", "late_sync_recovery_candidate"}, n \in Nat :
       Record(call[s], o, n)

LEMMA AnswerStep ==
  ASSUME TypeOK, [Next]_vars
  PROVE  \/ UNCHANGED answerVars
         \/ \E s \in Slots : /\ call[s] \in SaveCall
                             /\ call[s].pc \in {"late", "commit"}
                             /\ ~Recorded(call[s])
                             /\ \/ Refused(s)
                                \/ Accept(call[s]) /\ call[s].pc = "commit"
<1>1. CASE UNCHANGED vars \/ Tick
  BY <1>1 DEF vars, Tick, answerVars
<1>2. ASSUME NEW s \in Slots, Arrive(s) \/ Crash(s) PROVE UNCHANGED answerVars
  BY <1>2, ArriveTo, CrashTo
<1>3. ASSUME NEW s \in Slots, Proceed(s), ~StoreLateCandidate(s), ~CommitSave(s)
      PROVE  UNCHANGED answerVars
  BY <1>3 DEF Proceed, InsertAttempt, Activate, IssueLease, SetCookie, RevokeLease,
     RenewLease, CheckSave, ReadAnswer, Freeze, CommitSubmission, Score, MarkDelivered
<1>4. ASSUME NEW s \in Slots, StoreLateCandidate(s)
      PROVE  \/ UNCHANGED answerVars
             \/ /\ call[s] \in SaveCall /\ call[s].pc = "late"
                /\ ~Recorded(call[s]) /\ Refused(s)
  <2>1. call[s] \in SaveCall /\ call[s].pc = "late"
    BY <1>4, CallKind DEF TypeOK, StoreLateCandidate
  <2> QED
    BY <1>4, <2>1 DEF StoreLateCandidate, Refused, answerVars
<1>5. ASSUME NEW s \in Slots, CommitSave(s)
      PROVE  \/ UNCHANGED answerVars
             \/ /\ call[s] \in SaveCall /\ call[s].pc = "commit"
                /\ ~Recorded(call[s])
                /\ Refused(s) \/ Accept(call[s])
  <2>1. call[s] \in SaveCall /\ call[s].pc = "commit"
    BY <1>5, CallKind DEF TypeOK, CommitSave
  <2>2. call[s].base.revision \in Nat
    BY <2>1 DEF SaveCall, Answer
  <2>3. CasOutcome(call[s]) \in {"accepted", "idempotent_replay", "conflict"}
    BY DEF CasOutcome
  <2> QED
    BY <1>5, <2>1, <2>2, <2>3 DEF CommitSave, Refused
<1> QED
  BY <1>1, <1>2, <1>3, <1>4, <1>5 DEF Next

(* The row a step records is the only one that changes.                    *)
LEMMA RecordRow ==
  ASSUME TypeOK, NEW c \in SaveCall, NEW o, NEW n, Record(c, o, n)
  PROVE  /\ Row(c) \in Instances \X Mutations
         /\ log'[Row(c)] = [outcome |-> o, at |-> c.at, payload |-> c.payload,
                            resulting |-> n]
         /\ \A r \in Instances \X Mutations : r # Row(c) => log'[r] = log[r]
BY DEF Record, Row, SaveCall, TypeOK

(* No recorded mutation outcome is ever rewritten.                         *)
THEOREM LogAppendOnly == Spec => LogIsAppendOnly
<1>1. TypeOK /\ [Next]_vars =>
        [\A r \in Instances \X Mutations :
           log[r].outcome # "none" => log'[r] = log[r]]_vars
  <2> SUFFICES ASSUME TypeOK, [Next]_vars, NEW r \in Instances \X Mutations,
                      log[r].outcome # "none"
               PROVE  log'[r] = log[r]
    OBVIOUS
  <2>1. CASE UNCHANGED answerVars
    BY <2>1 DEF answerVars
  <2>2. ASSUME NEW s \in Slots, call[s] \in SaveCall, ~Recorded(call[s]),
               NEW o, NEW n, Record(call[s], o, n)
        PROVE  log'[r] = log[r]
    BY <2>2, RecordRow DEF Recorded
  <2> QED
    BY <2>1, <2>2, AnswerStep DEF Refused, Accept
<1> QED
  BY <1>1, InitType, StepType, PTL DEF Spec, LogIsAppendOnly

LEMMA AcceptedFinite == IsFiniteSet(Accepted)
<1>1. IsFiniteSet(Instances \X Mutations)
  BY FiniteAssumption, FS_Product
<1> QED
  BY <1>1, FS_Subset DEF Accepted

LEMMA RevisionInit == Init => RevisionCountsAccepted
<1> SUFFICES ASSUME Init PROVE RevisionCountsAccepted
  OBVIOUS
<1>1. Accepted = {}
  BY DEF Init, Accepted, NoRow
<1> QED
  BY <1>1, FS_EmptySet DEF Init, RevisionCountsAccepted

LEMMA RevisionStep ==
  TypeOK /\ RevisionCountsAccepted /\ [Next]_vars => RevisionCountsAccepted'
<1> SUFFICES ASSUME TypeOK, RevisionCountsAccepted, [Next]_vars
             PROVE  RevisionCountsAccepted'
  OBVIOUS
<1>1. CASE UNCHANGED answerVars
  BY <1>1 DEF answerVars, RevisionCountsAccepted, Accepted
<1>2. ASSUME NEW s \in Slots, call[s] \in SaveCall, ~Recorded(call[s]), Refused(s)
      PROVE  RevisionCountsAccepted'
  <2>1. PICK o \in {"idempotent_replay", "conflict", "late_sync_recovery_candidate"},
             n \in Nat : Record(call[s], o, n)
    BY <1>2 DEF Refused
  <2>2. Row(call[s]) \in Instances \X Mutations /\ log[Row(call[s])].outcome = "none"
    BY <1>2, <2>1, RecordRow DEF Recorded
  <2>3. \A r \in Instances \X Mutations :
          log'[r].outcome = "accepted" <=> log[r].outcome = "accepted"
    <3>1. /\ log'[Row(call[s])] = [outcome |-> o, at |-> call[s].at,
                                   payload |-> call[s].payload, resulting |-> n]
          /\ \A r \in Instances \X Mutations : r # Row(call[s]) => log'[r] = log[r]
      BY <1>2, <2>1, RecordRow
    <3>2. log'[Row(call[s])].outcome # "accepted"
      BY <2>1, <3>1
    <3> QED
      BY <2>2, <3>1, <3>2
  <2>4. Accepted' = Accepted
    BY <2>3 DEF Accepted
  <2> QED
    BY <1>2, <2>4 DEF Refused, RevisionCountsAccepted
<1>3. ASSUME NEW s \in Slots, call[s] \in SaveCall, ~Recorded(call[s]), Accept(call[s])
      PROVE  RevisionCountsAccepted'
  <2> DEFINE n == call[s].base.revision + 1
  <2>1. Record(call[s], "accepted", n) /\ revision' = revision + 1
    BY <1>3 DEF Accept
  <2>2. /\ Row(call[s]) \in Instances \X Mutations
        /\ log'[Row(call[s])].outcome = "accepted"
        /\ \A r \in Instances \X Mutations : r # Row(call[s]) => log'[r] = log[r]
    <3>1. /\ Row(call[s]) \in Instances \X Mutations
          /\ log'[Row(call[s])] = [outcome |-> "accepted", at |-> call[s].at,
                                   payload |-> call[s].payload, resulting |-> n]
          /\ \A r \in Instances \X Mutations : r # Row(call[s]) => log'[r] = log[r]
      <4> HIDE DEF n
      <4> QED
        BY <1>3, <2>1, RecordRow
    <3> QED
      BY <3>1
  <2>3. Row(call[s]) \notin Accepted
    BY <1>3 DEF Recorded, Accepted
  <2>4. Accepted' = Accepted \cup {Row(call[s])}
    BY <2>2, <2>3 DEF Accepted
  <2>5. Cardinality(Accepted') = Cardinality(Accepted) + 1
    BY <2>3, <2>4, AcceptedFinite, FS_AddElement
  <2> QED
    BY <2>1, <2>5 DEF RevisionCountsAccepted
<1> QED
  BY <1>1, <1>2, <1>3, AnswerStep

(* The attempt's revision counts its accepted mutations exactly, however   *)
(* many saves overlap and are retried.                                     *)
THEOREM RevisionCounts == Spec => []RevisionCountsAccepted
BY InitType, RevisionInit, StepType, RevisionStep, PTL DEF Spec

LEMMA MutationStep ==
  TypeOK /\ AnswerHasMutation /\ [Next]_vars => AnswerHasMutation'
<1> SUFFICES ASSUME TypeOK, AnswerHasMutation, [Next]_vars, NEW q \in Instances,
                    answers'[q].revision # 0
             PROVE  \E m \in Mutations :
                      /\ log'[<<q, m>>].outcome = "accepted"
                      /\ log'[<<q, m>>].resulting = answers'[q].revision
                      /\ log'[<<q, m>>].payload = answers'[q].payload
  BY DEF AnswerHasMutation
<1>1. CASE answers'[q] = answers[q]
  <2>1. PICK m \in Mutations : /\ log[<<q, m>>].outcome = "accepted"
                               /\ log[<<q, m>>].resulting = answers[q].revision
                               /\ log[<<q, m>>].payload = answers[q].payload
    BY <1>1 DEF AnswerHasMutation
  <2>2. ASSUME NEW s \in Slots, call[s] \in SaveCall, ~Recorded(call[s]),
               NEW o, NEW n, Record(call[s], o, n)
        PROVE  log'[<<q, m>>] = log[<<q, m>>]
    <3>1. <<q, m>> # Row(call[s])
      BY <2>1, <2>2 DEF Recorded
    <3> QED
      BY <2>2, <3>1, RecordRow
  <2>3. log'[<<q, m>>] = log[<<q, m>>]
    BY <2>2, AnswerStep DEF answerVars, Refused, Accept
  <2> QED
    BY <1>1, <2>1, <2>3
<1>2. ASSUME NEW s \in Slots, call[s] \in SaveCall, Accept(call[s]), call[s].q = q
      PROVE  log'[<<q, call[s].m>>] = [outcome |-> "accepted", at |-> call[s].at,
                                       payload |-> answers'[q].payload,
                                       resulting |-> answers'[q].revision]
  <2>1. log'[Row(call[s])] = [outcome |-> "accepted", at |-> call[s].at,
                              payload |-> call[s].payload,
                              resulting |-> call[s].base.revision + 1]
    BY <1>2, RecordRow DEF Accept
  <2>2. answers'[q] = [revision |-> call[s].base.revision + 1,
                       payload |-> call[s].payload]
    BY <1>2 DEF Accept, TypeOK, Papers
  <2> QED
    BY <1>2, <2>1, <2>2 DEF Row
<1>3. ASSUME NEW s \in Slots, call[s] \in SaveCall, Accept(call[s]), call[s].q # q
      PROVE  answers'[q] = answers[q]
  BY <1>3 DEF Accept, TypeOK, Papers
<1>4. CASE answers'[q] # answers[q]
  <2>1. PICK s \in Slots : call[s] \in SaveCall /\ Accept(call[s])
    BY <1>4, AnswerStep DEF answerVars, Refused
  <2>2. call[s].q = q /\ call[s].m \in Mutations
    BY <1>3, <1>4, <2>1 DEF SaveCall
  <2>3. log'[<<q, call[s].m>>] = [outcome |-> "accepted", at |-> call[s].at,
                                  payload |-> answers'[q].payload,
                                  resulting |-> answers'[q].revision]
    BY <1>2, <2>1, <2>2, Zenon
  <2>4. /\ log'[<<q, call[s].m>>].outcome = "accepted"
        /\ log'[<<q, call[s].m>>].resulting = answers'[q].revision
        /\ log'[<<q, call[s].m>>].payload = answers'[q].payload
    BY <2>3
  <2> QED
    BY <2>2, <2>4
<1> QED
  BY <1>1, <1>4

(* Every stored answer is the outcome of an accepted mutation of the log.  *)
THEOREM AnswersHaveMutations == Spec => []AnswerHasMutation
<1>1. Init => AnswerHasMutation
  BY DEF Init, AnswerHasMutation, Blank
<1> QED
  BY <1>1, InitType, StepType, MutationStep, PTL DEF Spec


----------------------------------------------------------------------------
(* Deadlines.                                                              *)

(* What a request found of the clock when it arrived.                      *)
TimelyCall(s) ==
  /\ call[s].pc \in {"cas", "commit"} => call[s].at < Deadline
  /\ call[s].pc = "late" => Deadline <= call[s].at /\ call[s].at < Cutoff
  /\ call[s].pc \in {"freeze", "submit"} => (call[s].by = "timeout" => call[s].at >= Cutoff)

TimelyRow(r) ==
  /\ log[r].outcome = "accepted" => log[r].at < Deadline
  /\ log[r].outcome = "late_sync_recovery_candidate" =>
       Deadline <= log[r].at /\ log[r].at < Cutoff

TimelySubmission == submission.by = "timeout" => submission.at >= Cutoff

DependsOnDeadline == {"cas", "commit", "late", "freeze", "submit"}

(* Until the attempt is inserted nothing depends on its deadline, and it   *)
(* does not move afterwards.                                               *)
DeadlineInv ==
  /\ \A r \in Instances \X Mutations : TimelyRow(r)
  /\ TimelySubmission
  /\ \A s \in Slots : TimelyCall(s)
  /\ status = "none" =>
       /\ \A r \in Instances \X Mutations : log[r].outcome = "none"
       /\ submission.by = "none"
       /\ \A s \in Slots : call[s].pc \notin DependsOnDeadline

LEMMA DeadlineInit == Init => DeadlineInv
BY DEF Init, DeadlineInv, TimelyRow, TimelySubmission, TimelyCall, DependsOnDeadline,
       NoRow, NoSubmission, Idle

LEMMA CutoffStands == UNCHANGED startedAt => UNCHANGED <<Deadline, Cutoff>>
BY DEF Deadline, Cutoff

(* A step that leaves the deadline alone: it is enough to look at the call *)
(* that took it and at what it wrote.                                      *)
LEMMA DeadlineLocal ==
  ASSUME TypeOK, DeadlineInv, NEW s \in Slots,
         UNCHANGED startedAt, status' # "none",
         \A t \in Slots : t # s => call'[t] = call[t],
         TimelyCall(s)',
         \A r \in Instances \X Mutations : log'[r] = log[r] \/ TimelyRow(r)',
         UNCHANGED submission \/ TimelySubmission'
  PROVE  DeadlineInv'
<1>1. UNCHANGED <<Deadline, Cutoff>>
  BY CutoffStands
<1>2. ASSUME NEW t \in Slots PROVE TimelyCall(t)'
  BY <1>1 DEF DeadlineInv, TimelyCall
<1>3. ASSUME NEW r \in Instances \X Mutations PROVE TimelyRow(r)'
  BY <1>1 DEF DeadlineInv, TimelyRow
<1>4. TimelySubmission'
  BY <1>1 DEF DeadlineInv, TimelySubmission
<1> QED
  BY <1>2, <1>3, <1>4 DEF DeadlineInv

(* A step that writes nothing the deadline bears on, or that is before     *)
(* there is one, and leaves a call that does not depend on it.             *)
LEMMA DeadlineIdle ==
  ASSUME TypeOK, DeadlineInv, NEW s \in Slots,
         UNCHANGED <<log, submission>>,
         status = "none" \/ (UNCHANGED startedAt /\ status' # "none"),
         \A t \in Slots : t # s => call'[t] = call[t],
         call'[s].pc \notin DependsOnDeadline
  PROVE  DeadlineInv'
<1>1. TimelyCall(s)'
  BY DEF TimelyCall, DependsOnDeadline
<1>2. CASE status = "none"
  <2>1. /\ \A r \in Instances \X Mutations : log'[r].outcome = "none"
        /\ submission'.by = "none"
        /\ \A t \in Slots : call'[t].pc \notin DependsOnDeadline
    BY <1>2 DEF DeadlineInv
  <2> QED
    BY <2>1 DEF DeadlineInv, TimelyRow, TimelySubmission, TimelyCall, DependsOnDeadline
<1>3. CASE UNCHANGED startedAt /\ status' # "none"
  BY <1>1, <1>3, DeadlineLocal
<1> QED
  BY <1>2, <1>3

LEMMA AdvanceAt ==
  ASSUME TypeOK, NEW s \in Slots, NEW pc, Advance(s, pc), call[s] \in SaveCall
  PROVE  call'[s].at = call[s].at
BY StepToOthers DEF TypeOK, Advance, SaveCall

LEMMA DeadlineStep == TypeOK /\ DeadlineInv /\ [Next]_vars => DeadlineInv'
<1> SUFFICES ASSUME TypeOK, DeadlineInv, [Next]_vars PROVE DeadlineInv'
  OBVIOUS
<1>0. call \in [Slots -> Call]
  BY DEF TypeOK
<1>1. CASE UNCHANGED vars \/ Tick
  <2>1. UNCHANGED <<startedAt, status, log, submission, call>>
    BY <1>1 DEF vars, Tick, attemptVars, answerVars, finalVars
  <2> QED
    BY <2>1 DEF DeadlineInv, TimelyRow, TimelySubmission, TimelyCall, Cutoff, Deadline
<1>2. ASSUME NEW s \in Slots, Arrive(s) PROVE DeadlineInv'
  <2>1. /\ UNCHANGED <<startedAt, status, log, submission>>
        /\ \A t \in Slots : t # s => call'[t] = call[t]
    BY <1>2, ArriveTo DEF attemptVars, answerVars, finalVars
  <2>2. CASE call'[s].pc = "freeze"
    <3>1. status = "in_progress" /\ (call'[s].by = "timeout" => call'[s].at >= Cutoff)
      BY <1>2, <2>2, ArriveTo
    <3>2. TimelyCall(s)'
      BY <2>1, <2>2, <3>1, CutoffStands DEF TimelyCall
    <3> QED
      BY <2>1, <3>1, <3>2, DeadlineLocal
  <2>3. CASE call'[s].pc # "freeze"
    <3>1. call'[s].pc \notin DependsOnDeadline
      BY <1>2, <2>3, ArriveTo DEF DependsOnDeadline
    <3> QED
      BY <2>1, <3>1, DeadlineIdle
  <2> QED
    BY <2>2, <2>3
<1>3. ASSUME NEW s \in Slots, Crash(s) PROVE DeadlineInv'
  BY <1>3, CrashTo, DeadlineIdle DEF attemptVars, answerVars, finalVars, Idle,
     DependsOnDeadline
<1>4. ASSUME NEW s \in Slots, Proceed(s) PROVE DeadlineInv'
  <2>1. CASE InsertAttempt(s) \/ Activate(s) \/ IssueLease(s) \/ SetCookie(s)
             \/ RevokeLease(s) \/ RenewLease(s) \/ Score(s) \/ MarkDelivered(s)
    <3>1. /\ UNCHANGED <<log, submission>>
          /\ status = "none" \/ (UNCHANGED startedAt /\ status' # "none")
      BY <2>1 DEF InsertAttempt, Activate, IssueLease, SetCookie, RevokeLease, RenewLease,
         Score, MarkDelivered, attemptVars, answerVars, finalVars
    <3>2. /\ call'[s].pc \notin DependsOnDeadline
          /\ \A t \in Slots : t # s => call'[t] = call[t]
      <4>1. CASE IssueLease(s)
        BY <1>0, <4>1, StepToOthers, EndTo DEF IssueLease, DependsOnDeadline
      <4>2. CASE ~IssueLease(s)
        <5>1. \E pc \in {"activate", "first_lease", "issue", "check", "mark"} :
                Advance(s, pc) \/ End(s)
          BY <2>1, <4>2 DEF InsertAttempt, Activate, SetCookie, RevokeLease, RenewLease,
             Score, MarkDelivered
        <5> QED
          BY <5>1, AdvanceTo, EndTo DEF DependsOnDeadline
      <4> QED
        BY <4>1, <4>2
    <3> QED
      BY <3>1, <3>2, DeadlineIdle
  <2>2. CASE CheckSave(s)
    <3>1. call[s] \in SaveCall /\ UNCHANGED <<startedAt, status, log, submission>>
      BY <1>0, <2>2, CallKind DEF CheckSave, attemptVars, answerVars, finalVars
    <3>2. CASE End(s)
      BY <3>1, <3>2, EndTo, DeadlineIdle DEF DependsOnDeadline
    <3>3. CASE ~End(s)
      <4>1. /\ status = "in_progress" /\ call[s].at < Cutoff
            /\ Advance(s, IF call[s].at < Deadline THEN "cas" ELSE "late")
        BY <2>2, <3>3 DEF CheckSave
      <4>2. /\ call'[s].pc = (IF call[s].at < Deadline THEN "cas" ELSE "late")
            /\ call'[s].at = call[s].at
            /\ \A t \in Slots : t # s => call'[t] = call[t]
        BY <3>1, <4>1, AdvanceTo, AdvanceAt
      <4>3. call[s].at \in Nat /\ Deadline \in Nat /\ Cutoff \in Nat
        BY <3>1, TimeAssumption DEF SaveCall, TypeOK, Deadline, Cutoff
      <4>4. TimelyCall(s)'
        BY <3>1, <4>1, <4>2, <4>3, CutoffStands DEF TimelyCall
      <4> QED
        BY <3>1, <4>1, <4>2, <4>4, DeadlineLocal
    <3> QED
      BY <3>2, <3>3
  <2>3. CASE ReadAnswer(s)
    <3>1. /\ call'[s].pc = "commit" /\ call'[s].at = call[s].at /\ call[s].pc = "cas"
          /\ UNCHANGED <<startedAt, status, log, submission>>
          /\ \A t \in Slots : t # s => call'[t] = call[t]
      BY <2>3, ReadAnswerTo DEF ReadAnswer, attemptVars, answerVars, finalVars
    <3>2. status # "none" /\ call[s].at < Deadline
      BY <3>1 DEF DeadlineInv, DependsOnDeadline, TimelyCall
    <3>3. TimelyCall(s)'
      BY <3>1, <3>2, CutoffStands DEF TimelyCall
    <3> QED
      BY <3>1, <3>2, <3>3, DeadlineLocal
  <2>4. CASE StoreLateCandidate(s) \/ CommitSave(s)
    <3> DEFINE c == call[s]
    <3>1. /\ c \in SaveCall /\ c.pc \in {"late", "commit"} /\ status # "none"
          /\ TimelyCall(s) /\ UNCHANGED <<startedAt, status, submission>>
      BY <1>0, <2>4, CallKind DEF StoreLateCandidate, CommitSave, DeadlineInv,
         DependsOnDeadline, attemptVars, finalVars
    <3>2. call'[s].pc = "idle" /\ \A t \in Slots : t # s => call'[t] = call[t]
      BY <2>4, EndTo DEF StoreLateCandidate, CommitSave
    <3>3. ASSUME NEW o, NEW n, Record(c, o, n),
                 c.pc = "late" => o = "late_sync_recovery_candidate",
                 c.pc = "commit" => o \in {"accepted", "idempotent_replay", "conflict"}
          PROVE  \A r \in Instances \X Mutations : log'[r] = log[r] \/ TimelyRow(r)'
      <4>1. \A r \in Instances \X Mutations : r # Row(c) => log'[r] = log[r]
        BY <3>1, <3>3, RecordRow
      <4>2. log'[Row(c)] = [outcome |-> o, at |-> c.at, payload |-> c.payload,
                            resulting |-> n]
        BY <3>1, <3>3, RecordRow
      <4>3. ASSUME NEW r \in Instances \X Mutations, r = Row(c) PROVE TimelyRow(r)'
        <5>1. log'[r].outcome = o /\ log'[r].at = c.at
          BY <4>2, <4>3
        <5> QED
          BY <3>1, <3>3, <5>1, CutoffStands DEF TimelyRow, TimelyCall
      <4> QED
        BY <4>1, <4>3
    <3>4. \A r \in Instances \X Mutations : log'[r] = log[r] \/ TimelyRow(r)'
      <4>1. CASE UNCHANGED log
        BY <4>1
      <4>2. CASE StoreLateCandidate(s) /\ ~UNCHANGED log
        BY <3>3, <4>2 DEF StoreLateCandidate
      <4>3. CASE CommitSave(s) /\ ~UNCHANGED log
        <5>1. CasOutcome(c) \in {"accepted", "idempotent_replay", "conflict"} /\ c.pc = "commit"
          BY <4>3 DEF CasOutcome, CommitSave
        <5>2. Accept(c) \/ Record(c, CasOutcome(c), c.base.revision)
          BY <4>3 DEF CommitSave, answerVars
        <5> QED
          BY <3>3, <5>1, <5>2 DEF Accept
      <4> QED
        BY <2>4, <4>1, <4>2, <4>3
    <3>5. TimelyCall(s)'
      BY <3>2 DEF TimelyCall
    <3> QED
      BY <3>1, <3>2, <3>4, <3>5, DeadlineLocal
  <2>5. CASE Freeze(s)
    <3>1. /\ call'[s].pc = "submit" /\ call'[s].at = call[s].at /\ call'[s].by = call[s].by
          /\ call[s].pc = "freeze" /\ UNCHANGED <<startedAt, status, log, submission>>
          /\ \A t \in Slots : t # s => call'[t] = call[t]
      BY <2>5, FreezeTo DEF Freeze, attemptVars, answerVars, finalVars
    <3>2. status # "none" /\ TimelyCall(s)
      BY <3>1 DEF DeadlineInv, DependsOnDeadline
    <3>3. TimelyCall(s)'
      BY <3>1, <3>2, CutoffStands DEF TimelyCall
    <3> QED
      BY <3>1, <3>2, <3>3, DeadlineLocal
  <2>6. CASE CommitSubmission(s)
    <3>1. /\ call[s] \in SubmitCall /\ call[s].pc = "submit"
          /\ UNCHANGED <<startedAt, log>>
          /\ \/ UNCHANGED <<submission, status>>
             \/ /\ submission' = [by |-> call[s].by, paper |-> call[s].paper, at |-> call[s].at]
                /\ status' = "submitted"
      BY <1>0, <2>6, CallKind DEF CommitSubmission, answerVars
    <3>2. /\ call'[s].pc \in {"score", "idle"}
          /\ \A t \in Slots : t # s => call'[t] = call[t]
      <4>1. StepTo(s, [pc |-> "score"]) \/ End(s)
        BY <2>6 DEF CommitSubmission, AfterSubmit
      <4> QED
        BY <1>0, <4>1, EndTo, StepToOthers
    <3>3. status # "none" /\ TimelyCall(s)
      BY <3>1 DEF DeadlineInv, DependsOnDeadline
    <3>4. UNCHANGED submission \/ TimelySubmission'
      BY <3>1, <3>3, CutoffStands DEF TimelyCall, TimelySubmission
    <3>5. TimelyCall(s)' /\ status' # "none"
      BY <3>1, <3>2, <3>3 DEF TimelyCall
    <3> QED
      BY <3>1, <3>2, <3>4, <3>5, DeadlineLocal
  <2> QED
    BY <1>4, <2>1, <2>2, <2>3, <2>4, <2>5, <2>6 DEF Proceed
<1> QED
  BY <1>1, <1>2, <1>3, <1>4 DEF Next

(* No answer that arrived at the deadline or later enters the answer set,  *)
(* none after the cutoff is kept, and no attempt is closed for its learner *)
(* before the cutoff.                                                      *)
THEOREM DeadlinesAreKept == Spec => []DeadlinesHold
<1>1. Spec => [](TypeOK /\ DeadlineInv)
  BY InitType, DeadlineInit, StepType, DeadlineStep, PTL DEF Spec
<1>2. DeadlineInv => DeadlinesHold
  BY DEF DeadlineInv, DeadlinesHold, TimelyRow, TimelySubmission
<1> QED
  BY <1>1, <1>2, PTL

=============================================================================
