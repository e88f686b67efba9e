-------------------------- MODULE CorrectionProofs --------------------------
(***************************************************************************)
(* Proofs about Correction, for any number of attempts, cases, staff,      *)
(* policies and concurrent deciders, and any bound on the decisions, and   *)
(* about Ranking, for any generations, scores and times of submission.     *)
(***************************************************************************)
EXTENDS Ranking, FiniteSetTheorems, WellFoundedInduction, TLAPS

(* What a case in the table or in a decider's hands was checked against:   *)
(* it challenges a version that exists, by another policy.                 *)
CaseGrounded ==
  \A r \in cases : /\ r.base \in Versions(r.attempt)
                   /\ r.policy # versions[r.attempt][r.base].policy

(* A decider works on a case of the table. *)
DecidesCases ==
  \A s \in Deciders : deciding[s].pc \in {"check", "execute"} =>
    deciding[s].row \in cases

(* A decision about to be recorded as executed has its version. *)
HasVersion(c) == \E a \in Attempts : \E v \in Versions(a) : versions[a][v].by = c
ExecutedUnderWay ==
  \A s \in Deciders :
    deciding[s].pc = "record" /\ deciding[s].decision.execution = "executed" =>
      HasVersion(deciding[s].decision.case)

Inv == /\ OneCurrentResult /\ CorrectsWhatWasSeen /\ ExecutedHasVersion
       /\ CaseGrounded /\ DecidesCases /\ ExecutedUnderWay

----------------------------------------------------------------------------
(* t is q with its newest version superseded by row. *)
Supersedes(t, q, n, row) ==
  /\ t \in Seq(Row) /\ Len(t) = n + 1 /\ n = Len(q) /\ t[n + 1] = row
  /\ t[n].current = FALSE
  /\ \A i \in 1..n : t[i].policy = q[i].policy /\ t[i].by = q[i].by
  /\ \A i \in 1..(n - 1) : t[i] = q[i]

(* Superseding the newest version and adding the next one. *)
LEMMA NextVersion ==
  ASSUME NEW q \in Seq(Row), NEW n \in 1..Len(q), n + 1 \notin 1..Len(q), NEW row \in Row
  PROVE  Supersedes(Append([q EXCEPT ![n].current = FALSE], row), q, n, row)
<1> DEFINE u == [q EXCEPT ![n].current = FALSE]
<1>1. Len(q) \in Nat /\ n = Len(q) /\ q \in [1..n -> Row] /\ q[n] \in Row
  OBVIOUS
<1>2. [q[n] EXCEPT !.current = FALSE] \in Row
  BY <1>1 DEF Row
<1>3. u \in [1..n -> Row] /\ u[n] = [q[n] EXCEPT !.current = FALSE]
      /\ \A i \in 1..(n - 1) : u[i] = q[i]
  BY <1>1, <1>2
<1>4. u \in Seq(Row) /\ Len(u) = n
  BY <1>1, <1>3
<1>5. u[n].policy = q[n].policy /\ u[n].by = q[n].by /\ u[n].current = FALSE
  BY <1>1, <1>3 DEF Row
<1>6. \A i \in 1..n : u[i].policy = q[i].policy /\ u[i].by = q[i].by
  BY <1>3, <1>5
<1>7. Append(u, row) \in Seq(Row) /\ Len(Append(u, row)) = n + 1
      /\ Append(u, row)[n + 1] = row
      /\ \A i \in 1..n : Append(u, row)[i] = u[i]
  BY <1>4
<1> DEFINE t == Append(u, row)
<1> HIDE DEF u
<1>8. t \in Seq(Row) /\ Len(t) = n + 1 /\ n = Len(q) /\ t[n + 1] = row
  BY <1>1, <1>7
<1>9. t[n].current = FALSE
  BY <1>1, <1>5, <1>7
<1>10. \A i \in 1..n : t[i].policy = q[i].policy /\ t[i].by = q[i].by
  BY <1>6, <1>7
<1>11. \A i \in 1..(n - 1) : t[i] = q[i]
  BY <1>1, <1>3, <1>7
<1> QED
  BY <1>8, <1>9, <1>10, <1>11 DEF u, Supersedes

LEMMA InitType == Init => TypeOK
BY DEF Init, TypeOK, Deciding

LEMMA DecisionType ==
  ASSUME NEW r \in CaseRow, NEW n \in Nat, NEW x \in {"executed", "execution_failed"}
  PROVE  [pc |-> "record", decision |-> [case |-> r.id, outcome |-> "approved",
                                         execution |-> x, at |-> n]] \in Deciding
BY DEF CaseRow, Decision, Deciding

LEMMA RecordType ==
  ASSUME deciding \in [Deciders -> Deciding], NEW s \in Deciders,
         deciding[s].row \in CaseRow, deciding[s].at \in Nat,
         NEW x \in {"executed", "execution_failed"}, Record(s, x)
  PROVE  deciding' \in [Deciders -> Deciding]
<1>1. PICK t \in Deciding :
        t = [pc |-> "record", decision |-> [case |-> deciding[s].row.id, outcome |-> "approved",
                                            execution |-> x, at |-> deciding[s].at]]
  BY DecisionType
<1>2. deciding' = [deciding EXCEPT ![s] = t]
  BY <1>1 DEF Record, Goto
<1> QED
  BY <1>1, <1>2

(* What a decider holds, by its program counter. *)
LEMMA DecidingKind ==
  ASSUME TypeOK, NEW s \in Deciders
  PROVE  /\ deciding[s].pc \in {"check", "execute"} =>
              deciding[s] \in [pc : {"check", "execute"}, row : CaseRow, at : Nat]
         /\ deciding[s].pc = "record" =>
              deciding[s] \in [pc : {"record"}, decision : Decision]
BY DEF TypeOK, Deciding, Idle

(* The two outcomes of Execute. *)
LEMMA Executed ==
  ASSUME TypeOK, Inv, NEW s \in Deciders, Execute(s)
  PROVE  LET r == deciding[s].row
             n == r.base
             a == r.attempt
             row == [policy |-> r.policy, current |-> TRUE, by |-> r.id]
         IN /\ r \in CaseRow /\ r \in cases /\ deciding[s].at \in Nat /\ row \in Row
            /\ UNCHANGED <<cases, decisions, clock>>
            /\ \/ /\ n \in 1..Len(versions[a]) /\ n + 1 \notin 1..Len(versions[a])
                  /\ versions' = [versions EXCEPT ![a] = 
                         Append([versions[a] EXCEPT ![n].current = FALSE], row)]
                  /\ Record(s, "executed")
               \/ versions' = versions /\ Record(s, "execution_failed")
<1> DEFINE r == deciding[s].row
<1>1. deciding[s] \in [pc : {"check", "execute"}, row : CaseRow, at : Nat]
  BY DecidingKind DEF Execute
<1>2. r \in CaseRow /\ r \in cases /\ deciding[s].at \in Nat
  BY <1>1 DEF Inv, DecidesCases, Execute
<1>3. [policy |-> r.policy, current |-> TRUE, by |-> r.id] \in Row
  BY <1>2 DEF CaseRow, Row
<1>4. r.base \in DOMAIN versions[r.attempt] /\ versions[r.attempt] \in Seq(Row)
  BY <1>2 DEF Inv, CaseGrounded, Versions, TypeOK, CaseRow
<1>5. DOMAIN versions[r.attempt] = 1..Len(versions[r.attempt])
  BY <1>4
<1> QED
  BY <1>2, <1>3, <1>4, <1>5 DEF Execute, Superseded, Versions

LEMMA NextType == TypeOK /\ Inv /\ [Next]_vars => TypeOK'
<1> SUFFICES ASSUME TypeOK, Inv, [Next]_vars PROVE TypeOK'
  OBVIOUS
<1> USE DEF TypeOK
<1>1. CASE UNCHANGED vars
  BY <1>1 DEF vars
<1>2. ASSUME NEW a \in Attempts, ScoreFirst(a) PROVE TypeOK'
  <2>1. [policy |-> Pinned, current |-> TRUE, by |-> NoCase] \in Row
    BY PolicyAssumption DEF Row
  <2> QED
    BY <1>2, <2>1 DEF ScoreFirst
<1>3. ASSUME NEW c \in Cases, NEW a \in Attempts, NEW u \in Staff, NEW p \in Policies,
             RequestCorrection(c, a, u, p)
      PROVE  TypeOK'
  <2>1. PICK v \in Current(a) :
          cases' = cases \cup {[id |-> c, attempt |-> a, base |-> v, policy |-> p,
                                requester |-> u]}
    BY <1>3 DEF RequestCorrection
  <2>2. v \in Nat
    BY DEF Current, Versions
  <2> QED
    BY <1>3, <2>1, <2>2 DEF RequestCorrection, CaseRow
<1>4. ASSUME NEW s \in Deciders, Decide(s) PROVE TypeOK'
  <2>1. ASSUME NEW r \in cases, NEW u \in Staff, NEW o \in {"approved", "rejected"},
               DecideArrives(s, r, u, o)
        PROVE  TypeOK'
    <3>1. [pc |-> "check", row |-> r, at |-> clock] \in Deciding
      BY DEF Deciding
    <3>2. [pc |-> "record", decision |-> [case |-> r.id, outcome |-> "rejected",
                                          execution |-> "none", at |-> clock]] \in Deciding
      BY DEF Deciding, Decision, CaseRow
    <3> QED
      BY <2>1, <3>1, <3>2 DEF DecideArrives, Goto
  <2>2. CASE CheckCurrent(s)
    <3>1. deciding[s] \in [pc : {"check", "execute"}, row : CaseRow, at : Nat]
      BY <2>2, DecidingKind DEF CheckCurrent
    <3>2. [deciding[s] EXCEPT !.pc = "execute"] \in Deciding
      BY <3>1 DEF Deciding
    <3>3. Record(s, "execution_failed") => deciding' \in [Deciders -> Deciding]
      BY <3>1, RecordType DEF TypeOK
    <3> QED
      BY <2>2, <3>2, <3>3 DEF CheckCurrent, Goto
  <2>3. CASE Execute(s)
    <3> DEFINE r == deciding[s].row
               a == r.attempt
               row == [policy |-> r.policy, current |-> TRUE, by |-> r.id]
    <3>1. r \in CaseRow /\ a \in Attempts /\ versions[a] \in Seq(Row)
      BY <2>3, Executed DEF CaseRow
    <3>2. \A x \in {"executed", "execution_failed"} :
            Record(s, x) => deciding' \in [Deciders -> Deciding]
      <4>1. deciding[s].at \in Nat
        BY <2>3, Executed
      <4> QED
        BY <3>1, <4>1, RecordType DEF TypeOK
    <3>3. CASE versions' = versions /\ Record(s, "execution_failed")
      BY <2>3, <3>2, <3>3, Executed
    <3>4. CASE /\ r.base \in 1..Len(versions[a]) /\ r.base + 1 \notin 1..Len(versions[a])
               /\ versions' = [versions EXCEPT ![a] =
                     Append([versions[a] EXCEPT ![r.base].current = FALSE], row)]
               /\ Record(s, "executed")
      <4>1. Append([versions[a] EXCEPT ![r.base].current = FALSE], row) \in Seq(Row)
        <5>1. Supersedes(Append([versions[a] EXCEPT ![r.base].current = FALSE], row),
                         versions[a], r.base, row)
          BY <2>3, <3>1, <3>4, Executed, NextVersion
        <5> QED
          BY <5>1 DEF Supersedes
      <4> QED
        BY <2>3, <3>1, <3>2, <3>4, <4>1, Executed
    <3> QED
      BY <2>3, <3>3, <3>4, Executed
  <2>4. CASE RecordDecision(s)
    <3>1. deciding[s].decision \in Decision
      BY <2>4, DecidingKind DEF RecordDecision
    <3>2. Idle \in Deciding
      BY DEF Deciding
    <3> QED
      BY <2>4, <3>1, <3>2 DEF RecordDecision, Goto
  <2>5. CASE Crash(s)
    BY <2>5 DEF Crash, Goto, Deciding
  <2> QED
    BY <1>4, <2>1, <2>2, <2>3, <2>4, <2>5 DEF Decide
<1> QED
  BY <1>1, <1>2, <1>3, <1>4 DEF Next

----------------------------------------------------------------------------
LEMMA InitInv == Init => Inv
BY DEF Init, Inv, OneCurrentResult, CorrectsWhatWasSeen, ExecutedHasVersion, CaseGrounded,
       DecidesCases, ExecutedUnderWay, Versions, Idle

(* A first version. *)
LEMMA ScoreFirstInv ==
  ASSUME TypeOK, Inv, NEW a \in Attempts, ScoreFirst(a)
  PROVE  Inv'
<1> USE DEF Inv
<1> DEFINE first == [policy |-> Pinned, current |-> TRUE, by |-> NoCase]
<1>1. /\ versions[a] = <<>> /\ versions' = [versions EXCEPT ![a] = <<first>>]
      /\ UNCHANGED <<cases, decisions, clock, deciding>>
      /\ versions \in [Attempts -> Seq(Row)]
  BY DEF ScoreFirst, TypeOK
<1>2. /\ Len(versions'[a]) = 1 /\ DOMAIN versions'[a] = {1} /\ versions'[a][1].current
      /\ \A b \in Attempts : b # a => versions'[b] = versions[b]
      /\ DOMAIN versions[a] = {}
  <2>1. Len(<<first>>) = 1 /\ DOMAIN <<first>> = {1} /\ <<first>>[1] = first
    OBVIOUS
  <2>2. versions'[a] = <<first>> /\ \A b \in Attempts : b # a => versions'[b] = versions[b]
    BY <1>1
  <2>3. DOMAIN versions[a] = {}
    BY <1>1
  <2> HIDE DEF first
  <2>4. Len(versions'[a]) = 1 /\ DOMAIN versions'[a] = {1} /\ versions'[a][1] = first
    BY <2>1, <2>2
  <2> QED
    BY <2>2, <2>3, <2>4 DEF first
<1>3. OneCurrentResult'
  <2>1. ASSUME NEW b \in Attempts, versions'[b] # <<>>
        PROVE  Current(b)' = {Len(versions'[b])}
    <3>1. CASE b = a
      BY <1>2, <3>1 DEF Current, Versions
    <3>2. CASE b # a
      BY <1>2, <2>1, <3>2 DEF OneCurrentResult, Current, Versions
    <3> QED
      BY <3>1, <3>2
  <2> QED
    BY <2>1 DEF OneCurrentResult
<1>4. CorrectsWhatWasSeen'
  <2>1. ASSUME NEW b \in Attempts, NEW v \in Versions(b)' \ {1}
        PROVE  b # a /\ v \in Versions(b) \ {1} /\ versions'[b] = versions[b]
    BY <1>2, <2>1 DEF Versions
  <2>2. ASSUME NEW b \in Attempts, NEW v \in Versions(b)' \ {1}
        PROVE  \E k \in cases : /\ k.id = versions'[b][v].by /\ k.attempt = b /\ k.base = v - 1
                                 /\ k.policy = versions'[b][v].policy
                                 /\ k.policy # versions'[b][v - 1].policy
    BY <2>1, <2>2 DEF CorrectsWhatWasSeen
  <2>3. cases' = cases
    BY <1>1
  <2> QED
    BY <2>2, <2>3 DEF CorrectsWhatWasSeen, Versions
<1>5. \A c : HasVersion(c) => HasVersion(c)'
  BY <1>1, <1>2 DEF HasVersion, Versions
<1>6. ExecutedHasVersion' /\ ExecutedUnderWay' /\ DecidesCases'
  <2>1. ExecutedHasVersion'
    BY <1>1, <1>5 DEF ExecutedHasVersion, HasVersion
  <2>2. ExecutedUnderWay'
    BY <1>1, <1>5 DEF ExecutedUnderWay
  <2>3. DecidesCases'
    BY <1>1 DEF DecidesCases
  <2> QED
    BY <2>1, <2>2, <2>3
<1>7. CaseGrounded'
  BY <1>1, <1>2 DEF CaseGrounded, Versions, TypeOK, CaseRow
<1> QED
  BY <1>3, <1>4, <1>6, <1>7

LEMMA RequestInv ==
  ASSUME TypeOK, Inv, NEW c \in Cases, NEW a \in Attempts, NEW u \in Staff,
         NEW p \in Policies, RequestCorrection(c, a, u, p)
  PROVE  Inv'
<1> USE DEF Inv
<1>1. PICK v \in Current(a) :
        /\ p # versions[a][v].policy
        /\ cases' = cases \cup {[id |-> c, attempt |-> a, base |-> v, policy |-> p,
                                 requester |-> u]}
  BY DEF RequestCorrection
<1>2. UNCHANGED <<versions, decisions, clock, deciding>>
  BY DEF RequestCorrection
<1>3. OneCurrentResult' /\ ExecutedHasVersion' /\ ExecutedUnderWay'
  BY <1>2 DEF OneCurrentResult, Current, Versions, ExecutedHasVersion, ExecutedUnderWay,
              HasVersion
<1>4. CorrectsWhatWasSeen'
  BY <1>1, <1>2 DEF CorrectsWhatWasSeen, Versions
<1>5. CaseGrounded'
  BY <1>1, <1>2 DEF CaseGrounded, Current, Versions
<1>6. DecidesCases'
  BY <1>1, <1>2 DEF DecidesCases
<1> QED
  BY <1>3, <1>4, <1>5, <1>6

(* A decider's step that leaves versions and cases alone. *)
LEMMA QuietInv ==
  ASSUME TypeOK, Inv, NEW s \in Deciders, NEW d, UNCHANGED <<versions, cases>>, Goto(s, d),
         d.pc \in {"check", "execute"} => d.row \in cases,
         d.pc = "record" /\ d.decision.execution = "executed" => HasVersion(d.decision.case),
         \A x \in decisions' : x \in decisions \/ (x.execution = "executed" => HasVersion(x.case))
  PROVE  Inv'
<1> USE DEF Inv
<1>1. deciding' = [deciding EXCEPT ![s] = d] /\ deciding \in [Deciders -> Deciding]
  BY DEF Goto, TypeOK
<1>2. OneCurrentResult' /\ CorrectsWhatWasSeen' /\ CaseGrounded'
  BY DEF OneCurrentResult, CorrectsWhatWasSeen, CaseGrounded, Current, Versions
<1>3. \A c : HasVersion(c) => HasVersion(c)'
  BY DEF HasVersion, Versions
<1>4. ExecutedHasVersion'
  BY <1>3 DEF ExecutedHasVersion, HasVersion
<1>5. DecidesCases'
  BY <1>1 DEF DecidesCases
<1>6. ExecutedUnderWay'
  BY <1>1, <1>3 DEF ExecutedUnderWay
<1> QED
  BY <1>2, <1>4, <1>5, <1>6

(* What is known of versions when a case's correction replaced its base. *)
Replaced(a, n, row) ==
  /\ DOMAIN versions[a] = 1..n /\ DOMAIN versions'[a] = 1..(n + 1)
  /\ Len(versions[a]) = n /\ Len(versions'[a]) = n + 1
  /\ versions'[a][n + 1] = row /\ versions'[a][n].current = FALSE
  /\ \A i \in 1..n : /\ versions'[a][i].policy = versions[a][i].policy
                     /\ versions'[a][i].by = versions[a][i].by
  /\ \A i \in 1..(n - 1) : versions'[a][i] = versions[a][i]
  /\ \A b \in Attempts : b # a => versions'[b] = versions[b]

LEMMA ReplacedCurrent ==
  ASSUME OneCurrentResult, NEW a \in Attempts, NEW n \in Nat \ {0}, NEW row, row.current = TRUE,
         versions[a] # <<>>, Replaced(a, n, row)
  PROVE  OneCurrentResult'
<1> USE DEF Replaced
<1>1. ASSUME NEW b \in Attempts, versions'[b] # <<>>
      PROVE  Current(b)' = {Len(versions'[b])}
  <2>1. CASE b # a
    BY <1>1, <2>1 DEF OneCurrentResult, Current, Versions
  <2>2. CASE b = a
    <3>1. Current(a) = {n}
      BY DEF OneCurrentResult
    <3>2. ASSUME NEW i \in 1..(n - 1) PROVE ~versions'[a][i].current
      <4>1. i \in DOMAIN versions[a] /\ i \notin {n}
        OBVIOUS
      <4>2. ~versions[a][i].current
        BY <3>1, <4>1 DEF Current, Versions
      <4>3. versions'[a][i] = versions[a][i]
        OBVIOUS
      <4> QED
        BY <4>2, <4>3
    <3>3. Current(a)' = {n + 1}
      <4>1. \A i \in 1..(n + 1) : i \in 1..(n - 1) \/ i = n \/ i = n + 1
        OBVIOUS
      <4>2. \A i \in 1..(n + 1) : versions'[a][i].current <=> i = n + 1
        BY <3>2, <4>1
      <4> QED
        BY <4>2 DEF Current, Versions
    <3> QED
      BY <2>2, <3>3
  <2> QED
    BY <2>1, <2>2
<1> QED
  BY <1>1 DEF OneCurrentResult

LEMMA ReplacedSeen ==
  ASSUME CorrectsWhatWasSeen, NEW a \in Attempts, NEW n \in Nat \ {0}, NEW row,
         \E k \in cases : /\ k.id = row.by /\ k.attempt = a /\ k.base = n
                          /\ k.policy = row.policy,
         row.policy # versions[a][n].policy, cases' = cases, Replaced(a, n, row)
  PROVE  CorrectsWhatWasSeen'
<1> USE DEF Replaced
<1>1. ASSUME NEW b \in Attempts, NEW v \in DOMAIN versions'[b], v # 1
      PROVE  \E k \in cases : /\ k.id = versions'[b][v].by /\ k.attempt = b /\ k.base = v - 1
                               /\ k.policy = versions'[b][v].policy
                               /\ k.policy # versions'[b][v - 1].policy
  <2>1. CASE b # a
    BY <1>1, <2>1 DEF CorrectsWhatWasSeen, Versions
  <2>2. CASE b = a /\ v # n + 1
    <3>1. v \in 1..n \ {1} /\ v - 1 \in 1..n
      BY <1>1, <2>2
    <3>2. \E k \in cases : /\ k.id = versions[a][v].by /\ k.attempt = a /\ k.base = v - 1
                            /\ k.policy = versions[a][v].policy
                            /\ k.policy # versions[a][v - 1].policy
      <4>1. v \in Versions(a) \ {1}
        BY <3>1 DEF Versions
      <4> QED
        BY <4>1 DEF CorrectsWhatWasSeen
    <3> QED
      BY <2>2, <3>1, <3>2
  <2>3. CASE b = a /\ v = n + 1
    <3>1. v - 1 = n /\ n \in 1..n
      BY <2>3
    <3>2. row.policy # versions'[a][n].policy
      BY <3>1
    <3> QED
      BY <2>3, <3>1, <3>2
  <2> QED
    BY <2>1, <2>2, <2>3
<1> QED
  BY <1>1 DEF CorrectsWhatWasSeen, Versions

LEMMA ReplacedKeeps ==
  ASSUME NEW a \in Attempts, NEW n \in Nat \ {0}, NEW row, Replaced(a, n, row)
  PROVE  /\ HasVersion(row.by)'
         /\ \A c : HasVersion(c) => HasVersion(c)'
         /\ \A b \in Attempts : \A v \in Versions(b) :
              v \in Versions(b)' /\ versions'[b][v].policy = versions[b][v].policy
<1> USE DEF Replaced
<1>1. n + 1 \in 1..(n + 1)
  OBVIOUS
<1>2. HasVersion(row.by)'
  BY <1>1 DEF HasVersion, Versions
<1>3. ASSUME NEW b \in Attempts, NEW v \in DOMAIN versions[b]
      PROVE  /\ v \in DOMAIN versions'[b]
             /\ versions'[b][v].by = versions[b][v].by
             /\ versions'[b][v].policy = versions[b][v].policy
  <2>1. CASE b # a
    BY <1>3, <2>1
  <2>2. CASE b = a
    BY <1>3, <2>2
  <2> QED
    BY <2>1, <2>2
<1>4. \A c : HasVersion(c) => HasVersion(c)'
  BY <1>3 DEF HasVersion, Versions
<1> QED
  BY <1>2, <1>3, <1>4 DEF Versions

(* A correction that replaces its base. *)
LEMMA ReplaceFits ==
  ASSUME TypeOK, Inv, NEW s \in Deciders, Execute(s), versions' # versions
  PROVE  \E r \in cases, n \in Nat \ {0}, a \in Attempts, row \in Row :
           /\ r = deciding[s].row /\ n = r.base /\ a = r.attempt
           /\ row = [policy |-> r.policy, current |-> TRUE, by |-> r.id]
           /\ Record(s, "executed") /\ UNCHANGED <<cases, decisions, clock>>
           /\ versions[a] # <<>> /\ Replaced(a, n, row)
<1> USE DEF Inv
<1>1. PICK r \in cases : r = deciding[s].row
  BY Executed
<1>2. PICK n : n = r.base
  OBVIOUS
<1>3. PICK a : a = r.attempt
  OBVIOUS
<1>4. PICK row : row = [policy |-> r.policy, current |-> TRUE, by |-> r.id]
  OBVIOUS
<1>5. /\ r \in CaseRow /\ row \in Row /\ n \in 1..Len(versions[a]) /\ n + 1 \notin 1..Len(versions[a])
      /\ versions' = [versions EXCEPT ![a] =
            Append([versions[a] EXCEPT ![n].current = FALSE], row)]
      /\ Record(s, "executed")
      /\ UNCHANGED <<cases, decisions, clock>>
  BY <1>1, <1>2, <1>3, <1>4, Executed
<1>6. a \in Attempts /\ versions[a] \in Seq(Row) /\ n \in Nat \ {0} /\ versions[a] # <<>>
  BY <1>2, <1>3, <1>5 DEF CaseRow, TypeOK
<1>7. Replaced(a, n, row)
  <2> DEFINE t == Append([versions[a] EXCEPT ![n].current = FALSE], row)
  <2>1. Supersedes(t, versions[a], n, row)
    <3>1. n \in 1..Len(versions[a]) /\ n + 1 \notin 1..Len(versions[a]) /\ row \in Row
      BY <1>5
    <3> QED
      BY <1>6, <3>1, NextVersion
  <2>2. versions'[a] = t /\ \A b \in Attempts : b # a => versions'[b] = versions[b]
    BY <1>5, <1>6 DEF TypeOK
  <2> HIDE DEF t
  <2>3. DOMAIN versions[a] = 1..n /\ DOMAIN t = 1..(n + 1)
    BY <1>6, <2>1 DEF Supersedes
  <2> QED
    BY <2>1, <2>2, <2>3 DEF Replaced, Supersedes
<1> QED
  BY <1>1, <1>2, <1>3, <1>4, <1>5, <1>6, <1>7

LEMMA ReplaceInv ==
  ASSUME TypeOK, Inv, NEW s \in Deciders, Execute(s), versions' # versions
  PROVE  Inv'
<1> USE DEF Inv
<1>1. PICK r \in cases, n \in Nat \ {0}, a \in Attempts, row \in Row :
        /\ r = deciding[s].row /\ n = r.base /\ a = r.attempt
        /\ row = [policy |-> r.policy, current |-> TRUE, by |-> r.id]
        /\ Record(s, "executed") /\ UNCHANGED <<cases, decisions, clock>>
        /\ versions[a] # <<>> /\ Replaced(a, n, row)
  BY ReplaceFits
<1>8. OneCurrentResult'
  BY <1>1, ReplacedCurrent
<1>9. r.policy # versions[a][n].policy
  BY <1>1 DEF CaseGrounded
<1>10. CorrectsWhatWasSeen'
  <2>1. /\ row.by = r.id /\ row.policy = r.policy /\ row.policy # versions[a][n].policy
        /\ cases' = cases
    BY <1>1, <1>9
  <2>2. \E k \in cases : k.id = row.by /\ k.attempt = a /\ k.base = n /\ k.policy = row.policy
    BY <1>1, <2>1
  <2> QED
    BY <1>1, <2>1, <2>2, ReplacedSeen
<1>11. /\ HasVersion(r.id)' /\ \A c : HasVersion(c) => HasVersion(c)'
       /\ \A b \in Attempts : \A v \in Versions(b) :
            v \in Versions(b)' /\ versions'[b][v].policy = versions[b][v].policy
  BY <1>1, ReplacedKeeps
<1>12. ExecutedHasVersion'
  BY <1>1, <1>11 DEF ExecutedHasVersion, HasVersion
<1>13. CaseGrounded'
  <2>1. ASSUME NEW k \in cases
        PROVE  k.base \in Versions(k.attempt)' /\ k.policy # versions'[k.attempt][k.base].policy
    BY <1>11, <2>1 DEF CaseGrounded, TypeOK, CaseRow
  <2> QED
    BY <1>1, <2>1 DEF CaseGrounded
<1>14. PICK d : /\ d = [case |-> r.id, outcome |-> "approved", execution |-> "executed",
                        at |-> deciding[s].at]
                /\ deciding' = [deciding EXCEPT ![s] = [pc |-> "record", decision |-> d]]
  BY <1>1 DEF Record, Goto
<1>15. /\ deciding \in [Deciders -> Deciding]
       /\ \A x \in Deciders : x # s => deciding'[x] = deciding[x]
       /\ deciding'[s].pc = "record" /\ deciding'[s].decision.case = r.id
  BY <1>14 DEF TypeOK
<1>16. DecidesCases'
  BY <1>1, <1>15 DEF DecidesCases
<1>17. ExecutedUnderWay'
  <2>1. ASSUME NEW x \in Deciders, deciding'[x].pc = "record",
               deciding'[x].decision.execution = "executed"
        PROVE  HasVersion(deciding[x].decision.case)'
    <3>1. CASE x = s
      BY <1>11, <1>15, <3>1 DEF HasVersion
    <3>2. CASE x # s
      <4>1. HasVersion(deciding[x].decision.case)
        BY <1>15, <2>1, <3>2 DEF ExecutedUnderWay
      <4>2. PICK c : c = deciding[x].decision.case /\ deciding'[x] = deciding[x]
        BY <1>15, <3>2
      <4>3. HasVersion(c)'
        BY <1>11, <4>1, <4>2
      <4> QED
        BY <4>2, <4>3 DEF HasVersion
    <3> QED
      BY <3>1, <3>2
  <2> QED
    BY <2>1 DEF ExecutedUnderWay
<1> QED
  BY <1>8, <1>10, <1>12, <1>13, <1>16, <1>17

LEMMA NextInv == TypeOK /\ Inv /\ [Next]_vars => Inv'
<1> SUFFICES ASSUME TypeOK, Inv, [Next]_vars PROVE Inv'
  OBVIOUS
<1>1. CASE UNCHANGED vars
  BY <1>1 DEF vars, Inv, OneCurrentResult, CorrectsWhatWasSeen, ExecutedHasVersion, CaseGrounded,
              DecidesCases, ExecutedUnderWay, HasVersion, Current, Versions
<1>2. ASSUME NEW s \in Deciders, Decide(s) PROVE Inv'
  <2>1. ASSUME NEW r \in cases, NEW u \in Staff, NEW o \in {"approved", "rejected"},
               DecideArrives(s, r, u, o)
        PROVE  Inv'
    <3>1. PICK d : /\ Goto(s, d)
                   /\ d.pc \in {"check", "execute"} => d.row \in cases
                   /\ ~(d.pc = "record" /\ d.decision.execution = "executed")
      <4>1. CASE o = "rejected"
        BY <2>1, <4>1 DEF DecideArrives
      <4>2. CASE o # "rejected"
        BY <2>1, <4>2 DEF DecideArrives
      <4> QED
        BY <4>1, <4>2
    <3>2. UNCHANGED <<versions, cases>> /\ \A x \in decisions' : x \in decisions
      BY <2>1 DEF DecideArrives
    <3> QED
      BY <3>1, <3>2, QuietInv
  <2>2. CASE CheckCurrent(s)
    <3>1. deciding[s] \in [pc : {"check", "execute"}, row : CaseRow, at : Nat]
          /\ deciding[s].row \in cases
      BY <2>2, DecidingKind DEF CheckCurrent, Inv, DecidesCases
    <3>2. PICK d : /\ Goto(s, d)
                   /\ d.pc \in {"check", "execute"} => d.row \in cases
                   /\ ~(d.pc = "record" /\ d.decision.execution = "executed")
      <4>1. CASE Goto(s, [deciding[s] EXCEPT !.pc = "execute"])
        BY <3>1, <4>1
      <4>2. CASE Record(s, "execution_failed")
        BY <4>2 DEF Record
      <4> QED
        BY <2>2, <4>1, <4>2 DEF CheckCurrent
    <3>3. UNCHANGED <<versions, cases>> /\ \A x \in decisions' : x \in decisions
      BY <2>2 DEF CheckCurrent
    <3> QED
      BY <3>2, <3>3, QuietInv
  <2>3. CASE Execute(s)
    <3>1. CASE versions' = versions
      <4>1. Record(s, "execution_failed") /\ UNCHANGED <<versions, cases, decisions>>
        <5>1. PICK r : r = deciding[s].row
          OBVIOUS
        <5>2. ASSUME r.base \in 1..Len(versions[r.attempt]), r \in CaseRow,
                     [policy |-> r.policy, current |-> TRUE, by |-> r.id] \in Row
              PROVE  versions' # [versions EXCEPT ![r.attempt] =
                       Append([versions[r.attempt] EXCEPT ![r.base].current = FALSE],
                              [policy |-> r.policy, current |-> TRUE, by |-> r.id])]
          <6>1. PICK q \in Seq(Row) : q = versions[r.attempt]
            BY <5>2 DEF TypeOK, CaseRow
          <6>2. PICK row \in Row : row = [policy |-> r.policy, current |-> TRUE, by |-> r.id]
            BY <5>2
          <6>3. PICK n \in 1..Len(q) : n = r.base
            BY <5>2, <6>1
          <6>4. n + 1 \notin 1..Len(q) => Append([q EXCEPT ![n].current = FALSE], row) # q
            <7>1. ASSUME n + 1 \notin 1..Len(q)
                  PROVE  Len(Append([q EXCEPT ![n].current = FALSE], row)) = Len(q) + 1
              BY <7>1, NextVersion DEF Supersedes
            <7> QED
              BY <7>1
          <6> QED
            BY <3>1, <5>2, <6>1, <6>2, <6>3, <6>4 DEF TypeOK, CaseRow
        <5> QED
          BY <2>3, <3>1, <5>1, <5>2, Executed
      <4>2. PICK d : /\ Goto(s, d) /\ d.pc = "record"
                     /\ d.decision.execution = "execution_failed"
        BY <4>1 DEF Record
      <4> QED
        BY <4>1, <4>2, QuietInv
    <3>2. CASE versions' # versions
      BY <2>3, <3>2, ReplaceInv
    <3> QED
      BY <3>1, <3>2
  <2>4. CASE RecordDecision(s)
    <3>1. \A x \in decisions' : x \in decisions \/ (x.execution = "executed" => HasVersion(x.case))
      BY <2>4 DEF RecordDecision, Inv, ExecutedUnderWay
    <3>2. UNCHANGED <<versions, cases>> /\ Goto(s, Idle)
          /\ Idle.pc \notin {"check", "execute", "record"}
      BY <2>4 DEF RecordDecision, Idle
    <3> QED
      BY <3>1, <3>2, QuietInv
  <2>5. CASE Crash(s)
    <3>1. UNCHANGED <<versions, cases>> /\ decisions' = decisions /\ Goto(s, Idle)
          /\ Idle.pc \notin {"check", "execute", "record"}
      BY <2>5 DEF Crash, Idle
    <3> QED
      BY <3>1, QuietInv
  <2> QED
    BY <1>2, <2>1, <2>2, <2>3, <2>4, <2>5 DEF Decide
<1> QED
  BY <1>1, <1>2, ScoreFirstInv, RequestInv DEF Next

----------------------------------------------------------------------------
LEMMA Invariance == Spec => [](TypeOK /\ Inv)
<1>1. Init => TypeOK /\ Inv
  BY InitType, InitInv
<1>2. TypeOK /\ Inv /\ [Next]_vars => (TypeOK /\ Inv)'
  BY NextType, NextInv
<1> QED
  BY <1>1, <1>2, PTL DEF Spec

(* The rows of result_versions, correction_cases and correction_decisions  *)
(* keep their shape: no version number is skipped, and an approval is      *)
(* never recorded without its execution status.                            *)
THEOREM TypeCorrect == Spec => []TypeOK
BY Invariance, PTL

(* scoreSubmission and executeCorrection: a scored attempt has exactly one *)
(* current result, its newest, whatever deciders race.                     *)
THEOREM OneResultIsCurrent == Spec => []OneCurrentResult
<1>1. TypeOK /\ Inv => OneCurrentResult
  BY DEF Inv
<1> QED
  BY <1>1, Invariance, PTL

(* executeCorrection: every correction replaces the very result its case   *)
(* challenged, by another policy.                                          *)
THEOREM EveryVersionIsChallenged == Spec => []CorrectsWhatWasSeen
<1>1. TypeOK /\ Inv => CorrectsWhatWasSeen
  BY DEF Inv
<1> QED
  BY <1>1, Invariance, PTL

(* decideCorrectionCase: a decision recorded as executed has produced its  *)
(* version, across crashes between the two commits.                        *)
THEOREM ExecutionsHaveVersions == Spec => []ExecutedHasVersion
<1>1. TypeOK /\ Inv => ExecutedHasVersion
  BY DEF Inv
<1> QED
  BY <1>1, Invariance, PTL

----------------------------------------------------------------------------
(* rankCandidates: the rank of a candidate is one more than the number of  *)
(* those ahead of it.                                                      *)

(* A set of numbers has a least one. *)
LEMMA SomeIsLeast ==
  ASSUME NEW T, T \subseteq Nat, T # {}
  PROVE  \E x \in T : \A y \in T : x =< y
<1> DEFINE R == OpToRel(<, Nat)
<1>1. \A x, y \in Nat : y < x => <<y, x>> \in R
  BY Zenon DEF OpToRel
<1>2. IsWellFoundedOn(R, Nat)
  BY NatLessThanWellFounded, Zenon
<1> HIDE DEF R
<1>3. PICK x \in T : \A y \in T : <<y, x>> \notin R
  BY <1>2, WFMin
<1>4. ASSUME NEW y \in T PROVE x =< y
  <2>1. x \in Nat /\ y \in Nat /\ ~(y < x)
    BY <1>1, <1>3, Zenon
  <2> QED BY <2>1
<1> QED BY <1>4

Numbers(score) == \A a \in DOMAIN score : a \in Attempts /\ score[a] \in Nat

(* The order of the candidates is a total preorder, whose ties are Tied.   *)
LEMMA AheadOrders ==
  ASSUME NEW score, Numbers(score), NEW a \in DOMAIN score, NEW b \in DOMAIN score, NEW c \in DOMAIN score
  PROVE  /\ ~Ahead(score, a, a) /\ Tied(score, a, a)
         /\ Tied(score, a, b) /\ Tied(score, b, c) => Tied(score, a, c)
         /\ Tied(score, a, b) => Tied(score, b, a)
         /\ Tied(score, a, b) => ~Ahead(score, a, b)
         /\ Ahead(score, a, b) /\ Tied(score, b, c) => Ahead(score, a, c)
         /\ Tied(score, a, b) /\ Ahead(score, b, c) => Ahead(score, a, c)
         /\ Ahead(score, a, b) /\ Ahead(score, b, c) => Ahead(score, a, c)
         /\ Ahead(score, a, b) \/ Ahead(score, b, a) \/ Tied(score, a, b)
<1>1. /\ score[a] \in Nat /\ score[b] \in Nat /\ score[c] \in Nat
      /\ SubmittedAt[a] \in Nat /\ SubmittedAt[b] \in Nat /\ SubmittedAt[c] \in Nat
  BY RankingAssumption DEF Numbers
<1> QED BY <1>1 DEF Ahead, Tied

(* The place of a candidate in the sorted list and its rank: the rank is   *)
(* the first place of its group, and all before that place are ahead.      *)
RankFits(score, seq, rank, i) ==
  LET m == rank[seq[i]]
  IN  /\ m \in 1..i /\ Tied(score, seq[m], seq[i])
      /\ \A j \in 1..(m - 1) : Ahead(score, seq[j], seq[i])

LEMMA RanksAreFirstPlaces ==
  ASSUME NEW score, Numbers(score), NEW n \in Nat, NEW seq \in [1..n -> DOMAIN score],
         \A i, j \in 1..n : i < j => ~Ahead(score, seq[j], seq[i]), NEW rank,
         \A i \in 1..n : rank[seq[i]] =
           IF i > 1 /\ Tied(score, seq[i - 1], seq[i]) THEN rank[seq[i - 1]] ELSE i
  PROVE  \A i \in 1..n : RankFits(score, seq, rank, i)
<1> DEFINE wrong == {i \in 1..n : ~RankFits(score, seq, rank, i)}
<1> SUFFICES ASSUME wrong # {} PROVE FALSE
  OBVIOUS
<1>1. PICK i \in wrong : \A j \in wrong : i =< j
  <2>1. wrong \subseteq Nat
    OBVIOUS
  <2> HIDE DEF wrong
  <2> QED BY <2>1, SomeIsLeast
<1>2. i \in 1..n /\ seq[i] \in DOMAIN score
  OBVIOUS
<1>3. CASE i > 1 /\ Tied(score, seq[i - 1], seq[i])
  <2>1. i - 1 \in 1..n /\ i - 1 \notin wrong
    BY <1>1, <1>2, <1>3
  <2>2. RankFits(score, seq, rank, i - 1)
    BY <2>1
  <2>3. PICK m : m = rank[seq[i]] /\ m = rank[seq[i - 1]]
    BY <1>2, <1>3
  <2>4. m \in 1..(i - 1) /\ Tied(score, seq[m], seq[i - 1])
        /\ \A j \in 1..(m - 1) : Ahead(score, seq[j], seq[i - 1])
    BY <2>2, <2>3 DEF RankFits
  <2>5. seq[m] \in DOMAIN score /\ seq[i - 1] \in DOMAIN score
    BY <1>2, <2>1, <2>4
  <2>6. Tied(score, seq[m], seq[i])
    BY <1>2, <1>3, <2>4, <2>5, AheadOrders
  <2>7. \A j \in 1..(m - 1) : Ahead(score, seq[j], seq[i])
    <3>1. ASSUME NEW j \in 1..(m - 1) PROVE Ahead(score, seq[j], seq[i])
      <4>1. seq[j] \in DOMAIN score
        BY <1>2, <2>4
      <4>2. Ahead(score, seq[j], seq[i - 1])
        BY <2>4
      <4> QED BY <1>2, <1>3, <2>5, <4>1, <4>2, AheadOrders
    <3> QED BY <3>1
  <2>8. RankFits(score, seq, rank, i)
    BY <1>2, <2>3, <2>4, <2>6, <2>7 DEF RankFits
  <2> QED BY <2>8
<1>4. CASE ~(i > 1 /\ Tied(score, seq[i - 1], seq[i]))
  <2>1. rank[seq[i]] = i
    BY <1>2, <1>4
  <2>2. Tied(score, seq[i], seq[i])
    BY <1>2, AheadOrders
  <2>3. ASSUME NEW j \in 1..(i - 1) PROVE Ahead(score, seq[j], seq[i])
    <3>1. j \in 1..n /\ i - 1 \in 1..n /\ i > 1 /\ i - 1 < i
      BY <1>2
    <3>2. seq[j] \in DOMAIN score /\ seq[i - 1] \in DOMAIN score
      BY <3>1
    <3>3. ~Ahead(score, seq[i], seq[i - 1]) /\ ~Tied(score, seq[i - 1], seq[i])
      BY <1>2, <1>4, <3>1
    <3>4. Ahead(score, seq[i - 1], seq[i])
      BY <1>2, <3>2, <3>3, AheadOrders
    <3>5. CASE j = i - 1
      BY <3>4, <3>5
    <3>6. CASE j < i - 1
      <4>1. ~Ahead(score, seq[i - 1], seq[j])
        BY <3>1, <3>6
      <4>2. Ahead(score, seq[j], seq[i - 1]) \/ Tied(score, seq[j], seq[i - 1])
        BY <3>2, <4>1, AheadOrders
      <4> QED BY <1>2, <3>2, <3>4, <4>2, AheadOrders
    <3> QED BY <3>1, <3>5, <3>6
  <2>4. RankFits(score, seq, rank, i)
    BY <1>2, <2>1, <2>2, <2>3 DEF RankFits
  <2> QED BY <2>4
<1> QED BY <1>3, <1>4

LEMMA RanksCount ==
  ASSUME NEW score, Numbers(score), IsFiniteSet(DOMAIN score), NEW rank \in RankCandidates(score),
         NEW a \in DOMAIN score
  PROVE  rank[a] = 1 + Cardinality({b \in DOMAIN score : Ahead(score, b, a)})
<1>1. PICK n : n = Cardinality(DOMAIN score) /\ n \in Nat
  BY FS_CardinalityType
<1>2. PICK seq \in Sorted(score) : \A i \in DOMAIN seq :
        rank[seq[i]] = IF i > 1 /\ Tied(score, seq[i - 1], seq[i]) THEN rank[seq[i - 1]] ELSE i
  BY DEF RankCandidates
<1>3. /\ seq \in [1..n -> DOMAIN score]
      /\ \A i, j \in 1..n : seq[i] = seq[j] => i = j
      /\ \A b \in DOMAIN score : \E i \in 1..n : seq[i] = b
      /\ \A i, j \in 1..n : i < j => ~Ahead(score, seq[j], seq[i])
  BY <1>1, <1>2 DEF Sorted, Bijection, Injection, IsInjective, Surjection
<1>4. PICK i \in 1..n : seq[i] = a
  BY <1>3
<1>5. \A j \in 1..n : RankFits(score, seq, rank, j)
  BY <1>1, <1>2, <1>3, RanksAreFirstPlaces
<1>6. PICK m : m = rank[a]
  OBVIOUS
<1>7. m \in 1..i /\ Tied(score, seq[m], a) /\ \A j \in 1..(m - 1) : Ahead(score, seq[j], a)
  BY <1>4, <1>5, <1>6 DEF RankFits
<1> DEFINE ahead == {b \in DOMAIN score : Ahead(score, b, a)}
<1>8. \A j \in 1..n : Ahead(score, seq[j], a) => j \in 1..(m - 1)
  <2>1. ASSUME NEW j \in 1..n, j >= m PROVE ~Ahead(score, seq[j], a)
    <3>1. m \in 1..n /\ seq[m] \in DOMAIN score /\ seq[j] \in DOMAIN score
      BY <1>1, <1>3, <1>4, <1>7
    <3>2. ~Ahead(score, seq[j], seq[m])
      <4>1. CASE j = m
        BY <3>1, <4>1, AheadOrders
      <4>2. CASE j > m
        BY <1>3, <2>1, <3>1, <4>2
      <4> QED BY <1>1, <1>7, <2>1, <4>1, <4>2
    <3>3. Tied(score, a, seq[m])
      BY <1>7, <3>1, AheadOrders
    <3> QED BY <3>1, <3>2, <3>3, AheadOrders
  <2> QED BY <1>1, <1>4, <1>7, <2>1
<1>9. ExistsBijection(1..(m - 1), ahead)
  <2> DEFINE f == [j \in 1..(m - 1) |-> seq[j]]
  <2>1. 1..(m - 1) \subseteq 1..n
    BY <1>1, <1>4, <1>7
  <2>2. \A j \in 1..(m - 1) : seq[j] \in ahead
    BY <1>3, <1>7, <2>1
  <2>3. \A b \in ahead : \E j \in 1..(m - 1) : seq[j] = b
    <3>1. ASSUME NEW b \in ahead PROVE \E j \in 1..(m - 1) : seq[j] = b
      <4>1. PICK j \in 1..n : seq[j] = b
        BY <1>3
      <4>2. Ahead(score, seq[j], a)
        BY <4>1
      <4> QED BY <1>8, <4>1, <4>2
    <3> QED BY <3>1
  <2> HIDE DEF ahead
  <2>4. f \in [1..(m - 1) -> ahead]
    BY <2>2
  <2>5. \A x, y \in 1..(m - 1) : f[x] = f[y] => x = y
    BY <1>3, <2>1
  <2>6. \A b \in ahead : \E j \in 1..(m - 1) : f[j] = b
    BY <2>3
  <2> HIDE DEF f
  <2>7. f \in Bijection(1..(m - 1), ahead)
    BY <2>4, <2>5, <2>6 DEF Bijection, Injection, IsInjective, Surjection
  <2> QED BY <2>7 DEF ExistsBijection
<1>10. m - 1 \in Nat /\ m \in Nat
  BY <1>1, <1>7
<1> HIDE DEF ahead
<1>11. Cardinality(ahead) = m - 1
  BY <1>9, <1>10, FS_CountingElements
<1>12. m = 1 + Cardinality(ahead)
  BY <1>10, <1>11
<1> QED BY <1>6, <1>12 DEF ahead

----------------------------------------------------------------------------
(* Ranking.  A version, once there, stays, with the policy it was scored   *)
(* under: what a generation read stays true while corrections go on.       *)
VersionsStay ==
  \A a \in Attempts : \A v \in Versions(a) :
    v \in Versions(a)' /\ versions'[a][v].policy = versions[a][v].policy

LEMMA NextKeeps == TypeOK /\ Inv /\ [Next]_vars => VersionsStay
<1> SUFFICES ASSUME TypeOK, Inv, [Next]_vars PROVE VersionsStay
  OBVIOUS
<1>1. CASE versions' = versions
  BY <1>1 DEF VersionsStay, Versions
<1>2. ASSUME NEW a \in Attempts, ScoreFirst(a) PROVE VersionsStay
  <2>1. DOMAIN versions[a] = {} /\ \A b \in Attempts : b # a => versions'[b] = versions[b]
    BY <1>2 DEF ScoreFirst, TypeOK
  <2> QED
    BY <2>1 DEF VersionsStay, Versions
<1>3. ASSUME NEW s \in Deciders, Execute(s), versions' # versions PROVE VersionsStay
  <2>1. PICK r \in cases, n \in Nat \ {0}, a \in Attempts, row \in Row : Replaced(a, n, row)
    BY <1>3, ReplaceFits
  <2> QED
    BY <2>1, ReplacedKeeps DEF VersionsStay
<1> QED
  BY <1>1, <1>2, <1>3 DEF Next, Decide, vars, RequestCorrection, DecideArrives, CheckCurrent,
     RecordDecision, Crash

(* Snapshots are rows; what a generation has picked are versions.          *)
SnapshotRow(S) == [entries : S, current : BOOLEAN, state : {"provisional", "corrected"}]
SnapshotsFit == \E S : snapshots \in Seq(SnapshotRow(S))

PicksFit(picked) ==
  /\ DOMAIN picked \subseteq Attempts /\ IsFiniteSet(DOMAIN picked)
  /\ \A a \in DOMAIN picked : picked[a] \in Versions(a)
Collecting(c) ==
  c.pc = "collect" => c = [pc |-> "collect", todo |-> c.todo, picked |-> c.picked]
Picks ==
  /\ generating \in [Generators -> {generating[g] : g \in Generators}]
  /\ \A g \in Generators :
       generating[g].pc \in {"collect", "version", "publish"} => PicksFit(generating[g].picked)
  /\ \A g \in Generators : Collecting(generating[g])

(* Entries that trace to versions their attempt has. *)
Traces(entries) ==
  \A a \in DOMAIN entries :
    /\ a \in Attempts
    /\ entries[a].version \in Versions(a)
    /\ entries[a].score = TotalScore[a][versions[a][entries[a].version].policy]
(* Entries whose rank counts who is ahead. *)
Ranked(entries) ==
  \A a \in DOMAIN entries :
    entries[a].rank = 1 + Cardinality({b \in DOMAIN entries :
                                         Ahead([x \in DOMAIN entries |-> entries[x].score], b, a)})
SnapshotsTrace ==
  \A v \in DOMAIN snapshots : Traces(snapshots[v].entries) /\ Ranked(snapshots[v].entries)

RankingInv == SnapshotsFit /\ Picks /\ SnapshotsTrace

LEMMA EntriesTrace ==
  ASSUME TypeOK, NEW picked, PicksFit(picked), NEW rank \in RankCandidates(ScoresOf(picked))
  PROVE  Traces(Entries(picked, rank)) /\ Ranked(Entries(picked, rank))
<1>1. PICK score : score = ScoresOf(picked)
  OBVIOUS
<1>2. /\ DOMAIN score = DOMAIN picked
      /\ \A a \in DOMAIN picked : score[a] = TotalScore[a][versions[a][picked[a]].policy]
      /\ score = [a \in DOMAIN picked |-> score[a]]
  BY <1>1 DEF ScoresOf
<1>3. PICK e : e = Entries(picked, rank)
  OBVIOUS
<1>4. e = [a \in DOMAIN picked |-> [version |-> picked[a], rank |-> rank[a], score |-> score[a]]]
  BY <1>1, <1>3 DEF Entries
<1>5. Traces(e)
  BY <1>2, <1>4 DEF Traces, PicksFit
<1>6. Numbers(score)
  <2>1. ASSUME NEW a \in DOMAIN picked PROVE a \in Attempts /\ score[a] \in Nat
    <3>1. a \in Attempts /\ picked[a] \in DOMAIN versions[a]
      BY DEF PicksFit, Versions
    <3>2. versions[a] \in Seq(Row)
      BY <3>1 DEF TypeOK
    <3>3. versions[a][picked[a]] \in Row
      BY <3>1, <3>2
    <3>4. versions[a][picked[a]].policy \in Policies
      BY <3>3 DEF Row
    <3> QED BY <1>2, <3>1, <3>4, RankingAssumption
  <2> QED BY <1>2, <2>1 DEF Numbers
<1>7. \A a \in DOMAIN score : rank[a] = 1 + Cardinality({b \in DOMAIN score : Ahead(score, b, a)})
  BY <1>1, <1>2, <1>6, RanksCount DEF PicksFit
<1>8. Ranked(e)
  <2>1. DOMAIN e = DOMAIN score /\ \A a \in DOMAIN e : e[a].rank = rank[a] /\ e[a].score = score[a]
    BY <1>2, <1>4
  <2>2. [x \in DOMAIN e |-> e[x].score] = score
    BY <1>2, <2>1
  <2> QED BY <1>7, <2>1, <2>2 DEF Ranked
<1> QED BY <1>3, <1>5, <1>8

(* The versions grow: what was picked and what was published stay true. *)
LEMMA TraceStays ==
  ASSUME RankingInv, VersionsStay, UNCHANGED rankingVars
  PROVE  RankingInv'
<1> USE DEF RankingInv, rankingVars
<1>1. SnapshotsFit'
  BY DEF SnapshotsFit
<1>2. Picks'
  <2>1. ASSUME NEW g \in Generators, generating[g].pc \in {"collect", "version", "publish"},
               NEW a \in DOMAIN generating[g].picked
        PROVE  a \in Attempts /\ generating[g].picked[a] \in Versions(a)'
    BY <2>1 DEF Picks, PicksFit, VersionsStay
  <2>2. generating' \in [Generators -> {generating'[g] : g \in Generators}]
    BY DEF Picks
  <2>3. \A g \in Generators : Collecting(generating'[g])
    BY DEF Picks
  <2> QED
    BY <2>1, <2>2, <2>3 DEF Picks, PicksFit, Collecting
<1>3. SnapshotsTrace'
  <2>1. ASSUME NEW v \in DOMAIN snapshots, NEW a \in DOMAIN snapshots[v].entries
        PROVE  LET e == snapshots[v].entries[a]
               IN /\ a \in Attempts /\ e.version \in Versions(a)'
                  /\ e.score = TotalScore[a][versions'[a][e.version].policy]
    <3>1. PICK e : e = snapshots[v].entries[a]
      OBVIOUS
    <3>2. a \in Attempts /\ e.version \in Versions(a)
          /\ e.score = TotalScore[a][versions[a][e.version].policy]
      BY <2>1, <3>1 DEF SnapshotsTrace, Traces
    <3>3. e.version \in Versions(a)'
          /\ versions'[a][e.version].policy = versions[a][e.version].policy
      BY <3>2 DEF VersionsStay
    <3> QED
      BY <3>1, <3>2, <3>3
  <2> QED
    <3>1. ASSUME NEW v \in DOMAIN snapshots PROVE Ranked(snapshots'[v].entries)
      BY <3>1 DEF SnapshotsTrace
    <3>2. PICK q : q = snapshots
      OBVIOUS
    <3>3. \A x : Ranked(x) => Ranked(x)'
      BY DEF Ranked, Ahead
    <3>4. \A v \in DOMAIN q : Ranked(q[v].entries)'
      BY <3>1, <3>2, <3>3
    <3> QED
      BY <2>1, <3>2, <3>4 DEF SnapshotsTrace, Traces
<1> QED
  BY <1>1, <1>2, <1>3

(* A generation's step that publishes nothing. *)
LEMMA GatherStays ==
  ASSUME RankingInv, NEW g \in Generators, NEW c, Step(g, c), UNCHANGED <<vars, snapshots>>,
         c.pc \in {"collect", "version", "publish"} => PicksFit(c.picked), Collecting(c)
  PROVE  RankingInv'
<1> USE DEF RankingInv
<1>1. SnapshotsFit' /\ SnapshotsTrace' /\ \A q : PicksFit(q) => PicksFit(q)'
  <2>1. SnapshotsFit' /\ \A q : (PicksFit(q) => PicksFit(q)') /\ (Traces(q) => Traces(q)')
    BY DEF SnapshotsFit, Traces, PicksFit, Versions, vars
  <2>2. \A q : Ranked(q) => Ranked(q)'
    BY DEF Ranked, Ahead
  <2>3. PICK q : q = snapshots
    OBVIOUS
  <2>4. \A v \in DOMAIN q : Traces(q[v].entries)' /\ Ranked(q[v].entries)'
    BY <2>1, <2>2, <2>3 DEF SnapshotsTrace
  <2> QED
    BY <2>1, <2>3, <2>4 DEF SnapshotsTrace
<1>2. generating' = [generating EXCEPT ![g] = c]
      /\ generating \in [Generators -> {generating[h] : h \in Generators}]
  BY DEF Step, Picks
<1>3. generating'[g] = c /\ \A h \in Generators : h # g => generating'[h] = generating[h]
  BY <1>2
<1>4. generating' \in [Generators -> {generating'[h] : h \in Generators}]
  BY <1>2
<1>5. ASSUME NEW h \in Generators, generating'[h].pc \in {"collect", "version", "publish"}
      PROVE  PicksFit(generating[h].picked)'
  <2>1. PICK q : q = generating'[h].picked
    OBVIOUS
  <2>2. PicksFit(q)
    BY <1>3, <1>5, <2>1 DEF Picks
  <2>3. PicksFit(q)'
    BY <1>1, <2>2
  <2> QED
    BY <2>1, <2>3 DEF PicksFit
<1>6. \A h \in Generators : Collecting(generating'[h])
  BY <1>3 DEF Picks
<1>7. Picks'
  BY <1>4, <1>5, <1>6 DEF Picks, Collecting
<1> QED
  BY <1>1, <1>7

(* Publishing: superseding touches no entry, and the new one traces. *)
LEMMA PublishTraces ==
  ASSUME TypeOK, RankingInv, NEW g \in Generators, Publish(g)
  PROVE  RankingInv'
<1> USE DEF RankingInv
<1>1. PICK c : c = generating[g] /\ c.pc = "publish" /\ PicksFit(c.picked)
  BY DEF Publish, Picks
<1>2. CASE snapshots' = snapshots
  <2>1. Step(g, Idle) /\ UNCHANGED <<vars, snapshots>>
        /\ Idle.pc \notin {"collect", "version", "publish"} /\ Collecting(Idle)
    BY <1>2 DEF Publish, Idle, Collecting
  <2> QED
    BY <2>1, GatherStays
<1>3. ASSUME NEW rank \in RankCandidates(ScoresOf(c.picked)), snapshots' = Replace(c.prior, Snapshot(c, rank))
      PROVE  RankingInv'
  <2>1. PICK S : snapshots \in Seq(SnapshotRow(S))
    BY DEF SnapshotsFit
  <2>2. PICK e : e = Entries(c.picked, rank) /\ Traces(e) /\ Ranked(e)
    BY <1>1, EntriesTrace
  <2> DEFINE T == S \cup {e}
             old == [v \in DOMAIN snapshots |->
                       IF v \in c.prior THEN [snapshots[v] EXCEPT !.current = FALSE]
                       ELSE snapshots[v]]
  <2>3. PICK new : new = Snapshot(c, rank)
    OBVIOUS
  <2>4. new \in SnapshotRow(T) /\ new.entries = e
    BY <2>2, <2>3 DEF Snapshot, SnapshotRow
  <2>5. \A v \in DOMAIN snapshots :
          old[v] \in SnapshotRow(T) /\ old[v].entries = snapshots[v].entries
    <3>1. ASSUME NEW v \in DOMAIN snapshots
          PROVE  old[v] \in SnapshotRow(T) /\ old[v].entries = snapshots[v].entries
      <4>1. snapshots[v] \in SnapshotRow(S)
        BY <2>1
      <4> QED
        BY <4>1 DEF SnapshotRow
    <3> QED
      BY <3>1
  <2>6. old \in Seq(SnapshotRow(T)) /\ Len(old) = Len(snapshots)
    <3>1. Len(snapshots) \in Nat /\ DOMAIN snapshots = 1..Len(snapshots)
      BY <2>1
    <3>2. old \in [1..Len(snapshots) -> SnapshotRow(T)]
      BY <2>5, <3>1
    <3> HIDE DEF old, T
    <3>3. PICK n : n = Len(snapshots)
      OBVIOUS
    <3>4. n \in Nat /\ old \in [1..n -> SnapshotRow(T)]
      BY <3>1, <3>2, <3>3
    <3> QED
      BY <3>3, <3>4
  <2>7. snapshots' = Append(old, new)
    BY <1>3, <2>3 DEF Replace
  <2> HIDE DEF old
  <2>8. snapshots' \in Seq(SnapshotRow(T))
    BY <2>4, <2>6, <2>7
  <2>9. \A v \in DOMAIN snapshots' :
          \/ v \in DOMAIN snapshots /\ snapshots'[v].entries = snapshots[v].entries
          \/ snapshots'[v].entries = e
    <3>1. Len(snapshots) \in Nat /\ DOMAIN snapshots = 1..Len(snapshots)
      BY <2>1
    <3>2. DOMAIN snapshots' = 1..(Len(snapshots) + 1)
          /\ snapshots'[Len(snapshots) + 1] = new
          /\ \A v \in 1..Len(snapshots) : snapshots'[v] = old[v]
      BY <2>4, <2>6, <2>7, <3>1
    <3>3. \A v \in 1..Len(snapshots) :
            v \in DOMAIN snapshots /\ snapshots'[v].entries = snapshots[v].entries
      BY <2>5, <3>1, <3>2
    <3>4. snapshots'[Len(snapshots) + 1].entries = e
      BY <2>4, <3>2
    <3>5. \A v \in DOMAIN snapshots' : v \in 1..Len(snapshots) \/ v = Len(snapshots) + 1
      BY <3>1, <3>2
    <3> QED
      BY <3>3, <3>4, <3>5
  <2>10. \A q : /\ PicksFit(q) => PicksFit(q)'
                /\ Traces(q) => Traces(q)'
                /\ Ranked(q) => Ranked(q)'
    BY DEF Publish, PicksFit, Traces, Ranked, Ahead, Versions, vars
  <2>11. SnapshotsTrace'
    <3>1. ASSUME NEW v \in DOMAIN snapshots' PROVE (Traces(snapshots[v].entries) /\ Ranked(snapshots[v].entries))'
      <4>1. PICK q : q = snapshots'[v].entries
        OBVIOUS
      <4>2. Traces(q) /\ Ranked(q)
        BY <2>2, <2>9, <4>1 DEF SnapshotsTrace
      <4>3. Traces(q)' /\ Ranked(q)'
        BY <2>10, <4>2
      <4> QED
        BY <4>1, <4>3 DEF Traces, Ranked
    <3> QED
      BY <3>1 DEF SnapshotsTrace
  <2>12. SnapshotsFit'
    BY <2>8 DEF SnapshotsFit
  <2>13. Picks'
    <3>1. generating' = [generating EXCEPT ![g] = Idle]
          /\ generating \in [Generators -> {generating[h] : h \in Generators}]
      BY DEF Publish, Step, Picks
    <3>2. generating'[g] = Idle /\ \A h \in Generators : h # g => generating'[h] = generating[h]
      BY <3>1
    <3>3. generating' \in [Generators -> {generating'[h] : h \in Generators}]
      BY <3>1
    <3>4. ASSUME NEW h \in Generators, generating'[h].pc \in {"collect", "version", "publish"}
          PROVE  PicksFit(generating[h].picked)'
      <4>1. h # g
        BY <3>2, <3>4 DEF Idle
      <4>2. PICK q : q = generating'[h].picked
        OBVIOUS
      <4>3. PicksFit(q)
        BY <3>2, <3>4, <4>1, <4>2 DEF Picks
      <4>4. PicksFit(q)'
        BY <2>10, <4>3
      <4> QED
        BY <4>2, <4>4 DEF PicksFit
    <3>5. \A h \in Generators : Collecting(generating'[h])
      BY <3>2 DEF Picks, Idle, Collecting
    <3> QED
      BY <3>3, <3>4, <3>5 DEF Picks, Collecting
  <2> QED
    BY <2>11, <2>12, <2>13
<1> QED
  BY <1>1, <1>2, <1>3 DEF Publish

LEMMA GenerateTraces ==
  ASSUME TypeOK, RankingInv, NEW g \in Generators, Generate(g)
  PROVE  RankingInv'
<1> USE DEF RankingInv
<1>1. CASE GenerateArrives(g)
  <2>1. PICK c : c = [pc |-> "collect", todo |-> Attempts, picked |-> <<>>]
    OBVIOUS
  <2>2. PicksFit(c.picked) /\ Collecting(c)
    BY <2>1, FS_EmptySet DEF PicksFit, Collecting
  <2>3. Step(g, c) /\ UNCHANGED <<vars, snapshots>>
    BY <1>1, <2>1 DEF GenerateArrives
  <2> QED
    BY <2>2, <2>3, GatherStays
<1>2. ASSUME NEW a \in Attempts, Collect(g, a) PROVE RankingInv'
  <2>1. PICK c : c = generating[g] /\ c.pc = "collect" /\ PicksFit(c.picked)
                 /\ c = [pc |-> "collect", todo |-> c.todo, picked |-> c.picked]
    BY <1>2 DEF Collect, Picks, Collecting
  <2>2. CASE Step(g, [c EXCEPT !.todo = @ \ {a}])
    <3>1. PICK d : d = [c EXCEPT !.todo = @ \ {a}]
      OBVIOUS
    <3>2. d.picked = c.picked /\ Collecting(d)
      BY <2>1, <3>1 DEF Collecting
    <3>3. Step(g, d) /\ UNCHANGED <<vars, snapshots>>
      BY <1>2, <2>2, <3>1 DEF Collect
    <3> QED
      BY <2>1, <3>2, <3>3, GatherStays
  <2>3. ASSUME NEW v \in Current(a),
               Step(g, [c EXCEPT !.todo = @ \ {a}, !.picked = Including(c.picked, a, v)])
        PROVE  RankingInv'
    <3>1. PICK q : q = Including(c.picked, a, v)
      OBVIOUS
    <3>2. PicksFit(q)
      <4>1. DOMAIN q = DOMAIN c.picked \cup {a} /\ \A b \in DOMAIN q : q[b] = IF b = a THEN v ELSE c.picked[b]
        BY <3>1 DEF Including
      <4>2. IsFiniteSet(DOMAIN c.picked \cup {a})
        BY <2>1, FS_AddElement DEF PicksFit
      <4> QED
        BY <2>1, <4>1, <4>2 DEF PicksFit, Current
    <3>3. PICK d : d = [c EXCEPT !.todo = @ \ {a}, !.picked = Including(c.picked, a, v)]
      OBVIOUS
    <3>4. d.picked = q /\ Collecting(d)
      BY <2>1, <3>1, <3>3 DEF Collecting
    <3>5. Step(g, d) /\ UNCHANGED <<vars, snapshots>>
      BY <1>2, <2>3, <3>3 DEF Collect
    <3> QED
      BY <3>2, <3>4, <3>5, GatherStays
  <2> QED
    BY <1>2, <2>1, <2>2, <2>3 DEF Collect
<1>3. CASE ReadPrior(g)
  <2>1. PICK c : c = generating[g] /\ c.pc = "collect" /\ PicksFit(c.picked)
    BY <1>3 DEF ReadPrior, Picks
  <2>2. PICK d : /\ Step(g, d) /\ UNCHANGED <<vars, snapshots>>
                 /\ d.pc \in {"collect", "version", "publish"} => d.picked = c.picked
                 /\ d.pc # "collect"
    BY <1>3, <2>1 DEF ReadPrior, Idle
  <2> QED
    BY <2>1, <2>2, GatherStays DEF Collecting
<1>4. CASE ReadVersion(g)
  <2>1. PICK c : c = generating[g] /\ c.pc = "version" /\ PicksFit(c.picked)
    BY <1>4 DEF ReadVersion, Picks
  <2>2. PICK d : Step(g, d) /\ UNCHANGED <<vars, snapshots>> /\ d.picked = c.picked
                 /\ d.pc # "collect"
    BY <1>4, <2>1 DEF ReadVersion
  <2> QED
    BY <2>1, <2>2, GatherStays DEF Collecting
<1>5. CASE GenerateCrash(g)
  <2>1. Step(g, Idle) /\ UNCHANGED <<vars, snapshots>>
        /\ Idle.pc \notin {"collect", "version", "publish"} /\ Collecting(Idle)
    BY <1>5 DEF GenerateCrash, Idle, Collecting
  <2> QED
    BY <2>1, GatherStays
<1> QED
  BY <1>1, <1>2, <1>3, <1>4, <1>5, PublishTraces DEF Generate

LEMMA RankingInvariance == RankingSpec => [](TypeOK /\ Inv /\ RankingInv)
<1>1. RankingInit => TypeOK /\ Inv /\ RankingInv
  <2> SUFFICES ASSUME RankingInit PROVE TypeOK /\ Inv /\ RankingInv
    OBVIOUS
  <2>1. TypeOK /\ Inv
    BY InitType, InitInv DEF RankingInit
  <2>2. snapshots = <<>> /\ generating = [g \in Generators |-> Idle]
    BY DEF RankingInit
  <2>3. <<>> \in Seq(SnapshotRow({}))
    OBVIOUS
  <2>4. SnapshotsFit /\ SnapshotsTrace
    BY <2>2, <2>3 DEF SnapshotsFit, SnapshotsTrace
  <2>5. Picks
    BY <2>2 DEF Picks, Idle, Collecting
  <2> QED
    BY <2>1, <2>4, <2>5 DEF RankingInv
<1>2. TypeOK /\ Inv /\ RankingInv /\ [RankingNext]_allVars => (TypeOK /\ Inv /\ RankingInv)'
  <2> SUFFICES ASSUME TypeOK, Inv, RankingInv, [RankingNext]_allVars
               PROVE  (TypeOK /\ Inv)' /\ RankingInv'
    OBVIOUS
  <2>1. ASSUME NEW g \in Generators, Generate(g) PROVE UNCHANGED vars
    BY <2>1 DEF Generate, GenerateArrives, Collect, ReadPrior, ReadVersion, Publish, GenerateCrash
  <2>2. [Next]_vars
    BY <2>1 DEF RankingNext, allVars
  <2>3. (TypeOK /\ Inv)' /\ VersionsStay
    BY <2>2, NextType, NextInv, NextKeeps
  <2>4. UNCHANGED rankingVars \/ \E g \in Generators : Generate(g)
    BY DEF RankingNext, allVars
  <2> QED
    BY <2>3, <2>4, TraceStays, GenerateTraces
<1> QED
  BY <1>1, <1>2, PTL DEF RankingSpec

(* generateRankingSnapshot: an entry shows the score of a version its      *)
(* attempt still has, whatever is scored, corrected or published between   *)
(* the reads and the publication.                                          *)
THEOREM SnapshotsTraceToResults == RankingSpec => []EntriesTraceToResults
<1>1. RankingInv => EntriesTraceToResults
  BY DEF RankingInv, SnapshotsTrace, Traces, EntriesTraceToResults
<1> QED
  BY <1>1, RankingInvariance, PTL

(* rankCandidates: the ranks of every snapshot are the standard            *)
(* competition ranks of the scores it shows, one more than the number of   *)
(* entries ahead, for any number of attempts, any scores and any ties.     *)
THEOREM RanksAreCompetitionRanks == RankingSpec => []RanksCountWhoIsAhead
<1>1. RankingInv => RanksCountWhoIsAhead
  BY DEF RankingInv, SnapshotsTrace, Ranked, RanksCountWhoIsAhead
<1> QED
  BY <1>1, RankingInvariance, PTL

=============================================================================
