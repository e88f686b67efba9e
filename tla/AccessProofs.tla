---------------------------- MODULE AccessProofs ----------------------------
(***************************************************************************)
(* Proofs about Access, for any number of students, orders, requests,      *)
(* staff, processes and concurrent queries, purchases and decisions.       *)
(***************************************************************************)
EXTENDS Access, FiniteSetTheorems, TLAPS

(* What an approval of a change brings about. *)
TookEffect(x) == IF x.type = "manual_grant"
                 THEN Keyed(x.student, Manual(x.student), x.id) # {}
                 ELSE "revoked" \in EventTypes(x.grant)

(* A revocation names a grant that exists, and ids name one request. *)
RequestsGrounded ==
  /\ \A x \in requests : x.type = "manual_revocation" => x.grant \in DOMAIN grants
  /\ \A x, y \in requests : x.id = y.id => x = y

(* A decider works on a request of the table. *)
DecidesRequests ==
  /\ \A d \in Deciders : deciding[d].pc \in {"execute", "invalidate"} =>
       deciding[d].request \in requests
  /\ \A d \in Deciders : deciding[d].pc = "record" =>
       Requested(deciding[d].decision.request)
  /\ \A x \in decisions : Requested(x.request)

(* The source of a grant and the student who holds it follow from its key. *)
KeysFitSources ==
  \A g \in DOMAIN grants :
    \/ /\ grants[g].key \in Requests
       /\ grants[g].source = Manual(grants[g].student)
    \/ /\ grants[g].key \in Orders
       /\ grants[g].source = Purchase(grants[g].key)

(* A change about to be recorded as executed has taken effect. *)
EffectKnown(c) ==
  /\ c.pc = "invalidate" => TookEffect(c.request)
  /\ c.pc = "record" /\ c.decision.execution = "executed" =>
       \A x \in requests : x.id = c.decision.request => TookEffect(x)
ExecutedUnderWay == \A d \in Deciders : EffectKnown(deciding[d])

(* The rows of access_grants stay as they are; at most one is added. *)
Kept == /\ DOMAIN grants \subseteq DOMAIN grants'
        /\ \A g \in DOMAIN grants : grants'[g] = grants[g]

----------------------------------------------------------------------------
(* What a request in progress carries, by what it does next. *)
LEMMA DecidingKind ==
  ASSUME NEW c \in Deciding
  PROVE  /\ c.pc \in {"idle", "execute", "invalidate", "record"}
         /\ c.pc \in {"execute", "invalidate"} => c.proc \in Processes /\ c.request \in RequestRow
         /\ c.pc = "record" => c.decision \in DecisionRow
BY DEF Deciding, Idle

LEMMA RequestKind ==
  ASSUME NEW x \in RequestRow
  PROVE  /\ x.id \in Requests /\ x.student \in Students
         /\ x.type \in {"manual_grant", "manual_revocation"}
         /\ x.type = "manual_grant" => x.window \in Windows
BY DEF RequestRow

LEMMA ReadingKind ==
  ASSUME NEW c \in Reading
  PROVE  /\ c.pc \in {"list", "events"} =>
              c.proc \in Processes /\ c.student \in Students /\ c.at \in 0..LastTime
         /\ c.pc = "events" =>
              /\ c \in [pc : {"events"}, proc : Processes, student : Students,
                        at : 0..LastTime, todo : SUBSET DOMAIN grants,
                        supporting : SUBSET DOMAIN grants]
BY DEF Reading, Idle

LEMMA PayingKind ==
  ASSUME NEW c \in Paying, c.pc = "commit"
  PROVE  /\ c.order \in Orders /\ c.window \in Windows
         /\ c.effect \in {"issued", "suspended", "revoked"}
BY DEF Paying, Idle

(* Issuing keeps the rows there are, and adds one of a valid shape. *)
LEMMA IssueKeeps ==
  ASSUME grants \in Seq(GrantRow), NEW s \in Students, NEW source \in Sources,
         NEW key \in Orders \cup Requests, NEW w \in Windows, Issue(s, source, key, w)
  PROVE  /\ grants' \in Seq(GrantRow) /\ Kept
         /\ Keyed(s, source, key) # {} => grants' = grants
         /\ Keyed(s, source, key) = {} =>
              /\ DOMAIN grants' = DOMAIN grants \cup {Len(grants) + 1}
              /\ grants'[Len(grants) + 1].student = s
              /\ grants'[Len(grants) + 1].source = source
              /\ grants'[Len(grants) + 1].key = key
<1>1. CASE Keyed(s, source, key) # {}
  BY <1>1 DEF Issue, Kept
<1>2. CASE Keyed(s, source, key) = {}
  <2> DEFINE row == [student |-> s, source |-> source, key |-> key,
                     from |-> w.from, to |-> w.to]
  <2>1. row \in GrantRow
    BY WindowAssumption DEF GrantRow
  <2>2. grants' = Append(grants, row)
    BY <1>2 DEF Issue
  <2>3. /\ row.student = s /\ row.source = source /\ row.key = key
    OBVIOUS
  <2> HIDE DEF row
  <2> QED
    BY <1>2, <2>1, <2>2, <2>3 DEF Kept
<1> QED
  BY <1>1, <1>2

(* Rows that are kept keep what refers to them well typed. *)
LEMMA KeptTypes ==
  ASSUME Kept
  PROVE  /\ Cached \subseteq Cached' /\ Reading \subseteq Reading'
         /\ Deciding' = Deciding /\ Paying' = Paying
         /\ RequestRow' = RequestRow /\ DecisionRow' = DecisionRow
BY DEF Kept, Cached, Reading, Deciding, Paying, RequestRow, DecisionRow, NotCached, Idle

----------------------------------------------------------------------------
(* Type correctness, with the two facts about requests it rests on. *)
TypeInv == TypeOK /\ RequestsGrounded /\ DecidesRequests

LEMMA InitType == Init => TypeInv
<1> SUFFICES ASSUME Init PROVE TypeInv
  OBVIOUS
<1>1. NotCached \in Cached /\ Idle \in Reading /\ Idle \in Deciding /\ Idle \in Paying
  BY DEF Cached, Reading, Deciding, Paying
<1>2. TypeOK
  BY <1>1, WindowAssumption DEF Init, TypeOK
<1> QED
  BY <1>2 DEF Init, TypeInv, RequestsGrounded, DecidesRequests, Idle

LEMMA QueryType ==
  ASSUME TypeOK, NEW r \in Readers, Query(r)
  PROVE  /\ cache' \in [Processes -> [Students -> Cached]]
         /\ reading' \in [Readers -> Reading]
         /\ serial' \in BOOLEAN
         /\ UNCHANGED <<grants, events, requests, decisions, deciding, paying, now>>
<1>0. /\ cache \in [Processes -> [Students -> Cached]] /\ reading \in [Readers -> Reading]
      /\ serial \in BOOLEAN /\ now \in 0..LastTime
      /\ reading[r] \in Reading /\ Idle \in Reading
  BY DEF TypeOK, Reading
<1>1. ASSUME NEW p \in Processes, NEW s \in Students, QueryArrives(r, p, s)
      PROVE  reading' \in [Readers -> Reading]
  <2>1. [pc |-> "list", proc |-> p, student |-> s, at |-> now] \in Reading
    BY <1>0 DEF Reading
  <2> QED
    BY <1>0, <1>1, <2>1 DEF QueryArrives, Read
<1>2. ASSUME ListGrants(r) PROVE reading' \in [Readers -> Reading]
  <2>1. reading[r].pc = "list"
    BY <1>2 DEF ListGrants
  <2>2. [pc |-> "events", proc |-> reading[r].proc, student |-> reading[r].student,
         at |-> reading[r].at, todo |-> GrantsOf(reading[r].student),
         supporting |-> {}] \in Reading
    BY <1>0, <2>1, ReadingKind DEF Reading, GrantsOf
  <2> QED
    BY <1>0, <1>2, <2>2 DEF ListGrants, Read
<1>3. ASSUME NEW g \in DOMAIN grants, ListEvents(r, g)
      PROVE  reading' \in [Readers -> Reading]
  <2> DEFINE keeps == Status(grants[g], EventTypes(g), reading[r].at) = "active"
             t == [reading[r] EXCEPT !.todo = @ \ {g},
                     !.supporting = IF keeps THEN @ \cup {g} ELSE @]
  <2>1. reading[r].pc = "events" /\ reading' = [reading EXCEPT ![r] = t]
    BY <1>3 DEF ListEvents, Read
  <2> HIDE DEF keeps
  <2>2. t \in Reading
    BY <1>0, <2>1, ReadingKind DEF Reading
  <2> QED
    BY <1>0, <2>1, <2>2
<1>4. ASSUME StoreDecision(r)
      PROVE  /\ reading' \in [Readers -> Reading]
             /\ cache' \in [Processes -> [Students -> Cached]]
  <2> DEFINE p == reading[r].proc  s == reading[r].student
  <2>1. reading[r].pc = "events"
    BY <1>4 DEF StoreDecision
  <2>2. /\ p \in Processes /\ s \in Students
        /\ [cached |-> TRUE, supporting |-> reading[r].supporting] \in Cached
    BY <1>0, <2>1, ReadingKind DEF Cached
  <2>3. /\ cache' = [cache EXCEPT ![p][s] =
                      [cached |-> TRUE, supporting |-> reading[r].supporting]]
        /\ reading' = [reading EXCEPT ![r] = Idle]
    BY <1>4 DEF StoreDecision, Read
  <2> QED
    BY <1>0, <2>2, <2>3
<1> QED
  BY <1>0, <1>1, <1>2, <1>3, <1>4
  DEF Query, QueryArrives, ListGrants, ListEvents, StoreDecision, Arrives

LEMMA PayType ==
  ASSUME TypeOK, NEW t \in Payments, Pay(t)
  PROVE  /\ grants' \in Seq(GrantRow) /\ Kept
         /\ events' \subseteq [grant : DOMAIN grants', type : {"suspended", "revoked"},
                              actor : Sources]
         /\ cache' \in [Processes -> [Students -> Cached]]
         /\ paying' \in [Payments -> Paying]
         /\ serial' \in BOOLEAN
         /\ UNCHANGED <<requests, decisions, reading, deciding, now>>
<1>0. /\ cache \in [Processes -> [Students -> Cached]] /\ grants \in Seq(GrantRow)
      /\ paying \in [Payments -> Paying] /\ serial \in BOOLEAN
      /\ events \subseteq [grant : DOMAIN grants, type : {"suspended", "revoked"},
                           actor : Sources]
      /\ paying[t] \in Paying /\ Idle \in Paying /\ NotCached \in Cached
  BY DEF TypeOK, Paying, Cached
<1>1. ASSUME NEW p \in Processes, NEW o \in Orders, NEW w \in Windows,
             NEW effect \in {"issued", "suspended", "revoked"},
             PaymentArrives(t, p, o, effect, w)
      PROVE  /\ cache' \in [Processes -> [Students -> Cached]]
             /\ paying' \in [Payments -> Paying]
             /\ serial' \in BOOLEAN
             /\ UNCHANGED <<grants, events, requests, decisions, reading, deciding, now>>
  <2>0. serial' \in BOOLEAN
    BY <1>1 DEF PaymentArrives, Arrives
  <2>1. [pc |-> "commit", proc |-> p, order |-> o, effect |-> effect, window |-> w] \in Paying
    BY DEF Paying
  <2> QED
    BY <1>0, <1>1, <2>0, <2>1, SourceAssumption DEF PaymentArrives, InvalidateUser
<1>2. ASSUME PaymentCommits(t)
      PROVE  /\ grants' \in Seq(GrantRow) /\ Kept
             /\ events' \subseteq [grant : DOMAIN grants', type : {"suspended", "revoked"},
                                  actor : Sources]
             /\ paying' \in [Payments -> Paying]
  <2>1. PICK o, w, effect :
          /\ o = paying[t].order /\ w = paying[t].window /\ effect = paying[t].effect
    OBVIOUS
  <2>2. /\ o \in Orders /\ w \in Windows /\ effect \in {"issued", "suspended", "revoked"}
        /\ Buyer[o] \in Students /\ Purchase(o) \in Sources
    BY <1>0, <1>2, <2>1, PayingKind, SourceAssumption DEF PaymentCommits, Sources
  <2>3. paying' = [paying EXCEPT ![t] = Idle]
    BY <1>2 DEF PaymentCommits
  <2>4. CASE effect = "issued"
    <3>1. Issue(Buyer[o], Purchase(o), o, w) /\ UNCHANGED events
      BY <1>2, <2>1, <2>4 DEF PaymentCommits
    <3>2. grants' \in Seq(GrantRow) /\ Kept
      BY <1>0, <2>2, <3>1, IssueKeeps
    <3> QED
      BY <1>0, <2>3, <3>1, <3>2 DEF Kept
  <2>5. CASE effect # "issued"
    <3>1. PICK g \in Keyed(Buyer[o], Purchase(o), o) :
            /\ events' = events \cup {[grant |-> g, type |-> effect, actor |-> Purchase(o)]}
            /\ UNCHANGED grants
      BY <1>2, <2>1, <2>5 DEF PaymentCommits, RecordEvent
    <3>2. g \in DOMAIN grants
      BY <3>1 DEF Keyed, GrantsOf
    <3> QED
      BY <1>0, <2>2, <2>3, <2>5, <3>1, <3>2 DEF Kept
  <2> QED
    BY <2>4, <2>5
<1>3. CASE \E p \in Processes, o \in Orders, w \in Windows,
            effect \in {"issued", "suspended", "revoked"} : PaymentArrives(t, p, o, effect, w)
  BY <1>0, <1>1, <1>3 DEF Kept
<1>4. CASE PaymentCommits(t)
  BY <1>0, <1>2, <1>4 DEF PaymentCommits
<1> QED
  BY <1>3, <1>4 DEF Pay

(* A step of a decision leads to a typed state, and to a request it knows. *)
LEMMA ChangeType ==
  ASSUME TypeOK, RequestsGrounded, DecidesRequests, NEW d \in Deciders, Change(d)
  PROVE  /\ grants' \in Seq(GrantRow) /\ Kept
         /\ events' \subseteq [grant : DOMAIN grants', type : {"suspended", "revoked"},
                              actor : Sources]
         /\ decisions' \subseteq DecisionRow
         /\ cache' \in [Processes -> [Students -> Cached]]
         /\ deciding' \in [Deciders -> Deciding]
         /\ serial' \in BOOLEAN
         /\ UNCHANGED <<requests, reading, paying, now>>
         /\ DecidesRequests'
<1> DEFINE Goal(t) ==
      /\ deciding' = [deciding EXCEPT ![d] = t] /\ t \in Deciding
      /\ t.pc \in {"execute", "invalidate"} => t.request \in requests
      /\ t.pc = "record" => Requested(t.decision.request)
      /\ requests' = requests
<1>0. /\ cache \in [Processes -> [Students -> Cached]] /\ grants \in Seq(GrantRow)
      /\ deciding \in [Deciders -> Deciding] /\ serial \in BOOLEAN
      /\ requests \subseteq RequestRow /\ decisions \subseteq DecisionRow
      /\ events \subseteq [grant : DOMAIN grants, type : {"suspended", "revoked"},
                           actor : Sources]
      /\ deciding[d] \in Deciding /\ Idle \in Deciding /\ NotCached \in Cached
  BY DEF TypeOK, Deciding, Cached
<1>a. ASSUME NEW t, Goal(t), decisions' = decisions
      PROVE  deciding' \in [Deciders -> Deciding] /\ DecidesRequests'
  BY <1>0, <1>a DEF DecidesRequests, Requested
<1>1. ASSUME NEW p \in Processes, NEW x \in requests, NEW u \in Staff,
             NEW o \in {"approved", "rejected"}, DecideArrives(d, p, x, u, o)
      PROVE  \E t : Goal(t)
  <2>1. CASE o = "rejected"
    <3>1. [request |-> x.id, outcome |-> "rejected", execution |-> "none"] \in DecisionRow
      BY <1>0, RequestKind DEF DecisionRow
    <3>2. PICK y : y = [request |-> x.id, outcome |-> "rejected", execution |-> "none"]
      OBVIOUS
    <3>3. Goal([pc |-> "record", proc |-> p, decision |-> y])
      BY <1>1, <2>1, <3>1, <3>2 DEF DecideArrives, Decide, Deciding, Requested
    <3> QED
      BY <3>3
  <2>2. CASE o # "rejected"
    <3>1. Goal([pc |-> "execute", proc |-> p, request |-> x])
      BY <1>0, <1>1, <2>2 DEF DecideArrives, Decide, Deciding
    <3> QED
      BY <3>1
  <2> QED
    BY <2>1, <2>2
<1>2. ASSUME deciding[d].pc = "execute", UNCHANGED requests,
             Executed(d)
      PROVE  \E t : Goal(t)
  <2>1. Goal([pc |-> "invalidate", proc |-> deciding[d].proc, request |-> deciding[d].request])
    BY <1>0, <1>2, DecidingKind DEF Executed, Decide, Deciding, DecidesRequests
  <2> QED
    BY <2>1
<1>3. ASSUME deciding[d].pc \in {"execute", "invalidate"}, UNCHANGED requests,
             NEW execution \in {"executed", "execution_failed"}, Approved(d, execution)
      PROVE  \E t : Goal(t)
  <2>1. PICK y : y = [request |-> deciding[d].request.id, outcome |-> "approved",
                      execution |-> execution]
    OBVIOUS
  <2>2. y \in DecisionRow /\ Requested(y.request)
    BY <1>0, <1>3, <2>1, RequestKind DEF DecisionRow, Requested, DecidesRequests
  <2>3. Goal([pc |-> "record", proc |-> deciding[d].proc, decision |-> y])
    BY <1>0, <1>3, <2>1, <2>2, DecidingKind DEF Approved, Decide, Deciding
  <2> QED
    BY <2>3
<1>4. CASE \E p \in Processes, x \in requests, u \in Staff, o \in {"approved", "rejected"} :
             DecideArrives(d, p, x, u, o)
  <2>1. PICK p \in Processes, x \in requests, u \in Staff, o \in {"approved", "rejected"} :
          DecideArrives(d, p, x, u, o)
    BY <1>4
  <2>2. serial' \in BOOLEAN
    BY <2>1 DEF DecideArrives, Arrives
  <2>3. UNCHANGED <<grants, events, requests, decisions, cache, reading, paying, now>>
    BY <2>1 DEF DecideArrives
  <2> QED
    BY <1>0, <1>1, <1>a, <2>1, <2>2, <2>3 DEF Kept
<1>5. CASE ExecuteGrant(d)
  <2>1. PICK x \in requests : x = deciding[d].request
    BY <1>5 DEF ExecuteGrant, DecidesRequests
  <2>2. /\ x.student \in Students /\ x.id \in Requests /\ x.window \in Windows
        /\ Manual(x.student) \in Sources
    BY <1>0, <1>5, <2>1, RequestKind DEF ExecuteGrant, Sources
  <2>3. /\ Issue(x.student, Manual(x.student), x.id, x.window)
        /\ deciding[d].pc = "execute" /\ Executed(d)
        /\ UNCHANGED <<events, requests, decisions, cache, reading, paying, now, serial>>
    BY <1>5, <2>1 DEF ExecuteGrant
  <2>4. grants' \in Seq(GrantRow) /\ Kept
    BY <1>0, <2>2, <2>3, IssueKeeps
  <2> QED
    BY <1>0, <1>2, <1>a, <2>3, <2>4 DEF Kept
<1>6. CASE ExecuteRevocation(d)
  <2>1. PICK x \in requests : x = deciding[d].request
    BY <1>6 DEF ExecuteRevocation, DecidesRequests
  <2>2. /\ x.student \in Students /\ Manual(x.student) \in Sources
        /\ x.grant \in DOMAIN grants
    BY <1>0, <1>6, <2>1, RequestKind DEF ExecuteRevocation, Sources, RequestsGrounded
  <2>3. /\ events' = events \cup {[grant |-> x.grant, type |-> "revoked",
                                   actor |-> Manual(x.student)]}
        /\ deciding[d].pc = "execute" /\ Executed(d)
        /\ UNCHANGED <<grants, requests, decisions, cache, reading, paying, now, serial>>
    BY <1>6, <2>1 DEF ExecuteRevocation, RecordEvent
  <2>4. events' \subseteq [grant : DOMAIN grants', type : {"suspended", "revoked"},
                          actor : Sources]
    BY <1>0, <2>2, <2>3
  <2> QED
    BY <1>0, <1>2, <1>a, <2>3, <2>4 DEF Kept
<1>7. CASE ExecutionFails(d)
  BY <1>0, <1>3, <1>7, <1>a DEF ExecutionFails, Kept
<1>8. CASE InvalidateDecided(d)
  <2>1. deciding[d].proc \in Processes /\ deciding[d].request.student \in Students
    BY <1>0, <1>8, DecidingKind, RequestKind DEF InvalidateDecided
  <2>2. cache' \in [Processes -> [Students -> Cached]]
    BY <1>0, <1>8, <2>1 DEF InvalidateDecided, InvalidateUser
  <2> QED
    BY <1>0, <1>3, <1>8, <1>a, <2>2 DEF InvalidateDecided, Kept
<1>9. CASE RecordDecision(d)
  <2>1. /\ deciding[d].pc = "record" /\ deciding[d].decision \in DecisionRow
        /\ Requested(deciding[d].decision.request)
    BY <1>0, <1>9, DecidingKind DEF RecordDecision, DecidesRequests
  <2>2. /\ decisions' = decisions \cup {deciding[d].decision}
        /\ deciding' = [deciding EXCEPT ![d] = Idle]
        /\ UNCHANGED <<grants, events, requests, cache, reading, paying, now, serial>>
    BY <1>9 DEF RecordDecision, Decide
  <2>3. DecidesRequests'
    BY <1>0, <2>1, <2>2 DEF DecidesRequests, Requested, Idle
  <2> QED
    BY <1>0, <2>1, <2>2, <2>3 DEF Kept
<1> QED
  BY <1>4, <1>5, <1>6, <1>7, <1>8, <1>9 DEF Change

LEMMA RequestType ==
  ASSUME TypeInv, NEW q \in Requests, NEW u \in Staff, NEW s \in Students,
         \/ \E w \in Windows : RequestGrant(q, u, s, w)
         \/ \E g \in DOMAIN grants : RequestRevocation(q, u, s, g)
  PROVE  /\ \E x \in RequestRow : requests' = requests \cup {x} /\ x.id = q
         /\ ~Requested(q)
         /\ UNCHANGED <<grants, events, decisions, cache, actors, now, serial>>
         /\ TypeInv'
<1>0. grants \in Seq(GrantRow) /\ requests \subseteq RequestRow
  BY DEF TypeInv, TypeOK
<1>1. /\ ~Requested(q)
      /\ UNCHANGED <<grants, events, decisions, cache, actors, now, serial>>
  BY DEF RequestGrant, RequestRevocation
<1>2. PICK x \in RequestRow :
        /\ requests' = requests \cup {x} /\ x.id = q
        /\ x.type = "manual_revocation" => x.grant \in DOMAIN grants
  <2>1. ASSUME NEW w \in Windows, RequestGrant(q, u, s, w)
        PROVE  \E x \in RequestRow :
                 /\ requests' = requests \cup {x} /\ x.id = q
                 /\ x.type = "manual_revocation" => x.grant \in DOMAIN grants
    <3>1. [id |-> q, type |-> "manual_grant", student |-> s, requester |-> u,
           window |-> w] \in RequestRow
      BY DEF RequestRow
    <3> QED
      BY <2>1, <3>1 DEF RequestGrant
  <2>2. ASSUME NEW g \in DOMAIN grants, RequestRevocation(q, u, s, g)
        PROVE  \E x \in RequestRow :
                 /\ requests' = requests \cup {x} /\ x.id = q
                 /\ x.type = "manual_revocation" => x.grant \in DOMAIN grants
    <3>1. [id |-> q, type |-> "manual_revocation", student |-> s, requester |-> u,
           grant |-> g] \in RequestRow
      BY <1>0 DEF RequestRow
    <3> QED
      BY <2>2, <3>1 DEF RequestRevocation
  <2> QED
    BY <2>1, <2>2
<1>3. RequestsGrounded'
  BY <1>1, <1>2 DEF TypeInv, RequestsGrounded, Requested
<1>4. DecidesRequests'
  BY <1>1, <1>2 DEF TypeInv, DecidesRequests, Requested, actors
<1>5. TypeOK'
  <2>1. Kept
    BY <1>1 DEF Kept
  <2>2. requests' \subseteq RequestRow
    BY <1>0, <1>2
  <2> QED
    BY <1>1, <2>1, <2>2, KeptTypes DEF TypeInv, TypeOK, actors
<1> QED
  BY <1>1, <1>2, <1>3, <1>4, <1>5 DEF TypeInv

LEMMA CrashType ==
  ASSUME TypeInv, NEW p \in Processes, Crash(p)
  PROVE  /\ TypeInv'
         /\ \A d \in Deciders : deciding'[d] = deciding[d] \/ deciding'[d] = Idle
         /\ UNCHANGED <<grants, events, requests, decisions, now, serial>>
<1>1. NotCached \in Cached /\ Idle \in Reading /\ Idle \in Deciding /\ Idle \in Paying
  BY DEF Cached, Reading, Deciding, Paying
<1>2. /\ UNCHANGED <<grants, events, requests, decisions, now, serial>>
      /\ cache' \in [Processes -> [Students -> Cached]]
  BY <1>1 DEF Crash, TypeInv, TypeOK
<1>3. reading' \in [Readers -> Reading]
  BY <1>1 DEF Crash, TypeInv, TypeOK
<1>4. /\ deciding' \in [Deciders -> Deciding]
      /\ \A d \in Deciders : deciding'[d] = deciding[d] \/ deciding'[d] = Idle
  BY <1>1 DEF Crash, TypeInv, TypeOK
<1>5. paying' \in [Payments -> Paying]
  BY <1>1 DEF Crash, TypeInv, TypeOK
<1>6. Kept
  BY <1>2 DEF Kept
<1>7. TypeOK'
  BY <1>2, <1>3, <1>4, <1>5, <1>6, KeptTypes DEF TypeInv, TypeOK
<1>8. RequestsGrounded' /\ DecidesRequests'
  BY <1>2, <1>4 DEF TypeInv, RequestsGrounded, DecidesRequests, Requested, Idle
<1> QED
  BY <1>2, <1>4, <1>7, <1>8 DEF TypeInv

LEMMA TypeStep == TypeInv /\ [Next]_vars => TypeInv'
<1> SUFFICES ASSUME TypeInv, [Next]_vars PROVE TypeInv'
  OBVIOUS
<1>0. TypeOK /\ RequestsGrounded /\ DecidesRequests
  BY DEF TypeInv
<1>1. ASSUME NEW r \in Readers, Query(r) PROVE TypeInv'
  <2>1. /\ cache' \in [Processes -> [Students -> Cached]]
        /\ reading' \in [Readers -> Reading] /\ serial' \in BOOLEAN
        /\ UNCHANGED <<grants, events, requests, decisions, deciding, paying, now>>
    BY <1>0, <1>1, QueryType
  <2>2. Kept
    BY <2>1 DEF Kept
  <2>3. TypeOK'
    BY <1>0, <2>1, <2>2, KeptTypes DEF TypeOK
  <2>4. RequestsGrounded' /\ DecidesRequests'
    BY <1>0, <2>1 DEF RequestsGrounded, DecidesRequests, Requested
  <2> QED
    BY <2>3, <2>4 DEF TypeInv
<1>2. ASSUME NEW t \in Payments, Pay(t) PROVE TypeInv'
  <2>1. /\ grants' \in Seq(GrantRow) /\ Kept
        /\ events' \subseteq [grant : DOMAIN grants', type : {"suspended", "revoked"},
                             actor : Sources]
        /\ cache' \in [Processes -> [Students -> Cached]]
        /\ paying' \in [Payments -> Paying] /\ serial' \in BOOLEAN
        /\ UNCHANGED <<requests, decisions, reading, deciding, now>>
    BY <1>0, <1>2, PayType
  <2>2. TypeOK'
    BY <1>0, <2>1, KeptTypes DEF TypeOK
  <2>3. RequestsGrounded' /\ DecidesRequests'
    BY <1>0, <2>1 DEF RequestsGrounded, DecidesRequests, Requested, Kept
  <2> QED
    BY <2>2, <2>3 DEF TypeInv
<1>3. ASSUME NEW d \in Deciders, Change(d) PROVE TypeInv'
  <2>1. /\ grants' \in Seq(GrantRow) /\ Kept
        /\ events' \subseteq [grant : DOMAIN grants', type : {"suspended", "revoked"},
                             actor : Sources]
        /\ decisions' \subseteq DecisionRow
        /\ cache' \in [Processes -> [Students -> Cached]]
        /\ deciding' \in [Deciders -> Deciding] /\ serial' \in BOOLEAN
        /\ UNCHANGED <<requests, reading, paying, now>>
        /\ DecidesRequests'
    BY <1>0, <1>3, ChangeType
  <2>2. TypeOK'
    BY <1>0, <2>1, KeptTypes DEF TypeOK
  <2>3. RequestsGrounded'
    BY <1>0, <2>1 DEF RequestsGrounded, Kept
  <2> QED
    BY <2>1, <2>2, <2>3 DEF TypeInv
<1>4. CASE Tick \/ UNCHANGED vars
  <2>1. /\ now' \in 0..LastTime
        /\ UNCHANGED <<grants, events, requests, decisions, cache, actors, serial>>
    BY <1>0, <1>4, WindowAssumption DEF TypeOK, Tick, vars
  <2>2. Kept
    BY <2>1 DEF Kept
  <2>3. TypeOK'
    BY <1>0, <2>1, <2>2, KeptTypes DEF TypeOK, actors
  <2>4. RequestsGrounded' /\ DecidesRequests'
    BY <1>0, <2>1 DEF RequestsGrounded, DecidesRequests, Requested, actors
  <2> QED
    BY <2>3, <2>4 DEF TypeInv
<1> QED
  BY <1>1, <1>2, <1>3, <1>4, RequestType, CrashType DEF Next

----------------------------------------------------------------------------
(* The safety invariants, with the two facts they rest on.                 *)
GrantsInv == OnlyItsSourceEndsAGrant /\ OneGrantPerKey /\ KeysFitSources
EffectInv == ExecutedTookEffect /\ ExecutedUnderWay

(* What has taken effect stays so: grants and events are append-only. *)
LEMMA EffectStays ==
  ASSUME Kept, events \subseteq events', NEW x, TookEffect(x)
  PROVE  TookEffect(x)'
<1>1. Keyed(x.student, Manual(x.student), x.id) \subseteq
        Keyed(x.student, Manual(x.student), x.id)'
  BY DEF Keyed, GrantsOf, Kept
<1>2. EventTypes(x.grant) \subseteq EventTypes(x.grant)'
  BY DEF EventTypes
<1> QED
  BY <1>1, <1>2 DEF TookEffect

(* Nothing but the source behind a key is issued a grant under it. *)
LEMMA IssueSafe ==
  ASSUME TypeOK, GrantsInv, NEW s \in Students, NEW source \in Sources,
         NEW key \in Orders \cup Requests, NEW w \in Windows, Issue(s, source, key, w),
         \/ key \in Requests /\ source = Manual(s)
         \/ key \in Orders /\ source = Purchase(key),
         events' = events
  PROVE  GrantsInv' /\ Keyed(s, source, key)' # {}
<1>0. /\ grants \in Seq(GrantRow)
      /\ events \subseteq [grant : DOMAIN grants, type : {"suspended", "revoked"},
                           actor : Sources]
  BY DEF TypeOK
<1> DEFINE n == Len(grants) + 1
<1>1. CASE Keyed(s, source, key) # {}
  <2>1. grants' = grants
    BY <1>0, <1>1, IssueKeeps
  <2> QED
    BY <1>1, <2>1 DEF GrantsInv, OnlyItsSourceEndsAGrant, OneGrantPerKey, KeysFitSources,
                      Keyed, GrantsOf
<1>2. CASE Keyed(s, source, key) = {}
  <2>1. /\ Kept /\ DOMAIN grants' = DOMAIN grants \cup {n}
        /\ grants'[n].student = s /\ grants'[n].source = source /\ grants'[n].key = key
    BY <1>0, <1>2, IssueKeeps
  <2> HIDE DEF n
  <2>2. OnlyItsSourceEndsAGrant'
    BY <1>0, <2>1 DEF GrantsInv, OnlyItsSourceEndsAGrant, Kept
  <2>3. KeysFitSources'
    BY <2>1 DEF GrantsInv, KeysFitSources, Kept
  <2>4. ASSUME NEW g \in DOMAIN grants, grants[g].student = s, grants[g].key = key
        PROVE  FALSE
    <3>1. grants[g].source[1] = source[1]
      BY <2>4, SourceAssumption DEF GrantsInv, KeysFitSources, Manual, Purchase
    <3> QED
      BY <1>2, <2>4, <3>1 DEF Keyed, GrantsOf
  <2>5. OneGrantPerKey'
    BY <2>1, <2>4 DEF GrantsInv, OneGrantPerKey, Kept
  <2>6. Keyed(s, source, key)' # {}
    BY <2>1 DEF Keyed, GrantsOf
  <2> QED
    BY <2>2, <2>3, <2>5, <2>6 DEF GrantsInv
<1> QED
  BY <1>1, <1>2

(* An event by a grant's source. *)
LEMMA EventSafe ==
  ASSUME GrantsInv, NEW g, NEW type, NEW actor, RecordEvent(g, type, actor),
         grants[g].source = actor, grants' = grants
  PROVE  GrantsInv' /\ type \in EventTypes(g)'
<1>1. PICK e : /\ e = [grant |-> g, type |-> type, actor |-> actor]
               /\ events' = events \cup {e}
  BY DEF RecordEvent
<1>2. OnlyItsSourceEndsAGrant'
  BY <1>1 DEF GrantsInv, OnlyItsSourceEndsAGrant
<1>3. OneGrantPerKey' /\ KeysFitSources'
  BY DEF GrantsInv, OneGrantPerKey, KeysFitSources
<1>4. type \in EventTypes(g)'
  BY <1>1 DEF EventTypes
<1> QED
  BY <1>2, <1>3, <1>4 DEF GrantsInv

LEMMA PaySafe ==
  ASSUME TypeOK, GrantsInv, NEW t \in Payments, Pay(t)
  PROVE  GrantsInv' /\ events \subseteq events'
<1>1. CASE PaymentCommits(t)
  <2>1. PICK o, w, effect :
          /\ o = paying[t].order /\ w = paying[t].window /\ effect = paying[t].effect
    OBVIOUS
  <2>2. /\ o \in Orders /\ w \in Windows /\ Buyer[o] \in Students /\ Purchase(o) \in Sources
    BY <1>1, <2>1, PayingKind, SourceAssumption DEF PaymentCommits, Sources, TypeOK
  <2>3. CASE effect = "issued"
    <3>1. Issue(Buyer[o], Purchase(o), o, w) /\ UNCHANGED events
      BY <1>1, <2>1, <2>3 DEF PaymentCommits
    <3> QED
      BY <2>2, <3>1, IssueSafe
  <2>4. CASE effect # "issued"
    <3>1. PICK g \in Keyed(Buyer[o], Purchase(o), o) :
            RecordEvent(g, effect, Purchase(o)) /\ UNCHANGED grants
      BY <1>1, <2>1, <2>4 DEF PaymentCommits
    <3>2. grants[g].source = Purchase(o)
      BY <2>2, <3>1, SourceAssumption DEF Keyed, GrantsOf, GrantsInv, KeysFitSources
    <3> QED
      BY <3>1, <3>2, EventSafe DEF RecordEvent
  <2> QED
    BY <2>3, <2>4
<1>2. CASE UNCHANGED <<grants, events>>
  BY <1>2 DEF GrantsInv, OnlyItsSourceEndsAGrant, OneGrantPerKey, KeysFitSources
<1>3. PaymentCommits(t) \/ UNCHANGED <<grants, events>>
  BY DEF Pay, PaymentArrives
<1> QED
  BY <1>1, <1>2, <1>3

LEMMA KnownStays ==
  ASSUME Kept, events \subseteq events', requests' = requests, NEW c, EffectKnown(c)
  PROVE  EffectKnown(c)'
BY EffectStays DEF EffectKnown

(* A step that records no decision, and knows the effect of what it does. *)
LEMMA EffectsStay ==
  ASSUME EffectInv, Kept, events \subseteq events', requests' = requests,
         decisions' = decisions,
         \A d \in Deciders : deciding'[d] = deciding[d] \/ EffectKnown(deciding[d])'
  PROVE  EffectInv'
<1>1. ASSUME NEW x \in requests,
             [request |-> x.id, outcome |-> "approved", execution |-> "executed"] \in decisions
      PROVE  TookEffect(x)'
  BY <1>1, EffectStays DEF EffectInv, ExecutedTookEffect, TookEffect
<1>2. ExecutedTookEffect'
  BY <1>1 DEF ExecutedTookEffect, TookEffect
<1>3. ASSUME NEW d \in Deciders PROVE EffectKnown(deciding[d])'
  <2>1. CASE deciding'[d] = deciding[d]
    <3>1. PICK c : c = deciding[d]
      OBVIOUS
    <3>2. EffectKnown(c)'
      BY <3>1, KnownStays DEF EffectInv, ExecutedUnderWay
    <3> QED
      BY <2>1, <3>1, <3>2 DEF EffectKnown
  <2> QED
    BY <2>1
<1> QED
  BY <1>2, <1>3 DEF EffectInv, ExecutedUnderWay

LEMMA ChangeSafe ==
  ASSUME TypeInv, GrantsInv, EffectInv, NEW d \in Deciders, Change(d)
  PROVE  GrantsInv' /\ EffectInv'
<1>0. /\ TypeOK /\ RequestsGrounded /\ DecidesRequests
      /\ deciding \in [Deciders -> Deciding] /\ deciding[d] \in Deciding
      /\ requests \subseteq RequestRow /\ grants \in Seq(GrantRow)
  BY DEF TypeInv, TypeOK
<1>1. Kept /\ requests' = requests
  BY <1>0, ChangeType
<1>2. ASSUME UNCHANGED <<grants, events>> PROVE GrantsInv'
  BY <1>2 DEF GrantsInv, OnlyItsSourceEndsAGrant, OneGrantPerKey, KeysFitSources
<1>3. ASSUME NEW c, deciding' = [deciding EXCEPT ![d] = c], EffectKnown(c)',
             events \subseteq events', decisions' = decisions
      PROVE  EffectInv'
  <2>1. ASSUME NEW e \in Deciders
        PROVE  deciding'[e] = deciding[e] \/ EffectKnown(deciding[e])'
    <3>1. CASE e = d
      <4>1. deciding'[e] = c
        BY <1>0, <1>3, <3>1
      <4> QED
        BY <1>3, <4>1 DEF EffectKnown
    <3> QED
      BY <1>0, <1>3, <3>1
  <2> QED
    BY <1>1, <1>3, <2>1, EffectsStay
<1>4. CASE \E p \in Processes, x \in requests, u \in Staff, o \in {"approved", "rejected"} :
             DecideArrives(d, p, x, u, o)
  <2>1. PICK p \in Processes, x \in requests, u \in Staff, o \in {"approved", "rejected"} :
          DecideArrives(d, p, x, u, o)
    BY <1>4
  <2>2. PICK c : /\ deciding' = [deciding EXCEPT ![d] = c]
                 /\ \/ c = [pc |-> "record", proc |-> p,
                           decision |-> [request |-> x.id, outcome |-> "rejected",
                                         execution |-> "none"]]
                    \/ c = [pc |-> "execute", proc |-> p, request |-> x]
    BY <2>1 DEF DecideArrives, Decide
  <2>3. EffectKnown(c)'
    BY <2>2 DEF EffectKnown
  <2> QED
    BY <1>2, <1>3, <2>1, <2>2, <2>3 DEF DecideArrives
<1>5. CASE ExecuteGrant(d)
  <2>1. PICK x \in requests : x = deciding[d].request
    BY <1>0, <1>5 DEF ExecuteGrant, DecidesRequests
  <2>2. /\ x.student \in Students /\ x.id \in Requests /\ x.window \in Windows
        /\ Manual(x.student) \in Sources /\ x.type = "manual_grant"
    BY <1>0, <1>5, <2>1, RequestKind DEF ExecuteGrant, Sources
  <2>3. PICK c : /\ c.pc = "invalidate" /\ c.request = x
                 /\ deciding' = [deciding EXCEPT ![d] = c]
                 /\ Issue(x.student, Manual(x.student), x.id, x.window)
                 /\ events' = events /\ decisions' = decisions
    BY <1>5, <2>1 DEF ExecuteGrant, Executed, Decide
  <2>4. GrantsInv' /\ Keyed(x.student, Manual(x.student), x.id)' # {}
    BY <1>0, <2>2, <2>3, IssueSafe
  <2>5. TookEffect(x)'
    BY <2>2, <2>4 DEF TookEffect
  <2>6. EffectKnown(c)'
    BY <2>3, <2>5 DEF EffectKnown
  <2> QED
    BY <1>3, <2>3, <2>4, <2>6
<1>6. CASE ExecuteRevocation(d)
  <2>1. PICK x \in requests : x = deciding[d].request
    BY <1>0, <1>6 DEF ExecuteRevocation, DecidesRequests
  <2>2. /\ x.type = "manual_revocation"
        /\ RecordEvent(x.grant, "revoked", Manual(x.student))
        /\ grants[x.grant].source = Manual(x.student) /\ grants' = grants
    BY <1>6, <2>1 DEF ExecuteRevocation, IsOwnedBy
  <2>3. PICK c : /\ c.pc = "invalidate" /\ c.request = x
                 /\ deciding' = [deciding EXCEPT ![d] = c]
                 /\ decisions' = decisions /\ events \subseteq events'
    BY <1>6, <2>1 DEF ExecuteRevocation, Executed, Decide, RecordEvent
  <2>4. GrantsInv'
    BY <2>2, EventSafe
  <2>5. "revoked" \in EventTypes(x.grant)'
    BY <2>2, EventSafe
  <2>6. TookEffect(x)'
    BY <2>2, <2>5 DEF TookEffect
  <2>7. EffectKnown(c)'
    BY <2>3, <2>6 DEF EffectKnown
  <2> QED
    BY <1>3, <2>3, <2>4, <2>7
<1>7. CASE ExecutionFails(d)
  <2>1. PICK c : /\ c.pc = "record" /\ c.decision.execution = "execution_failed"
                 /\ deciding' = [deciding EXCEPT ![d] = c]
                 /\ UNCHANGED <<grants, events, decisions>>
    BY <1>7 DEF ExecutionFails, Approved, Decide
  <2>2. EffectKnown(c)'
    BY <2>1 DEF EffectKnown
  <2> QED
    BY <1>2, <1>3, <2>1, <2>2
<1>8. CASE InvalidateDecided(d)
  <2>1. PICK x \in requests : x = deciding[d].request
    BY <1>0, <1>8 DEF InvalidateDecided, DecidesRequests
  <2>2. PICK c : /\ c.pc = "record" /\ c.decision.request = x.id
                 /\ deciding' = [deciding EXCEPT ![d] = c]
                 /\ UNCHANGED <<grants, events, decisions>>
    BY <1>8, <2>1 DEF InvalidateDecided, Approved, Decide
  <2>3. TookEffect(x)
    BY <1>8, <2>1 DEF InvalidateDecided, EffectInv, ExecutedUnderWay, EffectKnown
  <2>4. TookEffect(x)'
    BY <1>1, <2>2, <2>3, EffectStays
  <2>5. \A y \in requests : y.id = x.id => y = x
    BY <1>0, <2>1 DEF RequestsGrounded
  <2>6. EffectKnown(c)'
    BY <1>1, <2>2, <2>4, <2>5 DEF EffectKnown
  <2> QED
    BY <1>2, <1>3, <2>2, <2>6
<1>9. CASE RecordDecision(d)
  <2>1. /\ deciding[d].pc = "record"
        /\ decisions' = decisions \cup {deciding[d].decision}
        /\ deciding' = [deciding EXCEPT ![d] = Idle]
        /\ UNCHANGED <<grants, events>>
    BY <1>9 DEF RecordDecision, Decide
  <2>2. ASSUME NEW x \in requests,
               [request |-> x.id, outcome |-> "approved", execution |-> "executed"] \in decisions'
        PROVE  TookEffect(x)
    <3>1. PICK y : y = [request |-> x.id, outcome |-> "approved", execution |-> "executed"]
      OBVIOUS
    <3>2. CASE y \in decisions
      BY <3>1, <3>2 DEF EffectInv, ExecutedTookEffect, TookEffect
    <3>3. CASE y = deciding[d].decision
      <4>1. y.request = x.id /\ y.execution = "executed"
        BY <3>1
      <4> QED
        BY <2>1, <3>3, <4>1 DEF EffectInv, ExecutedUnderWay, EffectKnown
    <3> QED
      BY <2>1, <2>2, <3>1, <3>2, <3>3
  <2>3. ASSUME NEW x, TookEffect(x) PROVE TookEffect(x)'
    BY <1>1, <2>1, <2>3, EffectStays
  <2>4. ExecutedTookEffect'
    BY <1>1, <2>2, <2>3 DEF ExecutedTookEffect, TookEffect
  <2>5. ASSUME NEW e \in Deciders PROVE EffectKnown(deciding[e])'
    <3>1. PICK c : c = deciding'[e] /\ (c = deciding[e] \/ c = Idle)
      BY <1>0, <2>1
    <3>2. EffectKnown(c)
      BY <3>1 DEF EffectInv, ExecutedUnderWay, EffectKnown, Idle
    <3>3. EffectKnown(c)'
      BY <1>1, <2>1, <3>2, KnownStays
    <3> QED
      BY <3>1, <3>3 DEF EffectKnown
  <2> QED
    BY <1>2, <2>1, <2>4, <2>5 DEF EffectInv, ExecutedUnderWay
<1> QED
  BY <1>4, <1>5, <1>6, <1>7, <1>8, <1>9 DEF Change

----------------------------------------------------------------------------
(* The inductive invariant. *)
Inv == TypeInv /\ GrantsInv /\ EffectInv

LEMMA InitInv == Init => Inv
<1> SUFFICES ASSUME Init PROVE Inv
  OBVIOUS
<1>1. GrantsInv
  BY DEF Init, GrantsInv, OnlyItsSourceEndsAGrant, OneGrantPerKey, KeysFitSources
<1>2. EffectInv
  BY DEF Init, EffectInv, ExecutedTookEffect, ExecutedUnderWay, EffectKnown, Idle
<1> QED
  BY <1>1, <1>2, InitType DEF Inv

LEMMA NextInv == Inv /\ [Next]_vars => Inv'
<1> SUFFICES ASSUME Inv, [Next]_vars PROVE GrantsInv' /\ EffectInv'
  BY TypeStep DEF Inv
<1>0. TypeInv /\ TypeOK /\ GrantsInv /\ EffectInv /\ DecidesRequests
  BY DEF Inv, TypeInv
<1>1. ASSUME UNCHANGED <<grants, events>> PROVE GrantsInv' /\ Kept
  BY <1>0, <1>1 DEF GrantsInv, OnlyItsSourceEndsAGrant, OneGrantPerKey, KeysFitSources, Kept
<1>2. ASSUME NEW r \in Readers, Query(r) PROVE GrantsInv' /\ EffectInv'
  <2>1. UNCHANGED <<grants, events, requests, decisions, deciding>>
    BY <1>0, <1>2, QueryType
  <2> QED
    BY <1>0, <1>1, <2>1, EffectsStay
<1>3. ASSUME NEW t \in Payments, Pay(t) PROVE GrantsInv' /\ EffectInv'
  <2>1. Kept /\ UNCHANGED <<requests, decisions, deciding>>
    BY <1>0, <1>3, PayType
  <2>2. GrantsInv' /\ events \subseteq events'
    BY <1>0, <1>3, PaySafe
  <2> QED
    BY <1>0, <2>1, <2>2, EffectsStay
<1>4. ASSUME NEW q \in Requests, NEW u \in Staff, NEW s \in Students,
             \/ \E w \in Windows : RequestGrant(q, u, s, w)
             \/ \E g \in DOMAIN grants : RequestRevocation(q, u, s, g)
      PROVE  GrantsInv' /\ EffectInv'
  <2>1. PICK x \in RequestRow : requests' = requests \cup {x} /\ x.id = q
    BY <1>0, <1>4, RequestType
  <2>2. ~Requested(q) /\ UNCHANGED <<grants, events, decisions, deciding>>
    BY <1>0, <1>4, RequestType DEF actors
  <2>3. ASSUME NEW y, TookEffect(y) PROVE TookEffect(y)'
    BY <1>1, <2>2, <2>3, EffectStays
  <2>4. ExecutedTookEffect'
    <3>1. ASSUME NEW y \in requests',
                 [request |-> y.id, outcome |-> "approved", execution |-> "executed"]
                   \in decisions
          PROVE  TookEffect(y)
      <4>1. PICK z \in decisions : z.request = y.id
        BY <3>1
      <4>2. y \in requests
        BY <1>0, <2>1, <2>2, <4>1 DEF DecidesRequests, Requested
      <4> QED
        BY <1>0, <3>1, <4>2 DEF EffectInv, ExecutedTookEffect, TookEffect
    <3> QED
      BY <2>2, <2>3, <3>1 DEF ExecutedTookEffect, TookEffect
  <2>5. ASSUME NEW d \in Deciders PROVE EffectKnown(deciding[d])'
    <3>1. PICK c : c = deciding[d] /\ c = deciding'[d]
      BY <2>2
    <3>2. EffectKnown(c)
      BY <1>0, <3>1 DEF EffectInv, ExecutedUnderWay
    <3>3. c.pc = "record" => c.decision.request # q
      BY <1>0, <2>2, <3>1 DEF DecidesRequests
    <3>4. EffectKnown(c)'
      BY <2>1, <2>3, <3>2, <3>3 DEF EffectKnown
    <3> QED
      BY <3>1, <3>4 DEF EffectKnown
  <2> QED
    BY <1>1, <2>2, <2>4, <2>5 DEF EffectInv, ExecutedUnderWay
<1>5. ASSUME NEW d \in Deciders, Change(d) PROVE GrantsInv' /\ EffectInv'
  BY <1>0, <1>5, ChangeSafe
<1>6. ASSUME NEW p \in Processes, Crash(p) PROVE GrantsInv' /\ EffectInv'
  <2>1. /\ UNCHANGED <<grants, events, requests, decisions>>
        /\ \A d \in Deciders : deciding'[d] = deciding[d] \/ deciding'[d] = Idle
    BY <1>0, <1>6, CrashType
  <2>2. \A d \in Deciders : deciding'[d] = deciding[d] \/ EffectKnown(deciding[d])'
    BY <2>1 DEF EffectKnown, Idle
  <2> QED
    BY <1>0, <1>1, <2>1, <2>2, EffectsStay
<1>7. CASE Tick \/ UNCHANGED vars
  <2>1. UNCHANGED <<grants, events, requests, decisions, deciding>>
    BY <1>7 DEF Tick, vars, actors
  <2> QED
    BY <1>0, <1>1, <2>1, EffectsStay
<1> QED
  BY <1>2, <1>3, <1>4, <1>5, <1>6, <1>7 DEF Next

LEMMA Invariance == Spec => []Inv
BY InitInv, NextInv, PTL DEF Spec

(* access_grants, grant_events, the change requests and their decisions    *)
(* keep their shape, for any number of actors of each kind.                *)
THEOREM TypeCorrect == Spec => []TypeOK
<1>1. Inv => TypeOK
  BY DEF Inv, TypeInv
<1> QED
  BY <1>1, Invariance, PTL

(* recordGrantEvent: a grant is suspended or revoked by its own source     *)
(* only, whatever grant a manual revocation names.                         *)
THEOREM GrantsEndBySource == Spec => []OnlyItsSourceEndsAGrant
<1>1. Inv => OnlyItsSourceEndsAGrant
  BY DEF Inv, GrantsInv
<1> QED
  BY <1>1, Invariance, PTL

(* issueGrant: a student has one grant per source key, however many issues *)
(* under it overlap or are repeated.                                       *)
THEOREM KeyHasOneGrant == Spec => []OneGrantPerKey
<1>1. Inv => OneGrantPerKey
  BY DEF Inv, GrantsInv
<1> QED
  BY <1>1, Invariance, PTL

(* decideManualChange: a change recorded as executed has taken effect,     *)
(* across deciders racing and processes dying in between.                  *)
THEOREM ExecutedIsEffective == Spec => []ExecutedTookEffect
<1>1. Inv => ExecutedTookEffect
  BY DEF Inv, EffectInv
<1> QED
  BY <1>1, Invariance, PTL


----------------------------------------------------------------------------
(* The cache, as long as requests are served one at a time.                *)

Rest == /\ \A r \in Readers : reading[r] = Idle
        /\ \A d \in Deciders : deciding[d] = Idle
        /\ \A t \in Payments : paying[t] = Idle

(* The one request that is served, by its kind. *)
Reads(r) == /\ reading[r] # Idle /\ \A q \in Readers \ {r} : reading[q] = Idle
            /\ \A d \in Deciders : deciding[d] = Idle
            /\ \A t \in Payments : paying[t] = Idle
Decides(d) == /\ deciding[d] # Idle /\ \A e \in Deciders \ {d} : deciding[e] = Idle
              /\ \A r \in Readers : reading[r] = Idle
              /\ \A t \in Payments : paying[t] = Idle
Pays(t) == /\ paying[t] # Idle /\ \A u \in Payments \ {t} : paying[u] = Idle
           /\ \A r \in Readers : reading[r] = Idle
           /\ \A d \in Deciders : deciding[d] = Idle

(* Only process p has anything cached. *)
AtHome(p) == \A q \in Processes \ {p}, s \in Students : cache[q][s] = NotCached

Fresh(p, s) ==
  cache[p][s] # NotCached => \E at \in 0..now : cache[p][s].supporting = Supporting(s, at)
AllFresh == \A p \in Processes, s \in Students : Fresh(p, s)

(* What a query has found so far is what it would find now at its time. *)
ReadFits(c) ==
  /\ c.at \in 0..now
  /\ c.pc = "events" =>
       /\ c.todo \subseteq GrantsOf(c.student)
       /\ c.supporting = {g \in GrantsOf(c.student) \ c.todo :
                            Status(grants[g], EventTypes(g), c.at) = "active"}

(* A change that was executed and has yet to invalidate leaves one entry   *)
(* stale; a purchase has invalidated its entry before it commits. *)
ServesNone == Rest /\ AllFresh
ServesRead == \E r \in Readers :
  Reads(r) /\ AtHome(reading[r].proc) /\ ReadFits(reading[r]) /\ AllFresh
ServesChange == \E d \in Deciders :
  /\ Decides(d) /\ AtHome(deciding[d].proc)
  /\ \A p \in Processes, s \in Students :
       \/ Fresh(p, s)
       \/ /\ deciding[d].pc = "invalidate"
          /\ p = deciding[d].proc /\ s = deciding[d].request.student
ServesPayment == \E t \in Payments :
  /\ Pays(t) /\ AtHome(paying[t].proc) /\ AllFresh
  /\ cache[paying[t].proc][Buyer[paying[t].order]] = NotCached

SerialInv == serial => ServesNone \/ ServesRead \/ ServesChange \/ ServesPayment

LEMMA RestIs == AtRest => Rest
<1> DEFINE R == {r \in Readers : reading[r] # Idle}
           D == {d \in Deciders : deciding[d] # Idle}
           P == {t \in Payments : paying[t] # Idle}
<1>1. IsFiniteSet(R) /\ IsFiniteSet(D) /\ IsFiniteSet(P)
  BY ActorsAssumption, FS_Subset
<1>2. Cardinality(R) \in Nat /\ Cardinality(D) \in Nat /\ Cardinality(P) \in Nat
  BY <1>1, FS_CardinalityType
<1>3. AtRest => Cardinality(R) = 0 /\ Cardinality(D) = 0 /\ Cardinality(P) = 0
  <2>1. AtRest <=> Cardinality(R) + Cardinality(D) + Cardinality(P) = 0
    BY DEF AtRest, Busy
  <2> HIDE DEF R, D, P
  <2> QED
    BY <1>2, <2>1
<1>4. AtRest => R = {} /\ D = {} /\ P = {}
  <2> HIDE DEF R, D, P
  <2> QED
    BY <1>1, <1>3, FS_EmptySet
<1> QED
  BY <1>4 DEF Rest

LEMMA SerialInit == Init => SerialInv
BY DEF Init, SerialInv, ServesNone, Rest, AllFresh, Fresh

(* An arrival finds everything at rest and fresh, or ends the series. *)
LEMMA ArrivesServed ==
  ASSUME SerialInv, NEW p \in Processes, Arrives(p), serial'
  PROVE  Rest /\ AllFresh /\ AtHome(p)
BY RestIs DEF Arrives, SerialInv, ServesNone, ServesRead, ServesChange, ServesPayment,
   Rest, Reads, Decides, Pays, AtHome

(* Grants and events that stand, or change for other students only. *)
LEMMA FreshStays ==
  ASSUME NEW p \in Processes, NEW s \in Students, Fresh(p, s),
         cache'[p][s] = cache[p][s] \/ cache'[p][s] = NotCached,
         now \in Nat, now' \in Nat, now <= now',
         \A at : Supporting(s, at)' = Supporting(s, at)
  PROVE  Fresh(p, s)'
<1>1. SUFFICES ASSUME cache[p][s] # NotCached, cache'[p][s] = cache[p][s]
               PROVE  \E at \in 0..now' : cache[p][s].supporting = Supporting(s, at)'
  BY DEF Fresh
<1>2. PICK at \in 0..now : cache[p][s].supporting = Supporting(s, at)
  BY <1>1 DEF Fresh
<1>3. at \in 0..now' /\ Supporting(s, at)' = Supporting(s, at)
  BY <1>2
<1> QED
  BY <1>2, <1>3

LEMMA SupportingStays ==
  ASSUME UNCHANGED <<grants, events>>, NEW s, NEW at
  PROVE  Supporting(s, at)' = Supporting(s, at)
BY DEF Supporting, GrantsOf, Status, EventTypes

(* Issuing or ending one student's grant is nothing to the others. *)
LEMMA IssueLocal ==
  ASSUME TypeOK, NEW s \in Students, NEW source \in Sources,
         NEW key \in Orders \cup Requests, NEW w \in Windows, Issue(s, source, key, w),
         UNCHANGED events, NEW o \in Students, o # s, NEW at
  PROVE  Supporting(o, at)' = Supporting(o, at)
<1>1. grants \in Seq(GrantRow)
  BY DEF TypeOK
<1>2. /\ \A g \in DOMAIN grants : g \in DOMAIN grants' /\ grants'[g] = grants[g]
      /\ \A g \in DOMAIN grants' : g \in DOMAIN grants \/ grants'[g].student = s
  BY <1>1, IssueKeeps DEF Kept
<1>3. GrantsOf(o)' = GrantsOf(o)
  BY <1>2 DEF GrantsOf
<1>4. \A g \in GrantsOf(o) : grants'[g] = grants[g] /\ EventTypes(g)' = EventTypes(g)
  BY <1>2 DEF GrantsOf, EventTypes
<1> QED
  BY <1>3, <1>4 DEF Supporting, Status

LEMMA EventLocal ==
  ASSUME NEW g, NEW type, NEW actor, RecordEvent(g, type, actor), UNCHANGED grants,
         NEW o \in Students, grants[g].student # o, NEW at
  PROVE  Supporting(o, at)' = Supporting(o, at)
<1>1. \A h \in GrantsOf(o) : EventTypes(h)' = EventTypes(h)
  BY DEF GrantsOf, EventTypes, RecordEvent
<1>2. GrantsOf(o)' = GrantsOf(o)
  BY DEF GrantsOf
<1> QED
  BY <1>1, <1>2 DEF Supporting, Status

(* Who is busy is the one served. *)
LEMMA ServedRead ==
  ASSUME SerialInv, serial, NEW r \in Readers, reading[r] # Idle
  PROVE  Reads(r) /\ AtHome(reading[r].proc) /\ ReadFits(reading[r]) /\ AllFresh
BY DEF SerialInv, ServesNone, ServesRead, ServesChange, ServesPayment, Rest, Reads,
   Decides, Pays

LEMMA ServedChange ==
  ASSUME SerialInv, serial, NEW d \in Deciders, deciding[d] # Idle
  PROVE  /\ Decides(d) /\ AtHome(deciding[d].proc)
         /\ \A p \in Processes, s \in Students :
              \/ Fresh(p, s)
              \/ /\ deciding[d].pc = "invalidate"
                 /\ p = deciding[d].proc /\ s = deciding[d].request.student
BY DEF SerialInv, ServesNone, ServesRead, ServesChange, ServesPayment, Rest, Reads,
   Decides, Pays

LEMMA ServedPayment ==
  ASSUME SerialInv, serial, NEW t \in Payments, paying[t] # Idle
  PROVE  /\ Pays(t) /\ AtHome(paying[t].proc) /\ AllFresh
         /\ cache[paying[t].proc][Buyer[paying[t].order]] = NotCached
BY DEF SerialInv, ServesNone, ServesRead, ServesChange, ServesPayment, Rest, Reads,
   Decides, Pays


LEMMA FreshAll ==
  ASSUME AllFresh, now \in Nat, UNCHANGED <<grants, events, now>>,
         \A p \in Processes, s \in Students :
           cache'[p][s] = cache[p][s] \/ cache'[p][s] = NotCached
  PROVE  AllFresh'
<1> SUFFICES ASSUME NEW p \in Processes, NEW s \in Students PROVE Fresh(p, s)'
  BY DEF AllFresh
<1>1. Fresh(p, s)
  BY DEF AllFresh
<1>2. \A at : Supporting(s, at)' = Supporting(s, at)
  BY SupportingStays
<1> QED
  BY <1>1, <1>2, FreshStays

LEMMA QuerySerial ==
  ASSUME Inv, SerialInv, NEW r \in Readers, Query(r), serial'
  PROVE  SerialInv'
<1>0. /\ now \in 0..LastTime /\ now \in Nat
      /\ reading \in [Readers -> Reading] /\ cache \in [Processes -> [Students -> Cached]]
  BY WindowAssumption DEF Inv, TypeInv, TypeOK
<1>1. ASSUME NEW p \in Processes, NEW s \in Students, QueryArrives(r, p, s) PROVE SerialInv'
  <2> DEFINE c == [pc |-> "list", proc |-> p, student |-> s, at |-> now]
  <2>1. /\ Arrives(p) /\ reading' = [reading EXCEPT ![r] = c]
        /\ UNCHANGED <<grants, events, cache, deciding, paying, now>>
    BY <1>1 DEF QueryArrives, Read
  <2>2. Rest /\ AllFresh /\ AtHome(p)
    BY <2>1, ArrivesServed
  <2>3. reading'[r] = c /\ c # Idle
    BY <1>0, <2>1 DEF Idle
  <2>4. Reads(r)' /\ AtHome(reading[r].proc)' /\ ReadFits(reading[r])'
    BY <1>0, <2>1, <2>2, <2>3 DEF Rest, Reads, AtHome, ReadFits
  <2>5. AllFresh'
    BY <1>0, <2>1, <2>2, FreshAll
  <2> QED
    BY <2>4, <2>5 DEF SerialInv, ServesRead
<1>2. ASSUME NEW c, reading' = [reading EXCEPT ![r] = c], c # Idle, reading[r] # Idle,
             c.proc = reading[r].proc, ReadFits(c)', serial,
             UNCHANGED <<grants, events, cache, deciding, paying, now>>
      PROVE  SerialInv'
  <2>1. Reads(r) /\ AtHome(reading[r].proc) /\ AllFresh
    BY <1>2, ServedRead
  <2>2. reading'[r] = c /\ \A q \in Readers \ {r} : reading'[q] = reading[q]
    BY <1>0, <1>2
  <2>3. Reads(r)' /\ AtHome(reading[r].proc)' /\ ReadFits(reading[r])'
    BY <1>2, <2>1, <2>2 DEF Reads, AtHome, ReadFits
  <2>4. AllFresh'
    BY <1>0, <1>2, <2>1, FreshAll
  <2> QED
    BY <2>3, <2>4 DEF SerialInv, ServesRead
<1>3. ASSUME ListGrants(r) PROVE SerialInv'
  <2>1. PICK old : old = reading[r]
    OBVIOUS
  <2>2. PICK c : c = [pc |-> "events", proc |-> old.proc, student |-> old.student,
                      at |-> old.at, todo |-> GrantsOf(old.student), supporting |-> {}]
    OBVIOUS
  <2>3. /\ reading' = [reading EXCEPT ![r] = c] /\ old.pc = "list" /\ serial
        /\ UNCHANGED <<grants, events, cache, deciding, paying, now>>
    BY <1>3, <2>1, <2>2 DEF ListGrants, Read
  <2>4. old # Idle /\ c # Idle /\ c.proc = old.proc
    BY <2>2, <2>3 DEF Idle
  <2>5. ReadFits(old)
    BY <2>1, <2>3, <2>4, ServedRead
  <2>6. ReadFits(c)'
    BY <2>2, <2>3, <2>5 DEF ReadFits, GrantsOf
  <2> QED
    BY <1>2, <2>1, <2>3, <2>4, <2>6
<1>4. ASSUME NEW g \in DOMAIN grants, ListEvents(r, g) PROVE SerialInv'
  <2>1. PICK old : old = reading[r]
    OBVIOUS
  <2>2. PICK found :
          found = IF Status(grants[g], EventTypes(g), old.at) = "active"
                  THEN old.supporting \cup {g} ELSE old.supporting
    OBVIOUS
  <2>3. PICK c : c = [old EXCEPT !.todo = old.todo \ {g}, !.supporting = found]
    OBVIOUS
  <2>4. /\ reading' = [reading EXCEPT ![r] = c] /\ old.pc = "events" /\ g \in old.todo /\ serial
        /\ UNCHANGED <<grants, events, cache, deciding, paying, now>>
    BY <1>0, <1>4, <2>1, <2>2, <2>3 DEF ListEvents, Read
  <2>5. /\ old # Idle
        /\ old \in [pc : {"events"}, proc : Processes, student : Students,
                    at : 0..LastTime, todo : SUBSET DOMAIN grants,
                    supporting : SUBSET DOMAIN grants]
    BY <1>0, <2>1, <2>4, ReadingKind DEF Idle
  <2>6. /\ c.pc = "events" /\ c.proc = old.proc /\ c.student = old.student /\ c.at = old.at
        /\ c.todo = old.todo \ {g} /\ c.supporting = found
    BY <2>3, <2>5
  <2>7. ReadFits(old)
    BY <2>1, <2>4, <2>5, ServedRead
  <2>8. found = {h \in GrantsOf(old.student) \ (old.todo \ {g}) :
                   Status(grants[h], EventTypes(h), old.at) = "active"}
    BY <2>2, <2>4, <2>7 DEF ReadFits
  <2>9. /\ GrantsOf(c.student)' = GrantsOf(c.student)
        /\ \A h : Status(grants[h], EventTypes(h), c.at)' = Status(grants[h], EventTypes(h), c.at)
    BY <2>4 DEF GrantsOf, EventTypes, Status
  <2>10. ReadFits(c)'
    BY <2>4, <2>6, <2>7, <2>8, <2>9 DEF ReadFits
  <2>11. c # Idle
    BY <2>6 DEF Idle
  <2> QED
    BY <1>2, <2>1, <2>4, <2>5, <2>6, <2>10, <2>11
<1>5. ASSUME StoreDecision(r) PROVE SerialInv'
  <2>1. PICK c, entry : c = reading[r] /\ entry = [cached |-> TRUE, supporting |-> c.supporting]
    OBVIOUS
  <2>2. /\ c.pc = "events" /\ c.todo = {} /\ serial
        /\ cache' = [cache EXCEPT ![c.proc][c.student] = entry]
        /\ reading' = [reading EXCEPT ![r] = Idle]
        /\ UNCHANGED <<grants, events, deciding, paying, now>>
    BY <1>5, <2>1 DEF StoreDecision, Read
  <2>3. c.proc \in Processes /\ c.student \in Students /\ c # Idle
    BY <1>0, <2>1, <2>2, ReadingKind DEF Idle
  <2>4. Reads(r) /\ ReadFits(c) /\ AllFresh
    BY <2>1, <2>2, <2>3, ServedRead
  <2>5. c.supporting = Supporting(c.student, c.at) /\ c.at \in 0..now
    BY <2>2, <2>4 DEF ReadFits, Supporting
  <2>6. Rest'
    BY <1>0, <2>2, <2>4 DEF Reads, Rest
  <2>7. ASSUME NEW p \in Processes, NEW s \in Students PROVE Fresh(p, s)'
    <3>1. \A at : Supporting(s, at)' = Supporting(s, at)
      BY <2>2, SupportingStays
    <3>2. CASE p = c.proc /\ s = c.student
      <4>1. cache'[p][s].supporting = c.supporting
        BY <1>0, <2>1, <2>2, <2>3, <3>2
      <4>2. c.at \in 0..now' /\ c.supporting = Supporting(s, c.at)'
        BY <2>2, <2>5, <3>1, <3>2
      <4> QED
        BY <4>1, <4>2 DEF Fresh
    <3>3. CASE ~(p = c.proc /\ s = c.student)
      <4>1. cache'[p][s] = cache[p][s]
        BY <1>0, <2>2, <2>3, <3>3
      <4>2. Fresh(p, s) /\ now' \in Nat /\ now <= now'
        BY <1>0, <2>2, <2>4 DEF AllFresh
      <4> QED
        BY <1>0, <3>1, <4>1, <4>2, FreshStays
    <3> QED
      BY <3>2, <3>3
  <2> QED
    BY <2>6, <2>7 DEF SerialInv, ServesNone, AllFresh
<1> QED
  BY <1>1, <1>3, <1>4, <1>5 DEF Query

LEMMA PaySerial ==
  ASSUME Inv, SerialInv, NEW t \in Payments, Pay(t), serial'
  PROVE  SerialInv'
<1>0. /\ TypeOK /\ now \in Nat /\ paying \in [Payments -> Paying] /\ paying[t] \in Paying
      /\ cache \in [Processes -> [Students -> Cached]] /\ grants \in Seq(GrantRow)
  BY WindowAssumption DEF Inv, TypeInv, TypeOK
<1>1. ASSUME NEW p \in Processes, NEW o \in Orders, NEW w \in Windows,
             NEW effect \in {"issued", "suspended", "revoked"},
             PaymentArrives(t, p, o, effect, w)
      PROVE  SerialInv'
  <2> DEFINE c == [pc |-> "commit", proc |-> p, order |-> o, effect |-> effect, window |-> w]
  <2>1. /\ Arrives(p) /\ paying' = [paying EXCEPT ![t] = c]
        /\ cache' = [cache EXCEPT ![p][Buyer[o]] = NotCached]
        /\ UNCHANGED <<grants, events, reading, deciding, now>>
    BY <1>1 DEF PaymentArrives, InvalidateUser
  <2>2. Rest /\ AllFresh /\ AtHome(p)
    BY <2>1, ArrivesServed
  <2>3. /\ \A q \in Processes, s \in Students :
             cache'[q][s] = cache[q][s] \/ cache'[q][s] = NotCached
        /\ cache'[p][Buyer[o]] = NotCached
    BY <1>0, <2>1, SourceAssumption
  <2>4. paying'[t] = c /\ c # Idle
    BY <1>0, <2>1 DEF Idle
  <2>5. Pays(t)'
    BY <1>0, <2>1, <2>2, <2>4 DEF Rest, Pays
  <2>6. AtHome(paying[t].proc)' /\ cache'[paying'[t].proc][Buyer[paying'[t].order]] = NotCached
    BY <2>2, <2>3, <2>4 DEF AtHome
  <2>7. AllFresh'
    BY <1>0, <2>1, <2>2, <2>3, FreshAll
  <2> QED
    BY <2>5, <2>6, <2>7 DEF SerialInv, ServesPayment
<1>2. ASSUME PaymentCommits(t) PROVE SerialInv'
  <2> DEFINE c == paying[t]
             buyer == Buyer[c.order]
  <2>1. /\ c.pc = "commit" /\ serial /\ paying' = [paying EXCEPT ![t] = Idle]
        /\ UNCHANGED <<cache, reading, deciding, now>>
    BY <1>2 DEF PaymentCommits
  <2>2. c.order \in Orders /\ c.window \in Windows /\ c # Idle /\ buyer \in Students
        /\ Purchase(c.order) \in Sources
    BY <1>0, <2>1, PayingKind, SourceAssumption DEF Idle, Sources
  <2>3. Pays(t) /\ AtHome(c.proc) /\ AllFresh /\ cache[c.proc][buyer] = NotCached
    BY <2>1, <2>2, ServedPayment
  <2>4. ASSUME NEW s \in Students, s # buyer, NEW at PROVE Supporting(s, at)' = Supporting(s, at)
    <3>1. CASE c.effect = "issued"
      <4>1. Issue(buyer, Purchase(c.order), c.order, c.window) /\ UNCHANGED events
        BY <1>2, <3>1 DEF PaymentCommits
      <4> QED
        BY <1>0, <2>2, <2>4, <4>1, IssueLocal
    <3>2. CASE c.effect # "issued"
      <4>1. PICK g \in Keyed(buyer, Purchase(c.order), c.order) :
              RecordEvent(g, c.effect, Purchase(c.order)) /\ UNCHANGED grants
        BY <1>2, <3>2 DEF PaymentCommits
      <4>2. grants[g].student # s
        BY <2>4, <4>1 DEF Keyed, GrantsOf
      <4> QED
        BY <4>1, <4>2, EventLocal
    <3> QED
      BY <3>1, <3>2
  <2>5. ASSUME NEW p \in Processes, NEW s \in Students PROVE Fresh(p, s)'
    <3>1. CASE s = buyer
      <4>1. cache[p][s] = NotCached
        BY <2>3, <3>1 DEF AtHome
      <4> QED
        BY <2>1, <4>1 DEF Fresh
    <3>2. CASE s # buyer
      BY <1>0, <2>1, <2>3, <2>4, <3>2, FreshStays DEF AllFresh
    <3> QED
      BY <3>1, <3>2
  <2>6. Rest'
    BY <1>0, <2>1, <2>3 DEF Pays, Rest
  <2> QED
    BY <2>5, <2>6 DEF SerialInv, ServesNone, AllFresh
<1> QED
  BY <1>1, <1>2 DEF Pay


(* A decider that goes on without touching grants, events or the cache.    *)
LEMMA DeciderGoesOn ==
  ASSUME Inv, SerialInv, NEW d \in Deciders, NEW c, deciding' = [deciding EXCEPT ![d] = c],
         deciding[d].pc \in {"execute", "record"}, serial,
         c = Idle \/ (c.pc # "idle" /\ c.proc = deciding[d].proc),
         UNCHANGED <<grants, events, cache, reading, paying, now>>
  PROVE  SerialInv'
<1>0. now \in Nat /\ deciding \in [Deciders -> Deciding]
  BY WindowAssumption DEF Inv, TypeInv, TypeOK
<1>1. Decides(d) /\ AtHome(deciding[d].proc) /\ AllFresh
  BY ServedChange DEF Idle, AllFresh
<1>2. AllFresh'
  BY <1>0, <1>1, FreshAll
<1>3. deciding'[d] = c /\ \A e \in Deciders \ {d} : deciding'[e] = Idle
  BY <1>0, <1>1 DEF Decides
<1>4. CASE c = Idle
  <2>1. Rest'
    BY <1>1, <1>3, <1>4 DEF Rest, Decides
  <2> QED
    BY <1>2, <2>1 DEF SerialInv, ServesNone
<1>5. CASE c.pc # "idle" /\ c.proc = deciding[d].proc
  <2>1. Decides(d)' /\ AtHome(deciding[d].proc)'
    BY <1>1, <1>3, <1>5 DEF Decides, AtHome, Idle
  <2> QED
    BY <1>2, <2>1 DEF SerialInv, ServesChange, AllFresh
<1> QED
  BY <1>4, <1>5

(* A change that is executed leaves at most its own entry stale.           *)
LEMMA DeciderExecutes ==
  ASSUME Inv, SerialInv, NEW d \in Deciders, deciding[d].pc = "execute", Executed(d), serial,
         UNCHANGED <<cache, reading, paying, now>>,
         \A s \in Students : \A at :
           s # deciding[d].request.student => Supporting(s, at)' = Supporting(s, at)
  PROVE  SerialInv'
<1> DEFINE c == [pc |-> "invalidate", proc |-> deciding[d].proc, request |-> deciding[d].request]
<1>0. now \in Nat /\ deciding \in [Deciders -> Deciding]
  BY WindowAssumption DEF Inv, TypeInv, TypeOK
<1>1. Decides(d) /\ AtHome(deciding[d].proc) /\ AllFresh
  BY ServedChange DEF Idle, AllFresh
<1>2. /\ deciding'[d].pc = "invalidate" /\ deciding'[d].proc = deciding[d].proc
      /\ deciding'[d].request = deciding[d].request
      /\ \A e \in Deciders \ {d} : deciding'[e] = Idle
  BY <1>0, <1>1 DEF Decides, Executed, Decide
<1>3. Decides(d)' /\ AtHome(deciding[d].proc)'
  BY <1>1, <1>2 DEF Decides, AtHome, Idle
<1>4. ASSUME NEW p \in Processes, NEW s \in Students,
             ~(p = deciding[d].proc /\ s = deciding[d].request.student)
      PROVE  Fresh(p, s)'
  <2>1. CASE p # deciding[d].proc
    BY <1>1, <2>1 DEF AtHome, Fresh
  <2>2. CASE s # deciding[d].request.student
    <3>1. Fresh(p, s) /\ \A at : Supporting(s, at)' = Supporting(s, at)
      BY <1>1, <2>2 DEF AllFresh
    <3> QED
      BY <1>0, <3>1, FreshStays
  <2> QED
    BY <1>4, <2>1, <2>2
<1> QED
  BY <1>2, <1>3, <1>4 DEF SerialInv, ServesChange

LEMMA ChangeSerial ==
  ASSUME Inv, SerialInv, NEW d \in Deciders, Change(d), serial'
  PROVE  SerialInv'
<1>0. /\ TypeOK /\ now \in Nat /\ deciding \in [Deciders -> Deciding] /\ deciding[d] \in Deciding
      /\ cache \in [Processes -> [Students -> Cached]] /\ grants \in Seq(GrantRow)
      /\ DecidesRequests /\ RequestsGrounded /\ requests \subseteq RequestRow
  BY WindowAssumption DEF Inv, TypeInv, TypeOK
<1>1. ASSUME NEW p \in Processes, NEW x \in requests, NEW u \in Staff,
             NEW o \in {"approved", "rejected"}, DecideArrives(d, p, x, u, o)
      PROVE  SerialInv'
  <2> DEFINE reject == [pc |-> "record", proc |-> p,
                        decision |-> [request |-> x.id, outcome |-> "rejected",
                                      execution |-> "none"]]
             approve == [pc |-> "execute", proc |-> p, request |-> x]
  <2>1. PICK c : /\ deciding' = [deciding EXCEPT ![d] = c] /\ c.proc = p /\ c # Idle
                 /\ c.pc # "invalidate"
    <3>1. deciding' = [deciding EXCEPT ![d] = IF o = "rejected" THEN reject ELSE approve]
      BY <1>1 DEF DecideArrives, Decide
    <3>2. \A c \in {reject, approve} : c.proc = p /\ c # Idle /\ c.pc # "invalidate"
      BY DEF Idle
    <3> HIDE DEF reject, approve
    <3> QED
      BY <3>1, <3>2
  <2>2. Arrives(p) /\ UNCHANGED <<grants, events, cache, reading, paying, now>>
    BY <1>1 DEF DecideArrives
  <2>3. Rest /\ AllFresh /\ AtHome(p)
    BY <2>2, ArrivesServed
  <2>4. AllFresh'
    BY <1>0, <2>2, <2>3, FreshAll
  <2>5. Decides(d)' /\ AtHome(deciding[d].proc)'
    BY <1>0, <2>1, <2>2, <2>3 DEF Rest, Decides, AtHome
  <2> QED
    BY <2>4, <2>5 DEF SerialInv, ServesChange, AllFresh
<1>2. ASSUME ExecuteGrant(d) PROVE SerialInv'
  <2>1. PICK x : x = deciding[d].request
    OBVIOUS
  <2>2. /\ deciding[d].pc = "execute" /\ x.type = "manual_grant" /\ Executed(d) /\ serial
        /\ Issue(x.student, Manual(x.student), x.id, x.window)
        /\ UNCHANGED <<events, cache, reading, paying, now>>
    BY <1>2, <2>1 DEF ExecuteGrant
  <2>3. /\ x.student \in Students /\ x.id \in Requests /\ x.window \in Windows
        /\ Manual(x.student) \in Sources
    BY <1>0, <2>1, <2>2, DecidingKind, RequestKind DEF Sources
  <2>4. ASSUME NEW s \in Students, s # x.student, NEW at
        PROVE  Supporting(s, at)' = Supporting(s, at)
    BY <1>0, <2>2, <2>3, <2>4, IssueLocal
  <2> QED
    BY <2>1, <2>2, <2>4, DeciderExecutes
<1>3. ASSUME ExecuteRevocation(d) PROVE SerialInv'
  <2>1. PICK x : x = deciding[d].request
    OBVIOUS
  <2>2. /\ deciding[d].pc = "execute" /\ x.type = "manual_revocation" /\ Executed(d) /\ serial
        /\ grants[x.grant].source = Manual(x.student)
        /\ RecordEvent(x.grant, "revoked", Manual(x.student))
        /\ UNCHANGED <<grants, cache, reading, paying, now>>
    BY <1>3, <2>1 DEF ExecuteRevocation, IsOwnedBy
  <2>3. x.grant \in DOMAIN grants
    BY <1>0, <2>1, <2>2 DEF DecidesRequests, RequestsGrounded
  <2>4. grants[x.grant].student = x.student
    <3>1. grants[x.grant].source[1] = "manual"
      BY <2>2 DEF Manual
    <3>2. grants[x.grant].source = Manual(grants[x.grant].student)
      BY <2>3, <3>1 DEF Inv, GrantsInv, KeysFitSources, Purchase
    <3> QED
      BY <2>2, <3>2 DEF Manual
  <2>5. ASSUME NEW s \in Students, s # x.student, NEW at
        PROVE  Supporting(s, at)' = Supporting(s, at)
    BY <2>2, <2>4, <2>5, EventLocal
  <2> QED
    BY <2>1, <2>2, <2>5, DeciderExecutes
<1>4. ASSUME ExecutionFails(d) \/ RecordDecision(d) PROVE SerialInv'
  <2>1. PICK c : /\ deciding' = [deciding EXCEPT ![d] = c]
                 /\ c = Idle \/ (c.pc # "idle" /\ c.proc = deciding[d].proc)
    <3>1. CASE ExecutionFails(d)
      <4>1. PICK c : /\ deciding' = [deciding EXCEPT ![d] = c]
                     /\ c = [pc |-> "record", proc |-> deciding[d].proc,
                             decision |-> [request |-> deciding[d].request.id,
                                           outcome |-> "approved",
                                           execution |-> "execution_failed"]]
        BY <3>1 DEF ExecutionFails, Approved, Decide
      <4>2. c.pc = "record" /\ c.proc = deciding[d].proc
        BY <4>1
      <4> QED
        BY <4>1, <4>2
    <3>2. CASE RecordDecision(d)
      <4>1. deciding' = [deciding EXCEPT ![d] = Idle]
        BY <3>2, Zenon DEF RecordDecision, Decide
      <4>2. PICK c : c = Idle
        OBVIOUS
      <4>3. deciding' = [deciding EXCEPT ![d] = c]
        BY <4>1, <4>2
      <4> QED
        BY <4>2, <4>3, Zenon
    <3> QED
      BY <1>4, <3>1, <3>2
  <2>2. /\ deciding[d].pc \in {"execute", "record"} /\ serial
        /\ UNCHANGED <<grants, events, cache, reading, paying, now>>
    BY <1>4 DEF ExecutionFails, RecordDecision
  <2> QED
    BY <2>1, <2>2, DeciderGoesOn
<1>5. ASSUME InvalidateDecided(d) PROVE SerialInv'
  <2>1. PICK p, s : p = deciding[d].proc /\ s = deciding[d].request.student
    OBVIOUS
  <2>2. /\ deciding[d].pc = "invalidate" /\ serial /\ Approved(d, "executed")
        /\ cache' = [cache EXCEPT ![p][s] = NotCached]
        /\ UNCHANGED <<grants, events, reading, paying, now>>
    BY <1>5, <2>1 DEF InvalidateDecided, InvalidateUser
  <2>3. p \in Processes /\ s \in Students
    BY <1>0, <2>1, <2>2, DecidingKind, RequestKind
  <2>4. /\ Decides(d) /\ AtHome(p)
        /\ \A q \in Processes, o \in Students : Fresh(q, o) \/ (q = p /\ o = s)
    BY <2>1, <2>2, ServedChange DEF Idle
  <2>5. /\ cache'[p][s] = NotCached
        /\ \A q \in Processes, o \in Students :
             cache'[q][o] = cache[q][o] \/ cache'[q][o] = NotCached
    BY <1>0, <2>2, <2>3
  <2>6. /\ deciding'[d].pc = "record" /\ deciding'[d].proc = p
        /\ \A e \in Deciders \ {d} : deciding'[e] = Idle
    BY <1>0, <2>1, <2>2, <2>4 DEF Decides, Approved, Decide
  <2>7. Decides(d)' /\ AtHome(deciding[d].proc)'
    BY <2>2, <2>4, <2>5, <2>6 DEF Decides, AtHome, Idle
  <2>8. ASSUME NEW q \in Processes, NEW o \in Students PROVE Fresh(q, o)'
    <3>1. CASE q = p /\ o = s
      BY <2>5, <3>1 DEF Fresh
    <3>2. CASE ~(q = p /\ o = s)
      <4>1. Fresh(q, o) /\ \A at : Supporting(o, at)' = Supporting(o, at)
        BY <2>2, <2>4, <3>2, SupportingStays
      <4> QED
        BY <1>0, <2>2, <2>5, <4>1, FreshStays
    <3> QED
      BY <3>1, <3>2
  <2> QED
    BY <2>7, <2>8 DEF SerialInv, ServesChange
<1> QED
  BY <1>1, <1>2, <1>3, <1>4, <1>5 DEF Change

(* A process that dies takes its cache and its requests along.             *)
LEMMA CrashSerial ==
  ASSUME Inv, SerialInv, NEW p \in Processes, Crash(p), serial'
  PROVE  SerialInv'
<1>0. now \in Nat /\ cache \in [Processes -> [Students -> Cached]]
  BY WindowAssumption DEF Inv, TypeInv, TypeOK
<1>1. /\ serial /\ UNCHANGED <<grants, events, now>>
      /\ \A s \in Students : cache'[p][s] = NotCached
      /\ \A q \in Processes, s \in Students :
           cache'[q][s] = cache[q][s] \/ cache'[q][s] = NotCached
  BY <1>0 DEF Crash
<1>2. /\ \A r \in Readers : reading'[r] = IF reading[r] = Idle \/ reading[r].proc # p
                                         THEN reading[r] ELSE Idle
      /\ \A d \in Deciders : deciding'[d] = IF deciding[d] = Idle \/ deciding[d].proc # p
                                           THEN deciding[d] ELSE Idle
      /\ \A t \in Payments : paying'[t] = IF paying[t] = Idle \/ paying[t].proc # p
                                         THEN paying[t] ELSE Idle
  BY DEF Crash
<1>3. ASSUME NEW q \in Processes, NEW s \in Students, Fresh(q, s) \/ q = p PROVE Fresh(q, s)'
  <2>1. CASE q = p
    BY <1>1, <2>1 DEF Fresh
  <2>2. CASE Fresh(q, s)
    <3>1. \A at : Supporting(s, at)' = Supporting(s, at)
      BY <1>1, SupportingStays
    <3> QED
      BY <1>0, <1>1, <2>2, <3>1, FreshStays
  <2> QED
    BY <1>3, <2>1, <2>2
<1>4. CASE ServesNone
  <2>1. Rest'
    BY <1>2, <1>4 DEF ServesNone, Rest
  <2>2. AllFresh'
    BY <1>3, <1>4 DEF ServesNone, AllFresh
  <2> QED
    BY <2>1, <2>2 DEF SerialInv, ServesNone
<1>5. CASE ServesRead
  <2>1. PICK r \in Readers :
          Reads(r) /\ AtHome(reading[r].proc) /\ ReadFits(reading[r]) /\ AllFresh
    BY <1>5 DEF ServesRead
  <2>2. AllFresh'
    BY <1>3, <2>1 DEF AllFresh
  <2>3. CASE reading[r].proc = p
    <3>1. Rest'
      BY <1>2, <2>1, <2>3 DEF Reads, Rest
    <3> QED
      BY <2>2, <3>1 DEF SerialInv, ServesNone
  <2>4. CASE reading[r].proc # p
    <3>1. reading'[r] = reading[r] /\ Reads(r)'
      BY <1>2, <2>1, <2>4 DEF Reads
    <3>2. AtHome(reading[r].proc)'
      BY <1>1, <2>1, <3>1 DEF AtHome
    <3>3. ReadFits(reading[r])'
      BY <1>1, <2>1, <3>1 DEF ReadFits, GrantsOf, EventTypes, Status
    <3> QED
      BY <2>2, <3>1, <3>2, <3>3 DEF SerialInv, ServesRead
  <2> QED
    BY <2>3, <2>4
<1>6. CASE ServesChange
  <2>1. PICK d \in Deciders :
          /\ Decides(d) /\ AtHome(deciding[d].proc)
          /\ \A q \in Processes, s \in Students :
               \/ Fresh(q, s)
               \/ /\ deciding[d].pc = "invalidate"
                  /\ q = deciding[d].proc /\ s = deciding[d].request.student
    BY <1>6 DEF ServesChange
  <2>2. CASE deciding[d].proc = p
    <3>1. Rest'
      BY <1>2, <2>1, <2>2 DEF Decides, Rest
    <3>2. AllFresh'
      BY <1>3, <2>1, <2>2 DEF AllFresh
    <3> QED
      BY <3>1, <3>2 DEF SerialInv, ServesNone
  <2>3. CASE deciding[d].proc # p
    <3>1. deciding'[d] = deciding[d] /\ Decides(d)'
      BY <1>2, <2>1, <2>3 DEF Decides
    <3>2. AtHome(deciding[d].proc)'
      BY <1>1, <2>1, <3>1 DEF AtHome
    <3> QED
      BY <1>3, <2>1, <3>1, <3>2 DEF SerialInv, ServesChange
  <2> QED
    BY <2>2, <2>3
<1>7. CASE ServesPayment
  <2>1. PICK t \in Payments :
          /\ Pays(t) /\ AtHome(paying[t].proc) /\ AllFresh
          /\ cache[paying[t].proc][Buyer[paying[t].order]] = NotCached
    BY <1>7 DEF ServesPayment
  <2>2. AllFresh'
    BY <1>3, <2>1 DEF AllFresh
  <2>3. CASE paying[t].proc = p
    <3>1. Rest'
      BY <1>2, <2>1, <2>3 DEF Pays, Rest
    <3> QED
      BY <2>2, <3>1 DEF SerialInv, ServesNone
  <2>4. CASE paying[t].proc # p
    <3>1. paying'[t] = paying[t] /\ Pays(t)'
      BY <1>2, <2>1, <2>4 DEF Pays
    <3>2. AtHome(paying[t].proc)'
      BY <1>1, <2>1, <3>1 DEF AtHome
    <3>3. paying[t] \in Paying /\ paying[t].pc = "commit"
      BY <2>1 DEF Inv, TypeInv, TypeOK, Paying, Pays
    <3>4. paying[t].proc \in Processes /\ Buyer[paying[t].order] \in Students
      BY <3>3, SourceAssumption DEF Paying, Idle
    <3>5. cache'[paying'[t].proc][Buyer[paying'[t].order]] = NotCached
      BY <1>1, <2>1, <3>1, <3>4
    <3> QED
      BY <2>2, <3>1, <3>2, <3>5 DEF SerialInv, ServesPayment
  <2> QED
    BY <2>3, <2>4
<1> QED
  BY <1>1, <1>4, <1>5, <1>6, <1>7 DEF SerialInv

(* Time alone only adds instants at which a decision may have been right.  *)
LEMMA TimeSerial ==
  ASSUME Inv, SerialInv, serial, now = now' \/ now' = now + 1,
         UNCHANGED <<grants, events, cache, actors>>
  PROVE  SerialInv'
<1>0. now \in Nat /\ now' \in Nat /\ now <= now'
  BY WindowAssumption DEF Inv, TypeInv, TypeOK
<1>1. ASSUME NEW p \in Processes, NEW s \in Students, Fresh(p, s) PROVE Fresh(p, s)'
  BY <1>0, <1>1, FreshStays, SupportingStays
<1>2. ASSUME NEW c, ReadFits(c) PROVE ReadFits(c)'
  BY <1>0, <1>2 DEF ReadFits, GrantsOf, EventTypes, Status
<1>3. ServesNone => ServesNone'
  BY <1>1 DEF ServesNone, Rest, AllFresh, actors
<1>4. ServesRead => ServesRead'
  <2> SUFFICES ASSUME NEW r \in Readers, Reads(r), AtHome(reading[r].proc),
                      ReadFits(reading[r]), AllFresh
               PROVE  ServesRead'
    BY DEF ServesRead
  <2>1. PICK c : c = reading[r] /\ c = reading'[r]
    BY DEF actors
  <2>2. ReadFits(c)'
    BY <1>2, <2>1
  <2>3. ReadFits(reading[r])'
    BY <2>1, <2>2 DEF ReadFits, GrantsOf, EventTypes, Status
  <2> QED
    BY <1>1, <2>3 DEF ServesRead, Reads, AtHome, AllFresh, actors
<1>5. ServesChange => ServesChange'
  BY <1>1 DEF ServesChange, Decides, AtHome, actors
<1>6. ServesPayment => ServesPayment'
  BY <1>1 DEF ServesPayment, Pays, AtHome, AllFresh, actors
<1> QED
  BY <1>3, <1>4, <1>5, <1>6 DEF SerialInv

LEMMA SerialStep == Inv /\ SerialInv /\ [Next]_vars => SerialInv'
<1> SUFFICES ASSUME Inv, SerialInv, [Next]_vars, serial' PROVE SerialInv'
  BY DEF SerialInv
<1>0. now \in Nat
  BY WindowAssumption DEF Inv, TypeInv, TypeOK
<1>1. ASSUME NEW q \in Requests, NEW u \in Staff, NEW s \in Students,
             \/ \E w \in Windows : RequestGrant(q, u, s, w)
             \/ \E g \in DOMAIN grants : RequestRevocation(q, u, s, g)
      PROVE  SerialInv'
  <2>1. serial /\ UNCHANGED <<grants, events, cache, actors, now>>
    BY <1>1, Zenon DEF RequestGrant, RequestRevocation
  <2> QED
    BY <1>0, <2>1, TimeSerial
<1>2. CASE Tick
  <2>1. serial /\ UNCHANGED <<grants, events, cache, actors>>
    BY <1>2, Zenon DEF Tick
  <2>2. now' = now + 1
    BY <1>2 DEF Tick
  <2> QED
    BY <1>0, <2>1, <2>2, TimeSerial
<1>3. CASE UNCHANGED vars
  <2>1. serial /\ UNCHANGED <<grants, events, cache, actors, now>>
    BY <1>3, Zenon DEF vars
  <2> QED
    BY <1>0, <2>1, TimeSerial
<1> QED
  BY <1>1, <1>2, <1>3, QuerySerial, PaySerial, ChangeSerial, CrashSerial DEF Next

(* getEffectiveAccess: while requests run one at a time on the one process *)
(* that caches, a cached decision is what a read would have found at some  *)
(* time since, whatever is paid, granted, revoked or dies.                 *)
THEOREM CacheIsFresh == Spec => []SerialCacheIsFresh
<1>1. Spec => [](Inv /\ SerialInv)
  BY InitInv, NextInv, SerialInit, SerialStep, PTL DEF Spec
<1>2. SerialInv => SerialCacheIsFresh
  <2> SUFFICES ASSUME SerialInv, serial, AtRest PROVE AllFresh
    BY DEF SerialCacheIsFresh, AllFresh, Fresh
  <2> QED
    BY RestIs DEF SerialInv, ServesNone, ServesRead, ServesChange, ServesPayment, Rest,
       Reads, Decides, Pays
<1> QED
  BY <1>1, <1>2, PTL

=============================================================================
