------------------------------- MODULE Access -------------------------------
(***************************************************************************)
(* Access grants, the effective-access cache of each server process, and   *)
(* the manual change workflow (packages/db/src/access/).                   *)
(*                                                                         *)
(* A query that misses the cache reads the student's grants, then each     *)
(* grant's events, and stores the decision in its process's cache.  A      *)
(* manual change is checked, executed, and recorded in separate commits,   *)
(* and invalidates after it executes; a purchase's transaction invalidates *)
(* before it commits.  Invalidation reaches only the writer's own process. *)
(*                                                                         *)
(* Abstracted: every grant claims the one target queried; a decision is    *)
(* the set of grants that support it (allowed when there is one); role     *)
(* checks are membership of Staff; a purchase has one component, and what  *)
(* an event does to its grant is decided in Commerce; an extension is a    *)
(* manual grant; the preview of a change request is an ordinary query.     *)
(***************************************************************************)
EXTENDS Integers, Sequences, FiniteSets

CONSTANTS Students,    \* users who hold access
          Orders,      \* purchases
          Buyer,       \* the student each order is bound to
          Requests,    \* manual change request ids
          Staff,       \* users holding access.manual.change
          Windows,     \* validity windows: [from, to], to > LastTime is open-ended
          Processes,   \* server processes, each with its own cache
          Readers,     \* concurrent access queries
          Deciders,    \* concurrent decision requests
          Payments,    \* concurrent purchase transactions
          MaxBusy,     \* bound on the requests served at once
          LastTime     \* bound on the clock

ASSUME SourceAssumption == Orders \cap Requests = {} /\ Buyer \in [Orders -> Students]
ASSUME WindowAssumption ==
  LastTime \in Nat /\ \A w \in Windows : w.from \in 0..LastTime /\ w.to \in 1..(LastTime + 1)

ASSUME ActorsAssumption ==
  IsFiniteSet(Readers) /\ IsFiniteSet(Deciders) /\ IsFiniteSet(Payments)

VARIABLES grants,     \* access_grants, in creation order
          events,     \* grant_events
          requests,   \* access_change_requests
          decisions,  \* access_change_decisions
          cache,      \* each process's cached decision for each student
          reading,    \* what each access query is doing
          deciding,   \* what each decision request is doing
          paying,     \* what each purchase transaction is doing
          now,        \* the server clock
          serial      \* history: so far requests ran one at a time, on one process

actors == <<reading, deciding, paying>>
vars == <<grants, events, requests, decisions, cache, actors, now, serial>>

NotCached == [cached |-> FALSE]
Idle == [pc |-> "idle"]

(* The manual channel of a student, and a purchase. *)
Manual(s) == <<"manual", s>>
Purchase(o) == <<"purchase", o>>

Busy == Cardinality({r \in Readers : reading[r] # Idle})
        + Cardinality({d \in Deciders : deciding[d] # Idle})
        + Cardinality({t \in Payments : paying[t] # Idle})
AtRest == Busy = 0

(* A request arrives at process p. *)
Arrives(p) ==
  /\ Busy < MaxBusy
  /\ serial' = (/\ serial /\ AtRest
             /\ \A q \in Processes \ {p}, s \in Students : cache[q][s] = NotCached)

----------------------------------------------------------------------------
(* deriveGrantStatus.  No caller reinstates, cancels or activates a grant. *)
Status(row, types, at) ==
  IF "revoked" \in types THEN "revoked"
  ELSE IF "suspended" \in types THEN "suspended"
  ELSE IF row.from > at THEN "scheduled"
  ELSE IF row.to <= at THEN "expired"
  ELSE "active"

EventTypes(g) == {e.type : e \in {x \in events : x.grant = g}}
GrantsOf(s) == {g \in DOMAIN grants : grants[g].student = s}

(* resolveEffectiveAccess on what the database holds now. *)
Supporting(s, at) ==
  {g \in GrantsOf(s) : Status(grants[g], EventTypes(g), at) = "active"}

Keyed(s, source, key) == {g \in GrantsOf(s) : /\ grants[g].source[1] = source[1]
                                              /\ grants[g].key = key}

(* A broken issue: nothing makes a second issue under a key idempotent. *)
IssueAgain(s, source, key, w) ==
  grants' = Append(grants, [student |-> s, source |-> source, key |-> key,
                            from |-> w.from, to |-> w.to])

(* issueGrant: the row under the source's key is inserted once. *)
Issue(s, source, key, w) ==
  grants' = IF Keyed(s, source, key) # {} THEN grants
            ELSE Append(grants, [student |-> s, source |-> source, key |-> key,
                                 from |-> w.from, to |-> w.to])

(* A broken ownership check. *)
OwnedByStudent(g, actor) == grants[g].student = actor[2]

IsOwnedBy(g, actor) == grants[g].source = actor

RecordEvent(g, type, actor) ==
  events' = events \cup {[grant |-> g, type |-> type, actor |-> actor]}

(* A broken invalidation: it does nothing. *)
InvalidateNothing(p, s) == UNCHANGED cache

InvalidateUser(p, s) == cache' = [cache EXCEPT ![p][s] = NotCached]

----------------------------------------------------------------------------
(* getEffectiveAccess.  A cache hit reads nothing. *)
Read(r, c) == reading' = [reading EXCEPT ![r] = c]

QueryArrives(r, p, s) ==
  /\ reading[r] = Idle
  /\ cache[p][s] = NotCached
  /\ Arrives(p)
  /\ Read(r, [pc |-> "list", proc |-> p, student |-> s, at |-> now])
  /\ UNCHANGED <<grants, events, requests, decisions, cache, deciding, paying, now>>

ListGrants(r) ==
  LET c == reading[r]
  IN /\ c.pc = "list"
     /\ Read(r, [pc |-> "events", proc |-> c.proc, student |-> c.student, at |-> c.at,
                 todo |-> GrantsOf(c.student), supporting |-> {}])
     /\ UNCHANGED <<grants, events, requests, decisions, cache, deciding, paying, now, serial>>

(* One grant's events, grants taken in creation order. *)
ListEvents(r, g) ==
  LET c == reading[r]
  IN /\ c.pc = "events"
     /\ g \in c.todo /\ \A h \in c.todo : g <= h
     /\ Read(r, [c EXCEPT !.todo = @ \ {g},
                          !.supporting = IF Status(grants[g], EventTypes(g), c.at) = "active"
                                         THEN @ \cup {g} ELSE @])
     /\ UNCHANGED <<grants, events, requests, decisions, cache, deciding, paying, now, serial>>

StoreDecision(r) ==
  LET c == reading[r]
  IN /\ c.pc = "events" /\ c.todo = {}
     /\ cache' = [cache EXCEPT ![c.proc][c.student] =
          [cached |-> TRUE, supporting |-> c.supporting]]
     /\ Read(r, Idle)
     /\ UNCHANGED <<grants, events, requests, decisions, deciding, paying, now, serial>>

----------------------------------------------------------------------------
(* The effects of a purchase's status on its grant, in the transaction of  *)
(* its caller: the cache is invalidated before the commit.                 *)
PaymentArrives(t, p, o, effect, w) ==
  /\ paying[t] = Idle
  /\ \/ effect = "issued"
     \/ /\ effect = "suspended"
        /\ \E g \in Keyed(Buyer[o], Purchase(o), o) : EventTypes(g) = {}
     \/ /\ effect = "revoked"
        /\ \E g \in Keyed(Buyer[o], Purchase(o), o) : "revoked" \notin EventTypes(g)
  /\ Arrives(p)
  /\ InvalidateUser(p, Buyer[o])
  /\ paying' = [paying EXCEPT ![t] =
       [pc |-> "commit", proc |-> p, order |-> o, effect |-> effect, window |-> w]]
  /\ UNCHANGED <<grants, events, requests, decisions, reading, deciding, now>>

PaymentCommits(t) ==
  LET c == paying[t]
      s == Buyer[c.order]
  IN /\ c.pc = "commit"
     /\ \/ /\ c.effect = "issued"
           /\ Issue(s, Purchase(c.order), c.order, c.window)
           /\ UNCHANGED events
        \/ /\ c.effect # "issued"
           /\ \E g \in Keyed(s, Purchase(c.order), c.order) :
                RecordEvent(g, c.effect, Purchase(c.order))
           /\ UNCHANGED grants
     /\ paying' = [paying EXCEPT ![t] = Idle]
     /\ UNCHANGED <<requests, decisions, cache, reading, deciding, now, serial>>

----------------------------------------------------------------------------
(* Manual changes.                                                         *)
Requested(q) == \E x \in requests : x.id = q

(* deriveManualChangeStatus is pending_approval. *)
Pending(q) == \A x \in decisions : x.request # q

RequestGrant(q, u, s, w) ==
  /\ ~Requested(q)
  /\ requests' = requests \cup
       {[id |-> q, type |-> "manual_grant", student |-> s, requester |-> u, window |-> w]}
  /\ UNCHANGED <<grants, events, decisions, cache, actors, now, serial>>

(* The grant need not be the student's, nor a manual one. *)
RequestRevocation(q, u, s, g) ==
  /\ ~Requested(q)
  /\ requests' = requests \cup
       {[id |-> q, type |-> "manual_revocation", student |-> s, requester |-> u, grant |-> g]}
  /\ UNCHANGED <<grants, events, decisions, cache, actors, now, serial>>

Decide(d, c) == deciding' = [deciding EXCEPT ![d] = c]

(* The pending check, and the maker-checker rule. *)
DecideArrives(d, p, x, u, outcome) ==
  /\ deciding[d] = Idle
  /\ Pending(x.id)
  /\ u # x.requester
  /\ Arrives(p)
  /\ Decide(d, IF outcome = "rejected"
               THEN [pc |-> "record", proc |-> p,
                     decision |-> [request |-> x.id, outcome |-> "rejected",
                                   execution |-> "none"]]
               ELSE [pc |-> "execute", proc |-> p, request |-> x])
  /\ UNCHANGED <<grants, events, requests, decisions, cache, reading, paying, now>>

Executed(d) ==
  Decide(d, [pc |-> "invalidate", proc |-> deciding[d].proc, request |-> deciding[d].request])

Approved(d, execution) ==
  Decide(d, [pc |-> "record", proc |-> deciding[d].proc,
             decision |-> [request |-> deciding[d].request.id, outcome |-> "approved",
                           execution |-> execution]])

ExecuteGrant(d) ==
  LET x == deciding[d].request
  IN /\ deciding[d].pc = "execute" /\ x.type = "manual_grant"
     /\ Issue(x.student, Manual(x.student), x.id, x.window)
     /\ Executed(d)
     /\ UNCHANGED <<events, requests, decisions, cache, reading, paying, now, serial>>

ExecuteRevocation(d) ==
  LET x == deciding[d].request
  IN /\ deciding[d].pc = "execute" /\ x.type = "manual_revocation"
     /\ IsOwnedBy(x.grant, Manual(x.student))
     /\ RecordEvent(x.grant, "revoked", Manual(x.student))
     /\ Executed(d)
     /\ UNCHANGED <<grants, requests, decisions, cache, reading, paying, now, serial>>

(* A broken catch: the decision is recorded as executed all the same. *)
ExecutionFailsUnnoticed(d) ==
  /\ deciding[d].pc = "execute"
  /\ Approved(d, "executed")
  /\ UNCHANGED <<grants, events, requests, decisions, cache, reading, paying, now, serial>>

(* GrantOwnershipMismatchError, or a query that fails, is caught. *)
ExecutionFails(d) ==
  /\ deciding[d].pc = "execute"
  /\ Approved(d, "execution_failed")
  /\ UNCHANGED <<grants, events, requests, decisions, cache, reading, paying, now, serial>>

InvalidateDecided(d) ==
  /\ deciding[d].pc = "invalidate"
  /\ InvalidateUser(deciding[d].proc, deciding[d].request.student)
  /\ Approved(d, "executed")
  /\ UNCHANGED <<grants, events, requests, decisions, reading, paying, now, serial>>

RecordDecision(d) ==
  /\ deciding[d].pc = "record"
  /\ decisions' = decisions \cup {deciding[d].decision}
  /\ Decide(d, Idle)
  /\ UNCHANGED <<grants, events, requests, cache, reading, paying, now, serial>>

----------------------------------------------------------------------------
(* A server process dies, with its cache and the requests it was serving.  *)
Crash(p) ==
  LET Survives(c) == c = Idle \/ c.proc # p
  IN /\ cache' = [cache EXCEPT ![p] = [s \in Students |-> NotCached]]
     /\ reading' = [r \in Readers |-> IF Survives(reading[r]) THEN reading[r] ELSE Idle]
     /\ deciding' = [d \in Deciders |-> IF Survives(deciding[d]) THEN deciding[d] ELSE Idle]
     /\ paying' = [t \in Payments |-> IF Survives(paying[t]) THEN paying[t] ELSE Idle]
     /\ UNCHANGED <<grants, events, requests, decisions, now, serial>>

Tick ==
  /\ now < LastTime
  /\ now' = now + 1
  /\ UNCHANGED <<grants, events, requests, decisions, cache, actors, serial>>

Init ==
  /\ grants = <<>> /\ events = {} /\ requests = {} /\ decisions = {}
  /\ cache = [p \in Processes |-> [s \in Students |-> NotCached]]
  /\ reading = [r \in Readers |-> Idle]
  /\ deciding = [d \in Deciders |-> Idle]
  /\ paying = [t \in Payments |-> Idle]
  /\ now = 0 /\ serial = TRUE

Query(r) ==
  \/ \E p \in Processes, s \in Students : QueryArrives(r, p, s)
  \/ ListGrants(r)
  \/ \E g \in DOMAIN grants : ListEvents(r, g)
  \/ StoreDecision(r)

Pay(t) ==
  \/ \E p \in Processes, o \in Orders, w \in Windows,
        effect \in {"issued", "suspended", "revoked"} : PaymentArrives(t, p, o, effect, w)
  \/ PaymentCommits(t)

Change(d) ==
  \/ \E p \in Processes, x \in requests, u \in Staff, o \in {"approved", "rejected"} :
       DecideArrives(d, p, x, u, o)
  \/ ExecuteGrant(d) \/ ExecuteRevocation(d) \/ ExecutionFails(d)
  \/ InvalidateDecided(d) \/ RecordDecision(d)

Next ==
  \/ \E r \in Readers : Query(r)
  \/ \E t \in Payments : Pay(t)
  \/ \E q \in Requests, u \in Staff, s \in Students :
       \/ \E w \in Windows : RequestGrant(q, u, s, w)
       \/ \E g \in DOMAIN grants : RequestRevocation(q, u, s, g)
  \/ \E d \in Deciders : Change(d)
  \/ \E p \in Processes : Crash(p)
  \/ Tick

Spec == Init /\ [][Next]_vars

----------------------------------------------------------------------------
(* Properties.                                                             *)
Sources == {Manual(s) : s \in Students} \cup {Purchase(o) : o \in Orders}
GrantRow == [student : Students, source : Sources, key : Orders \cup Requests,
             from : 0..LastTime, to : 1..(LastTime + 1)]
RequestRow ==
  [id : Requests, type : {"manual_grant"}, student : Students, requester : Staff,
   window : Windows] \cup
  [id : Requests, type : {"manual_revocation"}, student : Students, requester : Staff,
   grant : Nat]
DecisionRow ==
  [request : Requests, outcome : {"rejected"}, execution : {"none"}] \cup
  [request : Requests, outcome : {"approved"}, execution : {"executed", "execution_failed"}]
Cached == {NotCached} \cup [cached : {TRUE}, supporting : SUBSET DOMAIN grants]
Reading == {Idle}
  \cup [pc : {"list"}, proc : Processes, student : Students, at : 0..LastTime]
  \cup [pc : {"events"}, proc : Processes, student : Students, at : 0..LastTime,
        todo : SUBSET DOMAIN grants, supporting : SUBSET DOMAIN grants]
Deciding == {Idle}
  \cup [pc : {"execute", "invalidate"}, proc : Processes, request : RequestRow]
  \cup [pc : {"record"}, proc : Processes, decision : DecisionRow]
Paying == {Idle}
  \cup [pc : {"commit"}, proc : Processes, order : Orders,
        effect : {"issued", "suspended", "revoked"}, window : Windows]

(* The type invariant. *)
TypeOK ==
  /\ grants \in Seq(GrantRow)
  /\ events \subseteq [grant : DOMAIN grants, type : {"suspended", "revoked"}, actor : Sources]
  /\ requests \subseteq RequestRow
  /\ decisions \subseteq DecisionRow
  /\ cache \in [Processes -> [Students -> Cached]]
  /\ reading \in [Readers -> Reading]
  /\ deciding \in [Deciders -> Deciding]
  /\ paying \in [Payments -> Paying]
  /\ now \in 0..LastTime
  /\ serial \in BOOLEAN

(* A manual change never touches a purchase's grant, nor another student's *)
(* manual one: a grant is suspended or revoked by its own source only.     *)
OnlyItsSourceEndsAGrant == \A e \in events : e.actor = grants[e.grant].source

(* A source key stands for one grant, however many deciders approve its    *)
(* request at once and however often a died approval is repeated.          *)
OneGrantPerKey ==
  \A g, h \in DOMAIN grants :
    grants[g].student = grants[h].student /\ grants[g].key = grants[h].key => g = h

(* A change recorded as executed has taken effect: its grant was issued,   *)
(* or the grant it names is revoked.                                       *)
ExecutedTookEffect ==
  \A x \in requests :
    [request |-> x.id, outcome |-> "approved", execution |-> "executed"] \in decisions =>
      IF x.type = "manual_grant"
      THEN Keyed(x.student, Manual(x.student), x.id) # {}
      ELSE "revoked" \in EventTypes(x.grant)

(* As long as requests are served one at a time by one process, a cached   *)
(* decision is what a read would have found at some time since: every      *)
(* change of a grant invalidates, and only the clock makes it stale.       *)
SerialCacheIsFresh ==
  serial /\ AtRest =>
    \A p \in Processes, s \in Students :
      cache[p][s] # NotCached =>
        \E at \in 0..now : cache[p][s].supporting = Supporting(s, at)

=============================================================================
