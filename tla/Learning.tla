------------------------------ MODULE Learning ------------------------------
(***************************************************************************)
(* What a learner of a program is handed: the asset of a placement and the *)
(* link of a live session (packages/db/src/program: delivery-service.ts,   *)
(* asset-repository.ts, schedule-service.ts, schedule-repository.ts).      *)
(*                                                                         *)
(* A first request checks access and release, and leaves a reference that  *)
(* only its token finds; a second one redeems it and checks again.  Each   *)
(* reads the clock once, when it arrives, and then the database several    *)
(* times, so access, a recording or a session may change in between.       *)
(*                                                                         *)
(* One program; each placement stands in a module of its own.  Access is   *)
(* what module Access decides: here it starts, ends at a time or is        *)
(* revoked.  Tokens are their references: none can be guessed.             *)
(***************************************************************************)
EXTENDS Integers, FiniteSets, ProgramNames

CONSTANTS
    Assets,      \* rows of assets
    Rules,       \* [Placements -> [module, own]], each a release rule [mode, at]
    LiveSessions,  \* rows of live_sessions that may be created
    Length, Before, After,  \* a session's length, its join window on either side
    References,  \* delivery and join references that may be issued
    Askers,      \* requests served at once
    Ttl,         \* a reference's lifetime
    LastTick, MaxAsked  \* bounds on the clock and on what people do

Times == 0..LastTick
Modes == {"immediate", "fixed_datetime", "relative_to_enrollment", "after_prerequisite", "manual"}

ASSUME LearningAssumption ==
    /\ {Length, Before, After, LastTick, MaxAsked} \subseteq Nat /\ Ttl \in Nat \ {0}
    /\ Rules \in [Placements -> [module : [mode : Modes, at : Nat], own : [mode : Modes, at : Nat]]]
    /\ NoRow \notin Nat \cup Assets \cup LiveSessions \cup References

VARIABLES
    now, asks,  \* the clock; how many inputs there have been
    access,     \* when each learner's access ends; NoRow while there is none
    held,       \* <<learner, tick>>: access was in force in that tick (history)
    enrolledAt, \* when the learner enrolled, NoRow before
    withdrawn,  \* placements whose module is archived
    asset,      \* primary asset of a placement's resource version
    recording,  \* recording of a placement's resource version
    session,    \* live_sessions, with when it was closed (history)
    reminders,  \* states of the session's reminders
    attendance, \* check-in and check-out of each learner
    reference,  \* references issued
    asking,     \* what each request is doing
    handed      \* what was handed out (history)

timetable == <<session, reminders, attendance>>
content   == <<withdrawn, asset, recording>>
learningVars == <<now, asks, access, held, enrolledAt, content, timetable, reference,
                  asking, handed>>

\* A row of live_sessions, as far as the model keeps it; an absent row is none.
LiveSessionRow == [status : {"scheduled", "rescheduled", "cancelled"}, starts : Times,
                   from : LiveSessions \cup {NoRow}, recorded : BOOLEAN, closed : Nat \cup {NoRow}]
ASSUME LiveSessionRowAssumption == NoRow \notin LiveSessionRow

Unasked == [pc |-> "idle"]
Forever == LastTick + Ttl + 1

\* Rows of recordings, live_sessions, live_session_attendance and of the two
\* tables of references.
Recording(status, file) == [status |-> status, file |-> file]
LiveSession(starts, from) ==
    [status |-> "scheduled", starts |-> starts, from |-> from, recorded |-> FALSE, closed |-> NoRow]
Attendance(t) == [in |-> t, out |-> NoRow]
DeliveryReference(p, file, l, issued, expires) ==
    [kind |-> "asset", of |-> p, file |-> file, learner |-> l, issued |-> issued, expires |-> expires]
JoinReference(s, l, issued, expires) ==
    [kind |-> "join", of |-> s, file |-> NoRow, learner |-> l, issued |-> issued, expires |-> expires]

LearningInit ==
    /\ now = 0 /\ asks = 0
    /\ access = [l \in Learners |-> NoRow] /\ held = {}
    /\ enrolledAt \in [Learners -> {NoRow, 0}]
    /\ withdrawn = {}
    /\ asset = [p \in Placements |-> NoRow] /\ recording = [p \in Placements |-> NoRow]
    /\ session = [s \in LiveSessions |-> NoRow]
    /\ reminders = [s \in LiveSessions |-> {}]
    /\ attendance = [s \in LiveSessions |-> [l \in Learners |-> NoRow]]
    /\ reference = [f \in References |-> NoRow]
    /\ asking = [r \in Askers |-> Unasked]
    /\ handed = {}

OneMoreRequest == asks < MaxAsked /\ asks' = asks + 1
Ask(r, c) ==
    /\ asking[r] = Unasked /\ asking' = [asking EXCEPT ![r] = c]
    /\ OneMoreRequest
    /\ UNCHANGED <<now, access, held, enrolledAt, content, timetable, reference, handed>>
Leave(r) == asking' = [asking EXCEPT ![r] = Unasked]

-----------------------------------------------------------------------------
(* Access, as getEffectiveAccess answers it. *)

Allowed(l, t) == access[l] # NoRow /\ t < access[l]
EffectiveTo(l, t) == IF Allowed(l, t) THEN access[l] ELSE Forever

\* assertProgramAccess
AssertProgramAccess(l, t) == Allowed(l, t)

GiveAccess(l, end) ==
    /\ access[l] = NoRow /\ end > now
    /\ access' = [access EXCEPT ![l] = end]
    /\ held' = held \cup {<<l, now>>}
    /\ OneMoreRequest
    /\ UNCHANGED <<now, enrolledAt, content, timetable, reference, asking, handed>>

RevokeAccess(l) ==
    /\ access[l] # NoRow /\ access' = [access EXCEPT ![l] = NoRow]
    /\ OneMoreRequest
    /\ UNCHANGED <<now, held, enrolledAt, content, timetable, reference, asking, handed>>

-----------------------------------------------------------------------------
(* Content *)

\* resolveReleaseState: no progress is kept, so no prerequisite is complete.
ResolveReleaseState(rule, t, enrolled) ==
    CASE rule.mode = "immediate"              -> TRUE
      [] rule.mode = "fixed_datetime"         -> t >= rule.at
      [] rule.mode = "relative_to_enrollment" -> enrolled # NoRow /\ t >= enrolled + rule.at
      [] rule.mode = "after_prerequisite"     -> rule.at = 0  \* how many there are
      [] rule.mode = "manual"                 -> rule.at = 1  \* released by hand

\* findPlacementDeliveryContext: whatever the program version's status.
PlacementContext(p) ==
    [archived |-> p \in withdrawn, module |-> Rules[p].module, own |-> Rules[p].own]

\* resolveModuleVisibility
ModuleIsReleased(context, t, enrolled) ==
    ~context.archived /\ ResolveReleaseState(context.module, t, enrolled)

\* resolvePlacementVisibility
PlacementIsReleased(context, t, enrolled) ==
    ModuleIsReleased(context, t, enrolled) /\ ResolveReleaseState(context.own, t, enrolled)

Publish(v) == OneMoreRequest /\ v
              /\ UNCHANGED <<now, access, held, enrolledAt, timetable, reference, asking, handed>>

\* createAsset: one primary asset for each resource version.
CreateAsset(p, a) ==
    asset[p] = NoRow /\ asset' = [asset EXCEPT ![p] = a] /\ UNCHANGED <<withdrawn, recording>>

CreateRecording(p) ==
    /\ recording[p] = NoRow
    /\ recording' = [recording EXCEPT ![p] = Recording("pending", NoRow)]
    /\ UNCHANGED <<withdrawn, asset>>

\* markRecordingReady, from any status, with any asset.
MarkRecordingReady(p, a) ==
    /\ recording[p] # NoRow
    /\ recording' = [recording EXCEPT ![p] = Recording("ready", a)]
    /\ UNCHANGED <<withdrawn, asset>>

\* markRecordingFailed keeps the asset.
MarkRecordingFailed(p) ==
    /\ recording[p] # NoRow /\ recording' = [recording EXCEPT ![p].status = "failed"]
    /\ UNCHANGED <<withdrawn, asset>>

\* archiveModule
Withdraw(p) ==
    p \notin withdrawn /\ withdrawn' = withdrawn \cup {p} /\ UNCHANGED <<asset, recording>>

\* The recording's asset once it is ready, or the primary asset when the
\* resource is no recording.
FileOf(p) == IF recording[p] = NoRow THEN asset[p]
             ELSE IF recording[p].status = "ready" THEN recording[p].file ELSE NoRow

\* requestAssetDelivery, up to the second reading of access.
RequestAssetDelivery(r, l, p) ==
    /\ AssertProgramAccess(l, now)
    /\ PlacementIsReleased(PlacementContext(p), now, enrolledAt[l])
    /\ FileOf(p) # NoRow
    /\ Ask(r, [pc |-> "issue", kind |-> "asset", of |-> p, file |-> FileOf(p),
               learner |-> l, at |-> now])

-----------------------------------------------------------------------------
(* Live sessions *)

\* findLiveSessionById
Exists(s) == session[s] # NoRow

IsLiveSessionJoinable(status) == status \in {"scheduled", "live"}

\* evaluateJoinWindow is "open"
JoinWindowIsOpen(s, t) == t \in (s.starts - Before)..(s.starts + Length + After)

\* requestLiveSessionJoin, up to the second reading of access.
RequestLiveSessionJoin(r, l, s) ==
    /\ Exists(s)
    /\ AssertProgramAccess(l, now)
    /\ IsLiveSessionJoinable(session[s].status)
    /\ JoinWindowIsOpen(session[s], now)
    /\ Ask(r, [pc |-> "issue", kind |-> "join", of |-> s, file |-> NoRow, learner |-> l, at |-> now])

Unwritten(S) == {s \in S : session[s] = NoRow}

CreateLiveSession(s, starts) ==
    /\ s \in Unwritten(LiveSessions)
    /\ session' = [session EXCEPT ![s] = LiveSession(starts, NoRow)]
    /\ OneMoreRequest
    /\ UNCHANGED <<now, access, held, enrolledAt, content, reminders, attendance, reference,
                   asking, handed>>

\* rescheduleLiveSession and cancelLiveSession read the session, whatever its
\* status, before their transaction.
RescheduleLiveSession(r, s, starts) ==
    Exists(s) /\ Ask(r, [pc |-> "reschedule", of |-> s, starts |-> starts])
CancelLiveSession(r, s) == Exists(s) /\ Ask(r, [pc |-> "cancel", of |-> s])

\* updateLiveSessionStatus
UpdateLiveSessionStatus(table, s, status) ==
    [table EXCEPT ![s].status = status, ![s].closed = IF @ = NoRow THEN now ELSE @]

\* cancelPendingReminders
CancelPendingReminders(s) ==
    reminders' = [reminders EXCEPT ![s] =
                    IF "planned" \in @ THEN (@ \ {"planned"}) \cup {"cancelled"} ELSE @]

CommitReschedule(r) ==
    LET c == asking[r]
    IN  /\ c.pc = "reschedule"
        /\ \E new \in Unwritten(LiveSessions) :
             session' = [UpdateLiveSessionStatus(session, c.of, "rescheduled")
                           EXCEPT ![new] = LiveSession(c.starts, c.of)]
        /\ CancelPendingReminders(c.of)
        /\ Leave(r)
        /\ UNCHANGED <<now, asks, access, held, enrolledAt, content, attendance, reference, handed>>

CommitCancel(r) ==
    LET c == asking[r]
    IN  /\ c.pc = "cancel"
        /\ session' = UpdateLiveSessionStatus(session, c.of, "cancelled")
        /\ CancelPendingReminders(c.of)
        /\ Leave(r)
        /\ UNCHANGED <<now, asks, access, held, enrolledAt, content, attendance, reference, handed>>

CreateReminder(s) == reminders' = [reminders EXCEPT ![s] = @ \cup {"planned"}]

\* scheduleReminder reads the session and inserts, in whatever state it is.
ScheduleReminder(s) ==
    /\ Exists(s)
    /\ CreateReminder(s)
    /\ OneMoreRequest
    /\ UNCHANGED <<now, access, held, enrolledAt, content, session, attendance, reference,
                   asking, handed>>

LinkRecordingToLiveSession(s) == session' = [session EXCEPT ![s].recorded = TRUE]

LinkRecording(s) ==
    /\ Exists(s) /\ LinkRecordingToLiveSession(s)
    /\ OneMoreRequest
    /\ UNCHANGED <<now, access, held, enrolledAt, content, reminders, attendance, reference,
                   asking, handed>>

\* findAttendanceRecord
CheckedIn(s, l) == attendance[s][l] # NoRow

CreateAttendanceCheckIn(s, l) == attendance' = [attendance EXCEPT ![s][l] = Attendance(now)]
RecordAttendanceCheckOut(s, l) == attendance' = [attendance EXCEPT ![s][l].out = now]

\* checkInToLiveSession: the first one stays, by the look-up or the unique key.
CheckInToLiveSession(s, l) ==
    /\ Exists(s)
    /\ IF CheckedIn(s, l) THEN UNCHANGED attendance ELSE CreateAttendanceCheckIn(s, l)
    /\ OneMoreRequest
    /\ UNCHANGED <<now, access, held, enrolledAt, content, session, reminders, reference,
                   asking, handed>>

\* checkOutOfLiveSession: the last one stays.
CheckOutOfLiveSession(s, l) ==
    /\ CheckedIn(s, l)
    /\ RecordAttendanceCheckOut(s, l)
    /\ OneMoreRequest
    /\ UNCHANGED <<now, access, held, enrolledAt, content, session, reminders, reference,
                   asking, handed>>

-----------------------------------------------------------------------------
(* References *)

\* computeDeliveryExpiry: the lifetime, or the end of access when sooner.
ComputeDeliveryExpiry(t, end) == IF end < t + Ttl THEN end ELSE t + Ttl

Insert(f, row) == reference[f] = NoRow /\ reference' = [reference EXCEPT ![f] = row]

CreateDeliveryReference(f, c, expires) ==
    Insert(f, DeliveryReference(c.of, c.file, c.learner, c.at, expires))

CreateJoinReference(f, c, expires) == Insert(f, JoinReference(c.of, c.learner, c.at, expires))

Expiry(c) == ComputeDeliveryExpiry(c.at, EffectiveTo(c.learner, c.at))

Issued(r) ==
    Leave(r) /\ UNCHANGED <<now, asks, access, held, enrolledAt, content, timetable, handed>>

\* requestAssetDelivery and requestLiveSessionJoin, from the second reading
\* of access.
IssueDeliveryReference(r) ==
    LET c == asking[r]
    IN  /\ c.pc = "issue" /\ c.kind = "asset"
        /\ \E f \in References : CreateDeliveryReference(f, c, Expiry(c))
        /\ Issued(r)

IssueJoinReference(r) ==
    LET c == asking[r]
    IN  /\ c.pc = "issue" /\ c.kind = "join"
        /\ \E f \in References : CreateJoinReference(f, c, Expiry(c))
        /\ Issued(r)

\* evaluateDeliveryReferenceValidity
ReferenceIsValid(f, t) == t < reference[f].expires

\* findDeliveryReferenceByTokenHash and findJoinReferenceByTokenHash: only a
\* token's own table is searched.
FindDeliveryReference(f) == reference[f] # NoRow /\ reference[f].kind = "asset"
FindJoinReference(f) == reference[f] # NoRow /\ reference[f].kind = "join"

\* resolveAssetDelivery and resolveLiveSessionJoin, up to the fresh check of
\* access; the session's status is the one read here.
RedeemDelivery(r, f) ==
    /\ FindDeliveryReference(f) /\ ReferenceIsValid(f, now)
    /\ Ask(r, [pc |-> "redeem", of |-> f, at |-> now, open |-> TRUE])

RedeemJoin(r, f) ==
    /\ FindJoinReference(f) /\ ReferenceIsValid(f, now)
    /\ Ask(r, [pc |-> "redeem", of |-> f, at |-> now,
               open |-> IsLiveSessionJoinable(session[reference[f].of].status)])

HandOut(r) ==
    LET c == asking[r]
        f == reference[c.of]
    IN  /\ handed' = handed \cup {[what |-> f, at |-> c.at, until |-> now]}
        /\ Leave(r)
        /\ UNCHANGED <<now, asks, access, held, enrolledAt, content, timetable, reference>>

\* Mutant: what the reference was issued on is trusted.
ResolveDeliveryTrusting(r) ==
    asking[r].pc = "redeem" /\ reference[asking[r].of].kind = "asset" /\ HandOut(r)

ResolveAssetDelivery(r) ==
    LET c == asking[r]
    IN  /\ c.pc = "redeem" /\ reference[c.of].kind = "asset"
        /\ AssertProgramAccess(reference[c.of].learner, c.at)
        /\ HandOut(r)

ResolveLiveSessionJoin(r) ==
    LET c == asking[r]
    IN  /\ c.pc = "redeem" /\ reference[c.of].kind = "join"
        /\ AssertProgramAccess(reference[c.of].learner, c.at) /\ c.open
        /\ HandOut(r)

\* A redemption refused, or a request that died.
Refuse(r) ==
    /\ asking[r] # Unasked /\ Leave(r)
    /\ UNCHANGED <<now, asks, access, held, enrolledAt, content, timetable, reference, handed>>

LearningTick ==
    /\ now < LastTick /\ now' = now + 1
    /\ held' = held \cup {<<l, now + 1>> : l \in {x \in Learners : Allowed(x, now + 1)}}
    /\ UNCHANGED <<asks, access, enrolledAt, content, timetable, reference, asking, handed>>

-----------------------------------------------------------------------------
ContentStep(p) ==
    \/ \E a \in Assets : Publish(CreateAsset(p, a)) \/ Publish(MarkRecordingReady(p, a))
    \/ Publish(CreateRecording(p)) \/ Publish(MarkRecordingFailed(p)) \/ Publish(Withdraw(p))

TimetableStep(s) ==
    \/ \E t \in Times : CreateLiveSession(s, t)
    \/ ScheduleReminder(s) \/ LinkRecording(s)
    \/ \E l \in Learners : CheckInToLiveSession(s, l) \/ CheckOutOfLiveSession(s, l)

LearningStep(r) ==
    \/ \E l \in Learners : \/ \E p \in Placements : RequestAssetDelivery(r, l, p)
                           \/ \E s \in LiveSessions : RequestLiveSessionJoin(r, l, s)
    \/ \E s \in LiveSessions : (\E t \in Times : RescheduleLiveSession(r, s, t)) \/ CancelLiveSession(r, s)
    \/ \E f \in References : RedeemDelivery(r, f) \/ RedeemJoin(r, f)
    \/ CommitReschedule(r) \/ CommitCancel(r)
    \/ IssueDeliveryReference(r) \/ IssueJoinReference(r)
    \/ ResolveAssetDelivery(r) \/ ResolveLiveSessionJoin(r) \/ Refuse(r)

LearningNext ==
    \/ \E l \in Learners : RevokeAccess(l) \/ \E end \in Times \cup {Forever} : GiveAccess(l, end)
    \/ \E p \in Placements : ContentStep(p)
    \/ \E s \in LiveSessions : TimetableStep(s)
    \/ \E r \in Askers : LearningStep(r)
    \/ LearningTick

LearningSpec == LearningInit /\ [][LearningNext]_learningVars

-----------------------------------------------------------------------------
(* Properties *)

\* Whatever is handed out goes to a learner whose access was in force at some
\* moment of the redemption, for a reference no older than its lifetime, and
\* opens no session that was closed before the redemption arrived: although
\* access ends, recordings and sessions change between the two requests and
\* between the readings of each (delivery-service.ts, schedule-service.ts).
HandedOutUnderAccess ==
    \A h \in handed :
        /\ \E t \in h.at..h.until : <<h.what.learner, t>> \in held
        /\ h.at < h.what.issued + Ttl
        /\ h.what.kind = "join" =>
             LET closed == session[h.what.of].closed
             IN  closed = NoRow \/ closed >= h.at

=============================================================================
