------------------------------- MODULE Bridge -------------------------------
(***************************************************************************)
(* Sign-in through the WordPress shop: the plugin's authorize page and its *)
(* one-time codes (wordpress-plugins/superlatif-app-bridge), the web app's *)
(* start and callback routes (apps/web/src/lib/bridge), and the identity   *)
(* service that links a shop account to an app user and issues sessions    *)
(* (packages/db/src/identity).                                             *)
(*                                                                         *)
(* A callback runs in several steps with the network between them, two may *)
(* run at once in one browser or in two, and any of them may be killed.    *)
(* The browser clears or sets a cookie only when the answer reaches it, so *)
(* a request keeps the cookies it was sent with (`call[c].expected` and    *)
(* `call[c].presented`).  A request to the shop stays on the wire          *)
(* (`wire[c]`) after the app has given up on it.                           *)
(*                                                                         *)
(* One configured client, whose signatures are valid: what the signatures  *)
(* protect is out of the model.  `environment` is "paired" when the app's  *)
(* APP_ENV is its client's, "crossed" when the deployment is misconfigured.*)
(* Both callers of the identity service send no email and no phone, so its *)
(* contact-collision branch is never taken.                                *)
(***************************************************************************)
EXTENDS Naturals, FiniteSets

CONSTANTS
    Browsers,    \* browsers of learners
    Accounts,    \* WordPress accounts, the subjects the shop vouches for
    Handles,     \* handles of the staging sign-in form
    States,      \* state tokens the app may mint
    Codes,       \* one-time codes the plugin may issue
    Users,       \* app users that may be created
    Sessions,    \* sessions that may be issued
    Calls,       \* requests the app serves at once
    CodeTtl, PendingTtl, StateTtl, SessionTtl, MaxSkew,  \* seconds, in ticks
    MaxTime,     \* bound on the clock
    MaxInputs,   \* bound on what learners do and on ticks of the clock
    None         \* absent cookie, code, row or value

ASSUME BridgeAssumption ==
    /\ {CodeTtl, PendingTtl, StateTtl, SessionTtl, MaxSkew, MaxTime, MaxInputs} \subseteq Nat
    /\ None \notin Browsers \cup Accounts \cup Handles \cup States \cup Codes
                     \cup Users \cup Sessions
    /\ Accounts \cap Handles = {}

\* Rows and cookies that are there.
CodeRow    == [subject : Accounts, state : States, expires : Nat, used : BOOLEAN]
SessionRow == [user : Users, expires : Nat, revoked : BOOLEAN, code : Codes \cup {None},
               browser : Browsers, subject : Accounts \cup Handles]
PendingVisit == [state : States, at : Nat]
Cookie     == [token : States, until : Nat]
Exchange   == [code : Codes, state : States \cup {None}, at : Nat]

ASSUME AbsentAssumption == None \notin CodeRow \cup SessionRow \cup PendingVisit \cup Cookie \cup Exchange

VARIABLES
    inputs,      \* how many inputs there have been
    clock,       \* one clock for the shop, the app and the database
    environment, \* "paired" or "crossed"
    accounts,    \* WordPress accounts not deleted
    tab,         \* [user, pending, visit] of each browser at the shop
    jar,         \* [state, session]: each browser's cookies of the app
    asked,       \* which browser started which state (history)
    codes,       \* the plugin's code table
    users, links,\* rows of `users` and `external_identities`
    sessions,    \* rows of `user_sessions`, with where they came from
    call, wire   \* requests being served; exchange requests on the network

bridgeVars == <<inputs, clock, environment, accounts, tab, jar, asked, codes, users, links,
                sessions, call, wire>>

Fresh(S, f) == {x \in S : f[x] = None}
Pick(S) == CHOOSE x \in S : TRUE
NoCall == [pc |-> "idle", browser |-> None, code |-> None, expected |-> None,
         presented |-> None, subject |-> None, linked |-> None, outcome |-> None]

\* One more input, while the bound allows it.
OneMoreInput == inputs < MaxInputs /\ inputs' = inputs + 1

BridgeInit ==
    /\ inputs = 0 /\ clock = 0
    /\ environment \in {"paired", "crossed"}
    /\ accounts = Accounts
    /\ tab = [b \in Browsers |-> [user |-> None, pending |-> None, visit |-> None]]
    /\ jar = [b \in Browsers |-> [state |-> None, session |-> None]]
    /\ asked = {}
    /\ codes = [k \in Codes |-> None]
    /\ users = {} /\ links = {}
    /\ sessions = [s \in Sessions |-> None]
    /\ call = [c \in Calls |-> NoCall]
    /\ wire = [c \in Calls |-> None]

-----------------------------------------------------------------------------
(* The browser and the shop. *)

\* setBridgeStateCookie: the newest start replaces the browser's only state.
SetBridgeStateCookie(b, st) ==
    jar' = [jar EXCEPT ![b].state = [token |-> st, until |-> clock + StateTtl]]

\* GET /auth/bridge/start: a new state, in the cookie and in the authorize URL.
StartSignIn(b) ==
    LET unminted == {st \in States : \A x \in Browsers : <<x, st>> \notin asked}
        st == Pick(unminted)
    IN  /\ unminted # {}
        /\ SetBridgeStateCookie(b, st)
        /\ asked' = asked \cup {<<b, st>>}
        /\ tab' = [tab EXCEPT ![b].visit = st]
        /\ OneMoreInput /\ UNCHANGED <<clock, environment, accounts, codes, users, links, sessions, call, wire>>

\* superlatif_bridge_issue_code: bound to the account and the state, for CodeTtl.
IssueCode(account, st) ==
    /\ Fresh(Codes, codes) # {}
    /\ codes' = [codes EXCEPT ![Pick(Fresh(Codes, codes))] =
                    [subject |-> account, state |-> st, expires |-> clock + CodeTtl,
                     used |-> FALSE]]

\* superlatif_bridge_remember_pending: survives the login detour in a cookie.
RememberPending(b, st) ==
    tab' = [tab EXCEPT ![b].pending = [state |-> st, at |-> clock]]

\* superlatif_bridge_handle_authorize: a visitor not logged in is remembered
\* and sent to log in; a logged-in one gets a code.  Each load issues another.
HandleAuthorize(b) ==
    /\ tab[b].visit # None
    /\ IF tab[b].user = None
       THEN RememberPending(b, tab[b].visit) /\ UNCHANGED codes
       ELSE IssueCode(tab[b].user, tab[b].visit) /\ UNCHANGED tab
    /\ OneMoreInput /\ UNCHANGED <<clock, environment, accounts, jar, asked, users, links, sessions, call, wire>>

\* superlatif_bridge_parse_pending: unusable once older than PendingTtl.
ParsePending(pending) ==
    IF clock - pending.at > PendingTtl THEN None ELSE pending.state

\* superlatif_bridge_take_pending: cleared on every read, valid or not.
TakePending(t) ==
    IF t.pending = None THEN t
    ELSE [t EXCEPT !.pending = None,
                   !.visit = IF ParsePending(t.pending) = None THEN t.visit
                             ELSE ParsePending(t.pending)]

\* superlatif_bridge_resume_after_login: the login itself resumes the flow,
\* unless it was posted over AJAX, REST or XML-RPC.
ResumeAfterLogin(b, a, redirectable) ==
    /\ a \in accounts /\ tab[b].user # a
    /\ tab' = [tab EXCEPT ![b] = LET t == [@ EXCEPT !.user = a]
                                 IN  IF redirectable THEN TakePending(t) ELSE t]
    /\ OneMoreInput /\ UNCHANGED <<clock, environment, accounts, jar, asked, codes, users, links, sessions, call, wire>>

\* superlatif_bridge_resume_on_front_end: the next page load resumes it then.
ResumeOnFrontEnd(b) ==
    /\ tab[b].user # None /\ tab[b].pending # None
    /\ tab' = [tab EXCEPT ![b] = TakePending(@)]
    /\ UNCHANGED <<inputs, clock, environment, accounts, jar, asked, codes, users, links, sessions, call, wire>>

\* WordPress deletes an account: whoever is logged in as it is logged out.
DeleteAccount(a) ==
    /\ a \in accounts
    /\ accounts' = accounts \ {a}
    /\ tab' = [b \in Browsers |-> IF tab[b].user = a THEN [tab[b] EXCEPT !.user = None]
                                  ELSE tab[b]]
    /\ OneMoreInput /\ UNCHANGED <<clock, environment, jar, asked, codes, users, links, sessions, call, wire>>

-----------------------------------------------------------------------------
(* The callback: state, limits, exchange. *)

\* takeBridgeStateCookie: the cookie as the request carried it; the browser
\* drops it only when the answer arrives (DeliverAnswer).
TakeBridgeStateCookie(b) ==
    IF jar[b].state = None \/ jar[b].state.until <= clock
    THEN None ELSE jar[b].state.token

\* readSessionCookie
ReadSessionCookie(b) == jar[b].session

\* completeBridgeSignIn, up to the exchange.  Any browser may open a callback
\* URL, again or late; only one holding its state gets past the first check.
Callback(c, b, k) ==
    /\ call[c].pc = "idle" /\ wire[c] = None /\ codes[k] # None
    /\ call' = [call EXCEPT ![c] =
         [NoCall EXCEPT !.browser = b, !.code = k, !.expected = TakeBridgeStateCookie(b),
                      !.presented = ReadSessionCookie(b),
                      !.pc = IF TakeBridgeStateCookie(b) = codes[k].state
                             THEN "accepted" ELSE "answer"]]
    /\ OneMoreInput /\ UNCHANGED <<clock, environment, accounts, tab, jar, asked, codes, users, links, sessions, wire>>

\* devSignInAction: the staging form, which needs no exchange.
DevSignIn(c, b, h) ==
    /\ call[c].pc = "idle" /\ wire[c] = None
    /\ call' = [call EXCEPT ![c] = [NoCall EXCEPT !.pc = "vouched", !.browser = b,
                                                !.presented = ReadSessionCookie(b),
                                                !.subject = h]]
    /\ OneMoreInput /\ UNCHANGED <<clock, environment, accounts, tab, jar, asked, codes, users, links, sessions, wire>>

\* enforceBridgeSignInRateLimit before the exchange and
\* enforceBridgeSubjectRateLimit after it: a refusal leaves no row behind.
RateLimited(c) ==
    /\ call[c].pc \in {"accepted", "vouched"}
    /\ call' = [call EXCEPT ![c].pc = "answer"]
    /\ UNCHANGED <<inputs, clock, environment, accounts, tab, jar, asked, codes, users, links, sessions, wire>>

\* exchangeBridgeCode: a signed, timestamped request, sent once.
ExchangeBridgeCode(c) ==
    /\ call[c].pc = "accepted"
    /\ call' = [call EXCEPT ![c].pc = "exchanging"]
    /\ wire' = [wire EXCEPT ![c] = [code |-> call[c].code, state |-> call[c].expected,
                                    at |-> clock]]
    /\ UNCHANGED <<inputs, clock, environment, accounts, tab, jar, asked, codes, users, links, sessions>>

\* Mutant: the code is not marked used.
ConsumableAgain(row) == row # None

\* superlatif_bridge_consume_code: UPDATE ... WHERE used_at IS NULL; only the
\* request that burned the code gets its row.
Consumable(row) == row # None /\ ~row.used

\* superlatif_bridge_timestamp_is_fresh
TimestampIsFresh(at) == clock - at <= MaxSkew

\* What superlatif_bridge_rest_exchange checks of the row it has burned.
GrantHolds(row, request) ==
    /\ row.expires >= clock
    /\ row.state = request.state
    /\ row.subject \in accounts

\* superlatif_bridge_rest_authenticate_client and superlatif_bridge_rest_exchange.
\* A stale or wrongly paired request is refused before the code is touched;
\* every other one burns it.  `heard` is whether the answer reaches the app.
RestExchange(c, heard) ==
    LET request == wire[c]
        known   == TimestampIsFresh(request.at) /\ environment = "paired"
        row     == codes[request.code]
        won     == known /\ Consumable(row)
        subject == IF won /\ GrantHolds(row, request) THEN row.subject ELSE None
    IN  /\ request # None
        /\ wire' = [wire EXCEPT ![c] = None]
        /\ codes' = IF won THEN [codes EXCEPT ![request.code].used = TRUE] ELSE codes
        /\ call' = IF heard /\ call[c].pc = "exchanging"
                   THEN [call EXCEPT ![c].pc = IF subject = None THEN "answer" ELSE "vouched",
                                     ![c].subject = subject]
                   ELSE call
        /\ UNCHANGED <<inputs, clock, environment, accounts, tab, jar, asked, users, links, sessions>>

\* AbortSignal.timeout or a network error: the app stops waiting, whether or
\* not the shop has seen the request.
GiveUp(c) ==
    /\ call[c].pc = "exchanging"
    /\ call' = [call EXCEPT ![c].pc = "answer"]
    /\ UNCHANGED <<inputs, clock, environment, accounts, tab, jar, asked, codes, users, links, sessions, wire>>

\* The request never reaches the shop.
LoseRequest(c) ==
    /\ wire[c] # None /\ call[c].pc # "exchanging"
    /\ wire' = [wire EXCEPT ![c] = None]
    /\ UNCHANGED <<inputs, clock, environment, accounts, tab, jar, asked, codes, users, links, sessions, call>>

-----------------------------------------------------------------------------
(* The identity service: one transaction, at READ COMMITTED. *)

\* findExternalIdentity
FindExternalIdentity(subject) == {l \in links : l.subject = subject}

\* evaluateIdentityLink: the existing link wins; with no contact to collide
\* with, the alternative is a new user.
EvaluateIdentityLink(existing) ==
    IF existing # {} THEN (Pick(existing)).user ELSE None

\* performDeterministicLogin reads the link first ...
BeginLogin(c) ==
    /\ call[c].pc = "vouched"
    /\ call' = [call EXCEPT ![c].pc = "linking",
                            ![c].linked = EvaluateIdentityLink(
                                             FindExternalIdentity(call[c].subject))]
    /\ UNCHANGED <<inputs, clock, environment, accounts, tab, jar, asked, codes, users, links, sessions, wire>>

\* Mutant: no unique index, so what was read is taken for granted.
SubjectIsAssumedFree(subject) == TRUE

\* external_identities' unique (provider, external_subject)
SubjectIsFree(subject) == \A l \in links : l.subject # subject

\* createUser and linkExternalIdentity: the user's row and its only link.
CreateLinkedUser(subject, u) ==
    /\ users' = users \cup {u}
    /\ links' = links \cup {[subject |-> subject, user |-> u]}

\* revokeSessionWithSecret: a live row of which the caller holds the secret.
RevokeSessionWithSecret(table, s) ==
    IF s = None \/ table[s].revoked THEN table
    ELSE [table EXCEPT ![s].revoked = TRUE]

\* insertSession: a new row, never a caller's.
InsertSession(table, s, c, u) ==
    [table EXCEPT ![s] = [user |-> u, expires |-> clock + SessionTtl, revoked |-> FALSE,
                          code |-> call[c].code, browser |-> call[c].browser,
                          subject |-> call[c].subject]]

\* ... then creates the user and its link if there was none, revokes the
\* session the browser presented, and issues the new one.
CommitLogin(c) ==
    LET s == Pick(Fresh(Sessions, sessions))
        u == IF call[c].linked # None THEN call[c].linked ELSE Pick(Users \ users)
    IN  /\ call[c].pc = "linking" /\ Fresh(Sessions, sessions) # {}
        /\ IF call[c].linked # None THEN UNCHANGED <<users, links>>
           ELSE /\ SubjectIsFree(call[c].subject) /\ users # Users
                /\ CreateLinkedUser(call[c].subject, u)
        /\ sessions' = InsertSession(RevokeSessionWithSecret(sessions, call[c].presented), s, c, u)
        /\ call' = [call EXCEPT ![c].pc = "answer", ![c].outcome = s]
        /\ UNCHANGED <<inputs, clock, environment, accounts, tab, jar, asked, codes, wire>>

\* The link was inserted by another transaction meanwhile: this one rolls
\* back, user and all, and the request ends in an error.
LoginCollides(c) ==
    /\ call[c].pc = "linking" /\ call[c].linked = None
    /\ ~SubjectIsFree(call[c].subject)
    /\ call' = [call EXCEPT ![c].pc = "threw"]
    /\ UNCHANGED <<inputs, clock, environment, accounts, tab, jar, asked, codes, users, links, sessions, wire>>

-----------------------------------------------------------------------------
(* The answer, sign-out, and failures. *)

\* setSessionCookie: the newest answer replaces the browser's only session.
SetSessionCookie(j, s) == IF s = None THEN j ELSE [j EXCEPT !.session = s]

\* The answer reaches the browser: the state is cleared, whatever happened,
\* and a session issued is stored.
DeliverAnswer(c) ==
    /\ call[c].pc = "answer"
    /\ jar' = [jar EXCEPT ![call[c].browser] =
                 SetSessionCookie(IF call[c].code = None THEN @ ELSE [@ EXCEPT !.state = None],
                                  call[c].outcome)]
    /\ call' = [call EXCEPT ![c] = NoCall]
    /\ UNCHANGED <<inputs, clock, environment, accounts, tab, asked, codes, users, links, sessions, wire>>

\* The function is killed, throws, or its answer is lost: no cookie changes.
Killed(c) ==
    /\ call[c].pc # "idle"
    /\ call' = [call EXCEPT ![c] = NoCall]
    /\ UNCHANGED <<inputs, clock, environment, accounts, tab, jar, asked, codes, users, links, sessions, wire>>

\* signOutAction: the row first, then the cookie; the answer may be lost.
SignOut(b, heard) ==
    /\ jar[b].session # None
    /\ sessions' = RevokeSessionWithSecret(sessions, ReadSessionCookie(b))
    /\ jar' = IF heard THEN [jar EXCEPT ![b].session = None] ELSE jar
    /\ OneMoreInput /\ UNCHANGED <<clock, environment, accounts, tab, asked, codes, users, links, call, wire>>

BridgeTick ==
    /\ clock < MaxTime /\ clock' = clock + 1
    /\ OneMoreInput /\ UNCHANGED <<environment, accounts, tab, jar, asked, codes, users, links, sessions, call, wire>>

ShopStep ==
    \/ \E b \in Browsers : StartSignIn(b) \/ HandleAuthorize(b) \/ ResumeOnFrontEnd(b)
    \/ \E b \in Browsers, a \in Accounts, r \in BOOLEAN : ResumeAfterLogin(b, a, r)
    \/ \E a \in Accounts : DeleteAccount(a)

RequestStep(c) ==
    \/ \E b \in Browsers : (\E k \in Codes : Callback(c, b, k))
                           \/ (\E h \in Handles : DevSignIn(c, b, h))
    \/ RateLimited(c) \/ ExchangeBridgeCode(c) \/ GiveUp(c) \/ LoseRequest(c)
    \/ \E heard \in BOOLEAN : RestExchange(c, heard)
    \/ BeginLogin(c) \/ CommitLogin(c) \/ LoginCollides(c)
    \/ DeliverAnswer(c) \/ Killed(c)

BridgeNext ==
    \/ ShopStep
    \/ \E c \in Calls : RequestStep(c)
    \/ \E b \in Browsers, heard \in BOOLEAN : SignOut(b, heard)
    \/ BridgeTick

BridgeSpec == BridgeInit /\ [][BridgeNext]_bridgeVars

-----------------------------------------------------------------------------
(* Properties *)

\* evaluateSessionValidity and getSessionUserId: who this browser is to the app.
SessionIsLive(s) == ~sessions[s].revoked /\ clock < sessions[s].expires
GetSessionUserId(b) ==
    IF jar[b].session # None /\ SessionIsLive(jar[b].session)
    THEN sessions[jar[b].session].user ELSE None

IssuedSessions == {s \in Sessions : sessions[s] # None}

\* A one-time code signs in at most once, and only the browser that started
\* the state it was issued for, as the account that authorised it: whatever
\* callbacks are repeated, raced, opened elsewhere or left unanswered
\* (code-store.php consume_code, exchange.php, sign-in.ts).
CodeSignsInOnce ==
    \A s \in IssuedSessions : sessions[s].code # None =>
        LET code == codes[sessions[s].code]
        IN  /\ code.used
            /\ sessions[s].subject = code.subject
            /\ <<sessions[s].browser, code.state>> \in asked
            /\ \A t \in IssuedSessions : sessions[t].code = sessions[s].code => t = s

\* A shop account is one app user for ever, although first sign-ins race: no
\* subject has two links, no user is left without one by a rolled-back login,
\* and every session is of the user its subject is linked to
\* (identity/service.ts performDeterministicLogin).
OneUserPerSubject ==
    /\ \A l, m \in links : (l.subject = m.subject) <=> (l.user = m.user)
    /\ users = {l.user : l \in links}
    /\ \A s \in IssuedSessions : [subject |-> sessions[s].subject, user |-> sessions[s].user] \in links

=============================================================================
