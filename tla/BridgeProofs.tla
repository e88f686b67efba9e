---------------------------- MODULE BridgeProofs ----------------------------
(***************************************************************************)
(* Proofs about Bridge, for any browsers, accounts, codes, sessions and    *)
(* requests at once, however late, lost or repeated; about the plugin's    *)
(* Outbox, for any orders, clients and cron runs; and about RateLimit, for *)
(* any limit, buffer, processes and requests.                              *)
(***************************************************************************)
EXTENDS Bridge, Outbox, RateLimit, FiniteSetTheorems, SequenceTheorems, TLAPS

Steps == {"idle", "accepted", "exchanging", "vouched", "linking", "answer", "threw"}
CallRow == [pc : Steps, browser : Browsers \cup {None}, code : Codes \cup {None},
            expected : States \cup {None}, presented : Sessions \cup {None},
            subject : Accounts \cup Handles \cup {None}, linked : Users \cup {None},
            outcome : Sessions \cup {None}]
Tab == [user : Accounts \cup {None}, pending : PendingVisit \cup {None}, visit : States \cup {None}]
JarRow == [state : Cookie \cup {None}, session : Sessions \cup {None}]

(* What is stored. *)
Stored ==
  /\ clock \in Nat
  /\ codes \in [Codes -> CodeRow \cup {None}]
  /\ sessions \in [Sessions -> SessionRow \cup {None}]
  /\ links \subseteq [subject : Accounts \cup Handles, user : Users]
  /\ users \subseteq Users

Tabs == tab \in [Browsers -> Tab]
Calling == call \in [Calls -> CallRow] /\ wire \in [Calls -> Exchange \cup {None}]

(* A browser's cookie holds a state it started, and a session issued. *)
Jars ==
  /\ jar \in [Browsers -> JarRow]
  /\ asked \subseteq Browsers \X States
  /\ \A b \in Browsers :
       /\ jar[b].state # None => <<b, jar[b].state.token>> \in asked
       /\ jar[b].session # None => sessions[jar[b].session] # None

Holding(it) == it.pc \in {"vouched", "linking"} /\ it.code # None

(* What a request holds.  A code it holds was issued for a state its       *)
(* browser started; once the shop has vouched for it, it is used up.       *)
CallFits(it, w) ==
  /\ it.presented # None => sessions[it.presented] # None
  /\ it.outcome # None => sessions[it.outcome] # None
  /\ it.pc \in {"accepted", "exchanging"} => it.code # None
  /\ it.pc \in {"accepted", "exchanging", "vouched", "linking"} =>
       /\ it.browser \in Browsers
       /\ it.code # None => /\ codes[it.code] # None
                            /\ <<it.browser, codes[it.code].state>> \in asked
  /\ it.pc = "exchanging" /\ w # None => w.code = it.code
  /\ it.pc \in {"vouched", "linking"} =>
       /\ it.subject # None
       /\ it.code # None => codes[it.code].used /\ it.subject = codes[it.code].subject
  /\ it.pc = "linking" /\ it.linked # None => [subject |-> it.subject, user |-> it.linked] \in links

CallsFit == \A c \in Calls : CallFits(call[c], wire[c])

(* A code is held by one request, or by one session, at most. *)
OneHolder ==
  /\ \A c, d \in Calls : Holding(call[c]) /\ Holding(call[d]) /\ call[c].code = call[d].code => c = d
  /\ \A c \in Calls, s \in Sessions :
       Holding(call[c]) /\ sessions[s] # None => sessions[s].code # call[c].code

SessionFits(it, issued, started, linked) ==
  /\ it.code # None =>
       /\ issued[it.code] # None /\ issued[it.code].used
       /\ it.subject = issued[it.code].subject
       /\ <<it.browser, issued[it.code].state>> \in started
  /\ [subject |-> it.subject, user |-> it.user] \in linked

SessionsFit ==
  /\ \A s \in Sessions : sessions[s] # None => SessionFits(sessions[s], codes, asked, links)
  /\ \A s, t \in Sessions :
       sessions[s] # None /\ sessions[t] # None /\ sessions[s].code # None
         /\ sessions[s].code = sessions[t].code => s = t

LinksFit ==
  /\ \A l, m \in links : (l.subject = m.subject) <=> (l.user = m.user)
  /\ users = {l.user : l \in links}

Inv == Stored /\ Tabs /\ Calling /\ Jars /\ CallsFit /\ OneHolder /\ SessionsFit /\ LinksFit

LEMMA NoneIsNoRow ==
  /\ \A x \in CodeRow \cup SessionRow \cup PendingVisit \cup Cookie \cup Exchange : x # None
  /\ \A x \in Accounts \cup Handles \cup States \cup Codes \cup Users \cup Sessions \cup Browsers : x # None
BY AbsentAssumption, BridgeAssumption

LEMMA PickIsIn == \A S : S # {} => Pick(S) \in S
BY DEF Pick

LEMMA InitInv == BridgeInit => Inv
<1> SUFFICES ASSUME BridgeInit PROVE Inv
  OBVIOUS
<1>1. Stored
  BY DEF BridgeInit, Stored
<1>2. Tabs
  BY DEF BridgeInit, Tabs, Tab
<1>3. Calling
  BY DEF BridgeInit, Calling, CallRow, NoCall, Steps
<1>4. Jars
  BY DEF BridgeInit, Jars, JarRow
<1>5. CallsFit /\ OneHolder
  BY DEF BridgeInit, CallsFit, CallFits, OneHolder, Holding, NoCall
<1>6. SessionsFit /\ LinksFit
  BY DEF BridgeInit, SessionsFit, LinksFit
<1> QED BY <1>1, <1>2, <1>3, <1>4, <1>5, <1>6 DEF Inv

----------------------------------------------------------------------------
(* The browser, the shop and the clock: the app's tables stay. *)
LEMMA ShopKeeps ==
  ASSUME Inv, UNCHANGED <<codes, users, links, sessions, call, wire>>,
         clock' \in Nat, Tabs', Jars', asked \subseteq asked'
  PROVE  Inv'
<1>1. Stored' /\ Calling' /\ OneHolder' /\ LinksFit'
  BY DEF Inv, Stored, Calling, OneHolder, LinksFit
<1>2. CallsFit'
  BY DEF Inv, CallsFit, CallFits
<1>3. SessionsFit'
  BY DEF Inv, SessionsFit, SessionFits
<1> QED BY <1>1, <1>2, <1>3 DEF Inv

(* A code is issued into a row that was free. *)
LEMMA IssueKeeps ==
  ASSUME Inv, NEW k \in Codes, codes[k] = None, NEW it \in CodeRow,
         codes' = [codes EXCEPT ![k] = it],
         UNCHANGED <<clock, users, links, sessions, call, wire, tab, jar, asked>>
  PROVE  Inv'
<1>1. \A x \in Codes : codes[x] # None => codes'[x] = codes[x] /\ codes'[x] # None
  BY DEF Inv, Stored
<1>2. Stored' /\ Tabs' /\ Calling' /\ Jars' /\ OneHolder' /\ LinksFit'
  BY DEF Inv, Stored, Tabs, Calling, Jars, OneHolder, LinksFit
<1>3. CallsFit'
  <2> SUFFICES ASSUME NEW c \in Calls PROVE CallFits(call[c], wire[c])'
    BY DEF CallsFit
  <2>1. CallFits(call[c], wire[c]) /\ call[c] \in CallRow
    BY DEF Inv, CallsFit, Calling
  <2>2. call[c].code # None => call[c].code \in Codes
    BY <2>1 DEF CallRow
  <2> QED BY <1>1, <2>1, <2>2 DEF CallFits
<1>4. SessionsFit'
  <2>1. \A s \in Sessions : sessions[s] # None /\ sessions[s].code # None => sessions[s].code \in Codes
    BY DEF Inv, Stored, SessionRow
  <2>2. ASSUME NEW s \in Sessions, sessions'[s] # None PROVE SessionFits(sessions'[s], codes', asked', links')
    <3>1. SessionFits(sessions[s], codes, asked, links) /\ sessions' = sessions /\ links' = links /\ asked' = asked
      BY <2>2 DEF Inv, SessionsFit
    <3> QED BY <1>1, <2>1, <2>2, <3>1 DEF SessionFits
  <2>3. sessions' = sessions
    OBVIOUS
  <2> QED BY <2>2, <2>3 DEF Inv, SessionsFit
<1> QED BY <1>2, <1>3, <1>4 DEF Inv

LEMMA ShopStepKeeps ==
  ASSUME Inv, ShopStep
  PROVE  Inv'
<1>1. ASSUME NEW b \in Browsers, StartSignIn(b) PROVE Inv'
  <2>1. PICK st \in States : /\ jar' = [jar EXCEPT ![b].state = [token |-> st, until |-> clock + StateTtl]]
                            /\ asked' = asked \cup {<<b, st>>}
                            /\ tab' = [tab EXCEPT ![b].visit = st]
    BY <1>1, PickIsIn DEF StartSignIn, SetBridgeStateCookie
  <2>2. UNCHANGED <<clock, codes, users, links, sessions, call, wire>>
    BY <1>1 DEF StartSignIn
  <2>3. Tabs'
    BY <2>1 DEF Inv, Tabs, Tab
  <2>4. [token |-> st, until |-> clock + StateTtl] \in Cookie
    BY BridgeAssumption DEF Inv, Stored, Cookie
  <2>5. jar' \in [Browsers -> JarRow]
    BY <2>1, <2>4 DEF Inv, Jars, JarRow
  <2>6. \A x \in Browsers : /\ jar'[x].session = jar[x].session
                            /\ jar'[x].state = IF x = b THEN [token |-> st, until |-> clock + StateTtl]
                                               ELSE jar[x].state
    BY <2>1 DEF Inv, Jars, JarRow
  <2>7. Jars'
    <3>1. asked' \subseteq Browsers \X States
      BY <2>1 DEF Inv, Jars
    <3>2. ASSUME NEW x \in Browsers, jar'[x].state # None PROVE <<x, jar'[x].state.token>> \in asked'
      <4>1. CASE x = b
        BY <2>1, <2>6, <4>1
      <4>2. CASE x # b
        BY <2>1, <2>6, <3>2, <4>2 DEF Inv, Jars
      <4> QED BY <4>1, <4>2
    <3>3. ASSUME NEW x \in Browsers, jar'[x].session # None PROVE sessions'[jar'[x].session] # None
      BY <2>2, <2>6, <3>3 DEF Inv, Jars
    <3> QED BY <2>5, <3>1, <3>2, <3>3 DEF Jars
  <2> QED BY <2>1, <2>2, <2>3, <2>7, ShopKeeps DEF Inv, Stored
<1>2. ASSUME NEW b \in Browsers, HandleAuthorize(b) PROVE Inv'
  <2>1. tab[b].visit \in States /\ tab[b] \in Tab
    BY <1>2 DEF HandleAuthorize, Inv, Tabs, Tab
  <2>2. CASE tab[b].user = None
    <3>1. [state |-> tab[b].visit, at |-> clock] \in PendingVisit
      BY <2>1 DEF Inv, Stored, PendingVisit
    <3>2. tab' = [tab EXCEPT ![b].pending = [state |-> tab[b].visit, at |-> clock]]
          /\ UNCHANGED <<clock, codes, users, links, sessions, call, wire, jar, asked>>
      BY <1>2, <2>2 DEF HandleAuthorize, RememberPending
    <3>3. Tabs'
      BY <2>1, <3>1, <3>2 DEF Inv, Tabs, Tab
    <3> QED BY <3>2, <3>3, ShopKeeps DEF Inv, Stored, Jars
  <2>3. CASE tab[b].user # None
    <3> DEFINE it == [subject |-> tab[b].user, state |-> tab[b].visit, expires |-> clock + CodeTtl,
                      used |-> FALSE]
               k == Pick(Fresh(Codes, codes))
    <3>1. it \in CodeRow
      BY <2>1, <2>3, BridgeAssumption DEF Inv, Stored, CodeRow, Tab
    <3>2. k \in Codes /\ codes[k] = None
      BY <1>2, <2>3, PickIsIn DEF HandleAuthorize, IssueCode, Fresh
    <3>3. codes' = [codes EXCEPT ![k] = it]
          /\ UNCHANGED <<clock, users, links, sessions, call, wire, tab, jar, asked>>
      BY <1>2, <2>3 DEF HandleAuthorize, IssueCode
    <3> HIDE DEF it, k
    <3> QED BY <3>1, <3>2, <3>3, IssueKeeps
  <2> QED BY <2>2, <2>3
<1>3. \A t \in Tab : TakePending(t) \in Tab
  BY NoneIsNoRow DEF TakePending, ParsePending, Tab, PendingVisit
<1>4. ASSUME NEW b \in Browsers, ResumeOnFrontEnd(b) PROVE Inv'
  <2>1. tab' = [tab EXCEPT ![b] = TakePending(tab[b])]
        /\ UNCHANGED <<clock, codes, users, links, sessions, call, wire, jar, asked>>
    BY <1>4 DEF ResumeOnFrontEnd, Inv, Tabs
  <2>2. Tabs'
    BY <1>3, <2>1 DEF Inv, Tabs
  <2> QED BY <2>1, <2>2, ShopKeeps DEF Inv, Stored, Jars
<1>5. ASSUME NEW b \in Browsers, NEW a \in Accounts, NEW r \in BOOLEAN, ResumeAfterLogin(b, a, r)
      PROVE  Inv'
  <2> DEFINE t == [tab[b] EXCEPT !.user = a]
  <2>1. t \in Tab /\ TakePending(t) \in Tab
    BY <1>3 DEF Inv, Tabs, Tab
  <2>2. tab' = [tab EXCEPT ![b] = IF r THEN TakePending(t) ELSE t]
        /\ UNCHANGED <<clock, codes, users, links, sessions, call, wire, jar, asked>>
    BY <1>5 DEF ResumeAfterLogin, Inv, Tabs
  <2> HIDE DEF t
  <2>3. Tabs'
    BY <2>1, <2>2 DEF Inv, Tabs
  <2> QED BY <2>2, <2>3, ShopKeeps DEF Inv, Stored, Jars
<1>6. ASSUME NEW a \in Accounts, DeleteAccount(a) PROVE Inv'
  <2>1. tab' = [b \in Browsers |-> IF tab[b].user = a THEN [tab[b] EXCEPT !.user = None] ELSE tab[b]]
        /\ UNCHANGED <<clock, codes, users, links, sessions, call, wire, jar, asked>>
    BY <1>6 DEF DeleteAccount
  <2>2. Tabs'
    BY <2>1 DEF Inv, Tabs, Tab
  <2> QED BY <2>1, <2>2, ShopKeeps DEF Inv, Stored, Jars
<1> QED BY <1>1, <1>2, <1>4, <1>5, <1>6 DEF ShopStep

----------------------------------------------------------------------------
(* A request moves on without touching a table: it holds a code only if it *)
(* held it before.                                                         *)
LEMMA CallKeeps ==
  ASSUME Inv, NEW c \in Calls, NEW it \in CallRow, NEW w \in Exchange \cup {None},
         call' = [call EXCEPT ![c] = it], wire' = [wire EXCEPT ![c] = w],
         UNCHANGED <<clock, codes, users, links, sessions, asked, tab>>, Jars',
         CallFits(it, w), Holding(it) => Holding(call[c]) /\ it.code = call[c].code
  PROVE  Inv'
<1>1. Calling' /\ \A d \in Calls : /\ call'[d] = IF d = c THEN it ELSE call[d]
                                   /\ wire'[d] = IF d = c THEN w ELSE wire[d]
  BY DEF Inv, Calling
<1>2. Stored' /\ Tabs' /\ SessionsFit' /\ LinksFit'
  BY DEF Inv, Stored, Tabs, SessionsFit, SessionFits, LinksFit
<1>3. CallsFit'
  BY <1>1 DEF Inv, CallsFit, CallFits
<1>4. OneHolder'
  <2>1. \A d \in Calls : Holding(call'[d]) => Holding(call[d]) /\ call'[d].code = call[d].code
    BY <1>1
  <2> HIDE DEF Holding
  <2>2. \A d, e \in Calls : Holding(call'[d]) /\ Holding(call'[e]) /\ call'[d].code = call'[e].code => d = e
    BY <2>1 DEF Inv, OneHolder
  <2>3. \A d \in Calls, s \in Sessions : Holding(call'[d]) /\ sessions'[s] # None =>
          sessions'[s].code # call'[d].code
    BY <2>1 DEF Inv, OneHolder
  <2> QED BY <2>2, <2>3 DEF OneHolder, Holding
<1> QED BY <1>1, <1>2, <1>3, <1>4 DEF Inv

(* The same, the wire as it was. *)
LEMMA CallOnlyKeeps ==
  ASSUME Inv, NEW c \in Calls, NEW it \in CallRow, call' = [call EXCEPT ![c] = it],
         UNCHANGED <<clock, codes, users, links, sessions, asked, tab, wire>>, Jars',
         CallFits(it, wire[c]), Holding(it) => Holding(call[c]) /\ it.code = call[c].code
  PROVE  Inv'
<1>1. wire[c] \in Exchange \cup {None} /\ wire' = [wire EXCEPT ![c] = wire[c]]
  BY DEF Inv, Calling
<1> QED BY <1>1, CallKeeps

LEMMA JarsStay ==
  ASSUME Inv, UNCHANGED <<jar, asked, sessions>>
  PROVE  Jars'
BY DEF Inv, Jars

LEMMA CallbackKeeps ==
  ASSUME Inv, NEW c \in Calls, NEW b \in Browsers, NEW k \in Codes, Callback(c, b, k)
  PROVE  Inv'
<1> DEFINE it == [NoCall EXCEPT !.browser = b, !.code = k, !.expected = TakeBridgeStateCookie(b),
                      !.presented = ReadSessionCookie(b),
                      !.pc = IF TakeBridgeStateCookie(b) = codes[k].state THEN "accepted" ELSE "answer"]
<1>1. call' = [call EXCEPT ![c] = it] /\ codes[k] # None
      /\ UNCHANGED <<clock, codes, users, links, sessions, asked, tab, jar, wire>>
  BY DEF Callback
<1>2. jar[b] \in JarRow /\ codes[k] \in CodeRow
  BY <1>1 DEF Inv, Jars, Stored
<1>3. /\ TakeBridgeStateCookie(b) \in States \cup {None}
      /\ TakeBridgeStateCookie(b) # None => <<b, TakeBridgeStateCookie(b)>> \in asked
  BY <1>2 DEF Inv, Jars, TakeBridgeStateCookie, JarRow, Cookie
<1>4. /\ ReadSessionCookie(b) \in Sessions \cup {None}
      /\ ReadSessionCookie(b) # None => sessions[ReadSessionCookie(b)] # None
  BY <1>2 DEF Inv, Jars, ReadSessionCookie, JarRow
<1>5. codes[k].state \in States /\ codes[k].state # None /\ k # None
  BY <1>2, NoneIsNoRow DEF CodeRow
<1> HIDE DEF TakeBridgeStateCookie, ReadSessionCookie
<1>6. /\ it \in CallRow /\ it.browser = b /\ it.code = k /\ it.presented = ReadSessionCookie(b)
      /\ it.outcome = None
      /\ it.pc = IF TakeBridgeStateCookie(b) = codes[k].state THEN "accepted" ELSE "answer"
  BY <1>3, <1>4 DEF CallRow, Steps, NoCall
<1> HIDE DEF it
<1>7. CallFits(it, wire[c]) /\ ~Holding(it)
  BY <1>1, <1>3, <1>4, <1>5, <1>6 DEF CallFits, Holding
<1> QED BY <1>1, <1>6, <1>7, CallOnlyKeeps, JarsStay

LEMMA DevSignInKeeps ==
  ASSUME Inv, NEW c \in Calls, NEW b \in Browsers, NEW h \in Handles, DevSignIn(c, b, h)
  PROVE  Inv'
<1> DEFINE it == [NoCall EXCEPT !.pc = "vouched", !.browser = b, !.presented = ReadSessionCookie(b),
                                !.subject = h]
<1>1. call' = [call EXCEPT ![c] = it]
      /\ UNCHANGED <<clock, codes, users, links, sessions, asked, tab, jar, wire>>
  BY DEF DevSignIn
<1>2. /\ ReadSessionCookie(b) \in Sessions \cup {None}
      /\ ReadSessionCookie(b) # None => sessions[ReadSessionCookie(b)] # None
  BY DEF Inv, Jars, ReadSessionCookie, JarRow
<1> HIDE DEF ReadSessionCookie
<1>3. /\ it \in CallRow /\ it.browser = b /\ it.code = None /\ it.presented = ReadSessionCookie(b)
      /\ it.outcome = None /\ it.pc = "vouched" /\ it.subject = h
  BY <1>2 DEF CallRow, Steps, NoCall
<1> HIDE DEF it
<1>4. CallFits(it, wire[c]) /\ ~Holding(it)
  BY <1>2, <1>3, NoneIsNoRow DEF CallFits, Holding
<1> QED BY <1>1, <1>3, <1>4, CallOnlyKeeps, JarsStay

(* A request that gives up, is refused, throws or is killed. *)
LEMMA EndingKeeps ==
  ASSUME Inv, NEW c \in Calls, NEW pc \in {"answer", "threw"}, call' = [call EXCEPT ![c].pc = pc],
         UNCHANGED <<clock, codes, users, links, sessions, asked, tab, jar, wire>>
  PROVE  Inv'
<1> DEFINE it == [call[c] EXCEPT !.pc = pc]
<1>1. call[c] \in CallRow /\ CallFits(call[c], wire[c]) /\ call' = [call EXCEPT ![c] = it]
  BY DEF Inv, Calling, CallsFit
<1>2. /\ it \in CallRow /\ it.pc = pc /\ it.presented = call[c].presented
      /\ it.outcome = call[c].outcome
  BY <1>1 DEF CallRow, Steps
<1> HIDE DEF it
<1>3. CallFits(it, wire[c]) /\ ~Holding(it)
  BY <1>1, <1>2 DEF CallFits, Holding
<1> QED BY <1>1, <1>2, <1>3, CallOnlyKeeps, JarsStay

LEMMA IdleKeeps ==
  ASSUME Inv, NEW c \in Calls, call' = [call EXCEPT ![c] = NoCall],
         UNCHANGED <<clock, codes, users, links, sessions, asked, tab, wire>>, Jars'
  PROVE  Inv'
<1>1. NoCall \in CallRow
  BY DEF NoCall, CallRow, Steps
<1>2. CallFits(NoCall, wire[c]) /\ ~Holding(NoCall)
  BY DEF NoCall, CallFits, Holding
<1> QED BY <1>1, <1>2, CallOnlyKeeps

LEMMA DeliverKeeps ==
  ASSUME Inv, NEW c \in Calls, DeliverAnswer(c)
  PROVE  Inv'
<1> DEFINE b == call[c].browser
           left == IF call[c].code = None THEN jar[b] ELSE [jar[b] EXCEPT !.state = None]
           stored == SetSessionCookie(left, call[c].outcome)
<1>1. call' = [call EXCEPT ![c] = NoCall]
      /\ UNCHANGED <<clock, codes, users, links, sessions, asked, tab, wire>>
  BY DEF DeliverAnswer
<1>2. call[c] \in CallRow /\ CallFits(call[c], wire[c])
  BY DEF Inv, Calling, CallsFit
<1>3. call[c].outcome \in Sessions \cup {None}
      /\ (call[c].outcome # None => sessions[call[c].outcome] # None)
  BY <1>2 DEF CallRow, CallFits
<1>4. CASE b \in Browsers
  <2>1. jar' = [jar EXCEPT ![b] = stored]
    BY <1>4 DEF DeliverAnswer, Inv, Jars
  <2>2. jar[b] \in JarRow
    BY <1>4 DEF Inv, Jars
  <2>3. left \in JarRow /\ left.session = jar[b].session /\ left.state \in {jar[b].state, None}
    BY <2>2 DEF JarRow
  <2> HIDE DEF left
  <2>4. stored \in JarRow /\ stored.session \in {jar[b].session, call[c].outcome}
        /\ stored.state \in {jar[b].state, None}
    BY <1>3, <2>3 DEF SetSessionCookie, JarRow
  <2> HIDE DEF stored
  <2>5. Jars'
    BY <1>1, <1>3, <1>4, <2>1, <2>4 DEF Inv, Jars
  <2> QED BY <1>1, <2>5, IdleKeeps
<1>5. CASE b \notin Browsers
  <2>1. jar' = jar
    BY <1>5 DEF DeliverAnswer, Inv, Jars
  <2> QED BY <1>1, <2>1, IdleKeeps, JarsStay
<1> QED BY <1>4, <1>5

LEMMA BeginExchangeKeeps ==
  ASSUME Inv, NEW c \in Calls, ExchangeBridgeCode(c)
  PROVE  Inv'
<1> DEFINE it == [call[c] EXCEPT !.pc = "exchanging"]
           w == [code |-> call[c].code, state |-> call[c].expected, at |-> clock]
<1>1. call[c] \in CallRow /\ CallFits(call[c], wire[c]) /\ call[c].pc = "accepted"
  BY DEF ExchangeBridgeCode, Inv, Calling, CallsFit
<1>2. call' = [call EXCEPT ![c] = it] /\ wire' = [wire EXCEPT ![c] = w]
      /\ UNCHANGED <<clock, codes, users, links, sessions, asked, tab, jar>>
  BY DEF ExchangeBridgeCode, Inv, Calling
<1>3. w \in Exchange /\ w.code = call[c].code
  BY <1>1 DEF CallFits, CallRow, Exchange, Inv, Stored
<1>4. /\ it \in CallRow /\ it.pc = "exchanging" /\ it.code = call[c].code
      /\ it.browser = call[c].browser /\ it.presented = call[c].presented
      /\ it.outcome = call[c].outcome
  BY <1>1 DEF CallRow, Steps
<1> HIDE DEF it, w
<1>5. CallFits(it, w) /\ ~Holding(it)
  BY <1>1, <1>3, <1>4 DEF CallFits, Holding
<1> QED BY <1>2, <1>3, <1>4, <1>5, CallKeeps, JarsStay

LEMMA LoseKeeps ==
  ASSUME Inv, NEW c \in Calls, LoseRequest(c)
  PROVE  Inv'
<1>1. call[c] \in CallRow /\ CallFits(call[c], wire[c]) /\ call[c].pc # "exchanging"
      /\ call' = [call EXCEPT ![c] = call[c]] /\ wire' = [wire EXCEPT ![c] = None]
      /\ UNCHANGED <<clock, codes, users, links, sessions, asked, tab, jar>>
  BY DEF LoseRequest, Inv, Calling, CallsFit
<1>2. CallFits(call[c], None)
  BY <1>1 DEF CallFits
<1> QED BY <1>1, <1>2, CallKeeps, JarsStay

LEMMA BeginLoginKeeps ==
  ASSUME Inv, NEW c \in Calls, BeginLogin(c)
  PROVE  Inv'
<1> DEFINE u == EvaluateIdentityLink(FindExternalIdentity(call[c].subject))
           it == [call[c] EXCEPT !.pc = "linking", !.linked = u]
<1>1. call[c] \in CallRow /\ CallFits(call[c], wire[c]) /\ call[c].pc = "vouched"
      /\ call' = [call EXCEPT ![c] = it]
      /\ UNCHANGED <<clock, codes, users, links, sessions, asked, tab, jar, wire>>
  BY DEF BeginLogin, Inv, Calling, CallsFit
<1>2. u = None \/ (u \in Users /\ [subject |-> call[c].subject, user |-> u] \in links)
  <2> DEFINE S == FindExternalIdentity(call[c].subject)
             l == Pick(S)
  <2>1. CASE S = {}
    BY <2>1 DEF EvaluateIdentityLink
  <2>2. CASE S # {}
    <3>1. l \in S
      BY <2>2, PickIsIn
    <3>2. l \in links /\ l.subject = call[c].subject
      BY <3>1 DEF FindExternalIdentity
    <3>3. u = l.user
      BY <2>2 DEF EvaluateIdentityLink
    <3> HIDE DEF l, u
    <3>4. l \in [subject : Accounts \cup Handles, user : Users]
      BY <3>2 DEF Inv, Stored
    <3>5. l = [subject |-> l.subject, user |-> l.user] /\ l.user \in Users
      BY <3>4
    <3> QED BY <3>2, <3>3, <3>5
  <2> QED BY <2>1, <2>2
<1> HIDE DEF u
<1>3. /\ it \in CallRow /\ it.pc = "linking" /\ it.linked = u /\ it.code = call[c].code
      /\ it.browser = call[c].browser /\ it.presented = call[c].presented
      /\ it.outcome = call[c].outcome /\ it.subject = call[c].subject
  <2>1. u \in Users \cup {None} /\ "linking" \in Steps
    BY <1>2 DEF Steps
  <2> HIDE DEF Steps
  <2> QED BY <1>1, <2>1 DEF CallRow
<1> HIDE DEF it
<1>4. CallFits(it, wire[c])
  BY <1>1, <1>2, <1>3 DEF CallFits
<1>5. Holding(it) => Holding(call[c]) /\ it.code = call[c].code
  BY <1>1, <1>3 DEF Holding
<1> QED BY <1>1, <1>3, <1>4, <1>5, CallOnlyKeeps, JarsStay

----------------------------------------------------------------------------
(* The shop answers.  Only the request that burns the code gets it, so no  *)
(* one held it before.                                                     *)
LEMMA ExchangeKeeps ==
  ASSUME Inv, NEW c \in Calls, NEW heard \in BOOLEAN, RestExchange(c, heard)
  PROVE  Inv'
<1> DEFINE k == wire[c].code
           row == codes[k]
           won == TimestampIsFresh(wire[c].at) /\ environment = "paired" /\ Consumable(row)
           subject == IF won /\ GrantHolds(row, wire[c]) THEN row.subject ELSE None
           pc == IF subject = None THEN "answer" ELSE "vouched"
           it == IF heard /\ call[c].pc = "exchanging"
                 THEN [call[c] EXCEPT !.pc = pc, !.subject = subject] ELSE call[c]
<1>1. /\ wire[c] \in Exchange /\ wire' = [wire EXCEPT ![c] = None]
      /\ codes' = IF won THEN [codes EXCEPT ![k].used = TRUE] ELSE codes
      /\ UNCHANGED <<clock, tab, jar, asked, users, links, sessions>>
  BY DEF RestExchange, Inv, Calling
<1>2. call' = [call EXCEPT ![c] = it]
  BY DEF RestExchange, Inv, Calling
<1>3. k \in Codes /\ row \in CodeRow \cup {None} /\ (won => row # None /\ ~row.used)
  BY <1>1 DEF Exchange, Inv, Stored, Consumable
<1>4. call[c] \in CallRow /\ CallFits(call[c], wire[c])
  BY DEF Inv, Calling, CallsFit
<1>5. subject \in Accounts \cup {None} /\ (subject # None => won /\ subject = row.subject)
  BY <1>3 DEF CodeRow
<1>6. pc \in Steps /\ (pc = "vouched" => subject # None) /\ pc \in {"vouched", "answer"}
  BY DEF Steps
<1> HIDE DEF subject, pc, won
<1>7. /\ it \in CallRow /\ it.code = call[c].code /\ it.browser = call[c].browser
      /\ it.presented = call[c].presented /\ it.outcome = call[c].outcome
      /\ it.linked = call[c].linked
      /\ (it.pc = call[c].pc /\ it.subject = call[c].subject)
           \/ (call[c].pc = "exchanging" /\ it.pc = pc /\ it.subject = subject)
  <2>1. CASE heard /\ call[c].pc = "exchanging"
    BY <1>4, <1>5, <1>6, <2>1 DEF CallRow
  <2>2. CASE ~(heard /\ call[c].pc = "exchanging")
    BY <1>4, <2>2
  <2> QED BY <2>1, <2>2
<1> HIDE DEF it
<1>8. /\ codes' \in [Codes -> CodeRow \cup {None}]
      /\ \A x \in Codes : codes[x] # None =>
           /\ codes'[x] # None /\ codes'[x].state = codes[x].state
           /\ codes'[x].subject = codes[x].subject
           /\ codes[x].used \/ (won /\ x = k) => codes'[x].used
  <2>1. CASE won
    <3> DEFINE new == [row EXCEPT !.used = TRUE]
    <3>1. codes' = [codes EXCEPT ![k] = new]
      BY <1>1, <1>3, <2>1 DEF Inv, Stored
    <3>2. new \in CodeRow /\ new.state = row.state /\ new.subject = row.subject /\ new.used = TRUE
      BY <1>3, <2>1 DEF CodeRow
    <3> HIDE DEF new
    <3>3. new # None
      BY <3>2, NoneIsNoRow
    <3>4. \A x \in Codes : codes'[x] = IF x = k THEN new ELSE codes[x]
      BY <3>1 DEF Inv, Stored
    <3>5. \A x \in Codes : codes[x] # None => codes[x].used \in BOOLEAN
      BY DEF Inv, Stored, CodeRow
    <3> QED BY <1>3, <2>1, <3>1, <3>2, <3>3, <3>4, <3>5 DEF Inv, Stored
  <2>2. CASE ~won
    BY <1>1, <2>2 DEF Inv, Stored, CodeRow
  <2> QED BY <2>1, <2>2
<1>9. Calling' /\ \A d \in Calls : /\ call'[d] = IF d = c THEN it ELSE call[d]
                                   /\ wire'[d] = IF d = c THEN None ELSE wire[d]
  BY <1>1, <1>2, <1>7 DEF Inv, Calling
<1>10. Stored' /\ Tabs' /\ Jars' /\ LinksFit'
  BY <1>1, <1>8 DEF Inv, Stored, Tabs, Jars, LinksFit
<1>11. \A d \in Calls : call[d].code \in Codes \cup {None}
  BY DEF Inv, Calling, CallRow
<1>12. CallsFit'
  <2>1. ASSUME NEW d \in Calls, d # c PROVE CallFits(call[d], wire[d])'
    <3>1. CallFits(call[d], wire[d]) /\ call'[d] = call[d] /\ wire'[d] = wire[d]
      BY <1>9, <2>1 DEF Inv, CallsFit
    <3>2. asked' = asked /\ sessions' = sessions /\ links' = links
      BY <1>1
    <3> QED BY <1>8, <1>11, <3>1, <3>2 DEF CallFits
  <2>2. CallFits(call[c], wire[c])'
    <3>1. call'[c] = it /\ wire'[c] = None /\ asked' = asked /\ sessions' = sessions /\ links' = links
      BY <1>1, <1>9
    <3>2. CASE it.pc = call[c].pc /\ it.subject = call[c].subject
      BY <1>4, <1>7, <1>8, <1>11, <3>1, <3>2 DEF CallFits
    <3>3. CASE call[c].pc = "exchanging" /\ it.pc = pc /\ it.subject = subject
      <4>1. call[c].code # None /\ call[c].code = k
        BY <1>1, <1>4, <3>3, NoneIsNoRow DEF CallFits
      <4>2. pc = "vouched" => codes'[k].used /\ codes'[k].subject = subject
        BY <1>3, <1>5, <1>6, <1>8
      <4> QED BY <1>3, <1>4, <1>6, <1>7, <1>8, <3>1, <3>3, <4>1, <4>2 DEF CallFits
    <3> QED BY <1>7, <3>2, <3>3
  <2> QED BY <2>1, <2>2 DEF CallsFit
<1>13. SessionsFit'
  <2>1. sessions' = sessions /\ asked' = asked /\ links' = links
    BY <1>1
  <2>2. ASSUME NEW s \in Sessions, sessions[s] # None PROVE SessionFits(sessions'[s], codes', asked', links')
    <3>1. SessionFits(sessions[s], codes, asked, links) /\ sessions[s].code \in Codes \cup {None}
      BY <2>2 DEF Inv, SessionsFit, Stored, SessionRow
    <3> QED BY <1>8, <2>1, <3>1 DEF SessionFits
  <2> QED BY <2>1, <2>2 DEF Inv, SessionsFit
<1>14. OneHolder'
  <2>1. \A d \in Calls : Holding(call[d]) => codes[call[d].code] # None /\ codes[call[d].code].used
    BY DEF Holding, Inv, CallsFit, CallFits
  <2>2. \A s \in Sessions : sessions[s] # None /\ sessions[s].code # None => codes[sessions[s].code].used
    BY DEF Inv, SessionsFit, SessionFits
  <2>3. Holding(it) => Holding(call[c]) \/ (won /\ it.code = k)
    <3>1. CASE it.pc = call[c].pc
      BY <1>7, <3>1 DEF Holding
    <3>2. CASE call[c].pc = "exchanging" /\ it.pc = pc
      BY <1>1, <1>4, <1>5, <1>6, <1>7, <3>2, NoneIsNoRow DEF Holding, CallFits
    <3> QED BY <1>7, <3>1, <3>2
  <2>4. won => \A d \in Calls : Holding(call[d]) => call[d].code # k
    BY <1>3, <2>1
  <2>5. won => \A s \in Sessions : sessions[s] # None => sessions[s].code # k
    BY <1>3, <2>2, NoneIsNoRow
  <2>6. it.code = call[c].code
    BY <1>7
  <2>7. \A d \in Calls : d # c => call'[d] = call[d]
    BY <1>9
  <2>8. call'[c] = it /\ sessions' = sessions
    BY <1>1, <1>9
  <2> HIDE DEF Holding
  <2>9. ASSUME NEW d \in Calls, NEW e \in Calls, Holding(call'[d]), Holding(call'[e]),
               call'[d].code = call'[e].code
        PROVE  d = e
    BY <2>3, <2>4, <2>6, <2>7, <2>8, <2>9 DEF Inv, OneHolder
  <2>10. ASSUME NEW d \in Calls, NEW s \in Sessions, Holding(call'[d]), sessions'[s] # None
         PROVE  sessions'[s].code # call'[d].code
    BY <2>3, <2>5, <2>6, <2>7, <2>8, <2>10 DEF Inv, OneHolder
  <2> QED BY <2>9, <2>10 DEF OneHolder, Holding
<1> QED BY <1>9, <1>10, <1>12, <1>13, <1>14 DEF Inv

(* Revoking a session leaves whose it is. *)
LEMMA RevokeKeepsRows ==
  ASSUME Inv, NEW s \in Sessions \cup {None}, s # None => sessions[s] # None,
         NEW table, table = RevokeSessionWithSecret(sessions, s)
  PROVE  /\ table \in [Sessions -> SessionRow \cup {None}]
         /\ \A t \in Sessions :
              /\ (table[t] # None) <=> (sessions[t] # None)
              /\ sessions[t] # None => /\ table[t].code = sessions[t].code
                                       /\ table[t].user = sessions[t].user
                                       /\ table[t].browser = sessions[t].browser
                                       /\ table[t].subject = sessions[t].subject
<1>1. CASE table = sessions
  BY <1>1 DEF Inv, Stored
<1>2. CASE s \in Sessions /\ table = [sessions EXCEPT ![s].revoked = TRUE]
  <2> DEFINE new == [sessions[s] EXCEPT !.revoked = TRUE]
  <2>0. s # None
    BY <1>2, NoneIsNoRow
  <2>1. sessions[s] \in SessionRow
    BY <1>2, <2>0 DEF Inv, Stored
  <2>2. /\ new \in SessionRow /\ new.code = sessions[s].code /\ new.user = sessions[s].user
        /\ new.browser = sessions[s].browser /\ new.subject = sessions[s].subject
    BY <2>1 DEF SessionRow
  <2>3. table = [sessions EXCEPT ![s] = new]
    BY <1>2 DEF Inv, Stored
  <2> HIDE DEF new
  <2>4. new # None
    BY <2>2, NoneIsNoRow
  <2> QED BY <1>2, <2>0, <2>2, <2>3, <2>4 DEF Inv, Stored
<1> QED BY <1>1, <1>2, NoneIsNoRow DEF RevokeSessionWithSecret

(* A session is issued: who holds the code hands it to the session. *)
LEMMA CommitKeeps ==
  ASSUME Inv, NEW c \in Calls, CommitLogin(c)
  PROVE  Inv'
<1> DEFINE s == Pick(Fresh(Sessions, sessions))
           u == IF call[c].linked # None THEN call[c].linked ELSE Pick(Users \ users)
           table == RevokeSessionWithSecret(sessions, call[c].presented)
           new == [user |-> u, expires |-> clock + SessionTtl, revoked |-> FALSE,
                   code |-> call[c].code, browser |-> call[c].browser, subject |-> call[c].subject]
           it == [call[c] EXCEPT !.pc = "answer", !.outcome = s]
<1>1. call[c] \in CallRow /\ CallFits(call[c], wire[c]) /\ call[c].pc = "linking"
  BY DEF CommitLogin, Inv, Calling, CallsFit
<1>2. /\ sessions' = [table EXCEPT ![s] = new] /\ call' = [call EXCEPT ![c] = it]
      /\ UNCHANGED <<clock, codes, wire, tab, jar, asked>>
  BY DEF CommitLogin, InsertSession, Inv, Calling
<1>3. s \in Sessions /\ sessions[s] = None
  BY PickIsIn DEF CommitLogin, Fresh
<1>4. /\ u \in Users
      /\ links' = links \cup {[subject |-> call[c].subject, user |-> u]}
      /\ users' = users \cup {u}
      /\ call[c].linked # None => links' = links /\ users' = users
      /\ call[c].linked = None => u \notin users /\ \A l \in links : l.subject # call[c].subject
  <2>1. CASE call[c].linked # None
    <3>1. u = call[c].linked /\ u \in Users /\ UNCHANGED <<users, links>>
      BY <1>1, <2>1 DEF CommitLogin, CallRow
    <3>2. [subject |-> call[c].subject, user |-> u] \in links
      BY <1>1, <2>1, <3>1 DEF CallFits
    <3>3. u \in {l.user : l \in links}
      BY <3>2
    <3> QED BY <2>1, <3>1, <3>2, <3>3 DEF Inv, LinksFit
  <2>2. CASE call[c].linked = None
    <3>0. u = Pick(Users \ users)
      BY <2>2
    <3>1. SubjectIsFree(call[c].subject) /\ users # Users /\ CreateLinkedUser(call[c].subject, u)
      <4> HIDE DEF u
      <4> QED BY <2>2, <3>0 DEF CommitLogin
    <3>2. u \in Users \ users
      BY <3>0, <3>1, PickIsIn DEF Inv, Stored
    <3> QED BY <2>2, <3>1, <3>2 DEF SubjectIsFree, CreateLinkedUser
  <2> QED BY <2>1, <2>2
<1> HIDE DEF u, s
<1>5. /\ call[c].browser \in Browsers /\ call[c].subject \in Accounts \cup Handles
      /\ call[c].code \in Codes \cup {None}
  BY <1>1 DEF CallRow, CallFits
<1>6. new \in SessionRow /\ new # None
  <2>1. new \in SessionRow
    BY <1>4, <1>5, BridgeAssumption DEF SessionRow, Inv, Stored
  <2> QED BY <2>1, NoneIsNoRow
<1>7. new.code = call[c].code /\ new.browser = call[c].browser /\ new.subject = call[c].subject /\ new.user = u
  OBVIOUS
<1>8. /\ table \in [Sessions -> SessionRow \cup {None}]
      /\ \A t \in Sessions :
           /\ (table[t] # None) <=> (sessions[t] # None)
           /\ sessions[t] # None => /\ table[t].code = sessions[t].code
                                    /\ table[t].user = sessions[t].user
                                    /\ table[t].browser = sessions[t].browser
                                    /\ table[t].subject = sessions[t].subject
  BY <1>1, RevokeKeepsRows DEF CallRow, CallFits
<1>9. /\ it \in CallRow /\ it.pc = "answer" /\ it.outcome = s /\ it.presented = call[c].presented
  <2>1. "answer" \in Steps
    BY DEF Steps
  <2> QED BY <1>1, <1>3, <2>1 DEF CallRow
<1> HIDE DEF new, table, it
<1>10. \A t \in Sessions :
         /\ sessions'[t] = IF t = s THEN new ELSE table[t]
         /\ sessions[t] # None => sessions'[t] # None /\ t # s
  BY <1>2, <1>3, <1>6, <1>8
<1>11. Calling' /\ \A d \in Calls : /\ call'[d] = IF d = c THEN it ELSE call[d]
                                    /\ wire'[d] = wire[d]
  BY <1>2, <1>9 DEF Inv, Calling
<1>12. Stored'
  <2>1. sessions' \in [Sessions -> SessionRow \cup {None}]
    BY <1>2, <1>3, <1>6, <1>8
  <2>2. [subject |-> call[c].subject, user |-> u] \in [subject : Accounts \cup Handles, user : Users]
    BY <1>4, <1>5
  <2> QED BY <1>2, <1>4, <2>1, <2>2 DEF Inv, Stored
<1>13. Tabs' /\ Jars'
  BY <1>2, <1>10 DEF Inv, Tabs, Jars, JarRow
<1>14. CallsFit'
  <2>1. CallFits(call[c], wire[c])'
    BY <1>1, <1>3, <1>6, <1>9, <1>10, <1>11 DEF CallFits, CallRow
  <2>2. ASSUME NEW d \in Calls, d # c PROVE CallFits(call[d], wire[d])'
    <3>1. CallFits(call[d], wire[d]) /\ call[d] \in CallRow
      BY DEF Inv, CallsFit, Calling
    <3>2. call[d].presented \in Sessions \cup {None} /\ call[d].outcome \in Sessions \cup {None}
      BY <3>1 DEF CallRow
    <3>3. call'[d] = call[d] /\ wire'[d] = wire[d] /\ codes' = codes /\ asked' = asked
          /\ links \subseteq links'
      BY <1>2, <1>4, <1>11, <2>2
    <3> QED BY <1>10, <3>1, <3>2, <3>3 DEF CallFits
  <2> QED BY <2>1, <2>2 DEF CallsFit
<1>15. OneHolder'
  <2>1. \A d \in Calls : Holding(call'[d]) => d # c /\ call'[d] = call[d]
    BY <1>9, <1>11 DEF Holding
  <2>2. call[c].code # None => Holding(call[c])
    BY <1>1 DEF Holding
  <2>3. \A d \in Calls : Holding(call[d]) => call[d].code # None
    BY DEF Holding
  <2> HIDE DEF Holding
  <2>4. ASSUME NEW d \in Calls, NEW e \in Calls, Holding(call'[d]), Holding(call'[e]),
               call'[d].code = call'[e].code
        PROVE  d = e
    BY <2>1, <2>4 DEF Inv, OneHolder
  <2>5. ASSUME NEW d \in Calls, NEW t \in Sessions, Holding(call'[d]), sessions'[t] # None
        PROVE  sessions'[t].code # call'[d].code
    <3>1. CASE t = s
      BY <1>7, <1>10, <2>1, <2>2, <2>3, <2>5, <3>1 DEF Inv, OneHolder
    <3>2. CASE t # s
      BY <1>8, <1>10, <2>1, <2>5, <3>2 DEF Inv, OneHolder
    <3> QED BY <3>1, <3>2
  <2> QED BY <2>4, <2>5 DEF OneHolder, Holding
<1>16. SessionsFit'
  <2>1. SessionFits(new, codes', asked', links')
    BY <1>1, <1>2, <1>4, <1>7 DEF SessionFits, CallFits
  <2>2. ASSUME NEW t \in Sessions, sessions[t] # None
        PROVE  SessionFits(table[t], codes', asked', links')
    <3>1. SessionFits(sessions[t], codes, asked, links)
      BY <2>2 DEF Inv, SessionsFit
    <3>2. codes' = codes /\ asked' = asked /\ links \subseteq links'
      BY <1>2, <1>4
    <3> QED BY <1>8, <2>2, <3>1, <3>2 DEF SessionFits
  <2>3. ASSUME NEW t \in Sessions, sessions'[t] # None
        PROVE  SessionFits(sessions'[t], codes', asked', links')
    BY <1>8, <1>10, <2>1, <2>2, <2>3
  <2>4. ASSUME NEW t \in Sessions, NEW x \in Sessions, sessions'[t] # None, sessions'[x] # None,
               sessions'[t].code # None, sessions'[t].code = sessions'[x].code
        PROVE  t = x
    <3>1. call[c].code # None => Holding(call[c])
      BY <1>1 DEF Holding
    <3>2. \A y \in Sessions : call[c].code # None /\ sessions[y] # None => sessions[y].code # call[c].code
      BY <3>1 DEF Inv, OneHolder
    <3>3. \A y \in Sessions : y # s /\ sessions'[y] # None =>
            sessions[y] # None /\ sessions'[y].code = sessions[y].code
      BY <1>8, <1>10
    <3>4. sessions'[s].code = call[c].code
      BY <1>3, <1>7, <1>10
    <3>5. CASE t = s \/ x = s
      BY <2>4, <3>2, <3>3, <3>4, <3>5
    <3>6. CASE t # s /\ x # s
      BY <2>4, <3>3, <3>6 DEF Inv, SessionsFit
    <3> QED BY <3>5, <3>6
  <2> QED BY <2>3, <2>4 DEF SessionsFit
<1>17. LinksFit'
  <2> DEFINE l == [subject |-> call[c].subject, user |-> u]
  <2>1. CASE call[c].linked # None
    BY <1>4, <2>1 DEF Inv, LinksFit
  <2>2. CASE call[c].linked = None
    <3>1. l.subject = call[c].subject /\ l.user = u
      OBVIOUS
    <3>2. links' = links \cup {l} /\ users' = users \cup {u}
      BY <1>4
    <3> HIDE DEF l
    <3>3. \A m \in links : m.subject # l.subject /\ m.user # l.user
      BY <1>4, <2>2, <3>1 DEF Inv, LinksFit
    <3> QED BY <3>1, <3>2, <3>3 DEF Inv, LinksFit
  <2> QED BY <2>1, <2>2
<1> QED BY <1>11, <1>12, <1>13, <1>14, <1>15, <1>16, <1>17 DEF Inv

LEMMA SignOutKeeps ==
  ASSUME Inv, NEW b \in Browsers, NEW heard \in BOOLEAN, SignOut(b, heard)
  PROVE  Inv'
<1> DEFINE table == RevokeSessionWithSecret(sessions, jar[b].session)
<1>1. /\ sessions' = table /\ UNCHANGED <<clock, codes, users, links, call, wire, tab, asked>>
      /\ jar' = IF heard THEN [jar EXCEPT ![b].session = None] ELSE jar
  BY DEF SignOut, ReadSessionCookie
<1>2. jar[b] \in JarRow /\ (jar[b].session # None => sessions[jar[b].session] # None)
  BY DEF Inv, Jars
<1>3. /\ table \in [Sessions -> SessionRow \cup {None}]
      /\ \A t \in Sessions :
           /\ (table[t] # None) <=> (sessions[t] # None)
           /\ sessions[t] # None => /\ table[t].code = sessions[t].code
                                    /\ table[t].user = sessions[t].user
                                    /\ table[t].browser = sessions[t].browser
                                    /\ table[t].subject = sessions[t].subject
  BY <1>2, RevokeKeepsRows DEF JarRow
<1> HIDE DEF table
<1>4. Stored' /\ Tabs' /\ Calling' /\ LinksFit'
  BY <1>1, <1>3 DEF Inv, Stored, Tabs, Calling, LinksFit
<1>5. Jars'
  <2>1. jar' \in [Browsers -> JarRow] /\ \A x \in Browsers :
          jar'[x].state = jar[x].state /\ jar'[x].session \in {jar[x].session, None}
    BY <1>1, <1>2 DEF Inv, Jars, JarRow
  <2>2. \A x \in Browsers : jar[x].session \in Sessions \cup {None}
    BY DEF Inv, Jars, JarRow
  <2> QED BY <1>1, <1>3, <2>1, <2>2 DEF Inv, Jars
<1>6. CallsFit'
  <2>1. ASSUME NEW d \in Calls PROVE CallFits(call[d], wire[d])'
    <3>1. CallFits(call[d], wire[d]) /\ call[d] \in CallRow
      BY DEF Inv, CallsFit, Calling
    <3>2. call[d].presented \in Sessions \cup {None} /\ call[d].outcome \in Sessions \cup {None}
      BY <3>1 DEF CallRow
    <3> QED BY <1>1, <1>3, <3>1, <3>2 DEF CallFits
  <2> QED BY <2>1 DEF CallsFit
<1>7. OneHolder'
  BY <1>1, <1>3 DEF Inv, OneHolder
<1>8. SessionsFit'
  <2>1. ASSUME NEW t \in Sessions, sessions'[t] # None
        PROVE  SessionFits(sessions'[t], codes', asked', links')
    <3>1. SessionFits(sessions[t], codes, asked, links) /\ sessions[t] # None
      BY <1>1, <1>3, <2>1 DEF Inv, SessionsFit
    <3> QED BY <1>1, <1>3, <3>1 DEF SessionFits
  <2> QED BY <1>1, <1>3, <2>1 DEF Inv, SessionsFit
<1> QED BY <1>4, <1>5, <1>6, <1>7, <1>8 DEF Inv

LEMMA NextKeeps ==
  ASSUME Inv, [BridgeNext]_bridgeVars
  PROVE  Inv'
<1>1. CASE UNCHANGED bridgeVars
  BY <1>1, ShopKeeps, JarsStay DEF bridgeVars, Inv, Stored, Tabs
<1>2. CASE ShopStep
  BY <1>2, ShopStepKeeps
<1>3. ASSUME NEW c \in Calls, RequestStep(c) PROVE Inv'
  <2>1. ASSUME NEW b \in Browsers, NEW k \in Codes, Callback(c, b, k) PROVE Inv'
    BY <2>1, CallbackKeeps
  <2>2. ASSUME NEW b \in Browsers, NEW h \in Handles, DevSignIn(c, b, h) PROVE Inv'
    BY <2>2, DevSignInKeeps
  <2>3. CASE RateLimited(c) \/ GiveUp(c)
    BY <2>3, EndingKeeps DEF RateLimited, GiveUp
  <2>4. CASE LoginCollides(c)
    BY <2>4, EndingKeeps DEF LoginCollides
  <2>5. CASE Killed(c)
    BY <2>5, IdleKeeps, JarsStay DEF Killed
  <2> QED BY <1>3, <2>1, <2>2, <2>3, <2>4, <2>5, BeginExchangeKeeps, LoseKeeps, ExchangeKeeps,
             BeginLoginKeeps, CommitKeeps, DeliverKeeps DEF RequestStep
<1>4. ASSUME NEW b \in Browsers, NEW heard \in BOOLEAN, SignOut(b, heard) PROVE Inv'
  BY <1>4, SignOutKeeps
<1>5. CASE BridgeTick
  <2>1. /\ clock' = clock + 1
        /\ UNCHANGED <<tab, jar, asked, codes, users, links, sessions, call, wire>>
    BY <1>5 DEF BridgeTick
  <2>2. clock' \in Nat /\ Tabs' /\ Jars'
    BY <2>1, JarsStay DEF Inv, Stored, Tabs
  <2> QED BY <2>1, <2>2, ShopKeeps
<1> QED BY <1>1, <1>2, <1>3, <1>4, <1>5 DEF BridgeNext

LEMMA AlwaysInv == BridgeSpec => []Inv
BY InitInv, NextKeeps, PTL DEF BridgeSpec

----------------------------------------------------------------------------
(* A one-time code makes at most one session, for the account that         *)
(* authorised it, in the browser that asked: between the shop's answer and *)
(* the session one request holds it, and the shop answers only who burned  *)
(* it.                                                                     *)
THEOREM CodesSignInOnce == BridgeSpec => []CodeSignsInOnce
<1>1. Inv => CodeSignsInOnce
  BY DEF Inv, SessionsFit, SessionFits, CodeSignsInOnce, IssuedSessions
<1> QED BY <1>1, AlwaysInv, PTL

(* A shop account is one app user for ever, however first sign-ins race.   *)
THEOREM SubjectsHaveOneUser == BridgeSpec => []OneUserPerSubject
<1>1. Inv => OneUserPerSubject
  BY DEF Inv, LinksFit, SessionsFit, SessionFits, OneUserPerSubject, IssuedSessions
<1> QED BY <1>1, AlwaysInv, PTL

-----------------------------------------------------------------------------
(* Outbox: what becomes of a queued event.                                 *)

(* What a run has read of the rows, and what it still has to insert.       *)
Items == [row : Listed, attempts : Nat]
OutboxRow == [status : Statuses, attempts : Nat, wait : Int]
RunRow == [pc : {"idle", "queueing", "starting", "checking", "stealing", "reading", "sending"},
           elapsed : Nat, todo : SUBSET Listed, queued : BOOLEAN,
           queue : Seq(Items), result : {"none", "ok", "refused", "later"}]

Outboxes == outbox \in [Listed -> OutboxRow]
Orders == order \in Seq(Listed)
RunRows == run \in [Runs -> RunRow]

(* A run that has an answer has it for the first row of its queue.         *)
AnswerFits(it) ==
  /\ it.result # "none" => it.pc = "sending" /\ it.queue # <<>>
  /\ it.result = "ok" => Head(it.queue).row \in inbox
  /\ it.result = "refused" => Head(it.queue).row \in Malformed
AnswersFit == \A p \in Runs : AnswerFits(run[p])

RowIsKept(r) ==
  /\ outbox[r].status = "delivered" => r \in inbox
  /\ outbox[r].status = "dead" => r \in Malformed \/ outbox[r].attempts > Len(Backoff)

OutboxInv ==
  /\ Outboxes /\ Orders /\ RunRows /\ AnswersFit
  /\ \A r \in Listed : RowIsKept(r)

LEMMA OutboxInitInv == OutboxInit => OutboxInv
<1> SUFFICES ASSUME OutboxInit PROVE OutboxInv
  OBVIOUS
<1>1. Outboxes /\ \A r \in Listed : RowIsKept(r)
  BY DEF OutboxInit, Outboxes, OutboxRow, NoRow, Statuses, RowIsKept
<1>2. Orders /\ RunRows
  BY DEF OutboxInit, Orders, RunRows, RunRow, Asleep
<1>3. AnswersFit
  BY DEF OutboxInit, AnswersFit, AnswerFits, Asleep
<1> QED BY <1>1, <1>2, <1>3 DEF OutboxInv

LEMMA AsleepIsARun == Asleep \in RunRow /\ AnswerFits(Asleep)
BY DEF Asleep, RunRow, AnswerFits

(* A step of one run that touches no row: the run's new state must fit.    *)
LEMMA RunMoves ==
  ASSUME OutboxInv, NEW p \in Runs, NEW it \in RunRow, run' = [run EXCEPT ![p] = it],
         AnswerFits(it), UNCHANGED <<outbox, order, inbox>>
  PROVE  OutboxInv'
<1>1. Outboxes' /\ Orders' /\ \A r \in Listed : RowIsKept(r)'
  BY DEF OutboxInv, Outboxes, Orders, RowIsKept
<1>2. run' \in [Runs -> RunRow] /\ \A x \in Runs : run'[x] = IF x = p THEN it ELSE run[x]
  BY DEF OutboxInv, RunRows
<1>4. RunRows'
  BY <1>2 DEF RunRows
<1>5. AnswersFit'
  BY <1>2 DEF OutboxInv, AnswersFit, AnswerFits
<1> QED BY <1>1, <1>4, <1>5 DEF OutboxInv

(* A run without an answer may change its phase. *)
LEMMA PhaseChanges ==
  ASSUME OutboxInv, NEW p \in Runs, run[p].pc # "sending",
         NEW pc \in {"starting", "checking", "stealing", "reading"}, run' = [run EXCEPT ![p].pc = pc],
         UNCHANGED <<outbox, order, inbox>>
  PROVE  OutboxInv'
<1> DEFINE it == [run[p] EXCEPT !.pc = pc]
<1>1. run[p] \in RunRow /\ AnswerFits(run[p])
  BY DEF OutboxInv, RunRows, AnswersFit
<1>2. it \in RunRow /\ it.result = "none"
  BY <1>1 DEF RunRow, AnswerFits
<1>3. AnswerFits(it)
  BY <1>2 DEF AnswerFits
<1> HIDE DEF it
<1>4. run' = [run EXCEPT ![p] = it]
  BY DEF it
<1> QED BY <1>2, <1>3, <1>4, RunMoves

LEMMA FallsAsleep ==
  ASSUME OutboxInv, NEW p \in Runs, run' = [run EXCEPT ![p] = Asleep],
         UNCHANGED <<outbox, order, inbox>>
  PROVE  OutboxInv'
BY AsleepIsARun, RunMoves

(* What is due is a sequence of rows. *)
LEMMA DueIsQueued ==
  ASSUME OutboxInv, NEW elapsed, NEW queue \in Due(elapsed)
  PROVE  queue \in Seq(Items)
<1> DEFINE due == {i \in 1..Len(order) : IsDue(order[i], elapsed)}
           length == IF Cardinality(due) < Batch THEN Cardinality(due) ELSE Batch
           item(i) == [row |-> order[i], attempts |-> outbox[order[i]].attempts]
<1>1. PICK q \in OldestFirst(due) : queue = [i \in 1..length |-> item(q[i])]
  BY DEF Due
<1>2. Len(order) \in Nat
  BY LenProperties DEF OutboxInv, Orders
<1>3. Cardinality(due) \in Nat
  <2>1. IsFiniteSet(1..Len(order))
    BY <1>2, FS_Interval
  <2> QED BY <2>1, FS_Subset, FS_CardinalityType
<1>4. length \in Nat /\ length <= Cardinality(due)
  BY <1>3, OutboxAssumption
<1>5. q \in [1..Cardinality(due) -> due]
  BY <1>1 DEF OldestFirst
<1> HIDE DEF length
<1>6. ASSUME NEW i \in 1..length PROVE item(q[i]) \in Items
  <2>1. q[i] \in 1..Len(order)
    BY <1>3, <1>4, <1>5
  <2>2. order[q[i]] \in Listed
    BY <2>1, ElementOfSeq DEF OutboxInv, Orders
  <2>3. outbox[order[q[i]]].attempts \in Nat
    BY <2>2 DEF OutboxInv, Outboxes, OutboxRow
  <2> QED BY <2>2, <2>3 DEF Items
<1> HIDE DEF due, item
<1>7. [i \in 1..length |-> item(q[i])] \in Seq(Items)
  BY <1>4, <1>6
<1> QED BY <1>1, <1>7

LEMMA ReadKeeps ==
  ASSUME OutboxInv, NEW p \in Runs, ReadDue(p)
  PROVE  OutboxInv'
<1>1. PICK queue \in Due(run[p].elapsed) :
        run' = [run EXCEPT ![p].pc = "sending", ![p].queue = queue]
  BY DEF ReadDue
<1>2. queue \in Seq(Items)
  BY DueIsQueued
<1> DEFINE it == [run[p] EXCEPT !.pc = "sending", !.queue = queue]
<1>3. run[p] \in RunRow /\ run[p].result = "none"
  BY DEF OutboxInv, RunRows, AnswersFit, AnswerFits, ReadDue
<1>4. it \in RunRow /\ AnswerFits(it)
  BY <1>2, <1>3 DEF RunRow, AnswerFits
<1>5. run' = [run EXCEPT ![p] = it]
  BY <1>1, <1>3 DEF OutboxInv, RunRows
<1> HIDE DEF it
<1> QED BY <1>4, <1>5, RunMoves DEF ReadDue

LEMMA SendKeeps ==
  ASSUME OutboxInv, NEW p \in Runs, NEW heard \in BOOLEAN, Send(p, heard)
  PROVE  OutboxInv'
<1> DEFINE r == Head(run[p].queue).row
<1>1. run[p] \in RunRow /\ run[p].pc = "sending" /\ run[p].queue # <<>>
  BY DEF Send, OutboxInv, RunRows
<1>2. PICK reply \in HandleCommerceWebhook(r) :
        /\ inbox' = IF reply.stored THEN inbox \cup {r} ELSE inbox
        /\ run' = [run EXCEPT ![p].result = Outcome(reply.answer, heard)]
  BY DEF Send
<1> DEFINE result == Outcome(reply.answer, heard)
           it == [run[p] EXCEPT !.result = result]
<1>3. /\ result \in {"ok", "refused", "later"}
      /\ result = "ok" => r \in inbox'
      /\ result = "refused" => r \in Malformed
  BY <1>2 DEF HandleCommerceWebhook, Outcome
<1>4. it \in RunRow /\ it.queue = run[p].queue /\ it.pc = "sending" /\ it.result = result
  BY <1>1, <1>3 DEF RunRow
<1>5. run' = [run EXCEPT ![p] = it] /\ inbox \subseteq inbox'
  BY <1>2
<1> HIDE DEF it, result
<1>6. UNCHANGED <<outbox, order>>
  BY DEF Send
<1>7. Outboxes' /\ Orders' /\ \A x \in Listed : RowIsKept(x)'
  BY <1>5, <1>6 DEF OutboxInv, Outboxes, Orders, RowIsKept
<1>8. run' \in [Runs -> RunRow] /\ \A x \in Runs : run'[x] = IF x = p THEN it ELSE run[x]
  BY <1>4, <1>5 DEF OutboxInv, RunRows
<1>9. RunRows'
  BY <1>8 DEF RunRows
<1>10. AnswersFit'
  <2>1. AnswerFits(run[p])'
    BY <1>1, <1>3, <1>4, <1>8 DEF AnswerFits
  <2>2. ASSUME NEW x \in Runs, x # p PROVE AnswerFits(run[x])'
    BY <1>5, <1>8, <2>2 DEF OutboxInv, AnswersFit, AnswerFits
  <2> QED BY <2>1, <2>2 DEF AnswersFit
<1> QED BY <1>7, <1>9, <1>10 DEF OutboxInv

(* What a run records of a row is what its answer justifies. *)
LEMMA RecordKeeps ==
  ASSUME OutboxInv, NEW p \in Runs, RecordAttempt(p)
  PROVE  OutboxInv'
<1> DEFINE item == Head(run[p].queue)
           attempts == item.attempts + 1
           next == NextState(run[p].result, attempts)
           row == [status |-> next.status, attempts |-> attempts, wait |-> next.delay - run[p].elapsed]
           it == [run[p] EXCEPT !.queue = Tail(@), !.result = "none"]
<1>1. /\ run[p].pc = "sending" /\ run[p].result # "none"
      /\ outbox' = [outbox EXCEPT ![item.row] = row]
      /\ run' = [run EXCEPT ![p].queue = Tail(@), ![p].result = "none"]
      /\ UNCHANGED <<order, inbox>>
  BY DEF RecordAttempt
<1>2. run[p] \in RunRow /\ AnswerFits(run[p])
  BY DEF OutboxInv, RunRows, AnswersFit
<1>3. run[p].queue \in Seq(Items) /\ run[p].queue # <<>> /\ run[p].elapsed \in Nat
      /\ run[p].result \in {"ok", "refused", "later"}
  BY <1>1, <1>2 DEF RunRow, AnswerFits
<1>4. item \in Items /\ Tail(run[p].queue) \in Seq(Items)
  BY <1>3, HeadTailProperties
<1>5. item.row \in Listed /\ attempts \in Nat /\ attempts # 0
  BY <1>4 DEF Items
<1>6. /\ next.status \in {"pending", "delivered", "dead"} /\ next.delay \in Nat
      /\ next.status = "delivered" => run[p].result = "ok"
      /\ next.status = "dead" => run[p].result = "refused" \/ attempts > Len(Backoff)
  <2>1. attempts <= Len(Backoff) => Backoff[attempts] \in Nat
    BY <1>5, OutboxAssumption, ElementOfSeq
  <2>2. Len(Backoff) \in Nat
    BY OutboxAssumption, LenProperties
  <2> HIDE DEF attempts
  <2> QED BY <1>3, <1>5, <2>1, <2>2 DEF NextState
<1>7. /\ next.status = "delivered" => item.row \in inbox
      /\ next.status = "dead" => item.row \in Malformed \/ attempts > Len(Backoff)
  BY <1>2, <1>6 DEF AnswerFits
<1> HIDE DEF next
<1>8. row \in OutboxRow /\ row.status = next.status /\ row.attempts = attempts
  BY <1>3, <1>5, <1>6 DEF OutboxRow, Statuses
<1>9. it \in RunRow /\ AnswerFits(it)
  BY <1>2, <1>4 DEF RunRow, AnswerFits
<1>10. run' = [run EXCEPT ![p] = it]
  BY <1>1, <1>2 DEF RunRow, OutboxInv, RunRows
<1> HIDE DEF row, it
<1>11. Outboxes' /\ \A r \in Listed : outbox'[r] = IF r = item.row THEN row ELSE outbox[r]
  BY <1>1, <1>5, <1>8 DEF OutboxInv, Outboxes
<1>12. \A r \in Listed : RowIsKept(r)'
  <2>1. ASSUME NEW r \in Listed, r = item.row PROVE RowIsKept(r)'
    BY <1>1, <1>5, <1>6, <1>7, <1>8, <1>11, <2>1 DEF RowIsKept
  <2>2. ASSUME NEW r \in Listed, r # item.row PROVE RowIsKept(r)'
    BY <1>1, <1>11, <2>2 DEF OutboxInv, RowIsKept
  <2> QED BY <2>1, <2>2
<1>13. run' \in [Runs -> RunRow] /\ \A x \in Runs : run'[x] = IF x = p THEN it ELSE run[x]
  BY <1>9, <1>10 DEF OutboxInv, RunRows
<1>14. RunRows' /\ Orders'
  BY <1>1, <1>13 DEF RunRows, OutboxInv, Orders
<1>15. AnswersFit'
  BY <1>1, <1>9, <1>13 DEF OutboxInv, AnswersFit, AnswerFits
<1> QED BY <1>11, <1>12, <1>14, <1>15 DEF OutboxInv

(* The rows a status change has to insert are rows of its own. *)
LEMMA StatusChangeKeeps ==
  ASSUME OutboxInv, NEW p \in Runs, NEW change \in Changes, OnOrderStatus(p, change)
  PROVE  OutboxInv'
<1> DEFINE rows == {<<change, client>> : client \in {k \in Clients : AcceptsProduct(change, k)}}
           it == [run[p] EXCEPT !.pc = "queueing", !.todo = rows]
<1>1. rows \in SUBSET Listed
  BY DEF AcceptsProduct
<1>2. run[p] \in RunRow /\ run[p].result = "none"
  BY DEF OutboxInv, RunRows, AnswersFit, AnswerFits, OnOrderStatus
<1>3. run' = [run EXCEPT ![p] = it]
  BY DEF OnOrderStatus
<1> HIDE DEF rows
<1>4. it \in RunRow /\ AnswerFits(it)
  BY <1>1, <1>2 DEF RunRow, AnswerFits
<1> HIDE DEF it
<1> QED BY <1>3, <1>4, RunMoves DEF OnOrderStatus

(* A row is inserted as pending, at the end of the table, or not at all. *)
LEMMA EnqueueKeeps ==
  ASSUME OutboxInv, NEW p \in Runs, NEW r \in Listed, Enqueue(p, r)
  PROVE  OutboxInv'
<1> DEFINE row == [status |-> "pending", attempts |-> 0, wait |-> -run[p].elapsed]
<1>1. run[p] \in RunRow /\ run[p].result = "none"
  BY DEF OutboxInv, RunRows, AnswersFit, AnswerFits, Enqueue
<1>2. row \in OutboxRow /\ row.status = "pending"
  BY <1>1 DEF RunRow, OutboxRow, Statuses
<1>3. UNCHANGED inbox
  BY DEF Enqueue
<1>4. CASE /\ outbox' = [outbox EXCEPT ![r] = row]
           /\ order' = Append(order, r)
           /\ run' = [run EXCEPT ![p].todo = @ \ {r}, ![p].queued = TRUE]
  <2> DEFINE it == [run[p] EXCEPT !.todo = @ \ {r}, !.queued = TRUE]
  <2>1. it \in RunRow /\ AnswerFits(it)
    BY <1>1 DEF RunRow, AnswerFits
  <2>2. run' = [run EXCEPT ![p] = it]
    BY <1>1, <1>4 DEF OutboxInv, RunRows, RunRow
  <2> HIDE DEF it, row
  <2>3. Outboxes' /\ \A x \in Listed : RowIsKept(x)'
    BY <1>2, <1>3, <1>4 DEF OutboxInv, Outboxes, RowIsKept
  <2>4. Orders'
    BY <1>4, AppendProperties DEF OutboxInv, Orders
  <2>5. run' \in [Runs -> RunRow] /\ \A x \in Runs : run'[x] = IF x = p THEN it ELSE run[x]
    BY <2>1, <2>2 DEF OutboxInv, RunRows
  <2>6. RunRows' /\ AnswersFit'
    BY <1>3, <2>1, <2>5 DEF OutboxInv, RunRows, AnswersFit, AnswerFits
  <2> QED BY <2>3, <2>4, <2>6 DEF OutboxInv
<1>5. CASE run' = [run EXCEPT ![p].todo = @ \ {r}] /\ UNCHANGED <<outbox, order>>
  <2> DEFINE it == [run[p] EXCEPT !.todo = @ \ {r}]
  <2>1. it \in RunRow /\ AnswerFits(it)
    BY <1>1 DEF RunRow, AnswerFits
  <2>2. run' = [run EXCEPT ![p] = it]
    BY <1>5
  <2> HIDE DEF it
  <2> QED BY <1>3, <1>5, <2>1, <2>2, RunMoves
<1> QED BY <1>4, <1>5 DEF Enqueue

(* A request that queued a row goes on as a run of its own. *)
LEMMA ShutdownKeeps ==
  ASSUME OutboxInv, NEW p \in Runs, OnShutdown(p)
  PROVE  OutboxInv'
<1> DEFINE it == [Asleep EXCEPT !.pc = "starting"]
<1>1. Asleep \in RunRow /\ Asleep.result = "none"
  BY AsleepIsARun DEF Asleep
<1>2. it \in RunRow /\ it.result = "none"
  BY <1>1 DEF RunRow
<1>3. AnswerFits(it)
  BY <1>2 DEF AnswerFits
<1> HIDE DEF it
<1>4. UNCHANGED <<outbox, order, inbox>>
      /\ (run' = [run EXCEPT ![p] = it] \/ run' = [run EXCEPT ![p] = Asleep])
  BY DEF OnShutdown, it
<1> QED BY <1>2, <1>3, <1>4, RunMoves, FallsAsleep

LEMMA OutboxTickKeeps ==
  ASSUME OutboxInv, OutboxTick
  PROVE  OutboxInv'
<1>1. UNCHANGED <<order, inbox>>
  BY DEF OutboxTick
<1>2. outbox' = [r \in Listed |-> IF outbox[r].status = "pending"
                                  THEN [outbox[r] EXCEPT !.wait = Sooner(@)] ELSE outbox[r]]
  BY DEF OutboxTick
<1>3. \A r \in Listed : outbox[r] \in OutboxRow
  BY DEF OutboxInv, Outboxes
<1>4. \A r \in Listed : outbox'[r] \in OutboxRow /\ outbox'[r].status = outbox[r].status
                        /\ outbox'[r].attempts = outbox[r].attempts
  <2> SUFFICES ASSUME NEW r \in Listed
               PROVE  outbox'[r] \in OutboxRow /\ outbox'[r].status = outbox[r].status
                      /\ outbox'[r].attempts = outbox[r].attempts
    OBVIOUS
  <2>1. Sooner(outbox[r].wait) \in Int
    BY <1>3, OutboxAssumption DEF Sooner, OutboxRow
  <2> QED BY <1>2, <1>3, <2>1 DEF OutboxRow
<1>5. Outboxes' /\ \A r \in Listed : RowIsKept(r)'
  BY <1>1, <1>2, <1>4 DEF OutboxInv, Outboxes, RowIsKept
<1>6. ASSUME NEW p \in Runs
      PROVE  /\ run'[p] \in RunRow /\ run'[p].pc = run[p].pc
             /\ run'[p].queue = run[p].queue /\ run'[p].result = run[p].result
  <2>1. run[p] \in RunRow
    BY DEF OutboxInv, RunRows
  <2>2. run'[p] = run[p] \/ run'[p] = [run[p] EXCEPT !.elapsed = @ + 1]
    BY DEF OutboxTick
  <2> QED BY <2>1, <2>2 DEF RunRow
<1>7. RunRows' /\ Orders'
  <2>1. run' = [p \in Runs |-> run'[p]]
    BY DEF OutboxTick
  <2> QED BY <1>1, <1>6, <2>1 DEF RunRows, OutboxInv, Orders
<1>8. AnswersFit'
  BY <1>1, <1>6 DEF OutboxInv, AnswersFit, AnswerFits
<1> QED BY <1>5, <1>7, <1>8 DEF OutboxInv

LEMMA OutboxStepKeeps ==
  ASSUME OutboxInv, NEW p \in Runs, Step(p)
  PROVE  OutboxInv'
<1>1. CASE TakeLock(p)
  <2>1. run[p].pc = "starting" /\ UNCHANGED <<outbox, order, inbox>>
    BY <1>1 DEF TakeLock
  <2>2. \/ run' = [run EXCEPT ![p].pc = "reading"]
        \/ run' = [run EXCEPT ![p].pc = "checking"]
    BY <1>1 DEF TakeLock
  <2> QED BY <2>1, <2>2, PhaseChanges
<1>2. CASE CheckLock(p)
  <2>1. run[p].pc = "checking" /\ UNCHANGED <<outbox, order, inbox>>
    BY <1>2 DEF CheckLock
  <2>2. \/ run' = [run EXCEPT ![p].pc = "stealing"]
        \/ run' = [run EXCEPT ![p] = Asleep]
    BY <1>2 DEF CheckLock
  <2> QED BY <2>1, <2>2, PhaseChanges, FallsAsleep
<1>3. CASE StealLock(p)
  BY <1>3, PhaseChanges DEF StealLock
<1>4. CASE ReleaseLock(p)
  BY <1>4, FallsAsleep DEF ReleaseLock
<1> QED BY <1>1, <1>2, <1>3, <1>4, EnqueueKeeps, ShutdownKeeps, ReadKeeps, RecordKeeps, SendKeeps DEF Step

(* No queued row is lost, however many runs overlap, steal the lock, write *)
(* over one another or are killed: what a run records of a row is          *)
(* justified by an answer the run itself had, or by the attempts it counts *)
(* (commerce.php next, record_attempt).                                    *)
THEOREM QueuedRowsAreKept == OutboxSpec => []NoRowIsLost
<1>1. OutboxInv => NoRowIsLost
  BY DEF OutboxInv, RowIsKept, NoRowIsLost
<1>2. OutboxInv /\ [OutboxNext]_outboxVars => OutboxInv'
  <2> SUFFICES ASSUME OutboxInv, [OutboxNext]_outboxVars PROVE OutboxInv'
    OBVIOUS
  <2>1. CASE UNCHANGED outboxVars
    BY <2>1 DEF outboxVars, OutboxInv, Outboxes, Orders, RunRows, AnswersFit, AnswerFits, RowIsKept
  <2>2. ASSUME NEW p \in Runs, DeliverNow(p) PROVE OutboxInv'
    BY <2>2, PhaseChanges DEF DeliverNow
  <2>3. ASSUME NEW p \in Runs, RunKilled(p) PROVE OutboxInv'
    BY <2>3, FallsAsleep DEF RunKilled
  <2> QED BY <2>1, <2>2, <2>3, StatusChangeKeeps, OutboxStepKeeps, OutboxTickKeeps DEF OutboxNext
<1> QED BY <1>1, <1>2, OutboxInitInv, PTL DEF OutboxSpec

-----------------------------------------------------------------------------
(* RateLimit: how much a window admits.                                    *)

Bucket == [window : Windows, pending : Nat, blocked : BOOLEAN]
Awaited == [waiting : {TRUE}, instance : Instances, window : Windows]
Tally == [admitted : Nat, refused : Nat, lost : Nat]

RateTypes ==
  /\ scope \in Scopes /\ window \in Windows
  /\ counter \in [Windows -> Nat]
  /\ bucket \in [Instances -> Bucket]
  /\ request \in [Requests -> Awaited \cup {Gone}]
  /\ arrivals \in Nat
  /\ tally \in [Windows -> Tally]

(* A buffer is of no later window than the current one, and never full.    *)
BuffersAreShort ==
  \A i \in Instances : bucket[i].window <= window /\ bucket[i].pending <= BatchSize - 1

(* No request is older than the last window. *)
RequestsAreRecent ==
  \A r \in Requests : request[r].waiting => request[r].window <= window /\ window <= request[r].window + 1

(* What instances admitted in a window and have not flushed: a place for   *)
(* each such request, and every place of an instance that has moved on.    *)
Unflushed(w) ==
  {x \in Instances \X (1..(BatchSize - 1)) :
     bucket[x[1]].window > w \/ (bucket[x[1]].window = w /\ x[2] <= bucket[x[1]].pending)}

(* What a window may have admitted beyond what its counter knows.          *)
Debt(w) ==
  tally[w].lost + (BatchSize - 1) * (tally[w].refused + Cardinality(Waiting(w)))
  + Cardinality(Unflushed(w))
Expired(w) == WindowExpiryFor(w) < window

(* A window admits its debt, and what its counter says, which is at most   *)
(* the limit whenever it has let a request through.                        *)
Admitted(w) ==
  /\ tally[w].admitted <= Limit + Debt(w)
  /\ Expired(w) \/ tally[w].admitted <= counter[w] + Debt(w)

RateInv ==
  /\ RateTypes /\ BuffersAreShort /\ RequestsAreRecent
  /\ \A w \in Windows : IsFiniteSet(Waiting(w)) /\ Admitted(w)

LEMMA OneMoreTimes ==
  ASSUME NEW k \in Nat, NEW n \in Nat
  PROVE  k * n \in Nat /\ k * (n + 1) = k * n + k
OBVIOUS

LEMMA RuleIsPositive ==
  ASSUME RateTypes
  PROVE  Limit \in Nat /\ BatchSize \in Nat \ {0} /\ BatchSize - 1 \in Nat
BY RateLimitAssumption DEF RateTypes, Limit, BatchSize

(* The places of a window are finitely many. *)
LEMMA PlacesAreFinite ==
  ASSUME RateTypes
  PROVE  LET all == Instances \X (1..(BatchSize - 1))
         IN  /\ IsFiniteSet(all)
             /\ Cardinality(all) = Cardinality(Instances) * (BatchSize - 1)
             /\ Cardinality(Instances) \in Nat
             /\ \A S \in SUBSET all : IsFiniteSet(S) /\ Cardinality(S) \in Nat
                                      /\ Cardinality(S) <= Cardinality(all)
<1> DEFINE all == Instances \X (1..(BatchSize - 1))
<1>1. BatchSize - 1 \in Nat
  BY RuleIsPositive
<1>2. IsFiniteSet(1..(BatchSize - 1)) /\ Cardinality(1..(BatchSize - 1)) = BatchSize - 1
  BY <1>1, FS_Interval
<1>3. IsFiniteSet(Instances) /\ Cardinality(Instances) \in Nat
  BY RateLimitAssumption, FS_CardinalityType
<1>4. IsFiniteSet(all) /\ Cardinality(all) = Cardinality(Instances) * (BatchSize - 1)
  BY <1>2, <1>3, FS_Product
<1>5. \A S \in SUBSET all : IsFiniteSet(S) /\ Cardinality(S) \in Nat
                            /\ Cardinality(S) <= Cardinality(all)
  BY <1>4, FS_Subset, FS_CardinalityType
<1> QED BY <1>3, <1>4, <1>5

(* The terms of a debt are numbers. *)
LEMMA DebtTerms ==
  ASSUME RateTypes, NEW w \in Windows, IsFiniteSet(Waiting(w))
  PROVE  /\ tally[w].lost \in Nat /\ tally[w].refused \in Nat /\ tally[w].admitted \in Nat
         /\ Cardinality(Waiting(w)) \in Nat /\ Cardinality(Unflushed(w)) \in Nat
         /\ counter[w] \in Nat
         /\ (BatchSize - 1) * (tally[w].refused + Cardinality(Waiting(w))) \in Nat
<1>1. tally[w].lost \in Nat /\ tally[w].refused \in Nat /\ tally[w].admitted \in Nat /\ counter[w] \in Nat
  BY DEF RateTypes, Tally
<1>2. Cardinality(Waiting(w)) \in Nat
  BY FS_CardinalityType
<1>3. Cardinality(Unflushed(w)) \in Nat
  BY PlacesAreFinite DEF Unflushed
<1>4. (BatchSize - 1) * (tally[w].refused + Cardinality(Waiting(w))) \in Nat
  BY <1>1, <1>2, RuleIsPositive, OneMoreTimes
<1> QED BY <1>1, <1>2, <1>3, <1>4

LEMMA RateInitInv == RateInit => RateInv
<1> SUFFICES ASSUME RateInit PROVE RateInv
  OBVIOUS
<1>1. RateTypes
  BY RateLimitAssumption DEF RateInit, RateTypes, Windows, Bucket, Gone, NoTally, Tally
<1>2. BuffersAreShort /\ RequestsAreRecent
  BY <1>1, RuleIsPositive DEF RateInit, BuffersAreShort, RequestsAreRecent, Gone
<1>3. ASSUME NEW w \in Windows PROVE IsFiniteSet(Waiting(w)) /\ Admitted(w)
  <2>1. Waiting(w) = {}
    BY DEF RateInit, Waiting, Gone
  <2>2. IsFiniteSet(Waiting(w))
    BY <2>1, FS_EmptySet
  <2>3. tally[w].admitted = 0 /\ tally[w].refused = 0 /\ tally[w].lost = 0
    BY DEF RateInit, NoTally
  <2> QED BY <1>1, <2>2, <2>3, DebtTerms, RuleIsPositive DEF Admitted, Debt
<1> QED BY <1>1, <1>2, <1>3 DEF RateInv

(* The bound follows: at most all places are unflushed. *)
LEMMA RateInvBounds == ASSUME RateInv PROVE AdmissionIsBounded
<1> SUFFICES ASSUME NEW w \in Windows
             PROVE  tally[w].admitted <=
                      Limit + tally[w].lost
                      + (BatchSize - 1) * (Cardinality(Instances) + tally[w].refused
                                         + Cardinality(Waiting(w)))
  BY DEF AdmissionIsBounded
<1>1. RateTypes /\ IsFiniteSet(Waiting(w)) /\ Admitted(w)
  BY DEF RateInv
<1> DEFINE k == BatchSize - 1
           n == Cardinality(Instances)
           m == tally[w].refused + Cardinality(Waiting(w))
<1>2. k \in Nat /\ n \in Nat /\ Limit \in Nat /\ m \in Nat /\ tally[w].lost \in Nat /\ tally[w].admitted \in Nat
      /\ tally[w].refused \in Nat /\ Cardinality(Waiting(w)) \in Nat
  BY <1>1, RuleIsPositive, PlacesAreFinite, DebtTerms
<1>3. Cardinality(Unflushed(w)) \in Nat /\ Cardinality(Unflushed(w)) <= n * k
  BY <1>1, PlacesAreFinite DEF Unflushed
<1>4. tally[w].admitted <= Limit + tally[w].lost + k * m + Cardinality(Unflushed(w))
  BY <1>1, <1>2, <1>3 DEF Admitted, Debt
<1>5. Cardinality(Instances) + tally[w].refused + Cardinality(Waiting(w)) = n + m
  BY <1>2
<1> HIDE DEF k, n, m
<1>6. k * (n + m) = n * k + k * m
  BY <1>2
<1>7. k * m \in Nat /\ n * k \in Nat
  BY <1>2
<1> QED BY <1>2, <1>3, <1>4, <1>5, <1>6, <1>7 DEF k, n, m

-----------------------------------------------------------------------------
(* A request's arrival in one of the two ways the limiter has. *)
LEMMA RequestWaits ==
  ASSUME RateInv, NEW r \in Requests, NEW i \in Instances,
         ~request[r].waiting, Await(r, i), UNCHANGED window
  PROVE  /\ request' \in [Requests -> Awaited \cup {Gone}]
         /\ RequestsAreRecent'
         /\ r \notin Waiting(window) /\ Waiting(window)' = Waiting(window) \cup {r}
         /\ \A w \in Windows \ {window} : Waiting(w)' = Waiting(w)
<1>1. window \in Windows /\ request \in [Requests -> Awaited \cup {Gone}] /\ window \in Nat
  BY RateLimitAssumption DEF RateInv, RateTypes, Windows
<1> DEFINE new == [waiting |-> TRUE, instance |-> i, window |-> window]
<1>2. new \in Awaited
  BY <1>1 DEF Awaited
<1>3. request' = [request EXCEPT ![r] = new]
  BY DEF Await
<1>4. new.waiting /\ new.window = window
  OBVIOUS
<1> HIDE DEF new
<1>5. request' \in [Requests -> Awaited \cup {Gone}]
  BY <1>1, <1>2, <1>3
<1>6. \A s \in Requests : request'[s] = IF s = r THEN new ELSE request[s]
  BY <1>1, <1>3
<1>7. RequestsAreRecent'
  BY <1>1, <1>4, <1>6 DEF RateInv, RequestsAreRecent
<1>8. r \notin Waiting(window)
  BY DEF Waiting
<1>9. Waiting(window)' = Waiting(window) \cup {r}
  BY <1>4, <1>6 DEF Waiting
<1>10. \A w \in Windows \ {window} : Waiting(w)' = Waiting(w)
  BY <1>4, <1>6 DEF Waiting
<1> QED BY <1>5, <1>7, <1>8, <1>9, <1>10

(* A request that has its answer waits no longer. *)
LEMMA RequestLeaves ==
  ASSUME RateInv, NEW r \in Requests, request[r].waiting, NEW v, v = request[r].window,
         request' = [request EXCEPT ![r] = Gone], UNCHANGED window
  PROVE  /\ request[r] \in Awaited /\ v \in Windows /\ ~Expired(v)
         /\ request' \in [Requests -> Awaited \cup {Gone}]
         /\ RequestsAreRecent'
         /\ r \in Waiting(v)
         /\ Waiting(v)' = Waiting(v) \ {r}
         /\ \A w \in Windows \ {v} : Waiting(w)' = Waiting(w)
<1>1. window \in Windows /\ request \in [Requests -> Awaited \cup {Gone}] /\ window \in Nat
  BY RateLimitAssumption DEF RateInv, RateTypes, Windows
<1>2. request[r] \in Awaited /\ v \in Windows
  <2>1. request[r] \in Awaited \cup {Gone} /\ request[r] # Gone
    BY <1>1 DEF Gone
  <2> QED BY <2>1 DEF Awaited
<1>3. ~Expired(v)
  <2>1. window <= v + 1 /\ v \in Nat
    BY <1>2, RateLimitAssumption DEF RateInv, RequestsAreRecent, Windows
  <2> QED BY <2>1, <1>1 DEF Expired, WindowExpiryFor
<1>4. request' \in [Requests -> Awaited \cup {Gone}]
  BY <1>1
<1>5. \A s \in Requests : request'[s] = IF s = r THEN Gone ELSE request[s]
  BY <1>1
<1>6. RequestsAreRecent'
  BY <1>5 DEF RateInv, RequestsAreRecent, Gone
<1>7. r \in Waiting(v)
  BY DEF Waiting
<1>8. \A w \in Windows : Waiting(w)' = Waiting(w) \ {r}
  BY <1>5 DEF Waiting, Gone
<1>9. \A w \in Windows \ {v} : Waiting(w)' = Waiting(w)
  BY <1>8 DEF Waiting
<1>10. Waiting(v)' = Waiting(v) \ {r}
  BY <1>5 DEF Waiting, Gone
<1> QED BY <1>2, <1>3, <1>4, <1>6, <1>7, <1>9, <1>10

(* A window's bound is kept when its debt grows by what it admits. *)
LEMMA DebtCovers ==
  ASSUME RateInv, RateTypes', UNCHANGED scope, NEW w \in Windows, NEW a \in Nat,
         IsFiniteSet(Waiting(w)'),
         tally'[w].admitted = tally[w].admitted + a,
         Debt(w)' >= Debt(w) + a,
         Expired(w) => Expired(w)',
         Expired(w)' \/ counter'[w] = counter[w]
  PROVE  IsFiniteSet(Waiting(w))' /\ Admitted(w)'
<1>1. RateTypes /\ IsFiniteSet(Waiting(w)) /\ Admitted(w) /\ w \in Windows'
  BY DEF RateInv, Windows
<1>2. Debt(w) \in Nat /\ tally[w].admitted \in Nat /\ counter[w] \in Nat
  BY <1>1, DebtTerms, RuleIsPositive DEF Debt
<1>3. Limit' = Limit /\ Limit \in Nat
  BY <1>1, RuleIsPositive DEF Limit
<1>4. Debt(w)' \in Nat
  <2>1. /\ tally'[w].lost \in Nat /\ tally'[w].refused \in Nat
    BY DEF RateTypes, Tally, Windows
  <2>2. Cardinality(Waiting(w)') \in Nat
    BY FS_CardinalityType
  <2>3. BatchSize' = BatchSize /\ BatchSize - 1 \in Nat
    BY <1>1, RuleIsPositive DEF BatchSize
  <2>4. Cardinality(Unflushed(w)') \in Nat
    <3> DEFINE all == Instances \X (1..(BatchSize - 1))
    <3>1. Unflushed(w)' \in SUBSET all
      BY <2>3 DEF Unflushed
    <3> QED BY <1>1, <3>1, PlacesAreFinite
  <2>5. (BatchSize - 1) * (tally'[w].refused + Cardinality(Waiting(w)')) \in Nat
    BY <2>1, <2>2, <2>3, OneMoreTimes
  <2>6. Debt(w)' = tally'[w].lost + (BatchSize - 1) * (tally'[w].refused + Cardinality(Waiting(w)'))
                   + Cardinality(Unflushed(w)')
    BY <2>3 DEF Debt
  <2> QED BY <2>1, <2>2, <2>4, <2>5, <2>6
<1>5. tally'[w].admitted <= Limit + Debt(w)'
  BY <1>1, <1>2, <1>3, <1>4 DEF Admitted
<1>6. Expired(w)' \/ tally'[w].admitted <= counter'[w] + Debt(w)'
  BY <1>1, <1>2, <1>4 DEF Admitted
<1> QED BY <1>3, <1>5, <1>6 DEF Admitted

(* Nothing the bound reads has changed, but that buffers may have filled. *)
LEMMA DebtGrows ==
  ASSUME RateInv, RateTypes', UNCHANGED scope, NEW w \in Windows,
         tally'[w].admitted = tally[w].admitted,
         tally'[w].lost = tally[w].lost, tally'[w].refused = tally[w].refused,
         Waiting(w)' = Waiting(w), Unflushed(w) \subseteq Unflushed(w)',
         Expired(w) => Expired(w)',
         Expired(w)' \/ counter'[w] = counter[w]
  PROVE  IsFiniteSet(Waiting(w))' /\ Admitted(w)'
<1>1. RateTypes /\ IsFiniteSet(Waiting(w))
  BY DEF RateInv
<1>2. BatchSize' = BatchSize
  BY DEF BatchSize
<1> DEFINE all == Instances \X (1..(BatchSize - 1))
<1>3. Unflushed(w)' \in SUBSET all
  BY <1>2 DEF Unflushed
<1>4. IsFiniteSet(Unflushed(w)') /\ Cardinality(Unflushed(w)') \in Nat
  BY <1>1, <1>3, PlacesAreFinite
<1>5. Cardinality(Unflushed(w)) <= Cardinality(Unflushed(w)')
  BY <1>4, FS_Subset
<1>6. /\ tally[w].lost \in Nat /\ Cardinality(Unflushed(w)) \in Nat
      /\ (BatchSize - 1) * (tally[w].refused + Cardinality(Waiting(w))) \in Nat
      /\ tally[w].admitted \in Nat
  BY <1>1, DebtTerms
<1>7. Debt(w)' >= Debt(w)
  <2>1. Debt(w)' = tally[w].lost + (BatchSize - 1) * (tally[w].refused + Cardinality(Waiting(w)))
                   + Cardinality(Unflushed(w)')
    BY <1>2 DEF Debt
  <2> QED BY <1>4, <1>5, <1>6, <2>1 DEF Debt
<1>8. tally'[w].admitted = tally[w].admitted + 0 /\ Debt(w)' >= Debt(w) + 0
  BY <1>6, <1>7, <1>1, DebtTerms, RuleIsPositive DEF Debt
<1> QED BY <1>1, <1>8, DebtCovers

(* The buffer a call works on. *)
LEMMA LocalBucketIsABucket ==
  ASSUME RateInv, NEW i \in Instances
  PROVE  /\ LocalBucket(i) \in Bucket /\ LocalBucket(i).window = window
         /\ LocalBucket(i).pending \in Nat /\ LocalBucket(i).pending <= BatchSize - 1
         /\ bucket[i].window = window => LocalBucket(i) = bucket[i]
         /\ bucket[i].window # window => LocalBucket(i).pending = 0 /\ ~LocalBucket(i).blocked
<1>1. bucket[i] \in Bucket /\ window \in Windows /\ BatchSize - 1 \in Nat
      /\ bucket[i].pending <= BatchSize - 1
  BY RuleIsPositive DEF RateInv, RateTypes, BuffersAreShort
<1> QED BY <1>1 DEF LocalBucket, Bucket

(* What a change of one instance's buffer does to the places. *)
LEMMA BufferChanges ==
  ASSUME RateInv, NEW i \in Instances, NEW b \in Bucket,
         b.window = window, b.pending <= BatchSize - 1,
         bucket' = [bucket EXCEPT ![i] = b], UNCHANGED <<scope, window>>
  PROVE  /\ bucket' \in [Instances -> Bucket] /\ BuffersAreShort'
         /\ \A w \in Windows \ {window} : Unflushed(w) \subseteq Unflushed(w)'
         /\ Unflushed(window)' =
              {x \in Instances \X (1..(BatchSize - 1)) :
                 IF x[1] = i THEN x[2] <= b.pending ELSE x \in Unflushed(window)}
<1>1. /\ bucket \in [Instances -> Bucket] /\ window \in Nat /\ BatchSize' = BatchSize
      /\ \A j \in Instances : bucket[j].window \in Nat /\ bucket[j].window <= window
      /\ \A w \in Windows : w \in Nat
  BY RateLimitAssumption DEF RateInv, RateTypes, Windows, Bucket, BuffersAreShort, BatchSize
<1>2. bucket' \in [Instances -> Bucket]
      /\ \A j \in Instances : bucket'[j] = IF j = i THEN b ELSE bucket[j]
  BY <1>1
<1>3. BuffersAreShort'
  BY <1>1, <1>2 DEF RateInv, BuffersAreShort
<1>4. \A w \in Windows \ {window} : Unflushed(w) \subseteq Unflushed(w)'
  <2> SUFFICES ASSUME NEW w \in Windows, w # window, NEW x \in Unflushed(w)
               PROVE  x \in Unflushed(w)'
    OBVIOUS
  <2>1. x \in Instances \X (1..(BatchSize - 1)) /\ x[1] \in Instances
        /\ (bucket[x[1]].window > w \/ (bucket[x[1]].window = w /\ x[2] <= bucket[x[1]].pending))
    BY DEF Unflushed
  <2>2. x[1] = i => window > w
    BY <1>1, <2>1
  <2> QED BY <1>1, <1>2, <2>1, <2>2 DEF Unflushed
<1>5. ASSUME NEW x \in Instances \X (1..(BatchSize - 1))
      PROVE  x \in Unflushed(window)' <=> IF x[1] = i THEN x[2] <= b.pending ELSE x \in Unflushed(window)
  <2>1. x[1] \in Instances
    OBVIOUS
  <2>2. CASE x[1] = i
    BY <1>1, <1>2, <2>1, <2>2 DEF Unflushed
  <2>3. CASE x[1] # i
    BY <1>1, <1>2, <2>1, <2>3 DEF Unflushed
  <2> QED BY <2>2, <2>3
<1>6. Unflushed(window)' \subseteq Instances \X (1..(BatchSize - 1))
  BY <1>1 DEF Unflushed
<1> QED BY <1>2, <1>3, <1>4, <1>5, <1>6

(* A request admitted unasked takes a place no other has. *)
LEMMA PlaceTaken ==
  ASSUME RateInv, NEW i \in Instances, UNCHANGED <<scope, window>>,
         NEW b, b = LocalBucket(i), b.pending + 1 # BatchSize,
         bucket' = [bucket EXCEPT ![i] = [b EXCEPT !.pending = @ + 1]]
  PROVE  /\ bucket' \in [Instances -> Bucket] /\ BuffersAreShort'
         /\ \A w \in Windows \ {window} : Unflushed(w) \subseteq Unflushed(w)'
         /\ Cardinality(Unflushed(window)') >= Cardinality(Unflushed(window)) + 1
<1> DEFINE c == [b EXCEPT !.pending = @ + 1]
           all == Instances \X (1..(BatchSize - 1))
           x == <<i, b.pending + 1>>
<1>1. RateTypes /\ BatchSize - 1 \in Nat /\ BatchSize \in Nat /\ BatchSize' = BatchSize
  BY RuleIsPositive DEF RateInv, BatchSize
<1>2. b \in Bucket /\ b.window = window /\ b.pending \in Nat /\ b.pending <= BatchSize - 1
  BY LocalBucketIsABucket
<1>3. c \in Bucket /\ c.window = window /\ c.pending = b.pending + 1 /\ c.pending <= BatchSize - 1
  BY <1>1, <1>2 DEF Bucket
<1> HIDE DEF c
<1>4. /\ bucket' \in [Instances -> Bucket] /\ BuffersAreShort'
      /\ \A w \in Windows \ {window} : Unflushed(w) \subseteq Unflushed(w)'
      /\ Unflushed(window)' =
           {y \in all : IF y[1] = i THEN y[2] <= c.pending ELSE y \in Unflushed(window)}
  BY <1>3, BufferChanges DEF c
<1>5. x \in all /\ x[1] = i /\ x[2] = b.pending + 1
  BY <1>1, <1>2, <1>3
<1>6. x \notin Unflushed(window)
  BY <1>2, <1>5, LocalBucketIsABucket, RateLimitAssumption DEF Unflushed, RateInv, RateTypes, BuffersAreShort, Windows, Bucket
<1>7. \A y \in Unflushed(window) : y \in all /\ (y[1] = i => y[2] <= b.pending)
  BY <1>2, LocalBucketIsABucket, RateLimitAssumption DEF Unflushed, RateInv, RateTypes, BuffersAreShort, Windows, Bucket
<1>8. Unflushed(window) \cup {x} \subseteq Unflushed(window)'
  BY <1>2, <1>3, <1>4, <1>5, <1>7
<1>9. Unflushed(window)' \in SUBSET all /\ Unflushed(window) \in SUBSET all
  BY <1>4 DEF Unflushed
<1>10. IsFiniteSet(Unflushed(window)') /\ IsFiniteSet(Unflushed(window))
       /\ Cardinality(Unflushed(window)') \in Nat /\ Cardinality(Unflushed(window)) \in Nat
  BY <1>1, <1>9, PlacesAreFinite
<1>11. Cardinality(Unflushed(window) \cup {x}) = Cardinality(Unflushed(window)) + 1
  BY <1>6, <1>10, FS_AddElement
<1>12. Cardinality(Unflushed(window) \cup {x}) <= Cardinality(Unflushed(window)')
  BY <1>8, <1>10, FS_Subset
<1> QED BY <1>4, <1>10, <1>11, <1>12

(* A flush empties the places of one instance, and no other. *)
LEMMA PlacesFlushed ==
  ASSUME RateInv, NEW i \in Instances, UNCHANGED <<scope, window>>,
         BatchSize > 1, LocalBucket(i).pending + 1 = BatchSize,
         bucket' = [bucket EXCEPT ![i] = [LocalBucket(i) EXCEPT !.pending = 0]]
  PROVE  /\ bucket' \in [Instances -> Bucket] /\ BuffersAreShort'
         /\ \A w \in Windows \ {window} : Unflushed(w) \subseteq Unflushed(w)'
         /\ Cardinality(Unflushed(window)') + (BatchSize - 1) >= Cardinality(Unflushed(window))
<1> DEFINE c == [LocalBucket(i) EXCEPT !.pending = 0]
           all == Instances \X (1..(BatchSize - 1))
           own == {i} \X (1..(BatchSize - 1))
<1>1. RateTypes /\ BatchSize - 1 \in Nat /\ BatchSize \in Nat /\ BatchSize' = BatchSize
  BY RuleIsPositive DEF RateInv, BatchSize
<1>2. c \in Bucket /\ c.window = window /\ c.pending = 0 /\ c.pending <= BatchSize - 1
  BY <1>1, LocalBucketIsABucket DEF Bucket
<1> HIDE DEF c
<1>3. /\ bucket' \in [Instances -> Bucket] /\ BuffersAreShort'
      /\ \A w \in Windows \ {window} : Unflushed(w) \subseteq Unflushed(w)'
      /\ Unflushed(window)' =
           {y \in all : IF y[1] = i THEN y[2] <= c.pending ELSE y \in Unflushed(window)}
  BY <1>2, BufferChanges DEF c
<1>4. Unflushed(window) \subseteq Unflushed(window)' \cup own
  <2> SUFFICES ASSUME NEW y \in Unflushed(window) PROVE y \in Unflushed(window)' \cup own
    OBVIOUS
  <2>1. y \in all
    BY DEF Unflushed
  <2>2. CASE y[1] = i
    BY <2>1, <2>2
  <2>3. CASE y[1] # i
    BY <1>3, <2>1, <2>3
  <2> QED BY <2>2, <2>3
<1>5. IsFiniteSet(own) /\ Cardinality(own) = BatchSize - 1
  <2>1. IsFiniteSet({i}) /\ Cardinality({i}) = 1
    BY FS_Singleton
  <2>2. BatchSize - 1 \in Nat
    BY <1>1
  <2>3. IsFiniteSet(1..(BatchSize - 1)) /\ Cardinality(1..(BatchSize - 1)) = BatchSize - 1
    BY <2>2, FS_Interval
  <2>4. /\ IsFiniteSet({i} \X (1..(BatchSize - 1)))
        /\ Cardinality({i} \X (1..(BatchSize - 1))) = Cardinality({i}) * Cardinality(1..(BatchSize - 1))
    BY <2>1, <2>3, FS_Product
  <2> QED BY <2>1, <2>2, <2>3, <2>4
<1>6. Unflushed(window)' \in SUBSET all /\ Unflushed(window) \in SUBSET all
  BY <1>3 DEF Unflushed
<1>7. IsFiniteSet(Unflushed(window)') /\ IsFiniteSet(Unflushed(window))
      /\ Cardinality(Unflushed(window)') \in Nat /\ Cardinality(Unflushed(window)) \in Nat
  BY <1>1, <1>6, PlacesAreFinite
<1>8. LET both == Unflushed(window)' \cup own
      IN  IsFiniteSet(both) /\ Cardinality(Unflushed(window)) <= Cardinality(both)
  BY <1>4, <1>5, <1>7, FS_Union, FS_Subset
<1>9. IsFiniteSet(Unflushed(window)' \cap own)
  BY <1>5, FS_Subset
<1>10. Cardinality(Unflushed(window)' \cap own) \in Nat
  BY <1>9, FS_CardinalityType
<1> HIDE DEF own
<1>11. Cardinality(Unflushed(window)' \cup own) =
            Cardinality(Unflushed(window)') + Cardinality(own) - Cardinality(Unflushed(window)' \cap own)
  BY <1>5, <1>7, FS_Union
<1> QED BY <1>1, <1>3, <1>5, <1>7, <1>8, <1>10, <1>11

LEMMA OneArrivalMore ==
  ASSUME NEW was \in Tally, NEW a \in {0, 1}
  PROVE  LET new == [was EXCEPT !.admitted = @ + a]
         IN  new \in Tally /\ new.admitted = was.admitted + a /\ new.lost = was.lost
             /\ new.refused = was.refused
<1>1. a \in Nat /\ was.admitted \in Nat
  BY DEF Tally
<1>2. was.admitted + a \in Nat
  BY <1>1
<1> QED BY <1>2 DEF Tally

(* An arrival counts in the current window alone. *)
LEMMA ArrivalIsCounted ==
  ASSUME RateInv, NEW a \in {0, 1}, Arrive(a)
  PROVE  /\ tally' \in [Windows -> Tally] /\ arrivals' \in Nat
         /\ tally'[window].admitted = tally[window].admitted + a
         /\ \A w \in Windows : /\ tally'[w].lost = tally[w].lost
                               /\ tally'[w].refused = tally[w].refused
                               /\ w # window => tally'[w] = tally[w]
<1>1. tally \in [Windows -> Tally] /\ window \in Windows /\ arrivals' \in Nat
  BY DEF RateInv, RateTypes, Arrive
<1> DEFINE t == [tally[window] EXCEPT !.admitted = @ + a]
<1>2. tally[window] \in Tally
  BY <1>1
<1>3. t \in Tally /\ t.admitted = tally[window].admitted + a /\ t.lost = tally[window].lost
      /\ t.refused = tally[window].refused
  BY <1>2, OneArrivalMore
<1>4. tally' = [tally EXCEPT ![window] = t]
  BY <1>1, <1>2 DEF Arrive, Tally
<1> HIDE DEF t
<1> QED BY <1>1, <1>3, <1>4

LEMMA ConsumeKeepsRateInv ==
  ASSUME RateInv, NEW r \in Requests, NEW i \in Instances, ConsumeRateLimit(r, i)
  PROVE  RateInv'
<1> USE DEF ConsumeRateLimit
<1> DEFINE b == LocalBucket(i)
<1>1. /\ RateTypes /\ UNCHANGED <<scope, window, counter>> /\ window \in Windows
      /\ BatchSize - 1 \in Nat /\ BatchSize \in Nat /\ BatchSize' = BatchSize
  BY RuleIsPositive DEF RateInv, RateTypes, BatchSize
<1>2. \A w \in Windows : (Expired(w)' <=> Expired(w)) /\ IsFiniteSet(Waiting(w))
  BY <1>1 DEF Expired, RateInv
<1>3. b \in Bucket /\ b.window = window /\ b.pending \in Nat /\ b.pending <= BatchSize - 1
  BY LocalBucketIsABucket
<1>4. SUFFICES /\ RateTypes' /\ BuffersAreShort' /\ RequestsAreRecent'
               /\ \A w \in Windows : IsFiniteSet(Waiting(w))' /\ Admitted(w)'
  BY DEF RateInv, Windows
<1>5. CASE ConsumeShared(r, i)
  <2>1. Arrive(0) /\ Await(r, i) /\ UNCHANGED bucket /\ BatchSize = 1
    BY <1>5 DEF ConsumeShared
  <2>2. /\ request' \in [Requests -> Awaited \cup {Gone}] /\ RequestsAreRecent'
        /\ r \notin Waiting(window) /\ Waiting(window)' = Waiting(window) \cup {r}
        /\ \A w \in Windows \ {window} : Waiting(w)' = Waiting(w)
    BY <1>1, <2>1, RequestWaits
  <2>3. /\ tally' \in [Windows -> Tally] /\ arrivals' \in Nat
        /\ tally'[window].admitted = tally[window].admitted + 0
        /\ \A w \in Windows : /\ tally'[w].lost = tally[w].lost
                              /\ tally'[w].refused = tally[w].refused
                              /\ w # window => tally'[w] = tally[w]
    BY <2>1, ArrivalIsCounted
  <2>4. RateTypes'
    BY <1>1, <2>1, <2>2, <2>3 DEF RateTypes, Windows
  <2>5. BuffersAreShort'
    BY <1>1, <2>1 DEF RateInv, BuffersAreShort
  <2>6. \A w \in Windows : Unflushed(w)' = Unflushed(w)
    BY <1>1, <2>1 DEF Unflushed
  <2>7. ASSUME NEW w \in Windows, w # window PROVE IsFiniteSet(Waiting(w))' /\ Admitted(w)'
    BY <1>1, <1>2, <2>2, <2>3, <2>4, <2>6, <2>7, DebtGrows
  <2>8. IsFiniteSet(Waiting(window))' /\ Admitted(window)'
    <3>1. IsFiniteSet(Waiting(window)')
      BY <1>1, <1>2, <2>2, FS_AddElement
    <3>2. Cardinality(Waiting(window)') \in Nat /\ Cardinality(Waiting(window)) \in Nat
          /\ tally[window].refused \in Nat /\ tally[window].lost \in Nat
          /\ Cardinality(Unflushed(window)) \in Nat
      BY <1>1, <1>2, <3>1, FS_CardinalityType, DebtTerms
    <3>3. Debt(window)' = Debt(window)
      BY <1>1, <2>1, <2>3, <2>6, <3>2 DEF Debt
    <3>4. Debt(window) \in Nat
      BY <1>1, <1>2, DebtTerms DEF Debt
    <3> QED BY <1>1, <1>2, <2>3, <2>4, <3>1, <3>3, <3>4, DebtCovers
  <2> QED BY <1>4, <2>2, <2>4, <2>5, <2>7, <2>8
<1>6. CASE BatchSize > 1 /\ b.blocked /\ Arrive(0) /\ UNCHANGED request /\ bucket' = [bucket EXCEPT ![i] = b]
  <2>1. bucket' = bucket
    BY <1>1, <1>6, LocalBucketIsABucket DEF RateTypes
  <2>2. /\ tally' \in [Windows -> Tally] /\ arrivals' \in Nat
        /\ tally'[window].admitted = tally[window].admitted + 0
        /\ \A w \in Windows : /\ tally'[w].lost = tally[w].lost
                              /\ tally'[w].refused = tally[w].refused
                              /\ w # window => tally'[w] = tally[w]
    BY <1>6, ArrivalIsCounted
  <2>3. RateTypes'
    BY <1>1, <1>6, <2>1, <2>2 DEF RateTypes, Windows
  <2>4. BuffersAreShort' /\ RequestsAreRecent'
    BY <1>1, <1>6, <2>1 DEF RateInv, BuffersAreShort, RequestsAreRecent
  <2>5. \A w \in Windows : Unflushed(w)' = Unflushed(w) /\ Waiting(w)' = Waiting(w)
    BY <1>1, <1>6, <2>1 DEF Unflushed, Waiting
  <2>6. \A w \in Windows : tally'[w].admitted = tally[w].admitted
    BY <1>1, <2>2 DEF RateTypes, Tally
  <2>7. ASSUME NEW w \in Windows PROVE IsFiniteSet(Waiting(w))' /\ Admitted(w)'
    BY <1>1, <1>2, <2>2, <2>3, <2>5, <2>6, DebtGrows
  <2> QED BY <1>4, <2>3, <2>4, <2>7
<1>7. CASE /\ BatchSize > 1 /\ b.pending + 1 # BatchSize /\ Arrive(1) /\ UNCHANGED request
           /\ bucket' = [bucket EXCEPT ![i] = [b EXCEPT !.pending = @ + 1]]
  <2>1. /\ bucket' \in [Instances -> Bucket] /\ BuffersAreShort'
        /\ \A w \in Windows \ {window} : Unflushed(w) \subseteq Unflushed(w)'
        /\ Cardinality(Unflushed(window)') >= Cardinality(Unflushed(window)) + 1
    BY <1>1, <1>7, PlaceTaken
  <2>2. /\ tally' \in [Windows -> Tally] /\ arrivals' \in Nat
        /\ tally'[window].admitted = tally[window].admitted + 1
        /\ \A w \in Windows : /\ tally'[w].lost = tally[w].lost
                              /\ tally'[w].refused = tally[w].refused
                              /\ w # window => tally'[w] = tally[w]
    BY <1>7, ArrivalIsCounted
  <2>3. RateTypes'
    BY <1>1, <1>7, <2>1, <2>2 DEF RateTypes, Windows
  <2>4. RequestsAreRecent'
    BY <1>1, <1>7 DEF RateInv, RequestsAreRecent
  <2>5. \A w \in Windows : Waiting(w)' = Waiting(w)
    BY <1>1, <1>7 DEF Waiting
  <2>6. ASSUME NEW w \in Windows, w # window PROVE IsFiniteSet(Waiting(w))' /\ Admitted(w)'
    BY <1>1, <1>2, <2>1, <2>2, <2>3, <2>5, <2>6, DebtGrows
  <2>7. IsFiniteSet(Waiting(window))' /\ Admitted(window)'
    <3>1. /\ tally[window].lost \in Nat /\ Cardinality(Unflushed(window)) \in Nat
          /\ (BatchSize - 1) * (tally[window].refused + Cardinality(Waiting(window))) \in Nat
      BY <1>1, <1>2, DebtTerms
    <3>2. Cardinality(Unflushed(window)') \in Nat
      <4>1. Unflushed(window)' \in SUBSET (Instances \X (1..(BatchSize - 1)))
        BY <1>1 DEF Unflushed
      <4> QED BY <1>1, <4>1, PlacesAreFinite
    <3>3. Debt(window)' = tally[window].lost
                          + (BatchSize - 1) * (tally[window].refused + Cardinality(Waiting(window)))
                          + Cardinality(Unflushed(window)')
      BY <1>1, <2>2, <2>5 DEF Debt
    <3>4. Debt(window)' >= Debt(window) + 1
      BY <2>1, <3>1, <3>2, <3>3 DEF Debt
    <3>5. IsFiniteSet(Waiting(window)')
      BY <1>1, <1>2, <2>5
    <3> QED BY <1>1, <1>2, <2>2, <2>3, <3>4, <3>5, DebtCovers
  <2> QED BY <1>4, <2>1, <2>3, <2>4, <2>6, <2>7
<1>8. CASE /\ BatchSize > 1 /\ b.pending + 1 = BatchSize /\ Arrive(0) /\ Await(r, i)
           /\ bucket' = [bucket EXCEPT ![i] = [b EXCEPT !.pending = 0]]
  <2>1. /\ bucket' \in [Instances -> Bucket] /\ BuffersAreShort'
        /\ \A w \in Windows \ {window} : Unflushed(w) \subseteq Unflushed(w)'
        /\ Cardinality(Unflushed(window)') + (BatchSize - 1) >= Cardinality(Unflushed(window))
    BY <1>1, <1>8, PlacesFlushed
  <2>2. /\ tally' \in [Windows -> Tally] /\ arrivals' \in Nat
        /\ tally'[window].admitted = tally[window].admitted + 0
        /\ \A w \in Windows : /\ tally'[w].lost = tally[w].lost
                              /\ tally'[w].refused = tally[w].refused
                              /\ w # window => tally'[w] = tally[w]
    BY <1>8, ArrivalIsCounted
  <2>3. /\ request' \in [Requests -> Awaited \cup {Gone}] /\ RequestsAreRecent'
        /\ r \notin Waiting(window) /\ Waiting(window)' = Waiting(window) \cup {r}
        /\ \A w \in Windows \ {window} : Waiting(w)' = Waiting(w)
    BY <1>1, <1>8, RequestWaits
  <2>4. RateTypes'
    BY <1>1, <2>1, <2>2, <2>3 DEF RateTypes, Windows
  <2>5. ASSUME NEW w \in Windows, w # window PROVE IsFiniteSet(Waiting(w))' /\ Admitted(w)'
    BY <1>1, <1>2, <2>1, <2>2, <2>3, <2>4, <2>5, DebtGrows
  <2>6. IsFiniteSet(Waiting(window))' /\ Admitted(window)'
    <3> DEFINE n == tally[window].refused + Cardinality(Waiting(window))
    <3>1. /\ tally[window].lost \in Nat /\ Cardinality(Unflushed(window)) \in Nat
          /\ tally[window].refused \in Nat /\ Cardinality(Waiting(window)) \in Nat
          /\ (BatchSize - 1) * n \in Nat
      BY <1>1, <1>2, DebtTerms
    <3>2. Cardinality(Unflushed(window)') \in Nat
      <4>1. Unflushed(window)' \in SUBSET (Instances \X (1..(BatchSize - 1)))
        BY <1>1 DEF Unflushed
      <4> QED BY <1>1, <4>1, PlacesAreFinite
    <3>3. IsFiniteSet(Waiting(window)') /\ Cardinality(Waiting(window)') = Cardinality(Waiting(window)) + 1
      <4>1. IsFiniteSet(Waiting(window)) /\ r \notin Waiting(window)
        BY <1>1, <1>2, <2>3
      <4>2. Waiting(window)' = Waiting(window) \cup {r}
        BY <2>3
      <4> QED BY ONLY <4>1, <4>2, FS_AddElement
    <3>4. (BatchSize - 1) * (n + 1) = (BatchSize - 1) * n + (BatchSize - 1)
      BY <1>1, <3>1, OneMoreTimes
    <3>5. tally[window].refused + Cardinality(Waiting(window)') = n + 1
      BY <3>1, <3>3
    <3>6. Debt(window)' = tally[window].lost + (BatchSize - 1) * (n + 1) + Cardinality(Unflushed(window)')
      BY <1>1, <2>2, <3>5 DEF Debt
    <3>7. Debt(window) = tally[window].lost + (BatchSize - 1) * n + Cardinality(Unflushed(window))
      BY DEF Debt
    <3> HIDE DEF n
    <3>8. Debt(window)' >= Debt(window) + 0
      BY <1>1, <2>1, <3>1, <3>2, <3>4, <3>6, <3>7
    <3> QED BY <1>1, <1>2, <2>2, <2>4, <3>3, <3>8, DebtCovers
  <2> QED BY <1>4, <2>1, <2>3, <2>4, <2>5, <2>6
<1> QED BY <1>5, <1>6, <1>7, <1>8 DEF ConsumeBuffered

(* The counter's answer: what it counts, it counts for the whole batch.    *)
LEMMA AnswerKeepsRateInv ==
  ASSUME RateInv, NEW r \in Requests, Answer(r)
  PROVE  RateInv'
<1> DEFINE v == request[r].window
           total == counter[v] + BatchSize
           i == request[r].instance
<1>1. /\ RateTypes /\ UNCHANGED <<scope, window, arrivals>> /\ window \in Windows
      /\ BatchSize - 1 \in Nat /\ BatchSize \in Nat /\ BatchSize' = BatchSize
      /\ Limit' = Limit /\ Limit \in Nat
  BY RuleIsPositive DEF RateInv, RateTypes, BatchSize, Answer, Limit
<1>2. /\ request[r].waiting /\ request' = [request EXCEPT ![r] = Gone]
      /\ counter' = [counter EXCEPT ![v] = @ + BatchSize]
      /\ bucket' = IF BatchSize > 1 /\ total > Limit /\ bucket[i].window = v
                   THEN [bucket EXCEPT ![i].blocked = TRUE] ELSE bucket
      /\ tally' = IF total <= Limit THEN [tally EXCEPT ![v].admitted = @ + 1]
                  ELSE [tally EXCEPT ![v].refused = @ + 1]
  BY DEF Answer, Decide, IncrementRateLimitCounter
<1>3. PICK u : u = v
  OBVIOUS
<1>4. /\ request[r] \in Awaited /\ u \in Windows /\ ~Expired(u)
      /\ request' \in [Requests -> Awaited \cup {Gone}]
      /\ RequestsAreRecent'
      /\ r \in Waiting(u) /\ Waiting(u)' = Waiting(u) \ {r}
      /\ \A w \in Windows \ {u} : Waiting(w)' = Waiting(w)
  BY <1>1, <1>2, <1>3, RequestLeaves
<1>5. \A w \in Windows : (Expired(w)' <=> Expired(w)) /\ IsFiniteSet(Waiting(w))
  BY <1>1 DEF Expired, RateInv
<1>6. /\ counter' \in [Windows -> Nat] /\ counter'[u] = counter[u] + BatchSize
      /\ \A w \in Windows \ {u} : counter'[w] = counter[w]
  BY <1>1, <1>2, <1>3, <1>4 DEF RateTypes
<1>7. /\ bucket' \in [Instances -> Bucket]
      /\ \A j \in Instances : bucket'[j].window = bucket[j].window /\ bucket'[j].pending = bucket[j].pending
  <2>1. bucket \in [Instances -> Bucket]
    BY <1>1 DEF RateTypes
  <2>2. i \in Instances
    BY <1>4 DEF Awaited
  <2> DEFINE blockedOne == [bucket EXCEPT ![i].blocked = TRUE]
  <2>3. /\ blockedOne \in [Instances -> Bucket]
        /\ \A j \in Instances : blockedOne[j].window = bucket[j].window
                                /\ blockedOne[j].pending = bucket[j].pending
    BY <2>1, <2>2 DEF Bucket
  <2> QED BY <1>2, <2>1, <2>3
<1>8. BuffersAreShort'
  BY <1>1, <1>7 DEF RateInv, BuffersAreShort
<1>9. \A w \in Windows : Unflushed(w)' = Unflushed(w)
  BY <1>1, <1>7 DEF Unflushed
<1>10. /\ tally' \in [Windows -> Tally] /\ tally'[u].lost = tally[u].lost
       /\ \A w \in Windows \ {u} : tally'[w] = tally[w]
       /\ IF counter[u] + BatchSize <= Limit
          THEN tally'[u].admitted = tally[u].admitted + 1 /\ tally'[u].refused = tally[u].refused
          ELSE tally'[u].admitted = tally[u].admitted /\ tally'[u].refused = tally[u].refused + 1
  <2>1. tally \in [Windows -> Tally]
    BY <1>1 DEF RateTypes
  <2> DEFINE more == [tally EXCEPT ![u].admitted = @ + 1]
             worse == [tally EXCEPT ![u].refused = @ + 1]
  <2>2. /\ more \in [Windows -> Tally] /\ more[u].lost = tally[u].lost
        /\ more[u].admitted = tally[u].admitted + 1 /\ more[u].refused = tally[u].refused
        /\ \A w \in Windows \ {u} : more[w] = tally[w]
    BY <1>4, <2>1 DEF Tally
  <2>3. /\ worse \in [Windows -> Tally] /\ worse[u].lost = tally[u].lost
        /\ worse[u].admitted = tally[u].admitted /\ worse[u].refused = tally[u].refused + 1
        /\ \A w \in Windows \ {u} : worse[w] = tally[w]
    BY <1>4, <2>1 DEF Tally
  <2>4. tally' = IF counter[u] + BatchSize <= Limit THEN more ELSE worse
    BY <1>2, <1>3
  <2> HIDE DEF more, worse
  <2> QED BY <2>2, <2>3, <2>4
<1>11. RateTypes'
  BY <1>1, <1>4, <1>6, <1>7, <1>10 DEF RateTypes, Windows
<1>12. ASSUME NEW w \in Windows, w # u PROVE IsFiniteSet(Waiting(w))' /\ Admitted(w)'
  BY <1>1, <1>4, <1>5, <1>6, <1>9, <1>10, <1>11, <1>12, DebtGrows
<1>13. IsFiniteSet(Waiting(u))' /\ Admitted(u)'
  <2> DEFINE n == tally[u].refused + Cardinality(Waiting(u)')
             rest == tally[u].lost + Cardinality(Unflushed(u))
  <2>1. /\ tally[u].lost \in Nat /\ Cardinality(Unflushed(u)) \in Nat
        /\ tally[u].refused \in Nat /\ Cardinality(Waiting(u)) \in Nat
        /\ tally[u].admitted \in Nat /\ counter[u] \in Nat
    BY <1>1, <1>4, <1>5, DebtTerms
  <2>2. IsFiniteSet(Waiting(u)') /\ Cardinality(Waiting(u)') = Cardinality(Waiting(u)) - 1
    BY <1>4, <1>5, FS_RemoveElement
  <2>3. Cardinality(Waiting(u)') \in Nat
    BY <2>2, FS_CardinalityType
  <2>4. n \in Nat /\ tally[u].refused + Cardinality(Waiting(u)) = n + 1 /\ rest \in Nat
    BY <2>1, <2>2, <2>3
  <2>5. Debt(u) = rest + (BatchSize - 1) * (n + 1)
    BY <1>1, <2>1, <2>4, OneMoreTimes DEF Debt
  <2>6. tally'[u].refused + Cardinality(Waiting(u)') =
           IF counter[u] + BatchSize <= Limit THEN n ELSE n + 1
    BY <1>10, <2>1, <2>3
  <2>7. Debt(u)' = rest + (BatchSize - 1) *
                     (IF counter[u] + BatchSize <= Limit THEN n ELSE n + 1)
    <3>1. Debt(u)' = tally[u].lost
                     + (BatchSize - 1) * (tally'[u].refused + Cardinality(Waiting(u)'))
                     + Cardinality(Unflushed(u))
      BY <1>1, <1>9, <1>10, <1>4 DEF Debt
    <3>2. (BatchSize - 1) * n \in Nat /\ (BatchSize - 1) * (n + 1) \in Nat
      BY <1>1, <2>4, OneMoreTimes
    <3> HIDE DEF n
    <3> QED BY <2>1, <2>6, <3>1, <3>2
  <2> HIDE DEF n, rest
  <2>8. /\ (BatchSize - 1) * (n + 1) = (BatchSize - 1) * n + (BatchSize - 1)
        /\ (BatchSize - 1) * n \in Nat
    BY <1>1, <2>4, OneMoreTimes
  <2>9. Admitted(u) /\ tally[u].admitted <= counter[u] + Debt(u)
    BY <1>4 DEF RateInv, Admitted
  <2>10. CASE counter[u] + BatchSize <= Limit
    <3>1. Debt(u)' = rest + (BatchSize - 1) * n /\ tally'[u].admitted = tally[u].admitted + 1
      BY <2>7, <2>10, <1>10
    <3>2. tally'[u].admitted <= counter'[u] + Debt(u)'
      BY <1>1, <1>6, <2>1, <2>4, <2>5, <2>8, <2>9, <3>1
    <3>3. tally'[u].admitted <= Limit' + Debt(u)'
      BY <1>1, <1>6, <2>1, <2>4, <2>8, <2>10, <3>1, <3>2
    <3> QED BY <2>2, <3>2, <3>3 DEF Admitted
  <2>11. CASE ~(counter[u] + BatchSize <= Limit)
    <3>1. Debt(u)' = Debt(u) /\ Debt(u) \in Nat /\ tally'[u].admitted = tally[u].admitted
      BY <1>1, <2>4, <2>5, <2>7, <2>8, <2>11, <1>10
    <3>2. tally'[u].admitted <= counter'[u] + Debt(u)'
      BY <1>1, <1>6, <2>1, <2>9, <3>1
    <3>3. tally'[u].admitted <= Limit' + Debt(u)'
      BY <1>1, <2>9, <3>1 DEF Admitted
    <3> QED BY <2>2, <3>2, <3>3 DEF Admitted
  <2> QED BY <2>10, <2>11
<1> QED BY <1>4, <1>8, <1>11, <1>12, <1>13 DEF RateInv, Windows

(* A store that fails loses a batch for the one request it lets through.   *)
LEMMA FailOpenKeepsRateInv ==
  ASSUME RateInv, NEW r \in Requests, FailOpen(r)
  PROVE  RateInv'
<1> DEFINE v == request[r].window
<1>1. /\ RateTypes /\ UNCHANGED <<scope, window, counter, bucket, arrivals>> /\ window \in Windows
      /\ BatchSize - 1 \in Nat /\ BatchSize \in Nat /\ BatchSize' = BatchSize
  BY RuleIsPositive DEF RateInv, RateTypes, BatchSize, FailOpen
<1>2. /\ request[r].waiting /\ request' = [request EXCEPT ![r] = Gone]
      /\ tally' = [tally EXCEPT ![v].admitted = @ + 1, ![v].lost = @ + BatchSize]
  BY DEF FailOpen
<1>3. PICK u : u = v
  OBVIOUS
<1>4. /\ u \in Windows
      /\ request' \in [Requests -> Awaited \cup {Gone}]
      /\ RequestsAreRecent'
      /\ r \in Waiting(u) /\ Waiting(u)' = Waiting(u) \ {r}
      /\ \A w \in Windows \ {u} : Waiting(w)' = Waiting(w)
  BY <1>1, <1>2, <1>3, RequestLeaves
<1>5. \A w \in Windows : (Expired(w)' <=> Expired(w)) /\ IsFiniteSet(Waiting(w))
  BY <1>1 DEF Expired, RateInv
<1>6. BuffersAreShort' /\ \A w \in Windows : Unflushed(w)' = Unflushed(w)
  BY <1>1 DEF RateInv, BuffersAreShort, Unflushed
<1>7. /\ tally' \in [Windows -> Tally]
      /\ tally'[u].admitted = tally[u].admitted + 1 /\ tally'[u].lost = tally[u].lost + BatchSize
      /\ tally'[u].refused = tally[u].refused
      /\ \A w \in Windows \ {u} : tally'[w] = tally[w]
  <2>1. tally \in [Windows -> Tally]
    BY <1>1 DEF RateTypes
  <2>2. tally' = [tally EXCEPT ![u].admitted = @ + 1, ![u].lost = @ + BatchSize]
    BY <1>2, <1>3
  <2> QED BY <1>1, <1>4, <2>1, <2>2 DEF Tally
<1>8. RateTypes'
  BY <1>1, <1>4, <1>7 DEF RateTypes, Windows
<1>9. ASSUME NEW w \in Windows, w # u PROVE IsFiniteSet(Waiting(w))' /\ Admitted(w)'
  BY <1>1, <1>4, <1>5, <1>6, <1>7, <1>8, <1>9, DebtGrows
<1>10. IsFiniteSet(Waiting(u))' /\ Admitted(u)'
  <2> DEFINE n == tally[u].refused + Cardinality(Waiting(u)')
  <2>1. /\ tally[u].lost \in Nat /\ Cardinality(Unflushed(u)) \in Nat
        /\ tally[u].refused \in Nat /\ Cardinality(Waiting(u)) \in Nat
    BY <1>1, <1>4, <1>5, DebtTerms
  <2>2. IsFiniteSet(Waiting(u)') /\ Cardinality(Waiting(u)') = Cardinality(Waiting(u)) - 1
    BY <1>4, <1>5, FS_RemoveElement
  <2>3. Cardinality(Waiting(u)') \in Nat
    BY <2>2, FS_CardinalityType
  <2>4. n \in Nat /\ tally[u].refused + Cardinality(Waiting(u)) = n + 1
    BY <2>1, <2>2, <2>3
  <2>5. Debt(u) = tally[u].lost + (BatchSize - 1) * (n + 1) + Cardinality(Unflushed(u))
    BY <2>4 DEF Debt
  <2>6. Debt(u)' = tally[u].lost + BatchSize + (BatchSize - 1) * n + Cardinality(Unflushed(u))
    BY <1>1, <1>6, <1>7, <1>4 DEF Debt
  <2> HIDE DEF n
  <2>7. /\ (BatchSize - 1) * (n + 1) = (BatchSize - 1) * n + (BatchSize - 1)
        /\ (BatchSize - 1) * n \in Nat
    BY <1>1, <2>4, OneMoreTimes
  <2>8. Debt(u)' >= Debt(u) + 1
    BY <1>1, <2>1, <2>5, <2>6, <2>7
  <2> QED BY <1>1, <1>4, <1>5, <1>7, <1>8, <2>2, <2>8, DebtCovers
<1> QED BY <1>4, <1>6, <1>8, <1>9, <1>10 DEF RateInv, Windows

(* The sweep reaches windows that no request is left in.                   *)
LEMMA DeleteExpiredKeepsRateInv ==
  ASSUME RateInv, DeleteExpired PROVE RateInv'
<1>1. /\ RateTypes /\ UNCHANGED <<scope, window, bucket, request, arrivals, tally>>
      /\ counter' = [w \in Windows |-> IF Expired(w) THEN 0 ELSE counter[w]]
  BY DEF RateInv, DeleteExpired, Expired
<1>2. RateTypes'
  BY <1>1 DEF RateTypes, Windows
<1>3. BuffersAreShort' /\ RequestsAreRecent'
  BY <1>1 DEF RateInv, BuffersAreShort, RequestsAreRecent, BatchSize
<1>4. ASSUME NEW w \in Windows PROVE IsFiniteSet(Waiting(w))' /\ Admitted(w)'
  <2>1. Waiting(w)' = Waiting(w) /\ Unflushed(w)' = Unflushed(w) /\ (Expired(w)' <=> Expired(w))
    BY <1>1 DEF Waiting, Unflushed, Expired, BatchSize
  <2>2. Expired(w)' \/ counter'[w] = counter[w]
    BY <1>1, <2>1
  <2> QED BY <1>1, <1>2, <2>1, <2>2, DebtGrows
<1> QED BY <1>2, <1>3, <1>4 DEF RateInv, Windows

LEMMA NextWindowKeepsRateInv ==
  ASSUME RateInv, NextWindow PROVE RateInv'
<1>1. /\ RateTypes /\ UNCHANGED <<scope, counter, bucket, request, arrivals, tally>>
      /\ window' = window + 1 /\ window < MaxWindow
      /\ \A r \in Requests : request[r].waiting => request[r].window = window
  BY DEF RateInv, NextWindow
<1>2. window \in Nat /\ MaxWindow \in Nat /\ window' \in Windows
  BY <1>1, RateLimitAssumption DEF RateTypes, Windows
<1>3. RateTypes'
  BY <1>1, <1>2 DEF RateTypes, Windows
<1>4. BuffersAreShort' /\ RequestsAreRecent'
  <2>1. \A i \in Instances : bucket[i].window \in Nat
    BY <1>1, RateLimitAssumption DEF RateTypes, Bucket, Windows
  <2> QED BY <1>1, <1>2, <2>1 DEF RateInv, BuffersAreShort, RequestsAreRecent, BatchSize
<1>5. ASSUME NEW w \in Windows PROVE IsFiniteSet(Waiting(w))' /\ Admitted(w)'
  <2>1. Waiting(w)' = Waiting(w) /\ Unflushed(w)' = Unflushed(w)
    BY <1>1 DEF Waiting, Unflushed, BatchSize
  <2>2. Expired(w) => Expired(w)'
    BY <1>1, <1>2, RateLimitAssumption DEF Expired, WindowExpiryFor, Windows
  <2> QED BY <1>1, <1>3, <2>1, <2>2, DebtGrows
<1> QED BY <1>3, <1>4, <1>5 DEF RateInv, Windows

LEMMA RateStutterKeepsRateInv ==
  ASSUME RateInv, UNCHANGED rateVars PROVE RateInv'
<1> USE DEF rateVars
<1>1. RateTypes' /\ BuffersAreShort' /\ RequestsAreRecent'
  BY DEF RateInv, RateTypes, BuffersAreShort, RequestsAreRecent, BatchSize, Windows
<1>2. ASSUME NEW w \in Windows PROVE IsFiniteSet(Waiting(w))' /\ Admitted(w)'
  <2>1. Waiting(w)' = Waiting(w) /\ Unflushed(w)' = Unflushed(w) /\ (Expired(w)' <=> Expired(w))
    BY DEF Waiting, Unflushed, Expired, BatchSize
  <2> QED BY <1>1, <2>1, DebtGrows
<1> QED BY <1>1, <1>2 DEF RateInv, Windows

(* A window admits at most its limit, what a failing store lost, and a     *)
(* short buffer for each instance, refused flush and flush in flight: the  *)
(* limiter's counter and buffers (packages/db/src/rate-limit).             *)
THEOREM AdmissionsAreBounded == RateSpec => []AdmissionIsBounded
<1>1. RateInit => RateInv
  BY RateInitInv
<1>2. RateInv /\ [RateNext]_rateVars => RateInv'
  BY ConsumeKeepsRateInv, AnswerKeepsRateInv, FailOpenKeepsRateInv,
     DeleteExpiredKeepsRateInv, NextWindowKeepsRateInv, RateStutterKeepsRateInv DEF RateNext
<1>3. RateInv => AdmissionIsBounded
  BY RateInvBounds
<1> QED BY <1>1, <1>2, <1>3, PTL DEF RateSpec

=============================================================================
