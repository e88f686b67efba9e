------------------------------- MODULE Player -------------------------------
(***************************************************************************)
(* The attempt player in the browser (apps/web/src/app/attempts/): each    *)
(* tab shows an answer for every question before the server has taken it,  *)
(* sends the save, and puts the reply, or the answer it had before, in its *)
(* place.  A save may be refused, beaten by another tab, or fail with its  *)
(* page; a page may be reloaded while its save is on the way, and the      *)
(* server then runs a save nobody waits for.                               *)
(*                                                                         *)
(* The framework sends a tab's saves one after the other.  The server is   *)
(* one answer row per question and its compare-and-swap, read and write    *)
(* apart; why a save is refused before it (the lease, the deadline, the    *)
(* rate limit, the write guard) is left open.  Module Attempt has those.   *)
(***************************************************************************)
EXTENDS Naturals, Sequences

CONSTANTS Tabs, Questions, Options,
          NoOption,     \* the option of a question not answered
          Closed,       \* a tab without a page
          MaxChoices,   \* how often learners choose
          MaxPages      \* how many pages are opened

Entry == [option : Options \cup {NoOption, Closed}, revision : Nat]

ASSUME PlayerAssumption == Closed \notin [Questions -> Entry]

VARIABLES row,       \* answer_states: the option and revision of each question
          accepted,  \* history: the question, option and revision of each save taken
          answers,   \* what a tab's page shows for each question
          saves,     \* the saves a page waits for, in the order they are sent
          reply,     \* the server's reply to the first of them
          orphans,   \* saves sent by pages that are gone
          hurried,   \* history: questions a page's learner chose again before a reply
          chosen, pages

playerVars == <<row, accepted, answers, saves, reply, orphans, hurried, chosen, pages>>
serverVars == <<row, accepted>>
pageVars == <<answers, saves, reply, hurried>>

Waiting == [kind |-> "waiting", revision |-> 0]
Refusal == [kind |-> "refused", revision |-> 0]
NotRead == [option |-> Closed, revision |-> 0]

Unanswered == [q \in Questions |-> [option |-> NoOption, revision |-> 0]]
Outstanding(t, q) == \E i \in DOMAIN saves[t] : saves[t][i].question = q

\* The save a tab leaves behind when its page goes: sent and not answered.
LeftBehind(t) == IF saves[t] # <<>> /\ reply[t] = Waiting THEN {Head(saves[t])} ELSE {}

(* The page is rendered from the attempt's stored answers.                 *)
OpenPage(t) ==
    /\ pages < MaxPages
    /\ pages' = pages + 1
    /\ answers' = [answers EXCEPT ![t] = row]
    /\ saves' = [saves EXCEPT ![t] = <<>>]
    /\ reply' = [reply EXCEPT ![t] = Waiting]
    /\ hurried' = [hurried EXCEPT ![t] = {}]
    /\ orphans' = orphans \cup LeftBehind(t)
    /\ UNCHANGED <<serverVars, chosen>>

(* select: the choice is shown at the revision the page last knew.         *)
Select(t, q, o) ==
    /\ chosen < MaxChoices
    /\ answers[t] # Closed
    /\ answers[t][q].option # o
    /\ LET previous == answers[t][q] IN
         /\ answers' = [answers EXCEPT ![t][q].option = o]
         /\ saves' = [saves EXCEPT ![t] = Append(@,
                        [question |-> q, option |-> o,
                         expected |-> previous.revision, previous |-> previous,
                         base |-> NotRead])]
    /\ hurried' = [hurried EXCEPT ![t] = IF Outstanding(t, q) THEN @ \cup {q} ELSE @]
    /\ chosen' = chosen + 1
    /\ UNCHANGED <<serverVars, reply, orphans, pages>>

(* The save's transaction reads the row without a lock.                    *)
ReadRow(t) ==
    /\ saves[t] # <<>> /\ reply[t] = Waiting
    /\ Head(saves[t]).base = NotRead
    /\ saves' = [saves EXCEPT ![t][1].base = row[Head(saves[t]).question]]
    /\ UNCHANGED <<serverVars, answers, reply, orphans, hurried, chosen, pages>>

(* resolveAnswerSaveOutcome, as saveAnswerAction reports it.               *)
CasOutcome(s) ==
    IF s.expected = s.base.revision
    THEN [kind |-> "saved", revision |-> s.base.revision + 1]
    ELSE IF s.option = s.base.option
         THEN [kind |-> "saved", revision |-> s.base.revision]
         ELSE Refusal

\* What s does to the row: a change of it since the read is overwritten.
Commit(s) ==
    IF s.expected = s.base.revision
    THEN LET next == s.expected + 1 IN
         /\ row' = [row EXCEPT ![s.question] = [option |-> s.option, revision |-> next]]
         /\ accepted' = accepted \cup {<<s.question, s.option, next>>}
    ELSE UNCHANGED serverVars

CommitSave(t) ==
    /\ saves[t] # <<>> /\ reply[t] = Waiting
    /\ Head(saves[t]).base # NotRead
    /\ Commit(Head(saves[t]))
    /\ reply' = [reply EXCEPT ![t] = CasOutcome(Head(saves[t]))]
    /\ UNCHANGED <<answers, saves, orphans, hurried, chosen, pages>>

(* A guard, the limiter, the lease or the deadline stopped the save.       *)
RefuseSave(t) ==
    /\ saves[t] # <<>> /\ reply[t] = Waiting
    /\ Head(saves[t]).base = NotRead
    /\ reply' = [reply EXCEPT ![t] = Refusal]
    /\ UNCHANGED <<serverVars, answers, saves, orphans, hurried, chosen, pages>>

(* The server goes on with a save whose page is gone.                      *)
ServeOrphan(s) ==
    /\ IF s.base = NotRead
       THEN /\ orphans' = (orphans \ {s}) \cup {[s EXCEPT !.base = row[s.question]]}
            /\ UNCHANGED serverVars
       ELSE /\ orphans' = orphans \ {s}
            /\ Commit(s)
    /\ UNCHANGED <<pageVars, chosen, pages>>

Settle(t, entry) ==
    /\ answers' = [answers EXCEPT ![t][Head(saves[t]).question] = entry]
    /\ saves' = [saves EXCEPT ![t] = Tail(@)]
    /\ reply' = [reply EXCEPT ![t] = Waiting]
    /\ UNCHANGED <<serverVars, orphans, hurried, chosen, pages>>

Acknowledge(t) ==
    /\ reply[t].kind = "saved"
    /\ Settle(t, [option |-> Head(saves[t]).option, revision |-> reply[t].revision])

\* A broken refusal: the choice stays as it was shown.
RestoreNothing(t) ==
    /\ reply[t].kind = "refused"
    /\ Settle(t, answers[t][Head(saves[t]).question])

(* The server refused: what the page showed at the choice comes back.      *)
Restore(t) ==
    /\ reply[t].kind = "refused"
    /\ Settle(t, Head(saves[t]).previous)

(* An error classifySaveError does not know, or a reply that is lost,      *)
(* takes the page down.                                                    *)
Fail(t) ==
    /\ saves[t] # <<>>
    /\ answers' = [answers EXCEPT ![t] = Closed]
    /\ saves' = [saves EXCEPT ![t] = <<>>]
    /\ reply' = [reply EXCEPT ![t] = Waiting]
    /\ orphans' = orphans \cup LeftBehind(t)
    /\ UNCHANGED <<serverVars, hurried, chosen, pages>>

PlayerInit ==
    /\ row = Unanswered /\ accepted = {}
    /\ answers = [t \in Tabs |-> Closed]
    /\ saves = [t \in Tabs |-> <<>>]
    /\ reply = [t \in Tabs |-> Waiting]
    /\ orphans = {}
    /\ hurried = [t \in Tabs |-> {}]
    /\ chosen = 0 /\ pages = 0

PlayerNext ==
    \/ \E t \in Tabs : \/ OpenPage(t) \/ ReadRow(t) \/ CommitSave(t) \/ RefuseSave(t)
                       \/ Acknowledge(t) \/ Restore(t) \/ Fail(t)
                       \/ \E q \in Questions, o \in Options : Select(t, q, o)
    \/ \E s \in orphans : ServeOrphan(s)

PlayerSpec == PlayerInit /\ [][PlayerNext]_playerVars

-----------------------------------------------------------------------------
\* A page shows an answer that no save of it waits for.
Settled(t, q) == answers[t] # Closed /\ ~Outstanding(t, q)

(* What a page shows for a question once its saves are answered is blank,  *)
(* or an answer the server took at that very revision, whatever other tabs *)
(* saved, whatever was refused, and whatever an abandoned page's save did. *)
(* A learner who chose again before the reply is excepted: see below.      *)
ShownWasSaved ==
    \A t \in Tabs, q \in Questions :
      Settled(t, q) /\ q \notin hurried[t] =>
        LET e == answers[t][q] IN
          e.option = NoOption \/ <<q, e.option, e.revision>> \in accepted

(* AttemptRunner.tsx:107: "If the server refuses, the previous value is    *)
(* restored - an unacknowledged answer is never left looking saved".  So a *)
(* page whose saves are answered shows only options the server has taken.  *)
NeverLooksSaved ==
    \A t \in Tabs, q \in Questions :
      Settled(t, q) =>
        LET o == answers[t][q].option IN
          o = NoOption \/ \E a \in accepted : a[1] = q /\ a[2] = o

=============================================================================
