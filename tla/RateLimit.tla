----------------------------- MODULE RateLimit -----------------------------
(***************************************************************************)
(* The fixed-window rate limiter (packages/db/src/rate-limit,              *)
(* packages/domain/src/rate-limit, apps/web/src/lib/rate-limit.ts): one    *)
(* shared counter per bucket and window, raised in one statement, and, for *)
(* autosave only, a buffer in each function instance that reaches the      *)
(* counter every `batch` saves.                                            *)
(*                                                                         *)
(* One bucket, of any one scope.  Windows are numbered; a request keeps    *)
(* the window it started in and does not outlive the next one.             *)
(***************************************************************************)
EXTENDS Naturals, FiniteSets

CONSTANTS
    Scopes,      \* RATE_LIMIT_RULES' scopes
    Rule,        \* [limit, batch] of each scope
    Instances,   \* function instances of the app
    Requests,    \* requests that may wait for the counter at once
    MaxWindow,   \* bound on the number of windows
    MaxHits,     \* bound on the requests that arrive
    MaxFailures  \* bound on store errors

ASSUME RateLimitAssumption ==
    /\ \A s \in Scopes : Rule[s].limit \in Nat /\ Rule[s].batch \in Nat \ {0}
    /\ IsFiniteSet(Instances)
    /\ {MaxWindow, MaxHits, MaxFailures} \subseteq Nat

VARIABLES
    scope,     \* the bucket's scope
    window,    \* the current window
    counter,   \* rate_limit_counters, by window; 0 when there is no row
    bucket,    \* localBuckets of each instance
    request,   \* requests waiting for the counter's answer: instance, window
    arrivals,  \* how many requests have come (history)
    tally      \* by window: admitted, refused flushes and hits lost to store
               \* errors (history)

rateVars == <<scope, window, counter, bucket, request, arrivals, tally>>

Windows == 0..MaxWindow
Gone == [waiting |-> FALSE]
NoTally == [admitted |-> 0, refused |-> 0, lost |-> 0]

Limit == Rule[scope].limit
BatchSize == Rule[scope].batch

RateInit ==
    /\ scope \in Scopes
    /\ window = 0
    /\ counter = [w \in Windows |-> 0]
    /\ bucket = [i \in Instances |-> [window |-> 0, pending |-> 0, blocked |-> FALSE]]
    /\ request = [r \in Requests |-> Gone]
    /\ arrivals = 0
    /\ tally = [w \in Windows |-> NoTally]

-----------------------------------------------------------------------------
\* The instance's buffer for this window; an older one is dropped.
LocalBucket(i) ==
    IF bucket[i].window = window THEN bucket[i]
    ELSE [window |-> window, pending |-> 0, blocked |-> FALSE]

Arrive(admitted) ==
    /\ arrivals' = arrivals + 1
    /\ tally' = [tally EXCEPT ![window].admitted = @ + admitted]

Await(r, i) ==
    request' = [request EXCEPT ![r] = [waiting |-> TRUE, instance |-> i, window |-> window]]

\* consumeRateLimit, batchSize 1: every call asks the shared counter.
ConsumeShared(r, i) ==
    /\ BatchSize = 1
    /\ Arrive(0) /\ Await(r, i) /\ UNCHANGED bucket

\* consumeRateLimit, batched: refused while blocked, admitted unasked while the
\* buffer is short, and the request that fills it asks for all of them.
ConsumeBuffered(r, i) ==
    LET b == LocalBucket(i)
        full == b.pending + 1 = BatchSize
    IN  /\ BatchSize > 1
        /\ \/ /\ b.blocked
              /\ Arrive(0) /\ UNCHANGED request
              /\ bucket' = [bucket EXCEPT ![i] = b]
           \/ /\ ~b.blocked /\ ~full
              /\ Arrive(1) /\ UNCHANGED request
              /\ bucket' = [bucket EXCEPT ![i] = [b EXCEPT !.pending = @ + 1]]
           \/ /\ ~b.blocked /\ full
              /\ Arrive(0) /\ Await(r, i)
              /\ bucket' = [bucket EXCEPT ![i] = [b EXCEPT !.pending = 0]]

ConsumeRateLimit(r, i) ==
    /\ ~request[r].waiting /\ arrivals < MaxHits
    /\ ConsumeShared(r, i) \/ ConsumeBuffered(r, i)
    /\ UNCHANGED <<scope, window, counter>>

\* Mutant: the request that crosses the limit is still served.
DecideOneTooMany(total) == total <= Limit + BatchSize

\* decide
Decide(total) == total <= Limit

\* incrementRateLimitCounter: one INSERT ... ON CONFLICT DO UPDATE ... RETURNING.
IncrementRateLimitCounter(w) == counter' = [counter EXCEPT ![w] = @ + BatchSize]

\* The counter's answer: the waiting request is admitted or refused, and a
\* refusal blocks the instance for what is left of the window.
Answer(r) ==
    LET q     == request[r]
        total == counter[q.window] + BatchSize
    IN  /\ q.waiting
        /\ IncrementRateLimitCounter(q.window)
        /\ bucket' = IF BatchSize > 1 /\ total > Limit /\ bucket[q.instance].window = q.window
                     THEN [bucket EXCEPT ![q.instance].blocked = TRUE] ELSE bucket
        /\ tally' = IF Decide(total) THEN [tally EXCEPT ![q.window].admitted = @ + 1]
                    ELSE [tally EXCEPT ![q.window].refused = @ + 1]
        /\ request' = [request EXCEPT ![r] = Gone]
        /\ UNCHANGED <<scope, window, arrivals>>

\* The store fails: the request is let through and what it carried is lost.
FailOpen(r) ==
    LET q == request[r]
    IN  /\ q.waiting /\ \A w \in Windows : tally[w].lost < MaxFailures * BatchSize
        /\ tally' = [tally EXCEPT ![q.window].admitted = @ + 1, ![q.window].lost = @ + BatchSize]
        /\ request' = [request EXCEPT ![r] = Gone]
        /\ UNCHANGED <<scope, window, counter, bucket, arrivals>>

\* windowExpiryFor: a row outlives its window by one more.
WindowExpiryFor(w) == w + 2

\* deleteExpiredRateLimitCounters, sampled on a few requests: `now` is the
\* start of the caller's window.
DeleteExpired ==
    /\ \E w \in Windows : WindowExpiryFor(w) < window /\ counter[w] > 0
    /\ counter' = [w \in Windows |-> IF WindowExpiryFor(w) < window THEN 0 ELSE counter[w]]
    /\ UNCHANGED <<scope, window, bucket, request, arrivals, tally>>

\* windowStartFor: the next window begins; no request is older than the last.
NextWindow ==
    /\ window < MaxWindow
    /\ \A r \in Requests : request[r].waiting => request[r].window = window
    /\ window' = window + 1
    /\ UNCHANGED <<scope, counter, bucket, request, arrivals, tally>>

RateNext ==
    \/ \E r \in Requests, i \in Instances : ConsumeRateLimit(r, i)
    \/ \E r \in Requests : Answer(r) \/ FailOpen(r)
    \/ DeleteExpired \/ NextWindow

RateSpec == RateInit /\ [][RateNext]_rateVars

-----------------------------------------------------------------------------
(* Properties *)

Waiting(w) == {r \in Requests : request[r].waiting /\ request[r].window = w}

\* However many requests race, a window admits the limit, plus what a failing
\* store lost, plus, for a buffered scope, a short buffer for each instance, for
\* each flush refused and for each in flight; an unbuffered scope admits exactly
\* the limit when the store does not fail (repository.ts, service.ts).
AdmissionIsBounded ==
    \A w \in Windows :
        tally[w].admitted <=
            Limit + tally[w].lost
            + (BatchSize - 1) * (Cardinality(Instances) + tally[w].refused
                               + Cardinality(Waiting(w)))

=============================================================================
