------------------------------ MODULE Upstream ------------------------------
(***************************************************************************)
(* How a source's requests are sent: internal/aggregator/upstream.go.      *)
(* Fetch waits for the source's rate limit before every request, retries   *)
(* transient failures after a wait, and stops any wait when its context is *)
(* done.  Each source has an Upstream of its own and fetches one thing at  *)
(* a time.                                                                 *)
(*                                                                         *)
(* Time is kept as what is left of each wait, in seconds, so that the      *)
(* program can run forever in finitely many states.  The rate limiter is   *)
(* that of golang.org/x/time/rate with a burst of one.                     *)
(***************************************************************************)
EXTENDS Integers, Kinds

CONSTANTS
    Interval,         \* the time between two requests the configured rate allows
    MaxRetries,       \* DEFAULT_MAX_RETRIES
    InitialBackoff,   \* DEFAULT_INITIAL_BACKOFF
    MaxBackoff,       \* MAX_BACKOFF
    MaxRetryAfter,    \* MAX_RETRY_AFTER
    Statuses,         \* the statuses an upstream answers with besides 200
    Headers,          \* the seconds a Retry-After header asks for; 0 without one
    DurationSpan,     \* a time.Duration is less than this many seconds either way
    MaxBudget         \* bound on the time a context's deadline is away

ASSUME UpstreamAssumption ==
    /\ {Interval, InitialBackoff, MaxBackoff, MaxRetryAfter, DurationSpan} \subseteq Nat \ {0}
    /\ InitialBackoff <= MaxBackoff /\ MaxRetryAfter < DurationSpan
    /\ MaxRetries \in Nat /\ MaxBudget \in Nat /\ Headers \subseteq Nat
    /\ Statuses \subseteq 100..599 \ {200}

NoDeadline == MaxBudget + 1

VARIABLES
    slot,         \* how long until the limiter has a free slot
    cancelled,    \* whether the context was cancelled
    budget,       \* how long until its deadline, or NoDeadline
    call,         \* the Fetch in progress: {} or a singleton
    result,       \* how the last Fetch ended
    sinceLast,    \* how long ago the last request was sent, up to Interval
    sinceOther,   \* and the one before it
    asked         \* how long the last answer asked not to be sent another

vars == <<slot, cancelled, budget, call, result, sinceLast, sinceOther, asked>>

Smaller(a, b) == IF a < b THEN a ELSE b
Larger(a, b) == IF a > b THEN a ELSE b

\* sent counts the requests of this Fetch; wait is what is left of its timer.
Calls == [stage : {"limiter", "refused", "reserved", "sending", "waiting"},
          attempt : 0..MaxRetries, backoff : InitialBackoff..MaxBackoff,
          wait : Nat, sent : 0..MaxRetries + 1]

\* transient tells whether the failure was one to retry.
Results == [kind : Kinds \cup {"none", "body", "too large", "context"},
            transient : BOOLEAN, sent : 0..MaxRetries + 1]

NoResult == [kind |-> "none", transient |-> FALSE, sent |-> 0]

TypeOK ==
    /\ slot \in 0 .. 2 * Interval
    /\ cancelled \in BOOLEAN
    /\ budget \in 0..NoDeadline
    /\ call = {} \/ \E fetch \in call : call = {fetch}
    /\ \A fetch \in call : fetch \in Calls
    /\ result \in Results
    /\ sinceLast \in 0..Interval /\ sinceOther \in 0..Interval
    /\ asked \in Nat

Done == cancelled \/ budget = 0

Init ==
    /\ slot = 0
    /\ cancelled = FALSE
    /\ budget \in 1..NoDeadline
    /\ call = {}
    /\ result = NoResult
    /\ sinceLast = Interval /\ sinceOther = Interval
    /\ asked = 0

-----------------------------------------------------------------------------
(* What an answer means *)

IsRetryableStatus(status) == status \in {429, 502, 503, 504}

\* A number of seconds is turned into a Duration by a multiplication that wraps
\* around, and a negative one counts as none.
ParseRetryAfter(seconds) ==
    Larger(0, ((seconds + DurationSpan) % (2 * DurationSpan)) - DurationSpan)

-----------------------------------------------------------------------------
(* A call of Fetch *)

End(fetch, kind, transient) ==
    /\ call' = {}
    /\ result' = [kind |-> kind, transient |-> transient, sent |-> fetch.sent]

\* A run starts, or an enricher within it, with a context of its own.
NewContext ==
    /\ call = {}
    /\ cancelled' = FALSE
    /\ budget' \in 1..NoDeadline
    /\ result' = NoResult
    /\ UNCHANGED <<slot, call, sinceLast, sinceOther, asked>>

BeginFetch ==
    /\ call = {}
    /\ call' = {[stage |-> "limiter", attempt |-> 0, backoff |-> InitialBackoff,
                 wait |-> 0, sent |-> 0]}
    /\ result' = NoResult
    /\ asked' = 0
    /\ UNCHANGED <<slot, cancelled, budget, sinceLast, sinceOther>>

Send(fetch) ==
    /\ call' = {[fetch EXCEPT !.stage = "sending", !.sent = fetch.sent + 1]}
    /\ sinceLast' = 0 /\ sinceOther' = sinceLast
    /\ asked' = 0

AskLimiterOnce(fetch) ==   \* mutant: the refusal is returned at once
    /\ fetch.stage = "limiter"
    /\ \/ /\ Done \/ slot > budget
          /\ End(fetch, "context", FALSE)
          /\ UNCHANGED <<slot, sinceLast, sinceOther, asked>>
       \/ /\ ~Done /\ slot = 0
          /\ slot' = Interval
          /\ Send(fetch)
          /\ UNCHANGED result
    /\ UNCHANGED <<cancelled, budget>>

AskLimiterForever(fetch) ==   \* mutant: a slot in the future is never waited for
    /\ fetch.stage = "limiter"
    /\ \/ /\ ~Done /\ slot > 0
          /\ call' = {[fetch EXCEPT !.stage = "refused"]}
          /\ UNCHANGED <<slot, result, sinceLast, sinceOther, asked>>
       \/ /\ ~Done /\ slot = 0
          /\ slot' = Interval
          /\ Send(fetch)
          /\ UNCHANGED result
    /\ UNCHANGED <<cancelled, budget>>

\* limiter.Wait: it gives up at once when the context is done or will be before
\* the next slot; it takes the slot, and is there, or waits for it.
AskLimiter(fetch) ==
    /\ fetch.stage = "limiter"
    /\ \/ /\ Done
          /\ End(fetch, "context", FALSE)
          /\ UNCHANGED <<slot, sinceLast, sinceOther, asked>>
       \/ /\ ~Done /\ budget # NoDeadline /\ slot > budget
          /\ call' = {[fetch EXCEPT !.stage = "refused"]}
          /\ UNCHANGED <<slot, result, sinceLast, sinceOther, asked>>
       \/ /\ ~Done /\ slot = 0
          /\ slot' = Interval
          /\ Send(fetch)
          /\ UNCHANGED result
       \/ /\ ~Done /\ slot > 0 /\ (budget = NoDeadline \/ slot <= budget)
          /\ slot' = slot + Interval
          /\ call' = {[fetch EXCEPT !.stage = "reserved", !.wait = slot]}
          /\ UNCHANGED <<result, sinceLast, sinceOther, asked>>
    /\ UNCHANGED <<cancelled, budget>>

\* "wait out the few seconds left and report the deadline"
WaitOutContext(fetch) ==
    /\ fetch.stage = "refused"
    /\ Done
    /\ End(fetch, "context", FALSE)
    /\ UNCHANGED <<slot, cancelled, budget, sinceLast, sinceOther, asked>>

ReachSlot(fetch) ==
    /\ fetch.stage = "reserved" /\ fetch.wait = 0
    /\ Send(fetch)
    /\ UNCHANGED <<slot, cancelled, budget, result>>

\* A slot whose time is not past is given back.
AbandonSlot(fetch) ==
    /\ fetch.stage = "reserved" /\ Done
    /\ slot' = IF slot >= Interval THEN slot - Interval ELSE slot
    /\ End(fetch, "context", FALSE)
    /\ UNCHANGED <<cancelled, budget, sinceLast, sinceOther, asked>>

JudgeEarly(fetch, kind, isRetryable, retryAfter) ==   \* mutant: one retry too few
    IF ~isRetryable \/ fetch.attempt + 1 >= MaxRetries \/ retryAfter > MaxRetryAfter
    THEN End(fetch, kind, isRetryable /\ retryAfter <= MaxRetryAfter)
    ELSE /\ call' = {[fetch EXCEPT !.stage = "waiting", !.wait = fetch.backoff]}
         /\ UNCHANGED result

JudgeHasty(fetch, kind, isRetryable, retryAfter) ==   \* mutant: only backs off
    IF ~isRetryable \/ fetch.attempt = MaxRetries \/ retryAfter > MaxRetryAfter
    THEN End(fetch, kind, isRetryable /\ retryAfter <= MaxRetryAfter)
    ELSE /\ call' = {[fetch EXCEPT !.stage = "waiting", !.wait = fetch.backoff]}
         /\ UNCHANGED result

\* What Fetch does with an error of send: it returns it, or waits to try again.
Judge(fetch, kind, isRetryable, retryAfter) ==
    IF ~isRetryable \/ fetch.attempt = MaxRetries \/ retryAfter > MaxRetryAfter
    THEN End(fetch, kind, isRetryable /\ retryAfter <= MaxRetryAfter)
    ELSE /\ \E wait \in IF retryAfter > 0 THEN {retryAfter}
                        ELSE fetch.backoff .. 2 * fetch.backoff - 1 :
               call' = {[fetch EXCEPT !.stage = "waiting", !.wait = wait]}
         /\ UNCHANGED result

\* The rest of send.  An error of the request is not the upstream's when the
\* context is done; a connection dropped on the way is worth a retry, other
\* network failures are not.
Receive(fetch) ==
    /\ fetch.stage = "sending"
    /\ \/ End(fetch, "body", FALSE) /\ UNCHANGED asked
       \/ End(fetch, "too large", FALSE) /\ UNCHANGED asked
       \/ Done /\ End(fetch, "context", FALSE) /\ UNCHANGED asked
       \/ \E isDropped \in BOOLEAN :
             Judge(fetch, "unavailable", isDropped, 0) /\ UNCHANGED asked
       \/ \E status \in Statuses, seconds \in Headers :
             /\ Judge(fetch, KindOf(status), IsRetryableStatus(status),
                      ParseRetryAfter(seconds))
             /\ asked' = seconds
    /\ UNCHANGED <<slot, cancelled, budget, sinceLast, sinceOther>>

RetryAtOnce(fetch) ==   \* mutant: a retry passes the limiter by
    /\ fetch.stage = "waiting" /\ fetch.wait = 0
    /\ call' = {[fetch EXCEPT !.stage = "sending", !.attempt = fetch.attempt + 1,
                              !.sent = fetch.sent + 1]}
    /\ sinceLast' = 0 /\ sinceOther' = sinceLast /\ asked' = 0
    /\ UNCHANGED <<slot, cancelled, budget, result>>

Retry(fetch) ==
    /\ fetch.stage = "waiting" /\ fetch.wait = 0
    /\ call' = {[fetch EXCEPT !.stage = "limiter", !.attempt = fetch.attempt + 1,
                              !.backoff = Smaller(2 * fetch.backoff, MaxBackoff)]}
    /\ UNCHANGED <<slot, cancelled, budget, result, sinceLast, sinceOther, asked>>

AbandonRetry(fetch) ==
    /\ fetch.stage = "waiting" /\ Done
    /\ End(fetch, "context", FALSE)
    /\ UNCHANGED <<slot, cancelled, budget, sinceLast, sinceOther, asked>>

-----------------------------------------------------------------------------

Cancel ==
    /\ ~cancelled
    /\ cancelled' = TRUE
    /\ UNCHANGED <<slot, budget, call, result, sinceLast, sinceOther, asked>>

Tick ==
    /\ slot' = Larger(0, slot - 1)
    /\ budget' = IF budget = NoDeadline THEN budget ELSE Larger(0, budget - 1)
    /\ call' = {[fetch EXCEPT !.wait = Larger(0, fetch.wait - 1)] : fetch \in call}
    /\ sinceLast' = Smaller(Interval, sinceLast + 1)
    /\ sinceOther' = Smaller(Interval, sinceOther + 1)
    /\ asked' = Larger(0, asked - 1)
    /\ UNCHANGED <<cancelled, result>>

Step(fetch) ==
    \/ AskLimiter(fetch) \/ WaitOutContext(fetch) \/ ReachSlot(fetch) \/ AbandonSlot(fetch)
    \/ Receive(fetch) \/ Retry(fetch) \/ AbandonRetry(fetch)

Next == NewContext \/ BeginFetch \/ (\E fetch \in call : Step(fetch)) \/ Cancel \/ Tick

Spec == Init /\ [][Next]_vars

\* Time passes, timers fire, and every request is answered or times out.
FairSpec == Spec /\ WF_vars(Tick) /\ WF_vars(\E fetch \in call : Step(fetch))

-----------------------------------------------------------------------------
(* Properties *)

RequestIsSent ==
    \E fetch \in call' :
        /\ fetch.stage = "sending"
        /\ \A before \in call : before.stage # "sending"

\* "A burst of one spaces requests evenly instead of letting a backlog through
\* at once" (upstream.go:150): the program may be late for a slot, but of any
\* three requests of a source the first and the last are the configured rate's
\* interval apart, retries and slots given up on included.
RequestsSpaced == [][RequestIsSent => sinceOther >= Interval]_vars

\* A request is never repeated before the time the upstream asked for is over.
RetryAfterHonoured == [][RequestIsSent => asked = 0]_vars

\* A transient failure is returned only after every retry was made.
RetriesUsed ==
    result.transient => result.sent = MaxRetries + 1

\* An error that tells of the context is only returned once the context is
\* done: the aggregator takes any other for a failure of this address's lookup
\* and would record the end of its time budget on the address.
ContextErrorsMeanDone == result.kind = "context" => Done

\* A call comes to an end, with or without a deadline, although the limiter,
\* the upstream and the retries all make it wait.
FetchEnds == call # {} ~> call = {}
=============================================================================
