---------------------------- MODULE LimitsProofs ----------------------------
(***************************************************************************)
(* Proofs about the limits an upstream is used within: how far apart its   *)
(* requests are and when one is retried, for any rate, retries, waits,     *)
(* statuses and headers (Upstream); and what a quota on its lookups is     *)
(* enough for, with any schedule and dataset (Refresh).                    *)
(***************************************************************************)
EXTENDS Upstream, Refresh, FiniteSetTheorems, WellFoundedInduction, TLAPS

-----------------------------------------------------------------------------
(* Upstream *)

\* A request counts from the moment it is sent, and a retry is only waited for
\* while one is left: a call that is about to send its attempt has sent as many
\* requests as it made attempts before.
RequestsCounted ==
    \A fetch \in call :
        /\ fetch.stage \in {"limiter", "refused", "reserved"} => fetch.sent = fetch.attempt
        /\ fetch.stage \in {"sending", "waiting"} => fetch.sent = fetch.attempt + 1
        /\ fetch.stage = "waiting" => fetch.attempt < MaxRetries

\* The limiter's next free slot is an interval after the last one taken, which
\* was not before the last request but one was sent.  A reserved slot comes
\* before the next free one and an interval after the one taken before it.
SlotsSpaced ==
    /\ slot + sinceOther >= Interval
    /\ (\A fetch \in call : fetch.stage # "reserved") => slot <= Interval
    /\ \A fetch \in call : fetch.stage = "reserved" =>
          /\ fetch.wait <= Interval
          /\ slot <= fetch.wait + Interval
          /\ fetch.wait > 0 => slot = fetch.wait + Interval
          /\ fetch.wait + sinceOther >= Interval
          /\ slot + sinceLast >= Interval

\* The wait before a retry is not over before the time the upstream asked for.
AskedIsWaited ==
    \A fetch \in call :
        IF fetch.stage = "waiting" THEN asked <= fetch.wait ELSE asked = 0

Inv == TypeOK /\ RequestsCounted /\ SlotsSpaced /\ RetriesUsed /\ ContextErrorsMeanDone

\* The headers whose seconds a Duration can hold.
HeadersFit == \A seconds \in Headers : seconds < DurationSpan

LEMMA FetchType ==
    ASSUME TypeOK, NEW fetch \in call
    PROVE  fetch \in Calls /\ call = {fetch}
BY DEF TypeOK

LEMMA ConstantTypes ==
    /\ Interval \in Nat \ {0} /\ InitialBackoff \in Nat \ {0} /\ MaxBackoff \in Nat \ {0}
    /\ MaxRetryAfter \in Nat \ {0} /\ DurationSpan \in Nat \ {0} /\ MaxRetries \in Nat
    /\ InitialBackoff <= MaxBackoff /\ MaxRetryAfter < DurationSpan
    /\ MaxBudget \in Nat /\ Headers \subseteq Nat /\ Statuses \subseteq 100..599
BY UpstreamAssumption

LEMMA InitEstablishesInv == Init => Inv
<1> SUFFICES ASSUME Init PROVE Inv
  OBVIOUS
<1>1. NoResult \in Results BY ConstantTypes DEF NoResult, Results
<1>2. TypeOK
  <2>1. slot \in 0 .. 2 * Interval /\ sinceLast \in 0..Interval /\ sinceOther \in 0..Interval
    BY ConstantTypes DEF Init
  <2>2. cancelled \in BOOLEAN BY DEF Init
  <2>3. budget \in 0..NoDeadline /\ asked \in Nat BY ConstantTypes DEF Init, NoDeadline
  <2> QED BY <1>1, <2>1, <2>2, <2>3 DEF Init, TypeOK
<1>3. RequestsCounted /\ SlotsSpaced BY ConstantTypes DEF Init, RequestsCounted, SlotsSpaced
<1>4. RetriesUsed /\ ContextErrorsMeanDone
  BY DEF Init, NoResult, RetriesUsed, ContextErrorsMeanDone
<1> QED BY <1>2, <1>3, <1>4 DEF Inv

LEMMA KindOfType ==
    ASSUME NEW status
    PROVE  KindOf(status) \in Kinds /\ KindOf(status) # "context"
BY DEF KindOf, Kinds

\* The seconds a header asks for are a time to wait, whatever they wrap to, and
\* are that time when a Duration can hold them.
LEMMA RetryAfterType ==
    ASSUME NEW seconds \in Nat
    PROVE  /\ ParseRetryAfter(seconds) \in Nat
           /\ seconds < DurationSpan => ParseRetryAfter(seconds) = seconds
<1> DEFINE wrapped == (seconds + DurationSpan) % (2 * DurationSpan)
<1>1. DurationSpan \in Nat \ {0} BY ConstantTypes
<1>2. wrapped \in Int BY <1>1
<1>3. seconds < DurationSpan => wrapped = seconds + DurationSpan BY <1>1
<1>4. ParseRetryAfter(seconds) = IF 0 > wrapped - DurationSpan THEN 0 ELSE wrapped - DurationSpan
  BY DEF ParseRetryAfter, Larger
<1> HIDE DEF wrapped
<1> QED BY <1>1, <1>2, <1>3, <1>4

-----------------------------------------------------------------------------
(* Steps of a call *)

LEMMA EndType ==
    ASSUME NEW fetch \in Calls,
           NEW kind \in Kinds \cup {"none", "body", "too large", "context"},
           NEW transient \in BOOLEAN, End(fetch, kind, transient)
    PROVE  /\ call' = {} /\ result' \in Results
           /\ result'.kind = kind
           /\ result'.transient = transient /\ result'.sent = fetch.sent
BY DEF End, Results, Calls

\* A call that ends, its slot taken, given back or never reserved.
LEMMA EndKeepsInv ==
    ASSUME Inv, call' = {}, result' \in Results, RetriesUsed', ContextErrorsMeanDone',
           slot' \in 0..Interval, slot' + sinceOther >= Interval, asked' \in Nat,
           UNCHANGED <<cancelled, budget, sinceLast, sinceOther>>
    PROVE  Inv'
<1>1. slot' \in 0 .. 2 * Interval BY ConstantTypes
<1>2. TypeOK' BY <1>1, ConstantTypes DEF Inv, TypeOK
<1>3. RequestsCounted' BY DEF RequestsCounted
<1>4. SlotsSpaced' BY ConstantTypes DEF SlotsSpaced
<1> QED BY <1>2, <1>3, <1>4 DEF Inv

\* The context is done, and so it stays.
LEMMA ContextEndKeepsInv ==
    ASSUME Inv, NEW fetch \in call, End(fetch, "context", FALSE), Done,
           slot' \in 0..Interval, slot' + sinceOther >= Interval,
           UNCHANGED <<cancelled, budget, sinceLast, sinceOther, asked>>
    PROVE  Inv'
<1>1. fetch \in Calls BY FetchType DEF Inv
<1>2. call' = {} /\ result' \in Results /\ ~result'.transient
  BY <1>1, EndType
<1>3. RetriesUsed' BY <1>2 DEF RetriesUsed
<1>4. ContextErrorsMeanDone' BY DEF ContextErrorsMeanDone, Done
<1>5. asked' \in Nat BY DEF Inv, TypeOK
<1> QED BY <1>2, <1>3, <1>4, <1>5, EndKeepsInv

\* A call that goes on, at another stage.
LEMMA CallKeepsInv ==
    ASSUME Inv, NEW next \in Calls, call' = {next},
           slot' \in 0 .. 2 * Interval, asked' \in Nat,
           sinceLast' \in 0..Interval, sinceOther' \in 0..Interval,
           RequestsCounted', SlotsSpaced',
           UNCHANGED <<cancelled, budget, result>>
    PROVE  Inv'
<1>1. TypeOK' BY ConstantTypes DEF Inv, TypeOK
<1>2. RetriesUsed' BY DEF Inv, RetriesUsed
<1>3. ContextErrorsMeanDone' BY DEF Inv, ContextErrorsMeanDone, Done
<1> QED BY <1>1, <1>2, <1>3 DEF Inv

\* A request is sent at a slot that is free now.
LEMMA SendKeepsInv ==
    ASSUME Inv, NEW fetch \in call, Send(fetch),
           fetch.stage \in {"limiter", "reserved"},
           slot' \in 0..Interval, slot' + sinceLast >= Interval,
           UNCHANGED <<cancelled, budget, result>>
    PROVE  Inv'
<1> DEFINE next == [fetch EXCEPT !.stage = "sending", !.sent = fetch.sent + 1]
<1>1. fetch \in Calls BY FetchType DEF Inv
<1>2. fetch.sent = fetch.attempt BY DEF Inv, RequestsCounted
<1>3. next \in Calls
  <2>1. fetch.sent + 1 \in 0..MaxRetries + 1 BY <1>1, <1>2, ConstantTypes DEF Calls
  <2> QED BY <1>1, <2>1 DEF Calls
<1>4. next.stage = "sending" /\ next.attempt = fetch.attempt /\ next.sent = fetch.attempt + 1
  BY <1>1, <1>2 DEF Calls
<1>5. call' = {next} /\ sinceLast' = 0 /\ sinceOther' = sinceLast /\ asked' = 0 BY DEF Send
<1> HIDE DEF next
<1>6. RequestsCounted' BY <1>4, <1>5 DEF RequestsCounted
<1>7. SlotsSpaced' BY <1>4, <1>5 DEF SlotsSpaced
<1>8. sinceLast \in 0..Interval BY DEF Inv, TypeOK
<1> QED BY <1>3, <1>5, <1>6, <1>7, <1>8, CallKeepsInv, ConstantTypes

LEMMA AskLimiterKeepsInv ==
    ASSUME Inv, NEW fetch \in call, AskLimiter(fetch)
    PROVE  Inv'
<1>1. fetch \in Calls /\ call = {fetch} /\ fetch.stage = "limiter"
  BY FetchType DEF Inv, AskLimiter
<1>2. /\ slot \in 0..Interval /\ slot + sinceOther >= Interval
      /\ sinceLast \in 0..Interval /\ sinceOther \in 0..Interval
  BY <1>1, ConstantTypes DEF Inv, TypeOK, SlotsSpaced
<1>3. fetch.sent = fetch.attempt BY <1>1 DEF Inv, RequestsCounted
<1>4. asked \in Nat BY DEF Inv, TypeOK
<1>5. CASE /\ Done /\ End(fetch, "context", FALSE)
           /\ UNCHANGED <<slot, cancelled, budget, sinceLast, sinceOther, asked>>
  BY <1>2, <1>5, ContextEndKeepsInv
<1>6. CASE /\ call' = {[fetch EXCEPT !.stage = "refused"]}
           /\ UNCHANGED <<slot, cancelled, budget, result, sinceLast, sinceOther, asked>>
  <2> DEFINE next == [fetch EXCEPT !.stage = "refused"]
  <2>1. next \in Calls /\ next.stage = "refused"
        /\ next.sent = fetch.sent /\ next.attempt = fetch.attempt
    BY <1>1 DEF Calls
  <2> HIDE DEF next
  <2>2. call' = {next} BY <1>6 DEF next
  <2>3. RequestsCounted' BY <1>3, <2>1, <2>2 DEF RequestsCounted
  <2>4. SlotsSpaced' BY <1>2, <1>6, <2>1, <2>2 DEF SlotsSpaced
  <2> QED BY <1>2, <1>4, <1>6, <2>1, <2>2, <2>3, <2>4, CallKeepsInv, ConstantTypes
<1>7. CASE /\ ~Done /\ slot = 0 /\ slot' = Interval /\ Send(fetch)
           /\ UNCHANGED <<cancelled, budget, result>>
  BY <1>1, <1>2, <1>7, SendKeepsInv, ConstantTypes
<1>8. CASE /\ ~Done /\ slot > 0 /\ slot' = slot + Interval
           /\ call' = {[fetch EXCEPT !.stage = "reserved", !.wait = slot]}
           /\ UNCHANGED <<cancelled, budget, result, sinceLast, sinceOther, asked>>
  <2> DEFINE next == [fetch EXCEPT !.stage = "reserved", !.wait = slot]
  <2>6. slot \in Nat BY <1>2, ConstantTypes
  <2>1. next \in Calls /\ next.stage = "reserved" /\ next.wait = slot
        /\ next.sent = fetch.sent /\ next.attempt = fetch.attempt
    BY <1>1, <2>6 DEF Calls
  <2> HIDE DEF next
  <2>2. call' = {next} BY <1>8 DEF next
  <2>3. RequestsCounted' BY <1>3, <2>1, <2>2 DEF RequestsCounted
  <2>4. SlotsSpaced' BY <1>2, <1>8, <2>1, <2>2, ConstantTypes DEF SlotsSpaced
  <2>5. slot' \in 0 .. 2 * Interval BY <1>2, <1>8, ConstantTypes
  <2> QED BY <1>2, <1>4, <1>8, <2>1, <2>2, <2>3, <2>4, <2>5, CallKeepsInv
<1> QED BY <1>5, <1>6, <1>7, <1>8 DEF AskLimiter

\* A retry waits for what the upstream asked for, or backs off.
LEMMA JudgeKeepsInv ==
    ASSUME Inv, NEW fetch \in call, fetch.stage = "sending",
           NEW kind \in Kinds, NEW isRetryable \in BOOLEAN, NEW retryAfter \in Nat,
           Judge(fetch, kind, isRetryable, retryAfter), asked' \in Nat,
           UNCHANGED <<slot, cancelled, budget, sinceLast, sinceOther>>
    PROVE  Inv'
<1>1. fetch \in Calls /\ call = {fetch} BY FetchType DEF Inv
<1>2. /\ slot \in 0..Interval /\ slot + sinceOther >= Interval
      /\ sinceLast \in 0..Interval /\ sinceOther \in 0..Interval
  BY <1>1, ConstantTypes DEF Inv, TypeOK, SlotsSpaced
<1>3. fetch.sent = fetch.attempt + 1 BY DEF Inv, RequestsCounted
<1>4. kind # "context" BY DEF Kinds
<1>5. CASE /\ ~isRetryable \/ fetch.attempt = MaxRetries \/ retryAfter > MaxRetryAfter
           /\ End(fetch, kind, isRetryable /\ retryAfter <= MaxRetryAfter)
  <2> DEFINE transient == isRetryable /\ retryAfter <= MaxRetryAfter
  <2>1. transient \in BOOLEAN OBVIOUS
  <2>2. transient => fetch.sent = MaxRetries + 1 BY <1>3, <1>5, ConstantTypes
  <2>3. End(fetch, kind, transient) BY <1>5
  <2> HIDE DEF transient
  <2>4. kind \in Kinds \cup {"none", "body", "too large", "context"} OBVIOUS
  <2>5. /\ call' = {} /\ result' \in Results /\ result'.kind = kind
        /\ result'.transient = transient /\ result'.sent = fetch.sent
    BY <1>1, <2>1, <2>3, <2>4, EndType
  <2>6. RetriesUsed' BY <2>2, <2>5 DEF RetriesUsed
  <2>7. ContextErrorsMeanDone' BY <1>4, <2>5 DEF ContextErrorsMeanDone
  <2> QED BY <1>2, <2>5, <2>6, <2>7, EndKeepsInv
<1>6. ASSUME fetch.attempt # MaxRetries, NEW wait \in Nat, result' = result,
             call' = {[fetch EXCEPT !.stage = "waiting", !.wait = wait]}
      PROVE  Inv'
  <2> DEFINE next == [fetch EXCEPT !.stage = "waiting", !.wait = wait]
  <2>1. next \in Calls /\ next.stage = "waiting"
        /\ next.sent = fetch.sent /\ next.attempt = fetch.attempt
    BY <1>1 DEF Calls
  <2> HIDE DEF next
  <2>2. call' = {next} BY <1>6 DEF next
  <2>3. fetch.attempt < MaxRetries BY <1>1, <1>6, ConstantTypes DEF Calls
  <2>4. RequestsCounted' BY <1>3, <2>1, <2>2, <2>3 DEF RequestsCounted
  <2>5. SlotsSpaced' BY <1>2, <2>1, <2>2 DEF SlotsSpaced
  <2> QED BY <1>2, <1>6, <2>1, <2>2, <2>4, <2>5, CallKeepsInv, ConstantTypes
<1>7. fetch.backoff .. 2 * fetch.backoff - 1 \subseteq Nat
  BY <1>1, ConstantTypes DEF Calls
<1> QED BY <1>5, <1>6, <1>7 DEF Judge

LEMMA ReceiveKeepsInv ==
    ASSUME Inv, NEW fetch \in call, Receive(fetch)
    PROVE  Inv'
<1>1. fetch \in Calls /\ call = {fetch} /\ fetch.stage = "sending"
      /\ UNCHANGED <<slot, cancelled, budget, sinceLast, sinceOther>>
  BY FetchType DEF Inv, Receive
<1>2. slot \in 0..Interval /\ slot + sinceOther >= Interval
  BY <1>1, ConstantTypes DEF Inv, TypeOK, SlotsSpaced
<1>3. asked \in Nat BY DEF Inv, TypeOK
<1>4. ASSUME NEW kind \in {"body", "too large"}, End(fetch, kind, FALSE), UNCHANGED asked
      PROVE  Inv'
  <2>1. kind \in Kinds \cup {"none", "body", "too large", "context"} OBVIOUS
  <2>2. call' = {} /\ result' \in Results /\ result'.kind = kind /\ result'.transient = FALSE
    BY <1>1, <1>4, <2>1, EndType
  <2>3. result'.kind # "context" BY <2>2
  <2>4. RetriesUsed' /\ ContextErrorsMeanDone'
    BY <2>2, <2>3 DEF RetriesUsed, ContextErrorsMeanDone
  <2> QED BY <1>1, <1>2, <1>3, <1>4, <2>2, <2>4, EndKeepsInv
<1>5. CASE Done /\ End(fetch, "context", FALSE) /\ UNCHANGED asked
  BY <1>1, <1>2, <1>5, ContextEndKeepsInv
<1>6. ASSUME NEW isDropped \in BOOLEAN, Judge(fetch, "unavailable", isDropped, 0),
             UNCHANGED asked
      PROVE  Inv'
  <2>1. "unavailable" \in Kinds BY DEF Kinds
  <2> QED BY <1>1, <1>3, <1>6, <2>1, JudgeKeepsInv
<1>7. ASSUME NEW status \in Statuses, NEW seconds \in Headers, asked' = seconds,
             Judge(fetch, KindOf(status), IsRetryableStatus(status), ParseRetryAfter(seconds))
      PROVE  Inv'
  <2>1. seconds \in Nat BY ConstantTypes
  <2>2. KindOf(status) \in Kinds /\ ParseRetryAfter(seconds) \in Nat
    BY <2>1, KindOfType, RetryAfterType
  <2>3. IsRetryableStatus(status) \in BOOLEAN BY DEF IsRetryableStatus
  <2> QED BY <1>1, <1>7, <2>1, <2>2, <2>3, JudgeKeepsInv
<1> QED BY <1>4, <1>5, <1>6, <1>7 DEF Receive

LEMMA RetryKeepsInv ==
    ASSUME Inv, NEW fetch \in call, Retry(fetch)
    PROVE  Inv'
<1> DEFINE next == [fetch EXCEPT !.stage = "limiter", !.attempt = fetch.attempt + 1,
                                 !.backoff = Smaller(2 * fetch.backoff, MaxBackoff)]
<1>1. fetch \in Calls /\ call = {fetch} /\ fetch.stage = "waiting"
      /\ UNCHANGED <<slot, cancelled, budget, result, sinceLast, sinceOther, asked>>
  BY FetchType DEF Inv, Retry
<1>2. /\ slot \in 0..Interval /\ slot + sinceOther >= Interval
      /\ sinceLast \in 0..Interval /\ sinceOther \in 0..Interval /\ asked \in Nat
  BY <1>1, ConstantTypes DEF Inv, TypeOK, SlotsSpaced
<1>3. fetch.sent = fetch.attempt + 1 /\ fetch.attempt < MaxRetries
  BY <1>1 DEF Inv, RequestsCounted
<1>4. fetch.attempt + 1 \in 0..MaxRetries BY <1>1, <1>3, ConstantTypes DEF Calls
<1>5. Smaller(2 * fetch.backoff, MaxBackoff) \in InitialBackoff..MaxBackoff
  BY <1>1, ConstantTypes DEF Calls, Smaller
<1>6. next \in Calls /\ next.stage = "limiter"
      /\ next.sent = fetch.sent /\ next.attempt = fetch.attempt + 1
  BY <1>1, <1>4, <1>5 DEF Calls
<1>7. call' = {next} BY DEF Retry
<1> HIDE DEF next
<1>8. RequestsCounted' BY <1>3, <1>6, <1>7 DEF RequestsCounted
<1>9. SlotsSpaced' BY <1>1, <1>2, <1>6, <1>7 DEF SlotsSpaced
<1>10. slot' \in 0 .. 2 * Interval BY <1>1, <1>2, ConstantTypes
<1> QED BY <1>1, <1>2, <1>6, <1>7, <1>8, <1>9, <1>10, CallKeepsInv

LEMMA StepKeepsInv ==
    ASSUME Inv, NEW fetch \in call, Step(fetch)
    PROVE  Inv'
<1>1. fetch \in Calls /\ call = {fetch} BY FetchType DEF Inv
<1>2. /\ slot \in 0 .. 2 * Interval /\ slot + sinceOther >= Interval
      /\ sinceLast \in 0..Interval /\ sinceOther \in 0..Interval
      /\ fetch.stage # "reserved" => slot <= Interval
      /\ fetch.stage = "reserved" =>
            /\ fetch.wait <= Interval /\ slot <= fetch.wait + Interval
            /\ fetch.wait > 0 => slot = fetch.wait + Interval
            /\ fetch.wait + sinceOther >= Interval /\ slot + sinceLast >= Interval
  BY <1>1 DEF Inv, TypeOK, SlotsSpaced
<1>3. CASE AskLimiter(fetch) BY <1>3, AskLimiterKeepsInv
<1>4. CASE WaitOutContext(fetch) \/ AbandonRetry(fetch)
  <2>1. /\ End(fetch, "context", FALSE) /\ Done /\ fetch.stage # "reserved"
        /\ UNCHANGED <<slot, cancelled, budget, sinceLast, sinceOther, asked>>
    BY <1>4 DEF WaitOutContext, AbandonRetry
  <2>2. slot' \in 0..Interval /\ slot' + sinceOther >= Interval
    BY <1>2, <2>1, ConstantTypes
  <2> QED BY <2>1, <2>2, ContextEndKeepsInv
<1>5. CASE ReachSlot(fetch)
  <2>1. fetch.stage = "reserved" /\ fetch.wait = 0 /\ Send(fetch)
        /\ UNCHANGED <<slot, cancelled, budget, result>>
    BY <1>5 DEF ReachSlot
  <2>2. slot' \in 0..Interval /\ slot' + sinceLast >= Interval
    BY <1>2, <2>1, ConstantTypes
  <2> QED BY <2>1, <2>2, SendKeepsInv
<1>6. CASE AbandonSlot(fetch)
  <2>1. /\ End(fetch, "context", FALSE) /\ Done /\ fetch.stage = "reserved"
        /\ slot' = IF slot >= Interval THEN slot - Interval ELSE slot
        /\ UNCHANGED <<cancelled, budget, sinceLast, sinceOther, asked>>
    BY <1>6 DEF AbandonSlot
  <2>2. fetch.wait \in Nat BY <1>1 DEF Calls
  <2>3. slot' \in 0..Interval /\ slot' + sinceOther >= Interval
    BY <1>2, <2>1, <2>2, ConstantTypes
  <2> QED BY <2>1, <2>3, ContextEndKeepsInv
<1>7. CASE Receive(fetch) BY <1>7, ReceiveKeepsInv
<1>8. CASE Retry(fetch) BY <1>8, RetryKeepsInv
<1> QED BY <1>3, <1>4, <1>5, <1>6, <1>7, <1>8 DEF Step

-----------------------------------------------------------------------------
(* The other steps *)

\* Ticked is what a tick leaves of a call.
Ticked(fetch) == [fetch EXCEPT !.wait = Larger(0, fetch.wait - 1)]

LEMMA TickedType ==
    ASSUME NEW fetch \in Calls
    PROVE  /\ Ticked(fetch) \in Calls
           /\ Ticked(fetch).stage = fetch.stage /\ Ticked(fetch).attempt = fetch.attempt
           /\ Ticked(fetch).sent = fetch.sent
           /\ Ticked(fetch).wait = IF fetch.wait = 0 THEN 0 ELSE fetch.wait - 1
<1>1. Larger(0, fetch.wait - 1) = IF fetch.wait = 0 THEN 0 ELSE fetch.wait - 1
  BY DEF Calls, Larger
<1>2. Larger(0, fetch.wait - 1) \in Nat BY <1>1 DEF Calls
<1> QED BY <1>1, <1>2 DEF Calls, Ticked

LEMMA TickKeepsInv ==
    ASSUME Inv, Tick
    PROVE  Inv'
<1>1. /\ slot \in 0 .. 2 * Interval /\ budget \in 0..NoDeadline /\ asked \in Nat
      /\ sinceLast \in 0..Interval /\ sinceOther \in 0..Interval
  BY DEF Inv, TypeOK
<1>2. /\ slot' = IF slot = 0 THEN 0 ELSE slot - 1
      /\ budget' = IF budget \in {0, NoDeadline} THEN budget ELSE budget - 1
      /\ asked' = IF asked = 0 THEN 0 ELSE asked - 1
      /\ sinceLast' = IF sinceLast = Interval THEN sinceLast ELSE sinceLast + 1
      /\ sinceOther' = IF sinceOther = Interval THEN sinceOther ELSE sinceOther + 1
  BY <1>1, ConstantTypes DEF Tick, Larger, Smaller, NoDeadline
<1>3. cancelled' = cancelled /\ result' = result BY DEF Tick
<1>4. call' = {Ticked(fetch) : fetch \in call} BY DEF Tick, Ticked
<1>5. \A next \in call' : \E fetch \in call :
         /\ next = Ticked(fetch) /\ fetch \in Calls
         /\ next \in Calls /\ next.stage = fetch.stage /\ next.attempt = fetch.attempt
         /\ next.sent = fetch.sent
         /\ next.wait = IF fetch.wait = 0 THEN 0 ELSE fetch.wait - 1
  BY <1>4, TickedType DEF Inv, TypeOK
<1>6. TypeOK'
  <2>1. /\ slot' \in 0 .. 2 * Interval /\ budget' \in 0..NoDeadline /\ asked' \in Nat
        /\ sinceLast' \in 0..Interval /\ sinceOther' \in 0..Interval
    BY <1>1, <1>2, ConstantTypes DEF NoDeadline
  <2>2. call' = {} \/ \E next \in call' : call' = {next} BY <1>4 DEF Inv, TypeOK
  <2>3. \A next \in call' : next \in Calls BY <1>5
  <2>4. cancelled' \in BOOLEAN BY <1>3 DEF Inv, TypeOK
  <2> QED BY <1>3, <2>1, <2>2, <2>3, <2>4 DEF Inv, TypeOK
<1>7. RequestsCounted' BY <1>5 DEF Inv, RequestsCounted
<1>8. SlotsSpaced'
  <2>1. slot' + sinceOther' >= Interval BY <1>1, <1>2, ConstantTypes DEF Inv, SlotsSpaced
  <2>2. ASSUME \A next \in call' : next.stage # "reserved" PROVE slot' <= Interval
    <3>1. \A fetch \in call : fetch.stage # "reserved"
      BY <1>4, <2>2, TickedType DEF Inv, TypeOK
    <3> QED BY <1>1, <1>2, <3>1, ConstantTypes DEF Inv, SlotsSpaced
  <2>3. ASSUME NEW next \in call', next.stage = "reserved"
        PROVE  /\ next.wait <= Interval
               /\ slot' <= next.wait + Interval
               /\ next.wait > 0 => slot' = next.wait + Interval
               /\ next.wait + sinceOther' >= Interval
               /\ slot' + sinceLast' >= Interval
    <3>1. PICK fetch \in call : /\ fetch \in Calls /\ next.stage = fetch.stage
                                /\ next.wait = IF fetch.wait = 0 THEN 0 ELSE fetch.wait - 1
      BY <1>5, <2>3
    <3>2. /\ fetch.wait <= Interval
          /\ slot <= fetch.wait + Interval
          /\ fetch.wait > 0 => slot = fetch.wait + Interval
          /\ fetch.wait + sinceOther >= Interval
          /\ slot + sinceLast >= Interval
      BY <2>3, <3>1 DEF Inv, SlotsSpaced
    <3>3. fetch.wait \in Nat BY <3>1 DEF Calls
    <3> QED BY <1>1, <1>2, <3>1, <3>2, <3>3, ConstantTypes
  <2> QED BY <2>1, <2>2, <2>3 DEF SlotsSpaced
<1>9. RetriesUsed' BY <1>3 DEF Inv, RetriesUsed
<1>10. ContextErrorsMeanDone'
  <2>1. Done => Done' BY <1>2, <1>3 DEF Done
  <2> QED BY <1>3, <2>1 DEF Inv, ContextErrorsMeanDone
<1> QED BY <1>6, <1>7, <1>8, <1>9, <1>10 DEF Inv

LEMMA NextKeepsInv ==
    ASSUME Inv, [Next]_vars
    PROVE  Inv'
<1>1. NoResult \in Results /\ NoResult.kind # "context" /\ ~NoResult.transient
  BY ConstantTypes DEF NoResult, Results
<1>2. CASE NewContext
  <2>1. budget' \in 0..NoDeadline BY <1>2, ConstantTypes DEF NewContext, NoDeadline
  <2>2. cancelled' \in BOOLEAN BY <1>2 DEF NewContext
  <2>3. TypeOK' BY <1>1, <1>2, <2>1, <2>2 DEF NewContext, Inv, TypeOK
  <2>4. RequestsCounted' /\ SlotsSpaced'
    BY <1>2 DEF NewContext, Inv, RequestsCounted, SlotsSpaced
  <2>5. RetriesUsed' /\ ContextErrorsMeanDone'
    BY <1>1, <1>2 DEF NewContext, RetriesUsed, ContextErrorsMeanDone
  <2> QED BY <2>3, <2>4, <2>5 DEF Inv
<1>3. CASE BeginFetch
  <2> DEFINE begun == [stage |-> "limiter", attempt |-> 0, backoff |-> InitialBackoff,
                       wait |-> 0, sent |-> 0]
  <2>1. begun \in Calls
    <3>1. /\ 0 \in 0..MaxRetries /\ InitialBackoff \in InitialBackoff..MaxBackoff
          /\ 0 \in 0..MaxRetries + 1
      BY ConstantTypes
    <3> QED BY <3>1 DEF Calls
  <2>2. begun.stage = "limiter" /\ begun.sent = begun.attempt OBVIOUS
  <2>3. call' = {begun} /\ result' = NoResult /\ asked' = 0
        /\ UNCHANGED <<slot, cancelled, budget, sinceLast, sinceOther>>
    BY <1>3 DEF BeginFetch
  <2> HIDE DEF begun
  <2>4. TypeOK' BY <1>1, <2>1, <2>3 DEF Inv, TypeOK
  <2>5. call = {} BY <1>3 DEF BeginFetch
  <2>6. RequestsCounted' BY <2>2, <2>3 DEF RequestsCounted
  <2>7. SlotsSpaced' BY <2>2, <2>3, <2>5 DEF Inv, SlotsSpaced
  <2>8. RetriesUsed' /\ ContextErrorsMeanDone'
    BY <1>1, <2>3 DEF RetriesUsed, ContextErrorsMeanDone
  <2> QED BY <2>4, <2>6, <2>7, <2>8 DEF Inv
<1>4. ASSUME NEW fetch \in call, Step(fetch) PROVE Inv'
  BY <1>4, StepKeepsInv
<1>5. CASE Cancel
  <2>1. cancelled' \in BOOLEAN BY <1>5 DEF Cancel
  <2>2. TypeOK' BY <1>5, <2>1 DEF Cancel, Inv, TypeOK
  <2>3. RequestsCounted' /\ SlotsSpaced'
    BY <1>5 DEF Cancel, Inv, RequestsCounted, SlotsSpaced
  <2>4. RetriesUsed' /\ ContextErrorsMeanDone'
    BY <1>5 DEF Cancel, Inv, RetriesUsed, ContextErrorsMeanDone, Done
  <2> QED BY <2>2, <2>3, <2>4 DEF Inv
<1>6. CASE Tick BY <1>6, TickKeepsInv
<1>7. CASE UNCHANGED vars
  <2>1. TypeOK' BY <1>7 DEF vars, Inv, TypeOK
  <2>2. RequestsCounted' /\ SlotsSpaced' BY <1>7 DEF vars, Inv, RequestsCounted, SlotsSpaced
  <2>3. RetriesUsed' /\ ContextErrorsMeanDone'
    BY <1>7 DEF vars, Inv, RetriesUsed, ContextErrorsMeanDone, Done
  <2> QED BY <2>1, <2>2, <2>3 DEF Inv
<1> QED BY <1>2, <1>3, <1>4, <1>5, <1>6, <1>7 DEF Next

\* What each fetch keeps in every order of the waits and answers of all of them.
THEOREM Invariance == Spec => []Inv
<1>1. Inv /\ [Next]_vars => Inv' BY NextKeepsInv
<1> QED BY InitEstablishesInv, <1>1, PTL DEF Spec

\* Every wait, attempt, backoff and count stays within its bounds; the limiter
\* never owes more than two intervals.
THEOREM TypeCorrect == Spec => []TypeOK
BY Invariance, PTL DEF Inv

\* Fetch returns a transient failure only after it made every retry.
THEOREM EveryRetryIsMade == Spec => []RetriesUsed
BY Invariance, PTL DEF Inv

\* An error of the context is returned only when the context is done, however
\* the limiter, the requests and the waits were interrupted.
THEOREM ContextErrorsAreTrue == Spec => []ContextErrorsMeanDone
BY Invariance, PTL DEF Inv

-----------------------------------------------------------------------------
(* When a request may be sent *)

\* Requests are only sent by a call that has, or just took, a slot of its own.
LEMMA RequestsTakeSlots ==
    ASSUME Inv, [Next]_vars, RequestIsSent
    PROVE  \E fetch \in call :
              /\ Send(fetch)
              /\ \/ fetch.stage = "limiter" /\ slot = 0
                 \/ fetch.stage = "reserved" /\ fetch.wait = 0
<1>1. PICK next \in call' : next.stage = "sending" /\ \A fetch \in call : fetch.stage # "sending"
  BY DEF RequestIsSent
<1>2. \A fetch \in call : \A stage : [fetch EXCEPT !.stage = stage].stage = stage
  BY DEF Inv, TypeOK, Calls
<1>3. CASE NewContext \/ Cancel \/ UNCHANGED vars
  BY <1>1, <1>3 DEF NewContext, Cancel, vars
<1>4. CASE BeginFetch BY <1>1, <1>4 DEF BeginFetch
<1>5. CASE Tick
  <2>1. PICK fetch \in call : next = Ticked(fetch) BY <1>1, <1>5 DEF Tick, Ticked
  <2> QED BY <1>1, <2>1, TickedType DEF Inv, TypeOK
<1>6. ASSUME NEW fetch \in call, Step(fetch)
      PROVE  /\ Send(fetch)
             /\ \/ fetch.stage = "limiter" /\ slot = 0
                \/ fetch.stage = "reserved" /\ fetch.wait = 0
  <2>1. fetch \in Calls /\ call = {fetch} BY FetchType DEF Inv
  <2>2. CASE WaitOutContext(fetch) \/ AbandonSlot(fetch) \/ AbandonRetry(fetch)
    BY <1>1, <2>2 DEF WaitOutContext, AbandonSlot, AbandonRetry, End
  <2>3. CASE Receive(fetch) BY <1>1, <2>3 DEF Receive
  <2>4. CASE Retry(fetch) BY <1>1, <2>1, <2>4 DEF Retry, Calls
  <2>5. CASE ReachSlot(fetch) BY <2>5 DEF ReachSlot
  <2>6. CASE AskLimiter(fetch)
    <3>1. ~End(fetch, "context", FALSE) BY <1>1 DEF End
    <3>2. call' # {[fetch EXCEPT !.stage = "refused"]} BY <1>1, <1>2
    <3>3. call' # {[fetch EXCEPT !.stage = "reserved", !.wait = slot]}
      BY <1>1, <2>1 DEF Calls
    <3> QED BY <2>6, <3>1, <3>2, <3>3 DEF AskLimiter
  <2> QED BY <1>6, <2>2, <2>3, <2>4, <2>5, <2>6 DEF Step
<1> QED BY <1>3, <1>4, <1>5, <1>6 DEF Next

\* Of any three requests of a source the first and the last are an interval
\* apart, whatever fails, is retried, or gives up its slot in between.
THEOREM RequestsAreSpaced == Spec => RequestsSpaced
<1>1. ASSUME Inv, [Next]_vars, RequestIsSent PROVE sinceOther >= Interval
  <2>1. PICK fetch \in call : \/ fetch.stage = "limiter" /\ slot = 0
                              \/ fetch.stage = "reserved" /\ fetch.wait = 0
    BY <1>1, RequestsTakeSlots
  <2>2. /\ sinceOther \in 0..Interval /\ slot + sinceOther >= Interval
        /\ fetch.stage = "reserved" => fetch.wait + sinceOther >= Interval
    BY <1>1 DEF Inv, TypeOK, SlotsSpaced
  <2> QED BY <2>1, <2>2, ConstantTypes
<1>2. Inv /\ [Next]_vars => [RequestIsSent => sinceOther >= Interval]_vars
  BY <1>1
<1> QED BY <1>2, Invariance, PTL DEF Spec, RequestsSpaced

LEMMA NextKeepsAsked ==
    ASSUME HeadersFit, Inv, AskedIsWaited, [Next]_vars
    PROVE  AskedIsWaited'
<1>1. asked \in Nat BY DEF Inv, TypeOK
<1>2. ASSUME NEW next, call' = {next},
             IF next.stage = "waiting" THEN asked' <= next.wait ELSE asked' = 0
      PROVE  AskedIsWaited'
  BY <1>2 DEF AskedIsWaited
<1>3. CASE call' = {} BY <1>3 DEF AskedIsWaited
<1>4. CASE NewContext \/ Cancel \/ UNCHANGED vars
  BY <1>4 DEF NewContext, Cancel, vars, AskedIsWaited
<1>5. CASE BeginFetch BY <1>5 DEF BeginFetch, AskedIsWaited
<1>6. CASE Tick
  <2>1. asked' = IF asked = 0 THEN 0 ELSE asked - 1 BY <1>1, <1>6 DEF Tick, Larger
  <2>2. ASSUME NEW next \in call'
        PROVE  IF next.stage = "waiting" THEN asked' <= next.wait ELSE asked' = 0
    <3>1. PICK fetch \in call : next = Ticked(fetch) BY <1>6 DEF Tick, Ticked
    <3>2. /\ fetch \in Calls
          /\ next.stage = fetch.stage
          /\ next.wait = IF fetch.wait = 0 THEN 0 ELSE fetch.wait - 1
      BY <3>1, TickedType DEF Inv, TypeOK
    <3>3. IF fetch.stage = "waiting" THEN asked <= fetch.wait ELSE asked = 0
      BY DEF AskedIsWaited
    <3>4. fetch.wait \in Nat BY <3>2 DEF Calls
    <3> QED BY <1>1, <2>1, <3>2, <3>3, <3>4
  <2> QED BY <2>2 DEF AskedIsWaited
<1>7. ASSUME NEW fetch \in call, Step(fetch) PROVE AskedIsWaited'
  <2>1. fetch \in Calls /\ call = {fetch} BY FetchType DEF Inv
  <2>2. IF fetch.stage = "waiting" THEN asked <= fetch.wait ELSE asked = 0
    BY DEF AskedIsWaited
  <2>3. CASE Send(fetch)
    <3> DEFINE next == [fetch EXCEPT !.stage = "sending", !.sent = fetch.sent + 1]
    <3>1. call' = {next} /\ asked' = 0 BY <2>3 DEF Send
    <3>2. next.stage = "sending" BY <2>1 DEF Calls
    <3> HIDE DEF next
    <3> QED BY <1>2, <3>1, <3>2
  <2>4. CASE AskLimiter(fetch)
    <3>1. CASE End(fetch, "context", FALSE) BY <1>3, <3>1 DEF End
    <3>2. CASE call' = {[fetch EXCEPT !.stage = "refused"]} /\ UNCHANGED asked
      BY <1>2, <2>1, <2>2, <2>4, <3>2 DEF AskLimiter, Calls
    <3>3. CASE call' = {[fetch EXCEPT !.stage = "reserved", !.wait = slot]} /\ UNCHANGED asked
      BY <1>2, <2>1, <2>2, <2>4, <3>3 DEF AskLimiter, Calls
    <3> QED BY <2>3, <2>4, <3>1, <3>2, <3>3 DEF AskLimiter
  <2>5. CASE WaitOutContext(fetch) \/ AbandonSlot(fetch) \/ AbandonRetry(fetch)
    BY <1>3, <2>5 DEF WaitOutContext, AbandonSlot, AbandonRetry, End
  <2>6. CASE ReachSlot(fetch) BY <2>3, <2>6 DEF ReachSlot
  <2>7. CASE Retry(fetch)
    <3>1. fetch.stage = "waiting" /\ fetch.wait = 0 /\ asked' = asked BY <2>7 DEF Retry
    <3>2. asked' = 0 BY <1>1, <2>2, <3>1
    <3> QED BY <1>2, <2>1, <2>7, <3>2 DEF Retry, Calls
  <2>8. CASE Receive(fetch)
    <3>1. asked = 0 BY <2>2, <2>8 DEF Receive
    <3>2. ASSUME NEW kind, NEW isRetryable, NEW retryAfter \in Nat,
                 Judge(fetch, kind, isRetryable, retryAfter),
                 asked' = retryAfter
          PROVE  AskedIsWaited'
      <4>1. CASE End(fetch, kind, isRetryable /\ retryAfter <= MaxRetryAfter)
        BY <1>3, <4>1 DEF End
      <4>2. ASSUME NEW wait \in Nat, wait >= retryAfter,
                   call' = {[fetch EXCEPT !.stage = "waiting", !.wait = wait]}
            PROVE  AskedIsWaited'
        <5> DEFINE next == [fetch EXCEPT !.stage = "waiting", !.wait = wait]
        <5>1. next.stage = "waiting" /\ next.wait = wait BY <2>1 DEF Calls
        <5>2. call' = {next} BY <4>2
        <5> HIDE DEF next
        <5> QED BY <1>2, <3>2, <4>2, <5>1, <5>2
      <4>3. \A wait \in fetch.backoff .. 2 * fetch.backoff - 1 : wait \in Nat /\ wait >= 0
        BY <2>1, ConstantTypes DEF Calls
      <4>4. \/ End(fetch, kind, isRetryable /\ retryAfter <= MaxRetryAfter)
            \/ \E wait \in IF retryAfter > 0 THEN {retryAfter}
                         ELSE fetch.backoff .. 2 * fetch.backoff - 1 :
                   call' = {[fetch EXCEPT !.stage = "waiting", !.wait = wait]}
        BY <3>2, Zenon DEF Judge
      <4>5. \A wait \in IF retryAfter > 0 THEN {retryAfter}
                       ELSE fetch.backoff .. 2 * fetch.backoff - 1 :
               wait \in Nat /\ wait >= retryAfter
        <5>1. CASE retryAfter > 0 BY <3>2, <5>1
        <5>2. CASE retryAfter = 0 BY <4>3, <5>2
        <5> QED BY <3>2, <5>1, <5>2
      <4> QED BY <4>1, <4>2, <4>4, <4>5
    <3>3. ASSUME NEW seconds \in Headers
          PROVE  seconds \in Nat /\ ParseRetryAfter(seconds) = seconds
      BY ConstantTypes, RetryAfterType DEF HeadersFit
    <3>4. ASSUME NEW kind, NEW transient, End(fetch, kind, transient) PROVE AskedIsWaited'
      BY <1>3, <3>4 DEF End
    <3>5. ASSUME NEW isDropped \in BOOLEAN, Judge(fetch, "unavailable", isDropped, 0),
                 UNCHANGED asked
          PROVE  AskedIsWaited'
      BY <3>1, <3>2, <3>5
    <3>6. ASSUME NEW status \in Statuses, NEW seconds \in Headers, asked' = seconds,
                 Judge(fetch, KindOf(status), IsRetryableStatus(status),
                       ParseRetryAfter(seconds))
          PROVE  AskedIsWaited'
      BY <3>2, <3>3, <3>6
    <3> QED BY <2>8, <3>4, <3>5, <3>6 DEF Receive
  <2> QED BY <1>7, <2>4, <2>5, <2>6, <2>7, <2>8 DEF Step
<1> QED BY <1>4, <1>5, <1>6, <1>7 DEF Next

\* No request is repeated before the time the upstream asked for is over, as
\* long as that time is one that a Duration holds; MCUpstreamOverflow.cfg shows
\* what happens with one that it does not hold.
THEOREM RetryAfterIsHonoured == HeadersFit /\ Spec => RetryAfterHonoured
<1>1. Init => AskedIsWaited BY DEF Init, AskedIsWaited
<1>2. HeadersFit /\ Inv /\ AskedIsWaited /\ [Next]_vars => AskedIsWaited'
  BY NextKeepsAsked
<1>3. ASSUME Inv, AskedIsWaited, [Next]_vars, RequestIsSent PROVE asked = 0
  BY <1>3, RequestsTakeSlots DEF AskedIsWaited
<1>4. Inv /\ AskedIsWaited /\ [Next]_vars => [RequestIsSent => asked = 0]_vars
  BY <1>3
<1>5. CASE HeadersFit
  BY <1>1, <1>2, <1>4, <1>5, Invariance, PTL DEF Spec, RetryAfterHonoured
<1> QED BY <1>5

-----------------------------------------------------------------------------
(* Refresh: an address that is due and passed over sees the whole quota go  *)
(* to others, in every run to others than before, until there are none left *)

Tried(address) == WasTried(entries[address], Enricher)

\* No attempt, or one of an earlier run.
LastAttempts == [{} -> Int] \cup [{Enricher} -> (-Horizon)..(-1)]

RefreshTypeOK ==
    /\ limits \in Schedules
    /\ DOMAIN entries \subseteq Addresses
    /\ entries \in [DOMAIN entries -> [firstSeen : 0..Cardinality(DOMAIN entries),
                                       lastAttempts : LastAttempts]]
    /\ cutShort \in BOOLEAN

\* The addresses tried since the given one became due again.
TriedSince(address) ==
    {other \in DOMAIN entries :
        Tried(other) /\ Waiting(other) <= Waiting(address) - limits.refreshAfter}

\* How many runs there surely were in a time.
Runs(time) == time \div RunInterval

\* In each run since then the whole quota went to others.
QuotaUsed ==
    ~cutShort => \A address \in DOMAIN entries :
        /\ Tried(address)
        /\ Waiting(address) \in limits.refreshAfter .. 2 * limits.refreshAfter - 1
        => Cardinality(TriedSince(address))
              >= limits.maxLookups * Runs(Waiting(address) - limits.refreshAfter)

RefreshInv == RefreshTypeOK /\ QuotaUsed /\ EnoughQuotaRefreshesInTime

-----------------------------------------------------------------------------
(* The addresses a run selects *)

\* What the order needs to know of an index.
IsSortable(index) ==
    /\ DOMAIN index \subseteq Addresses
    /\ \A address \in DOMAIN index :
          index[address].firstSeen \in Int /\ AttemptOf(index[address], Enricher) \in Int

\* A nonempty set of naturals has a least element.
LEMMA LeastElement ==
    ASSUME NEW T \in SUBSET Nat, T # {}
    PROVE  \E least \in T : \A other \in T : least <= other
<1> DEFINE Below == {0..x : x \in T}
<1>1. Below \subseteq FiniteSubsetsOf(Nat)
  <2>1. \A x \in T : IsFiniteSet(0..x) /\ 0..x \subseteq Nat BY FS_Interval
  <2> QED BY <2>1 DEF FiniteSubsetsOf
<1>2. PICK smallest \in Below :
          \A below \in Below : <<below, smallest>> \notin StrictSubsetOrdering(Nat)
  <2>1. Below # {} OBVIOUS
  <2> HIDE DEF Below
  <2> QED BY <1>1, <2>1, FS_StrictSubsetOrderingWellFounded, WFMin
<1>3. PICK least \in T : smallest = 0..least BY <1>2
<1>4. ASSUME NEW other \in T, other < least PROVE FALSE
  <2>1. /\ 0..other \subseteq Nat /\ 0..least \subseteq Nat
        /\ 0..other \subseteq 0..least /\ least \in 0..least /\ least \notin 0..other
    BY <1>4
  <2>2. <<0..other, 0..least>> \in StrictSubsetOrdering(Nat)
    BY <2>1 DEF StrictSubsetOrdering
  <2> QED BY <2>2, <1>2, <1>3
<1> QED BY <1>4

\* Addresses are sorted in a strict order.
LEMMA SortsStrictly ==
    ASSUME NEW index, IsSortable(index),
           NEW first \in DOMAIN index, NEW second \in DOMAIN index, NEW third \in DOMAIN index
    PROVE  /\ ~SortsBefore(index, Enricher, first, first)
           /\ SortsBefore(index, Enricher, first, second)
                 /\ SortsBefore(index, Enricher, second, third)
              => SortsBefore(index, Enricher, first, third)
<1> DEFINE tried(address) == WasTried(index[address], Enricher)
           seen(address) == index[address].firstSeen
           attempt(address) == AttemptOf(index[address], Enricher)
           before(one, other) ==
              \/ ~tried(one) /\ tried(other)
              \/ /\ tried(one) <=> tried(other)
                 /\ \/ seen(one) > seen(other)
                    \/ /\ seen(one) = seen(other)
                       /\ \/ attempt(one) < attempt(other)
                          \/ attempt(one) = attempt(other) /\ Order[one] < Order[other]
<1>1. ASSUME NEW one, NEW other
      PROVE  SortsBefore(index, Enricher, one, other) <=> before(one, other)
  BY DEF SortsBefore, WasTried
<1>2. ASSUME NEW address \in DOMAIN index
      PROVE  /\ seen(address) \in Int /\ attempt(address) \in Int /\ Order[address] \in Int
  BY ScheduleAssumption DEF IsSortable
<1> HIDE DEF tried, seen, attempt
<1>3. /\ ~before(first, first)
      /\ before(first, second) /\ before(second, third) => before(first, third)
  BY <1>2
<1> QED BY <1>1, <1>3

\* A due address is only left out if all lookups are used: of those left out, the
\* one with the fewest due addresses before it has only selected ones there.
LEMMA SelectionFills ==
    ASSUME NEW index, IsSortable(index), NEW schedule, schedule.maxLookups \in Nat,
           NEW missed \in DueAddresses(index, Enricher, schedule, 0),
           missed \notin SelectDueAddresses(index, Enricher, schedule, 0)
    PROVE  Cardinality(SelectDueAddresses(index, Enricher, schedule, 0)) >= schedule.maxLookups
<1> DEFINE due == DueAddresses(index, Enricher, schedule, 0)
           selected == SelectDueAddresses(index, Enricher, schedule, 0)
           Before(address) == {other \in due : SortsBefore(index, Enricher, other, address)}
           ranks == {Cardinality(Before(address)) : address \in due \ selected}
<1>1. /\ due \subseteq DOMAIN index /\ due \subseteq Addresses /\ selected \subseteq due
      /\ \A address \in due :
            address \in selected <=> Cardinality(Before(address)) < schedule.maxLookups
  BY DEF DueAddresses, SelectDueAddresses, Place, IsSortable
<1>2. missed \in due \ selected OBVIOUS
<1> HIDE DEF due, selected
<1>3. IsFiniteSet(due) /\ IsFiniteSet(selected)
  <2>1. IsFiniteSet(due) BY <1>1, ScheduleAssumption, FS_Subset
  <2> QED BY <1>1, <2>1, FS_Subset
<1>4. ASSUME NEW address \in due
      PROVE  IsFiniteSet(Before(address)) /\ Cardinality(Before(address)) \in Nat
  BY <1>3, FS_Subset, FS_CardinalityType
<1>5. PICK least \in due \ selected :
          \A other \in due \ selected :
             Cardinality(Before(least)) <= Cardinality(Before(other))
  <2>1. ranks \in SUBSET Nat /\ ranks # {} BY <1>2, <1>4
  <2>2. PICK rank \in ranks : \A other \in ranks : rank <= other
    <3> HIDE DEF ranks
    <3> QED BY <2>1, LeastElement
  <2> QED BY <2>2
<1>6. ASSUME NEW other \in Before(least), other \notin selected PROVE FALSE
  <2>1. other \in due \ selected /\ SortsBefore(index, Enricher, other, least) BY <1>6
  <2>2. Before(other) \in SUBSET Before(least) /\ other \notin Before(other)
    BY <1>1, <2>1, SortsStrictly
  <2>3. Before(other) # Before(least) BY <1>6, <2>2
  <2>4. /\ Cardinality(Before(other)) \in Nat /\ Cardinality(Before(least)) \in Nat
        /\ Cardinality(Before(least)) <= Cardinality(Before(other))
        /\ IsFiniteSet(Before(least))
    BY <1>4, <1>5, <2>1
  <2> HIDE DEF Before
  <2>5. /\ Cardinality(Before(other)) <= Cardinality(Before(least))
        /\ Cardinality(Before(least)) = Cardinality(Before(other))
              => Before(least) = Before(other)
    BY <2>2, <2>4, FS_Subset
  <2> QED BY <2>3, <2>4, <2>5
<1>7. Before(least) \in SUBSET selected BY <1>6
<1>8. Cardinality(Before(least)) \in Nat /\ ~(Cardinality(Before(least)) < schedule.maxLookups)
  BY <1>1, <1>4
<1> HIDE DEF Before
<1>9. /\ Cardinality(Before(least)) <= Cardinality(selected)
      /\ Cardinality(selected) \in Nat
  BY <1>3, <1>7, FS_Subset, FS_CardinalityType
<1>10. Cardinality(selected) >= schedule.maxLookups BY <1>8, <1>9
<1> QED BY <1>10 DEF selected

\* Of two addresses, one goes before the other.
LEMMA SortsTotally ==
    ASSUME NEW index, IsSortable(index),
           NEW first \in DOMAIN index, NEW second \in DOMAIN index, first # second
    PROVE  \/ SortsBefore(index, Enricher, first, second)
           \/ SortsBefore(index, Enricher, second, first)
<1> DEFINE attempt(address) == AttemptOf(index[address], Enricher)
<1>1. /\ index[first].firstSeen \in Int /\ index[second].firstSeen \in Int
      /\ attempt(first) \in Int /\ attempt(second) \in Int
  BY DEF IsSortable
<1>2. Order[first] \in Int /\ Order[second] \in Int /\ Order[first] # Order[second]
  BY ScheduleAssumption DEF IsSortable
<1> HIDE DEF attempt
<1> QED BY <1>1, <1>2 DEF SortsBefore, WasTried, attempt

\* Those selected go before those left out.
LEMMA SelectedGoFirst ==
    ASSUME NEW index, IsSortable(index), NEW schedule, schedule.maxLookups \in Nat,
           NEW address \in SelectDueAddresses(index, Enricher, schedule, 0),
           NEW missed \in DueAddresses(index, Enricher, schedule, 0),
           missed \notin SelectDueAddresses(index, Enricher, schedule, 0)
    PROVE  SortsBefore(index, Enricher, address, missed)
<1> DEFINE due == DueAddresses(index, Enricher, schedule, 0)
           Before(one) == {other \in due : SortsBefore(index, Enricher, other, one)}
<1>1. /\ due \subseteq DOMAIN index /\ due \subseteq Addresses
      /\ address \in due /\ missed \in due
      /\ Cardinality(Before(address)) < schedule.maxLookups
      /\ ~(Cardinality(Before(missed)) < schedule.maxLookups)
  BY DEF DueAddresses, SelectDueAddresses, Place, IsSortable
<1> HIDE DEF due
<1>2. IsFiniteSet(due) BY <1>1, ScheduleAssumption, FS_Subset
<1>3. /\ IsFiniteSet(Before(address)) /\ Cardinality(Before(address)) \in Nat
      /\ Cardinality(Before(missed)) \in Nat
  BY <1>2, FS_Subset, FS_CardinalityType
<1>4. CASE SortsBefore(index, Enricher, missed, address)
  <2>1. Before(missed) \subseteq Before(address) BY <1>1, <1>4, SortsStrictly
  <2> HIDE DEF Before
  <2>2. Cardinality(Before(missed)) <= Cardinality(Before(address))
    BY <1>3, <2>1, FS_Subset
  <2> QED BY <1>1, <1>3, <2>2
<1>5. address # missed BY DEF SelectDueAddresses
<1> QED BY <1>1, <1>4, <1>5, SortsTotally

\* No more addresses are selected than there are lookups: they have different places.
LEMMA SelectionFits ==
    ASSUME NEW index, IsSortable(index), NEW schedule, schedule.maxLookups \in Nat
    PROVE  /\ IsFiniteSet(SelectDueAddresses(index, Enricher, schedule, 0))
           /\ Cardinality(SelectDueAddresses(index, Enricher, schedule, 0)) \in Nat
           /\ Cardinality(SelectDueAddresses(index, Enricher, schedule, 0))
                 <= schedule.maxLookups
<1> DEFINE due == DueAddresses(index, Enricher, schedule, 0)
           selected == SelectDueAddresses(index, Enricher, schedule, 0)
           Before(one) == {other \in due : SortsBefore(index, Enricher, other, one)}
           places == 0..(schedule.maxLookups - 1)
           place == [address \in selected |-> Cardinality(Before(address))]
<1>1. /\ due \subseteq DOMAIN index /\ due \subseteq Addresses /\ selected \subseteq due
      /\ \A address \in selected : Cardinality(Before(address)) < schedule.maxLookups
  BY DEF DueAddresses, SelectDueAddresses, Place, IsSortable
<1> HIDE DEF due, selected
<1>2. IsFiniteSet(due) /\ IsFiniteSet(selected)
  <2>1. IsFiniteSet(due) BY <1>1, ScheduleAssumption, FS_Subset
  <2> QED BY <1>1, <2>1, FS_Subset
<1>3. ASSUME NEW address \in due
      PROVE  IsFiniteSet(Before(address)) /\ Cardinality(Before(address)) \in Nat
  BY <1>2, FS_Subset, FS_CardinalityType
<1>4. ASSUME NEW first \in selected, NEW second \in selected,
             SortsBefore(index, Enricher, first, second)
      PROVE  Cardinality(Before(first)) < Cardinality(Before(second))
  <2>1. /\ Before(first) \subseteq Before(second)
        /\ first \in Before(second) /\ first \notin Before(first)
    BY <1>1, <1>4, SortsStrictly
  <2>2. /\ IsFiniteSet(Before(second)) /\ Cardinality(Before(first)) \in Nat
        /\ Cardinality(Before(second)) \in Nat
    BY <1>1, <1>3
  <2> HIDE DEF Before
  <2>3. /\ Cardinality(Before(first)) <= Cardinality(Before(second))
        /\ Cardinality(Before(second)) = Cardinality(Before(first))
              => Before(second) = Before(first)
    BY <2>1, <2>2, FS_Subset
  <2> QED BY <2>1, <2>2, <2>3
<1>5. place \in Injection(selected, places)
  <2>1. \A address \in selected : Cardinality(Before(address)) \in places
    BY <1>1, <1>3
  <2>2. ASSUME NEW first \in selected, NEW second \in selected, first # second
        PROVE  Cardinality(Before(first)) # Cardinality(Before(second))
    <3>1. first \in due /\ second \in due BY <1>1
    <3>2. Cardinality(Before(first)) \in Nat /\ Cardinality(Before(second)) \in Nat
      BY <1>3, <3>1
    <3>3. \/ SortsBefore(index, Enricher, first, second)
          \/ SortsBefore(index, Enricher, second, first)
      BY <1>1, <2>2, SortsTotally
    <3> HIDE DEF Before
    <3> QED BY <1>4, <3>2, <3>3
  <2> HIDE DEF Before
  <2> QED BY <2>1, <2>2 DEF Injection, IsInjective
<1>6. IsFiniteSet(places) /\ Cardinality(places) = schedule.maxLookups
  <2>1. schedule.maxLookups - 1 \in Int /\ 0 \in Int OBVIOUS
  <2>2. IsFiniteSet(places) /\ Cardinality(places) = IF 0 > schedule.maxLookups - 1 THEN 0
                                                    ELSE schedule.maxLookups - 1 - 0 + 1
    BY <2>1, FS_Interval
  <2> QED BY <2>2
<1> HIDE DEF place, places
<1>7. Cardinality(selected) <= Cardinality(places)
  BY <1>2, <1>5, <1>6, FS_Injection
<1>8. Cardinality(selected) \in Nat BY <1>2, FS_CardinalityType
<1>9. /\ IsFiniteSet(selected) /\ Cardinality(selected) \in Nat
      /\ Cardinality(selected) <= schedule.maxLookups
  BY <1>2, <1>6, <1>7, <1>8
<1> QED BY <1>9 DEF selected

-----------------------------------------------------------------------------
(* Runs *)

\* The schedule, and what the horizon is good for.
LEMMA ScheduleType ==
    ASSUME RefreshTypeOK
    PROVE  /\ limits.maxLookups \in Nat \ {0} /\ limits.refreshAfter \in Nat \ {0}
           /\ RunInterval \in Nat \ {0}
           /\ Horizon \in Nat /\ Horizon = 2 * limits.refreshAfter + RunInterval
BY RefreshAssumption DEF RefreshTypeOK, IsSchedule, Horizon

\* Within an interval there may be no run, and one more interval is one run more.
LEMMA RunsCount ==
    ASSUME NEW time \in Nat, NEW gap \in 0..RunInterval
    PROVE  /\ Runs(time) \in Nat
           /\ time < RunInterval => Runs(time) = 0
           /\ Runs(time) <= Runs(time + gap) /\ Runs(time + gap) <= Runs(time) + 1
<1>1. RunInterval \in Nat \ {0} /\ gap \in Nat /\ gap <= RunInterval BY RefreshAssumption
<1>2. time \div RunInterval \in Nat BY <1>1
<1>3. time < RunInterval => time \div RunInterval = 0 BY <1>1
<1>4. time \div RunInterval <= (time + gap) \div RunInterval BY <1>1
<1>5. (time + gap) \div RunInterval <= (time \div RunInterval) + 1 BY <1>1
<1> QED BY <1>2, <1>3, <1>4, <1>5 DEF Runs

\* There are no fewer in a longer time.
LEMMA RunsGrow ==
    ASSUME NEW time \in Nat, NEW longer \in Nat, time <= longer
    PROVE  Runs(time) \in Nat /\ Runs(longer) \in Nat /\ Runs(time) <= Runs(longer)
<1>1. RunInterval \in Nat \ {0} BY RefreshAssumption
<1>2. PICK more \in Nat : longer = time + more
  <2>1. longer - time \in Nat /\ longer = time + (longer - time) OBVIOUS
  <2> QED BY <2>1
<1>3. time \div RunInterval \in Nat /\ longer \div RunInterval \in Nat BY <1>1
<1>4. time \div RunInterval <= (time + more) \div RunInterval BY <1>1
<1> QED BY <1>2, <1>3, <1>4 DEF Runs

\* An entry says since when its address waits, if it was ever tried.
LEMMA EntryType ==
    ASSUME RefreshTypeOK, NEW address \in DOMAIN entries
    PROVE  /\ entries[address].firstSeen \in 0..Cardinality(DOMAIN entries)
           /\ entries[address].lastAttempts \in LastAttempts
           /\ Tried(address) =>
                 /\ entries[address].lastAttempts \in [{Enricher} -> (-Horizon)..(-1)]
                 /\ Waiting(address) \in 1..Horizon
           /\ ~Tried(address) => entries[address].lastAttempts \in [{} -> Int]
<1>1. entries[address] \in [firstSeen : 0..Cardinality(DOMAIN entries),
                            lastAttempts : LastAttempts]
  BY DEF RefreshTypeOK
<1>2. Horizon \in Nat BY ScheduleType
<1>3. CASE entries[address].lastAttempts \in [{Enricher} -> (-Horizon)..(-1)]
  <2>1. entries[address].lastAttempts[Enricher] \in (-Horizon)..(-1) BY <1>3
  <2>2. Waiting(address) \in 1..Horizon BY <1>2, <2>1 DEF Waiting
  <2>3. Tried(address) BY <1>3 DEF Tried, WasTried
  <2> QED BY <1>1, <1>3, <2>2, <2>3
<1>4. CASE entries[address].lastAttempts \in [{} -> Int]
  <2>1. ~Tried(address) BY <1>4 DEF Tried, WasTried
  <2> QED BY <1>1, <1>4, <2>1
<1> QED BY <1>1, <1>3, <1>4 DEF LastAttempts

\* first_seen is a number between one and that of the addresses, if there are any.
LEMMA NewestType ==
    ASSUME RefreshTypeOK
    PROVE  /\ IsFiniteSet(DOMAIN entries) /\ Cardinality(DOMAIN entries) \in Nat
           /\ Newest \in 0..Cardinality(DOMAIN entries)
           /\ \A address \in DOMAIN entries : entries[address].firstSeen <= Newest
<1> DEFINE known == Cardinality(DOMAIN entries)
           T == {known - entries[address].firstSeen : address \in DOMAIN entries}
<1>1. /\ IsFiniteSet(DOMAIN entries) /\ known \in Nat
      /\ known <= Cardinality(Addresses) /\ Cardinality(Addresses) \in Nat
  BY ScheduleAssumption, FS_Subset, FS_CardinalityType DEF RefreshTypeOK
<1>2. \A address \in DOMAIN entries : entries[address].firstSeen \in 0..known
  BY EntryType
<1> HIDE DEF known
<1>3. CASE DOMAIN entries = {} BY <1>1, <1>3 DEF Newest, known
<1>4. CASE DOMAIN entries # {}
  <2>1. T \in SUBSET Nat /\ T # {} BY <1>1, <1>2, <1>4
  <2>2. PICK least \in T : \A other \in T : least <= other
    <3> HIDE DEF T
    <3> QED BY <2>1, LeastElement
  <2>3. PICK newest \in DOMAIN entries : least = known - entries[newest].firstSeen BY <2>2
  <2>4. \A address \in DOMAIN entries : entries[address].firstSeen <= entries[newest].firstSeen
    <3> TAKE address \in DOMAIN entries
    <3>1. known - entries[address].firstSeen \in T OBVIOUS
    <3>2. known - entries[newest].firstSeen <= known - entries[address].firstSeen
      BY <2>2, <2>3, <3>1
    <3> QED BY <1>1, <1>2, <3>2
  <2>5. entries[newest].firstSeen \in Seen BY <1>1, <1>2 DEF Seen
  <2>6. \E seen \in Seen :
           /\ \E address \in DOMAIN entries : entries[address].firstSeen = seen
           /\ \A address \in DOMAIN entries : entries[address].firstSeen <= seen
    BY <2>4, <2>5
  <2>7. /\ \E address \in DOMAIN entries : entries[address].firstSeen = Newest
        /\ \A address \in DOMAIN entries : entries[address].firstSeen <= Newest
    BY <1>4, <2>6 DEF Newest
  <2> QED BY <1>1, <1>2, <2>7 DEF known
<1> QED BY <1>3, <1>4

\* The index of a run: the addresses feeds add were never tried.
LEMMA FoundIndex ==
    ASSUME RefreshTypeOK, NEW found \in New
    PROVE  /\ DOMAIN WithFound(found) = DOMAIN entries \cup found
           /\ DOMAIN entries \cup found \subseteq Addresses
           /\ \A address \in DOMAIN entries : WithFound(found)[address] = entries[address]
           /\ \A address \in DOMAIN entries \cup found :
                 WithFound(found)[address] \in
                    [firstSeen : 0..Cardinality(DOMAIN entries \cup found),
                     lastAttempts : LastAttempts]
           /\ \A address \in found : ~WasTried(WithFound(found)[address], Enricher)
           /\ IsSortable(WithFound(found))
<1> DEFINE known == Cardinality(DOMAIN entries)
           index == WithFound(found)
           all == DOMAIN entries \cup found
<1>1. found \subseteq Addresses /\ found \cap DOMAIN entries = {} /\ all \subseteq Addresses
  BY DEF New, RefreshTypeOK
<1>2. /\ DOMAIN index = all
      /\ \A address \in DOMAIN entries : index[address] = entries[address]
      /\ \A address \in found :
            index[address] = [firstSeen |-> Newest + 1, lastAttempts |-> [name \in {} |-> 0]]
  BY <1>1 DEF WithFound
<1>3. /\ known \in Nat /\ Newest \in 0..known /\ Cardinality(all) \in Nat
      /\ known <= Cardinality(all) /\ (found # {} => known < Cardinality(all))
  <2>1. IsFiniteSet(all) BY <1>1, ScheduleAssumption, FS_Subset
  <2>2. /\ known <= Cardinality(all) /\ known \in Nat /\ Cardinality(all) \in Nat
        /\ known = Cardinality(all) => DOMAIN entries = all
    BY <2>1, FS_Subset, FS_CardinalityType
  <2>3. found # {} => DOMAIN entries # all BY <1>1
  <2> QED BY <2>2, <2>3, NewestType
<1>4. \A address \in all : index[address] \in [firstSeen : 0..Cardinality(all),
                                               lastAttempts : LastAttempts]
  <2> TAKE address \in all
  <2>1. CASE address \in DOMAIN entries
    <3>1. entries[address] \in [firstSeen : 0..known, lastAttempts : LastAttempts]
      BY <2>1 DEF RefreshTypeOK
    <3>2. 0..known \subseteq 0..Cardinality(all) BY <1>3
    <3> HIDE DEF known, all
    <3> QED BY <1>2, <2>1, <3>1, <3>2
  <2>2. CASE address \in found
    <3>1. Newest + 1 \in 0..Cardinality(all) BY <1>3, <2>2
    <3>2. [name \in {} |-> 0] \in LastAttempts BY DEF LastAttempts
    <3> HIDE DEF all, index
    <3> QED BY <1>2, <2>2, <3>1, <3>2
  <2> QED BY <2>1, <2>2
<1>5. \A address \in found : ~WasTried(index[address], Enricher) BY <1>2 DEF WasTried
<1>6. IsSortable(index)
  <2> SUFFICES ASSUME NEW address \in all
               PROVE  /\ index[address].firstSeen \in Int
                      /\ AttemptOf(index[address], Enricher) \in Int
    BY <1>1, <1>2 DEF IsSortable
  <2>1. /\ index[address].firstSeen \in 0..Cardinality(all)
        /\ index[address].lastAttempts \in LastAttempts
    BY <1>4
  <2>2. Horizon \in Nat BY ScheduleType
  <2>3. AttemptOf(index[address], Enricher) \in Int
    BY <2>1, <2>2 DEF LastAttempts, AttemptOf, WasTried
  <2> QED BY <1>3, <2>1, <2>3
<1> QED BY <1>1, <1>2, <1>4, <1>5, <1>6

\* What a run does to each address: it was tried in it, or waits the time between
\* the runs more.
Moves(found, done, gap) ==
    /\ DOMAIN entries' = DOMAIN entries \cup found
    /\ limits' = limits /\ Horizon' = Horizon /\ RefreshTypeOK'
    /\ \A address \in done : Tried(address)' /\ Waiting(address)' \in 1..gap
    /\ \A address \in DOMAIN entries' \ done :
          /\ Tried(address)' => address \in DOMAIN entries /\ Tried(address)
          /\ address \in DOMAIN entries /\ Tried(address) =>
                /\ Tried(address)'
                /\ Waiting(address)' = IF Waiting(address) + gap > Horizon THEN Horizon
                                       ELSE Waiting(address) + gap

\* Every run moves the addresses so.
LEMMA RunMoves ==
    ASSUME RefreshTypeOK, NEW found \in New, NEW done \in SUBSET Selected(found),
           NEW gap \in 1..RunInterval, NEW ages \in [done -> 1..gap], Run(found, done, gap, ages)
    PROVE  Moves(found, done, gap)
<1> DEFINE all == DOMAIN entries \cup found
           index == WithFound(found)
           Later(address) ==
              IF address \in done THEN [name \in {Enricher} |-> -ages[address]]
              ELSE [name \in DOMAIN index[address].lastAttempts |->
                      Older(index[address].lastAttempts[name], gap)]
<1>1. /\ DOMAIN index = all /\ all \subseteq Addresses
      /\ \A address \in DOMAIN entries : index[address] = entries[address]
      /\ \A address \in all : index[address] \in [firstSeen : 0..Cardinality(all),
                                                  lastAttempts : LastAttempts]
      /\ \A address \in found : ~WasTried(index[address], Enricher)
  BY FoundIndex
<1>2. entries' = [address \in all |-> [index[address] EXCEPT !.lastAttempts = Later(address)]]
      /\ limits' = limits /\ cutShort' \in BOOLEAN
  <2>1. DOMAIN ages = done OBVIOUS
  <2> QED BY <1>1, <2>1 DEF Run, Aged
<1>3. /\ Horizon \in Nat /\ Horizon >= RunInterval /\ RunInterval \in Nat \ {0} /\ Horizon' = Horizon
      /\ gap \in Nat /\ gap >= 1 /\ gap <= RunInterval
  BY <1>2, ScheduleType DEF Horizon
<1>4. done \subseteq all
  BY <1>1 DEF Selected, SelectDueAddresses, DueAddresses
<1> HIDE DEF index
<1>5. ASSUME NEW address \in all
      PROVE  /\ Later(address) \in LastAttempts
             /\ address \in done =>
                   Later(address)[Enricher] = -ages[address] /\ Enricher \in DOMAIN Later(address)
             /\ address \notin done =>
                   /\ DOMAIN Later(address) = DOMAIN index[address].lastAttempts
                   /\ Enricher \in DOMAIN Later(address) =>
                         Later(address)[Enricher] =
                            Older(index[address].lastAttempts[Enricher], gap)
  <2>1. index[address].lastAttempts \in LastAttempts BY <1>1
  <2>2. CASE address \in done
    <3>1. Later(address) = [name \in {Enricher} |-> -ages[address]] BY <2>2
    <3>2. -ages[address] \in (-Horizon)..(-1)
      <4>1. ages[address] \in 1..gap BY <2>2
      <4> QED BY <1>3, <4>1
    <3> HIDE DEF Later
    <3> QED BY <2>2, <3>1, <3>2 DEF LastAttempts
  <2>3. CASE address \notin done /\ index[address].lastAttempts \in [{} -> Int]
    <3>1. DOMAIN Later(address) = {} /\ Later(address) \in [{} -> Int] BY <2>3
    <3> HIDE DEF Later
    <3> QED BY <2>3, <3>1 DEF LastAttempts
  <2>4. CASE /\ address \notin done
             /\ index[address].lastAttempts \in [{Enricher} -> (-Horizon)..(-1)]
    <3> DEFINE last == index[address].lastAttempts[Enricher]
               later == Older(last, gap)
    <3>1. DOMAIN index[address].lastAttempts = {Enricher} /\ last \in (-Horizon)..(-1)
      BY <2>4
    <3>2. Later(address) = [name \in {Enricher} |-> later] BY <2>4, <3>1
    <3>3. later \in (-Horizon)..(-1) BY <1>3, <3>1 DEF Older
    <3> HIDE DEF Later, later
    <3>4. /\ Later(address) \in [{Enricher} -> (-Horizon)..(-1)]
          /\ DOMAIN Later(address) = {Enricher} /\ Later(address)[Enricher] = later
      BY <3>2, <3>3
    <3> QED BY <2>4, <3>1, <3>4 DEF LastAttempts, later
  <2> QED BY <2>1, <2>2, <2>3, <2>4 DEF LastAttempts
<1> HIDE DEF Later
<1>6. ASSUME NEW address \in all
      PROVE  /\ entries'[address].lastAttempts = Later(address)
             /\ entries'[address] \in [firstSeen : 0..Cardinality(all), lastAttempts : LastAttempts]
  BY <1>1, <1>2, <1>5
<1>7. DOMAIN entries' = all BY <1>2
<1>8. RefreshTypeOK'
  <2>1. limits' \in Schedules BY <1>2 DEF RefreshTypeOK
  <2>2. entries' \in [all -> [firstSeen : 0..Cardinality(all), lastAttempts : LastAttempts]]
    BY <1>2, <1>6
  <2>3. LastAttempts' = LastAttempts BY <1>3 DEF LastAttempts
  <2> HIDE DEF all
  <2> QED BY <1>1, <1>2, <1>7, <2>1, <2>2, <2>3 DEF RefreshTypeOK
<1>9. ASSUME NEW address \in done PROVE Tried(address)' /\ Waiting(address)' \in 1..gap
  <2>1. ages[address] \in 1..gap OBVIOUS
  <2>2. entries'[address].lastAttempts[Enricher] = -ages[address] /\ Tried(address)'
    BY <1>4, <1>5, <1>6 DEF Tried, WasTried
  <2>3. Waiting(address)' = ages[address] BY <1>3, <2>1, <2>2 DEF Waiting
  <2> QED BY <2>1, <2>2, <2>3
<1>10. ASSUME NEW address \in all \ done
       PROVE  /\ Tried(address)' => address \in DOMAIN entries /\ Tried(address)
              /\ address \in DOMAIN entries /\ Tried(address) =>
                    /\ Tried(address)'
                    /\ Waiting(address)' = IF Waiting(address) + gap > Horizon THEN Horizon
                                           ELSE Waiting(address) + gap
  <2>1. Tried(address)' <=> Enricher \in DOMAIN index[address].lastAttempts
    BY <1>5, <1>6, <1>10 DEF Tried, WasTried
  <2>2. CASE address \in found BY <1>1, <1>10, <2>1, <2>2 DEF WasTried, New
  <2>3. CASE address \in DOMAIN entries
    <3>1. Tried(address)' <=> Tried(address) BY <1>1, <2>1, <2>3 DEF Tried, WasTried
    <3>2. ASSUME Tried(address)
          PROVE  Waiting(address)' = IF Waiting(address) + gap > Horizon THEN Horizon
                                     ELSE Waiting(address) + gap
      <4> DEFINE last == entries[address].lastAttempts[Enricher]
      <4>1. entries'[address].lastAttempts[Enricher] = Older(last, gap)
        BY <1>1, <1>5, <1>6, <1>10, <2>1, <2>3, <3>1, <3>2
      <4>2. Waiting(address) = -last /\ Waiting(address) \in 1..Horizon
        BY <2>3, <3>2, EntryType DEF Waiting
      <4>3. last \in (-Horizon)..(-1) BY <2>3, <3>2, EntryType
      <4>4. Waiting(address)' = -(entries'[address].lastAttempts[Enricher]) BY DEF Waiting
      <4> HIDE DEF last
      <4> QED BY <1>3, <4>1, <4>2, <4>3, <4>4 DEF Older
    <3> QED BY <2>3, <3>1, <3>2
  <2> QED BY <1>10, <2>2, <2>3
<1> QED BY <1>2, <1>3, <1>7, <1>8, <1>9, <1>10 DEF Moves

-----------------------------------------------------------------------------
(* The invariant *)

\* Every set of addresses is finite and has a number of members.
LEMMA AddressesCount ==
    ASSUME NEW S \in SUBSET Addresses
    PROVE  IsFiniteSet(S) /\ Cardinality(S) \in Nat
BY ScheduleAssumption, FS_Subset, FS_CardinalityType

\* A quota used in more runs is used more.
LEMMA QuotaGrows ==
    ASSUME NEW quota \in Nat, NEW runs \in Nat, NEW more \in Nat, runs <= more
    PROVE  quota * runs <= quota * more /\ quota * runs \in Nat /\ quota * more \in Nat
OBVIOUS

\* A run that is not cut short and passes an address over that is due uses its
\* quota for others, that were not due when this one became so.
LEMMA RunUsesQuota ==
    ASSUME RefreshInv, NEW found \in New, NEW gap \in 1..RunInterval,
           NEW ages \in [Selected(found) -> 1..gap], Run(found, Selected(found), gap, ages),
           ~cutShort,
           NEW address \in DOMAIN entries, Tried(address), address \notin Selected(found),
           Waiting(address) \in limits.refreshAfter .. 2 * limits.refreshAfter - 1
    PROVE  /\ Waiting(address)' = Waiting(address) + gap
           /\ Cardinality(TriedSince(address)')
                 >= limits.maxLookups * Runs(Waiting(address)' - limits.refreshAfter)
<1> DEFINE selected == Selected(found)
           before == TriedSince(address)
           after == TriedSince(address)'
           index == WithFound(found)
           quota == limits.maxLookups
           span == Waiting(address) - limits.refreshAfter
<1>1. /\ RefreshTypeOK /\ quota \in Nat /\ limits.refreshAfter \in Nat \ {0}
      /\ Horizon \in Nat /\ Horizon = 2 * limits.refreshAfter + RunInterval
      /\ RunInterval \in Nat /\ gap \in Nat /\ gap >= 1 /\ gap <= RunInterval
  BY ScheduleType DEF RefreshInv
<1>2. /\ DOMAIN index = DOMAIN entries \cup found /\ IsSortable(index)
      /\ DOMAIN entries \cup found \subseteq Addresses
      /\ \A other \in DOMAIN entries : index[other] = entries[other]
  BY <1>1, FoundIndex
<1>3. \A other \in DOMAIN entries : Tried(other) =>
         /\ AttemptOf(index[other], Enricher) = -Waiting(other)
         /\ index[other].lastAttempts[Enricher] = -Waiting(other)
         /\ Waiting(other) \in 1..Horizon
  <2> TAKE other \in DOMAIN entries
  <2> HAVE Tried(other)
  <2>1. entries[other].lastAttempts[Enricher] \in (-Horizon)..(-1) BY <1>1, EntryType
  <2>2. entries[other].lastAttempts[Enricher] = -Waiting(other) BY <1>1, <2>1 DEF Waiting
  <2> QED BY <1>1, <1>2, <2>2, EntryType DEF Tried, AttemptOf
<1>4. ASSUME NEW other \in DOMAIN entries, Tried(other)
      PROVE  other \in DueAddresses(index, Enricher, limits, 0)
                <=> Waiting(other) >= limits.refreshAfter
  BY <1>1, <1>2, <1>3, <1>4 DEF DueAddresses, IsDue
<1>5. Cardinality(selected) >= quota /\ selected \subseteq DueAddresses(index, Enricher, limits, 0)
  <2>1. address \in DueAddresses(index, Enricher, limits, 0) BY <1>1, <1>3, <1>4
  <2>2. selected = SelectDueAddresses(index, Enricher, limits, 0) BY DEF Selected
  <2> HIDE DEF selected, index
  <2> QED BY <1>1, <1>2, <2>1, <2>2, SelectionFills DEF selected, SelectDueAddresses
<1>6. Cardinality(before) >= quota * Runs(span)
  BY <1>1, <1>3 DEF RefreshInv, QuotaUsed
<1>7. /\ DOMAIN entries' = DOMAIN entries \cup found /\ RefreshTypeOK' /\ limits' = limits
      /\ \A other \in selected : Tried(other)' /\ Waiting(other)' \in 1..gap
      /\ \A other \in DOMAIN entries \ selected : Tried(other) =>
            /\ Tried(other)'
            /\ Waiting(other)' = IF Waiting(other) + gap > Horizon THEN Horizon
                                 ELSE Waiting(other) + gap
  <2>1. selected \in SUBSET Selected(found) /\ ages \in [selected -> 1..gap]
        /\ Run(found, selected, gap, ages)
    OBVIOUS
  <2> HIDE DEF selected
  <2>2. Moves(found, selected, gap) BY <1>1, <2>1, RunMoves
  <2> QED BY <1>1, <2>2 DEF Moves, RefreshTypeOK
<1>8. Waiting(address)' = Waiting(address) + gap BY <1>1, <1>3, <1>7
<1>9. selected \cap before = {}
  <2> SUFFICES ASSUME NEW other \in selected, other \in before PROVE FALSE OBVIOUS
  <2>1. other \in DOMAIN entries /\ Tried(other) /\ Waiting(other) <= span BY DEF TriedSince
  <2>2. Waiting(other) >= limits.refreshAfter BY <1>4, <1>5, <2>1
  <2> QED BY <1>1, <1>3, <2>1, <2>2
<1>10. selected \cup before \subseteq after
  <2>1. ASSUME NEW other \in selected PROVE other \in after
    <3>1. other \in DOMAIN entries' BY <1>2, <1>5, <1>7 DEF DueAddresses
    <3>2. Waiting(other)' \in 1..gap /\ Tried(other)' BY <1>7, <2>1
    <3>3. Waiting(other)' <= Waiting(address)' - limits'.refreshAfter
      BY <1>1, <1>3, <1>7, <1>8, <3>2
    <3> QED BY <3>1, <3>2, <3>3 DEF TriedSince
  <2>2. ASSUME NEW other \in before, other \notin selected PROVE other \in after
    <3>1. other \in DOMAIN entries /\ Tried(other) /\ Waiting(other) <= span
      BY <2>2 DEF TriedSince
    <3>2. Tried(other)' /\ Waiting(other)' <= Waiting(other) + gap
      BY <1>1, <1>3, <1>7, <2>2, <3>1
    <3>3. Waiting(other)' <= Waiting(address)' - limits'.refreshAfter
      BY <1>1, <1>3, <1>7, <1>8, <2>2, <3>1
    <3> QED BY <1>7, <3>1, <3>2, <3>3 DEF TriedSince
  <2> QED BY <2>1, <2>2
<1>11. /\ IsFiniteSet(after) /\ Cardinality(after) \in Nat
       /\ IsFiniteSet(before) /\ Cardinality(before) \in Nat
  <2>1. after \subseteq Addresses /\ before \subseteq Addresses
    BY <1>1, <1>7 DEF TriedSince, RefreshTypeOK
  <2> HIDE DEF after, before
  <2> QED BY <2>1, AddressesCount
<1>12. span \in Nat /\ Waiting(address)' - limits.refreshAfter = span + gap
  BY <1>1, <1>3, <1>8
<1> HIDE DEF selected, before, after, quota, span
<1>13. IsFiniteSet(selected) /\ Cardinality(selected) \in Nat
  BY <1>10, <1>11, FS_Subset, FS_CardinalityType
<1>14. Cardinality(selected \cup before) = Cardinality(selected) + Cardinality(before)
  <2>1. Cardinality(selected \cap before) = 0 BY <1>9, FS_EmptySet
  <2>2. Cardinality(selected \cup before) = Cardinality(selected) + Cardinality(before)
                                              - Cardinality(selected \cap before)
    BY <1>11, <1>13, FS_Union
  <2> QED BY <1>11, <1>13, <2>1, <2>2
<1>15. Cardinality(selected \cup before) <= Cardinality(after) BY <1>10, <1>11, FS_Subset
<1> DEFINE passed == Runs(span)
           counted == Runs(span + gap)
<1>16. passed \in Nat /\ counted \in Nat /\ counted <= passed + 1
  <2>1. gap \in 0..RunInterval /\ span + gap \in Nat BY <1>1, <1>12
  <2> QED BY <1>12, <2>1, RunsCount
<1>17. Cardinality(before) >= quota * passed BY <1>6
<1> HIDE DEF passed, counted
<1>18. quota * counted <= quota * (passed + 1) BY <1>1, <1>16, QuotaGrows
<1>19. quota * (passed + 1) = quota * passed + quota /\ quota * passed \in Nat
       /\ quota * counted \in Nat
  BY <1>1, <1>16
<1>20. Cardinality(after) >= quota * counted
  BY <1>1, <1>5, <1>11, <1>13, <1>14, <1>15, <1>17, <1>18, <1>19
<1> QED BY <1>8, <1>12, <1>20 DEF after, quota, counted

\* A run keeps QuotaUsed: an address that has not waited for an interval more than
\* refreshAfter asks for nothing, one that has was passed over by this run.
LEMMA RunKeepsQuotaUsed ==
    ASSUME RefreshInv, NEW found \in New, NEW done \in SUBSET Selected(found),
           NEW gap \in 1..RunInterval, NEW ages \in [done -> 1..gap], Run(found, done, gap, ages)
    PROVE  QuotaUsed'
<1>1. /\ RefreshTypeOK
      /\ limits.maxLookups \in Nat /\ limits.refreshAfter \in Nat \ {0}
      /\ Horizon \in Nat /\ Horizon = 2 * limits.refreshAfter + RunInterval
      /\ RunInterval \in Nat /\ gap \in Nat /\ gap >= 1 /\ gap <= RunInterval
  BY ScheduleType DEF RefreshInv
<1>2. /\ DOMAIN entries' = DOMAIN entries \cup found
      /\ RefreshTypeOK' /\ limits' = limits
      /\ \A address \in done : Tried(address)' /\ Waiting(address)' \in 1..gap
      /\ \A address \in DOMAIN entries' \ done :
            /\ Tried(address)' => address \in DOMAIN entries /\ Tried(address)
            /\ address \in DOMAIN entries /\ Tried(address) =>
                  /\ Tried(address)'
                  /\ Waiting(address)' = IF Waiting(address) + gap > Horizon THEN Horizon
                                         ELSE Waiting(address) + gap
  <2>1. Moves(found, done, gap) BY <1>1, RunMoves
  <2> QED BY <2>1 DEF Moves
<1> SUFFICES ASSUME ~cutShort', NEW address \in DOMAIN entries', Tried(address)',
                    Waiting(address)' \in limits.refreshAfter .. 2 * limits.refreshAfter - 1
             PROVE  Cardinality(TriedSince(address)')
                       >= limits.maxLookups * Runs(Waiting(address)' - limits.refreshAfter)
  BY <1>2 DEF QuotaUsed, Runs
<1>3. ~cutShort /\ done = Selected(found) BY DEF Run
<1>4. CASE Waiting(address)' - limits.refreshAfter < RunInterval
  <2>1. Waiting(address)' - limits.refreshAfter \in Nat /\ 0 \in 0..RunInterval BY <1>1
  <2>2. Runs(Waiting(address)' - limits.refreshAfter) = 0 BY <1>4, <2>1, RunsCount
  <2>3. limits.maxLookups * Runs(Waiting(address)' - limits.refreshAfter) = 0 BY <1>1, <2>2
  <2>4. TriedSince(address)' \subseteq Addresses BY <1>2 DEF TriedSince, RefreshTypeOK
  <2>5. Cardinality(TriedSince(address)') \in Nat BY <2>4, AddressesCount
  <2> QED BY <2>3, <2>5
<1>5. CASE ~(Waiting(address)' - limits.refreshAfter < RunInterval)
  <2>1. address \notin done BY <1>1, <1>2, <1>5
  <2>2. address \in DOMAIN entries /\ Tried(address) BY <1>2, <2>1
  <2>3. Waiting(address) \in 1..Horizon BY <1>1, <2>2, EntryType
  <2>4. Waiting(address) \in limits.refreshAfter .. 2 * limits.refreshAfter - 1
    BY <1>1, <1>2, <1>5, <2>1, <2>2, <2>3
  <2>5. Run(found, Selected(found), gap, ages) /\ address \notin Selected(found)
        /\ ages \in [Selected(found) -> 1..gap]
    BY <1>3, <2>1
  <2> QED BY <1>3, <2>2, <2>4, <2>5, RunUsesQuota
<1> QED BY <1>4, <1>5

\* If an address waited for twice refreshAfter, the quota would have gone to as many
\* others as there are addresses.
LEMMA RunRefreshesInTime ==
    ASSUME RefreshInv, NEW found \in New, NEW done \in SUBSET Selected(found),
           NEW gap \in 1..RunInterval, NEW ages \in [done -> 1..gap], Run(found, done, gap, ages)
    PROVE  EnoughQuotaRefreshesInTime'
<1> DEFINE needed == Runs(limits.refreshAfter)
<1>1. /\ RefreshTypeOK
      /\ limits.maxLookups \in Nat \ {0} /\ limits.refreshAfter \in Nat \ {0}
      /\ Horizon \in Nat /\ Horizon = 2 * limits.refreshAfter + RunInterval
      /\ RunInterval \in Nat \ {0} /\ gap \in Nat /\ gap >= 1 /\ gap <= RunInterval
  BY ScheduleType DEF RefreshInv
<1>2. /\ RefreshTypeOK' /\ limits' = limits /\ DOMAIN entries' = DOMAIN entries \cup found
      /\ \A other \in done : Tried(other)' /\ Waiting(other)' \in 1..gap
      /\ \A other \in DOMAIN entries' \ done :
            /\ Tried(other)' => other \in DOMAIN entries /\ Tried(other)
            /\ other \in DOMAIN entries /\ Tried(other) =>
                  /\ Tried(other)'
                  /\ Waiting(other)' = IF Waiting(other) + gap > Horizon THEN Horizon
                                       ELSE Waiting(other) + gap
  <2>1. Moves(found, done, gap) BY <1>1, RunMoves
  <2> QED BY <2>1 DEF Moves
<1> SUFFICES ASSUME ~cutShort',
                    Cardinality(Addresses) <= limits.maxLookups * needed,
                    NEW address \in DOMAIN entries', Tried(address)',
                    ~(Waiting(address)' < 2 * limits.refreshAfter)
             PROVE  FALSE
  BY <1>2 DEF EnoughQuotaRefreshesInTime, Tried, Runs
<1>3. ~cutShort /\ done = Selected(found) BY DEF Run
<1>4. Cardinality(Addresses) \in Nat /\ Cardinality(Addresses) >= 1
  <2>1. address \in Addresses /\ IsFiniteSet(Addresses)
    BY <1>2, ScheduleAssumption DEF RefreshTypeOK
  <2>2. Cardinality(Addresses) \in Nat /\ (Cardinality(Addresses) = 0 => Addresses = {})
    BY <2>1, FS_CardinalityType, FS_EmptySet
  <2> QED BY <2>1, <2>2
<1>5. RunInterval <= limits.refreshAfter
  <2>1. limits.refreshAfter < RunInterval => needed = 0
    <3>1. 0 \in 0..RunInterval BY <1>1
    <3> QED BY <1>1, <3>1, RunsCount
  <2>2. needed # 0 BY <1>1, <1>4
  <2> QED BY <1>1, <2>1, <2>2
<1>6. address \notin done /\ address \in DOMAIN entries /\ Tried(address)
  BY <1>1, <1>2, <1>5
<1>7. Waiting(address) < 2 * limits.refreshAfter
  BY <1>3, <1>6 DEF RefreshInv, EnoughQuotaRefreshesInTime, Tried, Runs
<1>8. Waiting(address) \in 1..Horizon BY <1>1, <1>6, EntryType
<1>9. Waiting(address) \in limits.refreshAfter .. 2 * limits.refreshAfter - 1
  BY <1>1, <1>2, <1>5, <1>6, <1>7, <1>8
<1> DEFINE since == TriedSince(address)'
<1>10. /\ Waiting(address)' = Waiting(address) + gap
       /\ Cardinality(since) >= limits.maxLookups * Runs(Waiting(address)' - limits.refreshAfter)
  <2>1. Run(found, Selected(found), gap, ages) /\ address \notin Selected(found)
        /\ ages \in [Selected(found) -> 1..gap]
    BY <1>3, <1>6
  <2> QED BY <1>3, <1>6, <1>9, <2>1, RunUsesQuota
<1>11. since \cup {address} \subseteq Addresses BY <1>2 DEF TriedSince, RefreshTypeOK
<1>12. address \notin since
  <2>1. ~(Waiting(address)' <= Waiting(address)' - limits'.refreshAfter)
    BY <1>1, <1>2, <1>8, <1>10
  <2> QED BY <2>1 DEF TriedSince
<1> DEFINE longer == Waiting(address)' - limits.refreshAfter
<1>13. longer \in Nat /\ limits.refreshAfter <= longer BY <1>1, <1>8, <1>10
<1>14. Cardinality(since) >= limits.maxLookups * Runs(longer) BY <1>10
<1> HIDE DEF since, longer
<1>15. needed \in Nat /\ Runs(longer) \in Nat /\ needed <= Runs(longer)
  BY <1>1, <1>13, RunsGrow
<1>16. IsFiniteSet(since) /\ Cardinality(since) \in Nat BY <1>11, AddressesCount
<1>17. Cardinality(since \cup {address}) = Cardinality(since) + 1
  BY <1>12, <1>16, FS_AddElement
<1>18. Cardinality(since \cup {address}) <= Cardinality(Addresses)
  BY <1>11, ScheduleAssumption, FS_Subset
<1> HIDE DEF needed
<1>19. /\ limits.maxLookups * needed <= limits.maxLookups * Runs(longer)
       /\ limits.maxLookups * needed \in Nat /\ limits.maxLookups * Runs(longer) \in Nat
  BY <1>1, <1>15, QuotaGrows
<1> QED BY <1>4, <1>14, <1>16, <1>17, <1>18, <1>19

\* At first no address was looked up, and none waits for its next lookup.
LEMMA RefreshInitEstablishesInv == RefreshInit => RefreshInv
<1> SUFFICES ASSUME RefreshInit PROVE RefreshInv OBVIOUS
<1>1. DOMAIN entries = {} BY DEF RefreshInit
<1>2. RefreshTypeOK
  <2>1. entries \in [{} -> [firstSeen : 0..Cardinality(DOMAIN entries),
                            lastAttempts : LastAttempts]]
    BY <1>1 DEF RefreshInit
  <2> QED BY <1>1, <2>1 DEF RefreshInit, RefreshTypeOK
<1> QED BY <1>1, <1>2 DEF RefreshInv, QuotaUsed, EnoughQuotaRefreshesInTime

\* Every run keeps all of it.
LEMMA RunsPreserveInv == RefreshInv /\ [RefreshNext]_refreshVars => RefreshInv'
<1> SUFFICES ASSUME RefreshInv, [RefreshNext]_refreshVars PROVE RefreshInv' OBVIOUS
<1>1. CASE RefreshNext
  <2>0. PICK found \in New : \E done \in Prefixes(found) :
           \E gap \in 1..RunInterval : \E ages \in [done -> 1..gap] : Run(found, done, gap, ages)
    BY <1>1 DEF RefreshNext
  <2>1. PICK done \in SUBSET Selected(found) :
           \E gap \in 1..RunInterval : \E ages \in [done -> 1..gap] : Run(found, done, gap, ages)
    BY <2>0 DEF Prefixes
  <2>2. PICK gap \in 1..RunInterval : \E ages \in [done -> 1..gap] : Run(found, done, gap, ages)
    BY <2>1
  <2>3. PICK ages \in [done -> 1..gap] : Run(found, done, gap, ages) BY <2>2
  <2>4. RefreshTypeOK' BY <2>3, RunMoves DEF RefreshInv, Moves
  <2> QED BY <2>3, <2>4, RunKeepsQuotaUsed, RunRefreshesInTime DEF RefreshInv
<1>2. CASE UNCHANGED refreshVars
  BY <1>2 DEF refreshVars, RefreshInv, RefreshTypeOK, LastAttempts, Horizon, QuotaUsed,
              TriedSince, Tried, Waiting, Runs, EnoughQuotaRefreshesInTime
<1> QED BY <1>1, <1>2

\* With a quota that is enough for the dataset, and unless a run is cut short, no
\* address waits for its next lookup for twice refreshAfter, whatever the feeds add
\* and although selectDueAddresses puts new addresses first.
THEOREM RefreshedInTime == RefreshSpec => []EnoughQuotaRefreshesInTime
<1>1. RefreshInv => EnoughQuotaRefreshesInTime BY DEF RefreshInv
<1> QED BY <1>1, RefreshInitEstablishesInv, RunsPreserveInv, PTL DEF RefreshSpec

-----------------------------------------------------------------------------
(* The queue before an address that was never tried *)

\* Two addresses never tried are in the order of first_seen, and else of themselves.
LEMMA UntriedOrder ==
    ASSUME NEW index, NEW first, NEW second,
           ~WasTried(index[first], Enricher), ~WasTried(index[second], Enricher)
    PROVE  SortsBefore(index, Enricher, first, second)
              <=> \/ index[first].firstSeen > index[second].firstSeen
                  \/ /\ index[first].firstSeen = index[second].firstSeen
                     /\ Order[first] < Order[second]
<1>1. AttemptOf(index[first], Enricher) = 0 /\ AttemptOf(index[second], Enricher) = 0
  BY DEF AttemptOf
<1> QED BY <1>1 DEF SortsBefore, WasTried

\* A run that is not cut short and passes over an address never tried looks up only
\* addresses of the queue before it, which all it found joined.
LEMMA RunMovesBacklog ==
    ASSUME RefreshTypeOK, NEW found \in New, NEW gap \in 1..RunInterval,
           NEW ages \in [Selected(found) -> 1..gap], Run(found, Selected(found), gap, ages),
           NEW address \in DOMAIN entries, ~Tried(address), ~Tried(address)'
    PROVE  Cardinality(Ahead(address)') + limits.maxLookups
              = Cardinality(Ahead(address)) + Cardinality(DOMAIN entries' \ DOMAIN entries)
<1> DEFINE selected == Selected(found)
           index == WithFound(found)
           all == DOMAIN entries \cup found
           queue == {other \in all : /\ ~WasTried(index[other], Enricher)
                                     /\ SortsBefore(index, Enricher, other, address)}
           before == Ahead(address)
           after == Ahead(address)'
<1>1. limits.maxLookups \in Nat BY ScheduleType
<1>2. /\ DOMAIN index = all /\ all \subseteq Addresses /\ IsSortable(index)
      /\ \A other \in DOMAIN entries : index[other] = entries[other]
      /\ \A other \in found : ~WasTried(index[other], Enricher) /\ other \notin DOMAIN entries
  BY FoundIndex DEF New
<1>3. /\ DOMAIN entries' = all
      /\ \A other \in all : entries'[other].firstSeen = index[other].firstSeen
  BY <1>2 DEF Run, Aged
<1>4. ASSUME NEW other \in all
      PROVE  WasTried(entries'[other], Enricher)
                <=> other \in selected \/ WasTried(index[other], Enricher)
  <2>1. Moves(found, selected, gap)
    <3>1. selected \in SUBSET Selected(found) /\ ages \in [selected -> 1..gap]
          /\ Run(found, selected, gap, ages)
      OBVIOUS
    <3> HIDE DEF selected
    <3> QED BY <3>1, RunMoves
  <2>2. CASE other \in selected BY <2>1, <2>2 DEF Moves, Tried
  <2>3. CASE other \notin selected /\ other \in DOMAIN entries
    BY <1>2, <1>3, <2>1, <2>3 DEF Moves, Tried
  <2>4. CASE other \notin selected /\ other \notin DOMAIN entries
    BY <1>2, <1>3, <2>1, <2>4 DEF Moves, Tried
  <2> QED BY <2>2, <2>3, <2>4
<1>5. /\ address \in all /\ address \notin selected
      /\ ~WasTried(index[address], Enricher)
      /\ ~WasTried(entries[address], Enricher) /\ ~WasTried(entries'[address], Enricher)
  BY <1>2, <1>4 DEF Tried
<1> HIDE DEF index
<1>6. address \in DueAddresses(index, Enricher, limits, 0)
  BY <1>2, <1>5 DEF DueAddresses, IsDue, AttemptOf
<1>7. selected = SelectDueAddresses(index, Enricher, limits, 0) BY DEF Selected, index
<1> HIDE DEF selected
<1>8. Cardinality(selected) = limits.maxLookups /\ IsFiniteSet(selected)
  <2>1. Cardinality(selected) >= limits.maxLookups
    BY <1>1, <1>2, <1>5, <1>6, <1>7, SelectionFills
  <2>2. /\ IsFiniteSet(selected) /\ Cardinality(selected) \in Nat
        /\ Cardinality(selected) <= limits.maxLookups
    BY <1>1, <1>2, <1>7, SelectionFits
  <2> QED BY <1>1, <2>1, <2>2
<1>9. selected \subseteq queue
  <2> SUFFICES ASSUME NEW other \in selected PROVE other \in queue OBVIOUS
  <2>1. other \in all BY <1>2, <1>7 DEF SelectDueAddresses, DueAddresses
  <2>2. SortsBefore(index, Enricher, other, address)
    BY <1>1, <1>2, <1>5, <1>6, <1>7, SelectedGoFirst
  <2>3. ~WasTried(index[other], Enricher) BY <1>5, <2>2 DEF SortsBefore
  <2> QED BY <2>1, <2>2, <2>3
<1>10. found \subseteq queue
  <2> SUFFICES ASSUME NEW other \in found PROVE other \in queue OBVIOUS
  <2>1. index[other].firstSeen = Newest + 1 BY DEF index, WithFound
  <2>2. /\ index[address].firstSeen <= Newest
        /\ Newest \in Nat /\ index[address].firstSeen \in Nat
    <3>1. entries[address].firstSeen \in 0..Cardinality(DOMAIN entries) BY EntryType
    <3> QED BY <1>2, <3>1, NewestType
  <2>3. index[other].firstSeen > index[address].firstSeen BY <2>1, <2>2
  <2> QED BY <1>2, <1>5, <2>3, UntriedOrder
<1>11. before = queue \ found
  <2>1. ASSUME NEW other \in DOMAIN entries
        PROVE  SortsBefore(entries, Enricher, other, address)
                  <=> SortsBefore(index, Enricher, other, address)
    BY <1>2, <2>1 DEF SortsBefore
  <2>2. before = {other \in DOMAIN entries : /\ ~WasTried(index[other], Enricher)
                                             /\ SortsBefore(index, Enricher, other, address)}
    BY <1>2, <2>1 DEF Ahead
  <2> QED BY <1>2, <2>2
<1>12. after = queue \ selected
  <2>1. ASSUME NEW other \in all, ~WasTried(index[other], Enricher), other \notin selected
        PROVE  SortsBefore(entries', Enricher, other, address)
                  <=> SortsBefore(index, Enricher, other, address)
    <3>1. ~WasTried(entries'[other], Enricher) BY <1>4, <2>1
    <3> QED BY <1>3, <1>5, <2>1, <3>1, UntriedOrder
  <2>2. after = {other \in all : /\ ~WasTried(entries'[other], Enricher)
                                 /\ SortsBefore(entries', Enricher, other, address)}
    BY <1>3 DEF Ahead
  <2>3. ASSUME NEW other \in all
        PROVE  /\ ~WasTried(entries'[other], Enricher)
               /\ SortsBefore(entries', Enricher, other, address)
               <=> other \in queue /\ other \notin selected
    BY <1>4, <2>1, <2>3
  <2>4. queue \subseteq all OBVIOUS
  <2> HIDE DEF all, queue, after
  <2> QED BY <2>2, <2>3, <2>4
<1>13. DOMAIN entries' \ DOMAIN entries = found BY <1>2, <1>3
<1>14. IsFiniteSet(queue) /\ Cardinality(queue) \in Nat
  <2>1. queue \subseteq Addresses BY <1>2
  <2> HIDE DEF queue
  <2> QED BY <2>1, AddressesCount
<1> HIDE DEF queue, before, after
<1>15. IsFiniteSet(found) /\ Cardinality(found) \in Nat
  BY <1>10, <1>14, FS_Subset, FS_CardinalityType
<1>16. /\ Cardinality(before) = Cardinality(queue) - Cardinality(found)
       /\ Cardinality(after) = Cardinality(queue) - Cardinality(selected)
  <2>1. queue \cap found = found /\ queue \cap selected = selected BY <1>9, <1>10
  <2>2. Cardinality(queue \ found) = Cardinality(queue) - Cardinality(queue \cap found)
    BY <1>14, FS_Difference
  <2>3. Cardinality(queue \ selected) = Cardinality(queue) - Cardinality(queue \cap selected)
    BY <1>14, FS_Difference
  <2> QED BY <1>11, <1>12, <2>1, <2>2, <2>3
<1>17. Cardinality(after) + limits.maxLookups = Cardinality(before) + Cardinality(found)
  BY <1>1, <1>8, <1>14, <1>15, <1>16
<1> QED BY <1>13, <1>17 DEF before, after

\* The queue before an address never tried shrinks by the lookups of each run that is
\* not cut short and grows by all that feeds add: it is emptied if they add less, and
\* never if they always add as many, however long the address waits.
THEOREM BacklogMoves == RefreshSpec => BacklogMovesByQuota
<1>1. ASSUME RefreshInv, [RefreshNext]_refreshVars
      PROVE  [~cutShort' =>
                \A address \in DOMAIN entries :
                   (~WasTried(entries[address], Enricher) /\ ~WasTried(entries'[address], Enricher)) =>
                      Cardinality(Ahead(address)') + limits.maxLookups
                         = Cardinality(Ahead(address))
                              + Cardinality(DOMAIN entries' \ DOMAIN entries)]_refreshVars
  <2> SUFFICES ASSUME RefreshNext, ~cutShort', NEW address \in DOMAIN entries,
                      ~WasTried(entries[address], Enricher),
                      ~WasTried(entries'[address], Enricher)
               PROVE  Cardinality(Ahead(address)') + limits.maxLookups
                         = Cardinality(Ahead(address))
                              + Cardinality(DOMAIN entries' \ DOMAIN entries)
    BY <1>1
  <2>1. PICK found \in New : \E done \in SUBSET Selected(found) : \E gap \in 1..RunInterval :
           \E ages \in [done -> 1..gap] : Run(found, done, gap, ages)
    BY DEF RefreshNext, Prefixes
  <2>2. PICK done \in SUBSET Selected(found) : \E gap \in 1..RunInterval :
           \E ages \in [done -> 1..gap] : Run(found, done, gap, ages)
    BY <2>1
  <2>3. done = Selected(found) BY <2>2 DEF Run
  <2>4. PICK gap \in 1..RunInterval :
           \E ages \in [Selected(found) -> 1..gap] : Run(found, Selected(found), gap, ages)
    BY <2>2, <2>3
  <2>5. PICK ages \in [Selected(found) -> 1..gap] : Run(found, Selected(found), gap, ages)
    BY <2>4
  <2> QED BY <1>1, <2>5, RunMovesBacklog DEF RefreshInv, Tried
<1> QED
  BY <1>1, RefreshInitEstablishesInv, RunsPreserveInv, PTL
  DEF RefreshSpec, BacklogMovesByQuota
=============================================================================
