------------------------ MODULE ThrottledClientProofs ------------------------
(***************************************************************************)
(* For every number of callers, policy, set of answers and rate: what      *)
(* reaches the transport stays within the rate limit, a call keeps to its  *)
(* retry budgets, closes every body it got, tells the observer of each     *)
(* throttled response and sends nothing before its wait is over; and the   *)
(* waits of throttle.go are bounded and around the documented ones.        *)
(*                                                                         *)
(* SendsWithinRate is not inductive.  Two accounts are: a request that was *)
(* sent or is about to be has a token of its own (Paid), and what was      *)
(* taken from the bucket and what is left in it was there at first or was  *)
(* earned since (Account).  A call is followed by what it has done at each *)
(* place (GoodCall).  The last part is about RetryWaits.tla: that nothing  *)
(* overflows where it should not is a matter of powers of two.             *)
(***************************************************************************)
EXTENDS ThrottledClient, RetryWaits, FiniteSets, FiniteSetTheorems, TLAPS

-----------------------------------------------------------------------------
(* Arithmetic the provers need spelled out: products are not linear. *)

LEMMA MulMono == ASSUME NEW a \in Int, NEW b \in Int, NEW k \in Nat, a <= b
                 PROVE  a * k <= b * k
  OBVIOUS

LEMMA MulDist == ASSUME NEW a \in Int, NEW b \in Int, NEW k \in Int
                 PROVE  /\ k * a \in Int /\ a * k \in Int
                        /\ k * (a + b) = k * a + k * b
                        /\ k * (a - b) = k * a - k * b
                        /\ (a + b) * k = a * k + b * k
  OBVIOUS

-----------------------------------------------------------------------------
\* The callers that took a token and have not sent their request.
Sending == {c \in Callers : At(c, "send")}

\* What the proof needs to know of the calls.
Shape == DOMAIN call = Callers /\ \A c \in Callers : "pc" \in DOMAIN call[c]

Counts == /\ now \in Nat /\ settled \in Nat /\ settled <= now
          /\ level \in Nat /\ admissions \in Nat /\ sent \in Nat

Paid == IsFiniteSet(Sending) /\ sent + Cardinality(Sending) <= admissions

Account == level + admissions * Interval <= MaxTokens * Interval + MaxTokens * settled

IInv == Shape /\ Counts /\ Paid /\ Account

\* The steps, as far as the limiter and the transport are concerned.
Admitted(c) == /\ Limiter!Take(now)
               /\ c \notin Sending /\ Sending' = Sending \cup {c}
               /\ UNCHANGED <<sent, now>>

HandedOver(c) == /\ c \in Sending /\ Sending' = Sending \ {c}
                 /\ sent' = sent + 1
                 /\ UNCHANGED <<bucket, now>>

Elsewhere(c) == /\ Sending' \in {Sending, Sending \ {c}}
                /\ UNCHANGED bucket \/ Limiter!FindEmpty(now)
                /\ now' = now \/ (now' = now + 1 /\ UNCHANGED bucket)
                /\ UNCHANGED sent

-----------------------------------------------------------------------------
\* A step that only moves caller c to a place moves nobody else.
LEMMA Moved ==
  ASSUME Shape, NEW c \in Callers, NEW record, "pc" \in DOMAIN record,
         call' = [call EXCEPT ![c] = record]
  PROVE  /\ Shape'
         /\ Sending' = IF record.pc = "send" THEN Sending \cup {c} ELSE Sending \ {c}
  BY DEF Shape, Sending, At

\* Every step of a caller is one of the three kinds.
LEMMA CallerStep ==
  ASSUME Shape, NEW c \in Callers,
         Start(c) \/ Cancel(c) \/ Local(c) \/ Answered(c)
  PROVE  Shape' /\ (Admitted(c) \/ HandedOver(c) \/ Elsewhere(c))
<1> USE DEF Shape
<1>1. CASE Start(c)
  <2>1. PICK mode, done : call' = [call EXCEPT ![c] = NewCall(mode, done)]
    BY <1>1 DEF Start
  <2>2. "pc" \in DOMAIN NewCall(mode, done) /\ NewCall(mode, done).pc = "limit"
    BY DEF NewCall
  <2> QED
    BY <1>1, <2>1, <2>2, Moved DEF Start, Elsewhere
<1>2. CASE Cancel(c)
  BY <1>2 DEF Cancel, Elsewhere, Sending, At
<1>3. CASE LimitRefused(c) \/ SendFails(c)
  BY <1>3 DEF LimitRefused, SendFails, Finish, Elsewhere, Sending, At
<1>4. CASE LimitPassed(c)
  BY <1>4 DEF LimitPassed, Admitted, Sending, At
<1>5. CASE LimitEmpty(c)
  BY <1>5 DEF LimitEmpty, Elsewhere, Sending, At
<1>6. CASE Send(c)
  BY <1>6 DEF Send, HandedOver, Sending, At
<1>7. CASE Backoff(c)
  BY <1>7 DEF Backoff, Finish, Elsewhere, Sending, At
<1>8. CASE Wake(c)
  BY <1>8 DEF Wake, Finish, Elsewhere, Sending, At
<1>9. CASE Read(c)
  BY <1>9 DEF Read, Elsewhere, Sending, At
<1>10. CASE DoFails(c)
  BY <1>10 DEF DoFails, Finish, Elsewhere, Sending, At
<1>11. ASSUME NEW r \in Responses,
              ReceiveMaintenance(c, r) \/ Surface(c, r) \/ SurfaceThrottled(c, r) \/ Retry(c, r)
       PROVE  Shape' /\ Elsewhere(c)
  <2>1. CASE ReceiveMaintenance(c, r)
    BY <2>1 DEF ReceiveMaintenance, Elsewhere, Sending, At
  <2>2. CASE Surface(c, r)
    BY <2>2 DEF Surface, Handed, Elsewhere, Sending, At
  <2>3. CASE SurfaceThrottled(c, r)
    BY <2>3 DEF SurfaceThrottled, Handed, Elsewhere, Sending, At
  <2>4. CASE Retry(c, r)
    BY <2>4 DEF Retry, Elsewhere, Sending, At
  <2> QED
    BY <1>11, <2>1, <2>2, <2>3, <2>4
<1> QED
  BY <1>1, <1>2, <1>3, <1>4, <1>5, <1>6, <1>7, <1>8, <1>9, <1>10, <1>11 DEF Local, Answered

\* Looking at the bucket adds to it no more than was earned.
LEMMA Earned ==
  ASSUME ClientAssumption, Counts
  PROVE  /\ Limiter!LevelAt(now) \in Nat
         /\ Limiter!LevelAt(now) <= level + MaxTokens * now - MaxTokens * settled
<1>1. /\ MaxTokens \in Nat /\ Interval \in Nat /\ now \in Nat /\ settled \in Nat
      /\ level \in Nat /\ now - settled \in Nat
  BY DEF ClientAssumption, Counts
<1>2. /\ MaxTokens * (now - settled) = MaxTokens * now - MaxTokens * settled
      /\ MaxTokens * now \in Int /\ MaxTokens * settled \in Int
  BY <1>1, MulDist
<1>3. MaxTokens * Interval \in Nat /\ MaxTokens * (now - settled) \in Nat
  BY <1>1
<1> QED
  BY <1>1, <1>2, <1>3 DEF Limiter!LevelAt, Limiter!Full

LEMMA CountsStep ==
  ASSUME ClientAssumption, Counts, NEW c, Admitted(c) \/ HandedOver(c) \/ Elsewhere(c)
  PROVE  Counts'
<1>1. Limiter!LevelAt(now) \in Nat
  BY Earned
<1> QED
  BY <1>1 DEF ClientAssumption, Counts, Admitted, HandedOver, Elsewhere, bucket,
              Limiter!Take, Limiter!FindEmpty

\* An admission pays for the request it lets through.
LEMMA PaidStep ==
  ASSUME Counts, Paid, NEW c, Admitted(c) \/ HandedOver(c) \/ Elsewhere(c)
  PROVE  Paid'
<1>1. /\ IsFiniteSet(Sending) /\ Cardinality(Sending) \in Nat
      /\ sent \in Nat /\ admissions \in Nat
      /\ sent + Cardinality(Sending) <= admissions
  BY FS_CardinalityType DEF Counts, Paid
<1>2. CASE Admitted(c)
  <2>1. IsFiniteSet(Sending') /\ Cardinality(Sending') = Cardinality(Sending) + 1
    BY <1>1, <1>2, FS_AddElement DEF Admitted
  <2>2. sent' = sent /\ admissions' = admissions + 1
    BY <1>2 DEF Admitted, Limiter!Take
  <2> QED
    BY <1>1, <2>1, <2>2 DEF Paid
<1>3. CASE HandedOver(c)
  <2>1. IsFiniteSet(Sending') /\ Cardinality(Sending') = Cardinality(Sending) - 1
    BY <1>1, <1>3, FS_RemoveElement DEF HandedOver
  <2>2. sent' = sent + 1 /\ admissions' = admissions
    BY <1>3 DEF HandedOver, bucket
  <2> QED
    BY <1>1, <2>1, <2>2 DEF Paid
<1>4. CASE Elsewhere(c)
  <2>1. IsFiniteSet(Sending') /\ Cardinality(Sending') \in {Cardinality(Sending), Cardinality(Sending) - 1}
    BY <1>1, <1>4, FS_RemoveElement DEF Elsewhere
  <2>2. sent' = sent /\ admissions' = admissions
    BY <1>4 DEF Elsewhere, bucket, Limiter!FindEmpty
  <2> QED
    BY <1>1, <2>1, <2>2 DEF Paid
<1> QED
  BY <1>2, <1>3, <1>4

\* An admission takes from the bucket what it adds to the admissions.
LEMMA AccountStep ==
  ASSUME ClientAssumption, Counts, Account, NEW c, Admitted(c) \/ HandedOver(c) \/ Elsewhere(c)
  PROVE  Account'
<1>1. /\ MaxTokens \in Nat /\ Interval \in Nat
      /\ now \in Nat /\ settled \in Nat /\ level \in Nat /\ admissions \in Nat
  BY DEF ClientAssumption, Counts
<1>2. /\ MaxTokens * Interval \in Int /\ MaxTokens * now \in Int /\ MaxTokens * settled \in Int
      /\ admissions * Interval \in Int
      /\ (admissions + 1) * Interval = admissions * Interval + Interval
  BY <1>1, MulDist
<1>3. /\ Limiter!LevelAt(now) \in Nat
      /\ Limiter!LevelAt(now) <= level + MaxTokens * now - MaxTokens * settled
  BY Earned
<1>4. CASE Limiter!Take(now)
  <2>1. level' = Limiter!LevelAt(now) - Interval /\ settled' = now /\ admissions' = admissions + 1
    BY <1>4 DEF Limiter!Take
  <2> QED
    BY <1>1, <1>2, <1>3, <2>1 DEF Account
<1>5. CASE Limiter!FindEmpty(now)
  <2>1. level' = Limiter!LevelAt(now) /\ settled' = now /\ admissions' = admissions
    BY <1>5 DEF Limiter!FindEmpty
  <2> QED
    BY <1>1, <1>2, <1>3, <2>1 DEF Account
<1>6. CASE UNCHANGED bucket
  BY <1>6 DEF Account, bucket
<1> QED
  BY <1>4, <1>5, <1>6 DEF Admitted, HandedOver, Elsewhere

-----------------------------------------------------------------------------
LEMMA Begins == ASSUME ClientAssumption, Init
                PROVE  IInv
<1>1. Shape
  BY DEF Init, Shape, NewCall
<1>2. Sending = {}
  BY DEF Init, Sending, At, NewCall
<1>3. Cardinality({}) = 0 /\ IsFiniteSet({})
  BY FS_EmptySet
<1>4. MaxTokens * Interval \in Nat /\ MaxTokens * 0 = 0 /\ 0 * Interval = 0
  BY DEF ClientAssumption
<1>5. /\ now = 0 /\ settled = 0 /\ admissions = 0 /\ sent = 0
      /\ level = MaxTokens * Interval
  BY DEF Init, Limiter!BucketInit, Limiter!Full
<1> QED
  BY <1>1, <1>2, <1>3, <1>4, <1>5 DEF IInv, Counts, Paid, Account

LEMMA Goes == ASSUME ClientAssumption, IInv, [Next]_vars
              PROVE  IInv'
<1>1. ASSUME NEW c, Shape', Admitted(c) \/ HandedOver(c) \/ Elsewhere(c)
      PROVE  IInv'
  BY <1>1, CountsStep, PaidStep, AccountStep DEF IInv
<1>2. ASSUME NEW c \in Callers, Start(c) \/ Cancel(c) \/ Local(c) \/ Answered(c)
      PROVE  IInv'
  BY <1>1, <1>2, CallerStep DEF IInv
<1>3. CASE Tick \/ UNCHANGED vars
  <2>1. /\ UNCHANGED <<call, bucket, sent>>
        /\ now' \in {now, now + 1}
    BY <1>3 DEF Tick, vars
  <2>2. Shape' /\ Elsewhere({})
    BY <2>1 DEF IInv, Shape, Elsewhere, Sending, At
  <2> QED
    BY <1>1, <2>2
<1> QED
  BY <1>2, <1>3 DEF Next

\* Each request that was sent has a token, and the tokens are those of the rate.
LEMMA Suffices == ASSUME ClientAssumption, IInv
                  PROVE  SendsWithinRate
<1>1. /\ MaxTokens \in Nat /\ Interval \in Nat /\ now \in Nat /\ settled \in Nat /\ settled <= now
      /\ level \in Nat /\ admissions \in Nat /\ sent \in Nat
  BY DEF ClientAssumption, IInv, Counts
<1>2. sent <= admissions
  BY <1>1, FS_CardinalityType DEF IInv, Paid
<1>3. sent * Interval <= admissions * Interval
  BY <1>1, <1>2, MulMono
<1>4. settled * MaxTokens <= now * MaxTokens
  BY <1>1, MulMono
<1>5. /\ MaxTokens * settled = settled * MaxTokens /\ MaxTokens * now = now * MaxTokens
      /\ MaxTokens * settled \in Int /\ MaxTokens * now \in Int /\ MaxTokens * Interval \in Int
      /\ sent * Interval \in Int /\ admissions * Interval \in Int
  BY <1>1
<1> QED
  BY <1>1, <1>3, <1>4, <1>5 DEF IInv, Account, SendsWithinRate

\* However the calls of any number of callers interleave, are throttled, cancelled and
\* retried, what GetContext hands to the transport stays within the configured rate.
THEOREM SendsAtRate == Spec => []SendsWithinRate
<1>1. Init => IInv
  BY Begins, ClientAssumption
<1>2. IInv /\ [Next]_vars => IInv'
  BY Goes, ClientAssumption
<1>3. IInv => SendsWithinRate
  BY Suffices, ClientAssumption
<1> QED
  BY <1>1, <1>2, <1>3, PTL DEF Spec

-----------------------------------------------------------------------------
(* One call at a time: what its locals say of its retries, bodies and events *)

Places == {"idle", "limit", "send", "inflight", "backoff", "sleep", "read", "done"}
Results == {"none", "response", "error", "maintenance", "statusError", "bytes"}
Headers == {NoHeader} \cup {r.header : r \in Responses}
Events == [status : Nat, header : Headers, attempt : Nat, wait : Int, retryAfter : Int,
           at : Nat, willRetry : BOOLEAN]
CallRecords ==
  [pc : Places, mode : {"get", "raw"}, cancelled : BOOLEAN, attempts : [ThrottledStatuses -> Nat],
   attempt : Nat, wakeAt : Int, open : Int, emitted : Nat, event : Events, final : Nat,
   result : Results]
PolicyRecords == [disabled : BOOLEAN, retries : [ThrottledStatuses -> Nat], base : Int,
                  max : Int, cap : Int]

\* The retries of a call, and whether it ended with a throttled response.
Used(r) == r.attempts[TooManyRequests] + r.attempts[Forbidden]
Spent(r, p) == r.final \in ThrottledStatuses /\ ~p.disabled

\* Every response but the one in hand was retried, at the expense of its class.
Budget(r, p) ==
  /\ \A s \in ThrottledStatuses : r.attempts[s] <= p.retries[s]
  /\ p.disabled => Used(r) = 0
  /\ r.pc \in Places \ {"read", "done"} => r.attempt = Used(r) /\ r.final = 0
  /\ r.attempt <= Used(r) + 1
  /\ Spent(r, p) => r.attempts[r.final] = p.retries[r.final]

Bodies(r) ==
  /\ r.open = IF r.pc = "read" \/ (r.pc = "done" /\ r.result = "response") THEN 1 ELSE 0
  /\ r.pc # "done" => r.result # "response"

Told(r, p) ==
  /\ r.emitted = Used(r) + (IF Spent(r, p) THEN 1 ELSE 0)
  /\ r.event.attempt = r.emitted
  /\ Spent(r, p) => ~r.event.willRetry /\ r.event.status = r.final /\ r.event.wait = 0
  /\ r.emitted > 0 /\ ~Spent(r, p) => r.event.willRetry

\* The wait of the last event is over when the call is back at the limiter.
Waited(r, t) ==
  /\ r.event.at <= t
  /\ r.pc = "sleep" => r.wakeAt >= r.event.at + r.event.wait
  /\ r.pc \in {"limit", "send"} => t >= r.event.at + r.event.wait

GoodCall(r, p, t) == Budget(r, p) /\ Bodies(r) /\ Told(r, p) /\ Waited(r, t)

CallsInv == /\ raw \in Policies /\ now \in Nat
            /\ call \in [Callers -> CallRecords]
            /\ \A c \in Callers : GoodCall(call[c], policy, now)

-----------------------------------------------------------------------------
LEMMA PolicyFields == ASSUME PoliciesAssumption, raw \in Policies PROVE policy \in PolicyRecords
<1>1. raw \in [disabled : BOOLEAN, retries : [ThrottledStatuses -> Int],
               base : Int, max : Int, cap : Int]
  BY DEF PoliciesAssumption
<1>2. \A s \in ThrottledStatuses : ResolvedRetries(raw.retries[s], Defaults.retries[s]) \in Nat
  BY <1>1 DEF PoliciesAssumption, ResolvedRetries
<1>3. /\ ResolvedDuration(raw.base, Defaults.base) \in Int
      /\ ResolvedDuration(raw.max, Defaults.max) \in Int
      /\ ResolvedDuration(raw.cap, Defaults.cap) \in Int
  BY <1>1 DEF PoliciesAssumption, ResolvedDuration
<1> QED
  BY <1>1, <1>2, <1>3 DEF policy, Resolved, PolicyRecords

LEMMA WaitFields ==
  ASSUME WidthAssumption, NEW p \in PolicyRecords, NEW status, NEW header, NEW n \in Nat, NEW t \in Nat,
         HasRetryAfter(header) => header.value \in Int,
         NEW w \in ThrottleWaits(p, status, header, n, t)
  PROVE  w.wait \in Int /\ w.retryAfter \in Int
<1>1. ParsedRetryAfter(header, t) \in Int
  <2>1. MaxDuration \in Int
    BY DEF MaxDuration, WidthAssumption
  <2> QED
    BY <2>1 DEF ParsedRetryAfter, AtMost, HasRetryAfter
<1>2. AtMost(ParsedRetryAfter(header, t), p.cap) \in Int
  BY <1>1 DEF AtMost, PolicyRecords
<1>3. \A b \in Backoffs(p.base, p.max, n) : b \in Int
  <2>1. p.max \in Int
    BY DEF PolicyRecords
  <2>2. \A d : \A j \in Jittered(d) : j \in Int
    BY DEF Jittered, Durations
  <2> QED
    BY <2>1, <2>2 DEF Backoffs, AtMost
<1> QED
  BY <1>1, <1>2, <1>3 DEF ThrottleWaits

EventIs(c, r, w, retry) ==
  /\ Event(c, r, w, retry) \in Events
  /\ Event(c, r, w, retry).attempt = call[c].attempt + 1
  /\ Event(c, r, w, retry).status = r.status
  /\ Event(c, r, w, retry).at = now
  /\ Event(c, r, w, retry).wait = w.wait
  /\ Event(c, r, w, retry).willRetry = retry
  /\ Event(c, r, w, retry) # NoEvent

LEMMA EventFields ==
  ASSUME PoliciesAssumption, ResponsesAssumption, CallsInv, NEW c \in Callers, NEW r \in Responses,
         NEW w, w.wait \in Int, w.retryAfter \in Int
  PROVE  EventIs(c, r, w, TRUE) /\ EventIs(c, r, w, FALSE)
<1>1. call[c].attempt \in Nat /\ now \in Nat
  BY DEF CallsInv, CallRecords
<1>2. r.status \in Nat /\ r.header \in Headers
  BY DEF ResponsesAssumption, Headers
<1>3. NoEvent.attempt = 0
  BY DEF NoEvent
<1>4. EventIs(c, r, w, TRUE)
  <2>1. Event(c, r, w, TRUE) \in Events
    BY <1>1, <1>2 DEF Events, Event
  <2> QED
    BY <1>1, <1>3, <2>1 DEF EventIs, Event
<1>5. EventIs(c, r, w, FALSE)
  <2>1. Event(c, r, w, FALSE) \in Events
    BY <1>1, <1>2 DEF Events, Event
  <2> QED
    BY <1>1, <1>3, <2>1 DEF EventIs, Event
<1> QED
  BY <1>4, <1>5

\* A step that gives c another good record keeps all records good.
LEMMA Became ==
  ASSUME CallsInv, NEW c \in Callers, NEW r \in CallRecords, GoodCall(r, policy, now),
         call' = [call EXCEPT ![c] = r], UNCHANGED <<raw, now>>
  PROVE  CallsInv'
<1>1. policy' = policy
  BY DEF policy
<1>2. \A d \in Callers : GoodCall(call'[d], policy, now)
  BY DEF CallsInv
<1> QED
  BY <1>1, <1>2 DEF CallsInv

\* What is known of the record of a caller.
LEMMA Known ==
  ASSUME PoliciesAssumption, CallsInv, NEW c \in Callers
  PROVE  /\ call[c] \in CallRecords /\ GoodCall(call[c], policy, now)
         /\ policy \in PolicyRecords /\ now \in Nat
  BY PolicyFields DEF CallsInv

-----------------------------------------------------------------------------
LEMMA StartGood == ASSUME PoliciesAssumption, CallsInv, NEW c \in Callers, Start(c) PROVE CallsInv'
<1>1. PICK mode \in {"get", "raw"}, done \in BOOLEAN : call' = [call EXCEPT ![c] = NewCall(mode, done)]
  BY DEF Start
<1> DEFINE q == NewCall(mode, done)
<1>2. NoEvent \in Events /\ NoEvent.attempt = 0 /\ NoEvent.at = 0 /\ NoEvent.wait = 0
  BY DEF NoEvent, Events, Headers
<1>3. /\ q \in CallRecords /\ q.pc = "limit" /\ q.attempt = 0 /\ q.open = 0 /\ q.emitted = 0
      /\ q.event = NoEvent /\ q.final = 0 /\ q.result = "none" /\ q.attempts = [s \in ThrottledStatuses |-> 0]
  BY <1>2 DEF NewCall, CallRecords, Places, Results
<1> HIDE DEF q
<1>4. GoodCall(q, policy, now)
  <2>1. Used(q) = 0 /\ \A s \in ThrottledStatuses : q.attempts[s] = 0
    BY <1>3 DEF Used, ThrottledStatuses
  <2>2. policy \in PolicyRecords /\ now \in Nat
    BY Known
  <2>3. ~Spent(q, policy)
    BY <1>3 DEF Spent, ThrottledStatuses, TooManyRequests, Forbidden
  <2>4. Budget(q, policy)
    BY <1>3, <2>1, <2>2, <2>3 DEF Budget, PolicyRecords
  <2>5. Bodies(q) /\ Told(q, policy) /\ Waited(q, now)
    BY <1>2, <1>3, <2>1, <2>2, <2>3 DEF Bodies, Told, Waited
  <2> QED
    BY <2>4, <2>5 DEF GoodCall
<1> QED
  BY <1>1, <1>3, <1>4, Became DEF Start, q

LEMMA CancelGood == ASSUME PoliciesAssumption, CallsInv, NEW c \in Callers, Cancel(c) PROVE CallsInv'
<1> DEFINE r == call[c]
           q == [r EXCEPT !.cancelled = TRUE]
<1>1. r \in CallRecords /\ GoodCall(r, policy, now)
  BY Known
<1>2. /\ q \in CallRecords /\ q.pc = r.pc /\ q.attempts = r.attempts /\ q.attempt = r.attempt
      /\ q.open = r.open /\ q.emitted = r.emitted /\ q.event = r.event /\ q.final = r.final
      /\ q.result = r.result /\ q.wakeAt = r.wakeAt
  BY <1>1 DEF CallRecords
<1>3. call' = [call EXCEPT ![c] = q]
  BY DEF Cancel
<1> HIDE DEF q, r
<1>4. Used(q) = Used(r) /\ Spent(q, policy) = Spent(r, policy)
  BY <1>2 DEF Used, Spent
<1>5. GoodCall(q, policy, now)
  BY <1>1, <1>2, <1>4 DEF GoodCall, Budget, Bodies, Told, Waited
<1> QED
  BY <1>2, <1>3, <1>5, Became DEF Cancel

\* A call that holds no response fails, or goes on to another place.
LEMMA PlaceGood ==
  ASSUME PoliciesAssumption, CallsInv, NEW c \in Callers, call[c].pc \in Places \ {"read", "done"},
         NEW place \in Places \ {"read"}, NEW result \in Results \ {"response"}, NEW wake \in Int,
         call' = [call EXCEPT ![c] = [call[c] EXCEPT !.pc = place, !.result = result, !.wakeAt = wake]],
         place = "sleep" => wake >= call[c].event.at + call[c].event.wait,
         place \in {"limit", "send"} => now >= call[c].event.at + call[c].event.wait,
         UNCHANGED <<raw, now>>
  PROVE  CallsInv'
<1> DEFINE r == call[c]
           q == [r EXCEPT !.pc = place, !.result = result, !.wakeAt = wake]
<1>1. r \in CallRecords /\ GoodCall(r, policy, now)
  BY Known
<1>2. /\ q \in CallRecords /\ q.pc = place /\ q.attempts = r.attempts /\ q.attempt = r.attempt
      /\ q.open = r.open /\ q.emitted = r.emitted /\ q.event = r.event /\ q.final = r.final
      /\ q.result = result /\ q.wakeAt = wake
  BY <1>1 DEF CallRecords
<1>3. call' = [call EXCEPT ![c] = q]
  OBVIOUS
<1> HIDE DEF q
<1>4. Used(q) = Used(r) /\ Spent(q, policy) = Spent(r, policy)
  BY <1>2 DEF Used, Spent
<1>5. Budget(q, policy) /\ Told(q, policy) /\ Waited(q, now)
  BY <1>1, <1>2, <1>4 DEF GoodCall, Budget, Told, Waited
<1>6. Bodies(q)
  BY <1>1, <1>2 DEF GoodCall, Bodies
<1>7. GoodCall(q, policy, now)
  BY <1>5, <1>6 DEF GoodCall
<1> QED
  BY <1>2, <1>3, <1>7, Became

\* The ways a call moves without a response: errors, the limiter, the request, the sleep.
LEMMA MoveGood ==
  ASSUME PoliciesAssumption, CallsInv, NEW c \in Callers,
         \/ LimitRefused(c) \/ LimitPassed(c) \/ SendFails(c) \/ Send(c) \/ DoFails(c)
         \/ Backoff(c) \/ Wake(c)
  PROVE  CallsInv'
<1> DEFINE r == call[c]
           To(place, result, wake) ==
             call' = [call EXCEPT ![c] = [r EXCEPT !.pc = place, !.result = result, !.wakeAt = wake]]
<1>1. /\ r \in CallRecords /\ Waited(r, now) /\ call \in [Callers -> CallRecords]
      /\ now \in Nat /\ UNCHANGED <<raw, now>> /\ r.wakeAt \in Int /\ r.result \in Results
      /\ r.event.wait \in Int /\ r.event.at \in Nat /\ Bodies(r)
  <2>1. r \in CallRecords /\ GoodCall(r, policy, now) /\ now \in Nat
    BY Known
  <2>2. call \in [Callers -> CallRecords]
    BY DEF CallsInv
  <2>3. UNCHANGED <<raw, now>>
    BY DEF LimitRefused, LimitPassed, SendFails, Send, DoFails, Backoff, Wake
  <2>4. r.wakeAt \in Int /\ r.result \in Results /\ r.event \in Events
    BY <2>1 DEF CallRecords
  <2> QED
    BY <2>1, <2>2, <2>3, <2>4 DEF GoodCall, Events
<1>2. r.pc \in Places \ {"read", "done"}
  BY DEF LimitRefused, LimitPassed, SendFails, Send, DoFails, Backoff, Wake, At, Places
<1>3. CASE Finish(c, "error")
  <2>1. To("done", "error", r.wakeAt)
    BY <1>1, <1>3 DEF Finish, CallRecords
  <2>2. "error" \in Results \ {"response"} /\ "done" \in Places \ {"read"}
    BY DEF Results, Places
  <2> QED
    BY <1>1, <1>2, <2>1, <2>2, PlaceGood
<1>4. ASSUME NEW place \in {"limit", "send", "inflight"}, call' = [call EXCEPT ![c].pc = place],
             place # "inflight" => now >= r.event.at + r.event.wait
      PROVE  CallsInv'
  <2>1. To(place, r.result, r.wakeAt)
    BY <1>1, <1>4 DEF CallRecords
  <2>2. place \in Places \ {"read"}
    BY DEF Places
  <2>3. r.result # "response"
    BY <1>1, <1>2 DEF Bodies
  <2>4. /\ r.result \in Results \ {"response"} /\ place # "sleep"
        /\ place \in {"limit", "send"} => now >= r.event.at + r.event.wait
    BY <1>1, <1>4, <2>3
  <2> QED
    BY <1>1, <1>2, <2>1, <2>2, <2>4, PlaceGood
<1>5. CASE Backoff(c)
  <2>1. CASE call[c].event.wait <= 0 /\ call' = [call EXCEPT ![c].pc = "limit"]
    BY <1>1, <1>4, <2>1 DEF Waited
  <2>2. CASE call' = [call EXCEPT ![c].pc = "sleep", ![c].wakeAt = now + call[c].event.wait]
    <3>1. To("sleep", r.result, now + r.event.wait)
      BY <1>1, <2>2 DEF CallRecords
    <3>2. "sleep" \in Places \ {"read"} /\ now + r.event.wait \in Int
      BY <1>1 DEF Places
    <3>3. now + r.event.wait >= r.event.at + r.event.wait
      BY <1>1 DEF Waited
    <3>4. r.result # "response"
      BY <1>1, <1>2 DEF Bodies
    <3> QED
      BY <1>1, <1>2, <3>1, <3>2, <3>3, <3>4, PlaceGood
  <2> QED
    BY <1>3, <1>5, <2>1, <2>2 DEF Backoff
<1>6. CASE Wake(c)
  <2>1. CASE now >= call[c].wakeAt /\ call' = [call EXCEPT ![c].pc = "limit"]
    <3>1. now >= r.event.at + r.event.wait
      BY <1>1, <1>6, <2>1 DEF Wake, At, Waited
    <3> QED
      BY <1>4, <2>1, <3>1
  <2> QED
    BY <1>3, <1>6, <2>1 DEF Wake
<1>7. CASE LimitPassed(c)
  BY <1>1, <1>4, <1>7 DEF LimitPassed, At, Waited
<1>8. CASE Send(c)
  BY <1>1, <1>4, <1>8 DEF Send, At, Waited
<1> QED
  BY <1>3, <1>5, <1>6, <1>7, <1>8 DEF LimitRefused, SendFails, DoFails

\* The response in hand is read and closed.
LEMMA ReadGood == ASSUME PoliciesAssumption, CallsInv, NEW c \in Callers, Read(c) PROVE CallsInv'
<1>1. PICK result \in {"statusError", "bytes", "error"} :
        call' = [call EXCEPT ![c].pc = "done", ![c].open = @ - 1, ![c].result = result]
  BY DEF Read
<1> DEFINE r == call[c]
           q == [r EXCEPT !.pc = "done", !.open = r.open - 1, !.result = result]
<1>2. /\ r \in CallRecords /\ GoodCall(r, policy, now) /\ r.pc = "read"
      /\ call \in [Callers -> CallRecords]
  BY Known DEF Read, At, CallsInv
<1>3. /\ q \in CallRecords /\ q.pc = "done" /\ q.attempts = r.attempts /\ q.attempt = r.attempt
      /\ q.open = r.open - 1 /\ q.emitted = r.emitted /\ q.event = r.event /\ q.final = r.final
      /\ q.result = result
  <2>1. r.open - 1 \in Int /\ result \in Results /\ "done" \in Places
    BY <1>2 DEF CallRecords, Places, Results
  <2>2. q \in CallRecords
    BY <1>2, <2>1 DEF CallRecords
  <2> QED
    BY <1>2, <2>2 DEF CallRecords
<1>4. call' = [call EXCEPT ![c] = q]
  BY <1>1, <1>2 DEF CallRecords
<1> HIDE DEF q
<1>5. Used(q) = Used(r) /\ Spent(q, policy) = Spent(r, policy)
  BY <1>3 DEF Used, Spent
<1>6. Budget(q, policy) /\ Told(q, policy) /\ Waited(q, now)
  BY <1>2, <1>3, <1>5 DEF GoodCall, Budget, Told, Waited
<1>7. Bodies(q)
  BY <1>2, <1>3 DEF GoodCall, Bodies
<1>8. GoodCall(q, policy, now)
  BY <1>6, <1>7 DEF GoodCall
<1> QED
  BY <1>3, <1>4, <1>8, Became DEF Read

\* A maintenance response: its body is closed, no retry and no event.
LEMMA MaintenanceGood ==
  ASSUME PoliciesAssumption, CallsInv, NEW c \in Callers, NEW a \in Responses, ReceiveMaintenance(c, a)
  PROVE  CallsInv'
<1> DEFINE r == call[c]
           result == IF a.body = "maintenance" THEN "maintenance" ELSE "error"
           q == [r EXCEPT !.pc = "done", !.attempt = r.attempt + 1, !.result = result]
<1>1. /\ r \in CallRecords /\ GoodCall(r, policy, now) /\ r.pc = "inflight" /\ policy \in PolicyRecords
      /\ call \in [Callers -> CallRecords]
  BY Known DEF ReceiveMaintenance, At, CallsInv
<1>2. /\ q \in CallRecords /\ q.pc = "done" /\ q.attempts = r.attempts /\ q.attempt = r.attempt + 1
      /\ q.open = r.open /\ q.emitted = r.emitted /\ q.event = r.event /\ q.final = r.final
      /\ q.result # "response"
  <2>1. r.attempt + 1 \in Nat /\ result \in Results \ {"response"} /\ "done" \in Places
    BY <1>1 DEF CallRecords, Places, Results
  <2> HIDE DEF result
  <2>2. q \in CallRecords
    BY <1>1, <2>1 DEF CallRecords
  <2> QED
    BY <1>1, <2>1, <2>2 DEF CallRecords
<1>3. call' = [call EXCEPT ![c] = q]
  BY <1>1 DEF CallRecords, ReceiveMaintenance
<1> HIDE DEF q
<1>4. Used(q) = Used(r) /\ Spent(q, policy) = Spent(r, policy) /\ r.attempt = Used(r) /\ r.attempt \in Nat
  BY <1>1, <1>2 DEF Used, Spent, GoodCall, Budget, Places, CallRecords
<1>5. Budget(q, policy) /\ Told(q, policy) /\ Waited(q, now)
  BY <1>1, <1>2, <1>4 DEF GoodCall, Budget, Told, Waited
<1>6. Bodies(q)
  BY <1>1, <1>2 DEF GoodCall, Bodies
<1>7. GoodCall(q, policy, now)
  BY <1>5, <1>6 DEF GoodCall
<1> QED
  BY <1>2, <1>3, <1>7, Became DEF ReceiveMaintenance

\* A response is handed over: one that is not throttled, or the last of its class.
LEMMA HandedGood ==
  ASSUME PoliciesAssumption, ResponsesAssumption, CallsInv, NEW c \in Callers, NEW a \in Responses, call[c].pc = "inflight",
         NEW event \in Events, Handed(c, a, event), UNCHANGED <<raw, now>>,
         \/ event = NoEvent /\ ~Throttled(a.status)
         \/ /\ event # NoEvent /\ Throttled(a.status)
            /\ policy.retries[a.status] - call[c].attempts[a.status] <= 0
            /\ event.attempt = call[c].attempt + 1 /\ event.status = a.status
            /\ event.at = now /\ event.wait = 0 /\ ~event.willRetry
  PROVE  CallsInv'
<1> DEFINE r == call[c]
           place == IF r.mode = "get" THEN "done" ELSE "read"
           result == IF r.mode = "get" THEN "response" ELSE "none"
           more == IF event = NoEvent THEN 0 ELSE 1
           last == IF event = NoEvent THEN r.event ELSE event
           q == [r EXCEPT !.pc = place, !.attempt = r.attempt + 1, !.open = r.open + 1,
                          !.final = a.status, !.result = result, !.emitted = r.emitted + more,
                          !.event = last]
<1>1. /\ r \in CallRecords /\ GoodCall(r, policy, now) /\ policy \in PolicyRecords /\ now \in Nat
      /\ call \in [Callers -> CallRecords] /\ a.status \in Nat
  BY Known DEF CallsInv, ResponsesAssumption
<1>2. /\ r.attempt \in Nat /\ r.open \in Int /\ r.emitted \in Nat /\ more \in Nat /\ r.event \in Events
      /\ place \in Places /\ result \in Results /\ last \in Events
      /\ r.attempts \in [ThrottledStatuses -> Nat]
  BY <1>1 DEF CallRecords, Places, Results
<1>3. call' = [call EXCEPT ![c] = q]
  BY <1>1, <1>2 DEF CallRecords, Handed
<1> HIDE DEF place, result, more, last
<1>4. /\ q \in CallRecords /\ q.pc = place /\ q.attempts = r.attempts /\ q.attempt = r.attempt + 1
      /\ q.open = r.open + 1 /\ q.emitted = r.emitted + more /\ q.event = last
      /\ q.final = a.status /\ q.result = result
  <2>1. r.attempt + 1 \in Nat /\ r.open + 1 \in Int /\ r.emitted + more \in Nat
    BY <1>2
  <2>2. q \in CallRecords
    BY <1>1, <1>2, <2>1 DEF CallRecords
  <2> QED
    BY <1>1, <2>2 DEF CallRecords
<1> HIDE DEF q
<1>5. /\ Used(q) = Used(r) /\ r.attempt = Used(r) /\ r.final = 0 /\ ~Spent(r, policy)
      /\ Spent(q, policy) = Throttled(a.status)
  BY <1>1, <1>4 DEF Used, Spent, Throttled, GoodCall, Budget, Places, ThrottledStatuses,
                    TooManyRequests, Forbidden
<1>6. Bodies(q)
  BY <1>1, <1>2, <1>4 DEF GoodCall, Bodies, place, result
<1>7. Waited(q, now)
  BY <1>1, <1>4 DEF GoodCall, Waited, place, last
<1>8. CASE event = NoEvent /\ ~Throttled(a.status)
  <2>1. Budget(q, policy)
    BY <1>1, <1>2, <1>4, <1>5, <1>8 DEF GoodCall, Budget, place, Places
  <2>2. Told(q, policy)
    BY <1>1, <1>2, <1>4, <1>5, <1>8 DEF GoodCall, Told, more, last
  <2> QED
    BY <1>3, <1>4, <1>6, <1>7, <2>1, <2>2, Became DEF GoodCall
<1>9. CASE /\ event # NoEvent /\ Throttled(a.status)
           /\ policy.retries[a.status] - call[c].attempts[a.status] <= 0
           /\ event.attempt = call[c].attempt + 1 /\ event.status = a.status
           /\ event.at = now /\ event.wait = 0 /\ ~event.willRetry
  <2>1. r.attempts[a.status] = policy.retries[a.status]
    <3>1. a.status \in ThrottledStatuses
      BY <1>9 DEF Throttled
    <3>2. r.attempts[a.status] <= policy.retries[a.status]
      BY <1>1, <3>1 DEF GoodCall, Budget
    <3>3. r.attempts[a.status] \in Nat /\ policy.retries[a.status] \in Nat
      BY <1>1, <1>2, <3>1 DEF PolicyRecords
    <3> QED
      BY <1>9, <3>2, <3>3
  <2>2. Budget(q, policy)
    BY <1>1, <1>2, <1>4, <1>5, <1>9, <2>1 DEF GoodCall, Budget, place, Places
  <2>3. Told(q, policy)
    BY <1>1, <1>2, <1>4, <1>5, <1>9 DEF GoodCall, Told, more, last
  <2> QED
    BY <1>3, <1>4, <1>6, <1>7, <2>2, <2>3, Became DEF GoodCall
<1> QED
  BY <1>8, <1>9

LEMMA SurfaceGood ==
  ASSUME PoliciesAssumption, ResponsesAssumption, WidthAssumption, CallsInv, NEW c \in Callers, NEW a \in Responses,
         Surface(c, a) \/ SurfaceThrottled(c, a)
  PROVE  CallsInv'
<1>1. NoEvent \in Events
  BY DEF NoEvent, Events, Headers
<1>2. CASE Surface(c, a)
  BY <1>1, <1>2, HandedGood DEF Surface, At
<1>3. CASE SurfaceThrottled(c, a)
  <2> DEFINE w == [wait |-> 0, retryAfter |-> ParsedRetryAfter(a.header, now)]
             event == Event(c, a, w, FALSE)
  <2>1. ParsedRetryAfter(a.header, now) \in Int
    <3>1. MaxDuration \in Int
      BY DEF MaxDuration, WidthAssumption
    <3> QED
      BY <3>1 DEF CallsInv, ResponsesAssumption, ParsedRetryAfter, AtMost, HasRetryAfter
  <2>2. w.wait = 0 /\ w.wait \in Int /\ w.retryAfter \in Int
    BY <2>1
  <2> HIDE DEF w
  <2>3. /\ event \in Events /\ event.attempt = call[c].attempt + 1 /\ event.status = a.status
        /\ event.at = now /\ event.wait = 0 /\ event.willRetry = FALSE /\ event # NoEvent
    <3>1. EventIs(c, a, w, FALSE) /\ PoliciesAssumption
      BY <2>2, EventFields
    <3>2. event.wait = 0
      BY <2>2, <3>1 DEF EventIs
    <3> QED
      BY <3>1, <3>2, Zenon DEF EventIs
  <2>4. Handed(c, a, event)
    BY <1>3 DEF SurfaceThrottled, w
  <2> HIDE DEF event
  <2> QED
    BY <1>3, <2>3, <2>4, HandedGood DEF SurfaceThrottled, At
<1> QED
  BY <1>2, <1>3

\* A retry: one more of its class, one more event, the body closed.
LEMMA RetryGood ==
  ASSUME PoliciesAssumption, ResponsesAssumption, WidthAssumption, CallsInv, NEW c \in Callers, NEW a \in Responses, Retry(c, a)
  PROVE  CallsInv'
<1> DEFINE r == call[c]
           s == a.status
<1>1. /\ r \in CallRecords /\ GoodCall(r, policy, now) /\ policy \in PolicyRecords /\ now \in Nat
      /\ call \in [Callers -> CallRecords] /\ r.pc = "inflight"
      /\ r.attempts \in [ThrottledStatuses -> Nat] /\ r.attempt \in Nat /\ r.emitted \in Nat
  BY Known DEF CallsInv, CallRecords, Retry, At
<1>2. s \in ThrottledStatuses /\ ~policy.disabled /\ r.attempts[s] + 1 <= policy.retries[s]
  <2>1. s \in ThrottledStatuses /\ ~policy.disabled /\ policy.retries[s] - r.attempts[s] > 0
    BY DEF Retry, Throttled
  <2>2. policy.retries[s] \in Nat /\ r.attempts[s] \in Nat
    BY <1>1, <2>1 DEF PolicyRecords
  <2> QED
    BY <2>1, <2>2
<1>3. PICK w \in ThrottleWaits(policy, s, a.header, r.attempts[s] + 1, now) :
        call' = [call EXCEPT ![c].pc = "backoff", ![c].attempt = @ + 1, ![c].attempts[s] = @ + 1,
                             ![c].emitted = @ + 1, ![c].event = Event(c, a, w, TRUE)]
  BY DEF Retry
<1>4. w.wait \in Int /\ w.retryAfter \in Int
  <2>1. r.attempts[s] + 1 \in Nat
    BY <1>1, <1>2
  <2>2. HasRetryAfter(a.header) => a.header.value \in Int
    BY DEF ResponsesAssumption
  <2> QED
    BY <1>1, <1>3, <2>1, <2>2, WaitFields
<1> DEFINE event == Event(c, a, w, TRUE)
           used == [r.attempts EXCEPT ![s] = r.attempts[s] + 1]
           q == [r EXCEPT !.pc = "backoff", !.attempt = r.attempt + 1, !.attempts = used,
                          !.emitted = r.emitted + 1, !.event = event]
<1>5. /\ event \in Events /\ event.attempt = r.attempt + 1 /\ event.at = now
      /\ event.willRetry = TRUE
  BY <1>4, EventFields DEF EventIs
<1>6. call' = [call EXCEPT ![c] = q]
  BY <1>1, <1>2, <1>3 DEF CallRecords
<1> HIDE DEF event
<1>7. /\ used \in [ThrottledStatuses -> Nat] /\ used[s] = r.attempts[s] + 1
      /\ \A t \in ThrottledStatuses \ {s} : used[t] = r.attempts[t]
  BY <1>1, <1>2
<1> HIDE DEF used
<1>8. /\ q \in CallRecords /\ q.pc = "backoff" /\ q.attempts = used /\ q.attempt = r.attempt + 1
      /\ q.open = r.open /\ q.emitted = r.emitted + 1 /\ q.event = event
      /\ q.final = r.final /\ q.result = r.result
  <2>1. r.attempt + 1 \in Nat /\ r.emitted + 1 \in Nat /\ "backoff" \in Places
    BY <1>1 DEF Places
  <2>2. q \in CallRecords
    BY <1>1, <1>5, <1>7, <2>1 DEF CallRecords
  <2> QED
    BY <1>1, <2>2 DEF CallRecords
<1> HIDE DEF q
<1>9. Used(q) = Used(r) + 1 /\ Used(r) \in Nat
  BY <1>1, <1>2, <1>7, <1>8 DEF Used, ThrottledStatuses, TooManyRequests, Forbidden
<1>10. r.attempt = Used(r) /\ r.final = 0 /\ ~Spent(r, policy) /\ ~Spent(q, policy)
  BY <1>1, <1>8 DEF Spent, GoodCall, Budget, Places, ThrottledStatuses, TooManyRequests, Forbidden
<1>11. Budget(q, policy)
  BY <1>1, <1>2, <1>7, <1>8, <1>9, <1>10 DEF GoodCall, Budget
<1>12. Bodies(q) /\ Waited(q, now)
  BY <1>1, <1>5, <1>8 DEF GoodCall, Bodies, Waited
<1>13. Told(q, policy)
  BY <1>1, <1>5, <1>8, <1>9, <1>10 DEF GoodCall, Told
<1> QED
  BY <1>6, <1>8, <1>11, <1>12, <1>13, Became DEF GoodCall, Retry

\* Time only helps.
LEMMA TickGood == ASSUME PoliciesAssumption, CallsInv, Tick PROVE CallsInv'
<1>1. now' = now + 1 /\ call' = call /\ raw' = raw /\ now \in Nat /\ policy' = policy
  BY DEF Tick, CallsInv, policy
<1>2. ASSUME NEW c \in Callers PROVE GoodCall(call[c], policy, now + 1)
  <2>1. call[c] \in CallRecords /\ GoodCall(call[c], policy, now)
    BY Known
  <2>2. call[c].event.at \in Nat /\ call[c].event.wait \in Int
    BY <2>1 DEF CallRecords, Events
  <2> QED
    BY <1>1, <2>1, <2>2 DEF GoodCall, Waited
<1> QED
  BY <1>1, <1>2 DEF CallsInv

LEMMA CallsInit == ASSUME PoliciesAssumption, Init PROVE CallsInv
<1> DEFINE q == [NewCall("get", FALSE) EXCEPT !.pc = "idle"]
<1>1. NoEvent \in Events /\ NoEvent.attempt = 0 /\ NoEvent.at = 0 /\ NoEvent.wait = 0
  BY DEF NoEvent, Events, Headers
<1>2. /\ q \in CallRecords /\ q.pc = "idle" /\ q.attempt = 0 /\ q.open = 0 /\ q.emitted = 0
      /\ q.event = NoEvent /\ q.final = 0 /\ q.result = "none"
      /\ q.attempts = [s \in ThrottledStatuses |-> 0]
  <2> DEFINE n == NewCall("get", FALSE)
  <2>1. /\ n \in CallRecords /\ n.attempt = 0 /\ n.open = 0 /\ n.emitted = 0 /\ n.event = NoEvent
        /\ n.final = 0 /\ n.result = "none" /\ n.attempts = [s \in ThrottledStatuses |-> 0]
    BY <1>1 DEF NewCall, CallRecords, Places, Results
  <2>2. q = [n EXCEPT !.pc = "idle"] /\ "idle" \in Places
    BY DEF Places
  <2> HIDE DEF n, q
  <2> QED
    BY <2>1, <2>2 DEF CallRecords
<1>3. raw \in Policies /\ now = 0 /\ call = [c \in Callers |-> q]
  BY DEF Init
<1> HIDE DEF q
<1>4. policy \in PolicyRecords
  BY <1>3, PolicyFields
<1>5. Used(q) = 0 /\ ~Spent(q, policy) /\ \A s \in ThrottledStatuses : q.attempts[s] = 0
  BY <1>2 DEF Used, Spent, ThrottledStatuses, TooManyRequests, Forbidden
<1>6. Budget(q, policy)
  BY <1>2, <1>4, <1>5 DEF Budget, PolicyRecords
<1>7. Bodies(q) /\ Told(q, policy) /\ Waited(q, now)
  BY <1>1, <1>2, <1>3, <1>5 DEF Bodies, Told, Waited
<1> QED
  BY <1>2, <1>3, <1>6, <1>7 DEF CallsInv, GoodCall

LEMMA CallsStep ==
  ASSUME PoliciesAssumption, ResponsesAssumption, WidthAssumption, CallsInv, [Next]_vars
  PROVE  CallsInv'
<1>1. ASSUME NEW c \in Callers, LimitEmpty(c) PROVE CallsInv'
  BY <1>1 DEF LimitEmpty, CallsInv, policy
<1>2. CASE UNCHANGED vars
  BY <1>2 DEF vars, CallsInv, policy
<1> QED
  BY <1>1, <1>2, StartGood, CancelGood, MoveGood, ReadGood, MaintenanceGood, SurfaceGood, RetryGood,
     TickGood DEF Next, Local, Answered

LEMMA CallsAlways == Spec => []CallsInv
<1>1. Init => CallsInv
  BY PoliciesAssumption, CallsInit
<1>2. CallsInv /\ [Next]_vars => CallsInv'
  BY PoliciesAssumption, ResponsesAssumption, WidthAssumption, CallsStep
<1> QED
  BY <1>1, <1>2, PTL DEF Spec

\* Each class of throttled response has a budget of its own (GetContext, retriesFor): no
\* interleaving of classes lets a call exceed one, and a throttled response reaches the
\* caller only when the budget of its class is spent.
THEOREM BudgetsKept == Spec => []RetryBudget
<1>1. CallsInv => RetryBudget
  <2> SUFFICES ASSUME CallsInv, NEW c \in Callers
               PROVE  LET used == call[c].attempts
                      IN  /\ \A s \in ThrottledStatuses : used[s] <= policy.retries[s]
                          /\ call[c].attempt <= used[TooManyRequests] + used[Forbidden] + 1
                          /\ policy.disabled => call[c].attempt <= 1
                          /\ call[c].final \in ThrottledStatuses /\ ~policy.disabled
                               => used[call[c].final] = policy.retries[call[c].final]
    BY DEF RetryBudget
  <2> QED
    BY PoliciesAssumption, Known DEF GoodCall, Budget, Used, Spent, CallRecords
<1> QED
  BY <1>1, CallsAlways, PTL

\* No path of GetContext or GetRawContext leaks a body or closes the caller's.
THEOREM NoBodyLeaks == Spec => []BodiesClosed
<1>1. CallsInv => BodiesClosed
  BY DEF CallsInv, GoodCall, Bodies, BodiesClosed, At
<1> QED
  BY <1>1, CallsAlways, PTL

\* The observer of emitThrottle hears of every throttled response once and in order, of
\* the one the caller gets as the final one.
THEOREM ObserverTold == Spec => []EventsTellTheCall
<1>1. CallsInv => EventsTellTheCall
  <2> SUFFICES ASSUME CallsInv, NEW c \in Callers
               PROVE  LET throttledEnd == call[c].final \in ThrottledStatuses /\ ~policy.disabled
                          retried == call[c].attempts[TooManyRequests] + call[c].attempts[Forbidden]
                      IN  /\ call[c].emitted = retried + (IF throttledEnd THEN 1 ELSE 0)
                          /\ call[c].event.attempt = call[c].emitted
                          /\ call[c].emitted > 0 => call[c].event.willRetry = ~throttledEnd
                          /\ throttledEnd => /\ call[c].event.status = call[c].final
                                             /\ call[c].event.wait = 0
    BY DEF EventsTellTheCall
  <2>1. call[c] \in CallRecords /\ Told(call[c], policy)
    BY PoliciesAssumption, Known DEF GoodCall
  <2>2. call[c].event.willRetry \in BOOLEAN
    BY <2>1 DEF CallRecords, Events
  <2>3. call[c].emitted > 0 => call[c].event.willRetry = ~Spent(call[c], policy)
    <3>1. call[c].emitted > 0 => (call[c].event.willRetry <=> ~Spent(call[c], policy))
      BY <2>1 DEF Told
    <3> QED
      BY <2>2, <3>1, Zenon
  <2> QED
    BY <2>1, <2>3 DEF Told, Used, Spent
<1> QED
  BY <1>1, CallsAlways, PTL

\* waitThrottle is not cut short: a request after a throttled response is sent no earlier
\* than the wait announced with it, however late the limiter lets it through.
THEOREM WaitKept == Spec => WaitHonoured
<1> DEFINE Honoured == \A c \in Callers :
              At(c, "send") /\ call'[c].pc = "inflight" /\ call[c].emitted > 0
                => now >= call[c].event.at + call[c].event.wait
<1>1. CallsInv => [Honoured]_vars
  BY DEF CallsInv, GoodCall, Waited, At
<1>2. [][Honoured]_vars => WaitHonoured
  BY DEF WaitHonoured
<1> QED
  BY <1>1, <1>2, CallsAlways, PTL

-----------------------------------------------------------------------------
(* Powers of two.  The provers know 2^n only as a number; the library counts *)
(* the subsets of a set with it, and they double with every element.         *)

LEMMA Subsets == ASSUME NEW n \in Nat
                 PROVE  /\ IsFiniteSet(SUBSET (1 .. n))
                        /\ Cardinality(SUBSET (1 .. n)) = 2^n
                        /\ 2^n \in Nat
<1>1. IsFiniteSet(1 .. n) /\ Cardinality(1 .. n) = n
  BY FS_Interval
<1>2. IsFiniteSet(SUBSET (1 .. n)) /\ Cardinality(SUBSET (1 .. n)) = 2^n
  BY <1>1, FS_SUBSET
<1>3. Cardinality(SUBSET (1 .. n)) \in Nat
  BY <1>2, FS_CardinalityType
<1> QED  BY <1>2, <1>3

LEMMA PowerGrows == ASSUME NEW m \in Nat, NEW n \in Nat, m <= n
                    PROVE  2^m <= 2^n /\ 1 <= 2^m
<1>1. 1 .. m \subseteq 1 .. n
  OBVIOUS
<1>2. SUBSET (1 .. m) \subseteq SUBSET (1 .. n)
  BY <1>1
<1>3. Cardinality(SUBSET (1 .. m)) <= Cardinality(SUBSET (1 .. n))
  BY <1>2, Subsets, FS_Subset
<1>4. Cardinality({{}}) = 1 /\ {{}} \subseteq SUBSET (1 .. m)
  BY FS_Singleton
<1>5. Cardinality({{}}) <= Cardinality(SUBSET (1 .. m))
  BY <1>4, Subsets, FS_Subset
<1> QED  BY <1>3, <1>4, <1>5, Subsets

LEMMA PowerDoubles == ASSUME NEW n \in Nat
                      PROVE  2^(n + 1) = 2 * 2^n
<1> DEFINE old == SUBSET (1 .. n)
           f == [X \in old |-> X \cup {n + 1}]
           new == {X \cup {n + 1} : X \in old}
<1>1. IsFiniteSet(old) /\ Cardinality(old) = 2^n /\ 2^n \in Nat
  BY Subsets
<1>2. SUBSET (1 .. n + 1) = old \cup new
  <2>1. ASSUME NEW Y \in SUBSET (1 .. n + 1) PROVE Y \in old \cup new
    <3>1. CASE n + 1 \in Y
      <4>1. Y \ {n + 1} \in old /\ Y = (Y \ {n + 1}) \cup {n + 1}
        BY <2>1, <3>1
      <4> QED  BY <4>1
    <3>2. CASE n + 1 \notin Y
      BY <2>1, <3>2
    <3> QED  BY <3>1, <3>2
  <2>2. \A X \in old : X \subseteq 1 .. n + 1 /\ X \cup {n + 1} \subseteq 1 .. n + 1
    OBVIOUS
  <2>3. (\A Y \in old : Y \in SUBSET (1 .. n + 1)) /\ (\A Y \in new : Y \in SUBSET (1 .. n + 1))
    BY <2>2
  <2> HIDE DEF old, new
  <2> QED  BY <2>1, <2>3
<1>3. old \cap new = {}
  OBVIOUS
<1>4. ExistsBijection(old, new)
  <2>1. f \in [old -> new]
    OBVIOUS
  <2>2. ASSUME NEW X \in old, NEW Y \in old, f[X] = f[Y] PROVE X = Y
    <3>1. X = f[X] \ {n + 1} /\ Y = f[Y] \ {n + 1}
      OBVIOUS
    <3> QED  BY <2>2, <3>1
  <2>3. \A Z \in new : \E X \in old : f[X] = Z
    OBVIOUS
  <2>4. DOMAIN f = old
    OBVIOUS
  <2> HIDE DEF f, old, new
  <2>5. f \in Bijection(old, new)
    BY <2>1, <2>2, <2>3, <2>4 DEF Bijection, Injection, Surjection, IsInjective
  <2> QED  BY <2>5 DEF ExistsBijection
<1>5. IsFiniteSet(new) /\ Cardinality(new) = Cardinality(old)
  BY <1>1, <1>4, FS_Bijection
<1>6. Cardinality(old \cap new) = 0
  BY <1>3, FS_EmptySet
<1>7. Cardinality(old \cup new) = Cardinality(old) + Cardinality(new) - Cardinality(old \cap new)
  BY <1>1, <1>5, FS_Union
<1>8. Cardinality(SUBSET (1 .. n + 1)) = 2^(n + 1)
  <2>1. n + 1 \in Nat
    OBVIOUS
  <2> QED  BY <2>1, Subsets
<1> HIDE DEF old, new
<1>9. 2^(n + 1) = Cardinality(old \cup new)
  BY <1>2, <1>8
<1>10. 2^(n + 1) = 2^n + 2^n - 0
  BY <1>1, <1>5, <1>6, <1>7, <1>9
<1> QED  BY <1>1, <1>10

-----------------------------------------------------------------------------
(* Durations *)

LEMMA DurationRange ==
  /\ 2^(Width - 1) \in Nat /\ 2^(Width - 1) >= 1
  /\ 2^Width = 2 * 2^(Width - 1)
  /\ MaxDuration \in Nat /\ MaxDuration = 2^(Width - 1) - 1
<1>1. Width - 1 \in Nat /\ (Width - 1) + 1 = Width
  BY WidthAssumption
<1>2. 2^(Width - 1) \in Nat /\ 1 <= 2^(Width - 1)
  BY <1>1, Subsets, PowerGrows
<1>3. 2^((Width - 1) + 1) = 2 * 2^(Width - 1)
  BY <1>1, PowerDoubles
<1> QED  BY <1>1, <1>2, <1>3 DEF MaxDuration

LEMMA ModOfSmall == ASSUME NEW a \in Nat, NEW b \in Nat, a < b
                    PROVE  a % b = a
  OBVIOUS

\* What fits a register is left as it is.
LEMMA WrappedFits == ASSUME NEW x \in 0 .. MaxDuration PROVE Wrapped(x) = x
<1> DEFINE h == 2^(Width - 1)
<1>1. h \in Nat /\ 2^Width = 2 * h /\ x \in Nat /\ x < h
  BY DurationRange
<1> HIDE DEF h
<1>2. x + h \in Nat /\ 2 * h \in Nat /\ x + h < 2 * h
  BY <1>1
<1>3. (x + h) % (2 * h) = x + h
  BY <1>2, ModOfSmall
<1>4. Wrapped(x) = ((x + h) % (2 * h)) - h
  BY <1>1 DEF Wrapped, h
<1> QED  BY <1>1, <1>3, <1>4

-----------------------------------------------------------------------------
(* The invariant *)

WaitsInv == /\ baseBackoff \in 1 .. MaxDuration /\ maxBackoff \in baseBackoff .. MaxDuration
            /\ retryCount \in Nat /\ waited \in 0 .. maxBackoff
            /\ retryCount > 0 => waited \in Backoffs(baseBackoff, maxBackoff, retryCount)

LEMMA BackoffsBounded ==
  ASSUME NEW b \in 1 .. MaxDuration, NEW m \in b .. MaxDuration, NEW n \in Nat
  PROVE  Backoffs(b, m, n) \subseteq 0 .. m
<1>1. m \in Nat
  BY DurationRange
<1>2. ASSUME NEW s \in Jittered(Nominal(b, m, n))
      PROVE  s \in Int
  BY DurationRange DEF Jittered, Durations
<1> QED  BY <1>1, <1>2 DEF Backoffs, AtMost

LEMMA WaitsInvariance == WaitsSpec => []WaitsInv
<1>1. WaitsInit => WaitsInv
  BY DurationRange DEF WaitsInit, WaitsInv
<1>2. WaitsInv /\ [NextWait]_waitVars => WaitsInv'
  <2> SUFFICES ASSUME WaitsInv, [NextWait]_waitVars PROVE WaitsInv'
    OBVIOUS
  <2>1. CASE NextWait
    <3>1. /\ retryCount' \in Nat /\ waited' \in Backoffs(baseBackoff, maxBackoff, retryCount')
          /\ baseBackoff' = baseBackoff /\ maxBackoff' = maxBackoff
          /\ baseBackoff \in 1 .. MaxDuration /\ maxBackoff \in baseBackoff .. MaxDuration
      BY <2>1 DEF NextWait, WaitsInv
    <3>2. Backoffs(baseBackoff, maxBackoff, retryCount') \subseteq 0 .. maxBackoff
      BY <3>1, BackoffsBounded
    <3>3. waited' \in Backoffs(baseBackoff', maxBackoff', retryCount')
      BY <3>1
    <3> QED  BY <3>1, <3>2, <3>3 DEF WaitsInv
  <2>2. CASE UNCHANGED waitVars
    BY <2>2 DEF waitVars, WaitsInv
  <2> QED  BY <2>1, <2>2
<1> QED  BY <1>1, <1>2, PTL DEF WaitsSpec

\* Whatever overflows, no wait before a retry is negative or longer than MaxBackoff.
THEOREM WaitsBounded == WaitsSpec => []WaitWithinBounds
<1>1. WaitsInv => WaitWithinBounds
  BY DEF WaitsInv, WaitWithinBounds
<1> QED  BY <1>1, WaitsInvariance, PTL

LEMMA Halves == ASSUME NEW d \in Nat
                PROVE  /\ d \div 2 \in Nat /\ d \div 2 <= d
                       /\ (3 * d - 1) \div 2 \in Int /\ 2 * ((3 * d - 1) \div 2) <= 3 * d - 1
  OBVIOUS

\* The waits of a retry whose documented wait d is its nominal one.
LEMMA JitterAround ==
  ASSUME NEW d \in Nat, NEW m \in Nat, d <= m, 3 * m <= 2 * MaxDuration,
         NEW s \in Jittered(d), NEW w, w = IF s < 0 THEN 0 ELSE AtMost(s, m)
  PROVE  w >= d \div 2 /\ 2 * w < 3 * d /\ w <= m
<1> DEFINE top == (3 * d - 1) \div 2
<1>1. top \in Int /\ 2 * top <= 3 * d - 1 /\ d \div 2 \in Nat /\ d \div 2 <= d
  BY Halves
<1> HIDE DEF top
<1>2. MaxDuration \in Nat /\ top <= MaxDuration
  BY <1>1, DurationRange
<1>3. s \in d \div 2 .. top
  BY <1>1, <1>2 DEF Jittered, AtMost, top
<1>4. s \in Nat /\ d \div 2 <= s /\ s <= top
  BY <1>1, <1>3
<1>5. (s <= m /\ w = s) \/ (s > m /\ w = m)
  BY <1>4 DEF AtMost
<1>6. 2 * s < 3 * d
  BY <1>1, <1>4
<1>7. w \in Nat /\ w <= s /\ w <= m /\ (w = s \/ w = m)
  BY <1>4, <1>5
<1>8. 2 * w <= 2 * s
  BY <1>4, <1>7
<1>9. w >= d \div 2
  BY <1>1, <1>4, <1>7
<1>10. 2 * w < 3 * d
  BY <1>4, <1>6, <1>7, <1>8
<1> QED  BY <1>7, <1>9, <1>10

\* Where nothing overflows, the wait of a retry is that of the documentation, give or take
\* half of it, and never above MaxBackoff.
THEOREM WaitsAsDocumented == WaitsSpec => []JitteredAroundDocumented
<1>1. WaitsInv => JitteredAroundDocumented
  <2> SUFFICES ASSUME WaitsInv, Representable, retryCount > 0
               PROVE  LET d == Documented(AtMost(retryCount, MaxShift + 1))
                      IN  waited >= d \div 2 /\ 2 * waited < 3 * d /\ waited <= maxBackoff
    BY DEF JitteredAroundDocumented
  <2> DEFINE e == AtMost(retryCount - 1, MaxShift)
             x == baseBackoff * 2^e
             d == AtMost(x, maxBackoff)
  <2>1. /\ baseBackoff \in Nat /\ baseBackoff >= 1 /\ maxBackoff \in Nat /\ retryCount \in Nat
        /\ MaxDuration \in Nat /\ maxBackoff <= MaxDuration /\ maxBackoff >= baseBackoff
        /\ waited \in Backoffs(baseBackoff, maxBackoff, retryCount)
    BY DurationRange DEF WaitsInv
  <2>2. e \in Nat /\ e <= MaxShift /\ MaxShift \in Nat
        /\ AtMost(retryCount, MaxShift + 1) - 1 = e
    BY <2>1, WidthAssumption DEF AtMost
  <2> HIDE DEF e
  <2>3. 2^e \in Nat /\ 2^MaxShift \in Nat /\ 1 <= 2^e /\ 2^e <= 2^MaxShift
    BY <2>2, Subsets, PowerGrows
  <2>4. x \in Nat /\ x >= 1 /\ x <= MaxDuration
    <3>1. /\ baseBackoff * 2^MaxShift <= MaxDuration
          /\ 3 * maxBackoff <= 2 * MaxDuration
      BY DEF Representable
    <3>2. \A a, b, c \in Nat : a >= 1 /\ 1 <= b /\ b <= c
                               => a * b \in Nat /\ a * c \in Nat /\ a * b >= 1 /\ a * b <= a * c
      OBVIOUS
    <3>3. x \in Nat /\ baseBackoff * 2^MaxShift \in Nat /\ x >= 1 /\ x <= baseBackoff * 2^MaxShift
      BY <2>1, <2>3, <3>2
    <3> HIDE DEF x
    <3> QED  BY <2>1, <3>1, <3>3
  <2>5. Shifted(baseBackoff, retryCount) = x
    <3>1. Wrapped(x) = x
      BY <2>1, <2>4, WrappedFits
    <3> QED  BY <3>1 DEF Shifted, e
  <2> HIDE DEF x
  <2>6. Nominal(baseBackoff, maxBackoff, retryCount) = d
    BY <2>1, <2>4, <2>5 DEF Nominal, AtMost
  <2>7. Documented(AtMost(retryCount, MaxShift + 1)) = d
    BY <2>2 DEF Documented, x
  <2>8. d \in Nat /\ d <= maxBackoff
    BY <2>1, <2>4 DEF AtMost
  <2> HIDE DEF d
  <2>9. PICK s \in Jittered(d) : waited = IF s < 0 THEN 0 ELSE AtMost(s, maxBackoff)
    BY <2>1, <2>6 DEF Backoffs
  <2>10. 3 * maxBackoff <= 2 * MaxDuration
    BY DEF Representable
  <2>11. waited >= d \div 2 /\ 2 * waited < 3 * d /\ waited <= maxBackoff
    BY <2>1, <2>8, <2>9, <2>10, JitterAround
  <2> QED  BY <2>7, <2>11
<1> QED  BY <1>1, WaitsInvariance, PTL
=============================================================================
