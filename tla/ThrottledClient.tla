--------------------------- MODULE ThrottledClient ---------------------------
(***************************************************************************)
(* Client.GetContext and GetRawContext of client/client.go: concurrent     *)
(* calls that share one rate limiter and one throttle policy, each looping *)
(* over attempts until a response, an error or a cancelled context ends    *)
(* it.  The limiter is the ideal bucket of TokenBucket.tla, which          *)
(* RateLimiter.tla is shown to implement.  The upstream server and         *)
(* http.Client are external: they answer any response or fail.             *)
(***************************************************************************)
EXTENDS ThrottlePolicy

CONSTANTS Callers,    \* goroutines calling the client
          Policies,   \* policies as given to WithThrottlePolicy
          Responses,  \* what the upstream may answer: status, header, body
          MaxTokens,  \* capacity of the rate limiter
          Interval,   \* its interval
          Horizon     \* bound of the model: the clock stops here

ASSUME ClientAssumption == /\ MaxTokens \in Nat \ {0} /\ Interval \in Nat \ {0}
                           /\ Horizon \in Nat

\* The fields of a ThrottlePolicy, the constants it defaults to, and those of an answer.
ASSUME PoliciesAssumption ==
  /\ Policies \subseteq [disabled : BOOLEAN, retries : [ThrottledStatuses -> Int],
                         base : Int, max : Int, cap : Int]
  /\ Defaults.retries \in [ThrottledStatuses -> Nat]
  /\ Defaults.base \in Int /\ Defaults.max \in Int /\ Defaults.cap \in Int
ASSUME ResponsesAssumption ==
  \A r \in Responses : /\ r.status \in Nat
                       /\ HasRetryAfter(r.header) => r.header.value \in Int

VARIABLES raw,         \* the configured policy, before resolved()
          call,        \* one record per caller: the locals of its GetContext
          now,         \* the clock
          level, settled, admissions,  \* the rate limiter
          sent         \* history: requests that reached the transport

bucket == <<level, settled, admissions>>
vars == <<raw, call, now, bucket, sent>>

Limiter == INSTANCE TokenBucket WITH Capacity <- MaxTokens, Instants <- 0 .. Horizon

Unavailable == 503
NoEvent == [status |-> 0, header |-> NoHeader, attempt |-> 0, wait |-> 0, retryAfter |-> 0,
            at |-> 0, willRetry |-> FALSE]

\* pc: "idle", "limit" (in rateLimit.Wait), "send" (building and issuing the request),
\* "inflight" (in httpClient.Do), "backoff" (about to sleep), "sleep", "read" (GetRaw
\* holds the response), "done".
NewCall(mode, done) ==
  [pc |-> "limit", mode |-> mode, cancelled |-> done,
   attempts |-> [s \in ThrottledStatuses |-> 0],  \* retries used, by status class
   attempt |-> 0,                                 \* responses received
   wakeAt |-> 0,                                  \* deadline of the backoff timer
   open |-> 0,                                    \* history: response bodies not closed
   emitted |-> 0, event |-> NoEvent,              \* history: what the observer was told
   final |-> 0,                                   \* history: status of the response in hand
   result |-> "none"]

policy == Resolved(raw)

\* throttleable, under a policy that handles throttling.
Throttled(status) == ~policy.disabled /\ status \in ThrottledStatuses

At(c, place) == call[c].pc = place

Init == /\ raw \in Policies
        /\ call = [c \in Callers |-> [NewCall("get", FALSE) EXCEPT !.pc = "idle"]]
        /\ now = 0
        /\ Limiter!BucketInit
        /\ sent = 0

\* GetContext or GetRawContext is called, with a context that may be done already.
Start(c) == /\ call[c].pc \in {"idle", "done"}
            /\ \E mode \in {"get", "raw"}, done \in BOOLEAN :
                 call' = [call EXCEPT ![c] = NewCall(mode, done)]
            /\ UNCHANGED <<raw, now, bucket, sent>>

\* The owner of the context cancels it, or its deadline passes.
Cancel(c) == /\ call[c].pc \notin {"idle", "done"}
             /\ ~call[c].cancelled
             /\ call' = [call EXCEPT ![c].cancelled = TRUE]
             /\ UNCHANGED <<raw, now, bucket, sent>>

Finish(c, result) == call' = [call EXCEPT ![c].pc = "done", ![c].result = result]

\* rateLimit.Wait returns ctx.Err.
LimitRefused(c) == /\ At(c, "limit")
                   /\ call[c].cancelled
                   /\ Finish(c, "error")
                   /\ UNCHANGED <<raw, now, bucket, sent>>

\* rateLimit.Wait returns nil, with a token.
LimitPassed(c) == /\ At(c, "limit")
                  /\ ~call[c].cancelled
                  /\ Limiter!Take(now)
                  /\ call' = [call EXCEPT ![c].pc = "send"]
                  /\ UNCHANGED <<raw, now, sent>>

\* A caller blocked in rateLimit.Wait looks at an empty bucket.
LimitEmpty(c) == /\ At(c, "limit")
                 /\ ~call[c].cancelled
                 /\ Limiter!FindEmpty(now)
                 /\ UNCHANGED <<raw, call, now, sent>>

\* NewRequestWithContext fails, or Do gives up before the transport: a bad URL, a
\* context that is done.  The token is spent.
SendFails(c) == /\ At(c, "send")
                /\ Finish(c, "error")
                /\ UNCHANGED <<raw, now, bucket, sent>>

\* Do hands the request to the transport; it does not when the context is done.
Send(c) == /\ At(c, "send")
           /\ ~call[c].cancelled
           /\ sent' = sent + 1
           /\ call' = [call EXCEPT ![c].pc = "inflight"]
           /\ UNCHANGED <<raw, now, bucket>>

\* Do returns an error: transport failure, WithTimeout, cancellation.
DoFails(c) == /\ At(c, "inflight")
              /\ Finish(c, "error")
              /\ UNCHANGED <<raw, now, bucket, sent>>

\* maintenanceError answers non-nil.
Maintenance(r) == r.status = Unavailable /\ r.body # "other"

\* A 503 whose body says maintenance, or cannot be read: closed, and a typed error.
ReceiveMaintenance(c, r) ==
  /\ At(c, "inflight")
  /\ Maintenance(r)
  /\ call' = [call EXCEPT ![c].pc = "done", ![c].attempt = @ + 1,
                ![c].result = IF r.body = "maintenance" THEN "maintenance" ELSE "error"]
  /\ UNCHANGED <<raw, now, bucket, sent>>

\* GetContext returns the response to the caller, or to GetRawContext, body open.
Handed(c, r, event) ==
  call' = [call EXCEPT ![c].pc = IF call[c].mode = "get" THEN "done" ELSE "read",
                       ![c].attempt = @ + 1, ![c].open = @ + 1, ![c].final = r.status,
                       ![c].result = IF call[c].mode = "get" THEN "response" ELSE "none",
                       ![c].emitted = @ + (IF event = NoEvent THEN 0 ELSE 1),
                       ![c].event = IF event = NoEvent THEN @ ELSE event]

\* The response is not throttled, or throttle handling is off.
Surface(c, r) == /\ At(c, "inflight")
                 /\ ~Maintenance(r)
                 /\ ~Throttled(r.status)
                 /\ Handed(c, r, NoEvent)
                 /\ UNCHANGED <<raw, now, bucket, sent>>

\* Mutant of the event: attempts counted from zero.
EventFromZero(c, r, w, retry) ==
  [status |-> r.status, header |-> r.header, attempt |-> call[c].attempt,
   wait |-> w.wait, retryAfter |-> w.retryAfter, at |-> now, willRetry |-> retry]

Event(c, r, w, retry) ==
  [status |-> r.status, header |-> r.header, attempt |-> call[c].attempt + 1,
   wait |-> w.wait, retryAfter |-> w.retryAfter, at |-> now, willRetry |-> retry]

\* The response is throttled and its class has no retries left.
SurfaceThrottled(c, r) ==
  /\ At(c, "inflight")
  /\ Throttled(r.status)
  /\ policy.retries[r.status] - call[c].attempts[r.status] <= 0
  /\ Handed(c, r, Event(c, r, [wait |-> 0, retryAfter |-> ParsedRetryAfter(r.header, now)], FALSE))
  /\ UNCHANGED <<raw, now, bucket, sent>>

\* Mutant of the retry: not charged to its class.
RetryFree(c, r) ==
  /\ At(c, "inflight")
  /\ Throttled(r.status)
  /\ policy.retries[r.status] - call[c].attempts[r.status] > 0
  /\ \E w \in ThrottleWaits(policy, r.status, r.header, call[c].attempts[r.status] + 1, now) :
       call' = [call EXCEPT ![c].pc = "backoff", ![c].attempt = @ + 1,
                            ![c].emitted = @ + 1, ![c].event = Event(c, r, w, TRUE)]
  /\ UNCHANGED <<raw, now, bucket, sent>>

\* The response is throttled and retried: the observer is told, the body drained, closed.
Retry(c, r) ==
  /\ At(c, "inflight")
  /\ Throttled(r.status)
  /\ policy.retries[r.status] - call[c].attempts[r.status] > 0
  /\ \E w \in ThrottleWaits(policy, r.status, r.header, call[c].attempts[r.status] + 1, now) :
       call' = [call EXCEPT ![c].pc = "backoff", ![c].attempt = @ + 1,
                            ![c].attempts[r.status] = @ + 1,
                            ![c].emitted = @ + 1, ![c].event = Event(c, r, w, TRUE)]
  /\ UNCHANGED <<raw, now, bucket, sent>>

\* waitThrottle checks the context and, for a positive wait, starts the timer.
Backoff(c) ==
  /\ At(c, "backoff")
  /\ \/ call[c].cancelled /\ Finish(c, "error")
     \/ ~call[c].cancelled /\ call[c].event.wait <= 0
          /\ call' = [call EXCEPT ![c].pc = "limit"]
     \/ ~call[c].cancelled /\ call[c].event.wait > 0
          /\ call' = [call EXCEPT ![c].pc = "sleep", ![c].wakeAt = now + call[c].event.wait]
  /\ UNCHANGED <<raw, now, bucket, sent>>

\* Mutants of the sleep: it ends before its time, it ignores the context, and the retry
\* after it does not go through the rate limiter.
WakeEarly(c) == /\ At(c, "sleep")
                /\ call' = [call EXCEPT ![c].pc = "limit"]
                /\ UNCHANGED <<raw, now, bucket, sent>>

WakeDeaf(c) == /\ At(c, "sleep")
               /\ now >= call[c].wakeAt
               /\ call' = [call EXCEPT ![c].pc = "limit"]
               /\ UNCHANGED <<raw, now, bucket, sent>>

WakeUnlimited(c) == /\ At(c, "sleep")
                    /\ \/ call[c].cancelled /\ Finish(c, "error")
                       \/ now >= call[c].wakeAt /\ call' = [call EXCEPT ![c].pc = "send"]
                    /\ UNCHANGED <<raw, now, bucket, sent>>

\* The select of waitThrottle: the timer, or ctx.Done; either when both are ready.
Wake(c) == /\ At(c, "sleep")
           /\ \/ call[c].cancelled /\ Finish(c, "error")
              \/ now >= call[c].wakeAt /\ call' = [call EXCEPT ![c].pc = "limit"]
           /\ UNCHANGED <<raw, now, bucket, sent>>

\* Mutant of the read: a non-200 leaves the body open.
ReadLeaks(c) == /\ At(c, "read")
                /\ call' = [call EXCEPT ![c].pc = "done", ![c].result = "statusError"]
                /\ UNCHANGED <<raw, now, bucket, sent>>

\* GetRawContext: a non-200 is an error, a 200 is read or fails to be; closed either way.
Read(c) == /\ At(c, "read")
           /\ \E result \in (IF call[c].final # 200 THEN {"statusError"} ELSE {"bytes", "error"}) :
                call' = [call EXCEPT ![c].pc = "done", ![c].open = @ - 1, ![c].result = result]
           /\ UNCHANGED <<raw, now, bucket, sent>>

Tick == now < Horizon /\ now' = now + 1 /\ UNCHANGED <<raw, call, bucket, sent>>

Local(c) == LimitRefused(c) \/ LimitPassed(c) \/ LimitEmpty(c) \/ SendFails(c) \/ Send(c)
              \/ Backoff(c) \/ Wake(c) \/ Read(c)
Answered(c) == \/ DoFails(c)
               \/ \E r \in Responses : \/ ReceiveMaintenance(c, r) \/ Surface(c, r)
                                       \/ SurfaceThrottled(c, r) \/ Retry(c, r)

Next == (\E c \in Callers : Start(c) \/ Cancel(c) \/ Local(c) \/ Answered(c)) \/ Tick

Spec == Init /\ [][Next]_vars

\* The runtime runs every runnable goroutine; http.Client returns from Do once the
\* context is done; body reads end.  The upstream need not answer, nor time pass.
FairSpec ==
  /\ Spec
  /\ \A c \in Callers : /\ WF_vars(LimitRefused(c))
                        /\ WF_vars(SendFails(c) \/ Send(c))
                        /\ WF_vars(call[c].cancelled /\ DoFails(c))
                        /\ WF_vars(Backoff(c))
                        /\ WF_vars(call[c].cancelled /\ Wake(c))
                        /\ WF_vars(Read(c))

-----------------------------------------------------------------------------
(* Properties *)

\* Retries go through the rate limiter like first attempts: however the calls of all
\* callers interleave and are throttled, the requests that reach the transport stay
\* within the configured rate.
SendsWithinRate == sent * Interval <= MaxTokens * Interval + MaxTokens * now

\* Each class of throttled response has its own budget, also when classes alternate: a
\* retry is charged to the class that caused it, and a throttled response reaches the
\* caller only when its own class is spent.
RetryBudget ==
  \A c \in Callers :
    LET used == call[c].attempts
    IN  /\ \A s \in ThrottledStatuses : used[s] <= policy.retries[s]
        /\ call[c].attempt <= used[TooManyRequests] + used[Forbidden] + 1
        /\ policy.disabled => call[c].attempt <= 1
        /\ call[c].final \in ThrottledStatuses /\ ~policy.disabled
             => used[call[c].final] = policy.retries[call[c].final]

\* No path leaks a response body or closes one the caller still needs: whatever the
\* attempts before it, a call in progress or failed holds no open body, and one that
\* returned a response holds exactly that one.
BodiesClosed ==
  \A c \in Callers :
    call[c].open = IF At(c, "read") \/ (At(c, "done") /\ call[c].result = "response") THEN 1 ELSE 0

\* The observer hears of every throttled response once, in order: it is told of a retry
\* for all but a response the caller gets, and that one is announced as final.
EventsTellTheCall ==
  \A c \in Callers :
    LET throttledEnd == call[c].final \in ThrottledStatuses /\ ~policy.disabled
        retried == call[c].attempts[TooManyRequests] + call[c].attempts[Forbidden]
    IN  /\ call[c].emitted = retried + (IF throttledEnd THEN 1 ELSE 0)
        /\ call[c].event.attempt = call[c].emitted
        /\ call[c].emitted > 0 => call[c].event.willRetry = ~throttledEnd
        /\ throttledEnd => call[c].event.status = call[c].final /\ call[c].event.wait = 0

\* A retry is sent no earlier than the wait the observer was told, counted from the
\* throttled response: a Retry-After up to the cap is honoured in full.
WaitHonoured ==
  [][\A c \in Callers :
       At(c, "send") /\ call'[c].pc = "inflight" /\ call[c].emitted > 0
         => now >= call[c].event.at + call[c].event.wait]_vars

\* A context that is done ends the call, also during a backoff or a wait for a token
\* that would be longer: no clock tick and no answer of the upstream is needed.
CancelEndsCall == \A c \in Callers : call[c].cancelled ~> At(c, "done")

\* "RetryAfter is the parsed Retry-After value the server sent, if any." (throttle.go:123)
EventCarriesRetryAfter ==
  \A c \in Callers :
    call[c].event.retryAfter = ParsedRetryAfter(call[c].event.header, call[c].event.at)
=============================================================================
