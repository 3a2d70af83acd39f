----------------------------- MODULE RateLimiter -----------------------------
(***************************************************************************)
(* The token bucket of client/rate_limiter.go and the callers blocked in   *)
(* its Wait.  The struct's fields are guarded by mu, so each pass through  *)
(* the critical section of Wait is one action; what the code does without  *)
(* the mutex (creating the timer, the select on timer and ctx.Done) are    *)
(* actions of their own.  The clock is time.Now: it never runs backwards.  *)
(* One tick stands for one nanosecond of the code's integer arithmetic.    *)
(***************************************************************************)
EXTENDS Integers

CONSTANTS Waiters,    \* goroutines calling Wait
          MaxTokens,  \* the capacity n given to WithRateLimit
          Interval,   \* the interval given to WithRateLimit, in ticks
          Horizon     \* bound of the model: the clock stops here

\* WithRateLimit refuses a non-positive capacity or interval.
ASSUME RateLimitAssumption == /\ MaxTokens \in Nat \ {0}
                              /\ Interval \in Nat \ {0}
                              /\ Horizon \in Nat

VARIABLES tokens,       \* whole tokens in the bucket
          credit,       \* fractional token: numerator over Interval
          lastRefill,   \* instant of the last refill
          now,          \* what r.clock() returns
          pc,           \* where each caller is in Wait
          timer,        \* delay computed by a caller, then its timer's deadline
          cancelled,    \* whether the ctx of each caller's Wait is done
          admitted,     \* history: calls that returned nil
          seen,         \* history: admitted when a caller last computed a delay
          windowStart,  \* history: an instant an observer marked
          windowBase    \* history: admitted at that instant

bucket == <<tokens, credit, lastRefill, admitted>>
window == <<windowStart, windowBase>>
vars == <<bucket, now, pc, timer, cancelled, seen, window>>

PCs == {"idle", "check", "arm", "select", "admitted", "refused"}

-----------------------------------------------------------------------------
(* The struct's methods, each called with mu held. *)

\* Mutants of refill: a bucket that overfills, and one that forgets fractions.
RefilledOverfull(t) ==
  LET numerator == (t - lastRefill) * MaxTokens + credit
  IN  [tokens |-> tokens + numerator \div Interval, credit |-> numerator % Interval, at |-> t]

RefilledNoFraction(t) ==
  LET whole == tokens + ((t - lastRefill) * MaxTokens) \div Interval
  IN  [tokens |-> IF whole > MaxTokens THEN MaxTokens ELSE whole, credit |-> 0, at |-> t]

\* refill(t): the credited bucket, fractional credit retained until full.
Refilled(t) ==
  LET elapsed == t - lastRefill
      numerator == elapsed * MaxTokens + credit
      earned == numerator \div Interval
  IN  IF elapsed <= 0
      THEN [tokens |-> tokens, credit |-> credit, at |-> lastRefill]
      ELSE IF \/ elapsed >= Interval
              \/ tokens = MaxTokens
              \/ earned >= MaxTokens - tokens
           THEN [tokens |-> MaxTokens, credit |-> 0, at |-> t]
           ELSE [tokens |-> tokens + earned, credit |-> numerator % Interval, at |-> t]

\* Mutant of nextDelay: rounded down.
NextDelayFloor(c) == (Interval - c) \div MaxTokens

\* nextDelay: ceil((Interval - c) / MaxTokens) by division and remainder.
NextDelay(c) ==
  LET remaining == Interval - c
  IN  remaining \div MaxTokens + (IF remaining % MaxTokens # 0 THEN 1 ELSE 0)

-----------------------------------------------------------------------------
Init == /\ tokens = MaxTokens
        /\ credit = 0
        /\ lastRefill = 0
        /\ now = 0
        /\ pc = [w \in Waiters |-> "idle"]
        /\ timer = [w \in Waiters |-> 0]
        /\ cancelled = [w \in Waiters |-> FALSE]
        /\ admitted = 0
        /\ seen = [w \in Waiters |-> 0]
        /\ windowStart = 0
        /\ windowBase = 0

\* A caller enters Wait with a context that may be cancelled already.
Call(w) == /\ pc[w] \in {"idle", "admitted", "refused"}
           /\ pc' = [pc EXCEPT ![w] = "check"]
           /\ \E done \in BOOLEAN : cancelled' = [cancelled EXCEPT ![w] = done]
           /\ UNCHANGED <<bucket, now, timer, seen, window>>

\* The critical section with a context that is done: no refill, no token.
CheckCancelled(w) == /\ pc[w] = "check"
                     /\ cancelled[w]
                     /\ pc' = [pc EXCEPT ![w] = "refused"]
                     /\ UNCHANGED <<bucket, now, timer, cancelled, seen, window>>

\* The critical section finds a token after the refill and takes it.
Admit(w) ==
  LET r == Refilled(now)
  IN  /\ pc[w] = "check"
      /\ ~cancelled[w]
      /\ r.tokens > 0
      /\ tokens' = r.tokens - 1
      /\ credit' = r.credit
      /\ lastRefill' = r.at
      /\ admitted' = admitted + 1
      /\ pc' = [pc EXCEPT ![w] = "admitted"]
      /\ UNCHANGED <<now, timer, cancelled, seen, window>>

\* The critical section finds the bucket empty: a delay is computed and mu freed.
FindEmpty(w) ==
  LET r == Refilled(now)
  IN  /\ pc[w] = "check"
      /\ ~cancelled[w]
      /\ r.tokens <= 0
      /\ tokens' = r.tokens
      /\ credit' = r.credit
      /\ lastRefill' = r.at
      /\ timer' = [timer EXCEPT ![w] = NextDelay(r.credit)]
      /\ seen' = [seen EXCEPT ![w] = admitted]
      /\ pc' = [pc EXCEPT ![w] = "arm"]
      /\ UNCHANGED <<now, cancelled, admitted, window>>

\* time.NewTimer(delay), some time after the delay was computed.
StartTimer(w) == /\ pc[w] = "arm"
                 /\ timer' = [timer EXCEPT ![w] = now + @]
                 /\ pc' = [pc EXCEPT ![w] = "select"]
                 /\ UNCHANGED <<bucket, now, cancelled, seen, window>>

\* The select takes the timer; with both channels ready either may be taken.
TimerFires(w) == /\ pc[w] = "select"
                 /\ now >= timer[w]
                 /\ pc' = [pc EXCEPT ![w] = "check"]
                 /\ UNCHANGED <<bucket, now, timer, cancelled, seen, window>>

\* The select takes ctx.Done.
WaitCancelled(w) == /\ pc[w] = "select"
                    /\ cancelled[w]
                    /\ pc' = [pc EXCEPT ![w] = "refused"]
                    /\ UNCHANGED <<bucket, now, timer, cancelled, seen, window>>

\* The owner of the context cancels it while the call is in Wait.
Cancel(w) == /\ pc[w] \in {"check", "arm", "select"}
             /\ ~cancelled[w]
             /\ cancelled' = [cancelled EXCEPT ![w] = TRUE]
             /\ UNCHANGED <<bucket, now, pc, timer, seen, window>>

Tick == /\ now < Horizon
        /\ now' = now + 1
        /\ UNCHANGED <<bucket, pc, timer, cancelled, seen, window>>

\* History only: an observer starts to count admissions at this instant.
OpenWindow == /\ windowStart' = now
              /\ windowBase' = admitted
              /\ UNCHANGED <<bucket, now, pc, timer, cancelled, seen>>

Section(w) == CheckCancelled(w) \/ Admit(w) \/ FindEmpty(w)

Next == \/ \E w \in Waiters : \/ Call(w) \/ Section(w) \/ StartTimer(w)
                              \/ TimerFires(w) \/ WaitCancelled(w) \/ Cancel(w)
        \/ Tick
        \/ OpenWindow

Spec == Init /\ [][Next]_vars

\* The mutex is starvation free, the runtime runs every runnable goroutine, timers
\* fire and time passes.  Nobody has to call Wait or to cancel.
Fairness == /\ WF_vars(Tick)
            /\ \A w \in Waiters : /\ WF_vars(Section(w))
                                  /\ WF_vars(StartTimer(w))
                                  /\ WF_vars(TimerFires(w) \/ WaitCancelled(w))

FairSpec == Spec /\ Fairness

-----------------------------------------------------------------------------
(* Properties *)

TypeOK == /\ tokens \in 0 .. MaxTokens
          /\ credit \in 0 .. Interval - 1
          /\ lastRefill \in 0 .. now
          /\ now \in 0 .. Horizon
          /\ pc \in [Waiters -> PCs]
          /\ timer \in [Waiters -> Nat]
          /\ cancelled \in [Waiters -> BOOLEAN]
          /\ admitted \in Nat
          /\ seen \in [Waiters -> Nat]
          /\ windowStart \in 0 .. now
          /\ windowBase \in 0 .. admitted

\* The rate limit itself, over every window and not only from the start: between
\* any instant the observer marks and now, Wait admits at most the capacity plus
\* what the elapsed time earns, whatever the callers, refills and roundings.
WindowBound ==
  (admitted - windowBase) * Interval <= MaxTokens * Interval + MaxTokens * (now - windowStart)

\* The content of the bucket, in (1/Interval)-ths of a token.
Content == tokens * Interval + credit

\* The account that makes WindowBound inductive: a full bucket holds no fraction, and
\* since the window opened, what is in the bucket plus what was taken out is covered by
\* a full bucket plus what was earned up to the last refill.  Before the first refill
\* in the window nobody was admitted, for every admission refills first.
Account ==
  /\ tokens = MaxTokens => credit = 0
  /\ IF lastRefill < windowStart
     THEN admitted = windowBase
     ELSE Content + (admitted - windowBase) * Interval
            <= MaxTokens * Interval + MaxTokens * (lastRefill - windowStart)

\* The delay of an empty bucket is exact: when it is over the refill finds a token,
\* and one tick earlier it would not have, whatever fraction the refills left.
DelayExact ==
  tokens = 0 => LET d == NextDelay(credit)
                IN  /\ Refilled(lastRefill + d).tokens > 0
                    /\ Refilled(lastRefill + d - 1).tokens = 0

\* Concurrent waiters that race for one token never all go back to sleep: once a
\* timer that can still fire is running, somebody is admitted or the wait is cancelled.
SomebodyAdmitted ==
  \A w \in Waiters :
    pc[w] = "select" /\ timer[w] <= Horizon ~> admitted > seen[w] \/ cancelled[w]

\* The integers of the code are the ideal bucket: tokens * Interval + credit is its
\* content, and no step of any caller adds, loses or rounds a fraction of a token.
Ideal == INSTANCE TokenBucket WITH Capacity <- MaxTokens, Interval <- Interval,
                                   Instants <- 0 .. Horizon,
                                   level <- Content,
                                   settled <- lastRefill, admissions <- admitted

ImplementsTokenBucket == Ideal!BucketSpec
=============================================================================
