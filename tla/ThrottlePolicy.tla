---------------------------- MODULE ThrottlePolicy ----------------------------
(***************************************************************************)
(* The pure part of client/throttle.go: which responses are throttled, how *)
(* a policy is resolved, and how long the client waits before a retry.     *)
(* Durations are time.Duration, a signed integer of Width bits (64 in the  *)
(* build); the shift in backoff is capped at MaxShift (30 in the code).    *)
(***************************************************************************)
EXTENDS Integers

CONSTANTS Width,     \* bits of a time.Duration
          MaxShift,  \* largest shift of the base backoff
          Defaults   \* the policy's default values, a record like a policy

ASSUME WidthAssumption == Width \in Nat \ {0} /\ MaxShift \in Nat

MaxDuration == 2^(Width - 1) - 1
Durations == -(2^(Width - 1)) .. MaxDuration

\* What a Width-bit register holds after computing x.
Wrapped(x) == ((x + 2^(Width - 1)) % 2^Width) - 2^(Width - 1)

AtMost(x, bound) == IF x > bound THEN bound ELSE x

-----------------------------------------------------------------------------
TooManyRequests == 429
Forbidden == 403
ThrottledStatuses == {TooManyRequests, Forbidden}

\* 0 asks for the default, anything negative for no retries.
ResolvedRetries(n, default) == IF n = 0 THEN default ELSE IF n < 0 THEN 0 ELSE n

ResolvedDuration(d, default) == IF d <= 0 THEN default ELSE d

Resolved(p) ==
  LET base == ResolvedDuration(p.base, Defaults.base)
      max == ResolvedDuration(p.max, Defaults.max)
  IN  [disabled |-> p.disabled,
       retries |-> [s \in ThrottledStatuses |->
                      ResolvedRetries(p.retries[s], Defaults.retries[s])],
       base |-> base,
       max |-> IF max < base THEN base ELSE max,
       cap |-> ResolvedDuration(p.cap, Defaults.cap)]

-----------------------------------------------------------------------------
\* Mutant of the shift: by n.
ShiftedTwice(base, n) == Wrapped(base * 2^AtMost(n, MaxShift))

\* base << min(n - 1, MaxShift), as the register holds it.
Shifted(base, n) == Wrapped(base * 2^AtMost(n - 1, MaxShift))

Nominal(base, max, n) ==
  IF Shifted(base, n) <= 0 \/ Shifted(base, n) > max THEN max ELSE Shifted(base, n)

\* The values of Duration(float64(d) * (0.5 + j)) for a jitter j in [0, 1).  A product
\* beyond the largest Duration has no defined conversion: any Duration may come out.
Jittered(d) ==
  LET top == (3 * d - 1) \div 2
  IN  (d \div 2 .. AtMost(top, MaxDuration)) \cup (IF top > MaxDuration THEN Durations ELSE {})

\* Mutant of backoff: jitter applied last, nothing clamped after it.
BackoffsUnclamped(base, max, n) == Jittered(Nominal(base, max, n))

\* backoff: the waits the nth retry of a class may get.
Backoffs(base, max, n) ==
  {IF scaled < 0 THEN 0 ELSE AtMost(scaled, max) : scaled \in Jittered(Nominal(base, max, n))}

-----------------------------------------------------------------------------
\* A Retry-After header: absent, unparseable, a number of seconds or a date.
NoHeader == [kind |-> "none"]
Junk == [kind |-> "junk"]
Seconds(n) == [kind |-> "seconds", value |-> n]
Date(t) == [kind |-> "date", value |-> t]

HasRetryAfter(h) == h.kind \in {"seconds", "date"}

\* parseRetryAfter at instant t, 0 when the header is absent or unparseable.
ParsedRetryAfter(h, t) ==
  CASE h.kind = "seconds" -> AtMost(h.value, MaxDuration)
    [] h.kind = "date" -> IF h.value > t THEN h.value - t ELSE 0
    [] OTHER -> 0

\* throttleWait: the waits, each with the Retry-After value reported to the observer,
\* of the nth retry after a response with this status and header at instant t.
ThrottleWaits(policy, status, header, n, t) ==
  IF status = TooManyRequests /\ HasRetryAfter(header)
  THEN {[wait |-> AtMost(ParsedRetryAfter(header, t), policy.cap),
         retryAfter |-> ParsedRetryAfter(header, t)]}
  ELSE {[wait |-> w, retryAfter |-> 0] : w \in Backoffs(policy.base, policy.max, n)}
=============================================================================
