------------------------------ MODULE RetryWaits ------------------------------
(***************************************************************************)
(* The waits of the successive retries of one status class of one call:    *)
(* the numeric edges of backoff in client/throttle.go, explored over every *)
(* base and maximum a resolved policy can hold in a Width-bit Duration.    *)
(* The names are other than ThrottledClient's: ThrottledClientProofs       *)
(* extends both modules.                                                   *)
(***************************************************************************)
EXTENDS ThrottlePolicy

CONSTANT RetryBound   \* bound of the model: retries of the class

VARIABLES baseBackoff, maxBackoff,  \* of the resolved policy
          retryCount,               \* retries so far
          waited                    \* the wait of the last one

waitVars == <<baseBackoff, maxBackoff, retryCount, waited>>

\* resolved leaves a positive base and a maximum that is not below it.
WaitsInit == /\ baseBackoff \in 1 .. MaxDuration
             /\ maxBackoff \in baseBackoff .. MaxDuration
             /\ retryCount = 0
             /\ waited = 0

NextWait == /\ retryCount < RetryBound
            /\ retryCount' = retryCount + 1
            /\ waited' \in Backoffs(baseBackoff, maxBackoff, retryCount')
            /\ UNCHANGED <<baseBackoff, maxBackoff>>

WaitsSpec == WaitsInit /\ [][NextWait]_waitVars

-----------------------------------------------------------------------------
(* Properties *)

\* No base, maximum, retry count, shift overflow or undefined float conversion makes a
\* wait negative or longer than MaxBackoff.
WaitWithinBounds == waited \in 0 .. maxBackoff

\* The documented wait of retry k, in numbers that do not overflow.
Documented(k) == AtMost(baseBackoff * 2^(k - 1), maxBackoff)

\* The shift loses no bit and neither does the product with the jitter.
Representable == baseBackoff * 2^MaxShift <= MaxDuration /\ 3 * maxBackoff <= 2 * MaxDuration

\* Where nothing overflows, a retry waits from half to one and a half times the
\* documented value, never above MaxBackoff; from retry MaxShift + 2 on the shift no
\* longer grows, and the wait is that of retry MaxShift + 1.
JitteredAroundDocumented ==
  Representable /\ retryCount > 0 =>
    LET d == Documented(AtMost(retryCount, MaxShift + 1))
    IN  waited >= d \div 2 /\ 2 * waited < 3 * d /\ waited <= maxBackoff
=============================================================================
