----------------------------- MODULE TokenBucket -----------------------------
(***************************************************************************)
(* What a rate limit of Capacity requests per Interval promises: an ideal  *)
(* bucket whose content is a real number of tokens, kept here as an        *)
(* integer number of (1/Interval)-ths of a token.  It earns Capacity of    *)
(* those per clock tick, never holds more than Capacity whole tokens, and  *)
(* an admission takes one whole token.  RateLimiter.tla shows that the     *)
(* integer arithmetic of client/rate_limiter.go implements it exactly.     *)
(***************************************************************************)
EXTENDS Integers

CONSTANTS Capacity,   \* requests per interval, the n of WithRateLimit
          Interval,   \* the interval, in clock ticks
          Instants    \* the instants of the clock

VARIABLES level,      \* content, in (1/Interval)-ths of a token
          settled,    \* instant up to which earnings are in level
          admissions  \* tokens taken so far

bucketVars == <<level, settled, admissions>>

Full == Capacity * Interval

\* The content at instant t when nobody takes a token before t.
LevelAt(t) == IF level + Capacity * (t - settled) >= Full
              THEN Full
              ELSE level + Capacity * (t - settled)

BucketInit == /\ level = Full
              /\ settled = 0
              /\ admissions = 0

\* A caller finds a whole token at instant t and takes it.
Take(t) == /\ LevelAt(t) >= Interval
           /\ level' = LevelAt(t) - Interval
           /\ settled' = t
           /\ admissions' = admissions + 1

\* A caller finds less than a whole token at instant t.
FindEmpty(t) == /\ LevelAt(t) < Interval
                /\ level' = LevelAt(t)
                /\ settled' = t
                /\ UNCHANGED admissions

BucketNext == \E t \in Instants : t >= settled /\ (Take(t) \/ FindEmpty(t))

BucketSpec == BucketInit /\ [][BucketNext]_bucketVars
=============================================================================
