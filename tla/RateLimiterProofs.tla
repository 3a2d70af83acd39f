-------------------------- MODULE RateLimiterProofs --------------------------
(***************************************************************************)
(* For every capacity, interval, number of callers and length of run: the  *)
(* integers of client/rate_limiter.go implement the ideal bucket, and the  *)
(* number of admissions in any window is bounded by the rate; and the      *)
(* delay of an empty bucket is the least after which it holds a token.     *)
(*                                                                         *)
(* All of it rests on RefillExact: a refill moves the content              *)
(* tokens * Interval + credit to exactly where the ideal bucket is.        *)
(***************************************************************************)
EXTENDS RateLimiter, TLAPS

-----------------------------------------------------------------------------
(* Arithmetic the provers need spelled out: products are not linear. *)

LEMMA DivMod == ASSUME NEW a \in Nat, NEW b \in Nat \ {0}
                PROVE  /\ a \div b \in Nat
                       /\ a % b \in 0 .. b - 1
                       /\ a = b * (a \div b) + (a % b)
  OBVIOUS

LEMMA MulMono == ASSUME NEW a \in Int, NEW b \in Int, NEW k \in Nat, a <= b
                 PROVE  k * a <= k * b
  OBVIOUS

LEMMA MulInt == ASSUME NEW a \in Int, NEW k \in Int
                PROVE  /\ k * a \in Int
                       /\ k * a = a * k
  OBVIOUS

LEMMA MulNat == ASSUME NEW a \in Nat, NEW k \in Nat
                PROVE  k * a \in Nat
  OBVIOUS

LEMMA MulDist == ASSUME NEW a \in Int, NEW b \in Int, NEW k \in Int
                 PROVE  /\ k * (a + b) = k * a + k * b
                        /\ k * (a - b) = k * a - k * b
  OBVIOUS

-----------------------------------------------------------------------------
\* A refill at instant t leaves the struct's fields in range, and moves the content of
\* the bucket to exactly the level of the ideal bucket at t.
LEMMA RefillExact ==
  ASSUME RateLimitAssumption, TypeOK, tokens = MaxTokens => credit = 0,
         NEW t \in Nat, t >= lastRefill
  PROVE  /\ Refilled(t).tokens \in 0 .. MaxTokens
         /\ Refilled(t).credit \in 0 .. Interval - 1
         /\ Refilled(t).at = t
         /\ Refilled(t).tokens = MaxTokens => Refilled(t).credit = 0
         /\ Refilled(t).tokens * Interval + Refilled(t).credit = Ideal!LevelAt(t)
<1> DEFINE elapsed == t - lastRefill
           numerator == elapsed * MaxTokens + credit
           earned == numerator \div Interval
           rest == numerator % Interval
           full == [tokens |-> MaxTokens, credit |-> 0, at |-> t]
<1>0. /\ MaxTokens \in Nat \ {0} /\ Interval \in Nat \ {0}
      /\ tokens \in 0 .. MaxTokens /\ credit \in 0 .. Interval - 1
      /\ lastRefill \in Nat /\ elapsed \in Nat
  BY DEF RateLimitAssumption, TypeOK
<1>1. elapsed * MaxTokens \in Nat /\ elapsed * MaxTokens = MaxTokens * elapsed
  BY <1>0, MulNat, MulInt
<1>2. /\ numerator \in Nat
      /\ earned \in Nat
      /\ rest \in 0 .. Interval - 1
      /\ numerator = Interval * earned + rest
  <2> HIDE DEF elapsed
  <2>1. numerator \in Nat
    BY <1>0, <1>1
  <2> HIDE DEF numerator
  <2> QED
    BY <1>0, <2>1, DivMod
<1>3. Ideal!LevelAt(t) = IF tokens * Interval + credit + MaxTokens * elapsed >= MaxTokens * Interval
                         THEN MaxTokens * Interval
                         ELSE tokens * Interval + credit + MaxTokens * elapsed
  BY DEF Ideal!LevelAt, Ideal!Full, Content
<1>4. tokens * Interval \in Nat /\ MaxTokens * Interval \in Nat
  BY <1>0, MulNat
<1>5. CASE elapsed = 0
  <2>1. Refilled(t) = [tokens |-> tokens, credit |-> credit, at |-> lastRefill]
    BY <1>0, <1>5 DEF Refilled
  <2>2. tokens < MaxTokens => tokens * Interval + credit < MaxTokens * Interval
    <3>1. SUFFICES ASSUME tokens < MaxTokens
                   PROVE  tokens * Interval + credit < MaxTokens * Interval
      OBVIOUS
    <3>2. Interval * (tokens + 1) <= Interval * MaxTokens
      BY <1>0, <3>1, MulMono
    <3>3. Interval * (tokens + 1) = Interval * tokens + Interval * 1
      BY <1>0, MulDist
    <3> QED
      BY <1>0, <3>2, <3>3, MulInt
  <2>3. MaxTokens * elapsed = 0
    BY <1>0, <1>5
  <2> QED
    BY <1>0, <1>3, <1>4, <1>5, <2>1, <2>2, <2>3
<1>6. CASE elapsed > 0 /\ (elapsed >= Interval \/ tokens = MaxTokens
                             \/ earned >= MaxTokens - tokens)
  <2>1. Refilled(t) = full
    BY <1>0, <1>6 DEF Refilled
  <2>2. tokens * Interval + credit + MaxTokens * elapsed >= MaxTokens * Interval
    <3>1. CASE elapsed >= Interval
      BY <1>0, <1>1, <1>4, <3>1, MulMono
    <3>2. CASE tokens = MaxTokens
      BY <1>0, <1>1, <1>4, <3>2
    <3>3. CASE earned >= MaxTokens - tokens
      <4>1. Interval * earned >= Interval * (MaxTokens - tokens)
        BY <1>0, <1>2, <3>3, MulMono
      <4>2. Interval * (MaxTokens - tokens) = Interval * MaxTokens - Interval * tokens
        BY <1>0, MulDist
      <4>3. Interval * earned \in Int /\ Interval * MaxTokens = MaxTokens * Interval
            /\ Interval * tokens = tokens * Interval
        BY <1>0, <1>2, MulInt
      <4> HIDE DEF earned, rest, elapsed
      <4> QED
        BY <1>0, <1>1, <1>2, <1>4, <4>1, <4>2, <4>3
    <3> QED
      BY <1>6, <3>1, <3>2, <3>3
  <2> QED
    BY <1>0, <1>3, <1>4, <2>1, <2>2
<1>7. CASE elapsed > 0 /\ ~(elapsed >= Interval \/ tokens = MaxTokens
                              \/ earned >= MaxTokens - tokens)
  <2>1. Refilled(t) = [tokens |-> tokens + earned, credit |-> rest, at |-> t]
    BY <1>0, <1>7 DEF Refilled
  <2>2. earned < MaxTokens - tokens
    BY <1>0, <1>2, <1>7
  <2>3. (tokens + earned) * Interval = tokens * Interval + Interval * earned
    BY <1>0, <1>2, MulDist, MulInt
  <2>4. tokens * Interval + credit + MaxTokens * elapsed = tokens * Interval + Interval * earned + rest
    <3>1. Interval * earned \in Int
      BY <1>0, <1>2, MulInt
    <3> HIDE DEF earned, rest, elapsed
    <3> QED
      BY <1>0, <1>1, <1>2, <1>4, <3>1
  <2>5. Interval * (tokens + earned + 1) <= Interval * MaxTokens
    BY <1>0, <1>2, <2>2, MulMono
  <2>6. Interval * (tokens + earned + 1) = Interval * tokens + Interval * earned + Interval
    BY <1>0, <1>2, MulDist
  <2>7. Interval * tokens = tokens * Interval /\ Interval * MaxTokens = MaxTokens * Interval
        /\ Interval * earned \in Int
    BY <1>0, <1>2, MulInt
  <2>8. tokens * Interval + credit + MaxTokens * elapsed < MaxTokens * Interval
    <3> HIDE DEF earned, rest, elapsed
    <3> QED
      BY <1>0, <1>1, <1>2, <1>4, <2>4, <2>5, <2>6, <2>7
  <2>9. Ideal!LevelAt(t) = (tokens + earned) * Interval + rest
    <3> HIDE DEF earned, rest, elapsed
    <3> QED
      BY <1>0, <1>1, <1>2, <1>3, <1>4, <2>3, <2>4, <2>7, <2>8
  <2> QED
    <3> HIDE DEF earned, rest, elapsed
    <3> QED
      BY <1>0, <1>2, <2>1, <2>2, <2>9
<1> QED
  BY <1>0, <1>5, <1>6, <1>7

-----------------------------------------------------------------------------
(* Type correctness, with the first conjunct of Account, which it needs. *)

TypeInv == TypeOK /\ (tokens = MaxTokens => credit = 0)

LEMMA TypeInit == ASSUME RateLimitAssumption PROVE Init => TypeInv
  BY DEF RateLimitAssumption, Init, TypeInv, TypeOK, PCs

LEMMA NextDelayNat == ASSUME RateLimitAssumption, NEW c \in 0 .. Interval - 1
                      PROVE  NextDelay(c) \in Nat
<1>1. Interval - c \in Nat /\ MaxTokens \in Nat \ {0}
  BY DEF RateLimitAssumption
<1>2. (Interval - c) \div MaxTokens \in Nat
  BY <1>1, DivMod
<1> QED
  BY <1>2 DEF NextDelay

LEMMA TypeStep == ASSUME RateLimitAssumption, TypeInv, [Next]_vars PROVE TypeInv'
<1> USE DEF TypeInv, bucket, window
<1>0. now \in Nat /\ now >= lastRefill
  BY DEF TypeOK
<1>1. /\ Refilled(now).tokens \in 0 .. MaxTokens
      /\ Refilled(now).credit \in 0 .. Interval - 1
      /\ Refilled(now).at = now
      /\ Refilled(now).tokens = MaxTokens => Refilled(now).credit = 0
  BY <1>0, RefillExact
<1>2. ASSUME NEW w \in Waiters, Call(w) PROVE TypeInv'
  BY <1>2 DEF Call, TypeOK, PCs
<1>3. ASSUME NEW w \in Waiters, CheckCancelled(w) PROVE TypeInv'
  BY <1>3 DEF CheckCancelled, TypeOK, PCs
<1>4. ASSUME NEW w \in Waiters, Admit(w) PROVE TypeInv'
  <2>1. /\ tokens' \in 0 .. MaxTokens - 1 /\ credit' \in 0 .. Interval - 1
        /\ lastRefill' = now /\ admitted' = admitted + 1
    BY <1>1, <1>4 DEF Admit, RateLimitAssumption
  <2> QED
    BY <1>4, <2>1 DEF Admit, TypeOK, PCs, RateLimitAssumption
<1>5. ASSUME NEW w \in Waiters, FindEmpty(w) PROVE TypeInv'
  <2>1. /\ tokens' = 0 /\ credit' \in 0 .. Interval - 1
        /\ lastRefill' = now /\ NextDelay(credit') \in Nat
        /\ timer' = [timer EXCEPT ![w] = NextDelay(credit')]
    BY <1>1, <1>5, NextDelayNat DEF FindEmpty, RateLimitAssumption
  <2> QED
    BY <1>5, <2>1 DEF FindEmpty, TypeOK, PCs, RateLimitAssumption
<1>6. ASSUME NEW w \in Waiters, StartTimer(w) PROVE TypeInv'
  BY <1>6 DEF StartTimer, TypeOK, PCs
<1>7. ASSUME NEW w \in Waiters, TimerFires(w) PROVE TypeInv'
  BY <1>7 DEF TimerFires, TypeOK, PCs
<1>8. ASSUME NEW w \in Waiters, WaitCancelled(w) PROVE TypeInv'
  BY <1>8 DEF WaitCancelled, TypeOK, PCs
<1>9. ASSUME NEW w \in Waiters, Cancel(w) PROVE TypeInv'
  BY <1>9 DEF Cancel, TypeOK, PCs
<1>10. CASE Tick
  BY <1>10 DEF Tick, TypeOK, RateLimitAssumption
<1>11. CASE OpenWindow
  BY <1>11 DEF OpenWindow, TypeOK
<1>12. CASE UNCHANGED vars
  BY <1>12 DEF vars, TypeOK
<1> QED
  BY <1>2, <1>3, <1>4, <1>5, <1>6, <1>7, <1>8, <1>9, <1>10, <1>11, <1>12 DEF Next, Section

\* Every field of the limiter and of its callers keeps its range in every execution:
\* in particular tokens never leaves 0 .. MaxTokens and credit stays a proper fraction.
THEOREM TypeCorrect == Spec => []TypeOK
<1>1. Init => TypeInv
  BY RateLimitAssumption, TypeInit
<1>2. TypeInv /\ [Next]_vars => TypeInv'
  BY RateLimitAssumption, TypeStep
<1>3. TypeInv => TypeOK
  BY DEF TypeInv
<1> QED
  BY <1>1, <1>2, <1>3, PTL DEF Spec

-----------------------------------------------------------------------------
(* The integers implement the ideal bucket. *)

LEMMA IdealInit == ASSUME RateLimitAssumption PROVE Init => Ideal!BucketInit
  BY DEF RateLimitAssumption, Init, Ideal!BucketInit, Ideal!Full, Content

\* What the critical section does to the content, in terms of the ideal bucket.
LEMMA SectionExact ==
  ASSUME RateLimitAssumption, TypeInv, NEW w \in Waiters
  PROVE  /\ Admit(w) => Ideal!Take(now)
         /\ FindEmpty(w) => Ideal!FindEmpty(now)
<1> DEFINE r == Refilled(now)
<1>0. /\ now \in Nat /\ lastRefill <= now /\ Interval \in Nat \ {0} /\ MaxTokens \in Nat
  BY DEF RateLimitAssumption, TypeInv, TypeOK
<1>1. /\ r.tokens \in 0 .. MaxTokens
      /\ r.credit \in 0 .. Interval - 1
      /\ r.at = now
      /\ r.tokens * Interval + r.credit = Ideal!LevelAt(now)
  BY <1>0, RefillExact DEF TypeInv
<1>2. ASSUME Admit(w) PROVE Ideal!Take(now)
  <2>1. /\ r.tokens > 0 /\ tokens' = r.tokens - 1 /\ credit' = r.credit /\ lastRefill' = now
        /\ admitted' = admitted + 1
    BY <1>1, <1>2 DEF Admit
  <2>2. /\ (r.tokens - 1) * Interval = r.tokens * Interval - Interval
        /\ r.tokens * Interval >= Interval
        /\ r.tokens * Interval \in Int
    <3>1. r.tokens - 1 \in Nat /\ r.tokens \in Nat
      BY <1>0, <1>1, <2>1
    <3> HIDE DEF r
    <3>2. Interval * (r.tokens - 1) = Interval * r.tokens - Interval * 1
      BY <3>1, <1>0, MulDist
    <3>3. Interval * (r.tokens - 1) \in Nat
      BY <3>1, <1>0, MulNat
    <3>4. /\ Interval * (r.tokens - 1) = (r.tokens - 1) * Interval
          /\ Interval * r.tokens = r.tokens * Interval
          /\ r.tokens * Interval \in Int
      BY <3>1, <1>0, MulInt
    <3> QED
      BY <3>1, <3>2, <3>3, <3>4, <1>0
  <2>3. Content' = Ideal!LevelAt(now) - Interval /\ Ideal!LevelAt(now) >= Interval
    <3> HIDE DEF r
    <3> QED
      BY <1>0, <1>1, <2>1, <2>2 DEF Content
  <2> QED
    BY <2>1, <2>3 DEF Ideal!Take
<1>3. ASSUME FindEmpty(w) PROVE Ideal!FindEmpty(now)
  <2>1. r.tokens = 0 /\ tokens' = 0 /\ credit' = r.credit /\ lastRefill' = now /\ admitted' = admitted
    BY <1>0, <1>1, <1>3 DEF FindEmpty
  <2>2. Content' = r.credit /\ r.credit = Ideal!LevelAt(now)
    BY <1>0, <1>1, <2>1 DEF Content
  <2> QED
    BY <1>0, <1>1, <2>1, <2>2 DEF Ideal!FindEmpty
<1> QED
  BY <1>2, <1>3

LEMMA IdealStep ==
  ASSUME RateLimitAssumption, TypeInv, [Next]_vars
  PROVE  [Ideal!BucketNext]_(Ideal!bucketVars)
<1>0. now \in 0 .. Horizon /\ now >= lastRefill
  BY DEF RateLimitAssumption, TypeInv, TypeOK
<1>1. ASSUME NEW w \in Waiters, Admit(w) \/ FindEmpty(w) PROVE Ideal!BucketNext
  <2>1. Ideal!Take(now) \/ Ideal!FindEmpty(now)
    BY <1>1, SectionExact
  <2> QED
    BY <1>0, <2>1 DEF Ideal!BucketNext
<1>2. CASE UNCHANGED bucket
  BY <1>2 DEF Ideal!bucketVars, bucket, Content
<1>3. (\E w \in Waiters : Admit(w) \/ FindEmpty(w)) \/ UNCHANGED bucket
  BY DEF Next, Section, vars, Call, CheckCancelled, StartTimer, TimerFires, WaitCancelled,
         Cancel, Tick, OpenWindow
<1> QED
  BY <1>1, <1>2, <1>3

\* Whatever the capacity, the interval and the interleaving of the callers, the integer
\* arithmetic of refill neither creates nor loses a fraction of a token.
THEOREM RefinesTokenBucket == Spec => ImplementsTokenBucket
<1>1. Init => TypeInv /\ Ideal!BucketInit
  BY RateLimitAssumption, TypeInit, IdealInit
<1>2. TypeInv /\ [Next]_vars => TypeInv' /\ [Ideal!BucketNext]_(Ideal!bucketVars)
  BY RateLimitAssumption, TypeStep, IdealStep
<1> QED
  BY <1>1, <1>2, PTL DEF Spec, ImplementsTokenBucket, Ideal!BucketSpec

-----------------------------------------------------------------------------
(* The rate limit, over every window. *)

IInv == TypeInv /\ Account

\* What an admission or an empty look does to the account, whichever of the two it is:
\* k is the number of tokens taken.
LEMMA AccountSettled ==
  ASSUME RateLimitAssumption, IInv, NEW k \in {0, 1},
         lastRefill' = now, windowStart' = windowStart, windowBase' = windowBase,
         admitted' = admitted + k,
         Content' = Ideal!LevelAt(now) - k * Interval
  PROVE  IF lastRefill' < windowStart'
         THEN admitted' = windowBase'
         ELSE Content' + (admitted' - windowBase') * Interval
                <= MaxTokens * Interval + MaxTokens * (lastRefill' - windowStart')
<1> DEFINE F == MaxTokens * Interval
           E == MaxTokens * (now - lastRefill)
           L == Ideal!LevelAt(now)
<1>0. /\ now \in Nat /\ lastRefill \in Nat /\ windowStart \in Nat /\ admitted \in Nat
      /\ windowBase \in Nat /\ Interval \in Nat /\ MaxTokens \in Nat
      /\ lastRefill <= now /\ windowStart <= now /\ tokens \in Nat /\ credit \in Nat
  BY DEF RateLimitAssumption, IInv, TypeInv, TypeOK
<1>1. F \in Int /\ E \in Int /\ Content \in Int
  BY <1>0, MulInt DEF Content
<1>2. L <= F /\ L <= Content + E /\ L \in Int
  BY <1>1 DEF Ideal!LevelAt, Ideal!Full
<1>3. ~(lastRefill' < windowStart')
  BY <1>0
<1>4. Content' + (admitted' - windowBase') * Interval = L + (admitted - windowBase) * Interval
  <2>1. /\ Interval * ((admitted - windowBase) + k) = Interval * (admitted - windowBase) + Interval * k
        /\ (admitted - windowBase) + k = admitted' - windowBase'
    BY <1>0, MulDist
  <2>2. /\ Interval * ((admitted - windowBase) + k) = (admitted' - windowBase') * Interval
        /\ Interval * (admitted - windowBase) = (admitted - windowBase) * Interval
        /\ Interval * k = k * Interval
        /\ (admitted - windowBase) * Interval \in Int
        /\ k * Interval \in Int
    BY <1>0, <2>1, MulInt
  <2>3. Content' = L - k * Interval
    OBVIOUS
  <2> HIDE DEF L
  <2> QED
    BY <1>2, <2>1, <2>2, <2>3
<1>5. CASE lastRefill < windowStart
  <2>1. (admitted - windowBase) * Interval = 0
    BY <1>0, <1>5 DEF IInv, Account
  <2>2. MaxTokens * (now - windowStart) \in Nat
    BY <1>0, MulNat
  <2> HIDE DEF L, F, E
  <2>3. L + 0 <= F + MaxTokens * (now - windowStart)
    BY <1>1, <1>2, <2>2
  <2> QED
    BY <1>3, <1>4, <2>1, <2>3 DEF F
<1>6. CASE ~(lastRefill < windowStart)
  <2>1. Content + (admitted - windowBase) * Interval <= F + MaxTokens * (lastRefill - windowStart)
    BY <1>6 DEF IInv, Account
  <2>2. MaxTokens * (now - windowStart) = MaxTokens * (lastRefill - windowStart) + E
    <3>1. now - windowStart = (lastRefill - windowStart) + (now - lastRefill)
      BY <1>0
    <3> QED
      BY <1>0, <3>1, MulDist
  <2>3. MaxTokens * (lastRefill - windowStart) \in Int /\ (admitted - windowBase) * Interval \in Int
    BY <1>0, MulInt
  <2> HIDE DEF L, F, E
  <2>4. L + (admitted - windowBase) * Interval <= F + MaxTokens * (now - windowStart)
    BY <1>1, <1>2, <2>1, <2>2, <2>3
  <2> QED
    BY <1>3, <1>4, <2>4 DEF F
<1> QED
  BY <1>5, <1>6

LEMMA ContentBound == ASSUME RateLimitAssumption, TypeInv PROVE Content <= MaxTokens * Interval
<1>0. tokens \in 0 .. MaxTokens /\ credit \in 0 .. Interval - 1 /\ MaxTokens \in Nat /\ Interval \in Nat
  BY DEF RateLimitAssumption, TypeInv, TypeOK
<1>1. CASE tokens = MaxTokens
  BY <1>0, <1>1, MulInt DEF TypeInv, Content
<1>2. CASE tokens # MaxTokens
  <2>1. Interval * (tokens + 1) <= Interval * MaxTokens
    BY <1>0, <1>2, MulMono
  <2>2. Interval * (tokens + 1) = Interval * tokens + Interval * 1
    BY <1>0, MulDist
  <2> QED
    BY <1>0, <2>1, <2>2, MulInt DEF Content
<1> QED
  BY <1>1, <1>2

LEMMA AccountStep == ASSUME RateLimitAssumption, IInv, [Next]_vars PROVE IInv'
<1>0. TypeInv'
  BY TypeStep DEF IInv
<1>1. ASSUME NEW w \in Waiters, Admit(w) PROVE Account'
  <2>1. Ideal!Take(now) /\ UNCHANGED window
    BY <1>1, SectionExact DEF IInv, Admit
  <2>2. /\ lastRefill' = now /\ windowStart' = windowStart /\ windowBase' = windowBase
        /\ admitted' = admitted + 1 /\ Content' = Ideal!LevelAt(now) - 1 * Interval
    BY <2>1 DEF Ideal!Take, window, RateLimitAssumption
  <2> QED
    BY <1>0, <2>2, AccountSettled DEF Account, TypeInv
<1>2. ASSUME NEW w \in Waiters, FindEmpty(w) PROVE Account'
  <2>1. Ideal!FindEmpty(now) /\ UNCHANGED window
    BY <1>2, SectionExact DEF IInv, FindEmpty
  <2>2. Ideal!LevelAt(now) \in Int
    <3>1. /\ MaxTokens \in Int /\ Interval \in Int /\ now - lastRefill \in Int
          /\ tokens \in Int /\ credit \in Int
      BY DEF RateLimitAssumption, IInv, TypeInv, TypeOK
    <3> QED
      BY <3>1, MulInt DEF Ideal!LevelAt, Ideal!Full, Content
  <2>3. /\ lastRefill' = now /\ windowStart' = windowStart /\ windowBase' = windowBase
        /\ admitted' = admitted + 0 /\ Content' = Ideal!LevelAt(now) - 0 * Interval
    BY <2>1, <2>2 DEF Ideal!FindEmpty, window, RateLimitAssumption, IInv, TypeInv, TypeOK
  <2> QED
    BY <1>0, <2>3, AccountSettled DEF Account, TypeInv
<1>3. CASE OpenWindow
  <2>1. /\ windowStart' = now /\ windowBase' = admitted /\ admitted' = admitted
        /\ lastRefill' = lastRefill /\ tokens' = tokens /\ credit' = credit /\ Content' = Content
    BY <1>3 DEF OpenWindow, bucket, Content
  <2>2. /\ lastRefill <= now /\ lastRefill \in Nat /\ now \in Nat /\ admitted \in Nat
        /\ MaxTokens \in Nat /\ Interval \in Nat /\ tokens \in Nat /\ credit \in Nat
    BY DEF IInv, TypeInv, TypeOK, RateLimitAssumption
  <2>3. CASE lastRefill < now
    BY <1>0, <2>1, <2>3 DEF IInv, Account
  <2>4. CASE lastRefill = now
    <3>1. /\ (admitted' - windowBase') * Interval = 0
          /\ MaxTokens * (lastRefill' - windowStart') = 0
      BY <2>1, <2>2, <2>4
    <3>2. Content \in Int /\ MaxTokens * Interval \in Int
      BY <2>2, MulInt DEF Content
    <3> QED
      BY <1>0, <2>1, <2>2, <2>4, <3>1, <3>2, ContentBound DEF IInv, Account
  <2> QED
    BY <2>2, <2>3, <2>4
<1>4. CASE UNCHANGED <<bucket, window>>
  BY <1>0, <1>4 DEF bucket, window, IInv, Account, Content
<1>5. \/ \E w \in Waiters : Admit(w) \/ FindEmpty(w)
      \/ OpenWindow
      \/ UNCHANGED <<bucket, window>>
  BY DEF Next, Section, vars, Call, CheckCancelled, StartTimer, TimerFires, WaitCancelled,
         Cancel, Tick
<1> QED
  BY <1>0, <1>1, <1>2, <1>3, <1>4, <1>5 DEF IInv

LEMMA AccountInit == ASSUME RateLimitAssumption PROVE Init => IInv
<1>1. SUFFICES ASSUME Init PROVE Account
  BY TypeInit DEF IInv
<1>2. MaxTokens \in Nat /\ Interval \in Nat /\ MaxTokens * Interval \in Int
  BY MulInt DEF RateLimitAssumption
<1>3. (admitted - windowBase) * Interval = 0 /\ MaxTokens * (lastRefill - windowStart) = 0
  BY <1>1, <1>2 DEF Init
<1> QED
  BY <1>1, <1>2, <1>3 DEF Init, Account, Content

LEMMA AccountBounds == ASSUME RateLimitAssumption, IInv PROVE WindowBound
<1>0. /\ now \in Nat /\ lastRefill \in Nat /\ windowStart \in Nat /\ admitted \in Nat
      /\ windowBase \in Nat /\ Interval \in Nat /\ MaxTokens \in Nat
      /\ lastRefill <= now /\ windowStart <= now /\ tokens \in Nat /\ credit \in Nat
  BY DEF RateLimitAssumption, IInv, TypeInv, TypeOK
<1>1. /\ MaxTokens * Interval \in Nat /\ MaxTokens * (now - windowStart) \in Nat
      /\ tokens * Interval \in Nat /\ (admitted - windowBase) * Interval \in Int
      /\ MaxTokens * (lastRefill - windowStart) \in Int
  BY <1>0, MulNat, MulInt
<1>2. CASE lastRefill < windowStart
  <2>1. (admitted - windowBase) * Interval = 0
    BY <1>0, <1>2 DEF IInv, Account
  <2> QED
    BY <1>1, <2>1 DEF WindowBound
<1>3. CASE ~(lastRefill < windowStart)
  <2>1. MaxTokens * (lastRefill - windowStart) <= MaxTokens * (now - windowStart)
    BY <1>0, MulMono
  <2>2. Content + (admitted - windowBase) * Interval
          <= MaxTokens * Interval + MaxTokens * (lastRefill - windowStart)
    BY <1>3 DEF IInv, Account
  <2>3. Content \in Nat
    BY <1>0, <1>1 DEF Content
  <2> QED
    BY <1>1, <2>1, <2>2, <2>3 DEF WindowBound
<1> QED
  BY <1>2, <1>3

\* For every capacity, interval and number of callers: in no window of any length does
\* Wait admit more than the capacity plus what the window's length earns.
THEOREM RateLimit == Spec => []WindowBound
<1>1. Init => IInv
  BY RateLimitAssumption, AccountInit
<1>2. IInv /\ [Next]_vars => IInv'
  BY RateLimitAssumption, AccountStep
<1>3. IInv => WindowBound
  BY RateLimitAssumption, AccountBounds
<1> QED
  BY <1>1, <1>2, <1>3, PTL DEF Spec

-----------------------------------------------------------------------------
\* nextDelay is the least whole delay that earns what is missing to a token.
LEMMA LeastDelay ==
  ASSUME RateLimitAssumption, NEW c \in 0 .. Interval - 1
  PROVE  /\ NextDelay(c) \in Nat \ {0}
         /\ MaxTokens * NextDelay(c) >= Interval - c
         /\ MaxTokens * (NextDelay(c) - 1) < Interval - c
<1> DEFINE remaining == Interval - c
           whole == remaining \div MaxTokens
           rest == remaining % MaxTokens
<1>1. remaining \in Nat \ {0} /\ MaxTokens \in Nat \ {0}
  BY DEF RateLimitAssumption
<1>2. NextDelay(c) = whole + (IF rest # 0 THEN 1 ELSE 0)
  BY DEF NextDelay
<1> HIDE DEF remaining
<1>3. /\ whole \in Nat /\ rest \in 0 .. MaxTokens - 1
      /\ remaining = MaxTokens * whole + rest
  BY <1>1, DivMod
<1> HIDE DEF whole, rest
<1>4. /\ MaxTokens * (whole + 1) = MaxTokens * whole + MaxTokens
      /\ MaxTokens * (whole - 1) = MaxTokens * whole - MaxTokens
      /\ MaxTokens * whole \in Int
  BY <1>1, <1>3, MulDist, MulInt
<1>5. CASE rest # 0
  BY <1>1, <1>2, <1>3, <1>4, <1>5 DEF remaining
<1>6. CASE rest = 0
  <2>1. whole # 0
    BY <1>1, <1>3, <1>6
  <2> QED
    BY <1>1, <1>2, <1>3, <1>4, <1>6, <2>1 DEF remaining
<1> QED
  BY <1>5, <1>6

\* An empty bucket has a token again exactly when the level reaches one.
LEMMA TokenWhenEarned ==
  ASSUME RateLimitAssumption, TypeOK, tokens = 0, NEW d \in Nat
  PROVE  /\ Refilled(lastRefill + d).tokens > 0 <=> MaxTokens * d >= Interval - credit
         /\ Refilled(lastRefill + d).tokens >= 0
<1> DEFINE t == lastRefill + d
           r == Refilled(t)
<1>1. /\ MaxTokens \in Nat \ {0} /\ Interval \in Nat \ {0} /\ credit \in 0 .. Interval - 1
      /\ lastRefill \in Nat /\ t \in Nat /\ t >= lastRefill /\ t - lastRefill = d
  BY DEF RateLimitAssumption, TypeOK
<1>2. /\ r.tokens \in 0 .. MaxTokens /\ r.credit \in 0 .. Interval - 1
      /\ r.tokens * Interval + r.credit = Ideal!LevelAt(t)
  BY <1>1, RefillExact
<1>3. Content = credit
  BY <1>1 DEF Content
<1>4. Ideal!LevelAt(t) = IF credit + MaxTokens * d >= MaxTokens * Interval
                         THEN MaxTokens * Interval ELSE credit + MaxTokens * d
  BY <1>1, <1>3 DEF Ideal!LevelAt, Ideal!Full
<1>5. MaxTokens * d \in Nat /\ MaxTokens * Interval >= Interval /\ MaxTokens * Interval \in Nat
  <2>1. Interval * 1 <= Interval * MaxTokens
    BY <1>1, MulMono
  <2> QED
    BY <1>1, <2>1, MulNat, MulInt
<1>6. r.tokens > 0 => r.tokens * Interval >= Interval
  <2>1. r.tokens > 0 => Interval * 1 <= Interval * r.tokens
    BY <1>1, <1>2, MulMono
  <2> QED
    BY <1>1, <1>2, <2>1, MulInt
<1>7. r.tokens * Interval \in Nat /\ (r.tokens = 0 => r.tokens * Interval = 0)
  BY <1>1, <1>2, MulNat
<1> HIDE DEF r, t
<1>8. r.tokens > 0 <=> r.tokens * Interval + r.credit >= Interval
  BY <1>1, <1>2, <1>6, <1>7
<1>9. Ideal!LevelAt(t) >= Interval <=> MaxTokens * d >= Interval - credit
  BY <1>1, <1>4, <1>5
<1> QED
  BY <1>2, <1>8, <1>9 DEF r, t

\* The delay that Wait hands to its timer is exact: over the whole of it the refill earns
\* a token, and one tick less would have woken the caller for nothing.
THEOREM ExactDelay == Spec => []DelayExact
<1>1. TypeOK => DelayExact
  <2> SUFFICES ASSUME TypeOK, tokens = 0
               PROVE  /\ Refilled(lastRefill + NextDelay(credit)).tokens > 0
                      /\ Refilled(lastRefill + NextDelay(credit) - 1).tokens = 0
    BY DEF DelayExact
  <2> DEFINE d == NextDelay(credit)
  <2>1. TypeOK /\ RateLimitAssumption /\ credit \in 0 .. Interval - 1 /\ lastRefill \in Nat
    BY RateLimitAssumption DEF TypeOK
  <2>2. d \in Nat \ {0} /\ MaxTokens * d >= Interval - credit /\ MaxTokens * (d - 1) < Interval - credit
    BY <2>1, LeastDelay
  <2> HIDE DEF d
  <2>3. Refilled(lastRefill + d).tokens > 0
    BY <2>1, <2>2, TokenWhenEarned
  <2>4. Refilled(lastRefill + (d - 1)).tokens = 0
    <3>1. d - 1 \in Nat /\ MaxTokens * (d - 1) \in Int /\ Interval - credit \in Int
      BY <2>1, <2>2, MulInt DEF RateLimitAssumption
    <3>2. Refilled(lastRefill + (d - 1)).tokens >= 0 /\ ~(Refilled(lastRefill + (d - 1)).tokens > 0)
      <4>1. /\ Refilled(lastRefill + (d - 1)).tokens > 0 <=> MaxTokens * (d - 1) >= Interval - credit
            /\ Refilled(lastRefill + (d - 1)).tokens >= 0
        BY <2>1, <3>1, TokenWhenEarned
      <4>2. ~(MaxTokens * (d - 1) >= Interval - credit)
        BY <2>2, <3>1
      <4> QED
        BY <4>1, <4>2
    <3>3. Refilled(lastRefill + (d - 1)).tokens \in Int
      <4>1. tokens = MaxTokens => credit = 0
        BY <2>1 DEF RateLimitAssumption
      <4>2. lastRefill + (d - 1) \in Nat /\ lastRefill + (d - 1) >= lastRefill
        BY <2>1, <3>1
      <4>3. Refilled(lastRefill + (d - 1)).tokens \in 0 .. MaxTokens
        BY <2>1, <4>1, <4>2, RefillExact
      <4> QED
        BY <4>3
    <3> QED
      BY <3>2, <3>3
  <2>5. lastRefill + d - 1 = lastRefill + (d - 1)
    BY <2>1, <2>2
  <2> QED
    BY <2>3, <2>4, <2>5 DEF d
<1> QED
  BY <1>1, TypeCorrect, PTL
=============================================================================
