---------------------------- MODULE ClientsProofs -----------------------------
(***************************************************************************)
(* For every list of options and every pair of clients: construction keeps *)
(* the last option of each kind and closes every pool but the last, the    *)
(* clients close exactly the pools they own, once, and a connection pool   *)
(* that was lent to one is only ever touched by a client that owns it.     *)
(*                                                                         *)
(* Construction applies the options one after the other; what Successive   *)
(* holds after i of them (Follows) is shown for every i by the least       *)
(* number for which it would fail.  The life of the clients is an          *)
(* inductive invariant: whose each pool is (Owning), which are being       *)
(* released and how far a Close has come (Releasing, Running), and that    *)
(* nobody else touches a borrowed one (Borrowing, Alone).                  *)
(***************************************************************************)
EXTENDS Clients, WellFoundedInduction, TLAPS

-----------------------------------------------------------------------------
(* Induction, from the least element of a set of natural numbers *)

LEMMA LeastByRelation ==
  ASSUME NEW R, IsWellFoundedOn(R, Nat),
         NEW T, T \subseteq Nat, T # {},
         \A x, y \in T : <<y, x>> \in R <=> y < x
  PROVE  \E x \in T : \A y \in T : x <= y
<1>1. PICK x \in T : \A y \in T : <<y, x>> \notin R
  BY WFMin
<1>2. \A y \in T : ~(y < x)
  BY <1>1
<1> QED  BY <1>2

LEMMA Least ==
  ASSUME NEW T, T \subseteq Nat, T # {}
  PROVE  \E x \in T : \A y \in T : x <= y
<1> DEFINE R == OpToRel(<, Nat)
<1>1. IsWellFoundedOn(R, Nat)
  BY NatLessThanWellFounded
<1>2. \A x, y \in T : <<y, x>> \in R <=> y < x
  BY DEF OpToRel
<1> HIDE DEF R
<1> QED  BY <1>1, <1>2, LeastByRelation

\* A set of the numbers up to n that holds 0, and with each of them the next, holds them all.
LEMMA Upward ==
  ASSUME NEW n \in Nat, NEW S, 0 \in S, \A i \in Nat : i < n /\ i \in S => i + 1 \in S
  PROVE  0 .. n \subseteq S
<1> DEFINE T == (0 .. n) \ S
<1> SUFFICES ASSUME T # {} PROVE FALSE
  OBVIOUS
<1>1. PICK x \in T : \A y \in T : x <= y
  <2>1. T \subseteq Nat
    OBVIOUS
  <2> HIDE DEF T
  <2> QED  BY <2>1, Least
<1>2. x \in 1 .. n /\ x - 1 \in Nat /\ x - 1 < n /\ x - 1 \in 0 .. n /\ ~(x <= x - 1) /\ (x - 1) + 1 = x
  OBVIOUS
<1>3. x - 1 \in S
  BY <1>1, <1>2
<1> QED  BY <1>2, <1>3

-----------------------------------------------------------------------------
(* Options, applied one after the other *)

\* The recursion has a solution, which Successive therefore is.
LEMMA SuccessiveDefined ==
  ASSUME NEW opts \in Seq(Options)
  PROVE  Successive(opts) = [i \in 0 .. Len(opts) |->
                              IF i = 0 THEN Fields ELSE Applied(Successive(opts)[i - 1], opts[i])]
<1> DEFINE Solves(g, n) ==
             g = [i \in 0 .. n |-> IF i = 0 THEN Fields ELSE Applied(g[i - 1], opts[i])]
           S == {n \in 0 .. Len(opts) : \E g : Solves(g, n)}
<1>0. Len(opts) \in Nat
  OBVIOUS
<1>1. 0 \in S
  <2> DEFINE g == [i \in 0 .. 0 |-> Fields]
  <2>1. Solves(g, 0)
    OBVIOUS
  <2> HIDE DEF g
  <2> QED  BY <1>0, <2>1
<1>2. ASSUME NEW n \in Nat, n < Len(opts), n \in S
      PROVE  n + 1 \in S
  <2>1. PICK g : Solves(g, n)
    BY <1>2
  <2> DEFINE h == [i \in 0 .. n + 1 |-> IF i = n + 1 THEN Applied(g[n], opts[n + 1]) ELSE g[i]]
  <2>2. \A i \in 0 .. n : g[i] = IF i = 0 THEN Fields ELSE Applied(g[i - 1], opts[i])
    BY <2>1
  <2>3. \A i \in 0 .. n + 1 : h[i] = IF i = 0 THEN Fields ELSE Applied(h[i - 1], opts[i])
    <3> TAKE i \in 0 .. n + 1
    <3>1. CASE i = n + 1
      <4>1. h[i - 1] = g[n] /\ i # 0
        BY <1>0, <3>1
      <4> QED  BY <3>1, <4>1
    <3>2. CASE i \in 1 .. n
      <4>1. h[i - 1] = g[i - 1] /\ h[i] = g[i] /\ i # 0
        BY <1>0, <3>2
      <4> QED  BY <2>2, <3>2, <4>1
    <3>3. CASE i = 0
      BY <2>2, <3>3
    <3> QED  BY <3>1, <3>2, <3>3
  <2>4. Solves(h, n + 1)
    <3>1. h = [i \in 0 .. n + 1 |-> h[i]]
      OBVIOUS
    <3> HIDE DEF h
    <3> QED  BY <2>3, <3>1
  <2> HIDE DEF h
  <2> QED  BY <1>0, <1>2, <2>4
<1>3. \E g : Solves(g, Len(opts))
  <2> HIDE DEF S
  <2>1. 0 .. Len(opts) \subseteq S
    BY <1>0, <1>1, <1>2, Upward
  <2> QED  BY <1>0, <2>1 DEF S
<1> QED  BY <1>3 DEF Successive

\* The last of the first i options that has one of these kinds, or 0.
LastUpTo(opts, kinds, i) ==
  LET places == {j \in 1 .. i : opts[j].kind \in kinds}
  IN  IF places = {} THEN 0 ELSE Max(places)

LEMMA LastOfNone ==
  ASSUME NEW opts, NEW kinds
  PROVE  LastUpTo(opts, kinds, 0) = 0
<1>1. {j \in 1 .. 0 : opts[j].kind \in kinds} = {}
  OBVIOUS
<1> QED  BY <1>1 DEF LastUpTo

LEMMA LastGrows ==
  ASSUME NEW opts \in Seq(Options), NEW kinds, NEW i \in Nat, NEW n \in Nat, n = i + 1
  PROVE  LastUpTo(opts, kinds, n) = IF opts[n].kind \in kinds THEN n ELSE LastUpTo(opts, kinds, i)
<1> DEFINE places(k) == {j \in 1 .. k : opts[j].kind \in kinds}
<1>1. CASE opts[n].kind \in kinds
  <2>1. n \in places(n) /\ \A j \in places(n) : n >= j
    BY <1>1
  <2>2. \A m \in places(n) : (\A j \in places(n) : m >= j) => m = n
    BY <1>1
  <2>3. Max(places(n)) = n
    <3> HIDE DEF places
    <3> QED  BY <2>1, <2>2 DEF Max
  <2> QED  BY <1>1, <2>1, <2>3 DEF LastUpTo
<1>2. CASE opts[n].kind \notin kinds
  <2>1. places(n) = places(i)
    BY <1>2
  <2> QED  BY <1>2, <2>1 DEF LastUpTo
<1> QED  BY <1>1, <1>2

LEMMA LastInRange ==
  ASSUME NEW opts \in Seq(Options), NEW kinds, NEW n \in 0 .. Len(opts)
  PROVE  LastUpTo(opts, kinds, n) \in 0 .. n
<1> DEFINE S == {i \in 0 .. n : LastUpTo(opts, kinds, i) \in 0 .. i}
<1>1. 0 \in S
  BY LastOfNone
<1>2. ASSUME NEW i \in Nat, i < n, i \in S PROVE i + 1 \in S
  <2>1. i \in Nat /\ i + 1 \in Nat /\ i + 1 \in 0 .. n
    BY <1>2
  <2>2. LastUpTo(opts, kinds, i + 1) \in {i + 1, LastUpTo(opts, kinds, i)}
    BY <2>1, LastGrows
  <2> QED  BY <1>2, <2>1, <2>2
<1>3. 0 .. n \subseteq S
  <2> HIDE DEF S
  <2> QED  BY <1>1, <1>2, Upward
<1> QED  BY <1>3

LEMMA LastHasKind ==
  ASSUME NEW opts \in Seq(Options)
  PROVE  \A kinds : LastUpTo(opts, kinds, Len(opts)) # 0
                      => opts[LastUpTo(opts, kinds, Len(opts))].kind \in kinds
<1> TAKE kinds
<1> DEFINE Right(i) == LastUpTo(opts, kinds, i) # 0 => opts[LastUpTo(opts, kinds, i)].kind \in kinds
           S == {i \in 0 .. Len(opts) : Right(i)}
<1>0. Len(opts) \in Nat
  OBVIOUS
<1>1. 0 \in S
  BY <1>0, LastOfNone
<1>2. ASSUME NEW i \in Nat, i < Len(opts), i \in S PROVE i + 1 \in S
  <2> DEFINE n == i + 1
  <2>1. i \in Nat /\ n \in Nat /\ n \in 0 .. Len(opts) /\ n = i + 1
    BY <1>0, <1>2
  <2> HIDE DEF n
  <2>2. LastUpTo(opts, kinds, n) = IF opts[n].kind \in kinds THEN n ELSE LastUpTo(opts, kinds, i)
    <3>1. n \in Nat /\ n = i + 1 /\ i \in Nat
      BY <2>1
    <3> QED  BY ONLY <3>1, LastGrows
  <2>3. Right(n)
    BY <1>2, <2>2
  <2> QED  BY <2>1, <2>3
<1>3. 0 .. Len(opts) \subseteq S
  <2> HIDE DEF S
  <2> QED  BY <1>0, <1>1, <1>2, Upward
<1> QED  BY <1>0, <1>3

FieldRecords ==
  [http : {"sdk", "caller", "nil"}, timeout : Timeouts \cup {DefaultTimeout}, callers : {CallerTimeout},
   transport : {"sdk", "caller", "default", "none"}, ownsHTTPTransport : BOOLEAN,
   rate : Int, rateErr : BOOLEAN, cacheErr : BOOLEAN, cacheSet : BOOLEAN,
   cache : {"none", "cache", "pool", "memory"}, redisOptions : BOOLEAN]

\* What the fields have from the last option of each kind, at s, r, h and t.
StoreFollows(f, opts, s) ==
  /\ s = 0 => ~f.cacheSet /\ ~f.cacheErr /\ ~f.redisOptions
  /\ s # 0 => /\ f.cacheSet
              /\ f.cacheErr <=> ~opts[s].given
              /\ f.redisOptions <=> opts[s].kind = "redis"
              /\ opts[s].given /\ opts[s].kind # "redis" => f.cache = opts[s].kind

RateFollows(f, opts, r) ==
  /\ r = 0 => ~f.rateErr /\ f.rate = DefaultRate
  /\ r # 0 => /\ f.rateErr <=> opts[r].value <= 0
              /\ opts[r].value > 0 => f.rate = opts[r].value

HTTPFollows(f, opts, h, t) ==
  /\ t > h => f.http = "sdk" /\ f.timeout = opts[t].value
  /\ t <= h /\ h = 0 => f.http = "sdk" /\ f.timeout = DefaultTimeout
  /\ t <= h /\ h # 0 => f.http = IF opts[h].given THEN "caller" ELSE "nil"
  /\ h = 0 => f.transport = "sdk"
  /\ h # 0 => f.transport = IF opts[h].given THEN "caller" ELSE IF t > h THEN "default" ELSE "none"
  /\ f.ownsHTTPTransport <=> f.transport \in {"sdk", "default"}

\* The fields after the first i options.
Follows(f, opts, i) ==
  /\ f \in FieldRecords
  /\ StoreFollows(f, opts, LastUpTo(opts, StoreKinds, i))
  /\ RateFollows(f, opts, LastUpTo(opts, {"rate"}, i))
  /\ HTTPFollows(f, opts, LastUpTo(opts, {"http"}, i), LastUpTo(opts, {"timeout"}, i))

LEMMA OptionTyped ==
  ASSUME NEW opt \in Options
  PROVE  /\ opt.kind \in {"timeout", "rate", "http", "redis", "cache", "pool", "memory"}
         /\ opt.given \in BOOLEAN
         /\ opt.kind \in {"timeout", "rate", "redis", "memory"} => opt.given
         /\ opt.kind = "timeout" => opt.value \in Timeouts
         /\ opt.kind = "rate" => opt.value \in Rates
<1>1. CASE \E t \in Timeouts : opt = Opt("timeout", TRUE, t)
  BY <1>1 DEF Opt
<1>2. CASE \E n \in Rates : opt = Opt("rate", TRUE, n)
  BY <1>2 DEF Opt
<1>3. CASE opt \in [kind : {"http", "cache", "pool"}, given : BOOLEAN, value : {0}]
  BY <1>3 DEF Opt
<1>4. CASE opt = Opt("redis", TRUE, 0)
  BY <1>4 DEF Opt
<1>5. CASE opt = Opt("memory", TRUE, 0)
  BY <1>5 DEF Opt
<1>6. \/ \E t \in Timeouts : opt = Opt("timeout", TRUE, t)
      \/ \E n \in Rates : opt = Opt("rate", TRUE, n)
      \/ opt \in [kind : {"http", "cache", "pool"}, given : BOOLEAN, value : {0}]
      \/ opt = Opt("redis", TRUE, 0) \/ opt = Opt("memory", TRUE, 0)
  BY DEF Options
<1> QED  BY <1>1, <1>2, <1>3, <1>4, <1>5, <1>6

LEMMA FieldsFollow ==
  ASSUME NEW opts \in Seq(Options)
  PROVE  Follows(Fields, opts, 0)
<1>1. \A kinds : LastUpTo(opts, kinds, 0) = 0
  BY LastOfNone
<1>2. Fields \in FieldRecords
  BY ClientsAssumption DEF Fields, FieldRecords
<1> QED  BY <1>1, <1>2 DEF Follows, Fields, StoreFollows, RateFollows, HTTPFollows

LEMMA OptionFollows ==
  ASSUME NEW opts \in Seq(Options), NEW i \in Nat, i < Len(opts), NEW f, Follows(f, opts, i)
  PROVE  Follows(Applied(f, opts[i + 1]), opts, i + 1)
<1> DEFINE n == i + 1
           opt == opts[n]
           g == Applied(f, opt)
           last(kinds) == LastUpTo(opts, kinds, i)
           next(kinds) == LastUpTo(opts, kinds, i + 1)
<1>0. opt \in Options /\ i + 1 \in Nat /\ i \in Nat /\ i # -1 /\ f \in FieldRecords
  BY DEF Follows
<1>1. \A kinds : /\ next(kinds) = IF opt.kind \in kinds THEN i + 1 ELSE last(kinds)
                 /\ last(kinds) \in 0 .. i
  <2> TAKE kinds
  <2>1. i \in 0 .. Len(opts) /\ i \in Nat /\ i + 1 \in Nat
    BY <1>0
  <2>2. next(kinds) = IF opt.kind \in kinds THEN i + 1 ELSE last(kinds)
    <3>1. LastUpTo(opts, kinds, n) = IF opts[n].kind \in kinds THEN n ELSE LastUpTo(opts, kinds, i)
      <4>1. n \in Nat /\ n = i + 1 /\ i \in Nat
        BY <2>1
      <4> HIDE DEF n, opt
      <4> QED  BY ONLY <4>1, LastGrows
    <3> QED  BY <3>1
  <2> QED  BY <2>1, <2>2, LastInRange
<1>2. \A kinds : opt.kind \notin kinds => next(kinds) = last(kinds)
  BY <1>1
<1>3. \A kinds : opt.kind \in kinds => next(kinds) = i + 1 /\ next(kinds) # 0
  BY <1>0, <1>1
<1>f. /\ StoreFollows(f, opts, last(StoreKinds))
      /\ RateFollows(f, opts, last({"rate"}))
      /\ HTTPFollows(f, opts, last({"http"}), last({"timeout"}))
  BY DEF Follows
<1> HIDE DEF next, last
<1>4. SUFFICES /\ g \in FieldRecords
               /\ StoreFollows(g, opts, next(StoreKinds))
               /\ RateFollows(g, opts, next({"rate"}))
               /\ HTTPFollows(g, opts, next({"http"}), next({"timeout"}))
  BY DEF Follows, next
<1> HIDE DEF g
<1>5. CASE opt.kind = "http"
  <2>1. g = WithHTTPClient(f, opt.given)
    BY <1>5 DEF g, Applied
  <2>2. g \in FieldRecords
    BY <1>0, <2>1 DEF FieldRecords, WithHTTPClient
  <2>3. StoreFollows(g, opts, next(StoreKinds))
    <3>1. next(StoreKinds) = last(StoreKinds)
      BY <1>2, <1>5 DEF StoreKinds
    <3> QED  BY <1>0, <1>f, <2>1, <3>1 DEF StoreFollows, WithHTTPClient, FieldRecords
  <2>4. RateFollows(g, opts, next({"rate"}))
    <3>1. next({"rate"}) = last({"rate"})
      BY <1>2, <1>5
    <3> QED  BY <1>0, <1>f, <2>1, <3>1 DEF RateFollows, WithHTTPClient, FieldRecords
  <2>5. HTTPFollows(g, opts, next({"http"}), next({"timeout"}))
    <3>1. next({"http"}) = i + 1 /\ next({"timeout"}) <= i + 1 /\ ~(next({"timeout"}) > i + 1) /\ i + 1 # 0
      BY <1>0, <1>1, <1>3, <1>5
    <3> QED  BY <1>0, <2>1, <3>1 DEF HTTPFollows, WithHTTPClient, FieldRecords
  <2> QED  BY <2>2, <2>3, <2>4, <2>5
<1>6. CASE opt.kind = "timeout"
  <2>1. g = WithTimeout(f, opt.value) /\ opt.value \in Timeouts
    BY <1>0, <1>6, OptionTyped DEF g, Applied
  <2>2. g \in FieldRecords
    BY <1>0, <2>1 DEF FieldRecords, WithTimeout
  <2>3. StoreFollows(g, opts, next(StoreKinds))
    <3>1. next(StoreKinds) = last(StoreKinds)
      BY <1>2, <1>6 DEF StoreKinds
    <3> QED  BY <1>0, <1>f, <2>1, <3>1 DEF StoreFollows, WithTimeout, FieldRecords
  <2>4. RateFollows(g, opts, next({"rate"}))
    <3>1. next({"rate"}) = last({"rate"})
      BY <1>2, <1>6
    <3> QED  BY <1>0, <1>f, <2>1, <3>1 DEF RateFollows, WithTimeout, FieldRecords
  <2>5. HTTPFollows(g, opts, next({"http"}), next({"timeout"}))
    <3>1. next({"http"}) = last({"http"}) /\ next({"timeout"}) = i + 1 /\ i + 1 > last({"http"})
      BY <1>0, <1>1, <1>2, <1>3, <1>6
    <3>2. last({"http"}) \in Nat /\ last({"timeout"}) \in Nat
      BY <1>1
    <3> QED  BY <1>0, <1>f, <2>1, <3>1, <3>2 DEF HTTPFollows, WithTimeout, FieldRecords
  <2> QED  BY <2>2, <2>3, <2>4, <2>5
<1>7. CASE opt.kind = "rate"
  <2>1. g = WithRateLimit(f, opt.value) /\ opt.value \in Int
    BY <1>0, <1>7, OptionTyped, ClientsAssumption DEF g, Applied
  <2>2. g \in FieldRecords
    BY <1>0, <2>1 DEF FieldRecords, WithRateLimit
  <2>3. StoreFollows(g, opts, next(StoreKinds))
    <3>1. next(StoreKinds) = last(StoreKinds)
      BY <1>2, <1>7 DEF StoreKinds
    <3> QED  BY <1>0, <1>f, <2>1, <3>1 DEF StoreFollows, WithRateLimit, FieldRecords
  <2>4. RateFollows(g, opts, next({"rate"}))
    <3>1. next({"rate"}) = i + 1 /\ i + 1 # 0
      BY <1>0, <1>3, <1>7
    <3> QED  BY <1>0, <2>1, <3>1 DEF RateFollows, WithRateLimit, FieldRecords
  <2>5. HTTPFollows(g, opts, next({"http"}), next({"timeout"}))
    <3>1. next({"http"}) = last({"http"}) /\ next({"timeout"}) = last({"timeout"})
      BY <1>2, <1>7
    <3> QED  BY <1>0, <1>f, <2>1, <3>1 DEF HTTPFollows, WithRateLimit, FieldRecords
  <2> QED  BY <2>2, <2>3, <2>4, <2>5
<1>8. CASE opt.kind \in StoreKinds
  <2>1. /\ opt.kind = "redis" => g = WithRedisCache(f) /\ opt.given
        /\ opt.kind # "redis" => g = WithStore(f, opt.kind, opt.given)
        /\ opt.given \in BOOLEAN /\ opt.kind \in {"redis", "cache", "pool", "memory"}
    BY <1>0, <1>8, OptionTyped DEF g, Applied, StoreKinds
  <2>2. g \in FieldRecords
    BY <1>0, <2>1 DEF FieldRecords, WithRedisCache, WithStore
  <2>3. StoreFollows(g, opts, next(StoreKinds))
    <3>1. next(StoreKinds) = i + 1 /\ i + 1 # 0
      BY <1>0, <1>3, <1>8
    <3> QED  BY <1>0, <2>1, <3>1 DEF StoreFollows, WithRedisCache, WithStore, FieldRecords
  <2>4. RateFollows(g, opts, next({"rate"}))
    <3>1. next({"rate"}) = last({"rate"})
      BY <1>2, <1>8 DEF StoreKinds
    <3> QED  BY <1>0, <1>f, <2>1, <3>1 DEF RateFollows, WithRedisCache, WithStore, FieldRecords
  <2>5. HTTPFollows(g, opts, next({"http"}), next({"timeout"}))
    <3>1. next({"http"}) = last({"http"}) /\ next({"timeout"}) = last({"timeout"})
      BY <1>2, <1>8 DEF StoreKinds
    <3> QED  BY <1>0, <1>f, <2>1, <3>1 DEF HTTPFollows, WithRedisCache, WithStore, FieldRecords
  <2> QED  BY <2>2, <2>3, <2>4, <2>5
<1> QED  BY <1>0, <1>5, <1>6, <1>7, <1>8, OptionTyped DEF StoreKinds

LEMMA ConfiguredFollows ==
  ASSUME NEW opts \in Seq(Options)
  PROVE  Follows(Configured(opts), opts, Len(opts))
<1> DEFINE S == {i \in 0 .. Len(opts) : Follows(Successive(opts)[i], opts, i)}
<1>0. Len(opts) \in Nat
  OBVIOUS
<1>1. \A i \in 0 .. Len(opts) :
        Successive(opts)[i] = IF i = 0 THEN Fields ELSE Applied(Successive(opts)[i - 1], opts[i])
  BY SuccessiveDefined
<1>2. 0 \in S
  BY <1>0, <1>1, FieldsFollow
<1>3. ASSUME NEW i \in Nat, i < Len(opts), i \in S PROVE i + 1 \in S
  <2>1. i + 1 \in 0 .. Len(opts) /\ i + 1 # 0 /\ (i + 1) - 1 = i /\ i \in Nat /\ i < Len(opts)
    BY <1>0, <1>3
  <2>2. Successive(opts)[i + 1] = Applied(Successive(opts)[i], opts[i + 1])
    BY <1>1, <2>1
  <2> QED  BY <1>3, <2>1, <2>2, OptionFollows
<1>4. 0 .. Len(opts) \subseteq S
  <2> HIDE DEF S
  <2> QED  BY <1>0, <1>2, <1>3, Upward
<1> QED  BY <1>0, <1>4 DEF Configured

-----------------------------------------------------------------------------
(* Construction *)

\* A store is the client's own exactly when the SDK dialed a pool for it and kept it.
Sound(s) == /\ s.ok \in BOOLEAN /\ s.owned \in BOOLEAN
            /\ s.cache \in {"none", "redis", "memory", "cache", "pool"}
            /\ s.pool \in {"none", "open", "closed"}
            /\ s.pool = "open" => s.ok /\ s.owned
            /\ s.pool = "open" <=> s.cache = "redis"
            /\ s.owned => s.pool = "open"

LEMMA DialSound == ASSUME NEW up \in BOOLEAN PROVE Sound(Dial(up)) /\ Sound(DefaultStore(up))
<1>1. Sound(Dial(up))
  BY DEF Dial, Store, Sound
<1>2. ~up => Sound([Dial(up) EXCEPT !.cache = "memory", !.ok = TRUE])
  BY DEF Dial, Store, Sound
<1>3. Sound(Store("none", FALSE, "none", FALSE)) /\ Sound(Store("memory", FALSE, "none", TRUE))
  BY DEF Store, Sound
<1>4. DefaultStore(up) \in {Store("none", FALSE, "none", FALSE), Store("memory", FALSE, "none", TRUE),
                            Dial(up)}
      \/ (~up /\ DefaultStore(up) = [Dial(up) EXCEPT !.cache = "memory", !.ok = TRUE])
  BY DEF DefaultStore
<1> QED  BY <1>1, <1>2, <1>3, <1>4

\* What NewClient builds from the fields is what the options ask for, in every environment.
LEMMA BuiltAsWanted ==
  ASSUME NEW opts \in Seq(Options), NEW f, f = Configured(opts), NEW w, w = Wanted(opts),
         NEW up \in BOOLEAN
  PROVE  /\ Built(f, Selected(f, up)) = WantedOutcome(w, up)
         /\ Selected(f, up).pool # "none" => w.store \in {"default", "redis"}
         /\ Sound(Selected(f, up))
         /\ f \in FieldRecords
         /\ f.ownsHTTPTransport <=> f.transport \in {"sdk", "default"}
<1> DEFINE last(kinds) == LastUpTo(opts, kinds, Len(opts))
           s == last(StoreKinds)
           r == last({"rate"})
           h == last({"http"})
           t == last({"timeout"})
<1>1. \A kinds : LastOf(opts, kinds) = last(kinds)
  <2> TAKE kinds
  <2>1. DOMAIN opts = 1 .. Len(opts)
    OBVIOUS
  <2>2. {i \in DOMAIN opts : opts[i].kind \in kinds} = {j \in 1 .. Len(opts) : opts[j].kind \in kinds}
    BY <2>1
  <2> QED  BY <2>2 DEF LastOf, LastUpTo
<1>2. /\ f \in FieldRecords /\ StoreFollows(f, opts, s) /\ RateFollows(f, opts, r)
      /\ HTTPFollows(f, opts, h, t)
  BY ConfiguredFollows DEF Follows
<1>3. s \in 0 .. Len(opts) /\ r \in 0 .. Len(opts) /\ h \in 0 .. Len(opts) /\ t \in 0 .. Len(opts)
  BY LastInRange
<1>4. s # 0 => /\ opts[s].kind \in StoreKinds /\ opts[s].given \in BOOLEAN
               /\ opts[s].kind = "redis" => opts[s].given
  <2>1. s # 0 => opts[s].kind \in StoreKinds
    BY LastHasKind
  <2> QED  BY <1>3, <2>1, OptionTyped
<1>5. r # 0 => opts[r].value \in Int
  <2>1. r # 0 => opts[r].kind = "rate"
    BY LastHasKind
  <2>2. r # 0 => opts[r] \in Options
    BY <1>3
  <2>3. \A opt \in Options : opt.kind = "rate" => opt.value \in Int
    BY OptionTyped, ClientsAssumption
  <2> HIDE DEF r
  <2> QED  BY <2>1, <2>2, <2>3
<1>6. /\ w.store = IF s = 0 THEN "default" ELSE IF opts[s].given THEN opts[s].kind ELSE "error"
      /\ w.rate = IF r = 0 THEN DefaultRate ELSE IF opts[r].value > 0 THEN opts[r].value ELSE 0
      /\ w.timeout = IF t > h THEN opts[t].value
                     ELSE IF h = 0 THEN DefaultTimeout
                     ELSE IF opts[h].given THEN CallerTimeout ELSE 0
      /\ w.transport = IF h = 0 THEN "sdk"
                       ELSE IF opts[h].given THEN "caller"
                       ELSE IF t > h THEN "default" ELSE "none"
  BY <1>1 DEF Wanted
<1> HIDE DEF s, r, h, t
<1>7. /\ f.rateErr <=> w.rate = 0
      /\ ~f.rateErr => f.rate = w.rate
  BY <1>2, <1>5, <1>6, ClientsAssumption DEF RateFollows
<1>8. f.transport = w.transport
  BY <1>2, <1>6 DEF HTTPFollows
<1>9. (CASE f.http = "sdk" -> f.timeout [] f.http = "caller" -> f.callers [] f.http = "nil" -> 0)
        = w.timeout
  <2>1. f.callers = CallerTimeout
    BY <1>2 DEF FieldRecords
  <2> QED  BY <1>2, <1>3, <1>6, <2>1 DEF HTTPFollows
<1>10. /\ ~f.cacheErr /\ ~f.rateErr => Selected(f, up) = WantedStore(w.store, up)
       /\ f.cacheErr => w.store = "error"
       /\ w.store = "error" => f.cacheErr
  <2>1. CASE s = 0
    BY <1>2, <1>6, <2>1 DEF StoreFollows, Selected, WantedStore
  <2>2. CASE s # 0 /\ opts[s].kind = "redis"
    BY <1>2, <1>4, <1>6, <2>2 DEF StoreFollows, Selected, WantedStore
  <2>3. CASE s # 0 /\ opts[s].kind # "redis"
    <3>1. opts[s].kind \in {"cache", "pool", "memory"}
      BY <1>4, <2>3 DEF StoreKinds
    <3>2. CASE opts[s].given
      BY <1>2, <1>6, <2>3, <3>1, <3>2 DEF StoreFollows, Selected, WantedStore
    <3>3. CASE ~opts[s].given
      BY <1>2, <1>6, <2>3, <3>1, <3>3 DEF StoreFollows, Selected, WantedStore
    <3> QED  BY <3>2, <3>3
  <2> QED  BY <2>1, <2>2, <2>3
<1>11. f.cacheErr \/ f.rateErr => Selected(f, up) = Store("none", FALSE, "none", FALSE)
  BY DEF Selected
<1>12. Sound(Selected(f, up))
  <2>1. f.cache \in {"none", "cache", "pool", "memory"}
    BY <1>2 DEF FieldRecords
  <2>2. Sound(Store(f.cache, FALSE, "none", TRUE)) /\ Sound(Store("none", FALSE, "none", FALSE))
    BY <2>1 DEF Sound, Store
  <2> QED  BY <2>2, DialSound DEF Selected
<1>13. Built(f, Selected(f, up)) = WantedOutcome(w, up)
  <2>1. CASE f.cacheErr
    <3>1. ~WantedStore(w.store, up).ok
      BY <1>10, <2>1 DEF WantedStore, Store
    <3>2. ~Selected(f, up).ok
      BY <1>11, <2>1 DEF Store
    <3> QED  BY <3>1, <3>2 DEF Built, WantedOutcome
  <2>2. CASE f.rateErr
    <3>1. ~Selected(f, up).ok
      BY <1>11, <2>2 DEF Store
    <3> QED  BY <1>7, <2>2, <3>1 DEF Built, WantedOutcome
  <2>3. CASE ~f.cacheErr /\ ~f.rateErr
    <3> DEFINE st == Selected(f, up)
    <3>1. Built(f, st) = IF st.ok THEN Outcome(st.cache, w.timeout, w.transport, w.rate) ELSE Nothing
      <4> HIDE DEF st
      <4>1. /\ f.rate = w.rate /\ f.transport = w.transport
            /\ f.http = "sdk" => f.timeout = w.timeout
            /\ f.http = "caller" => f.callers = w.timeout
            /\ f.http = "nil" => 0 = w.timeout
            /\ f.http \in {"sdk", "caller", "nil"}
        BY <1>2, <1>7, <1>8, <1>9, <2>3 DEF FieldRecords
      <4>2. CASE f.http = "sdk"
        BY <4>1, <4>2 DEF Built
      <4>3. CASE f.http = "caller"
        BY <4>1, <4>3 DEF Built
      <4>4. CASE f.http = "nil"
        BY <4>1, <4>4 DEF Built
      <4> QED  BY <4>1, <4>2, <4>3, <4>4
    <3>2. st = WantedStore(w.store, up) /\ w.rate # 0
      BY <1>7, <1>10, <2>3
    <3> HIDE DEF st
    <3> QED  BY <3>1, <3>2 DEF WantedOutcome, st
  <2> QED  BY <2>1, <2>2, <2>3
<1>14. Selected(f, up).pool # "none" => w.store \in {"default", "redis"}
  <2>1. CASE f.cacheErr \/ f.rateErr
    BY <1>11, <2>1 DEF Store
  <2>2. CASE ~f.cacheErr /\ ~f.rateErr
    BY <1>10, <2>2 DEF WantedStore, Store
  <2> QED  BY <2>1, <2>2
<1> QED  BY <1>2, <1>12, <1>13, <1>14 DEF HTTPFollows

-----------------------------------------------------------------------------
(* The inductive invariant *)

Caches == {"none", "redis", "memory", "cache", "pool"}
Transports == {"sdk", "caller", "default", "none"}
Outcomes == [cache : Caches, timeout : Timeouts \cup {DefaultTimeout, CallerTimeout, 0},
             transport : Transports, rate : Int]
ClientRecords ==
  [state : {"unbuilt", "live", "failed"}, got : Outcomes, wanted : Outcomes, mayDial : BOOLEAN,
   ownedCache : BOOLEAN, ownsHTTPTransport : BOOLEAN,
   once : {"new", "running", "done"}, closeErr : {"nil", "error"}]
CloserRecords == [pc : {"idle", "cache", "transport", "wait", "return"}, of : SUBSET Clients]
LentRecords == [pool : {"open", "closed"}, timeout : {CallerTimeout}, idle : {FALSE}]

Types == /\ client \in [Clients -> ClientRecords]
         /\ pools \in [Clients -> {"none", "open", "closed"}]
         /\ idle \in [Clients -> BOOLEAN]
         /\ lent \in LentRecords
         /\ closer \in [Closers -> CloserRecords]
         /\ returned \in [Clients -> SUBSET {"nil", "error"}]

\* A client, r, and the pool that was dialed for it.
Owning(r, pool) ==
  /\ r.got = r.wanted
  /\ pool # "none" \/ r.ownedCache => r.mayDial
  /\ pool = "open" => r.state = "live" /\ r.ownedCache /\ r.got.cache = "redis"
  /\ r.state = "live" /\ r.once = "new" /\ r.got.cache = "redis" => pool = "open"
  /\ r.state = "live" => (r.ownsHTTPTransport <=> r.got.transport \in {"sdk", "default"})

\* What Close has done of its work, and what it has returned.
Releasing(r, pool, closedIdle, results) ==
  /\ r.once # "new" => r.state = "live"
  /\ r.once = "done" => pool # "open" /\ (closedIdle <=> r.got.transport = "sdk")
  /\ r.once # "done" => ~closedIdle /\ results = {}
  /\ results \subseteq {r.closeErr}

\* The application closes its pool when nobody needs it any more.
Borrowing(r, lentPool) ==
  lentPool = "closed" => /\ r.state # "unbuilt"
                         /\ r.state = "live" /\ r.got.cache = "pool" => r.once = "done"

Inside == {"cache", "transport"}

\* A goroutine in Close.
Running(k) ==
  /\ k.pc # "idle" => \E c \in Clients : k.of = {c}
  /\ \A c \in k.of : /\ k.pc \in Inside => client[c].once = "running"
                     /\ k.pc = "transport" => pools[c] # "open"
                     /\ k.pc = "return" => client[c].once = "done"

\* One goroutine runs the function of a client's once.
Alone == \A g, h \in Closers : g # h /\ closer[g].pc \in Inside /\ closer[h].pc \in Inside
                                 => closer[g].of \cap closer[h].of = {}

IInv == /\ Types
        /\ \A c \in Clients : /\ Owning(client[c], pools[c])
                              /\ Releasing(client[c], pools[c], idle[c], returned[c])
                              /\ Borrowing(client[c], lent.pool)
        /\ \A g \in Closers : Running(closer[g])
        /\ Alone

LEMMA Start == ASSUME Init PROVE IInv
<1> USE DEF Init, IInv
<1>0. Nothing \in Outcomes
  BY DEF Nothing, Outcome, Outcomes, Caches, Transports
<1>1. NoClient \in ClientRecords /\ NoCloser \in CloserRecords
  BY <1>0 DEF NoClient, ClientRecords, NoCloser, CloserRecords
<1>2. lent \in LentRecords
  BY DEF LentRecords
<1>3. Types
  BY <1>1, <1>2 DEF Types
<1>4. ASSUME NEW c \in Clients
      PROVE  /\ Owning(client[c], pools[c])
             /\ Releasing(client[c], pools[c], idle[c], returned[c])
             /\ Borrowing(client[c], lent.pool)
  BY <1>4 DEF Owning, Releasing, Borrowing, NoClient
<1>5. \A g \in Closers : closer[g] = NoCloser
  OBVIOUS
<1>6. (\A g \in Closers : Running(closer[g])) /\ Alone
  BY <1>5 DEF Running, Alone, NoCloser, Inside
<1> QED  BY <1>3, <1>4, <1>6

-----------------------------------------------------------------------------
(* The steps *)

LEMMA RequestBuilds ==
  ASSUME NEW q \in Requests, NEW up \in BOOLEAN
  PROVE  /\ Built(q.fields, Selected(q.fields, up)) = WantedOutcome(q.wanted, up)
         /\ Built(q.fields, Selected(q.fields, up)) \in Outcomes
         /\ Selected(q.fields, up).pool # "none" => q.wanted.store \in {"default", "redis"}
         /\ Sound(Selected(q.fields, up))
         /\ q.fields.callers = CallerTimeout
         /\ q.fields.ownsHTTPTransport \in BOOLEAN
         /\ q.fields.ownsHTTPTransport <=> q.fields.transport \in {"sdk", "default"}
<1> DEFINE f == q.fields
<1>1. PICK opts \in OptionLists : q = [fields |-> Configured(opts), wanted |-> Wanted(opts)]
  BY DEF Requests
<1>2. opts \in Seq(Options)
  BY DEF OptionLists, SeqOf
<1>3. f = Configured(opts) /\ q.wanted = Wanted(opts)
  BY <1>1
<1> HIDE DEF f
<1>4. /\ Built(f, Selected(f, up)) = WantedOutcome(q.wanted, up)
      /\ Selected(f, up).pool # "none" => q.wanted.store \in {"default", "redis"}
      /\ Sound(Selected(f, up))
      /\ f \in FieldRecords
      /\ f.ownsHTTPTransport <=> f.transport \in {"sdk", "default"}
  BY <1>2, <1>3, BuiltAsWanted
<1>5. f.callers = CallerTimeout /\ f.ownsHTTPTransport \in BOOLEAN
  BY <1>4 DEF FieldRecords
<1>6. Built(f, Selected(f, up)) \in Outcomes
  <2> DEFINE timeout == CASE f.http = "sdk" -> f.timeout [] f.http = "caller" -> f.callers
                          [] f.http = "nil" -> 0
             st == Selected(f, up)
  <2>1. timeout \in Timeouts \cup {DefaultTimeout, CallerTimeout, 0}
    BY <1>4 DEF FieldRecords
  <2>2. f.transport \in Transports /\ f.rate \in Int
    BY <1>4 DEF FieldRecords, Transports
  <2>3. st.cache \in Caches
    BY <1>4 DEF Sound, Caches
  <2>4. Built(f, st) = IF st.ok THEN Outcome(st.cache, timeout, f.transport, f.rate) ELSE Nothing
    BY DEF Built
  <2>5. Nothing \in Outcomes
    BY DEF Nothing, Outcome, Outcomes, Caches, Transports
  <2> HIDE DEF timeout, st
  <2>6. Outcome(st.cache, timeout, f.transport, f.rate) \in Outcomes
    BY <2>1, <2>2, <2>3 DEF Outcome, Outcomes
  <2> QED  BY <2>4, <2>5, <2>6 DEF st
<1> QED  BY <1>4, <1>5, <1>6 DEF f

\* NewClient takes from the application nothing but what it gives back unchanged.
LEMMA NewClientStep ==
  ASSUME IInv, NEW c \in Clients, NewClient(c)
  PROVE  IInv' /\ lent' = lent /\ UNCHANGED <<idle, closer, returned>>
<1> USE DEF IInv
<1>1. PICK q \in Requests, up \in BOOLEAN :
        /\ client' = [client EXCEPT ![c] =
             [NoClient EXCEPT !.state = IF Selected(q.fields, up).ok THEN "live" ELSE "failed",
                              !.got = Built(q.fields, Selected(q.fields, up)),
                              !.wanted = WantedOutcome(q.wanted, up),
                              !.mayDial = q.wanted.store \in {"default", "redis"},
                              !.ownedCache = Selected(q.fields, up).owned,
                              !.ownsHTTPTransport = q.fields.ownsHTTPTransport]]
        /\ pools' = [pools EXCEPT ![c] = Selected(q.fields, up).pool]
        /\ lent' = [lent EXCEPT !.timeout = q.fields.callers]
  BY DEF NewClient
<1> DEFINE f == q.fields
           st == Selected(f, up)
           got == Built(f, st)
           may == q.wanted.store \in {"default", "redis"}
           r == [NoClient EXCEPT !.state = IF st.ok THEN "live" ELSE "failed",
                                 !.got = got, !.wanted = WantedOutcome(q.wanted, up),
                                 !.mayDial = may, !.ownedCache = st.owned,
                                 !.ownsHTTPTransport = f.ownsHTTPTransport]
<1>2. /\ got = WantedOutcome(q.wanted, up) /\ got \in Outcomes
      /\ st.pool # "none" => may
      /\ Sound(st)
      /\ f.callers = CallerTimeout /\ f.ownsHTTPTransport \in BOOLEAN
      /\ f.ownsHTTPTransport <=> f.transport \in {"sdk", "default"}
  BY RequestBuilds
<1>3. got = Nothing \/ st.ok
  BY DEF Built
<1>4. st.ok => got.cache = st.cache /\ got.transport = f.transport
  BY DEF Built, Outcome
<1>5. may \in BOOLEAN
  OBVIOUS
<1>6. lent' = lent
  BY <1>1, <1>2 DEF Types, LentRecords
<1>7. /\ client' = [client EXCEPT ![c] = r] /\ pools' = [pools EXCEPT ![c] = st.pool]
      /\ UNCHANGED <<idle, closer, returned>> /\ client[c].state = "unbuilt"
  BY <1>1 DEF NewClient
<1> HIDE DEF st, got, f, may
<1>8. r \in ClientRecords
  <2>1. NoClient \in ClientRecords
    BY DEF NoClient, ClientRecords, Nothing, Outcome, Outcomes, Caches, Transports
  <2>2. WantedOutcome(q.wanted, up) \in Outcomes
    BY <1>2
  <2> QED  BY <1>2, <1>5, <2>1, <2>2 DEF ClientRecords, Sound
<1>9. /\ r.state = IF st.ok THEN "live" ELSE "failed"
      /\ r.got = got /\ r.wanted = WantedOutcome(q.wanted, up) /\ r.mayDial = may
      /\ r.ownedCache = st.owned /\ r.ownsHTTPTransport = f.ownsHTTPTransport
      /\ r.once = "new" /\ r.closeErr = "nil"
  BY DEF NoClient
<1> HIDE DEF r
<1>10. /\ client'[c] = r /\ pools'[c] = st.pool
       /\ \A d \in Clients : d # c => client'[d] = client[d] /\ pools'[d] = pools[d]
  BY <1>7 DEF Types
<1>11. Types'
  <2>1. client' \in [Clients -> ClientRecords]
    BY <1>7, <1>8 DEF Types
  <2>2. pools' \in [Clients -> {"none", "open", "closed"}]
    BY <1>2, <1>7 DEF Types, Sound
  <2> QED  BY <1>6, <1>7, <2>1, <2>2 DEF Types
<1>12. client[c].once = "new" /\ ~idle[c] /\ returned[c] = {} /\ lent.pool = "open"
  BY <1>7 DEF Releasing, Borrowing, Types, ClientRecords, LentRecords
<1>13. ASSUME NEW d \in Clients
       PROVE  /\ Owning(client[d], pools[d])'
              /\ Releasing(client[d], pools[d], idle[d], returned[d])'
              /\ Borrowing(client[d], lent.pool)'
  <2>1. CASE d = c
    <3>1. Owning(r, st.pool)
      <4>1. st.pool = "open" => r.state = "live" /\ r.ownedCache /\ r.got.cache = "redis"
        BY <1>2, <1>4, <1>9 DEF Sound
      <4>2. r.state = "live" /\ r.got.cache = "redis" => st.pool = "open"
        BY <1>2, <1>4, <1>9 DEF Sound
      <4>3. r.state = "live" => (r.ownsHTTPTransport <=> r.got.transport \in {"sdk", "default"})
        BY <1>2, <1>4, <1>9
      <4>4. r.got = r.wanted /\ (st.pool # "none" \/ r.ownedCache => r.mayDial)
        BY <1>2, <1>9 DEF Sound
      <4> QED  BY <4>1, <4>2, <4>3, <4>4 DEF Owning
    <3>2. Releasing(r, st.pool, idle[c], returned[c]) /\ Borrowing(r, lent.pool)
      BY <1>9, <1>12 DEF Releasing, Borrowing
    <3> QED  BY <2>1, <3>1, <3>2, <1>6, <1>7, <1>10
  <2>2. CASE d # c
    BY <2>2, <1>6, <1>7, <1>10
  <2> QED  BY <2>1, <2>2
<1>14. ASSUME NEW g \in Closers
       PROVE  Running(closer[g])'
  <2>1. Running(closer[g])
    OBVIOUS
  <2>2. \A d \in closer[g].of : closer[g].pc \in Inside \cup {"return"} => d # c
    BY <2>1, <1>12 DEF Running, Inside
  <2>3. closer[g].of \subseteq Clients
    BY DEF Types, CloserRecords
  <2> QED  BY <2>1, <2>2, <2>3, <1>7, <1>10 DEF Running, Inside
<1>15. Alone'
  BY <1>7 DEF Alone
<1> QED  BY <1>6, <1>7, <1>11, <1>13, <1>14, <1>15

\* A goroutine goes on in Close, to k, and its client becomes r; the others notice nothing.
LEMMA CloserStep ==
  ASSUME IInv, NEW g \in Closers, NEW c \in Clients,
         NEW k \in CloserRecords, NEW r \in ClientRecords,
         closer' = [closer EXCEPT ![g] = k],
         client' = [client EXCEPT ![c] = r],
         pools' \in [Clients -> {"none", "open", "closed"}],
         idle' \in [Clients -> BOOLEAN],
         returned' \in [Clients -> SUBSET {"nil", "error"}],
         lent' = lent,
         \A d \in Clients : d # c => /\ pools'[d] = pools[d] /\ idle'[d] = idle[d]
                                     /\ returned'[d] = returned[d],
         r.state = client[c].state, r.got = client[c].got,
         pools'[c] \in {pools[c], "closed"},
         client[c].once = "done" => r.once = "done",
         Owning(r, pools'[c]),
         Releasing(r, pools'[c], idle'[c], returned'[c]),
         k.pc = "idle" \/ k.of = {c},
         k.pc = "idle" => k.of = {},
         k.pc \in Inside => r.once = "running",
         k.pc = "transport" => pools'[c] # "open",
         k.pc = "return" => r.once = "done",
         \/ \A h \in Closers : closer[h].pc \in Inside => c \notin closer[h].of
         \/ closer[g].pc \in Inside /\ closer[g].of = {c}
         \/ r.once = client[c].once /\ k.pc \notin Inside
  PROVE  IInv'
<1> USE DEF IInv
<1>1. /\ client'[c] = r /\ closer'[g] = k
      /\ \A d \in Clients : d # c => client'[d] = client[d]
      /\ \A h \in Closers : h # g => closer'[h] = closer[h]
  BY DEF Types
<1>2. Types'
  BY DEF Types
<1>3. ASSUME NEW d \in Clients
      PROVE  /\ Owning(client[d], pools[d])'
             /\ Releasing(client[d], pools[d], idle[d], returned[d])'
             /\ Borrowing(client[d], lent.pool)'
  <2>1. CASE d = c
    <3>1. Borrowing(r, lent.pool)
      BY DEF Borrowing
    <3> QED  BY <2>1, <3>1, <1>1
  <2>2. CASE d # c
    BY <2>2, <1>1
  <2> QED  BY <2>1, <2>2
<1>4. ASSUME NEW h \in Closers
      PROVE  Running(closer[h])'
  <2>1. CASE h = g
    BY <2>1, <1>1 DEF Running
  <2>2. CASE h # g
    <3>1. Running(closer[h]) /\ closer'[h] = closer[h] /\ closer[h].of \subseteq Clients
      BY <2>2, <1>1 DEF Types, CloserRecords
    <3>2. CASE c \notin closer[h].of
      BY <3>1, <3>2, <1>1 DEF Running
    <3>3. CASE c \in closer[h].of
      <4>1. closer[h].pc \in Inside => r.once = "running" /\ client[c].once = "running"
        BY <2>2, <3>1, <3>3 DEF Running, Alone
      <4>2. closer[h].pc = "transport" => pools'[c] # "open"
        BY <3>1, <3>3 DEF Running
      <4>3. closer[h].pc = "return" => r.once = "done"
        BY <3>1, <3>3 DEF Running
      <4> QED  BY <3>1, <3>3, <4>1, <4>2, <4>3, <1>1 DEF Running
    <3> QED  BY <3>2, <3>3
  <2> QED  BY <2>1, <2>2
<1>5. Alone'
  <2> SUFFICES ASSUME NEW a \in Closers, NEW b \in Closers, a # b,
                      closer'[a].pc \in Inside, closer'[b].pc \in Inside
               PROVE  closer'[a].of \cap closer'[b].of = {}
    BY DEF Alone
  <2>1. CASE a # g /\ b # g
    BY <2>1, <1>1 DEF Alone
  <2>2. \A h \in Closers : h # g /\ closer[h].pc \in Inside /\ k.pc \in Inside => c \notin closer[h].of
    BY DEF Alone
  <2>3. k.pc \in Inside => k.of = {c}
    BY DEF Inside
  <2>4. CASE a = g
    <3>1. closer'[a] = k /\ closer'[b] = closer[b]
      BY <2>4, <1>1
    <3>2. c \notin closer[b].of /\ k.of = {c}
      BY <2>2, <2>3, <2>4, <3>1
    <3> QED  BY <3>1, <3>2
  <2>5. CASE b = g
    <3>1. closer'[b] = k /\ closer'[a] = closer[a]
      BY <2>5, <1>1
    <3>2. c \notin closer[a].of /\ k.of = {c}
      BY <2>2, <2>3, <2>5, <3>1
    <3> QED  BY <3>1, <3>2
  <2> QED  BY <2>1, <2>4, <2>5
<1> QED  BY <1>2, <1>3, <1>4, <1>5

\* The client that a goroutine closes.
LEMMA Owner ==
  ASSUME IInv, NEW g \in Closers, closer[g].pc # "idle"
  PROVE  closer[g].of = {Of(g)} /\ Of(g) \in Clients
<1>1. PICK c \in Clients : closer[g].of = {c}
  BY DEF IInv, Running
<1>2. Of(g) \in closer[g].of
  BY <1>1 DEF Of
<1> QED  BY <1>1, <1>2

LEMMA CloseStep ==
  ASSUME IInv, NEW g \in Closers, NEW c \in Clients, Close(g, c)
  PROVE  IInv'
<1> DEFINE once == IF client[c].once = "new" THEN "running" ELSE client[c].once
           r == [client[c] EXCEPT !.once = once]
           k == [pc |-> IF client[c].once = "new" THEN "cache" ELSE "wait", of |-> {c}]
<1>1. client[c] \in ClientRecords /\ client[c].state = "live" /\ closer[g].pc = "idle"
  BY DEF IInv, Types, Close, At
<1>2. /\ r \in ClientRecords /\ r.once = once /\ r.state = client[c].state /\ r.got = client[c].got
      /\ r.wanted = client[c].wanted /\ r.mayDial = client[c].mayDial
      /\ r.ownedCache = client[c].ownedCache /\ r.closeErr = client[c].closeErr
      /\ r.ownsHTTPTransport = client[c].ownsHTTPTransport
  BY <1>1 DEF ClientRecords
<1>3. k \in CloserRecords
  BY DEF CloserRecords
<1>4. client' = [client EXCEPT ![c] = r] /\ closer' = [closer EXCEPT ![g] = k]
      /\ UNCHANGED <<pools, idle, lent, returned>>
  BY DEF Close
<1>5. Owning(r, pools[c])
  BY <1>1, <1>2 DEF IInv, Owning, ClientRecords
<1>6. Releasing(r, pools[c], idle[c], returned[c])
  BY <1>1, <1>2 DEF IInv, Releasing, ClientRecords
<1>7. \/ \A h \in Closers : closer[h].pc \in Inside => c \notin closer[h].of
      \/ r.once = client[c].once /\ k.pc \notin Inside
  BY <1>1, <1>2 DEF IInv, Running, Inside
<1>8. /\ k.of = {c} /\ k.pc \notin {"idle", "transport", "return"}
      /\ k.pc \in Inside => r.once = "running"
      /\ client[c].once = "done" => r.once = "done"
  BY <1>2 DEF Inside
<1> HIDE DEF r, k
<1> QED  BY <1>2, <1>3, <1>4, <1>5, <1>6, <1>7, <1>8, CloserStep DEF IInv, Types

LEMMA CloseCacheStep ==
  ASSUME IInv, NEW g \in Closers, CloseCache(g)
  PROVE  IInv'
<1> DEFINE c == Of(g)
           k == [closer[g] EXCEPT !.pc = "transport"]
<1>1. closer[g].pc = "cache" /\ closer[g].of = {c} /\ c \in Clients /\ closer[g] \in CloserRecords
  BY Owner DEF CloseCache, At, IInv, Types
<1>2. k \in CloserRecords /\ k.pc = "transport" /\ k.of = {c}
  BY <1>1 DEF CloserRecords
<1>3. closer' = [closer EXCEPT ![g] = k] /\ UNCHANGED <<idle, lent, returned>>
  BY DEF CloseCache
<1>4. client[c].once = "running" /\ client[c] \in ClientRecords
  BY <1>1 DEF IInv, Types, Running, Inside
<1>5. Owning(client[c], pools[c]) /\ Releasing(client[c], pools[c], idle[c], returned[c])
  BY <1>1 DEF IInv
<1>6. CASE client[c].ownedCache
  <2>1. PICK err \in {"nil", "error"} : client' = [client EXCEPT ![c].closeErr = err]
    BY <1>6 DEF CloseCache
  <2>2. pools' = [pools EXCEPT ![c] = "closed"]
    BY <1>6 DEF CloseCache
  <2> DEFINE r == [client[c] EXCEPT !.closeErr = err]
  <2>3. /\ r \in ClientRecords /\ r.once = "running" /\ r.state = client[c].state
        /\ r.got = client[c].got /\ r.wanted = client[c].wanted /\ r.mayDial = client[c].mayDial
        /\ r.ownedCache = client[c].ownedCache
        /\ r.ownsHTTPTransport = client[c].ownsHTTPTransport
    BY <1>4 DEF ClientRecords
  <2>4. client' = [client EXCEPT ![c] = r]
    BY <2>1
  <2> HIDE DEF r
  <2>5. pools'[c] = "closed" /\ \A d \in Clients : d # c => pools'[d] = pools[d]
    BY <1>1, <2>2 DEF IInv, Types
  <2>6. Owning(r, pools'[c])
    BY <1>4, <1>5, <1>6, <2>3, <2>5 DEF Owning, ClientRecords
  <2>7. Releasing(r, pools'[c], idle'[c], returned'[c])
    BY <1>3, <1>4, <1>5, <2>3, <2>5 DEF Releasing
  <2>8. pools' \in [Clients -> {"none", "open", "closed"}]
    BY <2>2 DEF IInv, Types
  <2>9. idle' \in [Clients -> BOOLEAN] /\ returned' \in [Clients -> SUBSET {"nil", "error"}]
    BY <1>3 DEF IInv, Types
  <2>10. \A d \in Clients : d # c => idle'[d] = idle[d] /\ returned'[d] = returned[d]
    BY <1>3
  <2> HIDE DEF k, c
  <2>11. /\ k.pc \notin {"idle", "return"} /\ (k.pc \in Inside => r.once = "running")
         /\ k.pc = "transport" => pools'[c] # "open"
         /\ client[c].once # "done" /\ pools'[c] \in {pools[c], "closed"}
         /\ closer[g].pc \in Inside
    BY <1>1, <1>2, <1>4, <2>3, <2>5 DEF Inside
  <2>12. \A d \in Clients : d # c => pools'[d] = pools[d] /\ idle'[d] = idle[d]
                                     /\ returned'[d] = returned[d]
    BY <2>5, <2>10
  <2> QED  BY <1>1, <1>2, <1>3, <2>3, <2>4, <2>6, <2>7, <2>8, <2>9, <2>11, <2>12, CloserStep
<1>7. CASE ~client[c].ownedCache
  <2>1. UNCHANGED <<client, pools>>
    BY <1>7 DEF CloseCache
  <2>2. pools[c] # "open"
    BY <1>5, <1>7 DEF Owning
  <2>3. client' = [client EXCEPT ![c] = client[c]]
    BY <2>1 DEF IInv, Types
  <2> HIDE DEF k, c
  <2> QED  BY <1>1, <1>2, <1>3, <1>4, <1>5, <2>1, <2>2, <2>3, CloserStep DEF IInv, Types, Inside
<1> QED  BY <1>6, <1>7

LEMMA CloseTransportStep ==
  ASSUME IInv, NEW g \in Closers, CloseTransport(g)
  PROVE  IInv' /\ lent' = lent
<1> DEFINE c == Of(g)
           k == [closer[g] EXCEPT !.pc = "return"]
           r == [client[c] EXCEPT !.once = "done"]
           closes == client[c].ownsHTTPTransport
<1>1. closer[g].pc = "transport" /\ closer[g].of = {c} /\ c \in Clients /\ closer[g] \in CloserRecords
  BY Owner DEF CloseTransport, At, IInv, Types
<1>2. k \in CloserRecords /\ k.pc = "return" /\ k.of = {c}
  BY <1>1 DEF CloserRecords
<1>3. /\ closer' = [closer EXCEPT ![g] = k] /\ client' = [client EXCEPT ![c] = r]
      /\ idle' = [idle EXCEPT ![c] = @ \/ (closes /\ client[c].got.transport = "sdk")]
      /\ lent' = [lent EXCEPT !.idle = @ \/ (closes /\ client[c].got.transport = "caller")]
      /\ UNCHANGED <<pools, returned>>
  BY DEF CloseTransport
<1>4. client[c].once = "running" /\ client[c] \in ClientRecords /\ pools[c] # "open"
  BY <1>1 DEF IInv, Types, Running, Inside
<1>5. Owning(client[c], pools[c]) /\ Releasing(client[c], pools[c], idle[c], returned[c])
  BY <1>1 DEF IInv
<1>6. client[c].state = "live" /\ ~idle[c] /\ returned[c] = {}
      /\ (closes <=> client[c].got.transport \in {"sdk", "default"})
  BY <1>4, <1>5 DEF Owning, Releasing
<1>7. lent' = lent
  <2>1. lent \in LentRecords /\ ~(closes /\ client[c].got.transport = "caller")
    BY <1>6 DEF IInv, Types
  <2>2. lent.idle = FALSE /\ (lent.idle \/ (closes /\ client[c].got.transport = "caller")) = FALSE
    BY <2>1 DEF LentRecords
  <2>3. lent' = [lent EXCEPT !.idle = FALSE]
    BY <1>3, <2>2
  <2> QED  BY <2>1, <2>2, <2>3 DEF LentRecords
<1>8. /\ r \in ClientRecords /\ r.once = "done" /\ r.state = client[c].state
      /\ r.got = client[c].got /\ r.wanted = client[c].wanted /\ r.mayDial = client[c].mayDial
      /\ r.ownedCache = client[c].ownedCache /\ r.closeErr = client[c].closeErr
      /\ r.ownsHTTPTransport = client[c].ownsHTTPTransport
  BY <1>4 DEF ClientRecords
<1>9. /\ idle' \in [Clients -> BOOLEAN] /\ (idle'[c] <=> client[c].got.transport = "sdk")
      /\ \A d \in Clients : d # c => idle'[d] = idle[d]
  <2>1. idle \in [Clients -> BOOLEAN]
    BY DEF IInv, Types
  <2>2. (idle[c] \/ (closes /\ client[c].got.transport = "sdk")) = (client[c].got.transport = "sdk")
    BY <1>6
  <2>3. idle' = [idle EXCEPT ![c] = (client[c].got.transport = "sdk")]
    BY <1>3, <2>2
  <2> QED  BY <1>1, <2>1, <2>3
<1> HIDE DEF r, k, closes, c
<1>10. Owning(r, pools[c])
  BY <1>4, <1>5, <1>8 DEF Owning
<1>11. Releasing(r, pools[c], idle'[c], returned[c])
  BY <1>4, <1>6, <1>8, <1>9 DEF Releasing
<1>12. /\ pools' \in [Clients -> {"none", "open", "closed"}]
       /\ returned' \in [Clients -> SUBSET {"nil", "error"}]
  BY <1>3 DEF IInv, Types
<1> QED  BY <1>1, <1>2, <1>3, <1>7, <1>8, <1>9, <1>10, <1>11, <1>12, CloserStep DEF Inside

LEMMA WaitStep ==
  ASSUME IInv, NEW g \in Closers, Wait(g)
  PROVE  IInv'
<1> DEFINE c == Of(g)
           k == [closer[g] EXCEPT !.pc = "return"]
<1>1. closer[g].pc = "wait" /\ closer[g].of = {c} /\ c \in Clients /\ closer[g] \in CloserRecords
      /\ client[c].once = "done" /\ client[c] \in ClientRecords
  BY Owner DEF Wait, At, IInv, Types
<1>2. k \in CloserRecords /\ k.pc = "return" /\ k.of = {c}
  BY <1>1 DEF CloserRecords
<1>3. closer' = [closer EXCEPT ![g] = k] /\ UNCHANGED <<client, pools, idle, lent, returned>>
      /\ client' = [client EXCEPT ![c] = client[c]]
  BY DEF Wait, IInv, Types
<1> HIDE DEF k, c
<1>4. Owning(client[c], pools[c]) /\ Releasing(client[c], pools[c], idle[c], returned[c])
  BY <1>1 DEF IInv
<1> QED  BY <1>1, <1>2, <1>3, <1>4, CloserStep DEF IInv, Types, Inside

LEMMA ReturnStep ==
  ASSUME IInv, NEW g \in Closers, Return(g)
  PROVE  IInv'
<1> DEFINE c == Of(g)
<1>1. closer[g].pc = "return" /\ closer[g].of = {c} /\ c \in Clients /\ client[c] \in ClientRecords
  BY Owner DEF Return, At, IInv, Types
<1>2. client[c].once = "done" /\ client[c].closeErr \in {"nil", "error"}
  BY <1>1 DEF IInv, Running, ClientRecords
<1>3. /\ closer' = [closer EXCEPT ![g] = NoCloser] /\ UNCHANGED <<client, pools, idle, lent>>
      /\ client' = [client EXCEPT ![c] = client[c]]
      /\ returned' = [returned EXCEPT ![c] = @ \cup {client[c].closeErr}]
  BY DEF Return, IInv, Types
<1>4. NoCloser \in CloserRecords /\ NoCloser.pc = "idle" /\ NoCloser.of = {}
  BY DEF NoCloser, CloserRecords
<1> HIDE DEF c
<1>5. /\ returned' \in [Clients -> SUBSET {"nil", "error"}]
      /\ returned'[c] = returned[c] \cup {client[c].closeErr}
      /\ \A d \in Clients : d # c => returned'[d] = returned[d]
  <2>1. returned \in [Clients -> SUBSET {"nil", "error"}]
    BY DEF IInv, Types
  <2>2. returned[c] \cup {client[c].closeErr} \in SUBSET {"nil", "error"}
    BY <1>1, <1>2, <2>1
  <2> QED  BY <1>1, <1>3, <2>1, <2>2
<1>6. Owning(client[c], pools[c]) /\ Releasing(client[c], pools[c], idle[c], returned[c])
  BY <1>1 DEF IInv
<1>7. Releasing(client[c], pools[c], idle[c], returned'[c])
  BY <1>2, <1>5, <1>6 DEF Releasing
<1> QED  BY <1>1, <1>2, <1>3, <1>4, <1>5, <1>6, <1>7, CloserStep DEF IInv, Types, Inside

LEMMA RetireStep ==
  ASSUME IInv, Retire
  PROVE  IInv'
<1> USE DEF IInv
<1>1. UNCHANGED <<client, pools, idle, closer, returned>> /\ lent' = [lent EXCEPT !.pool = "closed"]
  BY DEF Retire
<1>2. lent' \in LentRecords
  BY <1>1 DEF Types, LentRecords
<1>3. Types'
  BY <1>1, <1>2 DEF Types
<1>4. ASSUME NEW c \in Clients PROVE Borrowing(client[c], lent.pool)'
  BY <1>1 DEF Borrowing, Retire
<1>5. \A g \in Closers : Running(closer[g])'
  BY <1>1 DEF Running
<1>6. Alone'
  BY <1>1 DEF Alone
<1> QED  BY <1>1, <1>3, <1>4, <1>5, <1>6

-----------------------------------------------------------------------------
(* The theorems *)

LEMMA Invariance == Spec => []IInv
<1>1. ASSUME IInv, [Next]_vars PROVE IInv'
  <2>1. CASE UNCHANGED vars
    <3>1. UNCHANGED <<client, pools, idle, lent, closer, returned>>
      BY <2>1 DEF vars
    <3>2. Types' /\ Alone' /\ \A g \in Closers : Running(closer[g])'
      BY <1>1, <3>1 DEF IInv, Types, Alone, Running
    <3> QED  BY <1>1, <3>1, <3>2 DEF IInv
  <2>2. CASE Next
    BY <1>1, <2>2, NewClientStep, CloseStep, CloseCacheStep, CloseTransportStep, WaitStep,
       ReturnStep, RetireStep DEF Next, Closing
  <2> QED  BY <1>1, <2>1, <2>2
<1> QED  BY <1>1, Start, PTL DEF Spec

\* For every list of options of every length, in every environment: a client is what the
\* final option of each kind asks for, and no superseded option dials.
THEOREM OptionsResolve == Spec => []FinalOptionWins
<1>1. IInv => FinalOptionWins  BY DEF IInv, FinalOptionWins, Owning
<1> QED  BY <1>1, Invariance, PTL

\* Every pool the SDK dialed is closed or belongs to a client that will close it, and a
\* client that was not closed has its store, whoever closes the clients around it.
THEOREM PoolsKept == Spec => []PoolsAccountedFor
<1>1. ASSUME IInv PROVE PoolsAccountedFor
  <2>1. lent.pool \in {"open", "closed"}
    BY <1>1 DEF IInv, Types, LentRecords
  <2> QED  BY <1>1, <2>1 DEF IInv, PoolsAccountedFor, Owning, Borrowing, Serving
<1> QED  BY <1>1, Invariance, PTL

\* However many goroutines close a client, those that return found its resources released,
\* with one result for all.
THEOREM CloseOnce == Spec => []CloseSettled
<1>1. ASSUME IInv PROVE CloseSettled
  <2> SUFFICES ASSUME NEW c \in Clients, returned[c] # {}
               PROVE  /\ returned[c] = {client[c].closeErr} /\ pools[c] # "open"
                      /\ idle[c] = (client[c].got.transport = "sdk")
    BY DEF CloseSettled
  <2>1. Releasing(client[c], pools[c], idle[c], returned[c]) /\ idle[c] \in BOOLEAN
    BY <1>1 DEF IInv, Types
  <2> QED  BY <2>1 DEF Releasing
<1> QED  BY <1>1, Invariance, PTL

\* No option, construction or Close changes what the application lent.
THEOREM LentKept == Spec => LentUntouched
<1>1. ASSUME IInv, [Next]_vars
      PROVE  [/\ lent'.timeout = lent.timeout
              /\ lent'.idle = lent.idle
              /\ lent'.pool # lent.pool => UNCHANGED client /\ UNCHANGED closer]_vars
  <2>1. CASE Retire
    <3>1. lent \in LentRecords
      BY <1>1 DEF IInv, Types
    <3> QED  BY <2>1, <3>1 DEF Retire, LentRecords
  <2>2. CASE lent' = lent
    BY <2>2
  <2>3. Retire \/ lent' = lent \/ UNCHANGED vars
    BY <1>1, NewClientStep, CloseTransportStep
       DEF Next, Closing, Close, CloseCache, Wait, Return
  <2> QED  BY <2>1, <2>2, <2>3
<1> QED  BY <1>1, Invariance, PTL DEF Spec, LentUntouched
=============================================================================
