--------------------------- MODULE CacheAsideProofs ---------------------------
(***************************************************************************)
(* For every set of callers, stores, lookups and every time-to-live: when  *)
(* no lookup decodes a download into the destination of its cache read,    *)
(* values do not mix payloads, are of bounded age and stay in the store of *)
(* the operation that downloaded them.                                     *)
(*                                                                         *)
(* The three go together: a value is From a payload of its own key and     *)
(* store that is not too old, wherever it is on its way from the download  *)
(* to an answer (GoodCall) or to another caller (Sound).                   *)
(***************************************************************************)
EXTENDS CacheAside, TLAPS

\* The lookups of leagues.go, players.go and fixtures.go.
OwnDestinations == \A l \in Lookups : ~l.shared

-----------------------------------------------------------------------------
(* The inductive invariant *)

Values == [Fields -> Nat]
Calls == [pc : Active \cup {"idle", "done"}, lookup : Lookups, inner : BOOLEAN,
          store : Stores \cup {None}, dest : Values, answer : Values \cup {None}]
EntryRecords == [fields : Values, broken : Fields \cup {None}, expires : Nat]
Payloads == [fields : Values, key : Keys, at : Nat, store : Stores]

Types == /\ now \in Nat /\ mix \in Mixes /\ shared \in Stores
         /\ store \in [Stores -> [Keys -> EntryRecords \cup {None}]]
         /\ op \in [Callers -> Calls]
         /\ sent \in Seq(Payloads)

OriginKey(l) == IF l.within = None THEN l.key ELSE l.within

\* How old an answer may be.
Life(l) == IF l.within = None THEN TTL ELSE 2 * TTL

\* The value passed validation and is a payload of the lookup's in log, for that store,
\* received at or after an instant.
From(log, l, v, s, since) == \E n \in DOMAIN log : /\ log[n].key = OriginKey(l)
                                                    /\ log[n].fields = v
                                                    /\ log[n].store = s
                                                    /\ log[n].at >= since

Good(log, l, v, s, since) == Valid(l, v) /\ From(log, l, v, s, since)

\* The lookup a call is in.
Cur(r) == IF r.inner THEN AllFixtures ELSE r.lookup

GoodCall(r) ==
  /\ r.pc \in Active => r.store \in Stores
  /\ r.inner => r.lookup.within # None
  /\ r.pc \in {"look", "fetch"} => r.dest = Zero
  /\ r.pc = "fetch" => Cur(r).within = None
  /\ r.pc = "store" => Good(sent, Cur(r), r.dest, r.store, now - Life(Cur(r)) + TTL)
  /\ r.pc = "done" /\ r.answer # None =>
       Good(sent, r.lookup, r.answer, r.store, now - Life(r.lookup))

Sound(s, l) ==
  LET entry == store[s][l.key]
  IN  entry # None =>
        now <= entry.expires /\ Good(sent, l, entry.fields, s, entry.expires - Life(l))

IInv == /\ Types
        /\ \A c \in Callers : GoodCall(op[c])
        /\ \A s \in Stores, l \in Lookups : Sound(s, l)

-----------------------------------------------------------------------------
LEMMA Fixtures ==
  /\ AllFixtures \in Lookups /\ AllFixtures.within = None /\ AllFixtures.checked /\ AllFixtures.cached
  /\ \A l \in Lookups : l.key \in Keys
  /\ Zero \in Values /\ \A f \in Fields : Zero[f] = 0
<1>1. AllFixtures \in Lookups /\ AllFixtures.within = None /\ AllFixtures.checked /\ AllFixtures.cached
  <2>1. AllFixtures.within = None /\ AllFixtures.checked = TRUE /\ AllFixtures.cached = TRUE
    BY DEF AllFixtures, Lookup
  <2>2. AllFixtures \in Lookups
    BY DEF Lookups
  <2> QED
    BY <2>1, <2>2
<1>2. \A l \in Lookups : l.key \in Keys
  BY DEF Keys
<1>3. Zero \in Values /\ \A f \in Fields : Zero[f] = 0
  BY DEF Zero, Values
<1> QED
  BY <1>1, <1>2, <1>3

LEMMA Lives == ASSUME CacheAsideAssumption
               PROVE  /\ TTL \in Nat
                      /\ \A l \in Lookups : Life(l) \in Nat /\ Life(l) >= TTL
                      /\ Life(AllFixtures) = TTL
                      /\ \A l \in Lookups : l.within # None => Life(l) = TTL + TTL
  BY Fixtures DEF CacheAsideAssumption, Life

\* An older bound is a weaker one.
LEMMA Weaker ==
  ASSUME NEW log \in Seq(Payloads), NEW l, NEW v, NEW s, NEW i \in Int, NEW j \in Int, j <= i,
         Good(log, l, v, s, i)
  PROVE  Good(log, l, v, s, j)
<1>1. \A n \in DOMAIN log : log[n] \in Payloads
  OBVIOUS
<1>2. \A n \in DOMAIN log : log[n].at \in Nat
  BY <1>1 DEF Payloads
<1> QED
  BY <1>2 DEF Good, From

\* What came from a list is also a value of an element of it.
LEMMA Searched ==
  ASSUME LookupsAssumption, NEW log, NEW l \in Lookups, l.within # None,
         NEW v, NEW s, NEW i, Good(log, AllFixtures, v, s, i)
  PROVE  Good(log, l, v, s, i)
<1>1. OriginKey(l) = OriginKey(AllFixtures)
  BY Fixtures DEF LookupsAssumption, OriginKey
<1>2. v["id"] # 0
  BY Fixtures DEF Good, Valid
<1> QED
  BY <1>1, <1>2 DEF Good, From, Valid

\* What was received stays received.
Longer(log) == {log} \cup {Append(log, p) : p \in Payloads}

LEMMA Kept ==
  ASSUME NEW log \in Seq(Payloads), NEW longer \in Longer(log),
         NEW l, NEW v, NEW s, NEW i, Good(log, l, v, s, i)
  PROVE  Good(longer, l, v, s, i)
<1>1. \A n \in DOMAIN log : n \in DOMAIN longer /\ longer[n] = log[n]
  BY DEF Longer
<1> QED
  BY <1>1 DEF Good, From

\* The calls that a step leaves alone stay good.
LEMMA Others ==
  ASSUME IInv, NEW c \in Callers, sent' \in Longer(sent), now' = now,
         op' \in [Callers -> Calls], \A d \in Callers \ {c} : op'[d] = op[d],
         GoodCall(op[c])'
  PROVE  \A d \in Callers : GoodCall(op[d])'
<1> SUFFICES ASSUME NEW d \in Callers, d # c
             PROVE  GoodCall(op[d])'
  OBVIOUS
<1>1. op'[d] = op[d] /\ GoodCall(op[d])
  BY DEF IInv
<1>2. \A l, v, s, i : Good(sent, l, v, s, i) => Good(sent', l, v, s, i)
  BY Kept DEF IInv, Types
<1> QED
  BY <1>1, <1>2 DEF GoodCall

\* So do the entries.
LEMMA EntriesKept ==
  ASSUME IInv, sent' \in Longer(sent), now' = now, store' = store
  PROVE  \A s \in Stores, l \in Lookups : Sound(s, l)'
<1>1. \A l, v, s, i : Good(sent, l, v, s, i) => Good(sent', l, v, s, i)
  BY Kept DEF IInv, Types
<1> QED
  BY <1>1 DEF IInv, Sound

-----------------------------------------------------------------------------
(* The parts of a step *)

\* An error leaves nothing behind.
LEMMA EndsNone ==
  ASSUME IInv, NEW c \in Callers, op' = Ends(c, None)
  PROVE  op' \in [Callers -> Calls] /\ GoodCall(op[c])' /\ \A d \in Callers \ {c} : op'[d] = op[d]
<1>1. NoCall \in Calls
  BY Fixtures DEF NoCall, Calls
<1>2. op' = [op EXCEPT ![c] = NoCall]
  BY DEF Ends
<1>3. op'[c] = NoCall
  BY <1>2 DEF IInv, Types
<1>4. NoCall.pc = "idle" /\ ~NoCall.inner
  BY DEF NoCall
<1> QED
  BY <1>1, <1>2, <1>3, <1>4 DEF IInv, Types, GoodCall, Active

\* A value that is good for the lookup a call is in is a good answer, or to be stored.
LEMMA HasValue ==
  ASSUME CacheAsideAssumption, LookupsAssumption, IInv, NEW c \in Callers, op[c].pc \in Active,
         NEW v \in Values, Good(sent', Cur(op[c]), v, op[c].store, now - Life(Cur(op[c]))),
         sent' \in Seq(Payloads), now' = now, op' = Has(c, v)
  PROVE  op' \in [Callers -> Calls] /\ GoodCall(op[c])' /\ \A d \in Callers \ {c} : op'[d] = op[d]
<1> DEFINE r == op[c]
<1>1. r \in Calls /\ GoodCall(r) /\ r.inner \in BOOLEAN /\ r.lookup \in Lookups /\ now \in Int
  BY DEF IInv, Types, Calls
<1>2. CASE Has(c, v) = Ends(c, None)
  BY <1>2, EndsNone
<1>3. CASE ~r.inner /\ v # None
  <2>1. op' = [op EXCEPT ![c].pc = "done", ![c].answer = v, ![c].dest = Zero]
    BY <1>3 DEF Has, Ends
  <2>2. /\ op'[c].pc = "done" /\ op'[c].answer = v /\ op'[c].dest = Zero /\ op'[c].inner = r.inner
        /\ op'[c].lookup = r.lookup /\ op'[c].store = r.store
    BY <2>1, <1>1 DEF IInv, Types, Calls
  <2>3. Cur(r) = r.lookup
    BY <1>3 DEF Cur
  <2>4. op' \in [Callers -> Calls] /\ \A d \in Callers \ {c} : op'[d] = op[d]
    <3>1. [r EXCEPT !.pc = "done", !.answer = v, !.dest = Zero] \in Calls
      BY <1>1, Fixtures DEF Calls
    <3>2. op' = [op EXCEPT ![c] = [r EXCEPT !.pc = "done", !.answer = v, !.dest = Zero]]
      BY <2>1
    <3> QED
      BY <3>1, <3>2 DEF IInv, Types
  <2> QED
    BY <2>2, <2>3, <2>4, <1>1, <1>3 DEF GoodCall, Active
<1>4. CASE ~r.inner /\ v = None
  BY <1>4, <1>2 DEF Has
<1>5. CASE r.inner /\ v["rest"] = 0
  BY <1>5, <1>2 DEF Has
<1>6. CASE r.inner /\ v["rest"] # 0
  <2>1. op' = [op EXCEPT ![c].pc = "store", ![c].inner = FALSE, ![c].dest = v]
    BY <1>6 DEF Has
  <2>2. /\ op'[c].pc = "store" /\ op'[c].dest = v /\ op'[c].inner = FALSE
        /\ op'[c].lookup = r.lookup /\ op'[c].store = r.store
    BY <2>1, <1>1 DEF IInv, Types, Calls
  <2>3. op' \in [Callers -> Calls] /\ \A d \in Callers \ {c} : op'[d] = op[d]
    <3>1. [r EXCEPT !.pc = "store", !.inner = FALSE, !.dest = v] \in Calls
      BY <1>1, Fixtures DEF Calls, Active
    <3>2. op' = [op EXCEPT ![c] = [r EXCEPT !.pc = "store", !.inner = FALSE, !.dest = v]]
      BY <2>1
    <3> QED
      BY <3>1, <3>2 DEF IInv, Types
  <2>4. Cur(r) = AllFixtures /\ Cur(op[c])' = r.lookup /\ r.lookup.within # None
    BY <2>2, <1>1, <1>6 DEF Cur, GoodCall
  <2>5. now - Life(r.lookup) + TTL = now - Life(AllFixtures)
    BY <2>4, <1>1, Lives
  <2>6. Good(sent', r.lookup, v, r.store, now - Life(r.lookup) + TTL)
    BY <2>4, <2>5, <1>1, Searched
  <2> QED
    BY <2>2, <2>3, <2>4, <2>6, <1>1 DEF GoodCall, Active
<1> QED
  BY <1>1, <1>3, <1>4, <1>5, <1>6

\* A step of a call that leaves the store alone.
LEMMA CallStep ==
  ASSUME IInv, NEW c \in Callers, sent' \in Longer(sent), UNCHANGED <<now, mix, shared, store>>,
         op' \in [Callers -> Calls], GoodCall(op[c])', \A d \in Callers \ {c} : op'[d] = op[d]
  PROVE  IInv'
<1>1. Types'
  BY DEF IInv, Types, Longer
<1>2. \A d \in Callers : GoodCall(op[d])'
  BY Others
<1>3. \A s \in Stores, l \in Lookups : Sound(s, l)'
  BY EntriesKept
<1> QED
  BY <1>1, <1>2, <1>3 DEF IInv

\* A miss of the cache is fetched, or the list is searched, with a fresh destination.
LEMMA MissStep ==
  ASSUME CacheAsideAssumption, LookupsAssumption, IInv, NEW c \in Callers, op[c].pc = "look",
         op' = Misses(c, Zero)
  PROVE  op' \in [Callers -> Calls] /\ GoodCall(op[c])' /\ \A d \in Callers \ {c} : op'[d] = op[d]
<1> DEFINE r == op[c]
<1>1. /\ r \in Calls /\ GoodCall(r) /\ r.inner \in BOOLEAN /\ r.lookup \in Lookups
      /\ r.store \in Stores /\ r.dest = Zero
  BY DEF IInv, Types, Calls, GoodCall, Active
<1>2. Cur(r) = Current(c)
  BY DEF Cur, Current
<1>3. CASE Current(c).within = None
  <2>1. op' = [op EXCEPT ![c] = [r EXCEPT !.pc = "fetch", !.dest = Zero]]
    BY <1>3 DEF Misses
  <2>2. [r EXCEPT !.pc = "fetch", !.dest = Zero] \in Calls
    BY <1>1, Fixtures DEF Calls, Active
  <2>3. /\ op'[c].pc = "fetch" /\ op'[c].dest = Zero /\ op'[c].inner = r.inner
        /\ op'[c].lookup = r.lookup /\ op'[c].store = r.store
    BY <2>1, <1>1 DEF IInv, Types, Calls
  <2>4. op' \in [Callers -> Calls] /\ \A d \in Callers \ {c} : op'[d] = op[d]
    BY <2>1, <2>2 DEF IInv, Types
  <2>5. Cur(op[c])' = Cur(r)
    BY <2>3 DEF Cur
  <2> QED
    BY <1>1, <1>2, <1>3, <2>3, <2>4, <2>5 DEF GoodCall, Active
<1>4. CASE Current(c).within # None
  <2>1. op' = [op EXCEPT ![c] = [r EXCEPT !.inner = TRUE]]
    BY <1>4 DEF Misses
  <2>2. [r EXCEPT !.inner = TRUE] \in Calls
    BY <1>1 DEF Calls
  <2>3. /\ op'[c].pc = "look" /\ op'[c].dest = Zero /\ op'[c].inner = TRUE
        /\ op'[c].lookup = r.lookup /\ op'[c].store = r.store
    BY <2>1, <1>1 DEF IInv, Types, Calls
  <2>4. op' \in [Callers -> Calls] /\ \A d \in Callers \ {c} : op'[d] = op[d]
    BY <2>1, <2>2 DEF IInv, Types
  <2>5. ~r.inner /\ r.lookup.within # None
    BY <1>4, Fixtures DEF Current
  <2> QED
    BY <1>1, <2>3, <2>4, <2>5 DEF GoodCall, Active
<1> QED
  BY <1>3, <1>4

-----------------------------------------------------------------------------
(* The steps *)

LEMMA InitGood == ASSUME CacheAsideAssumption, Init PROVE IInv
<1>1. NoCall \in Calls /\ NoCall.pc = "idle" /\ NoCall.inner = FALSE
  BY Fixtures DEF NoCall, Calls
<1>2. \A c \in Callers : op[c] = NoCall
  BY DEF Init
<1>3. Types
  BY <1>1 DEF Init, Types
<1>4. \A c \in Callers : GoodCall(op[c])
  BY <1>1, <1>2 DEF GoodCall, Active
<1>5. \A s \in Stores, l \in Lookups : Sound(s, l)
  BY Fixtures DEF Init, Sound
<1> QED
  BY <1>3, <1>4, <1>5 DEF IInv

LEMMA CallGood ==
  ASSUME CacheAsideAssumption, LookupsAssumption, IInv,
         NEW c \in Callers, NEW l \in mix, Call(c, l)
  PROVE  IInv'
<1> DEFINE r == [NoCall EXCEPT !.lookup = l, !.store = shared,
                               !.pc = IF l.cached THEN "look" ELSE "fetch"]
<1>1. l \in Lookups /\ shared \in Stores
  BY DEF IInv, Types, Lookups
<1>2. /\ r \in Calls /\ r.inner = FALSE /\ r.lookup = l /\ r.store = shared /\ r.dest = Zero
      /\ r.pc = IF l.cached THEN "look" ELSE "fetch"
  BY <1>1, Fixtures DEF NoCall, Calls, Active
<1>3. l.cached \/ l.within = None
  BY <1>1 DEF LookupsAssumption
<1>4. op' = [op EXCEPT ![c] = r] /\ UNCHANGED <<now, mix, shared, store, sent>>
  BY DEF Call
<1>5. op' \in [Callers -> Calls] /\ op'[c] = r /\ \A d \in Callers \ {c} : op'[d] = op[d]
  BY <1>2, <1>4 DEF IInv, Types
<1> HIDE DEF r
<1>6. GoodCall(op[c])'
  BY <1>1, <1>2, <1>3, <1>5 DEF GoodCall, Cur, Active
<1> QED
  BY <1>4, <1>5, <1>6, CallStep DEF Longer

LEMMA FailsGood == ASSUME IInv, NEW c \in Callers, Fails(c) PROVE IInv'
<1>1. op' = Ends(c, None) /\ UNCHANGED <<now, mix, shared, store, sent>>
  BY DEF Fails
<1> QED
  BY <1>1, EndsNone, CallStep DEF Longer

LEMMA LookGood ==
  ASSUME CacheAsideAssumption, LookupsAssumption, OwnDestinations, IInv,
         NEW c \in Callers, Look(c)
  PROVE  IInv'
<1> DEFINE r == op[c]
           l == Cur(r)
           entry == store[r.store][l.key]
<1>1. op[c].pc = "look" /\ UNCHANGED <<now, mix, shared, store, sent>>
  BY DEF Look
<1>2. /\ r \in Calls /\ r.store \in Stores /\ r.lookup \in Lookups /\ now \in Int
      /\ l \in Lookups /\ l.key \in Keys /\ ~l.shared /\ l = Current(c)
  BY <1>1, Fixtures DEF IInv, Types, Calls, GoodCall, Active, Cur, Current, OwnDestinations
<1>3. Sound(r.store, l)
  BY <1>2 DEF IInv
<1>4. entry \in EntryRecords \cup {None}
  BY <1>2 DEF IInv, Types
<1>5. CASE op' = Misses(c, Zero)
  BY <1>1, <1>5, MissStep, CallStep DEF Longer
<1>6. CASE entry # None /\ op' = Has(c, entry.fields)
  <2>1. entry.fields \in Values /\ entry.expires \in Nat /\ now <= entry.expires
    BY <1>3, <1>4, <1>6 DEF EntryRecords, Sound
  <2>2. Good(sent, l, entry.fields, r.store, entry.expires - Life(l))
    BY <1>3, <1>6 DEF Sound
  <2>3. Good(sent, l, entry.fields, r.store, now - Life(l))
    BY <2>1, <2>2, <1>2, Lives, Weaker DEF IInv, Types
  <2>4. sent' = sent /\ sent' \in Seq(Payloads) /\ now' = now
    BY <1>1 DEF IInv, Types
  <2>5. op[c].pc \in Active
    BY <1>1 DEF Active
  <2> HIDE DEF entry, l
  <2>6. op' \in [Callers -> Calls] /\ GoodCall(op[c])' /\ \A d \in Callers \ {c} : op'[d] = op[d]
    BY <1>6, <2>1, <2>3, <2>4, <2>5, HasValue DEF l
  <2> QED
    BY <1>1, <2>6, CallStep DEF Longer
<1>7. op' = Misses(c, Zero) \/ (entry # None /\ op' = Has(c, entry.fields))
  BY <1>2 DEF Look, Remains, StoreOf
<1> QED
  BY <1>5, <1>6, <1>7

LEMMA FetchGood ==
  ASSUME CacheAsideAssumption, LookupsAssumption, IInv, NEW c \in Callers, Fetch(c)
  PROVE  IInv'
<1> DEFINE r == op[c]
           l == Cur(r)
<1>1. /\ r \in Calls /\ GoodCall(r) /\ r.lookup \in Lookups /\ r.pc = "fetch" /\ l = Current(c)
      /\ now \in Nat /\ UNCHANGED <<now, mix, shared, store>>
  BY DEF IInv, Types, Calls, Fetch, Cur, Current
<1>2. l \in Lookups /\ l.key \in Keys /\ l.within = None /\ r.store \in Stores /\ r.dest = Zero
  BY <1>1, Fixtures DEF GoodCall, Active, Cur
<1>3. PICK present \in SUBSET Fields :
        LET payload == [f \in Fields |-> IF f \in present THEN Len(sent) + 1 ELSE 0]
            value == Decoded(op[c].dest, payload)
        IN  /\ sent' = Append(sent, [fields |-> payload, key |-> Current(c).key, at |-> now,
                                     store |-> op[c].store])
            /\ op' = IF ~Valid(Current(c), value) THEN Ends(c, None)
                     ELSE IF Current(c).cached THEN [op EXCEPT ![c].pc = "store", ![c].dest = value]
                     ELSE Ends(c, value)
  BY DEF Fetch
<1> DEFINE v == [f \in Fields |-> IF f \in present THEN Len(sent) + 1 ELSE 0]
           p == [fields |-> v, key |-> l.key, at |-> now, store |-> r.store]
<1>4. Len(sent) \in Nat /\ v \in Values
  BY DEF IInv, Types, Values
<1>5. Decoded(op[c].dest, v) = v
  BY <1>2, Fixtures DEF Decoded
<1>6. p \in Payloads
  BY <1>1, <1>2, <1>4 DEF Payloads
<1> HIDE DEF v
<1>7. sent' = Append(sent, p)
  BY <1>1, <1>3 DEF v
<1>8. \/ op' = Ends(c, None)
      \/ Valid(l, v) /\ op' = [op EXCEPT ![c].pc = "store", ![c].dest = v]
      \/ Valid(l, v) /\ ~l.cached /\ op' = Ends(c, v)
  BY <1>1, <1>3, <1>5 DEF v
<1>9. sent' \in Longer(sent) /\ sent' \in Seq(Payloads)
  BY <1>6, <1>7 DEF Longer, IInv, Types
<1>10. \A i \in Int : i <= now /\ Valid(l, v) => Good(sent', l, v, r.store, i)
  <2> SUFFICES ASSUME NEW i \in Int, i <= now, Valid(l, v) PROVE Good(sent', l, v, r.store, i)
    OBVIOUS
  <2>1. /\ Len(sent) + 1 \in DOMAIN sent' /\ sent'[Len(sent) + 1] = p
    BY <1>6, <1>7 DEF IInv, Types
  <2>2. p.key = OriginKey(l) /\ p.fields = v /\ p.store = r.store /\ p.at = now
    BY <1>2 DEF OriginKey
  <2> HIDE DEF p
  <2> QED
    BY <2>1, <2>2, <1>1 DEF Good, From
<1> HIDE DEF p, l
<1>11. CASE op' = Ends(c, None)
  BY <1>1, <1>9, <1>11, EndsNone, CallStep
<1>12. CASE Valid(l, v) /\ op' = [op EXCEPT ![c].pc = "store", ![c].dest = v]
  <2>1. op' = [op EXCEPT ![c] = [r EXCEPT !.pc = "store", !.dest = v]]
    BY <1>12
  <2>2. [r EXCEPT !.pc = "store", !.dest = v] \in Calls
    BY <1>1, <1>4 DEF Calls, Active
  <2>3. /\ op'[c].pc = "store" /\ op'[c].dest = v /\ op'[c].inner = r.inner
        /\ op'[c].lookup = r.lookup /\ op'[c].store = r.store
    BY <2>1, <1>1 DEF IInv, Types, Calls
  <2>4. op' \in [Callers -> Calls] /\ \A d \in Callers \ {c} : op'[d] = op[d]
    BY <2>1, <2>2 DEF IInv, Types
  <2>5. Cur(op[c])' = l
    BY <2>3 DEF Cur, l
  <2>6. Good(sent', l, v, r.store, now - Life(l) + TTL)
    BY <1>1, <1>2, <1>10, <1>12, Lives
  <2>7. GoodCall(op[c])'
    BY <1>1, <1>2, <2>3, <2>5, <2>6 DEF GoodCall, Active
  <2> QED
    BY <1>1, <1>9, <2>4, <2>7, CallStep
<1>13. CASE Valid(l, v) /\ ~l.cached /\ op' = Ends(c, v) /\ v # None
  <2>1. op' = [op EXCEPT ![c].pc = "done", ![c].answer = v, ![c].dest = Zero]
    BY <1>13 DEF Ends
  <2>2. op' = [op EXCEPT ![c] = [r EXCEPT !.pc = "done", !.answer = v, !.dest = Zero]]
    BY <2>1
  <2>3. [r EXCEPT !.pc = "done", !.answer = v, !.dest = Zero] \in Calls
    BY <1>1, <1>4, Fixtures DEF Calls
  <2>4. /\ op'[c].pc = "done" /\ op'[c].dest = Zero /\ op'[c].inner = r.inner
        /\ op'[c].lookup = r.lookup /\ op'[c].store = r.store /\ op'[c].answer = v
    BY <2>2, <1>1 DEF IInv, Types, Calls
  <2>5. op' \in [Callers -> Calls] /\ \A d \in Callers \ {c} : op'[d] = op[d]
    BY <2>2, <2>3 DEF IInv, Types
  <2>6. l = r.lookup
    BY <1>13, Fixtures DEF l, Cur
  <2>7. Good(sent', r.lookup, v, r.store, now - Life(r.lookup))
    BY <1>1, <1>2, <1>10, <1>13, <2>6, Lives
  <2>8. GoodCall(op[c])'
    BY <1>1, <1>2, <2>4, <2>7 DEF GoodCall, Active
  <2> QED
    BY <1>1, <1>9, <2>5, <2>8, CallStep
<1> QED
  BY <1>4, <1>8, <1>11, <1>12, <1>13

LEMMA StoreGood ==
  ASSUME CacheAsideAssumption, LookupsAssumption, IInv, NEW c \in Callers, Store(c)
  PROVE  IInv'
<1> DEFINE r == op[c]
           l == Cur(r)
           v == r.dest
<1>1. /\ r \in Calls /\ GoodCall(r) /\ r.lookup \in Lookups /\ r.pc = "store" /\ r.pc \in Active
      /\ l = Current(c) /\ v \in Values /\ now \in Nat /\ UNCHANGED <<now, mix, shared, sent>>
  BY DEF IInv, Types, Calls, Store, Cur, Current, Active
<1>2. l \in Lookups /\ l.key \in Keys /\ r.store \in Stores
  BY <1>1, Fixtures DEF GoodCall, Cur
<1>3. /\ store' \in {store, [store EXCEPT ![r.store][l.key] = Entry(v)]}
      /\ op' \in {Has(c, v), Ends(c, None)}
  BY <1>1 DEF Store, StoreOf
<1>4. Good(sent, l, v, r.store, now - Life(l) + TTL)
  BY <1>1 DEF GoodCall
<1> HIDE DEF l, v
<1>5. Good(sent, l, v, r.store, now - Life(l))
  BY <1>1, <1>2, <1>4, Lives, Weaker DEF IInv, Types
<1>6. op' \in [Callers -> Calls] /\ GoodCall(op[c])' /\ \A d \in Callers \ {c} : op'[d] = op[d]
  <2>1. CASE op' = Has(c, v)
    <3>1. sent' = sent /\ sent' \in Seq(Payloads) /\ now' = now
      BY <1>1 DEF IInv, Types
    <3> QED
      BY <1>1, <1>5, <2>1, <3>1, HasValue DEF l, v
  <2>2. CASE op' = Ends(c, None)
    BY <2>2, EndsNone
  <2> QED
    BY <1>3, <2>1, <2>2
<1>7. \A d \in Callers : GoodCall(op[d])'
  BY <1>1, <1>6, Others DEF Longer
<1>8. Entry(v) \in EntryRecords /\ Entry(v).fields = v /\ Entry(v).expires = now + TTL
  BY <1>1, Lives DEF Entry, EntryRecords, v
<1>9. store' \in [Stores -> [Keys -> EntryRecords \cup {None}]]
  <2>1. CASE store' = [store EXCEPT ![r.store][l.key] = Entry(v)]
    <3> DEFINE e == Entry(v)
    <3>1. store' = [store EXCEPT ![r.store] = [store[r.store] EXCEPT ![l.key] = e]]
      BY <2>1
    <3>2. e \in EntryRecords
      BY <1>8
    <3> HIDE DEF e
    <3>3. [store[r.store] EXCEPT ![l.key] = e] \in [Keys -> EntryRecords \cup {None}]
      BY <1>2, <3>2 DEF IInv, Types
    <3> QED
      BY <1>2, <3>1, <3>3 DEF IInv, Types
  <2> QED
    BY <1>3, <2>1 DEF IInv, Types
<1>10. Types'
  BY <1>1, <1>6, <1>9 DEF IInv, Types
<1>11. \A s \in Stores, m \in Lookups : Sound(s, m)'
  <2> SUFFICES ASSUME NEW s \in Stores, NEW m \in Lookups PROVE Sound(s, m)'
    OBVIOUS
  <2>1. Sound(s, m) /\ m.key \in Keys
    BY Fixtures DEF IInv
  <2>2. CASE store'[s][m.key] = store[s][m.key]
    BY <1>1, <2>1, <2>2 DEF Sound
  <2>3. CASE s = r.store /\ m.key = l.key /\ store'[s][m.key] = Entry(v)
    <3>1. m = l
      BY <1>2, <2>3 DEF LookupsAssumption
    <3>2. now <= now + TTL /\ now + TTL - Life(l) = now - Life(l) + TTL
      BY <1>1, <1>2, Lives
    <3>3. store'[s][m.key].fields = v /\ store'[s][m.key].expires = now + TTL
      BY <1>8, <2>3
    <3>4. now' <= store'[s][m.key].expires
      BY <1>1, <3>2, <3>3
    <3>5. Good(sent', m, store'[s][m.key].fields, s, store'[s][m.key].expires - Life(m))
      <4>1. store'[s][m.key].expires - Life(m) = now - Life(l) + TTL
        BY <1>1, <1>2, <3>1, <3>2, <3>3, Lives
      <4>2. sent' = sent /\ s = r.store
        BY <1>1, <2>3
      <4> QED
        BY <1>4, <3>1, <3>3, <4>1, <4>2
    <3> QED
      BY <3>4, <3>5 DEF Sound
  <2> QED
    BY <1>2, <1>3, <2>1, <2>2, <2>3 DEF IInv, Types
<1> QED
  BY <1>7, <1>10, <1>11 DEF IInv

\* Calls that leave the times, the payloads and the stores as they are.
LEMMA SetSharedCacheGood == ASSUME IInv, NEW s \in Stores, SetSharedCache(s) PROVE IInv'
<1>1. shared' = s /\ UNCHANGED <<now, mix, store, op, sent>>
  BY DEF SetSharedCache
<1>2. Types'
  BY <1>1 DEF IInv, Types
<1>3. \A c \in Callers : GoodCall(op[c])'
  BY <1>1 DEF IInv, GoodCall
<1>4. \A t \in Stores, l \in Lookups : Sound(t, l)'
  BY <1>1 DEF IInv, Sound
<1> QED
  BY <1>2, <1>3, <1>4 DEF IInv

LEMMA StutterGood == ASSUME IInv, UNCHANGED vars PROVE IInv'
<1>1. UNCHANGED <<now, mix, shared, store, op, sent>>
  BY DEF vars
<1>2. Types'
  BY <1>1 DEF IInv, Types
<1>3. \A c \in Callers : GoodCall(op[c])'
  BY <1>1 DEF IInv, GoodCall
<1>4. \A t \in Stores, l \in Lookups : Sound(t, l)'
  BY <1>1 DEF IInv, Sound
<1> QED
  BY <1>2, <1>3, <1>4 DEF IInv

\* What an unreadable entry keeps is its value and its age.
LEMMA BreakGood == ASSUME IInv, Break PROVE IInv'
<1>1. UNCHANGED <<now, mix, shared, op, sent>>
  BY DEF Break
<1>2. PICK s \in Stores, k \in Keys, f \in Fields :
        store[s][k] # None /\ store' = [store EXCEPT ![s][k].broken = f]
  BY DEF Break
<1>3. store[s][k] \in EntryRecords
  BY <1>2 DEF IInv, Types
<1> DEFINE e == [store[s][k] EXCEPT !.broken = f]
<1>4. e \in EntryRecords /\ e.fields = store[s][k].fields /\ e.expires = store[s][k].expires
  BY <1>3 DEF EntryRecords
<1>5. store' = [store EXCEPT ![s] = [store[s] EXCEPT ![k] = e]]
  BY <1>2
<1> HIDE DEF e
<1>6. Types'
  BY <1>1, <1>4, <1>5 DEF IInv, Types
<1>7. \A c \in Callers : GoodCall(op[c])'
  BY <1>1 DEF IInv, GoodCall
<1>8. \A t \in Stores, l \in Lookups : Sound(t, l)'
  <2> SUFFICES ASSUME NEW t \in Stores, NEW l \in Lookups PROVE Sound(t, l)'
    OBVIOUS
  <2>1. Sound(t, l) /\ l.key \in Keys
    BY Fixtures DEF IInv
  <2>2. CASE t = s /\ l.key = k
    <3>1. store'[t][l.key] = e
      BY <1>5, <2>1, <2>2 DEF IInv, Types
    <3> QED
      BY <1>1, <1>2, <1>4, <2>1, <2>2, <3>1 DEF Sound
  <2>3. CASE ~(t = s /\ l.key = k)
    <3>1. store'[t][l.key] = store[t][l.key]
      BY <1>5, <2>1, <2>3 DEF IInv, Types
    <3> QED
      BY <1>1, <2>1, <3>1 DEF Sound
  <2> QED
    BY <2>2, <2>3
<1> QED
  BY <1>6, <1>7, <1>8 DEF IInv

LEMMA TickGood == ASSUME CacheAsideAssumption, IInv, Tick PROVE IInv'
<1>1. /\ now' = now + 1 /\ UNCHANGED <<mix, shared, sent>> /\ op' = [c \in Callers |-> NoCall]
      /\ store' = [s \in Stores |-> [k \in Keys |->
                     IF store[s][k] # None /\ store[s][k].expires < now' THEN None
                     ELSE store[s][k]]]
  BY DEF Tick
<1>2. NoCall \in Calls /\ NoCall.pc = "idle" /\ NoCall.inner = FALSE
  BY Fixtures DEF NoCall, Calls
<1>3. Types'
  BY <1>1, <1>2 DEF IInv, Types
<1>4. \A c \in Callers : GoodCall(op[c])'
  BY <1>1, <1>2 DEF GoodCall, Active
<1>5. \A s \in Stores, l \in Lookups : Sound(s, l)'
  <2> SUFFICES ASSUME NEW s \in Stores, NEW l \in Lookups, store'[s][l.key] # None
               PROVE  Sound(s, l)'
    BY DEF Sound
  <2>1. Sound(s, l) /\ l.key \in Keys /\ now' \in Nat
    BY <1>3, Fixtures DEF IInv, Types
  <2>2. store'[s][l.key] = store[s][l.key] /\ ~(store[s][l.key].expires < now')
    BY <1>1, <2>1
  <2>3. store[s][l.key] \in EntryRecords
    BY <2>1, <2>2 DEF IInv, Types
  <2>4. now' <= store[s][l.key].expires
    BY <2>1, <2>2, <2>3 DEF EntryRecords
  <2> QED
    BY <1>1, <2>1, <2>2, <2>4 DEF Sound
<1> QED
  BY <1>3, <1>4, <1>5 DEF IInv

LEMMA NextGood ==
  ASSUME CacheAsideAssumption, LookupsAssumption, OwnDestinations, IInv, [Next]_vars
  PROVE  IInv'
BY CallGood, LookGood, FetchGood, StoreGood, FailsGood, SetSharedCacheGood, BreakGood, TickGood,
   StutterGood DEF Next

-----------------------------------------------------------------------------
(* The invariant implies the properties *)

\* What is about, an answer or an entry, is a payload of its key and store, of bounded age.
LEMMA ValuesGood ==
  ASSUME CacheAsideAssumption, IInv
  PROVE  /\ \A v \in Answers : v.lookup \in Lookups
                               /\ Good(sent, v.lookup, v.fields, v.store, now - Life(v.lookup))
         /\ \A v \in Entries : \E since \in Int : Good(sent, v.lookup, v.fields, v.store, since)
<1>1. ASSUME NEW v \in Answers
      PROVE  v.lookup \in Lookups
             /\ Good(sent, v.lookup, v.fields, v.store, now - Life(v.lookup))
  <2>1. PICK c \in Callers : /\ op[c].pc = "done" /\ op[c].answer # None
                             /\ v = [lookup |-> op[c].lookup, fields |-> op[c].answer,
                                     store |-> op[c].store]
    BY <1>1 DEF Answers
  <2>2. op[c] \in Calls /\ GoodCall(op[c])
    BY DEF IInv, Types
  <2> QED
    BY <2>1, <2>2 DEF GoodCall, Calls
<1>2. ASSUME NEW v \in Entries
      PROVE  \E since \in Int : Good(sent, v.lookup, v.fields, v.store, since)
  <2>1. PICK e \in Stores \X Lookups :
          /\ store[e[1]][e[2].key] # None
          /\ v = [lookup |-> e[2], fields |-> store[e[1]][e[2].key].fields, store |-> e[1]]
    BY <1>2 DEF Entries, Stored
  <2>2. Sound(e[1], e[2]) /\ e[1] \in Stores /\ e[2] \in Lookups
    BY DEF IInv
  <2>3. store[e[1]][e[2].key] \in EntryRecords
    BY <2>1, <2>2, Fixtures DEF IInv, Types
  <2>4. store[e[1]][e[2].key].expires - Life(e[2]) \in Int
    BY <2>2, <2>3, Lives DEF EntryRecords
  <2> QED
    BY <2>1, <2>2, <2>4 DEF Sound
<1> QED
  BY <1>1, <1>2

\* The payloads a value is From are its origins.
LEMMA FromOrigins ==
  ASSUME NEW v, NEW since, Good(sent, v.lookup, v.fields, v.store, since)
  PROVE  /\ Valid(v.lookup, v.fields)
         /\ \E n \in Origins(v) : sent[n].store = v.store /\ sent[n].at >= since
BY DEF Good, From, Origins, OriginKey

LEMMA Implied ==
  ASSUME CacheAsideAssumption, IInv
  PROVE  OnePayload /\ AnswerWithin /\ StoresKeptApart
<1>1. \A v \in Answers \cup Entries : \E since \in Int : Good(sent, v.lookup, v.fields, v.store, since)
  <2>1. \A v \in Answers : now - Life(v.lookup) \in Int
    BY ValuesGood, Lives DEF IInv, Types
  <2> QED
    BY <2>1, ValuesGood
<1>2. OnePayload /\ StoresKeptApart
  BY <1>1, FromOrigins DEF OnePayload, StoresKeptApart
<1>3. AnswerWithin
  <2> SUFFICES ASSUME NEW v \in Answers
               PROVE  \E n \in Origins(v) :
                        now <= sent[n].at + (IF v.lookup.within = None THEN 1 ELSE 2) * TTL
    BY DEF AnswerWithin
  <2>1. v.lookup \in Lookups /\ Good(sent, v.lookup, v.fields, v.store, now - Life(v.lookup))
    BY ValuesGood
  <2>2. PICK n \in Origins(v) : sent[n].at >= now - Life(v.lookup)
    BY <2>1, FromOrigins
  <2>3. sent[n].at \in Nat /\ now \in Nat
    <3>1. n \in DOMAIN sent /\ sent \in Seq(Payloads)
      BY DEF Origins, IInv, Types
    <3>2. sent[n] \in Payloads
      BY <3>1
    <3> QED
      BY <3>2 DEF Payloads, IInv, Types
  <2>4. (IF v.lookup.within = None THEN 1 ELSE 2) * TTL = Life(v.lookup)
    BY <2>1, Lives DEF Life
  <2>5. now <= sent[n].at + Life(v.lookup)
    BY <2>1, <2>2, <2>3, Lives
  <2> QED
    BY <2>4, <2>5
<1> QED
  BY <1>2, <1>3

-----------------------------------------------------------------------------
(* The theorems *)

LEMMA Invariant == OwnDestinations => (Spec => []IInv)
<1> SUFFICES ASSUME OwnDestinations PROVE Spec => []IInv
  OBVIOUS
<1>1. Init => IInv
  BY CacheAsideAssumption, InitGood
<1>2. IInv /\ [Next]_vars => IInv'
  BY CacheAsideAssumption, LookupsAssumption, NextGood
<1> QED
  BY <1>1, <1>2, PTL DEF Spec

\* Answers and entries are one payload of the resource that was asked for, and passed its
\* validation, however many calls fetch, store and fail at a time (fetchJSON, cacheGet,
\* cacheSet): the lookups that decode into a destination of their own do not mix payloads.
THEOREM NoMixedPayloads == OwnDestinations => (Spec => []OnePayload)
<1>1. IInv => OnePayload
  BY CacheAsideAssumption, Implied
<1> QED
  BY <1>1, Invariant, PTL

\* An answer is no older than its time-to-live, an element of a cached list no older than
\* two, whatever the calls in between (Fixture on top of AllFixtures).
THEOREM BoundedAge == OwnDestinations => (Spec => []AnswerWithin)
<1>1. IInv => AnswerWithin
  BY CacheAsideAssumption, Implied
<1> QED
  BY <1>1, Invariant, PTL

\* What an operation that began on one store (cacheFor) downloaded is in no other.
THEOREM SeparateStores == OwnDestinations => (Spec => []StoresKeptApart)
<1>1. IInv => StoresKeptApart
  BY CacheAsideAssumption, Implied
<1> QED
  BY <1>1, Invariant, PTL
=============================================================================
