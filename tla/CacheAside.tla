----------------------------- MODULE CacheAside -----------------------------
(***************************************************************************)
(* The cached lookups of endpoints/{leagues,players,manager,live,fixtures} *)
(* and the helpers they share (fetchJSON, cacheGet, cacheSet): look in the *)
(* cache, otherwise fetch, decode, validate, store and return.  There is   *)
(* no gate: concurrent misses fetch and store independently.  Values are   *)
(* records of fields; decoding into a destination overwrites the fields    *)
(* that are in the payload and leaves the others, and an entry with one    *)
(* field of the wrong type fills in the other fields before it fails.      *)
(* A call takes no time at the scale of the times-to-live.                 *)
(***************************************************************************)
EXTENDS Integers, Sequences

CONSTANTS Callers,
          Mixes,         \* sets of lookups; a behaviour uses one of the sets
          Stores,        \* the caches that SetSharedCache switches between
          MaxPageCache,  \* maxPageCache of leagues.go: the last page that is cached
          TTL,           \* the time-to-live of the lookup's kind
          MaxFetches,    \* bound of the model: payloads of the upstream
          Horizon,       \* bound of the model: the clock stops here
          None           \* no entry, no answer

ASSUME CacheAsideAssumption == /\ MaxPageCache \in Int /\ TTL \in Nat
                               /\ MaxFetches \in Nat /\ Horizon \in Nat

VARIABLES now,
          mix,      \* the lookups that are used
          shared,   \* the cache that an operation takes when it begins
          store,    \* store, key -> entry: the fields stored, and the one that does not decode
          op,       \* the call each goroutine is in
          sent      \* history: the payloads; the n-th holds n in its fields

vars == <<now, mix, shared, store, op, sent>>

-----------------------------------------------------------------------------
(* Lookups *)

\* "id" is the field that is validated (manager ID, league ID, history, elements; of a list,
\* that it is there at all), "rest" the optional rest (of a list, the element somebody
\* looks for).  0 is the zero value of a field.
Fields == {"id", "rest"}
Zero == [f \in Fields |-> 0]

\* cached: under the key.  shared: the payload is decoded into the destination of the cache
\* read.  checked: "id" is validated.  accepted: the arguments are.  within: the key of the
\* list that is searched instead of a download.
Lookup(key) == [key |-> key, cached |-> TRUE, shared |-> FALSE, checked |-> TRUE,
                accepted |-> TRUE, within |-> None]

ClassicLeague(id, page) == [Lookup(<<"classic_league", id, page>>) EXCEPT
                              !.cached = page <= MaxPageCache]
PlayerHistory(id) == Lookup(<<"player_history", id>>)
Manager(id) == [Lookup(<<"manager", id>>) EXCEPT !.shared = TRUE]
CurrentTeam(id, gw) == [Lookup(<<"manager_team", id, gw>>) EXCEPT !.shared = TRUE, !.checked = FALSE]
ManagerHistory(id) == [Lookup(<<"manager_history", id>>) EXCEPT !.shared = TRUE, !.checked = FALSE]
EventLive(id) == [Lookup(<<"event_live", id>>) EXCEPT !.shared = TRUE]
H2HLeagueMatches(id, page, event) ==
  [Lookup(<<"h2h_matches", id, page, event>>) EXCEPT
     !.cached = FALSE, !.checked = FALSE, !.accepted = id > 0 /\ page > 0 /\ event >= 0]
H2HLeagueStandings(id, page) ==
  [Lookup(<<"h2h_standings", id, page>>) EXCEPT !.cached = FALSE, !.accepted = id > 0 /\ page > 0]
AllFixtures == Lookup(<<"fixtures">>)
Fixture(id) == [Lookup(<<"fixture", id>>) EXCEPT !.within = AllFixtures.key]

Lookups == (UNION Mixes) \cup {AllFixtures}
Keys == {l.key : l \in Lookups}

\* A key names the method and its arguments, and only what is cached is searched for.
ASSUME LookupsAssumption ==
  /\ \A l, m \in Lookups : l.key = m.key => l = m
  /\ \A l \in Lookups : l.within \in {None, AllFixtures.key} /\ (l.within # None => l.cached)

\* json.Unmarshal of a payload into dest.
Decoded(dest, payload) == [f \in Fields |-> IF payload[f] # 0 THEN payload[f] ELSE dest[f]]

-----------------------------------------------------------------------------
(* Calls *)

\* pc: "look" in the cache, "fetch", "store".  inner: in the lookup of the list.
Active == {"look", "fetch", "store"}
NoCall == [pc |-> "idle", lookup |-> AllFixtures, inner |-> FALSE, store |-> None,
           dest |-> Zero, answer |-> None]

\* Mutant of the store: the nested lookup takes the one of the moment.
StoreOfMoment(c) == IF op[c].inner THEN shared ELSE op[c].store

\* The nested lookup is handed the store of the operation.
StoreOf(c) == op[c].store

Current(c) == IF op[c].inner THEN AllFixtures ELSE op[c].lookup

Init == /\ now = 0
        /\ mix \in Mixes
        /\ shared \in Stores
        /\ store = [s \in Stores |-> [k \in Keys |-> None]]
        /\ op = [c \in Callers |-> NoCall]
        /\ sent = <<>>

\* The arguments are checked, a store is taken for the whole operation (cacheFor), and a
\* lookup that is not cached goes to the network.
Call(c, l) ==
  /\ op[c].pc \notin Active
  /\ l.accepted
  /\ op' = [op EXCEPT ![c] = [NoCall EXCEPT !.lookup = l, !.store = shared,
                                            !.pc = IF l.cached THEN "look" ELSE "fetch"]]
  /\ UNCHANGED <<now, mix, shared, store, sent>>

\* What a call ends with; of an error nothing is kept.
Ends(c, answer) == IF answer = None THEN [op EXCEPT ![c] = NoCall]
                   ELSE [op EXCEPT ![c].pc = "done", ![c].answer = answer, ![c].dest = Zero]

\* Every helper returns the context's error when it is done, and fetchJSON those of the
\* transport, the status, the body and its decoding: the call ends.
Fails(c) == /\ op[c].pc \in Active
            /\ op' = Ends(c, None)
            /\ UNCHANGED <<now, mix, shared, store, sent>>

\* The value of a lookup is there: it is the answer, or the list is searched and the
\* element, if there is one, is stored under a key of its own.
Has(c, v) == CASE ~op[c].inner -> Ends(c, v)
               [] op[c].inner /\ v["rest"] = 0 -> Ends(c, None)
               [] op[c].inner /\ v["rest"] # 0 ->
                    [op EXCEPT ![c].pc = "store", ![c].inner = FALSE, ![c].dest = v]

\* A miss is fetched, or searched in the list.
Misses(c, dest) ==
  IF Current(c).within = None THEN [op EXCEPT ![c].pc = "fetch", ![c].dest = dest]
  ELSE [op EXCEPT ![c].inner = TRUE]

\* Mutant of the destination: every lookup reuses it.
RemainsAlways(l, entry) == [entry.fields EXCEPT ![entry.broken] = 0]

\* What an entry that does not decode leaves in the destination of the network decode.
Remains(l, entry) == IF l.shared THEN [entry.fields EXCEPT ![entry.broken] = 0] ELSE Zero

\* cacheGet: a hit is the value; a miss, or a decode error that is reported, falls through.
Look(c) ==
  LET entry == store[StoreOf(c)][Current(c).key]
  IN  /\ op[c].pc = "look"
      /\ \/ entry = None /\ op' = Misses(c, Zero)
         \/ entry # None /\ entry.broken = None /\ op' = Has(c, entry.fields)
         \/ /\ entry # None /\ entry.broken # None
            /\ op' = Misses(c, Remains(Current(c), entry))
      /\ UNCHANGED <<now, mix, shared, store, sent>>

\* validateLeague, validateManager and the checks for a missing part.
Valid(l, v) == l.checked => v["id"] # 0

\* fetchJSON decodes a payload, in which fields may be absent, and it is validated.
Fetch(c) ==
  /\ op[c].pc = "fetch"
  /\ Len(sent) < MaxFetches
  /\ \E present \in SUBSET Fields :
       LET payload == [f \in Fields |-> IF f \in present THEN Len(sent) + 1 ELSE 0]
           value == Decoded(op[c].dest, payload)
       IN  /\ sent' = Append(sent, [fields |-> payload, key |-> Current(c).key, at |-> now,
                                    store |-> op[c].store])
           /\ op' = IF ~Valid(Current(c), value) THEN Ends(c, None)
                    ELSE IF Current(c).cached THEN [op EXCEPT ![c].pc = "store", ![c].dest = value]
                    ELSE Ends(c, value)
  /\ UNCHANGED <<now, mix, shared, store>>

\* Mutant of the entry: it lives a moment longer.
EntryLong(v) == [fields |-> v, broken |-> None, expires |-> now + TTL + 1]
Entry(v) == [fields |-> v, broken |-> None, expires |-> now + TTL]

\* cacheSet; a failed write is reported and ignored, and a context that is done by the end
\* of the write is an error although the entry is there.
Store(c) ==
  /\ op[c].pc = "store"
  /\ store' \in {store, [store EXCEPT ![StoreOf(c)][Current(c).key] = Entry(op[c].dest)]}
  /\ op' \in {Has(c, op[c].dest), Ends(c, None)}
  /\ UNCHANGED <<now, mix, shared, sent>>

-----------------------------------------------------------------------------
(* Around the calls *)

SetSharedCache(s) == /\ shared' = s
                     /\ UNCHANGED <<now, mix, store, op, sent>>

\* Another version of the SDK, sharing the store, wrote the entry: one of its fields does
\* not decode into this version's type.
Break == /\ \E s \in Stores, k \in Keys, f \in Fields :
              store[s][k] # None /\ store' = [store EXCEPT ![s][k].broken = f]
         /\ UNCHANGED <<now, mix, shared, op, sent>>

\* Time passes between calls, which leave nothing behind, and entries expire.
Tick == /\ now < Horizon
        /\ \A c \in Callers : op[c].pc \notin Active
        /\ now' = now + 1
        /\ store' = [s \in Stores |-> [k \in Keys |->
                       IF store[s][k] # None /\ store[s][k].expires < now' THEN None
                       ELSE store[s][k]]]
        /\ op' = [c \in Callers |-> NoCall]
        /\ UNCHANGED <<mix, shared, sent>>

Next == \/ \E c \in Callers : \/ Look(c) \/ Fetch(c) \/ Store(c) \/ Fails(c)
                              \/ \E l \in mix : Call(c, l)
        \/ \E s \in Stores \ {shared} : SetSharedCache(s)
        \/ Break \/ Tick

Spec == Init /\ [][Next]_vars

-----------------------------------------------------------------------------
(* Properties *)

\* The values that are about: what callers were answered, and what is stored for others.
Answers == {[lookup |-> op[c].lookup, fields |-> op[c].answer, store |-> op[c].store] :
              c \in {d \in Callers : op[d].pc = "done" /\ op[d].answer # None}}
Stored == {e \in Stores \X Lookups : store[e[1]][e[2].key] # None}
Entries == {[lookup |-> e[2], fields |-> store[e[1]][e[2].key].fields, store |-> e[1]] : e \in Stored}

\* The payloads that a value of a lookup may be.
Origins(v) == {n \in DOMAIN sent :
                 /\ sent[n].key = IF v.lookup.within = None THEN v.lookup.key ELSE v.lookup.within
                 /\ sent[n].fields = v.fields}

\* No value mixes payloads: what a caller gets and what is stored for others is one payload
\* of the resource that was asked for, which passed validation, with the zero value for
\* every field that payload left out, although an unreadable entry was partly decoded on
\* the way.
OnePayload == \A v \in Answers \cup Entries : Origins(v) # {} /\ Valid(v.lookup, v.fields)

\* No answer is older than the time-to-live of its kind, one that was searched in a cached
\* list and cached again under its own key (fixture_<id>) no older than two of them.
AnswerWithin ==
  \A v \in Answers : \E n \in Origins(v) :
    now <= sent[n].at + (IF v.lookup.within = None THEN 1 ELSE 2) * TTL

\* "Different datasets must use separate explicit stores": what an operation that began on
\* one store downloaded is neither found nor stored in another, although the shared cache
\* is replaced while the operation, or the lookup nested in it, is under way.
StoresKeptApart ==
  \A v \in Answers \cup Entries : \E n \in Origins(v) : sent[n].store = v.store
=============================================================================
