------------------------------- MODULE Clients -------------------------------
(***************************************************************************)
(* The life of SDK clients: the options of client/options.go, NewClient    *)
(* and Close of client/client.go, and the choice of a cache in             *)
(* client/default_cache.go.  What a client owns it must release, once,     *)
(* whoever calls Close; what it borrowed it must leave alone.  The options *)
(* that only assign a field nobody else touches are left out (base URL,    *)
(* throttle policy, observer, cache error handler).                        *)
(***************************************************************************)
EXTENDS Integers, SequencesExt

CONSTANTS Clients,
          Closers,         \* goroutines that call Close
          Timeouts,        \* arguments of WithTimeout
          Rates,           \* arguments of WithRateLimit; not positive is invalid
          DefaultTimeout, DefaultRate,
          CallerTimeout,   \* of the http.Client the application passes in
          Environments,    \* FPL_CACHE_BACKEND, and whether REDIS_DB is a number
          MaxOptions       \* bound of the model: options of one NewClient

ASSUME ClientsAssumption == /\ Timeouts \subseteq Nat /\ Rates \subseteq Int
                            /\ DefaultRate \in Nat \ {0} /\ MaxOptions \in Nat

VARIABLES env,       \* the process environment
          client,    \* per client: its selection, what it owns, its once
          pools,     \* the Redis pool the SDK dialed for a client, if any
          idle,      \* Close closed the idle connections of the client's own transport
          lent,      \* what the application owns: a pool, an http.Client, its transport
          closer,    \* where each goroutine is in Close
          returned   \* history: what the calls of a client's Close returned

vars == <<env, client, pools, idle, lent, closer, returned>>

-----------------------------------------------------------------------------
(* Options *)

Opt(kind, given, value) == [kind |-> kind, given |-> given, value |-> value]

StoreKinds == {"redis", "cache", "pool", "memory"}
Options == {Opt("timeout", TRUE, t) : t \in Timeouts} \cup {Opt("rate", TRUE, n) : n \in Rates}
             \cup [kind : {"http", "cache", "pool"}, given : BOOLEAN, value : {0}]
             \cup {Opt("redis", TRUE, 0), Opt("memory", TRUE, 0)}
OptionLists == SeqOf(Options, MaxOptions)

\* The fields of a Client before its options.  http: the http.Client is the SDK's, the
\* caller's or nil; callers is the timeout of the caller's.
Fields == [http |-> "sdk", timeout |-> DefaultTimeout, callers |-> CallerTimeout,
           transport |-> "sdk", ownsHTTPTransport |-> TRUE,
           rate |-> DefaultRate, rateErr |-> FALSE,
           cacheErr |-> FALSE, cacheSet |-> FALSE, cache |-> "none", redisOptions |-> FALSE]

WithHTTPClient(f, given) ==
  [f EXCEPT !.http = IF given THEN "caller" ELSE "nil",
            !.transport = IF given THEN "caller" ELSE "none",
            !.ownsHTTPTransport = FALSE]

\* Mutant of the timeout: it is set on whatever http.Client there is.
WithTimeoutInPlace(f, t) ==
  IF f.http = "caller" THEN [f EXCEPT !.callers = t] ELSE [f EXCEPT !.http = "sdk", !.timeout = t]

\* A nil http.Client is replaced by one with Go's default transport, the caller's is copied.
WithTimeout(f, t) ==
  [(IF f.http = "nil" THEN [f EXCEPT !.transport = "default", !.ownsHTTPTransport = TRUE] ELSE f)
     EXCEPT !.http = "sdk", !.timeout = t]

WithRateLimit(f, n) ==
  IF n <= 0 THEN [f EXCEPT !.rateErr = TRUE] ELSE [f EXCEPT !.rateErr = FALSE, !.rate = n]

WithRedisCache(f) ==
  [f EXCEPT !.cacheErr = FALSE, !.cacheSet = TRUE, !.cache = "none", !.redisOptions = TRUE]

\* Mutant of the store options: an earlier WithRedisCache is not forgotten.
WithStoreKept(f, store, given) ==
  [f EXCEPT !.cacheSet = TRUE, !.cacheErr = ~given, !.cache = IF given THEN store ELSE @]

\* WithCache, WithRedisCacheClient and WithMemoryCache; a nil argument is an error.
WithStore(f, store, given) ==
  [f EXCEPT !.redisOptions = FALSE, !.cacheSet = TRUE, !.cacheErr = ~given,
            !.cache = IF given THEN store ELSE @]

Applied(f, opt) ==
  CASE opt.kind = "http" -> WithHTTPClient(f, opt.given)
    [] opt.kind = "timeout" -> WithTimeout(f, opt.value)
    [] opt.kind = "rate" -> WithRateLimit(f, opt.value)
    [] opt.kind = "redis" -> WithRedisCache(f)
    [] opt.kind \in {"cache", "pool", "memory"} -> WithStore(f, opt.kind, opt.given)

\* The options are applied in their order.
Successive(opts) ==
  LET after[i \in 0 .. Len(opts)] == IF i = 0 THEN Fields ELSE Applied(after[i - 1], opts[i])
  IN  after

Configured(opts) == Successive(opts)[Len(opts)]

-----------------------------------------------------------------------------
(* Construction *)

Store(cache, owned, pool, ok) == [cache |-> cache, owned |-> owned, pool |-> pool, ok |-> ok]

\* Mutant of the dial: a pool that does not answer is forgotten.
DialLeaks(up) == IF up THEN Store("redis", TRUE, "open", TRUE) ELSE Store("none", FALSE, "open", FALSE)

\* NewRedisCache: the pool is kept when the server answers the ping, else closed again.
Dial(up) == IF up THEN Store("redis", TRUE, "open", TRUE) ELSE Store("none", FALSE, "closed", FALSE)

\* configureDefaultCache, for a client without a cache option.
DefaultStore(up) ==
  CASE env.backend = "memory" -> Store("memory", FALSE, "none", TRUE)
    [] env.backend \in {"auto", "redis"} /\ ~env.db -> Store("none", FALSE, "none", FALSE)
    [] env.backend = "redis" /\ env.db -> Dial(up)
    [] env.backend = "auto" /\ env.db ->
         IF up THEN Dial(up) ELSE [Dial(up) EXCEPT !.cache = "memory", !.ok = TRUE]
    [] OTHER -> Store("none", FALSE, "none", FALSE)

\* The configuration errors come before any pool is opened.
Selected(f, up) ==
  IF f.cacheErr \/ f.rateErr THEN Store("none", FALSE, "none", FALSE)
  ELSE IF ~f.cacheSet THEN DefaultStore(up)
  ELSE IF f.redisOptions THEN Dial(up)
  ELSE Store(f.cache, FALSE, "none", TRUE)

\* What a client ends up with; nothing when NewClient failed.
Outcome(cache, timeout, transport, rate) ==
  [cache |-> cache, timeout |-> timeout, transport |-> transport, rate |-> rate]
Nothing == Outcome("none", 0, "none", 0)

Built(f, store) ==
  IF store.ok THEN Outcome(store.cache,
                           CASE f.http = "sdk" -> f.timeout
                             [] f.http = "caller" -> f.callers
                             [] f.http = "nil" -> 0,
                           f.transport, f.rate)
  ELSE Nothing

-----------------------------------------------------------------------------
(* What the documents promise of a list of options: the final one of each kind wins. *)

LastOf(opts, kinds) ==
  LET places == {i \in DOMAIN opts : opts[i].kind \in kinds}
  IN  IF places = {} THEN 0 ELSE Max(places)

\* WithTimeout concerns the http.Client chosen so far: one that is chosen later brings its
\* own timeout.  store is "default" without a cache option; a rate of 0 is an error.
Wanted(opts) ==
  LET s == LastOf(opts, StoreKinds)
      r == LastOf(opts, {"rate"})
      h == LastOf(opts, {"http"})
      t == LastOf(opts, {"timeout"})
  IN  [store |-> IF s = 0 THEN "default" ELSE IF opts[s].given THEN opts[s].kind ELSE "error",
       rate |-> IF r = 0 THEN DefaultRate ELSE IF opts[r].value > 0 THEN opts[r].value ELSE 0,
       timeout |-> IF t > h THEN opts[t].value
                   ELSE IF h = 0 THEN DefaultTimeout
                   ELSE IF opts[h].given THEN CallerTimeout ELSE 0,
       transport |-> IF h = 0 THEN "sdk"
                     ELSE IF opts[h].given THEN "caller"
                     ELSE IF t > h THEN "default" ELSE "none"]

WantedStore(store, up) ==
  CASE store = "default" -> DefaultStore(up)
    [] store = "redis" -> Dial(up)
    [] OTHER -> Store(store, FALSE, "none", store # "error")

WantedOutcome(w, up) ==
  LET store == WantedStore(w.store, up)
  IN  IF store.ok /\ w.rate # 0 THEN Outcome(store.cache, w.timeout, w.transport, w.rate)
      ELSE Nothing

\* What the lists of options come to: the fields they build, and what they ask for.
Requests == {[fields |-> Configured(opts), wanted |-> Wanted(opts)] : opts \in OptionLists}

-----------------------------------------------------------------------------
NoClient == [state |-> "unbuilt", got |-> Nothing, wanted |-> Nothing, mayDial |-> TRUE,
             ownedCache |-> FALSE, ownsHTTPTransport |-> FALSE,
             once |-> "new", closeErr |-> "nil"]
NoCloser == [pc |-> "idle", of |-> {}]

Init == /\ env \in Environments
        /\ client = [c \in Clients |-> NoClient]
        /\ pools = [c \in Clients |-> "none"]
        /\ idle = [c \in Clients |-> FALSE]
        /\ lent = [pool |-> "open", timeout |-> CallerTimeout, idle |-> FALSE]
        /\ closer = [g \in Closers |-> NoCloser]
        /\ returned = [c \in Clients |-> {}]

\* NewClient with some options, while the Redis server answers or does not.
NewClient(c) ==
  /\ client[c].state = "unbuilt"
  /\ \E r \in Requests, up \in BOOLEAN :
       LET f == r.fields
           store == Selected(f, up)
       IN  /\ client' = [client EXCEPT ![c] =
                [NoClient EXCEPT !.state = IF store.ok THEN "live" ELSE "failed",
                                 !.got = Built(f, store), !.wanted = WantedOutcome(r.wanted, up),
                                 !.mayDial = r.wanted.store \in {"default", "redis"},
                                 !.ownedCache = store.owned,
                                 !.ownsHTTPTransport = f.ownsHTTPTransport]]
           /\ pools' = [pools EXCEPT ![c] = store.pool]
           /\ lent' = [lent EXCEPT !.timeout = f.callers]
  /\ UNCHANGED <<env, idle, closer, returned>>

-----------------------------------------------------------------------------
(* Close *)

At(g, place) == closer[g].pc = place
Of(g) == CHOOSE c \in closer[g].of : TRUE

\* Mutant of the call: a flag instead of the once.
CloseFlagged(g, c) ==
  /\ client[c].state = "live"
  /\ At(g, "idle")
  /\ closer' = [closer EXCEPT ![g] = [pc |-> IF client[c].once = "new" THEN "cache" ELSE "return",
                                      of |-> {c}]]
  /\ client' = [client EXCEPT ![c].once = IF @ = "new" THEN "running" ELSE @]
  /\ UNCHANGED <<env, pools, idle, lent, returned>>

\* closeOnce.Do: the first caller runs the function, the others wait for it to end.
Close(g, c) ==
  /\ client[c].state = "live"
  /\ At(g, "idle")
  /\ closer' = [closer EXCEPT ![g] = [pc |-> IF client[c].once = "new" THEN "cache" ELSE "wait",
                                      of |-> {c}]]
  /\ client' = [client EXCEPT ![c].once = IF @ = "new" THEN "running" ELSE @]
  /\ UNCHANGED <<env, pools, idle, lent, returned>>

\* An owned pool is closed, which may fail; the pool is gone either way.
CloseCache(g) ==
  /\ At(g, "cache")
  /\ LET c == Of(g)
     IN  \/ /\ client[c].ownedCache
            /\ pools' = [pools EXCEPT ![c] = "closed"]
            /\ \E err \in {"nil", "error"} : client' = [client EXCEPT ![c].closeErr = err]
         \/ ~client[c].ownedCache /\ UNCHANGED <<client, pools>>
  /\ closer' = [closer EXCEPT ![g].pc = "transport"]
  /\ UNCHANGED <<env, idle, lent, returned>>

\* The idle connections of an owned transport; Go's default transport is a nil field.
CloseTransport(g) ==
  /\ At(g, "transport")
  /\ LET c == Of(g)
         closes == client[c].ownsHTTPTransport
     IN  /\ idle' = [idle EXCEPT ![c] = @ \/ (closes /\ client[c].got.transport = "sdk")]
         /\ lent' = [lent EXCEPT !.idle = @ \/ (closes /\ client[c].got.transport = "caller")]
         /\ client' = [client EXCEPT ![c].once = "done"]
  /\ closer' = [closer EXCEPT ![g].pc = "return"]
  /\ UNCHANGED <<env, pools, returned>>

\* Do returns to a caller that did not run the function.
Wait(g) == /\ At(g, "wait")
           /\ client[Of(g)].once = "done"
           /\ closer' = [closer EXCEPT ![g].pc = "return"]
           /\ UNCHANGED <<env, client, pools, idle, lent, returned>>

\* Close returns closeErr.
Return(g) == /\ At(g, "return")
             /\ returned' = [returned EXCEPT ![Of(g)] = @ \cup {client[Of(g)].closeErr}]
             /\ closer' = [closer EXCEPT ![g] = NoCloser]
             /\ UNCHANGED <<env, client, pools, idle, lent>>

\* The application closes its pool after the clients that borrowed it.
Retire == /\ lent.pool = "open"
          /\ \A c \in Clients : client[c].state = "live" /\ client[c].got.cache = "pool"
                                  => client[c].once = "done"
          /\ \A c \in Clients : client[c].state # "unbuilt"
          /\ lent' = [lent EXCEPT !.pool = "closed"]
          /\ UNCHANGED <<env, client, pools, idle, closer, returned>>

Closing(g) == CloseCache(g) \/ CloseTransport(g) \/ Wait(g) \/ Return(g)

Next == \/ \E c \in Clients : NewClient(c)
        \/ \E g \in Closers : Closing(g) \/ \E c \in Clients : Close(g, c)
        \/ Retire

Spec == Init /\ [][Next]_vars

-----------------------------------------------------------------------------
(* Properties *)

Serving(c) == client[c].state = "live" /\ client[c].once = "new"

\* Whatever options were given in whatever order, a client is what the final option of
\* each kind asks for, an invalid option that is superseded does not fail NewClient, one
\* that is not does, and a superseded WithRedisCache opens no connection.
FinalOptionWins ==
  \A c \in Clients : /\ client[c].got = client[c].wanted
                     /\ pools[c] # "none" => client[c].mayDial

\* A pool the SDK dialed is closed or belongs to a client that can close it, also when
\* NewClient failed or fell back to memory; and no client loses its store while it has
\* not been closed itself, whichever others are closed around it.
PoolsAccountedFor ==
  \A c \in Clients :
    /\ pools[c] = "open" => client[c].state = "live" /\ client[c].ownedCache
                            /\ client[c].got.cache = "redis"
    /\ Serving(c) /\ client[c].got.cache = "redis" => pools[c] = "open"
    /\ Serving(c) /\ client[c].got.cache = "pool" => lent.pool = "open"

\* No option, construction or Close changes what the application lent: its http.Client
\* keeps its timeout, its transport its connections, and its pool stays open until the
\* application closes it.
LentUntouched ==
  [][/\ lent'.timeout = lent.timeout
     /\ lent'.idle = lent.idle
     /\ lent'.pool # lent.pool => UNCHANGED client /\ UNCHANGED closer]_vars

\* Close is idempotent, also for concurrent callers: a call that returned found the
\* client's own resources released, and all calls return the same result.
CloseSettled ==
  \A c \in Clients :
    returned[c] # {} => /\ returned[c] = {client[c].closeErr}
                        /\ pools[c] # "open"
                        /\ idle[c] = (client[c].got.transport = "sdk")
=============================================================================
