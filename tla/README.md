# go-fantasy-pl: a TLA+ verification project

The modules in this directory model the Go SDK for the Fantasy Premier League
API: its rate limiter, its handling of throttled responses, its caches, the
download of the bootstrap data that all callers share, and its batch fetch.
TLC checks small instances; TLAPS proves every safety property that the passing
runs check for every value of the constants. Paths below are relative to the
repository.

## 1. The system and its parts

An application builds a `Client` (`client/client.go`) from options and calls
the services in `endpoints/`. A service looks in a cache, and on a miss asks
`Client.GetContext`, which waits for the rate limiter, sends the request and
retries throttled responses. Nothing here owns a thread except the cleanup
task of the memory cache and the workers of a batch: concurrency comes from
the application's goroutines, which share one client, one cache and one
process-wide download gate.

| Part | State | Operations | Hard behaviour | Correct when | Module |
|---|---|---|---|---|---|
| Rate limiter, `client/rate_limiter.go` | tokens, fractional credit, last refill | `Wait`, `refill`, `nextDelay` | callers race for a token after a sleep; integer rounding | no window exceeds the rate; no wait is longer or shorter than needed | `RateLimiter`, `TokenBucket` |
| Throttle policy, `client/throttle.go` | none | `resolved`, `backoff`, `parseRetryAfter`, `throttleWait` | 64-bit overflow of shift and float product | waits stay within the policy | `ThrottlePolicy`, `RetryWaits` |
| Attempt loop, `client/client.go` | locals of a call | `GetContext`, `GetRawContext`, `maintenanceError` | retries interleave with other callers; cancellation at any point | budgets, bodies, events and waits agree with the responses | `ThrottledClient` |
| Memory cache, `internal/cache/cache.go` | map of items, started cleanup | `Get`, `Set`, `Delete`, `Clear`, `Cleanup` | expiry judged on a copy after the lock was released | hits were live, fresh entries survive | `MemoryCache` |
| Bootstrap sections, `endpoints/bootstrap.go`, `endpoints/cache_provider.go` | gate, shared store | section getters, `SetSharedCache` | missed together, cancelled in the queue, failed while holding the gate | one download per miss, gate never stranded, no older data | `Bootstrap` |
| Gameweeks, `endpoints/bootstrap.go`, `endpoints/manager.go` | three cache entries with separate lives | `GetCurrentGameWeek`, `GetNextGameWeek`, `GetCurrentTeam` | the season rolls over between cached values | staleness is bounded | `GameWeeks` |
| Cached lookups, `endpoints/{manager,live,players,leagues,fixtures,fetch}.go` | a cache entry per resource, one derived entry per fixture | look, fetch, validate, store; `SetSharedCache` | an entry that decodes in part, then a network decode; a store replaced under a nested lookup; entries derived from old entries | a value is one payload of bounded age, stores stay apart | `CacheAside` |
| Async calls, `endpoints/async.go` | counter, channel | `GetPlayerHistoriesBatch`, `deliverAsync` | workers, a closer and a consumer that may stop | delivery contract, bounded work, everything ends | `PlayerBatch`, `BatchContract` |
| Options, construction, `Close`, `client/{options,client,default_cache}.go` | the fields of a `Client`, what it owns, its `sync.Once` | `With...`, `NewClient`, `configureDefaultCache`, `Close` | options in any order; a dial that fails; shared pools; concurrent `Close` | the final options win, what is owned is released once, what is borrowed is left alone | `Clients` |
| Redis cache, `internal/cache/redis_cache.go` | keys on a server that others use too | `Set`, `Get`, `Delete`, `Clear` | commands applied late or never; `Clear` in batches while others write; contexts | a `Clear` that met no error is complete, foreign keys stay, operations end | `RedisCache` |
| Team and player scans, `endpoints/{teams,players}.go` | none | `GetTeam`, `GetPlayer` | none | | not modelled |
| Conformance harness, data models, examples, release script | none | pure functions and programs | none that is concurrent | | not modelled |

How they interact. The attempt loop uses the limiter through what `TokenBucket`
promises, and `RateLimiter` is proved to implement that promise, so
`ThrottledClient` composes with any limiter that does. `Bootstrap` and
`CacheAside` see a store as `cacheGet` and `cacheSet` present it: a read may
fail and count as a miss, a write may fail and be ignored, an entry may vanish
at any time. That covers both caches: `MemoryCache` never fails a write, and
`RedisCache` may fail a write that is applied all the same.
`GameWeeks` takes a download as one step, which is what `Bootstrap` is about.
`Clients` is about which of the caches a client gets and who releases it.

## 2. Modules and their correspondence to the code

**TokenBucket** is the abstract limiter: a level in (1/Interval)-ths of a
token, the instant up to which it is settled, a count of admissions.
`Take(t)` and `FindEmpty(t)` are the two outcomes of looking at it.

**RateLimiter** has the struct's fields as variables. Each pass through the
critical section of `Wait` is one action (`CheckCancelled`, `Admit`,
`FindEmpty`); creating the timer and the select are actions of their own
(`StartTimer`, `TimerFires`, `WaitCancelled`), because the delay is computed
under the mutex and used after it. `Refilled` and `NextDelay` are `refill` and
`nextDelay` with exact integers: the code's 128-bit product makes it exact.
One tick stands for one nanosecond of the code. The history variables
`admitted`, `seen`, `windowStart` and `windowBase` are read by properties only.

**ThrottlePolicy** holds the pure functions of `client/throttle.go`, with
durations of `Width` bits (64 in the build) whose shift wraps. The conversion
of a float product that does not fit is left open by Go, so any duration may
come out. **RetryWaits** (`WaitsSpec`) iterates `backoff` over the retries of one class.

**ThrottledClient** gives each caller a record with the locals of its
`GetContext`. An action is one step up to the next point where other
goroutines, the clock or a cancellation can matter: the limiter, the hand-over
to the transport, the answer, the backoff. `http.Client` and the upstream are
external: they answer any member of `Responses` or fail. `open`, `emitted`,
`event`, `final` and `sent` are history.

**MemoryCache** makes every mutex section one action, and the expiry check and
the decoding, which run on a copy without the lock, actions of their own. A
value is a version number. `Observe` is history: it records what was visible
under the key while a read was under way.

**Bootstrap** follows one getter from the first `cacheGet` through the gate (a
channel of capacity 1), the second `cacheGet`, the request and the warming loop
to the deferred release. The data of a download is its number, so that older
and newer can be compared. A request can hang: only its context ends it then.

**PlayerBatch** has one pc per worker; `Top`, `Pull`, `Fetch`, `Send` and
`Drop` are the steps of its loop, `Close` the closing goroutine, `Receive`,
`SeeClose`, `Abandon` and `Cancel` the application. **BatchContract** is what
the comment on the function promises to the reader of the channel. `kind` says
whether the channel is that of a batch or of a single call: `deliverAsync` is
one goroutine that fetches once, sends into a channel of capacity 1 and closes it.

**CacheAside** has the lookups as data: `ClassicLeague`, `PlayerHistory`,
`Manager`, `CurrentTeam`, `ManagerHistory`, `EventLive`, `H2HLeagueMatches`,
`H2HLeagueStandings`, `AllFixtures` and `Fixture` say of each method which key it
uses, which pages it caches, what it validates, which arguments it refuses,
whether the network decode reuses the destination of the failed cache read, and
whether a miss is searched in a cached list. The actions `Call`, `Look`, `Fetch`,
`Store` and `Fails` are the steps they share. A value has one validated field and
one optional field, which is what decoding in part needs to show. A call takes no
time at the scale of the times-to-live, so `Tick` waits for calls to end.

**RedisCache** separates a command from its caller: `Send` puts it on the wire,
`Apply` is the server, whose reply may be lost, and `Fail` is the caller giving
up, which takes no command that writes back. `done` is the context of an
operation, a child of the caller's with a ceiling; Delete and Clear take none from
the caller and have only the ceiling. `Scan` adds a key to the batch, `Deleted`
goes on after a batch, `ScanEnds` is the end of the iterator. SCAN promises only
that it returns what is there all the time, which is what `todo` tracks.

**Clients** has `Applied` for one option and `Configured` for a list of them,
`DefaultStore`, `Dial` and `Selected` for the choice of a cache, and `Close` as
four steps around its `sync.Once`. `Wanted` reads a list of options as the
documents do, the final one of each kind, without folding.

**GameWeeks** (`SeasonSpec`) has the three cache entries, a clock and the gameweek that is
live upstream. `Tick` waits for calls to end: the times-to-live are minutes.

Each `MC...` module extends one of these with model values and small sets, and
its `.cfg` gives the constants their values. The `...Proofs` modules are the subject of
section 5. Definitions whose comment begins
with "Mutant" are faulty variants of the definition after them; no
specification uses them. They show that a property notices the fault.

## 3. Runs

| Run | Instance | What it shows |
|---|---|---|
| MCRateLimiter | 2 callers, 2 tokens per 3 ticks, 5 ticks | `WindowBound` and `DelayExact` hold, somebody is admitted (`SomebodyAdmitted`), the code implements `TokenBucket` |
| MCRetryWaits | every base and maximum of 7 bits, 6 retries, shifts up to 4 | waits stay in bounds, also when shift or product overflow; where nothing overflows they are the documented ones |
| MCThrottledClient | 1 caller, 3 policies, 10 answers, 4 ticks | budgets per class, bodies, observer events, waits, the rate of what is sent (`SendsWithinRate`), cancellation |
| MCRetryAfterEvent | as MCThrottledClient, 2 ticks | a disagreement, see below |
| MCMemoryCache | 2 goroutines, 2 keys, 2 writes, 2 ticks | hits and misses are explained by what was visible during the read (`AnswersExplained`); a fresh entry is removed only on request; expired entries are reclaimed |
| MCBootstrap | 2 callers, 2 stores, 2 sections, 2 downloads | the gate is owned by one caller, no redundant download, no data goes back, the queue moves on |
| MCPlayerBatch | 2 workers, batches of 0 to 5, and a single call | the delivery contract, its bounds, its end; a single call delivers once and closes |
| MCCacheAside | 2 callers, 2 stores, 2 payloads, 3 ticks, TTL 1; the lookups with a destination of their own | a value is one payload (`OnePayload`), an answer is at most one TTL old, a derived one two (`AnswerWithin`), a dataset does not leak into another store (`StoresKeptApart`) |
| MCCacheReuse | the same, with the other lookups | a disagreement, see below |
| MCGameWeeks | 2 callers, 2 gameweeks, 4 ticks, TTLs 1 and 2 | rollover is detected within the TTL of the list, for the next gameweek within two |
| MCClients | 2 clients, 2 closing goroutines, every list of up to 3 options, 5 environments, the server up or down | `FinalOptionWins`, `PoolsAccountedFor`, `LentUntouched`, `CloseSettled` |
| MCRedisCache | 2 caches with one prefix or one without, 2 names, a foreign key, batches of 2, 2 calls | `ClearCompletes`, `ForeignKept`, `WritesOnce`, `OperationsEnd` |

Why the bounds are enough. Two goroutines are the ones that race; the third of
any race the properties describe would repeat the role of one of the two. Two
tokens per three ticks is the smallest rate that leaves fractions of both kinds,
and five ticks let the bucket empty, refill in part and refill in full. Two
retries of a class and one of the other, with answers of both, reach every
mixture of budgets. Two writes give an entry that is replaced. Two downloads
give older and newer data. Five inputs for two workers
are one more than the workers may hold and buffer ahead of the consumer, and zero
to two cover the batches that are no longer than the pool. In `CacheAside` the
limit of 3 pages separates page 3 from page 4, two payloads are one that is kept
and one that is mixed into it, and three ticks let an entry derived at the end of
its list's life reach the end of its own. Three options are one that is
superseded, one that supersedes it and one that depends on the order. Two calls
of `RedisCache` are a `Clear` and a writer, or two writers, and its two names are
a full batch and a batch that is not full once one of them is gone. For 7-bit durations, as for
64-bit ones, a base can be shifted to a negative, zero or small positive value.

`PlayerBatch`, `RetryWaits`, `Clients` and `RedisCache` (after its calls) end, so
their runs do not check for deadlock.

Disagreements. Each of these runs checks one sentence of the repository and
TLC finds it false of the code:

* `EventCarriesRetryAfter`: `client/throttle.go:123` says that the event carries
  the Retry-After value the server sent, if any; for a retried 403 it carries 0,
  because `throttleWait` reads the header of a 429 only.
* `OnePayload` in MCCacheReuse: `endpoints/leagues.go:77` keeps the cache
  destination separate because a decode error may partially populate it;
  the lookups of `manager.go` and `live.go` do not, so a field that the payload leaves out keeps
  the value of the discarded entry, is returned and is stored.

## 4. Fairness

`RateLimiter`: the mutex is starvation free (`sync.Mutex` hands over after 1 ms),
runnable goroutines run, timers fire, time passes. `ThrottledClient`: goroutines
run and `http.Client` returns once the context is done; neither time nor the
upstream is assumed to move, which is the point of `CancelEndsCall`.
`MemoryCache`: the ticker keeps firing. `Bootstrap`: goroutines run, a request
that does not hang ends, and the gate is strongly fair because the runtime
serves blocked senders in order. `RedisCache`: the deadline of every operation
passes, and a goroutine whose context is done goes on, because go-redis returns
then; neither the server nor the network is assumed to answer. `PlayerBatch`:
fetches end (their context or
the client's timeout bounds them) and a consumer that did not stop reads on.
Nobody is ever assumed to call, to cancel or to expire.

## 5. Proofs

Eight modules prove things about the others, each `XProofs` about `X`;
`ThrottledClientProofs` is also about `RetryWaits`, and `EndpointProofs` about
`PlayerBatch` and `GameWeeks`, two parts of one Go package. Every safety
invariant, every action property and both refinements that the passing runs
check are theorems, for every value of the constants.

**Assumptions.** The constants have the ranges that the code gives them:

| Assumption | What it says, and why the code justifies it |
|---|---|
| `RateLimitAssumption`, `ClientAssumption` | capacity and interval are positive: `WithRateLimit` refuses others |
| `WidthAssumption` | a `Duration` has at least one bit |
| `PoliciesAssumption` | policies are any integers, the defaults allow a natural number of retries: they are constants of `throttle.go` |
| `ResponsesAssumption` | a status is a natural number, a Retry-After that parses is an integer |
| `CacheAssumption`, `CacheAsideAssumption`, `GameWeeksAssumption` | times-to-live are natural numbers; `None` is no item and no entry |
| `LookupsAssumption` | a key names one method with its arguments, and the one list that is searched is that of the fixtures |
| `BatchAssumption` | there is a worker: `batchWorkers` is a positive constant |
| `BootstrapAssumption` | an explicit store is a store; the order of the warming loop is a sequence of sections |
| `RedisAssumption`, `ForeignAssumption` | a batch holds a key; keys of other programs are outside the prefixes in use (a prefix that is not is a hazard of `PROJECT.json` which no property covers) |
| `ClientsAssumption` | the default rate is positive; timeouts are natural numbers, the rates an application asks for any integers |

Bounds of the model (`Horizon`, `MaxWrites`, `MaxDownloads`, `MaxInputs`, `MaxCalls`,
`MaxOptions`, `MaxFetches`) are any natural numbers, so the theorems hold for
behaviours of every length.

The theorems of `CacheAsideProofs` have the hypothesis `OwnDestinations`: no lookup
in use decodes a download into the destination of its cache read. It holds of
`leagues.go`, `players.go` and `fixtures.go`, which are the lookups of the run, and
not of `manager.go` and `live.go`, of which `OnePayload` is false (section 3).

### RateLimiterProofs

* `TypeCorrect`: `Spec => []TypeOK`. The invariant is strengthened by "a full
  bucket holds no fraction": without it, a refill could leave a full bucket with
  credit, and the next one would exceed the capacity.
* `RefinesTokenBucket`: `Spec => ImplementsTokenBucket`. `RefillExact` says that
  a refill moves `tokens * Interval + credit` to exactly the level of the ideal
  bucket; it rests on the division lemma `DivMod` and case analysis on the three
  branches of `refill`. A critical section is then a `Take` or a `FindEmpty`, and
  every other step stutters.
* `RateLimit`: `Spec => []WindowBound`. The bound is not inductive. `Account`
  is: since the window opened, what is in the bucket plus what was taken is at
  most a full bucket plus what was earned up to the last refill, and before the
  first refill in the window nobody was admitted. The inductive invariant `IInv`
  is `TypeOK`, the conjunct above and `Account`.
* `ExactDelay`: `Spec => []DelayExact`. A caller that has just found the bucket
  empty was told a delay after which the ideal bucket holds a token, and one
  nanosecond less would not do: the ceiling in `nextDelay`.

### ThrottledClientProofs

* `SendsAtRate`: `Spec => []SendsWithinRate`. The run has one caller; the rate is a
  matter of many, and this theorem is about any number. Two accounts are
  inductive: each request that was sent or is about to be has a token of its own
  (`Paid`), and what was taken from the bucket together with what is in it was
  there at first or was earned since (`Account`). `CallerStep` sorts the steps of
  a caller into those that take a token, those that hand a request over, and the
  others; the accounts only look at these three.
* `BudgetsKept`, `NoBodyLeaks`, `ObserverTold` (`RetryBudget`, `BodiesClosed`,
  `EventsTellTheCall`) and the action property `WaitKept` (`WaitHonoured`). One invariant,
  `CallsInv`, says for each place of a call what it has done by then (`GoodCall`):
  how many attempts of each class, which body is open, what was announced last and
  until when it waits. The properties say little about the places in
  between, where an attempt is charged and not yet announced, so none of them is
  inductive.
* `WaitsBounded` and `WaitsAsDocumented` (`WaitWithinBounds`, `JitteredAroundDocumented`),
  about `WaitsSpec`: for every width of a duration. That a shift which does not
  overflow is a product with a power of two, and that the capped shift is the documented
  one, needs 2^n to grow with n, of which the provers know nothing. `Subsets` takes
  2^n for the number of subsets of `1..n`, where the library's theorem on `SUBSET`
  gives the recurrence (`PowerDoubles`) and the order (`PowerGrows`).

### BootstrapProofs

* `GateSafe`: `Spec => [](TypeOK /\ GateOwned)`. `TypeInv` adds that a call in
  progress has a section and a store (`Located`) and that the owner of the gate
  warms with the payload of the newest download (`Newest`). `Newest` needs
  `GateOwned`: a second owner could download while the first still warms.
* `DataForward` and `ServesNothingOlder`: `Spec => DataNeverGoesBack` and
  `Spec => []NotOlderThanAtCall`. Both follow from `Fresh`: nothing stored is
  newer than the newest download, and what a running call would find is not
  older than what was there when it was made. `WrittenStep` says what a step does
  to the stores and `EffectStep` what it does to a call (it goes on, starts,
  returns, or is over); `FreshStep` uses these two instead of the actions.
* `SharedDownload`: `Spec => NoRedundantDownload`. The section was absent at the
  caller's second look; that it is still absent when the request goes out holds
  because only the owner of the gate writes a section, which is `GateOwned`.

### MemoryCacheProofs

* `AnswersRight`: `Spec => []AnswersExplained`. A reader holds a copy of an item and no
  lock. `Explained` says what the copy still means: while it has not expired, its
  version was visible during the read; and either the map still holds that very
  item, or the key was seen absent or with two versions since the call (`Changed`). The
  second half is what a lazy `Delete` needs, whose reader reports a miss.
* `FreshKept`: `Spec => FreshSurvives`. Only `Delete` and `Clear` take away an item that has
  not expired; the reader that deletes an expired item compares under the lock again.

### EndpointProofs

* `NeverSendsOnClosed`, `AheadIsBounded`, `LateIsBounded` (`ClosedAfterWorkers`,
  `BoundedAhead`, `BoundedAfterCancel`). `Placed` says that every position pulled is
  in exactly one place: with a worker, in the buffer or with the consumer. While the
  context is active none is lost (`Complete`), so that their number adds up
  (`Counted`). After a cancellation the fetches started and the workers between
  their check and the counter are together at most the workers (`LateBound`).
* `ImplementsContract`: `Spec => DeliversContract`, the refinement of `BatchContract`. The
  consumer's `Receive` and `SeeClose` are its steps. That the end of the channel means that
  nothing is missing follows from `Complete` once the workers are gone and the buffer is empty.
* `RolloverSeen`: `SeasonSpec => []RolloverDetected`. `SeasonInv` says of every entry
  that what it holds was current no longer than a time-to-live before it expires
  (`Recent`); the entry of the next gameweek is derived from a list that may be at its
  end, hence two times-to-live. A call in progress takes no time.

### CacheAsideProofs

* `NoMixedPayloads`, `BoundedAge`, `SeparateStores` (`OnePayload`, `AnswerWithin`,
  `StoresKeptApart`), given `OwnDestinations`. They rest on one invariant: a value is
  `From` a payload of its key and store that was received recently enough, wherever it is
  between the download and an answer (`GoodCall`) or in a store (`Sound`).

### RedisCacheProofs

* `ForeignUntouched`, `SetOnce`, `ClearRemovesAll` (`ForeignKept`, `WritesOnce`,
  `ClearCompletes`). A command outlives its operation, so the invariant follows it: its number
  tells whose it is (`Numbered`), the command of a Set is on the wire or applied and
  never twice (`Once`), and the keys that a Clear without an error has yet to delete
  are still to be scanned or in its batch (`Clearing`).

### ClientsProofs

* `OptionsResolve`: `Spec => []FinalOptionWins`. `Successive` are the fields after each
  option of the list; `Follows` says that they agree with the final option of each kind
  among those applied so far. It is shown for every position by taking the least one
  for which it fails.
* `PoolsKept`, `CloseOnce` and the action property `LentKept` (`PoolsAccountedFor`,
  `CloseSettled`, `LentUntouched`): whose each pool is (`Owning`), how far the release of a
  client has come (`Releasing`, `Running`), that what was borrowed is in use
  (`Borrowing`), and that one goroutine at a time is inside a client's once (`Alone`).

**Only model-checked.** All liveness: `SomebodyAdmitted`, `CancelEndsCall`,
`ExpiredReclaimed`, `WaiterServed`, `CancelledLeavesQueue`, `CancelReleases`,
`ReadingEnds`, `SingleDelivered` and `OperationsEnd`. They depend on fairness, and
fairness on `ENABLED`, which is out of the prover's reach. The induction theorems of
the library take an operator as a parameter, which the provers cannot instantiate;
the two inductions over data above go around them, by the least counterexample and by
counting subsets. The two disagreements of section 3 are counterexamples and have
nothing to prove.

## 6. Plan

Every component whose operations change state is modelled, and every safety property
is proved. What is left:

1. type-correctness theorems of their own for the modules whose `Types` or `Shape` is
   part of an inductive invariant and not yet stated as a result;
2. the refinement between the layers: that the callers of `ThrottledClient` use the
   limiter as `TokenBucket` steps is by construction; that the store which `Bootstrap`
   and `CacheAside` see is implemented by `MemoryCache` and `RedisCache` is argued in
   section 1 and not yet stated as a theorem;
3. safety parts of the liveness properties: that nobody is ever in a place from which
   no step leads on.

Not modelled, and why: `GetTeam` and `GetPlayer` search a list that
`bootstrapSection` returned and keep nothing (`GetFixture`, which caches what it
finds, is modelled), and `GetUpcomingGameWeeks` and `GetNextGameWeekModel` read
without changing anything; the accessors and the formatting of the data models
hold no state; the conformance harness is a test tool that walks decoded values by
reflection in one goroutine and is no part of the library; the examples and the
release script are outside the library; logging, the wording of errors
(`parseAPIErrorDetail`) and `GetTotalPages` are no part of any property; the
options that assign one field nobody else touches (base URL, policy, observer,
cache error handler) are left out of `Clients`; the application's callbacks are
taken to return and to call nothing of the SDK. Entries of `RedisCache` do not
expire by themselves: for the operations that is a `Delete` by somebody else.
