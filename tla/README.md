# A verification project for sdk-core-go

TLA+ models of the concurrent and stateful parts of the Layer 2 SDK: the
resilience interceptors, the token sources, the response cache, hedging,
pagination, deadlines and the polling of long-running operations. TLC checks the
models on small instances; TLAPS proves every safety property and refinement that the
passing runs check, for every configuration. `PROJECT.json` lists components, runs,
mutants, hazards, findings and theorems, and maps every definition to the lines it
models.

Model-check with `tlc -workers 2 -config MCBreaker.cfg MCBreaker` (and so on for
each run), check the proofs with `tlapm BreakerProofs.tla`.

## 1. The system

A client call passes a stack of Connect interceptors, outermost first. The
canonical order (`presets/presets.go`) is OTel, breaker, idempotency, retry,
auth, network; rotation, hedge, timeout and logging are wired by hand. Below
them an `http.RoundTripper` may cache responses. Pagination and ergo sit above
the generated client.

| component | state | operations | interacts with | what makes it correct |
|---|---|---|---|---|
| breaker (`breaker/`) | state, openedAt, ring of results, half-open counters, all behind a mutex | `allow`, `record` | calls of any number of goroutines, in flight between the two | trips on the threshold within the window and only then; bounded probing; recovers |
| retry (`retry/`) | locals of one call | attempt, `nextDelay`, `sleep` | replays one Request through what is inside | bounded attempts, no repetition of unsafe methods, delay law |
| idempotency (`idempotency/`) | a header of the Request | attach a key | read by the server, replayed by retry | one key per call |
| preset (`presets/`) | none of its own | composes the above | | each call is one result for the breaker; calls return |
| token sources (`oauth/`, `auth/`) | cached token, when it was cached, refresh token, mutex | `Token`, `Invalidate`, `SetToken` | IdP or broker; shared by all calls | never re-serve a rejected or expired token; spend a refresh token once |
| rotation and auth (`auth/`) | locals of one call | attach, invalidate and try again | shared token source | at most one more try, with another token |
| memory cache (`caching/memory.go`) | list, map, byte counter, mutex | `Get`, `Set`, `Delete`, `DeleteMatching` | clock | the three agree; budgets; LRU |
| caching transport (`caching/transport.go`) | singleflight group, the store | `RoundTrip`, background refresh, flush on write | server, concurrent readers and writers | bounded staleness, flushed writes, no caller left waiting |
| hedge (`hedge/`, `experimental/hedgev2/`) | counters of one race, results channel | launch, collect, time out | goroutine per attempt | fails only if all fail; no leak; never hedges the unsafe |
| pagination (`pagination/`) | channel, producer goroutine | `Iter`, `IterParallel` | the caller's loop and `fetch` | order, no loss, no leak |
| ergo (`ergo/`) | ceiling and wait of one `Wait`; id, correlation and leg counter of a composed operation; context values | `Wait`, `NewComposedOp`, `Run` | polls through the interceptors; the idempotency interceptor | waits follow their law and end with the context; a leg's key reaches the server |
| timeout (`timeout/`) | none | `apply`, `translateDeadline` | contexts of caller, retry and attempt | never extends a deadline; every call has one |
| clock, errors | none | time, timers, codes, RetryInfo | every other part | folded into the modules that use them |
| otel, logging, compression, pool, mTLS, discovery, PKCE, tools | configuration | observe, build, parse | | not modelled: see section 8 |

What is hard in this code: results that return to a component which has changed
state meanwhile (breaker, rotation, cache); selects that may take either arm
(retry's sleep, the hedge race, the pagination producer); mutexes held across
network calls (token sources); channels whose buffer decides whether goroutines
leak (hedge, pagination); accounting kept by several operations (breaker
counters, cache bytes); deadlines that nest, with timers racing them (timeout, retry,
`Wait`); and answers that are lost after they took effect
(refresh-token rotation). `PROJECT.json` lists each at its line.

## 2. The modules

`MC*` modules extend a module for TLC and give it values.

**`CircuitBreaker`**, **`Breaker`**, **`BreakerProofs`**. `Breaker` has the fields of the Go
struct; `elapsed` is `Now() - openedAt` capped at `OpenDuration`, which is all
the code looks at. `allow` is four actions, one per outcome of its switch;
`record` is one per state it finds. A call is in `inflight` between them, so the
breaker can trip, cool down and turn half-open under it. `Panic` is a call that
unwinds past `record`. `healthy` says whether calls can fail; `trials` and
`leaked` are history. `CircuitBreaker` is what a breaker promises: three states
and a sliding window kept as a sequence. `Breaker` implements it under
`recent <- Recent` (the ring read oldest first while closed, else empty).

**`Retry`**, **`RetryProofs`**. `WrapUnary` of idempotency and of retry. An attempt
ends with any class of code and any hint; delays are the *set* of values the
jitter can produce; `SleepZero`, `TimerFires` and `ContextEndsSleep` are the ways
through `sleep`. Codes are grouped by whether the default configurations of
breaker and retry react to them. Strategy and MinDelay are chosen in the initial
state. The Request ends with the call: reusing one Request for two calls is the
caller's business and not modelled.

**`Deadline`**, **`TimedRetry`**, **`RetryProofs`**. `Deadline` is `apply` and
`translateDeadline` over times on a clock. `TimedRetry` puts the timeout interceptor
outside `Retry`, where it bounds the call, or inside, where it bounds each attempt; `age`
is the clock of a call. The server answers at any time (`AttemptAnswered`) or never, and then only a context ends
the attempt (`AttemptCutOff`). A `context.DeadlineExceeded` comes up typed by connect or
bare, and inside retry it is translated whoever's deadline it was. `doneAt` is when the
call's context ended; `late` counts the attempts that the race in `sleep`'s select lets out
after that, and `slept` those of them that follow a sleep longer than `Lag`.

**`Operation`**, **`ComposedOp`**, **`OperationProofs`**. `Operation` is `Wait`: a poll is a unary call under the timeout
interceptor, which the doc of `Wait` relies on; `NotDone` takes the server's hint or a draw
below the ceiling, `SleepEnds` is `defaultSleep` with its zero wait and its select,
`PollAgain` grows the ceiling. `ComposedOp` adds composed operations: `NewComposedOp` takes
over the parent's correlation id or makes one, `Run` derives the leg's key and puts both
into the context, `SendCall` is the idempotency interceptor, and the leg then waits. A
failed leg may be followed by another `Run`, which takes the next leg number.

In both timed models a context ends at its deadline, and a goroutine that can run does so
up to `Lag` later: `lag` is for how long it could have run and did not. So a timer can fire
while a goroutine whose context is done has not yet looked, in one sleep after the other,
and a poll may answer under a done context. What can be said of a call whose context has
ended is then how much it may still do: each step within `Lag`, and no sleep in between.

**`Standalone`**, **`StandaloneProofs`**. `Retry` inside an instance of `Breaker`,
sharing the set of calls. A call is admitted (`Admit`), runs the loop (`Loop`)
and is recorded (`Return`), or is refused (`Refuse`) and handed back (`Surface`).

**`TokenSource`**, **`Rotation`**, **`RotationProofs`**. The four sources differ in `expired`, in what they do
without a usable token and in the refresh token; otherwise they are one state
machine whose mutex `mu` is held from `StartExchange` to `AnswerArrives` or
`ExchangeFails`. The IdP (external) issues tokens with or without a lifetime,
may replace the refresh token, may revoke, and its answer may be lost. `causes` counts
the reasons there have been to fetch a token, whoever acts on them. `Rotation`
is the two interceptors: attach, call, and after `CodeUnauthenticated` one
`Invalidate` and one more try. An authorization-code source is built up to `MaxHandover`
after the Exchange whose token it starts with, and counts that token's lifetime from
when it was built; answers of the IdP are under way for up to `MaxTransit`. Any error of a source is `CodeUnauthenticated`
(`attach`), so a failed exchange takes the same path as a rejection.

**`MemoryCache`**, **`CachingTransport`**, **`CacheProofs`**. The store is one record (order, items, bytes);
each method is a function of it and an action. The loop of `evictToBudget` is one
expression: of the stores that n turns of the loop would leave (`evictOldest`), the first
that is within budget. `MCMemoryCache` has the loop as the code writes it, a turn at a
time, and assumptions under which TLC compares the two on every list of four keys, with a
byte counter that is right and with one that is too low (`EvictionIsTheLoop`), and the bytes
held with the sum of the sizes (`BytesAreTheSum`). The transport adds callers, one
singleflight call per key (external, as used), refreshes that have not reached
it yet, and a server with a version per key, which is also body and ETag. A flight knows
whether a request or a background refresh leads it (`by`), because only the first has a
context that ends (`bounded`); whoever joins waits without looking at its own. The
history variables say when a version was superseded and which fetches carried
old data during a flush.

**`Hedge`**, **`HedgeProofs`**. One call in either version; `fate` fixes what the backend does with each
attempt (answer, fail, hang until cancelled). The race is `ResultArrives`,
`TimerFires`, `ContextEnds`, `Exhausted`; an attempt is `AttemptEnds` and `Send`.

**`PageWalk`**, **`Pagination`**, **`PaginationProofs`**. `PageWalk` is what a loop may see: items in order, an
error only after the pages before it, a stop at a page boundary. `Pagination` is
the producer, the channel and the consumer, and `Iter` as lookahead 0.

## 3. The runs

| run | question | result |
|---|---|---|
| `breaker` | Do ring, counters and states implement the abstract breaker with four callers, stragglers and panics? | `TypeOK`, `HalfOpenBookkeeping`, `ClosedBelowThreshold`, `BudgetNotLost`, `ImplementsCircuitBreaker`, `Recovers` hold |
| `breaker_trials` | Are trials bounded by `HalfOpenTrials`? | No: finding 1 |
| `timed_retry` | Attempts, keys and delays of every history of four attempts, with the timeout outside or inside, and a server that may hang | `RetryTypeOK`, `OneKeyPerCall`, `UnsafeSentOnce`, `BackoffLaw`, `CallStopsWithContext`, `HungCallsEnd` hold |
| `standalone` | Does the preset use the breaker properly, and do calls return? | `OneRecordPerCall`, `ImplementsBreaker`, `CallsReturn` hold |
| `rotation` | Four sources, two callers, expiry, revocation, failed and lost exchanges | `TypeOK`, `SecondTryUsesNewToken`, `NoRefreshReplay`, `FetchesHaveCause`, `ForwardsNoOlderToken`, `LateByTransitOnly`, `CallsEnd` hold |
| `memory_cache` | Every sequence of operations | `InTandem`, `WithinBudget`, `EvictsOldestOnly` hold |
| `caching` | Reads, refreshes and writes race | `StaleAtMost`, `FlushedUnlessInFlight`, `CallsReturn` hold |
| `hedge` | Both races, all fates of three attempts | `TypeOK`, `FailsOnlyIfAllFail`, `UnsafeNotHedged`, `AttemptsEnd`, `OneGoodAttemptIsEnough` hold |
| `pagination` | Lookahead 0, 1 and 2, errors, breaks, cancellation | `PrefetchBounded`, `ImplementsPageWalk`, `ProducerExits`, `WalkEnds` hold |
| `pagination_truncation` | Can a walk end early without an error? | Yes: finding 4 |
| `operation` | Waits of the legs of a composed operation, with hints, cancellation, deadlines and a server that may hang | `WaitLaw`, `WaitStopsWithContext`, `WaitEnds` hold |
| `leg_key` | Does a leg's call carry the key that `Run` derived for it? | No: finding 5 |

Each property of a passing run has a mutant in `PROJECT.json`: a plausible bug in
a mapped definition (the operators named `X_Something` next to `X`) under which
TLC finds that property violated.

### Findings

1. *Half-open trials.* `record` gives back a slot for every result that arrives
   while half-open, also for calls admitted before the trip; more trials than
   configured can then be out ("one trial at a time during half-open").
   `BudgetNotLost` is the direction that does hold: slots are never lost.
2. *RetryInfo of a refusal.* The preset puts the breaker outside retry, so retry
   never sees the refusal that ADR 0002 says it waits for. `OneRecordPerCall` holds and
   says so: retry never works on a refused call.
3. *Passthrough token.* One token for all inbound requests: concurrent requests
   can go out with each other's token. What holds is `ForwardsNoOlderToken`: the token
   is the call's own or that of a later request.
4. *Truncation.* A cancelled `IterParallel` may end as if the data were complete,
   where `Iter` yields the context's error.
5. *Leg keys.* `ergo.WithIdempotencyKey` promises that the idempotency interceptor reads
   the key from the context; it reads the header only and attaches a key of its own.

Noticed in reading and not turned into runs: no error of the breaker wraps
`ErrShortCircuited` (`breaker/breaker.go:275`); "up to lookahead pages ahead" is
lookahead in the channel plus one in hand (`PrefetchBounded` states the real
bound); `auth.WaitToken` cannot give up while another caller's exchange holds the
mutex (`auth/auth.go:209`); `timeout.translateDeadline` also translates a deadline
of the caller's, where its comment speaks of "a deadline this interceptor imposed"
(`timeout/timeout.go:117`); "MaxDelay caps the backoff ceiling" of an operation, except
for the first ceiling, which is `InitialDelay` as it stands (`ergo/operation.go:96`;
`WaitLaw` states the real bound); an `AuthorizationCodeSource` "caches the access token until
expiry (minus the skewWindow)" (`oauth/authcode_source.go:17`), but stamps its first token
with the time it was built (`:51`), so that one built late serves a token that has expired
(`LateByTransitOnly` states by how much); a background refresh has no deadline
(`caching/transport.go:162`), neither has the transport below it by default
(`transport/pool/pool.go:33`), and a follower in `sf.Do` cannot leave with its own context:
if a refresh hangs, so does every miss of its key (`CallsReturn` states that nothing else
does this); `auth/rotation.go:38` counts rotation
among the preset's interceptors, which it is not.

## 4. Bounds

- `breaker`: window 4 with threshold 3, so that the ring wraps both full and after a
  close; three successes and two trials, so that trials overlap; four callers, so
  that a straggler, two trials and a refused call coexist. Time needs no bound.
- `timed_retry`: four attempts let the ceiling reach the cap (1, 2, 3); hints of none and
  above it; minimum delay on and off; callers without a deadline, with one before and
  with one after `Default`. `Lag` 1, so that a timer of 1 can fire before its goroutine has
  looked at a context that is done, and timers of 2 and more cannot twice. One call: calls
  share nothing. `MaxAge` 30 is never reached.
- `operation`: first delay below and above the cap, hints above it and above the nearer
  deadline, `Lag` 1, four polls, two legs. `MaxAge` 35 is never reached; `MaxPolls` is where the
  operation is done at the latest. `CHECK_DEADLOCK FALSE`: a caller that has dropped its
  last composed operation has nothing left to do.
- `standalone`: two calls, two attempts, window 2: enough for a trip by one call
  while the other sleeps, and for reopening.
- `rotation`: lifetimes absent and equal to the skew window, answers as late as the skew
  window and a source built later than that, so that its first token has expired;
  two callers with two calls in all, five tokens, one
  revocation, two clock ticks. `MaxCalls`, `MaxTokens`, `MaxRevocations` and `MaxTime`
  only end the run. `CHECK_DEADLOCK FALSE`: with the bounds used up nothing is left
  to do.
- `memory_cache`: four keys, capacity 3 and budget 4 against entries of size 1, 3 and
  5: both limits bind, alone and together, one `Set` evicts several, and an entry over the
  budget by itself stays alone.
- `caching`: one key (keys share only the LRU budget, which `memory_cache` covers),
  three versions, four calls, four ticks with TTL, SWR, NegativeTTL and fetch time
  of one. `MaxFetch` is how long a fetch that ends is out; the clock stands for one that
  hangs, and nothing that `CallsReturn` is about waits for the clock. `CHECK_DEADLOCK FALSE` for the same reason as above.
- `hedge`: three attempts, the default; every combination of fates.
- `pagination`: up to four pages of up to two items, more than lookahead plus one.

No symmetry reduction is used: most runs check liveness, and the others are small.

## 5. Fairness

- `Breaker`: `WF` on time, on each caller's next call and on each call's return.
  Callers keep coming, and a call ends because transports and contexts have
  deadlines. `Recovers` assumes that the backend stays up and no panic leaks a slot.
- `Standalone`: `WF` on the loop (attempts end, timers fire) and on returning. No new
  call is assumed.
- `TimedRetry`, `ComposedOp`: `WF` on the clock and on the steps of the SDK's own goroutine. The
  server owes nothing: `HungCallsEnd` and `WaitEnds` hold by deadlines alone.
- `Rotation`: `SF` on each caller's steps, because the mutex is contended:
  `sync.Mutex` in starvation mode hands itself to a waiter, so a goroutine that can
  get it again and again gets it. Exchanges end with an answer or an error.
- `CachingTransport`: `WF` on callers and on a fetch that a request leads, which ends
  with the request's context: the timeout interceptor gives every call a deadline. Nothing
  is asked of a background refresh: it need never run, and once it leads a fetch that fetch
  may hang.
- `Hedge`: `WF` on the race and on attempts. The backend is not assumed to answer: a
  hanging attempt ends only when its context does.
- `Pagination`: `WF` on producer and consumer; `fetch` and the loop body return.

## 6. Proofs

Every proof follows one pattern: an inductive invariant, which TLC checked on the
run's instance before it was proved; a lemma that the initial states have it; one
lemma or step per action that keeps it; and theorems that read the properties off.
The assumptions on constants are those named in the modules:

- `ConfigAssumption`, `RetryAssumption`: what `New` and `Interceptor` clamp their
  configurations to.
- `TimedRetryAssumption`, `OperationAssumption`: deadlines lie in the future, durations
  and `Lag` are natural numbers, and an error need not carry a RetryInfo (`0 \in Hints`).
- `TokenAssumption`: types. `MaxHandover` and `MaxTransit`, any numbers, bound how late a
  source is built (`SourceInit`) and an answer is (`Tick`); `ExpiredByTransitOnly` is about them.
- `StoreAssumption`: the limits are positive, as `NewMemoryCacheWithLimits` makes them,
  lifetimes and sizes are natural numbers. `TransportAssumption`: types. That a fetch takes
  at most `MaxFetch` is a guard of `TimePasses`; `StalenessIsBounded` is about that number.
- `HedgeAssumption`, `PaginationAssumption`, `CallersAssumption`: types.

Two theorems have a hypothesis besides, `PowerLaw`: the two equations by which the
standard module Naturals defines `Multiplier^n`. The provers treat `^` as unknown, so
the theorems that speak of a power say what they use of it.

The names `MaxTime`, `MaxCalls` and so on are bounds for TLC that a proof takes
as arbitrary numbers.

**`BreakerProofs`**, for every set of callers, window, thresholds, trials and
cooldown. The invariant `IInv` is `TypeOK`, `HalfOpenBookkeeping`,
`ClosedBelowThreshold` and `CounterBelowTrials` (unless a call panicked, the counter
is at most the number of trials out). `BudgetNotLost` is not inductive alone: a
straggler's success lowers the counter without a trial ending, and only the
one-sided comparison survives it. From it: `TypeCorrect`, `BookkeepingCorrect`,
`ClosedMeansBelowThreshold`, `BudgetIsNeverLost`. `BreakerRefinement` proves that the
ring implements the sliding window: `CountAgrees` equates the failures counted in
the ring with those of the sequence, `PartialRing` and `FullRing` read the ring
before and after it wraps, `RingSlides` shows that one more result slides the
sequence; `InitRefines` and `NextRefines` conclude, one step per action.

**`RetryProofs`**. `RInv` adds to `RetryTypeOK`, `OneKeyPerCall` and `UnsafeSentOnce` that
a call sleeps only if its method may be repeated and an attempt is left, which
is what keeps the counter in range after the sleep. Theorems `RetryTypeCorrect`,
`KeyIsReplayed`, `UnsafeIsSentOnce`. `DelaysFollowTheLaw` is about the delays: the law
gives the ceiling of attempt n as a power, capped once, while the code multiplies and
caps a local every time round. `CeilingLaw` says they are the same number, and
`CappedProduct` is why (capping at every step is capping once).

Its second part is about `TimedRetry`. `TimedRetryRefinement`: whatever the timeout interceptor does, the
loop inside takes steps of `Retry`, so everything above holds under deadlines too.
`CallsStopWithTheirContext` needs that the call's context has the deadline `apply` chose for
it (`DeadlineKept`) and three facts about a call under way (`Stopping`): its context ends in time
(`ContextInTime`); once it has, the clock has gone on by `Lag` for each step taken since
and by `lag` for the one to come, and by nothing else, which is false as soon as any sleep
outlasts the context (`NeverWaits`); and the timer of a sleep begun after an attempt that
was already late fires no sooner than its delay after the goroutine could go on, so that it
wins only if the delay is at most `Lag` (`LateSleepsAreShort`).

**`StandaloneProofs`**. `SInv` is the types of the loop, `OneRecordPerCall` and the constant
environment. `RecordedOnce`; `StandaloneRefinement`: every step of the stack is a step of
`Breaker` or leaves it alone, so the breaker's theorems carry over; and
`StandaloneRetries`: the same of `Retry`.

**`OperationProofs`**, within the legs of composed operations. `WaitsStopWithTheirContext`
by the same argument as above for one context. `WaitsFollowTheLaw`: the local
ceiling is within `InitialDelay * Multiplier^(n-1)` after poll n and, once it has grown,
within `MaxDelay` (`CeilingLaw`); the first is not capped, which is why the law
speaks of the second wait on.

**`RotationProofs`**, for any number of callers sharing any of the four sources. The
mutex law (`MutexLaw`) orders everything: while an answer is under way its token is the
newest there is, newer than the cache and than every token any caller holds or was
rejected with (`FreshLaw`). `SecondTryUsesNewToken` is not inductive: what carries it across
the steps of others is that after a rejection the cache is empty or newer than the
rejected token until the second try has read it (`RetryLaw`). `RefreshLaw` allows the
held refresh token to differ from the IdP's only while the answer is under way or after
it was lost; `CauseLaw` keeps one unused cause in hand while the cache is empty and no
answer is under way; `SkewLaw` bounds the age of a token when it was cached, by `MaxHandover`
for the first of an authorization code and by `MaxTransit` for the others. Theorems
`TypeCorrect`, `RotationUsesNewToken`, `NoReplayWithoutLoss`, `FetchesAreCaused`,
`NoOlderTokenForwarded`, and the action property `ExpiredByTransitOnly`.

**`HedgeProofs`**, for any number of attempts, any fates and both versions. Attempts
are counted as sets: `completed` plus what is in the channel is the number of attempts
that have sent (`CountLaw`), and while the race is on each of them reported an error or
is still in the channel (`ReplyLaw`). If `completed` reaches `MaxAttempts` all attempts
are done and the channel is empty, hence `FailureMeansAllFailed`. From the same count
`SendNeverBlocks`: whoever has a result finds room in the channel, also after the call
has returned, which is the safety half of `AttemptsEnd`. Besides, `TypeCorrect` and
`UnsafeNeverHedged`.

**`PaginationProofs`**, for every lookahead, every sequence of pages and cancellation at any
point. `TokenLaw` relates the producer's token to the loop's page and the channel;
`ChanLaw` and `HandLaw` say that the pages under way are the next ones, in order, and that
an error is the last; `CloseLaw` says what a closed channel means; `WalkLaw` says which
items the loop has seen. `PrefetchIsBounded` follows from the first,
and `IteratorsAreWalks`, the refinement of `PageWalk`, from all of them, one step per action.

**`CacheProofs`**, for every set of keys, prefixes, policies and callers, and every limit.
The store's invariant `Sound` is `InTandem` with types; it needs no induction over data because
the operators have none: `without` places each element by its rank (`Ranks`,
`WithoutLaw`), and `bytesOf` counts the bytes as the members of a set, so that what is
evicted and what is left are disjoint sets (`BytesAdd`, `BytesLeft`). `EvictLaw` shows that
the clamp at zero never acts on a sound store, which is why it hides nothing; `InsertLaw`
is the two branches of `Set`, `OldestLaw` and `BudgetLaw` say that the loop ends, where, and with
what. Theorems `ListMapAndBytesAgree`, `BudgetHolds`, and the action property
`OldestGoFirst`.

The transport's invariant `TrInv` adds four laws. `VersionLaw`: the server's current version is
not superseded, and nothing is acknowledged that was not written. `ArgLaw`: a write that
will be acknowledged made a version the server has. `FlightLaw`: a fetch is no older than
`MaxFetch`, and its answer carries data that was current at some time since it began, and
data older than an acknowledged write only if it was under way at the flush (`Answered`).
`HeldLaw` says the same of every entry, with the time it was stored: neither `StaleAtMost`
nor `FlushedUnlessInFlight` is inductive, because what lands in the store comes from a
fetch. A 304 is where the two meet: it renews the entry the request carried, whose data is
no older than a 200 would have brought. Theorems `StalenessIsBounded`, `WritesFlush` and
`TransportKeepsStore`; and `NobodyStranded`, the safety half of `CallsReturn`: whoever waits
for a fetch has one to wait for.

Only model-checked: liveness (`Recovers`, `HungCallsEnd`, `CallsReturn`, `CallsEnd`,
`AttemptsEnd`, `OneGoodAttemptIsEnough`, `ProducerExits`, `WalkEnds`, `WaitEnds`), because
fairness is out of the prover's reach; and the two comparisons of `MCMemoryCache`, which
are about a RECURSIVE operator and a fold.

## 7. Plan

1. *Modelled and checked:* breaker, retry with idempotency, their composition; deadlines
   with retry; token sources and rotation; cache and transport; hedging; pagination;
   operations and composed operations.
2. *Proved:* the safety properties and refinements of all of these.
3. *Could still be proved:* safety halves of more liveness properties, as `SendNeverBlocks`
   and `NobodyStranded` are: that a closed `done` channel always finds the producer at a
   select or on its way to one.
4. *Could still be modelled:* the timeout interceptor's streams; rotation
   inside retry.

## 8. What is not modelled

Observability (otel, logging), codecs (compression), connection and TLS set-up
(pool, mTLS, PKCS#12), OIDC discovery, PKCE, client authentication, typed errors
and the CI tools hold no state that evolves and coordinate nothing. Streaming
RPCs pass through retry, breaker, hedge, rotation and idempotency unchanged; the
timeout interceptor gives a stream one deadline when it opens, which is not modelled. Nor are
`auth.WaitToken`, a wait around one `Token` call, and the deprecated
`cachingOAuth2Source`, which behaves as the client-credentials source.
`presets.Mesh` is the stack without breaker and retry. Header maps are not
modelled, so the data race on them that the first hedge version can have
(ADR 0013) is outside; nor are hashing, scoping and parsing of keys, and 64-bit
overflow of durations.
