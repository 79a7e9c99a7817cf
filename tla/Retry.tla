------------------------------- MODULE Retry -------------------------------
(* The retry interceptor (retry/retry.go) and the idempotency interceptor    *)
(* just outside it (idempotency/idempotency.go), for concurrent unary calls. *)
(* What lies inside, auth and the network, is the outcome an attempt ends    *)
(* with.  Durations are counted in units of the smallest backoff that        *)
(* matters, and the jitter source is a choice over what it can return.       *)
EXTENDS Integers, FiniteSets

CONSTANTS
    Calls,               \* the goroutines that make calls, one at a time each
    MaxAttempts,         \* retry.Config, after Interceptor has clamped it
    Initial,
    MaxBackoff,
    MinDelays,           \* the values of Config.MinDelay considered
    Multiplier,
    DecorrelationFactor,
    AllowNonIdempotent,
    Hints,               \* RetryInfo delays a server may send, 0 for none
    Methods,             \* the methods called
    AttachedKeys         \* the keys a caller's Request may come with

\* Interceptor clamps its Config to these ranges.
ASSUME RetryAssumption ==
    /\ MaxAttempts \in Nat /\ MaxAttempts >= 2
    /\ Initial \in Nat \ {0}
    /\ MaxBackoff \in Nat /\ MaxBackoff >= Initial
    /\ MinDelays \subseteq Nat
    /\ Multiplier \in Nat \ {0}
    /\ DecorrelationFactor \in Nat \ {0}
    /\ AllowNonIdempotent \in BOOLEAN
    /\ Hints \subseteq Nat
    /\ Methods \subseteq {"query", "put", "create"}
    /\ AttachedKeys \subseteq {0, 1}

VARIABLES
    strategy,   \* Config.Strategy, "full" or "decorrelated"
    minDelay,   \* Config.MinDelay
    phase,      \* where each call is
    attempt,    \* the loop counter
    ceiling,    \* locals of WrapUnary
    prev,
    delay,      \* what nextDelay returned, while in sleep
    result,     \* the code of the last attempt, "ok" while one is out
    hint,       \* the RetryInfo of the last attempt
    ctxDone,    \* the caller's context was cancelled or its deadline passed
    method,     \* the method called
    key,        \* the Idempotency-Key header of the Request object
    sent        \* history: the keys this call's attempts carried

config == <<strategy, minDelay>>
locals == <<ceiling, prev, delay, hint>>
request == <<method, key>>
retryVars == <<config, phase, attempt, locals, result, ctxDone, request, sent>>

Phases == {"idle", "attempt", "backoff", "returning"}
Codes == {"ok", "unavailable", "internal", "aborted", "other"}
RetryableCodes == {"unavailable", "aborted"}

\* Keys are told apart within a call only: 0 for none, 1 for the one the caller
\* attached, the others as KeyFn returns them for this call.
NoKey == 0
KeyFn(n) == n + 1

\* A method is declared idempotent by its schema or not (IdempotencyUnknown),
\* and its name looks read-only (defaultIsSafe) or not.
IdempotencyUnknown == {"create"}
IsSafe(m) == m = "query"

MinOf(a, b) == IF a <= b THEN a ELSE b

RetryInit ==
    /\ strategy \in {"full", "decorrelated"}
    /\ minDelay \in MinDelays
    /\ phase = [c \in Calls |-> "idle"]
    /\ attempt = [c \in Calls |-> 0]
    /\ ceiling = [c \in Calls |-> Initial]
    /\ prev = [c \in Calls |-> Initial]
    /\ delay = [c \in Calls |-> 0]
    /\ result = [c \in Calls |-> "ok"]
    /\ hint = [c \in Calls |-> 0]
    /\ ctxDone = [c \in Calls |-> FALSE]
    /\ method = [c \in Calls |-> "query"]
    /\ key = [c \in Calls |-> NoKey]
    /\ sent = [c \in Calls |-> {}]

-----------------------------------------------------------------------------
(* Delays: the set of values each function can return over its jitter.        *)

shouldRetry(code) == code \in RetryableCodes

\* JitterSource is in [0, 1) and the product is truncated.
fullDelay(ceil) ==
    LET upper == MinOf(ceil, MaxBackoff)
    IN  IF minDelay > 0
        THEN IF upper <= minDelay THEN {minDelay} ELSE minDelay..upper - 1
        ELSE 0..upper - 1

decorrelatedDelay(p) ==
    LET upper == MinOf(p * DecorrelationFactor, MaxBackoff)
    IN  IF upper <= Initial THEN {Initial} ELSE Initial..upper - 1

nextDelay_HintUncapped(h, ceil, p) ==
    IF h > 0 THEN {h}
    ELSE IF strategy = "decorrelated" THEN decorrelatedDelay(p)
    ELSE fullDelay(ceil)

nextDelay(h, ceil, p) ==
    IF h > 0 THEN {MinOf(h, MaxBackoff)}
    ELSE IF strategy = "decorrelated" THEN decorrelatedDelay(p)
    ELSE fullDelay(ceil)

grow(ceil) == MinOf(ceil * Multiplier, MaxBackoff)

-----------------------------------------------------------------------------
(* The steps of a call.                                                       *)

\* The idempotency interceptor: a read-only method and a Request that already
\* carries a key go through; any other Request gets a new key.
KeyHeader(m, old) == IF IsSafe(m) \/ old # NoKey THEN old ELSE KeyFn(1)

\* A call enters the interceptors, with a key of its caller's or without.
Begin(c) ==
    /\ phase[c] = "idle"
    /\ \E m \in Methods, old \in AttachedKeys :
         /\ method' = [method EXCEPT ![c] = m]
         /\ key' = [key EXCEPT ![c] = KeyHeader(m, old)]
         /\ sent' = [sent EXCEPT ![c] = {KeyHeader(m, old)}]
    /\ phase' = [phase EXCEPT ![c] = "attempt"]
    /\ attempt' = [attempt EXCEPT ![c] = 1]
    /\ UNCHANGED <<config, locals, result, ctxDone>>

\* The gate: the schema does not declare the method safe to repeat.
retriesAllowed_NoGate(c) == TRUE

retriesAllowed(c) == AllowNonIdempotent \/ method[c] \notin IdempotencyUnknown

lastAttempt_OffByOne(c) == attempt[c] > MaxAttempts

lastAttempt(c) == attempt[c] = MaxAttempts

\* next returned code, with a RetryInfo of h if h > 0.
AttemptEnds(c, code, h) ==
    /\ phase[c] = "attempt"
    /\ code = "ok" => h = 0
    /\ result' = [result EXCEPT ![c] = code]
    /\ IF retriesAllowed(c) /\ shouldRetry(code) /\ ~lastAttempt(c)
       THEN /\ phase' = [phase EXCEPT ![c] = "backoff"]
            /\ hint' = [hint EXCEPT ![c] = h]
            /\ \E d \in nextDelay(h, ceiling[c], prev[c]) :
                  delay' = [delay EXCEPT ![c] = d]
       ELSE /\ phase' = [phase EXCEPT ![c] = "returning"]
            /\ UNCHANGED <<hint, delay>>
    /\ UNCHANGED <<config, attempt, ceiling, prev, ctxDone, request, sent>>

NextAttempt_NewKey(c) ==
    /\ phase' = [phase EXCEPT ![c] = "attempt"]
    /\ attempt' = [attempt EXCEPT ![c] = attempt[c] + 1]
    /\ prev' = [prev EXCEPT ![c] = delay[c]]
    /\ ceiling' = [ceiling EXCEPT ![c] = grow(ceiling[c])]
    /\ result' = [result EXCEPT ![c] = "ok"]
    /\ delay' = [delay EXCEPT ![c] = 0]
    /\ hint' = [hint EXCEPT ![c] = 0]
    /\ key' = [key EXCEPT ![c] = IF IsSafe(method[c]) THEN @ ELSE KeyFn(@ + 1)]
    /\ sent' = [sent EXCEPT ![c] = @ \cup {key'[c]}]
    /\ UNCHANGED <<config, ctxDone, method>>

\* sleep returned true: the same Request is sent again, after a longer ceiling.
NextAttempt(c) ==
    /\ phase' = [phase EXCEPT ![c] = "attempt"]
    /\ attempt' = [attempt EXCEPT ![c] = attempt[c] + 1]
    /\ prev' = [prev EXCEPT ![c] = delay[c]]
    /\ ceiling' = [ceiling EXCEPT ![c] = grow(ceiling[c])]
    /\ result' = [result EXCEPT ![c] = "ok"]
    /\ delay' = [delay EXCEPT ![c] = 0]
    /\ hint' = [hint EXCEPT ![c] = 0]
    /\ sent' = [sent EXCEPT ![c] = @ \cup {key[c]}]
    /\ UNCHANGED <<config, ctxDone, request>>

\* sleep returned false: the last error is the call's.
GiveUp(c) ==
    /\ phase' = [phase EXCEPT ![c] = "returning"]
    /\ delay' = [delay EXCEPT ![c] = 0]
    /\ hint' = [hint EXCEPT ![c] = 0]
    /\ UNCHANGED <<config, attempt, ceiling, prev, result, ctxDone, request, sent>>

\* What sleep sees of the context: ctx.Err() and the ctx.Done() arm.
sleepCancelled_Ignored(c) == FALSE

sleepCancelled(c) == ctxDone[c]

\* sleep with nothing to wait for only looks at the context.
SleepZero(c) ==
    /\ phase[c] = "backoff"
    /\ delay[c] = 0
    /\ IF sleepCancelled(c) THEN GiveUp(c) ELSE NextAttempt(c)

\* The two arms of sleep's select.  When the context is done and the timer has
\* fired, either may be chosen.
TimerFires(c) ==
    /\ phase[c] = "backoff"
    /\ delay[c] > 0
    /\ NextAttempt(c)

ContextEndsSleep(c) ==
    /\ phase[c] = "backoff"
    /\ delay[c] > 0
    /\ sleepCancelled(c)
    /\ GiveUp(c)

\* The caller cancels, or its deadline passes.
CancelContext(c) ==
    /\ phase[c] \in {"attempt", "backoff"}
    /\ ~ctxDone[c]
    /\ ctxDone' = [ctxDone EXCEPT ![c] = TRUE]
    /\ UNCHANGED <<config, phase, attempt, locals, result, request, sent>>

\* WrapUnary returns: its locals and the Request are gone.
Finish(c) ==
    /\ phase[c] = "returning"
    /\ phase' = [phase EXCEPT ![c] = "idle"]
    /\ attempt' = [attempt EXCEPT ![c] = 0]
    /\ ceiling' = [ceiling EXCEPT ![c] = Initial]
    /\ prev' = [prev EXCEPT ![c] = Initial]
    /\ ctxDone' = [ctxDone EXCEPT ![c] = FALSE]
    /\ result' = [result EXCEPT ![c] = "ok"]
    /\ sent' = [sent EXCEPT ![c] = {}]
    /\ method' = [method EXCEPT ![c] = "query"]
    /\ key' = [key EXCEPT ![c] = NoKey]
    /\ UNCHANGED <<config, delay, hint>>

\* The steps between Begin and Finish.
LoopStep(c) ==
    \/ \E code \in Codes, h \in Hints : AttemptEnds(c, code, h)
    \/ SleepZero(c)
    \/ TimerFires(c)
    \/ ContextEndsSleep(c)

RetryNext == \E c \in Calls : Begin(c) \/ LoopStep(c) \/ CancelContext(c) \/ Finish(c)

RetrySpec == RetryInit /\ [][RetryNext]_retryVars

-----------------------------------------------------------------------------
(* Properties                                                                 *)

\* The state of every call keeps its type, and the loop counter its range.
RetryTypeOK ==
    /\ strategy \in {"full", "decorrelated"}
    /\ minDelay \in MinDelays
    /\ phase \in [Calls -> Phases]
    /\ attempt \in [Calls -> 0..MaxAttempts]
    /\ ceiling \in [Calls -> Nat]
    /\ prev \in [Calls -> Nat]
    /\ delay \in [Calls -> Nat]
    /\ result \in [Calls -> Codes]
    /\ hint \in [Calls -> Nat]
    /\ ctxDone \in [Calls -> BOOLEAN]
    /\ method \in [Calls -> Methods \cup {"query"}]
    /\ key \in [Calls -> Int]
    /\ sent \in [Calls -> SUBSET Int]

\* "The same header is replayed on every retry attempt": all attempts of a call
\* carry one key, and no attempt of a mutating method goes out without one.
OneKeyPerCall ==
    \A c \in Calls : phase[c] # "idle" =>
        /\ sent[c] = {key[c]}
        /\ ~IsSafe(method[c]) => key[c] # NoKey

\* A method the schema does not declare idempotent is attempted once, unless
\* the caller opted out of the gate.
UnsafeSentOnce ==
    \A c \in Calls :
        (method[c] \in IdempotencyUnknown /\ ~AllowNonIdempotent) => attempt[c] <= 1

\* The documented law of the delays, told by the attempt number alone: a
\* RetryInfo wins but is capped by MaxBackoff; full jitter on attempt n stays
\* below min(MaxBackoff, Initial * Multiplier^(n-1)) or sits at MinDelay;
\* decorrelated jitter never goes below Initial nor above MaxBackoff.
BackoffLaw ==
    \A c \in Calls : phase[c] = "backoff" =>
        LET bound == MinOf(MaxBackoff, Initial * Multiplier^(attempt[c] - 1))
        IN  /\ hint[c] > 0 => delay[c] = MinOf(hint[c], MaxBackoff)
            /\ (hint[c] = 0 /\ strategy = "full") =>
                 delay[c] >= minDelay /\ (delay[c] < bound \/ delay[c] = minDelay)
            /\ (hint[c] = 0 /\ strategy = "decorrelated") =>
                 delay[c] \in Initial..MaxBackoff
=============================================================================
