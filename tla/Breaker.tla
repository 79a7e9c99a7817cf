------------------------------ MODULE Breaker ------------------------------
(* The circuit breaker of breaker/breaker.go together with the goroutines    *)
(* that call through its unary interceptor.  The mutex makes allow() and     *)
(* record() atomic; between the two a call is in flight for as long as the   *)
(* rest of the chain takes, so the breaker may change state under it.        *)
EXTENDS Integers, Sequences, FiniteSets

CONSTANTS
    Calls,             \* the concurrent callers of the interceptor
    WindowSize,        \* Config, after New has clamped it
    FailureThreshold,
    SuccessThreshold,
    HalfOpenTrials,
    OpenDuration       \* in ticks of the clock

\* New replaces every value below 1 by a positive default.
ASSUME ConfigAssumption ==
    /\ WindowSize \in Nat \ {0}
    /\ FailureThreshold \in Nat \ {0}
    /\ SuccessThreshold \in Nat \ {0}
    /\ HalfOpenTrials \in Nat \ {0}
    /\ OpenDuration \in Nat \ {0}

VARIABLES
    state,                 \* "closed", "open", "half-open"
    elapsed,               \* Clock.Now() - openedAt, capped at OpenDuration
    window,                \* ring buffer, TRUE for a call that did not fail
    windowIdx,
    windowFilled,
    consecutiveSuccesses,
    halfOpenInFlight,
    inflight,              \* calls between allow() and record()
    healthy,               \* the environment: whether calls can fail
    trials,                \* history: calls admitted by this half-open episode
    leaked                 \* history: a call of this episode unwound without
                           \* reaching record()

ring == <<window, windowIdx, windowFilled>>
counters == <<consecutiveSuccesses, halfOpenInFlight>>
vars == <<state, elapsed, ring, counters, inflight, healthy, trials, leaked>>

States == {"closed", "open", "half-open"}

\* How a call can end: "ok", or an error whose code is "unavailable" (with
\* resource exhausted and deadline exceeded: a failure, and retryable),
\* "internal" (a failure), "aborted" (retryable) or "other" (neither: the caller
\* cancelled, not found, unauthenticated, ...).
Outcomes == {"ok", "unavailable", "internal", "aborted", "other"}

\* DefaultConfig's list, by the classes above.
FailureCodes == {"unavailable", "internal"}

isFailure(outcome) == outcome \in FailureCodes

Init ==
    /\ state = "closed"
    /\ elapsed = 0
    /\ window = [i \in 0..WindowSize - 1 |-> FALSE]
    /\ windowIdx = 0
    /\ windowFilled = FALSE
    /\ consecutiveSuccesses = 0
    /\ halfOpenInFlight = 0
    /\ inflight = {}
    /\ healthy \in BOOLEAN
    /\ trials = {}
    /\ leaked = FALSE

-----------------------------------------------------------------------------
(* Helpers that run with the mutex held.                                      *)

failureCount_WholeWindow(w, idx, filled) ==
    Cardinality({i \in 0..WindowSize - 1 : ~w[i]})

\* Only the slots written since the last close are counted.
failureCount(w, idx, filled) ==
    LET n == IF filled THEN WindowSize ELSE idx
    IN  Cardinality({i \in 0..n - 1 : ~w[i]})

tripOpen_KeepsCounters ==
    /\ state' = "open"
    /\ elapsed' = 0
    /\ trials' = {}
    /\ leaked' = FALSE
    /\ UNCHANGED counters

\* The window is left as it is: closeLocked clears it before it is used again.
tripOpen ==
    /\ state' = "open"
    /\ elapsed' = 0
    /\ halfOpenInFlight' = 0
    /\ consecutiveSuccesses' = 0
    /\ trials' = {}
    /\ leaked' = FALSE

close_KeepsWindow ==
    /\ state' = "closed"
    /\ consecutiveSuccesses' = 0
    /\ halfOpenInFlight' = 0
    /\ trials' = {}
    /\ leaked' = FALSE
    /\ UNCHANGED <<ring, elapsed>>

close_KeepsFilled ==
    /\ state' = "closed"
    /\ window' = [i \in 0..WindowSize - 1 |-> FALSE]
    /\ windowIdx' = 0
    /\ consecutiveSuccesses' = 0
    /\ halfOpenInFlight' = 0
    /\ trials' = {}
    /\ leaked' = FALSE
    /\ UNCHANGED <<windowFilled, elapsed>>

close ==
    /\ state' = "closed"
    /\ window' = [i \in 0..WindowSize - 1 |-> FALSE]
    /\ windowIdx' = 0
    /\ windowFilled' = FALSE
    /\ consecutiveSuccesses' = 0
    /\ halfOpenInFlight' = 0
    /\ trials' = {}
    /\ leaked' = FALSE
    /\ UNCHANGED elapsed

-----------------------------------------------------------------------------
(* allow(): one action per outcome of its switch.                             *)

AllowClosed(c) ==
    /\ c \notin inflight
    /\ state = "closed"
    /\ inflight' = inflight \cup {c}
    /\ UNCHANGED <<state, elapsed, ring, counters, healthy, trials, leaked>>

\* The first call after the cooldown turns the breaker half-open and is itself
\* the first trial.
AllowFirstTrial(c) ==
    /\ c \notin inflight
    /\ state = "open"
    /\ elapsed >= OpenDuration
    /\ state' = "half-open"
    /\ halfOpenInFlight' = 1
    /\ consecutiveSuccesses' = 0
    /\ inflight' = inflight \cup {c}
    /\ trials' = {c}
    /\ leaked' = FALSE
    /\ UNCHANGED <<elapsed, ring, healthy>>

AllowTrial(c) ==
    /\ c \notin inflight
    /\ state = "half-open"
    /\ halfOpenInFlight < HalfOpenTrials
    /\ halfOpenInFlight' = halfOpenInFlight + 1
    /\ inflight' = inflight \cup {c}
    /\ trials' = trials \cup {c}
    /\ UNCHANGED <<state, elapsed, ring, consecutiveSuccesses, healthy, leaked>>

\* The call is answered with openError and leaves no trace in the breaker.
ShortCircuit(c) ==
    /\ c \notin inflight
    /\ \/ state = "open" /\ elapsed < OpenDuration
       \/ state = "half-open" /\ halfOpenInFlight >= HalfOpenTrials
    /\ UNCHANGED vars

Allow(c) ==
    \/ AllowClosed(c)
    \/ AllowFirstTrial(c)
    \/ AllowTrial(c)
    \/ ShortCircuit(c)

-----------------------------------------------------------------------------
(* record(): the result goes to whatever state the breaker is in by now, not  *)
(* to the one that admitted the call.                                         *)

nextIdx_NoWrap(idx) == idx + 1

nextIdx(idx) == (idx + 1) % WindowSize

RecordClosed(c, failed) ==
    /\ state = "closed"
    /\ window' = [window EXCEPT ![windowIdx] = ~failed]
    /\ windowIdx' = nextIdx(windowIdx)
    /\ windowFilled' = (windowFilled \/ windowIdx' = 0)
    /\ IF failureCount(window', windowIdx', windowFilled') >= FailureThreshold
       THEN tripOpen
       ELSE UNCHANGED <<state, elapsed, counters, trials, leaked>>

decInFlight_Dropped(n) == n

decInFlight(n) == IF n > 0 THEN n - 1 ELSE n

RecordHalfOpen(c, failed) ==
    /\ state = "half-open"
    /\ CASE failed -> tripOpen /\ UNCHANGED ring
         [] ~failed /\ consecutiveSuccesses + 1 >= SuccessThreshold -> close
         [] OTHER ->
              /\ halfOpenInFlight' = decInFlight(halfOpenInFlight)
              /\ consecutiveSuccesses' = consecutiveSuccesses + 1
              /\ trials' = trials \ {c}
              /\ UNCHANGED <<state, elapsed, ring, leaked>>

RecordOpen(c) ==
    /\ state = "open"
    /\ UNCHANGED <<state, elapsed, ring, counters, trials, leaked>>

\* The rest of WrapUnary: next returned, its result is classified and recorded.
Record(c, outcome) ==
    /\ c \in inflight
    /\ inflight' = inflight \ {c}
    /\ UNCHANGED healthy
    /\ \/ RecordClosed(c, isFailure(outcome))
       \/ RecordHalfOpen(c, isFailure(outcome))
       \/ RecordOpen(c)

Return(c) ==
    \E outcome \in Outcomes :
        /\ healthy => ~isFailure(outcome)
        /\ Record(c, outcome)

\* next panicked (a caller-supplied callback, say) and the goroutine recovered
\* further out: record is not deferred, so the breaker never hears of the call.
Panic(c) ==
    /\ c \in inflight
    /\ ~healthy
    /\ inflight' = inflight \ {c}
    /\ trials' = trials \ {c}
    /\ leaked' = (leaked \/ c \in trials)
    /\ UNCHANGED <<state, elapsed, ring, counters, healthy>>

-----------------------------------------------------------------------------
(* The environment.                                                           *)

\* Time is observed only through Now() - openedAt >= OpenDuration, and only
\* while the breaker is open.
Tick ==
    /\ state = "open"
    /\ elapsed < OpenDuration
    /\ elapsed' = elapsed + 1
    /\ UNCHANGED <<state, ring, counters, inflight, healthy, trials, leaked>>

\* The backend goes down or comes back.
BackendFlips ==
    /\ healthy' = ~healthy
    /\ UNCHANGED <<state, elapsed, ring, counters, inflight, trials, leaked>>

Next ==
    \/ \E c \in Calls : Allow(c) \/ Return(c) \/ Panic(c)
    \/ Tick
    \/ BackendFlips

Spec == Init /\ [][Next]_vars

\* Callers keep coming, every call ends (transport timeouts) and time passes.
Fairness ==
    /\ WF_vars(Tick)
    /\ \A c \in Calls : WF_vars(Allow(c)) /\ WF_vars(Return(c))

FairSpec == Spec /\ Fairness

-----------------------------------------------------------------------------
(* Properties                                                                 *)

\* Every field keeps its type; windowIdx stays inside the ring, so record()
\* never indexes out of range, and only calls in flight are trials.
TypeOK ==
    /\ state \in States
    /\ elapsed \in 0..OpenDuration
    /\ window \in [0..WindowSize - 1 -> BOOLEAN]
    /\ windowIdx \in 0..WindowSize - 1
    /\ windowFilled \in BOOLEAN
    /\ consecutiveSuccesses \in Nat
    /\ halfOpenInFlight \in Nat
    /\ inflight \subseteq Calls
    /\ healthy \in BOOLEAN
    /\ trials \subseteq inflight
    /\ leaked \in BOOLEAN

\* Half-open bookkeeping never survives the half-open state, in which the
\* in-flight counter never exceeds the trial budget and the success counter
\* never reaches the threshold without closing the breaker.
HalfOpenBookkeeping ==
    IF state = "half-open"
    THEN /\ halfOpenInFlight <= HalfOpenTrials
         /\ consecutiveSuccesses < SuccessThreshold
    ELSE halfOpenInFlight = 0 /\ consecutiveSuccesses = 0 /\ trials = {}

\* A closed breaker has fewer than FailureThreshold failures in its window:
\* none is left over from before the last trip, and none went unnoticed.
ClosedBelowThreshold ==
    state = "closed" =>
        failureCount(window, windowIdx, windowFilled) < FailureThreshold

\* allow() refuses a call for want of trial budget only while a trial of this
\* very episode is still out and will report back ("the trial in flight is
\* about to close or reopen the breaker"), unless a trial panicked.
BudgetNotLost ==
    (state = "half-open" /\ halfOpenInFlight >= HalfOpenTrials /\ ~leaked)
        => trials # {}

\* DefaultConfig: "one trial at a time during half-open"; Config's
\* HalfOpenTrials bounds the trial calls out at the same time.
TrialsWithinBudget ==
    state = "half-open" => Cardinality(trials) <= HalfOpenTrials

\* Where the k-th oldest of the results in the ring is kept.
Slot(idx, filled, k) ==
    IF filled THEN (idx + k - 1) % WindowSize ELSE k - 1

\* The ring buffer read oldest first, as failures.
ReadRing(w, idx, filled) ==
    [k \in 1..(IF filled THEN WindowSize ELSE idx) |-> ~w[Slot(idx, filled, k)]]

\* The abstract window: what a closed breaker has on record.
Recent ==
    IF state = "closed" THEN ReadRing(window, windowIdx, windowFilled) ELSE <<>>

CB == INSTANCE CircuitBreaker WITH
        recent <- Recent, successes <- consecutiveSuccesses

\* The ring buffer, its index and its filled flag implement a sliding window of
\* the last WindowSize results since the breaker closed, and the breaker moves
\* between its states exactly as CircuitBreaker allows.
ImplementsCircuitBreaker == CB!ASpec

\* If the backend stays up and no trial is lost to a panic, the breaker ends up
\* closed for good, whatever late results still come in.
Recovers == <>[](healthy /\ ~leaked) => <>[](state = "closed")
=============================================================================
