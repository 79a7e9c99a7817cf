--------------------------- MODULE CircuitBreaker ---------------------------
(* What a breaker promises, with no ring buffer, no in-flight counter and no *)
(* callers: a three-state machine driven by the results it is told about.    *)
(* `recent` holds the results recorded since the breaker last closed, oldest *)
(* first and at most WindowSize of them; TRUE stands for a failure.          *)
EXTENDS Integers, Sequences, FiniteSets

CONSTANTS WindowSize, FailureThreshold, SuccessThreshold, OpenDuration

VARIABLES state,      \* "closed", "open" or "half-open"
          recent,     \* the sliding window, empty unless closed
          elapsed,    \* time since the last trip, capped at OpenDuration
          successes   \* non-failures recorded in this half-open episode

avars == <<state, recent, elapsed, successes>>

\* The sliding window after one more result.
Slide(s, failed) ==
    Append(IF Len(s) = WindowSize THEN Tail(s) ELSE s, failed)

Failures(s) == Cardinality({k \in DOMAIN s : s[k]})

AInit ==
    /\ state = "closed"
    /\ recent = <<>>
    /\ elapsed = 0
    /\ successes = 0

Trip ==
    /\ state' = "open"
    /\ recent' = <<>>
    /\ elapsed' = 0
    /\ successes' = 0

\* A result while closed trips the breaker exactly when it makes the
\* WindowSize last results contain FailureThreshold failures.
ResultClosed(failed) ==
    /\ state = "closed"
    /\ IF Failures(Slide(recent, failed)) >= FailureThreshold
       THEN Trip
       ELSE /\ recent' = Slide(recent, failed)
            /\ UNCHANGED <<state, elapsed, successes>>

\* An open breaker starts probing only when the cooldown is over.
Probe ==
    /\ state = "open"
    /\ elapsed >= OpenDuration
    /\ state' = "half-open"
    /\ successes' = 0
    /\ UNCHANGED <<recent, elapsed>>

FailureHalfOpen ==
    /\ state = "half-open"
    /\ Trip

\* The SuccessThreshold-th non-failure in a row closes it with an empty window.
SuccessHalfOpen ==
    /\ state = "half-open"
    /\ IF successes + 1 >= SuccessThreshold
       THEN /\ state' = "closed"
            /\ recent' = <<>>
            /\ successes' = 0
            /\ UNCHANGED elapsed
       ELSE /\ successes' = successes + 1
            /\ UNCHANGED <<state, recent, elapsed>>

Cooling ==
    /\ state = "open"
    /\ elapsed < OpenDuration
    /\ elapsed' = elapsed + 1
    /\ UNCHANGED <<state, recent, successes>>

ANext ==
    \/ \E failed \in BOOLEAN : ResultClosed(failed)
    \/ Probe
    \/ FailureHalfOpen
    \/ SuccessHalfOpen
    \/ Cooling

ASpec == AInit /\ [][ANext]_avars
=============================================================================
