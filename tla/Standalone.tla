----------------------------- MODULE Standalone -----------------------------
(* The interceptor stack of presets.Standalone: breaker, then idempotency    *)
(* and retry (module Retry), then what an attempt does.  A call is admitted  *)
(* by the breaker once, makes as many attempts as retry wants, and reports   *)
(* to the breaker once.  OTel, outermost, only observes.                     *)
EXTENDS Retry

CONSTANTS WindowSize, FailureThreshold, SuccessThreshold, HalfOpenTrials,
          OpenDuration

VARIABLES state, elapsed, window, windowIdx, windowFilled,
          consecutiveSuccesses, halfOpenInFlight, inflight, trials, leaked,
          healthy,   \* FALSE throughout: attempts may fail at any time
          refused    \* calls answered by the breaker and not yet back with
                     \* their caller

B == INSTANCE Breaker

breakerVars == <<state, elapsed, window, windowIdx, windowFilled,
                 consecutiveSuccesses, halfOpenInFlight, inflight, trials, leaked,
                 healthy>>
svars == <<retryVars, breakerVars, refused>>

Init ==
    /\ RetryInit
    /\ B!Init
    /\ healthy = FALSE
    /\ refused = {}

Admit_IgnoresRefusal(c) ==
    /\ c \notin refused
    /\ B!Allow(c)
    /\ Begin(c)
    /\ UNCHANGED refused

\* allow() returned nil: the call goes on to idempotency and retry.
Admit(c) ==
    /\ c \notin refused
    /\ B!AllowClosed(c) \/ B!AllowFirstTrial(c) \/ B!AllowTrial(c)
    /\ Begin(c)
    /\ UNCHANGED refused

\* allow() returned openError: nothing inside the breaker runs.
Refuse(c) ==
    /\ phase[c] = "idle"
    /\ c \notin refused
    /\ B!ShortCircuit(c)
    /\ refused' = refused \cup {c}
    /\ UNCHANGED <<retryVars, breakerVars>>

\* The caller receives the breaker's error.
Surface(c) ==
    /\ c \in refused
    /\ refused' = refused \ {c}
    /\ UNCHANGED <<retryVars, breakerVars>>

Loop_RecordsEachAttempt(c) ==
    /\ LoopStep(c) \/ CancelContext(c)
    /\ IF state = "closed" /\ phase[c] = "attempt" /\ phase'[c] = "backoff"
       THEN B!RecordClosed(c, TRUE) /\ UNCHANGED <<inflight, healthy>>
       ELSE UNCHANGED breakerVars
    /\ UNCHANGED refused

\* A step of the retry loop: the breaker hears nothing of single attempts.
Loop(c) ==
    /\ LoopStep(c) \/ CancelContext(c)
    /\ UNCHANGED <<breakerVars, refused>>

Return_NotRecorded(c) ==
    /\ IF result[c] = "other" THEN UNCHANGED breakerVars ELSE B!Record(c, result[c])
    /\ Finish(c)
    /\ UNCHANGED refused

\* retry returned: its result is recorded and handed to the caller.
Return(c) ==
    /\ B!Record(c, result[c])
    /\ Finish(c)
    /\ UNCHANGED refused

Tick ==
    /\ B!Tick
    /\ UNCHANGED <<retryVars, refused>>

Next ==
    \/ \E c \in Calls : Admit(c) \/ Refuse(c) \/ Surface(c) \/ Loop(c) \/ Return(c)
    \/ Tick

Spec == Init /\ [][Next]_svars

\* Every attempt ends (transport timeouts), every timer fires, and a goroutine
\* that can run does.
Fairness ==
    \A c \in Calls :
        /\ WF_svars(LoopStep(c) /\ UNCHANGED <<breakerVars, refused>>)
        /\ WF_svars(Return(c))
        /\ WF_svars(Surface(c))

FairSpec == Spec /\ Fairness

-----------------------------------------------------------------------------
(* Properties                                                                 *)

\* A call is inside the breaker exactly while retry is at work on it: none is
\* recorded twice, none is forgotten, and retry never runs for a refused call.
OneRecordPerCall ==
    \A c \in Calls : (c \in inflight) <=> (phase[c] # "idle")

\* The stack drives its breaker as module Breaker's callers do, so everything
\* shown of Breaker holds of the breaker in the preset: one result per call,
\* however many attempts the call took.
ImplementsBreaker == B!Spec

\* Every call that enters the stack comes back, with a result or with the
\* breaker's refusal.
CallsReturn ==
    \A c \in Calls : (phase[c] # "idle" \/ c \in refused)
                        ~> (phase[c] = "idle" /\ c \notin refused)
=============================================================================
