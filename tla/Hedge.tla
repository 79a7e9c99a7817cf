-------------------------------- MODULE Hedge --------------------------------
(* One unary call through the hedge interceptor: hedge/hedge.go ("v1"), and   *)
(* the prototype for connect-go v2 in experimental/hedgev2/hedge.go ("v2").   *)
(* The goroutine that makes the call runs the race; every attempt has a       *)
(* goroutine of its own that reports through the results channel.             *)
EXTENDS Naturals, Sequences, FiniteSets

CONSTANTS MaxAttempts, HedgeIdempotent

ASSUME HedgeAssumption == MaxAttempts \in Nat \ {0} /\ HedgeIdempotent \in BOOLEAN

Attempts == 1..MaxAttempts

VARIABLES
    variant,    \* "v1" or "v2"
    level,      \* the method's idempotency level
    clonable,   \* v2: the message is a protobuf, so it can be copied
    fate,       \* what the backend has in store for each attempt
    attempt,    \* each attempt: "none", "running", "sending", "done"
    reply,      \* what its next returned
    results,    \* the channel
    launched, completed,
    lastErr,    \* the last error seen, 0 or the attempt it came from
    ctxDone,    \* the caller's context is done
    closed,     \* v2: the stream was closed while Receive was at work
    outcome     \* "none", or what the call returned

call == <<variant, level, clonable, fate>>
race == <<launched, completed, lastErr>>
vars == <<call, attempt, reply, results, race, ctxDone, closed, outcome>>

eligible_Unknown ==
    /\ MaxAttempts > 1
    /\ variant = "v2" => clonable
    /\ level = "idempotent" => HedgeIdempotent

\* shouldHedge and eligible; a message that cannot be copied takes v2's fallback.
eligible ==
    /\ MaxAttempts > 1
    /\ variant = "v2" => clonable
    /\ \/ level = "no_side_effects"
       \/ level = "idempotent" /\ HedgeIdempotent

\* The race starts with its first attempt out.  A call that is not hedged is
\* that one attempt.
Init ==
    /\ variant \in {"v1", "v2"}
    /\ level \in {"no_side_effects", "idempotent", "unknown"}
    /\ clonable \in BOOLEAN
    /\ fate \in [Attempts -> {"ok", "error", "hangs"}]
    /\ attempt = [i \in Attempts |-> IF i = 1 THEN "running" ELSE "none"]
    /\ reply = [i \in Attempts |-> "none"]
    /\ results = <<>>
    /\ launched = 1
    /\ completed = 0
    /\ lastErr = 0
    /\ ctxDone = FALSE
    /\ closed = FALSE
    /\ outcome = "none"

returned == outcome # "none"

\* The attempts' context: cancelled with the caller's, when the call returns,
\* and by Close.
raceCtxDone == ctxDone \/ returned \/ closed

-----------------------------------------------------------------------------
(* The attempts.                                                              *)

\* next returns, as the backend decides or because the context is done.
AttemptEnds(i) ==
    /\ attempt[i] = "running"
    /\ \/ fate[i] # "hangs" /\ reply' = [reply EXCEPT ![i] = fate[i]]
       \/ raceCtxDone /\ reply' = [reply EXCEPT ![i] = "error"]
    /\ attempt' = [attempt EXCEPT ![i] = "sending"]
    /\ UNCHANGED <<call, results, race, ctxDone, closed, outcome>>

buffer_ButOne == MaxAttempts - 1

\* The capacity of the results channel.
buffer == MaxAttempts

Send(i) ==
    /\ attempt[i] = "sending"
    /\ eligible
    /\ Len(results) < buffer
    /\ results' = Append(results, i)
    /\ attempt' = [attempt EXCEPT ![i] = "done"]
    /\ UNCHANGED <<call, reply, race, ctxDone, closed, outcome>>

-----------------------------------------------------------------------------
(* runHedged and race.                                                        *)

pending_LaunchedOnly == completed < launched

\* The loop goes on while an attempt is out or may still be launched.
pending == completed < launched \/ launched < MaxAttempts

racing == eligible /\ ~returned

fire_OffByOne == [attempt EXCEPT ![launched] = "running"]

fire == [attempt EXCEPT ![launched + 1] = "running"]

Launch ==
    /\ launched < MaxAttempts
    /\ attempt' = fire
    /\ launched' = launched + 1

\* A result arrives.  A success is the call's; after a failure v2 launches the
\* next attempt at once if none is left running, v1 waits for the timer.
ResultArrives ==
    /\ racing /\ pending
    /\ results # <<>>
    /\ results' = Tail(results)
    /\ completed' = completed + 1
    /\ IF reply[Head(results)] = "ok"
       THEN outcome' = "ok" /\ UNCHANGED <<attempt, launched, lastErr>>
       ELSE /\ lastErr' = Head(results)
            /\ UNCHANGED outcome
            /\ IF variant = "v2" /\ completed' = launched /\ launched < MaxAttempts
               THEN Launch
               ELSE UNCHANGED <<attempt, launched>>
    /\ UNCHANGED <<call, reply, ctxDone, closed>>

TimerFires_OnlyWhenIdle ==
    /\ racing /\ pending
    /\ completed = launched
    /\ Launch
    /\ UNCHANGED <<call, reply, results, completed, lastErr, ctxDone, closed, outcome>>

\* The stagger timer fires.
TimerFires ==
    /\ racing /\ pending
    /\ Launch
    /\ UNCHANGED <<call, reply, results, completed, lastErr, ctxDone, closed, outcome>>

ContextEnds ==
    /\ racing /\ pending
    /\ ctxDone
    /\ outcome' = "cancelled"
    /\ UNCHANGED <<call, attempt, reply, results, race, ctxDone, closed>>

\* The loop is over: the last error, or the error that is never to be seen.
Exhausted ==
    /\ racing /\ ~pending
    /\ outcome' = IF lastErr = 0 THEN "no result" ELSE "error"
    /\ UNCHANGED <<call, attempt, reply, results, race, ctxDone, closed>>

\* Without hedging the attempt's reply is the call's.
DirectReturns ==
    /\ ~eligible
    /\ ~returned
    /\ attempt[1] = "sending"
    /\ attempt' = [attempt EXCEPT ![1] = "done"]
    /\ outcome' = reply[1]
    /\ UNCHANGED <<call, reply, results, race, ctxDone, closed>>

-----------------------------------------------------------------------------
(* The caller.                                                                *)

CancelContext ==
    /\ ~ctxDone
    /\ ~returned
    /\ ctxDone' = TRUE
    /\ UNCHANGED <<call, attempt, reply, results, race, closed, outcome>>

Close ==
    /\ variant = "v2"
    /\ ~closed
    /\ ~returned
    /\ closed' = TRUE
    /\ UNCHANGED <<call, attempt, reply, results, race, ctxDone, outcome>>

RaceStep == ResultArrives \/ TimerFires \/ ContextEnds \/ Exhausted \/ DirectReturns

Over == returned /\ (\A i \in Attempts : attempt[i] \in {"none", "done"}) /\ UNCHANGED vars

Next ==
    \/ \E i \in Attempts : AttemptEnds(i) \/ Send(i)
    \/ RaceStep
    \/ CancelContext
    \/ Close
    \/ Over

Spec == Init /\ [][Next]_vars

\* Goroutines that can run do, timers fire, and a round trip whose context is
\* done returns.  That the backend answers is not assumed: fate says so.
FairSpec ==
    /\ Spec
    /\ WF_vars(RaceStep)
    /\ \A i \in Attempts : WF_vars(AttemptEnds(i)) /\ WF_vars(Send(i))

-----------------------------------------------------------------------------
(* Properties                                                                 *)

\* The counters agree with the attempts, and results with what they sent.
TypeOK ==
    /\ \A i \in Attempts : attempt[i] # "none" <=> i <= launched
    /\ completed <= launched /\ launched <= MaxAttempts
    /\ \A n \in 1..Len(results) : attempt[results[n]] = "done"
    /\ eligible => completed + Len(results) =
                      Cardinality({i \in Attempts : attempt[i] = "done"})
    /\ lastErr \in 0..MaxAttempts
    /\ outcome \in {"none", "ok", "error", "cancelled", "no result"}

\* "If every attempt fails, the LAST observed error is returned": a hedged call
\* fails with an attempt's error only when all attempts were made and all of
\* them failed, and never with "no result".
FailsOnlyIfAllFail ==
    /\ outcome # "no result"
    /\ (eligible /\ outcome = "error") => \A i \in Attempts : reply[i] = "error"

\* Hedging a call that may not be repeated "is always a bug": a method whose
\* schema does not say so has one attempt.
UnsafeNotHedged == level = "unknown" => launched = 1

\* "So they do not leak waiting on an unread channel": once the call has
\* returned, every attempt it launched ends, the ones the backend never answers
\* included.
AttemptsEnd ==
    returned ~> (eligible => \A i \in Attempts : attempt[i] \in {"none", "done"})

\* What hedging is for: a hedged call returns if the backend answers any of the
\* attempts it may make, although others hang or fail.
OneGoodAttemptIsEnough ==
    (eligible /\ \E i \in Attempts : fate[i] = "ok") ~> returned
=============================================================================
