----------------------------- MODULE TimedRetry -----------------------------
(* Retry and idempotency (module Retry) together with the timeout            *)
(* interceptor (module Deadline), on a clock.  The timeout is either outside *)
(* retry, where it bounds the call with all its attempts and backoffs, or    *)
(* inside, where it bounds each attempt.  The server may answer at any time, *)
(* or never.                                                                 *)
EXTENDS Retry, Deadline

CONSTANTS
    Placements,   \* subset of {"outside", "inside"}
    Deadlines,    \* deadlines callers may come with, Never for none
    Lag,          \* how late a goroutine that can run may run
    MaxAge        \* bound: how long the clock of a call runs

ASSUME TimedRetryAssumption ==
    /\ Placements \subseteq {"outside", "inside"}
    /\ 0 \in Hints  \* an error need not carry a RetryInfo
    /\ Deadlines \subseteq (Nat \ {0}) \cup {Never}
    /\ Lag \in Nat
    /\ MaxAge \in Nat

VARIABLES
    placement,  \* where the timeout interceptor is
    age,        \* time since the call began
    caller,     \* the deadline of the caller's context
    deadline,   \* the deadline of the context retry runs under
    attemptBy,  \* the deadline of the context the attempt runs under
    wake,       \* when the backoff timer fires
    lag,        \* for how long the call's goroutine could have run and did not
    doneAt,     \* history: when retry's context ended
    late,       \* history: attempts begun although it had
    slept       \* history: those of them begun after a sleep longer than Lag

contexts == <<placement, caller, deadline>>
ended == <<doneAt, late, slept>>
timeVars == <<contexts, age, attemptBy, wake, lag, ended>>
vars == <<retryVars, timeVars>>

Init ==
    /\ RetryInit
    /\ placement \in Placements
    /\ age = [c \in Calls |-> 0]
    /\ caller = [c \in Calls |-> Never]
    /\ deadline = [c \in Calls |-> Never]
    /\ attemptBy = [c \in Calls |-> Never]
    /\ wake = [c \in Calls |-> 0]
    /\ lag = [c \in Calls |-> 0]
    /\ doneAt = [c \in Calls |-> Never]
    /\ late = [c \in Calls |-> 0]
    /\ slept = [c \in Calls |-> 0]

\* The contexts of a call that begins now, and of an attempt that does.
callDeadline(d) == IF placement = "outside" THEN apply(d, 0) ELSE d
attemptDeadline(d, t) == IF placement = "inside" THEN apply(d, t) ELSE d

\* The goroutine of call c runs, and has to be given time for its next step.
Runs(c) == lag' = [lag EXCEPT ![c] = 0]

BeginCall(c) ==
    /\ Begin(c)
    /\ \E d \in Deadlines :
         /\ caller' = [caller EXCEPT ![c] = d]
         /\ deadline' = [deadline EXCEPT ![c] = callDeadline(d)]
         /\ attemptBy' = [attemptBy EXCEPT ![c] = attemptDeadline(callDeadline(d), 0)]
    /\ Runs(c)
    /\ UNCHANGED <<placement, age, wake, ended>>

\* The server answers, in time or when the attempt's context is done already.
AttemptAnswered(c) ==
    /\ \E code \in Codes, h \in Hints : AttemptEnds(c, code, h)
    /\ wake' = [wake EXCEPT ![c] = age[c] + delay'[c]]
    /\ Runs(c)
    /\ UNCHANGED <<contexts, age, attemptBy, ended>>

expired(c) == passed(attemptBy[c], age[c])

contextError_Parents(c) == IF ctxDone[c] THEN {"other"} ELSE {}

\* What retry sees when the attempt's context ends it: context.Canceled is no
\* deadline's and nobody translates it.
contextError(c) ==
    (IF ctxDone[c] THEN {"other"} ELSE {})
    \cup (IF ~expired(c) THEN {}
          ELSE IF placement = "inside"
               THEN translateDeadline(rawDeadlineExceeded, TRUE)
               ELSE rawDeadlineExceeded)

AttemptCutOff(c) ==
    /\ \E code \in contextError(c) : AttemptEnds(c, code, 0)
    /\ wake' = [wake EXCEPT ![c] = age[c] + delay'[c]]
    /\ Runs(c)
    /\ UNCHANGED <<contexts, age, attemptBy, ended>>

\* The sleep between two attempts ends; when it has an attempt follow, the
\* timeout interceptor inside retry gives that attempt a deadline of its own.
SleepEnds(c) ==
    /\ \/ SleepZero(c)
       \/ TimerFires(c) /\ age[c] >= wake[c]
       \/ ContextEndsSleep(c)
    /\ IF phase'[c] = "attempt"
       THEN attemptBy' = [attemptBy EXCEPT ![c] = attemptDeadline(deadline[c], age[c])]
       ELSE UNCHANGED attemptBy
    /\ IF phase'[c] = "attempt" /\ ctxDone[c]
       THEN /\ late' = [late EXCEPT ![c] = @ + 1]
            /\ slept' = [slept EXCEPT ![c] = IF delay[c] > Lag THEN @ + 1 ELSE @]
       ELSE UNCHANGED <<late, slept>>
    /\ wake' = [wake EXCEPT ![c] = 0]
    /\ Runs(c)
    /\ UNCHANGED <<contexts, age, doneAt>>

\* The context of the call ends: its deadline passes or the caller cancels.
ContextEnds(c) ==
    /\ CancelContext(c)
    /\ doneAt' = [doneAt EXCEPT ![c] = age[c]]
    /\ UNCHANGED <<contexts, age, attemptBy, wake, lag, late, slept>>

DeadlinePasses(c) == passed(deadline[c], age[c]) /\ ContextEnds(c)

CallerCancels(c) == ContextEnds(c)

FinishCall(c) ==
    /\ Finish(c)
    /\ age' = [age EXCEPT ![c] = 0]
    /\ caller' = [caller EXCEPT ![c] = Never]
    /\ deadline' = [deadline EXCEPT ![c] = Never]
    /\ attemptBy' = [attemptBy EXCEPT ![c] = Never]
    /\ wake' = [wake EXCEPT ![c] = 0]
    /\ doneAt' = [doneAt EXCEPT ![c] = Never]
    /\ late' = [late EXCEPT ![c] = 0]
    /\ slept' = [slept EXCEPT ![c] = 0]
    /\ Runs(c)
    /\ UNCHANGED placement

\* The goroutine of this call can run: the context of its attempt is done, its
\* sleep is over or cancelled, or it has only to return.
due(c) ==
    \/ phase[c] = "attempt" /\ (ctxDone[c] \/ expired(c))
    \/ phase[c] = "backoff" /\ (sleepCancelled(c) \/ age[c] >= wake[c])
    \/ phase[c] = "returning"

\* The deadline of retry's context is here.
contextDue(c) ==
    phase[c] \in {"attempt", "backoff"} /\ ~ctxDone[c] /\ passed(deadline[c], age[c])

\* The clock goes on.  Contexts end at their deadlines; a goroutine that can
\* run does so within Lag.
Tick ==
    /\ \E c \in Calls : phase[c] # "idle"
    /\ \A c \in Calls :
         /\ age[c] < MaxAge
         /\ ~contextDue(c)
         /\ due(c) => lag[c] < Lag
    /\ age' = [c \in Calls |-> IF phase[c] = "idle" THEN 0 ELSE age[c] + 1]
    /\ lag' = [c \in Calls |-> IF due(c) THEN lag[c] + 1 ELSE 0]
    /\ UNCHANGED <<retryVars, contexts, attemptBy, wake, ended>>

\* The steps that need nobody's answer.
OwnStep(c) == AttemptCutOff(c) \/ SleepEnds(c) \/ DeadlinePasses(c) \/ FinishCall(c)

Next ==
    \/ \E c \in Calls : BeginCall(c) \/ AttemptAnswered(c) \/ CallerCancels(c) \/ OwnStep(c)
    \/ Tick

Spec == Init /\ [][Next]_vars

\* Time goes on and goroutines run; the server owes nothing.
Fairness == WF_vars(Tick) /\ \A c \in Calls : WF_vars(OwnStep(c))

FairSpec == Spec /\ Fairness

-----------------------------------------------------------------------------
(* Properties                                                                 *)

\* What is left to do for a call whose context is done, in steps of its
\* goroutine: end the attempt, leave the sleep, return, and two more for every
\* attempt it let out after that.
stepsLeft(c) == 2 * late[c] + 3

\* "The interceptor never extends a deadline the caller set": whatever retry
\* still has to repeat or to wait for, a call is over when its context, its
\* caller's deadline or, with the timeout outside retry, Default is, but for
\* the steps above, and never sleeps on.  An attempt may go out after that, for
\* sleep's select may take the timer; after a sleep longer than Lag it does
\* so once.
CallStopsWithContext ==
    \A c \in Calls : phase[c] # "idle" =>
        /\ ctxDone[c] => age[c] <= doneAt[c] + Lag * stepsLeft(c)
        /\ caller[c] # Never => age[c] <= caller[c] + Lag * stepsLeft(c)
        /\ placement = "outside" => age[c] <= Default + Lag * stepsLeft(c)
        /\ slept[c] <= 1

\* "Every outgoing call carries a deadline": a call ends although the server
\* never answers and its caller set no deadline.
HungCallsEnd == \A c \in Calls : phase[c] # "idle" ~> phase[c] = "idle"
=============================================================================
