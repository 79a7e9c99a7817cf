----------------------------- MODULE Operation -----------------------------
(* Operation.Wait (ergo/operation.go): one goroutine polls a long-running    *)
(* operation until it is done.  A poll is a unary call under the timeout     *)
(* interceptor (module Deadline), to a server that may never answer.  The    *)
(* clock starts with the context that Wait is given.                         *)
EXTENDS Deadline

CONSTANTS
    InitialDelays,        \* values of Operation.InitialDelay, 0 when unset
    MaxDelays,            \* values of Operation.MaxDelay, 0 when unset
    DefaultInitialDelay,
    DefaultMaxDelay,
    Multiplier,           \* Operation.Multiplier, after tuning
    RetryAfters,          \* the RetryAfter of a status, 0 for none
    Deadlines,            \* deadlines of the contexts given, Never for none
    Lag,                  \* how late a goroutine that can run may run
    MaxPolls,             \* bound: the operation is done by this poll
    MaxAge                \* bound: how long the clock runs

ASSUME OperationAssumption ==
    /\ InitialDelays \subseteq Nat /\ MaxDelays \subseteq Nat
    /\ DefaultInitialDelay \in Nat \ {0} /\ DefaultMaxDelay \in Nat \ {0}
    /\ Multiplier \in Nat \ {0}
    /\ RetryAfters \subseteq Nat
    /\ Deadlines \subseteq (Nat \ {0}) \cup {Never}
    /\ Lag \in Nat
    /\ MaxPolls \in Nat /\ MaxAge \in Nat

VARIABLES
    initial, maxDelay,  \* what tuning returned
    waiting,    \* "no", "poll" or "sleep"
    age,        \* the clock
    deadline,   \* of Wait's context
    ctxDone,    \* that context is done
    pollBy,     \* the deadline of the poll's context
    ceiling,    \* local of Wait
    delay,      \* the wait that nextDelay chose, while asleep
    hint,       \* the RetryAfter it chose it from
    wake,       \* when the timer fires
    lag,        \* for how long the goroutine could have run and did not
    polls,      \* history: polls made
    doneAt,     \* history: when Wait's context ended
    late,       \* history: polls begun although it had
    slept       \* history: those of them begun after a sleep longer than Lag

handle == <<initial, maxDelay>>
context == <<deadline, ctxDone, doneAt>>
sleeping == <<delay, hint, wake>>
counts == <<polls, late, slept>>
waitVars == <<handle, waiting, age, context, pollBy, ceiling, sleeping, lag, counts>>

tuning(set, default) == IF set <= 0 THEN default ELSE set

WaitInit ==
    /\ initial \in {tuning(d, DefaultInitialDelay) : d \in InitialDelays}
    /\ maxDelay \in {tuning(d, DefaultMaxDelay) : d \in MaxDelays}
    /\ waiting = "no"
    /\ age = 0
    /\ deadline = Never
    /\ ctxDone = FALSE
    /\ pollBy = Never
    /\ ceiling = 0 /\ delay = 0 /\ hint = 0 /\ wake = 0
    /\ lag = 0 /\ doneAt = Never
    /\ polls = 0 /\ late = 0 /\ slept = 0

\* Full jitter: every value below the ceiling, the fallback among them.
jitterDraw(upper) == IF upper <= 1 THEN {0} ELSE 0..upper - 1

nextDelay(ceil, serverHint) ==
    IF serverHint > 0 THEN {serverHint} ELSE jitterDraw(ceil)

grow_Uncapped(d) == d * Multiplier

grow(d) == IF d * Multiplier > maxDelay THEN maxDelay ELSE d * Multiplier

-----------------------------------------------------------------------------

\* o.Poll(ctx), through the timeout interceptor.
StartPoll ==
    /\ waiting' = "poll"
    /\ pollBy' = apply(deadline, age)
    /\ polls' = polls + 1
    /\ late' = late + (IF ctxDone THEN 1 ELSE 0)
    /\ slept' = slept + (IF ctxDone /\ delay > Lag THEN 1 ELSE 0)
    /\ delay' = 0 /\ hint' = 0 /\ wake' = 0
    /\ lag' = 0

BeginWait ==
    /\ waiting = "no"
    /\ ceiling' = initial
    /\ StartPoll
    /\ UNCHANGED <<handle, age, context>>

\* Wait returns and its locals are gone.
WaitReturns ==
    /\ waiting' = "no"
    /\ pollBy' = Never
    /\ ceiling' = 0 /\ delay' = 0 /\ hint' = 0 /\ wake' = 0
    /\ lag' = 0
    /\ polls' = 0 /\ late' = 0 /\ slept' = 0
    /\ UNCHANGED <<handle, age, context>>

\* The status is not Done: sleep, for as long as the server asks for or for a
\* draw below the ceiling.
NotDone(r) ==
    /\ waiting' = "sleep"
    /\ hint' = r
    /\ \E d \in nextDelay(ceiling, r) : delay' = d /\ wake' = age + d
    /\ pollBy' = Never
    /\ lag' = 0
    /\ UNCHANGED <<handle, age, context, ceiling, counts>>

\* Poll answers: in time, or although its context is done.
PollAnswered ==
    /\ waiting = "poll"
    /\ \/ polls < MaxPolls /\ \E r \in RetryAfters : NotDone(r)
       \/ WaitReturns   \* Done, with the result or the operation's error

\* Any error of the poll is Wait's.
PollFails ==
    /\ waiting = "poll"
    /\ WaitReturns

pollExpired == passed(pollBy, age)

PollCutOff_Parents == ctxDone /\ PollFails

PollCutOff == (ctxDone \/ pollExpired) /\ PollFails

PollErrs == ~(ctxDone \/ pollExpired) /\ PollFails

\* sleep returned nil.
PollAgain ==
    /\ ceiling' = grow(ceiling)
    /\ StartPoll
    /\ UNCHANGED <<handle, age, context>>

\* What defaultSleep sees of the context: nothing when there is nothing to wait
\* for, the ctx.Done() arm otherwise.
sleepCancelled_Ignored == FALSE

sleepCancelled == delay > 0 /\ ctxDone

\* When timer and context are both ready its select may take either.
SleepEnds ==
    /\ waiting = "sleep"
    /\ \/ delay = 0 /\ PollAgain
       \/ delay > 0 /\ age >= wake /\ PollAgain
       \/ sleepCancelled /\ WaitReturns

ContextEnds ==
    /\ ~ctxDone
    /\ ctxDone' = TRUE
    /\ doneAt' = age
    /\ UNCHANGED <<handle, waiting, age, deadline, pollBy, ceiling, sleeping, lag, counts>>

DeadlinePasses == waiting # "no" /\ passed(deadline, age) /\ ContextEnds

CallerCancels == waiting # "no" /\ ContextEnds

\* The goroutine can run: the context of its poll is done, or its sleep is over
\* or cancelled.
due ==
    \/ waiting = "poll" /\ (ctxDone \/ pollExpired)
    \/ waiting = "sleep" /\ (sleepCancelled \/ age >= wake)

\* The clock goes on.  A context ends at its deadline; a goroutine that can run
\* does so within Lag.
Tick ==
    /\ waiting # "no"
    /\ ctxDone \/ ~passed(deadline, age)
    /\ due => lag < Lag
    /\ age < MaxAge
    /\ age' = age + 1
    /\ lag' = IF due THEN lag + 1 ELSE 0
    /\ UNCHANGED <<handle, waiting, context, pollBy, ceiling, sleeping, counts>>

\* The steps that need nobody's answer.
OwnStep == PollCutOff \/ SleepEnds \/ DeadlinePasses

WaitStep == OwnStep \/ PollAnswered \/ PollErrs \/ CallerCancels \/ Tick

-----------------------------------------------------------------------------
(* Properties                                                                 *)

\* The law of the waits, told by the number of the poll alone: RetryAfter is
\* obeyed as it stands, above MaxDelay too; otherwise the n-th wait stays below
\* InitialDelay * Multiplier^(n-1) and, from the second on, below MaxDelay.
WaitLaw ==
    waiting = "sleep" =>
        IF hint > 0 THEN delay = hint
        ELSE LET bound == initial * Multiplier^(polls - 1)
             IN  delay < bound /\ (polls > 1 => delay < maxDelay)

\* What is left to do for a Wait whose context is done, in steps of its
\* goroutine: end the poll, leave the sleep, and two more for every poll it
\* began after that.
stepsLeft == 2 * late + 2

\* "Total wait budget is bounded by ctx's deadline": Wait is over when its
\* context or its context's deadline is, but for those steps, however long the
\* server asked it to wait.  Polls may go out after that, for a Poll may answer
\* under a done context, a draw of zero does not look at it and sleep's select
\* may take the timer; after a sleep longer than Lag it does so once.
WaitStopsWithContext ==
    waiting # "no" =>
        /\ ctxDone => age <= doneAt + Lag * stepsLeft
        /\ deadline # Never => age <= deadline + Lag * stepsLeft
        /\ slept <= 1

\* "Per-poll timeouts come from the underlying RPC's own deadline": Wait ends
\* although a poll may never be answered and its context has no deadline.
WaitEnds == waiting # "no" ~> waiting = "no"
=============================================================================
