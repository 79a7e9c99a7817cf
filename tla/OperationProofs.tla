--------------------------- MODULE OperationProofs ---------------------------
(* What holds of Wait within the legs of composed operations, for every      *)
(* tuning, every hint of the server and every deadline.                      *)
EXTENDS ComposedOp, TLAPS

\* What the standard module Naturals defines Multiplier^n to be.  None of the
\* provers knows exponentiation, so the theorem names what it uses of it.
PowerLaw ==
    /\ Multiplier^0 = 1
    /\ \A n \in Nat : Multiplier^n \in Nat /\ Multiplier^(n + 1) = Multiplier^n * Multiplier

\* The state of Wait keeps its type.
WaitTypeOK ==
    /\ initial \in Nat \ {0} /\ maxDelay \in Nat \ {0}
    /\ waiting \in {"no", "poll", "sleep"}
    /\ age \in Nat
    /\ deadline \in Nat \cup {Never} /\ doneAt \in Nat \cup {Never}
    /\ ctxDone \in BOOLEAN
    /\ ceiling \in Nat /\ delay \in Nat /\ hint \in Nat /\ wake \in Nat
    /\ lag \in 0..Lag
    /\ polls \in Nat /\ late \in Nat /\ slept \in Nat

\* Before Wait the clock of its context stands.
NotYetWaiting ==
    /\ waiting = "no" => late = 0 /\ slept = 0 /\ delay = 0
    /\ step # "wait" => waiting = "no"
    /\ step = "call" => age = 0 /\ (ctxDone => doneAt = 0)

\* The context never outlives its deadline.
ContextInTime ==
    deadline # Never => IF ctxDone THEN doneAt <= deadline ELSE age <= deadline

\* The steps the goroutine can have taken since the context ended.
taken == 2 * late + (IF waiting = "poll" THEN 0 ELSE 1)

\* Once its context is done Wait has had time for those steps and none else: it
\* never waits for anything but to be run.
NeverWaits == ctxDone => doneAt \in Nat /\ age <= doneAt + Lag * taken + lag

\* Only under a done context are polls late, and a sleep begun after a late poll
\* has its timer fire no sooner than its delay after the goroutine could go on.
\* A sleep of nothing is over when it begins.
LateSleepsAreShort ==
    /\ late > 0 => ctxDone
    /\ (waiting = "sleep" /\ delay = 0) => age >= wake
    /\ (late > 0 /\ waiting = "sleep") => wake + lag = age + delay
    /\ slept <= 1 /\ slept <= late

Stopping == waiting # "no" => ContextInTime /\ NeverWaits /\ LateSleepsAreShort

\* The inductive invariant behind WaitStopsWithContext.
OInv == WaitTypeOK /\ NotYetWaiting /\ Stopping

\* The bound the documentation gives for the wait after poll n.
ceilingOf(n) == initial * Multiplier^(n - 1)

\* The local ceiling stays within that bound and, once it has grown, within
\* MaxDelay.
CeilingLaw ==
    /\ waiting = "no" => polls = 0
    /\ waiting # "no" =>
          /\ polls >= 1 /\ ceiling >= 1
          /\ ceiling <= ceilingOf(polls)
          /\ polls > 1 => ceiling <= maxDelay

\* The inductive invariant behind WaitLaw.
LInv == OInv /\ CeilingLaw /\ WaitLaw

-----------------------------------------------------------------------------
(* Waits end with their context.                                              *)

\* tuning returns a positive duration.
LEMMA TuningType ==
    ASSUME NEW d \in Nat, NEW default \in Nat \ {0}
    PROVE  tuning(d, default) \in Nat \ {0}
BY DEF tuning

\* nextDelay returns durations.
LEMMA NextDelayType ==
    ASSUME NEW ceil \in Nat, NEW h \in Nat, NEW d \in nextDelay(ceil, h)
    PROVE  d \in Nat
BY DEF nextDelay, jitterDraw

\* grow returns a duration, within the product and within MaxDelay.
LEMMA GrowBounds ==
    ASSUME NEW d \in Nat, d >= 1, maxDelay \in Nat \ {0}
    PROVE  /\ grow(d) \in Nat /\ grow(d) >= 1
           /\ grow(d) <= d * Multiplier /\ grow(d) <= maxDelay
<1>1. d * Multiplier \in Nat /\ d * Multiplier >= 1
  BY OperationAssumption, SMTT(30)
<1> QED
  BY <1>1 DEF grow

\* grow keeps a ceiling of any size a duration.
LEMMA GrowType ==
    ASSUME NEW d \in Nat, maxDelay \in Nat \ {0}
    PROVE  grow(d) \in Nat
<1>1. d * Multiplier \in Nat
  BY OperationAssumption
<1> QED
  BY <1>1 DEF grow

\* A step costs at most Lag.
LEMMA OneMoreStep ==
    ASSUME NEW n \in Nat
    PROVE  Lag * n \in Nat /\ Lag * (n + 1) = Lag * n + Lag
BY OperationAssumption

\* The initial states satisfy the invariants.
LEMMA InitOInv == Init => OInv /\ CeilingLaw /\ WaitLaw
<1> SUFFICES ASSUME Init PROVE OInv /\ CeilingLaw /\ WaitLaw
  OBVIOUS
<1>1. initial \in Nat \ {0} /\ maxDelay \in Nat \ {0}
  BY TuningType, OperationAssumption DEF Init, WaitInit
<1>2. WaitTypeOK
  <2>1. 0 \in 0..Lag
    BY OperationAssumption
  <2>2. ctxDone \in BOOLEAN
    BY DEF Init, WaitInit
  <2> QED
    BY <1>1, <2>1, <2>2 DEF Init, WaitInit, WaitTypeOK
<1>3. NotYetWaiting /\ Stopping /\ CeilingLaw /\ WaitLaw
  <2>1. waiting = "no" /\ late = 0 /\ slept = 0 /\ delay = 0 /\ polls = 0 /\ step = "none"
    BY DEF Init, WaitInit
  <2> QED
    BY <2>1 DEF NotYetWaiting, Stopping, CeilingLaw, WaitLaw
<1> QED
  BY <1>2, <1>3 DEF OInv

\* What is used of the types, and what one more step costs.
LEMMA WaitTypes ==
    ASSUME WaitTypeOK
    PROVE  /\ age \in Nat /\ late \in Nat /\ slept \in Nat /\ delay \in Nat /\ wake \in Nat
           /\ deadline \in Nat \cup {Never} /\ doneAt \in Nat \cup {Never}
           /\ lag \in Nat /\ lag <= Lag /\ Lag \in Nat /\ 0 \in 0..Lag
           /\ taken \in Nat /\ Lag * taken \in Nat
           /\ Lag * (taken + 1) = Lag * taken + Lag
<1>1. /\ age \in Nat /\ late \in Nat /\ slept \in Nat /\ delay \in Nat /\ wake \in Nat
      /\ deadline \in Nat \cup {Never} /\ doneAt \in Nat \cup {Never}
      /\ lag \in Nat /\ lag <= Lag /\ Lag \in Nat /\ 0 \in 0..Lag
  BY OperationAssumption DEF WaitTypeOK
<1>2. taken \in Nat
  BY <1>1 DEF taken
<1> QED
  BY <1>1, <1>2, OneMoreStep

\* The first poll: the context may be done already.
LEMMA BeginWaitOInv ==
    ASSUME OInv, BeginWait, step = "call", step' = "wait"
    PROVE  OInv'
<1>1. /\ waiting = "no" /\ waiting' = "poll" /\ age = 0 /\ late = 0 /\ slept = 0
      /\ ctxDone => doneAt = 0
      /\ late' = (IF ctxDone THEN 1 ELSE 0) /\ slept' = 0 /\ lag' = 0 /\ delay' = 0 /\ wake' = 0
      /\ hint' = 0 /\ polls' = polls + 1 /\ ceiling' = initial
      /\ UNCHANGED <<initial, maxDelay, age, deadline, ctxDone, doneAt>>
  BY OperationAssumption
     DEF OInv, NotYetWaiting, BeginWait, StartPoll, handle, context
<1>2. WaitTypeOK /\ Lag \in Nat /\ 0 \in 0..Lag
  BY WaitTypes DEF OInv
<1>3. WaitTypeOK'
  BY <1>1, <1>2 DEF WaitTypeOK
<1>4. NotYetWaiting'
  BY <1>1 DEF NotYetWaiting
<1>5. ContextInTime' /\ LateSleepsAreShort'
  BY <1>1, <1>2 DEF ContextInTime, LateSleepsAreShort, WaitTypeOK, Never
<1>6. NeverWaits'
  <2>1. Lag * taken' \in Nat
    <3>1. taken' \in Nat
      BY <1>1 DEF taken
    <3> QED
      BY <3>1, OneMoreStep
  <2> QED
    BY <1>1, <2>1 DEF NeverWaits
<1> QED
  BY <1>3, <1>4, <1>5, <1>6 DEF OInv, Stopping

\* Another poll, after a sleep.
LEMMA PollAgainOInv ==
    ASSUME OInv, waiting = "sleep", PollAgain, delay = 0 \/ age >= wake,
           step' = "wait"
    PROVE  OInv'
<1>t. WaitTypeOK /\ ContextInTime /\ NeverWaits /\ LateSleepsAreShort
  BY DEF OInv, Stopping
<1>1. /\ waiting' = "poll"
      /\ late' = late + (IF ctxDone THEN 1 ELSE 0)
      /\ slept' = slept + (IF ctxDone /\ delay > Lag THEN 1 ELSE 0)
      /\ lag' = 0 /\ delay' = 0 /\ wake' = 0
      /\ hint' = 0 /\ polls' = polls + 1 /\ ceiling' = grow(ceiling)
      /\ UNCHANGED <<initial, maxDelay, age, deadline, ctxDone, doneAt>>
  BY DEF PollAgain, StartPoll, handle, context
<1>2. ceiling' \in Nat
  BY <1>1, <1>t, GrowType DEF WaitTypeOK
<1>3. WaitTypeOK'
  BY <1>1, <1>2, <1>t, WaitTypes DEF WaitTypeOK
<1>4. NotYetWaiting'
  BY <1>1 DEF NotYetWaiting
<1>5. ContextInTime'
  BY <1>1, <1>t DEF ContextInTime
<1>6. NeverWaits'
  <2>1. ctxDone => taken' = taken + 1
    BY <1>1, <1>t, WaitTypes DEF taken
  <2> QED
    BY <1>1, <1>t, <2>1, WaitTypes DEF NeverWaits
<1>7. late > 0 => delay <= Lag
  BY <1>t, WaitTypes DEF LateSleepsAreShort
<1>8. LateSleepsAreShort'
  BY <1>1, <1>t, <1>7, WaitTypes DEF LateSleepsAreShort
<1> QED
  BY <1>3, <1>4, <1>5, <1>6, <1>8 DEF OInv, Stopping

\* Wait returns.
LEMMA WaitReturnsOInv ==
    ASSUME OInv, WaitReturns, step' # "call"
    PROVE  OInv'
<1>1. WaitTypeOK'
  BY WaitTypes DEF OInv, WaitTypeOK, WaitReturns, handle, context
<1> QED
  BY <1>1 DEF OInv, NotYetWaiting, Stopping, WaitReturns

\* A sleep begins.
LEMMA NotDoneOInv ==
    ASSUME OInv, waiting = "poll", NEW r \in Nat, NotDone(r), step' = "wait"
    PROVE  OInv'
<1>t. WaitTypeOK /\ ContextInTime /\ NeverWaits /\ LateSleepsAreShort
  BY DEF OInv, Stopping
<1>1. PICK d \in nextDelay(ceiling, r) : delay' = d /\ wake' = age + d
  BY DEF NotDone
<1>2. d \in Nat
  BY <1>1, <1>t, NextDelayType DEF WaitTypeOK
<1>3. /\ waiting' = "sleep" /\ hint' = r /\ lag' = 0
      /\ UNCHANGED <<initial, maxDelay, age, deadline, ctxDone, doneAt, ceiling, polls, late,
                      slept>>
  BY DEF NotDone, handle, context, counts
<1>4. WaitTypeOK'
  BY <1>1, <1>2, <1>3, <1>t, WaitTypes DEF WaitTypeOK
<1>5. NotYetWaiting' /\ ContextInTime'
  BY <1>3, <1>t DEF NotYetWaiting, ContextInTime
<1>6. NeverWaits'
  <2>1. taken' = taken + 1
    BY <1>3, <1>t, WaitTypes DEF taken
  <2> QED
    BY <1>3, <1>t, <2>1, WaitTypes DEF NeverWaits
<1>7. LateSleepsAreShort'
  BY <1>1, <1>2, <1>3, <1>t, WaitTypes DEF LateSleepsAreShort
<1> QED
  BY <1>4, <1>5, <1>6, <1>7 DEF OInv, Stopping

\* The context ends, before Wait or in it.
LEMMA ContextEndsOInv ==
    ASSUME OInv, ContextEnds, step' = step
    PROVE  OInv'
<1>1. /\ ~ctxDone /\ ctxDone' = TRUE /\ doneAt' = age
      /\ UNCHANGED <<initial, maxDelay, waiting, age, deadline, ceiling, delay, hint, wake, lag,
                      polls, late, slept>>
  BY DEF ContextEnds, handle, sleeping, counts
<1>t. WaitTypeOK
  BY DEF OInv
<1>2. WaitTypeOK'
  BY <1>1, <1>t DEF WaitTypeOK
<1>3. NotYetWaiting'
  BY <1>1 DEF OInv, NotYetWaiting
<1>4. ASSUME waiting # "no"
      PROVE  ContextInTime' /\ NeverWaits' /\ LateSleepsAreShort'
  <2>1. ContextInTime /\ LateSleepsAreShort
    BY <1>4 DEF OInv, Stopping
  <2>2. taken' = taken
    BY <1>1 DEF taken
  <2>3. ContextInTime'
    BY <1>1, <2>1 DEF ContextInTime
  <2>4. NeverWaits'
    BY <1>1, <1>t, <2>2, WaitTypes DEF NeverWaits
  <2> QED
    BY <1>1, <2>1, <2>3, <2>4 DEF LateSleepsAreShort
<1> QED
  BY <1>1, <1>2, <1>3, <1>4 DEF OInv, Stopping

\* The clock goes on.
LEMMA TickOInv ==
    ASSUME OInv, Tick, step = "wait", step' = step
    PROVE  OInv'
<1>t. WaitTypeOK /\ ContextInTime /\ NeverWaits /\ LateSleepsAreShort
  BY DEF OInv, Stopping, Tick
<1>1. /\ waiting # "no" /\ age' = age + 1 /\ lag' = (IF due THEN lag + 1 ELSE 0)
      /\ due => lag < Lag
      /\ UNCHANGED <<initial, maxDelay, waiting, deadline, ctxDone, doneAt, ceiling, delay,
                      hint, wake, polls, late, slept>>
  BY DEF Tick, handle, context, sleeping, counts
<1>2. WaitTypeOK'
  <2>1. lag' \in 0..Lag /\ age' \in Nat
    BY <1>1, <1>t, WaitTypes
  <2> QED
    BY <1>1, <1>t, <2>1 DEF WaitTypeOK
<1>3. ContextInTime'
  <2>1. (~ctxDone /\ deadline # Never) => age < deadline
    BY <1>t, WaitTypes DEF Tick, passed
  <2> QED
    BY <1>1, <1>t, <2>1, WaitTypes DEF ContextInTime
<1>4. ctxDone => lag' = lag + 1
  <2>1. waiting \in {"poll", "sleep"} /\ delay \in Nat
    BY <1>1, <1>t DEF WaitTypeOK
  <2> QED
    BY <1>1, <1>t, <2>1 DEF due, sleepCancelled, LateSleepsAreShort
<1>5. NeverWaits'
  <2>1. taken' = taken
    BY <1>1 DEF taken
  <2> QED
    BY <1>1, <1>t, <1>4, <2>1, WaitTypes DEF NeverWaits
<1>6. LateSleepsAreShort'
  BY <1>1, <1>t, <1>4, WaitTypes DEF LateSleepsAreShort
<1> QED
  BY <1>1, <1>2, <1>3, <1>5, <1>6 DEF OInv, Stopping, NotYetWaiting

\* Every step of Wait preserves the invariant.
LEMMA WaitStepOInv ==
    ASSUME OInv, Waiting
    PROVE  OInv'
<1>0. /\ step = "wait" /\ step' # "call" /\ WaitStep
      /\ waiting' # "no" => step' = "wait"
  BY DEF Waiting, LegEnds, opVars
<1>1. CASE PollAnswered
  <2>1. ASSUME NEW r \in RetryAfters, NotDone(r)
        PROVE  OInv'
    BY <1>0, <1>1, <2>1, NotDoneOInv, OperationAssumption DEF PollAnswered, NotDone
  <2> QED
    BY <1>0, <1>1, <2>1, WaitReturnsOInv DEF PollAnswered
<1>2. CASE PollCutOff \/ PollErrs
  BY <1>0, <1>2, WaitReturnsOInv DEF PollCutOff, PollErrs, PollFails
<1>3. CASE SleepEnds
  <2>1. ASSUME PollAgain, delay = 0 \/ age >= wake
        PROVE  OInv'
    BY <1>0, <1>3, <2>1, PollAgainOInv DEF SleepEnds, PollAgain, StartPoll
  <2> QED
    BY <1>0, <1>3, <2>1, WaitReturnsOInv DEF SleepEnds
<1>4. CASE DeadlinePasses \/ CallerCancels
  BY <1>0, <1>4, ContextEndsOInv DEF DeadlinePasses, CallerCancels, ContextEnds
<1>5. CASE Tick
  BY <1>0, <1>5, TickOInv DEF Tick
<1> QED
  BY <1>0, <1>1, <1>2, <1>3, <1>4, <1>5 DEF WaitStep, OwnStep

\* So does every step of a composed operation.
LEMMA NextOInv == OInv /\ [Next]_vars => OInv'
<1> SUFFICES ASSUME OInv, [Next]_vars
             PROVE  OInv'
  OBVIOUS
<1>1. ASSUME UNCHANGED waitVars, step' = "call" => step = "call",
             step' # "wait" => step # "wait"
      PROVE  OInv'
  <2>1. UNCHANGED <<initial, maxDelay, waiting, age, deadline, ctxDone, doneAt, ceiling, delay,
                    hint, wake, lag, polls, late, slept>>
    BY <1>1 DEF waitVars, handle, context, sleeping, counts
  <2>2. WaitTypeOK' /\ NotYetWaiting'
    BY <1>1, <2>1 DEF OInv, WaitTypeOK, NotYetWaiting
  <2>3. Stopping'
    BY <2>1 DEF OInv, Stopping, ContextInTime, NeverWaits, LateSleepsAreShort, taken
  <2> QED
    BY <2>2, <2>3 DEF OInv
<1>2. CASE Run
  <2>1. PICK d \in Deadlines : deadline' = d
    BY <1>2 DEF Run
  <2>2. deadline' \in Nat \cup {Never}
    BY <2>1, OperationAssumption
  <2>3. /\ UNCHANGED <<initial, maxDelay, waiting, ceiling, delay, hint, wake, lag, polls, late,
                        slept>>
        /\ age' = 0 /\ ctxDone' = FALSE /\ doneAt' = Never /\ step = "between"
    BY <1>2 DEF Run, handle, sleeping, counts
  <2> QED
    BY <2>2, <2>3 DEF OInv, WaitTypeOK, NotYetWaiting, Stopping
<1>3. CASE CallReturns
  BY <1>3, BeginWaitOInv DEF CallReturns
<1>4. CASE CancelledInCall
  BY <1>4, ContextEndsOInv DEF CancelledInCall, opVars
<1>5. CASE Waiting
  BY <1>5, WaitStepOInv
<1>6. CASE NewComposedOp \/ SendCall \/ CallFails \/ DropOp
  BY <1>1, <1>6 DEF NewComposedOp, SendCall, CallFails, DropOp, LegEnds
<1>7. CASE UNCHANGED vars
  BY <1>1, <1>7 DEF vars, opVars
<1> QED
  BY <1>2, <1>3, <1>4, <1>5, <1>6, <1>7 DEF Next

\* OInv is an invariant.
LEMMA OperationInvariance == Spec => []OInv
<1>1. Init => OInv
  BY InitOInv
<1> QED
  BY <1>1, NextOInv, PTL DEF Spec

\* Wait is over when its context or its context's deadline is, however long the
\* server asked it to wait, but for the steps of its goroutine that are left,
\* each at most Lag late; and only one poll goes out after that from a sleep
\* longer than Lag.
THEOREM WaitsStopWithTheirContext == Spec => []WaitStopsWithContext
<1>1. OInv => WaitStopsWithContext
  <2> SUFFICES ASSUME OInv, waiting # "no"
               PROVE  /\ ctxDone => age <= doneAt + Lag * stepsLeft
                      /\ deadline # Never => age <= deadline + Lag * stepsLeft
                      /\ slept <= 1
    BY DEF WaitStopsWithContext
  <2>1. WaitTypeOK /\ ContextInTime /\ NeverWaits /\ slept <= 1
    BY DEF OInv, Stopping, LateSleepsAreShort
  <2>2. Lag * stepsLeft \in Nat /\ Lag * (taken + 1) <= Lag * stepsLeft
    <3>1. /\ stepsLeft = taken + 1 \/ stepsLeft = (taken + 1) + 1
          /\ taken + 1 \in Nat /\ stepsLeft \in Nat
      BY <2>1, WaitTypes DEF stepsLeft, taken
    <3>2. /\ Lag * (taken + 1) \in Nat /\ Lag * stepsLeft \in Nat
          /\ Lag * ((taken + 1) + 1) = Lag * (taken + 1) + Lag
      BY <3>1, OneMoreStep
    <3>3. Lag \in Nat
      BY OperationAssumption
    <3> QED
      BY <3>1, <3>2, <3>3
  <2>3. ctxDone => doneAt \in Nat /\ age <= doneAt + Lag * stepsLeft
    BY <2>1, <2>2, WaitTypes DEF NeverWaits
  <2>4. deadline # Never => age <= deadline + Lag * stepsLeft
    BY <2>1, <2>2, <2>3, WaitTypes DEF ContextInTime
  <2> QED
    BY <2>1, <2>3, <2>4
<1> QED
  BY <1>1, OperationInvariance, PTL

-----------------------------------------------------------------------------
(* The law of the waits.                                                      *)

\* One more factor in the bound.
LEMMA CeilingOfGrows ==
    ASSUME PowerLaw, NEW n \in Nat, n >= 1, initial \in Nat
    PROVE  ceilingOf(n) \in Nat /\ ceilingOf(n + 1) = ceilingOf(n) * Multiplier
<1> DEFINE m == n - 1
           p == Multiplier^m
<1>1. m \in Nat /\ (n + 1) - 1 = m + 1
  OBVIOUS
<1>2. p \in Nat /\ Multiplier^(m + 1) = p * Multiplier
  BY <1>1 DEF PowerLaw
<1>3. Multiplier \in Nat
  BY OperationAssumption
<1> HIDE DEF m, p
<1>4. initial * (p * Multiplier) = (initial * p) * Multiplier /\ initial * p \in Nat
  BY <1>2, <1>3, SMTT(30)
<1>5. ceilingOf(n) = initial * p
  BY DEF ceilingOf, m, p
<1>6. ceilingOf(n + 1) = initial * (p * Multiplier)
  BY <1>1, <1>2 DEF ceilingOf
<1> QED
  BY <1>4, <1>5, <1>6

\* A larger ceiling has a larger product.
LEMMA ProductGrows ==
    ASSUME NEW x \in Nat, NEW y \in Nat, x <= y
    PROVE  x * Multiplier <= y * Multiplier
<1>1. Multiplier \in Nat
  BY OperationAssumption
<1> QED
  BY <1>1, SMTT(30)

\* The first poll starts from InitialDelay.
LEMMA CeilingStarts ==
    ASSUME PowerLaw, initial \in Nat
    PROVE  ceilingOf(1) = initial
<1>1. ceilingOf(1) = initial * Multiplier^0
  BY DEF ceilingOf
<1> QED
  BY <1>1 DEF PowerLaw

\* A wait of Wait's own choosing is below the ceiling.
LEMMA NextDelayLaw ==
    ASSUME NEW ceil \in Nat, ceil >= 1, NEW h \in Nat, NEW d \in nextDelay(ceil, h)
    PROVE  IF h > 0 THEN d = h ELSE d < ceil
BY DEF nextDelay, jitterDraw

\* What CeilingLaw and WaitLaw speak of.
lawVars == <<handle, waiting, ceiling, delay, hint, polls>>

\* Every step preserves the law.
LEMMA NextLaw ==
    ASSUME PowerLaw, LInv, [Next]_vars
    PROVE  (CeilingLaw /\ WaitLaw)'
<1>0. WaitTypeOK /\ CeilingLaw /\ WaitLaw
  BY DEF LInv, OInv
<1>1. CASE UNCHANGED lawVars
  BY <1>0, <1>1 DEF lawVars, handle, CeilingLaw, WaitLaw, ceilingOf
<1>2. ASSUME WaitReturns
      PROVE  (CeilingLaw /\ WaitLaw)'
  BY <1>2 DEF WaitReturns, CeilingLaw, WaitLaw
<1>3. ASSUME BeginWait
      PROVE  (CeilingLaw /\ WaitLaw)'
  <2>1. waiting' = "poll" /\ polls' = 1 /\ ceiling' = initial /\ initial' = initial
    BY <1>0, <1>3 DEF BeginWait, StartPoll, CeilingLaw, handle
  <2>2. ceilingOf(1)' = ceilingOf(1)
    BY <2>1 DEF ceilingOf
  <2>3. ceilingOf(1) = initial
    BY <1>0, CeilingStarts DEF WaitTypeOK
  <2> QED
    BY <1>0, <2>1, <2>2, <2>3 DEF CeilingLaw, WaitLaw, WaitTypeOK
<1>4. ASSUME waiting = "poll", NEW r \in RetryAfters, NotDone(r)
      PROVE  (CeilingLaw /\ WaitLaw)'
  <2>1. PICK d \in nextDelay(ceiling, r) : delay' = d
    BY <1>4 DEF NotDone
  <2>2. r \in Nat
    BY OperationAssumption
  <2>3. /\ waiting' = "sleep" /\ hint' = r /\ ceiling' = ceiling /\ polls' = polls
        /\ initial' = initial /\ maxDelay' = maxDelay
    BY <1>4 DEF NotDone, handle, counts
  <2>4. /\ polls >= 1 /\ ceiling >= 1 /\ ceiling <= ceilingOf(polls)
        /\ polls > 1 => ceiling <= maxDelay
    BY <1>0, <1>4 DEF CeilingLaw
  <2>5. IF r > 0 THEN d = r ELSE d < ceiling
    BY <1>0, <2>1, <2>2, <2>4, NextDelayLaw DEF WaitTypeOK
  <2>6. d \in Nat
    BY <1>0, <2>1, <2>2, NextDelayType DEF WaitTypeOK
  <2>7. ceilingOf(polls) \in Nat
    BY <1>0, <2>4, CeilingOfGrows DEF WaitTypeOK
  <2>8. ceilingOf(polls') = ceilingOf(polls) /\ CeilingLaw'
    BY <1>0, <2>3, <2>4 DEF CeilingLaw, ceilingOf
  <2>9. r = 0 => d < ceilingOf(polls) /\ (polls > 1 => d < maxDelay)
    BY <1>0, <2>2, <2>4, <2>5, <2>6, <2>7 DEF WaitTypeOK
  <2>10. WaitLaw'
    BY <2>1, <2>2, <2>3, <2>5, <2>9 DEF WaitLaw, ceilingOf
  <2> QED
    BY <2>8, <2>10
<1>5. ASSUME waiting = "sleep", PollAgain
      PROVE  (CeilingLaw /\ WaitLaw)'
  <2>1. /\ waiting' = "poll" /\ polls' = polls + 1 /\ ceiling' = grow(ceiling)
        /\ initial' = initial /\ maxDelay' = maxDelay
    BY <1>5 DEF PollAgain, StartPoll, handle
  <2>2. polls >= 1 /\ ceiling >= 1 /\ ceiling <= ceilingOf(polls)
    BY <1>0, <1>5 DEF CeilingLaw
  <2>3. /\ grow(ceiling) \in Nat /\ grow(ceiling) >= 1
        /\ grow(ceiling) <= ceiling * Multiplier /\ grow(ceiling) <= maxDelay
    BY <1>0, <2>2, GrowBounds DEF WaitTypeOK
  <2>4. ceilingOf(polls) \in Nat /\ ceilingOf(polls + 1) = ceilingOf(polls) * Multiplier
    BY <1>0, <2>2, CeilingOfGrows DEF WaitTypeOK
  <2>5. ceiling * Multiplier <= ceilingOf(polls) * Multiplier
    BY <1>0, <2>2, <2>4, ProductGrows DEF WaitTypeOK
  <2>6. ceiling * Multiplier \in Nat /\ ceilingOf(polls) * Multiplier \in Nat
    BY <1>0, <2>4, OperationAssumption DEF WaitTypeOK
  <2>7. grow(ceiling) <= ceilingOf(polls + 1)
    BY <2>3, <2>4, <2>5, <2>6
  <2> QED
    BY <1>0, <2>1, <2>2, <2>3, <2>7 DEF CeilingLaw, WaitLaw, ceilingOf, WaitTypeOK
<1>6. ASSUME WaitStep
      PROVE  (CeilingLaw /\ WaitLaw)'
  <2>1. CASE PollAnswered
    BY <1>2, <1>4, <2>1 DEF PollAnswered
  <2>2. CASE PollCutOff \/ PollErrs
    BY <1>2, <2>2 DEF PollCutOff, PollErrs, PollFails
  <2>3. CASE SleepEnds
    BY <1>2, <1>5, <2>3 DEF SleepEnds
  <2>4. CASE DeadlinePasses \/ CallerCancels \/ Tick
    BY <1>1, <2>4 DEF DeadlinePasses, CallerCancels, ContextEnds, Tick, lawVars, sleeping, counts
  <2> QED
    BY <1>6, <2>1, <2>2, <2>3, <2>4 DEF WaitStep, OwnStep
<1>7. CASE Run \/ CancelledInCall
  BY <1>1, <1>7 DEF Run, CancelledInCall, ContextEnds, lawVars, sleeping, counts
<1>8. CASE UNCHANGED waitVars
  BY <1>1, <1>8 DEF waitVars, lawVars, sleeping, counts
<1> QED
  BY <1>3, <1>6, <1>7, <1>8
     DEF Next, vars, NewComposedOp, SendCall, CallFails, CallReturns, Waiting, DropOp

\* A server's RetryAfter is obeyed as it stands; every other wait after poll n
\* stays below InitialDelay * Multiplier^(n-1) and, from the second on, below
\* MaxDelay.  In every leg of every composed operation, under every tuning.
THEOREM WaitsFollowTheLaw ==
    ASSUME PowerLaw
    PROVE  Spec => []WaitLaw
<1>1. Init => LInv
  BY InitOInv DEF LInv
<1>2. LInv /\ [Next]_vars => LInv'
  BY NextOInv, NextLaw DEF LInv
<1>3. LInv => WaitLaw
  BY DEF LInv
<1> QED
  BY <1>1, <1>2, <1>3, PTL DEF Spec
=============================================================================
