-------------------------- MODULE StandaloneProofs --------------------------
(* The stack of presets.Standalone uses its breaker as module Breaker says a *)
(* breaker is used, for every configuration of both interceptors.            *)
EXTENDS Standalone, TLAPS

\* What the stack needs to know of the retry loop.
LoopTypes == phase \in [Calls -> Phases] /\ result \in [Calls -> Codes]

\* The inductive invariant: the loop's types, one record per call, and the
\* breaker's environment as Init left it.
SInv ==
    /\ LoopTypes
    /\ OneRecordPerCall
    /\ healthy = FALSE

\* The retry loop keeps its types.
LEMMA LoopKeepsTypes == LoopTypes /\ [RetryNext]_retryVars => LoopTypes'
<1> SUFFICES ASSUME LoopTypes, [RetryNext]_retryVars
             PROVE  LoopTypes'
  OBVIOUS
<1>1. ASSUME NEW c \in Calls, Begin(c) \/ CancelContext(c)
      PROVE  LoopTypes'
  BY <1>1 DEF Begin, CancelContext, LoopTypes, Phases
<1>2. ASSUME NEW c \in Calls, NEW code \in Codes, NEW h \in Hints, AttemptEnds(c, code, h)
      PROVE  LoopTypes'
  BY <1>2 DEF AttemptEnds, LoopTypes, Phases
<1>3. ASSUME NEW c \in Calls, NextAttempt(c) \/ GiveUp(c)
      PROVE  LoopTypes'
  BY <1>3 DEF NextAttempt, GiveUp, LoopTypes, Phases, Codes
<1>4. ASSUME NEW c \in Calls, Finish(c)
      PROVE  LoopTypes'
  BY <1>4 DEF Finish, LoopTypes, Phases, Codes
<1>5. CASE UNCHANGED retryVars
  BY <1>5 DEF retryVars, LoopTypes
<1> QED
  BY <1>1, <1>2, <1>3, <1>4, <1>5
     DEF RetryNext, LoopStep, SleepZero, TimerFires, ContextEndsSleep

\* The phases a call passes through inside the loop are not idle, and other
\* calls stay where they are.
LEMMA LoopStaysInside ==
    ASSUME NEW c \in Calls, phase \in [Calls -> Phases],
           LoopStep(c) \/ CancelContext(c)
    PROVE  \A d \in Calls : phase'[d] # "idle" <=> phase[d] # "idle"
<1>1. ASSUME NEW code \in Codes, NEW h \in Hints, AttemptEnds(c, code, h)
      PROVE  \A d \in Calls : phase'[d] # "idle" <=> phase[d] # "idle"
  BY <1>1 DEF AttemptEnds
<1>2. ASSUME phase[c] = "backoff", NextAttempt(c) \/ GiveUp(c)
      PROVE  \A d \in Calls : phase'[d] # "idle" <=> phase[d] # "idle"
  BY <1>2 DEF NextAttempt, GiveUp
<1>3. ASSUME CancelContext(c)
      PROVE  \A d \in Calls : phase'[d] # "idle" <=> phase[d] # "idle"
  BY <1>3 DEF CancelContext
<1> QED
  BY <1>1, <1>2, <1>3 DEF LoopStep, SleepZero, TimerFires, ContextEndsSleep

\* The breaker variables of the stack are those of Breaker.
LEMMA SameVars == UNCHANGED breakerVars <=> UNCHANGED B!vars
BY DEF breakerVars, B!vars, B!ring, B!counters

\* Admitting a call is one of allow's steps and leaves the backend alone.
LEMMA AdmitAllows ==
    ASSUME NEW c \in Calls, Admit(c)
    PROVE  /\ B!Allow(c)
           /\ inflight' = inflight \cup {c}
           /\ UNCHANGED healthy
BY DEF Admit, B!Allow, B!AllowClosed, B!AllowFirstTrial, B!AllowTrial

\* Initial states.
LEMMA InitSInv == Init => SInv
<1> SUFFICES ASSUME Init
             PROVE  SInv
  OBVIOUS
<1>1. LoopTypes
  BY DEF Init, RetryInit, LoopTypes, Phases, Codes
<1>2. OneRecordPerCall
  BY DEF Init, B!Init, RetryInit, OneRecordPerCall
<1> QED
  BY <1>1, <1>2 DEF Init, SInv

\* Every step of the stack is a step of the retry loop or leaves it alone.
LEMMA StepOfRetry == Next => [RetryNext]_retryVars
BY DEF Next, Admit, Refuse, Surface, Loop, Return, Tick, RetryNext

\* Every step preserves the invariant.
LEMMA NextSInv == SInv /\ [Next]_svars => SInv'
<1> SUFFICES ASSUME SInv, [Next]_svars
             PROVE  SInv'
  OBVIOUS
<1>r. LoopTypes'
  <2>1. [RetryNext]_retryVars
    BY StepOfRetry DEF svars
  <2> QED
    BY <2>1, LoopKeepsTypes DEF SInv
<1>p. phase \in [Calls -> Phases]
  BY DEF SInv, LoopTypes
<1>1. ASSUME NEW c \in Calls, Admit(c)
      PROVE  SInv'
  <2>1. phase' = [phase EXCEPT ![c] = "attempt"]
    BY <1>1 DEF Admit, Begin
  <2>2. OneRecordPerCall'
    BY <1>1, <1>p, <2>1, AdmitAllows DEF SInv, OneRecordPerCall
  <2>3. healthy' = FALSE
    BY <1>1, AdmitAllows DEF SInv
  <2> QED
    BY <1>r, <2>2, <2>3 DEF SInv
<1>2. ASSUME UNCHANGED <<retryVars, breakerVars>>
      PROVE  SInv'
  BY <1>2, <1>r DEF SInv, OneRecordPerCall, retryVars, breakerVars
<1>3. ASSUME NEW c \in Calls, Loop(c)
      PROVE  SInv'
  <2>1. \A d \in Calls : phase'[d] # "idle" <=> phase[d] # "idle"
    BY <1>3, <1>p, LoopStaysInside DEF Loop
  <2> QED
    BY <1>3, <1>r, <2>1 DEF SInv, OneRecordPerCall, Loop, breakerVars
<1>4. ASSUME NEW c \in Calls, Return(c)
      PROVE  SInv'
  <2>1. phase' = [phase EXCEPT ![c] = "idle"]
    BY <1>4 DEF Return, Finish
  <2>2. inflight' = inflight \ {c} /\ UNCHANGED healthy
    BY <1>4 DEF Return, B!Record
  <2>3. OneRecordPerCall'
    BY <1>p, <2>1, <2>2 DEF SInv, OneRecordPerCall
  <2> QED
    BY <1>r, <2>2, <2>3 DEF SInv
<1>5. ASSUME Tick
      PROVE  SInv'
  BY <1>5, <1>r DEF SInv, OneRecordPerCall, Tick, B!Tick, retryVars
<1> QED
  BY <1>1, <1>2, <1>3, <1>4, <1>5 DEF Next, Refuse, Surface, svars

\* SInv is an invariant.
LEMMA StandaloneInvariance == Spec => []SInv
BY InitSInv, NextSInv, PTL DEF Spec

\* Every step of the stack is one of the breaker's, or does not touch it.
LEMMA StepOfBreaker == SInv /\ [Next]_svars => [B!Next]_(B!vars)
<1> SUFFICES ASSUME SInv, [Next]_svars
             PROVE  B!Next \/ UNCHANGED breakerVars
  BY SameVars
<1>1. ASSUME NEW c \in Calls, Admit(c)
      PROVE  B!Next
  BY <1>1, AdmitAllows DEF B!Next
<1>2. ASSUME NEW c \in Calls, Return(c)
      PROVE  B!Next
  <2>1. result[c] \in B!Outcomes
    BY DEF SInv, LoopTypes, Codes, B!Outcomes
  <2>2. B!Record(c, result[c])
    BY <1>2 DEF Return
  <2>3. B!Return(c)
    BY <2>1, <2>2 DEF SInv, B!Return
  <2> QED
    BY <2>3 DEF B!Next
<1>3. ASSUME Tick
      PROVE  B!Next
  BY <1>3 DEF Tick, B!Next
<1> QED
  BY <1>1, <1>2, <1>3 DEF Next, Refuse, Surface, Loop, svars

-----------------------------------------------------------------------------

\* A call is between allow and record exactly while retry works on it: every
\* admitted call is recorded once, whatever number of attempts it made.
THEOREM RecordedOnce == Spec => []OneRecordPerCall
<1>1. SInv => OneRecordPerCall
  BY DEF SInv
<1> QED
  BY <1>1, StandaloneInvariance, PTL

\* The stack implements Breaker: every theorem about Breaker holds of the
\* breaker inside the preset.
THEOREM StandaloneRefinement == Spec => ImplementsBreaker
<1>1. Init => B!Init
  BY DEF Init
<1> QED
  BY <1>1, StandaloneInvariance, StepOfBreaker, PTL
     DEF Spec, ImplementsBreaker, B!Spec

\* The stack implements Retry: a call it admits runs the retry loop and nothing
\* else does, so every theorem about RetrySpec holds of the preset's calls.
THEOREM StandaloneRetries == Spec => RetrySpec
<1>1. Init => RetryInit
  BY DEF Init
<1>2. [Next]_svars => [RetryNext]_retryVars
  BY StepOfRetry DEF svars
<1> QED
  BY <1>1, <1>2, PTL DEF Spec, RetrySpec
=============================================================================
