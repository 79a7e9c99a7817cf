----------------------------- MODULE RetryProofs -----------------------------
(* What holds of the retry loop and of the keys it replays, and of retry and *)
(* timeout together, for every number of callers, every configuration, every *)
(* set of server hints, both orders of the interceptors and every deadline.  *)
(* The first part speaks of RetrySpec alone, the second of Spec.             *)
EXTENDS TimedRetry, TLAPS

\* A call sleeps between attempts only if its method may be repeated and an
\* attempt is left: what the gate and the loop condition established before the
\* sleep still holds after it.
SleepsWithAttemptsLeft ==
    \A c \in Calls : phase[c] = "backoff" =>
        retriesAllowed(c) /\ attempt[c] < MaxAttempts

\* The inductive invariant.
RInv ==
    /\ RetryTypeOK
    /\ OneKeyPerCall
    /\ UnsafeSentOnce
    /\ SleepsWithAttemptsLeft

-----------------------------------------------------------------------------

\* A cap on a natural number by a natural number is one.
LEMMA MinOfType ==
    ASSUME NEW a \in Nat, NEW b \in Nat
    PROVE  MinOf(a, b) \in Nat
BY DEF MinOf

\* fullDelay returns durations.
LEMMA FullDelayType ==
    ASSUME NEW ceil \in Nat, minDelay \in Nat
    PROVE  fullDelay(ceil) \subseteq Nat
<1> DEFINE upper == MinOf(ceil, MaxBackoff)
<1>1. upper \in Nat
  BY MinOfType, RetryAssumption
<1> HIDE DEF upper
<1>2. ASSUME NEW d \in (IF minDelay > 0
                        THEN IF upper <= minDelay THEN {minDelay}
                             ELSE minDelay..upper - 1
                        ELSE 0..upper - 1)
      PROVE  d \in Nat
  BY <1>1, <1>2
<1> QED
  BY <1>2 DEF fullDelay, upper

\* decorrelatedDelay returns durations.
LEMMA DecorrelatedDelayType ==
    ASSUME NEW p \in Nat
    PROVE  decorrelatedDelay(p) \subseteq Nat
<1> DEFINE upper == MinOf(p * DecorrelationFactor, MaxBackoff)
<1>1. upper \in Nat
  <2>1. p * DecorrelationFactor \in Nat
    BY RetryAssumption
  <2> QED
    BY <2>1, MinOfType, RetryAssumption
<1> HIDE DEF upper
<1>2. ASSUME NEW d \in (IF upper <= Initial THEN {Initial} ELSE Initial..upper - 1)
      PROVE  d \in Nat
  BY <1>1, <1>2, RetryAssumption
<1> QED
  BY <1>2 DEF decorrelatedDelay, upper

\* nextDelay returns durations, whatever the server sent.
LEMMA NextDelayType ==
    ASSUME NEW h \in Nat, NEW ceil \in Nat, NEW p \in Nat, minDelay \in Nat
    PROVE  nextDelay(h, ceil, p) \subseteq Nat
<1>1. MinOf(h, MaxBackoff) \in Nat
  BY MinOfType, RetryAssumption
<1> QED
  BY <1>1, FullDelayType, DecorrelatedDelayType DEF nextDelay

\* grow returns durations.
LEMMA GrowType ==
    ASSUME NEW ceil \in Nat
    PROVE  grow(ceil) \in Nat
<1>1. ceil * Multiplier \in Nat
  BY RetryAssumption
<1> QED
  BY <1>1, MinOfType, RetryAssumption DEF grow

\* The initial states satisfy the invariant.
LEMMA InitRInv == RetryInit => RInv
BY RetryAssumption
   DEF RetryInit, RInv, RetryTypeOK, OneKeyPerCall, UnsafeSentOnce,
       SleepsWithAttemptsLeft, Phases, Codes, IdempotencyUnknown, NoKey

\* Every step preserves it.
LEMMA NextRInv == RInv /\ [RetryNext]_retryVars => RInv'
<1> SUFFICES ASSUME RInv, [RetryNext]_retryVars
             PROVE  RInv'
  OBVIOUS
<1> USE DEF RInv
<1>t. /\ phase \in [Calls -> Phases]
      /\ attempt \in [Calls -> 0..MaxAttempts]
      /\ MaxAttempts \in Nat /\ MaxAttempts >= 2
      /\ minDelay \in Nat
  BY RetryAssumption DEF RetryTypeOK
<1>1. ASSUME NEW c \in Calls, Begin(c)
      PROVE  RInv'
  <2> PICK m \in Methods, old \in AttachedKeys :
        /\ method' = [method EXCEPT ![c] = m]
        /\ key' = [key EXCEPT ![c] = KeyHeader(m, old)]
        /\ sent' = [sent EXCEPT ![c] = {KeyHeader(m, old)}]
    BY <1>1 DEF Begin
  <2>1. KeyHeader(m, old) \in Int
    BY RetryAssumption DEF KeyHeader, KeyFn, NoKey
  <2>2. ~IsSafe(m) => KeyHeader(m, old) # NoKey
    BY RetryAssumption DEF KeyHeader, KeyFn, NoKey
  <2>3. RetryTypeOK'
    BY <1>1, <1>t, <2>1 DEF Begin, RetryTypeOK, config, locals, Phases
  <2>4. OneKeyPerCall'
    BY <1>1, <2>2, <1>t DEF Begin, OneKeyPerCall, RetryTypeOK, Phases
  <2>5. UnsafeSentOnce'
    BY <1>1, <1>t DEF Begin, UnsafeSentOnce, RetryTypeOK
  <2>6. SleepsWithAttemptsLeft'
    BY <1>1, <1>t DEF Begin, SleepsWithAttemptsLeft, retriesAllowed, RetryTypeOK
  <2> QED
    BY <2>3, <2>4, <2>5, <2>6
<1>2. ASSUME NEW c \in Calls, NEW code \in Codes, NEW h \in Hints,
             AttemptEnds(c, code, h)
      PROVE  RInv'
  <2>h. h \in Nat
    BY RetryAssumption
  <2>a. /\ ceiling[c] \in Nat
        /\ prev[c] \in Nat
        /\ attempt[c] \in 0..MaxAttempts
    BY DEF RetryTypeOK
  <2>1. RetryTypeOK'
    <3>1. delay' \in [Calls -> Nat]
      <4>1. nextDelay(h, ceiling[c], prev[c]) \subseteq Nat
        BY <2>h, <2>a, <1>t, NextDelayType
      <4> QED
        BY <1>2, <4>1 DEF AttemptEnds, RetryTypeOK
    <3>2. hint' \in [Calls -> Nat] /\ phase' \in [Calls -> Phases]
      BY <1>2, <2>h DEF AttemptEnds, RetryTypeOK, Phases
    <3>3. result' \in [Calls -> Codes]
      BY <1>2 DEF AttemptEnds, RetryTypeOK
    <3> QED
      BY <1>2, <3>1, <3>2, <3>3 DEF AttemptEnds, RetryTypeOK, config, request
  <2>2. OneKeyPerCall'
    BY <1>2, <1>t DEF AttemptEnds, OneKeyPerCall, request, Phases
  <2>3. UnsafeSentOnce'
    BY <1>2 DEF AttemptEnds, UnsafeSentOnce, request
  <2>4. SleepsWithAttemptsLeft'
    <3>1. phase'[c] = "backoff" => retriesAllowed(c) /\ ~lastAttempt(c)
      BY <1>2, <1>t DEF AttemptEnds
    <3>3. ASSUME NEW d \in Calls, phase'[d] = "backoff"
          PROVE  retriesAllowed(d)' /\ attempt'[d] < MaxAttempts
      <4>1. CASE d = c
        BY <1>2, <1>t, <2>a, <3>1, <3>3, <4>1
           DEF AttemptEnds, lastAttempt, retriesAllowed, request
      <4>2. CASE d # c
        BY <1>2, <1>t, <3>3, <4>2
           DEF AttemptEnds, SleepsWithAttemptsLeft, retriesAllowed, request
      <4> QED
        BY <4>1, <4>2
    <3> QED
      BY <3>3 DEF SleepsWithAttemptsLeft
  <2> QED
    BY <2>1, <2>2, <2>3, <2>4
<1>3. ASSUME NEW c \in Calls, phase[c] = "backoff", NextAttempt(c)
      PROVE  RInv'
  <2>1. attempt[c] + 1 \in 0..MaxAttempts /\ retriesAllowed(c)
    BY <1>3, <1>t DEF SleepsWithAttemptsLeft
  <2>2. RetryTypeOK'
    <3>1. grow(ceiling[c]) \in Nat
      BY GrowType DEF RetryTypeOK
    <3>2. sent' \in [Calls -> SUBSET Int]
      BY <1>3 DEF NextAttempt, RetryTypeOK
    <3>3. /\ ceiling' \in [Calls -> Nat]
          /\ attempt' \in [Calls -> 0..MaxAttempts]
          /\ prev' \in [Calls -> Nat]
      BY <1>3, <2>1, <3>1 DEF NextAttempt, RetryTypeOK
    <3>4. /\ delay' \in [Calls -> Nat]
          /\ hint' \in [Calls -> Nat]
          /\ phase' \in [Calls -> Phases]
          /\ result' \in [Calls -> Codes]
      BY <1>3 DEF NextAttempt, RetryTypeOK, Phases, Codes
    <3> QED
      BY <1>3, <3>2, <3>3, <3>4 DEF NextAttempt, RetryTypeOK, config, request
  <2>3. OneKeyPerCall'
    <3>1. sent[c] = {key[c]} /\ sent'[c] = {key[c]}
      BY <1>3 DEF NextAttempt, OneKeyPerCall, RetryTypeOK
    <3> QED
      BY <1>3, <3>1, <1>t DEF NextAttempt, OneKeyPerCall, request
  <2>4. UnsafeSentOnce'
    BY <1>3, <2>1, <1>t DEF NextAttempt, UnsafeSentOnce, retriesAllowed, request
  <2>5. SleepsWithAttemptsLeft'
    BY <1>3, <1>t DEF NextAttempt, SleepsWithAttemptsLeft, retriesAllowed, request
  <2> QED
    BY <2>2, <2>3, <2>4, <2>5
<1>4. ASSUME NEW c \in Calls, phase[c] = "backoff", GiveUp(c)
      PROVE  RInv'
  <2>1. RetryTypeOK'
    BY <1>4 DEF GiveUp, RetryTypeOK, Phases, config, request
  <2>2. OneKeyPerCall'
    BY <1>4, <1>t DEF GiveUp, OneKeyPerCall, request
  <2>3. UnsafeSentOnce'
    BY <1>4 DEF GiveUp, UnsafeSentOnce, request
  <2>4. SleepsWithAttemptsLeft'
    BY <1>4, <1>t DEF GiveUp, SleepsWithAttemptsLeft, retriesAllowed, request
  <2> QED
    BY <2>1, <2>2, <2>3, <2>4
<1>5. ASSUME NEW c \in Calls, CancelContext(c)
      PROVE  RInv'
  <2>1. ctxDone' \in [Calls -> BOOLEAN]
    BY <1>5 DEF CancelContext, RetryTypeOK
  <2> QED
    BY <1>5, <2>1
       DEF CancelContext, RetryTypeOK, OneKeyPerCall, UnsafeSentOnce,
           SleepsWithAttemptsLeft, retriesAllowed, config, locals, request
<1>6. ASSUME NEW c \in Calls, Finish(c)
      PROVE  RInv'
  <2>1. RetryTypeOK'
    BY <1>6, <1>t, RetryAssumption
       DEF Finish, RetryTypeOK, Phases, Codes, NoKey, config
  <2>2. OneKeyPerCall'
    BY <1>6, <1>t DEF Finish, OneKeyPerCall, RetryTypeOK
  <2>3. UnsafeSentOnce'
    BY <1>6, <1>t DEF Finish, UnsafeSentOnce, RetryTypeOK
  <2>4. SleepsWithAttemptsLeft'
    BY <1>6, <1>t DEF Finish, SleepsWithAttemptsLeft, retriesAllowed, RetryTypeOK
  <2> QED
    BY <2>1, <2>2, <2>3, <2>4
<1>7. ASSUME UNCHANGED retryVars
      PROVE  RInv'
  BY <1>7 DEF retryVars, RetryTypeOK, OneKeyPerCall, UnsafeSentOnce,
              SleepsWithAttemptsLeft, retriesAllowed, config, locals, request
<1>8. ASSUME NEW c \in Calls, LoopStep(c)
      PROVE  RInv'
  BY <1>2, <1>3, <1>4, <1>8
     DEF LoopStep, SleepZero, TimerFires, ContextEndsSleep
<1> QED
  BY <1>1, <1>5, <1>6, <1>7, <1>8 DEF RetryNext

\* RInv is an invariant.
LEMMA RetryInvariance == RetrySpec => []RInv
BY InitRInv, NextRInv, PTL DEF RetrySpec

-----------------------------------------------------------------------------

\* The retry loop keeps its types; in particular no call makes more than
\* MaxAttempts attempts.
THEOREM RetryTypeCorrect == RetrySpec => []RetryTypeOK
<1>1. RInv => RetryTypeOK
  BY DEF RInv
<1> QED
  BY <1>1, RetryInvariance, PTL

\* Every attempt of a call carries the key its first attempt carried, and every
\* attempt of a mutating method carries one.
THEOREM KeyIsReplayed == RetrySpec => []OneKeyPerCall
<1>1. RInv => OneKeyPerCall
  BY DEF RInv
<1> QED
  BY <1>1, RetryInvariance, PTL

\* The gate of WrapUnary holds: an undeclared method is never sent twice.
THEOREM UnsafeIsSentOnce == RetrySpec => []UnsafeSentOnce
<1>1. RInv => UnsafeSentOnce
  BY DEF RInv
<1> QED
  BY <1>1, RetryInvariance, PTL

-----------------------------------------------------------------------------
(* The law of the delays.                                                     *)

\* What the standard module Naturals defines Multiplier^n to be.  None of the
\* provers knows exponentiation, so the theorem names what it uses of it.
PowerLaw ==
    /\ Multiplier^0 = 1
    /\ \A n \in Nat : Multiplier^n \in Nat /\ Multiplier^(n + 1) = Multiplier^n * Multiplier

\* The bound the documentation gives for attempt n.
ceilingOf(n) == MinOf(MaxBackoff, Initial * Multiplier^(n - 1))

\* The local ceiling, which the code multiplies and caps step by step, is that
\* bound.
CeilingLaw ==
    \A c \in Calls :
        /\ phase[c] = "idle" => ceiling[c] = Initial
        /\ phase[c] # "idle" => attempt[c] >= 1 /\ ceiling[c] = ceilingOf(attempt[c])

LInv == RInv /\ CeilingLaw /\ BackoffLaw

\* The first attempt has the initial ceiling.
LEMMA CeilingStarts ==
    ASSUME PowerLaw
    PROVE  ceilingOf(1) = Initial
BY RetryAssumption DEF PowerLaw, ceilingOf, MinOf

\* Capping at every step is capping once.
LEMMA CappedProduct ==
    ASSUME NEW p \in Nat, NEW m \in Nat, m >= 1, NEW max \in Nat
    PROVE  MinOf(MinOf(max, p) * m, max) = MinOf(max, p * m)
<1>1. p <= p * m /\ max <= max * m
  BY SMTT(30)
<1>2. CASE p <= max
  BY <1>1, <1>2 DEF MinOf
<1>3. CASE p > max
  <2>1. p * m > max
    BY <1>1, <1>3
  <2> QED
    BY <1>1, <1>3, <2>1 DEF MinOf
<1> QED
  BY <1>2, <1>3

\* grow takes the ceiling of an attempt to that of the next.
LEMMA CeilingGrows ==
    ASSUME PowerLaw, NEW n \in Nat, n >= 1
    PROVE  grow(ceilingOf(n)) = ceilingOf(n + 1)
<1> DEFINE k == n - 1
           p == Initial * Multiplier^k
<1>1. k \in Nat /\ k + 1 = n /\ (n + 1) - 1 = k + 1
  OBVIOUS
<1>2. Multiplier^k \in Nat /\ Multiplier^(k + 1) = Multiplier^k * Multiplier
  BY <1>1 DEF PowerLaw
<1>3. p \in Nat /\ Initial * Multiplier^(k + 1) = p * Multiplier
  BY <1>2, RetryAssumption
<1>4. grow(ceilingOf(n)) = MinOf(MinOf(MaxBackoff, p) * Multiplier, MaxBackoff)
  BY DEF grow, ceilingOf
<1>5. ceilingOf(n + 1) = MinOf(MaxBackoff, p * Multiplier)
  BY <1>1, <1>3 DEF ceilingOf
<1> HIDE DEF p, k
<1> QED
  BY <1>3, <1>4, <1>5, CappedProduct, RetryAssumption

\* A delay that nextDelay chooses obeys the law, if the ceiling does.
LEMMA NextDelayLaw ==
    ASSUME NEW h \in Nat, NEW ceil \in Nat, NEW p \in Nat, minDelay \in Nat,
           ceil <= MaxBackoff, strategy \in {"full", "decorrelated"},
           NEW d \in nextDelay(h, ceil, p)
    PROVE  /\ h > 0 => d = MinOf(h, MaxBackoff)
           /\ (h = 0 /\ strategy = "full") => d >= minDelay /\ (d < ceil \/ d = minDelay)
           /\ (h = 0 /\ strategy = "decorrelated") => d \in Initial..MaxBackoff
<1>1. CASE h > 0
  BY <1>1 DEF nextDelay
<1>2. CASE h = 0 /\ strategy = "full"
  BY <1>2, RetryAssumption DEF nextDelay, fullDelay, MinOf
<1>3. CASE h = 0 /\ strategy = "decorrelated"
  <2> DEFINE upper == MinOf(p * DecorrelationFactor, MaxBackoff)
  <2>1. upper \in Nat /\ upper <= MaxBackoff
    <3>1. p * DecorrelationFactor \in Nat
      BY RetryAssumption
    <3> QED
      BY <3>1, RetryAssumption DEF MinOf
  <2>2. d \in (IF upper <= Initial THEN {Initial} ELSE Initial..upper - 1)
    BY <1>3 DEF nextDelay, decorrelatedDelay
  <2> HIDE DEF upper
  <2> QED
    BY <1>3, <2>1, <2>2, RetryAssumption
<1> QED
  BY <1>1, <1>2, <1>3

\* The initial states satisfy the law.
LEMMA InitLInv == RetryInit => LInv
<1> SUFFICES ASSUME RetryInit PROVE LInv
  OBVIOUS
<1>1. CeilingLaw
  BY DEF RetryInit, CeilingLaw
<1>2. BackoffLaw
  BY DEF RetryInit, BackoffLaw
<1> QED
  BY <1>1, <1>2, InitRInv DEF LInv

\* Every step preserves it.
LEMMA NextLInv ==
    ASSUME PowerLaw
    PROVE  LInv /\ [RetryNext]_retryVars => LInv'
<1> SUFFICES ASSUME LInv, [RetryNext]_retryVars
             PROVE  CeilingLaw' /\ BackoffLaw'
  BY NextRInv DEF LInv
<1> USE DEF LInv
<1>t. /\ phase \in [Calls -> Phases]
      /\ attempt \in [Calls -> 0..MaxAttempts]
      /\ MaxAttempts \in Nat
      /\ minDelay \in Nat
      /\ strategy \in {"full", "decorrelated"}
      /\ ceiling \in [Calls -> Nat] /\ prev \in [Calls -> Nat]
      /\ delay \in [Calls -> Nat] /\ hint \in [Calls -> Nat]
  BY RetryAssumption DEF RInv, RetryTypeOK
<1>1. ASSUME NEW c \in Calls, Begin(c)
      PROVE  CeilingLaw' /\ BackoffLaw'
  <2>1. CeilingLaw'
    BY <1>1, <1>t, CeilingStarts DEF Begin, CeilingLaw, locals, ceilingOf
  <2>2. BackoffLaw'
    BY <1>1, <1>t DEF Begin, BackoffLaw, locals, config
  <2> QED
    BY <2>1, <2>2
<1>2. ASSUME NEW c \in Calls, NEW code \in Codes, NEW h \in Hints,
             AttemptEnds(c, code, h)
      PROVE  CeilingLaw' /\ BackoffLaw'
  <2>0. h \in Nat
    BY RetryAssumption
  <2>1. CeilingLaw'
    BY <1>2, <1>t DEF AttemptEnds, CeilingLaw, ceilingOf
  <2>2. ceiling[c] = ceilingOf(attempt[c]) /\ ceiling[c] <= MaxBackoff
    BY <1>2, <1>t, RetryAssumption DEF AttemptEnds, CeilingLaw, ceilingOf, MinOf
  <2>3. ASSUME NEW e \in Calls, phase'[e] = "backoff"
        PROVE  /\ hint'[e] > 0 => delay'[e] = MinOf(hint'[e], MaxBackoff)
               /\ (hint'[e] = 0 /\ strategy = "full") =>
                     /\ delay'[e] >= minDelay
                     /\ delay'[e] < ceilingOf(attempt[e]) \/ delay'[e] = minDelay
               /\ (hint'[e] = 0 /\ strategy = "decorrelated") =>
                     delay'[e] \in Initial..MaxBackoff
    <3>1. CASE e = c
      <4>1. PICK d \in nextDelay(h, ceiling[c], prev[c]) :
                    delay' = [delay EXCEPT ![c] = d] /\ hint' = [hint EXCEPT ![c] = h]
        BY <1>2, <1>t, <2>3, <3>1 DEF AttemptEnds
      <4>2. delay'[c] = d /\ hint'[c] = h
        BY <4>1, <1>t
      <4> QED
        BY <4>2, <3>1, <2>0, <2>2, <1>t, NextDelayLaw
    <3>2. CASE e # c
      <4>1. /\ phase[e] = "backoff"
            /\ delay'[e] = delay[e] /\ hint'[e] = hint[e]
        BY <1>2, <1>t, <2>3, <3>2 DEF AttemptEnds
      <4> QED
        BY <4>1, <1>t DEF BackoffLaw, ceilingOf
    <3> QED
      BY <3>1, <3>2
  <2>4. hint' \in [Calls -> Nat] /\ UNCHANGED <<attempt, strategy, minDelay>>
    BY <1>2, <1>t, <2>0 DEF AttemptEnds, config
  <2> QED
    BY <2>1, <2>3, <2>4, <1>t DEF BackoffLaw, ceilingOf
<1>3. ASSUME NEW c \in Calls, phase[c] = "backoff", NextAttempt(c)
      PROVE  CeilingLaw' /\ BackoffLaw'
  <2>1. /\ attempt[c] \in Nat /\ attempt[c] >= 1
        /\ ceiling[c] = ceilingOf(attempt[c])
    BY <1>3, <1>t DEF CeilingLaw
  <2>2. grow(ceiling[c]) = ceilingOf(attempt[c] + 1)
    BY <2>1, CeilingGrows
  <2>3. CeilingLaw'
    <3> SUFFICES ASSUME NEW e \in Calls
                 PROVE  /\ phase'[e] = "idle" => ceiling'[e] = Initial
                        /\ phase'[e] # "idle" =>
                              /\ attempt'[e] >= 1
                              /\ ceiling'[e] = ceilingOf(attempt'[e])
      BY DEF CeilingLaw, ceilingOf
    <3>1. CASE e = c
      BY <3>1, <1>3, <1>t, <2>1, <2>2 DEF NextAttempt
    <3>2. CASE e # c
      BY <3>2, <1>3, <1>t DEF NextAttempt, CeilingLaw
    <3> QED
      BY <3>1, <3>2
  <2>4. BackoffLaw'
    BY <1>3, <1>t DEF NextAttempt, BackoffLaw, config
  <2> QED
    BY <2>3, <2>4
<1>4. ASSUME NEW c \in Calls, phase[c] = "backoff", GiveUp(c)
      PROVE  CeilingLaw' /\ BackoffLaw'
  <2>1. CeilingLaw'
    BY <1>4, <1>t DEF GiveUp, CeilingLaw, ceilingOf
  <2>2. BackoffLaw'
    BY <1>4, <1>t DEF GiveUp, BackoffLaw, config
  <2> QED
    BY <2>1, <2>2
<1>5. ASSUME NEW c \in Calls, CancelContext(c)
      PROVE  CeilingLaw' /\ BackoffLaw'
  BY <1>5 DEF CancelContext, CeilingLaw, BackoffLaw, ceilingOf, config, locals
<1>6. ASSUME NEW c \in Calls, Finish(c)
      PROVE  CeilingLaw' /\ BackoffLaw'
  <2>1. CeilingLaw'
    BY <1>6, <1>t DEF Finish, CeilingLaw, ceilingOf
  <2>2. BackoffLaw'
    BY <1>6, <1>t DEF Finish, BackoffLaw, config
  <2> QED
    BY <2>1, <2>2
<1>7. ASSUME UNCHANGED retryVars
      PROVE  CeilingLaw' /\ BackoffLaw'
  BY <1>7 DEF retryVars, CeilingLaw, BackoffLaw, ceilingOf, config, locals
<1>8. ASSUME NEW c \in Calls, LoopStep(c)
      PROVE  CeilingLaw' /\ BackoffLaw'
  BY <1>2, <1>3, <1>4, <1>8
     DEF LoopStep, SleepZero, TimerFires, ContextEndsSleep
<1> QED
  BY <1>1, <1>5, <1>6, <1>7, <1>8 DEF RetryNext

\* The delay of every attempt follows the documented law, with the power of the
\* Multiplier in it, although the code only ever multiplies and caps a local.
THEOREM DelaysFollowTheLaw ==
    ASSUME PowerLaw
    PROVE  RetrySpec => []BackoffLaw
<1>1. LInv => BackoffLaw
  BY DEF LInv
<1> QED
  BY <1>1, InitLInv, NextLInv, PTL DEF RetrySpec

-----------------------------------------------------------------------------
(* Retry and timeout together.                                                *)

\* The clocks, the deadlines and the history.
TimeTypeOK ==
    /\ placement \in Placements
    /\ age \in [Calls -> Nat]
    /\ caller \in [Calls -> Deadlines \cup {Never}]
    /\ deadline \in [Calls -> Nat \cup {Never}]
    /\ attemptBy \in [Calls -> Nat \cup {Never}]
    /\ wake \in [Calls -> Nat]
    /\ lag \in [Calls -> 0..Lag]
    /\ doneAt \in [Calls -> Nat \cup {Never}]
    /\ late \in [Calls -> Nat]
    /\ slept \in [Calls -> Nat]

\* The context retry runs under has the deadline that apply chose when the call
\* began, whatever deadlines its attempts were given since; between calls the
\* clock stands still.
DeadlineKept ==
    \A c \in Calls :
        /\ phase[c] = "idle" => age[c] = 0 /\ late[c] = 0 /\ slept[c] = 0 /\ ~ctxDone[c]
        /\ phase[c] # "idle" => deadline[c] = callDeadline(caller[c])

\* The steps a call's goroutine can have taken since its context ended.
taken(c) == 2 * late[c] + (IF phase[c] = "attempt" THEN 0
                           ELSE IF phase[c] = "backoff" THEN 1 ELSE 2)

\* No context outlives its deadline.
ContextInTime(c) ==
    /\ (ctxDone[c] /\ deadline[c] # Never) => doneAt[c] <= deadline[c]
    /\ (~ctxDone[c] /\ deadline[c] # Never) =>
          age[c] <= deadline[c] + (IF phase[c] = "returning" THEN lag[c] ELSE 0)

\* A call whose context is done has had time for the steps it took and for
\* none else: it never waits for anything but to be run.
NeverWaits(c) == ctxDone[c] => doneAt[c] \in Nat /\ age[c] <= doneAt[c] + Lag * taken(c) + lag[c]

\* Only calls whose context is done are late, and a sleep begun by one of them
\* has its timer fire no sooner than its delay after the goroutine could go on.
LateSleepsAreShort(c) ==
    /\ late[c] > 0 => ctxDone[c]
    /\ (late[c] > 0 /\ phase[c] = "backoff") => wake[c] + lag[c] = age[c] + delay[c]
    /\ slept[c] <= 1 /\ slept[c] <= late[c]

Stopping ==
    \A c \in Calls : phase[c] # "idle" =>
        ContextInTime(c) /\ NeverWaits(c) /\ LateSleepsAreShort(c)

\* The inductive invariant.
TInv == RInv /\ TimeTypeOK /\ DeadlineKept /\ Stopping

-----------------------------------------------------------------------------

\* Every step of a call is a step of module Retry, and the clock is none.
LEMMA NextRefines == [Next]_vars => [RetryNext]_retryVars
<1> SUFFICES ASSUME [Next]_vars
             PROVE  [RetryNext]_retryVars
  OBVIOUS
<1>1. ASSUME NEW c \in Calls, BeginCall(c)
      PROVE  RetryNext
  BY <1>1 DEF BeginCall, RetryNext
<1>2. ASSUME NEW c \in Calls, AttemptAnswered(c)
      PROVE  RetryNext
  BY <1>2 DEF AttemptAnswered, RetryNext, LoopStep
<1>3. ASSUME NEW c \in Calls, CallerCancels(c)
      PROVE  RetryNext
  BY <1>3 DEF CallerCancels, ContextEnds, RetryNext
<1>4. ASSUME NEW c \in Calls, AttemptCutOff(c)
      PROVE  RetryNext
  <2>1. contextError(c) \subseteq Codes
    BY DEF contextError, translateDeadline, rawDeadlineExceeded, Codes
  <2> QED
    BY <1>4, <2>1, TimedRetryAssumption DEF AttemptCutOff, RetryNext, LoopStep
<1>5. ASSUME NEW c \in Calls, SleepEnds(c)
      PROVE  RetryNext
  BY <1>5 DEF SleepEnds, RetryNext, LoopStep
<1>6. ASSUME NEW c \in Calls, DeadlinePasses(c)
      PROVE  RetryNext
  BY <1>6 DEF DeadlinePasses, ContextEnds, RetryNext
<1>7. ASSUME NEW c \in Calls, FinishCall(c)
      PROVE  RetryNext
  BY <1>7 DEF FinishCall, RetryNext
<1>8. CASE Tick
  BY <1>8 DEF Tick
<1>9. CASE UNCHANGED vars
  BY <1>9 DEF vars
<1> QED
  BY <1>1, <1>2, <1>3, <1>4, <1>5, <1>6, <1>7, <1>8, <1>9 DEF Next, OwnStep

\* With the timeout interceptor around it or inside it, retry is still the retry
\* of module Retry: it repeats, sleeps and gives up as that module says.
THEOREM TimedRetryRefinement == Spec => RetrySpec
<1>1. Init => RetryInit
  BY DEF Init
<1> QED
  BY <1>1, NextRefines, PTL DEF Spec, RetrySpec

-----------------------------------------------------------------------------
(* Deadlines.                                                                 *)

\* apply never gives more time than the caller did, nor more than Default.
LEMMA ApplyShortens ==
    ASSUME NEW d \in Nat \cup {Never}, NEW t \in Nat
    PROVE  /\ apply(d, t) \in Nat
           /\ d # Never => apply(d, t) <= d
           /\ apply(d, t) <= t + Default
BY DeadlineAssumption DEF apply, Never

\* The deadline of a call is a time, and no later than its caller's.
LEMMA CallDeadlineShortens ==
    ASSUME NEW d \in Deadlines \cup {Never}
    PROVE  /\ callDeadline(d) \in Nat \cup {Never}
           /\ d # Never => callDeadline(d) # Never /\ callDeadline(d) <= d
           /\ placement = "outside" => callDeadline(d) # Never /\ callDeadline(d) <= Default
<1>1. d \in Nat \cup {Never} /\ 0 \in Nat
  BY TimedRetryAssumption
<1>2. Never \notin Nat /\ Default \in Nat
  BY DeadlineAssumption DEF Never
<1>3. /\ apply(d, 0) \in Nat
      /\ d # Never => apply(d, 0) <= d
      /\ apply(d, 0) <= Default
  <2>1. /\ apply(d, 0) \in Nat
        /\ d # Never => apply(d, 0) <= d
        /\ apply(d, 0) <= 0 + Default
    BY <1>1, ApplyShortens
  <2> QED
    BY <1>2, <2>1
<1> QED
  BY <1>1, <1>2, <1>3 DEF callDeadline

\* The deadline of an attempt is a time.
LEMMA AttemptDeadlineType ==
    ASSUME NEW d \in Nat \cup {Never}, NEW t \in Nat
    PROVE  attemptDeadline(d, t) \in Nat \cup {Never}
BY ApplyShortens DEF attemptDeadline

\* A step costs at most Lag.
LEMMA OneMoreStep ==
    ASSUME NEW n \in Nat
    PROVE  Lag * n \in Nat /\ Lag * (n + 1) = Lag * n + Lag
BY TimedRetryAssumption

\* More steps cost no less.
LEMMA StepsCost ==
    ASSUME NEW m \in Nat, NEW n \in Nat, m <= n
    PROVE  Lag * m \in Nat /\ Lag * n \in Nat /\ Lag * m <= Lag * n
<1>1. Lag \in Nat
  BY TimedRetryAssumption
<1>2. PICK k \in Nat : n = m + k
  <2>1. n - m \in Nat /\ n = m + (n - m)
    OBVIOUS
  <2> QED
    BY <2>1
<1>3. Lag * n = Lag * m + Lag * k
  BY <1>1, <1>2
<1>4. Lag * m \in Nat /\ Lag * k \in Nat
  BY <1>1
<1> QED
  BY <1>3, <1>4

\* The initial states satisfy the invariant.
LEMMA InitTInv == Init => TInv
<1> SUFFICES ASSUME Init PROVE TInv
  OBVIOUS
<1>1. RInv
  BY InitRInv DEF Init
<1>2. TimeTypeOK
  BY TimedRetryAssumption DEF Init, TimeTypeOK
<1>3. DeadlineKept /\ Stopping
  BY DEF Init, RetryInit, DeadlineKept, Stopping
<1> QED
  BY <1>1, <1>2, <1>3 DEF TInv

\* A step of one call leaves what holds of the others.
LEMMA OthersStop ==
    ASSUME NEW e \in Calls, ContextInTime(e) /\ NeverWaits(e) /\ LateSleepsAreShort(e),
           phase'[e] = phase[e], ctxDone'[e] = ctxDone[e], delay'[e] = delay[e],
           age'[e] = age[e], deadline'[e] = deadline[e], wake'[e] = wake[e],
           lag'[e] = lag[e], doneAt'[e] = doneAt[e], late'[e] = late[e],
           slept'[e] = slept[e]
    PROVE  ContextInTime(e)' /\ NeverWaits(e)' /\ LateSleepsAreShort(e)'
BY DEF ContextInTime, NeverWaits, LateSleepsAreShort, taken

\* Every step preserves it.
LEMMA NextTInv == TInv /\ [Next]_vars => TInv'
<1> SUFFICES ASSUME TInv, [Next]_vars
             PROVE  TInv'
  OBVIOUS
<1>r. RInv'
  BY NextRefines, NextRInv DEF TInv
<1> USE DEF TInv
<1>t. /\ phase \in [Calls -> Phases] /\ phase' \in [Calls -> Phases]
      /\ delay \in [Calls -> Nat]
      /\ delay' \in [Calls -> Nat]
      /\ ctxDone \in [Calls -> BOOLEAN]
  BY <1>r DEF RInv, RetryTypeOK
<1>n. Never \notin Nat /\ Never \in Int /\ Lag \in Nat /\ 0 \in 0..Lag
  BY TimedRetryAssumption DEF Never
<1>a. ASSUME NEW c \in Calls
      PROVE  /\ age[c] \in Nat /\ wake[c] \in Nat /\ late[c] \in Nat /\ slept[c] \in Nat
             /\ lag[c] \in Nat /\ lag[c] <= Lag
             /\ deadline[c] \in Nat \cup {Never} /\ doneAt[c] \in Nat \cup {Never}
             /\ taken(c) \in Nat
             /\ Lag * taken(c) \in Nat
             /\ Lag * (taken(c) + 1) = Lag * taken(c) + Lag
             /\ Lag * (taken(c) + 2) = Lag * taken(c) + Lag + Lag
  <2>1. /\ age[c] \in Nat /\ wake[c] \in Nat /\ late[c] \in Nat /\ slept[c] \in Nat
        /\ lag[c] \in Nat /\ lag[c] <= Lag
        /\ deadline[c] \in Nat \cup {Never} /\ doneAt[c] \in Nat \cup {Never}
    BY <1>n DEF TimeTypeOK
  <2>2. taken(c) \in Nat
    BY <2>1 DEF taken
  <2>3. (taken(c) + 1) \in Nat /\ (taken(c) + 1) + 1 = taken(c) + 2
    BY <2>2
  <2> QED
    BY <2>1, <2>2, <2>3, OneMoreStep
<1> DEFINE Timed == TimeTypeOK' /\ DeadlineKept' /\ Stopping'
           Stops(c) == ContextInTime(c)' /\ NeverWaits(c)' /\ LateSleepsAreShort(c)'
<1>1. ASSUME NEW c \in Calls, BeginCall(c)
      PROVE  Timed
  <2> PICK d \in Deadlines :
        /\ caller' = [caller EXCEPT ![c] = d]
        /\ deadline' = [deadline EXCEPT ![c] = callDeadline(d)]
        /\ attemptBy' = [attemptBy EXCEPT ![c] = attemptDeadline(callDeadline(d), 0)]
    BY <1>1 DEF BeginCall
  <2>0. phase[c] = "idle" /\ phase' = [phase EXCEPT ![c] = "attempt"]
        /\ ctxDone' = ctxDone /\ delay' = delay
        /\ lag' = [lag EXCEPT ![c] = 0]
        /\ UNCHANGED <<placement, age, wake, doneAt, late, slept>>
    BY <1>1 DEF BeginCall, Begin, locals, Runs, ended
  <2>1. /\ callDeadline(d) \in Nat \cup {Never}
        /\ attemptDeadline(callDeadline(d), 0) \in Nat \cup {Never}
    BY CallDeadlineShortens, AttemptDeadlineType
  <2>2. TimeTypeOK'
    BY <2>0, <2>1, <1>n DEF TimeTypeOK
  <2>3. DeadlineKept'
    BY <2>0, <1>t DEF DeadlineKept, TimeTypeOK, callDeadline
  <2>4. Stops(c)
    <3>1. /\ age'[c] = 0 /\ late'[c] = 0 /\ slept'[c] = 0 /\ ~ctxDone'[c]
          /\ phase'[c] = "attempt" /\ deadline'[c] \in Nat \cup {Never}
      BY <2>0, <2>1, <1>t DEF DeadlineKept, TimeTypeOK
    <3> QED
      BY <3>1, <1>n DEF ContextInTime, NeverWaits, LateSleepsAreShort
  <2>5. ASSUME NEW e \in Calls, e # c, phase'[e] # "idle"
        PROVE  Stops(e)
    BY <2>0, <2>5, <1>t, OthersStop DEF Stopping, TimeTypeOK
  <2>6. Stopping'
    BY <2>4, <2>5 DEF Stopping
  <2> QED
    BY <2>2, <2>3, <2>6
<1>2. ASSUME NEW c \in Calls, NEW code \in Codes, NEW h \in Hints,
             AttemptEnds(c, code, h),
             wake' = [wake EXCEPT ![c] = age[c] + delay'[c]],
             Runs(c),
             UNCHANGED <<contexts, age, attemptBy, ended>>
      PROVE  Timed
  <2>0. /\ phase[c] = "attempt" /\ phase'[c] \in {"backoff", "returning"}
        /\ \A e \in Calls \ {c} : phase'[e] = phase[e] /\ delay'[e] = delay[e]
        /\ ctxDone' = ctxDone
        /\ lag' = [lag EXCEPT ![c] = 0]
        /\ UNCHANGED <<placement, caller, deadline, age, attemptBy, doneAt, late, slept>>
    BY <1>2, <1>t DEF AttemptEnds, Runs, contexts, ended
  <2>w. /\ wake'[c] = age[c] + delay'[c]
        /\ \A e \in Calls \ {c} : wake'[e] = wake[e]
        /\ wake' \in [Calls -> Nat]
    <3>1. age[c] \in Nat /\ delay'[c] \in Nat
      BY <1>t DEF TimeTypeOK
    <3>2. age[c] + delay'[c] \in Nat
      BY <3>1
    <3> QED
      BY <1>2, <3>2 DEF TimeTypeOK
  <2>1. TimeTypeOK'
    BY <2>0, <2>w, <1>n DEF TimeTypeOK
  <2>2. DeadlineKept'
    BY <2>0, <1>t DEF DeadlineKept, callDeadline
  <2>3. Stops(c)
    <3>1. /\ age'[c] = age[c] /\ late'[c] = late[c] /\ slept'[c] = slept[c]
          /\ ctxDone'[c] = ctxDone[c] /\ lag'[c] = 0 /\ deadline'[c] = deadline[c]
          /\ doneAt'[c] = doneAt[c]
      BY <2>0 DEF TimeTypeOK
    <3>2. ContextInTime(c) /\ NeverWaits(c) /\ LateSleepsAreShort(c)
      BY <2>0 DEF Stopping
    <3>3. ContextInTime(c)'
      BY <2>0, <3>1, <3>2, <1>a, <1>n DEF ContextInTime
    <3>4. NeverWaits(c)'
      <4>1. taken(c)' = taken(c) + 1 \/ taken(c)' = taken(c) + 2
        BY <2>0, <3>1, <1>a DEF taken
      <4> QED
        BY <4>1, <3>1, <3>2, <1>a, <1>n DEF NeverWaits
    <3>5. LateSleepsAreShort(c)'
      BY <3>1, <3>2, <2>w, <1>a, <1>t DEF LateSleepsAreShort
    <3> QED
      BY <3>3, <3>4, <3>5
  <2>4. ASSUME NEW e \in Calls, e # c, phase'[e] # "idle"
        PROVE  Stops(e)
    BY <2>0, <2>w, <2>4, <1>t, OthersStop DEF Stopping, TimeTypeOK
  <2>5. Stopping'
    BY <2>3, <2>4 DEF Stopping
  <2> QED
    BY <2>1, <2>2, <2>5
<1>3. ASSUME NEW c \in Calls, SleepEnds(c)
      PROVE  Timed
  <2>0. /\ phase[c] = "backoff" /\ phase'[c] \in {"attempt", "returning"}
        /\ \A e \in Calls \ {c} : phase'[e] = phase[e] /\ delay'[e] = delay[e]
        /\ ctxDone' = ctxDone
    BY <1>3, <1>t
       DEF SleepEnds, SleepZero, TimerFires, ContextEndsSleep, NextAttempt, GiveUp
  <2>1. /\ lag' = [lag EXCEPT ![c] = 0]
        /\ UNCHANGED <<placement, caller, deadline, age, doneAt>>
    BY <1>3 DEF SleepEnds, Runs, contexts
  <2>2. attemptDeadline(deadline[c], age[c]) \in Nat \cup {Never}
    BY AttemptDeadlineType DEF TimeTypeOK
  <2>3. /\ late'[c] = IF phase'[c] = "attempt" /\ ctxDone[c] THEN late[c] + 1 ELSE late[c]
        /\ slept'[c] = IF phase'[c] = "attempt" /\ ctxDone[c] /\ delay[c] > Lag
                       THEN slept[c] + 1 ELSE slept[c]
        /\ \A e \in Calls \ {c} : late'[e] = late[e] /\ slept'[e] = slept[e]
        /\ late' \in [Calls -> Nat] /\ slept' \in [Calls -> Nat]
    BY <1>3 DEF SleepEnds, TimeTypeOK
  <2>4. /\ \A e \in Calls \ {c} : wake'[e] = wake[e]
        /\ attemptBy' \in [Calls -> Nat \cup {Never}]
        /\ wake' \in [Calls -> Nat]
    BY <1>3, <2>2 DEF SleepEnds, TimeTypeOK
  <2>5. TimeTypeOK'
    BY <2>1, <2>3, <2>4, <1>n DEF TimeTypeOK
  <2>6. DeadlineKept'
    BY <2>0, <2>1, <2>3 DEF DeadlineKept, callDeadline
  <2>7. Stops(c)
    <3>1. /\ age'[c] = age[c] /\ ctxDone'[c] = ctxDone[c] /\ lag'[c] = 0
          /\ deadline'[c] = deadline[c] /\ doneAt'[c] = doneAt[c]
      BY <2>0, <2>1 DEF TimeTypeOK
    <3>2. ContextInTime(c) /\ NeverWaits(c) /\ LateSleepsAreShort(c)
      BY <2>0 DEF Stopping
    <3>3. ContextInTime(c)'
      BY <2>0, <3>1, <3>2, <1>a, <1>n DEF ContextInTime
    <3>4. NeverWaits(c)'
      <4>1. ctxDone[c] => taken(c)' = taken(c) + 1
        BY <2>0, <2>3, <1>a DEF taken
      <4> QED
        BY <4>1, <3>1, <3>2, <1>a, <1>n DEF NeverWaits
    <3>5. (phase'[c] = "attempt" /\ late[c] > 0) => delay[c] <= Lag
      <4>1. CASE SleepZero(c)
        BY <4>1, <1>n DEF SleepZero
      <4>2. CASE TimerFires(c) /\ age[c] >= wake[c]
        <5>1. late[c] > 0 => wake[c] + lag[c] = age[c] + delay[c]
          BY <2>0, <3>2 DEF LateSleepsAreShort
        <5>2. delay[c] \in Nat
          BY <1>t
        <5> QED
          BY <4>2, <5>1, <5>2, <1>a, <1>n
      <4>3. CASE ContextEndsSleep(c)
        BY <4>3, <1>t DEF ContextEndsSleep, GiveUp
      <4> QED
        BY <1>3, <4>1, <4>2, <4>3 DEF SleepEnds
    <3>6. LateSleepsAreShort(c)'
      <4>1. delay[c] \in Nat
        BY <1>t
      <4>2. late'[c] > 0 => ctxDone'[c]
        BY <2>3, <3>1, <3>2, <1>a DEF LateSleepsAreShort
      <4>3. slept'[c] <= 1 /\ slept'[c] <= late'[c]
        BY <2>3, <3>2, <3>5, <4>1, <1>a, <1>n DEF LateSleepsAreShort
      <4> QED
        BY <2>0, <4>2, <4>3 DEF LateSleepsAreShort
    <3> QED
      BY <3>3, <3>4, <3>6
  <2>8. ASSUME NEW e \in Calls, e # c, phase'[e] # "idle"
        PROVE  Stops(e)
    BY <2>0, <2>1, <2>3, <2>4, <2>8, <1>t, OthersStop DEF Stopping, TimeTypeOK
  <2>9. Stopping'
    BY <2>7, <2>8 DEF Stopping
  <2> QED
    BY <2>5, <2>6, <2>9
<1>4. ASSUME NEW c \in Calls, ContextEnds(c)
      PROVE  Timed
  <2>0. /\ phase[c] \in {"attempt", "backoff"} /\ ~ctxDone[c]
        /\ ctxDone' = [ctxDone EXCEPT ![c] = TRUE]
        /\ doneAt' = [doneAt EXCEPT ![c] = age[c]]
        /\ UNCHANGED <<phase, delay, placement, caller, deadline, age, attemptBy, wake, lag,
                        late, slept>>
    BY <1>4 DEF ContextEnds, CancelContext, locals, contexts
  <2>1. TimeTypeOK'
    BY <2>0, <1>a DEF TimeTypeOK
  <2>2. DeadlineKept'
    BY <2>0, <1>t DEF DeadlineKept, callDeadline
  <2>3. Stops(c)
    <3>1. ContextInTime(c) /\ NeverWaits(c) /\ LateSleepsAreShort(c)
      BY <2>0 DEF Stopping
    <3>2. ctxDone'[c] = TRUE /\ doneAt'[c] = age[c]
      BY <2>0, <1>t DEF TimeTypeOK
    <3>3. ContextInTime(c)'
      BY <2>0, <3>1, <3>2, <1>a, <1>n DEF ContextInTime
    <3>4. NeverWaits(c)'
      <4>1. taken(c)' = taken(c)
        BY <2>0 DEF taken
      <4> QED
        BY <2>0, <3>2, <4>1, <1>a, <1>n DEF NeverWaits
    <3>5. LateSleepsAreShort(c)'
      BY <2>0, <3>1, <3>2 DEF LateSleepsAreShort
    <3> QED
      BY <3>3, <3>4, <3>5
  <2>4. ASSUME NEW e \in Calls, e # c, phase'[e] # "idle"
        PROVE  Stops(e)
    BY <2>0, <2>4, <1>t, OthersStop DEF Stopping, TimeTypeOK
  <2>5. Stopping'
    BY <2>3, <2>4 DEF Stopping
  <2> QED
    BY <2>1, <2>2, <2>5
<1>5. ASSUME NEW c \in Calls, FinishCall(c)
      PROVE  Timed
  <2>0. /\ phase' = [phase EXCEPT ![c] = "idle"] /\ delay' = delay
        /\ ctxDone' = [ctxDone EXCEPT ![c] = FALSE]
        /\ lag' = [lag EXCEPT ![c] = 0]
    BY <1>5 DEF FinishCall, Finish, Runs
  <2>1. TimeTypeOK'
    BY <1>5, <2>0, <1>n DEF FinishCall, TimeTypeOK
  <2>2. DeadlineKept'
    BY <1>5, <2>0, <1>t DEF FinishCall, DeadlineKept, callDeadline, TimeTypeOK
  <2>3. ASSUME NEW e \in Calls, phase'[e] # "idle"
        PROVE  Stops(e)
    BY <1>5, <2>0, <2>3, <1>t, OthersStop DEF FinishCall, Stopping, TimeTypeOK
  <2>4. Stopping'
    BY <2>3 DEF Stopping
  <2> QED
    BY <2>1, <2>2, <2>4
<1>6. ASSUME Tick
      PROVE  Timed
  <2>0. /\ UNCHANGED <<phase, delay, ctxDone, placement, caller, deadline, attemptBy,
                        wake, doneAt, late, slept>>
        /\ age' = [c \in Calls |-> IF phase[c] = "idle" THEN 0 ELSE age[c] + 1]
        /\ lag' = [c \in Calls |-> IF due(c) THEN lag[c] + 1 ELSE 0]
    BY <1>6 DEF Tick, retryVars, locals, contexts, ended
  <2>1. ASSUME NEW c \in Calls
        PROVE  /\ lag'[c] = IF due(c) THEN lag[c] + 1 ELSE 0
               /\ lag'[c] \in 0..Lag
    BY <1>6, <2>0, <1>a, <1>n DEF Tick
  <2>2. TimeTypeOK'
    <3>1. age' \in [Calls -> Nat] /\ lag' \in [Calls -> 0..Lag]
      BY <2>0, <2>1, <1>a
    <3> QED
      BY <2>0, <3>1 DEF TimeTypeOK
  <2>3. DeadlineKept'
    BY <2>0 DEF DeadlineKept, callDeadline
  <2>4. ASSUME NEW c \in Calls, phase'[c] # "idle"
        PROVE  Stops(c)
    <3>1. ContextInTime(c) /\ NeverWaits(c) /\ LateSleepsAreShort(c)
      BY <2>0, <2>4 DEF Stopping
    <3>2. /\ age'[c] = age[c] + 1 /\ phase[c] # "idle" /\ phase[c] \in Phases
          /\ phase[c] = "returning" => lag'[c] = lag[c] + 1
          /\ ctxDone[c] => lag'[c] = lag[c] + 1
      BY <2>0, <2>1, <2>4, <1>t DEF due, sleepCancelled, Phases
    <3>3. phase[c] # "returning" /\ ~ctxDone[c] /\ deadline[c] # Never => age[c] < deadline[c]
      BY <1>6, <3>2, <1>a DEF Tick, contextDue, passed, Phases
    <3>4. ContextInTime(c)'
      BY <2>0, <3>1, <3>2, <3>3, <1>a, <1>n DEF ContextInTime
    <3>5. NeverWaits(c)'
      <4>1. taken(c)' = taken(c)
        BY <2>0 DEF taken
      <4> QED
        BY <2>0, <3>1, <3>2, <4>1, <1>a, <1>n DEF NeverWaits
    <3>6. LateSleepsAreShort(c)'
      BY <2>0, <3>1, <3>2, <1>a, <1>t DEF LateSleepsAreShort
    <3> QED
      BY <3>4, <3>5, <3>6
  <2>5. Stopping'
    BY <2>4 DEF Stopping
  <2> QED
    BY <2>2, <2>3, <2>5
<1>7. ASSUME UNCHANGED vars
      PROVE  Timed
  <2>0. UNCHANGED <<phase, delay, ctxDone, placement, caller, deadline, age, attemptBy, wake,
                    lag, doneAt, late, slept>>
    BY <1>7 DEF vars, retryVars, timeVars, locals, contexts, ended
  <2>1. TimeTypeOK' /\ DeadlineKept'
    BY <2>0 DEF TimeTypeOK, DeadlineKept, callDeadline
  <2>2. Stopping'
    BY <2>0, OthersStop DEF Stopping
  <2> QED
    BY <2>1, <2>2
<1>8. ASSUME NEW c \in Calls, AttemptAnswered(c)
      PROVE  Timed
  BY <1>2, <1>8 DEF AttemptAnswered
<1>9. ASSUME NEW c \in Calls, AttemptCutOff(c)
      PROVE  Timed
  <2>1. contextError(c) \subseteq Codes
    BY DEF contextError, translateDeadline, rawDeadlineExceeded, Codes
  <2> QED
    BY <1>2, <1>9, <2>1, TimedRetryAssumption DEF AttemptCutOff
<1>10. Timed
  BY <1>1, <1>3, <1>4, <1>5, <1>6, <1>7, <1>8, <1>9
     DEF Next, OwnStep, DeadlinePasses, CallerCancels
<1> QED
  BY <1>r, <1>10

\* TInv is an invariant.
LEMMA TimedInvariance == Spec => []TInv
BY InitTInv, NextTInv, PTL DEF Spec

\* A call is over when its context, its caller's deadline or Default is, but for
\* the steps of its goroutine that are left, each at most Lag late; and only one
\* attempt goes out after that from a sleep longer than Lag.
THEOREM CallsStopWithTheirContext == Spec => []CallStopsWithContext
<1>1. TInv => CallStopsWithContext
  <2> SUFFICES ASSUME TInv, NEW c \in Calls, phase[c] # "idle"
               PROVE  /\ ctxDone[c] => age[c] <= doneAt[c] + Lag * stepsLeft(c)
                      /\ caller[c] # Never => age[c] <= caller[c] + Lag * stepsLeft(c)
                      /\ placement = "outside" => age[c] <= Default + Lag * stepsLeft(c)
                      /\ slept[c] <= 1
    BY DEF CallStopsWithContext
  <2>1. /\ deadline[c] = callDeadline(caller[c])
        /\ ContextInTime(c) /\ NeverWaits(c) /\ slept[c] <= 1
    BY DEF TInv, DeadlineKept, Stopping, LateSleepsAreShort
  <2>2. /\ caller[c] \in Deadlines \cup {Never} /\ age[c] \in Nat /\ late[c] \in Nat
        /\ lag[c] \in Nat /\ lag[c] <= Lag /\ Lag \in Nat
    BY TimedRetryAssumption DEF TInv, TimeTypeOK
  <2>3. Deadlines \cup {Never} \subseteq Int /\ Default \in Nat /\ Never \in Int
    BY TimedRetryAssumption, DeadlineAssumption DEF Never
  <2>4. /\ callDeadline(caller[c]) \in Nat \cup {Never}
        /\ caller[c] # Never =>
              callDeadline(caller[c]) # Never /\ callDeadline(caller[c]) <= caller[c]
        /\ placement = "outside" =>
              callDeadline(caller[c]) # Never /\ callDeadline(caller[c]) <= Default
    BY <2>2, CallDeadlineShortens
  <2>5. /\ taken(c) \in Nat /\ stepsLeft(c) \in Nat
        /\ taken(c) + 1 <= stepsLeft(c) /\ 1 <= stepsLeft(c)
    BY <2>2 DEF taken, stepsLeft
  <2>6. /\ Lag * taken(c) \in Nat /\ Lag * stepsLeft(c) \in Nat
        /\ Lag * taken(c) + Lag <= Lag * stepsLeft(c)
        /\ Lag <= Lag * stepsLeft(c)
    <3>1. Lag * (taken(c) + 1) <= Lag * stepsLeft(c) /\ Lag * stepsLeft(c) \in Nat
      BY <2>5, StepsCost
    <3>2. Lag * taken(c) \in Nat /\ Lag * (taken(c) + 1) = Lag * taken(c) + Lag
      BY <2>5, OneMoreStep
    <3> QED
      BY <3>1, <3>2, <2>2
  <2>7. ctxDone[c] => doneAt[c] \in Nat /\ age[c] <= doneAt[c] + Lag * stepsLeft(c)
    BY <2>1, <2>2, <2>6 DEF NeverWaits
  <2>8. deadline[c] # Never => age[c] <= deadline[c] + Lag * stepsLeft(c)
    BY <2>1, <2>2, <2>4, <2>6, <2>7 DEF ContextInTime
  <2> QED
    BY <2>1, <2>2, <2>3, <2>4, <2>6, <2>7, <2>8
<1> QED
  BY <1>1, TimedInvariance, PTL
=============================================================================
