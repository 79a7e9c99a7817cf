---------------------------- MODULE HedgeProofs ----------------------------
(* What holds of a hedged call for every number of attempts and everything   *)
(* the backend may do with them.                                             *)
EXTENDS Hedge, FiniteSetTheorems, TLAPS

-----------------------------------------------------------------------------
(* The inductive invariant.                                                   *)

HTypes ==
    /\ fate \in [Attempts -> {"ok", "error", "hangs"}]
    /\ attempt \in [Attempts -> {"none", "running", "sending", "done"}]
    /\ reply \in [Attempts -> {"none", "ok", "error"}]
    /\ results \in Seq(Attempts)
    /\ launched \in 1..MaxAttempts
    /\ completed \in Nat
    /\ lastErr \in 0..MaxAttempts
    /\ outcome \in {"none", "ok", "error", "cancelled"}

doneSet == {i \in Attempts : attempt[i] = "done"}

\* Attempts are launched in order; a result is received, in the channel, or not
\* sent yet.
CountLaw ==
    /\ \A i \in Attempts : attempt[i] # "none" <=> i <= launched
    /\ \A n \in 1..Len(results) : attempt[results[n]] = "done"
    /\ eligible => completed + Len(results) = Cardinality(doneSet)
    /\ completed > 0 /\ outcome = "none" => lastErr # 0

\* A call that is not hedged is one attempt and never uses the channel.
DirectLaw == ~eligible => launched = 1 /\ completed = 0 /\ results = <<>>

\* Whoever has something to send has a reply; and while the race is on, what
\* was received was an error.
ReplyLaw ==
    \A i \in Attempts :
        /\ attempt[i] \in {"sending", "done"} => reply[i] \in {"ok", "error"}
        /\ (eligible /\ outcome = "none" /\ attempt[i] = "done") =>
               \/ reply[i] = "error"
               \/ \E n \in 1..Len(results) : results[n] = i

\* A race that failed is over, for all of its attempts.
ErrorLaw ==
    (eligible /\ outcome = "error") =>
        \A i \in Attempts : attempt[i] = "done" /\ reply[i] = "error"

HInv == HTypes /\ CountLaw /\ DirectLaw /\ ReplyLaw /\ ErrorLaw

-----------------------------------------------------------------------------
(* Counting.                                                                  *)

\* A set of attempts is finite, and has them all or fewer members.
LEMMA AttemptSets ==
    /\ IsFiniteSet(Attempts) /\ Cardinality(Attempts) = MaxAttempts
    /\ \A S \in SUBSET Attempts :
          /\ IsFiniteSet(S) /\ Cardinality(S) \in Nat /\ Cardinality(S) <= MaxAttempts
          /\ Cardinality(S) = MaxAttempts => S = Attempts
<1>1. IsFiniteSet(Attempts) /\ Cardinality(Attempts) = MaxAttempts
  BY HedgeAssumption, FS_Interval DEF Attempts
<1> QED
  BY <1>1, FS_Subset, FS_CardinalityType

\* No more attempts are done than launched.
LEMMA DoneLaunched ==
    ASSUME HTypes, CountLaw
    PROVE  /\ Cardinality(doneSet) \in Nat
           /\ Cardinality(doneSet) <= launched
<1>1. doneSet \in SUBSET (1..launched)
  BY DEF doneSet, CountLaw, HTypes, Attempts
<1>2. launched \in Nat /\ IsFiniteSet(1..launched) /\ Cardinality(1..launched) = launched
  BY HedgeAssumption, FS_Interval DEF HTypes
<1> QED
  BY <1>1, <1>2, FS_Subset, FS_CardinalityType

\* While an attempt has not sent its result, the channel has room for it.
LEMMA RoomForAll ==
    ASSUME HInv, eligible, NEW i \in Attempts, attempt[i] # "done"
    PROVE  Len(results) < MaxAttempts
<1>1. doneSet \in SUBSET Attempts /\ doneSet # Attempts
  BY DEF doneSet
<1>2. Cardinality(doneSet) \in Nat /\ Cardinality(doneSet) < MaxAttempts
  BY <1>1, AttemptSets, HedgeAssumption
<1>3. completed + Len(results) = Cardinality(doneSet)
  BY DEF HInv, CountLaw
<1> QED
  BY <1>2, <1>3, HedgeAssumption DEF HInv, HTypes

-----------------------------------------------------------------------------
(* The steps.                                                                 *)

\* The initial states satisfy the invariant.
LEMMA InitHInv == Init => HInv
<1> SUFFICES ASSUME Init PROVE HInv
  OBVIOUS
<1>1. HTypes
  BY HedgeAssumption DEF Init, HTypes, Attempts
<1>2. doneSet = {}
  BY DEF Init, doneSet
<1>3. CountLaw
  BY <1>2, FS_EmptySet, HedgeAssumption DEF Init, CountLaw, Attempts
<1>4. DirectLaw /\ ReplyLaw /\ ErrorLaw
  BY DEF Init, DirectLaw, ReplyLaw, ErrorLaw
<1> QED
  BY <1>1, <1>3, <1>4 DEF HInv

\* Whether a call is hedged is settled when it begins.
LEMMA EligibleStays ==
    ASSUME UNCHANGED call
    PROVE  eligible' = eligible
BY DEF call, eligible

\* An attempt's next returns.
LEMMA AttemptEndsStep ==
    ASSUME HInv, NEW i \in Attempts, AttemptEnds(i)
    PROVE  HInv'
<1>0. HTypes /\ CountLaw /\ DirectLaw /\ ReplyLaw /\ ErrorLaw
  BY DEF HInv
<1>1. /\ attempt[i] = "running" /\ attempt' = [attempt EXCEPT ![i] = "sending"]
      /\ \E r \in {"ok", "error"} : reply' = [reply EXCEPT ![i] = r]
      /\ UNCHANGED <<fate, results, launched, completed, lastErr, outcome>>
      /\ eligible' = eligible
  BY <1>0, EligibleStays DEF AttemptEnds, HTypes, call, race
<1>2. HTypes'
  BY <1>0, <1>1 DEF HTypes
<1>3. doneSet' = doneSet
  BY <1>0, <1>1 DEF doneSet, HTypes
<1>4. CountLaw'
  BY <1>0, <1>1, <1>3 DEF CountLaw, HTypes
<1>5. DirectLaw' /\ ReplyLaw' /\ ErrorLaw'
  BY <1>0, <1>1 DEF DirectLaw, ReplyLaw, ErrorLaw, HTypes
<1> QED
  BY <1>2, <1>4, <1>5 DEF HInv

\* It reports.
LEMMA SendStep ==
    ASSUME HInv, NEW i \in Attempts, Send(i)
    PROVE  HInv'
<1>0. HTypes /\ CountLaw /\ DirectLaw /\ ReplyLaw /\ ErrorLaw
  BY DEF HInv
<1>1. /\ attempt[i] = "sending" /\ eligible
      /\ attempt' = [attempt EXCEPT ![i] = "done"]
      /\ results' = Append(results, i)
      /\ UNCHANGED <<fate, reply, launched, completed, lastErr, outcome>>
      /\ eligible' = eligible
  BY EligibleStays DEF Send, call, race
<1>2. HTypes'
  BY <1>0, <1>1 DEF HTypes
<1>3. /\ Len(results) \in Nat /\ Len(results') = Len(results) + 1
      /\ results'[Len(results')] = i
      /\ \A n \in 1..Len(results) : results'[n] = results[n]
  BY <1>0, <1>1 DEF HTypes
<1>4. Cardinality(doneSet') = Cardinality(doneSet) + 1
  <2>1. doneSet' = doneSet \cup {i} /\ i \notin doneSet
    BY <1>0, <1>1 DEF doneSet, HTypes
  <2>2. IsFiniteSet(doneSet)
    BY AttemptSets DEF doneSet
  <2> QED
    BY <2>1, <2>2, FS_AddElement
<1>5. CountLaw'
  <2>1. \A n \in 1..Len(results') : attempt'[results'[n]] = "done"
    BY <1>0, <1>1, <1>3 DEF CountLaw, HTypes
  <2>2. completed + Len(results') = Cardinality(doneSet')
    BY <1>0, <1>1, <1>3, <1>4 DEF CountLaw, HTypes
  <2> QED
    BY <1>0, <1>1, <2>1, <2>2 DEF CountLaw, HTypes
<1>6. ReplyLaw'
  <2>1. \A j \in Attempts : (\E n \in 1..Len(results) : results[n] = j) =>
                                \E n \in 1..Len(results') : results'[n] = j
    BY <1>3
  <2>2. \E n \in 1..Len(results') : results'[n] = i
    BY <1>3
  <2> QED
    BY <1>0, <1>1, <2>1, <2>2 DEF ReplyLaw, HTypes
<1>7. DirectLaw' /\ ErrorLaw'
  BY <1>0, <1>1 DEF DirectLaw, ErrorLaw, HTypes
<1> QED
  BY <1>2, <1>5, <1>6, <1>7 DEF HInv

\* One more attempt is launched, which is new.
LEMMA LaunchFacts ==
    ASSUME HTypes, CountLaw, Launch
    PROVE  /\ launched + 1 \in Attempts /\ attempt[launched + 1] = "none"
           /\ attempt' = [attempt EXCEPT ![launched + 1] = "running"]
           /\ launched' = launched + 1 /\ launched' \in 1..MaxAttempts
           /\ doneSet' = doneSet
           /\ \A j \in Attempts : attempt'[j] # "none" <=> j <= launched'
<1>1. launched + 1 \in Attempts /\ launched' = launched + 1 /\ launched' \in 1..MaxAttempts
  BY HedgeAssumption DEF Launch, HTypes, Attempts
<1>2. attempt[launched + 1] = "none"
  BY <1>1 DEF CountLaw, HTypes
<1>3. attempt' = [attempt EXCEPT ![launched + 1] = "running"]
  BY DEF Launch, fire
<1>4. doneSet' = doneSet
  BY <1>1, <1>2, <1>3 DEF doneSet, HTypes
<1>5. \A j \in Attempts : attempt'[j] # "none" <=> j <= launched'
  BY <1>1, <1>3 DEF CountLaw, HTypes, Attempts
<1> QED
  BY <1>1, <1>2, <1>3, <1>4, <1>5

\* The stagger timer fires.
LEMMA TimerStep ==
    ASSUME HInv, TimerFires
    PROVE  HInv'
<1>0. HTypes /\ CountLaw /\ DirectLaw /\ ReplyLaw /\ ErrorLaw
  BY DEF HInv
<1>1. /\ eligible /\ outcome = "none" /\ Launch
      /\ UNCHANGED <<fate, reply, results, completed, lastErr, outcome>>
      /\ eligible' = eligible
  BY EligibleStays DEF TimerFires, racing, returned, call
<1>2. /\ launched + 1 \in Attempts /\ attempt[launched + 1] = "none"
      /\ attempt' = [attempt EXCEPT ![launched + 1] = "running"]
      /\ launched' = launched + 1 /\ launched' \in 1..MaxAttempts
      /\ doneSet' = doneSet
      /\ \A j \in Attempts : attempt'[j] # "none" <=> j <= launched'
  BY <1>0, <1>1, LaunchFacts
<1>3. HTypes'
  BY <1>0, <1>1, <1>2 DEF HTypes
<1>4. CountLaw'
  BY <1>0, <1>1, <1>2 DEF CountLaw, HTypes
<1>5. DirectLaw' /\ ReplyLaw' /\ ErrorLaw'
  BY <1>0, <1>1, <1>2 DEF DirectLaw, ReplyLaw, ErrorLaw, HTypes
<1> QED
  BY <1>3, <1>4, <1>5 DEF HInv

\* A result arrives.
LEMMA ResultStep ==
    ASSUME HInv, ResultArrives
    PROVE  HInv'
<1>0. HTypes /\ CountLaw /\ DirectLaw /\ ReplyLaw /\ ErrorLaw
  BY DEF HInv
<1> DEFINE h == Head(results)
<1>1. /\ eligible /\ outcome = "none" /\ results # <<>>
      /\ results' = Tail(results) /\ completed' = completed + 1
      /\ UNCHANGED <<fate, reply>>
      /\ eligible' = eligible
  BY EligibleStays DEF ResultArrives, racing, returned, call
<1>2. /\ h \in Attempts /\ h = results[1]
      /\ results' \in Seq(Attempts)
      /\ Len(results) \in Nat /\ Len(results) >= 1 /\ Len(results') = Len(results) - 1
      /\ \A n \in 1..Len(results') : results'[n] = results[n + 1]
  BY <1>0, <1>1 DEF HTypes
<1>3. attempt[h] = "done" /\ reply[h] \in {"ok", "error"}
  BY <1>0, <1>2 DEF CountLaw, ReplyLaw
<1>4. /\ IF reply[h] = "ok" THEN outcome' = "ok" /\ lastErr' = lastErr
                            ELSE outcome' = "none" /\ lastErr' = h
      /\ Launch \/ UNCHANGED <<attempt, launched>>
  BY <1>1 DEF ResultArrives
<1> HIDE DEF h
<1>5. /\ attempt' \in [Attempts -> {"none", "running", "sending", "done"}]
      /\ launched' \in 1..MaxAttempts
      /\ doneSet' = doneSet
      /\ \A j \in Attempts : attempt'[j] # "none" <=> j <= launched'
      /\ \A j \in Attempts : attempt[j] = "done" <=> attempt'[j] = "done"
      /\ \A j \in Attempts : attempt[j] = "sending" <=> attempt'[j] = "sending"
  <2>1. CASE Launch
    BY <1>0, <2>1, LaunchFacts DEF HTypes
  <2>2. CASE UNCHANGED <<attempt, launched>>
    BY <1>0, <2>2 DEF HTypes, CountLaw, doneSet
  <2> QED
    BY <1>4, <2>1, <2>2
<1>6. h \in 0..MaxAttempts /\ h # 0
  BY <1>2, HedgeAssumption DEF Attempts
<1>7. HTypes'
  BY <1>0, <1>1, <1>2, <1>4, <1>5, <1>6 DEF HTypes
<1>8. CountLaw'
  <2>1. \A n \in 1..Len(results') : attempt'[results'[n]] = "done"
    <3>1. ASSUME NEW n \in 1..Len(results')
          PROVE  n + 1 \in 1..Len(results) /\ results'[n] \in Attempts
      BY <1>2
    <3> QED
      BY <1>0, <1>2, <1>5, <3>1 DEF CountLaw
  <2>2. completed' + Len(results') = Cardinality(doneSet')
    BY <1>0, <1>1, <1>2, <1>5 DEF CountLaw, HTypes
  <2> QED
    BY <1>1, <1>4, <1>5, <1>6, <2>1, <2>2 DEF CountLaw
<1>9. ReplyLaw'
  <2>1. ASSUME NEW j \in Attempts, NEW n \in 1..Len(results), results[n] = j, j # h
        PROVE  \E m \in 1..Len(results') : results'[m] = j
    <3>1. n # 1
      BY <1>2, <2>1
    <3>2. n - 1 \in 1..Len(results') /\ results'[n - 1] = j
      BY <1>2, <2>1, <3>1
    <3> QED
      BY <3>2
  <2>2. ASSUME NEW j \in Attempts, outcome' = "none", attempt'[j] = "done"
        PROVE  reply'[j] = "error" \/ \E m \in 1..Len(results') : results'[m] = j
    <3>1. reply[h] = "error"
      BY <1>3, <1>4, <2>2
    <3>2. attempt[j] = "done"
      BY <1>5, <2>2
    <3>3. reply[j] = "error" \/ \E n \in 1..Len(results) : results[n] = j
      BY <1>0, <1>1, <3>2 DEF ReplyLaw
    <3> QED
      BY <1>1, <2>1, <3>1, <3>3
  <2>3. \A j \in Attempts :
            attempt'[j] \in {"sending", "done"} => reply'[j] \in {"ok", "error"}
    BY <1>0, <1>1, <1>5 DEF ReplyLaw
  <2> QED
    BY <2>2, <2>3 DEF ReplyLaw
<1>10. DirectLaw' /\ ErrorLaw'
  BY <1>1, <1>4 DEF DirectLaw, ErrorLaw
<1> QED
  BY <1>7, <1>8, <1>9, <1>10 DEF HInv

\* The loop is over: every attempt was made, was received and had failed.
LEMMA ExhaustedStep ==
    ASSUME HInv, Exhausted
    PROVE  HInv'
<1>0. HTypes /\ CountLaw /\ DirectLaw /\ ReplyLaw /\ ErrorLaw
  BY DEF HInv
<1>1. eligible /\ outcome = "none" /\ ~(completed < launched) /\ ~(launched < MaxAttempts)
  BY DEF Exhausted, racing, returned, pending
<1>2. /\ UNCHANGED <<fate, attempt, reply, results, launched, completed, lastErr>>
      /\ eligible' = eligible
      /\ outcome' = IF lastErr = 0 THEN "no result" ELSE "error"
  BY EligibleStays DEF Exhausted, call, race
<1>3. /\ Cardinality(doneSet) \in Nat /\ Cardinality(doneSet) <= launched
      /\ completed + Len(results) = Cardinality(doneSet)
  BY <1>0, <1>1, DoneLaunched DEF CountLaw
<1>4. /\ launched \in Nat /\ launched <= MaxAttempts /\ launched >= 1
      /\ completed \in Nat /\ Len(results) \in Nat
  BY <1>0, HedgeAssumption DEF HTypes
<1>5. /\ Len(results) = 0 /\ completed > 0
      /\ Cardinality(doneSet) = MaxAttempts
  BY <1>1, <1>3, <1>4, HedgeAssumption
<1>6. doneSet = Attempts
  BY <1>5, AttemptSets DEF doneSet
<1>7. \A i \in Attempts : attempt[i] = "done"
  BY <1>6 DEF doneSet
<1>8. \A i \in Attempts : reply[i] = "error"
  BY <1>0, <1>1, <1>5, <1>7 DEF ReplyLaw
<1>9. outcome' = "error"
  BY <1>0, <1>1, <1>2, <1>5 DEF CountLaw
<1>10. HTypes' /\ doneSet' = doneSet
  BY <1>0, <1>2, <1>9 DEF HTypes, doneSet
<1>11. CountLaw' /\ DirectLaw' /\ ReplyLaw' /\ ErrorLaw'
  BY <1>0, <1>2, <1>7, <1>8, <1>9, <1>10 DEF CountLaw, DirectLaw, ReplyLaw, ErrorLaw
<1> QED
  BY <1>10, <1>11 DEF HInv

\* Without hedging the attempt's reply is the call's.
LEMMA DirectStep ==
    ASSUME HInv, DirectReturns
    PROVE  HInv'
<1>0. HTypes /\ CountLaw /\ DirectLaw /\ ReplyLaw /\ ErrorLaw
  BY DEF HInv
<1>1. /\ ~eligible /\ attempt[1] = "sending"
      /\ attempt' = [attempt EXCEPT ![1] = "done"] /\ outcome' = reply[1]
      /\ UNCHANGED <<fate, reply, results, launched, completed, lastErr>>
      /\ eligible' = eligible
  BY EligibleStays DEF DirectReturns, call, race
<1>2. 1 \in Attempts /\ reply[1] \in {"ok", "error"}
  BY <1>0, <1>1, HedgeAssumption DEF ReplyLaw, Attempts
<1>3. HTypes'
  BY <1>0, <1>1, <1>2 DEF HTypes
<1>4. completed = 0 /\ results = <<>>
  BY <1>0, <1>1 DEF DirectLaw
<1>5. CountLaw'
  BY <1>0, <1>1, <1>2, <1>4 DEF CountLaw, HTypes
<1>6. DirectLaw' /\ ReplyLaw' /\ ErrorLaw'
  BY <1>0, <1>1, <1>2 DEF DirectLaw, ReplyLaw, ErrorLaw, HTypes
<1> QED
  BY <1>3, <1>5, <1>6 DEF HInv

\* The call gives up with its context, or nothing the invariant mentions moves.
LEMMA OtherSteps ==
    ASSUME HInv, UNCHANGED <<call, attempt, reply, results, race>>,
           outcome' \in {outcome, "cancelled"}
    PROVE  HInv'
<1>0. HTypes /\ CountLaw /\ DirectLaw /\ ReplyLaw /\ ErrorLaw
  BY DEF HInv
<1>1. /\ UNCHANGED <<fate, attempt, reply, results, launched, completed, lastErr>>
      /\ eligible' = eligible
  BY EligibleStays DEF call, race
<1>2. HTypes' /\ doneSet' = doneSet
  BY <1>0, <1>1 DEF HTypes, doneSet
<1>3. CountLaw' /\ DirectLaw' /\ ReplyLaw' /\ ErrorLaw'
  BY <1>0, <1>1, <1>2 DEF CountLaw, DirectLaw, ReplyLaw, ErrorLaw
<1> QED
  BY <1>2, <1>3 DEF HInv

\* Every step preserves the invariant.
LEMMA NextHInv == HInv /\ [Next]_vars => HInv'
<1> SUFFICES ASSUME HInv, [Next]_vars
             PROVE  HInv'
  OBVIOUS
<1>1. ASSUME NEW i \in Attempts, AttemptEnds(i) \/ Send(i)
      PROVE  HInv'
  BY <1>1, AttemptEndsStep, SendStep
<1>2. CASE ResultArrives \/ TimerFires \/ Exhausted \/ DirectReturns
  BY <1>2, ResultStep, TimerStep, ExhaustedStep, DirectStep
<1>3. CASE ContextEnds \/ CancelContext \/ Close \/ UNCHANGED vars
  BY <1>3, OtherSteps DEF ContextEnds, CancelContext, Close, vars
<1> QED
  BY <1>1, <1>2, <1>3 DEF Next, RaceStep, Over

-----------------------------------------------------------------------------
(* The theorems.                                                              *)

\* HInv is an invariant.
LEMMA HedgeInvariance == Spec => []HInv
  BY InitHInv, NextHInv, PTL DEF Spec

\* The counters of runHedged agree with its goroutines, and the channel with
\* what they sent, for every number of attempts.
THEOREM TypeCorrect == Spec => []TypeOK
<1>1. HInv => TypeOK
  <2> SUFFICES ASSUME HInv PROVE TypeOK
    OBVIOUS
  <2>0. HTypes /\ CountLaw /\ DirectLaw
    BY DEF HInv
  <2>1. completed <= launched
    <3>1. CASE eligible
      <4>1. /\ Cardinality(doneSet) \in Nat /\ Cardinality(doneSet) <= launched
            /\ completed + Len(results) = Cardinality(doneSet)
        BY <2>0, <3>1, DoneLaunched DEF CountLaw
      <4>2. launched \in Nat /\ completed \in Nat /\ Len(results) \in Nat
        BY <2>0, HedgeAssumption DEF HTypes
      <4> QED
        BY <4>1, <4>2
    <3>2. CASE ~eligible
      BY <2>0, <3>2 DEF DirectLaw
    <3> QED
      BY <3>1, <3>2
  <2>2. launched <= MaxAttempts
    BY <2>0, HedgeAssumption DEF HTypes
  <2> QED
    BY <2>0, <2>1, <2>2 DEF TypeOK, HTypes, CountLaw, doneSet
<1> QED
  BY <1>1, HedgeInvariance, PTL

\* A hedged call fails with an attempt's error only when all attempts were made
\* and all of them failed; the error for "no result" is never returned.
THEOREM FailureMeansAllFailed == Spec => []FailsOnlyIfAllFail
<1>1. HInv => FailsOnlyIfAllFail
  BY DEF HInv, HTypes, ErrorLaw, FailsOnlyIfAllFail
<1> QED
  BY <1>1, HedgeInvariance, PTL

\* A method that its schema does not declare repeatable has one attempt, in both
\* versions and however many attempts are configured.
THEOREM UnsafeNeverHedged == Spec => []UnsafeNotHedged
<1>1. HInv => UnsafeNotHedged
  <2>1. ASSUME HInv, level = "unknown" PROVE launched = 1
    BY <2>1 DEF HInv, DirectLaw, eligible
  <2> QED
    BY <2>1 DEF UnsafeNotHedged
<1> QED
  BY <1>1, HedgeInvariance, PTL

\* An attempt's goroutine with a result to report finds room in the channel.
SendHasRoom ==
    eligible => \A i \in Attempts : attempt[i] = "sending" => Len(results) < buffer

\* No attempt ever blocks on the results channel, whether or not anybody still
\* receives from it: the safety half of AttemptsEnd.
THEOREM SendNeverBlocks == Spec => []SendHasRoom
<1>1. HInv => SendHasRoom
  BY RoomForAll DEF SendHasRoom, buffer
<1> QED
  BY <1>1, HedgeInvariance, PTL
=============================================================================
