----------------------------- MODULE ComposedOp -----------------------------
(* Composed operations (ergo/composed.go, ergo/context.go): each leg is one  *)
(* mutating call through the idempotency interceptor that returns a          *)
(* long-running operation, which the leg then waits for (module Operation).  *)
(* Legs are sequential; the caller may go on after a leg failed.             *)
EXTENDS Operation

CONSTANTS
    MaxOps,   \* bound: composed operations made
    MaxLegs   \* bound: legs run of each

ASSUME ComposedOpAssumption == MaxOps \in Nat /\ MaxLegs \in Nat

\* Keys: those Run derives, `{ID}/{leg}`, and those KeyFn returns.
LegKey(id, n) == [from |-> "leg", op |-> id, n |-> n]
FreshKey(n) == [from |-> "KeyFn", op |-> 0, n |-> n]
NoKey == FreshKey(0)

\* Correlation ids: none, the one an enclosing context may carry, and those
\* generated.  newID never returns the same value twice.
NoID == 0
Inherited == -1
newID(n) == n + 1

\* The values a context carries for ergo.  An empty one is not stored.
Background == [idempotencyKey |-> NoKey, correlation |-> NoID]
WithIdempotencyKey(c, k) == IF k = NoKey THEN c ELSE [c EXCEPT !.idempotencyKey = k]
WithCorrelationID(c, id) == IF id = NoID THEN c ELSE [c EXCEPT !.correlation = id]

VARIABLES
    op,        \* the ComposedOp in use: its ID, Correlation and leg counter
    ids,       \* how often newID was called
    ctx,       \* the context of the leg
    step,      \* "none", "between", "call" or "wait"
    wireKey,   \* the Idempotency-Key header of the leg's call
    keys       \* how often KeyFn was called

opVars == <<op, ids, ctx, step, wireKey, keys>>
vars == <<waitVars, opVars>>

NoOp == [ID |-> NoID, Correlation |-> NoID, leg |-> 0]

Init ==
    /\ WaitInit
    /\ op = NoOp
    /\ ids = 0
    /\ ctx = Background
    /\ step = "none"
    /\ wireKey = NoKey
    /\ keys = 0

\* The parent's correlation id is taken over; without one an id is generated.
NewComposedOp ==
    /\ step = "none"
    /\ ids < 2 * MaxOps
    /\ \E parent \in {Background, WithCorrelationID(Background, Inherited)} :
         IF parent.correlation # NoID
         THEN /\ op' = [ID |-> newID(ids), Correlation |-> parent.correlation, leg |-> 0]
              /\ ids' = ids + 1
         ELSE /\ op' = [ID |-> newID(ids), Correlation |-> newID(ids + 1), leg |-> 0]
              /\ ids' = ids + 2
    /\ step' = "between"
    /\ UNCHANGED <<waitVars, ctx, wireKey, keys>>

\* Run: the key and the correlation id go into the context handed to fn.
Run ==
    /\ step = "between"
    /\ op.leg < MaxLegs
    /\ ctx' = WithCorrelationID(WithIdempotencyKey(Background, LegKey(op.ID, op.leg)),
                                op.Correlation)
    /\ op' = [op EXCEPT !.leg = @ + 1]
    /\ step' = "call"
    /\ \E d \in Deadlines : deadline' = d
    /\ ctxDone' = FALSE /\ doneAt' = Never
    /\ age' = 0
    /\ UNCHANGED <<handle, waiting, pollBy, ceiling, sleeping, lag, counts, ids, wireKey,
                   keys>>

\* The interceptor looks at the header of the Request, which is new, and not at
\* the context.
attachKey(header) == IF header = NoKey THEN FreshKey(keys + 1) ELSE header

SendCall ==
    /\ step = "call"
    /\ wireKey = NoKey
    /\ wireKey' = attachKey(wireKey)
    /\ keys' = keys + 1
    /\ UNCHANGED <<waitVars, op, ids, ctx, step>>

\* The leg is over; its context goes with it.
LegEnds ==
    /\ step' = "between"
    /\ ctx' = Background
    /\ wireKey' = NoKey
    /\ UNCHANGED <<op, ids, keys>>

\* The call fails, or returns a handle without Poll (ErrNoPoll).
CallFails ==
    /\ step = "call"
    /\ wireKey # NoKey
    /\ LegEnds
    /\ UNCHANGED waitVars

CallReturns ==
    /\ step = "call"
    /\ wireKey # NoKey
    /\ BeginWait
    /\ step' = "wait"
    /\ UNCHANGED <<op, ids, ctx, wireKey, keys>>

\* The caller cancels while the call is out, which may still succeed: Wait then
\* begins under a context that is done.
CancelledInCall ==
    /\ step = "call"
    /\ ContextEnds
    /\ UNCHANGED opVars

\* A step of Wait; the leg ends when Wait returns.
Waiting ==
    /\ step = "wait"
    /\ WaitStep
    /\ IF waiting' = "no" THEN LegEnds ELSE UNCHANGED opVars

\* The caller is through with this composed operation.
DropOp ==
    /\ step = "between"
    /\ op' = NoOp
    /\ step' = "none"
    /\ UNCHANGED <<waitVars, ids, ctx, wireKey, keys>>

Next ==
    \/ NewComposedOp \/ Run \/ SendCall \/ CallFails \/ CallReturns
    \/ CancelledInCall \/ Waiting \/ DropOp

Spec == Init /\ [][Next]_vars

\* Time goes on and the waiting goroutine runs; the server owes nothing.
Fairness ==
    /\ WF_vars(Waiting /\ Tick)
    /\ WF_vars(Waiting /\ OwnStep)

FairSpec == Spec /\ Fairness

\* "The Layer 2 idempotency interceptor reads the key from this slot and
\* attaches it to the outgoing call's metadata": a leg's call carries the key
\* that Run derived for it.
LegKeyOnWire == wireKey # NoKey => wireKey = ctx.idempotencyKey
=============================================================================
