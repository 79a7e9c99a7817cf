------------------------------ MODULE Deadline ------------------------------
(* The deadlines of the timeout interceptor (timeout/timeout.go).  A context *)
(* is told by its deadline, a time on the clock of whoever uses this module, *)
(* and an error by the class of its code (module Retry).                     *)
EXTENDS Integers

CONSTANT Default  \* timeout.Config.Default, once Interceptor has filled it in

ASSUME DeadlineAssumption == Default \in Nat \ {0}

\* The deadline of a context that has none.
Never == -1

\* ctx.Done() is closed, by deadline d, at time t.
passed(d, t) == d # Never /\ d <= t

\* The deadline of the context a call runs under: the caller's, unless it is
\* later than the configured one or there is none.
apply(parent, t) ==
    LET configured == t + Default
    IN  IF parent # Never /\ parent <= configured THEN parent ELSE configured

\* A context.DeadlineExceeded comes typed from connect, which makes it the
\* retryable CodeDeadlineExceeded, or bare (or wrapped by an inner interceptor),
\* which is some other code.
rawDeadlineExceeded == {"unavailable", "other"}

\* translateDeadline: under a context that is done, whoever set its deadline,
\* both become CodeDeadlineExceeded.
translateDeadline(raw, done) == IF done THEN {"unavailable"} ELSE raw
=============================================================================
