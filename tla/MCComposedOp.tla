---------------------------- MODULE MCComposedOp ----------------------------
EXTENDS ComposedOp
\* No deadline, one before Default and one after it.
MCDeadlines == {Never, 1, 5}
=============================================================================
