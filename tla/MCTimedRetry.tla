---------------------------- MODULE MCTimedRetry ----------------------------
EXTENDS TimedRetry
\* No deadline, one that ends the call early, and one later than Default.
MCDeadlines == {Never, 1, 4}
=============================================================================
