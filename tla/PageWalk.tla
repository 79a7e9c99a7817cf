------------------------------ MODULE PageWalk ------------------------------
(* What pagination.Iter and pagination.IterParallel promise the loop that    *)
(* ranges over them, whatever happens behind: items arrive in page order,    *)
(* none twice and none skipped, and the walk stops at a page boundary unless *)
(* the loop itself stops it.                                                 *)
EXTENDS Naturals, Sequences

VARIABLES
    sizes,      \* the server's data: how many items each page has
    fails,      \* the fetch that follows the last page fails
    cancelled,  \* the caller's context is done
    yielded,    \* what the loop has seen, items named <<page, position>>
    end         \* "no", or how the walk ended

walkVars == <<sizes, fails, cancelled, yielded, end>>

Items == UNION {{p} \X (1..sizes[p]) : p \in 1..Len(sizes)}

Delivered == {yielded[i] : i \in 1..Len(yielded)}

\* All the items of the first q pages, and no other, have arrived.
AtBoundary(q) == Delivered = {x \in Items : x[1] <= q}

Before(x, y) == x[1] < y[1] \/ (x[1] = y[1] /\ x[2] < y[2])

WInit == yielded = <<>> /\ end = "no"

\* The next item arrives, and the loop goes on or breaks.
Deliver ==
    /\ end = "no"
    /\ \E x \in Items :
          /\ Delivered = {y \in Items : Before(y, x)}
          /\ yielded' = Append(yielded, x)
    /\ end' \in {"no", "break"}
    /\ UNCHANGED <<sizes, fails, cancelled>>

\* The last page is done.
Complete ==
    /\ end = "no"
    /\ ~fails
    /\ Delivered = Items
    /\ end' = "complete"
    /\ UNCHANGED <<sizes, fails, cancelled, yielded>>

\* An error ends the walk after all the pages before it.
Error ==
    /\ end = "no"
    /\ \/ fails /\ Delivered = Items
       \/ cancelled /\ \E q \in 0..Len(sizes) : AtBoundary(q)
    /\ end' = "error"
    /\ UNCHANGED <<sizes, fails, cancelled, yielded>>

\* A cancelled walk may stop short without a word.
Silent ==
    /\ end = "no"
    /\ cancelled
    /\ \E q \in 0..Len(sizes) : AtBoundary(q)
    /\ end' = "silent"
    /\ UNCHANGED <<sizes, fails, cancelled, yielded>>

Cancelled ==
    /\ ~cancelled
    /\ cancelled' = TRUE
    /\ UNCHANGED <<sizes, fails, yielded, end>>

WSpec == WInit /\ [][Deliver \/ Complete \/ Error \/ Silent \/ Cancelled]_walkVars
=============================================================================
