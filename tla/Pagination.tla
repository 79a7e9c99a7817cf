----------------------------- MODULE Pagination -----------------------------
(* pagination/pagination.go: one range loop over Iter (lookahead 0) or over  *)
(* IterParallel, whose producer goroutine feeds the loop through a channel.  *)
EXTENDS Naturals, Sequences

CONSTANTS
    Lookaheads,  \* the lookahead arguments considered
    MaxPages,    \* bound: the pages the server has
    MaxItems     \* bound: the items of a page

ASSUME PaginationAssumption ==
    Lookaheads \subseteq Nat /\ MaxPages \in Nat /\ MaxItems \in Nat

VARIABLES
    lookahead,
    sizes, fails,    \* the server's data, as in PageWalk
    cancelled,       \* the caller's context is done
    producer,        \* "fetch", "send", "done"
    token,           \* the page the next fetch asks for
    hand,            \* the page being sent
    ch, closed,      \* the channel
    consumer,        \* "check", "fetch", "recv", "yield", "returned"
    page, idx,       \* what consumePages or Iter is yielding
    yielded, end     \* what the loop saw, as in PageWalk

server == <<lookahead, sizes, fails>>
prodVars == <<producer, hand>>
vars == <<server, cancelled, prodVars, token, ch, closed, consumer, page, idx,
          yielded, end>>

W == INSTANCE PageWalk

\* A page holds the number of the page and whether its fetch failed.
Page(n, err) == [n |-> n, err |-> err]
NoPage == Page(0, FALSE)

Init ==
    /\ lookahead \in Lookaheads
    /\ sizes \in UNION {[1..n -> 0..MaxItems] : n \in 0..MaxPages}
    /\ fails \in BOOLEAN
    /\ Len(sizes) = 0 => fails
    /\ cancelled = FALSE
    /\ producer = IF lookahead < 1 THEN "done" ELSE "fetch"
    /\ consumer = IF lookahead < 1 THEN "check" ELSE "recv"
    /\ token = 1
    /\ hand = NoPage
    /\ ch = <<>>
    /\ closed = FALSE
    /\ page = NoPage
    /\ idx = 1
    /\ yielded = <<>>
    /\ end = "no"

\* The consumer's code: what fetch may return when the context it was given is
\* done or not.
FetchPage(ctxDone) ==
    {Page(t, FALSE) : t \in {token} \cap 1..Len(sizes)}
        \cup (IF ctxDone \/ token > Len(sizes) THEN {Page(token, TRUE)} ELSE {})

\* The next-page token came back empty.
lastPage(p) == p.n = Len(sizes) /\ ~fails

\* The walk is over; IterParallel's deferred cancel runs.
Return(how) ==
    /\ consumer' = "returned"
    /\ end' = how

-----------------------------------------------------------------------------
(* runProducer.  Its context is done with the caller's, or when IterParallel  *)
(* returns.                                                                   *)

fctxDone_CallerOnly == cancelled

fctxDone == cancelled \/ consumer = "returned"

ProducerFetch ==
    /\ producer = "fetch"
    /\ hand' \in FetchPage(fctxDone)
    /\ producer' = "send"
    /\ UNCHANGED <<server, cancelled, token, ch, closed, consumer, page, idx,
                   yielded, end>>

chanFull_OneMore == Len(ch) > lookahead

chanFull == Len(ch) = lookahead

\* The arms of the select: the page is sent, and the loop goes on or closes the
\* channel after it,
ProducerSend ==
    /\ producer = "send"
    /\ ~chanFull
    /\ ch' = Append(ch, hand)
    /\ hand' = NoPage
    /\ IF hand.err \/ lastPage(hand)
       THEN producer' = "done" /\ closed' = TRUE /\ UNCHANGED token
       ELSE producer' = "fetch" /\ token' = token + 1 /\ UNCHANGED closed
    /\ UNCHANGED <<server, cancelled, consumer, page, idx, yielded, end>>

ProducerCancelled_LeavesOpen ==
    /\ producer = "send"
    /\ fctxDone
    /\ producer' = "done"
    /\ hand' = NoPage
    /\ UNCHANGED <<server, cancelled, token, ch, closed, consumer, page, idx,
                   yielded, end>>

\* or the context is done and the page in hand is dropped.
ProducerCancelled ==
    /\ producer = "send"
    /\ fctxDone
    /\ producer' = "done"
    /\ closed' = TRUE
    /\ hand' = NoPage
    /\ UNCHANGED <<server, cancelled, token, ch, consumer, page, idx, yielded, end>>

-----------------------------------------------------------------------------
(* consumePages                                                               *)

Receive_ErrorFirst ==
    /\ consumer = "recv"
    /\ ch # <<>>
    /\ ch' = Tail(ch)
    /\ IF \E i \in 1..Len(ch) : ch[i].err
       THEN Return("error") /\ UNCHANGED <<page, idx>>
       ELSE /\ consumer' = "yield"
            /\ page' = Head(ch)
            /\ idx' = 1
            /\ UNCHANGED end
    /\ UNCHANGED <<server, cancelled, prodVars, token, closed, yielded>>

Receive ==
    /\ consumer = "recv"
    /\ ch # <<>>
    /\ ch' = Tail(ch)
    /\ IF Head(ch).err
       THEN Return("error") /\ UNCHANGED <<page, idx>>
       ELSE /\ consumer' = "yield"
            /\ page' = Head(ch)
            /\ idx' = 1
            /\ UNCHANGED end
    /\ UNCHANGED <<server, cancelled, prodVars, token, closed, yielded>>

\* The channel is closed and drained: the range over it just ends.
ReceiveClosed ==
    /\ consumer = "recv"
    /\ ch = <<>>
    /\ closed
    /\ Return(IF ~fails /\ page.n = Len(sizes) THEN "complete" ELSE "silent")
    /\ UNCHANGED <<server, cancelled, prodVars, token, ch, closed, page, idx, yielded>>

-----------------------------------------------------------------------------
(* Iter                                                                       *)

CheckContext ==
    /\ consumer = "check"
    /\ IF cancelled THEN Return("error") ELSE consumer' = "fetch" /\ UNCHANGED end
    /\ UNCHANGED <<server, cancelled, prodVars, token, ch, closed, page, idx, yielded>>

IterFetch ==
    /\ consumer = "fetch"
    /\ \E p \in FetchPage(cancelled) :
          IF p.err
          THEN Return("error") /\ UNCHANGED <<page, idx>>
          ELSE /\ consumer' = "yield"
               /\ page' = p
               /\ idx' = 1
               /\ UNCHANGED end
    /\ UNCHANGED <<server, cancelled, prodVars, token, ch, closed, yielded>>

-----------------------------------------------------------------------------
(* Both yield the items of a page in order; the loop's body may break.        *)

YieldItem ==
    /\ consumer = "yield"
    /\ idx <= sizes[page.n]
    /\ yielded' = Append(yielded, <<page.n, idx>>)
    /\ \/ idx' = idx + 1 /\ UNCHANGED <<consumer, end>>
       \/ Return("break") /\ UNCHANGED idx
    /\ UNCHANGED <<server, cancelled, prodVars, token, ch, closed, page>>

PageDone ==
    /\ consumer = "yield"
    /\ idx > sizes[page.n]
    /\ \/ lookahead >= 1 /\ consumer' = "recv" /\ UNCHANGED <<token, end>>
       \/ lookahead < 1 /\ lastPage(page) /\ Return("complete") /\ UNCHANGED token
       \/ /\ lookahead < 1 /\ ~lastPage(page)
          /\ token' = token + 1
          /\ consumer' = "check"
          /\ UNCHANGED end
    /\ UNCHANGED <<server, cancelled, prodVars, ch, closed, page, idx, yielded>>

\* The caller cancels.
CancelContext ==
    /\ ~cancelled
    /\ cancelled' = TRUE
    /\ UNCHANGED <<server, prodVars, token, ch, closed, consumer, page, idx,
                   yielded, end>>

ProducerStep == ProducerFetch \/ ProducerSend \/ ProducerCancelled
ConsumerStep ==
    Receive \/ ReceiveClosed \/ CheckContext \/ IterFetch \/ YieldItem \/ PageDone

Done == producer = "done" /\ consumer = "returned" /\ UNCHANGED vars

Next == ProducerStep \/ ConsumerStep \/ CancelContext \/ Done

Spec == Init /\ [][Next]_vars

\* Goroutines that can run do; fetch returns; the loop's body returns.
FairSpec == Spec /\ WF_vars(ProducerStep) /\ WF_vars(ConsumerStep)

-----------------------------------------------------------------------------
(* Properties                                                                 *)

\* Types, and at most one closing of the channel: a producer that is not done
\* has not closed it.
TypeOK ==
    /\ producer \in {"fetch", "send", "done"}
    /\ consumer \in {"check", "fetch", "recv", "yield", "returned"}
    /\ token \in 1..MaxPages + 1
    /\ page.n \in 0..Len(sizes) /\ ~page.err
    /\ idx \in 1..MaxItems + 1
    /\ Len(ch) <= lookahead
    /\ closed => producer = "done"
    /\ end \in {"no", "complete", "error", "break", "silent"}

\* "Pages are yielded in order; an error from page N appears in the iterator
\* AFTER all items from pages 0..N-1 have been yielded": to the loop both
\* iterators are walks, although pages are fetched ahead, dropped by the select,
\* or left in the channel.
ImplementsPageWalk == W!WSpec

\* How far the producer runs ahead: the channel's buffer, and one page in hand.
PrefetchBounded ==
    lookahead >= 1 =>
        token <= page.n + lookahead + 1

\* The producer goroutine never outlives the walk: whatever ends the loop, it
\* ends too.
ProducerExits == consumer = "returned" ~> producer = "done"

\* The walk itself ends.
WalkEnds == <>(consumer = "returned")

\* Iteration stops "on context cancellation [...]. Errors are surfaced via the
\* second yield value", and IterParallel "is like Iter": a loop that ends by
\* itself without an error has seen every item.
NoSilentTruncation == end = "silent" => ~fails /\ W!Delivered = W!Items
=============================================================================
