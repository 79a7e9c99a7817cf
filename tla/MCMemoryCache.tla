--------------------------- MODULE MCMemoryCache ---------------------------
EXTENDS MemoryCache

\* A small entry that outlives its TTL, one that is over the byte budget by itself,
\* and a large one.
MCPolicies ==
    {[TTL |-> 1, SWR |-> 1, size |-> 1], [TTL |-> 0, SWR |-> 0, size |-> 5],
     [TTL |-> 1, SWR |-> 0, size |-> 3]}

-----------------------------------------------------------------------------
(* evictElement and the loop of evictToBudget as the code writes them, one    *)
(* element at a time.                                                         *)

evictOne(s, k) ==
    [order |-> SelectSeq(s.order, LAMBDA x : x # k),
     items |-> Restrict(s.items, DOMAIN s.items \ {k}),
     bytes |-> Max({0, s.bytes - entrySize(s.items[k])})]

RECURSIVE evictLoop(_)
evictLoop(s) == IF overBudget(s) THEN evictLoop(evictOne(s, Last(s.order))) ELSE s

\* Stores of every list and sizes, with a byte counter that is right or too low.
MCStores ==
    UNION {{[order |-> list, items |-> items, bytes |-> b] :
               list \in SetToSeqs(S),
               items \in [S -> {Entry(0, 0, p) : p \in MCPolicies}],
               b \in {2, 8}} : S \in SUBSET Keys}

\* MemoryCache says in one expression what the loop does in turns.
ASSUME EvictionIsTheLoop == \A s \in MCStores : evictToBudget(s) = evictLoop(s)

\* bytesOf is the sum of the sizes.
ASSUME BytesAreTheSum ==
    \A s \in MCStores :
        bytesOf(s.items, DOMAIN s.items) =
            MapThenSumSet(LAMBDA k : entrySize(s.items[k]), DOMAIN s.items)
=============================================================================
