---------------------------- MODULE MemoryCache ----------------------------
(* caching/memory.go: the LRU+TTL store.  Every operation runs under one     *)
(* mutex, so each is a step.  The map and the list it keeps in tandem are    *)
(* one record, store: order lists the keys, most recently used first, items  *)
(* maps them to their entries, bytes is the running total.                   *)
EXTENDS Integers, Sequences, FiniteSets, FiniteSetsExt, SequencesExt

CONSTANTS
    Keys,
    KeyPrefixes, \* for each prefix, the keys that begin with it: sets of keys
    capacity,
    maxBytes,
    Policies,   \* the lifetimes and the size an entry can come with
    MaxTime     \* bound: how long the clock runs

ASSUME StoreAssumption ==
    /\ KeyPrefixes \subseteq SUBSET Keys
    /\ capacity \in Nat \ {0}
    /\ maxBytes \in Nat \ {0}
    /\ Policies \subseteq [TTL : Nat, SWR : Nat, size : Nat]
    /\ MaxTime \in Nat

VARIABLES store, now

\* An Entry: what it holds, when it was made, its lifetimes, and what entrySize
\* makes of it.
Entry(body, created, policy) ==
    [body |-> body, created |-> created,
     TTL |-> policy.TTL, SWR |-> policy.SWR, size |-> policy.size]

Expired(e) == now > e.created + e.TTL

Stale(e) == e.SWR > 0 /\ Expired(e) /\ now <= e.created + e.TTL + e.SWR

entrySize(e) == e.size

Empty == [order |-> <<>>, items |-> <<>>, bytes |-> 0]

PastDeadline(e) == now > e.created + e.TTL + e.SWR

\* A list without the elements of K, the others in their order.
without(list, K) ==
    LET kept == {i \in DOMAIN list : list[i] \notin K}
        rank(i) == Cardinality({h \in kept : h <= i})
    IN  [j \in 1..Cardinality(kept) |-> list[CHOOSE i \in kept : rank(i) = j]]

\* What the entries of K take, counted byte by byte.
bytesOf(items, K) ==
    Cardinality(UNION {{k} \X (1..entrySize(items[k])) : k \in K})

\* evictElement for each element of K in turn: they leave the list and the map
\* and give their bytes back.
evictElements(s, K) ==
    [order |-> without(s.order, K),
     items |-> Restrict(s.items, DOMAIN s.items \ K),
     bytes |-> Max({0, s.bytes - bytesOf(s.items, K)})]

moveToFront_Noop(s, k) == s

moveToFront(s, k) == [s EXCEPT !.order = <<k>> \o without(s.order, {k})]

\* The last entry stays even if it is larger than the budget.
overBudget(s) ==
    \/ Len(s.order) > capacity
    \/ s.bytes > maxBytes /\ Len(s.order) > 1

\* The store after n turns of evictToBudget's loop, each of which takes the back
\* of the list.
evictOldest(s, n) ==
    evictElements(s, {s.order[i] : i \in Len(s.order) - n + 1 .. Len(s.order)})

\* The loop stops at the first turn that finds the store within budget.
evictToBudget(s) ==
    LET within == {t \in {evictOldest(s, n) : n \in 0..Len(s.order)} : ~overBudget(t)}
    IN  CHOOSE t \in within : \A u \in within : Len(u.order) <= Len(t.order)

\* The map with e under k.
with(items, k, e) ==
    [x \in DOMAIN items \cup {k} |-> IF x = k THEN e ELSE items[x]]

pushFront(s, k, e) ==
    [order |-> <<k>> \o s.order,
     items |-> with(s.items, k, e),
     bytes |-> s.bytes + entrySize(e)]

replace_KeepsBytes(s, k, e) == moveToFront([s EXCEPT !.items = with(@, k, e)], k)

replace(s, k, e) ==
    moveToFront([s EXCEPT !.items = with(@, k, e),
                          !.bytes = @ + entrySize(e) - entrySize(s.items[k])], k)

inserted(s, k, e) ==
    IF k \in DOMAIN s.items THEN replace(s, k, e) ELSE pushFront(s, k, e)

Found(k) == k \in DOMAIN store.items /\ ~PastDeadline(store.items[k])

-----------------------------------------------------------------------------
(* The operations of the Cache interface.                                     *)

\* A hit moves the entry to the front; an entry past its hard deadline is
\* evicted and not found.
Get(k) ==
    store' = IF Found(k) THEN moveToFront(store, k)
             ELSE IF k \in DOMAIN store.items THEN evictElements(store, {k})
             ELSE store

\* Set puts e under k, at the front, and then evicts.
Set(k, e) == \E s \in {inserted(store, k, e)} : store' = evictToBudget(s)

Delete_MapOnly(k) == store' = [store EXCEPT !.items = Restrict(@, DOMAIN @ \ {k})]

Delete(k) == store' = IF k \in DOMAIN store.items THEN evictElements(store, {k}) ELSE store

DeleteMatching(prefix) ==
    store' = evictElements(store, prefix \cap DOMAIN store.items)

StoreInit == store = Empty /\ now = 0

Tick == now < MaxTime /\ now' = now + 1

\* Any calls in any order.
StoreNext ==
    \/ \E k \in Keys : Get(k) /\ UNCHANGED now
    \/ \E k \in Keys : Delete(k) /\ UNCHANGED now
    \/ \E k \in Keys, p \in Policies : Set(k, Entry(0, now, p)) /\ UNCHANGED now
    \/ \E p \in KeyPrefixes : DeleteMatching(p) /\ UNCHANGED now
    \/ Tick /\ UNCHANGED store

storeVars == <<store, now>>

StoreSpec == StoreInit /\ [][StoreNext]_storeVars

-----------------------------------------------------------------------------
(* Properties                                                                 *)

\* "The map and list are populated in tandem": every key is in the list once
\* exactly when it is in the map, and bytes is what the entries held add up to.
InTandem ==
    /\ \A i, j \in 1..Len(store.order) : store.order[i] = store.order[j] => i = j
    /\ ToSet(store.order) = DOMAIN store.items
    /\ store.bytes = bytesOf(store.items, DOMAIN store.items)

\* "Eviction runs until both hold": after every call the count is within
\* capacity, and the real size of the entries within maxBytes unless one is left.
WithinBudget ==
    LET held == DOMAIN store.items
    IN  /\ Cardinality(held) <= capacity
        /\ bytesOf(store.items, held) <= maxBytes \/ Cardinality(held) <= 1

\* A Set keeps what it stored, pushes out only what was used longest ago, and
\* no more of it than the budget asks for.
EvictsOldestOnly ==
    [][\A k \in Keys, p \in Policies :
          LET e == Entry(0, now, p)
              rest == without(store.order, {k})
              kept == Len(store'.order) - 1
          IN  Set(k, e) =>
                /\ kept \in 0..Len(rest)
                /\ store'.order = <<k>> \o SubSeq(rest, 1, kept)
                /\ kept < Len(rest) =>
                     \/ kept + 2 > capacity
                     \/ bytesOf(with(store.items, k, e),
                                {k} \cup ToSet(SubSeq(rest, 1, kept + 1))) > maxBytes
       ]_storeVars
=============================================================================
