-------------------------- MODULE CachingTransport --------------------------
(* caching/transport.go over a MemoryCache: concurrent reads that share      *)
(* fetches by key (singleflight), background refreshes of stale entries, and *)
(* writes that flush what they made obsolete.  The server keeps a version    *)
(* per key; an entry's body is the version it holds, and so is its ETag.     *)
EXTENDS MemoryCache

CONSTANTS
    Callers,
    NegativeTTL,
    MaxFetch,     \* bound: how long a fetch takes
    MaxVersion,   \* bound: how often the data changes
    MaxCalls      \* bound: calls made in all

ASSUME TransportAssumption ==
    /\ NegativeTTL \in Nat /\ MaxFetch \in Nat
    /\ MaxVersion \in Nat \ {0} /\ MaxCalls \in Nat

VARIABLES
    server,    \* the current version of each key's data
    missing,   \* the versions that are a 404
    replaced,  \* history: when each version was superseded
    acked,     \* history: the last version whose write was acknowledged
    racing,    \* history: a fetch with older data was out during the last flush
    pc,        \* "idle", "miss", "waiting", "write", "written"
    arg,       \* the key each call is about, AnyKey when it is idle
    prev,      \* the entry a miss found, or NoEntry
    wrote,     \* the version a write made
    flight,    \* the singleflight call for each key, and who leads it
    pending,   \* refreshAsync goroutines that have not reached sf.Do, by the
               \* entry they carry
    calls

history == <<replaced, acked, racing>>
callVars == <<pc, arg, prev, wrote>>
vars == <<storeVars, server, missing, history, callVars, flight, pending, calls>>

AnyKey == CHOOSE k \in Keys : TRUE
NoEntry == Entry(0, 0, [TTL |-> 0, SWR |-> 0, size |-> 0])
NoFlight == [since |-> -1, by |-> "call", prev |-> NoEntry, status |-> "none", body |-> 0]
Never == MaxTime + 1

Init ==
    /\ StoreInit
    /\ server = [k \in Keys |-> 1]
    /\ missing \in [Keys -> SUBSET {MaxVersion}]
    /\ replaced = [k \in Keys |-> [v \in 1..MaxVersion |-> Never]]
    /\ acked = [k \in Keys |-> 1]
    /\ racing = [k \in Keys |-> FALSE]
    /\ pc = [c \in Callers |-> "idle"]
    /\ arg = [c \in Callers |-> AnyKey]
    /\ prev = [c \in Callers |-> NoEntry]
    /\ wrote = [c \in Callers |-> 0]
    /\ flight = [k \in Keys |-> NoFlight]
    /\ pending = [k \in Keys |-> {}]
    /\ calls = 0

Go(c, where, k, e, w) ==
    /\ pc' = [pc EXCEPT ![c] = where]
    /\ arg' = [arg EXCEPT ![c] = k]
    /\ prev' = [prev EXCEPT ![c] = e]
    /\ wrote' = [wrote EXCEPT ![c] = w]

Return(c) == Go(c, "idle", AnyKey, NoEntry, 0)

-----------------------------------------------------------------------------
(* RoundTrip of a cacheable method.                                           *)

\* The lookup: a live entry is served, a stale one is served and refreshed in
\* the background, anything else is a miss.
Lookup(c, k) ==
    /\ pc[c] = "idle"
    /\ calls < MaxCalls
    /\ calls' = calls + 1
    /\ Get(k)
    /\ LET entry == IF Found(k) THEN store.items[k] ELSE NoEntry
       IN  \/ /\ Found(k) /\ ~Expired(entry)
              /\ UNCHANGED <<callVars, pending>>
           \/ /\ Found(k) /\ Expired(entry) /\ Stale(entry)
              /\ pending' = [pending EXCEPT ![k] = @ \cup {entry}]
              /\ UNCHANGED callVars
           \/ /\ ~Found(k) \/ (Expired(entry) /\ ~Stale(entry))
              /\ Go(c, "miss", k, entry, 0)
              /\ UNCHANGED pending
    /\ UNCHANGED <<now, server, missing, history, flight>>

-----------------------------------------------------------------------------
(* singleflight: external, as fetchAndCache and refreshAsync use it.          *)

Lead(k, e, by) ==
    flight' = [flight EXCEPT ![k] = [NoFlight EXCEPT !.since = now, !.by = by, !.prev = e]]

bounded_Never(f) == FALSE

\* Does the context of a fetch end?  fetchAndCache uses the context of the request
\* that leads; refreshAsync strips deadline and cancellation.  Nothing else ends a
\* round trip: the transports inside have no response timeout.
bounded(f) == f.by = "call"

\* A miss leads a fetch of its key or joins the one that is out, and then waits
\* in sf.Do whatever becomes of its own context.
FetchOrJoin(c) ==
    /\ pc[c] = "miss"
    /\ IF flight[arg[c]] = NoFlight THEN Lead(arg[c], prev[c], "call") ELSE UNCHANGED flight
    /\ Go(c, "waiting", arg[c], NoEntry, 0)
    /\ UNCHANGED <<storeVars, server, missing, history, pending, calls>>

\* A background refresh does the same; nobody waits for it.
Refresh(k) ==
    /\ \E e \in pending[k] :
          /\ pending' = [pending EXCEPT ![k] = @ \ {e}]
          /\ IF flight[k] = NoFlight THEN Lead(k, e, "refresh") ELSE UNCHANGED flight
    /\ UNCHANGED <<storeVars, server, missing, history, callVars, calls>>

\* The server answers: 200 or 404 as its data stands, 304 when the request named
\* the current version, or an error that is not to be cached.
ServerAnswers(k) ==
    /\ flight[k] # NoFlight /\ flight[k].status = "none"
    /\ \E status \in {"ok", "not_found", "not_modified", "error"} :
          /\ status = "ok" => server[k] \notin missing[k]
          /\ status = "not_found" => server[k] \in missing[k]
          /\ status = "not_modified" =>
                flight[k].prev # NoEntry /\ flight[k].prev.body = server[k]
          /\ flight' = [flight EXCEPT ![k].status = status, ![k].body = server[k]]
    /\ UNCHANGED <<storeVars, server, missing, history, callVars, pending, calls>>

\* Everyone who waits for k has its result.
wake(k) ==
    /\ flight' = [flight EXCEPT ![k] = NoFlight]
    /\ pc' = [c \in Callers |->
                 IF pc[c] = "waiting" /\ arg[c] = k THEN "idle" ELSE pc[c]]
    /\ arg' = [c \in Callers |->
                 IF pc[c] = "waiting" /\ arg[c] = k THEN AnyKey ELSE arg[c]]
    /\ UNCHANGED <<prev, wrote>>

processResponse_KeepsStale(k) ==
    LET f == flight[k]
    IN  CASE f.status = "ok" ->
               \E p \in Policies : Set(k, Entry(f.body, now, p))
          [] f.status = "not_modified" ->
               \E p \in Policies : Set(k, Entry(f.prev.body, now, p))
          [] f.status = "not_found" /\ NegativeTTL > 0 ->
               Set(k, Entry(f.body, now, [TTL |-> NegativeTTL, SWR |-> 0, size |-> 1]))
          [] OTHER ->
               IF f.prev # NoEntry
               THEN \E p \in Policies : Set(k, Entry(f.prev.body, now, p))
               ELSE UNCHANGED store

\* What becomes of a response: a 200 and a 404 are stored, with their own
\* lifetimes; a 304 renews the entry the request carried; the rest is not stored.
processResponse(k) ==
    LET f == flight[k]
    IN  CASE f.status = "ok" ->
               \E p \in Policies : Set(k, Entry(f.body, now, p))
          [] f.status = "not_modified" ->
               \E p \in Policies : Set(k, Entry(f.prev.body, now, p))
          [] f.status = "not_found" /\ NegativeTTL > 0 ->
               Set(k, Entry(f.body, now, [TTL |-> NegativeTTL, SWR |-> 0, size |-> 1]))
          [] OTHER -> UNCHANGED store

FetchLands(k) ==
    /\ flight[k].status # "none"
    /\ processResponse(k)
    /\ wake(k)
    /\ UNCHANGED <<now, server, missing, history, pending, calls>>

\* The leader's round trip fails, by the network, by its caller's context or by
\* a body over the limit: so does everyone's.
FetchFails(k) ==
    /\ flight[k] # NoFlight
    /\ wake(k)
    /\ UNCHANGED <<storeVars, server, missing, history, pending, calls>>

-----------------------------------------------------------------------------
(* forwardAndInvalidate                                                       *)

BeginWrite(c, k) ==
    /\ pc[c] = "idle"
    /\ calls < MaxCalls
    /\ calls' = calls + 1
    /\ Go(c, "write", k, NoEntry, 0)
    /\ UNCHANGED <<storeVars, server, missing, history, flight, pending>>

\* The server applies the write.
ServerWrites(c) ==
    LET k == arg[c]
    IN  /\ pc[c] = "write"
        /\ server[k] < MaxVersion
        /\ server' = [server EXCEPT ![k] = @ + 1]
        /\ replaced' = [replaced EXCEPT ![k][server[k]] = now]
        /\ Go(c, "written", k, NoEntry, server[k] + 1)
        /\ UNCHANGED <<storeVars, missing, acked, racing, flight, pending, calls>>

\* An error, a status that is not 2xx, or an answer lost: nothing is flushed.
WriteFails(c) ==
    /\ pc[c] \in {"write", "written"}
    /\ Return(c)
    /\ UNCHANGED <<storeVars, server, missing, history, flight, pending, calls>>

flush_MatchesNothing(k) == UNCHANGED store

\* The prefix of the caller's scope and the invalidated method.
flush(k) == \E p \in KeyPrefixes : k \in p /\ DeleteMatching(p)

WriteSucceeds(c) ==
    LET k == arg[c]
    IN  /\ pc[c] = "written"
        /\ flush(k)
        /\ acked' = [acked EXCEPT ![k] = Max({@, wrote[c]})]
        /\ racing' = [racing EXCEPT ![k] =
                         flight[k].status # "none" /\ flight[k].body < acked'[k]]
        /\ Return(c)
        /\ UNCHANGED <<now, server, missing, replaced, flight, pending, calls>>

-----------------------------------------------------------------------------

\* Time passes.  A fetch that ends is out for MaxFetch at most; the clock waits for
\* one that does not.
TimePasses ==
    /\ \A k \in Keys : flight[k] # NoFlight => now < flight[k].since + MaxFetch
    /\ Tick
    /\ UNCHANGED <<store, server, missing, history, callVars, flight, pending, calls>>

CallStep(c) == FetchOrJoin(c) \/ ServerWrites(c) \/ WriteFails(c) \/ WriteSucceeds(c)
FlightStep(k) == ServerAnswers(k) \/ FetchLands(k) \/ FetchFails(k)

Next ==
    \/ \E c \in Callers, k \in Keys : Lookup(c, k) \/ BeginWrite(c, k)
    \/ \E c \in Callers : CallStep(c)
    \/ \E k \in Keys : FlightStep(k) \/ Refresh(k)
    \/ TimePasses

Spec == Init /\ [][Next]_vars

\* Goroutines that can run do, and the round trip of a request ends with the
\* request's context.  Nothing is asked of a background refresh.
Fairness ==
    /\ \A c \in Callers : WF_vars(CallStep(c))
    /\ \A k \in Keys : WF_vars(bounded(flight[k]) /\ FlightStep(k))

FairSpec == Spec /\ Fairness

-----------------------------------------------------------------------------
(* Properties                                                                 *)

\* The answer to "how old can data from the cache be": a version is served at
\* most MaxFetch + TTL + SWR after it was superseded, although fetches land after
\* the write, stale entries are renewed by 304s and flushes can be missed.
StaleAtMost ==
    \A k \in Keys : Found(k) =>
        LET e == store.items[k]
        IN  now <= replaced[k][e.body] + MaxFetch + e.TTL + e.SWR

\* "Cache entries should be flushed on a successful write": data older than an
\* acknowledged write is in the cache only if a fetch was carrying it while the
\* write flushed.
FlushedUnlessInFlight ==
    \A k \in DOMAIN store.items : store.items[k].body < acked[k] => racing[k]

\* A call comes back, although it waits in sf.Do for a fetch of another request
\* and cannot leave with its own context.  The one thing that can hold it for
\* ever is a background refresh of its key that hangs.
CallsReturn ==
    \A c \in Callers :
        \/ []<>(pc[c] = "idle")
        \/ <>[](flight[arg[c]].by = "refresh")
=============================================================================
