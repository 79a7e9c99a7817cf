------------------------------ MODULE Rotation ------------------------------
(* Unary calls through the rotation and auth interceptors (auth/rotation.go, *)
(* auth/auth.go) that share one token source.                                *)
EXTENDS TokenSource

CONSTANTS
    MaxCalls,       \* bound: calls made in all
    MaxRevocations  \* bound: tokens withdrawn in all

ASSUME RotationAssumption == MaxCalls \in Nat /\ MaxRevocations \in Nat

VARIABLES
    pc,        \* "idle", "token", "exchange", "answered", "rpc", "invalidate"
    try,       \* 1, or 2 after rotation
    tok,       \* the token the current try carries
    rejected,  \* the token the server rejected on the first try
    mine,      \* passthrough: the token of the inbound request being served
    rotates,   \* the method passes the idempotency gate
    calls      \* how many calls have begun

callVars == <<pc, try, tok, rejected, mine, rotates, calls>>
vars == <<tokenVars, callVars>>

PCs == {"idle", "token", "exchange", "answered", "rpc", "invalidate"}

Init ==
    /\ SourceInit
    /\ pc = [c \in Callers |-> "idle"]
    /\ try = [c \in Callers |-> 1]
    /\ tok = [c \in Callers |-> NoToken]
    /\ rejected = [c \in Callers |-> NoToken]
    /\ mine = [c \in Callers |-> NoToken]
    /\ rotates = [c \in Callers |-> FALSE]
    /\ calls = 0

Go(c, where) == pc' = [pc EXCEPT ![c] = where]

\* A call begins.  With a passthrough source it serves an inbound request, whose
\* token the middleware has just set.
Begin(c) ==
    /\ pc[c] = "idle"
    /\ calls < MaxCalls
    /\ calls' = calls + 1
    /\ Go(c, "token")
    /\ \E g \in BOOLEAN : rotates' = [rotates EXCEPT ![c] = g]
    /\ IF kind = "passthrough"
       THEN LET t == Token(issued + 1, now, 0)
            IN  SetToken(t) /\ mine' = [mine EXCEPT ![c] = t]
       ELSE UNCHANGED <<tokenVars, mine>>
    /\ UNCHANGED <<try, tok, rejected>>

\* attach: the source hands out its cached token and the request goes out.
AttachCached(c) ==
    /\ pc[c] = "token"
    /\ TokenFromCache
    /\ Go(c, "rpc")
    /\ tok' = [tok EXCEPT ![c] = cache]
    /\ UNCHANGED <<try, rejected, mine, rotates, calls>>

AttachExchanges(c) ==
    /\ pc[c] = "token"
    /\ StartExchange(c)
    /\ Go(c, "exchange")
    /\ UNCHANGED <<try, tok, rejected, mine, rotates, calls>>

IdPAnswers(c) ==
    /\ pc[c] = "exchange"
    /\ IdPIssues(c)
    /\ Go(c, "answered")
    /\ \E l \in Lifetimes : tok' = [tok EXCEPT ![c] = Token(issued', now, l)]
    /\ UNCHANGED <<try, rejected, mine, rotates, calls>>

AttachExchanged(c) ==
    /\ pc[c] = "answered"
    /\ AnswerArrives(c, tok[c])
    /\ Go(c, "rpc")
    /\ UNCHANGED <<try, tok, rejected, mine, rotates, calls>>

\* The call returns to its caller.
Return(c) ==
    /\ Go(c, "idle")
    /\ try' = [try EXCEPT ![c] = 1]
    /\ tok' = [tok EXCEPT ![c] = NoToken]
    /\ rejected' = [rejected EXCEPT ![c] = NoToken]
    /\ mine' = [mine EXCEPT ![c] = NoToken]
    /\ rotates' = [rotates EXCEPT ![c] = FALSE]
    /\ UNCHANGED calls

mayRotate_EveryTime(c) == rotates[c]

\* One rotation per call, and only for methods that may be repeated.
mayRotate(c) == rotates[c] /\ try[c] = 1

\* CodeUnauthenticated, from the server or from attach, reaches the rotation
\* interceptor with the try that carried t: the first one of a call that may be
\* repeated leads to Invalidate and one more try; any other is the call's error.
Unauthenticated(c, t) ==
    \/ /\ mayRotate(c)
       /\ Go(c, "invalidate")
       /\ rejected' = [rejected EXCEPT ![c] = t]
       /\ tok' = [tok EXCEPT ![c] = NoToken]
       /\ UNCHANGED <<try, mine, rotates, calls>>
    \/ ~mayRotate(c) /\ Return(c)

\* attach fails: every error of the source becomes CodeUnauthenticated.
AttachFails(c) ==
    /\ \/ pc[c] \in {"exchange", "answered"} /\ ExchangeFails(c, pc[c] = "answered")
       \/ pc[c] = "token" /\ TokenUnavailable
    /\ Unauthenticated(c, NoToken)

ServerRejects(c) ==
    /\ pc[c] = "rpc"
    /\ ~Honoured(tok[c])
    /\ Unauthenticated(c, tok[c])
    /\ UNCHANGED tokenVars

\* A response, or an error that is not about the token.
ServerAnswers(c) ==
    /\ pc[c] = "rpc"
    /\ Honoured(tok[c])
    /\ Return(c)
    /\ UNCHANGED tokenVars

InvalidateAndRetry(c) ==
    /\ pc[c] = "invalidate"
    /\ Invalidate
    /\ Go(c, "token")
    /\ try' = [try EXCEPT ![c] = 2]
    /\ UNCHANGED <<tok, rejected, mine, rotates, calls>>

\* Time passes, but no answer of the IdP is under way for longer than MaxTransit.
Tick ==
    /\ \A c \in Callers : pc[c] = "answered" => now < tok[c].birth + MaxTransit
    /\ Advance
    /\ UNCHANGED callVars

\* Only a token somebody still holds is worth withdrawing.
RevokeSome ==
    /\ Cardinality(revoked) < MaxRevocations
    /\ \E t \in {cache} \cup {tok[c] : c \in Callers} : Revoke(t)
    /\ UNCHANGED callVars

CallStep(c) ==
    \/ AttachCached(c) \/ AttachExchanges(c) \/ IdPAnswers(c) \/ AttachExchanged(c)
    \/ AttachFails(c) \/ ServerRejects(c) \/ ServerAnswers(c)
    \/ InvalidateAndRetry(c)

Next ==
    \/ \E c \in Callers : Begin(c) \/ CallStep(c)
    \/ Tick
    \/ RevokeSome

Spec == Init /\ [][Next]_vars

\* sync.Mutex hands itself to a waiter that has waited long enough, so a
\* goroutine that can get it again and again does get it; exchanges and RPCs
\* end, by an answer or by the deadline of the context they run under.
Fairness == \A c \in Callers : SF_vars(CallStep(c))

FairSpec == Spec /\ Fairness

-----------------------------------------------------------------------------
(* Properties                                                                 *)

\* Types; and the mutex is held exactly by the caller whose exchange is out.
TypeOK ==
    /\ mu \in Callers \cup {NoOne}
    /\ cache.id \in 0..issued
    /\ asOf \in 0..now
    /\ refresh \in Nat /\ idpRefresh \in Nat
    /\ issued \in 0..MaxTokens
    /\ pc \in [Callers -> PCs]
    /\ try \in [Callers -> 1..2]
    /\ \A c \in Callers : tok[c].id \in 0..issued
    /\ \A c \in Callers : pc[c] \in {"exchange", "answered"} <=> mu = c

\* "The next Token call fetches a fresh token instead of re-serving the
\* cached-and-rejected one": after a rejection the second try never carries the
\* rejected token, whatever other callers do to the shared source in between.
SecondTryUsesNewToken ==
    \A c \in Callers :
        (pc[c] = "rpc" /\ try[c] = 2 /\ rejected[c] # NoToken) => tok[c] # rejected[c]

\* How old a token can be when it is cached: the first one of an authorization
\* code as old as the source is late in being built, any other as old as the
\* IdP's answer is late.
ageWhenCached(t) ==
    IF kind = "authorization_code" /\ t.id = 1 THEN MaxHandover ELSE MaxTransit

\* A direct source counts a token's lifetime from when it cached it, and the
\* skew window makes up for it: a token served from the cache outlives the
\* expiry its IdP gave it by no more than what that time exceeds the skew window,
\* and ends skewWindow before its expiry if it came without delay.
LateByTransitOnly ==
    [][\A c \in Callers :
          (kind \in Direct /\ pc[c] = "token" /\ pc'[c] = "rpc" /\ tok'[c].life > 0)
              => now + skewWindow <=
                    tok'[c].birth + tok'[c].life + ageWhenCached(tok'[c])]_vars

\* A refresh token that the IdP has already replaced is presented again only
\* after an answer was lost on the way: concurrent callers never spend one twice.
NoRefreshReplay == replayed => lost

\* Every call ends.
CallsEnd == \A c \in Callers : pc[c] # "idle" ~> pc[c] = "idle"

\* Every token fetched has a cause of its own: there was none yet, the cached
\* one expired or was thrown away by a rejected caller, or its answer was lost.
\* Callers that find no token at the same time share one exchange; callers
\* rejected with the same token cost at most one each.
FetchesHaveCause == kind # "passthrough" => issued <= causes

\* HeaderPassthroughSource "forwards a bound token that an upstream broker
\* attached to the consumer's incoming request": a call made for an inbound
\* request never goes out with the token of an earlier one.  (It may go out with
\* the token of a later one that arrived before the call read the source.)
ForwardsNoOlderToken ==
    \A c \in Callers :
        (kind = "passthrough" /\ pc[c] = "rpc") => tok[c].id >= mine[c].id
=============================================================================
