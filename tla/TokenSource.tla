---------------------------- MODULE TokenSource ----------------------------
(* The token sources of the oauth package: client credentials, authorization *)
(* code, local-endpoint broker and header passthrough.  Each keeps one       *)
(* token behind a mutex; the first three hold the mutex while they talk to   *)
(* the IdP or broker, which is external and modelled by what they ask of it. *)
(* The actions here take the goroutine that runs them; module Rotation says  *)
(* when.                                                                     *)
EXTENDS Integers, FiniteSets

CONSTANTS
    Callers,
    Kinds,             \* the sources considered
    Lifetimes,         \* expires_in of the tokens issued, 0 when left out
    skewWindow,
    MaxCacheDuration,  \* the broker's cap
    MaxHandover,       \* how long after Exchange a source may be built on its answer
    MaxTransit,        \* how long an answer of the IdP may be under way
    MaxTime,           \* bound: how long the clock runs
    MaxTokens          \* bound: how many tokens are ever issued

ASSUME TokenAssumption ==
    /\ Kinds \subseteq {"client_credentials", "authorization_code", "broker",
                        "passthrough"}
    /\ Lifetimes \subseteq Nat
    /\ skewWindow \in Nat
    /\ MaxCacheDuration \in Nat \ {0}
    /\ MaxHandover \in Nat /\ MaxTransit \in Nat
    /\ MaxTime \in Nat
    /\ MaxTokens \in Nat \ {0}

\* A token as the IdP issued it: when, and with which expires_in.
Token(id, birth, life) == [id |-> id, birth |-> birth, life |-> life]
NoToken == Token(0, 0, 0)
NoOne == 0
ASSUME CallersAssumption == NoOne \notin Callers

VARIABLES
    kind,        \* which source this is
    mu,          \* who holds the mutex across an exchange
    cache,       \* the cached token
    asOf,        \* when it was cached
    refresh,     \* the refresh token held, 0 for none
    now,
    issued,      \* the IdP: how many tokens it has issued
    revoked,     \*   the tokens it no longer honours
    idpRefresh,  \*   the refresh token it would accept
    lost,        \* history: an answer that rotated the refresh token was lost
    replayed,    \* history: a spent refresh token was presented
    causes       \* history: reasons to fetch a token so far: there was none, it
                 \*   was invalidated, it expired, or the answer was lost

source == <<mu, cache, asOf, refresh>>
idp == <<issued, revoked, idpRefresh>>
history == <<lost, replayed, causes>>
tokenVars == <<kind, source, now, idp, history>>

Direct == {"client_credentials", "authorization_code"}

\* What the Exchange of an authorization code may have answered.
Exchanged == {Token(1, 0, l) : l \in Lifetimes}

SourceInit ==
    /\ kind \in Kinds
    /\ mu = NoOne
    /\ now \in IF kind = "authorization_code" THEN 0..MaxHandover ELSE {0}
    /\ asOf = now
    /\ revoked = {}
    /\ lost = FALSE
    /\ replayed = FALSE
    /\ causes = 1
    /\ IF kind = "authorization_code"
       THEN \* built, now, from the answer that Exchange had at time 0
            /\ cache \in Exchanged
            /\ issued = 1
            /\ refresh \in {0, 1}
            /\ idpRefresh = 1
       ELSE /\ cache = NoToken
            /\ issued = 0
            /\ refresh = 0
            /\ idpRefresh = 0

-----------------------------------------------------------------------------
(* Expiry                                                                     *)

expiredDirect_NoSkew == cache.life > 0 /\ now > asOf + cache.life

\* client_credentials and authorization_code: skewWindow before expires_in runs
\* out, never when the IdP did not say.
expiredDirect == cache.life > 0 /\ now + skewWindow > asOf + cache.life

\* broker: the cap, which expires_in only tightens; no skew.
expiredBroker ==
    LET supplied == cache.life
        maxDur == IF supplied > 0 /\ supplied < MaxCacheDuration
                  THEN supplied ELSE MaxCacheDuration
    IN  now > asOf + maxDur

\* passthrough: never.
expired ==
    \/ kind \in Direct /\ expiredDirect
    \/ kind = "broker" /\ expiredBroker

usable == cache # NoToken /\ ~expired

-----------------------------------------------------------------------------
(* Token: the mutex is free, and                                              *)

\* the cached token is returned;
TokenFromCache ==
    /\ mu = NoOne
    /\ usable
    /\ UNCHANGED tokenVars

\* there is nothing to return and nobody to ask (passthrough without a token,
\* authorization code without a refresh token);
TokenUnavailable ==
    /\ mu = NoOne
    /\ ~usable
    /\ \/ kind = "passthrough"
       \/ kind = "authorization_code" /\ refresh = 0
    /\ UNCHANGED tokenVars

\* Refresh sends the refresh token held, and the IdP has replaced that one.
presentsSpent == kind = "authorization_code" /\ refresh # idpRefresh

StartExchange_NoRecheck(c) ==
    /\ mu = NoOne
    /\ kind # "passthrough"
    /\ kind = "authorization_code" => refresh # 0
    /\ mu' = c
    /\ replayed' = (replayed \/ presentsSpent)
    /\ UNCHANGED <<kind, cache, asOf, refresh, now, idp, lost, causes>>

\* or an exchange starts, and the mutex stays locked until it ends.
StartExchange(c) ==
    /\ mu = NoOne
    /\ ~usable
    /\ kind # "passthrough"
    /\ kind = "authorization_code" => refresh # 0
    /\ mu' = c
    /\ replayed' = (replayed \/ presentsSpent)
    /\ UNCHANGED <<kind, cache, asOf, refresh, now, idp, lost, causes>>

\* The IdP issues a token.  For a refresh it wants the current refresh token,
\* and may answer with a new one that replaces it.
IdPIssues(c) ==
    /\ mu = c
    /\ kind = "authorization_code" => refresh = idpRefresh
    /\ issued < MaxTokens
    /\ issued' = issued + 1
    /\ idpRefresh' \in IF kind = "authorization_code"
                       THEN {idpRefresh, idpRefresh + 1} ELSE {idpRefresh}
    /\ causes' = causes + IF cache # NoToken /\ expired THEN 1 ELSE 0
    /\ UNCHANGED <<kind, source, now, revoked, lost, replayed>>

storeRefresh_Dropped(r) == refresh

\* An answer without a refresh token leaves the old one in place.
storeRefresh(r) == IF kind = "authorization_code" THEN r ELSE refresh

\* The answer t arrives: it is cached and the mutex is released.
AnswerArrives(c, t) ==
    /\ mu = c
    /\ mu' = NoOne
    /\ cache' = t
    /\ asOf' = now
    /\ refresh' = storeRefresh(idpRefresh)
    /\ UNCHANGED <<kind, now, idp, history>>

ExchangeFails_KeepsLock(c, answered) ==
    /\ mu = c
    /\ lost' = (lost \/ refresh # idpRefresh)
    /\ UNCHANGED <<kind, source, now, idp, replayed, causes>>

\* The exchange fails: a transport error, a cancelled context, a refusal.  If
\* the IdP had answered, the answer is lost.
ExchangeFails(c, answered) ==
    /\ mu = c
    /\ mu' = NoOne
    /\ lost' = (lost \/ refresh # idpRefresh)
    /\ causes' = causes + IF answered /\ cache = NoToken THEN 1 ELSE 0
    /\ UNCHANGED <<kind, cache, asOf, refresh, now, idp, replayed>>

Invalidate_Noop ==
    /\ mu = NoOne
    /\ UNCHANGED tokenVars

Invalidate ==
    /\ mu = NoOne
    /\ cache' = NoToken
    /\ causes' = causes + IF cache # NoToken THEN 1 ELSE 0
    /\ UNCHANGED <<kind, mu, asOf, refresh, now, idp, lost, replayed>>

SetToken_KeepsFirst(t) ==
    /\ kind = "passthrough"
    /\ issued < MaxTokens
    /\ issued' = issued + 1
    /\ cache' = IF cache = NoToken THEN t ELSE cache
    /\ UNCHANGED <<kind, mu, asOf, refresh, now, revoked, idpRefresh, history>>

\* passthrough: an inbound request arrived with a token of its own.
SetToken(t) ==
    /\ kind = "passthrough"
    /\ issued < MaxTokens
    /\ issued' = issued + 1
    /\ cache' = t
    /\ UNCHANGED <<kind, mu, asOf, refresh, now, revoked, idpRefresh, history>>

-----------------------------------------------------------------------------
(* The outside world.                                                         *)

\* The IdP, or an operator, withdraws a token before its time.
Revoke(t) ==
    /\ t # NoToken
    /\ t.id \notin revoked
    /\ revoked' = revoked \cup {t.id}
    /\ UNCHANGED <<kind, source, now, issued, idpRefresh, history>>

Advance ==
    /\ now < MaxTime
    /\ now' = now + 1
    /\ UNCHANGED <<kind, source, idp, history>>

\* What the server checks: the token is neither revoked nor past its expiry.
Honoured(t) ==
    /\ t.id \notin revoked
    /\ t.life > 0 => now <= t.birth + t.life
=============================================================================
