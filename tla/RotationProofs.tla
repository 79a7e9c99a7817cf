--------------------------- MODULE RotationProofs ---------------------------
(* What holds of a token source shared by any number of calls, for every     *)
(* source, every lifetime the IdP grants and every interleaving.             *)
EXTENDS Rotation, TLAPS

-----------------------------------------------------------------------------
(* The inductive invariant.                                                   *)

Tokens == [id : Nat, birth : Nat, life : {0} \cup Lifetimes]

\* Every token in circulation was issued.
Known(t) == t \in Tokens /\ (t = NoToken \/ t.id \in 1..issued)

SourceTypes ==
    /\ kind \in Kinds
    /\ mu \in Callers \cup {NoOne}
    /\ now \in Nat /\ asOf \in 0..now
    /\ refresh \in Nat /\ idpRefresh \in Nat
    /\ issued \in 0..MaxTokens
    /\ kind = "authorization_code" => issued >= 1
    /\ lost \in BOOLEAN /\ replayed \in BOOLEAN /\ causes \in Nat

CallTypes ==
    /\ pc \in [Callers -> PCs]
    /\ try \in [Callers -> 1..2]
    /\ tok \in [Callers -> Tokens]
    /\ rejected \in [Callers -> Tokens]
    /\ mine \in [Callers -> Tokens]
    /\ rotates \in [Callers -> BOOLEAN]

AllKnown ==
    /\ Known(cache)
    /\ \A c \in Callers : Known(tok[c]) /\ Known(rejected[c]) /\ Known(mine[c])

\* The mutex is held across the exchange and only then; passthrough has none.
MutexLaw ==
    /\ \A c \in Callers : pc[c] \in {"exchange", "answered"} <=> mu = c
    /\ kind = "passthrough" => mu = NoOne

\* A token that the IdP issued and that is not cached yet is newer than every
\* other one, wherever it is kept, is not the first of an authorization code, and
\* has not been under way for longer than MaxTransit.
FreshLaw ==
    \A c \in Callers : pc[c] = "answered" =>
        /\ tok[c].id = issued
        /\ cache.id < issued
        /\ \A d \in Callers : rejected[d].id < issued /\ (d # c => tok[d].id < issued)
        /\ kind = "authorization_code" => issued >= 2
        /\ now <= tok[c].birth + MaxTransit

\* After a rejection the cache is empty or newer than the token rejected, and
\* so is the token the second try goes out with.
RetryLaw ==
    \A c \in Callers :
        /\ pc[c] = "idle" => try[c] = 1
        /\ try[c] = 2 /\ rejected[c] # NoToken =>
              /\ pc[c] \in {"token", "exchange"} =>
                     cache = NoToken \/ cache.id > rejected[c].id
              /\ pc[c] = "rpc" => tok[c].id > rejected[c].id

\* No token was older than it can be when a direct source cached it.
SkewLaw ==
    kind \in Direct /\ cache # NoToken => asOf <= cache.birth + ageWhenCached(cache)

\* The refresh token held is the IdP's, unless an answer that replaces it is
\* under way or was lost.
RefreshLaw ==
    /\ replayed => lost
    /\ kind = "authorization_code" /\ refresh # 0 /\ refresh # idpRefresh =>
          lost \/ \E c \in Callers : pc[c] = "answered"

\* An exchange is out only while the cache is no good; and while the cache is
\* empty and no answer is under way, one cause is not used up.
CauseLaw ==
    /\ \A c \in Callers : pc[c] = "exchange" => ~usable
    /\ kind # "passthrough" =>
          /\ issued <= causes
          /\ (cache = NoToken /\ \A c \in Callers : pc[c] # "answered") =>
                issued + 1 <= causes

\* A passthrough source holds the latest token or none.
PassLaw ==
    kind = "passthrough" =>
        /\ cache = NoToken \/ cache.id = issued
        /\ \A c \in Callers : pc[c] = "rpc" => tok[c].id >= mine[c].id

TypeInv == SourceTypes /\ CallTypes /\ AllKnown /\ MutexLaw

Laws == FreshLaw /\ RetryLaw /\ SkewLaw /\ RefreshLaw /\ CauseLaw /\ PassLaw

RoInv == TypeInv /\ Laws

-----------------------------------------------------------------------------
(* Facts the steps share.                                                     *)

\* NoToken is known, and the only known token with number 0.
LEMMA NoTokenKnown ==
    /\ NoToken \in Tokens /\ NoToken.id = 0
    /\ \A t \in Tokens : Known(t) /\ t # NoToken => t.id >= 1
    /\ issued \in Nat => \A t \in Tokens : Known(t) => t.id <= issued
BY DEF NoToken, Token, Tokens, Known

\* Whether the cached token is usable depends on the source and the clock.
LEMMA UsableStays ==
    ASSUME UNCHANGED <<kind, cache, asOf, now>>
    PROVE  usable' = usable
BY DEF usable, expired, expiredDirect, expiredBroker

\* The durations are durations.
LEMMA LifetimesType ==
    /\ skewWindow \in Nat /\ MaxCacheDuration \in Nat
    /\ MaxHandover \in Nat /\ MaxTransit \in Nat
    /\ \A l \in {0} \cup Lifetimes : l \in Nat
<1>1. \A l \in Lifetimes : l \in Nat
  BY TokenAssumption, Zenon
<1>2. skewWindow \in Nat /\ MaxCacheDuration \in Nat
  BY TokenAssumption, Zenon
<1> QED
  BY <1>1, <1>2, TokenAssumption

\* A cached token that is no longer usable does not become so as time passes.
LEMMA ExpiryLasts ==
    ASSUME ~usable, UNCHANGED <<kind, cache, asOf>>, now \in Nat, now' = now + 1,
           asOf \in Nat, cache \in Tokens
    PROVE  ~usable'
<1>0. cache.life \in {0} \cup Lifetimes
  BY DEF Tokens
<1>1. skewWindow \in Nat /\ MaxCacheDuration \in Nat /\ cache.life \in Nat
  BY <1>0, LifetimesType
<1>2. CASE cache = NoToken
  BY <1>2 DEF usable
<1>3. CASE expiredDirect /\ kind \in Direct
  BY <1>1, <1>3 DEF usable, expired, expiredDirect
<1>4. CASE expiredBroker /\ kind = "broker"
  BY <1>1, <1>4 DEF usable, expired, expiredBroker
<1> QED
  BY <1>2, <1>3, <1>4 DEF usable, expired

\* A step that leaves the source alone, starts no exchange and drops no answer
\* keeps the law of causes.
LEMMA CauseStays ==
    ASSUME CauseLaw, UNCHANGED <<kind, cache, asOf, now, issued, causes>>,
           \A c \in Callers : pc'[c] = "exchange" => pc[c] = "exchange",
           \A c \in Callers : pc[c] = "answered" => pc'[c] = "answered"
    PROVE  CauseLaw'
BY UsableStays DEF CauseLaw

\* A step that leaves the refresh tokens alone and drops no answer keeps their
\* law.
LEMMA RefreshStays ==
    ASSUME RefreshLaw, UNCHANGED <<kind, refresh, idpRefresh, lost, replayed>>,
           \A c \in Callers : pc[c] = "answered" => pc'[c] = "answered"
    PROVE  RefreshLaw'
BY DEF RefreshLaw

-----------------------------------------------------------------------------
(* The initial states.                                                        *)

\* They satisfy the invariant.
LEMMA InitRoInv == Init => RoInv
<1> SUFFICES ASSUME Init PROVE RoInv
  OBVIOUS
<1> USE DEF Init, SourceInit
<1>1. /\ cache \in Tokens
      /\ IF kind = "authorization_code"
         THEN cache.id = 1 /\ cache.birth = 0
         ELSE cache = NoToken
  BY NoTokenKnown DEF Exchanged, Token, Tokens
<1>2. SourceTypes
  <2>1. kind \in Kinds /\ mu = NoOne /\ lost = FALSE /\ replayed = FALSE
    OBVIOUS
  <2>2. MaxTokens \in Nat \ {0}
    BY TokenAssumption, Zenon
  <2>3. /\ now \in Nat /\ asOf \in 0..now /\ causes \in Nat
        /\ refresh \in Nat /\ idpRefresh \in Nat /\ issued \in 0..MaxTokens
    <3>1. now \in Nat /\ asOf = now
      BY LifetimesType
    <3> QED
      BY <2>2, <3>1
  <2>4. kind = "authorization_code" => issued >= 1
    OBVIOUS
  <2>5. lost \in BOOLEAN /\ replayed \in BOOLEAN
    BY <2>1
  <2> QED
    BY <2>1, <2>3, <2>4, <2>5, Zenon DEF SourceTypes
<1>3. CallTypes
  BY NoTokenKnown DEF CallTypes, PCs
<1>4. AllKnown
  BY <1>1, NoTokenKnown DEF AllKnown, Known
<1>5. MutexLaw
  BY CallersAssumption DEF MutexLaw
<1>6. FreshLaw /\ RetryLaw /\ PassLaw
  BY DEF FreshLaw, RetryLaw, PassLaw
<1>7. SkewLaw
  BY <1>1, LifetimesType DEF SkewLaw, ageWhenCached, Direct
<1>8. RefreshLaw
  BY DEF RefreshLaw
<1>9. CauseLaw
  BY <1>1, NoTokenKnown DEF CauseLaw
<1> QED
  BY <1>2, <1>3, <1>4, <1>5, <1>6, <1>7, <1>8, <1>9 DEF RoInv, TypeInv, Laws

-----------------------------------------------------------------------------
(* The steps.                                                                 *)

\* The cached token goes out.
LEMMA AttachCachedStep ==
    ASSUME RoInv, NEW c \in Callers, AttachCached(c)
    PROVE  RoInv'
<1>0. /\ SourceTypes /\ CallTypes /\ AllKnown /\ MutexLaw /\ FreshLaw
      /\ RetryLaw /\ SkewLaw /\ RefreshLaw /\ CauseLaw /\ PassLaw
  BY DEF RoInv, TypeInv, Laws
<1>1. /\ pc[c] = "token" /\ mu = NoOne /\ usable
      /\ pc' = [pc EXCEPT ![c] = "rpc"]
      /\ tok' = [tok EXCEPT ![c] = cache]
      /\ UNCHANGED <<kind, mu, cache, asOf, refresh, now, issued, idpRefresh,
                      lost, replayed, causes, try, rejected, mine, rotates>>
  BY DEF AttachCached, TokenFromCache, tokenVars, source, idp, history, Go
<1>2. SourceTypes'
  BY <1>0, <1>1 DEF SourceTypes
<1>3. CallTypes'
  BY <1>0, <1>1 DEF CallTypes, AllKnown, Known, PCs
<1>4. AllKnown'
  BY <1>0, <1>1 DEF AllKnown, CallTypes, Known
<1>5. MutexLaw'
  BY <1>0, <1>1, CallersAssumption DEF MutexLaw, CallTypes
<1>6. FreshLaw'
  BY <1>0, <1>1, CallersAssumption DEF FreshLaw, CallTypes, MutexLaw
<1>7. RetryLaw'
  BY <1>0, <1>1 DEF RetryLaw, CallTypes, usable
<1>8. SkewLaw'
  BY <1>0, <1>1 DEF SkewLaw, ageWhenCached
<1>9. RefreshLaw'
  BY <1>0, <1>1, CallersAssumption, RefreshStays DEF RefreshLaw, CallTypes
<1>10. CauseLaw'
  BY <1>0, <1>1, CauseStays DEF CauseLaw, CallTypes
<1>11. PassLaw'
  BY <1>0, <1>1, NoTokenKnown DEF PassLaw, CallTypes, AllKnown, SourceTypes, usable
<1> QED
  BY <1>2, <1>3, <1>4, <1>5, <1>6, <1>7, <1>8, <1>9, <1>10, <1>11 DEF RoInv, TypeInv, Laws

\* An exchange starts.
LEMMA AttachExchangesStep ==
    ASSUME RoInv, NEW c \in Callers, AttachExchanges(c)
    PROVE  RoInv'
<1>0. /\ SourceTypes /\ CallTypes /\ AllKnown /\ MutexLaw /\ FreshLaw
      /\ RetryLaw /\ SkewLaw /\ RefreshLaw /\ CauseLaw /\ PassLaw
  BY DEF RoInv, TypeInv, Laws
<1>1. /\ pc[c] = "token" /\ mu = NoOne /\ ~usable /\ kind # "passthrough"
      /\ kind = "authorization_code" => refresh # 0
      /\ pc' = [pc EXCEPT ![c] = "exchange"]
      /\ mu' = c
      /\ replayed' = (replayed \/ presentsSpent)
      /\ UNCHANGED <<kind, cache, asOf, refresh, now, issued, idpRefresh, lost,
                      causes, try, tok, rejected, mine, rotates>>
  BY DEF AttachExchanges, StartExchange, tokenVars, source, idp, history, Go
<1>2. SourceTypes'
  BY <1>0, <1>1 DEF SourceTypes, presentsSpent
<1>3. CallTypes'
  BY <1>0, <1>1 DEF CallTypes, PCs
<1>4. AllKnown'
  BY <1>0, <1>1 DEF AllKnown, Known
<1>5. MutexLaw'
  BY <1>0, <1>1, CallersAssumption DEF MutexLaw, CallTypes
<1>6. FreshLaw'
  BY <1>0, <1>1, CallersAssumption DEF FreshLaw, CallTypes, MutexLaw
<1>7. RetryLaw'
  BY <1>0, <1>1 DEF RetryLaw, CallTypes
<1>8. SkewLaw'
  BY <1>0, <1>1 DEF SkewLaw, ageWhenCached
<1>9. RefreshLaw'
  BY <1>0, <1>1, CallersAssumption DEF RefreshLaw, CallTypes, MutexLaw, presentsSpent
<1>10. CauseLaw'
  BY <1>0, <1>1, UsableStays DEF CauseLaw, CallTypes
<1>11. PassLaw'
  BY <1>0, <1>1 DEF PassLaw
<1> QED
  BY <1>2, <1>3, <1>4, <1>5, <1>6, <1>7, <1>8, <1>9, <1>10, <1>11 DEF RoInv, TypeInv, Laws

\* The IdP issues a token.
LEMMA IdPAnswersStep ==
    ASSUME RoInv, NEW c \in Callers, IdPAnswers(c)
    PROVE  RoInv'
<1>0. /\ SourceTypes /\ CallTypes /\ AllKnown /\ MutexLaw /\ FreshLaw
      /\ RetryLaw /\ SkewLaw /\ RefreshLaw /\ CauseLaw /\ PassLaw
  BY DEF RoInv, TypeInv, Laws
<1>1. /\ pc[c] = "exchange" /\ mu = c /\ issued < MaxTokens
      /\ pc' = [pc EXCEPT ![c] = "answered"]
      /\ issued' = issued + 1
      /\ \E l \in Lifetimes : tok' = [tok EXCEPT ![c] = Token(issued + 1, now, l)]
      /\ idpRefresh' \in {idpRefresh, idpRefresh + 1}
      /\ kind # "authorization_code" => idpRefresh' = idpRefresh
      /\ causes' = causes + IF cache # NoToken /\ expired THEN 1 ELSE 0
      /\ UNCHANGED <<kind, mu, cache, asOf, refresh, now, lost, replayed, try,
                      rejected, mine, rotates>>
  BY DEF IdPAnswers, IdPIssues, tokenVars, source, idp, history, Go
<1>2. SourceTypes'
  BY <1>0, <1>1, TokenAssumption DEF SourceTypes
<1>3. CallTypes'
  BY <1>0, <1>1 DEF CallTypes, PCs, SourceTypes, Token, Tokens
<1>4. AllKnown'
  BY <1>0, <1>1 DEF AllKnown, Known, CallTypes, SourceTypes, Token, Tokens
<1>5. MutexLaw'
  BY <1>0, <1>1 DEF MutexLaw, CallTypes
<1>6. FreshLaw'
  <2>1. SUFFICES ASSUME NEW d \in Callers, pc'[d] = "answered"
                PROVE  /\ tok'[d].id = issued'
                       /\ cache'.id < issued'
                       /\ \A e \in Callers :
                              rejected'[e].id < issued' /\ (e # d => tok'[e].id < issued')
                       /\ kind' = "authorization_code" => issued' >= 2
                       /\ now' <= tok'[d].birth + MaxTransit
    BY DEF FreshLaw
  <2>2. d = c
    BY <1>0, <1>1, <2>1 DEF CallTypes, MutexLaw
  <2>3. tok'[c].id = issued + 1 /\ tok'[c].birth = now
    BY <1>0, <1>1 DEF CallTypes, Token
  <2>4. \A t \in Tokens : Known(t) => t.id \in Nat /\ t.id < issued + 1
    BY <1>0 DEF SourceTypes, Tokens, Known, NoToken, Token
  <2>5. /\ cache.id < issued + 1
        /\ \A e \in Callers : rejected[e].id < issued + 1 /\ tok[e].id < issued + 1
    BY <1>0, <2>4 DEF AllKnown, Known
  <2>6. now <= now + MaxTransit /\ (kind = "authorization_code" => issued + 1 >= 2)
    BY <1>0, LifetimesType DEF SourceTypes
  <2> QED
    BY <1>0, <1>1, <2>2, <2>3, <2>5, <2>6 DEF CallTypes
<1>7. RetryLaw'
  BY <1>0, <1>1, NoTokenKnown DEF RetryLaw, CallTypes
<1>8. SkewLaw'
  BY <1>0, <1>1 DEF SkewLaw, ageWhenCached
<1>9. RefreshLaw'
  BY <1>0, <1>1 DEF RefreshLaw, CallTypes
<1>10. CauseLaw'
  BY <1>0, <1>1, UsableStays DEF CauseLaw, CallTypes, SourceTypes, MutexLaw, usable
<1>11. PassLaw'
  BY <1>0, <1>1, CallersAssumption DEF PassLaw, MutexLaw
<1> QED
  BY <1>2, <1>3, <1>4, <1>5, <1>6, <1>7, <1>8, <1>9, <1>10, <1>11 DEF RoInv, TypeInv, Laws

\* The answer arrives and is cached.
LEMMA AttachExchangedStep ==
    ASSUME RoInv, NEW c \in Callers, AttachExchanged(c)
    PROVE  RoInv'
<1>0. /\ SourceTypes /\ CallTypes /\ AllKnown /\ MutexLaw /\ FreshLaw
      /\ RetryLaw /\ SkewLaw /\ RefreshLaw /\ CauseLaw /\ PassLaw
  BY DEF RoInv, TypeInv, Laws
<1>1. /\ pc[c] = "answered" /\ mu = c
      /\ pc' = [pc EXCEPT ![c] = "rpc"]
      /\ mu' = NoOne
      /\ cache' = tok[c] /\ asOf' = now
      /\ refresh' = storeRefresh(idpRefresh)
      /\ UNCHANGED <<kind, now, issued, idpRefresh, lost, replayed, causes,
                      try, tok, rejected, mine, rotates>>
  BY DEF AttachExchanged, AnswerArrives, tokenVars, source, idp, history, Go
<1>2. SourceTypes'
  BY <1>0, <1>1 DEF SourceTypes, storeRefresh
<1>3. CallTypes'
  BY <1>0, <1>1 DEF CallTypes, PCs
<1>4. AllKnown'
  BY <1>0, <1>1 DEF AllKnown, Known
<1>5. MutexLaw'
  BY <1>0, <1>1, CallersAssumption DEF MutexLaw, CallTypes
<1>6. FreshLaw'
  BY <1>0, <1>1 DEF FreshLaw, CallTypes, MutexLaw
<1>7. RetryLaw'
  BY <1>0, <1>1 DEF RetryLaw, CallTypes, FreshLaw
<1>8. SkewLaw'
  BY <1>0, <1>1 DEF SkewLaw, ageWhenCached, FreshLaw
<1>9. RefreshLaw'
  BY <1>0, <1>1 DEF RefreshLaw, CallTypes, MutexLaw, storeRefresh
<1>10. CauseLaw'
  <2>1. cache' # NoToken
    BY <1>0, <1>1, NoTokenKnown DEF FreshLaw, AllKnown, Known, Tokens, SourceTypes
  <2>2. \A d \in Callers : pc'[d] # "exchange"
    BY <1>0, <1>1 DEF CallTypes, MutexLaw
  <2> QED
    BY <1>0, <1>1, <2>1, <2>2 DEF CauseLaw
<1>11. PassLaw'
  BY <1>0, <1>1, CallersAssumption DEF PassLaw, MutexLaw
<1> QED
  BY <1>2, <1>3, <1>4, <1>5, <1>6, <1>7, <1>8, <1>9, <1>10, <1>11 DEF RoInv, TypeInv, Laws

\* The source forgets its token and the second try begins.
LEMMA InvalidateStep ==
    ASSUME RoInv, NEW c \in Callers, InvalidateAndRetry(c)
    PROVE  RoInv'
<1>0. /\ SourceTypes /\ CallTypes /\ AllKnown /\ MutexLaw /\ FreshLaw
      /\ RetryLaw /\ SkewLaw /\ RefreshLaw /\ CauseLaw /\ PassLaw
  BY DEF RoInv, TypeInv, Laws
<1>1. /\ pc[c] = "invalidate" /\ mu = NoOne
      /\ pc' = [pc EXCEPT ![c] = "token"]
      /\ try' = [try EXCEPT ![c] = 2]
      /\ cache' = NoToken
      /\ causes' = causes + IF cache # NoToken THEN 1 ELSE 0
      /\ UNCHANGED <<kind, mu, asOf, refresh, now, issued, idpRefresh, lost,
                      replayed, tok, rejected, mine, rotates>>
  BY DEF InvalidateAndRetry, Invalidate, tokenVars, source, idp, history, Go
<1>2. SourceTypes'
  BY <1>0, <1>1 DEF SourceTypes
<1>3. CallTypes'
  BY <1>0, <1>1 DEF CallTypes, PCs
<1>4. AllKnown'
  BY <1>0, <1>1, NoTokenKnown DEF AllKnown, Known
<1>5. MutexLaw'
  BY <1>0, <1>1, CallersAssumption DEF MutexLaw, CallTypes
<1>6. FreshLaw'
  BY <1>0, <1>1, CallersAssumption DEF FreshLaw, CallTypes, MutexLaw
<1>7. RetryLaw'
  BY <1>0, <1>1 DEF RetryLaw, CallTypes
<1>8. SkewLaw'
  BY <1>0, <1>1 DEF SkewLaw, ageWhenCached
<1>9. RefreshLaw'
  BY <1>0, <1>1, RefreshStays DEF RefreshLaw, CallTypes
<1>10. CauseLaw'
  BY <1>0, <1>1, CallersAssumption DEF CauseLaw, CallTypes, MutexLaw, SourceTypes, usable
<1>11. PassLaw'
  BY <1>0, <1>1 DEF PassLaw, CallTypes
<1> QED
  BY <1>2, <1>3, <1>4, <1>5, <1>6, <1>7, <1>8, <1>9, <1>10, <1>11 DEF RoInv, TypeInv, Laws

\* A call that ends or goes to Invalidate: what becomes of its locals.
Leaves(c, t) ==
    /\ CallTypes'
    /\ pc'[c] \in {"idle", "invalidate"}
    /\ try'[c] = 1
    /\ tok'[c] = NoToken
    /\ rejected'[c] \in {t, NoToken}
    /\ mine'[c] \in {mine[c], NoToken}
    /\ \A d \in Callers \ {c} :
          /\ pc'[d] = pc[d] /\ try'[d] = try[d] /\ tok'[d] = tok[d]
          /\ rejected'[d] = rejected[d] /\ mine'[d] = mine[d]

\* A call that returns leaves.
LEMMA ReturnLeaves ==
    ASSUME CallTypes, NEW c \in Callers, NEW t, Return(c)
    PROVE  Leaves(c, t)
<1>1. CallTypes'
  BY NoTokenKnown DEF CallTypes, Return, Go, PCs
<1> QED
  BY <1>1 DEF Leaves, CallTypes, Return, Go

\* So does one that is told CodeUnauthenticated.
LEMMA UnauthenticatedLeaves ==
    ASSUME CallTypes, NEW c \in Callers, NEW t \in Tokens, Unauthenticated(c, t)
    PROVE  Leaves(c, t)
<1>1. CASE ~mayRotate(c) /\ Return(c)
  BY <1>1, ReturnLeaves
<1>2. CASE mayRotate(c) /\ ~Return(c)
  <2>1. CallTypes'
    BY <1>2, NoTokenKnown DEF CallTypes, Unauthenticated, Go, PCs
  <2> QED
    BY <1>2, <2>1 DEF Leaves, CallTypes, Unauthenticated, Go, mayRotate
<1>3. CASE mayRotate(c) /\ Return(c)
  BY <1>3, ReturnLeaves
<1> QED
  BY <1>1, <1>2, <1>3 DEF Unauthenticated

\* A call leaves without touching the source.
LEMMA LeavesStep ==
    ASSUME RoInv, NEW c \in Callers, pc[c] \in {"token", "rpc"},
           NEW t, t \in {tok[c], NoToken}, Leaves(c, t), UNCHANGED tokenVars
    PROVE  RoInv'
<1>0. /\ SourceTypes /\ CallTypes /\ AllKnown /\ MutexLaw /\ FreshLaw
      /\ RetryLaw /\ SkewLaw /\ RefreshLaw /\ CauseLaw /\ PassLaw
  BY DEF RoInv, TypeInv, Laws
<1>1. UNCHANGED <<kind, mu, cache, asOf, refresh, now, issued, idpRefresh, lost,
                  replayed, causes>>
  BY DEF tokenVars, source, idp, history
<1>2. SourceTypes' /\ CallTypes'
  BY <1>0, <1>1 DEF SourceTypes, Leaves
<1>3. AllKnown'
  BY <1>0, <1>1, NoTokenKnown DEF AllKnown, Known, Leaves
<1>4. MutexLaw'
  BY <1>0, <1>1 DEF MutexLaw, Leaves
<1>5. FreshLaw'
  <2>1. SUFFICES ASSUME NEW d \in Callers, pc'[d] = "answered"
                 PROVE  /\ tok'[d].id = issued'
                        /\ cache'.id < issued'
                        /\ \A e \in Callers :
                              rejected'[e].id < issued' /\ (e # d => tok'[e].id < issued')
                        /\ kind' = "authorization_code" => issued' >= 2
                       /\ now' <= tok'[d].birth + MaxTransit
    BY DEF FreshLaw
  <2>2. d # c /\ pc[d] = "answered" /\ tok'[d] = tok[d]
    BY <2>1 DEF Leaves
  <2>3. tok[c].id < issued /\ NoToken.id < issued
    BY <1>0, <2>2, NoTokenKnown DEF FreshLaw, AllKnown, Known, Tokens, SourceTypes
  <2> QED
    BY <1>0, <1>1, <2>2, <2>3 DEF FreshLaw, Leaves
<1>6. RetryLaw'
  BY <1>0, <1>1 DEF RetryLaw, Leaves
<1>7. SkewLaw' /\ PassLaw'
  BY <1>0, <1>1 DEF SkewLaw, ageWhenCached, PassLaw, Leaves
<1>8. RefreshLaw'
  BY <1>0, <1>1, RefreshStays DEF Leaves
<1>9. CauseLaw'
  BY <1>0, <1>1, CauseStays DEF Leaves
<1> QED
  BY <1>2, <1>3, <1>4, <1>5, <1>6, <1>7, <1>8, <1>9 DEF RoInv, TypeInv, Laws

\* A call leaves because its exchange failed.
LEMMA ExchangeFailsStep ==
    ASSUME RoInv, NEW c \in Callers, pc[c] \in {"exchange", "answered"},
           ExchangeFails(c, pc[c] = "answered"), Leaves(c, NoToken)
    PROVE  RoInv'
<1>0. /\ SourceTypes /\ CallTypes /\ AllKnown /\ MutexLaw /\ FreshLaw
      /\ RetryLaw /\ SkewLaw /\ RefreshLaw /\ CauseLaw /\ PassLaw
  BY DEF RoInv, TypeInv, Laws
<1>1. /\ mu = c /\ mu' = NoOne
      /\ lost' = (lost \/ refresh # idpRefresh)
      /\ causes' = causes + IF pc[c] = "answered" /\ cache = NoToken THEN 1 ELSE 0
      /\ UNCHANGED <<kind, cache, asOf, refresh, now, issued, idpRefresh, replayed>>
  BY DEF ExchangeFails, idp
<1>2. SourceTypes' /\ CallTypes'
  BY <1>0, <1>1 DEF SourceTypes, Leaves
<1>3. AllKnown'
  BY <1>0, <1>1, NoTokenKnown DEF AllKnown, Known, Leaves
<1>4. MutexLaw' /\ \A d \in Callers : pc'[d] \notin {"exchange", "answered"}
  BY <1>0, <1>1, CallersAssumption DEF MutexLaw, Leaves
<1>5. FreshLaw'
  BY <1>4 DEF FreshLaw
<1>6. RetryLaw'
  BY <1>0, <1>1 DEF RetryLaw, Leaves
<1>7. SkewLaw' /\ PassLaw'
  BY <1>0, <1>1 DEF SkewLaw, ageWhenCached, PassLaw, Leaves
<1>8. RefreshLaw'
  BY <1>0, <1>1 DEF RefreshLaw
<1>9. CauseLaw'
  <2>1. pc[c] # "answered" => \A d \in Callers : pc[d] # "answered"
    BY <1>0, <1>1 DEF MutexLaw
  <2> QED
    BY <1>0, <1>1, <1>4, <2>1 DEF CauseLaw, SourceTypes
<1> QED
  BY <1>2, <1>3, <1>4, <1>5, <1>6, <1>7, <1>8, <1>9 DEF RoInv, TypeInv, Laws

\* A call fails or returns.
LEMMA EndStep ==
    ASSUME RoInv, NEW c \in Callers,
           AttachFails(c) \/ ServerRejects(c) \/ ServerAnswers(c)
    PROVE  RoInv'
<1>0. CallTypes
  BY DEF RoInv, TypeInv
<1>1. CASE AttachFails(c)
  <2>1. Leaves(c, NoToken)
    BY <1>0, <1>1, UnauthenticatedLeaves, NoTokenKnown DEF AttachFails
  <2>2. CASE pc[c] \in {"exchange", "answered"} /\ ExchangeFails(c, pc[c] = "answered")
    BY <2>1, <2>2, ExchangeFailsStep
  <2>3. CASE pc[c] = "token" /\ TokenUnavailable
    BY <2>1, <2>3, LeavesStep DEF TokenUnavailable
  <2> QED
    BY <1>1, <2>2, <2>3 DEF AttachFails
<1>2. CASE ServerRejects(c)
  <2>1. tok[c] \in Tokens
    BY <1>0 DEF CallTypes
  <2>2. Leaves(c, tok[c])
    BY <1>0, <1>2, <2>1, UnauthenticatedLeaves DEF ServerRejects
  <2> QED
    BY <1>2, <2>2, LeavesStep DEF ServerRejects
<1>3. CASE ServerAnswers(c)
  <2>1. Leaves(c, NoToken)
    BY <1>0, <1>3, ReturnLeaves DEF ServerAnswers
  <2> QED
    BY <1>3, <2>1, LeavesStep DEF ServerAnswers
<1> QED
  BY <1>1, <1>2, <1>3

\* A call begins.  With a passthrough source its inbound token is set.
LEMMA BeginStep ==
    ASSUME RoInv, NEW c \in Callers, Begin(c)
    PROVE  RoInv'
<1>0. /\ SourceTypes /\ CallTypes /\ AllKnown /\ MutexLaw /\ FreshLaw
      /\ RetryLaw /\ SkewLaw /\ RefreshLaw /\ CauseLaw /\ PassLaw
  BY DEF RoInv, TypeInv, Laws
<1>1. /\ pc[c] = "idle" /\ pc' = [pc EXCEPT ![c] = "token"]
      /\ \E g \in BOOLEAN : rotates' = [rotates EXCEPT ![c] = g]
      /\ UNCHANGED <<kind, mu, asOf, refresh, now, idpRefresh, lost, replayed, causes,
                      try, tok, rejected>>
  BY DEF Begin, Go, SetToken, tokenVars, source, idp, history
<1>2. CASE kind # "passthrough"
  <2>1. UNCHANGED <<cache, issued, mine>>
    BY <1>2 DEF Begin, tokenVars, source, idp
  <2>2. SourceTypes' /\ CallTypes' /\ AllKnown'
    BY <1>0, <1>1, <2>1 DEF SourceTypes, CallTypes, AllKnown, Known, PCs
  <2>3. MutexLaw' /\ FreshLaw'
    BY <1>0, <1>1, <2>1 DEF MutexLaw, FreshLaw, CallTypes
  <2>4. RetryLaw' /\ SkewLaw' /\ PassLaw'
    BY <1>0, <1>1, <1>2, <2>1 DEF RetryLaw, SkewLaw, ageWhenCached, PassLaw, CallTypes
  <2>5. RefreshLaw' /\ CauseLaw'
    BY <1>0, <1>1, <2>1, RefreshStays, CauseStays DEF CallTypes
  <2> QED
    BY <2>2, <2>3, <2>4, <2>5 DEF RoInv, TypeInv, Laws
<1>3. CASE kind = "passthrough"
  <2> DEFINE t == Token(issued + 1, now, 0)
  <2>1. /\ cache' = t /\ issued' = issued + 1 /\ issued < MaxTokens
        /\ mine' = [mine EXCEPT ![c] = t]
    BY <1>3 DEF Begin, SetToken
  <2>2. t \in Tokens /\ t.id = issued + 1
    BY <1>0 DEF SourceTypes, Token, Tokens
  <2> HIDE DEF t
  <2>3. \A d \in Callers : pc'[d] \notin {"exchange", "answered"}
    BY <1>0, <1>1, <1>3, CallersAssumption DEF MutexLaw, CallTypes
  <2>4. SourceTypes' /\ CallTypes'
    BY <1>0, <1>1, <2>1, <2>2, TokenAssumption DEF SourceTypes, CallTypes, PCs
  <2>5. AllKnown'
    BY <1>0, <1>1, <2>1, <2>2 DEF AllKnown, Known, SourceTypes, CallTypes
  <2>6. MutexLaw' /\ FreshLaw'
    BY <1>0, <1>1, <1>3, <2>3, CallersAssumption DEF MutexLaw, FreshLaw
  <2>7. \A d \in Callers : rejected[d].id <= issued /\ rejected[d].id \in Nat
    BY <1>0, NoTokenKnown DEF AllKnown, SourceTypes, Known, Tokens
  <2>8. RetryLaw'
    BY <1>0, <1>1, <2>1, <2>2, <2>7 DEF RetryLaw, CallTypes, SourceTypes
  <2>9. SkewLaw' /\ PassLaw'
    BY <1>0, <1>1, <1>3, <2>1, <2>2 DEF SkewLaw, ageWhenCached, PassLaw, CallTypes, Direct
  <2>10. RefreshLaw' /\ CauseLaw'
    BY <1>0, <1>1, <1>3, <2>3 DEF RefreshLaw, CauseLaw
  <2> QED
    BY <2>4, <2>5, <2>6, <2>8, <2>9, <2>10 DEF RoInv, TypeInv, Laws
<1> QED
  BY <1>2, <1>3

\* Time passes.
LEMMA TickStep ==
    ASSUME RoInv, Tick
    PROVE  RoInv'
<1>0. /\ SourceTypes /\ CallTypes /\ AllKnown /\ MutexLaw /\ FreshLaw
      /\ RetryLaw /\ SkewLaw /\ RefreshLaw /\ CauseLaw /\ PassLaw
  BY DEF RoInv, TypeInv, Laws
<1>1. /\ now' = now + 1
      /\ \A c \in Callers : pc[c] = "answered" => now < tok[c].birth + MaxTransit
      /\ UNCHANGED <<kind, mu, cache, asOf, refresh, issued, idpRefresh, lost,
                      replayed, causes, pc, try, tok, rejected, mine, rotates>>
  BY DEF Tick, Advance, source, idp, history, callVars
<1>2. SourceTypes' /\ CallTypes' /\ AllKnown' /\ MutexLaw'
  BY <1>0, <1>1 DEF SourceTypes, CallTypes, AllKnown, Known, MutexLaw
<1>3. FreshLaw'
  <2>1. \A c \in Callers : tok[c].birth \in Nat
    BY <1>0 DEF CallTypes, Tokens
  <2> QED
    BY <1>0, <1>1, <2>1, LifetimesType DEF FreshLaw, SourceTypes
<1>4. RetryLaw' /\ SkewLaw' /\ PassLaw' /\ RefreshLaw'
  BY <1>0, <1>1 DEF RetryLaw, SkewLaw, ageWhenCached, PassLaw, RefreshLaw
<1>5. ~usable => ~usable'
  BY <1>0, <1>1, ExpiryLasts DEF SourceTypes, AllKnown, Known
<1>6. CauseLaw'
  BY <1>0, <1>1, <1>5 DEF CauseLaw
<1> QED
  BY <1>2, <1>3, <1>4, <1>6 DEF RoInv, TypeInv, Laws

\* Nothing that the invariant mentions changes.
LEMMA IdleStep ==
    ASSUME RoInv,
           UNCHANGED <<kind, mu, cache, asOf, refresh, now, issued, idpRefresh, lost,
                       replayed, causes, callVars>>
    PROVE  RoInv'
<1>0. /\ SourceTypes /\ CallTypes /\ AllKnown /\ MutexLaw /\ FreshLaw
      /\ RetryLaw /\ SkewLaw /\ RefreshLaw /\ CauseLaw /\ PassLaw
  BY DEF RoInv, TypeInv, Laws
<1>1. SourceTypes' /\ CallTypes' /\ AllKnown' /\ MutexLaw'
  BY <1>0 DEF SourceTypes, CallTypes, AllKnown, Known, MutexLaw, callVars
<1>2. FreshLaw' /\ RetryLaw' /\ SkewLaw' /\ RefreshLaw' /\ PassLaw'
  BY <1>0 DEF FreshLaw, RetryLaw, SkewLaw, ageWhenCached, RefreshLaw, PassLaw, callVars
<1>3. CauseLaw'
  BY <1>0, UsableStays DEF CauseLaw, callVars
<1> QED
  BY <1>1, <1>2, <1>3 DEF RoInv, TypeInv, Laws

\* Every step preserves the invariant.
LEMMA NextRoInv == RoInv /\ [Next]_vars => RoInv'
<1> SUFFICES ASSUME RoInv, [Next]_vars
             PROVE  RoInv'
  OBVIOUS
<1>1. ASSUME NEW c \in Callers, Begin(c) \/ CallStep(c)
      PROVE  RoInv'
  BY <1>1, BeginStep, AttachCachedStep, AttachExchangesStep, IdPAnswersStep,
     AttachExchangedStep, InvalidateStep, EndStep DEF CallStep
<1>2. CASE Tick
  BY <1>2, TickStep
<1>3. CASE RevokeSome
  BY <1>3, IdleStep DEF RevokeSome, Revoke, source, history
<1>4. CASE UNCHANGED vars
  BY <1>4, IdleStep DEF vars, tokenVars, source, idp, history
<1> QED
  BY <1>1, <1>2, <1>3, <1>4 DEF Next

-----------------------------------------------------------------------------
(* The theorems.                                                              *)

\* RoInv is an invariant.
LEMMA RotationInvariance == Spec => []RoInv
  BY InitRoInv, NextRoInv, PTL DEF Spec

\* The source, the IdP and the calls keep their types, no token is in use that
\* was never issued, and the mutex of the source is held exactly by the caller
\* whose exchange is out.
THEOREM TypeCorrect == Spec => []TypeOK
<1>1. RoInv => TypeOK
  <2> SUFFICES ASSUME RoInv PROVE TypeOK
    OBVIOUS
  <2>0. SourceTypes /\ CallTypes /\ AllKnown /\ MutexLaw
    BY DEF RoInv, TypeInv
  <2>1. \A t \in Tokens : Known(t) => t.id \in 0..issued
    BY <2>0 DEF Known, Tokens, NoToken, Token, SourceTypes
  <2>2. cache.id \in 0..issued /\ \A c \in Callers : tok[c].id \in 0..issued
    BY <2>0, <2>1 DEF AllKnown, Known
  <2> QED
    BY <2>0, <2>2 DEF TypeOK, SourceTypes, CallTypes, MutexLaw
<1> QED
  BY <1>1, RotationInvariance, PTL

\* After a rejection the second try never carries the rejected token, however
\* many callers fetch, are rejected and invalidate in between.
THEOREM RotationUsesNewToken == Spec => []SecondTryUsesNewToken
<1>1. RoInv => SecondTryUsesNewToken
  <2> SUFFICES ASSUME RoInv, NEW c \in Callers, pc[c] = "rpc", try[c] = 2,
                      rejected[c] # NoToken
               PROVE  tok[c] # rejected[c]
    BY DEF SecondTryUsesNewToken
  <2>1. tok[c].id > rejected[c].id /\ tok[c].id \in Nat
    BY DEF RoInv, TypeInv, Laws, RetryLaw, CallTypes, Tokens
  <2> QED
    BY <2>1
<1> QED
  BY <1>1, RotationInvariance, PTL

\* A spent refresh token is presented again only after an answer of the IdP was
\* lost, never because callers raced.
THEOREM NoReplayWithoutLoss == Spec => []NoRefreshReplay
<1>1. RoInv => NoRefreshReplay
  BY DEF RoInv, Laws, RefreshLaw, NoRefreshReplay
<1> QED
  BY <1>1, RotationInvariance, PTL

\* Every token fetched has a cause of its own.
THEOREM FetchesAreCaused == Spec => []FetchesHaveCause
<1>1. RoInv => FetchesHaveCause
  BY DEF RoInv, Laws, CauseLaw, FetchesHaveCause
<1> QED
  BY <1>1, RotationInvariance, PTL

\* A call made for an inbound request never goes out with the token of an
\* earlier one.
THEOREM NoOlderTokenForwarded == Spec => []ForwardsNoOlderToken
<1>1. RoInv => ForwardsNoOlderToken
  BY DEF RoInv, Laws, PassLaw, ForwardsNoOlderToken
<1> QED
  BY <1>1, RotationInvariance, PTL

\* A token that a direct source serves from its cache outlives the expiry its IdP
\* gave it by no more than what its age when it was cached exceeds the skew window,
\* however late answers are and sources are built, and however short tokens live.
THEOREM ExpiredByTransitOnly == Spec => LateByTransitOnly
<1>1. ASSUME RoInv, [Next]_vars, NEW c \in Callers,
             kind \in Direct, pc[c] = "token", pc'[c] = "rpc", tok'[c].life > 0
      PROVE  now + skewWindow <= tok'[c].birth + tok'[c].life + ageWhenCached(tok'[c])
  <2>0. SourceTypes /\ CallTypes /\ AllKnown /\ SkewLaw
    BY <1>1 DEF RoInv, TypeInv, Laws
  <2>1. /\ cache.life \in Nat /\ cache.birth \in Nat /\ ageWhenCached(cache) \in Nat
        /\ skewWindow \in Nat /\ now \in Nat /\ asOf \in Nat
    <3>1. cache.life \in {0} \cup Lifetimes /\ cache.birth \in Nat
      BY <2>0 DEF AllKnown, Known, Tokens
    <3>2. ageWhenCached(cache) \in Nat
      BY LifetimesType DEF ageWhenCached
    <3>3. now \in Nat /\ asOf \in Nat
      BY <2>0 DEF SourceTypes
    <3> QED
      BY <3>1, <3>2, <3>3, LifetimesType
  <2>2. CASE AttachCached(c)
    <3>1. tok'[c] = cache /\ usable
      BY <1>1, <2>0, <2>2 DEF AttachCached, TokenFromCache, CallTypes
    <3>2. /\ asOf <= cache.birth + ageWhenCached(cache)
          /\ now + skewWindow <= asOf + cache.life
      BY <1>1, <2>0, <2>1, <3>1 DEF SkewLaw, usable, expired, expiredDirect
    <3> QED
      BY <2>1, <3>1, <3>2
  <2>3. ASSUME NEW d \in Callers, Begin(d) \/ CallStep(d)
        PROVE  d = c /\ AttachCached(c)
    <3>1. CASE Begin(d) \/ AttachExchanges(d) \/ IdPAnswers(d) \/ InvalidateAndRetry(d)
      BY <1>1, <2>0, <3>1
         DEF Begin, AttachExchanges, IdPAnswers, InvalidateAndRetry, Go, CallTypes
    <3>2. CASE AttachFails(d) \/ ServerRejects(d) \/ ServerAnswers(d)
      BY <1>1, <2>0, <3>2
         DEF AttachFails, ServerRejects, ServerAnswers, Unauthenticated, Return, Go, CallTypes
    <3>3. CASE AttachCached(d) \/ AttachExchanged(d)
      BY <1>1, <2>0, <3>3 DEF AttachCached, AttachExchanged, Go, CallTypes
    <3> QED
      BY <2>3, <3>1, <3>2, <3>3 DEF CallStep
  <2>4. ~(Tick \/ RevokeSome \/ UNCHANGED vars)
    BY <1>1 DEF Tick, RevokeSome, vars, callVars
  <2> QED
    BY <1>1, <2>2, <2>3, <2>4 DEF Next
<1>2. RoInv /\ [Next]_vars =>
        [\A c \in Callers :
           (kind \in Direct /\ pc[c] = "token" /\ pc'[c] = "rpc" /\ tok'[c].life > 0)
               => now + skewWindow <=
                     tok'[c].birth + tok'[c].life + ageWhenCached(tok'[c])]_vars
  BY <1>1
<1> QED
  BY <1>2, RotationInvariance, PTL DEF Spec, LateByTransitOnly
=============================================================================
