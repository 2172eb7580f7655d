------------------------------ MODULE AuthProofs ------------------------------
(***************************************************************************)
(* Theorems about UpstreamRefresh and JwksCache, for any number of callers *)
(* and of rotations.                                                       *)
(***************************************************************************)
EXTENDS UpstreamRefresh, JwksCache, TLAPS

-----------------------------------------------------------------------------
(* UpstreamRefresh *)

UpToken == 0..UpMaxRotations
UpMaybe == UpToken \cup {NoUpToken}

UpTypes ==
  /\ upIssued \in UpToken /\ upStrays \subseteq UpMaybe
  /\ upRunning \in BOOLEAN /\ upLost \in BOOLEAN
  /\ upTokens \in [current : UpMaybe, replacement : UpMaybe]
  /\ upLock \in UpCallers \cup {NoUpCaller}
  /\ upCalls \in [UpCallers -> [pc : {"idle", "waiting", "sent", "answered"}, token : UpMaybe]]
  /\ upSaving \in [token : UpMaybe, written : BOOLEAN]
  /\ upFile \in UpMaybe

(* The write lock of the cache is held exactly while a request is out or   *)
(* its answer is being installed, and nothing runs in a crashed process.   *)
UpExclusive ==
  /\ \A c \in UpCallers : upCalls[c].pc \in {"sent", "answered"} <=> upLock = c
  /\ ~upRunning => \A c \in UpCallers : upCalls[c].pc = "idle"
  /\ ~upRunning => upSaving.token = NoUpToken
  /\ ~upRunning => upTokens.current = NoUpToken /\ upTokens.replacement = NoUpToken
  /\ upSaving.written => upSaving.token # NoUpToken

(* Where the token the provider accepts is while none was lost: in the     *)
(* provider object unless an answer on its way in brings it, and beyond    *)
(* that in the place from which it will reach the file.                    *)
UpNewest ==
  ~upLost =>
    /\ \A c \in UpCallers : upCalls[c].pc = "sent" => upCalls[c].token = upTokens.current
    /\ \A c \in UpCallers : upCalls[c].pc = "answered" => upCalls[c].token \in {NoUpToken, upIssued}
    /\ upRunning => upTokens.current = upIssued \/ upIssued \in OfferedTokens
    /\ upTokens.replacement \in {NoUpToken, upTokens.current}
    /\ upSaving.token \notin {NoUpToken, upIssued} => upIssued \in {upTokens.replacement} \cup OfferedTokens
    /\ upFile \notin {NoUpToken, upIssued} =>
         upIssued \in {upTokens.replacement, upSaving.token} \cup OfferedTokens

UpInv == UpTypes /\ UpExclusive /\ UpNewest

(* A fresh process holds the only token there is. *)
LEMMA UpInvInit == UpInit => UpInv
<1> SUFFICES ASSUME UpInit PROVE UpInv
  OBVIOUS
<1> USE UpAssumption DEF UpInit, UpIdle, NothingToSave, UpToken, UpMaybe
<1>1. UpTypes
  <2>1. 0 \in UpToken /\ NoUpToken \in UpMaybe
    OBVIOUS
  <2> QED
    BY <2>1 DEF UpTypes
<1>2. UpExclusive
  BY DEF UpExclusive
<1>3. UpNewest
  BY DEF UpNewest, OfferedTokens, UpAt
<1> QED
  BY <1>1, <1>2, <1>3 DEF UpInv

(* Every step keeps the types, the lock and the newest token. *)
LEMMA UpInvStep == UpInv /\ [UpNext]_upVars => UpInv'
<1> USE UpAssumption
<1> SUFFICES ASSUME UpInv, [UpNext]_upVars PROVE UpInv'
  OBVIOUS
<1> USE DEF UpInv, UpTypes, UpExclusive, UpNewest, UpToken, UpMaybe, OfferedTokens,
            UpAt, UpBecome, UpReturns, UpIdle, NothingToSave
<1>1. ASSUME NEW c \in UpCallers, UpAsk(c) PROVE UpInv'
  BY <1>1 DEF UpAsk
<1>2. ASSUME NEW c \in UpCallers, UpLocked(c) PROVE UpInv'
  BY <1>2 DEF UpLocked
<1>3. ASSUME NEW c \in UpCallers, UpAnswered(c) PROVE UpInv'
  BY <1>3 DEF UpAnswered, Exchange
<1>4. ASSUME NEW c \in UpCallers, UpRejected(c) PROVE UpInv'
  BY <1>4 DEF UpRejected
<1>5. ASSUME NEW c \in UpCallers, UpRefused(c) PROVE UpInv'
  BY <1>5 DEF UpRefused
<1>6. ASSUME NEW c \in UpCallers, UpInstalls(c) PROVE UpInv'
  BY <1>6 DEF UpInstalls, ReplacedBy
<1>7. ASSUME NEW c \in UpCallers, UpGivesUp(c) PROVE UpInv'
  BY <1>7 DEF UpGivesUp
<1>8. ASSUME NEW token \in upStrays, StrayArrives(token) PROVE UpInv'
  <2>1. /\ upIssued' \in UpToken /\ upLost' \in BOOLEAN /\ upStrays' \subseteq UpMaybe
        /\ ~upLost' => ~upLost /\ upIssued' = upIssued
    <3>1. upStrays' \subseteq UpMaybe
      BY <1>8 DEF StrayArrives
    <3>2. CASE UNCHANGED <<upIssued, upLost>>
      BY <3>1, <3>2
    <3>3. CASE \E offer \in UpMaybe : Exchange(token, offer) /\ upLost' = (upLost \/ offer # NoUpToken)
      <4>1. PICK offer \in UpMaybe : Exchange(token, offer) /\ upLost' = (upLost \/ offer # NoUpToken)
        BY <3>3
      <4>2. upIssued' \in UpToken /\ (offer = NoUpToken => upIssued' = upIssued)
        BY <4>1 DEF Exchange
      <4> QED
        BY <3>1, <4>1, <4>2
    <3> QED
      BY <1>8, <3>2, <3>3, Zenon DEF StrayArrives
  <2>2. UpTypes' /\ UpExclusive'
    BY <1>8, <2>1 DEF StrayArrives, upServer
  <2>4. UpNewest'
    BY <1>8, <2>1 DEF StrayArrives, upServer
  <2> QED
    BY <2>2, <2>4
<1>9. CASE AccessTokenDue
  BY <1>9 DEF AccessTokenDue
<1>10. CASE TakeReplacement
  BY <1>10 DEF TakeReplacement
<1>11. CASE SaveWrites
  BY <1>11 DEF SaveWrites
<1>12. CASE SaveRenames
  BY <1>12 DEF SaveRenames
<1>13. CASE SaveFails
  BY <1>13 DEF SaveFails
<1>14. CASE ClearFile
  BY <1>14 DEF ClearFile, upServer
<1>15. CASE UpCrash
  <2>0. upStrays \subseteq UpMaybe
    OBVIOUS
  <2>1. UpTypes'
    <3>1. NoUpToken \in UpMaybe
      OBVIOUS
    <3>2. upStrays' \subseteq UpMaybe
      <4>1. \A c \in UpCallers : upCalls[c].token \in UpMaybe
        OBVIOUS
      <4> HIDE DEF UpMaybe, UpTypes, UpInv
      <4> QED
        BY <1>15, <4>1, <2>0 DEF UpCrash
    <3>3. upLost' \in BOOLEAN
      BY <1>15 DEF UpCrash
    <3> QED
      BY <1>15, <3>1, <3>2, <3>3 DEF UpCrash
  <2>2. UpExclusive'
    BY <1>15 DEF UpCrash
  <2>3. UpNewest'
    BY <1>15 DEF UpCrash
  <2> QED
    BY <2>1, <2>2, <2>3
<1>16. CASE UpRestart
  BY <1>16 DEF UpRestart
<1>17. CASE UNCHANGED upVars
  BY <1>17 DEF upVars
<1> QED
  BY <1>1, <1>2, <1>3, <1>4, <1>5, <1>6, <1>7, <1>8, <1>9, <1>10, <1>11, <1>12, <1>13,
     <1>14, <1>15, <1>16, <1>17
  DEF UpNext

(* docs/upstream-oauth.md's promise that a rotated refresh token does not  *)
(* strand the next refresh (NewestTokenKept), for any number of callers,   *)
(* rotations, crashes and lost requests.                                   *)
THEOREM NewestToken == UpSpec => []NewestTokenKept
<1>1. UpInv => NewestTokenKept
  BY UpAssumption DEF UpInv, UpTypes, UpExclusive, UpNewest, NewestTokenKept, OfferedTokens, UpAt, UpToken, UpMaybe
<1> QED
  BY UpInvInit, UpInvStep, <1>1, PTL DEF UpSpec

-----------------------------------------------------------------------------
(* JwksCache *)

JwPlaces == {"idle", "select", "wait_get", "wait_miss", "fetch_get", "fetch_miss",
             "store_get", "store_miss", "final", "found", "not_found"}

JwCall == [pc : JwPlaces, kid : Int, now : Int, set : Int, missAt : Int]

JwTypes ==
  /\ jwClock \in Nat
  /\ jwProvider \in [last : 0..JwMaxRotations, at : [0..JwMaxRotations -> Nat]]
  /\ jwCache \in [set : Int, fetched : Int, refresh : Int]
  /\ jwLock \in JwRequests \cup {NoRequest}
  /\ jwCalls \in [JwRequests -> JwCall]
  /\ jwFetches \in [last : Int, gap : Int]

(* A key set misses only the keys published at the instant at, or later. *)
CompleteSince(set, at) ==
  /\ set <= jwProvider.last
  /\ \A n \in 0..JwMaxRotations : set < n /\ n <= jwProvider.last => jwProvider.at[n] >= at

(* The cached set was fetched by the last fetch that was stored, and its   *)
(* expiry is no nearer than jitter allows.                                 *)
JwCached ==
  /\ jwCache.set < 0 => jwClock - jwFetches.last >= JwTtl + JwCooldown
  /\ jwCache.set >= 0 =>
       /\ CompleteSince(jwCache.set, jwCache.fetched)
       /\ jwCache.fetched <= jwClock
       /\ jwFetches.last = jwCache.fetched
       /\ jwCache.refresh >= jwCache.fetched + JwTtl - JwJitter

(* What a request knows of the set it carries. *)
JwCarries(call) ==
  /\ call.now <= jwClock
  /\ call.pc \in {"store_get", "store_miss"} => call.set >= 0 /\ CompleteSince(call.set, call.now)
  /\ call.pc \in {"final", "not_found"} =>
       /\ call.missAt <= jwClock
       /\ \E at \in Int : /\ CompleteSince(call.set, at)
                          /\ at > call.missAt - Cooldown \/ at >= call.missAt
  /\ call.pc = "not_found" => call.kid \notin KeysOf(call.set)

JwInv ==
  /\ JwTypes
  /\ ProviderTrafficBounded
  /\ JwCached
  /\ \A r \in JwRequests : JwCarries(jwCalls[r])

(* Nothing is cached and no request has begun. *)
LEMMA JwInvInit == JwInit => JwInv
<1> SUFFICES ASSUME JwInit PROVE JwInv
  OBVIOUS
<1> USE JwAssumption DEF JwInit, JwIdle, JwPlaces, JwCall
<1>1. JwTypes
  BY DEF JwTypes
<1>2. ProviderTrafficBounded
  BY DEF ProviderTrafficBounded, Cooldown
<1>3. JwCached
  BY DEF JwCached
<1>4. \A r \in JwRequests : JwCarries(jwCalls[r])
  BY DEF JwCarries
<1> QED
  BY <1>1, <1>2, <1>3, <1>4 DEF JwInv

(* A step of one request that leaves the provider and the clock alone      *)
(* preserves what the other requests know.                                 *)
LEMMA JwOneRequest ==
  ASSUME JwInv, NEW r \in JwRequests, NEW call \in JwCall, JwBecome(r, call), JwCarries(call),
         UNCHANGED <<jwClock, jwProvider>>
  PROVE  /\ (\A q \in JwRequests : JwCarries(jwCalls[q]))'
         /\ jwCalls' \in [JwRequests -> JwCall]
         /\ jwCalls'[r] = call
         /\ \A q \in JwRequests \ {r} : jwCalls'[q] = jwCalls[q]
<1>1. /\ jwCalls' \in [JwRequests -> JwCall]
      /\ jwCalls'[r] = call
      /\ \A q \in JwRequests \ {r} : jwCalls'[q] = jwCalls[q]
  BY DEF JwInv, JwTypes, JwBecome
<1>2. ASSUME NEW q \in JwRequests PROVE JwCarries(jwCalls[q])'
  <2>1. JwCarries(jwCalls'[q])
    BY <1>1 DEF JwInv
  <2> QED
    BY <2>1 DEF JwCarries, CompleteSince, Cooldown
<1> QED
  BY <1>1, <1>2

JwFetching == {"fetch_get", "fetch_miss", "store_get", "store_miss"}
JwBound == IF JwTtl - JwJitter < Cooldown THEN JwTtl - JwJitter ELSE Cooldown

(* A step that moves one request on, to a place where it knows what it     *)
(* should, and neither takes nor leaves the refresh lock keeps JwInv.      *)
LEMMA JwQuietStep ==
  ASSUME JwInv, NEW r \in JwRequests, NEW call \in JwCall, JwBecome(r, call), JwCarries(call),
         call.pc \in JwFetching <=> jwCalls[r].pc \in JwFetching,
         UNCHANGED <<jwClock, jwProvider, jwCache, jwLock, jwFetches>>
  PROVE  JwInv'
<1>1. /\ (\A q \in JwRequests : JwCarries(jwCalls[q]))'
      /\ jwCalls' \in [JwRequests -> JwCall]
      /\ jwCalls'[r] = call
      /\ \A q \in JwRequests \ {r} : jwCalls'[q] = jwCalls[q]
  BY JwOneRequest
<1>2. JwTypes'
  BY <1>1 DEF JwInv, JwTypes
<1>3. JwCached'
  BY DEF JwInv, JwCached, CompleteSince
<1>4. ProviderTrafficBounded'
  BY <1>1 DEF JwInv, ProviderTrafficBounded, JwFetching, Cooldown
<1> QED
  BY <1>1, <1>2, <1>3, <1>4 DEF JwInv

(* So does one that begins a fetch long enough after the last one stored. *)
LEMMA JwFetchStep ==
  ASSUME JwInv, NEW r \in JwRequests, NEW pc \in {"fetch_get", "fetch_miss"}, FetchBegins(r, pc),
         jwLock = NoRequest, jwClock - jwFetches.last >= JwBound,
         UNCHANGED <<jwClock, jwProvider, jwCache>>
  PROVE  JwInv'
<1>0. PICK call : call = [jwCalls[r] EXCEPT !.pc = pc, !.now = jwClock]
  OBVIOUS
<1>1. jwCalls[r] \in JwCall /\ jwClock \in Nat /\ jwFetches \in [last : Int, gap : Int]
  BY DEF JwInv, JwTypes
<1>2. call \in JwCall /\ JwCarries(call)
  <2>1. call = [pc |-> pc, kid |-> jwCalls[r].kid, now |-> jwClock,
                  set |-> jwCalls[r].set, missAt |-> jwCalls[r].missAt]
    BY <1>0, <1>1 DEF JwCall
  <2>2. call \in JwCall
    BY <1>1, <2>1 DEF JwCall, JwPlaces
  <2>3. JwCarries(call)
    BY <1>1, <2>1 DEF JwCall, JwCarries
  <2> QED
    BY <2>2, <2>3
<1>3. JwBecome(r, call)
  BY <1>0 DEF FetchBegins
<1>4. call.pc \in JwFetching
  BY <1>0, <1>1 DEF JwFetching, JwCall
<1>5. /\ (\A q \in JwRequests : JwCarries(jwCalls[q]))'
      /\ jwCalls' \in [JwRequests -> JwCall]
      /\ jwCalls'[r] = call
      /\ \A q \in JwRequests \ {r} : jwCalls'[q] = jwCalls[q]
  BY <1>2, <1>3, JwOneRequest
<1>6. /\ jwFetches' \in [last : Int, gap : Int]
      /\ jwFetches'.last = jwFetches.last
      /\ jwFetches'.gap = jwFetches.gap \/ jwFetches'.gap = jwClock - jwFetches.last
  BY <1>1 DEF FetchBegins
<1>7. JwTypes'
  BY <1>5, <1>6 DEF JwInv, JwTypes, FetchBegins
<1>8. JwCached'
  BY <1>6 DEF JwInv, JwCached, CompleteSince
<1>9. ProviderTrafficBounded'
  <2>1. \A q \in JwRequests : jwCalls'[q].pc \in JwFetching <=> jwLock' = q
    BY <1>4, <1>5, JwAssumption DEF JwInv, ProviderTrafficBounded, FetchBegins, JwFetching
  <2>2. jwFetches.gap >= JwBound
    BY DEF JwInv, ProviderTrafficBounded, JwBound
  <2> QED
    BY <2>1, <2>2, <1>6 DEF ProviderTrafficBounded, JwFetching, JwBound, Cooldown
<1> QED
  BY <1>5, <1>7, <1>8, <1>9 DEF JwInv

(* Every step keeps JwInv. *)
LEMMA JwInvStep == JwInv /\ [JwNext]_jwVars => JwInv'
<1> USE JwAssumption
<1> SUFFICES ASSUME JwInv, [JwNext]_jwVars PROVE JwInv'
  OBVIOUS
<1> USE DEF JwAt
<1>0. /\ jwClock \in Nat /\ jwCache \in [set : Int, fetched : Int, refresh : Int]
      /\ jwProvider.last \in 0..JwMaxRotations
      /\ jwFetches \in [last : Int, gap : Int]
      /\ JwBound \in Int /\ Cooldown \in Nat
      /\ JwBound <= JwTtl - JwJitter /\ JwBound <= Cooldown /\ Cooldown <= JwCooldown
      /\ \A r \in JwRequests : jwCalls[r] \in JwCall /\ JwCarries(jwCalls[r])
  BY DEF JwInv, JwTypes, JwBound, Cooldown
<1>1. ASSUME NEW r \in JwRequests, NEW kid \in 0..jwProvider.last, JwGet(r, kid) PROVE JwInv'
  <2>0. PICK call : call = [JwIdle EXCEPT !.pc = IF Unexpired(jwClock) THEN "select" ELSE "wait_get",
                                         !.kid = kid, !.now = jwClock, !.set = jwCache.set]
    OBVIOUS
  <2>1. call \in JwCall /\ JwCarries(call)
    <3>1. call = [pc |-> IF Unexpired(jwClock) THEN "select" ELSE "wait_get",
                   kid |-> kid, now |-> jwClock, set |-> jwCache.set, missAt |-> 0]
      BY <2>0 DEF JwIdle
    <3>2. call \in JwCall
      BY <1>0, <3>1 DEF JwCall, JwPlaces
    <3>3. JwCarries(call)
      BY <1>0, <3>1 DEF JwCall, JwCarries
    <3> QED
      BY <3>2, <3>3
  <2>2. JwBecome(r, call)
    BY <1>1, <2>0 DEF JwGet
  <2>3. call.pc \notin JwFetching /\ jwCalls[r].pc \notin JwFetching
    BY <1>1, <2>0 DEF JwGet, JwIdle, JwFetching
  <2> QED
    BY <1>1, <2>1, <2>2, <2>3, JwQuietStep DEF JwGet
<1>2. ASSUME NEW r \in JwRequests, JwGetLocked(r) PROVE JwInv'
  <2>1. CASE Unexpired(jwCalls[r].now)
    <3> DEFINE call == [pc |-> "select", kid |-> jwCalls[r].kid, now |-> jwCalls[r].now,
                        set |-> jwCache.set, missAt |-> jwCalls[r].missAt]
    <3>1. call \in JwCall /\ JwCarries(call)
      BY <1>0 DEF JwCall, JwPlaces, JwCarries
    <3>2. JwBecome(r, call)
      BY <1>0, <1>2, <2>1 DEF JwGetLocked, JwBecome, JwCall
    <3>3. call.pc \notin JwFetching /\ jwCalls[r].pc \notin JwFetching
      BY <1>2 DEF JwGetLocked, JwFetching
    <3> HIDE DEF call
    <3> QED
      BY <1>2, <2>1, <3>1, <3>2, <3>3, JwQuietStep DEF JwGetLocked
  <2>2. CASE ~Unexpired(jwCalls[r].now)
    <3>1. jwCalls[r].now \in Int /\ jwCalls[r].now <= jwClock
      BY <1>0 DEF JwCall, JwCarries
    <3>2. jwClock - jwFetches.last >= JwBound
      BY <1>0, <2>2, <3>1 DEF Unexpired, JwInv, JwCached
    <3> QED
      BY <1>2, <2>2, <3>2, JwFetchStep DEF JwGetLocked
  <2> QED
    BY <2>1, <2>2
<1>3. ASSUME NEW r \in JwRequests, ProviderAnswers(r) PROVE JwInv'
  <2>0. PICK call : call = [jwCalls[r] EXCEPT !.set = jwProvider.last,
                                              !.pc = IF @ = "fetch_get" THEN "store_get" ELSE "store_miss"]
    OBVIOUS
  <2>1. call \in JwCall /\ JwCarries(call)
    <3>1. call = [pc |-> IF jwCalls[r].pc = "fetch_get" THEN "store_get" ELSE "store_miss",
                   kid |-> jwCalls[r].kid, now |-> jwCalls[r].now,
                   set |-> jwProvider.last, missAt |-> jwCalls[r].missAt]
      BY <1>0, <2>0 DEF JwCall
    <3>2. call \in JwCall
      BY <1>0, <3>1 DEF JwCall, JwPlaces, CompleteSince
    <3>3. JwCarries(call)
      BY <1>0, <3>1 DEF JwCall, JwCarries, CompleteSince
    <3> QED
      BY <3>2, <3>3
  <2>2. JwBecome(r, call)
    BY <1>3, <2>0 DEF ProviderAnswers
  <2>3. call.pc \in JwFetching /\ jwCalls[r].pc \in JwFetching
    BY <1>0, <1>3, <2>0 DEF ProviderAnswers, JwFetching, JwCall
  <2> QED
    BY <1>3, <2>1, <2>2, <2>3, JwQuietStep DEF ProviderAnswers
<1>4. ASSUME NEW r \in JwRequests, FetchStores(r) PROVE JwInv'
  <2>0. PICK call : call = [jwCalls[r] EXCEPT !.pc = IF @ = "store_get" THEN "select" ELSE "final",
                                              !.missAt = jwCalls[r].now]
    OBVIOUS
  <2>1. /\ jwCalls[r].set \in Int /\ jwCalls[r].set >= 0 /\ jwCalls[r].now \in Int /\ jwCalls[r].now <= jwClock
        /\ CompleteSince(jwCalls[r].set, jwCalls[r].now)
    BY <1>0, <1>4 DEF FetchStores, JwCall, JwCarries
  <2>2. call \in JwCall /\ JwCarries(call)
    <3>1. call = [pc |-> IF jwCalls[r].pc = "store_get" THEN "select" ELSE "final",
                   kid |-> jwCalls[r].kid, now |-> jwCalls[r].now,
                   set |-> jwCalls[r].set, missAt |-> jwCalls[r].now]
      BY <1>0, <2>0 DEF JwCall
    <3>2. call \in JwCall
      BY <1>0, <2>1, <3>1 DEF JwCall, JwPlaces
    <3>3. JwCarries(call)
      BY <1>0, <2>1, <3>1 DEF JwCall, JwCarries
    <3> QED
      BY <3>2, <3>3
  <2>3. JwBecome(r, call)
    BY <1>4, <2>0 DEF FetchStores
  <2>4. call.pc \notin JwFetching /\ jwCalls[r].pc \in JwFetching
    BY <1>0, <1>4, <2>0 DEF FetchStores, JwFetching, JwCall
  <2>5. /\ (\A q \in JwRequests : JwCarries(jwCalls[q]))'
        /\ jwCalls' \in [JwRequests -> JwCall]
        /\ jwCalls'[r] = call
        /\ \A q \in JwRequests \ {r} : jwCalls'[q] = jwCalls[q]
    BY <1>4, <2>2, <2>3, JwOneRequest DEF FetchStores
  <2>6. /\ jwFetches' \in [last : Int, gap : Int]
        /\ jwFetches'.last = jwCalls[r].now /\ jwFetches'.gap = jwFetches.gap
    BY <1>0, <1>4, <2>1 DEF FetchStores
  <2>7. PICK refresh \in JittersOf(jwCalls[r].now) :
          jwCache' = [set |-> jwCalls[r].set, fetched |-> jwCalls[r].now, refresh |-> refresh]
    BY <1>4 DEF FetchStores
  <2>8. refresh \in Int /\ refresh >= jwCalls[r].now + JwTtl - JwJitter
    BY <2>1, <2>7 DEF JittersOf
  <2>9. JwTypes'
    BY <1>4, <2>1, <2>5, <2>6, <2>7, <2>8 DEF FetchStores, JwInv, JwTypes
  <2>10. JwCached'
    BY <1>4, <2>1, <2>6, <2>7, <2>8 DEF FetchStores, JwCached, CompleteSince
  <2>11. ProviderTrafficBounded'
    <3>1. \A q \in JwRequests : jwCalls'[q].pc \in JwFetching <=> jwLock' = q
      BY <1>4, <2>4, <2>5 DEF FetchStores, JwInv, ProviderTrafficBounded, JwFetching
    <3> QED
      BY <3>1, <2>6 DEF JwInv, ProviderTrafficBounded, JwFetching, Cooldown
  <2> QED
    BY <2>5, <2>9, <2>10, <2>11 DEF JwInv
<1>5. ASSUME NEW r \in JwRequests, JwAbandoned(r) PROVE JwInv'
  <2>1. JwIdle \in JwCall /\ JwCarries(JwIdle)
    BY <1>0 DEF JwIdle, JwCall, JwPlaces, JwCarries
  <2>2. /\ (\A q \in JwRequests : JwCarries(jwCalls[q]))'
        /\ jwCalls' \in [JwRequests -> JwCall]
        /\ jwCalls'[r] = JwIdle
        /\ \A q \in JwRequests \ {r} : jwCalls'[q] = jwCalls[q]
    BY <1>5, <2>1, JwOneRequest DEF JwAbandoned
  <2>3. JwTypes'
    BY <1>5, <2>2 DEF JwAbandoned, JwInv, JwTypes
  <2>4. JwCached'
    BY <1>5 DEF JwAbandoned, JwInv, JwCached, CompleteSince
  <2>5. ProviderTrafficBounded'
    <3>1. \A q \in JwRequests : jwCalls'[q].pc \in JwFetching <=> jwLock' = q
      BY <1>5, <2>2 DEF JwAbandoned, JwInv, ProviderTrafficBounded, JwFetching, JwIdle
    <3> QED
      BY <1>5, <3>1 DEF JwAbandoned, JwInv, ProviderTrafficBounded, JwFetching, Cooldown
  <2> QED
    BY <2>2, <2>3, <2>4, <2>5 DEF JwInv
<1>6. ASSUME NEW r \in JwRequests, NEW call \in JwCall, JwBecome(r, call), CoolingDown,
             call = [jwCalls[r] EXCEPT !.pc = "final", !.set = jwCache.set, !.missAt = jwClock],
             jwCalls[r].pc \in {"select", "wait_miss"},
             UNCHANGED <<jwClock, jwProvider, jwCache, jwLock, jwFetches>>
      PROVE  JwInv'
  <2>1. /\ CompleteSince(jwCache.set, jwCache.fetched) /\ jwCache.fetched \in Int
        /\ jwCache.fetched > jwClock - Cooldown
    BY <1>0, <1>6 DEF CoolingDown, JwInv, JwCached
  <2>2. call.pc = "final" /\ call.set = jwCache.set /\ call.missAt = jwClock /\ call.now = jwCalls[r].now
    BY <1>0, <1>6 DEF JwCall
  <2>3. JwCarries(call)
    BY <1>0, <2>1, <2>2 DEF JwCarries
  <2>4. call.pc \notin JwFetching /\ jwCalls[r].pc \notin JwFetching
    BY <1>6, <2>2 DEF JwFetching
  <2> QED
    BY <1>6, <2>3, <2>4, JwQuietStep
<1>7. ASSUME NEW r \in JwRequests, JwSelect(r) PROVE JwInv'
  <2>1. CASE jwCalls[r].kid \in KeysOf(jwCalls[r].set)
    <3>0. PICK call : call = JwFound
      OBVIOUS
    <3>1. call = [pc |-> "found", kid |-> 0, now |-> 0, set |-> -1, missAt |-> 0]
      BY <3>0 DEF JwFound, JwIdle
    <3>2. call \in JwCall /\ JwCarries(call)
      BY <1>0, <3>1 DEF JwCall, JwPlaces, JwCarries
    <3>3. call.pc \notin JwFetching /\ jwCalls[r].pc \notin JwFetching
      BY <1>7, <3>1 DEF JwSelect, JwFetching
    <3> QED
      BY <1>7, <2>1, <3>0, <3>2, <3>3, JwQuietStep DEF JwSelect
  <2>2. CASE jwCalls[r].kid \notin KeysOf(jwCalls[r].set) /\ CoolingDown
    <3>0. PICK call : call = [jwCalls[r] EXCEPT !.pc = "final", !.set = jwCache.set, !.missAt = jwClock]
      OBVIOUS
    <3>1. call = [pc |-> "final", kid |-> jwCalls[r].kid, now |-> jwCalls[r].now,
                  set |-> jwCache.set, missAt |-> jwClock]
      BY <1>0, <3>0 DEF JwCall
    <3>2. call \in JwCall
      BY <1>0, <3>1 DEF JwCall, JwPlaces
    <3> QED
      BY <1>6, <1>7, <2>2, <3>0, <3>2 DEF JwSelect
  <2>3. CASE jwCalls[r].kid \notin KeysOf(jwCalls[r].set) /\ ~CoolingDown
    <3>0. PICK call : call = [jwCalls[r] EXCEPT !.pc = "wait_miss"]
      OBVIOUS
    <3>1. call = [pc |-> "wait_miss", kid |-> jwCalls[r].kid, now |-> jwCalls[r].now,
                  set |-> jwCalls[r].set, missAt |-> jwCalls[r].missAt]
      BY <1>0, <3>0 DEF JwCall
    <3>2. call \in JwCall
      BY <1>0, <3>1 DEF JwCall, JwPlaces
    <3>3. JwCarries(call)
      BY <1>0, <3>1 DEF JwCarries
    <3>4. call.pc \notin JwFetching /\ jwCalls[r].pc \notin JwFetching
      BY <1>7, <3>1 DEF JwSelect, JwFetching
    <3> QED
      BY <1>7, <2>3, <3>0, <3>2, <3>3, <3>4, JwQuietStep DEF JwSelect
  <2> QED
    BY <2>1, <2>2, <2>3
<1>8. ASSUME NEW r \in JwRequests, JwMissLocked(r) PROVE JwInv'
  <2>1. CASE CoolingDown
    <3>0. PICK call : call = [jwCalls[r] EXCEPT !.pc = "final", !.set = jwCache.set, !.missAt = jwClock]
      OBVIOUS
    <3>1. call = [pc |-> "final", kid |-> jwCalls[r].kid, now |-> jwCalls[r].now,
                  set |-> jwCache.set, missAt |-> jwClock]
      BY <1>0, <3>0 DEF JwCall
    <3>2. call \in JwCall
      BY <1>0, <3>1 DEF JwCall, JwPlaces
    <3> QED
      BY <1>6, <1>8, <2>1, <3>0, <3>2 DEF JwMissLocked
  <2>2. CASE ~CoolingDown
    <3>1. jwClock - jwFetches.last >= JwBound
      BY <1>0, <2>2 DEF CoolingDown, JwInv, JwCached
    <3> QED
      BY <1>8, <2>2, <3>1, JwFetchStep DEF JwMissLocked
  <2> QED
    BY <2>1, <2>2
<1>9. ASSUME NEW r \in JwRequests, JwFinal(r) PROVE JwInv'
  <2>1. CASE jwCalls[r].kid \in KeysOf(jwCalls[r].set)
    <3>0. PICK call : call = JwFound
      OBVIOUS
    <3>1. call = [pc |-> "found", kid |-> 0, now |-> 0, set |-> -1, missAt |-> 0]
      BY <3>0 DEF JwFound, JwIdle
    <3>2. call \in JwCall /\ JwCarries(call)
      BY <1>0, <3>1 DEF JwCall, JwPlaces, JwCarries
    <3>3. call.pc \notin JwFetching /\ jwCalls[r].pc \notin JwFetching
      BY <1>9, <3>1 DEF JwFinal, JwFetching
    <3> QED
      BY <1>9, <2>1, <3>0, <3>2, <3>3, JwQuietStep DEF JwFinal
  <2>2. CASE jwCalls[r].kid \notin KeysOf(jwCalls[r].set)
    <3>0. PICK call : call = [jwCalls[r] EXCEPT !.pc = "not_found"]
      OBVIOUS
    <3>1. call = [pc |-> "not_found", kid |-> jwCalls[r].kid, now |-> jwCalls[r].now,
                  set |-> jwCalls[r].set, missAt |-> jwCalls[r].missAt]
      BY <1>0, <3>0 DEF JwCall
    <3>2. call \in JwCall
      BY <1>0, <3>1 DEF JwCall, JwPlaces
    <3>3. JwCarries(call)
      BY <1>0, <1>9, <2>2, <3>1 DEF JwFinal, JwCarries
    <3>4. call.pc \notin JwFetching /\ jwCalls[r].pc \notin JwFetching
      BY <1>9, <3>1 DEF JwFinal, JwFetching
    <3> QED
      BY <1>9, <2>2, <3>0, <3>2, <3>3, <3>4, JwQuietStep DEF JwFinal
  <2> QED
    BY <2>1, <2>2
<1>10. ASSUME NEW r \in JwRequests, JwReturns(r) PROVE JwInv'
  <2>1. JwIdle \in JwCall /\ JwCarries(JwIdle)
    BY <1>0 DEF JwIdle, JwCall, JwPlaces, JwCarries
  <2>2. JwIdle.pc \notin JwFetching /\ jwCalls[r].pc \notin JwFetching
    BY <1>10 DEF JwReturns, JwFetching, JwIdle
  <2> QED
    BY <1>10, <2>1, <2>2, JwQuietStep DEF JwReturns
<1>11. CASE JwRotate
  <2>1. /\ jwProvider'.last = jwProvider.last + 1
        /\ jwProvider'.at = [jwProvider.at EXCEPT ![jwProvider.last + 1] = jwClock]
        /\ jwProvider'.last \in 0..JwMaxRotations
        /\ jwProvider'.at \in [0..JwMaxRotations -> Nat]
        /\ jwProvider' = [last |-> jwProvider'.last, at |-> jwProvider'.at]
    BY <1>0, <1>11 DEF JwRotate, JwInv, JwTypes
  <2>2. JwTypes'
    BY <1>11, <2>1 DEF JwRotate, JwInv, JwTypes
  <2>3. ASSUME NEW set \in Int, NEW at \in Int, CompleteSince(set, at), at <= jwClock
        PROVE  CompleteSince(set, at)'
    <3>1. jwProvider.at \in [0..JwMaxRotations -> Nat] /\ JwMaxRotations \in Nat
      BY DEF JwInv, JwTypes
    <3>2. ASSUME NEW n \in 0..JwMaxRotations, set < n, n <= jwProvider.last + 1
          PROVE  jwProvider'.at[n] >= at
      <4>1. CASE n = jwProvider.last + 1
        BY <1>0, <2>1, <2>3, <3>1, <4>1
      <4>2. CASE n # jwProvider.last + 1
        <5>1. jwProvider'.at[n] = jwProvider.at[n] /\ n <= jwProvider.last
          <6>1. PICK m \in 0..JwMaxRotations : m = jwProvider.last + 1
            BY <1>0, <2>1
          <6>2. jwProvider'.at[n] = jwProvider.at[n]
            BY <2>1, <3>1, <4>2, <6>1
          <6> QED
            BY <1>0, <3>2, <4>2, <6>2
        <5> QED
          BY <2>3, <3>2, <5>1 DEF CompleteSince
      <4> QED
        BY <4>1, <4>2
    <3>3. set <= jwProvider'.last
      <4>1. set <= jwProvider.last
        BY <2>3 DEF CompleteSince
      <4>2. \A n \in 0..JwMaxRotations : set <= n => set <= n + 1
        OBVIOUS
      <4> QED
        BY <1>0, <2>1, <4>1, <4>2
    <3> QED
      BY <1>0, <2>1, <3>2, <3>3 DEF CompleteSince
  <2>4. JwCached'
    BY <1>0, <1>11, <2>3 DEF JwRotate, JwInv, JwCached
  <2>5. ASSUME NEW r \in JwRequests PROVE JwCarries(jwCalls[r])'
    <3>1. PICK call \in JwCall : call = jwCalls[r] /\ call = jwCalls'[r] /\ JwCarries(call)
      BY <1>0, <1>11 DEF JwRotate
    <3>2. call.set \in Int /\ call.now \in Int /\ call.missAt \in Int
      BY DEF JwCall
    <3>3. ASSUME NEW at \in Int, CompleteSince(call.set, at), call.missAt <= jwClock,
                 at > call.missAt - Cooldown \/ at >= call.missAt
          PROVE  \E bt \in Int : CompleteSince(call.set, bt)' /\ (bt > call.missAt - Cooldown \/ bt >= call.missAt)
      <4>1. CASE at <= jwClock
        BY <2>3, <3>2, <3>3, <4>1
      <4>2. CASE at > jwClock
        <5>1. CompleteSince(call.set, jwClock)
          <6>1. \A n \in 0..JwMaxRotations : jwProvider.at[n] \in Nat
            BY DEF JwInv, JwTypes
          <6> QED
            BY <1>0, <3>2, <3>3, <4>2, <6>1 DEF CompleteSince
        <5> QED
          BY <1>0, <2>3, <3>2, <3>3, <5>1
      <4> QED
        BY <1>0, <4>1, <4>2
    <3> QED
      BY <1>11, <2>3, <3>1, <3>2, <3>3 DEF JwRotate, JwCarries, Cooldown
  <2> QED
    BY <1>11, <2>2, <2>4, <2>5 DEF JwRotate, JwInv, ProviderTrafficBounded, Cooldown
<1>12. CASE JwTick
  <2>1. jwClock' = jwClock + 1
    BY <1>12 DEF JwTick
  <2>2. JwTypes' /\ ProviderTrafficBounded'
    BY <1>0, <1>12, <2>1 DEF JwTick, JwInv, JwTypes, ProviderTrafficBounded, Cooldown
  <2>3. JwCached'
    BY <1>0, <1>12, <2>1 DEF JwTick, JwInv, JwCached, CompleteSince
  <2>4. ASSUME NEW r \in JwRequests PROVE JwCarries(jwCalls[r])'
    BY <1>0, <1>12, <2>1 DEF JwTick, JwCarries, CompleteSince, Cooldown, JwCall
  <2> QED
    BY <2>2, <2>3, <2>4 DEF JwInv
<1>13. CASE UNCHANGED jwVars
  BY <1>13 DEF jwVars, JwInv, JwTypes, JwCached, JwCarries, CompleteSince, ProviderTrafficBounded, Cooldown
<1> QED
  BY <1>1, <1>2, <1>3, <1>4, <1>5, <1>7, <1>8, <1>9, <1>10, <1>11, <1>12, <1>13 DEF JwNext

(* "Key-rotation resilience without unbounded provider traffic", the       *)
(* traffic: one fetch at a time, and none within a cooldown or the         *)
(* shortest jittered TTL of the last stored (ProviderTrafficBounded), for  *)
(* any number of requests and any TTL, jitter and cooldown.                *)
THEOREM ProviderTraffic == JwSpec => []ProviderTrafficBounded
<1>1. JwInv => ProviderTrafficBounded
  BY DEF JwInv
<1> QED
  BY JwInvInit, JwInvStep, <1>1, PTL DEF JwSpec

(* And the resilience: a key the provider has and published at least a     *)
(* cooldown ago is never refused as unknown (RefusedKeyIsRetiredOrNew).    *)
THEOREM KeyRotation == JwSpec => []RefusedKeyIsRetiredOrNew
<1>1. JwInv => RefusedKeyIsRetiredOrNew
  <2> SUFFICES ASSUME JwInv, NEW r \in JwRequests, JwAt(r, "not_found"),
                      jwCalls[r].kid \in KeysOf(jwProvider.last)
               PROVE  \/ jwProvider.at[jwCalls[r].kid] > jwCalls[r].missAt - Cooldown
                      \/ jwProvider.at[jwCalls[r].kid] >= jwCalls[r].missAt
    BY DEF RefusedKeyIsRetiredOrNew
  <2>1. /\ jwCalls[r] \in JwCall /\ JwCarries(jwCalls[r])
        /\ jwProvider.last \in 0..JwMaxRotations /\ jwProvider.at \in [0..JwMaxRotations -> Nat]
        /\ Cooldown \in Nat
    BY JwAssumption DEF JwInv, JwTypes, Cooldown
  <2>2. PICK at \in Int : /\ CompleteSince(jwCalls[r].set, at)
                          /\ at > jwCalls[r].missAt - Cooldown \/ at >= jwCalls[r].missAt
    BY <2>1 DEF JwAt, JwCarries
  <2>3. jwCalls[r].kid \in 0..JwMaxRotations /\ jwCalls[r].kid > jwCalls[r].set /\ jwCalls[r].kid <= jwProvider.last
    <3>1. jwCalls[r].kid \in Int /\ jwCalls[r].set \in Int /\ jwCalls[r].set <= jwProvider.last
      BY <2>1, <2>2 DEF CompleteSince, JwCall
    <3>2. jwCalls[r].kid \notin KeysOf(jwCalls[r].set)
      BY <2>1 DEF JwAt, JwCarries
    <3>3. ASSUME NEW kid \in Int, NEW set \in Int, NEW last \in Int, 0 <= last, last <= JwMaxRotations, set <= last,
                 kid \in KeysOf(last), kid \notin KeysOf(set)
          PROVE  kid \in 0..JwMaxRotations /\ kid > set /\ kid <= last
      BY <3>3, JwAssumption DEF KeysOf
    <3> QED
      BY <2>1, <3>1, <3>2, <3>3
  <2>4. jwProvider.at[jwCalls[r].kid] \in Nat /\ jwProvider.at[jwCalls[r].kid] >= at
    BY <2>1, <2>2, <2>3 DEF CompleteSince
  <2> QED
    BY <2>1, <2>2, <2>4 DEF JwCall
<1> QED
  BY JwInvInit, JwInvStep, <1>1, PTL DEF JwSpec

==============================================================================
