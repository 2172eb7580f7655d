------------------------------ MODULE JwksCache ------------------------------
(***************************************************************************)
(* JwksCache and Authenticator::decode_with_jwks                           *)
(* (crates/mcp-toolkit-auth/src/providers/jwks.rs): requests share one     *)
(* cached key set and refresh it one at a time, under an async mutex they  *)
(* hold across the fetch.  get keeps the instant it read before it waited  *)
(* for that mutex.                                                         *)
(*                                                                         *)
(* A key set is the number of the provider's last rotation; it holds that  *)
(* key and the one before.  A request may be dropped at any await.  What   *)
(* decode does with a key once it is found is left out.                    *)
(***************************************************************************)
EXTENDS Integers, FiniteSets

CONSTANTS JwRequests,
          JwTtl, JwJitter,  \* the configured TTL, and how far jitter moves it either way
          JwCooldown,       \* JWKS_KID_MISS_REFRESH_COOLDOWN
          JwMaxRotations,   \* rotations of the provider (bound)
          JwMaxTime,        \* the last tick (bound)
          NoRequest

ASSUME JwAssumption ==
  /\ NoRequest \notin JwRequests
  /\ {JwTtl, JwJitter, JwCooldown, JwMaxRotations, JwMaxTime} \subseteq Nat
  /\ JwJitter <= JwTtl

VARIABLES
  jwClock,
  jwProvider,   \* rotations so far, and the instant of each
  jwCache,      \* JwksState: set (-1 is None), fetched_at, next_refresh_at
  jwLock,       \* holder of refresh_lock, or NoRequest
  jwCalls,      \* each request's progress
  jwFetches     \* history: the instant the last stored fetch began, and the shortest time to the next fetch

jwVars == <<jwClock, jwProvider, jwCache, jwLock, jwCalls, jwFetches>>

JwIdle == [pc |-> "idle", kid |-> 0, now |-> 0, set |-> -1, missAt |-> 0]

JwFound == [JwIdle EXCEPT !.pc = "found"]

JwInit ==
  /\ jwClock = 0
  /\ jwProvider = [last |-> 0, at |-> [n \in 0..JwMaxRotations |-> 0]]
  /\ jwCache = [set |-> -1, fetched |-> 0, refresh |-> 0]
  /\ jwLock = NoRequest
  /\ jwCalls = [r \in JwRequests |-> JwIdle]
  /\ jwFetches = [last |-> -JwTtl - JwCooldown, gap |-> JwTtl + JwCooldown]

KeysOf(set) == {set - 1, set} \ {-1, -2}
JwAt(r, place) == jwCalls[r].pc = place
JwBecome(r, call) == jwCalls' = [jwCalls EXCEPT ![r] = call]

-----------------------------------------------------------------------------
(* get *)

Unexpired(now) == jwCache.set >= 0 /\ now < jwCache.refresh

JwGet(r, kid) ==
  /\ JwAt(r, "idle")
  /\ JwBecome(r, [JwIdle EXCEPT !.pc = IF Unexpired(jwClock) THEN "select" ELSE "wait_get",
                                !.kid = kid, !.now = jwClock, !.set = jwCache.set])
  /\ UNCHANGED <<jwClock, jwProvider, jwCache, jwLock, jwFetches>>

(* fetch_and_store begins: the instant it stamps the set with is read      *)
(* before the request goes out.                                            *)
FetchBegins(r, pc) ==
  /\ jwLock' = r
  /\ JwBecome(r, [jwCalls[r] EXCEPT !.pc = pc, !.now = jwClock])
  /\ jwFetches' = [jwFetches EXCEPT !.gap = IF jwClock - jwFetches.last < @ THEN jwClock - jwFetches.last ELSE @]

(* Mutant: a request that waited for the lock does not look again. *)
JwGetLockedBlind(r) ==
  /\ JwAt(r, "wait_get") /\ jwLock = NoRequest
  /\ FetchBegins(r, "fetch_get")
  /\ UNCHANGED <<jwClock, jwProvider, jwCache>>

(* The refresh lock is taken; look again. *)
JwGetLocked(r) ==
  /\ JwAt(r, "wait_get") /\ jwLock = NoRequest
  /\ IF Unexpired(jwCalls[r].now)
       THEN /\ JwBecome(r, [jwCalls[r] EXCEPT !.pc = "select", !.set = jwCache.set])
            /\ UNCHANGED <<jwLock, jwFetches>>
       ELSE FetchBegins(r, "fetch_get")
  /\ UNCHANGED <<jwClock, jwProvider, jwCache>>

(* The provider answers with the keys it has; the answer travels. *)
ProviderAnswers(r) ==
  /\ jwCalls[r].pc \in {"fetch_get", "fetch_miss"}
  /\ JwBecome(r, [jwCalls[r] EXCEPT !.set = jwProvider.last,
                                    !.pc = IF @ = "fetch_get" THEN "store_get" ELSE "store_miss"])
  /\ UNCHANGED <<jwClock, jwProvider, jwCache, jwLock, jwFetches>>

JittersOf(at) == (at + JwTtl - JwJitter)..(at + JwTtl + JwJitter)

(* Mutant: the set is stamped when the answer is there. *)
FetchStoresLate(r) ==
  /\ jwCalls[r].pc \in {"store_get", "store_miss"}
  /\ \E refresh \in JittersOf(jwClock) :
       jwCache' = [set |-> jwCalls[r].set, fetched |-> jwClock, refresh |-> refresh]
  /\ jwFetches' = [jwFetches EXCEPT !.last = jwCalls[r].now]
  /\ jwLock' = NoRequest
  /\ JwBecome(r, [jwCalls[r] EXCEPT !.pc = IF @ = "store_get" THEN "select" ELSE "final", !.missAt = jwCalls[r].now])
  /\ UNCHANGED <<jwClock, jwProvider>>

FetchStores(r) ==
  /\ jwCalls[r].pc \in {"store_get", "store_miss"}
  /\ \E refresh \in JittersOf(jwCalls[r].now) :
       jwCache' = [set |-> jwCalls[r].set, fetched |-> jwCalls[r].now, refresh |-> refresh]
  /\ jwFetches' = [jwFetches EXCEPT !.last = jwCalls[r].now]
  /\ jwLock' = NoRequest
  /\ JwBecome(r, [jwCalls[r] EXCEPT !.pc = IF @ = "store_get" THEN "select" ELSE "final", !.missAt = jwCalls[r].now])
  /\ UNCHANGED <<jwClock, jwProvider>>

(* fetch_jwks fails, or the request is dropped while it waits or fetches:  *)
(* its guard, if it holds one, goes.                                       *)
JwAbandoned(r) ==
  /\ jwCalls[r].pc \in {"wait_get", "wait_miss", "fetch_get", "fetch_miss", "store_get", "store_miss"}
  /\ jwLock' = IF jwLock = r THEN NoRequest ELSE jwLock
  /\ JwBecome(r, JwIdle)
  /\ UNCHANGED <<jwClock, jwProvider, jwCache, jwFetches>>

-----------------------------------------------------------------------------
(* decode_with_jwks, and refresh_on_kid_miss for a key the set lacks *)

Cooldown == IF JwTtl < JwCooldown THEN JwTtl ELSE JwCooldown

(* cached_set_within_kid_miss_cooldown *)
CoolingDown == jwCache.set >= 0 /\ jwClock - jwCache.fetched < Cooldown

JwSelect(r) ==
  /\ JwAt(r, "select")
  /\ IF jwCalls[r].kid \in KeysOf(jwCalls[r].set) THEN JwBecome(r, JwFound)
     ELSE IF CoolingDown THEN JwBecome(r, [jwCalls[r] EXCEPT !.pc = "final", !.set = jwCache.set, !.missAt = jwClock])
     ELSE JwBecome(r, [jwCalls[r] EXCEPT !.pc = "wait_miss"])
  /\ UNCHANGED <<jwClock, jwProvider, jwCache, jwLock, jwFetches>>

JwMissLocked(r) ==
  /\ JwAt(r, "wait_miss") /\ jwLock = NoRequest
  /\ IF CoolingDown
       THEN /\ JwBecome(r, [jwCalls[r] EXCEPT !.pc = "final", !.set = jwCache.set, !.missAt = jwClock])
            /\ UNCHANGED <<jwLock, jwFetches>>
       ELSE FetchBegins(r, "fetch_miss")
  /\ UNCHANGED <<jwClock, jwProvider, jwCache>>

JwFinal(r) ==
  /\ JwAt(r, "final")
  /\ JwBecome(r, IF jwCalls[r].kid \in KeysOf(jwCalls[r].set) THEN JwFound ELSE [jwCalls[r] EXCEPT !.pc = "not_found"])
  /\ UNCHANGED <<jwClock, jwProvider, jwCache, jwLock, jwFetches>>

JwReturns(r) ==
  /\ jwCalls[r].pc \in {"found", "not_found"}
  /\ JwBecome(r, JwIdle)
  /\ UNCHANGED <<jwClock, jwProvider, jwCache, jwLock, jwFetches>>

JwRotate ==
  /\ jwProvider.last < JwMaxRotations
  /\ jwProvider' = [last |-> jwProvider.last + 1, at |-> [jwProvider.at EXCEPT ![jwProvider.last + 1] = jwClock]]
  /\ UNCHANGED <<jwClock, jwCache, jwLock, jwCalls, jwFetches>>

JwTick ==
  /\ jwClock < JwMaxTime
  /\ jwClock' = jwClock + 1
  /\ UNCHANGED <<jwProvider, jwCache, jwLock, jwCalls, jwFetches>>

JwNext ==
  \/ \E r \in JwRequests :
       \/ \E kid \in 0..jwProvider.last : JwGet(r, kid)
       \/ JwGetLocked(r) \/ ProviderAnswers(r) \/ FetchStores(r) \/ JwAbandoned(r)
       \/ JwSelect(r) \/ JwMissLocked(r) \/ JwFinal(r) \/ JwReturns(r)
  \/ JwRotate \/ JwTick

JwSpec == JwInit /\ [][JwNext]_jwVars

-----------------------------------------------------------------------------
(* Properties *)

(* "preserving key-rotation resilience without unbounded provider          *)
(* traffic": one fetch is under way at a time, and after a fetch that was  *)
(* stored none begins before the cooldown, or the shortest jittered TTL,   *)
(* has passed, however many requests expired, missed a key or waited for   *)
(* the lock together.                                                      *)
ProviderTrafficBounded ==
  /\ \A r \in JwRequests :
       jwCalls[r].pc \in {"fetch_get", "fetch_miss", "store_get", "store_miss"} <=> jwLock = r
  /\ jwFetches.gap >= IF JwTtl - JwJitter < Cooldown THEN JwTtl - JwJitter ELSE Cooldown

(* And the resilience: a key is refused as unknown only if the provider    *)
(* has retired it, or published it less than a cooldown before the key set *)
(* the verdict rests on was chosen; without a cooldown (a TTL of zero),    *)
(* not before it.                                                          *)
RefusedKeyIsRetiredOrNew ==
  \A r \in JwRequests :
    JwAt(r, "not_found") =>
      \/ jwCalls[r].kid \notin KeysOf(jwProvider.last)
      \/ jwProvider.at[jwCalls[r].kid] > jwCalls[r].missAt - Cooldown
      \/ jwProvider.at[jwCalls[r].kid] >= jwCalls[r].missAt

==============================================================================
