----------------------------- MODULE OpaqueTokens ----------------------------
(***************************************************************************)
(* OpaqueTokenStore (crates/mcp-toolkit-server/src/opaque_token.rs): one-  *)
(* shot tokens kept in a map and two ordered indexes, by expiry and by     *)
(* generation, that every operation keeps in step under one mutex.         *)
(*                                                                         *)
(* A payload stands for what its creator asked for: the binding and the    *)
(* deadline, and a number no other payload has.                            *)
(***************************************************************************)
EXTENDS Integers, FiniteSets, Functions

CONSTANTS OtTokens,         \* UUIDs getrandom may yield
          OtBindings,
          OtTtl, OtMaxEntries,
          OtMaxGeneration,  \* the last value of next_generation (bound, u64::MAX in the code)
          OtMaxTime         \* the last tick (bound)

ASSUME OtAssumption ==
  /\ {OtTtl, OtMaxEntries} \subseteq Nat \ {0}
  /\ {OtMaxGeneration, OtMaxTime} \subseteq Nat

VARIABLES
  otClock,
  otState,     \* StoreState: entries, expirations, capacity_order, next_generation
  otReserved,  \* ConsumedOpaqueTokens their callers hold
  otSpent      \* history: payloads taken by into_payload or dropped

otVars == <<otClock, otState, otReserved, otSpent>>

OtInit ==
  /\ otClock = 0
  /\ otState = [entries |-> <<>>, expirations |-> {}, order |-> {}, next |-> 1]
  /\ otReserved = {} /\ otSpent = {}

-----------------------------------------------------------------------------
(* StoreState *)

Holds(st, generation, token) ==
  token \in DOMAIN st.entries /\ st.entries[token].generation = generation

Without(st, tokens) == Restrict(st.entries, DOMAIN st.entries \ tokens)

(* sweep_expired: every expiration that is due, with the record it still   *)
(* speaks for.                                                             *)
SweepExpired(st, now) ==
  LET due  == {x \in st.expirations : x[1] <= now}
      dead == {x \in due : Holds(st, x[2], x[3])}
  IN  [st EXCEPT !.expirations = @ \ due,
                 !.entries = Without(st, {x[3] : x \in dead}),
                 !.order = @ \ {<<x[2], x[3]>> : x \in dead}]

(* Remove a record and its two index entries. *)
Removed(st, token) ==
  LET record == st.entries[token]
  IN  [st EXCEPT !.entries = Without(st, {token}),
                 !.expirations = @ \ {<<record.expires, record.generation, token>>},
                 !.order = @ \ {<<record.generation, token>>}]

ExpiredIn(st, token, now) == token \in DOMAIN st.entries /\ st.entries[token].expires <= now
RemoveTargetIfExpired(st, token, now) == IF ExpiredIn(st, token, now) THEN Removed(st, token) ELSE st

(* trim_to_capacity pops the lowest generations until enough records have  *)
(* gone.                                                                   *)
TrimToCapacity(st) ==
  LET excess == Cardinality(DOMAIN st.entries) - OtMaxEntries
      held   == {o \in st.order : Holds(st, o[1], o[2])}
      popped == {o \in st.order : Cardinality({h \in held : h[1] < o[1]}) < excess}
      gone   == {o[2] : o \in popped \cap held}
  IN  [st EXCEPT !.order = @ \ popped,
                 !.entries = Without(st, gone),
                 !.expirations = @ \ {<<st.entries[t].expires, st.entries[t].generation, t>> : t \in gone}]

(* Insert under the generation taken, index, trim. *)
Stored(st, token, record, generation) ==
  TrimToCapacity(
    [entries     |-> [t \in DOMAIN st.entries \cup {token} |->
                        IF t = token THEN [record EXCEPT !.generation = generation] ELSE st.entries[t]],
     expirations |-> st.expirations \cup {<<record.expires, generation, token>>},
     order       |-> st.order \cup {<<generation, token>>},
     next        |-> generation + 1])

(* A method calls Instant::now again after its sweep. *)
OtLater == {n \in {otClock, otClock + 1} : n <= OtMaxTime}
OtSwept == SweepExpired(otState, otClock)
OtHasGeneration == otState.next <= OtMaxGeneration

-----------------------------------------------------------------------------
(* The methods of OpaqueTokenStore *)

CreateToken(token, binding) ==
  /\ OtHasGeneration
  /\ token \notin DOMAIN OtSwept.entries
  /\ \E now \in OtLater :
       /\ otClock' = now
       /\ otState' = Stored(OtSwept, token,
            [binding |-> binding, expires |-> now + OtTtl, generation |-> 0,
             payload |-> [number |-> OtSwept.next, binding |-> binding, deadline |-> now + OtTtl]], OtSwept.next)
  /\ UNCHANGED <<otReserved, otSpent>>

(* stats; create and restore out of generations; consume and resolve of an *)
(* unknown token: only the sweep is left.                                  *)
SweepOnly ==
  /\ otState' = OtSwept
  /\ UNCHANGED <<otClock, otReserved, otSpent>>

(* consume, or a resolve, which leaves the record; another binding gets an *)
(* error and no record.                                                    *)
UseToken(token, binding, consume) ==
  /\ \E now \in OtLater :
       LET st == RemoveTargetIfExpired(OtSwept, token, now)
           ok == consume /\ token \in DOMAIN st.entries /\ st.entries[token].binding = binding
       IN  /\ otClock' = now
           /\ otState' = IF ok THEN Removed(st, token) ELSE st
           /\ otReserved' = IF ok THEN otReserved \cup {[token |-> token, record |-> st.entries[token]]} ELSE otReserved
  /\ UNCHANGED otSpent

(* Mutant: the restored record keeps the generation it had. *)
RestoreTokenOldGeneration(r) ==
  /\ r \in otReserved
  /\ otReserved' = otReserved \ {r}
  /\ \E now \in OtLater :
       /\ otClock' = now
       /\ IF r.record.expires > now /\ r.token \notin DOMAIN OtSwept.entries /\ OtHasGeneration
            THEN /\ otState' = LET st == Stored(OtSwept, r.token, r.record, OtSwept.next)
                              IN  IF r.token \in DOMAIN st.entries THEN [st EXCEPT !.entries[r.token] = r.record] ELSE st
                 /\ UNCHANGED otSpent
            ELSE otState' = OtSwept /\ otSpent' = otSpent \cup {r.record.payload}

(* restore: refused when the token has expired or its identity was given   *)
(* to another record; the reservation is used up either way.               *)
RestoreToken(r) ==
  /\ r \in otReserved
  /\ otReserved' = otReserved \ {r}
  /\ \E now \in OtLater :
       /\ otClock' = now
       /\ IF r.record.expires > now /\ r.token \notin DOMAIN OtSwept.entries /\ OtHasGeneration
            THEN otState' = Stored(OtSwept, r.token, r.record, OtSwept.next) /\ UNCHANGED otSpent
            ELSE otState' = OtSwept /\ otSpent' = otSpent \cup {r.record.payload}

(* into_payload, or the reservation is dropped. *)
SpendToken(r) ==
  /\ r \in otReserved
  /\ otReserved' = otReserved \ {r}
  /\ otSpent' = otSpent \cup {r.record.payload}
  /\ UNCHANGED <<otClock, otState>>

OtTick ==
  /\ otClock < OtMaxTime
  /\ otClock' = otClock + 1
  /\ UNCHANGED <<otState, otReserved, otSpent>>

OtNext ==
  \/ \E token \in OtTokens, binding \in OtBindings :
       CreateToken(token, binding) \/ \E consume \in BOOLEAN : UseToken(token, binding, consume)
  \/ \E r \in otReserved : RestoreToken(r) \/ SpendToken(r)
  \/ SweepOnly \/ OtTick

OtSpec == OtInit /\ [][OtNext]_otVars

-----------------------------------------------------------------------------
(* Properties *)

(* The map and its two indexes name the same records, within capacity,     *)
(* after every mix of expiry, eviction, consumption and restore; a payload *)
(* is in one place only, never back after it was spent, and still under    *)
(* the binding and the deadline it was created with.                       *)
OpaqueTokensCoherent ==
  LET st == otState
      stored == {[token |-> t, record |-> st.entries[t]] : t \in DOMAIN st.entries}
      held == stored \cup otReserved
  IN  /\ st.expirations = {<<st.entries[t].expires, st.entries[t].generation, t>> : t \in DOMAIN st.entries}
      /\ st.order = {<<st.entries[t].generation, t>> : t \in DOMAIN st.entries}
      /\ Cardinality(DOMAIN st.entries) <= OtMaxEntries
      /\ stored \cap otReserved = {}
      /\ \A a, b \in held : a.record.payload.number = b.record.payload.number => a = b
      /\ \A a \in held :
           /\ a.record.payload \notin otSpent
           /\ a.record.expires = a.record.payload.deadline /\ a.record.binding = a.record.payload.binding

==============================================================================
