----------------------------- MODULE StoresProofs -----------------------------
(***************************************************************************)
(* Theorems about GuardedQuery, OpaqueTokens, ObserverQueue, EventStores,  *)
(* OperationHistory and Scratchpad.                                        *)
(***************************************************************************)
EXTENDS GuardedQuery, OpaqueTokens, ObserverQueue, EventStores, OperationHistory, Scratchpad,
        RetainProofs, FiniteSetTheorems, TLAPS

-----------------------------------------------------------------------------
(* GuardedQuery *)

QueryTypes ==
  /\ qHooks \in [timeout : Nat, token : BOOLEAN]
  /\ qClock \in Nat /\ qCancelled \in BOOLEAN /\ qStop \in BOOLEAN /\ qInterrupt \in BOOLEAN
  /\ qCaller \in [pc : {"begin", "execute", "stop", "join", "done"}, start : Nat, left : Int,
                  result : {"none", "ok", "error"}]
  /\ qWatcher \in [pc : {"none", "spawned", "poll", "decide", "exited"}, start : Nat,
                   reason : {"none", "cancelled", "timeout"}]
  /\ qOutcome \in {"none", "ok", "error", "timeout", "cancelled"}

(* The watcher measures from no earlier than the caller does. *)
WatcherStartsLater ==
  /\ qCaller.start <= qClock
  /\ qWatcher.pc \in {"poll", "decide", "exited"} => qCaller.start <= qWatcher.start /\ qWatcher.start <= qClock

(* An interrupt has a reason, the reason is true and the watcher's last    *)
(* word.                                                                   *)
ReasonIsTrue ==
  /\ qInterrupt <=> qWatcher.reason # "none"
  /\ qInterrupt => qWatcher.pc = "exited"
  /\ qWatcher.reason = "cancelled" => qCancelled
  /\ qWatcher.reason = "timeout" => qHooks.timeout > 0 /\ qClock - qWatcher.start >= qHooks.timeout

CallerInOrder ==
  /\ qCaller.pc = "begin" => qWatcher.pc = "none"
  /\ qCaller.pc = "done" <=> qOutcome # "none"
  /\ qCaller.pc \in {"stop", "join"} => qCaller.result # "none"

QueryInv == QueryTypes /\ WatcherStartsLater /\ ReasonIsTrue /\ CallerInOrder /\ OutcomeIsTrue

(* No thread has started. *)
LEMMA QueryInvInit == QueryInit => QueryInv
<1> SUFFICES ASSUME QueryInit PROVE QueryInv
  OBVIOUS
<1>1. QueryTypes
  <2>1. QueryStatements \in Int /\ 0 \in Nat
    BY QueryAssumption
  <2>2. qHooks \in [timeout : Nat, token : BOOLEAN]
    BY QueryAssumption DEF QueryInit
  <2>3. qCaller \in [pc : {"begin", "execute", "stop", "join", "done"}, start : Nat, left : Int,
                     result : {"none", "ok", "error"}]
    BY <2>1 DEF QueryInit
  <2> QED
    BY <2>1, <2>2, <2>3 DEF QueryInit, QueryTypes
<1> QED
  BY <1>1 DEF QueryInit, QueryInv, WatcherStartsLater, ReasonIsTrue, CallerInOrder, OutcomeIsTrue

(* Every step of either thread keeps QueryInv. *)
LEMMA QueryInvStep == QueryInv /\ [QueryNext]_qVars => QueryInv'
<1> SUFFICES ASSUME QueryInv, [QueryNext]_qVars PROVE QueryInv'
  OBVIOUS
<1> USE DEF QueryInv, QueryTypes, WatcherStartsLater, ReasonIsTrue, CallerInOrder, OutcomeIsTrue, CallerElapsed
<1>1. CASE QueryBegins
  <2>1. QueryTypes'
    BY <1>1 DEF QueryBegins, QueryReturns
  <2>2. WatcherStartsLater'
    <3>1. qCaller'.start = qCaller.start \/ qCaller'.start = qClock
      BY <1>1 DEF QueryBegins, QueryReturns
    <3>2. qWatcher'.pc \in {"none", "spawned"}
      BY <1>1 DEF QueryBegins
    <3> QED
      BY <1>1, <3>1, <3>2 DEF QueryBegins
  <2>3. ReasonIsTrue'
    BY <1>1 DEF QueryBegins, QueryReturns
  <2>4. CallerInOrder'
    BY <1>1 DEF QueryBegins, QueryReturns
  <2>5. OutcomeIsTrue'
    BY <1>1 DEF QueryBegins, QueryReturns
  <2> QED
    BY <2>1, <2>2, <2>3, <2>4, <2>5
<1>2. CASE StatementEnds
  <2>1. QueryTypes'
    <3>1. CASE qCaller' = [qCaller EXCEPT !.pc = "stop", !.result = "error"]
      BY <1>2, <3>1 DEF StatementEnds
    <3>2. CASE qCaller' = [qCaller EXCEPT !.left = @ - 1]
      BY <1>2, <3>2 DEF StatementEnds
    <3>3. CASE qCaller' = [qCaller EXCEPT !.pc = "stop", !.result = "ok"]
      BY <1>2, <3>3 DEF StatementEnds
    <3> QED
      BY <1>2, <3>1, <3>2, <3>3 DEF StatementEnds
  <2>2. WatcherStartsLater'
    BY <1>2 DEF StatementEnds
  <2>3. ReasonIsTrue'
    BY <1>2 DEF StatementEnds
  <2>4. CallerInOrder'
    BY <1>2 DEF StatementEnds
  <2>5. OutcomeIsTrue'
    BY <1>2 DEF StatementEnds
  <2> QED
    BY <2>1, <2>2, <2>3, <2>4, <2>5
<1>3. CASE CallerStops
  BY <1>3 DEF CallerStops
<1>4. CASE CallerJoins
  BY <1>4 DEF CallerJoins, QueryReturns
<1>5. CASE WatcherStarts
  <2>1. QueryTypes'
    BY <1>5 DEF WatcherStarts
  <2>2. WatcherStartsLater'
    BY <1>5 DEF WatcherStarts
  <2>3. ReasonIsTrue'
    BY <1>5 DEF WatcherStarts
  <2>4. CallerInOrder'
    BY <1>5 DEF WatcherStarts
  <2>5. OutcomeIsTrue'
    BY <1>5 DEF WatcherStarts
  <2> QED
    BY <2>1, <2>2, <2>3, <2>4, <2>5
<1>6. CASE WatcherLoadsStop
  BY <1>6 DEF WatcherLoadsStop
<1>7. CASE WatcherDecides
  BY <1>7 DEF WatcherDecides, WatcherElapsed
<1>8. CASE CancelQuery
  BY <1>8 DEF CancelQuery
<1>9. CASE QueryTick
  BY <1>9 DEF QueryTick
<1>10. CASE UNCHANGED qVars
  BY <1>10 DEF qVars
<1> QED
  BY <1>1, <1>2, <1>3, <1>4, <1>5, <1>6, <1>7, <1>8, <1>9, <1>10 DEF QueryNext, QueryCaller, QueryWatcher

(* What run_guarded answers is what its two threads really did             *)
(* (OutcomeIsTrue), for any timeout, any number of statements and any      *)
(* interleaving with the watcher and the cancel token.                     *)
THEOREM GuardedOutcome == QuerySpec => []OutcomeIsTrue
<1>1. QueryInv => OutcomeIsTrue
  BY DEF QueryInv
<1> QED
  BY QueryInvInit, QueryInvStep, <1>1, PTL DEF QuerySpec

-----------------------------------------------------------------------------
(* OpaqueTokens *)

OtPayloads == [number : Nat, binding : OtBindings, deadline : Nat]
OtRecords == [binding : OtBindings, expires : Nat, generation : Nat, payload : OtPayloads]

(* The two indexes of a map, in expiry and in generation order. *)
ByExpiry(entries) == {<<entries[t].expires, entries[t].generation, t>> : t \in DOMAIN entries}
ByGeneration(entries) == {<<entries[t].generation, t>> : t \in DOMAIN entries}

(* The indexes are those of the map, and a generation names one record. *)
StoreFine(st) ==
  /\ st = [entries |-> st.entries, expirations |-> st.expirations, order |-> st.order, next |-> st.next]
  /\ st.next \in Nat /\ IsFiniteSet(DOMAIN st.entries)
  /\ \A t \in DOMAIN st.entries : st.entries[t] \in OtRecords /\ st.entries[t].generation < st.next
  /\ \A t, u \in DOMAIN st.entries : st.entries[t].generation = st.entries[u].generation => t = u
  /\ st.expirations = ByExpiry(st.entries) /\ st.order = ByGeneration(st.entries)

(* A store with some of the records of another. *)
Lesser(less, st) ==
  /\ DOMAIN less.entries \subseteq DOMAIN st.entries /\ less.next = st.next
  /\ \A t \in DOMAIN less.entries : less.entries[t] = st.entries[t]

CutStore(st, gone) ==
  [entries     |-> Without(st, gone),
   expirations |-> st.expirations \ {<<st.entries[t].expires, st.entries[t].generation, t>> : t \in gone},
   order       |-> st.order \ {<<st.entries[t].generation, t>> : t \in gone},
   next        |-> st.next]

(* Records that leave the map and both indexes leave the store in order;   *)
(* sweep, removal and trim are of this kind.                               *)
LEMMA CutFine ==
  ASSUME NEW st, StoreFine(st), NEW gone, gone \subseteq DOMAIN st.entries
  PROVE  /\ StoreFine(CutStore(st, gone)) /\ Lesser(CutStore(st, gone), st)
         /\ DOMAIN CutStore(st, gone).entries = DOMAIN st.entries \ gone
<1>1. PICK less : less = CutStore(st, gone)
  OBVIOUS
<1>2. /\ less.entries = Without(st, gone) /\ less.next = st.next
      /\ less.expirations = st.expirations \ {<<st.entries[t].expires, st.entries[t].generation, t>> : t \in gone}
      /\ less.order = st.order \ {<<st.entries[t].generation, t>> : t \in gone}
      /\ less = [entries |-> less.entries, expirations |-> less.expirations, order |-> less.order, next |-> less.next]
  BY <1>1 DEF CutStore
<1>3. DOMAIN less.entries = DOMAIN st.entries \ gone /\ \A t \in DOMAIN less.entries : less.entries[t] = st.entries[t]
  BY <1>2 DEF Without, Restrict
<1>4. IsFiniteSet(DOMAIN less.entries)
  BY <1>3, FS_Subset DEF StoreFine
<1>5. less.expirations = ByExpiry(less.entries)
  <2>1. st.expirations = {<<st.entries[t].expires, st.entries[t].generation, t>> : t \in DOMAIN st.entries}
    BY DEF StoreFine, ByExpiry
  <2>2. less.expirations = {<<st.entries[t].expires, st.entries[t].generation, t>> : t \in DOMAIN st.entries \ gone}
    BY <1>2, <2>1
  <2> QED
    BY <1>3, <2>2 DEF ByExpiry
<1>6. less.order = ByGeneration(less.entries)
  <2>1. st.order = {<<st.entries[t].generation, t>> : t \in DOMAIN st.entries}
    BY DEF StoreFine, ByGeneration
  <2>2. less.order = {<<st.entries[t].generation, t>> : t \in DOMAIN st.entries \ gone}
    BY <1>2, <2>1
  <2> QED
    BY <1>3, <2>2 DEF ByGeneration
<1>7. Lesser(less, st)
  BY <1>2, <1>3 DEF Lesser
<1>8. StoreFine(less)
  BY <1>2, <1>3, <1>4, <1>5, <1>6 DEF StoreFine
<1> QED
  BY <1>1, <1>3, <1>7, <1>8

(* Every index entry speaks for the record it was made for. *)
LEMMA IndexHolds ==
  ASSUME NEW st, StoreFine(st)
  PROVE  /\ \A x \in st.expirations : Holds(st, x[2], x[3]) /\ x[1] = st.entries[x[3]].expires /\ x = <<x[1], x[2], x[3]>>
         /\ \A o \in st.order : Holds(st, o[1], o[2]) /\ o = <<o[1], o[2]>>
BY DEF StoreFine, ByExpiry, ByGeneration, Holds

(* The sweep of expired tokens: map and indexes still agree, and nothing is added. *)
LEMMA SweepFine ==
  ASSUME NEW st, StoreFine(st), NEW now \in Nat
  PROVE  StoreFine(SweepExpired(st, now)) /\ Lesser(SweepExpired(st, now), st)
<1> DEFINE gone == {t \in DOMAIN st.entries : st.entries[t].expires <= now}
           due == {x \in st.expirations : x[1] <= now}
           dead == {x \in due : Holds(st, x[2], x[3])}
<1>1. dead = due
  BY IndexHolds
<1>2. due = {<<st.entries[t].expires, st.entries[t].generation, t>> : t \in gone}
  BY DEF StoreFine, ByExpiry
<1> HIDE DEF due, dead, gone
<1>3. {x[3] : x \in due} = gone
  <2>1. \A x \in due : x[3] \in gone
    BY <1>2
  <2>2. ASSUME NEW t \in gone
        PROVE  t \in {x[3] : x \in due}
    <3>1. PICK x \in due : x = <<st.entries[t].expires, st.entries[t].generation, t>>
      BY <1>2
    <3>2. x[3] = t
      BY <3>1
    <3> QED
      BY <3>2
  <2> QED
    BY <2>1, <2>2
<1>4. {<<x[2], x[3]>> : x \in due} = {<<st.entries[t].generation, t>> : t \in gone}
  <2>1. \A t \in gone : <<st.entries[t].expires, st.entries[t].generation, t>> \in due
    BY <1>2
  <2>2. \A x \in due : \E t \in gone : x[2] = st.entries[t].generation /\ x[3] = t
    BY <1>2
  <2>3. ASSUME NEW t \in gone
        PROVE  <<st.entries[t].generation, t>> \in {<<x[2], x[3]>> : x \in due}
    <3>1. PICK x \in due : x = <<st.entries[t].expires, st.entries[t].generation, t>>
      BY <2>1
    <3>2. x[2] = st.entries[t].generation /\ x[3] = t
      BY <3>1
    <3> QED
      BY <3>2
  <2> QED
    BY <2>2, <2>3
<1>5. PICK swept : swept = [st EXCEPT !.expirations = @ \ due,
                                      !.entries = Without(st, {x[3] : x \in dead}),
                                      !.order = @ \ {<<x[2], x[3]>> : x \in dead}]
  OBVIOUS
<1>6. swept = SweepExpired(st, now)
  BY <1>5 DEF SweepExpired, due, dead
<1>7. swept = [entries |-> Without(st, gone), expirations |-> st.expirations \ due,
               order |-> st.order \ {<<st.entries[t].generation, t>> : t \in gone}, next |-> st.next]
  BY <1>1, <1>3, <1>4, <1>5 DEF StoreFine
<1>8. swept = CutStore(st, gone)
  BY <1>2, <1>7 DEF CutStore
<1>9. gone \subseteq DOMAIN st.entries
  BY DEF gone
<1> QED
  BY <1>6, <1>8, <1>9, CutFine

(* So does the removal of one token. *)
LEMMA RemovedFine ==
  ASSUME NEW st, StoreFine(st), NEW token \in DOMAIN st.entries
  PROVE  StoreFine(Removed(st, token)) /\ Lesser(Removed(st, token), st) /\ token \notin DOMAIN Removed(st, token).entries
<1>1. PICK less : less = [st EXCEPT !.entries = Without(st, {token}),
                                    !.expirations = @ \ {<<st.entries[token].expires, st.entries[token].generation, token>>},
                                    !.order = @ \ {<<st.entries[token].generation, token>>}]
  OBVIOUS
<1>2. less = Removed(st, token)
  BY <1>1 DEF Removed
<1>3. less = [entries |-> Without(st, {token}),
              expirations |-> st.expirations \ {<<st.entries[token].expires, st.entries[token].generation, token>>},
              order |-> st.order \ {<<st.entries[token].generation, token>>}, next |-> st.next]
  BY <1>1 DEF StoreFine
<1>4. less = CutStore(st, {token})
  <2>1. /\ {<<st.entries[t].expires, st.entries[t].generation, t>> : t \in {token}}
             = {<<st.entries[token].expires, st.entries[token].generation, token>>}
        /\ {<<st.entries[t].generation, t>> : t \in {token}} = {<<st.entries[token].generation, token>>}
    OBVIOUS
  <2> QED
    BY <1>3, <2>1 DEF CutStore
<1> QED
  BY <1>2, <1>4, CutFine

(* One record over the capacity: the trim drops exactly the oldest. *)
LEMMA TrimFine ==
  ASSUME NEW st, StoreFine(st), Cardinality(DOMAIN st.entries) <= OtMaxEntries + 1
  PROVE  /\ StoreFine(TrimToCapacity(st)) /\ Lesser(TrimToCapacity(st), st)
         /\ Cardinality(DOMAIN TrimToCapacity(st).entries) <= OtMaxEntries
<1> DEFINE excess == Cardinality(DOMAIN st.entries) - OtMaxEntries
           held == {o \in st.order : Holds(st, o[1], o[2])}
           popped == {o \in st.order : Cardinality({h \in held : h[1] < o[1]}) < excess}
           gone == {o[2] : o \in popped \cap held}
<1>1. OtMaxEntries \in Nat /\ OtMaxEntries > 0 /\ IsFiniteSet(DOMAIN st.entries) /\ Cardinality(DOMAIN st.entries) \in Nat
  BY OtAssumption, FS_CardinalityType DEF StoreFine
<1>2. held = st.order
  BY IndexHolds
<1>3. popped \cap held = popped
  BY <1>2
<1>4. popped = {<<st.entries[t].generation, t>> : t \in gone} /\ gone \subseteq DOMAIN st.entries
  <2>1. \A o \in popped : /\ o = <<o[1], o[2]>> /\ o[2] \in DOMAIN st.entries
                          /\ o[1] = st.entries[o[2]].generation
    BY IndexHolds DEF Holds
  <2> HIDE DEF popped
  <2> QED
    BY <1>3, <2>1
<1>5. PICK trimmed : trimmed = [st EXCEPT !.order = @ \ popped,
                          !.entries = Without(st, gone),
                          !.expirations = @ \ {<<st.entries[t].expires, st.entries[t].generation, t>> : t \in gone}]
  OBVIOUS
<1>6. trimmed = TrimToCapacity(st)
  BY <1>5 DEF TrimToCapacity
<1>7. trimmed = CutStore(st, gone)
  <2> HIDE DEF popped, gone
  <2>1. trimmed = [entries |-> Without(st, gone),
                   expirations |-> st.expirations \ {<<st.entries[t].expires, st.entries[t].generation, t>> : t \in gone},
                   order |-> st.order \ popped, next |-> st.next]
    BY <1>5 DEF StoreFine
  <2> QED
    BY <1>4, <2>1 DEF CutStore
<1>8. CASE excess <= 0
  <2>1. Cardinality(DOMAIN st.entries) <= OtMaxEntries
    BY <1>1, <1>8
  <2>2. DOMAIN trimmed.entries \subseteq DOMAIN st.entries
    BY <1>4, <1>7, CutFine
  <2>3. Cardinality(DOMAIN trimmed.entries) <= Cardinality(DOMAIN st.entries) /\ Cardinality(DOMAIN trimmed.entries) \in Nat
    BY <1>1, <2>2, FS_Subset, FS_CardinalityType
  <2>4. Cardinality(DOMAIN trimmed.entries) <= OtMaxEntries
    BY <1>1, <2>1, <2>3
  <2> HIDE DEF popped, gone
  <2> QED
    BY <1>4, <1>6, <1>7, <2>4, CutFine
<1>9. CASE excess > 0
  <2>1. excess = 1 /\ DOMAIN st.entries # {}
    <3>1. Cardinality({}) = 0
      BY FS_EmptySet
    <3>2. excess = 1
      BY <1>1, <1>9
    <3>3. Cardinality(DOMAIN st.entries) # 0
      BY <1>1, <1>9
    <3> QED
      BY <3>1, <3>2, <3>3
  <2> DEFINE gens == {st.entries[t].generation : t \in DOMAIN st.entries}
  <2>2. gens \subseteq Nat /\ gens # {}
    BY <2>1 DEF StoreFine, OtRecords
  <2>3. PICK g \in gens : \A h \in gens : g <= h
    <3> HIDE DEF gens
    <3> QED
      BY <2>2, Least
  <2>4. PICK t \in DOMAIN st.entries : g = st.entries[t].generation
    BY <2>3
  <2>5. <<g, t>> \in st.order /\ \A h \in st.order : h[1] \in gens
    BY <2>4 DEF StoreFine, ByGeneration
  <2>6. {h \in held : h[1] < g} = {}
    <3>1. ASSUME NEW h \in st.order, h[1] < g
          PROVE  FALSE
      <4>1. h[1] \in Nat /\ g \in Nat /\ g <= h[1]
        BY <2>2, <2>3, <2>5
      <4> QED
        BY <3>1, <4>1
    <3> QED
      BY <1>2, <3>1
  <2>7. PICK o \in st.order : o[1] = g /\ o[2] = t
    BY <2>5
  <2>8. o \in popped
    <3>1. Cardinality({h \in held : h[1] < o[1]}) = 0
      BY <2>6, <2>7, FS_EmptySet
    <3> HIDE DEF held, excess
    <3> QED
      BY <2>1, <3>1
  <2>9. t \in gone
    <3> HIDE DEF popped, held
    <3> QED
      BY <1>3, <2>7, <2>8
  <2> HIDE DEF gone
  <2>10. DOMAIN trimmed.entries \subseteq DOMAIN st.entries \ {t}
    BY <1>4, <1>7, <2>9, CutFine
  <2>11. IsFiniteSet(DOMAIN st.entries \ {t}) /\ Cardinality(DOMAIN st.entries \ {t}) = Cardinality(DOMAIN st.entries) - 1
    BY <1>1, FS_RemoveElement
  <2>12. /\ Cardinality(DOMAIN trimmed.entries) <= Cardinality(DOMAIN st.entries \ {t})
         /\ Cardinality(DOMAIN trimmed.entries) \in Nat
    BY <2>10, <2>11, FS_Subset, FS_CardinalityType
  <2>13. Cardinality(DOMAIN trimmed.entries) <= OtMaxEntries
    BY <1>1, <2>1, <2>11, <2>12
  <2> QED
    BY <1>4, <1>6, <1>7, <2>13, CutFine
<1> QED
  BY <1>1, <1>8, <1>9

(* The store with a record that is new to it. *)
Entered(st, token, record) ==
  [entries     |-> [t \in DOMAIN st.entries \cup {token} |->
                      IF t = token THEN [record EXCEPT !.generation = st.next] ELSE st.entries[t]],
   expirations |-> st.expirations \cup {<<record.expires, st.next, token>>},
   order       |-> st.order \cup {<<st.next, token>>},
   next        |-> st.next + 1]

(* A token entered under a new generation gets one entry in each index. *)
LEMMA EnteredFine ==
  ASSUME NEW st, StoreFine(st), NEW token, token \notin DOMAIN st.entries, NEW record \in OtRecords
  PROVE  /\ StoreFine(Entered(st, token, record))
         /\ Entered(st, token, record).next = st.next + 1
         /\ DOMAIN Entered(st, token, record).entries = DOMAIN st.entries \cup {token}
         /\ \A t \in DOMAIN st.entries : Entered(st, token, record).entries[t] = st.entries[t]
         /\ Entered(st, token, record).entries[token].payload = record.payload
         /\ Entered(st, token, record).entries[token].expires = record.expires
         /\ Entered(st, token, record).entries[token].binding = record.binding
         /\ Cardinality(DOMAIN Entered(st, token, record).entries) = Cardinality(DOMAIN st.entries) + 1
<1>1. PICK more : more = Entered(st, token, record)
  OBVIOUS
<1>2. PICK stamped : stamped = [record EXCEPT !.generation = st.next]
  OBVIOUS
<1>3. st.next \in Nat /\ st.next + 1 \in Nat /\ IsFiniteSet(DOMAIN st.entries)
  BY DEF StoreFine
<1>4. stamped = [binding |-> record.binding, expires |-> record.expires, generation |-> st.next, payload |-> record.payload]
  BY <1>2 DEF OtRecords
<1>5. stamped \in OtRecords
  BY <1>3, <1>4 DEF OtRecords
<1>6. /\ more.next = st.next + 1
      /\ more.expirations = st.expirations \cup {<<record.expires, st.next, token>>}
      /\ more.order = st.order \cup {<<st.next, token>>}
      /\ more = [entries |-> more.entries, expirations |-> more.expirations, order |-> more.order, next |-> more.next]
      /\ more.entries = [t \in DOMAIN st.entries \cup {token} |-> IF t = token THEN stamped ELSE st.entries[t]]
  BY <1>1, <1>2 DEF Entered
<1>7. /\ DOMAIN more.entries = DOMAIN st.entries \cup {token} /\ more.entries[token] = stamped
      /\ \A t \in DOMAIN st.entries : more.entries[t] = st.entries[t]
  BY <1>6
<1>8. IsFiniteSet(DOMAIN more.entries) /\ Cardinality(DOMAIN more.entries) = Cardinality(DOMAIN st.entries) + 1
  BY <1>3, <1>7, FS_AddElement
<1>9. ASSUME NEW t \in DOMAIN more.entries
      PROVE  more.entries[t] \in OtRecords /\ more.entries[t].generation < more.next
  <2>1. CASE t = token
    <3>1. stamped.generation = st.next /\ st.next < st.next + 1
      BY <1>3, <1>4
    <3> QED
      BY <1>5, <1>6, <1>7, <2>1, <3>1
  <2>2. CASE t # token
    <3>1. /\ st.entries[t] \in OtRecords /\ st.entries[t].generation \in Nat
          /\ st.entries[t].generation < st.next
      BY <1>7, <2>2 DEF StoreFine, OtRecords
    <3>2. st.entries[t].generation < st.next + 1
      BY <1>3, <3>1
    <3> QED
      BY <1>6, <1>7, <2>2, <3>1, <3>2
  <2> QED
    BY <2>1, <2>2
<1>10. ASSUME NEW t \in DOMAIN more.entries, NEW u \in DOMAIN more.entries,
              more.entries[t].generation = more.entries[u].generation
       PROVE  t = u
  <2>1. stamped.generation = st.next
    BY <1>4
  <2>2. \A v \in DOMAIN st.entries : st.entries[v].generation # st.next
    BY <1>3 DEF StoreFine, OtRecords
  <2> QED
    BY <1>7, <1>10, <2>1, <2>2 DEF StoreFine
<1>11. more.expirations = ByExpiry(more.entries)
  <2>1. st.expirations = {<<st.entries[t].expires, st.entries[t].generation, t>> : t \in DOMAIN st.entries}
    BY DEF StoreFine, ByExpiry
  <2>2. stamped.expires = record.expires /\ stamped.generation = st.next
    BY <1>4
  <2> QED
    BY <1>6, <1>7, <2>1, <2>2 DEF ByExpiry
<1>12. more.order = ByGeneration(more.entries)
  <2>1. st.order = {<<st.entries[t].generation, t>> : t \in DOMAIN st.entries}
    BY DEF StoreFine, ByGeneration
  <2>2. stamped.generation = st.next
    BY <1>4
  <2>3. ASSUME NEW o \in more.order
        PROVE  o \in ByGeneration(more.entries)
    BY <1>6, <1>7, <2>1, <2>2 DEF ByGeneration
  <2>4. ASSUME NEW o \in ByGeneration(more.entries)
        PROVE  o \in more.order
    BY <1>6, <1>7, <2>1, <2>2 DEF ByGeneration
  <2> QED
    BY <2>3, <2>4
<1>13. StoreFine(more)
  BY <1>3, <1>6, <1>8, <1>9, <1>10, <1>11, <1>12 DEF StoreFine
<1>14. stamped.payload = record.payload /\ stamped.expires = record.expires /\ stamped.binding = record.binding
  BY <1>4
<1> QED
  BY <1>1, <1>6, <1>7, <1>8, <1>13, <1>14

-----------------------------------------------------------------------------
(* Whoever holds a payload: the map or a caller. *)
Holders(st, reserved) == {[token |-> t, record |-> st.entries[t]] : t \in DOMAIN st.entries} \cup reserved

(* A payload has one holder, as its creator made it, and no number was     *)
(* given twice.                                                            *)
PayloadsFine(st, reserved, spent) ==
  /\ Holders(st, {}) \cap reserved = {}
  /\ \A r \in reserved : r.record \in OtRecords
  /\ \A p \in spent : p.number \in Nat /\ p.number < st.next
  /\ \A a \in Holders(st, reserved) :
       /\ a.record.payload.number < st.next /\ a.record.payload \notin spent
       /\ a.record.expires = a.record.payload.deadline /\ a.record.binding = a.record.payload.binding
  /\ \A a, b \in Holders(st, reserved) : a.record.payload.number = b.record.payload.number => a = b

(* The inductive invariant. *)
OtInv ==
  /\ otClock \in Nat
  /\ StoreFine(otState) /\ Cardinality(DOMAIN otState.entries) <= OtMaxEntries
  /\ PayloadsFine(otState, otReserved, otSpent)

(* A smaller store holds fewer payloads. *)
LEMMA LesserHolders ==
  ASSUME NEW st, NEW less, Lesser(less, st), NEW reserved
  PROVE  Holders(less, reserved) \subseteq Holders(st, reserved) /\ Holders(less, {}) \subseteq Holders(st, {})
BY DEF Lesser, Holders

(* What fewer holders hold. *)
LEMMA FewerHolders ==
  ASSUME NEW st, NEW less, NEW reserved, NEW fewer, NEW spent, PayloadsFine(st, reserved, spent),
         less.next = st.next, Holders(less, fewer) \subseteq Holders(st, reserved),
         Holders(less, {}) \cap fewer = {}, \A r \in fewer : r.record \in OtRecords
  PROVE  PayloadsFine(less, fewer, spent)
BY DEF PayloadsFine

(* A smaller store keeps what is known of the payloads. *)
LEMMA LesserPayloads ==
  ASSUME NEW st, NEW less, Lesser(less, st), NEW reserved, NEW spent, PayloadsFine(st, reserved, spent)
  PROVE  PayloadsFine(less, reserved, spent)
<1>1. /\ Holders(less, reserved) \subseteq Holders(st, reserved) /\ less.next = st.next
      /\ Holders(less, {}) \subseteq Holders(st, {})
  BY LesserHolders DEF Lesser
<1>2. (\A r \in reserved : r.record \in OtRecords) /\ Holders(st, {}) \cap reserved = {}
  BY DEF PayloadsFine
<1> QED
  BY <1>1, <1>2, FewerHolders

(* And stays within the capacity. *)
LEMMA LesserCount ==
  ASSUME NEW st, NEW less, Lesser(less, st), StoreFine(st), Cardinality(DOMAIN st.entries) <= OtMaxEntries
  PROVE  Cardinality(DOMAIN less.entries) <= OtMaxEntries
<1>1. /\ Cardinality(DOMAIN less.entries) <= Cardinality(DOMAIN st.entries)
      /\ Cardinality(DOMAIN less.entries) \in Nat /\ Cardinality(DOMAIN st.entries) \in Nat
  BY FS_Subset, FS_CardinalityType DEF Lesser, StoreFine
<1> QED
  BY <1>1, OtAssumption

(* Insert, index and trim. *)
LEMMA StoredFine ==
  ASSUME NEW st, StoreFine(st), Cardinality(DOMAIN st.entries) <= OtMaxEntries,
         NEW token, token \notin DOMAIN st.entries, NEW record \in OtRecords,
         NEW reserved, NEW spent, PayloadsFine(st, reserved, spent),
         record.payload.number <= st.next, record.payload \notin spent,
         record.expires = record.payload.deadline, record.binding = record.payload.binding,
         \A a \in Holders(st, reserved) : a.record.payload.number # record.payload.number
  PROVE  /\ StoreFine(Stored(st, token, record, st.next))
         /\ Cardinality(DOMAIN Stored(st, token, record, st.next).entries) <= OtMaxEntries
         /\ PayloadsFine(Stored(st, token, record, st.next), reserved, spent)
<1>1. PICK more : more = Entered(st, token, record)
  OBVIOUS
<1>2. Stored(st, token, record, st.next) = TrimToCapacity(more)
  BY <1>1 DEF Stored, Entered
<1>3. /\ StoreFine(more) /\ more.next = st.next + 1
      /\ DOMAIN more.entries = DOMAIN st.entries \cup {token}
      /\ \A t \in DOMAIN st.entries : more.entries[t] = st.entries[t]
      /\ more.entries[token].payload = record.payload
      /\ more.entries[token].expires = record.expires
      /\ more.entries[token].binding = record.binding
      /\ Cardinality(DOMAIN more.entries) = Cardinality(DOMAIN st.entries) + 1
  BY <1>1, EnteredFine
<1>4. Cardinality(DOMAIN more.entries) <= OtMaxEntries + 1
  <2>1. Cardinality(DOMAIN st.entries) \in Nat
    BY FS_CardinalityType DEF StoreFine
  <2> QED
    BY <1>3, <2>1, OtAssumption
<1>5. PICK new : new = [token |-> token, record |-> more.entries[token]]
  OBVIOUS
<1>6. Holders(more, reserved) = Holders(st, reserved) \cup {new}
  <2>1. ASSUME NEW a \in Holders(more, reserved)
        PROVE  a \in Holders(st, reserved) \cup {new}
    BY <1>3, <1>5 DEF Holders
  <2>2. ASSUME NEW a \in Holders(st, reserved)
        PROVE  a \in Holders(more, reserved)
    BY <1>3 DEF Holders
  <2>3. new \in Holders(more, reserved)
    BY <1>3, <1>5 DEF Holders
  <2> QED
    BY <2>1, <2>2, <2>3
<1>7. /\ new.record.payload = record.payload /\ new.record.expires = record.expires
      /\ new.record.binding = record.binding
  BY <1>3, <1>5
<1>8. st.next \in Nat /\ record.payload.number \in Nat
  BY DEF StoreFine, OtRecords, OtPayloads
<1>9. \A a \in Holders(st, reserved) : a.record.payload.number \in Nat
  BY DEF Holders, PayloadsFine, StoreFine, OtRecords, OtPayloads
<1>10. PayloadsFine(more, reserved, spent)
  <2>1. \A p \in spent : p.number \in Nat /\ p.number < more.next
    BY <1>3, <1>8 DEF PayloadsFine
  <2>2. ASSUME NEW a \in Holders(more, reserved)
        PROVE  /\ a.record.payload.number < more.next /\ a.record.payload \notin spent
               /\ a.record.expires = a.record.payload.deadline /\ a.record.binding = a.record.payload.binding
    <3>1. CASE a = new
      <4>1. record.payload.number < st.next + 1
        BY <1>8
      <4> QED
        BY <1>3, <1>7, <3>1, <4>1
    <3>2. CASE a \in Holders(st, reserved)
      <4>1. /\ a.record.payload.number < st.next /\ a.record.payload \notin spent
            /\ a.record.expires = a.record.payload.deadline /\ a.record.binding = a.record.payload.binding
        BY <3>2 DEF PayloadsFine
      <4>2. a.record.payload.number < st.next + 1
        BY <1>8, <1>9, <3>2, <4>1
      <4> QED
        BY <1>3, <4>1, <4>2
    <3> QED
      BY <1>6, <3>1, <3>2
  <2>3. \A a, b \in Holders(more, reserved) : a.record.payload.number = b.record.payload.number => a = b
    BY <1>6, <1>7 DEF PayloadsFine
  <2>4. Holders(more, {}) \cap reserved = {}
    <3>1. Holders(more, {}) \subseteq Holders(st, {}) \cup {new}
      BY <1>3, <1>5 DEF Holders
    <3>2. new \notin reserved
      BY <1>7 DEF Holders
    <3> QED
      BY <3>1, <3>2 DEF PayloadsFine
  <2> QED
    BY <2>1, <2>2, <2>3, <2>4 DEF PayloadsFine
<1> QED
  BY <1>2, <1>3, <1>4, <1>10, TrimFine, LesserPayloads

(* The payload of a reservation has no other holder. *)
OnlyHolder(st, reserved, spent, r) ==
  /\ PayloadsFine(st, reserved \ {r}, spent) /\ r.record \in OtRecords
  /\ r.record.payload.number < st.next /\ r.record.payload \notin spent
  /\ r.record.expires = r.record.payload.deadline /\ r.record.binding = r.record.payload.binding
  /\ \A a \in Holders(st, reserved \ {r}) : a.record.payload.number # r.record.payload.number

(* A reservation that is used up. *)
LEMMA Released ==
  ASSUME NEW st, NEW reserved, NEW spent, PayloadsFine(st, reserved, spent), NEW r \in reserved
  PROVE  OnlyHolder(st, reserved, spent, r)
<1>1. Holders(st, reserved \ {r}) \subseteq Holders(st, reserved) /\ r \in Holders(st, reserved)
  BY DEF Holders
<1>2. (\A q \in reserved \ {r} : q.record \in OtRecords) /\ Holders(st, {}) \cap (reserved \ {r}) = {}
  BY DEF PayloadsFine
<1>3. PayloadsFine(st, reserved \ {r}, spent)
  BY <1>1, <1>2, FewerHolders
<1>4. ASSUME NEW a \in Holders(st, reserved \ {r}), a.record.payload.number = r.record.payload.number
      PROVE  FALSE
  <2>1. a = r
    BY <1>1, <1>4 DEF PayloadsFine
  <2>2. a \in Holders(st, {})
    BY <2>1, <1>4 DEF Holders
  <2> QED
    BY <2>1, <2>2 DEF PayloadsFine
<1>5. /\ r.record \in OtRecords
      /\ r.record.payload.number < st.next /\ r.record.payload \notin spent
      /\ r.record.expires = r.record.payload.deadline /\ r.record.binding = r.record.payload.binding
  BY <1>1 DEF PayloadsFine
<1> QED
  BY <1>3, <1>4, <1>5 DEF OnlyHolder

(* into_payload, a dropped reservation, or a restore that is refused. *)
LEMMA SpentFine ==
  ASSUME NEW st, NEW reserved, NEW spent, PayloadsFine(st, reserved, spent), NEW r \in reserved
  PROVE  PayloadsFine(st, reserved \ {r}, spent \cup {r.record.payload})
<1>1. /\ PayloadsFine(st, reserved \ {r}, spent) /\ r.record \in OtRecords
      /\ r.record.payload.number < st.next
      /\ \A a \in Holders(st, reserved \ {r}) : a.record.payload.number # r.record.payload.number
  <2>1. OnlyHolder(st, reserved, spent, r)
    BY Released
  <2> QED
    BY <2>1 DEF OnlyHolder
<1>2. r.record.payload.number \in Nat
  BY <1>1 DEF OtRecords, OtPayloads
<1>3. \A a \in Holders(st, reserved \ {r}) : a.record.payload # r.record.payload
  BY <1>1
<1> QED
  BY <1>1, <1>2, <1>3 DEF PayloadsFine

(* The store starts in the invariant. *)
LEMMA OtInitFine == OtInit => OtInv
<1> SUFFICES ASSUME OtInit
             PROVE  OtInv
  OBVIOUS
<1>1. /\ otState = [entries |-> <<>>, expirations |-> {}, order |-> {}, next |-> 1]
      /\ otClock = 0 /\ otReserved = {} /\ otSpent = {}
  BY DEF OtInit
<1>2. DOMAIN otState.entries = {} /\ otState.expirations = {} /\ otState.order = {} /\ otState.next = 1
  BY <1>1
<1>3. IsFiniteSet({}) /\ Cardinality({}) = 0
  BY FS_EmptySet
<1>4. otState = [entries |-> otState.entries, expirations |-> otState.expirations, order |-> otState.order, next |-> otState.next]
  BY <1>1
<1>5. StoreFine(otState)
  <2>1. ByExpiry(otState.entries) = {} /\ ByGeneration(otState.entries) = {}
    BY <1>2 DEF ByExpiry, ByGeneration
  <2> QED
    BY <1>2, <1>3, <1>4, <2>1 DEF StoreFine
<1>6. Holders(otState, {}) = {}
  BY <1>2 DEF Holders
<1>7. PayloadsFine(otState, otReserved, otSpent)
  BY <1>1, <1>6 DEF PayloadsFine
<1> QED
  BY <1>1, <1>2, <1>3, <1>5, <1>7, OtAssumption DEF OtInv

(* The store after the sweep every method begins with. *)
LEMMA SweptFine ==
  ASSUME OtInv
  PROVE  /\ StoreFine(OtSwept) /\ Cardinality(DOMAIN OtSwept.entries) <= OtMaxEntries
         /\ PayloadsFine(OtSwept, otReserved, otSpent)
         /\ OtLater \subseteq Nat
<1>1. StoreFine(OtSwept) /\ Lesser(OtSwept, otState)
  BY SweepFine DEF OtInv, OtSwept
<1>2. OtLater \subseteq Nat
  BY DEF OtInv, OtLater
<1> QED
  BY <1>1, <1>2, LesserPayloads, LesserCount DEF OtInv

(* Every step keeps the invariant. *)
LEMMA OtStepFine == OtInv /\ [OtNext]_otVars => OtInv'
<1> SUFFICES ASSUME OtInv, [OtNext]_otVars
             PROVE  OtInv'
  OBVIOUS
<1>1. ASSUME otClock' \in Nat, StoreFine(otState'), Cardinality(DOMAIN otState'.entries) <= OtMaxEntries,
             PayloadsFine(otState', otReserved', otSpent')
      PROVE  OtInv'
  BY <1>1 DEF OtInv, StoreFine, PayloadsFine, Holders, ByExpiry, ByGeneration
<1>2. ASSUME NEW token \in OtTokens, NEW binding \in OtBindings, CreateToken(token, binding)
      PROVE  OtInv'
  <2> DEFINE record(now) == [binding |-> binding, expires |-> now + OtTtl, generation |-> 0,
                             payload |-> [number |-> OtSwept.next, binding |-> binding, deadline |-> now + OtTtl]]
  <2>1. PICK now \in OtLater : otClock' = now /\ otState' = Stored(OtSwept, token, record(now), OtSwept.next)
    BY <1>2 DEF CreateToken
  <2>2. token \notin DOMAIN OtSwept.entries /\ otReserved' = otReserved /\ otSpent' = otSpent
    BY <1>2 DEF CreateToken
  <2>3. now \in Nat /\ now + OtTtl \in Nat /\ OtSwept.next \in Nat /\ 0 \in Nat
    BY SweptFine, OtAssumption DEF StoreFine
  <2>4. PICK made : made = record(now)
    OBVIOUS
  <2>5. /\ made.payload = [number |-> OtSwept.next, binding |-> binding, deadline |-> now + OtTtl]
        /\ made.expires = now + OtTtl /\ made.binding = binding
        /\ made = [binding |-> binding, expires |-> now + OtTtl, generation |-> 0, payload |-> made.payload]
    BY <2>4
  <2>6. made.payload \in OtPayloads
    BY <2>3, <2>5 DEF OtPayloads
  <2>7. made \in OtRecords
    BY <2>3, <2>5, <2>6 DEF OtRecords
  <2>8. made.payload.number = OtSwept.next /\ made.payload.deadline = made.expires /\ made.payload.binding = made.binding
    BY <2>5
  <2>9. \A a \in Holders(OtSwept, otReserved) : a.record.payload.number # made.payload.number
    <3>1. ASSUME NEW a \in Holders(OtSwept, otReserved)
          PROVE  a.record.payload.number # OtSwept.next
      <4>1. a.record.payload.number < OtSwept.next
        BY SweptFine DEF PayloadsFine
      <4>2. a.record.payload.number \in Nat
        BY SweptFine DEF Holders, PayloadsFine, StoreFine, OtRecords, OtPayloads
      <4> QED
        BY <2>3, <4>1, <4>2
    <3> QED
      BY <2>8, <3>1
  <2>10. made.payload \notin otSpent
    <3>1. \A p \in otSpent : p.number \in Nat /\ p.number < OtSwept.next
      BY SweptFine DEF PayloadsFine
    <3> QED
      BY <2>3, <2>8, <3>1
  <2>11. made.payload.number <= OtSwept.next
    BY <2>3, <2>8
  <2> HIDE DEF record
  <2>12. /\ StoreFine(Stored(OtSwept, token, made, OtSwept.next))
         /\ Cardinality(DOMAIN Stored(OtSwept, token, made, OtSwept.next).entries) <= OtMaxEntries
         /\ PayloadsFine(Stored(OtSwept, token, made, OtSwept.next), otReserved, otSpent)
    BY <2>2, <2>7, <2>8, <2>9, <2>10, <2>11, SweptFine, StoredFine
  <2> QED
    BY <1>1, <2>1, <2>2, <2>3, <2>4, <2>12
<1>3. ASSUME NEW token \in OtTokens, NEW binding \in OtBindings, NEW consume \in BOOLEAN, UseToken(token, binding, consume)
      PROVE  OtInv'
  <2>1. PICK now \in OtLater :
          LET st == RemoveTargetIfExpired(OtSwept, token, now)
              ok == consume /\ token \in DOMAIN st.entries /\ st.entries[token].binding = binding
          IN  /\ otClock' = now
              /\ otState' = IF ok THEN Removed(st, token) ELSE st
              /\ otReserved' = IF ok THEN otReserved \cup {[token |-> token, record |-> st.entries[token]]} ELSE otReserved
    BY <1>3 DEF UseToken
  <2>2. otSpent' = otSpent /\ now \in Nat
    BY <1>3, SweptFine DEF UseToken
  <2>3. PICK st : st = RemoveTargetIfExpired(OtSwept, token, now)
    OBVIOUS
  <2>4. \/ otState' = st /\ otReserved' = otReserved
        \/ /\ token \in DOMAIN st.entries /\ otState' = Removed(st, token)
           /\ otReserved' = otReserved \cup {[token |-> token, record |-> st.entries[token]]}
    BY <2>1, <2>3
  <2>5. /\ StoreFine(st) /\ Cardinality(DOMAIN st.entries) <= OtMaxEntries
        /\ PayloadsFine(st, otReserved, otSpent)
    <3>1. CASE ~ExpiredIn(OtSwept, token, now)
      BY <2>3, <3>1, SweptFine DEF RemoveTargetIfExpired
    <3>2. CASE ExpiredIn(OtSwept, token, now)
      <4>1. st = Removed(OtSwept, token) /\ token \in DOMAIN OtSwept.entries
        BY <2>3, <3>2 DEF RemoveTargetIfExpired, ExpiredIn
      <4> QED
        BY <4>1, SweptFine, RemovedFine, LesserPayloads, LesserCount
    <3> QED
      BY <3>1, <3>2
  <2>6. CASE otState' = st /\ otReserved' = otReserved
    BY <1>1, <2>1, <2>2, <2>5, <2>6
  <2>7. CASE /\ token \in DOMAIN st.entries /\ otState' = Removed(st, token)
             /\ otReserved' = otReserved \cup {[token |-> token, record |-> st.entries[token]]}
    <3>1. PICK less : less = Removed(st, token)
      OBVIOUS
    <3>2. StoreFine(less) /\ Lesser(less, st) /\ token \notin DOMAIN less.entries
      BY <2>5, <2>7, <3>1, RemovedFine
    <3>3. PICK taken : taken = [token |-> token, record |-> st.entries[token]]
      OBVIOUS
    <3>4. taken.token = token /\ taken.record \in OtRecords /\ taken \in Holders(st, otReserved)
      BY <2>5, <2>7, <3>3 DEF StoreFine, Holders
    <3>5. Holders(less, otReserved \cup {taken}) \subseteq Holders(st, otReserved)
      <4>1. Holders(less, otReserved) \subseteq Holders(st, otReserved)
        BY <3>2, LesserHolders
      <4> QED
        BY <3>4, <4>1 DEF Holders
    <3>6. Holders(less, {}) \cap (otReserved \cup {taken}) = {}
      <4>1. Holders(less, {}) \cap otReserved = {}
        BY <2>5, <3>2, LesserHolders DEF PayloadsFine
      <4>2. taken \notin Holders(less, {})
        BY <3>2, <3>4 DEF Holders
      <4> QED
        BY <4>1, <4>2
    <3>7. \A r \in otReserved \cup {taken} : r.record \in OtRecords
      BY <2>5, <3>4 DEF PayloadsFine
    <3>8. PayloadsFine(less, otReserved \cup {taken}, otSpent)
      BY <2>5, <3>2, <3>5, <3>6, <3>7, FewerHolders DEF Lesser
    <3>9. Cardinality(DOMAIN less.entries) <= OtMaxEntries
      BY <2>5, <3>2, LesserCount
    <3>10. otClock' \in Nat
      BY <2>1, <2>2
    <3> QED
      BY <1>1, <2>2, <2>7, <3>1, <3>2, <3>3, <3>8, <3>9, <3>10
  <2> QED
    BY <2>4, <2>6, <2>7
<1>4. ASSUME NEW r \in otReserved, RestoreToken(r)
      PROVE  OtInv'
  <2>1. PICK now \in OtLater :
          /\ otClock' = now
          /\ IF r.record.expires > now /\ r.token \notin DOMAIN OtSwept.entries /\ OtHasGeneration
               THEN otState' = Stored(OtSwept, r.token, r.record, OtSwept.next) /\ UNCHANGED otSpent
               ELSE otState' = OtSwept /\ otSpent' = otSpent \cup {r.record.payload}
    BY <1>4 DEF RestoreToken
  <2>2. otReserved' = otReserved \ {r} /\ now \in Nat
    BY <1>4, SweptFine DEF RestoreToken
  <2>3. CASE /\ r.token \notin DOMAIN OtSwept.entries /\ otSpent' = otSpent
             /\ otState' = Stored(OtSwept, r.token, r.record, OtSwept.next)
    <3>1. /\ PayloadsFine(OtSwept, otReserved \ {r}, otSpent) /\ r.record \in OtRecords
          /\ r.record.payload.number < OtSwept.next /\ r.record.payload \notin otSpent
          /\ r.record.expires = r.record.payload.deadline /\ r.record.binding = r.record.payload.binding
          /\ \A a \in Holders(OtSwept, otReserved \ {r}) : a.record.payload.number # r.record.payload.number
      <4>1. PayloadsFine(OtSwept, otReserved, otSpent)
        BY SweptFine
      <4>2. OnlyHolder(OtSwept, otReserved, otSpent, r)
        BY <4>1, Released
      <4> QED
        BY <4>2 DEF OnlyHolder
    <3>2. r.record.payload.number <= OtSwept.next
      BY <3>1, SweptFine DEF StoreFine, OtRecords, OtPayloads
    <3>3. /\ StoreFine(Stored(OtSwept, r.token, r.record, OtSwept.next))
          /\ Cardinality(DOMAIN Stored(OtSwept, r.token, r.record, OtSwept.next).entries) <= OtMaxEntries
          /\ PayloadsFine(Stored(OtSwept, r.token, r.record, OtSwept.next), otReserved \ {r}, otSpent)
      BY <2>3, <3>1, <3>2, SweptFine, StoredFine
    <3> QED
      BY <1>1, <2>1, <2>2, <2>3, <3>3
  <2>4. CASE otState' = OtSwept /\ otSpent' = otSpent \cup {r.record.payload}
    <3>1. PayloadsFine(OtSwept, otReserved \ {r}, otSpent \cup {r.record.payload})
      BY SweptFine, SpentFine
    <3> QED
      BY <1>1, <2>1, <2>2, <2>4, <3>1, SweptFine
  <2> QED
    BY <2>1, <2>3, <2>4
<1>5. ASSUME NEW r \in otReserved, SpendToken(r)
      PROVE  OtInv'
  <2>1. /\ otReserved' = otReserved \ {r} /\ otSpent' = otSpent \cup {r.record.payload}
        /\ otClock' = otClock /\ otState' = otState
    BY <1>5 DEF SpendToken
  <2>2. PayloadsFine(otState, otReserved \ {r}, otSpent \cup {r.record.payload})
    BY SpentFine DEF OtInv
  <2> QED
    BY <1>1, <2>1, <2>2 DEF OtInv
<1>6. CASE SweepOnly
  <2>1. otState' = OtSwept /\ otClock' = otClock /\ otReserved' = otReserved /\ otSpent' = otSpent
    BY <1>6 DEF SweepOnly
  <2>2. otClock \in Nat
    BY DEF OtInv
  <2> QED
    BY <1>1, <2>1, <2>2, SweptFine
<1>7. CASE OtTick \/ UNCHANGED otVars
  <2>1. otClock' \in Nat /\ otState' = otState /\ otReserved' = otReserved /\ otSpent' = otSpent
    BY <1>7 DEF OtInv, OtTick, otVars
  <2> QED
    BY <1>1, <2>1 DEF OtInv
<1> QED
  BY <1>2, <1>3, <1>4, <1>5, <1>6, <1>7 DEF OtNext

(* After every mix of expiry, eviction, consumption and restore, the map   *)
(* and its two indexes name the same records within capacity, and a        *)
(* payload is in one place, unspent and as it was created: for every       *)
(* capacity, lifetime and number of tokens.                                *)
THEOREM TokenCoherence == OtSpec => []OpaqueTokensCoherent
<1>1. OtInit => OtInv
  BY OtInitFine
<1>2. OtInv /\ [OtNext]_otVars => OtInv'
  BY OtStepFine
<1>3. OtInv => OpaqueTokensCoherent
  <2> SUFFICES ASSUME OtInv
               PROVE  OpaqueTokensCoherent
    OBVIOUS
  <2>1. StoreFine(otState) /\ PayloadsFine(otState, otReserved, otSpent)
    BY DEF OtInv
  <2>2. /\ otState.expirations = {<<otState.entries[t].expires, otState.entries[t].generation, t>> : t \in DOMAIN otState.entries}
        /\ otState.order = {<<otState.entries[t].generation, t>> : t \in DOMAIN otState.entries}
    BY <2>1 DEF StoreFine, ByExpiry, ByGeneration
  <2> DEFINE stored == {[token |-> t, record |-> otState.entries[t]] : t \in DOMAIN otState.entries}
  <2>3. stored \cap otReserved = {}
    BY <2>1 DEF PayloadsFine, Holders
  <2>4. /\ \A a, b \in stored \cup otReserved : a.record.payload.number = b.record.payload.number => a = b
        /\ \A a \in stored \cup otReserved :
             /\ a.record.payload \notin otSpent
             /\ a.record.expires = a.record.payload.deadline /\ a.record.binding = a.record.payload.binding
    BY <2>1 DEF PayloadsFine, Holders
  <2> QED
    BY <2>2, <2>3, <2>4 DEF OpaqueTokensCoherent, OtInv
<1> QED
  BY <1>1, <1>2, <1>3, PTL DEF OtSpec

-----------------------------------------------------------------------------
(* ObserverQueue *)

ObTypes ==
  /\ obOwner \in [ObTasks -> ObPrincipals]
  /\ obBound \subseteq ObTasks /\ obFresh \subseteq ObTasks /\ obBound \cap obFresh = {} /\ obDue \subseteq obBound
  /\ obSelected \in ObTasks \cup {NoTaskId}

(* Queues and buckets hold what they are for, and no id before it is bound. *)
QueueTypes ==
  /\ obPrincipals \in Seq(ObPrincipals) /\ DOMAIN obBuckets \subseteq ObPrincipals
  /\ \A p \in DOMAIN obBuckets : obBuckets[p] \in Seq(ObTasks) /\ ToSet(obBuckets[p]) \cap obFresh = {}

(* The inductive invariant. *)
ObInv == ObTypes /\ QueueTypes /\ ObserverSeesEveryTask

(* What the invariant says of one principal's bucket, entered or not. *)
LEMMA BucketIs ==
  ASSUME ObInv, NEW p \in ObPrincipals
  PROVE  /\ Bucket(p) \in Seq(ObTasks) /\ IsInjective(Bucket(p)) /\ ToSet(Bucket(p)) \cap obFresh = {}
         /\ \A t \in ToSet(Bucket(p)) : obOwner[t] = p
         /\ p \in ToSet(obPrincipals) <=> Bucket(p) # <<>>
         /\ obPrincipals \in Seq(ObPrincipals) /\ IsInjective(obPrincipals)
<1>1. CASE p \in DOMAIN obBuckets
  <2>1. Bucket(p) = obBuckets[p]
    BY <1>1 DEF Bucket
  <2> QED
    BY <1>1, <2>1 DEF ObInv, QueueTypes, ObserverSeesEveryTask
<1>2. CASE p \notin DOMAIN obBuckets
  <2>1. Bucket(p) = <<>>
    BY <1>2 DEF Bucket
  <2>2. ToSet(<<>>) = {} /\ IsInjective(<<>>) /\ <<>> \in Seq(ObTasks)
    BY DEF ToSet, IsInjective
  <2> QED
    BY <1>2, <2>1, <2>2 DEF ObInv, QueueTypes, ObserverSeesEveryTask
<1> QED
  BY <1>1, <1>2

(* One bucket changes. *)
LEMMA OneBucket ==
  ASSUME ObInv, NEW p \in ObPrincipals, NEW queue \in Seq(ObTasks), IsInjective(queue),
         \A t \in ToSet(queue) : obOwner[t] = p /\ t \notin obFresh',
         obBuckets' = WithBucket(p, queue), obOwner' = obOwner, obFresh' \subseteq obFresh,
         obPrincipals' \in Seq(ObPrincipals), IsInjective(obPrincipals'),
         ToSet(obPrincipals') = (ToSet(obPrincipals) \ {p}) \cup (IF queue = <<>> THEN {} ELSE {p}),
         \A t \in obBound' : IF obOwner[t] = p THEN t \in ToSet(queue) ELSE t \in obBound
  PROVE  QueueTypes' /\ ObserverSeesEveryTask'
<1>1. /\ DOMAIN obBuckets' = DOMAIN obBuckets \cup {p} /\ obBuckets'[p] = queue
      /\ \A q \in DOMAIN obBuckets : q # p => obBuckets'[q] = obBuckets[q]
  BY DEF WithBucket
<1>2. QueueTypes'
  BY <1>1 DEF ObInv, QueueTypes
<1>3. ToSet(obPrincipals') = {q \in DOMAIN obBuckets' : obBuckets'[q] # <<>>}
  <2>1. ToSet(obPrincipals) = {q \in DOMAIN obBuckets : obBuckets[q] # <<>>}
    BY DEF ObInv, ObserverSeesEveryTask
  <2> QED
    BY <1>1, <2>1
<1>4. ASSUME NEW q \in DOMAIN obBuckets'
      PROVE  IsInjective(obBuckets'[q]) /\ \A t \in ToSet(obBuckets'[q]) : obOwner[t] = q
  <2>1. CASE q = p
    BY <1>1, <2>1
  <2>2. CASE q # p
    BY <1>1, <2>2 DEF ObInv, ObserverSeesEveryTask
  <2> QED
    BY <2>1, <2>2
<1>5. ASSUME NEW t \in obBound'
      PROVE  obOwner[t] \in DOMAIN obBuckets' /\ t \in ToSet(obBuckets'[obOwner[t]])
  <2>1. CASE obOwner[t] = p
    BY <1>1, <2>1
  <2>2. CASE obOwner[t] # p
    <3>1. t \in ToSet(Bucket(obOwner[t]))
      BY <2>2 DEF ObInv, ObserverSeesEveryTask
    <3>2. obOwner[t] \in DOMAIN obBuckets
      BY <3>1 DEF Bucket, ToSet
    <3> QED
      BY <1>1, <2>2, <3>1, <3>2 DEF Bucket
  <2> QED
    BY <2>1, <2>2
<1> QED
  BY <1>2, <1>3, <1>4, <1>5 DEF ObserverSeesEveryTask, Bucket

(* To the back of a queue: the same elements, each once. *)
LEMMA BackFine ==
  ASSUME NEW S, NEW queue \in Seq(S), NEW x
  PROVE  /\ ToBack(queue, x) \in Seq(S) /\ ToSet(ToBack(queue, x)) = ToSet(queue)
         /\ IsInjective(queue) => IsInjective(ToBack(queue, x))
<1>1. CASE x \notin ToSet(queue)
  BY <1>1 DEF ToBack
<1>2. CASE x \in ToSet(queue)
  <2>1. x \in S
    BY <1>2 DEF ToSet
  <2>2. PICK rest : rest = Retain(queue, ToSet(queue) \ {x})
    OBVIOUS
  <2>3. rest \in Seq(S) /\ ToSet(rest) = ToSet(queue) \ {x} /\ (IsInjective(queue) => IsInjective(rest))
    BY <2>2, Retained
  <2>4. /\ Append(rest, x) \in Seq(S) /\ ToSet(Append(rest, x)) = ToSet(rest) \cup {x}
        /\ IsInjective(rest) /\ x \notin ToSet(rest) => IsInjective(Append(rest, x))
    BY <2>1, <2>3, Appended
  <2>5. ToBack(queue, x) = Append(rest, x)
    BY <1>2, <2>2 DEF ToBack
  <2> QED
    BY <1>2, <2>3, <2>4, <2>5
<1> QED
  BY <1>1, <1>2

(* The end of a spawn. *)
LEMMA BindFine ==
  ASSUME ObInv, NEW t \in ObTasks, Bind(t)
  PROVE  QueueTypes' /\ ObserverSeesEveryTask'
<1> DEFINE p == obOwner[t]
           queue == Append(Bucket(p), t)
<1>1. /\ t \in obFresh /\ obFresh' = obFresh \ {t} /\ obBound' = obBound \cup {t} /\ obOwner' = obOwner
      /\ obBuckets' = WithBucket(p, queue)
      /\ obPrincipals' = IF Bucket(p) = <<>> THEN Append(obPrincipals, p) ELSE obPrincipals
  BY DEF Bind
<1>2. p \in ObPrincipals
  BY DEF ObInv, ObTypes
<1>3. /\ Bucket(p) \in Seq(ObTasks) /\ IsInjective(Bucket(p)) /\ ToSet(Bucket(p)) \cap obFresh = {}
      /\ \A u \in ToSet(Bucket(p)) : obOwner[u] = p
      /\ p \in ToSet(obPrincipals) <=> Bucket(p) # <<>>
      /\ obPrincipals \in Seq(ObPrincipals) /\ IsInjective(obPrincipals)
  BY <1>2, BucketIs
<1>4. queue \in Seq(ObTasks) /\ ToSet(queue) = ToSet(Bucket(p)) \cup {t} /\ IsInjective(queue)
  BY <1>1, <1>3, Appended
<1>5. queue # <<>>
  BY <1>4, EmptyIs
<1>6. /\ obPrincipals' \in Seq(ObPrincipals) /\ IsInjective(obPrincipals')
      /\ ToSet(obPrincipals') = (ToSet(obPrincipals) \ {p}) \cup {p}
  <2>1. CASE Bucket(p) = <<>>
    BY <1>1, <1>2, <1>3, <2>1, Appended
  <2>2. CASE Bucket(p) # <<>>
    BY <1>1, <1>3, <2>2
  <2> QED
    BY <2>1, <2>2
<1>7. \A u \in obBound' : IF obOwner[u] = p THEN u \in ToSet(queue) ELSE u \in obBound
  BY <1>1, <1>4 DEF ObInv, ObserverSeesEveryTask
<1>8. \A u \in ToSet(queue) : obOwner[u] = p /\ u \notin obFresh'
  BY <1>1, <1>3, <1>4
<1> HIDE DEF queue, p
<1> QED
  BY <1>1, <1>2, <1>4, <1>5, <1>6, <1>7, <1>8, OneBucket

(* The read moves the task and its principal to the back. *)
LEMMA ReadFine ==
  ASSUME ObInv, NEW found \in BOOLEAN, NEW signalled \in BOOLEAN, ReadSelected(found, signalled)
  PROVE  QueueTypes' /\ ObserverSeesEveryTask'
<1> DEFINE p == obOwner[obSelected]
           queue == ToBack(Bucket(p), obSelected)
<1>1. /\ obSelected \in ObTasks /\ obFresh' = obFresh /\ obBound' \subseteq obBound /\ obOwner' = obOwner
      /\ obBuckets' = WithBucket(p, queue)
      /\ obPrincipals' = ToBack(obPrincipals, p)
  BY DEF ReadSelected, Rotate, ObInv, ObTypes
<1>2. p \in ObPrincipals
  BY <1>1 DEF ObInv, ObTypes
<1>3. /\ Bucket(p) \in Seq(ObTasks) /\ IsInjective(Bucket(p)) /\ ToSet(Bucket(p)) \cap obFresh = {}
      /\ \A u \in ToSet(Bucket(p)) : obOwner[u] = p
      /\ p \in ToSet(obPrincipals) <=> Bucket(p) # <<>>
      /\ obPrincipals \in Seq(ObPrincipals) /\ IsInjective(obPrincipals)
  BY <1>2, BucketIs
<1>4. queue \in Seq(ObTasks) /\ ToSet(queue) = ToSet(Bucket(p)) /\ IsInjective(queue)
  BY <1>3, BackFine
<1>5. queue = <<>> <=> Bucket(p) = <<>>
  BY <1>3, <1>4, EmptyIs
<1>6. /\ obPrincipals' \in Seq(ObPrincipals) /\ IsInjective(obPrincipals')
      /\ ToSet(obPrincipals') = ToSet(obPrincipals)
  BY <1>1, <1>3, BackFine
<1>7. \A u \in obBound' : IF obOwner[u] = p THEN u \in ToSet(queue) ELSE u \in obBound
  BY <1>1, <1>4 DEF ObInv, ObserverSeesEveryTask
<1>8. \A u \in ToSet(queue) : obOwner[u] = p /\ u \notin obFresh'
  BY <1>1, <1>3, <1>4
<1> HIDE DEF queue, p
<1>9. ToSet(obPrincipals') = (ToSet(obPrincipals) \ {p}) \cup (IF queue = <<>> THEN {} ELSE {p})
  BY <1>3, <1>5, <1>6
<1> QED
  BY <1>1, <1>2, <1>4, <1>6, <1>7, <1>8, <1>9, OneBucket

(* The buckets once the principals of a pass are swept, and those of the   *)
(* pass that are left empty.                                               *)
Swept(inPass) ==
  [p \in DOMAIN obBuckets |-> IF p \in inPass THEN Retain(obBuckets[p], obBound) ELSE obBuckets[p]]
Emptied(inPass) == {p \in inPass \cap DOMAIN Swept(inPass) : Swept(inPass)[p] = <<>>}

(* What a sweep leaves: the bound ids of the buckets it visits. *)
LEMMA SweptIs ==
  ASSUME ObInv, NEW inPass, NEW p \in DOMAIN obBuckets
  PROVE  /\ Swept(inPass)[p] \in Seq(ObTasks) /\ IsInjective(Swept(inPass)[p])
         /\ ToSet(Swept(inPass)[p]) = IF p \in inPass THEN ToSet(obBuckets[p]) \cap obBound ELSE ToSet(obBuckets[p])
<1>1. obBuckets[p] \in Seq(ObTasks) /\ IsInjective(obBuckets[p])
  BY DEF ObInv, QueueTypes, ObserverSeesEveryTask
<1>2. CASE p \in inPass
  <2>1. Swept(inPass)[p] = Retain(obBuckets[p], obBound)
    BY <1>2 DEF Swept
  <2> QED
    BY <1>1, <1>2, <2>1, Retained
<1>3. CASE p \notin inPass
  BY <1>1, <1>3 DEF Swept
<1> QED
  BY <1>2, <1>3

(* A pass over the first n principals of which the first k go to the back: *)
(* all of them, or all but the last, whose bucket keeps an id.             *)
LEMMA PassFine ==
  ASSUME ObInv, NEW k \in 0..Len(obPrincipals), NEW n \in k..Len(obPrincipals), NEW inPass,
         inPass = ToSet(SubSeq(obPrincipals, 1, n)),
         n = k \/ (n = k + 1 /\ ToSet(Bucket(obPrincipals[n])) \cap obBound # {}),
         obBuckets' = Restrict(Swept(inPass), DOMAIN Swept(inPass) \ Emptied(inPass)),
         obPrincipals' = SubSeq(obPrincipals, k + 1, Len(obPrincipals))
                           \o Retain(SubSeq(obPrincipals, 1, k), DOMAIN Swept(inPass) \ Emptied(inPass)),
         obOwner' = obOwner, obFresh' = obFresh, obBound' = obBound
  PROVE  QueueTypes' /\ ObserverSeesEveryTask'
<1> DEFINE left == DOMAIN Swept(inPass) \ Emptied(inPass)
           rest == SubSeq(obPrincipals, k + 1, Len(obPrincipals))
           front == SubSeq(obPrincipals, 1, k)
           back == Retain(front, left)
<1>1. /\ obPrincipals \in Seq(ObPrincipals) /\ IsInjective(obPrincipals) /\ Len(obPrincipals) \in Nat
      /\ DOMAIN obPrincipals = 1..Len(obPrincipals)
      /\ ToSet(obPrincipals) = {p \in DOMAIN obBuckets : obBuckets[p] # <<>>}
  BY DEF ObInv, QueueTypes, ObserverSeesEveryTask
<1>2. DOMAIN Swept(inPass) = DOMAIN obBuckets
  BY DEF Swept
<1>3. DOMAIN obBuckets' = left /\ \A p \in left : obBuckets'[p] = Swept(inPass)[p]
  BY DEF Restrict
<1>4. left \subseteq DOMAIN obBuckets
  BY <1>2
<1>5. inPass = {obPrincipals[i] : i \in 1..n}
  <2>1. 1 \in 1..(Len(obPrincipals) + 1) /\ n \in (1 - 1)..Len(obPrincipals)
    BY <1>1
  <2> QED
    BY <1>1, <2>1, Sliced
<1>6. /\ rest \in Seq(ObPrincipals) /\ IsInjective(rest)
      /\ ToSet(rest) = {obPrincipals[i] : i \in (k + 1)..Len(obPrincipals)}
  <2>1. k + 1 \in 1..(Len(obPrincipals) + 1) /\ Len(obPrincipals) \in ((k + 1) - 1)..Len(obPrincipals)
    BY <1>1
  <2> QED
    BY <1>1, <2>1, Sliced
<1>7. front \in Seq(ObPrincipals) /\ IsInjective(front) /\ ToSet(front) = {obPrincipals[i] : i \in 1..k}
  <2>1. 1 \in 1..(Len(obPrincipals) + 1) /\ k \in (1 - 1)..Len(obPrincipals)
    BY <1>1
  <2> QED
    BY <1>1, <2>1, Sliced
<1>8. back \in Seq(ObPrincipals) /\ IsInjective(back) /\ ToSet(back) = ToSet(front) \cap left
  <2>1. PICK kept : kept = left
    OBVIOUS
  <2>2. back = Retain(front, kept)
    BY <2>1
  <2> HIDE DEF front, left, back
  <2>3. /\ Retain(front, kept) \in Seq(ObPrincipals) /\ IsInjective(Retain(front, kept))
        /\ ToSet(Retain(front, kept)) = ToSet(front) \cap kept
    BY <1>7, Retained
  <2> QED
    BY <2>1, <2>2, <2>3
<1>9. ToSet(front) \cap ToSet(rest) = {} /\ ToSet(front) \cup ToSet(rest) = ToSet(obPrincipals)
  <2>1. ToSet(front) \cap ToSet(rest) = {}
    BY <1>1, <1>6, <1>7 DEF IsInjective
  <2>2. ToSet(obPrincipals) = {obPrincipals[i] : i \in 1..Len(obPrincipals)}
    BY <1>1 DEF ToSet
  <2>3. \A i \in 1..Len(obPrincipals) : i \in 1..k \/ i \in (k + 1)..Len(obPrincipals)
    BY <1>1
  <2>4. (1..k) \subseteq 1..Len(obPrincipals) /\ ((k + 1)..Len(obPrincipals)) \subseteq 1..Len(obPrincipals)
    BY <1>1
  <2> QED
    BY <1>6, <1>7, <2>1, <2>2, <2>3, <2>4
<1>10. ToSet(rest) \subseteq left
  <2> SUFFICES ASSUME NEW p \in ToSet(rest), p \notin left
               PROVE  FALSE
    OBVIOUS
  <2>1. p \in DOMAIN obBuckets /\ p \in inPass /\ Swept(inPass)[p] = <<>>
    BY <1>1, <1>2, <1>9 DEF Emptied
  <2>2. p = obPrincipals[n] /\ n = k + 1
    <3>1. PICK i \in (k + 1)..Len(obPrincipals) : p = obPrincipals[i]
      BY <1>6
    <3>2. PICK j \in 1..n : p = obPrincipals[j]
      BY <1>5, <2>1
    <3>3. i \in DOMAIN obPrincipals /\ j \in DOMAIN obPrincipals
      BY <1>1
    <3>4. i = j
      BY <1>1, <3>1, <3>2, <3>3 DEF IsInjective
    <3> QED
      BY <3>1, <3>2, <3>4
  <2>3. ToSet(obBuckets[p]) \cap obBound # {}
    BY <2>1, <2>2 DEF Bucket
  <2>4. ToSet(Swept(inPass)[p]) = ToSet(obBuckets[p]) \cap obBound /\ Swept(inPass)[p] \in Seq(ObTasks)
    BY <2>1, SweptIs
  <2> QED
    BY <2>1, <2>3, <2>4, EmptyIs
<1>11. /\ obPrincipals' \in Seq(ObPrincipals) /\ IsInjective(obPrincipals')
       /\ ToSet(obPrincipals') = ToSet(obPrincipals) \cap left
  <2>1. obPrincipals' = rest \o back
    OBVIOUS
  <2> HIDE DEF rest, back, left, front
  <2>2. ToSet(rest) \cap ToSet(back) = {}
    BY <1>8, <1>9
  <2>3. obPrincipals' \in Seq(ObPrincipals) /\ IsInjective(obPrincipals') /\ ToSet(obPrincipals') = ToSet(rest) \cup ToSet(back)
    <3>1. rest \o back \in Seq(ObPrincipals) /\ IsInjective(rest \o back) /\ ToSet(rest \o back) = ToSet(rest) \cup ToSet(back)
      BY <1>6, <1>8, <2>2, Joined
    <3> QED
      BY <2>1, <3>1
  <2> QED
    BY <1>8, <1>9, <1>10, <2>3
<1>12. \A p \in left : obBuckets'[p] # <<>> <=> obBuckets[p] # <<>>
  <2> SUFFICES ASSUME NEW p \in left
               PROVE  obBuckets'[p] # <<>> <=> obBuckets[p] # <<>>
    OBVIOUS
  <2>1. p \in DOMAIN obBuckets /\ obBuckets'[p] = Swept(inPass)[p]
    BY <1>3, <1>4
  <2>2. CASE p \in inPass
    <3>1. Swept(inPass)[p] # <<>>
      BY <1>2, <2>1, <2>2 DEF Emptied
    <3>2. p \in ToSet(obPrincipals)
      <4>1. PICK i \in 1..n : p = obPrincipals[i]
        BY <1>5, <2>2
      <4>2. i \in DOMAIN obPrincipals
        BY <1>1
      <4> QED
        BY <4>1, <4>2 DEF ToSet
    <3> QED
      BY <1>1, <2>1, <3>1, <3>2
  <2>3. CASE p \notin inPass
    BY <2>1, <2>3 DEF Swept
  <2> QED
    BY <2>2, <2>3
<1>13. \A p \in left : /\ obBuckets'[p] \in Seq(ObTasks) /\ IsInjective(obBuckets'[p])
                       /\ ToSet(obBuckets'[p]) \subseteq ToSet(obBuckets[p])
                       /\ ToSet(obBuckets[p]) \cap obBound \subseteq ToSet(obBuckets'[p])
  <2> SUFFICES ASSUME NEW p \in left
               PROVE  /\ obBuckets'[p] \in Seq(ObTasks) /\ IsInjective(obBuckets'[p])
                      /\ ToSet(obBuckets'[p]) \subseteq ToSet(obBuckets[p])
                      /\ ToSet(obBuckets[p]) \cap obBound \subseteq ToSet(obBuckets'[p])
    OBVIOUS
  <2>1. p \in DOMAIN obBuckets /\ obBuckets'[p] = Swept(inPass)[p]
    BY <1>3, <1>4
  <2>2. /\ Swept(inPass)[p] \in Seq(ObTasks) /\ IsInjective(Swept(inPass)[p])
        /\ ToSet(Swept(inPass)[p]) = IF p \in inPass THEN ToSet(obBuckets[p]) \cap obBound ELSE ToSet(obBuckets[p])
    BY <2>1, SweptIs
  <2> QED
    BY <2>1, <2>2
<1> HIDE DEF left, rest, front, back
<1>14. QueueTypes'
  BY <1>3, <1>4, <1>11, <1>13 DEF ObInv, QueueTypes
<1>15. ToSet(obPrincipals') = {p \in DOMAIN obBuckets' : obBuckets'[p] # <<>>}
  BY <1>1, <1>3, <1>4, <1>11, <1>12
<1>16. \A p \in DOMAIN obBuckets' :
         IsInjective(obBuckets'[p]) /\ \A t \in ToSet(obBuckets'[p]) : obOwner[t] = p
  <2> SUFFICES ASSUME NEW p \in DOMAIN obBuckets'
               PROVE  IsInjective(obBuckets'[p]) /\ \A t \in ToSet(obBuckets'[p]) : obOwner[t] = p
    OBVIOUS
  <2>1. p \in left /\ p \in DOMAIN obBuckets
    BY <1>3, <1>4
  <2>2. \A t \in ToSet(obBuckets[p]) : obOwner[t] = p
    BY <2>1 DEF ObInv, ObserverSeesEveryTask
  <2> QED
    BY <1>13, <2>1, <2>2
<1>17. ASSUME NEW p \in DOMAIN obBuckets, ToSet(obBuckets[p]) \cap obBound # {}
        PROVE  Swept(inPass)[p] # <<>>
  <2>1. p \in DOMAIN obBuckets
    OBVIOUS
  <2>2. /\ Swept(inPass)[p] \in Seq(ObTasks)
        /\ ToSet(Swept(inPass)[p]) = IF p \in inPass THEN ToSet(obBuckets[p]) \cap obBound ELSE ToSet(obBuckets[p])
    BY <2>1, SweptIs
  <2>3. ToSet(obBuckets[p]) \cap obBound \subseteq ToSet(Swept(inPass)[p])
    BY <2>2
  <2> QED
    BY <1>17, <2>2, <2>3, EmptyIs
<1>18. ASSUME NEW t \in obBound
       PROVE  obOwner[t] \in DOMAIN obBuckets' /\ t \in ToSet(obBuckets'[obOwner[t]])
  <2>1. obOwner[t] \in DOMAIN obBuckets /\ t \in ToSet(obBuckets[obOwner[t]])
    <3>1. t \in ToSet(Bucket(obOwner[t]))
      BY DEF ObInv, ObserverSeesEveryTask
    <3> QED
      BY <3>1 DEF Bucket, ToSet
  <2>2. obOwner[t] \in left
    BY <1>2, <1>17, <2>1 DEF left, Emptied
  <2> QED
    BY <1>3, <1>13, <2>1, <2>2
<1> QED
  BY <1>11, <1>14, <1>15, <1>16, <1>18 DEF ObserverSeesEveryTask, Bucket

(* The scan: one pass, up to the first principal with a due task. *)
LEMMA ScanFine ==
  ASSUME ObInv, Scan
  PROVE  QueueTypes' /\ ObserverSeesEveryTask' /\ obSelected' \in ObTasks \cup {NoTaskId}
<1>1. /\ obPrincipals \in Seq(ObPrincipals) /\ Len(obPrincipals) \in Nat /\ DOMAIN obPrincipals = 1..Len(obPrincipals)
      /\ ToSet(obPrincipals) = {p \in DOMAIN obBuckets : obBuckets[p] # <<>>}
  BY DEF ObInv, QueueTypes, ObserverSeesEveryTask
<1>2. obOwner' = obOwner /\ obFresh' = obFresh /\ obBound' = obBound
  BY DEF Scan
<1>3. CASE DueTurns = {}
  <2> DEFINE n == Len(obPrincipals)
             inPass == ToSet(SubSeq(obPrincipals, 1, n))
  <2>1. /\ obBuckets' = Restrict(Swept(inPass), DOMAIN Swept(inPass) \ Emptied(inPass))
        /\ obPrincipals' = SubSeq(obPrincipals, Len(SubSeq(obPrincipals, 1, n)) + 1, Len(obPrincipals))
                             \o Retain(SubSeq(obPrincipals, 1, n), DOMAIN Swept(inPass) \ Emptied(inPass))
        /\ obSelected' = NoTaskId
    BY <1>3 DEF Scan, Swept, Emptied
  <2>2. Len(SubSeq(obPrincipals, 1, n)) = n /\ n \in 0..Len(obPrincipals) /\ n \in n..Len(obPrincipals)
    <3>1. 1 \in 1..(Len(obPrincipals) + 1) /\ n \in (1 - 1)..Len(obPrincipals)
      BY <1>1
    <3>2. Len(SubSeq(obPrincipals, 1, n)) = n - 1 + 1
      BY <1>1, <3>1, Sliced
    <3> QED
      BY <1>1, <3>2
  <2>3. PICK pass : pass = inPass
    OBVIOUS
  <2>4. pass = ToSet(SubSeq(obPrincipals, 1, n))
    BY <2>3
  <2>5. /\ obBuckets' = Restrict(Swept(pass), DOMAIN Swept(pass) \ Emptied(pass))
        /\ obPrincipals' = SubSeq(obPrincipals, n + 1, Len(obPrincipals))
                             \o Retain(SubSeq(obPrincipals, 1, n), DOMAIN Swept(pass) \ Emptied(pass))
    BY <2>1, <2>2, <2>3
  <2> HIDE DEF n, inPass
  <2>6. QueueTypes' /\ ObserverSeesEveryTask'
    BY <1>2, <2>2, <2>4, <2>5, PassFine
  <2> QED
    BY <2>1, <2>6
<1>4. CASE DueTurns # {}
  <2>1. DueTurns \subseteq 1..Len(obPrincipals)
    BY <1>1 DEF DueTurns
  <2>2. PICK n \in 1..Len(obPrincipals) : n = Min(DueTurns) /\ n \in DueTurns
    <3>1. DueTurns \subseteq Nat
      BY <1>1, <2>1
    <3>2. \E x \in DueTurns : \A y \in DueTurns : x <= y
      BY <1>4, <3>1, Least
    <3>3. Min(DueTurns) \in DueTurns
      BY <3>2, Zenon DEF Min
    <3> QED
      BY <2>1, <3>3
  <2> DEFINE k == n - 1
             inPass == ToSet(SubSeq(obPrincipals, 1, n))
  <2>3. /\ obBuckets' = Restrict(Swept(inPass), DOMAIN Swept(inPass) \ Emptied(inPass))
        /\ obPrincipals' = SubSeq(obPrincipals, Len(SubSeq(obPrincipals, 1, k)) + 1, Len(obPrincipals))
                             \o Retain(SubSeq(obPrincipals, 1, k), DOMAIN Swept(inPass) \ Emptied(inPass))
        /\ obSelected' = Retain(Swept(inPass)[obPrincipals[n]], obDue)[1]
    BY <1>4, <2>2 DEF Scan, Swept, Emptied
  <2>4. Len(SubSeq(obPrincipals, 1, k)) = k /\ k \in 0..Len(obPrincipals) /\ n \in k..Len(obPrincipals) /\ n = k + 1
    <3>1. 1 \in 1..(Len(obPrincipals) + 1) /\ k \in (1 - 1)..Len(obPrincipals)
      BY <1>1
    <3>2. Len(SubSeq(obPrincipals, 1, k)) = k - 1 + 1
      BY <1>1, <3>1, Sliced
    <3> QED
      BY <1>1, <3>1, <3>2
  <2>5. PICK pass : pass = inPass
    OBVIOUS
  <2>6. pass = ToSet(SubSeq(obPrincipals, 1, n))
    BY <2>5
  <2>7. /\ obBuckets' = Restrict(Swept(pass), DOMAIN Swept(pass) \ Emptied(pass))
        /\ obPrincipals' = SubSeq(obPrincipals, k + 1, Len(obPrincipals))
                             \o Retain(SubSeq(obPrincipals, 1, k), DOMAIN Swept(pass) \ Emptied(pass))
    BY <2>3, <2>4, <2>5
  <2>8. ToSet(Bucket(obPrincipals[n])) \cap obDue # {}
    BY <2>2 DEF DueTurns
  <2>9. ToSet(Bucket(obPrincipals[n])) \cap obBound # {}
    BY <2>8 DEF ObInv, ObTypes
  <2>10. obSelected' \in ObTasks
    <3>1. PICK p : p = obPrincipals[n]
      OBVIOUS
    <3>2. p \in DOMAIN obBuckets
      BY <2>8, <3>1 DEF Bucket, ToSet
    <3>3. /\ Swept(pass)[p] \in Seq(ObTasks)
          /\ ToSet(Swept(pass)[p]) = IF p \in pass THEN ToSet(obBuckets[p]) \cap obBound ELSE ToSet(obBuckets[p])
      BY <3>2, SweptIs
    <3>4. ToSet(obBuckets[p]) \cap obDue # {} /\ obDue \subseteq obBound
      BY <2>8, <3>1, <3>2 DEF Bucket, ObInv, ObTypes
    <3>5. ToSet(Swept(pass)[p]) \cap obDue # {}
      BY <3>3, <3>4
    <3>6. PICK due : due = Retain(Swept(pass)[p], obDue)
      OBVIOUS
    <3>7. due \in Seq(ObTasks) /\ ToSet(due) = ToSet(Swept(pass)[p]) \cap obDue
      BY <3>3, <3>6, Retained
    <3>8. due # <<>>
      BY <3>5, <3>7, EmptyIs
    <3>9. due[1] \in ObTasks
      BY <3>7, <3>8
    <3> QED
      BY <2>3, <2>5, <3>1, <3>6, <3>9
  <2> HIDE DEF k, inPass
  <2>11. QueueTypes' /\ ObserverSeesEveryTask'
    BY <1>2, <2>4, <2>6, <2>7, <2>9, PassFine
  <2> QED
    BY <2>10, <2>11
<1> QED
  BY <1>3, <1>4

(* The queues start empty. *)
LEMMA ObInitFine ==
  ASSUME ObInit
  PROVE  ObInv
<1>1. ObTypes
  BY DEF ObInit, ObTypes
<1>2. <<>> \in Seq(ObPrincipals) /\ ToSet(<<>>) = {} /\ IsInjective(<<>>) /\ DOMAIN <<>> = {}
  BY DEF ToSet, IsInjective
<1>3. QueueTypes
  BY <1>2 DEF ObInit, QueueTypes
<1>4. ObserverSeesEveryTask
  BY <1>2 DEF ObInit, ObserverSeesEveryTask
<1> QED
  BY <1>1, <1>3, <1>4 DEF ObInv

(* A step that leaves the queues alone and binds nothing. *)
LEMMA QueuesStay ==
  ASSUME ObInv, UNCHANGED <<obOwner, obFresh, obPrincipals, obBuckets>>, obBound' \subseteq obBound
  PROVE  QueueTypes' /\ ObserverSeesEveryTask'
<1>1. QueueTypes'
  BY DEF ObInv, QueueTypes
<1>2. ObserverSeesEveryTask'
  BY DEF ObInv, ObserverSeesEveryTask, Bucket
<1> QED
  BY <1>1, <1>2

(* Every step keeps the invariant. *)
LEMMA ObStepFine ==
  ASSUME ObInv, [ObNext]_obVars
  PROVE  ObInv'
<1> USE DEF ObInv
<1>1. ASSUME NEW t \in ObTasks, Bind(t) PROVE ObInv'
  <2>1. ObTypes'
    BY <1>1 DEF Bind, ObTypes
  <2> QED
    BY <1>1, <2>1, BindFine
<1>2. ASSUME NEW t \in ObTasks, FallsDue(t) \/ ClientObserves(t) \/ ClientEvicts(t) PROVE ObInv'
  <2>1. ObTypes'
    BY <1>2 DEF FallsDue, ClientObserves, ClientEvicts, ObTypes
  <2>2. UNCHANGED <<obOwner, obFresh, obPrincipals, obBuckets>> /\ obBound' \subseteq obBound
    BY <1>2 DEF FallsDue, ClientObserves, ClientEvicts
  <2> QED
    BY <2>1, <2>2, QueuesStay
<1>3. CASE Scan
  <2>1. QueueTypes' /\ ObserverSeesEveryTask' /\ obSelected' \in ObTasks \cup {NoTaskId}
    BY <1>3, ScanFine
  <2>2. UNCHANGED <<obOwner, obFresh, obBound, obDue>>
    BY <1>3 DEF Scan
  <2> QED
    BY <2>1, <2>2 DEF ObTypes
<1>4. CASE WindowFull \/ ReadCoalesced \/ UNCHANGED obVars
  <2>1. ObTypes'
    BY <1>4 DEF WindowFull, ReadCoalesced, obVars, ObTypes
  <2>2. UNCHANGED <<obOwner, obFresh, obPrincipals, obBuckets>> /\ obBound' \subseteq obBound
    BY <1>4 DEF WindowFull, ReadCoalesced, obVars
  <2> QED
    BY <2>1, <2>2, QueuesStay
<1>5. ASSUME NEW found \in BOOLEAN, NEW signalled \in BOOLEAN, ReadSelected(found, signalled) PROVE ObInv'
  <2>1. ObTypes'
    BY <1>5 DEF ReadSelected, ObTypes
  <2> QED
    BY <1>5, <2>1, ReadFine
<1> QED
  BY <1>1, <1>2, <1>3, <1>4, <1>5 DEF ObNext

(* The observation loop loses no task: every bound task is in its owner's  *)
(* bucket, once, and a principal is queued exactly once while its bucket   *)
(* has ids, for any number of tasks and principals and however scans,      *)
(* reads, bindings and evictions interleave (observation_loop).            *)
THEOREM ObserverCompleteness == ObSpec => []ObserverSeesEveryTask
<1>1. ObInit => ObInv
  BY ObInitFine
<1>2. ObInv /\ [ObNext]_obVars => ObInv'
  BY ObStepFine
<1>3. ObInv => ObserverSeesEveryTask
  BY DEF ObInv
<1> QED
  BY <1>1, <1>2, <1>3, PTL DEF ObSpec

-----------------------------------------------------------------------------
(* ObserverQueue: turns *)

(* Reads that may still come before that of a task at place i of its       *)
(* bucket whose principal is at place j of n: one of each principal for    *)
(* every place to go, counting its own.                                    *)
TurnsBefore(i, j, n) == (i - 1) * n + j

(* How the turns fall as a task and its principal move forward. *)
LEMMA FewerTurns ==
  ASSUME NEW n \in Nat, NEW i \in Nat \ {0}, NEW j \in Nat \ {0}, NEW k \in Nat \ {0}, NEW m \in Nat \ {0}
  PROVE  /\ TurnsBefore(i, j, n) \in Nat \ {0}
         /\ k <= i /\ m <= j => TurnsBefore(k, m, n) <= TurnsBefore(i, j, n)
         /\ k <= i /\ m < j => TurnsBefore(k, m, n) + 1 <= TurnsBefore(i, j, n)
         /\ k < i /\ m <= n => TurnsBefore(k, m, n) + 1 <= TurnsBefore(i, j, n)
         /\ m <= n => TurnsBefore(i, m, n) <= n * i
<1>1. (i - 1) * n \in Nat /\ (k - 1) * n \in Nat
  OBVIOUS
<1>2. k <= i => (k - 1) * n <= (i - 1) * n
  OBVIOUS
<1>3. k < i => (k - 1) * n + n <= (i - 1) * n
  OBVIOUS
<1>4. (i - 1) * n + n = n * i
  OBVIOUS
<1> QED
  BY <1>1, <1>2, <1>3, <1>4 DEF TurnsBefore

(* As many elements as a sequence without repetitions has its set. *)
LEMMA InjectiveLength ==
  ASSUME NEW S, IsFiniteSet(S), NEW seq \in Seq(S), IsInjective(seq)
  PROVE  Len(seq) <= Cardinality(S) /\ Cardinality(S) \in Nat
<1>1. Len(seq) \in Nat /\ DOMAIN seq = 1..Len(seq) /\ ToSet(seq) \subseteq S
  BY DEF ToSet
<1>2. IsFiniteSet(ToSet(seq)) /\ Cardinality(ToSet(seq)) <= Cardinality(S)
  BY <1>1, FS_Subset
<1>3. seq \in Bijection(1..Len(seq), ToSet(seq))
  BY <1>1 DEF Bijection, Injection, Surjection, IsInjective, ToSet
<1>4. IsFiniteSet(1..Len(seq)) /\ Cardinality(1..Len(seq)) = Len(seq)
  BY <1>1, FS_Interval
<1>5. Cardinality(ToSet(seq)) = Cardinality(1..Len(seq))
  BY <1>2, <1>3, <1>4, FS_Bijection DEF ExistsBijection
<1> QED
  BY <1>2, <1>4, <1>5, FS_CardinalityType

(* The element x is at place i. *)
PlacedAt(seq, x, i) == i \in DOMAIN seq /\ seq[i] = x /\ i \in Nat \ {0}

(* An element has a place. *)
LEMMA HasPlace ==
  ASSUME NEW S, NEW seq \in Seq(S), NEW x \in ToSet(seq)
  PROVE  \E i : PlacedAt(seq, x, i) /\ i <= Len(seq)
<1>1. DOMAIN seq = 1..Len(seq) /\ Len(seq) \in Nat
  OBVIOUS
<1>2. PICK i \in DOMAIN seq : x = seq[i]
  BY DEF ToSet
<1>3. i \in Nat \ {0} /\ i <= Len(seq)
  BY <1>1, <1>2
<1> QED
  BY <1>2, <1>3 DEF PlacedAt

(* One more at the back moves nothing. *)
LEMMA AppendPlaces ==
  ASSUME NEW S, NEW seq \in Seq(S), NEW y \in S, NEW x, NEW i, PlacedAt(seq, x, i)
  PROVE  PlacedAt(Append(seq, y), x, i)
<1>1. /\ DOMAIN seq = 1..Len(seq) /\ Len(seq) \in Nat /\ i \in 1..Len(seq) /\ seq[i] = x /\ i \in Nat \ {0}
  BY DEF PlacedAt
<1>2. i \in DOMAIN Append(seq, y) /\ Append(seq, y)[i] = seq[i]
  BY <1>1
<1> QED
  BY <1>1, <1>2 DEF PlacedAt

(* Retain moves what it keeps forward only, by one at least if it drops    *)
(* something ahead.                                                        *)
LEMMA RetainPlaces ==
  ASSUME NEW S, NEW seq \in Seq(S), NEW keep, NEW x \in keep, NEW i, PlacedAt(seq, x, i)
  PROVE  \E m : /\ PlacedAt(Retain(seq, keep), x, m) /\ m <= i
                /\ \A k : PlacedAt(seq, seq[k], k) /\ k < i /\ seq[k] \notin keep => m < i
<1>1. DOMAIN seq = 1..Len(seq) /\ Len(seq) \in Nat /\ i \in 1..Len(seq) /\ seq[i] = x
  BY DEF PlacedAt
<1>2. PICK rank :
           /\ \A h \in 1..Len(seq) : rank[h] \in 0..h
           /\ \A h \in 1..Len(seq) : seq[h] \in keep =>
                /\ rank[h] \in 1..Len(Retain(seq, keep))
                /\ Retain(seq, keep)[rank[h]] = seq[h]
           /\ \A k, h \in 1..Len(seq) : k < h =>
                /\ seq[h] \in keep => rank[k] < rank[h]
                /\ seq[k] \notin keep => rank[h] <= h - 1
  BY RetainedPlaces
<1>3. PICK kept : kept = Retain(seq, keep)
  OBVIOUS
<1>4. kept \in Seq(S)
  BY <1>3, Retained
<1>5. /\ rank[i] \in 1..Len(kept) /\ kept[rank[i]] = x /\ rank[i] \in 0..i
  BY <1>1, <1>2, <1>3
<1>6. PlacedAt(kept, x, rank[i]) /\ rank[i] <= i
  BY <1>1, <1>4, <1>5 DEF PlacedAt
<1>7. ASSUME NEW k, PlacedAt(seq, seq[k], k), k < i, seq[k] \notin keep
      PROVE  rank[i] < i
  <2>1. k \in 1..Len(seq)
    BY <1>1, <1>7 DEF PlacedAt
  <2>2. rank[i] <= i - 1
    BY <1>1, <1>2, <1>7, <2>1
  <2> QED
    BY <1>1, <1>5, <2>2
<1> QED
  BY <1>3, <1>6, <1>7

(* So does the move of another element to the back. *)
LEMMA BackPlaces ==
  ASSUME NEW S, NEW queue \in Seq(S), NEW x, NEW y, x # y, NEW i, NEW k,
         PlacedAt(queue, x, i), PlacedAt(queue, y, k)
  PROVE  \E m : PlacedAt(ToBack(queue, y), x, m) /\ m <= i /\ (k < i => m < i)
<1>1. /\ i \in DOMAIN queue /\ k \in DOMAIN queue /\ queue[i] = x /\ queue[k] = y
      /\ DOMAIN queue = 1..Len(queue)
  BY DEF PlacedAt
<1>2. x \in ToSet(queue) /\ y \in ToSet(queue) /\ y \in S
  BY <1>1 DEF ToSet
<1>3. PICK keep : keep = ToSet(queue) \ {y}
  OBVIOUS
<1>4. x \in keep /\ queue[k] \notin keep /\ PlacedAt(queue, queue[k], k)
  BY <1>1, <1>2, <1>3
<1>5. PICK rest : rest = Retain(queue, keep)
  OBVIOUS
<1>6. PICK m : /\ PlacedAt(Retain(queue, keep), x, m) /\ m <= i
               /\ \A h : PlacedAt(queue, queue[h], h) /\ h < i /\ queue[h] \notin keep => m < i
  BY <1>4, RetainPlaces
<1>7. rest \in Seq(S)
  BY <1>5, Retained
<1>8. PlacedAt(Append(rest, y), x, m)
  BY <1>2, <1>5, <1>6, <1>7, AppendPlaces
<1>9. ToBack(queue, y) = Append(rest, y)
  BY <1>2, <1>3, <1>5 DEF ToBack
<1> QED
  BY <1>4, <1>6, <1>8, <1>9

(* Wherever task t of principal p is, there is room for its turns. *)
TurnsFit(n, bound, passed, queue, ps, t, p) ==
  \A i, j : PlacedAt(queue, t, i) /\ PlacedAt(ps, p, j) => passed + TurnsBefore(i, j, n) <= bound

(* There is if there is at one place. *)
LEMMA FitsThere ==
  ASSUME NEW n, NEW bound, NEW passed, NEW queue, NEW ps, NEW t, NEW p, NEW i, NEW j,
         IsInjective(queue), IsInjective(ps), PlacedAt(queue, t, i), PlacedAt(ps, p, j),
         passed + TurnsBefore(i, j, n) <= bound
  PROVE  TurnsFit(n, bound, passed, queue, ps, t, p)
BY DEF TurnsFit, PlacedAt, IsInjective

Owners == {obOwner[u] : u \in ObTasks}
Mates(t) == {u \in ObTasks : obOwner[u] = obOwner[t]}

(* Every due task has its turns. *)
DueTurnsFit ==
  \A t \in obDue : TurnsFit(Cardinality(Owners), Cardinality(Owners) * Cardinality(Mates(t)), obPassedOver[t],
                            Bucket(obOwner[t]), obPrincipals, t, obOwner[t])

(* The principal whose task was selected is in front, and what has fallen  *)
(* due ahead of that task since has not been passed over.                  *)
SelectedAhead ==
  obSelected # NoTaskId =>
    /\ PlacedAt(obPrincipals, obOwner[obSelected], 1)
    /\ obSelected \in ToSet(Bucket(obOwner[obSelected]))
    /\ \A t \in obDue, i, k \in Nat :
         /\ PlacedAt(Bucket(obOwner[obSelected]), t, i)
         /\ PlacedAt(Bucket(obOwner[obSelected]), obSelected, k)
         /\ i < k
         => obPassedOver[t] = 0

(* The inductive invariant. *)
TurnInv == ObInv /\ obPassedOver \in [ObTasks -> Nat] /\ DueTurnsFit /\ SelectedAhead

(* What the counts bound, for queues of these owners. *)
LEMMA QueuesFit ==
  ASSUME ObInv, NEW t \in ObTasks, NEW queue \in Seq(ObTasks), IsInjective(queue),
         \A u \in ToSet(queue) : obOwner[u] = obOwner[t],
         NEW ps \in Seq(ObPrincipals), IsInjective(ps), ToSet(ps) \subseteq ToSet(obPrincipals)
  PROVE  /\ Len(queue) <= Cardinality(Mates(t)) /\ Cardinality(Mates(t)) \in Nat
         /\ Len(ps) <= Cardinality(Owners) /\ Cardinality(Owners) \in Nat
<1>1. IsFiniteSet(Owners) /\ IsFiniteSet(Mates(t))
  <2>1. Owners \subseteq ObPrincipals /\ Mates(t) \subseteq ObTasks
    BY DEF Owners, Mates, ObInv, ObTypes
  <2> QED
    BY <2>1, ObAssumption, FS_Subset
<1>2. queue \in Seq(Mates(t))
  <2>1. \A i \in 1..Len(queue) : queue[i] \in ToSet(queue) /\ queue[i] \in ObTasks
    BY DEF ToSet
  <2>2. \A i \in 1..Len(queue) : queue[i] \in Mates(t)
    BY <2>1 DEF Mates
  <2> QED
    BY <2>2
<1>3. \A p \in ToSet(obPrincipals) : p \in Owners
  <2> SUFFICES ASSUME NEW p \in ToSet(obPrincipals)
               PROVE  p \in Owners
    OBVIOUS
  <2>1. p \in DOMAIN obBuckets /\ obBuckets[p] # <<>>
    BY DEF ObInv, ObserverSeesEveryTask
  <2>2. PICK bucket : bucket = obBuckets[p]
    OBVIOUS
  <2>3. bucket \in Seq(ObTasks) /\ \A u \in ToSet(bucket) : obOwner[u] = p
    BY <2>1, <2>2 DEF ObInv, QueueTypes, ObserverSeesEveryTask
  <2>4. bucket[1] \in ToSet(bucket) /\ bucket[1] \in ObTasks
    BY <2>1, <2>2, <2>3 DEF ToSet
  <2>5. obOwner[bucket[1]] = p
    BY <2>3, <2>4
  <2> QED
    BY <2>4, <2>5 DEF Owners
<1>4. ps \in Seq(Owners)
  <2>1. \A i \in 1..Len(ps) : ps[i] \in ToSet(ps)
    BY DEF ToSet
  <2>2. \A i \in 1..Len(ps) : ps[i] \in Owners
    BY <1>3, <2>1
  <2> QED
    BY <2>2
<1>5. PICK owners : owners = Owners
  OBVIOUS
<1>6. PICK mates : mates = Mates(t)
  OBVIOUS
<1>7. Len(queue) <= Cardinality(mates) /\ Cardinality(mates) \in Nat
  BY <1>1, <1>2, <1>6, InjectiveLength
<1>8. Len(ps) <= Cardinality(owners) /\ Cardinality(owners) \in Nat
  BY <1>1, <1>4, <1>5, InjectiveLength
<1> QED
  BY <1>5, <1>6, <1>7, <1>8

(* Where a bound task and its principal are. *)
LEMMA TaskPlaces ==
  ASSUME ObInv, NEW t \in obBound
  PROVE  \E i, j : /\ PlacedAt(Bucket(obOwner[t]), t, i) /\ i <= Cardinality(Mates(t))
                   /\ PlacedAt(obPrincipals, obOwner[t], j) /\ j <= Cardinality(Owners)
                   /\ Cardinality(Owners) \in Nat /\ Cardinality(Mates(t)) \in Nat
<1>1. t \in ObTasks /\ obOwner[t] \in ObPrincipals
  BY DEF ObInv, ObTypes
<1>2. PICK p : p = obOwner[t]
  OBVIOUS
<1>3. p \in ObPrincipals
  BY <1>1, <1>2
<1>4. /\ Bucket(p) \in Seq(ObTasks) /\ IsInjective(Bucket(p))
      /\ \A u \in ToSet(Bucket(p)) : obOwner[u] = p
      /\ p \in ToSet(obPrincipals) <=> Bucket(p) # <<>>
      /\ obPrincipals \in Seq(ObPrincipals) /\ IsInjective(obPrincipals)
  BY <1>3, BucketIs
<1>5. PICK queue : queue = Bucket(p)
  OBVIOUS
<1>6. PICK ps : ps = obPrincipals
  OBVIOUS
<1>7. t \in ToSet(queue)
  BY <1>2, <1>5 DEF ObInv, ObserverSeesEveryTask
<1>8. queue # <<>>
  BY <1>7 DEF ToSet
<1>9. p \in ToSet(ps)
  BY <1>4, <1>5, <1>6, <1>8
<1>10. /\ queue \in Seq(ObTasks) /\ IsInjective(queue) /\ \A u \in ToSet(queue) : obOwner[u] = obOwner[t]
       /\ ps \in Seq(ObPrincipals) /\ IsInjective(ps) /\ ToSet(ps) \subseteq ToSet(obPrincipals)
  BY <1>2, <1>4, <1>5, <1>6
<1>11. /\ Len(queue) <= Cardinality(Mates(t)) /\ Cardinality(Mates(t)) \in Nat
       /\ Len(ps) <= Cardinality(Owners) /\ Cardinality(Owners) \in Nat
  BY <1>1, <1>10, QueuesFit
<1>12. PICK i : PlacedAt(queue, t, i) /\ i <= Len(queue)
  BY <1>7, <1>10, HasPlace
<1>13. PICK j : PlacedAt(ps, p, j) /\ j <= Len(ps)
  BY <1>9, <1>10, HasPlace
<1>14. i \in Nat /\ j \in Nat /\ Len(queue) \in Nat /\ Len(ps) \in Nat
  BY <1>10, <1>12, <1>13 DEF PlacedAt
<1>15. i <= Cardinality(Mates(t)) /\ j <= Cardinality(Owners)
  BY <1>11, <1>12, <1>13, <1>14
<1> QED
  BY <1>2, <1>5, <1>6, <1>11, <1>12, <1>13, <1>15

(* A task at a place of its bucket that has not been passed over. *)
LEMMA FreshFits ==
  ASSUME NEW n \in Nat, NEW mates \in Nat, NEW queue, NEW ps, NEW t, NEW p, NEW i, NEW j,
         IsInjective(queue), IsInjective(ps), PlacedAt(queue, t, i), PlacedAt(ps, p, j),
         i <= mates, j <= n
  PROVE  TurnsFit(n, n * mates, 0, queue, ps, t, p)
<1>1. i \in Nat \ {0} /\ j \in Nat \ {0}
  BY DEF PlacedAt
<1>2. TurnsBefore(i, j, n) <= n * i /\ TurnsBefore(i, j, n) \in Nat
  BY <1>1, FewerTurns
<1>3. n * i <= n * mates /\ n * i \in Nat /\ n * mates \in Nat
  BY <1>1
<1>4. 0 + TurnsBefore(i, j, n) <= n * mates
  BY <1>2, <1>3
<1> QED
  BY <1>4, FitsThere

BucketIn(buckets, p) == IF p \in DOMAIN buckets THEN buckets[p] ELSE <<>>

(* The turns after a step, task by task. *)
LEMMA StepFits ==
  ASSUME obOwner' = obOwner,
         \A t \in obDue' : TurnsFit(Cardinality(Owners), Cardinality(Owners) * Cardinality(Mates(t)), obPassedOver'[t],
                                    BucketIn(obBuckets', obOwner[t]), obPrincipals', t, obOwner[t])
  PROVE  DueTurnsFit'
BY DEF DueTurnsFit, Owners, Mates, Bucket, BucketIn

(* A step that leaves the queues and the counts alone, after which no task *)
(* is newly due and none newly selected.                                   *)
LEMMA QuietTurns ==
  ASSUME TurnInv, UNCHANGED <<obOwner, obPrincipals, obBuckets, obPassedOver>>,
         obDue' \subseteq obDue, obSelected' = obSelected \/ obSelected' = NoTaskId
  PROVE  DueTurnsFit' /\ SelectedAhead'
<1>1. DueTurnsFit'
  <2>1. DueTurnsFit
    BY DEF TurnInv
  <2>2. \A t \in obDue' : TurnsFit(Cardinality(Owners), Cardinality(Owners) * Cardinality(Mates(t)), obPassedOver'[t],
                                    BucketIn(obBuckets', obOwner[t]), obPrincipals', t, obOwner[t])
    BY <2>1 DEF DueTurnsFit, Bucket, BucketIn
  <2> QED
    BY <2>2, StepFits
<1>2. SelectedAhead'
  <2>1. CASE obSelected' = NoTaskId
    BY <2>1 DEF SelectedAhead
  <2>2. CASE obSelected' = obSelected
    BY <2>2 DEF TurnInv, SelectedAhead, Bucket
  <2> QED
    BY <2>1, <2>2
<1> QED
  BY <1>1, <1>2

(* A task that falls due begins to count. *)
LEMMA FallsDueTurns ==
  ASSUME TurnInv, NEW t \in ObTasks, FallsDue(t)
  PROVE  DueTurnsFit' /\ SelectedAhead'
<1>1. /\ t \in obBound /\ obDue' = obDue \cup {t} /\ obPassedOver' = [obPassedOver EXCEPT ![t] = 0]
      /\ UNCHANGED <<obOwner, obFresh, obBound, obPrincipals, obBuckets, obSelected>>
  BY DEF FallsDue
<1>2. /\ ObInv /\ obPassedOver \in [ObTasks -> Nat] /\ DueTurnsFit /\ SelectedAhead
      /\ obDue \subseteq ObTasks
  BY DEF TurnInv, ObInv, ObTypes
<1>3. obPassedOver'[t] = 0 /\ \A u \in ObTasks : u # t => obPassedOver'[u] = obPassedOver[u]
  BY <1>1, <1>2
<1>4. ASSUME NEW u \in obDue'
      PROVE  TurnsFit(Cardinality(Owners), Cardinality(Owners) * Cardinality(Mates(u)), obPassedOver'[u],
                      BucketIn(obBuckets', obOwner[u]), obPrincipals', u, obOwner[u])
  <2>1. CASE u # t
    <3>1. u \in obDue /\ obPassedOver'[u] = obPassedOver[u]
      BY <1>1, <1>2, <1>3, <2>1
    <3> QED
      BY <1>1, <1>2, <3>1 DEF DueTurnsFit, Bucket, BucketIn
  <2>2. CASE u = t
    <3>1. PICK i, j : /\ PlacedAt(Bucket(obOwner[t]), t, i) /\ i <= Cardinality(Mates(t))
                      /\ PlacedAt(obPrincipals, obOwner[t], j) /\ j <= Cardinality(Owners)
                      /\ Cardinality(Owners) \in Nat /\ Cardinality(Mates(t)) \in Nat
      BY <1>1, <1>2, TaskPlaces
    <3>2. PICK queue : queue = Bucket(obOwner[t])
      OBVIOUS
    <3>3. PICK ps : ps = obPrincipals
      OBVIOUS
    <3>4. PICK p : p = obOwner[t]
      OBVIOUS
    <3>5. p \in ObPrincipals
      BY <1>2, <3>4 DEF ObInv, ObTypes
    <3>6. IsInjective(Bucket(p)) /\ IsInjective(obPrincipals)
      BY <1>2, <3>5, BucketIs
    <3>7. IsInjective(queue) /\ IsInjective(ps) /\ PlacedAt(queue, t, i) /\ PlacedAt(ps, p, j)
      BY <3>1, <3>2, <3>3, <3>4, <3>6
    <3>8. PICK n : n = Cardinality(Owners)
      OBVIOUS
    <3>9. PICK mates : mates = Cardinality(Mates(t))
      OBVIOUS
    <3>10. n \in Nat /\ mates \in Nat /\ i <= mates /\ j <= n
      BY <3>1, <3>8, <3>9
    <3>11. TurnsFit(n, n * mates, 0, queue, ps, t, p)
      BY <3>7, <3>10, FreshFits
    <3>12. BucketIn(obBuckets', obOwner[t]) = queue /\ obPrincipals' = ps
      BY <1>1, <3>2, <3>3 DEF Bucket, BucketIn
    <3> QED
      BY <1>3, <2>2, <3>4, <3>8, <3>9, <3>11, <3>12
  <2> QED
    BY <2>1, <2>2
<1>5. DueTurnsFit'
  BY <1>1, <1>4, StepFits
<1>6. SelectedAhead'
  <2> SUFFICES ASSUME obSelected' # NoTaskId
               PROVE  /\ PlacedAt(obPrincipals', obOwner'[obSelected'], 1)
                      /\ obSelected' \in ToSet(Bucket(obOwner[obSelected])')
                      /\ \A u \in obDue', i, k \in Nat :
                           /\ PlacedAt(Bucket(obOwner[obSelected])', u, i)
                           /\ PlacedAt(Bucket(obOwner[obSelected])', obSelected', k)
                           /\ i < k
                           => obPassedOver'[u] = 0
    BY DEF SelectedAhead
  <2>1. obSelected # NoTaskId /\ Bucket(obOwner[obSelected])' = Bucket(obOwner[obSelected])
    BY <1>1 DEF Bucket
  <2>2. /\ PlacedAt(obPrincipals, obOwner[obSelected], 1)
        /\ obSelected \in ToSet(Bucket(obOwner[obSelected]))
        /\ \A u \in obDue, i, k \in Nat :
             /\ PlacedAt(Bucket(obOwner[obSelected]), u, i)
             /\ PlacedAt(Bucket(obOwner[obSelected]), obSelected, k)
             /\ i < k
             => obPassedOver[u] = 0
    BY <1>2, <2>1 DEF SelectedAhead
  <2>3. ASSUME NEW u \in obDue', NEW i \in Nat, NEW k \in Nat,
               PlacedAt(Bucket(obOwner[obSelected]), u, i),
               PlacedAt(Bucket(obOwner[obSelected]), obSelected, k), i < k
        PROVE  obPassedOver'[u] = 0
    <3>1. CASE u = t
      BY <1>3, <3>1
    <3>2. CASE u # t
      <4>1. u \in obDue /\ u \in ObTasks
        BY <1>1, <1>2, <3>2
      <4> QED
        BY <1>3, <2>2, <2>3, <3>2, <4>1
    <3> QED
      BY <3>1, <3>2
  <2> QED
    BY <1>1, <2>1, <2>2, <2>3
<1> QED
  BY <1>5, <1>6

(* A new task joins the back of its bucket, and perhaps its principal the  *)
(* back of the queue.                                                      *)
LEMMA BindTurns ==
  ASSUME TurnInv, NEW t \in ObTasks, Bind(t), ObInv'
  PROVE  DueTurnsFit' /\ SelectedAhead'
<1>1. /\ ObInv /\ obPassedOver \in [ObTasks -> Nat] /\ DueTurnsFit /\ SelectedAhead
      /\ obDue \subseteq obBound /\ obBound \subseteq ObTasks /\ obBound \cap obFresh = {}
      /\ obOwner \in [ObTasks -> ObPrincipals]
  BY DEF TurnInv, ObInv, ObTypes
<1>2. /\ t \in obFresh /\ UNCHANGED <<obOwner, obDue, obSelected, obPassedOver>>
      /\ obBuckets' = WithBucket(obOwner[t], Append(Bucket(obOwner[t]), t))
      /\ obPrincipals' = IF Bucket(obOwner[t]) = <<>> THEN Append(obPrincipals, obOwner[t]) ELSE obPrincipals
  BY DEF Bind
<1>3. PICK ps : ps = obPrincipals
  OBVIOUS
<1>4. PICK ps2 : ps2 = obPrincipals'
  OBVIOUS
<1>5. ps \in Seq(ObPrincipals) /\ IsInjective(ps2)
  BY <1>1, <1>3, <1>4 DEF ObInv, QueueTypes, ObserverSeesEveryTask
<1>6. ASSUME NEW x, NEW i, PlacedAt(ps, x, i)
      PROVE  PlacedAt(ps2, x, i)
  <2>1. CASE Bucket(obOwner[t]) = <<>>
    <3>1. PICK y : y = obOwner[t]
      OBVIOUS
    <3>2. y \in ObPrincipals /\ ps2 = Append(ps, y)
      BY <1>1, <1>2, <1>3, <1>4, <2>1, <3>1
    <3> QED
      BY <1>5, <1>6, <3>2, AppendPlaces
  <2>2. CASE Bucket(obOwner[t]) # <<>>
    BY <1>2, <1>3, <1>4, <1>6, <2>2
  <2> QED
    BY <2>1, <2>2
<1>7. ASSUME NEW p \in ObPrincipals
      PROVE  /\ IsInjective(BucketIn(obBuckets', p))
             /\ \A x, i : PlacedAt(Bucket(p), x, i) => PlacedAt(BucketIn(obBuckets', p), x, i)
             /\ \A x \in ToSet(Bucket(p)) : x \in ToSet(BucketIn(obBuckets', p))
  <2>1. IsInjective(BucketIn(obBuckets', p))
    <3>1. CASE p \in DOMAIN obBuckets'
      BY <3>1 DEF ObInv, ObserverSeesEveryTask, BucketIn
    <3>2. CASE p \notin DOMAIN obBuckets'
      BY <3>2 DEF BucketIn, IsInjective
    <3> QED
      BY <3>1, <3>2
  <2>2. PICK queue : queue = Bucket(p)
    OBVIOUS
  <2>3. PICK queue2 : queue2 = BucketIn(obBuckets', p)
    OBVIOUS
  <2>4. queue \in Seq(ObTasks)
    BY <1>1, <2>2, BucketIs
  <2>5. queue2 = IF p = obOwner[t] THEN Append(queue, t) ELSE queue
    <3>1. CASE p = obOwner[t]
      <4>1. p \in DOMAIN obBuckets' /\ obBuckets'[p] = Append(Bucket(p), t)
        BY <1>2, <3>1 DEF WithBucket
      <4> QED
        BY <2>2, <2>3, <3>1, <4>1 DEF BucketIn
    <3>2. CASE p # obOwner[t]
      <4>1. p \in DOMAIN obBuckets' <=> p \in DOMAIN obBuckets
        BY <1>2, <3>2 DEF WithBucket
      <4>2. p \in DOMAIN obBuckets => obBuckets'[p] = obBuckets[p]
        BY <1>2, <3>2 DEF WithBucket
      <4> QED
        BY <2>2, <2>3, <3>2, <4>1, <4>2 DEF BucketIn, Bucket
    <3> QED
      BY <3>1, <3>2
  <2>6. \A x, i : PlacedAt(queue, x, i) => PlacedAt(queue2, x, i)
    <3>1. CASE p = obOwner[t]
      <4>1. queue2 = Append(queue, t)
        BY <2>5, <3>1
      <4> QED
        BY <2>4, <4>1, AppendPlaces
    <3>2. CASE p # obOwner[t]
      BY <2>5, <3>2
    <3> QED
      BY <3>1, <3>2
  <2>7. ToSet(queue) \subseteq ToSet(queue2)
    <3>1. CASE p = obOwner[t]
      BY <2>4, <2>5, <3>1, Appended
    <3>2. CASE p # obOwner[t]
      BY <2>5, <3>2
    <3> QED
      BY <3>1, <3>2
  <2> QED
    BY <2>1, <2>2, <2>3, <2>6, <2>7
<1>8. ASSUME NEW u \in obDue'
      PROVE  TurnsFit(Cardinality(Owners), Cardinality(Owners) * Cardinality(Mates(u)), obPassedOver'[u],
                      BucketIn(obBuckets', obOwner[u]), obPrincipals', u, obOwner[u])
  <2>1. u \in obDue /\ u \in obBound /\ obOwner[u] \in ObPrincipals /\ obPassedOver'[u] = obPassedOver[u]
    BY <1>1, <1>2
  <2>2. PICK i, j : PlacedAt(Bucket(obOwner[u]), u, i) /\ PlacedAt(obPrincipals, obOwner[u], j)
    BY <1>1, <2>1, TaskPlaces
  <2>3. obPassedOver[u] + TurnsBefore(i, j, Cardinality(Owners)) <= Cardinality(Owners) * Cardinality(Mates(u))
    BY <1>1, <2>1, <2>2 DEF DueTurnsFit, TurnsFit
  <2>4. PICK p : p = obOwner[u]
    OBVIOUS
  <2>5. PICK queue2 : queue2 = BucketIn(obBuckets', p)
    OBVIOUS
  <2>6. PlacedAt(queue2, u, i) /\ PlacedAt(ps2, p, j) /\ IsInjective(queue2)
    BY <1>3, <1>6, <1>7, <2>1, <2>2, <2>4, <2>5
  <2>7. PICK n : n = Cardinality(Owners)
    OBVIOUS
  <2>8. PICK bound : bound = Cardinality(Owners) * Cardinality(Mates(u))
    OBVIOUS
  <2>9. PICK passed : passed = obPassedOver[u]
    OBVIOUS
  <2>10. passed + TurnsBefore(i, j, n) <= bound
    BY <2>3, <2>7, <2>8, <2>9
  <2>11. TurnsFit(n, bound, passed, queue2, ps2, u, p)
    BY <1>5, <2>6, <2>10, FitsThere
  <2> QED
    BY <1>4, <2>1, <2>4, <2>5, <2>7, <2>8, <2>9, <2>11
<1>9. DueTurnsFit'
  BY <1>2, <1>8, StepFits
<1>10. SelectedAhead'
  <2> SUFFICES ASSUME obSelected # NoTaskId
               PROVE  /\ PlacedAt(ps2, obOwner[obSelected], 1)
                      /\ obSelected \in ToSet(BucketIn(obBuckets', obOwner[obSelected]))
                      /\ \A u \in obDue, i, k \in Nat :
                           /\ PlacedAt(BucketIn(obBuckets', obOwner[obSelected]), u, i)
                           /\ PlacedAt(BucketIn(obBuckets', obOwner[obSelected]), obSelected, k)
                           /\ i < k
                           => obPassedOver[u] = 0
    BY <1>2, <1>4 DEF SelectedAhead, Bucket, BucketIn
  <2>1. /\ PlacedAt(obPrincipals, obOwner[obSelected], 1)
        /\ obSelected \in ToSet(Bucket(obOwner[obSelected]))
        /\ \A u \in obDue, i, k \in Nat :
             /\ PlacedAt(Bucket(obOwner[obSelected]), u, i)
             /\ PlacedAt(Bucket(obOwner[obSelected]), obSelected, k)
             /\ i < k
             => obPassedOver[u] = 0
    BY <1>1 DEF SelectedAhead
  <2>2. PICK p : p = obOwner[obSelected]
    OBVIOUS
  <2>3. PICK queue : queue = Bucket(p)
    OBVIOUS
  <2>4. PICK queue2 : queue2 = BucketIn(obBuckets', p)
    OBVIOUS
  <2>5. p \in ObPrincipals
    BY <1>1, <2>2 DEF ObInv, ObTypes
  <2>6. /\ IsInjective(queue2) /\ \A x, i : PlacedAt(queue, x, i) => PlacedAt(queue2, x, i)
        /\ \A x \in ToSet(queue) : x \in ToSet(queue2)
    BY <1>7, <2>3, <2>4, <2>5
  <2>7. queue \in Seq(ObTasks)
    BY <1>1, <2>3, <2>5, BucketIs
  <2>8. ASSUME NEW u \in obDue, NEW i \in Nat, NEW k \in Nat,
               PlacedAt(queue2, u, i), PlacedAt(queue2, obSelected, k), i < k
        PROVE  obPassedOver[u] = 0
    <3>1. PICK m : PlacedAt(queue, obSelected, m)
      <4>1. PICK s : s = obSelected
        OBVIOUS
      <4>2. s \in ToSet(queue)
        BY <2>1, <2>2, <2>3, <4>1
      <4>3. \E m : PlacedAt(queue, s, m)
        BY <2>7, <4>2, HasPlace
      <4> QED
        BY <4>1, <4>3
    <3>2. m = k /\ m \in Nat
      BY <2>6, <2>8, <3>1 DEF PlacedAt, IsInjective
    <3>3. k \in DOMAIN queue /\ i \in DOMAIN queue2 /\ i # 0 /\ queue2[i] = u
      BY <2>8, <3>1, <3>2 DEF PlacedAt
    <3>4. i \in DOMAIN queue
      BY <2>7, <2>8, <3>3
    <3>5. PlacedAt(queue, queue[i], i)
      BY <3>3, <3>4 DEF PlacedAt
    <3>6. queue[i] = u
      BY <2>6, <3>3, <3>5 DEF PlacedAt
    <3> QED
      BY <2>1, <2>2, <2>3, <2>8, <3>1, <3>2, <3>5, <3>6
  <2> QED
    BY <1>3, <1>6, <2>1, <2>2, <2>3, <2>4, <2>6, <2>8
<1> QED
  BY <1>9, <1>10

(* The read sends the selected task and its principal, who was in front,   *)
(* to the back, and everyone behind either moves forward.                  *)
LEMMA ReadTurns ==
  ASSUME TurnInv, NEW found \in BOOLEAN, NEW signalled \in BOOLEAN, ReadSelected(found, signalled), ObInv'
  PROVE  DueTurnsFit' /\ SelectedAhead'
<1>1. /\ ObInv /\ obPassedOver \in [ObTasks -> Nat] /\ DueTurnsFit /\ SelectedAhead
      /\ obDue \subseteq obBound /\ obBound \subseteq ObTasks
      /\ obOwner \in [ObTasks -> ObPrincipals]
  BY DEF TurnInv, ObInv, ObTypes
<1>2. PICK s : s = obSelected
  OBVIOUS
<1>3. PICK q : q = obOwner[s]
  OBVIOUS
<1>4. s \in ObTasks /\ q \in ObPrincipals
  BY <1>1, <1>2, <1>3 DEF ReadSelected, ObInv, ObTypes
<1>5. /\ obBuckets' = WithBucket(q, ToBack(Bucket(q), s)) /\ obPrincipals' = ToBack(obPrincipals, q)
      /\ obOwner' = obOwner /\ obSelected' = NoTaskId /\ obDue' \subseteq obDue
      /\ obPassedOver' = [t \in ObTasks |-> IF t \in obDue' \ {s} THEN obPassedOver[t] + 1 ELSE 0]
  BY <1>2, <1>3 DEF ReadSelected, Rotate
<1>6. PICK ps : ps = obPrincipals
  OBVIOUS
<1>7. PICK ps2 : ps2 = obPrincipals'
  OBVIOUS
<1>8. ps \in Seq(ObPrincipals) /\ IsInjective(ps) /\ ps2 = ToBack(ps, q)
  BY <1>1, <1>5, <1>6, <1>7 DEF ObInv, QueueTypes, ObserverSeesEveryTask
<1>9. ps2 \in Seq(ObPrincipals) /\ IsInjective(ps2) /\ ToSet(ps2) = ToSet(ps)
  BY <1>8, BackFine
<1>10. /\ PlacedAt(ps, q, 1) /\ s \in ToSet(Bucket(q))
       /\ \A t \in obDue, i, k \in Nat :
            PlacedAt(Bucket(q), t, i) /\ PlacedAt(Bucket(q), s, k) /\ i < k => obPassedOver[t] = 0
  BY <1>1, <1>2, <1>3, <1>6 DEF SelectedAhead, ReadSelected
<1>11. /\ Bucket(q) \in Seq(ObTasks) /\ IsInjective(Bucket(q))
       /\ \A u \in ToSet(Bucket(q)) : obOwner[u] = q
  BY <1>1, <1>4, BucketIs
<1>12. PICK queue : queue = Bucket(q)
  OBVIOUS
<1>13. PICK queue2 : queue2 = ToBack(queue, s)
  OBVIOUS
<1>14. queue2 \in Seq(ObTasks) /\ IsInjective(queue2) /\ ToSet(queue2) = ToSet(queue)
  BY <1>11, <1>12, <1>13, BackFine
<1>15. BucketIn(obBuckets', q) = queue2
  BY <1>5, <1>12, <1>13 DEF BucketIn, WithBucket
<1>16. ASSUME NEW p, p # q
       PROVE  BucketIn(obBuckets', p) = Bucket(p)
  <2>1. (p \in DOMAIN obBuckets' <=> p \in DOMAIN obBuckets) /\ (p \in DOMAIN obBuckets => obBuckets'[p] = obBuckets[p])
    BY <1>5, <1>16 DEF WithBucket
  <2> QED
    BY <2>1 DEF BucketIn, Bucket
<1>17. PICK n : n = Cardinality(Owners)
  OBVIOUS
<1>18. PICK k : PlacedAt(queue, s, k) /\ k <= Len(queue)
  BY <1>10, <1>11, <1>12, HasPlace
<1>19. k \in Nat \ {0} /\ 1 \in Nat \ {0}
  BY <1>18 DEF PlacedAt
<1>20. ASSUME NEW t \in obDue'
       PROVE  TurnsFit(Cardinality(Owners), Cardinality(Owners) * Cardinality(Mates(t)), obPassedOver'[t],
                       BucketIn(obBuckets', obOwner[t]), obPrincipals', t, obOwner[t])
  <2>1. t \in obDue /\ t \in obBound /\ t \in ObTasks
    BY <1>1, <1>5, <1>20
  <2>2. PICK p : p = obOwner[t]
    OBVIOUS
  <2>3. p \in ObPrincipals
    BY <1>1, <2>1, <2>2
  <2>4. PICK mates : mates = Cardinality(Mates(t))
    OBVIOUS
  <2>5. PICK passed : passed = obPassedOver[t]
    OBVIOUS
  <2>6. PICK i, j : /\ PlacedAt(Bucket(p), t, i) /\ i <= mates /\ PlacedAt(ps, p, j) /\ j <= n
                    /\ n \in Nat /\ mates \in Nat
    BY <1>1, <1>6, <1>17, <2>1, <2>2, <2>4, TaskPlaces
  <2>7. passed + TurnsBefore(i, j, n) <= n * mates /\ passed \in Nat
    BY <1>1, <1>6, <1>17, <2>1, <2>2, <2>4, <2>5, <2>6 DEF DueTurnsFit, TurnsFit
  <2>8. i \in Nat \ {0} /\ j \in Nat \ {0}
    BY <2>6 DEF PlacedAt
  <2>9. p \in ToSet(ps)
    BY <2>6 DEF PlacedAt, ToSet
  <2>10. PICK m : PlacedAt(ps2, p, m) /\ m <= n /\ (p # q => m < j)
    <3>1. PICK m : PlacedAt(ps2, p, m) /\ m <= Len(ps2)
      BY <1>9, <2>9, HasPlace
    <3>2. Len(ps2) <= n
      <4>1. PICK bucket : bucket = Bucket(p)
        OBVIOUS
      <4>2. bucket \in Seq(ObTasks) /\ IsInjective(bucket) /\ \A u \in ToSet(bucket) : obOwner[u] = obOwner[t]
        BY <1>1, <2>2, <2>3, <4>1, BucketIs
      <4>3. ToSet(ps2) \subseteq ToSet(obPrincipals)
        BY <1>6, <1>9
      <4> QED
        BY <1>1, <1>9, <1>17, <2>1, <4>2, <4>3, QueuesFit
    <3>3. m <= n
      BY <1>9, <2>6, <3>1, <3>2 DEF PlacedAt
    <3>4. CASE p = q
      BY <3>1, <3>3, <3>4
    <3>5. CASE p # q
      <4>1. 1 < j
        <5>1. j # 1
          BY <1>10, <2>6, <3>5 DEF PlacedAt
        <5> QED
          BY <2>8, <5>1
      <4>2. PICK h : PlacedAt(ToBack(ps, q), p, h) /\ h <= j /\ (1 < j => h < j)
        BY <1>8, <1>10, <2>6, <3>5, BackPlaces
      <4>3. PlacedAt(ps2, p, h) /\ h < j
        BY <1>8, <4>1, <4>2
      <4>4. h <= n
        BY <2>6, <2>8, <4>3 DEF PlacedAt
      <4> QED
        BY <4>3, <4>4
    <3> QED
      BY <3>4, <3>5
  <2>11. m \in Nat \ {0}
    BY <2>10 DEF PlacedAt
  <2>12. CASE t = s
    <3>1. p = q /\ obPassedOver'[t] = 0
      BY <1>3, <1>5, <2>1, <2>2, <2>12
    <3>2. t \in ToSet(queue2)
      BY <1>10, <1>12, <1>14, <2>12
    <3>3. PICK h : PlacedAt(queue2, t, h) /\ h <= Len(queue2)
      BY <1>14, <3>2, HasPlace
    <3>4. \A u \in ToSet(queue2) : obOwner[u] = obOwner[t]
      BY <1>11, <1>12, <1>14, <2>2, <3>1
    <3>5. Len(queue2) <= mates
      <4>1. ToSet(ps) \subseteq ToSet(obPrincipals)
        BY <1>6
      <4> QED
        BY <1>1, <1>8, <1>14, <2>1, <2>4, <3>4, <4>1, QueuesFit
    <3>6. h <= mates
      BY <1>14, <2>6, <3>3, <3>5 DEF PlacedAt
    <3>7. TurnsFit(n, n * mates, 0, queue2, ps2, t, p)
      BY <1>9, <1>14, <2>6, <2>10, <3>3, <3>6, FreshFits
    <3> QED
      BY <1>7, <1>15, <1>17, <2>2, <2>4, <3>1, <3>7
  <2>13. CASE t # s
    <3>1. obPassedOver'[t] = passed + 1
      BY <1>5, <1>20, <2>1, <2>5, <2>13
    <3>2. CASE p # q
      <4>1. BucketIn(obBuckets', p) = Bucket(p)
        BY <1>16, <3>2
      <4>2. TurnsBefore(i, m, n) + 1 <= TurnsBefore(i, j, n) /\ TurnsBefore(i, j, n) \in Nat /\ TurnsBefore(i, m, n) \in Nat
        <5>1. i <= i /\ m < j /\ n \in Nat
          BY <2>6, <2>8, <2>10, <3>2
        <5>2. TurnsBefore(i, j, n) \in Nat /\ TurnsBefore(i, m, n) \in Nat
          BY <2>8, <2>11, <5>1, FewerTurns
        <5>3. TurnsBefore(i, m, n) + 1 <= TurnsBefore(i, j, n)
          BY <2>8, <2>11, <5>1, FewerTurns
        <5> QED
          BY <5>2, <5>3
      <4>3. n * mates \in Nat
        BY <2>6
      <4>4. passed + 1 + TurnsBefore(i, m, n) <= n * mates
        BY <2>7, <4>2, <4>3
      <4>5. PICK bucket : bucket = Bucket(p)
        OBVIOUS
      <4>6. IsInjective(bucket) /\ PlacedAt(bucket, t, i)
        BY <1>1, <2>3, <2>6, <4>5, BucketIs
      <4>7. PICK more : more = passed + 1
        OBVIOUS
      <4>8. TurnsFit(n, n * mates, more, bucket, ps2, t, p)
        BY <1>9, <2>10, <4>4, <4>6, <4>7, FitsThere
      <4> QED
        BY <1>7, <1>17, <2>2, <2>4, <3>1, <4>1, <4>5, <4>7, <4>8
    <3>3. CASE p = q
      <4>1. PlacedAt(queue, t, i) /\ queue \in Seq(ObTasks)
        BY <1>11, <1>12, <2>6, <3>3
      <4>2. PICK h : PlacedAt(queue2, t, h) /\ h <= i /\ (k < i => h < i)
        BY <1>13, <1>18, <2>13, <4>1, BackPlaces
      <4>3. h \in Nat \ {0} /\ k # i
        BY <1>18, <2>13, <4>1, <4>2 DEF PlacedAt
      <4>4. n * mates \in Nat
        BY <2>6
      <4>5. passed + 1 + TurnsBefore(h, m, n) <= n * mates
        <5>1. CASE k < i
          <6>1. TurnsBefore(h, m, n) + 1 <= TurnsBefore(i, j, n) /\ TurnsBefore(i, j, n) \in Nat /\ TurnsBefore(h, m, n) \in Nat
            BY <2>6, <2>8, <2>10, <2>11, <4>2, <4>3, <5>1, FewerTurns
          <6> QED
            BY <2>7, <4>4, <6>1
        <5>2. CASE i < k
          <6>1. passed = 0
            BY <1>10, <1>12, <1>18, <1>19, <2>1, <2>5, <2>8, <4>1, <5>2
          <6>2. h < k /\ 1 <= n
            BY <1>19, <2>6, <2>8, <4>2, <4>3, <5>2
          <6>3. TurnsBefore(h, m, n) + 1 <= TurnsBefore(k, 1, n) /\ TurnsBefore(h, m, n) \in Nat
            BY <1>19, <2>6, <2>10, <2>11, <4>3, <6>2, FewerTurns
          <6>4. TurnsBefore(k, 1, n) <= n * k /\ TurnsBefore(k, 1, n) \in Nat
            BY <1>19, <2>6, <6>2, FewerTurns
          <6>5. k <= mates
            <7>1. \A u \in ToSet(queue) : obOwner[u] = obOwner[t]
              BY <1>11, <1>12, <2>2, <3>3
            <7>2. ToSet(ps) \subseteq ToSet(obPrincipals) /\ IsInjective(queue)
              BY <1>6, <1>11, <1>12
            <7>3. Len(queue) <= mates
              BY <1>1, <1>8, <2>1, <2>4, <4>1, <7>1, <7>2, QueuesFit
            <7>4. Len(queue) \in Nat
              BY <4>1
            <7> QED
              BY <1>18, <1>19, <2>6, <7>3, <7>4
          <6>6. n * k <= n * mates /\ n * k \in Nat
            BY <1>19, <2>6, <6>5
          <6> QED
            BY <4>4, <6>1, <6>3, <6>4, <6>6
        <5> QED
          BY <1>19, <2>8, <4>3, <5>1, <5>2
      <4>6. PICK more : more = passed + 1
        OBVIOUS
      <4>7. TurnsFit(n, n * mates, more, queue2, ps2, t, p)
        BY <1>9, <1>14, <2>10, <4>2, <4>5, <4>6, FitsThere
      <4> QED
        BY <1>7, <1>15, <1>17, <2>2, <2>4, <3>1, <3>3, <4>6, <4>7
    <3> QED
      BY <3>2, <3>3
  <2> QED
    BY <2>12, <2>13
<1>21. DueTurnsFit'
  BY <1>5, <1>20, StepFits
<1>22. SelectedAhead'
  BY <1>5 DEF SelectedAhead
<1> QED
  BY <1>21, <1>22

(* Those before place n leave, and others may come in behind. *)
LEMMA FrontPlaces ==
  ASSUME NEW S, NEW seq \in Seq(S), NEW rest \in Seq(S), NEW n \in 1..Len(seq), NEW x, NEW j,
         PlacedAt(seq, x, j), n <= j
  PROVE  PlacedAt(SubSeq(seq, n, Len(seq)) \o rest, x, j - n + 1)
<1>1. Len(seq) \in Nat /\ DOMAIN seq = 1..Len(seq) /\ j \in 1..Len(seq) /\ seq[j] = x /\ n \in Nat
  BY DEF PlacedAt
<1>2. PICK part : part = SubSeq(seq, n, Len(seq))
  OBVIOUS
<1>3. /\ part \in Seq(S) /\ Len(part) = Len(seq) - n + 1
      /\ \A i \in 1..(Len(seq) - n + 1) : part[i] = seq[n + i - 1]
  <2>1. n \in Int /\ Len(seq) \in Int /\ \A i \in n..Len(seq) : seq[i] \in S
    BY <1>1
  <2>2. /\ part \in Seq(S) /\ Len(part) = IF n <= Len(seq) THEN Len(seq) - n + 1 ELSE 0
        /\ \A i \in 1..(Len(seq) - n + 1) : part[i] = seq[n + i - 1]
    BY <1>2, <2>1, SubSeqProperties
  <2>3. n <= Len(seq)
    BY <1>1
  <2> QED
    BY <2>2, <2>3
<1>4. PICK m : m = j - n + 1
  OBVIOUS
<1>5. m \in Nat \ {0} /\ m \in 1..Len(part) /\ m \in 1..(Len(seq) - n + 1) /\ n + m - 1 = j
  BY <1>1, <1>3, <1>4
<1>6. part[m] = x
  BY <1>1, <1>3, <1>5
<1>7. /\ part \o rest \in Seq(S) /\ Len(part \o rest) = Len(part) + Len(rest) /\ Len(rest) \in Nat /\ Len(part) \in Nat
      /\ \A i \in 1..(Len(part) + Len(rest)) : (part \o rest)[i] = IF i <= Len(part) THEN part[i] ELSE rest[i - Len(part)]
  <2>1. part \in Seq(S)
    BY <1>3
  <2> QED
    BY <2>1, ConcatProperties
<1>8. PICK all : all = part \o rest
  OBVIOUS
<1>9. m \in 1..(Len(part) + Len(rest)) /\ m <= Len(part)
  BY <1>5, <1>7
<1>10. all[m] = x
  BY <1>6, <1>7, <1>8, <1>9
<1>11. m \in DOMAIN all
  BY <1>7, <1>8, <1>9
<1>12. PlacedAt(all, x, m)
  BY <1>5, <1>10, <1>11 DEF PlacedAt
<1> QED
  BY <1>2, <1>4, <1>8, <1>12

(* Nothing kept was ahead of the first that is. *)
LEMMA FirstKept ==
  ASSUME NEW S, NEW seq \in Seq(S), IsInjective(seq), NEW keep, NEW kept, kept = Retain(seq, keep), kept # <<>>,
         NEW x \in keep, NEW i, NEW k, PlacedAt(seq, x, i), PlacedAt(seq, kept[1], k)
  PROVE  ~(i < k)
<1> SUFFICES ASSUME i < k
             PROVE  FALSE
  OBVIOUS
<1>1. DOMAIN seq = 1..Len(seq) /\ Len(seq) \in Nat /\ i \in 1..Len(seq) /\ k \in 1..Len(seq) /\ seq[i] = x /\ seq[k] = kept[1]
  BY DEF PlacedAt
<1>2. kept \in Seq(S) /\ ToSet(kept) = ToSet(seq) \cap keep /\ IsInjective(kept)
  BY Retained
<1>3. PICK rank :
           /\ \A h \in 1..Len(seq) : rank[h] \in 0..h
           /\ \A h \in 1..Len(seq) : seq[h] \in keep =>
                /\ rank[h] \in 1..Len(Retain(seq, keep))
                /\ Retain(seq, keep)[rank[h]] = seq[h]
           /\ \A g, h \in 1..Len(seq) : g < h =>
                /\ seq[h] \in keep => rank[g] < rank[h]
                /\ seq[g] \notin keep => rank[h] <= h - 1
  BY RetainedPlaces
<1>4. DOMAIN kept = 1..Len(kept) /\ 1 \in DOMAIN kept
  BY <1>2
<1>5. kept[1] \in keep
  <2>1. kept[1] \in ToSet(kept)
    BY <1>4 DEF ToSet
  <2> QED
    BY <1>2, <2>1
<1>6. rank[k] \in 1..Len(kept) /\ kept[rank[k]] = kept[1] /\ rank[i] \in 1..Len(kept)
  BY <1>1, <1>3, <1>5
<1>7. rank[k] = 1
  BY <1>2, <1>4, <1>6 DEF IsInjective
<1>8. rank[i] < rank[k]
  BY <1>1, <1>3, <1>5
<1> QED
  BY <1>6, <1>7, <1>8

(* A sweep moves a bound task forward only. *)
LEMMA SweptPlaces ==
  ASSUME ObInv, NEW inPass, NEW t \in obBound, NEW p, p = obOwner[t], NEW i, PlacedAt(Bucket(p), t, i)
  PROVE  /\ p \in DOMAIN obBuckets \ Emptied(inPass)
         /\ \E m : PlacedAt(Swept(inPass)[p], t, m) /\ m <= i
<1>1. p \in DOMAIN obBuckets
  BY DEF PlacedAt, Bucket
<1>2. PICK queue : queue = Bucket(p)
  OBVIOUS
<1>3. queue \in Seq(ObTasks) /\ queue = obBuckets[p] /\ PlacedAt(queue, t, i)
  BY <1>1, <1>2 DEF ObInv, QueueTypes, Bucket
<1>4. \E m : PlacedAt(Swept(inPass)[p], t, m) /\ m <= i
  <2>1. CASE p \in inPass
    <3>1. PICK bound : bound = obBound
      OBVIOUS
    <3>2. t \in bound
      BY <3>1
    <3>3. \E m : PlacedAt(Retain(queue, bound), t, m) /\ m <= i
      BY <1>3, <3>2, RetainPlaces
    <3>4. Swept(inPass)[p] = Retain(queue, bound)
      BY <1>1, <1>3, <2>1, <3>1 DEF Swept
    <3> QED
      BY <3>3, <3>4
  <2>2. CASE p \notin inPass
    <3>1. Swept(inPass)[p] = queue /\ i <= i
      BY <1>1, <1>3, <2>2 DEF Swept, PlacedAt
    <3> QED
      BY <1>3, <3>1
  <2> QED
    BY <2>1, <2>2
<1>5. p \notin Emptied(inPass)
  BY <1>4 DEF Emptied, PlacedAt
<1> QED
  BY <1>1, <1>4, <1>5

(* The scan leaves every due task where it was or closer, and selects the  *)
(* first due one of the principal it leaves in front.                      *)
LEMMA ScanTurns ==
  ASSUME TurnInv, Scan, ObInv'
  PROVE  DueTurnsFit' /\ SelectedAhead'
<1>1. /\ ObInv /\ obPassedOver \in [ObTasks -> Nat] /\ DueTurnsFit
      /\ obDue \subseteq obBound /\ obBound \subseteq ObTasks
      /\ obOwner \in [ObTasks -> ObPrincipals]
  BY DEF TurnInv, ObInv, ObTypes
<1>2. UNCHANGED <<obOwner, obBound, obDue, obPassedOver>>
  BY DEF Scan
<1>3. /\ obPrincipals \in Seq(ObPrincipals) /\ IsInjective(obPrincipals) /\ Len(obPrincipals) \in Nat
      /\ DOMAIN obPrincipals = 1..Len(obPrincipals)
  BY <1>1 DEF ObInv, QueueTypes, ObserverSeesEveryTask
<1>4. ASSUME NEW t \in obDue
      PROVE  \E i, j : /\ PlacedAt(Bucket(obOwner[t]), t, i) /\ PlacedAt(obPrincipals, obOwner[t], j)
                       /\ j \in DueTurns
                       /\ obPassedOver[t] + TurnsBefore(i, j, Cardinality(Owners)) <= Cardinality(Owners) * Cardinality(Mates(t))
                       /\ Cardinality(Owners) \in Nat /\ Cardinality(Mates(t)) \in Nat
  <2>1. t \in obBound
    BY <1>1, <1>4
  <2>2. PICK i, j : /\ PlacedAt(Bucket(obOwner[t]), t, i) /\ PlacedAt(obPrincipals, obOwner[t], j)
                    /\ Cardinality(Owners) \in Nat /\ Cardinality(Mates(t)) \in Nat
    BY <1>1, <2>1, TaskPlaces
  <2>3. t \in ToSet(Bucket(obOwner[t]))
    BY <1>1, <2>1 DEF ObInv, ObserverSeesEveryTask
  <2>4. j \in DueTurns
    BY <1>4, <2>2, <2>3 DEF DueTurns, PlacedAt
  <2>5. obPassedOver[t] + TurnsBefore(i, j, Cardinality(Owners)) <= Cardinality(Owners) * Cardinality(Mates(t))
    BY <1>1, <1>4, <2>2 DEF DueTurnsFit, TurnsFit
  <2> QED
    BY <2>2, <2>4, <2>5
<1>5. CASE DueTurns = {}
  <2>1. obDue = {} /\ obSelected' = NoTaskId
    BY <1>4, <1>5 DEF Scan
  <2> QED
    BY <1>2, <2>1 DEF DueTurnsFit, SelectedAhead
<1>6. CASE DueTurns # {}
  <2>1. DueTurns \subseteq 1..Len(obPrincipals)
    BY <1>3 DEF DueTurns
  <2>2. PICK n \in 1..Len(obPrincipals) : n = Min(DueTurns) /\ n \in DueTurns /\ \A y \in DueTurns : n <= y
    <3>1. DueTurns \subseteq Nat
      BY <1>3, <2>1
    <3>2. \E x \in DueTurns : \A y \in DueTurns : x <= y
      BY <1>6, <3>1, Least
    <3>3. Min(DueTurns) \in DueTurns /\ \A y \in DueTurns : Min(DueTurns) <= y
      BY <3>2, Zenon DEF Min
    <3> QED
      BY <2>1, <3>3
  <2>3. PICK pass : pass = ToSet(SubSeq(obPrincipals, 1, n))
    OBVIOUS
  <2>4. PICK back : back = Retain(SubSeq(obPrincipals, 1, n - 1), DOMAIN Swept(pass) \ Emptied(pass))
    OBVIOUS
  <2>5. Len(SubSeq(obPrincipals, 1, n - 1)) = n - 1 /\ SubSeq(obPrincipals, 1, n - 1) \in Seq(ObPrincipals)
    <3>1. 1 \in 1..(Len(obPrincipals) + 1) /\ n - 1 \in (1 - 1)..Len(obPrincipals)
      BY <1>3
    <3>2. Len(SubSeq(obPrincipals, 1, n - 1)) = (n - 1) - 1 + 1 /\ SubSeq(obPrincipals, 1, n - 1) \in Seq(ObPrincipals)
      BY <1>3, <3>1, Sliced
    <3> QED
      BY <1>3, <3>2
  <2>6. /\ obBuckets' = Restrict(Swept(pass), DOMAIN Swept(pass) \ Emptied(pass))
        /\ obPrincipals' = SubSeq(obPrincipals, Len(SubSeq(obPrincipals, 1, n - 1)) + 1, Len(obPrincipals)) \o back
        /\ obSelected' = Retain(Swept(pass)[obPrincipals[n]], obDue)[1]
    BY <1>6, <2>2, <2>3, <2>4 DEF Scan, Swept, Emptied
  <2>7. PICK ps : ps = obPrincipals
    OBVIOUS
  <2>8. PICK ps2 : ps2 = obPrincipals'
    OBVIOUS
  <2>9. (n - 1) + 1 = n /\ n \in 1..Len(ps)
    BY <1>3, <2>2, <2>7
  <2>10. ps2 = SubSeq(ps, n, Len(ps)) \o back
    BY <2>5, <2>6, <2>7, <2>8, <2>9
  <2>11. back \in Seq(ObPrincipals)
    <3>1. PICK visited : visited = SubSeq(obPrincipals, 1, n - 1)
      OBVIOUS
    <3>2. PICK left : left = DOMAIN Swept(pass) \ Emptied(pass)
      OBVIOUS
    <3>3. visited \in Seq(ObPrincipals) /\ back = Retain(visited, left)
      BY <2>4, <2>5, <3>1, <3>2
    <3> QED
      BY <3>3, Retained
  <2>12. ps \in Seq(ObPrincipals) /\ IsInjective(ps) /\ IsInjective(ps2)
    BY <1>3, <2>7, <2>8 DEF ObInv, ObserverSeesEveryTask
  <2>13. ASSUME NEW x, NEW j, PlacedAt(ps, x, j), n <= j
         PROVE  PlacedAt(ps2, x, j - n + 1)
    <3>1. PlacedAt(SubSeq(ps, n, Len(ps)) \o back, x, j - n + 1)
      BY <2>9, <2>11, <2>12, <2>13, FrontPlaces
    <3> QED
      BY <2>10, <3>1
  <2>14. ASSUME NEW p \in DOMAIN obBuckets \ Emptied(pass)
         PROVE  BucketIn(obBuckets', p) = Swept(pass)[p]
    BY <2>6, <2>14 DEF BucketIn, Restrict, Swept
  <2>15. ASSUME NEW t \in obDue'
         PROVE  TurnsFit(Cardinality(Owners), Cardinality(Owners) * Cardinality(Mates(t)), obPassedOver'[t],
                         BucketIn(obBuckets', obOwner[t]), obPrincipals', t, obOwner[t])
    <3>1. t \in obDue /\ t \in obBound /\ t \in ObTasks /\ obPassedOver'[t] = obPassedOver[t]
      BY <1>1, <1>2
    <3>2. PICK p : p = obOwner[t]
      OBVIOUS
    <3>3. PICK passed : passed = obPassedOver[t]
      OBVIOUS
    <3>4. PICK owners : owners = Cardinality(Owners)
      OBVIOUS
    <3>5. PICK mates : mates = Cardinality(Mates(t))
      OBVIOUS
    <3>6. PICK i, j : /\ PlacedAt(Bucket(p), t, i) /\ PlacedAt(ps, p, j) /\ j \in DueTurns
                      /\ passed + TurnsBefore(i, j, owners) <= owners * mates
                      /\ owners \in Nat /\ mates \in Nat /\ passed \in Nat
      BY <1>1, <1>4, <2>7, <3>1, <3>2, <3>3, <3>4, <3>5
    <3>7. p \in DOMAIN obBuckets \ Emptied(pass) /\ \E m : PlacedAt(Swept(pass)[p], t, m) /\ m <= i
      BY <1>1, <3>1, <3>2, <3>6, SweptPlaces
    <3>8. PICK queue2 : queue2 = BucketIn(obBuckets', p)
      OBVIOUS
    <3>9. PICK m : PlacedAt(queue2, t, m) /\ m <= i
      BY <2>14, <3>7, <3>8
    <3>10. PICK h : h = j - n + 1
      OBVIOUS
    <3>11. PlacedAt(ps2, p, h)
      BY <2>2, <2>13, <3>6, <3>10
    <3>12. i \in Nat \ {0} /\ j \in Nat \ {0} /\ m \in Nat \ {0} /\ h \in Nat \ {0}
      BY <3>6, <3>9, <3>11 DEF PlacedAt
    <3>13. h <= j
      BY <2>9, <2>12, <3>10, <3>12
    <3>14. TurnsBefore(m, h, owners) <= TurnsBefore(i, j, owners)
      BY <3>6, <3>9, <3>12, <3>13, FewerTurns
    <3>15. TurnsBefore(m, h, owners) \in Nat /\ TurnsBefore(i, j, owners) \in Nat
      BY <3>6, <3>12, FewerTurns
    <3>16. owners * mates \in Nat
      BY <3>6
    <3>17. passed + TurnsBefore(m, h, owners) <= owners * mates
      BY <3>6, <3>14, <3>15, <3>16
    <3>18. IsInjective(queue2)
      <4>1. p \in DOMAIN obBuckets /\ queue2 = Swept(pass)[p]
        BY <2>14, <3>7, <3>8
      <4>2. IsInjective(Swept(pass)[p])
        BY <1>1, <4>1, SweptIs
      <4> QED
        BY <4>1, <4>2
    <3>19. TurnsFit(owners, owners * mates, passed, queue2, ps2, t, p)
      BY <2>12, <3>9, <3>11, <3>17, <3>18, FitsThere
    <3> QED
      BY <2>8, <3>1, <3>2, <3>3, <3>4, <3>5, <3>8, <3>19
  <2>16. DueTurnsFit'
    BY <1>2, <2>15, StepFits
  <2>17. PICK q : q = obPrincipals[n]
    OBVIOUS
  <2>18. PICK due : due = obDue
    OBVIOUS
  <2>19. PICK swept : swept = Swept(pass)[q]
    OBVIOUS
  <2>20. ToSet(Bucket(q)) \cap due # {} /\ q \in DOMAIN obBuckets
    <3>1. ToSet(Bucket(q)) \cap due # {}
      BY <2>2, <2>17, <2>18 DEF DueTurns
    <3> QED
      BY <3>1 DEF Bucket, ToSet
  <2>21. /\ swept \in Seq(ObTasks) /\ IsInjective(swept)
         /\ ToSet(swept) = IF q \in pass THEN ToSet(obBuckets[q]) \cap obBound ELSE ToSet(obBuckets[q])
    BY <1>1, <2>19, <2>20, SweptIs
  <2>22. ToSet(swept) \cap due # {}
    BY <1>1, <2>18, <2>20, <2>21 DEF Bucket
  <2>23. PICK kept : kept = Retain(swept, due)
    OBVIOUS
  <2>24. kept \in Seq(ObTasks) /\ ToSet(kept) = ToSet(swept) \cap due
    BY <2>21, <2>23, Retained
  <2>25. kept # <<>>
    BY <2>22, <2>24, EmptyIs
  <2>26. kept[1] \in ToSet(kept)
    BY <2>24, <2>25 DEF ToSet
  <2>27. PICK s : s = obSelected'
    OBVIOUS
  <2>28. s = kept[1] /\ s \in ToSet(swept) /\ s \in ToSet(obBuckets[q])
    BY <2>6, <2>17, <2>18, <2>19, <2>21, <2>23, <2>24, <2>26, <2>27
  <2>29. obOwner[s] = q
    BY <1>1, <2>20, <2>28 DEF ObInv, ObserverSeesEveryTask
  <2>30. BucketIn(obBuckets', q) = swept
    <3>1. swept # <<>>
      BY <2>21, <2>22, EmptyIs
    <3>2. q \notin Emptied(pass)
      BY <2>19, <3>1 DEF Emptied
    <3> QED
      BY <2>14, <2>19, <2>20, <3>2
  <2>31. PlacedAt(ps2, q, 1)
    <3>1. PlacedAt(ps, q, n)
      BY <1>3, <2>2, <2>7, <2>17 DEF PlacedAt
    <3>2. n <= n /\ n - n + 1 = 1
      BY <2>9, <2>12
    <3>3. PlacedAt(ps2, q, n - n + 1)
      BY <2>13, <3>1, <3>2
    <3> QED
      BY <3>2, <3>3
  <2>32. ASSUME NEW t \in due, NEW i \in Nat, NEW k \in Nat, PlacedAt(swept, t, i), PlacedAt(swept, s, k), i < k
         PROVE  FALSE
    <3>1. PlacedAt(swept, kept[1], k)
      BY <2>28, <2>32
    <3>2. ~(i < k)
      BY <2>21, <2>23, <2>25, <2>32, <3>1, FirstKept
    <3> QED
      BY <2>32, <3>2
  <2>33. Bucket(obOwner[obSelected])' = swept
    BY <1>2, <2>27, <2>29, <2>30 DEF Bucket, BucketIn
  <2>34. obOwner'[obSelected'] = q /\ obDue' = due
    BY <1>2, <2>18, <2>27, <2>29
  <2>35. SelectedAhead'
    BY <2>8, <2>27, <2>28, <2>31, <2>32, <2>33, <2>34 DEF SelectedAhead
  <2> QED
    BY <2>16, <2>35
<1> QED
  BY <1>5, <1>6

(* Nothing is due at first. *)
LEMMA TurnInitFine ==
  ASSUME ObInit
  PROVE  TurnInv
<1>1. ObInv
  BY ObInitFine
<1>2. obPassedOver \in [ObTasks -> Nat] /\ DueTurnsFit /\ SelectedAhead
  BY DEF ObInit, DueTurnsFit, SelectedAhead
<1> QED
  BY <1>1, <1>2 DEF TurnInv

(* Every step keeps the turns. *)
LEMMA TurnStepFine ==
  ASSUME TurnInv, [ObNext]_obVars
  PROVE  TurnInv'
<1>1. ObInv /\ obPassedOver \in [ObTasks -> Nat]
  BY DEF TurnInv
<1>2. ObInv'
  BY <1>1, ObStepFine
<1> SUFFICES obPassedOver' \in [ObTasks -> Nat] /\ DueTurnsFit' /\ SelectedAhead'
  BY <1>2 DEF TurnInv
<1>3. ASSUME NEW t \in ObTasks, Bind(t)
      PROVE  obPassedOver' \in [ObTasks -> Nat] /\ DueTurnsFit' /\ SelectedAhead'
  <2>1. obPassedOver' = obPassedOver
    BY <1>3 DEF Bind
  <2> QED
    BY <1>1, <1>2, <1>3, <2>1, BindTurns
<1>4. ASSUME NEW t \in ObTasks, FallsDue(t)
      PROVE  obPassedOver' \in [ObTasks -> Nat] /\ DueTurnsFit' /\ SelectedAhead'
  <2>1. obPassedOver' \in [ObTasks -> Nat]
    BY <1>1, <1>4 DEF FallsDue
  <2> QED
    BY <1>4, <2>1, FallsDueTurns
<1>5. ASSUME NEW t \in ObTasks, ClientObserves(t) \/ ClientEvicts(t)
      PROVE  obPassedOver' \in [ObTasks -> Nat] /\ DueTurnsFit' /\ SelectedAhead'
  <2>1. /\ UNCHANGED <<obOwner, obPrincipals, obBuckets, obPassedOver>> /\ obDue' \subseteq obDue
        /\ obSelected' = obSelected
    BY <1>5 DEF ClientObserves, ClientEvicts
  <2> QED
    BY <1>1, <2>1, QuietTurns
<1>6. CASE Scan
  <2>1. obPassedOver' = obPassedOver
    BY <1>6 DEF Scan
  <2> QED
    BY <1>1, <1>2, <1>6, <2>1, ScanTurns
<1>7. CASE WindowFull \/ ReadCoalesced \/ UNCHANGED obVars
  <2>1. /\ UNCHANGED <<obOwner, obPrincipals, obBuckets, obPassedOver>> /\ obDue' \subseteq obDue
        /\ obSelected' = obSelected \/ obSelected' = NoTaskId
    BY <1>7 DEF WindowFull, ReadCoalesced, obVars
  <2> QED
    BY <1>1, <2>1, QuietTurns
<1>8. ASSUME NEW found \in BOOLEAN, NEW signalled \in BOOLEAN, ReadSelected(found, signalled)
      PROVE  obPassedOver' \in [ObTasks -> Nat] /\ DueTurnsFit' /\ SelectedAhead'
  <2>1. obPassedOver' \in [ObTasks -> Nat]
    BY <1>1, <1>8 DEF ReadSelected
  <2> QED
    BY <1>2, <1>8, <2>1, ReadTurns
<1> QED
  BY <1>3, <1>4, <1>5, <1>6, <1>7, <1>8 DEF ObNext

(* A due task is read before the others have taken more than their turns:  *)
(* the observer is fair among principals, and among a principal's tasks,   *)
(* whatever falls due, is bound, read or evicted meanwhile.                *)
THEOREM DueTaskTurns == ObSpec => []DueTaskIsNext
<1>1. TurnInv => DueTaskIsNext
  <2> SUFFICES ASSUME TurnInv, NEW t \in obDue
               PROVE  obPassedOver[t] < Cardinality(Owners) * Cardinality(Mates(t))
    BY DEF DueTaskIsNext, Owners, Mates
  <2>1. ObInv /\ t \in obBound /\ t \in ObTasks /\ DueTurnsFit /\ obPassedOver[t] \in Nat
    BY DEF TurnInv, ObInv, ObTypes
  <2>2. PICK i, j : /\ PlacedAt(Bucket(obOwner[t]), t, i) /\ PlacedAt(obPrincipals, obOwner[t], j)
                    /\ Cardinality(Owners) \in Nat /\ Cardinality(Mates(t)) \in Nat
    BY <2>1, TaskPlaces
  <2>3. obPassedOver[t] + TurnsBefore(i, j, Cardinality(Owners)) <= Cardinality(Owners) * Cardinality(Mates(t))
    BY <2>1, <2>2 DEF DueTurnsFit, TurnsFit
  <2>4. PICK n : n = Cardinality(Owners)
    OBVIOUS
  <2>5. i \in Nat \ {0} /\ j \in Nat \ {0} /\ n \in Nat
    BY <2>2, <2>4 DEF PlacedAt
  <2>6. TurnsBefore(i, j, n) \in Nat \ {0}
    BY <2>5, FewerTurns
  <2>7. Cardinality(Owners) * Cardinality(Mates(t)) \in Nat
    BY <2>2
  <2> QED
    BY <2>1, <2>3, <2>4, <2>6, <2>7
<1>2. ObInit => TurnInv
  BY TurnInitFine
<1>3. TurnInv /\ [ObNext]_obVars => TurnInv'
  BY TurnStepFine
<1> QED
  BY <1>1, <1>2, <1>3, PTL DEF ObSpec

-----------------------------------------------------------------------------
(* EventStores: memory *)

MemEvents == [seq : Nat, at : Nat]

(* MemoryIsIndexed of any streams and order, with their types. *)
MemFine(streams, order) ==
  /\ order \in Seq(EvStreams) /\ IsInjective(order) /\ ToSet(order) = DOMAIN streams
  /\ Len(order) <= EvMaxStreams
  /\ \A s \in DOMAIN streams :
       streams[s] \in Seq(MemEvents) /\ Len(streams[s]) \in 1..MemKeeps

(* Every event a stream sends has a number, and a resumed stream lags. *)
EvSending ==
  /\ evClock \in Nat
  /\ evSent \in [EvStreams -> 0..(EvMaxSeq + 1)] /\ evResumed \in [EvStreams -> 0..(EvMaxSeq + 1)]

(* The inductive invariant of the memory store. *)
MemInv == EvSending /\ MemFine(memStreams, memOrder)

(* Expired events go, and with them the streams they leave empty. *)
LEMMA MemPrunedFine ==
  ASSUME NEW streams, NEW order, MemFine(streams, order), MemPruned(streams, order)
  PROVE  MemFine(memStreams', memOrder')
<1> DEFINE queues == [s \in DOMAIN streams |-> Retain(streams[s], {e \in ToSet(streams[s]) : Fresh(e.at)})]
           kept == {s \in DOMAIN streams : queues[s] # <<>>}
<1>1. memStreams' = Restrict(queues, kept) /\ memOrder' = Retain(order, kept)
  BY DEF MemPruned
<1>2. DOMAIN memStreams' = kept /\ \A s \in kept : memStreams'[s] = queues[s]
  BY <1>1 DEF Restrict
<1>3. /\ order \in Seq(EvStreams) /\ IsInjective(order) /\ ToSet(order) = DOMAIN streams
      /\ Len(order) \in Nat /\ Len(order) <= EvMaxStreams /\ EvMaxStreams \in Nat /\ MemKeeps \in Nat
  BY EvAssumption DEF MemFine, MemKeeps
<1>4. /\ memOrder' \in Seq(EvStreams) /\ IsInjective(memOrder') /\ ToSet(memOrder') = kept
      /\ Len(memOrder') <= EvMaxStreams
  <2>1. PICK k : k = kept
    OBVIOUS
  <2>2. /\ Retain(order, k) \in Seq(EvStreams) /\ IsInjective(Retain(order, k))
        /\ ToSet(Retain(order, k)) = ToSet(order) \cap k /\ Len(Retain(order, k)) <= Len(order)
    BY <1>3, Retained
  <2>3. memOrder' = Retain(order, k) /\ k \subseteq DOMAIN streams
    BY <1>1, <2>1
  <2>4. Len(Retain(order, k)) \in Nat
    BY <2>2
  <2> HIDE DEF queues, kept
  <2>5. Len(memOrder') <= EvMaxStreams
    BY <1>3, <2>2, <2>3, <2>4
  <2>6. ToSet(memOrder') = kept
    BY <1>3, <2>1, <2>2, <2>3
  <2> QED
    BY <2>2, <2>3, <2>5, <2>6
<1>5. ASSUME NEW s \in kept
      PROVE  memStreams'[s] \in Seq(MemEvents) /\ Len(memStreams'[s]) \in 1..MemKeeps
  <2>1. s \in DOMAIN streams /\ queues[s] # <<>> /\ memStreams'[s] = queues[s]
    BY <1>2, <1>5
  <2>2. streams[s] \in Seq(MemEvents) /\ Len(streams[s]) \in 1..MemKeeps
    BY <2>1 DEF MemFine
  <2>3. PICK fresh : fresh = {e \in ToSet(streams[s]) : Fresh(e.at)}
    OBVIOUS
  <2>4. queues[s] = Retain(streams[s], fresh)
    BY <2>1, <2>3
  <2>5. Retain(streams[s], fresh) \in Seq(MemEvents) /\ Len(Retain(streams[s], fresh)) <= Len(streams[s])
    BY <2>2, Retained
  <2> HIDE DEF queues, kept
  <2>6. Len(Retain(streams[s], fresh)) \in 1..MemKeeps
    BY <1>3, <2>1, <2>2, <2>4, <2>5
  <2> QED
    BY <2>1, <2>2, <2>4, <2>5, <2>6
<1> HIDE DEF queues, kept
<1> QED
  BY <1>2, <1>4, <1>5 DEF MemFine

(* A stream with one more event, at the end of the order, within bounds. *)
LEMMA MemStoreFine ==
  ASSUME MemInv, NEW s \in EvStreams, NEW n \in Nat, NEW at \in Nat, MemStore(s, n, at)
  PROVE  MemFine(memStreams', memOrder')
<1> DEFINE e == [seq |-> n, at |-> at]
           queue == IF s \in DOMAIN memStreams THEN memStreams[s] ELSE <<>>
           room == IF queue # <<>> /\ Len(queue) >= EvMaxEvents THEN Tail(queue) ELSE queue
<1>1. /\ EvMaxEvents \in Nat /\ EvMaxStreams \in Nat /\ MemKeeps \in Nat /\ MemKeeps >= 1 /\ MemKeeps >= EvMaxEvents
      /\ MemKeeps = 1 \/ MemKeeps = EvMaxEvents
  BY EvAssumption DEF MemKeeps
<1>2. /\ memOrder \in Seq(EvStreams) /\ IsInjective(memOrder) /\ ToSet(memOrder) = DOMAIN memStreams
      /\ Len(memOrder) \in Nat /\ Len(memOrder) <= EvMaxStreams
  BY DEF MemInv, MemFine
<1>3. e \in MemEvents
  BY DEF MemEvents
<1>4. queue \in Seq(MemEvents) /\ Len(queue) \in Nat /\ Len(queue) <= MemKeeps
  <2>1. CASE s \in DOMAIN memStreams
    BY <1>1, <2>1 DEF MemInv, MemFine
  <2>2. CASE s \notin DOMAIN memStreams
    <3>1. <<>> \in Seq(MemEvents) /\ Len(<<>>) = 0
      OBVIOUS
    <3> QED
      BY <1>1, <2>2, <3>1
  <2> QED
    BY <2>1, <2>2
<1> HIDE DEF queue, e
<1>5. room \in Seq(MemEvents) /\ Len(room) \in Nat /\ Len(room) < MemKeeps
  <2>1. CASE queue # <<>> /\ Len(queue) >= EvMaxEvents
    <3>1. Len(queue) > 0
      BY <1>4, <2>1
    <3>2. Tail(queue) \in Seq(MemEvents) /\ Len(Tail(queue)) = Len(queue) - 1
      BY <1>4, <3>1, Tailed
    <3> QED
      BY <1>1, <1>4, <2>1, <3>1, <3>2
  <2>2. CASE queue = <<>>
    BY <1>1, <1>4, <2>2
  <2>3. CASE ~(Len(queue) >= EvMaxEvents)
    BY <1>1, <1>4, <2>3
  <2> QED
    BY <2>1, <2>2, <2>3
<1> DEFINE pushed == MemPushed(s, e)
           touched == TouchStream(memOrder, s)
           order == TrimStreams(touched)
           streams == Restrict(pushed, ToSet(order))
<1>6. /\ DOMAIN pushed = DOMAIN memStreams \cup {s} /\ pushed[s] = Append(room, e)
      /\ \A t \in DOMAIN memStreams : t # s => pushed[t] = memStreams[t]
  BY DEF MemPushed, queue
<1> HIDE DEF room
<1>7. Append(room, e) \in Seq(MemEvents) /\ Len(Append(room, e)) \in 1..MemKeeps
  <2>1. Append(room, e) \in Seq(MemEvents) /\ Len(Append(room, e)) = Len(room) + 1
    BY <1>3, <1>5, Appended
  <2> QED
    BY <1>1, <1>3, <1>5, <2>1
<1>8. \A t \in DOMAIN pushed : pushed[t] \in Seq(MemEvents) /\ Len(pushed[t]) \in 1..MemKeeps
  <2> SUFFICES ASSUME NEW t \in DOMAIN pushed
               PROVE  pushed[t] \in Seq(MemEvents) /\ Len(pushed[t]) \in 1..MemKeeps
    OBVIOUS
  <2> HIDE DEF pushed
  <2>1. CASE t = s
    BY <1>6, <1>7, <2>1
  <2>2. CASE t # s
    BY <1>6, <2>2 DEF MemInv, MemFine
  <2> QED
    BY <2>1, <2>2
<1>9. touched \in Seq(EvStreams) /\ IsInjective(touched) /\ ToSet(touched) = DOMAIN pushed /\ Len(touched) \in Nat
  <2>1. PICK others : others = Retain(memOrder, ToSet(memOrder) \ {s})
    OBVIOUS
  <2>2. others \in Seq(EvStreams) /\ IsInjective(others) /\ ToSet(others) = ToSet(memOrder) \ {s}
    BY <1>2, <2>1, Retained
  <2>3. touched = Append(others, s)
    BY <2>1 DEF TouchStream
  <2> HIDE DEF touched, pushed
  <2>4. s \notin ToSet(others)
    BY <2>2
  <2>5. /\ Append(others, s) \in Seq(EvStreams) /\ IsInjective(Append(others, s))
        /\ ToSet(Append(others, s)) = ToSet(others) \cup {s}
    BY <2>2, <2>4, Appended
  <2>6. ToSet(touched) = DOMAIN pushed
    BY <1>2, <1>6, <2>2, <2>3, <2>5
  <2>7. Len(Append(others, s)) \in Nat
    BY <2>5
  <2> QED
    BY <2>3, <2>5, <2>6, <2>7
<1> HIDE DEF touched, pushed
<1>10. order \in Seq(EvStreams) /\ IsInjective(order) /\ ToSet(order) \subseteq DOMAIN pushed /\ Len(order) <= EvMaxStreams
  <2>1. CASE Len(touched) > EvMaxStreams
    <3>1. PICK m : m = Len(touched) - EvMaxStreams + 1
      OBVIOUS
    <3>2. m \in 1..(Len(touched) + 1) /\ Len(touched) \in (m - 1)..Len(touched)
      BY <1>1, <1>9, <2>1, <3>1
    <3>3. /\ SubSeq(touched, m, Len(touched)) \in Seq(EvStreams)
          /\ Len(SubSeq(touched, m, Len(touched))) = Len(touched) - m + 1
          /\ ToSet(SubSeq(touched, m, Len(touched))) = {touched[i] : i \in m..Len(touched)}
          /\ IsInjective(SubSeq(touched, m, Len(touched)))
      BY <1>9, <3>2, Sliced
    <3>4. {touched[i] : i \in m..Len(touched)} \subseteq ToSet(touched)
      <4>1. m..Len(touched) \subseteq DOMAIN touched
        BY <1>9, <3>2
      <4> QED
        BY <4>1 DEF ToSet
    <3>5. order = SubSeq(touched, m, Len(touched))
      BY <2>1, <3>1 DEF TrimStreams
    <3>6. Len(touched) - m + 1 = EvMaxStreams
      BY <1>1, <1>9, <3>1
    <3> HIDE DEF order
    <3> QED
      BY <1>1, <1>9, <3>3, <3>4, <3>5, <3>6
  <2>2. CASE ~(Len(touched) > EvMaxStreams)
    BY <1>1, <1>9, <2>2 DEF TrimStreams
  <2> QED
    BY <2>1, <2>2
<1>11. MemPruned(streams, order)
  BY DEF MemStore, e, touched, pushed
<1> HIDE DEF order
<1>12. DOMAIN streams = ToSet(order) /\ \A t \in ToSet(order) : streams[t] = pushed[t]
  BY DEF Restrict
<1> HIDE DEF streams
<1>13. MemFine(streams, order)
  BY <1>8, <1>10, <1>12 DEF MemFine
<1>14. PICK streams0, order0 : streams0 = streams /\ order0 = order
  OBVIOUS
<1>15. MemFine(streams0, order0) /\ MemPruned(streams0, order0)
  BY <1>11, <1>13, <1>14
<1> QED
  BY <1>15, MemPrunedFine

(* Both stores start empty. *)
LEMMA MemInitFine ==
  ASSUME EvInit
  PROVE  MemInv
<1>1. <<>> \in Seq(EvStreams) /\ ToSet(<<>>) = {} /\ IsInjective(<<>>) /\ DOMAIN <<>> = {} /\ Len(<<>>) = 0
  BY DEF ToSet, IsInjective
<1>2. EvMaxStreams \in Nat /\ EvMaxSeq \in Nat /\ EvMaxTime \in Nat
  BY EvAssumption
<1>3. EvSending
  BY <1>2 DEF EvInit, EvSending
<1>4. MemFine(memStreams, memOrder)
  BY <1>1, <1>2 DEF EvInit, MemFine
<1> QED
  BY <1>3, <1>4 DEF MemInv

(* What is sent keeps its numbers. *)
LEMMA SendingStep ==
  ASSUME EvSending, [EvNext]_evVars
  PROVE  EvSending'
<1> USE DEF EvSending
<1>0. EvMaxSeq \in Nat /\ EvMaxTime \in Nat
  BY EvAssumption
<1>1. ASSUME NEW s \in EvStreams, Record(s) PROVE EvSending'
  <2>1. /\ evSent[s] \in 0..(EvMaxSeq + 1) /\ evSent[s] <= EvMaxSeq /\ evClock' = evClock
        /\ evSent' = [evSent EXCEPT ![s] = @ + 1]
        /\ evResumed' = IF evResumed[s] = evSent[s] THEN [evResumed EXCEPT ![s] = @ + 1] ELSE evResumed
    BY <1>1 DEF Record, StoreEvent
  <2>2. evSent[s] + 1 \in 0..(EvMaxSeq + 1)
    BY <1>0, <2>1
  <2> QED
    BY <2>1, <2>2
<1>2. ASSUME NEW s \in EvStreams, RecordAgain(s) PROVE EvSending'
  <2>1. /\ evSent[s] \in 0..(EvMaxSeq + 1) /\ evResumed[s] \in 0..(EvMaxSeq + 1) /\ evResumed[s] < evSent[s]
        /\ evClock' = evClock /\ evSent' = evSent /\ evResumed' = [evResumed EXCEPT ![s] = @ + 1]
    BY <1>2 DEF RecordAgain, StoreEvent
  <2>2. evResumed[s] + 1 \in 0..(EvMaxSeq + 1)
    BY <1>0, <2>1
  <2> QED
    BY <2>1, <2>2
<1>3. ASSUME NEW s \in EvStreams, NEW n \in 0..EvMaxSeq, Resume(s, n) PROVE EvSending'
  <2>1. n \in 0..(EvMaxSeq + 1)
    BY <1>0
  <2> QED
    BY <1>3, <2>1 DEF Resume
<1>4. CASE ReplayAfter \/ WorkerRuns \/ WorkerFails \/ UNCHANGED evVars
  BY <1>4 DEF ReplayAfter, WorkerRuns, WorkerFails, evVars
<1>5. CASE EvClockSet
  <2>1. evClock' \in 0..EvMaxTime /\ UNCHANGED <<evSent, evResumed>>
    BY <1>5 DEF EvClockSet
  <2> QED
    BY <1>0, <2>1
<1> QED
  BY <1>1, <1>2, <1>3, <1>4, <1>5 DEF EvNext

(* Every step keeps the invariant. *)
LEMMA MemStepFine ==
  ASSUME MemInv, [EvNext]_evVars
  PROVE  MemInv'
<1>0. EvSending' /\ EvSending /\ MemFine(memStreams, memOrder)
  BY SendingStep DEF MemInv
<1> SUFFICES MemFine(memStreams', memOrder')
  BY <1>0 DEF MemInv, MemFine
<1>1. ASSUME NEW s \in EvStreams, NEW n \in Nat, StoreEvent(s, n)
      PROVE  MemFine(memStreams', memOrder')
  <2>1. CASE UNCHANGED <<memStreams, memOrder>>
    BY <1>0, <2>1
  <2>2. CASE ~UNCHANGED <<memStreams, memOrder>>
    <3>1. PICK at \in 0..EvMaxTime : MemStore(s, n, at)
      BY <1>1, <2>2 DEF StoreEvent
    <3>2. at \in Nat
      BY EvAssumption
    <3> QED
      BY <3>1, <3>2, MemStoreFine
  <2> QED
    BY <2>1, <2>2
<1>2. ASSUME NEW s \in EvStreams, Record(s)
      PROVE  MemFine(memStreams', memOrder')
  <2>1. evSent[s] \in Nat /\ StoreEvent(s, evSent[s])
    BY <1>0, <1>2 DEF Record, EvSending
  <2> QED
    BY <1>1, <2>1
<1>3. ASSUME NEW s \in EvStreams, RecordAgain(s)
      PROVE  MemFine(memStreams', memOrder')
  <2>1. evResumed[s] \in Nat /\ StoreEvent(s, evResumed[s])
    BY <1>0, <1>3 DEF RecordAgain, EvSending
  <2> QED
    BY <1>1, <2>1
<1>4. CASE ReplayAfter
  <2>1. CASE UNCHANGED <<memStreams, memOrder>>
    BY <1>0, <2>1
  <2>2. CASE ~UNCHANGED <<memStreams, memOrder>>
    <3>1. MemPruned(memStreams, memOrder)
      BY <1>4, <2>2 DEF ReplayAfter
    <3>2. PICK streams, order : streams = memStreams /\ order = memOrder
      OBVIOUS
    <3>3. MemFine(streams, order) /\ MemPruned(streams, order)
      BY <1>0, <3>1, <3>2
    <3> QED
      BY <3>3, MemPrunedFine
  <2> QED
    BY <2>1, <2>2
<1>5. ASSUME UNCHANGED <<memStreams, memOrder>>
      PROVE  MemFine(memStreams', memOrder')
  BY <1>0, <1>5
<1>6. ASSUME NEW s \in EvStreams, NEW n \in 0..EvMaxSeq, Resume(s, n)
      PROVE  UNCHANGED <<memStreams, memOrder>>
  BY <1>6 DEF Resume
<1>7. WorkerRuns \/ WorkerFails \/ EvClockSet \/ UNCHANGED evVars => UNCHANGED <<memStreams, memOrder>>
  BY DEF WorkerRuns, WorkerFails, EvClockSet, evVars
<1> QED
  BY <1>2, <1>3, <1>4, <1>5, <1>6, <1>7 DEF EvNext

(* The memory store's order and its streams agree after every store,       *)
(* eviction and expiry, within max_streams and max_events (one event when  *)
(* that is 0), for any limits, zero included, any TTL and streams, and a   *)
(* wall clock set forward or back (session.rs, MemoryEventStore).          *)
THEOREM MemoryIndex == EvSpec => []MemoryIsIndexed
<1>1. EvInit => MemInv
  BY MemInitFine
<1>2. MemInv /\ [EvNext]_evVars => MemInv'
  BY MemStepFine
<1>3. MemInv => MemoryIsIndexed
  BY DEF MemInv, MemFine, MemoryIsIndexed, ToSet
<1> QED
  BY <1>1, <1>2, <1>3, PTL DEF EvSpec

-----------------------------------------------------------------------------
(* EventStores: SQLite *)

(* Max of a set of event numbers. *)
LEMMA MaxIs ==
  ASSUME NEW K \in Nat, NEW R, R \subseteq 0..K, R # {}
  PROVE  Max(R) \in R /\ \A m \in R : Max(R) >= m
<1>1. \E x \in R : \A y \in R : x >= y
  BY Greatest
<1> QED
  BY <1>1, Zenon DEF Max

(* The window of the events recorded, and what prune_stream_events keeps   *)
(* of the events stored.                                                   *)
Window(R) == {m \in R : m > Max(R) - EvMaxEvents \/ Max(R) <= EvMaxEvents}
KeptOf(R) == IF Max(R) - EvMaxEvents <= 0 THEN R ELSE {m \in R : m > Max(R) - EvMaxEvents}

(* One more event, whatever its number, moves the window the way pruning   *)
(* moves what is stored: the newest event is always stored.                *)
LEMMA WindowMoves ==
  ASSUME EvMaxEvents > 0, NEW R, R \subseteq 0..EvMaxSeq, NEW n \in 0..EvMaxSeq
  PROVE  KeptOf(Window(R) \cup {n}) = Window(R \cup {n})
<1>0. EvMaxSeq \in Nat /\ EvMaxEvents \in Nat /\ EvMaxEvents > 0
  BY EvAssumption
<1>1. PICK all : all = R \cup {n}
  OBVIOUS
<1>2. PICK held : held = Window(R) \cup {n}
  OBVIOUS
<1>3. Window(R) \subseteq R
  BY DEF Window
<1>4. all \subseteq 0..EvMaxSeq /\ all # {} /\ held \subseteq all /\ held # {}
  BY <1>1, <1>2, <1>3
<1>5. PICK top \in 0..EvMaxSeq : top = Max(all) /\ top \in all /\ \A m \in all : top >= m
  BY <1>0, <1>4, MaxIs
<1>6. PICK high \in 0..EvMaxSeq : high = Max(held) /\ high \in held /\ \A m \in held : high >= m
  BY <1>0, <1>4, MaxIs
<1>7. CASE R = {}
  <2>1. held = {n} /\ all = {n}
    BY <1>1, <1>2, <1>3, <1>7
  <2>2. top = n /\ high = n
    BY <1>5, <1>6, <2>1
  <2> QED
    BY <1>0, <1>1, <1>2, <1>5, <1>6, <2>1, <2>2 DEF KeptOf, Window
<1>8. CASE R # {}
  <2>1. PICK old \in 0..EvMaxSeq : old = Max(R) /\ old \in R /\ \A m \in R : old >= m
    BY <1>0, <1>8, MaxIs
  <2>2. Window(R) = {m \in R : m > old - EvMaxEvents \/ old <= EvMaxEvents}
    BY <2>1 DEF Window
  <2>3. old \in Window(R)
    BY <1>0, <2>1, <2>2
  <2>4. high = top
    <3>1. high >= old /\ high >= n
      BY <1>2, <1>6, <2>3
    <3>2. \A m \in all : high >= m
      BY <1>1, <2>1, <3>1
    <3>3. high >= top /\ top >= high
      BY <1>4, <1>5, <1>6, <3>2
    <3> QED
      BY <3>3
  <2>5. top >= old
    BY <1>1, <1>5, <2>1
  <2>6. KeptOf(held) = IF top - EvMaxEvents <= 0 THEN held ELSE {m \in held : m > top - EvMaxEvents}
    BY <1>6, <2>4 DEF KeptOf
  <2>7. Window(all) = {m \in all : m > top - EvMaxEvents \/ top <= EvMaxEvents}
    BY <1>5 DEF Window
  <2>8. CASE top <= EvMaxEvents
    <3>1. held = all
      BY <1>0, <1>1, <1>2, <2>2, <2>5, <2>8
    <3> QED
      BY <1>0, <1>1, <1>2, <2>6, <2>7, <2>8, <3>1
  <2>9. CASE ~(top <= EvMaxEvents)
    <3>1. \A m \in all : m > top - EvMaxEvents => m \in held
      <4> SUFFICES ASSUME NEW m \in all, m > top - EvMaxEvents, m # n
                   PROVE  m \in held
        BY <1>2
      <4>1. m \in R /\ m \in 0..EvMaxSeq
        BY <1>1
      <4>2. m > old - EvMaxEvents
        BY <1>0, <2>5, <4>1
      <4> QED
        BY <1>2, <2>2, <4>1, <4>2
    <3>2. ~(top - EvMaxEvents <= 0)
      BY <1>0, <2>9
    <3>3. KeptOf(held) = {m \in held : m > top - EvMaxEvents}
      BY <2>6, <3>2
    <3>4. Window(all) = {m \in all : m > top - EvMaxEvents}
      BY <2>7, <2>9
    <3>5. KeptOf(held) = Window(all)
      BY <1>4, <3>1, <3>3, <3>4
    <3> QED
      BY <1>1, <1>2, <3>5
  <2> QED
    BY <2>8, <2>9
<1> QED
  BY <1>7, <1>8

(* What a stream holds of the events R recorded: the window, or, when      *)
(* max_events is 0, event 0 that was recorded again.                       *)
HeldOf(H, R) == H = Window(R) \/ (EvMaxEvents = 0 /\ 0 \in R /\ H = {0})

(* With max_events = 0 a stream holds event 0 at most. *)
LEMMA HeldAtZero ==
  ASSUME EvMaxEvents = 0, NEW R, R \subseteq 0..EvMaxSeq, NEW H, HeldOf(H, R)
  PROVE  H \subseteq {0} /\ H \subseteq R
<1>1. CASE H = {0} /\ 0 \in R
  BY <1>1
<1>2. CASE H = Window(R) /\ R = {}
  BY <1>2 DEF Window
<1>3. CASE H = Window(R) /\ R # {}
  <2>1. EvMaxSeq \in Nat
    BY EvAssumption
  <2>2. PICK old \in 0..EvMaxSeq : old = Max(R) /\ old \in R /\ \A m \in R : old >= m
    BY <1>3, <2>1, MaxIs
  <2>3. H = {m \in R : m > old - 0 \/ old <= 0}
    BY <1>3, <2>2 DEF Window
  <2>4. \A m \in R : m \in 0..EvMaxSeq /\ old >= m
    BY <2>2
  <2>5. \A m \in H : m = 0
    BY <2>1, <2>3, <2>4
  <2> QED
    BY <2>3, <2>5
<1> QED
  BY <1>1, <1>2, <1>3 DEF HeldOf

(* One more event, for any max_events. *)
LEMMA HeldMoves ==
  ASSUME NEW R, R \subseteq 0..EvMaxSeq, NEW n \in 0..EvMaxSeq, NEW H, HeldOf(H, R)
  PROVE  HeldOf(KeptOf(H \cup {n}), R \cup {n})
<1>0. EvMaxSeq \in Nat /\ EvMaxEvents \in Nat
  BY EvAssumption
<1>1. CASE EvMaxEvents > 0
  <2>1. H = Window(R)
    BY <1>1 DEF HeldOf
  <2> QED
    BY <1>1, <2>1, WindowMoves DEF HeldOf
<1>2. CASE EvMaxEvents = 0
  <2>1. H \subseteq {0} /\ H \subseteq R
    BY <1>2, HeldAtZero
  <2>2. PICK held : held = H \cup {n}
    OBVIOUS
  <2>3. held \subseteq 0..EvMaxSeq /\ held # {} /\ n \in held /\ \A m \in held : m = 0 \/ m = n
    BY <2>1, <2>2
  <2>4. PICK high \in 0..EvMaxSeq : high = Max(held) /\ high \in held /\ \A m \in held : high >= m
    BY <1>0, <2>3, MaxIs
  <2>5. KeptOf(held) = IF high - 0 <= 0 THEN held ELSE {m \in held : m > high - 0}
    BY <1>2, <2>4 DEF KeptOf
  <2>6. CASE n = 0
    <3>1. held = {0}
      BY <2>1, <2>2, <2>6
    <3>2. high = 0
      BY <2>4, <3>1
    <3>3. KeptOf(held) = {0}
      BY <2>5, <3>1, <3>2
    <3> QED
      BY <1>2, <2>2, <2>6, <3>3 DEF HeldOf
  <2>7. CASE n # 0
    <3>1. high >= n /\ n > 0 /\ high > 0
      BY <2>3, <2>4, <2>7
    <3>2. \A m \in held : ~(m > high - 0)
      BY <2>3, <2>4
    <3>3. KeptOf(held) = {}
      <4>1. ~(high - 0 <= 0)
        BY <2>4, <3>1
      <4>2. KeptOf(held) = {m \in held : m > high - 0}
        BY <2>5, <4>1
      <4> QED
        BY <3>2, <4>2
    <3>4. PICK all : all = R \cup {n}
      OBVIOUS
    <3>5. all \subseteq 0..EvMaxSeq /\ all # {} /\ n \in all
      BY <3>4
    <3>6. PICK top \in 0..EvMaxSeq : top = Max(all) /\ top \in all /\ \A m \in all : top >= m
      BY <1>0, <3>5, MaxIs
    <3>7. top >= n /\ top > 0
      BY <3>1, <3>5, <3>6
    <3>8. Window(all) = {m \in all : m > top - 0 \/ top <= 0}
      BY <1>2, <3>6 DEF Window
    <3>9. \A m \in all : ~(m > top - 0 \/ top <= 0)
      BY <3>5, <3>6, <3>7
    <3>10. Window(all) = {}
      BY <3>8, <3>9
    <3> QED
      BY <2>2, <3>3, <3>4, <3>10 DEF HeldOf
  <2> QED
    BY <2>6, <2>7
<1> QED
  BY <1>0, <1>1, <1>2

(* What the worker is asked to do. *)
EvCommands == [kind : {"store"}, stream : EvStreams, seq : 0..EvMaxSeq, at : Nat] \cup [kind : {"replay"}]

DbTypes ==
  /\ EvSending /\ evQueue \in Seq(EvCommands)
  /\ DOMAIN dbStreams \subseteq EvStreams
  /\ dbRecorded \in [EvStreams -> SUBSET (0..EvMaxSeq)]

(* A stream that is not entered has no event, so the window starts anew    *)
(* when it is entered again.                                               *)
DbWindows ==
  \A s \in EvStreams :
    /\ HeldOf(DbSeqs(dbEvents, s), dbRecorded[s])
    /\ s \notin DOMAIN dbStreams => dbRecorded[s] = {}

(* The inductive invariant of the SQLite store. *)
DbInv == DbTypes /\ (evTtl = EvNever => DbWindows)

(* The numbers of a stream's events, after an insert and after a prune. *)
LEMMA SeqsInserted ==
  ASSUME NEW events, NEW new, NEW t
  PROVE  /\ t = new.stream => DbSeqs(events \cup {new}, t) = DbSeqs(events, t) \cup {new.seq}
         /\ t # new.stream => DbSeqs(events \cup {new}, t) = DbSeqs(events, t)
<1>1. \A m : m \in DbSeqs(events \cup {new}, t) <=> (m \in DbSeqs(events, t) \/ (t = new.stream /\ m = new.seq))
  BY DEF DbSeqs
<1> QED
  BY <1>1

(* prune_stream_events keeps the window of the stream, and other streams whole. *)
LEMMA SeqsPruned ==
  ASSUME NEW events, NEW s, NEW t
  PROVE  DbSeqs(PruneStreamEvents(events, s), t) = IF t = s THEN KeptOf(DbSeqs(events, t)) ELSE DbSeqs(events, t)
<1>1. PICK cutoff : cutoff = Max(DbSeqs(events, s)) - EvMaxEvents
  OBVIOUS
<1>2. PruneStreamEvents(events, s) = IF cutoff <= 0 THEN events ELSE {e \in events : e.stream # s \/ e.seq > cutoff}
  BY <1>1 DEF PruneStreamEvents
<1>3. KeptOf(DbSeqs(events, s)) = IF cutoff <= 0 THEN DbSeqs(events, s) ELSE {m \in DbSeqs(events, s) : m > cutoff}
  BY <1>1 DEF KeptOf
<1>4. CASE cutoff <= 0
  BY <1>2, <1>3, <1>4
<1>5. CASE ~(cutoff <= 0)
  <2>1. \A m : m \in DbSeqs({e \in events : e.stream # s \/ e.seq > cutoff}, t)
                 <=> (m \in DbSeqs(events, t) /\ (t # s \/ m > cutoff))
    BY DEF DbSeqs
  <2>2. PICK left : left = {e \in events : e.stream # s \/ e.seq > cutoff}
    OBVIOUS
  <2>3. PruneStreamEvents(events, s) = left /\ KeptOf(DbSeqs(events, s)) = {m \in DbSeqs(events, s) : m > cutoff}
    BY <1>2, <1>3, <1>5, <2>2
  <2>4. CASE t = s
    <3>1. DbSeqs(left, t) = {m \in DbSeqs(events, s) : m > cutoff}
      BY <2>1, <2>2, <2>4
    <3> QED
      BY <2>3, <2>4, <3>1
  <2>5. CASE t # s
    <3>1. DbSeqs(left, t) = DbSeqs(events, t)
      BY <2>1, <2>2, <2>5
    <3> QED
      BY <2>3, <2>5, <3>1
  <2> QED
    BY <2>4, <2>5
<1> QED
  BY <1>4, <1>5

(* Streams evicted take their events with them. *)
LEMMA SeqsEvicted ==
  ASSUME NEW events, NEW V, NEW t
  PROVE  DbSeqs({e \in events : e.stream \notin V}, t) = IF t \in V THEN {} ELSE DbSeqs(events, t)
<1>1. \A m : m \in DbSeqs({e \in events : e.stream \notin V}, t) <=> (m \in DbSeqs(events, t) /\ t \notin V)
  BY DEF DbSeqs
<1> QED
  BY <1>1

(* No event recorded, none held. *)
LEMMA NoneHeld == HeldOf({}, {})
  BY DEF HeldOf, Window

(* The transaction of one stored event keeps the types. *)
LEMMA DbStoreTypes ==
  ASSUME DbInv, NEW cmd \in EvCommands, cmd.kind = "store", DbStore(cmd)
  PROVE  DOMAIN dbStreams' \subseteq EvStreams /\ dbRecorded' \in [EvStreams -> SUBSET (0..EvMaxSeq)]
<1> DEFINE entered == [t \in DOMAIN dbStreams \cup {cmd.stream} |-> IF t = cmd.stream THEN cmd.at ELSE dbStreams[t]]
           streams == DbFreshStreams(entered)
<1>1. cmd.stream \in EvStreams /\ cmd.seq \in 0..EvMaxSeq
  BY DEF EvCommands
<1>2. PICK V \in DbEvictions(streams) :
        /\ dbStreams' = Restrict(streams, DOMAIN streams \ V)
        /\ dbRecorded' = [t \in EvStreams |->
             IF t \notin DOMAIN streams \ V THEN {}
             ELSE IF t = cmd.stream THEN dbRecorded[t] \cup {cmd.seq} ELSE dbRecorded[t]]
  BY DEF DbStore
<1>3. DOMAIN streams \subseteq DOMAIN dbStreams \cup {cmd.stream}
  BY DEF DbFreshStreams, Restrict
<1>4. DOMAIN dbStreams \subseteq EvStreams /\ dbRecorded \in [EvStreams -> SUBSET (0..EvMaxSeq)]
  BY DEF DbInv, DbTypes
<1> HIDE DEF streams, entered
<1>5. DOMAIN dbStreams' = DOMAIN streams \ V
  BY <1>2 DEF Restrict
<1>6. \A t \in EvStreams : dbRecorded[t] \cup {cmd.seq} \subseteq 0..EvMaxSeq /\ dbRecorded[t] \subseteq 0..EvMaxSeq
  BY <1>1, <1>4
<1>7. dbRecorded' \in [EvStreams -> SUBSET (0..EvMaxSeq)]
  BY <1>2, <1>6
<1> QED
  BY <1>1, <1>3, <1>4, <1>5, <1>7

(* And, without a TTL, the windows. *)
LEMMA DbStoreWindows ==
  ASSUME DbInv, evTtl = EvNever, NEW cmd \in EvCommands, cmd.kind = "store", DbStore(cmd)
  PROVE  DbWindows'
<1> DEFINE s == cmd.stream
           n == cmd.seq
           entered == [t \in DOMAIN dbStreams \cup {s} |-> IF t = s THEN cmd.at ELSE dbStreams[t]]
           inserted == IF n \in DbSeqs(dbEvents, s) THEN dbEvents
                       ELSE dbEvents \cup {[stream |-> s, seq |-> n, at |-> cmd.at]}
           events == PruneStreamEvents(inserted, s)
<1>1. s \in EvStreams /\ n \in 0..EvMaxSeq
  BY DEF EvCommands
<1>2. \A e : DbFreshEvents(e) = e /\ DbFreshStreams(e) = e
  BY DEF DbFreshEvents, DbFreshStreams, DbExpiring
<1>3. PICK V \in DbEvictions(entered) :
        /\ dbStreams' = Restrict(entered, DOMAIN entered \ V)
        /\ dbEvents' = {e \in events : e.stream \notin V}
        /\ dbRecorded' = [t \in EvStreams |->
             IF t \notin DOMAIN entered \ V THEN {}
             ELSE IF t = s THEN dbRecorded[t] \cup {n} ELSE dbRecorded[t]]
  <2>1. \E V \in DbEvictions(DbFreshStreams(entered)) :
          /\ dbStreams' = Restrict(DbFreshStreams(entered), DOMAIN DbFreshStreams(entered) \ V)
          /\ dbEvents' = {e \in DbFreshEvents(events) : e.stream \notin V}
          /\ dbRecorded' = [t \in EvStreams |->
               IF t \notin DOMAIN DbFreshStreams(entered) \ V THEN {}
               ELSE IF t = s THEN dbRecorded[t] \cup {n} ELSE dbRecorded[t]]
    BY Zenon DEF DbStore
  <2>2. DbFreshEvents(events) = events /\ DbFreshStreams(entered) = entered
    BY <1>2
  <2> HIDE DEF entered, events, inserted, s, n
  <2> QED
    BY <2>1, <2>2
<1>4. DOMAIN entered = DOMAIN dbStreams \cup {s} /\ DOMAIN dbStreams' = DOMAIN entered \ V
  BY <1>3 DEF Restrict
<1>5. \A t \in EvStreams : DbSeqs(inserted, t) = IF t = s THEN DbSeqs(dbEvents, t) \cup {n} ELSE DbSeqs(dbEvents, t)
  <2>1. CASE n \in DbSeqs(dbEvents, s)
    BY <2>1
  <2>2. CASE n \notin DbSeqs(dbEvents, s)
    <3>1. PICK old, new : old = dbEvents /\ new = [stream |-> s, seq |-> n, at |-> cmd.at]
      OBVIOUS
    <3>2. new.stream = s /\ new.seq = n
      BY <3>1
    <3>3. \A t : /\ t = new.stream => DbSeqs(old \cup {new}, t) = DbSeqs(old, t) \cup {new.seq}
                 /\ t # new.stream => DbSeqs(old \cup {new}, t) = DbSeqs(old, t)
      BY SeqsInserted
    <3>4. inserted = old \cup {new}
      BY <2>2, <3>1
    <3> HIDE DEF inserted, s, n
    <3> QED
      BY <3>1, <3>2, <3>3, <3>4
  <2> QED
    BY <2>1, <2>2
<1> HIDE DEF inserted, entered
<1>6. \A t \in EvStreams : DbSeqs(events, t) = IF t = s THEN KeptOf(DbSeqs(dbEvents, t) \cup {n}) ELSE DbSeqs(dbEvents, t)
  <2>1. PICK old : old = inserted
    OBVIOUS
  <2>2. \A t : DbSeqs(PruneStreamEvents(old, s), t) = IF t = s THEN KeptOf(DbSeqs(old, t)) ELSE DbSeqs(old, t)
    BY SeqsPruned
  <2> HIDE DEF s, n
  <2>3. \A t \in EvStreams : DbSeqs(events, t) = IF t = s THEN KeptOf(DbSeqs(inserted, t)) ELSE DbSeqs(inserted, t)
    BY <2>1, <2>2
  <2> QED
    BY <1>5, <2>3
<1> HIDE DEF events, s, n
<1>7. \A t \in EvStreams : DbSeqs(dbEvents', t) = IF t \in V THEN {} ELSE DbSeqs(events, t)
  <2>1. PICK old : old = events
    OBVIOUS
  <2>2. \A t : DbSeqs({e \in old : e.stream \notin V}, t) = IF t \in V THEN {} ELSE DbSeqs(old, t)
    BY SeqsEvicted
  <2>3. dbEvents' = {e \in old : e.stream \notin V}
    BY <1>3, <2>1
  <2> QED
    BY <2>1, <2>2, <2>3
<1>8. DbWindows /\ dbRecorded \in [EvStreams -> SUBSET (0..EvMaxSeq)]
  BY DEF DbInv, DbTypes
<1> SUFFICES ASSUME NEW t \in EvStreams
             PROVE  /\ HeldOf(DbSeqs(dbEvents', t), dbRecorded'[t])
                    /\ t \notin DOMAIN dbStreams' => dbRecorded'[t] = {}
  BY DEF DbWindows, DbSeqs, HeldOf, Window
<1>9. /\ HeldOf(DbSeqs(dbEvents, t), dbRecorded[t]) /\ (t \notin DOMAIN dbStreams => dbRecorded[t] = {})
      /\ dbRecorded[t] \subseteq 0..EvMaxSeq
  BY <1>8 DEF DbWindows
<1>10. CASE t \in V
  <2>1. dbRecorded'[t] = {}
    BY <1>3, <1>10
  <2> QED
    BY <1>7, <1>10, <2>1, NoneHeld
<1>11. CASE t \notin V /\ t = s
  <2>1. dbRecorded'[t] = dbRecorded[t] \cup {n} /\ t \in DOMAIN dbStreams'
    BY <1>3, <1>4, <1>11
  <2>2. DbSeqs(dbEvents', t) = KeptOf(DbSeqs(dbEvents, t) \cup {n})
    BY <1>6, <1>7, <1>11
  <2>3. PICK R, H : R = dbRecorded[t] /\ H = DbSeqs(dbEvents, t)
    OBVIOUS
  <2>4. HeldOf(KeptOf(H \cup {n}), R \cup {n})
    BY <1>1, <1>9, <2>3, HeldMoves
  <2> QED
    BY <2>1, <2>2, <2>3, <2>4
<1>12. CASE t \notin V /\ t # s
  <2>1. DbSeqs(dbEvents', t) = DbSeqs(dbEvents, t)
    BY <1>6, <1>7, <1>12
  <2>2. dbRecorded'[t] = dbRecorded[t] /\ (t \in DOMAIN dbStreams' <=> t \in DOMAIN dbStreams)
    BY <1>3, <1>4, <1>9, <1>12
  <2> QED
    BY <1>9, <2>1, <2>2
<1> QED
  BY <1>10, <1>11, <1>12

(* A replay prunes the expired rows only. *)
LEMMA DbReplayFine ==
  ASSUME DbInv, DbReplay
  PROVE  /\ DOMAIN dbStreams' \subseteq EvStreams /\ dbRecorded' \in [EvStreams -> SUBSET (0..EvMaxSeq)]
         /\ evTtl = EvNever => DbWindows'
<1>1. DOMAIN dbStreams \subseteq EvStreams /\ dbRecorded \in [EvStreams -> SUBSET (0..EvMaxSeq)]
  BY DEF DbInv, DbTypes
<1>2. DOMAIN dbStreams' \subseteq DOMAIN dbStreams
  BY DEF DbReplay, DbFreshStreams, Restrict
<1>3. dbRecorded' = [t \in EvStreams |-> IF t \in DOMAIN dbStreams' THEN dbRecorded[t] ELSE {}]
  BY DEF DbReplay
<1>4. dbRecorded' \in [EvStreams -> SUBSET (0..EvMaxSeq)]
  BY <1>1, <1>3
<1>5. ASSUME evTtl = EvNever
      PROVE  DbWindows'
  <2>1. dbStreams' = dbStreams /\ dbEvents' = dbEvents
    BY <1>5 DEF DbReplay, DbFreshStreams, DbFreshEvents, DbExpiring
  <2>2. DbWindows
    BY <1>5 DEF DbInv
  <2>3. \A t \in EvStreams : dbRecorded'[t] = dbRecorded[t]
    BY <1>3, <2>1, <2>2 DEF DbWindows
  <2> QED
    BY <2>1, <2>2, <2>3 DEF DbWindows, DbSeqs, HeldOf, Window
<1> QED
  BY <1>1, <1>2, <1>4, <1>5

(* The database starts in the invariant. *)
LEMMA DbInitFine ==
  ASSUME EvInit
  PROVE  DbInv
<1>1. EvMaxSeq \in Nat
  BY EvAssumption
<1>2. <<>> \in Seq(EvCommands) /\ DOMAIN <<>> = {}
  OBVIOUS
<1>3. DbTypes
  BY <1>1, <1>2 DEF EvInit, DbTypes, EvSending
<1>4. DbWindows
  BY NoneHeld DEF EvInit, DbWindows, DbSeqs
<1> QED
  BY <1>3, <1>4 DEF DbInv

(* A command joins the channel, and the database is as it was. *)
LEMMA Queued ==
  ASSUME DbInv, EvSending', NEW cmd \in EvCommands, evQueue' = Append(evQueue, cmd),
         UNCHANGED <<evTtl, dbStreams, dbEvents, dbRecorded>>
  PROVE  DbInv'
<1>1. evQueue' \in Seq(EvCommands)
  BY DEF DbInv, DbTypes
<1>2. DbTypes'
  BY <1>1 DEF DbInv, DbTypes
<1>3. evTtl' = EvNever => DbWindows'
  BY DEF DbInv, DbWindows, DbSeqs, HeldOf, Window
<1> QED
  BY <1>2, <1>3 DEF DbInv

(* Every step keeps the invariant. *)
LEMMA DbStepFine ==
  ASSUME DbInv, [EvNext]_evVars
  PROVE  DbInv'
<1>0. EvSending /\ EvSending' /\ evQueue \in Seq(EvCommands) /\ EvMaxSeq \in Nat
  BY SendingStep, EvAssumption DEF DbInv, DbTypes
<1>1. ASSUME evQueue' \in Seq(EvCommands), UNCHANGED <<evTtl, dbStreams, dbEvents, dbRecorded>>
      PROVE  DbInv'
  <2>1. DbTypes'
    BY <1>0, <1>1 DEF DbInv, DbTypes
  <2>2. evTtl' = EvNever => DbWindows'
    BY <1>1 DEF DbInv, DbWindows, DbSeqs, HeldOf, Window
  <2> QED
    BY <2>1, <2>2 DEF DbInv
<1>2. ASSUME NEW s \in EvStreams, NEW n \in 0..EvMaxSeq, StoreEvent(s, n)
      PROVE  DbInv'
  <2>1. UNCHANGED <<evTtl, dbStreams, dbEvents, dbRecorded>>
    BY <1>2 DEF StoreEvent
  <2>2. CASE evQueue' = evQueue
    BY <1>0, <1>1, <2>1, <2>2
  <2>3. CASE evQueue' # evQueue
    <3>1. PICK at \in 0..EvMaxTime : evQueue' = Append(evQueue, [kind |-> "store", stream |-> s, seq |-> n, at |-> at])
      BY <1>2, <2>3 DEF StoreEvent
    <3>2. PICK cmd : cmd = [kind |-> "store", stream |-> s, seq |-> n, at |-> at]
      OBVIOUS
    <3>3. at \in Nat
      BY EvAssumption
    <3>4. cmd \in EvCommands
      BY <3>2, <3>3 DEF EvCommands
    <3> QED
      BY <1>0, <2>1, <3>1, <3>2, <3>4, Queued
  <2> QED
    BY <2>2, <2>3
<1>3. ASSUME NEW s \in EvStreams, Record(s) PROVE DbInv'
  <2>1. evSent[s] \in 0..EvMaxSeq /\ StoreEvent(s, evSent[s])
    BY <1>0, <1>3 DEF Record, EvSending
  <2> QED
    BY <1>2, <2>1
<1>4. ASSUME NEW s \in EvStreams, RecordAgain(s) PROVE DbInv'
  <2>1. /\ evSent[s] \in 0..(EvMaxSeq + 1) /\ evResumed[s] \in 0..(EvMaxSeq + 1) /\ evResumed[s] < evSent[s]
        /\ StoreEvent(s, evResumed[s])
    BY <1>0, <1>4 DEF RecordAgain, EvSending
  <2>2. evResumed[s] \in 0..EvMaxSeq
    BY <1>0, <2>1
  <2> QED
    BY <1>2, <2>1, <2>2
<1>5. CASE ReplayAfter
  <2>1. UNCHANGED <<evTtl, dbStreams, dbEvents, dbRecorded>>
    BY <1>5 DEF ReplayAfter
  <2>2. CASE evQueue' = evQueue
    BY <1>0, <1>1, <2>1, <2>2
  <2>3. CASE evQueue' # evQueue
    <3>1. PICK cmd : cmd = [kind |-> "replay"]
      OBVIOUS
    <3>2. cmd \in EvCommands
      BY <3>1 DEF EvCommands
    <3>3. evQueue' = Append(evQueue, cmd)
      BY <1>5, <2>3, <3>1 DEF ReplayAfter
    <3> QED
      BY <1>0, <2>1, <3>2, <3>3, Queued
  <2> QED
    BY <2>2, <2>3
<1>6. CASE WorkerRuns
  <2>1. evQueue # <<>> /\ evQueue' = Tail(evQueue) /\ evTtl' = evTtl
    BY <1>6 DEF WorkerRuns
  <2>2. evQueue' \in Seq(EvCommands) /\ Head(evQueue) \in EvCommands
    BY <1>0, <2>1
  <2>3. PICK cmd \in EvCommands : cmd = Head(evQueue)
    BY <2>2
  <2>4. IF cmd.kind = "store" THEN DbStore(cmd) ELSE DbReplay
    BY <1>6, <2>3 DEF WorkerRuns
  <2>5. /\ DOMAIN dbStreams' \subseteq EvStreams /\ dbRecorded' \in [EvStreams -> SUBSET (0..EvMaxSeq)]
        /\ evTtl = EvNever => DbWindows'
    <3>1. CASE cmd.kind = "store"
      BY <2>3, <2>4, <3>1, DbStoreTypes, DbStoreWindows
    <3>2. CASE cmd.kind # "store"
      BY <2>4, <3>2, DbReplayFine
    <3> QED
      BY <3>1, <3>2
  <2> QED
    BY <1>0, <2>1, <2>2, <2>5 DEF DbInv, DbTypes
<1>7. ASSUME NEW s \in EvStreams, NEW n \in 0..EvMaxSeq, Resume(s, n) PROVE DbInv'
  BY <1>0, <1>1, <1>7 DEF Resume
<1>8. CASE WorkerFails
  <2>1. evQueue' \in Seq(EvCommands)
    BY <1>0, <1>8 DEF WorkerFails
  <2> QED
    BY <1>1, <1>8, <2>1 DEF WorkerFails
<1>9. CASE EvClockSet \/ UNCHANGED evVars
  BY <1>0, <1>1, <1>9 DEF EvClockSet, evVars
<1> QED
  BY <1>3, <1>4, <1>5, <1>6, <1>7, <1>8, <1>9 DEF EvNext

(* What a client can replay from SQLite without a TTL is exactly the       *)
(* window of the newest max_events, or event 0 alone when max_events is 0, *)
(* in whatever order a resumed stream's events reach the worker, for any   *)
(* limits, zero included, and any streams                                  *)
(* (session_sqlite.rs, store_event_sync and prune_stream_events).          *)
THEOREM SqliteWindow == EvSpec => []SqliteKeepsWindow
<1>1. EvInit => DbInv
  BY DbInitFine
<1>2. DbInv /\ [EvNext]_evVars => DbInv'
  BY DbStepFine
<1>3. DbInv => SqliteKeepsWindow
  <2> SUFFICES ASSUME DbInv, evTtl = EvNever, NEW s \in DOMAIN dbStreams
               PROVE  HeldOf(DbSeqs(dbEvents, s), dbRecorded[s])
    BY DEF SqliteKeepsWindow, HeldOf, Window
  <2>1. s \in EvStreams
    BY DEF DbInv, DbTypes
  <2> QED
    BY <2>1 DEF DbInv, DbWindows
<1> QED
  BY <1>1, <1>2, <1>3, PTL DEF EvSpec

-----------------------------------------------------------------------------
(* OperationHistory *)

HistItem == [id : HistTasks, revision : Nat, terminal : BOOLEAN, at : Nat \cup {NoInstant}]
HistSummary == [partition : HistPrincipals, id : HistTasks, revision : Nat, terminal : BOOLEAN]

(* An entry has an instant exactly when it is terminal. *)
InstantFits(item) == item.terminal <=> item.at # NoInstant

(* What a principal's partition may hold: entries of its own tasks, one    *)
(* for a task.                                                             *)
ItemsFine(tasks, items, p) ==
  /\ items \in Seq(HistItem) /\ IsInjective(items)
  /\ \A x \in ToSet(items) : tasks[x.id].owner = p /\ InstantFits(x)
  /\ \A x, y \in ToSet(items) : x.id = y.id => x = y

TableFine(tasks, ps) ==
  /\ ps = [p \in DOMAIN ps |-> ps[p]]
  /\ IsFiniteSet(Places(ps))
  /\ \A p \in DOMAIN ps : ItemsFine(tasks, ps[p], p)

NoneEmpty(ps) == \A p \in DOMAIN ps : ps[p] # <<>>

HistTypes ==
  /\ histClock \in Nat
  /\ histTasks \in [HistTasks -> [owner : HistPrincipals, revision : Nat, terminal : BOOLEAN]]
  /\ DOMAIN histWriters = HistWriters

(* A summary on its way belongs to the partition of its task's owner. *)
SummariesFine ==
  \A w \in HistWriters :
    histWriters[w] # NoSummary =>
      histWriters[w] \in HistSummary /\ histTasks[histWriters[w].id].owner = histWriters[w].partition

(* The inductive invariant. *)
HistInv ==
  /\ HistTypes /\ SummariesFine
  /\ TableFine(histTasks, histPartitions) /\ NoneEmpty(histPartitions)
  /\ TotalEntries(histPartitions) <= HistMaxEntries

(* A table with no more places than another is no larger. *)
LEMMA FewerPlaces ==
  ASSUME NEW ps, NEW qs, IsFiniteSet(Places(ps)), Places(qs) \subseteq Places(ps)
  PROVE  /\ IsFiniteSet(Places(qs)) /\ TotalEntries(qs) <= TotalEntries(ps)
         /\ TotalEntries(ps) \in Nat /\ TotalEntries(qs) \in Nat
<1>1. IsFiniteSet(Places(qs)) /\ Cardinality(Places(qs)) <= Cardinality(Places(ps))
  BY FS_Subset
<1>2. Cardinality(Places(ps)) \in Nat /\ Cardinality(Places(qs)) \in Nat
  BY <1>1, FS_CardinalityType
<1> QED
  BY <1>1, <1>2 DEF TotalEntries

(* A place, spelt out. *)
LEMMA PlaceIs ==
  ASSUME NEW ps, NEW place
  PROVE  place \in Places(ps) <=> \E p \in DOMAIN ps : \E i \in DOMAIN ps[p] : place = <<p, i>>
<1> DEFINE At(p) == {<<p, i>> : i \in DOMAIN ps[p]}
<1>1. place \in Places(ps) <=> \E p \in DOMAIN ps : place \in At(p)
  BY DEF Places
<1>2. \A p : place \in At(p) <=> \E i \in DOMAIN ps[p] : place = <<p, i>>
  OBVIOUS
<1> QED
  BY <1>1, <1>2

(* The partitions that are left empty go, and no entry with them. *)
LEMMA NonEmptyFine ==
  ASSUME NEW tasks, NEW ps, TableFine(tasks, ps)
  PROVE  /\ TableFine(tasks, NonEmpty(ps)) /\ NoneEmpty(NonEmpty(ps))
         /\ TotalEntries(NonEmpty(ps)) = TotalEntries(ps)
         /\ \A p : ToSet(ItemsOf(NonEmpty(ps), p)) = ToSet(ItemsOf(ps, p))
<1> DEFINE D == {p \in DOMAIN ps : ps[p] # <<>>}
<1>1. PICK qs : qs = NonEmpty(ps)
  OBVIOUS
<1>2. qs = [p \in D |-> ps[p]]
  BY <1>1 DEF NonEmpty, Restrict
<1>3. DOMAIN qs = D /\ \A p \in D : qs[p] = ps[p]
  BY <1>2
<1>4. Places(qs) = Places(ps)
  <2>1. ASSUME NEW place, place \in Places(qs)
        PROVE  place \in Places(ps)
    <3>1. PICK p \in DOMAIN qs : \E i \in DOMAIN qs[p] : place = <<p, i>>
      BY <2>1, PlaceIs
    <3>2. p \in DOMAIN ps /\ qs[p] = ps[p]
      BY <1>3
    <3> QED
      BY <3>1, <3>2, PlaceIs
  <2>2. ASSUME NEW place, place \in Places(ps)
        PROVE  place \in Places(qs)
    <3>1. PICK p \in DOMAIN ps : \E i \in DOMAIN ps[p] : place = <<p, i>>
      BY <2>2, PlaceIs
    <3>2. ps[p] # <<>>
      BY <3>1
    <3>3. p \in DOMAIN qs /\ qs[p] = ps[p]
      BY <1>3, <3>2
    <3> QED
      BY <3>1, <3>3, PlaceIs
  <2> QED
    BY <2>1, <2>2
<1>5. qs = [p \in DOMAIN qs |-> qs[p]]
  BY <1>2, <1>3
<1>6. TableFine(tasks, qs)
  BY <1>3, <1>4, <1>5 DEF TableFine
<1>7. NoneEmpty(qs)
  BY <1>3 DEF NoneEmpty
<1>8. ASSUME NEW p
      PROVE  ToSet(ItemsOf(qs, p)) = ToSet(ItemsOf(ps, p))
  <2>1. CASE p \in D
    BY <1>3, <2>1 DEF ItemsOf
  <2>2. CASE p \notin D
    <3>1. ItemsOf(qs, p) = <<>> /\ ItemsOf(ps, p) = <<>>
      BY <1>3, <2>2 DEF ItemsOf
    <3> QED
      BY <3>1
  <2> QED
    BY <2>1, <2>2
<1> QED
  BY <1>1, <1>4, <1>6, <1>7, <1>8 DEF TotalEntries

(* A task the partition does not have. *)
MayPush(tasks, ps, p, item) ==
  /\ TableFine(tasks, ps) /\ item \in HistItem /\ tasks[item.id].owner = p /\ InstantFits(item)
  /\ \A x \in ToSet(ItemsOf(ps, p)) : x.id # item.id
  /\ \A q \in DOMAIN ps \ {p} : ps[q] # <<>>

(* An entry more. *)
LEMMA PushedFine ==
  ASSUME NEW tasks, NEW ps, NEW p, NEW item, MayPush(tasks, ps, p, item)
  PROVE  /\ TableFine(tasks, Pushed(ps, p, item)) /\ NoneEmpty(Pushed(ps, p, item))
         /\ TotalEntries(Pushed(ps, p, item)) = TotalEntries(ps) + 1
         /\ ToSet(ItemsOf(Pushed(ps, p, item), p)) = ToSet(ItemsOf(ps, p)) \cup {item}
         /\ \A q : q # p => ItemsOf(Pushed(ps, p, item), q) = ItemsOf(ps, q)
<1>0. /\ TableFine(tasks, ps) /\ item \in HistItem /\ tasks[item.id].owner = p /\ InstantFits(item)
      /\ \A x \in ToSet(ItemsOf(ps, p)) : x.id # item.id
      /\ \A q \in DOMAIN ps \ {p} : ps[q] # <<>>
  BY DEF MayPush
<1>1. PICK old : old = ItemsOf(ps, p)
  OBVIOUS
<1>2. PICK qs : qs = Pushed(ps, p, item)
  OBVIOUS
<1>3. PICK longer : longer = Append(old, item)
  OBVIOUS
<1>4. qs = [q \in DOMAIN ps \cup {p} |-> IF q = p THEN longer ELSE ps[q]]
  BY <1>1, <1>2, <1>3 DEF Pushed
<1>5. DOMAIN qs = DOMAIN ps \cup {p} /\ qs[p] = longer /\ \A q \in DOMAIN ps \ {p} : qs[q] = ps[q]
  BY <1>4
<1>6. ItemsFine(tasks, old, p)
  <2>1. CASE p \in DOMAIN ps
    BY <1>0, <1>1, <2>1 DEF ItemsOf, TableFine
  <2>2. CASE p \notin DOMAIN ps
    <3>1. old = <<>>
      BY <1>1, <2>2 DEF ItemsOf
    <3>2. old \in Seq(HistItem) /\ IsInjective(old) /\ ToSet(old) = {}
      BY <3>1 DEF IsInjective, ToSet
    <3> QED
      BY <3>2 DEF ItemsFine
  <2> QED
    BY <2>1, <2>2
<1>7. old \in Seq(HistItem) /\ IsInjective(old) /\ \A x \in ToSet(old) : x.id # item.id
  BY <1>0, <1>1, <1>6 DEF ItemsFine
<1>8. item \notin ToSet(old)
  BY <1>7
<1>9. /\ longer \in Seq(HistItem) /\ Len(longer) = Len(old) + 1
      /\ ToSet(longer) = ToSet(old) \cup {item} /\ IsInjective(longer)
  BY <1>0, <1>3, <1>7, <1>8, Appended
<1>10. ItemsFine(tasks, longer, p)
  <2>1. \A x \in ToSet(longer) : tasks[x.id].owner = p /\ InstantFits(x)
    BY <1>0, <1>6, <1>9 DEF ItemsFine
  <2>2. \A x, y \in ToSet(longer) : x.id = y.id => x = y
    BY <1>6, <1>7, <1>9 DEF ItemsFine
  <2> QED
    BY <1>9, <2>1, <2>2 DEF ItemsFine
<1>11. \A q \in DOMAIN qs : ItemsFine(tasks, qs[q], q)
  BY <1>0, <1>5, <1>10 DEF TableFine
<1>12. Len(old) \in Nat /\ DOMAIN old = 1..Len(old) /\ DOMAIN longer = 1..(Len(old) + 1)
  BY <1>7, <1>9
<1> DEFINE last == <<p, Len(old) + 1>>
<1>13. last \notin Places(ps)
  <2> SUFFICES ASSUME last \in Places(ps)
               PROVE  FALSE
    OBVIOUS
  <2>1. PICK q \in DOMAIN ps : \E i \in DOMAIN ps[q] : last = <<q, i>>
    BY PlaceIs
  <2>2. PICK i \in DOMAIN ps[q] : last = <<q, i>>
    BY <2>1
  <2>3. q = p /\ i = Len(old) + 1
    BY <2>2
  <2>4. ps[q] = old
    BY <1>1, <2>1, <2>3 DEF ItemsOf
  <2> QED
    BY <1>12, <2>2, <2>3, <2>4
<1>14. Places(qs) = Places(ps) \cup {last}
  <2>1. ASSUME NEW place, place \in Places(qs)
        PROVE  place \in Places(ps) \cup {last}
    <3>1. PICK q \in DOMAIN qs : \E i \in DOMAIN qs[q] : place = <<q, i>>
      BY <2>1, PlaceIs
    <3>2. PICK i \in DOMAIN qs[q] : place = <<q, i>>
      BY <3>1
    <3>3. CASE q # p
      <4>1. q \in DOMAIN ps /\ qs[q] = ps[q]
        BY <1>5, <3>1, <3>3
      <4> QED
        BY <3>1, <4>1, PlaceIs
    <3>4. CASE q = p
      <4>1. i \in 1..(Len(old) + 1)
        BY <1>5, <1>12, <3>2, <3>4
      <4>2. CASE i = Len(old) + 1
        BY <3>2, <3>4, <4>2
      <4>3. CASE i # Len(old) + 1
        <5>1. i \in DOMAIN old
          BY <1>12, <4>1, <4>3
        <5>2. old # <<>>
          BY <5>1
        <5>3. p \in DOMAIN ps /\ ps[p] = old
          BY <1>1, <5>2 DEF ItemsOf
        <5> QED
          BY <3>2, <3>4, <5>1, <5>3, PlaceIs
      <4> QED
        BY <4>2, <4>3
    <3> QED
      BY <3>3, <3>4
  <2>2. ASSUME NEW place, place \in Places(ps)
        PROVE  place \in Places(qs)
    <3>1. PICK q \in DOMAIN ps : \E i \in DOMAIN ps[q] : place = <<q, i>>
      BY <2>2, PlaceIs
    <3>2. PICK i \in DOMAIN ps[q] : place = <<q, i>>
      BY <3>1
    <3>3. q \in DOMAIN qs
      BY <1>5, <3>1
    <3>4. i \in DOMAIN qs[q]
      <4>1. CASE q # p
        BY <1>5, <3>1, <3>2, <4>1
      <4>2. CASE q = p
        <5>1. ps[q] = old /\ qs[q] = longer
          BY <1>1, <1>5, <3>1, <4>2 DEF ItemsOf
        <5>2. i \in 1..Len(old)
          BY <1>12, <3>2, <5>1
        <5>3. i \in 1..(Len(old) + 1)
          BY <1>12, <5>2
        <5> QED
          BY <1>12, <5>1, <5>3
      <4> QED
        BY <4>1, <4>2
    <3> QED
      BY <3>2, <3>3, <3>4, PlaceIs
  <2>3. last \in Places(qs)
    <3>1. p \in DOMAIN qs /\ Len(old) + 1 \in DOMAIN qs[p]
      BY <1>5, <1>12
    <3> QED
      BY <3>1, PlaceIs
  <2> HIDE DEF last
  <2> QED
    BY <2>1, <2>2, <2>3
<1> HIDE DEF last
<1>15. IsFiniteSet(Places(ps))
  BY <1>0 DEF TableFine
<1>16. IsFiniteSet(Places(qs)) /\ Cardinality(Places(qs)) = Cardinality(Places(ps)) + 1
  BY <1>13, <1>14, <1>15, FS_AddElement
<1>17. qs = [q \in DOMAIN qs |-> qs[q]]
  BY <1>4
<1>18. TableFine(tasks, qs)
  BY <1>11, <1>16, <1>17 DEF TableFine
<1>19. longer # <<>>
  BY <1>9, <1>12
<1>20. NoneEmpty(qs)
  BY <1>0, <1>5, <1>19 DEF NoneEmpty
<1>21. ToSet(ItemsOf(qs, p)) = ToSet(old) \cup {item}
  BY <1>5, <1>9 DEF ItemsOf
<1>22. \A q : q # p => ItemsOf(qs, q) = ItemsOf(ps, q)
  BY <1>5 DEF ItemsOf
<1> QED
  BY <1>1, <1>2, <1>16, <1>18, <1>20, <1>21, <1>22 DEF TotalEntries


(* An entry less. *)
LEMMA EntryCut ==
  ASSUME NEW tasks, NEW ps, TableFine(tasks, ps), NEW p \in DOMAIN ps, NEW i \in DOMAIN ps[p]
  PROVE  LET qs == [ps EXCEPT ![p] = RemoveAt(@, i)]
         IN  /\ TableFine(tasks, qs) /\ TotalEntries(qs) = TotalEntries(ps) - 1
             /\ DOMAIN qs = DOMAIN ps /\ \A q \in DOMAIN ps \ {p} : qs[q] = ps[q]
             /\ ToSet(qs[p]) = {ps[p][j] : j \in DOMAIN ps[p] \ {i}}
             /\ \A x \in ToSet(qs[p]) : x.id # ps[p][i].id
<1>1. PICK qs : qs = [ps EXCEPT ![p] = RemoveAt(@, i)]
  OBVIOUS
<1>2. PICK old : old = ps[p]
  OBVIOUS
<1>3. PICK rest : rest = RemoveAt(old, i)
  OBVIOUS
<1>4. DOMAIN qs = DOMAIN ps /\ qs[p] = rest /\ \A q \in DOMAIN ps \ {p} : qs[q] = ps[q]
  BY <1>1, <1>2, <1>3
<1>5. ps = [q \in DOMAIN ps |-> ps[q]] /\ IsFiniteSet(Places(ps)) /\ ItemsFine(tasks, old, p)
  BY <1>2 DEF TableFine
<1>6. old \in Seq(HistItem) /\ IsInjective(old)
  BY <1>5 DEF ItemsFine
<1>7. i \in 1..Len(old) /\ DOMAIN old = 1..Len(old) /\ Len(old) \in Nat
  BY <1>2, <1>6
<1>8. /\ rest \in Seq(HistItem) /\ Len(rest) = Len(old) - 1 /\ IsInjective(rest)
      /\ ToSet(rest) = {old[j] : j \in (1..Len(old)) \ {i}}
  BY <1>3, <1>6, <1>7, RemovedAt
<1>9. \A x \in ToSet(rest) : x \in ToSet(old) /\ x # old[i]
  BY <1>6, <1>7, <1>8 DEF ToSet, IsInjective
<1>10. old[i] \in ToSet(old)
  BY <1>7 DEF ToSet
<1>11. \A x \in ToSet(rest) : x.id # old[i].id
  BY <1>5, <1>9, <1>10 DEF ItemsFine
<1>12. ItemsFine(tasks, rest, p)
  BY <1>5, <1>8, <1>9 DEF ItemsFine
<1>13. \A q \in DOMAIN qs : ItemsFine(tasks, qs[q], q)
  BY <1>4, <1>12 DEF TableFine
<1>14. DOMAIN rest = 1..(Len(old) - 1)
  BY <1>7, <1>8
<1> DEFINE last == <<p, Len(old)>>
<1>15. last \in Places(ps)
  <2>1. Len(old) \in DOMAIN ps[p]
    BY <1>2, <1>7
  <2> QED
    BY <2>1, PlaceIs
<1>16. Places(qs) = Places(ps) \ {last}
  <2>1. ASSUME NEW place, place \in Places(qs)
        PROVE  place \in Places(ps) \ {last}
    <3>1. PICK q \in DOMAIN qs : \E j \in DOMAIN qs[q] : place = <<q, j>>
      BY <2>1, PlaceIs
    <3>2. PICK j \in DOMAIN qs[q] : place = <<q, j>>
      BY <3>1
    <3>3. q \in DOMAIN ps
      BY <1>4, <3>1
    <3>4. CASE q # p
      <4>1. j \in DOMAIN ps[q] /\ place # last
        BY <1>4, <3>2, <3>3, <3>4
      <4> QED
        BY <3>2, <3>3, <4>1, PlaceIs
    <3>5. CASE q = p
      <4>1. j \in 1..(Len(old) - 1)
        BY <1>4, <1>14, <3>2, <3>5
      <4>2. j \in DOMAIN ps[q] /\ j # Len(old)
        BY <1>2, <1>7, <3>5, <4>1
      <4>3. place # last
        BY <3>2, <4>2
      <4> QED
        BY <3>2, <3>3, <4>2, <4>3, PlaceIs
    <3> QED
      BY <3>4, <3>5
  <2>2. ASSUME NEW place, place \in Places(ps), place # last
        PROVE  place \in Places(qs)
    <3>1. PICK q \in DOMAIN ps : \E j \in DOMAIN ps[q] : place = <<q, j>>
      BY <2>2, PlaceIs
    <3>2. PICK j \in DOMAIN ps[q] : place = <<q, j>>
      BY <3>1
    <3>3. q \in DOMAIN qs
      BY <1>4, <3>1
    <3>4. j \in DOMAIN qs[q]
      <4>1. CASE q # p
        BY <1>4, <3>1, <3>2, <4>1
      <4>2. CASE q = p
        <5>1. j \in 1..Len(old) /\ j # Len(old)
          BY <1>2, <1>7, <2>2, <3>2, <4>2
        <5>2. j \in 1..(Len(old) - 1)
          BY <1>7, <5>1
        <5> QED
          BY <1>4, <1>14, <4>2, <5>2
      <4> QED
        BY <4>1, <4>2
    <3> QED
      BY <3>2, <3>3, <3>4, PlaceIs
  <2> HIDE DEF last
  <2>3. Places(qs) \subseteq Places(ps) \ {last}
    BY <2>1
  <2>4. Places(ps) \ {last} \subseteq Places(qs)
    BY <2>2
  <2> QED
    BY <2>3, <2>4
<1> HIDE DEF last
<1>17. IsFiniteSet(Places(qs)) /\ Cardinality(Places(qs)) = Cardinality(Places(ps)) - 1
  BY <1>5, <1>15, <1>16, FS_RemoveElement
<1>18. qs = [q \in DOMAIN qs |-> qs[q]]
  BY <1>1, <1>4, <1>5
<1>19. TableFine(tasks, qs)
  BY <1>13, <1>17, <1>18 DEF TableFine
<1>20. TotalEntries(qs) = TotalEntries(ps) - 1
  BY <1>17 DEF TotalEntries
<1>21. ToSet(qs[p]) = {ps[p][j] : j \in DOMAIN ps[p] \ {i}}
  BY <1>2, <1>4, <1>7, <1>8
<1>22. \A x \in ToSet(qs[p]) : x.id # ps[p][i].id
  BY <1>2, <1>4, <1>11
<1> QED
  BY <1>1, <1>4, <1>19, <1>20, <1>21, <1>22

(* prune_expired drops entries that are not visible, and nothing else. *)
LEMMA ExpiredGone ==
  ASSUME TableFine(histTasks, histPartitions)
  PROVE  /\ TableFine(histTasks, PruneExpired) /\ NoneEmpty(PruneExpired)
         /\ TotalEntries(PruneExpired) <= TotalEntries(histPartitions)
         /\ TotalEntries(PruneExpired) \in Nat /\ TotalEntries(histPartitions) \in Nat
         /\ \A p \in DOMAIN histPartitions :
              ToSet(ItemsOf(PruneExpired, p)) = {x \in ToSet(histPartitions[p]) : IsVisible(x)}
<1> DEFINE Seen(p) == {x \in ToSet(histPartitions[p]) : IsVisible(x)}
<1>1. PICK ps : ps = histPartitions
  OBVIOUS
<1>2. PICK qs : qs = [p \in DOMAIN ps |-> Retain(ps[p], Seen(p))]
  OBVIOUS
<1>3. DOMAIN qs = DOMAIN ps /\ \A p \in DOMAIN ps : qs[p] = Retain(ps[p], Seen(p))
  BY <1>2
<1>4. PruneExpired = NonEmpty(qs)
  BY <1>1, <1>2 DEF PruneExpired
<1>5. ASSUME NEW p \in DOMAIN ps
      PROVE  /\ ItemsFine(histTasks, qs[p], p) /\ ToSet(qs[p]) = Seen(p)
             /\ DOMAIN qs[p] \subseteq DOMAIN ps[p]
  <2>1. PICK seq : seq = ps[p]
    OBVIOUS
  <2>2. PICK keep : keep = Seen(p)
    OBVIOUS
  <2>3. ItemsFine(histTasks, seq, p)
    BY <1>1, <2>1 DEF TableFine
  <2>4. seq \in Seq(HistItem) /\ IsInjective(seq)
    BY <2>3 DEF ItemsFine
  <2>5. PICK few : few = Retain(seq, keep)
    OBVIOUS
  <2>6. /\ few \in Seq(HistItem) /\ Len(few) <= Len(seq)
        /\ ToSet(few) = ToSet(seq) \cap keep /\ IsInjective(few)
    BY <2>4, <2>5, Retained
  <2>7. keep \subseteq ToSet(seq)
    BY <1>1, <2>1, <2>2
  <2>8. few = qs[p]
    BY <1>3, <2>1, <2>2, <2>5
  <2>9. ToSet(few) = keep
    BY <2>6, <2>7
  <2>10. ItemsFine(histTasks, few, p)
    BY <2>3, <2>6, <2>7, <2>9 DEF ItemsFine
  <2>11. DOMAIN few \subseteq DOMAIN seq
    BY <2>4, <2>6
  <2> QED
    BY <2>1, <2>2, <2>8, <2>9, <2>10, <2>11
<1> HIDE DEF Seen
<1>6. Places(qs) \subseteq Places(ps)
  <2> SUFFICES ASSUME NEW place, place \in Places(qs)
               PROVE  place \in Places(ps)
    OBVIOUS
  <2>1. PICK p \in DOMAIN qs : \E i \in DOMAIN qs[p] : place = <<p, i>>
    BY PlaceIs
  <2>2. p \in DOMAIN ps /\ DOMAIN qs[p] \subseteq DOMAIN ps[p]
    BY <1>3, <1>5, <2>1
  <2> QED
    BY <2>1, <2>2, PlaceIs
<1>7. IsFiniteSet(Places(ps))
  BY <1>1 DEF TableFine
<1>8. /\ IsFiniteSet(Places(qs)) /\ TotalEntries(qs) <= TotalEntries(ps)
      /\ TotalEntries(ps) \in Nat /\ TotalEntries(qs) \in Nat
  BY <1>6, <1>7, FewerPlaces
<1>9. qs = [p \in DOMAIN qs |-> qs[p]]
  BY <1>2
<1>10. TableFine(histTasks, qs)
  <2>1. \A p \in DOMAIN qs : ItemsFine(histTasks, qs[p], p)
    BY <1>3, <1>5
  <2> QED
    BY <1>8, <1>9, <2>1 DEF TableFine
<1>11. PICK tasks : tasks = histTasks
  OBVIOUS
<1>12. /\ TableFine(tasks, NonEmpty(qs)) /\ NoneEmpty(NonEmpty(qs))
       /\ TotalEntries(NonEmpty(qs)) = TotalEntries(qs)
       /\ \A p : ToSet(ItemsOf(NonEmpty(qs), p)) = ToSet(ItemsOf(qs, p))
  <2>1. TableFine(tasks, qs)
    BY <1>10, <1>11
  <2> QED
    BY <2>1, NonEmptyFine
<1>13. ASSUME NEW p \in DOMAIN ps
       PROVE  ToSet(ItemsOf(NonEmpty(qs), p)) = Seen(p)
  <2>1. ItemsOf(qs, p) = qs[p]
    BY <1>3 DEF ItemsOf
  <2> QED
    BY <1>5, <1>12, <2>1
<1> QED
  BY <1>1, <1>4, <1>8, <1>11, <1>12, <1>13 DEF Seen

(* The summary of a task the partition has takes the place of the old one. *)
LEMMA ReplacedFine ==
  ASSUME NEW tasks, NEW ps, TableFine(tasks, ps), NoneEmpty(ps), histClock \in Nat,
         NEW summary \in HistSummary, tasks[summary.id].owner = summary.partition,
         summary.partition \in DOMAIN ps,
         NEW i \in DOMAIN ps[summary.partition], ps[summary.partition][i].id = summary.id
  PROVE  /\ TableFine(tasks, Replaced(ps, summary, i)) /\ NoneEmpty(Replaced(ps, summary, i))
         /\ TotalEntries(Replaced(ps, summary, i)) = TotalEntries(ps)
         /\ \A p : \A x \in ToSet(ItemsOf(ps, p)) :
              \E kept \in ToSet(ItemsOf(Replaced(ps, summary, i), p)) :
                kept.id = x.id /\ (kept = x \/ x.id = summary.id)
<1>1. PICK p : p = summary.partition
  OBVIOUS
<1>2. PICK at : at = ps[p][i].at
  OBVIOUS
<1>3. PICK since : since = IF ~summary.terminal THEN NoInstant ELSE IF at # NoInstant THEN at ELSE histClock
  OBVIOUS
<1>4. PICK item : item = StoredItem(summary, since)
  OBVIOUS
<1>5. PICK qs : qs = [ps EXCEPT ![p] = RemoveAt(@, i)]
  OBVIOUS
<1>6. PICK rs : rs = Pushed(qs, p, item)
  OBVIOUS
<1>7. Replaced(ps, summary, i) = rs
  BY <1>1, <1>2, <1>3, <1>4, <1>5, <1>6 DEF Replaced
<1>8. p \in DOMAIN ps /\ i \in DOMAIN ps[p] /\ ps[p][i].id = summary.id
  BY <1>1
<1>9. ps[p] \in Seq(HistItem)
  BY <1>8 DEF TableFine, ItemsFine
<1>10. ps[p][i] \in HistItem
  BY <1>8, <1>9
<1>11. at \in Nat \cup {NoInstant}
  BY <1>2, <1>10 DEF HistItem
<1>12. since \in Nat \cup {NoInstant} /\ (summary.terminal <=> since # NoInstant)
  BY <1>3, <1>11, HistAssumption DEF HistSummary
<1>13. /\ item = [id |-> summary.id, revision |-> summary.revision, terminal |-> summary.terminal, at |-> since]
       /\ summary.id \in HistTasks /\ summary.revision \in Nat /\ summary.terminal \in BOOLEAN
  BY <1>4 DEF StoredItem, HistSummary
<1>14. item \in HistItem /\ item.id = summary.id /\ item.at = since
  BY <1>12, <1>13 DEF HistItem
<1>15. InstantFits(item)
  BY <1>12, <1>13 DEF InstantFits
<1>16. /\ TableFine(tasks, qs) /\ TotalEntries(qs) = TotalEntries(ps) - 1
       /\ DOMAIN qs = DOMAIN ps /\ \A q \in DOMAIN ps \ {p} : qs[q] = ps[q]
       /\ ToSet(qs[p]) = {ps[p][j] : j \in DOMAIN ps[p] \ {i}}
       /\ \A x \in ToSet(qs[p]) : x.id # ps[p][i].id
  BY <1>5, <1>8, EntryCut
<1>17. ItemsOf(qs, p) = qs[p]
  BY <1>8, <1>16 DEF ItemsOf
<1>18. \A x \in ToSet(ItemsOf(qs, p)) : x.id # item.id
  BY <1>8, <1>14, <1>16, <1>17
<1>19. \A q \in DOMAIN qs \ {p} : qs[q] # <<>>
  BY <1>16 DEF NoneEmpty
<1>20. tasks[item.id].owner = p
  BY <1>1, <1>14
<1>21. /\ TableFine(tasks, rs) /\ NoneEmpty(rs)
       /\ TotalEntries(rs) = TotalEntries(qs) + 1
       /\ ToSet(ItemsOf(rs, p)) = ToSet(ItemsOf(qs, p)) \cup {item}
       /\ \A q : q # p => ItemsOf(rs, q) = ItemsOf(qs, q)
  <2>1. MayPush(tasks, qs, p, item)
    BY <1>14, <1>15, <1>16, <1>18, <1>19, <1>20 DEF MayPush
  <2> QED
    BY <1>6, <2>1, PushedFine
<1>22. TotalEntries(rs) = TotalEntries(ps)
  <2>1. TotalEntries(ps) \in Nat
    BY FS_CardinalityType DEF TotalEntries, TableFine
  <2> QED
    BY <1>16, <1>21, <2>1
<1>23. ASSUME NEW q, NEW x \in ToSet(ItemsOf(ps, q))
       PROVE  \E kept \in ToSet(ItemsOf(rs, q)) : kept.id = x.id /\ (kept = x \/ x.id = summary.id)
  <2>1. CASE q # p
    <3>1. ItemsOf(rs, q) = ItemsOf(ps, q)
      BY <1>16, <1>21, <2>1 DEF ItemsOf
    <3> QED
      BY <3>1
  <2>2. CASE q = p
    <3>1. PICK j \in DOMAIN ps[p] : x = ps[p][j]
      BY <1>8, <2>2 DEF ItemsOf, ToSet
    <3>2. CASE j = i
      <4>1. item \in ToSet(ItemsOf(rs, q)) /\ item.id = x.id /\ x.id = summary.id
        BY <1>8, <1>14, <1>21, <2>2, <3>1, <3>2
      <4> QED
        BY <4>1
    <3>3. CASE j # i
      <4>1. x \in ToSet(ItemsOf(rs, q))
        BY <1>16, <1>17, <1>21, <2>2, <3>1, <3>3
      <4> QED
        BY <4>1
    <3> QED
      BY <3>2, <3>3
  <2> QED
    BY <2>1, <2>2
<1> QED
  BY <1>7, <1>21, <1>22, <1>23

(* Once there is room the table is below its limit, and all that made room *)
(* for an entry was terminal.                                              *)
LEMMA EvictionFine ==
  ASSUME NEW tasks, NEW ps, TableFine(tasks, ps), NoneEmpty(ps), TotalEntries(ps) <= HistMaxEntries,
         NEW rs \in Evictions(ps)
  PROVE  /\ TableFine(tasks, rs) /\ NoneEmpty(rs) /\ TotalEntries(rs) < HistMaxEntries
         /\ TotalEntries(rs) \in Nat
         /\ \A p : /\ ToSet(ItemsOf(rs, p)) \subseteq ToSet(ItemsOf(ps, p))
                   /\ \A x \in ToSet(ItemsOf(ps, p)) : ~x.terminal => x \in ToSet(ItemsOf(rs, p))
<1>1. TotalEntries(ps) \in Nat /\ HistMaxEntries \in Nat
  BY FS_CardinalityType, HistAssumption DEF TotalEntries, TableFine
<1>2. CASE TotalEntries(ps) < HistMaxEntries
  <2>1. rs = ps
    BY <1>2 DEF Evictions
  <2> QED
    BY <1>1, <1>2, <2>1
<1>3. CASE ~(TotalEntries(ps) < HistMaxEntries)
  <2>1. PICK place \in OldestTerminal(ps) : rs = EvictedAt(ps, place)
    BY <1>3 DEF Evictions
  <2>2. place \in Places(ps) /\ ps[place[1]][place[2]].at # NoInstant
    BY Zenon, <2>1 DEF OldestTerminal
  <2>3. PICK p \in DOMAIN ps : \E i \in DOMAIN ps[p] : place = <<p, i>>
    BY <2>2, PlaceIs
  <2>4. PICK i \in DOMAIN ps[p] : place = <<p, i>>
    BY <2>3
  <2>5. place[1] = p /\ place[2] = i
    BY <2>4
  <2>6. PICK qs : qs = [ps EXCEPT ![p] = RemoveAt(@, i)]
    OBVIOUS
  <2>7. rs = NonEmpty(qs)
    BY <2>1, <2>5, <2>6 DEF EvictedAt
  <2>8. /\ TableFine(tasks, qs) /\ TotalEntries(qs) = TotalEntries(ps) - 1
        /\ DOMAIN qs = DOMAIN ps /\ \A q \in DOMAIN ps \ {p} : qs[q] = ps[q]
        /\ ToSet(qs[p]) = {ps[p][j] : j \in DOMAIN ps[p] \ {i}}
    BY <2>3, <2>4, <2>6, EntryCut
  <2>9. /\ TableFine(tasks, rs) /\ NoneEmpty(rs) /\ TotalEntries(rs) = TotalEntries(qs)
        /\ \A q : ToSet(ItemsOf(rs, q)) = ToSet(ItemsOf(qs, q))
    BY <2>7, <2>8, NonEmptyFine
  <2>10. TotalEntries(rs) < HistMaxEntries /\ TotalEntries(rs) \in Nat
    <3>1. TotalEntries(rs) \in Nat
      BY <2>9, FS_CardinalityType DEF TotalEntries, TableFine
    <3> QED
      BY <1>1, <2>8, <2>9, <3>1
  <2>11. ASSUME NEW q
         PROVE  /\ ToSet(ItemsOf(rs, q)) \subseteq ToSet(ItemsOf(ps, q))
                /\ \A x \in ToSet(ItemsOf(ps, q)) : ~x.terminal => x \in ToSet(ItemsOf(rs, q))
    <3>1. CASE q # p
      <4>1. ItemsOf(qs, q) = ItemsOf(ps, q)
        BY <2>8, <3>1 DEF ItemsOf
      <4> QED
        BY <2>9, <4>1
    <3>2. CASE q = p
      <4>1. ItemsOf(qs, q) = qs[p] /\ ItemsOf(ps, q) = ps[p]
        BY <2>3, <2>8, <3>2 DEF ItemsOf
      <4>2. ToSet(ItemsOf(rs, q)) = {ps[p][j] : j \in DOMAIN ps[p] \ {i}}
        BY <2>8, <2>9, <4>1
      <4>3. ToSet(ps[p]) = {ps[p][j] : j \in DOMAIN ps[p]}
        BY DEF ToSet
      <4>4. ASSUME NEW x \in ToSet(ps[p]), ~x.terminal
            PROVE  x \in ToSet(ItemsOf(rs, q))
        <5>1. x.at = NoInstant
          BY <2>3, <4>4 DEF TableFine, ItemsFine, InstantFits
        <5>2. PICK j \in DOMAIN ps[p] : x = ps[p][j]
          BY <4>3, <4>4
        <5>3. j # i
          BY <2>2, <2>5, <5>1, <5>2
        <5> QED
          BY <4>2, <5>2, <5>3
      <4>5. ToSet(ItemsOf(rs, q)) \subseteq ToSet(ps[p])
        BY <4>2, <4>3
      <4> QED
        BY <4>1, <4>4, <4>5
    <3> QED
      BY <3>1, <3>2
  <2> QED
    BY <2>9, <2>10, <2>11
<1> QED
  BY <1>2, <1>3

(* What a step may do to the entries: none that is live goes, and only a   *)
(* record of its own task changes it.                                      *)
LiveStay(before, after) ==
  \A p \in DOMAIN before : \A item \in ToSet(before[p]) :
    ~item.terminal =>
      \E kept \in ToSet(ItemsOf(after, p)) :
        /\ kept.id = item.id
        /\ kept = item \/ \E w \in HistWriters : histWriters[w] # NoSummary /\ histWriters[w].id = item.id

(* insert *)
LEMMA InsertFine ==
  ASSUME HistInv, NEW w \in HistWriters, RecordInserts(w)
  PROVE  /\ TableFine(histTasks, histPartitions') /\ NoneEmpty(histPartitions')
         /\ TotalEntries(histPartitions') <= HistMaxEntries
         /\ LiveStay(histPartitions, histPartitions')
<1>1. PICK tasks : tasks = histTasks
  OBVIOUS
<1>2. PICK hp : hp = histPartitions
  OBVIOUS
<1>3. PICK ps : ps = PruneExpired
  OBVIOUS
<1>4. PICK after : after = histPartitions'
  OBVIOUS
<1>5. PICK summary : summary = histWriters[w]
  OBVIOUS
<1>6. PICK p : p = summary.partition
  OBVIOUS
<1> DEFINE items == ItemsOf(ps, p)
           found == {i \in DOMAIN items : items[i].id = summary.id}
<1>7. /\ summary # NoSummary
      /\ \/ found # {} /\ after = Replaced(ps, summary, Min(found))
         \/ /\ found = {}
            /\ \E rs \in Evictions(ps) :
                 after = Pushed(rs, p, StoredItem(summary, IF summary.terminal THEN histClock ELSE NoInstant))
         \/ found = {} /\ after = ps
  BY Zenon, <1>3, <1>4, <1>5, <1>6 DEF RecordInserts
<1>8. summary \in HistSummary /\ tasks[summary.id].owner = p
  BY <1>1, <1>5, <1>6, <1>7 DEF HistInv, SummariesFine
<1>9. histClock \in Nat
  BY DEF HistInv, HistTypes
<1>10. TableFine(tasks, hp) /\ NoneEmpty(hp) /\ TotalEntries(hp) <= HistMaxEntries
  BY <1>1, <1>2 DEF HistInv
<1>11. /\ TableFine(tasks, ps) /\ NoneEmpty(ps)
       /\ TotalEntries(ps) <= TotalEntries(hp) /\ TotalEntries(ps) \in Nat /\ TotalEntries(hp) \in Nat
       /\ \A q \in DOMAIN hp : ToSet(ItemsOf(ps, q)) = {x \in ToSet(hp[q]) : IsVisible(x)}
  <2>1. TableFine(histTasks, histPartitions)
    BY DEF HistInv
  <2> QED
    BY <1>1, <1>2, <1>3, <2>1, ExpiredGone
<1>12. TotalEntries(ps) <= HistMaxEntries /\ HistMaxEntries \in Nat
  BY <1>10, <1>11, HistAssumption
<1>13. ASSUME NEW q \in DOMAIN hp, NEW x \in ToSet(hp[q]), ~x.terminal
       PROVE  x \in ToSet(ItemsOf(ps, q))
  <2>1. x.at = NoInstant
    BY <1>10, <1>13 DEF TableFine, ItemsFine, InstantFits
  <2> QED
    BY <1>11, <1>13, <2>1 DEF IsVisible
<1> HIDE DEF found
<1>14. CASE found # {} /\ after = Replaced(ps, summary, Min(found))
  <2>1. p \in DOMAIN ps /\ items = ps[p]
    <3>1. PICK i \in DOMAIN items : TRUE
      BY <1>14 DEF found
    <3>2. items # <<>>
      BY <3>1
    <3> QED
      BY <3>2 DEF ItemsOf
  <2>2. ps[p] \in Seq(HistItem)
    BY <1>11, <2>1 DEF TableFine, ItemsFine
  <2>3. found \subseteq Nat
    BY <2>1, <2>2 DEF found
  <2>4. \E i \in found : \A j \in found : i <= j
    BY <1>14, <2>3, Least
  <2>5. Min(found) \in found
    BY Zenon, <2>4 DEF Min
  <2>6. PICK i : i = Min(found)
    OBVIOUS
  <2>7. i \in DOMAIN ps[p] /\ ps[p][i].id = summary.id
    BY <2>1, <2>5, <2>6 DEF found
  <2>8. after = Replaced(ps, summary, i)
    BY <1>14, <2>6
  <2>9. /\ summary.partition \in DOMAIN ps /\ i \in DOMAIN ps[summary.partition]
        /\ ps[summary.partition][i].id = summary.id /\ tasks[summary.id].owner = summary.partition
    BY <1>6, <1>8, <2>1, <2>7
  <2> HIDE DEF items
  <2>10. /\ TableFine(tasks, after) /\ NoneEmpty(after) /\ TotalEntries(after) = TotalEntries(ps)
         /\ \A q : \A x \in ToSet(ItemsOf(ps, q)) :
              \E kept \in ToSet(ItemsOf(after, q)) : kept.id = x.id /\ (kept = x \/ x.id = summary.id)
    BY <1>8, <1>9, <1>11, <2>8, <2>9, ReplacedFine
  <2>11. LiveStay(hp, after)
    <3> SUFFICES ASSUME NEW q \in DOMAIN hp, NEW x \in ToSet(hp[q]), ~x.terminal
                 PROVE  \E kept \in ToSet(ItemsOf(after, q)) :
                          /\ kept.id = x.id
                          /\ kept = x \/ \E v \in HistWriters : histWriters[v] # NoSummary /\ histWriters[v].id = x.id
      BY DEF LiveStay
    <3>1. x \in ToSet(ItemsOf(ps, q))
      BY <1>13
    <3>2. PICK kept \in ToSet(ItemsOf(after, q)) : kept.id = x.id /\ (kept = x \/ x.id = summary.id)
      BY <2>10, <3>1
    <3>3. x.id = summary.id => \E v \in HistWriters : histWriters[v] # NoSummary /\ histWriters[v].id = x.id
      BY <1>5, <1>7
    <3> QED
      BY <3>2, <3>3
  <2> QED
    BY <1>1, <1>2, <1>4, <1>12, <2>10, <2>11
<1>15. CASE /\ found = {}
            /\ \E rs \in Evictions(ps) :
                 after = Pushed(rs, p, StoredItem(summary, IF summary.terminal THEN histClock ELSE NoInstant))
  <2>1. PICK since : since = IF summary.terminal THEN histClock ELSE NoInstant
    OBVIOUS
  <2>2. PICK item : item = StoredItem(summary, since)
    OBVIOUS
  <2>3. PICK rs \in Evictions(ps) : after = Pushed(rs, p, item)
    BY <1>15, <2>1, <2>2
  <2>4. summary.id \in HistTasks /\ summary.revision \in Nat /\ summary.terminal \in BOOLEAN
    BY <1>8 DEF HistSummary
  <2>5. since \in Nat \cup {NoInstant} /\ (summary.terminal <=> since # NoInstant)
    BY <1>9, <2>1, <2>4, HistAssumption
  <2>6. item = [id |-> summary.id, revision |-> summary.revision, terminal |-> summary.terminal, at |-> since]
    BY <2>2 DEF StoredItem
  <2>7. item \in HistItem /\ item.id = summary.id /\ item.at = since
    BY <2>4, <2>5, <2>6 DEF HistItem
  <2>8. InstantFits(item)
    BY <2>5, <2>6 DEF InstantFits
  <2>9. /\ TableFine(tasks, rs) /\ NoneEmpty(rs) /\ TotalEntries(rs) < HistMaxEntries
        /\ TotalEntries(rs) \in Nat
        /\ \A q : /\ ToSet(ItemsOf(rs, q)) \subseteq ToSet(ItemsOf(ps, q))
                  /\ \A x \in ToSet(ItemsOf(ps, q)) : ~x.terminal => x \in ToSet(ItemsOf(rs, q))
    <3> HIDE DEF items
    <3> QED
      BY <1>11, <1>12, <2>3, EvictionFine
  <2>10. \A x \in ToSet(items) : x.id # item.id
    BY <1>15, <2>7 DEF found, ToSet
  <2>11. \A x \in ToSet(ItemsOf(rs, p)) : x.id # item.id
    BY <2>9, <2>10
  <2>12. tasks[item.id].owner = p
    BY <1>8, <2>7
  <2>13. \A q \in DOMAIN rs \ {p} : rs[q] # <<>>
    BY <2>9 DEF NoneEmpty
  <2> HIDE DEF items
  <2>14. /\ TableFine(tasks, after) /\ NoneEmpty(after) /\ TotalEntries(after) = TotalEntries(rs) + 1
         /\ ToSet(ItemsOf(after, p)) = ToSet(ItemsOf(rs, p)) \cup {item}
         /\ \A q : q # p => ItemsOf(after, q) = ItemsOf(rs, q)
    <3>1. MayPush(tasks, rs, p, item)
      BY <2>7, <2>8, <2>9, <2>11, <2>12, <2>13 DEF MayPush
    <3> QED
      BY <2>3, <3>1, PushedFine
  <2>15. TotalEntries(after) <= HistMaxEntries
    BY <1>12, <2>9, <2>14
  <2>16. LiveStay(hp, after)
    <3> SUFFICES ASSUME NEW q \in DOMAIN hp, NEW x \in ToSet(hp[q]), ~x.terminal
                 PROVE  x \in ToSet(ItemsOf(after, q))
      BY DEF LiveStay
    <3>1. x \in ToSet(ItemsOf(rs, q))
      BY <1>13, <2>9
    <3> QED
      BY <2>14, <3>1
  <2> QED
    BY <1>1, <1>2, <1>4, <2>14, <2>15, <2>16
<1>16. CASE found = {} /\ after = ps
  <2>1. LiveStay(hp, after)
    <3> SUFFICES ASSUME NEW q \in DOMAIN hp, NEW x \in ToSet(hp[q]), ~x.terminal
                 PROVE  x \in ToSet(ItemsOf(after, q))
      BY DEF LiveStay
    <3> QED
      BY <1>13, <1>16
  <2> QED
    BY <1>1, <1>2, <1>4, <1>11, <1>12, <1>16, <2>1
<1> QED
  BY <1>7, <1>14, <1>15, <1>16


(* The history starts empty. *)
LEMMA HistInitFine ==
  ASSUME HistInit
  PROVE  HistInv
<1>1. HistTypes
  <2>1. histTasks \in [HistTasks -> [owner : HistPrincipals, revision : Nat, terminal : BOOLEAN]]
    <3>1. [owner : HistPrincipals, revision : {0}, terminal : {FALSE}]
            \subseteq [owner : HistPrincipals, revision : Nat, terminal : BOOLEAN]
      <4> SUFFICES ASSUME NEW r \in [owner : HistPrincipals, revision : {0}, terminal : {FALSE}]
                   PROVE  r \in [owner : HistPrincipals, revision : Nat, terminal : BOOLEAN]
        OBVIOUS
      <4>1. /\ r = [owner |-> r.owner, revision |-> r.revision, terminal |-> r.terminal]
            /\ r.owner \in HistPrincipals /\ r.revision = 0 /\ r.terminal = FALSE
        OBVIOUS
      <4>2. r.revision \in Nat
        BY <4>1
      <4>3. r.terminal \in BOOLEAN
        BY <4>1
      <4> QED
        BY Zenon, <4>1, <4>2, <4>3
    <3> QED
      BY <3>1 DEF HistInit
  <2> QED
    BY <2>1 DEF HistInit, HistTypes
<1>2. SummariesFine
  BY DEF HistInit, SummariesFine
<1>3. histPartitions = <<>> /\ DOMAIN histPartitions = {}
  BY DEF HistInit
<1>4. Places(histPartitions) = {}
  BY <1>3 DEF Places
<1>5. IsFiniteSet(Places(histPartitions)) /\ TotalEntries(histPartitions) = 0
  BY <1>4, FS_EmptySet DEF TotalEntries
<1>6. TableFine(histTasks, histPartitions) /\ NoneEmpty(histPartitions)
  BY <1>3, <1>5 DEF TableFine, NoneEmpty
<1>7. TotalEntries(histPartitions) <= HistMaxEntries
  BY <1>5, HistAssumption
<1> QED
  BY <1>1, <1>2, <1>6, <1>7 DEF HistInv

(* A table is as good for tasks with the same owners. *)
LEMMA SameOwners ==
  ASSUME NEW tasks, NEW later, NEW ps, TableFine(tasks, ps),
         \A t \in HistTasks : later[t].owner = tasks[t].owner
  PROVE  TableFine(later, ps)
<1>1. ASSUME NEW p \in DOMAIN ps
      PROVE  ItemsFine(later, ps[p], p)
  <2>1. ItemsFine(tasks, ps[p], p)
    BY DEF TableFine
  <2>2. \A x \in ToSet(ps[p]) : x.id \in HistTasks
    <3>1. ps[p] \in Seq(HistItem)
      BY <2>1 DEF ItemsFine
    <3>2. \A x \in ToSet(ps[p]) : x \in HistItem
      BY <3>1 DEF ToSet
    <3>3. \A x \in HistItem : x.id \in HistTasks
      BY DEF HistItem
    <3> QED
      BY <3>2, <3>3
  <2> QED
    BY <2>1, <2>2 DEF ItemsFine
<1> QED
  BY <1>1 DEF TableFine

(* Every step keeps the invariant, and every live entry. *)
LEMMA HistStepFine ==
  ASSUME HistInv, [HistNext]_histVars
  PROVE  HistInv' /\ (LiveStay(histPartitions, histPartitions') \/ UNCHANGED histVars)
<1>1. /\ histClock \in Nat /\ DOMAIN histWriters = HistWriters
      /\ histTasks \in [HistTasks -> [owner : HistPrincipals, revision : Nat, terminal : BOOLEAN]]
      /\ TableFine(histTasks, histPartitions) /\ NoneEmpty(histPartitions)
      /\ TotalEntries(histPartitions) <= HistMaxEntries /\ SummariesFine
  BY DEF HistInv, HistTypes
<1>2. UNCHANGED histPartitions => LiveStay(histPartitions, histPartitions')
  BY DEF LiveStay, ItemsOf
<1>3. ASSUME NEW t \in HistTasks, NEW terminal \in BOOLEAN, HistAdvance(t, terminal)
      PROVE  HistInv' /\ LiveStay(histPartitions, histPartitions')
  <2>1. UNCHANGED <<histPartitions, histWriters, histClock>>
    BY <1>3 DEF HistAdvance
  <2>2. PICK task : task = [owner |-> histTasks[t].owner, revision |-> histTasks[t].revision + 1, terminal |-> terminal]
    OBVIOUS
  <2>3. histTasks' = [histTasks EXCEPT ![t] = task]
    BY <1>3, <2>2 DEF HistAdvance
  <2>4. task \in [owner : HistPrincipals, revision : Nat, terminal : BOOLEAN] /\ task.owner = histTasks[t].owner
    <3>1. histTasks[t].owner \in HistPrincipals /\ histTasks[t].revision + 1 \in Nat
      BY <1>1
    <3> QED
      BY <2>2, <3>1
  <2>5. histTasks' \in [HistTasks -> [owner : HistPrincipals, revision : Nat, terminal : BOOLEAN]]
    BY <1>1, <2>3, <2>4
  <2>6. \A u \in HistTasks : histTasks'[u].owner = histTasks[u].owner
    BY <1>1, <2>3, <2>4
  <2>7. TableFine(histTasks', histPartitions)
    <3>1. PICK tasks : tasks = histTasks
      OBVIOUS
    <3>2. PICK later : later = histTasks'
      OBVIOUS
    <3>3. PICK ps : ps = histPartitions
      OBVIOUS
    <3>4. TableFine(tasks, ps) /\ \A u \in HistTasks : later[u].owner = tasks[u].owner
      BY <1>1, <2>6, <3>1, <3>2, <3>3
    <3>5. TableFine(later, ps)
      BY <3>4, SameOwners
    <3> QED
      BY <3>2, <3>3, <3>5
  <2>8. SummariesFine'
    BY <1>1, <2>1, <2>6 DEF SummariesFine, HistSummary
  <2>9. HistTypes'
    BY <1>1, <2>1, <2>5 DEF HistTypes
  <2> QED
    BY <1>1, <1>2, <2>1, <2>7, <2>8, <2>9 DEF HistInv
<1>4. ASSUME NEW w \in HistWriters, NEW p \in HistPrincipals, NEW t \in HistTasks, RecordReads(w, p, t)
      PROVE  HistInv' /\ LiveStay(histPartitions, histPartitions')
  <2>1. UNCHANGED <<histTasks, histPartitions, histClock>> /\ histTasks[t].owner = p
    BY <1>4 DEF RecordReads
  <2>2. PICK summary : summary = [partition |-> p, id |-> t, revision |-> histTasks[t].revision, terminal |-> histTasks[t].terminal]
    OBVIOUS
  <2>3. histWriters' = [histWriters EXCEPT ![w] = summary]
    BY <1>4, <2>2 DEF RecordReads
  <2>4. summary \in HistSummary /\ histTasks[summary.id].owner = summary.partition
    BY <1>1, <2>1, <2>2 DEF HistSummary
  <2>5. SummariesFine'
    <3> SUFFICES ASSUME NEW v \in HistWriters, histWriters'[v] # NoSummary
                 PROVE  histWriters'[v] \in HistSummary /\ histTasks[histWriters'[v].id].owner = histWriters'[v].partition
      BY <2>1 DEF SummariesFine, HistSummary
    <3>1. CASE v = w
      BY <1>1, <2>3, <2>4, <3>1
    <3>2. CASE v # w
      <4>1. histWriters'[v] = histWriters[v]
        BY <1>1, <2>3, <3>2
      <4> QED
        BY <1>1, <4>1 DEF SummariesFine
    <3> QED
      BY <3>1, <3>2
  <2>6. HistTypes'
    BY <1>1, <2>1, <2>3 DEF HistTypes
  <2> QED
    BY <1>1, <1>2, <2>1, <2>5, <2>6 DEF HistInv
<1>5. ASSUME NEW w \in HistWriters, RecordInserts(w)
      PROVE  HistInv' /\ LiveStay(histPartitions, histPartitions')
  <2>1. UNCHANGED <<histTasks, histClock>> /\ histWriters' = [histWriters EXCEPT ![w] = NoSummary]
    BY <1>5 DEF RecordInserts
  <2>2. /\ TableFine(histTasks, histPartitions') /\ NoneEmpty(histPartitions')
        /\ TotalEntries(histPartitions') <= HistMaxEntries
        /\ LiveStay(histPartitions, histPartitions')
    BY <1>5, InsertFine
  <2>3. SummariesFine'
    <3> SUFFICES ASSUME NEW v \in HistWriters, histWriters'[v] # NoSummary
                 PROVE  histWriters'[v] \in HistSummary /\ histTasks[histWriters'[v].id].owner = histWriters'[v].partition
      BY <2>1 DEF SummariesFine, HistSummary
    <3>1. histWriters'[v] = histWriters[v]
      BY <1>1, <2>1
    <3> QED
      BY <1>1, <3>1 DEF SummariesFine
  <2>4. HistTypes'
    BY <1>1, <2>1 DEF HistTypes
  <2> QED
    BY <2>1, <2>2, <2>3, <2>4 DEF HistInv
<1>6. ASSUME HistTick
      PROVE  HistInv' /\ LiveStay(histPartitions, histPartitions')
  <2>1. UNCHANGED <<histTasks, histPartitions, histWriters>> /\ histClock' = histClock + 1
    BY <1>6 DEF HistTick
  <2>2. SummariesFine' /\ HistTypes'
    BY <1>1, <2>1 DEF SummariesFine, HistTypes
  <2> QED
    BY <1>1, <1>2, <2>1, <2>2 DEF HistInv
<1>7. CASE UNCHANGED histVars
  BY <1>1, <1>7 DEF HistInv, HistTypes, SummariesFine, histVars
<1> QED
  BY <1>3, <1>4, <1>5, <1>6, <1>7 DEF HistNext

(* The history is one bounded table (OperationHistory::insert): within     *)
(* max_entries over all principals, one entry per task and that one with   *)
(* its owner, and an instant exactly when it is terminal, for any limits,  *)
(* tasks, principals and recording threads.                                *)
THEOREM HistoryBound == HistSpec => []HistoryIsBounded
<1>1. HistInit => HistInv
  BY HistInitFine
<1>2. HistInv /\ [HistNext]_histVars => HistInv'
  BY HistStepFine
<1>3. HistInv => HistoryIsBounded
  <2> SUFFICES ASSUME HistInv
               PROVE  HistoryIsBounded
    OBVIOUS
  <2>1. ASSUME NEW p \in DOMAIN histPartitions
        PROVE  /\ histPartitions[p] # <<>>
               /\ \A i, j \in DOMAIN histPartitions[p] : histPartitions[p][i].id = histPartitions[p][j].id => i = j
               /\ \A i \in DOMAIN histPartitions[p] :
                    /\ histTasks[histPartitions[p][i].id].owner = p
                    /\ histPartitions[p][i].terminal <=> histPartitions[p][i].at # NoInstant
    <3>1. ItemsFine(histTasks, histPartitions[p], p) /\ histPartitions[p] # <<>>
      BY DEF HistInv, TableFine, NoneEmpty
    <3>2. \A i \in DOMAIN histPartitions[p] : histPartitions[p][i] \in ToSet(histPartitions[p])
      BY DEF ToSet
    <3>3. \A i, j \in DOMAIN histPartitions[p] : histPartitions[p][i].id = histPartitions[p][j].id => i = j
      BY <3>1, <3>2 DEF ItemsFine, IsInjective
    <3>4. ASSUME NEW i \in DOMAIN histPartitions[p]
          PROVE  /\ histTasks[histPartitions[p][i].id].owner = p
                 /\ histPartitions[p][i].terminal <=> histPartitions[p][i].at # NoInstant
      <4>1. histTasks[histPartitions[p][i].id].owner = p /\ InstantFits(histPartitions[p][i])
        BY <3>1, <3>2 DEF ItemsFine
      <4> QED
        BY <4>1 DEF InstantFits
    <3> QED
      BY <3>1, <3>3, <3>4
  <2>2. TotalEntries(histPartitions) <= HistMaxEntries
    BY DEF HistInv
  <2> QED
    BY <2>1, <2>2 DEF HistoryIsBounded
<1> QED
  BY <1>1, <1>2, <1>3, PTL DEF HistSpec

(* Room is made at the expense of finished work only: no step of any       *)
(* recording thread drops an entry that is not terminal, and only a record *)
(* of its own task changes it (prune_expired and the eviction of insert).  *)
THEOREM LiveEntriesKept == HistSpec => LiveEntriesStay
<1>1. HistInit => HistInv
  BY HistInitFine
<1>2. HistInv /\ [HistNext]_histVars => HistInv'
  BY HistStepFine
<1>3. HistInv /\ [HistNext]_histVars =>
        [\A p \in DOMAIN histPartitions : \A item \in ToSet(histPartitions[p]) :
           ~item.terminal =>
             \E kept \in ToSet(ItemsOf(histPartitions', p)) :
               /\ kept.id = item.id
               /\ kept = item \/ \E w \in HistWriters : histWriters[w] # NoSummary /\ histWriters[w].id = item.id
        ]_histVars
  BY HistStepFine DEF LiveStay
<1> QED
  BY <1>1, <1>2, <1>3, PTL DEF HistSpec, LiveEntriesStay

-----------------------------------------------------------------------------
(* Scratchpad *)

(* As many pairs as the function adds up to. *)
Pile(f) == UNION {{x} \X (1..f[x]) : x \in DOMAIN f}

(* The part of a pile that is not of x. *)
Apart(f, x) == {pair \in Pile(f) : pair[1] # x}

(* What is in a pile. *)
LEMMA PileIs ==
  ASSUME NEW f, NEW x, NEW i
  PROVE  <<x, i>> \in Pile(f) <=> x \in DOMAIN f /\ i \in 1..f[x]
BY DEF Pile

(* One member's part has its number. *)
LEMMA PartSize ==
  ASSUME NEW x, NEW n \in Nat
  PROVE  IsFiniteSet({x} \X (1..n)) /\ Cardinality({x} \X (1..n)) = n
<1> DEFINE b == [i \in 1..n |-> <<x, i>>]
<1>1. b \in Bijection(1..n, {x} \X (1..n))
  <2>1. b \in [1..n -> {x} \X (1..n)]
    OBVIOUS
  <2>2. \A i, j \in 1..n : b[i] = b[j] => i = j
    OBVIOUS
  <2>3. \A pair \in {x} \X (1..n) : pair[2] \in 1..n /\ b[pair[2]] = pair
    OBVIOUS
  <2> HIDE DEF b
  <2> QED
    BY <2>1, <2>2, <2>3 DEF Bijection, Injection, Surjection, IsInjective
<1>2. ExistsBijection(1..n, {x} \X (1..n))
  BY <1>1 DEF ExistsBijection
<1>3. IsFiniteSet(1..n) /\ Cardinality(1..n) = n
  BY FS_Interval
<1> QED
  BY <1>2, <1>3, FS_Bijection

(* A pile over a finite set is finite. *)
LEMMA PileFinite ==
  ASSUME NEW X, IsFiniteSet(X), NEW f \in [X -> Nat]
  PROVE  IsFiniteSet(Pile(f)) /\ Cardinality(Pile(f)) \in Nat
<1> DEFINE parts == [x \in X |-> {x} \X (1..f[x])]
           all   == {{x} \X (1..f[x]) : x \in X}
<1>1. parts \in Surjection(X, all)
  <2>1. parts \in [X -> all] /\ \A y \in all : \E x \in X : parts[x] = y
    OBVIOUS
  <2> HIDE DEF parts, all
  <2> QED
    BY <2>1 DEF Surjection
<1>2. ASSUME NEW y \in all
      PROVE  IsFiniteSet(y)
  <2>1. PICK x \in X : y = {x} \X (1..f[x])
    OBVIOUS
  <2> QED
    BY <2>1, PartSize
<1> HIDE DEF parts, all
<1>3. IsFiniteSet(all)
  BY <1>1, FS_Surjection
<1>4. IsFiniteSet(UNION all)
  BY <1>2, <1>3, FS_UNION
<1>5. Pile(f) = UNION all
  BY DEF Pile, all
<1> QED
  BY <1>4, <1>5, FS_CardinalityType

(* A pile is one member's part and the rest. *)
LEMMA PileSplit ==
  ASSUME NEW X, IsFiniteSet(X), NEW f \in [X -> Nat], NEW x
  PROVE  /\ IsFiniteSet(Apart(f, x)) /\ Cardinality(Apart(f, x)) \in Nat
         /\ Cardinality(Pile(f)) = Cardinality(Apart(f, x)) + (IF x \in X THEN f[x] ELSE 0)
<1>1. IsFiniteSet(Pile(f)) /\ Apart(f, x) \subseteq Pile(f)
  BY PileFinite DEF Apart
<1>2. IsFiniteSet(Apart(f, x)) /\ Cardinality(Apart(f, x)) \in Nat
  BY <1>1, FS_Subset, FS_CardinalityType
<1>3. CASE x \in X
  <2>1. PICK part : part = {x} \X (1..f[x])
    OBVIOUS
  <2>2. PICK rest : rest = Apart(f, x)
    OBVIOUS
  <2>3. IsFiniteSet(part) /\ Cardinality(part) = f[x] /\ f[x] \in Nat
    BY <1>3, <2>1, PartSize
  <2>4. Pile(f) = rest \cup part /\ rest \cap part = {}
    BY <1>3, <2>1, <2>2 DEF Pile, Apart
  <2>5. Cardinality(rest \cup part) = Cardinality(rest) + Cardinality(part) - Cardinality(rest \cap part)
    BY <1>2, <2>2, <2>3, FS_Union
  <2>6. Cardinality(rest \cap part) = 0
    BY <2>4, FS_EmptySet
  <2> QED
    BY <1>2, <1>3, <2>2, <2>3, <2>4, <2>5, <2>6
<1>4. CASE x \notin X
  <2>1. Apart(f, x) = Pile(f)
    BY <1>4 DEF Pile, Apart
  <2> QED
    BY <1>2, <1>4, <2>1
<1> QED
  BY <1>2, <1>3, <1>4

(* One member's number changes, or it joins or leaves. *)
LEMMA PileChange ==
  ASSUME NEW X, IsFiniteSet(X), NEW f \in [X -> Nat], NEW Y, IsFiniteSet(Y), NEW g \in [Y -> Nat], NEW x,
         X \ {x} = Y \ {x}, \A y \in X \ {x} : g[y] = f[y]
  PROVE  Cardinality(Pile(g)) + (IF x \in X THEN f[x] ELSE 0) = Cardinality(Pile(f)) + (IF x \in Y THEN g[x] ELSE 0)
<1>1. Apart(f, x) = Apart(g, x)
  <2>1. ASSUME NEW pair
        PROVE  pair \in Apart(f, x) <=> pair \in Apart(g, x)
    <3>1. pair \in Apart(f, x) <=> \E y \in X \ {x} : pair \in {y} \X (1..f[y])
      BY DEF Apart, Pile
    <3>2. pair \in Apart(g, x) <=> \E y \in Y \ {x} : pair \in {y} \X (1..g[y])
      BY DEF Apart, Pile
    <3> QED
      BY <3>1, <3>2
  <2> QED
    BY <2>1
<1>2. Cardinality(Pile(f)) = Cardinality(Apart(f, x)) + (IF x \in X THEN f[x] ELSE 0)
  BY PileSplit
<1>3. Cardinality(Pile(g)) = Cardinality(Apart(g, x)) + (IF x \in Y THEN g[x] ELSE 0)
  BY PileSplit
<1>4. Cardinality(Apart(f, x)) \in Nat
  BY PileSplit
<1>5. (IF x \in X THEN f[x] ELSE 0) \in Nat /\ (IF x \in Y THEN g[x] ELSE 0) \in Nat
  OBVIOUS
<1> QED
  BY <1>1, <1>2, <1>3, <1>4, <1>5

(* What a call may be. *)
PadPlaces == {"idle", "connect", "info", "cleanup", "persist", "rollback", "count", "drop", "note"}
PadCallType == [pc : PadPlaces, then : PadPlaces, sid : Pads \cup {NoPad}, table : PadTables \cup {NoTable},
                create : BOOLEAN, rows : Nat, paths : SUBSET Pads, conn : {"none", "info", "live", "stale", "orphan"}]

(* Where a call is, or will be once it has removed the pruned files. *)
Stage(call) == IF call.pc = "cleanup" THEN call.then ELSE call.pc

(* What a call has had charged to s, or has taken out of its file and not  *)
(* told yet.                                                               *)
RowsHeld(call, s) == IF call.sid = s /\ Stage(call) \in {"persist", "rollback", "note"} THEN call.rows ELSE 0
HoldsTable(call, s) ==
  call.sid = s /\ (Stage(call) = "note" \/ (Stage(call) \in {"persist", "rollback"} /\ call.create))
TablesHeld(call, s) == IF HoldsTable(call, s) THEN 1 ELSE 0

HeldRows(calls, s) == Cardinality(Pile([c \in PadCallers |-> RowsHeld(calls[c], s)]))
HeldTables(calls, s) == Cardinality({c \in PadCallers : HoldsTable(calls[c], s)})

(* What a file holds. *)
IsFile(file) == file = NoFile \/ \E T \in SUBSET PadTables : file \in [T -> Nat]
FileRows(file) == IF file = NoFile THEN 0 ELSE Cardinality(Pile(file))
FileTables(file) == IF file = NoFile THEN 0 ELSE Cardinality(DOMAIN file)

(* The usage speaks for the file and for the calls under way. *)
Charged(file, calls, s, used) ==
  /\ FileRows(file) + HeldRows(calls, s) <= used.rows
  /\ FileTables(file) + HeldTables(calls, s) <= used.tables

(* A call's share is a number. *)
LEMMA HeldType ==
  ASSUME NEW call \in PadCallType, NEW s
  PROVE  RowsHeld(call, s) \in Nat /\ TablesHeld(call, s) \in 0..1
BY DEF PadCallType, RowsHeld, TablesHeld

(* So are the sums. *)
LEMMA HeldSums ==
  ASSUME NEW calls \in [PadCallers -> PadCallType], NEW s
  PROVE  /\ HeldRows(calls, s) \in Nat /\ HeldTables(calls, s) \in Nat
         /\ (\A c \in PadCallers : RowsHeld(calls[c], s) = 0 /\ TablesHeld(calls[c], s) = 0)
              => HeldRows(calls, s) = 0 /\ HeldTables(calls, s) = 0
<1>1. PICK f : f = [c \in PadCallers |-> RowsHeld(calls[c], s)]
  OBVIOUS
<1>2. f \in [PadCallers -> Nat] /\ HeldRows(calls, s) = Cardinality(Pile(f))
  BY <1>1, HeldType DEF HeldRows
<1>3. IsFiniteSet(PadCallers)
  BY PadAssumption
<1>4. HeldRows(calls, s) \in Nat
  BY <1>2, <1>3, PileFinite
<1>5. PICK H : H = {c \in PadCallers : HoldsTable(calls[c], s)}
  OBVIOUS
<1>6. IsFiniteSet(H) /\ HeldTables(calls, s) = Cardinality(H)
  BY <1>3, <1>5, FS_Subset DEF HeldTables
<1>7. ASSUME \A c \in PadCallers : RowsHeld(calls[c], s) = 0 /\ TablesHeld(calls[c], s) = 0
      PROVE  HeldRows(calls, s) = 0 /\ HeldTables(calls, s) = 0
  <2>1. H = {}
    BY <1>5, <1>7 DEF TablesHeld
  <2>2. Pile(f) = {}
    BY <1>1, <1>7 DEF Pile
  <2> QED
    BY <1>2, <1>6, <2>1, <2>2, FS_EmptySet
<1> QED
  BY <1>4, <1>6, <1>7, FS_CardinalityType

(* One call changes. *)
LEMMA HeldChange ==
  ASSUME NEW calls \in [PadCallers -> PadCallType], NEW calls2 \in [PadCallers -> PadCallType], NEW s,
         NEW c \in PadCallers,
         \A d \in PadCallers \ {c} : /\ RowsHeld(calls2[d], s) = RowsHeld(calls[d], s)
                                     /\ TablesHeld(calls2[d], s) = TablesHeld(calls[d], s)
  PROVE  /\ HeldRows(calls2, s) + RowsHeld(calls[c], s) = HeldRows(calls, s) + RowsHeld(calls2[c], s)
         /\ HeldTables(calls2, s) + TablesHeld(calls[c], s) = HeldTables(calls, s) + TablesHeld(calls2[c], s)
<1>1. IsFiniteSet(PadCallers)
  BY PadAssumption
<1>2. PICK f : f = [d \in PadCallers |-> RowsHeld(calls[d], s)]
  OBVIOUS
<1>3. PICK g : g = [d \in PadCallers |-> RowsHeld(calls2[d], s)]
  OBVIOUS
<1>4. f \in [PadCallers -> Nat] /\ g \in [PadCallers -> Nat]
  BY <1>2, <1>3, HeldType
<1>5. \A d \in PadCallers \ {c} : g[d] = f[d]
  BY <1>2, <1>3
<1>6. Cardinality(Pile(g)) + (IF c \in PadCallers THEN f[c] ELSE 0)
        = Cardinality(Pile(f)) + (IF c \in PadCallers THEN g[c] ELSE 0)
  BY <1>1, <1>4, <1>5, PileChange
<1>7. HeldRows(calls2, s) + RowsHeld(calls[c], s) = HeldRows(calls, s) + RowsHeld(calls2[c], s)
  BY <1>2, <1>3, <1>6 DEF HeldRows
<1>8. PICK H : H = {d \in PadCallers : HoldsTable(calls[d], s)}
  OBVIOUS
<1>9. PICK G : G = {d \in PadCallers : HoldsTable(calls2[d], s)}
  OBVIOUS
<1>10. IsFiniteSet(H) /\ IsFiniteSet(G)
  BY <1>1, <1>8, <1>9, FS_Subset
<1>11. H \ {c} = G \ {c}
  BY <1>8, <1>9 DEF TablesHeld
<1>12. /\ Cardinality(H \ {c}) = IF c \in H THEN Cardinality(H) - 1 ELSE Cardinality(H)
       /\ Cardinality(G \ {c}) = IF c \in G THEN Cardinality(G) - 1 ELSE Cardinality(G)
  BY <1>10, FS_RemoveElement
<1>13. Cardinality(H) \in Nat /\ Cardinality(G) \in Nat
  BY <1>10, FS_CardinalityType
<1>14. TablesHeld(calls[c], s) = (IF c \in H THEN 1 ELSE 0) /\ TablesHeld(calls2[c], s) = IF c \in G THEN 1 ELSE 0
  BY <1>8, <1>9 DEF TablesHeld
<1>15. Cardinality(G) + TablesHeld(calls[c], s) = Cardinality(H) + TablesHeld(calls2[c], s)
  <2>1. PICK rest : rest = Cardinality(H \ {c})
    OBVIOUS
  <2>2. rest = Cardinality(H) - TablesHeld(calls[c], s)
    BY <1>12, <1>13, <1>14, <2>1
  <2>3. rest = Cardinality(G) - TablesHeld(calls2[c], s)
    <3>1. rest = Cardinality(G \ {c})
      BY <1>11, <2>1, Zenon
    <3> QED
      BY <1>12, <1>13, <1>14, <3>1
  <2>4. TablesHeld(calls[c], s) \in 0..1 /\ TablesHeld(calls2[c], s) \in 0..1
    BY HeldType
  <2> QED
    BY <1>13, <2>2, <2>3, <2>4
<1> QED
  BY <1>7, <1>8, <1>9, <1>15 DEF HeldTables

(* A file's numbers. *)
LEMMA FileSums ==
  ASSUME NEW file, IsFile(file)
  PROVE  FileRows(file) \in Nat /\ FileTables(file) \in Nat
<1>1. CASE file = NoFile
  BY <1>1 DEF FileRows, FileTables
<1>2. CASE file # NoFile
  <2>1. PICK T \in SUBSET PadTables : file \in [T -> Nat]
    BY <1>2 DEF IsFile
  <2>2. IsFiniteSet(T) /\ DOMAIN file = T
    BY <2>1, PadAssumption, FS_Subset
  <2> QED
    BY <1>2, <2>1, <2>2, PileFinite, FS_CardinalityType DEF FileRows, FileTables
<1> QED
  BY <1>1, <1>2

(* A file that is opened. *)
Opened(file) == IF file = NoFile THEN <<>> ELSE file

(* It is there, with what it held. *)
LEMMA OpenedFile ==
  ASSUME NEW file, IsFile(file)
  PROVE  /\ IsFile(Opened(file)) /\ Opened(file) # NoFile
         /\ FileRows(Opened(file)) = FileRows(file) /\ FileTables(Opened(file)) = FileTables(file)
<1>1. CASE file # NoFile
  BY <1>1 DEF Opened
<1>2. CASE file = NoFile
  <2>1. <<>> \in [{} -> Nat] /\ DOMAIN <<>> = {} /\ {} \in SUBSET PadTables
    OBVIOUS
  <2>2. IsFile(<<>>)
    BY <2>1 DEF IsFile
  <2>3. <<>> # NoFile
    BY <2>1, PadAssumption
  <2>4. Pile(<<>>) = {}
    BY <2>1 DEF Pile
  <2> QED
    BY <1>2, <2>1, <2>2, <2>3, <2>4, FS_EmptySet DEF Opened, FileRows, FileTables
<1> QED
  BY <1>1, <1>2

(* What an ingest of n rows into t leaves. *)
Ingested(file, t, n) ==
  [u \in DOMAIN file \cup {t} |-> IF u # t THEN file[u] ELSE IF t \in DOMAIN file THEN file[t] + n ELSE n]

(* Its numbers. *)
LEMMA IngestedFile ==
  ASSUME NEW file, IsFile(file), file # NoFile, NEW t \in PadTables, NEW n \in Nat
  PROVE  /\ IsFile(Ingested(file, t, n)) /\ Ingested(file, t, n) # NoFile
         /\ FileRows(Ingested(file, t, n)) = FileRows(file) + n
         /\ FileTables(Ingested(file, t, n)) = FileTables(file) + (IF t \in DOMAIN file THEN 0 ELSE 1)
         /\ \A u \in DOMAIN file : u \in DOMAIN Ingested(file, t, n) /\ file[u] <= Ingested(file, t, n)[u]
<1>1. PICK T \in SUBSET PadTables : file \in [T -> Nat]
  BY DEF IsFile
<1>2. PICK more : more = Ingested(file, t, n)
  OBVIOUS
<1>3. PICK T2 : T2 = T \cup {t}
  OBVIOUS
<1>4. /\ more \in [T2 -> Nat] /\ T2 \in SUBSET PadTables /\ DOMAIN file = T /\ DOMAIN more = T2
      /\ \A u \in T \ {t} : more[u] = file[u]
      /\ more[t] = IF t \in T THEN file[t] + n ELSE n
  BY <1>1, <1>2, <1>3 DEF Ingested
<1>5. IsFile(more) /\ more # NoFile
  BY <1>4, PadAssumption DEF IsFile
<1>6. IsFiniteSet(T) /\ IsFiniteSet(T2)
  BY <1>1, <1>4, PadAssumption, FS_Subset
<1>7. T \ {t} = T2 \ {t}
  BY <1>3
<1>8. Cardinality(Pile(more)) + (IF t \in T THEN file[t] ELSE 0)
        = Cardinality(Pile(file)) + (IF t \in T2 THEN more[t] ELSE 0)
  BY <1>1, <1>4, <1>6, <1>7, PileChange
<1>9. Cardinality(Pile(more)) \in Nat /\ Cardinality(Pile(file)) \in Nat
  BY <1>1, <1>4, <1>6, PileFinite
<1>10. FileRows(more) = FileRows(file) + n
  <2>1. t \in T2
    BY <1>3
  <2>2. Cardinality(Pile(more)) = Cardinality(Pile(file)) + n
    <3>1. CASE t \in T
      <4>1. more[t] = file[t] + n /\ file[t] \in Nat
        BY <1>1, <1>4, <3>1
      <4>2. Cardinality(Pile(more)) + file[t] = Cardinality(Pile(file)) + more[t]
        BY <1>8, <2>1, <3>1
      <4> QED
        BY <1>9, <4>1, <4>2
    <3>2. CASE t \notin T
      BY <1>4, <1>8, <1>9, <2>1, <3>2
    <3> QED
      BY <3>1, <3>2
  <2> QED
    BY <1>5, <2>2 DEF FileRows
<1>11. FileTables(more) = FileTables(file) + (IF t \in DOMAIN file THEN 0 ELSE 1)
  <2>1. Cardinality(T2) = IF t \in T THEN Cardinality(T) ELSE Cardinality(T) + 1
    BY <1>3, <1>6, FS_AddElement
  <2>2. Cardinality(T) \in Nat
    BY <1>6, FS_CardinalityType
  <2> QED
    BY <1>4, <1>5, <2>1, <2>2 DEF FileTables
<1>12. \A u \in DOMAIN file : u \in DOMAIN more /\ file[u] <= more[u]
  BY <1>1, <1>3, <1>4
<1> QED
  BY <1>2, <1>5, <1>10, <1>11, <1>12

(* The numbers after a table is dropped. *)
LEMMA CutFile ==
  ASSUME NEW file, IsFile(file), file # NoFile, NEW t \in DOMAIN file
  PROVE  /\ IsFile(Restrict(file, DOMAIN file \ {t})) /\ Restrict(file, DOMAIN file \ {t}) # NoFile
         /\ DOMAIN Restrict(file, DOMAIN file \ {t}) = DOMAIN file \ {t}
         /\ \A u \in DOMAIN file \ {t} : Restrict(file, DOMAIN file \ {t})[u] = file[u]
         /\ FileRows(Restrict(file, DOMAIN file \ {t})) + file[t] = FileRows(file) /\ file[t] \in Nat
         /\ FileTables(Restrict(file, DOMAIN file \ {t})) + 1 = FileTables(file)
<1>1. PICK T \in SUBSET PadTables : file \in [T -> Nat]
  BY DEF IsFile
<1>2. PICK less : less = Restrict(file, DOMAIN file \ {t})
  OBVIOUS
<1>3. PICK T2 : T2 = T \ {t}
  OBVIOUS
<1>4. /\ less \in [T2 -> Nat] /\ T2 \in SUBSET PadTables /\ DOMAIN file = T /\ DOMAIN less = T2 /\ t \in T
      /\ \A u \in T \ {t} : less[u] = file[u]
  BY <1>1, <1>2, <1>3 DEF Restrict
<1>5. IsFile(less) /\ less # NoFile
  BY <1>4, PadAssumption DEF IsFile
<1>6. IsFiniteSet(T) /\ IsFiniteSet(T2)
  BY <1>1, <1>4, PadAssumption, FS_Subset
<1>7. T \ {t} = T2 \ {t}
  BY <1>3
<1>8. Cardinality(Pile(less)) + (IF t \in T THEN file[t] ELSE 0)
        = Cardinality(Pile(file)) + (IF t \in T2 THEN less[t] ELSE 0)
  BY <1>1, <1>4, <1>6, <1>7, PileChange
<1>9. Cardinality(Pile(less)) \in Nat /\ Cardinality(Pile(file)) \in Nat /\ file[t] \in Nat
  BY <1>1, <1>4, <1>6, PileFinite
<1>10. FileRows(less) + file[t] = FileRows(file)
  <2>1. t \notin T2
    BY <1>3
  <2>2. Cardinality(Pile(less)) + file[t] = Cardinality(Pile(file))
    BY <1>4, <1>8, <1>9, <2>1
  <2> QED
    BY <1>5, <2>2 DEF FileRows
<1>11. FileTables(less) + 1 = FileTables(file)
  <2>1. Cardinality(T2) = Cardinality(T) - 1
    BY <1>3, <1>4, <1>6, FS_RemoveElement
  <2>2. Cardinality(T) \in Nat
    BY <1>6, FS_CardinalityType
  <2> QED
    BY <1>4, <1>5, <2>1, <2>2 DEF FileTables
<1> QED
  BY <1>2, <1>3, <1>4, <1>5, <1>9, <1>10, <1>11

PadUsage == [tables : Nat, rows : Nat]
PadFiles == {NoFile} \cup UNION {[T -> Nat] : T \in SUBSET PadTables}

(* A call knows its session and its table for as long as it needs them,    *)
(* and its connection while it drops.                                      *)
CallFits(call) ==
  /\ call.then \in {"idle", "connect", "persist", "count"} /\ (call.pc # "cleanup" => call.then = "idle")
  /\ Stage(call) # "idle" => call.sid \in Pads
  /\ Stage(call) \in {"persist", "rollback", "count", "drop", "note"} => call.table \in PadTables
  /\ call.pc = "drop" => call.conn \in {"live", "stale", "orphan"}

(* A drop has counted no more rows than its table has, unless the table or *)
(* the file is another's by now.                                           *)
DropFits(call, file) ==
  call.pc = "drop" /\ call.conn # "orphan" =>
    file # NoFile /\ (call.conn = "live" => call.table \in DOMAIN file /\ call.rows <= file[call.table])

PadTypes ==
  /\ padLive \subseteq Pads /\ padUsed \in [Pads -> PadUsage] /\ padFile \in [Pads -> PadFiles]
  /\ padCalls \in [PadCallers -> PadCallType]
PadCallsFit == \A c \in PadCallers : CallFits(padCalls[c]) /\ DropFits(padCalls[c], padFile[padCalls[c].sid])
PadCovered == \A s \in padLive \ padAstray : Charged(padFile[s], padCalls, s, padUsed[s])

(* The inductive invariant. *)
PadInv == PadTypes /\ PadCallsFit /\ PadCovered

(* Files are files. *)
LEMMA FilesAre ==
  ASSUME NEW file
  PROVE  IsFile(file) <=> file \in PadFiles
BY DEF IsFile, PadFiles

(* A call that holds nothing. *)
LEMMA HoldsNothing ==
  ASSUME NEW call, NEW s, call.sid # s \/ Stage(call) \notin {"persist", "rollback", "note"}
  PROVE  RowsHeld(call, s) = 0 /\ TablesHeld(call, s) = 0
BY DEF RowsHeld, TablesHeld, HoldsTable

(* The usage u of session s covers what call `after` holds in place of the *)
(* call of c.                                                              *)
ShareFits(c, after, s, u) ==
  /\ RowsHeld(after, s) + padUsed[s].rows <= RowsHeld(padCalls[c], s) + u.rows
  /\ TablesHeld(after, s) + padUsed[s].tables <= TablesHeld(padCalls[c], s) + u.tables

(* Nothing is held of session s and it has no file. *)
Blank(c, after, s) ==
  /\ padFile[s] = NoFile
  /\ RowsHeld(after, s) = 0 /\ TablesHeld(after, s) = 0
  /\ \A d \in PadCallers \ {c} : RowsHeld(padCalls[d], s) = 0 /\ TablesHeld(padCalls[d], s) = 0

(* A session stays covered when what a call holds, its file or its usage   *)
(* changes.                                                                *)
LEMMA StaysCharged ==
  ASSUME PadInv, NEW c \in PadCallers, NEW s \in padLive \ padAstray,
         NEW calls2 \in [PadCallers -> PadCallType], NEW file2, IsFile(file2), NEW used2 \in PadUsage,
         \A d \in PadCallers \ {c} : /\ RowsHeld(calls2[d], s) = RowsHeld(padCalls[d], s)
                                     /\ TablesHeld(calls2[d], s) = TablesHeld(padCalls[d], s),
         FileRows(file2) + RowsHeld(calls2[c], s) + padUsed[s].rows
           <= FileRows(padFile[s]) + RowsHeld(padCalls[c], s) + used2.rows,
         FileTables(file2) + TablesHeld(calls2[c], s) + padUsed[s].tables
           <= FileTables(padFile[s]) + TablesHeld(padCalls[c], s) + used2.tables
  PROVE  Charged(file2, calls2, s, used2)
<1>1. s \in Pads /\ padCalls \in [PadCallers -> PadCallType] /\ padFile[s] \in PadFiles /\ padUsed[s] \in PadUsage
  BY DEF PadInv, PadTypes
<1>2. PICK calls : calls = padCalls
  OBVIOUS
<1>3. PICK file : file = padFile[s]
  OBVIOUS
<1>4. IsFile(file) /\ calls \in [PadCallers -> PadCallType]
  BY <1>1, <1>2, <1>3, FilesAre
<1>5. /\ FileRows(file) \in Nat /\ FileTables(file) \in Nat
      /\ FileRows(file2) \in Nat /\ FileTables(file2) \in Nat
  BY <1>4, FileSums
<1>6. /\ HeldRows(calls, s) \in Nat /\ HeldTables(calls, s) \in Nat
      /\ HeldRows(calls2, s) \in Nat /\ HeldTables(calls2, s) \in Nat
  BY <1>4, HeldSums
<1>7. /\ HeldRows(calls2, s) + RowsHeld(calls[c], s) = HeldRows(calls, s) + RowsHeld(calls2[c], s)
      /\ HeldTables(calls2, s) + TablesHeld(calls[c], s) = HeldTables(calls, s) + TablesHeld(calls2[c], s)
  BY <1>2, <1>4, HeldChange
<1>8. /\ RowsHeld(calls[c], s) \in Nat /\ TablesHeld(calls[c], s) \in Nat
      /\ RowsHeld(calls2[c], s) \in Nat /\ TablesHeld(calls2[c], s) \in Nat
  <2>1. calls[c] \in PadCallType /\ calls2[c] \in PadCallType
    BY <1>4
  <2> QED
    BY <2>1, HeldType
<1>9. /\ FileRows(file) + HeldRows(calls, s) <= padUsed[s].rows
      /\ FileTables(file) + HeldTables(calls, s) <= padUsed[s].tables
  BY <1>2, <1>3 DEF PadInv, PadCovered, Charged
<1>10. padUsed[s].rows \in Nat /\ padUsed[s].tables \in Nat /\ used2.rows \in Nat /\ used2.tables \in Nat
  BY <1>1 DEF PadUsage
<1>11. FileRows(file2) + HeldRows(calls2, s) <= used2.rows
  BY <1>2, <1>3, <1>5, <1>6, <1>7, <1>8, <1>9, <1>10
<1>12. FileTables(file2) + HeldTables(calls2, s) <= used2.tables
  BY <1>2, <1>3, <1>5, <1>6, <1>7, <1>8, <1>9, <1>10
<1> QED
  BY <1>11, <1>12 DEF Charged

(* A critical section that leaves the entries L with the usage u, and its  *)
(* caller with the call `after`.                                           *)
LEMMA LockStep ==
  ASSUME PadInv, NEW c \in PadCallers, NEW after \in PadCallType, CallFits(after), after.pc # "drop",
         padCalls' = [padCalls EXCEPT ![c] = after], padFile' = padFile,
         NEW L \in SUBSET Pads, NEW T, NEW u \in [Pads -> PadUsage], PadEntries(L, T, u),
         \A s \in L \ padAstray' : (s \in padLive \ padAstray /\ ShareFits(c, after, s, u[s])) \/ Blank(c, after, s)
  PROVE  PadInv'
<1>1. /\ padLive \subseteq Pads /\ padFile \in [Pads -> PadFiles] /\ padCalls \in [PadCallers -> PadCallType]
  BY DEF PadInv, PadTypes
<1>2. padLive' = L /\ padUsed' = [s \in Pads |-> IF s \in L THEN u[s] ELSE NoUsage]
  BY DEF PadEntries
<1>3. NoUsage \in PadUsage
  BY DEF NoUsage, PadUsage
<1>4. PadTypes'
  BY <1>1, <1>2, <1>3 DEF PadTypes
<1>5. /\ padCalls'[c] = after /\ \A d \in PadCallers : d # c => padCalls'[d] = padCalls[d]
  BY <1>1
<1>6. PadCallsFit'
  <2> SUFFICES ASSUME NEW d \in PadCallers
               PROVE  CallFits(padCalls'[d]) /\ DropFits(padCalls'[d], padFile[padCalls'[d].sid])
    BY DEF PadCallsFit
  <2>1. CASE d = c
    BY <1>5, <2>1 DEF DropFits
  <2>2. CASE d # c
    BY <1>5, <2>2 DEF PadInv, PadCallsFit
  <2> QED
    BY <2>1, <2>2
<1>7. ASSUME NEW s \in L \ padAstray'
      PROVE  Charged(padFile[s], padCalls', s, u[s])
  <2>1. PICK calls2 : calls2 = padCalls'
    OBVIOUS
  <2>2. PICK file : file = padFile[s]
    OBVIOUS
  <2>3. PICK used2 : used2 = u[s]
    OBVIOUS
  <2>4. calls2 \in [PadCallers -> PadCallType] /\ IsFile(file) /\ used2 \in PadUsage
    BY <1>1, <1>4, <2>1, <2>2, <2>3, FilesAre DEF PadTypes
  <2>5. FileRows(file) \in Nat /\ FileTables(file) \in Nat
    BY <2>4, FileSums
  <2>6. CASE s \in padLive \ padAstray /\ ShareFits(c, after, s, u[s])
    <3>1. \A d \in PadCallers \ {c} : /\ RowsHeld(calls2[d], s) = RowsHeld(padCalls[d], s)
                                      /\ TablesHeld(calls2[d], s) = TablesHeld(padCalls[d], s)
      BY <1>5, <2>1
    <3>2. /\ RowsHeld(calls2[c], s) \in Nat /\ TablesHeld(calls2[c], s) \in Nat
          /\ RowsHeld(padCalls[c], s) \in Nat /\ TablesHeld(padCalls[c], s) \in Nat
      <4>1. calls2[c] \in PadCallType /\ padCalls[c] \in PadCallType
        BY <1>1, <2>4
      <4> QED
        BY <4>1, HeldType
    <3>3. padUsed[s].rows \in Nat /\ padUsed[s].tables \in Nat /\ used2.rows \in Nat /\ used2.tables \in Nat
      BY <1>1, <2>4 DEF PadInv, PadTypes, PadUsage
    <3>4. /\ RowsHeld(calls2[c], s) + padUsed[s].rows <= RowsHeld(padCalls[c], s) + used2.rows
          /\ TablesHeld(calls2[c], s) + padUsed[s].tables <= TablesHeld(padCalls[c], s) + used2.tables
      BY <1>5, <2>1, <2>3, <2>6 DEF ShareFits
    <3>5. FileRows(file) + RowsHeld(calls2[c], s) + padUsed[s].rows
            <= FileRows(padFile[s]) + RowsHeld(padCalls[c], s) + used2.rows
      BY <2>2, <2>5, <3>2, <3>3, <3>4
    <3>6. FileTables(file) + TablesHeld(calls2[c], s) + padUsed[s].tables
            <= FileTables(padFile[s]) + TablesHeld(padCalls[c], s) + used2.tables
      BY <2>2, <2>5, <3>2, <3>3, <3>4
    <3>7. Charged(file, calls2, s, used2)
      BY <2>4, <2>6, <3>1, <3>5, <3>6, StaysCharged
    <3> QED
      BY <2>1, <2>2, <2>3, <3>7
  <2>7. CASE Blank(c, after, s)
    <3>1. \A d \in PadCallers : RowsHeld(calls2[d], s) = 0 /\ TablesHeld(calls2[d], s) = 0
      BY <1>5, <2>1, <2>7 DEF Blank
    <3>2. HeldRows(calls2, s) = 0 /\ HeldTables(calls2, s) = 0
      BY <2>4, <3>1, HeldSums
    <3>3. FileRows(file) = 0 /\ FileTables(file) = 0
      BY <2>2, <2>7 DEF Blank, FileRows, FileTables
    <3>4. used2.rows \in Nat /\ used2.tables \in Nat
      BY <2>4 DEF PadUsage
    <3> QED
      BY <2>1, <2>2, <2>3, <3>2, <3>3, <3>4 DEF Charged
  <2> QED
    BY <1>7, <2>6, <2>7
<1>8. PadCovered'
  <2> SUFFICES ASSUME NEW s \in padLive' \ padAstray'
               PROVE  Charged(padFile'[s], padCalls', s, padUsed'[s])
    BY DEF PadCovered
  <2>1. s \in L \ padAstray' /\ padUsed'[s] = u[s] /\ padFile'[s] = padFile[s]
    BY <1>2
  <2> QED
    BY <1>7, <2>1
<1> QED
  BY <1>4, <1>6, <1>8 DEF PadInv

(* A caller with nothing under way. *)
LEMMA IdleFits ==
  PadIdle \in PadCallType /\ CallFits(PadIdle) /\ Stage(PadIdle) = "idle" /\ PadIdle.pc = "idle" /\ PadIdle.then = "idle"
<1>1. PadIdle \in PadCallType
  BY DEF PadIdle, PadCallType, PadPlaces
<1>2. CallFits(PadIdle) /\ Stage(PadIdle) = "idle" /\ PadIdle.pc = "idle" /\ PadIdle.then = "idle"
  BY DEF PadIdle, CallFits, Stage
<1> QED
  BY <1>1, <1>2

(* What a method goes on with when it has unlocked. *)
LEMMA Unlocks ==
  ASSUME PadInv, NEW c \in PadCallers, NEW call \in PadCallType, call.pc = "idle", call.then = "idle",
         NEW place \in {"idle", "connect", "persist", "count"},
         place # "idle" => call.sid \in Pads, place \in {"persist", "count"} => call.table \in PadTables,
         PadUnlock(c, call, place)
  PROVE  \E after \in PadCallType :
           /\ padCalls' = [padCalls EXCEPT ![c] = after] /\ CallFits(after) /\ after.pc # "drop" /\ Stage(after) = place
           /\ after.sid = call.sid /\ after.rows = call.rows /\ after.create = call.create
<1>1. PadExpired \subseteq Pads
  BY DEF PadInv, PadTypes, PadExpired
<1>2. CASE PadExpired = {}
  <2>1. PICK after : after = [call EXCEPT !.pc = place]
    OBVIOUS
  <2>2. padCalls' = [padCalls EXCEPT ![c] = after]
    BY <1>2, <2>1 DEF PadUnlock, PadBecome
  <2>3. after \in PadCallType
    BY <2>1 DEF PadCallType, PadPlaces
  <2>4. /\ after.pc = place /\ after.then = "idle" /\ after.sid = call.sid /\ after.rows = call.rows
        /\ after.create = call.create /\ after.table = call.table
    BY <2>1 DEF PadCallType
  <2>5. Stage(after) = place
    BY <2>4 DEF Stage
  <2>6. CallFits(after) /\ after.pc # "drop"
    BY <2>4, <2>5 DEF CallFits
  <2> QED
    BY <2>2, <2>3, <2>4, <2>5, <2>6
<1>3. CASE PadExpired # {}
  <2>0. PICK gone : gone = PadExpired
    OBVIOUS
  <2>1. PICK after : after = [call EXCEPT !.pc = "cleanup", !.then = place, !.paths = gone]
    OBVIOUS
  <2>2. padCalls' = [padCalls EXCEPT ![c] = after]
    BY <1>3, <2>0, <2>1 DEF PadUnlock, PadBecome
  <2>3. after \in PadCallType
    BY <1>1, <2>0, <2>1 DEF PadCallType, PadPlaces
  <2>4. /\ after.pc = "cleanup" /\ after.then = place /\ after.sid = call.sid /\ after.rows = call.rows
        /\ after.create = call.create /\ after.table = call.table
    BY <2>1 DEF PadCallType
  <2>5. Stage(after) = place
    BY <2>4 DEF Stage
  <2>6. CallFits(after) /\ after.pc # "drop"
    BY <2>4, <2>5 DEF CallFits
  <2> QED
    BY <2>2, <2>3, <2>4, <2>5, <2>6
<1> QED
  BY <1>2, <1>3

(* A share that is given up, or was none, with the usage as it was. *)
LEMMA NoShare ==
  ASSUME PadInv, NEW c \in PadCallers, NEW after, NEW s \in Pads, NEW u \in PadUsage,
         after.sid # s \/ Stage(after) \notin {"persist", "rollback", "note"},
         padUsed[s].rows <= u.rows, padUsed[s].tables <= u.tables
  PROVE  ShareFits(c, after, s, u)
<1>1. RowsHeld(after, s) = 0 /\ TablesHeld(after, s) = 0
  BY HoldsNothing
<1>2. padCalls[c] \in PadCallType /\ padUsed[s] \in PadUsage
  BY DEF PadInv, PadTypes
<1>3. RowsHeld(padCalls[c], s) \in Nat /\ TablesHeld(padCalls[c], s) \in Nat
  BY <1>2, HeldType
<1>4. padUsed[s].rows \in Nat /\ padUsed[s].tables \in Nat /\ u.rows \in Nat /\ u.tables \in Nat
  BY <1>2 DEF PadUsage
<1> QED
  BY <1>1, <1>3, <1>4 DEF ShareFits

(* A method that only prunes, and may drop an entry. *)
LEMMA QuietLock ==
  ASSUME PadInv, NEW c \in PadCallers, NEW after \in PadCallType, CallFits(after), after.pc # "drop",
         Stage(after) \notin {"persist", "rollback", "note"},
         padCalls' = [padCalls EXCEPT ![c] = after], padFile' = padFile,
         NEW L \in SUBSET PadKept, NEW T, PadEntries(L, T, padUsed), PadEntersNone
  PROVE  PadInv'
<1>1. /\ L \in SUBSET Pads /\ padUsed \in [Pads -> PadUsage] /\ L \subseteq padLive
  BY DEF PadInv, PadTypes, PadKept
<1>2. padAstray' = padAstray \cap L
  BY DEF PadEntersNone, PadEntries
<1>3. ASSUME NEW s \in L \ padAstray'
      PROVE  s \in padLive \ padAstray /\ ShareFits(c, after, s, padUsed[s])
  <2>1. s \in Pads /\ padUsed[s] \in PadUsage /\ s \in padLive \ padAstray
    BY <1>1, <1>2
  <2>2. padUsed[s].rows <= padUsed[s].rows /\ padUsed[s].tables <= padUsed[s].tables
    BY <2>1 DEF PadUsage
  <2> QED
    BY <2>1, <2>2, NoShare
<1>4. PICK u : u = padUsed
  OBVIOUS
<1>5. u \in [Pads -> PadUsage] /\ PadEntries(L, T, u)
  BY <1>1, <1>4
<1>6. \A s \in L \ padAstray' : (s \in padLive \ padAstray /\ ShareFits(c, after, s, u[s])) \/ Blank(c, after, s)
  BY <1>3, <1>4
<1> QED
  BY <1>1, <1>5, <1>6, LockStep

(* There was no place for the session. *)
LEMMA RefusedFine ==
  ASSUME PadInv, NEW c \in PadCallers, NEW s, PadRefused(c, s)
  PROVE  PadInv'
<1>1. /\ PadEntries(PadKept, {}, padUsed) /\ padCalls' = [padCalls EXCEPT ![c] = PadIdle] /\ PadEntersNone /\ padFile' = padFile
  BY DEF PadRefused, PadReturn, PadBecome
<1>2. PICK after : after = PadIdle
  OBVIOUS
<1>3. /\ after \in PadCallType /\ CallFits(after) /\ after.pc # "drop" /\ Stage(after) \notin {"persist", "rollback", "note"}
      /\ padCalls' = [padCalls EXCEPT ![c] = after]
  BY <1>1, <1>2, IdleFits
<1>4. PadKept \in SUBSET PadKept
  OBVIOUS
<1> QED
  BY <1>1, <1>3, <1>4, QuietLock

(* The methods that prune and touch. *)
LEMMA TouchFine ==
  ASSUME PadInv, NEW c \in PadCallers, NEW L \in SUBSET PadKept, NEW T, PadEntries(L, T, padUsed),
         PadUnlock(c, PadIdle, "idle"), PadEntersNone, padFile' = padFile
  PROVE  PadInv'
<1>1. PICK call : call = PadIdle
  OBVIOUS
<1>2. call \in PadCallType /\ call.pc = "idle" /\ call.then = "idle" /\ PadUnlock(c, call, "idle")
  BY <1>1, IdleFits
<1>3. PICK after \in PadCallType :
           /\ padCalls' = [padCalls EXCEPT ![c] = after] /\ CallFits(after) /\ after.pc # "drop" /\ Stage(after) = "idle"
  BY <1>2, Unlocks
<1>4. Stage(after) \notin {"persist", "rollback", "note"}
  BY <1>3
<1> QED
  BY <1>3, <1>4, QuietLock

(* release_session. *)
LEMMA ReleaseFine ==
  ASSUME PadInv, NEW c \in PadCallers, NEW s \in Pads, PadRelease(c, s)
  PROVE  PadInv'
<1>1. PICK gone : gone = PadExpired \cup ({s} \cap PadKept)
  OBVIOUS
<1>2. PICK after : after = [PadIdle EXCEPT !.pc = "cleanup", !.paths = gone]
  OBVIOUS
<1>3. gone \subseteq Pads
  BY <1>1 DEF PadInv, PadTypes, PadExpired
<1>4. after \in PadCallType
  BY <1>2, <1>3 DEF PadIdle, PadCallType, PadPlaces
<1>5. after.pc = "cleanup" /\ after.then = "idle"
  BY <1>2 DEF PadIdle
<1>6. Stage(after) = "idle"
  BY <1>5 DEF Stage
<1>7. CallFits(after) /\ after.pc # "drop" /\ Stage(after) \notin {"persist", "rollback", "note"}
  BY <1>5, <1>6 DEF CallFits
<1>8. /\ PadEntries(PadKept \ {s}, {}, padUsed) /\ padCalls' = [padCalls EXCEPT ![c] = after]
      /\ PadEntersNone /\ padFile' = padFile
  BY <1>1, <1>2 DEF PadRelease, PadBecome
<1>9. PICK L : L = PadKept \ {s}
  OBVIOUS
<1>10. L \in SUBSET PadKept /\ PadEntries(L, {}, padUsed)
  BY <1>8, <1>9
<1> QED
  BY <1>4, <1>7, <1>8, <1>10, QuietLock

(* drop_table looks its session up. *)
LEMMA LookupFine ==
  ASSUME PadInv, NEW c \in PadCallers, NEW s \in Pads, NEW t \in PadTables, DropLookup(c, s, t)
  PROVE  PadInv'
<1>1. PadEntries(PadKept, {s}, padUsed) /\ PadEntersNone /\ padFile' = padFile /\ PadKept \in SUBSET PadKept
  BY DEF DropLookup
<1>2. CASE s \notin PadKept
  <2>1. PadUnlock(c, PadIdle, "idle")
    BY <1>2 DEF DropLookup
  <2> QED
    BY <1>1, <2>1, TouchFine
<1>3. CASE s \in PadKept
  <2>1. PICK call : call = [PadIdle EXCEPT !.sid = s, !.table = t]
    OBVIOUS
  <2>2. PadUnlock(c, call, "count")
    BY <1>3, <2>1 DEF DropLookup
  <2>3. call \in PadCallType
    BY <2>1 DEF PadIdle, PadCallType, PadPlaces
  <2>4. call.pc = "idle" /\ call.then = "idle" /\ call.sid \in Pads /\ call.table \in PadTables
    BY <2>1 DEF PadIdle
  <2>5. PICK after \in PadCallType :
           /\ padCalls' = [padCalls EXCEPT ![c] = after] /\ CallFits(after) /\ after.pc # "drop" /\ Stage(after) = "count"
    BY <2>2, <2>3, <2>4, Unlocks
  <2>6. Stage(after) \notin {"persist", "rollback", "note"}
    BY <2>5
  <2> QED
    BY <1>1, <2>5, <2>6, QuietLock
<1> QED
  BY <1>2, <1>3

(* reserve_ingest_capacity charges what the call then holds. *)
LEMMA ReserveFine ==
  ASSUME PadInv, NEW c \in PadCallers, NEW s \in Pads, NEW t \in PadTables, NEW n \in PadBatches,
         NEW create \in BOOLEAN, Reserve(c, s, t, n, create)
  PROVE  PadInv'
<1>1. n \in Nat /\ s \in PadKept
  BY PadAssumption DEF Reserve
<1>2. PICK call : call = [PadIdle EXCEPT !.sid = s, !.table = t, !.create = create, !.rows = n]
  OBVIOUS
<1>3. call \in PadCallType
  BY <1>1, <1>2 DEF PadIdle, PadCallType, PadPlaces
<1>4. /\ call.pc = "idle" /\ call.then = "idle" /\ call.sid = s /\ call.table = t /\ call.rows = n /\ call.create = create
  BY <1>2 DEF PadIdle
<1>5. PICK u : u = PadPlus(s, IF create THEN 1 ELSE 0, n)
  OBVIOUS
<1>6. /\ PadEntries(PadKept, {s}, u) /\ PadUnlock(c, call, "persist") /\ PadEntersNone /\ padFile' = padFile
  BY <1>2, <1>5 DEF Reserve
<1>7. PICK after \in PadCallType :
           /\ padCalls' = [padCalls EXCEPT ![c] = after] /\ CallFits(after) /\ after.pc # "drop" /\ Stage(after) = "persist"
           /\ after.sid = call.sid /\ after.rows = call.rows /\ after.create = call.create
  <2>1. call.sid \in Pads /\ call.table \in PadTables
    BY <1>4
  <2> QED
    BY <1>3, <1>4, <1>6, <2>1, Unlocks
<1>8. padUsed \in [Pads -> PadUsage] /\ padLive \subseteq Pads /\ PadKept \subseteq padLive
  BY DEF PadInv, PadTypes, PadKept
<1>9. /\ u \in [Pads -> PadUsage] /\ \A r \in Pads \ {s} : u[r] = padUsed[r]
      /\ u[s].tables = padUsed[s].tables + (IF create THEN 1 ELSE 0) /\ u[s].rows = padUsed[s].rows + n
  <2>1. u = [padUsed EXCEPT ![s] = [tables |-> padUsed[s].tables + (IF create THEN 1 ELSE 0), rows |-> padUsed[s].rows + n]]
    BY <1>1, <1>5 DEF PadPlus
  <2>2. padUsed[s].tables \in Nat /\ padUsed[s].rows \in Nat
    BY <1>8 DEF PadUsage
  <2>3. PICK more : more = [tables |-> padUsed[s].tables + (IF create THEN 1 ELSE 0), rows |-> padUsed[s].rows + n]
    OBVIOUS
  <2>4. more \in PadUsage /\ more.tables = padUsed[s].tables + (IF create THEN 1 ELSE 0) /\ more.rows = padUsed[s].rows + n
    BY <1>1, <2>2, <2>3 DEF PadUsage
  <2> QED
    BY <1>8, <2>1, <2>3, <2>4
<1>10. padAstray' = padAstray \cap PadKept
  BY <1>6 DEF PadEntersNone, PadEntries
<1>11. ASSUME NEW r \in PadKept \ padAstray'
       PROVE  r \in padLive \ padAstray /\ ShareFits(c, after, r, u[r])
  <2>1. r \in padLive \ padAstray /\ r \in Pads
    BY <1>8, <1>10
  <2>2. padUsed[r].rows \in Nat /\ padUsed[r].tables \in Nat
    BY <1>8, <2>1 DEF PadUsage
  <2>3. CASE r # s
    <3>1. after.sid # r /\ u[r] = padUsed[r] /\ u[r] \in PadUsage
      BY <1>4, <1>7, <1>9, <2>1, <2>3
    <3>2. padUsed[r].rows <= u[r].rows /\ padUsed[r].tables <= u[r].tables
      BY <2>2, <3>1
    <3> QED
      BY <2>1, <3>1, <3>2, NoShare
  <2>4. CASE r = s
    <3>1. RowsHeld(after, r) = n
      BY <1>4, <1>7, <2>4 DEF RowsHeld
    <3>2. TablesHeld(after, r) = IF create THEN 1 ELSE 0
      BY <1>4, <1>7, <2>4 DEF TablesHeld, HoldsTable
    <3>3. padCalls[c] \in PadCallType
      BY DEF PadInv, PadTypes
    <3>4. RowsHeld(padCalls[c], r) \in Nat /\ TablesHeld(padCalls[c], r) \in Nat
      BY <3>3, HeldType
    <3>5. RowsHeld(after, r) + padUsed[r].rows <= RowsHeld(padCalls[c], r) + u[r].rows
      BY <1>1, <1>9, <2>2, <2>4, <3>1, <3>4
    <3>6. TablesHeld(after, r) + padUsed[r].tables <= TablesHeld(padCalls[c], r) + u[r].tables
      BY <1>9, <2>2, <2>4, <3>2, <3>4
    <3> QED
      BY <2>1, <3>5, <3>6 DEF ShareFits
  <2> QED
    BY <2>3, <2>4
<1>12. PadKept \in SUBSET Pads
  BY <1>8
<1> QED
  BY <1>6, <1>7, <1>9, <1>11, <1>12, LockStep

(* rollback_ingest_capacity gives back what the call held. *)
LEMMA RollbackFine ==
  ASSUME PadInv, NEW c \in PadCallers, Rollback(c)
  PROVE  PadInv'
<1>1. PICK call : call = padCalls[c]
  OBVIOUS
<1>2. call \in PadCallType /\ CallFits(call) /\ call.pc = "rollback"
  BY <1>1 DEF PadInv, PadTypes, PadCallsFit, Rollback, PadAt
<1>3. Stage(call) = "rollback" /\ call.sid \in Pads
  BY <1>2 DEF Stage, CallFits
<1>4. call.rows \in Nat /\ call.create \in BOOLEAN
  BY <1>2 DEF PadCallType
<1>5. PICK s : s = call.sid
  OBVIOUS
<1>6. PICK u : u = [padUsed EXCEPT ![s] = [tables |-> IF call.create THEN SatSub(padUsed[s].tables, 1) ELSE padUsed[s].tables,
                                           rows   |-> SatSub(padUsed[s].rows, call.rows)]]
  OBVIOUS
<1>7. padUsed \in [Pads -> PadUsage] /\ padLive \subseteq Pads /\ PadKept \subseteq padLive
  BY DEF PadInv, PadTypes, PadKept
<1>8. padUsed[s].tables \in Nat /\ padUsed[s].rows \in Nat
  BY <1>3, <1>5, <1>7 DEF PadUsage
<1>9. PadEntries(PadKept, {s}, u) /\ PadUnlock(c, PadIdle, "idle") /\ PadEntersNone /\ padFile' = padFile
  BY <1>1, <1>3, <1>5, <1>6, <1>7 DEF Rollback
<1>10. PICK after \in PadCallType :
           /\ padCalls' = [padCalls EXCEPT ![c] = after] /\ CallFits(after) /\ after.pc # "drop" /\ Stage(after) = "idle"
  <2>1. PICK idle : idle = PadIdle
    OBVIOUS
  <2>2. idle \in PadCallType /\ idle.pc = "idle" /\ idle.then = "idle" /\ PadUnlock(c, idle, "idle")
    BY <1>9, <2>1, IdleFits
  <2> QED
    BY <2>2, Unlocks
<1>11. /\ u \in [Pads -> PadUsage] /\ \A r \in Pads \ {s} : u[r] = padUsed[r]
       /\ u[s].tables = (IF call.create THEN SatSub(padUsed[s].tables, 1) ELSE padUsed[s].tables)
       /\ u[s].rows = SatSub(padUsed[s].rows, call.rows)
  <2>1. PICK less : less = [tables |-> IF call.create THEN SatSub(padUsed[s].tables, 1) ELSE padUsed[s].tables,
                            rows   |-> SatSub(padUsed[s].rows, call.rows)]
    OBVIOUS
  <2>2. /\ SatSub(padUsed[s].tables, 1) \in Nat /\ SatSub(padUsed[s].rows, call.rows) \in Nat
    BY <1>4, <1>8 DEF SatSub
  <2>3. /\ less \in PadUsage /\ less.tables = (IF call.create THEN SatSub(padUsed[s].tables, 1) ELSE padUsed[s].tables)
        /\ less.rows = SatSub(padUsed[s].rows, call.rows)
    BY <1>8, <2>1, <2>2 DEF PadUsage
  <2> QED
    BY <1>3, <1>5, <1>6, <1>7, <2>1, <2>3
<1>12. padAstray' = padAstray \cap PadKept
  BY <1>9 DEF PadEntersNone, PadEntries
<1>13. ASSUME NEW r \in PadKept \ padAstray'
       PROVE  r \in padLive \ padAstray /\ ShareFits(c, after, r, u[r])
  <2>1. r \in padLive \ padAstray /\ r \in Pads
    BY <1>7, <1>12
  <2>2. padUsed[r].rows \in Nat /\ padUsed[r].tables \in Nat
    BY <1>7, <2>1 DEF PadUsage
  <2>3. CASE r # s
    <3>1. u[r] = padUsed[r] /\ u[r] \in PadUsage /\ Stage(after) \notin {"persist", "rollback", "note"}
      BY <1>10, <1>11, <2>1, <2>3
    <3>2. padUsed[r].rows <= u[r].rows /\ padUsed[r].tables <= u[r].tables
      BY <2>2, <3>1
    <3> QED
      BY <2>1, <3>1, <3>2, NoShare
  <2>4. CASE r = s
    <3>1. RowsHeld(after, r) = 0 /\ TablesHeld(after, r) = 0
      BY <1>10, HoldsNothing
    <3>2. RowsHeld(padCalls[c], r) = call.rows
      BY <1>1, <1>3, <1>5, <2>4 DEF RowsHeld
    <3>3. TablesHeld(padCalls[c], r) = IF call.create THEN 1 ELSE 0
      BY <1>1, <1>3, <1>5, <2>4 DEF TablesHeld, HoldsTable
    <3>4. 0 + padUsed[r].rows <= call.rows + u[r].rows
      BY <1>4, <1>11, <2>2, <2>4 DEF SatSub
    <3>5. 0 + padUsed[r].tables <= (IF call.create THEN 1 ELSE 0) + u[r].tables
      BY <1>4, <1>11, <2>2, <2>4 DEF SatSub
    <3> QED
      BY <2>1, <3>1, <3>2, <3>3, <3>4, <3>5 DEF ShareFits
  <2> QED
    BY <2>3, <2>4
<1>14. PadKept \in SUBSET Pads
  BY <1>7
<1> QED
  BY <1>9, <1>10, <1>11, <1>13, <1>14, LockStep

(* A method that enters its session, unless it is there. *)
LEMMA EnterLock ==
  ASSUME PadInv, NEW c \in PadCallers, NEW s \in Pads, NEW after \in PadCallType, CallFits(after), after.pc # "drop",
         Stage(after) \notin {"persist", "rollback", "note"},
         padCalls' = [padCalls EXCEPT ![c] = after], padFile' = padFile,
         NEW T, NEW u \in [Pads -> PadUsage], PadEntries(PadKept \cup {s}, T, u), PadEnters(c, s),
         \A r \in Pads \ {s} : u[r] = padUsed[r],
         s \in PadKept => ShareFits(c, after, s, u[s])
  PROVE  PadInv'
<1>1. padUsed \in [Pads -> PadUsage] /\ padLive \subseteq Pads /\ PadKept \subseteq padLive
  BY DEF PadInv, PadTypes, PadKept
<1>2. PICK L : L = PadKept \cup {s}
  OBVIOUS
<1>3. L \in SUBSET Pads /\ PadEntries(L, T, u)
  BY <1>1, <1>2
<1>4. padAstray' = (padAstray \cap PadKept) \cup
        {r \in {s} \ PadKept : padFile[r] # NoFile \/ \E d \in PadCallers \ {c} : PadStraddles(d, r)}
  BY DEF PadEnters
<1>5. ASSUME NEW r \in L \ padAstray'
      PROVE  (r \in padLive \ padAstray /\ ShareFits(c, after, r, u[r])) \/ Blank(c, after, r)
  <2>1. r \in Pads
    BY <1>3
  <2>2. CASE r \in PadKept /\ r = s
    BY <1>1, <1>4, <1>5, <2>2
  <2>3. CASE r \in PadKept /\ r # s
    <3>1. r \in padLive \ padAstray /\ u[r] = padUsed[r] /\ padUsed[r] \in PadUsage
      BY <1>1, <1>4, <1>5, <2>1, <2>3
    <3>2. padUsed[r].rows <= u[r].rows /\ padUsed[r].tables <= u[r].tables /\ u[r] \in PadUsage
      BY <3>1 DEF PadUsage
    <3>3. ShareFits(c, after, r, u[r])
      BY <2>1, <3>2, NoShare
    <3> QED
      BY <3>1, <3>3
  <2>4. CASE r \notin PadKept
    <3>1. r = s /\ padFile[r] = NoFile /\ \A d \in PadCallers \ {c} : ~PadStraddles(d, r)
      BY <1>2, <1>4, <1>5, <2>4
    <3>2. ASSUME NEW d \in PadCallers \ {c}
          PROVE  RowsHeld(padCalls[d], r) = 0 /\ TablesHeld(padCalls[d], r) = 0
      <4>1. PICK call : call = padCalls[d]
        OBVIOUS
      <4>2. call.sid # r \/ {call.pc, call.then} \cap {"persist", "rollback", "drop", "note"} = {}
        BY <3>1, <4>1 DEF PadStraddles
      <4>3. call.sid # r \/ Stage(call) \notin {"persist", "rollback", "note"}
        BY <4>2 DEF Stage
      <4> QED
        BY <4>1, <4>3, HoldsNothing
    <3>3. RowsHeld(after, r) = 0 /\ TablesHeld(after, r) = 0
      BY HoldsNothing
    <3> QED
      BY <3>1, <3>2, <3>3 DEF Blank
  <2> QED
    BY <2>2, <2>3, <2>4
<1> QED
  BY <1>3, <1>5, LockStep

(* open_connection and open_session. *)
LEMMA OpenFine ==
  ASSUME PadInv, NEW c \in PadCallers, NEW s \in Pads, NEW info \in BOOLEAN, PadOpen(c, s, info)
  PROVE  PadInv'
<1>1. CASE PadRefused(c, s)
  BY <1>1, RefusedFine
<1>2. CASE ~PadRefused(c, s)
  <2>1. padUsed \in [Pads -> PadUsage] /\ padUsed[s] \in PadUsage
    BY DEF PadInv, PadTypes
  <2>2. PICK u : u = [padUsed EXCEPT ![s] = IF s \in PadKept THEN padUsed[s] ELSE NoUsage]
    OBVIOUS
  <2>3. PICK call : call = [PadIdle EXCEPT !.sid = s, !.conn = IF info THEN "info" ELSE "none"]
    OBVIOUS
  <2>4. /\ PadEntries(PadKept \cup {s}, {s}, u) /\ PadEnters(c, s) /\ PadUnlock(c, call, "connect") /\ padFile' = padFile
    BY <1>2, <2>1, <2>2, <2>3 DEF PadOpen
  <2>5. call \in PadCallType
    BY <2>3 DEF PadIdle, PadCallType, PadPlaces
  <2>6. call.pc = "idle" /\ call.then = "idle" /\ call.sid \in Pads
    BY <2>3 DEF PadIdle
  <2>7. PICK after \in PadCallType :
           /\ padCalls' = [padCalls EXCEPT ![c] = after] /\ CallFits(after) /\ after.pc # "drop" /\ Stage(after) = "connect"
    BY <2>4, <2>5, <2>6, Unlocks
  <2>8. Stage(after) \notin {"persist", "rollback", "note"}
    BY <2>7
  <2>9. NoUsage \in PadUsage
    BY DEF NoUsage, PadUsage
  <2>10. u \in [Pads -> PadUsage] /\ (\A r \in Pads \ {s} : u[r] = padUsed[r]) /\ (s \in PadKept => u[s] = padUsed[s])
    BY <2>1, <2>2, <2>9
  <2>11. s \in PadKept => ShareFits(c, after, s, u[s])
    <3>1. padUsed[s].rows <= padUsed[s].rows /\ padUsed[s].tables <= padUsed[s].tables
      BY <2>1 DEF PadUsage
    <3>2. ShareFits(c, after, s, padUsed[s])
      BY <2>1, <2>8, <3>1, NoShare
    <3> QED
      BY <2>10, <3>2
  <2> QED
    BY <2>4, <2>7, <2>8, <2>10, <2>11, EnterLock
<1> QED
  BY <1>1, <1>2

(* note_table_created and note_rows_ingested. *)
LEMMA NoteFine ==
  ASSUME PadInv, NEW c \in PadCallers, NEW s \in Pads, NEW tables \in Nat, NEW rows \in Nat, PadNote(c, s, tables, rows)
  PROVE  PadInv'
<1>1. CASE PadRefused(c, s)
  BY <1>1, RefusedFine
<1>2. CASE ~PadRefused(c, s)
  <2>1. padUsed \in [Pads -> PadUsage] /\ padUsed[s].rows \in Nat /\ padUsed[s].tables \in Nat
    BY DEF PadInv, PadTypes, PadUsage
  <2>2. PICK more, fresh, T :
          more \in Nat /\ fresh \in Nat /\ PadEntries(PadKept \cup {s}, T, PadPlus(s, more, fresh))
    <3>1. CASE PadFits(s, tables, rows)
      BY <1>2, <3>1 DEF PadNote
    <3>2. CASE ~PadFits(s, tables, rows)
      BY <1>2, <3>2 DEF PadNote
    <3> QED
      BY <3>1, <3>2
  <2>3. PICK u : u = PadPlus(s, more, fresh)
    OBVIOUS
  <2>4. /\ PadEntries(PadKept \cup {s}, T, u) /\ PadEnters(c, s) /\ PadUnlock(c, PadIdle, "idle") /\ padFile' = padFile
    BY <1>2, <2>2, <2>3 DEF PadNote
  <2>5. PICK idle : idle = PadIdle
    OBVIOUS
  <2>6. idle \in PadCallType /\ idle.pc = "idle" /\ idle.then = "idle" /\ PadUnlock(c, idle, "idle")
    BY <2>4, <2>5, IdleFits
  <2>7. PICK after \in PadCallType :
           /\ padCalls' = [padCalls EXCEPT ![c] = after] /\ CallFits(after) /\ after.pc # "drop" /\ Stage(after) = "idle"
    BY <2>6, Unlocks
  <2>8. Stage(after) \notin {"persist", "rollback", "note"}
    BY <2>7
  <2>9. PICK used : used = IF s \in PadKept THEN padUsed[s] ELSE NoUsage
    OBVIOUS
  <2>10. used.tables \in Nat /\ used.rows \in Nat
    BY <2>1, <2>9 DEF NoUsage
  <2>11. PICK plus : plus = [tables |-> used.tables + more, rows |-> used.rows + fresh]
    OBVIOUS
  <2>12. plus \in PadUsage /\ plus.tables = used.tables + more /\ plus.rows = used.rows + fresh
    BY <2>2, <2>10, <2>11 DEF PadUsage
  <2>13. u = [padUsed EXCEPT ![s] = plus]
    BY <2>3, <2>9, <2>11 DEF PadPlus
  <2>14. u \in [Pads -> PadUsage] /\ (\A r \in Pads \ {s} : u[r] = padUsed[r]) /\ u[s] = plus
    BY <2>1, <2>12, <2>13
  <2>15. s \in PadKept => ShareFits(c, after, s, u[s])
    <3> SUFFICES ASSUME s \in PadKept
                 PROVE  ShareFits(c, after, s, plus)
      BY <2>14
    <3>1. used = padUsed[s]
      BY <2>9
    <3>2. padUsed[s].rows <= plus.rows /\ padUsed[s].tables <= plus.tables
      BY <2>1, <2>2, <2>12, <3>1
    <3> QED
      BY <2>8, <2>12, <3>2, NoShare
  <2> QED
    BY <2>4, <2>7, <2>8, <2>14, <2>15, EnterLock
<1> QED
  BY <1>1, <1>2

(* note_table_dropped gives back what the call took out. *)
LEMMA NoteDroppedFine ==
  ASSUME PadInv, NEW c \in PadCallers, NoteDropped(c)
  PROVE  PadInv'
<1>1. PICK call : call = padCalls[c]
  OBVIOUS
<1>2. call \in PadCallType /\ CallFits(call) /\ call.pc = "note"
  BY <1>1 DEF PadInv, PadTypes, PadCallsFit, NoteDropped, PadAt
<1>3. Stage(call) = "note" /\ call.sid \in Pads
  BY <1>2 DEF Stage, CallFits
<1>4. call.rows \in Nat
  BY <1>2 DEF PadCallType
<1>5. PICK s : s = call.sid
  OBVIOUS
<1>6. CASE PadRefused(c, s)
  BY <1>6, RefusedFine
<1>7. CASE ~PadRefused(c, s)
  <2>1. s \in Pads /\ padUsed \in [Pads -> PadUsage] /\ padUsed[s].rows \in Nat /\ padUsed[s].tables \in Nat
    BY <1>3, <1>5 DEF PadInv, PadTypes, PadUsage
  <2>2. PICK used : used = IF s \in PadKept THEN padUsed[s] ELSE NoUsage
    OBVIOUS
  <2>3. used.tables \in Nat /\ used.rows \in Nat
    BY <2>1, <2>2 DEF NoUsage
  <2>4. PICK less : less = [tables |-> SatSub(used.tables, 1), rows |-> SatSub(used.rows, call.rows)]
    OBVIOUS
  <2>5. SatSub(used.tables, 1) \in Nat /\ SatSub(used.rows, call.rows) \in Nat
    BY <1>4, <2>3 DEF SatSub
  <2>6. less \in PadUsage /\ less.tables = SatSub(used.tables, 1) /\ less.rows = SatSub(used.rows, call.rows)
    BY <2>4, <2>5 DEF PadUsage
  <2>7. PICK u : u = [padUsed EXCEPT ![s] = less]
    OBVIOUS
  <2>8. /\ PadEntries(PadKept \cup {s}, {s}, u) /\ PadEnters(c, s) /\ PadUnlock(c, PadIdle, "idle") /\ padFile' = padFile
    BY <1>1, <1>5, <1>7, <2>2, <2>4, <2>7 DEF NoteDropped
  <2>9. PICK idle : idle = PadIdle
    OBVIOUS
  <2>10. idle \in PadCallType /\ idle.pc = "idle" /\ idle.then = "idle" /\ PadUnlock(c, idle, "idle")
    BY <2>8, <2>9, IdleFits
  <2>11. PICK after \in PadCallType :
           /\ padCalls' = [padCalls EXCEPT ![c] = after] /\ CallFits(after) /\ after.pc # "drop" /\ Stage(after) = "idle"
    BY <2>10, Unlocks
  <2>12. Stage(after) \notin {"persist", "rollback", "note"}
    BY <2>11
  <2>13. u \in [Pads -> PadUsage] /\ (\A r \in Pads \ {s} : u[r] = padUsed[r]) /\ u[s] = less
    BY <2>1, <2>6, <2>7
  <2>14. s \in PadKept => ShareFits(c, after, s, u[s])
    <3> SUFFICES ASSUME s \in PadKept
                 PROVE  ShareFits(c, after, s, less)
      BY <2>13
    <3>1. used = padUsed[s]
      BY <2>2
    <3>2. RowsHeld(after, s) = 0 /\ TablesHeld(after, s) = 0
      BY <2>12, HoldsNothing
    <3>3. RowsHeld(padCalls[c], s) = call.rows /\ TablesHeld(padCalls[c], s) = 1
      BY <1>1, <1>3, <1>5 DEF RowsHeld, TablesHeld, HoldsTable
    <3>4. 0 + padUsed[s].rows <= call.rows + less.rows
      BY <1>4, <2>1, <2>6, <3>1 DEF SatSub
    <3>5. 0 + padUsed[s].tables <= 1 + less.tables
      BY <2>1, <2>6, <3>1 DEF SatSub
    <3> QED
      BY <3>2, <3>3, <3>4, <3>5 DEF ShareFits
  <2> QED
    BY <2>1, <2>8, <2>11, <2>12, <2>13, <2>14, EnterLock
<1> QED
  BY <1>6, <1>7

(* Steps outside the mutex leave the entries alone; the session's file may *)
(* be opened.                                                              *)
LEMMA OutsideStep ==
  ASSUME PadInv, NEW c \in PadCallers, NEW s \in Pads, NEW after \in PadCallType, CallFits(after),
         after.pc = "drop" => after.sid = s,
         padCalls' = [padCalls EXCEPT ![c] = after], padFile' \in {padFile, PadOpened(s)},
         DropFits(after, padFile'[s]), UNCHANGED <<padLive, padUsed, padAstray>>,
         \A r \in Pads : /\ RowsHeld(after, r) <= RowsHeld(padCalls[c], r)
                         /\ TablesHeld(after, r) <= TablesHeld(padCalls[c], r)
  PROVE  PadInv'
<1>1. /\ padLive \subseteq Pads /\ padFile \in [Pads -> PadFiles] /\ padCalls \in [PadCallers -> PadCallType]
      /\ padUsed \in [Pads -> PadUsage]
  BY DEF PadInv, PadTypes
<1>2. PICK opened : opened = Opened(padFile[s])
  OBVIOUS
<1>3. /\ padFile[s] \in PadFiles /\ opened \in PadFiles /\ opened # NoFile
      /\ FileRows(opened) = FileRows(padFile[s]) /\ FileTables(opened) = FileTables(padFile[s])
  <2>1. PICK file : file = padFile[s]
    OBVIOUS
  <2>2. IsFile(file)
    BY <1>1, <2>1, FilesAre
  <2>3. /\ IsFile(Opened(file)) /\ Opened(file) # NoFile
        /\ FileRows(Opened(file)) = FileRows(file) /\ FileTables(Opened(file)) = FileTables(file)
    BY <2>2, OpenedFile
  <2> QED
    BY <1>1, <1>2, <2>1, <2>3, FilesAre
<1>4. PadOpened(s) = [padFile EXCEPT ![s] = opened]
  <2>1. CASE padFile[s] = NoFile
    BY <1>2, <2>1 DEF PadOpened, Opened
  <2>2. CASE padFile[s] # NoFile
    BY <1>1, <1>2, <2>2 DEF PadOpened, Opened
  <2> QED
    BY <2>1, <2>2
<1>5. /\ padFile' \in [Pads -> PadFiles]
      /\ \A r \in Pads \ {s} : padFile'[r] = padFile[r]
      /\ padFile'[s] = padFile[s] \/ padFile'[s] = opened
      /\ padFile[s] # NoFile => padFile'[s] = padFile[s]
  BY <1>1, <1>2, <1>3, <1>4 DEF Opened
<1>6. PadTypes'
  BY <1>1, <1>5 DEF PadTypes
<1>7. /\ padCalls'[c] = after /\ \A d \in PadCallers : d # c => padCalls'[d] = padCalls[d]
  BY <1>1
<1>8. PadCallsFit'
  <2> SUFFICES ASSUME NEW d \in PadCallers
               PROVE  CallFits(padCalls'[d]) /\ DropFits(padCalls'[d], padFile'[padCalls'[d].sid])
    BY DEF PadCallsFit
  <2>1. CASE d = c
    <3>1. CASE after.pc = "drop"
      BY <1>7, <2>1, <3>1
    <3>2. CASE after.pc # "drop"
      BY <1>7, <2>1, <3>2 DEF DropFits
    <3> QED
      BY <3>1, <3>2
  <2>2. CASE d # c
    <3>1. PICK call : call = padCalls[d]
      OBVIOUS
    <3>2. CallFits(call) /\ DropFits(call, padFile[call.sid]) /\ padCalls'[d] = call
      BY <1>7, <2>2, <3>1 DEF PadInv, PadCallsFit
    <3>3. DropFits(call, padFile'[call.sid])
      <4> SUFFICES ASSUME call.pc = "drop", call.conn # "orphan"
                   PROVE  DropFits(call, padFile'[call.sid])
        BY DEF DropFits
      <4>1. padFile[call.sid] # NoFile
        BY <3>2 DEF DropFits
      <4>2. call.sid \in Pads
        BY <3>2 DEF CallFits, Stage
      <4>3. padFile'[call.sid] = padFile[call.sid]
        BY <1>5, <4>1, <4>2
      <4> QED
        BY <3>2, <4>3
    <3> QED
      BY <3>2, <3>3
  <2> QED
    BY <2>1, <2>2
<1>9. PadCovered'
  <2> SUFFICES ASSUME NEW r \in padLive \ padAstray
               PROVE  Charged(padFile'[r], padCalls', r, padUsed[r])
    BY DEF PadCovered
  <2>1. PICK calls2 : calls2 = padCalls'
    OBVIOUS
  <2>2. PICK file2 : file2 = padFile'[r]
    OBVIOUS
  <2>3. PICK used2 : used2 = padUsed[r]
    OBVIOUS
  <2>4. /\ r \in Pads /\ calls2 \in [PadCallers -> PadCallType] /\ IsFile(file2) /\ used2 \in PadUsage
    BY <1>1, <1>5, <1>6, <2>1, <2>2, <2>3, FilesAre DEF PadTypes
  <2>5. \A d \in PadCallers \ {c} : /\ RowsHeld(calls2[d], r) = RowsHeld(padCalls[d], r)
                                    /\ TablesHeld(calls2[d], r) = TablesHeld(padCalls[d], r)
    BY <1>7, <2>1
  <2>6. FileRows(file2) = FileRows(padFile[r]) /\ FileTables(file2) = FileTables(padFile[r])
    BY <1>3, <1>5, <2>2, <2>4
  <2>7. FileRows(file2) \in Nat /\ FileTables(file2) \in Nat
    BY <2>4, FileSums
  <2>8. /\ RowsHeld(calls2[c], r) \in Nat /\ TablesHeld(calls2[c], r) \in Nat
        /\ RowsHeld(padCalls[c], r) \in Nat /\ TablesHeld(padCalls[c], r) \in Nat
    <3>1. calls2[c] \in PadCallType /\ padCalls[c] \in PadCallType
      BY <1>1, <2>4
    <3> QED
      BY <3>1, HeldType
  <2>9. RowsHeld(calls2[c], r) <= RowsHeld(padCalls[c], r) /\ TablesHeld(calls2[c], r) <= TablesHeld(padCalls[c], r)
    BY <1>7, <2>1, <2>4
  <2>10. padUsed[r].rows \in Nat /\ padUsed[r].tables \in Nat
    BY <1>1, <2>4 DEF PadUsage
  <2>11. FileRows(file2) + RowsHeld(calls2[c], r) + padUsed[r].rows
           <= FileRows(padFile[r]) + RowsHeld(padCalls[c], r) + used2.rows
    BY <2>3, <2>6, <2>7, <2>8, <2>9, <2>10
  <2>12. FileTables(file2) + TablesHeld(calls2[c], r) + padUsed[r].tables
           <= FileTables(padFile[r]) + TablesHeld(padCalls[c], r) + used2.tables
    BY <2>3, <2>6, <2>7, <2>8, <2>9, <2>10
  <2>13. Charged(file2, calls2, r, used2)
    BY <2>4, <2>5, <2>11, <2>12, StaysCharged
  <2> QED
    BY <2>1, <2>2, <2>3, <2>13
<1> QED
  BY <1>6, <1>8, <1>9 DEF PadInv

(* A call that holds what it held. *)
LEMMA SameShare ==
  ASSUME NEW call \in PadCallType, NEW after \in PadCallType,
         Stage(after) \notin {"persist", "rollback", "note"} \/
           (/\ after.sid = call.sid /\ after.rows = call.rows /\ after.create = call.create
            /\ Stage(call) \in {"persist", "rollback"} /\ Stage(after) \in {"persist", "rollback"})
  PROVE  \A r \in Pads : /\ RowsHeld(after, r) <= RowsHeld(call, r)
                         /\ TablesHeld(after, r) <= TablesHeld(call, r)
<1> TAKE r \in Pads
<1>1. RowsHeld(call, r) \in Nat /\ TablesHeld(call, r) \in Nat
  BY HeldType
<1>2. CASE Stage(after) \notin {"persist", "rollback", "note"}
  <2>1. RowsHeld(after, r) = 0 /\ TablesHeld(after, r) = 0
    BY <1>2, HoldsNothing
  <2> QED
    BY <1>1, <2>1
<1>3. CASE Stage(after) \in {"persist", "rollback", "note"}
  <2>1. RowsHeld(after, r) = RowsHeld(call, r)
    BY <1>3 DEF RowsHeld
  <2>2. TablesHeld(after, r) = TablesHeld(call, r)
    BY <1>3 DEF TablesHeld, HoldsTable
  <2> QED
    BY <1>1, <2>1, <2>2
<1> QED
  BY <1>2, <1>3

(* The call that ends with session_info. *)
LEMMA InfoFits ==
  ASSUME NEW s \in Pads
  PROVE  /\ PadInfoOf(s) \in PadCallType /\ CallFits(PadInfoOf(s)) /\ Stage(PadInfoOf(s)) = "info"
         /\ PadInfoOf(s).pc = "info"
<1>1. PICK after : after = PadInfoOf(s)
  OBVIOUS
<1>2. after \in PadCallType
  BY <1>1 DEF PadInfoOf, PadIdle, PadCallType, PadPlaces
<1>3. after.pc = "info" /\ after.then = "idle" /\ after.sid = s
  BY <1>1 DEF PadInfoOf, PadIdle
<1>4. Stage(after) = "info"
  BY <1>3 DEF Stage
<1>5. CallFits(after)
  BY <1>3, <1>4 DEF CallFits
<1> QED
  BY <1>1, <1>2, <1>3, <1>4, <1>5

(* A step outside the mutex after which the call holds nothing and drops   *)
(* nothing.                                                                *)
LEMMA QuietStep ==
  ASSUME PadInv, NEW c \in PadCallers, NEW s \in Pads, NEW after \in PadCallType, CallFits(after),
         Stage(after) \notin {"drop", "persist", "rollback", "note"},
         padCalls' = [padCalls EXCEPT ![c] = after], padFile' \in {padFile, PadOpened(s)},
         UNCHANGED <<padLive, padUsed, padAstray>>
  PROVE  PadInv'
<1>1. after.pc # "drop"
  BY DEF Stage
<1>2. PICK file : file = padFile'[s]
  OBVIOUS
<1>3. DropFits(after, file)
  BY <1>1 DEF DropFits
<1>4. PICK call : call = padCalls[c]
  OBVIOUS
<1>5. call \in PadCallType
  BY <1>4 DEF PadInv, PadTypes
<1>6. \A r \in Pads : /\ RowsHeld(after, r) <= RowsHeld(call, r)
                      /\ TablesHeld(after, r) <= TablesHeld(call, r)
  BY <1>5, SameShare
<1> QED
  BY <1>1, <1>2, <1>3, <1>4, <1>6, OutsideStep

(* The file is opened for open_connection or open_session. *)
LEMMA ConnectFine ==
  ASSUME PadInv, NEW c \in PadCallers, PadConnect(c)
  PROVE  PadInv'
<1>1. PICK call : call = padCalls[c]
  OBVIOUS
<1>2. call \in PadCallType /\ CallFits(call) /\ call.pc = "connect"
  BY <1>1 DEF PadInv, PadTypes, PadCallsFit, PadConnect, PadAt
<1>3. PICK s \in Pads : s = call.sid
  BY <1>2 DEF Stage, CallFits
<1>4. padFile' \in {padFile, PadOpened(s)} /\ UNCHANGED <<padLive, padUsed, padAstray>>
  BY <1>1, <1>3 DEF PadConnect
<1>5. PICK after : (after = PadIdle \/ after = PadInfoOf(s)) /\ padCalls' = [padCalls EXCEPT ![c] = after]
  BY <1>1, <1>3 DEF PadConnect, PadReturn, PadBecome
<1>6. after \in PadCallType /\ CallFits(after) /\ Stage(after) \notin {"drop", "persist", "rollback", "note"}
  BY <1>5, IdleFits, InfoFits
<1> QED
  BY <1>4, <1>5, <1>6, QuietStep

(* persist_ingest_table fails. *)
LEMMA PersistFailsFine ==
  ASSUME PadInv, NEW c \in PadCallers, PersistFails(c)
  PROVE  PadInv'
<1>1. PICK call : call = padCalls[c]
  OBVIOUS
<1>2. call \in PadCallType /\ CallFits(call) /\ call.pc = "persist"
  BY <1>1 DEF PadInv, PadTypes, PadCallsFit, PersistFails, PadAt
<1>3. Stage(call) = "persist" /\ call.then = "idle" /\ call.table \in PadTables
  BY <1>2 DEF Stage, CallFits
<1>4. PICK s \in Pads : s = call.sid
  BY <1>2 DEF Stage, CallFits
<1>5. PICK after : after = [call EXCEPT !.pc = "rollback"]
  OBVIOUS
<1>6. after \in PadCallType
  BY <1>2, <1>5 DEF PadCallType, PadPlaces
<1>7. /\ after.pc = "rollback" /\ after.then = "idle" /\ after.sid = s /\ after.rows = call.rows
      /\ after.create = call.create /\ after.table = call.table
  BY <1>2, <1>3, <1>4, <1>5 DEF PadCallType
<1>8. Stage(after) = "rollback"
  BY <1>7 DEF Stage
<1>9. CallFits(after)
  BY <1>3, <1>7, <1>8 DEF CallFits
<1>10. \A r \in Pads : /\ RowsHeld(after, r) <= RowsHeld(call, r)
                       /\ TablesHeld(after, r) <= TablesHeld(call, r)
  BY <1>2, <1>3, <1>4, <1>6, <1>7, <1>8, SameShare
<1>11. /\ padCalls' = [padCalls EXCEPT ![c] = after] /\ padFile' \in {padFile, PadOpened(s)}
       /\ UNCHANGED <<padLive, padUsed, padAstray>>
  BY <1>1, <1>4, <1>5 DEF PersistFails, PadBecome
<1>12. PICK file : file = padFile'[s]
  OBVIOUS
<1>13. DropFits(after, file) /\ after.pc # "drop"
  BY <1>7 DEF DropFits
<1> QED
  BY <1>1, <1>6, <1>9, <1>10, <1>11, <1>12, <1>13, OutsideStep

(* drop_table counts the rows of its table. *)
LEMMA DropCountFine ==
  ASSUME PadInv, NEW c \in PadCallers, DropCount(c)
  PROVE  PadInv'
<1>1. PICK call : call = padCalls[c]
  OBVIOUS
<1>2. call \in PadCallType /\ CallFits(call) /\ call.pc = "count"
  BY <1>1 DEF PadInv, PadTypes, PadCallsFit, DropCount, PadAt
<1>3. call.then = "idle" /\ call.table \in PadTables
  BY <1>2 DEF Stage, CallFits
<1>4. PICK s \in Pads : s = call.sid
  BY <1>2 DEF Stage, CallFits
<1>5. padFile' \in {padFile, PadOpened(s)} /\ padFile' = PadOpened(s) /\ UNCHANGED <<padLive, padUsed, padAstray>>
  BY <1>1, <1>4 DEF DropCount
<1>6. PICK file : file = PadOpened(s)[s]
  OBVIOUS
<1>7. /\ \/ /\ call.table \in DOMAIN file
            /\ padCalls' = [padCalls EXCEPT ![c] = [call EXCEPT !.pc = "drop", !.rows = file[call.table], !.conn = "live"]]
         \/ padCalls' = [padCalls EXCEPT ![c] = PadInfoOf(s)]
         \/ padCalls' = [padCalls EXCEPT ![c] = PadIdle]
  BY <1>1, <1>4, <1>6 DEF DropCount, PadReturn, PadBecome
<1>8. CASE padCalls' = [padCalls EXCEPT ![c] = PadInfoOf(s)] \/ padCalls' = [padCalls EXCEPT ![c] = PadIdle]
  <2>1. PICK after : (after = PadIdle \/ after = PadInfoOf(s)) /\ padCalls' = [padCalls EXCEPT ![c] = after]
    BY <1>8
  <2>2. after \in PadCallType /\ CallFits(after) /\ Stage(after) \notin {"drop", "persist", "rollback", "note"}
    BY <2>1, IdleFits, InfoFits
  <2> QED
    BY <1>5, <2>1, <2>2, QuietStep
<1>9. CASE /\ call.table \in DOMAIN file
           /\ padCalls' = [padCalls EXCEPT ![c] = [call EXCEPT !.pc = "drop", !.rows = file[call.table], !.conn = "live"]]
  <2>1. IsFile(file) /\ file # NoFile
    <3>1. PICK before : before = padFile[s]
      OBVIOUS
    <3>2. IsFile(before) /\ padFile \in [Pads -> PadFiles]
      BY <3>1, FilesAre DEF PadInv, PadTypes
    <3>3. file = Opened(before)
      BY <1>6, <3>1, <3>2 DEF PadOpened, Opened
    <3> QED
      BY <3>2, <3>3, OpenedFile
  <2>2. PICK n : n = file[call.table]
    OBVIOUS
  <2>3. n \in Nat
    BY <1>9, <2>1, <2>2 DEF IsFile
  <2>4. PICK after : after = [call EXCEPT !.pc = "drop", !.rows = n, !.conn = "live"]
    OBVIOUS
  <2>5. after \in PadCallType
    BY <1>2, <2>3, <2>4 DEF PadCallType, PadPlaces
  <2>6. /\ after.pc = "drop" /\ after.then = "idle" /\ after.sid = s /\ after.rows = n
        /\ after.conn = "live" /\ after.table = call.table
    BY <1>2, <1>3, <1>4, <2>4 DEF PadCallType
  <2>7. Stage(after) = "drop"
    BY <2>6 DEF Stage
  <2>8. CallFits(after)
    BY <1>3, <2>6, <2>7 DEF CallFits
  <2>9. DropFits(after, file)
    BY <1>9, <2>1, <2>2, <2>3, <2>6 DEF DropFits
  <2>10. padFile'[s] = file
    BY <1>5, <1>6
  <2>11. \A r \in Pads : /\ RowsHeld(after, r) <= RowsHeld(call, r)
                         /\ TablesHeld(after, r) <= TablesHeld(call, r)
    BY <1>2, <2>5, <2>7, SameShare
  <2>12. padCalls' = [padCalls EXCEPT ![c] = after]
    BY <1>9, <2>2, <2>4
  <2> QED
    BY <1>1, <1>5, <2>5, <2>6, <2>8, <2>9, <2>10, <2>11, <2>12, OutsideStep
<1> QED
  BY <1>7, <1>8, <1>9

(* DROP TABLE fails. *)
LEMMA DropFailsFine ==
  ASSUME PadInv, NEW c \in PadCallers, DropFails(c)
  PROVE  PadInv'
<1>1. PICK call : call = padCalls[c]
  OBVIOUS
<1>2. CallFits(call) /\ call.pc = "drop"
  BY <1>1 DEF PadInv, PadCallsFit, DropFails, PadAt
<1>3. PICK s \in Pads : s = call.sid
  BY <1>2 DEF Stage, CallFits
<1>4. PICK after : after = PadIdle
  OBVIOUS
<1>5. after \in PadCallType /\ CallFits(after) /\ Stage(after) \notin {"drop", "persist", "rollback", "note"}
  BY <1>4, IdleFits
<1>6. /\ padCalls' = [padCalls EXCEPT ![c] = after] /\ padFile' \in {padFile, PadOpened(s)}
      /\ UNCHANGED <<padLive, padUsed, padAstray>>
  BY <1>4 DEF DropFails, PadReturn, PadBecome
<1> QED
  BY <1>5, <1>6, QuietStep

(* The pruned files are removed and the call goes on. *)
LEMMA CleanedFine ==
  ASSUME PadInv, NEW c \in PadCallers, PadCleaned(c)
  PROVE  PadInv'
<1>1. PICK call : call = padCalls[c]
  OBVIOUS
<1>2. call \in PadCallType /\ CallFits(call) /\ call.pc = "cleanup"
  BY <1>1 DEF PadInv, PadTypes, PadCallsFit, PadCleaned, PadAt
<1>3. Stage(call) = call.then /\ call.then \in {"idle", "connect", "persist", "count"}
  BY <1>2 DEF Stage, CallFits
<1>4. UNCHANGED <<padLive, padUsed, padFile, padAstray>>
  BY DEF PadCleaned
<1>5. CASE call.then = "idle"
  <2>1. PICK after : after = PadIdle
    OBVIOUS
  <2>2. after \in PadCallType /\ CallFits(after) /\ Stage(after) \notin {"drop", "persist", "rollback", "note"}
    BY <2>1, IdleFits
  <2>3. padCalls' = [padCalls EXCEPT ![c] = after]
    BY <1>1, <1>5, <2>1 DEF PadCleaned, PadReturn, PadBecome
  <2>4. CASE Pads # {}
    <3>1. PICK s \in Pads : TRUE
      BY <2>4
    <3>2. padFile' \in {padFile, PadOpened(s)}
      BY <1>4
    <3> QED
      BY <1>4, <2>2, <2>3, <3>2, QuietStep
  <2>5. CASE Pads = {}
    <3>1. padCalls \in [PadCallers -> PadCallType] /\ padLive = {}
      BY <2>5 DEF PadInv, PadTypes
    <3>2. PadTypes'
      BY <1>4, <2>2, <2>3, <3>1 DEF PadInv, PadTypes
    <3>3. PadCovered'
      BY <1>4, <3>1 DEF PadCovered
    <3>4. PadCallsFit'
      <4> SUFFICES ASSUME NEW d \in PadCallers
                   PROVE  CallFits(padCalls'[d]) /\ DropFits(padCalls'[d], padFile[padCalls'[d].sid])
        BY <1>4 DEF PadCallsFit
      <4>1. CASE d = c
        <5>1. padCalls'[d] = after /\ after.pc # "drop"
          BY <2>1, <2>3, <3>1, <4>1, IdleFits
        <5> QED
          BY <2>2, <5>1 DEF DropFits
      <4>2. CASE d # c
        <5>1. padCalls'[d] = padCalls[d]
          BY <2>3, <3>1, <4>2
        <5> QED
          BY <5>1 DEF PadInv, PadCallsFit
      <4> QED
        BY <4>1, <4>2
    <3> QED
      BY <3>2, <3>3, <3>4 DEF PadInv
  <2> QED
    BY <2>4, <2>5
<1>6. CASE call.then # "idle"
  <2>1. PICK s \in Pads : s = call.sid
    BY <1>2, <1>3, <1>6 DEF CallFits
  <2>2. PICK after : after = [call EXCEPT !.pc = call.then, !.then = "idle"]
    OBVIOUS
  <2>3. after \in PadCallType
    BY <1>2, <2>2 DEF PadCallType, PadPlaces
  <2>4. /\ after.pc = call.then /\ after.then = "idle" /\ after.sid = s /\ after.rows = call.rows
        /\ after.create = call.create /\ after.table = call.table
    BY <1>2, <2>1, <2>2 DEF PadCallType
  <2>5. Stage(after) = call.then /\ after.pc # "drop"
    BY <1>3, <2>4 DEF Stage
  <2>6. CallFits(after)
    BY <1>2, <1>3, <2>1, <2>4, <2>5 DEF CallFits
  <2>7. padCalls' = [padCalls EXCEPT ![c] = after]
    BY <1>1, <1>6, <2>2 DEF PadCleaned, PadBecome
  <2>8. \A r \in Pads : /\ RowsHeld(after, r) <= RowsHeld(call, r)
                        /\ TablesHeld(after, r) <= TablesHeld(call, r)
    BY <1>2, <1>3, <2>1, <2>3, <2>4, <2>5, SameShare
  <2>9. PICK file : file = padFile'[s]
    OBVIOUS
  <2>10. DropFits(after, file) /\ padFile' \in {padFile, PadOpened(s)}
    BY <1>4, <2>5 DEF DropFits
  <2> QED
    BY <1>1, <1>4, <2>3, <2>5, <2>6, <2>7, <2>8, <2>9, <2>10, OutsideStep
<1> QED
  BY <1>5, <1>6

(* What call d holds of every session is what it held. *)
KeepsShare(d, calls2) ==
  \A r \in Pads : RowsHeld(calls2[d], r) = RowsHeld(padCalls[d], r) /\ TablesHeld(calls2[d], r) = TablesHeld(padCalls[d], r)

(* What the file of r and the call of c come to is no more than it was. *)
NoMore(c, after, r, file2) ==
  /\ FileRows(file2) + RowsHeld(after, r) <= FileRows(padFile[r]) + RowsHeld(padCalls[c], r)
  /\ FileTables(file2) + TablesHeld(after, r) <= FileTables(padFile[r]) + TablesHeld(padCalls[c], r)

(* A step on the file of s. *)
LEMMA FileStep ==
  ASSUME PadInv, NEW c \in PadCallers, NEW s \in Pads, NEW file2, IsFile(file2), NEW calls2 \in [PadCallers -> PadCallType],
         padFile' = [padFile EXCEPT ![s] = file2], padCalls' = calls2, padLive' = padLive, padUsed' = padUsed,
         padAstray \cap padLive \subseteq padAstray',
         \A d \in PadCallers : CallFits(calls2[d]) /\ (calls2[d].sid = s => DropFits(calls2[d], file2)),
         \A d \in PadCallers : calls2[d].sid # s => DropFits(calls2[d], padFile[calls2[d].sid]),
         \A d \in PadCallers \ {c} : KeepsShare(d, calls2),
         \A r \in Pads \ {s} : NoMore(c, calls2[c], r, padFile[r]),
         s \in padLive \ padAstray' => NoMore(c, calls2[c], s, file2)
  PROVE  PadInv'
<1>1. /\ padLive \subseteq Pads /\ padFile \in [Pads -> PadFiles] /\ padCalls \in [PadCallers -> PadCallType]
      /\ padUsed \in [Pads -> PadUsage]
  BY DEF PadInv, PadTypes
<1>2. file2 \in PadFiles
  BY FilesAre
<1>3. /\ padFile' \in [Pads -> PadFiles] /\ padFile'[s] = file2 /\ \A r : r # s => padFile'[r] = padFile[r]
  <2>1. padFile' \in [Pads -> PadFiles] /\ padFile'[s] = file2
    BY <1>1, <1>2
  <2>2. ASSUME NEW r, r # s
        PROVE  padFile'[r] = padFile[r]
    <3>1. CASE r \in Pads
      BY <1>1, <2>2, <3>1
    <3>2. CASE r \notin Pads
      BY <1>1, <2>2, <3>2
    <3> QED
      BY <3>1, <3>2
  <2> QED
    BY <2>1, <2>2
<1>4. PadTypes'
  BY <1>1, <1>3 DEF PadTypes
<1>5. PadCallsFit'
  <2> SUFFICES ASSUME NEW d \in PadCallers
               PROVE  CallFits(calls2[d]) /\ DropFits(calls2[d], padFile'[calls2[d].sid])
    BY DEF PadCallsFit
  <2>1. CASE calls2[d].sid = s
    BY <1>3, <2>1
  <2>2. CASE calls2[d].sid # s
    BY <1>3, <2>2
  <2> QED
    BY <2>1, <2>2
<1>6. PadCovered'
  <2> SUFFICES ASSUME NEW r \in padLive \ padAstray'
               PROVE  Charged(padFile'[r], calls2, r, padUsed[r])
    BY DEF PadCovered
  <2>1. PICK file : file = padFile'[r]
    OBVIOUS
  <2>2. PICK used2 : used2 = padUsed[r]
    OBVIOUS
  <2>3. r \in padLive \ padAstray /\ r \in Pads /\ IsFile(file) /\ used2 \in PadUsage
    BY <1>1, <1>3, <2>1, <2>2, FilesAre
  <2>4. \A d \in PadCallers \ {c} : /\ RowsHeld(calls2[d], r) = RowsHeld(padCalls[d], r)
                                    /\ TablesHeld(calls2[d], r) = TablesHeld(padCalls[d], r)
    BY <2>3 DEF KeepsShare
  <2>5. NoMore(c, calls2[c], r, file)
    <3>1. CASE r = s
      BY <1>3, <2>1, <3>1
    <3>2. CASE r # s
      BY <1>3, <2>1, <2>3, <3>2
    <3> QED
      BY <3>1, <3>2
  <2>6. PICK before : before = padFile[r]
    OBVIOUS
  <2>7. IsFile(before)
    BY <1>1, <2>3, <2>6, FilesAre
  <2>8. /\ FileRows(file) \in Nat /\ FileTables(file) \in Nat /\ FileRows(before) \in Nat /\ FileTables(before) \in Nat
    BY <2>3, <2>7, FileSums
  <2>9. /\ RowsHeld(calls2[c], r) \in Nat /\ TablesHeld(calls2[c], r) \in Nat
        /\ RowsHeld(padCalls[c], r) \in Nat /\ TablesHeld(padCalls[c], r) \in Nat
    <3>1. calls2[c] \in PadCallType /\ padCalls[c] \in PadCallType
      BY <1>1
    <3> QED
      BY <3>1, HeldType
  <2>10. padUsed[r].rows \in Nat /\ padUsed[r].tables \in Nat
    BY <1>1, <2>3 DEF PadUsage
  <2>11. FileRows(file) + RowsHeld(calls2[c], r) + padUsed[r].rows
           <= FileRows(padFile[r]) + RowsHeld(padCalls[c], r) + used2.rows
    <3>1. FileRows(file) + RowsHeld(calls2[c], r) <= FileRows(before) + RowsHeld(padCalls[c], r)
      BY <2>5, <2>6 DEF NoMore
    <3> QED
      BY <2>2, <2>6, <2>8, <2>9, <2>10, <3>1
  <2>12. FileTables(file) + TablesHeld(calls2[c], r) + padUsed[r].tables
           <= FileTables(padFile[r]) + TablesHeld(padCalls[c], r) + used2.tables
    <3>1. FileTables(file) + TablesHeld(calls2[c], r) <= FileTables(before) + TablesHeld(padCalls[c], r)
      BY <2>5, <2>6 DEF NoMore
    <3> QED
      BY <2>2, <2>6, <2>8, <2>9, <2>10, <3>1
  <2>13. Charged(file, calls2, r, used2)
    BY <2>3, <2>4, <2>11, <2>12, StaysCharged
  <2> QED
    BY <2>1, <2>2, <2>13
<1> QED
  BY <1>4, <1>5, <1>6 DEF PadInv

(* The files of other sessions are theirs. *)
LEMMA OtherFiles ==
  ASSUME PadInv, NEW c \in PadCallers, NEW after \in PadCallType, NEW r \in Pads,
         RowsHeld(after, r) <= RowsHeld(padCalls[c], r), TablesHeld(after, r) <= TablesHeld(padCalls[c], r)
  PROVE  NoMore(c, after, r, padFile[r])
<1>1. PICK file : file = padFile[r]
  OBVIOUS
<1>2. IsFile(file) /\ padCalls[c] \in PadCallType
  BY <1>1, FilesAre DEF PadInv, PadTypes
<1>3. FileRows(file) \in Nat /\ FileTables(file) \in Nat
  BY <1>2, FileSums
<1>4. /\ RowsHeld(after, r) \in Nat /\ TablesHeld(after, r) \in Nat
      /\ RowsHeld(padCalls[c], r) \in Nat /\ TablesHeld(padCalls[c], r) \in Nat
  BY <1>2, HeldType
<1> QED
  BY <1>1, <1>3, <1>4 DEF NoMore

(* persist_ingest_table writes what the call had charged. *)
LEMMA PersistFine ==
  ASSUME PadInv, NEW c \in PadCallers, Persist(c)
  PROVE  PadInv'
<1>1. PICK call : call = padCalls[c]
  OBVIOUS
<1>2. call \in PadCallType /\ CallFits(call) /\ call.pc = "persist"
  BY <1>1 DEF PadInv, PadTypes, PadCallsFit, Persist, PadAt
<1>3. Stage(call) = "persist" /\ call.sid \in Pads /\ call.table \in PadTables
  BY <1>2 DEF Stage, CallFits
<1>4. call.rows \in Nat /\ call.create \in BOOLEAN
  BY <1>2 DEF PadCallType
<1>5. PICK s : s = call.sid
  OBVIOUS
<1>6. PICK t : t = call.table
  OBVIOUS
<1>7. /\ padFile \in [Pads -> PadFiles] /\ padCalls \in [PadCallers -> PadCallType] /\ s \in Pads /\ t \in PadTables
  BY <1>3, <1>5, <1>6 DEF PadInv, PadTypes
<1>8. PICK before : before = padFile[s]
  OBVIOUS
<1>9. IsFile(before)
  BY <1>7, <1>8, FilesAre
<1>10. PICK file : file = Opened(before)
  OBVIOUS
<1>11. /\ IsFile(file) /\ file # NoFile
       /\ FileRows(file) = FileRows(before) /\ FileTables(file) = FileTables(before)
  BY <1>9, <1>10, OpenedFile
<1>12. PadOpened(s) = [padFile EXCEPT ![s] = file]
  <2>1. CASE before = NoFile
    BY <1>8, <1>10, <2>1 DEF PadOpened, Opened
  <2>2. CASE before # NoFile
    BY <1>7, <1>8, <1>10, <2>2 DEF PadOpened, Opened
  <2> QED
    BY <2>1, <2>2
<1>13. PICK file2 : file2 = Ingested(file, t, call.rows)
  OBVIOUS
<1>14. padFile' = [padFile EXCEPT ![s] = file2] /\ (call.create <=> t \notin DOMAIN file)
  <2>1. PICK f : f = PadOpened(s)
    OBVIOUS
  <2>2. f[s] = file
    BY <1>7, <1>12, <2>1
  <2>3. padFile' = [f EXCEPT ![s] = file2]
    BY <1>1, <1>5, <1>6, <1>13, <2>1, <2>2 DEF Persist, PadWith, Ingested
  <2>4. [f EXCEPT ![s] = file2] = [padFile EXCEPT ![s] = file2]
    BY <1>7, <1>12, <2>1
  <2>5. call.create <=> t \notin DOMAIN file
    BY <1>1, <1>5, <1>6, <2>1, <2>2 DEF Persist
  <2> QED
    BY <2>3, <2>4, <2>5
<1>15. /\ IsFile(file2) /\ file2 # NoFile /\ FileRows(file2) = FileRows(before) + call.rows
       /\ FileTables(file2) = FileTables(before) + (IF call.create THEN 1 ELSE 0)
       /\ \A u \in DOMAIN file : u \in DOMAIN file2 /\ file[u] <= file2[u]
  <2>1. /\ IsFile(file2) /\ file2 # NoFile
        /\ FileRows(file2) = FileRows(file) + call.rows
        /\ FileTables(file2) = FileTables(file) + (IF t \in DOMAIN file THEN 0 ELSE 1)
        /\ \A u \in DOMAIN file : u \in DOMAIN file2 /\ file[u] <= file2[u]
    BY <1>4, <1>7, <1>11, <1>13, IngestedFile
  <2>2. FileTables(file2) = FileTables(before) + (IF call.create THEN 1 ELSE 0)
    BY <1>11, <1>14, <2>1
  <2> QED
    BY <1>11, <2>1, <2>2
<1>16. PICK after : after = PadIdle
  OBVIOUS
<1>17. after \in PadCallType /\ CallFits(after) /\ Stage(after) = "idle" /\ after.pc = "idle"
  BY <1>16, IdleFits
<1>18. PICK calls2 : calls2 = [padCalls EXCEPT ![c] = after]
  OBVIOUS
<1>19. /\ calls2 \in [PadCallers -> PadCallType] /\ padCalls' = calls2 /\ calls2[c] = after
       /\ \A d \in PadCallers \ {c} : calls2[d] = padCalls[d]
  BY <1>7, <1>16, <1>17, <1>18 DEF Persist, PadReturn, PadBecome
<1>20. padLive' = padLive /\ padUsed' = padUsed /\ padAstray' = padAstray
  BY DEF Persist
<1>21. ASSUME NEW d \in PadCallers
       PROVE  /\ CallFits(calls2[d]) /\ (calls2[d].sid = s => DropFits(calls2[d], file2))
              /\ calls2[d].sid # s => DropFits(calls2[d], padFile[calls2[d].sid])
  <2>1. CASE d = c
    BY <1>17, <1>19, <2>1 DEF DropFits
  <2>2. CASE d # c
    <3>1. PICK other : other = padCalls[d]
      OBVIOUS
    <3>2. calls2[d] = other /\ CallFits(other) /\ DropFits(other, padFile[other.sid])
      BY <1>19, <2>2, <3>1 DEF PadInv, PadCallsFit
    <3>3. ASSUME other.sid = s
          PROVE  DropFits(other, file2)
      <4> SUFFICES ASSUME other.pc = "drop", other.conn # "orphan"
                   PROVE  file2 # NoFile /\ (other.conn = "live" => other.table \in DOMAIN file2 /\ other.rows <= file2[other.table])
        BY DEF DropFits
      <4>1. before # NoFile /\ (other.conn = "live" => other.table \in DOMAIN before /\ other.rows <= before[other.table])
        BY <1>8, <3>2, <3>3 DEF DropFits
      <4>2. file = before
        BY <1>10, <4>1 DEF Opened
      <4>3. ASSUME other.conn = "live"
            PROVE  other.table \in DOMAIN file2 /\ other.rows <= file2[other.table]
        <5>1. PICK u : u = other.table
          OBVIOUS
        <5>2. u \in DOMAIN file /\ other.rows <= file[u]
          BY <4>1, <4>2, <4>3, <5>1
        <5>3. u \in DOMAIN file2 /\ file[u] <= file2[u]
          BY <1>15, <5>2
        <5>4. file[u] \in Nat /\ file2[u] \in Nat
          BY <1>11, <1>15, <5>2, <5>3 DEF IsFile
        <5>5. other.rows \in Nat
          BY <1>7, <3>1 DEF PadCallType
        <5> QED
          BY <5>1, <5>2, <5>3, <5>4, <5>5
      <4> QED
        BY <1>15, <4>3
    <3> QED
      BY <3>2, <3>3
  <2> QED
    BY <2>1, <2>2
<1>22. \A d \in PadCallers \ {c} : KeepsShare(d, calls2)
  BY <1>19 DEF KeepsShare
<1>23. ASSUME NEW r \in Pads \ {s}
       PROVE  NoMore(c, calls2[c], r, padFile[r])
  <2>1. RowsHeld(after, r) = 0 /\ TablesHeld(after, r) = 0
    BY <1>17, HoldsNothing
  <2>2. RowsHeld(call, r) \in Nat /\ TablesHeld(call, r) \in Nat
    BY <1>2, HeldType
  <2> QED
    BY <1>1, <1>17, <1>19, <2>1, <2>2, OtherFiles
<1>24. NoMore(c, calls2[c], s, file2)
  <2>1. RowsHeld(after, s) = 0 /\ TablesHeld(after, s) = 0
    BY <1>17, HoldsNothing
  <2>2. RowsHeld(call, s) = call.rows /\ TablesHeld(call, s) = IF call.create THEN 1 ELSE 0
    BY <1>3, <1>5 DEF RowsHeld, TablesHeld, HoldsTable
  <2>3. FileRows(before) \in Nat /\ FileTables(before) \in Nat
    BY <1>9, FileSums
  <2>4. FileRows(file2) + 0 <= FileRows(before) + call.rows
    BY <1>4, <1>15, <2>3
  <2>5. FileTables(file2) + 0 <= FileTables(before) + (IF call.create THEN 1 ELSE 0)
    BY <1>15, <2>3
  <2> QED
    BY <1>1, <1>8, <1>19, <2>1, <2>2, <2>4, <2>5 DEF NoMore
<1>25. padAstray \cap padLive \subseteq padAstray'
  BY <1>20
<1> QED
  BY <1>7, <1>14, <1>15, <1>19, <1>20, <1>21, <1>22, <1>23, <1>24, <1>25, FileStep

(* A call whose connection alone changes. *)
LEMMA ConnChange ==
  ASSUME NEW call \in PadCallType, NEW after, NEW conn \in {"live", "stale", "orphan"}, after = [call EXCEPT !.conn = conn],
         CallFits(call)
  PROVE  /\ after \in PadCallType /\ CallFits(after) /\ after.conn = conn /\ after.sid = call.sid /\ after.table = call.table
         /\ after.pc = call.pc /\ after.rows = call.rows
         /\ \A r : RowsHeld(after, r) = RowsHeld(call, r) /\ TablesHeld(after, r) = TablesHeld(call, r)
<1>1. after \in PadCallType
  BY DEF PadCallType
<1>2. /\ after.conn = conn /\ after.sid = call.sid /\ after.table = call.table /\ after.pc = call.pc
      /\ after.then = call.then /\ after.rows = call.rows /\ after.create = call.create
  BY DEF PadCallType
<1>3. Stage(after) = Stage(call)
  BY <1>2 DEF Stage
<1>4. CallFits(after)
  BY <1>2, <1>3 DEF CallFits
<1>5. ASSUME NEW r
      PROVE  RowsHeld(after, r) = RowsHeld(call, r) /\ TablesHeld(after, r) = TablesHeld(call, r)
  BY <1>2, <1>3 DEF RowsHeld, TablesHeld, HoldsTable
<1> QED
  BY <1>1, <1>2, <1>4, <1>5

(* A call with one path less to clean up. *)
PathDone(call, s) == [call EXCEPT !.paths = call.paths \ {s}]

(* It holds what it held. *)
LEMMA PathGone ==
  ASSUME NEW call \in PadCallType, CallFits(call), call.pc = "cleanup", NEW s, NEW left, left = PathDone(call, s)
  PROVE  /\ left \in PadCallType /\ CallFits(left) /\ left.pc = "cleanup"
         /\ \A r : RowsHeld(left, r) = RowsHeld(call, r) /\ TablesHeld(left, r) = TablesHeld(call, r)
<1>1. left \in PadCallType
  <2>1. PICK gone : gone = call.paths \ {s}
    OBVIOUS
  <2>2. gone \in SUBSET Pads
    BY <2>1 DEF PadCallType
  <2> QED
    BY <2>1, <2>2 DEF PadCallType, PathDone
<1>2. /\ left.pc = call.pc /\ left.then = call.then /\ left.sid = call.sid /\ left.table = call.table
      /\ left.rows = call.rows /\ left.create = call.create /\ left.conn = call.conn
  BY DEF PadCallType, PathDone
<1>3. Stage(left) = Stage(call)
  BY <1>2 DEF Stage
<1>4. CallFits(left)
  BY <1>2, <1>3 DEF CallFits
<1>5. \A r : RowsHeld(left, r) = RowsHeld(call, r) /\ TablesHeld(left, r) = TablesHeld(call, r)
  BY <1>2, <1>3 DEF RowsHeld, TablesHeld, HoldsTable
<1> QED
  BY <1>1, <1>2, <1>4, <1>5

(* A pruned file cannot be removed, and stays. *)
LEMMA CleanupFailsFine ==
  ASSUME PadInv, NEW c \in PadCallers, NEW s \in Pads, PadCleanupFails(c, s)
  PROVE  PadInv'
<1>1. PICK call : call = padCalls[c]
  OBVIOUS
<1>2. call \in PadCallType /\ CallFits(call) /\ call.pc = "cleanup"
  BY <1>1 DEF PadInv, PadTypes, PadCallsFit, PadCleanupFails, PadAt
<1>3. PICK left : left = PathDone(call, s)
  OBVIOUS
<1>4. /\ left \in PadCallType /\ CallFits(left) /\ left.pc = "cleanup"
      /\ \A r : RowsHeld(left, r) = RowsHeld(call, r) /\ TablesHeld(left, r) = TablesHeld(call, r)
  BY <1>2, <1>3, PathGone
<1>5. padCalls' = [padCalls EXCEPT ![c] = left] /\ padFile' \in {padFile, PadOpened(s)}
  BY <1>1, <1>3 DEF PadCleanupFails, PadInv, PadTypes, PathDone
<1>6. UNCHANGED <<padLive, padUsed, padAstray>>
  BY DEF PadCleanupFails
<1>7. DropFits(left, padFile'[s])
  BY <1>4 DEF DropFits
<1>8. \A r \in Pads : RowsHeld(left, r) <= RowsHeld(padCalls[c], r) /\ TablesHeld(left, r) <= TablesHeld(padCalls[c], r)
  <2>1. \A r : RowsHeld(call, r) \in Nat /\ TablesHeld(call, r) \in Nat
    BY <1>2, HeldType
  <2> QED
    BY <1>1, <1>4, <2>1
<1> QED
  BY <1>4, <1>5, <1>6, <1>7, <1>8, OutsideStep

(* A pruned file is removed. *)
LEMMA CleanupFine ==
  ASSUME PadInv, NEW c \in PadCallers, NEW s \in Pads, PadCleanup(c, s)
  PROVE  PadInv'
<1>1. /\ padFile \in [Pads -> PadFiles] /\ padCalls \in [PadCallers -> PadCallType]
  BY DEF PadInv, PadTypes
<1>2. PICK call : call = padCalls[c]
  OBVIOUS
<1>3. call \in PadCallType /\ CallFits(call) /\ call.pc = "cleanup"
  BY <1>2 DEF PadInv, PadTypes, PadCallsFit, PadCleanup, PadAt
<1>4. PICK left : left = PathDone(call, s)
  OBVIOUS
<1>5. /\ left \in PadCallType /\ CallFits(left) /\ left.pc = "cleanup"
      /\ \A r : RowsHeld(left, r) = RowsHeld(call, r) /\ TablesHeld(left, r) = TablesHeld(call, r)
  BY <1>3, <1>4, PathGone
<1>6. PICK mid : mid = [padCalls EXCEPT ![c] = left]
  OBVIOUS
<1>7. /\ mid \in [PadCallers -> PadCallType] /\ mid[c] = left /\ \A d \in PadCallers \ {c} : mid[d] = padCalls[d]
      /\ mid = [padCalls EXCEPT ![c].paths = @ \ {s}]
  BY <1>1, <1>2, <1>4, <1>5, <1>6 DEF PathDone
<1>8. ASSUME NEW d \in PadCallers
      PROVE  /\ CallFits(mid[d]) /\ DropFits(mid[d], padFile[mid[d].sid])
             /\ \A r : RowsHeld(mid[d], r) = RowsHeld(padCalls[d], r) /\ TablesHeld(mid[d], r) = TablesHeld(padCalls[d], r)
  <2>1. CASE d = c
    <3>1. DropFits(left, padFile[left.sid])
      BY <1>5 DEF DropFits
    <3> QED
      BY <1>2, <1>5, <1>7, <2>1, <3>1
  <2>2. CASE d # c
    BY <1>7, <2>2 DEF PadInv, PadCallsFit
  <2> QED
    BY <2>1, <2>2
<1>9. PICK calls2 : calls2 = PadOrphaned(mid, s)
  OBVIOUS
<1>10. padCalls' = calls2 /\ padFile' = [padFile EXCEPT ![s] = NoFile]
  BY <1>7, <1>9 DEF PadCleanup
<1>11. ASSUME NEW d \in PadCallers
       PROVE  /\ calls2[d] \in PadCallType /\ CallFits(calls2[d])
              /\ calls2[d].sid = s => DropFits(calls2[d], NoFile)
              /\ calls2[d].sid # s => DropFits(calls2[d], padFile[calls2[d].sid])
              /\ \A r : RowsHeld(calls2[d], r) = RowsHeld(padCalls[d], r) /\ TablesHeld(calls2[d], r) = TablesHeld(padCalls[d], r)
  <2>1. PICK one : one = mid[d]
    OBVIOUS
  <2>2. /\ one \in PadCallType /\ CallFits(one) /\ DropFits(one, padFile[one.sid])
        /\ \A r : RowsHeld(one, r) = RowsHeld(padCalls[d], r) /\ TablesHeld(one, r) = TablesHeld(padCalls[d], r)
    BY <1>7, <1>8, <2>1
  <2>3. CASE one.sid = s /\ one.conn \in {"live", "stale"}
    <3>1. PICK after : after = [one EXCEPT !.conn = "orphan"]
      OBVIOUS
    <3>2. calls2[d] = after
      BY <1>9, <2>1, <2>3, <3>1 DEF PadOrphaned
    <3>3. /\ after \in PadCallType /\ CallFits(after) /\ after.conn = "orphan" /\ after.sid = one.sid
          /\ \A r : RowsHeld(after, r) = RowsHeld(one, r) /\ TablesHeld(after, r) = TablesHeld(one, r)
      BY <2>2, <3>1, ConnChange
    <3>4. DropFits(after, NoFile)
      BY <3>3 DEF DropFits
    <3> QED
      BY <2>2, <2>3, <3>2, <3>3, <3>4
  <2>4. CASE ~(one.sid = s /\ one.conn \in {"live", "stale"})
    <3>1. calls2[d] = one
      BY <1>9, <2>1, <2>4 DEF PadOrphaned
    <3>2. ASSUME one.sid = s
          PROVE  DropFits(one, NoFile)
      BY <2>2, <2>4, <3>2 DEF DropFits, CallFits
    <3> QED
      BY <2>2, <3>1, <3>2
  <2> QED
    BY <2>3, <2>4
<1>12. calls2 \in [PadCallers -> PadCallType]
  <2>1. DOMAIN calls2 = PadCallers /\ calls2 = [d \in PadCallers |-> calls2[d]]
    BY <1>9 DEF PadOrphaned
  <2> QED
    BY <1>11, <2>1
<1>13. \A d \in PadCallers \ {c} : KeepsShare(d, calls2)
  BY <1>11 DEF KeepsShare
<1>14. \A r : RowsHeld(calls2[c], r) = RowsHeld(call, r) /\ TablesHeld(calls2[c], r) = TablesHeld(call, r)
  BY <1>2, <1>11
<1>15. \A r : RowsHeld(call, r) \in Nat /\ TablesHeld(call, r) \in Nat
  BY <1>3, HeldType
<1>16. ASSUME NEW r \in Pads \ {s}
       PROVE  NoMore(c, calls2[c], r, padFile[r])
  <2>1. PICK after : after = calls2[c]
    OBVIOUS
  <2>2. /\ after \in PadCallType
        /\ RowsHeld(after, r) <= RowsHeld(padCalls[c], r) /\ TablesHeld(after, r) <= TablesHeld(padCalls[c], r)
    BY <1>2, <1>11, <1>14, <1>15, <2>1
  <2> QED
    BY <2>1, <2>2, OtherFiles
<1>17. NoMore(c, calls2[c], s, NoFile)
  <2>1. PICK before : before = padFile[s]
    OBVIOUS
  <2>2. IsFile(before)
    BY <1>1, <2>1, FilesAre
  <2>3. FileRows(before) \in Nat /\ FileTables(before) \in Nat
    BY <2>2, FileSums
  <2>4. FileRows(NoFile) = 0 /\ FileTables(NoFile) = 0
    BY DEF FileRows, FileTables
  <2>5. 0 + RowsHeld(call, s) <= FileRows(before) + RowsHeld(call, s)
    BY <1>15, <2>3
  <2>6. 0 + TablesHeld(call, s) <= FileTables(before) + TablesHeld(call, s)
    BY <1>15, <2>3
  <2> QED
    BY <1>2, <1>14, <2>1, <2>4, <2>5, <2>6 DEF NoMore
<1>18. IsFile(NoFile)
  BY DEF IsFile
<1>19. padLive' = padLive /\ padUsed' = padUsed /\ padAstray \cap padLive \subseteq padAstray'
  BY DEF PadCleanup
<1> QED
  BY <1>10, <1>11, <1>12, <1>13, <1>16, <1>17, <1>18, <1>19, FileStep

(* DROP TABLE. *)
LEMMA DropFine ==
  ASSUME PadInv, NEW c \in PadCallers, Drop(c)
  PROVE  PadInv'
<1>1. PICK call : call = padCalls[c]
  OBVIOUS
<1>2. call \in PadCallType /\ CallFits(call) /\ DropFits(call, padFile[call.sid]) /\ call.pc = "drop"
  BY <1>1 DEF PadInv, PadTypes, PadCallsFit, Drop, PadAt
<1>3. Stage(call) = "drop" /\ call.sid \in Pads /\ call.table \in PadTables /\ call.then = "idle" /\ call.rows \in Nat
  <2>1. Stage(call) = "drop"
    BY <1>2 DEF Stage
  <2> QED
    BY <1>2, <2>1 DEF CallFits, PadCallType
<1>4. PICK s \in Pads : s = call.sid
  BY <1>3
<1>5. PICK t : t = call.table
  OBVIOUS
<1>6. PICK after : after = [call EXCEPT !.pc = "note", !.conn = "none"]
  OBVIOUS
<1>7. after \in PadCallType
  BY <1>2, <1>6 DEF PadCallType, PadPlaces
<1>8. /\ after.pc = "note" /\ after.then = "idle" /\ after.sid = s /\ after.rows = call.rows /\ after.table = t
      /\ after.conn = "none"
  BY <1>2, <1>3, <1>4, <1>5, <1>6 DEF PadCallType
<1>9. Stage(after) = "note"
  BY <1>8 DEF Stage
<1>10. CallFits(after)
  BY <1>3, <1>5, <1>8, <1>9 DEF CallFits
<1>11. /\ RowsHeld(after, s) = call.rows /\ TablesHeld(after, s) = 1
       /\ \A r \in Pads \ {s} : RowsHeld(after, r) = 0 /\ TablesHeld(after, r) = 0
       /\ \A r \in Pads : RowsHeld(call, r) = 0 /\ TablesHeld(call, r) = 0
  BY <1>3, <1>8, <1>9 DEF RowsHeld, TablesHeld, HoldsTable
<1>12. padFile \in [Pads -> PadFiles] /\ padCalls \in [PadCallers -> PadCallType]
  BY DEF PadInv, PadTypes
<1>13. PICK before : before = padFile[s]
  OBVIOUS
<1>14. IsFile(before)
  BY <1>12, <1>13, FilesAre
<1>15. PICK gone : gone = [padCalls EXCEPT ![c] = after]
  OBVIOUS
<1>16. /\ gone \in [PadCallers -> PadCallType] /\ gone[c] = after /\ \A d \in PadCallers \ {c} : gone[d] = padCalls[d]
  BY <1>7, <1>12, <1>15
<1>17. /\ padLive' = padLive /\ padUsed' = padUsed /\ padAstray \cap padLive \subseteq padAstray'
       /\ call.conn # "live" /\ s \in padLive => s \in padAstray'
  BY <1>1, <1>4 DEF Drop
<1>18. ASSUME NEW d \in PadCallers \ {c}
       PROVE  gone[d] \in PadCallType /\ CallFits(gone[d]) /\ DropFits(gone[d], padFile[gone[d].sid])
  BY <1>16 DEF PadInv, PadCallsFit
<1>19. ASSUME NEW r \in Pads \ {s}
       PROVE  NoMore(c, after, r, padFile[r])
  <2>1. RowsHeld(after, r) <= RowsHeld(padCalls[c], r) /\ TablesHeld(after, r) <= TablesHeld(padCalls[c], r)
    BY <1>1, <1>11
  <2> QED
    BY <1>7, <2>1, OtherFiles
<1>20. CASE call.conn = "orphan"
  <2>1. padCalls' = gone /\ padFile' = padFile
    BY <1>1, <1>6, <1>15, <1>20 DEF Drop
  <2>2. padFile' = [padFile EXCEPT ![s] = before]
    BY <1>12, <1>13, <2>1
  <2>3. ASSUME NEW d \in PadCallers
        PROVE  /\ CallFits(gone[d]) /\ (gone[d].sid = s => DropFits(gone[d], before))
               /\ gone[d].sid # s => DropFits(gone[d], padFile[gone[d].sid])
    <3>1. CASE d = c
      BY <1>8, <1>10, <1>16, <3>1 DEF DropFits
    <3>2. CASE d # c
      BY <1>13, <1>18, <3>2
    <3> QED
      BY <3>1, <3>2
  <2>4. \A d \in PadCallers \ {c} : KeepsShare(d, gone)
    BY <1>16 DEF KeepsShare
  <2>5. s \notin padLive \ padAstray'
    BY <1>17, <1>20
  <2>6. \A r \in Pads \ {s} : NoMore(c, gone[c], r, padFile[r])
    BY <1>16, <1>19
  <2> QED
    BY <1>14, <1>16, <1>17, <2>1, <2>2, <2>3, <2>4, <2>5, <2>6, FileStep
<1>21. CASE call.conn # "orphan"
  <2>1. before # NoFile /\ (call.conn = "live" => call.rows <= before[t])
    BY <1>2, <1>4, <1>5, <1>13, <1>21 DEF DropFits
  <2>2. PICK file2 : file2 = Restrict(before, DOMAIN before \ {t})
    OBVIOUS
  <2>3. t \in DOMAIN before /\ padFile' = [padFile EXCEPT ![s] = file2] /\ padCalls' = PadStale(gone, s, t)
    BY <1>1, <1>4, <1>5, <1>6, <1>12, <1>13, <1>15, <1>21, <2>2 DEF Drop
  <2>4. /\ IsFile(file2) /\ file2 # NoFile /\ DOMAIN file2 = DOMAIN before \ {t}
        /\ \A u \in DOMAIN before \ {t} : file2[u] = before[u]
        /\ FileRows(file2) + before[t] = FileRows(before) /\ before[t] \in Nat
        /\ FileTables(file2) + 1 = FileTables(before)
    BY <1>14, <2>1, <2>2, <2>3, CutFile
  <2>5. PICK calls2 : calls2 = PadStale(gone, s, t)
    OBVIOUS
  <2>6. padCalls' = calls2 /\ calls2[c] = after
    BY <1>8, <1>16, <2>3, <2>5 DEF PadStale
  <2>7. ASSUME NEW d \in PadCallers \ {c}
        PROVE  /\ calls2[d] \in PadCallType /\ CallFits(calls2[d])
               /\ calls2[d].sid = s => DropFits(calls2[d], file2)
               /\ calls2[d].sid # s => DropFits(calls2[d], padFile[calls2[d].sid])
               /\ \A r : RowsHeld(calls2[d], r) = RowsHeld(padCalls[d], r) /\ TablesHeld(calls2[d], r) = TablesHeld(padCalls[d], r)
    <3>1. PICK one : one = padCalls[d]
      OBVIOUS
    <3>2. one \in PadCallType /\ CallFits(one) /\ DropFits(one, padFile[one.sid]) /\ gone[d] = one
      BY <1>16, <1>18, <3>1
    <3>3. CASE one.sid = s /\ one.table = t /\ one.conn = "live"
      <4>1. PICK late : late = [one EXCEPT !.conn = "stale"]
        OBVIOUS
      <4>2. calls2[d] = late
        BY <2>5, <3>2, <3>3, <4>1 DEF PadStale
      <4>3. /\ late \in PadCallType /\ CallFits(late) /\ late.conn = "stale" /\ late.sid = one.sid
            /\ \A r : RowsHeld(late, r) = RowsHeld(one, r) /\ TablesHeld(late, r) = TablesHeld(one, r)
        BY <3>2, <4>1, ConnChange
      <4>4. DropFits(late, file2)
        BY <2>4, <4>3 DEF DropFits
      <4> QED
        BY <3>1, <3>3, <4>2, <4>3, <4>4
    <3>4. CASE ~(one.sid = s /\ one.table = t /\ one.conn = "live")
      <4>1. calls2[d] = one
        BY <2>5, <3>2, <3>4 DEF PadStale
      <4>2. ASSUME one.sid = s
            PROVE  DropFits(one, file2)
        <5>1. DropFits(one, before)
          BY <1>13, <3>2, <4>2
        <5> QED
          BY <2>4, <3>4, <4>2, <5>1 DEF DropFits
      <4> QED
        BY <3>1, <3>2, <4>1, <4>2
    <3> QED
      BY <3>3, <3>4
  <2>8. calls2 \in [PadCallers -> PadCallType]
    <3>1. calls2 = [d \in PadCallers |-> calls2[d]]
      BY <2>5 DEF PadStale
    <3>2. \A d \in PadCallers : calls2[d] \in PadCallType
      BY <1>7, <2>6, <2>7
    <3> QED
      BY <3>1, <3>2
  <2>9. ASSUME NEW d \in PadCallers
        PROVE  /\ CallFits(calls2[d]) /\ (calls2[d].sid = s => DropFits(calls2[d], file2))
               /\ calls2[d].sid # s => DropFits(calls2[d], padFile[calls2[d].sid])
    <3>1. CASE d = c
      BY <1>8, <1>10, <2>6, <3>1 DEF DropFits
    <3>2. CASE d # c
      BY <2>7, <3>2
    <3> QED
      BY <3>1, <3>2
  <2>10. \A d \in PadCallers \ {c} : KeepsShare(d, calls2)
    BY <2>7 DEF KeepsShare
  <2>11. \A r \in Pads \ {s} : NoMore(c, calls2[c], r, padFile[r])
    BY <1>19, <2>6
  <2>12. s \in padLive \ padAstray' => NoMore(c, calls2[c], s, file2)
    <3> SUFFICES ASSUME s \in padLive \ padAstray'
                 PROVE  NoMore(c, after, s, file2)
      BY <2>6
    <3>1. call.rows <= before[t]
      BY <1>17, <2>1
    <3>2. FileRows(file2) \in Nat /\ FileTables(file2) \in Nat /\ FileRows(before) \in Nat /\ FileTables(before) \in Nat
      BY <1>14, <2>4, FileSums
    <3>3. FileRows(file2) + call.rows <= FileRows(before) + 0
      BY <1>3, <2>4, <3>1, <3>2
    <3>4. FileTables(file2) + 1 <= FileTables(before) + 0
      BY <2>4, <3>2
    <3> QED
      BY <1>1, <1>11, <1>13, <3>3, <3>4 DEF NoMore
  <2> QED
    BY <1>17, <2>3, <2>4, <2>6, <2>8, <2>9, <2>10, <2>11, <2>12, FileStep
<1> QED
  BY <1>20, <1>21

(* At the start nothing is live and nothing is under way. *)
LEMMA PadInitFine == PadInit => PadInv
<1> SUFFICES ASSUME PadInit
             PROVE  PadInv
  OBVIOUS
<1>1. /\ padLive = {} /\ padUsed = [s \in Pads |-> NoUsage] /\ padFile = [s \in Pads |-> NoFile]
      /\ padCalls = [c \in PadCallers |-> PadIdle]
  BY DEF PadInit
<1>2. PadTypes
  <2>1. NoUsage \in PadUsage /\ NoFile \in PadFiles /\ PadIdle \in PadCallType
    BY IdleFits DEF NoUsage, PadUsage, PadFiles
  <2> QED
    BY <1>1, <2>1 DEF PadTypes
<1>3. PadCallsFit
  <2> SUFFICES ASSUME NEW c \in PadCallers
               PROVE  CallFits(padCalls[c]) /\ DropFits(padCalls[c], padFile[padCalls[c].sid])
    BY DEF PadCallsFit
  <2>1. padCalls[c] = PadIdle
    BY <1>1
  <2> QED
    BY <2>1, IdleFits DEF DropFits
<1>4. PadCovered
  BY <1>1 DEF PadCovered
<1> QED
  BY <1>2, <1>3, <1>4 DEF PadInv

(* A step that leaves the entries, the files and the calls alone. *)
LEMMA PadAlone ==
  ASSUME PadInv, UNCHANGED <<padLive, padUsed, padFile, padCalls, padAstray>>
  PROVE  PadInv'
<1>1. PadTypes'
  BY DEF PadInv, PadTypes
<1>2. PadCallsFit'
  BY DEF PadInv, PadCallsFit
<1>3. PadCovered'
  BY DEF PadInv, PadCovered
<1> QED
  BY <1>1, <1>2, <1>3 DEF PadInv

(* Every step keeps the invariant. *)
LEMMA PadStepFine == PadInv /\ [PadNext]_padVars => PadInv'
<1> SUFFICES ASSUME PadInv, [PadNext]_padVars
             PROVE  PadInv'
  OBVIOUS
<1>1. CASE UNCHANGED padVars
  BY <1>1, PadAlone DEF padVars
<1>2. CASE PadTick
  BY <1>2, PadAlone DEF PadTick
<1>3. ASSUME NEW limits, SetLimit(limits)
      PROVE  PadInv'
  BY <1>3, PadAlone DEF SetLimit
<1>4. ASSUME NEW c \in PadCallers, PadStep(c)
      PROVE  PadInv'
  <2>1. CASE PadConnect(c)
    BY <2>1, ConnectFine
  <2>2. CASE PadInfo(c)
    <3>1. PadKept \in SUBSET PadKept
      OBVIOUS
    <3>2. /\ PadEntries(PadKept, {padCalls[c].sid}, padUsed) /\ PadUnlock(c, PadIdle, "idle")
          /\ PadEntersNone /\ padFile' = padFile
      BY <2>2 DEF PadInfo, PadTouch
    <3>3. PICK T : T = {padCalls[c].sid}
      OBVIOUS
    <3> QED
      BY <3>1, <3>2, <3>3, TouchFine
  <2>3. ASSUME NEW s \in Pads, PadCleanup(c, s)
        PROVE  PadInv'
    BY <2>3, CleanupFine
  <2>12. ASSUME NEW s \in Pads, PadCleanupFails(c, s)
        PROVE  PadInv'
    BY <2>12, CleanupFailsFine
  <2>4. CASE PadCleaned(c)
    BY <2>4, CleanedFine
  <2>5. CASE Persist(c)
    BY <2>5, PersistFine
  <2>6. CASE PersistFails(c)
    BY <2>6, PersistFailsFine
  <2>7. CASE Rollback(c)
    BY <2>7, RollbackFine
  <2>8. CASE DropCount(c)
    BY <2>8, DropCountFine
  <2>9. CASE Drop(c)
    BY <2>9, DropFine
  <2>10. CASE DropFails(c)
    BY <2>10, DropFailsFine
  <2>11. CASE NoteDropped(c)
    BY <2>11, NoteDroppedFine
  <2> QED
    BY <1>4, <2>1, <2>2, <2>3, <2>4, <2>5, <2>6, <2>7, <2>8, <2>9, <2>10, <2>11, <2>12 DEF PadStep
<1>5. ASSUME NEW c \in PadCallers, PadCall(c)
      PROVE  PadInv'
  <2>0. PadKept \in SUBSET PadKept /\ 0 \in Nat /\ 1 \in Nat /\ PadBatches \subseteq Nat
    BY PadAssumption
  <2>1. ASSUME NEW s \in Pads, NEW info \in BOOLEAN, PadOpen(c, s, info)
        PROVE  PadInv'
    BY <2>1, OpenFine
  <2>2. ASSUME NEW s \in Pads, PadRelease(c, s)
        PROVE  PadInv'
    BY <2>2, ReleaseFine
  <2>3. ASSUME NEW s \in Pads, ReserveUnknown(c, s)
        PROVE  PadInv'
    <3>1. /\ PadEntries(PadKept, {}, padUsed) /\ padCalls' = [padCalls EXCEPT ![c] = PadIdle] /\ PadEntersNone /\ padFile' = padFile
      BY <2>3 DEF ReserveUnknown, PadReturn, PadBecome
    <3>2. PICK after : after = PadIdle
      OBVIOUS
    <3>3. /\ after \in PadCallType /\ CallFits(after) /\ after.pc # "drop" /\ Stage(after) \notin {"persist", "rollback", "note"}
          /\ padCalls' = [padCalls EXCEPT ![c] = after]
      BY <3>1, <3>2, IdleFits
    <3> QED
      BY <2>0, <3>1, <3>3, QuietLock
  <2>4. ASSUME NEW s \in Pads, PadNote(c, s, 1, 0)
        PROVE  PadInv'
    BY <2>0, <2>4, NoteFine
  <2>5. ASSUME NEW s \in Pads, NEW n \in PadBatches, PadNote(c, s, 0, n)
        PROVE  PadInv'
    BY <2>0, <2>5, NoteFine
  <2>6. ASSUME NEW s \in Pads, NEW t \in PadTables, DropLookup(c, s, t)
        PROVE  PadInv'
    BY <2>6, LookupFine
  <2>7. ASSUME NEW s \in Pads, NEW n \in PadBatches, NEW create \in BOOLEAN, ReserveBreach(c, s, n, create)
        PROVE  PadInv'
    <3>1. /\ PadEntries(PadKept, {}, padUsed) /\ PadUnlock(c, PadIdle, "idle") /\ PadEntersNone /\ padFile' = padFile
      BY <2>7 DEF ReserveBreach
    <3> QED
      BY <2>0, <3>1, TouchFine
  <2>8. ASSUME NEW s \in Pads, NEW n \in PadBatches, NEW create \in BOOLEAN, NEW t \in PadTables,
               Reserve(c, s, t, n, create)
        PROVE  PadInv'
    BY <2>8, ReserveFine
  <2>9. ASSUME NEW T, PadInspect(c, T)
        PROVE  PadInv'
    <3>1. /\ PadEntries(PadKept, T, padUsed) /\ PadUnlock(c, PadIdle, "idle") /\ PadEntersNone /\ padFile' = padFile
      BY <2>9 DEF PadInspect, PadTouch
    <3> QED
      BY <2>0, <3>1, TouchFine
  <2> QED
    BY <1>5, <2>1, <2>2, <2>3, <2>4, <2>5, <2>6, <2>7, <2>8, <2>9 DEF PadCall
<1> QED
  BY <1>1, <1>2, <1>3, <1>4, <1>5 DEF PadNext

(* The charge covers the file. *)
LEMMA PadInvCovers == PadInv => QuotaCoversData
<1> SUFFICES ASSUME PadInv, NEW s \in padLive \ padAstray, padFile[s] # NoFile
             PROVE  /\ Cardinality(DOMAIN padFile[s]) <= padUsed[s].tables
                    /\ Cardinality(PadRowsIn(s)) <= padUsed[s].rows
  BY DEF QuotaCoversData
<1>1. PICK file : file = padFile[s]
  OBVIOUS
<1>2. PICK calls : calls = padCalls
  OBVIOUS
<1>3. s \in Pads /\ padUsed[s] \in PadUsage /\ calls \in [PadCallers -> PadCallType] /\ IsFile(file)
  BY <1>1, <1>2, FilesAre DEF PadInv, PadTypes
<1>4. Charged(file, calls, s, padUsed[s])
  BY <1>1, <1>2 DEF PadInv, PadCovered
<1>5. HeldRows(calls, s) \in Nat /\ HeldTables(calls, s) \in Nat
  BY <1>3, HeldSums
<1>6. FileRows(file) \in Nat /\ FileTables(file) \in Nat
  BY <1>3, FileSums
<1>7. padUsed[s].tables \in Nat /\ padUsed[s].rows \in Nat
  BY <1>3 DEF PadUsage
<1>8. FileRows(file) <= padUsed[s].rows /\ FileTables(file) <= padUsed[s].tables
  BY <1>4, <1>5, <1>6, <1>7 DEF Charged
<1>9. FileRows(file) = Cardinality(PadRowsIn(s)) /\ FileTables(file) = Cardinality(DOMAIN padFile[s])
  BY <1>1 DEF FileRows, FileTables, PadRowsIn, Pile
<1> QED
  BY <1>8, <1>9

(* reserve_ingest_capacity, rollback_ingest_capacity and                   *)
(* note_table_dropped: with any number of callers, sessions and tables, a  *)
(* live session's file holds no more tables and rows than the quota has    *)
(* been charged, unless it inherited a file or a late call, or a drop met  *)
(* a table or a file that was not the one it counted.                      *)
THEOREM QuotaSpeaks == PadSpec => []QuotaCoversData
<1>1. PadInit => PadInv
  BY PadInitFine
<1>2. PadInv /\ [PadNext]_padVars => PadInv'
  BY PadStepFine
<1>3. PadInv => QuotaCoversData
  BY PadInvCovers
<1> QED
  BY <1>1, <1>2, <1>3, PTL DEF PadSpec

==============================================================================
