----------------------------- MODULE EventStores -----------------------------
(***************************************************************************)
(* The two EventStore backends (crates/mcp-toolkit-http/src/session.rs and *)
(* session_sqlite.rs) behind RecordingSessionManager::record_stream, of    *)
(* which a store has one: MemoryEventStore under its mutex, or             *)
(* SqliteEventStore through the command channel of its worker thread.      *)
(*                                                                         *)
(* RMCP numbers the events of a stream from 0.  A resumed stream is        *)
(* recorded again from where the client asked for, next to the original    *)
(* one.  Payloads and their encryption are left out.                       *)
(***************************************************************************)
EXTENDS Integers, Sequences, FiniteSets, SequencesExt, FiniteSetsExt, Functions, Retain

CONSTANTS EvStreams,     \* stream ids: a session's common stream, or one of a request
          EvMaxEvents,   \* EventStoreConfig::max_events
          EvMaxStreams,  \* EventStoreConfig::max_streams
          EvTtls,        \* EventStoreConfig::ttl in seconds; EvNever is None
          EvNever,
          EvMaxSeq,      \* the last event of a stream (bound)
          EvMaxTime,     \* the last second (bound)
          EvMaxQueue     \* commands in the worker's channel

(* The limits are plain usize fields that nothing validates: zero is one   *)
(* of their values.  Past i64::MAX `as i64` would wrap; those are left out.*)
ASSUME EvAssumption ==
  /\ {EvMaxEvents, EvMaxStreams} \subseteq Nat
  /\ EvNever \notin Nat /\ EvTtls \subseteq Nat \cup {EvNever}
  /\ {EvMaxSeq, EvMaxTime, EvMaxQueue} \subseteq Nat

VARIABLES
  evBackend,   \* EventStoreInner
  evTtl,
  evClock,     \* current_epoch_seconds
  evSent,      \* events RMCP has sent on each stream
  evResumed,   \* the next event a resumed stream sends, or evSent when there is none
  memStreams,  \* MemoryState::streams
  memOrder,    \* MemoryState::order
  evQueue,     \* the SQLite worker's channel
  dbStreams,   \* table mcp_event_streams: last_seen
  dbEvents,    \* table mcp_events
  dbRecorded   \* history: events the worker recorded since the stream was entered

evVars == <<evBackend, evTtl, evClock, evSent, evResumed, memStreams, memOrder, evQueue,
            dbStreams, dbEvents, dbRecorded>>

EvInit ==
  /\ evBackend \in {"memory", "sqlite"} /\ evTtl \in EvTtls /\ evClock \in 0..EvMaxTime
  /\ evSent = [s \in EvStreams |-> 0] /\ evResumed = [s \in EvStreams |-> 0]
  /\ memStreams = <<>> /\ memOrder = <<>>
  /\ evQueue = <<>> /\ dbStreams = <<>> /\ dbEvents = {}
  /\ dbRecorded = [s \in EvStreams |-> {}]

EvCutoff == evClock - evTtl
Fresh(at) == evTtl = EvNever \/ at >= EvCutoff

-----------------------------------------------------------------------------
(* MemoryEventStore *)

(* The queue of a stream with one more event; at max_events the oldest     *)
(* goes first, if there is one: the new event stays when the limit is zero.*)
MemPushed(s, e) ==
  LET queue == IF s \in DOMAIN memStreams THEN memStreams[s] ELSE <<>>
      room  == IF queue # <<>> /\ Len(queue) >= EvMaxEvents THEN Tail(queue) ELSE queue
  IN  [t \in DOMAIN memStreams \cup {s} |-> IF t = s THEN Append(room, e) ELSE memStreams[t]]

TouchStream(order, s) == Append(Retain(order, ToSet(order) \ {s}), s)

(* trim_streams: the streams that keep their place. *)
TrimStreams(order) ==
  IF Len(order) > EvMaxStreams THEN SubSeq(order, Len(order) - EvMaxStreams + 1, Len(order)) ELSE order

(* Mutant: an emptied stream keeps its place in the order. *)
MemPrunedKeepsOrder(streams, order) ==
  LET queues == [s \in DOMAIN streams |-> Retain(streams[s], {e \in ToSet(streams[s]) : Fresh(e.at)})]
      kept   == {s \in DOMAIN streams : queues[s] # <<>>}
  IN  /\ memStreams' = Restrict(queues, kept)
      /\ memOrder' = order

(* prune_expired: expired events, and the streams left without any. *)
MemPruned(streams, order) ==
  LET queues == [s \in DOMAIN streams |-> Retain(streams[s], {e \in ToSet(streams[s]) : Fresh(e.at)})]
      kept   == {s \in DOMAIN streams : queues[s] # <<>>}
  IN  /\ memStreams' = Restrict(queues, kept)
      /\ memOrder' = Retain(order, kept)

MemStore(s, n, at) ==
  LET order == TrimStreams(TouchStream(memOrder, s))
  IN  MemPruned(Restrict(MemPushed(s, [seq |-> n, at |-> at]), ToSet(order)), order)

-----------------------------------------------------------------------------
(* SqliteEventStore: the worker runs one command in one transaction. *)

DbSeqs(events, s) == {e.seq : e \in {f \in events : f.stream = s}}

(* Mutant: the cutoff is one too low. *)
PruneStreamEventsLate(events, s) ==
  LET cutoff == Max(DbSeqs(events, s)) - EvMaxEvents - 1
  IN  IF cutoff <= 0 THEN events ELSE {e \in events : e.stream # s \/ e.seq > cutoff}

(* prune_stream_events: by sequence number, and not while the cutoff is    *)
(* zero.                                                                   *)
PruneStreamEvents(events, s) ==
  LET cutoff == Max(DbSeqs(events, s)) - EvMaxEvents
  IN  IF cutoff <= 0 THEN events ELSE {e \in events : e.stream # s \/ e.seq > cutoff}

(* prune_expired: events by created_at, streams by last_seen, both only    *)
(* once the cutoff is positive.                                            *)
DbExpiring == evTtl # EvNever /\ EvCutoff > 0
DbFreshEvents(events) == IF DbExpiring THEN {e \in events : e.at >= EvCutoff} ELSE events
DbFreshStreams(streams) ==
  IF DbExpiring THEN Restrict(streams, {s \in DOMAIN streams : streams[s] >= EvCutoff}) ELSE streams

(* prune_streams: the oldest by last_seen, in any order among equals. *)
DbEvictions(streams) ==
  LET overflow == Cardinality(DOMAIN streams) - EvMaxStreams
  IN  IF overflow <= 0 THEN {{}}
      ELSE {V \in kSubset(overflow, DOMAIN streams) :
              \A v \in V, s \in DOMAIN streams \ V : streams[v] <= streams[s]}

(* store_event_sync: INSERT OR IGNORE keeps the row there is. *)
DbStore(cmd) ==
  LET s        == cmd.stream
      entered  == [t \in DOMAIN dbStreams \cup {s} |-> IF t = s THEN cmd.at ELSE dbStreams[t]]
      inserted == IF cmd.seq \in DbSeqs(dbEvents, s) THEN dbEvents
                  ELSE dbEvents \cup {[stream |-> s, seq |-> cmd.seq, at |-> cmd.at]}
      events   == DbFreshEvents(PruneStreamEvents(inserted, s))
      streams  == DbFreshStreams(entered)
  IN  \E V \in DbEvictions(streams) :
        /\ dbStreams' = Restrict(streams, DOMAIN streams \ V)
        /\ dbEvents' = {e \in events : e.stream \notin V}
        /\ dbRecorded' = [t \in EvStreams |->
             IF t \notin DOMAIN streams \ V THEN {}
             ELSE IF t = s THEN dbRecorded[t] \cup {cmd.seq} ELSE dbRecorded[t]]

DbReplay ==
  /\ dbStreams' = DbFreshStreams(dbStreams)
  /\ dbEvents' = DbFreshEvents(dbEvents)
  /\ dbRecorded' = [t \in EvStreams |-> IF t \in DOMAIN dbStreams' THEN dbRecorded[t] ELSE {}]

WorkerRuns ==
  /\ evQueue # <<>>
  /\ evQueue' = Tail(evQueue)
  /\ IF Head(evQueue).kind = "store" THEN DbStore(Head(evQueue)) ELSE DbReplay
  /\ UNCHANGED <<evBackend, evTtl, evClock, evSent, evResumed, memStreams, memOrder>>

(* The transaction fails: the worker reports it and goes on. *)
WorkerFails ==
  /\ evQueue # <<>>
  /\ evQueue' = Tail(evQueue)
  /\ UNCHANGED <<evBackend, evTtl, evClock, evSent, evResumed, memStreams, memOrder, dbStreams, dbEvents, dbRecorded>>

-----------------------------------------------------------------------------
(* EventStore::store_event, called by record_stream for every event it     *)
(* passes on.  created_at is read before the store is entered: since the   *)
(* clock may have been set meanwhile, it is any instant.                   *)
StoreEvent(s, n) ==
  /\ \E at \in 0..EvMaxTime :
       \/ /\ evBackend = "memory"
          /\ MemStore(s, n, at)
          /\ UNCHANGED evQueue
       \/ /\ evBackend = "sqlite" /\ Len(evQueue) < EvMaxQueue
          /\ evQueue' = Append(evQueue, [kind |-> "store", stream |-> s, seq |-> n, at |-> at])
          /\ UNCHANGED <<memStreams, memOrder>>
  /\ UNCHANGED <<evBackend, evTtl, evClock, dbStreams, dbEvents, dbRecorded>>

Record(s) ==
  /\ evSent[s] <= EvMaxSeq
  /\ StoreEvent(s, evSent[s])
  /\ evSent' = [evSent EXCEPT ![s] = @ + 1]
  /\ evResumed' = IF evResumed[s] = evSent[s] THEN [evResumed EXCEPT ![s] = @ + 1] ELSE evResumed

(* A client resumes after an event it has seen, or stops doing so. *)
Resume(s, n) ==
  /\ n \in 0..evSent[s] /\ n # evResumed[s]
  /\ evResumed' = [evResumed EXCEPT ![s] = n]
  /\ UNCHANGED <<evBackend, evTtl, evClock, evSent, memStreams, memOrder, evQueue, dbStreams, dbEvents, dbRecorded>>

RecordAgain(s) ==
  /\ evResumed[s] < evSent[s]
  /\ StoreEvent(s, evResumed[s])
  /\ evResumed' = [evResumed EXCEPT ![s] = @ + 1]
  /\ UNCHANGED evSent

(* EventStore::replay_after prunes before it reads. *)
ReplayAfter ==
  /\ \/ /\ evBackend = "memory"
        /\ MemPruned(memStreams, memOrder)
        /\ UNCHANGED evQueue
     \/ /\ evBackend = "sqlite" /\ Len(evQueue) < EvMaxQueue
        /\ evQueue' = Append(evQueue, [kind |-> "replay"])
        /\ UNCHANGED <<memStreams, memOrder>>
  /\ UNCHANGED <<evBackend, evTtl, evClock, evSent, evResumed, dbStreams, dbEvents, dbRecorded>>

(* The wall clock advances, or is set forward or back. *)
EvClockSet ==
  /\ evClock' \in (0..EvMaxTime) \ {evClock}
  /\ UNCHANGED <<evBackend, evTtl, evSent, evResumed, memStreams, memOrder, evQueue, dbStreams, dbEvents, dbRecorded>>

EvNext ==
  \/ \E s \in EvStreams : Record(s) \/ RecordAgain(s) \/ \E n \in 0..EvMaxSeq : Resume(s, n)
  \/ ReplayAfter \/ WorkerRuns \/ WorkerFails \/ EvClockSet

EvSpec == EvInit /\ [][EvNext]_evVars

-----------------------------------------------------------------------------
(* Properties *)

(* What a client can still replay from SQLite, without a TTL: exactly the  *)
(* newest max_events of the events recorded for a stream since it was      *)
(* entered, or all of the first max_events + 1, whatever a resumed stream  *)
(* records again, in any order, next to the original one.  With            *)
(* max_events = 0 that is nothing once event 1 is recorded, but event 0    *)
(* recorded again stays: the cutoff it leads to is not positive.           *)
SqliteKeepsWindow ==
  evTtl = EvNever =>
    \A s \in DOMAIN dbStreams :
      LET top == Max(dbRecorded[s])
      IN  \/ DbSeqs(dbEvents, s) = {n \in dbRecorded[s] : n > top - EvMaxEvents \/ top <= EvMaxEvents}
          \/ EvMaxEvents = 0 /\ 0 \in dbRecorded[s] /\ DbSeqs(dbEvents, s) = {0}

(* The most events a stream in memory can hold. *)
MemKeeps == IF EvMaxEvents = 0 THEN 1 ELSE EvMaxEvents

(* The memory store's two structures agree after every store, eviction and *)
(* expiry, with the wall clock set forward or back at any time: the        *)
(* eviction order lists each retained stream once and no other, within     *)
(* max_streams, and every retained stream holds 1 to max_events events (1  *)
(* when max_events is 0).  A stream left in the order alone would count    *)
(* against max_streams until a store touches it.                           *)
MemoryIsIndexed ==
  /\ IsInjective(memOrder) /\ ToSet(memOrder) = DOMAIN memStreams
  /\ Len(memOrder) <= EvMaxStreams
  /\ \A s \in DOMAIN memStreams : Len(memStreams[s]) \in 1..MemKeeps

=============================================================================
