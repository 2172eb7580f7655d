----------------------------- MODULE Scratchpad -----------------------------
(***************************************************************************)
(* ScratchpadSessionManager (crates/mcp-toolkit-scratchpad/src/            *)
(* scratchpad.rs): DuckDB-backed sessions with a TTL and quotas on         *)
(* sessions, tables and rows.                                              *)
(*                                                                         *)
(* The entries are behind one mutex; every method prunes the expired ones  *)
(* under it.  The database files of the pruned sessions are removed after  *)
(* the unlock, and the SQL runs on connections the mutex does not cover.   *)
(* A method that leaves by `?` while it holds pruned paths drops them: the *)
(* files stay.  A session's path depends on its id only, so a session      *)
(* opened again under that id finds such a file.                           *)
(***************************************************************************)
EXTENDS Integers, FiniteSets, Functions

CONSTANTS Pads,          \* session ids
          PadCallers,    \* threads that call the manager
          PadTables,     \* table names
          PadBatches,    \* row counts of an ingest
          PadMaxRows,    \* max_rows_per_session
          PadTtl,        \* session_ttl, in ticks
          PadMaxFile,    \* rows of a table (bound: a file that outlives its session grows on)
          PadSessionLimits,  \* values set_max_sessions_limit is called with
          PadTableLimits,    \* and set_max_tables_per_session_limit
          PadRemoveFails,    \* whether remove_file may fail on a file that is there
          NoPad, NoTable, NoFile

ASSUME PadAssumption ==
  /\ NoPad \notin Pads /\ NoTable \notin PadTables
  /\ PadBatches \subseteq Nat /\ PadRemoveFails \in BOOLEAN
  /\ PadSessionLimits \cup PadTableLimits \subseteq Nat \ {0}
  /\ {PadMaxRows, PadMaxFile} \subseteq Nat /\ PadTtl \in Nat \ {0}
  /\ IsFiniteSet(PadCallers) /\ IsFiniteSet(PadTables)
  /\ \A T \in SUBSET PadTables : NoFile \notin [T -> Nat]

VARIABLES
  padLimit,    \* runtime_max_sessions, runtime_max_tables_per_session
  padLive,     \* keys of SessionState::sessions
  padAge,      \* ticks since last_touched, up to the TTL
  padUsed,     \* tables_used and rows_used of a live session
  padFile,     \* the database file of a session: the rows of its tables, or NoFile
  padCalls,    \* each caller's progress
  padAstray    \* history: live sessions whose usage no longer speaks for their file

padVars == <<padLimit, padLive, padAge, padUsed, padFile, padCalls, padAstray>>

NoUsage == [tables |-> 0, rows |-> 0]

PadIdle == [pc |-> "idle", then |-> "idle", sid |-> NoPad, table |-> NoTable,
            create |-> FALSE, rows |-> 0, paths |-> {}, conn |-> "none"]

PadInit ==
  /\ padLimit \in [sessions : PadSessionLimits, tables : PadTableLimits]
  /\ padLive = {} /\ padAstray = {}
  /\ padAge = [s \in Pads |-> 0]
  /\ padUsed = [s \in Pads |-> NoUsage]
  /\ padFile = [s \in Pads |-> NoFile]
  /\ padCalls = [c \in PadCallers |-> PadIdle]

PadAt(c, place) == padCalls[c].pc = place
PadBecome(c, call) == padCalls' = [padCalls EXCEPT ![c] = call]
PadReturn(c) == PadBecome(c, PadIdle)

SatSub(a, b) == IF a > b THEN a - b ELSE 0

-----------------------------------------------------------------------------
(* Entries *)

PadExpired == {s \in padLive : padAge[s] >= PadTtl}
PadKept == padLive \ PadExpired

(* prune_expired_locked, then the entries L with the sessions T touched    *)
(* and the usage u.                                                        *)
PadEntries(L, T, u) ==
  /\ padLive' = L
  /\ padAge' = [s \in Pads |-> IF s \in L \ T THEN padAge[s] ELSE 0]
  /\ padUsed' = [s \in Pads |-> IF s \in L THEN u[s] ELSE NoUsage]

(* What is left of the mutex section: remove the pruned files, then go on. *)
PadUnlock(c, call, then) ==
  PadBecome(c, IF PadExpired = {}
                 THEN [call EXCEPT !.pc = then]
                 ELSE [call EXCEPT !.pc = "cleanup", !.then = then, !.paths = PadExpired])

(* Calls that hold numbers or a connection of a session they looked up. *)
PadStraddles(c, s) ==
  padCalls[c].sid = s /\ {padCalls[c].pc, padCalls[c].then} \cap {"persist", "rollback", "drop", "note"} # {}

(* A session is entered afresh; it inherits a file that outlived it and    *)
(* the late effects of calls on its predecessor.                           *)
PadEnters(c, s) ==
  padAstray' = (padAstray \cap PadKept) \cup
    {r \in {s} \ PadKept : padFile[r] # NoFile \/ \E d \in PadCallers \ {c} : PadStraddles(d, r)}

(* Or none is. *)
PadEntersNone == padAstray' = padAstray \cap padLive'

(* session_entry_mut finds no place for a new session. *)
PadFull(s) == s \notin PadKept /\ Cardinality(PadKept) >= padLimit.sessions

(* Its `?` leaves the method: the session is pruned, its file is not. *)
PadRefused(c, s) ==
  /\ PadFull(s)
  /\ PadEntries(PadKept, {}, padUsed)
  /\ PadReturn(c)
  /\ PadEntersNone /\ UNCHANGED <<padLimit, padFile>>

-----------------------------------------------------------------------------
(* open_connection, and open_session, which goes on to session_info *)

PadOpen(c, s, info) ==
  /\ PadAt(c, "idle")
  /\ \/ PadRefused(c, s)
     \/ /\ ~PadFull(s)
        /\ PadEntries(PadKept \cup {s}, {s}, [padUsed EXCEPT ![s] = IF s \in PadKept THEN @ ELSE NoUsage])
        /\ PadEnters(c, s)
        /\ PadUnlock(c, [PadIdle EXCEPT !.sid = s, !.conn = IF info THEN "info" ELSE "none"], "connect")
        /\ UNCHANGED <<padLimit, padFile>>

(* DuckDB creates the file of a path that has none. *)
PadOpened(s) == IF padFile[s] = NoFile THEN [padFile EXCEPT ![s] = <<>>] ELSE padFile

(* The call is about to end with session_info or session_snapshot. *)
PadInfoOf(s) == [PadIdle EXCEPT !.pc = "info", !.sid = s]

PadConnect(c) ==
  /\ PadAt(c, "connect")
  /\ \/ /\ padFile' = PadOpened(padCalls[c].sid)
        /\ IF padCalls[c].conn = "info" THEN PadBecome(c, PadInfoOf(padCalls[c].sid)) ELSE PadReturn(c)
     \/ PadReturn(c) /\ UNCHANGED padFile
  /\ UNCHANGED <<padLimit, padLive, padAge, padUsed, padAstray>>

-----------------------------------------------------------------------------
(* The methods that only prune and touch: session_info, session_snapshot   *)
(* (T = {s}), list_sessions (T = all), active_session_count and            *)
(* cleanup_expired (T = {}).                                               *)

PadTouch(c, T) ==
  /\ PadEntries(PadKept, T, padUsed)
  /\ PadUnlock(c, PadIdle, "idle")
  /\ PadEntersNone /\ UNCHANGED <<padLimit, padFile>>

PadInspect(c, T) == PadAt(c, "idle") /\ PadTouch(c, T)

(* The end of open_session, and of a drop_table that found no table. *)
PadInfo(c) == PadAt(c, "info") /\ PadTouch(c, {padCalls[c].sid})

(* release_session; its own file is removed after the pruned ones. *)
PadRelease(c, s) ==
  /\ PadAt(c, "idle")
  /\ PadEntries(PadKept \ {s}, {}, padUsed)
  /\ PadBecome(c, [PadIdle EXCEPT !.pc = "cleanup", !.paths = PadExpired \cup ({s} \cap PadKept)])
  /\ PadEntersNone /\ UNCHANGED <<padLimit, padFile>>

(* Connections on a removed file keep reading and writing the old inode. *)
PadOrphaned(calls, s) ==
  [c \in PadCallers |-> IF calls[c].sid = s /\ calls[c].conn \in {"live", "stale"}
                          THEN [calls[c] EXCEPT !.conn = "orphan"] ELSE calls[c]]

(* cleanup_paths: one remove_file.  A file that is not there is no error. *)
PadCleanup(c, s) ==
  /\ PadAt(c, "cleanup") /\ s \in padCalls[c].paths
  /\ padFile' = [padFile EXCEPT ![s] = NoFile]
  /\ padCalls' = PadOrphaned([padCalls EXCEPT ![c].paths = @ \ {s}], s)
  /\ UNCHANGED <<padLimit, padLive, padAge, padUsed, padAstray>>

(* It fails: the method logs it and goes on, and the file stays. *)
PadCleanupFails(c, s) ==
  /\ PadRemoveFails
  /\ PadAt(c, "cleanup") /\ s \in padCalls[c].paths /\ padFile[s] # NoFile
  /\ padCalls' = [padCalls EXCEPT ![c].paths = @ \ {s}]
  /\ UNCHANGED <<padLimit, padLive, padAge, padUsed, padFile, padAstray>>

PadCleaned(c) ==
  /\ PadAt(c, "cleanup") /\ padCalls[c].paths = {}
  /\ IF padCalls[c].then = "idle" THEN PadReturn(c)
     ELSE PadBecome(c, [padCalls[c] EXCEPT !.pc = padCalls[c].then, !.then = "idle"])
  /\ UNCHANGED <<padLimit, padLive, padAge, padUsed, padFile, padAstray>>

-----------------------------------------------------------------------------
(* note_table_created and note_rows_ingested, for callers that write       *)
(* through open_connection themselves.                                     *)

PadFits(s, tables, rows) ==
  LET used == IF s \in PadKept THEN padUsed[s] ELSE NoUsage
  IN  /\ tables > 0 => used.tables < padLimit.tables
      /\ used.rows + rows <= PadMaxRows

PadPlus(s, tables, rows) ==
  LET used == IF s \in PadKept THEN padUsed[s] ELSE NoUsage
  IN  [padUsed EXCEPT ![s] = [tables |-> used.tables + tables, rows |-> used.rows + rows]]

PadNote(c, s, tables, rows) ==
  /\ PadAt(c, "idle")
  /\ \/ PadRefused(c, s)
     \/ /\ ~PadFull(s)
        /\ IF PadFits(s, tables, rows)
             THEN PadEntries(PadKept \cup {s}, {s}, PadPlus(s, tables, rows))
             ELSE PadEntries(PadKept \cup {s}, {s} \ PadKept, PadPlus(s, 0, 0))
        /\ PadEnters(c, s)
        /\ PadUnlock(c, PadIdle, "idle")
        /\ UNCHANGED <<padLimit, padFile>>

-----------------------------------------------------------------------------
(* ingest_rows_with_mode *)

(* reserve_ingest_capacity *)
Reserve(c, s, t, n, create) ==
  /\ PadAt(c, "idle") /\ s \in PadKept
  /\ PadFits(s, IF create THEN 1 ELSE 0, n)
  /\ PadEntries(PadKept, {s}, PadPlus(s, IF create THEN 1 ELSE 0, n))
  /\ PadUnlock(c, [PadIdle EXCEPT !.sid = s, !.table = t, !.create = create, !.rows = n], "persist")
  /\ PadEntersNone /\ UNCHANGED <<padLimit, padFile>>

ReserveBreach(c, s, n, create) ==
  /\ PadAt(c, "idle") /\ s \in PadKept
  /\ ~PadFits(s, IF create THEN 1 ELSE 0, n)
  /\ PadEntries(PadKept, {}, padUsed)
  /\ PadUnlock(c, PadIdle, "idle")
  /\ PadEntersNone /\ UNCHANGED <<padLimit, padFile>>

(* The session is unknown, perhaps because this very call pruned it: the   *)
(* pruned paths go with the `?`.                                           *)
ReserveUnknown(c, s) ==
  /\ PadAt(c, "idle") /\ s \notin PadKept
  /\ PadEntries(PadKept, {}, padUsed)
  /\ PadReturn(c)
  /\ PadEntersNone /\ UNCHANGED <<padLimit, padFile>>

PadWith(s, t, n) ==
  LET f == PadOpened(s)
  IN  [f EXCEPT ![s] = [u \in DOMAIN f[s] \cup {t} |-> IF u # t THEN f[s][u] ELSE IF t \in DOMAIN f[s] THEN f[s][t] + n ELSE n]]

(* persist_ingest_table: one transaction.  CREATE TABLE refuses a table    *)
(* that exists, an append one that does not.                               *)
Persist(c) ==
  /\ PadAt(c, "persist")
  /\ LET call == padCalls[c]
     IN  /\ call.create <=> call.table \notin DOMAIN PadOpened(call.sid)[call.sid]
         /\ padFile' = PadWith(call.sid, call.table, call.rows)
         /\ padFile'[call.sid][call.table] <= PadMaxFile
  /\ PadReturn(c)
  /\ UNCHANGED <<padLimit, padLive, padAge, padUsed, padAstray>>

(* Or it fails, before or after the file was opened. *)
PersistFails(c) ==
  /\ PadAt(c, "persist")
  /\ padFile' \in {padFile, PadOpened(padCalls[c].sid)}
  /\ PadBecome(c, [padCalls[c] EXCEPT !.pc = "rollback"])
  /\ UNCHANGED <<padLimit, padLive, padAge, padUsed, padAstray>>

(* Mutant: a failed append gives a table back as well. *)
RollbackAnyMode(c) ==
  /\ PadAt(c, "rollback")
  /\ LET call == padCalls[c]
         used == [padUsed EXCEPT ![call.sid] = [tables |-> SatSub(@.tables, 1), rows |-> SatSub(@.rows, call.rows)]]
     IN  PadEntries(PadKept, {call.sid}, used)
  /\ PadUnlock(c, PadIdle, "idle")
  /\ PadEntersNone /\ UNCHANGED <<padLimit, padFile>>

(* rollback_ingest_capacity: whatever session has the id now. *)
Rollback(c) ==
  /\ PadAt(c, "rollback")
  /\ LET call == padCalls[c]
         used == [padUsed EXCEPT ![call.sid] =
                    [tables |-> IF call.create THEN SatSub(@.tables, 1) ELSE @.tables,
                     rows   |-> SatSub(@.rows, call.rows)]]
     IN  PadEntries(PadKept, {call.sid}, used)
  /\ PadUnlock(c, PadIdle, "idle")
  /\ PadEntersNone /\ UNCHANGED <<padLimit, padFile>>

-----------------------------------------------------------------------------
(* drop_table: existing_session_db_path, then on a connection table_exists *)
(* and table_row_count, then DROP TABLE, then note_table_dropped.          *)

DropLookup(c, s, t) ==
  /\ PadAt(c, "idle")
  /\ PadEntries(PadKept, {s}, padUsed)
  /\ IF s \in PadKept THEN PadUnlock(c, [PadIdle EXCEPT !.sid = s, !.table = t], "count")
                      ELSE PadUnlock(c, PadIdle, "idle")
  /\ PadEntersNone /\ UNCHANGED <<padLimit, padFile>>

DropCount(c) ==
  /\ PadAt(c, "count")
  /\ LET call == padCalls[c]
         file == PadOpened(call.sid)[call.sid]
     IN  /\ padFile' = PadOpened(call.sid)
         /\ \/ /\ call.table \in DOMAIN file
               /\ PadBecome(c, [call EXCEPT !.pc = "drop", !.rows = file[call.table], !.conn = "live"])
            \/ /\ call.table \notin DOMAIN file   \* if_exists: session_snapshot
               /\ PadBecome(c, PadInfoOf(call.sid))
            \/ PadReturn(c)                       \* no such table, or DuckDB fails
  /\ UNCHANGED <<padLimit, padLive, padAge, padUsed, padAstray>>

(* Another call's connection on the same table now looks at another table. *)
PadStale(calls, s, t) ==
  [c \in PadCallers |-> IF calls[c].sid = s /\ calls[c].table = t /\ calls[c].conn = "live"
                          THEN [calls[c] EXCEPT !.conn = "stale"] ELSE calls[c]]

Drop(c) ==
  /\ PadAt(c, "drop")
  /\ LET call == padCalls[c]
         gone == [padCalls EXCEPT ![c] = [call EXCEPT !.pc = "note", !.conn = "none"]]
     IN  /\ IF call.conn = "orphan"
              THEN padCalls' = gone /\ UNCHANGED padFile
              ELSE /\ call.table \in DOMAIN padFile[call.sid]
                   /\ padFile' = [padFile EXCEPT ![call.sid] = Restrict(@, DOMAIN @ \ {call.table})]
                   /\ padCalls' = PadStale(gone, call.sid, call.table)
         /\ padAstray' = IF call.conn = "live" THEN padAstray ELSE padAstray \cup ({call.sid} \cap padLive)
  /\ UNCHANGED <<padLimit, padLive, padAge, padUsed>>

DropFails(c) ==
  /\ PadAt(c, "drop")
  /\ PadReturn(c)
  /\ UNCHANGED <<padLimit, padLive, padAge, padUsed, padFile, padAstray>>

NoteDropped(c) ==
  /\ PadAt(c, "note")
  /\ LET call == padCalls[c]
         s    == call.sid
         used == IF s \in PadKept THEN padUsed[s] ELSE NoUsage
     IN  \/ PadRefused(c, s)
         \/ /\ ~PadFull(s)
            /\ PadEntries(PadKept \cup {s}, {s},
                 [padUsed EXCEPT ![s] = [tables |-> SatSub(used.tables, 1), rows |-> SatSub(used.rows, call.rows)]])
            /\ PadEnters(c, s)
            /\ PadUnlock(c, PadIdle, "idle")
            /\ UNCHANGED <<padLimit, padFile>>

-----------------------------------------------------------------------------
(* set_max_sessions_limit, set_max_tables_per_session_limit *)
SetLimit(limits) ==
  /\ padLimit' = limits /\ padLimit' # padLimit
  /\ UNCHANGED <<padLive, padAge, padUsed, padFile, padCalls, padAstray>>

PadTick ==
  /\ padLive \ PadExpired # {}
  /\ padAge' = [s \in Pads |-> IF s \in padLive /\ padAge[s] < PadTtl THEN padAge[s] + 1 ELSE padAge[s]]
  /\ UNCHANGED <<padLimit, padLive, padUsed, padFile, padCalls, padAstray>>

PadCall(c) ==
  \/ \E s \in Pads : \/ \E info \in BOOLEAN : PadOpen(c, s, info)
                     \/ PadRelease(c, s) \/ ReserveUnknown(c, s)
                     \/ PadNote(c, s, 1, 0) \/ \E n \in PadBatches : PadNote(c, s, 0, n)
                     \/ \E t \in PadTables : DropLookup(c, s, t)
                     \/ \E n \in PadBatches, create \in BOOLEAN :
                          \/ ReserveBreach(c, s, n, create)
                          \/ \E t \in PadTables : Reserve(c, s, t, n, create)
  \/ \E T \in {{}, Pads} \cup {{s} : s \in Pads} : PadInspect(c, T)

PadStep(c) ==
  \/ PadConnect(c) \/ PadInfo(c) \/ (\E s \in Pads : PadCleanup(c, s) \/ PadCleanupFails(c, s)) \/ PadCleaned(c)
  \/ Persist(c) \/ PersistFails(c) \/ Rollback(c)
  \/ DropCount(c) \/ Drop(c) \/ DropFails(c) \/ NoteDropped(c)

PadNext ==
  \/ \E c \in PadCallers : PadCall(c) \/ PadStep(c)
  \/ \E limits \in [sessions : PadSessionLimits, tables : PadTableLimits] : SetLimit(limits)
  \/ PadTick

PadSpec == PadInit /\ [][PadNext]_padVars

-----------------------------------------------------------------------------
(* Properties *)

(* The rows of the file, each named by its table and number. *)
PadRowsIn(s) == UNION {{t} \X (1..padFile[s][t]) : t \in DOMAIN padFile[s]}

(* The quota speaks for the file: unless a file outlived its session, a    *)
(* call outlived the session it looked up, or a drop met a table recreated *)
(* or a file removed since it counted, a live session's file holds no more *)
(* tables and rows than are charged to it, whatever ingests fail, expire   *)
(* and overlap with drops.                                                 *)
QuotaCoversData ==
  \A s \in padLive \ padAstray :
    padFile[s] # NoFile =>
      /\ Cardinality(DOMAIN padFile[s]) <= padUsed[s].tables
      /\ Cardinality(PadRowsIn(s)) <= padUsed[s].rows

(* "Clean up local session databases on explicit close and expired-session *)
(* prune" (docs/scratchpad.md): with no call under way, every database     *)
(* file belongs to a session.                                              *)
NoFileOutlivesSession ==
  (\A c \in PadCallers : padCalls[c] = PadIdle) =>
    \A s \in Pads : padFile[s] # NoFile => s \in padLive

=============================================================================
