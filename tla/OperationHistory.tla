--------------------------- MODULE OperationHistory ---------------------------
(***************************************************************************)
(* OperationHistory (crates/mcp-toolkit-tasks/src/history.rs), a reader of *)
(* a TaskAuthority.                                                        *)
(*                                                                         *)
(* record reads the authority, which has its own lock, and then inserts    *)
(* the summary under the history's mutex: the task may change in between,  *)
(* and so may the history.  The authority is TaskAuthority's module; here  *)
(* it is a task's revision and whether its state is terminal.  get and     *)
(* list change nothing: they return entries for which IsVisible holds.     *)
(***************************************************************************)
EXTENDS Integers, Sequences, FiniteSets, SequencesExt, FiniteSetsExt, Functions, Retain

CONSTANTS HistPrincipals, HistTasks,
          HistWriters,      \* threads that call record
          HistMaxEntries,   \* HistoryLimits::max_entries
          HistMaxAge,       \* HistoryLimits::max_terminal_age, in ticks
          HistMaxRevision,  \* revisions of a task (bound)
          HistMaxTime,      \* the last tick (bound)
          NoSummary, NoInstant

ASSUME HistAssumption ==
  /\ {HistMaxEntries, HistMaxAge, HistMaxRevision, HistMaxTime} \subseteq Nat
  /\ NoInstant \notin Nat

VARIABLES
  histTasks,       \* the authority: each task's owner, revision and state
  histPartitions,  \* OperationHistory::partitions
  histWriters,     \* the summary a record in progress has read, or NoSummary
  histClock

histVars == <<histTasks, histPartitions, histWriters, histClock>>

HistInit ==
  /\ histTasks \in [HistTasks -> [owner : HistPrincipals, revision : {0}, terminal : {FALSE}]]
  /\ histPartitions = <<>>
  /\ histWriters = [w \in HistWriters |-> NoSummary]
  /\ histClock = 0

-----------------------------------------------------------------------------
(* The authority observes a newer revision of a task that is not terminal. *)
HistAdvance(t, terminal) ==
  /\ ~histTasks[t].terminal /\ histTasks[t].revision < HistMaxRevision
  /\ histTasks' = [histTasks EXCEPT ![t] = [owner |-> @.owner, revision |-> @.revision + 1, terminal |-> terminal]]
  /\ UNCHANGED <<histPartitions, histWriters, histClock>>

(* record, up to the insert.  A task the principal does not own, a status  *)
(* or a field out of bounds ends it with an error and no effect.           *)
RecordReads(w, p, t) ==
  /\ histWriters[w] = NoSummary
  /\ histTasks[t].owner = p
  /\ histWriters' = [histWriters EXCEPT ![w] =
       [partition |-> p, id |-> t, revision |-> histTasks[t].revision, terminal |-> histTasks[t].terminal]]
  /\ UNCHANGED <<histTasks, histPartitions, histClock>>

IsVisible(item) == item.at = NoInstant \/ histClock - item.at < HistMaxAge

(* prune_expired, which leaves no empty partition. *)
NonEmpty(partitions) == Restrict(partitions, {p \in DOMAIN partitions : partitions[p] # <<>>})
PruneExpired ==
  NonEmpty([p \in DOMAIN histPartitions |->
              Retain(histPartitions[p], {item \in ToSet(histPartitions[p]) : IsVisible(item)})])

ItemsOf(partitions, p) == IF p \in DOMAIN partitions THEN partitions[p] ELSE <<>>

(* Where the entries are; total_entries adds up the partitions' lengths. *)
Places(partitions) == UNION {{<<p, i>> : i \in DOMAIN partitions[p]} : p \in DOMAIN partitions}
TotalEntries(partitions) == Cardinality(Places(partitions))

StoredItem(summary, at) ==
  [id |-> summary.id, revision |-> summary.revision, terminal |-> summary.terminal, at |-> at]

Pushed(partitions, p, item) ==
  [q \in DOMAIN partitions \cup {p} |-> IF q = p THEN Append(ItemsOf(partitions, p), item) ELSE partitions[q]]

(* The summary of a task the partition has already goes to its back, and   *)
(* keeps the instant it was first seen terminal.                           *)
Replaced(partitions, summary, i) ==
  LET p  == summary.partition
      at == partitions[p][i].at
  IN  Pushed([partitions EXCEPT ![p] = RemoveAt(@, i)], p,
        StoredItem(summary, IF ~summary.terminal THEN NoInstant
                            ELSE IF at # NoInstant THEN at ELSE histClock))

(* Mutant: the longest kept entry goes, live or not. *)
OldestEntry(partitions) == {<<p, 1>> : p \in DOMAIN partitions}

(* Positions of the terminal entries that have been so the longest; the    *)
(* HashMap decides among equals.                                           *)
OldestTerminal(partitions) ==
  LET At(place) == partitions[place[1]][place[2]].at
      terminal  == {place \in Places(partitions) : At(place) # NoInstant}
  IN  {place \in terminal : \A other \in terminal : At(place) <= At(other)}

EvictedAt(partitions, place) == NonEmpty([partitions EXCEPT ![place[1]] = RemoveAt(@, place[2])])

(* Mutant: room is made only when the limit has been passed. *)
EvictionsLate(partitions) ==
  IF TotalEntries(partitions) <= HistMaxEntries THEN {partitions}
  ELSE {EvictedAt(partitions, place) : place \in OldestTerminal(partitions)}

(* What the history may be once there is room for an entry; nothing when   *)
(* every entry is live: CapacityFull.                                      *)
Evictions(partitions) ==
  IF TotalEntries(partitions) < HistMaxEntries THEN {partitions}
  ELSE {EvictedAt(partitions, place) : place \in OldestTerminal(partitions)}

(* insert *)
RecordInserts(w) ==
  /\ histWriters[w] # NoSummary
  /\ LET summary == histWriters[w]
         p       == summary.partition
         items   == ItemsOf(PruneExpired, p)
         found   == {i \in DOMAIN items : items[i].id = summary.id}
         room    == Evictions(PruneExpired)
     IN  \/ /\ found # {}
            /\ histPartitions' = Replaced(PruneExpired, summary, Min(found))
         \/ /\ found = {}
            /\ \E partitions \in room :
                 histPartitions' = Pushed(partitions, p, StoredItem(summary, IF summary.terminal THEN histClock ELSE NoInstant))
         \/ /\ found = {} /\ room = {}
            /\ histPartitions' = PruneExpired
  /\ histWriters' = [histWriters EXCEPT ![w] = NoSummary]
  /\ UNCHANGED <<histTasks, histClock>>

HistTick ==
  /\ histClock < HistMaxTime
  /\ histClock' = histClock + 1
  /\ UNCHANGED <<histTasks, histPartitions, histWriters>>

HistNext ==
  \/ \E t \in HistTasks, terminal \in BOOLEAN : HistAdvance(t, terminal)
  \/ \E w \in HistWriters : RecordInserts(w) \/ \E p \in HistPrincipals, t \in HistTasks : RecordReads(w, p, t)
  \/ HistTick

HistSpec == HistInit /\ [][HistNext]_histVars

-----------------------------------------------------------------------------
(* Properties *)

(* The history is one bounded table however records, evictions and expiry  *)
(* interleave: within max_entries over all principals, at most one entry   *)
(* per task and that one with its owner, and an entry may be evicted or    *)
(* expire exactly when its stored state is terminal.                       *)
HistoryIsBounded ==
  /\ TotalEntries(histPartitions) <= HistMaxEntries
  /\ \A p \in DOMAIN histPartitions :
       /\ histPartitions[p] # <<>>
       /\ \A i, j \in DOMAIN histPartitions[p] : histPartitions[p][i].id = histPartitions[p][j].id => i = j
       /\ \A i \in DOMAIN histPartitions[p] :
            /\ histTasks[histPartitions[p][i].id].owner = p
            /\ histPartitions[p][i].terminal <=> histPartitions[p][i].at # NoInstant

(* Room is made at the expense of finished work only: whatever other       *)
(* principals record, an entry that is not terminal leaves the history by  *)
(* no step, and is changed only by a record of its own task.               *)
LiveEntriesStay ==
  [][\A p \in DOMAIN histPartitions : \A item \in ToSet(histPartitions[p]) :
       ~item.terminal =>
         \E kept \in ToSet(ItemsOf(histPartitions', p)) :
           /\ kept.id = item.id
           /\ kept = item \/ \E w \in HistWriters : histWriters[w] # NoSummary /\ histWriters[w].id = item.id
    ]_histVars

===============================================================================
