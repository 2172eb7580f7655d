---------------------------- MODULE GuardedQuery ----------------------------
(***************************************************************************)
(* run_guarded and spawn_interrupt_watcher (crates/mcp-toolkit-scratchpad/ *)
(* src/scratchpad.rs): the caller runs its statements on a connection      *)
(* while a watcher thread polls the cancel token and the timeout and       *)
(* interrupts the connection.  The watcher loads the stop flag, then       *)
(* decides: its interrupt may come after the last statement returned.      *)
(***************************************************************************)
EXTENDS Integers

CONSTANTS QueryTimeouts,     \* ScratchpadExecutionHooks::timeout; 0 is none
          QueryStatements,   \* statements the closure executes
          QueryMaxTime       \* the clock's last tick (bound)

ASSUME QueryAssumption ==
  QueryTimeouts \subseteq Nat /\ QueryStatements \in Nat \ {0} /\ QueryMaxTime \in Nat

VARIABLES
  qHooks,      \* timeout, and whether there is a cancel token
  qClock,
  qCancelled,  \* the cancel token
  qCaller,     \* the calling thread: place, start, statements left, result
  qStop,       \* stop_flag
  qWatcher,    \* the watcher thread: place, start, InterruptReason
  qInterrupt,  \* interrupts delivered to the connection
  qOutcome     \* what run_guarded returned

qVars == <<qHooks, qClock, qCancelled, qCaller, qStop, qWatcher, qInterrupt, qOutcome>>

QueryInit ==
  /\ qHooks \in [timeout : QueryTimeouts, token : BOOLEAN]
  /\ qClock = 0 /\ qCancelled = FALSE
  /\ qCaller = [pc |-> "begin", start |-> 0, left |-> QueryStatements, result |-> "none"]
  /\ qStop = FALSE
  /\ qWatcher = [pc |-> "none", start |-> 0, reason |-> "none"]
  /\ qInterrupt = FALSE /\ qOutcome = "none"

QueryReturns(outcome) ==
  /\ qOutcome' = outcome
  /\ qCaller' = [qCaller EXCEPT !.pc = "done"]

(* The SQL was accepted; a cancelled token ends the call before it opens   *)
(* the connection, which may fail.                                         *)
QueryBegins ==
  /\ qCaller.pc = "begin"
  /\ \/ /\ qCancelled
        /\ QueryReturns("cancelled")
        /\ UNCHANGED qWatcher
     \/ ~qCancelled /\ QueryReturns("error") /\ UNCHANGED qWatcher
     \/ /\ ~qCancelled
        /\ qCaller' = [qCaller EXCEPT !.pc = "execute", !.start = qClock]
        /\ qWatcher' = IF qHooks.timeout > 0 \/ qHooks.token
                         THEN [qWatcher EXCEPT !.pc = "spawned"] ELSE qWatcher
        /\ UNCHANGED qOutcome
  /\ UNCHANGED <<qHooks, qClock, qCancelled, qStop, qInterrupt>>

(* A statement ends; an interrupted one may end in an error, and so may    *)
(* any other.                                                              *)
StatementEnds ==
  /\ qCaller.pc = "execute"
  /\ \/ qCaller' = [qCaller EXCEPT !.pc = "stop", !.result = "error"]
     \/ qCaller' = IF qCaller.left > 1 THEN [qCaller EXCEPT !.left = @ - 1]
                                       ELSE [qCaller EXCEPT !.pc = "stop", !.result = "ok"]
  /\ UNCHANGED <<qHooks, qClock, qCancelled, qStop, qWatcher, qInterrupt, qOutcome>>

CallerStops ==
  /\ qCaller.pc = "stop"
  /\ qStop' = TRUE
  /\ qCaller' = [qCaller EXCEPT !.pc = "join"]
  /\ UNCHANGED <<qHooks, qClock, qCancelled, qWatcher, qInterrupt, qOutcome>>

CallerElapsed == qClock - qCaller.start

(* Mutant: a result is returned whatever the watcher reports. *)
CallerJoinsResultFirst ==
  /\ qCaller.pc = "join" /\ qWatcher.pc \in {"none", "exited"}
  /\ QueryReturns(IF qCaller.result = "ok" THEN "ok"
                  ELSE IF qWatcher.reason # "none" THEN qWatcher.reason
                  ELSE IF qHooks.timeout > 0 /\ CallerElapsed > qHooks.timeout THEN "timeout"
                  ELSE qCaller.result)
  /\ UNCHANGED <<qHooks, qClock, qCancelled, qStop, qWatcher, qInterrupt>>

(* The watcher's reason wins, then the time the call took. *)
CallerJoins ==
  /\ qCaller.pc = "join" /\ qWatcher.pc \in {"none", "exited"}
  /\ QueryReturns(IF qWatcher.reason # "none" THEN qWatcher.reason
                  ELSE IF qHooks.timeout > 0 /\ CallerElapsed > qHooks.timeout THEN "timeout"
                  ELSE qCaller.result)
  /\ UNCHANGED <<qHooks, qClock, qCancelled, qStop, qWatcher, qInterrupt>>

-----------------------------------------------------------------------------
WatcherStarts ==
  /\ qWatcher.pc = "spawned"
  /\ qWatcher' = [qWatcher EXCEPT !.pc = "poll", !.start = qClock]
  /\ UNCHANGED <<qHooks, qClock, qCancelled, qCaller, qStop, qInterrupt, qOutcome>>

WatcherLoadsStop ==
  /\ qWatcher.pc = "poll"
  /\ qWatcher' = [qWatcher EXCEPT !.pc = IF qStop THEN "exited" ELSE "decide"]
  /\ UNCHANGED <<qHooks, qClock, qCancelled, qCaller, qStop, qInterrupt, qOutcome>>

WatcherElapsed == qClock - qWatcher.start

(* Interrupt, for one of two reasons, or sleep for an interval. *)
WatcherDecides ==
  /\ qWatcher.pc = "decide"
  /\ LET reason == IF qHooks.token /\ qCancelled THEN "cancelled"
                   ELSE IF qHooks.timeout > 0 /\ WatcherElapsed >= qHooks.timeout THEN "timeout"
                   ELSE "none"
     IN  /\ qInterrupt' = (qInterrupt \/ reason # "none")
         /\ qWatcher' = [qWatcher EXCEPT !.pc = IF reason = "none" THEN "poll" ELSE "exited",
                                         !.reason = reason]
  /\ UNCHANGED <<qHooks, qClock, qCancelled, qCaller, qStop, qOutcome>>

(* ScratchpadCancelToken::cancel, by any thread that holds a clone. *)
CancelQuery ==
  /\ qHooks.token /\ ~qCancelled
  /\ qCancelled' = TRUE
  /\ UNCHANGED <<qHooks, qClock, qCaller, qStop, qWatcher, qInterrupt, qOutcome>>

QueryTick ==
  /\ qClock < QueryMaxTime /\ qCaller.pc # "done"
  /\ qClock' = qClock + 1
  /\ UNCHANGED <<qHooks, qCancelled, qCaller, qStop, qWatcher, qInterrupt, qOutcome>>

QueryCaller == QueryBegins \/ StatementEnds \/ CallerStops \/ CallerJoins
QueryWatcher == WatcherStarts \/ WatcherLoadsStop \/ WatcherDecides

QueryNext == QueryCaller \/ QueryWatcher \/ CancelQuery \/ QueryTick

QuerySpec == QueryInit /\ [][QueryNext]_qVars

-----------------------------------------------------------------------------
(* run_guarded's answer is true to the race of its two threads: Ok means   *)
(* that no interrupt was ever delivered and the time was kept, Timeout and *)
(* Cancelled name what really happened, an interrupted call never reports  *)
(* the engine's own error, and no watcher is left to interrupt the next    *)
(* user of the connection.                                                 *)
OutcomeIsTrue ==
  /\ qOutcome = "ok" => ~qInterrupt /\ (qHooks.timeout > 0 => CallerElapsed <= qHooks.timeout)
  /\ qOutcome = "timeout" => qHooks.timeout > 0 /\ CallerElapsed >= qHooks.timeout
  /\ qOutcome = "cancelled" => qCancelled
  /\ qOutcome = "error" => ~qInterrupt
  /\ qOutcome # "none" => qWatcher.pc \in {"none", "exited"}

=============================================================================
