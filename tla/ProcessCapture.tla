---------------------------- MODULE ProcessCapture ----------------------------
(***************************************************************************)
(* capture (crates/mcp-toolkit-process/src/capture.rs): runs one child and *)
(* retains at most Cap bytes of each of its output streams, racing the     *)
(* pipes and the supervisor's status channel against two deadlines.        *)
(*                                                                         *)
(* Bytes are counted, not named.  A descendant of the child may hold a     *)
(* stream open after the child has gone.  ProcessSupervisor models the     *)
(* other side of the status channel.                                       *)
(***************************************************************************)
EXTENDS Naturals

CONSTANTS Streams,     \* stdout and stderr
          Cap,         \* CaptureLimits::stdout_bytes and stderr_bytes
          MaxBytes,    \* bytes written to each stream (bound)
          BufferSize   \* read_bounded's buffer

ASSUME ConstantsAssumption ==
  /\ Cap \in Nat /\ MaxBytes \in Nat
  /\ BufferSize \in Nat \ {0}

VARIABLES
  child,         \* the root process: "running", "exited"
  writers,       \* streams a descendant keeps open
  written,       \* bytes written to each stream
  taken,         \* bytes read from each stream
  kept,          \* bytes retained of each stream
  reading,       \* read_bounded of each stream: "open", "eof", "over", "failed"
  status,        \* the status channel's value: "Running", "PendingCleanup", "Exited"
  unseen,        \* it holds a change that changed() has not returned
  sender,        \* the supervisor still holds the sender
  late, lateEof, \* the total deadline, and the EOF deadline, have passed
  exitSeen,      \* output.exit_status is Some
  streamsDone,   \* streams_done
  pc,            \* capture: "check", "select", "final", "done"
  end            \* output.end

vars == <<child, writers, written, taken, kept, reading, status, unseen, sender,
          late, lateEof, exitSeen, streamsDone, pc, end>>

os      == <<child, writers, written>>
channel == <<status, unseen, sender>>
pipes   == <<taken, kept, reading>>
capture == <<exitSeen, streamsDone, pc, end>>
timers  == <<late, lateEof>>

Min2(a, b) == IF a < b THEN a ELSE b

(* The child has been spawned with both pipes; an overdue deadline and an  *)
(* early exit are steps away.                                              *)
Init ==
  /\ child = "running" /\ writers \in SUBSET Streams
  /\ written = [s \in Streams |-> 0]
  /\ taken = written /\ kept = written
  /\ reading = [s \in Streams |-> "open"]
  /\ status = "Running" /\ unseen = FALSE /\ sender = TRUE
  /\ late = FALSE /\ lateEof = FALSE
  /\ exitSeen = FALSE /\ streamsDone = FALSE
  /\ pc = "check" /\ end = "Complete"

-----------------------------------------------------------------------------
(* The child, its descendants, the supervisor and the clock *)

Open(s) == child = "running" \/ s \in writers

Write(s) ==
  /\ Open(s) /\ written[s] < MaxBytes
  /\ written' = [written EXCEPT ![s] = @ + 1]
  /\ UNCHANGED <<child, writers, channel, pipes, timers, capture>>

ChildExits ==
  /\ child = "running" /\ child' = "exited"
  /\ UNCHANGED <<writers, written, channel, pipes, timers, capture>>

DescendantCloses(s) ==
  /\ s \in writers /\ writers' = writers \ {s}
  /\ UNCHANGED <<child, written, channel, pipes, timers, capture>>

(* The supervisor publishes PendingCleanup, or Exited once it has reaped   *)
(* the child, and lets the sender go when it returns.                      *)
Publish(st) ==
  /\ sender /\ status # "Exited"
  /\ st = "Exited" => child = "exited"
  /\ status' = st /\ unseen' = TRUE
  /\ UNCHANGED <<os, sender, pipes, timers, capture>>

SupervisorReturns ==
  /\ sender /\ status = "Exited"
  /\ sender' = FALSE
  /\ UNCHANGED <<os, status, unseen, pipes, timers, capture>>

(* The EOF deadline is never later than the total one. *)
DeadlinePasses ==
  /\ ~late
  /\ late' = TRUE /\ lateEof' = exitSeen
  /\ UNCHANGED <<os, channel, pipes, capture>>

EofDeadlinePasses ==
  /\ exitSeen /\ ~lateEof
  /\ lateEof' = TRUE
  /\ UNCHANGED <<os, channel, pipes, late, capture>>

-----------------------------------------------------------------------------
(* The capture loop *)

(* Mutant: the end of the streams alone completes the capture. *)
CheckStreamsOnly ==
  /\ pc = "check"
  /\ exitSeen' = (exitSeen \/ status = "Exited")
  /\ pc' = IF streamsDone THEN "final" ELSE "select"
  /\ lateEof' = (lateEof \/ (exitSeen' /\ late))
  /\ UNCHANGED <<os, channel, pipes, late, streamsDone, end>>

Check ==
  /\ pc = "check"
  /\ exitSeen' = (exitSeen \/ status = "Exited")
  /\ pc' = IF exitSeen' /\ streamsDone THEN "final" ELSE "select"
  /\ lateEof' = (lateEof \/ (exitSeen' /\ late))
  /\ UNCHANGED <<os, channel, pipes, late, streamsDone, end>>

(* The branches of the biased select, in the order they are polled. *)
Changed  == ~exitSeen /\ (unseen \/ ~sender)
ReadTurn == pc = "select" /\ ~late /\ ~(exitSeen /\ lateEof) /\ ~Changed /\ ~streamsDone

Ends(reason) == pc' = "final" /\ end' = reason

(* Mutant: the total deadline is polled only until the root has exited. *)
SelectTimeoutBeforeExit ==
  /\ pc = "select" /\ late /\ ~exitSeen
  /\ Ends("Timeout")
  /\ UNCHANGED <<os, channel, pipes, timers, exitSeen, streamsDone>>

SelectTimeout ==
  /\ pc = "select" /\ late
  /\ Ends("Timeout")
  /\ UNCHANGED <<os, channel, pipes, timers, exitSeen, streamsDone>>

SelectEofTimeout ==
  /\ pc = "select" /\ ~late /\ exitSeen /\ lateEof
  /\ Ends("IncompleteCapture")
  /\ UNCHANGED <<os, channel, pipes, timers, exitSeen, streamsDone>>

(* Mutant: a dropped sender is noticed before a last status. *)
SelectChangedClosedFirst ==
  /\ pc = "select" /\ ~late /\ Changed
  /\ IF sender
       THEN unseen' = FALSE /\ pc' = "check" /\ UNCHANGED end
       ELSE Ends("SupervisorUnavailable") /\ UNCHANGED unseen
  /\ UNCHANGED <<os, status, sender, pipes, timers, exitSeen, streamsDone>>

(* changed() prefers an unseen value to the sender's absence. *)
SelectChanged ==
  /\ pc = "select" /\ ~late /\ Changed
  /\ IF unseen
       THEN unseen' = FALSE /\ pc' = "check" /\ UNCHANGED end
       ELSE Ends("SupervisorUnavailable") /\ UNCHANGED unseen
  /\ UNCHANGED <<os, status, sender, pipes, timers, exitSeen, streamsDone>>

(* Mutant: a read that fills the buffer to its cap counts as too much. *)
TakeAtCap(s, n) ==
  /\ taken' = [taken EXCEPT ![s] = @ + n]
  /\ kept' = [kept EXCEPT ![s] = @ + Min2(n, Cap - @)]
  /\ reading' = [reading EXCEPT ![s] = IF n >= Cap - kept[s] THEN "over" ELSE "open"]

(* read_bounded takes n bytes; one more than the rest of the cap ends it. *)
Take(s, n) ==
  /\ taken' = [taken EXCEPT ![s] = @ + n]
  /\ kept' = [kept EXCEPT ![s] = @ + Min2(n, Cap - @)]
  /\ reading' = [reading EXCEPT ![s] = IF n > Cap - kept[s] THEN "over" ELSE "open"]

ReadBytes(s) ==
  /\ ReadTurn /\ reading[s] = "open"
  /\ \E n \in 1..Min2(BufferSize, written[s] - taken[s]) : Take(s, n)
  /\ UNCHANGED <<os, channel, timers, capture>>

ReadEof(s) ==
  /\ ReadTurn /\ reading[s] = "open"
  /\ written[s] = taken[s] /\ ~Open(s)
  /\ reading' = [reading EXCEPT ![s] = "eof"]
  /\ UNCHANGED <<os, channel, taken, kept, timers, capture>>

ReadFails(s) ==
  /\ ReadTurn /\ reading[s] = "open"
  /\ reading' = [reading EXCEPT ![s] = "failed"]
  /\ UNCHANGED <<os, channel, taken, kept, timers, capture>>

(* try_join returns with the first failure, or when both are at EOF. *)
SelectReads ==
  /\ ReadTurn
  /\ \/ \E s \in Streams : reading[s] = "over" /\ Ends("OutputLimitExceeded")
     \/ \E s \in Streams : reading[s] = "failed" /\ Ends("ReadFailed")
     \/ (\A s \in Streams : reading[s] = "eof") /\ pc' = "check" /\ UNCHANGED end
  /\ streamsDone' = TRUE
  /\ UNCHANGED <<os, channel, pipes, timers, exitSeen>>

(* The exit status is looked up once more; the handle is dropped. *)
Final ==
  /\ pc = "final"
  /\ exitSeen' = (exitSeen \/ status = "Exited")
  /\ pc' = "done"
  /\ UNCHANGED <<os, channel, pipes, timers, streamsDone, end>>

CaptureStep ==
  \/ Check \/ SelectTimeout \/ SelectEofTimeout \/ SelectChanged \/ SelectReads \/ Final
  \/ \E s \in Streams : ReadBytes(s) \/ ReadEof(s) \/ ReadFails(s)

Next ==
  \/ CaptureStep
  \/ \E s \in Streams : Write(s) \/ DescendantCloses(s)
  \/ ChildExits \/ SupervisorReturns \/ DeadlinePasses \/ EofDeadlinePasses
  \/ \E st \in {"PendingCleanup", "Exited"} : Publish(st)

Spec == Init /\ [][Next]_vars

(* The future is polled and its deadline passes; the child may hang. *)
FairSpec == Spec /\ WF_vars(CaptureStep) /\ WF_vars(DeadlinePasses)

-----------------------------------------------------------------------------
(* Properties *)

Ended(reason) == pc = "done" /\ end = reason

(* Complete promises the whole output: the root is reaped, nobody can      *)
(* write any more, and every byte written to either stream was retained.   *)
CompleteIsWhole ==
  Ended("Complete") => /\ exitSeen /\ child = "exited" /\ writers = {}
                       /\ kept = written

(* The cap is exact, whatever read sizes the pipe delivers: no byte beyond *)
(* it is retained, and OutputLimitExceeded is reported only when there was *)
(* one.                                                                    *)
OverflowIsReal ==
  /\ \A s \in Streams : kept[s] <= Cap
  /\ Ended("OutputLimitExceeded") => \E s \in Streams : written[s] > Cap /\ kept[s] = Cap

(* IncompleteCapture carries root-exit evidence, and a supervisor that     *)
(* publishes Exited and returns at once is never taken for a lost one.     *)
EndsAreJustified ==
  /\ Ended("IncompleteCapture") => exitSeen /\ child = "exited"
  /\ ~Ended("SupervisorUnavailable")

(* Whatever the child, its descendants and the supervisor do, capture      *)
(* returns.                                                                *)
CaptureReturns == <>(pc = "done")

=============================================================================
