------------------------- MODULE ProcessCaptureProofs -------------------------
(***************************************************************************)
(* Theorems about ProcessCapture, for any set of streams, any cap, any     *)
(* buffer and any amount of output.                                        *)
(***************************************************************************)
EXTENDS ProcessCapture, TLAPS

CaptureTypes ==
  /\ child \in {"running", "exited"} /\ writers \subseteq Streams
  /\ written \in [Streams -> Nat] /\ taken \in [Streams -> Nat] /\ kept \in [Streams -> Nat]
  /\ reading \in [Streams -> {"open", "eof", "over", "failed"}]
  /\ status \in {"Running", "PendingCleanup", "Exited"}
  /\ unseen \in BOOLEAN /\ sender \in BOOLEAN /\ late \in BOOLEAN /\ lateEof \in BOOLEAN
  /\ exitSeen \in BOOLEAN /\ streamsDone \in BOOLEAN
  /\ pc \in {"check", "select", "final", "done"}

(* What a stream's reader has taken is what was written so far, what is    *)
(* kept of it is what fits, and it has stopped for too much only where     *)
(* there was too much, at the end only where nobody can write.             *)
StreamCounted(s) ==
  /\ taken[s] <= written[s]
  /\ kept[s] = Min2(taken[s], Cap)
  /\ reading[s] = "over" <=> taken[s] > Cap
  /\ reading[s] = "eof" => written[s] = taken[s] /\ ~Open(s)

BytesCounted == \A s \in Streams : StreamCounted(s)

(* An exit that is published is real, and one that capture has not noted   *)
(* is still to be returned by changed().                                   *)
ExitKnown ==
  /\ status = "Exited" => child = "exited"
  /\ exitSeen \/ ~sender => status = "Exited"
  /\ pc = "select" /\ status = "Exited" /\ ~exitSeen => unseen

EndKnown ==
  /\ pc \in {"check", "select"} => end = "Complete"
  /\ end = "Complete" /\ streamsDone => \A s \in Streams : reading[s] = "eof"
  /\ end = "Complete" /\ pc \in {"final", "done"} => exitSeen /\ streamsDone
  /\ end = "OutputLimitExceeded" => \E s \in Streams : reading[s] = "over"
  /\ end = "IncompleteCapture" => exitSeen
  /\ end # "SupervisorUnavailable"

CaptureInv == CaptureTypes /\ BytesCounted /\ ExitKnown /\ EndKnown

(* Nothing has been written, read or published. *)
LEMMA CaptureInvInit == Init => CaptureInv
<1> SUFFICES ASSUME Init PROVE CaptureInv
  OBVIOUS
<1>1. CaptureTypes
  BY DEF Init, CaptureTypes
<1>2. BytesCounted
  <2> SUFFICES ASSUME NEW s \in Streams PROVE StreamCounted(s)
    BY DEF BytesCounted
  <2>1. taken[s] = 0 /\ written[s] = 0 /\ kept[s] = 0 /\ reading[s] = "open"
    BY DEF Init
  <2> QED
    BY <2>1, ConstantsAssumption DEF StreamCounted, Min2
<1>3. ExitKnown /\ EndKnown
  BY DEF Init, ExitKnown, EndKnown
<1> QED
  BY <1>1, <1>2, <1>3 DEF CaptureInv

(* Every step of the child, its descendants, the supervisor, the clock and *)
(* capture keeps CaptureInv.                                               *)
LEMMA CaptureInvStep == CaptureInv /\ [Next]_vars => CaptureInv'
<1> SUFFICES ASSUME CaptureInv, [Next]_vars PROVE CaptureInv'
  OBVIOUS
<1> USE ConstantsAssumption
    DEF CaptureInv, CaptureTypes, BytesCounted, StreamCounted, ExitKnown, EndKnown, Open, Min2,
        os, channel, pipes, capture, timers
<1>1. CASE Check
  BY <1>1 DEF Check
<1>2. CASE SelectTimeout
  BY <1>2 DEF SelectTimeout, Ends
<1>3. CASE SelectEofTimeout
  BY <1>3 DEF SelectEofTimeout, Ends
<1>4. CASE SelectChanged
  BY <1>4 DEF SelectChanged, Changed, Ends
<1>5. CASE SelectReads
  BY <1>5 DEF SelectReads, ReadTurn, Ends
<1>6. CASE Final
  BY <1>6 DEF Final
<1>7. ASSUME NEW s \in Streams, ReadBytes(s) PROVE CaptureInv'
  BY <1>7 DEF ReadBytes, ReadTurn, Take
<1>8. ASSUME NEW s \in Streams, ReadEof(s) PROVE CaptureInv'
  BY <1>8 DEF ReadEof, ReadTurn
<1>9. ASSUME NEW s \in Streams, ReadFails(s) PROVE CaptureInv'
  BY <1>9 DEF ReadFails, ReadTurn
<1>10. ASSUME NEW s \in Streams, Write(s) PROVE CaptureInv'
  BY <1>10 DEF Write
<1>11. ASSUME NEW s \in Streams, DescendantCloses(s) PROVE CaptureInv'
  BY <1>11 DEF DescendantCloses
<1>12. CASE ChildExits
  BY <1>12 DEF ChildExits
<1>13. CASE SupervisorReturns
  BY <1>13 DEF SupervisorReturns
<1>14. CASE DeadlinePasses
  BY <1>14 DEF DeadlinePasses
<1>15. CASE EofDeadlinePasses
  BY <1>15 DEF EofDeadlinePasses
<1>16. ASSUME NEW st \in {"PendingCleanup", "Exited"}, Publish(st) PROVE CaptureInv'
  BY <1>16 DEF Publish
<1>17. CASE UNCHANGED vars
  BY <1>17 DEF vars
<1> HIDE DEF CaptureInv
<1> QED
  BY <1>1, <1>2, <1>3, <1>4, <1>5, <1>6, <1>7, <1>8, <1>9, <1>10, <1>11, <1>12, <1>13, <1>14, <1>15, <1>16, <1>17 DEF Next, CaptureStep

(* Complete promises the whole output (CompleteIsWhole). *)
THEOREM CompleteCapture == Spec => []CompleteIsWhole
<1>1. CaptureInv => CompleteIsWhole
  <2> SUFFICES ASSUME CaptureInv, Ended("Complete")
               PROVE  exitSeen /\ child = "exited" /\ writers = {} /\ kept = written
    BY DEF CompleteIsWhole
  <2>1. exitSeen /\ child = "exited" /\ \A s \in Streams : reading[s] = "eof"
    BY DEF CaptureInv, ExitKnown, EndKnown, Ended
  <2>2. \A s \in Streams : s \notin writers /\ kept[s] = written[s]
    <3> SUFFICES ASSUME NEW s \in Streams PROVE s \notin writers /\ kept[s] = written[s]
      OBVIOUS
    <3>1. StreamCounted(s) /\ taken[s] \in Nat /\ reading[s] = "eof"
      BY <2>1 DEF CaptureInv, CaptureTypes, BytesCounted
    <3> QED
      BY <3>1, ConstantsAssumption DEF StreamCounted, Open, Min2
  <2> QED
    BY <2>1, <2>2 DEF CaptureInv, CaptureTypes
<1> QED
  BY CaptureInvInit, CaptureInvStep, <1>1, PTL DEF Spec

(* The cap is exact, whatever read sizes the pipe delivers                 *)
(* (OverflowIsReal).                                                       *)
THEOREM CaptureCap == Spec => []OverflowIsReal
<1>1. CaptureInv => OverflowIsReal
  BY ConstantsAssumption
  DEF CaptureInv, CaptureTypes, BytesCounted, StreamCounted, EndKnown, Min2, OverflowIsReal, Ended
<1> QED
  BY CaptureInvInit, CaptureInvStep, <1>1, PTL DEF Spec

(* A capture never blames a supervisor that published the exit before it   *)
(* returned, and calls itself incomplete only with that exit as evidence   *)
(* (EndsAreJustified).                                                     *)
THEOREM CaptureEnds == Spec => []EndsAreJustified
<1>1. CaptureInv => EndsAreJustified
  BY DEF CaptureInv, ExitKnown, EndKnown, EndsAreJustified, Ended
<1> QED
  BY CaptureInvInit, CaptureInvStep, <1>1, PTL DEF Spec

==============================================================================
