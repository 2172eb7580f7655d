---------------------------- MODULE SessionManager ----------------------------
(***************************************************************************)
(* BoundedSessionManager and LifecycleTrackedStream                        *)
(* (crates/mcp-toolkit-http/src/session.rs): at most MaxSessions sessions  *)
(* on top of RMCP's LocalSessionManager, the oldest evicted first, and     *)
(* disconnected sessions expired after an idle timeout.                    *)
(*                                                                         *)
(* The inner manager, the creation order and the lifecycle states each     *)
(* have a lock of their own; a request takes one after the other and other *)
(* requests run in between.  Messages, event recording and the statistics  *)
(* (last_activity_s, expired_sessions_total) decide nothing and are left   *)
(* out.                                                                    *)
(***************************************************************************)
EXTENDS Integers, Sequences, FiniteSets, SequencesExt, Retain

CONSTANTS Sessions,       \* ids the inner manager hands out, each once
          Callers,        \* concurrent requests, and the background sweeper
          NoSession,
          Never,          \* disconnected_since_s is None
          MaxSessions,    \* max_sessions
          Expiring,       \* connected-aware mode with a disconnected_idle_timeout
          Timeout,        \* that timeout, in seconds
          SweepInterval,  \* DEFAULT_LIFECYCLE_SWEEP_INTERVAL_S
          MaxStreams,     \* tracked streams not yet dropped (bound)
          MaxTime         \* the wall clock's last second (bound)

ASSUME ConstantsAssumption ==
  /\ NoSession \notin Sessions /\ Never \notin Nat
  /\ IsFiniteSet(Callers) /\ MaxSessions \in Nat \ {0}
  /\ Expiring \in BOOLEAN
  /\ {Timeout, SweepInterval, MaxStreams, MaxTime} \subseteq Nat

VARIABLES
  clock,      \* current_epoch_seconds
  inner,      \* sessions LocalSessionManager holds
  issued,     \* ids it has handed out
  known,      \* ids a create_session has returned
  order,      \* BoundedSessionManager::order
  states,     \* SessionLifecycleRuntime::states
  lastSweep,  \* last_sweep_s
  live,       \* LifecycleTrackedStreams not yet closed, per session
  ended,      \* those closed by their end and not yet dropped
  calls,      \* each caller's progress
  failed      \* history: sessions whose inner close reported an error

vars == <<clock, inner, issued, known, order, states, lastSweep, live, ended, calls, failed>>

streams == <<live, ended>>

Idle == [pc |-> "idle", op |-> "none", sid |-> NoSession, victim |-> NoSession,
         now |-> 0, todo |-> {}, expired |-> FALSE, then |-> "return"]

Init ==
  /\ clock \in 0..MaxTime
  /\ inner = {} /\ issued = {} /\ known = {} /\ failed = {}
  /\ order = <<>> /\ states = <<>> /\ lastSweep = 0
  /\ live = [s \in Sessions |-> 0] /\ ended = [s \in Sessions |-> 0]
  /\ calls = [c \in Callers |-> Idle]

-----------------------------------------------------------------------------
SaturatingSub(a, b) == IF a > b THEN a - b ELSE 0

At(c, place) == calls[c].pc = place
Become(c, call) == calls' = [calls EXCEPT ![c] = call]
Goto(c, place) == Become(c, [calls[c] EXCEPT !.pc = place])
Return(c) == Become(c, Idle)

Forget(f, s) == [t \in DOMAIN f \ {s} |-> f[t]]

(* The entry touch_session_activity and mark_stream_open start from. *)
StateOf(s, now) ==
  IF s \in DOMAIN states THEN states[s] ELSE [active |-> 0, since |-> now]

SetState(s, st) ==
  states' = [t \in DOMAIN states \cup {s} |-> IF t = s THEN st ELSE states[t]]

(* Active, or disconnected from now on. *)
StateWith(n, now) == [active |-> n, since |-> IF n = 0 THEN now ELSE Never]

Touched(s, now) == StateWith(StateOf(s, now).active, now)

IdleTooLong(s, now) ==
  /\ Expiring /\ s \in DOMAIN states
  /\ states[s].active = 0 /\ states[s].since # Never
  /\ SaturatingSub(now, states[s].since) >= Timeout

(* LocalSessionManager::close_session: an unknown id is no error, and an   *)
(* error (the session's worker is gone) still drops the handle.            *)
InnerClose(s, ok) ==
  /\ ok \/ s \in inner
  /\ inner' = inner \ {s}
  /\ failed' = IF ok THEN failed ELSE failed \cup {s}

-----------------------------------------------------------------------------
(* A call reads the clock; create_session, has_session and the sweeper     *)
(* first collect, under the lifecycle lock, the sessions to expire.        *)

SweepDue == Expiring /\ SaturatingSub(clock, lastSweep) >= SweepInterval

BeginSwept(c, op, sid) ==
  /\ At(c, "idle")
  /\ Become(c, [Idle EXCEPT !.pc = "sweep", !.op = op, !.sid = sid, !.now = clock,
                  !.todo = IF SweepDue THEN {s \in DOMAIN states : IdleTooLong(s, clock)}
                                       ELSE {}])
  /\ lastSweep' = IF SweepDue THEN clock ELSE lastSweep
  /\ UNCHANGED <<clock, inner, issued, known, order, states, streams, failed>>

Begin(c, op, sid) ==
  /\ At(c, "idle")
  /\ Become(c, [Idle EXCEPT !.pc = op, !.op = op, !.sid = sid])
  /\ UNCHANGED <<clock, inner, issued, known, order, states, lastSweep, streams, failed>>

Call(c) ==
  \/ \E op \in {"create", "sweep"} : BeginSwept(c, op, NoSession)
  \/ \E s \in known : BeginSwept(c, "has", s)
  \/ \E s \in known, op \in {"close", "send", "stream"} : Begin(c, op, s)

(* The rest of a call once its victim is gone. *)
Resume(c) ==
  IF calls[c].then = "return" THEN Return(c)
  ELSE Become(c, [calls[c] EXCEPT !.pc = calls[c].then, !.victim = NoSession, !.expired = FALSE])

(* Mutant: a closed session keeps its place. *)
RemoveStateOnly(call, s, expired, then) ==
  [call EXCEPT !.pc = "forget", !.victim = s, !.expired = expired, !.then = then]

(* remove_session(s), noting an expiry, and then on. *)
RemoveSession(call, s, expired, then) ==
  [call EXCEPT !.pc = "unlist", !.victim = s, !.expired = expired, !.then = then]

(* The sweep closes what it collected, one session at a time, and goes on  *)
(* after an error.                                                         *)
SweepCloses(c) ==
  /\ At(c, "sweep")
  /\ \E s \in calls[c].todo, ok \in BOOLEAN :
       /\ InnerClose(s, ok)
       /\ LET call == [calls[c] EXCEPT !.todo = @ \ {s}]
          IN  Become(c, IF ok THEN RemoveSession(call, s, TRUE, "sweep") ELSE call)
  /\ UNCHANGED <<clock, issued, known, order, states, lastSweep, streams>>

SweepEnds(c) ==
  /\ At(c, "sweep") /\ calls[c].todo = {}
  /\ CASE calls[c].op = "create" -> Goto(c, "create")
       [] calls[c].op = "has" -> Goto(c, "lookup")
       [] OTHER -> Return(c)
  /\ UNCHANGED <<clock, inner, issued, known, order, states, lastSweep, streams, failed>>

-----------------------------------------------------------------------------
(* remove_session takes the order's lock, then the lifecycle lock;         *)
(* note_session_expired takes the latter again.                            *)

Unlist(c) ==
  /\ At(c, "unlist")
  /\ order' = Retain(order, Sessions \ {calls[c].victim})
  /\ Goto(c, "forget")
  /\ UNCHANGED <<clock, inner, issued, known, states, lastSweep, streams, failed>>

ForgetState(c) ==
  /\ At(c, "forget")
  /\ states' = Forget(states, calls[c].victim)
  /\ IF calls[c].expired THEN Goto(c, "note") ELSE Resume(c)
  /\ UNCHANGED <<clock, inner, issued, known, order, lastSweep, streams, failed>>

NoteExpired(c) ==
  /\ At(c, "note")
  /\ states' = Forget(states, calls[c].victim)
  /\ Resume(c)
  /\ UNCHANGED <<clock, inner, issued, known, order, lastSweep, streams, failed>>

-----------------------------------------------------------------------------
(* create_session *)

InnerCreates(c) ==
  /\ At(c, "create")
  /\ \E s \in Sessions \ issued :
       /\ inner' = inner \cup {s} /\ issued' = issued \cup {s}
       /\ Become(c, [calls[c] EXCEPT !.pc = "record", !.sid = s])
  /\ UNCHANGED <<clock, known, order, states, lastSweep, streams, failed>>

InnerCreateFails(c) ==
  /\ At(c, "create")
  /\ Return(c)
  /\ UNCHANGED <<clock, inner, issued, known, order, states, lastSweep, streams, failed>>

(* Mutant: the bound is checked before the new session is counted. *)
RecordSessionLate(c) ==
  /\ At(c, "record")
  /\ IF Len(order) > MaxSessions
       THEN /\ order' = Append(Tail(order), calls[c].sid)
            /\ Become(c, [calls[c] EXCEPT !.pc = "evict", !.victim = Head(order)])
       ELSE order' = Append(order, calls[c].sid) /\ Goto(c, "touch")
  /\ UNCHANGED <<clock, inner, issued, known, states, lastSweep, streams, failed>>

(* record_session: one session over the bound takes the oldest's place. *)
RecordSession(c) ==
  /\ At(c, "record")
  /\ LET grown == Append(order, calls[c].sid)
     IN  IF Len(grown) > MaxSessions
           THEN /\ order' = Tail(grown)
                /\ Become(c, [calls[c] EXCEPT !.pc = "evict", !.victim = Head(grown)])
           ELSE order' = grown /\ Goto(c, "touch")
  /\ UNCHANGED <<clock, inner, issued, known, states, lastSweep, streams, failed>>

(* close_evicted forgets the session even when closing it fails. *)
Evict(c) ==
  /\ At(c, "evict")
  /\ \E ok \in BOOLEAN : InnerClose(calls[c].victim, ok)
  /\ Become(c, RemoveSession(calls[c], calls[c].victim, FALSE, "touch"))
  /\ UNCHANGED <<clock, issued, known, order, states, lastSweep, streams>>

-----------------------------------------------------------------------------
(* touch_session_activity: the end of create_session, initialize_session,  *)
(* accept_message and of the stream operations.  create_session uses the   *)
(* time it began at.                                                       *)

Touch(c) ==
  /\ At(c, "touch")
  /\ LET call == calls[c]
         now  == IF call.op = "create" THEN call.now ELSE clock
     IN  /\ SetState(call.sid, Touched(call.sid, now))
         /\ known' = IF call.op = "create" THEN known \cup {call.sid} ELSE known
         /\ IF call.op = "stream" THEN Goto(c, "open") ELSE Return(c)
  /\ UNCHANGED <<clock, inner, issued, order, lastSweep, streams, failed>>

(* The inner manager takes the message, or opens the stream; it fails for  *)
(* a session it does not hold or whose worker is gone.                     *)
InnerSends(c) ==
  /\ calls[c].pc \in {"send", "stream"} /\ calls[c].sid \in inner
  /\ Goto(c, "touch")
  /\ UNCHANGED <<clock, inner, issued, known, order, states, lastSweep, streams, failed>>

InnerSendFails(c) ==
  /\ calls[c].pc \in {"send", "stream"}
  /\ Return(c)
  /\ UNCHANGED <<clock, inner, issued, known, order, states, lastSweep, streams, failed>>

-----------------------------------------------------------------------------
(* close_session *)

Close(c) ==
  /\ At(c, "close")
  /\ \E ok \in BOOLEAN :
       /\ InnerClose(calls[c].sid, ok)
       /\ IF ok THEN Become(c, RemoveSession(calls[c], calls[c].sid, FALSE, "return")) ELSE Return(c)
  /\ UNCHANGED <<clock, issued, known, order, states, lastSweep, streams>>

(* has_session: after its sweep *)

Lookup(c) ==
  /\ At(c, "lookup")
  /\ IF calls[c].sid \in inner THEN Goto(c, "judge")
                               ELSE Become(c, RemoveSession(calls[c], calls[c].sid, FALSE, "return"))
  /\ UNCHANGED <<clock, inner, issued, known, order, states, lastSweep, streams, failed>>

LookupFails(c) ==
  /\ At(c, "lookup")
  /\ Return(c)
  /\ UNCHANGED <<clock, inner, issued, known, order, states, lastSweep, streams, failed>>

(* disconnected_session_should_expire *)
Judge(c) ==
  /\ At(c, "judge")
  /\ IF IdleTooLong(calls[c].sid, calls[c].now) THEN Goto(c, "expire") ELSE Return(c)
  /\ UNCHANGED <<clock, inner, issued, known, order, states, lastSweep, streams, failed>>

Expire(c) ==
  /\ At(c, "expire")
  /\ \E ok \in BOOLEAN :
       /\ InnerClose(calls[c].sid, ok)
       /\ IF ok THEN Become(c, RemoveSession(calls[c], calls[c].sid, TRUE, "return")) ELSE Return(c)
  /\ UNCHANGED <<clock, issued, known, order, states, lastSweep, streams>>

-----------------------------------------------------------------------------
(* LifecycleTrackedStream *)

(* Bound of the model: the tracked streams clients hold. *)
StreamsHeld == MapThenSumSet(LAMBDA s : live[s] + ended[s], Sessions)

(* mark_stream_open; the response carries the stream. *)
OpenStream(c) ==
  /\ At(c, "open")
  /\ LET s == calls[c].sid
     IN  /\ StreamsHeld < MaxStreams
         /\ live' = [live EXCEPT ![s] = @ + 1]
         /\ SetState(s, StateWith(StateOf(s, clock).active + 1, clock))
  /\ Return(c)
  /\ UNCHANGED <<clock, inner, issued, known, order, lastSweep, ended, failed>>

(* mark_stream_closed: a forgotten session has no counter. *)
MarkClosed(s) ==
  IF s \in DOMAIN states
    THEN SetState(s, StateWith(SaturatingSub(states[s].active, 1), clock))
    ELSE UNCHANGED states

(* The stream is polled to its end: close_once. *)
StreamEnds(s) ==
  /\ live[s] > 0
  /\ live' = [live EXCEPT ![s] = @ - 1]
  /\ ended' = [ended EXCEPT ![s] = @ + 1]
  /\ MarkClosed(s)
  /\ UNCHANGED <<clock, inner, issued, known, order, lastSweep, calls, failed>>

(* It is dropped before its end. *)
StreamDropped(s) ==
  /\ live[s] > 0
  /\ live' = [live EXCEPT ![s] = @ - 1]
  /\ MarkClosed(s)
  /\ UNCHANGED <<clock, inner, issued, known, order, lastSweep, ended, calls, failed>>

(* Mutant: the drop of an ended stream closes it again. *)
EndedDroppedTwice(s) ==
  /\ ended[s] > 0
  /\ ended' = [ended EXCEPT ![s] = @ - 1]
  /\ MarkClosed(s)
  /\ UNCHANGED <<clock, inner, issued, known, order, lastSweep, live, calls, failed>>

(* It is dropped after its end: close_once did its work already. *)
EndedDropped(s) ==
  /\ ended[s] > 0
  /\ ended' = [ended EXCEPT ![s] = @ - 1]
  /\ UNCHANGED <<clock, inner, issued, known, order, states, lastSweep, live, calls, failed>>

(* The wall clock may also be set back. *)
ClockSteps ==
  /\ clock' \in (0..MaxTime) \ {clock}
  /\ UNCHANGED <<inner, issued, known, order, states, lastSweep, streams, calls, failed>>

-----------------------------------------------------------------------------
Next ==
  \/ \E c \in Callers :
       \/ Call(c) \/ SweepCloses(c) \/ SweepEnds(c)
       \/ Unlist(c) \/ ForgetState(c) \/ NoteExpired(c)
       \/ InnerCreates(c) \/ InnerCreateFails(c) \/ RecordSession(c) \/ Evict(c)
       \/ Touch(c) \/ InnerSends(c) \/ InnerSendFails(c) \/ OpenStream(c)
       \/ Close(c) \/ Lookup(c) \/ LookupFails(c) \/ Judge(c) \/ Expire(c)
  \/ \E s \in Sessions : StreamEnds(s) \/ StreamDropped(s) \/ EndedDropped(s)
  \/ ClockSteps

Spec == Init /\ [][Next]_vars

-----------------------------------------------------------------------------
(* Properties *)

(* A session a create_session is adding, or is about to evict. *)
InFlight == {calls[c].sid : c \in {d \in Callers : calls[d].pc = "record"}}
              \cup {calls[c].victim : c \in {d \in Callers : calls[d].pc = "evict"}}

(* The bound on concurrent sessions holds whatever creates, closes,        *)
(* evictions and sweeps overlap: every session RMCP holds is listed or in  *)
(* the hands of a create_session, so there are at most MaxSessions plus    *)
(* one per create under way, and the eviction order lists none twice.      *)
SessionsBounded ==
  /\ IsInjective(order)
  /\ inner \subseteq ToSet(order) \cup InFlight
  /\ Cardinality(inner) <= MaxSessions
       + Cardinality({c \in Callers : calls[c].pc \in {"record", "evict"}})

(* A session RMCP no longer holds occupies no place of the bound for long: *)
(* somebody is about to unlist it, or its close has failed.                *)
PlacesGivenBack ==
  \A s \in ToSet(order) \ inner :
    \/ s \in failed
    \/ \E c \in Callers : calls[c].pc = "unlist" /\ calls[c].victim = s

(* The lifecycle counter of a session RMCP holds is the number of its open *)
(* streams, and it has a disconnection time exactly when there are none:   *)
(* neither a late touch nor a stream that ends and is then dropped can     *)
(* make a connected session look idle.                                     *)
StreamsCounted ==
  \A s \in inner :
    IF s \in DOMAIN states
      THEN states[s].active = live[s] /\ (states[s].since = Never <=> live[s] > 0)
      ELSE live[s] = 0

(* "Connected sessions are never expired by this sweep": a sweep closes no *)
(* session that has an open stream.                                        *)
ConnectedNotExpired ==
  [][\A c \in Callers : calls[c].pc = "sweep" /\ calls'[c] # calls[c] =>
       \A s \in inner \ inner' : live[s] = 0]_vars

=============================================================================
