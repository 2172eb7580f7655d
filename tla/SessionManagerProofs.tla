------------------------ MODULE SessionManagerProofs ------------------------
(***************************************************************************)
(* The bound on sessions, the places given back and the stream counters of *)
(* SessionManager, for every number of sessions, callers and streams and   *)
(* every bound, timeout and clock.                                         *)
(***************************************************************************)
EXTENDS SessionManager, RetainProofs, FiniteSetTheorems, TLAPS

(* Where remove_session and note_session_expired are. *)
Removal == {"unlist", "forget", "note"}

Places == {"idle", "sweep", "create", "record", "evict", "touch", "open", "send", "stream",
           "close", "lookup", "judge", "expire"} \cup Removal

CallRecords ==
  [pc : Places, op : {"none", "create", "sweep", "has", "close", "send", "stream"},
   sid : Sessions \cup {NoSession}, victim : Sessions \cup {NoSession},
   now : Nat, todo : SUBSET Sessions, expired : BOOLEAN, then : {"return", "sweep", "touch"}]

LifecycleStates == [active : Nat, since : Nat \cup {Never}]

SmTypes ==
  /\ clock \in Nat /\ lastSweep \in Nat
  /\ issued \subseteq Sessions /\ inner \subseteq issued /\ known \subseteq issued
  /\ order \in Seq(Sessions) /\ ToSet(order) \subseteq issued
  /\ DOMAIN states \subseteq issued
  /\ \A s \in DOMAIN states : states[s] \in LifecycleStates
  /\ live \in [Sessions -> Nat] /\ ended \in [Sessions -> Nat]
  /\ calls \in [Callers -> CallRecords]

(* The calls that still need their session. *)
NeedsSession(call) ==
  \/ call.op = "has"
  \/ call.pc \in Places \ ({"idle", "sweep", "create"} \cup Removal)
  \/ call.pc \in Removal /\ call.then = "touch"

(* A call names only sessions that were handed out, and removes only one   *)
(* that RMCP has let go of.                                                *)
CallFine(call) ==
  /\ {call.sid, call.victim} \subseteq issued \cup {NoSession} /\ call.todo \subseteq issued
  /\ NeedsSession(call) => call.sid \in issued
  /\ call.pc \in Removal \cup {"evict"} => call.victim \in issued
  /\ call.pc \in Removal => call.victim \notin inner

CallsFine == \A c \in Callers : CallFine(calls[c])

Handled(call) == {call.sid, call.victim} \cup call.todo

(* Nobody but its creator knows a session before it is recorded. *)
NewIsPrivate ==
  \A c \in Callers :
    calls[c].pc = "record" =>
      /\ calls[c].sid \in inner
      /\ calls[c].sid \notin ToSet(order) \cup known \cup DOMAIN states
      /\ \A d \in Callers \ {c} : calls[c].sid \notin Handled(calls[d])

Listed ==
  /\ IsInjective(order) /\ Len(order) <= MaxSessions
  /\ inner \subseteq ToSet(order) \cup InFlight

(* Ids nobody has been given have no streams. *)
NoStreamYet == \A s \in Sessions \ issued : live[s] = 0

(* The inductive invariant. *)
SmInv ==
  SmTypes /\ CallsFine /\ NewIsPrivate /\ Listed /\ PlacesGivenBack /\ StreamsCounted /\ NoStreamYet

-----------------------------------------------------------------------------
(* The records the steps of a call make of it. *)

(* Goto *)
LEMMA GoneTo ==
  ASSUME NEW call \in CallRecords, NEW p \in Places
  PROVE  /\ [call EXCEPT !.pc = p] \in CallRecords
         /\ [call EXCEPT !.pc = p] =
              [pc |-> p, op |-> call.op, sid |-> call.sid, victim |-> call.victim, now |-> call.now,
               todo |-> call.todo, expired |-> call.expired, then |-> call.then]
<1>1. PICK x : x = [call EXCEPT !.pc = p]
  OBVIOUS
<1>2. x = [pc |-> p, op |-> call.op, sid |-> call.sid, victim |-> call.victim, now |-> call.now,
           todo |-> call.todo, expired |-> call.expired, then |-> call.then]
  BY <1>1 DEF CallRecords
<1>3. x \in CallRecords
  BY <1>2 DEF CallRecords
<1> QED
  BY <1>1, <1>2, <1>3

(* RemoveSession *)
LEMMA Removing ==
  ASSUME NEW call \in CallRecords, NEW s \in Sessions, NEW e \in BOOLEAN,
         NEW t \in {"return", "sweep", "touch"}
  PROVE  /\ RemoveSession(call, s, e, t) \in CallRecords
         /\ RemoveSession(call, s, e, t) =
              [pc |-> "unlist", op |-> call.op, sid |-> call.sid, victim |-> s, now |-> call.now,
               todo |-> call.todo, expired |-> e, then |-> t]
<1>1. PICK x : x = RemoveSession(call, s, e, t)
  OBVIOUS
<1>2. x = [pc |-> "unlist", op |-> call.op, sid |-> call.sid, victim |-> s, now |-> call.now,
           todo |-> call.todo, expired |-> e, then |-> t]
  BY <1>1 DEF CallRecords, RemoveSession
<1>3. x \in CallRecords
  BY <1>2 DEF CallRecords, Places, Removal
<1> QED
  BY <1>1, <1>2, <1>3

(* The end of a removal within a longer call. *)
LEMMA Resumed ==
  ASSUME NEW call \in CallRecords, call.then # "return"
  PROVE  /\ [call EXCEPT !.pc = call.then, !.victim = NoSession, !.expired = FALSE] \in CallRecords
         /\ [call EXCEPT !.pc = call.then, !.victim = NoSession, !.expired = FALSE] =
              [pc |-> call.then, op |-> call.op, sid |-> call.sid, victim |-> NoSession, now |-> call.now,
               todo |-> call.todo, expired |-> FALSE, then |-> call.then]
<1>1. PICK x : x = [call EXCEPT !.pc = call.then, !.victim = NoSession, !.expired = FALSE]
  OBVIOUS
<1>2. x = [pc |-> call.then, op |-> call.op, sid |-> call.sid, victim |-> NoSession, now |-> call.now,
           todo |-> call.todo, expired |-> FALSE, then |-> call.then]
  BY <1>1 DEF CallRecords
<1>3. call.then \in Places
  BY DEF CallRecords, Places
<1>4. x \in CallRecords
  BY <1>2, <1>3 DEF CallRecords
<1> QED
  BY <1>1, <1>2, <1>4

(* create_session has an id, record_session a victim, the sweep one less   *)
(* to close.                                                               *)
LEMMA Carrying ==
  ASSUME NEW call \in CallRecords, NEW s \in Sessions
  PROVE  /\ [call EXCEPT !.pc = "record", !.sid = s] \in CallRecords
         /\ [call EXCEPT !.pc = "record", !.sid = s] =
              [pc |-> "record", op |-> call.op, sid |-> s, victim |-> call.victim, now |-> call.now,
               todo |-> call.todo, expired |-> call.expired, then |-> call.then]
         /\ [call EXCEPT !.pc = "evict", !.victim = s] \in CallRecords
         /\ [call EXCEPT !.pc = "evict", !.victim = s] =
              [pc |-> "evict", op |-> call.op, sid |-> call.sid, victim |-> s, now |-> call.now,
               todo |-> call.todo, expired |-> call.expired, then |-> call.then]
         /\ [call EXCEPT !.todo = @ \ {s}] \in CallRecords
         /\ [call EXCEPT !.todo = @ \ {s}] =
              [pc |-> call.pc, op |-> call.op, sid |-> call.sid, victim |-> call.victim, now |-> call.now,
               todo |-> call.todo \ {s}, expired |-> call.expired, then |-> call.then]
<1>1. PICK x : x = [call EXCEPT !.pc = "record", !.sid = s]
  OBVIOUS
<1>2. x = [pc |-> "record", op |-> call.op, sid |-> s, victim |-> call.victim, now |-> call.now,
           todo |-> call.todo, expired |-> call.expired, then |-> call.then]
  BY <1>1 DEF CallRecords
<1>3. x \in CallRecords
  BY <1>2 DEF CallRecords, Places
<1>4. PICK y : y = [call EXCEPT !.pc = "evict", !.victim = s]
  OBVIOUS
<1>5. y = [pc |-> "evict", op |-> call.op, sid |-> call.sid, victim |-> s, now |-> call.now,
           todo |-> call.todo, expired |-> call.expired, then |-> call.then]
  BY <1>4 DEF CallRecords
<1>6. y \in CallRecords
  BY <1>5 DEF CallRecords, Places
<1>7. PICK z : z = [call EXCEPT !.todo = @ \ {s}]
  OBVIOUS
<1>8. z = [pc |-> call.pc, op |-> call.op, sid |-> call.sid, victim |-> call.victim, now |-> call.now,
           todo |-> call.todo \ {s}, expired |-> call.expired, then |-> call.then]
  BY <1>7 DEF CallRecords
<1>9. z \in CallRecords
  BY <1>8 DEF CallRecords
<1> QED
  BY <1>1, <1>2, <1>3, <1>4, <1>5, <1>6, <1>7, <1>8, <1>9

(* A call that has returned. *)
LEMMA IdleFine == Idle \in CallRecords /\ CallFine(Idle)
<1>1. Idle \in CallRecords
  <2>1. 0 \in Nat /\ "idle" \in Places /\ NoSession \in Sessions \cup {NoSession} /\ {} \in SUBSET Sessions
    BY DEF Places
  <2> QED
    BY <2>1 DEF Idle, CallRecords
<1>2. CallFine(Idle)
  BY DEF Idle, CallFine, NeedsSession, Places, Removal
<1> QED
  BY <1>1, <1>2

-----------------------------------------------------------------------------
(* Most steps of a call, seen from outside: RMCP's sessions and the order  *)
(* stay, and the call comes to name no session that was not known.         *)
Quiet(c, x) ==
  /\ x \in CallRecords /\ CallFine(x) /\ calls' = [calls EXCEPT ![c] = x]
  /\ Handled(x) \subseteq Handled(calls[c]) \cup known \cup DOMAIN states \cup {NoSession}
  /\ calls[c].pc \notin {"record", "evict", "unlist"} /\ x.pc \notin {"record", "evict"}
  /\ UNCHANGED <<inner, issued, order, failed>>
  /\ known' \subseteq known \cup (Handled(calls[c]) \cap issued)
  /\ DOMAIN states' \subseteq DOMAIN states \cup (Handled(calls[c]) \cap issued)

(* The steps that close session s in RMCP. *)
Closing(c, x, s) ==
  /\ x \in CallRecords /\ CallFine(x)' /\ calls' = [calls EXCEPT ![c] = x]
  /\ Handled(x) \subseteq Handled(calls[c]) \cup {NoSession}
  /\ calls[c].pc \notin {"record", "unlist"} /\ (calls[c].pc = "evict" => calls[c].victim = s)
  /\ x.pc \notin {"record", "evict"}
  /\ s \in Handled(calls[c]) /\ inner' = inner \ {s}
  /\ failed \subseteq failed' /\ (s \in failed' \/ (x.pc = "unlist" /\ x.victim = s))
  /\ UNCHANGED <<issued, known, order, states>>

(* What the types say of one call. *)
LEMMA CallTypes ==
  ASSUME SmInv, NEW c \in Callers
  PROVE  /\ calls[c] \in CallRecords /\ CallFine(calls[c]) /\ NoSession \notin issued
         /\ calls[c].then \in {"return", "sweep", "touch"} /\ calls[c].pc \in Places
         /\ calls[c].todo \subseteq Sessions
BY ConstantsAssumption DEF SmInv, SmTypes, CallsFine, CallRecords

(* A call that goes on with what it has. *)
LEMMA GotoQuiet ==
  ASSUME SmInv, NEW c \in Callers, NEW p \in Places, Goto(c, p),
         p \notin {"record", "evict"}, p \in Removal => calls[c].pc \in Removal,
         p \notin {"idle", "sweep", "create"} \cup Removal => NeedsSession(calls[c]),
         calls[c].pc \notin {"record", "evict", "unlist"},
         UNCHANGED <<inner, issued, order, failed>>,
         known' \subseteq known \cup (Handled(calls[c]) \cap issued),
         DOMAIN states' \subseteq DOMAIN states \cup (Handled(calls[c]) \cap issued)
  PROVE  \E x : Quiet(c, x)
<1>1. PICK x : x = [calls[c] EXCEPT !.pc = p]
  OBVIOUS
<1>2. /\ x \in CallRecords
      /\ x = [pc |-> p, op |-> calls[c].op, sid |-> calls[c].sid, victim |-> calls[c].victim, now |-> calls[c].now,
              todo |-> calls[c].todo, expired |-> calls[c].expired, then |-> calls[c].then]
  BY <1>1, CallTypes, GoneTo
<1>3. /\ x.pc = p /\ x.op = calls[c].op /\ x.sid = calls[c].sid /\ x.victim = calls[c].victim
      /\ x.todo = calls[c].todo /\ x.then = calls[c].then
  BY <1>2
<1>4. CallFine(x)
  BY <1>3, CallTypes DEF CallFine, NeedsSession
<1>5. Handled(x) = Handled(calls[c])
  BY <1>3 DEF Handled
<1>6. calls' = [calls EXCEPT ![c] = x]
  BY <1>1 DEF Goto, Become
<1>7. Quiet(c, x)
  BY <1>2, <1>3, <1>4, <1>5, <1>6 DEF Quiet
<1> QED
  BY <1>7

(* A call that returns. *)
LEMMA ReturnQuiet ==
  ASSUME SmInv, NEW c \in Callers, Return(c),
         calls[c].pc \notin {"record", "evict", "unlist"},
         UNCHANGED <<inner, issued, order, failed>>,
         known' \subseteq known \cup (Handled(calls[c]) \cap issued),
         DOMAIN states' \subseteq DOMAIN states \cup (Handled(calls[c]) \cap issued)
  PROVE  \E x : Quiet(c, x)
<1>1. Handled(Idle) = {NoSession} /\ Idle.pc = "idle"
  BY DEF Handled, Idle
<1>2. calls' = [calls EXCEPT ![c] = Idle]
  BY DEF Return, Become
<1>3. Quiet(c, Idle)
  BY <1>1, <1>2, IdleFine DEF Quiet
<1> QED
  BY <1>3

(* A call that goes on after a removal. *)
LEMMA ResumeQuiet ==
  ASSUME SmInv, NEW c \in Callers, Resume(c), calls[c].pc \in {"forget", "note"},
         UNCHANGED <<inner, issued, order, failed, known>>,
         DOMAIN states' \subseteq DOMAIN states
  PROVE  \E x : Quiet(c, x)
<1>1. CASE calls[c].then = "return"
  BY <1>1, ReturnQuiet DEF Resume
<1>2. CASE calls[c].then # "return"
  <2>1. PICK x : x = [calls[c] EXCEPT !.pc = calls[c].then, !.victim = NoSession, !.expired = FALSE]
    OBVIOUS
  <2>2. /\ x \in CallRecords
        /\ x = [pc |-> calls[c].then, op |-> calls[c].op, sid |-> calls[c].sid, victim |-> NoSession, now |-> calls[c].now,
                todo |-> calls[c].todo, expired |-> FALSE, then |-> calls[c].then]
    BY <1>2, <2>1, CallTypes, Resumed
  <2>3. /\ x.pc = calls[c].then /\ x.op = calls[c].op /\ x.sid = calls[c].sid /\ x.victim = NoSession
        /\ x.todo = calls[c].todo /\ x.then = calls[c].then
    BY <2>2
  <2>4. CallFine(x)
    BY <1>2, <2>3, CallTypes DEF CallFine, NeedsSession, Removal
  <2>5. Handled(x) \subseteq Handled(calls[c]) \cup {NoSession}
    BY <2>3 DEF Handled
  <2>6. calls' = [calls EXCEPT ![c] = x]
    BY <1>2, <2>1 DEF Resume, Become
  <2>7. x.pc \notin {"record", "evict"} /\ calls[c].pc \notin {"record", "evict", "unlist"}
    BY <2>3, CallTypes
  <2>8. Quiet(c, x)
    BY <2>2, <2>4, <2>5, <2>6, <2>7 DEF Quiet
  <2> QED
    BY <2>8
<1> QED
  BY <1>1, <1>2

(* A call that begins. *)
LEMMA CallQuiet ==
  ASSUME SmInv, NEW c \in Callers, Call(c)
  PROVE  \E x : Quiet(c, x)
<1>1. known \subseteq Sessions /\ clock \in Nat /\ known \subseteq issued /\ DOMAIN states \subseteq issued /\ issued \subseteq Sessions
  BY DEF SmInv, SmTypes
<1>2. ASSUME NEW op \in {"create", "sweep", "has"}, NEW sid \in known \cup {NoSession},
             op = "has" => sid \in known, BeginSwept(c, op, sid)
      PROVE  \E x : Quiet(c, x)
  <2> DEFINE due == IF SweepDue THEN {s \in DOMAIN states : IdleTooLong(s, clock)} ELSE {}
  <2>1. due \subseteq DOMAIN states
    OBVIOUS
  <2>2. PICK x : x = [Idle EXCEPT !.pc = "sweep", !.op = op, !.sid = sid, !.now = clock, !.todo = due]
    OBVIOUS
  <2>3. calls' = [calls EXCEPT ![c] = x] /\ calls[c].pc = "idle"
    BY <1>2, <2>2 DEF BeginSwept, Become, At
  <2>4. UNCHANGED <<inner, issued, known, order, states, failed>>
    BY <1>2 DEF BeginSwept
  <2> HIDE DEF due
  <2>5. x = [pc |-> "sweep", op |-> op, sid |-> sid, victim |-> NoSession, now |-> clock,
             todo |-> due, expired |-> FALSE, then |-> "return"]
    BY <2>2 DEF Idle
  <2>6. x \in CallRecords
    <3>1. /\ "sweep" \in Places /\ due \in SUBSET Sessions /\ sid \in Sessions \cup {NoSession}
          /\ NoSession \in Sessions \cup {NoSession}
      BY <1>1, <2>1 DEF Places
    <3> QED
      BY <1>1, <2>5, <3>1 DEF CallRecords
  <2>7. x.pc = "sweep" /\ x.op = op /\ x.sid = sid /\ x.victim = NoSession /\ x.todo = due /\ x.then = "return"
    BY <2>5
  <2>8. CallFine(x)
    BY <1>1, <1>2, <2>1, <2>7 DEF CallFine, NeedsSession, Removal
  <2>9. Handled(x) \subseteq known \cup DOMAIN states \cup {NoSession}
    BY <2>1, <2>7 DEF Handled
  <2>10. Quiet(c, x)
    BY <2>3, <2>4, <2>6, <2>7, <2>8, <2>9 DEF Quiet
  <2> QED
    BY <2>10
<1>3. ASSUME NEW op \in {"close", "send", "stream"}, NEW sid \in known, Begin(c, op, sid)
      PROVE  \E x : Quiet(c, x)
  <2>2. PICK x : x = [Idle EXCEPT !.pc = op, !.op = op, !.sid = sid]
    OBVIOUS
  <2>3. calls' = [calls EXCEPT ![c] = x] /\ calls[c].pc = "idle"
    BY <1>3, <2>2 DEF Begin, Become, At
  <2>4. UNCHANGED <<inner, issued, known, order, states, failed>>
    BY <1>3 DEF Begin
  <2>5. x = [pc |-> op, op |-> op, sid |-> sid, victim |-> NoSession, now |-> 0,
             todo |-> {}, expired |-> FALSE, then |-> "return"]
    BY <2>2 DEF Idle
  <2>6. x \in CallRecords
    <3>1. /\ op \in Places /\ {} \in SUBSET Sessions /\ sid \in Sessions \cup {NoSession}
          /\ NoSession \in Sessions \cup {NoSession} /\ 0 \in Nat
      BY <1>1 DEF Places
    <3> QED
      BY <2>5, <3>1 DEF CallRecords
  <2>7. x.pc = op /\ x.op = op /\ x.sid = sid /\ x.victim = NoSession /\ x.todo = {} /\ x.then = "return"
    BY <2>5
  <2>8. CallFine(x)
    BY <1>1, <2>7 DEF CallFine, NeedsSession, Removal
  <2>9. Handled(x) \subseteq known \cup {NoSession}
    BY <2>7 DEF Handled
  <2>10. Quiet(c, x)
    BY <2>3, <2>4, <2>6, <2>7, <2>8, <2>9 DEF Quiet
  <2> QED
    BY <2>10
<1> QED
  BY <1>2, <1>3 DEF Call

(* The steps that neither create, record, unlist nor close a session. *)
LEMMA QuietSteps ==
  ASSUME SmInv, NEW c \in Callers,
         \/ Call(c) \/ SweepEnds(c) \/ ForgetState(c) \/ NoteExpired(c) \/ InnerCreateFails(c)
         \/ Touch(c) \/ InnerSends(c) \/ InnerSendFails(c) \/ OpenStream(c)
         \/ Lookup(c) \/ LookupFails(c) \/ Judge(c)
  PROVE  \E x : Quiet(c, x)
<1>1. CASE Call(c)
  BY <1>1, CallQuiet
<1>2. CASE SweepEnds(c)
  <2>1. calls[c].pc = "sweep" /\ UNCHANGED <<inner, issued, known, order, states, failed>>
    BY <1>2 DEF SweepEnds, At
  <2>2. Goto(c, "create") \/ (Goto(c, "lookup") /\ calls[c].op = "has") \/ Return(c)
    BY <1>2 DEF SweepEnds
  <2>3. CASE Goto(c, "create")
    BY <2>1, <2>3, GotoQuiet DEF Places, Removal
  <2>4. CASE Goto(c, "lookup") /\ calls[c].op = "has"
    BY <2>1, <2>4, GotoQuiet DEF Places, Removal, NeedsSession
  <2>5. CASE Return(c)
    BY <2>1, <2>5, ReturnQuiet
  <2> QED
    BY <2>2, <2>3, <2>4, <2>5
<1>3. CASE ForgetState(c)
  <2>1. /\ calls[c].pc = "forget" /\ UNCHANGED <<inner, issued, known, order, failed>>
        /\ DOMAIN states' \subseteq DOMAIN states
        /\ Goto(c, "note") \/ Resume(c)
    BY <1>3 DEF ForgetState, At, Forget
  <2>2. CASE Goto(c, "note")
    BY <2>1, <2>2, GotoQuiet DEF Places, Removal
  <2> QED
    BY <2>1, <2>2, ResumeQuiet
<1>4. CASE NoteExpired(c)
  <2>1. /\ calls[c].pc = "note" /\ UNCHANGED <<inner, issued, known, order, failed>>
        /\ DOMAIN states' \subseteq DOMAIN states /\ Resume(c)
    BY <1>4 DEF NoteExpired, At, Forget
  <2> QED
    BY <2>1, ResumeQuiet
<1>5. CASE InnerCreateFails(c)
  <2>1. calls[c].pc = "create" /\ UNCHANGED <<inner, issued, known, order, states, failed>> /\ Return(c)
    BY <1>5 DEF InnerCreateFails, At
  <2> QED
    BY <2>1, ReturnQuiet
<1>6. CASE Touch(c)
  <2>1. /\ calls[c].pc = "touch" /\ UNCHANGED <<inner, issued, order, failed>>
        /\ known' \subseteq known \cup {calls[c].sid}
        /\ DOMAIN states' \subseteq DOMAIN states \cup {calls[c].sid}
        /\ Goto(c, "open") \/ Return(c)
    BY <1>6 DEF Touch, At, SetState
  <2>2. NeedsSession(calls[c])
    BY <2>1 DEF NeedsSession, Places, Removal
  <2>3. calls[c].sid \in Handled(calls[c]) \cap issued
    BY <2>2, CallTypes DEF CallFine, Handled
  <2>4. CASE Goto(c, "open")
    BY <2>1, <2>2, <2>3, <2>4, GotoQuiet DEF Places, Removal
  <2> QED
    BY <2>1, <2>3, <2>4, ReturnQuiet
<1>7. CASE InnerSends(c)
  <2>1. calls[c].pc \in {"send", "stream"} /\ UNCHANGED <<inner, issued, known, order, states, failed>> /\ Goto(c, "touch")
    BY <1>7 DEF InnerSends
  <2>2. NeedsSession(calls[c])
    BY <2>1 DEF NeedsSession, Places, Removal
  <2> QED
    BY <2>1, <2>2, GotoQuiet DEF Places, Removal
<1>8. CASE InnerSendFails(c)
  <2>1. calls[c].pc \in {"send", "stream"} /\ UNCHANGED <<inner, issued, known, order, states, failed>> /\ Return(c)
    BY <1>8 DEF InnerSendFails
  <2> QED
    BY <2>1, ReturnQuiet
<1>9. CASE OpenStream(c)
  <2>1. /\ calls[c].pc = "open" /\ UNCHANGED <<inner, issued, known, order, failed>> /\ Return(c)
        /\ DOMAIN states' \subseteq DOMAIN states \cup {calls[c].sid}
    BY <1>9 DEF OpenStream, At, SetState
  <2>2. NeedsSession(calls[c])
    BY <2>1 DEF NeedsSession, Places, Removal
  <2>3. calls[c].sid \in Handled(calls[c]) \cap issued
    BY <2>2, CallTypes DEF CallFine, Handled
  <2> QED
    BY <2>1, <2>3, ReturnQuiet
<1>10. CASE Lookup(c)
  <2>1. calls[c].pc = "lookup" /\ UNCHANGED <<inner, issued, known, order, states, failed>>
    BY <1>10 DEF Lookup, At
  <2>2. NeedsSession(calls[c])
    BY <2>1 DEF NeedsSession, Places, Removal
  <2>3. CASE calls[c].sid \in inner
    <3>1. Goto(c, "judge")
      BY <1>10, <2>3 DEF Lookup
    <3> QED
      BY <2>1, <2>2, <3>1, GotoQuiet DEF Places, Removal
  <2>4. CASE calls[c].sid \notin inner
    <3>1. calls[c].sid \in issued /\ calls[c].sid \in Sessions
      BY <2>2, CallTypes DEF CallFine, SmInv, SmTypes
    <3>2. PICK x : x = RemoveSession(calls[c], calls[c].sid, FALSE, "return")
      OBVIOUS
    <3>3. /\ x \in CallRecords
          /\ x = [pc |-> "unlist", op |-> calls[c].op, sid |-> calls[c].sid, victim |-> calls[c].sid, now |-> calls[c].now,
                  todo |-> calls[c].todo, expired |-> FALSE, then |-> "return"]
      BY <3>1, <3>2, CallTypes, Removing
    <3>4. /\ x.pc = "unlist" /\ x.op = calls[c].op /\ x.sid = calls[c].sid /\ x.victim = calls[c].sid
          /\ x.todo = calls[c].todo /\ x.then = "return"
      BY <3>3
    <3>5. CallFine(x)
      BY <2>4, <3>1, <3>4, CallTypes DEF CallFine
    <3>6. Handled(x) \subseteq Handled(calls[c])
      BY <3>4 DEF Handled
    <3>7. calls' = [calls EXCEPT ![c] = x]
      BY <1>10, <2>4, <3>2 DEF Lookup, Become
    <3>8. Quiet(c, x)
      BY <2>1, <3>3, <3>4, <3>5, <3>6, <3>7 DEF Quiet
    <3> QED
      BY <3>8
  <2> QED
    BY <2>3, <2>4
<1>11. CASE LookupFails(c)
  <2>1. calls[c].pc = "lookup" /\ UNCHANGED <<inner, issued, known, order, states, failed>> /\ Return(c)
    BY <1>11 DEF LookupFails, At
  <2> QED
    BY <2>1, ReturnQuiet
<1>12. CASE Judge(c)
  <2>1. /\ calls[c].pc = "judge" /\ UNCHANGED <<inner, issued, known, order, states, failed>>
        /\ Goto(c, "expire") \/ Return(c)
    BY <1>12 DEF Judge, At
  <2>2. NeedsSession(calls[c])
    BY <2>1 DEF NeedsSession, Places, Removal
  <2>3. CASE Goto(c, "expire")
    BY <2>1, <2>2, <2>3, GotoQuiet DEF Places, Removal
  <2> QED
    BY <2>1, <2>3, ReturnQuiet
<1> QED
  BY <1>1, <1>2, <1>3, <1>4, <1>5, <1>6, <1>7, <1>8, <1>9, <1>10, <1>11, <1>12

(* A session closed and, unless that failed, to be removed. *)
LEMMA RemovalCloses ==
  ASSUME SmInv, NEW c \in Callers, NEW call \in CallRecords, NEW s \in issued, NEW ok \in BOOLEAN,
         NEW e \in BOOLEAN, NEW t \in {"return", "sweep", "touch"},
         call.op = calls[c].op, call.sid = calls[c].sid, call.todo \subseteq calls[c].todo,
         t = "touch" => NeedsSession(calls[c]),
         s \in Handled(calls[c]), InnerClose(s, ok), Become(c, RemoveSession(call, s, e, t)),
         calls[c].pc \notin {"record", "unlist"}, calls[c].pc = "evict" => calls[c].victim = s,
         UNCHANGED <<issued, known, order, states>>
  PROVE  \E x : Closing(c, x, s)
<1>1. s \in Sessions
  BY DEF SmInv, SmTypes
<1>2. PICK x : x = RemoveSession(call, s, e, t)
  OBVIOUS
<1>3. /\ x \in CallRecords
      /\ x = [pc |-> "unlist", op |-> call.op, sid |-> call.sid, victim |-> s, now |-> call.now,
              todo |-> call.todo, expired |-> e, then |-> t]
  BY <1>1, <1>2, Removing
<1>4. /\ x.pc = "unlist" /\ x.op = calls[c].op /\ x.sid = calls[c].sid /\ x.victim = s
      /\ x.todo \subseteq calls[c].todo /\ x.then = t
  BY <1>3
<1>5. inner' = inner \ {s} /\ failed \subseteq failed'
  BY DEF InnerClose
<1>6. CallFine(x)'
  BY <1>4, <1>5, CallTypes DEF CallFine, NeedsSession, Removal, Places
<1>7. Handled(x) \subseteq Handled(calls[c])
  BY <1>4 DEF Handled
<1>8. calls' = [calls EXCEPT ![c] = x]
  BY <1>2 DEF Become
<1>9. Closing(c, x, s)
  BY <1>3, <1>4, <1>5, <1>6, <1>7, <1>8 DEF Closing
<1> QED
  BY <1>9

(* A close that failed. *)
LEMMA FailureCloses ==
  ASSUME SmInv, NEW c \in Callers, NEW x \in CallRecords, NEW s \in issued,
         x.pc \notin {"record", "evict"}, CallFine(x)', Handled(x) \subseteq Handled(calls[c]) \cup {NoSession},
         s \in Handled(calls[c]), InnerClose(s, FALSE), Become(c, x),
         calls[c].pc \notin {"record", "unlist", "evict"},
         UNCHANGED <<issued, known, order, states>>
  PROVE  Closing(c, x, s)
<1>1. inner' = inner \ {s} /\ failed' = failed \cup {s}
  BY DEF InnerClose
<1> QED
  BY <1>1 DEF Closing, Become

(* A sweep, an eviction, a close and an expiry close one session in RMCP. *)
LEMMA ClosingSteps ==
  ASSUME SmInv, NEW c \in Callers, SweepCloses(c) \/ Evict(c) \/ Close(c) \/ Expire(c)
  PROVE  \E x, s : Closing(c, x, s)
<1>1. CASE SweepCloses(c)
  <2>1. PICK s \in calls[c].todo, ok \in BOOLEAN :
          /\ InnerClose(s, ok)
          /\ Become(c, IF ok THEN RemoveSession([calls[c] EXCEPT !.todo = @ \ {s}], s, TRUE, "sweep")
                       ELSE [calls[c] EXCEPT !.todo = @ \ {s}])
    BY <1>1 DEF SweepCloses
  <2>2. calls[c].pc = "sweep" /\ UNCHANGED <<issued, known, order, states>>
    BY <1>1 DEF SweepCloses, At
  <2>3. s \in issued /\ s \in Sessions /\ s \in Handled(calls[c])
    BY <2>1, CallTypes DEF CallFine, Handled
  <2>4. PICK call : call = [calls[c] EXCEPT !.todo = @ \ {s}]
    OBVIOUS
  <2>5. /\ call \in CallRecords
        /\ call = [pc |-> calls[c].pc, op |-> calls[c].op, sid |-> calls[c].sid, victim |-> calls[c].victim, now |-> calls[c].now,
                   todo |-> calls[c].todo \ {s}, expired |-> calls[c].expired, then |-> calls[c].then]
    BY <2>3, <2>4, CallTypes, Carrying
  <2>6. /\ call.pc = calls[c].pc /\ call.op = calls[c].op /\ call.sid = calls[c].sid /\ call.victim = calls[c].victim
        /\ call.todo = calls[c].todo \ {s} /\ call.then = calls[c].then
    BY <2>5
  <2>7. CASE ok = TRUE
    <3>1. Become(c, RemoveSession(call, s, TRUE, "sweep"))
      BY <2>1, <2>4, <2>7
    <3>2. call.todo \subseteq calls[c].todo
      BY <2>6
    <3> QED
      BY <2>1, <2>2, <2>3, <2>5, <2>6, <3>1, <3>2, RemovalCloses
  <2>8. CASE ok = FALSE
    <3>1. Become(c, call) /\ InnerClose(s, FALSE)
      BY <2>1, <2>4, <2>8
    <3>2. CallFine(call)'
      BY <2>2, <2>6, CallTypes DEF CallFine, NeedsSession, Removal, Places
    <3>3. Handled(call) \subseteq Handled(calls[c])
      BY <2>6 DEF Handled
    <3> QED
      BY <2>2, <2>3, <2>5, <2>6, <3>1, <3>2, <3>3, FailureCloses
  <2> QED
    BY <2>7, <2>8
<1>2. CASE Evict(c)
  <2>1. PICK ok \in BOOLEAN : InnerClose(calls[c].victim, ok)
    BY <1>2 DEF Evict
  <2>2. /\ calls[c].pc = "evict" /\ UNCHANGED <<issued, known, order, states>>
        /\ Become(c, RemoveSession(calls[c], calls[c].victim, FALSE, "touch"))
    BY <1>2 DEF Evict, At
  <2>3. calls[c].victim \in issued /\ calls[c].victim \in Handled(calls[c]) /\ NeedsSession(calls[c])
    BY <2>2, CallTypes DEF CallFine, Handled, NeedsSession, Places, Removal
  <2> QED
    BY <2>1, <2>2, <2>3, CallTypes, RemovalCloses
<1>3. ASSUME NEW e \in BOOLEAN, NEW ok \in BOOLEAN, calls[c].pc \in {"close", "expire"}, InnerClose(calls[c].sid, ok),
             IF ok THEN Become(c, RemoveSession(calls[c], calls[c].sid, e, "return")) ELSE Return(c),
             UNCHANGED <<issued, known, order, states>>
      PROVE  \E x, s : Closing(c, x, s)
  <2>1. calls[c].sid \in issued /\ calls[c].sid \in Handled(calls[c])
    BY <1>3, CallTypes DEF CallFine, Handled, NeedsSession, Places, Removal
  <2>2. CASE ok = TRUE
    BY <1>3, <2>1, <2>2, CallTypes, RemovalCloses
  <2>3. CASE ok = FALSE
    <3>1. Become(c, Idle) /\ InnerClose(calls[c].sid, FALSE)
      BY <1>3, <2>3 DEF Return
    <3>2. CallFine(Idle)' /\ Handled(Idle) \subseteq Handled(calls[c]) \cup {NoSession} /\ Idle.pc = "idle"
      BY DEF CallFine, Handled, Idle, NeedsSession, Places, Removal
    <3> QED
      BY <1>3, <2>1, <3>1, <3>2, IdleFine, FailureCloses
  <2> QED
    BY <2>2, <2>3
<1>4. CASE Close(c)
  BY <1>3, <1>4 DEF Close, At
<1>5. CASE Expire(c)
  BY <1>3, <1>5 DEF Expire, At
<1> QED
  BY <1>1, <1>2, <1>4, <1>5

-----------------------------------------------------------------------------
(* The part of the invariant that is about calls, RMCP's sessions and the  *)
(* order.                                                                  *)
Core == calls \in [Callers -> CallRecords] /\ CallsFine /\ NewIsPrivate /\ Listed /\ PlacesGivenBack

(* One call changes, the others stay as they are. *)
LEMMA OneCall ==
  ASSUME SmInv, NEW c \in Callers, NEW x \in CallRecords, calls' = [calls EXCEPT ![c] = x]
  PROVE  /\ calls' \in [Callers -> CallRecords] /\ calls'[c] = x
         /\ \A d \in Callers : d # c => calls'[d] = calls[d]
BY DEF SmInv, SmTypes

(* A session in flight is in the hands of some call, and the other way     *)
(* round.                                                                  *)
LEMMA InFlightIs ==
  ASSUME NEW s
  PROVE  s \in InFlight <=> \E c \in Callers : \/ calls[c].pc = "record" /\ s = calls[c].sid
                                               \/ calls[c].pc = "evict" /\ s = calls[c].victim
BY DEF InFlight

(* A quiet step keeps the part of the invariant about calls and places. *)
LEMMA QuietKeeps ==
  ASSUME SmInv, NEW c \in Callers, NEW x, Quiet(c, x)
  PROVE  Core'
<1> USE DEF Quiet
<1>1. /\ calls' \in [Callers -> CallRecords] /\ calls'[c] = x
      /\ \A d \in Callers : d # c => calls'[d] = calls[d]
  BY OneCall
<1>2. CallsFine'
  <2>1. ASSUME NEW d \in Callers
        PROVE  CallFine(calls[d])'
    <3>1. CASE d = c
      BY <1>1, <3>1 DEF CallFine
    <3>2. CASE d # c
      BY <1>1, <3>2 DEF CallFine, SmInv, CallsFine
    <3> QED
      BY <3>1, <3>2
  <2> QED
    BY <2>1 DEF CallsFine
<1>3. NewIsPrivate'
  <2> SUFFICES ASSUME NEW d \in Callers, calls'[d].pc = "record"
               PROVE  /\ calls'[d].sid \in inner'
                      /\ calls'[d].sid \notin ToSet(order') \cup known' \cup DOMAIN states'
                      /\ \A e \in Callers \ {d} : calls'[d].sid \notin Handled(calls'[e])
    BY DEF NewIsPrivate, Handled
  <2>1. d # c /\ calls'[d] = calls[d]
    BY <1>1
  <2>2. /\ calls[d].sid \in inner /\ calls[d].sid # NoSession
        /\ calls[d].sid \notin ToSet(order) \cup known \cup DOMAIN states
        /\ \A e \in Callers \ {d} : calls[d].sid \notin Handled(calls[e])
    BY <2>1, CallTypes DEF SmInv, SmTypes, NewIsPrivate
  <2>3. calls[d].sid \notin Handled(calls[c]) /\ calls[d].sid \notin Handled(x)
    BY <2>1, <2>2
  <2> QED
    BY <1>1, <2>1, <2>2, <2>3
<1>4. Listed'
  <2>1. ASSUME NEW s \in InFlight
        PROVE  s \in InFlight'
    <3>1. PICK d \in Callers : \/ calls[d].pc = "record" /\ s = calls[d].sid
                               \/ calls[d].pc = "evict" /\ s = calls[d].victim
      BY InFlightIs
    <3>2. calls'[d] = calls[d]
      BY <1>1, <3>1
    <3> QED
      BY <3>1, <3>2 DEF InFlight
  <2> QED
    BY <2>1 DEF SmInv, Listed
<1>5. PlacesGivenBack'
  <2> SUFFICES ASSUME NEW s \in ToSet(order) \ inner, s \notin failed
               PROVE  \E d \in Callers : calls'[d].pc = "unlist" /\ calls'[d].victim = s
    BY DEF PlacesGivenBack
  <2>1. PICK d \in Callers : calls[d].pc = "unlist" /\ calls[d].victim = s
    BY DEF SmInv, PlacesGivenBack
  <2> QED
    BY <1>1, <2>1
<1> QED
  BY <1>1, <1>2, <1>3, <1>4, <1>5 DEF Core

(* So does a step that closes a session. *)
LEMMA ClosingKeeps ==
  ASSUME SmInv, NEW c \in Callers, NEW x, NEW s, Closing(c, x, s)
  PROVE  Core'
<1> USE DEF Closing
<1>1. /\ calls' \in [Callers -> CallRecords] /\ calls'[c] = x
      /\ \A d \in Callers : d # c => calls'[d] = calls[d]
  BY OneCall
<1>2. CallsFine'
  <2>1. ASSUME NEW d \in Callers
        PROVE  CallFine(calls[d])'
    <3>1. CASE d = c
      BY <1>1, <3>1 DEF CallFine
    <3>2. CASE d # c
      BY <1>1, <3>2 DEF CallFine, SmInv, CallsFine
    <3> QED
      BY <3>1, <3>2
  <2> QED
    BY <2>1 DEF CallsFine
<1>3. NewIsPrivate'
  <2> SUFFICES ASSUME NEW d \in Callers, calls'[d].pc = "record"
               PROVE  /\ calls'[d].sid \in inner'
                      /\ calls'[d].sid \notin ToSet(order') \cup known' \cup DOMAIN states'
                      /\ \A e \in Callers \ {d} : calls'[d].sid \notin Handled(calls'[e])
    BY DEF NewIsPrivate, Handled
  <2>1. d # c /\ calls'[d] = calls[d]
    BY <1>1
  <2>2. /\ calls[d].sid \in inner /\ calls[d].sid # NoSession
        /\ calls[d].sid \notin ToSet(order) \cup known \cup DOMAIN states
        /\ \A e \in Callers \ {d} : calls[d].sid \notin Handled(calls[e])
    BY <2>1, CallTypes DEF SmInv, SmTypes, NewIsPrivate
  <2>3. calls[d].sid \notin Handled(calls[c]) /\ calls[d].sid \notin Handled(x) /\ calls[d].sid # s
    BY <2>1, <2>2
  <2> QED
    BY <1>1, <2>1, <2>2, <2>3
<1>4. Listed'
  <2>1. ASSUME NEW t \in InFlight, t # s
        PROVE  t \in InFlight'
    <3>1. PICK d \in Callers : \/ calls[d].pc = "record" /\ t = calls[d].sid
                               \/ calls[d].pc = "evict" /\ t = calls[d].victim
      BY InFlightIs
    <3>2. calls'[d] = calls[d]
      BY <1>1, <2>1, <3>1
    <3> QED
      BY <3>1, <3>2 DEF InFlight
  <2> QED
    BY <2>1 DEF SmInv, Listed
<1>5. PlacesGivenBack'
  <2> SUFFICES ASSUME NEW t \in ToSet(order) \ inner', t \notin failed'
               PROVE  \E d \in Callers : calls'[d].pc = "unlist" /\ calls'[d].victim = t
    BY DEF PlacesGivenBack
  <2>1. CASE t = s
    BY <1>1, <2>1
  <2>2. CASE t # s
    <3>1. PICK d \in Callers : calls[d].pc = "unlist" /\ calls[d].victim = t
      BY <2>2 DEF SmInv, PlacesGivenBack
    <3> QED
      BY <1>1, <3>1
  <2> QED
    BY <2>1, <2>2
<1> QED
  BY <1>1, <1>2, <1>3, <1>4, <1>5 DEF Core

(* remove_session takes the session out of the order. *)
LEMMA UnlistKeeps ==
  ASSUME SmInv, NEW c \in Callers, Unlist(c)
  PROVE  Core' /\ order' \in Seq(Sessions) /\ ToSet(order') \subseteq ToSet(order)
<1>1. /\ calls[c].pc = "unlist" /\ order' = Retain(order, Sessions \ {calls[c].victim})
      /\ UNCHANGED <<inner, issued, known, states, failed>> /\ Goto(c, "forget")
  BY DEF Unlist, At
<1>2. PICK x : x = [calls[c] EXCEPT !.pc = "forget"]
  OBVIOUS
<1>3. /\ x \in CallRecords
      /\ x = [pc |-> "forget", op |-> calls[c].op, sid |-> calls[c].sid, victim |-> calls[c].victim, now |-> calls[c].now,
              todo |-> calls[c].todo, expired |-> calls[c].expired, then |-> calls[c].then]
  BY <1>2, CallTypes, GoneTo DEF Places, Removal
<1>4. /\ x.pc = "forget" /\ x.op = calls[c].op /\ x.sid = calls[c].sid /\ x.victim = calls[c].victim
      /\ x.todo = calls[c].todo /\ x.then = calls[c].then
  BY <1>3
<1>5. /\ calls' \in [Callers -> CallRecords] /\ calls'[c] = x
      /\ \A d \in Callers : d # c => calls'[d] = calls[d]
  BY <1>1, <1>2, <1>3, OneCall DEF Goto, Become
<1>6. order \in Seq(Sessions) /\ ToSet(order) \subseteq Sessions /\ calls[c].victim \notin inner /\ inner \subseteq Sessions
  BY <1>1, CallTypes DEF SmInv, SmTypes, CallFine, Removal
<1>7. /\ order' \in Seq(Sessions) /\ Len(order') <= Len(order)
      /\ ToSet(order') = ToSet(order) \ {calls[c].victim}
      /\ IsInjective(order) => IsInjective(order')
  BY <1>1, <1>6, Retained
<1>8. CallsFine'
  <2>1. ASSUME NEW d \in Callers
        PROVE  CallFine(calls[d])'
    <3>1. CASE d = c
      BY <1>1, <1>4, <1>5, <3>1, CallTypes DEF CallFine, NeedsSession, Removal, Places
    <3>2. CASE d # c
      BY <1>1, <1>5, <3>2 DEF CallFine, SmInv, CallsFine
    <3> QED
      BY <3>1, <3>2
  <2> QED
    BY <2>1 DEF CallsFine
<1>9. NewIsPrivate'
  <2> SUFFICES ASSUME NEW d \in Callers, calls'[d].pc = "record"
               PROVE  /\ calls'[d].sid \in inner'
                      /\ calls'[d].sid \notin ToSet(order') \cup known' \cup DOMAIN states'
                      /\ \A e \in Callers \ {d} : calls'[d].sid \notin Handled(calls'[e])
    BY DEF NewIsPrivate, Handled
  <2>1. d # c /\ calls'[d] = calls[d]
    BY <1>4, <1>5
  <2>2. /\ calls[d].sid \in inner
        /\ calls[d].sid \notin ToSet(order) \cup known \cup DOMAIN states
        /\ \A e \in Callers \ {d} : calls[d].sid \notin Handled(calls[e])
    BY <2>1 DEF SmInv, NewIsPrivate
  <2>3. Handled(x) = Handled(calls[c])
    BY <1>4 DEF Handled
  <2> QED
    BY <1>1, <1>5, <1>7, <2>1, <2>2, <2>3
<1>10. Listed'
  <2>1. ASSUME NEW t \in InFlight
        PROVE  t \in InFlight'
    <3>1. PICK d \in Callers : \/ calls[d].pc = "record" /\ t = calls[d].sid
                               \/ calls[d].pc = "evict" /\ t = calls[d].victim
      BY InFlightIs
    <3>2. calls'[d] = calls[d]
      BY <1>1, <1>5, <3>1
    <3> QED
      BY <3>1, <3>2 DEF InFlight
  <2>2. Len(order') <= MaxSessions
    BY <1>6, <1>7, ConstantsAssumption DEF SmInv, Listed
  <2> QED
    BY <1>1, <1>6, <1>7, <2>1, <2>2 DEF SmInv, Listed
<1>11. PlacesGivenBack'
  <2> SUFFICES ASSUME NEW t \in ToSet(order') \ inner, t \notin failed
               PROVE  \E d \in Callers : calls'[d].pc = "unlist" /\ calls'[d].victim = t
    BY <1>1 DEF PlacesGivenBack
  <2>1. PICK d \in Callers : calls[d].pc = "unlist" /\ calls[d].victim = t
    BY <1>7 DEF SmInv, PlacesGivenBack
  <2>2. d # c
    BY <1>7, <2>1
  <2> QED
    BY <1>5, <2>1, <2>2
<1> QED
  BY <1>5, <1>7, <1>8, <1>9, <1>10, <1>11 DEF Core

(* The inner manager hands out an id nobody has seen. *)
LEMMA InnerCreatesKeeps ==
  ASSUME SmInv, NEW c \in Callers, InnerCreates(c)
  PROVE  Core'
<1>1. PICK s \in Sessions \ issued :
        /\ inner' = inner \cup {s} /\ issued' = issued \cup {s}
        /\ Become(c, [calls[c] EXCEPT !.pc = "record", !.sid = s])
  BY DEF InnerCreates
<1>2. calls[c].pc = "create" /\ UNCHANGED <<known, order, states, failed>>
  BY DEF InnerCreates, At
<1>3. PICK x : x = [calls[c] EXCEPT !.pc = "record", !.sid = s]
  OBVIOUS
<1>4. /\ x \in CallRecords
      /\ x = [pc |-> "record", op |-> calls[c].op, sid |-> s, victim |-> calls[c].victim, now |-> calls[c].now,
              todo |-> calls[c].todo, expired |-> calls[c].expired, then |-> calls[c].then]
  BY <1>3, CallTypes, Carrying
<1>5. /\ x.pc = "record" /\ x.op = calls[c].op /\ x.sid = s /\ x.victim = calls[c].victim
      /\ x.todo = calls[c].todo /\ x.then = calls[c].then
  BY <1>4
<1>6. /\ calls' \in [Callers -> CallRecords] /\ calls'[c] = x
      /\ \A d \in Callers : d # c => calls'[d] = calls[d]
  BY <1>1, <1>3, <1>4, OneCall DEF Become
<1>7. /\ s \notin ToSet(order) \cup known \cup DOMAIN states
      /\ \A d \in Callers : s \notin Handled(calls[d])
  BY ConstantsAssumption DEF SmInv, SmTypes, CallsFine, CallFine, Handled
<1>8. CallsFine'
  <2>1. ASSUME NEW d \in Callers
        PROVE  CallFine(calls[d])'
    <3>1. CASE d = c
      BY <1>1, <1>5, <1>6, <3>1, CallTypes DEF CallFine, NeedsSession, Removal, Places
    <3>2. CASE d # c
      BY <1>1, <1>6, <3>2 DEF CallFine, SmInv, CallsFine
    <3> QED
      BY <3>1, <3>2
  <2> QED
    BY <2>1 DEF CallsFine
<1>9. NewIsPrivate'
  <2> SUFFICES ASSUME NEW d \in Callers, calls'[d].pc = "record"
               PROVE  /\ calls'[d].sid \in inner'
                      /\ calls'[d].sid \notin ToSet(order') \cup known' \cup DOMAIN states'
                      /\ \A e \in Callers \ {d} : calls'[d].sid \notin Handled(calls'[e])
    BY DEF NewIsPrivate, Handled
  <2>1. CASE d = c
    BY <1>1, <1>2, <1>5, <1>6, <1>7, <2>1
  <2>2. CASE d # c
    <3>1. calls'[d] = calls[d]
      BY <1>6, <2>2
    <3>2. /\ calls[d].sid \in inner /\ calls[d].sid # s
          /\ calls[d].sid \notin ToSet(order) \cup known \cup DOMAIN states
          /\ \A e \in Callers \ {d} : calls[d].sid \notin Handled(calls[e])
      BY <1>1, <3>1 DEF SmInv, SmTypes, NewIsPrivate
    <3>3. calls[d].sid \notin Handled(x)
      BY <1>5, <2>2, <3>2 DEF Handled
    <3> QED
      BY <1>1, <1>2, <1>6, <3>1, <3>2, <3>3
  <2> QED
    BY <2>1, <2>2
<1>10. Listed'
  <2>1. ASSUME NEW t \in InFlight
        PROVE  t \in InFlight'
    <3>1. PICK d \in Callers : \/ calls[d].pc = "record" /\ t = calls[d].sid
                               \/ calls[d].pc = "evict" /\ t = calls[d].victim
      BY InFlightIs
    <3>2. calls'[d] = calls[d]
      BY <1>2, <1>6, <3>1
    <3> QED
      BY <3>1, <3>2 DEF InFlight
  <2>2. s \in InFlight'
    BY <1>5, <1>6 DEF InFlight
  <2> QED
    BY <1>1, <1>2, <2>1, <2>2 DEF SmInv, Listed
<1>11. PlacesGivenBack'
  <2> SUFFICES ASSUME NEW t \in ToSet(order) \ inner', t \notin failed
               PROVE  \E d \in Callers : calls'[d].pc = "unlist" /\ calls'[d].victim = t
    BY <1>2 DEF PlacesGivenBack
  <2>1. PICK d \in Callers : calls[d].pc = "unlist" /\ calls[d].victim = t
    BY <1>1 DEF SmInv, PlacesGivenBack
  <2> QED
    BY <1>2, <1>6, <2>1
<1> QED
  BY <1>6, <1>8, <1>9, <1>10, <1>11 DEF Core

(* record_session, with room or with an eviction. *)
LEMMA RecordSessionKeeps ==
  ASSUME SmInv, NEW c \in Callers, RecordSession(c)
  PROVE  Core' /\ order' \in Seq(Sessions) /\ ToSet(order') \subseteq issued
<1> DEFINE sid == calls[c].sid
           grown == Append(order, sid)
<1>1. calls[c].pc = "record" /\ UNCHANGED <<inner, issued, known, states, failed>>
  BY DEF RecordSession, At
<1>2. /\ sid \in inner /\ sid \in issued /\ sid \in Sessions
      /\ sid \notin ToSet(order) \cup known \cup DOMAIN states
      /\ \A e \in Callers \ {c} : sid \notin Handled(calls[e])
  BY <1>1 DEF SmInv, SmTypes, NewIsPrivate
<1>3. /\ order \in Seq(Sessions) /\ Len(order) \in Nat /\ Len(order) <= MaxSessions /\ IsInjective(order)
      /\ ToSet(order) \subseteq issued /\ issued \subseteq Sessions /\ MaxSessions \in Nat \ {0}
  BY ConstantsAssumption DEF SmInv, SmTypes, Listed
<1>4. /\ grown \in Seq(Sessions) /\ Len(grown) = Len(order) + 1
      /\ ToSet(grown) = ToSet(order) \cup {sid} /\ IsInjective(grown)
  BY <1>2, <1>3, Appended
<1>5. IF Len(grown) > MaxSessions
        THEN order' = Tail(grown) /\ Become(c, [calls[c] EXCEPT !.pc = "evict", !.victim = Head(grown)])
        ELSE order' = grown /\ Goto(c, "touch")
  BY DEF RecordSession
<1> HIDE DEF grown, sid
(* The two outcomes have this in common. *)
<1>6. ASSUME NEW x \in CallRecords, calls' = [calls EXCEPT ![c] = x], CallFine(x),
             x.pc \notin {"record", "unlist"}, Handled(x) \subseteq Handled(calls[c]) \cup ToSet(grown),
             order' \in Seq(Sessions), IsInjective(order'), Len(order') <= MaxSessions,
             ToSet(order') \subseteq ToSet(grown),
             \A t \in ToSet(grown) \ ToSet(order') : x.pc = "evict" /\ x.victim = t
      PROVE  Core' /\ order' \in Seq(Sessions) /\ ToSet(order') \subseteq issued
  <2>1. /\ calls' \in [Callers -> CallRecords] /\ calls'[c] = x
        /\ \A d \in Callers : d # c => calls'[d] = calls[d]
    BY <1>6, OneCall
  <2>2. CallsFine'
    <3>1. ASSUME NEW d \in Callers
          PROVE  CallFine(calls[d])'
      <4>1. CASE d = c
        BY <1>1, <1>6, <2>1, <4>1 DEF CallFine
      <4>2. CASE d # c
        BY <1>1, <2>1, <4>2 DEF CallFine, SmInv, CallsFine
      <4> QED
        BY <4>1, <4>2
    <3> QED
      BY <3>1 DEF CallsFine
  <2>3. NewIsPrivate'
    <3> SUFFICES ASSUME NEW d \in Callers, calls'[d].pc = "record"
                 PROVE  /\ calls'[d].sid \in inner'
                        /\ calls'[d].sid \notin ToSet(order') \cup known' \cup DOMAIN states'
                        /\ \A e \in Callers \ {d} : calls'[d].sid \notin Handled(calls'[e])
      BY DEF NewIsPrivate, Handled
    <3>1. d # c /\ calls'[d] = calls[d]
      BY <1>6, <2>1
    <3>2. /\ calls[d].sid \in inner
          /\ calls[d].sid \notin ToSet(order) \cup known \cup DOMAIN states
          /\ \A e \in Callers \ {d} : calls[d].sid \notin Handled(calls[e])
      BY <3>1 DEF SmInv, NewIsPrivate
    <3>3. sid \in Handled(calls[c])
      BY DEF sid, Handled
    <3>4. calls[d].sid \notin ToSet(grown) /\ calls[d].sid \notin Handled(x)
      BY <1>4, <1>6, <3>1, <3>2, <3>3
    <3> QED
      BY <1>1, <1>6, <2>1, <3>1, <3>2, <3>4
  <2>4. Listed'
    <3>1. ASSUME NEW t \in inner
          PROVE  t \in ToSet(order') \cup InFlight'
      <4>1. CASE t \in ToSet(grown)
        <5>1. CASE t \in ToSet(order')
          BY <5>1
        <5>2. CASE t \notin ToSet(order')
          <6>1. calls'[c].pc = "evict" /\ calls'[c].victim = t
            BY <1>6, <2>1, <4>1, <5>2
          <6> QED
            BY <6>1 DEF InFlight
        <5> QED
          BY <5>1, <5>2
      <4>2. CASE t \notin ToSet(grown)
        <5>1. t \in InFlight
          BY <1>4, <4>2 DEF SmInv, Listed
        <5>2. PICK d \in Callers : \/ calls[d].pc = "record" /\ t = calls[d].sid
                                   \/ calls[d].pc = "evict" /\ t = calls[d].victim
          BY <5>1, InFlightIs
        <5>3. d # c
          BY <1>1, <1>4, <4>2, <5>2 DEF sid
        <5>4. calls'[d] = calls[d]
          BY <2>1, <5>3
        <5> QED
          BY <5>2, <5>4 DEF InFlight
      <4> QED
        BY <4>1, <4>2
    <3> QED
      BY <1>1, <1>6, <3>1 DEF Listed
  <2>5. PlacesGivenBack'
    <3> SUFFICES ASSUME NEW t \in ToSet(order') \ inner, t \notin failed
                 PROVE  \E d \in Callers : calls'[d].pc = "unlist" /\ calls'[d].victim = t
      BY <1>1 DEF PlacesGivenBack
    <3>1. t \in ToSet(order)
      BY <1>2, <1>4, <1>6
    <3>2. PICK d \in Callers : calls[d].pc = "unlist" /\ calls[d].victim = t
      BY <3>1 DEF SmInv, PlacesGivenBack
    <3> QED
      BY <1>1, <2>1, <3>2
  <2>6. ToSet(order') \subseteq issued
    BY <1>2, <1>3, <1>4, <1>6
  <2> QED
    BY <1>6, <2>1, <2>2, <2>3, <2>4, <2>5, <2>6 DEF Core
<1>7. CASE Len(grown) > MaxSessions
  <2>1. Len(grown) > 0
    BY <1>3, <1>4
  <2>2. /\ Tail(grown) \in Seq(Sessions) /\ Len(Tail(grown)) = Len(grown) - 1
        /\ Head(grown) \in Sessions /\ ToSet(grown) = ToSet(Tail(grown)) \cup {Head(grown)}
        /\ IsInjective(Tail(grown))
    BY <1>4, <2>1, Tailed
  <2>3. PICK x : x = [calls[c] EXCEPT !.pc = "evict", !.victim = Head(grown)]
    OBVIOUS
  <2>4. /\ x \in CallRecords
        /\ x = [pc |-> "evict", op |-> calls[c].op, sid |-> calls[c].sid, victim |-> Head(grown), now |-> calls[c].now,
                todo |-> calls[c].todo, expired |-> calls[c].expired, then |-> calls[c].then]
    BY <2>2, <2>3, CallTypes, Carrying
  <2>5. /\ x.pc = "evict" /\ x.op = calls[c].op /\ x.sid = calls[c].sid /\ x.victim = Head(grown)
        /\ x.todo = calls[c].todo /\ x.then = calls[c].then
    BY <2>4
  <2>6. Head(grown) \in issued
    BY <1>2, <1>3, <1>4, <2>2
  <2>7. CallFine(x)
    BY <1>1, <1>2, <2>5, <2>6, CallTypes DEF CallFine, NeedsSession, Removal, Places, sid
  <2>8. Handled(x) \subseteq Handled(calls[c]) \cup ToSet(grown)
    BY <2>2, <2>5 DEF Handled
  <2>9. order' = Tail(grown) /\ calls' = [calls EXCEPT ![c] = x]
    BY <1>5, <1>7, <2>3 DEF Become
  <2>10. Len(order') <= MaxSessions
    BY <1>3, <1>4, <2>2, <2>9
  <2> QED
    BY <1>6, <2>2, <2>4, <2>5, <2>7, <2>8, <2>9, <2>10
<1>8. CASE ~(Len(grown) > MaxSessions)
  <2>1. PICK x : x = [calls[c] EXCEPT !.pc = "touch"]
    OBVIOUS
  <2>2. /\ x \in CallRecords
        /\ x = [pc |-> "touch", op |-> calls[c].op, sid |-> calls[c].sid, victim |-> calls[c].victim, now |-> calls[c].now,
                todo |-> calls[c].todo, expired |-> calls[c].expired, then |-> calls[c].then]
    BY <2>1, CallTypes, GoneTo DEF Places
  <2>3. /\ x.pc = "touch" /\ x.op = calls[c].op /\ x.sid = calls[c].sid /\ x.victim = calls[c].victim
        /\ x.todo = calls[c].todo /\ x.then = calls[c].then
    BY <2>2
  <2>4. CallFine(x)
    BY <1>1, <1>2, <2>3, CallTypes DEF CallFine, NeedsSession, Removal, Places, sid
  <2>5. Handled(x) \subseteq Handled(calls[c])
    BY <2>3 DEF Handled
  <2>6. order' = grown /\ calls' = [calls EXCEPT ![c] = x]
    BY <1>5, <1>8, <2>1 DEF Goto, Become
  <2>7. Len(order') <= MaxSessions
    BY <1>3, <1>4, <1>8, <2>6
  <2> QED
    BY <1>4, <1>6, <2>2, <2>3, <2>4, <2>5, <2>6, <2>7
<1> QED
  BY <1>7, <1>8

-----------------------------------------------------------------------------
(* The lifecycle states and the streams they count. *)

(* What a step leaves of the types, the calls and the order apart. *)
Shape ==
  /\ clock \in Nat /\ lastSweep \in Nat
  /\ issued \subseteq Sessions /\ inner \subseteq issued /\ known \subseteq issued
  /\ DOMAIN states \subseteq issued
  /\ \A s \in DOMAIN states : states[s] \in LifecycleStates
  /\ live \in [Sessions -> Nat] /\ ended \in [Sessions -> Nat]

Counters == Shape /\ StreamsCounted /\ NoStreamYet

(* The lifecycle state written for n streams counts n, and is dated when n is 0. *)
LEMMA StateWithIs ==
  ASSUME NEW n \in Nat, NEW now \in Nat
  PROVE  /\ StateWith(n, now) \in LifecycleStates /\ StateWith(n, now).active = n
         /\ StateWith(n, now).since = Never <=> n > 0
<1>1. Never \notin Nat
  BY ConstantsAssumption
<1> QED
  BY <1>1 DEF StateWith, LifecycleStates

(* The state read for a session of RMCP counts its open streams. *)
LEMMA StateOfIs ==
  ASSUME SmInv, NEW s \in Sessions, NEW now \in Nat
  PROVE  /\ StateOf(s, now).active \in Nat
         /\ s \in inner => StateOf(s, now).active = live[s]
BY DEF SmInv, SmTypes, StateOf, LifecycleStates, StreamsCounted

(* One lifecycle state changes. *)
LEMMA StateSet ==
  ASSUME SmInv, NEW s \in issued, NEW st \in LifecycleStates, SetState(s, st)
  PROVE  /\ DOMAIN states' = DOMAIN states \cup {s} /\ DOMAIN states' \subseteq issued
         /\ states'[s] = st /\ \A t \in DOMAIN states : t # s => states'[t] = states[t]
         /\ \A t \in DOMAIN states' : states'[t] \in LifecycleStates
BY DEF SmInv, SmTypes, SetState

(* The steps that touch neither the states nor the streams, and close      *)
(* sessions at most.                                                       *)
LEMMA CountersFrame ==
  ASSUME SmInv, UNCHANGED <<states, live, ended, issued>>, inner' \subseteq inner,
         known' \subseteq issued, clock' \in Nat, lastSweep' \in Nat
  PROVE  Counters'
<1>1. Shape'
  BY DEF SmInv, SmTypes, Shape
<1>2. StreamsCounted'
  BY DEF SmInv, StreamsCounted
<1>3. NoStreamYet'
  BY DEF SmInv, NoStreamYet
<1> QED
  BY <1>1, <1>2, <1>3 DEF Counters

(* A session RMCP has let go of loses its state. *)
LEMMA CountersForget ==
  ASSUME SmInv, NEW c \in Callers, calls[c].pc \in Removal, states' = Forget(states, calls[c].victim),
         UNCHANGED <<inner, issued, known, live, ended, clock, lastSweep>>
  PROVE  Counters'
<1>1. calls[c].victim \notin inner
  BY CallTypes DEF CallFine
<1>2. /\ DOMAIN states' = DOMAIN states \ {calls[c].victim}
      /\ \A t \in DOMAIN states' : states'[t] = states[t]
  BY DEF Forget
<1>3. Shape'
  BY <1>2 DEF SmInv, SmTypes, Shape
<1>4. StreamsCounted'
  BY <1>1, <1>2 DEF SmInv, SmTypes, StreamsCounted
<1>5. NoStreamYet'
  BY DEF SmInv, NoStreamYet
<1> QED
  BY <1>3, <1>4, <1>5 DEF Counters

(* A stream that is closed: mark_stream_closed. *)
LEMMA CountersClose ==
  ASSUME SmInv, NEW s \in Sessions, live[s] > 0, live' = [live EXCEPT ![s] = @ - 1], MarkClosed(s),
         UNCHANGED <<inner, issued, known, clock, lastSweep>>, ended' \in [Sessions -> Nat]
  PROVE  Counters'
<1>1. live[s] \in Nat /\ live \in [Sessions -> Nat] /\ clock \in Nat
  BY DEF SmInv, SmTypes
<1>2. live[s] - 1 \in Nat
  BY <1>1
<1>3. live' \in [Sessions -> Nat] /\ live'[s] = live[s] - 1 /\ \A t \in Sessions : t # s => live'[t] = live[t]
  BY <1>1, <1>2
<1>4. s \in issued
  BY <1>1 DEF SmInv, NoStreamYet
<1>5. NoStreamYet'
  BY <1>3, <1>4 DEF SmInv, NoStreamYet
<1>6. CASE s \in DOMAIN states
  <2> DEFINE n == SaturatingSub(states[s].active, 1)
             st == StateWith(n, clock)
  <2>1. states[s].active \in Nat
    BY <1>6 DEF SmInv, SmTypes, LifecycleStates
  <2>2. n \in Nat /\ (s \in inner => n = live[s] - 1)
    BY <1>1, <1>6, <2>1 DEF SaturatingSub, SmInv, StreamsCounted
  <2>3. SetState(s, st)
    BY <1>6 DEF MarkClosed
  <2> HIDE DEF n
  <2>4. st \in LifecycleStates /\ st.active = n /\ (st.since = Never <=> n > 0)
    BY <1>1, <2>2, StateWithIs
  <2> HIDE DEF st
  <2>5. /\ DOMAIN states' = DOMAIN states \cup {s} /\ DOMAIN states' \subseteq issued
        /\ states'[s] = st /\ \A t \in DOMAIN states : t # s => states'[t] = states[t]
        /\ \A t \in DOMAIN states' : states'[t] \in LifecycleStates
    BY <1>4, <2>3, <2>4, StateSet
  <2>6. Shape'
    BY <1>3, <2>5 DEF SmInv, SmTypes, Shape
  <2>7. StreamsCounted'
    <3> SUFFICES ASSUME NEW t \in inner
                 PROVE  IF t \in DOMAIN states'
                          THEN states'[t].active = live'[t] /\ (states'[t].since = Never <=> live'[t] > 0)
                          ELSE live'[t] = 0
      BY DEF StreamsCounted
    <3>1. t \in Sessions
      BY DEF SmInv, SmTypes
    <3>2. CASE t = s
      BY <1>3, <2>2, <2>4, <2>5, <3>2
    <3>3. CASE t # s
      BY <1>3, <2>5, <3>1, <3>3 DEF SmInv, StreamsCounted
    <3> QED
      BY <3>2, <3>3
  <2> QED
    BY <1>5, <2>6, <2>7 DEF Counters
<1>7. CASE s \notin DOMAIN states
  <2>1. states' = states /\ s \notin inner
    BY <1>7 DEF MarkClosed, SmInv, StreamsCounted
  <2>2. Shape'
    BY <1>3, <2>1 DEF SmInv, SmTypes, Shape
  <2>3. StreamsCounted'
    BY <1>3, <2>1 DEF SmInv, SmTypes, StreamsCounted
  <2> QED
    BY <1>5, <2>2, <2>3 DEF Counters
<1> QED
  BY <1>6, <1>7

(* touch_session_activity *)
LEMMA CountersTouch ==
  ASSUME SmInv, NEW c \in Callers, Touch(c)
  PROVE  Counters'
<1> DEFINE call == calls[c]
           s == call.sid
           now == IF call.op = "create" THEN call.now ELSE clock
           n == StateOf(s, now).active
           st == StateWith(n, now)
<1>1. /\ call.pc = "touch" /\ SetState(s, Touched(s, now)) /\ known' \subseteq known \cup {s}
      /\ UNCHANGED <<inner, issued, live, ended, clock, lastSweep>>
  BY DEF Touch, At, streams
<1>2. s \in issued /\ s \in Sessions
  <2>1. NeedsSession(call)
    BY <1>1 DEF NeedsSession, Places, Removal
  <2> QED
    BY <2>1, CallTypes DEF CallFine, SmInv, SmTypes
<1>3. now \in Nat
  BY CallTypes DEF CallRecords, SmInv, SmTypes
<1> HIDE DEF now
<1>4. n \in Nat /\ (s \in inner => n = live[s])
  BY <1>2, <1>3, StateOfIs
<1>5. SetState(s, st)
  BY <1>1 DEF Touched
<1> HIDE DEF n
<1>6. st \in LifecycleStates /\ st.active = n /\ (st.since = Never <=> n > 0)
  BY <1>3, <1>4, StateWithIs
<1> HIDE DEF st
<1>7. /\ DOMAIN states' = DOMAIN states \cup {s} /\ DOMAIN states' \subseteq issued
      /\ states'[s] = st /\ \A t \in DOMAIN states : t # s => states'[t] = states[t]
      /\ \A t \in DOMAIN states' : states'[t] \in LifecycleStates
  BY <1>2, <1>5, <1>6, StateSet
<1>8. Shape'
  BY <1>1, <1>2, <1>7 DEF SmInv, SmTypes, Shape
<1>9. StreamsCounted'
  <2> SUFFICES ASSUME NEW t \in inner
               PROVE  IF t \in DOMAIN states'
                        THEN states'[t].active = live[t] /\ (states'[t].since = Never <=> live[t] > 0)
                        ELSE live[t] = 0
    BY <1>1 DEF StreamsCounted
  <2>1. CASE t = s
    BY <1>4, <1>6, <1>7, <2>1
  <2>2. CASE t # s
    BY <1>7, <2>2 DEF SmInv, StreamsCounted
  <2> QED
    BY <2>1, <2>2
<1>10. NoStreamYet'
  BY <1>1 DEF SmInv, NoStreamYet
<1> QED
  BY <1>8, <1>9, <1>10 DEF Counters

(* mark_stream_open *)
LEMMA CountersOpen ==
  ASSUME SmInv, NEW c \in Callers, OpenStream(c)
  PROVE  Counters'
<1> DEFINE s == calls[c].sid
           n == StateOf(s, clock).active + 1
           st == StateWith(n, clock)
<1>1. /\ calls[c].pc = "open" /\ live' = [live EXCEPT ![s] = @ + 1] /\ SetState(s, st)
      /\ UNCHANGED <<inner, issued, known, ended, clock, lastSweep>>
  BY DEF OpenStream, At
<1>2. s \in issued /\ s \in Sessions
  <2>1. NeedsSession(calls[c])
    BY <1>1 DEF NeedsSession, Places, Removal
  <2> QED
    BY <2>1, CallTypes DEF CallFine, SmInv, SmTypes
<1>3. clock \in Nat /\ live \in [Sessions -> Nat] /\ live[s] \in Nat
  BY <1>2 DEF SmInv, SmTypes
<1>4. n \in Nat /\ n > 0 /\ (s \in inner => n = live[s] + 1)
  BY <1>2, <1>3, StateOfIs
<1> HIDE DEF n
<1>5. st \in LifecycleStates /\ st.active = n /\ st.since = Never
  BY <1>3, <1>4, StateWithIs
<1> HIDE DEF st
<1>6. /\ DOMAIN states' = DOMAIN states \cup {s} /\ DOMAIN states' \subseteq issued
      /\ states'[s] = st /\ \A t \in DOMAIN states : t # s => states'[t] = states[t]
      /\ \A t \in DOMAIN states' : states'[t] \in LifecycleStates
  BY <1>1, <1>2, <1>5, StateSet
<1> HIDE DEF s
<1>7. live' \in [Sessions -> Nat] /\ live'[s] = live[s] + 1 /\ \A t \in Sessions : t # s => live'[t] = live[t]
  <2>1. live[s] + 1 \in Nat
    BY <1>3
  <2> QED
    BY <1>1, <1>2, <1>3, <2>1
<1>8. Shape'
  BY <1>1, <1>6, <1>7 DEF SmInv, SmTypes, Shape
<1>9. StreamsCounted'
  <2> SUFFICES ASSUME NEW t \in inner
               PROVE  IF t \in DOMAIN states'
                        THEN states'[t].active = live'[t] /\ (states'[t].since = Never <=> live'[t] > 0)
                        ELSE live'[t] = 0
    BY <1>1 DEF StreamsCounted
  <2>1. t \in Sessions
    BY DEF SmInv, SmTypes
  <2>2. CASE t = s
    BY <1>3, <1>4, <1>5, <1>6, <1>7, <2>2
  <2>3. CASE t # s
    BY <1>6, <1>7, <2>1, <2>3 DEF SmInv, StreamsCounted
  <2> QED
    BY <2>2, <2>3
<1>10. NoStreamYet'
  BY <1>1, <1>2, <1>7 DEF SmInv, NoStreamYet
<1> QED
  BY <1>8, <1>9, <1>10 DEF Counters

(* A new session has no streams and no state. *)
LEMMA CountersCreate ==
  ASSUME SmInv, NEW c \in Callers, InnerCreates(c)
  PROVE  Counters'
<1>1. PICK s \in Sessions \ issued : inner' = inner \cup {s} /\ issued' = issued \cup {s}
  BY DEF InnerCreates
<1>2. UNCHANGED <<known, states, live, ended, clock, lastSweep>>
  BY DEF InnerCreates, streams
<1>3. live[s] = 0 /\ s \notin DOMAIN states
  BY DEF SmInv, SmTypes, NoStreamYet
<1>4. Shape'
  BY <1>1, <1>2 DEF SmInv, SmTypes, Shape
<1>5. StreamsCounted'
  BY <1>1, <1>2, <1>3 DEF SmInv, StreamsCounted
<1>6. NoStreamYet'
  BY <1>1, <1>2 DEF SmInv, NoStreamYet
<1> QED
  BY <1>4, <1>5, <1>6 DEF Counters

-----------------------------------------------------------------------------
(* A step of the lifecycle states alone keeps calls and places as they were. *)
LEMMA CoreFrame ==
  ASSUME SmInv, UNCHANGED <<inner, issued, known, order, calls, failed>>, DOMAIN states' \subseteq DOMAIN states
  PROVE  Core'
<1>1. calls' \in [Callers -> CallRecords]
  BY DEF SmInv, SmTypes
<1>2. CallsFine'
  BY DEF SmInv, CallsFine, CallFine
<1>3. NewIsPrivate'
  BY DEF SmInv, NewIsPrivate, Handled
<1>4. Listed'
  BY DEF SmInv, Listed, InFlight
<1>5. PlacesGivenBack'
  BY DEF SmInv, PlacesGivenBack
<1> QED
  BY <1>1, <1>2, <1>3, <1>4, <1>5 DEF Core

(* What the lemmas about single steps add up to. *)
LEMMA Together ==
  ASSUME Core, Counters, order \in Seq(Sessions), ToSet(order) \subseteq issued
  PROVE  SmInv
BY DEF Core, Counters, Shape, SmInv, SmTypes

(* The manager starts in the invariant. *)
LEMMA SmInit == Init => SmInv
<1> SUFFICES ASSUME Init
             PROVE  SmInv
  OBVIOUS
<1> USE DEF Init
<1>1. ToSet(order) = {} /\ order \in Seq(Sessions) /\ Len(order) = 0 /\ IsInjective(order) /\ DOMAIN states = {}
  BY DEF ToSet, IsInjective
<1>2. Counters
  <2>1. clock \in Nat
    BY ConstantsAssumption
  <2>2. Shape
    BY <1>1, <2>1 DEF Shape
  <2> QED
    BY <2>2 DEF Counters, StreamsCounted, NoStreamYet
<1>3. /\ calls \in [Callers -> CallRecords]
      /\ \A c \in Callers : calls[c] = Idle /\ calls[c].pc = "idle"
  <2>1. Idle.pc = "idle"
    BY DEF Idle
  <2> QED
    BY <2>1, IdleFine
<1>4. CallsFine
  BY <1>3, IdleFine DEF CallsFine
<1>5. NewIsPrivate
  BY <1>3 DEF NewIsPrivate
<1>6. Listed
  BY <1>1, ConstantsAssumption DEF Listed
<1>7. PlacesGivenBack
  BY <1>1 DEF PlacesGivenBack
<1>8. Core
  BY <1>3, <1>4, <1>5, <1>6, <1>7 DEF Core
<1> QED
  BY <1>1, <1>2, <1>8, Together

(* Every step keeps the invariant. *)
LEMMA SmStep == SmInv /\ [Next]_vars => SmInv'
<1> SUFFICES ASSUME SmInv, [Next]_vars
             PROVE  SmInv'
  OBVIOUS
<1>1. /\ order \in Seq(Sessions) /\ ToSet(order) \subseteq issued /\ clock \in Nat /\ lastSweep \in Nat
      /\ inner \subseteq issued /\ known \subseteq issued /\ live \in [Sessions -> Nat] /\ ended \in [Sessions -> Nat]
  BY DEF SmInv, SmTypes
<1>2. SUFFICES Core' /\ Counters' /\ order' \in Seq(Sessions) /\ ToSet(order') \subseteq issued'
  <2>1. Core' /\ Counters' /\ (order \in Seq(Sessions))' /\ (ToSet(order) \subseteq issued)'
    BY <1>2 DEF ToSet
  <2> QED
    BY <2>1, Together, PTL
<1>3. ASSUME NEW c \in Callers,
             \/ Call(c) \/ SweepEnds(c) \/ InnerCreateFails(c) \/ InnerSends(c) \/ InnerSendFails(c)
             \/ Lookup(c) \/ LookupFails(c) \/ Judge(c)
      PROVE  Core' /\ Counters' /\ order' \in Seq(Sessions) /\ ToSet(order') \subseteq issued'
  <2>1. Core'
    BY <1>3, QuietSteps, QuietKeeps
  <2>2. UNCHANGED <<clock, inner, issued, known, order, states, live, ended>> /\ lastSweep' \in {lastSweep, clock}
    BY <1>3 DEF Call, BeginSwept, Begin, SweepEnds, InnerCreateFails, InnerSends, InnerSendFails, Lookup,
                LookupFails, Judge, streams
  <2>3. Counters'
    BY <1>1, <2>2, CountersFrame
  <2> QED
    BY <1>1, <2>1, <2>2, <2>3
<1>4. ASSUME NEW c \in Callers, ForgetState(c) \/ NoteExpired(c)
      PROVE  Core' /\ Counters' /\ order' \in Seq(Sessions) /\ ToSet(order') \subseteq issued'
  <2>1. Core'
    BY <1>4, QuietSteps, QuietKeeps
  <2>2. /\ calls[c].pc \in Removal /\ states' = Forget(states, calls[c].victim)
        /\ UNCHANGED <<clock, inner, issued, known, order, lastSweep, live, ended>>
    BY <1>4 DEF ForgetState, NoteExpired, At, Removal, streams
  <2>3. Counters'
    BY <2>2, CountersForget
  <2> QED
    BY <1>1, <2>1, <2>2, <2>3
<1>5. ASSUME NEW c \in Callers, Touch(c) \/ OpenStream(c)
      PROVE  Core' /\ Counters' /\ order' \in Seq(Sessions) /\ ToSet(order') \subseteq issued'
  <2>1. Core'
    BY <1>5, QuietSteps, QuietKeeps
  <2>2. UNCHANGED <<issued, order>>
    BY <1>5 DEF Touch, OpenStream
  <2> QED
    BY <1>1, <1>5, <2>1, <2>2, CountersTouch, CountersOpen
<1>6. ASSUME NEW c \in Callers, SweepCloses(c) \/ Evict(c) \/ Close(c) \/ Expire(c)
      PROVE  Core' /\ Counters' /\ order' \in Seq(Sessions) /\ ToSet(order') \subseteq issued'
  <2>1. Core'
    BY <1>6, ClosingSteps, ClosingKeeps
  <2>2. UNCHANGED <<clock, issued, known, order, states, lastSweep, live, ended>> /\ inner' \subseteq inner
    BY <1>6 DEF SweepCloses, Evict, Close, Expire, InnerClose, streams
  <2>3. Counters'
    BY <1>1, <2>2, CountersFrame
  <2> QED
    BY <1>1, <2>1, <2>2, <2>3
<1>7. ASSUME NEW c \in Callers, Unlist(c)
      PROVE  Core' /\ Counters' /\ order' \in Seq(Sessions) /\ ToSet(order') \subseteq issued'
  <2>1. UNCHANGED <<clock, inner, issued, known, states, lastSweep, live, ended>>
    BY <1>7 DEF Unlist, streams
  <2>2. Counters'
    BY <1>1, <2>1, CountersFrame
  <2> QED
    BY <1>1, <1>7, <2>1, <2>2, UnlistKeeps
<1>8. ASSUME NEW c \in Callers, InnerCreates(c)
      PROVE  Core' /\ Counters' /\ order' \in Seq(Sessions) /\ ToSet(order') \subseteq issued'
  <2>1. order' = order /\ issued \subseteq issued'
    BY <1>8 DEF InnerCreates
  <2> QED
    BY <1>1, <1>8, <2>1, InnerCreatesKeeps, CountersCreate
<1>9. ASSUME NEW c \in Callers, RecordSession(c)
      PROVE  Core' /\ Counters' /\ order' \in Seq(Sessions) /\ ToSet(order') \subseteq issued'
  <2>1. UNCHANGED <<clock, inner, issued, known, states, lastSweep, live, ended>>
    BY <1>9 DEF RecordSession, streams
  <2>2. Counters'
    BY <1>1, <2>1, CountersFrame
  <2> QED
    BY <1>9, <2>1, <2>2, RecordSessionKeeps
<1>10. ASSUME NEW s \in Sessions, StreamEnds(s) \/ StreamDropped(s)
       PROVE  Core' /\ Counters' /\ order' \in Seq(Sessions) /\ ToSet(order') \subseteq issued'
  <2>1. /\ live[s] > 0 /\ live' = [live EXCEPT ![s] = @ - 1] /\ MarkClosed(s)
        /\ UNCHANGED <<clock, inner, issued, known, order, lastSweep, calls, failed>>
    BY <1>10 DEF StreamEnds, StreamDropped
  <2>2. ended' \in [Sessions -> Nat]
    <3>1. ended[s] + 1 \in Nat
      BY <1>1
    <3>2. ended' = ended \/ ended' = [ended EXCEPT ![s] = ended[s] + 1]
      BY <1>10 DEF StreamEnds, StreamDropped
    <3> QED
      BY <1>1, <3>1, <3>2
  <2>3. DOMAIN states' \subseteq DOMAIN states
    BY <2>1 DEF MarkClosed, SetState
  <2>4. Core'
    BY <2>1, <2>3, CoreFrame
  <2>5. Counters'
    BY <2>1, <2>2, CountersClose
  <2> QED
    BY <1>1, <2>1, <2>4, <2>5
<1>11. ASSUME NEW s \in Sessions, EndedDropped(s)
       PROVE  Core' /\ Counters' /\ order' \in Seq(Sessions) /\ ToSet(order') \subseteq issued'
  <2>1. /\ ended[s] > 0 /\ ended' = [ended EXCEPT ![s] = ended[s] - 1]
        /\ UNCHANGED <<clock, inner, issued, known, order, lastSweep, calls, failed, states, live>>
    BY <1>11 DEF EndedDropped
  <2>2. ended' \in [Sessions -> Nat]
    <3>1. ended[s] - 1 \in Nat
      BY <1>1, <2>1
    <3> QED
      BY <1>1, <2>1, <3>1
  <2>3. Core'
    BY <2>1, CoreFrame
  <2>4. Shape'
    BY <2>1, <2>2 DEF SmInv, SmTypes, Shape
  <2>5. StreamsCounted' /\ NoStreamYet'
    BY <2>1 DEF SmInv, StreamsCounted, NoStreamYet
  <2> QED
    BY <1>1, <2>1, <2>3, <2>4, <2>5 DEF Counters
<1>12. ASSUME ClockSteps \/ UNCHANGED vars
       PROVE  Core' /\ Counters' /\ order' \in Seq(Sessions) /\ ToSet(order') \subseteq issued'
  <2>1. /\ UNCHANGED <<inner, issued, known, order, states, lastSweep, live, ended, calls, failed>>
        /\ clock' \in Nat
    BY <1>1, <1>12, ConstantsAssumption DEF ClockSteps, vars, streams
  <2>2. Core'
    BY <2>1, CoreFrame
  <2>3. Counters'
    BY <1>1, <2>1, CountersFrame
  <2> QED
    BY <1>1, <2>1, <2>2, <2>3
<1> QED
  BY <1>3, <1>4, <1>5, <1>6, <1>7, <1>8, <1>9, <1>10, <1>11, <1>12 DEF Next

-----------------------------------------------------------------------------
(* A function has no more values than arguments. *)
LEMMA ImageBound ==
  ASSUME NEW S, IsFiniteSet(S), NEW f, f = [x \in S |-> f[x]]
  PROVE  IsFiniteSet({f[x] : x \in S}) /\ Cardinality({f[x] : x \in S}) <= Cardinality(S)
<1> DEFINE V == {f[x] : x \in S}
<1>1. f \in Surjection(S, V)
  BY DEF Surjection
<1> HIDE DEF V
<1>2. IsFiniteSet(V) /\ Cardinality(V) <= Cardinality(S)
  BY <1>1, FS_Surjection
<1> QED
  BY <1>2 DEF V

(* The sessions in the hands of create_session are no more than those      *)
(* calls, and the listed ones no more than the order is long.              *)
LEMMA BoundHolds == SmInv => SessionsBounded
<1> SUFFICES ASSUME SmInv
             PROVE  SessionsBounded
  OBVIOUS
<1> DEFINE R == {c \in Callers : calls[c].pc \in {"record", "evict"}}
           held == [c \in R |-> IF calls[c].pc = "record" THEN calls[c].sid ELSE calls[c].victim]
           H == {held[c] : c \in R}
           n == Len(order)
           L == {order[i] : i \in 1..n}
<1>1. IsFiniteSet(R)
  BY ConstantsAssumption, FS_Subset
<1>2. IsFiniteSet(H) /\ Cardinality(H) <= Cardinality(R)
  <2>1. held = [c \in R |-> held[c]]
    OBVIOUS
  <2> HIDE DEF R, held
  <2> QED
    BY <1>1, <2>1, ImageBound
<1>3. n \in Nat /\ n <= MaxSessions /\ MaxSessions \in Nat /\ L = ToSet(order)
  BY ConstantsAssumption DEF SmInv, SmTypes, Listed, ToSet
<1>4. IsFiniteSet(1..n) /\ Cardinality(1..n) = n
  <2> HIDE DEF n
  <2>1. IsFiniteSet(1..n) /\ Cardinality(1..n) = IF 1 > n THEN 0 ELSE n - 1 + 1
    BY <1>3, FS_Interval
  <2> QED
    BY <1>3, <2>1
<1>5. IsFiniteSet(L) /\ Cardinality(L) <= n
  <2>1. IsFiniteSet(L) /\ Cardinality(L) <= Cardinality(1..n)
    <3>1. order = [i \in 1..n |-> order[i]]
      BY DEF SmInv, SmTypes
    <3> HIDE DEF n
    <3> QED
      BY <1>4, <3>1, ImageBound
  <2> HIDE DEF L, n
  <2> QED
    BY <1>4, <2>1
<1>6. InFlight \subseteq H
  BY DEF InFlight
<1>7. inner \subseteq L \cup H
  BY <1>3, <1>6 DEF SmInv, Listed
<1> HIDE DEF L, H, n
<1>8. /\ IsFiniteSet(L \cup H)
      /\ Cardinality(L \cup H) = Cardinality(L) + Cardinality(H) - Cardinality(L \cap H)
      /\ Cardinality(L \cap H) \in Nat
  <2>1. IsFiniteSet(L \cap H)
    BY <1>2, FS_Subset
  <2> QED
    BY <1>2, <1>5, <2>1, FS_Union, FS_CardinalityType
<1>9. Cardinality(inner) <= Cardinality(L \cup H)
  BY <1>7, <1>8, FS_Subset
<1>10. Cardinality(inner) \in Nat /\ Cardinality(L) \in Nat /\ Cardinality(H) \in Nat /\ Cardinality(R) \in Nat /\ Cardinality(L \cup H) \in Nat
  <2>1. IsFiniteSet(inner)
    BY <1>7, <1>8, FS_Subset
  <2> HIDE DEF R
  <2> QED
    BY <1>1, <1>2, <1>5, <1>8, <2>1, FS_CardinalityType
<1>11. Cardinality(inner) <= MaxSessions + Cardinality(R)
  <2> HIDE DEF R
  <2> QED
    BY <1>2, <1>3, <1>5, <1>8, <1>9, <1>10
<1> QED
  BY <1>11 DEF SmInv, Listed, SessionsBounded

(* The invariant holds in every reachable state. *)
LEMMA SmInvariant == Spec => []SmInv
<1>1. Init => SmInv
  BY SmInit
<1>2. SmInv /\ [Next]_vars => SmInv'
  BY SmStep
<1> QED
  BY <1>1, <1>2, PTL DEF Spec

(* max_sessions bounds the sessions RMCP holds, but for one per            *)
(* create_session under way, and no session is listed twice, whatever      *)
(* creates, closes, evictions and sweeps overlap.                          *)
THEOREM SessionBound == Spec => []SessionsBounded
<1>1. SmInv => SessionsBounded
  BY BoundHolds
<1> QED
  BY <1>1, SmInvariant, PTL

(* remove_session gives every place back: a listed session RMCP no longer  *)
(* holds is about to be unlisted, or its close has failed.                 *)
THEOREM PlacesReturn == Spec => []PlacesGivenBack
<1>1. SmInv => PlacesGivenBack
  BY DEF SmInv
<1> QED
  BY <1>1, SmInvariant, PTL

(* The lifecycle counter of every session RMCP holds is the number of its  *)
(* open streams, and it has a disconnection time only when there are none. *)
THEOREM StreamCount == Spec => []StreamsCounted
<1>1. SmInv => StreamsCounted
  BY DEF SmInv
<1> QED
  BY <1>1, SmInvariant, PTL

=============================================================================
