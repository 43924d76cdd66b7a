------------------------- MODULE SessionTurnsProofs -------------------------
(***************************************************************************)
(* Several turns on one session, for any number of turns and calls: what   *)
(* the shared checkpoint and the saves that overwrite each other cannot    *)
(* break, however the turns overlap, and what needs them one at a time.    *)
(***************************************************************************)
EXTENDS SessionTurns, FiniteSetTheorems, TLAPS

(* A host has finitely many goroutines.                                    *)
Assumptions ==
  /\ CallAssumption /\ InputAssumption /\ FlagAssumption /\ BoundAssumption
  /\ IsFiniteSet(Turns)

Places == {"idle", "reconcile", "begin", "loop", "confirm", "denied", "start", "effect",
           "record", "finish"}
Holding == {"confirm", "denied", "start", "effect", "record"}  \* places with a call in hand
Outcomes == {"none", "completed", "max_iterations", "cancelled", "refused", "error",
             "interrupted", "paused"}
TurnStates ==
  [pc : Places, outcome : Outcomes, input : {"text", "image", "odd"}, run : BOOLEAN,
   resumed : BOOLEAN, iterations : Nat, call : Calls \cup {NoCall}, session : Sessions]
Messages == [kind : {"user", "asks", "result", "answer"},
             of : {"text", "image", "odd"} \cup Calls]

----------------------------------------------------------------------------
(* Histories and sessions.                                                 *)

LEMMA AppendMessage ==
  ASSUME NEW msgs \in Seq(Messages), NEW m \in Messages
  PROVE  /\ Append(msgs, m) \in Seq(Messages)
         /\ Asked(Append(msgs, m)) = Asked(msgs) \cup (IF m.kind = "asks" THEN {m.of} ELSE {})
         /\ Answered(Append(msgs, m)) =
              Answered(msgs) \cup (IF m.kind = "result" THEN {m.of} ELSE {})
<1> DEFINE new == Append(msgs, m)
<1>1. /\ new \in Seq(Messages) /\ DOMAIN new = DOMAIN msgs \cup {Len(msgs) + 1}
      /\ new[Len(msgs) + 1] = m /\ \A i \in DOMAIN msgs : new[i] = msgs[i]
  OBVIOUS
<1> HIDE DEF new
<1>2. Asked(new) = Asked(msgs) \cup (IF m.kind = "asks" THEN {m.of} ELSE {})
  BY <1>1 DEF Asked
<1>3. Answered(new) = Answered(msgs) \cup (IF m.kind = "result" THEN {m.of} ELSE {})
  BY <1>1 DEF Answered
<1> QED BY <1>1, <1>2, <1>3 DEF new

(* The session a turn continues with.                                      *)
Told(s, m) == [s EXCEPT !.msgs = Append(@, m)]

LEMMA TellSession ==
  ASSUME NEW s \in Sessions, NEW m \in Messages
  PROVE  /\ Told(s, m) \in Sessions
         /\ Told(s, m).state = s.state /\ Told(s, m).pending = s.pending
         /\ Told(s, m).cp = s.cp /\ Told(s, m).msgs = Append(s.msgs, m)
         /\ Asked(Told(s, m).msgs) = Asked(s.msgs) \cup (IF m.kind = "asks" THEN {m.of} ELSE {})
         /\ Answered(Told(s, m).msgs) =
              Answered(s.msgs) \cup (IF m.kind = "result" THEN {m.of} ELSE {})
<1>1. s.msgs \in Seq(Messages)
  BY DEF Sessions, Histories, Messages
<1>2. /\ Append(s.msgs, m) \in Seq(Messages)
      /\ Asked(Append(s.msgs, m)) = Asked(s.msgs) \cup (IF m.kind = "asks" THEN {m.of} ELSE {})
      /\ Answered(Append(s.msgs, m)) =
           Answered(s.msgs) \cup (IF m.kind = "result" THEN {m.of} ELSE {})
  BY <1>1, AppendMessage
<1>3. /\ Told(s, m).state = s.state /\ Told(s, m).pending = s.pending
      /\ Told(s, m).cp = s.cp /\ Told(s, m).msgs = Append(s.msgs, m)
  BY DEF Told, Sessions
<1>4. Told(s, m) \in Sessions
  BY <1>2 DEF Told, Sessions, Histories, Messages
<1> QED BY <1>2, <1>3, <1>4

LEMMA MessageTypes ==
  /\ \A input \in {"text", "image", "odd"} : User(input) \in Messages /\ User(input).kind = "user"
  /\ \A c \in Calls : /\ Asks(c) \in Messages /\ Asks(c).kind = "asks" /\ Asks(c).of = c
                      /\ Result(c) \in Messages /\ Result(c).kind = "result" /\ Result(c).of = c
  /\ Answer \in Messages /\ Answer.kind = "answer"
  BY DEF User, Asks, Result, Answer, Messages

LEMMA EmptySession ==
  ASSUME NEW how \in Outcomes, NEW input \in {"text", "image", "odd"}
  PROVE  /\ Idle(how, input) \in TurnStates
         /\ Idle(how, input).pc = "idle" /\ Idle(how, input).call = NoCall
         /\ Idle(how, input).iterations = 0 /\ Idle(how, input).run = FALSE
         /\ Idle(how, input).session.cp = NoCell /\ Idle(how, input).session.state = "active"
         /\ Idle(how, input).session.pending = NoCall
         /\ Asked(Idle(how, input).session.msgs) = {}
         /\ Answered(Idle(how, input).session.msgs) = {}
<1>1. Asked(<<>>) = {} /\ Answered(<<>>) = {}
  BY DEF Asked, Answered
<1>2. Idle(how, input) \in TurnStates
  BY DEF Idle, TurnStates, Places, Sessions, Histories, NoCell
<1> QED BY <1>1, <1>2 DEF Idle

----------------------------------------------------------------------------
(* Types, and a checkpoint for every turn.                                 *)

(* The store's checkpoint is also in use by a turn, unless some turn uses  *)
(* none: that leaves a cell for a turn that opens a checkpoint.            *)
CellLeft == \E u \in Turns : Session(u).cp \in {NoCell, store.cp}

TypeInv ==
  /\ TypeOK
  /\ \A t \in Turns : /\ At(t, "idle") => Session(t).cp = NoCell
                      /\ turn[t].pc \in Holding => turn[t].call \in Calls
  /\ Turns # {} => CellLeft

LEMMA TypeMeans ==
  TypeOK <=>
    /\ store \in Sessions
    /\ cells \in [CellIds -> Checkpoints]
    /\ turn \in [Turns -> TurnStates]
    /\ \A t \in Turns : turn[t].iterations <= Limit(t)
    /\ Durable => store.cp # NoCell /\ \A t \in Turns : At(t, "idle") \/ Session(t).cp # NoCell
    /\ effects \in [Calls -> Nat] /\ approvals \in [Calls -> Nat]
    /\ ops \in 0 .. MaxOps /\ failures \in 0 .. MaxFailures
  BY DEF TypeOK, TurnStates, Places, Outcomes

(* There are more cells than sessions that could use them.                 *)
LEMMA CellFound ==
  ASSUME Assumptions, TypeInv, Turns # {}
  PROVE  /\ FreeCell \in CellIds /\ FreeCell # store.cp
         /\ \A t \in Turns : Session(t).cp # FreeCell
<1> DEFINE used == {Session(t).cp : t \in Turns}
           n == Cardinality(Turns)
<1>1. IsFiniteSet(Turns) /\ n \in Nat
  BY FS_CardinalityType DEF Assumptions
<1>2. IsFiniteSet(used) /\ Cardinality(used) <= n
  <2> DEFINE uses == [t \in Turns |-> Session(t).cp]
  <2>1. uses \in Surjection(Turns, used)
    BY DEF Surjection
  <2> QED BY <1>1, <2>1, FS_Surjection
<1>3. IsFiniteSet(CellIds) /\ Cardinality(CellIds) = n + 1
  BY <1>1, FS_Interval DEF CellIds
<1>4. PICK u \in Turns : Session(u).cp \in {NoCell, store.cp}
  BY DEF TypeInv, CellLeft
<1> DEFINE taken == (used \cup {store.cp}) \cap CellIds
<1>5. IsFiniteSet(taken) /\ Cardinality(taken) <= n
  <2>1. CASE Session(u).cp = store.cp
    <3>1. taken \subseteq used
      BY <1>4, <2>1
    <3> QED BY <1>1, <1>2, <3>1, FS_Subset, FS_CardinalityType
  <2>2. CASE Session(u).cp = NoCell
    <3>1. NoCell \in used /\ NoCell \notin CellIds
      BY <1>4, <2>2 DEF NoCell, CellIds
    <3>2. IsFiniteSet(used \ {NoCell}) /\ Cardinality(used \ {NoCell}) = Cardinality(used) - 1
      BY <1>2, <3>1, FS_RemoveElement
    <3> DEFINE others == used \ {NoCell}
    <3>3. IsFiniteSet(others \cup {store.cp}) /\ Cardinality(others \cup {store.cp}) <= n
      <4>1. IsFiniteSet(others) /\ Cardinality(others) <= n - 1 /\ Cardinality(others) \in Nat
        BY <1>1, <1>2, <3>2, FS_CardinalityType
      <4> HIDE DEF others
      <4>2. IsFiniteSet(others \cup {store.cp})
            /\ Cardinality(others \cup {store.cp}) <= Cardinality(others) + 1
        BY <4>1, FS_AddElement
      <4>3. Cardinality(others \cup {store.cp}) \in Nat
        BY <4>2, FS_CardinalityType
      <4> QED BY <1>1, <4>1, <4>2, <4>3
    <3>4. taken \subseteq (used \ {NoCell}) \cup {store.cp}
      BY <3>1
    <3> QED BY <1>1, <3>3, <3>4, FS_Subset, FS_CardinalityType
  <2> QED BY <1>4, <2>1, <2>2
<1>6. CellIds # taken
  BY <1>1, <1>3, <1>5
<1>7. \E i \in CellIds : i # store.cp /\ \A t \in Turns : Session(t).cp # i
  BY <1>6
<1> QED BY <1>7 DEF FreeCell

----------------------------------------------------------------------------
(* What a step makes of its turn.                                          *)

After(t, place, call, session) ==
  /\ turn' \in [Turns -> TurnStates]
  /\ turn'[t].pc = place /\ turn'[t].call = call /\ turn'[t].session = session
  /\ Limit(t)' \in Nat /\ turn'[t].iterations <= Limit(t)'
  /\ \A u \in Turns : u # t => turn'[u] = turn[u]

LEMMA TurnFacts ==
  ASSUME Assumptions, TypeInv, NEW t \in Turns
  PROVE  /\ turn \in [Turns -> TurnStates] /\ turn[t] \in TurnStates
         /\ Session(t) \in Sessions /\ turn[t].call \in Calls \cup {NoCall}
         /\ turn[t].iterations \in Nat /\ Limit(t) \in Nat /\ turn[t].iterations <= Limit(t)
         /\ turn[t].input \in {"text", "image", "odd"} /\ turn[t].outcome \in Outcomes
         /\ store \in Sessions /\ cells \in [CellIds -> Checkpoints]
         /\ Durable /\ ~At(t, "idle") => Session(t).cp \in CellIds
         /\ Durable => store.cp \in CellIds
         /\ turn[t].pc \in Holding => turn[t].call \in Calls
<1>1. turn \in [Turns -> TurnStates] /\ turn[t].iterations <= Limit(t)
      /\ store \in Sessions /\ cells \in [CellIds -> Checkpoints]
  BY TypeMeans DEF TypeInv
<1>2. turn[t] \in TurnStates
  BY <1>1
<1>3. Limit(t) \in Nat
  BY DEF Limit, Assumptions, BoundAssumption
<1>4. /\ Session(t) \in Sessions /\ turn[t].call \in Calls \cup {NoCall}
      /\ turn[t].iterations \in Nat
      /\ turn[t].input \in {"text", "image", "odd"} /\ turn[t].outcome \in Outcomes
  BY <1>2 DEF TurnStates, Session
<1>5. store.cp \in CellIds \cup {NoCell} /\ Session(t).cp \in CellIds \cup {NoCell}
  BY <1>1, <1>4 DEF Sessions
<1>6. Durable => store.cp # NoCell /\ (At(t, "idle") \/ Session(t).cp # NoCell)
  BY TypeMeans DEF TypeInv
<1>7. turn[t].pc \in Holding => turn[t].call \in Calls
  BY DEF TypeInv
<1> QED BY <1>1, <1>2, <1>3, <1>4, <1>5, <1>6, <1>7

(* The fields that steps change, in the combinations they do.              *)
LEMMA AfterFields ==
  ASSUME Assumptions, TypeInv, NEW t \in Turns, NEW r \in TurnStates,
         turn' = [turn EXCEPT ![t] = r],
         r.iterations <= IF r.run THEN RunIterations ELSE DefaultIterations
  PROVE  After(t, r.pc, r.call, r.session)
<1>1. turn \in [Turns -> TurnStates]
  BY TurnFacts
<1>2. turn' \in [Turns -> TurnStates] /\ turn'[t] = r
      /\ \A u \in Turns : u # t => turn'[u] = turn[u]
  BY <1>1
<1>3. Limit(t)' \in Nat /\ r.iterations <= Limit(t)'
  BY <1>2 DEF Limit, Assumptions, BoundAssumption
<1> QED BY <1>2, <1>3 DEF After

LEMMA MoveAfter ==
  ASSUME Assumptions, TypeInv, NEW t \in Turns, NEW place \in Places, NEW s \in Sessions,
         Move(t, place, s)
  PROVE  After(t, place, turn[t].call, s)
<1> DEFINE c == turn[t]
           r == [c EXCEPT !.pc = place, !.session = s]
<1>1. c \in TurnStates /\ turn' = [turn EXCEPT ![t] = r] /\ c.iterations <= Limit(t)
  BY TurnFacts DEF Move
<1>2. c.iterations <= IF c.run THEN RunIterations ELSE DefaultIterations
  BY <1>1 DEF Limit
<1> HIDE DEF c
<1>3. /\ r.pc = place /\ r.call = c.call /\ r.session = s /\ r.iterations = c.iterations
      /\ r.run = c.run /\ r \in TurnStates
  BY <1>1 DEF TurnStates
<1> HIDE DEF r
<1> QED BY <1>1, <1>2, <1>3, AfterFields DEF c

LEMMA AbandonAfter ==
  ASSUME Assumptions, TypeInv, NEW t \in Turns, NEW why \in Outcomes, Abandon(t, why)
  PROVE  /\ After(t, "idle", NoCall, Idle(why, turn[t].input).session)
         /\ Idle(why, turn[t].input).session \in Sessions
         /\ Idle(why, turn[t].input).session.cp = NoCell
         /\ Idle(why, turn[t].input).session.state = "active"
         /\ Idle(why, turn[t].input).session.pending = NoCall
         /\ Asked(Idle(why, turn[t].input).session.msgs) = {}
         /\ Answered(Idle(why, turn[t].input).session.msgs) = {}
<1> DEFINE r == Idle(why, turn[t].input)
<1>1. turn[t].input \in {"text", "image", "odd"}
  BY TurnFacts
<1>2. turn' = [turn EXCEPT ![t] = r]
  BY DEF Abandon
<1>3. /\ r \in TurnStates /\ r.pc = "idle" /\ r.call = NoCall
      /\ r.iterations = 0 /\ r.run = FALSE
      /\ r.session.cp = NoCell /\ r.session.state = "active"
      /\ r.session.pending = NoCall
      /\ Asked(r.session.msgs) = {} /\ Answered(r.session.msgs) = {}
  BY <1>1, EmptySession
<1> HIDE DEF r
<1>4. After(t, "idle", NoCall, r.session)
  <2>1. DefaultIterations \in Nat
    BY DEF Assumptions, BoundAssumption
  <2>2. r.iterations <= IF r.run THEN RunIterations ELSE DefaultIterations
    BY <1>3, <2>1
  <2>3. After(t, r.pc, r.call, r.session)
    BY <1>2, <1>3, <2>2, AfterFields
  <2> QED BY <1>3, <2>3
<1>5. r.session \in Sessions
  BY <1>3 DEF TurnStates
<1> QED BY <1>3, <1>4, <1>5 DEF r

(* Saving changes the write-ahead of the session's checkpoint and no other.*)
Saved(s, c) ==
  /\ store' = IF Durable THEN s ELSE store
  /\ cells' \in [CellIds -> Checkpoints]
  /\ \A i \in CellIds : cells'[i].call = IF Durable /\ i = s.cp THEN c ELSE cells[i].call

LEMMA SaveDoes ==
  ASSUME Assumptions, TypeInv, NEW t \in Turns, NEW s, NEW c \in Calls \cup {NoCall},
         SaveWith(t, s, c)
  PROVE  Saved(s, c)
<1>1. cells \in [CellIds -> Checkpoints]
  BY TypeMeans DEF TypeInv
<1>2. CASE ~Durable
  BY <1>1, <1>2 DEF SaveWith, Saved
<1>3. CASE Durable
  <2>1. store' = s /\ cells' = [cells EXCEPT ![s.cp].call = c]
    BY <1>3 DEF SaveWith
  <2>2. \A i \in CellIds : [cells[i] EXCEPT !.call = c] \in Checkpoints
                          /\ [cells[i] EXCEPT !.call = c].call = c
    BY <1>1 DEF Checkpoints
  <2> QED BY <1>1, <1>3, <2>1, <2>2 DEF Saved
<1> QED BY <1>2, <1>3

Kept == store' = store /\ cells' = cells

(* A step of t, its types, and a cell left over after it.                  *)
LEMMA TypeStep ==
  ASSUME Assumptions, TypeInv, NEW t \in Turns, NEW p, NEW c, NEW s \in Sessions,
         After(t, p, c, s),
         store' \in Sessions, cells' \in [CellIds -> Checkpoints],
         effects' \in [Calls -> Nat], approvals' \in [Calls -> Nat],
         ops' \in 0 .. MaxOps, failures' \in 0 .. MaxFailures,
         p = "idle" => s.cp = NoCell, p \in Holding => c \in Calls,
         Durable => store'.cp # NoCell /\ (p = "idle" \/ s.cp # NoCell),
         \/ s.cp \in {NoCell, store'.cp}
         \/ store'.cp = store.cp /\ s.cp = Session(t).cp
  PROVE  TypeInv'
<1>1. /\ turn' \in [Turns -> TurnStates] /\ turn'[t].iterations <= Limit(t)'
      /\ turn'[t].pc = p /\ turn'[t].call = c /\ turn'[t].session = s
      /\ \A u \in Turns : u # t => turn'[u] = turn[u]
  BY DEF After
<1>2. \A u \in Turns : turn'[u].iterations <= Limit(u)'
  <2>1. \A u \in Turns : turn[u].iterations <= Limit(u)
    BY TypeMeans DEF TypeInv
  <2>2. \A u \in Turns : u # t => Limit(u)' = Limit(u)
    BY <1>1 DEF Limit
  <2> QED BY <1>1, <2>1, <2>2
<1>3. Durable => \A u \in Turns : turn'[u].pc = "idle" \/ turn'[u].session.cp # NoCell
  BY <1>1, TypeMeans DEF TypeInv, At, Session
<1>4. TypeOK'
  BY <1>1, <1>2, <1>3 DEF TypeOK, TurnStates, Places, Outcomes, At, Session
<1>5. \A u \in Turns : turn'[u].pc = "idle" => turn'[u].session.cp = NoCell
  BY <1>1 DEF TypeInv, At, Session
<1>6. \A u \in Turns : turn'[u].pc \in Holding => turn'[u].call \in Calls
  BY <1>1 DEF TypeInv
<1>7. CellLeft'
  <2>1. CASE s.cp \in {NoCell, store'.cp}
    BY <1>1, <2>1 DEF CellLeft, Session
  <2>2. CASE store'.cp = store.cp /\ s.cp = Session(t).cp
    <3>1. PICK u \in Turns : Session(u).cp \in {NoCell, store.cp}
      BY DEF TypeInv, CellLeft
    <3>2. turn'[u].session.cp \in {NoCell, store'.cp}
      BY <1>1, <2>2, <3>1 DEF Session
    <3> QED BY <3>2 DEF CellLeft, Session
  <2> QED BY <2>1, <2>2
<1> QED BY <1>4, <1>5, <1>6, <1>7 DEF TypeInv, At, Session

(* The step of a turn that keeps its checkpoint, and saves or does not.    *)
LEMMA GoOn ==
  ASSUME Assumptions, TypeInv, NEW t \in Turns, NEW p, NEW c, NEW s \in Sessions,
         After(t, p, c, s), p # "idle", ~At(t, "idle"), p \in Holding => c \in Calls,
         Kept \/ (\E x : Saved(s, x)), s.cp = Session(t).cp,
         effects' \in [Calls -> Nat], approvals' \in [Calls -> Nat], ops' = ops,
         failures' \in 0 .. MaxFailures
  PROVE  TypeInv'
<1>1. /\ store \in Sessions /\ cells \in [CellIds -> Checkpoints] /\ ops \in 0 .. MaxOps
      /\ Durable => store.cp # NoCell /\ Session(t).cp # NoCell
  BY TypeMeans DEF TypeInv
<1>2. /\ cells' \in [CellIds -> Checkpoints] /\ store' \in {store, s}
  BY <1>1 DEF Kept, Saved
<1> QED BY <1>1, <1>2, TypeStep

LEMMA ErrorReturn ==
  ASSUME Assumptions, TypeInv, NEW t \in Turns, NEW s \in Sessions,
         After(t, "idle", NoCall, s), s.cp = NoCell,
         store' \in Sessions, Durable => store'.cp # NoCell,
         cells' \in [CellIds -> Checkpoints],
         UNCHANGED <<effects, approvals, ops>>, failures' \in 0 .. MaxFailures
  PROVE  TypeInv'
<1>1. effects \in [Calls -> Nat] /\ approvals \in [Calls -> Nat] /\ ops \in 0 .. MaxOps
  BY TypeMeans DEF TypeInv
<1> QED BY <1>1, TypeStep DEF Holding

----------------------------------------------------------------------------
(* The actions: where the turn is afterwards, and what is saved.           *)

Resumed(s) == [s EXCEPT !.state = "active", !.pending = NoCall]

LEMMA ResumeSession ==
  ASSUME NEW s \in Sessions
  PROVE  /\ Resumed(s) \in Sessions /\ Resumed(s).msgs = s.msgs /\ Resumed(s).cp = s.cp
         /\ Resumed(s).state = "active" /\ Resumed(s).pending = NoCall
  BY DEF Resumed, Sessions

LEMMA StartRunDoes ==
  ASSUME Assumptions, TypeInv, NEW t \in Turns, NEW input \in Inputs, StartRun(t, input)
  PROVE  /\ After(t, "reconcile", NoCall, store) /\ Kept /\ TypeInv'
         /\ UNCHANGED <<effects, approvals>>
         /\ At(t, "idle") /\ store.state = "active"
         /\ Overlap \/ \A u \in Turns : At(u, "idle")
<1> DEFINE i == Idle("none", input)
           resumed == Durable /\ cells[store.cp].status = "running"
           r == [i EXCEPT !.pc = "reconcile", !.run = TRUE, !.resumed = resumed, !.session = store]
<1>1. /\ turn' = [turn EXCEPT ![t] = r] /\ Kept /\ UNCHANGED <<effects, approvals, failures>>
      /\ At(t, "idle") /\ store.state = "active" /\ ops < MaxOps /\ ops' = ops + 1
      /\ Overlap \/ \A u \in Turns : At(u, "idle")
  BY DEF StartRun, MayStart, Kept
<1>2. /\ i \in TurnStates /\ i.call = NoCall /\ i.iterations = 0 /\ store \in Sessions
  BY EmptySession, TurnFacts DEF Outcomes, Assumptions, InputAssumption
<1>3. resumed \in BOOLEAN
  OBVIOUS
<1> HIDE DEF i, resumed
<1>4. /\ r \in TurnStates /\ r.pc = "reconcile" /\ r.call = NoCall /\ r.iterations = 0
      /\ r.run = TRUE /\ r.session = store
  BY <1>2, <1>3 DEF TurnStates, Places
<1> HIDE DEF r
<1>5. After(t, "reconcile", NoCall, store)
  <2>1. RunIterations \in Nat
    BY DEF Assumptions, BoundAssumption
  <2>2. r.iterations <= IF r.run THEN RunIterations ELSE DefaultIterations
    BY <1>4, <2>1
  <2>3. After(t, r.pc, r.call, r.session)
    BY <1>1, <1>4, <2>2, AfterFields
  <2> QED BY <1>4, <2>3
<1>6. /\ effects' \in [Calls -> Nat] /\ approvals' \in [Calls -> Nat]
      /\ ops' \in 0 .. MaxOps /\ failures' \in 0 .. MaxFailures
      /\ Durable => store.cp # NoCell
      /\ cells \in [CellIds -> Checkpoints]
  BY <1>1, TypeMeans DEF TypeInv, Assumptions, BoundAssumption
<1>7. TypeInv'
  BY <1>1, <1>2, <1>5, <1>6, TypeStep DEF Kept, Holding
<1> QED BY <1>1, <1>5, <1>7

LEMMA StartResolveDoes ==
  ASSUME Assumptions, TypeInv, NEW t \in Turns, NEW c \in Calls, NEW approve \in BOOLEAN,
         StartResolve(t, c, approve)
  PROVE  /\ After(t, IF approve THEN "start" ELSE "denied", c, Resumed(store))
         /\ store' = store /\ cells' \in [CellIds -> Checkpoints]
         /\ \A i \in CellIds :
              cells'[i].call = IF Durable /\ i = store.cp THEN NoCall ELSE cells[i].call
         /\ effects' = effects
         /\ approvals' = IF approve THEN [approvals EXCEPT ![c] = @ + 1] ELSE approvals
         /\ At(t, "idle") /\ store.state = "awaiting" /\ store.pending = c
         /\ c \in Asked(store.msgs)
         /\ Overlap \/ \A u \in Turns : At(u, "idle")
         /\ TypeInv'
<1> DEFINE i == Idle("none", "text")
           place == IF approve THEN "start" ELSE "denied"
           r == [i EXCEPT !.pc = place, !.call = c, !.session = Resumed(store)]
<1>1. /\ turn' = [turn EXCEPT ![t] = r] /\ UNCHANGED <<store, effects, failures>>
      /\ At(t, "idle") /\ store.state = "awaiting" /\ store.pending = c
      /\ c \in Asked(store.msgs) /\ ops < MaxOps /\ ops' = ops + 1
      /\ Overlap \/ \A u \in Turns : At(u, "idle")
      /\ approvals' = IF approve THEN [approvals EXCEPT ![c] = @ + 1] ELSE approvals
      /\ cells' = IF Durable THEN [cells EXCEPT ![store.cp].status = "running",
                                                ![store.cp].call = NoCall] ELSE cells
  BY DEF StartResolve, MayStart, Resumed
<1>2. /\ i \in TurnStates /\ i.iterations = 0 /\ i.run = FALSE /\ store \in Sessions
      /\ cells \in [CellIds -> Checkpoints]
  <2>1. i \in TurnStates /\ i.iterations = 0 /\ i.run = FALSE
    <3>1. "none" \in Outcomes
      BY DEF Outcomes
    <3> QED BY <3>1, EmptySession
  <2>2. store \in Sessions /\ cells \in [CellIds -> Checkpoints]
    BY TurnFacts
  <2> QED BY <2>1, <2>2
<1>3. Resumed(store) \in Sessions /\ Resumed(store).cp = store.cp /\ place \in Places
  BY <1>2, ResumeSession DEF Places
<1> HIDE DEF i, place
<1>4. /\ r \in TurnStates /\ r.pc = place /\ r.call = c /\ r.iterations = 0
      /\ r.run = FALSE /\ r.session = Resumed(store)
  BY <1>2, <1>3 DEF TurnStates
<1> HIDE DEF r
<1>5. After(t, place, c, Resumed(store))
  <2>1. DefaultIterations \in Nat
    BY DEF Assumptions, BoundAssumption
  <2>2. r.iterations <= IF r.run THEN RunIterations ELSE DefaultIterations
    BY <1>4, <2>1
  <2>3. After(t, r.pc, r.call, r.session)
    BY <1>1, <1>4, <2>2, AfterFields
  <2> QED BY <1>4, <2>3
<1>6. /\ cells' \in [CellIds -> Checkpoints]
      /\ \A j \in CellIds :
           cells'[j].call = IF Durable /\ j = store.cp THEN NoCall ELSE cells[j].call
  <2>1. CASE ~Durable
    BY <1>1, <1>2, <2>1
  <2>2. CASE Durable
    <3>1. \A j \in CellIds :
            LET new == [cells[j] EXCEPT !.status = "running", !.call = NoCall] IN
            new \in Checkpoints /\ new.call = NoCall
      BY <1>2 DEF Checkpoints, Statuses
    <3>2. cells' = [cells EXCEPT ![store.cp] =
                      [cells[store.cp] EXCEPT !.status = "running", !.call = NoCall]]
      BY <1>1, <1>2, <2>2, TurnFacts
    <3> QED BY <1>2, <2>2, <3>1, <3>2
  <2> QED BY <2>1, <2>2
<1>7. /\ effects' \in [Calls -> Nat] /\ approvals' \in [Calls -> Nat]
      /\ ops' \in 0 .. MaxOps /\ failures' \in 0 .. MaxFailures
      /\ Durable => store.cp # NoCell
  BY <1>1, TypeMeans DEF TypeInv, Assumptions, BoundAssumption
<1>8. place # "idle"
  BY DEF place
<1>9. TypeInv'
  BY <1>1, <1>2, <1>3, <1>5, <1>6, <1>7, <1>8, TypeStep
<1> QED BY <1>1, <1>5, <1>6, <1>9 DEF place

LEMMA ReconcileDoes ==
  ASSUME Assumptions, TypeInv, NEW t \in Turns, Reconcile(t)
  PROVE  /\ At(t, "reconcile") /\ UNCHANGED <<effects, approvals>> /\ TypeInv'
         /\ \/ Kept /\ After(t, "begin", turn[t].call, Session(t))
            \/ /\ Durable /\ Cell(t).call \in Calls
               /\ \E s \in {Session(t), Told(Session(t), Result(Cell(t).call))} :
                    s \in Sessions /\ Saved(s, NoCall) /\ After(t, "begin", turn[t].call, s)
<1> DEFINE w == Cell(t).call
           s == IF w \in Answered(Session(t).msgs) THEN Session(t)
                ELSE Told(Session(t), Result(w))
<1>1. /\ At(t, "reconcile") /\ UNCHANGED <<effects, approvals, ops, failures>>
      /\ IF Durable /\ w # NoCall
           THEN Move(t, "begin", s) /\ SaveWith(t, s, NoCall)
           ELSE Move(t, "begin", Session(t)) /\ Kept
  BY DEF Reconcile, Told, Kept
<1>2. /\ Session(t) \in Sessions
      /\ Durable => Session(t).cp \in CellIds
      /\ cells \in [CellIds -> Checkpoints] /\ "begin" \in Places
  BY <1>1, TurnFacts DEF Places, At
<1>3. /\ effects' \in [Calls -> Nat] /\ approvals' \in [Calls -> Nat]
      /\ ops' = ops /\ failures' \in 0 .. MaxFailures
  BY <1>1, TypeMeans DEF TypeInv
<1>4. CASE Durable /\ w # NoCall
  <2>1. w \in Calls
    BY <1>2, <1>4 DEF Cell, Checkpoints
  <2>2. s \in Sessions /\ s.cp = Session(t).cp
    BY <1>2, <2>1, TellSession, MessageTypes
  <2> HIDE DEF s, w
  <2>3. Saved(s, NoCall) /\ After(t, "begin", turn[t].call, s)
    BY <1>1, <1>2, <1>4, <2>2, SaveDoes, MoveAfter
  <2>4. TypeInv'
    BY <1>1, <1>3, <2>2, <2>3, GoOn DEF At, Holding
  <2>5. s \in {Session(t), Told(Session(t), Result(w))}
    BY DEF s
  <2> QED BY <1>1, <1>4, <2>1, <2>2, <2>3, <2>4, <2>5 DEF w
<1>5. CASE ~(Durable /\ w # NoCall)
  <2>1. Kept /\ After(t, "begin", turn[t].call, Session(t))
    BY <1>1, <1>2, <1>5, MoveAfter
  <2>2. TypeInv'
    BY <1>1, <1>2, <1>3, <2>1, GoOn DEF At, Holding
  <2> QED BY <1>1, <2>1, <2>2
<1> QED BY <1>4, <1>5

LEMMA BeginDoes ==
  ASSUME Assumptions, TypeInv, NEW t \in Turns, Begin(t)
  PROVE  /\ At(t, "begin") /\ UNCHANGED <<effects, approvals>> /\ TypeInv'
         /\ \E fed \in {Session(t), Told(Session(t), User(turn[t].input))} :
              /\ fed \in Sessions
              /\ \/ Kept /\ After(t, "loop", turn[t].call, fed)
                 \/ /\ Durable
                    /\ \E i \in CellIds :
                         LET opened == [fed EXCEPT !.cp = i] IN
                         /\ opened \in Sessions /\ Saved(opened, NoCall)
                         /\ After(t, "loop", turn[t].call, opened)
<1> DEFINE fed == IF turn[t].resumed THEN Session(t)
                  ELSE Told(Session(t), User(turn[t].input))
           opened == [fed EXCEPT !.cp = FreeCell]
           fresh == [status |-> "running", call |-> NoCall]
<1>1. /\ At(t, "begin") /\ UNCHANGED <<effects, approvals, ops, failures>>
      /\ IF Durable /\ Cell(t).status # "running"
           THEN /\ Move(t, "loop", opened) /\ store' = opened
                /\ cells' = [cells EXCEPT ![FreeCell] = fresh]
           ELSE Move(t, "loop", fed) /\ Kept
  BY DEF Begin, Told, Kept
<1>2. /\ Session(t) \in Sessions /\ turn[t].input \in {"text", "image", "odd"}
      /\ cells \in [CellIds -> Checkpoints] /\ "loop" \in Places
  BY TurnFacts DEF Places
<1>3. fed \in Sessions /\ fed.cp = Session(t).cp
  BY <1>2, TellSession, MessageTypes
<1>4. fed \in {Session(t), Told(Session(t), User(turn[t].input))}
  OBVIOUS
<1>5. /\ effects' \in [Calls -> Nat] /\ approvals' \in [Calls -> Nat]
      /\ ops' \in 0 .. MaxOps /\ failures' \in 0 .. MaxFailures /\ ops' = ops
  BY <1>1, TypeMeans DEF TypeInv
<1> HIDE DEF fed
<1>6. CASE Durable /\ Cell(t).status # "running"
  <2>1. FreeCell \in CellIds
    BY CellFound
  <2>2. opened \in Sessions /\ opened.cp = FreeCell /\ FreeCell # NoCell
    BY <1>3, <2>1 DEF Sessions, CellIds, NoCell
  <2>3. Saved(opened, NoCall)
    <3>1. fresh \in Checkpoints /\ fresh.call = NoCall
      BY DEF Checkpoints, Statuses
    <3> HIDE DEF fresh, opened
    <3> QED BY <1>1, <1>2, <1>6, <2>1, <2>2, <3>1 DEF Saved
  <2> HIDE DEF opened
  <2>4. After(t, "loop", turn[t].call, opened)
    BY <1>1, <1>2, <1>6, <2>2, MoveAfter
  <2>5. TypeInv'
    BY <1>1, <1>5, <1>6, <2>2, <2>3, <2>4, TypeStep DEF Saved, Holding
  <2> QED BY <1>1, <1>3, <1>4, <1>6, <2>1, <2>2, <2>3, <2>4, <2>5 DEF opened
<1>7. CASE ~(Durable /\ Cell(t).status # "running")
  <2>1. Kept /\ After(t, "loop", turn[t].call, fed)
    BY <1>1, <1>2, <1>3, <1>7, MoveAfter
  <2>2. TypeInv'
    BY <1>1, <1>3, <1>5, <2>1, GoOn DEF At, Holding
  <2> QED BY <1>1, <1>3, <1>4, <2>1, <2>2
<1> QED BY <1>6, <1>7

LEMMA StopDoes ==
  ASSUME Assumptions, TypeInv, NEW t \in Turns, Stop(t)
  PROVE  /\ At(t, "loop") /\ Kept /\ UNCHANGED <<effects, approvals>> /\ TypeInv'
         /\ After(t, "finish", turn[t].call, Session(t))
<1>1. PICK why \in {"max_iterations", "cancelled"} :
        turn' = [turn EXCEPT ![t].pc = "finish", ![t].outcome = why]
  BY DEF Stop
<1>2. /\ At(t, "loop") /\ Kept /\ UNCHANGED <<effects, approvals, ops>>
      /\ failures' \in 0 .. MaxFailures
  BY TypeMeans DEF Stop, Kept, EnvironmentFails, TypeInv, Assumptions, BoundAssumption
<1> DEFINE c == turn[t]
           r == [c EXCEPT !.pc = "finish", !.outcome = why]
<1>3. /\ c \in TurnStates /\ c.iterations <= Limit(t) /\ turn' = [turn EXCEPT ![t] = r]
  BY <1>1, TurnFacts
<1>4. c.iterations <= IF c.run THEN RunIterations ELSE DefaultIterations
  BY <1>3 DEF Limit
<1> HIDE DEF c
<1>5. /\ r \in TurnStates /\ r.pc = "finish" /\ r.call = c.call /\ r.session = c.session
      /\ r.iterations = c.iterations /\ r.run = c.run
  BY <1>3 DEF TurnStates, Places, Outcomes
<1> HIDE DEF r
<1>6. After(t, "finish", turn[t].call, Session(t))
  <2>1. After(t, r.pc, r.call, r.session)
    BY <1>3, <1>4, <1>5, AfterFields
  <2> QED BY <1>5, <2>1 DEF c, Session
<1>7. effects' \in [Calls -> Nat] /\ approvals' \in [Calls -> Nat] /\ Session(t) \in Sessions
  BY <1>2, TypeMeans, TurnFacts DEF TypeInv
<1>8. TypeInv'
  BY <1>2, <1>6, <1>7, GoOn DEF At, Holding
<1> QED BY <1>2, <1>6, <1>8

LEMMA ErrorDoes ==
  ASSUME Assumptions, TypeInv, NEW t \in Turns, MediaRefused(t) \/ ModelFails(t) \/ PauseNotSaved(t)
  PROVE  /\ turn[t].pc \in {"loop", "confirm"} /\ Kept /\ UNCHANGED <<effects, approvals>>
         /\ \E why \in Outcomes : Abandon(t, why)
         /\ TypeInv'
<1>1. PICK why \in {"refused", "error", "interrupted"} : Abandon(t, why)
  BY DEF MediaRefused, ModelFails, PauseNotSaved
<1>2. /\ turn[t].pc \in {"loop", "confirm"} /\ Kept /\ UNCHANGED <<effects, approvals, ops>>
      /\ failures' \in 0 .. MaxFailures
  BY TypeMeans DEF MediaRefused, ModelFails, PauseNotSaved, Asking, At, Kept, EnvironmentFails,
                   TypeInv, Assumptions, BoundAssumption
<1>3. store \in Sessions /\ cells \in [CellIds -> Checkpoints]
  BY TurnFacts
<1>4. Durable => store.cp # NoCell
  BY TypeMeans DEF TypeInv
<1>5. why \in Outcomes
  BY DEF Outcomes
<1>6. PICK s \in Sessions : After(t, "idle", NoCall, s) /\ s.cp = NoCell
  BY <1>1, <1>5, AbandonAfter
<1>7. TypeInv'
  BY <1>2, <1>3, <1>4, <1>6, ErrorReturn DEF Kept
<1> QED BY <1>1, <1>2, <1>5, <1>7

LEMMA FinishDoes ==
  ASSUME Assumptions, TypeInv, NEW t \in Turns, Finish(t)
  PROVE  /\ At(t, "finish") /\ store' = Session(t) /\ UNCHANGED <<effects, approvals>>
         /\ \E why \in Outcomes : Abandon(t, why)
         /\ \A i \in CellIds :
              cells'[i].call = IF Durable /\ turn[t].run /\ i = Session(t).cp THEN NoCall
                               ELSE cells[i].call
         /\ TypeInv'
<1> DEFINE closed == [status |-> ClosingStatus(t), call |-> NoCall]
<1>1. /\ At(t, "finish") /\ store' = Session(t) /\ UNCHANGED <<effects, approvals, ops, failures>>
      /\ Abandon(t, turn[t].outcome)
      /\ cells' = IF Durable /\ turn[t].run THEN [cells EXCEPT ![Session(t).cp] = closed]
                  ELSE cells
  BY DEF Finish
<1>2. /\ Session(t) \in Sessions /\ cells \in [CellIds -> Checkpoints]
      /\ turn[t].outcome \in Outcomes
      /\ Durable => Session(t).cp \in CellIds
  BY <1>1, TurnFacts DEF At
<1>3. Durable => closed \in Checkpoints /\ closed.call = NoCall
  BY <1>2 DEF ClosingStatus, Cell, Checkpoints, Statuses
<1> HIDE DEF closed
<1>4. /\ cells' \in [CellIds -> Checkpoints]
      /\ \A i \in CellIds :
           cells'[i].call = IF Durable /\ turn[t].run /\ i = Session(t).cp THEN NoCall
                            ELSE cells[i].call
  BY <1>1, <1>2, <1>3
<1>5. PICK s \in Sessions : After(t, "idle", NoCall, s) /\ s.cp = NoCell
  BY <1>1, <1>2, AbandonAfter
<1>6. Durable => store'.cp # NoCell
  BY <1>1, <1>2 DEF CellIds, NoCell
<1>7. failures' \in 0 .. MaxFailures
  BY <1>1, TypeMeans DEF TypeInv
<1>8. TypeInv'
  BY <1>1, <1>2, <1>4, <1>5, <1>6, <1>7, ErrorReturn
<1> QED BY <1>1, <1>2, <1>4, <1>8

LEMMA HostTypes ==
  ASSUME Assumptions, TypeInv
  PROVE  effects \in [Calls -> Nat] /\ approvals \in [Calls -> Nat]
         /\ ops \in 0 .. MaxOps /\ failures \in 0 .. MaxFailures
  BY TypeMeans DEF TypeInv

LEMMA ModelAnswersDoes ==
  ASSUME Assumptions, TypeInv, NEW t \in Turns, ModelAnswers(t)
  PROVE  /\ At(t, "loop") /\ UNCHANGED <<effects, approvals>> /\ TypeInv'
         /\ \E s \in Sessions : /\ s = Told(Session(t), Answer)
                                /\ Saved(s, NoCall) /\ After(t, "finish", turn[t].call, s)
<1> DEFINE c == turn[t]
           s == Told(Session(t), Answer)
           n == c.iterations + 1
           r == [c EXCEPT !.pc = "finish", !.outcome = "completed", !.session = s,
                          !.iterations = n]
<1>1. /\ turn' = [turn EXCEPT ![t] = r] /\ SaveWith(t, s, NoCall) /\ At(t, "loop")
      /\ c.iterations < Limit(t) /\ UNCHANGED <<effects, approvals, ops, failures>>
  <2>1. /\ turn' = [turn EXCEPT ![t].pc = "finish", ![t].outcome = "completed",
                                ![t].session = s, ![t].iterations = @ + 1]
        /\ SaveWith(t, s, NoCall) /\ UNCHANGED <<effects, approvals, ops, failures>>
        /\ At(t, "loop") /\ c.iterations < Limit(t)
    BY DEF ModelAnswers, Asking, Told
  <2>2. turn \in [Turns -> TurnStates]
    BY TurnFacts
  <2> QED BY <2>1, <2>2
<1>2. c \in TurnStates /\ s \in Sessions /\ s.cp = Session(t).cp
  BY TurnFacts, TellSession, MessageTypes
<1>3. n \in Nat /\ n <= IF c.run THEN RunIterations ELSE DefaultIterations
  BY <1>1, TurnFacts DEF Limit
<1> HIDE DEF c, s, n
<1>4. /\ r \in TurnStates /\ r.pc = "finish" /\ r.call = c.call /\ r.session = s
      /\ r.iterations = n /\ r.run = c.run
  BY <1>2, <1>3 DEF TurnStates, Places, Outcomes
<1> HIDE DEF r
<1>5. After(t, "finish", c.call, s)
  BY <1>1, <1>3, <1>4, AfterFields
<1>6. Saved(s, NoCall)
  BY <1>1, SaveDoes
<1>7. TypeInv'
  BY <1>1, <1>2, <1>5, <1>6, HostTypes, GoOn DEF At, Holding
<1> QED BY <1>1, <1>2, <1>5, <1>6, <1>7 DEF c, s

LEMMA ModelAsksDoes ==
  ASSUME Assumptions, TypeInv, NEW t \in Turns, NEW c \in Calls, ModelAsks(t, c)
  PROVE  /\ At(t, "loop") /\ Fresh(c) /\ UNCHANGED <<effects, approvals>> /\ TypeInv'
         /\ \E s \in Sessions :
              /\ s = Told(Session(t), Asks(c)) /\ Saved(s, NoCall)
              /\ After(t, IF c \in Confirm THEN "confirm" ELSE "start", c, s)
<1> DEFINE old == turn[t]
           place == IF c \in Confirm THEN "confirm" ELSE "start"
           s == Told(Session(t), Asks(c))
           n == old.iterations + 1
           r == [old EXCEPT !.pc = place, !.session = s, !.call = c, !.iterations = n]
<1>1. /\ turn' = [turn EXCEPT ![t] = r] /\ SaveWith(t, s, NoCall) /\ At(t, "loop") /\ Fresh(c)
      /\ old.iterations < Limit(t) /\ UNCHANGED <<effects, approvals, ops, failures>>
  <2>1. /\ turn' = [turn EXCEPT ![t].pc = place, ![t].session = s, ![t].call = c,
                                ![t].iterations = @ + 1]
        /\ SaveWith(t, s, NoCall) /\ UNCHANGED <<effects, approvals, ops, failures>>
        /\ At(t, "loop") /\ old.iterations < Limit(t) /\ Fresh(c)
    BY DEF ModelAsks, Asking, Told
  <2>2. turn \in [Turns -> TurnStates]
    BY TurnFacts
  <2> QED BY <2>1, <2>2
<1>2. old \in TurnStates /\ s \in Sessions /\ s.cp = Session(t).cp
  BY TurnFacts, TellSession, MessageTypes
<1>3. n \in Nat /\ n <= IF old.run THEN RunIterations ELSE DefaultIterations
  BY <1>1, TurnFacts DEF Limit
<1>4. place \in {"confirm", "start"}
  OBVIOUS
<1> HIDE DEF old, s, place, n
<1>5. /\ r \in TurnStates /\ r.pc = place /\ r.call = c /\ r.session = s
      /\ r.iterations = n /\ r.run = old.run
  BY <1>2, <1>3, <1>4 DEF TurnStates, Places
<1> HIDE DEF r
<1>6. After(t, place, c, s)
  BY <1>1, <1>3, <1>5, AfterFields
<1>7. Saved(s, NoCall)
  BY <1>1, SaveDoes
<1>8. TypeInv'
  BY <1>1, <1>2, <1>4, <1>6, <1>7, HostTypes, GoOn DEF At
<1> QED BY <1>1, <1>2, <1>6, <1>7, <1>8 DEF s, place

LEMMA ApproveDoes ==
  ASSUME Assumptions, TypeInv, NEW t \in Turns, Approve(t)
  PROVE  /\ At(t, "confirm") /\ Kept /\ effects' = effects
         /\ approvals' = [approvals EXCEPT ![turn[t].call] = @ + 1]
         /\ After(t, "start", turn[t].call, Session(t)) /\ TypeInv'
<1>1. /\ At(t, "confirm") /\ Kept /\ UNCHANGED <<effects, ops, failures>>
      /\ approvals' = [approvals EXCEPT ![turn[t].call] = @ + 1]
      /\ Move(t, "start", Session(t))
  BY DEF Approve, Kept
<1>2. Session(t) \in Sessions /\ turn[t].call \in Calls
  BY <1>1, TurnFacts DEF At, Holding
<1>3. After(t, "start", turn[t].call, Session(t))
  BY <1>1, <1>2, MoveAfter DEF Places
<1>4. approvals' \in [Calls -> Nat]
  BY <1>1, <1>2, HostTypes
<1>5. TypeInv'
  BY <1>1, <1>2, <1>3, <1>4, HostTypes, GoOn DEF At
<1> QED BY <1>1, <1>3, <1>5

LEMMA DenyDoes ==
  ASSUME Assumptions, TypeInv, NEW t \in Turns, Deny(t)
  PROVE  /\ turn[t].pc \in {"confirm", "denied"} /\ UNCHANGED <<effects, approvals>> /\ TypeInv'
         /\ \E s \in Sessions : /\ s = Told(Session(t), Result(turn[t].call))
                                /\ Kept \/ Saved(s, NoCall)
                                /\ After(t, "loop", turn[t].call, s)
<1> DEFINE s == Told(Session(t), Result(turn[t].call))
<1>1. /\ turn[t].pc \in {"confirm", "denied"} /\ UNCHANGED <<effects, approvals, ops, failures>>
      /\ Move(t, "loop", s)
      /\ Kept \/ SaveWith(t, s, NoCall)
  BY DEF Deny, Told, Kept, At
<1>2. turn[t].call \in Calls
  BY <1>1, TurnFacts DEF Holding
<1>3. s \in Sessions /\ s.cp = Session(t).cp
  <2>1. Session(t) \in Sessions
    BY TurnFacts
  <2>2. Result(turn[t].call) \in Messages
    BY <1>2, MessageTypes
  <2> QED BY <2>1, <2>2, TellSession
<1> HIDE DEF s
<1>4. After(t, "loop", turn[t].call, s)
  BY <1>1, <1>3, MoveAfter DEF Places
<1>5. Kept \/ Saved(s, NoCall)
  BY <1>1, SaveDoes
<1>6. TypeInv'
  BY <1>1, <1>3, <1>4, <1>5, HostTypes, GoOn DEF At, Holding
<1> QED BY <1>1, <1>3, <1>4, <1>5, <1>6 DEF s

(* The session of a turn that waits for a human.                           *)
Waiting(s, c) == [s EXCEPT !.state = "awaiting", !.pending = c]

LEMMA WaitingSession ==
  ASSUME NEW s \in Sessions, NEW c \in Calls
  PROVE  /\ Waiting(s, c) \in Sessions /\ Waiting(s, c).msgs = s.msgs /\ Waiting(s, c).cp = s.cp
         /\ Waiting(s, c).state = "awaiting" /\ Waiting(s, c).pending = c
  BY DEF Waiting, Sessions

LEMMA PauseDoes ==
  ASSUME Assumptions, TypeInv, NEW t \in Turns, Pause(t)
  PROVE  /\ At(t, "confirm") /\ UNCHANGED <<effects, approvals>> /\ TypeInv'
         /\ \E s \in Sessions : /\ s = Waiting(Session(t), turn[t].call)
                                /\ store' = s /\ cells' = cells
                                /\ After(t, "finish", turn[t].call, s)
<1> DEFINE c == turn[t]
           s == Waiting(Session(t), c.call)
           r == [c EXCEPT !.pc = "finish", !.outcome = "paused", !.session = s]
<1>1. /\ turn' = [turn EXCEPT ![t] = r] /\ At(t, "confirm") /\ store' = s /\ cells' = cells
      /\ UNCHANGED <<effects, approvals, ops, failures>>
  <2>1. /\ turn' = [turn EXCEPT ![t].pc = "finish", ![t].outcome = "paused", ![t].session = s]
        /\ At(t, "confirm") /\ store' = s /\ cells' = cells
        /\ UNCHANGED <<effects, approvals, ops, failures>>
    BY DEF Pause, Waiting
  <2>2. turn \in [Turns -> TurnStates]
    BY TurnFacts
  <2> QED BY <2>1, <2>2
<1>2. c \in TurnStates /\ c.call \in Calls
  BY <1>1, TurnFacts DEF At, Holding
<1>3. s \in Sessions /\ s.cp = Session(t).cp
  BY <1>2, TurnFacts, WaitingSession
<1>4. c.iterations <= IF c.run THEN RunIterations ELSE DefaultIterations
  BY TurnFacts DEF Limit
<1>5. Durable => s.cp # NoCell
  BY <1>1, <1>3, TurnFacts DEF At, CellIds, NoCell
<1> HIDE DEF c, s
<1>6. /\ r \in TurnStates /\ r.pc = "finish" /\ r.call = c.call /\ r.session = s
      /\ r.iterations = c.iterations /\ r.run = c.run
  BY <1>2, <1>3 DEF TurnStates, Places, Outcomes
<1> HIDE DEF r
<1>7. After(t, "finish", c.call, s)
  BY <1>1, <1>4, <1>6, AfterFields
<1>8. TypeInv'
  BY <1>1, <1>3, <1>5, <1>7, HostTypes, TurnFacts, TypeStep DEF Holding
<1> QED BY <1>1, <1>3, <1>7, <1>8 DEF c, s

LEMMA ToolStartDoes ==
  ASSUME Assumptions, TypeInv, NEW t \in Turns, ToolStart(t)
  PROVE  /\ At(t, "start") /\ UNCHANGED <<effects, approvals>> /\ turn[t].call \in Calls
         /\ Saved(Session(t), turn[t].call) /\ After(t, "effect", turn[t].call, Session(t))
         /\ TypeInv'
<1>1. /\ At(t, "start") /\ UNCHANGED <<effects, approvals, ops, failures>>
      /\ Move(t, "effect", Session(t)) /\ SaveWith(t, Session(t), turn[t].call)
  BY DEF ToolStart
<1>2. Session(t) \in Sessions /\ turn[t].call \in Calls
  BY <1>1, TurnFacts DEF At, Holding
<1>3. After(t, "effect", turn[t].call, Session(t))
  BY <1>1, <1>2, MoveAfter DEF Places
<1>4. Saved(Session(t), turn[t].call)
  BY <1>1, <1>2, SaveDoes
<1>5. TypeInv'
  BY <1>1, <1>2, <1>3, <1>4, HostTypes, GoOn DEF At
<1> QED BY <1>1, <1>2, <1>3, <1>4, <1>5

LEMMA ToolEffectDoes ==
  ASSUME Assumptions, TypeInv, NEW t \in Turns, ToolEffect(t)
  PROVE  /\ At(t, "effect") /\ Kept /\ approvals' = approvals /\ turn[t].call \in Calls
         /\ effects' = [effects EXCEPT ![turn[t].call] = @ + 1]
         /\ After(t, "record", turn[t].call, Session(t)) /\ TypeInv'
<1>1. /\ At(t, "effect") /\ Kept /\ UNCHANGED <<approvals, ops, failures>>
      /\ effects' = [effects EXCEPT ![turn[t].call] = @ + 1]
      /\ Move(t, "record", Session(t))
  BY DEF ToolEffect, Kept
<1>2. Session(t) \in Sessions /\ turn[t].call \in Calls
  BY <1>1, TurnFacts DEF At, Holding
<1>3. After(t, "record", turn[t].call, Session(t))
  BY <1>1, <1>2, MoveAfter DEF Places
<1>4. effects' \in [Calls -> Nat]
  BY <1>1, <1>2, HostTypes
<1>5. TypeInv'
  BY <1>1, <1>2, <1>3, <1>4, HostTypes, GoOn DEF At
<1> QED BY <1>1, <1>2, <1>3, <1>5

LEMMA RecordDoes ==
  ASSUME Assumptions, TypeInv, NEW t \in Turns, Record(t)
  PROVE  /\ At(t, "record") /\ UNCHANGED <<effects, approvals>> /\ TypeInv'
         /\ \E s \in Sessions : /\ s = Told(Session(t), Result(turn[t].call))
                                /\ Saved(s, NoCall) /\ After(t, "loop", turn[t].call, s)
<1> DEFINE s == Told(Session(t), Result(turn[t].call))
<1>1. /\ At(t, "record") /\ UNCHANGED <<effects, approvals, ops, failures>>
      /\ Move(t, "loop", s) /\ SaveWith(t, s, NoCall)
  BY DEF Record, Told
<1>2. turn[t].call \in Calls
  BY <1>1, TurnFacts DEF Holding, At
<1>3. s \in Sessions /\ s.cp = Session(t).cp
  <2>1. Session(t) \in Sessions
    BY TurnFacts
  <2>2. Result(turn[t].call) \in Messages
    BY <1>2, MessageTypes
  <2> QED BY <2>1, <2>2, TellSession
<1> HIDE DEF s
<1>4. After(t, "loop", turn[t].call, s)
  BY <1>1, <1>3, MoveAfter DEF Places
<1>5. Saved(s, NoCall)
  BY <1>1, SaveDoes
<1>6. TypeInv'
  BY <1>1, <1>3, <1>4, <1>5, HostTypes, GoOn DEF At, Holding
<1> QED BY <1>1, <1>3, <1>4, <1>5, <1>6 DEF s

----------------------------------------------------------------------------
(* Type correctness.                                                       *)

LEMMA FirstSession ==
  ASSUME Assumptions, Init
  PROVE  /\ store \in Sessions /\ store.state = "active" /\ store.pending = NoCall
         /\ Asked(store.msgs) = {} /\ Answered(store.msgs) = {}
         /\ Durable => store.cp # NoCell
<1>1. /\ User("text") \in Messages /\ Answer \in Messages
      /\ User("text").kind = "user" /\ Answer.kind = "answer"
  BY MessageTypes
<1>2. <<User("text"), Answer>> = Append(Append(<<>>, User("text")), Answer)
  OBVIOUS
<1>3. <<>> \in Seq(Messages) /\ Asked(<<>>) = {} /\ Answered(<<>>) = {}
  BY DEF Asked, Answered
<1>4. /\ Append(<<>>, User("text")) \in Seq(Messages)
      /\ Asked(Append(<<>>, User("text"))) = {} /\ Answered(Append(<<>>, User("text"))) = {}
  BY <1>1, <1>3, AppendMessage
<1>5. /\ Append(Append(<<>>, User("text")), Answer) \in Seq(Messages)
      /\ Asked(Append(Append(<<>>, User("text")), Answer)) = {}
      /\ Answered(Append(Append(<<>>, User("text")), Answer)) = {}
  BY <1>1, <1>4, AppendMessage
<1>6. store.msgs = Append(Append(<<>>, User("text")), Answer)
  BY <1>2 DEF Init
<1>7. Cardinality(Turns) \in Nat
  BY FS_CardinalityType DEF Assumptions
<1>8. store \in Sessions /\ store.state = "active" /\ store.pending = NoCall
      /\ (Durable => store.cp # NoCell)
  <2> DEFINE m == <<User("text"), Answer>>
             w == IF Durable THEN 1 ELSE NoCell
  <2>1. m \in Histories /\ w \in CellIds \cup {NoCell} /\ (Durable => w # NoCell)
    BY <1>2, <1>5, <1>7 DEF Histories, Messages, CellIds, NoCell
  <2>2. store = [msgs |-> m, state |-> "active", pending |-> NoCall, cp |-> w]
    BY DEF Init
  <2> HIDE DEF m, w
  <2> QED BY <2>1, <2>2 DEF Sessions
<1> QED BY <1>5, <1>6, <1>8

LEMMA InitTypes ==
  ASSUME Assumptions, Init
  PROVE  TypeInv
<1> DEFINE i == Idle("none", "text")
<1>1. /\ i \in TurnStates /\ i.pc = "idle" /\ i.iterations = 0 /\ i.session.cp = NoCell
  BY EmptySession DEF Outcomes
<1> HIDE DEF i
<1>2. turn = [t \in Turns |-> i]
  BY DEF Init, i
<1>3. turn \in [Turns -> TurnStates] /\ \A t \in Turns : turn[t] = i
  BY <1>1, <1>2
<1>4. \A t \in Turns : turn[t].iterations <= Limit(t)
  BY <1>1, <1>3 DEF Limit, Assumptions, BoundAssumption
<1>5. cells \in [CellIds -> Checkpoints]
  <2>1. [status |-> "completed", call |-> NoCall] \in Checkpoints
    BY DEF Checkpoints, Statuses
  <2> QED BY <2>1 DEF Init
<1>6. /\ effects \in [Calls -> Nat] /\ approvals \in [Calls -> Nat]
      /\ ops \in 0 .. MaxOps /\ failures \in 0 .. MaxFailures
  BY DEF Init, Assumptions, BoundAssumption
<1>7. TypeOK
  BY <1>1, <1>3, <1>4, <1>5, <1>6, FirstSession, TypeMeans DEF At
<1> QED BY <1>1, <1>3, <1>7 DEF TypeInv, At, Holding, CellLeft, Session

LEMMA NextTypes ==
  ASSUME Assumptions, TypeInv, [Next]_vars
  PROVE  TypeInv'
<1>1. CASE UNCHANGED vars
  BY <1>1 DEF vars, TypeInv, TypeOK, At, Session, CellLeft, Limit
<1>2. ASSUME NEW t \in Turns, HostStep(t) PROVE TypeInv'
  BY <1>2, StartRunDoes, StartResolveDoes DEF HostStep
<1>3. ASSUME NEW t \in Turns, Step(t) PROVE TypeInv'
  BY <1>3, ReconcileDoes, BeginDoes, StopDoes, ErrorDoes, ModelAnswersDoes, ModelAsksDoes,
     ApproveDoes, DenyDoes, PauseDoes, ToolStartDoes, ToolEffectDoes, RecordDoes, FinishDoes
     DEF Step
<1> QED BY <1>1, <1>2, <1>3 DEF Next

(* Every variable keeps its type, no turn exceeds its iterations, and a    *)
(* durable turn always finds a checkpoint nobody uses: with one cell more  *)
(* than turns, Begin never takes the checkpoint of another turn.           *)
THEOREM TypesCorrect == Assumptions => (Spec => []TypeOK)
<1> SUFFICES ASSUME Assumptions PROVE Spec => []TypeOK
  OBVIOUS
<1>1. Init => TypeInv
  BY InitTypes
<1>2. TypeInv /\ [Next]_vars => TypeInv'
  BY NextTypes
<1>3. TypeInv => TypeOK
  BY DEF TypeInv
<1> QED BY <1>1, <1>2, <1>3, PTL DEF Spec

----------------------------------------------------------------------------
(* What overlapping turns keep.                                            *)

(* Calls that were executed, or are about to be.                           *)
Done == {c \in Calls : effects[c] > 0 \/ \E u \in Turns : At(u, "effect") /\ turn[u].call = c}

(* A session waits for an open call of its own that needs a human, and     *)
(* holds results of calls it asked for or that were executed: the shared   *)
(* write-ahead may name the call of a turn whose answer was overwritten.   *)
SessionOk(s, done) ==
  /\ s.state = "active" => s.pending = NoCall
  /\ s.state = "awaiting" => s.pending \in (Confirm \cap Asked(s.msgs)) \ Answered(s.msgs)
  /\ \A c \in Calls : c \in Answered(s.msgs) => c \in Asked(s.msgs) \cup done

TurnOk(place, call, s, done) ==
  /\ SessionOk(s, done)
  /\ s.state = "awaiting" => place = "finish"
  /\ place \in Holding => call \in Asked(s.msgs)
  /\ place = "confirm" => call \in Confirm \ Answered(s.msgs)

Executes == {"start", "effect"}
Executing(c) == {t \in Turns : turn[t].pc \in Executes /\ turn[t].call = c}
Budget(c) == IF c \in Confirm THEN approvals[c] ELSE 1

SharedInv ==
  /\ SessionOk(store, Done)
  /\ \A t \in Turns : TurnOk(turn[t].pc, turn[t].call, Session(t), Done)
  /\ Durable => \A i \in CellIds : cells[i].call \in Done \cup {NoCall}
  /\ \A c \in Calls : effects[c] + Cardinality(Executing(c)) <= Budget(c)

LEMMA OkStays ==
  ASSUME NEW p, NEW c, NEW s, NEW d, NEW e, d \subseteq e
  PROVE  /\ SessionOk(s, d) => SessionOk(s, e)
         /\ TurnOk(p, c, s, d) => TurnOk(p, c, s, e)
  BY DEF SessionOk, TurnOk

(* What a turn is told in its history stays in order, unless the call it   *)
(* waits for is answered.                                                  *)
LEMMA ToldOk ==
  ASSUME NEW s \in Sessions, NEW m \in Messages, NEW d, SessionOk(s, d), s.state = "active",
         m.kind = "result" => m.of \in Asked(s.msgs) \cup d
  PROVE  SessionOk(Told(s, m), d)
<1>1. /\ Told(s, m).state = "active" /\ Told(s, m).pending = s.pending
      /\ Asked(Told(s, m).msgs) = Asked(s.msgs) \cup (IF m.kind = "asks" THEN {m.of} ELSE {})
      /\ Answered(Told(s, m).msgs) = Answered(s.msgs) \cup (IF m.kind = "result" THEN {m.of} ELSE {})
  BY TellSession
<1>2. s.pending = NoCall /\ \A c \in Calls : c \in Answered(s.msgs) => c \in Asked(s.msgs) \cup d
  BY DEF SessionOk
<1>3. \A c \in Calls : c \in Answered(Told(s, m).msgs) => c \in Asked(Told(s, m).msgs) \cup d
  BY <1>1, <1>2
<1> QED BY <1>1, <1>2, <1>3 DEF SessionOk

LEMMA SharedMeans ==
  ASSUME Assumptions, TypeInv, SharedInv, NEW t \in Turns
  PROVE  /\ SessionOk(store, Done) /\ TurnOk(turn[t].pc, turn[t].call, Session(t), Done)
         /\ turn[t].pc # "finish" => Session(t).state = "active"
         /\ \A c \in Calls : /\ IsFiniteSet(Executing(c)) /\ Cardinality(Executing(c)) \in Nat
                             /\ effects[c] \in Nat /\ approvals[c] \in Nat /\ Budget(c) \in Nat
                             /\ effects[c] + Cardinality(Executing(c)) <= Budget(c)
<1>1. \A c \in Calls : /\ IsFiniteSet(Executing(c)) /\ Cardinality(Executing(c)) \in Nat
  <2>1. \A c \in Calls : Executing(c) \subseteq Turns
    BY DEF Executing
  <2>2. IsFiniteSet(Turns)
    BY DEF Assumptions
  <2> QED BY <2>1, <2>2, FS_Subset, FS_CardinalityType
<1>2. \A c \in Calls : effects[c] \in Nat /\ approvals[c] \in Nat /\ Budget(c) \in Nat
  BY HostTypes DEF Budget
<1>3. Session(t).state \in {"active", "awaiting"}
  BY TurnFacts DEF Sessions
<1> QED BY <1>1, <1>2, <1>3 DEF SharedInv, TurnOk

(* A step that executes nothing: its turn and what it saves are in order,  *)
(* and if it takes up a call there is an approval left for it.             *)
LEMMA SharedStep ==
  ASSUME Assumptions, TypeInv, SharedInv, NEW t \in Turns, NEW p, NEW c, NEW s,
         After(t, p, c, s), TurnOk(p, c, s, Done),
         ~At(t, "effect"), effects' = effects,
         SessionOk(store', Done),
         Durable => \A i \in CellIds :
           cells'[i].call \in {cells[i].call, NoCall} \cup (IF p = "effect" THEN {c} ELSE {}),
         \A x \in Calls : approvals[x] <= approvals'[x],
         approvals' \in [Calls -> Nat],
         p \in Executes => c \in Calls,
         p \in Executes =>
           \/ turn[t].pc \in Executes /\ turn[t].call = c
           \/ effects[c] + Cardinality(Executing(c)) + 1 <= Budget(c)'
  PROVE  SharedInv'
<1>1. /\ turn'[t].pc = p /\ turn'[t].call = c /\ turn'[t].session = s
      /\ \A u \in Turns : u # t => turn'[u] = turn[u]
  BY DEF After
<1>2. PICK e : e = Done'
  OBVIOUS
<1>3. Done \subseteq e /\ (p = "effect" => c \in e)
  <2>1. \A u \in Turns : turn[u].pc = "effect" => turn'[u] = turn[u]
    BY <1>1 DEF At
  <2>2. \A x \in Calls : x \in Done => x \in Done'
    BY <2>1 DEF Done, At
  <2>3. p = "effect" => c \in Done'
    BY <1>1 DEF Done, At, Executes
  <2> QED BY <1>2, <2>2, <2>3 DEF Done
<1>4. SessionOk(store', e)
  BY <1>3, OkStays DEF SharedInv
<1>5. \A u \in Turns : TurnOk(turn'[u].pc, turn'[u].call, turn'[u].session, e)
  <2>1. TurnOk(p, c, s, e)
    BY <1>3, OkStays
  <2>2. \A u \in Turns : TurnOk(turn[u].pc, turn[u].call, turn[u].session, e)
    BY <1>3, OkStays DEF SharedInv, Session
  <2> QED BY <1>1, <2>1, <2>2
<1>6. Durable => \A i \in CellIds : cells'[i].call \in e \cup {NoCall}
  BY <1>3 DEF SharedInv
<1>7. ASSUME NEW x \in Calls PROVE effects'[x] + Cardinality(Executing(x)') <= Budget(x)'
  <2>1. /\ IsFiniteSet(Executing(x)) /\ Cardinality(Executing(x)) \in Nat
        /\ effects[x] \in Nat /\ approvals[x] \in Nat /\ Budget(x) \in Nat
        /\ effects[x] + Cardinality(Executing(x)) <= Budget(x)
    BY SharedMeans
  <2>2. Budget(x)' \in Nat /\ Budget(x) <= Budget(x)'
    BY <2>1 DEF Budget
  <2>3. CASE p \in Executes /\ x = c /\ ~(turn[t].pc \in Executes /\ turn[t].call = c)
    <3>1. Executing(x)' \subseteq Executing(x) \cup {t}
      BY <1>1 DEF Executing
    <3>2. /\ IsFiniteSet(Executing(x) \cup {t})
          /\ Cardinality(Executing(x) \cup {t}) <= Cardinality(Executing(x)) + 1
      <4>1. PICK S : S = Executing(x)
        OBVIOUS
      <4>2. IsFiniteSet(S) /\ Cardinality(S) \in Nat
        BY <2>1, <4>1
      <4>3. /\ IsFiniteSet(S \cup {t})
            /\ Cardinality(S \cup {t}) \in {Cardinality(S), Cardinality(S) + 1}
        BY <4>2, FS_AddElement, Zenon
      <4> QED BY <4>1, <4>2, <4>3
    <3>3. /\ Cardinality(Executing(x) \cup {t}) \in Nat
          /\ Cardinality(Executing(x)') <= Cardinality(Executing(x) \cup {t})
          /\ Cardinality(Executing(x)') \in Nat
      BY <3>1, <3>2, FS_Subset, FS_CardinalityType
    <3>4. effects[x] + Cardinality(Executing(x)) + 1 <= Budget(x)'
      BY <2>3
    <3> QED BY <2>1, <2>2, <3>2, <3>3, <3>4
  <2>4. CASE ~(p \in Executes /\ x = c /\ ~(turn[t].pc \in Executes /\ turn[t].call = c))
    <3>1. Executing(x)' \subseteq Executing(x)
      BY <1>1, <2>4 DEF Executing
    <3>2. /\ Cardinality(Executing(x)') <= Cardinality(Executing(x))
          /\ Cardinality(Executing(x)') \in Nat
      BY <2>1, <3>1, FS_Subset, FS_CardinalityType
    <3> QED BY <2>1, <2>2, <3>2
  <2> QED BY <2>3, <2>4
<1> QED BY <1>2, <1>4, <1>5, <1>6, <1>7 DEF SharedInv, Session

(* A turn that goes on without taking up a call.                           *)
LEMMA SharedGoesOn ==
  ASSUME Assumptions, TypeInv, SharedInv, NEW t \in Turns, NEW p, NEW c, NEW s,
         After(t, p, c, s), TurnOk(p, c, s, Done), p \notin Executes,
         ~At(t, "effect"), UNCHANGED <<effects, approvals>>,
         Kept \/ Saved(s, NoCall)
  PROVE  SharedInv'
<1>1. SessionOk(store', Done)
  BY DEF SharedInv, TurnOk, Kept, Saved
<1>2. Durable => \A i \in CellIds : cells'[i].call \in {cells[i].call, NoCall}
  BY DEF Kept, Saved
<1>3. approvals' \in [Calls -> Nat] /\ \A x \in Calls : approvals[x] <= approvals'[x]
  BY HostTypes
<1> QED BY <1>1, <1>2, <1>3, SharedStep DEF Executes

LEMMA StartRunShared ==
  ASSUME Assumptions, TypeInv, SharedInv, NEW t \in Turns, NEW input \in Inputs, StartRun(t, input)
  PROVE  SharedInv'
<1>1. /\ After(t, "reconcile", NoCall, store) /\ Kept /\ UNCHANGED <<effects, approvals>>
      /\ ~At(t, "effect") /\ store.state = "active"
  BY StartRunDoes DEF At
<1>2. PICK s : s = store
  OBVIOUS
<1>3. TurnOk("reconcile", NoCall, s, Done)
  BY <1>1, <1>2 DEF TurnOk, SharedInv, Holding
<1> QED BY <1>1, <1>2, <1>3, SharedGoesOn DEF Executes

LEMMA StartResolveShared ==
  ASSUME Assumptions, TypeInv, SharedInv, NEW t \in Turns, NEW c \in Calls, NEW approve \in BOOLEAN,
         StartResolve(t, c, approve)
  PROVE  SharedInv'
<1> DEFINE p == IF approve THEN "start" ELSE "denied"
           approved == IF approve THEN [approvals EXCEPT ![c] = @ + 1] ELSE approvals
<1>1. PICK s : s = Resumed(store)
  OBVIOUS
<1>2. /\ After(t, p, c, s) /\ store' = store /\ effects' = effects /\ approvals' = approved
      /\ \A i \in CellIds :
           cells'[i].call = IF Durable /\ i = store.cp THEN NoCall ELSE cells[i].call
      /\ ~At(t, "effect") /\ store.state = "awaiting" /\ store.pending = c
      /\ c \in Asked(store.msgs)
  BY <1>1, StartResolveDoes DEF At
<1>3. SessionOk(store, Done) /\ c \in Confirm
  BY <1>2 DEF SharedInv, SessionOk
<1>4. s.msgs = store.msgs /\ s.state = "active" /\ s.pending = NoCall
  BY <1>1, TurnFacts, ResumeSession
<1>5. TurnOk(p, c, s, Done)
  BY <1>2, <1>3, <1>4 DEF TurnOk, SessionOk, Holding
<1>6. approved \in [Calls -> Nat] /\ \A x \in Calls : approvals[x] <= approved[x]
  BY HostTypes
<1>7. p \in Executes => effects[c] + Cardinality(Executing(c)) + 1 <= Budget(c)'
  <2>1. CASE approve
    <3>1. Budget(c) = approvals[c] /\ Budget(c)' = approvals[c] + 1
      BY <1>2, <1>3, <2>1, HostTypes DEF Budget
    <3> QED BY <3>1, SharedMeans
  <2>2. CASE ~approve
    BY <2>2 DEF Executes
  <2> QED BY <2>1, <2>2
<1> HIDE DEF p, approved
<1> QED BY <1>2, <1>3, <1>5, <1>6, <1>7, SharedStep

LEMMA ReconcileShared ==
  ASSUME Assumptions, TypeInv, SharedInv, NEW t \in Turns, Reconcile(t)
  PROVE  SharedInv'
<1>1. /\ At(t, "reconcile") /\ ~At(t, "effect") /\ ~At(t, "idle") /\ ~At(t, "finish")
      /\ UNCHANGED <<effects, approvals>>
  BY ReconcileDoes DEF At
<1>2. /\ SessionOk(Session(t), Done) /\ Session(t).state = "active" /\ Session(t) \in Sessions
      /\ Durable => Session(t).cp \in CellIds
  BY <1>1, SharedMeans, TurnFacts DEF TurnOk, At
<1>3. PICK s : /\ s \in Sessions /\ s.state = "active" /\ SessionOk(s, Done)
               /\ After(t, "begin", turn[t].call, s)
               /\ Kept \/ Saved(s, NoCall)
  <2>1. CASE Kept /\ After(t, "begin", turn[t].call, Session(t))
    BY <1>2, <2>1
  <2>2. ASSUME Durable, Cell(t).call \in Calls,
               NEW s \in {Session(t), Told(Session(t), Result(Cell(t).call))},
               s \in Sessions, Saved(s, NoCall), After(t, "begin", turn[t].call, s)
        PROVE  s.state = "active" /\ SessionOk(s, Done)
    <3>1. Cell(t).call \in Done
      BY <1>2, <2>2 DEF Cell, SharedInv, Assumptions, CallAssumption
    <3>2. PICK u, m, d :
            /\ u \in Sessions /\ m \in Messages
            /\ u = Session(t) /\ m = Result(Cell(t).call) /\ d = Done
            /\ m.kind = "result" /\ m.of \in d
      BY <1>2, <2>2, <3>1, MessageTypes
    <3>3. SessionOk(Told(u, m), d) /\ Told(u, m).state = "active"
      BY <1>2, <3>2, ToldOk, TellSession
    <3> QED BY <1>2, <2>2, <3>2, <3>3
  <2> QED BY <2>1, <2>2, ReconcileDoes
<1>4. TurnOk("begin", turn[t].call, s, Done)
  BY <1>3 DEF TurnOk, Holding
<1> QED BY <1>1, <1>3, <1>4, SharedGoesOn DEF Executes

LEMMA BeginShared ==
  ASSUME Assumptions, TypeInv, SharedInv, NEW t \in Turns, Begin(t)
  PROVE  SharedInv'
<1>1. /\ At(t, "begin") /\ ~At(t, "effect") /\ UNCHANGED <<effects, approvals>>
  BY BeginDoes DEF At
<1>2. /\ SessionOk(Session(t), Done) /\ Session(t).state = "active" /\ Session(t) \in Sessions
      /\ turn[t].input \in {"text", "image", "odd"}
  BY <1>1, SharedMeans, TurnFacts DEF TurnOk, At
<1>3. PICK fed \in {Session(t), Told(Session(t), User(turn[t].input))} :
              /\ fed \in Sessions
              /\ \/ Kept /\ After(t, "loop", turn[t].call, fed)
                 \/ /\ Durable
                    /\ \E i \in CellIds :
                         LET opened == [fed EXCEPT !.cp = i] IN
                         /\ opened \in Sessions /\ Saved(opened, NoCall)
                         /\ After(t, "loop", turn[t].call, opened)
  BY BeginDoes
<1>4. SessionOk(fed, Done) /\ fed.state = "active"
  <2>1. PICK u, m, d :
          /\ u \in Sessions /\ m \in Messages
          /\ u = Session(t) /\ m = User(turn[t].input) /\ d = Done /\ m.kind = "user"
    BY <1>2, MessageTypes
  <2>2. SessionOk(Told(u, m), d) /\ Told(u, m).state = "active"
    BY <1>2, <2>1, ToldOk, TellSession
  <2> QED BY <1>2, <1>3, <2>1, <2>2
<1>5. PICK s : /\ s.state = "active" /\ SessionOk(s, Done)
               /\ After(t, "loop", turn[t].call, s)
               /\ Kept \/ Saved(s, NoCall)
  <2>1. ASSUME NEW i \in CellIds
        PROVE  LET opened == [fed EXCEPT !.cp = i] IN
               opened.state = "active" /\ SessionOk(opened, Done)
    BY <1>3, <1>4 DEF SessionOk, Sessions
  <2> QED BY <1>3, <1>4, <2>1
<1>6. TurnOk("loop", turn[t].call, s, Done)
  BY <1>5 DEF TurnOk, Holding
<1> QED BY <1>1, <1>5, <1>6, SharedGoesOn DEF Executes

LEMMA StopShared ==
  ASSUME Assumptions, TypeInv, SharedInv, NEW t \in Turns, Stop(t)
  PROVE  SharedInv'
<1>1. /\ ~At(t, "effect") /\ Kept /\ UNCHANGED <<effects, approvals>>
      /\ After(t, "finish", turn[t].call, Session(t))
  BY StopDoes DEF At
<1>2. TurnOk("finish", turn[t].call, Session(t), Done)
  BY SharedMeans DEF TurnOk, Holding
<1> QED BY <1>1, <1>2, SharedGoesOn DEF Executes

LEMMA EmptyOk ==
  ASSUME Assumptions, TypeInv, SharedInv, NEW t \in Turns, NEW why \in Outcomes, Abandon(t, why)
  PROVE  \E s \in Sessions : After(t, "idle", NoCall, s) /\ TurnOk("idle", NoCall, s, Done)
  BY AbandonAfter DEF TurnOk, SessionOk, Holding

LEMMA ErrorShared ==
  ASSUME Assumptions, TypeInv, SharedInv, NEW t \in Turns,
         MediaRefused(t) \/ ModelFails(t) \/ PauseNotSaved(t)
  PROVE  SharedInv'
<1>1. /\ ~At(t, "effect") /\ Kept /\ UNCHANGED <<effects, approvals>>
      /\ \E why \in Outcomes : Abandon(t, why)
  BY ErrorDoes DEF At
<1> QED BY <1>1, EmptyOk, SharedGoesOn DEF Executes

LEMMA FinishShared ==
  ASSUME Assumptions, TypeInv, SharedInv, NEW t \in Turns, Finish(t)
  PROVE  SharedInv'
<1>1. /\ ~At(t, "effect") /\ store' = Session(t) /\ UNCHANGED <<effects, approvals>>
      /\ \E why \in Outcomes : Abandon(t, why)
      /\ \A i \in CellIds : cells'[i].call \in {cells[i].call, NoCall}
  BY FinishDoes DEF At
<1>2. SessionOk(store', Done)
  BY <1>1, SharedMeans DEF TurnOk
<1>3. approvals' \in [Calls -> Nat] /\ \A x \in Calls : approvals[x] <= approvals'[x]
  BY <1>1, HostTypes
<1> QED BY <1>1, <1>2, <1>3, EmptyOk, SharedStep DEF Executes

LEMMA ModelAnswersShared ==
  ASSUME Assumptions, TypeInv, SharedInv, NEW t \in Turns, ModelAnswers(t)
  PROVE  SharedInv'
<1>1. PICK s \in Sessions : /\ s = Told(Session(t), Answer)
                            /\ Saved(s, NoCall) /\ After(t, "finish", turn[t].call, s)
  BY ModelAnswersDoes
<1>2. /\ At(t, "loop") /\ ~At(t, "effect") /\ UNCHANGED <<effects, approvals>>
  BY ModelAnswersDoes DEF At
<1>3. PICK u, m, d :
        /\ u \in Sessions /\ m \in Messages
        /\ u = Session(t) /\ m = Answer /\ d = Done /\ m.kind = "answer"
        /\ SessionOk(u, d) /\ u.state = "active"
  BY <1>2, SharedMeans, TurnFacts, MessageTypes DEF TurnOk, At
<1>4. SessionOk(Told(u, m), d) /\ Told(u, m).state = "active"
  BY <1>3, ToldOk, TellSession
<1>5. TurnOk("finish", turn[t].call, s, Done)
  BY <1>1, <1>3, <1>4 DEF TurnOk, Holding
<1> QED BY <1>1, <1>2, <1>5, SharedGoesOn DEF Executes

(* No turn holds a fresh call, and none was executed.                      *)
LEMMA FreshIsNew ==
  ASSUME Assumptions, TypeInv, SharedInv, NEW c \in Calls, Fresh(c)
  PROVE  /\ Executing(c) = {} /\ Cardinality(Executing(c)) = 0 /\ effects[c] = 0 /\ c \notin Done
         /\ \A u \in Turns : c \notin Asked(Session(u).msgs) \cup Answered(Session(u).msgs)
<1>1. effects[c] = 0 /\ \A u \in Turns : c \notin Asked(Session(u).msgs)
  BY DEF Fresh
<1>2. \A u \in Turns : turn[u].pc \in Holding => turn[u].call # c
  BY <1>1, SharedMeans DEF TurnOk
<1>3. Executing(c) = {} /\ c \notin Done
  BY <1>1, <1>2 DEF Executing, Executes, Holding, Done, At
<1>4. Cardinality(Executing(c)) = 0
  BY <1>3, FS_EmptySet
<1>5. \A u \in Turns : c \notin Answered(Session(u).msgs)
  BY <1>1, <1>3, SharedMeans DEF TurnOk, SessionOk
<1> QED BY <1>1, <1>3, <1>4, <1>5

LEMMA ModelAsksShared ==
  ASSUME Assumptions, TypeInv, SharedInv, NEW t \in Turns, NEW c \in Calls, ModelAsks(t, c)
  PROVE  SharedInv'
<1> DEFINE p == IF c \in Confirm THEN "confirm" ELSE "start"
<1>1. PICK s \in Sessions : /\ s = Told(Session(t), Asks(c))
                            /\ Saved(s, NoCall) /\ After(t, p, c, s)
  BY ModelAsksDoes
<1>2. /\ At(t, "loop") /\ ~At(t, "effect") /\ UNCHANGED <<effects, approvals>> /\ Fresh(c)
  BY ModelAsksDoes DEF At
<1>3. PICK u, m, d :
        /\ u \in Sessions /\ m \in Messages
        /\ u = Session(t) /\ m = Asks(c) /\ d = Done /\ m.kind = "asks" /\ m.of = c
        /\ SessionOk(u, d) /\ u.state = "active"
  BY <1>2, SharedMeans, TurnFacts, MessageTypes DEF TurnOk, At
<1>4. /\ SessionOk(Told(u, m), d) /\ Told(u, m).state = "active"
      /\ c \in Asked(Told(u, m).msgs) /\ Answered(Told(u, m).msgs) = Answered(u.msgs)
  <2>1. SessionOk(Told(u, m), d)
    BY <1>3, ToldOk
  <2>2. /\ Told(u, m).state = "active" /\ Asked(Told(u, m).msgs) = Asked(u.msgs) \cup {c}
        /\ Answered(Told(u, m).msgs) = Answered(u.msgs) \cup {}
    <3>1. /\ Told(u, m).state = u.state
          /\ Asked(Told(u, m).msgs) = Asked(u.msgs) \cup (IF m.kind = "asks" THEN {m.of} ELSE {})
          /\ Answered(Told(u, m).msgs) =
               Answered(u.msgs) \cup (IF m.kind = "result" THEN {m.of} ELSE {})
      <4>1. u \in Sessions /\ m \in Messages
        BY <1>3
      <4> QED BY <4>1, TellSession
    <3> QED BY <1>3, <3>1
  <2> QED BY <2>1, <2>2
<1>5. /\ c \notin Answered(u.msgs) /\ effects[c] = 0 /\ Cardinality(Executing(c)) = 0
  BY <1>2, <1>3, FreshIsNew
<1>6. TurnOk(p, c, s, Done)
  BY <1>1, <1>3, <1>4, <1>5 DEF TurnOk
<1>7. p \in Executes => effects[c] + Cardinality(Executing(c)) + 1 <= Budget(c)'
  BY <1>5 DEF Executes, Budget
<1>8. /\ SessionOk(store', Done) /\ approvals' \in [Calls -> Nat]
      /\ \A x \in Calls : approvals[x] <= approvals'[x]
      /\ \A i \in CellIds : cells'[i].call \in {cells[i].call, NoCall}
  BY <1>1, <1>2, <1>6, HostTypes DEF Saved, SharedInv, TurnOk
<1> HIDE DEF p
<1> QED BY <1>1, <1>2, <1>6, <1>7, <1>8, SharedStep

LEMMA ApproveShared ==
  ASSUME Assumptions, TypeInv, SharedInv, NEW t \in Turns, Approve(t)
  PROVE  SharedInv'
<1>1. PICK s, c : s = Session(t) /\ c = turn[t].call
  OBVIOUS
<1>2. /\ At(t, "confirm") /\ ~At(t, "effect") /\ Kept /\ effects' = effects
      /\ approvals' = [approvals EXCEPT ![c] = @ + 1] /\ After(t, "start", c, s)
  BY <1>1, ApproveDoes DEF At
<1>3. TurnOk("confirm", c, s, Done) /\ c \in Calls
  BY <1>1, <1>2, SharedMeans, TurnFacts DEF At, Holding
<1>4. TurnOk("start", c, s, Done) /\ c \in Confirm
  BY <1>3 DEF TurnOk, Holding
<1>5. /\ approvals' \in [Calls -> Nat] /\ approvals'[c] = approvals[c] + 1
      /\ \A x \in Calls : approvals[x] <= approvals'[x]
  BY <1>2, <1>3, HostTypes
<1>6. effects[c] + Cardinality(Executing(c)) + 1 <= Budget(c)'
  <2>1. Budget(c) = approvals[c] /\ Budget(c)' = approvals[c] + 1
    BY <1>4, <1>5 DEF Budget
  <2> QED BY <1>3, <2>1, SharedMeans
<1>7. SessionOk(store', Done) /\ cells' = cells
  BY <1>2 DEF Kept, SharedInv
<1> QED BY <1>2, <1>3, <1>4, <1>5, <1>6, <1>7, SharedStep

LEMMA ResultShared ==
  ASSUME Assumptions, TypeInv, SharedInv, NEW t \in Turns, Deny(t) \/ Record(t)
  PROVE  SharedInv'
<1>1. PICK s \in Sessions : /\ s = Told(Session(t), Result(turn[t].call))
                            /\ Kept \/ Saved(s, NoCall)
                            /\ After(t, "loop", turn[t].call, s)
  <2>1. CASE Deny(t)
    BY <2>1, DenyDoes
  <2>2. CASE Record(t)
    BY <2>2, RecordDoes
  <2> QED BY <2>1, <2>2
<1>2. turn[t].pc \in {"confirm", "denied", "record"} /\ UNCHANGED <<effects, approvals>>
  BY DenyDoes, RecordDoes DEF At
<1>3. PICK u, m, d :
        /\ u \in Sessions /\ m \in Messages
        /\ u = Session(t) /\ m = Result(turn[t].call) /\ d = Done /\ m.of \in Asked(u.msgs)
        /\ SessionOk(u, d) /\ u.state = "active"
  BY <1>2, SharedMeans, TurnFacts, MessageTypes DEF TurnOk, Holding
<1>4. SessionOk(Told(u, m), d) /\ Told(u, m).state = "active"
  BY <1>3, ToldOk, TellSession
<1>5. TurnOk("loop", turn[t].call, s, Done)
  BY <1>1, <1>3, <1>4 DEF TurnOk, Holding
<1> QED BY <1>1, <1>2, <1>5, SharedGoesOn DEF Executes, At

LEMMA PauseShared ==
  ASSUME Assumptions, TypeInv, SharedInv, NEW t \in Turns, Pause(t)
  PROVE  SharedInv'
<1>1. PICK s, c : /\ s \in Sessions /\ s = Waiting(Session(t), c) /\ c = turn[t].call
                  /\ store' = s /\ cells' = cells /\ After(t, "finish", c, s)
  BY PauseDoes
<1>2. /\ At(t, "confirm") /\ ~At(t, "effect") /\ UNCHANGED <<effects, approvals>>
  BY PauseDoes DEF At
<1>3. TurnOk("confirm", c, Session(t), Done) /\ c \in Calls /\ Session(t) \in Sessions
  BY <1>1, <1>2, SharedMeans, TurnFacts DEF At, Holding
<1>4. s.msgs = Session(t).msgs /\ s.state = "awaiting" /\ s.pending = c
  BY <1>1, <1>3, WaitingSession
<1>5. TurnOk("finish", c, s, Done)
  BY <1>3, <1>4 DEF TurnOk, SessionOk, Holding
<1>6. approvals' \in [Calls -> Nat] /\ \A x \in Calls : approvals[x] <= approvals'[x]
  BY <1>2, HostTypes
<1>7. SessionOk(store', Done)
  BY <1>1, <1>5 DEF TurnOk
<1> QED BY <1>1, <1>2, <1>5, <1>6, <1>7, SharedStep DEF Executes

LEMMA ToolStartShared ==
  ASSUME Assumptions, TypeInv, SharedInv, NEW t \in Turns, ToolStart(t)
  PROVE  SharedInv'
<1>1. PICK s, c : s = Session(t) /\ c = turn[t].call
  OBVIOUS
<1>2. /\ At(t, "start") /\ ~At(t, "effect") /\ UNCHANGED <<effects, approvals>> /\ c \in Calls
      /\ Saved(s, c) /\ After(t, "effect", c, s)
  BY <1>1, ToolStartDoes DEF At
<1>3. TurnOk("effect", c, s, Done)
  BY <1>1, <1>2, SharedMeans DEF TurnOk, At, Holding
<1>4. /\ SessionOk(store', Done)
      /\ \A i \in CellIds : cells'[i].call \in {cells[i].call, NoCall} \cup {c}
  BY <1>2, <1>3 DEF Saved, SharedInv, TurnOk
<1>5. approvals' \in [Calls -> Nat] /\ \A x \in Calls : approvals[x] <= approvals'[x]
  BY <1>2, HostTypes
<1>6. turn[t].pc \in Executes /\ turn[t].call = c
  BY <1>1, <1>2 DEF Executes, At
<1> QED BY <1>2, <1>3, <1>4, <1>5, <1>6, SharedStep

(* The effect takes the place of the execution under way.                  *)
LEMMA ToolEffectShared ==
  ASSUME Assumptions, TypeInv, SharedInv, NEW t \in Turns, ToolEffect(t)
  PROVE  SharedInv'
<1>1. PICK s, c, e : s = Session(t) /\ c = turn[t].call /\ e = Done'
  OBVIOUS
<1>2. /\ At(t, "effect") /\ Kept /\ approvals' = approvals /\ c \in Calls
      /\ effects' = [effects EXCEPT ![c] = @ + 1] /\ effects \in [Calls -> Nat]
      /\ After(t, "record", c, s)
  BY <1>1, ToolEffectDoes, HostTypes
<1>3. /\ turn'[t].pc = "record" /\ turn'[t].call = c /\ turn'[t].session = s
      /\ \A u \in Turns : u # t => turn'[u] = turn[u]
  BY <1>2 DEF After
<1>4. Done \subseteq e
  <2>1. \A x \in Calls : effects[x] > 0 \/ x = c => effects'[x] > 0
    BY <1>2
  <2>2. \A x \in Calls : x \in Done => x \in Done'
    BY <1>1, <1>2, <1>3, <2>1 DEF Done, At
  <2> QED BY <1>1, <2>2 DEF Done
<1>5. TurnOk("record", c, s, e) /\ SessionOk(store', e)
  <2>1. TurnOk("record", c, s, Done) /\ SessionOk(store', Done)
    BY <1>1, <1>2, SharedMeans DEF TurnOk, At, Holding, Kept
  <2> QED BY <1>4, <2>1, OkStays
<1>6. \A u \in Turns : TurnOk(turn'[u].pc, turn'[u].call, turn'[u].session, e)
  <2>1. \A u \in Turns : TurnOk(turn[u].pc, turn[u].call, turn[u].session, e)
    BY <1>4, OkStays DEF SharedInv, Session
  <2> QED BY <1>3, <1>5, <2>1
<1>7. Durable => \A i \in CellIds : cells'[i].call \in e \cup {NoCall}
  BY <1>2, <1>4 DEF SharedInv, Kept
<1>8. ASSUME NEW x \in Calls PROVE effects'[x] + Cardinality(Executing(x)') <= Budget(x)'
  <2>1. PICK E, F : E = Executing(x) /\ F = Executing(x)'
    OBVIOUS
  <2>2. /\ IsFiniteSet(E) /\ Cardinality(E) \in Nat /\ effects[x] \in Nat /\ Budget(x) \in Nat
        /\ effects[x] + Cardinality(E) <= Budget(x) /\ Budget(x)' = Budget(x)
    BY <1>2, <2>1, SharedMeans DEF Budget
  <2>3. CASE x = c
    <3>1. t \in E /\ F \subseteq E \ {t}
      BY <1>1, <1>2, <1>3, <2>1, <2>3 DEF Executing, Executes, At
    <3>2. IsFiniteSet(E \ {t}) /\ Cardinality(E \ {t}) = Cardinality(E) - 1
      BY <2>2, <3>1, FS_RemoveElement
    <3>3. Cardinality(F) <= Cardinality(E \ {t}) /\ Cardinality(F) \in Nat
      BY <3>1, <3>2, FS_Subset, FS_CardinalityType
    <3>4. effects'[x] = effects[x] + 1
      BY <1>2, <2>3
    <3> QED BY <2>1, <2>2, <3>2, <3>3, <3>4
  <2>4. CASE x # c
    <3>1. F \subseteq E /\ effects'[x] = effects[x]
      BY <1>2, <1>3, <2>1, <2>4 DEF Executing, Executes
    <3>2. Cardinality(F) <= Cardinality(E) /\ Cardinality(F) \in Nat
      BY <2>2, <3>1, FS_Subset, FS_CardinalityType
    <3> QED BY <2>1, <2>2, <3>1, <3>2
  <2> QED BY <2>3, <2>4
<1> QED BY <1>1, <1>5, <1>6, <1>7, <1>8 DEF SharedInv, Session

LEMMA InitShared ==
  ASSUME Assumptions, Init
  PROVE  SharedInv
<1>1. /\ store.state = "active" /\ store.pending = NoCall /\ Answered(store.msgs) = {}
  BY FirstSession
<1>2. \A t \in Turns : turn[t] = Idle("none", "text")
  BY DEF Init
<1>3. \A t \in Turns : TurnOk(turn[t].pc, turn[t].call, Session(t), Done)
  <2>1. PICK i : /\ i = Idle("none", "text") /\ i.pc = "idle" /\ i.session.state = "active"
                 /\ i.session.pending = NoCall /\ Answered(i.session.msgs) = {}
    BY EmptySession DEF Outcomes
  <2>2. TurnOk(i.pc, i.call, i.session, Done)
    BY <2>1 DEF TurnOk, SessionOk, Holding
  <2> QED BY <1>2, <2>1, <2>2 DEF Session
<1>4. \A i \in CellIds : cells[i].call = NoCall
  BY DEF Init
<1>5. ASSUME NEW c \in Calls PROVE effects[c] + Cardinality(Executing(c)) <= Budget(c)
  <2>1. Executing(c) = {}
    BY <1>2, EmptySession DEF Outcomes, Executing, Executes
  <2>2. Cardinality(Executing(c)) = 0
    BY <2>1, FS_EmptySet
  <2> QED BY <2>2 DEF Init, Budget
<1> QED BY <1>1, <1>3, <1>4, <1>5 DEF SharedInv, SessionOk

LEMMA NextShared ==
  ASSUME Assumptions, TypeInv, SharedInv, [Next]_vars
  PROVE  SharedInv'
<1>1. CASE UNCHANGED vars
  BY <1>1 DEF vars, SharedInv, Done, Executing, Budget, At, Session
<1>2. ASSUME NEW t \in Turns, HostStep(t) PROVE SharedInv'
  BY <1>2, StartRunShared, StartResolveShared DEF HostStep
<1>3. ASSUME NEW t \in Turns, Step(t) PROVE SharedInv'
  BY <1>3, ReconcileShared, BeginShared, StopShared, ErrorShared, ModelAnswersShared,
     ModelAsksShared, ApproveShared, ResultShared, PauseShared, ToolStartShared,
     ToolEffectShared, FinishShared DEF Step
<1> QED BY <1>1, <1>2, <1>3 DEF Next

LEMMA SharedInvariant == Assumptions => (Spec => [](TypeInv /\ SharedInv))
<1> SUFFICES ASSUME Assumptions PROVE Spec => [](TypeInv /\ SharedInv)
  OBVIOUS
<1>1. Init => TypeInv /\ SharedInv
  BY InitTypes, InitShared
<1>2. TypeInv /\ SharedInv /\ [Next]_vars => TypeInv' /\ SharedInv'
  BY NextTypes, NextShared
<1> QED BY <1>1, <1>2, PTL DEF Spec

(* However many turns overlap on one session, with durability or without,  *)
(* a call that needs a human is executed at most once for each approval,   *)
(* any other at most once: neither the shared write-ahead nor a stale copy *)
(* of the session makes a turn execute what another has under way          *)
(* (reconcileCheckpoint, ResolveConfirmation's check of the pending call). *)
THEOREM EffectsWithinApprovals == Assumptions => (Spec => []OneEffectPerApproval)
<1> SUFFICES ASSUME Assumptions PROVE Spec => []OneEffectPerApproval
  OBVIOUS
<1>1. TypeInv /\ SharedInv => OneEffectPerApproval
  <2> SUFFICES ASSUME TypeInv, SharedInv, NEW c \in Calls PROVE effects[c] <= Budget(c)
    BY DEF OneEffectPerApproval, Budget
  <2>1. CASE Turns = {}
    <3>1. Executing(c) = {}
      BY <2>1 DEF Executing
    <3>2. Cardinality(Executing(c)) = 0
      BY <3>1, FS_EmptySet
    <3> QED BY <3>2, HostTypes DEF SharedInv, Budget
  <2>2. CASE Turns # {}
    BY <2>2, SharedMeans
  <2> QED BY <2>1, <2>2
<1> QED BY <1>1, SharedInvariant, PTL

(* However turns overlap, the session in the store waits only for a call   *)
(* that its own history holds unanswered: whatever pause or stale copy was *)
(* saved last, ResolveConfirmation finds the call it resolves.             *)
THEOREM PausesResolvable == Assumptions => (Spec => []AwaitingIsResolvable)
<1>1. SharedInv => AwaitingIsResolvable
  BY DEF SharedInv, SessionOk, AwaitingIsResolvable
<1> QED BY <1>1, SharedInvariant, PTL

----------------------------------------------------------------------------
(* Turns one at a time.                                                    *)

LEMMA PrefixMeans ==
  ASSUME NEW a \in Seq(Messages), NEW b \in Seq(Messages)
  PROVE  IsPrefix(a, b) <=> Len(a) <= Len(b) /\ \A i \in 1 .. Len(a) : a[i] = b[i]
  BY DEF IsPrefix

LEMMA PrefixSelf ==
  ASSUME NEW a \in Seq(Messages)
  PROVE  IsPrefix(a, a)
  BY DEF IsPrefix

LEMMA PrefixTrans ==
  ASSUME NEW a \in Seq(Messages), NEW b \in Seq(Messages), NEW c \in Seq(Messages),
         IsPrefix(a, b), IsPrefix(b, c)
  PROVE  IsPrefix(a, c)
<1>1. /\ Len(a) <= Len(b) /\ \A i \in 1 .. Len(a) : a[i] = b[i]
      /\ Len(b) <= Len(c) /\ \A i \in 1 .. Len(b) : b[i] = c[i]
      /\ Len(a) \in Nat /\ Len(b) \in Nat /\ Len(c) \in Nat
  BY PrefixMeans
<1>2. Len(a) <= Len(c) /\ \A i \in 1 .. Len(a) : a[i] = c[i]
  BY <1>1
<1> QED BY <1>2, PrefixMeans

LEMMA PrefixAppend ==
  ASSUME NEW a \in Seq(Messages), NEW m \in Messages
  PROVE  IsPrefix(a, Append(a, m))
<1>1. /\ Append(a, m) \in Seq(Messages) /\ Len(Append(a, m)) = Len(a) + 1
      /\ Len(a) \in Nat /\ \A i \in 1 .. Len(a) : a[i] = Append(a, m)[i]
  OBVIOUS
<1>2. Len(a) <= Len(Append(a, m))
  BY <1>1
<1> QED BY <1>1, <1>2, PrefixMeans

LEMMA PrefixAnswered ==
  ASSUME NEW a \in Seq(Messages), NEW b \in Seq(Messages), IsPrefix(a, b)
  PROVE  Answered(a) \subseteq Answered(b)
<1>1. Len(a) <= Len(b) /\ \A i \in 1 .. Len(a) : a[i] = b[i]
  BY PrefixMeans
<1>2. \A i \in DOMAIN a : i \in DOMAIN b /\ a[i] = b[i]
  BY <1>1
<1> QED BY <1>2 DEF Answered

(* The session a turn works on extends the stored one and shares its       *)
(* checkpoint, and no other turn is under way.                             *)
OthersIdle(t) == \A u \in Turns : u # t => At(u, "idle")

AloneInv ==
  \A t \in Turns : ~At(t, "idle") =>
    OthersIdle(t) /\ IsPrefix(store.msgs, Session(t).msgs) /\ Session(t).cp = store.cp

(* The stored write-ahead names the call that is being executed.           *)
Announcing == {"effect", "record"}

AnnouncedInv ==
  /\ \A t \in Turns : turn[t].pc \in Announcing => cells[store.cp].call = turn[t].call
  /\ (\A t \in Turns : turn[t].pc \notin Announcing) => cells[store.cp].call = NoCall
  /\ EffectIsStored

SerialInv == AloneInv /\ (Durable => AnnouncedInv)

LEMMA HistoryTypes ==
  ASSUME Assumptions, TypeInv, NEW t \in Turns
  PROVE  store.msgs \in Seq(Messages) /\ Session(t).msgs \in Seq(Messages)
  BY TurnFacts DEF Sessions, Histories, Messages

(* What the write-ahead says while t alone is under way.                   *)
LEMMA AloneAnnounces ==
  ASSUME SerialInv, Durable, NEW t \in Turns, OthersIdle(t)
  PROVE  /\ turn[t].pc \in Announcing => cells[store.cp].call = turn[t].call
         /\ turn[t].pc \notin Announcing => cells[store.cp].call = NoCall
         /\ EffectIsStored
  BY DEF SerialInv, AnnouncedInv, OthersIdle, At, Announcing

LEMMA SerialStep ==
  ASSUME Assumptions, TypeInv, SerialInv, NEW t \in Turns, OthersIdle(t),
         NEW p, NEW c, NEW s, After(t, p, c, s),
         p # "idle" => IsPrefix(store'.msgs, s.msgs) /\ s.cp = store'.cp,
         Durable => cells'[store'.cp].call = IF p \in Announcing THEN c ELSE NoCall,
         Durable => EffectIsStored'
  PROVE  SerialInv'
<1>1. /\ turn'[t].pc = p /\ turn'[t].call = c /\ turn'[t].session = s
      /\ \A u \in Turns : u # t => turn'[u] = turn[u]
  BY DEF After
<1>2. \A u \in Turns : u # t => turn'[u].pc = "idle"
  BY <1>1 DEF OthersIdle, At
<1>3. AloneInv'
  BY <1>1, <1>2 DEF AloneInv, OthersIdle, At, Session
<1>4. Durable => AnnouncedInv'
  BY <1>1, <1>2 DEF AnnouncedInv, Announcing
<1> QED BY <1>3, <1>4 DEF SerialInv

(* A turn under way that executes nothing; what it saves, if it saves, is  *)
(* its own session, which answers the call it no longer announces.         *)
LEMMA SerialGoesOn ==
  ASSUME Assumptions, TypeInv, SerialInv, NEW t \in Turns, ~At(t, "idle"),
         NEW p, NEW c, NEW s \in Sessions, After(t, p, c, s), p # "idle",
         IsPrefix(Session(t).msgs, s.msgs), effects' = effects,
         turn[t].pc \in Announcing => turn[t].call \in Answered(s.msgs),
         \/ /\ Kept /\ s.cp = Session(t).cp
            /\ p \notin Announcing /\ turn[t].pc \notin Announcing
         \/ /\ Saved(s, IF p \in Announcing THEN c ELSE NoCall)
            /\ IF Durable THEN s.cp \in CellIds ELSE s.cp = Session(t).cp
  PROVE  SerialInv' /\ IsPrefix(store.msgs, store'.msgs)
<1>1. /\ OthersIdle(t) /\ IsPrefix(store.msgs, Session(t).msgs) /\ Session(t).cp = store.cp
  BY DEF SerialInv, AloneInv
<1>2. /\ store.msgs \in Seq(Messages) /\ Session(t).msgs \in Seq(Messages)
      /\ s.msgs \in Seq(Messages)
  BY HistoryTypes DEF Sessions, Histories, Messages
<1>3. IsPrefix(store.msgs, s.msgs) /\ IsPrefix(s.msgs, s.msgs) /\ IsPrefix(store.msgs, store.msgs)
  BY <1>1, <1>2, PrefixTrans, PrefixSelf
<1>4. Answered(store.msgs) \subseteq Answered(s.msgs)
  BY <1>2, <1>3, PrefixAnswered
<1>5. CASE Kept /\ s.cp = Session(t).cp /\ p \notin Announcing /\ turn[t].pc \notin Announcing
  <2>1. store' = store /\ cells' = cells
    BY <1>5 DEF Kept
  <2>2. Durable => cells'[store'.cp].call = NoCall /\ EffectIsStored'
    BY <1>1, <1>5, <2>1, AloneAnnounces DEF EffectIsStored
  <2>3. SerialInv'
    BY <1>1, <1>3, <1>5, <2>1, <2>2, SerialStep
  <2> QED BY <1>3, <2>1, <2>3
<1>6. CASE /\ Saved(s, IF p \in Announcing THEN c ELSE NoCall)
           /\ IF Durable THEN s.cp \in CellIds ELSE s.cp = Session(t).cp
  <2>1. /\ store' = IF Durable THEN s ELSE store
        /\ Durable => cells'[store'.cp].call = IF p \in Announcing THEN c ELSE NoCall
    BY <1>6 DEF Saved
  <2>2. Durable => EffectIsStored'
    <3> SUFFICES ASSUME Durable, NEW x \in Calls, effects[x] > 0
                 PROVE  x \in Answered(s.msgs)
      BY <2>1 DEF EffectIsStored
    <3>1. x \in Answered(store.msgs) \/ cells[store.cp].call = x
      BY <1>1, AloneAnnounces DEF EffectIsStored
    <3>2. x # NoCall
      BY DEF Assumptions, CallAssumption
    <3>3. cells[store.cp].call = x => turn[t].pc \in Announcing /\ turn[t].call = x
      BY <1>1, <3>2, AloneAnnounces
    <3> QED BY <1>4, <3>1, <3>3
  <2>3. SerialInv'
    BY <1>1, <1>3, <1>6, <2>1, <2>2, SerialStep
  <2> QED BY <1>3, <2>1, <2>3
<1> QED BY <1>5, <1>6

(* A turn that begins or ends: the write-ahead is clear and stays clear.   *)
LEMMA SerialBounds ==
  ASSUME Assumptions, TypeInv, SerialInv, NEW t \in Turns, OthersIdle(t),
         turn[t].pc \notin Announcing, NEW p, NEW c, NEW s, After(t, p, c, s),
         p \notin Announcing, effects' = effects,
         IsPrefix(store.msgs, store'.msgs), store'.msgs \in Seq(Messages),
         store'.cp = store.cp,
         p # "idle" => IsPrefix(store'.msgs, s.msgs) /\ s.cp = store'.cp,
         Durable => cells'[store.cp].call \in {NoCall, cells[store.cp].call}
  PROVE  SerialInv'
<1>1. store.msgs \in Seq(Messages)
  BY HistoryTypes
<1>2. Answered(store.msgs) \subseteq Answered(store'.msgs)
  BY <1>1, PrefixAnswered
<1>3. Durable => cells[store.cp].call = NoCall /\ cells'[store'.cp].call = NoCall
  BY AloneAnnounces
<1>4. Durable => EffectIsStored'
  <2> SUFFICES ASSUME Durable, NEW x \in Calls, effects[x] > 0
               PROVE  x \in Answered(store'.msgs)
    BY DEF EffectIsStored
  <2>1. x # NoCall
    BY DEF Assumptions, CallAssumption
  <2> QED BY <1>2, <1>3, <2>1, AloneAnnounces DEF EffectIsStored
<1> QED BY <1>3, <1>4, SerialStep

LEMMA ToldExtends ==
  ASSUME NEW s \in Sessions, NEW m \in Messages
  PROVE  IsPrefix(s.msgs, Told(s, m).msgs)
<1>1. s.msgs \in Seq(Messages)
  BY DEF Sessions, Histories, Messages
<1> QED BY <1>1, TellSession, PrefixAppend

LEMMA StartRunSerial ==
  ASSUME Assumptions, ~Overlap, TypeInv, SerialInv, NEW t \in Turns, NEW input \in Inputs,
         StartRun(t, input)
  PROVE  SerialInv' /\ IsPrefix(store.msgs, store'.msgs)
<1>1. /\ After(t, "reconcile", NoCall, store) /\ store' = store /\ cells' = cells
      /\ effects' = effects /\ At(t, "idle") /\ OthersIdle(t)
  BY StartRunDoes DEF Kept, OthersIdle
<1>2. store.msgs \in Seq(Messages) /\ IsPrefix(store.msgs, store.msgs)
  BY HistoryTypes, PrefixSelf
<1> QED BY <1>1, <1>2, SerialBounds DEF At, Announcing

LEMMA StartResolveSerial ==
  ASSUME Assumptions, ~Overlap, TypeInv, SerialInv, NEW t \in Turns, NEW c \in Calls,
         NEW approve \in BOOLEAN, StartResolve(t, c, approve)
  PROVE  SerialInv' /\ IsPrefix(store.msgs, store'.msgs)
<1> DEFINE p == IF approve THEN "start" ELSE "denied"
<1>1. PICK s : s = Resumed(store)
  OBVIOUS
<1>2. /\ After(t, p, c, s) /\ store' = store /\ effects' = effects /\ At(t, "idle")
      /\ OthersIdle(t)
      /\ \A i \in CellIds :
           cells'[i].call = IF Durable /\ i = store.cp THEN NoCall ELSE cells[i].call
  BY <1>1, StartResolveDoes DEF OthersIdle
<1>3. /\ store.msgs \in Seq(Messages) /\ IsPrefix(store.msgs, store.msgs)
      /\ s.msgs = store.msgs /\ s.cp = store.cp /\ (Durable => store.cp \in CellIds)
  BY <1>1, HistoryTypes, PrefixSelf, TurnFacts, ResumeSession
<1>4. p \in {"start", "denied"}
  OBVIOUS
<1> HIDE DEF p
<1> QED BY <1>2, <1>3, <1>4, SerialBounds DEF At, Announcing

(* Alone, a turn finds no write-ahead of another to reconcile.             *)
LEMMA ReconcileSerial ==
  ASSUME Assumptions, TypeInv, SerialInv, NEW t \in Turns, Reconcile(t)
  PROVE  SerialInv' /\ IsPrefix(store.msgs, store'.msgs)
<1>1. At(t, "reconcile") /\ effects' = effects /\ ~At(t, "idle")
  BY ReconcileDoes DEF At
<1>2. OthersIdle(t) /\ Session(t).cp = store.cp
  BY <1>1 DEF SerialInv, AloneInv
<1>3. Durable => Cell(t).call = NoCall
  BY <1>1, <1>2, AloneAnnounces DEF Cell, At, Announcing
<1>4. Kept /\ After(t, "begin", turn[t].call, Session(t))
  BY <1>3, ReconcileDoes DEF Assumptions, CallAssumption
<1>5. Session(t) \in Sessions /\ IsPrefix(Session(t).msgs, Session(t).msgs)
  BY TurnFacts, HistoryTypes, PrefixSelf
<1> QED BY <1>1, <1>4, <1>5, SerialGoesOn DEF At, Announcing

LEMMA BeginSerial ==
  ASSUME Assumptions, TypeInv, SerialInv, NEW t \in Turns, Begin(t)
  PROVE  SerialInv' /\ IsPrefix(store.msgs, store'.msgs)
<1>1. /\ At(t, "begin") /\ ~At(t, "idle") /\ effects' = effects
      /\ turn[t].pc \notin Announcing
  BY BeginDoes DEF At, Announcing
<1>2. PICK fed \in {Session(t), Told(Session(t), User(turn[t].input))} :
              /\ fed \in Sessions
              /\ \/ Kept /\ After(t, "loop", turn[t].call, fed)
                 \/ /\ Durable
                    /\ \E i \in CellIds :
                         LET opened == [fed EXCEPT !.cp = i] IN
                         /\ opened \in Sessions /\ Saved(opened, NoCall)
                         /\ After(t, "loop", turn[t].call, opened)
  BY BeginDoes
<1>3. IsPrefix(Session(t).msgs, fed.msgs) /\ fed.cp = Session(t).cp
  <2>1. /\ Session(t) \in Sessions /\ User(turn[t].input) \in Messages
        /\ IsPrefix(Session(t).msgs, Session(t).msgs)
    BY TurnFacts, MessageTypes, HistoryTypes, PrefixSelf
  <2> QED BY <1>2, <2>1, ToldExtends, TellSession
<1>4. PICK s \in Sessions :
        /\ After(t, "loop", turn[t].call, s) /\ s.msgs = fed.msgs
        /\ \/ Kept /\ s.cp = Session(t).cp
           \/ Durable /\ Saved(s, NoCall) /\ s.cp \in CellIds
  <2>1. \A i \in CellIds : LET opened == [fed EXCEPT !.cp = i] IN
                           opened.msgs = fed.msgs /\ opened.cp = i
    BY <1>2 DEF Sessions
  <2> QED BY <1>2, <1>3, <2>1
<1> QED BY <1>1, <1>3, <1>4, SerialGoesOn DEF Announcing

LEMMA StopSerial ==
  ASSUME Assumptions, TypeInv, SerialInv, NEW t \in Turns, Stop(t)
  PROVE  SerialInv' /\ IsPrefix(store.msgs, store'.msgs)
<1>1. /\ At(t, "loop") /\ Kept /\ effects' = effects
      /\ After(t, "finish", turn[t].call, Session(t))
  BY StopDoes
<1>2. Session(t) \in Sessions /\ IsPrefix(Session(t).msgs, Session(t).msgs)
  BY TurnFacts, HistoryTypes, PrefixSelf
<1> QED BY <1>1, <1>2, SerialGoesOn DEF At, Announcing

LEMMA ErrorSerial ==
  ASSUME Assumptions, TypeInv, SerialInv, NEW t \in Turns,
         MediaRefused(t) \/ ModelFails(t) \/ PauseNotSaved(t)
  PROVE  SerialInv' /\ IsPrefix(store.msgs, store'.msgs)
<1>1. /\ turn[t].pc \in {"loop", "confirm"} /\ store' = store /\ cells' = cells
      /\ effects' = effects
      /\ \E why \in Outcomes : Abandon(t, why)
  BY ErrorDoes DEF Kept
<1>2. OthersIdle(t)
  BY <1>1 DEF SerialInv, AloneInv, At
<1>3. PICK s : After(t, "idle", NoCall, s)
  BY <1>1, AbandonAfter
<1>4. store.msgs \in Seq(Messages) /\ IsPrefix(store.msgs, store.msgs)
  BY HistoryTypes, PrefixSelf
<1> QED BY <1>1, <1>2, <1>3, <1>4, SerialBounds DEF Announcing

LEMMA FinishSerial ==
  ASSUME Assumptions, TypeInv, SerialInv, NEW t \in Turns, Finish(t)
  PROVE  SerialInv' /\ IsPrefix(store.msgs, store'.msgs)
<1>1. /\ At(t, "finish") /\ store' = Session(t) /\ effects' = effects
      /\ \E why \in Outcomes : Abandon(t, why)
      /\ \A i \in CellIds : cells'[i].call \in {NoCall, cells[i].call}
  BY FinishDoes
<1>2. /\ OthersIdle(t) /\ IsPrefix(store.msgs, Session(t).msgs) /\ Session(t).cp = store.cp
      /\ turn[t].pc \notin Announcing
  BY <1>1 DEF SerialInv, AloneInv, At, Announcing
<1>3. PICK s : After(t, "idle", NoCall, s)
  BY <1>1, AbandonAfter
<1>4. Session(t).msgs \in Seq(Messages) /\ (Durable => store.cp \in CellIds)
  BY HistoryTypes, TurnFacts
<1> QED BY <1>1, <1>2, <1>3, <1>4, SerialBounds DEF Announcing

(* A turn that is told a message and saves it.                             *)
LEMMA ToldSerial ==
  ASSUME Assumptions, TypeInv, SerialInv, NEW t \in Turns, ~At(t, "idle"), NEW m \in Messages,
         NEW p, NEW c, NEW s \in Sessions, s = Told(Session(t), m), After(t, p, c, s),
         p \notin {"idle", "effect", "record"}, effects' = effects,
         turn[t].pc \in Announcing => m.kind = "result" /\ m.of = turn[t].call,
         \/ Kept /\ turn[t].pc \notin Announcing
         \/ Saved(s, NoCall)
  PROVE  SerialInv' /\ IsPrefix(store.msgs, store'.msgs)
<1>1. Session(t) \in Sessions /\ (Durable => Session(t).cp \in CellIds)
  BY TurnFacts
<1>2. /\ IsPrefix(Session(t).msgs, s.msgs) /\ s.cp = Session(t).cp
      /\ m.kind = "result" => m.of \in Answered(s.msgs)
  <2>1. IsPrefix(Session(t).msgs, s.msgs)
    BY <1>1, ToldExtends
  <2>2. /\ s.cp = Session(t).cp
        /\ Answered(s.msgs) = Answered(Session(t).msgs) \cup (IF m.kind = "result" THEN {m.of} ELSE {})
    BY <1>1, TellSession
  <2> QED BY <2>1, <2>2
<1> QED BY <1>1, <1>2, SerialGoesOn DEF Announcing

LEMMA ModelSerial ==
  ASSUME Assumptions, TypeInv, SerialInv, NEW t \in Turns,
         ModelAnswers(t) \/ \E c \in Calls : ModelAsks(t, c)
  PROVE  SerialInv' /\ IsPrefix(store.msgs, store'.msgs)
<1>1. /\ ~At(t, "idle") /\ turn[t].pc \notin Announcing /\ effects' = effects
  BY ModelAnswersDoes, ModelAsksDoes DEF At, Announcing
<1>2. CASE ModelAnswers(t)
  <2>1. PICK s \in Sessions : /\ s = Told(Session(t), Answer)
                              /\ Saved(s, NoCall) /\ After(t, "finish", turn[t].call, s)
    BY <1>2, ModelAnswersDoes
  <2> QED BY <1>1, <2>1, MessageTypes, ToldSerial
<1>3. ASSUME NEW c \in Calls, ModelAsks(t, c)
      PROVE  SerialInv' /\ IsPrefix(store.msgs, store'.msgs)
  <2>1. PICK s \in Sessions, p \in {"confirm", "start"} :
          s = Told(Session(t), Asks(c)) /\ Saved(s, NoCall) /\ After(t, p, c, s)
    BY <1>3, ModelAsksDoes
  <2> QED BY <1>1, <2>1, MessageTypes, ToldSerial
<1> QED BY <1>2, <1>3

LEMMA ResultSerial ==
  ASSUME Assumptions, TypeInv, SerialInv, NEW t \in Turns, Deny(t) \/ Record(t)
  PROVE  SerialInv' /\ IsPrefix(store.msgs, store'.msgs)
<1>1. PICK s \in Sessions : /\ s = Told(Session(t), Result(turn[t].call))
                            /\ \/ Kept /\ turn[t].pc \notin Announcing
                               \/ Saved(s, NoCall)
                            /\ After(t, "loop", turn[t].call, s)
  <2>1. CASE Deny(t)
    BY <2>1, DenyDoes DEF Announcing
  <2>2. CASE Record(t)
    BY <2>2, RecordDoes
  <2> QED BY <2>1, <2>2
<1>2. turn[t].pc \in {"confirm", "denied", "record"} /\ effects' = effects
  BY DenyDoes, RecordDoes DEF At
<1>3. turn[t].call \in Calls /\ ~At(t, "idle")
  BY <1>2, TurnFacts DEF Holding, At
<1>4. PICK m \in Messages :
        m = Result(turn[t].call) /\ m.kind = "result" /\ m.of = turn[t].call
  BY <1>3, MessageTypes
<1> QED BY <1>1, <1>2, <1>3, <1>4, ToldSerial

LEMMA ApproveSerial ==
  ASSUME Assumptions, TypeInv, SerialInv, NEW t \in Turns, Approve(t)
  PROVE  SerialInv' /\ IsPrefix(store.msgs, store'.msgs)
<1>1. /\ At(t, "confirm") /\ Kept /\ effects' = effects
      /\ After(t, "start", turn[t].call, Session(t))
  BY ApproveDoes
<1>2. Session(t) \in Sessions /\ IsPrefix(Session(t).msgs, Session(t).msgs)
  BY TurnFacts, HistoryTypes, PrefixSelf
<1> QED BY <1>1, <1>2, SerialGoesOn DEF At, Announcing

(* The pause is saved by the turn alone; the write-ahead is clear.         *)
LEMMA PauseSerial ==
  ASSUME Assumptions, TypeInv, SerialInv, NEW t \in Turns, Pause(t)
  PROVE  SerialInv' /\ IsPrefix(store.msgs, store'.msgs)
<1>1. PICK s \in Sessions : /\ s = Waiting(Session(t), turn[t].call)
                            /\ store' = s /\ cells' = cells
                            /\ After(t, "finish", turn[t].call, s)
  BY PauseDoes
<1>2. At(t, "confirm") /\ effects' = effects /\ turn[t].call \in Calls /\ Session(t) \in Sessions
  BY PauseDoes, TurnFacts DEF At, Holding
<1>3. s.msgs = Session(t).msgs /\ s.cp = Session(t).cp
  BY <1>1, <1>2, WaitingSession
<1>4. /\ OthersIdle(t) /\ IsPrefix(store.msgs, Session(t).msgs) /\ Session(t).cp = store.cp
      /\ turn[t].pc \notin Announcing
  BY <1>2 DEF SerialInv, AloneInv, At, Announcing
<1>5. s.msgs \in Seq(Messages) /\ IsPrefix(s.msgs, s.msgs)
  BY <1>3, HistoryTypes, PrefixSelf
<1> QED BY <1>1, <1>2, <1>3, <1>4, <1>5, SerialBounds DEF Announcing

LEMMA ToolStartSerial ==
  ASSUME Assumptions, TypeInv, SerialInv, NEW t \in Turns, ToolStart(t)
  PROVE  SerialInv' /\ IsPrefix(store.msgs, store'.msgs)
<1>1. /\ At(t, "start") /\ effects' = effects /\ Saved(Session(t), turn[t].call)
      /\ After(t, "effect", turn[t].call, Session(t))
  BY ToolStartDoes
<1>2. /\ Session(t) \in Sessions /\ IsPrefix(Session(t).msgs, Session(t).msgs)
      /\ Durable => Session(t).cp \in CellIds
  BY <1>1, TurnFacts, HistoryTypes, PrefixSelf DEF At
<1>3. /\ ~At(t, "idle") /\ turn[t].pc \notin Announcing
  BY <1>1 DEF At, Announcing
<1> QED BY <1>1, <1>2, <1>3, SerialGoesOn DEF Announcing

(* The call that has its effect is the one the stored write-ahead names.   *)
LEMMA ToolEffectSerial ==
  ASSUME Assumptions, TypeInv, SerialInv, NEW t \in Turns, ToolEffect(t)
  PROVE  SerialInv' /\ IsPrefix(store.msgs, store'.msgs)
<1>1. PICK s, c : s = Session(t) /\ c = turn[t].call
  OBVIOUS
<1>2. /\ At(t, "effect") /\ store' = store /\ cells' = cells /\ c \in Calls
      /\ effects' = [effects EXCEPT ![c] = @ + 1] /\ After(t, "record", c, s)
  BY <1>1, ToolEffectDoes DEF Kept
<1>3. /\ OthersIdle(t) /\ IsPrefix(store.msgs, s.msgs) /\ s.cp = store.cp
  BY <1>1, <1>2 DEF SerialInv, AloneInv, At
<1>4. Durable => cells[store.cp].call = c /\ EffectIsStored
  BY <1>1, <1>2, <1>3, AloneAnnounces DEF At, Announcing
<1>5. \A x \in Calls : x # c => effects'[x] = effects[x]
  BY <1>2, HostTypes
<1>6. Durable => EffectIsStored'
  BY <1>2, <1>4, <1>5 DEF EffectIsStored
<1>7. SerialInv'
  BY <1>2, <1>3, <1>4, <1>6, SerialStep DEF Announcing
<1> QED BY <1>2, <1>7, HistoryTypes, PrefixSelf

LEMMA InitSerial ==
  ASSUME Assumptions, Init
  PROVE  SerialInv
<1>1. \A t \in Turns : turn[t].pc = "idle"
  BY EmptySession DEF Init, Outcomes
<1>2. Durable => store.cp \in CellIds
  BY FirstSession DEF Sessions, NoCell
<1>3. Durable => cells[store.cp].call = NoCall
  BY <1>2 DEF Init
<1> QED BY <1>1, <1>3 DEF SerialInv, AloneInv, AnnouncedInv, EffectIsStored, At, Announcing, Init

LEMMA NextSerial ==
  ASSUME Assumptions, ~Overlap, TypeInv, SerialInv, [Next]_vars
  PROVE  SerialInv' /\ IsPrefix(store.msgs, store'.msgs)
<1>1. CASE UNCHANGED vars
  <2>1. store \in Sessions
    BY TypeMeans DEF TypeInv
  <2>2. IsPrefix(store.msgs, store.msgs)
    BY <2>1, PrefixSelf DEF Sessions, Histories, Messages
  <2> QED BY <1>1, <2>2 DEF vars, SerialInv, AloneInv, AnnouncedInv, EffectIsStored, OthersIdle,
                            At, Session
<1>2. ASSUME NEW t \in Turns, HostStep(t)
      PROVE  SerialInv' /\ IsPrefix(store.msgs, store'.msgs)
  BY <1>2, StartRunSerial, StartResolveSerial DEF HostStep
<1>3. ASSUME NEW t \in Turns, Step(t)
      PROVE  SerialInv' /\ IsPrefix(store.msgs, store'.msgs)
  BY <1>3, ReconcileSerial, BeginSerial, StopSerial, ErrorSerial, ModelSerial, ApproveSerial,
     ResultSerial, PauseSerial, ToolStartSerial, ToolEffectSerial, FinishSerial DEF Step
<1> QED BY <1>1, <1>2, <1>3 DEF Next

LEMMA SerialInvariant == Assumptions /\ ~Overlap => (Spec => [](TypeInv /\ SerialInv))
<1> SUFFICES ASSUME Assumptions, ~Overlap PROVE Spec => [](TypeInv /\ SerialInv)
  OBVIOUS
<1>1. Init => TypeInv /\ SerialInv
  BY InitTypes, InitSerial
<1>2. TypeInv /\ SerialInv /\ [Next]_vars => TypeInv' /\ SerialInv'
  BY NextTypes, NextSerial
<1> QED BY <1>1, <1>2, PTL DEF Spec

(* When the host runs one turn at a time, what reached the stored history  *)
(* stays there through every save, pause, resolution and resumption: each  *)
(* works on a copy that extends what is stored (Save, Load).               *)
THEOREM StoredStays == Assumptions /\ ~Overlap => (Spec => StoreKeepsHistory)
<1> SUFFICES ASSUME Assumptions, ~Overlap PROVE Spec => StoreKeepsHistory
  OBVIOUS
<1>1. TypeInv /\ SerialInv /\ [Next]_vars => [StoredHistoryExtended]_vars
  BY NextSerial DEF StoredHistoryExtended
<1> QED BY <1>1, SerialInvariant, PTL DEF Spec, StoreKeepsHistory

(* With durability and one turn at a time, an effect is in the stored      *)
(* history or named by the stored write-ahead at every moment, so a crash  *)
(* after it is noticed: although the checkpoint is shared, and a turn that *)
(* ends in an error saves nothing (checkpointToolStart, checkpointStep).   *)
THEOREM EffectsStored == Assumptions /\ ~Overlap /\ Durable => (Spec => []EffectIsStored)
<1> SUFFICES ASSUME Assumptions, ~Overlap, Durable PROVE Spec => []EffectIsStored
  OBVIOUS
<1>1. SerialInv => EffectIsStored
  BY DEF SerialInv, AnnouncedInv
<1> QED BY <1>1, SerialInvariant, PTL
=============================================================================
