---------------------------- MODULE SessionTurns ----------------------------
(***************************************************************************)
(* Several turns on one session of ia-harness, kept by the memory store    *)
(* (adapters/session/memory).  The engine takes no lock: Run and           *)
(* ResolveConfirmation load the session, work on their copy and save it.   *)
(* The copy is not deep: all of them point to the same TurnCheckpoint, so  *)
(* checkpoints are cells here and sessions refer to them.                  *)
(*                                                                         *)
(* TurnEngine models one turn in full; here a turn is the sequence of its  *)
(* loads, model answers, effects and saves, with tools that are not        *)
(* idempotent and one call per answer.  The memory store's Save fails only *)
(* under a cancelled context, hence only for the pause.                    *)
(***************************************************************************)
EXTENDS Naturals, Sequences, FiniteSets, SequencesExt

CONSTANTS
  Turns,             \* goroutines of the host that run or resolve turns
  Calls, NoCall,     \* tool calls the model may ask for, each once
  Confirm,           \* those that need a human
  Inputs,            \* what users send: subset of {"text", "image", "odd"}
  Durable,           \* Config.Durable
  Overlap,           \* the host may start a turn while another runs
  MaxPerTurn,        \* media.DefaultMaxPerTurn
  RunIterations, DefaultIterations,  \* limit of a Run, and of a resolution
  MaxOps, MaxFailures \* bounds: operations of the host, failures

CallAssumption == NoCall \notin Calls /\ Confirm \subseteq Calls
InputAssumption == Inputs \subseteq {"text", "image", "odd"}
FlagAssumption == Durable \in BOOLEAN /\ Overlap \in BOOLEAN
BoundAssumption ==
  {MaxPerTurn, RunIterations, DefaultIterations, MaxOps, MaxFailures} \subseteq Nat

VARIABLES
  store,      \* the stored session
  cells,      \* the checkpoints in memory
  turn,       \* what each goroutine does, with its copy of the session
  effects,    \* history: how often the tool executed each call
  approvals,  \* history: how often a human approved it
  ops, failures

vars == <<store, cells, turn, effects, approvals, ops, failures>>

NoCell == 0
CellIds == 1 .. Cardinality(Turns) + 1
Statuses == {"running", "awaiting", "completed"}
Checkpoints == [status : Statuses, call : Calls \cup {NoCall}]

User(input) == [kind |-> "user", of |-> input]
Asks(c) == [kind |-> "asks", of |-> c]
Result(c) == [kind |-> "result", of |-> c]
Answer == [kind |-> "answer", of |-> "text"]

Idle(outcome, input) ==
  [pc |-> "idle", outcome |-> outcome, input |-> input, run |-> FALSE, resumed |-> FALSE,
   iterations |-> 0, call |-> NoCall,
   session |-> [msgs |-> <<>>, state |-> "active", pending |-> NoCall, cp |-> NoCell]]

(* A session whose first turn is complete.                                 *)
Init ==
  /\ store = [msgs |-> <<User("text"), Answer>>, state |-> "active", pending |-> NoCall,
              cp |-> IF Durable THEN 1 ELSE NoCell]
  /\ cells = [i \in CellIds |-> [status |-> "completed", call |-> NoCall]]
  /\ turn = [t \in Turns |-> Idle("none", "text")]
  /\ effects = [c \in Calls |-> 0] /\ approvals = [c \in Calls |-> 0]
  /\ ops = 0 /\ failures = 0

At(t, place) == turn[t].pc = place
Session(t) == turn[t].session
Cell(t) == cells[Session(t).cp]
Asked(msgs) == {msgs[i].of : i \in {j \in DOMAIN msgs : msgs[j].kind = "asks"}}
Answered(msgs) == {msgs[i].of : i \in {j \in DOMAIN msgs : msgs[j].kind = "result"}}

(* media.Validate looks at the media of the whole history.                 *)
Refused(msgs) ==
  LET media(input) == SelectSeq(msgs, LAMBDA m : m = User(input)) IN
  Len(media("odd")) > 0 \/ Len(media("image")) > MaxPerTurn

Move(t, place, session) ==
  turn' = [turn EXCEPT ![t].pc = place, ![t].session = session]

EnvironmentFails == failures < MaxFailures /\ failures' = failures + 1

(* checkpointStep, checkpointToolStart: the write-ahead call is set in the *)
(* shared cell and the session is saved; nothing of it without Durable.    *)
SaveWith(t, session, call) ==
  IF Durable
    THEN cells' = [cells EXCEPT ![session.cp].call = call] /\ store' = session
    ELSE UNCHANGED <<cells, store>>

----------------------------------------------------------------------------
(* The operations of the host: both begin with a Load, whose copy shares   *)
(* the checkpoint.                                                         *)

MayStart(t) ==
  /\ At(t, "idle") /\ ops < MaxOps
  /\ Overlap \/ \A u \in Turns : At(u, "idle")
  /\ ops' = ops + 1

(* A running checkpoint makes the turn a resumption, without its input.    *)
StartRun(t, input) ==
  /\ MayStart(t) /\ store.state = "active"
  /\ LET resumed == Durable /\ cells[store.cp].status = "running" IN
     turn' = [turn EXCEPT ![t] = [Idle("none", input) EXCEPT
                !.pc = "reconcile", !.run = TRUE, !.resumed = resumed, !.session = store]]
  /\ UNCHANGED <<store, cells, effects, approvals, failures>>

(* Slip: the pending call of the request is not compared with the stored.  *)
ResolveUnchecked(t, c, approve) ==
  /\ MayStart(t) /\ c \in Asked(store.msgs)
  /\ approvals' = IF approve /\ store.pending = c THEN [approvals EXCEPT ![c] = @ + 1]
                  ELSE approvals
  /\ cells' = IF Durable THEN [cells EXCEPT ![store.cp].status = "running",
                                            ![store.cp].call = NoCall] ELSE cells
  /\ turn' = [turn EXCEPT ![t] = [Idle("none", "text") EXCEPT
                !.pc = IF approve THEN "start" ELSE "denied", !.call = c,
                !.session = [store EXCEPT !.state = "active", !.pending = NoCall]]]
  /\ UNCHANGED <<store, effects, failures>>

(* The pending marks and the checkpoint are changed before any save.  The  *)
(* load and the write to the shared checkpoint are one step, and the       *)
(* reconciliation and beginCheckpoint of a resumed turn, which with no     *)
(* interrupted call only save what was loaded, are left to TurnEngine.     *)
StartResolve(t, c, approve) ==
  /\ MayStart(t)
  /\ store.state = "awaiting" /\ store.pending = c /\ c \in Asked(store.msgs)
  /\ approvals' = IF approve THEN [approvals EXCEPT ![c] = @ + 1] ELSE approvals
  /\ cells' = IF Durable THEN [cells EXCEPT ![store.cp].status = "running",
                                            ![store.cp].call = NoCall] ELSE cells
  /\ turn' = [turn EXCEPT ![t] = [Idle("none", "text") EXCEPT
                !.pc = IF approve THEN "start" ELSE "denied", !.call = c,
                !.session = [store EXCEPT !.state = "active", !.pending = NoCall]]]
  /\ UNCHANGED <<store, effects, failures>>

----------------------------------------------------------------------------
(* The turn.                                                               *)

(* Slip: the interrupted call is executed, whatever the tool.              *)
ReconcileByExecuting(t) ==
  LET s == Session(t)
      told == IF Cell(t).call \in Answered(s.msgs) THEN s
              ELSE [s EXCEPT !.msgs = Append(@, Result(Cell(t).call))] IN
  /\ At(t, "reconcile")
  /\ IF Durable /\ Cell(t).call # NoCall
       THEN /\ Move(t, "begin", told) /\ SaveWith(t, told, NoCall)
            /\ effects' = IF told = s THEN effects
                          ELSE [effects EXCEPT ![Cell(t).call] = @ + 1]
       ELSE Move(t, "begin", s) /\ UNCHANGED <<store, cells, effects>>
  /\ UNCHANGED <<approvals, ops, failures>>

(* A write-ahead left by an interrupted turn, or by one still running, is  *)
(* answered as ambiguous unless the history already holds its result.      *)
Reconcile(t) ==
  LET s == Session(t)
      told == IF Cell(t).call \in Answered(s.msgs) THEN s
              ELSE [s EXCEPT !.msgs = Append(@, Result(Cell(t).call))] IN
  /\ At(t, "reconcile")
  /\ IF Durable /\ Cell(t).call # NoCall
       THEN Move(t, "begin", told) /\ SaveWith(t, told, NoCall)
       ELSE Move(t, "begin", s) /\ UNCHANGED <<store, cells>>
  /\ UNCHANGED <<effects, approvals, ops, failures>>

FreeCell == CHOOSE i \in CellIds : i # store.cp /\ \A t \in Turns : Session(t).cp # i

(* The input enters the history; a new checkpoint is opened and saved      *)
(* unless one is running.                                                  *)
Begin(t) ==
  LET fed == IF turn[t].resumed THEN Session(t)
             ELSE [Session(t) EXCEPT !.msgs = Append(@, User(turn[t].input))]
      opened == [fed EXCEPT !.cp = FreeCell] IN
  /\ At(t, "begin")
  /\ IF Durable /\ Cell(t).status # "running"
       THEN /\ Move(t, "loop", opened)
            /\ cells' = [cells EXCEPT ![FreeCell] = [status |-> "running", call |-> NoCall]]
            /\ store' = opened
       ELSE Move(t, "loop", fed) /\ UNCHANGED <<cells, store>>
  /\ UNCHANGED <<effects, approvals, ops, failures>>

Limit(t) == IF turn[t].run THEN RunIterations ELSE DefaultIterations

Stop(t) ==
  /\ At(t, "loop")
  /\ \/ turn[t].iterations = Limit(t)
        /\ turn' = [turn EXCEPT ![t].pc = "finish", ![t].outcome = "max_iterations"]
        /\ UNCHANGED failures
     \/ EnvironmentFails
        /\ turn' = [turn EXCEPT ![t].pc = "finish", ![t].outcome = "cancelled"]
  /\ UNCHANGED <<store, cells, effects, approvals, ops>>

(* Slip: one iteration too many.                                           *)
AskingOnceMore(t) == At(t, "loop") /\ turn[t].iterations <= Limit(t)

Asking(t) == At(t, "loop") /\ turn[t].iterations < Limit(t)

(* An error return: nothing is saved.                                      *)
Abandon(t, why) == turn' = [turn EXCEPT ![t] = Idle(why, turn[t].input)]

MediaRefused(t) ==
  /\ Asking(t) /\ Refused(Session(t).msgs)
  /\ Abandon(t, "refused")
  /\ UNCHANGED <<store, cells, effects, approvals, ops, failures>>

(* A cancellation while the model is asked is an error of the model.       *)
ModelFails(t) ==
  /\ Asking(t) /\ ~Refused(Session(t).msgs) /\ EnvironmentFails
  /\ \E why \in {"error", "interrupted"} : Abandon(t, why)
  /\ UNCHANGED <<store, cells, effects, approvals, ops>>

ModelAnswers(t) ==
  LET s == [Session(t) EXCEPT !.msgs = Append(@, Answer)] IN
  /\ Asking(t) /\ ~Refused(Session(t).msgs)
  /\ turn' = [turn EXCEPT ![t].pc = "finish", ![t].outcome = "completed", ![t].session = s,
                          ![t].iterations = @ + 1]
  /\ SaveWith(t, s, NoCall)
  /\ UNCHANGED <<effects, approvals, ops, failures>>

(* The ids of calls are fresh: no history of the session holds them.       *)
Fresh(c) ==
  /\ c \notin Asked(store.msgs)
  /\ \A u \in Turns : c \notin Asked(Session(u).msgs)
  /\ effects[c] = 0 /\ approvals[c] = 0

ModelAsks(t, c) ==
  LET s == [Session(t) EXCEPT !.msgs = Append(@, Asks(c))] IN
  /\ Asking(t) /\ ~Refused(Session(t).msgs) /\ Fresh(c)
  /\ turn' = [turn EXCEPT ![t].pc = IF c \in Confirm THEN "confirm" ELSE "start",
                          ![t].session = s, ![t].call = c, ![t].iterations = @ + 1]
  /\ SaveWith(t, s, NoCall)
  /\ UNCHANGED <<effects, approvals, ops, failures>>

Approve(t) ==
  /\ At(t, "confirm")
  /\ approvals' = [approvals EXCEPT ![turn[t].call] = @ + 1]
  /\ Move(t, "start", Session(t))
  /\ UNCHANGED <<store, cells, effects, ops, failures>>

(* A refusal is a result like another; only a resolution saves it at once. *)
Deny(t) ==
  LET s == [Session(t) EXCEPT !.msgs = Append(@, Result(turn[t].call))] IN
  /\ At(t, "confirm") \/ At(t, "denied")
  /\ Move(t, "loop", s)
  /\ IF At(t, "denied") THEN SaveWith(t, s, NoCall) ELSE UNCHANGED <<store, cells>>
  /\ UNCHANGED <<effects, approvals, ops, failures>>

(* Slip: the pause is saved without the answer that asked for the call.    *)
PauseBeforeAnswer(t) ==
  LET s == [Session(t) EXCEPT !.state = "awaiting", !.pending = turn[t].call,
                              !.msgs = Front(@)] IN
  /\ At(t, "confirm")
  /\ turn' = [turn EXCEPT ![t].pc = "finish", ![t].outcome = "paused", ![t].session = s]
  /\ store' = s
  /\ UNCHANGED <<cells, effects, approvals, ops, failures>>

(* Nobody decides now: the pause is saved, before the checkpoint says so.  *)
Pause(t) ==
  LET s == [Session(t) EXCEPT !.state = "awaiting", !.pending = turn[t].call] IN
  /\ At(t, "confirm")
  /\ turn' = [turn EXCEPT ![t].pc = "finish", ![t].outcome = "paused", ![t].session = s]
  /\ store' = s
  /\ UNCHANGED <<cells, effects, approvals, ops, failures>>

PauseNotSaved(t) ==
  /\ At(t, "confirm") /\ EnvironmentFails
  /\ Abandon(t, "interrupted")
  /\ UNCHANGED <<store, cells, effects, approvals, ops>>

ToolStart(t) ==
  /\ At(t, "start")
  /\ Move(t, "effect", Session(t))
  /\ SaveWith(t, Session(t), turn[t].call)
  /\ UNCHANGED <<effects, approvals, ops, failures>>

ToolEffect(t) ==
  /\ At(t, "effect")
  /\ effects' = [effects EXCEPT ![turn[t].call] = @ + 1]
  /\ Move(t, "record", Session(t))
  /\ UNCHANGED <<store, cells, approvals, ops, failures>>

(* Slip: the step is saved before the result enters the history.           *)
RecordLate(t) ==
  /\ At(t, "record")
  /\ Move(t, "loop", [Session(t) EXCEPT !.msgs = Append(@, Result(turn[t].call))])
  /\ SaveWith(t, Session(t), NoCall)
  /\ UNCHANGED <<effects, approvals, ops, failures>>

Record(t) ==
  LET s == [Session(t) EXCEPT !.msgs = Append(@, Result(turn[t].call))] IN
  /\ At(t, "record")
  /\ Move(t, "loop", s)
  /\ SaveWith(t, s, NoCall)
  /\ UNCHANGED <<effects, approvals, ops, failures>>

ClosingStatus(t) ==
  CASE Session(t).pending # NoCall      -> "awaiting"
    [] turn[t].outcome = "cancelled"    -> Cell(t).status
    [] OTHER                            -> "completed"

(* Slip: the history is cut to the messages of this turn.                  *)
FinishTrimmed(t) ==
  /\ At(t, "finish")
  /\ store' = [Session(t) EXCEPT !.msgs = Tail(@)]
  /\ cells' = IF Durable /\ turn[t].run
                THEN [cells EXCEPT ![Session(t).cp] = [status |-> ClosingStatus(t),
                                                       call |-> NoCall]]
                ELSE cells
  /\ Abandon(t, turn[t].outcome)
  /\ UNCHANGED <<effects, approvals, ops, failures>>

(* Run closes the checkpoint, ResolveConfirmation does not; both save.     *)
Finish(t) ==
  /\ At(t, "finish")
  /\ store' = Session(t)
  /\ cells' = IF Durable /\ turn[t].run
                THEN [cells EXCEPT ![Session(t).cp] = [status |-> ClosingStatus(t),
                                                       call |-> NoCall]]
                ELSE cells
  /\ Abandon(t, turn[t].outcome)
  /\ UNCHANGED <<effects, approvals, ops, failures>>

----------------------------------------------------------------------------

Step(t) ==
  \/ Reconcile(t) \/ Begin(t) \/ Stop(t) \/ MediaRefused(t) \/ ModelFails(t)
  \/ ModelAnswers(t) \/ \E c \in Calls : ModelAsks(t, c)
  \/ Approve(t) \/ Deny(t) \/ Pause(t) \/ PauseNotSaved(t)
  \/ ToolStart(t) \/ ToolEffect(t) \/ Record(t) \/ Finish(t)

HostStep(t) ==
  \/ \E input \in Inputs : StartRun(t, input)
  \/ \E c \in Calls, approve \in BOOLEAN : StartResolve(t, c, approve)

Next == \E t \in Turns : HostStep(t) \/ Step(t)

Spec == Init /\ [][Next]_vars
----------------------------------------------------------------------------
(* Properties.                                                             *)

Histories == Seq([kind : {"user", "asks", "result", "answer"},
                  of : {"text", "image", "odd"} \cup Calls])
Sessions == [msgs : Histories, state : {"active", "awaiting"}, pending : Calls \cup {NoCall},
             cp : CellIds \cup {NoCell}]

(* Every variable keeps its type, no turn exceeds its iterations, and a    *)
(* durable turn has a checkpoint.                                          *)
TypeOK ==
  /\ store \in Sessions
  /\ cells \in [CellIds -> Checkpoints]
  /\ turn \in [Turns ->
       [pc : {"idle", "reconcile", "begin", "loop", "confirm", "denied", "start", "effect",
              "record", "finish"},
        outcome : {"none", "completed", "max_iterations", "cancelled", "refused", "error",
                   "interrupted", "paused"},
        input : {"text", "image", "odd"}, run : BOOLEAN, resumed : BOOLEAN,
        iterations : Nat, call : Calls \cup {NoCall},
        session : Sessions]]
  /\ \A t \in Turns : turn[t].iterations <= Limit(t)
  /\ Durable => store.cp # NoCell /\ \A t \in Turns : At(t, "idle") \/ Session(t).cp # NoCell
  /\ effects \in [Calls -> Nat] /\ approvals \in [Calls -> Nat]
  /\ ops \in 0 .. MaxOps /\ failures \in 0 .. MaxFailures

(* However turns overlap, a call that needs a human runs at most once for  *)
(* each approval, any other at most once: no turn executes what another    *)
(* has under way (reconcileCheckpoint, ResolveConfirmation's check).       *)
OneEffectPerApproval ==
  \A c \in Calls : effects[c] <= IF c \in Confirm THEN approvals[c] ELSE 1

(* However turns overlap, the stored session waits only for a call that    *)
(* its own history holds unanswered, so a resolution is possible.          *)
AwaitingIsResolvable ==
  store.state = "awaiting" =>
    store.pending \in Asked(store.msgs) \ Answered(store.msgs)

(* A message that reached the store stays there.                           *)
StoredHistoryExtended == IsPrefix(store.msgs, store'.msgs)

StoreKeepsHistory == [][StoredHistoryExtended]_vars

(* With durability and one turn at a time, an effect is in the stored      *)
(* history or announced by the stored write-ahead, though the checkpoint   *)
(* is shared.                                                              *)
EffectIsStored ==
  \A c \in Calls : effects[c] > 0 => c \in Answered(store.msgs) \/ cells[store.cp].call = c

(* A human's approval executes the call once (CU-HAR-3).                   *)
ApprovedCallRunsOnce == \A c \in Calls : effects[c] <= 1

StoredView ==
  [store EXCEPT !.cp = IF store.cp = NoCell THEN [status |-> "none", call |-> NoCall]
                       ELSE cells[store.cp]]

(* Loading a session, and working on the copy, leaves the stored one alone.*)
LoadLeavesStore ==
  [][\A t \in Turns : At(t, "idle") /\ turn'[t].pc # "idle" => StoredView' = StoredView]_vars

(* The model is asked at most as often for one input as its Run allows.    *)
AskedWithinLimit ==
  LET msgs == store.msgs
      last == CHOOSE i \in DOMAIN msgs :
                msgs[i].kind = "user" /\ \A j \in i + 1 .. Len(msgs) : msgs[j].kind # "user"
      asked == {j \in last .. Len(msgs) : msgs[j].kind \in {"asks", "answer"}} IN
  Cardinality(asked) <= RunIterations

(* FR-MM-003: an input whose media is refused does not change the session. *)
RefusedInputNotStored == User("odd") \notin {store.msgs[i] : i \in DOMAIN store.msgs}

(* A Run that is cancelled, wherever it then is, leaves the session as its *)
(* turn had it (library-api.md:165).                                       *)
CancelledTurnIsStored ==
  [][\A t \in Turns : ~At(t, "idle") /\ turn'[t].outcome \in {"cancelled", "interrupted"}
       /\ turn'[t].pc = "idle" => store'.msgs = Session(t).msgs]_vars

(* A turn whose own media are acceptable is not refused.                   *)
RefusedForItsOwnMedia == \A t \in Turns : turn[t].outcome = "refused" => turn[t].input = "odd"
=============================================================================
