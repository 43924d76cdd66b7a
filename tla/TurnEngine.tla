----------------------------- MODULE TurnEngine -----------------------------
(***************************************************************************)
(* The turn engine of ia-harness (internal/engine): one session, driven by *)
(* a host that runs one turn at a time.  A turn loads the session, lists   *)
(* the tools, reconciles an interrupted call, then alternates calls to the *)
(* model with the execution of the tool calls the model asks for, until a  *)
(* final answer, a pause for human confirmation, a limit or an error.      *)
(*                                                                         *)
(* What the turn does lives in memory (mem) until a Save; a crash, or any  *)
(* error return, loses it.  With Durable a checkpoint is kept inside the   *)
(* session and saved before and after each sequential tool call, which is  *)
(* what the properties at the end are about.  A tool call, its text and    *)
(* its arguments are one value of Calls; what the engine distinguishes of  *)
(* it is its membership in the constant sets below.                        *)
(***************************************************************************)
EXTENDS Naturals, Sequences, SequencesExt

CONSTANTS
  Calls,             \* the tool calls a model may emit, each with its own id
  NoCall,            \* "no call": a nil *PendingCall or *PendingConfirmation
  Unknown,           \* calls that name a tool which is not in the catalog
  Invalid,           \* calls whose arguments do not satisfy the tool's schema
  Denied,            \* calls the agent's policy denies
  Confirm,           \* calls the policy allows only after a human decision
  Idempotent,        \* calls whose tool is published as idempotent
  NoId,              \* calls the provider delivers with an empty id
  Durable,           \* Config.Durable
  ParallelTools,     \* Config.ParallelTools
  RunIterations,     \* RunRequest.MaxIterations (0: not given)
  DefaultIterations, \* budget.DefaultMaxIterations
  MaxBatch,          \* bound: tool calls in one answer of the model
  MaxOps,            \* bound: host operations (Run, ResolveConfirmation)
  MaxCrashes         \* bound: process crashes

ASSUME ClassAssumption ==
  /\ NoCall \notin Calls
  /\ \A S \in {Unknown, Invalid, Denied, Confirm, Idempotent, NoId} : S \subseteq Calls
ASSUME FlagAssumption == Durable \in BOOLEAN /\ ParallelTools \in BOOLEAN
ASSUME BoundAssumption ==
  /\ {RunIterations, MaxBatch, MaxOps, MaxCrashes} \subseteq Nat
  /\ DefaultIterations \in Nat \ {0}

VARIABLES
  store,     \* the session as the SessionStore holds it
  mem,       \* the *Session the running turn works on
  pc,        \* where the turn is ("idle": no turn runs)
  after,     \* where the turn continues once the Save in progress succeeds
  op,        \* the host operation: "run" or "resolve"
  resumed,   \* Run found a running checkpoint and dropped its input
  approve,   \* the decision handed to ResolveConfirmation
  todo,      \* the calls of the current batch not yet handled, in order
  catalogUp, \* the tools could be listed at the start of this turn
  iters,     \* iterations consumed (TurnBudget)
  outcome,   \* parallelOutcome of each call of a parallel batch
  result,    \* how the turn ends, as the host sees it once pc is "idle"
  ops,       \* host operations started
  crashes,   \* crashes so far
  issued,    \* history: calls a model has emitted
  approved,  \* history: calls a human has approved
  invoked    \* history: how often the engine sent each call to its tool

vars == <<store, mem, pc, after, op, resumed, approve, todo, catalogUp, iters,
          outcome, result, ops, crashes, issued, approved, invoked>>
history == <<issued, approved, invoked>>
turnVars == <<op, resumed, approve, catalogUp, iters, outcome, ops, crashes>>

----------------------------------------------------------------------------
(* The session: its messages, its state and the pending confirmation, and  *)
(* the status and write-ahead call of its checkpoint ("none": nil).        *)

CallIds  == Calls \cup {NoCall}
Answers  == {"ok", "error", "rejected", "denied", "ambiguous"}
Messages == [role   : {"user", "assistant", "tool"},
             calls  : Seq(Calls),
             call   : CallIds,
             status : Answers \cup {"none"}]
Sessions == [msgs    : Seq(Messages),
             state   : {"active", "awaiting"},
             pending : CallIds,
             ckpt    : {"none", "running", "awaiting", "completed"},
             wa      : CallIds]

NewSession == [msgs |-> <<>>, state |-> "active", pending |-> NoCall,
               ckpt |-> "none", wa |-> NoCall]

UserMessage == [role |-> "user", calls |-> <<>>, call |-> NoCall, status |-> "none"]
AssistantMessage(batch) ==
  [role |-> "assistant", calls |-> batch, call |-> NoCall, status |-> "none"]
ToolMessage(c, status) ==
  [role |-> "tool", calls |-> <<>>, call |-> c, status |-> status]

(* Calls the history asks for, and calls it holds a result of.             *)
Requested(s) == UNION {ToSet(s.msgs[i].calls) : i \in DOMAIN s.msgs}
Answered(s)  == {s.msgs[i].call : i \in DOMAIN s.msgs} \ {NoCall}

(* A call delivered without an id is stored without one: the id the loop   *)
(* invents for it is set on a copy, so no look-up by that id finds it.     *)
FindPendingCall(s, c) == c \in Requested(s) \ NoId

(* Slip: the context window applied to the history itself.                 *)
AppendWindowed(s, m) ==
  [s EXCEPT !.msgs = IF Len(@) > 2 THEN Append(Tail(@), m) ELSE Append(@, m)]

AppendTo(s, m) == [s EXCEPT !.msgs = Append(@, m)]
Record(c, status) == AppendTo(mem, ToolMessage(c, status))

Known(c)    == catalogUp /\ c \notin Unknown
Accepted(c) == Known(c) /\ c \notin Invalid \cup Denied

IterationLimit ==
  IF op = "run" /\ RunIterations > 0 THEN RunIterations ELSE DefaultIterations

NoOutcome == [c \in Calls |-> "none"]

----------------------------------------------------------------------------
(* Control: how a turn may end, where it goes next, and the Save before it. *)

Results == {"none", "error", "completed", "paused", "cancelled", "budget",
            "max_iterations"}
Places == {"idle", "catalog", "reconcile", "input", "decide", "loop", "chat", "answer",
           "next", "invoke", "parallel", "finish", "save", "done"}

GoTo(next) == pc' = next /\ after' = "idle"

SaveThen(s, next) == mem' = s /\ pc' = "save" /\ after' = next

Checkpointing(s) == Durable /\ s.ckpt # "none"

(* saveCheckpoint: without an open checkpoint nothing is written.          *)
SaveCheckpoint(s, next) ==
  IF Checkpointing(s) THEN SaveThen(s, next) ELSE mem' = s /\ GoTo(next)

CheckpointStep(s, next) == SaveCheckpoint([s EXCEPT !.wa = NoCall], next)

(* Slip: the write-ahead is set but not saved before the tool is called.   *)
ToolStartUnsaved(c) == mem' = [mem EXCEPT !.wa = c] /\ GoTo("invoke")

CheckpointToolStart(c) ==
  SaveCheckpoint(IF Checkpointing(mem) THEN [mem EXCEPT !.wa = c] ELSE mem, "invoke")

AfterCall(rest) == IF rest = <<>> THEN "loop" ELSE "next"

CountInvocation(c) == invoked' = [invoked EXCEPT ![c] = @ + 1]

(* The turn is over: what it kept in memory only is gone.                  *)
LeaveTurn(how) ==
  /\ GoTo("idle")
  /\ result' = how
  /\ mem' = NewSession
  /\ todo' = <<>>
  /\ outcome' = NoOutcome
  /\ resumed' = FALSE /\ approve' = FALSE /\ catalogUp' = FALSE /\ iters' = 0
  /\ UNCHANGED <<op, ops>>

FailTurn == LeaveTurn("error")

Init ==
  /\ store = NewSession /\ mem = NewSession
  /\ pc = "idle" /\ after = "idle"
  /\ op = "run" /\ resumed = FALSE /\ approve = FALSE
  /\ todo = <<>> /\ catalogUp = FALSE /\ iters = 0
  /\ outcome = NoOutcome /\ result = "none"
  /\ ops = 0 /\ crashes = 0
  /\ issued = {} /\ approved = {} /\ invoked = [c \in Calls |-> 0]

----------------------------------------------------------------------------
(* The host's operations.                                                  *)

BeginOperation(which) ==
  /\ pc = "idle" /\ ops < MaxOps
  /\ ops' = ops + 1
  /\ op' = which
  /\ result' = "none"
  /\ GoTo("catalog")
  /\ UNCHANGED <<store, catalogUp, iters, outcome, crashes, issued, invoked>>

(* Run refuses a session that awaits a confirmation.  A running checkpoint *)
(* makes it a resumption, whose input is dropped.                          *)
Run ==
  /\ store.state # "awaiting"
  /\ BeginOperation("run")
  /\ mem' = store
  /\ resumed' = (Durable /\ store.ckpt = "running")
  /\ approve' = FALSE
  /\ todo' = <<>>
  /\ UNCHANGED approved

(* Slips: the confirmation resolved with its state, or nothing, cleared.   *)
ResumedStillAwaiting(s) ==
  [s EXCEPT !.pending = NoCall,
            !.ckpt = IF Checkpointing(s) THEN "running" ELSE @,
            !.wa   = IF Checkpointing(s) THEN NoCall ELSE @]
ResumedStillPending(s) ==
  [s EXCEPT !.ckpt = IF Checkpointing(s) THEN "running" ELSE @,
            !.wa   = IF Checkpointing(s) THEN NoCall ELSE @]

ResumedSession(s) ==
  [s EXCEPT !.pending = NoCall, !.state = "active",
            !.ckpt = IF Checkpointing(s) THEN "running" ELSE @,
            !.wa   = IF Checkpointing(s) THEN NoCall ELSE @]

(* ResolveConfirmation needs the pending call to be found in the history.  *)
ResolveConfirmation(decision) ==
  LET c == store.pending IN
  /\ store.state = "awaiting" /\ c # NoCall
  /\ FindPendingCall(store, c)
  /\ BeginOperation("resolve")
  /\ mem' = ResumedSession(store)
  /\ resumed' = FALSE
  /\ approve' = decision
  /\ approved' = IF decision THEN approved \cup {c} ELSE approved
  /\ todo' = <<c>>

----------------------------------------------------------------------------
(* The head of runTurn.                                                    *)

(* Tools that cannot be listed leave the turn without any.                 *)
FetchCatalog ==
  /\ pc = "catalog"
  /\ catalogUp' \in BOOLEAN
  /\ GoTo("reconcile")
  /\ UNCHANGED <<store, mem, op, resumed, approve, todo, iters, outcome, result,
                 ops, crashes, history>>

Interrupted == Checkpointing(mem) /\ mem.wa # NoCall

NothingToReconcile ==
  /\ pc = "reconcile" /\ ~Interrupted
  /\ GoTo("input")
  /\ UNCHANGED <<store, mem, todo, result, turnVars, history>>

(* Slip: the interrupted call is repeated whatever its tool.               *)
ReexecutesAny(c) == c \notin Answered(mem) /\ Known(c) /\ FindPendingCall(mem, c)

MayReexecute(c) ==
  c \notin Answered(mem) /\ Known(c) /\ c \in Idempotent /\ FindPendingCall(mem, c)

(* A call interrupted between its write-ahead and its result: an           *)
(* idempotent tool is called again, any other gets an ambiguous result.    *)
Reconcile ==
  LET c     == mem.wa
      retry == MayReexecute(c)
  IN
  /\ pc = "reconcile" /\ Interrupted
  /\ \E status \in IF retry THEN {"ok", "error"} ELSE {"ambiguous"} :
       CheckpointStep(IF c \in Answered(mem) THEN mem ELSE Record(c, status), "input")
  /\ IF retry THEN CountInvocation(c) ELSE UNCHANGED invoked
  /\ UNCHANGED <<store, todo, result, turnVars, issued, approved>>

(* Append the input (a resumption has none) and open the checkpoint of the *)
(* turn unless one is running.                                             *)
BeginTurn ==
  LET s    == IF op = "run" /\ ~resumed THEN AppendTo(mem, UserMessage) ELSE mem
      next == IF op = "run" THEN "loop" ELSE "decide"
  IN
  /\ pc = "input"
  /\ IF ~Durable \/ s.ckpt = "running"
       THEN mem' = s /\ GoTo(next)
       ELSE SaveThen([s EXCEPT !.ckpt = "running", !.wa = NoCall], next)
  /\ UNCHANGED <<store, todo, result, turnVars, history>>

(* Slip: the decision is not looked at.                                    *)
ExecuteUndecided ==
  /\ pc = "decide" /\ Known(Head(todo))
  /\ CheckpointToolStart(Head(todo))
  /\ UNCHANGED <<store, todo, result, turnVars, history>>

(* The decision on the pending call is applied before the model is asked   *)
(* again; an approved call is executed unless its tool has disappeared.    *)
ExecuteDecided ==
  LET c == Head(todo) IN
  /\ pc = "decide" /\ approve /\ Known(c)
  /\ CheckpointToolStart(c)
  /\ UNCHANGED <<store, todo, result, turnVars, history>>

RejectDecided ==
  LET c == Head(todo) IN
  /\ pc = "decide" /\ ~(approve /\ Known(c))
  /\ CheckpointStep(Record(c, IF Known(c) THEN "denied" ELSE "rejected"), "loop")
  /\ todo' = Tail(todo)
  /\ UNCHANGED <<store, result, turnVars, history>>

----------------------------------------------------------------------------
(* The loop of runTurn: limits, then one call to the model.                *)

(* Slip: the reason is noted but the loop goes on.                         *)
StopNoted(why) ==
  /\ pc = "loop"
  /\ \/ why = "cancelled"
     \/ why = "budget" /\ op = "run"
     \/ why = "max_iterations" /\ iters >= IterationLimit
  /\ GoTo("loop")
  /\ result' = why
  /\ UNCHANGED <<store, mem, todo, turnVars, history>>

(* Cancellation and the wall-clock and token budget belong to the          *)
(* environment; only Run carries a budget.                                 *)
StopTurn(why) ==
  /\ pc = "loop"
  /\ \/ why = "cancelled"
     \/ why = "budget" /\ op = "run"
     \/ why = "max_iterations" /\ iters >= IterationLimit
  /\ GoTo("finish")
  /\ result' = why
  /\ UNCHANGED <<store, mem, todo, turnVars, history>>

CallModel ==
  /\ pc = "loop" /\ iters < IterationLimit
  /\ iters' = iters + 1
  /\ GoTo("chat")
  /\ UNCHANGED <<store, mem, op, resumed, approve, todo, catalogUp, outcome, result,
                 ops, crashes, history>>

(* The model, its configuration or the media of the history is refused:    *)
(* the error returns at once and nothing is saved.                         *)
ModelFails ==
  /\ pc = "chat" \/ (pc = "loop" /\ iters < IterationLimit)
  /\ FailTurn
  /\ UNCHANGED <<store, crashes, history>>

(* The answer joins the history with the calls it asks for (none: a final  *)
(* answer, which the semantic cache may also give).                        *)
ModelAnswers(batch) ==
  /\ pc = "chat"
  /\ IsInjective(batch)
  /\ issued' = issued \cup ToSet(batch)
  /\ todo' = batch
  /\ CheckpointStep(AppendTo(mem, AssistantMessage(batch)), "answer")
  /\ UNCHANGED <<store, result, turnVars, approved, invoked>>

FinalAnswer ==
  /\ pc = "answer" /\ todo = <<>>
  /\ GoTo("finish")
  /\ result' = "completed"
  /\ UNCHANGED <<store, mem, todo, turnVars, history>>

(* The final answer does not satisfy the schema the request asked for;     *)
(* ResolveConfirmation carries no schema.                                  *)
OutputInvalid ==
  /\ pc = "answer" /\ todo = <<>> /\ op = "run"
  /\ FailTurn
  /\ UNCHANGED <<store, crashes, history>>

(* Slip: a call that needs a confirmation is allowed, hence planned.       *)
PlanAllowed(batch) ==
  /\ ParallelTools /\ Len(batch) > 1
  /\ \A i \in DOMAIN batch : Accepted(batch[i])

(* Only a batch none of whose calls needs rejecting or asking is parallel. *)
PlanParallel(batch) ==
  /\ ParallelTools /\ Len(batch) > 1
  /\ \A i \in DOMAIN batch : Accepted(batch[i]) /\ batch[i] \notin Confirm

DispatchBatch ==
  /\ pc = "answer" /\ todo # <<>>
  /\ GoTo(IF PlanParallel(todo) THEN "parallel" ELSE "next")
  /\ UNCHANGED <<store, mem, todo, result, turnVars, history>>

----------------------------------------------------------------------------
(* The sequential path.                                                    *)

(* Slip: the refused call gets no result.                                  *)
SkipSilently(status) ==
  /\ todo' = Tail(todo)
  /\ GoTo(AfterCall(Tail(todo)))
  /\ UNCHANGED <<store, mem, result, turnVars, history>>

SkipHead(status) ==
  /\ mem' = Record(Head(todo), status)
  /\ todo' = Tail(todo)
  /\ GoTo(AfterCall(Tail(todo)))
  /\ UNCHANGED <<store, result, turnVars, history>>

RejectCall ==
  LET c == Head(todo) IN
  /\ pc = "next" /\ ~Accepted(c)
  /\ SkipHead(IF Known(c) /\ c \notin Invalid THEN "denied" ELSE "rejected")

StartCall ==
  LET c == Head(todo) IN
  /\ pc = "next" /\ Accepted(c) /\ c \notin Confirm
  /\ CheckpointToolStart(c)
  /\ UNCHANGED <<store, todo, result, turnVars, history>>

AsksHuman == pc = "next" /\ Accepted(Head(todo)) /\ Head(todo) \in Confirm

HumanApproves ==
  /\ AsksHuman
  /\ approved' = approved \cup {Head(todo)}
  /\ CheckpointToolStart(Head(todo))
  /\ UNCHANGED <<store, todo, result, turnVars, issued, invoked>>

HumanDenies == AsksHuman /\ SkipHead("denied")

(* The host gives no decision: the turn pauses on this call.  The rest of  *)
(* the batch is remembered nowhere.                                        *)
PauseForHuman ==
  /\ AsksHuman
  /\ SaveThen([mem EXCEPT !.state = "awaiting", !.pending = Head(todo)], "finish")
  /\ result' = "paused"
  /\ todo' = <<>>
  /\ UNCHANGED <<store, turnVars, history>>

(* The call reaches its tool; a failing transport is an error result.      *)
InvokeTool(status) ==
  LET c == Head(todo) IN
  /\ pc = "invoke"
  /\ CountInvocation(c)
  /\ CheckpointStep(Record(c, status), AfterCall(Tail(todo)))
  /\ todo' = Tail(todo)
  /\ UNCHANGED <<store, result, turnVars, issued, approved>>

----------------------------------------------------------------------------
(* The parallel path: one goroutine per call, results appended in order    *)
(* once all of them are back.                                              *)

ParallelInvoke(c, status) ==
  /\ pc = "parallel" /\ c \in ToSet(todo) /\ outcome[c] = "none"
  /\ CountInvocation(c)
  /\ outcome' = [outcome EXCEPT ![c] = status]
  /\ UNCHANGED <<store, mem, pc, after, op, resumed, approve, todo, catalogUp, iters,
                 result, ops, crashes, issued, approved>>

ParallelResults == [i \in DOMAIN todo |-> ToolMessage(todo[i], outcome[todo[i]])]

CollectAs(results) ==
  /\ pc = "parallel" /\ \A i \in DOMAIN todo : outcome[todo[i]] # "none"
  /\ CheckpointStep([mem EXCEPT !.msgs = @ \o results], "loop")
  /\ todo' = <<>>
  /\ outcome' = NoOutcome
  /\ UNCHANGED <<store, op, resumed, approve, catalogUp, iters, result, ops, crashes,
                 history>>

(* A slip: results in another order.                                       *)
CollectReversed == CollectAs(Reverse(ParallelResults))

ParallelCollect == CollectAs(ParallelResults)

----------------------------------------------------------------------------
(* The end of a turn, the session store and crashes.                       *)

(* Slips: the pause is not told apart; the stop reason is the status.      *)
FinishAsCompleted(s) ==
  IF ~Checkpointing(s) THEN s
  ELSE [s EXCEPT !.wa = NoCall,
                 !.ckpt = IF result = "cancelled" THEN @ ELSE "completed"]
FinishAsReason(s) ==
  IF ~Checkpointing(s) THEN s ELSE [s EXCEPT !.wa = NoCall, !.ckpt = result]

(* finishCheckpoint; its case on session.Pending comes first.              *)
FinishCheckpoint(s) ==
  IF ~Checkpointing(s) THEN s
  ELSE [s EXCEPT !.wa = NoCall,
                 !.ckpt = IF s.pending # NoCall THEN "awaiting"
                          ELSE IF result = "cancelled" THEN @ ELSE "completed"]

(* Run closes the checkpoint, ResolveConfirmation does not; both save.     *)
FinishTurn ==
  /\ pc = "finish"
  /\ SaveThen(IF op = "run" THEN FinishCheckpoint(mem) ELSE mem, "done")
  /\ UNCHANGED <<store, todo, result, turnVars, history>>

SaveSession ==
  /\ pc = "save"
  /\ store' = mem
  /\ GoTo(after)
  /\ UNCHANGED <<mem, todo, result, turnVars, history>>

(* The store reports a failure, before or after the session was written;   *)
(* every caller of Save returns the error.                                 *)
SaveFails ==
  /\ pc = "save"
  /\ store' \in {store, mem}
  /\ FailTurn
  /\ UNCHANGED <<crashes, history>>

Return ==
  /\ pc = "done"
  /\ LeaveTurn(result)
  /\ UNCHANGED <<store, crashes, history>>

(* The process dies and restarts.                                          *)
Crash ==
  /\ pc # "idle" /\ crashes < MaxCrashes
  /\ crashes' = crashes + 1
  /\ LeaveTurn("none")
  /\ UNCHANGED <<store, history>>

----------------------------------------------------------------------------

HostStep == Run \/ \E decision \in BOOLEAN : ResolveConfirmation(decision)

HeadStep == FetchCatalog \/ NothingToReconcile \/ Reconcile \/ BeginTurn
            \/ ExecuteDecided \/ RejectDecided

LoopStep ==
  \/ \E why \in {"cancelled", "budget", "max_iterations"} : StopTurn(why)
  \/ CallModel \/ ModelFails
  \/ \E batch \in BoundedSeq(Calls \ issued, MaxBatch) : ModelAnswers(batch)
  \/ FinalAnswer \/ OutputInvalid \/ DispatchBatch

ToolStep ==
  \/ RejectCall \/ StartCall \/ HumanApproves \/ HumanDenies \/ PauseForHuman
  \/ \E status \in {"ok", "error"} :
       InvokeTool(status) \/ \E c \in Calls : ParallelInvoke(c, status)
  \/ ParallelCollect

EndStep == FinishTurn \/ SaveSession \/ SaveFails \/ Return

EngineStep == HeadStep \/ LoopStep \/ ToolStep \/ EndStep

Next == HostStep \/ EngineStep \/ Crash

Spec == Init /\ [][Next]_vars

(* Weak fairness of a turn already started: Go schedules its goroutine and *)
(* every external call it waits on (model, tool, store, handler) returns,  *)
(* with an error at worst, since all of them take the turn's context.      *)
FairSpec == Spec /\ WF_vars(EngineStep)
----------------------------------------------------------------------------
(* Properties.                                                             *)

(* Every variable keeps its type.                                          *)
TypeOK ==
  /\ store \in Sessions /\ mem \in Sessions
  /\ pc \in Places
  /\ after \in Places
  /\ op \in {"run", "resolve"}
  /\ resumed \in BOOLEAN /\ approve \in BOOLEAN /\ catalogUp \in BOOLEAN
  /\ todo \in Seq(Calls)
  /\ iters \in Nat /\ ops \in Nat /\ crashes \in Nat
  /\ outcome \in [Calls -> {"none", "ok", "error"}]
  /\ result \in Results
  /\ issued \subseteq Calls /\ approved \subseteq Calls
  /\ invoked \in [Calls -> Nat]

(* With durability no crash, failed save, pause or resumption makes the    *)
(* engine send the same call twice to a tool that is not idempotent        *)
(* (reconcileCheckpoint, requestConfirmation, ResolveConfirmation).        *)
AtMostOnce == \A c \in Calls \ Idempotent : invoked[c] <= 1

(* On the sequential path an effect is never unknown to the store: a call  *)
(* that reached its tool is answered there or is its write-ahead call.     *)
EffectsAccountedFor ==
  \A c \in Calls : invoked[c] > 0 => c \in Answered(store) \cup {store.wa}

(* What the history tells the model is true: a call reported as denied or  *)
(* rejected had no effect, one reported with a result did reach its tool.  *)
TruthfulAnswers ==
  \A i \in DOMAIN mem.msgs :
    LET m == mem.msgs[i] IN
    /\ m.status \in {"denied", "rejected"} => invoked[m.call] = 0
    /\ m.status \in {"ok", "error"} => invoked[m.call] > 0

(* The three marks of a pause or an interruption agree in the store at     *)
(* every instant a crash may expose: state, pending call and checkpoint.   *)
StoreConsistent ==
  /\ (store.state = "awaiting") <=> (store.pending # NoCall)
  /\ store.ckpt = "awaiting" => store.state = "awaiting"
  /\ store.wa # NoCall => /\ store.ckpt = "running" /\ store.state = "active"
                          /\ store.wa \in Requested(store) \ Answered(store)

(* A session saved as awaiting can be taken up again: the pending call is  *)
(* one ResolveConfirmation finds, and it has no answer yet (CU-HAR-3).     *)
AwaitingIsResolvable ==
  store.state = "awaiting" =>
    FindPendingCall(store, store.pending) /\ store.pending \notin Answered(store)

(* A call that needs a human decision reaches its tool only once one has   *)
(* been given for it, on whichever path it is executed (RN-3).             *)
ApprovedBeforeInvoked == \A c \in Confirm : invoked[c] > 0 => c \in approved

(* Results stand in the history in the order of the calls they answer, and *)
(* a call has one result at most (FR-PAR-002, reconcileCheckpoint).        *)
ResultsFollowCallOrder ==
  \A i, j \in DOMAIN mem.msgs :
    LET a == mem.msgs[i].call
        b == mem.msgs[j].call
    IN i < j /\ a # NoCall /\ b # NoCall =>
         /\ a # b
         /\ \A k \in DOMAIN mem.msgs : \A x, y \in DOMAIN mem.msgs[k].calls :
              mem.msgs[k].calls[x] = a /\ mem.msgs[k].calls[y] = b => x < y

(* The model is never asked while a call of the history has no result.     *)
AnsweredBeforeAsking == pc = "chat" => Requested(mem) \subseteq Answered(mem)

(* What Run tells the host is what the next operation will find: a paused  *)
(* turn is resolvable, a cancelled one is resumed, any other is closed.    *)
CheckpointMatchesResult ==
  pc = "idle" /\ op = "run" /\ Durable =>
    /\ result = "paused"    => store.state = "awaiting" /\ store.ckpt = "awaiting"
    /\ result = "cancelled" => store.state = "active" /\ store.ckpt = "running"
    /\ result \in {"completed", "budget", "max_iterations"} =>
         store.state = "active" /\ store.ckpt = "completed"

(* FR-DU-009: after a turn that completed, whichever operation ended it,   *)
(* the next Run starts a new turn.                                         *)
CompletedTurnIsClosed ==
  pc = "idle" /\ result = "completed" => ~(Durable /\ store.ckpt = "running")

(* A save never rewrites the history the store already holds.              *)
HistoryOnlyGrows == [][IsPrefix(store.msgs, store'.msgs)]_store

(* A started turn ends, whatever the environment answers.                  *)
TurnTerminates == pc # "idle" ~> pc = "idle"

(* The durable sequential engine keeps the promise of CallLedger.          *)
LedgerEntry ==
  [c \in Calls |-> IF c \in Answered(store) THEN "answered"
                   ELSE IF c = store.wa THEN "intended"
                   ELSE IF c \in Requested(store) THEN "requested" ELSE "none"]

Ledger == INSTANCE CallLedger WITH entry <- LedgerEntry

(* Every save and every effect of the engine is a step of the ledger.      *)
KeepsLedger == Ledger!LedgerSpec
=============================================================================
