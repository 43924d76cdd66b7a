-------------------------- MODULE TurnEngineProofs --------------------------
(***************************************************************************)
(* What a turn executes, for every set of calls and every bound: every     *)
(* variable keeps its type, no effect happens twice that may not, none     *)
(* without the approval it needs, and none that the store does not know.   *)
(***************************************************************************)
EXTENDS TurnEngine, TLAPS

(* Building blocks of the type invariant: what each control operator and   *)
(* each update of a session yields.                                        *)
LEMMA NewSessionType == NewSession \in Sessions
  BY DEF NewSession, Sessions, Messages, CallIds

LEMMA MessageTypes ==
  /\ UserMessage \in Messages
  /\ \A batch \in Seq(Calls) : AssistantMessage(batch) \in Messages
  /\ \A c \in Calls, status \in Answers : ToolMessage(c, status) \in Messages
  BY DEF UserMessage, AssistantMessage, ToolMessage, Messages, CallIds

LEMMA AppendType ==
  ASSUME NEW s \in Sessions, NEW m \in Messages
  PROVE  AppendTo(s, m) \in Sessions
  BY DEF AppendTo, Sessions

LEMMA ConcatType ==
  ASSUME NEW s \in Sessions, NEW results \in Seq(Messages)
  PROVE  [s EXCEPT !.msgs = @ \o results] \in Sessions
<1>1. s.msgs \o results \in Seq(Messages)
  BY DEF Sessions
<1> QED BY <1>1 DEF Sessions

LEMMA SessionUpdateTypes ==
  ASSUME NEW s \in Sessions, NEW c \in CallIds
  PROVE  /\ [s EXCEPT !.wa = c] \in Sessions
         /\ [s EXCEPT !.ckpt = "running", !.wa = NoCall] \in Sessions
         /\ [s EXCEPT !.state = "awaiting", !.pending = c] \in Sessions
         /\ FinishCheckpoint(s) \in Sessions
  BY DEF Sessions, CallIds, FinishCheckpoint

LEMMA SaveTypes ==
  ASSUME NEW s \in Sessions, NEW next \in Places,
         SaveThen(s, next) \/ SaveCheckpoint(s, next) \/ CheckpointStep(s, next)
  PROVE  mem' \in Sessions /\ pc' \in Places /\ after' \in Places
  BY SessionUpdateTypes DEF SaveThen, SaveCheckpoint, CheckpointStep, GoTo, Places, CallIds

LEMMA GoToTypes ==
  ASSUME NEW next \in Places, GoTo(next)
  PROVE  pc' \in Places /\ after' \in Places
  BY DEF GoTo, Places

LEMMA LeaveTurnTypes ==
  ASSUME TypeOK, NEW how \in Results, LeaveTurn(how),
         store' \in Sessions, crashes' \in Nat, UNCHANGED history
  PROVE  TypeOK'
<1>1. "idle" \in Places
  BY DEF Places
<1>2. pc' \in Places /\ after' \in Places
  BY <1>1, GoToTypes DEF LeaveTurn
<1>3. resumed' \in BOOLEAN /\ approve' \in BOOLEAN /\ catalogUp' \in BOOLEAN
  BY DEF LeaveTurn
<1>4. mem' \in Sessions /\ todo' \in Seq(Calls) /\ outcome' \in [Calls -> {"none", "ok", "error"}]
  BY NewSessionType DEF LeaveTurn, NoOutcome
<1>5. op' \in {"run", "resolve"} /\ iters' \in Nat /\ ops' \in Nat /\ result' \in Results
  BY DEF LeaveTurn, TypeOK
<1>6. issued' \subseteq Calls /\ approved' \subseteq Calls /\ invoked' \in [Calls -> Nat]
  BY DEF TypeOK, history
<1> QED
  BY <1>2, <1>3, <1>4, <1>5, <1>6 DEF TypeOK

LEMMA RecordType ==
  ASSUME TypeOK, NEW c \in Calls, NEW status \in Answers
  PROVE  Record(c, status) \in Sessions
  BY AppendType, MessageTypes DEF Record, TypeOK

(* Where the turn is or, while it waits for a Save, where it will go.      *)
At == IF pc = "save" THEN after ELSE pc

(* The places that look at the head of todo have one: the decided call of  *)
(* a ResolveConfirmation, or the next call of the model's batch.           *)
HasHead ==
  /\ after # "save"
  /\ At \in {"catalog", "reconcile", "input", "decide"} /\ op = "resolve" => todo # <<>>
  /\ At \in {"next", "invoke"} => todo # <<>>
  /\ At = "decide" => op = "resolve"

LEMMA HeadTailTypes ==
  ASSUME TypeOK, todo # <<>>
  PROVE  Head(todo) \in Calls /\ Tail(todo) \in Seq(Calls) /\ AfterCall(Tail(todo)) \in Places
  BY DEF TypeOK, AfterCall, Places

(* The variables an action leaves alone together keep their types.         *)
LEMMA FrameTypes ==
  ASSUME TypeOK, UNCHANGED turnVars
  PROVE  /\ op' \in {"run", "resolve"}
         /\ resumed' \in BOOLEAN /\ approve' \in BOOLEAN /\ catalogUp' \in BOOLEAN
         /\ iters' \in Nat /\ ops' \in Nat /\ crashes' \in Nat
         /\ outcome' \in [Calls -> {"none", "ok", "error"}]
  BY DEF TypeOK, turnVars

LEMMA HistoryTypes ==
  ASSUME TypeOK, UNCHANGED history
  PROVE  issued' \subseteq Calls /\ approved' \subseteq Calls /\ invoked' \in [Calls -> Nat]
  BY DEF TypeOK, history

LEMMA CountTypes ==
  ASSUME TypeOK, NEW c \in Calls, CountInvocation(c)
  PROVE  invoked' \in [Calls -> Nat]
  BY DEF TypeOK, CountInvocation

LEMMA ToolStartTypes ==
  ASSUME TypeOK, NEW c \in Calls, CheckpointToolStart(c)
  PROVE  mem' \in Sessions /\ pc' \in Places /\ after' \in Places
  BY SessionUpdateTypes, SaveTypes DEF CheckpointToolStart, TypeOK, CallIds, Places

LEMMA HostTypes == TypeOK /\ HostStep => TypeOK'
<1> SUFFICES ASSUME TypeOK, HostStep PROVE TypeOK'
  OBVIOUS
<1>1. ASSUME NEW which \in {"run", "resolve"}, BeginOperation(which)
      PROVE  /\ store' \in Sessions /\ pc' \in Places /\ after' \in Places
             /\ op' \in {"run", "resolve"} /\ catalogUp' \in BOOLEAN
             /\ iters' \in Nat /\ ops' \in Nat /\ crashes' \in Nat /\ result' \in Results
             /\ outcome' \in [Calls -> {"none", "ok", "error"}]
             /\ issued' \subseteq Calls /\ invoked' \in [Calls -> Nat]
  BY <1>1, GoToTypes DEF BeginOperation, TypeOK, Places, Results
<1>2. CASE Run
  <2>1. mem' \in Sessions /\ todo' \in Seq(Calls) /\ approved' \subseteq Calls
    BY <1>2 DEF Run, TypeOK
  <2>2. resumed' \in BOOLEAN /\ approve' \in BOOLEAN
    BY <1>2, FlagAssumption DEF Run
  <2> QED BY <1>1, <1>2, <2>1, <2>2 DEF Run, TypeOK
<1>3. ASSUME NEW decision \in BOOLEAN, ResolveConfirmation(decision)
      PROVE  TypeOK'
  <2>1. store.pending \in Calls
    BY <1>3 DEF ResolveConfirmation, ResumedSession, TypeOK, Sessions, CallIds
  <2>2. todo' \in Seq(Calls) /\ approved' \subseteq Calls
    BY <1>3, <2>1 DEF ResolveConfirmation, TypeOK
  <2>3. mem' \in Sessions
    BY <1>3 DEF ResolveConfirmation, ResumedSession, TypeOK, Sessions, CallIds
  <2>4. resumed' \in BOOLEAN /\ approve' \in BOOLEAN
    BY <1>3 DEF ResolveConfirmation
  <2> QED BY <1>1, <1>3, <2>2, <2>3, <2>4 DEF ResolveConfirmation, TypeOK
<1> QED BY <1>2, <1>3 DEF HostStep

LEMMA HeadTypes == TypeOK /\ HasHead /\ HeadStep => TypeOK'
<1> SUFFICES ASSUME TypeOK, HasHead, HeadStep PROVE TypeOK'
  OBVIOUS
<1>1. CASE FetchCatalog
  BY <1>1, GoToTypes, HistoryTypes DEF FetchCatalog, TypeOK, Places
<1>2. CASE NothingToReconcile
  BY <1>2, GoToTypes, FrameTypes, HistoryTypes DEF NothingToReconcile, TypeOK, Places
<1>3. CASE Reconcile
  <2>1. mem.wa \in Calls
    BY <1>3 DEF Reconcile, Interrupted, TypeOK, Sessions, CallIds
  <2>2. \A status \in Answers : Record(mem.wa, status) \in Sessions
    BY <2>1, RecordType
  <2>3. mem' \in Sessions /\ pc' \in Places /\ after' \in Places
    BY <1>3, <2>2, SaveTypes DEF Reconcile, Places, Answers, TypeOK
  <2>4. invoked' \in [Calls -> Nat]
    BY <1>3, <2>1, CountTypes DEF Reconcile, TypeOK
  <2> QED BY <1>3, <2>3, <2>4, FrameTypes DEF Reconcile, TypeOK
<1>4. CASE BeginTurn
  <2>1. AppendTo(mem, UserMessage) \in Sessions
    BY AppendType, MessageTypes DEF TypeOK
  <2>2. mem' \in Sessions /\ pc' \in Places /\ after' \in Places
    BY <1>4, <2>1, SessionUpdateTypes, SaveTypes, GoToTypes
    DEF BeginTurn, Places, TypeOK, CallIds
  <2> QED BY <1>4, <2>2, FrameTypes, HistoryTypes DEF BeginTurn, TypeOK
<1>5. CASE ExecuteDecided
  <2>1. Head(todo) \in Calls
    BY <1>5, HeadTailTypes DEF ExecuteDecided, HasHead, At
  <2> QED BY <1>5, <2>1, ToolStartTypes, FrameTypes, HistoryTypes DEF ExecuteDecided, TypeOK
<1>6. CASE RejectDecided
  <2>1. Head(todo) \in Calls /\ Tail(todo) \in Seq(Calls)
    BY <1>6, HeadTailTypes DEF RejectDecided, HasHead, At
  <2>2. \A status \in {"denied", "rejected"} : Record(Head(todo), status) \in Sessions
    BY <2>1, RecordType DEF Answers
  <2>3. mem' \in Sessions /\ pc' \in Places /\ after' \in Places
    BY <1>6, <2>2, SaveTypes DEF RejectDecided, Places
  <2> QED BY <1>6, <2>1, <2>3, FrameTypes, HistoryTypes DEF RejectDecided, TypeOK
<1> QED BY <1>1, <1>2, <1>3, <1>4, <1>5, <1>6 DEF HeadStep

LEMMA LoopTypes == TypeOK /\ LoopStep => TypeOK'
<1> SUFFICES ASSUME TypeOK, LoopStep PROVE TypeOK'
  OBVIOUS
<1>1. ASSUME NEW why \in {"cancelled", "budget", "max_iterations"}, StopTurn(why)
      PROVE  TypeOK'
  BY <1>1, GoToTypes, FrameTypes, HistoryTypes DEF StopTurn, TypeOK, Places, Results
<1>2. CASE CallModel
  BY <1>2, GoToTypes, HistoryTypes DEF CallModel, TypeOK, Places
<1>3. CASE ModelFails
  BY <1>3, LeaveTurnTypes DEF ModelFails, FailTurn, Results, TypeOK
<1>4. ASSUME NEW batch \in BoundedSeq(Calls \ issued, MaxBatch), ModelAnswers(batch)
      PROVE  TypeOK'
  <2>1. batch \in Seq(Calls) /\ ToSet(batch) \subseteq Calls
    BY BoundAssumption DEF BoundedSeq, SeqOf, ToSet
  <2>2. AppendTo(mem, AssistantMessage(batch)) \in Sessions
    BY <2>1, AppendType, MessageTypes DEF TypeOK
  <2>3. mem' \in Sessions /\ pc' \in Places /\ after' \in Places
    BY <1>4, <2>2, SaveTypes DEF ModelAnswers, Places
  <2> QED BY <1>4, <2>1, <2>3, FrameTypes DEF ModelAnswers, TypeOK
<1>5. CASE FinalAnswer
  BY <1>5, GoToTypes, FrameTypes, HistoryTypes DEF FinalAnswer, TypeOK, Places, Results
<1>6. CASE OutputInvalid
  BY <1>6, LeaveTurnTypes DEF OutputInvalid, FailTurn, Results, TypeOK
<1>7. CASE DispatchBatch
  BY <1>7, GoToTypes, FrameTypes, HistoryTypes DEF DispatchBatch, TypeOK, Places
<1> QED BY <1>1, <1>2, <1>3, <1>4, <1>5, <1>6, <1>7 DEF LoopStep

LEMMA CollectType ==
  ASSUME TypeOK, ParallelCollect
  PROVE  [mem EXCEPT !.msgs = @ \o ParallelResults] \in Sessions
<1>1. \A i \in DOMAIN todo : todo[i] \in Calls /\ outcome[todo[i]] \in Answers
  BY DEF ParallelCollect, CollectAs, TypeOK, Answers
<1>2. DOMAIN todo = 1 .. Len(todo) /\ Len(todo) \in Nat
  BY DEF TypeOK
<1>3. ParallelResults \in Seq(Messages)
  BY <1>1, <1>2, MessageTypes DEF ParallelResults
<1> QED BY <1>3, ConcatType DEF TypeOK

LEMMA ToolTypes == TypeOK /\ HasHead /\ ToolStep => TypeOK'
<1> SUFFICES ASSUME TypeOK, HasHead, ToolStep PROVE TypeOK'
  OBVIOUS
<1>1. pc \in {"next", "invoke"} =>
        Head(todo) \in Calls /\ Tail(todo) \in Seq(Calls) /\ AfterCall(Tail(todo)) \in Places
  BY HeadTailTypes DEF HasHead, At
<1>2. ASSUME NEW status \in Answers, pc = "next", SkipHead(status)
      PROVE  TypeOK'
  BY <1>1, <1>2, RecordType, GoToTypes, FrameTypes, HistoryTypes DEF SkipHead, TypeOK
<1>3. CASE RejectCall
  BY <1>2, <1>3 DEF RejectCall, Answers
<1>4. CASE StartCall
  BY <1>1, <1>4, ToolStartTypes, FrameTypes, HistoryTypes DEF StartCall, TypeOK
<1>5. CASE HumanApproves
  BY <1>1, <1>5, ToolStartTypes, FrameTypes DEF HumanApproves, AsksHuman, TypeOK
<1>6. CASE HumanDenies
  BY <1>2, <1>6 DEF HumanDenies, AsksHuman, Answers
<1>7. CASE PauseForHuman
  <2>1. [mem EXCEPT !.state = "awaiting", !.pending = Head(todo)] \in Sessions
    BY <1>1, <1>7, SessionUpdateTypes DEF PauseForHuman, AsksHuman, TypeOK, CallIds
  <2>2. mem' \in Sessions /\ pc' \in Places /\ after' \in Places
    BY <1>7, <2>1, SaveTypes DEF PauseForHuman, Places
  <2> QED BY <1>7, <2>2, FrameTypes, HistoryTypes DEF PauseForHuman, TypeOK, Results
<1>8. ASSUME NEW status \in {"ok", "error"}, InvokeTool(status)
      PROVE  TypeOK'
  <2>1. Record(Head(todo), status) \in Sessions
    BY <1>1, <1>8, RecordType DEF InvokeTool, Answers
  <2>2. mem' \in Sessions /\ pc' \in Places /\ after' \in Places
    BY <1>1, <1>8, <2>1, SaveTypes DEF InvokeTool
  <2>3. invoked' \in [Calls -> Nat]
    BY <1>1, <1>8, CountTypes DEF InvokeTool
  <2> QED BY <1>1, <1>8, <2>2, <2>3, FrameTypes DEF InvokeTool, TypeOK
<1>9. ASSUME NEW status \in {"ok", "error"}, NEW c \in Calls, ParallelInvoke(c, status)
      PROVE  TypeOK'
  BY <1>9, CountTypes DEF ParallelInvoke, TypeOK
<1>10. CASE ParallelCollect
  <2>4. [mem EXCEPT !.msgs = @ \o ParallelResults]
          \in Sessions
    BY <1>10, CollectType
  <2>5. mem' \in Sessions /\ pc' \in Places /\ after' \in Places
    BY <1>10, <2>4, SaveTypes DEF ParallelCollect, CollectAs, Places
  <2>6. outcome' \in [Calls -> {"none", "ok", "error"}] /\ todo' \in Seq(Calls)
    BY <1>10 DEF ParallelCollect, CollectAs, NoOutcome
  <2> QED BY <1>10, <2>5, <2>6, HistoryTypes DEF ParallelCollect, CollectAs, TypeOK
<1> QED BY <1>3, <1>4, <1>5, <1>6, <1>7, <1>8, <1>9, <1>10 DEF ToolStep

LEMMA EndTypes == TypeOK /\ EndStep => TypeOK'
<1> SUFFICES ASSUME TypeOK, EndStep PROVE TypeOK'
  OBVIOUS
<1>1. CASE FinishTurn
  <2>1. mem' \in Sessions /\ pc' \in Places /\ after' \in Places
    BY <1>1, SessionUpdateTypes, SaveTypes DEF FinishTurn, TypeOK, Places, CallIds
  <2> QED BY <1>1, <2>1, FrameTypes, HistoryTypes DEF FinishTurn, TypeOK
<1>2. CASE SaveSession
  BY <1>2, GoToTypes, FrameTypes, HistoryTypes DEF SaveSession, TypeOK
<1>3. CASE SaveFails
  BY <1>3, LeaveTurnTypes DEF SaveFails, FailTurn, TypeOK, Results
<1>4. CASE Return
  BY <1>4, LeaveTurnTypes DEF Return, TypeOK
<1> QED BY <1>1, <1>2, <1>3, <1>4 DEF EndStep

LEMMA CrashTypes == TypeOK /\ Crash => TypeOK'
  BY LeaveTurnTypes DEF Crash, TypeOK, Results

LEMMA LeaveTurnHead ==
  ASSUME NEW how, LeaveTurn(how)
  PROVE  HasHead'
  BY DEF LeaveTurn, GoTo, HasHead, At

LEMMA HeadKept == TypeOK /\ HasHead /\ Next => HasHead'
<1> SUFFICES ASSUME TypeOK, HasHead, Next PROVE HasHead'
  OBVIOUS
<1> USE DEF HasHead, At
<1>1. CASE HostStep
  BY <1>1 DEF HostStep, Run, ResolveConfirmation, BeginOperation, GoTo
<1>2. CASE HeadStep
  <2>1. CASE FetchCatalog \/ NothingToReconcile
    BY <1>2, <2>1 DEF FetchCatalog, NothingToReconcile, GoTo, turnVars
  <2>2. CASE Reconcile
    BY <2>2 DEF Reconcile, CheckpointStep, SaveCheckpoint, SaveThen, GoTo, turnVars
  <2>3. CASE BeginTurn
    BY <2>3 DEF BeginTurn, SaveThen, GoTo, turnVars, TypeOK
  <2>4. CASE ExecuteDecided
    BY <2>4 DEF ExecuteDecided, CheckpointToolStart, SaveCheckpoint, SaveThen, GoTo, turnVars
  <2>5. CASE RejectDecided
    BY <2>5 DEF RejectDecided, CheckpointStep, SaveCheckpoint, SaveThen, GoTo, turnVars
  <2> QED BY <1>2, <2>1, <2>2, <2>3, <2>4, <2>5 DEF HeadStep
<1>3. CASE LoopStep
  <2>1. CASE ModelFails \/ OutputInvalid
    BY <2>1, LeaveTurnHead DEF ModelFails, OutputInvalid, FailTurn
  <2>2. ASSUME NEW batch, ModelAnswers(batch) PROVE HasHead'
    BY <2>2 DEF ModelAnswers, CheckpointStep, SaveCheckpoint, SaveThen, GoTo
  <2>3. ASSUME NEW why, StopTurn(why) PROVE HasHead'
    BY <2>3 DEF StopTurn, GoTo
  <2>4. CASE CallModel \/ FinalAnswer \/ DispatchBatch
    BY <2>4 DEF CallModel, FinalAnswer, DispatchBatch, GoTo
  <2> QED BY <1>3, <2>1, <2>2, <2>3, <2>4 DEF LoopStep
<1>4. CASE ToolStep
  <2>1. ASSUME NEW status, pc = "next", SkipHead(status) PROVE HasHead'
    BY <2>1 DEF SkipHead, GoTo, AfterCall
  <2>2. CASE StartCall \/ HumanApproves
    BY <2>2 DEF StartCall, HumanApproves, AsksHuman, CheckpointToolStart, SaveCheckpoint,
                SaveThen, GoTo, turnVars
  <2>3. CASE PauseForHuman
    BY <2>3 DEF PauseForHuman, SaveThen
  <2>4. ASSUME NEW status, InvokeTool(status) PROVE HasHead'
    BY <2>4 DEF InvokeTool, CheckpointStep, SaveCheckpoint, SaveThen, GoTo, AfterCall
  <2>5. ASSUME NEW status, NEW c, ParallelInvoke(c, status) PROVE HasHead'
    BY <2>5 DEF ParallelInvoke
  <2>6. CASE ParallelCollect
    BY <2>6 DEF ParallelCollect, CollectAs, CheckpointStep, SaveCheckpoint, SaveThen, GoTo
  <2> QED BY <1>4, <2>1, <2>2, <2>3, <2>4, <2>5, <2>6
          DEF ToolStep, RejectCall, HumanDenies, AsksHuman
<1>5. CASE EndStep
  <2>1. CASE SaveFails \/ Return
    BY <2>1, LeaveTurnHead DEF SaveFails, Return, FailTurn
  <2>2. CASE FinishTurn
    BY <2>2 DEF FinishTurn, SaveThen
  <2>3. CASE SaveSession
    BY <2>3 DEF SaveSession, GoTo, turnVars
  <2> QED BY <1>5, <2>1, <2>2, <2>3 DEF EndStep
<1>6. CASE Crash
  BY <1>6, LeaveTurnHead DEF Crash
<1> QED BY <1>1, <1>2, <1>3, <1>4, <1>5, <1>6 DEF Next, EngineStep

LEMMA InitTypes == Init => TypeOK /\ HasHead
<1> SUFFICES ASSUME Init PROVE TypeOK /\ HasHead
  OBVIOUS
<1>1. store \in Sessions /\ mem \in Sessions /\ outcome \in [Calls -> {"none", "ok", "error"}]
  BY NewSessionType DEF Init, NoOutcome
<1>2. resumed \in BOOLEAN /\ approve \in BOOLEAN /\ catalogUp \in BOOLEAN
  BY DEF Init
<1>3. pc \in Places /\ after \in Places /\ op \in {"run", "resolve"} /\ todo \in Seq(Calls)
      /\ iters \in Nat /\ ops \in Nat /\ crashes \in Nat /\ result \in Results
  BY DEF Init, Places, Results
<1>4. issued \subseteq Calls /\ approved \subseteq Calls /\ invoked \in [Calls -> Nat]
  BY DEF Init
<1>5. HasHead
  BY DEF Init, HasHead, At
<1> QED BY <1>1, <1>2, <1>3, <1>4, <1>5 DEF TypeOK

LEMMA NextTypes == TypeOK /\ HasHead /\ [Next]_vars => TypeOK' /\ HasHead'
<1>1. CASE Next
  BY <1>1, HostTypes, HeadTypes, LoopTypes, ToolTypes, EndTypes, CrashTypes, HeadKept
  DEF Next, EngineStep
<1>2. CASE UNCHANGED vars
  BY <1>2 DEF vars, TypeOK, HasHead, At
<1> QED BY <1>1, <1>2

(* Every variable keeps its type, in particular the session that a Save    *)
(* hands to the store, for every set of calls and every bound.             *)
THEOREM TypeCorrect == Spec => []TypeOK
<1>1. TypeOK /\ HasHead => TypeOK
  OBVIOUS
<1> QED BY InitTypes, NextTypes, <1>1, PTL DEF Spec

----------------------------------------------------------------------------
(* AtMostOnce.  The strengthening says which calls still are untouched: the *)
(* ones no model has emitted, those left in the batch, and the one a        *)
(* session (in memory or stored) waits a confirmation for.  A confirmed     *)
(* call leaves the store's pending field before it reaches its tool because *)
(* the write-ahead is saved in between.                                     *)

Past == {"loop", "chat", "answer", "next", "invoke", "parallel"}
Before == {"catalog", "reconcile", "input", "decide"}

OnlyIssuedTouched ==
  /\ \A c \in Calls \ issued : invoked[c] = 0
  /\ \A i \in DOMAIN todo : todo[i] \in issued
  /\ {store.pending, mem.pending, store.wa, mem.wa} \subseteq issued \cup {NoCall}

BatchUntouched ==
  /\ IsInjective(todo)
  /\ \A i \in DOMAIN todo : outcome[todo[i]] = "none" => invoked[todo[i]] = 0
  /\ pc # "parallel" => outcome = NoOutcome

PendingUntouched ==
  /\ store.pending # NoCall => store.state = "awaiting" /\ invoked[store.pending] = 0
  /\ mem.pending # NoCall => mem.state = "awaiting" /\ invoked[mem.pending] = 0

NoWriteAheadWithoutCheckpoint ==
  /\ store.ckpt = "none" => store.wa = NoCall
  /\ mem.ckpt = "none" => mem.wa = NoCall

PendingCleared ==
  /\ At \in Past \cup {"decide"} => mem.ckpt = "running"
  /\ At \in Past \cup Before => mem.pending = NoCall
  /\ At \in Before /\ op = "run" => todo = <<>> /\ store.pending = NoCall
  /\ At \in Before /\ op = "resolve" => mem.wa = NoCall
  /\ pc \in Past => store.pending = NoCall

OnceInv == OnlyIssuedTouched /\ BatchUntouched /\ PendingUntouched
           /\ NoWriteAheadWithoutCheckpoint /\ PendingCleared /\ AtMostOnce

(* The fields of the session a control operator leaves behind.             *)
SameMarks(s) == /\ mem'.pending = s.pending
                /\ mem'.state = s.state
                /\ mem'.ckpt = s.ckpt

LEMMA AppendMarks ==
  ASSUME NEW s \in Sessions, NEW m
  PROVE  /\ AppendTo(s, m).pending = s.pending
         /\ AppendTo(s, m).state = s.state
         /\ AppendTo(s, m).ckpt = s.ckpt
         /\ AppendTo(s, m).wa = s.wa
  BY DEF AppendTo, Sessions

LEMMA StepMarks ==
  ASSUME Durable, NEW s \in Sessions, NEW next \in Places \ {"save"}, CheckpointStep(s, next)
  PROVE  /\ SameMarks(s) /\ mem'.wa = NoCall
         /\ At' = next
         /\ s.ckpt # "none" => pc' = "save"
         /\ s.ckpt = "none" => pc' = next
  BY DEF CheckpointStep, SaveCheckpoint, Checkpointing, SaveThen, GoTo, At, SameMarks, Sessions

LEMMA ToolStartMarks ==
  ASSUME Durable, NEW c, mem \in Sessions, mem.ckpt = "running", CheckpointToolStart(c)
  PROVE  /\ SameMarks(mem) /\ mem'.wa = c
         /\ At' = "invoke" /\ pc' = "save"
  BY DEF CheckpointToolStart, SaveCheckpoint, Checkpointing, SaveThen, At, SameMarks, Sessions

IInv == TypeOK /\ HasHead /\ OnceInv

LEMMA LeaveTurnOnce ==
  ASSUME IInv, NEW how, LeaveTurn(how), store' \in {store, mem}, UNCHANGED history
  PROVE  OnceInv'
<1> USE DEF IInv, OnceInv, LeaveTurn, GoTo, NewSession, history
<1>1. OnlyIssuedTouched'
  BY DEF OnlyIssuedTouched
<1>2. BatchUntouched'
  BY DEF BatchUntouched, IsInjective
<1>3. PendingUntouched'
  BY DEF PendingUntouched
<1>4. NoWriteAheadWithoutCheckpoint'
  BY DEF NoWriteAheadWithoutCheckpoint
<1>5. PendingCleared'
  BY DEF PendingCleared, At, Past, Before
<1>6. AtMostOnce'
  BY DEF AtMostOnce
<1> QED BY <1>1, <1>2, <1>3, <1>4, <1>5, <1>6

(* Steps that leave the store, the batch and the effects alone: what they  *)
(* do to the marks of the session in memory decides.                       *)
LEMMA QuietOnce ==
  ASSUME IInv, UNCHANGED <<store, todo, outcome, op, issued, invoked>>,
         mem'.pending = mem.pending, mem'.state = mem.state,
         mem'.wa \in {mem.wa, NoCall},
         mem'.ckpt = "none" => mem.ckpt = "none",
         pc' # "parallel" => pc # "parallel",
         PendingCleared'
  PROVE  OnceInv'
<1> USE DEF IInv, OnceInv
<1>1. OnlyIssuedTouched'
  BY DEF OnlyIssuedTouched
<1>2. BatchUntouched'
  BY DEF BatchUntouched
<1>3. PendingUntouched'
  BY DEF PendingUntouched
<1>4. NoWriteAheadWithoutCheckpoint'
  BY DEF NoWriteAheadWithoutCheckpoint
<1>5. AtMostOnce'
  BY DEF AtMostOnce
<1> QED BY <1>1, <1>2, <1>3, <1>4, <1>5

LEMMA HostOnce == Durable /\ IInv /\ HostStep => OnceInv'
<1> SUFFICES ASSUME Durable, IInv, HostStep PROVE OnceInv'
  OBVIOUS
<1> USE DEF IInv, OnceInv
<1>1. CASE Run
  <2> USE <1>1 DEF Run, BeginOperation, GoTo
  <2>1. store.pending = NoCall
    BY DEF PendingUntouched
  <2>2. OnlyIssuedTouched'
    BY DEF OnlyIssuedTouched
  <2>3. BatchUntouched'
    BY DEF BatchUntouched, IsInjective
  <2>4. PendingUntouched' /\ NoWriteAheadWithoutCheckpoint' /\ AtMostOnce'
    BY DEF PendingUntouched, NoWriteAheadWithoutCheckpoint, AtMostOnce
  <2>5. PendingCleared'
    BY <2>1 DEF PendingCleared, At, Past, Before
  <2> QED BY <2>2, <2>3, <2>4, <2>5
<1>2. ASSUME NEW decision \in BOOLEAN, ResolveConfirmation(decision)
      PROVE  OnceInv'
  <2> USE <1>2 DEF ResolveConfirmation, BeginOperation, GoTo
  <2>1. store.pending \in issued /\ invoked[store.pending] = 0 /\ store \in Sessions
    BY DEF PendingUntouched, OnlyIssuedTouched, TypeOK
  <2>2. mem'.pending = NoCall /\ mem'.wa = NoCall /\ (mem'.ckpt = "none" => store.ckpt = "none")
    BY <2>1 DEF ResumedSession, Checkpointing, Sessions, NoWriteAheadWithoutCheckpoint
  <2>3. OnlyIssuedTouched'
    BY <2>1, <2>2 DEF OnlyIssuedTouched
  <2>4. BatchUntouched'
    BY <2>1 DEF BatchUntouched, IsInjective
  <2>5. PendingUntouched' /\ NoWriteAheadWithoutCheckpoint' /\ AtMostOnce'
    BY <2>2 DEF PendingUntouched, NoWriteAheadWithoutCheckpoint, AtMostOnce
  <2>6. PendingCleared'
    BY <2>2 DEF PendingCleared, At, Past, Before
  <2> QED BY <2>3, <2>4, <2>5, <2>6
<1> QED BY <1>1, <1>2 DEF HostStep

LEMMA BatchFacts ==
  ASSUME TypeOK, todo # <<>>
  PROVE  /\ 1 \in DOMAIN todo /\ Head(todo) = todo[1]
         /\ \A i \in DOMAIN Tail(todo) :
              i + 1 \in DOMAIN todo /\ Tail(todo)[i] = todo[i + 1] /\ i + 1 # 1
         /\ DOMAIN Tail(todo) \subseteq Nat
  BY DEF TypeOK

(* The write-ahead of a call about to be executed.                         *)
LEMMA StartOnce ==
  ASSUME Durable, IInv, pc \in {"decide", "next"}, CheckpointToolStart(Head(todo)),
         UNCHANGED <<store, todo, outcome, op, issued, invoked>>
  PROVE  OnceInv'
<1> DEFINE c == Head(todo)
<1> USE DEF IInv, OnceInv
<1>1. todo # <<>>
  BY DEF HasHead, At
<1>2. c \in issued /\ c \in Calls
  BY <1>1, BatchFacts, HeadTailTypes DEF OnlyIssuedTouched
<1>3. mem \in Sessions /\ mem.ckpt = "running" /\ mem.pending = NoCall
  BY DEF TypeOK, PendingCleared, At, Past, Before
<1>4. SameMarks(mem) /\ mem'.wa = c /\ At' = "invoke" /\ pc' = "save"
  BY <1>3, ToolStartMarks
<1> HIDE DEF c
<1>5. OnlyIssuedTouched'
  BY <1>2, <1>4 DEF OnlyIssuedTouched, SameMarks
<1>6. BatchUntouched'
  BY DEF BatchUntouched
<1>7. PendingUntouched' /\ NoWriteAheadWithoutCheckpoint' /\ AtMostOnce'
  BY <1>3, <1>4 DEF PendingUntouched, NoWriteAheadWithoutCheckpoint, AtMostOnce, SameMarks
<1>8. PendingCleared'
  BY <1>3, <1>4 DEF PendingCleared, SameMarks, Past, Before
<1> QED BY <1>5, <1>6, <1>7, <1>8

(* A call leaves the batch answered without being executed.                *)
LEMMA SkipOnce ==
  ASSUME IInv, todo # <<>>, todo' = Tail(todo), UNCHANGED <<store, outcome, issued, invoked>>,
         SameMarks(mem), mem'.wa \in {mem.wa, NoCall}, pc # "parallel",
         PendingCleared'
  PROVE  OnceInv'
<1> USE DEF IInv, OnceInv, SameMarks
<1>1. OnlyIssuedTouched'
  BY BatchFacts DEF OnlyIssuedTouched
<1>2. BatchUntouched'
  BY BatchFacts DEF BatchUntouched, IsInjective
<1>3. PendingUntouched' /\ NoWriteAheadWithoutCheckpoint' /\ AtMostOnce'
  BY DEF PendingUntouched, NoWriteAheadWithoutCheckpoint, AtMostOnce
<1> QED BY <1>1, <1>2, <1>3

LEMMA HeadOnce == Durable /\ IInv /\ HeadStep => OnceInv'
<1> SUFFICES ASSUME Durable, IInv, HeadStep PROVE OnceInv'
  OBVIOUS
<1> USE DEF IInv, OnceInv
<1>1. CASE FetchCatalog \/ NothingToReconcile
  <2>1. PendingCleared'
    BY <1>1 DEF FetchCatalog, NothingToReconcile, GoTo, turnVars, PendingCleared, At, Past, Before
  <2> QED BY <1>1, <2>1, QuietOnce DEF FetchCatalog, NothingToReconcile, GoTo, turnVars, history
<1>2. CASE Reconcile
  <2> DEFINE c == mem.wa
  <2>1. c \in Calls /\ c \in issued /\ mem \in Sessions
    BY <1>2 DEF Reconcile, Interrupted, TypeOK, Sessions, CallIds, OnlyIssuedTouched
  <2>2. op = "run" /\ todo = <<>> /\ store.pending = NoCall /\ mem.pending = NoCall
    BY <1>2 DEF Reconcile, Interrupted, PendingCleared, At, Before, TypeOK
  <2>3. PICK status \in Answers :
           CheckpointStep(IF c \in Answered(mem) THEN mem ELSE Record(c, status), "input")
    BY <1>2 DEF Reconcile, Answers
  <2>4. /\ mem'.pending = NoCall /\ mem'.wa = NoCall /\ mem'.ckpt = mem.ckpt
        /\ At' = "input" /\ pc' \in {"save", "input"}
    <3> DEFINE t == IF c \in Answered(mem) THEN mem ELSE Record(c, status)
    <3>1. t \in Sessions /\ t.pending = NoCall /\ t.ckpt = mem.ckpt
      BY <2>1, <2>2, RecordType, AppendMarks DEF Record
    <3>2. "input" \in Places \ {"save"}
      BY DEF Places
    <3> HIDE DEF t
    <3>3. CheckpointStep(t, "input")
      BY <2>3 DEF t
    <3> QED BY <3>1, <3>2, <3>3, StepMarks DEF SameMarks
  <2>5. UNCHANGED <<store, todo, outcome, op, issued>>
    BY <1>2 DEF Reconcile, turnVars
  <2>6. \/ UNCHANGED invoked
        \/ c \in Idempotent /\ invoked' = [invoked EXCEPT ![c] = @ + 1]
    BY <1>2 DEF Reconcile, MayReexecute, CountInvocation
  <2> HIDE DEF c
  <2>7. OnlyIssuedTouched'
    BY <2>1, <2>4, <2>5, <2>6 DEF OnlyIssuedTouched, TypeOK
  <2>8. BatchUntouched'
    BY <1>2, <2>2, <2>4, <2>5 DEF BatchUntouched, Reconcile
  <2>9. PendingUntouched' /\ NoWriteAheadWithoutCheckpoint'
    BY <2>2, <2>4, <2>5 DEF PendingUntouched, NoWriteAheadWithoutCheckpoint
  <2>10. PendingCleared'
    BY <2>2, <2>4, <2>5 DEF PendingCleared, Past, Before
  <2>11. AtMostOnce'
    BY <2>6 DEF AtMostOnce, TypeOK
  <2> QED BY <2>7, <2>8, <2>9, <2>10, <2>11
<1>3. CASE BeginTurn
  <2> DEFINE s == IF op = "run" /\ ~resumed THEN AppendTo(mem, UserMessage) ELSE mem
  <2>1. s \in Sessions /\ s.pending = mem.pending /\ s.state = mem.state /\ s.ckpt = mem.ckpt
        /\ s.wa = mem.wa
    BY AppendMarks, AppendType, MessageTypes DEF TypeOK
  <2>2. /\ pc = "input"
        /\ IF s.ckpt = "running"
             THEN mem' = s /\ GoTo(IF op = "run" THEN "loop" ELSE "decide")
             ELSE SaveThen([s EXCEPT !.ckpt = "running", !.wa = NoCall],
                           IF op = "run" THEN "loop" ELSE "decide")
        /\ UNCHANGED <<store, todo, outcome, op, issued, invoked>>
    BY <1>3 DEF BeginTurn, turnVars, history
  <2> HIDE DEF s
  <2>3. /\ mem'.pending = mem.pending /\ mem'.state = mem.state /\ mem'.wa \in {mem.wa, NoCall}
        /\ mem'.ckpt = "running"
        /\ At' = IF op = "run" THEN "loop" ELSE "decide"
        /\ pc' \in {"save", At'}
    BY <2>1, <2>2 DEF SaveThen, GoTo, Sessions, At
  <2>4. PendingCleared'
    BY <2>2, <2>3 DEF PendingCleared, At, Past, Before, TypeOK
  <2>5. pc' # "parallel"
    BY <2>3
  <2> QED BY <2>2, <2>3, <2>4, <2>5, QuietOnce
<1>4. CASE ExecuteDecided
  BY <1>4, StartOnce DEF ExecuteDecided, turnVars, history
<1>5. CASE RejectDecided
  <2> DEFINE status == IF Known(Head(todo)) THEN "denied" ELSE "rejected"
  <2>1. todo # <<>> /\ pc = "decide" /\ mem \in Sessions /\ mem.ckpt = "running"
    BY <1>5 DEF RejectDecided, HasHead, PendingCleared, At, TypeOK
  <2>2. Record(Head(todo), status) \in Sessions /\ Record(Head(todo), status).ckpt = "running"
        /\ Record(Head(todo), status).pending = mem.pending
        /\ Record(Head(todo), status).state = mem.state
    BY <2>1, HeadTailTypes, RecordType, AppendMarks DEF Answers, Record
  <2>3. CheckpointStep(Record(Head(todo), status), "loop")
        /\ UNCHANGED <<store, outcome, op, issued, invoked>> /\ todo' = Tail(todo)
    BY <1>5 DEF RejectDecided, turnVars, history
  <2> HIDE DEF status
  <2>4. SameMarks(mem) /\ mem'.wa = NoCall /\ At' = "loop" /\ pc' = "save"
    BY <2>1, <2>2, <2>3, StepMarks DEF SameMarks, Places
  <2>5. PendingCleared'
    BY <2>1, <2>4 DEF PendingCleared, SameMarks, At, Past, Before
  <2> QED BY <2>1, <2>3, <2>4, <2>5, SkipOnce
<1> QED BY <1>1, <1>2, <1>3, <1>4, <1>5 DEF HeadStep

LEMMA LoopOnce == Durable /\ IInv /\ LoopStep => OnceInv'
<1> SUFFICES ASSUME Durable, IInv, LoopStep PROVE OnceInv'
  OBVIOUS
<1> USE DEF IInv, OnceInv
<1>1. ASSUME NEW why \in {"cancelled", "budget", "max_iterations"}, StopTurn(why)
      PROVE  OnceInv'
  <2>1. PendingCleared'
    BY <1>1 DEF StopTurn, GoTo, PendingCleared, At, Past, Before
  <2> QED BY <1>1, <2>1, QuietOnce DEF StopTurn, GoTo, turnVars, history
<1>2. CASE CallModel
  <2>1. PendingCleared'
    BY <1>2 DEF CallModel, GoTo, PendingCleared, At, Past, Before
  <2> QED BY <1>2, <2>1, QuietOnce DEF CallModel, GoTo, history
<1>3. CASE ModelFails \/ OutputInvalid
  BY <1>3, LeaveTurnOnce DEF ModelFails, OutputInvalid, FailTurn
<1>4. ASSUME NEW batch \in BoundedSeq(Calls \ issued, MaxBatch), ModelAnswers(batch)
      PROVE  OnceInv'
  <2> DEFINE s == AppendTo(mem, AssistantMessage(batch))
  <2>1. batch \in Seq(Calls) /\ \A i \in DOMAIN batch : batch[i] \in Calls \ issued
    BY BoundAssumption DEF BoundedSeq, SeqOf
  <2>2. mem \in Sessions /\ pc = "chat" /\ mem.ckpt = "running" /\ mem.pending = NoCall
    BY <1>4 DEF ModelAnswers, TypeOK, PendingCleared, At, Past
  <2>3. s \in Sessions /\ s.pending = mem.pending /\ s.state = mem.state /\ s.ckpt = mem.ckpt
    BY <2>1, <2>2, AppendType, AppendMarks, MessageTypes
  <2>4. /\ CheckpointStep(s, "answer") /\ IsInjective(batch) /\ todo' = batch
        /\ issued' = issued \cup ToSet(batch)
        /\ UNCHANGED <<store, outcome, op, invoked>>
    BY <1>4 DEF ModelAnswers, turnVars
  <2> HIDE DEF s
  <2>5. SameMarks(mem) /\ mem'.wa = NoCall /\ At' = "answer" /\ pc' = "save"
    BY <2>2, <2>3, <2>4, StepMarks DEF SameMarks, Places
  <2>6. OnlyIssuedTouched'
    BY <2>4, <2>5 DEF OnlyIssuedTouched, SameMarks, ToSet
  <2>7. BatchUntouched'
    BY <2>1, <2>2, <2>4 DEF BatchUntouched, OnlyIssuedTouched
  <2>8. PendingUntouched' /\ NoWriteAheadWithoutCheckpoint' /\ AtMostOnce'
    BY <2>4, <2>5 DEF PendingUntouched, NoWriteAheadWithoutCheckpoint, AtMostOnce, SameMarks
  <2>9. PendingCleared'
    BY <2>2, <2>5 DEF PendingCleared, SameMarks, Past, Before
  <2> QED BY <2>6, <2>7, <2>8, <2>9
<1>5. CASE FinalAnswer
  <2>1. PendingCleared'
    BY <1>5 DEF FinalAnswer, GoTo, PendingCleared, At, Past, Before
  <2> QED BY <1>5, <2>1, QuietOnce DEF FinalAnswer, GoTo, turnVars, history
<1>6. CASE DispatchBatch
  <2>1. PendingCleared'
    BY <1>6 DEF DispatchBatch, GoTo, turnVars, PendingCleared, At, Past, Before
  <2> QED BY <1>6, <2>1, QuietOnce DEF DispatchBatch, GoTo, turnVars, history
<1> QED BY <1>1, <1>2, <1>3, <1>4, <1>5, <1>6 DEF LoopStep

LEMMA ToolOnce == Durable /\ IInv /\ ToolStep => OnceInv'
<1> SUFFICES ASSUME Durable, IInv, ToolStep PROVE OnceInv'
  OBVIOUS
<1> USE DEF IInv, OnceInv
<1>1. ASSUME NEW status \in Answers, pc = "next", SkipHead(status)
      PROVE  OnceInv'
  <2>1. todo # <<>> /\ mem \in Sessions
    BY <1>1 DEF HasHead, At, TypeOK
  <2>2. /\ mem'.pending = mem.pending /\ mem'.state = mem.state /\ mem'.ckpt = mem.ckpt
        /\ mem'.wa = mem.wa
    BY <1>1, <2>1, AppendMarks DEF SkipHead, Record
  <2>3. PendingCleared'
    BY <1>1, <2>2 DEF SkipHead, GoTo, AfterCall, turnVars, PendingCleared, At, Past, Before
  <2> QED BY <1>1, <2>1, <2>2, <2>3, SkipOnce DEF SkipHead, turnVars, history, SameMarks
<1>2. CASE RejectCall
  BY <1>1, <1>2 DEF RejectCall, Answers
<1>3. CASE StartCall
  BY <1>3, StartOnce DEF StartCall, turnVars, history
<1>4. CASE HumanApproves
  BY <1>4, StartOnce DEF HumanApproves, AsksHuman, turnVars
<1>5. CASE HumanDenies
  BY <1>1, <1>5 DEF HumanDenies, AsksHuman, Answers
<1>6. CASE PauseForHuman
  <2> DEFINE c == Head(todo)
  <2>1. todo # <<>> /\ pc = "next" /\ mem \in Sessions
    BY <1>6 DEF PauseForHuman, AsksHuman, HasHead, At, TypeOK
  <2>2. c \in issued /\ c \in Calls /\ c = todo[1] /\ 1 \in DOMAIN todo
    BY <2>1, BatchFacts, HeadTailTypes DEF OnlyIssuedTouched
  <2>3. invoked[c] = 0
    BY <2>1, <2>2 DEF BatchUntouched, NoOutcome
  <2>4. /\ mem'.pending = c /\ mem'.state = "awaiting" /\ mem'.ckpt = mem.ckpt
        /\ mem'.wa = mem.wa
        /\ At' = "finish" /\ pc' = "save" /\ todo' = <<>>
        /\ UNCHANGED <<store, outcome, op, issued, invoked>>
    BY <1>6, <2>1 DEF PauseForHuman, SaveThen, At, turnVars, history, Sessions
  <2> HIDE DEF c
  <2>5. OnlyIssuedTouched'
    BY <2>2, <2>4 DEF OnlyIssuedTouched
  <2>6. BatchUntouched'
    BY <2>1, <2>4 DEF BatchUntouched, IsInjective
  <2>7. PendingUntouched' /\ NoWriteAheadWithoutCheckpoint' /\ AtMostOnce'
    BY <2>3, <2>4 DEF PendingUntouched, NoWriteAheadWithoutCheckpoint, AtMostOnce
  <2>8. PendingCleared'
    BY <2>4 DEF PendingCleared, Past, Before
  <2> QED BY <2>5, <2>6, <2>7, <2>8
<1>7. ASSUME NEW status \in {"ok", "error"}, InvokeTool(status)
      PROVE  OnceInv'
  <2> DEFINE c == Head(todo)
             next == AfterCall(Tail(todo))
  <2>1. todo # <<>> /\ pc = "invoke" /\ mem \in Sessions /\ mem.ckpt = "running"
        /\ mem.pending = NoCall /\ store.pending = NoCall
    BY <1>7 DEF InvokeTool, HasHead, At, TypeOK, PendingCleared, Past
  <2>2. c \in issued /\ c \in Calls /\ c = todo[1] /\ 1 \in DOMAIN todo
    BY <2>1, BatchFacts, HeadTailTypes DEF OnlyIssuedTouched
  <2>3. invoked[c] = 0 /\ outcome = NoOutcome
    BY <2>1, <2>2 DEF BatchUntouched, NoOutcome
  <2>4. Record(c, status) \in Sessions /\ Record(c, status).ckpt = "running"
        /\ Record(c, status).pending = mem.pending /\ Record(c, status).state = mem.state
    BY <2>1, <2>2, RecordType, AppendMarks DEF Answers, Record
  <2>5. next \in {"loop", "next"}
    BY DEF AfterCall
  <2>6. /\ CheckpointStep(Record(c, status), next) /\ todo' = Tail(todo)
        /\ invoked' = [invoked EXCEPT ![c] = @ + 1]
        /\ UNCHANGED <<store, outcome, op, issued>>
    BY <1>7 DEF InvokeTool, CountInvocation, turnVars
  <2> HIDE DEF c, next
  <2>7. SameMarks(mem) /\ mem'.wa = NoCall /\ At' = next /\ pc' = "save"
    BY <2>1, <2>4, <2>5, <2>6, StepMarks DEF SameMarks, Places
  <2>8. OnlyIssuedTouched'
    BY <2>1, <2>2, <2>6, <2>7, BatchFacts DEF OnlyIssuedTouched, SameMarks, TypeOK
  <2>9. BatchUntouched'
    <3>1. \A i \in DOMAIN todo' : todo'[i] # c
      BY <2>1, <2>2, <2>6, BatchFacts DEF BatchUntouched, IsInjective
    <3>2. \A i \in DOMAIN todo' : todo'[i] \in Calls /\ invoked[todo'[i]] = 0
      BY <2>1, <2>3, <2>6, BatchFacts DEF BatchUntouched, NoOutcome, TypeOK
    <3>3. \A i \in DOMAIN todo' : invoked'[todo'[i]] = 0
      BY <2>6, <3>1, <3>2 DEF TypeOK
    <3>4. IsInjective(todo')
      BY <2>1, <2>6, BatchFacts DEF BatchUntouched, IsInjective
    <3> QED BY <2>3, <2>6, <3>3, <3>4 DEF BatchUntouched, IsInjective, NoOutcome
  <2>10. PendingUntouched' /\ NoWriteAheadWithoutCheckpoint'
    BY <2>1, <2>6, <2>7 DEF PendingUntouched, NoWriteAheadWithoutCheckpoint, SameMarks
  <2>11. AtMostOnce'
    BY <2>2, <2>3, <2>6 DEF AtMostOnce, TypeOK
  <2>12. PendingCleared'
    BY <2>1, <2>5, <2>7 DEF PendingCleared, SameMarks, Past, Before
  <2> QED BY <2>8, <2>9, <2>10, <2>11, <2>12
<1>8. ASSUME NEW status \in {"ok", "error"}, NEW c \in Calls, ParallelInvoke(c, status)
      PROVE  OnceInv'
  <2>1. /\ pc = "parallel" /\ outcome[c] = "none" /\ \E i \in DOMAIN todo : todo[i] = c
        /\ invoked' = [invoked EXCEPT ![c] = @ + 1]
        /\ outcome' = [outcome EXCEPT ![c] = status]
        /\ UNCHANGED <<store, mem, pc, after, op, todo, issued>>
    BY <1>8 DEF ParallelInvoke, CountInvocation, ToSet
  <2>2. c \in issued /\ invoked[c] = 0
    BY <2>1 DEF OnlyIssuedTouched, BatchUntouched
  <2>3. mem.pending = NoCall /\ store.pending = NoCall
    BY <2>1 DEF PendingCleared, At, Past
  <2>4. OnlyIssuedTouched'
    BY <2>1, <2>2 DEF OnlyIssuedTouched, TypeOK
  <2>5. BatchUntouched'
    BY <2>1 DEF BatchUntouched, TypeOK
  <2>6. PendingUntouched' /\ NoWriteAheadWithoutCheckpoint'
    BY <2>1, <2>3 DEF PendingUntouched, NoWriteAheadWithoutCheckpoint
  <2>7. PendingCleared'
    BY <2>1 DEF PendingCleared, At
  <2>8. AtMostOnce'
    BY <2>1, <2>2 DEF AtMostOnce, TypeOK
  <2> QED BY <2>4, <2>5, <2>6, <2>7, <2>8
<1>9. CASE ParallelCollect
  <2> DEFINE s == [mem EXCEPT !.msgs = @ \o ParallelResults]
  <2>1. pc = "parallel" /\ mem \in Sessions /\ mem.ckpt = "running" /\ mem.pending = NoCall
    BY <1>9 DEF ParallelCollect, CollectAs, TypeOK, PendingCleared, At, Past
  <2>2. s.pending = mem.pending /\ s.state = mem.state /\ s.ckpt = mem.ckpt
    BY <2>1 DEF Sessions
  <2>3. s \in Sessions
    BY <1>9, CollectType
  <2>4. /\ CheckpointStep(s, "loop") /\ todo' = <<>> /\ outcome' = NoOutcome
        /\ UNCHANGED <<store, op, issued, invoked>>
    BY <1>9 DEF ParallelCollect, CollectAs, history
  <2> HIDE DEF s
  <2>5. SameMarks(mem) /\ mem'.wa = NoCall /\ At' = "loop" /\ pc' = "save"
    BY <2>1, <2>2, <2>3, <2>4, StepMarks DEF SameMarks, Places
  <2>6. OnlyIssuedTouched' /\ BatchUntouched'
    BY <2>4, <2>5 DEF OnlyIssuedTouched, BatchUntouched, IsInjective, SameMarks
  <2>7. PendingUntouched' /\ NoWriteAheadWithoutCheckpoint' /\ AtMostOnce'
    BY <2>4, <2>5 DEF PendingUntouched, NoWriteAheadWithoutCheckpoint, AtMostOnce, SameMarks
  <2>8. PendingCleared'
    BY <2>1, <2>5 DEF PendingCleared, SameMarks, Past, Before
  <2> QED BY <2>6, <2>7, <2>8
<1> QED BY <1>2, <1>3, <1>4, <1>5, <1>6, <1>7, <1>8, <1>9 DEF ToolStep

LEMMA EndOnce == Durable /\ IInv /\ EndStep => OnceInv'
<1> SUFFICES ASSUME Durable, IInv, EndStep PROVE OnceInv'
  OBVIOUS
<1> USE DEF IInv, OnceInv
<1>1. CASE FinishTurn
  <2>1. mem \in Sessions /\ pc = "finish"
    BY <1>1 DEF FinishTurn, TypeOK
  <2>2. /\ mem'.pending = mem.pending /\ mem'.state = mem.state /\ mem'.wa \in {mem.wa, NoCall}
        /\ mem'.ckpt = "none" => mem.ckpt = "none"
        /\ pc' = "save" /\ At' = "done"
    BY <1>1, <2>1 DEF FinishTurn, FinishCheckpoint, Checkpointing, SaveThen, At, Sessions
  <2>3. PendingCleared'
    BY <2>2 DEF PendingCleared, Past, Before
  <2> QED BY <1>1, <2>1, <2>2, <2>3, QuietOnce DEF FinishTurn, turnVars, history
<1>2. CASE SaveSession
  <2>1. /\ pc = "save" /\ store' = mem /\ pc' = after /\ after' = "idle" /\ after # "save"
        /\ UNCHANGED <<mem, todo, outcome, op, issued, invoked>>
    BY <1>2 DEF SaveSession, GoTo, turnVars, history, HasHead
  <2>2. OnlyIssuedTouched'
    BY <2>1 DEF OnlyIssuedTouched
  <2>3. BatchUntouched'
    BY <2>1 DEF BatchUntouched
  <2>4. PendingUntouched' /\ NoWriteAheadWithoutCheckpoint' /\ AtMostOnce'
    BY <2>1 DEF PendingUntouched, NoWriteAheadWithoutCheckpoint, AtMostOnce
  <2>5. PendingCleared'
    BY <2>1 DEF PendingCleared, At, Past, Before
  <2> QED BY <2>2, <2>3, <2>4, <2>5
<1>3. CASE SaveFails \/ Return
  BY <1>3, LeaveTurnOnce DEF SaveFails, Return, FailTurn
<1> QED BY <1>1, <1>2, <1>3 DEF EndStep

LEMMA InitOnce == Init => OnceInv
  BY DEF Init, OnceInv, OnlyIssuedTouched, BatchUntouched, IsInjective, PendingUntouched,
         NoWriteAheadWithoutCheckpoint, PendingCleared, AtMostOnce, NewSession, At, Past, Before

LEMMA NextOnce == Durable /\ IInv /\ [Next]_vars => IInv'
<1> SUFFICES ASSUME Durable, IInv, [Next]_vars PROVE IInv'
  OBVIOUS
<1>1. TypeOK' /\ HasHead'
  BY NextTypes DEF IInv
<1>2. CASE HostStep \/ EngineStep
  BY <1>1, <1>2, HostOnce, HeadOnce, LoopOnce, ToolOnce, EndOnce DEF EngineStep, IInv
<1>3. CASE Crash
  BY <1>1, <1>3, LeaveTurnOnce DEF Crash, IInv
<1>4. CASE UNCHANGED vars
  BY <1>1, <1>4 DEF vars, IInv, OnceInv, OnlyIssuedTouched, BatchUntouched, IsInjective,
                    PendingUntouched, NoWriteAheadWithoutCheckpoint, PendingCleared, AtMostOnce, At
<1> QED BY <1>2, <1>3, <1>4 DEF Next

(* With durability, for any calls, batches, host operations, failed saves  *)
(* and crashes, no tool that is not idempotent sees the same call twice.   *)
THEOREM AtMostOnceHolds == ASSUME Durable PROVE Spec => []AtMostOnce
<1>1. Init => IInv
  BY InitTypes, InitOnce DEF IInv
<1>2. IInv /\ [Next]_vars => IInv'
  BY NextOnce
<1>3. IInv => AtMostOnce
  BY DEF IInv, OnceInv
<1> QED BY <1>1, <1>2, <1>3, PTL DEF Spec
----------------------------------------------------------------------------
(* ApprovedBeforeInvoked.  No call that needs a human decision reaches its *)
(* tool without one, with or without durability, on the sequential, the    *)
(* parallel, the resumed and the reconciled path.                          *)

(* A write-ahead is made once the call may run, hence after its approval.  *)
WriteAheadApproved ==
  \A c \in Confirm : c \in {store.wa, mem.wa} => c \in approved

StartedApproved ==
  At = "invoke" /\ Head(todo) \in Confirm => Head(todo) \in approved

ParallelNeedsNobody ==
  At = "parallel" => \A i \in DOMAIN todo : todo[i] \notin Confirm

DecisionApproved ==
  At \in Before /\ op = "resolve" /\ approve => Head(todo) \in approved

ApprovalInv == WriteAheadApproved /\ StartedApproved /\ ParallelNeedsNobody
               /\ DecisionApproved /\ ApprovedBeforeInvoked

AInv == TypeOK /\ HasHead /\ ApprovalInv

(* A step that executes nothing, and leads to no place where something is  *)
(* about to be executed.                                                   *)
LEMMA QuietApproval ==
  ASSUME ApprovalInv, store' \in {store, mem}, UNCHANGED invoked,
         approved \subseteq approved', mem'.wa \in {mem.wa, store.wa, NoCall},
         At' \notin {"invoke", "parallel"},
         At' \in Before /\ op' = "resolve" => At \in Before /\ UNCHANGED <<op, approve, todo>>
  PROVE  ApprovalInv'
<1> USE DEF ApprovalInv
<1>1. WriteAheadApproved'
  BY ClassAssumption DEF WriteAheadApproved
<1>2. StartedApproved' /\ ParallelNeedsNobody'
  BY DEF StartedApproved, ParallelNeedsNobody
<1>3. DecisionApproved'
  BY DEF DecisionApproved
<1>4. ApprovedBeforeInvoked'
  BY DEF ApprovedBeforeInvoked
<1> QED BY <1>1, <1>2, <1>3, <1>4

LEMMA StartApproval ==
  ASSUME AInv, CheckpointToolStart(Head(todo)), UNCHANGED <<store, todo, invoked>>,
         approved \subseteq approved',
         Head(todo) \in Confirm => Head(todo) \in approved'
  PROVE  ApprovalInv'
<1> DEFINE c == Head(todo)
<1> USE DEF AInv, ApprovalInv
<1>1. mem'.wa \in {mem.wa, c} /\ At' = "invoke"
  BY DEF CheckpointToolStart, SaveCheckpoint, SaveThen, GoTo, At, TypeOK, Sessions
<1> HIDE DEF c
<1>2. c \in Confirm => c \in approved'
  BY DEF c
<1>3. WriteAheadApproved'
  BY <1>1, <1>2 DEF WriteAheadApproved
<1>4. StartedApproved'
  BY <1>2 DEF StartedApproved, c
<1>5. ParallelNeedsNobody' /\ DecisionApproved'
  BY <1>1 DEF ParallelNeedsNobody, DecisionApproved, Before
<1>6. ApprovedBeforeInvoked'
  BY DEF ApprovedBeforeInvoked
<1> QED BY <1>3, <1>4, <1>5, <1>6

LEMMA LeaveTurnApproval ==
  ASSUME ApprovalInv, NEW how, LeaveTurn(how), store' \in {store, mem}, UNCHANGED history
  PROVE  ApprovalInv'
<1>1. mem'.wa = NoCall /\ At' = "idle"
  BY DEF LeaveTurn, GoTo, At, NewSession
<1> QED BY <1>1, QuietApproval DEF history, Before

(* A checkpoint step of a session with the write-ahead of mem or none.     *)
LEMMA StepApproval ==
  ASSUME NEW s, s \in Sessions, NEW next, next # "save", CheckpointStep(s, next)
  PROVE  mem'.wa \in {s.wa, NoCall} /\ At' = next
  BY DEF CheckpointStep, SaveCheckpoint, SaveThen, GoTo, At, Sessions

LEMMA RecordWriteAhead ==
  ASSUME TypeOK, NEW c \in Calls, NEW status \in Answers
  PROVE  Record(c, status) \in Sessions /\ Record(c, status).wa = mem.wa
  BY RecordType, AppendMarks DEF Record, TypeOK

LEMMA HostApproval == AInv /\ HostStep => ApprovalInv'
<1> SUFFICES ASSUME AInv, HostStep PROVE ApprovalInv'
  OBVIOUS
<1> USE DEF AInv
<1>1. CASE Run
  <2>1. At' \notin {"invoke", "parallel"} /\ op' = "run" /\ mem' = store
        /\ UNCHANGED <<store, invoked, approved>>
    BY <1>1 DEF Run, BeginOperation, GoTo, At
  <2> QED BY <2>1, QuietApproval
<1>2. ASSUME NEW decision \in BOOLEAN, ResolveConfirmation(decision)
      PROVE  ApprovalInv'
  <2> DEFINE c == store.pending
  <2>1. /\ mem'.wa \in {store.wa, NoCall} /\ At' = "catalog" /\ todo' = <<c>> /\ approve' = decision
        /\ approved' = IF decision THEN approved \cup {c} ELSE approved
        /\ UNCHANGED <<store, invoked>>
    BY <1>2 DEF ResolveConfirmation, ResumedSession, BeginOperation, GoTo, At, TypeOK, Sessions
  <2> HIDE DEF c
  <2>2. WriteAheadApproved'
    BY <2>1, ClassAssumption DEF ApprovalInv, WriteAheadApproved
  <2>3. StartedApproved' /\ ParallelNeedsNobody'
    BY <2>1 DEF StartedApproved, ParallelNeedsNobody
  <2>4. DecisionApproved'
    BY <2>1 DEF DecisionApproved
  <2>5. ApprovedBeforeInvoked'
    BY <2>1 DEF ApprovalInv, ApprovedBeforeInvoked
  <2> QED BY <2>2, <2>3, <2>4, <2>5 DEF ApprovalInv
<1> QED BY <1>1, <1>2 DEF HostStep

LEMMA HeadApproval == AInv /\ HeadStep => ApprovalInv'
<1> SUFFICES ASSUME AInv, HeadStep PROVE ApprovalInv'
  OBVIOUS
<1> USE DEF AInv
<1>1. CASE FetchCatalog \/ NothingToReconcile
  <2>1. At \in Before /\ At' \in Before /\ UNCHANGED <<store, mem, invoked, approved, op, approve, todo>>
    BY <1>1 DEF FetchCatalog, NothingToReconcile, GoTo, At, Before, turnVars, history
  <2> QED BY <2>1, QuietApproval DEF Before
<1>2. CASE Reconcile
  <2> DEFINE c == mem.wa
  <2>1. c \in Calls /\ mem \in Sessions
    BY <1>2 DEF Reconcile, Interrupted, TypeOK, Sessions, CallIds
  <2>2. PICK status \in Answers :
           CheckpointStep(IF c \in Answered(mem) THEN mem ELSE Record(c, status), "input")
    BY <1>2 DEF Reconcile, Answers
  <2>3. mem'.wa \in {c, NoCall} /\ At' = "input"
    BY <2>1, <2>2, StepApproval, RecordWriteAhead
  <2>4. /\ UNCHANGED <<store, todo, op, approve, approved>>
        /\ UNCHANGED invoked \/ invoked' = [invoked EXCEPT ![c] = @ + 1]
        /\ At \in Before
    BY <1>2 DEF Reconcile, turnVars, CountInvocation, At, Before
  <2>5. c \in Confirm => c \in approved
    BY DEF ApprovalInv, WriteAheadApproved
  <2> HIDE DEF c
  <2>6. WriteAheadApproved'
    BY <2>3, <2>4, <2>5, ClassAssumption DEF ApprovalInv, WriteAheadApproved
  <2>7. StartedApproved' /\ ParallelNeedsNobody' /\ DecisionApproved'
    BY <2>3, <2>4 DEF ApprovalInv, StartedApproved, ParallelNeedsNobody, DecisionApproved
  <2>8. ApprovedBeforeInvoked'
    BY <2>4, <2>5, ClassAssumption DEF ApprovalInv, ApprovedBeforeInvoked, TypeOK
  <2> QED BY <2>6, <2>7, <2>8 DEF ApprovalInv
<1>3. CASE BeginTurn
  <2> DEFINE s == IF op = "run" /\ ~resumed THEN AppendTo(mem, UserMessage) ELSE mem
  <2>1. s \in Sessions /\ s.wa = mem.wa
    BY AppendMarks, AppendType, MessageTypes DEF TypeOK
  <2>2. /\ pc = "input"
        /\ \/ mem' = s /\ GoTo(IF op = "run" THEN "loop" ELSE "decide")
           \/ SaveThen([s EXCEPT !.ckpt = "running", !.wa = NoCall],
                       IF op = "run" THEN "loop" ELSE "decide")
        /\ UNCHANGED <<store, todo, op, approve, invoked, approved>>
    BY <1>3 DEF BeginTurn, turnVars, history
  <2> HIDE DEF s
  <2>3. mem'.wa \in {mem.wa, NoCall} /\ At' \in {"loop", "decide"} /\ At \in Before
    BY <2>1, <2>2 DEF SaveThen, GoTo, Sessions, At, Before
  <2> QED BY <2>2, <2>3, QuietApproval
<1>4. CASE ExecuteDecided
  <2>1. Head(todo) \in approved
    BY <1>4 DEF ExecuteDecided, HasHead, At, Before, ApprovalInv, DecisionApproved
  <2> QED BY <1>4, <2>1, StartApproval DEF ExecuteDecided, history
<1>5. CASE RejectDecided
  <2>1. Head(todo) \in Calls
    BY <1>5, HeadTailTypes DEF RejectDecided, HasHead, At
  <2>2. PICK status \in Answers : CheckpointStep(Record(Head(todo), status), "loop")
    BY <1>5 DEF RejectDecided, Answers
  <2>3. mem'.wa \in {mem.wa, NoCall} /\ At' = "loop"
    BY <2>1, <2>2, StepApproval, RecordWriteAhead
  <2> QED BY <1>5, <2>3, QuietApproval DEF RejectDecided, history, Before
<1> QED BY <1>1, <1>2, <1>3, <1>4, <1>5 DEF HeadStep

LEMMA LoopApproval == AInv /\ LoopStep => ApprovalInv'
<1> SUFFICES ASSUME AInv, LoopStep PROVE ApprovalInv'
  OBVIOUS
<1> USE DEF AInv
<1>1. ASSUME NEW why \in {"cancelled", "budget", "max_iterations"}, StopTurn(why)
      PROVE  ApprovalInv'
  <2>1. At' = "finish" /\ UNCHANGED <<store, mem, invoked, approved>>
    BY <1>1 DEF StopTurn, GoTo, At, history
  <2> QED BY <2>1, QuietApproval DEF Before
<1>2. CASE CallModel \/ FinalAnswer
  <2>1. At' \in {"chat", "finish"} /\ UNCHANGED <<store, mem, invoked, approved>>
    BY <1>2 DEF CallModel, FinalAnswer, GoTo, At, history
  <2> QED BY <2>1, QuietApproval DEF Before
<1>3. CASE ModelFails \/ OutputInvalid
  BY <1>3, LeaveTurnApproval DEF ModelFails, OutputInvalid, FailTurn
<1>4. ASSUME NEW batch \in BoundedSeq(Calls \ issued, MaxBatch), ModelAnswers(batch)
      PROVE  ApprovalInv'
  <2>1. batch \in Seq(Calls)
    BY BoundAssumption DEF BoundedSeq, SeqOf
  <2>2. /\ AppendTo(mem, AssistantMessage(batch)) \in Sessions
        /\ AppendTo(mem, AssistantMessage(batch)).wa = mem.wa
    BY <2>1, AppendType, AppendMarks, MessageTypes DEF TypeOK
  <2>3. mem'.wa \in {mem.wa, NoCall} /\ At' = "answer"
    BY <1>4, <2>2, StepApproval DEF ModelAnswers
  <2> QED BY <1>4, <2>3, QuietApproval DEF ModelAnswers, Before
<1>5. CASE DispatchBatch
  <2>1. At' = (IF PlanParallel(todo) THEN "parallel" ELSE "next")
        /\ UNCHANGED <<store, mem, todo, invoked, approved>>
    BY <1>5 DEF DispatchBatch, GoTo, At, history
  <2>2. CASE PlanParallel(todo)
    <3>1. \A i \in DOMAIN todo : todo[i] \notin Confirm
      BY <2>2 DEF PlanParallel
    <3> QED BY <2>1, <2>2, <3>1 DEF ApprovalInv, WriteAheadApproved, StartedApproved,
               ParallelNeedsNobody, DecisionApproved, ApprovedBeforeInvoked, Before
  <2>3. CASE ~PlanParallel(todo)
    BY <2>1, <2>3, QuietApproval DEF Before
  <2> QED BY <2>2, <2>3
<1> QED BY <1>1, <1>2, <1>3, <1>4, <1>5 DEF LoopStep

LEMMA ToolApproval == AInv /\ ToolStep => ApprovalInv'
<1> SUFFICES ASSUME AInv, ToolStep PROVE ApprovalInv'
  OBVIOUS
<1> USE DEF AInv
<1>1. ASSUME NEW status \in Answers, pc = "next", SkipHead(status)
      PROVE  ApprovalInv'
  <2>1. Head(todo) \in Calls
    BY <1>1, HeadTailTypes DEF HasHead, At
  <2>2. At' \in {"loop", "next"} /\ mem'.wa = mem.wa /\ UNCHANGED <<store, invoked, approved>>
    BY <1>1, <2>1, RecordWriteAhead DEF SkipHead, GoTo, AfterCall, At, history
  <2> QED BY <2>2, QuietApproval DEF Before
<1>2. CASE RejectCall
  BY <1>1, <1>2 DEF RejectCall, Answers
<1>3. CASE StartCall
  BY <1>3, StartApproval DEF StartCall, history
<1>4. CASE HumanApproves
  BY <1>4, StartApproval DEF HumanApproves, AsksHuman
<1>5. CASE HumanDenies
  BY <1>1, <1>5 DEF HumanDenies, AsksHuman, Answers
<1>6. CASE PauseForHuman
  <2>1. At' = "finish" /\ mem'.wa = mem.wa /\ UNCHANGED <<store, invoked, approved>>
    BY <1>6 DEF PauseForHuman, SaveThen, At, TypeOK, Sessions, history
  <2> QED BY <2>1, QuietApproval DEF Before
<1>7. ASSUME NEW status \in {"ok", "error"}, InvokeTool(status)
      PROVE  ApprovalInv'
  <2> DEFINE c == Head(todo)
  <2>1. c \in Calls
    BY <1>7, HeadTailTypes DEF InvokeTool, HasHead, At
  <2>2. AfterCall(Tail(todo)) \in {"loop", "next"}
    BY DEF AfterCall
  <2>3. mem'.wa \in {mem.wa, NoCall} /\ At' \in {"loop", "next"}
    BY <1>7, <2>1, <2>2, StepApproval, RecordWriteAhead DEF InvokeTool, Answers
  <2>4. UNCHANGED <<store, approved>> /\ invoked' = [invoked EXCEPT ![c] = @ + 1]
    BY <1>7 DEF InvokeTool, CountInvocation
  <2>5. c \in Confirm => c \in approved
    BY <1>7 DEF InvokeTool, At, ApprovalInv, StartedApproved
  <2> HIDE DEF c
  <2>6. WriteAheadApproved'
    BY <2>3, <2>4, ClassAssumption DEF ApprovalInv, WriteAheadApproved
  <2>7. StartedApproved' /\ ParallelNeedsNobody' /\ DecisionApproved'
    BY <2>3 DEF StartedApproved, ParallelNeedsNobody, DecisionApproved, Before
  <2>8. ApprovedBeforeInvoked'
    BY <2>4, <2>5, ClassAssumption DEF ApprovalInv, ApprovedBeforeInvoked, TypeOK
  <2> QED BY <2>6, <2>7, <2>8 DEF ApprovalInv
<1>8. ASSUME NEW status \in {"ok", "error"}, NEW c \in Calls, ParallelInvoke(c, status)
      PROVE  ApprovalInv'
  <2>1. /\ At = "parallel" /\ \E i \in DOMAIN todo : todo[i] = c
        /\ invoked' = [invoked EXCEPT ![c] = @ + 1]
        /\ UNCHANGED <<store, mem, pc, after, op, approve, todo, approved>>
    BY <1>8 DEF ParallelInvoke, CountInvocation, ToSet, At
  <2>2. c \notin Confirm
    BY <2>1 DEF ApprovalInv, ParallelNeedsNobody
  <2>3. WriteAheadApproved' /\ StartedApproved' /\ ParallelNeedsNobody' /\ DecisionApproved'
    BY <2>1 DEF ApprovalInv, WriteAheadApproved, StartedApproved, ParallelNeedsNobody,
                DecisionApproved, At
  <2>4. ApprovedBeforeInvoked'
    BY <2>1, <2>2, ClassAssumption DEF ApprovalInv, ApprovedBeforeInvoked, TypeOK
  <2> QED BY <2>3, <2>4 DEF ApprovalInv
<1>9. CASE ParallelCollect
  <2> DEFINE s == [mem EXCEPT !.msgs = @ \o ParallelResults]
  <2>1. s \in Sessions /\ s.wa = mem.wa
    BY <1>9, CollectType DEF TypeOK, Sessions
  <2>2. CheckpointStep(s, "loop") /\ UNCHANGED <<store, invoked, approved>>
    BY <1>9 DEF ParallelCollect, CollectAs, history
  <2> HIDE DEF s
  <2>3. mem'.wa \in {mem.wa, NoCall} /\ At' = "loop"
    BY <2>1, <2>2, StepApproval
  <2> QED BY <2>2, <2>3, QuietApproval DEF Before
<1> QED BY <1>2, <1>3, <1>4, <1>5, <1>6, <1>7, <1>8, <1>9 DEF ToolStep

LEMMA EndApproval == AInv /\ EndStep => ApprovalInv'
<1> SUFFICES ASSUME AInv, EndStep PROVE ApprovalInv'
  OBVIOUS
<1> USE DEF AInv
<1>1. CASE FinishTurn
  <2>1. At' = "done" /\ mem'.wa \in {mem.wa, NoCall} /\ UNCHANGED <<store, invoked, approved>>
    BY <1>1 DEF FinishTurn, FinishCheckpoint, SaveThen, At, TypeOK, Sessions, history
  <2> QED BY <2>1, QuietApproval DEF Before
<1>2. CASE SaveSession
  <2>1. /\ At' = At /\ store' = mem
        /\ UNCHANGED <<mem, todo, op, approve, invoked, approved>>
    BY <1>2 DEF SaveSession, GoTo, At, HasHead, turnVars, history
  <2> QED BY <2>1 DEF ApprovalInv, WriteAheadApproved, StartedApproved, ParallelNeedsNobody,
                      DecisionApproved, ApprovedBeforeInvoked
<1>3. CASE SaveFails \/ Return
  BY <1>3, LeaveTurnApproval DEF SaveFails, Return, FailTurn
<1> QED BY <1>1, <1>2, <1>3 DEF EndStep

LEMMA InitApproval == Init => ApprovalInv
  BY ClassAssumption DEF Init, ApprovalInv, WriteAheadApproved, StartedApproved,
     ParallelNeedsNobody, DecisionApproved, ApprovedBeforeInvoked, NewSession, At, Before

LEMMA NextApproval == AInv /\ [Next]_vars => AInv'
<1> SUFFICES ASSUME AInv, [Next]_vars PROVE AInv'
  OBVIOUS
<1>1. TypeOK' /\ HasHead'
  BY NextTypes DEF AInv
<1>2. CASE HostStep \/ EngineStep
  BY <1>1, <1>2, HostApproval, HeadApproval, LoopApproval, ToolApproval, EndApproval
  DEF EngineStep, AInv
<1>3. CASE Crash
  BY <1>1, <1>3, LeaveTurnApproval DEF Crash, AInv
<1>4. CASE UNCHANGED vars
  BY <1>1, <1>4 DEF vars, AInv, ApprovalInv, WriteAheadApproved, StartedApproved,
                    ParallelNeedsNobody, DecisionApproved, ApprovedBeforeInvoked, At
<1> QED BY <1>2, <1>3, <1>4 DEF Next

(* For any calls and any configuration, a call the policy submits to a     *)
(* human reaches its tool only after an approval, whatever pauses, crashes,*)
(* resumptions and reconciliations lie between the two.                    *)
THEOREM ApprovalRequired == Spec => []ApprovedBeforeInvoked
<1>1. Init => AInv
  BY InitTypes, InitApproval DEF AInv
<1>2. AInv /\ [Next]_vars => AInv'
  BY NextApproval
<1>3. AInv => ApprovedBeforeInvoked
  BY DEF AInv, ApprovalInv
<1> QED BY <1>1, <1>2, <1>3, PTL DEF Spec
----------------------------------------------------------------------------
(* EffectsAccountedFor.  With durability and sequential tools the store    *)
(* always knows of every effect: the call is answered in it, or it is its  *)
(* write-ahead.                                                            *)

(* The session of a running turn accounts for the effects just as well,    *)
(* so that a save loses nothing.                                           *)
MemAccounts ==
  pc # "idle" => \A c \in Calls : invoked[c] > 0 => c \in Answered(mem) \cup {mem.wa}

(* The write-ahead exists from its save to the result, and is the call in  *)
(* progress; a turn that has not saved yet works on what the store holds.  *)
WriteAheadInProgress ==
  /\ At = "invoke" => mem.wa = Head(todo)
  /\ pc = "invoke" => store.wa = mem.wa
  /\ At \notin {"catalog", "reconcile", "invoke"} => mem.wa = NoCall
  /\ At \in {"catalog", "reconcile"} => pc # "save" /\ (op = "run" => mem = store)

(* A session that awaits a confirmation has no call in progress.           *)
PauseHasNoWriteAhead ==
  /\ store.state = "awaiting" => store.wa = NoCall
  /\ mem.state = "awaiting" => mem.wa = NoCall
  /\ At \in Past \cup Before => mem.state = "active"

NoParallelPath == At # "parallel"

AccountInv == EffectsAccountedFor /\ MemAccounts /\ WriteAheadInProgress
              /\ PauseHasNoWriteAhead /\ NoParallelPath

CInv == IInv /\ AccountInv

LEMMA AnsweredByAppend ==
  ASSUME NEW s \in Sessions, NEW m \in Messages
  PROVE  Answered(AppendTo(s, m)) = (Answered(s) \cup {m.call}) \ {NoCall}
<1> DEFINE t == AppendTo(s, m)
<1>1. /\ t.msgs = Append(s.msgs, m) /\ s.msgs \in Seq(Messages)
  BY DEF AppendTo, Sessions
<1>2. /\ DOMAIN t.msgs = DOMAIN s.msgs \cup {Len(s.msgs) + 1}
      /\ \A i \in DOMAIN s.msgs : t.msgs[i] = s.msgs[i]
      /\ t.msgs[Len(s.msgs) + 1] = m
  BY <1>1
<1> HIDE DEF t
<1>3. Answered(t) = (Answered(s) \cup {m.call}) \ {NoCall}
  BY <1>2 DEF Answered
<1> QED BY <1>3 DEF t

LEMMA AnsweredByRecord ==
  ASSUME TypeOK, NEW c \in Calls, NEW status \in Answers
  PROVE  Answered(Record(c, status)) = Answered(mem) \cup {c}
<1>1. ToolMessage(c, status) \in Messages /\ ToolMessage(c, status).call = c /\ mem \in Sessions
  BY MessageTypes DEF ToolMessage, TypeOK
<1> QED BY <1>1, AnsweredByAppend, ClassAssumption DEF Record, Answered

LEMMA AnsweredByMarks ==
  ASSUME NEW s, NEW t, s.msgs = t.msgs
  PROVE  Answered(s) = Answered(t)
  BY DEF Answered

(* What a saved or an unsaved control step leaves of the history.          *)
LEMMA StepHistory ==
  ASSUME NEW s \in Sessions, NEW next, CheckpointStep(s, next)
  PROVE  mem'.msgs = s.msgs
  BY DEF CheckpointStep, SaveCheckpoint, SaveThen, Sessions

(* A step that executes nothing, saves nothing and keeps the history.      *)
LEMMA QuietAccount ==
  ASSUME CInv, UNCHANGED <<store, invoked>>, pc # "idle",
         Answered(mem) \subseteq Answered(mem'),
         mem.wa = NoCall, mem'.wa = NoCall, mem'.state = mem.state,
         At' \notin {"catalog", "reconcile", "invoke", "parallel"}, pc' # "invoke",
         At' \in Past \cup Before => At \in Past \cup Before
  PROVE  AccountInv'
<1> USE DEF CInv, AccountInv
<1>1. EffectsAccountedFor'
  BY DEF EffectsAccountedFor, Answered
<1>2. MemAccounts'
  BY ClassAssumption DEF MemAccounts
<1>3. WriteAheadInProgress'
  BY DEF WriteAheadInProgress
<1>4. PauseHasNoWriteAhead'
  BY DEF PauseHasNoWriteAhead
<1> QED BY <1>1, <1>2, <1>3, <1>4 DEF NoParallelPath

LEMMA LeaveTurnAccount ==
  ASSUME CInv, pc # "idle", NEW how, LeaveTurn(how), store' \in {store, mem}, UNCHANGED history
  PROVE  AccountInv'
<1> USE DEF CInv, AccountInv
<1>1. /\ pc' = "idle" /\ At' = "idle" /\ mem' = NewSession /\ mem'.wa = NoCall
      /\ mem'.state = "active" /\ UNCHANGED invoked
  BY DEF LeaveTurn, GoTo, At, NewSession, history
<1>2. EffectsAccountedFor'
  BY <1>1 DEF EffectsAccountedFor, MemAccounts, Answered
<1>3. MemAccounts' /\ WriteAheadInProgress' /\ NoParallelPath'
  BY <1>1 DEF MemAccounts, WriteAheadInProgress, NoParallelPath
<1>4. PauseHasNoWriteAhead'
  BY <1>1 DEF PauseHasNoWriteAhead, Past, Before
<1> QED BY <1>2, <1>3, <1>4

(* The write-ahead of a call about to be executed.                         *)
LEMMA StartAccount ==
  ASSUME Durable, CInv, pc \in {"decide", "next"}, CheckpointToolStart(Head(todo)),
         UNCHANGED <<store, todo, invoked>>
  PROVE  AccountInv'
<1> DEFINE c == Head(todo)
<1> USE DEF CInv, AccountInv
<1>1. mem \in Sessions /\ mem.ckpt = "running" /\ mem.wa = NoCall /\ mem.state = "active"
  BY DEF IInv, OnceInv, TypeOK, PendingCleared, WriteAheadInProgress, PauseHasNoWriteAhead,
         At, Past, Before
<1>2. SameMarks(mem) /\ mem'.wa = c /\ At' = "invoke" /\ pc' = "save"
  BY <1>1, ToolStartMarks
<1>3. mem'.msgs = mem.msgs
  BY <1>1 DEF CheckpointToolStart, SaveCheckpoint, SaveThen, Sessions
<1> HIDE DEF c
<1>4. EffectsAccountedFor'
  BY DEF EffectsAccountedFor, Answered
<1>5. MemAccounts'
  BY <1>1, <1>2, <1>3, AnsweredByMarks, ClassAssumption DEF MemAccounts
<1>6. WriteAheadInProgress' /\ NoParallelPath'
  BY <1>2 DEF WriteAheadInProgress, NoParallelPath, c
<1>7. PauseHasNoWriteAhead'
  BY <1>1, <1>2 DEF PauseHasNoWriteAhead, SameMarks
<1> QED BY <1>4, <1>5, <1>6, <1>7

LEMMA HostAccount == Durable /\ CInv /\ HostStep => AccountInv'
<1> SUFFICES ASSUME Durable, CInv, HostStep PROVE AccountInv'
  OBVIOUS
<1> USE DEF CInv, AccountInv
<1>1. CASE Run
  <2>1. /\ At' = "catalog" /\ pc' = "catalog" /\ op' = "run" /\ mem' = store
        /\ UNCHANGED <<store, invoked>> /\ store.state # "awaiting" /\ store \in Sessions
    BY <1>1 DEF Run, BeginOperation, GoTo, At, IInv, TypeOK
  <2>2. EffectsAccountedFor' /\ MemAccounts'
    BY <2>1 DEF EffectsAccountedFor, MemAccounts, Answered
  <2>3. WriteAheadInProgress' /\ NoParallelPath'
    BY <2>1 DEF WriteAheadInProgress, NoParallelPath
  <2>4. PauseHasNoWriteAhead'
    BY <2>1 DEF PauseHasNoWriteAhead, Sessions
  <2> QED BY <2>2, <2>3, <2>4
<1>2. ASSUME NEW decision \in BOOLEAN, ResolveConfirmation(decision)
      PROVE  AccountInv'
  <2>1. /\ At' = "catalog" /\ pc' = "catalog" /\ op' = "resolve" /\ mem' = ResumedSession(store)
        /\ UNCHANGED <<store, invoked>> /\ store.state = "awaiting" /\ store \in Sessions
    BY <1>2 DEF ResolveConfirmation, BeginOperation, GoTo, At, IInv, TypeOK
  <2>2. store.wa = NoCall
    BY <2>1 DEF PauseHasNoWriteAhead
  <2>3. mem'.wa = NoCall /\ mem'.state = "active" /\ mem'.msgs = store.msgs
    BY <2>1, <2>2 DEF ResumedSession, Sessions
  <2>4. EffectsAccountedFor'
    BY <2>1 DEF EffectsAccountedFor, Answered
  <2>5. MemAccounts'
    BY <2>1, <2>2, <2>3, AnsweredByMarks, ClassAssumption DEF EffectsAccountedFor, MemAccounts
  <2>6. WriteAheadInProgress' /\ NoParallelPath'
    BY <2>1, <2>3 DEF WriteAheadInProgress, NoParallelPath
  <2>7. PauseHasNoWriteAhead'
    BY <2>1, <2>3 DEF PauseHasNoWriteAhead
  <2> QED BY <2>4, <2>5, <2>6, <2>7
<1> QED BY <1>1, <1>2 DEF HostStep

LEMMA HeadAccount == Durable /\ CInv /\ HeadStep => AccountInv'
<1> SUFFICES ASSUME Durable, CInv, HeadStep PROVE AccountInv'
  OBVIOUS
<1> USE DEF CInv, AccountInv
<1>1. CASE FetchCatalog
  <2>1. pc = "catalog" /\ pc' = "reconcile" /\ At = "catalog" /\ At' = "reconcile"
        /\ UNCHANGED <<store, mem, invoked, op>>
    BY <1>1 DEF FetchCatalog, GoTo, At, history
  <2>2. EffectsAccountedFor' /\ MemAccounts'
    BY <2>1 DEF EffectsAccountedFor, MemAccounts, Answered
  <2>3. WriteAheadInProgress' /\ NoParallelPath' /\ PauseHasNoWriteAhead'
    BY <2>1 DEF WriteAheadInProgress, NoParallelPath, PauseHasNoWriteAhead, Before
  <2> QED BY <2>2, <2>3
<1>2. CASE NothingToReconcile
  <2>1. pc = "reconcile" /\ pc' = "input" /\ At = "reconcile" /\ At' = "input"
        /\ UNCHANGED <<store, mem, invoked>>
    BY <1>2 DEF NothingToReconcile, GoTo, At, history
  <2>2. mem.wa = NoCall
    BY <1>2 DEF NothingToReconcile, Interrupted, Checkpointing, IInv, OnceInv,
                NoWriteAheadWithoutCheckpoint
  <2> QED BY <2>1, <2>2, QuietAccount DEF Past, Before
<1>3. CASE Reconcile
  <2> DEFINE c == mem.wa
  <2>1. c \in Calls /\ mem \in Sessions /\ pc = "reconcile" /\ At = "reconcile"
    BY <1>3 DEF Reconcile, Interrupted, IInv, TypeOK, Sessions, CallIds, At
  <2>2. op = "run" /\ store.wa = c /\ mem.state = "active"
    BY <2>1, <1>3 DEF Reconcile, Interrupted, IInv, OnceInv, PendingCleared, TypeOK,
                      WriteAheadInProgress, PauseHasNoWriteAhead, Before
  <2>3. PICK status \in Answers :
           CheckpointStep(IF c \in Answered(mem) THEN mem ELSE Record(c, status), "input")
    BY <1>3 DEF Reconcile, Answers
  <2> DEFINE t == IF c \in Answered(mem) THEN mem ELSE Record(c, status)
  <2>4. t \in Sessions /\ t.state = mem.state /\ Answered(t) = Answered(mem) \cup {c}
    BY <2>1, RecordType, AppendMarks, AnsweredByRecord DEF IInv, Record
  <2>5. UNCHANGED store /\ (UNCHANGED invoked \/ invoked' = [invoked EXCEPT ![c] = @ + 1])
    BY <1>3 DEF Reconcile, CountInvocation
  <2>6. CheckpointStep(t, "input")
    BY <2>3
  <2> HIDE DEF c, t
  <2>7. mem'.wa = NoCall /\ mem'.state = "active" /\ mem'.msgs = t.msgs /\ At' = "input"
        /\ pc' \in {"save", "input"}
    BY <2>2, <2>4, <2>6, StepMarks, StepHistory DEF SameMarks, Places
  <2>8. EffectsAccountedFor'
    BY <2>1, <2>2, <2>5 DEF EffectsAccountedFor, IInv, TypeOK, Answered
  <2>9. MemAccounts'
    <3>1. Answered(mem') = Answered(mem) \cup {c}
      BY <2>4, <2>7, AnsweredByMarks
    <3> QED BY <2>1, <2>5, <3>1 DEF MemAccounts, IInv, TypeOK, c
  <2>10. WriteAheadInProgress' /\ NoParallelPath'
    BY <2>7 DEF WriteAheadInProgress, NoParallelPath
  <2>11. PauseHasNoWriteAhead'
    BY <2>5, <2>7 DEF PauseHasNoWriteAhead
  <2> QED BY <2>8, <2>9, <2>10, <2>11
<1>4. CASE BeginTurn
  <2> DEFINE s == IF op = "run" /\ ~resumed THEN AppendTo(mem, UserMessage) ELSE mem
  <2>1. mem \in Sessions /\ UserMessage \in Messages /\ UserMessage.call = NoCall
    BY MessageTypes DEF IInv, TypeOK, UserMessage
  <2>2. s \in Sessions /\ s.state = mem.state /\ s.wa = mem.wa /\ Answered(mem) \subseteq Answered(s)
    BY <2>1, AppendMarks, AppendType, AnsweredByAppend DEF Answered
  <2>3. /\ pc = "input" /\ At = "input"
        /\ \/ mem' = s /\ GoTo(IF op = "run" THEN "loop" ELSE "decide")
           \/ SaveThen([s EXCEPT !.ckpt = "running", !.wa = NoCall],
                       IF op = "run" THEN "loop" ELSE "decide")
        /\ UNCHANGED <<store, invoked>>
    BY <1>4 DEF BeginTurn, history, At
  <2>4. mem.wa = NoCall
    BY <2>3 DEF WriteAheadInProgress
  <2> HIDE DEF s
  <2>5. /\ mem'.wa = NoCall /\ mem'.state = mem.state /\ mem'.msgs = s.msgs
        /\ At' \in {"loop", "decide"} /\ pc' \in {"save", "loop", "decide"}
    BY <2>2, <2>3, <2>4 DEF SaveThen, GoTo, Sessions, At
  <2>6. Answered(mem) \subseteq Answered(mem')
    BY <2>2, <2>5, AnsweredByMarks
  <2> QED BY <2>3, <2>4, <2>5, <2>6, QuietAccount DEF Past, Before
<1>5. CASE ExecuteDecided
  BY <1>5, StartAccount DEF ExecuteDecided, history
<1>6. CASE RejectDecided
  <2>1. pc = "decide" /\ At = "decide" /\ mem \in Sessions /\ mem.wa = NoCall
    BY <1>6 DEF RejectDecided, At, IInv, TypeOK, WriteAheadInProgress
  <2>2. Head(todo) \in Calls
    BY <2>1, HeadTailTypes DEF IInv, HasHead
  <2>3. PICK status \in Answers : CheckpointStep(Record(Head(todo), status), "loop")
    BY <1>6 DEF RejectDecided, Answers
  <2> DEFINE t == Record(Head(todo), status)
  <2>4. t \in Sessions /\ t.state = mem.state /\ Answered(mem) \subseteq Answered(t)
    BY <2>1, <2>2, RecordType, AppendMarks, AnsweredByRecord DEF IInv, Record
  <2> HIDE DEF t
  <2>5. mem'.wa = NoCall /\ mem'.state = mem.state /\ mem'.msgs = t.msgs /\ At' = "loop"
        /\ pc' \in {"save", "loop"}
    BY <2>3, <2>4, StepMarks, StepHistory DEF SameMarks, Places, t
  <2>6. Answered(mem) \subseteq Answered(mem')
    BY <2>4, <2>5, AnsweredByMarks
  <2> QED BY <1>6, <2>1, <2>5, <2>6, QuietAccount DEF RejectDecided, history, Past, Before
<1> QED BY <1>1, <1>2, <1>3, <1>4, <1>5, <1>6 DEF HeadStep

LEMMA LoopAccount == Durable /\ ~ParallelTools /\ CInv /\ LoopStep => AccountInv'
<1> SUFFICES ASSUME Durable, ~ParallelTools, CInv, LoopStep PROVE AccountInv'
  OBVIOUS
<1> USE DEF CInv, AccountInv
<1>1. ASSUME pc \in {"loop", "chat", "answer"}, pc' \in {"chat", "finish", "next"},
             pc' = "chat" \/ pc' = "next" \/ pc' = "finish", UNCHANGED <<store, mem, invoked>>
      PROVE  AccountInv'
  <2>1. mem.wa = NoCall
    BY <1>1 DEF WriteAheadInProgress, At
  <2>2. At = pc /\ At' = pc'
    BY <1>1 DEF At
  <2> QED BY <1>1, <2>1, <2>2, QuietAccount DEF Past, Before
<1>2. ASSUME NEW why \in {"cancelled", "budget", "max_iterations"}, StopTurn(why)
      PROVE  AccountInv'
  BY <1>1, <1>2 DEF StopTurn, GoTo, history
<1>3. CASE CallModel \/ FinalAnswer
  BY <1>1, <1>3 DEF CallModel, FinalAnswer, GoTo, history
<1>4. CASE DispatchBatch
  BY <1>1, <1>4 DEF DispatchBatch, PlanParallel, GoTo, history
<1>5. CASE ModelFails \/ OutputInvalid
  BY <1>5, LeaveTurnAccount DEF ModelFails, OutputInvalid, FailTurn
<1>6. ASSUME NEW batch \in BoundedSeq(Calls \ issued, MaxBatch), ModelAnswers(batch)
      PROVE  AccountInv'
  <2> DEFINE t == AppendTo(mem, AssistantMessage(batch))
  <2>1. pc = "chat" /\ At = "chat" /\ mem \in Sessions /\ mem.wa = NoCall
    BY <1>6 DEF ModelAnswers, At, IInv, TypeOK, WriteAheadInProgress
  <2>2. AssistantMessage(batch) \in Messages /\ AssistantMessage(batch).call = NoCall
    BY BoundAssumption, MessageTypes DEF BoundedSeq, SeqOf, AssistantMessage
  <2>3. t \in Sessions /\ t.state = mem.state /\ Answered(mem) \subseteq Answered(t)
    BY <2>1, <2>2, AppendType, AppendMarks, AnsweredByAppend DEF Answered
  <2>4. CheckpointStep(t, "answer") /\ UNCHANGED <<store, invoked>>
    BY <1>6 DEF ModelAnswers
  <2> HIDE DEF t
  <2>5. mem'.wa = NoCall /\ mem'.state = mem.state /\ mem'.msgs = t.msgs /\ At' = "answer"
        /\ pc' \in {"save", "answer"}
    BY <2>3, <2>4, StepMarks, StepHistory DEF SameMarks, Places
  <2>6. Answered(mem) \subseteq Answered(mem')
    BY <2>3, <2>5, AnsweredByMarks
  <2> QED BY <2>1, <2>4, <2>5, <2>6, QuietAccount DEF Past, Before
<1> QED BY <1>2, <1>3, <1>4, <1>5, <1>6 DEF LoopStep

LEMMA ToolAccount == Durable /\ CInv /\ ToolStep => AccountInv'
<1> SUFFICES ASSUME Durable, CInv, ToolStep PROVE AccountInv'
  OBVIOUS
<1> USE DEF CInv, AccountInv
<1>1. ASSUME NEW status \in Answers, pc = "next", SkipHead(status)
      PROVE  AccountInv'
  <2>1. At = "next" /\ mem \in Sessions /\ mem.wa = NoCall
    BY <1>1 DEF At, IInv, TypeOK, WriteAheadInProgress
  <2>2. Head(todo) \in Calls
    BY <2>1, HeadTailTypes DEF IInv, HasHead
  <2>3. mem'.wa = NoCall /\ mem'.state = mem.state /\ Answered(mem) \subseteq Answered(mem')
    <3>1. mem' = Record(Head(todo), status)
      BY <1>1 DEF SkipHead
    <3>2. Answered(Record(Head(todo), status)) = Answered(mem) \cup {Head(todo)}
      BY <1>1, <2>2, AnsweredByRecord DEF IInv
    <3>3. Record(Head(todo), status).wa = mem.wa /\ Record(Head(todo), status).state = mem.state
      BY <2>1, AppendMarks DEF Record
    <3> QED BY <2>1, <3>1, <3>2, <3>3
  <2>4. pc' \in {"loop", "next"} /\ At' = pc' /\ UNCHANGED <<store, invoked>>
    BY <1>1 DEF SkipHead, GoTo, AfterCall, At, history
  <2> QED BY <1>1, <2>1, <2>3, <2>4, QuietAccount DEF Past, Before
<1>2. CASE RejectCall
  BY <1>1, <1>2 DEF RejectCall, Answers
<1>3. CASE StartCall
  BY <1>3, StartAccount DEF StartCall, history
<1>4. CASE HumanApproves
  BY <1>4, StartAccount DEF HumanApproves, AsksHuman
<1>5. CASE HumanDenies
  BY <1>1, <1>5 DEF HumanDenies, AsksHuman, Answers
<1>6. CASE PauseForHuman
  <2>1. At = "next" /\ pc = "next" /\ mem \in Sessions /\ mem.wa = NoCall
    BY <1>6 DEF PauseForHuman, AsksHuman, At, IInv, TypeOK, WriteAheadInProgress
  <2>2. /\ At' = "finish" /\ pc' = "save" /\ mem'.wa = NoCall /\ mem'.msgs = mem.msgs
        /\ UNCHANGED <<store, invoked>>
    BY <1>6, <2>1 DEF PauseForHuman, SaveThen, At, Sessions, history
  <2>3. EffectsAccountedFor'
    BY <2>2 DEF EffectsAccountedFor, Answered
  <2>4. MemAccounts'
    BY <2>1, <2>2, AnsweredByMarks DEF MemAccounts
  <2>5. WriteAheadInProgress' /\ NoParallelPath' /\ PauseHasNoWriteAhead'
    BY <2>2 DEF WriteAheadInProgress, NoParallelPath, PauseHasNoWriteAhead, Past, Before
  <2> QED BY <2>3, <2>4, <2>5
<1>7. ASSUME NEW status \in {"ok", "error"}, InvokeTool(status)
      PROVE  AccountInv'
  <2> DEFINE c == Head(todo)
             t == Record(c, status)
             next == AfterCall(Tail(todo))
  <2>1. pc = "invoke" /\ At = "invoke" /\ mem \in Sessions
    BY <1>7 DEF InvokeTool, At, IInv, TypeOK
  <2>2. mem.wa = c /\ store.wa = c /\ mem.state = "active" /\ c \in Calls
    BY <2>1, HeadTailTypes DEF WriteAheadInProgress, PauseHasNoWriteAhead, Past, IInv, HasHead
  <2>3. t \in Sessions /\ t.state = mem.state /\ Answered(t) = Answered(mem) \cup {c}
    BY <2>1, <2>2, RecordType, AppendMarks, AnsweredByRecord DEF IInv, Record, Answers
  <2>4. next \in {"loop", "next"}
    BY DEF AfterCall
  <2>5. /\ CheckpointStep(t, next) /\ invoked' = [invoked EXCEPT ![c] = @ + 1]
        /\ UNCHANGED store
    BY <1>7 DEF InvokeTool, CountInvocation
  <2> HIDE DEF c, t, next
  <2>6. mem'.wa = NoCall /\ mem'.state = "active" /\ mem'.msgs = t.msgs /\ At' = next
        /\ pc' \in {"save", next}
    BY <2>2, <2>3, <2>4, <2>5, StepMarks, StepHistory DEF SameMarks, Places
  <2>7. EffectsAccountedFor'
    BY <2>2, <2>5 DEF EffectsAccountedFor, IInv, TypeOK, Answered
  <2>8. MemAccounts'
    <3>1. Answered(mem') = Answered(mem) \cup {c}
      BY <2>3, <2>6, AnsweredByMarks
    <3> QED BY <2>1, <2>2, <2>5, <3>1 DEF MemAccounts, IInv, TypeOK
  <2>9. WriteAheadInProgress' /\ NoParallelPath'
    BY <2>4, <2>6 DEF WriteAheadInProgress, NoParallelPath
  <2>10. PauseHasNoWriteAhead'
    BY <2>5, <2>6 DEF PauseHasNoWriteAhead
  <2> QED BY <2>7, <2>8, <2>9, <2>10
<1>8. ASSUME pc = "parallel" PROVE FALSE
  BY <1>8 DEF NoParallelPath, At
<1> QED BY <1>2, <1>3, <1>4, <1>5, <1>6, <1>7, <1>8
        DEF ToolStep, ParallelInvoke, ParallelCollect, CollectAs

LEMMA EndAccount == Durable /\ CInv /\ EndStep => AccountInv'
<1> SUFFICES ASSUME Durable, CInv, EndStep PROVE AccountInv'
  OBVIOUS
<1> USE DEF CInv, AccountInv
<1>1. CASE FinishTurn
  <2>1. pc = "finish" /\ At = "finish" /\ mem \in Sessions /\ mem.wa = NoCall
    BY <1>1 DEF FinishTurn, At, IInv, TypeOK, WriteAheadInProgress
  <2>2. /\ At' = "done" /\ pc' = "save" /\ mem'.wa = NoCall /\ mem'.state = mem.state
        /\ mem'.msgs = mem.msgs /\ UNCHANGED <<store, invoked>>
    BY <1>1, <2>1 DEF FinishTurn, FinishCheckpoint, SaveThen, At, Sessions, history
  <2>3. Answered(mem') = Answered(mem)
    BY <2>2, AnsweredByMarks
  <2> QED BY <2>1, <2>2, <2>3, QuietAccount DEF Past, Before
<1>2. CASE SaveSession
  <2>1. /\ pc = "save" /\ At' = At /\ store' = mem /\ pc' = after
        /\ UNCHANGED <<mem, todo, op, invoked>>
    BY <1>2 DEF SaveSession, GoTo, At, IInv, HasHead, turnVars, history
  <2>2. EffectsAccountedFor' /\ MemAccounts'
    BY <2>1 DEF EffectsAccountedFor, MemAccounts, Answered
  <2>3. WriteAheadInProgress' /\ NoParallelPath'
    BY <2>1 DEF WriteAheadInProgress, NoParallelPath
  <2>4. PauseHasNoWriteAhead'
    BY <2>1 DEF PauseHasNoWriteAhead
  <2> QED BY <2>2, <2>3, <2>4
<1>3. CASE SaveFails \/ Return
  BY <1>3, LeaveTurnAccount DEF SaveFails, Return, FailTurn
<1> QED BY <1>1, <1>2, <1>3 DEF EndStep

LEMMA InitAccount == Init => AccountInv
  BY DEF Init, AccountInv, EffectsAccountedFor, MemAccounts, WriteAheadInProgress,
         PauseHasNoWriteAhead, NoParallelPath, NewSession, At, Past, Before

LEMMA NextAccount == Durable /\ ~ParallelTools /\ CInv /\ [Next]_vars => CInv'
<1> SUFFICES ASSUME Durable, ~ParallelTools, CInv, [Next]_vars PROVE CInv'
  OBVIOUS
<1>1. IInv'
  BY NextOnce DEF CInv
<1>2. CASE HostStep \/ EngineStep
  BY <1>1, <1>2, HostAccount, HeadAccount, LoopAccount, ToolAccount, EndAccount
  DEF EngineStep, CInv
<1>3. CASE Crash
  BY <1>1, <1>3, LeaveTurnAccount DEF Crash, CInv
<1>4. CASE UNCHANGED vars
  BY <1>1, <1>4 DEF vars, CInv, AccountInv, EffectsAccountedFor, MemAccounts, Answered,
                    WriteAheadInProgress, PauseHasNoWriteAhead, NoParallelPath, At
<1> QED BY <1>2, <1>3, <1>4 DEF Next

(* With durability and sequential tools, whatever crashes and fails, every *)
(* call that reached its tool is answered in the store or is the one the   *)
(* store knows to be in progress, which the next turn reconciles.          *)
THEOREM EffectsAccounted ==
  ASSUME Durable, ~ParallelTools PROVE Spec => []EffectsAccountedFor
<1>1. Init => CInv
  BY InitTypes, InitOnce, InitAccount DEF CInv, IInv
<1>2. CInv /\ [Next]_vars => CInv'
  BY NextAccount
<1>3. CInv => EffectsAccountedFor
  BY DEF CInv, AccountInv
<1> QED BY <1>1, <1>2, <1>3, PTL DEF Spec
----------------------------------------------------------------------------
(* What a session holds at every instant: its history only grows, results  *)
(* stand in the order of the calls, its marks agree and the call it waits  *)
(* for can be resolved.  Nothing here depends on Durable or ParallelTools  *)
(* unless a theorem says so.                                               *)

(* The calls a history asks for and holds no result of.                    *)
Open(s) == Requested(s) \ Answered(s)

(* No answer of the model asks for b before a.                             *)
Precedes(s, a, b) ==
  \A k \in DOMAIN s.msgs : \A x, y \in DOMAIN s.msgs[k].calls :
    s.msgs[k].calls[x] = a /\ s.msgs[k].calls[y] = b => x < y

(* A call whose result may be appended now.                                *)
Due(s, c) == c \in Open(s) /\ \A a \in Answered(s) : Precedes(s, a, c)

InOrder(s) ==
  \A i, j \in DOMAIN s.msgs :
    LET a == s.msgs[i].call
        b == s.msgs[j].call
    IN i < j /\ a # NoCall /\ b # NoCall => a # b /\ Precedes(s, a, b)

(* What holds of a session, in memory or stored, taken by itself.          *)
Sound(s, known) ==
  /\ (s.state = "awaiting") <=> (s.pending # NoCall)
  /\ s.ckpt = "awaiting" => s.state = "awaiting"
  /\ s.ckpt # "none" => Durable
  /\ s.wa # NoCall => s.ckpt = "running" /\ s.state = "active" /\ Due(s, s.wa)
  /\ s.pending # NoCall => Due(s, s.pending) /\ s.pending \in Confirm
  /\ Requested(s) \cup Answered(s) \subseteq known
  /\ InOrder(s)

(* The calls of q can be answered one after the other.                     *)
Batch(s, q) ==
  /\ IsInjective(q)
  /\ \A i \in DOMAIN q : Due(s, q[i])
  /\ \A i, j \in DOMAIN q : i < j => Precedes(s, q[i], q[j])

(* What holds of the turn in progress: it extends the stored history, its  *)
(* batch is due, and the marks are set at the places that use them only.   *)
Extends == pc # "idle" => IsPrefix(store.msgs, mem.msgs)

MarksInPlace ==
  /\ mem.wa # NoCall => At \in {"catalog", "reconcile", "invoke"}
  /\ At \in Before /\ op = "run" => todo = <<>>
  /\ At \in Before /\ op = "resolve" => mem.wa = NoCall
  /\ At \in Past \cup Before => mem.state = "active"
  /\ At \in Past \cup {"decide"} /\ Durable => mem.ckpt = "running"

HistInv == Sound(store, issued) /\ Sound(mem, issued) /\ Batch(mem, todo)
           /\ Extends /\ MarksInPlace

HInv == TypeOK /\ HasHead /\ HistInv

----------------------------------------------------------------------------
(* Sequences and histories.                                                *)

LEMMA PrefixMeans ==
  ASSUME NEW s \in Seq(Messages), NEW t \in Seq(Messages)
  PROVE  IsPrefix(s, t) <=> Len(s) <= Len(t) /\ \A i \in 1 .. Len(s) : s[i] = t[i]
  BY DEF IsPrefix

LEMMA PrefixAppend ==
  ASSUME NEW s \in Seq(Messages), NEW t \in Seq(Messages), NEW m \in Messages, IsPrefix(s, t)
  PROVE  IsPrefix(s, Append(t, m))
<1>1. /\ Append(t, m) \in Seq(Messages) /\ Len(Append(t, m)) = Len(t) + 1
      /\ \A i \in 1 .. Len(t) : Append(t, m)[i] = t[i]
  OBVIOUS
<1>2. Len(s) <= Len(t) /\ \A i \in 1 .. Len(s) : i \in 1 .. Len(t) /\ s[i] = t[i]
  BY PrefixMeans
<1>3. Len(s) <= Len(t) + 1
  BY <1>2
<1> QED BY <1>1, <1>2, <1>3, PrefixMeans

LEMMA PrefixConcat ==
  ASSUME NEW s \in Seq(Messages), NEW t \in Seq(Messages), NEW u \in Seq(Messages), IsPrefix(s, t)
  PROVE  IsPrefix(s, t \o u)
<1>1. /\ t \o u \in Seq(Messages) /\ Len(t \o u) = Len(t) + Len(u)
      /\ \A i \in 1 .. Len(t) : (t \o u)[i] = t[i]
  OBVIOUS
<1>2. Len(s) <= Len(t) /\ \A i \in 1 .. Len(s) : i \in 1 .. Len(t) /\ s[i] = t[i]
  BY PrefixMeans
<1>3. Len(s) <= Len(t) + Len(u)
  BY <1>2
<1> QED BY <1>1, <1>2, <1>3, PrefixMeans

LEMMA PrefixSelf ==
  ASSUME NEW s \in Seq(Messages)
  PROVE  IsPrefix(s, s)
  BY DEF IsPrefix

(* Requested, Answered, Precedes and InOrder look at the messages only.    *)
LEMMA SameHistory ==
  ASSUME NEW s, NEW t, t.msgs = s.msgs
  PROVE  /\ Requested(t) = Requested(s) /\ Answered(t) = Answered(s)
         /\ \A a, b : Precedes(t, a, b) <=> Precedes(s, a, b)
         /\ \A c : Due(t, c) <=> Due(s, c)
         /\ InOrder(t) <=> InOrder(s)
         /\ \A q : Batch(t, q) <=> Batch(s, q)
<1>1. /\ Requested(t) = Requested(s) /\ Answered(t) = Answered(s)
      /\ \A a, b : Precedes(t, a, b) <=> Precedes(s, a, b)
  BY DEF Requested, Answered, Precedes
<1>2. \A c : Due(t, c) <=> Due(s, c)
  BY <1>1 DEF Due, Open
<1>3. InOrder(t) <=> InOrder(s)
  BY <1>1 DEF InOrder
<1> QED BY <1>1, <1>2, <1>3 DEF Batch

LEMMA AppendHistory ==
  ASSUME NEW s \in Sessions, NEW t \in Sessions, NEW m \in Messages,
         t.msgs = Append(s.msgs, m)
  PROVE  /\ Requested(t) = Requested(s) \cup ToSet(m.calls)
         /\ Answered(t) = (Answered(s) \cup {m.call}) \ {NoCall}
         /\ \A a, b : Precedes(t, a, b) <=>
              /\ Precedes(s, a, b)
              /\ \A x, y \in DOMAIN m.calls : m.calls[x] = a /\ m.calls[y] = b => x < y
<1> DEFINE n == Len(s.msgs) + 1
<1>1. /\ DOMAIN t.msgs = DOMAIN s.msgs \cup {n}
      /\ \A i \in DOMAIN s.msgs : t.msgs[i] = s.msgs[i]
      /\ t.msgs[n] = m
  BY DEF Sessions
<1> HIDE DEF n
<1>2. Requested(t) = Requested(s) \cup ToSet(m.calls)
  BY <1>1 DEF Requested
<1>3. Answered(t) = (Answered(s) \cup {m.call}) \ {NoCall}
  BY <1>1 DEF Answered
<1>4. \A a, b : Precedes(t, a, b) <=>
              /\ Precedes(s, a, b)
              /\ \A x, y \in DOMAIN m.calls : m.calls[x] = a /\ m.calls[y] = b => x < y
  BY <1>1 DEF Precedes
<1> QED BY <1>2, <1>3, <1>4

(* A result appended for a call that is due.                               *)
LEMMA AnswerHistory ==
  ASSUME NEW s \in Sessions, NEW t \in Sessions, NEW c \in Calls, NEW status \in Answers,
         Due(s, c), InOrder(s), t.msgs = Append(s.msgs, ToolMessage(c, status))
  PROVE  /\ Requested(t) = Requested(s) /\ Answered(t) = Answered(s) \cup {c}
         /\ \A a, b : Precedes(t, a, b) <=> Precedes(s, a, b)
         /\ InOrder(t)
<1> DEFINE m == ToolMessage(c, status)
<1>1. m \in Messages /\ m.calls = <<>> /\ m.call = c
  BY MessageTypes DEF ToolMessage
<1>2. ToSet(<<>>) = {} /\ DOMAIN <<>> = {}
  BY DEF ToSet
<1> HIDE DEF m
<1>3. t.msgs = Append(s.msgs, m)
  BY DEF m
<1>4. /\ Requested(t) = Requested(s) /\ Answered(t) = Answered(s) \cup {c}
      /\ \A a, b : Precedes(t, a, b) <=> Precedes(s, a, b)
  <2>1. /\ Requested(t) = Requested(s) \cup ToSet(m.calls)
        /\ Answered(t) = (Answered(s) \cup {m.call}) \ {NoCall}
        /\ \A a, b : Precedes(t, a, b) <=>
             /\ Precedes(s, a, b)
             /\ \A x, y \in DOMAIN m.calls : m.calls[x] = a /\ m.calls[y] = b => x < y
    BY <1>1, <1>3, AppendHistory
  <2>2. Answered(t) = Answered(s) \cup {c}
    BY <1>1, <2>1, ClassAssumption DEF Answered
  <2>3. \A a, b : Precedes(t, a, b) <=> Precedes(s, a, b)
    BY <1>1, <1>2, <2>1
  <2> QED BY <1>1, <1>2, <2>1, <2>2, <2>3
<1>5. \A i \in DOMAIN s.msgs : s.msgs[i].call # NoCall => s.msgs[i].call \in Answered(s)
  BY DEF Answered
<1>6. \A i \in DOMAIN s.msgs :
        s.msgs[i].call # NoCall => s.msgs[i].call # c /\ Precedes(s, s.msgs[i].call, c)
  BY <1>5 DEF Due, Open
<1>7. /\ DOMAIN t.msgs = DOMAIN s.msgs \cup {Len(s.msgs) + 1}
      /\ \A i \in DOMAIN s.msgs : t.msgs[i] = s.msgs[i] /\ i < Len(s.msgs) + 1
      /\ t.msgs[Len(s.msgs) + 1].call = c
  BY <1>1, <1>3 DEF Sessions
<1>8. InOrder(t)
  BY <1>4, <1>6, <1>7 DEF InOrder
<1> QED BY <1>4, <1>8

(* The rest of a batch stays due once its head is answered.                *)
LEMMA AnswerBatch ==
  ASSUME NEW s \in Sessions, NEW t \in Sessions, NEW q \in Seq(Calls), q # <<>>,
         NEW status \in Answers, Batch(s, q), InOrder(s),
         t.msgs = Append(s.msgs, ToolMessage(Head(q), status))
  PROVE  /\ Requested(t) = Requested(s) /\ Answered(t) = Answered(s) \cup {Head(q)}
         /\ InOrder(t)
         /\ Batch(t, Tail(q))
<1> DEFINE c == Head(q)
<1>1. /\ c \in Calls /\ c = q[1] /\ 1 \in DOMAIN q
      /\ \A i \in DOMAIN Tail(q) : i + 1 \in DOMAIN q /\ Tail(q)[i] = q[i + 1] /\ i + 1 > 1
      /\ DOMAIN Tail(q) \subseteq Nat
  OBVIOUS
<1>2. Due(s, c) /\ \A i \in DOMAIN q : i > 1 => q[i] # c /\ Precedes(s, c, q[i])
  BY <1>1 DEF Batch, IsInjective
<1> HIDE DEF c
<1>3. t.msgs = Append(s.msgs, ToolMessage(c, status))
  BY DEF c
<1>4. /\ Requested(t) = Requested(s) /\ Answered(t) = Answered(s) \cup {c}
      /\ \A a, b : Precedes(t, a, b) <=> Precedes(s, a, b)
      /\ InOrder(t)
  BY <1>1, <1>2, <1>3, AnswerHistory
<1>5. \A i \in DOMAIN Tail(q) : Due(t, Tail(q)[i])
  BY <1>1, <1>2, <1>4 DEF Batch, Due, Open
<1>6. IsInjective(Tail(q))
  BY <1>1 DEF Batch, IsInjective
<1>7. \A i, j \in DOMAIN Tail(q) : i < j => Precedes(t, Tail(q)[i], Tail(q)[j])
  <2> SUFFICES ASSUME NEW i \in DOMAIN Tail(q), NEW j \in DOMAIN Tail(q), i < j
               PROVE  Precedes(t, Tail(q)[i], Tail(q)[j])
    OBVIOUS
  <2>1. i + 1 \in DOMAIN q /\ j + 1 \in DOMAIN q /\ i + 1 < j + 1
    BY <1>1
  <2> QED BY <1>1, <1>4, <2>1 DEF Batch
<1> QED BY <1>4, <1>5, <1>6, <1>7 DEF Batch, c

(* An answer of the model that asks for calls no history knows.            *)
LEMMA AskHistory ==
  ASSUME NEW s \in Sessions, NEW t \in Sessions, NEW batch \in Seq(Calls),
         IsInjective(batch), InOrder(s), t.msgs = Append(s.msgs, AssistantMessage(batch)),
         \A i \in DOMAIN batch : batch[i] \notin Requested(s) \cup Answered(s)
  PROVE  /\ Requested(t) = Requested(s) \cup ToSet(batch) /\ Answered(t) = Answered(s)
         /\ InOrder(t)
         /\ Batch(t, batch)
<1> DEFINE m == AssistantMessage(batch)
<1>1. m \in Messages /\ m.calls = batch /\ m.call = NoCall
  BY MessageTypes DEF AssistantMessage
<1> HIDE DEF m
<1>2. t.msgs = Append(s.msgs, m)
  BY DEF m
<1>3. /\ Requested(t) = Requested(s) \cup ToSet(batch)
      /\ Answered(t) = (Answered(s) \cup {NoCall}) \ {NoCall}
      /\ \A a, b : Precedes(t, a, b) <=>
           /\ Precedes(s, a, b)
           /\ \A x, y \in DOMAIN batch : batch[x] = a /\ batch[y] = b => x < y
  BY <1>1, <1>2, AppendHistory
<1>4. Answered(t) = Answered(s)
  BY <1>3 DEF Answered
<1>5. \A a, b : a \in Answered(s) /\ Precedes(s, a, b) => Precedes(t, a, b)
  BY <1>3
<1>6. /\ DOMAIN t.msgs = DOMAIN s.msgs \cup {Len(s.msgs) + 1}
      /\ \A i \in DOMAIN s.msgs : t.msgs[i] = s.msgs[i]
      /\ t.msgs[Len(s.msgs) + 1].call = NoCall
  BY <1>1, <1>2 DEF Sessions
<1>7. \A i \in DOMAIN s.msgs : s.msgs[i].call # NoCall => s.msgs[i].call \in Answered(s)
  BY DEF Answered
<1>8. InOrder(t)
  BY <1>5, <1>6, <1>7 DEF InOrder
<1>9. \A i \in DOMAIN batch : \A a : Precedes(s, a, batch[i])
  BY DEF Precedes, Requested, ToSet
<1>10. \A i \in DOMAIN batch : Due(t, batch[i])
  BY <1>3, <1>4, <1>5, <1>9 DEF Due, Open, ToSet
<1>11. \A i, j \in DOMAIN batch : i < j => Precedes(t, batch[i], batch[j])
  BY <1>3, <1>9 DEF IsInjective
<1> QED BY <1>3, <1>4, <1>8, <1>10, <1>11 DEF Batch

(* The input of a turn neither asks for a call nor answers one.            *)
LEMMA InputHistory ==
  ASSUME NEW s \in Sessions, NEW t \in Sessions, t.msgs = Append(s.msgs, UserMessage)
  PROVE  /\ Requested(t) = Requested(s) /\ Answered(t) = Answered(s)
         /\ InOrder(s) => InOrder(t)
         /\ \A q : Batch(s, q) => Batch(t, q)
<1>1. UserMessage \in Messages /\ UserMessage.calls = <<>> /\ UserMessage.call = NoCall
  BY MessageTypes DEF UserMessage
<1>2. ToSet(<<>>) = {} /\ DOMAIN <<>> = {}
  BY DEF ToSet
<1>3. /\ Requested(t) = Requested(s) \cup ToSet(UserMessage.calls)
      /\ Answered(t) = (Answered(s) \cup {UserMessage.call}) \ {NoCall}
      /\ \A a, b : Precedes(t, a, b) <=>
           /\ Precedes(s, a, b)
           /\ \A x, y \in DOMAIN UserMessage.calls :
                UserMessage.calls[x] = a /\ UserMessage.calls[y] = b => x < y
  BY <1>1, AppendHistory
<1>4. Requested(t) = Requested(s)
  BY <1>1, <1>2, <1>3
<1>5. Answered(t) = Answered(s)
  BY <1>1, <1>3 DEF Answered
<1>6. \A a, b : Precedes(t, a, b) <=> Precedes(s, a, b)
  BY <1>1, <1>2, <1>3
<1>7. /\ DOMAIN t.msgs = DOMAIN s.msgs \cup {Len(s.msgs) + 1}
      /\ \A i \in DOMAIN s.msgs : t.msgs[i] = s.msgs[i]
      /\ t.msgs[Len(s.msgs) + 1].call = NoCall
  BY <1>1 DEF Sessions
<1>8. InOrder(s) => InOrder(t)
  BY <1>6, <1>7 DEF InOrder
<1>9. \A q : Batch(s, q) => Batch(t, q)
  BY <1>4, <1>5, <1>6 DEF Batch, Due, Open
<1> QED BY <1>4, <1>5, <1>8, <1>9

(* The results of a whole batch appended in its order.                     *)
LEMMA CollectHistory ==
  ASSUME NEW s \in Sessions, NEW t \in Sessions, NEW q \in Seq(Calls),
         NEW out \in [Calls -> Answers], Batch(s, q), InOrder(s),
         t.msgs = s.msgs \o [i \in DOMAIN q |-> ToolMessage(q[i], out[q[i]])]
  PROVE  /\ Requested(t) = Requested(s) /\ Answered(t) = Answered(s) \cup ToSet(q)
         /\ InOrder(t)
<1> DEFINE n == Len(s.msgs)
           results == [i \in DOMAIN q |-> ToolMessage(q[i], out[q[i]])]
<1>1. /\ n \in Nat /\ DOMAIN s.msgs = 1 .. n /\ s.msgs \in Seq(Messages)
      /\ DOMAIN q = 1 .. Len(q) /\ Len(q) \in Nat
  BY DEF Sessions
<1>2. \A i \in DOMAIN q : results[i] \in Messages /\ results[i].call = q[i] /\ results[i].calls = <<>>
  BY MessageTypes DEF ToolMessage
<1>3. results \in Seq(Messages) /\ Len(results) = Len(q)
  BY <1>1, <1>2
<1> HIDE DEF n, results
<1>4. /\ DOMAIN t.msgs = 1 .. (n + Len(q))
      /\ \A i \in 1 .. n : t.msgs[i] = s.msgs[i]
      /\ \A i \in DOMAIN t.msgs : i > n => i - n \in DOMAIN q /\ t.msgs[i] = results[i - n]
      /\ \A i \in DOMAIN q : n + i \in DOMAIN t.msgs /\ t.msgs[n + i] = results[i]
  BY <1>1, <1>3 DEF n, results
<1> DEFINE Old(i) == i \in DOMAIN s.msgs /\ i <= n /\ t.msgs[i] = s.msgs[i]
           New(i) == /\ i > n /\ i - n \in DOMAIN q /\ t.msgs[i].call = q[i - n]
                     /\ t.msgs[i].calls = <<>>
<1>5. /\ \A i \in DOMAIN t.msgs : Old(i) \/ New(i)
      /\ \A i \in DOMAIN s.msgs : i \in DOMAIN t.msgs /\ Old(i)
      /\ \A i \in DOMAIN q : n + i \in DOMAIN t.msgs /\ t.msgs[n + i].call = q[i]
  <2>1. \A i \in DOMAIN s.msgs : i \in DOMAIN t.msgs /\ Old(i)
    BY <1>1, <1>4
  <2>2. \A i \in DOMAIN t.msgs : i <= n => Old(i)
    BY <1>1, <1>4
  <2>3. \A i \in DOMAIN t.msgs : i > n => New(i)
    BY <1>2, <1>4
  <2>4. \A i \in DOMAIN t.msgs : i <= n \/ i > n
    BY <1>1, <1>4
  <2>5. \A i \in DOMAIN q : n + i \in DOMAIN t.msgs /\ t.msgs[n + i].call = q[i]
    BY <1>2, <1>4
  <2> HIDE DEF Old, New
  <2> QED BY <2>1, <2>2, <2>3, <2>4, <2>5
<1>6. Requested(t) = Requested(s)
  <2>1. \A i \in DOMAIN t.msgs : New(i) => ToSet(t.msgs[i].calls) = {}
    BY DEF ToSet
  <2>2. ASSUME NEW c \in Requested(t) PROVE c \in Requested(s)
    <3>1. PICK i \in DOMAIN t.msgs : c \in ToSet(t.msgs[i].calls)
      BY <2>2 DEF Requested
    <3>2. ~New(i)
      BY <2>1, <3>1
    <3>3. Old(i)
      BY <1>5, <3>2
    <3>4. i \in DOMAIN s.msgs /\ c \in ToSet(s.msgs[i].calls)
      BY <3>1, <3>3
    <3> QED BY <3>4 DEF Requested
  <2>3. ASSUME NEW c \in Requested(s) PROVE c \in Requested(t)
    <3>1. PICK i \in DOMAIN s.msgs : c \in ToSet(s.msgs[i].calls)
      BY <2>3 DEF Requested
    <3>2. i \in DOMAIN t.msgs /\ c \in ToSet(t.msgs[i].calls)
      BY <1>5, <3>1
    <3> QED BY <3>2 DEF Requested
  <2> QED BY <2>2, <2>3
<1>7. Answered(t) = Answered(s) \cup ToSet(q)
  <2>1. \A i \in DOMAIN q : q[i] # NoCall
    BY ClassAssumption
  <2>2. ASSUME NEW c \in Answered(t) PROVE c \in Answered(s) \cup ToSet(q)
    <3>1. PICK i \in DOMAIN t.msgs : t.msgs[i].call = c /\ c # NoCall
      BY <2>2 DEF Answered
    <3>2. CASE Old(i)
      BY <3>1, <3>2 DEF Answered
    <3>3. CASE New(i)
      BY <3>1, <3>3 DEF ToSet
    <3> QED BY <1>5, <3>2, <3>3
  <2>3. ASSUME NEW c \in Answered(s) \cup ToSet(q) PROVE c \in Answered(t)
    <3>1. CASE c \in Answered(s)
      <4>1. PICK i \in DOMAIN s.msgs : s.msgs[i].call = c /\ c # NoCall
        BY <3>1 DEF Answered
      <4>2. i \in DOMAIN t.msgs /\ t.msgs[i].call = c
        BY <1>5, <4>1
      <4> QED BY <4>1, <4>2 DEF Answered
    <3>2. CASE c \in ToSet(q)
      <4>1. PICK i \in DOMAIN q : q[i] = c
        BY <3>2 DEF ToSet
      <4>2. n + i \in DOMAIN t.msgs /\ t.msgs[n + i].call = c /\ c # NoCall
        BY <1>5, <2>1, <4>1
      <4> QED BY <4>2 DEF Answered
    <3> QED BY <2>3, <3>1, <3>2
  <2> QED BY <2>2, <2>3
<1>8. \A a, b : Precedes(t, a, b) <=> Precedes(s, a, b)
  <2>1. \A i \in DOMAIN t.msgs : New(i) => DOMAIN t.msgs[i].calls = {}
    OBVIOUS
  <2>2. ASSUME NEW a, NEW b, Precedes(s, a, b)
        PROVE  Precedes(t, a, b)
    <3> SUFFICES ASSUME NEW i \in DOMAIN t.msgs,
                        NEW x \in DOMAIN t.msgs[i].calls, NEW y \in DOMAIN t.msgs[i].calls,
                        t.msgs[i].calls[x] = a, t.msgs[i].calls[y] = b
                 PROVE  x < y
      BY DEF Precedes
    <3>1. Old(i)
      BY <1>5, <2>1
    <3>2. i \in DOMAIN s.msgs /\ t.msgs[i] = s.msgs[i]
      BY <3>1
    <3> QED BY <2>2, <3>2 DEF Precedes
  <2>3. ASSUME NEW a, NEW b, Precedes(t, a, b)
        PROVE  Precedes(s, a, b)
    <3> SUFFICES ASSUME NEW i \in DOMAIN s.msgs,
                        NEW x \in DOMAIN s.msgs[i].calls, NEW y \in DOMAIN s.msgs[i].calls,
                        s.msgs[i].calls[x] = a, s.msgs[i].calls[y] = b
                 PROVE  x < y
      BY DEF Precedes
    <3>1. i \in DOMAIN t.msgs /\ t.msgs[i] = s.msgs[i]
      BY <1>5
    <3> QED BY <2>3, <3>1 DEF Precedes
  <2> QED BY <2>2, <2>3
<1>9. \A i \in DOMAIN s.msgs : s.msgs[i].call # NoCall => s.msgs[i].call \in Answered(s)
  BY DEF Answered
<1>10. ASSUME NEW i \in DOMAIN t.msgs, NEW j \in DOMAIN t.msgs, i < j,
              t.msgs[i].call # NoCall, t.msgs[j].call # NoCall
       PROVE  t.msgs[i].call # t.msgs[j].call /\ Precedes(t, t.msgs[i].call, t.msgs[j].call)
  <2>1. CASE Old(i) /\ Old(j)
    BY <1>8, <1>10, <2>1 DEF InOrder
  <2>2. CASE Old(i) /\ New(j)
    BY <1>8, <1>9, <1>10, <2>2 DEF Batch, Due, Open
  <2>3. CASE New(i) /\ New(j)
    <3>1. i - n \in DOMAIN q /\ j - n \in DOMAIN q
      BY <2>3
    <3>2. i \in Nat /\ j \in Nat
      BY <1>4
    <3>3. i - n < j - n
      BY <1>1, <1>10, <3>2
    <3> QED BY <1>8, <2>3, <3>1, <3>3 DEF Batch, IsInjective
  <2>4. ~(New(i) /\ Old(j))
    BY <1>1, <1>4, <1>10
  <2> QED BY <1>5, <2>1, <2>2, <2>3, <2>4
<1>11. InOrder(t)
  BY <1>10 DEF InOrder
<1> QED BY <1>6, <1>7, <1>11

----------------------------------------------------------------------------
(* Sessions.                                                               *)

LEMMA SoundMore ==
  ASSUME NEW s, NEW known, NEW more, Sound(s, known), known \subseteq more
  PROVE  Sound(s, more)
  BY DEF Sound

LEMMA SoundNew == \A known : Sound(NewSession, known)
  BY DEF Sound, NewSession, Requested, Answered, InOrder

(* A session without marks, as the loop of a turn works on.                *)
LEMMA SoundUnmarked ==
  ASSUME NEW s \in Sessions, NEW known, NEW t, Sound(s, known), s.state = "active",
         t.state = "active", t.pending = s.pending, t.ckpt = s.ckpt, t.wa = NoCall,
         InOrder(t), NEW more, Requested(t) \cup Answered(t) \subseteq more
  PROVE  Sound(t, more)
  BY DEF Sound

LEMMA StepSession ==
  ASSUME NEW s \in Sessions, NEW next \in Places \ {"save"}, CheckpointStep(s, next)
  PROVE  /\ mem' \in Sessions /\ mem'.msgs = s.msgs /\ SameMarks(s) /\ mem'.wa = NoCall
         /\ At' = next /\ pc' \in {"save", next}
<1>1. mem' \in Sessions
  BY SaveTypes
<1> QED
  BY <1>1 DEF CheckpointStep, SaveCheckpoint, SaveThen, GoTo, At, SameMarks, Sessions

(* What every action of a turn has to show: the session in memory stays    *)
(* sound and only appends to its history.                                  *)
Grows(s, t) ==
  \/ t.msgs = s.msgs
  \/ \E m \in Messages : t.msgs = Append(s.msgs, m)
  \/ \E results \in Seq(Messages) : t.msgs = s.msgs \o results

LEMMA TurnHist ==
  ASSUME HInv, pc # "idle", UNCHANGED store, issued \subseteq issued', Sound(mem', issued'),
         Grows(mem, mem'), Batch(mem', todo'), MarksInPlace'
  PROVE  HistInv'
<1> USE DEF HInv, HistInv
<1>1. Sound(store', issued')
  BY SoundMore
<1>2. store.msgs \in Seq(Messages) /\ mem.msgs \in Seq(Messages) /\ IsPrefix(store.msgs, mem.msgs)
  BY DEF TypeOK, Sessions, Extends
<1>3. IsPrefix(store.msgs, mem'.msgs)
  BY <1>2, PrefixAppend, PrefixConcat DEF Grows
<1> QED BY <1>1, <1>3 DEF Extends

LEMMA LeaveTurnHist ==
  ASSUME HInv, NEW how, LeaveTurn(how), store' \in {store, mem}, UNCHANGED issued
  PROVE  HistInv'
<1> USE DEF HInv, HistInv
<1>1. pc' = "idle" /\ At' = "idle" /\ mem' = NewSession /\ todo' = <<>> /\ NewSession.wa = NoCall
  BY DEF LeaveTurn, GoTo, At, NewSession
<1>2. Sound(store', issued') /\ Sound(mem', issued')
  BY <1>1, SoundNew
<1>3. Batch(mem', todo')
  BY <1>1 DEF Batch, IsInjective
<1> QED BY <1>1, <1>2, <1>3 DEF Extends, MarksInPlace, Past, Before

(* The head of the batch gets its result.                                  *)
LEMMA AnswerHist ==
  ASSUME HInv, todo # <<>>, todo' = Tail(todo), UNCHANGED <<store, issued>>,
         At \in Past \cup {"decide"}, NEW status \in Answers, mem' \in Sessions,
         mem'.msgs = Append(mem.msgs, ToolMessage(Head(todo), status)),
         SameMarks(mem), mem'.wa = NoCall, At' \in {"loop", "next"}
  PROVE  HistInv'
<1> USE DEF HInv, HistInv
<1>1. mem \in Sessions /\ mem.state = "active" /\ pc # "idle" /\ Head(todo) \in Calls
      /\ todo \in Seq(Calls)
  BY HeadTailTypes DEF TypeOK, MarksInPlace, At, Past, Before
<1>2. ToolMessage(Head(todo), status) \in Messages
  BY <1>1, MessageTypes
<1>3. /\ Requested(mem') = Requested(mem) /\ Answered(mem') = Answered(mem) \cup {Head(todo)}
      /\ InOrder(mem') /\ Batch(mem', Tail(todo))
  BY <1>1, AnswerBatch DEF Sound
<1>4. Head(todo) \in Requested(mem)
  BY <1>1 DEF Batch, Due, Open
<1>5. Sound(mem', issued')
  BY <1>1, <1>3, <1>4, SoundUnmarked DEF Sound, SameMarks
<1>6. MarksInPlace'
  BY <1>1 DEF MarksInPlace, SameMarks, Past, Before
<1> QED BY <1>1, <1>2, <1>3, <1>5, <1>6, TurnHist DEF Grows

(* The head of the batch gets its write-ahead, if there is a checkpoint.   *)
LEMMA StartHist ==
  ASSUME HInv, todo # <<>>, pc \in {"decide", "next"}, CheckpointToolStart(Head(todo)),
         UNCHANGED <<store, todo, issued>>
  PROVE  HistInv'
<1> USE DEF HInv, HistInv
<1> DEFINE c == Head(todo)
<1>1. /\ mem \in Sessions /\ mem.state = "active" /\ mem.wa = NoCall
      /\ Durable => mem.ckpt = "running"
  BY DEF TypeOK, MarksInPlace, At, Past, Before
<1>2. Due(mem, c)
  BY BatchFacts DEF Batch
<1> HIDE DEF c
<1>3. /\ mem'.msgs = mem.msgs /\ SameMarks(mem) /\ At' = "invoke"
      /\ mem'.wa = NoCall \/ (mem'.wa = c /\ Durable)
  BY <1>1 DEF CheckpointToolStart, SaveCheckpoint, Checkpointing, SaveThen, GoTo, At, SameMarks,
             Sessions, c
<1>4. Batch(mem', todo') /\ InOrder(mem') /\ Due(mem', c)
      /\ Requested(mem') = Requested(mem) /\ Answered(mem') = Answered(mem)
  BY <1>2, <1>3, SameHistory DEF Sound
<1>5. Sound(mem', issued')
  BY <1>1, <1>3, <1>4 DEF Sound, SameMarks
<1>6. MarksInPlace'
  BY <1>1, <1>3 DEF MarksInPlace, SameMarks, Past, Before
<1> QED BY <1>3, <1>4, <1>5, <1>6, TurnHist DEF Grows

LEMMA HostHist == HInv /\ HostStep => HistInv'
<1> SUFFICES ASSUME HInv, HostStep PROVE HistInv'
  OBVIOUS
<1> USE DEF HInv, HistInv
<1>1. CASE Run
  <2>1. /\ At' = "catalog" /\ pc' = "catalog" /\ op' = "run" /\ mem' = store /\ todo' = <<>>
        /\ UNCHANGED <<store, issued>> /\ store.state # "awaiting" /\ store \in Sessions
    BY <1>1 DEF Run, BeginOperation, GoTo, At, TypeOK
  <2>2. Sound(store', issued') /\ Sound(mem', issued')
    BY <2>1
  <2>3. Batch(mem', todo')
    BY <2>1 DEF Batch, IsInjective
  <2>4. Extends'
    BY <2>1, PrefixSelf DEF Extends, Sessions
  <2>5. MarksInPlace'
    BY <2>1 DEF MarksInPlace, Past, Before, Sessions
  <2> QED BY <2>2, <2>3, <2>4, <2>5
<1>2. ASSUME NEW decision \in BOOLEAN, ResolveConfirmation(decision)
      PROVE  HistInv'
  <2> DEFINE c == store.pending
  <2>1. /\ At' = "catalog" /\ pc' = "catalog" /\ op' = "resolve" /\ mem' = ResumedSession(store)
        /\ todo' = <<c>> /\ UNCHANGED <<store, issued>> /\ store \in Sessions
        /\ store.state = "awaiting" /\ c # NoCall
    BY <1>2 DEF ResolveConfirmation, BeginOperation, GoTo, At, TypeOK
  <2>2. /\ mem'.msgs = store.msgs /\ mem'.state = "active" /\ mem'.pending = NoCall
        /\ mem'.wa = NoCall /\ mem'.ckpt \in {"running", "none"}
        /\ mem'.ckpt # "none" => Durable
    BY <2>1 DEF ResumedSession, Checkpointing, Sessions, Sound
  <2>3. Due(mem', c) /\ InOrder(mem')
        /\ Requested(mem') = Requested(store) /\ Answered(mem') = Answered(store)
    BY <2>1, <2>2, SameHistory DEF Sound
  <2> HIDE DEF c
  <2>4. Sound(mem', issued')
    BY <2>1, <2>2, <2>3 DEF Sound
  <2>5. Batch(mem', todo')
    BY <2>1, <2>3 DEF Batch, IsInjective
  <2>6. Extends'
    BY <2>1, <2>2, PrefixSelf DEF Extends, Sessions
  <2>7. MarksInPlace'
    BY <2>1, <2>2 DEF MarksInPlace, Past, Before
  <2> QED BY <2>1, <2>4, <2>5, <2>6, <2>7
<1> QED BY <1>1, <1>2 DEF HostStep

(* A step inside the turn that leaves the session and the batch alone.     *)
LEMMA QuietHist ==
  ASSUME HInv, pc # "idle", UNCHANGED <<store, mem, todo, issued>>, MarksInPlace'
  PROVE  HistInv'
  BY TurnHist DEF HInv, HistInv, Grows

LEMMA HeadHist == HInv /\ HeadStep => HistInv'
<1> SUFFICES ASSUME HInv, HeadStep PROVE HistInv'
  OBVIOUS
<1> USE DEF HInv, HistInv
<1>1. CASE FetchCatalog
  <2>1. MarksInPlace'
    BY <1>1 DEF FetchCatalog, GoTo, MarksInPlace, At, Past, Before
  <2> QED BY <1>1, <2>1, QuietHist DEF FetchCatalog, history
<1>2. CASE NothingToReconcile
  <2>1. mem.wa = NoCall
    BY <1>2 DEF NothingToReconcile, Interrupted, Checkpointing, Sound
  <2>2. MarksInPlace'
    BY <1>2, <2>1 DEF NothingToReconcile, GoTo, turnVars, MarksInPlace, At, Past, Before
  <2> QED BY <1>2, <2>2, QuietHist DEF NothingToReconcile, history
<1>3. CASE Reconcile
  <2> DEFINE c == mem.wa
  <2>1. /\ c \in Calls /\ c # NoCall /\ mem \in Sessions /\ pc = "reconcile" /\ mem.state = "active"
        /\ todo = <<>> /\ op = "run"
    BY <1>3 DEF Reconcile, Interrupted, TypeOK, Sessions, CallIds, MarksInPlace, At, Before
  <2>2. Due(mem, c) /\ c \notin Answered(mem)
    BY <2>1 DEF Sound, Due, Open
  <2>3. PICK status \in Answers : CheckpointStep(Record(c, status), "input")
    BY <1>3, <2>2 DEF Reconcile, Answers
  <2>4. UNCHANGED <<store, issued, todo, op>>
    BY <1>3 DEF Reconcile, turnVars
  <2> HIDE DEF c
  <2>5. Record(c, status) \in Sessions
    BY <2>1, RecordType
  <2>6. /\ mem' \in Sessions /\ mem'.msgs = Append(mem.msgs, ToolMessage(c, status))
        /\ mem'.state = mem.state /\ mem'.pending = mem.pending /\ mem'.ckpt = mem.ckpt
        /\ mem'.wa = NoCall /\ At' = "input"
    BY <2>1, <2>3, <2>5, StepSession DEF SameMarks, Record, AppendTo, Sessions, Places
  <2>7. /\ Requested(mem') = Requested(mem) /\ Answered(mem') = Answered(mem) \cup {c}
        /\ InOrder(mem')
    BY <2>1, <2>2, <2>6, AnswerHistory DEF Sound
  <2>8. Sound(mem', issued')
    BY <2>1, <2>2, <2>4, <2>6, <2>7, SoundUnmarked DEF Sound, Due, Open
  <2>9. Batch(mem', todo')
    BY <2>1, <2>4 DEF Batch, IsInjective
  <2>10. MarksInPlace'
    BY <2>1, <2>4, <2>6 DEF MarksInPlace, Past, Before
  <2>11. Grows(mem, mem')
    BY <2>1, <2>6, MessageTypes DEF Grows
  <2> QED BY <2>1, <2>4, <2>8, <2>9, <2>10, <2>11, TurnHist
<1>4. CASE BeginTurn
  <2> DEFINE s == IF op = "run" /\ ~resumed THEN AppendTo(mem, UserMessage) ELSE mem
  <2>1. pc = "input" /\ mem \in Sessions /\ UserMessage \in Messages
        /\ UserMessage.calls = <<>> /\ UserMessage.call = NoCall
    BY <1>4, MessageTypes DEF BeginTurn, TypeOK, UserMessage
  <2>2. /\ s \in Sessions /\ (s.msgs = mem.msgs \/ s.msgs = Append(mem.msgs, UserMessage))
        /\ s.state = mem.state /\ s.pending = mem.pending /\ s.wa = mem.wa /\ s.ckpt = mem.ckpt
    BY <2>1, AppendType, AppendMarks DEF AppendTo, Sessions
  <2>3. /\ \/ (~Durable \/ s.ckpt = "running") /\ mem' = s /\ GoTo(IF op = "run" THEN "loop" ELSE "decide")
           \/ Durable /\ SaveThen([s EXCEPT !.ckpt = "running", !.wa = NoCall],
                       IF op = "run" THEN "loop" ELSE "decide")
        /\ UNCHANGED <<store, todo, issued, op>>
    BY <1>4, FlagAssumption DEF BeginTurn, history, turnVars
  <2> HIDE DEF s
  <2>4. mem.wa = NoCall /\ mem.state = "active" /\ mem.pending = NoCall
    BY <2>1 DEF MarksInPlace, Sound, At, Before
  <2>5. /\ mem' \in Sessions /\ mem'.msgs = s.msgs /\ mem'.state = "active"
        /\ mem'.pending = NoCall /\ mem'.wa = NoCall
        /\ At' = IF op = "run" THEN "loop" ELSE "decide"
        /\ IF Durable THEN mem'.ckpt = "running" ELSE mem'.ckpt = mem.ckpt
    <3>1. CASE mem' = s /\ (~Durable \/ s.ckpt = "running")
               /\ GoTo(IF op = "run" THEN "loop" ELSE "decide")
      BY <2>2, <2>4, <3>1 DEF GoTo, At
    <3>2. CASE Durable /\ SaveThen([s EXCEPT !.ckpt = "running", !.wa = NoCall],
                                  IF op = "run" THEN "loop" ELSE "decide")
      <4>1. mem' = [s EXCEPT !.ckpt = "running", !.wa = NoCall] /\ pc' = "save"
            /\ after' = IF op = "run" THEN "loop" ELSE "decide"
        BY <3>2 DEF SaveThen
      <4>2. mem' \in Sessions
        BY <2>2, <4>1, SessionUpdateTypes DEF CallIds
      <4> QED BY <2>2, <2>4, <3>2, <4>1, <4>2 DEF At, Sessions
    <3> QED BY <2>3, <3>1, <3>2
  <2>6. /\ Requested(mem') = Requested(mem) /\ Answered(mem') = Answered(mem) /\ InOrder(mem')
        /\ Batch(mem', todo)
    <3>1. CASE s.msgs = mem.msgs
      BY <2>5, <3>1, SameHistory DEF Sound
    <3>2. CASE s.msgs = Append(mem.msgs, UserMessage)
      BY <2>1, <2>5, <3>2, InputHistory DEF Sound
    <3> QED BY <2>2, <3>1, <3>2
  <2>7. Sound(mem', issued')
    BY <2>3, <2>4, <2>5, <2>6 DEF Sound
  <2>8. MarksInPlace'
    BY <2>1, <2>3, <2>5 DEF MarksInPlace, Past, Before, At
  <2>9. Grows(mem, mem')
    BY <2>1, <2>2, <2>5 DEF Grows
  <2> QED BY <2>1, <2>3, <2>6, <2>7, <2>8, <2>9, TurnHist
<1>5. CASE ExecuteDecided
  BY <1>5, StartHist DEF ExecuteDecided, history, HasHead, At
<1>6. CASE RejectDecided
  <2>1. pc = "decide" /\ todo # <<>> /\ mem \in Sessions /\ Head(todo) \in Calls
    BY <1>6, HeadTailTypes DEF RejectDecided, HasHead, At, TypeOK
  <2>2. PICK status \in Answers : CheckpointStep(Record(Head(todo), status), "loop")
    BY <1>6 DEF RejectDecided, Answers
  <2>3. Record(Head(todo), status) \in Sessions
    BY <2>1, RecordType
  <2>4. /\ mem' \in Sessions /\ mem'.msgs = Append(mem.msgs, ToolMessage(Head(todo), status))
        /\ SameMarks(mem) /\ mem'.wa = NoCall /\ At' = "loop"
    BY <2>1, <2>2, <2>3, StepSession DEF SameMarks, Record, AppendTo, Sessions, Places
  <2> QED BY <1>6, <2>1, <2>4, AnswerHist DEF RejectDecided, history, At
<1> QED BY <1>1, <1>2, <1>3, <1>4, <1>5, <1>6 DEF HeadStep

LEMMA LoopHist == HInv /\ LoopStep => HistInv'
<1> SUFFICES ASSUME HInv, LoopStep PROVE HistInv'
  OBVIOUS
<1> USE DEF HInv, HistInv
<1>1. ASSUME pc \in {"loop", "chat", "answer"}, pc' \in {"chat", "finish", "parallel", "next"},
             UNCHANGED <<store, mem, todo, issued>>
      PROVE  HistInv'
  <2>1. MarksInPlace'
    BY <1>1 DEF MarksInPlace, At, Past, Before
  <2> QED BY <1>1, <2>1, QuietHist
<1>2. ASSUME NEW why \in {"cancelled", "budget", "max_iterations"}, StopTurn(why)
      PROVE  HistInv'
  BY <1>1, <1>2 DEF StopTurn, GoTo, history
<1>3. CASE CallModel \/ FinalAnswer \/ DispatchBatch
  BY <1>1, <1>3 DEF CallModel, FinalAnswer, DispatchBatch, GoTo, history
<1>4. CASE ModelFails \/ OutputInvalid
  BY <1>4, LeaveTurnHist DEF ModelFails, OutputInvalid, FailTurn, history
<1>5. ASSUME NEW batch \in BoundedSeq(Calls \ issued, MaxBatch), ModelAnswers(batch)
      PROVE  HistInv'
  <2>1. batch \in Seq(Calls) /\ \A i \in DOMAIN batch : batch[i] \in Calls \ issued
    BY BoundAssumption DEF BoundedSeq, SeqOf
  <2>2. /\ pc = "chat" /\ mem \in Sessions /\ mem.state = "active" /\ IsInjective(batch)
        /\ todo' = batch /\ issued' = issued \cup ToSet(batch) /\ UNCHANGED store
        /\ CheckpointStep(AppendTo(mem, AssistantMessage(batch)), "answer")
    BY <1>5 DEF ModelAnswers, TypeOK, MarksInPlace, At, Past
  <2>3. AssistantMessage(batch) \in Messages /\ AppendTo(mem, AssistantMessage(batch)) \in Sessions
    BY <2>1, <2>2, MessageTypes, AppendType
  <2>4. /\ mem' \in Sessions /\ mem'.msgs = Append(mem.msgs, AssistantMessage(batch))
        /\ SameMarks(mem) /\ mem'.wa = NoCall /\ At' = "answer"
    BY <2>2, <2>3, StepSession DEF SameMarks, AppendTo, Sessions, Places
  <2>5. \A i \in DOMAIN batch : batch[i] \notin Requested(mem) \cup Answered(mem)
    BY <2>1 DEF Sound
  <2>6. /\ Requested(mem') = Requested(mem) \cup ToSet(batch) /\ Answered(mem') = Answered(mem)
        /\ InOrder(mem') /\ Batch(mem', batch)
    BY <2>1, <2>2, <2>4, <2>5, AskHistory DEF Sound
  <2>7. Sound(mem', issued')
    BY <2>2, <2>4, <2>6, SoundUnmarked DEF Sound, SameMarks
  <2>8. MarksInPlace'
    BY <2>2, <2>4 DEF MarksInPlace, SameMarks, At, Past, Before
  <2>9. Grows(mem, mem')
    BY <2>3, <2>4 DEF Grows
  <2> QED BY <2>2, <2>6, <2>7, <2>8, <2>9, TurnHist
<1> QED BY <1>2, <1>3, <1>4, <1>5 DEF LoopStep

LEMMA ToolHist == HInv /\ ToolStep => HistInv'
<1> SUFFICES ASSUME HInv, ToolStep PROVE HistInv'
  OBVIOUS
<1> USE DEF HInv, HistInv
<1>1. ASSUME NEW status \in Answers, pc = "next", SkipHead(status)
      PROVE  HistInv'
  <2>1. todo # <<>> /\ mem \in Sessions /\ Head(todo) \in Calls /\ mem.wa = NoCall
    BY <1>1, HeadTailTypes DEF HasHead, At, TypeOK, MarksInPlace
  <2>2. mem' = Record(Head(todo), status) /\ mem' \in Sessions
    BY <1>1, <2>1, RecordType DEF SkipHead
  <2>3. /\ mem'.msgs = Append(mem.msgs, ToolMessage(Head(todo), status))
        /\ SameMarks(mem) /\ mem'.wa = NoCall
    BY <2>1, <2>2 DEF SameMarks, Record, AppendTo, Sessions
  <2>4. At' \in {"loop", "next"} /\ At \in Past
    BY <1>1 DEF SkipHead, GoTo, AfterCall, At, Past
  <2> QED BY <1>1, <2>1, <2>2, <2>3, <2>4, AnswerHist DEF SkipHead, history
<1>2. CASE RejectCall
  BY <1>1, <1>2 DEF RejectCall, Answers
<1>3. CASE StartCall
  BY <1>3, StartHist DEF StartCall, history, HasHead, At
<1>4. CASE HumanApproves
  BY <1>4, StartHist DEF HumanApproves, AsksHuman, HasHead, At
<1>5. CASE HumanDenies
  BY <1>1, <1>5 DEF HumanDenies, AsksHuman, Answers
<1>6. CASE PauseForHuman
  <2> DEFINE c == Head(todo)
  <2>1. /\ pc = "next" /\ todo # <<>> /\ mem \in Sessions /\ mem.wa = NoCall
        /\ mem.state = "active" /\ c \in Confirm /\ c \in Calls
    BY <1>6, HeadTailTypes
    DEF PauseForHuman, AsksHuman, HasHead, At, TypeOK, MarksInPlace, Past
  <2>2. Due(mem, c) /\ c # NoCall
    BY <2>1, BatchFacts, ClassAssumption DEF Batch
  <2>3. /\ mem'.msgs = mem.msgs /\ mem'.state = "awaiting" /\ mem'.pending = c
        /\ mem'.wa = NoCall /\ mem'.ckpt = mem.ckpt /\ At' = "finish" /\ todo' = <<>>
        /\ UNCHANGED <<store, issued>>
    BY <1>6, <2>1 DEF PauseForHuman, SaveThen, At, Sessions, history
  <2> HIDE DEF c
  <2>4. Due(mem', c) /\ InOrder(mem')
        /\ Requested(mem') = Requested(mem) /\ Answered(mem') = Answered(mem)
    BY <2>2, <2>3, SameHistory DEF Sound
  <2>5. Sound(mem', issued')
    BY <2>1, <2>2, <2>3, <2>4 DEF Sound
  <2>6. Batch(mem', todo') /\ MarksInPlace'
    BY <2>3 DEF Batch, IsInjective, MarksInPlace, Past, Before
  <2> QED BY <2>1, <2>3, <2>5, <2>6, TurnHist DEF Grows
<1>7. ASSUME NEW status \in {"ok", "error"}, InvokeTool(status)
      PROVE  HistInv'
  <2>1. pc = "invoke" /\ todo # <<>> /\ mem \in Sessions /\ Head(todo) \in Calls
    BY <1>7, HeadTailTypes DEF InvokeTool, HasHead, At, TypeOK
  <2>2. CheckpointStep(Record(Head(todo), status), AfterCall(Tail(todo)))
        /\ AfterCall(Tail(todo)) \in {"loop", "next"} /\ status \in Answers
    BY <1>7 DEF InvokeTool, AfterCall, Answers
  <2>3. Record(Head(todo), status) \in Sessions
    BY <2>1, <2>2, RecordType
  <2>4. /\ mem' \in Sessions /\ mem'.msgs = Append(mem.msgs, ToolMessage(Head(todo), status))
        /\ SameMarks(mem) /\ mem'.wa = NoCall /\ At' \in {"loop", "next"}
    BY <2>1, <2>2, <2>3, StepSession DEF SameMarks, Record, AppendTo, Sessions, Places
  <2> QED BY <1>7, <2>1, <2>2, <2>4, AnswerHist DEF InvokeTool, At, Past
<1>8. ASSUME NEW status \in {"ok", "error"}, NEW c \in Calls, ParallelInvoke(c, status)
      PROVE  HistInv'
  <2>1. MarksInPlace'
    BY <1>8 DEF ParallelInvoke, MarksInPlace, At
  <2> QED BY <1>8, <2>1, QuietHist DEF ParallelInvoke
<1>9. CASE ParallelCollect
  <2> DEFINE out == [c \in Calls |-> IF outcome[c] = "none" THEN "error" ELSE outcome[c]]
             t == [mem EXCEPT !.msgs = @ \o ParallelResults]
  <2>1. /\ pc = "parallel" /\ mem \in Sessions /\ mem.state = "active" /\ todo \in Seq(Calls)
        /\ \A i \in DOMAIN todo : outcome[todo[i]] # "none" /\ todo[i] \in Calls
        /\ CheckpointStep(t, "loop") /\ todo' = <<>> /\ UNCHANGED <<store, issued>>
    BY <1>9 DEF ParallelCollect, CollectAs, TypeOK, MarksInPlace, At, Past, history
  <2>2. out \in [Calls -> Answers] /\ \A i \in DOMAIN todo : outcome[todo[i]] = out[todo[i]]
    BY <2>1 DEF TypeOK, Answers
  <2>3. ParallelResults = [i \in DOMAIN todo |-> ToolMessage(todo[i], out[todo[i]])]
    BY <2>2 DEF ParallelResults
  <2>4. \A i \in DOMAIN todo : ToolMessage(todo[i], out[todo[i]]) \in Messages
    BY <2>1, <2>2, MessageTypes
  <2>5. ParallelResults \in Seq(Messages)
    <3>1. DOMAIN todo = 1 .. Len(todo) /\ Len(todo) \in Nat
      BY <2>1
    <3> HIDE DEF out
    <3> QED BY <2>3, <2>4, <3>1
  <2>6. t \in Sessions /\ t.msgs = mem.msgs \o ParallelResults /\ t.state = mem.state
        /\ t.pending = mem.pending /\ t.ckpt = mem.ckpt
    BY <1>9, <2>1, CollectType DEF Sessions
  <2> HIDE DEF out, t
  <2>7. /\ mem' \in Sessions /\ mem'.msgs = mem.msgs \o ParallelResults
        /\ SameMarks(mem) /\ mem'.wa = NoCall /\ At' = "loop"
    BY <2>1, <2>6, StepSession DEF SameMarks, Places
  <2>8. /\ Requested(mem') = Requested(mem)
        /\ Answered(mem') = Answered(mem) \cup ToSet(todo) /\ InOrder(mem')
    BY <2>1, <2>2, <2>3, <2>7, CollectHistory DEF Sound
  <2>9. ToSet(todo) \subseteq Requested(mem)
    BY DEF Batch, Due, Open, ToSet
  <2>10. Sound(mem', issued')
    BY <2>1, <2>7, <2>8, <2>9, SoundUnmarked DEF Sound, SameMarks
  <2>11. Batch(mem', todo')
    BY <2>1 DEF Batch, IsInjective
  <2>12. MarksInPlace'
    BY <2>1, <2>7 DEF MarksInPlace, SameMarks, At, Past, Before
  <2>13. Grows(mem, mem')
    BY <2>5, <2>7 DEF Grows
  <2> QED BY <2>1, <2>10, <2>11, <2>12, <2>13, TurnHist
<1> QED BY <1>2, <1>3, <1>4, <1>5, <1>6, <1>7, <1>8, <1>9 DEF ToolStep

LEMMA EndHist == HInv /\ EndStep => HistInv'
<1> SUFFICES ASSUME HInv, EndStep PROVE HistInv'
  OBVIOUS
<1> USE DEF HInv, HistInv
<1>1. CASE FinishTurn
  <2>1. pc = "finish" /\ mem \in Sessions /\ mem.wa = NoCall /\ UNCHANGED <<store, todo, issued>>
    BY <1>1 DEF FinishTurn, TypeOK, MarksInPlace, At, history
  <2>2. /\ mem'.msgs = mem.msgs /\ mem'.state = mem.state /\ mem'.pending = mem.pending
        /\ mem'.wa = NoCall /\ At' = "done"
        /\ \/ mem'.ckpt = mem.ckpt
           \/ mem.ckpt # "none" /\ mem'.ckpt = "completed"
           \/ mem.ckpt # "none" /\ mem.pending # NoCall /\ mem'.ckpt = "awaiting"
    BY <1>1, <2>1 DEF FinishTurn, FinishCheckpoint, Checkpointing, SaveThen, At, Sessions
  <2>3. /\ Requested(mem') = Requested(mem) /\ Answered(mem') = Answered(mem)
        /\ \A c : Due(mem', c) <=> Due(mem, c)
        /\ InOrder(mem') <=> InOrder(mem)
        /\ Batch(mem', todo) <=> Batch(mem, todo)
    BY <2>2, SameHistory
  <2>4. Sound(mem', issued')
    BY <2>1, <2>2, <2>3 DEF Sound
  <2>5. Batch(mem', todo') /\ MarksInPlace'
    BY <2>1, <2>2, <2>3 DEF MarksInPlace, Past, Before
  <2> QED BY <2>1, <2>2, <2>4, <2>5, TurnHist DEF Grows
<1>2. CASE SaveSession
  <2>1. /\ store' = mem /\ mem \in Sessions /\ At' = At /\ pc' = after
        /\ UNCHANGED <<mem, todo, issued, op>>
    BY <1>2 DEF SaveSession, GoTo, At, HasHead, TypeOK, turnVars, history
  <2>2. Extends'
    BY <2>1, PrefixSelf DEF Extends, Sessions
  <2>3. MarksInPlace'
    BY <2>1 DEF MarksInPlace
  <2> QED BY <2>1, <2>2, <2>3
<1>3. CASE SaveFails \/ Return
  BY <1>3, LeaveTurnHist DEF SaveFails, Return, FailTurn, history
<1> QED BY <1>1, <1>2, <1>3 DEF EndStep

LEMMA InitHist == Init => HistInv
<1> SUFFICES ASSUME Init PROVE HistInv
  OBVIOUS
<1>1. /\ store = NewSession /\ mem = NewSession /\ todo = <<>> /\ pc = "idle" /\ At = "idle"
      /\ NewSession.wa = NoCall
  BY DEF Init, At, NewSession
<1>2. Sound(store, issued) /\ Sound(mem, issued)
  BY <1>1, SoundNew
<1>3. Batch(mem, todo) /\ Extends /\ MarksInPlace
  BY <1>1 DEF Batch, IsInjective, Extends, MarksInPlace, Past, Before
<1> QED BY <1>2, <1>3 DEF HistInv

LEMMA NextHist == HInv /\ [Next]_vars => HInv'
<1> SUFFICES ASSUME HInv, [Next]_vars PROVE HInv'
  OBVIOUS
<1>1. TypeOK' /\ HasHead'
  BY NextTypes DEF HInv
<1>2. CASE HostStep \/ EngineStep
  BY <1>1, <1>2, HostHist, HeadHist, LoopHist, ToolHist, EndHist DEF EngineStep, HInv
<1>3. CASE Crash
  BY <1>1, <1>3, LeaveTurnHist DEF Crash, HInv, history
<1>4. CASE UNCHANGED vars
  <2>1. UNCHANGED <<store, mem, pc, todo, issued, op>> /\ At' = At
    BY <1>4 DEF vars, At
  <2>2. Sound(store', issued') /\ Sound(mem', issued') /\ Batch(mem', todo')
    BY <2>1 DEF HInv, HistInv
  <2>3. Extends' /\ MarksInPlace'
    BY <2>1 DEF HInv, HistInv, Extends, MarksInPlace
  <2> QED BY <1>1, <2>2, <2>3 DEF HInv, HistInv
<1> QED BY <1>2, <1>3, <1>4 DEF Next

LEMMA HistoryInvariant == Spec => []HInv
<1>1. Init => HInv
  BY InitTypes, InitHist DEF HInv
<1> QED BY <1>1, NextHist, PTL DEF Spec

(* No save, successful or reported as failed, and no crash rewrites or     *)
(* shortens the history the store holds: every turn only appends to it.    *)
THEOREM HistoryKept == Spec => HistoryOnlyGrows
<1>1. HInv /\ [Next]_vars => [IsPrefix(store.msgs, store'.msgs)]_store
  <2> SUFFICES ASSUME HInv, [Next]_vars PROVE IsPrefix(store.msgs, store'.msgs) \/ UNCHANGED store
    OBVIOUS
  <2>1. UNCHANGED store \/ (pc = "save" /\ store' \in {store, mem})
    BY DEF Next, vars, HostStep, Run, ResolveConfirmation, BeginOperation, EngineStep, HeadStep,
           FetchCatalog, NothingToReconcile, Reconcile, BeginTurn, ExecuteDecided, RejectDecided,
           LoopStep, StopTurn, CallModel, ModelFails, ModelAnswers, FinalAnswer, OutputInvalid,
           DispatchBatch, ToolStep, RejectCall, SkipHead, StartCall, HumanApproves, HumanDenies,
           PauseForHuman, InvokeTool, ParallelInvoke, ParallelCollect, CollectAs, EndStep,
           FinishTurn, SaveSession, SaveFails, Return, Crash
  <2> QED BY <2>1 DEF HInv, HistInv, Extends
<1> QED BY <1>1, HistoryInvariant, PTL DEF Spec, HistoryOnlyGrows

(* State, pending call, checkpoint and write-ahead of the stored session   *)
(* agree at every instant, whatever crashes in between.                    *)
THEOREM StoreAgrees == Spec => []StoreConsistent
<1>1. HInv => StoreConsistent
  BY DEF HInv, HistInv, Sound, StoreConsistent, Due, Open
<1> QED BY <1>1, HistoryInvariant, PTL

(* If the calls that need a confirmation come with ids, a session saved as *)
(* awaiting waits for a call that ResolveConfirmation finds unanswered.    *)
THEOREM PauseResolvable ==
  ASSUME NoId \cap Confirm = {} PROVE Spec => []AwaitingIsResolvable
<1>1. HInv => AwaitingIsResolvable
  BY DEF HInv, HistInv, Sound, AwaitingIsResolvable, FindPendingCall, Due, Open
<1> QED BY <1>1, HistoryInvariant, PTL

(* On every path (sequential, parallel, resumed, reconciled) the results   *)
(* stand in the order of the calls, one per call.                          *)
THEOREM ResultsInCallOrder == Spec => []ResultsFollowCallOrder
<1>1. HInv => ResultsFollowCallOrder
  BY DEF HInv, HistInv, Sound, InOrder, Precedes, ResultsFollowCallOrder
<1> QED BY <1>1, HistoryInvariant, PTL

----------------------------------------------------------------------------
(* AnsweredBeforeAsking.  Without durability and without confirmations the *)
(* store never holds half a batch, and what is open in memory is the rest  *)
(* of the batch in hand; a turn comes back to its loop with none.          *)

NothingLeftOpen ==
  /\ op = "run"
  /\ Open(store) = {}
  /\ Open(mem) \subseteq ToSet(todo)
  /\ At \in Before \cup {"loop", "chat", "finish", "done"} => todo = <<>>
  /\ pc = "save" => after = "done"

OInv == HInv /\ NothingLeftOpen

LEMMA NoPause ==
  ASSUME Confirm = {}, HInv
  PROVE  store.state = "active" /\ store.state # "awaiting"
  BY DEF HInv, HistInv, Sound, TypeOK, Sessions

LEMMA TailSet ==
  ASSUME NEW q \in Seq(Calls), q # <<>>
  PROVE  ToSet(q) = {Head(q)} \cup ToSet(Tail(q))
<1>1. Len(q) \in Nat \ {0} /\ DOMAIN q = 1 .. Len(q) /\ Head(q) = q[1]
  OBVIOUS
<1>2. DOMAIN Tail(q) = 1 .. (Len(q) - 1) /\ \A i \in 1 .. (Len(q) - 1) : Tail(q)[i] = q[i + 1]
  OBVIOUS
<1>3. \A i \in DOMAIN Tail(q) : i + 1 \in DOMAIN q /\ Tail(q)[i] = q[i + 1]
  BY <1>1, <1>2
<1>4. \A i \in DOMAIN q : i = 1 \/ i - 1 \in DOMAIN Tail(q)
  BY <1>1, <1>2
<1>5. \A i \in DOMAIN q : i = 1 \/ (i - 1 \in DOMAIN Tail(q) /\ Tail(q)[i - 1] = q[i])
  BY <1>1, <1>2, <1>4
<1>6. 1 \in DOMAIN q
  BY <1>1
<1>7. ASSUME NEW c \in ToSet(q) PROVE c \in {Head(q)} \cup ToSet(Tail(q))
  <2>1. PICK i \in DOMAIN q : q[i] = c
    BY DEF ToSet
  <2> QED BY <1>1, <1>5, <2>1 DEF ToSet
<1>8. ASSUME NEW c \in ToSet(Tail(q)) PROVE c \in ToSet(q)
  <2>1. PICK i \in DOMAIN Tail(q) : Tail(q)[i] = c
    BY DEF ToSet
  <2> QED BY <1>3, <2>1 DEF ToSet
<1>9. Head(q) \in ToSet(q)
  BY <1>1, <1>6 DEF ToSet
<1> QED BY <1>7, <1>8, <1>9

(* The head of the batch is answered, and nothing is saved.                *)
LEMMA AnswerOpen ==
  ASSUME OInv, todo # <<>>, todo' = Tail(todo), UNCHANGED <<store, op>>,
         NEW status \in Answers, mem' \in Sessions,
         mem'.msgs = Append(mem.msgs, ToolMessage(Head(todo), status)),
         GoTo(AfterCall(Tail(todo)))
  PROVE  NothingLeftOpen'
<1>1. mem \in Sessions /\ todo \in Seq(Calls) /\ Batch(mem, todo) /\ InOrder(mem)
  BY DEF OInv, HInv, HistInv, TypeOK, Sound
<1>2. Requested(mem') = Requested(mem) /\ Answered(mem') = Answered(mem) \cup {Head(todo)}
  BY <1>1, AnswerBatch
<1>3. Open(mem') \subseteq ToSet(todo')
  BY <1>1, <1>2, TailSet DEF OInv, NothingLeftOpen, Open
<1>4. /\ pc' \in {"loop", "next"} /\ At' = pc'
      /\ pc' = "loop" => todo' = <<>>
  BY DEF GoTo, AfterCall, At
<1> QED BY <1>3, <1>4 DEF OInv, NothingLeftOpen, Before

LEMMA NextOpen == ~Durable /\ Confirm = {} /\ OInv /\ [Next]_vars => NothingLeftOpen'
<1> SUFFICES ASSUME ~Durable, Confirm = {}, OInv, [Next]_vars PROVE NothingLeftOpen'
  OBVIOUS
<1> USE DEF OInv
<1>1. /\ mem \in Sessions /\ store \in Sessions /\ todo \in Seq(Calls) /\ op = "run"
      /\ mem.ckpt = "none" /\ Open(store) = {} /\ Open(mem) \subseteq ToSet(todo)
  BY DEF HInv, HistInv, TypeOK, Sound, NothingLeftOpen
<1>2. ASSUME NEW s, NEW next, CheckpointStep(s, next)
      PROVE  GoTo(next) /\ mem' = [s EXCEPT !.wa = NoCall]
  BY <1>2 DEF CheckpointStep, SaveCheckpoint, Checkpointing
<1>3. ASSUME UNCHANGED <<store, mem, todo, op>>, pc' # "save",
             pc' \in Before \cup {"loop", "chat", "finish", "done"} => todo = <<>>
      PROVE  NothingLeftOpen'
  BY <1>3 DEF NothingLeftOpen, At
<1>4. ASSUME NEW how, LeaveTurn(how),
             store' = store \/ (store' = mem /\ Open(mem) = {})
      PROVE  NothingLeftOpen'
  <2>1. /\ pc' = "idle" /\ At' = "idle" /\ mem' = NewSession /\ todo' = <<>> /\ op' = op
    BY <1>4 DEF LeaveTurn, GoTo, At
  <2>2. Open(store') = {}
    BY <1>1, <1>4
  <2>3. Open(mem') = {}
    BY <2>1 DEF Open, Requested, NewSession
  <2> QED BY <1>1, <2>1, <2>2, <2>3 DEF NothingLeftOpen, Before
<1>5. CASE HostStep
  <2>1. /\ mem' = store /\ todo' = <<>> /\ op' = "run" /\ store' = store /\ pc' = "catalog"
        /\ At' = "catalog"
    BY <1>5, NoPause DEF HostStep, Run, ResolveConfirmation, BeginOperation, GoTo, At
  <2>2. Open(mem') = {} /\ Open(store') = {}
    BY <1>1, <2>1
  <2> QED BY <2>1, <2>2 DEF NothingLeftOpen, Before
<1>6. CASE HeadStep
  <2>1. CASE FetchCatalog \/ NothingToReconcile
    BY <1>3, <2>1 DEF FetchCatalog, NothingToReconcile, GoTo, turnVars, NothingLeftOpen, At, Before
  <2>2. ~Reconcile /\ pc # "decide"
    BY <1>1 DEF Reconcile, Interrupted, Checkpointing, HInv, HasHead, At
  <2>3. CASE BeginTurn
    <3> DEFINE s == IF op = "run" /\ ~resumed THEN AppendTo(mem, UserMessage) ELSE mem
    <3>1. /\ mem' = s /\ pc = "input" /\ pc' = "loop" /\ At' = "loop"
          /\ UNCHANGED <<store, todo, op>>
      BY <1>1, <2>3 DEF BeginTurn, GoTo, At, turnVars
    <3>2. s \in Sessions /\ (s.msgs = mem.msgs \/ s.msgs = Append(mem.msgs, UserMessage))
      BY <1>1, AppendType, MessageTypes DEF AppendTo, Sessions
    <3> HIDE DEF s
    <3>3. Requested(s) = Requested(mem) /\ Answered(s) = Answered(mem)
      BY <1>1, <3>2, SameHistory, InputHistory
    <3>4. todo = <<>>
      BY <3>1 DEF NothingLeftOpen, At, Before
    <3>5. Open(mem') = Open(mem)
      BY <3>1, <3>3 DEF Open
    <3> QED BY <1>1, <3>1, <3>4, <3>5 DEF NothingLeftOpen
  <2> QED BY <1>6, <2>1, <2>2, <2>3 DEF HeadStep, ExecuteDecided, RejectDecided
<1>7. CASE LoopStep
  <2>1. ASSUME NEW why \in {"cancelled", "budget", "max_iterations"}, StopTurn(why)
        PROVE  NothingLeftOpen'
    BY <1>3, <2>1 DEF StopTurn, GoTo, turnVars, NothingLeftOpen, At, Before
  <2>2. CASE CallModel \/ FinalAnswer \/ DispatchBatch
    BY <1>3, <2>2
    DEF CallModel, FinalAnswer, DispatchBatch, GoTo, turnVars, NothingLeftOpen, At, Before
  <2>3. CASE ModelFails \/ OutputInvalid
    BY <1>4, <2>3 DEF ModelFails, OutputInvalid, FailTurn
  <2>4. ASSUME NEW batch \in BoundedSeq(Calls \ issued, MaxBatch), ModelAnswers(batch)
        PROVE  NothingLeftOpen'
    <3>1. batch \in Seq(Calls)
      BY BoundAssumption DEF BoundedSeq, SeqOf
    <3>2. /\ pc = "chat" /\ todo' = batch /\ UNCHANGED <<store, op>>
          /\ mem' = [AppendTo(mem, AssistantMessage(batch)) EXCEPT !.wa = NoCall]
          /\ pc' = "answer" /\ At' = "answer"
      BY <1>2, <2>4 DEF ModelAnswers, turnVars, GoTo, At
    <3>3. AssistantMessage(batch) \in Messages /\ AppendTo(mem, AssistantMessage(batch)) \in Sessions
      BY <1>1, <3>1, MessageTypes, AppendType
    <3>4. mem' \in Sessions
      BY <3>2, <3>3, SessionUpdateTypes DEF CallIds
    <3>5. mem'.msgs = Append(mem.msgs, AssistantMessage(batch))
      BY <1>1, <3>2, <3>3 DEF AppendTo, Sessions
    <3>6. Requested(mem') = Requested(mem) \cup ToSet(batch)
          /\ Answered(mem') = (Answered(mem) \cup {NoCall}) \ {NoCall}
      BY <1>1, <3>3, <3>4, <3>5, AppendHistory DEF AssistantMessage
    <3>7. todo = <<>> /\ ToSet(todo) = {}
      BY <3>2 DEF NothingLeftOpen, At, ToSet
    <3>8. Open(mem') \subseteq ToSet(batch)
      BY <1>1, <3>6, <3>7 DEF Open, Answered
    <3> QED BY <1>1, <3>2, <3>8 DEF NothingLeftOpen, Before
  <2> QED BY <1>7, <2>1, <2>2, <2>3, <2>4 DEF LoopStep
<1>8. CASE ToolStep
  <2>1. ASSUME NEW status \in Answers, pc = "next", SkipHead(status)
        PROVE  NothingLeftOpen'
    <3>1. todo # <<>> /\ Head(todo) \in Calls
      BY <2>1, HeadTailTypes DEF HInv, HasHead, At
    <3>2. mem' = Record(Head(todo), status) /\ mem' \in Sessions
      BY <2>1, <3>1, RecordType DEF SkipHead, HInv
    <3>3. mem'.msgs = Append(mem.msgs, ToolMessage(Head(todo), status))
      BY <1>1, <3>2 DEF Record, AppendTo, Sessions
    <3> QED BY <2>1, <3>1, <3>2, <3>3, AnswerOpen DEF SkipHead, turnVars
  <2>2. CASE RejectCall
    BY <2>1, <2>2 DEF RejectCall, Answers
  <2>3. CASE StartCall
    <3>1. mem' = mem /\ pc' = "invoke"
      BY <1>1, <2>3 DEF StartCall, CheckpointToolStart, SaveCheckpoint, Checkpointing, GoTo
    <3> QED BY <1>3, <2>3, <3>1 DEF StartCall, turnVars, Before
  <2>4. ~AsksHuman
    BY DEF AsksHuman
  <2>5. ASSUME NEW status \in {"ok", "error"}, InvokeTool(status)
        PROVE  NothingLeftOpen'
    <3>1. pc = "invoke" /\ todo # <<>> /\ Head(todo) \in Calls /\ status \in Answers
      BY <2>5, HeadTailTypes DEF InvokeTool, HInv, HasHead, At, Answers
    <3>2. Record(Head(todo), status) \in Sessions
      BY <3>1, RecordType DEF HInv
    <3>3. mem' = [Record(Head(todo), status) EXCEPT !.wa = NoCall]
          /\ GoTo(AfterCall(Tail(todo)))
      BY <1>2, <2>5 DEF InvokeTool
    <3>4. mem' \in Sessions
      BY <3>2, <3>3, SessionUpdateTypes DEF CallIds
    <3>5. mem'.msgs = Append(mem.msgs, ToolMessage(Head(todo), status))
      BY <1>1, <3>2, <3>3 DEF Record, AppendTo, Sessions
    <3> QED BY <2>5, <3>1, <3>3, <3>4, <3>5, AnswerOpen DEF InvokeTool, turnVars
  <2>6. ASSUME NEW status \in {"ok", "error"}, NEW c \in Calls, ParallelInvoke(c, status)
        PROVE  NothingLeftOpen'
    BY <1>3, <2>6 DEF ParallelInvoke, Before
  <2>7. CASE ParallelCollect
    <3> DEFINE t == [mem EXCEPT !.msgs = @ \o ParallelResults]
    <3>1. /\ CheckpointStep(t, "loop") /\ todo' = <<>> /\ UNCHANGED <<store, op>>
          /\ \A i \in DOMAIN todo : outcome[todo[i]] # "none" /\ todo[i] \in Calls
      BY <1>1, <2>7 DEF ParallelCollect, CollectAs
    <3>2. t \in Sessions /\ t.msgs = mem.msgs \o ParallelResults
      BY <1>1, <2>7, CollectType DEF HInv, Sessions
    <3> HIDE DEF t
    <3>3. mem' = [t EXCEPT !.wa = NoCall] /\ pc' = "loop" /\ At' = "loop"
      BY <1>2, <3>1 DEF GoTo, At
    <3>4. mem' \in Sessions /\ mem'.msgs = mem.msgs \o ParallelResults
      BY <3>3, <3>2, SessionUpdateTypes DEF CallIds, Sessions
    <3> DEFINE out == [c \in Calls |-> IF outcome[c] = "none" THEN "error" ELSE outcome[c]]
    <3>5. out \in [Calls -> Answers] /\ \A i \in DOMAIN todo : outcome[todo[i]] = out[todo[i]]
      BY <3>1 DEF HInv, TypeOK, Answers
    <3>6. ParallelResults = [i \in DOMAIN todo |-> ToolMessage(todo[i], out[todo[i]])]
      BY <3>5 DEF ParallelResults
    <3> HIDE DEF out
    <3>7. Requested(mem') = Requested(mem) /\ Answered(mem') = Answered(mem) \cup ToSet(todo)
      BY <1>1, <3>4, <3>5, <3>6, CollectHistory DEF HInv, HistInv, Sound
    <3>8. Open(mem') = {}
      BY <1>1, <3>7 DEF Open
    <3> QED BY <1>1, <3>1, <3>8, <3>3 DEF NothingLeftOpen
  <2> QED BY <1>8, <2>2, <2>3, <2>4, <2>5, <2>6, <2>7
          DEF ToolStep, HumanApproves, HumanDenies, PauseForHuman
<1>9. CASE EndStep
  <2>1. CASE FinishTurn
    <3>1. /\ mem'.msgs = mem.msgs /\ pc = "finish" /\ pc' = "save" /\ after' = "done"
          /\ At' = "done" /\ UNCHANGED <<store, todo, op>>
      BY <1>1, <2>1 DEF FinishTurn, FinishCheckpoint, SaveThen, At, Sessions, turnVars
    <3>2. Open(mem') = Open(mem) /\ todo = <<>>
      BY <3>1, SameHistory DEF NothingLeftOpen, At, Open
    <3> QED BY <1>1, <3>1, <3>2 DEF NothingLeftOpen
  <2>2. ASSUME pc = "save" PROVE Open(mem) = {} /\ todo = <<>> /\ after = "done"
    BY <1>1, <2>2 DEF NothingLeftOpen, At, ToSet
  <2>3. CASE SaveSession
    <3>1. /\ store' = mem /\ pc' = "done" /\ At' = "done" /\ UNCHANGED <<mem, todo, op>>
      BY <2>2, <2>3 DEF SaveSession, GoTo, At, turnVars
    <3>2. pc = "save" /\ after = "done" /\ Open(mem) = {} /\ todo = <<>>
      BY <2>2, <2>3 DEF SaveSession
    <3> QED BY <1>1, <3>1, <3>2 DEF NothingLeftOpen
  <2>4. CASE SaveFails
    BY <1>4, <2>2, <2>4 DEF SaveFails, FailTurn
  <2>5. CASE Return
    BY <1>4, <2>5 DEF Return
  <2> QED BY <1>9, <2>1, <2>3, <2>4, <2>5 DEF EndStep
<1>10. CASE Crash
  BY <1>4, <1>10 DEF Crash
<1>11. CASE UNCHANGED vars
  BY <1>11 DEF vars, NothingLeftOpen, At
<1> QED BY <1>5, <1>6, <1>7, <1>8, <1>9, <1>10, <1>11 DEF Next, EngineStep

(* Without durability, and when no call waits for a human, the model is    *)
(* asked only once every call of the history has its result: no dangling   *)
(* call reaches a provider, which would refuse the whole request.          *)
THEOREM AskedOnlyWhenAnswered ==
  ASSUME ~Durable, Confirm = {} PROVE Spec => []AnsweredBeforeAsking
<1>1. Init => NothingLeftOpen
  BY DEF Init, NothingLeftOpen, Open, Requested, NewSession, At, Before
<1>2. OInv => AnsweredBeforeAsking
  BY DEF OInv, NothingLeftOpen, AnsweredBeforeAsking, Open, At, ToSet
<1>3. HInv /\ HInv' /\ NothingLeftOpen /\ [Next]_vars => NothingLeftOpen'
  BY NextOpen DEF OInv
<1>4. HInv /\ NothingLeftOpen => AnsweredBeforeAsking
  BY <1>2 DEF OInv
<1> QED BY <1>1, <1>3, <1>4, HistoryInvariant, PTL DEF Spec
----------------------------------------------------------------------------
(* Durable turns.                                                          *)

LEMMA OnceInvariant == ASSUME Durable PROVE Spec => []IInv
<1>1. Init => IInv
  BY InitTypes, InitOnce DEF IInv
<1> QED BY <1>1, NextOnce, PTL DEF Spec

----------------------------------------------------------------------------
(* CheckpointMatchesResult.  The reason a turn ends for and the session it *)
(* ends with agree from the place that decides the end to the last save.   *)

Closed(s) ==
  /\ result = "paused" => s.state = "awaiting" /\ s.ckpt = "awaiting"
  /\ result = "cancelled" => s.state = "active" /\ s.ckpt = "running"
  /\ result \in {"completed", "budget", "max_iterations"} =>
       s.state = "active" /\ s.ckpt = "completed"

EndInv ==
  /\ At = "finish" => /\ mem.ckpt = "running"
                      /\ result \notin {"none", "error"}
                      /\ (mem.state = "awaiting") <=> (result = "paused")
  /\ At = "done" /\ op = "run" => Closed(mem)
  /\ pc \in {"idle", "done"} /\ op = "run" => Closed(store)
  /\ pc = "save" => after # "idle"

(* Steps that neither decide the end of the turn nor come after it.        *)
LEMMA MidTurn ==
  ASSUME At' \notin {"finish", "done", "idle"}
  PROVE  EndInv'
  BY DEF EndInv, At

LEMMA LeaveTurnEnd ==
  ASSUME NEW how, LeaveTurn(how), how \in {"none", "error"} \/ (how = result /\ pc = "done"),
         UNCHANGED store \/ how = "error", EndInv
  PROVE  EndInv'
  BY DEF LeaveTurn, GoTo, EndInv, Closed, At

LEMMA StepAt ==
  ASSUME NEW s, NEW next, next # "save", CheckpointStep(s, next)
  PROVE  At' = next
  BY DEF CheckpointStep, SaveCheckpoint, SaveThen, GoTo, At

LEMMA StartAt ==
  ASSUME NEW c, CheckpointToolStart(c)
  PROVE  At' = "invoke"
  BY DEF CheckpointToolStart, SaveCheckpoint, SaveThen, GoTo, At

LEMMA EndNext == Durable /\ HInv /\ EndInv /\ [Next]_vars => EndInv'
<1> SUFFICES ASSUME Durable, HInv, EndInv, [Next]_vars PROVE EndInv'
  OBVIOUS
<1>1. CASE HostStep
  BY <1>1, MidTurn DEF HostStep, Run, ResolveConfirmation, BeginOperation, GoTo, At
<1>2. CASE HeadStep
  <2>1. CASE FetchCatalog \/ NothingToReconcile
    BY <2>1, MidTurn DEF FetchCatalog, NothingToReconcile, GoTo, At
  <2>2. CASE Reconcile \/ RejectDecided
    BY <2>2, StepAt, MidTurn DEF Reconcile, RejectDecided
  <2>3. CASE BeginTurn
    BY <2>3, MidTurn DEF BeginTurn, SaveThen, GoTo, At
  <2>4. CASE ExecuteDecided
    BY <2>4, StartAt, MidTurn DEF ExecuteDecided
  <2> QED BY <1>2, <2>1, <2>2, <2>3, <2>4 DEF HeadStep
<1>3. ASSUME pc \in {"loop", "answer"}, At' = "finish", UNCHANGED mem, pc' = "finish",
             result' \in {"cancelled", "budget", "max_iterations", "completed"}
      PROVE  EndInv'
  <2>1. mem.ckpt = "running" /\ mem.state = "active"
    BY <1>3 DEF HInv, HistInv, MarksInPlace, At, Past
  <2> QED BY <1>3, <2>1 DEF EndInv
<1>4. CASE LoopStep
  <2>1. ASSUME NEW why \in {"cancelled", "budget", "max_iterations"}, StopTurn(why)
        PROVE  EndInv'
    BY <1>3, <2>1 DEF StopTurn, GoTo, At
  <2>2. CASE FinalAnswer
    BY <1>3, <2>2 DEF FinalAnswer, GoTo, At
  <2>3. CASE CallModel \/ DispatchBatch
    BY <2>3, MidTurn DEF CallModel, DispatchBatch, GoTo, At
  <2>4. CASE ModelFails \/ OutputInvalid
    BY <2>4, LeaveTurnEnd DEF ModelFails, OutputInvalid, FailTurn
  <2>5. ASSUME NEW batch, ModelAnswers(batch) PROVE EndInv'
    BY <2>5, StepAt, MidTurn DEF ModelAnswers
  <2> QED BY <1>4, <2>1, <2>2, <2>3, <2>4, <2>5 DEF LoopStep
<1>5. CASE ToolStep
  <2>1. ASSUME NEW status, SkipHead(status) PROVE EndInv'
    BY <2>1, MidTurn DEF SkipHead, GoTo, AfterCall, At
  <2>2. CASE StartCall \/ HumanApproves
    BY <2>2, StartAt, MidTurn DEF StartCall, HumanApproves
  <2>3. CASE PauseForHuman
    <3>1. pc = "next" /\ mem.ckpt = "running" /\ mem \in Sessions
      BY <2>3 DEF PauseForHuman, AsksHuman, HInv, HistInv, TypeOK, MarksInPlace, At, Past
    <3>2. /\ At' = "finish" /\ pc' = "save" /\ after' = "finish" /\ result' = "paused"
          /\ mem'.state = "awaiting" /\ mem'.ckpt = "running"
      BY <2>3, <3>1 DEF PauseForHuman, SaveThen, At, Sessions
    <3> QED BY <3>2 DEF EndInv
  <2>4. ASSUME NEW status, InvokeTool(status) PROVE EndInv'
    <3>1. AfterCall(Tail(todo)) \in {"loop", "next"}
      BY DEF AfterCall
    <3> QED BY <2>4, <3>1, StepAt, MidTurn DEF InvokeTool
  <2>5. ASSUME NEW status, NEW c, ParallelInvoke(c, status) PROVE EndInv'
    BY <2>5, MidTurn DEF ParallelInvoke, At
  <2>6. CASE ParallelCollect
    BY <2>6, StepAt, MidTurn DEF ParallelCollect, CollectAs
  <2> QED BY <1>5, <2>1, <2>2, <2>3, <2>4, <2>5, <2>6 DEF ToolStep, RejectCall, HumanDenies
<1>6. CASE EndStep
  <2>1. CASE FinishTurn
    <3>1. /\ pc = "finish" /\ mem \in Sessions /\ mem.ckpt = "running"
          /\ result \notin {"none", "error"} /\ (mem.state = "awaiting") <=> (result = "paused")
          /\ (mem.state = "awaiting") <=> (mem.pending # NoCall)
          /\ mem.state \in {"active", "awaiting"}
      BY <2>1 DEF FinishTurn, EndInv, At, HInv, HistInv, Sound, TypeOK, Sessions
    <3>2. /\ At' = "done" /\ pc' = "save" /\ after' = "done" /\ result' = result /\ op' = op
          /\ mem' = IF op = "run" THEN FinishCheckpoint(mem) ELSE mem
      BY <2>1 DEF FinishTurn, SaveThen, At, turnVars
    <3>3. op = "run" => Closed(mem)'
      <4>1. CASE op = "run"
        <5>1. mem'.state = mem.state
              /\ mem'.ckpt = IF mem.pending # NoCall THEN "awaiting"
                            ELSE IF result = "cancelled" THEN mem.ckpt ELSE "completed"
          BY <3>1, <3>2, <4>1 DEF FinishCheckpoint, Checkpointing, Sessions
        <5> QED BY <3>1, <3>2, <5>1 DEF Closed
      <4> QED BY <4>1
    <3> QED BY <3>2, <3>3 DEF EndInv
  <2>2. CASE SaveSession
    <3>1. /\ pc = "save" /\ store' = mem /\ pc' = after /\ At' = At /\ after # "save"
          /\ UNCHANGED <<mem, op, result>> /\ At = after
      BY <2>2 DEF SaveSession, GoTo, At, HInv, HasHead, turnVars
    <3> QED BY <3>1 DEF EndInv, Closed
  <2>3. CASE SaveFails
    BY <2>3, LeaveTurnEnd DEF SaveFails, FailTurn
  <2>4. CASE Return
    BY <2>4, LeaveTurnEnd DEF Return
  <2> QED BY <1>6, <2>1, <2>2, <2>3, <2>4 DEF EndStep
<1>7. CASE Crash
  BY <1>7, LeaveTurnEnd DEF Crash
<1>8. CASE UNCHANGED vars
  BY <1>8 DEF vars, EndInv, Closed, At
<1> QED BY <1>1, <1>2, <1>4, <1>5, <1>6, <1>7, <1>8 DEF Next, EngineStep

(* What Run tells the host is what the next operation finds in the store:  *)
(* a paused turn can be resolved, a cancelled one is resumed, any other    *)
(* one is closed, whatever failed or crashed on the way.                   *)
THEOREM CheckpointAnnounced ==
  ASSUME Durable PROVE Spec => []CheckpointMatchesResult
<1>1. Init => EndInv
  BY DEF Init, EndInv, Closed, At
<1>2. HInv /\ HInv' /\ EndInv /\ [Next]_vars => EndInv'
  BY EndNext
<1>3. EndInv => CheckpointMatchesResult
  BY DEF EndInv, Closed, CheckpointMatchesResult
<1> QED BY <1>1, <1>2, <1>3, HistoryInvariant, PTL DEF Spec

----------------------------------------------------------------------------
(* TruthfulAnswers, of the stored history as well as of the one in memory. *)

(* The result of a call agrees with the number of times it was executed.   *)
Told(m, count) ==
  m.status # "none" =>
    /\ m.call \in Calls
    /\ m.status \in {"denied", "rejected"} => count[m.call] = 0
    /\ m.status \in {"ok", "error"} => count[m.call] > 0

Truthful(s, count) == \A i \in DOMAIN s.msgs : Told(s.msgs[i], count)

(* The outcome of a parallel call is known once it was executed.           *)
OutcomeHappened == \A c \in Calls : outcome[c] # "none" => invoked[c] > 0

TruthInv == Truthful(store, invoked) /\ Truthful(mem, invoked) /\ OutcomeHappened

LEMMA TruthSame ==
  ASSUME NEW s, NEW t, t.msgs = s.msgs, NEW count, Truthful(s, count)
  PROVE  Truthful(t, count)
  BY DEF Truthful

LEMMA TruthAppend ==
  ASSUME NEW s \in Sessions, NEW t, NEW m \in Messages, t.msgs = Append(s.msgs, m),
         NEW count, Truthful(s, count), Told(m, count)
  PROVE  Truthful(t, count)
<1>1. /\ DOMAIN t.msgs = DOMAIN s.msgs \cup {Len(s.msgs) + 1}
      /\ \A i \in DOMAIN s.msgs : t.msgs[i] = s.msgs[i]
      /\ t.msgs[Len(s.msgs) + 1] = m
  BY DEF Sessions
<1> QED BY <1>1 DEF Truthful

(* Executing a call falsifies nothing that was told of other calls.        *)
LEMMA TruthCount ==
  ASSUME NEW s, NEW count \in [Calls -> Nat], NEW c \in Calls, c \notin Answered(s),
         Truthful(s, count)
  PROVE  Truthful(s, [count EXCEPT ![c] = @ + 1])
<1>1. \A i \in DOMAIN s.msgs : s.msgs[i].call # c
  BY ClassAssumption DEF Answered
<1> QED BY <1>1 DEF Truthful, Told

LEMMA PrefixKnows ==
  ASSUME NEW s \in Sessions, NEW t \in Sessions, IsPrefix(s.msgs, t.msgs)
  PROVE  Requested(s) \subseteq Requested(t) /\ Answered(s) \subseteq Answered(t)
<1>1. /\ s.msgs \in Seq(Messages) /\ t.msgs \in Seq(Messages)
  BY DEF Sessions
<1>2. \A i \in DOMAIN s.msgs : i \in DOMAIN t.msgs /\ t.msgs[i] = s.msgs[i]
  BY <1>1, PrefixMeans
<1> QED BY <1>2 DEF Requested, Answered

LEMMA LeaveTurnTruth ==
  ASSUME TruthInv, NEW how, LeaveTurn(how), store' \in {store, mem}, UNCHANGED history
  PROVE  TruthInv'
  BY DEF LeaveTurn, TruthInv, Truthful, NewSession, OutcomeHappened, NoOutcome, history

(* A step that executes nothing and appends one message at most.           *)
LEMMA QuietTruth ==
  ASSUME TypeOK, TruthInv, UNCHANGED <<store, invoked, outcome>>,
         \/ mem'.msgs = mem.msgs
         \/ \E m \in Messages : mem'.msgs = Append(mem.msgs, m) /\ Told(m, invoked)
  PROVE  TruthInv'
<1>1. Truthful(mem', invoked)
  BY TruthSame, TruthAppend DEF TruthInv, TypeOK
<1> QED BY <1>1 DEF TruthInv, OutcomeHappened

(* A call that no history in hand holds a result of reaches its tool.      *)
LEMMA CountTruth ==
  ASSUME HInv, TruthInv, pc # "idle", NEW c \in Calls, c \notin Answered(mem), CountInvocation(c)
  PROVE  /\ Truthful(store, invoked') /\ Truthful(mem, invoked')
         /\ invoked' \in [Calls -> Nat] /\ invoked'[c] > 0
         /\ \A d \in Calls : invoked[d] > 0 => invoked'[d] > 0
<1>1. /\ mem \in Sessions /\ store \in Sessions /\ invoked \in [Calls -> Nat]
      /\ IsPrefix(store.msgs, mem.msgs)
  BY DEF HInv, HistInv, TypeOK, Extends
<1>2. c \notin Answered(store)
  BY <1>1, PrefixKnows
<1>3. invoked' = [invoked EXCEPT ![c] = @ + 1]
  BY DEF CountInvocation
<1>4. Truthful(store, invoked) /\ Truthful(mem, invoked)
  BY DEF TruthInv
<1>5. Truthful(store, invoked')
  BY <1>1, <1>2, <1>3, <1>4, TruthCount
<1>6. Truthful(mem, invoked')
  BY <1>1, <1>3, <1>4, TruthCount
<1> QED BY <1>1, <1>3, <1>5, <1>6

(* A call is executed and its result appended.                             *)
LEMMA ExecuteTruth ==
  ASSUME HInv, TruthInv, pc # "idle", NEW c \in Calls, c \notin Answered(mem),
         NEW status \in {"ok", "error"}, CountInvocation(c), UNCHANGED <<store, outcome>>,
         mem'.msgs = Append(mem.msgs, ToolMessage(c, status))
  PROVE  TruthInv'
<1>1. mem \in Sessions /\ outcome' = outcome
  BY DEF HInv, TypeOK
<1>2. /\ Truthful(store, invoked') /\ Truthful(mem, invoked')
      /\ invoked' \in [Calls -> Nat] /\ invoked'[c] > 0
      /\ \A d \in Calls : invoked[d] > 0 => invoked'[d] > 0
  BY CountTruth
<1>3. status \in Answers
  BY DEF Answers
<1>4. ToolMessage(c, status) \in Messages
  BY <1>3, MessageTypes
<1>5. Told(ToolMessage(c, status), invoked')
  BY <1>2 DEF Told, ToolMessage
<1>6. Truthful(mem', invoked')
  BY <1>1, <1>2, <1>4, <1>5, TruthAppend
<1>7. OutcomeHappened'
  BY <1>1, <1>2 DEF TruthInv, OutcomeHappened
<1> QED BY <1>2, <1>6, <1>7 DEF TruthInv

(* What a sequence put after another one holds.                            *)
LEMMA ConcatIs ==
  ASSUME NEW S, NEW a \in Seq(S), NEW b \in Seq(S)
  PROVE  /\ DOMAIN (a \o b) = 1 .. (Len(a) + Len(b))
         /\ \A i \in 1 .. Len(a) : (a \o b)[i] = a[i]
         /\ \A i \in 1 .. Len(a) + Len(b) : i > Len(a) => (a \o b)[i] = b[i - Len(a)]
  OBVIOUS

(* The results of a parallel batch are those of calls that were executed.  *)
LEMMA CollectTruth ==
  ASSUME TypeOK, TruthInv, ParallelCollect, NEW t, t.msgs = mem.msgs \o ParallelResults
  PROVE  Truthful(t, invoked)
<1> DEFINE n == Len(mem.msgs)
<1>1. /\ n \in Nat /\ DOMAIN mem.msgs = 1 .. n /\ mem.msgs \in Seq(Messages)
      /\ DOMAIN todo = 1 .. Len(todo) /\ Len(todo) \in Nat
      /\ \A i \in DOMAIN todo : todo[i] \in Calls /\ outcome[todo[i]] \in {"ok", "error"}
  BY DEF TypeOK, Sessions, ParallelCollect, CollectAs
<1>2. \A i \in DOMAIN todo : Told(ParallelResults[i], invoked)
  BY <1>1 DEF ParallelResults, Told, ToolMessage, TruthInv, OutcomeHappened
<1>3. ParallelResults \in Seq(Messages) /\ Len(ParallelResults) = Len(todo)
  <2>1. \A i \in DOMAIN todo : ToolMessage(todo[i], outcome[todo[i]]) \in Messages
    BY <1>1, MessageTypes DEF Answers
  <2> QED BY <1>1, <2>1 DEF ParallelResults
<1> DEFINE r == ParallelResults
<1> HIDE DEF n, r
<1>4. /\ DOMAIN t.msgs = 1 .. (n + Len(todo))
      /\ \A i \in 1 .. n : t.msgs[i] = mem.msgs[i]
      /\ \A i \in DOMAIN t.msgs : i > n => i - n \in DOMAIN todo /\ t.msgs[i] = r[i - n]
  <2>1. r \in Seq(Messages) /\ Len(r) = Len(todo) /\ t.msgs = mem.msgs \o r
    BY <1>3 DEF r
  <2>2. /\ DOMAIN (mem.msgs \o r) = 1 .. (Len(mem.msgs) + Len(r))
        /\ \A i \in 1 .. Len(mem.msgs) : (mem.msgs \o r)[i] = mem.msgs[i]
        /\ \A i \in 1 .. Len(mem.msgs) + Len(r) :
             i > Len(mem.msgs) => (mem.msgs \o r)[i] = r[i - Len(mem.msgs)]
    BY <1>1, <2>1, ConcatIs
  <2>3. ASSUME NEW i \in 1 .. (n + Len(todo)), i > n
        PROVE  i - n \in DOMAIN todo
    BY <1>1, <2>3
  <2> QED BY <2>1, <2>2, <2>3 DEF n
<1>5. ASSUME NEW i \in DOMAIN t.msgs PROVE Told(t.msgs[i], invoked)
  <2>1. CASE i <= n
    <3>1. i \in DOMAIN mem.msgs /\ t.msgs[i] = mem.msgs[i]
      BY <1>1, <1>4, <1>5, <2>1
    <3> QED BY <3>1 DEF TruthInv, Truthful
  <2>2. CASE i > n
    BY <1>2, <1>4, <2>2 DEF r
  <2> QED BY <1>1, <1>4, <2>1, <2>2
<1> QED BY <1>5 DEF Truthful

(* A call refused by the turn has not reached its tool.                    *)
LEMMA RefuseTruth ==
  ASSUME IInv, TruthInv, todo # <<>>, pc # "parallel", NEW status \in {"denied", "rejected"},
         mem'.msgs = Append(mem.msgs, ToolMessage(Head(todo), status)),
         UNCHANGED <<store, invoked, outcome>>
  PROVE  TruthInv'
<1>1. Head(todo) \in Calls /\ Head(todo) = todo[1] /\ 1 \in DOMAIN todo
  BY HeadTailTypes, BatchFacts DEF IInv
<1>2. invoked[Head(todo)] = 0
  BY <1>1 DEF IInv, OnceInv, BatchUntouched, NoOutcome
<1>3. Told(ToolMessage(Head(todo), status), invoked)
  BY <1>1, <1>2 DEF Told, ToolMessage
<1>4. ToolMessage(Head(todo), status) \in Messages
  BY <1>1, MessageTypes DEF Answers
<1> QED BY <1>3, <1>4, QuietTruth DEF IInv

LEMMA ToolStartHistory ==
  ASSUME mem \in Sessions, NEW c, CheckpointToolStart(c)
  PROVE  mem'.msgs = mem.msgs
  BY DEF CheckpointToolStart, SaveCheckpoint, SaveThen, Sessions

LEMMA HeadTruth == IInv /\ HInv /\ TruthInv /\ HeadStep => TruthInv'
<1> SUFFICES ASSUME IInv, HInv, TruthInv, HeadStep PROVE TruthInv'
  OBVIOUS
<1>1. TypeOK /\ mem \in Sessions
  BY DEF IInv, TypeOK
<1>2. CASE FetchCatalog \/ NothingToReconcile
  BY <1>1, <1>2, QuietTruth DEF FetchCatalog, NothingToReconcile, turnVars, history
<1>3. CASE Reconcile
  <2> DEFINE c == mem.wa
  <2>1. c \in Calls /\ pc = "reconcile" /\ UNCHANGED <<store, outcome>>
    BY <1>1, <1>3 DEF Reconcile, Interrupted, Sessions, CallIds, turnVars
  <2>2. PICK status \in Answers :
           /\ CheckpointStep(IF c \in Answered(mem) THEN mem ELSE Record(c, status), "input")
           /\ status \in IF MayReexecute(c) THEN {"ok", "error"} ELSE {"ambiguous"}
    BY <1>3 DEF Reconcile, Answers
  <2>3. IF MayReexecute(c) THEN CountInvocation(c) ELSE UNCHANGED invoked
    BY <1>3 DEF Reconcile
  <2> DEFINE t == IF c \in Answered(mem) THEN mem ELSE Record(c, status)
  <2>4. t \in Sessions
    BY <1>1, <2>1, RecordType
  <2>5. CheckpointStep(t, "input")
    BY <2>2
  <2> HIDE DEF c, t
  <2>6. mem'.msgs = t.msgs
    BY <2>4, <2>5, StepHistory
  <2>7. c \notin Answered(mem) => mem'.msgs = Append(mem.msgs, ToolMessage(c, status))
    BY <1>1, <2>6 DEF t, Record, AppendTo, Sessions
  <2>8. CASE c \in Answered(mem)
    <3>1. mem'.msgs = mem.msgs /\ UNCHANGED invoked
      BY <2>3, <2>6, <2>8 DEF t, MayReexecute
    <3> QED BY <1>1, <2>1, <3>1, QuietTruth
  <2>9. CASE MayReexecute(c)
    <3>1. c \notin Answered(mem) /\ status \in {"ok", "error"} /\ CountInvocation(c)
      BY <2>2, <2>3, <2>9 DEF MayReexecute, c
    <3> QED BY <2>1, <2>7, <3>1, ExecuteTruth
  <2>10. CASE c \notin Answered(mem) /\ ~MayReexecute(c)
    <3>1. status = "ambiguous" /\ UNCHANGED invoked
      BY <2>2, <2>3, <2>10 DEF c
    <3>2. ToolMessage(c, status) \in Messages /\ Told(ToolMessage(c, status), invoked)
      BY <2>1, <3>1, MessageTypes DEF Told, ToolMessage
    <3> QED BY <1>1, <2>1, <2>7, <2>10, <3>1, <3>2, QuietTruth
  <2> QED BY <2>8, <2>9, <2>10
<1>4. CASE BeginTurn
  <2>1. mem'.msgs = mem.msgs \/ mem'.msgs = Append(mem.msgs, UserMessage)
    BY <1>1, <1>4 DEF BeginTurn, SaveThen, AppendTo, Sessions
  <2>2. UserMessage \in Messages /\ Told(UserMessage, invoked)
    BY MessageTypes DEF UserMessage, Told
  <2> QED BY <1>1, <1>4, <2>1, <2>2, QuietTruth DEF BeginTurn, turnVars, history
<1>5. CASE ExecuteDecided
  BY <1>1, <1>5, ToolStartHistory, QuietTruth DEF ExecuteDecided, turnVars, history
<1>6. CASE RejectDecided
  <2>1. PICK status \in {"denied", "rejected"} : CheckpointStep(Record(Head(todo), status), "loop")
    BY <1>6 DEF RejectDecided
  <2>2. pc = "decide" /\ todo # <<>> /\ Head(todo) \in Calls
    BY <1>1, <1>6, HeadTailTypes DEF RejectDecided, IInv, HasHead, At
  <2>3. Record(Head(todo), status) \in Sessions
    BY <1>1, <2>2, RecordType DEF Answers
  <2>4. mem'.msgs = Record(Head(todo), status).msgs
    BY <2>1, <2>3, StepHistory
  <2>5. mem'.msgs = Append(mem.msgs, ToolMessage(Head(todo), status))
    BY <1>1, <2>4 DEF Record, AppendTo, Sessions
  <2> QED BY <1>6, <2>2, <2>5, RefuseTruth DEF RejectDecided, turnVars, history
<1> QED BY <1>2, <1>3, <1>4, <1>5, <1>6 DEF HeadStep

LEMMA LoopTruth == TypeOK /\ TruthInv /\ LoopStep => TruthInv'
<1> SUFFICES ASSUME TypeOK, TruthInv, LoopStep PROVE TruthInv'
  OBVIOUS
<1>1. ASSUME UNCHANGED <<store, mem, invoked, outcome>> PROVE TruthInv'
  BY <1>1, QuietTruth
<1>2. ASSUME NEW why \in {"cancelled", "budget", "max_iterations"}, StopTurn(why)
      PROVE  TruthInv'
  BY <1>1, <1>2 DEF StopTurn, turnVars, history
<1>3. CASE CallModel \/ FinalAnswer \/ DispatchBatch
  BY <1>1, <1>3 DEF CallModel, FinalAnswer, DispatchBatch, turnVars, history
<1>4. CASE ModelFails \/ OutputInvalid
  BY <1>4, LeaveTurnTruth DEF ModelFails, OutputInvalid, FailTurn
<1>5. ASSUME NEW batch \in BoundedSeq(Calls \ issued, MaxBatch), ModelAnswers(batch)
      PROVE  TruthInv'
  <2>1. batch \in Seq(Calls) /\ mem \in Sessions
    BY BoundAssumption DEF BoundedSeq, SeqOf, TypeOK
  <2>2. AssistantMessage(batch) \in Messages /\ Told(AssistantMessage(batch), invoked)
    BY <2>1, MessageTypes DEF AssistantMessage, Told
  <2>3. /\ CheckpointStep(AppendTo(mem, AssistantMessage(batch)), "answer")
        /\ UNCHANGED <<store, invoked, outcome>>
    BY <1>5 DEF ModelAnswers, turnVars
  <2>4. AppendTo(mem, AssistantMessage(batch)) \in Sessions
    BY <2>1, <2>2, AppendType
  <2>5. mem'.msgs = AppendTo(mem, AssistantMessage(batch)).msgs
    BY <2>3, <2>4, StepHistory
  <2>6. mem'.msgs = Append(mem.msgs, AssistantMessage(batch))
    BY <2>1, <2>5 DEF AppendTo, Sessions
  <2> QED BY <2>2, <2>3, <2>6, QuietTruth
<1> QED BY <1>2, <1>3, <1>4, <1>5 DEF LoopStep

LEMMA ToolTruth == IInv /\ HInv /\ TruthInv /\ ToolStep => TruthInv'
<1> SUFFICES ASSUME IInv, HInv, TruthInv, ToolStep PROVE TruthInv'
  OBVIOUS
<1>1. TypeOK /\ mem \in Sessions
  BY DEF IInv, TypeOK
<1>2. ASSUME NEW status \in {"denied", "rejected"}, pc = "next", SkipHead(status)
      PROVE  TruthInv'
  <2>1. todo # <<>>
    BY <1>2 DEF IInv, HasHead, At
  <2>2. mem'.msgs = Append(mem.msgs, ToolMessage(Head(todo), status))
    BY <1>1, <1>2 DEF SkipHead, Record, AppendTo, Sessions
  <2> QED BY <1>2, <2>1, <2>2, RefuseTruth DEF SkipHead, turnVars, history
<1>3. CASE RejectCall \/ HumanDenies
  BY <1>2, <1>3 DEF RejectCall, HumanDenies, AsksHuman
<1>4. CASE StartCall \/ HumanApproves
  BY <1>1, <1>4, ToolStartHistory, QuietTruth DEF StartCall, HumanApproves, turnVars, history
<1>5. CASE PauseForHuman
  <2>1. mem'.msgs = mem.msgs
    BY <1>1, <1>5 DEF PauseForHuman, SaveThen, Sessions
  <2> QED BY <1>1, <1>5, <2>1, QuietTruth DEF PauseForHuman, turnVars, history
<1>6. ASSUME NEW status \in {"ok", "error"}, InvokeTool(status)
      PROVE  TruthInv'
  <2>1. pc = "invoke" /\ todo # <<>> /\ Head(todo) \in Calls
    BY <1>1, <1>6, HeadTailTypes DEF InvokeTool, IInv, HasHead, At
  <2>2. Head(todo) \notin Answered(mem)
    BY <1>1, <2>1, BatchFacts DEF HInv, HistInv, Batch, Due, Open
  <2>3. CheckpointStep(Record(Head(todo), status), AfterCall(Tail(todo)))
    BY <1>6 DEF InvokeTool
  <2>4. Record(Head(todo), status) \in Sessions
    BY <1>1, <2>1, RecordType DEF Answers
  <2>5. mem'.msgs = Record(Head(todo), status).msgs
    BY <2>3, <2>4, StepHistory
  <2>6. mem'.msgs = Append(mem.msgs, ToolMessage(Head(todo), status))
    BY <1>1, <2>5 DEF Record, AppendTo, Sessions
  <2>7. CountInvocation(Head(todo)) /\ UNCHANGED <<store, outcome>>
    BY <1>6 DEF InvokeTool, turnVars
  <2> QED BY <2>1, <2>2, <2>6, <2>7, ExecuteTruth
<1>7. ASSUME NEW status \in {"ok", "error"}, NEW c \in Calls, ParallelInvoke(c, status)
      PROVE  TruthInv'
  <2>1. /\ pc = "parallel" /\ CountInvocation(c) /\ UNCHANGED <<store, mem>>
        /\ outcome' = [outcome EXCEPT ![c] = status] /\ c \in ToSet(todo)
    BY <1>7 DEF ParallelInvoke
  <2>2. c \notin Answered(mem)
    BY <2>1 DEF HInv, HistInv, Batch, Due, Open, ToSet
  <2>3. /\ Truthful(store, invoked') /\ Truthful(mem, invoked')
        /\ invoked'[c] > 0
        /\ \A d \in Calls : invoked[d] > 0 => invoked'[d] > 0
    BY <2>1, <2>2, CountTruth
  <2>4. OutcomeHappened'
    BY <1>1, <2>1, <2>3 DEF TruthInv, OutcomeHappened, TypeOK
  <2> QED BY <2>1, <2>3, <2>4 DEF TruthInv
<1>8. CASE ParallelCollect
  <2> DEFINE t == [mem EXCEPT !.msgs = @ \o ParallelResults]
  <2>1. t \in Sessions
    BY <1>1, <1>8, CollectType
  <2>2. t.msgs = mem.msgs \o ParallelResults
    BY <1>1 DEF Sessions
  <2>3. /\ CheckpointStep(t, "loop") /\ UNCHANGED <<store, invoked>>
        /\ outcome' = NoOutcome
    BY <1>8 DEF ParallelCollect, CollectAs, history
  <2> HIDE DEF t
  <2>4. mem'.msgs = mem.msgs \o ParallelResults
    BY <2>1, <2>2, <2>3, StepHistory
  <2>5. Truthful(mem', invoked)
    BY <1>1, <1>8, <2>4, CollectTruth
  <2> QED BY <2>3, <2>5 DEF TruthInv, OutcomeHappened, NoOutcome
<1> QED BY <1>3, <1>4, <1>5, <1>6, <1>7, <1>8 DEF ToolStep

LEMMA NextTruth == IInv /\ HInv /\ TruthInv /\ [Next]_vars => TruthInv'
<1> SUFFICES ASSUME IInv, HInv, TruthInv, [Next]_vars PROVE TruthInv'
  OBVIOUS
<1>1. TypeOK /\ mem \in Sessions /\ store \in Sessions
  BY DEF IInv, TypeOK
<1>2. CASE HostStep
  <2>1. mem'.msgs = store.msgs /\ UNCHANGED <<store, invoked, outcome>>
    BY <1>1, <1>2 DEF HostStep, Run, ResolveConfirmation, BeginOperation, ResumedSession, Sessions
  <2>2. Truthful(mem', invoked)
    BY <2>1, TruthSame DEF TruthInv
  <2> QED BY <2>1, <2>2 DEF TruthInv, OutcomeHappened
<1>3. CASE HeadStep \/ LoopStep \/ ToolStep
  BY <1>1, <1>3, HeadTruth, LoopTruth, ToolTruth
<1>4. CASE FinishTurn
  <2>1. mem'.msgs = mem.msgs
    BY <1>1, <1>4 DEF FinishTurn, FinishCheckpoint, SaveThen, Sessions
  <2> QED BY <1>1, <1>4, <2>1, QuietTruth DEF FinishTurn, turnVars, history
<1>5. CASE SaveSession
  BY <1>5 DEF SaveSession, turnVars, history, TruthInv, OutcomeHappened
<1>6. CASE SaveFails \/ Return \/ Crash
  BY <1>6, LeaveTurnTruth DEF SaveFails, Return, Crash, FailTurn
<1>7. CASE UNCHANGED vars
  BY <1>1, <1>7, QuietTruth DEF vars
<1> QED BY <1>2, <1>3, <1>4, <1>5, <1>6, <1>7 DEF Next, EngineStep, EndStep

(* What the history tells the model is true after any sequence of crashes, *)
(* failed saves, pauses and resumptions, on both paths: a call reported as *)
(* denied or rejected never reached its tool, one with a result did.       *)
THEOREM AnswersTruthful ==
  ASSUME Durable PROVE Spec => []TruthfulAnswers
<1>1. Init => TruthInv
  BY DEF Init, TruthInv, Truthful, OutcomeHappened, NewSession, NoOutcome
<1>2. TruthInv => TruthfulAnswers
  BY DEF TruthInv, Truthful, Told, TruthfulAnswers
<1> QED BY <1>1, <1>2, OnceInvariant, HistoryInvariant, NextTruth, PTL DEF Spec

----------------------------------------------------------------------------
(* KeepsLedger.  The session a save is about to store advances every entry *)
(* of the ledger: it keeps the write-ahead of the stored one or answers    *)
(* it, and marks or answers no call the stored history does not ask for.   *)

LedgerInv ==
  /\ Answered(store) \subseteq Requested(store)
  /\ pc # "idle" => store.wa \in Answered(mem) \cup {mem.wa, NoCall}
  /\ pc # "idle" => Answered(mem) \cup {mem.wa} \subseteq Requested(store) \cup {NoCall}
  /\ pc \notin {"idle", "save"} => Requested(mem) \subseteq Requested(store)

LInv == CInv /\ HInv /\ LedgerInv

(* A step between two saves: it answers the head or the write-ahead, sets  *)
(* a write-ahead for the head, or touches neither.                         *)
LEMMA TurnLedger ==
  ASSUME LedgerInv, pc \notin {"idle", "save"}, UNCHANGED store,
         Answered(mem) \subseteq Answered(mem'),
         mem.wa \in Answered(mem') \cup {mem'.wa, NoCall},
         Answered(mem') \cup {mem'.wa} \subseteq Answered(mem) \cup Requested(mem) \cup {NoCall},
         Requested(mem') = Requested(mem) \/ pc' = "save"
  PROVE  LedgerInv'
<1>1. Answered(store)' = Answered(store) /\ Requested(store)' = Requested(store)
  OBVIOUS
<1>2. Answered(mem') \cup {mem'.wa} \subseteq Requested(store) \cup {NoCall}
  BY DEF LedgerInv
<1>3. store.wa \in Answered(mem') \cup {mem'.wa, NoCall}
  BY DEF LedgerInv
<1>4. pc' \notin {"idle", "save"} => Requested(mem') \subseteq Requested(store)
  BY DEF LedgerInv
<1> QED BY <1>1, <1>2, <1>3, <1>4 DEF LedgerInv

(* The end of a turn leaves a store whose history it extended.             *)
LEMMA LeaveTurnLedger ==
  ASSUME LInv, pc # "idle", NEW how, LeaveTurn(how), store' \in {store, mem}
  PROVE  LedgerInv'
<1>1. mem \in Sessions /\ store \in Sessions /\ IsPrefix(store.msgs, mem.msgs) /\ pc' = "idle"
  BY DEF LInv, HInv, HistInv, Extends, TypeOK, LeaveTurn, GoTo
<1>2. Answered(mem) \subseteq Requested(mem)
  BY <1>1, PrefixKnows, ClassAssumption DEF LInv, LedgerInv, Answered
<1>3. Answered(store') \subseteq Requested(store')
  BY <1>2 DEF LInv, LedgerInv
<1> QED BY <1>1, <1>3 DEF LedgerInv

(* A result for the head of the batch, or for the write-ahead.             *)
LEMMA AnswerLedger ==
  ASSUME LedgerInv, mem \in Sessions, mem' \in Sessions, pc \notin {"idle", "save"},
         UNCHANGED store, NEW c \in Requested(mem), c \in Calls, NEW status \in Answers,
         mem'.msgs = Append(mem.msgs, ToolMessage(c, status)),
         mem.wa \in {c, NoCall}, mem'.wa = NoCall
  PROVE  LedgerInv'
<1>1. ToolMessage(c, status) \in Messages /\ ToolMessage(c, status).calls = <<>>
      /\ ToolMessage(c, status).call = c
  BY MessageTypes DEF ToolMessage
<1>2. /\ Requested(mem') = Requested(mem) \cup ToSet(<<>>)
      /\ Answered(mem') = (Answered(mem) \cup {c}) \ {NoCall}
  BY <1>1, AppendHistory
<1>3. Requested(mem') = Requested(mem) /\ Answered(mem') = Answered(mem) \cup {c}
  BY <1>2, ClassAssumption DEF Answered, ToSet
<1> QED BY <1>3, TurnLedger

(* The write-ahead of a call about to be executed.                         *)
LEMMA StartLedger ==
  ASSUME Durable, LInv, pc \in {"decide", "next"}, CheckpointToolStart(Head(todo)),
         UNCHANGED store
  PROVE  LedgerInv'
<1>1. mem \in Sessions /\ mem.ckpt = "running" /\ mem.wa = NoCall
  BY DEF LInv, CInv, IInv, OnceInv, TypeOK, PendingCleared, AccountInv, WriteAheadInProgress,
         At, Past, Before
<1>2. Head(todo) \in Requested(mem)
  BY BatchFacts DEF LInv, HInv, HistInv, HasHead, At, Batch, Due, Open
<1>3. mem'.wa = Head(todo) /\ pc' = "save" /\ mem'.msgs = mem.msgs
  BY <1>1, ToolStartMarks, ToolStartHistory
<1>4. Answered(mem') = Answered(mem) /\ Requested(mem') = Requested(mem)
  BY <1>3, SameHistory
<1> QED BY <1>1, <1>2, <1>3, <1>4, TurnLedger DEF LInv

(* A step that neither answers, asks nor marks.                            *)
LEMMA QuietLedger ==
  ASSUME LedgerInv, pc \notin {"idle", "save"}, UNCHANGED store, mem'.msgs = mem.msgs,
         mem'.wa = mem.wa
  PROVE  LedgerInv'
<1>1. Answered(mem') = Answered(mem) /\ Requested(mem') = Requested(mem)
  BY SameHistory
<1>2. mem.wa \in Requested(store) \cup {NoCall}
  BY DEF LedgerInv
<1>3. store.wa \in Answered(mem') \cup {mem'.wa, NoCall}
  BY <1>1 DEF LedgerInv
<1> QED BY <1>1, <1>2, <1>3 DEF LedgerInv

LEMMA HostLedger == LInv /\ HostStep => LedgerInv'
<1> SUFFICES ASSUME LInv, HostStep PROVE LedgerInv'
  OBVIOUS
<1>1. store \in Sessions /\ Answered(store) \subseteq Requested(store)
  BY DEF LInv, HInv, TypeOK, LedgerInv
<1>2. store.wa \in Requested(store) \cup {NoCall}
  BY DEF LInv, HInv, HistInv, Sound, Due, Open
<1>3. store.state = "awaiting" => store.wa = NoCall
  BY DEF LInv, CInv, AccountInv, PauseHasNoWriteAhead
<1>4. mem'.msgs = store.msgs /\ mem'.wa = store.wa /\ UNCHANGED store /\ pc' = "catalog"
  BY <1>1, <1>3 DEF HostStep, Run, ResolveConfirmation, BeginOperation, GoTo, ResumedSession, Sessions
<1>5. Answered(mem') = Answered(store) /\ Requested(mem') = Requested(store)
  BY <1>4, SameHistory
<1> QED BY <1>1, <1>2, <1>4, <1>5 DEF LedgerInv

LEMMA HeadLedger == Durable /\ LInv /\ HeadStep => LedgerInv'
<1> SUFFICES ASSUME Durable, LInv, HeadStep PROVE LedgerInv'
  OBVIOUS
<1>1. TypeOK /\ mem \in Sessions /\ todo \in Seq(Calls) /\ LedgerInv
  BY DEF LInv, HInv, TypeOK
<1>2. CASE FetchCatalog \/ NothingToReconcile
  BY <1>1, <1>2, QuietLedger DEF FetchCatalog, NothingToReconcile
<1>3. CASE Reconcile
  <2> DEFINE c == mem.wa
  <2>1. c \in Calls /\ pc = "reconcile" /\ UNCHANGED store
    BY <1>1, <1>3 DEF Reconcile, Interrupted, Sessions, CallIds
  <2>2. c \in Requested(mem) \ Answered(mem)
    BY <2>1, ClassAssumption DEF LInv, HInv, HistInv, Sound, Due, Open
  <2>3. PICK status \in Answers : CheckpointStep(Record(c, status), "input")
    BY <1>3, <2>2 DEF Reconcile, Answers
  <2>4. Record(c, status) \in Sessions
    BY <1>1, <2>1, RecordType
  <2> HIDE DEF c
  <2>5. mem' \in Sessions /\ mem'.msgs = Record(c, status).msgs /\ mem'.wa = NoCall
    BY <2>3, <2>4, StepSession DEF Places
  <2>6. mem'.msgs = Append(mem.msgs, ToolMessage(c, status))
    BY <1>1, <2>5 DEF Record, AppendTo, Sessions
  <2>7. mem.wa \in {c, NoCall}
    BY DEF c
  <2> QED BY <1>1, <2>1, <2>2, <2>5, <2>6, <2>7, AnswerLedger
<1>4. CASE BeginTurn
  <2>1. /\ pc = "input" /\ UNCHANGED store
        /\ mem'.wa = mem.wa
        /\ mem'.msgs = mem.msgs \/ mem'.msgs = Append(mem.msgs, UserMessage)
    <3>1. mem.wa = NoCall
      BY <1>4 DEF BeginTurn, LInv, CInv, AccountInv, WriteAheadInProgress, At
    <3> QED BY <1>1, <1>4, <3>1 DEF BeginTurn, SaveThen, AppendTo, Sessions
  <2>2. CASE mem'.msgs = Append(mem.msgs, UserMessage)
    <3>1. Answered(mem') = Answered(mem) /\ Requested(mem') = Requested(mem)
      BY <1>1, <2>2, NextTypes, InputHistory, <1>4
      DEF LInv, HInv, TypeOK, Next, EngineStep, HeadStep
    <3>2. mem.wa = NoCall
      BY <2>1 DEF LInv, CInv, AccountInv, WriteAheadInProgress, At
    <3> QED BY <1>1, <2>1, <3>1, <3>2, TurnLedger
  <2> QED BY <1>1, <2>1, <2>2, QuietLedger
<1>5. CASE ExecuteDecided
  BY <1>5, StartLedger DEF ExecuteDecided
<1>6. CASE RejectDecided
  <2>1. PICK status \in Answers : CheckpointStep(Record(Head(todo), status), "loop")
    BY <1>6 DEF RejectDecided, Answers
  <2>2. /\ pc = "decide" /\ todo # <<>> /\ Head(todo) \in Calls /\ UNCHANGED store
        /\ mem.wa = NoCall
    BY <1>1, <1>6, HeadTailTypes
    DEF RejectDecided, LInv, HInv, HasHead, At, CInv, AccountInv, WriteAheadInProgress
  <2>3. Head(todo) \in Requested(mem)
    BY <1>1, <2>2, BatchFacts DEF LInv, HInv, HistInv, Batch, Due, Open
  <2>4. Record(Head(todo), status) \in Sessions
    BY <1>1, <2>2, RecordType
  <2>5. mem' \in Sessions /\ mem'.msgs = Record(Head(todo), status).msgs /\ mem'.wa = NoCall
    BY <2>1, <2>4, StepSession DEF Places
  <2>6. mem'.msgs = Append(mem.msgs, ToolMessage(Head(todo), status))
    BY <1>1, <2>5 DEF Record, AppendTo, Sessions
  <2> QED BY <1>1, <2>2, <2>3, <2>5, <2>6, AnswerLedger
<1> QED BY <1>2, <1>3, <1>4, <1>5, <1>6 DEF HeadStep

LEMMA LoopLedger == Durable /\ LInv /\ LoopStep => LedgerInv'
<1> SUFFICES ASSUME Durable, LInv, LoopStep PROVE LedgerInv'
  OBVIOUS
<1>1. mem \in Sessions /\ LedgerInv
  BY DEF LInv, HInv, TypeOK
<1>2. ASSUME NEW why \in {"cancelled", "budget", "max_iterations"}, StopTurn(why)
      PROVE  LedgerInv'
  BY <1>1, <1>2, QuietLedger DEF StopTurn
<1>3. CASE CallModel \/ FinalAnswer \/ DispatchBatch
  BY <1>1, <1>3, QuietLedger DEF CallModel, FinalAnswer, DispatchBatch
<1>4. CASE ModelFails \/ OutputInvalid
  BY <1>4, LeaveTurnLedger DEF ModelFails, OutputInvalid, FailTurn
<1>5. ASSUME NEW batch \in BoundedSeq(Calls \ issued, MaxBatch), ModelAnswers(batch)
      PROVE  LedgerInv'
  <2>1. batch \in Seq(Calls)
    BY BoundAssumption DEF BoundedSeq, SeqOf
  <2>2. AssistantMessage(batch) \in Messages /\ AssistantMessage(batch).call = NoCall
    BY <2>1, MessageTypes DEF AssistantMessage
  <2>3. /\ CheckpointStep(AppendTo(mem, AssistantMessage(batch)), "answer")
        /\ UNCHANGED store /\ pc = "chat"
    BY <1>5 DEF ModelAnswers
  <2>4. mem.wa = NoCall /\ mem.ckpt = "running"
    BY <2>3 DEF LInv, CInv, IInv, OnceInv, PendingCleared, AccountInv, WriteAheadInProgress,
                At, Past
  <2>5. AppendTo(mem, AssistantMessage(batch)) \in Sessions
    BY <1>1, <2>2, AppendType
  <2>6. /\ mem' \in Sessions /\ mem'.msgs = AppendTo(mem, AssistantMessage(batch)).msgs
        /\ mem'.wa = NoCall
    BY <2>3, <2>5, StepSession DEF Places
  <2>7. mem'.msgs = Append(mem.msgs, AssistantMessage(batch))
    BY <1>1, <2>6 DEF AppendTo, Sessions
  <2>8. Answered(mem') = (Answered(mem) \cup {NoCall}) \ {NoCall}
    BY <1>1, <2>2, <2>6, <2>7, AppendHistory
  <2>9. Answered(mem') = Answered(mem)
    BY <2>8 DEF Answered
  <2>10. AppendTo(mem, AssistantMessage(batch)).ckpt = "running"
    BY <1>1, <2>2, <2>4, AppendMarks
  <2>11. pc' = "save"
    BY <2>3, <2>5, <2>10, StepMarks DEF Places
  <2> QED BY <1>1, <2>3, <2>4, <2>6, <2>9, <2>11, TurnLedger
<1> QED BY <1>2, <1>3, <1>4, <1>5 DEF LoopStep

LEMMA ToolLedger == Durable /\ LInv /\ ToolStep => LedgerInv'
<1> SUFFICES ASSUME Durable, LInv, ToolStep PROVE LedgerInv'
  OBVIOUS
<1>1. TypeOK /\ mem \in Sessions /\ LedgerInv
  BY DEF LInv, HInv, TypeOK
<1>2. ASSUME pc \in {"next", "invoke"}
      PROVE  todo # <<>> /\ Head(todo) \in Calls /\ Head(todo) \in Requested(mem)
  <2>1. todo # <<>> /\ Head(todo) \in Calls
    BY <1>1, <1>2, HeadTailTypes DEF LInv, HInv, HasHead, At
  <2> QED BY <1>1, <2>1, BatchFacts DEF LInv, HInv, HistInv, Batch, Due, Open
<1>3. pc = "next" => mem.wa = NoCall
  BY DEF LInv, CInv, AccountInv, WriteAheadInProgress, At
<1>4. ASSUME NEW status \in Answers, pc = "next", SkipHead(status)
      PROVE  LedgerInv'
  <2>1. mem' = Record(Head(todo), status) /\ UNCHANGED store
    BY <1>4 DEF SkipHead
  <2>2. mem' \in Sessions
    BY <1>1, <1>2, <1>4, <2>1, RecordType
  <2>3. mem'.msgs = Append(mem.msgs, ToolMessage(Head(todo), status)) /\ mem'.wa = mem.wa
    BY <1>1, <2>1 DEF Record, AppendTo, Sessions
  <2> QED BY <1>1, <1>2, <1>3, <1>4, <2>1, <2>2, <2>3, AnswerLedger
<1>5. CASE RejectCall \/ HumanDenies
  BY <1>4, <1>5 DEF RejectCall, HumanDenies, AsksHuman, Answers
<1>6. CASE StartCall \/ HumanApproves
  BY <1>6, StartLedger DEF StartCall, HumanApproves, AsksHuman
<1>7. CASE PauseForHuman
  <2>1. mem'.msgs = mem.msgs /\ mem'.wa = mem.wa
    BY <1>1, <1>7 DEF PauseForHuman, SaveThen, Sessions
  <2> QED BY <1>1, <1>7, <2>1, QuietLedger DEF PauseForHuman, AsksHuman
<1>8. ASSUME NEW status \in {"ok", "error"}, InvokeTool(status)
      PROVE  LedgerInv'
  <2>1. /\ CheckpointStep(Record(Head(todo), status), AfterCall(Tail(todo)))
        /\ UNCHANGED store /\ pc = "invoke"
    BY <1>8 DEF InvokeTool
  <2>2. status \in Answers /\ AfterCall(Tail(todo)) \in Places \ {"save"}
    BY DEF Answers, AfterCall, Places
  <2>3. Record(Head(todo), status) \in Sessions
    BY <1>1, <1>2, <2>1, <2>2, RecordType
  <2>4. mem' \in Sessions /\ mem'.msgs = Record(Head(todo), status).msgs /\ mem'.wa = NoCall
    BY <2>1, <2>2, <2>3, StepSession
  <2>5. mem'.msgs = Append(mem.msgs, ToolMessage(Head(todo), status))
    BY <1>1, <2>4 DEF Record, AppendTo, Sessions
  <2>6. mem.wa = Head(todo)
    BY <2>1 DEF LInv, CInv, AccountInv, WriteAheadInProgress, At
  <2> QED BY <1>1, <1>2, <2>1, <2>2, <2>4, <2>5, <2>6, AnswerLedger
<1>9. pc # "parallel"
  BY DEF LInv, CInv, AccountInv, NoParallelPath, At
<1> QED BY <1>5, <1>6, <1>7, <1>8, <1>9 DEF ToolStep, ParallelInvoke, ParallelCollect, CollectAs

LEMMA NextLedger == Durable /\ LInv /\ [Next]_vars => LedgerInv'
<1> SUFFICES ASSUME Durable, LInv, [Next]_vars PROVE LedgerInv'
  OBVIOUS
<1>1. mem \in Sessions /\ store \in Sessions /\ LedgerInv
  BY DEF LInv, HInv, TypeOK
<1>2. CASE HostStep \/ HeadStep \/ LoopStep \/ ToolStep
  BY <1>2, HostLedger, HeadLedger, LoopLedger, ToolLedger
<1>3. CASE FinishTurn
  <2>1. pc = "finish" /\ mem.wa = NoCall /\ UNCHANGED store
    BY <1>3 DEF FinishTurn, LInv, CInv, AccountInv, WriteAheadInProgress, At
  <2>2. mem'.msgs = mem.msgs /\ mem'.wa = mem.wa
    BY <1>1, <1>3, <2>1 DEF FinishTurn, FinishCheckpoint, SaveThen, Sessions
  <2> QED BY <1>1, <2>1, <2>2, QuietLedger
<1>4. CASE SaveSession
  <2>1. store' = mem /\ mem' = mem /\ pc = "save"
    BY <1>4 DEF SaveSession
  <2>2. Requested(store) \subseteq Requested(mem)
    BY <1>1, <2>1, PrefixKnows DEF LInv, HInv, HistInv, Extends
  <2>3. /\ Answered(mem) \subseteq Requested(mem)
        /\ mem.wa \in Requested(mem) \cup {NoCall}
    BY <1>1, <2>1, <2>2, ClassAssumption DEF LedgerInv, Answered
  <2> QED BY <2>1, <2>3 DEF LedgerInv
<1>5. CASE SaveFails \/ Return \/ Crash
  BY <1>5, LeaveTurnLedger DEF SaveFails, Return, Crash, FailTurn
<1>6. CASE UNCHANGED vars
  BY <1>1, <1>6 DEF vars, LedgerInv
<1> QED BY <1>2, <1>3, <1>4, <1>5, <1>6 DEF Next, EngineStep, EndStep

(* A save advances the entries.                                            *)
LEMMA SaveAdvances ==
  ASSUME LInv, pc = "save", store' \in {store, mem}, UNCHANGED invoked
  PROVE  Ledger!Advance \/ UNCHANGED LedgerEntry
<1>1. /\ mem \in Sessions /\ store \in Sessions
      /\ Requested(store) \subseteq Requested(mem) /\ Answered(store) \subseteq Answered(mem)
  BY PrefixKnows DEF LInv, HInv, HistInv, Extends, TypeOK
<1>2. CASE store' = store
  BY <1>2 DEF LedgerEntry
<1>3. CASE store' = mem
  <2>1. \A c \in Calls : LedgerEntry[c] = IF c \in Answered(store) THEN "answered"
                   ELSE IF c = store.wa THEN "intended"
                   ELSE IF c \in Requested(store) THEN "requested" ELSE "none"
    BY DEF LedgerEntry
  <2>2. \A c \in Calls : LedgerEntry'[c] = IF c \in Answered(mem) THEN "answered"
                   ELSE IF c = mem.wa THEN "intended"
                   ELSE IF c \in Requested(mem) THEN "requested" ELSE "none"
    BY <1>3 DEF LedgerEntry
  <2>3. LedgerEntry' \in [Calls -> Ledger!Stages]
    BY DEF LedgerEntry, Ledger!Stages
  <2>4. /\ store.wa \in Answered(mem) \cup {mem.wa, NoCall}
        /\ Answered(mem) \cup {mem.wa} \subseteq Requested(store) \cup {NoCall}
        /\ \A c \in Calls : invoked[c] > 0 => c \in Answered(store) \cup {store.wa}
        /\ \A c \in Calls : invoked[c] \in Nat
        /\ NoCall \notin Calls
    BY ClassAssumption DEF LInv, LedgerInv, CInv, AccountInv, EffectsAccountedFor, HInv, TypeOK
  <2>5. ASSUME NEW c \in Calls
        PROVE  /\ Ledger!Rank[LedgerEntry[c]] <= Ledger!Rank[LedgerEntry'[c]]
               /\ LedgerEntry[c] = "none" => LedgerEntry'[c] \in {"none", "requested"}
               /\ LedgerEntry[c] = "requested" /\ LedgerEntry'[c] = "answered" => invoked[c] = 0
    <3>1. \/ LedgerEntry'[c] = "answered"
          \/ LedgerEntry'[c] = "intended" /\ LedgerEntry[c] # "answered"
          \/ LedgerEntry'[c] = "requested" /\ LedgerEntry[c] \in {"none", "requested"}
          \/ LedgerEntry'[c] = "none" /\ LedgerEntry[c] = "none"
      BY <1>1, <2>1, <2>2, <2>4
    <3>2. LedgerEntry[c] \in Ledger!Stages
      BY DEF LedgerEntry, Ledger!Stages
    <3>3. Ledger!Rank[LedgerEntry[c]] <= Ledger!Rank[LedgerEntry'[c]]
      BY <3>1, <3>2 DEF Ledger!Rank, Ledger!Stages
    <3>4. LedgerEntry[c] = "none" => LedgerEntry'[c] \in {"none", "requested"}
      BY <2>1, <2>2, <2>4
    <3>5. LedgerEntry[c] = "requested" /\ LedgerEntry'[c] = "answered" => invoked[c] = 0
      BY <2>1, <2>4
    <3> QED BY <3>3, <3>4, <3>5
  <2>6. \A c, d \in Calls : LedgerEntry'[c] = "intended" /\ LedgerEntry'[d] = "intended" => c = d
    BY <2>2
  <2> QED BY <2>3, <2>5, <2>6 DEF Ledger!Advance
<1> QED BY <1>2, <1>3

(* The call that reaches its tool is the one the store intends.            *)
LEMMA IntendedEffect ==
  ASSUME LInv, NEW c \in Calls, c = store.wa, UNCHANGED store, CountInvocation(c),
         invoked[c] = 0 \/ c \in Idempotent
  PROVE  Ledger!Effect(c)
<1>1. c \notin Answered(store)
  BY ClassAssumption DEF LInv, HInv, HistInv, Sound, Due, Open
<1>2. LedgerEntry[c] = "intended" /\ UNCHANGED LedgerEntry
  BY <1>1 DEF LedgerEntry
<1> QED BY <1>2 DEF Ledger!Effect, CountInvocation

LEMMA LedgerStep ==
  Durable /\ LInv /\ [Next]_vars => [Ledger!Next]_(Ledger!ledgerVars)
<1> SUFFICES ASSUME Durable, LInv, [Next]_vars
             PROVE  Ledger!Next \/ UNCHANGED Ledger!ledgerVars
  BY DEF Ledger!ledgerVars
<1>1. ASSUME UNCHANGED <<store, invoked>> PROVE UNCHANGED Ledger!ledgerVars
  BY <1>1 DEF Ledger!ledgerVars, LedgerEntry
<1>2. CASE Reconcile
  <2>1. /\ pc = "reconcile" /\ mem.wa # NoCall /\ UNCHANGED store
        /\ IF MayReexecute(mem.wa) THEN CountInvocation(mem.wa) ELSE UNCHANGED invoked
    BY <1>2 DEF Reconcile, Interrupted
  <2>2. op = "run"
    BY <2>1 DEF LInv, CInv, IInv, OnceInv, PendingCleared, TypeOK, At, Before
  <2>3. mem.wa = store.wa /\ mem.wa \in Calls
    BY <2>1, <2>2 DEF LInv, CInv, AccountInv, WriteAheadInProgress, HInv, TypeOK, Sessions,
                      CallIds, At
  <2>4. CASE MayReexecute(mem.wa)
    <3>1. mem.wa \in Idempotent
      BY <2>4 DEF MayReexecute
    <3> QED BY <2>1, <2>3, <2>4, <3>1, IntendedEffect DEF Ledger!Next
  <2> QED BY <1>1, <2>1, <2>4
<1>3. ASSUME NEW status \in {"ok", "error"}, InvokeTool(status)
      PROVE  Ledger!Next
  <2>1. pc = "invoke" /\ UNCHANGED store /\ CountInvocation(Head(todo))
    BY <1>3 DEF InvokeTool
  <2>2. Head(todo) \in Calls /\ Head(todo) = store.wa
    BY <2>1, HeadTailTypes
    DEF LInv, HInv, HasHead, At, CInv, AccountInv, WriteAheadInProgress
  <2>3. invoked[Head(todo)] = 0
    BY <2>1, <2>2, BatchFacts
    DEF LInv, CInv, IInv, OnceInv, BatchUntouched, HasHead, At, NoOutcome
  <2> QED BY <2>1, <2>2, <2>3, IntendedEffect DEF Ledger!Next
<1>4. CASE SaveSession \/ SaveFails
  <2>1. pc = "save" /\ store' \in {store, mem} /\ UNCHANGED invoked
    BY <1>4 DEF SaveSession, SaveFails, history
  <2> QED BY <2>1, SaveAdvances DEF Ledger!Next, Ledger!ledgerVars
<1>5. pc # "parallel"
  BY DEF LInv, CInv, AccountInv, NoParallelPath, At
<1>6. CASE HostStep \/ LoopStep \/ Crash \/ UNCHANGED vars
  BY <1>1, <1>6 DEF HostStep, Run, ResolveConfirmation, BeginOperation, LoopStep, StopTurn,
                    CallModel, ModelFails, ModelAnswers, FinalAnswer, OutputInvalid,
                    DispatchBatch, Crash, vars, history
<1>7. CASE FetchCatalog \/ NothingToReconcile \/ BeginTurn \/ ExecuteDecided \/ RejectDecided
  BY <1>1, <1>7 DEF FetchCatalog, NothingToReconcile, BeginTurn, ExecuteDecided, RejectDecided,
                    history
<1>8. CASE RejectCall \/ StartCall \/ HumanApproves \/ HumanDenies \/ PauseForHuman
  BY <1>1, <1>8 DEF RejectCall, StartCall, HumanApproves, HumanDenies, SkipHead, PauseForHuman,
                    history
<1>9. CASE FinishTurn \/ Return
  BY <1>1, <1>9 DEF FinishTurn, Return, history
<1> QED BY <1>2, <1>3, <1>4, <1>5, <1>6, <1>7, <1>8, <1>9
        DEF Next, EngineStep, HeadStep, ToolStep, EndStep, ParallelInvoke, ParallelCollect, CollectAs

(* With durability and sequential tools the engine implements CallLedger:  *)
(* every save, failed save and effect of a turn, whatever crashes between  *)
(* them, advances the ledger or is the effect of an intended call.         *)
THEOREM EngineRefinesLedger ==
  ASSUME Durable, ~ParallelTools PROVE Spec => KeepsLedger
<1>1. Init => CInv /\ LedgerInv
  <2> SUFFICES ASSUME Init PROVE CInv /\ LedgerInv
    OBVIOUS
  <2>1. CInv
    BY InitTypes, InitOnce, InitAccount DEF CInv, IInv
  <2>2. LedgerInv
    BY DEF Init, LedgerInv, NewSession, Answered, Requested
  <2> QED BY <2>1, <2>2
<1>2. Init => Ledger!Init
  <2> SUFFICES ASSUME Init PROVE Ledger!Init
    OBVIOUS
  <2>1. store.msgs = <<>> /\ store.wa = NoCall /\ invoked = [c \in Calls |-> 0]
    BY DEF Init, NewSession
  <2>2. Requested(store) = {} /\ Answered(store) = {}
    BY <2>1 DEF Requested, Answered
  <2>3. LedgerEntry = [c \in Calls |-> "none"]
    BY <2>1, <2>2, ClassAssumption DEF LedgerEntry
  <2> QED BY <2>1, <2>3 DEF Ledger!Init
<1>3. CInv /\ HInv /\ LedgerInv /\ [Next]_vars => CInv' /\ LedgerInv'
  BY NextAccount, NextLedger DEF LInv
<1>4. CInv /\ HInv /\ LedgerInv /\ [Next]_vars => [Ledger!Next]_(Ledger!ledgerVars)
  BY LedgerStep DEF LInv
<1> QED BY <1>1, <1>2, <1>3, <1>4, HistoryInvariant, PTL DEF Spec, KeepsLedger, Ledger!LedgerSpec
=============================================================================
