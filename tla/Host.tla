-------------------------------- MODULE Host --------------------------------
(***************************************************************************)
(* What the goroutines of a host share and what its agents may do: the MCP *)
(* client of a server (McpClient), the session that turns run on, several  *)
(* at once (SessionTurns) and one after the other in full (TurnEngine),    *)
(* the policy of an agent (MCToolPolicy) and delegation between agents     *)
(* (AgentDelegation).  They share no variable, so that what one of them    *)
(* does is a behaviour of all with the others at rest: part says which     *)
(* instance moves.                                                         *)
(*                                                                         *)
(* The instances are of the modules that hold the components' theorems, so *)
(* that each of them is a theorem about the instance.                      *)
(***************************************************************************)
EXTENDS Integers, Sequences

CONSTANTS
  Parts,                                   \* the instances that may move
  NoCaller, PairOf, Alone, SingleOf,       \* callers of a client, and one that is alone
  NoCall, OverlapOf, VolatileOf, SerialOf, \* turns on a session
  ConfirmingOf,
  None, Matching, WideOf, DeepOf           \* delegation

VARIABLES
  part,
  conn, session, catalog, holder, registry, seq, caller, ops, failures, hostClosed, working, delivering,
  store, cells, turn, effects, approvals, turnOps, turnFailures,
  kept, mem, pc, after, op, resumed, approve, todo, catalogUp, iters, outcome, result, turnsRun, crashes,
  issued, approved, invoked,
  written, edited,
  turns, policy, ran
----------------------------------------------------------------------------
(* A client with several callers, and with one.                            *)
Pair ==
  INSTANCE McpClientProofs WITH Callers <- PairOf.callers, Kinds <- PairOf.kinds,
    StartCauses <- PairOf.causes, MaxOps <- PairOf.ops, MaxFailures <- PairOf.failures
Single ==
  INSTANCE McpClientProofs WITH Callers <- {Alone}, Kinds <- SingleOf.kinds,
    StartCauses <- SingleOf.causes, MaxOps <- SingleOf.ops, MaxFailures <- SingleOf.failures

(* Turns that overlap on one session, with durability and without; turns   *)
(* one after the other.                                                    *)
Overlapping ==
  INSTANCE SessionTurnsProofs WITH Turns <- OverlapOf.turns, Calls <- OverlapOf.calls,
    Confirm <- OverlapOf.confirm, Inputs <- OverlapOf.inputs, Durable <- TRUE, Overlap <- TRUE,
    MaxPerTurn <- OverlapOf.media, RunIterations <- OverlapOf.run, DefaultIterations <- OverlapOf.default,
    MaxOps <- OverlapOf.ops, MaxFailures <- OverlapOf.failures, ops <- turnOps, failures <- turnFailures
Volatile ==
  INSTANCE SessionTurnsProofs WITH Turns <- VolatileOf.turns, Calls <- VolatileOf.calls,
    Confirm <- VolatileOf.confirm, Inputs <- VolatileOf.inputs, Durable <- FALSE, Overlap <- TRUE,
    MaxPerTurn <- VolatileOf.media, RunIterations <- VolatileOf.run, DefaultIterations <- VolatileOf.default,
    MaxOps <- VolatileOf.ops, MaxFailures <- VolatileOf.failures, ops <- turnOps, failures <- turnFailures
Serial ==
  INSTANCE SessionTurnsProofs WITH Turns <- SerialOf.turns, Calls <- SerialOf.calls,
    Confirm <- SerialOf.confirm, Inputs <- SerialOf.inputs, Durable <- TRUE, Overlap <- FALSE,
    MaxPerTurn <- SerialOf.media, RunIterations <- SerialOf.run, DefaultIterations <- SerialOf.default,
    MaxOps <- SerialOf.ops, MaxFailures <- SerialOf.failures, ops <- turnOps, failures <- turnFailures

(* A turn in full, without durability: pauses, and parallel batches of the *)
(* calls that nobody confirms.                                             *)
Confirming ==
  INSTANCE TurnEngineProofs WITH store <- kept, ops <- turnsRun, Calls <- ConfirmingOf.calls, Unknown <- {},
    Invalid <- {}, Denied <- {}, Confirm <- ConfirmingOf.confirm, Idempotent <- ConfirmingOf.idempotent,
    NoId <- {}, Durable <- FALSE, ParallelTools <- TRUE, RunIterations <- ConfirmingOf.run,
    DefaultIterations <- ConfirmingOf.default, MaxBatch <- ConfirmingOf.batch, MaxOps <- ConfirmingOf.ops,
    MaxCrashes <- ConfirmingOf.crashes

Entries == INSTANCE MCToolPolicy WITH policy <- written

(* Sub-turns at the same time, and one after the other.                    *)
Wide ==
  INSTANCE AgentDelegationProofs WITH HostTools <- WideOf.tools, Agents <- WideOf.agents,
    Policies <- WideOf.policies, Roots <- WideOf.roots, Users <- WideOf.users, MaxAgentDepth <- WideOf.depth,
    ParallelTools <- TRUE, MaxIterations <- WideOf.iterations, MaxTurns <- WideOf.turns
Deep ==
  INSTANCE AgentDelegationProofs WITH HostTools <- DeepOf.tools, Agents <- DeepOf.agents,
    Policies <- DeepOf.policies, Roots <- DeepOf.roots, Users <- DeepOf.users, MaxAgentDepth <- DeepOf.depth,
    ParallelTools <- FALSE, MaxIterations <- DeepOf.iterations, MaxTurns <- DeepOf.turns
----------------------------------------------------------------------------
mcpVars == <<conn, session, catalog, holder, registry, seq, caller, ops, failures, hostClosed, working, delivering>>
turnVars == <<store, cells, turn, effects, approvals, turnOps, turnFailures>>
engineVars == <<kept, mem, pc, after, op, resumed, approve, todo, catalogUp, iters, outcome, result, turnsRun,
                crashes, issued, approved, invoked>>
entryVars == <<written, edited>>
agentVars == <<turns, policy, ran>>
vars == <<part, mcpVars, turnVars, engineVars, entryVars, agentVars>>

(* Who rests starts in one of its initial states.                          *)
Init ==
  /\ part \in Parts
  /\ IF part = "single" THEN Single!Init ELSE Pair!Init
  /\ CASE part = "serial" -> Serial!Init [] part = "volatile" -> Volatile!Init [] OTHER -> Overlapping!Init
  /\ Confirming!Init
  /\ Entries!Init /\ (part # "entries" => written.default = "" /\ written.agents["a"].mode = "")
  /\ IF part = "deep" THEN Deep!Init ELSE Wide!Init
  /\ part \notin {"wide", "deep"} => policy = CHOOSE p \in WideOf.policies : TRUE

Next ==
  /\ UNCHANGED part
  /\ \/ /\ \/ part = "pair" /\ Pair!Next
           \/ part = "single" /\ Single!Next
        /\ UNCHANGED <<turnVars, engineVars, entryVars, agentVars>>
     \/ /\ \/ part = "overlap" /\ Overlapping!Next
           \/ part = "volatile" /\ Volatile!Next
           \/ part = "serial" /\ Serial!Next
        /\ UNCHANGED <<mcpVars, engineVars, entryVars, agentVars>>
     \/ /\ part = "confirming" /\ Confirming!Next
        /\ UNCHANGED <<mcpVars, turnVars, entryVars, agentVars>>
     \/ /\ part = "entries" /\ Entries!Next
        /\ UNCHANGED <<mcpVars, turnVars, engineVars, agentVars>>
     \/ /\ \/ part = "wide" /\ Wide!Next
           \/ part = "deep" /\ Deep!Next
        /\ UNCHANGED <<mcpVars, turnVars, engineVars, entryVars>>

Spec == Init /\ [][Next]_vars
----------------------------------------------------------------------------
(* Properties, as the components state them; one for each promise that     *)
(* several of theirs make together.                                        *)

(* Every variable keeps its type.                                          *)
TypeOK ==
  CASE part = "pair" -> Pair!TypeOK
    [] part = "single" -> Single!TypeOK
    [] part = "overlap" -> Overlapping!TypeOK
    [] part = "volatile" -> Volatile!TypeOK
    [] part = "serial" -> Serial!TypeOK
    [] part = "confirming" -> Confirming!TypeOK
    [] part = "wide" -> Wide!TypeOK
    [] part = "deep" -> Deep!TypeOK
    [] OTHER -> TRUE

(* No session, hence no child process, is lost while callers race.         *)
NoSessionLeaked == part = "pair" => Pair!NoSessionLeaked

(* The progress of a call never reaches another's callback: the registry   *)
(* holds the callbacks of the calls under way and no other.                *)
ProgressReachesOwnCall == part = "pair" => Pair!ProgressReachesOwnCall /\ Pair!RegistryHoldsLiveCalls

(* An operation that failed for good is not seen again by the server.      *)
FinalErrorIsFinal == [][part = "pair" => Pair!NotRepeatedAfterFinalError]_vars

(* A caller alone never sees a single failure of the network.              *)
SingleFailureIsTransparent == part = "single" => Single!SingleFailureIsTransparent

(* However turns overlap, no call runs before it was approved or more      *)
(* often than it was, a stored session that awaits can be resolved and,    *)
(* while they do not overlap, an effect is in the store or announced by    *)
(* it.                                                                     *)
ApprovalsAndEffectsAgree ==
  /\ part = "overlap" => Overlapping!OneEffectPerApproval /\ Overlapping!AwaitingIsResolvable
  /\ part = "volatile" => Volatile!OneEffectPerApproval /\ Volatile!AwaitingIsResolvable
  /\ part = "serial" => Serial!EffectIsStored
  /\ part = "confirming" => Confirming!ApprovedBeforeInvoked /\ Confirming!AwaitingIsResolvable

(* What reached the store stays there, while turns do not overlap.         *)
StoreKeepsHistory == [][part = "serial" => Serial!StoredHistoryExtended]_vars

(* An entry of a policy does what its list says and nothing else, and      *)
(* nothing is allowed that no mode allows.                                 *)
EntriesMeanWhatTheySay ==
  /\ [](part = "entries" => Entries!DefaultDeny)
  /\ Entries!EntriesMeanWhatTheySay

(* Sub-turns live inside the call that started them, and no deeper than    *)
(* the limit while no session on the way was resumed.                      *)
SubTurnsAreNested ==
  /\ part = "wide" => Wide!SubTurnsAreNested /\ Wide!DepthIsBounded
  /\ part = "deep" => Deep!SubTurnsAreNested /\ Deep!DepthIsBounded

(* Between a turn and its sub-turn pass neither failures nor rights: a     *)
(* sub-turn that fails does not end its caller, and a tool runs under the  *)
(* rights of its turn's own agent.  A cancellation does pass, to all.      *)
DelegationContains ==
  [][/\ part = "wide" => Wide!FailuresInside /\ Wide!RunsUnderOwnRights /\ Wide!GoesOnAlive
     /\ part = "deep" => Deep!FailuresInside /\ Deep!RunsUnderOwnRights /\ Deep!GoesOnAlive]_vars
=============================================================================
