------------------------------ MODULE MCLiveness ------------------------------
(***************************************************************************)
(* Instances for TLC of what must end: a turn (TurnEngine), an operation   *)
(* of the MCP client (McpClient), a call that a host waits for while       *)
(* agents delegate (AgentDelegation), and the memory of a turn             *)
(* (UserMemory).  What one of them does is a behaviour of all with the     *)
(* others at rest: part says which one moves.                              *)
(***************************************************************************)
EXTENDS Naturals, Sequences, TLC

CONSTANTS idem, human, NoCall, p1, p2, NoCaller, None, t1, t2, NoTurn

VARIABLES
  part,
  store, mem, pc, after, op, resumed, approve, todo, catalogUp, iters, outcome, result, ops, crashes,
  issued, approved, invoked,
  conn, session, catalog, holder, registry, seq, caller, mcpOps, failures, hostClosed, working, delivering,
  turns, policy, ran,
  facts, vectors, ready, indexer, turn, clock, puts, remembered
----------------------------------------------------------------------------
(* A durable turn with parallel batches, after a crash at most.            *)
Engine ==
  INSTANCE TurnEngine WITH Calls <- {idem, human}, Unknown <- {}, Invalid <- {}, Denied <- {},
    Confirm <- {human}, Idempotent <- {idem}, NoId <- {}, Durable <- TRUE, ParallelTools <- TRUE,
    RunIterations <- 2, DefaultIterations <- 2, MaxBatch <- 2, MaxOps <- 2, MaxCrashes <- 1

(* Two goroutines, one failure.                                            *)
Mcp ==
  INSTANCE McpClient WITH ops <- mcpOps, Callers <- {p1, p2}, Kinds <- {"list", "read", "close"},
    StartCauses <- {"network", "credential"}, MaxOps <- 2, MaxFailures <- 1

(* The orchestrator may delegate and read; the clerk may pay when a human  *)
(* confirms, and delegates too.                                            *)
MCMatching == {<<"bank.*", "bank.pay">>, <<"agents.*", "agents.delegate">>}
Policy == INSTANCE ToolPolicy WITH Matching <- MCMatching

Pay == [namespace |-> "bank", name |-> "pay", idempotent |-> FALSE, timeout |-> 5]
Read == [namespace |-> "crm", name |-> "read", idempotent |-> TRUE, timeout |-> 0]
Open == [default |-> "deny",
         agents |-> [a \in {"boss", "helper", "clerk"} |->
           CASE a = "boss" -> [Policy!Undeclared EXCEPT !.mode = "allow", !.allow = {"agents.*", "read"}]
             [] a = "helper" -> [Policy!Undeclared EXCEPT !.mode = "allow", !.confirm = {"read"}]
             [] a = "clerk" -> [Policy!Undeclared EXCEPT !.mode = "allow", !.allow = {"read"}]]]
Confirmed == [k \in {"bank.pay"} |-> [Policy!NoOverride EXCEPT !.confirm = TRUE]]
Specs == [a \in {"clerk", "helper"} |->
            IF a = "clerk"
            THEN [tools |-> {"bank.*", "agents.*", "read"},
                  policy |-> [Policy!Undeclared EXCEPT !.mode = "allow", !.allow = {"bank.*", "agents.*"},
                                                       !.overrides = Confirmed]]
            ELSE [tools |-> {}, policy |-> None]]

Agents ==
  INSTANCE AgentDelegation WITH Matching <- MCMatching, HostTools <- {Pay, Read}, Agents <- Specs,
    Policies <- {Open}, Roots <- {"boss"}, Users <- {"u"}, MaxAgentDepth <- 1, ParallelTools <- TRUE,
    MaxIterations <- 1, MaxTurns <- 3

(* Two turns that need the index; their users' texts differ.               *)
Memory ==
  INSTANCE UserMemory WITH holder <- indexer, Users <- <<"ana", "bia", "eva">>,
    Docs <- [ana |-> <<3, 1>>, bia |-> <<2>>, eva |-> <<>>], Similarity <- <<2, 5, 1>>,
    Turns <- {t1, t2}, UserOf <- (t1 :> "ana") @@ (t2 :> "bia"), RetrievalK <- 1, FactIds <- {1, 2},
    MaxPuts <- 0

engineVars == <<store, mem, pc, after, op, resumed, approve, todo, catalogUp, iters, outcome, result, ops, crashes,
                issued, approved, invoked>>
mcpVars == <<conn, session, catalog, holder, registry, seq, caller, mcpOps, failures, hostClosed, working, delivering>>
agentVars == <<turns, policy, ran>>
memoryVars == <<facts, vectors, ready, indexer, turn, clock, puts, remembered>>
vars == <<part, engineVars, mcpVars, agentVars, memoryVars>>

(* Who rests starts in one of its initial states.                          *)
Init ==
  /\ part \in {"engine", "mcp", "agents", "memory"}
  /\ Engine!Init /\ Mcp!Init /\ Agents!Init
  /\ Memory!Init /\ (part # "memory" => ~ready)

Next ==
  /\ UNCHANGED part
  /\ \/ part = "engine" /\ Engine!Next /\ UNCHANGED <<mcpVars, agentVars, memoryVars>>
     \/ part = "mcp" /\ Mcp!Next /\ UNCHANGED <<engineVars, agentVars, memoryVars>>
     \/ part = "agents" /\ Agents!Next /\ UNCHANGED <<engineVars, mcpVars, memoryVars>>
     \/ part = "memory" /\ Memory!Next /\ UNCHANGED <<engineVars, mcpVars, agentVars>>

(* The fairness of the components' own FairSpec, of UserMemory's           *)
(* AnsweringSpec: see there.                                               *)
FairSpec ==
  /\ Init /\ [][Next]_vars
  /\ WF_engineVars(part = "engine" /\ Engine!EngineStep)
  /\ \A p \in {p1, p2} : WF_mcpVars(part = "mcp" /\ Mcp!CallerStep(p))
  /\ \A i \in 1 .. 3 : WF_agentVars(part = "agents" /\ i \in Agents!Sessions /\ Agents!Engine(i))
  /\ \A t \in {t1, t2} :
       /\ WF_memoryVars(part = "memory" /\ Memory!Harness(t))
       /\ WF_memoryVars(part = "memory" /\ Memory!Embedder(t))
----------------------------------------------------------------------------
(* Properties, as the components state them.                               *)

(* A turn that runs ends: with an answer, a pause, an error or a crash.    *)
TurnTerminates == Engine!TurnTerminates

(* Every operation of the MCP client returns, whatever others do.          *)
OperationEnds == Mcp!OperationEnds

(* A call that a host waits for returns, however agents delegate.          *)
CallsReturn == Agents!CallsReturn

(* With an embedder that answers, every turn gets past its memory.         *)
TurnsGoOn == Memory!TurnsGoOn
=============================================================================
