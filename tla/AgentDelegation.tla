--------------------------- MODULE AgentDelegation ---------------------------
(***************************************************************************)
(* Delegation between the agents of ia-harness: the model of a turn calls  *)
(* agents.delegate, and the engine runs a sub-turn of the named agent, in  *)
(* a session of its own, while the turn waits (internal/engine/agents,     *)
(* RunSubAgent and what a turn does with the policy, the catalog and the   *)
(* call context).                                                          *)
(*                                                                         *)
(* A session is numbered by its place in turns.  A turn ends each answer   *)
(* of its model with a text, with one call, or with a batch of             *)
(* delegations.                                                            *)
(***************************************************************************)
EXTENDS ToolPolicy, FiniteSets

CONSTANTS
  HostTools,     \* the tools of the host's sources
  Agents,        \* Config.Agents: name -> [tools, policy]; policy may be None
  Policies,      \* policies that the host may start the harness with
  Roots,         \* agents that the host starts turns for
  Users,
  MaxAgentDepth, \* Config.MaxAgentDepth
  ParallelTools, \* Config.ParallelTools
  MaxIterations, \* answers of the model in a turn
  None,
  MaxTurns       \* bound

DelegationAssumption == MaxAgentDepth \in Nat \ {0} /\ MaxIterations \in Nat \ {0}
AgentAssumption == IsFiniteSet(DOMAIN Agents)
PolicyAssumption == \A p \in Policies : DOMAIN p = {"default", "agents"}

VARIABLES
  turns,    \* session -> its last turn
  policy,   \* Config.Policy of the running harness
  ran       \* history: the tools that were executed

vars == <<turns, policy, ran>>

Ended == {"completed", "out of iterations", "cancelled", "failed", "lost"}

Init == turns = <<>> /\ policy \in Policies /\ ran = {}

Sessions == DOMAIN turns

(* Slip: a sub-turn has a context of its own.                              *)
OwnContext(i) == ~turns[i].cancelled

(* The context of a turn is that of its caller, for a turn that a host     *)
(* resumes that of the host.                                               *)
Live(i) ==
  LET live[k \in Sessions] == ~turns[k].cancelled /\ (turns[k].caller # 0 => live[turns[k].caller])
  IN  live[i]
----------------------------------------------------------------------------
(* What the configuration gives an agent.                                  *)

Delegate == [namespace |-> "agents", name |-> "delegate", idempotent |-> FALSE, timeout |-> 0]

(* Slip: the policy of the agent's own specification is not read.          *)
GlobalPolicy(agent) == policy

EffectivePolicy(agent) ==
  IF agent \in DOMAIN Agents /\ Agents[agent].policy # None
  THEN [policy EXCEPT !.agents = [a \in DOMAIN @ \cup {agent} |->
                                    IF a = agent THEN Agents[agent].policy ELSE policy.agents[a]]]
  ELSE policy

Authorize(agent, tool) == Evaluate(EffectivePolicy(agent), agent, tool)

FilterTools(tools, patterns) == IF patterns = {} THEN tools ELSE {t \in tools : MatchesAny(patterns, t)}

Catalog(agent) ==
  LET tools == HostTools \cup (IF Agents = <<>> THEN {} ELSE {Delegate})
  IN  FilterTools(tools, IF agent \in DOMAIN Agents THEN Agents[agent].tools ELSE {})

EffectiveToolTimeout(agent, tool) ==
  LET override == TimeoutOverride(policy, agent, tool) IN IF override > 0 THEN override ELSE tool.timeout
----------------------------------------------------------------------------
(* Sub-turns.                                                              *)

(* Slip: the parent of a sub-turn is read from its own call context.       *)
TurnOfItself(agent, user, parent, depth) ==
  [agent |-> agent, user |-> user, parent |-> Len(turns) + 1, caller |-> parent, depth |-> depth,
   status |-> "running", iterations |-> 0, waits |-> {}, pending |-> None, cancelled |-> FALSE,
   resumed |-> FALSE, told |-> "", event |-> IF parent = 0 THEN "" ELSE "running"]

NewTurn(agent, user, parent, depth) ==
  [agent |-> agent, user |-> user, parent |-> parent, caller |-> parent, depth |-> depth,
   status |-> "running", iterations |-> 0, waits |-> {}, pending |-> None, cancelled |-> FALSE,
   resumed |-> FALSE, told |-> "", event |-> IF parent = 0 THEN "" ELSE "running"]

(* Slip: the depth that is compared is that of the caller.                 *)
RefusedAtCaller(depth) == depth > MaxAgentDepth

Refused(depth) == depth + 1 > MaxAgentDepth

(* The calls of agents.delegate of a batch: an unknown agent, and one call *)
(* too deep, get an error as their result, and the others a sub-turn.      *)
Starts(all, i, agents) ==
  LET depth == all[i].depth
      names == IF Refused(depth) THEN {} ELSE agents \cap DOMAIN Agents
      order == CHOOSE f \in [1 .. Cardinality(names) -> names] : \A x, y \in DOMAIN f : f[x] = f[y] => x = y
      children == [k \in DOMAIN order |-> NewTurn(order[k], all[i].user, i, depth + 1)]
  IN  IF names = {} THEN all
      ELSE [all EXCEPT ![i].status = "waiting", ![i].waits = (Len(all) + 1) .. (Len(all) + Cardinality(names))]
             \o children

Fits(agents) == Len(turns) + Cardinality(agents) <= MaxTurns

(* A tool runs: the write-ahead has the idempotence that its source        *)
(* publishes.                                                              *)
Execution(i, tool, approved) ==
  [turn |-> i, tool |-> tool, timeout |-> EffectiveToolTimeout(turns[i].agent, tool),
   idempotent |-> tool.idempotent, approved |-> approved,
   allowed |-> Authorize(turns[i].agent, tool).allowed]

HostRuns ==
  \E agent \in Roots, user \in Users :
    /\ Len(turns) < MaxTurns
    /\ turns' = Append(turns, NewTurn(agent, user, 0, 0)) /\ UNCHANGED <<policy, ran>>

(* The model answers: the turn is at the top of its loop.                  *)
Answering(i) == turns[i].status = "running" /\ Live(i) /\ turns[i].iterations < MaxIterations
Iterated(i) == [turns EXCEPT ![i].iterations = @ + 1]

Completes(i) ==
  /\ Answering(i) /\ turns' = [turns EXCEPT ![i].status = "completed"] /\ UNCHANGED <<policy, ran>>

ModelFails(i) ==
  /\ turns[i].status = "running" /\ turns' = [turns EXCEPT ![i].status = "failed"]
  /\ UNCHANGED <<policy, ran>>

Stops(i) ==
  /\ turns[i].status = "running" /\ (~Live(i) \/ turns[i].iterations = MaxIterations)
  /\ turns' = [turns EXCEPT ![i].status = IF Live(i) THEN "out of iterations" ELSE "cancelled"]
  /\ UNCHANGED <<policy, ran>>

(* Slip: what the host approved before is not asked again.                 *)
NotAskedAgain(i, tool) ==
  Authorize(turns[i].agent, tool).confirm /\ ~\E r \in ran : r.tool = tool /\ r.approved

NeedsConfirmation(i, tool) == Authorize(turns[i].agent, tool).confirm

(* A tool of the host.  A tool that is denied, and one that the host       *)
(* refuses, is answered and the turn goes on.                              *)
CallsTool(i) ==
  /\ Answering(i)
  /\ \E tool \in Catalog(turns[i].agent) \ {Delegate}, approved \in BOOLEAN :
       /\ approved = NeedsConfirmation(i, tool)
       /\ turns' = Iterated(i) /\ UNCHANGED policy
       /\ ran' = IF Authorize(turns[i].agent, tool).allowed
                 THEN ran \cup {Execution(i, tool, approved)} ELSE ran

Delegates(i) ==
  /\ Answering(i) /\ Delegate \in Catalog(turns[i].agent)
  /\ Authorize(turns[i].agent, Delegate).allowed
  /\ \E agents \in SUBSET (DOMAIN Agents \cup {"nobody"}) \ {{}} :
       /\ Cardinality(agents) > 1 => ParallelTools /\ ~NeedsConfirmation(i, Delegate)
       /\ Fits(agents)
       /\ turns' = Starts(Iterated(i), i, agents)
       /\ ran' = ran \cup {Execution(i, Delegate, NeedsConfirmation(i, Delegate))}
  /\ UNCHANGED policy

(* The host cannot decide now, and the turn is over until it does.         *)
Pauses(i) ==
  /\ Answering(i)
  /\ \E tool \in Catalog(turns[i].agent) :
       /\ NeedsConfirmation(i, tool)
       /\ \E agent \in IF tool = Delegate THEN DOMAIN Agents ELSE {None} :
            turns' = [Iterated(i) EXCEPT ![i].status = "paused", ![i].pending = <<tool, agent>>]
  /\ UNCHANGED <<policy, ran>>

(* ResolveConfirmation: the host's context knows of no delegation.         *)
Resolves(i) ==
  /\ turns[i].status = "paused" /\ (turns[i].caller # 0 => turns[i].told # "")
  /\ \E approve \in BOOLEAN :
       LET tool == turns[i].pending[1]
           resumed == [turns EXCEPT ![i].status = "running", ![i].pending = None, ![i].iterations = 0,
                         ![i].caller = 0, ![i].depth = 0, ![i].cancelled = FALSE, ![i].resumed = TRUE]
           runs == approve /\ tool \in Catalog(turns[i].agent)
       IN  /\ runs /\ tool = Delegate => Fits({turns[i].pending[2]})
           /\ turns' = IF runs /\ tool = Delegate THEN Starts(resumed, i, {turns[i].pending[2]}) ELSE resumed
           /\ ran' = IF runs THEN ran \cup {Execution(i, tool, TRUE)} ELSE ran
  /\ UNCHANGED policy

(* Slip: a sub-turn that fails takes the turn of its caller with it.       *)
CallerFails(i) == IF turns[i].status = "failed" THEN "failed" ELSE "running"

CallerGoesOn(i) == "running"

(* Slip: a batch goes on when its first call returns.                      *)
FirstReturn(rest) == TRUE

(* executeParallel waits for the whole batch.                              *)
BatchReturned(rest) == rest = {}

(* Slip: a sub-turn that pauses returns when the host has decided.         *)
ReturnsWhenEnded(i) == turns[i].status \in Ended

ReturnsNow(i) == turns[i].status \in Ended \cup {"paused"}

(* The sub-turn returns to Source.Call: its error, its text or, for every  *)
(* other end, the sentence that it ended without text.                     *)
Returns(i) ==
  /\ turns[i].caller # 0 /\ turns[i].told = "" /\ ReturnsNow(i)
  /\ LET caller == turns[i].caller
         rest == turns[caller].waits \ {i}
         told == CASE turns[i].status = "failed" -> "error"
                   [] turns[i].status = "completed" -> "text"
                   [] OTHER -> "no text"
     IN  turns' = [turns EXCEPT ![i].told = told,
                     ![i].event = IF told = "error" THEN "error" ELSE "completed",
                     ![caller].waits = rest,
                     ![caller].status = IF BatchReturned(rest) THEN CallerGoesOn(i) ELSE @]
  /\ UNCHANGED <<policy, ran>>

(* The host cancels the context of a call.                                 *)
HostCancels(i) ==
  /\ turns[i].caller = 0 /\ turns[i].status \in {"running", "waiting"} /\ ~turns[i].cancelled
  /\ turns' = [turns EXCEPT ![i].cancelled = TRUE] /\ UNCHANGED <<policy, ran>>

(* The timeout of agents.delegate cancels the sub-turn alone.              *)
DelegationTimesOut(i) ==
  /\ turns[i].caller # 0 /\ turns[i].told = "" /\ ~turns[i].cancelled
  /\ EffectiveToolTimeout(turns[turns[i].caller].agent, Delegate) > 0
  /\ turns' = [turns EXCEPT ![i].cancelled = TRUE] /\ UNCHANGED <<policy, ran>>

(* The host stops, and starts again with a policy of its choice: sessions  *)
(* that wait for a confirmation are in its store.                          *)
HostRestarts ==
  /\ policy' \in Policies \ {policy}
  /\ turns' = [i \in Sessions |->
                 IF turns[i].status = "paused"
                 THEN [turns[i] EXCEPT !.caller = 0, !.depth = 0]
                 ELSE [turns[i] EXCEPT !.waits = {},
                         !.status = IF @ \in {"running", "waiting"} THEN "lost" ELSE @,
                         !.caller = IF turns[i].told = "" THEN 0 ELSE @]]
  /\ UNCHANGED ran

Engine(i) == Completes(i) \/ ModelFails(i) \/ Stops(i) \/ CallsTool(i) \/ Delegates(i) \/ Pauses(i) \/ Returns(i)
Host(i) == Resolves(i) \/ HostCancels(i) \/ DelegationTimesOut(i)

Next ==
  \/ HostRuns \/ HostRestarts
  \/ \E i \in Sessions : Engine(i) \/ Host(i)

Spec == Init /\ [][Next]_vars

(* A turn runs until it ends, and a return is not held back.               *)
FairSpec ==
  Spec /\ \A i \in 1 .. MaxTurns :
    WF_vars(i \in Sessions /\ Engine(i))
----------------------------------------------------------------------------
(* Properties.                                                             *)

(* Every variable keeps its type.                                          *)
TypeOK ==
  /\ policy \in Policies
  /\ \A i \in Sessions :
       /\ turns[i].status \in Ended \cup {"running", "waiting", "paused"}
       /\ turns[i].caller \in 0 .. (i - 1) /\ turns[i].parent \in 0 .. (i - 1)
       /\ turns[i].waits \subseteq (i + 1) .. Len(turns)
       /\ turns[i].told \in {"", "text", "no text", "error"}

(* How many delegations led to a session.                                  *)
Generation(i) ==
  LET g[k \in Sessions] == IF turns[k].parent = 0 THEN 0 ELSE 1 + g[turns[k].parent] IN g[i]

(* The sessions that delegated, one after the other, to reach session i.   *)
Ancestors(i) == {k \in 1 .. (i - 1) :
  LET from[j \in Sessions] == j # 0 /\ (turns[j].parent = k \/ (turns[j].parent # 0 /\ from[turns[j].parent]))
  IN  from[i]}

(* Recursion is bounded, across batches, timeouts and restarts, as long as *)
(* no session on the way was resumed (FR-MA-004).                          *)
DepthIsBounded ==
  \A i \in Sessions : (\A k \in Ancestors(i) : ~turns[k].resumed) => Generation(i) <= MaxAgentDepth

(* The sub-turns of a call live inside it: who waits has a sub-turn that   *)
(* has not returned, and who has not returned has a caller that waits for  *)
(* it, whatever was cancelled, paused or timed out meanwhile (FR-MA-003,   *)
(* FR-MA-008).                                                             *)
SubTurnsAreNested ==
  \A i \in Sessions :
    /\ (turns[i].status = "waiting") = (turns[i].waits # {})
    /\ \A c \in turns[i].waits : turns[c].caller = i /\ turns[c].told = "" /\ turns[c].user = turns[i].user
    /\ (turns[i].caller # 0 /\ turns[i].told = "") => i \in turns[turns[i].caller].waits

(* A sub-turn that fails gives its caller a result: a turn fails by its    *)
(* own model only (spec 022, edge cases).  The caller has been told the    *)
(* error and has not ended by it.                                          *)
FailuresInside ==
  \A i \in Sessions : (turns[i].told = "" /\ turns'[i].told = "error") =>
    turns'[turns[i].caller].status \in {"running", "waiting"}

FailuresStayInside == [][FailuresInside]_vars

(* A tool runs in a turn under the rights of the turn's own agent, those   *)
(* of its specification when it has them: neither those of the agent that  *)
(* delegated to it nor an earlier answer of the host give more; what must  *)
(* be confirmed was confirmed for this call (FR-MA-006, FR-MA-007).        *)
RunsUnderOwnRights ==
  \A r \in ran' \ ran :
    LET agent == turns[r.turn].agent
        own == IF agent \in DOMAIN Agents /\ Agents[agent].policy # None
               THEN [default |-> policy.default, agents |-> [a \in {agent} |-> Agents[a].policy]]
               ELSE policy
    IN  /\ r.tool \in Catalog(agent)
        /\ turns[r.turn].status # "paused" => Evaluate(own, agent, r.tool).allowed
        /\ Evaluate(own, agent, r.tool).confirm => r.approved

RightsAreNotInherited == [][RunsUnderOwnRights]_vars

(* Cancelling the call of a host reaches every sub-turn below it: none     *)
(* goes on with another answer of its model (FR-MA-008).                   *)
GoesOnAlive ==
  \A k \in Sessions :
    LET above[i \in Sessions] == IF turns[i].caller = 0 THEN {i} ELSE {i} \cup above[turns[i].caller]
    IN  turns'[k].iterations > turns[k].iterations => \A i \in above[k] : ~turns[i].cancelled

CancellationReachesAll == [][GoesOnAlive]_vars

(* A call that a host waits for returns to it: no turn waits for a         *)
(* sub-turn that itself waits for the host.                                *)
CallsReturn ==
  \A i \in 1 .. MaxTurns :
    (i \in Sessions) ~> (i \in Sessions /\ turns[i].status \in Ended \cup {"paused"})

(* FR-MA-004 says that depth is limited, and makes no exception.           *)
DelegationDepthLimited == \A i \in Sessions : Generation(i) <= MaxAgentDepth

(* FR-MA-003: the final text of the sub-turn is the result of the tool.    *)
FinalTextIsTheResult ==
  \A i \in Sessions : (turns[i].told # "" /\ turns[i].status = "completed") => turns[i].told = "text"

(* data-model of feature 001, "timeout": the agent's override is the       *)
(* timeout of its calls; feature 022: the policy of AgentSpec replaces.    *)
TimeoutIsTheAgents ==
  \A r \in ran :
    LET agent == turns[r.turn].agent
        override == TimeoutOverride(EffectivePolicy(agent), agent, r.tool)
    IN  override > 0 => r.timeout = override

(* data-model of feature 001: an override of the idempotence permits the   *)
(* repetition of the call.                                                 *)
OverridePermitsRepetition ==
  \A r \in ran :
    r.idempotent = ToolIdempotent(EffectivePolicy(turns[r.turn].agent), turns[r.turn].agent, r.tool)

(* FR-016: the policy is applied to the tools that run.                    *)
PolicyIsApplied == \A r \in ran : r.allowed
=============================================================================
