------------------------------ MODULE ToolPolicy ------------------------------
(***************************************************************************)
(* The permission policy of ia-harness: which tools an agent may call,     *)
(* which of them a human confirms, and the overrides of single tools       *)
(* (internal/engine/policy).  A policy is                                  *)
(* [default, agents], the policies of the declared agents by name; that of *)
(* an agent is [mode, allow, deny, confirm, overrides], with sets of globs *)
(* and the overrides by the name or the key of a tool.  A tool is          *)
(* [namespace, name, idempotent, timeout].                                 *)
(***************************************************************************)
EXTENDS Integers, Sequences

CONSTANT Matching   \* external: the pairs <<glob, text>> that path.Match accepts

Undeclared == [mode |-> "", allow |-> {}, deny |-> {}, confirm |-> {}, overrides |-> <<>>]
NoOverride == [confirm |-> FALSE, read_only |-> FALSE, idempotent |-> FALSE, timeout |-> 0]

AgentPolicy(policy, agent) ==
  IF agent \in DOMAIN policy.agents THEN policy.agents[agent] ELSE Undeclared

ToolKey(tool) == IF tool.namespace = "" THEN tool.name ELSE tool.namespace \o "." \o tool.name

(* Slip: globs are tried on the key only.                                  *)
MatchKey(pattern, tool) ==
  pattern # "" /\ (pattern = ToolKey(tool) \/ <<pattern, ToolKey(tool)>> \in Matching)

MatchTool(pattern, tool) ==
  /\ pattern # ""
  /\ \E text \in {ToolKey(tool), tool.name} : pattern = text \/ <<pattern, text>> \in Matching

MatchesAny(patterns, tool) == \E p \in patterns : MatchTool(p, tool)

(* The override of the key hides that of the bare name, in every field.    *)
ToolOverride(agent, tool) ==
  LET keys == {ToolKey(tool), tool.name} \cap DOMAIN agent.overrides
  IN  IF keys = {} THEN NoOverride
      ELSE agent.overrides[IF ToolKey(tool) \in keys THEN ToolKey(tool) ELSE tool.name]

(* Slip: an empty allowlist allows nothing.                                *)
AllowListOnly(agent, tool) == MatchesAny(agent.allow, tool)

AllowListMatches(agent, tool) == agent.allow = {} \/ MatchesAny(agent.allow, tool)

ConfirmationRequired(agent, tool) == ToolOverride(agent, tool).confirm \/ MatchesAny(agent.confirm, tool)

(* Slip: the list of denied tools is read in mode "allow" only.            *)
EvaluateDenyLast(policy, name, tool) ==
  LET agent == AgentPolicy(policy, name)
      mode == IF agent.mode # "" THEN agent.mode ELSE policy.default
      allowed == \/ mode = "allow" /\ ~MatchesAny(agent.deny, tool) /\ AllowListMatches(agent, tool)
                 \/ mode = "read_only" /\ ToolOverride(agent, tool).read_only /\ AllowListMatches(agent, tool)
  IN  [allowed |-> allowed, confirm |-> allowed /\ ConfirmationRequired(agent, tool)]

Evaluate(policy, name, tool) ==
  LET agent == AgentPolicy(policy, name)
      mode == IF agent.mode # "" THEN agent.mode ELSE policy.default
      allowed == /\ ~MatchesAny(agent.deny, tool)
                 /\ mode \in {"allow", "read_only"}
                 /\ mode = "read_only" => ToolOverride(agent, tool).read_only
                 /\ AllowListMatches(agent, tool)
  IN  [allowed |-> allowed, confirm |-> allowed /\ ConfirmationRequired(agent, tool)]

(* 0 leaves the timeout to the tool.                                       *)
TimeoutOverride(policy, name, tool) == ToolOverride(AgentPolicy(policy, name), tool).timeout

ToolIdempotent(policy, name, tool) ==
  ToolOverride(AgentPolicy(policy, name), tool).idempotent \/ tool.idempotent
=============================================================================
