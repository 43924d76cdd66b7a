----------------------------- MODULE MCToolPolicy -----------------------------
(* A host writes the policy of one agent, an entry at a time.              *)
EXTENDS ToolPolicy

VARIABLES policy, edited

vars == <<policy, edited>>

Tool(namespace, name) == [namespace |-> namespace, name |-> name, idempotent |-> FALSE, timeout |-> 0]

Tools == {Tool("bank", "pay"), Tool("bank", "list"), Tool("", "pay"), Tool("Bank", "pay")}

Globs == {"bank.*", "pay"}

MCMatching == {<<"bank.*", "bank.pay">>, <<"bank.*", "bank.list">>}

(* Names that differ in case only.                                         *)
FoldCase == [k \in {"bank.pay", "bank.list", "pay", "list", "Bank.pay"} |-> IF k = "Bank.pay" THEN "bank.pay" ELSE k]

Overrides == {[NoOverride EXCEPT !.confirm = TRUE], [NoOverride EXCEPT !.read_only = TRUE],
              [NoOverride EXCEPT !.timeout = 1]}

Modes == {"", "allow", "read_only"}

(* The keys are spelled out of strings, and the globs are path.Match's:    *)
(* none is accepted that is malformed, and a tool whose key is such a glob *)
(* or the bare name of another is none of these.                           *)
KeyAssumption ==
  \A t \in Tools :
    /\ ToolKey(t) # "[" /\ \A x \in {ToolKey(t), t.name} : <<"[", x>> \notin Matching
    /\ ToolKey(t) = "pay" => t.name = "pay"

Agent == policy.agents["a"]

Init ==
  /\ \E default \in Modes, mode \in Modes :
       policy = [default |-> default, agents |-> [a \in {"a"} |-> [Undeclared EXCEPT !.mode = mode]]]
  /\ edited = "new"

Becomes(agent, field) == policy' = [policy EXCEPT !.agents["a"] = agent] /\ edited' = field

Deny == \E g \in (Globs \cup {"["}) \ Agent.deny : Becomes([Agent EXCEPT !.deny = @ \cup {g}], "deny")
Allow == \E g \in Globs \ Agent.allow : Becomes([Agent EXCEPT !.allow = @ \cup {g}], "allow")
Confirm == \E g \in Globs \ Agent.confirm : Becomes([Agent EXCEPT !.confirm = @ \cup {g}], "confirm")
Override ==
  \E k \in {"bank.pay", "pay"}, o \in Overrides :
    /\ k \notin DOMAIN Agent.overrides
    /\ Becomes([Agent EXCEPT !.overrides =
                  [x \in DOMAIN @ \cup {k} |-> IF x = k THEN o ELSE Agent.overrides[x]]],
                IF k = "pay" THEN "override pay" ELSE "override bank.pay")

Next == Deny \/ Allow \/ Confirm \/ Override

Spec == Init /\ [][Next]_vars

Allowed == {t \in Tools : Evaluate(policy, "a", t).allowed}
Confirmed == {t \in Tools : Evaluate(policy, "a", t).confirm}

(* Nothing is allowed that no mode allows, and an agent that the policy    *)
(* does not declare has what the default gives without reading marks       *)
(* (FR-016, rules 1, 3 and 7 of evaluatePolicy).                           *)
DefaultDeny ==
  /\ {Agent.mode, policy.default} \subseteq {""} => Allowed = {}
  /\ \A t \in Tools : Evaluate(policy, "b", t) = [allowed |-> policy.default = "allow", confirm |-> FALSE]

(* An entry does what its list says and nothing else: a denial takes tools *)
(* away, in every mode, and a malformed or empty glob takes none; the      *)
(* first entry of the allowlist takes away, the others give; a             *)
(* confirmation changes no permission; a confirmation is lost only to a    *)
(* denial or to the override of the tool's own key, which hides that of    *)
(* its bare name (rules 2 to 6).                                           *)
EntriesMeanWhatTheySay ==
  [][/\ edited' = "deny" => Allowed' \subseteq Allowed
     /\ Agent'.deny \ Agent.deny \subseteq {"["} /\ edited' = "deny" => Allowed' = Allowed
     /\ \A t \in Tools : (t.name = "pay" /\ "pay" \in Agent'.deny) => t \notin Allowed'
     /\ edited' = "allow" => IF Agent.allow = {} THEN Allowed' \subseteq Allowed ELSE Allowed \subseteq Allowed'
     /\ edited' \in {"allow", "confirm"} =>
          \A t \in Allowed \cap Allowed' : t \in Confirmed => t \in Confirmed'
     /\ edited' = "confirm" => Allowed' = Allowed
     /\ edited' = "override pay" => Confirmed \subseteq Confirmed' /\ Allowed \subseteq Allowed']_vars

(* A policy entry does not care about letter case (policy.go:33).          *)
CaseDoesNotMatter ==
  \A s, t \in Tools : FoldCase[ToolKey(s)] = FoldCase[ToolKey(t)] =>
    (Evaluate(policy, "a", s).allowed <=> Evaluate(policy, "a", t).allowed)
=============================================================================
