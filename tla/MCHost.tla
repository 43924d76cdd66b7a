-------------------------------- MODULE MCHost --------------------------------
(***************************************************************************)
(* Instances of Host for TLC: one run of what goroutines share, one of     *)
(* what agents may do.                                                     *)
(***************************************************************************)
EXTENDS Host, TLC

CONSTANTS p1, p2, t1, t2, t3, plain, idem, human, other

Sharing == {"pair", "single", "overlap", "volatile", "serial", "confirming"}
Delegating == {"entries", "wide", "deep"}
----------------------------------------------------------------------------
(* Two goroutines that list, call and close with one failure among them;   *)
(* one that lists, calls and reads, with two.                              *)
MCPair ==
  [callers |-> {p1, p2}, kinds |-> {"list", "call", "close"}, causes |-> {"network"}, ops |-> 3, failures |-> 1]
MCSingle ==
  [kinds |-> {"list", "call", "read"}, causes |-> {"network", "executable"}, ops |-> 4, failures |-> 2]

(* Two turns that overlap; one after the other, with media and a           *)
(* cancellation or failure more.                                           *)
MCOverlap ==
  [turns |-> {t1, t2}, calls |-> {plain, human}, confirm |-> {human}, inputs |-> {"text"}, media |-> 1,
   run |-> 2, default |-> 1, ops |-> 3, failures |-> 1]
MCVolatile == [MCOverlap EXCEPT !.ops = 4]
MCSerial ==
  [turns |-> {t3}, calls |-> {plain, human, other}, confirm |-> {human}, inputs |-> {"text", "image"},
   media |-> 1, run |-> 2, default |-> 2, ops |-> 4, failures |-> 2]

MCConfirming ==
  [calls |-> {idem, human}, confirm |-> {human}, idempotent |-> {idem}, run |-> 2, default |-> 2, batch |-> 2,
   ops |-> 3, crashes |-> 1]

(* Callers that are equals, and turns that are.                            *)
Symmetry == Permutations({p1, p2}) \cup Permutations({t1, t2})
----------------------------------------------------------------------------
MCMatching == {<<"bank.*", "bank.pay">>, <<"bank.*", "bank.list">>, <<"agents.*", "agents.delegate">>}

(* The orchestrator may delegate and read.  The clerk may pay when a human *)
(* confirms, delegates, and has its own policy; the helper has the global  *)
(* one, which the host may close to it.                                    *)

Pay == [namespace |-> "bank", name |-> "pay", idempotent |-> FALSE, timeout |-> 5]
Read == [namespace |-> "crm", name |-> "read", idempotent |-> TRUE, timeout |-> 0]

Undeclared == Entries!Undeclared
NoOverride == Entries!NoOverride

Open == [default |-> "deny",
         agents |-> [a \in {"boss", "helper", "clerk"} |->
           CASE a = "boss" -> [Undeclared EXCEPT !.mode = "allow", !.allow = {"agents.*", "read"},
                                  !.overrides = [k \in {"delegate"} |-> [NoOverride EXCEPT !.timeout = 9]]]
             [] a = "helper" -> [Undeclared EXCEPT !.mode = "allow", !.confirm = {"read"}]
             [] a = "clerk" -> [Undeclared EXCEPT !.mode = "allow", !.allow = {"read"}]]]

Closed == [Open EXCEPT !.agents["helper"].deny = {"read"}]

Overridden == [k \in {"bank.pay"} |-> [NoOverride EXCEPT !.confirm = TRUE, !.timeout = 1, !.idempotent = TRUE]]

Specs == [a \in {"clerk", "helper"} |->
            IF a = "clerk"
            THEN [tools |-> {"bank.*", "agents.*", "read"},
                  policy |-> [Undeclared EXCEPT !.mode = "allow", !.allow = {"bank.*", "agents.*"}, !.overrides = Overridden]]
            ELSE [tools |-> {}, policy |-> None]]

(* Sub-turns at the same time, one deep; sub-turns of sub-turns.           *)
MCWide ==
  [tools |-> {Pay, Read}, agents |-> Specs, policies |-> {Open, Closed}, roots |-> {"boss"}, users |-> {"u"},
   depth |-> 1, iterations |-> 1, turns |-> 3]
MCDeep == [MCWide EXCEPT !.tools = {}, !.policies = {Open}, !.depth = 2, !.turns = 4]
----------------------------------------------------------------------------
ASSUME Pair!Assumptions /\ Single!Assumptions
ASSUME Overlapping!Assumptions /\ Volatile!Assumptions /\ Serial!Assumptions
ASSUME Confirming!ClassAssumption /\ Confirming!FlagAssumption /\ Confirming!BoundAssumption
ASSUME Entries!KeyAssumption
ASSUME Wide!Assumptions /\ Deep!Assumptions
=============================================================================
