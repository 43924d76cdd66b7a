----------------------------- MODULE MCCallPath -----------------------------
(***************************************************************************)
(* An instance of CallPath for TLC.                                        *)
(***************************************************************************)
EXTENDS CallPath, TLC

CONSTANTS m1, m2, m3, c1, c2, c3, t1, t2, u, v
----------------------------------------------------------------------------
(* The cfg has three callers of two providers that share the bucket of the *)
(* others, and every configuration of three aliases of two targets.        *)
MCAliasOrder == <<m1, m2, m3>>
MCTargets == [provider : {"p", "q"}, model : {"m"}]
MCAsked == {m2, Unknown}

(* Texts that are numbers: neighbours are similar.                         *)
Near(s, t) == IF s = t THEN 2 ELSE IF s - t \in {-1, 1} THEN 1 ELSE 0

(* Five attempts that may fail in every way; the last delay is at the      *)
(* largest duration.  Answers of up to three items, in calls of two        *)
(* attempts.                                                               *)
Item(kind, id, frags) ==
  [kind |-> kind, id |-> id, name |-> IF kind = "call" THEN "tool" ELSE None, frags |-> frags]
SomeText == Item("text", None, <<"f", "g">>)
Thought == Item("thought", None, <<"f">>)
MCAnswers ==
  {<<>>, <<SomeText>>, <<Thought, Item("call", "c1", <<"f", "g">>)>>,
   <<SomeText, Item("call", "c1", <<"f">>), Item("call", "c2", <<"g", "f">>)>>,
   <<Item("call", "c1", <<>>), Item("call", "c2", <<"f", "g">>)>>,
   <<Item("call", "c1", <<"f">>), SomeText, Item("call", "c2", <<"g">>)>>}

ASSUME Limiter!LimitAssumption /\ Limiter!ProviderAssumption /\ Limiter!BoundAssumption
ASSUME Route!AliasAssumption
ASSUME Cache!ScoreAssumption /\ Cache!LimitAssumption
ASSUME Call!CallAssumption
ASSUME Anthropic!CallAssumption /\ OpenAI!CallAssumption /\ Responses!CallAssumption

(* Callers are equals, and so are turns.                                   *)
Symmetry == Permutations({c1, c2, c3}) \cup Permutations({t1, t2})
=============================================================================
