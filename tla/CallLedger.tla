----------------------------- MODULE CallLedger -----------------------------
(***************************************************************************)
(* What a durable session promises about the tool calls of its turns,      *)
(* whatever crashes, failed saves and resumptions happen in between: an    *)
(* entry per call that only advances, and an effect only behind a durable  *)
(* intention.  (constitution.md section 6 and ADR 0026 of the repository.) *)
(***************************************************************************)
EXTENDS Naturals

CONSTANTS Calls, Idempotent

VARIABLES
  entry,   \* what the store knows of each call
  invoked  \* how often each call reached its tool

ledgerVars == <<entry, invoked>>

Stages == {"none", "requested", "intended", "answered"}
Rank == [none |-> 0, requested |-> 1, intended |-> 2, answered |-> 3]

Init == entry = [c \in Calls |-> "none"] /\ invoked = [c \in Calls |-> 0]

(* A save: entries advance, none from "none" to an intention or an answer, *)
(* and a call answered without an intention had no effect.  At most one    *)
(* call is intended.                                                       *)
Advance ==
  /\ entry' \in [Calls -> Stages]
  /\ \A c \in Calls :
       /\ Rank[entry[c]] <= Rank[entry'[c]]
       /\ entry[c] = "none" => entry'[c] \in {"none", "requested"}
       /\ entry[c] = "requested" /\ entry'[c] = "answered" => invoked[c] = 0
  /\ \A c, d \in Calls : entry'[c] = "intended" /\ entry'[d] = "intended" => c = d
  /\ UNCHANGED invoked

(* The effect of an intended call; only an idempotent tool sees it again.  *)
Effect(c) ==
  /\ entry[c] = "intended"
  /\ invoked[c] = 0 \/ c \in Idempotent
  /\ invoked' = [invoked EXCEPT ![c] = @ + 1]
  /\ UNCHANGED entry

Next == Advance \/ \E c \in Calls : Effect(c)

LedgerSpec == Init /\ [][Next]_ledgerVars
=============================================================================
