---------------------------- MODULE ProviderRoute ----------------------------
(***************************************************************************)
(* The routing of a model call of ia-harness: the alias a turn asks for is *)
(* resolved, checked against what the turn needs, and called; on an error  *)
(* its fallbacks are tried in order (resolveModel, runTurn, chat).  Every  *)
(* configuration New accepts is an initial state.                          *)
(*                                                                         *)
(* A target is a provider with one of its models.  Media are the           *)
(* capabilities they require; an attempt fails by the limiter or by the    *)
(* provider (external), with the same effect.                              *)
(***************************************************************************)
EXTENDS Integers, Sequences, SequencesExt

CONSTANTS
  AliasOrder,   \* the configured aliases, as sort.Strings orders them
  Unknown,      \* an alias nobody configured
  Targets,      \* records [provider, model]
  MediaKinds,   \* capabilities that media require: "vision", "documents"
  Asked,        \* aliases the turn may ask for
  MaxFallbacks  \* bound

Aliases == ToSet(AliasOrder)
Caps == MediaKinds \cup {"tools"}

AliasAssumption ==
  AliasOrder # <<>> /\ IsInjective(AliasOrder) /\ Unknown \notin Aliases
  /\ Asked \subseteq Aliases \cup {Unknown}

VARIABLES
  profiles,   \* Config.Models: [target, caps]
  fallbacks,  \* the Fallbacks of the profile asked for
  turn,       \* [asked, media, tools]
  pc,
  next,       \* position in fallbacks of the next attempt
  tried,      \* history: [alias, sent, ok] of each attempt; sent: the provider was called
  outcome     \* [alias, provider]: TurnResult.Model and the provider reported

vars == <<profiles, fallbacks, turn, pc, next, tried, outcome>>
config == <<profiles, fallbacks, turn>>

Init ==
  /\ profiles \in [Aliases -> [target : Targets, caps : SUBSET Caps]]
  /\ fallbacks \in SeqOf(Aliases \cup {Unknown}, MaxFallbacks)
  /\ turn \in [asked : Asked, media : SUBSET MediaKinds, tools : BOOLEAN]
  /\ pc = "resolve" /\ next = 0 /\ tried = <<>>
  /\ outcome = [alias |-> turn.asked, provider |-> Unknown]

Supports(a) == turn.media \subseteq profiles[a].caps

AliasFor(target) ==
  AliasOrder[SelectInSeq(AliasOrder, LAMBDA a : profiles[a].target = target)]

Primary == AliasFor(profiles[turn.asked].target)

(* resolveModel and the checks of runTurn before the call.                 *)
Resolve ==
  /\ pc = "resolve"
  /\ pc' = IF /\ turn.asked \in Aliases
              /\ turn.tools => "tools" \in profiles[turn.asked].caps
              /\ Supports(turn.asked)
           THEN "attempt" ELSE "rejected"
  /\ UNCHANGED <<config, next, tried, outcome>>

(* The profile of an attempt: the one asked for is not looked up again.    *)
Current == IF next = 0 THEN turn.asked ELSE fallbacks[next]

(* Slip: a fallback is held to resolve and no more.                        *)
EligibleUnchecked == next = 0 \/ Current \in Aliases

Eligible == next = 0 \/ (Current \in Aliases /\ Supports(Current))

Tried(sent, ok) == tried' = Append(tried, [alias |-> Current, sent |-> sent, ok |-> ok])

Outcome(a) == outcome' = [alias |-> a, provider |-> profiles[turn.asked].target.provider]

(* Slip: the alias of the answer is that of the primary.                   *)
AnswerAlone == Outcome(Primary)

Answer == Outcome(IF next = 0 THEN Primary ELSE Current)

Success ==
  /\ pc = "attempt" /\ Eligible
  /\ Tried(TRUE, TRUE) /\ Answer /\ pc' = "answered"
  /\ UNCHANGED <<config, next>>

(* Slip: the chain is followed one past its end.                           *)
NextPastTheEnd ==
  IF next <= Len(fallbacks)
  THEN next' = next + 1 /\ UNCHANGED <<pc, outcome>>
  ELSE pc' = "failed" /\ outcome' = [outcome EXCEPT !.alias = Primary] /\ UNCHANGED next

NextFallback ==
  IF next < Len(fallbacks)
  THEN next' = next + 1 /\ UNCHANGED <<pc, outcome>>
  ELSE pc' = "failed" /\ outcome' = [outcome EXCEPT !.alias = Primary] /\ UNCHANGED next

(* The limiter rejects the wait, or the provider answers with an error.    *)
Failure ==
  /\ pc = "attempt" /\ Eligible
  /\ \E sent \in BOOLEAN : Tried(sent, FALSE)
  /\ NextFallback
  /\ UNCHANGED config

(* Slip: a fallback that is not configured ends the chain.                 *)
SkipToTheEnd ==
  /\ pc = "attempt" /\ ~Eligible
  /\ pc' = "failed"
  /\ UNCHANGED <<config, next, tried, outcome>>

(* A fallback that is unknown or cannot take the media.                    *)
Skip ==
  /\ pc = "attempt" /\ ~Eligible
  /\ NextFallback
  /\ UNCHANGED <<config, tried>>

Next == Resolve \/ Success \/ Failure \/ Skip

Spec == Init /\ [][Next]_vars
----------------------------------------------------------------------------
(* Properties.                                                             *)

(* Every variable keeps its type.                                          *)
TypeOK ==
  /\ pc \in {"resolve", "rejected", "attempt", "answered", "failed"}
  /\ next \in 0 .. Len(fallbacks)
  /\ tried \in Seq([alias : Aliases, sent : BOOLEAN, ok : BOOLEAN])
  /\ outcome.alias \in Aliases \cup {Unknown}

Sent == {tried[i].alias : i \in {j \in DOMAIN tried : tried[j].sent}}

(* No profile is called with media it does not take, whatever the chain    *)
(* (FR-MM-003, FR-MM-011).                                                 *)
MediaOnlyToCapable == \A a \in Sent : Supports(a)

(* The alias reported names the target that answered, also when two        *)
(* aliases share a target (FR-013; library-api.md, invariant 4).           *)
ReportedModelAnswered ==
  pc = "answered" =>
    /\ profiles[outcome.alias].target = profiles[Last(tried).alias].target
    /\ \A i \in 1 .. Len(tried) : tried[i].ok <=> i = Len(tried)

CanAnswer(a) == a \in Aliases /\ Supports(a)

CapableUpTo(n) == Cardinality({k \in 1 .. n : CanAnswer(fallbacks[k])})

(* The turn fails only when the model asked for and all fallbacks that     *)
(* could answer were tried, in order; one that cannot does not break the   *)
(* chain (FR-013).                                                         *)
AllTriedInOrder ==
  pc = "failed" =>
    /\ Len(tried) = 1 + CapableUpTo(Len(fallbacks))
    /\ tried[1].alias = turn.asked
    /\ \A n \in DOMAIN fallbacks :
         CanAnswer(fallbacks[n]) => tried[1 + CapableUpTo(n)].alias = fallbacks[n]

(* The alias reported is the one the turn asked for when its profile       *)
(* answered (TurnResult.Model).                                            *)
ReportedIsAsked ==
  (pc = "answered" /\ next = 0) => outcome.alias = turn.asked

(* A turn with tools is never sent to a profile without tool calling       *)
(* (FR-015).                                                               *)
ToolsOnlyToCapable == turn.tools => \A a \in Sent : "tools" \in profiles[a].caps

(* The provider of UsageEvent and of the audit trail is the one that       *)
(* answered (FR-023).                                                      *)
ReportedProviderAnswered ==
  pc = "answered" => outcome.provider = profiles[Last(tried).alias].target.provider
=============================================================================
