------------------------------ MODULE CallPath ------------------------------
(***************************************************************************)
(* What stands between a turn and a model: the cache of answers            *)
(* (SemCache), the routing (ProviderRoute), the limiter (RateLimiter), the *)
(* attempts of a call (ProviderCall) and the stream of the answer in the   *)
(* three adapters (AnthropicStream, OpenAIStream, ResponsesStream).  Each  *)
(* of them decides alone, and a turn meets them one after the other: a     *)
(* behaviour of the path is one of any of them with the others at rest.    *)
(* part says which one moves.                                              *)
(***************************************************************************)
EXTENDS Integers, Sequences

CONSTANTS
  None,
  Callers, Providers, Limited, Default, Period, Burst, MaxWait, MaxTime, MaxDebt,
  AliasOrder, Unknown, Targets, MediaKinds, Asked, MaxFallbacks,
  Turns, Users, Texts, Media, Models, Score(_, _), Exact, MinScore, TTL, MaxEntries, CacheTime,
  MaxAttempts, BaseDelay, MaxDelay, DefaultDelay, MaxDuration, Faults, Fallbacks,
  Answers, Usages, Repeated,  \* Repeated: what only Anthropic may report besides
  Offsets, Empty, StreamAttempts, StreamFaults

VARIABLES
  part,
  now, tokens, last, caller, started,
  profiles, fallbacks, routed, routePc, next, tried, outcome,
  entries, lookup,
  pc, attempt, faults, waits, ended, code, fallback,
  answer, usage, server, sent, sink, offset, whole, state, response
----------------------------------------------------------------------------
Limiter == INSTANCE RateLimiter
Route == INSTANCE ProviderRoute WITH turn <- routed, pc <- routePc
Cache == INSTANCE SemCache WITH turn <- lookup, MaxTime <- CacheTime
Call == INSTANCE ProviderCall

(* The calls whose answer is followed to its end fall back nowhere.        *)
Anthropic ==
  INSTANCE AnthropicStream WITH MaxAttempts <- StreamAttempts, Faults <- StreamFaults, Fallbacks <- 0,
    Usages <- Usages \cup Repeated
OpenAI ==
  INSTANCE OpenAIStream WITH MaxAttempts <- StreamAttempts, Faults <- StreamFaults, Fallbacks <- 0
Responses ==
  INSTANCE ResponsesStream WITH MaxAttempts <- StreamAttempts, Faults <- StreamFaults, Fallbacks <- 0

limiterVars == <<tokens, last, caller, started>>
routeVars == <<profiles, fallbacks, routed, routePc, next, tried, outcome>>
cacheVars == <<entries, lookup>>
callVars == <<pc, attempt, faults, waits, ended, code, fallback>>
streamVars == <<answer, usage, server, sent, sink, offset, whole, state, response>>
vars == <<part, now, limiterVars, routeVars, cacheVars, callVars, streamVars>>
----------------------------------------------------------------------------
(* Who rests starts in one of its initial states.                          *)
RouteAtRest ==
  /\ profiles = [a \in Route!Aliases |-> [target |-> CHOOSE t \in Targets : TRUE, caps |-> {}]]
  /\ fallbacks = <<>> /\ routed = [asked |-> Unknown, media |-> {}, tools |-> FALSE]
  /\ routePc = "resolve" /\ next = 0 /\ tried = <<>>
  /\ outcome = [alias |-> Unknown, provider |-> Unknown]

Init ==
  /\ part \in {"limiter", "route", "cache", "call", "anthropic", "openai", "responses"}
  /\ Limiter!Init /\ Cache!Init
  /\ IF part = "route" THEN Route!Init ELSE RouteAtRest
  /\ CASE part = "openai" -> OpenAI!Init /\ whole = {}
       [] part = "responses" -> Responses!Init /\ offset = 0
       [] OTHER -> Anthropic!Init /\ whole = {} /\ offset = 0

(* The limiter and the cache have the clock in common.                     *)
Next ==
  /\ UNCHANGED part
  /\ \/ part = "limiter" /\ Limiter!Next /\ UNCHANGED <<routeVars, cacheVars, callVars, streamVars>>
     \/ part = "route" /\ Route!Next /\ UNCHANGED <<now, limiterVars, cacheVars, callVars, streamVars>>
     \/ part = "cache" /\ Cache!Next /\ UNCHANGED <<limiterVars, routeVars, callVars, streamVars>>
     \/ part = "call" /\ Call!CallNext /\ UNCHANGED <<now, limiterVars, routeVars, cacheVars, streamVars>>
     \/ /\ part = "anthropic" /\ Anthropic!Next
        /\ UNCHANGED <<now, limiterVars, routeVars, cacheVars, offset, whole>>
     \/ part = "openai" /\ OpenAI!Next /\ UNCHANGED <<now, limiterVars, routeVars, cacheVars, whole>>
     \/ part = "responses" /\ Responses!Next /\ UNCHANGED <<now, limiterVars, routeVars, cacheVars, offset>>

Spec == Init /\ [][Next]_vars
----------------------------------------------------------------------------
(* Properties, as the components state them; one for each promise that     *)
(* several of theirs make together.                                        *)

(* Every variable keeps its type.                                          *)
TypeOK ==
  CASE part = "limiter" -> Limiter!TypeOK
    [] part = "route" -> Route!TypeOK
    [] part = "cache" -> Cache!TypeOK
    [] part = "anthropic" -> Anthropic!TypeOK
    [] part = "openai" -> OpenAI!TypeOK
    [] part = "responses" -> Responses!TypeOK
    [] OTHER -> Call!CallTypeOK

(* No interval sees more calls than a burst and the rate allow, because    *)
(* callers that wait are let through a period apart.                       *)
LimitRespected == part = "limiter" => Limiter!LimitRespected /\ Limiter!TurnsSpaced

(* A turn fails only after every fallback that could answer was tried in   *)
(* order, none with media it does not take, and the alias reported names   *)
(* the target that answered.                                               *)
AllTriedInOrder ==
  part = "route" =>
    /\ Route!AllTriedInOrder
    /\ Route!MediaOnlyToCapable
    /\ Route!ReportedModelAnswered

(* An answer is served to the user and for the model it was given to, not  *)
(* past its time to live and never before the one to the very text; turns  *)
(* that miss together leave one entry.                                     *)
ServedAsStored ==
  part = "cache" =>
    /\ Cache!ServedToItsUser
    /\ Cache!ServedFresh
    /\ Cache!ExactBeforeSimilar
    /\ Cache!OneEntryPerKey

(* A call gives up for a cause (exhausted, refused, ended or streaming),   *)
(* a permanent failure is its last, a 408 apart, and the waits between its *)
(* attempts double up to the ceiling, also near the largest duration.      *)
RetriedForCause ==
  part = "call" =>
    /\ Call!GivesUpForCause
    /\ Call!PermanentNotRepeated
    /\ Call!DelayIsExponential

(* In each adapter, a call succeeds with exactly the answer of the model,  *)
(* and what was streamed to the host is what the response says.            *)
AnswerArrivesWhole ==
  /\ part = "anthropic" => Anthropic!ResponseIsAnswer /\ Anthropic!SinkIsAnswer
  /\ part = "openai" => OpenAI!ResponseIsAnswer /\ OpenAI!SinkIsAnswer
  /\ part = "responses" => Responses!ResponseIsAnswer /\ Responses!SinkIsAnswer
=============================================================================
