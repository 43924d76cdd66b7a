------------------------------ MODULE HostProofs ------------------------------
(***************************************************************************)
(* Theorems about Host: what its components guarantee, each on its own     *)
(* variables, holds of the host.  A step of the host in which an instance  *)
(* moves is a step of that instance, the host starts it in one of its      *)
(* initial states, and part never changes: so that a behaviour of the host *)
(* in which it moves is one of the instance.                               *)
(***************************************************************************)
EXTENDS Host, TLAPS

(* Who moves first is who moves.                                           *)
LEMMA PartStays == [Next]_vars => UNCHANGED part
BY DEF Next, vars

(* Callers that share a client move as McpClient says.                     *)
LEMMA PairMoves ==
  /\ Init /\ part = "pair" => Pair!Init
  /\ [Next]_vars /\ part = "pair" => [Pair!Next]_Pair!vars
  /\ [Next]_vars => (part = "pair" <=> (part = "pair")')
  /\ [Next]_vars /\ part = "pair" /\ UNCHANGED Pair!vars => UNCHANGED vars
<1>1. Init /\ part = "pair" => Pair!Init
  BY DEF Init
<1>2. [Next]_vars /\ part = "pair" => [Pair!Next]_Pair!vars
  BY DEF Next, vars, mcpVars, Pair!vars, Pair!shared, Pair!progress, Pair!bounds
<1>3. [Next]_vars => (part = "pair" <=> (part = "pair")')
  BY PartStays
<1>4. [Next]_vars /\ part = "pair" /\ UNCHANGED Pair!vars => UNCHANGED vars
  BY DEF Next, vars, mcpVars, turnVars, engineVars, entryVars, agentVars,
     Pair!vars, Pair!shared, Pair!progress, Pair!bounds
<1> QED BY <1>1, <1>2, <1>3, <1>4

(* So does a caller that is alone.                                         *)
LEMMA SingleMoves ==
  /\ Init /\ part = "single" => Single!Init
  /\ [Next]_vars /\ part = "single" => [Single!Next]_Single!vars
  /\ [Next]_vars => (part = "single" <=> (part = "single")')
  /\ [Next]_vars /\ part = "single" /\ UNCHANGED Single!vars => UNCHANGED vars
<1>1. Init /\ part = "single" => Single!Init
  BY DEF Init
<1>2. [Next]_vars /\ part = "single" => [Single!Next]_Single!vars
  BY DEF Next, vars, mcpVars, Single!vars, Single!shared, Single!progress, Single!bounds
<1>3. [Next]_vars => (part = "single" <=> (part = "single")')
  BY PartStays
<1>4. [Next]_vars /\ part = "single" /\ UNCHANGED Single!vars => UNCHANGED vars
  BY DEF Next, vars, mcpVars, turnVars, engineVars, entryVars, agentVars,
     Single!vars, Single!shared, Single!progress, Single!bounds
<1> QED BY <1>1, <1>2, <1>3, <1>4

(* Turns on a session move as SessionTurns says, durable and overlapping,  *)
LEMMA OverlappingMoves ==
  /\ Init /\ part = "overlap" => Overlapping!Init
  /\ [Next]_vars /\ part = "overlap" => [Overlapping!Next]_Overlapping!vars
  /\ [Next]_vars => (part = "overlap" <=> (part = "overlap")')
  /\ [Next]_vars /\ part = "overlap" /\ UNCHANGED Overlapping!vars => UNCHANGED vars
<1>1. Init /\ part = "overlap" => Overlapping!Init
  BY DEF Init
<1>2. [Next]_vars /\ part = "overlap" => [Overlapping!Next]_Overlapping!vars
  BY DEF Next, vars, turnVars, Overlapping!vars
<1>3. [Next]_vars => (part = "overlap" <=> (part = "overlap")')
  BY PartStays
<1>4. [Next]_vars /\ part = "overlap" /\ UNCHANGED Overlapping!vars => UNCHANGED vars
  BY DEF Next, vars, mcpVars, turnVars, engineVars, entryVars, agentVars, Overlapping!vars
<1> QED BY <1>1, <1>2, <1>3, <1>4

(* overlapping without durability                                          *)
LEMMA VolatileMoves ==
  /\ Init /\ part = "volatile" => Volatile!Init
  /\ [Next]_vars /\ part = "volatile" => [Volatile!Next]_Volatile!vars
  /\ [Next]_vars => (part = "volatile" <=> (part = "volatile")')
  /\ [Next]_vars /\ part = "volatile" /\ UNCHANGED Volatile!vars => UNCHANGED vars
<1>1. Init /\ part = "volatile" => Volatile!Init
  BY DEF Init
<1>2. [Next]_vars /\ part = "volatile" => [Volatile!Next]_Volatile!vars
  BY DEF Next, vars, turnVars, Volatile!vars
<1>3. [Next]_vars => (part = "volatile" <=> (part = "volatile")')
  BY PartStays
<1>4. [Next]_vars /\ part = "volatile" /\ UNCHANGED Volatile!vars => UNCHANGED vars
  BY DEF Next, vars, mcpVars, turnVars, engineVars, entryVars, agentVars, Volatile!vars
<1> QED BY <1>1, <1>2, <1>3, <1>4

(* and one after the other.                                                *)
LEMMA SerialMoves ==
  /\ Init /\ part = "serial" => Serial!Init
  /\ [Next]_vars /\ part = "serial" => [Serial!Next]_Serial!vars
  /\ [Next]_vars => (part = "serial" <=> (part = "serial")')
  /\ [Next]_vars /\ part = "serial" /\ UNCHANGED Serial!vars => UNCHANGED vars
<1>1. Init /\ part = "serial" => Serial!Init
  BY DEF Init
<1>2. [Next]_vars /\ part = "serial" => [Serial!Next]_Serial!vars
  BY DEF Next, vars, turnVars, Serial!vars
<1>3. [Next]_vars => (part = "serial" <=> (part = "serial")')
  BY PartStays
<1>4. [Next]_vars /\ part = "serial" /\ UNCHANGED Serial!vars => UNCHANGED vars
  BY DEF Next, vars, mcpVars, turnVars, engineVars, entryVars, agentVars, Serial!vars
<1> QED BY <1>1, <1>2, <1>3, <1>4

(* A turn in full moves as TurnEngine says.                                *)
LEMMA ConfirmingMoves ==
  /\ Init /\ part = "confirming" => Confirming!Init
  /\ [Next]_vars /\ part = "confirming" => [Confirming!Next]_Confirming!vars
  /\ [Next]_vars => (part = "confirming" <=> (part = "confirming")')
  /\ [Next]_vars /\ part = "confirming" /\ UNCHANGED Confirming!vars => UNCHANGED vars
<1>1. Init /\ part = "confirming" => Confirming!Init
  BY DEF Init
<1>2. [Next]_vars /\ part = "confirming" => [Confirming!Next]_Confirming!vars
  BY DEF Next, vars, engineVars, Confirming!vars
<1>3. [Next]_vars => (part = "confirming" <=> (part = "confirming")')
  BY PartStays
<1>4. [Next]_vars /\ part = "confirming" /\ UNCHANGED Confirming!vars => UNCHANGED vars
  BY DEF Next, vars, mcpVars, turnVars, engineVars, entryVars, agentVars, Confirming!vars
<1> QED BY <1>1, <1>2, <1>3, <1>4

(* Agents move as AgentDelegation says, with sub-turns at the same time    *)
LEMMA WideMoves ==
  /\ Init /\ part = "wide" => Wide!Init
  /\ [Next]_vars /\ part = "wide" => [Wide!Next]_Wide!vars
  /\ [Next]_vars => (part = "wide" <=> (part = "wide")')
  /\ [Next]_vars /\ part = "wide" /\ UNCHANGED Wide!vars => UNCHANGED vars
<1>1. Init /\ part = "wide" => Wide!Init
  BY DEF Init
<1>2. [Next]_vars /\ part = "wide" => [Wide!Next]_Wide!vars
  BY DEF Next, vars, agentVars, Wide!vars
<1>3. [Next]_vars => (part = "wide" <=> (part = "wide")')
  BY PartStays
<1>4. [Next]_vars /\ part = "wide" /\ UNCHANGED Wide!vars => UNCHANGED vars
  BY DEF Next, vars, mcpVars, turnVars, engineVars, entryVars, agentVars, Wide!vars
<1> QED BY <1>1, <1>2, <1>3, <1>4

(* and one after the other.                                                *)
LEMMA DeepMoves ==
  /\ Init /\ part = "deep" => Deep!Init
  /\ [Next]_vars /\ part = "deep" => [Deep!Next]_Deep!vars
  /\ [Next]_vars => (part = "deep" <=> (part = "deep")')
  /\ [Next]_vars /\ part = "deep" /\ UNCHANGED Deep!vars => UNCHANGED vars
<1>1. Init /\ part = "deep" => Deep!Init
  BY DEF Init
<1>2. [Next]_vars /\ part = "deep" => [Deep!Next]_Deep!vars
  BY DEF Next, vars, agentVars, Deep!vars
<1>3. [Next]_vars => (part = "deep" <=> (part = "deep")')
  BY PartStays
<1>4. [Next]_vars /\ part = "deep" /\ UNCHANGED Deep!vars => UNCHANGED vars
  BY DEF Next, vars, mcpVars, turnVars, engineVars, entryVars, agentVars, Deep!vars
<1> QED BY <1>1, <1>2, <1>3, <1>4

(* An operation that failed for good is not seen again by the server,      *)
(* however callers that share the client race (withReconnect,              *)
(* shouldReconnect).                                                       *)
THEOREM HostRepeatsNoFinalError == Pair!Assumptions => (Spec => FinalErrorIsFinal)
<1> SUFFICES ASSUME Pair!Assumptions PROVE Spec => FinalErrorIsFinal
  OBVIOUS
<1>1. Pair!Spec => [][Pair!NotRepeatedAfterFinalError]_Pair!vars
  BY Pair!FinalErrorsFinal DEF Pair!FinalErrorIsFinal
<1>2. [Next]_vars /\ part = "pair" /\ [Pair!NotRepeatedAfterFinalError]_Pair!vars
      => [part = "pair" => Pair!NotRepeatedAfterFinalError]_vars
  BY PairMoves
<1>3. ~(part = "pair") => [part = "pair" => Pair!NotRepeatedAfterFinalError]_vars
  OBVIOUS
<1> QED BY <1>1, <1>2, <1>3, PairMoves, PTL DEF Spec, FinalErrorIsFinal, Pair!Spec

(* No session, hence no child process, is lost while callers connect,      *)
(* discard and close at the same time (connectLocked, invalidateSession,   *)
(* Close).                                                                 *)
THEOREM HostLeaksNoSession == Pair!Assumptions => (Spec => []NoSessionLeaked)
<1> SUFFICES ASSUME Pair!Assumptions PROVE Spec => []NoSessionLeaked
  OBVIOUS
<1>1. Pair!Spec => [](Pair!TypeOK /\ Pair!NoSessionLeaked)
  BY Pair!SessionsKept
<1>2. (part = "pair" => (Pair!TypeOK /\ Pair!NoSessionLeaked)) => NoSessionLeaked
  BY DEF NoSessionLeaked
<1> QED BY <1>1, <1>2, PairMoves, PTL DEF Spec, Pair!Spec

(* The progress of a call never reaches the callback of another, and the   *)
(* registry holds the callbacks of the calls under way and no other        *)
(* (progressRegistry.register, unregister).                                *)
THEOREM HostKeepsProgressApart == Pair!Assumptions => (Spec => []ProgressReachesOwnCall)
<1> SUFFICES ASSUME Pair!Assumptions PROVE Spec => []ProgressReachesOwnCall
  OBVIOUS
<1>1. Pair!Spec => [](Pair!ProgressReachesOwnCall /\ Pair!RegistryHoldsLiveCalls)
  BY Pair!ProgressIsOwn
<1>2. (part = "pair" => (Pair!ProgressReachesOwnCall /\ Pair!RegistryHoldsLiveCalls)) => ProgressReachesOwnCall
  BY DEF ProgressReachesOwnCall
<1> QED BY <1>1, <1>2, PairMoves, PTL DEF Spec, Pair!Spec

(* A caller alone never sees a single failure of the network: the call is  *)
(* repeated on a new session (withReconnect).                              *)
THEOREM HostHidesOneFailure == Single!Assumptions => (Spec => []SingleFailureIsTransparent)
<1> SUFFICES ASSUME Single!Assumptions PROVE Spec => []SingleFailureIsTransparent
  OBVIOUS
<1>1. Single!Spec => []Single!SingleFailureIsTransparent
  BY Single!OneFailureTransparent
<1>2. (part = "single" => Single!SingleFailureIsTransparent) => SingleFailureIsTransparent
  BY DEF SingleFailureIsTransparent
<1> QED BY <1>1, <1>2, SingleMoves, PTL DEF Spec, Single!Spec

(* What the constants of the turns on a session are.                       *)
TurnAssumptions ==
  /\ Overlapping!Assumptions /\ Volatile!Assumptions /\ Serial!Assumptions
  /\ Confirming!ClassAssumption /\ Confirming!FlagAssumption /\ Confirming!BoundAssumption

(* However turns overlap on a session, no call runs before it was approved *)
(* or more often than it was, a stored session that awaits can be          *)
(* resolved and, while they do not overlap, an effect is in the store or   *)
(* announced by it (ResolveConfirmation, checkpointToolStart, invokeTool). *)
THEOREM HostHonoursApprovals == TurnAssumptions => (Spec => []ApprovalsAndEffectsAgree)
<1> SUFFICES ASSUME TurnAssumptions PROVE Spec => []ApprovalsAndEffectsAgree
  OBVIOUS
<1>1. Overlapping!Spec => []Overlapping!OneEffectPerApproval
  BY Overlapping!EffectsWithinApprovals DEF TurnAssumptions
<1>2. Overlapping!Spec => []Overlapping!AwaitingIsResolvable
  BY Overlapping!PausesResolvable DEF TurnAssumptions
<1>3. Volatile!Spec => []Volatile!OneEffectPerApproval
  BY Volatile!EffectsWithinApprovals DEF TurnAssumptions
<1>4. Volatile!Spec => []Volatile!AwaitingIsResolvable
  BY Volatile!PausesResolvable DEF TurnAssumptions
<1>5. Serial!Spec => []Serial!EffectIsStored
  BY Serial!EffectsStored DEF TurnAssumptions
<1>6. Confirming!Spec => []Confirming!ApprovedBeforeInvoked
  BY Confirming!ApprovalRequired DEF TurnAssumptions
<1>7. Confirming!Spec => []Confirming!AwaitingIsResolvable
  BY Confirming!PauseResolvable DEF TurnAssumptions
<1>8. (/\ part = "overlap" => Overlapping!OneEffectPerApproval /\ Overlapping!AwaitingIsResolvable
       /\ part = "volatile" => Volatile!OneEffectPerApproval /\ Volatile!AwaitingIsResolvable
       /\ part = "serial" => Serial!EffectIsStored
       /\ part = "confirming" => Confirming!ApprovedBeforeInvoked /\ Confirming!AwaitingIsResolvable)
      => ApprovalsAndEffectsAgree
  BY DEF ApprovalsAndEffectsAgree
<1> QED BY <1>1, <1>2, <1>3, <1>4, <1>5, <1>6, <1>7, <1>8, OverlappingMoves, VolatileMoves, SerialMoves,
           ConfirmingMoves, PTL DEF Spec, Overlapping!Spec, Volatile!Spec, Serial!Spec, Confirming!Spec

(* What reached the store stays there while turns do not overlap           *)
(* (saveCheckpoint, finishCheckpoint).                                     *)
THEOREM HostKeepsHistory == Serial!Assumptions => (Spec => StoreKeepsHistory)
<1> SUFFICES ASSUME Serial!Assumptions PROVE Spec => StoreKeepsHistory
  OBVIOUS
<1>1. Serial!Spec => [][Serial!StoredHistoryExtended]_Serial!vars
  BY Serial!StoredStays DEF Serial!StoreKeepsHistory
<1>2. [Next]_vars /\ part = "serial" /\ [Serial!StoredHistoryExtended]_Serial!vars
      => [part = "serial" => Serial!StoredHistoryExtended]_vars
  BY SerialMoves
<1>3. ~(part = "serial") => [part = "serial" => Serial!StoredHistoryExtended]_vars
  OBVIOUS
<1> QED BY <1>1, <1>2, <1>3, SerialMoves, PTL DEF Spec, StoreKeepsHistory, Serial!Spec

(* Sub-turns live inside the call that started them, whether they run at   *)
(* the same time or not, and no deeper than the limit while no session on  *)
(* the way was resumed (Source.Call, of the agents' tools).                *)
THEOREM HostNestsSubTurns == Wide!Assumptions /\ Deep!Assumptions => (Spec => []SubTurnsAreNested)
<1> SUFFICES ASSUME Wide!Assumptions /\ Deep!Assumptions PROVE Spec => []SubTurnsAreNested
  OBVIOUS
<1>1. Wide!Spec => [](Wide!TypeOK /\ Wide!SubTurnsAreNested)
  BY Wide!SubTurnsNested
<1>2. Wide!Spec => []Wide!DepthIsBounded
  BY Wide!DepthBounded
<1>3. Deep!Spec => [](Deep!TypeOK /\ Deep!SubTurnsAreNested)
  BY Deep!SubTurnsNested
<1>4. Deep!Spec => []Deep!DepthIsBounded
  BY Deep!DepthBounded
<1>5. (/\ part = "wide" => (Wide!TypeOK /\ Wide!SubTurnsAreNested) /\ Wide!DepthIsBounded
       /\ part = "deep" => (Deep!TypeOK /\ Deep!SubTurnsAreNested) /\ Deep!DepthIsBounded) => SubTurnsAreNested
  BY DEF SubTurnsAreNested
<1> QED BY <1>1, <1>2, <1>3, <1>4, <1>5, WideMoves, DeepMoves, PTL DEF Spec, Wide!Spec, Deep!Spec

(* A sub-turn that fails does not end its caller, a tool runs under the    *)
(* rights of its turn's own agent, and nothing goes on below a cancelled   *)
(* turn (Source.Call, runTurn).                                            *)
THEOREM HostContainsDelegation == Wide!Assumptions /\ Deep!Assumptions => (Spec => DelegationContains)
<1> SUFFICES ASSUME Wide!Assumptions /\ Deep!Assumptions PROVE Spec => DelegationContains
  OBVIOUS
<1>1. Wide!Spec => [][Wide!FailuresInside]_Wide!vars
  BY Wide!FailureIsAResult DEF Wide!FailuresStayInside
<1>2. Wide!Spec => [][Wide!RunsUnderOwnRights]_Wide!vars
  BY Wide!OwnRightsOnly DEF Wide!RightsAreNotInherited
<1>3. Wide!Spec => [][Wide!GoesOnAlive]_Wide!vars
  BY Wide!CancellationReaches DEF Wide!CancellationReachesAll
<1>4. [Next]_vars /\ part = "wide"
      /\ [Wide!FailuresInside]_Wide!vars /\ [Wide!RunsUnderOwnRights]_Wide!vars /\ [Wide!GoesOnAlive]_Wide!vars
      => [part = "wide" => Wide!FailuresInside /\ Wide!RunsUnderOwnRights /\ Wide!GoesOnAlive]_vars
  BY WideMoves
<1>5. ~(part = "wide") => [part = "wide" => Wide!FailuresInside /\ Wide!RunsUnderOwnRights /\ Wide!GoesOnAlive]_vars
  OBVIOUS
<1>6. Deep!Spec => [][Deep!FailuresInside]_Deep!vars
  BY Deep!FailureIsAResult DEF Deep!FailuresStayInside
<1>7. Deep!Spec => [][Deep!RunsUnderOwnRights]_Deep!vars
  BY Deep!OwnRightsOnly DEF Deep!RightsAreNotInherited
<1>8. Deep!Spec => [][Deep!GoesOnAlive]_Deep!vars
  BY Deep!CancellationReaches DEF Deep!CancellationReachesAll
<1>9. [Next]_vars /\ part = "deep"
      /\ [Deep!FailuresInside]_Deep!vars /\ [Deep!RunsUnderOwnRights]_Deep!vars /\ [Deep!GoesOnAlive]_Deep!vars
      => [part = "deep" => Deep!FailuresInside /\ Deep!RunsUnderOwnRights /\ Deep!GoesOnAlive]_vars
  BY DeepMoves
<1>10. ~(part = "deep")
      => [part = "deep" => Deep!FailuresInside /\ Deep!RunsUnderOwnRights /\ Deep!GoesOnAlive]_vars
  OBVIOUS
<1>11. [part = "wide" => Wide!FailuresInside /\ Wide!RunsUnderOwnRights /\ Wide!GoesOnAlive]_vars
      /\ [part = "deep" => Deep!FailuresInside /\ Deep!RunsUnderOwnRights /\ Deep!GoesOnAlive]_vars
      => [/\ part = "wide" => Wide!FailuresInside /\ Wide!RunsUnderOwnRights /\ Wide!GoesOnAlive
          /\ part = "deep" => Deep!FailuresInside /\ Deep!RunsUnderOwnRights /\ Deep!GoesOnAlive]_vars
  OBVIOUS
<1> QED BY <1>1, <1>2, <1>3, <1>4, <1>5, <1>6, <1>7, <1>8, <1>9, <1>10, <1>11, WideMoves, DeepMoves, PTL DEF
           Spec, DelegationContains, Wide!Spec, Deep!Spec

(* What the constants of all instances are.                                *)
HostAssumptions ==
  Pair!Assumptions /\ Single!Assumptions /\ TurnAssumptions /\ Wide!Assumptions /\ Deep!Assumptions

(* Every variable of an instance that moves keeps its type.                *)
THEOREM HostTypesCorrect == HostAssumptions => (Spec => []TypeOK)
<1> SUFFICES ASSUME HostAssumptions PROVE Spec => []TypeOK
  OBVIOUS
<1>1. Pair!Spec => [](Pair!TypeOK /\ Pair!NoSessionLeaked)
  BY Pair!SessionsKept DEF HostAssumptions
<1>2. Single!Spec => [](Single!TypeOK /\ Single!NoSessionLeaked)
  BY Single!SessionsKept DEF HostAssumptions
<1>3. Overlapping!Spec => []Overlapping!TypeOK
  BY Overlapping!TypesCorrect DEF HostAssumptions, TurnAssumptions
<1>4. Volatile!Spec => []Volatile!TypeOK
  BY Volatile!TypesCorrect DEF HostAssumptions, TurnAssumptions
<1>5. Serial!Spec => []Serial!TypeOK
  BY Serial!TypesCorrect DEF HostAssumptions, TurnAssumptions
<1>6. Confirming!Spec => []Confirming!TypeOK
  BY Confirming!TypeCorrect DEF HostAssumptions, TurnAssumptions
<1>7. Wide!Spec => [](Wide!TypeOK /\ Wide!SubTurnsAreNested)
  BY Wide!SubTurnsNested DEF HostAssumptions
<1>8. Deep!Spec => [](Deep!TypeOK /\ Deep!SubTurnsAreNested)
  BY Deep!SubTurnsNested DEF HostAssumptions
<1>9. (/\ part = "pair" => (Pair!TypeOK /\ Pair!NoSessionLeaked)
       /\ part = "single" => (Single!TypeOK /\ Single!NoSessionLeaked)
       /\ part = "overlap" => Overlapping!TypeOK
       /\ part = "volatile" => Volatile!TypeOK
       /\ part = "serial" => Serial!TypeOK
       /\ part = "confirming" => Confirming!TypeOK
       /\ part = "wide" => (Wide!TypeOK /\ Wide!SubTurnsAreNested)
       /\ part = "deep" => (Deep!TypeOK /\ Deep!SubTurnsAreNested)) => TypeOK
  BY DEF TypeOK
<1> QED BY <1>1, <1>2, <1>3, <1>4, <1>5, <1>6, <1>7, <1>8, <1>9, PairMoves, SingleMoves, OverlappingMoves,
           VolatileMoves, SerialMoves, ConfirmingMoves, WideMoves, DeepMoves, PTL DEF Spec, Pair!Spec,
           Single!Spec, Overlapping!Spec, Volatile!Spec, Serial!Spec, Confirming!Spec, Wide!Spec, Deep!Spec
----------------------------------------------------------------------------
(* The policies that entries make.                                         *)
OverrideSets == UNION {[keys -> Entries!Overrides] : keys \in SUBSET {"bank.pay", "pay"}}
AgentPolicies ==
  [mode : Entries!Modes, allow : SUBSET Entries!Globs, deny : SUBSET (Entries!Globs \cup {"["}),
   confirm : SUBSET Entries!Globs, overrides : OverrideSets]
Policies == [default : Entries!Modes, agents : [{"a"} -> AgentPolicies]]

(* What the policy of an agent allows, once its mode is known.             *)
Allows(agent, default, tool) ==
  LET mode == IF agent.mode # "" THEN agent.mode ELSE default IN
  /\ ~Entries!MatchesAny(agent.deny, tool)
  /\ mode \in {"allow", "read_only"}
  /\ mode = "read_only" => Entries!ToolOverride(agent, tool).read_only
  /\ Entries!AllowListMatches(agent, tool)

(* The policy of the agent decides, with the default for its mode.         *)
LEMMA AgentDecides ==
  ASSUME NEW p \in Policies, NEW t \in Entries!Tools
  PROVE  /\ Entries!Evaluate(p, "a", t).allowed <=> Allows(p.agents["a"], p.default, t)
         /\ Entries!Evaluate(p, "a", t).confirm <=> /\ Allows(p.agents["a"], p.default, t)
                                            /\ Entries!ConfirmationRequired(p.agents["a"], t)
<1>1. Entries!AgentPolicy(p, "a") = p.agents["a"]
  BY DEF Entries!AgentPolicy, Policies
<1> QED BY <1>1 DEF Entries!Evaluate, Allows

(* An entry changes the agent's policy only.                               *)
LEMMA EntryReplaces ==
  ASSUME NEW p \in Policies, NEW a \in AgentPolicies
  PROVE  LET q == [p EXCEPT !.agents["a"] = a] IN
         q \in Policies /\ q.agents["a"] = a /\ q.default = p.default
BY DEF Policies

(* An agent without entries.                                               *)
LEMMA NewPolicies == Entries!Init => written \in Policies
<1> SUFFICES ASSUME NEW default \in Entries!Modes, NEW mode \in Entries!Modes,
                    written = [default |-> default,
                               agents |-> [a \in {"a"} |-> [Entries!Undeclared EXCEPT !.mode = mode]]]
             PROVE  written \in Policies
  BY DEF Entries!Init
<1>1. <<>> \in [{} -> Entries!Overrides]
  OBVIOUS
<1>2. <<>> \in OverrideSets
  BY <1>1 DEF OverrideSets
<1>3. [Entries!Undeclared EXCEPT !.mode = mode] \in AgentPolicies
  BY <1>2 DEF Entries!Undeclared, AgentPolicies
<1> QED BY <1>3 DEF Policies

(* The entry of each list.                                                 *)
LEMMA Entered ==
  ASSUME written \in Policies, Entries!Next
  PROVE  \E a \in AgentPolicies :
           /\ written' = [written EXCEPT !.agents["a"] = a]
           /\ \/ \E g \in Entries!Globs \cup {"["} :
                   a = [Entries!Agent EXCEPT !.deny = @ \cup {g}] /\ edited' = "deny"
              \/ \E g \in Entries!Globs : a = [Entries!Agent EXCEPT !.allow = @ \cup {g}] /\ edited' = "allow"
              \/ \E g \in Entries!Globs : a = [Entries!Agent EXCEPT !.confirm = @ \cup {g}] /\ edited' = "confirm"
              \/ \E k \in {"bank.pay", "pay"}, o \in Entries!Overrides :
                   /\ k \notin DOMAIN Entries!Agent.overrides
                   /\ a = [Entries!Agent EXCEPT !.overrides = [x \in DOMAIN @ \cup {k} |-> IF x = k THEN o ELSE @[x]]]
                   /\ edited' = IF k = "pay" THEN "override pay" ELSE "override bank.pay"
<1>1. Entries!Agent \in AgentPolicies
  BY DEF Entries!Agent, Policies
<1>2. CASE Entries!Deny
  <2>1. PICK g \in Entries!Globs \cup {"["} : Entries!Becomes([Entries!Agent EXCEPT !.deny = @ \cup {g}], "deny")
    BY <1>2 DEF Entries!Deny
  <2>2. [Entries!Agent EXCEPT !.deny = @ \cup {g}] \in AgentPolicies
    BY <1>1 DEF AgentPolicies
  <2> QED BY <2>1, <2>2 DEF Entries!Becomes
<1>3. CASE Entries!Allow
  <2>1. PICK g \in Entries!Globs : Entries!Becomes([Entries!Agent EXCEPT !.allow = @ \cup {g}], "allow")
    BY <1>3 DEF Entries!Allow
  <2>2. [Entries!Agent EXCEPT !.allow = @ \cup {g}] \in AgentPolicies
    BY <1>1 DEF AgentPolicies
  <2> QED BY <2>1, <2>2 DEF Entries!Becomes
<1>4. CASE Entries!Confirm
  <2>1. PICK g \in Entries!Globs : Entries!Becomes([Entries!Agent EXCEPT !.confirm = @ \cup {g}], "confirm")
    BY <1>4 DEF Entries!Confirm
  <2>2. [Entries!Agent EXCEPT !.confirm = @ \cup {g}] \in AgentPolicies
    BY <1>1 DEF AgentPolicies
  <2> QED BY <2>1, <2>2 DEF Entries!Becomes
<1>5. CASE Entries!Override
  <2>1. PICK k \in {"bank.pay", "pay"}, o \in Entries!Overrides :
          /\ k \notin DOMAIN Entries!Agent.overrides
          /\ Entries!Becomes([Entries!Agent EXCEPT !.overrides =
                        [x \in DOMAIN @ \cup {k} |-> IF x = k THEN o ELSE Entries!Agent.overrides[x]]],
                     IF k = "pay" THEN "override pay" ELSE "override bank.pay")
    BY <1>5 DEF Entries!Override
  <2> DEFINE before == Entries!Agent.overrides
             changed == [x \in DOMAIN before \cup {k} |-> IF x = k THEN o ELSE before[x]]
  <2>2. PICK keys \in SUBSET {"bank.pay", "pay"} : Entries!Agent.overrides \in [keys -> Entries!Overrides]
    BY <1>1 DEF AgentPolicies, OverrideSets
  <2>3. changed \in [keys \cup {k} -> Entries!Overrides]
    BY <2>2
  <2>4. changed \in OverrideSets
    BY <2>3 DEF OverrideSets
  <2>5. [Entries!Agent EXCEPT !.overrides = changed] \in AgentPolicies
    BY <1>1, <2>4 DEF AgentPolicies
  <2> QED BY <2>1, <2>5 DEF Entries!Becomes
<1> QED BY <1>2, <1>3, <1>4, <1>5 DEF Entries!Next

(* What a tool's override is does not depend on the lists.                 *)
LEMMA ListsApart ==
  ASSUME NEW a, NEW b, NEW t, a.overrides = b.overrides
  PROVE  Entries!ToolOverride(a, t) = Entries!ToolOverride(b, t)
BY DEF Entries!ToolOverride

(* A denial takes tools away; a malformed glob takes none.                 *)
LEMMA DenialTakes ==
  ASSUME NEW a \in AgentPolicies, NEW g, NEW default, NEW t \in Entries!Tools,
         Allows([a EXCEPT !.deny = @ \cup {g}], default, t)
  PROVE  Allows(a, default, t) /\ ~Entries!MatchTool(g, t)
BY ListsApart DEF Allows, Entries!MatchesAny, Entries!AllowListMatches, AgentPolicies, Entries!ToolOverride

LEMMA MalformedTakesNone ==
  ASSUME Entries!KeyAssumption, NEW a \in AgentPolicies, NEW default, NEW t \in Entries!Tools
  PROVE  Allows([a EXCEPT !.deny = @ \cup {"["}], default, t) <=> Allows(a, default, t)
<1>1. ~Entries!MatchTool("[", t)
  <2>1. t.name # "["
    <3>1. t.name \in {"pay", "list"}
      <4>1. \A space, word : Entries!Tool(space, word).name = word
        BY DEF Entries!Tool
      <4> QED BY <4>1 DEF Entries!Tools
    <3> QED BY <3>1
  <2>2. \A x \in {Entries!ToolKey(t), t.name} : "[" # x /\ <<"[", x>> \notin Matching
    BY <2>1 DEF Entries!KeyAssumption
  <2> QED BY <2>2 DEF Entries!MatchTool
<1> QED BY <1>1 DEF Allows, Entries!MatchesAny, Entries!AllowListMatches, AgentPolicies, Entries!ToolOverride

(* The first entry of the allowlist takes tools away, the others give.     *)
LEMMA AllowanceGives ==
  ASSUME NEW a \in AgentPolicies, NEW g, NEW default, NEW t \in Entries!Tools
  PROVE  LET b == [a EXCEPT !.allow = @ \cup {g}] IN
         /\ a.allow = {} /\ Allows(b, default, t) => Allows(a, default, t)
         /\ a.allow # {} /\ Allows(a, default, t) => Allows(b, default, t)
BY DEF Allows, Entries!MatchesAny, Entries!AllowListMatches, AgentPolicies, Entries!ToolOverride

(* A confirmation changes no permission, and neither it nor an allowance   *)
(* takes a confirmation away.                                              *)
LEMMA ConfirmationAsks ==
  ASSUME NEW a \in AgentPolicies, NEW g, NEW default, NEW t \in Entries!Tools
  PROVE  /\ Allows([a EXCEPT !.confirm = @ \cup {g}], default, t) <=> Allows(a, default, t)
         /\ Entries!ConfirmationRequired(a, t) => Entries!ConfirmationRequired([a EXCEPT !.confirm = @ \cup {g}], t)
         /\ Entries!ConfirmationRequired(a, t) => Entries!ConfirmationRequired([a EXCEPT !.allow = @ \cup {g}], t)
<1>1. Allows([a EXCEPT !.confirm = @ \cup {g}], default, t) <=> Allows(a, default, t)
  BY DEF Allows, Entries!MatchesAny, Entries!AllowListMatches, AgentPolicies, Entries!ToolOverride
<1>2. Entries!ConfirmationRequired(a, t) => Entries!ConfirmationRequired([a EXCEPT !.confirm = @ \cup {g}], t)
  BY DEF Entries!ConfirmationRequired, Entries!MatchesAny, AgentPolicies, Entries!ToolOverride
<1>3. Entries!ConfirmationRequired(a, t) => Entries!ConfirmationRequired([a EXCEPT !.allow = @ \cup {g}], t)
  BY DEF Entries!ConfirmationRequired, Entries!MatchesAny, AgentPolicies, Entries!ToolOverride
<1> QED BY <1>1, <1>2, <1>3

(* The override of a bare name hides no other.                             *)
LEMMA BareNameHidesNothing ==
  ASSUME Entries!KeyAssumption, NEW a \in AgentPolicies, "pay" \notin DOMAIN a.overrides, NEW o, NEW default,
         NEW t \in Entries!Tools, Allows(a, default, t)
  PROVE  LET b == [a EXCEPT !.overrides = [x \in DOMAIN @ \cup {"pay"} |-> IF x = "pay" THEN o ELSE @[x]]] IN
         Allows(b, default, t) /\ (Entries!ConfirmationRequired(a, t) => Entries!ConfirmationRequired(b, t))
<1> DEFINE b == [a EXCEPT !.overrides = [x \in DOMAIN @ \cup {"pay"} |-> IF x = "pay" THEN o ELSE @[x]]]
<1>1. /\ b.overrides = [x \in DOMAIN a.overrides \cup {"pay"} |-> IF x = "pay" THEN o ELSE a.overrides[x]]
      /\ b.deny = a.deny /\ b.allow = a.allow /\ b.confirm = a.confirm /\ b.mode = a.mode
  BY DEF AgentPolicies
<1>2. Entries!ToolOverride(b, t) = Entries!ToolOverride(a, t) \/ Entries!ToolOverride(a, t) = Entries!NoOverride
  <2>1. Entries!ToolKey(t) = "pay" => t.name = "pay"
    BY DEF Entries!KeyAssumption
  <2> HIDE DEF b
  <2>2. DOMAIN b.overrides = DOMAIN a.overrides \cup {"pay"}
    BY <1>1
  <2>3. \A x \in DOMAIN a.overrides : x # "pay" /\ b.overrides[x] = a.overrides[x]
    BY <1>1
  <2> QED BY <2>1, <2>2, <2>3 DEF Entries!ToolOverride
<1>3. ~Entries!NoOverride.read_only /\ ~Entries!NoOverride.confirm
  BY DEF Entries!NoOverride
<1> HIDE DEF b
<1>4. Allows(b, default, t)
  BY <1>1, <1>2, <1>3 DEF Allows, Entries!MatchesAny, Entries!AllowListMatches
<1>5. Entries!ConfirmationRequired(a, t) => Entries!ConfirmationRequired(b, t)
  BY <1>1, <1>2, <1>3 DEF Entries!ConfirmationRequired, Entries!MatchesAny
<1> QED BY <1>4, <1>5 DEF b

(* An entry does what its list says and nothing else.                      *)
LEMMA EntriesMeanIt ==
  ASSUME Entries!KeyAssumption, written \in Policies, Entries!Next
  PROVE  /\ written' \in Policies
         /\ edited' = "deny" => Entries!Allowed' \subseteq Entries!Allowed
         /\ Entries!Agent'.deny \ Entries!Agent.deny \subseteq {"["} /\ edited' = "deny" =>
              Entries!Allowed' = Entries!Allowed
         /\ edited' = "allow" =>
              IF Entries!Agent.allow = {} THEN Entries!Allowed' \subseteq Entries!Allowed
              ELSE Entries!Allowed \subseteq Entries!Allowed'
         /\ edited' \in {"allow", "confirm"} =>
              \A t \in Entries!Allowed \cap Entries!Allowed' : t \in Entries!Confirmed => t \in Entries!Confirmed'
         /\ edited' = "confirm" => Entries!Allowed' = Entries!Allowed
         /\ edited' = "override pay" =>
              Entries!Confirmed \subseteq Entries!Confirmed' /\ Entries!Allowed \subseteq Entries!Allowed'
<1>1. PICK a \in AgentPolicies :
           /\ written' = [written EXCEPT !.agents["a"] = a]
           /\ \/ \E g \in Entries!Globs \cup {"["} :
                   a = [Entries!Agent EXCEPT !.deny = @ \cup {g}] /\ edited' = "deny"
              \/ \E g \in Entries!Globs : a = [Entries!Agent EXCEPT !.allow = @ \cup {g}] /\ edited' = "allow"
              \/ \E g \in Entries!Globs : a = [Entries!Agent EXCEPT !.confirm = @ \cup {g}] /\ edited' = "confirm"
              \/ \E k \in {"bank.pay", "pay"}, o \in Entries!Overrides :
                   /\ k \notin DOMAIN Entries!Agent.overrides
                   /\ a = [Entries!Agent EXCEPT !.overrides = [x \in DOMAIN @ \cup {k} |-> IF x = k THEN o ELSE @[x]]]
                   /\ edited' = IF k = "pay" THEN "override pay" ELSE "override bank.pay"
  BY Entered
<1>2. written' \in Policies /\ Entries!Agent' = a /\ written'.default = written.default
  BY <1>1, EntryReplaces DEF Entries!Agent
<1>3. Entries!Agent \in AgentPolicies
  BY DEF Entries!Agent, Policies
<1>4. \A t \in Entries!Tools :
        /\ t \in Entries!Allowed <=> Allows(Entries!Agent, written.default, t)
        /\ t \in Entries!Confirmed <=>
             Allows(Entries!Agent, written.default, t) /\ Entries!ConfirmationRequired(Entries!Agent, t)
  BY AgentDecides DEF Entries!Allowed, Entries!Confirmed, Entries!Agent
<1>5. \A t \in Entries!Tools :
        /\ t \in Entries!Allowed' <=> Allows(a, written.default, t)
        /\ t \in Entries!Confirmed' <=>
             Allows(a, written.default, t) /\ Entries!ConfirmationRequired(a, t)
  BY <1>2, AgentDecides DEF Entries!Allowed, Entries!Confirmed, Entries!Agent
<1>6. /\ Entries!Allowed \subseteq Entries!Tools /\ Entries!Allowed' \subseteq Entries!Tools
      /\ Entries!Confirmed \subseteq Entries!Tools /\ Entries!Confirmed' \subseteq Entries!Tools
  BY DEF Entries!Allowed, Entries!Confirmed
<1>7. ASSUME edited' = "deny"
      PROVE  /\ Entries!Allowed' \subseteq Entries!Allowed
             /\ Entries!Agent'.deny \ Entries!Agent.deny \subseteq {"["} => Entries!Allowed' = Entries!Allowed
  <2>1. PICK g \in Entries!Globs \cup {"["} : a = [Entries!Agent EXCEPT !.deny = @ \cup {g}]
    BY <1>1, <1>7
  <2>2. \A t \in Entries!Tools : Allows(a, written.default, t) => Allows(Entries!Agent, written.default, t)
    BY <1>3, <2>1, DenialTakes
  <2>3. ASSUME Entries!Agent'.deny \ Entries!Agent.deny \subseteq {"["}, NEW t \in Entries!Tools,
               Allows(Entries!Agent, written.default, t)
        PROVE  Allows(a, written.default, t)
    <3>1. CASE g \in Entries!Agent.deny
      <4>1. a = Entries!Agent
        BY <1>3, <2>1, <3>1 DEF AgentPolicies
      <4> QED BY <2>3, <4>1
    <3>2. CASE g = "["
      BY <1>3, <2>1, <2>3, <3>2, MalformedTakesNone
    <3>3. a.deny = Entries!Agent.deny \cup {g}
      BY <1>3, <2>1 DEF AgentPolicies
    <3> QED BY <1>2, <2>3, <3>1, <3>2, <3>3
  <2> QED BY <1>4, <1>5, <1>6, <2>2, <2>3
<1>8. ASSUME edited' = "allow"
      PROVE  IF Entries!Agent.allow = {} THEN Entries!Allowed' \subseteq Entries!Allowed
             ELSE Entries!Allowed \subseteq Entries!Allowed'
  <2>1. PICK g \in Entries!Globs : a = [Entries!Agent EXCEPT !.allow = @ \cup {g}]
    BY <1>1, <1>8
  <2>2. \A t \in Entries!Tools :
          /\ Entries!Agent.allow = {} /\ Allows(a, written.default, t) => Allows(Entries!Agent, written.default, t)
          /\ Entries!Agent.allow # {} /\ Allows(Entries!Agent, written.default, t) => Allows(a, written.default, t)
    BY <1>3, <2>1, AllowanceGives
  <2> QED BY <1>4, <1>5, <1>6, <2>2
<1>9. ASSUME edited' \in {"allow", "confirm"}, NEW t \in Entries!Allowed \cap Entries!Allowed',
             t \in Entries!Confirmed
      PROVE  t \in Entries!Confirmed'
  <2>1. PICK g \in Entries!Globs : \/ a = [Entries!Agent EXCEPT !.allow = @ \cup {g}]
                                   \/ a = [Entries!Agent EXCEPT !.confirm = @ \cup {g}]
    BY <1>1, <1>9
  <2>2. Entries!ConfirmationRequired(Entries!Agent, t) => Entries!ConfirmationRequired(a, t)
    BY <1>3, <1>6, <2>1, ConfirmationAsks
  <2> QED BY <1>4, <1>5, <1>6, <1>9, <2>2
<1>10. ASSUME edited' = "confirm" PROVE Entries!Allowed' = Entries!Allowed
  <2>1. PICK g \in Entries!Globs : a = [Entries!Agent EXCEPT !.confirm = @ \cup {g}]
    BY <1>1, <1>10
  <2>2. \A t \in Entries!Tools : Allows(a, written.default, t) <=> Allows(Entries!Agent, written.default, t)
    BY <1>3, <2>1, ConfirmationAsks
  <2> QED BY <1>4, <1>5, <1>6, <2>2
<1>11. ASSUME edited' = "override pay"
       PROVE  Entries!Confirmed \subseteq Entries!Confirmed' /\ Entries!Allowed \subseteq Entries!Allowed'
  <2>1. PICK o \in Entries!Overrides :
          /\ "pay" \notin DOMAIN Entries!Agent.overrides
          /\ a = [Entries!Agent EXCEPT !.overrides = [x \in DOMAIN @ \cup {"pay"} |-> IF x = "pay" THEN o ELSE @[x]]]
    BY <1>1, <1>11
  <2>2. \A t \in Entries!Tools :
          Allows(Entries!Agent, written.default, t) =>
            /\ Allows(a, written.default, t)
            /\ Entries!ConfirmationRequired(Entries!Agent, t) => Entries!ConfirmationRequired(a, t)
    BY <1>3, <2>1, BareNameHidesNothing
  <2> QED BY <1>4, <1>5, <1>6, <2>2
<1> QED BY <1>2, <1>7, <1>8, <1>9, <1>10, <1>11

(* A denied bare name is denied whatever the tool's server.                *)
LEMMA BareNameDenied ==
  ASSUME NEW p \in Policies, NEW t \in Entries!Tools, t.name = "pay", "pay" \in p.agents["a"].deny
  PROVE  ~Entries!Evaluate(p, "a", t).allowed
<1>1. Entries!MatchTool("pay", t)
  BY DEF Entries!MatchTool
<1> QED BY <1>1, AgentDecides DEF Allows, Entries!MatchesAny

(* Nothing is allowed that no mode allows.                                 *)
LEMMA NothingByDefault == written \in Policies => Entries!DefaultDeny
<1> SUFFICES ASSUME written \in Policies PROVE Entries!DefaultDeny
  OBVIOUS
<1>1. {Entries!Agent.mode, written.default} \subseteq {""} => Entries!Allowed = {}
  BY AgentDecides DEF Entries!Allowed, Allows, Entries!Agent
<1>2. ASSUME NEW t \in Entries!Tools
      PROVE  Entries!Evaluate(written, "b", t) = [allowed |-> written.default = "allow", confirm |-> FALSE]
  <2>1. Entries!AgentPolicy(written, "b") = Entries!Undeclared
    BY DEF Entries!AgentPolicy, Policies
  <2>2. Entries!ToolOverride(Entries!Undeclared, t) = Entries!NoOverride
    BY DEF Entries!ToolOverride, Entries!Undeclared
  <2>3. ~Entries!MatchesAny({}, t)
    BY DEF Entries!MatchesAny
  <2>4. /\ Entries!Undeclared.mode = "" /\ Entries!Undeclared.deny = {}
        /\ Entries!Undeclared.allow = {} /\ Entries!Undeclared.confirm = {}
    BY DEF Entries!Undeclared
  <2>5. ~Entries!NoOverride.read_only /\ ~Entries!NoOverride.confirm
    BY DEF Entries!NoOverride
  <2>6. ~Entries!ConfirmationRequired(Entries!Undeclared, t) /\ Entries!AllowListMatches(Entries!Undeclared, t)
    BY <2>2, <2>3, <2>4, <2>5 DEF Entries!ConfirmationRequired, Entries!AllowListMatches
  <2> QED BY <2>1, <2>2, <2>3, <2>4, <2>5, <2>6 DEF Entries!Evaluate
<1> QED BY <1>1, <1>2 DEF Entries!DefaultDeny


(* Who writes the entries of a policy, and that nobody else does.          *)
LEMMA EntriesMoves ==
  /\ Init /\ part = "entries" => Entries!Init
  /\ [Next]_vars /\ part = "entries" => [Entries!Next]_Entries!vars
  /\ [Next]_vars => (part = "entries" <=> (part = "entries")')
  /\ [Next]_vars /\ ~(part = "entries") => UNCHANGED Entries!vars
<1>1. Init /\ part = "entries" => Entries!Init
  BY DEF Init
<1>2. [Next]_vars /\ part = "entries" => [Entries!Next]_Entries!vars
  BY DEF Next, vars, entryVars, Entries!vars
<1>3. [Next]_vars => (part = "entries" <=> (part = "entries")')
  BY PartStays
<1>4. [Next]_vars /\ ~(part = "entries") => UNCHANGED Entries!vars
  BY DEF Next, vars, entryVars, Entries!vars
<1> QED BY <1>1, <1>2, <1>3, <1>4

(* An entry of a policy does what its list says and nothing else, a denied *)
(* tool is denied in every mode, and nothing is allowed that no mode       *)
(* allows (evaluatePolicy, toolOverride, matchTool).                       *)
THEOREM HostReadsEntries == Entries!KeyAssumption => (Spec => EntriesMeanWhatTheySay)
<1> SUFFICES ASSUME Entries!KeyAssumption PROVE Spec => EntriesMeanWhatTheySay
  OBVIOUS
<1> DEFINE Right == written \in Policies
           Meant == /\ edited' = "deny" => Entries!Allowed' \subseteq Entries!Allowed
                    /\ Entries!Agent'.deny \ Entries!Agent.deny \subseteq {"["} /\ edited' = "deny" =>
                         Entries!Allowed' = Entries!Allowed
                    /\ \A t \in Entries!Tools :
                         (t.name = "pay" /\ "pay" \in Entries!Agent'.deny) => t \notin Entries!Allowed'
                    /\ edited' = "allow" =>
                         IF Entries!Agent.allow = {} THEN Entries!Allowed' \subseteq Entries!Allowed
                         ELSE Entries!Allowed \subseteq Entries!Allowed'
                    /\ edited' \in {"allow", "confirm"} =>
                         \A t \in Entries!Allowed \cap Entries!Allowed' :
                           t \in Entries!Confirmed => t \in Entries!Confirmed'
                    /\ edited' = "confirm" => Entries!Allowed' = Entries!Allowed
                    /\ edited' = "override pay" =>
                         Entries!Confirmed \subseteq Entries!Confirmed' /\ Entries!Allowed \subseteq Entries!Allowed'
<1>1. Entries!Init => Right
  BY NewPolicies
<1>2. Right /\ [Entries!Next]_Entries!vars => Right' /\ [Meant]_Entries!vars
  <2> SUFFICES ASSUME Right, [Entries!Next]_Entries!vars PROVE Right' /\ [Meant]_Entries!vars
    OBVIOUS
  <2>1. CASE UNCHANGED Entries!vars
    BY <2>1 DEF Entries!vars
  <2>2. CASE Entries!Next
    <3>1. /\ Right'
          /\ edited' = "deny" => Entries!Allowed' \subseteq Entries!Allowed
          /\ Entries!Agent'.deny \ Entries!Agent.deny \subseteq {"["} /\ edited' = "deny" =>
               Entries!Allowed' = Entries!Allowed
          /\ edited' = "allow" =>
               IF Entries!Agent.allow = {} THEN Entries!Allowed' \subseteq Entries!Allowed
               ELSE Entries!Allowed \subseteq Entries!Allowed'
          /\ edited' \in {"allow", "confirm"} =>
               \A t \in Entries!Allowed \cap Entries!Allowed' :
                 t \in Entries!Confirmed => t \in Entries!Confirmed'
          /\ edited' = "confirm" => Entries!Allowed' = Entries!Allowed
          /\ edited' = "override pay" =>
               Entries!Confirmed \subseteq Entries!Confirmed' /\ Entries!Allowed \subseteq Entries!Allowed'
      BY <2>2, EntriesMeanIt
    <3>2. ASSUME NEW t \in Entries!Tools, t.name = "pay", "pay" \in Entries!Agent'.deny
          PROVE  t \notin Entries!Allowed'
      BY <3>1, <3>2, BareNameDenied DEF Entries!Agent, Entries!Allowed
    <3> QED BY <3>1, <3>2
  <2> QED BY <2>1, <2>2
<1>3. Right => Entries!DefaultDeny
  BY NothingByDefault
<1> HIDE DEF Right, Meant
<1>4. Spec => [](part = "entries" => Right) /\ [][Meant]_Entries!vars
  <2>1. [Next]_vars /\ ~(part = "entries") => [Meant]_Entries!vars
    BY EntriesMoves
  <2> QED BY <1>1, <1>2, <2>1, EntriesMoves, PTL DEF Spec
<1> QED BY <1>3, <1>4, PTL DEF EntriesMeanWhatTheySay, Entries!EntriesMeanWhatTheySay, Meant
=============================================================================
