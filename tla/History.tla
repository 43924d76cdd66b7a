------------------------------ MODULE History ------------------------------
(***************************************************************************)
(* What ia-harness makes of a history, and remembers: the wire forms       *)
(* (WireHistory), the window (ContextWindow), the document of a session    *)
(* (SessionSnapshot), its account and audit (UsageAudit) and the memory of *)
(* users (UserMemory).  They share no variable, so that what one of them   *)
(* does is a behaviour of all with the others at rest: part says which one *)
(* moves.                                                                  *)
(***************************************************************************)
EXTENDS Integers, Sequences

CONSTANTS
  None, Blank,
  UserInputs, Arguments, Outcomes, Params, Requests, WireBatch, WireLength,
  Histories, Sizes, SummarySizes, ContextTokens, Reserve, PolicyTokens, Ratio, Extra, Tokenizer,
  MaxMessages, MaxBatch,
  Inputs, Replies, Results, MessageIds, Base64, MaxBytes, MaxCounter, Parent, MaxSaved,
  Pricing, Reports, Volumes, ToolArguments, MaxFieldBytes, MaxInt, Million, MaxCalls,
  NoTurn, Users, Docs, Similarity, UserOf, RetrievalK, FactIds,
  Told, Asking, MaxPuts   \* turns that are told of facts, and that need the index

VARIABLES
  part,
  history, pending, body,
  messages, waiting, pc, summarizeAllowed, request, compaction, covered,
  session, document, saved, lost, loaded, status,
  account, trail, errors, calls, tools, edited, asked, failed,
  facts, vectors, ready, holder, turn, clock, puts, remembered
----------------------------------------------------------------------------
Wire == INSTANCE WireHistory WITH request <- body, MaxCalls <- WireBatch, MaxMessages <- WireLength
Window == INSTANCE ContextWindow WITH MaxCalls <- MaxBatch
Snapshot == INSTANCE SessionSnapshot WITH Answers <- Replies, MaxInt <- MaxCounter,
  MaxMessages <- MaxSaved
Audit == INSTANCE UsageAudit WITH session <- account, Texts <- ToolArguments

(* Turns that are told of facts, and turns that need the index.            *)
Facts == INSTANCE UserMemory WITH Turns <- Told
Index == INSTANCE UserMemory WITH Turns <- Asking, MaxPuts <- 0

wireVars == <<history, pending, body>>
windowVars == <<messages, waiting, pc, summarizeAllowed, request, compaction, covered>>
snapshotVars == <<session, document, saved, lost, loaded, status>>
auditVars == <<account, trail, errors, calls, tools, edited, asked, failed>>
memoryVars == <<facts, vectors, ready, holder, turn, clock, puts, remembered>>
vars == <<part, wireVars, windowVars, snapshotVars, auditVars, memoryVars>>

(* Who rests starts in one of its initial states.                          *)
Init ==
  /\ part \in {"wire", "window", "snapshot", "audit", "facts", "index"}
  /\ Wire!Init /\ (part # "wire" => body = CHOOSE r \in Requests : TRUE)
  /\ Window!Init /\ (part # "window" => messages = (CHOOSE h \in Histories : TRUE) /\ summarizeAllowed)
  /\ Snapshot!Init /\ Audit!Init
  /\ IF part = "facts" THEN Facts!Init ELSE Index!Init
  /\ part \notin {"facts", "index"} => ~ready

Next ==
  /\ UNCHANGED part
  /\ \/ part = "wire" /\ Wire!Next /\ UNCHANGED <<windowVars, snapshotVars, auditVars, memoryVars>>
     \/ part = "window" /\ Window!Next /\ UNCHANGED <<wireVars, snapshotVars, auditVars, memoryVars>>
     \/ part = "snapshot" /\ Snapshot!Next /\ UNCHANGED <<wireVars, windowVars, auditVars, memoryVars>>
     \/ part = "audit" /\ Audit!Next /\ UNCHANGED <<wireVars, windowVars, snapshotVars, memoryVars>>
     \/ part = "facts" /\ Facts!Next /\ UNCHANGED <<wireVars, windowVars, snapshotVars, auditVars>>
     \/ part = "index" /\ Index!Next /\ UNCHANGED <<wireVars, windowVars, snapshotVars, auditVars>>

Spec == Init /\ [][Next]_vars
----------------------------------------------------------------------------
(* Properties, as the components state them; one for each promise that     *)
(* several of theirs make together.                                        *)

(* Every variable keeps its type.                                          *)
TypeOK ==
  /\ part = "wire" => Wire!TypeOK
  /\ part = "window" => Window!TypeOK
  /\ part = "snapshot" => Snapshot!TypeOK

(* Each adapter says all of the history, once and in order: refusals and   *)
(* failures of tools too, to Anthropic in alternating roles with results   *)
(* right after their calls, and whatever the parameters of the profile.    *)
WireSaysAll ==
  part = "wire" =>
    /\ Wire!AnthropicSaysAll /\ Wire!OpenAISaysAll /\ Wire!ResponsesSaysAll
    /\ Wire!RefusalsAreTold /\ Wire!RolesAlternate
    /\ Wire!ProtocolPrevails

(* A compaction keeps calls and their results together, the system         *)
(* messages and the newest block; it takes the oldest and no more than     *)
(* needed, and summarizes a turn at most once.                             *)
CompactionKeepsWhole ==
  part = "window" =>
    /\ Window!PairsTogether
    /\ Window!SystemAndNewestKept
    /\ Window!OldestAndNoMore
    /\ Window!SummaryOnce

(* A restart finds all that was saved, of a damaged document all that is   *)
(* left or nothing, and of a result what is within the cap.                *)
RestartFindsAll ==
  part = "snapshot" =>
    /\ Snapshot!RestartFindsAll
    /\ Snapshot!PartialDocuments
    /\ Snapshot!ResultsWithinCap

(* No cost or estimate is below what the provider bills, and the totals of *)
(* a session are the sums of its calls.                                    *)
AccountAddsUp == part = "audit" => Audit!NeverUnderestimates /\ Audit!TotalsAreSums

(* The audit trail holds every call, or the host was told that its event   *)
(* is missing or that it failed, with arguments that are prefixes of whole *)
(* characters.                                                             *)
TrailIsComplete == part = "audit" => Audit!TrailIsComplete /\ Audit!PayloadsArePrefixes

(* A turn is told what is remembered of its user at that moment, which is  *)
(* what the host last gave and did not forget, and its user's nearest      *)
(* documents, from an index that was asked for once and completed.         *)
MemoryIsCurrent ==
  /\ [](part = "facts" => Facts!FactsAreTheLatest)
  /\ [][part = "facts" => Facts!ToldWhatIsRemembered]_vars
  /\ [](part = "index" => Index!ItemsAreNearest /\ Index!IndexedOnce)
=============================================================================
