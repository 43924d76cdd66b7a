---------------------------- MODULE ContextWindow ----------------------------
(***************************************************************************)
(* The context window of a turn of ia-harness: before every model call     *)
(* applyWindow leaves out the oldest blocks of the working context, and    *)
(* may put one summary in their place.  The context itself grows with the  *)
(* turn and is never cut.                                                  *)
(*                                                                         *)
(* A message is [role, uses, answers, size, media]: the calls it makes,    *)
(* the call it answers, and its payload in tokens.                         *)
(***************************************************************************)
EXTENDS Integers, Sequences, FiniteSets, SequencesExt

CONSTANTS
  Histories,      \* contexts a turn may start with
  Sizes,          \* payloads of messages
  SummarySizes,   \* payloads of what the Summarizer (external) returns; 0: it fails
  ContextTokens,  \* Capabilities.MaxContextTokens; 0: unknown
  Reserve,        \* MaxOutputTokens and SafetyMargin
  PolicyTokens,   \* Context.MaxTokens
  Ratio,          \* Context.CompactAtRatio, in tenths
  Extra,          \* tokens of the system prompt and of the tools
  Tokenizer,      \* Config.Tokenizer is set
  None,
  MaxMessages, MaxCalls  \* bounds

Ids == Nat \X Nat   \* of calls

WindowAssumption ==
  /\ {ContextTokens, Reserve, PolicyTokens, Extra, MaxMessages, MaxCalls} \subseteq Nat
  /\ Ratio \in 1 .. 10 /\ Tokenizer \in BOOLEAN
  /\ Sizes \subseteq Nat /\ SummarySizes \subseteq Nat /\ None \notin Ids

VARIABLES
  messages,          \* the working context of the turn
  waiting,           \* calls of the last answer without result
  pc,
  summarizeAllowed,
  request,           \* ChatRequest.Messages of the last model call
  compaction,        \* its CompactionInfo, or None
  covered            \* history: the messages each summary of the turn stands for

vars == <<messages, waiting, pc, summarizeAllowed, request, compaction, covered>>

SystemMessage(size) ==
  [role |-> "system", uses |-> {}, answers |-> None, size |-> size, media |-> 0]
UserMessage(size, media) ==
  [role |-> "user", uses |-> {}, answers |-> None, size |-> size, media |-> media]

Init ==
  /\ messages \in Histories /\ waiting = <<>> /\ pc = "call"
  /\ summarizeAllowed \in BOOLEAN /\ request = <<>> /\ compaction = None /\ covered = <<>>

HasCall(m) == m.uses # {}
HasResult(m) == m.answers # None

Message ==
  [role : {"system", "user", "assistant", "tool"}, uses : SUBSET Ids, answers : Ids \cup {None},
   size : Nat, media : Nat]

(* Between a call and one of its results are only others of its results.   *)
Follows(msgs, k, i) == \A j \in k + 1 .. i : HasResult(msgs[j])

(* A history as turns leave it that ended: the system first, and every     *)
(* call followed by its results.                                           *)
HistoryAssumption ==
  \A h \in Histories :
    /\ h \in Seq(Message) /\ h # <<>>
    /\ \A i \in DOMAIN h : /\ ~HasCall(h[i]) \/ ~HasResult(h[i])
                           /\ h[i].role = "system" => ~HasCall(h[i]) /\ ~HasResult(h[i])
    /\ \A i, j \in DOMAIN h : i < j /\ h[j].role = "system" => h[i].role = "system"
    /\ \A i \in DOMAIN h : HasResult(h[i]) =>
         \E k \in 1 .. i - 1 : Follows(h, k, i) /\ h[i].answers \in h[k].uses
    /\ \A k \in DOMAIN h : \A u \in h[k].uses :
         \E i \in k + 1 .. Len(h) : Follows(h, k, i) /\ h[i].answers = u

Budget ==
  IF ContextTokens > 0
  THEN IF ContextTokens - Reserve < 1 THEN 1 ELSE ContextTokens - Reserve
  ELSE PolicyTokens

CompactionRatio == IF ContextTokens > 0 THEN Ratio ELSE 10

(* A tokenizer is not given the media.                                     *)
Payload(m) == IF Tokenizer THEN m.size ELSE m.size + m.media
Tokens(msgs) == FoldLeft(LAMBDA n, m : n + Payload(m), Extra, msgs)

(* Slip: a call takes only the first of its results along.                 *)
BlockOfFirst(i) ==
  IF HasResult(messages[i]) /\ i > 1 /\ HasCall(messages[i - 1]) THEN i - 1 ELSE i

(* contextBlocks: the first message of the block that message i is in.     *)
BlockOf(i) ==
  LET starts == {k \in 1 .. i : HasCall(messages[k]) /\ \A j \in k + 1 .. i : HasResult(messages[j])}
  IN  IF starts = {} THEN i ELSE CHOOSE k \in starts : \A j \in starts : j <= k

Blocks == {BlockOf(i) : i \in DOMAIN messages}
LastBlock == BlockOf(Len(messages))

(* The members of a set of places, in their order.                         *)
InOrder(s) == [k \in 1 .. Cardinality(s) |-> CHOOSE i \in s : Cardinality({j \in s : j <= i}) = k]
Pick(s) == LET at == InOrder(s) IN [k \in DOMAIN at |-> messages[at[k]]]

(* Slip: system messages are removed like others.                          *)
RemovableAll == InOrder(Blocks \ {LastBlock})

Removable == InOrder({b \in Blocks \ {LastBlock} : messages[b].role # "system"})

Without(k) ==
  LET first == {Removable[j] : j \in 1 .. k}
  IN  {i \in DOMAIN messages : BlockOf(i) \notin first}

Fits(k) == Tokens(Pick(Without(k))) <= Budget

(* Slip: blocks are removed until one that fits has gone too.              *)
RemovedPast ==
  CHOOSE k \in 0 .. Len(Removable) :
    /\ (k > 0 /\ Fits(k - 1)) \/ k = Len(Removable)
    /\ \A j \in 1 .. k - 1 : ~Fits(j - 1)

(* removeOldestBlocks: as few as needed, and never all.                    *)
Removed ==
  CHOOSE k \in 0 .. Len(Removable) :
    /\ Fits(k) \/ k = Len(Removable)
    /\ \A j \in 0 .. k - 1 : ~Fits(j)

SystemPrefix(msgs) ==
  CHOOSE k \in 0 .. Len(msgs) :
    /\ \A j \in 1 .. k : msgs[j].role = "system"
    /\ k < Len(msgs) => msgs[k + 1].role # "system"

(* Slip: the system messages are sent again after the summary.             *)
InjectTwice(kept, size) ==
  SubSeq(kept, 1, SystemPrefix(kept)) \o <<SystemMessage(size)>> \o kept

InjectSummary(kept, size) ==
  LET at == SystemPrefix(kept)
  IN  SubSeq(kept, 1, at) \o <<SystemMessage(size)>> \o SubSeq(kept, at + 1, Len(kept))

(* Slip: the turn does not remember that it has asked for a summary.       *)
SummaryForgotten(gone) == covered' = Append(covered, gone) /\ UNCHANGED summarizeAllowed

SummaryTaken(gone) == covered' = Append(covered, gone) /\ summarizeAllowed' = FALSE

Sends(msgs, info) ==
  request' = msgs /\ compaction' = info

(* applyWindow, evaluated again for every model call.                      *)
ApplyWindow ==
  IF Budget <= 0 \/ 10 * Tokens(messages) <= Budget * CompactionRatio \/ Removed = 0
  THEN Sends(messages, None) /\ UNCHANGED <<summarizeAllowed, covered>>
  ELSE LET kept == Pick(Without(Removed))
           gone == DOMAIN messages \ Without(Removed)
       IN  \E size \in IF summarizeAllowed THEN SummarySizes ELSE {0} :
             IF size > 0
             THEN /\ Sends(InjectSummary(kept, size), [removed |-> gone, summarized |-> TRUE])
                  /\ SummaryTaken(gone)
             ELSE /\ Sends(kept, [removed |-> gone, summarized |-> FALSE])
                  /\ UNCHANGED <<summarizeAllowed, covered>>

ModelCall ==
  /\ pc = "call" /\ pc' = "answer"
  /\ ApplyWindow
  /\ UNCHANGED <<messages, waiting>>

Grows(m) == messages' = Append(messages, m) /\ UNCHANGED <<summarizeAllowed, request, compaction, covered>>

CallsOf(n) == [k \in 1 .. n |-> <<Len(messages) + 1, k>>]

ModelAnswers ==
  /\ pc = "answer" /\ Len(messages) < MaxMessages
  /\ \E n \in 0 .. MaxCalls, size \in Sizes :
       /\ Grows([role |-> "assistant", uses |-> ToSet(CallsOf(n)), answers |-> None,
                 size |-> size, media |-> 0])
       /\ waiting' = CallsOf(n)
       /\ pc' = IF n = 0 THEN "done" ELSE "tools"

ToolAnswers ==
  /\ pc = "tools"
  /\ \E size \in Sizes :
       Grows([role |-> "tool", uses |-> {}, answers |-> Head(waiting), size |-> size, media |-> 0])
  /\ waiting' = Tail(waiting)
  /\ pc' = IF Len(waiting) = 1 THEN "call" ELSE "tools"

Next == ModelCall \/ ModelAnswers \/ ToolAnswers

Spec == Init /\ [][Next]_vars
----------------------------------------------------------------------------
(* Properties.                                                             *)

Used(msgs) == UNION {msgs[i].uses : i \in DOMAIN msgs}
Answered(msgs) == {msgs[i].answers : i \in DOMAIN msgs} \ {None}

(* Every variable keeps its type.                                          *)
TypeOK ==
  /\ pc \in {"call", "answer", "tools", "done"} /\ summarizeAllowed \in BOOLEAN
  /\ Len(request) <= Len(messages)
  /\ compaction = None \/ compaction.removed \subseteq DOMAIN messages

(* A request never holds a call without its results nor a result without   *)
(* its call (FR-CTX-006, FR-CTX-010).                                      *)
PairsTogether ==
  pc = "answer" => Used(request) = Answered(request)

(* The system messages and the newest block always reach the model, the    *)
(* system ones, a summary among them, before all others (FR-CTX-005).      *)
SystemAndNewestKept ==
  pc = "answer" =>
    /\ \A i \in DOMAIN messages :
         (messages[i].role = "system" \/ BlockOf(i) = LastBlock) => messages[i] \in ToSet(request)
    /\ \A i \in 2 .. Len(request) : request[i].role = "system" => request[i - 1].role = "system"

(* What is left out is older than everything kept but the system's, and    *)
(* is no more than the budget asks for (comment of removeOldestBlocks).    *)
OldestAndNoMore ==
  (pc = "answer" /\ compaction # None) =>
    LET gone == compaction.removed
        newest == BlockOf(CHOOSE i \in gone : \A j \in gone : j <= i)
        back == {i \in DOMAIN messages : i \notin gone \/ BlockOf(i) = newest}
    IN  /\ \A i \in gone : \A j \in DOMAIN messages \ gone : messages[j].role = "system" \/ i < j
        /\ ~(Tokens(Pick(back)) <= Budget)

(* The Summarizer serves a turn at most once (FR-CTX-008).                 *)
SummaryOnce == Len(covered) <= 1

(* A context past the configured fraction of the budget is compacted       *)
(* before the model is called, if there is a block to leave out            *)
(* (FR-CTX-004).                                                           *)
CompactsAtRatio ==
  (pc = "answer" /\ Removable # <<>> /\ 10 * Tokens(messages) > Budget * CompactionRatio)
    => compaction # None

(* What a summary of this turn stands for is in every later request of the *)
(* turn, itself or in the summary (FR-CTX-005, FR-021).                    *)
SummaryStays ==
  (pc = "answer" /\ covered # <<>>) =>
    \A i \in covered[1] :
      messages[i] \in ToSet(request) \/ compaction.summarized

(* A compacted request is within the budget as long as more than the       *)
(* newest block could be left out (FR-CTX-007).                            *)
WithinBudget ==
  (pc = "answer" /\ compaction # None) =>
    \/ Tokens(request) <= Budget
    \/ Len(Removable) = Removed

(* Media count in the estimate of the window (FR-MM-009).                  *)
MediaCounted ==
  pc = "answer" =>
    Tokens(request) >= FoldLeft(LAMBDA n, m : n + m.size + m.media, Extra, request)
=============================================================================
