----------------------------- MODULE WireHistory -----------------------------
(***************************************************************************)
(* What ia-harness sends to a provider: the conversion of the canonical    *)
(* history of a session by the three adapters, and the fields of the       *)
(* request's body.  The history grows as the engine grows it; the wire     *)
(* forms are computed from all of it at every model call.                  *)
(*                                                                         *)
(* Texts and payloads are values; Blank is the empty text.                 *)
(***************************************************************************)
EXTENDS Integers, Sequences, SequencesExt

CONSTANTS
  UserInputs,   \* parts of the messages a user may send
  Arguments,    \* arguments of calls: "object", "missing", "invalid"
  Outcomes,     \* results: records [content, denied, isError]
  Params,       \* names that ModelProfile.Params may set
  Requests,     \* requests to send
  Blank,
  MaxMessages,  \* bound: messages in a history, for each request
  MaxCalls      \* bound: calls in a message

Payloads == {"image", "pdf", "csv"}

RequestAssumption ==
  \A r \in Requests : r.params \subseteq Params /\ r.tools \in Nat

PartsAssumption ==
  \A input \in UserInputs : \A p \in ToSet(input) : p.kind \in {"text", "media"} /\ (p.kind = "media" => p.val \in Payloads)

VARIABLES
  history,  \* Session.Messages: [role, parts]
  pending,  \* ids of the calls that have no result yet
  request   \* the rest of the ChatRequest: [params, tools, cache, limit, schema]

vars == <<history, pending, request>>

Message(role, parts) == [role |-> role, parts |-> parts]
Text(val) == [kind |-> "text", val |-> val]

Init ==
  /\ history = <<>> /\ pending = <<>>
  /\ request \in Requests

Grows(message) ==
  /\ Len(history) < MaxMessages[request]
  /\ history' = Append(history, message) /\ UNCHANGED request

(* Slip: a turn starts while calls of the last one wait.                   *)
UserSaysAnytime ==
  /\ \E parts \in UserInputs : Grows(Message("user", parts))
  /\ UNCHANGED pending

UserSays ==
  /\ pending = <<>>
  /\ \E parts \in UserInputs : Grows(Message("user", parts))
  /\ UNCHANGED pending

Summarized ==
  /\ history = <<>> /\ Grows(Message("system", <<Text("summary")>>)) /\ UNCHANGED pending

CallId(k) == <<Len(history) + 1, k>>

ModelAnswers ==
  /\ pending = <<>> /\ history # <<>> /\ Last(history).role # "assistant"
  /\ \E texts \in {<<>>, <<Text("answer")>>}, args \in SeqOf(Arguments, MaxCalls) :
       LET calls == [k \in DOMAIN args |-> [kind |-> "call", id |-> CallId(k), args |-> args[k]]]
       IN  /\ Grows(Message("assistant", texts \o calls))
           /\ pending' = [k \in DOMAIN args |-> CallId(k)]

ToolAnswers ==
  /\ pending # <<>> /\ pending' = Tail(pending)
  /\ \E o \in Outcomes :
       Grows(Message("tool", <<[kind |-> "result", id |-> Head(pending), content |-> o.content,
                                denied |-> o.denied, isError |-> o.isError]>>))

Next == UserSays \/ Summarized \/ ModelAnswers \/ ToolAnswers

Spec == Init /\ [][Next]_vars
----------------------------------------------------------------------------
(* Common to the adapters.                                                 *)

Filled(p) == p.kind # "text" \/ p.val # Blank
OfKinds(m, kinds) == SelectSeq(m.parts, LAMBDA p : p.kind \in kinds /\ Filled(p))
Each(Op(_), s) == [i \in DOMAIN s |-> Op(s[i])]
Flat(Op(_), s) == FlattenSeq(Each(Op, s))

(* Slip: a refusal without content is sent empty.                          *)
ToolResultRaw(r) == r.content

ToolResultText(r) ==
  IF r.content # <<>> THEN r.content
  ELSE IF r.denied THEN <<"refused">>
  ELSE IF r.isError THEN <<"failed">>
  ELSE <<>>
----------------------------------------------------------------------------
(* The Messages API: content blocks, consecutive roles merged.             *)

(* What is not an object becomes the empty schema.                         *)
DecodeInput(args) == IF args = "object" THEN args ELSE "empty_schema"

DocumentBlock(p) ==
  IF p.val = "csv" THEN [type |-> "text", val |-> p.val]
  ELSE [type |-> IF p.val = "pdf" THEN "document" ELSE "image", val |-> p.val]

ResultBlock(p) ==
  [type |-> "tool_result", id |-> p.id, val |-> ToolResultText(p), isError |-> p.isError \/ p.denied]

Block(p) ==
  CASE p.kind = "text" -> [type |-> "text", val |-> p.val]
    [] p.kind = "media" -> DocumentBlock(p)
    [] p.kind = "call" -> [type |-> "tool_use", id |-> p.id, val |-> DecodeInput(p.args)]
    [] p.kind = "result" -> ResultBlock(p)

UserBlocks(m) == Each(Block, OfKinds(m, {"text", "media", "result"}))
AssistantBlocks(m) == Each(Block, OfKinds(m, {"text", "call"}))
ResultBlocks(m) == Each(Block, OfKinds(m, {"result"}))

(* Slip: only messages of the same canonical role are merged.              *)
AppendUnmerged(msgs, role, blocks) ==
  IF blocks = <<>> THEN msgs
  ELSE Append(msgs, [role |-> role, blocks |-> blocks])

(* Slip: the blocks of a merged message replace those it had.              *)
AppendReplaces(msgs, role, blocks) ==
  IF blocks = <<>> THEN msgs
  ELSE Append(IF msgs # <<>> /\ Last(msgs).role = role THEN Front(msgs) ELSE msgs,
              [role |-> role, blocks |-> blocks])

AppendBlocks(msgs, role, blocks) ==
  IF blocks = <<>> THEN msgs
  ELSE IF msgs # <<>> /\ Last(msgs).role = role
  THEN [msgs EXCEPT ![Len(msgs)].blocks = @ \o blocks]
  ELSE Append(msgs, [role |-> role, blocks |-> blocks])

AnthropicMessages ==
  LET Add(msgs, m) ==
        CASE m.role = "system" -> msgs
          [] m.role = "user" -> AppendBlocks(msgs, "user", UserBlocks(m))
          [] m.role = "assistant" -> AppendBlocks(msgs, "assistant", AssistantBlocks(m))
          [] m.role = "tool" -> AppendBlocks(msgs, "user", ResultBlocks(m))
  IN  FoldLeft(Add, <<>>, history)

SystemText ==
  Flat(LAMBDA m : IF m.role = "system" THEN Each(LAMBDA p : p.val, OfKinds(m, {"text"})) ELSE <<>>, history)

(* Breakpoints of the prompt cache: the system and the last tool.          *)
SystemBlocks == request.cache /\ SystemText # <<>>

(* Slip: every tool is a breakpoint.                                       *)
WireToolsMarked == [t \in 1 .. request.tools |-> request.cache]

WireTools == [t \in 1 .. request.tools |-> request.cache /\ t = request.tools]

AnthropicFields ==
  {"model", "messages", "max_tokens", "stream"}
    \cup (IF SystemText # <<>> THEN {"system"} ELSE {})
    \cup (IF request.tools > 0 THEN {"tools"} ELSE {})
----------------------------------------------------------------------------
(* Chat Completions: one message per role, texts joined, tool messages.    *)

MessageText(m) == Each(LAMBDA p : p.val, OfKinds(m, {"text"}))

(* Slip: with media the text is left out.                                  *)
UserContentMedia(m) ==
  LET media == Each(LAMBDA p : p.val, OfKinds(m, {"media"}))
  IN  IF media = <<>> THEN MessageText(m) ELSE media

UserContent(m) == MessageText(m) \o Each(LAMBDA p : p.val, OfKinds(m, {"media"}))

WireCalls(m) ==
  Each(LAMBDA p : [id |-> p.id, args |-> IF p.args = "missing" THEN "object" ELSE p.args],
       OfKinds(m, {"call"}))

Plain(role, content) == [role |-> role, content |-> content, calls |-> <<>>, id |-> Blank]

ToolMessages(m) ==
  Each(LAMBDA p : [Plain("tool", ToolResultText(p)) EXCEPT !.id = p.id], OfKinds(m, {"result"}))

Unless(empty, s) == IF empty THEN <<>> ELSE s

OpenAIMessages ==
  Flat(LAMBDA m :
         CASE m.role = "system" -> Unless(MessageText(m) = <<>>, <<Plain("system", MessageText(m))>>)
           [] m.role = "user" ->
                Unless(UserContent(m) = <<>>, <<Plain("user", UserContent(m))>>) \o ToolMessages(m)
           [] m.role = "assistant" ->
                <<[Plain("assistant", MessageText(m)) EXCEPT !.calls = WireCalls(m)]>>
           [] m.role = "tool" -> ToolMessages(m),
       history)

OpenAIFields ==
  {"model", "messages", "stream", "stream_options"}
    \cup (IF request.limit THEN {"max_tokens"} ELSE {})
    \cup (IF request.tools > 0 THEN {"tools"} ELSE {})
    \cup (IF request.schema THEN {"response_format"} ELSE {})
----------------------------------------------------------------------------
(* Responses: a flat list of items.                                        *)

ResponsesUserContent(m) == MessageText(m) \o Each(LAMBDA p : p.val, OfKinds(m, {"media"}))

Item(role, content) == [type |-> "message", role |-> role, content |-> content]

OutputItems(m) ==
  Each(LAMBDA p : [type |-> "output", id |-> p.id, content |-> ToolResultText(p)], OfKinds(m, {"result"}))

FunctionCalls(m) ==
  Each(LAMBDA c : [type |-> "call", id |-> c.id, args |-> c.args], WireCalls(m))

(* Slip: an answer that calls tools loses its text.                        *)
AssistantItemsOr(m) ==
  IF FunctionCalls(m) # <<>> THEN FunctionCalls(m) ELSE <<Item("assistant", MessageText(m))>>

AssistantItems(m) ==
  Unless(MessageText(m) = <<>>, <<Item("assistant", MessageText(m))>>) \o FunctionCalls(m)

WireInput ==
  Flat(LAMBDA m :
         CASE m.role = "system" -> Unless(MessageText(m) = <<>>, <<Item("system", MessageText(m))>>)
           [] m.role = "user" ->
                Unless(ResponsesUserContent(m) = <<>>, <<Item("user", ResponsesUserContent(m))>>)
                  \o OutputItems(m)
           [] m.role = "assistant" -> AssistantItems(m)
           [] m.role = "tool" -> OutputItems(m),
       history)

ResponsesFields ==
  {"model", "input", "stream", "store"}
    \cup (IF request.limit THEN {"max_output_tokens"} ELSE {})
    \cup (IF request.tools > 0 THEN {"tools"} ELSE {})
    \cup (IF request.schema THEN {"text"} ELSE {})

(* Slip: the parameters of the profile are set last.                       *)
BodyParamsLast(fields) ==
  [f \in fields \cup request.params |-> IF f \in request.params THEN "profile" ELSE "protocol"]

Body(fields) ==
  [f \in fields \cup request.params |-> IF f \in fields THEN "protocol" ELSE "profile"]
----------------------------------------------------------------------------
(* Properties.                                                             *)

(* Every variable keeps its type; calls wait for results only at the end.  *)
TypeOK ==
  /\ Len(history) <= MaxMessages[request] /\ Len(pending) <= MaxCalls
  /\ pending # <<>> => Last(history).role \in {"assistant", "tool"}

(* What is said in a conversation, in order: each adapter must say it all. *)
Said(p) ==
  CASE p.kind \in {"text", "media"} -> <<p.val>>
    [] p.kind = "call" -> <<p.id>>
    [] p.kind = "result" -> <<p.id>> \o ToolResultText(p)

Everything(kinds) == Flat(LAMBDA m : Flat(Said, OfKinds(m, kinds)), history)
TextFirst ==
  Flat(LAMBDA m : Flat(Said, OfKinds(m, {"text"})) \o Flat(Said, OfKinds(m, {"media", "call", "result"})), history)

BlockSays(b) ==
  CASE b.type = "tool_use" -> <<b.id>>
    [] b.type = "tool_result" -> <<b.id>> \o b.val
    [] OTHER -> <<b.val>>

(* Every text, media, call and result of the history reaches each          *)
(* provider once and in order, the system's apart in Anthropic, texts      *)
(* before media in the other two (FR-MM-006, ADR 0011).                    *)
AnthropicSaysAll ==
  SystemText \o Flat(LAMBDA m : Flat(BlockSays, m.blocks), AnthropicMessages)
    = Everything({"text", "media", "call", "result"})

OpenAISaysAll ==
  Flat(LAMBDA m : (IF m.role = "tool" THEN <<m.id>> ELSE <<>>) \o m.content
                    \o Each(LAMBDA c : c.id, m.calls), OpenAIMessages) = TextFirst

ResponsesSaysAll ==
  Flat(LAMBDA i : (IF i.type = "message" THEN <<>> ELSE <<i.id>>)
                    \o (IF i.type = "call" THEN <<>> ELSE i.content), WireInput) = TextFirst

(* The Messages API gets alternating roles, and the message after calls    *)
(* opens with all their results (the comment of wireMessages).             *)
RolesAlternate ==
  LET msgs == AnthropicMessages
      UsedBy(m) == Each(LAMBDA b : b.id, SelectSeq(m.blocks, LAMBDA b : b.type = "tool_use"))
      Opens(m, n) == Each(LAMBDA b : b.id,
                          SelectSeq(SubSeq(m.blocks, 1, n), LAMBDA b : b.type = "tool_result"))
  IN  \A i \in 1 .. Len(msgs) - 1 :
        /\ msgs[i].role # msgs[i + 1].role
        /\ pending = <<>> => Opens(msgs[i + 1], Len(UsedBy(msgs[i]))) = UsedBy(msgs[i])

(* A model is told of every refusal and of every failure, also when the    *)
(* tool gave no text.                                                      *)
RefusalsAreTold ==
  \A i \in DOMAIN history : \A j \in DOMAIN history[i].parts :
    LET p == history[i].parts[j]
    IN  (p.kind = "result" /\ (p.denied \/ p.isError)) =>
          \E k \in DOMAIN OpenAIMessages :
            OpenAIMessages[k].id = p.id /\ OpenAIMessages[k].content # <<>>

(* No parameter of a profile replaces a field of the protocol (buildBody); *)
(* the prompt cache marks the system and one tool, the last, and nothing   *)
(* without the capability (FR-PC-002).                                     *)
ProtocolPrevails ==
  /\ \A fields \in {AnthropicFields, OpenAIFields, ResponsesFields} :
       \A f \in fields : Body(fields)[f] = "protocol"
  /\ {t \in 1 .. request.tools : WireTools[t]}
       = IF request.cache THEN {request.tools} \ {0} ELSE {}

(* Arguments that are not an object are sent to Anthropic as the empty     *)
(* object (the comment of decodeInput).                                    *)
InvalidInputIsEmpty ==
  \A i \in DOMAIN AnthropicMessages : \A b \in ToSet(AnthropicMessages[i].blocks) :
    b.type = "tool_use" => b.val \in {"object", "empty_object"}
=============================================================================
