--------------------------- MODULE SessionSnapshot ---------------------------
(***************************************************************************)
(* The snapshot of a session of ia-harness: what a host that keeps         *)
(* sessions as JSON writes after every step of a turn (SnapshotSession and *)
(* the encoder) and reads after a restart (the decoder generated from the  *)
(* contract, and RestoreSession).                                          *)
(*                                                                         *)
(* A JSON document is a function from the names of its fields to their     *)
(* values.  A raw JSON text (json.RawMessage) is [of, len, size]: the      *)
(* first len bytes of a text of size bytes; None is nil.  The texts of a   *)
(* tool's result are sequences, all others strings.                        *)
(***************************************************************************)
EXTENDS Integers, Sequences, FiniteSetsExt

CONSTANTS
  Inputs,       \* the parts of messages of the user
  Answers,      \* the parts and the usage of answers of the model
  Results,      \* results of tools
  MessageIds,   \* of messages, in the order in which they are made
  Base64,       \* bytes -> their encoding
  MaxBytes,     \* Config.ToolResultMaxBytes; 0: no limit
  MaxInt,       \* math.MaxInt of the build
  Parent,       \* id of the session that delegated to this one, or ""
  None,
  MaxMessages   \* bound

SnapshotAssumption == {MaxBytes, MaxInt, MaxMessages} \subseteq Nat /\ Parent \in STRING

(* What a session is given.  No raw text holds an integer that float64     *)
(* rounds: one that does is not restored as it was (ArgumentsComeBack).    *)
Names == STRING \ {""}
Strings == Names \cup {""}
RawTexts == [of : STRING \ {"integer"}, len : Nat, size : Nat]
ToolCalls == [id : Names, name : Names, namespace : Strings, args : RawTexts \cup {None}]
Contents == [kind : {"text", "json"}, text : Seq(Nat), json : RawTexts \cup {None}]
ToolResults ==
  [call_id : Names, content : Seq(Contents), is_error : BOOLEAN, denied : BOOLEAN, truncated : BOOLEAN]
Media == [mime : Names, size : Nat, name : Strings, reference : Strings, bytes : DOMAIN Base64 \cup {""}]
Parts ==
  [kind : {"text", "tool_call", "tool_result", "image", "document"}, text : Strings,
   call : ToolCalls \cup {None}, result : ToolResults \cup {None}, media : Media \cup {None}]
Usages ==
  {u \in [input : Nat, output : Nat, estimated : BOOLEAN, cost : Nat, currency : Strings, cached : Nat, written : Nat] :
     u.cached <= u.input /\ u.written <= u.input /\ (u.currency = "" \/ Len(u.currency) = 3)}

ContentsAssumption ==
  /\ \A k \in 1 .. MaxMessages : MessageIds[k] \in Names
  /\ \A a, b \in DOMAIN Base64 : Base64[a] = Base64[b] => a = b
  /\ Inputs \subseteq Seq(Parts) \ {<<>>}
  /\ \A a \in Answers : a.parts \in Seq(Parts) \ {<<>>} /\ a.usage \in Usages
  /\ Results \subseteq {r \in ToolResults : ~r.truncated}

VARIABLES
  session,   \* the session of the running turn, or None
  document,  \* what the host has stored, or None
  saved,     \* history: the session that document was written from
  lost,      \* history: what somebody took out of document: <<part, field>>, or nothing
  loaded,    \* history: what the last load returned: a session, or None
  status     \* "new", "saved", "save failed", "damaged", "loaded", "load failed", "crashed"

vars == <<session, document, saved, lost, loaded, status>>

Usage0 == [input |-> 0, output |-> 0, estimated |-> FALSE, cost |-> 0, currency |-> "",
           cached |-> 0, written |-> 0]

Fresh ==
  [id |-> "s", user |-> "u", agent |-> "", model |-> "m", state |-> "active", messages |-> <<>>,
   pending |-> None, usage |-> Usage0, checkpoint |-> None, parent |-> Parent]

Init ==
  /\ session = Fresh /\ document = None /\ saved = None
  /\ lost = <<>> /\ loaded = None /\ status = "new"
----------------------------------------------------------------------------
(* The tool result that enters the history (truncateToolResult).           *)

RawLen(raw) == IF raw = None THEN 0 ELSE raw.len
SizeOf(c) == Len(c.text) + RawLen(c.json)
SizesOf(content) == [i \in DOMAIN content |-> SizeOf(content[i])]
UpTo(content, k) == MapThenSumSet(LAMBDA i : SizesOf(content)[i], 1 .. k)
Shorter(a, b) == IF a < b THEN a ELSE b

(* Slip: the item that does not fit is kept whole.                         *)
CutNothing(c, n) == c

Cut(c, n) ==
  IF c.kind = "json"
  THEN [kind |-> "json", text |-> <<>>,
        json |-> IF RawLen(c.json) = 0 THEN None ELSE [c.json EXCEPT !.len = Shorter(n, @)]]
  ELSE [kind |-> c.kind, text |-> SubSeq(c.text, 1, Shorter(n, Len(c.text))), json |-> None]

TruncateToolResult(res) ==
  LET whole == CHOOSE k \in 0 .. Len(res.content) :
                 /\ UpTo(res.content, k) <= MaxBytes
                 /\ k < Len(res.content) => UpTo(res.content, k + 1) > MaxBytes
      remaining == MaxBytes - UpTo(res.content, whole)
      part == IF remaining > 0 THEN <<Cut(res.content[whole + 1], remaining)>> ELSE <<>>
  IN  IF MaxBytes = 0 \/ res.truncated \/ whole = Len(res.content) THEN res
      ELSE [res EXCEPT !.content = SubSeq(res.content, 1, whole) \o part, !.truncated = TRUE]
----------------------------------------------------------------------------
(* SnapshotSession, and encoding/json over the generated types: a pointer  *)
(* that is nil leaves its field out.                                       *)

Document(fields, unset) ==
  [f \in {g \in DOMAIN fields : g \in DOMAIN unset => ~unset[g]} |-> fields[f]]

(* A list of documents, one for each element.                              *)
EachOf(F(_), s) == [i \in DOMAIN s |-> F(s[i])]

Valid(raw) == raw = None \/ (raw.len = raw.size /\ raw.size > 0)

Pointer(F(_), value) == IF value = None THEN None ELSE F(value)

SnapshotMedia(m) ==
  Document([mime |-> m.mime, size_bytes |-> m.size, name |-> m.name, reference |-> m.reference,
            bytes |-> IF m.bytes = "" THEN "" ELSE Base64[m.bytes]],
           [name |-> m.name = "", reference |-> m.reference = "", bytes |-> m.bytes = ""])

SnapshotToolCall(c) == [id |-> c.id, name |-> c.name, namespace |-> c.namespace, args |-> c.args]

SnapshotContent(c) ==
  Document([kind |-> c.kind, text |-> c.text, json |-> c.json], [text |-> c.text = <<>>, json |-> c.json = None])

SnapshotToolResult(r) ==
  Document([call_id |-> r.call_id, content |-> EachOf(SnapshotContent, r.content), is_error |-> r.is_error,
            denied |-> r.denied, truncated |-> r.truncated],
           [is_error |-> ~r.is_error, denied |-> ~r.denied, truncated |-> ~r.truncated])

SnapshotPart(p) ==
  Document([kind |-> p.kind, text |-> p.text, call |-> Pointer(SnapshotToolCall, p.call),
            result |-> Pointer(SnapshotToolResult, p.result), media |-> Pointer(SnapshotMedia, p.media)],
           [text |-> p.text = "", call |-> p.call = None, result |-> p.result = None, media |-> p.media = None])

SnapshotMessage(m) == [id |-> m.id, role |-> m.role, parts |-> EachOf(SnapshotPart, m.parts)]

SnapshotPendingCall(c) ==
  Document([call_id |-> c.call_id, tool |-> c.tool, args_redacted |-> c.args, idempotent |-> c.idempotent],
           [args_redacted |-> c.args = "", idempotent |-> ~c.idempotent])

SnapshotCheckpoint(c) ==
  Document([turn_id |-> c.turn, status |-> c.status, step |-> c.step,
            pending_call |-> Pointer(SnapshotPendingCall, c.call)],
           [pending_call |-> c.call = None])

SnapshotPending(p) == [call_id |-> p.call_id, tool_name |-> p.tool, args_redacted |-> p.args, reason |-> p.reason]

SnapshotUsage(u) ==
  Document([input_tokens |-> u.input, output_tokens |-> u.output, estimated |-> u.estimated,
            cost_micros |-> u.cost, currency |-> u.currency,
            cached_input_tokens |-> Shorter(u.cached, MaxInt), cache_write_tokens |-> Shorter(u.written, MaxInt)],
           [cost_micros |-> u.cost = 0, currency |-> u.currency = "",
            cached_input_tokens |-> u.cached <= 0, cache_write_tokens |-> u.written <= 0])

(* Slip: the checkpoint is not part of the snapshot.                       *)
SnapshotWithoutCheckpoint(s) ==
  Document([id |-> s.id, user_id |-> s.user, agent_id |-> s.agent, model |-> s.model, state |-> s.state,
            messages |-> EachOf(SnapshotMessage, s.messages), usage |-> SnapshotUsage(s.usage),
            pending |-> Pointer(SnapshotPending, s.pending), parent_session_id |-> s.parent],
           [pending |-> s.pending = None, parent_session_id |-> s.parent = ""])

SnapshotSession(s) ==
  Document([id |-> s.id, user_id |-> s.user, agent_id |-> s.agent, model |-> s.model, state |-> s.state,
            messages |-> EachOf(SnapshotMessage, s.messages), usage |-> SnapshotUsage(s.usage),
            pending |-> Pointer(SnapshotPending, s.pending),
            checkpoint |-> Pointer(SnapshotCheckpoint, s.checkpoint), parent_session_id |-> s.parent],
           [pending |-> s.pending = None, checkpoint |-> s.checkpoint = None, parent_session_id |-> s.parent = ""])

SessionStates == {"active", "awaiting_confirmation", "closed"}

Raws(p) ==
  (IF p.call = None THEN {} ELSE {p.call.args})
    \cup (IF p.result = None THEN {} ELSE {p.result.content[i].json : i \in DOMAIN p.result.content})

Encodes(s) ==
  /\ s.state \in SessionStates
  /\ {s.usage.input, s.usage.output, s.usage.cost} \subseteq -(MaxInt + 1) .. MaxInt
  /\ \A i \in DOMAIN s.messages : \A j \in DOMAIN s.messages[i].parts :
       \A raw \in Raws(s.messages[i].parts[j]) : Valid(raw)
----------------------------------------------------------------------------
(* The generated decoders: what each refuses.                              *)

Holds(d, F(_), name) == name \in DOMAIN d => F(d[name])
All(F(_), list) == \A i \in DOMAIN list : F(list[i])

AcceptsMedia(d) == {"mime", "size_bytes"} \subseteq DOMAIN d /\ d.mime # "" /\ d.size_bytes >= 0

AcceptsToolCall(d) ==
  {"args", "id", "name", "namespace"} \subseteq DOMAIN d /\ d.id # "" /\ d.name # ""

AcceptsContent(d) == "kind" \in DOMAIN d /\ d.kind \in {"text", "json"}

AcceptsToolResult(d) ==
  {"call_id", "content"} \subseteq DOMAIN d /\ d.call_id # "" /\ All(AcceptsContent, d.content)

AcceptsPart(d) ==
  /\ "kind" \in DOMAIN d /\ d.kind \in {"text", "tool_call", "tool_result", "image", "document"}
  /\ Holds(d, AcceptsToolCall, "call")
  /\ Holds(d, AcceptsToolResult, "result")
  /\ Holds(d, AcceptsMedia, "media")

AcceptsMessage(d) ==
  /\ {"id", "parts", "role"} \subseteq DOMAIN d /\ d.id # ""
  /\ d.role \in {"system", "user", "assistant", "tool"}
  /\ Len(d.parts) >= 1 /\ All(AcceptsPart, d.parts)

AcceptsPendingCall(d) == {"call_id", "tool"} \subseteq DOMAIN d /\ d.call_id # "" /\ d.tool # ""

AcceptsCheckpoint(d) ==
  /\ {"status", "step", "turn_id"} \subseteq DOMAIN d
  /\ d.status \in {"running", "awaiting_confirmation", "completed"}
  /\ d.step >= 0 /\ d.turn_id # "" /\ Holds(d, AcceptsPendingCall, "pending_call")

AcceptsPending(d) ==
  /\ {"args_redacted", "call_id", "reason", "tool_name"} \subseteq DOMAIN d
  /\ d.call_id # "" /\ d.tool_name # ""

AtLeast0(n) == n >= 0

AcceptsUsage(d) ==
  /\ {"estimated", "input_tokens", "output_tokens"} \subseteq DOMAIN d
  /\ d.input_tokens >= 0 /\ d.output_tokens >= 0
  /\ \A name \in {"cache_write_tokens", "cached_input_tokens", "cost_micros"} : Holds(d, AtLeast0, name)
  /\ "currency" \in DOMAIN d => Len(d.currency) = 3

(* Slip: the checkpoint became required, and older documents are refused.  *)
AcceptsWithCheckpoint(d) ==
  /\ {"agent_id", "id", "messages", "model", "state", "usage", "user_id", "checkpoint"} \subseteq DOMAIN d
  /\ All(AcceptsMessage, d.messages) /\ AcceptsUsage(d.usage)

AcceptsSession(d) ==
  /\ {"agent_id", "id", "messages", "model", "state", "usage", "user_id"} \subseteq DOMAIN d
  /\ d.id # "" /\ d.user_id # "" /\ d.state \in SessionStates
  /\ All(AcceptsMessage, d.messages) /\ AcceptsUsage(d.usage)
  /\ Holds(d, AcceptsPending, "pending") /\ Holds(d, AcceptsCheckpoint, "checkpoint")
----------------------------------------------------------------------------
(* RestoreSession.                                                         *)

Value(d, name, zero) == IF name \in DOMAIN d THEN d[name] ELSE zero
Restored(d, F(_), name) == IF name \in DOMAIN d THEN F(d[name]) ELSE None

(* anyToRaw: the decoder has read numbers as float64, and they are written *)
(* again from there.  Spaces, the order of keys and the escapes of the     *)
(* text change as well; a raw text stands for all that are equal as JSON.  *)
Reread(raw) == IF raw # None /\ raw.of = "integer" THEN [raw EXCEPT !.of = "rounded"] ELSE raw

Decoded(text) == CHOOSE b \in DOMAIN Base64 : Base64[b] = text
RestoreMedia(d) ==
  [mime |-> d.mime, size |-> d.size_bytes, name |-> Value(d, "name", ""),
   reference |-> Value(d, "reference", ""),
   bytes |-> IF "bytes" \in DOMAIN d THEN Decoded(d.bytes) ELSE ""]

RestoreToolCall(d) == [id |-> d.id, name |-> d.name, namespace |-> d.namespace, args |-> Reread(d.args)]

RestoreContent(d) ==
  [kind |-> d.kind, text |-> Value(d, "text", <<>>), json |-> Reread(Value(d, "json", None))]

RestoreToolResult(d) ==
  [call_id |-> d.call_id, content |-> EachOf(RestoreContent, d.content),
   is_error |-> Value(d, "is_error", FALSE), denied |-> Value(d, "denied", FALSE),
   truncated |-> Value(d, "truncated", FALSE)]

RestorePart(d) ==
  [kind |-> d.kind, text |-> Value(d, "text", ""), call |-> Restored(d, RestoreToolCall, "call"),
   result |-> Restored(d, RestoreToolResult, "result"), media |-> Restored(d, RestoreMedia, "media")]

RestoreMessage(d) == [id |-> d.id, role |-> d.role, parts |-> EachOf(RestorePart, d.parts)]

RestorePendingCall(d) ==
  [call_id |-> d.call_id, tool |-> d.tool, args |-> Value(d, "args_redacted", ""),
   idempotent |-> Value(d, "idempotent", FALSE)]

RestoreCheckpoint(d) ==
  [turn |-> d.turn_id, status |-> d.status, step |-> d.step,
   call |-> Restored(d, RestorePendingCall, "pending_call")]

RestorePending(d) == [call_id |-> d.call_id, tool |-> d.tool_name, args |-> d.args_redacted, reason |-> d.reason]

RestoreUsage(d) ==
  [input |-> d.input_tokens, output |-> d.output_tokens, estimated |-> d.estimated,
   cost |-> Value(d, "cost_micros", 0), currency |-> Value(d, "currency", ""),
   cached |-> Value(d, "cached_input_tokens", 0), written |-> Value(d, "cache_write_tokens", 0)]

RestoreSession(d) ==
  [id |-> d.id, user |-> d.user_id, agent |-> d.agent_id, model |-> d.model, state |-> d.state,
   messages |-> EachOf(RestoreMessage, d.messages), pending |-> Restored(d, RestorePending, "pending"),
   usage |-> RestoreUsage(d.usage), checkpoint |-> Restored(d, RestoreCheckpoint, "checkpoint"),
   parent |-> Value(d, "parent_session_id", "")]
----------------------------------------------------------------------------
(* The turns, each of whose steps ends with a save, and the host.          *)

(* A save that fails ends the turn: the store keeps what it had.           *)
Becomes(s) ==
  /\ UNCHANGED loaded
  /\ IF Encodes(s)
     THEN /\ session' = s /\ document' = SnapshotSession(s) /\ saved' = s /\ lost' = <<>>
          /\ status' = "saved"
     ELSE /\ session' = None /\ status' = "save failed" /\ UNCHANGED <<document, saved, lost>>

Running == session # None /\ session.state = "active" /\ Len(session.messages) < MaxMessages

(* Slip: the id of an answer is left to the provider, which gives none.    *)
MessageUnnamed(role, parts) == [id |-> "", role |-> role, parts |-> parts]

Message(role, parts) == [id |-> MessageIds[Len(session.messages) + 1], role |-> role, parts |-> parts]

LastRole ==
  IF session.messages = <<>> THEN "none" ELSE session.messages[Len(session.messages)].role

CallsIn(m) == {m.parts[j].call : j \in DOMAIN m.parts} \ {None}
AnsweredIn(s) ==
  {s.messages[i].parts[1].result.call_id :
     i \in {k \in DOMAIN s.messages : s.messages[k].role = "tool"}}
Waiting ==
  UNION {{c \in CallsIn(session.messages[i]) : c.id \notin AnsweredIn(session)} : i \in DOMAIN session.messages}

Checkpoint(status_, step, call) == [turn |-> "t", status |-> status_, step |-> step, call |-> call]

UserSays ==
  /\ Running /\ Waiting = {}
  /\ LastRole \in {"none", "assistant"}
  /\ \E parts \in Inputs :
       Becomes([session EXCEPT !.messages = Append(@, Message("user", parts)),
                               !.checkpoint = Checkpoint("running", 0, None)])

Adds(u, v) ==
  [u EXCEPT !.input = @ + v.input, !.output = @ + v.output, !.cost = @ + v.cost,
            !.cached = @ + v.cached, !.written = @ + v.written,
            !.currency = IF v.currency = "" THEN @ ELSE v.currency,
            !.estimated = @ \/ v.estimated]

(* The save after the answer and the one at the end of the turn are one.   *)
ModelAnswers ==
  /\ Running /\ Waiting = {} /\ LastRole \in {"user", "tool"}
  /\ \E a \in {b \in Answers : \A j \in DOMAIN b.parts :
                 b.parts[j].call # None => b.parts[j].call.id \notin AnsweredIn(session)} :
       Becomes([session EXCEPT !.messages = Append(@, Message("assistant", a.parts)),
                               !.usage = Adds(@, a.usage),
                               !.checkpoint = Checkpoint(IF \A j \in DOMAIN a.parts : a.parts[j].call = None
                                                         THEN "completed" ELSE "running", @.step + 1, None)])

ToolStarts ==
  /\ Running /\ session.checkpoint # None /\ session.checkpoint.call = None
  /\ \E c \in Waiting, idempotent \in BOOLEAN :
       Becomes([session EXCEPT !.checkpoint.call =
                  [call_id |-> c.id, tool |-> c.name, args |-> "a", idempotent |-> idempotent]])

ToolAnswers ==
  /\ Running /\ session.checkpoint # None /\ session.checkpoint.call # None
  /\ \E r \in Results :
       LET result == TruncateToolResult([r EXCEPT !.call_id = session.checkpoint.call.call_id])
           part == [kind |-> "tool_result", text |-> "", call |-> None, result |-> result, media |-> None]
       IN  Becomes([session EXCEPT !.messages = Append(@, Message("tool", <<part>>)), !.checkpoint.call = None])

Pauses ==
  /\ Running /\ session.checkpoint # None /\ session.checkpoint.call = None
  /\ \E c \in Waiting :
       Becomes([session EXCEPT !.state = "awaiting_confirmation",
                               !.pending = [call_id |-> c.id, tool |-> c.name, args |-> "a", reason |-> ""],
                               !.checkpoint.status = "awaiting_confirmation"])

Resolved ==
  /\ session # None /\ session.state = "awaiting_confirmation"
  /\ Becomes([session EXCEPT !.state = "active", !.pending = None, !.checkpoint.status = "running"])

Crash ==
  /\ session # None
  /\ session' = None /\ status' = "crashed" /\ UNCHANGED <<document, saved, lost, loaded>>

Without(d, name) == [f \in DOMAIN d \ {name} |-> d[f]]

(* External: the document was written by another version of the contract,  *)
(* which lacks one field.                                                  *)
Damaged ==
  /\ session = None /\ document # None /\ lost = <<>> /\ status # "load failed"
  /\ \/ \E f \in DOMAIN document : document' = Without(document, f) /\ lost' = <<"session", f>>
     \/ \E f \in DOMAIN document.usage :
          document' = [document EXCEPT !.usage = Without(@, f)] /\ lost' = <<"usage", f>>
  /\ status' = "damaged" /\ UNCHANGED <<session, saved, loaded>>

(* Turns go on from a whole document only.                                 *)
Load ==
  /\ session = None /\ document # None /\ status \notin {"loaded", "load failed"}
  /\ loaded' = IF AcceptsSession(document) THEN RestoreSession(document) ELSE None
  /\ session' = IF lost = <<>> THEN loaded' ELSE None
  /\ status' = IF AcceptsSession(document) THEN "loaded" ELSE "load failed"
  /\ UNCHANGED <<document, saved, lost>>

Next ==
  \/ UserSays \/ ModelAnswers \/ ToolStarts \/ ToolAnswers \/ Pauses \/ Resolved
  \/ Crash \/ Damaged \/ Load

Spec == Init /\ [][Next]_vars
----------------------------------------------------------------------------
(* Properties.                                                             *)

(* Every variable keeps its type; a message of a session has the number    *)
(* of its place.                                                           *)
TypeOK ==
  /\ status \in {"new", "saved", "save failed", "damaged", "loaded", "load failed", "crashed"}
  /\ session = None \/ (/\ session.state \in SessionStates
                        /\ \A i \in DOMAIN session.messages : session.messages[i].id = MessageIds[i])

(* A restart finds the session as the last save left it, in every field    *)
(* (FR-020, FR-DU-001): messages, pending confirmation, usage, write-ahead *)
(* of the running call, parent.                                            *)
RestartFindsAll == (status = "loaded" /\ lost = <<>>) => loaded = saved

(* What is left out of a document may be what the contract calls optional, *)
(* which is then empty, and never anything else: a session is not resumed  *)
(* with a field made up (comment of snapshotCheckpoint).        *)
PartialDocuments ==
  (status \in {"loaded", "load failed"} /\ lost # <<>>) =>
    loaded = CASE lost = <<"session", "checkpoint">> -> [saved EXCEPT !.checkpoint = None]
               [] lost = <<"session", "pending">> -> [saved EXCEPT !.pending = None]
               [] lost = <<"session", "parent_session_id">> -> [saved EXCEPT !.parent = ""]
               [] lost = <<"usage", "cost_micros">> -> [saved EXCEPT !.usage.cost = 0]
               [] lost = <<"usage", "currency">> -> [saved EXCEPT !.usage.currency = ""]
               [] lost = <<"usage", "cached_input_tokens">> -> [saved EXCEPT !.usage.cached = 0]
               [] lost = <<"usage", "cache_write_tokens">> -> [saved EXCEPT !.usage.written = 0]
               [] OTHER -> None

(* What the harness saves, it can load (comment of SnapshotSession: lists  *)
(* are written so that they stay valid for the schema).                    *)
SavedLoads == (status = "load failed") => lost # <<>>

(* No step of a turn makes a session that cannot be saved (FR-020).        *)
StepsCanBeSaved == status # "save failed"

(* The arguments of a call come back from the store as the model wrote     *)
(* them (comment of SnapshotSession: the original bytes).                  *)
ArgumentsComeBack ==
  (status = "loaded" /\ lost = <<>>) =>
    \A i \in DOMAIN saved.messages :
      {c.args : c \in CallsIn(loaded.messages[i])} = {c.args : c \in CallsIn(saved.messages[i])}

(* A result in the history is within the cap, and says so when it was cut  *)
(* (FR-CAP-001, FR-CAP-002).                                               *)
ResultsWithinCap ==
  (session # None /\ MaxBytes > 0) =>
    \A i \in DOMAIN session.messages : session.messages[i].role = "tool" =>
      LET r == session.messages[i].parts[1].result
          sent == {q \in Results : UpTo(q.content, Len(q.content)) <= MaxBytes}
      IN  /\ UpTo(r.content, Len(r.content)) <= MaxBytes
          /\ r.truncated \/ \E q \in sent : r.content = q.content
=============================================================================
