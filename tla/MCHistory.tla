----------------------------- MODULE MCHistory -----------------------------
(***************************************************************************)
(* An instance of History for TLC.                                         *)
(***************************************************************************)
EXTENDS History, TLC

CONSTANTS t1, t2, t3
----------------------------------------------------------------------------
(* WireHistory: conversations of five messages before one request, of two  *)
(* before any other.                                                       *)

MCParams == {"tools", "max_tokens", "model", "temperature"}
MCRequests == [params : SUBSET MCParams, tools : 0 .. 2, cache : BOOLEAN, limit : BOOLEAN, schema : BOOLEAN]
MCLengths ==
  [r \in MCRequests |->
     IF r = [params |-> {}, tools |-> 1, cache |-> TRUE, limit |-> FALSE, schema |-> FALSE] THEN 5 ELSE 2]

Question == [kind |-> "text", val |-> "question"]
Nothing == [kind |-> "text", val |-> Blank]
Image == [kind |-> "media", val |-> "image"]
Csv == [kind |-> "media", val |-> "csv"]
MCUserInputs == {<<Question>>, <<Nothing>>, <<Question, Image>>, <<Csv, Nothing, Question>>, <<Image, Csv>>}

Outcome(content, denied, isError) == [content |-> content, denied |-> denied, isError |-> isError]
MCOutcomes ==
  {Outcome(<<"value">>, FALSE, FALSE), Outcome(<<>>, TRUE, FALSE), Outcome(<<>>, FALSE, TRUE)}
----------------------------------------------------------------------------
(* ContextWindow: turns of two calls, before and after which the context   *)
(* outgrows its budget of ten tokens.                                      *)

WindowMessage(role, uses, answers, size, media) ==
  [role |-> role, uses |-> uses, answers |-> answers, size |-> size, media |-> media]
System == WindowMessage("system", {}, None, 1, 0)
User(size, media) == WindowMessage("user", {}, None, size, media)
Exchange(id, size) ==
  <<WindowMessage("assistant", {<<0, id>>, <<0, id + 1>>}, None, 1, 0),
    WindowMessage("tool", {}, <<0, id>>, size, 0), WindowMessage("tool", {}, <<0, id + 1>>, 1, 0)>>

MCHistories ==
  {<<User(2, 0)>>, <<System, User(2, 0)>>,
   <<System, User(2, 0)>> \o Exchange(1, 2) \o <<User(1, 0)>>,
   <<User(3, 2), User(1, 0)>> \o Exchange(1, 1)}
----------------------------------------------------------------------------
(* SessionSnapshot: sessions of six messages with texts, media, calls and  *)
(* results on both sides of the cap of three bytes.                        *)

Part(kind) == [kind |-> kind, text |-> "", call |-> None, result |-> None, media |-> None]
TextPart(t) == [Part("text") EXCEPT !.text = t]
MediaPart(kind, bytes, reference) ==
  [Part(kind) EXCEPT !.media = [mime |-> "m", size |-> 1, name |-> IF bytes = "" THEN "n" ELSE "",
                                bytes |-> bytes, reference |-> reference]]
Object == [of |-> "object", len |-> 2, size |-> 2]
CallPart(id, args) ==
  [Part("tool_call") EXCEPT !.call = [id |-> id, name |-> "f", namespace |-> "", args |-> args]]

Used(n, written) ==
  [input |-> n, output |-> 1, estimated |-> FALSE, cost |-> n, currency |-> "BRL", cached |-> 1, written |-> written]
Estimated ==
  [input |-> 1, output |-> 0, estimated |-> TRUE, cost |-> 0, currency |-> "", cached |-> 0, written |-> 0]
Says(parts, usage) == [parts |-> parts, usage |-> usage]

Content(kind, text, json) == [kind |-> kind, text |-> text, json |-> json]
Result(content, is_error, denied) ==
  [call_id |-> "c", content |-> content, is_error |-> is_error, denied |-> denied, truncated |-> FALSE]

MCInputs ==
  {<<TextPart("hi")>>, <<TextPart(""), MediaPart("image", "b", "")>>, <<MediaPart("document", "", "r")>>}
MCReplies ==
  {Says(<<TextPart("ok")>>, Estimated), Says(<<CallPart("c1", Object)>>, Used(2, 1)),
   Says(<<TextPart("ok"), CallPart("c2", Object), CallPart("c3", None)>>, Used(3, 0))}
MCResults ==
  {Result(<<>>, FALSE, FALSE), Result(<<Content("text", <<1>>, None)>>, TRUE, TRUE),
   Result(<<Content("text", <<1, 2>>, None), Content("text", <<3, 4>>, None)>>, TRUE, FALSE),
   Result(<<Content("json", <<>>, Object), Content("text", <<1>>, None), Content("json", <<>>, Object)>>,
          FALSE, FALSE)}
MCIds == <<"1", "2", "3", "4", "5", "6">>
MCBase64 == [b \in {"b"} |-> "Yg=="]
----------------------------------------------------------------------------
(* UsageAudit: three calls, with the usages adapters return (the input     *)
(* holds what was cached and written), on int64 of seven bits.  Prices are *)
(* for four tokens, and three bytes are two tokens.                        *)

U(input, cached, written, output) == [input |-> input, cached |-> cached, written |-> written, output |-> output]

MCPricing == [input |-> 4, output |-> 8, cached |-> 1, write |-> 5, bytes |-> 3, tokens |-> 2]
MCReports == {U(0, 0, 0, 0), U(1, 0, 0, 1), U(7, 3, 0, 2), U(6, 2, 3, 0), U(25, 0, 0, 4)}
MCVolumes == {<<0, 0>>, <<5, 3>>, <<100, 1>>}
MCToolArguments == {<<>>, <<1, 1, 1>>, <<1, 3, 2>>, <<2, 2, 2>>}
----------------------------------------------------------------------------
(* UserMemory: three facts that a host gives and forgets while a turn is   *)
(* told of them; three turns that need the index.                          *)
MCUsers == <<"ana", "bia", "eva">>
MCDocs == [ana |-> <<3, 1>>, bia |-> <<2>>, eva |-> <<>>]
MCSimilarity == <<2, 5, 1>>
MCUserOf == (t1 :> "ana") @@ (t2 :> "bia") @@ (t3 :> "eva")

MCTold == {t1}
MCAsking == {t1, t2, t3}
----------------------------------------------------------------------------
ASSUME Wire!RequestAssumption /\ Wire!PartsAssumption
ASSUME Window!WindowAssumption /\ Window!HistoryAssumption
ASSUME Snapshot!SnapshotAssumption /\ Snapshot!ContentsAssumption
ASSUME Audit!UsageAssumption /\ Audit!PayloadAssumption
ASSUME Facts!DocsAssumption /\ Facts!TurnAssumption /\ Index!TurnAssumption
=============================================================================
