--------------------------- MODULE AnthropicStream ---------------------------
(***************************************************************************)
(* The Messages API adapter of ia-harness: ChatStream and the SSE parser   *)
(* that folds events into the canonical response.  One action per event    *)
(* the parser consumes; events it ignores are left out.                    *)
(***************************************************************************)
EXTENDS ProviderCall, ModelAnswer

VARIABLES
  state,     \* streamState
  response   \* the ChatResponse of ChatStream

vars == <<callVars, answerVars, state, response>>

(* The tokens the provider reports.                                        *)
Input == 1
Cached == 2
Written == 4
Output == 8

Blank == [kind |-> None, id |-> None, name |-> None, json |-> <<>>]
Fresh == [text |-> <<>>, blocks |-> <<>>, input |-> 0, output |-> 0,
          cached |-> 0, written |-> 0, hasUsage |-> FALSE, done |-> FALSE]

Init == CallInit /\ AnswerInit /\ state = Fresh /\ response = None

Open == Opened /\ NewAnswer /\ state' = Fresh /\ UNCHANGED response

(* The parser looks at the context before it consumes a line.              *)
Reading == pc = "stream" /\ ended = None /\ UNCHANGED <<callVars, response>>

MessageStart ==
  /\ Reading /\ server = "head" /\ Moves("items")
  /\ state' = IF usage = "none" THEN state
              ELSE [state EXCEPT !.input = Input, !.cached = Cached,
                                 !.written = Written, !.hasUsage = TRUE]
  /\ UNCHANGED sink

(* at: the accumulators up to index i, created as needed.                  *)
At(i) ==
  [j \in 1 .. IF i > Len(state.blocks) THEN i ELSE Len(state.blocks) |->
     IF j <= Len(state.blocks) THEN state.blocks[j] ELSE Blank]

Kind(item) == IF item.kind = "call" THEN "tool_use" ELSE item.kind

BlockStart(i) ==
  /\ Reading /\ CanOpen(i) /\ Sends(i, 0)
  /\ state' = [state EXCEPT !.blocks =
       [At(i) EXCEPT ![i].kind = Kind(answer[i]), ![i].id = answer[i].id,
                     ![i].name = answer[i].name]]
  /\ UNCHANGED sink

(* Slip: a fragment goes to the block that started last.                   *)
InputToLast(i) ==
  /\ Reading /\ CanSend(i) /\ answer[i].kind = "call" /\ Sends(i, sent[i] + 1)
  /\ LET b == At(i)
     IN  /\ state' = [state EXCEPT !.blocks = [b EXCEPT ![Len(b)].json = Append(@, NextFrag(i))]]
         /\ Sunk("args", b[Len(b)].id, NextFrag(i))

InputDelta(i) ==
  /\ Reading /\ CanSend(i) /\ answer[i].kind = "call" /\ Sends(i, sent[i] + 1)
  /\ state' = [state EXCEPT !.blocks = [At(i) EXCEPT ![i].json = Append(@, NextFrag(i))]]
  /\ Sunk("args", At(i)[i].id, NextFrag(i))

TextDelta(i) ==
  /\ Reading /\ CanSend(i) /\ answer[i].kind = "text" /\ Sends(i, sent[i] + 1)
  /\ state' = [state EXCEPT !.text = Append(@, NextFrag(i))]
  /\ Sunk("text", None, NextFrag(i))

ThinkingDelta(i) ==
  /\ Reading /\ CanSend(i) /\ answer[i].kind = "thought" /\ Sends(i, sent[i] + 1)
  /\ Sunk("thought", None, NextFrag(i)) /\ UNCHANGED state

MessageDelta ==
  /\ Reading /\ AllSent /\ Moves("tail")
  /\ state' = IF usage = "none" THEN state
              ELSE [state EXCEPT !.output = Output, !.hasUsage = TRUE,
                                 !.input = IF usage = "repeated" THEN Input ELSE @]
  /\ UNCHANGED sink

MessageStop ==
  /\ Reading /\ server = "tail" /\ Moves("over")
  /\ state' = [state EXCEPT !.done = TRUE]
  /\ UNCHANGED sink

ToolUse(block) == block.kind = "tool_use"

Response ==
  LET calls == SelectSeq(state.blocks, ToolUse)
  IN  [text |-> state.text,
       calls |-> [i \in DOMAIN calls |->
         [id |-> calls[i].id, name |-> calls[i].name, args |-> Arguments(calls[i].json)]],
       usage |-> IF state.hasUsage
                 THEN <<state.input + state.cached + state.written, state.output,
                        state.cached, state.written>>
                 ELSE None]

Fails(c) ==
  /\ pc' = "failed" /\ code' = c
  /\ UNCHANGED <<attempt, faults, waits, ended, fallback, answerVars, state, response>>

(* EOF, after the whole answer or before: without message_stop the stream  *)
(* was cut.                                                                *)
EndOfStream ==
  /\ pc = "stream"
  /\ IF state.done
     THEN /\ pc' = "done" /\ response' = Response
          /\ UNCHANGED <<attempt, faults, waits, ended, code, fallback, answerVars, state>>
     ELSE Fails("stream")

(* Slip: a stream that breaks is asked for again.                          *)
BrokenRepeated ==
  /\ pc = "stream" /\ attempt < Attempts
  /\ pc' = "attempt" /\ attempt' = attempt + 1
  /\ UNCHANGED <<faults, waits, ended, code, fallback, answerVars, state, response>>

(* A read error, an oversized line, a body slower than the client allows;  *)
(* a context that ended is looked at first.                                *)
Broken ==
  /\ pc = "stream"
  /\ Fails(IF ended # None THEN ContextCode ELSE "transport") \/ (ended = None /\ Fails("timeout"))

InvalidEvent == pc = "stream" /\ ended = None /\ server # "over" /\ Fails("stream")

ParseStream ==
  \/ MessageStart
  \/ \E i \in DOMAIN answer :
       BlockStart(i) \/ TextDelta(i) \/ ThinkingDelta(i) \/ InputDelta(i)
  \/ MessageDelta
  \/ MessageStop
  \/ EndOfStream
  \/ Broken
  \/ InvalidEvent

ChatStream ==
  \/ Open
  \/ (Refused \/ Wake) /\ UNCHANGED <<answerVars, state, response>>
  \/ ParseStream

Next == ChatStream \/ ((ContextEnds \/ Fallback) /\ UNCHANGED <<answerVars, state, response>>)

Spec == Init /\ [][Next]_vars
----------------------------------------------------------------------------
(* Properties.                                                             *)

(* Every variable keeps its type.                                          *)
TypeOK ==
  /\ CallTypeOK
  /\ server \in {"head", "items", "tail", "over"} /\ Len(sent) = Len(answer)
  /\ Len(state.blocks) <= Len(answer)

Reported ==
  IF usage = "none" THEN None ELSE <<Input + Cached + Written, Output, Cached, Written>>

(* A call succeeds with exactly the answer of the model: its text, its     *)
(* calls in order with their arguments whole, and its tokens counted once, *)
(* however the fragments interleave and however often it was retried.      *)
ResponseIsAnswer ==
  pc = "done" => response = [text |-> Text, calls |-> Calls, usage |-> Reported]

(* What the host saw streamed is the text of the response and, per call, a *)
(* beginning of its arguments: nothing is shown twice or mixed             *)
(* (FR-RETRY-003; 001/spec.md, the fall of the stream).                    *)
SinkIsAnswer == pc = "done" => SunkOf("text", None) = response.text /\ SinkInOrder
=============================================================================
