---------------------------- MODULE OpenAIStream ----------------------------
(***************************************************************************)
(* The Chat Completions adapter of ia-harness: ChatStream and the parser   *)
(* of its chunks.  Tool calls come by index, the first chunk of a call     *)
(* with its id and name; some gateways do not count from zero, and some    *)
(* send a call in one chunk.                                               *)
(***************************************************************************)
EXTENDS ProviderCall, ModelAnswer

CONSTANT Offsets  \* the index a gateway gives to the first call

VARIABLES
  offset,
  state,     \* streamState
  response   \* the ChatResponse of ChatStream

vars == <<callVars, answerVars, offset, state, response>>

Blank == [id |-> None, name |-> None, args |-> <<>>]
Fresh == [text |-> <<>>, tools |-> <<>>, usage |-> None, done |-> FALSE]

Prompt == 7
Completion == 8
Cached == 2

Init ==
  /\ CallInit /\ AnswerInit /\ offset \in Offsets /\ state = Fresh /\ response = None

Open == Opened /\ NewAnswer /\ state' = Fresh /\ UNCHANGED <<offset, response>>

Reading == pc = "stream" /\ ended = None /\ UNCHANGED <<callVars, offset, response>>

RoleDelta == Reading /\ server = "head" /\ Moves("items") /\ UNCHANGED <<state, sink>>

ContentDelta(i) ==
  /\ Reading /\ answer[i].kind = "text"
  /\ \/ CanOpen(i) /\ Sends(i, 0) /\ UNCHANGED <<state, sink>>
     \/ /\ CanSend(i) /\ Sends(i, sent[i] + 1)
        /\ state' = [state EXCEPT !.text = Append(@, NextFrag(i))]
        /\ Sunk("text", None, NextFrag(i))

ReasoningDelta(i) ==
  /\ Reading /\ answer[i].kind = "thought" /\ UNCHANGED state
  /\ \/ CanOpen(i) /\ Sends(i, 0) /\ UNCHANGED sink
     \/ CanSend(i) /\ Sends(i, sent[i] + 1) /\ Sunk("thought", None, NextFrag(i))

Index(i) == offset + Position(i)

(* at: the accumulators up to the index, created as needed.                *)
At(index) ==
  [j \in 1 .. IF index > Len(state.tools) THEN index ELSE Len(state.tools) |->
     IF j <= Len(state.tools) THEN state.tools[j] ELSE Blank]

(* The chunk that opens a call may carry its first arguments.  It has the  *)
(* name whole: of the fragments the code would join (acc.name +=) no other *)
(* comes.                                                                  *)
ToolDelta(i) ==
  /\ Reading /\ answer[i].kind = "call"
  /\ \/ /\ CanOpen(i)
        /\ \E n \in {0, 1} \cap 0 .. Len(answer[i].frags) :
             /\ Sends(i, n)
             /\ state' = [state EXCEPT !.tools =
                  [At(Index(i)) EXCEPT ![Index(i)] =
                     [id |-> answer[i].id, name |-> answer[i].name,
                      args |-> SubSeq(answer[i].frags, 1, n)]]]
             /\ IF n = 0 THEN UNCHANGED sink ELSE Sunk("args", answer[i].id, answer[i].frags[1])
     \/ /\ CanSend(i) /\ Sends(i, sent[i] + 1)
        /\ state' = [state EXCEPT !.tools = [At(Index(i)) EXCEPT ![Index(i)].args = Append(@, NextFrag(i))]]
        /\ Sunk("args", At(Index(i))[Index(i)].id, NextFrag(i))

UsageChunk ==
  /\ Reading /\ AllSent /\ Moves("tail")
  /\ state' = [state EXCEPT !.usage = IF usage = "none" THEN None ELSE <<Prompt, Completion, Cached>>]
  /\ UNCHANGED sink

(* Slip: the padding of the indices becomes calls.                         *)
ResponsePadded ==
  [text |-> state.text,
   calls |-> [i \in DOMAIN state.tools |->
     [id |-> state.tools[i].id, name |-> state.tools[i].name, args |-> Arguments(state.tools[i].args)]],
   usage |-> state.usage]

Named(tool) == tool.id # None \/ tool.name # None

Response ==
  LET calls == SelectSeq(state.tools, Named)
  IN  [text |-> state.text,
       calls |-> [i \in DOMAIN calls |->
         [id |-> calls[i].id, name |-> calls[i].name, args |-> Arguments(calls[i].args)]],
       usage |-> state.usage]

(* [DONE]: nothing after it is read.                                       *)
Done ==
  /\ pc = "stream" /\ ended = None /\ server = "tail"
  /\ pc' = "done" /\ server' = "over"
  /\ state' = [state EXCEPT !.done = TRUE] /\ response' = Response
  /\ UNCHANGED <<attempt, faults, waits, ended, code, fallback, answer, usage, sent, sink, offset>>

Fails(c) ==
  /\ pc = "stream" /\ pc' = "failed" /\ code' = c
  /\ UNCHANGED <<attempt, faults, waits, ended, fallback, answerVars, offset, state, response>>

(* EOF, or a chunk that is not JSON.                                       *)
CutStream == Fails("stream")

(* Slip: a stream that breaks is asked for again.                          *)
BrokenRepeated ==
  /\ pc = "stream" /\ attempt < Attempts
  /\ pc' = "attempt" /\ attempt' = attempt + 1
  /\ UNCHANGED <<faults, waits, ended, code, fallback, answerVars, offset, state, response>>

Broken ==
  \/ Fails(IF ended # None THEN ContextCode ELSE "transport")
  \/ ended = None /\ Fails("timeout")

ParseStream ==
  \/ RoleDelta
  \/ \E i \in DOMAIN answer : ContentDelta(i) \/ ReasoningDelta(i) \/ ToolDelta(i)
  \/ UsageChunk
  \/ Done
  \/ CutStream
  \/ Broken

ChatStream ==
  \/ Open
  \/ (Refused \/ Wake) /\ UNCHANGED <<answerVars, offset, state, response>>
  \/ ParseStream

Next ==
  \/ ChatStream
  \/ (ContextEnds \/ Fallback) /\ UNCHANGED <<answerVars, offset, state, response>>

Spec == Init /\ [][Next]_vars
----------------------------------------------------------------------------
(* Properties.                                                             *)

(* Every variable keeps its type.                                          *)
TypeOK ==
  /\ CallTypeOK
  /\ server \in {"head", "items", "tail", "over"} /\ Len(sent) = Len(answer)
  /\ Len(state.tools) <= offset + Len(answer)

Reported == IF usage = "none" THEN None ELSE <<Prompt, Completion, Cached>>

(* A call succeeds with exactly the answer of the model, whatever index    *)
(* its calls start from and however their chunks interleave.               *)
ResponseIsAnswer ==
  pc = "done" => response = [text |-> Text, calls |-> Calls, usage |-> Reported]

(* What the host saw streamed is the text of the response and, per call, a *)
(* beginning of its arguments (FR-RETRY-003).                              *)
SinkIsAnswer == pc = "done" => SunkOf("text", None) = response.text /\ SinkInOrder
=============================================================================
