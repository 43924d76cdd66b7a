--------------------------- MODULE ResponsesStream ---------------------------
(***************************************************************************)
(* The Responses API adapter of ia-harness: ChatStream and the parser of   *)
(* its events.  Calls are items with an id of their own; their arguments   *)
(* come in deltas, whole in the closing event, or in the item itself.      *)
(***************************************************************************)
EXTENDS ProviderCall, ModelAnswer

VARIABLES
  whole,     \* external: the calls whose arguments are settled
  state,     \* streamState
  response   \* the ChatResponse of ChatStream

vars == <<callVars, answerVars, whole, state, response>>

Fresh == [text |-> <<>>, tools |-> <<>>, usage |-> None, done |-> FALSE]

Prompt == 7
Completion == 8
Cached == 2

Init == CallInit /\ AnswerInit /\ whole = {} /\ state = Fresh /\ response = None

Open == Opened /\ NewAnswer /\ whole' = {} /\ state' = Fresh /\ UNCHANGED response

Reading == pc = "stream" /\ ended = None /\ UNCHANGED <<callVars, response>>

Created ==
  Reading /\ server = "head" /\ Moves("items") /\ UNCHANGED <<whole, state, sink>>

OutputTextDelta(i) ==
  /\ Reading /\ answer[i].kind = "text" /\ UNCHANGED whole
  /\ \/ CanOpen(i) /\ Sends(i, 0) /\ UNCHANGED <<state, sink>>
     \/ /\ CanSend(i) /\ Sends(i, sent[i] + 1)
        /\ state' = [state EXCEPT !.text = Append(@, NextFrag(i))]
        /\ Sunk("text", None, NextFrag(i))

ReasoningDelta(i) ==
  /\ Reading /\ answer[i].kind = "thought" /\ UNCHANGED <<whole, state>>
  /\ \/ CanOpen(i) /\ Sends(i, 0) /\ UNCHANGED sink
     \/ CanSend(i) /\ Sends(i, sent[i] + 1) /\ Sunk("thought", None, NextFrag(i))

(* The item comes without its arguments or with all of them.               *)
OutputItemAdded(i) ==
  /\ Reading /\ CanOpen(i) /\ answer[i].kind = "call" /\ UNCHANGED sink
  /\ \E n \in {0, Len(answer[i].frags)} :
       /\ Sends(i, n)
       /\ whole' = IF n > 0 THEN whole \cup {i} ELSE whole
       /\ state' = [state EXCEPT !.tools = Append(@,
            [item |-> i, id |-> answer[i].id, name |-> answer[i].name,
             args |-> SubSeq(answer[i].frags, 1, n)])]

(* at: the accumulator of an item.                                         *)
At(i) == CHOOSE k \in DOMAIN state.tools : state.tools[k].item = i

ArgumentsDelta(i) ==
  /\ Reading /\ CanSend(i) /\ answer[i].kind = "call" /\ Sends(i, sent[i] + 1)
  /\ state' = [state EXCEPT !.tools[At(i)].args = Append(@, NextFrag(i))]
  /\ Sunk("args", state.tools[At(i)].id, NextFrag(i)) /\ UNCHANGED whole

Settles(i) ==
  /\ Reading /\ server = "items" /\ answer[i].kind = "call"
  /\ sent[i] >= 0 /\ i \notin whole
  /\ whole' = whole \cup {i} /\ Sends(i, Len(answer[i].frags)) /\ UNCHANGED sink

(* Slip: the arguments of the closing event are appended.                  *)
ArgumentsDoneAppends(i) ==
  /\ Settles(i)
  /\ state' = [state EXCEPT !.tools[At(i)].args = @ \o answer[i].frags]

(* The closing event carries the arguments whole, also those of which no   *)
(* delta came.                                                             *)
ArgumentsDone(i) ==
  /\ Settles(i)
  /\ state' = IF answer[i].frags = <<>> THEN state
              ELSE [state EXCEPT !.tools[At(i)].args = answer[i].frags]

Completed ==
  /\ Reading /\ AllSent /\ Moves("over") /\ UNCHANGED <<whole, sink>>
  /\ state' = [state EXCEPT !.done = TRUE,
       !.usage = IF usage = "none" THEN None ELSE <<Prompt, Completion, Cached>>]

Named(tool) == tool.id # None \/ tool.name # None

Response ==
  LET calls == SelectSeq(state.tools, Named)
  IN  [text |-> state.text,
       calls |-> [k \in DOMAIN calls |->
         [id |-> calls[k].id, name |-> calls[k].name, args |-> Arguments(calls[k].args)]],
       usage |-> state.usage]

Fails(c) ==
  /\ pc = "stream" /\ pc' = "failed" /\ code' = c
  /\ UNCHANGED <<attempt, faults, waits, ended, fallback, answerVars, whole, state, response>>

(* response.failed, response.incomplete, error, or an event that is not    *)
(* JSON.                                                                   *)
ResponseFailed == ended = None /\ Fails("stream")

(* EOF or [DONE].                                                          *)
EndOfStream ==
  IF state.done
  THEN /\ pc = "stream" /\ pc' = "done" /\ response' = Response
       /\ UNCHANGED <<attempt, faults, waits, ended, code, fallback, answerVars, whole, state>>
  ELSE Fails("stream")

(* Slip: a stream that breaks is asked for again.                          *)
BrokenRepeated ==
  /\ pc = "stream" /\ attempt < Attempts
  /\ pc' = "attempt" /\ attempt' = attempt + 1
  /\ UNCHANGED <<faults, waits, ended, code, fallback, answerVars, whole, state, response>>

Broken ==
  \/ Fails(IF ended # None THEN ContextCode ELSE "transport")
  \/ ended = None /\ Fails("timeout")

ParseStream ==
  \/ Created
  \/ \E i \in DOMAIN answer :
       \/ OutputTextDelta(i) \/ ReasoningDelta(i)
       \/ OutputItemAdded(i) \/ ArgumentsDelta(i) \/ ArgumentsDone(i)
  \/ Completed
  \/ ResponseFailed
  \/ EndOfStream
  \/ Broken

ChatStream ==
  \/ Open
  \/ (Refused \/ Wake) /\ UNCHANGED <<answerVars, whole, state, response>>
  \/ ParseStream

Next ==
  \/ ChatStream
  \/ (ContextEnds \/ Fallback) /\ UNCHANGED <<answerVars, whole, state, response>>

Spec == Init /\ [][Next]_vars
----------------------------------------------------------------------------
(* Properties.                                                             *)

(* Every variable keeps its type.                                          *)
TypeOK ==
  /\ CallTypeOK
  /\ server \in {"head", "items", "over"} /\ Len(sent) = Len(answer)
  /\ whole \subseteq DOMAIN answer /\ Len(state.tools) <= Len(answer)

Reported == IF usage = "none" THEN None ELSE <<Prompt, Completion, Cached>>

(* A call succeeds with exactly the answer of the model, whichever of the  *)
(* three ways its arguments came in.                                       *)
ResponseIsAnswer ==
  pc = "done" => response = [text |-> Text, calls |-> Calls, usage |-> Reported]

(* What the host saw streamed is the text of the response and, per call, a *)
(* beginning of its arguments (FR-RETRY-003).                              *)
SinkIsAnswer == pc = "done" => SunkOf("text", None) = response.text /\ SinkInOrder
=============================================================================
