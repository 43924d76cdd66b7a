----------------------------- MODULE ModelAnswer -----------------------------
(***************************************************************************)
(* External: the answer of a model while its provider streams it, and the  *)
(* sink of the host that follows it.  An answer is a sequence of items     *)
(* (text, thought, tool call), each in fragments; fragments of items that  *)
(* are open at the same time may interleave.                               *)
(***************************************************************************)
EXTENDS Integers, Sequences, SequencesExt

CONSTANTS
  Answers,  \* sets of items [kind, id, name, frags]
  Usages,   \* what the provider may report: "none", "plain", "repeated"
  Empty     \* the arguments "{}"

VARIABLES
  answer,   \* the items
  usage,
  server,   \* "head", "items", "tail", "over": where the stream is
  sent,     \* fragments sent of each item; -1 when it is not open yet
  sink      \* history: [kind, id, frag] given to the host's handler

answerVars == <<answer, usage, server, sent, sink>>

Unsent(items) == [i \in DOMAIN items |-> -1]

AnswerInit ==
  /\ answer = <<>> /\ usage = "none" /\ server = "over" /\ sent = <<>> /\ sink = <<>>

NewAnswer ==
  /\ answer' \in Answers /\ usage' \in Usages
  /\ server' = "head" /\ sent' = Unsent(answer') /\ UNCHANGED sink

CanOpen(i) == server = "items" /\ sent[i] = -1 /\ \A j \in 1 .. i - 1 : sent[j] >= 0
CanSend(i) == server = "items" /\ sent[i] >= 0 /\ sent[i] < Len(answer[i].frags)
AllSent == server = "items" /\ \A i \in DOMAIN answer : sent[i] = Len(answer[i].frags)

NextFrag(i) == answer[i].frags[sent[i] + 1]

Sends(i, n) == sent' = [sent EXCEPT ![i] = n] /\ UNCHANGED <<answer, usage, server>>
Moves(s) == server' = s /\ UNCHANGED <<answer, usage, sent>>
Sunk(kind, id, frag) == sink' = Append(sink, [kind |-> kind, id |-> id, frag |-> frag])

OfKind(items, kind) == SelectSeq(items, LAMBDA item : item.kind = kind)
Position(i) == Len(OfKind(SubSeq(answer, 1, i), "call"))
Arguments(frags) == IF frags = <<>> THEN <<Empty>> ELSE frags

(* What the turn must get.                                                 *)
Text == FlattenSeq([i \in DOMAIN OfKind(answer, "text") |-> OfKind(answer, "text")[i].frags])
Calls ==
  LET calls == OfKind(answer, "call")
  IN  [i \in DOMAIN calls |->
        [id |-> calls[i].id, name |-> calls[i].name, args |-> Arguments(calls[i].frags)]]

SunkOf(kind, id) ==
  LET got == SelectSeq(sink, LAMBDA s : s.kind = kind /\ s.id = id)
  IN  [i \in DOMAIN got |-> got[i].frag]

(* The sink got no more of each call than its arguments, in order.         *)
SinkInOrder ==
  \A i \in DOMAIN Calls :
    IsPrefix(SunkOf("args", Calls[i].id), Calls[i].args)
=============================================================================
