------------------------------ MODULE UsageAudit ------------------------------
(***************************************************************************)
(* What a turn of ia-harness consumes and what is recorded of it: the      *)
(* tokens and the cost of a call of the model, reported by the provider or *)
(* estimated, the totals of the session, and the audit trail with its      *)
(* in-memory sink (usageFor, telemetry/cost.go, telemetry/redact.go,       *)
(* recordModelCall, recordToolCall, adapters/audit/mem).                   *)
(*                                                                         *)
(* A text is the sequence of the sizes of its characters in bytes.  Of a   *)
(* tool call the arguments are recorded; its result, cut the same way when *)
(* no policy redacts it, is left out.                                      *)
(***************************************************************************)
EXTENDS Integers, Sequences, SequencesExt

CONSTANTS
  Pricing,     \* of a host that sets it (without one no token is estimated): [input, output, cached,
               \* write], prices, and [bytes, tokens], the bytes of a token as a fraction
  Reports,     \* external: usages that an adapter returns
  Volumes,     \* pairs of bytes, of a request and of its answer
  Texts,       \* arguments of tools
  MaxFieldBytes,
  MaxInt,      \* math.MaxInt64
  Million,     \* the prices are for a million tokens
  MaxCalls     \* bound

UsageAssumption ==
  /\ MaxInt \in Nat \ {0} /\ Million \in Nat \ {0} /\ MaxFieldBytes \in Nat \ {0}
  /\ Pricing.bytes \in Nat \ {0} /\ Pricing.tokens \in Nat \ {0}
  /\ {Pricing.input, Pricing.output, Pricing.cached, Pricing.write} \subseteq Int
  /\ Reports \subseteq [input : 0 .. MaxInt, cached : 0 .. MaxInt, written : 0 .. MaxInt, output : 0 .. MaxInt]
  /\ Volumes \subseteq (0 .. MaxInt) \X (0 .. MaxInt)

VARIABLES
  session,   \* the usage of the session
  trail,     \* the events of the sink
  errors,    \* how many events were lost to the sink and told to the host
  calls,     \* history: the usages of the calls of the model, with what they were made from
  tools,     \* history: the tool calls, with their arguments
  edited,    \* history: a host has written to what Snapshot gave it
  asked,     \* history: how many calls of the model were made, answered or not
  failed     \* history: the last of them failed, and the host was told

vars == <<session, trail, errors, calls, tools, edited, asked, failed>>

Zero == [input |-> 0, output |-> 0, cached |-> 0, written |-> 0, cost |-> 0, estimated |-> FALSE]

Init ==
  /\ session = Zero /\ trail = <<>> /\ errors = 0 /\ calls = <<>> /\ tools = <<>> /\ edited = FALSE
  /\ asked = 0 /\ failed = FALSE
----------------------------------------------------------------------------
(* Arithmetic of int64: what is written out wraps, what saturates says so. *)

Wrap(n) == ((n + MaxInt + 1) % (2 * (MaxInt + 1))) - (MaxInt + 1)

NonNegative(n) == IF n < 0 THEN 0 ELSE n

(* Slip: the product is made before it is looked at.                       *)
TimesWrapping(a, b) == Wrap(a * b)

Times(a, b) == IF a = 0 \/ b = 0 THEN 0 ELSE IF a > MaxInt \div b THEN MaxInt ELSE a * b
Plus(a, b) == IF a > MaxInt - b THEN MaxInt ELSE a + b

(* Slip: tokens are rounded down.                                          *)
EstimateFloor(bytes) == IF bytes <= 0 THEN 0 ELSE (bytes * Pricing.tokens) \div Pricing.bytes

(* The code divides in float64, which is exact below 2^53 bytes.           *)
EstimateTokens(bytes) ==
  LET tokens == (bytes * Pricing.tokens + Pricing.bytes - 1) \div Pricing.bytes
  IN  IF bytes <= 0 THEN 0 ELSE IF tokens > MaxInt THEN MaxInt ELSE tokens

PriceOr(price, otherwise) == NonNegative(IF price <= 0 THEN otherwise ELSE price)

(* The input is the total, and what was written to the cache is charged a  *)
(* second time, at its own price.                                          *)
CostMicros(u) ==
  LET cached == NonNegative(u.cached)
      uncached == NonNegative(NonNegative(u.input) - cached)
  IN  Plus(Times(uncached, NonNegative(Pricing.input)),
        Plus(Times(cached, PriceOr(Pricing.cached, Pricing.input)),
          Plus(Times(NonNegative(u.written), PriceOr(Pricing.write, Pricing.input)),
            Times(NonNegative(u.output), NonNegative(Pricing.output))))) \div Million

UsageReported(u) ==
  [input |-> u.input, output |-> u.output, cached |-> u.cached, written |-> u.written,
   cost |-> CostMicros(u), estimated |-> FALSE]

UsageEstimated(requested, answered) ==
  LET u == [input |-> EstimateTokens(requested), output |-> EstimateTokens(answered), cached |-> 0, written |-> 0]
  IN  [UsageReported(u) EXCEPT !.estimated = TRUE]

UsageFor(u, requested, answered) ==
  IF u.input > 0 \/ u.output > 0 THEN UsageReported(u) ELSE UsageEstimated(requested, answered)

(* Slip: the session says of its last call whether it was estimated.       *)
AddLastEstimated(u, v) ==
  [input |-> Wrap(u.input + v.input), output |-> Wrap(u.output + v.output),
   cached |-> Wrap(u.cached + v.cached), written |-> Wrap(u.written + v.written),
   cost |-> Wrap(u.cost + v.cost), estimated |-> v.estimated]

Add(u, v) ==
  [input |-> Wrap(u.input + v.input), output |-> Wrap(u.output + v.output),
   cached |-> Wrap(u.cached + v.cached), written |-> Wrap(u.written + v.written),
   cost |-> Wrap(u.cost + v.cost), estimated |-> u.estimated \/ v.estimated]
----------------------------------------------------------------------------
(* The trail.                                                              *)

Marker == 3

(* A text has no character of a negative size, and the marker fits.        *)
PayloadAssumption == Texts \subseteq Seq(Nat) /\ MaxFieldBytes >= Marker

Bytes(text) == MapThenSumSet(LAMBDA i : text[i], DOMAIN text)

(* Slip: the marker is not counted.                                        *)
TruncateAtMax(text) ==
  LET kept == CHOOSE k \in 0 .. Len(text) :
                /\ Bytes(SubSeq(text, 1, k)) <= MaxFieldBytes
                /\ k < Len(text) => Bytes(SubSeq(text, 1, k + 1)) > MaxFieldBytes
  IN  IF Bytes(text) <= MaxFieldBytes THEN text ELSE SubSeq(text, 1, kept) \o <<Marker>>

Truncate(text) ==
  LET limit == NonNegative(MaxFieldBytes - Marker)
      kept == CHOOSE k \in 0 .. Len(text) :
                /\ Bytes(SubSeq(text, 1, k)) <= limit
                /\ k < Len(text) => Bytes(SubSeq(text, 1, k + 1)) > limit
  IN  IF Bytes(text) <= MaxFieldBytes THEN text ELSE SubSeq(text, 1, kept) \o <<Marker>>

(* intPtr: the contract has no negative numbers.                           *)
Recorded(u) == [f \in DOMAIN u |-> IF f = "estimated" THEN u[f] ELSE NonNegative(u[f])]

ModelEvent(u) == [kind |-> "model_call", usage |-> Recorded(u), payload |-> <<>>, status |-> "ok"]

(* Slip: the arguments of every call are recorded.                         *)
ToolEventAlways(status, args) ==
  [kind |-> "tool_call", usage |-> Zero, status |-> status, payload |-> Truncate(args)]

ToolEvent(status, args) ==
  [kind |-> "tool_call", usage |-> Zero, status |-> status,
   payload |-> IF status = "denied" THEN <<>> ELSE Truncate(args)]

(* Slip: a sink that fails goes unnoticed.                                 *)
EmitQuietly(event, fails) ==
  IF fails THEN UNCHANGED <<trail, errors>> ELSE trail' = Append(trail, event) /\ UNCHANGED errors

Emit(event, fails) ==
  IF fails THEN errors' = errors + 1 /\ UNCHANGED trail
  ELSE trail' = Append(trail, event) /\ UNCHANGED errors

Room == asked + Len(tools) < MaxCalls

ModelCall ==
  /\ Room /\ ~failed
  /\ \E u \in Reports, volume \in Volumes, fails \in BOOLEAN :
       LET usage == UsageFor(u, volume[1], volume[2])
       IN  /\ volume # <<0, 0>> => u.input <= 0 /\ u.output <= 0
           /\ session' = Add(session, usage)
           /\ calls' = Append(calls, [usage |-> usage, report |-> u, volume |-> volume])
           /\ Emit(ModelEvent(usage), fails)
  /\ asked' = asked + 1
  /\ UNCHANGED <<tools, edited, failed>>

(* Slip: the turn ends and nobody is told.                                 *)
ModelCallFailsQuietly ==
  /\ Room /\ ~failed
  /\ asked' = asked + 1
  /\ UNCHANGED <<session, trail, errors, calls, tools, edited, failed>>

(* A call that fails ends the turn: handler.Error tells the host, and no   *)
(* event is recorded.                                                      *)
ModelCallFails ==
  /\ Room /\ ~failed
  /\ asked' = asked + 1 /\ failed' = TRUE
  /\ UNCHANGED <<session, trail, errors, calls, tools, edited>>

ToolCall ==
  /\ Room /\ ~failed
  /\ \E args \in Texts, status \in {"ok", "error", "denied", "awaiting_confirmation"}, fails \in BOOLEAN :
       Emit(ToolEvent(status, args), fails) /\ tools' = Append(tools, [status |-> status, args |-> args])
  /\ UNCHANGED <<session, calls, edited, asked, failed>>

(* cloneEvent copies what these fields point to; an event and its copies   *)
(* share the other two.                                                    *)
Cloned == {"input", "output", "cost"}
Pointers == Cloned \cup {"cached", "written"}

(* A host writes to the events of a Snapshot.                              *)
HostEdits ==
  /\ edited' = TRUE
  /\ \E i \in DOMAIN trail, f \in Pointers :
       /\ trail[i].kind = "model_call"
       /\ trail' = IF f \in Cloned THEN trail ELSE [trail EXCEPT ![i].usage[f] = @ + 1]
  /\ ~edited /\ UNCHANGED <<session, errors, calls, tools, asked, failed>>

Next == ModelCall \/ ModelCallFails \/ ToolCall \/ HostEdits

Spec == Init /\ [][Next]_vars
----------------------------------------------------------------------------
(* Properties.                                                             *)

Bounded(n) == IF n > MaxInt THEN MaxInt ELSE n

(* What the provider bills for a call: each token once, at the price of    *)
(* its kind, a cached one at that of the input when it has none.           *)
Bill(u) ==
  LET plain == NonNegative(u.input - u.cached - u.written)
  IN  plain * Pricing.input + u.cached * PriceOr(Pricing.cached, Pricing.input)
        + u.written * PriceOr(Pricing.write, Pricing.input) + u.output * Pricing.output

(* The cost of a call is never below what is billed for it, and the        *)
(* estimate never below the volume, whatever overflows on the way (FR-025, *)
(* FR-PC-004): both stay within int64.                                     *)
NeverUnderestimates ==
  \A i \in DOMAIN calls :
    LET c == calls[i]  u == c.usage
    IN  /\ Bounded(Bill([u EXCEPT !.input = NonNegative(@)])) \div Million <= u.cost
        /\ u.cost <= MaxInt \div Million
        /\ u.estimated =>
             /\ Bounded(c.volume[1] * Pricing.tokens) <= u.input * Pricing.bytes
             /\ Bounded(c.volume[2] * Pricing.tokens) <= u.output * Pricing.bytes

(* What the entries of a list come to in a field of their usages.          *)
Amounts(list, f) == [i \in DOMAIN list |-> list[i].usage[f]]
SumIn(list, f) == MapThenSumSet(LAMBDA i : Amounts(list, f)[i], DOMAIN list)
Total(f) == SumIn(calls, f)
Fields == {"input", "output", "cached", "written", "cost"}

(* The totals of the session are those of its calls, as long as they fit,  *)
(* and say so when any of them is an estimate (FR-025).                    *)
TotalsAreSums ==
  /\ \A f \in Fields : Total(f) <= MaxInt => session[f] = Total(f)
  /\ session.estimated <=> \E i \in DOMAIN calls : calls[i].usage.estimated

Failures == IF failed THEN 1 ELSE 0

(* Every call of the model and of a tool is in the trail, or the host was  *)
(* told that its event is missing or that the call failed, and a trail     *)
(* that misses no event adds up to the session.  FR-023 asks for the event *)
(* of a failed call too: FailedCallsRecorded.                              *)
TrailIsComplete ==
  /\ Len(trail) + errors + Failures = asked + Len(tools)
  /\ (errors = 0 /\ ~edited) =>
       \A f \in Fields : (Total(f) <= MaxInt /\ \A i \in DOMAIN calls : calls[i].usage[f] >= 0) =>
         SumIn(trail, f) = session[f]

(* What the trail holds of a call's arguments is a prefix of them, in      *)
(* whole characters, within the limit, and nothing for a denied call       *)
(* (FR-024).                                                               *)
PayloadsArePrefixes ==
  \A i \in DOMAIN trail : trail[i].kind = "tool_call" =>
    LET p == trail[i].payload
        texts == {tools[k].args : k \in {k \in DOMAIN tools : tools[k].status = trail[i].status}}
    IN  /\ Bytes(p) <= MaxFieldBytes
        /\ p \in texts \/ p = <<>> \/ \E t \in texts : IsPrefix(SubSeq(p, 1, Len(p) - 1), t)
        /\ trail[i].status = "denied" => p = <<>>

(* There is an event for each call of the model, whatever its status, and  *)
(* for each of a tool (FR-023, data-model.md of AuditEvent), or the host   *)
(* was told that it is missing.                                            *)
FailedCallsRecorded == Len(trail) + errors = asked + Len(tools)

(* FR-PC-003: the input is the total with the cached tokens; FR-PC-004     *)
(* gives what was written a price of its own: each token is paid once.     *)
EachTokenPaidOnce ==
  \A i \in DOMAIN calls :
    LET u == calls[i].usage IN Bill(u) <= MaxInt => u.cost = Bill(u) \div Million

(* The result of a truncation fits in the limit (redact.go:145).           *)
TruncatedFits == \A i \in DOMAIN trail : Bytes(trail[i].payload) <= MaxFieldBytes

(* Writing to what Snapshot returned, its pointers included, does not      *)
(* change what is stored (comment of Sink.Snapshot).                       *)
TrailIsUnchanged == [][edited' # edited => trail' = trail]_vars
=============================================================================
