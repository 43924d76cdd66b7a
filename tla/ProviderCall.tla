---------------------------- MODULE ProviderCall ----------------------------
(***************************************************************************)
(* A model call of ia-harness until the answer starts to stream: the       *)
(* attempts of an adapter's ChatStream (retry.DoIf under                   *)
(* providerhttp.Retryable), the waits between them, and the next profile   *)
(* of the chain, which writes to the same sink.  The jitter, a factor of   *)
(* 0.8 to 1.2 of each wait, is left out.                                   *)
(***************************************************************************)
EXTENDS Integers, Sequences

CONSTANTS
  MaxAttempts,   \* Config.MaxAttempts
  BaseDelay,     \* Config.RetryBaseDelay
  MaxDelay,      \* Config.RetryMaxDelay
  DefaultDelay,  \* the base of a policy without one
  MaxDuration,   \* the largest time.Duration
  Faults,        \* how an attempt may fail
  Fallbacks,     \* profiles left in the chain
  None

Statuses == {"400", "408", "429", "500", "504"}
Transport == {"reset", "dial_timeout", "client_timeout"}

CallAssumption ==
  /\ MaxAttempts \in Int /\ Fallbacks \in Nat /\ MaxDuration \in Nat
  /\ BaseDelay \in Int /\ MaxDelay \in Int /\ DefaultDelay \in 1 .. MaxDuration
  /\ BaseDelay <= MaxDuration /\ MaxDelay <= MaxDuration
  /\ Faults \subseteq Statuses \cup Transport \cup {"credential"}

VARIABLES
  pc,        \* "attempt", "wait", "stream", "done", "failed"
  attempt,
  faults,    \* history: the failed attempts
  waits,     \* history: the waits between attempts
  ended,     \* how the context of the call ended
  code,      \* ProviderError.Code; None of an error that is not one
  fallback   \* profiles of the chain tried after the first

callVars == <<pc, attempt, faults, waits, ended, code, fallback>>

Attempts == IF MaxAttempts <= 0 THEN 3 ELSE MaxAttempts
Base == IF BaseDelay <= 0 THEN DefaultDelay ELSE BaseDelay
Ceiling == IF MaxDelay < Base THEN Base ELSE MaxDelay

Wrap(d) == ((d + MaxDuration + 1) % (2 * MaxDuration + 2)) - MaxDuration - 1

(* Slip: doubled first and limited afterwards.                             *)
DelayUnchecked(n) ==
  LET delay[i \in 0 .. n - 2] == IF i = 0 THEN Base ELSE Wrap(2 * delay[i - 1])
  IN  IF delay[n - 2] > Ceiling THEN Ceiling ELSE delay[n - 2]

DelayFor(n) ==
  LET delay[i \in 0 .. n - 2] ==
        IF i = 0 THEN Base
        ELSE IF delay[i - 1] >= Ceiling THEN delay[i - 1]
        ELSE IF delay[i - 1] > Ceiling \div 2 THEN Ceiling
        ELSE Wrap(2 * delay[i - 1])
  IN  delay[n - 2]

ContextCode == IF ended = "deadline" THEN "timeout" ELSE "canceled"

Code(fault) ==
  CASE fault = "context" -> ContextCode
    [] fault = "credential" -> "credential"
    [] fault = "429" -> "rate_limited"
    [] fault \in {"408", "504", "dial_timeout", "client_timeout"} -> "timeout"
    [] fault = "500" -> "unavailable"
    [] fault = "reset" -> "transport"
    [] OTHER -> "http"

(* Slip: what the provider refused is repeated as well.                    *)
RetryableRefused(fault) == fault \notin {"context", "credential"}

(* Slip: the code of timeouts is not in the table.                         *)
RetryableNoTimeout(fault) ==
  /\ fault # "context"
  /\ Code(fault) \in {"rate_limited", "unavailable", "transport"}

(* A client timeout is a context.DeadlineExceeded to errors.Is.            *)
Retryable(fault) ==
  /\ fault \notin {"context", "client_timeout"}
  /\ Code(fault) \in {"rate_limited", "timeout", "unavailable", "transport"}

CallInit ==
  /\ pc = "attempt" /\ attempt = 1 /\ faults = <<>> /\ waits = <<>>
  /\ ended = None /\ code = None /\ fallback = 0

Opened ==
  /\ pc = "attempt" /\ ended = None
  /\ pc' = "stream"
  /\ UNCHANGED <<attempt, faults, waits, ended, code, fallback>>

Fault == IF ended = None THEN Faults ELSE {"context"} \cup (Faults \cap {"credential"})

(* Slip: the last attempt is not the last.                                 *)
RefusedOnceMore ==
  /\ pc = "attempt"
  /\ \E f \in Fault :
       /\ faults' = Append(faults, f) /\ code' = Code(f)
       /\ IF Retryable(f) /\ attempt <= Attempts
          THEN pc' = "wait" /\ waits' = Append(waits, DelayFor(attempt + 1))
          ELSE pc' = "failed" /\ UNCHANGED waits
  /\ UNCHANGED <<attempt, ended, fallback>>

Refused ==
  /\ pc = "attempt"
  /\ \E f \in Fault :
       /\ faults' = Append(faults, f) /\ code' = Code(f)
       /\ IF Retryable(f) /\ attempt < Attempts
          THEN pc' = "wait" /\ waits' = Append(waits, DelayFor(attempt + 1))
          ELSE pc' = "failed" /\ UNCHANGED waits
  /\ UNCHANGED <<attempt, ended, fallback>>

(* The wait ends by its timer or by the context: then the error is the     *)
(* context's own.                                                          *)
Wake ==
  /\ pc = "wait"
  /\ \/ pc' = "attempt" /\ attempt' = attempt + 1 /\ UNCHANGED code
     \/ ended # None /\ pc' = "failed" /\ code' = None /\ UNCHANGED attempt
  /\ UNCHANGED <<faults, waits, ended, fallback>>

ContextEnds ==
  /\ pc \in {"attempt", "wait", "stream"} /\ ended = None
  /\ ended' \in {"canceled", "deadline"}
  /\ UNCHANGED <<pc, attempt, faults, waits, code, fallback>>

(* chat goes on to the next profile whatever the error.                    *)
Fallback ==
  /\ pc = "failed" /\ fallback < Fallbacks
  /\ pc' = "attempt" /\ attempt' = 1 /\ faults' = <<>> /\ waits' = <<>>
  /\ code' = None /\ fallback' = fallback + 1
  /\ UNCHANGED ended

Streamed ==
  /\ pc = "stream"
  /\ \/ pc' = "done" /\ UNCHANGED code
     \/ pc' = "failed" /\ code' = "stream"
  /\ UNCHANGED <<attempt, faults, waits, ended, fallback>>

CallNext == Opened \/ Refused \/ Wake \/ ContextEnds \/ Fallback \/ Streamed

CallSpec == CallInit /\ [][CallNext]_callVars
----------------------------------------------------------------------------
(* Properties.                                                             *)

(* Every variable keeps its type; the attempts stay within the policy.     *)
CallTypeOK ==
  /\ pc \in {"attempt", "wait", "stream", "done", "failed"}
  /\ attempt \in 1 .. Attempts /\ fallback \in 0 .. Fallbacks
  /\ Len(faults) <= Attempts /\ ended \in {None, "canceled", "deadline"}

Exhausted == Len(faults) = Attempts
Refusal == faults # <<>> /\ faults[Len(faults)] \in {"400", "credential"}

(* A call gives up only when the attempts are exhausted, the last failure  *)
(* is permanent, the context ended or the stream had started               *)
(* (FR-RETRY-001); http.Client's own timeout is the exception checked      *)
(* apart.                                                                  *)
GivesUpForCause ==
  (pc = "failed" /\ code # "stream" /\ ended = None)
    => Exhausted \/ Refusal \/ faults[Len(faults)] = "client_timeout"

(* Only the last failure of a call may be permanent (FR-RETRY-002), a 408  *)
(* apart: the code takes it for a timeout (RequestTimeoutNotRepeated).     *)
PermanentNotRepeated ==
  \A i \in 1 .. Len(faults) - 1 : faults[i] \in {"408", "429", "500", "504", "reset", "dial_timeout"}

(* The first wait is the base and each next one the double of the last,    *)
(* never more than the ceiling, however close that is to the largest       *)
(* duration (FR-RETRY-001, the comment of delayFor).                       *)
DelayIsExponential ==
  \A i \in DOMAIN waits :
    LET exact == IF i = 1 THEN Base ELSE 2 * waits[i - 1]
    IN  waits[i] = IF exact > Ceiling THEN Ceiling ELSE exact

(* A timeout of the HTTP client is repeated like every transient failure   *)
(* (FR-RETRY-001 as written: "429, timeout, 5xx ou transporte").           *)
ClientTimeoutRepeated ==
  (pc = "failed" /\ code # "stream" /\ ended = None) => Exhausted \/ Refusal

(* A 408 is a permanent failure like any 4xx but 429 and is not repeated   *)
(* (FR-RETRY-002 as written).                                              *)
RequestTimeoutNotRepeated == \A i \in 1 .. Len(faults) - 1 : faults[i] # "408"

(* A failed call returns one of the package's errors (library-api.md,      *)
(* invariant 6).                                                           *)
ErrorIsTyped == pc = "failed" => code # None
=============================================================================
