----------------------------- MODULE RateLimiter -----------------------------
(***************************************************************************)
(* The rate limit of ia-harness: a token bucket per provider, or the       *)
(* default one, shared by every turn (ratelimit.Bucket, limiterFor,        *)
(* acquireRateLimit).  A caller reserves under limiterMu and then waits    *)
(* outside it, may be cancelled, or is rejected when the wait is too long. *)
(*                                                                         *)
(* Time is counted in ticks and a token is worth Period of them: the       *)
(* bucket's fractions become integers and their rounding is left out.  The *)
(* clock does not go back and the Waiter (external) is punctual.           *)
(***************************************************************************)
EXTENDS Integers, FiniteSets, FiniteSetsExt

CONSTANTS
  Callers,
  Providers,
  Limited,    \* providers with an entry of their own in Config.RateLimits
  Default,    \* the bucket of the others
  Period,     \* ticks per token
  Burst,
  MaxWait,    \* 0 for no ceiling
  MaxTime,    \* bound: ticks
  MaxDebt     \* bound: ticks a bucket may owe (rejected callers owe on)

LimitAssumption == Period \in Nat \ {0} /\ Burst \in Nat \ {0} /\ MaxWait \in Nat
ProviderAssumption == Limited \subseteq Providers /\ Default \notin Providers
BoundAssumption == MaxTime \in Nat /\ MaxDebt \in Nat

VARIABLES
  now,
  tokens, last,  \* Bucket.tokens, in ticks, and Bucket.last
  caller,        \* [pc, provider, due]
  started        \* history: calls made, by bucket and instant

vars == <<now, tokens, last, caller, started>>

Buckets == Limited \cup {Default}
LimiterFor(p) == IF p \in Limited THEN p ELSE Default

Init ==
  /\ now = 0
  /\ tokens = [b \in Buckets |-> Burst * Period] /\ last = [b \in Buckets |-> 0]
  /\ caller = [c \in Callers |-> [pc |-> "idle", provider |-> CHOOSE p \in Providers : TRUE,
                                  due |-> 0]]
  /\ started = [b \in Buckets |-> [t \in 0 .. MaxTime |-> 0]]

(* Slip: the capacity does not bound what an idle bucket saves up.         *)
RefillUncapped(b) == tokens[b] + (now - last[b])

Refill(b) == Min({Burst * Period, tokens[b] + (now - last[b])})

WaitIn(b) == IF Refill(b) >= Period THEN 0 ELSE Period - Refill(b)

(* Slip: who waits does not take the token it waits for.                   *)
DebitAvailable(b) == Refill(b) - (IF Refill(b) >= Period THEN Period ELSE 0)

(* A token is taken in any case, one that is not there yet as a debt.      *)
Debit(b) == Refill(b) - Period

Reserve(b) ==
  /\ tokens' = [tokens EXCEPT ![b] = Debit(b)]
  /\ last' = [last EXCEPT ![b] = now]

StartCall(b) == started' = [started EXCEPT ![b][now] = @ + 1]

Become(c, place, p, due) ==
  caller' = [caller EXCEPT ![c] = [pc |-> place, provider |-> p, due |-> due]]

(* acquireRateLimit up to the end of the wait.                             *)
Acquire(c, p) ==
  LET b == LimiterFor(p)
      wait == WaitIn(b) IN
  /\ caller[c].pc # "waiting" /\ Debit(b) >= -MaxDebt
  /\ Reserve(b)
  /\ \/ wait = 0 /\ StartCall(b) /\ Become(c, "called", p, now)
     \/ wait > 0 /\ MaxWait > 0 /\ wait > MaxWait
        /\ Become(c, "rejected", p, now) /\ UNCHANGED started
     \/ wait > 0 /\ (MaxWait = 0 \/ wait <= MaxWait)
        /\ Become(c, "waiting", p, now + wait) /\ UNCHANGED started
  /\ UNCHANGED now

WaitEnds(c) ==
  /\ caller[c].pc = "waiting" /\ caller[c].due = now
  /\ StartCall(LimiterFor(caller[c].provider))
  /\ Become(c, "called", caller[c].provider, now)
  /\ UNCHANGED <<now, tokens, last>>

(* The context ends first: no call is made and the token is not given back.*)
WaitCancelled(c) ==
  /\ caller[c].pc = "waiting"
  /\ Become(c, "cancelled", caller[c].provider, now)
  /\ UNCHANGED <<now, tokens, last, started>>

Tick ==
  /\ now < MaxTime
  /\ \A c \in Callers : caller[c].pc = "waiting" => caller[c].due > now
  /\ now' = now + 1
  /\ UNCHANGED <<tokens, last, caller, started>>

Next ==
  \/ \E c \in Callers :
       (\E p \in Providers : Acquire(c, p)) \/ WaitEnds(c) \/ WaitCancelled(c)
  \/ Tick

Spec == Init /\ [][Next]_vars
----------------------------------------------------------------------------
(* Properties.                                                             *)

(* Every variable keeps its type, no bucket holds more than its capacity   *)
(* and nobody waits for an instant gone by.                                *)
TypeOK ==
  /\ now \in 0 .. MaxTime
  /\ tokens \in [Buckets -> Int] /\ last \in [Buckets -> 0 .. MaxTime]
  /\ \A b \in Buckets : tokens[b] <= Burst * Period /\ last[b] <= now
  /\ caller \in [Callers -> [pc : {"idle", "waiting", "called", "rejected", "cancelled"},
                             provider : Providers, due : Nat]]
  /\ \A c \in Callers : caller[c].pc = "waiting" => caller[c].due >= now
  /\ started \in [Buckets -> [0 .. MaxTime -> Nat]]

(* In every interval the calls made through a bucket are at most a burst   *)
(* and what the rate allows for its length, whatever waits, rejections and *)
(* cancellations lie in it (FR-RL-001, FR-RL-003).                         *)
LimitRespected ==
  \A b \in Buckets : \A from \in 0 .. now : \A to \in from .. now :
    MapThenSumSet(LAMBDA t : started[b][t], from .. to) <= Burst + (to - from) \div Period

(* Callers that wait have turns a whole period apart: no two are let       *)
(* through together (Reserve's growing waits).                             *)
TurnsSpaced ==
  \A c, d \in Callers :
    (c # d /\ caller[c].pc = "waiting" /\ caller[d].pc = "waiting"
       /\ LimiterFor(caller[c].provider) = LimiterFor(caller[d].provider))
    => caller[c].due - caller[d].due >= Period \/ caller[d].due - caller[c].due >= Period

Quiet(b) ==
  /\ \A c \in Callers : caller[c].pc = "waiting" => LimiterFor(caller[c].provider) # b
  /\ \A t \in 0 .. now : started[b][t] > 0 => now - t >= Period

Turned(c, place) == caller[c].pc # place /\ caller'[c].pc = place

(* A call is rejected only while the bucket is busy with calls: some wait, *)
(* or one was made within the period.                                      *)
RejectedOnlyWhenBusy ==
  [][\A c \in Callers :
       Turned(c, "rejected") => ~Quiet(LimiterFor(caller'[c].provider))]_vars

(* A provider that has made no call yet does not wait for another.         *)
ProvidersIndependent ==
  \A c \in Callers : caller[c].pc = "waiting" =>
    \/ \E d \in Callers \ {c} : caller[d].provider = caller[c].provider /\ caller[d].pc # "idle"
    \/ caller[c].provider \in Limited
=============================================================================
