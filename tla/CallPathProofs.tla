---------------------------- MODULE CallPathProofs ----------------------------
(***************************************************************************)
(* What stands between a turn and a model, for every configuration.  The   *)
(* rate limit, for any burst, period, ceiling of the wait, number of       *)
(* callers and providers: callers that wait at one bucket have turns a     *)
(* period apart, and no interval holds more calls than the limit allows,   *)
(* whatever is rejected or cancelled between them.  The attempts of a      *)
(* call, for any policy: they end for a cause, and their waits double.     *)
(* The chain of fallbacks, for any profiles.  The cache of answers, for    *)
(* any users, scores, time to live and ceiling.                            *)
(***************************************************************************)
EXTENDS SequencesExt, CallPath, DataInduction, TLAPS

Assumptions == Limiter!LimitAssumption /\ Limiter!ProviderAssumption /\ Limiter!BoundAssumption /\ Providers # {}

Waiting(c, b) == caller[c].pc = "waiting" /\ Limiter!LimiterFor(caller[c].provider) = b

(* The instant at which a bucket owes nothing, if nothing else is taken.   *)
Paid(b) == last[b] - tokens[b]

(* Whoever waits is let through before the bucket is paid, so that the     *)
(* next one to wait comes a period later.                                  *)
SpacedInv ==
  /\ Limiter!TypeOK
  /\ \A c \in Callers, b \in Limiter!Buckets : Waiting(c, b) => caller[c].due <= Paid(b)
  /\ Limiter!TurnsSpaced

Places == {"idle", "waiting", "called", "rejected", "cancelled"}
CallerStates == [pc : Places, provider : Providers, due : Nat]

----------------------------------------------------------------------------
(* The arithmetic of a bucket.                                             *)

LEMMA MinOfTwo ==
  ASSUME NEW a \in Int, NEW b \in Int
  PROVE  Limiter!Min({a, b}) = IF a <= b THEN a ELSE b
  BY DEF Limiter!Min

LEMMA Capacity ==
  ASSUME Limiter!LimitAssumption
  PROVE  Burst * Period \in Nat /\ Burst * Period >= Period /\ Period \in Nat /\ Period > 0
<1>1. Burst \in Nat /\ Period \in Nat /\ Burst >= 1 /\ Period >= 1
  BY DEF Limiter!LimitAssumption
<1>2. Burst * Period = Period + (Burst - 1) * Period
  BY <1>1
<1>3. (Burst - 1) * Period \in Nat
  BY <1>1
<1> QED BY <1>1, <1>2, <1>3

LEMMA LimiterIsBucket == \A p \in Providers : Limiter!LimiterFor(p) \in Limiter!Buckets
  BY DEF Limiter!LimiterFor, Limiter!Buckets

LEMMA RefillIs ==
  ASSUME Assumptions, Limiter!TypeOK, NEW b \in Limiter!Buckets
  PROVE  /\ Limiter!Refill(b) \in Int /\ Limiter!Refill(b) <= Burst * Period
         /\ Limiter!Refill(b) <= now - Paid(b)
         /\ Limiter!Refill(b) = now - Paid(b) \/ Limiter!Refill(b) >= Period
         /\ Paid(b) \in Int /\ now \in Nat
<1>1. /\ now \in Nat /\ tokens[b] \in Int /\ last[b] \in Nat /\ last[b] \in Int
      /\ Burst * Period \in Int /\ Burst * Period >= Period
  BY Capacity DEF Limiter!TypeOK, Assumptions, Limiter!BoundAssumption
<1>2. Paid(b) \in Int /\ tokens[b] + (now - last[b]) = now - Paid(b)
  BY <1>1 DEF Paid
<1>3. Limiter!Refill(b) = IF Burst * Period <= now - Paid(b) THEN Burst * Period ELSE now - Paid(b)
  BY <1>1, <1>2, MinOfTwo DEF Limiter!Refill
<1> QED BY <1>1, <1>2, <1>3

(* What a reservation leaves: the token is debited, and who has to wait    *)
(* does so until the bucket is paid.                                       *)
LEMMA Reserved ==
  ASSUME Assumptions, Limiter!TypeOK, NEW b \in Limiter!Buckets, Limiter!Reserve(b)
  PROVE  /\ tokens' \in [Limiter!Buckets -> Int] /\ tokens'[b] <= Burst * Period
         /\ last' \in [Limiter!Buckets -> 0 .. MaxTime] /\ last'[b] = now
         /\ \A d \in Limiter!Buckets : d # b => tokens'[d] = tokens[d] /\ last'[d] = last[d]
         /\ Paid(b)' \in Int /\ Limiter!WaitIn(b) \in Nat
         /\ Limiter!WaitIn(b) > 0 => now + Limiter!WaitIn(b) = Paid(b)' /\ Paid(b)' = Paid(b) + Period
         /\ Limiter!WaitIn(b) = 0 => Paid(b) < now
         /\ Paid(b)' >= Paid(b) + Period
         /\ Paid(b)' + Burst * Period >= now + Period
         /\ Limiter!WaitIn(b) = 0 => Paid(b)' <= now
<1>1. /\ Limiter!Refill(b) \in Int /\ Limiter!Refill(b) <= Burst * Period /\ Limiter!Refill(b) <= now - Paid(b)
      /\ Limiter!Refill(b) = now - Paid(b) \/ Limiter!Refill(b) >= Period
      /\ Paid(b) \in Int /\ now \in Nat
  BY RefillIs
<1>2. Period \in Nat /\ Period > 0 /\ Burst * Period \in Nat
  BY Capacity DEF Assumptions
<1>3. /\ tokens \in [Limiter!Buckets -> Int] /\ last \in [Limiter!Buckets -> 0 .. MaxTime] /\ now \in 0 .. MaxTime
  BY DEF Limiter!TypeOK
<1>4. Limiter!Debit(b) \in Int /\ Limiter!Debit(b) = Limiter!Refill(b) - Period
  BY <1>1, <1>2 DEF Limiter!Debit
<1>5. /\ tokens' \in [Limiter!Buckets -> Int] /\ tokens'[b] = Limiter!Debit(b)
      /\ last' \in [Limiter!Buckets -> 0 .. MaxTime] /\ last'[b] = now
      /\ \A d \in Limiter!Buckets : d # b => tokens'[d] = tokens[d] /\ last'[d] = last[d]
  BY <1>3, <1>4 DEF Limiter!Reserve
<1>6. Paid(b)' = now - Limiter!Refill(b) + Period
  BY <1>1, <1>2, <1>4, <1>5 DEF Paid
<1>7. Limiter!WaitIn(b) = IF Limiter!Refill(b) >= Period THEN 0 ELSE Period - Limiter!Refill(b)
  BY DEF Limiter!WaitIn
<1> QED BY <1>1, <1>2, <1>4, <1>5, <1>6, <1>7
----------------------------------------------------------------------------
(* The steps.                                                              *)

LEMMA CallerFacts ==
  ASSUME Limiter!TypeOK
  PROVE  /\ caller \in [Callers -> CallerStates]
         /\ \A c \in Callers : caller[c].pc = "waiting" => caller[c].due >= now
  BY DEF Limiter!TypeOK, CallerStates, Places

(* One caller takes a place, at an instant that has not gone by.           *)
LEMMA BecomeFacts ==
  ASSUME Limiter!TypeOK, NEW c \in Callers, NEW place \in Places, NEW p \in Providers, NEW due \in Nat,
         Limiter!Become(c, place, p, due), now' = now, due >= now
  PROVE  /\ caller' \in [Callers -> CallerStates]
         /\ caller'[c].pc = place /\ caller'[c].provider = p /\ caller'[c].due = due
         /\ \A d \in Callers : d # c => caller'[d] = caller[d]
         /\ \A d \in Callers : caller'[d].pc = "waiting" => caller'[d].due >= now'
<1>1. caller \in [Callers -> CallerStates]
  BY CallerFacts
<1> DEFINE r == [pc |-> place, provider |-> p, due |-> due]
<1>2. r \in CallerStates /\ r.pc = place /\ r.provider = p /\ r.due = due
  BY DEF CallerStates
<1>3. caller' = [caller EXCEPT ![c] = r]
  BY DEF Limiter!Become
<1> HIDE DEF r
<1>4. /\ caller' \in [Callers -> CallerStates] /\ caller'[c] = r
      /\ \A d \in Callers : d # c => caller'[d] = caller[d]
  BY <1>1, <1>2, <1>3
<1> QED BY <1>2, <1>4, CallerFacts

LEMMA CallStarted ==
  ASSUME Limiter!TypeOK, NEW b \in Limiter!Buckets, Limiter!StartCall(b)
  PROVE  started' \in [Limiter!Buckets -> [0 .. MaxTime -> Nat]]
<1>1. started \in [Limiter!Buckets -> [0 .. MaxTime -> Nat]] /\ now \in 0 .. MaxTime
  BY DEF Limiter!TypeOK
<1>2. started[b] \in [0 .. MaxTime -> Nat] /\ started[b][now] + 1 \in Nat
  <2>1. PICK f \in [0 .. MaxTime -> Nat] : f = started[b]
    BY <1>1
  <2>2. f[now] \in Nat
    BY <1>1
  <2> QED BY <2>1, <2>2
<1> DEFINE counts == [started[b] EXCEPT ![now] = started[b][now] + 1]
<1>3. counts \in [0 .. MaxTime -> Nat]
  BY <1>1, <1>2
<1>4. started' = [started EXCEPT ![b] = counts]
  BY <1>1 DEF Limiter!StartCall
<1> HIDE DEF counts
<1> QED BY <1>1, <1>3, <1>4

(* A step in which no caller starts to wait and no bucket changes.         *)
LEMMA LeaveKeeps ==
  ASSUME Assumptions, SpacedInv, NEW c \in Callers, NEW place \in Places \ {"waiting"},
         Limiter!Become(c, place, caller[c].provider, now), UNCHANGED <<now, tokens, last>>,
         started' \in [Limiter!Buckets -> [0 .. MaxTime -> Nat]]
  PROVE  SpacedInv'
<1>1. Limiter!TypeOK /\ caller[c].provider \in Providers /\ now \in Nat
  BY CallerFacts DEF SpacedInv, CallerStates, Limiter!TypeOK
<1>2. /\ caller' \in [Callers -> CallerStates] /\ caller'[c].pc = place
      /\ \A d \in Callers : d # c => caller'[d] = caller[d]
      /\ \A d \in Callers : caller'[d].pc = "waiting" => caller'[d].due >= now'
  BY <1>1, BecomeFacts
<1>3. Limiter!TypeOK'
  BY <1>1, <1>2 DEF Limiter!TypeOK, CallerStates, Places, Limiter!Buckets
<1>4. \A d \in Callers : caller'[d].pc = "waiting" => caller'[d] = caller[d]
  BY <1>2
<1>5. ASSUME NEW d \in Callers, NEW b \in Limiter!Buckets, Waiting(d, b)' PROVE caller'[d].due <= Paid(b)'
  BY <1>4, <1>5 DEF SpacedInv, Waiting, Paid, Limiter!LimiterFor
<1>6. Limiter!TurnsSpaced'
  BY <1>4 DEF SpacedInv, Limiter!TurnsSpaced, Limiter!LimiterFor
<1> QED BY <1>3, <1>5, <1>6 DEF SpacedInv

LEMMA AcquireKeeps ==
  ASSUME Assumptions, SpacedInv, NEW c \in Callers, NEW p \in Providers, Limiter!Acquire(c, p)
  PROVE  SpacedInv'
<1> DEFINE b == Limiter!LimiterFor(p)
           wait == Limiter!WaitIn(b)
<1>1. Limiter!TypeOK /\ b \in Limiter!Buckets /\ now \in Nat /\ now' = now /\ Limiter!Reserve(b)
  BY LimiterIsBucket DEF SpacedInv, Limiter!Acquire, Limiter!TypeOK
<1>2. Period \in Nat /\ Period > 0
  BY Capacity DEF Assumptions
<1>3. /\ tokens' \in [Limiter!Buckets -> Int] /\ tokens'[b] <= Burst * Period
      /\ last' \in [Limiter!Buckets -> 0 .. MaxTime] /\ last'[b] = now
      /\ \A d \in Limiter!Buckets : d # b => tokens'[d] = tokens[d] /\ last'[d] = last[d]
      /\ Paid(b)' \in Int /\ wait \in Nat /\ Paid(b) \in Int
      /\ wait > 0 => now + wait = Paid(b)' /\ Paid(b)' = Paid(b) + Period
      /\ wait = 0 => Paid(b) < now
      /\ Paid(b)' >= Paid(b) + Period
  BY <1>1, Reserved, RefillIs
<1>4. \E place \in Places, due \in Nat :
        /\ Limiter!Become(c, place, p, due) /\ due >= now
        /\ place = "waiting" => wait > 0 /\ due = now + wait
        /\ started' \in [Limiter!Buckets -> [0 .. MaxTime -> Nat]]
  <2>1. UNCHANGED started => started' \in [Limiter!Buckets -> [0 .. MaxTime -> Nat]]
    BY <1>1 DEF Limiter!TypeOK
  <2>2. CASE wait = 0 /\ Limiter!StartCall(b) /\ Limiter!Become(c, "called", p, now)
    BY <1>1, <2>2, CallStarted DEF Places
  <2>3. CASE Limiter!Become(c, "rejected", p, now) /\ UNCHANGED started
    BY <1>1, <2>1, <2>3 DEF Places
  <2>4. CASE wait > 0 /\ Limiter!Become(c, "waiting", p, now + wait) /\ UNCHANGED started
    <3>1. now + wait \in Nat /\ now + wait >= now
      BY <1>1, <1>3
    <3> QED BY <2>1, <2>4, <3>1 DEF Places
  <2> QED BY <2>2, <2>3, <2>4 DEF Limiter!Acquire
<1>5. PICK place \in Places, due \in Nat :
        /\ Limiter!Become(c, place, p, due) /\ due >= now
        /\ place = "waiting" => wait > 0 /\ due = now + wait
        /\ started' \in [Limiter!Buckets -> [0 .. MaxTime -> Nat]]
  BY <1>4
<1> HIDE DEF b, wait
<1>6. /\ caller' \in [Callers -> CallerStates]
      /\ caller'[c].pc = place /\ caller'[c].provider = p /\ caller'[c].due = due
      /\ \A d \in Callers : d # c => caller'[d] = caller[d]
      /\ \A d \in Callers : caller'[d].pc = "waiting" => caller'[d].due >= now'
  BY <1>1, <1>5, BecomeFacts
<1>7. Limiter!TypeOK'
  <2>1. now' \in 0 .. MaxTime
    BY <1>1 DEF Limiter!TypeOK
  <2>2. ASSUME NEW x \in Limiter!Buckets PROVE tokens'[x] <= Burst * Period /\ last'[x] <= now'
    <3>1. tokens[x] <= Burst * Period /\ last[x] <= now
      BY <1>1 DEF Limiter!TypeOK
    <3>2. CASE x = b
      BY <1>1, <1>3, <3>2
    <3>3. CASE x # b
      BY <1>1, <1>3, <3>1, <3>3
    <3> QED BY <3>2, <3>3
  <2> QED BY <1>3, <1>5, <1>6, <2>1, <2>2 DEF Limiter!TypeOK, CallerStates, Places, Limiter!Buckets
<1>8. \A d \in Callers, x \in Limiter!Buckets : Waiting(d, x) => caller[d].due <= Paid(x) /\ caller[d].due >= now
  BY CallerFacts, <1>1 DEF SpacedInv, Waiting
<1>9. \A x \in Limiter!Buckets : x # b => Paid(x)' = Paid(x)
  BY <1>3 DEF Paid
<1>10. ASSUME NEW d \in Callers, NEW x \in Limiter!Buckets, Waiting(d, x)' PROVE caller'[d].due <= Paid(x)'
  <2>1. CASE d = c
    <3>1. x = b /\ place = "waiting"
      BY <1>6, <1>10, <2>1 DEF Waiting, b
    <3> QED BY <1>3, <1>5, <1>6, <2>1, <3>1
  <2>2. CASE d # c
    <3>1. caller'[d] = caller[d] /\ Waiting(d, x)
      BY <1>6, <1>10, <2>2 DEF Waiting, Limiter!LimiterFor
    <3>2. caller[d].due <= Paid(x) /\ caller[d].due \in Nat /\ Paid(x) \in Int
      BY <1>1, <1>8, <3>1, CallerFacts, RefillIs DEF CallerStates
    <3>3. CASE x = b
      BY <1>2, <1>3, <3>1, <3>2, <3>3
    <3>4. CASE x # b
      BY <1>9, <3>1, <3>2, <3>4
    <3> QED BY <3>3, <3>4
  <2> QED BY <2>1, <2>2
<1>11. ASSUME NEW d \in Callers, d # c, place = "waiting", Waiting(d, b)
       PROVE  caller'[c].due - caller'[d].due >= Period
  <2>1. caller'[d] = caller[d] /\ caller[d].due \in Nat /\ caller[d].due <= Paid(b)
    BY <1>1, <1>6, <1>8, <1>11, CallerFacts DEF CallerStates
  <2> QED BY <1>2, <1>3, <1>5, <1>6, <1>11, <2>1
<1>12. Limiter!TurnsSpaced'
  <2> SUFFICES ASSUME NEW d \in Callers, NEW e \in Callers, d # e,
                      caller'[d].pc = "waiting", caller'[e].pc = "waiting",
                      Limiter!LimiterFor(caller'[d].provider) = Limiter!LimiterFor(caller'[e].provider)
               PROVE  caller'[d].due - caller'[e].due >= Period \/ caller'[e].due - caller'[d].due >= Period
    BY DEF Limiter!TurnsSpaced, Limiter!LimiterFor
  <2>1. CASE d = c
    <3>1. place = "waiting" /\ Waiting(e, b)
      BY <1>6, <2>1 DEF Waiting, b
    <3> QED BY <1>11, <2>1, <3>1
  <2>2. CASE e = c
    <3>1. place = "waiting" /\ Waiting(d, b)
      BY <1>6, <2>2 DEF Waiting, b
    <3> QED BY <1>11, <2>2, <3>1
  <2>3. CASE d # c /\ e # c
    BY <1>6, <2>3 DEF SpacedInv, Limiter!TurnsSpaced
  <2> QED BY <2>1, <2>2, <2>3
<1> QED BY <1>7, <1>10, <1>12 DEF SpacedInv

LEMMA TickKeeps ==
  ASSUME Assumptions, SpacedInv, Limiter!Tick
  PROVE  SpacedInv'
<1>1. /\ now < MaxTime /\ now' = now + 1 /\ UNCHANGED <<tokens, last, caller, started>>
      /\ \A c \in Callers : caller[c].pc = "waiting" => caller[c].due > now
  BY DEF Limiter!Tick
<1>2. Limiter!TypeOK /\ MaxTime \in Nat /\ caller \in [Callers -> CallerStates]
  BY CallerFacts DEF SpacedInv, Assumptions, Limiter!BoundAssumption
<1>3. \A c \in Callers : caller'[c].pc = "waiting" => caller'[c].due >= now'
  <2> SUFFICES ASSUME NEW c \in Callers, caller[c].pc = "waiting" PROVE caller[c].due >= now + 1
    BY <1>1
  <2> QED BY <1>1, <1>2 DEF CallerStates, Limiter!TypeOK
<1>4. now' \in 0 .. MaxTime /\ \A b \in Limiter!Buckets : last[b] <= now'
  BY <1>1, <1>2 DEF Limiter!TypeOK
<1>5. Limiter!TypeOK'
  BY <1>1, <1>2, <1>3, <1>4 DEF Limiter!TypeOK, Limiter!Buckets
<1> QED BY <1>1, <1>5 DEF SpacedInv, Waiting, Paid, Limiter!LimiterFor, Limiter!TurnsSpaced

LEMMA StepKeeps ==
  ASSUME Assumptions, SpacedInv, [Limiter!Next]_Limiter!vars
  PROVE  SpacedInv'
<1>1. ASSUME NEW c \in Callers, NEW p \in Providers, Limiter!Acquire(c, p) PROVE SpacedInv'
  BY <1>1, AcquireKeeps
<1>2. ASSUME NEW c \in Callers, Limiter!WaitEnds(c) PROVE SpacedInv'
  <2>1. caller[c].provider \in Providers /\ Limiter!TypeOK
    BY CallerFacts DEF SpacedInv, CallerStates
  <2>2. started' \in [Limiter!Buckets -> [0 .. MaxTime -> Nat]]
    BY <1>2, <2>1, CallStarted, LimiterIsBucket DEF Limiter!WaitEnds
  <2> QED BY <1>2, <2>2, LeaveKeeps DEF Limiter!WaitEnds, Places
<1>3. ASSUME NEW c \in Callers, Limiter!WaitCancelled(c) PROVE SpacedInv'
  <2>1. started' \in [Limiter!Buckets -> [0 .. MaxTime -> Nat]]
    BY <1>3 DEF Limiter!WaitCancelled, SpacedInv, Limiter!TypeOK
  <2> QED BY <1>3, <2>1, LeaveKeeps DEF Limiter!WaitCancelled, Places
<1>4. CASE Limiter!Tick
  BY <1>4, TickKeeps
<1>5. CASE UNCHANGED Limiter!vars
  BY <1>5 DEF Limiter!vars, SpacedInv, Limiter!TypeOK, Limiter!Buckets, Waiting, Paid, Limiter!LimiterFor, Limiter!TurnsSpaced
<1> QED BY <1>1, <1>2, <1>3, <1>4, <1>5 DEF Limiter!Next

LEMMA InitSpaced ==
  ASSUME Assumptions, Limiter!Init
  PROVE  SpacedInv
<1>1. MaxTime \in Nat /\ 0 \in 0 .. MaxTime /\ Burst * Period \in Int
  BY Capacity DEF Assumptions, Limiter!BoundAssumption
<1>2. (CHOOSE p \in Providers : TRUE) \in Providers
  BY DEF Assumptions
<1>3. \A c \in Callers : caller[c].pc = "idle"
  BY DEF Limiter!Init
<1>4. caller \in [Callers -> CallerStates]
  BY <1>2 DEF Limiter!Init, CallerStates, Places
<1>5. Limiter!TypeOK
  BY <1>1, <1>3, <1>4 DEF Limiter!Init, Limiter!TypeOK, CallerStates, Places
<1> QED BY <1>3, <1>5 DEF SpacedInv, Waiting, Limiter!TurnsSpaced

(* Callers that wait at one bucket are let through a period apart, however *)
(* many reserve, are rejected, give up or come back meanwhile, and nobody  *)
(* waits for an instant gone by (Reserve, acquireRateLimit).               *)
THEOREM WaitsSpaced == Assumptions => (Limiter!Spec => [](Limiter!TypeOK /\ Limiter!TurnsSpaced))
<1> SUFFICES ASSUME Assumptions PROVE Limiter!Spec => [](Limiter!TypeOK /\ Limiter!TurnsSpaced)
  OBVIOUS
<1>1. Limiter!Init => SpacedInv
  BY InitSpaced
<1>2. SpacedInv /\ [Limiter!Next]_Limiter!vars => SpacedInv'
  BY StepKeeps
<1>3. SpacedInv => Limiter!TypeOK /\ Limiter!TurnsSpaced
  BY DEF SpacedInv
<1> QED BY <1>1, <1>2, <1>3, PTL DEF Limiter!Spec
----------------------------------------------------------------------------
(* The limit.                                                              *)

(* When the bucket is full again, if nothing else is taken.                *)
Full(b) == Paid(b) + Burst * Period

Held(b, from, to) == {c \in Callers : Waiting(c, b) /\ caller[c].due \in from .. to}
Started(b, from, to) == SumOf(started[b], from .. to)

(* The calls of a bucket made from an instant on, and those that wait for  *)
(* their turn up to another.                                               *)
Taken(b, from, to) == Started(b, from, MaxTime) + Cardinality(Held(b, from, to))

(* What was taken from an instant on is not given back before the bucket   *)
(* is full again, and fits into the interval.                              *)
Bounded(n, full, from, to) ==
  /\ from <= full => Period * n <= full - from
  /\ from > full => n = 0
  /\ from <= to => Period * n <= Burst * Period + (to - from)

LimitInv ==
  /\ SpacedInv
  /\ IsFiniteSet({c \in Callers : caller[c].pc = "waiting"})
  /\ \A b \in Limiter!Buckets : \A from, to \in Nat : now <= to => Bounded(Taken(b, from, to), Full(b), from, to)
  /\ \A b \in Limiter!Buckets : \A from, to \in Nat :
       from <= to /\ to < now => Period * Started(b, from, to) <= Burst * Period + (to - from)

(* The arithmetic of the bound.                                            *)
LEMMA BoundedStays ==
  ASSUME Limiter!LimitAssumption, NEW n \in Nat, NEW full \in Int, NEW later \in Int, full <= later,
         NEW from \in Nat, NEW to \in Nat, Bounded(n, full, from, to)
  PROVE  Bounded(n, later, from, to)
<1>1. Period \in Nat /\ Burst * Period \in Nat /\ Period * n \in Nat /\ (n = 0 => Period * n = 0)
  BY Capacity
<1> QED BY <1>1 DEF Bounded

LEMMA BoundedLess ==
  ASSUME Limiter!LimitAssumption, NEW n \in Nat, NEW full \in Int, NEW less \in Nat, less <= n,
         NEW from \in Nat, NEW to \in Nat, Bounded(n, full, from, to)
  PROVE  Bounded(less, full, from, to)
<1>1. Period \in Nat /\ Burst * Period \in Nat
  BY Capacity
<1>2. Period * less <= Period * n /\ Period * less \in Nat /\ Period * n \in Nat
  BY <1>1, ProductGrows
<1> QED BY <1>1, <1>2 DEF Bounded

LEMMA BoundedOneMore ==
  ASSUME Limiter!LimitAssumption, NEW n \in Nat, NEW full \in Int, NEW later \in Int, NEW at \in Nat,
         full + Period <= later, at + Period <= later, later <= at + Burst * Period,
         NEW from \in Nat, NEW to \in Nat, from <= at, at <= to, Bounded(n, full, from, to)
  PROVE  Bounded(n + 1, later, from, to)
<1>1. Period \in Nat /\ Burst * Period \in Nat /\ Period * n \in Nat
  BY Capacity
<1>2. Period * (n + 1) = Period * n + Period /\ (n = 0 => Period * n = 0)
  BY <1>1
<1>3. Period * n + Period <= later - from
  BY <1>1, <1>2 DEF Bounded
<1> QED BY <1>1, <1>2, <1>3 DEF Bounded

(* The counting.                                                           *)
LEMMA StartedNat ==
  ASSUME Limiter!TypeOK, MaxTime \in Nat, NEW b \in Limiter!Buckets, NEW from \in Nat, NEW to \in 0 .. MaxTime
  PROVE  /\ Started(b, from, to) \in Nat /\ Started(b, from, to) <= Started(b, from, MaxTime)
         /\ Started(b, from, MaxTime) \in Nat
<1>1. \A t \in from .. MaxTime : started[b][t] \in Nat
  BY DEF Limiter!TypeOK
<1>2. IsFiniteSet(from .. MaxTime) /\ IsFiniteSet(from .. to) /\ from .. to \in SUBSET (from .. MaxTime)
  BY FS_Interval
<1> QED BY <1>1, <1>2, SumNatural, SumOfMore DEF Started

LEMMA StartedMore ==
  ASSUME Limiter!TypeOK, MaxTime \in Nat, NEW b \in Limiter!Buckets, Limiter!StartCall(b), NEW x \in Limiter!Buckets, NEW from \in Nat
  PROVE  /\ Started(x, from, MaxTime)'
              = Started(x, from, MaxTime) + (IF x = b /\ from <= now THEN 1 ELSE 0)
         /\ \A to \in Nat : to < now => Started(x, from, to)' = Started(x, from, to)
<1>1. /\ started \in [Limiter!Buckets -> [0 .. MaxTime -> Nat]] /\ now \in 0 .. MaxTime
      /\ \A y \in Limiter!Buckets, t \in 0 .. MaxTime : started[y][t] \in Nat
  BY DEF Limiter!TypeOK
<1>2. \A y \in Limiter!Buckets, t \in 0 .. MaxTime :
        started'[y][t] = IF y = b /\ t = now THEN started[y][t] + 1 ELSE started[y][t]
  BY <1>1 DEF Limiter!StartCall
<1>3. \A to \in Nat : IsFiniteSet(from .. to)
  BY FS_Interval
<1>4. ASSUME NEW to \in Nat, to < now
      PROVE  Started(x, from, to)' = Started(x, from, to)
  <2>1. \A t \in from .. to : started'[x][t] = started[x][t]
    BY <1>1, <1>2, <1>4
  <2>2. SumOf(started'[x], from .. to) = SumOf(started[x], from .. to)
    BY <1>3, <2>1, SumSame
  <2> QED BY <2>2 DEF Started
<1>5. Started(x, from, MaxTime)' = Started(x, from, MaxTime) + (IF x = b /\ from <= now THEN 1 ELSE 0)
  <2> DEFINE S == from .. MaxTime
  <2>1. IsFiniteSet(S) /\ \A t \in S : started[x][t] \in Nat /\ t \in 0 .. MaxTime
    BY <1>1, <1>3
  <2>2. now \in S <=> from <= now
    BY <1>1
  <2> HIDE DEF S
  <2>3. CASE x = b
    <3>1. now \in S => started'[x][now] = started[x][now] + 1
      BY <1>1, <1>2, <2>3
    <3>2. \A t \in S \ {now} : started'[x][t] = started[x][t]
      BY <1>2, <2>1
    <3>3. SumOf(started'[x], S) = SumOf(started[x], S) + (IF now \in S THEN 1 ELSE 0)
      BY <2>1, <3>1, <3>2, SumOneMore
    <3> QED BY <2>2, <2>3, <3>3 DEF Started, S
  <2>4. CASE x # b
    <3>1. \A t \in S : started'[x][t] = started[x][t]
      BY <1>2, <2>1, <2>4
    <3>2. SumOf(started'[x], S) = SumOf(started[x], S) /\ SumOf(started[x], S) \in Nat
      BY <2>1, <3>1, SumSame, SumNatural
    <3> QED BY <2>4, <3>2 DEF Started, S
  <2> QED BY <2>3, <2>4
<1> QED BY <1>4, <1>5

(* Only one caller changes its place.                                      *)
LEMMA HeldChanges ==
  ASSUME IsFiniteSet({d \in Callers : caller[d].pc = "waiting"}), NEW c \in Callers,
         \A d \in Callers : d # c => caller'[d] = caller[d],
         NEW b, NEW from, NEW to
  PROVE  /\ Cardinality(Held(b, from, to)) \in Nat
         /\ c \notin Held(b, from, to) /\ c \notin Held(b, from, to)' =>
              Cardinality(Held(b, from, to))' = Cardinality(Held(b, from, to))
         /\ c \notin Held(b, from, to) /\ c \in Held(b, from, to)' =>
              Cardinality(Held(b, from, to))' = Cardinality(Held(b, from, to)) + 1
         /\ c \in Held(b, from, to) /\ c \notin Held(b, from, to)' =>
              Cardinality(Held(b, from, to))' = Cardinality(Held(b, from, to)) - 1
<1> DEFINE H == Held(b, from, to)
<1>1. IsFiniteSet(H)
  <2>1. H \in SUBSET {d \in Callers : caller[d].pc = "waiting"}
    BY DEF Held, Waiting
  <2> QED BY <2>1, FS_Subset
<1>2. \A d \in Callers \ {c} : d \in H' <=> d \in H
  BY DEF Held, Waiting, Limiter!LimiterFor
<1>3. H \in SUBSET Callers /\ H' \in SUBSET Callers
  BY DEF Held
<1> HIDE DEF H
<1>4. c \notin H /\ c \notin H' => H' = H
  BY <1>2, <1>3
<1>5. c \notin H /\ c \in H' => H' = H \cup {c}
  BY <1>2, <1>3
<1>6. c \in H /\ c \notin H' => H' = H \ {c}
  BY <1>2, <1>3
<1>7. Cardinality(H') = Cardinality(H)'
  OBVIOUS
<1> QED BY <1>1, <1>4, <1>5, <1>6, <1>7, FS_AddElement, FS_RemoveElement, FS_CardinalityType DEF H

LEMMA LimitTypes ==
  ASSUME Assumptions, LimitInv
  PROVE  /\ Limiter!TypeOK /\ MaxTime \in Nat /\ now \in 0 .. MaxTime /\ Limiter!LimitAssumption
         /\ IsFiniteSet({d \in Callers : caller[d].pc = "waiting"})
         /\ \A b \in Limiter!Buckets : Paid(b) \in Int /\ Full(b) \in Int
         /\ Burst * Period \in Nat /\ Period \in Nat
<1>1. Limiter!TypeOK /\ MaxTime \in Nat /\ IsFiniteSet({d \in Callers : caller[d].pc = "waiting"}) /\ Limiter!LimitAssumption
  BY DEF LimitInv, SpacedInv, Assumptions, Limiter!BoundAssumption
<1>2. Burst * Period \in Nat /\ Period \in Nat /\ now \in 0 .. MaxTime
  BY <1>1, Capacity DEF Limiter!TypeOK
<1>3. \A b \in Limiter!Buckets : Paid(b) \in Int /\ Full(b) \in Int
  BY <1>1, <1>2, RefillIs DEF Full
<1> QED BY <1>1, <1>2, <1>3

LEMMA TakenNat ==
  ASSUME Assumptions, LimitInv, NEW b \in Limiter!Buckets, NEW from \in Nat, NEW to \in Nat
  PROVE  /\ Taken(b, from, to) \in Nat /\ Started(b, from, MaxTime) \in Nat
         /\ Started(b, from, MaxTime) <= Taken(b, from, to)
         /\ Cardinality(Held(b, from, to)) \in Nat
<1>1. Started(b, from, MaxTime) \in Nat
  BY LimitTypes, StartedNat
<1>2. Cardinality(Held(b, from, to)) \in Nat
  <2>1. Held(b, from, to) \in SUBSET {d \in Callers : caller[d].pc = "waiting"}
    BY DEF Held, Waiting
  <2> QED BY <2>1, LimitTypes, FS_Subset, FS_CardinalityType
<1> QED BY <1>1, <1>2 DEF Taken

(* What was made of an interval that is over, or ends now, fits into it.   *)
LEMMA IntervalFits ==
  ASSUME Assumptions, LimitInv, NEW b \in Limiter!Buckets, NEW from \in Nat, NEW to \in Nat,
         from <= to, to <= now
  PROVE  Period * Started(b, from, to) <= Burst * Period + (to - from)
<1>1. CASE to < now
  BY <1>1 DEF LimitInv
<1>2. CASE to = now
  <2>1. to \in 0 .. MaxTime
    BY <1>2, LimitTypes
  <2>2. /\ Started(b, from, to) \in Nat /\ Taken(b, from, to) \in Nat
        /\ Started(b, from, to) <= Taken(b, from, to)
    <3>1. Started(b, from, to) \in Nat /\ Started(b, from, to) <= Started(b, from, MaxTime)
      BY <2>1, LimitTypes, StartedNat
    <3>2. /\ Taken(b, from, to) \in Nat /\ Started(b, from, MaxTime) \in Nat
          /\ Started(b, from, MaxTime) <= Taken(b, from, to)
      BY TakenNat
    <3> QED BY <3>1, <3>2
  <2>3. Period * Taken(b, from, to) <= Burst * Period + (to - from)
    BY <1>2 DEF LimitInv, Bounded
  <2>4. Period * Started(b, from, to) <= Period * Taken(b, from, to)
    BY <2>2, LimitTypes, ProductGrows
  <2>5. /\ Period * Started(b, from, to) \in Int /\ Period * Taken(b, from, to) \in Int
        /\ Burst * Period \in Int
    BY <2>2, LimitTypes
  <2> QED BY <2>3, <2>4, <2>5
<1> QED BY <1>1, <1>2, LimitTypes

(* A step of one caller at one bucket: what the caller holds or makes      *)
(* counts once, from the instant it is due.                                *)
LEMMA StillFinite ==
  ASSUME Assumptions, LimitInv, NEW c \in Callers, \A d \in Callers : d # c => caller'[d] = caller[d]
  PROVE  IsFiniteSet({d \in Callers : caller'[d].pc = "waiting"})
<1>1. IsFiniteSet({d \in Callers : caller[d].pc = "waiting"} \cup {c})
  BY LimitTypes, FS_AddElement
<1>2. {d \in Callers : caller'[d].pc = "waiting"} \in SUBSET ({d \in Callers : caller[d].pc = "waiting"} \cup {c})
  OBVIOUS
<1> QED BY <1>1, <1>2, FS_Subset

LEMMA AcquireLimits ==
  ASSUME Assumptions, LimitInv, NEW c \in Callers, NEW p \in Providers, Limiter!Acquire(c, p)
  PROVE  LimitInv'
<1> DEFINE b == Limiter!LimiterFor(p)
           wait == Limiter!WaitIn(b)
<1>1. Limiter!TypeOK /\ b \in Limiter!Buckets /\ now \in Nat /\ now' = now /\ Limiter!Reserve(b)
  BY LimiterIsBucket DEF LimitInv, SpacedInv, Limiter!Acquire, Limiter!TypeOK
<1>2. Period \in Nat /\ Period > 0 /\ Burst * Period \in Nat /\ Burst * Period >= Period
  BY Capacity DEF Assumptions
<1>3. /\ \A d \in Limiter!Buckets : d # b => tokens'[d] = tokens[d] /\ last'[d] = last[d]
      /\ Paid(b)' \in Int /\ wait \in Nat /\ Paid(b) \in Int
      /\ wait > 0 => now + wait = Paid(b)' /\ Paid(b)' = Paid(b) + Period
      /\ Paid(b)' >= Paid(b) + Period
      /\ Paid(b)' + Burst * Period >= now + Period
      /\ wait = 0 => Paid(b)' <= now
  BY <1>1, Reserved, RefillIs
<1>4. Full(b)' = Paid(b)' + Burst * Period /\ Full(b) = Paid(b) + Burst * Period
  BY DEF Full
<1>5. /\ Full(b) \in Int /\ Full(b)' \in Int /\ Full(b) + Period <= Full(b)'
      /\ now + Period <= Full(b)'
      /\ wait = 0 => Full(b)' <= now + Burst * Period
      /\ wait > 0 => (now + wait) + Period <= Full(b)' /\ Full(b)' <= (now + wait) + Burst * Period
  BY <1>1, <1>2, <1>3, <1>4
<1>6. \A x \in Limiter!Buckets : x # b => Full(x)' = Full(x)
  BY <1>3 DEF Full, Paid
<1>7. \E place \in Places, due \in Nat :
        /\ Limiter!Become(c, place, p, due) /\ due >= now /\ caller[c].pc # "waiting"
        /\ \/ place = "called" /\ due = now /\ wait = 0 /\ Limiter!StartCall(b)
           \/ place = "rejected" /\ UNCHANGED started
           \/ place = "waiting" /\ wait > 0 /\ due = now + wait /\ UNCHANGED started
  <2>1. CASE wait = 0 /\ Limiter!StartCall(b) /\ Limiter!Become(c, "called", p, now)
    BY <1>1, <2>1 DEF Places, Limiter!Acquire
  <2>2. CASE Limiter!Become(c, "rejected", p, now) /\ UNCHANGED started
    BY <1>1, <2>2 DEF Places, Limiter!Acquire
  <2>3. CASE wait > 0 /\ Limiter!Become(c, "waiting", p, now + wait) /\ UNCHANGED started
    <3>1. now + wait \in Nat /\ now + wait >= now
      BY <1>1, <1>3
    <3> QED BY <2>3, <3>1 DEF Places, Limiter!Acquire
  <2> QED BY <2>1, <2>2, <2>3 DEF Limiter!Acquire
<1>8. PICK place \in Places, due \in Nat :
        /\ Limiter!Become(c, place, p, due) /\ due >= now /\ caller[c].pc # "waiting"
        /\ \/ place = "called" /\ due = now /\ wait = 0 /\ Limiter!StartCall(b)
           \/ place = "rejected" /\ UNCHANGED started
           \/ place = "waiting" /\ wait > 0 /\ due = now + wait /\ UNCHANGED started
  BY <1>7
<1>9. /\ caller'[c].pc = place /\ caller'[c].provider = p /\ caller'[c].due = due
      /\ \A d \in Callers : d # c => caller'[d] = caller[d]
  BY <1>1, <1>8, BecomeFacts
<1>10. ASSUME NEW x \in Limiter!Buckets, NEW from \in Nat, NEW to \in Nat, now <= to
       PROVE  \/ x = b /\ from <= due /\ due <= to /\ place # "rejected"
                 /\ Taken(x, from, to)' = Taken(x, from, to) + 1
              \/ Taken(x, from, to)' = Taken(x, from, to)
  <2>1. /\ Started(x, from, MaxTime) \in Nat /\ Cardinality(Held(x, from, to)) \in Nat
        /\ Taken(x, from, to) = Started(x, from, MaxTime) + Cardinality(Held(x, from, to))
        /\ Taken(x, from, to)' = Started(x, from, MaxTime)' + Cardinality(Held(x, from, to))'
    BY TakenNat DEF Taken
  <2>2. c \notin Held(x, from, to)
    BY <1>8 DEF Held, Waiting
  <2>3. c \in Held(x, from, to)' <=> place = "waiting" /\ b = x /\ due \in from .. to
    BY <1>9 DEF Held, Waiting, Limiter!LimiterFor
  <2>4. UNCHANGED started => Started(x, from, MaxTime)' = Started(x, from, MaxTime)
    BY DEF Started
  <2>5. /\ c \notin Held(x, from, to)' =>
              Cardinality(Held(x, from, to))' = Cardinality(Held(x, from, to))
        /\ c \in Held(x, from, to)' =>
              Cardinality(Held(x, from, to))' = Cardinality(Held(x, from, to)) + 1
    BY <1>9, <2>2, LimitTypes, HeldChanges
  <2>6. Limiter!StartCall(b) => Started(x, from, MaxTime)'
                           = Started(x, from, MaxTime) + (IF x = b /\ from <= now THEN 1 ELSE 0)
    BY <1>1, LimitTypes, StartedMore
  <2> HIDE DEF b, wait
  <2>7. CASE place = "called"
    BY <1>8, <1>10, <2>1, <2>3, <2>5, <2>6, <2>7
  <2>8. CASE place = "rejected"
    BY <1>8, <2>1, <2>3, <2>4, <2>5, <2>8
  <2>9. CASE place = "waiting"
    <3>1. UNCHANGED started
      BY <1>8, <2>9
    <3>2. CASE x = b /\ due \in from .. to
      BY <2>1, <2>3, <2>4, <2>5, <2>9, <3>1, <3>2
    <3>3. CASE ~(x = b /\ due \in from .. to)
      BY <2>1, <2>3, <2>4, <2>5, <2>9, <3>1, <3>3
    <3> QED BY <3>2, <3>3
  <2> QED BY <1>8, <2>7, <2>8, <2>9
<1>11. place # "rejected" => due + Period <= Full(b)' /\ Full(b)' <= due + Burst * Period
  BY <1>5, <1>8
<1>12. ASSUME NEW x \in Limiter!Buckets, NEW from \in Nat, NEW to \in Nat, now' <= to
       PROVE  Bounded(Taken(x, from, to), Full(x), from, to)'
  <2>1. Bounded(Taken(x, from, to), Full(x), from, to) /\ Taken(x, from, to) \in Nat
    BY <1>1, <1>12, TakenNat DEF LimitInv
  <2>2. Full(x) \in Int /\ Full(x)' \in Int /\ Full(x) <= Full(x)'
    BY <1>2, <1>5, <1>6, LimitTypes
  <2>3. Bounded(Taken(x, from, to), Full(x)', from, to)
    BY <2>1, <2>2, LimitTypes, BoundedStays
  <2>4. CASE Taken(x, from, to)' = Taken(x, from, to)
    BY <2>3, <2>4 DEF Bounded
  <2>5. CASE x = b /\ from <= due /\ due <= to /\ place # "rejected"
             /\ Taken(x, from, to)' = Taken(x, from, to) + 1
    <3>1. Bounded(Taken(x, from, to) + 1, Full(x)', from, to)
      BY <1>5, <1>11, <2>1, <2>2, <2>5, LimitTypes, BoundedOneMore
    <3> QED BY <2>5, <3>1 DEF Bounded
  <2> QED BY <1>1, <1>10, <1>12, <2>4, <2>5
<1>13. ASSUME NEW x \in Limiter!Buckets, NEW from \in Nat, NEW to \in Nat, from <= to, to < now'
       PROVE  Period * Started(x, from, to)' <= Burst * Period + (to - from)
  <2>1. Started(x, from, to)' = Started(x, from, to)
    <3>1. UNCHANGED started => Started(x, from, to)' = Started(x, from, to)
      BY DEF Started
    <3>2. Limiter!StartCall(b) => Started(x, from, to)' = Started(x, from, to)
      BY <1>1, <1>13, LimitTypes, StartedMore
    <3> QED BY <1>8, <3>1, <3>2
  <2> QED BY <1>1, <1>13, <2>1 DEF LimitInv
<1>14. SpacedInv'
  BY AcquireKeeps DEF LimitInv
<1>15. IsFiniteSet({d \in Callers : caller'[d].pc = "waiting"})
  BY <1>9, StillFinite
<1> QED BY <1>12, <1>13, <1>14, <1>15 DEF LimitInv

LEMMA WaitEndsLimits ==
  ASSUME Assumptions, LimitInv, NEW c \in Callers, Limiter!WaitEnds(c)
  PROVE  LimitInv'
<1> DEFINE b == Limiter!LimiterFor(caller[c].provider)
<1>1. /\ Limiter!TypeOK /\ caller[c].provider \in Providers /\ b \in Limiter!Buckets /\ now \in Nat
      /\ caller[c].pc = "waiting" /\ caller[c].due = now /\ Limiter!StartCall(b)
      /\ Limiter!Become(c, "called", caller[c].provider, now) /\ UNCHANGED <<now, tokens, last>>
  BY LimitTypes, LimiterIsBucket, CallerFacts DEF CallerStates, Limiter!WaitEnds
<1>2. /\ caller'[c].pc = "called"
      /\ \A d \in Callers : d # c => caller'[d] = caller[d]
  BY <1>1, BecomeFacts DEF Places
<1>3. \A x \in Limiter!Buckets : Full(x)' = Full(x)
  BY <1>1 DEF Full, Paid
<1>4. ASSUME NEW x \in Limiter!Buckets, NEW from \in Nat, NEW to \in Nat, now <= to
      PROVE  Taken(x, from, to)' = Taken(x, from, to)
  <2>1. /\ Started(x, from, MaxTime) \in Nat /\ Cardinality(Held(x, from, to)) \in Nat
        /\ Taken(x, from, to) = Started(x, from, MaxTime) + Cardinality(Held(x, from, to))
        /\ Taken(x, from, to)' = Started(x, from, MaxTime)' + Cardinality(Held(x, from, to))'
    BY TakenNat DEF Taken
  <2>2. c \in Held(x, from, to) <=> x = b /\ from <= now
    BY <1>1, <1>4 DEF Held, Waiting
  <2>3. c \notin Held(x, from, to)'
    BY <1>2 DEF Held, Waiting
  <2>4. /\ c \notin Held(x, from, to) =>
              Cardinality(Held(x, from, to))' = Cardinality(Held(x, from, to))
        /\ c \in Held(x, from, to) =>
              Cardinality(Held(x, from, to))' = Cardinality(Held(x, from, to)) - 1
    BY <1>2, <2>3, LimitTypes, HeldChanges
  <2>5. Started(x, from, MaxTime)'
          = Started(x, from, MaxTime) + (IF x = b /\ from <= now THEN 1 ELSE 0)
    BY <1>1, LimitTypes, StartedMore
  <2> HIDE DEF b
  <2> QED BY <2>1, <2>2, <2>4, <2>5
<1>5. ASSUME NEW x \in Limiter!Buckets, NEW from \in Nat, NEW to \in Nat, now' <= to
      PROVE  Bounded(Taken(x, from, to), Full(x), from, to)'
  <2>1. Bounded(Taken(x, from, to), Full(x), from, to)
    BY <1>1, <1>5 DEF LimitInv
  <2> QED BY <1>1, <1>3, <1>4, <1>5, <2>1 DEF Bounded
<1>6. ASSUME NEW x \in Limiter!Buckets, NEW from \in Nat, NEW to \in Nat, from <= to, to < now'
      PROVE  Period * Started(x, from, to)' <= Burst * Period + (to - from)
  <2>1. Started(x, from, to)' = Started(x, from, to)
    BY <1>1, <1>6, LimitTypes, StartedMore
  <2> QED BY <1>1, <1>6, <2>1 DEF LimitInv
<1>7. SpacedInv'
  BY StepKeeps DEF LimitInv, Limiter!Next
<1>8. IsFiniteSet({d \in Callers : caller'[d].pc = "waiting"})
  BY <1>2, StillFinite
<1> QED BY <1>5, <1>6, <1>7, <1>8 DEF LimitInv

LEMMA WaitCancelledLimits ==
  ASSUME Assumptions, LimitInv, NEW c \in Callers, Limiter!WaitCancelled(c)
  PROVE  LimitInv'
<1>1. /\ Limiter!TypeOK /\ caller[c].provider \in Providers /\ now \in Nat
      /\ Limiter!Become(c, "cancelled", caller[c].provider, now) /\ UNCHANGED <<now, tokens, last, started>>
  BY LimitTypes, CallerFacts DEF CallerStates, Limiter!WaitCancelled
<1>2. /\ caller'[c].pc = "cancelled"
      /\ \A d \in Callers : d # c => caller'[d] = caller[d]
  BY <1>1, BecomeFacts DEF Places
<1>3. ASSUME NEW x \in Limiter!Buckets, NEW from \in Nat, NEW to \in Nat
      PROVE  /\ Full(x)' = Full(x) /\ Started(x, from, to)' = Started(x, from, to)
             /\ Taken(x, from, to) \in Nat /\ Taken(x, from, to)' \in Nat
             /\ Taken(x, from, to)' <= Taken(x, from, to)
  <2>1. Full(x)' = Full(x) /\ \A k \in Nat : Started(x, from, k)' = Started(x, from, k)
    BY <1>1 DEF Full, Paid, Started
  <2>2. /\ Started(x, from, MaxTime) \in Nat /\ Cardinality(Held(x, from, to)) \in Nat
        /\ Taken(x, from, to) = Started(x, from, MaxTime) + Cardinality(Held(x, from, to))
        /\ Taken(x, from, to)' = Started(x, from, MaxTime)' + Cardinality(Held(x, from, to))'
    BY TakenNat DEF Taken
  <2>3. c \notin Held(x, from, to)'
    BY <1>2 DEF Held, Waiting
  <2>4. /\ c \notin Held(x, from, to) =>
              Cardinality(Held(x, from, to))' = Cardinality(Held(x, from, to))
        /\ c \in Held(x, from, to) =>
              Cardinality(Held(x, from, to))' = Cardinality(Held(x, from, to)) - 1
    BY <1>2, <2>3, LimitTypes, HeldChanges
  <2>5. c \in Held(x, from, to) => Cardinality(Held(x, from, to)) > 0
    <3>1. IsFiniteSet(Held(x, from, to))
      <4>1. Held(x, from, to) \in SUBSET {d \in Callers : caller[d].pc = "waiting"}
        BY DEF Held, Waiting
      <4> QED BY <4>1, LimitTypes, FS_Subset
    <3> QED BY <2>2, <3>1, FS_EmptySet
  <2> QED BY <2>1, <2>2, <2>4, <2>5, LimitTypes
<1>4. ASSUME NEW x \in Limiter!Buckets, NEW from \in Nat, NEW to \in Nat, now' <= to
      PROVE  Bounded(Taken(x, from, to), Full(x), from, to)'
  <2>1. Bounded(Taken(x, from, to), Full(x), from, to)
    BY <1>1, <1>4 DEF LimitInv
  <2>2. Bounded(Taken(x, from, to)', Full(x), from, to)
    BY <1>3, <2>1, LimitTypes, BoundedLess
  <2> QED BY <1>3, <2>2 DEF Bounded
<1>5. ASSUME NEW x \in Limiter!Buckets, NEW from \in Nat, NEW to \in Nat, from <= to, to < now'
      PROVE  Period * Started(x, from, to)' <= Burst * Period + (to - from)
  BY <1>1, <1>3, <1>5 DEF LimitInv
<1>6. SpacedInv'
  BY StepKeeps DEF LimitInv, Limiter!Next
<1>7. IsFiniteSet({d \in Callers : caller'[d].pc = "waiting"})
  BY <1>2, StillFinite
<1> QED BY <1>4, <1>5, <1>6, <1>7 DEF LimitInv

LEMMA TickLimits ==
  ASSUME Assumptions, LimitInv, Limiter!Tick
  PROVE  LimitInv'
<1>1. now' = now + 1 /\ UNCHANGED <<tokens, last, caller, started>> /\ now \in Nat
  BY LimitTypes DEF Limiter!Tick
<1>2. ASSUME NEW x \in Limiter!Buckets, NEW from \in Nat, NEW to \in Nat
      PROVE  /\ Full(x)' = Full(x) /\ Taken(x, from, to)' = Taken(x, from, to)
             /\ Started(x, from, to)' = Started(x, from, to)
  BY <1>1 DEF Full, Paid, Taken, Started, Held, Waiting, Limiter!LimiterFor
<1>3. ASSUME NEW x \in Limiter!Buckets, NEW from \in Nat, NEW to \in Nat, now' <= to
      PROVE  Bounded(Taken(x, from, to), Full(x), from, to)'
  <2>1. Bounded(Taken(x, from, to), Full(x), from, to)
    BY <1>1, <1>3 DEF LimitInv
  <2> QED BY <1>2, <2>1 DEF Bounded
<1>4. ASSUME NEW x \in Limiter!Buckets, NEW from \in Nat, NEW to \in Nat, from <= to, to < now'
      PROVE  Period * Started(x, from, to)' <= Burst * Period + (to - from)
  <2>1. Period * Started(x, from, to) <= Burst * Period + (to - from)
    BY <1>1, <1>4, IntervalFits
  <2> QED BY <1>2, <2>1
<1>5. SpacedInv'
  BY TickKeeps DEF LimitInv
<1>6. IsFiniteSet({d \in Callers : caller'[d].pc = "waiting"})
  BY <1>1, LimitTypes
<1> QED BY <1>3, <1>4, <1>5, <1>6 DEF LimitInv

LEMMA StepLimits ==
  ASSUME Assumptions, LimitInv, [Limiter!Next]_Limiter!vars
  PROVE  LimitInv'
<1>1. CASE UNCHANGED Limiter!vars
  <2>1. SpacedInv'
    BY StepKeeps DEF LimitInv
  <2> QED BY <1>1, <2>1 DEF Limiter!vars, LimitInv, Taken, Started, Held, Full, Paid, Waiting, Limiter!LimiterFor, Bounded
<1> QED BY <1>1, AcquireLimits, WaitEndsLimits, WaitCancelledLimits, TickLimits DEF Limiter!Next

LEMMA InitLimits ==
  ASSUME Assumptions, Limiter!Init
  PROVE  LimitInv
<1>1. SpacedInv /\ MaxTime \in Nat /\ Burst * Period \in Nat
  BY InitSpaced, Capacity DEF Assumptions, Limiter!BoundAssumption
<1>2. {c \in Callers : caller[c].pc = "waiting"} = {}
  BY DEF Limiter!Init
<1>3. IsFiniteSet({c \in Callers : caller[c].pc = "waiting"})
  BY <1>2, FS_EmptySet
<1>4. ASSUME NEW b \in Limiter!Buckets, NEW from \in Nat, NEW to \in Nat
      PROVE  Taken(b, from, to) = 0
  <2>1. Held(b, from, to) = {}
    BY <1>2 DEF Held, Waiting
  <2>2. \A t \in from .. MaxTime : started[b][t] = 0
    BY DEF Limiter!Init
  <2>3. IsFiniteSet(from .. MaxTime)
    BY <1>1, FS_Interval
  <2>4. SumOf(started[b], from .. MaxTime) = 0
    BY <2>2, <2>3, SumOfNothing
  <2> QED BY <2>1, <2>4, FS_EmptySet DEF Taken, Started
<1>5. now = 0 /\ \A b \in Limiter!Buckets : Full(b) = 0
  BY <1>1 DEF Limiter!Init, Full, Paid
<1>6. Period * 0 = 0
  BY Capacity DEF Assumptions
<1>7. ASSUME NEW b \in Limiter!Buckets, NEW from \in Nat, NEW to \in Nat
      PROVE  Bounded(Taken(b, from, to), Full(b), from, to)
  BY <1>1, <1>4, <1>5, <1>6 DEF Bounded
<1> QED BY <1>1, <1>3, <1>5, <1>7 DEF LimitInv

LEMMA LimitHolds ==
  ASSUME Assumptions, LimitInv
  PROVE  Limiter!LimitRespected
<1> SUFFICES ASSUME NEW b \in Limiter!Buckets, NEW from \in 0 .. now, NEW to \in from .. now
             PROVE  Started(b, from, to) <= Burst + (to - from) \div Period
  BY DEF Limiter!LimitRespected, Started, SumOf,
    Limiter!MapThenSumSet, Limiter!MapThenFoldSet, MapThenSumSet, MapThenFoldSet
<1>1. from \in Nat /\ to \in Nat /\ from <= to /\ to <= now /\ to \in 0 .. MaxTime
  BY LimitTypes
<1>2. Period * Started(b, from, to) <= Burst * Period + (to - from)
  BY <1>1, IntervalFits
<1>3. Started(b, from, to) \in Nat
  BY <1>1, LimitTypes, StartedNat
<1>4. to - from \in Nat /\ Period \in Nat \ {0} /\ Burst \in Nat
  BY <1>1, LimitTypes DEF Limiter!LimitAssumption
<1> QED BY <1>2, <1>3, <1>4, FitsQuotient

(* Whatever the burst, the period and the ceiling of the wait, for any     *)
(* callers and providers: in every interval the calls made through a       *)
(* bucket are at most a burst and what the rate allows for its length,     *)
(* however many waits, rejections and cancellations lie in it              *)
(* (ratelimit.Bucket, acquireRateLimit; FR-RL-001, FR-RL-003).             *)
THEOREM LimitKept == Assumptions => (Limiter!Spec => []Limiter!LimitRespected)
<1> SUFFICES ASSUME Assumptions PROVE Limiter!Spec => []Limiter!LimitRespected
  OBVIOUS
<1>1. Limiter!Init => LimitInv
  BY InitLimits
<1>2. LimitInv /\ [Limiter!Next]_Limiter!vars => LimitInv'
  BY StepLimits
<1>3. LimitInv => Limiter!LimitRespected
  BY LimitHolds
<1> QED BY <1>1, <1>2, <1>3, PTL DEF Limiter!Spec
----------------------------------------------------------------------------
(* The delays of a call.                                                   *)

(* What a delay grows to. *)
Grown(d) ==
  IF d >= Call!Ceiling THEN d ELSE IF d > Call!Ceiling \div 2 THEN Call!Ceiling ELSE Call!Wrap(2 * d)

Grows == [d \in 1 .. Call!Ceiling |-> Grown(d)]
Delays(n, d) == d = [i \in 0 .. n |-> IF i = 0 THEN Call!Base ELSE Grown(d[i - 1])]

LEMMA PolicyIs ==
  ASSUME Call!CallAssumption
  PROVE  /\ Call!Attempts \in Nat \ {0} /\ MaxDuration \in Nat
         /\ Call!Ceiling \in 1 .. MaxDuration /\ Call!Base \in 1 .. Call!Ceiling
  BY DEF Call!CallAssumption, Call!Attempts, Call!Ceiling, Call!Base

(* Below the ceiling nothing overflows.                                    *)
LEMMA GrownDoubles ==
  ASSUME Call!CallAssumption, NEW d \in 1 .. Call!Ceiling
  PROVE  /\ Grown(d) = IF 2 * d > Call!Ceiling THEN Call!Ceiling ELSE 2 * d
         /\ Grown(d) \in 1 .. Call!Ceiling
<1>1. MaxDuration \in Nat /\ Call!Ceiling \in 1 .. MaxDuration
  BY PolicyIs
<1> DEFINE half == Call!Ceiling \div 2
<1>2. half \in Nat /\ 2 * half <= Call!Ceiling /\ Call!Ceiling < 2 * half + 2
  BY <1>1
<1> HIDE DEF half
<1>3. CASE d >= Call!Ceiling
  BY <1>1, <1>3 DEF Grown
<1>4. CASE d < Call!Ceiling /\ d > half
  <2>1. Grown(d) = Call!Ceiling
    BY <1>1, <1>4 DEF Grown, half
  <2> QED BY <1>1, <1>2, <1>4, <2>1
<1>5. CASE d < Call!Ceiling /\ d <= half
  <2>1. Grown(d) = Call!Wrap(2 * d)
    BY <1>1, <1>2, <1>5 DEF Grown, half
  <2>2. 2 * d <= Call!Ceiling /\ 2 * d + MaxDuration + 1 \in Nat /\ 2 * MaxDuration + 2 \in Nat
        /\ 2 * d + MaxDuration + 1 < 2 * MaxDuration + 2
    BY <1>1, <1>2, <1>5
  <2>3. (2 * d + MaxDuration + 1) % (2 * MaxDuration + 2) = 2 * d + MaxDuration + 1
    BY <2>2, SmallStays
  <2>4. Call!Wrap(2 * d) = 2 * d
    BY <1>1, <2>3 DEF Call!Wrap
  <2> QED BY <1>1, <2>1, <2>2, <2>4
<1> QED BY <1>1, <1>2, <1>3, <1>4, <1>5

LEMMA DelayForIs ==
  ASSUME NEW n \in Nat
  PROVE  Call!DelayFor(n) = (CHOOSE d : Delays(n - 2, d))[n - 2]
  BY DEF Call!DelayFor, Delays, Grown

LEMMA DelayIterates ==
  ASSUME Call!CallAssumption, NEW n \in Nat, n >= 2
  PROVE  \E f : Iterates(f, n - 2, 1 .. Call!Ceiling, Call!Base, Grows) /\ Call!DelayFor(n) = f[n - 2]
<1> DEFINE k == n - 2
<1>1. k \in Nat
  OBVIOUS
<1> HIDE DEF k
<1>2. Grows \in [1 .. Call!Ceiling -> 1 .. Call!Ceiling] /\ Call!Base \in 1 .. Call!Ceiling
  BY GrownDoubles, PolicyIs DEF Grows
<1>3. PICK f : Iterates(f, k, 1 .. Call!Ceiling, Call!Base, Grows)
  BY <1>1, <1>2, IterationExists
<1>4. f \in [0 .. k -> 1 .. Call!Ceiling] /\ f[0] = Call!Base /\ \A i \in 1 .. k : f[i] = Grows[f[i - 1]]
  BY <1>3 DEF Iterates
<1>5. \A i \in 1 .. k : f[i] = Grown(f[i - 1])
  <2> SUFFICES ASSUME NEW i \in 1 .. k PROVE f[i] = Grown(f[i - 1])
    OBVIOUS
  <2>1. f[i - 1] \in 1 .. Call!Ceiling
    BY <1>1, <1>4
  <2> QED BY <1>4, <2>1 DEF Grows
<1>6. Delays(k, f)
  BY <1>1, <1>4, <1>5 DEF Delays
<1> DEFINE d == CHOOSE g : Delays(k, g)
<1>7. Delays(k, d)
  BY <1>6
<1> HIDE DEF d
<1>8. d[0] = Call!Base /\ \A i \in 1 .. k : d[i] = Grown(d[i - 1])
  BY <1>1, <1>7 DEF Delays
<1> DEFINE T == {i \in Nat : i <= k => f[i] = d[i]}
<1>9. 0 \in T
  BY <1>4, <1>8
<1>10. ASSUME NEW i \in T
       PROVE  i + 1 \in T
  <2> SUFFICES ASSUME i + 1 <= k PROVE f[i + 1] = d[i + 1]
    OBVIOUS
  <2>1. i \in Nat /\ f[i] = d[i] /\ i + 1 \in 1 .. k /\ (i + 1) - 1 = i
    BY <1>1
  <2> QED BY <1>5, <1>8, <2>1
<1>11. T = Nat
  <2>1. T \in SUBSET Nat
    OBVIOUS
  <2> HIDE DEF T
  <2> QED BY <1>9, <1>10, <2>1, SetInduction
<1>12. f[k] = d[k]
  BY <1>1, <1>11
<1>13. Call!DelayFor(n) = d[k]
  BY DelayForIs DEF d, k
<1> QED BY <1>3, <1>12, <1>13 DEF k

(* Each delay is the double of the one before, up to the ceiling.          *)
LEMMA DelayDoubles ==
  ASSUME Call!CallAssumption, NEW n \in Nat, n >= 2
  PROVE  /\ Call!DelayFor(n) \in 1 .. Call!Ceiling
         /\ Call!DelayFor(2) = Call!Base
         /\ Call!DelayFor(n + 1) = IF 2 * Call!DelayFor(n) > Call!Ceiling THEN Call!Ceiling ELSE 2 * Call!DelayFor(n)
<1> DEFINE k == n - 2
           l == n - 1
<1>4. /\ k \in Nat /\ l \in Nat /\ k = l - 1 /\ n - 2 = k /\ l \in 1 .. l
      /\ n + 1 \in Nat /\ n + 1 >= 2 /\ (n + 1) - 2 = l
  OBVIOUS
<1> HIDE DEF k, l
<1>1. PICK f : Iterates(f, k, 1 .. Call!Ceiling, Call!Base, Grows) /\ Call!DelayFor(n) = f[k]
  BY <1>4, DelayIterates
<1>2. PICK g : Iterates(g, l, 1 .. Call!Ceiling, Call!Base, Grows) /\ Call!DelayFor(n + 1) = g[l]
  <2> DEFINE m == n + 1
  <2>1. m \in Nat /\ m >= 2 /\ m - 2 = l /\ m = n + 1
    BY <1>4
  <2> HIDE DEF m
  <2> QED BY <2>1, DelayIterates
<1>3. PICK h : Iterates(h, 0, 1 .. Call!Ceiling, Call!Base, Grows) /\ Call!DelayFor(2) = h[0]
  <2>1. 2 \in Nat /\ 2 >= 2 /\ 2 - 2 = 0
    OBVIOUS
  <2> QED BY <2>1, DelayIterates
<1>5. f[k] = g[k]
  <2>1. \A i \in Nat : i <= k /\ i <= l => f[i] = g[i]
    BY <1>1, <1>2, <1>4, IterationUnique
  <2> QED BY <1>4, <2>1
<1>6. g[l] = Grows[g[k]] /\ f[k] \in 1 .. Call!Ceiling /\ h[0] = Call!Base
  <2>1. \A i \in 1 .. l : g[i] = Grows[g[i - 1]]
    BY <1>2 DEF Iterates
  <2>2. f \in [0 .. k -> 1 .. Call!Ceiling] /\ h[0] = Call!Base
    BY <1>1, <1>3 DEF Iterates
  <2> QED BY <1>4, <2>1, <2>2
<1>7. g[l] = Grown(f[k])
  BY <1>5, <1>6 DEF Grows
<1> QED BY <1>1, <1>2, <1>3, <1>6, <1>7, GrownDoubles
----------------------------------------------------------------------------
(* The attempts.                                                           *)

Repeatable == {"408", "429", "500", "504", "reset", "dial_timeout"}

(* What is behind an attempt, a wait or a stream was repeatable, and       *)
(* there are as many failures and waits as attempts before it.             *)
CallInv ==
  /\ pc \in {"attempt", "wait", "stream", "done", "failed"}
  /\ attempt \in 1 .. Call!Attempts /\ fallback \in 0 .. Fallbacks
  /\ ended \in {None, "canceled", "deadline"}
  /\ faults \in Seq(Faults \cup {"context"}) /\ waits \in Seq(1 .. Call!Ceiling)
  /\ Len(faults) = IF pc = "wait" THEN attempt ELSE IF pc = "failed" THEN Len(faults) ELSE attempt - 1
  /\ Len(faults) <= Call!Attempts
  /\ pc = "wait" => attempt < Call!Attempts
  /\ \A i \in 1 .. Len(faults) : i < Len(faults) \/ pc # "failed" => faults[i] \in Repeatable
  /\ pc # "failed" => Len(waits) = Len(faults)
  /\ \A i \in 1 .. Len(waits) : waits[i] = Call!DelayFor(i + 1)
  /\ Call!GivesUpForCause

LEMMA RetryableIs ==
  ASSUME Call!CallAssumption, NEW f \in Faults \cup {"context"}
  PROVE  /\ Call!Retryable(f) => f \in Repeatable
         /\ ~Call!Retryable(f) => f \in {"context", "client_timeout", "400", "credential"}
  BY DEF Call!CallAssumption, Call!Statuses, Call!Transport, Call!Retryable, Call!Code, Repeatable

LEMMA CallStarts ==
  ASSUME Call!CallAssumption, Call!CallInit
  PROVE  CallInv
<1>1. Call!Attempts \in Nat \ {0} /\ Fallbacks \in Nat
  BY PolicyIs DEF Call!CallAssumption
<1>2. Len(faults) = 0 /\ Len(waits) = 0 /\ faults \in Seq(Faults \cup {"context"}) /\ waits \in Seq(1 .. Call!Ceiling)
  BY DEF Call!CallInit
<1> QED BY <1>1, <1>2 DEF Call!CallInit, CallInv, Call!GivesUpForCause

LEMMA RefusedKeeps ==
  ASSUME Call!CallAssumption, CallInv, Call!Refused
  PROVE  CallInv'
<1>1. PICK f \in Call!Fault :
        /\ faults' = Append(faults, f) /\ code' = Call!Code(f)
        /\ IF Call!Retryable(f) /\ attempt < Call!Attempts
           THEN pc' = "wait" /\ waits' = Append(waits, Call!DelayFor(attempt + 1))
           ELSE pc' = "failed" /\ UNCHANGED waits
  BY DEF Call!Refused
<1>2. /\ pc = "attempt" /\ UNCHANGED <<attempt, ended, fallback>>
      /\ attempt \in Nat /\ attempt >= 1 /\ Call!Attempts \in Nat /\ attempt <= Call!Attempts
  BY PolicyIs DEF Call!Refused, CallInv
<1>3. /\ faults \in Seq(Faults \cup {"context"}) /\ waits \in Seq(1 .. Call!Ceiling)
      /\ Len(faults) = attempt - 1 /\ Len(waits) = attempt - 1
      /\ \A i \in 1 .. Len(faults) : faults[i] \in Repeatable
      /\ \A i \in 1 .. Len(waits) : waits[i] = Call!DelayFor(i + 1)
  BY <1>2 DEF CallInv
<1>4. f \in Faults \cup {"context"} /\ (ended = None => f \in Faults)
  BY DEF Call!Fault
<1>5. /\ faults' \in Seq(Faults \cup {"context"}) /\ Len(faults') = attempt
      /\ faults'[attempt] = f /\ \A i \in 1 .. attempt - 1 : faults'[i] \in Repeatable
  BY <1>1, <1>2, <1>3, <1>4
<1>6. CASE Call!Retryable(f) /\ attempt < Call!Attempts
  <2>1. pc' = "wait" /\ waits' = Append(waits, Call!DelayFor(attempt + 1))
    BY <1>1, <1>6
  <2>2. Call!DelayFor(attempt + 1) \in 1 .. Call!Ceiling
    BY <1>2, DelayDoubles
  <2>3. waits' \in Seq(1 .. Call!Ceiling) /\ Len(waits') = attempt
        /\ \A i \in 1 .. Len(waits') : waits'[i] = Call!DelayFor(i + 1)
    BY <1>2, <1>3, <2>1, <2>2
  <2>4. \A i \in 1 .. Len(faults') : faults'[i] \in Repeatable
    BY <1>2, <1>4, <1>5, <1>6, RetryableIs
  <2> QED BY <1>2, <1>5, <1>6, <2>1, <2>3, <2>4 DEF CallInv, Call!GivesUpForCause
<1>7. CASE ~(Call!Retryable(f) /\ attempt < Call!Attempts)
  <2>1. pc' = "failed" /\ waits' = waits
    BY <1>1, <1>7
  <2>2. \A i \in 1 .. Len(faults') : i < Len(faults') => faults'[i] \in Repeatable
    BY <1>2, <1>5
  <2>3. Call!GivesUpForCause'
    <3>1. CASE attempt = Call!Attempts
      BY <1>5, <3>1 DEF Call!GivesUpForCause, Call!Exhausted
    <3>2. CASE ~Call!Retryable(f)
      <4>1. ended = None => f \in {"client_timeout", "400", "credential"}
        BY <1>4, <3>2, RetryableIs DEF Call!CallAssumption, Call!Statuses, Call!Transport
      <4>2. faults' # <<>> /\ faults'[Len(faults')] = f
        BY <1>2, <1>5
      <4> QED BY <1>2, <4>1, <4>2 DEF Call!GivesUpForCause, Call!Refusal
    <3> QED BY <1>2, <1>7, <3>1, <3>2
  <2> QED BY <1>2, <1>3, <1>5, <2>1, <2>2, <2>3 DEF CallInv
<1> QED BY <1>6, <1>7

LEMMA CallStep ==
  ASSUME Call!CallAssumption, CallInv, [Call!CallNext]_Call!callVars
  PROVE  CallInv'
<1>0. /\ attempt \in Nat /\ Call!Attempts \in Nat \ {0} /\ Fallbacks \in Nat /\ fallback \in Nat
      /\ Len(faults) \in Nat /\ Len(waits) \in Nat
  BY PolicyIs DEF CallInv, Call!CallAssumption
<1>1. CASE Call!Opened
  BY <1>0, <1>1 DEF Call!Opened, CallInv, Call!GivesUpForCause
<1>2. CASE Call!Refused
  BY <1>2, RefusedKeeps
<1>3. CASE Call!Wake
  BY <1>0, <1>3 DEF Call!Wake, CallInv, Call!GivesUpForCause
<1>4. CASE Call!ContextEnds
  <2>1. pc # "failed" /\ pc' = pc
    BY <1>4 DEF Call!ContextEnds
  <2> QED BY <1>0, <1>4, <2>1 DEF Call!ContextEnds, CallInv, Call!GivesUpForCause
<1>5. CASE Call!Fallback
  <2>1. /\ Len(faults') = 0 /\ Len(waits') = 0 /\ faults' \in Seq(Faults \cup {"context"})
        /\ waits' \in Seq(1 .. Call!Ceiling)
    BY <1>5 DEF Call!Fallback
  <2> QED BY <1>0, <1>5, <2>1 DEF Call!Fallback, CallInv, Call!GivesUpForCause
<1>6. CASE Call!Streamed
  BY <1>0, <1>6 DEF Call!Streamed, CallInv, Call!GivesUpForCause
<1>7. CASE UNCHANGED Call!callVars
  BY <1>7 DEF Call!callVars, CallInv, Call!GivesUpForCause, Call!Exhausted, Call!Refusal
<1> QED BY <1>1, <1>2, <1>3, <1>4, <1>5, <1>6, <1>7 DEF Call!CallNext

LEMMA WaitsDouble ==
  ASSUME Call!CallAssumption, CallInv
  PROVE  Call!DelayIsExponential
<1> SUFFICES ASSUME NEW i \in DOMAIN waits
             PROVE  waits[i] = LET exact == IF i = 1 THEN Call!Base ELSE 2 * waits[i - 1]
                               IN  IF exact > Call!Ceiling THEN Call!Ceiling ELSE exact
  BY DEF Call!DelayIsExponential
<1>1. /\ waits \in Seq(1 .. Call!Ceiling) /\ Len(waits) \in Nat
      /\ \A j \in 1 .. Len(waits) : waits[j] = Call!DelayFor(j + 1)
  BY DEF CallInv
<1>2. i \in Nat /\ i >= 1 /\ i <= Len(waits) /\ waits[i] = Call!DelayFor(i + 1)
  BY <1>1
<1>3. Call!Base \in 1 .. Call!Ceiling /\ Call!Ceiling \in Nat
  BY PolicyIs
<1>4. CASE i = 1
  <2>1. waits[i] = Call!Base
    <3>1. 1 + 1 = 2 /\ 2 \in Nat /\ 2 >= 2
      OBVIOUS
    <3>2. Call!DelayFor(2) = Call!Base
      BY <3>1, DelayDoubles
    <3> QED BY <1>2, <1>4, <3>1, <3>2
  <2> QED BY <1>3, <1>4, <2>1
<1>5. CASE i > 1
  <2>1. i - 1 \in 1 .. Len(waits) /\ (i - 1) + 1 = i /\ i >= 2
    BY <1>1, <1>2, <1>5
  <2>2. waits[i - 1] = Call!DelayFor(i)
    BY <1>1, <2>1
  <2>3. /\ Call!DelayFor(i) \in 1 .. Call!Ceiling
        /\ Call!DelayFor(i + 1) = IF 2 * Call!DelayFor(i) > Call!Ceiling THEN Call!Ceiling ELSE 2 * Call!DelayFor(i)
    BY <1>2, <2>1, DelayDoubles
  <2> QED BY <1>2, <1>5, <2>2, <2>3
<1> QED BY <1>2, <1>4, <1>5

(* Whatever the policy, the faults and the length of the chain: a call is  *)
(* attempted at most as often as the policy says, gives up only for a      *)
(* cause, repeats nothing permanent but a 408, and waits a time that       *)
(* doubles up to the ceiling without overflowing (retry.DoIf,              *)
(* Policy.delayFor, providerhttp.Retryable; FR-RETRY-001, and FR-RETRY-002 *)
(* but for the 408, which the code takes for a timeout).                   *)
THEOREM RetriesForCause ==
  Call!CallAssumption =>
    (Call!CallSpec => [](Call!CallTypeOK /\ Call!GivesUpForCause /\ Call!PermanentNotRepeated /\ Call!DelayIsExponential))
<1> SUFFICES ASSUME Call!CallAssumption
             PROVE  Call!CallSpec => [](Call!CallTypeOK /\ Call!GivesUpForCause /\ Call!PermanentNotRepeated /\ Call!DelayIsExponential)
  OBVIOUS
<1>1. Call!CallInit => CallInv
  BY CallStarts
<1>2. CallInv /\ [Call!CallNext]_Call!callVars => CallInv'
  BY CallStep
<1>3. CallInv => Call!CallTypeOK /\ Call!GivesUpForCause /\ Call!PermanentNotRepeated /\ Call!DelayIsExponential
  <2> SUFFICES ASSUME CallInv
               PROVE  Call!CallTypeOK /\ Call!GivesUpForCause /\ Call!PermanentNotRepeated /\ Call!DelayIsExponential
    OBVIOUS
  <2>1. Call!CallTypeOK /\ Call!GivesUpForCause
    BY DEF CallInv, Call!CallTypeOK
  <2>2. Call!PermanentNotRepeated
    BY DEF CallInv, Call!PermanentNotRepeated, Repeatable
  <2> QED BY <2>1, <2>2, WaitsDouble
<1> QED BY <1>1, <1>2, <1>3, PTL DEF Call!CallSpec
----------------------------------------------------------------------------
(* The chain of a call.                                                    *)

(* The aliases are a sequence.                                            *)
RouteAssumption == AliasOrder \in Seq(Route!Aliases) /\ Route!AliasAssumption

Configured ==
  /\ profiles \in [Route!Aliases -> [target : Targets, caps : SUBSET Route!Caps]]
  /\ fallbacks \in Seq(Route!Aliases \cup {Unknown})
  /\ routed.asked \in Route!Aliases \cup {Unknown}

Ready == routed.asked \in Route!Aliases /\ Route!Supports(routed.asked)

(* The place in the chain that all before have been tried for.             *)
Reached == IF routePc = "failed" THEN Len(fallbacks) + 1 ELSE next

(* Of the places before n those that could answer are in s, each at its    *)
(* turn, and none of them answered.                                        *)
AreBefore(n, s) ==
  /\ Len(s) = IF n = 0 THEN 0 ELSE 1 + Route!CapableUpTo(n - 1)
  /\ n > 0 => s[1].alias = routed.asked
  /\ \A m \in 1 .. n - 1 :
       Route!CanAnswer(fallbacks[m]) => s[1 + Route!CapableUpTo(m)].alias = fallbacks[m]
  /\ \A i \in DOMAIN s : ~s[i].ok

AttemptRecords == [alias : Route!Aliases, sent : BOOLEAN, ok : BOOLEAN]

RouteInv ==
  /\ Configured /\ Route!TypeOK
  /\ routePc \in {"attempt", "answered", "failed"} => Ready
  /\ \A i \in DOMAIN tried : Route!Supports(tried[i].alias)
  /\ routePc \in {"resolve", "rejected"} => tried = <<>> /\ next = 0
  /\ routePc \in {"attempt", "failed"} => AreBefore(Reached, tried)
  /\ outcome = [alias |-> outcome.alias, provider |-> outcome.provider]
  /\ Route!ReportedModelAnswered

LEMMA SameCardinality == \A S : Route!Cardinality(S) = Cardinality(S)
  BY DEF Route!Cardinality, Cardinality

LEMMA CapableCounts ==
  ASSUME NEW n \in Nat
  PROVE  /\ Route!CapableUpTo(n) \in Nat /\ Route!CapableUpTo(0) = 0
         /\ Route!CapableUpTo(n + 1)
              = Route!CapableUpTo(n) + (IF Route!CanAnswer(fallbacks[n + 1]) THEN 1 ELSE 0)
<1> DEFINE S(k) == {j \in 1 .. k : Route!CanAnswer(fallbacks[j])}
<1>0. \A k : Route!CapableUpTo(k) = Cardinality(S(k))
  BY SameCardinality DEF Route!CapableUpTo
<1>1. ASSUME NEW k \in Nat
      PROVE  IsFiniteSet(S(k))
  <2>1. IsFiniteSet(1 .. k)
    BY FS_Interval
  <2> QED BY <2>1, FS_Subset
<1>2. Cardinality(S(n)) \in Nat
  BY <1>1, FS_CardinalityType
<1>3. S(0) = {}
  OBVIOUS
<1>4. Cardinality(S(0)) = 0
  BY <1>3, FS_EmptySet
<1>5. CASE Route!CanAnswer(fallbacks[n + 1])
  <2>1. S(n + 1) = S(n) \cup {n + 1} /\ n + 1 \notin S(n)
    BY <1>5
  <2>2. Cardinality(S(n + 1)) = Cardinality(S(n)) + 1
    BY <1>1, <2>1, FS_AddElement
  <2> HIDE DEF S
  <2> QED BY <1>0, <1>2, <1>4, <1>5, <2>2
<1>6. CASE ~Route!CanAnswer(fallbacks[n + 1])
  <2>1. S(n + 1) = S(n)
    BY <1>6
  <2> HIDE DEF S
  <2> QED BY <1>0, <1>2, <1>4, <1>6, <2>1
<1> QED BY <1>5, <1>6

(* The alias reported of the profile asked for has its target.             *)
LEMMA PrimaryIsAsked ==
  ASSUME RouteAssumption, Configured, routed.asked \in Route!Aliases
  PROVE  Route!Primary \in Route!Aliases /\ profiles[Route!Primary].target = profiles[routed.asked].target
<1> DEFINE target == profiles[routed.asked].target
           I == {i \in 1 .. Len(AliasOrder) : profiles[AliasOrder[i]].target = target}
<1>1. AliasOrder \in Seq(Route!Aliases) /\ Route!Aliases = {AliasOrder[i] : i \in DOMAIN AliasOrder}
  BY DEF RouteAssumption, Route!Aliases, Route!ToSet
<1>2. I # {} /\ I \subseteq Nat
  BY <1>1
<1>3. PICK x \in I : \A y \in I : x <= y
  <2> HIDE DEF I
  <2> QED BY <1>2, LeastExists
<1> DEFINE first == Route!Min(I)
<1>4. first \in I
  <2> HIDE DEF I
  <2> QED BY <1>3 DEF Route!Min
<1>5. Route!SelectInSeq(AliasOrder, LAMBDA a : profiles[a].target = target) = first
  BY <1>2 DEF Route!SelectInSeq
<1>6. Route!Primary = AliasOrder[first]
  BY <1>5 DEF Route!Primary, Route!AliasFor
<1> HIDE DEF first
<1> QED BY <1>1, <1>4, <1>6

LEMMA RouteStarts ==
  ASSUME RouteAssumption, Route!Init
  PROVE  RouteInv
<1>1. Configured
  <2>1. \A k \in Nat : [1 .. k -> Route!Aliases \cup {Unknown}] \subseteq Seq(Route!Aliases \cup {Unknown})
    OBVIOUS
  <2>2. fallbacks \in Seq(Route!Aliases \cup {Unknown})
    BY <2>1 DEF Route!Init, Route!SeqOf
  <2> QED BY <2>2 DEF Configured, Route!Init, RouteAssumption, Route!AliasAssumption
<1>2. Len(fallbacks) \in Nat
  BY <1>1 DEF Configured
<1>3. tried = <<>> /\ next = 0 /\ routePc = "resolve" /\ outcome = [alias |-> routed.asked, provider |-> Unknown]
  BY DEF Route!Init
<1>4. Route!TypeOK
  BY <1>1, <1>2, <1>3 DEF Route!TypeOK, Configured
<1>5. outcome = [alias |-> outcome.alias, provider |-> outcome.provider]
  BY <1>3
<1> QED BY <1>1, <1>3, <1>4, <1>5 DEF RouteInv, Route!ReportedModelAnswered

LEMMA CapableGrows ==
  ASSUME NEW m \in Nat, NEW n \in Nat, m <= n
  PROVE  Route!CapableUpTo(m) <= Route!CapableUpTo(n)
<1> DEFINE S(k) == {j \in 1 .. k : Route!CanAnswer(fallbacks[j])}
<1>1. IsFiniteSet(1 .. n)
  BY FS_Interval
<1>2. IsFiniteSet(S(n))
  BY <1>1, FS_Subset
<1>3. S(m) \subseteq S(n)
  OBVIOUS
<1>4. Cardinality(S(m)) <= Cardinality(S(n))
  <2> HIDE DEF S
  <2> QED BY <1>2, <1>3, FS_Subset
<1> QED BY <1>4, SameCardinality DEF Route!CapableUpTo

LEMMA ConfigSame ==
  ASSUME UNCHANGED Route!config
  PROVE  /\ Configured' <=> Configured
         /\ Ready' <=> Ready
         /\ \A a : Route!Supports(a)' <=> Route!Supports(a)
         /\ \A a : Route!CanAnswer(a)' <=> Route!CanAnswer(a)
         /\ \A n : Route!CapableUpTo(n)' = Route!CapableUpTo(n)
<1>1. profiles' = profiles /\ fallbacks' = fallbacks /\ routed' = routed
  BY DEF Route!config
<1>2. \A a : Route!Supports(a)' <=> Route!Supports(a)
  BY <1>1 DEF Route!Supports
<1>3. \A a : Route!CanAnswer(a)' <=> Route!CanAnswer(a)
  BY <1>1 DEF Route!CanAnswer, Route!Supports
<1>4. \A n : Route!CapableUpTo(n)' = Route!CapableUpTo(n)
  BY <1>1 DEF Route!CapableUpTo, Route!CanAnswer, Route!Supports
<1>5. (Configured' <=> Configured) /\ (Ready' <=> Ready)
  BY <1>1 DEF Configured, Ready, Route!Supports
<1> QED BY <1>2, <1>3, <1>4, <1>5

LEMMA OneFailed ==
  ASSUME Configured, NEW n \in Nat, NEW s \in Seq(AttemptRecords), NEW r \in AttemptRecords,
         AreBefore(n, s), ~r.ok,
         IF n = 0 THEN r.alias = routed.asked ELSE r.alias = fallbacks[n] /\ Route!CanAnswer(fallbacks[n])
  PROVE  AreBefore(n + 1, Append(s, r))
<1> DEFINE t == Append(s, r)
<1>1. Len(s) \in Nat /\ Len(t) = Len(s) + 1 /\ t[Len(s) + 1] = r /\ \A i \in 1 .. Len(s) : t[i] = s[i]
  OBVIOUS
<1>2. \A i \in DOMAIN t : ~t[i].ok
  BY <1>1 DEF AreBefore
<1> HIDE DEF t
<1>3. CASE n = 0
  <2>1. Len(s) = 0 /\ Route!CapableUpTo(0) = 0
    BY <1>3, CapableCounts DEF AreBefore
  <2> QED BY <1>1, <1>2, <1>3, <2>1 DEF AreBefore, t
<1>4. CASE n # 0
  <2> DEFINE k == n - 1
  <2>1. k \in Nat /\ k + 1 = n
    BY <1>4
  <2> HIDE DEF k
  <2>2. Route!CapableUpTo(k) \in Nat /\ Route!CapableUpTo(n) = Route!CapableUpTo(k) + 1
    BY <1>4, <2>1, CapableCounts
  <2>3. Len(s) = 1 + Route!CapableUpTo(k)
    BY <1>4, <2>1 DEF AreBefore, k
  <2>4. Len(t) = 1 + Route!CapableUpTo(n) /\ t[1 + Route!CapableUpTo(n)] = r
    BY <1>1, <2>2, <2>3
  <2>5. t[1].alias = routed.asked
    BY <1>1, <1>4, <2>2, <2>3 DEF AreBefore
  <2>6. ASSUME NEW m \in 1 .. n, Route!CanAnswer(fallbacks[m])
        PROVE  t[1 + Route!CapableUpTo(m)].alias = fallbacks[m]
    <3>1. CASE m = n
      BY <1>4, <2>4, <3>1
    <3>2. CASE m # n
      <4>1. m \in Nat /\ m <= k /\ m \in 1 .. n - 1
        BY <2>1, <3>2
      <4>2. Route!CapableUpTo(m) \in Nat /\ Route!CapableUpTo(m) <= Route!CapableUpTo(k)
        BY <2>1, <4>1, CapableGrows, CapableCounts
      <4> DEFINE p == 1 + Route!CapableUpTo(m)
      <4>3. p \in 1 .. Len(s)
        BY <1>1, <2>2, <2>3, <4>2
      <4> HIDE DEF p
      <4>4. t[p] = s[p]
        BY <1>1, <4>3
      <4> QED BY <2>6, <4>1, <4>4 DEF AreBefore, p
    <3> QED BY <3>1, <3>2
  <2>7. (n + 1) - 1 = n /\ n + 1 # 0 /\ n + 1 > 0
    OBVIOUS
  <2> QED BY <1>2, <2>4, <2>5, <2>6, <2>7 DEF AreBefore, t
<1> QED BY <1>3, <1>4

LEMMA OneSkipped ==
  ASSUME Configured, NEW n \in Nat, n # 0, NEW s \in Seq(AttemptRecords),
         AreBefore(n, s), ~Route!CanAnswer(fallbacks[n])
  PROVE  AreBefore(n + 1, s)
<1> DEFINE k == n - 1
<1>1. k \in Nat /\ k + 1 = n /\ (n + 1) - 1 = n /\ n + 1 # 0 /\ n + 1 > 0
  OBVIOUS
<1>2. Len(s) = 1 + Route!CapableUpTo(k)
  BY DEF AreBefore
<1> HIDE DEF k
<1>3. Route!CapableUpTo(n) = Route!CapableUpTo(k)
  <2>1. Route!CapableUpTo(k + 1) = Route!CapableUpTo(k) + (IF Route!CanAnswer(fallbacks[k + 1]) THEN 1 ELSE 0)
        /\ Route!CapableUpTo(k) \in Nat
    BY <1>1, CapableCounts
  <2> QED BY <1>1, <2>1
<1>4. \A m \in 1 .. n : m = n \/ m \in 1 .. n - 1
  OBVIOUS
<1> QED BY <1>1, <1>2, <1>3, <1>4 DEF AreBefore

(* A failure or a skip goes on to the next place.                          *)
LEMMA GoesOn ==
  ASSUME RouteAssumption, RouteInv, routePc = "attempt", Route!NextFallback, UNCHANGED Route!config,
         tried' \in Seq(AttemptRecords), AreBefore(next + 1, tried'),
         \A i \in DOMAIN tried' : Route!Supports(tried'[i].alias)
  PROVE  RouteInv'
<1>1. Len(fallbacks) \in Nat /\ next \in 0 .. Len(fallbacks) /\ Ready /\ Configured /\ Route!TypeOK
      /\ outcome = [alias |-> outcome.alias, provider |-> outcome.provider]
  BY DEF RouteInv, Configured, Route!TypeOK
<1>2. profiles' = profiles /\ fallbacks' = fallbacks /\ routed' = routed
  BY DEF Route!config
<1>3. Configured' /\ Ready' /\ Route!Aliases' = Route!Aliases
  BY <1>1, ConfigSame DEF Route!Aliases
<1>4. (\A i \in DOMAIN tried : Route!Supports(tried[i].alias))'
  BY ConfigSame
<1>5. /\ Reached' = next + 1 /\ next' \in 0 .. Len(fallbacks) /\ routePc' \in {"attempt", "failed"}
      /\ outcome'.alias \in Route!Aliases \cup {Unknown}
      /\ outcome' = [alias |-> outcome'.alias, provider |-> outcome'.provider]
  <2>1. CASE next < Len(fallbacks)
    BY <1>1, <1>2, <2>1 DEF Route!NextFallback, Reached, Route!TypeOK
  <2>2. CASE ~(next < Len(fallbacks))
    <3>1. Route!Primary \in Route!Aliases
      BY <1>1, PrimaryIsAsked DEF Ready
    <3> QED BY <1>1, <1>2, <2>2, <3>1 DEF Route!NextFallback, Reached
  <2> QED BY <2>1, <2>2
<1>6. AreBefore(Reached, tried)'
  <2> DEFINE n == next + 1
  <2>1. AreBefore(n, tried')
    OBVIOUS
  <2>2. Reached' = n
    BY <1>5
  <2> HIDE DEF n
  <2> QED BY <1>2, <2>1, <2>2, ConfigSame DEF AreBefore
<1>7. Route!TypeOK'
  BY <1>2, <1>3, <1>5 DEF Route!TypeOK, AttemptRecords
<1> QED BY <1>3, <1>4, <1>5, <1>6, <1>7 DEF RouteInv, Route!ReportedModelAnswered

LEMMA CurrentIs ==
  ASSUME RouteInv, routePc = "attempt", Route!Eligible
  PROVE  /\ Route!Current \in Route!Aliases /\ Route!Supports(Route!Current)
         /\ IF next = 0 THEN Route!Current = routed.asked
            ELSE Route!Current = fallbacks[next] /\ Route!CanAnswer(fallbacks[next])
  BY DEF RouteInv, Ready, Route!Eligible, Route!Current, Route!CanAnswer

LEMMA FailureKeeps ==
  ASSUME RouteAssumption, RouteInv, Route!Failure
  PROVE  RouteInv'
<1>1. PICK reached \in BOOLEAN : Route!Tried(reached, FALSE)
  BY DEF Route!Failure
<1>2. routePc = "attempt" /\ Route!Eligible /\ Route!NextFallback /\ UNCHANGED Route!config
  BY DEF Route!Failure
<1> DEFINE r == [alias |-> Route!Current, sent |-> reached, ok |-> FALSE]
<1>3. tried' = Append(tried, r)
  BY <1>1 DEF Route!Tried
<1>4. r \in AttemptRecords /\ ~r.ok /\ r.alias = Route!Current /\ Route!Supports(r.alias)
  BY <1>2, CurrentIs DEF AttemptRecords
<1>5. /\ Configured /\ next \in Nat /\ tried \in Seq(AttemptRecords) /\ AreBefore(next, tried)
      /\ \A i \in DOMAIN tried : Route!Supports(tried[i].alias)
  BY <1>2 DEF RouteInv, Route!TypeOK, AttemptRecords, Reached, Configured
<1> HIDE DEF r
<1>6. AreBefore(next + 1, tried')
  BY <1>2, <1>3, <1>4, <1>5, CurrentIs, OneFailed
<1>7. tried' \in Seq(AttemptRecords)
      /\ \A i \in DOMAIN tried' : Route!Supports(tried'[i].alias)
  BY <1>3, <1>4, <1>5
<1> QED BY <1>2, <1>6, <1>7, GoesOn

LEMMA SkipKeeps ==
  ASSUME RouteAssumption, RouteInv, Route!Skip
  PROVE  RouteInv'
<1>1. routePc = "attempt" /\ ~Route!Eligible /\ Route!NextFallback /\ UNCHANGED Route!config /\ tried' = tried
  BY DEF Route!Skip
<1>2. /\ Configured /\ next \in Nat /\ tried \in Seq(AttemptRecords) /\ AreBefore(next, tried)
      /\ \A i \in DOMAIN tried : Route!Supports(tried[i].alias)
  BY <1>1 DEF RouteInv, Route!TypeOK, AttemptRecords, Reached, Configured
<1>3. next # 0 /\ ~Route!CanAnswer(fallbacks[next])
  BY <1>1 DEF Route!Eligible, Route!Current, Route!CanAnswer
<1>4. AreBefore(next + 1, tried)
  BY <1>2, <1>3, OneSkipped
<1> QED BY <1>1, <1>2, <1>4, GoesOn

LEMMA SuccessKeeps ==
  ASSUME RouteAssumption, RouteInv, Route!Success
  PROVE  RouteInv'
<1>1. /\ routePc = "attempt" /\ Route!Eligible /\ routePc' = "answered" /\ next' = next
      /\ UNCHANGED Route!config /\ Route!Tried(TRUE, TRUE) /\ Route!Answer
  BY DEF Route!Success
<1> DEFINE r == [alias |-> Route!Current, sent |-> TRUE, ok |-> TRUE]
<1>2. tried' = Append(tried, r)
  BY <1>1 DEF Route!Tried
<1>3. r \in AttemptRecords /\ r.ok /\ r.alias = Route!Current /\ Route!Supports(r.alias)
      /\ r.alias \in Route!Aliases
  BY <1>1, CurrentIs DEF AttemptRecords
<1> HIDE DEF r
<1>4. /\ Configured /\ Ready /\ Route!TypeOK /\ tried \in Seq(AttemptRecords)
      /\ \A i \in DOMAIN tried : Route!Supports(tried[i].alias) /\ ~tried[i].ok
  BY <1>1 DEF RouteInv, Route!TypeOK, AttemptRecords, AreBefore
<1>5. profiles' = profiles /\ fallbacks' = fallbacks /\ routed' = routed
  BY <1>1 DEF Route!config
<1>6. Configured' /\ Ready' /\ Route!Aliases' = Route!Aliases
  BY <1>1, <1>4, ConfigSame DEF Route!Aliases
<1>7. /\ tried' \in Seq(AttemptRecords) /\ Len(tried') = Len(tried) + 1 /\ tried'[Len(tried')] = r
      /\ \A i \in DOMAIN tried' : Route!Supports(tried'[i].alias)
      /\ \A i \in 1 .. Len(tried') : tried'[i].ok <=> i = Len(tried')
  BY <1>2, <1>3, <1>4
<1>8. (\A i \in DOMAIN tried : Route!Supports(tried[i].alias))'
  BY <1>1, <1>7, ConfigSame
<1>9. /\ outcome'.alias \in Route!Aliases /\ profiles[outcome'.alias].target = profiles[r.alias].target
      /\ outcome' = [alias |-> outcome'.alias, provider |-> outcome'.provider]
  <2>1. next = 0 => r.alias = routed.asked
    BY <1>1, <1>3, CurrentIs
  <2>2. Route!Primary \in Route!Aliases /\ profiles[Route!Primary].target = profiles[routed.asked].target
    BY <1>4, PrimaryIsAsked DEF Ready
  <2> QED BY <1>1, <1>3, <2>1, <2>2 DEF Route!Answer, Route!Outcome
<1>10. Route!ReportedModelAnswered'
  BY <1>5, <1>7, <1>9 DEF Route!ReportedModelAnswered, Route!Last
<1>11. Route!TypeOK'
  BY <1>1, <1>4, <1>5, <1>6, <1>7, <1>9 DEF Route!TypeOK, AttemptRecords
<1> QED BY <1>1, <1>6, <1>8, <1>9, <1>10, <1>11 DEF RouteInv

LEMMA RouteStep ==
  ASSUME RouteAssumption, RouteInv, [Route!Next]_(Route!vars)
  PROVE  RouteInv'
<1>1. CASE Route!Resolve
  <2>1. /\ routePc = "resolve" /\ routePc' \in {"attempt", "rejected"} /\ UNCHANGED Route!config
        /\ next' = next /\ tried' = tried /\ outcome' = outcome
        /\ (routePc' = "attempt" => Ready)
    BY <1>1 DEF Route!Resolve, Ready
  <2>2. profiles' = profiles /\ fallbacks' = fallbacks /\ routed' = routed
    BY <2>1 DEF Route!config
  <2>3. Configured' /\ (Ready' <=> Ready) /\ Route!Aliases' = Route!Aliases
    BY <2>1, ConfigSame DEF RouteInv, Route!Aliases
  <2>4. tried = <<>> /\ next = 0
    BY <2>1 DEF RouteInv
  <2>5. Route!TypeOK'
    BY <2>1, <2>2, <2>3 DEF RouteInv, Route!TypeOK
  <2>6. AreBefore(Reached, tried)'
    BY <2>1, <2>4 DEF AreBefore, Reached
  <2> QED BY <2>1, <2>3, <2>4, <2>5, <2>6 DEF RouteInv, Route!ReportedModelAnswered
<1>2. CASE Route!Success
  BY <1>2, SuccessKeeps
<1>3. CASE Route!Failure
  BY <1>3, FailureKeeps
<1>4. CASE Route!Skip
  BY <1>4, SkipKeeps
<1>5. CASE UNCHANGED Route!vars
  <2>1. /\ UNCHANGED Route!config /\ routePc' = routePc /\ next' = next /\ tried' = tried /\ outcome' = outcome
    BY <1>5 DEF Route!vars, Route!config
  <2>2. profiles' = profiles /\ fallbacks' = fallbacks /\ routed' = routed
    BY <2>1 DEF Route!config
  <2>3. /\ (Configured' <=> Configured) /\ (Ready' <=> Ready) /\ Route!Aliases' = Route!Aliases
        /\ \A a : Route!Supports(a)' <=> Route!Supports(a)
    BY <2>1, ConfigSame DEF Route!Aliases
  <2>4. Route!TypeOK' /\ Route!ReportedModelAnswered'
    BY <2>1, <2>2, <2>3 DEF RouteInv, Route!TypeOK, Route!ReportedModelAnswered, Route!Last
  <2>5. AreBefore(Reached, tried) => AreBefore(Reached, tried)'
    BY <2>1, <2>2, ConfigSame DEF AreBefore, Reached
  <2> QED BY <2>1, <2>3, <2>4, <2>5 DEF RouteInv
<1> QED BY <1>1, <1>2, <1>3, <1>4, <1>5 DEF Route!Next

(* For any profiles and any chain of fallbacks, with unknown and incapable *)
(* ones anywhere in it: no profile is called with media it does not take,  *)
(* a call fails only after all that could answer were tried in order, and  *)
(* the alias it reports has the target that answered (chat, aliasFor;      *)
(* FR-013, FR-MM-003, FR-MM-011).                                          *)
THEOREM ChainIsFollowed ==
  RouteAssumption =>
    (Route!Spec =>
       [](Route!MediaOnlyToCapable /\ Route!AllTriedInOrder /\ Route!ReportedModelAnswered))
<1> SUFFICES ASSUME RouteAssumption
             PROVE  Route!Spec =>
                      [](Route!MediaOnlyToCapable /\ Route!AllTriedInOrder /\ Route!ReportedModelAnswered)
  OBVIOUS
<1>1. Route!Init => RouteInv
  BY RouteStarts
<1>2. RouteInv /\ [Route!Next]_(Route!vars) => RouteInv'
  BY RouteStep
<1>3. RouteInv => Route!MediaOnlyToCapable /\ Route!AllTriedInOrder /\ Route!ReportedModelAnswered
  <2> SUFFICES ASSUME RouteInv
               PROVE  Route!MediaOnlyToCapable /\ Route!AllTriedInOrder /\ Route!ReportedModelAnswered
    OBVIOUS
  <2>1. Route!MediaOnlyToCapable
    BY DEF RouteInv, Route!MediaOnlyToCapable, Route!Sent
  <2>2. ASSUME routePc = "failed"
        PROVE  Route!AllTriedInOrder
    <3>1. Len(fallbacks) \in Nat /\ AreBefore(Len(fallbacks) + 1, tried)
      BY <2>2 DEF RouteInv, Reached, Configured
    <3>2. (Len(fallbacks) + 1) - 1 = Len(fallbacks) /\ Len(fallbacks) + 1 # 0 /\ Len(fallbacks) + 1 > 0
      BY <3>1
    <3>3. \A n \in DOMAIN fallbacks : n \in 1 .. Len(fallbacks)
      BY DEF RouteInv, Configured
    <3> QED BY <3>1, <3>2, <3>3 DEF AreBefore, Route!AllTriedInOrder
  <2> QED BY <2>1, <2>2 DEF RouteInv, Route!AllTriedInOrder
<1> QED BY <1>1, <1>2, <1>3, PTL DEF Route!Spec

----------------------------------------------------------------------------
(* The cache of answers, beside the bucket of the rate limit with its      *)
(* clock: what it serves and what it keeps.                                *)
CacheAssumption == Cache!ScoreAssumption /\ Cache!LimitAssumption /\ Cache!Query # {}

Fresh(e) == TTL = 0 \/ now - e.at < TTL

(* The loop of prune.                                                      *)
KeptBy(es, f) ==
  f = [i \in 0 .. Len(es) |->
         IF i = 0 THEN <<>>
         ELSE IF now - es[i].at < TTL THEN Append(f[i - 1], es[i]) ELSE f[i - 1]]

(* Of the first n entries those that are fresh, in their order.            *)
Keeps(es, n, s) ==
  /\ s \in Seq(Cache!Entry) /\ Len(s) <= n
  /\ \E place \in [1 .. Len(s) -> 1 .. n] :
       /\ \A i, j \in 1 .. Len(s) : i < j => place[i] < place[j]
       /\ \A i \in 1 .. Len(s) : s[i] = es[place[i]] /\ Fresh(s[i])
       /\ \A j \in 1 .. n : Fresh(es[j]) => \E i \in 1 .. Len(s) : place[i] = j

(* What prune yields is the last value of its loop.                        *)
LEMMA PrunedIs ==
  ASSUME NEW es
  PROVE  Cache!Pruned(es) = IF TTL = 0 THEN es ELSE (CHOOSE f : KeptBy(es, f))[Len(es)]
  BY DEF Cache!Pruned, KeptBy

(* The loop of prune has a value at every entry.                           *)
LEMMA KeptExists ==
  ASSUME NEW es \in Seq(Cache!Entry)
  PROVE  \E f : KeptBy(es, f)
<1> DEFINE n == Len(es)
           S == Seq(Cache!Entry)
           before == [k \in 1 .. n |-> k - 1]
           added(k, s) == IF now - es[k].at < TTL THEN Append(s, es[k]) ELSE s
           first == [k \in 1 .. n |-> added(k, <<>>)]
           step == [k \in 1 .. n |-> [s \in S |-> added(k, s)]]
<1>1. n \in Nat /\ \A k \in 1 .. n : es[k] \in Cache!Entry
  OBVIOUS
<1>2. before \in [1 .. n -> Nat] /\ \A k \in 1 .. n : before[k] = k - 1 /\ before[k] < k
  BY <1>1
<1>3. \A k \in 1 .. n : \A s \in S : added(k, s) \in S
  <2> SUFFICES ASSUME NEW k \in 1 .. n, NEW s \in S PROVE added(k, s) \in S
    OBVIOUS
  <2>1. Append(s, es[k]) \in S
    BY <1>1
  <2> QED BY <2>1
<1>4. <<>> \in S
  OBVIOUS
<1> HIDE DEF n, S, added
<1>5. first \in [1 .. n -> S] /\ step \in [1 .. n -> [S -> S]]
  BY <1>3, <1>4
<1>6. \A k \in 1 .. n : first[k] = added(k, <<>>) /\ \A s \in S : step[k][s] = added(k, s)
  OBVIOUS
<1> HIDE DEF before, first, step
<1>7. PICK f : Chained(f, n, S, before, first, step)
  BY <1>1, <1>2, <1>5, ChainExists
<1> DEFINE g == [i \in 0 .. n |-> IF i = 0 THEN <<>> ELSE f[i]]
<1>8. ASSUME NEW i \in 0 .. n
      PROVE  g[i] = IF i = 0 THEN <<>> ELSE added(i, g[i - 1])
  <2>1. f \in [1 .. n -> S] /\ \A k \in 1 .. n : f[k] = IF before[k] = 0 THEN first[k] ELSE step[k][f[before[k]]]
    BY <1>7 DEF Chained
  <2>2. CASE i = 0
    BY <2>2
  <2>3. CASE i = 1
    <3>1. i \in 1 .. n /\ i - 1 = 0 /\ 0 \in 0 .. n
      BY <1>1, <2>3
    <3>2. f[i] = added(i, <<>>)
      BY <1>2, <1>6, <2>1, <3>1
    <3>3. g[0] = <<>> /\ g[i] = f[i]
      BY <2>3, <3>1
    <3> QED BY <2>3, <3>1, <3>2, <3>3
  <2>4. CASE i # 0 /\ i # 1
    <3>1. i \in 1 .. n /\ i - 1 \in 1 .. n /\ i - 1 # 0 /\ i - 1 \in 0 .. n
      BY <1>1, <2>4
    <3>2. f[i - 1] \in S
      BY <2>1, <3>1
    <3>3. f[i] = added(i, f[i - 1])
      BY <1>2, <1>6, <2>1, <3>1, <3>2
    <3>4. g[i] = f[i] /\ g[i - 1] = f[i - 1]
      BY <2>4, <3>1
    <3> QED BY <2>4, <3>3, <3>4
  <2> QED BY <2>2, <2>3, <2>4
<1>9. DOMAIN g = 0 .. n
  OBVIOUS
<1>10. g = [i \in 0 .. n |-> g[i]]
  OBVIOUS
<1> HIDE DEF g
<1>11. g = [i \in 0 .. n |-> IF i = 0 THEN <<>> ELSE added(i, g[i - 1])]
  BY <1>8, <1>10
<1>12. KeptBy(es, g)
  BY <1>11 DEF KeptBy, added, n
<1> QED BY <1>12

(* prune keeps what is fresh and nothing else, in its order.               *)
LEMMA PrunedKeeps ==
  ASSUME TTL \in Nat, now \in Nat, NEW es \in Seq(Cache!Entry)
  PROVE  Keeps(es, Len(es), Cache!Pruned(es))
<1>1. Len(es) \in Nat
  OBVIOUS
<1>2. CASE TTL = 0
  <2> DEFINE place == [i \in 1 .. Len(es) |-> i]
  <2>1. /\ place \in [1 .. Len(es) -> 1 .. Len(es)]
        /\ \A i \in 1 .. Len(es) : place[i] = i
    OBVIOUS
  <2> HIDE DEF place
  <2>2. Keeps(es, Len(es), es)
    BY <1>1, <1>2, <2>1 DEF Keeps, Fresh
  <2> QED BY <1>2, <2>2, PrunedIs
<1>3. CASE TTL # 0
  <2> DEFINE d == CHOOSE f : KeptBy(es, f)
             n == Len(es)
  <2>1. KeptBy(es, d)
    BY KeptExists
  <2> HIDE DEF d
  <2>2. d[0] = <<>> /\ \A i \in 1 .. n : d[i] = IF now - es[i].at < TTL THEN Append(d[i - 1], es[i]) ELSE d[i - 1]
    <3> HIDE DEF n
    <3>1. d = [i \in 0 .. n |-> IF i = 0 THEN <<>>
                ELSE IF now - es[i].at < TTL THEN Append(d[i - 1], es[i]) ELSE d[i - 1]]
      BY <2>1 DEF KeptBy, n
    <3>2. 0 \in 0 .. n /\ n \in Nat
      BY <1>1 DEF n
    <3>3. d[0] = <<>>
      BY <3>1, <3>2
    <3>4. \A i \in 1 .. n : i \in 0 .. n /\ i # 0
      BY <3>2
    <3>5. \A i \in 1 .. n : d[i] = IF now - es[i].at < TTL THEN Append(d[i - 1], es[i]) ELSE d[i - 1]
      BY <3>1, <3>4
    <3> QED BY <3>3, <3>5
  <2> DEFINE T == {i \in Nat : i <= n => Keeps(es, i, d[i])}
  <2>3. 0 \in T
    <3> DEFINE place == [i \in 1 .. 0 |-> i]
    <3>1. place \in [1 .. 0 -> 1 .. 0] /\ Len(<<>>) = 0 /\ <<>> \in Seq(Cache!Entry)
      OBVIOUS
    <3> HIDE DEF place
    <3>2. Keeps(es, 0, <<>>)
      <4>1. \A i \in 1 .. 0 : FALSE
        OBVIOUS
      <4>2. 1 .. Len(<<>>) = 1 .. 0 /\ Len(<<>>) <= 0
        BY <3>1
      <4>3. \E f \in [1 .. 0 -> 1 .. 0] : TRUE
        BY <3>1
      <4> QED BY <3>1, <4>1, <4>2, <4>3, Zenon DEF Keeps
    <3> QED BY <2>2, <3>2
  <2>4. ASSUME NEW i \in T
        PROVE  i + 1 \in T
    <3> SUFFICES ASSUME i + 1 <= n PROVE Keeps(es, i + 1, d[i + 1])
      OBVIOUS
    <3> DEFINE k == i + 1
               s == d[i]
    <3>1. i \in Nat /\ k \in 1 .. n /\ k - 1 = i /\ Keeps(es, i, s)
      BY <1>1
    <3>2. d[k] = IF now - es[k].at < TTL THEN Append(s, es[k]) ELSE s
      BY <2>2, <3>1
    <3>3. es[k] \in Cache!Entry
      BY <3>1
    <3> DEFINE m == Len(s)
    <3> HIDE DEF n, s
    <3>4. s \in Seq(Cache!Entry) /\ m \in Nat /\ m <= i
      BY <3>1 DEF Keeps
    <3>5. PICK place \in [1 .. m -> 1 .. i] :
            /\ \A a, b \in 1 .. m : a < b => place[a] < place[b]
            /\ \A a \in 1 .. m : s[a] = es[place[a]] /\ Fresh(s[a])
            /\ \A b \in 1 .. i : Fresh(es[b]) => \E a \in 1 .. m : place[a] = b
      BY <3>1 DEF Keeps
    <3>6. CASE ~(now - es[k].at < TTL)
      <4>1. ~Fresh(es[k])
        BY <1>3, <3>6 DEF Fresh
      <4>2. \A b \in 1 .. k : b = k \/ b \in 1 .. i
        BY <3>1
      <4>3. place \in [1 .. m -> 1 .. k] /\ m <= k
        BY <3>1, <3>4
      <4>4. \A b \in 1 .. k : Fresh(es[b]) => \E a \in 1 .. m : place[a] = b
        BY <3>5, <4>1, <4>2
      <4>5. Keeps(es, k, s)
        BY <3>4, <3>5, <4>3, <4>4 DEF Keeps
      <4> QED BY <3>2, <3>6, <4>5
    <3>7. CASE now - es[k].at < TTL
      <4> DEFINE u == Append(s, es[k])
                 wider == [a \in 1 .. (m + 1) |-> IF a = m + 1 THEN k ELSE place[a]]
      <4>1. /\ u \in Seq(Cache!Entry) /\ Len(u) = m + 1 /\ u[m + 1] = es[k]
            /\ \A a \in 1 .. m : u[a] = s[a]
        BY <3>3, <3>4
      <4>2. /\ wider \in [1 .. (m + 1) -> 1 .. k] /\ wider[m + 1] = k
            /\ \A a \in 1 .. m : wider[a] = place[a] /\ wider[a] < k
        <5>1. m + 1 \in 1 .. (m + 1) /\ \A a \in 1 .. m : a \in 1 .. (m + 1) /\ a # m + 1
          BY <3>4
        <5>2. \A a \in 1 .. (m + 1) : a # m + 1 => a \in 1 .. m
          BY <3>4
        <5>3. k \in Nat /\ \A b \in 1 .. i : b \in 1 .. k /\ b < k
          BY <3>1
        <5>4. \A a \in 1 .. m : place[a] \in 1 .. i
          BY <3>5
        <5> HIDE DEF k, m
        <5>5. wider \in [1 .. (m + 1) -> 1 .. k]
          BY <3>1, <5>2, <5>3, <5>4
        <5>6. wider[m + 1] = k
          BY <5>1
        <5>7. \A a \in 1 .. m : wider[a] = place[a]
          BY <5>1
        <5> QED BY <5>3, <5>4, <5>5, <5>6, <5>7
      <4>3. Fresh(es[k])
        BY <3>7 DEF Fresh
      <4> HIDE DEF u, wider
      <4>4. \A a \in 1 .. (m + 1) : a = m + 1 \/ a \in 1 .. m
        BY <3>4
      <4>5. \A a, b \in 1 .. (m + 1) : a < b => wider[a] < wider[b]
        <5> SUFFICES ASSUME NEW a \in 1 .. (m + 1), NEW b \in 1 .. (m + 1), a < b PROVE wider[a] < wider[b]
          OBVIOUS
        <5>1. a \in 1 .. m
          BY <3>4
        <5>2. CASE b = m + 1
          BY <4>2, <5>1, <5>2
        <5>3. CASE b # m + 1
          BY <3>5, <4>2, <4>4, <5>1, <5>3
        <5> QED BY <5>2, <5>3
      <4>6. \A a \in 1 .. (m + 1) : u[a] = es[wider[a]] /\ Fresh(u[a])
        <5> SUFFICES ASSUME NEW a \in 1 .. (m + 1) PROVE u[a] = es[wider[a]] /\ Fresh(u[a])
          OBVIOUS
        <5>1. CASE a = m + 1
          BY <4>1, <4>2, <4>3, <5>1
        <5>2. CASE a # m + 1
          BY <3>5, <4>1, <4>2, <4>4, <5>2
        <5> QED BY <5>1, <5>2
      <4>7. ASSUME NEW b \in 1 .. k, Fresh(es[b]) PROVE \E a \in 1 .. (m + 1) : wider[a] = b
        <5>1. CASE b = k
          <6>1. m + 1 \in 1 .. (m + 1)
            BY <3>4
          <6> QED BY <4>2, <5>1, <6>1
        <5>2. CASE b # k
          <6>1. b \in 1 .. i
            BY <3>1, <5>2
          <6>2. PICK a \in 1 .. m : place[a] = b
            BY <3>5, <4>7, <6>1
          <6>3. a \in 1 .. (m + 1) /\ wider[a] = b
            BY <3>4, <4>2, <6>2
          <6> QED BY <6>3
        <5> QED BY <5>1, <5>2
      <4>8. m + 1 <= k
        BY <3>1, <3>4
      <4>9. Keeps(es, k, u)
        <5> DEFINE l == m + 1
        <5>1. Len(u) = l /\ u \in Seq(Cache!Entry) /\ l <= k
          BY <4>1, <4>8
        <5>2. wider \in [1 .. l -> 1 .. k]
          BY <4>2
        <5>3. \A a, b \in 1 .. l : a < b => wider[a] < wider[b]
          BY <4>5
        <5>4. \A a \in 1 .. l : u[a] = es[wider[a]] /\ Fresh(u[a])
          BY <4>6
        <5>5. \A b \in 1 .. k : Fresh(es[b]) => \E a \in 1 .. l : wider[a] = b
          BY <4>7
        <5> HIDE DEF l, k, m
        <5> QED BY <5>1, <5>2, <5>3, <5>4, <5>5 DEF Keeps
      <4> QED BY <3>2, <3>7, <4>9 DEF u
    <3> QED BY <3>6, <3>7
  <2>5. T = Nat
    <3>1. T \in SUBSET Nat
      OBVIOUS
    <3> HIDE DEF T
    <3> QED BY <2>3, <2>4, <3>1, SetInduction
  <2>6. n \in T /\ n <= n
    <3> HIDE DEF T
    <3> QED BY <1>1, <2>5
  <2>7. Keeps(es, n, d[n])
    BY <2>6
  <2> QED BY <1>3, <2>7, PrunedIs DEF d
<1> QED BY <1>2, <1>3

Distinct(es) ==
  \A i, j \in 1 .. Len(es) : Cache!SameKey(es[i].query, es[j].query) => i = j

FoundIn(s, es) == \A i \in 1 .. Len(s) : \E j \in 1 .. Len(es) : s[i] = es[j]

(* What prune leaves is fresh, from the store, and no key comes twice.     *)
LEMMA PrunedFits ==
  ASSUME NEW es \in Seq(Cache!Entry), NEW s, Keeps(es, Len(es), s)
  PROVE  /\ s \in Seq(Cache!Entry) /\ Len(s) <= Len(es)
         /\ \A i \in 1 .. Len(s) : Fresh(s[i])
         /\ FoundIn(s, es)
         /\ Distinct(es) => Distinct(s)
<1>1. Keeps(es, Len(es), s)
  OBVIOUS
<1>2. s \in Seq(Cache!Entry) /\ Len(s) <= Len(es)
  BY <1>1 DEF Keeps
<1> DEFINE n == Len(es)
           m == Len(s)
<1>3. PICK place \in [1 .. m -> 1 .. n] :
        /\ \A a, b \in 1 .. m : a < b => place[a] < place[b]
        /\ \A a \in 1 .. m : s[a] = es[place[a]] /\ Fresh(s[a])
        /\ \A b \in 1 .. n : Fresh(es[b]) => \E a \in 1 .. m : place[a] = b
  BY <1>1 DEF Keeps
<1>4. m \in Nat /\ n \in Nat
  BY <1>2
<1> HIDE DEF m, n
<1>5. \A i \in 1 .. m : place[i] \in 1 .. n /\ s[i] = es[place[i]]
  BY <1>3
<1>6. FoundIn(s, es)
  BY <1>5 DEF FoundIn, m, n
<1>7. ASSUME Distinct(es) PROVE Distinct(s)
  <2> SUFFICES ASSUME NEW a \in 1 .. m, NEW b \in 1 .. m, Cache!SameKey(s[a].query, s[b].query)
               PROVE  a = b
    BY DEF Distinct, m
  <2>1. place[a] \in 1 .. n /\ place[b] \in 1 .. n /\ s[a] = es[place[a]] /\ s[b] = es[place[b]]
    BY <1>5
  <2>2. place[a] = place[b]
    BY <1>7, <2>1 DEF Distinct, n
  <2>3. a \in Int /\ b \in Int /\ place[a] \in Int /\ place[b] \in Int
    BY <1>4, <2>1
  <2>4. ~(a < b) /\ ~(b < a)
    BY <1>3, <2>2, <2>3
  <2> QED BY <2>3, <2>4
<1> QED BY <1>2, <1>3, <1>5, <1>6, <1>7 DEF m, n

(* Storing keeps the ceiling and one entry of each key.                    *)
LEMMA StoredFits ==
  ASSUME MaxEntries \in Nat \ {0}, NEW es \in Seq(Cache!Entry), NEW e \in Cache!Entry,
         Len(es) <= MaxEntries, Distinct(es), NEW s, s = Cache!Stored(es, e)
  PROVE  /\ s \in Seq(Cache!Entry) /\ Len(s) <= MaxEntries
         /\ \A i \in 1 .. Len(s) : s[i] = e \/ \E j \in 1 .. Len(es) : s[i] = es[j]
         /\ Distinct(s)
<1> DEFINE same == {i \in DOMAIN es : Cache!SameKey(es[i].query, e.query)}
           n == Len(es)
<1>1. n \in Nat /\ DOMAIN es = 1 .. n /\ \A i \in 1 .. n : es[i] \in Cache!Entry
  OBVIOUS
<1>2. \A i \in 1 .. n : i \in same <=> Cache!SameKey(es[i].query, e.query)
  BY <1>1
<1>3. same \in SUBSET Nat /\ \A i \in same : i \in 1 .. n
  BY <1>1
<1>4. s = IF same # {} THEN [es EXCEPT ![CHOOSE i \in same : \A j \in same : i <= j] = e]
          ELSE Append(IF n >= MaxEntries THEN Tail(es) ELSE es, e)
  BY DEF Cache!Stored
<1> HIDE DEF same
<1>5. CASE same # {}
  <2> DEFINE at == CHOOSE i \in same : \A j \in same : i <= j
  <2>1. at \in same
    BY <1>3, <1>5, LeastExists
  <2>2. s = [es EXCEPT ![at] = e]
    BY <1>4, <1>5
  <2> HIDE DEF at
  <2>3. at \in 1 .. n /\ Cache!SameKey(es[at].query, e.query)
    BY <1>2, <1>3, <2>1
  <2>4. s \in Seq(Cache!Entry) /\ Len(s) = n
    BY <1>1, <2>2, <2>3
  <2>5. \A i \in 1 .. n : s[i] = IF i = at THEN e ELSE es[i]
    BY <1>1, <2>2
  <2>6. ASSUME NEW i \in 1 .. n, NEW j \in 1 .. n, Cache!SameKey(s[i].query, s[j].query)
        PROVE  i = j
    <3>1. Cache!SameKey(es[i].query, es[j].query)
      BY <2>3, <2>5, <2>6 DEF Cache!SameKey
    <3> QED BY <3>1 DEF Distinct
  <2> HIDE DEF n
  <2>7. Len(s) <= MaxEntries
    BY <2>4 DEF n
  <2>8. Distinct(s)
    BY <2>4, <2>6 DEF Distinct
  <2>9. \A i \in 1 .. n : s[i] = e \/ s[i] = es[i]
    BY <2>5
  <2> QED BY <2>4, <2>7, <2>8, <2>9 DEF n
<1>6. CASE same = {}
  <2> DEFINE kept == IF n >= MaxEntries THEN Tail(es) ELSE es
             skip == IF n >= MaxEntries THEN 1 ELSE 0
             l == Len(kept)
  <2>1. s = Append(kept, e)
    BY <1>4, <1>6
  <2>2. /\ kept \in Seq(Cache!Entry) /\ l \in Nat /\ l + 1 <= MaxEntries /\ l + skip = n
        /\ \A i \in 1 .. l : kept[i] = es[i + skip]
    <3>1. CASE n >= MaxEntries
      <4>1. es # <<>> /\ n # 0
        BY <1>1, <3>1
      <4>2. Tail(es) \in Seq(Cache!Entry) /\ Len(Tail(es)) = n - 1 /\ \A i \in 1 .. (n - 1) : Tail(es)[i] = es[i + 1]
        BY <1>1, <4>1
      <4> QED BY <1>1, <3>1, <4>1, <4>2
    <3>2. CASE ~(n >= MaxEntries)
      BY <1>1, <3>2
    <3> QED BY <3>1, <3>2
  <2>3. skip \in {0, 1}
    OBVIOUS
  <2> HIDE DEF kept, skip, l, n
  <2>4. \A i \in 1 .. l : i + skip \in 1 .. n
    BY <1>1, <2>2, <2>3
  <2>5. s \in Seq(Cache!Entry) /\ Len(s) = l + 1 /\ s[l + 1] = e /\ \A i \in 1 .. l : s[i] = kept[i]
    BY <2>1, <2>2 DEF l
  <2>6. \A i \in 1 .. l :
          /\ s[i] = es[i + skip]
          /\ ~Cache!SameKey(s[i].query, e.query) /\ ~Cache!SameKey(e.query, s[i].query)
    <3> SUFFICES ASSUME NEW i \in 1 .. l
                 PROVE  /\ s[i] = es[i + skip]
                        /\ ~Cache!SameKey(s[i].query, e.query)
                        /\ ~Cache!SameKey(e.query, s[i].query)
      OBVIOUS
    <3>1. s[i] = es[i + skip] /\ i + skip \in 1 .. n
      BY <2>2, <2>4, <2>5
    <3>2. ~Cache!SameKey(es[i + skip].query, e.query)
      BY <1>2, <1>6, <3>1
    <3> QED BY <3>1, <3>2 DEF Cache!SameKey
  <2>7. \A i \in 1 .. (l + 1) : i = l + 1 \/ i \in 1 .. l
    BY <2>2
  <2>8. ASSUME NEW i \in 1 .. (l + 1), NEW j \in 1 .. (l + 1), Cache!SameKey(s[i].query, s[j].query)
        PROVE  i = j
    <3>1. CASE i = l + 1 \/ j = l + 1
      BY <2>5, <2>6, <2>7, <2>8, <3>1
    <3>2. CASE i \in 1 .. l /\ j \in 1 .. l
      <4>1. Cache!SameKey(es[i + skip].query, es[j + skip].query)
        BY <2>6, <2>8, <3>2
      <4>2. i + skip = j + skip
        BY <2>4, <3>2, <4>1 DEF Distinct, n
      <4> QED BY <2>2, <2>3, <3>2, <4>2
    <3> QED BY <2>7, <3>1, <3>2
  <2>9. \A i \in 1 .. (l + 1) : s[i] = e \/ \E j \in 1 .. n : s[i] = es[j]
    BY <2>4, <2>5, <2>6, <2>7
  <2> DEFINE k == l + 1
  <2> HIDE DEF k
  <2>10. Len(s) = k /\ k <= MaxEntries
    BY <2>2, <2>5 DEF k
  <2>11. Distinct(s)
    BY <2>8, <2>10 DEF Distinct, k
  <2>12. \A i \in 1 .. Len(s) : s[i] = e \/ \E j \in 1 .. Len(es) : s[i] = es[j]
    BY <2>9, <2>10 DEF k, n
  <2> QED BY <2>5, <2>10, <2>11, <2>12
<1> QED BY <1>5, <1>6

(* What is served scores no less than any other candidate.                 *)
LEMMA BestIsServed ==
  ASSUME CacheAssumption, NEW es \in Seq(Cache!Entry), NEW q \in Cache!Query,
         Cache!Candidates(es, q) # {}, NEW b, b = Cache!Best(es, q)
  PROVE  /\ b \in 1 .. Len(es) /\ es[b].query.user = q.user /\ es[b].query.model = q.model
         /\ \A j \in 1 .. Len(es) :
              Cache!SameKey(es[j].query, q) => Score(q.text, es[b].query.text) = Exact
<1> DEFINE found == Cache!Candidates(es, q)
           n == Len(es)
           score(i) == Score(q.text, es[i].query.text)
<1>1. n \in Nat /\ DOMAIN es = 1 .. n /\ \A i \in 1 .. n : es[i] \in Cache!Entry
  OBVIOUS
<1>2. \A i \in 1 .. n : es[i].query \in Cache!Query /\ es[i].query.text \in Texts
  BY <1>1 DEF Cache!Entry, Cache!Query
<1>3. q.text \in Texts
  BY DEF Cache!Query
<1>4. /\ Exact \in Nat /\ MinScore \in 1 .. Exact
      /\ \A s, t \in Texts : Score(s, t) \in 0 .. Exact /\ Score(s, s) = Exact
  BY DEF CacheAssumption, Cache!ScoreAssumption
<1>5. \A i \in 1 .. n : score(i) \in 0 .. Exact
  BY <1>2, <1>3, <1>4
<1>6. found = {i \in 1 .. n :
                 es[i].query.user = q.user /\ es[i].query.model = q.model /\ score(i) >= MinScore}
  BY <1>1 DEF Cache!Candidates
<1>7. b = CHOOSE i \in found : \A j \in found : score(j) < score(i) \/ (score(j) = score(i) /\ j <= i)
  BY DEF Cache!Best
<1>8. found # {} /\ \A i \in found : i \in 1 .. n /\ i \in Nat /\ score(i) \in Nat /\ score(i) <= Exact
  BY <1>1, <1>4, <1>5, <1>6
<1>9. ASSUME NEW j \in 1 .. n, Cache!SameKey(es[j].query, q)
      PROVE  j \in found /\ score(j) = Exact
  <2>1. es[j].query.user = q.user /\ es[j].query.model = q.model /\ es[j].query.text = q.text
    BY <1>9 DEF Cache!SameKey
  <2>2. score(j) = Exact
    BY <1>3, <1>4, <2>1
  <2>3. score(j) >= MinScore
    BY <1>4, <2>2
  <2> QED BY <1>6, <2>1, <2>2, <2>3
<1> HIDE DEF found, score, n
<1>10. \E i \in found : \A j \in found : score(j) < score(i) \/ (score(j) = score(i) /\ j <= i)
  <2> DEFINE Lack == {Exact - score(i) : i \in found}
  <2>1. Lack \in SUBSET Nat /\ Lack # {}
    BY <1>4, <1>8
  <2>2. PICK least \in Lack : \A x \in Lack : least <= x
    BY <2>1, LeastExists
  <2>3. PICK top \in found : least = Exact - score(top)
    BY <2>2
  <2>4. \A j \in found : score(j) <= score(top)
    <3> SUFFICES ASSUME NEW j \in found PROVE score(j) <= score(top)
      OBVIOUS
    <3>1. least <= Exact - score(j)
      BY <2>2
    <3> QED BY <1>4, <1>8, <2>3, <3>1
  <2> DEFINE After == {n - i : i \in {j \in found : score(j) = score(top)}}
  <2>5. After \in SUBSET Nat /\ After # {}
    BY <1>1, <1>8, <2>3
  <2>6. PICK latest \in After : \A x \in After : latest <= x
    BY <2>5, LeastExists
  <2>7. PICK i \in found : score(i) = score(top) /\ latest = n - i
    BY <2>6
  <2>8. ASSUME NEW j \in found PROVE score(j) < score(i) \/ (score(j) = score(i) /\ j <= i)
    <3>1. score(j) \in Nat /\ score(i) \in Nat /\ j \in Nat /\ i \in Nat /\ n \in Nat
      BY <1>1, <1>8
    <3>2. CASE score(j) = score(top)
      <4>1. latest <= n - j
        BY <2>6, <3>2
      <4> QED BY <2>7, <3>1, <3>2, <4>1
    <3>3. CASE score(j) # score(top)
      BY <2>4, <2>7, <3>1, <3>3
    <3> QED BY <3>2, <3>3
  <2> QED BY <2>7, <2>8
<1>11. b \in found /\ \A j \in found : score(j) < score(b) \/ (score(j) = score(b) /\ j <= b)
  BY <1>7, <1>10
<1>12. b \in 1 .. n /\ es[b].query.user = q.user /\ es[b].query.model = q.model
  BY <1>6, <1>11
<1>13. ASSUME NEW j \in 1 .. n, Cache!SameKey(es[j].query, q) PROVE score(b) = Exact
  <2>1. j \in found /\ score(j) = Exact
    BY <1>9, <1>13
  <2>2. score(b) \in Nat /\ score(b) <= Exact
    BY <1>8, <1>11
  <2>3. Exact < score(b) \/ Exact = score(b)
    BY <1>11, <2>1
  <2> QED BY <1>4, <2>2, <2>3
<1> QED BY <1>12, <1>13 DEF n, score

(* The type of the cache: TypeOK, with the entries as a sequence.          *)
CacheTyped ==
  /\ now \in 0 .. CacheTime
  /\ entries \in Seq(Cache!Entry) /\ Len(entries) <= MaxEntries
  /\ lookup \in [Turns -> [pc : {"idle", "asking", "served"}, attempt : BOOLEAN, query : Cache!Query,
                          served : Cache!Entry, score : 0 .. Exact]]

(* No entry is of the future and no key has two.                           *)
EntriesKept == Distinct(entries) /\ \A i \in 1 .. Len(entries) : entries[i].at <= now

ExactServed(t) ==
  \A i \in 1 .. Len(entries) :
    Cache!SameKey(entries[i].query, lookup[t].query) /\ entries[i].at < now /\ Fresh(entries[i])
    => lookup[t].score = Exact

(* What a turn was served is its own, fresh, and exact if it could be.     *)
ServedRight(t) ==
  /\ lookup[t].served.query.user = lookup[t].query.user
  /\ lookup[t].served.query.model = lookup[t].query.model
  /\ Fresh(lookup[t].served)
  /\ ExactServed(t)

CacheInv ==
  CacheTyped /\ EntriesKept /\ \A t \in Turns : lookup[t].pc = "served" => ServedRight(t)

(* Entries of the store that were in it before, or came just now.          *)
FromStore(es) ==
  \A i \in 1 .. Len(es) : es[i].at = now \/ \E j \in 1 .. Len(entries) : es[i] = entries[j]

CacheType ==
  [pc : {"idle", "asking", "served"}, attempt : BOOLEAN, query : Cache!Query,
   served : Cache!Entry, score : 0 .. Exact]

LEMMA IdleTyped ==
  ASSUME CacheAssumption
  PROVE  Cache!Idle \in CacheType /\ Cache!Idle.pc = "idle"
<1>1. PICK q : q \in Cache!Query
  BY DEF CacheAssumption
<1>2. (CHOOSE x \in Cache!Query : TRUE) \in Cache!Query
  BY <1>1
<1>3. q.model \in Models
  BY <1>1 DEF Cache!Query
<1>4. (CHOOSE m \in Models : TRUE) \in Models
  BY <1>3
<1>5. 0 \in 0 .. CacheTime /\ 0 \in 0 .. Exact
  BY DEF CacheAssumption, Cache!LimitAssumption, Cache!ScoreAssumption
<1>6. Cache!NoEntry \in Cache!Entry /\ Cache!NoEntry.query \in Cache!Query
  BY <1>2, <1>4, <1>5 DEF Cache!NoEntry, Cache!Entry
<1> QED BY <1>5, <1>6 DEF Cache!Idle, CacheType

(* What was served stays right while time stands still.                    *)
LEMMA ServedStays ==
  ASSUME CacheInv, NEW t \in Turns, lookup[t].pc = "served", now' = now, lookup'[t] = lookup[t],
         entries' \in Seq(Cache!Entry), FromStore(entries')
  PROVE  ServedRight(t)'
<1>1. ServedRight(t) /\ now \in Int
  BY DEF CacheInv, CacheTyped
<1>2. ExactServed(t)'
  <2> SUFFICES ASSUME NEW i \in 1 .. Len(entries'), Cache!SameKey(entries'[i].query, lookup[t].query),
                      entries'[i].at < now, Fresh(entries'[i])
               PROVE  lookup[t].score = Exact
    BY DEF ExactServed, Fresh, Cache!SameKey
  <2>1. entries'[i].at # now
    BY <1>1
  <2>2. PICK j \in 1 .. Len(entries) : entries'[i] = entries[j]
    BY <2>1 DEF FromStore
  <2> QED BY <1>1, <2>2 DEF ServedRight, ExactServed
<1> QED BY <1>1, <1>2 DEF ServedRight, Fresh

(* An empty store, and turns that asked nothing.                           *)
LEMMA CacheInit ==
  ASSUME CacheAssumption, Cache!Init
  PROVE  CacheInv
<1>1. entries = <<>> /\ now = 0 /\ lookup = [t \in Turns |-> Cache!Idle]
  BY DEF Cache!Init
<1>2. entries \in Seq(Cache!Entry) /\ Len(entries) = 0
  BY <1>1
<1>3. Cache!Idle \in CacheType /\ Cache!Idle.pc = "idle"
  BY IdleTyped
<1>4. CacheTyped
  BY <1>1, <1>2, <1>3 DEF CacheTyped, CacheType, CacheAssumption, Cache!LimitAssumption
<1>5. EntriesKept
  BY <1>2 DEF EntriesKept, Distinct
<1>6. \A t \in Turns : lookup[t].pc # "served"
  BY <1>1, <1>3
<1> QED BY <1>4, <1>5, <1>6 DEF CacheInv

(* The three facts that a step of a turn must leave.                       *)
LEMMA TurnStep ==
  ASSUME CacheInv, NEW t \in Turns, NEW r \in CacheType, now' = now,
         lookup' = [lookup EXCEPT ![t] = r],
         entries' \in Seq(Cache!Entry), Len(entries') <= MaxEntries, Distinct(entries'),
         FromStore(entries'), (r.pc = "served" => ServedRight(t)')
  PROVE  CacheInv'
<1>1. CacheTyped'
  BY DEF CacheInv, CacheTyped, CacheType
<1>2. EntriesKept'
  <2>1. Distinct(entries)'
    BY DEF Distinct, Cache!SameKey
  <2>2. ASSUME NEW i \in 1 .. Len(entries') PROVE entries'[i].at <= now'
    <3>1. now \in Int
      BY DEF CacheInv, CacheTyped
    <3> QED BY <2>2, <3>1 DEF CacheInv, EntriesKept, FromStore
  <2> QED BY <2>1, <2>2 DEF EntriesKept
<1>3. ASSUME NEW o \in Turns, lookup'[o].pc = "served" PROVE ServedRight(o)'
  <2>1. lookup \in [Turns -> CacheType]
    BY DEF CacheInv, CacheTyped, CacheType
  <2>2. CASE o = t
    BY <1>3, <2>1, <2>2
  <2>3. CASE o # t
    <3>1. lookup'[o] = lookup[o]
      BY <2>1, <2>3
    <3> QED BY <1>3, <3>1, ServedStays
  <2> QED BY <2>2, <2>3
<1> QED BY <1>1, <1>2, <1>3 DEF CacheInv

(* The entries as they are are from the store.                             *)
LEMMA EntriesFromStore ==
  ASSUME CacheInv
  PROVE  /\ entries \in Seq(Cache!Entry) /\ Len(entries) <= MaxEntries /\ Distinct(entries) /\ FromStore(entries)
         /\ now \in Nat
  BY DEF CacheInv, CacheTyped, EntriesKept, FromStore

(* A turn that goes on to the model.                                       *)
LEMMA AskTyped ==
  ASSUME CacheAssumption, NEW q \in Cache!Query, NEW stores \in BOOLEAN,
         NEW r, r = [Cache!Idle EXCEPT !.pc = "asking", !.attempt = stores, !.query = q]
  PROVE  r \in CacheType /\ r.pc = "asking"
  BY IdleTyped DEF CacheType

(* A lookup that fails leaves the store.                                   *)
LEMMA LookupFailsKeeps ==
  ASSUME CacheAssumption, CacheInv, NEW t \in Turns, NEW q \in Cache!Query, Cache!LookupFails(t, q)
  PROVE  CacheInv'
<1>1. PICK stores \in BOOLEAN : Cache!Ask(t, q, stores)
  BY DEF Cache!LookupFails
<1> DEFINE r == [Cache!Idle EXCEPT !.pc = "asking", !.attempt = stores, !.query = q]
<1>2. lookup' = [lookup EXCEPT ![t] = r] /\ entries' = entries /\ now' = now
  BY <1>1 DEF Cache!LookupFails, Cache!Ask
<1>3. r \in CacheType /\ r.pc # "served"
  BY AskTyped
<1> HIDE DEF r
<1> QED BY <1>2, <1>3, EntriesFromStore, TurnStep

(* What prune leaves of this store.                                        *)
LEMMA PrunedFromStore ==
  ASSUME CacheAssumption, CacheInv, NEW s, s = Cache!Pruned(entries)
  PROVE  /\ s \in Seq(Cache!Entry) /\ Len(s) <= MaxEntries /\ Distinct(s) /\ FromStore(s)
         /\ \A i \in 1 .. Len(s) : Fresh(s[i])
<1>1. TTL \in Nat /\ MaxEntries \in Nat
  BY DEF CacheAssumption, Cache!LimitAssumption
<1>2. /\ s \in Seq(Cache!Entry) /\ Len(s) <= Len(entries)
      /\ \A i \in 1 .. Len(s) : Fresh(s[i])
      /\ FoundIn(s, entries)
      /\ Distinct(s)
  <2>1. entries \in Seq(Cache!Entry) /\ Distinct(entries) /\ now \in Nat
    BY EntriesFromStore
  <2>2. Keeps(entries, Len(entries), s)
    BY <1>1, <2>1, PrunedKeeps
  <2> QED BY <2>1, <2>2, PrunedFits
<1>3. Len(s) \in Nat /\ Len(entries) \in Nat /\ Len(entries) <= MaxEntries
  BY <1>2, EntriesFromStore
<1>4. Len(s) <= MaxEntries
  BY <1>1, <1>2, <1>3
<1>5. FromStore(s)
  BY <1>2 DEF FromStore, FoundIn
<1> QED BY <1>2, <1>4, <1>5

(* A lookup prunes, and serves the best candidate or none.                 *)
LEMMA LookupKeeps ==
  ASSUME CacheAssumption, CacheInv, NEW t \in Turns, NEW q \in Cache!Query, Cache!Lookup(t, q)
  PROVE  CacheInv'
<1> DEFINE es == Cache!Pruned(entries)
<1>1. /\ es \in Seq(Cache!Entry) /\ Len(es) <= MaxEntries /\ Distinct(es) /\ FromStore(es)
      /\ \A i \in 1 .. Len(es) : Fresh(es[i])
  BY PrunedFromStore
<1>2. entries' = es /\ now' = now
  BY DEF Cache!Lookup
<1>3. CASE Cache!Candidates(es, q) = {}
  <2> DEFINE r == [Cache!Idle EXCEPT !.pc = "asking", !.attempt = TRUE, !.query = q]
  <2>1. lookup' = [lookup EXCEPT ![t] = r]
    BY <1>3 DEF Cache!Lookup, Cache!Ask
  <2>2. r \in CacheType /\ r.pc # "served"
    BY AskTyped
  <2> HIDE DEF r, es
  <2> QED BY <1>1, <1>2, <2>1, <2>2, TurnStep
<1>4. CASE Cache!Candidates(es, q) # {}
  <2> DEFINE b == Cache!Best(es, q)
             score == Score(q.text, es[b].query.text)
             r == [pc |-> "served", attempt |-> FALSE, query |-> q, served |-> es[b], score |-> score]
  <2>1. lookup' = [lookup EXCEPT ![t] = r]
    BY <1>4 DEF Cache!Lookup
  <2> HIDE DEF es
  <2>2. /\ b \in 1 .. Len(es) /\ es[b].query.user = q.user /\ es[b].query.model = q.model
        /\ \A j \in 1 .. Len(es) : Cache!SameKey(es[j].query, q) => score = Exact
    BY <1>1, <1>4, BestIsServed
  <2> HIDE DEF b
  <2>3. es[b] \in Cache!Entry /\ Fresh(es[b])
    BY <1>1, <2>2
  <2>4. score \in 0 .. Exact
    BY <2>3 DEF CacheAssumption, Cache!ScoreAssumption, Cache!Entry, Cache!Query
  <2> HIDE DEF score
  <2>5. r \in CacheType
    BY <2>3, <2>4 DEF CacheType
  <2>6. r.query = q /\ r.served = es[b] /\ r.score = score
    OBVIOUS
  <2> HIDE DEF r
  <2>7. lookup'[t] = r
    BY <2>1 DEF CacheInv, CacheTyped
  <2>8. ExactServed(t)'
    BY <1>2, <2>2, <2>6, <2>7 DEF ExactServed, Cache!SameKey
  <2>9. Fresh(lookup[t].served)'
    BY <1>2, <2>3, <2>6, <2>7 DEF Fresh
  <2>10. ServedRight(t)'
    BY <2>2, <2>6, <2>7, <2>8, <2>9 DEF ServedRight
  <2> QED BY <1>1, <1>2, <2>1, <2>5, <2>10, TurnStep
<1> QED BY <1>3, <1>4

(* An answer is stored in what prune leaves.                               *)
LEMMA AnswerKeeps ==
  ASSUME CacheAssumption, CacheInv, NEW t \in Turns, NEW by \in Models, Cache!Answer(t, by)
  PROVE  CacheInv'
<1>1. lookup' = [lookup EXCEPT ![t] = Cache!Idle] /\ now' = now
  BY DEF Cache!Answer
<1>2. Cache!Idle \in CacheType /\ Cache!Idle.pc # "served"
  BY IdleTyped
<1>3. CASE ~lookup[t].attempt
  <2>1. entries' = entries
    BY <1>3 DEF Cache!Answer
  <2> QED BY <1>1, <1>2, <2>1, EntriesFromStore, TurnStep
<1>4. CASE lookup[t].attempt
  <2> DEFINE es == Cache!Pruned(entries)
             e == [query |-> lookup[t].query, by |-> by, at |-> now]
             s == Cache!Stored(es, e)
  <2>1. entries' = s
    BY <1>4 DEF Cache!Answer
  <2>2. es \in Seq(Cache!Entry) /\ Len(es) <= MaxEntries /\ Distinct(es) /\ FromStore(es)
    BY PrunedFromStore
  <2>3. e \in Cache!Entry /\ e.at = now
    BY DEF CacheInv, CacheTyped, Cache!Entry
  <2>4. MaxEntries \in Nat \ {0}
    BY DEF CacheAssumption, Cache!LimitAssumption
  <2> HIDE DEF es, e
  <2>5. /\ s \in Seq(Cache!Entry) /\ Len(s) <= MaxEntries /\ Distinct(s)
        /\ \A i \in 1 .. Len(s) : s[i] = e \/ \E j \in 1 .. Len(es) : s[i] = es[j]
    BY <2>2, <2>3, <2>4, StoredFits
  <2> HIDE DEF s
  <2>6. FromStore(s)
    <3> SUFFICES ASSUME NEW i \in 1 .. Len(s)
                 PROVE  s[i].at = now \/ \E j \in 1 .. Len(entries) : s[i] = entries[j]
      BY DEF FromStore
    <3>1. CASE s[i] = e
      BY <2>3, <3>1
    <3>2. ASSUME NEW j \in 1 .. Len(es), s[i] = es[j]
          PROVE  s[i].at = now \/ \E k \in 1 .. Len(entries) : s[i] = entries[k]
      BY <2>2, <3>2 DEF FromStore
    <3> QED BY <2>5, <3>1, <3>2
  <2> QED BY <1>1, <1>2, <2>1, <2>5, <2>6, TurnStep
<1> QED BY <1>3, <1>4

(* A turn that stores nothing leaves the store.                            *)
LEMMA NothingStoredKeeps ==
  ASSUME CacheAssumption, CacheInv, NEW t \in Turns, Cache!NothingStored(t)
  PROVE  CacheInv'
<1>1. lookup' = [lookup EXCEPT ![t] = Cache!Idle] /\ now' = now /\ entries' = entries
  BY DEF Cache!NothingStored
<1>2. Cache!Idle \in CacheType /\ Cache!Idle.pc # "served"
  BY IdleTyped
<1> QED BY <1>1, <1>2, EntriesFromStore, TurnStep

(* Time goes on, and what was served is forgotten.                         *)
LEMMA CacheTickKeeps ==
  ASSUME CacheAssumption, CacheInv, Cache!Tick
  PROVE  CacheInv'
<1>1. /\ entries' = entries /\ now' = now + 1 /\ now < CacheTime
      /\ lookup' = [t \in Turns |-> IF lookup[t].pc = "served" THEN Cache!Idle ELSE lookup[t]]
  BY DEF Cache!Tick
<1>2. Cache!Idle \in CacheType /\ Cache!Idle.pc # "served"
  BY IdleTyped
<1>3. lookup \in [Turns -> CacheType] /\ now \in Nat /\ now \in 0 .. CacheTime /\ CacheTime \in Nat
  BY DEF CacheInv, CacheTyped, CacheType, CacheAssumption, Cache!LimitAssumption
<1>4. lookup' \in [Turns -> CacheType] /\ \A t \in Turns : lookup'[t].pc # "served"
  BY <1>1, <1>2, <1>3
<1>5. now' \in 0 .. CacheTime
  BY <1>1, <1>3
<1>6. CacheTyped'
  BY <1>1, <1>4, <1>5 DEF CacheInv, CacheTyped, CacheType
<1>7. EntriesKept'
  <2>1. Distinct(entries)'
    BY <1>1 DEF CacheInv, EntriesKept, Distinct, Cache!SameKey
  <2>2. ASSUME NEW i \in 1 .. Len(entries) PROVE entries[i].at <= now + 1
    <3>1. entries[i] \in Cache!Entry /\ entries[i].at <= now
      BY DEF CacheInv, CacheTyped, EntriesKept
    <3>2. entries[i].at \in Int
      BY <1>3, <3>1 DEF Cache!Entry
    <3> QED BY <1>3, <3>1, <3>2
  <2> QED BY <1>1, <2>1, <2>2 DEF EntriesKept
<1> QED BY <1>4, <1>6, <1>7 DEF CacheInv

(* Nothing moves.                                                          *)
LEMMA CacheStands ==
  ASSUME CacheInv, UNCHANGED Cache!vars
  PROVE  CacheInv'
<1>1. now' = now /\ entries' = entries /\ lookup' = lookup
  BY DEF Cache!vars
<1>2. CacheTyped' /\ EntriesKept'
  BY <1>1 DEF CacheInv, CacheTyped, EntriesKept, Distinct, Cache!SameKey
<1>3. \A t \in Turns : lookup[t].pc = "served" => ServedRight(t)'
  BY <1>1, EntriesFromStore, ServedStays
<1> QED BY <1>1, <1>2, <1>3 DEF CacheInv

(* The promises of the cache are parts of the invariant.                   *)
LEMMA CacheInvGives ==
  ASSUME CacheAssumption, CacheInv
  PROVE  /\ Cache!TypeOK /\ Cache!ServedToItsUser /\ Cache!ServedFresh
         /\ Cache!ExactBeforeSimilar /\ Cache!OneEntryPerKey
<1>1. DOMAIN entries = 1 .. Len(entries) /\ \A i \in DOMAIN entries : entries[i] \in Cache!Entry
  BY DEF CacheInv, CacheTyped
<1>2. Cache!TypeOK
  BY <1>1 DEF CacheInv, CacheTyped, Cache!TypeOK
<1>3. Cache!ServedToItsUser
  BY DEF CacheInv, ServedRight, Cache!ServedToItsUser, Cache!Served
<1>4. Cache!ServedFresh
  BY DEF CacheInv, ServedRight, Fresh, Cache!ServedFresh, Cache!Served
<1>5. Cache!ExactBeforeSimilar
  BY <1>1 DEF CacheInv, ServedRight, ExactServed, Fresh, Cache!ExactBeforeSimilar, Cache!Served
<1>6. Cache!OneEntryPerKey
  BY <1>1 DEF CacheInv, EntriesKept, Distinct, Cache!OneEntryPerKey
<1> QED BY <1>2, <1>3, <1>4, <1>5, <1>6

(* For any users, texts, scores, time to live and ceiling: an answer is    *)
(* served only to the user it was given to and for the model that was      *)
(* lookup, not past its time to live, never a similar one before the one to *)
(* the very text, and turns that miss together leave one entry of a        *)
(* context (Lookup, Store and prune of adapters/cache/inmem).              *)
THEOREM AnswersAsStored ==
  CacheAssumption =>
    (Cache!Spec => [](/\ Cache!TypeOK /\ Cache!ServedToItsUser /\ Cache!ServedFresh
                      /\ Cache!ExactBeforeSimilar /\ Cache!OneEntryPerKey))
<1> SUFFICES ASSUME CacheAssumption
             PROVE  Cache!Spec => [](/\ Cache!TypeOK /\ Cache!ServedToItsUser /\ Cache!ServedFresh
                                     /\ Cache!ExactBeforeSimilar /\ Cache!OneEntryPerKey)
  OBVIOUS
<1>1. Cache!Init => CacheInv
  BY CacheInit
<1>2. CacheInv /\ [Cache!Next]_Cache!vars => CacheInv'
  <2> SUFFICES ASSUME CacheInv, [Cache!Next]_Cache!vars PROVE CacheInv'
    OBVIOUS
  <2>1. CASE UNCHANGED Cache!vars
    BY <2>1, CacheStands
  <2>2. CASE Cache!Tick
    BY <2>2, CacheTickKeeps
  <2>3. ASSUME NEW t \in Turns, NEW q \in Cache!Query, Cache!Lookup(t, q) \/ Cache!LookupFails(t, q)
        PROVE  CacheInv'
    BY <2>3, LookupKeeps, LookupFailsKeeps
  <2>4. ASSUME NEW t \in Turns, (\E m \in Models : Cache!Answer(t, m)) \/ Cache!NothingStored(t)
        PROVE  CacheInv'
    BY <2>4, AnswerKeeps, NothingStoredKeeps
  <2> QED BY <2>1, <2>2, <2>3, <2>4 DEF Cache!Next
<1>3. CacheInv => /\ Cache!TypeOK /\ Cache!ServedToItsUser /\ Cache!ServedFresh
                  /\ Cache!ExactBeforeSimilar /\ Cache!OneEntryPerKey
  BY CacheInvGives
<1> QED BY <1>1, <1>2, <1>3, PTL DEF Cache!Spec
----------------------------------------------------------------------------
(* The path: what each component keeps alone it keeps on the path, where   *)
(* the part that moves is chosen once.                                     *)

LEMMA PartStays ==
  \A p \in {"limiter", "route", "cache", "call"} : [Next]_vars => (part = p <=> (part = p)')
  BY DEF Next, vars

(* However a turn meets the limiter, no interval sees more calls than a    *)
(* burst and the rate allow, and those that wait are let through a period  *)
(* apart (ratelimit.Bucket; FR-RL-001, FR-RL-003).                         *)
THEOREM PathRespectsLimit == Assumptions => (Spec => []LimitRespected)
<1> SUFFICES ASSUME Assumptions PROVE Spec => []LimitRespected
  OBVIOUS
<1>1. Init /\ part = "limiter" => Limiter!Init
  BY DEF Init
<1>2. [Next]_vars /\ part = "limiter" => [Limiter!Next]_Limiter!vars
  BY DEF Next, vars, limiterVars, Limiter!vars
<1>3. [Next]_vars => (part = "limiter" <=> (part = "limiter")')
  BY PartStays
<1>4. Limiter!Spec => []Limiter!LimitRespected
  BY LimitKept
<1>5. Limiter!Spec => [](Limiter!TypeOK /\ Limiter!TurnsSpaced)
  BY WaitsSpaced
<1>6. Limiter!LimitRespected /\ Limiter!TypeOK /\ Limiter!TurnsSpaced => LimitRespected
  BY DEF LimitRespected
<1>7. ~(part = "limiter") => LimitRespected
  BY DEF LimitRespected
<1> QED BY <1>1, <1>2, <1>3, <1>4, <1>5, <1>6, <1>7, PTL DEF Spec, Limiter!Spec

(* A turn fails only after every fallback that could answer was tried in   *)
(* order, no media go to a profile that does not take them, and the alias  *)
(* reported has the target that answered (engine.chat, router.Resolve).    *)
THEOREM PathTriesAll == RouteAssumption => (Spec => []AllTriedInOrder)
<1> SUFFICES ASSUME RouteAssumption PROVE Spec => []AllTriedInOrder
  OBVIOUS
<1>1. Init /\ part = "route" => Route!Init
  BY DEF Init
<1>2. [Next]_vars /\ part = "route" => [Route!Next]_Route!vars
  BY DEF Next, vars, routeVars, Route!vars
<1>3. [Next]_vars => (part = "route" <=> (part = "route")')
  BY PartStays
<1>4. Route!Spec => [](Route!MediaOnlyToCapable /\ Route!AllTriedInOrder /\ Route!ReportedModelAnswered)
  BY ChainIsFollowed
<1>5. Route!MediaOnlyToCapable /\ Route!AllTriedInOrder /\ Route!ReportedModelAnswered => AllTriedInOrder
  BY DEF AllTriedInOrder
<1>6. ~(part = "route") => AllTriedInOrder
  BY DEF AllTriedInOrder
<1> QED BY <1>1, <1>2, <1>3, <1>4, <1>5, <1>6, PTL DEF Spec, Route!Spec

(* However lookups and puts of turns interleave, an answer is served to    *)
(* the user and for the model it was given to, fresh, and never before the *)
(* one to the very text; turns that miss together leave one entry          *)
(* (semcache.Lookup, Put).                                                 *)
THEOREM PathServesAsStored == CacheAssumption => (Spec => []ServedAsStored)
<1> SUFFICES ASSUME CacheAssumption PROVE Spec => []ServedAsStored
  OBVIOUS
<1>1. Init /\ part = "cache" => Cache!Init
  BY DEF Init
<1>2. [Next]_vars /\ part = "cache" => [Cache!Next]_Cache!vars
  BY DEF Next, vars, cacheVars, Cache!vars
<1>3. [Next]_vars => (part = "cache" <=> (part = "cache")')
  BY PartStays
<1>4. Cache!Spec => [](/\ Cache!TypeOK /\ Cache!ServedToItsUser /\ Cache!ServedFresh
                       /\ Cache!ExactBeforeSimilar /\ Cache!OneEntryPerKey)
  BY AnswersAsStored
<1>5. (/\ Cache!TypeOK /\ Cache!ServedToItsUser /\ Cache!ServedFresh
       /\ Cache!ExactBeforeSimilar /\ Cache!OneEntryPerKey) => ServedAsStored
  BY DEF ServedAsStored
<1>6. ~(part = "cache") => ServedAsStored
  BY DEF ServedAsStored
<1> QED BY <1>1, <1>2, <1>3, <1>4, <1>5, <1>6, PTL DEF Spec, Cache!Spec

(* Whatever the policy, a call gives up for a cause, repeats nothing       *)
(* permanent but a 408 and waits a time that doubles up to the ceiling     *)
(* (retry.DoIf, Policy.delayFor, providerhttp.Retryable).                  *)
THEOREM PathRetriesForCause == Call!CallAssumption => (Spec => []RetriedForCause)
<1> SUFFICES ASSUME Call!CallAssumption PROVE Spec => []RetriedForCause
  OBVIOUS
<1>1. Init /\ part = "call" => Call!CallInit
  BY DEF Init, Anthropic!Init, Anthropic!CallInit, Call!CallInit
<1>2. [Next]_vars /\ part = "call" => [Call!CallNext]_Call!callVars
  BY DEF Next, vars, callVars, Call!callVars
<1>3. [Next]_vars => (part = "call" <=> (part = "call")')
  BY PartStays
<1>4. Call!CallSpec =>
        [](Call!CallTypeOK /\ Call!GivesUpForCause /\ Call!PermanentNotRepeated /\ Call!DelayIsExponential)
  BY RetriesForCause
<1>5. Call!CallTypeOK /\ Call!GivesUpForCause /\ Call!PermanentNotRepeated /\ Call!DelayIsExponential
      => RetriedForCause
  BY DEF RetriedForCause
<1>6. ~(part = "call") => RetriedForCause
  BY DEF RetriedForCause
<1> QED BY <1>1, <1>2, <1>3, <1>4, <1>5, <1>6, PTL DEF Spec, Call!CallSpec
=============================================================================
