------------------------------ MODULE SemCache ------------------------------
(***************************************************************************)
(* The semantic cache of ia-harness: eligible turns look for the answer to *)
(* a similar context before they call the model, and store what the model  *)
(* answers (prepareCache, lookupCache, saveCache), in a store with a time  *)
(* to live and a ceiling (adapters/cache/inmem).                           *)
(*                                                                         *)
(* A context is a text, which CanonicalText keeps, with its media, which   *)
(* it does not; Score is the cosine of the vectors of two texts.  The      *)
(* model and the embedder are external.                                    *)
(***************************************************************************)
EXTENDS Integers, Sequences, FiniteSets, SequencesExt

CONSTANTS
  Turns, Users, Texts, Media,
  Models,      \* a turn asks for one of them, another may answer (fallback)
  Score(_, _), \* on texts, in 0 .. Exact
  Exact, MinScore,
  TTL,         \* 0: entries do not expire
  MaxEntries,
  MaxTime      \* bound

ScoreAssumption ==
  /\ Exact \in Nat /\ MinScore \in 1 .. Exact
  /\ \A s, t \in Texts : Score(s, t) \in 0 .. Exact /\ Score(s, s) = Exact
LimitAssumption == TTL \in Nat /\ MaxEntries \in Nat \ {0} /\ MaxTime \in Nat

VARIABLES
  now,
  entries,   \* Store.entries
  turn       \* [pc, attempt, query, served, score]

vars == <<now, entries, turn>>

Query == [user : Users, model : Models, text : Texts, media : Media]
(* An entry is the query it was stored under, the model that answered and  *)
(* its instant.                                                            *)
Entry == [query : Query, by : Models, at : 0 .. MaxTime]

NoEntry == [query |-> CHOOSE q \in Query : TRUE, by |-> CHOOSE m \in Models : TRUE, at |-> 0]
Idle == [pc |-> "idle", attempt |-> FALSE, query |-> NoEntry.query, served |-> NoEntry,
         score |-> 0]

Init == now = 0 /\ entries = <<>> /\ turn = [t \in Turns |-> Idle]

SameKey(q, r) == q.user = r.user /\ q.model = r.model /\ q.text = r.text

(* Slip: an entry lives one instant more.                                  *)
PrunedLate(es) ==
  IF TTL = 0 THEN es ELSE SelectSeq(es, LAMBDA e : now - e.at <= TTL)

Pruned(es) ==
  LET kept[i \in 0 .. Len(es)] ==
        IF i = 0 THEN <<>>
        ELSE IF now - es[i].at < TTL THEN Append(kept[i - 1], es[i]) ELSE kept[i - 1]
  IN  IF TTL = 0 THEN es ELSE kept[Len(es)]

(* Slip: the user does not restrict the candidates.                        *)
CandidatesOfAll(es, q) ==
  {i \in DOMAIN es : es[i].query.model = q.model /\ Score(q.text, es[i].query.text) >= MinScore}

Candidates(es, q) ==
  {i \in DOMAIN es :
     /\ es[i].query.user = q.user /\ es[i].query.model = q.model
     /\ Score(q.text, es[i].query.text) >= MinScore}

(* Slip: the first candidate is served.                                    *)
BestFirst(es, q) == CHOOSE i \in Candidates(es, q) : \A j \in Candidates(es, q) : i <= j

(* The highest score, the last of equals.                                  *)
Best(es, q) ==
  LET found == Candidates(es, q)
      score(i) == Score(q.text, es[i].query.text) IN
  CHOOSE i \in found :
    \A j \in found : score(j) < score(i) \/ (score(j) = score(i) /\ j <= i)

Ask(t, q, attempt) == turn' = [turn EXCEPT ![t] = [Idle EXCEPT !.pc = "asking",
                                                     !.attempt = attempt, !.query = q]]

(* A turn whose embedding or lookup fails goes on to the model, the second *)
(* with an entry to store.                                                 *)
LookupFails(t, q) ==
  /\ turn[t].pc # "asking"
  /\ \E attempt \in BOOLEAN : Ask(t, q, attempt)
  /\ UNCHANGED <<now, entries>>

Lookup(t, q) ==
  LET es == Pruned(entries) IN
  /\ turn[t].pc # "asking"
  /\ entries' = es
  /\ IF Candidates(es, q) = {} THEN Ask(t, q, TRUE)
     ELSE LET found == es[Best(es, q)] IN
          turn' = [turn EXCEPT ![t] = [pc |-> "served", attempt |-> FALSE, query |-> q,
                     served |-> found, score |-> Score(q.text, found.query.text)]]
  /\ UNCHANGED now

(* Slip: an entry is added whatever the store holds.                       *)
StoredTwice(es, e) ==
  Append(IF Len(es) >= MaxEntries THEN Tail(es) ELSE es, e)

(* Slip: the ceiling is checked one entry late.                            *)
StoredOverCeiling(es, e) ==
  LET same == {i \in DOMAIN es : SameKey(es[i].query, e.query)} IN
  IF same # {} THEN [es EXCEPT ![CHOOSE i \in same : TRUE] = e]
  ELSE Append(IF Len(es) > MaxEntries THEN Tail(es) ELSE es, e)

(* A refreshed entry keeps its place; the first place is evicted.          *)
Stored(es, e) ==
  LET same == {i \in DOMAIN es : SameKey(es[i].query, e.query)} IN
  IF same # {} THEN [es EXCEPT ![CHOOSE i \in same : \A j \in same : i <= j] = e]
  ELSE Append(IF Len(es) >= MaxEntries THEN Tail(es) ELSE es, e)

(* The model asked for or a fallback answers, and saveCache runs.          *)
Answer(t, by) ==
  /\ turn[t].pc = "asking"
  /\ entries' = IF turn[t].attempt
                THEN Stored(Pruned(entries), [query |-> turn[t].query, by |-> by, at |-> now])
                ELSE entries
  /\ turn' = [turn EXCEPT ![t] = Idle]
  /\ UNCHANGED now

(* The call fails, or the answer has tool calls, or Store fails.           *)
NothingStored(t) ==
  /\ turn[t].pc = "asking"
  /\ turn' = [turn EXCEPT ![t] = Idle]
  /\ UNCHANGED <<now, entries>>

(* What a turn was served is forgotten when time goes on: a bound.         *)
Tick ==
  /\ now < MaxTime
  /\ now' = now + 1
  /\ turn' = [t \in Turns |-> IF turn[t].pc = "served" THEN Idle ELSE turn[t]]
  /\ UNCHANGED entries

Next ==
  \/ \E t \in Turns :
       \/ \E q \in Query : Lookup(t, q) \/ LookupFails(t, q)
       \/ (\E m \in Models : Answer(t, m)) \/ NothingStored(t)
  \/ Tick

Spec == Init /\ [][Next]_vars
----------------------------------------------------------------------------
(* Properties.                                                             *)

(* Every variable keeps its type and the ceiling holds (FR-SC-006).        *)
TypeOK ==
  /\ now \in 0 .. MaxTime
  /\ Len(entries) <= MaxEntries /\ \A i \in DOMAIN entries : entries[i] \in Entry
  /\ turn \in [Turns -> [pc : {"idle", "asking", "served"}, attempt : BOOLEAN, query : Query,
                         served : Entry, score : 0 .. Exact]]

Served(t) == turn[t].pc = "served"

(* An answer never reaches another user (FR-SC-008), nor a turn that asks  *)
(* for another model.                                                      *)
ServedToItsUser ==
  \A t \in Turns : Served(t) =>
    turn[t].served.query.user = turn[t].query.user /\ turn[t].served.query.model = turn[t].query.model

(* No answer is served past its time to live, whenever it was stored and   *)
(* whatever refreshed the entry (FR-SC-006).                               *)
ServedFresh == \A t \in Turns : Served(t) /\ TTL > 0 => now - turn[t].served.at < TTL

(* Turns that miss the same context together leave one entry of it.        *)
OneEntryPerKey ==
  \A i, j \in DOMAIN entries : SameKey(entries[i].query, entries[j].query) => i = j

(* An entry of the very text is served before a similar one.               *)
ExactBeforeSimilar ==
  \A t \in Turns : \A i \in DOMAIN entries :
    Served(t) /\ SameKey(entries[i].query, turn[t].query) /\ entries[i].at < now
      /\ (TTL = 0 \/ now - entries[i].at < TTL)
    => turn[t].score = Exact

(* The ceiling removes the oldest entries (FR-SC-006).                     *)
EvictsOldest ==
  [][TTL = 0 => \A i \in DOMAIN entries :
       (\A j \in DOMAIN entries' : ~SameKey(entries'[j].query, entries[i].query))
       => \A j \in DOMAIN entries : entries[i].at <= entries[j].at]_vars

(* An answer is kept under the model that gave it (FR-SC-003).             *)
KeptUnderItsModel == \A i \in DOMAIN entries : entries[i].by = entries[i].query.model

(* A turn is served only an answer to a context with its own media.        *)
ServedForItsMedia == \A t \in Turns : Served(t) => turn[t].served.query.media = turn[t].query.media
=============================================================================
