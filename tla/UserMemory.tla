------------------------------ MODULE UserMemory ------------------------------
(***************************************************************************)
(* What a turn of ia-harness knows of its user besides the session: the    *)
(* facts of the memory store and the documents of the retriever, both of   *)
(* adapters/memory/inmem, whose index comes from the embedder              *)
(* (adapters/embed/openai).  Turns share the store and the index; a host   *)
(* writes and forgets facts meanwhile.                                     *)
(*                                                                         *)
(* A vector is its similarity to the query that is asked, 0 for none.      *)
(***************************************************************************)
EXTENDS Naturals, Sequences, SequencesExt, FiniteSets

CONSTANTS
  Users,       \* in the order of their names
  Docs,        \* the documents of each user, in the order of the host
  Similarity,  \* external: how similar the text of a document is to the query
  Turns, UserOf,
  RetrievalK,  \* retrievalK
  FactIds, NoTurn,
  MaxPuts      \* bound

DocsAssumption ==
  \A i \in DOMAIN Users :
    /\ Docs[Users[i]] \in Seq(DOMAIN Similarity)
    /\ \A d \in ToSet(Docs[Users[i]]) : Similarity[d] \in Nat \ {0}
TurnAssumption == NoTurn \notin Turns /\ \A t \in Turns : UserOf[t] \in ToSet(Users)

VARIABLES
  facts,       \* the facts of each user, in the order they came
  vectors,     \* the vectors of each user's documents
  ready,       \* the index is complete
  holder,      \* the turn that holds the mutex of the index, while it asks the embedder
  turn,        \* [pc, asks, cancelled, known, items] of each turn
  clock, puts,
  remembered   \* history: the text last given to each fact, 0 when there is none

memory == <<facts, clock, puts, remembered>>
index == <<vectors, ready, holder>>
vars == <<memory, index, turn>>
----------------------------------------------------------------------------
(* The embedder.                                                           *)

Texts == FlattenSeq([i \in DOMAIN Users |-> Docs[Users[i]]])

(* What a server may answer: the vectors in any order, one of them missing *)
(* or null, an index that is another's or out of range, or an error.       *)
Answers ==
  LET orders == {p \in [DOMAIN Texts -> DOMAIN Texts] : IsInjective(p)}
      whole == {[i \in DOMAIN Texts |-> [index |-> p[i], vector |-> Similarity[Texts[p[i]]]]] : p \in orders}
  IN  whole \cup {Front(data) : data \in whole} \cup {<<>>}
        \cup {[data EXCEPT ![1].vector = 0] : data \in whole}
        \cup {[data EXCEPT ![1].index = @ + 1] : data \in whole}

(* A vector that is null leaves its place free for another.                *)
Decodes(data) ==
  /\ Len(data) = Len(Texts)
  /\ \A i \in DOMAIN data :
       /\ data[i].index \in DOMAIN Texts
       /\ \A j \in 1 .. i - 1 : data[j].index = data[i].index => data[j].vector = 0

VectorOf(data, place) ==
  LET given == {i \in DOMAIN data : data[i].index = place /\ data[i].vector > 0}
  IN  IF given = {} THEN 0 ELSE data[CHOOSE i \in given : TRUE].vector
----------------------------------------------------------------------------
(* The retriever.                                                          *)

Offset(u) == LET i == CHOOSE i \in DOMAIN Users : Users[i] = u
             IN  Len(FlattenSeq([k \in 1 .. i - 1 |-> Docs[Users[k]]]))

(* Slip: the vectors are taken in the order of the answer.                 *)
IndexedAsAnswered(data) ==
  [u \in ToSet(Users) |-> [i \in DOMAIN Docs[u] |-> data[Offset(u) + i].vector]]

Indexed(data) ==
  [u \in ToSet(Users) |-> [i \in DOMAIN Docs[u] |-> VectorOf(data, Offset(u) + i)]]

Unindexed == [u \in ToSet(Users) |-> <<>>]

Before(a, b) == a.score > b.score \/ (a.score = b.score /\ a.id < b.id)
ByScore(scored) == SortSeq(scored, Before)

(* Slip: the documents are cut before they are sorted.                     *)
RankedLate(u) ==
  LET scored == [i \in DOMAIN Docs[u] |-> [id |-> Docs[u][i], score |-> vectors[u][i]]]
  IN  ByScore(IF RetrievalK < Len(scored) THEN SubSeq(scored, 1, RetrievalK) ELSE scored)

Ranked(u) ==
  LET scored == ByScore([i \in DOMAIN Docs[u] |-> [id |-> Docs[u][i], score |-> vectors[u][i]]])
  IN  IF RetrievalK < Len(scored) THEN SubSeq(scored, 1, RetrievalK) ELSE scored

(* NewRetriever has asked the embedder once, and ignored its failure.      *)
Init ==
  /\ \E data \in Answers :
       ready = Decodes(data) /\ vectors = IF Decodes(data) THEN Indexed(data) ELSE Unindexed
  /\ holder = NoTurn
  /\ facts = [u \in ToSet(Users) |-> <<>>] /\ clock = 1 /\ puts = 0
  /\ remembered = [u \in ToSet(Users) |-> [id \in FactIds |-> 0]]
  /\ turn = [t \in Turns |-> [pc |-> "idle", asks |-> FALSE, cancelled |-> FALSE,
                              known |-> <<>>, items |-> <<>>]]
----------------------------------------------------------------------------
(* The store of facts.                                                     *)

(* Slip: a fact that is known is added again.                              *)
PutAnew(known, id, now) ==
  Append(known, [id |-> id, text |-> puts + 1, created |-> now, updated |-> now])

PutIn(known, id, now) ==
  LET fresh == [id |-> id, text |-> puts + 1, created |-> now, updated |-> now]
      same == {i \in DOMAIN known : known[i].id = id}
  IN  IF same = {} THEN Append(known, fresh)
      ELSE [i \in DOMAIN known |-> IF i \in same THEN [fresh EXCEPT !.created = known[i].created] ELSE known[i]]

Put(u, id) ==
  /\ puts < MaxPuts /\ puts' = puts + 1
  /\ clock' \in {clock, clock + 1}
  /\ facts' = [facts EXCEPT ![u] = PutIn(@, id, clock')]
  /\ remembered' = [remembered EXCEPT ![u][id] = puts + 1]
  /\ UNCHANGED <<index, turn>>

Delete(u, id) ==
  /\ \E i \in DOMAIN facts[u] : facts[u][i].id = id /\ facts' = [facts EXCEPT ![u] = RemoveAt(@, i)]
  /\ remembered' = [remembered EXCEPT ![u][id] = 0]
  /\ UNCHANGED <<index, turn, clock, puts>>

(* Slip: in the order in which they were first given.                      *)
ListByAge(u) ==
  SortSeq(facts[u], LAMBDA f, g : f.created > g.created \/ (f.created = g.created /\ f.id < g.id))

List(u) ==
  SortSeq(facts[u], LAMBDA f, g : f.updated > g.updated \/ (f.updated = g.updated /\ f.id < g.id))
----------------------------------------------------------------------------
(* The turns.                                                              *)

At(t, place) == turn[t].pc = place
GoTo(t, place) == turn' = [turn EXCEPT ![t].pc = place]

(* Slip: the mutex is not given back.                                      *)
Keep(t) == UNCHANGED holder

Release(t) == holder' = IF holder = t THEN NoTurn ELSE holder

(* A turn begins: with what its user says, or, when it is taken up again,  *)
(* with no input.                                                          *)
Start(t, asks) ==
  /\ At(t, "idle")
  /\ turn' = [turn EXCEPT ![t].pc = "list", ![t].asks = asks]
  /\ UNCHANGED <<memory, index>>

(* The port of the host may fail; the turn goes on without the facts.      *)
ListFacts(t) ==
  /\ At(t, "list")
  /\ \E known \in {<<>>, List(UserOf[t])} : turn' = [turn EXCEPT ![t].pc = "retrieve", ![t].known = known]
  /\ UNCHANGED <<memory, index>>

Retrieve(t) ==
  /\ At(t, "retrieve")
  /\ GoTo(t, IF turn[t].asks /\ Docs[UserOf[t]] # <<>> THEN "lock" ELSE "done")
  /\ UNCHANGED <<memory, index>>

(* Slip: the mutex is not held while the embedder is asked.                *)
EnsureIndexUnlocked(t) ==
  /\ At(t, "lock")
  /\ GoTo(t, IF ready THEN "query" ELSE "index")
  /\ UNCHANGED <<memory, index>>

(* The mutex is waited for, whatever becomes of the turn's context.        *)
EnsureIndex(t) ==
  /\ At(t, "lock") /\ holder = NoTurn
  /\ GoTo(t, IF ready THEN "query" ELSE "index")
  /\ holder' = IF ready THEN holder ELSE t
  /\ UNCHANGED <<memory, vectors, ready>>

(* Slip: an answer that cannot be used counts as an index.                 *)
ReadyAnyway(t, data) == ready' = TRUE /\ vectors' = IF Decodes(data) THEN Indexed(data) ELSE vectors

Fill(t, data) ==
  ready' = (ready \/ Decodes(data)) /\ vectors' = IF Decodes(data) THEN Indexed(data) ELSE vectors

DocumentsEmbedded(t) ==
  /\ At(t, "index")
  /\ \E data \in Answers : Fill(t, data) /\ GoTo(t, IF Decodes(data) THEN "query" ELSE "done")
  /\ Release(t) /\ UNCHANGED memory

QueryEmbedded(t) ==
  /\ At(t, "query")
  /\ \E items \in {<<>>, Ranked(UserOf[t])} : turn' = [turn EXCEPT ![t].pc = "done", ![t].items = items]
  /\ UNCHANGED <<memory, index>>

(* The request to the embedder carries the context of its turn.            *)
EmbeddingCancelled(t) ==
  /\ At(t, "index") \/ At(t, "query")
  /\ turn[t].cancelled
  /\ GoTo(t, "done")
  /\ Release(t) /\ UNCHANGED <<memory, vectors, ready>>

Cancel(t) ==
  /\ ~At(t, "idle") /\ ~At(t, "done") /\ ~turn[t].cancelled
  /\ turn' = [turn EXCEPT ![t].cancelled = TRUE]
  /\ UNCHANGED <<memory, index>>

Host ==
  \/ \E u \in ToSet(Users), id \in FactIds : Put(u, id) \/ Delete(u, id)
  \/ \E t \in Turns : Cancel(t) \/ \E asks \in BOOLEAN : Start(t, asks)
Harness(t) == ListFacts(t) \/ Retrieve(t) \/ EnsureIndex(t) \/ EmbeddingCancelled(t)
Embedder(t) == DocumentsEmbedded(t) \/ QueryEmbedded(t)

Next == Host \/ \E t \in Turns : Harness(t) \/ Embedder(t)

Spec == Init /\ [][Next]_vars

(* Goroutines run, and a request whose context is cancelled returns; an    *)
(* embedder that is asked may take any time, unless AnsweringSpec says     *)
(* that it answers.                                                        *)
FairSpec == Spec /\ \A t \in Turns : WF_vars(Harness(t))
AnsweringSpec == FairSpec /\ \A t \in Turns : WF_vars(Embedder(t))
----------------------------------------------------------------------------
(* Properties.                                                             *)

(* A user's facts are what the host last gave and did not forget, each     *)
(* once, whatever other users' facts are called (FR-027, RN-1).            *)
FactsAreTheLatest ==
  \A u \in ToSet(Users) :
    LET kept == {id \in FactIds : remembered[u][id] > 0}
    IN  /\ {<<f.id, f.text>> : f \in ToSet(facts[u])} = {<<id, remembered[u][id]>> : id \in kept}
        /\ Len(facts[u]) = Cardinality(kept)

(* What a turn is told of its user is what is remembered at that moment,   *)
(* the latest text first (Store.List).                                     *)
ToldWhatIsRemembered ==
  \A t \in Turns : At(t, "list") /\ turn'[t].pc = "retrieve" /\ turn'[t].known # <<>> =>
    LET told == turn'[t].known  now == remembered[UserOf[t]]
    IN  /\ {f.text : f \in ToSet(told)} = {now[id] : id \in FactIds} \ {0}
        /\ \A i, j \in DOMAIN told : i < j /\ told[i].updated # told[j].updated => told[i].text > told[j].text

ListingIsCurrent == [][ToldWhatIsRemembered]_vars

(* The documents of a turn are its user's, each with the vector of its own *)
(* text, and the index gives no better one that was left out (FR-028).     *)
ItemsAreNearest ==
  \A t \in Turns : turn[t].items # <<>> =>
    LET items == turn[t].items  own == ToSet(Docs[UserOf[t]])
        chosen == {x.id : x \in ToSet(items)}
    IN  /\ chosen \subseteq own /\ Cardinality(chosen) = Len(items)
        /\ \A x \in ToSet(items) : x.score \in {0, Similarity[x.id]}
        /\ \A d \in own \ chosen : \A x \in ToSet(items) :
             \/ Similarity[d] <= x.score
             \/ \E i \in DOMAIN Docs[UserOf[t]] : Docs[UserOf[t]][i] = d /\ vectors[UserOf[t]][i] <= x.score

(* No query is ranked without an index, and nobody asks for an index that  *)
(* is there or that another is asking for.                                 *)
IndexedOnce ==
  \A t \in Turns :
    /\ At(t, "query") => \A u \in ToSet(Users) : Len(vectors[u]) = Len(Docs[u])
    /\ At(t, "index") => ~ready /\ \A o \in Turns \ {t} : ~At(o, "index")

(* With an embedder that answers, every turn gets past its memory.         *)
TurnsGoOn == \A t \in Turns : At(t, "list") ~> At(t, "done")

(* A turn that is cancelled ends, however long the embedder takes          *)
(* (FR-010, constitution §2).                                              *)
CancelledTurnsEnd == \A t \in Turns : turn[t].cancelled ~> At(t, "done")

(* A turn that reaches the model has what was found for it, unless the     *)
(* embedder failed it (FR-028).                                            *)
TurnsHaveTheirDocuments ==
  [][\A t \in Turns : At(t, "retrieve") /\ turn'[t].pc = "done" => Docs[UserOf[t]] = <<>>]_vars
=============================================================================
