------------------------ MODULE AgentDelegationProofs ------------------------
(***************************************************************************)
(* Delegation for any agents, policies, batches and number of sessions:    *)
(* sub-turns live inside the call that started them, what passes between a *)
(* turn and its sub-turn is neither a failure nor a right, a delegation is *)
(* no deeper than the limit, and a cancellation reaches what is below it.  *)
(***************************************************************************)
EXTENDS AgentDelegation, FiniteSetTheorems, DataInduction, TLAPS

Assumptions == DelegationAssumption /\ AgentAssumption /\ PolicyAssumption

Tools == HostTools \cup {Delegate}
Questions == Tools \X (DOMAIN Agents \cup {None})   \* what a pause asks the host
Statuses == Ended \cup {"running", "waiting", "paused"}

Turns ==
  [agent : Roots \cup DOMAIN Agents, user : Users, parent : Nat, caller : Nat,
   depth : 0 .. MaxAgentDepth, status : Statuses, iterations : Nat, waits : SUBSET Nat,
   pending : {None} \cup Questions, cancelled : BOOLEAN, resumed : BOOLEAN,
   told : {"", "text", "no text", "error"}, event : {"", "running", "error", "completed"}]

(* Of any sequence of turns: each was started by an earlier one, waits for *)
(* later ones, and waits exactly when it has a sub-turn that has not       *)
(* returned to it.                                                         *)
Ordered(ts) ==
  \A i \in DOMAIN ts : /\ ts[i].caller \in 0 .. (i - 1) /\ ts[i].parent \in 0 .. (i - 1)
                       /\ ts[i].waits \subseteq (i + 1) .. Len(ts)
                       /\ ts[i].status = "paused" => ts[i].pending \in Questions

Nested(ts) ==
  \A i \in DOMAIN ts :
    /\ ts[i].status = "waiting" <=> ts[i].waits # {}
    /\ \A c \in ts[i].waits : ts[c].caller = i /\ ts[c].told = "" /\ ts[c].user = ts[i].user
    /\ (ts[i].caller # 0 /\ ts[i].told = "") => i \in ts[ts[i].caller].waits

Well(ts) == ts \in Seq(Turns) /\ Ordered(ts) /\ Nested(ts)

DelegationInv == policy \in Policies /\ Well(turns)

(* The turns keep what they were told, and more may follow them.           *)
KeepsTold(ts, us) ==
  Len(ts) <= Len(us) /\ \A i \in DOMAIN ts : us[i].told = ts[i].told

----------------------------------------------------------------------------
(* Changes of a sequence of turns.                                         *)

LEMMA SequenceFacts ==
  ASSUME NEW ts, Well(ts)
  PROVE  /\ ts \in Seq(Turns) /\ Ordered(ts) /\ Nested(ts)
         /\ DOMAIN ts = 1 .. Len(ts) /\ Len(ts) \in Nat
         /\ \A i \in DOMAIN ts : ts[i] \in Turns
<1>1. ts \in Seq(Turns) /\ Ordered(ts) /\ Nested(ts)
  BY DEF Well
<1>2. DOMAIN ts = 1 .. Len(ts) /\ Len(ts) \in Nat
  BY <1>1
<1> QED BY <1>1, <1>2

LEMMA Replaced ==
  ASSUME NEW ts \in Seq(Turns), NEW i \in DOMAIN ts, NEW r \in Turns
  PROVE  /\ [ts EXCEPT ![i] = r] \in Seq(Turns) /\ Len([ts EXCEPT ![i] = r]) = Len(ts)
         /\ DOMAIN [ts EXCEPT ![i] = r] = DOMAIN ts /\ [ts EXCEPT ![i] = r][i] = r
         /\ \A j \in DOMAIN ts : j # i => [ts EXCEPT ![i] = r][j] = ts[j]
  OBVIOUS

LEMMA TurnFacts ==
  ASSUME NEW ts, Well(ts), NEW i \in DOMAIN ts
  PROVE  /\ DOMAIN ts = 1 .. Len(ts) /\ Len(ts) \in Nat /\ i \in Nat /\ ts[i] \in Turns
         /\ ts[i].caller \in 0 .. (i - 1) /\ ts[i].parent \in 0 .. (i - 1)
         /\ ts[i].waits \subseteq DOMAIN ts /\ i \notin ts[i].waits
         /\ ts[i].caller # 0 => ts[i].caller \in DOMAIN ts /\ ts[i].caller # i
         /\ ts[i].status = "paused" => ts[i].pending \in Questions
         /\ ts[i].status = "waiting" <=> ts[i].waits # {}
<1>1. DOMAIN ts = 1 .. Len(ts) /\ Len(ts) \in Nat /\ ts[i] \in Turns /\ i \in Nat
  BY DEF Well
<1>2. /\ ts[i].caller \in 0 .. (i - 1) /\ ts[i].parent \in 0 .. (i - 1)
      /\ ts[i].waits \subseteq (i + 1) .. Len(ts)
      /\ ts[i].status = "paused" => ts[i].pending \in Questions
  BY DEF Well, Ordered
<1>3. ts[i].status = "waiting" <=> ts[i].waits # {}
  BY DEF Well, Nested
<1> QED BY <1>1, <1>2, <1>3

LEMMA SubTurnOf ==
  ASSUME NEW ts, Nested(ts), NEW i \in DOMAIN ts, NEW c \in ts[i].waits
  PROVE  ts[c].caller = i /\ ts[c].told = "" /\ ts[c].user = ts[i].user
  BY DEF Nested

LEMMA WaitedFor ==
  ASSUME NEW ts, Nested(ts), NEW i \in DOMAIN ts, ts[i].caller # 0, ts[i].told = ""
  PROVE  i \in ts[ts[i].caller].waits
  BY DEF Nested

(* One turn moves and keeps its place among the others; it may leave a     *)
(* caller that it has returned to.                                         *)
Moves(t, r) ==
  /\ r \in Turns
  /\ r.parent = t.parent /\ r.user = t.user /\ r.told = t.told /\ r.waits = t.waits
  /\ r.caller = t.caller \/ (r.caller = 0 /\ t.told # "")
  /\ r.status = "waiting" <=> r.waits # {}
  /\ r.status = "paused" => r.pending \in Questions

LEMMA OneTurn ==
  ASSUME NEW ts, Well(ts), NEW i \in DOMAIN ts, NEW r, Moves(ts[i], r)
  PROVE  Well([ts EXCEPT ![i] = r]) /\ KeepsTold(ts, [ts EXCEPT ![i] = r])
<1>1. /\ ts \in Seq(Turns) /\ DOMAIN ts = 1 .. Len(ts) /\ Len(ts) \in Nat
      /\ i \in Nat /\ i > 0 /\ Ordered(ts) /\ Nested(ts) /\ r \in Turns
  <2>1. r \in Turns
    BY DEF Moves
  <2>2. ts \in Seq(Turns) /\ Ordered(ts) /\ Nested(ts)
    BY DEF Well
  <2>3. DOMAIN ts = 1 .. Len(ts) /\ Len(ts) \in Nat
    BY <2>2
  <2> QED BY <2>1, <2>2, <2>3
<1> DEFINE us == [ts EXCEPT ![i] = r]
<1>2. us \in Seq(Turns) /\ Len(us) = Len(ts) /\ DOMAIN us = DOMAIN ts
  BY <1>1
<1>3. us[i] = r /\ \A j \in DOMAIN ts : j # i => us[j] = ts[j]
  BY <1>1
<1> HIDE DEF us
<1>4. Ordered(us)
  <2>1. 0 \in 0 .. (i - 1)
    BY <1>1
  <2>2. /\ r.caller \in 0 .. (i - 1) /\ r.parent \in 0 .. (i - 1)
        /\ r.waits \subseteq (i + 1) .. Len(ts)
        /\ r.status = "paused" => r.pending \in Questions
    BY <1>1, <2>1 DEF Ordered, Moves
  <2> QED BY <1>1, <1>2, <1>3, <2>2 DEF Ordered
<1>5. \A j \in DOMAIN ts : /\ us[j].waits = ts[j].waits /\ us[j].told = ts[j].told
                           /\ us[j].user = ts[j].user
                           /\ us[j].caller = ts[j].caller \/ (us[j].caller = 0 /\ ts[j].told # "")
  BY <1>3 DEF Moves
<1>6. \A j \in DOMAIN ts : us[j].status = "waiting" <=> us[j].waits # {}
  <2>1. r.status = "waiting" <=> r.waits # {}
    BY DEF Moves
  <2>2. \A j \in DOMAIN ts : ts[j].status = "waiting" <=> ts[j].waits # {}
    BY <1>1 DEF Nested
  <2> QED BY <1>3, <2>1, <2>2
<1>7. ASSUME NEW j \in DOMAIN ts, NEW c \in us[j].waits
      PROVE  us[c].caller = j /\ us[c].told = "" /\ us[c].user = us[j].user
  <2>1. c \in ts[j].waits /\ us[j].user = ts[j].user
    BY <1>5, <1>7
  <2>2. c \in DOMAIN ts
    BY <2>1, TurnFacts
  <2>3. ts[c].caller = j /\ ts[c].told = "" /\ ts[c].user = ts[j].user
    BY <1>1, <2>1, SubTurnOf
  <2> QED BY <1>5, <2>1, <2>2, <2>3
<1>8. ASSUME NEW j \in DOMAIN ts, us[j].caller # 0, us[j].told = ""
      PROVE  j \in us[us[j].caller].waits
  <2>1. us[j].caller = ts[j].caller /\ ts[j].told = "" /\ ts[j].caller # 0
    BY <1>5, <1>8
  <2>2. j \in ts[ts[j].caller].waits
    BY <1>1, <2>1, WaitedFor
  <2>3. ts[j].caller \in DOMAIN ts
    BY <2>1, TurnFacts
  <2> QED BY <1>5, <2>1, <2>2, <2>3
<1>9. Nested(us)
  BY <1>2, <1>6, <1>7, <1>8 DEF Nested
<1>10. Well(us)
  BY <1>2, <1>4, <1>9 DEF Well
<1>11. KeepsTold(ts, us)
  <2>1. Len(ts) <= Len(us)
    BY <1>1, <1>2
  <2> QED BY <1>5, <2>1 DEF KeepsTold
<1> QED BY <1>10, <1>11 DEF us

LEMMA NewTurnType ==
  ASSUME NEW agent \in Roots \cup DOMAIN Agents, NEW user \in Users, NEW p \in Nat,
         NEW d \in 0 .. MaxAgentDepth
  PROVE  /\ NewTurn(agent, user, p, d) \in Turns
         /\ NewTurn(agent, user, p, d).parent = p /\ NewTurn(agent, user, p, d).caller = p
         /\ NewTurn(agent, user, p, d).user = user /\ NewTurn(agent, user, p, d).told = ""
         /\ NewTurn(agent, user, p, d).status = "running" /\ NewTurn(agent, user, p, d).waits = {}
  BY DEF NewTurn, Turns, Statuses

(* A finite set has a numbering, so a batch has as many sub-turns as names.*)
LEMMA Numbering ==
  ASSUME NEW S, IsFiniteSet(S), S # {}
  PROVE  /\ Cardinality(S) \in Nat \ {0}
         /\ (CHOOSE f \in [1 .. Cardinality(S) -> S] :
               \A x, y \in DOMAIN f : f[x] = f[y] => x = y) \in [1 .. Cardinality(S) -> S]
<1>1. Cardinality(S) \in Nat /\ \E f : f \in Bijection(1 .. Cardinality(S), S)
  BY FS_CardinalityType DEF ExistsBijection
<1>2. Cardinality(S) # 0
  BY FS_EmptySet
<1>3. \E f \in [1 .. Cardinality(S) -> S] : \A x, y \in DOMAIN f : f[x] = f[y] => x = y
  BY <1>1 DEF Bijection, Injection, IsInjective
<1> QED BY <1>1, <1>2, <1>3

(* The turns stay as they are but the one that waits for those that are    *)
(* added, and these are one deeper than that.                              *)
Deeper(ts, us, i) ==
  /\ Len(ts) <= Len(us)
  /\ \A k \in DOMAIN ts : /\ us[k].parent = ts[k].parent /\ us[k].resumed = ts[k].resumed
                          /\ us[k].depth = ts[k].depth /\ us[k].iterations = ts[k].iterations
                          /\ us[k].status = ts[k].status \/ k = i
  /\ \A k \in DOMAIN us :
       k \notin DOMAIN ts =>
         us[k].parent = i /\ us[k].depth = ts[i].depth + 1 /\ us[k].depth \in 0 .. MaxAgentDepth

(* The sub-turns of a batch come after the others, each with its caller    *)
(* waiting for it.                                                         *)
LEMMA StartsKeeps ==
  ASSUME Assumptions, NEW ts, Well(ts), NEW i \in DOMAIN ts, NEW agents,
         ts[i].status = "running"
  PROVE  /\ Well(Starts(ts, i, agents)) /\ KeepsTold(ts, Starts(ts, i, agents))
         /\ Deeper(ts, Starts(ts, i, agents), i)
<1> DEFINE d == ts[i].depth
           names == IF Refused(d) THEN {} ELSE agents \cap DOMAIN Agents
           n == Cardinality(names)
           order == CHOOSE f \in [1 .. n -> names] : \A x, y \in DOMAIN f : f[x] = f[y] => x = y
           children == [k \in DOMAIN order |-> NewTurn(order[k], ts[i].user, i, d + 1)]
           l == Len(ts)
           r == [ts[i] EXCEPT !.status = "waiting", !.waits = (l + 1) .. (l + n)]
           us == [ts EXCEPT ![i] = r]
<1>1. Starts(ts, i, agents) = IF names = {} THEN ts ELSE us \o children
  <2>1. Starts(ts, i, agents) =
          IF names = {} THEN ts
          ELSE [ts EXCEPT ![i].status = "waiting", ![i].waits = (l + 1) .. (l + n)] \o children
    BY DEF Starts
  <2>2. [ts EXCEPT ![i].status = "waiting", ![i].waits = (l + 1) .. (l + n)] = us
    OBVIOUS
  <2> QED BY <2>1, <2>2
<1>2. /\ ts \in Seq(Turns) /\ Ordered(ts) /\ Nested(ts)
  BY DEF Well
<1>3. DOMAIN ts = 1 .. l /\ l \in Nat
  BY <1>2
<1>4. KeepsTold(ts, ts) /\ Deeper(ts, ts, i)
  BY <1>3 DEF KeepsTold, Deeper
<1>5. SUFFICES ASSUME names # {}
               PROVE  /\ Well(us \o children) /\ KeepsTold(ts, us \o children)
                      /\ Deeper(ts, us \o children, i)
  BY <1>1, <1>4
<1>6. /\ n \in Nat \ {0} /\ order \in [1 .. n -> names]
  <2>1. IsFiniteSet(names)
    BY FS_Subset, FS_EmptySet DEF Assumptions, AgentAssumption
  <2> HIDE DEF names
  <2> QED BY <1>5, <2>1, Numbering
<1>7. /\ ts[i] \in Turns /\ i \in Nat /\ i > 0
  BY <1>2, <1>3
<1>8. d \in 0 .. MaxAgentDepth /\ d + 1 \in 0 .. MaxAgentDepth
  <2>1. d \in 0 .. MaxAgentDepth /\ MaxAgentDepth \in Nat
    BY <1>7 DEF Turns, Assumptions, DelegationAssumption
  <2>2. ~(d + 1 > MaxAgentDepth)
    BY <1>5 DEF Refused
  <2> HIDE DEF d
  <2> QED BY <2>1, <2>2
<1>9. /\ children \in [1 .. n -> Turns]
      /\ \A k \in 1 .. n : /\ children[k] \in Turns /\ children[k].parent = i
                           /\ children[k].caller = i /\ children[k].user = ts[i].user
                           /\ children[k].told = "" /\ children[k].status = "running"
                           /\ children[k].waits = {} /\ children[k].depth = d + 1
  <2>1. ts[i].user \in Users
    BY <1>7 DEF Turns
  <2>2. \A k \in 1 .. n : order[k] \in Roots \cup DOMAIN Agents
    <3>1. names \subseteq DOMAIN Agents
      OBVIOUS
    <3> HIDE DEF names, order, n
    <3> QED BY <1>6, <3>1
  <2>3. DOMAIN order = 1 .. n
    BY <1>6
  <2>4. children = [k \in 1 .. n |-> NewTurn(order[k], ts[i].user, i, d + 1)]
    BY <2>3
  <2> HIDE DEF order, d, n, children
  <2>5. ASSUME NEW k \in 1 .. n
        PROVE  /\ children[k] \in Turns /\ children[k].parent = i
               /\ children[k].caller = i /\ children[k].user = ts[i].user
               /\ children[k].told = "" /\ children[k].status = "running"
               /\ children[k].waits = {} /\ children[k].depth = d + 1
    <3>1. children[k] = NewTurn(order[k], ts[i].user, i, d + 1)
      BY <2>4
    <3>2. PICK a, u, e : a = order[k] /\ u = ts[i].user /\ e = d + 1
      OBVIOUS
    <3>3. a \in Roots \cup DOMAIN Agents /\ u \in Users /\ e \in 0 .. MaxAgentDepth /\ i \in Nat
      BY <1>7, <1>8, <2>1, <2>2, <3>2
    <3>4. /\ NewTurn(a, u, i, e) \in Turns
          /\ NewTurn(a, u, i, e).parent = i /\ NewTurn(a, u, i, e).caller = i
          /\ NewTurn(a, u, i, e).user = u /\ NewTurn(a, u, i, e).told = ""
          /\ NewTurn(a, u, i, e).status = "running" /\ NewTurn(a, u, i, e).waits = {}
      BY <3>3, NewTurnType
    <3>5. NewTurn(a, u, i, e).depth = e
      BY DEF NewTurn
    <3> QED BY <3>1, <3>2, <3>4, <3>5
  <2>6. children \in [1 .. n -> Turns]
    BY <2>4, <2>5
  <2> QED BY <2>5, <2>6
<1>10. children \in Seq(Turns) /\ Len(children) = n
  <2>1. n \in Nat /\ children \in [1 .. n -> Turns]
    BY <1>6, <1>9
  <2> HIDE DEF children, n
  <2> QED BY <2>1
<1>11. /\ r \in Turns /\ r.status = "waiting" /\ r.waits = (l + 1) .. (l + n)
       /\ r.user = ts[i].user /\ r.told = ts[i].told
       /\ r.parent = ts[i].parent /\ r.caller = ts[i].caller
       /\ r.resumed = ts[i].resumed /\ r.depth = ts[i].depth /\ r.iterations = ts[i].iterations
  <2>1. (l + 1) .. (l + n) \in SUBSET Nat
    BY <1>3, <1>6
  <2> HIDE DEF n, l
  <2> QED BY <1>7, <2>1 DEF Turns, Statuses
<1> HIDE DEF names, n, order, children, r, d
<1>12. us \in Seq(Turns) /\ Len(us) = l /\ us[i] = r /\ \A j \in DOMAIN ts : j # i => us[j] = ts[j]
  BY <1>2, <1>3, <1>11
<1> HIDE DEF us, l
<1> DEFINE vs == us \o children
<1>13. /\ vs \in Seq(Turns) /\ Len(vs) = l + n /\ DOMAIN vs = 1 .. (l + n)
       /\ vs[i] = r /\ \A j \in DOMAIN ts : j # i => vs[j] = ts[j]
       /\ \A k \in 1 .. n : vs[l + k] = children[k]
  <2>1. n \in Nat /\ l \in Nat /\ i \in 1 .. l /\ DOMAIN ts = 1 .. l
    BY <1>3, <1>6
  <2>2. vs \in Seq(Turns) /\ Len(vs) = l + n
    BY <1>10, <1>12, <2>1
  <2>3. DOMAIN vs = 1 .. (l + n)
    BY <2>2
  <2>4. \A j \in 1 .. l : vs[j] = us[j]
    BY <1>10, <1>12, <2>1
  <2>5. \A k \in 1 .. n : vs[l + k] = children[k]
    BY <1>10, <1>12, <2>1
  <2> QED BY <1>12, <2>1, <2>2, <2>3, <2>4, <2>5
<1> HIDE DEF vs
<1>14. \A j \in 1 .. (l + n) : j \in DOMAIN ts \/ \E k \in 1 .. n : j = l + k
  <2> SUFFICES ASSUME NEW j \in 1 .. (l + n), j \notin 1 .. l PROVE \E k \in 1 .. n : j = l + k
    BY <1>3
  <2>1. j - l \in 1 .. n /\ j = l + (j - l)
    BY <1>3, <1>6
  <2> QED BY <2>1
<1>15. \A j \in DOMAIN ts : /\ vs[j].told = ts[j].told /\ vs[j].user = ts[j].user
                            /\ vs[j].caller = ts[j].caller /\ vs[j].parent = ts[j].parent
                            /\ j # i => vs[j].waits = ts[j].waits /\ vs[j].status = ts[j].status
                                        /\ vs[j].pending = ts[j].pending
  BY <1>11, <1>13
<1>16. ts[i].waits = {}
  BY <1>2 DEF Nested
<1>17. Ordered(vs)
  <2>1. ASSUME NEW j \in DOMAIN ts
        PROVE  /\ vs[j].caller \in 0 .. (j - 1) /\ vs[j].parent \in 0 .. (j - 1)
               /\ vs[j].waits \subseteq (j + 1) .. (l + n)
               /\ vs[j].status = "paused" => vs[j].pending \in Questions
    <3>1. /\ ts[j].caller \in 0 .. (j - 1) /\ ts[j].parent \in 0 .. (j - 1)
          /\ ts[j].waits \subseteq (j + 1) .. l
          /\ ts[j].status = "paused" => ts[j].pending \in Questions
      BY <1>2 DEF Ordered, l
    <3>2. (j + 1) .. l \subseteq (j + 1) .. (l + n)
      BY <1>3, <1>6
    <3>3. CASE j = i
      <4>1. (l + 1) .. (l + n) \subseteq (i + 1) .. (l + n)
        BY <1>3, <1>6, <1>7
      <4> QED BY <1>11, <1>13, <1>15, <3>1, <3>3, <4>1
    <3>4. CASE j # i
      BY <1>15, <3>1, <3>2, <3>4
    <3> QED BY <3>3, <3>4
  <2>2. ASSUME NEW k \in 1 .. n
        PROVE  /\ vs[l + k].caller \in 0 .. (l + k - 1) /\ vs[l + k].parent \in 0 .. (l + k - 1)
               /\ vs[l + k].waits \subseteq (l + k + 1) .. (l + n)
               /\ vs[l + k].status = "paused" => vs[l + k].pending \in Questions
    <3>1. i \in 0 .. (l + k - 1)
      BY <1>3, <1>6
    <3> QED BY <1>9, <1>13, <3>1
  <2>3. ASSUME NEW j \in 1 .. (l + n)
        PROVE  /\ vs[j].caller \in 0 .. (j - 1) /\ vs[j].parent \in 0 .. (j - 1)
               /\ vs[j].waits \subseteq (j + 1) .. (l + n)
               /\ vs[j].status = "paused" => vs[j].pending \in Questions
    <3>1. CASE j \in DOMAIN ts
      BY <2>1, <3>1
    <3>2. ASSUME NEW k \in 1 .. n, j = l + k
          PROVE  /\ vs[j].caller \in 0 .. (j - 1) /\ vs[j].parent \in 0 .. (j - 1)
                 /\ vs[j].waits \subseteq (j + 1) .. (l + n)
                 /\ vs[j].status = "paused" => vs[j].pending \in Questions
      <4>1. l + k - 1 = j - 1 /\ l + k + 1 = j + 1
        BY <1>3, <1>6, <3>2
      <4> QED BY <2>2, <3>2, <4>1
    <3> QED BY <1>14, <3>1, <3>2
  <2> QED BY <1>13, <2>3 DEF Ordered
<1>18. ASSUME NEW j \in 1 .. (l + n) PROVE vs[j].status = "waiting" <=> vs[j].waits # {}
  <2>1. CASE j = i
    <3>1. l + 1 \in (l + 1) .. (l + n)
      BY <1>3, <1>6
    <3> QED BY <1>11, <1>13, <2>1, <3>1
  <2>2. CASE j \in DOMAIN ts /\ j # i
    <3>1. ts[j].status = "waiting" <=> ts[j].waits # {}
      BY <1>2, <2>2 DEF Nested
    <3> QED BY <1>15, <2>2, <3>1
  <2>3. ASSUME NEW k \in 1 .. n, j = l + k PROVE vs[j].status = "waiting" <=> vs[j].waits # {}
    <3>1. children[k].status = "running" /\ children[k].waits = {} /\ vs[j] = children[k]
      BY <1>9, <1>13, <2>3
    <3> QED BY <3>1
  <2> QED BY <1>14, <2>1, <2>2, <2>3
<1>19. ASSUME NEW j \in 1 .. (l + n), NEW c \in vs[j].waits
       PROVE  vs[c].caller = j /\ vs[c].told = "" /\ vs[c].user = vs[j].user
  <2>1. CASE j = i
    <3>1. c \in (l + 1) .. (l + n)
      BY <1>11, <1>13, <1>19, <2>1
    <3>2. PICK k \in 1 .. n : c = l + k
      <4>1. c - l \in 1 .. n /\ c = l + (c - l)
        BY <1>3, <1>6, <3>1
      <4> QED BY <4>1
    <3>3. vs[c] = children[k] /\ vs[j].user = ts[i].user
      BY <1>11, <1>13, <2>1, <3>2
    <3> QED BY <1>9, <2>1, <3>3
  <2>2. CASE j \in DOMAIN ts /\ j # i
    <3>1. c \in ts[j].waits
      BY <1>15, <1>19, <2>2
    <3>2. c \in DOMAIN ts
      BY <2>2, <3>1, TurnFacts
    <3>3. ts[c].caller = j /\ ts[c].told = "" /\ ts[c].user = ts[j].user
      BY <1>2, <2>2, <3>1, SubTurnOf
    <3> QED BY <1>15, <2>2, <3>2, <3>3
  <2>3. ASSUME NEW k \in 1 .. n, j = l + k PROVE FALSE
    BY <1>9, <1>13, <1>19, <2>3
  <2> QED BY <1>14, <2>1, <2>2, <2>3
<1>20. ASSUME NEW j \in 1 .. (l + n), vs[j].caller # 0, vs[j].told = ""
       PROVE  j \in vs[vs[j].caller].waits
  <2>1. CASE j \in DOMAIN ts
    <3>1. ts[j].caller # 0 /\ ts[j].told = "" /\ vs[j].caller = ts[j].caller
      BY <1>15, <1>20, <2>1
    <3>2. j \in ts[ts[j].caller].waits
      BY <1>2, <2>1, <3>1, WaitedFor
    <3>3. ts[j].caller \in DOMAIN ts /\ ts[j].caller # i
      BY <1>16, <2>1, <3>1, <3>2, TurnFacts
    <3> QED BY <1>15, <3>1, <3>2, <3>3
  <2>2. ASSUME NEW k \in 1 .. n, j = l + k PROVE j \in vs[vs[j].caller].waits
    <3>1. l + k \in (l + 1) .. (l + n)
      BY <1>3, <1>6
    <3>2. vs[j].caller = i
      BY <1>9, <1>13, <2>2
    <3>3. vs[i].waits = (l + 1) .. (l + n)
      BY <1>11, <1>13
    <3> QED BY <2>2, <3>1, <3>2, <3>3
  <2> QED BY <1>14, <2>1, <2>2
<1>21. Nested(vs)
  BY <1>13, <1>18, <1>19, <1>20 DEF Nested
<1>22. Well(vs)
  BY <1>13, <1>17, <1>21 DEF Well
<1>23. KeepsTold(ts, vs)
  <2>1. Len(ts) <= Len(vs)
    BY <1>3, <1>6, <1>13 DEF l
  <2> QED BY <1>15, <2>1 DEF KeepsTold
<1>24. Deeper(ts, vs, i)
  <2>1. Len(ts) <= Len(vs)
    BY <1>3, <1>6, <1>13 DEF l
  <2>2. ASSUME NEW k \in DOMAIN ts
        PROVE  /\ vs[k].parent = ts[k].parent /\ vs[k].resumed = ts[k].resumed
               /\ vs[k].depth = ts[k].depth /\ vs[k].iterations = ts[k].iterations
               /\ vs[k].status = ts[k].status \/ k = i
    BY <1>11, <1>13
  <2>3. ASSUME NEW k \in DOMAIN vs, k \notin DOMAIN ts
        PROVE  vs[k].parent = i /\ vs[k].depth = ts[i].depth + 1 /\ vs[k].depth \in 0 .. MaxAgentDepth
    <3>1. PICK m \in 1 .. n : k = l + m
      BY <1>13, <1>14, <2>3
    <3>2. vs[k].parent = i /\ vs[k].depth = d + 1
      BY <1>9, <1>13, <3>1
    <3> QED BY <1>8, <3>2 DEF d
  <2> QED BY <2>1, <2>2, <2>3 DEF Deeper
<1> QED BY <1>22, <1>23, <1>24 DEF vs

(* A sub-turn returns: its caller waits for one less, and goes on when it  *)
(* waits for none.                                                         *)
Returned(ts, i, told, event) ==
  LET p == ts[i].caller
      rest == ts[p].waits \ {i}
  IN  [ts EXCEPT ![i].told = told, ![i].event = event, ![p].waits = rest,
                 ![p].status = IF rest = {} THEN "running" ELSE @]

MayReturn(t) == t.caller # 0 /\ t.told = ""

LEMMA ReturnKeeps ==
  ASSUME NEW ts, Well(ts), NEW i \in DOMAIN ts, MayReturn(ts[i]),
         NEW told \in {"text", "no text", "error"}, NEW event \in {"error", "completed"}
  PROVE  /\ Well(Returned(ts, i, told, event)) /\ Len(Returned(ts, i, told, event)) = Len(ts)
         /\ \A j \in DOMAIN ts : j # i => Returned(ts, i, told, event)[j].told = ts[j].told
         /\ Returned(ts, i, told, event)[ts[i].caller].status \in {"running", "waiting"}
<1> DEFINE p == ts[i].caller
           rest == ts[p].waits \ {i}
           st == IF rest = {} THEN "running" ELSE ts[p].status
           child == [ts[i] EXCEPT !.told = told, !.event = event]
           caller == [ts[p] EXCEPT !.waits = rest, !.status = st]
           us == [[ts EXCEPT ![i] = child] EXCEPT ![p] = caller]
<1>1. ts \in Seq(Turns) /\ Ordered(ts) /\ Nested(ts)
  BY SequenceFacts
<1>2. DOMAIN ts = 1 .. Len(ts) /\ Len(ts) \in Nat
  BY SequenceFacts
<1>3. p \in DOMAIN ts /\ p # i /\ i \in ts[p].waits
  <2>1. ts[i].caller # 0 /\ ts[i].told = ""
    BY DEF MayReturn
  <2>2. p \in DOMAIN ts /\ p # i
    BY <2>1, TurnFacts
  <2>3. i \in ts[p].waits
    BY <1>1, <2>1, WaitedFor
  <2> QED BY <2>2, <2>3
<1>4. ts[p].status = "waiting" /\ st \in {"running", "waiting"} /\ (st = "waiting" <=> rest # {})
  <2>1. ts[p].status = "waiting"
    BY <1>1, <1>3 DEF Nested
  <2> QED BY <2>1
<1>5. Returned(ts, i, told, event) = us
  <2>1. Returned(ts, i, told, event) =
          [ts EXCEPT ![i].told = told, ![i].event = event, ![p].waits = rest, ![p].status = st]
    BY <1>1, <1>2, <1>3 DEF Returned
  <2>2. [ts EXCEPT ![i].told = told, ![i].event = event, ![p].waits = rest, ![p].status = st] = us
    <3> HIDE DEF p, rest, st
    <3> QED BY <1>1, <1>2, <1>3
  <2> QED BY <2>1, <2>2
<1>6. /\ child \in Turns /\ child.told = told /\ child.user = ts[i].user
      /\ child.parent = ts[i].parent /\ child.caller = ts[i].caller /\ child.waits = ts[i].waits
      /\ child.status = ts[i].status /\ child.pending = ts[i].pending
  <2>1. ts[i] \in Turns
    BY SequenceFacts
  <2> QED BY <2>1 DEF Turns
<1>7. /\ caller \in Turns /\ caller.waits = rest /\ caller.status = st
      /\ caller.told = ts[p].told /\ caller.user = ts[p].user
      /\ caller.parent = ts[p].parent /\ caller.caller = ts[p].caller
      /\ caller.pending = ts[p].pending
  <2>1. ts[p] \in Turns
    BY <1>3, SequenceFacts
  <2>2. rest \in SUBSET Nat
    BY <2>1 DEF Turns
  <2> HIDE DEF p, rest, st
  <2> QED BY <1>4, <2>1, <2>2 DEF Turns, Statuses
<1> HIDE DEF child, caller, rest, st
<1>8. /\ us \in Seq(Turns) /\ Len(us) = Len(ts) /\ DOMAIN us = DOMAIN ts
      /\ us[i] = child /\ us[p] = caller
      /\ \A j \in DOMAIN ts : j # i /\ j # p => us[j] = ts[j]
  <2> HIDE DEF p
  <2> DEFINE ws == [ts EXCEPT ![i] = child]
  <2>1. /\ ws \in Seq(Turns) /\ Len(ws) = Len(ts) /\ DOMAIN ws = DOMAIN ts /\ ws[i] = child
        /\ \A j \in DOMAIN ts : j # i => ws[j] = ts[j]
    BY <1>1, <1>6, Replaced
  <2>2. us = [ws EXCEPT ![p] = caller]
    OBVIOUS
  <2> HIDE DEF ws, us
  <2>3. /\ us \in Seq(Turns) /\ Len(us) = Len(ws) /\ DOMAIN us = DOMAIN ws /\ us[p] = caller
        /\ \A j \in DOMAIN ws : j # p => us[j] = ws[j]
    BY <1>3, <1>7, <2>1, <2>2, Replaced
  <2> QED BY <1>3, <2>1, <2>3
<1> HIDE DEF us
<1>9. \A j \in DOMAIN ts : /\ us[j].user = ts[j].user /\ us[j].caller = ts[j].caller
                           /\ us[j].parent = ts[j].parent /\ us[j].pending = ts[j].pending
                           /\ j # i => us[j].told = ts[j].told
                           /\ j # p => us[j].waits = ts[j].waits
                           /\ j # p => us[j].status = ts[j].status
  BY <1>6, <1>7, <1>8
<1>10. us[i].told = told /\ us[p].waits = rest /\ us[p].status = st
  BY <1>6, <1>7, <1>8
<1>11. \A j \in DOMAIN ts : us[j].waits \subseteq ts[j].waits
  BY <1>9, <1>10 DEF rest
<1>12. Ordered(us)
  <2> SUFFICES ASSUME NEW j \in DOMAIN ts
               PROVE  /\ us[j].caller \in 0 .. (j - 1) /\ us[j].parent \in 0 .. (j - 1)
                      /\ us[j].waits \subseteq (j + 1) .. Len(ts)
                      /\ us[j].status = "paused" => us[j].pending \in Questions
    BY <1>8 DEF Ordered
  <2>1. /\ ts[j].caller \in 0 .. (j - 1) /\ ts[j].parent \in 0 .. (j - 1)
        /\ ts[j].waits \subseteq (j + 1) .. Len(ts)
        /\ ts[j].status = "paused" => ts[j].pending \in Questions
    BY <1>1 DEF Ordered
  <2>2. us[j].status = "paused" => ts[j].status = "paused"
    BY <1>4, <1>9, <1>10
  <2> QED BY <1>9, <1>11, <2>1, <2>2
<1>13. ASSUME NEW j \in DOMAIN ts PROVE us[j].status = "waiting" <=> us[j].waits # {}
  <2>1. ts[j].status = "waiting" <=> ts[j].waits # {}
    BY <1>1 DEF Nested
  <2>2. CASE j = p
    BY <1>4, <1>10, <2>2
  <2>3. CASE j # p
    BY <1>9, <2>1, <2>3
  <2> QED BY <2>2, <2>3
<1>14. ASSUME NEW j \in DOMAIN ts, NEW c \in us[j].waits
       PROVE  us[c].caller = j /\ us[c].told = "" /\ us[c].user = us[j].user
  <2>1. c \in ts[j].waits
    BY <1>11, <1>14
  <2>2. ts[c].caller = j /\ ts[c].told = "" /\ ts[c].user = ts[j].user
    BY <1>1, <2>1, SubTurnOf
  <2>3. c \in DOMAIN ts
    BY <2>1, TurnFacts
  <2>4. c # i
    BY <1>10, <1>14, <2>2 DEF rest
  <2> QED BY <1>9, <2>2, <2>3, <2>4
<1>15. ASSUME NEW j \in DOMAIN ts, us[j].caller # 0, us[j].told = ""
       PROVE  j \in us[us[j].caller].waits
  <2>1. j # i
    BY <1>10, <1>15
  <2>2. us[j].caller = ts[j].caller /\ ts[j].caller # 0 /\ ts[j].told = ""
    BY <1>9, <1>15, <2>1
  <2>3. j \in ts[ts[j].caller].waits
    BY <1>1, <2>2, WaitedFor
  <2>4. ts[j].caller \in DOMAIN ts
    BY <2>2, TurnFacts
  <2> QED BY <1>9, <1>10, <2>1, <2>2, <2>3, <2>4 DEF rest
<1>16. Nested(us)
  BY <1>8, <1>13, <1>14, <1>15 DEF Nested
<1>17. Well(us)
  BY <1>8, <1>12, <1>16 DEF Well
<1>18. us[p].status \in {"running", "waiting"}
  BY <1>4, <1>10
<1> QED BY <1>5, <1>8, <1>9, <1>17, <1>18 DEF p

(* A restart: what waits for the host is kept, everything else is over.    *)
Restarted(t) ==
  IF t.status = "paused" THEN [t EXCEPT !.caller = 0, !.depth = 0]
  ELSE [t EXCEPT !.waits = {}, !.status = IF @ \in {"running", "waiting"} THEN "lost" ELSE @,
                 !.caller = IF t.told = "" THEN 0 ELSE @]

LEMMA RestartKeeps ==
  ASSUME Assumptions, NEW ts, Well(ts)
  PROVE  LET us == [i \in DOMAIN ts |-> Restarted(ts[i])] IN Well(us) /\ KeepsTold(ts, us)
<1> DEFINE us == [i \in DOMAIN ts |-> Restarted(ts[i])]
<1>1. ts \in Seq(Turns) /\ Ordered(ts) /\ Nested(ts)
  BY DEF Well
<1>2. DOMAIN ts = 1 .. Len(ts) /\ Len(ts) \in Nat
  BY <1>1
<1>3. ASSUME NEW j \in DOMAIN ts
      PROVE  /\ us[j] \in Turns /\ us[j].told = ts[j].told /\ us[j].waits = {}
             /\ us[j].parent = ts[j].parent /\ us[j].caller \in {0, ts[j].caller}
             /\ us[j].caller # 0 => us[j].told # ""
             /\ us[j].status # "waiting"
             /\ us[j].status = "paused" => us[j].pending \in Questions
  <2>1. us[j] = Restarted(ts[j])
    OBVIOUS
  <2>2. PICK t \in Turns : t = ts[j]
    BY <1>1
  <2>3. 0 \in 0 .. MaxAgentDepth /\ {} \in SUBSET Nat
    BY DEF Assumptions, DelegationAssumption
  <2>4. /\ t.status = "waiting" <=> t.waits # {}
        /\ t.status = "paused" => t.pending \in Questions
    BY <1>1, <2>2 DEF Nested, Ordered
  <2>5. CASE t.status = "paused"
    <3>1. Restarted(t) = [t EXCEPT !.caller = 0, !.depth = 0]
      BY <2>5 DEF Restarted
    <3> DEFINE u == [t EXCEPT !.caller = 0, !.depth = 0]
    <3>2. /\ u \in Turns /\ u.told = t.told /\ u.waits = t.waits
          /\ u.parent = t.parent /\ u.caller = 0
          /\ u.status = t.status /\ u.pending = t.pending
      BY <2>3 DEF Turns
    <3> HIDE DEF u
    <3>3. us[j] = u
      BY <2>1, <2>2, <3>1 DEF u
    <3>4. t.waits = {} /\ t.pending \in Questions /\ "paused" # "waiting"
      BY <2>4, <2>5
    <3> QED BY <2>2, <2>5, <3>2, <3>3, <3>4
  <2>6. CASE t.status # "paused"
    <3> DEFINE s == IF t.status \in {"running", "waiting"} THEN "lost" ELSE t.status
               c == IF t.told = "" THEN 0 ELSE t.caller
    <3>1. Restarted(t) = [t EXCEPT !.waits = {}, !.status = s, !.caller = c]
      BY <2>6 DEF Restarted
    <3>2. s \in Ended /\ c \in Nat
      BY <2>6 DEF Turns, Statuses, Ended
    <3>3. c \in {0, t.caller} /\ (c # 0 => t.told # "")
      OBVIOUS
    <3>4. s \in Statuses /\ s \notin {"waiting", "paused"}
      BY <3>2 DEF Statuses, Ended
    <3> HIDE DEF s, c
    <3>5. /\ Restarted(t) \in Turns /\ Restarted(t).told = t.told /\ Restarted(t).waits = {}
          /\ Restarted(t).parent = t.parent /\ Restarted(t).caller = c
          /\ Restarted(t).status = s
      BY <2>3, <3>1, <3>2, <3>4 DEF Turns
    <3> QED BY <2>1, <2>2, <3>3, <3>4, <3>5
  <2> QED BY <2>5, <2>6
<1> HIDE DEF us
<1>4. us \in Seq(Turns) /\ Len(us) = Len(ts) /\ DOMAIN us = DOMAIN ts
  <2>1. us \in [1 .. Len(ts) -> Turns]
    BY <1>2, <1>3 DEF us
  <2> QED BY <1>2, <2>1
<1>5. Ordered(us)
  <2> SUFFICES ASSUME NEW j \in DOMAIN ts
               PROVE  /\ us[j].caller \in 0 .. (j - 1) /\ us[j].parent \in 0 .. (j - 1)
                      /\ us[j].waits \subseteq (j + 1) .. Len(us)
                      /\ us[j].status = "paused" => us[j].pending \in Questions
    BY <1>4 DEF Ordered
  <2>1. ts[j].caller \in 0 .. (j - 1) /\ ts[j].parent \in 0 .. (j - 1) /\ 0 \in 0 .. (j - 1)
    BY <1>1, <1>2 DEF Ordered
  <2> QED BY <1>3, <2>1
<1>6. Nested(us)
  BY <1>3, <1>4 DEF Nested
<1>7. KeepsTold(ts, us)
  <2>1. Len(ts) <= Len(us)
    BY <1>2, <1>4
  <2> QED BY <1>3, <2>1 DEF KeepsTold
<1> QED BY <1>4, <1>5, <1>6, <1>7 DEF Well, us

(* A host starts a turn, which waits for nobody and nobody for it.         *)
Fresh(r) == r.parent = 0 /\ r.caller = 0 /\ r.waits = {} /\ r.status = "running"

LEMMA AppendKeeps ==
  ASSUME NEW ts, Well(ts), NEW r \in Turns, Fresh(r)
  PROVE  Well(Append(ts, r)) /\ KeepsTold(ts, Append(ts, r))
<1> DEFINE us == Append(ts, r)
           l == Len(ts)
<1>1. ts \in Seq(Turns) /\ DOMAIN ts = 1 .. l /\ l \in Nat /\ Ordered(ts) /\ Nested(ts)
  BY SequenceFacts
<1>2. /\ us \in Seq(Turns) /\ Len(us) = l + 1 /\ DOMAIN us = 1 .. (l + 1) /\ us[l + 1] = r
      /\ \A j \in DOMAIN ts : us[j] = ts[j]
  BY <1>1
<1>3. \A j \in 1 .. (l + 1) : j \in DOMAIN ts \/ j = l + 1
  BY <1>1
<1>new. us[l + 1].parent = 0 /\ us[l + 1].caller = 0 /\ us[l + 1].waits = {} /\ us[l + 1].status = "running"
  BY <1>2 DEF Fresh
<1> HIDE DEF us, l
<1>4. Ordered(us)
  <2>1. ASSUME NEW j \in DOMAIN ts
        PROVE  /\ us[j].caller \in 0 .. (j - 1) /\ us[j].parent \in 0 .. (j - 1)
               /\ us[j].waits \subseteq (j + 1) .. (l + 1)
               /\ us[j].status = "paused" => us[j].pending \in Questions
    <3>1. /\ ts[j].caller \in 0 .. (j - 1) /\ ts[j].parent \in 0 .. (j - 1)
          /\ ts[j].waits \subseteq (j + 1) .. l
          /\ ts[j].status = "paused" => ts[j].pending \in Questions
      BY <1>1 DEF Ordered, l
    <3>2. (j + 1) .. l \subseteq (j + 1) .. (l + 1)
      BY <1>1
    <3> QED BY <1>2, <3>1, <3>2
  <2>2. 0 \in 0 .. (l + 1 - 1)
    BY <1>1
  <2> QED BY <1>new, <1>2, <1>3, <2>1, <2>2 DEF Ordered
<1>5. ASSUME NEW j \in 1 .. (l + 1) PROVE us[j].status = "waiting" <=> us[j].waits # {}
  <2>1. CASE j = l + 1
    BY <1>new, <2>1
  <2>2. CASE j \in DOMAIN ts
    <3>1. ts[j].status = "waiting" <=> ts[j].waits # {}
      BY <2>2, TurnFacts
    <3> QED BY <1>2, <2>2, <3>1
  <2> QED BY <1>3, <2>1, <2>2
<1>6. ASSUME NEW j \in 1 .. (l + 1), NEW c \in us[j].waits
      PROVE  us[c].caller = j /\ us[c].told = "" /\ us[c].user = us[j].user
  <2>1. j \in DOMAIN ts /\ us[j] = ts[j] /\ c \in ts[j].waits
    BY <1>new, <1>2, <1>3, <1>6
  <2>2. c \in DOMAIN ts
    BY <2>1, TurnFacts
  <2>3. ts[c].caller = j /\ ts[c].told = "" /\ ts[c].user = ts[j].user
    BY <1>1, <2>1, SubTurnOf
  <2> QED BY <1>2, <2>1, <2>2, <2>3
<1>7. ASSUME NEW j \in 1 .. (l + 1), us[j].caller # 0, us[j].told = ""
      PROVE  j \in us[us[j].caller].waits
  <2>1. j \in DOMAIN ts /\ us[j] = ts[j] /\ ts[j].caller # 0 /\ ts[j].told = ""
    BY <1>new, <1>2, <1>3, <1>7
  <2>2. ts[j].caller \in DOMAIN ts
    BY <2>1, TurnFacts
  <2>3. j \in ts[ts[j].caller].waits
    BY <1>1, <2>1, WaitedFor
  <2> QED BY <1>2, <2>1, <2>2, <2>3
<1>8. Nested(us)
  BY <1>2, <1>5, <1>6, <1>7 DEF Nested
<1>9. Well(us)
  BY <1>2, <1>4, <1>8 DEF Well
<1>10. KeepsTold(ts, us)
  <2>1. Len(ts) <= Len(us)
    BY <1>1, <1>2 DEF l
  <2> QED BY <1>2, <2>1 DEF KeepsTold
<1> QED BY <1>9, <1>10 DEF us

(* What the engine and the host do to one turn.                            *)
Asks(t) ==
  /\ t.status = "waiting" <=> t.waits # {}
  /\ t.status = "paused" => t.pending \in Questions

Resumed(t) ==
  [t EXCEPT !.status = "running", !.pending = None, !.iterations = 0,
            !.caller = 0, !.depth = 0, !.cancelled = FALSE, !.resumed = TRUE]

LEMMA TurnNumbers ==
  /\ \A t \in Turns : t.iterations + 1 \in Nat
  /\ DelegationAssumption => 0 \in 0 .. MaxAgentDepth
<1>1. ASSUME NEW t \in Turns PROVE t.iterations + 1 \in Nat
  <2>1. t.iterations \in Nat
    BY DEF Turns
  <2> QED BY <2>1
<1>2. ASSUME DelegationAssumption PROVE 0 \in 0 .. MaxAgentDepth
  BY <1>2 DEF DelegationAssumption
<1> QED BY <1>1, <1>2

LEMMA RunningMoves ==
  ASSUME NEW t \in Turns, Asks(t), t.status = "running"
  PROVE  /\ \A st \in Ended : Moves(t, [t EXCEPT !.status = st])
         /\ Moves(t, [t EXCEPT !.iterations = @ + 1])
         /\ \A q \in Questions :
              Moves(t, [t EXCEPT !.iterations = @ + 1, !.status = "paused", !.pending = q])
<1>1. t.waits = {} /\ "running" \notin {"waiting", "paused"}
  BY DEF Asks
<1>2. ASSUME NEW st \in Ended PROVE Moves(t, [t EXCEPT !.status = st])
  <2> DEFINE r == [t EXCEPT !.status = st]
  <2>1. st \in Statuses /\ st \notin {"waiting", "paused"}
    BY DEF Statuses, Ended
  <2>2. /\ r \in Turns /\ r.parent = t.parent /\ r.user = t.user /\ r.told = t.told
        /\ r.waits = t.waits /\ r.caller = t.caller /\ r.status = st
    BY <2>1 DEF Turns
  <2> HIDE DEF r
  <2>3. Moves(t, r)
    BY <1>1, <2>1, <2>2 DEF Moves
  <2> QED BY <2>3 DEF r
<1>3. Moves(t, [t EXCEPT !.iterations = @ + 1])
  <2> DEFINE n == t.iterations + 1
             r == [t EXCEPT !.iterations = n]
  <2>0. n \in Nat
    BY TurnNumbers
  <2> HIDE DEF n
  <2>1. /\ r \in Turns /\ r.parent = t.parent /\ r.user = t.user /\ r.told = t.told
        /\ r.waits = t.waits /\ r.caller = t.caller /\ r.status = t.status
    BY <2>0 DEF Turns
  <2> HIDE DEF r
  <2>2. Moves(t, r)
    BY <1>1, <2>1 DEF Moves
  <2> QED BY <2>2 DEF r, n
<1>4. ASSUME NEW q \in Questions
      PROVE  Moves(t, [t EXCEPT !.iterations = @ + 1, !.status = "paused", !.pending = q])
  <2> DEFINE n == t.iterations + 1
             r == [t EXCEPT !.iterations = n, !.status = "paused", !.pending = q]
  <2>0. n \in Nat /\ q \in {None} \cup Questions /\ "paused" \in Statuses
    BY TurnNumbers DEF Statuses
  <2> HIDE DEF n
  <2>1. /\ r \in Turns /\ r.parent = t.parent /\ r.user = t.user /\ r.told = t.told
        /\ r.waits = t.waits /\ r.caller = t.caller /\ r.status = "paused" /\ r.pending = q
    BY <2>0 DEF Turns
  <2> HIDE DEF r
  <2>2. Moves(t, r)
    BY <1>1, <2>1 DEF Moves
  <2> QED BY <2>2 DEF r, n
<1> QED BY <1>2, <1>3, <1>4

LEMMA CancelMoves ==
  ASSUME NEW t \in Turns, Asks(t)
  PROVE  Moves(t, [t EXCEPT !.cancelled = TRUE])
<1> DEFINE r == [t EXCEPT !.cancelled = TRUE]
<1>1. /\ r \in Turns /\ r.parent = t.parent /\ r.user = t.user /\ r.told = t.told
      /\ r.waits = t.waits /\ r.caller = t.caller /\ r.status = t.status /\ r.pending = t.pending
  BY DEF Turns
<1> HIDE DEF r
<1>2. Moves(t, r)
  BY <1>1 DEF Moves, Asks
<1> QED BY <1>2 DEF r

LEMMA ResumeMoves ==
  ASSUME DelegationAssumption, NEW t \in Turns, Asks(t), t.status = "paused", t.caller # 0 => t.told # ""
  PROVE  Moves(t, Resumed(t)) /\ Resumed(t).status = "running"
<1>1. t.waits = {}
  BY DEF Asks
<1>zero. 0 \in 0 .. MaxAgentDepth
  BY TurnNumbers
<1> DEFINE r == Resumed(t)
<1>2. /\ r \in Turns /\ r.parent = t.parent /\ r.user = t.user /\ r.told = t.told
      /\ r.waits = t.waits /\ r.caller = 0 /\ r.status = "running"
  BY <1>zero DEF Resumed, Turns, Statuses
<1> HIDE DEF r
<1>3. t.caller = 0 \/ t.told # ""
  OBVIOUS
<1>4. Moves(t, r)
  BY <1>1, <1>2, <1>3 DEF Moves
<1> QED BY <1>2, <1>4 DEF r
----------------------------------------------------------------------------
(* The steps.                                                              *)

LEMMA ToldNothing ==
  ASSUME KeepsTold(turns, turns') PROVE FailuresInside
  BY DEF KeepsTold, FailuresInside, Sessions

LEMMA TurnOf ==
  ASSUME DelegationInv, NEW i \in Sessions
  PROVE  /\ Well(turns) /\ i \in DOMAIN turns /\ turns \in Seq(Turns)
         /\ turns[i] \in Turns /\ Asks(turns[i])
<1>1. Well(turns) /\ i \in DOMAIN turns
  BY DEF DelegationInv, Sessions
<1> QED BY <1>1, SequenceFacts, TurnFacts DEF Asks

LEMMA RootTurn ==
  ASSUME DelegationAssumption, NEW agent \in Roots, NEW user \in Users
  PROVE  NewTurn(agent, user, 0, 0) \in Turns /\ Fresh(NewTurn(agent, user, 0, 0))
<1>1. 0 \in 0 .. MaxAgentDepth
  BY TurnNumbers
<1>2. NewTurn(agent, user, 0, 0) \in Turns
  BY <1>1 DEF NewTurn, Turns, Statuses
<1>3. Fresh(NewTurn(agent, user, 0, 0))
  BY DEF NewTurn, Fresh
<1> QED BY <1>2, <1>3

LEMMA HostRunsKeeps ==
  ASSUME Assumptions, DelegationInv, HostRuns
  PROVE  DelegationInv' /\ FailuresInside
<1>1. PICK agent \in Roots, user \in Users :
        turns' = Append(turns, NewTurn(agent, user, 0, 0)) /\ policy' = policy
  BY DEF HostRuns
<1> DEFINE r == NewTurn(agent, user, 0, 0)
<1>3. r \in Turns /\ Fresh(r)
  BY RootTurn DEF Assumptions
<1> HIDE DEF r
<1>4. Well(turns) /\ policy \in Policies
  BY DEF DelegationInv
<1>5. Well(Append(turns, r)) /\ KeepsTold(turns, Append(turns, r))
  BY <1>3, <1>4, AppendKeeps
<1>6. Well(turns') /\ KeepsTold(turns, turns')
  BY <1>1, <1>5 DEF r
<1> QED BY <1>1, <1>4, <1>6, ToldNothing DEF DelegationInv

(* A step that moves one turn and nothing else.                            *)
LEMMA MoveKeeps ==
  ASSUME DelegationInv, NEW i \in Sessions, NEW r, Moves(turns[i], r),
         turns' = [turns EXCEPT ![i] = r], policy' = policy
  PROVE  DelegationInv' /\ FailuresInside
<1>1. Well(turns) /\ i \in DOMAIN turns /\ policy \in Policies
  BY TurnOf DEF DelegationInv
<1>2. Well(turns') /\ KeepsTold(turns, turns')
  BY <1>1, OneTurn
<1> QED BY <1>1, <1>2, ToldNothing DEF DelegationInv

(* What ends, answers, pauses or cancels one turn.                         *)
LEMMA SingleKeeps ==
  ASSUME DelegationInv, NEW i \in Sessions,
         \/ Completes(i) \/ ModelFails(i) \/ Stops(i) \/ CallsTool(i) \/ Pauses(i)
         \/ HostCancels(i) \/ DelegationTimesOut(i)
  PROVE  DelegationInv' /\ FailuresInside
<1>1. turns[i] \in Turns /\ Asks(turns[i]) /\ turns \in Seq(Turns)
  BY TurnOf
<1>2. ASSUME NEW st \in Ended, turns[i].status = "running",
             turns' = [turns EXCEPT ![i].status = st], policy' = policy
      PROVE  DelegationInv' /\ FailuresInside
  <2>1. Moves(turns[i], [turns[i] EXCEPT !.status = st])
    BY <1>1, <1>2, RunningMoves
  <2>2. turns' = [turns EXCEPT ![i] = [turns[i] EXCEPT !.status = st]]
    BY <1>1, <1>2
  <2> QED BY <1>2, <2>1, <2>2, MoveKeeps
<1>3. CASE Completes(i)
  BY <1>2, <1>3 DEF Completes, Answering, Ended
<1>4. CASE ModelFails(i)
  BY <1>2, <1>4 DEF ModelFails, Ended
<1>5. CASE Stops(i)
  <2>1. (IF Live(i) THEN "out of iterations" ELSE "cancelled") \in Ended
    BY DEF Ended
  <2> QED BY <1>2, <1>5, <2>1 DEF Stops
<1>6. CASE CallsTool(i)
  <2>1. turns[i].status = "running" /\ turns' = Iterated(i) /\ policy' = policy
    BY <1>6 DEF CallsTool, Answering
  <2>2. Moves(turns[i], [turns[i] EXCEPT !.iterations = @ + 1])
    BY <1>1, <2>1, RunningMoves
  <2>3. turns' = [turns EXCEPT ![i] = [turns[i] EXCEPT !.iterations = @ + 1]]
    BY <1>1, <2>1 DEF Iterated
  <2> QED BY <2>1, <2>2, <2>3, MoveKeeps
<1>7. CASE Pauses(i)
  <2>1. turns[i].status = "running" /\ policy' = policy
    BY <1>7 DEF Pauses, Answering
  <2>2. PICK tool \in Catalog(turns[i].agent), agent \in DOMAIN Agents \cup {None} :
          turns' = [Iterated(i) EXCEPT ![i].status = "paused", ![i].pending = <<tool, agent>>]
    BY <1>7 DEF Pauses
  <2>3. <<tool, agent>> \in Questions
    BY DEF Catalog, FilterTools, Questions, Tools
  <2>4. PICK q \in Questions : q = <<tool, agent>>
    BY <2>3
  <2>5. turns' = [turns EXCEPT ![i] = [turns[i] EXCEPT !.iterations = @ + 1, !.status = "paused", !.pending = q]]
    BY <1>1, <2>2, <2>4 DEF Iterated
  <2>6. Moves(turns[i], [turns[i] EXCEPT !.iterations = @ + 1, !.status = "paused", !.pending = q])
    BY <1>1, <2>1, RunningMoves
  <2> QED BY <2>1, <2>5, <2>6, MoveKeeps
<1>8. CASE HostCancels(i) \/ DelegationTimesOut(i)
  <2>1. turns' = [turns EXCEPT ![i].cancelled = TRUE] /\ policy' = policy
    BY <1>8 DEF HostCancels, DelegationTimesOut
  <2>2. Moves(turns[i], [turns[i] EXCEPT !.cancelled = TRUE])
    BY <1>1, CancelMoves
  <2>3. turns' = [turns EXCEPT ![i] = [turns[i] EXCEPT !.cancelled = TRUE]]
    BY <1>1, <2>1
  <2> QED BY <2>1, <2>2, <2>3, MoveKeeps
<1> QED BY <1>3, <1>4, <1>5, <1>6, <1>7, <1>8

(* A step that moves a turn and starts sub-turns of it.                    *)
LEMMA MoveStartsKeeps ==
  ASSUME Assumptions, DelegationInv, NEW i \in Sessions, NEW r, Moves(turns[i], r),
         r.status = "running", NEW agents,
         turns' = Starts([turns EXCEPT ![i] = r], i, agents), policy' = policy
  PROVE  DelegationInv' /\ FailuresInside
<1> DEFINE us == [turns EXCEPT ![i] = r]
<1>1. Well(turns) /\ i \in DOMAIN turns /\ policy \in Policies /\ turns \in Seq(Turns)
  BY TurnOf DEF DelegationInv
<1>2. Well(us) /\ KeepsTold(turns, us)
  BY <1>1, OneTurn
<1>3. i \in DOMAIN us /\ us[i].status = "running"
  BY <1>1
<1>4. turns' = Starts(us, i, agents)
  OBVIOUS
<1> HIDE DEF us
<1>5. Well(turns') /\ KeepsTold(us, turns')
  BY <1>2, <1>3, <1>4, StartsKeeps
<1>6. Len(turns) \in Nat /\ Len(us) \in Nat /\ Len(turns') \in Nat
      /\ DOMAIN turns = 1 .. Len(turns) /\ DOMAIN us = 1 .. Len(us)
  BY <1>1, <1>2, <1>5, SequenceFacts
<1>7. KeepsTold(turns, turns')
  <2>1. Len(turns) <= Len(us) /\ Len(us) <= Len(turns')
    BY <1>2, <1>5 DEF KeepsTold
  <2>2. Len(turns) <= Len(turns') /\ DOMAIN turns \subseteq DOMAIN us
    BY <1>6, <2>1
  <2>3. \A j \in DOMAIN turns : turns'[j].told = turns[j].told
    BY <1>2, <1>5, <2>2 DEF KeepsTold
  <2> QED BY <2>2, <2>3 DEF KeepsTold
<1> QED BY <1>1, <1>5, <1>7, ToldNothing DEF DelegationInv

LEMMA DelegatesKeeps ==
  ASSUME Assumptions, DelegationInv, NEW i \in Sessions, Delegates(i)
  PROVE  DelegationInv' /\ FailuresInside
<1>1. turns[i] \in Turns /\ Asks(turns[i]) /\ turns \in Seq(Turns)
  BY TurnOf
<1>2. turns[i].status = "running" /\ policy' = policy
  BY DEF Delegates, Answering
<1>3. PICK agents \in SUBSET (DOMAIN Agents \cup {"nobody"}) : turns' = Starts(Iterated(i), i, agents)
  BY DEF Delegates
<1> DEFINE r == [turns[i] EXCEPT !.iterations = @ + 1]
<1>4. Moves(turns[i], r)
  BY <1>1, <1>2, RunningMoves
<1>5. Iterated(i) = [turns EXCEPT ![i] = r]
  BY <1>1 DEF Iterated
<1>6. r.status = "running"
  BY <1>1, <1>2 DEF Turns
<1> HIDE DEF r
<1>7. turns' = Starts([turns EXCEPT ![i] = r], i, agents)
  BY <1>3, <1>5
<1> QED BY <1>2, <1>4, <1>6, <1>7, MoveStartsKeeps

LEMMA ResolvesKeeps ==
  ASSUME Assumptions, DelegationInv, NEW i \in Sessions, Resolves(i)
  PROVE  DelegationInv' /\ FailuresInside
<1>1. turns[i] \in Turns /\ Asks(turns[i]) /\ turns \in Seq(Turns)
  BY TurnOf
<1>2. turns[i].status = "paused" /\ (turns[i].caller # 0 => turns[i].told # "") /\ policy' = policy
  BY DEF Resolves
<1> DEFINE r == Resumed(turns[i])
           resumed == [turns EXCEPT ![i].status = "running", ![i].pending = None, ![i].iterations = 0,
                         ![i].caller = 0, ![i].depth = 0, ![i].cancelled = FALSE, ![i].resumed = TRUE]
           agents == {turns[i].pending[2]}
<1>3. Moves(turns[i], r) /\ r.status = "running"
  BY <1>1, <1>2, ResumeMoves DEF Assumptions
<1>4. resumed = [turns EXCEPT ![i] = r]
  BY <1>1 DEF Resumed
<1>5. turns' = resumed \/ turns' = Starts(resumed, i, agents)
  BY DEF Resolves
<1> HIDE DEF r, resumed, agents
<1>6. CASE turns' = resumed
  BY <1>2, <1>3, <1>4, <1>6, MoveKeeps
<1>7. CASE turns' = Starts(resumed, i, agents)
  <2>1. turns' = Starts([turns EXCEPT ![i] = r], i, agents)
    BY <1>4, <1>7
  <2> QED BY <1>2, <1>3, <2>1, MoveStartsKeeps
<1> QED BY <1>5, <1>6, <1>7

(* The one step that tells a caller how its sub-turn ended.                *)
LEMMA ReturnsKeeps ==
  ASSUME DelegationInv, NEW i \in Sessions, Returns(i)
  PROVE  DelegationInv' /\ FailuresInside
<1>1. Well(turns) /\ i \in DOMAIN turns /\ policy \in Policies /\ turns \in Seq(Turns)
  BY TurnOf DEF DelegationInv
<1>2. MayReturn(turns[i]) /\ policy' = policy
  BY DEF Returns, MayReturn
<1>3. PICK told \in {"text", "no text", "error"} :
        turns' = Returned(turns, i, told, IF told = "error" THEN "error" ELSE "completed")
  <2> DEFINE word == CASE turns[i].status = "failed" -> "error"
                       [] turns[i].status = "completed" -> "text"
                       [] OTHER -> "no text"
  <2>1. word \in {"text", "no text", "error"}
    OBVIOUS
  <2>2. turns' = Returned(turns, i, word, IF word = "error" THEN "error" ELSE "completed")
    BY DEF Returns, Returned, BatchReturned, CallerGoesOn
  <2> QED BY <2>1, <2>2
<1> DEFINE event == IF told = "error" THEN "error" ELSE "completed"
<1>4. event \in {"error", "completed"}
  OBVIOUS
<1>5. turns' = Returned(turns, i, told, event)
  BY <1>3
<1> HIDE DEF event
<1>6. /\ Well(turns') /\ \A j \in DOMAIN turns : j # i => turns'[j].told = turns[j].told
      /\ turns'[turns[i].caller].status \in {"running", "waiting"}
  <2>1. Well(turns) /\ i \in DOMAIN turns
    BY <1>1
  <2>2. /\ Well(Returned(turns, i, told, event)) /\ Len(Returned(turns, i, told, event)) = Len(turns)
        /\ \A j \in DOMAIN turns : j # i => Returned(turns, i, told, event)[j].told = turns[j].told
        /\ Returned(turns, i, told, event)[turns[i].caller].status \in {"running", "waiting"}
    BY <1>2, <1>4, <2>1, ReturnKeeps, Zenon
  <2> QED BY <1>5, <2>2
<1>7. FailuresInside
  BY <1>6 DEF FailuresInside, Sessions
<1> QED BY <1>1, <1>2, <1>6, <1>7 DEF DelegationInv

LEMMA HostRestartsKeeps ==
  ASSUME Assumptions, DelegationInv, HostRestarts
  PROVE  DelegationInv' /\ FailuresInside
<1>1. Well(turns) /\ policy' \in Policies
  BY DEF DelegationInv, HostRestarts
<1>2. turns' = [i \in DOMAIN turns |-> Restarted(turns[i])]
  BY DEF HostRestarts, Restarted, Sessions
<1>3. Well(turns') /\ KeepsTold(turns, turns')
  BY <1>1, <1>2, RestartKeeps
<1> QED BY <1>1, <1>3, ToldNothing DEF DelegationInv

LEMMA StepKeeps ==
  ASSUME Assumptions, DelegationInv, [Next]_vars
  PROVE  DelegationInv' /\ FailuresInside
<1>1. CASE HostRuns
  BY <1>1, HostRunsKeeps
<1>2. CASE HostRestarts
  BY <1>2, HostRestartsKeeps
<1>3. ASSUME NEW i \in Sessions, Engine(i) \/ Host(i)
      PROVE  DelegationInv' /\ FailuresInside
  BY <1>3, SingleKeeps, DelegatesKeeps, ResolvesKeeps, ReturnsKeeps DEF Engine, Host
<1>4. CASE UNCHANGED vars
  BY <1>4 DEF vars, DelegationInv, FailuresInside, Sessions
<1> QED BY <1>1, <1>2, <1>3, <1>4 DEF Next

LEMMA InitDelegation == Init => DelegationInv
<1>1. <<>> \in Seq(Turns) /\ DOMAIN <<>> = {}
  OBVIOUS
<1>2. Well(<<>>)
  BY <1>1 DEF Well, Ordered, Nested
<1> QED BY <1>2 DEF Init, DelegationInv

(* The policy in force for an agent and the one of its own specification   *)
(* give it the same rights, whatever the host's policy says of the others. *)
OwnPolicy(agent) ==
  IF agent \in DOMAIN Agents /\ Agents[agent].policy # None
  THEN [default |-> policy.default, agents |-> [a \in {agent} |-> Agents[a].policy]]
  ELSE policy

LEMMA OwnRights ==
  ASSUME PolicyAssumption, policy \in Policies, NEW agent, NEW tool
  PROVE  Evaluate(OwnPolicy(agent), agent, tool) = Authorize(agent, tool)
<1>1. CASE ~(agent \in DOMAIN Agents /\ Agents[agent].policy # None)
  BY <1>1 DEF OwnPolicy, Authorize, EffectivePolicy
<1>2. CASE agent \in DOMAIN Agents /\ Agents[agent].policy # None
  <2> DEFINE own == OwnPolicy(agent)
             given == EffectivePolicy(agent)
             agents == [a \in DOMAIN policy.agents \cup {agent} |->
                          IF a = agent THEN Agents[agent].policy ELSE policy.agents[a]]
  <2>1. own = [default |-> policy.default, agents |-> [a \in {agent} |-> Agents[a].policy]]
    BY <1>2 DEF OwnPolicy
  <2>2. given = [policy EXCEPT !.agents = agents]
    BY <1>2 DEF EffectivePolicy
  <2>3. DOMAIN policy = {"default", "agents"}
    BY DEF PolicyAssumption
  <2>4. given.default = policy.default /\ given.agents = agents
    BY <2>2, <2>3
  <2>5. own.default = policy.default /\ own.agents = [a \in {agent} |-> Agents[a].policy]
    BY <2>1
  <2>6. AgentPolicy(own, agent) = Agents[agent].policy
    BY <2>5 DEF AgentPolicy
  <2>7. AgentPolicy(given, agent) = Agents[agent].policy
    BY <2>4 DEF AgentPolicy
  <2> HIDE DEF own, given
  <2>8. Evaluate(own, agent, tool) = Evaluate(given, agent, tool)
    BY <2>4, <2>5, <2>6, <2>7 DEF Evaluate
  <2> QED BY <2>8 DEF own, given, Authorize
<1> QED BY <1>1, <1>2

(* What a step executes it may: a call of the loop has its answer in the   *)
(* same step, and one that waited for the host has the host's.             *)
LEMMA ExecutionAllowed ==
  ASSUME PolicyAssumption, policy \in Policies, NEW i, NEW tool, NEW approved,
         tool \in Catalog(turns[i].agent),
         turns[i].status # "paused" => Authorize(turns[i].agent, tool).allowed,
         Authorize(turns[i].agent, tool).confirm => approved,
         ran' \subseteq ran \cup {Execution(i, tool, approved)}
  PROVE  RunsUnderOwnRights
<1> DEFINE r == Execution(i, tool, approved)
           agent == turns[i].agent
<1>1. r.turn = i /\ r.tool = tool /\ r.approved = approved
  BY DEF Execution
<1>2. Evaluate(OwnPolicy(agent), agent, tool) = Authorize(agent, tool)
  BY OwnRights
<1>3. \A x \in ran' \ ran : x = r
  OBVIOUS
<1> HIDE DEF r
<1>4. /\ r.tool \in Catalog(turns[r.turn].agent)
      /\ turns[r.turn].status # "paused"
           => Evaluate(OwnPolicy(turns[r.turn].agent), turns[r.turn].agent, r.tool).allowed
      /\ Evaluate(OwnPolicy(turns[r.turn].agent), turns[r.turn].agent, r.tool).confirm => r.approved
  BY <1>1, <1>2
<1> QED BY <1>3, <1>4 DEF RunsUnderOwnRights, OwnPolicy

LEMMA NothingRuns ==
  ASSUME ran' \subseteq ran PROVE RunsUnderOwnRights
  BY DEF RunsUnderOwnRights

LEMMA StepAllowed ==
  ASSUME Assumptions, DelegationInv, [Next]_vars
  PROVE  RunsUnderOwnRights
<1>1. PolicyAssumption /\ policy \in Policies
  BY DEF Assumptions, DelegationInv
<1>2. ASSUME NEW i \in Sessions, CallsTool(i) PROVE RunsUnderOwnRights
  <2>1. PICK tool \in Catalog(turns[i].agent), approved \in BOOLEAN :
          /\ approved = NeedsConfirmation(i, tool)
          /\ ran' = IF Authorize(turns[i].agent, tool).allowed
                    THEN ran \cup {Execution(i, tool, approved)} ELSE ran
    BY <1>2 DEF CallsTool
  <2>2. CASE Authorize(turns[i].agent, tool).allowed
    BY <1>1, <2>1, <2>2, ExecutionAllowed DEF NeedsConfirmation
  <2>3. CASE ~Authorize(turns[i].agent, tool).allowed
    BY <2>1, <2>3, NothingRuns
  <2> QED BY <2>2, <2>3
<1>3. ASSUME NEW i \in Sessions, Delegates(i) PROVE RunsUnderOwnRights
  <2>1. /\ Delegate \in Catalog(turns[i].agent) /\ Authorize(turns[i].agent, Delegate).allowed
        /\ ran' = ran \cup {Execution(i, Delegate, NeedsConfirmation(i, Delegate))}
    BY <1>3 DEF Delegates
  <2> QED BY <1>1, <2>1, ExecutionAllowed DEF NeedsConfirmation
<1>4. ASSUME NEW i \in Sessions, Resolves(i) PROVE RunsUnderOwnRights
  <2> DEFINE tool == turns[i].pending[1]
  <2>1. turns[i].status = "paused"
    BY <1>4 DEF Resolves
  <2>2. ran' = ran \/ (tool \in Catalog(turns[i].agent) /\ ran' = ran \cup {Execution(i, tool, TRUE)})
    BY <1>4 DEF Resolves
  <2> HIDE DEF tool
  <2>3. CASE ran' = ran
    BY <2>3, NothingRuns
  <2>4. CASE tool \in Catalog(turns[i].agent) /\ ran' = ran \cup {Execution(i, tool, TRUE)}
    BY <1>1, <2>1, <2>4, ExecutionAllowed
  <2> QED BY <2>2, <2>3, <2>4
<1>5. ASSUME NEW i \in Sessions,
             \/ Completes(i) \/ ModelFails(i) \/ Stops(i) \/ Pauses(i) \/ Returns(i)
             \/ HostCancels(i) \/ DelegationTimesOut(i)
      PROVE  RunsUnderOwnRights
  <2>1. ran' = ran
    BY <1>5 DEF Completes, ModelFails, Stops, Pauses, Returns, HostCancels, DelegationTimesOut
  <2> QED BY <2>1, NothingRuns
<1>6. ASSUME HostRuns \/ HostRestarts \/ UNCHANGED vars PROVE RunsUnderOwnRights
  <2>1. ran' = ran
    BY <1>6 DEF HostRuns, HostRestarts, vars
  <2> QED BY <2>1, NothingRuns
<1> QED BY <1>2, <1>3, <1>4, <1>5, <1>6 DEF Next, Engine, Host
----------------------------------------------------------------------------
(* Chains of callers, and of those that delegated.  Each function below is *)
(* the one its recursive definition in AgentDelegation chooses.            *)

LiveBy(ts, f) ==
  f = [k \in DOMAIN ts |-> ~ts[k].cancelled /\ (ts[k].caller # 0 => f[ts[k].caller])]

AboveBy(ts, f) ==
  f = [k \in DOMAIN ts |-> IF ts[k].caller = 0 THEN {k} ELSE {k} \cup f[ts[k].caller]]

GenerationBy(ts, f) ==
  f = [k \in DOMAIN ts |-> IF ts[k].parent = 0 THEN 0 ELSE 1 + f[ts[k].parent]]

FromBy(ts, a, f) ==
  f = [k \in DOMAIN ts |->
         k # 0 /\ (ts[k].parent = a \/ (ts[k].parent # 0 /\ f[ts[k].parent]))]

(* The chains follow the order of the turns.                               *)
LEMMA ChainOrder ==
  ASSUME NEW ts, Well(ts)
  PROVE  /\ Len(ts) \in Nat /\ DOMAIN ts = 1 .. Len(ts)
         /\ [k \in 1 .. Len(ts) |-> ts[k].caller] \in [1 .. Len(ts) -> Nat]
         /\ [k \in 1 .. Len(ts) |-> ts[k].parent] \in [1 .. Len(ts) -> Nat]
         /\ \A k \in 1 .. Len(ts) : /\ ts[k].caller < k /\ ts[k].parent < k
                                    /\ ts[k].caller # 0 => ts[k].caller \in 1 .. Len(ts)
                                    /\ ts[k].parent # 0 => ts[k].parent \in 1 .. Len(ts)
                                    /\ ts[k].cancelled \in BOOLEAN
<1>1. Len(ts) \in Nat /\ DOMAIN ts = 1 .. Len(ts) /\ Ordered(ts) /\ \A k \in DOMAIN ts : ts[k] \in Turns
  BY SequenceFacts
<1>2. ASSUME NEW k \in 1 .. Len(ts)
      PROVE  /\ ts[k].caller \in Nat /\ ts[k].caller < k /\ ts[k].parent \in Nat /\ ts[k].parent < k
             /\ ts[k].cancelled \in BOOLEAN
  <2>1. ts[k].caller \in 0 .. (k - 1) /\ ts[k].parent \in 0 .. (k - 1)
    BY <1>1 DEF Ordered
  <2>2. ts[k] \in Turns
    BY <1>1
  <2>3. ts[k].cancelled \in BOOLEAN
    BY <2>2 DEF Turns
  <2> QED BY <2>1, <2>3
<1> QED BY <1>1, <1>2

LEMMA GenerationExists ==
  ASSUME NEW ts, Well(ts)
  PROVE  \E f : GenerationBy(ts, f) /\ \A k \in DOMAIN ts : f[k] \in Nat
<1> DEFINE n == Len(ts)
           before == [k \in 1 .. n |-> ts[k].parent]
           first == [k \in 1 .. n |-> 0]
           step == [k \in 1 .. n |-> [x \in Nat |-> 1 + x]]
<1>1. /\ n \in Nat /\ DOMAIN ts = 1 .. n /\ before \in [1 .. n -> Nat]
      /\ \A k \in 1 .. n : before[k] = ts[k].parent /\ before[k] < k /\ (before[k] # 0 => before[k] \in 1 .. n)
  BY ChainOrder
<1>2. first \in [1 .. n -> Nat] /\ step \in [1 .. n -> [Nat -> Nat]]
  OBVIOUS
<1>3. \A k \in 1 .. n : first[k] = 0 /\ \A x \in Nat : step[k][x] = 1 + x
  OBVIOUS
<1> HIDE DEF n, before, first, step
<1>4. PICK f : Chained(f, n, Nat, before, first, step)
  BY <1>1, <1>2, ChainExists
<1>5. f \in [1 .. n -> Nat]
  BY <1>4 DEF Chained
<1>6. ASSUME NEW k \in 1 .. n
      PROVE  f[k] = IF ts[k].parent = 0 THEN 0 ELSE 1 + f[ts[k].parent]
  <2>1. f[k] = IF before[k] = 0 THEN first[k] ELSE step[k][f[before[k]]]
    BY <1>4 DEF Chained
  <2>2. before[k] # 0 => f[before[k]] \in Nat
    BY <1>1, <1>5
  <2>3. before[k] # 0 => step[k][f[before[k]]] = 1 + f[before[k]]
    BY <1>3, <2>2
  <2>4. before[k] = ts[k].parent /\ first[k] = 0
    BY <1>1, <1>3
  <2> QED BY <2>1, <2>3, <2>4
<1>7. GenerationBy(ts, f)
  BY <1>1, <1>5, <1>6 DEF GenerationBy
<1> QED BY <1>1, <1>5, <1>7

LEMMA AboveExists ==
  ASSUME NEW ts, Well(ts)
  PROVE  \E f : AboveBy(ts, f)
<1> DEFINE n == Len(ts)
           S == SUBSET Nat
           before == [k \in 1 .. n |-> ts[k].caller]
           first == [k \in 1 .. n |-> {k}]
           step == [k \in 1 .. n |-> [x \in S |-> {k} \cup x]]
<1>1. /\ n \in Nat /\ DOMAIN ts = 1 .. n /\ before \in [1 .. n -> Nat]
      /\ \A k \in 1 .. n : before[k] = ts[k].caller /\ before[k] < k /\ (before[k] # 0 => before[k] \in 1 .. n)
  BY ChainOrder
<1>2. first \in [1 .. n -> S] /\ step \in [1 .. n -> [S -> S]]
  <2>1. \A k \in 1 .. n : k \in Nat
    BY <1>1
  <2>2. \A k \in 1 .. n : {k} \in S /\ \A x \in S : {k} \cup x \in S
    BY <2>1
  <2>3. first \in [1 .. n -> S]
    BY <2>2
  <2> HIDE DEF S, n
  <2>4. step \in [1 .. n -> [S -> S]]
    BY <2>2
  <2> QED BY <2>3, <2>4
<1>3. \A k \in 1 .. n : first[k] = {k} /\ \A x \in S : step[k][x] = {k} \cup x
  OBVIOUS
<1> HIDE DEF n, S, before, first, step
<1>4. PICK f : Chained(f, n, S, before, first, step)
  BY <1>1, <1>2, ChainExists
<1>5. f \in [1 .. n -> S]
  BY <1>4 DEF Chained
<1>6. ASSUME NEW k \in 1 .. n
      PROVE  f[k] = IF ts[k].caller = 0 THEN {k} ELSE {k} \cup f[ts[k].caller]
  <2>1. f[k] = IF before[k] = 0 THEN first[k] ELSE step[k][f[before[k]]]
    BY <1>4 DEF Chained
  <2>2. before[k] # 0 => f[before[k]] \in S
    BY <1>1, <1>5
  <2>3. before[k] # 0 => step[k][f[before[k]]] = {k} \cup f[before[k]]
    BY <1>3, <2>2
  <2>4. before[k] = ts[k].caller /\ first[k] = {k}
    BY <1>1, <1>3
  <2> QED BY <2>1, <2>3, <2>4
<1>7. AboveBy(ts, f)
  BY <1>1, <1>5, <1>6 DEF AboveBy
<1> QED BY <1>7

LEMMA LiveExists ==
  ASSUME NEW ts, Well(ts)
  PROVE  \E f : LiveBy(ts, f)
<1> DEFINE n == Len(ts)
           before == [k \in 1 .. n |-> ts[k].caller]
           first == [k \in 1 .. n |-> ~ts[k].cancelled]
           step == [k \in 1 .. n |-> [x \in BOOLEAN |-> ~ts[k].cancelled /\ x]]
<1>1. /\ n \in Nat /\ DOMAIN ts = 1 .. n /\ before \in [1 .. n -> Nat]
      /\ \A k \in 1 .. n : before[k] = ts[k].caller /\ before[k] < k /\ (before[k] # 0 => before[k] \in 1 .. n)
  BY ChainOrder
<1>2. first \in [1 .. n -> BOOLEAN] /\ step \in [1 .. n -> [BOOLEAN -> BOOLEAN]]
  OBVIOUS
<1>3. \A k \in 1 .. n : first[k] = ~ts[k].cancelled /\ \A x \in BOOLEAN : step[k][x] = (~ts[k].cancelled /\ x)
  OBVIOUS
<1> HIDE DEF n, before, first, step
<1>4. PICK f : Chained(f, n, BOOLEAN, before, first, step)
  BY <1>1, <1>2, ChainExists
<1>5. f \in [1 .. n -> BOOLEAN]
  BY <1>4 DEF Chained
<1>6. ASSUME NEW k \in 1 .. n
      PROVE  f[k] = (~ts[k].cancelled /\ (ts[k].caller # 0 => f[ts[k].caller]))
  <2>1. f[k] = IF before[k] = 0 THEN first[k] ELSE step[k][f[before[k]]]
    BY <1>4 DEF Chained
  <2>2. CASE before[k] = 0
    BY <1>1, <1>3, <2>1, <2>2
  <2>3. CASE before[k] # 0
    <3>1. f[before[k]] \in BOOLEAN
      BY <1>1, <1>5, <2>3
    <3> QED BY <1>1, <1>3, <2>1, <2>3, <3>1
  <2> QED BY <2>2, <2>3
<1>7. LiveBy(ts, f)
  BY <1>1, <1>5, <1>6 DEF LiveBy
<1> QED BY <1>7

(* A turn whose context lives has no cancelled turn above it.              *)
LEMMA AboveLive ==
  ASSUME NEW ts, Well(ts), NEW live, LiveBy(ts, live), NEW above, AboveBy(ts, above),
         NEW k \in DOMAIN ts, live[k]
  PROVE  \A i \in above[k] : i \in DOMAIN ts /\ ~ts[i].cancelled
<1> DEFINE n == Len(ts)
           T == {j \in 1 .. n : live[j] => \A i \in above[j] : i \in DOMAIN ts /\ ~ts[i].cancelled}
<1>1. /\ n \in Nat /\ DOMAIN ts = 1 .. n
      /\ \A j \in 1 .. n : ts[j].caller < j /\ (ts[j].caller # 0 => ts[j].caller \in 1 .. n)
  BY ChainOrder
<1>2. \A j \in 1 .. n : live[j] <=> ~ts[j].cancelled /\ (ts[j].caller # 0 => live[ts[j].caller])
  BY <1>1, Zenon DEF LiveBy
<1>3. \A j \in 1 .. n : above[j] = IF ts[j].caller = 0 THEN {j} ELSE {j} \cup above[ts[j].caller]
  BY <1>1 DEF AboveBy
<1> HIDE DEF n
<1>4. ASSUME NEW j \in 1 .. n, \A i \in 1 .. n : i < j => i \in T
      PROVE  j \in T
  <2> SUFFICES ASSUME live[j], NEW i \in above[j] PROVE i \in DOMAIN ts /\ ~ts[i].cancelled
    OBVIOUS
  <2>1. ~ts[j].cancelled /\ (ts[j].caller # 0 => live[ts[j].caller])
    BY <1>2
  <2>2. CASE i = j
    BY <1>1, <2>1, <2>2
  <2>3. CASE i # j
    <3>0. i \in IF ts[j].caller = 0 THEN {j} ELSE {j} \cup above[ts[j].caller]
      BY <1>3
    <3>1. ts[j].caller # 0 /\ i \in above[ts[j].caller]
      BY <2>3, <3>0
    <3>2. ts[j].caller \in T
      BY <1>1, <1>4, <3>1
    <3> QED BY <2>1, <3>1, <3>2
  <2> QED BY <2>2, <2>3
<1> HIDE DEF T
<1>5. \A j \in 1 .. n : j \in T
  BY <1>1, <1>4, PlaceInduction
<1> QED BY <1>1, <1>5 DEF T

LEMMA FromExists ==
  ASSUME NEW ts, Well(ts), NEW a
  PROVE  \E f : FromBy(ts, a, f)
<1> DEFINE n == Len(ts)
           before == [k \in 1 .. n |-> ts[k].parent]
           first == [k \in 1 .. n |-> ts[k].parent = a]
           step == [k \in 1 .. n |-> [x \in BOOLEAN |-> ts[k].parent = a \/ x]]
<1>1. /\ n \in Nat /\ DOMAIN ts = 1 .. n /\ before \in [1 .. n -> Nat]
      /\ \A k \in 1 .. n : before[k] = ts[k].parent /\ before[k] < k /\ (before[k] # 0 => before[k] \in 1 .. n)
  BY ChainOrder
<1>2. first \in [1 .. n -> BOOLEAN] /\ step \in [1 .. n -> [BOOLEAN -> BOOLEAN]]
  OBVIOUS
<1>3. \A k \in 1 .. n : first[k] = (ts[k].parent = a) /\ \A x \in BOOLEAN : step[k][x] = (ts[k].parent = a \/ x)
  OBVIOUS
<1>0. \A k \in 1 .. n : k # 0
  OBVIOUS
<1> HIDE DEF n, before, first, step
<1>4. PICK f : Chained(f, n, BOOLEAN, before, first, step)
  BY <1>1, <1>2, ChainExists
<1>5. f \in [1 .. n -> BOOLEAN]
  BY <1>4 DEF Chained
<1>6. ASSUME NEW k \in 1 .. n
      PROVE  f[k] = (k # 0 /\ (ts[k].parent = a \/ (ts[k].parent # 0 /\ f[ts[k].parent])))
  <2>1. f[k] = IF before[k] = 0 THEN first[k] ELSE step[k][f[before[k]]]
    BY <1>4 DEF Chained
  <2>2. CASE before[k] = 0
    BY <1>0, <1>1, <1>3, <2>1, <2>2
  <2>3. CASE before[k] # 0
    <3>1. f[before[k]] \in BOOLEAN
      BY <1>1, <1>5, <2>3
    <3> QED BY <1>0, <1>1, <1>3, <2>1, <2>3, <3>1
  <2> QED BY <2>2, <2>3
<1>7. FromBy(ts, a, f)
  BY <1>1, <1>5, <1>6 DEF FromBy
<1> QED BY <1>7
----------------------------------------------------------------------------
(* Depth.                                                                  *)

GenerationsOf(ts) == CHOOSE f : GenerationBy(ts, f)
FromOf(ts, a) == CHOOSE f : FromBy(ts, a, f)

(* None that delegated on the way to i was resumed by the host.            *)
NoneResumed(ts, i) == \A a \in 1 .. (i - 1) : FromOf(ts, a)[i] => ~ts[a].resumed

(* The depth a turn goes on with is its generation, unless one on the way  *)
(* to it, or it, was resumed.  A paused turn may have lost its depth in a  *)
(* restart, and can only be resumed.                                       *)
DepthOk(ts) ==
  \A i \in DOMAIN ts :
    NoneResumed(ts, i) =>
      /\ GenerationsOf(ts)[i] <= MaxAgentDepth
      /\ (ts[i].status \in {"running", "waiting"} /\ ~ts[i].resumed) => ts[i].depth = GenerationsOf(ts)[i]

(* What every step does to the turns.                                      *)
StaysDeep(t, u) ==
  /\ u.parent = t.parent /\ (t.resumed => u.resumed)
  /\ (u.status \in {"running", "waiting"} /\ ~u.resumed)
       => t.status \in {"running", "waiting"} /\ u.depth = t.depth

StartsDeeper(ts, us, u) ==
  \/ u.parent = 0 /\ u.depth = 0
  \/ /\ u.parent \in DOMAIN ts /\ u.depth \in 0 .. MaxAgentDepth
     /\ \/ us[u.parent].resumed
        \/ /\ ts[u.parent].status \in {"running", "waiting"} /\ ~ts[u.parent].resumed
           /\ u.depth = ts[u.parent].depth + 1

Deepens(ts, us) ==
  /\ Len(ts) <= Len(us)
  /\ \A k \in DOMAIN ts : StaysDeep(ts[k], us[k])
  /\ \A k \in DOMAIN us : k \notin DOMAIN ts => StartsDeeper(ts, us, us[k])

LEMMA GenerationIs ==
  ASSUME NEW ts, Well(ts), NEW k \in DOMAIN ts
  PROVE  /\ GenerationsOf(ts)[k] = IF ts[k].parent = 0 THEN 0 ELSE 1 + GenerationsOf(ts)[ts[k].parent]
<1>1. GenerationBy(ts, GenerationsOf(ts))
  BY GenerationExists DEF GenerationsOf
<1> QED BY <1>1 DEF GenerationBy

LEMMA FromIs ==
  ASSUME NEW ts, Well(ts), NEW a, NEW k \in DOMAIN ts
  PROVE  FromOf(ts, a)[k] <=> ts[k].parent = a \/ (ts[k].parent # 0 /\ FromOf(ts, a)[ts[k].parent])
<1>1. FromBy(ts, a, FromOf(ts, a))
  BY FromExists DEF FromOf
<1>2. k # 0
  BY ChainOrder
<1> DEFINE f == FromOf(ts, a)
<1> HIDE DEF f
<1>3. f[k] = (k # 0 /\ (ts[k].parent = a \/ (ts[k].parent # 0 /\ f[ts[k].parent])))
  BY <1>1 DEF FromBy, f
<1> QED BY <1>2, <1>3 DEF f

(* What was reached stays reached, by as many delegations.                 *)
LEMMA SameGenerations ==
  ASSUME NEW ts, Well(ts), NEW us, Well(us), Deepens(ts, us)
  PROVE  /\ DOMAIN ts \subseteq DOMAIN us
         /\ \A k \in DOMAIN ts : /\ GenerationsOf(us)[k] = GenerationsOf(ts)[k]
                                 /\ \A a : FromOf(us, a)[k] <=> FromOf(ts, a)[k]
<1> DEFINE n == Len(ts)
<1>1. /\ n \in Nat /\ DOMAIN ts = 1 .. n /\ DOMAIN us = 1 .. Len(us) /\ Len(us) \in Nat /\ n <= Len(us)
      /\ \A k \in 1 .. n : ts[k].parent < k /\ (ts[k].parent # 0 => ts[k].parent \in 1 .. n)
  BY ChainOrder DEF Deepens
<1>2. DOMAIN ts \subseteq DOMAIN us /\ \A k \in 1 .. n : us[k].parent = ts[k].parent
  BY <1>1 DEF Deepens, StaysDeep
<1> DEFINE g == GenerationsOf(ts)
           h == GenerationsOf(us)
<1>3. \A k \in 1 .. n : /\ g[k] = IF ts[k].parent = 0 THEN 0 ELSE 1 + g[ts[k].parent]
                        /\ h[k] = IF ts[k].parent = 0 THEN 0 ELSE 1 + h[ts[k].parent]
  BY <1>1, <1>2, GenerationIs
<1> HIDE DEF n, g, h
<1>4. ASSUME NEW k \in 1 .. n PROVE g[k] = h[k]
  <2> DEFINE T == {j \in 1 .. n : g[j] = h[j]}
  <2>1. ASSUME NEW j \in 1 .. n, \A i \in 1 .. n : i < j => i \in T
        PROVE  j \in T
    BY <1>1, <1>3, <2>1
  <2> HIDE DEF T
  <2>2. \A j \in 1 .. n : j \in T
    BY <1>1, <2>1, PlaceInduction
  <2> QED BY <2>2 DEF T
<1>5. ASSUME NEW a, NEW k \in 1 .. n PROVE FromOf(us, a)[k] <=> FromOf(ts, a)[k]
  <2> DEFINE e == FromOf(ts, a)
             f == FromOf(us, a)
             T == {j \in 1 .. n : f[j] <=> e[j]}
  <2>1. \A j \in 1 .. n : /\ e[j] <=> ts[j].parent = a \/ (ts[j].parent # 0 /\ e[ts[j].parent])
                          /\ f[j] <=> ts[j].parent = a \/ (ts[j].parent # 0 /\ f[ts[j].parent])
    <3> SUFFICES ASSUME NEW j \in 1 .. n
                 PROVE  /\ e[j] <=> ts[j].parent = a \/ (ts[j].parent # 0 /\ e[ts[j].parent])
                        /\ f[j] <=> ts[j].parent = a \/ (ts[j].parent # 0 /\ f[ts[j].parent])
      OBVIOUS
    <3>1. j \in DOMAIN ts /\ j \in DOMAIN us /\ us[j].parent = ts[j].parent
      BY <1>1, <1>2
    <3>2. e[j] <=> ts[j].parent = a \/ (ts[j].parent # 0 /\ e[ts[j].parent])
      BY <3>1, FromIs
    <3>3. f[j] <=> us[j].parent = a \/ (us[j].parent # 0 /\ f[us[j].parent])
      BY <3>1, FromIs
    <3> QED BY <3>1, <3>2, <3>3
  <2> HIDE DEF e, f
  <2>2. ASSUME NEW j \in 1 .. n, \A i \in 1 .. n : i < j => i \in T
        PROVE  j \in T
    <3>1. ts[j].parent # 0 => ts[j].parent \in T
      BY <1>1, <2>2
    <3> QED BY <2>1, <3>1
  <2> HIDE DEF T
  <2>3. \A j \in 1 .. n : j \in T
    BY <1>1, <2>2, PlaceInduction
  <2> QED BY <2>3 DEF T, e, f
<1> QED BY <1>1, <1>2, <1>4, <1>5 DEF g, h

LEMMA DepthStays ==
  ASSUME Assumptions, NEW ts, Well(ts), NEW us, Well(us), Deepens(ts, us), DepthOk(ts)
  PROVE  DepthOk(us)
<1>1. /\ Len(ts) \in Nat /\ DOMAIN ts = 1 .. Len(ts) /\ DOMAIN us = 1 .. Len(us) /\ Len(us) \in Nat
      /\ MaxAgentDepth \in Nat
  BY ChainOrder DEF Assumptions, DelegationAssumption
<1>2. /\ DOMAIN ts \subseteq DOMAIN us
      /\ \A k \in DOMAIN ts : /\ GenerationsOf(us)[k] = GenerationsOf(ts)[k]
                              /\ \A a : FromOf(us, a)[k] <=> FromOf(ts, a)[k]
  BY SameGenerations
<1>3. ASSUME NEW k \in DOMAIN ts, NoneResumed(us, k) PROVE NoneResumed(ts, k)
  <2> SUFFICES ASSUME NEW a \in 1 .. (k - 1), FromOf(ts, a)[k] PROVE ~ts[a].resumed
    BY DEF NoneResumed
  <2>1. FromOf(us, a)[k]
    BY <1>2
  <2>2. ~us[a].resumed
    BY <1>3, <2>1 DEF NoneResumed
  <2>3. a \in DOMAIN ts
    BY <1>1
  <2> QED BY <2>2, <2>3 DEF Deepens, StaysDeep
<1> SUFFICES ASSUME NEW i \in DOMAIN us, NoneResumed(us, i)
             PROVE  /\ GenerationsOf(us)[i] <= MaxAgentDepth
                    /\ (us[i].status \in {"running", "waiting"} /\ ~us[i].resumed)
                         => us[i].depth = GenerationsOf(us)[i]
  BY DEF DepthOk
<1>4. CASE i \in DOMAIN ts
  <2>1. /\ GenerationsOf(ts)[i] <= MaxAgentDepth
        /\ (ts[i].status \in {"running", "waiting"} /\ ~ts[i].resumed) => ts[i].depth = GenerationsOf(ts)[i]
    BY <1>3, <1>4 DEF DepthOk
  <2>2. StaysDeep(ts[i], us[i])
    BY <1>4 DEF Deepens
  <2> QED BY <1>2, <1>4, <2>1, <2>2 DEF StaysDeep
<1>5. CASE i \notin DOMAIN ts
  <2> DEFINE p == us[i].parent
  <2>1. StartsDeeper(ts, us, us[i])
    BY <1>5 DEF Deepens
  <2>2. GenerationsOf(us)[i] = IF p = 0 THEN 0 ELSE 1 + GenerationsOf(us)[p]
    BY GenerationIs
  <2>3. CASE p = 0 /\ us[i].depth = 0
    BY <1>1, <2>2, <2>3
  <2>4. CASE ~(p = 0 /\ us[i].depth = 0)
    <3>1. /\ p \in DOMAIN ts /\ us[i].depth \in 0 .. MaxAgentDepth
          /\ \/ us[p].resumed
             \/ ts[p].status \in {"running", "waiting"} /\ ~ts[p].resumed /\ us[i].depth = ts[p].depth + 1
      BY <2>1, <2>4 DEF StartsDeeper
    <3>2. p \in DOMAIN us /\ p # 0 /\ p \in 1 .. (i - 1) /\ p \in Nat /\ i \in Nat
      BY <1>1, <1>2, <3>1, ChainOrder
    <3>3. FromOf(us, p)[i]
      BY FromIs
    <3>4. ~us[p].resumed
      BY <3>2, <3>3 DEF NoneResumed
    <3>5. NoneResumed(us, p)
      <4> SUFFICES ASSUME NEW a \in 1 .. (p - 1), FromOf(us, a)[p] PROVE ~us[a].resumed
        BY DEF NoneResumed
      <4>1. FromOf(us, a)[i]
        BY <3>2, FromIs
      <4>2. a \in 1 .. (i - 1)
        BY <3>2
      <4> QED BY <4>1, <4>2 DEF NoneResumed
    <3>6. ts[p].depth = GenerationsOf(ts)[p]
      BY <1>3, <3>1, <3>4, <3>5 DEF DepthOk
    <3>7. GenerationsOf(us)[i] = 1 + ts[p].depth
      BY <1>2, <2>2, <3>1, <3>2, <3>6
    <3>8. ts[p].depth \in Nat
      <4>1. ts[p] \in Turns
        BY <3>1, SequenceFacts
      <4>2. ts[p].depth \in 0 .. MaxAgentDepth
        BY <4>1 DEF Turns
      <4> QED BY <1>1, <4>2
    <3>9. us[i].depth = GenerationsOf(us)[i]
      BY <3>1, <3>4, <3>7, <3>8
    <3> QED BY <1>1, <3>1, <3>9
  <2> QED BY <2>3, <2>4
<1> QED BY <1>4, <1>5

----------------------------------------------------------------------------
(* What the steps do to depth and to the answers of the model.             *)

LEMMA AboveIs ==
  \A k : (CHOOSE f : AboveBy(turns, f))[k]
           = LET above[i \in Sessions] == IF turns[i].caller = 0 THEN {i} ELSE {i} \cup above[turns[i].caller]
             IN  above[k]
  BY DEF AboveBy, Sessions

LEMMA LiveIs == \A k : Live(k) = (CHOOSE f : LiveBy(turns, f))[k]
  BY DEF Live, LiveBy, Sessions

(* Which turns take another answer of their model: only those alive.       *)
OnlyAlive(ts, us) ==
  \A k \in DOMAIN ts : us[k].iterations > ts[k].iterations => Live(k)

(* A step that moves one turn, and may start sub-turns of it.              *)
LEMMA MoveDeepens ==
  ASSUME NEW ts, Well(ts), NEW i \in DOMAIN ts, NEW r, StaysDeep(ts[i], r),
         r.iterations \in Nat, r.iterations > ts[i].iterations => Live(i)
  PROVE  Deepens(ts, [ts EXCEPT ![i] = r]) /\ OnlyAlive(ts, [ts EXCEPT ![i] = r])
<1> DEFINE us == [ts EXCEPT ![i] = r]
<1>1. /\ ts \in Seq(Turns) /\ Len(ts) \in Nat /\ \A k \in DOMAIN ts : ts[k] \in Turns
  BY SequenceFacts
<1>2. /\ Len(us) = Len(ts) /\ DOMAIN us = DOMAIN ts
      /\ us[i] = r /\ \A k \in DOMAIN ts : k # i => us[k] = ts[k]
  BY <1>1
<1>3. \A k \in DOMAIN ts : ts[k].iterations \in Nat
  BY <1>1 DEF Turns
<1> HIDE DEF us
<1>4. \A k \in DOMAIN ts : StaysDeep(ts[k], us[k])
  BY <1>2 DEF StaysDeep
<1>5. Deepens(ts, us)
  BY <1>1, <1>2, <1>4 DEF Deepens
<1>6. OnlyAlive(ts, us)
  <2> SUFFICES ASSUME NEW k \in DOMAIN ts, us[k].iterations > ts[k].iterations PROVE Live(k)
    BY DEF OnlyAlive
  <2>1. CASE k = i
    BY <1>2, <2>1
  <2>2. CASE k # i
    BY <1>2, <1>3, <2>2
  <2> QED BY <2>1, <2>2
<1> QED BY <1>5, <1>6 DEF us

LEMMA MoveStartsDeepens ==
  ASSUME Assumptions, NEW ts, Well(ts), NEW i \in DOMAIN ts, NEW r, Moves(ts[i], r), StaysDeep(ts[i], r),
         r.status = "running", r.iterations > ts[i].iterations => Live(i), NEW agents
  PROVE  /\ Deepens(ts, Starts([ts EXCEPT ![i] = r], i, agents))
         /\ OnlyAlive(ts, Starts([ts EXCEPT ![i] = r], i, agents))
<1> DEFINE us == [ts EXCEPT ![i] = r]
           vs == Starts(us, i, agents)
<1>1. r.iterations \in Nat
  BY DEF Moves, Turns
<1>2. Well(us) /\ Deepens(ts, us) /\ OnlyAlive(ts, us)
  BY <1>1, OneTurn, MoveDeepens
<1>3. /\ Len(ts) \in Nat /\ DOMAIN ts = 1 .. Len(ts) /\ ts \in Seq(Turns)
  BY SequenceFacts
<1>4. DOMAIN us = DOMAIN ts /\ Len(us) = Len(ts) /\ us[i] = r
  BY <1>3
<1> HIDE DEF us
<1>5. Well(vs) /\ Deeper(us, vs, i)
  BY <1>2, <1>4, StartsKeeps
<1>6. Len(vs) \in Nat /\ DOMAIN vs = 1 .. Len(vs)
  BY <1>5, SequenceFacts
<1> HIDE DEF vs
<1>7. ASSUME NEW k \in DOMAIN ts
      PROVE  /\ vs[k].parent = us[k].parent /\ vs[k].resumed = us[k].resumed
             /\ vs[k].depth = us[k].depth /\ vs[k].iterations = us[k].iterations
             /\ vs[k].status = us[k].status \/ k = i
             /\ StaysDeep(ts[k], us[k])
  BY <1>2, <1>4, <1>5 DEF Deeper, Deepens
<1>8. ASSUME NEW k \in DOMAIN ts PROVE StaysDeep(ts[k], vs[k])
  <2>1. CASE k = i
    BY <1>4, <1>7, <2>1 DEF StaysDeep
  <2>2. CASE k # i
    BY <1>7, <2>2 DEF StaysDeep
  <2> QED BY <2>1, <2>2
<1>9. ASSUME NEW k \in DOMAIN vs, k \notin DOMAIN ts PROVE StartsDeeper(ts, vs, vs[k])
  <2>1. vs[k].parent = i /\ vs[k].depth = r.depth + 1 /\ vs[k].depth \in 0 .. MaxAgentDepth
    BY <1>4, <1>5, <1>9 DEF Deeper
  <2>2. vs[i].resumed = r.resumed
    BY <1>4, <1>7
  <2>3. CASE r.resumed
    BY <2>1, <2>2, <2>3 DEF StartsDeeper
  <2>4. CASE ~r.resumed
    <3>1. ts[i].status \in {"running", "waiting"} /\ ~ts[i].resumed /\ r.depth = ts[i].depth
      BY <2>4 DEF StaysDeep
    <3> QED BY <2>1, <3>1 DEF StartsDeeper
  <2> QED BY <2>3, <2>4
<1>10. Deepens(ts, vs)
  BY <1>4, <1>5, <1>8, <1>9 DEF Deepens, Deeper
<1>11. OnlyAlive(ts, vs)
  BY <1>2, <1>7 DEF OnlyAlive
<1> QED BY <1>10, <1>11 DEF vs, us

LEMMA SameDepth ==
  ASSUME DelegationInv, NEW k \in Sessions, NEW u,
         u.parent = turns[k].parent, u.resumed = turns[k].resumed, u.depth = turns[k].depth,
         u.status \in {"running", "waiting"} => turns[k].status \in {"running", "waiting"}
  PROVE  StaysDeep(turns[k], u)
  BY DEF StaysDeep

LEMMA SingleDeepens ==
  ASSUME DelegationInv, NEW i \in Sessions,
         \/ Completes(i) \/ ModelFails(i) \/ Stops(i) \/ CallsTool(i) \/ Pauses(i)
         \/ HostCancels(i) \/ DelegationTimesOut(i)
  PROVE  Deepens(turns, turns') /\ OnlyAlive(turns, turns')
<1>1. Well(turns) /\ i \in DOMAIN turns /\ turns[i] \in Turns /\ turns \in Seq(Turns)
  BY TurnOf
<1>2. turns[i].iterations \in Nat
  BY <1>1 DEF Turns
<1>3. ASSUME NEW r, turns' = [turns EXCEPT ![i] = r],
             r.parent = turns[i].parent, r.resumed = turns[i].resumed, r.depth = turns[i].depth,
             r.status \in {"running", "waiting"} => turns[i].status \in {"running", "waiting"},
             r.iterations \in {turns[i].iterations, turns[i].iterations + 1},
             r.iterations # turns[i].iterations => Live(i)
      PROVE  Deepens(turns, turns') /\ OnlyAlive(turns, turns')
  <2>1. StaysDeep(turns[i], r)
    BY <1>3, SameDepth
  <2>2. r.iterations \in Nat /\ (r.iterations > turns[i].iterations => Live(i))
    BY <1>2, <1>3
  <2> QED BY <1>1, <1>3, <2>1, <2>2, MoveDeepens
<1>4. ASSUME NEW st \in Ended, turns' = [turns EXCEPT ![i].status = st]
      PROVE  Deepens(turns, turns') /\ OnlyAlive(turns, turns')
  <2> DEFINE r == [turns[i] EXCEPT !.status = st]
  <2>1. turns' = [turns EXCEPT ![i] = r] /\ st \notin {"running", "waiting"}
    BY <1>1, <1>4 DEF Ended
  <2>2. /\ r.parent = turns[i].parent /\ r.resumed = turns[i].resumed /\ r.depth = turns[i].depth
        /\ r.status = st /\ r.iterations = turns[i].iterations
    BY <1>1 DEF Turns
  <2> HIDE DEF r
  <2> QED BY <1>3, <2>1, <2>2
<1>5. CASE Completes(i) \/ ModelFails(i) \/ Stops(i)
  <2>1. (IF Live(i) THEN "out of iterations" ELSE "cancelled") \in Ended
        /\ "completed" \in Ended /\ "failed" \in Ended
    BY DEF Ended
  <2> QED BY <1>4, <1>5, <2>1 DEF Completes, ModelFails, Stops
<1>6. CASE CallsTool(i)
  <2> DEFINE r == [turns[i] EXCEPT !.iterations = @ + 1]
  <2>1. turns' = [turns EXCEPT ![i] = r] /\ Live(i)
    BY <1>1, <1>6 DEF CallsTool, Answering, Iterated
  <2>2. /\ r.parent = turns[i].parent /\ r.resumed = turns[i].resumed /\ r.depth = turns[i].depth
        /\ r.status = turns[i].status /\ r.iterations = turns[i].iterations + 1
    BY <1>1 DEF Turns
  <2> HIDE DEF r
  <2> QED BY <1>3, <2>1, <2>2
<1>7. CASE Pauses(i)
  <2>1. PICK q : turns' = [Iterated(i) EXCEPT ![i].status = "paused", ![i].pending = q]
    BY <1>7 DEF Pauses
  <2> DEFINE r == [turns[i] EXCEPT !.iterations = @ + 1, !.status = "paused", !.pending = q]
  <2>2. turns' = [turns EXCEPT ![i] = r]
    BY <1>1, <2>1 DEF Iterated
  <2>3. Live(i)
    BY <1>7 DEF Pauses, Answering
  <2>4. /\ r.parent = turns[i].parent /\ r.resumed = turns[i].resumed /\ r.depth = turns[i].depth
        /\ r.status = "paused" /\ r.iterations = turns[i].iterations + 1
    BY <1>1 DEF Turns
  <2> HIDE DEF r
  <2> QED BY <1>3, <2>2, <2>3, <2>4
<1>8. CASE HostCancels(i) \/ DelegationTimesOut(i)
  <2> DEFINE r == [turns[i] EXCEPT !.cancelled = TRUE]
  <2>1. turns' = [turns EXCEPT ![i] = r]
    BY <1>1, <1>8 DEF HostCancels, DelegationTimesOut
  <2>2. /\ r.parent = turns[i].parent /\ r.resumed = turns[i].resumed /\ r.depth = turns[i].depth
        /\ r.status = turns[i].status /\ r.iterations = turns[i].iterations
    BY <1>1 DEF Turns
  <2> HIDE DEF r
  <2> QED BY <1>3, <2>1, <2>2
<1> QED BY <1>5, <1>6, <1>7, <1>8

LEMMA DelegatesDeepens ==
  ASSUME Assumptions, DelegationInv, NEW i \in Sessions, Delegates(i)
  PROVE  Deepens(turns, turns') /\ OnlyAlive(turns, turns')
<1>1. /\ Well(turns) /\ i \in DOMAIN turns /\ turns[i] \in Turns /\ Asks(turns[i]) /\ turns \in Seq(Turns)
  BY TurnOf
<1>2. turns[i].status = "running" /\ Live(i)
  BY DEF Delegates, Answering
<1>3. PICK agents : turns' = Starts(Iterated(i), i, agents)
  BY DEF Delegates
<1> DEFINE r == [turns[i] EXCEPT !.iterations = @ + 1]
<1>4. Moves(turns[i], r)
  BY <1>1, <1>2, RunningMoves
<1>5. Iterated(i) = [turns EXCEPT ![i] = r]
  BY <1>1 DEF Iterated
<1>6. /\ r.parent = turns[i].parent /\ r.resumed = turns[i].resumed /\ r.depth = turns[i].depth
      /\ r.status = "running"
  BY <1>1, <1>2 DEF Turns
<1> HIDE DEF r
<1>7. StaysDeep(turns[i], r)
  BY <1>2, <1>6, SameDepth
<1>8. turns' = Starts([turns EXCEPT ![i] = r], i, agents)
  BY <1>3, <1>5
<1> QED BY <1>1, <1>2, <1>4, <1>6, <1>7, <1>8, MoveStartsDeepens

LEMMA ResolvesDeepens ==
  ASSUME Assumptions, DelegationInv, NEW i \in Sessions, Resolves(i)
  PROVE  Deepens(turns, turns') /\ OnlyAlive(turns, turns')
<1>1. /\ Well(turns) /\ i \in DOMAIN turns /\ turns[i] \in Turns /\ Asks(turns[i]) /\ turns \in Seq(Turns)
  BY TurnOf
<1>2. turns[i].status = "paused" /\ (turns[i].caller # 0 => turns[i].told # "")
  BY DEF Resolves
<1> DEFINE r == Resumed(turns[i])
           resumed == [turns EXCEPT ![i].status = "running", ![i].pending = None, ![i].iterations = 0,
                         ![i].caller = 0, ![i].depth = 0, ![i].cancelled = FALSE, ![i].resumed = TRUE]
           agents == {turns[i].pending[2]}
<1>3. Moves(turns[i], r) /\ r.status = "running"
  BY <1>1, <1>2, ResumeMoves DEF Assumptions
<1>4. resumed = [turns EXCEPT ![i] = r]
  BY <1>1 DEF Resumed
<1>5. turns' = resumed \/ turns' = Starts(resumed, i, agents)
  BY DEF Resolves
<1>6. r.parent = turns[i].parent /\ r.resumed = TRUE /\ r.iterations = 0 /\ turns[i].iterations \in Nat
  BY <1>1 DEF Resumed, Turns
<1> HIDE DEF r, resumed, agents
<1>7. StaysDeep(turns[i], r)
  BY <1>6 DEF StaysDeep
<1>8. r.iterations \in Nat /\ ~(r.iterations > turns[i].iterations)
  BY <1>6
<1>9. CASE turns' = resumed
  BY <1>1, <1>4, <1>7, <1>8, <1>9, MoveDeepens
<1>10. CASE turns' = Starts(resumed, i, agents)
  <2>1. turns' = Starts([turns EXCEPT ![i] = r], i, agents)
    BY <1>4, <1>10
  <2> QED BY <1>1, <1>3, <1>7, <1>8, <2>1, MoveStartsDeepens
<1> QED BY <1>5, <1>9, <1>10

(* A step after which each turn is as deep and has answered as often.      *)
LEMMA QuietDeepens ==
  ASSUME DelegationInv, Len(turns') = Len(turns), DOMAIN turns' = DOMAIN turns,
         \A k \in DOMAIN turns : StaysDeep(turns[k], turns'[k]) /\ turns'[k].iterations = turns[k].iterations
  PROVE  Deepens(turns, turns') /\ OnlyAlive(turns, turns')
<1>1. Len(turns) \in Nat /\ \A k \in DOMAIN turns : turns[k] \in Turns
  BY SequenceFacts DEF DelegationInv
<1>2. \A k \in DOMAIN turns : turns[k].iterations \in Nat
  BY <1>1 DEF Turns
<1> QED BY <1>1, <1>2 DEF Deepens, OnlyAlive

LEMMA ReturnsDeepens ==
  ASSUME DelegationInv, NEW i \in Sessions, Returns(i)
  PROVE  Deepens(turns, turns') /\ OnlyAlive(turns, turns')
<1>1. /\ Well(turns) /\ i \in DOMAIN turns /\ turns \in Seq(Turns)
      /\ \A k \in DOMAIN turns : turns[k] \in Turns
  BY TurnOf, SequenceFacts
<1> DEFINE p == turns[i].caller
<1>2. p # 0 /\ turns[i].told = ""
  BY DEF Returns
<1>3. p \in DOMAIN turns /\ p # i
  BY <1>1, <1>2, TurnFacts
<1>4. turns[p].status = "waiting"
  <2>1. i \in turns[p].waits
    BY <1>1, <1>2 DEF Well, Nested
  <2> QED BY <1>1, <1>3, <2>1, TurnFacts
<1>5. PICK told, event, rest, st :
        turns' = [turns EXCEPT ![i].told = told, ![i].event = event, ![p].waits = rest, ![p].status = st]
  BY <1>3 DEF Returns
<1> DEFINE child == [turns[i] EXCEPT !.told = told, !.event = event]
           caller == [turns[p] EXCEPT !.waits = rest, !.status = st]
<1>6. turns' = [[turns EXCEPT ![i] = child] EXCEPT ![p] = caller]
  BY <1>1, <1>3, <1>5
<1>7. /\ child.parent = turns[i].parent /\ child.resumed = turns[i].resumed /\ child.depth = turns[i].depth
      /\ child.iterations = turns[i].iterations /\ child.status = turns[i].status
  BY <1>1 DEF Turns
<1> HIDE DEF p
<1>8. /\ caller.parent = turns[p].parent /\ caller.resumed = turns[p].resumed /\ caller.depth = turns[p].depth
      /\ caller.iterations = turns[p].iterations
  <2>1. turns[p] \in Turns
    BY <1>1, <1>3
  <2> QED BY <2>1 DEF Turns
<1> HIDE DEF child, caller
<1>9. /\ Len(turns') = Len(turns) /\ DOMAIN turns' = DOMAIN turns
      /\ turns'[i] = child /\ turns'[p] = caller
      /\ \A k \in DOMAIN turns : k # i /\ k # p => turns'[k] = turns[k]
  BY <1>1, <1>3, <1>6
<1>10. ASSUME NEW k \in DOMAIN turns
       PROVE  StaysDeep(turns[k], turns'[k]) /\ turns'[k].iterations = turns[k].iterations
  <2>1. CASE k = i
    BY <1>7, <1>9, <2>1 DEF StaysDeep
  <2>2. CASE k = p
    BY <1>4, <1>8, <1>9, <2>2 DEF StaysDeep
  <2>3. CASE k # i /\ k # p
    BY <1>9, <2>3 DEF StaysDeep
  <2> QED BY <2>1, <2>2, <2>3
<1> QED BY <1>9, <1>10, QuietDeepens

LEMMA HostDeepens ==
  ASSUME Assumptions, DelegationInv, HostRuns \/ HostRestarts \/ UNCHANGED vars
  PROVE  Deepens(turns, turns') /\ OnlyAlive(turns, turns')
<1>1. /\ Well(turns) /\ turns \in Seq(Turns) /\ DOMAIN turns = 1 .. Len(turns) /\ Len(turns) \in Nat
      /\ \A k \in DOMAIN turns : turns[k] \in Turns
  BY SequenceFacts DEF DelegationInv
<1>2. CASE HostRuns
  <2>1. PICK agent \in Roots, user \in Users : turns' = Append(turns, NewTurn(agent, user, 0, 0))
    BY <1>2 DEF HostRuns
  <2> DEFINE r == NewTurn(agent, user, 0, 0)
  <2>2. r.parent = 0 /\ r.depth = 0
    BY DEF NewTurn
  <2> HIDE DEF r
  <2>3. /\ Len(turns) <= Len(turns') /\ DOMAIN turns' = 1 .. (Len(turns) + 1)
        /\ turns'[Len(turns) + 1] = r /\ \A k \in DOMAIN turns : turns'[k] = turns[k]
    BY <1>1, <2>1 DEF r
  <2>4. \A k \in DOMAIN turns' : k \notin DOMAIN turns => turns'[k] = r
    BY <1>1, <2>3
  <2>5. Deepens(turns, turns')
    BY <2>2, <2>3, <2>4 DEF Deepens, StaysDeep, StartsDeeper
  <2>6. \A k \in DOMAIN turns : turns[k].iterations \in Nat
    BY <1>1 DEF Turns
  <2>7. OnlyAlive(turns, turns')
    BY <2>3, <2>6 DEF OnlyAlive
  <2> QED BY <2>5, <2>7
<1>3. CASE HostRestarts
  <2>1. turns' = [i \in DOMAIN turns |-> Restarted(turns[i])]
    BY <1>3 DEF HostRestarts, Restarted, Sessions
  <2>2. Len(turns') = Len(turns) /\ DOMAIN turns' = DOMAIN turns
    BY <1>1, <2>1
  <2>3. ASSUME NEW k \in DOMAIN turns
        PROVE  StaysDeep(turns[k], turns'[k]) /\ turns'[k].iterations = turns[k].iterations
    <3>1. PICK t \in Turns : t = turns[k]
      BY <1>1
    <3>2. /\ Restarted(t).parent = t.parent /\ Restarted(t).resumed = t.resumed
          /\ Restarted(t).iterations = t.iterations
          /\ Restarted(t).status \notin {"running", "waiting"}
      BY DEF Restarted, Turns
    <3> QED BY <2>1, <3>1, <3>2 DEF StaysDeep
  <2> QED BY <2>2, <2>3, QuietDeepens
<1>4. CASE UNCHANGED vars
  <2>1. turns' = turns
    BY <1>4 DEF vars
  <2> QED BY <2>1, QuietDeepens DEF StaysDeep
<1> QED BY <1>2, <1>3, <1>4

LEMMA StepDeepens ==
  ASSUME Assumptions, DelegationInv, [Next]_vars
  PROVE  Deepens(turns, turns') /\ OnlyAlive(turns, turns')
  BY SingleDeepens, DelegatesDeepens, ResolvesDeepens, ReturnsDeepens, HostDeepens DEF Next, Engine, Host

LEMMA StepGoesOnAlive ==
  ASSUME Assumptions, DelegationInv, [Next]_vars
  PROVE  GoesOnAlive
<1> DEFINE above == CHOOSE f : AboveBy(turns, f)
           live == CHOOSE f : LiveBy(turns, f)
<1>1. Well(turns)
  BY DEF DelegationInv
<1>2. AboveBy(turns, above) /\ LiveBy(turns, live)
  BY <1>1, AboveExists, LiveExists
<1> HIDE DEF above, live
<1>3. ASSUME NEW k \in Sessions, turns'[k].iterations > turns[k].iterations
      PROVE  \A i \in above[k] : ~turns[i].cancelled
  <2>1. Live(k)
    BY <1>3, StepDeepens DEF OnlyAlive, Sessions
  <2>2. live[k]
    BY <2>1, LiveIs DEF live
  <2> QED BY <1>1, <1>2, <2>2, AboveLive DEF Sessions
<1> QED BY <1>3, AboveIs DEF GoesOnAlive, above

LEMMA DepthHolds ==
  DelegationInv /\ DepthOk(turns) => DepthIsBounded
<1> SUFFICES ASSUME DelegationInv, DepthOk(turns), NEW i \in Sessions,
                    \A k \in Ancestors(i) : ~turns[k].resumed
             PROVE  Generation(i) <= MaxAgentDepth
  BY DEF DepthIsBounded
<1>1. Ancestors(i) = {a \in 1 .. (i - 1) : FromOf(turns, a)[i]}
  BY DEF Ancestors, FromOf, FromBy, Sessions
<1>2. NoneResumed(turns, i)
  BY <1>1 DEF NoneResumed
<1>3. Generation(i) = GenerationsOf(turns)[i]
  BY DEF Generation, GenerationsOf, GenerationBy, Sessions
<1> QED BY <1>2, <1>3 DEF DepthOk, Sessions

----------------------------------------------------------------------------
(* The theorems.                                                           *)

LEMMA InvHolds == Assumptions => (Spec => []DelegationInv)
<1> SUFFICES ASSUME Assumptions PROVE Spec => []DelegationInv
  OBVIOUS
<1>1. Init => DelegationInv
  BY InitDelegation
<1>2. DelegationInv /\ [Next]_vars => DelegationInv'
  BY StepKeeps
<1> QED BY <1>1, <1>2, PTL DEF Spec

(* For any agents and policies, batches of any size and any number of      *)
(* sessions: every variable keeps its type, a turn that waits has a        *)
(* sub-turn that has not returned to it, and a sub-turn that has not       *)
(* returned has a caller that waits for it, whatever was cancelled, paused,*)
(* timed out, resumed or restarted meanwhile (TypeOK, SubTurnsAreNested).  *)
THEOREM SubTurnsNested == Assumptions => (Spec => [](TypeOK /\ SubTurnsAreNested))
<1>1. DelegationInv => TypeOK /\ SubTurnsAreNested
  <2> SUFFICES ASSUME DelegationInv PROVE TypeOK /\ SubTurnsAreNested
    OBVIOUS
  <2>1. Well(turns) /\ policy \in Policies
    BY DEF DelegationInv
  <2>2. Ordered(turns) /\ Nested(turns) /\ \A i \in DOMAIN turns : turns[i] \in Turns
    BY <2>1, SequenceFacts
  <2>3. \A i \in DOMAIN turns : turns[i].status \in Statuses /\ turns[i].told \in {"", "text", "no text", "error"}
    BY <2>2 DEF Turns
  <2>4. TypeOK
    BY <2>1, <2>2, <2>3 DEF TypeOK, Sessions, Ordered, Statuses
  <2>5. SubTurnsAreNested
    BY <2>2 DEF SubTurnsAreNested, Sessions, Nested
  <2> QED BY <2>4, <2>5
<1> QED BY <1>1, InvHolds, PTL

(* No step that tells a caller of an error ends the caller: a sub-turn     *)
(* that fails gives its caller a result (FailuresStayInside).              *)
THEOREM FailureIsAResult == Assumptions => (Spec => FailuresStayInside)
<1> SUFFICES ASSUME Assumptions PROVE Spec => FailuresStayInside
  OBVIOUS
<1>1. DelegationInv /\ [Next]_vars => [FailuresInside]_vars
  BY StepKeeps
<1> QED BY <1>1, InvHolds, PTL DEF Spec, FailuresStayInside

(* What a turn executes is in its own agent's catalog and allowed by its   *)
(* own agent's policy, and was confirmed for this call when that policy    *)
(* asks for it: the delegating agent and earlier answers of the host give  *)
(* a sub-turn nothing (RightsAreNotInherited).                             *)
THEOREM OwnRightsOnly == Assumptions => (Spec => RightsAreNotInherited)
<1> SUFFICES ASSUME Assumptions PROVE Spec => RightsAreNotInherited
  OBVIOUS
<1>1. DelegationInv /\ [Next]_vars => [RunsUnderOwnRights]_vars
  BY StepAllowed
<1> QED BY <1>1, InvHolds, PTL DEF Spec, RightsAreNotInherited

(* However agents delegate, in batches or one by one, and whatever times   *)
(* out, pauses or is restarted: a session that is reached by delegations   *)
(* of turns none of which the host resumed is at most MaxAgentDepth of     *)
(* them away (DepthIsBounded; FR-MA-004).                                  *)
THEOREM DepthBounded == Assumptions => (Spec => []DepthIsBounded)
<1> SUFFICES ASSUME Assumptions PROVE Spec => []DepthIsBounded
  OBVIOUS
<1>1. Init => DepthOk(turns)
  <2> SUFFICES ASSUME Init PROVE DepthOk(turns)
    OBVIOUS
  <2>1. DOMAIN turns = {}
    BY DEF Init
  <2> QED BY <2>1 DEF DepthOk
<1>2. DelegationInv /\ DelegationInv' /\ DepthOk(turns) /\ [Next]_vars => DepthOk(turns)'
  <2> SUFFICES ASSUME DelegationInv, DelegationInv', DepthOk(turns), [Next]_vars PROVE DepthOk(turns')
    BY DEF DepthOk, NoneResumed, GenerationsOf, GenerationBy, FromOf, FromBy
  <2>1. Well(turns) /\ Well(turns') /\ Deepens(turns, turns')
    BY StepDeepens DEF DelegationInv
  <2> QED BY <2>1, DepthStays
<1>3. DelegationInv /\ DepthOk(turns) => DepthIsBounded
  BY DepthHolds
<1> QED BY <1>1, <1>2, <1>3, InvHolds, PTL DEF Spec

(* Whatever depth a cancelled call has reached: no turn below it goes on   *)
(* with another answer of its model (CancellationReachesAll; FR-MA-008).   *)
THEOREM CancellationReaches == Assumptions => (Spec => CancellationReachesAll)
<1> SUFFICES ASSUME Assumptions PROVE Spec => CancellationReachesAll
  OBVIOUS
<1>1. DelegationInv /\ [Next]_vars => [GoesOnAlive]_vars
  BY StepGoesOnAlive
<1> QED BY <1>1, InvHolds, PTL DEF Spec, CancellationReachesAll
=============================================================================
