--------------------------- MODULE McpClientProofs ---------------------------
(***************************************************************************)
(* The MCP client under any number of goroutines, operations and failures: *)
(* no session is lost, progress reaches its own call, a final error is the *)
(* last word and, for a goroutine alone, one failure is invisible.         *)
(***************************************************************************)
EXTENDS McpClient, TLAPS

Assumptions == KindAssumption /\ CauseAssumption /\ CallerAssumption /\ BoundAssumption

Places == {"idle", "cached", "ensure", "connect", "request", "wait", "executed", "publish",
           "detach", "shut", "backoff", "giveup"}
Live == {"wait", "executed"}
Attempting == {"cached", "ensure", "connect", "request", "wait"}
OnSession == {"request", "wait", "executed", "publish"}

(* The states of a goroutine, as TypeOK lists them.                        *)
CallerStates ==
  [pc : Places, kind : Kinds \cup {"none"}, op : 0 .. ops, attempt : 0 .. MaxAttempts,
   using : 0 .. Len(conn), closing : 0 .. Len(conn), cause : Causes, token : 0 .. seq,
   executed : 0 .. MaxAttempts, outcome : Causes \cup {"ok"}]

(* The fields of one goroutine agree: an attempt executes its operation at *)
(* most once, only a call in progress holds a token, only who is about to  *)
(* close a session holds one, and after a final error nothing is tried.    *)
CallerInv(r) ==
  /\ (r.pc = "idle") <=> (r.op = 0)
  /\ r.pc = "idle" => r.cause = "none" /\ r.attempt = 0
  /\ r.pc # "idle" => r.attempt >= 1 /\ r.kind \in Kinds
  /\ r.pc = "backoff" => r.attempt < MaxAttempts
  /\ r.pc = "giveup" => r.attempt = MaxAttempts
  /\ r.executed <= r.attempt
  /\ r.pc \in Attempting => r.executed < r.attempt
  /\ r.closing # 0 => r.pc = "shut"
  /\ (r.token # 0) <=> (r.pc \in Live /\ r.kind = "call")
  /\ r.cause \notin {"none", "network"} => r.pc \in {"backoff", "giveup"}
  /\ r.pc \in OnSession => r.using # 0

(* The mutex belongs to the goroutine that connects, and whoever connects  *)
(* found no session.                                                       *)
MutexInv ==
  \A p \in Callers : /\ At(p, "connect") <=> (holder = p)
                     /\ At(p, "connect") => session = 0

(* A token names one call, to the registry as well as to the server.       *)
TokenInv ==
  /\ \A p, q \in Callers : caller[p].token = caller[q].token /\ p # q => caller[p].token = 0
  /\ \A p \in Callers :
       caller[p].token \in DOMAIN registry => registry[caller[p].token] = caller[p].op
  /\ \A w \in working : w.token \in DOMAIN registry => registry[w.token] = w.op

ProgressInv == TokenInv /\ RegistryHoldsLiveCalls /\ ProgressReachesOwnCall

McpInv ==
  /\ TypeOK
  /\ \A p \in Callers : CallerInv(caller[p])
  /\ MutexInv
  /\ NoSessionLeaked
  /\ ProgressInv

----------------------------------------------------------------------------
(* The step of one goroutine.                                              *)

LEMMA TypeMeans ==
  TypeOK <=>
    /\ conn \in Seq({"open", "dropped", "closed"})
    /\ session \in 0 .. Len(conn) /\ catalog \in 0 .. Len(conn)
    /\ holder \in Callers \cup {NoCaller}
    /\ seq \in Nat /\ DOMAIN registry \subseteq 1 .. seq
    /\ \A t \in DOMAIN registry : registry[t] \in 1 .. ops
    /\ working \subseteq [token : 1 .. seq, op : 1 .. ops]
    /\ delivering \subseteq [from : 1 .. ops, to : 1 .. ops]
    /\ caller \in [Callers -> CallerStates]
    /\ ops \in 0 .. MaxOps /\ failures \in 0 .. MaxFailures /\ hostClosed \in BOOLEAN
  BY DEF TypeOK, CallerStates, Places

(* What a step that moves p only leaves behind.                            *)
Moves(p, r) ==
  /\ caller' = [caller EXCEPT ![p] = r]
  /\ r \in CallerStates'
  /\ CallerInv(r)
  /\ Len(conn) <= Len(conn') /\ seq <= seq' /\ ops <= ops'
  /\ Len(conn') \in Nat /\ seq' \in Nat /\ ops' \in Nat

LEMMA OneMoves ==
  ASSUME McpInv, NEW p \in Callers, NEW r, Moves(p, r), BoundAssumption
  PROVE  /\ caller' \in [Callers -> CallerStates']
         /\ \A q \in Callers : CallerInv(caller'[q])
         /\ caller'[p] = r
         /\ \A q \in Callers : q # p => caller'[q] = caller[q]
<1>1. caller \in [Callers -> CallerStates] /\ Len(conn) \in Nat /\ seq \in Nat /\ ops \in Nat
  BY TypeMeans DEF McpInv, BoundAssumption
<1>2. caller'[p] = r /\ \A q \in Callers : q # p => caller'[q] = caller[q]
  BY <1>1 DEF Moves
<1>3. \A q \in Callers : CallerInv(caller'[q])
  BY <1>2 DEF McpInv, Moves
<1>4. ASSUME NEW s \in CallerStates PROVE s \in CallerStates'
  <2>1. /\ 0 .. ops \subseteq 0 .. ops' /\ 0 .. Len(conn) \subseteq 0 .. Len(conn')
        /\ 0 .. seq \subseteq 0 .. seq'
    BY <1>1 DEF Moves
  <2> QED BY <1>4, <2>1 DEF CallerStates
<1>5. \A q \in Callers : caller'[q] \in CallerStates'
  BY <1>1, <1>2, <1>4 DEF Moves
<1>6. caller' \in [Callers -> CallerStates']
  BY <1>1, <1>5 DEF Moves
<1> QED BY <1>2, <1>3, <1>6

(* p holds no token afterwards and takes the callback of the one it held.  *)
LEMMA TokenDropped ==
  ASSUME McpInv, NEW p \in Callers, caller'[p].token = 0,
         \A q \in Callers : q # p => caller'[q] = caller[q],
         DOMAIN registry' = DOMAIN registry \ {caller[p].token},
         \A t \in DOMAIN registry' : registry'[t] = registry[t],
         UNCHANGED <<working, delivering>>
  PROVE  ProgressInv'
<1>1. 0 \notin DOMAIN registry
  BY TypeMeans DEF McpInv
<1>2. TokenInv'
  BY <1>1 DEF McpInv, ProgressInv, TokenInv
<1>3. ASSUME NEW t \in DOMAIN registry'
      PROVE  \E q \in Callers : /\ caller'[q].token = t /\ registry'[t] = caller'[q].op
                                /\ caller'[q].pc \in Live
  <2>1. PICK q \in Callers :
          caller[q].token = t /\ registry[t] = caller[q].op /\ caller[q].pc \in Live
    BY <1>3 DEF McpInv, ProgressInv, RegistryHoldsLiveCalls, At, Live
  <2>2. q # p
    BY <1>3, <2>1
  <2> QED BY <1>3, <2>1, <2>2
<1>4. RegistryHoldsLiveCalls'
  BY <1>3 DEF RegistryHoldsLiveCalls, At, Live
<1>5. ProgressReachesOwnCall'
  BY DEF McpInv, ProgressInv, ProgressReachesOwnCall
<1> QED BY <1>2, <1>4, <1>5 DEF ProgressInv

LEMMA LeakKept ==
  ASSUME McpInv, UNCHANGED <<conn, session>>,
         \A q \in Callers : caller'[q].closing = caller[q].closing
  PROVE  NoSessionLeaked'
  BY DEF McpInv, NoSessionLeaked

LEMMA MutexKept ==
  ASSUME McpInv, UNCHANGED <<session, holder>>,
         \A q \in Callers : (caller'[q].pc = "connect") <=> (caller[q].pc = "connect")
  PROVE  MutexInv'
  BY DEF McpInv, MutexInv, At

(* A step of p that neither touches the session and its mutex nor starts a *)
(* call.                                                                   *)
LEMMA QuietMove ==
  ASSUME McpInv, BoundAssumption, NEW p \in Callers, NEW r, Moves(p, r),
         UNCHANGED <<conn, session, holder, seq, working, delivering>>,
         catalog' \in 0 .. Len(conn), ops' \in 0 .. MaxOps,
         failures' \in 0 .. MaxFailures, hostClosed' \in BOOLEAN,
         caller[p].closing = 0, r.closing = 0, r.token = 0,
         caller[p].pc # "connect", r.pc # "connect",
         DOMAIN registry' = DOMAIN registry \ {caller[p].token},
         \A t \in DOMAIN registry' : registry'[t] = registry[t]
  PROVE  McpInv'
<1>1. /\ caller' \in [Callers -> CallerStates']
      /\ \A q \in Callers : CallerInv(caller'[q])
      /\ caller'[p] = r
      /\ \A q \in Callers : q # p => caller'[q] = caller[q]
  BY OneMoves
<1>2. ops \in Nat /\ ops' \in Nat /\ ops <= ops'
  BY TypeMeans DEF McpInv, Moves, BoundAssumption
<1>3. TypeOK'
  <2>1. \A t \in DOMAIN registry' : registry'[t] \in 1 .. ops'
    BY <1>2, TypeMeans DEF McpInv
  <2>2. working' \subseteq [token : 1 .. seq', op : 1 .. ops']
    BY <1>2, TypeMeans DEF McpInv
  <2>3. delivering' \subseteq [from : 1 .. ops', to : 1 .. ops']
    BY <1>2, TypeMeans DEF McpInv
  <2>4. /\ conn' \in Seq({"open", "dropped", "closed"})
        /\ session' \in 0 .. Len(conn') /\ catalog' \in 0 .. Len(conn')
        /\ holder' \in Callers \cup {NoCaller}
        /\ seq' \in Nat /\ DOMAIN registry' \subseteq 1 .. seq'
    BY TypeMeans DEF McpInv
  <2> QED BY <1>1, <2>1, <2>2, <2>3, <2>4 DEF TypeOK, CallerStates, Places
<1>4. ProgressInv'
  BY <1>1, TokenDropped
<1>5. NoSessionLeaked' /\ MutexInv'
  BY <1>1, LeakKept, MutexKept
<1> QED BY <1>1, <1>3, <1>4, <1>5 DEF McpInv

LEMMA CallerFacts ==
  ASSUME McpInv, BoundAssumption, NEW p \in Callers
  PROVE  /\ caller \in [Callers -> CallerStates]
         /\ caller[p] \in CallerStates /\ CallerInv(caller[p])
         /\ caller[p].pc # "shut" => caller[p].closing = 0
         /\ caller[p].pc \notin Live => caller[p].token = 0
         /\ 0 \notin DOMAIN registry
         /\ Len(conn) \in Nat /\ seq \in Nat /\ ops \in Nat /\ failures \in Nat
<1>1. /\ caller \in [Callers -> CallerStates] /\ CallerInv(caller[p])
      /\ DOMAIN registry \subseteq 1 .. seq
      /\ Len(conn) \in Nat /\ seq \in Nat /\ ops \in Nat /\ failures \in Nat
  BY TypeMeans DEF McpInv, BoundAssumption
<1> QED BY <1>1 DEF CallerInv

LEMMA IdleState ==
  ASSUME NEW how \in Causes \cup {"ok"}, Len(conn) \in Nat, seq \in Nat, ops \in Nat
  PROVE  Idle(how) \in CallerStates /\ CallerInv(Idle(how))
  BY DEF Idle, CallerStates, CallerInv, Places, Causes, MaxAttempts, Attempting, OnSession, Live

LEMMA FinishMoves ==
  ASSUME McpInv, BoundAssumption, NEW p \in Callers, NEW how \in Causes \cup {"ok"},
         Finish(p, how), UNCHANGED <<conn, seq, ops>>
  PROVE  Moves(p, Idle(how))
<1>1. Idle(how) \in CallerStates /\ CallerInv(Idle(how))
  BY IdleState, CallerFacts
<1>2. CallerStates' = CallerStates
  BY DEF CallerStates
<1>3. Len(conn) \in Nat /\ seq \in Nat /\ ops \in Nat
  BY CallerFacts
<1> QED BY <1>1, <1>2, <1>3 DEF Moves, Finish

(* An update of the fields of p that keeps them in agreement.              *)
LEMMA FieldMoves ==
  ASSUME McpInv, BoundAssumption, NEW p \in Callers, NEW r \in CallerStates, CallerInv(r),
         caller' = [caller EXCEPT ![p] = r], UNCHANGED <<conn, seq, ops>>
  PROVE  Moves(p, r)
<1>1. CallerStates' = CallerStates
  BY DEF CallerStates
<1>2. Len(conn) \in Nat /\ seq \in Nat /\ ops \in Nat
  BY CallerFacts
<1> QED BY <1>1, <1>2 DEF Moves

LEMMA HostMcp ==
  ASSUME McpInv, BoundAssumption, NEW p \in Callers, HostStep(p)
  PROVE  McpInv'
<1>1. PICK k \in Kinds, place \in {"cached", "ensure", "detach"} : Start(p, k, place)
  BY DEF HostStep, StartList, StartCall, StartRead, StartClose, Start
<1> DEFINE s == Idle("none")
           r == [s EXCEPT !.pc = place, !.kind = k, !.op = ops + 1, !.attempt = 1]
<1>2. /\ caller' = [caller EXCEPT ![p] = r]
      /\ UNCHANGED <<conn, session, catalog, holder, registry, seq, working, delivering, failures>>
      /\ ops < MaxOps /\ ops' = ops + 1 /\ hostClosed' = (k = "close") /\ caller[p].pc = "idle"
  BY <1>1 DEF Start, shared, progress, At
<1>3. Len(conn) \in Nat /\ seq \in Nat /\ ops \in Nat /\ caller[p].token = 0
      /\ caller[p].closing = 0 /\ 0 \notin DOMAIN registry
  BY <1>2, CallerFacts DEF Live
<1>4. s \in CallerStates
  BY <1>3, IdleState DEF Causes
<1>5. s.using = 0 /\ s.closing = 0 /\ s.cause = "none" /\ s.token = 0 /\ s.executed = 0
  BY DEF Idle
<1> HIDE DEF s
<1>6. /\ r.pc = place /\ r.kind = k /\ r.op = ops + 1 /\ r.attempt = 1 /\ r.using = 0
      /\ r.closing = 0 /\ r.cause = "none" /\ r.token = 0 /\ r.executed = 0
  BY <1>4, <1>5 DEF CallerStates
<1>7. r \in CallerStates'
  <2>1. ops + 1 \in 0 .. ops' /\ 0 .. ops \subseteq 0 .. ops'
    BY <1>2, <1>3
  <2>2. 1 \in 0 .. MaxAttempts /\ place \in Places /\ k \in Kinds \cup {"none"}
    BY DEF MaxAttempts, Places
  <2> QED BY <1>2, <1>4, <2>1, <2>2 DEF CallerStates
<1> HIDE DEF r
<1>8. CallerInv(r)
  BY <1>3, <1>6 DEF CallerInv, MaxAttempts, Attempting, OnSession, Live
<1>9. Moves(p, r)
  BY <1>2, <1>3, <1>7, <1>8 DEF Moves
<1>10. /\ catalog' \in 0 .. Len(conn) /\ ops' \in 0 .. MaxOps /\ failures' \in 0 .. MaxFailures
       /\ hostClosed' \in BOOLEAN
  BY <1>2, <1>3, TypeMeans DEF McpInv, BoundAssumption
<1>11. DOMAIN registry' = DOMAIN registry \ {caller[p].token}
       /\ \A t \in DOMAIN registry' : registry'[t] = registry[t]
  BY <1>2, <1>3
<1> QED BY <1>2, <1>3, <1>6, <1>9, <1>10, <1>11, QuietMove

(* A goroutine that holds neither the mutex nor a token goes on, or ends   *)
(* its operation, and changes nothing else.                                *)
LEMMA GoesOn ==
  ASSUME McpInv, BoundAssumption, NEW p \in Callers, NEW r, Moves(p, r),
         UNCHANGED <<conn, session, holder, progress, ops>>,
         catalog' \in 0 .. Len(conn), failures' \in 0 .. MaxFailures, hostClosed' \in BOOLEAN,
         caller[p].pc \notin Live \cup {"connect", "shut"},
         r.pc # "connect", r.token = 0, r.closing = 0
  PROVE  McpInv'
<1>1. /\ caller[p].token = 0 /\ caller[p].closing = 0 /\ 0 \notin DOMAIN registry
      /\ ops \in 0 .. MaxOps
  BY CallerFacts, TypeMeans DEF McpInv
<1>2. UNCHANGED <<registry, seq, working, delivering>>
  BY DEF progress
<1>3. DOMAIN registry' = DOMAIN registry \ {caller[p].token}
      /\ \A t \in DOMAIN registry' : registry'[t] = registry[t]
  BY <1>1, <1>2
<1> QED BY <1>1, <1>2, <1>3, QuietMove

LEMMA GotoMoves ==
  ASSUME McpInv, BoundAssumption, NEW p \in Callers, NEW place \in Places, Goto(p, place),
         UNCHANGED <<conn, seq, ops>>,
         LET c == caller[p] IN
           /\ c.pc # "idle" /\ place \notin {"idle", "backoff", "giveup"}
           /\ place \in Attempting => c.executed < c.attempt
           /\ c.closing = 0
           /\ (c.token # 0) <=> (place \in Live /\ c.kind = "call")
           /\ c.cause \in {"none", "network"}
           /\ place \in OnSession => c.using # 0
  PROVE  /\ Moves(p, [caller[p] EXCEPT !.pc = place])
         /\ [caller[p] EXCEPT !.pc = place].pc = place
         /\ [caller[p] EXCEPT !.pc = place].token = caller[p].token
         /\ [caller[p] EXCEPT !.pc = place].closing = caller[p].closing
<1> DEFINE c == caller[p]
           r == [c EXCEPT !.pc = place]
<1>1. c \in CallerStates /\ CallerInv(c)
  BY CallerFacts
<1>2. caller' = [caller EXCEPT ![p] = r]
  BY DEF Goto
<1> HIDE DEF c
<1>3. /\ r.pc = place /\ r.kind = c.kind /\ r.op = c.op /\ r.attempt = c.attempt
      /\ r.using = c.using /\ r.closing = c.closing /\ r.cause = c.cause /\ r.token = c.token
      /\ r.executed = c.executed /\ r \in CallerStates
  BY <1>1 DEF CallerStates
<1> HIDE DEF r
<1>4. CallerInv(r)
  BY <1>1, <1>3 DEF CallerInv, c
<1>5. Moves(p, r)
  BY <1>2, <1>3, <1>4, FieldMoves
<1> QED BY <1>3, <1>5 DEF r, c

LEMMA QuietMcp ==
  ASSUME McpInv, BoundAssumption, NEW p \in Callers,
         \/ CachedCatalog(p) \/ Publish(p) \/ Retry(p) \/ GiveUp(p) \/ CancelledWait(p)
         \/ EnsureSession(p) /\ session # 0
         \/ Request(p) /\ caller[p].kind # "call"
  PROVE  McpInv'
<1> DEFINE c == caller[p]
<1>1. /\ c \in CallerStates /\ CallerInv(c) /\ Len(conn) \in Nat /\ ops \in Nat
      /\ c.pc # "shut" => c.closing = 0
      /\ c.pc \notin Live => c.token = 0
      /\ c.cause \in Causes
  BY CallerFacts DEF CallerStates
<1>2. /\ session \in 0 .. Len(conn) /\ catalog \in 0 .. Len(conn)
      /\ ops \in 0 .. MaxOps /\ failures \in 0 .. MaxFailures /\ hostClosed \in BOOLEAN
  BY TypeMeans DEF McpInv
<1>3. ASSUME NEW how \in Causes \cup {"ok"}, Finish(p, how),
             UNCHANGED <<conn, session, holder, progress, ops>>,
             catalog' \in 0 .. Len(conn), failures' \in 0 .. MaxFailures, hostClosed' = hostClosed,
             c.pc \notin Live \cup {"connect", "shut"}
      PROVE  McpInv'
  <2>1. Moves(p, Idle(how))
    BY <1>3, FinishMoves DEF progress
  <2>2. Idle(how).pc # "connect" /\ Idle(how).token = 0 /\ Idle(how).closing = 0
    BY DEF Idle
  <2> QED BY <1>2, <1>3, <2>1, <2>2, GoesOn
<1>4. CASE CachedCatalog(p)
  <2>1. c.pc = "cached" /\ UNCHANGED <<conn, session, catalog, holder, progress, ops, failures, hostClosed>>
    BY <1>4 DEF CachedCatalog, At, shared, bounds
  <2>2. CASE Finish(p, "ok")
    BY <1>2, <1>3, <2>1, <2>2 DEF Live
  <2>3. CASE Goto(p, "ensure")
    <3>1. /\ c.executed < c.attempt /\ c.closing = 0 /\ c.token = 0
          /\ c.cause \in {"none", "network"} /\ "ensure" \in Places
      BY <1>1, <2>1 DEF CallerInv, Attempting, Live, Places
    <3>2. Moves(p, [caller[p] EXCEPT !.pc = "ensure"])
          /\ [caller[p] EXCEPT !.pc = "ensure"].pc = "ensure"
          /\ [caller[p] EXCEPT !.pc = "ensure"].token = 0
          /\ [caller[p] EXCEPT !.pc = "ensure"].closing = 0
      BY <2>1, <2>3, <3>1, GotoMoves DEF progress, Live, OnSession
    <3> QED BY <1>2, <2>1, <3>2, GoesOn DEF Live
  <2> QED BY <1>4, <2>2, <2>3 DEF CachedCatalog
<1>5. CASE Publish(p)
  <2>1. /\ c.pc = "publish" /\ UNCHANGED <<conn, session, holder, progress, ops, failures, hostClosed>>
        /\ catalog' = c.using /\ Finish(p, "ok")
    BY <1>5 DEF Publish, At, bounds
  <2>2. c.using \in 0 .. Len(conn)
    BY <1>1 DEF CallerStates
  <2> QED BY <1>2, <1>3, <2>1, <2>2 DEF Live
<1>6. CASE GiveUp(p)
  BY <1>1, <1>2, <1>3, <1>6 DEF GiveUp, At, shared, bounds, Live
<1>7. CASE CancelledWait(p)
  <2>1. /\ c.pc = "backoff" /\ UNCHANGED <<conn, session, catalog, holder, progress, ops, hostClosed>>
        /\ failures < MaxFailures /\ failures' = failures + 1
        /\ Finish(p, IF ShouldReconnect(c.cause) THEN "cancelled" ELSE c.cause)
    BY <1>7 DEF CancelledWait, EnvironmentFails, At, shared
  <2>2. failures' \in 0 .. MaxFailures
    BY <1>2, <2>1 DEF BoundAssumption
  <2>3. (IF ShouldReconnect(c.cause) THEN "cancelled" ELSE c.cause) \in Causes
    BY <1>1 DEF Causes
  <2> QED BY <1>2, <1>3, <2>1, <2>2, <2>3 DEF Live
<1>8. CASE Retry(p)
  <2> DEFINE r == [c EXCEPT !.attempt = @ + 1, !.using = 0, !.pc = "ensure"]
  <2>1. /\ c.pc = "backoff" /\ c.cause = "network" /\ caller' = [caller EXCEPT ![p] = r]
        /\ UNCHANGED <<conn, session, catalog, holder, progress, ops, failures, hostClosed>>
    BY <1>8 DEF Retry, NextAttempt, ShouldReconnect, At, shared, bounds
  <2>2. c.attempt + 1 \in 0 .. MaxAttempts /\ c.executed < c.attempt + 1 /\ c.token = 0
        /\ c.closing = 0 /\ c.op # 0 /\ c.kind \in Kinds /\ c.attempt + 1 >= 1
    BY <1>1, <2>1 DEF CallerInv, CallerStates, MaxAttempts, Live
  <2> HIDE DEF c
  <2>3. /\ r.pc = "ensure" /\ r.kind = c.kind /\ r.op = c.op /\ r.attempt = c.attempt + 1
        /\ r.using = 0 /\ r.closing = c.closing /\ r.cause = c.cause /\ r.token = c.token
        /\ r.executed = c.executed
    BY <1>1 DEF CallerStates
  <2>4. r \in CallerStates
    BY <1>1, <2>2 DEF CallerStates, Places
  <2> HIDE DEF r
  <2>5. CallerInv(r)
    BY <2>1, <2>2, <2>3, <2>4 DEF CallerInv, Attempting, OnSession, Live, CallerStates
  <2>6. Moves(p, r)
    BY <2>1, <2>4, <2>5, FieldMoves DEF progress
  <2> QED BY <1>2, <2>1, <2>2, <2>3, <2>6, GoesOn DEF Live, c
<1>9. CASE EnsureSession(p) /\ session # 0
  <2> DEFINE r == [c EXCEPT !.using = session, !.pc = "request"]
  <2>1. /\ c.pc = "ensure" /\ caller' = [caller EXCEPT ![p] = r]
        /\ UNCHANGED <<conn, session, catalog, holder, progress, ops, failures, hostClosed>>
    BY <1>9 DEF EnsureSession, UseSession, At, bounds
  <2>2. c.executed < c.attempt /\ c.token = 0 /\ c.closing = 0 /\ c.op # 0 /\ c.kind \in Kinds
        /\ c.attempt >= 1 /\ c.cause \in {"none", "network"}
    BY <1>1, <2>1 DEF CallerInv, Attempting, Live
  <2> HIDE DEF c
  <2>3. /\ r.pc = "request" /\ r.kind = c.kind /\ r.op = c.op /\ r.attempt = c.attempt
        /\ r.using = session /\ r.closing = c.closing /\ r.cause = c.cause /\ r.token = c.token
        /\ r.executed = c.executed
    BY <1>1 DEF CallerStates
  <2>4. r \in CallerStates
    BY <1>1, <1>2 DEF CallerStates, Places
  <2> HIDE DEF r
  <2>5. CallerInv(r)
    BY <1>1, <1>9, <2>2, <2>3 DEF CallerInv, Attempting, OnSession, Live
  <2>6. Moves(p, r)
    BY <2>1, <2>4, <2>5, FieldMoves DEF progress
  <2> QED BY <1>2, <2>1, <2>2, <2>3, <2>6, GoesOn DEF Live, c
<1>10. CASE Request(p) /\ c.kind # "call"
  <2>1. /\ c.pc = "request" /\ Goto(p, "wait")
        /\ UNCHANGED <<conn, session, catalog, holder, progress, ops, failures, hostClosed>>
    BY <1>10 DEF Request, At, shared, progress, bounds
  <2>2. /\ c.executed < c.attempt /\ c.closing = 0 /\ c.token = 0 /\ c.using # 0
        /\ c.cause \in {"none", "network"} /\ "wait" \in Places
    BY <1>1, <2>1 DEF CallerInv, Attempting, OnSession, Live, Places
  <2>3. Moves(p, [caller[p] EXCEPT !.pc = "wait"])
        /\ [caller[p] EXCEPT !.pc = "wait"].pc = "wait"
        /\ [caller[p] EXCEPT !.pc = "wait"].token = 0
        /\ [caller[p] EXCEPT !.pc = "wait"].closing = 0
    BY <1>10, <2>1, <2>2, GotoMoves DEF progress, Live, OnSession
  <2> QED BY <1>2, <2>1, <2>3, GoesOn DEF Live
<1> QED BY <1>4, <1>5, <1>6, <1>7, <1>8, <1>9, <1>10

(* An attempt that ends takes its callback away, whatever its result.      *)
LEMMA EndOfAttempt ==
  ASSUME McpInv, BoundAssumption, NEW p \in Callers, caller[p].pc \in Live,
         UNCHANGED <<shared, seq, working, delivering, ops, hostClosed>>, Unregister(p),
         failures' \in 0 .. MaxFailures,
         NEW r, Moves(p, r), r.token = 0, r.closing = 0, r.pc # "connect"
  PROVE  McpInv'
<1>1. /\ caller[p].closing = 0 /\ caller[p].pc # "connect"
      /\ catalog \in 0 .. Len(conn) /\ ops \in 0 .. MaxOps /\ hostClosed \in BOOLEAN
  BY CallerFacts, TypeMeans DEF McpInv, Live
<1>2. /\ DOMAIN registry' = DOMAIN registry \ {caller[p].token}
      /\ \A t \in DOMAIN registry' : registry'[t] = registry[t]
  BY DEF Unregister, Restrict
<1> QED BY <1>1, <1>2, QuietMove DEF shared

LEMMA ReplyMcp ==
  ASSUME McpInv, BoundAssumption, NEW p \in Callers, Reply(p)
  PROVE  McpInv'
<1> DEFINE c == caller[p]
<1>1. /\ c.pc = "executed" /\ UNCHANGED <<shared, seq, working, delivering, ops, failures, hostClosed>>
      /\ Unregister(p)
      /\ IF c.kind = "list" THEN Goto(p, "publish") ELSE Finish(p, "ok")
  BY DEF Reply, At, bounds
<1>2. c \in CallerStates /\ CallerInv(c) /\ failures \in 0 .. MaxFailures
  BY CallerFacts, TypeMeans DEF McpInv
<1>3. CASE Finish(p, "ok")
  <2>1. Moves(p, Idle("ok"))
    BY <1>1, <1>3, FinishMoves DEF shared
  <2>2. Idle("ok").pc # "connect" /\ Idle("ok").token = 0 /\ Idle("ok").closing = 0
    BY DEF Idle
  <2> QED BY <1>1, <1>2, <2>1, <2>2, EndOfAttempt DEF Live
<1>4. CASE c.kind = "list" /\ Goto(p, "publish")
  <2>1. /\ c.closing = 0 /\ c.token = 0 /\ c.using # 0
        /\ c.cause \in {"none", "network"} /\ "publish" \in Places
    BY <1>1, <1>2, <1>4 DEF CallerInv, OnSession, Live, Places
  <2>2. Moves(p, [caller[p] EXCEPT !.pc = "publish"])
        /\ [caller[p] EXCEPT !.pc = "publish"].pc = "publish"
        /\ [caller[p] EXCEPT !.pc = "publish"].token = 0
        /\ [caller[p] EXCEPT !.pc = "publish"].closing = 0
    BY <1>1, <1>4, <2>1, GotoMoves DEF shared, Live, OnSession, Attempting
  <2> QED BY <1>1, <1>2, <2>2, EndOfAttempt DEF Live
<1> QED BY <1>1, <1>3, <1>4

LEMMA FailMcp ==
  ASSUME McpInv, BoundAssumption, NEW p \in Callers, caller[p].pc \in Live,
         NEW why \in {"network", "rpc", "cancelled"}, FailAttempt(p, why),
         failures' \in 0 .. MaxFailures
  PROVE  McpInv'
<1> DEFINE c == caller[p]
           next == IF ShouldReconnect(why) THEN "detach" ELSE AfterFailure(p)
           r == [c EXCEPT !.token = 0, !.cause = why, !.pc = next]
<1>1. /\ UNCHANGED <<shared, seq, working, delivering, ops, hostClosed>>
      /\ Unregister(p) /\ caller' = [caller EXCEPT ![p] = r]
  BY DEF FailAttempt
<1>2. c \in CallerStates /\ CallerInv(c) /\ c.closing = 0
  BY CallerFacts DEF Live
<1>3. /\ next \in {"detach", "backoff", "giveup"}
      /\ next = "backoff" => c.attempt < MaxAttempts
      /\ next = "giveup" => c.attempt = MaxAttempts
      /\ why # "network" => next \in {"backoff", "giveup"}
  BY <1>2 DEF ShouldReconnect, AfterFailure, CallerStates, MaxAttempts
<1> HIDE DEF c, next
<1>4. /\ r.pc = next /\ r.kind = c.kind /\ r.op = c.op /\ r.attempt = c.attempt
      /\ r.using = c.using /\ r.closing = c.closing /\ r.cause = why /\ r.token = 0
      /\ r.executed = c.executed
  BY <1>2 DEF CallerStates
<1>5. r \in CallerStates
  <2>1. why \in Causes /\ next \in Places /\ 0 \in 0 .. seq
    BY <1>3, CallerFacts DEF Causes, Places
  <2> QED BY <1>2, <2>1 DEF CallerStates
<1> HIDE DEF r
<1>6. CallerInv(r)
  BY <1>2, <1>3, <1>4 DEF CallerInv, Attempting, OnSession, Live, c
<1>7. Moves(p, r)
  BY <1>1, <1>5, <1>6, FieldMoves DEF shared
<1>8. r.token = 0 /\ r.closing = 0 /\ r.pc # "connect"
  BY <1>2, <1>3, <1>4
<1> QED BY <1>1, <1>7, <1>8, EndOfAttempt

----------------------------------------------------------------------------
(* The steps that take or release the mutex and change the session.        *)

(* What the goroutine that moves p without a token leaves of the rest.     *)
LEMMA SessionMove ==
  ASSUME McpInv, BoundAssumption, NEW p \in Callers, NEW r, Moves(p, r),
         UNCHANGED <<progress, ops, hostClosed>>, caller[p].pc \notin Live, r.token = 0,
         conn' \in Seq({"open", "dropped", "closed"}), session' \in 0 .. Len(conn'),
         catalog' \in 0 .. Len(conn'), holder' \in Callers \cup {NoCaller},
         failures' \in 0 .. MaxFailures,
         MutexInv', NoSessionLeaked'
  PROVE  McpInv'
<1>1. /\ caller' \in [Callers -> CallerStates']
      /\ \A q \in Callers : CallerInv(caller'[q])
      /\ caller'[p] = r
      /\ \A q \in Callers : q # p => caller'[q] = caller[q]
  BY OneMoves
<1>2. caller[p].token = 0 /\ 0 \notin DOMAIN registry
  BY CallerFacts
<1>3. TypeOK'
  BY <1>1, TypeMeans DEF McpInv, progress, TypeOK, CallerStates, Places
<1>4. ProgressInv'
  BY <1>1, <1>2, TokenDropped DEF progress
<1> QED BY <1>1, <1>3, <1>4 DEF McpInv

LEMMA LockMcp ==
  ASSUME McpInv, BoundAssumption, CallerAssumption, NEW p \in Callers,
         EnsureSession(p), session = 0
  PROVE  McpInv'
<1> DEFINE c == caller[p]
<1>1. /\ c.pc = "ensure" /\ Goto(p, "connect") /\ holder' = p /\ holder = NoCaller
      /\ UNCHANGED <<conn, session, catalog, progress, ops, failures, hostClosed>>
  BY DEF EnsureSession, LockFree, At, bounds
<1>2. /\ c \in CallerStates /\ CallerInv(c)
  BY CallerFacts
<1>3. /\ c.executed < c.attempt /\ c.closing = 0 /\ c.token = 0
      /\ c.cause \in {"none", "network"} /\ "connect" \in Places
  BY <1>1, <1>2 DEF CallerInv, Attempting, Live, Places
<1> DEFINE r == [caller[p] EXCEPT !.pc = "connect"]
<1>4. Moves(p, r) /\ r.pc = "connect" /\ r.token = 0 /\ r.closing = 0
  BY <1>1, <1>3, GotoMoves DEF progress, Live, OnSession
<1> HIDE DEF r
<1>5. caller'[p] = r /\ \A q \in Callers : q # p => caller'[q] = caller[q]
  BY <1>4, OneMoves
<1>6. MutexInv'
  BY <1>1, <1>4, <1>5 DEF McpInv, MutexInv, At, CallerAssumption
<1>7. NoSessionLeaked'
  BY <1>1, <1>3, <1>4, <1>5, LeakKept
<1>8. /\ conn' \in Seq({"open", "dropped", "closed"}) /\ session' \in 0 .. Len(conn')
      /\ catalog' \in 0 .. Len(conn') /\ failures' \in 0 .. MaxFailures
  BY <1>1, TypeMeans DEF McpInv
<1> QED BY <1>1, <1>4, <1>6, <1>7, <1>8, SessionMove DEF Live

LEMMA ConnectMcp ==
  ASSUME McpInv, BoundAssumption, CallerAssumption, NEW p \in Callers, Connect(p)
  PROVE  McpInv'
<1> DEFINE c == caller[p]
           n == Len(conn) + 1
           r == [c EXCEPT !.using = n, !.pc = "request"]
<1>1. /\ c.pc = "connect" /\ caller' = [caller EXCEPT ![p] = r] /\ holder' = NoCaller
      /\ conn' = Append(conn, "open") /\ session' = n /\ catalog' = 0
      /\ UNCHANGED <<progress, ops, failures, hostClosed>>
  BY DEF Connect, UseSession, At, bounds
<1>2. /\ c \in CallerStates /\ CallerInv(c) /\ c.closing = 0 /\ c.token = 0
      /\ Len(conn) \in Nat /\ seq \in Nat /\ ops \in Nat
      /\ conn \in Seq({"open", "dropped", "closed"})
  BY <1>1, CallerFacts, TypeMeans DEF Live, McpInv
<1>3. /\ conn' \in Seq({"open", "dropped", "closed"}) /\ Len(conn') = n /\ n # 0
      /\ DOMAIN conn' = DOMAIN conn \cup {n} /\ \A s \in DOMAIN conn : conn'[s] = conn[s]
  BY <1>1, <1>2
<1>4. session = 0 /\ \A q \in Callers : q # p => caller[q].pc # "connect"
  BY <1>1 DEF McpInv, MutexInv, At
<1> HIDE DEF c, n
<1>5. /\ r.pc = "request" /\ r.kind = c.kind /\ r.op = c.op /\ r.attempt = c.attempt
      /\ r.using = n /\ r.closing = c.closing /\ r.cause = c.cause /\ r.token = c.token
      /\ r.executed = c.executed
  BY <1>2 DEF CallerStates
<1>6. r \in CallerStates'
  <2>1. /\ 0 .. Len(conn) \subseteq 0 .. Len(conn') /\ n \in 0 .. Len(conn')
        /\ seq' = seq /\ ops' = ops
    BY <1>1, <1>2, <1>3 DEF n, progress
  <2> QED BY <1>2, <2>1 DEF CallerStates, Places
<1> HIDE DEF r
<1>7. CallerInv(r)
  BY <1>1, <1>2, <1>3, <1>5 DEF CallerInv, Attempting, OnSession, Live, c
<1>8. Moves(p, r)
  BY <1>1, <1>2, <1>3, <1>6, <1>7 DEF Moves, progress, n
<1>9. caller'[p] = r /\ \A q \in Callers : q # p => caller'[q] = caller[q]
  BY <1>8, OneMoves
<1>10. MutexInv'
  BY <1>1, <1>4, <1>5, <1>9 DEF MutexInv, At, CallerAssumption
<1>11. NoSessionLeaked'
  <2>1. \A s \in DOMAIN conn : s # 0
    BY <1>2
  <2>2. \A s \in DOMAIN conn : conn[s] = "closed" \/ \E q \in Callers : caller[q].closing = s
    BY <1>4, <2>1 DEF McpInv, NoSessionLeaked
  <2>3. \A q \in Callers : caller'[q].closing = caller[q].closing
    BY <1>5, <1>9 DEF c
  <2> QED BY <1>1, <1>3, <2>2, <2>3 DEF NoSessionLeaked
<1>12. session' \in 0 .. Len(conn') /\ catalog' \in 0 .. Len(conn') /\ failures' \in 0 .. MaxFailures
  BY <1>1, <1>2, <1>3, TypeMeans DEF McpInv, n
<1>13. c.pc \notin Live /\ r.token = 0
  BY <1>1, <1>2, <1>5 DEF Live
<1> QED BY <1>1, <1>3, <1>8, <1>10, <1>11, <1>12, <1>13, SessionMove DEF c

LEMMA ConnectFailsMcp ==
  ASSUME McpInv, BoundAssumption, CallerAssumption, CauseAssumption, NEW p \in Callers,
         NEW why \in StartCauses, ConnectFails(p, why)
  PROVE  McpInv'
<1> DEFINE c == caller[p]
           next == AfterFailure(p)
           r == [c EXCEPT !.cause = why, !.pc = next]
<1>1. /\ c.pc = "connect" /\ caller' = [caller EXCEPT ![p] = r] /\ holder' = NoCaller
      /\ UNCHANGED <<conn, session, catalog, progress, ops, hostClosed>>
      /\ failures < MaxFailures /\ failures' = failures + 1
  BY DEF ConnectFails, EnvironmentFails, At
<1>2. /\ c \in CallerStates /\ CallerInv(c) /\ c.closing = 0 /\ c.token = 0
      /\ failures \in Nat
  BY <1>1, CallerFacts DEF Live
<1>3. /\ next \in {"backoff", "giveup"}
      /\ next = "backoff" => c.attempt < MaxAttempts
      /\ next = "giveup" => c.attempt = MaxAttempts
  BY <1>2 DEF AfterFailure, CallerStates, MaxAttempts
<1>4. \A q \in Callers : q # p => caller[q].pc # "connect"
  BY <1>1 DEF McpInv, MutexInv, At
<1> HIDE DEF c, next
<1>5. /\ r.pc = next /\ r.kind = c.kind /\ r.op = c.op /\ r.attempt = c.attempt
      /\ r.using = c.using /\ r.closing = c.closing /\ r.cause = why /\ r.token = c.token
      /\ r.executed = c.executed
  BY <1>2 DEF CallerStates
<1>6. r \in CallerStates
  <2>1. why \in Causes /\ next \in Places
    BY <1>3 DEF CauseAssumption, Causes, Places
  <2> QED BY <1>2, <2>1 DEF CallerStates
<1> HIDE DEF r
<1>7. CallerInv(r)
  BY <1>1, <1>2, <1>3, <1>5 DEF CallerInv, Attempting, OnSession, Live
<1>8. Moves(p, r)
  BY <1>1, <1>6, <1>7, FieldMoves DEF progress
<1>9. caller'[p] = r /\ \A q \in Callers : q # p => caller'[q] = caller[q]
  BY <1>8, OneMoves
<1>10. MutexInv'
  BY <1>1, <1>3, <1>4, <1>5, <1>9 DEF MutexInv, At, CallerAssumption
<1>11. NoSessionLeaked'
  BY <1>1, <1>5, <1>9, LeakKept DEF c
<1>12. /\ conn' \in Seq({"open", "dropped", "closed"}) /\ session' \in 0 .. Len(conn')
       /\ catalog' \in 0 .. Len(conn') /\ holder' \in Callers \cup {NoCaller}
       /\ failures' \in 0 .. MaxFailures
  BY <1>1, <1>2, TypeMeans DEF McpInv, BoundAssumption
<1>13. c.pc \notin Live /\ r.token = 0
  BY <1>1, <1>2, <1>5 DEF Live
<1> QED BY <1>1, <1>8, <1>10, <1>11, <1>12, <1>13, SessionMove DEF c

(* Whoever takes the session out of the client is about to close it.       *)
LEMMA DetachMcp ==
  ASSUME McpInv, BoundAssumption, CallerAssumption, NEW p \in Callers, Detach(p)
  PROVE  McpInv'
<1> DEFINE c == caller[p]
           r == [c EXCEPT !.closing = session, !.pc = "shut"]
<1>1. /\ c.pc = "detach" /\ caller' = [caller EXCEPT ![p] = r] /\ holder = NoCaller
      /\ session' = 0 /\ catalog' = 0
      /\ UNCHANGED <<conn, holder, progress, ops, failures, hostClosed>>
  BY DEF Detach, LockFree, At, bounds
<1>2. /\ c \in CallerStates /\ CallerInv(c) /\ c.closing = 0 /\ c.token = 0
      /\ session \in 0 .. Len(conn) /\ Len(conn) \in Nat
  BY <1>1, CallerFacts, TypeMeans DEF Live, McpInv
<1> HIDE DEF c
<1>3. /\ r.pc = "shut" /\ r.kind = c.kind /\ r.op = c.op /\ r.attempt = c.attempt
      /\ r.using = c.using /\ r.closing = session /\ r.cause = c.cause /\ r.token = c.token
      /\ r.executed = c.executed
  BY <1>2 DEF CallerStates
<1>4. r \in CallerStates
  BY <1>2 DEF CallerStates, Places
<1> HIDE DEF r
<1>5. CallerInv(r)
  BY <1>1, <1>2, <1>3 DEF CallerInv, Attempting, OnSession, Live
<1>6. Moves(p, r)
  BY <1>1, <1>4, <1>5, FieldMoves DEF progress
<1>7. caller'[p] = r /\ \A q \in Callers : q # p => caller'[q] = caller[q]
  BY <1>6, OneMoves
<1>8. MutexInv'
  BY <1>1, <1>3, <1>7 DEF McpInv, MutexInv, At, c
<1>9. NoSessionLeaked'
  <2>1. ASSUME NEW s \in DOMAIN conn
        PROVE  conn[s] = "closed" \/ \E q \in Callers : caller'[q].closing = s
    <3>1. s # 0
      BY <1>2, TypeMeans DEF McpInv
    <3>2. CASE s = session
      BY <1>3, <1>7, <3>2
    <3>3. CASE conn[s] = "closed"
      BY <3>3
    <3>4. CASE \E q \in Callers : caller[q].closing = s
      BY <1>2, <1>7, <3>1, <3>4 DEF c
    <3> QED BY <3>2, <3>3, <3>4 DEF McpInv, NoSessionLeaked
  <2> QED BY <1>1, <2>1 DEF NoSessionLeaked
<1>10. /\ conn' \in Seq({"open", "dropped", "closed"}) /\ session' \in 0 .. Len(conn')
       /\ catalog' \in 0 .. Len(conn') /\ holder' \in Callers \cup {NoCaller}
       /\ failures' \in 0 .. MaxFailures
  BY <1>1, <1>2, TypeMeans DEF McpInv
<1>11. c.pc \notin Live /\ r.token = 0
  BY <1>1, <1>2, <1>3 DEF Live
<1> QED BY <1>1, <1>6, <1>8, <1>9, <1>10, <1>11, SessionMove DEF c

LEMMA ShutMcp ==
  ASSUME McpInv, BoundAssumption, NEW p \in Callers, Shut(p)
  PROVE  McpInv'
<1> DEFINE c == caller[p]
           next == AfterFailure(p)
           s == [c EXCEPT !.closing = 0, !.pc = next]
           r == IF c.kind = "close" THEN Idle("ok") ELSE s
<1>1. /\ c.pc = "shut" /\ caller' = [caller EXCEPT ![p] = r]
      /\ conn' = [i \in DOMAIN conn |-> IF i = c.closing THEN "closed" ELSE conn[i]]
      /\ UNCHANGED <<session, catalog, holder, progress, ops, failures, hostClosed>>
  BY DEF Shut, Finish, At, bounds
<1>2. /\ c \in CallerStates /\ CallerInv(c) /\ c.token = 0
      /\ Len(conn) \in Nat /\ seq \in Nat /\ ops \in Nat
      /\ conn \in Seq({"open", "dropped", "closed"})
  BY <1>1, CallerFacts, TypeMeans DEF Live, McpInv
<1>3. /\ conn' \in Seq({"open", "dropped", "closed"}) /\ Len(conn') = Len(conn)
      /\ DOMAIN conn' = DOMAIN conn
      /\ \A i \in DOMAIN conn : conn'[i] = IF i = c.closing THEN "closed" ELSE conn[i]
  <2>1. DOMAIN conn = 1 .. Len(conn)
    BY <1>2
  <2> QED BY <1>1, <1>2, <2>1
<1>4. /\ next \in {"backoff", "giveup"}
      /\ next = "backoff" => c.attempt < MaxAttempts
      /\ next = "giveup" => c.attempt = MaxAttempts
  BY <1>2 DEF AfterFailure, CallerStates, MaxAttempts
<1> HIDE DEF c, next
<1>5. /\ s.pc = next /\ s.kind = c.kind /\ s.op = c.op /\ s.attempt = c.attempt
      /\ s.using = c.using /\ s.closing = 0 /\ s.cause = c.cause /\ s.token = c.token
      /\ s.executed = c.executed
  BY <1>2 DEF CallerStates
<1>6. s \in CallerStates
  <2>1. 0 \in 0 .. Len(conn) /\ next \in Places
    BY <1>2, <1>4 DEF Places
  <2> QED BY <1>2, <2>1 DEF CallerStates
<1> HIDE DEF s
<1>7. CallerInv(s)
  BY <1>1, <1>2, <1>4, <1>5 DEF CallerInv, Attempting, OnSession, Live
<1>8. Idle("ok") \in CallerStates /\ CallerInv(Idle("ok"))
  BY <1>2, IdleState
<1>9. Idle("ok").pc = "idle" /\ Idle("ok").token = 0 /\ Idle("ok").closing = 0
  BY DEF Idle
<1>10. /\ r \in CallerStates' /\ CallerInv(r) /\ r.pc \notin {"connect", "shut"}
       /\ r.token = 0 /\ r.closing = 0
  <2>1. CallerStates' = CallerStates
    BY <1>1, <1>3 DEF CallerStates, progress
  <2> QED BY <1>2, <1>4, <1>5, <1>6, <1>7, <1>8, <1>9, <2>1
<1> HIDE DEF r
<1>11. Moves(p, r)
  BY <1>1, <1>2, <1>3, <1>10 DEF Moves, progress
<1>12. caller'[p] = r /\ \A q \in Callers : q # p => caller'[q] = caller[q]
  BY <1>11, OneMoves
<1>13. MutexInv'
  BY <1>1, <1>10, <1>12, MutexKept DEF c
<1>14. NoSessionLeaked'
  <2>1. ASSUME NEW i \in DOMAIN conn
        PROVE  i = session \/ conn'[i] = "closed" \/ \E q \in Callers : caller'[q].closing = i
    <3>1. CASE i = c.closing
      BY <1>3, <3>1
    <3>2. CASE i # c.closing
      <4>1. i = session \/ conn'[i] = "closed" \/ \E q \in Callers : caller[q].closing = i
        BY <1>3, <3>2 DEF McpInv, NoSessionLeaked
      <4> QED BY <1>12, <3>2, <4>1 DEF c
    <3> QED BY <3>1, <3>2
  <2> QED BY <1>1, <1>3, <2>1 DEF NoSessionLeaked
<1>15. /\ session' \in 0 .. Len(conn') /\ catalog' \in 0 .. Len(conn')
       /\ holder' \in Callers \cup {NoCaller} /\ failures' \in 0 .. MaxFailures
  BY <1>1, <1>3, TypeMeans DEF McpInv
<1>16. c.pc \notin Live
  BY <1>1 DEF Live
<1> QED BY <1>1, <1>3, <1>10, <1>11, <1>13, <1>14, <1>15, <1>16, SessionMove DEF c

----------------------------------------------------------------------------
(* The life of a call: a fresh token, its execution, the progress of it.   *)

LEMMA RequestMcp ==
  ASSUME McpInv, BoundAssumption, NEW p \in Callers, Request(p), caller[p].kind = "call"
  PROVE  McpInv'
<1> DEFINE c == caller[p]
           n == seq + 1
           r == [c EXCEPT !.token = n, !.pc = "wait"]
<1>1. /\ c.pc = "request" /\ caller' = [caller EXCEPT ![p] = r] /\ seq' = n
      /\ registry' = [u \in DOMAIN registry \cup {n} |-> IF u = n THEN c.op ELSE registry[u]]
      /\ UNCHANGED <<conn, session, catalog, holder, working, delivering, ops, failures, hostClosed>>
  BY DEF Request, Register, At, shared, bounds
<1>2. /\ c \in CallerStates /\ CallerInv(c) /\ c.closing = 0 /\ c.token = 0 /\ c.op \in 1 .. ops
      /\ Len(conn) \in Nat /\ seq \in Nat /\ ops \in Nat
      /\ DOMAIN registry \subseteq 1 .. seq /\ \A t \in DOMAIN registry : registry[t] \in 1 .. ops
  <2>1. /\ c \in CallerStates /\ CallerInv(c) /\ c.closing = 0 /\ c.token = 0
        /\ Len(conn) \in Nat /\ seq \in Nat /\ ops \in Nat
    BY <1>1, CallerFacts DEF Live
  <2>2. c.op \in 1 .. ops
    BY <1>1, <2>1 DEF CallerInv, CallerStates
  <2> QED BY <2>1, <2>2, TypeMeans DEF McpInv
<1>3. /\ DOMAIN registry' = DOMAIN registry \cup {n} /\ registry'[n] = c.op
      /\ \A t \in DOMAIN registry : t # n /\ registry'[t] = registry[t]
      /\ n # 0 /\ n \in Nat /\ n > seq
  BY <1>1, <1>2
<1>4. \A q \in Callers : caller[q].token # n
  <2>1. \A q \in Callers : caller[q].token \in 0 .. seq
    BY TypeMeans DEF McpInv, CallerStates
  <2> QED BY <1>2, <2>1
<1>5. \A w \in working : w.token # n
  BY <1>2, TypeMeans DEF McpInv
<1> HIDE DEF c, n
<1>6. /\ r.pc = "wait" /\ r.kind = c.kind /\ r.op = c.op /\ r.attempt = c.attempt
      /\ r.using = c.using /\ r.closing = c.closing /\ r.cause = c.cause /\ r.token = n
      /\ r.executed = c.executed
  BY <1>2 DEF CallerStates
<1>7. r \in CallerStates'
  <2>1. n \in 0 .. seq' /\ 0 .. seq \subseteq 0 .. seq'
    BY <1>1, <1>2, <1>3
  <2> QED BY <1>1, <1>2, <2>1 DEF CallerStates, Places
<1> HIDE DEF r
<1>8. CallerInv(r)
  <2>1. c.kind = "call"
    BY DEF c
  <2> QED BY <1>1, <1>2, <1>3, <1>6, <2>1 DEF CallerInv, Attempting, OnSession, Live
<1>9. Moves(p, r)
  BY <1>1, <1>2, <1>3, <1>7, <1>8 DEF Moves
<1>10. /\ caller' \in [Callers -> CallerStates']
       /\ \A q \in Callers : CallerInv(caller'[q])
       /\ caller'[p] = r /\ \A q \in Callers : q # p => caller'[q] = caller[q]
  BY <1>9, OneMoves
<1>11. TypeOK'
  <2>1. DOMAIN registry' \subseteq 1 .. seq' /\ \A t \in DOMAIN registry' : registry'[t] \in 1 .. ops'
    BY <1>1, <1>2, <1>3
  <2>2. working' \subseteq [token : 1 .. seq', op : 1 .. ops']
    <3>1. 1 .. seq \subseteq 1 .. seq'
      BY <1>1, <1>2, <1>3
    <3> QED BY <1>1, <3>1, TypeMeans DEF McpInv
  <2>3. /\ conn' \in Seq({"open", "dropped", "closed"})
        /\ session' \in 0 .. Len(conn') /\ catalog' \in 0 .. Len(conn')
        /\ holder' \in Callers \cup {NoCaller} /\ seq' \in Nat
        /\ delivering' \subseteq [from : 1 .. ops', to : 1 .. ops']
        /\ ops' \in 0 .. MaxOps /\ failures' \in 0 .. MaxFailures /\ hostClosed' \in BOOLEAN
    BY <1>1, <1>3, TypeMeans DEF McpInv
  <2> QED BY <1>10, <2>1, <2>2, <2>3 DEF TypeOK, CallerStates, Places
<1>12. MutexInv' /\ NoSessionLeaked'
  BY <1>1, <1>2, <1>6, <1>10, MutexKept, LeakKept DEF c
<1>13. TokenInv'
  <2>1. \A q, s \in Callers :
          caller'[q].token = caller'[s].token /\ q # s => caller'[q].token = 0
    BY <1>4, <1>6, <1>10 DEF McpInv, ProgressInv, TokenInv
  <2>2. \A q \in Callers :
          caller'[q].token \in DOMAIN registry' => registry'[caller'[q].token] = caller'[q].op
    BY <1>3, <1>4, <1>6, <1>10 DEF McpInv, ProgressInv, TokenInv
  <2>3. \A w \in working' : w.token \in DOMAIN registry' => registry'[w.token] = w.op
    BY <1>1, <1>3, <1>5 DEF McpInv, ProgressInv, TokenInv
  <2> QED BY <2>1, <2>2, <2>3 DEF TokenInv
<1>14. RegistryHoldsLiveCalls'
  <2>1. ASSUME NEW t \in DOMAIN registry'
        PROVE  \E q \in Callers : /\ caller'[q].token = t /\ registry'[t] = caller'[q].op
                                  /\ caller'[q].pc \in Live
    <3>1. CASE t = n
      BY <1>3, <1>6, <1>10, <3>1 DEF Live
    <3>2. CASE t # n
      <4>1. PICK q \in Callers :
              caller[q].token = t /\ registry[t] = caller[q].op /\ caller[q].pc \in Live
        BY <1>3, <2>1, <3>2 DEF McpInv, ProgressInv, RegistryHoldsLiveCalls, At, Live
      <4>2. q # p
        BY <1>1, <4>1 DEF Live, c
      <4> QED BY <1>3, <1>10, <2>1, <3>2, <4>1, <4>2
    <3> QED BY <3>1, <3>2
  <2> QED BY <2>1 DEF RegistryHoldsLiveCalls, At, Live
<1>15. ProgressReachesOwnCall'
  BY <1>1 DEF McpInv, ProgressInv, ProgressReachesOwnCall
<1> QED BY <1>10, <1>11, <1>12, <1>13, <1>14, <1>15 DEF McpInv, ProgressInv

LEMMA ExecuteMcp ==
  ASSUME McpInv, BoundAssumption, NEW p \in Callers, Execute(p)
  PROVE  McpInv'
<1> DEFINE c == caller[p]
           w == [token |-> c.token, op |-> c.op]
           r == [c EXCEPT !.executed = @ + 1, !.pc = "executed"]
<1>1. /\ c.pc = "wait" /\ caller' = [caller EXCEPT ![p] = r]
      /\ working' = working \/ (c.kind = "call" /\ working' = working \cup {w})
      /\ UNCHANGED <<conn, session, catalog, holder, registry, seq, delivering, ops, failures, hostClosed>>
  BY DEF Execute, At, shared, bounds
<1>2. /\ c \in CallerStates /\ CallerInv(c) /\ c.closing = 0
      /\ Len(conn) \in Nat /\ seq \in Nat /\ ops \in Nat
  BY <1>1, CallerFacts
<1>3. c.kind = "call" => w \in [token : 1 .. seq, op : 1 .. ops]
  BY <1>1, <1>2 DEF CallerInv, CallerStates, Live
<1>4. c.executed + 1 \in 0 .. MaxAttempts /\ c.executed + 1 <= c.attempt
  BY <1>1, <1>2 DEF CallerInv, CallerStates, Attempting, MaxAttempts
<1>5. w.token = c.token /\ w.op = c.op
  OBVIOUS
<1> HIDE DEF c, w
<1>6. /\ r.pc = "executed" /\ r.kind = c.kind /\ r.op = c.op /\ r.attempt = c.attempt
      /\ r.using = c.using /\ r.closing = c.closing /\ r.cause = c.cause /\ r.token = c.token
      /\ r.executed = c.executed + 1
  BY <1>2 DEF CallerStates
<1>7. r \in CallerStates
  <2>1. "executed" \in Places
    BY DEF Places
  <2> QED BY <1>2, <1>4, <2>1 DEF CallerStates
<1> HIDE DEF r
<1>8. CallerInv(r)
  BY <1>1, <1>2, <1>4, <1>6 DEF CallerInv, Attempting, OnSession, Live
<1>9. Moves(p, r)
  BY <1>1, <1>7, <1>8, FieldMoves
<1>10. /\ caller' \in [Callers -> CallerStates']
       /\ \A q \in Callers : CallerInv(caller'[q])
       /\ caller'[p] = r /\ \A q \in Callers : q # p => caller'[q] = caller[q]
  BY <1>9, OneMoves
<1>11. TypeOK'
  <2>1. working' \subseteq [token : 1 .. seq, op : 1 .. ops]
    BY <1>1, <1>3, TypeMeans DEF McpInv
  <2> QED BY <1>1, <1>10, <2>1, TypeMeans DEF McpInv, TypeOK, CallerStates, Places
<1>12. MutexInv' /\ NoSessionLeaked'
  BY <1>1, <1>6, <1>10, MutexKept, LeakKept DEF c
<1>13. TokenInv'
  <2>1. \A q \in Callers : caller'[q].token = caller[q].token /\ caller'[q].op = caller[q].op
    BY <1>6, <1>10 DEF c
  <2>2. c.token \in DOMAIN registry => registry[c.token] = c.op
    BY DEF McpInv, ProgressInv, TokenInv, c
  <2>3. \A x \in working' : x.token \in DOMAIN registry => registry[x.token] = x.op
    BY <1>1, <1>5, <2>2 DEF McpInv, ProgressInv, TokenInv
  <2> QED BY <1>1, <2>1, <2>3 DEF McpInv, ProgressInv, TokenInv
<1>14. RegistryHoldsLiveCalls'
  <2>1. ASSUME NEW q \in Callers
        PROVE  /\ caller'[q].token = caller[q].token /\ caller'[q].op = caller[q].op
               /\ caller[q].pc \in Live => caller'[q].pc \in Live
    BY <1>6, <1>10 DEF Live, c
  <2>2. \A t \in DOMAIN registry : \E q \in Callers :
          caller[q].token = t /\ registry[t] = caller[q].op /\ caller[q].pc \in Live
    BY DEF McpInv, ProgressInv, RegistryHoldsLiveCalls, At, Live
  <2>3. \A t \in DOMAIN registry : \E q \in Callers :
          caller'[q].token = t /\ registry[t] = caller'[q].op /\ caller'[q].pc \in Live
    BY <2>1, <2>2
  <2> QED BY <1>1, <2>3 DEF RegistryHoldsLiveCalls, At, Live
<1>15. ProgressReachesOwnCall'
  BY <1>1 DEF McpInv, ProgressInv, ProgressReachesOwnCall
<1> QED BY <1>10, <1>11, <1>12, <1>13, <1>14, <1>15 DEF McpInv, ProgressInv

LEMMA EnvironmentMcp ==
  ASSUME McpInv, BoundAssumption, Environment
  PROVE  McpInv'
<1>1. ASSUME UNCHANGED <<caller, session, holder, seq, ops>>, DOMAIN conn' = DOMAIN conn,
             conn' \in Seq({"open", "dropped", "closed"}), Len(conn') = Len(conn), TypeOK',
             \A s \in DOMAIN conn : conn[s] = "closed" => conn'[s] = "closed",
             ProgressInv'
      PROVE  McpInv'
  BY <1>1 DEF McpInv, MutexInv, NoSessionLeaked, At
<1>2. ASSUME NEW s \in DOMAIN conn, DropSession(s) PROVE McpInv'
  <2>1. /\ conn[s] = "open" /\ conn' = [conn EXCEPT ![s] = "dropped"]
        /\ UNCHANGED <<session, catalog, holder, registry, seq, working, delivering, caller, ops,
                       hostClosed>>
        /\ failures < MaxFailures /\ failures' = failures + 1
    BY <1>2 DEF DropSession, EnvironmentFails, progress
  <2>2. /\ conn' \in Seq({"open", "dropped", "closed"}) /\ Len(conn') = Len(conn)
        /\ DOMAIN conn' = DOMAIN conn
        /\ \A i \in DOMAIN conn : conn[i] = "closed" => conn'[i] = "closed"
    BY <2>1, TypeMeans DEF McpInv
  <2>3. failures' \in 0 .. MaxFailures
    BY <2>1, TypeMeans DEF McpInv, BoundAssumption
  <2>4. TypeOK'
    BY <2>1, <2>2, <2>3, TypeMeans DEF McpInv, TypeOK, CallerStates, Places
  <2>5. ProgressInv'
    BY <2>1 DEF McpInv, ProgressInv, TokenInv, RegistryHoldsLiveCalls, ProgressReachesOwnCall, At
  <2> QED BY <1>1, <2>1, <2>2, <2>4, <2>5
<1>3. ASSUME NEW w \in working, Dispatch(w) PROVE McpInv'
  <2> DEFINE d == [from |-> w.op, to |-> registry[w.token]]
  <2>1. /\ working' \subseteq working
        /\ delivering' = delivering \/ (w.token \in DOMAIN registry /\ delivering' = delivering \cup {d})
        /\ UNCHANGED <<conn, session, catalog, holder, registry, seq, caller, ops, failures, hostClosed>>
    BY <1>3 DEF Dispatch, shared, bounds
  <2>2. w.token \in DOMAIN registry => d.from = d.to /\ d \in [from : 1 .. ops, to : 1 .. ops]
    <3>1. w \in [token : 1 .. seq, op : 1 .. ops]
      BY TypeMeans DEF McpInv
    <3> QED BY <3>1 DEF McpInv, ProgressInv, TokenInv
  <2> HIDE DEF d
  <2>3. TypeOK'
    BY <2>1, <2>2, TypeMeans DEF McpInv, TypeOK, CallerStates, Places
  <2>4. ProgressReachesOwnCall'
    BY <2>1, <2>2 DEF McpInv, ProgressInv, ProgressReachesOwnCall
  <2>5. TokenInv' /\ RegistryHoldsLiveCalls'
    BY <2>1 DEF McpInv, ProgressInv, TokenInv, RegistryHoldsLiveCalls, At
  <2>6. conn' \in Seq({"open", "dropped", "closed"})
    BY <2>1, TypeMeans DEF McpInv
  <2> QED BY <1>1, <2>1, <2>3, <2>4, <2>5, <2>6 DEF ProgressInv
<1>4. ASSUME NEW d \in delivering, RunCallback(d) PROVE McpInv'
  <2>1. /\ delivering' \subseteq delivering
        /\ UNCHANGED <<conn, session, catalog, holder, registry, seq, working, caller, ops, failures,
                       hostClosed>>
    BY <1>4 DEF RunCallback, shared, bounds
  <2>2. TypeOK'
    BY <2>1, TypeMeans DEF McpInv, TypeOK, CallerStates, Places
  <2>3. ProgressInv'
    BY <2>1 DEF McpInv, ProgressInv, TokenInv, RegistryHoldsLiveCalls, ProgressReachesOwnCall, At
  <2>4. conn' \in Seq({"open", "dropped", "closed"})
    BY <2>1, TypeMeans DEF McpInv
  <2> QED BY <1>1, <2>1, <2>2, <2>3, <2>4
<1> QED BY <1>2, <1>3, <1>4 DEF Environment

----------------------------------------------------------------------------
(* The invariant, and what it shows.                                       *)

LEMMA InitMcp ==
  ASSUME Assumptions, Init
  PROVE  McpInv
<1>1. /\ conn = <<>> /\ Len(conn) = 0 /\ DOMAIN conn = {} /\ session = 0 /\ catalog = 0
      /\ holder = NoCaller /\ registry = <<>> /\ DOMAIN registry = {} /\ seq = 0
      /\ working = {} /\ delivering = {} /\ ops = 0 /\ failures = 0 /\ hostClosed = FALSE
      /\ caller = [p \in Callers |-> Idle("none")]
  BY DEF Init
<1>2. Idle("none") \in CallerStates /\ CallerInv(Idle("none"))
  BY <1>1, IdleState DEF Causes
<1>3. Idle("none").pc = "idle" /\ Idle("none").token = 0
  BY DEF Idle
<1>4. TypeOK
  <2>1. caller \in [Callers -> CallerStates]
    BY <1>1, <1>2
  <2>2. conn \in Seq({"open", "dropped", "closed"})
    BY <1>1
  <2>3. /\ session \in 0 .. Len(conn) /\ catalog \in 0 .. Len(conn)
        /\ holder \in Callers \cup {NoCaller} /\ seq \in Nat
        /\ ops \in 0 .. MaxOps /\ failures \in 0 .. MaxFailures /\ hostClosed \in BOOLEAN
    <3>1. MaxOps \in Nat /\ MaxFailures \in Nat
      BY DEF Assumptions, BoundAssumption
    <3>2. session \in 0 .. Len(conn) /\ catalog \in 0 .. Len(conn)
      BY <1>1
    <3>3. ops \in 0 .. MaxOps /\ failures \in 0 .. MaxFailures
      BY <1>1, <3>1
    <3> QED BY <1>1, <3>2, <3>3
  <2>4. /\ DOMAIN registry \subseteq 1 .. seq
        /\ \A t \in DOMAIN registry : registry[t] \in 1 .. ops
        /\ working \subseteq [token : 1 .. seq, op : 1 .. ops]
        /\ delivering \subseteq [from : 1 .. ops, to : 1 .. ops]
    BY <1>1
  <2> QED BY <2>1, <2>2, <2>3, <2>4, TypeMeans
<1>5. \A p \in Callers : CallerInv(caller[p])
  BY <1>1, <1>2
<1>6. MutexInv
  BY <1>1, <1>3 DEF MutexInv, At, Assumptions, CallerAssumption
<1>7. NoSessionLeaked
  BY <1>1 DEF NoSessionLeaked
<1>8. ProgressInv
  BY <1>1, <1>3 DEF ProgressInv, TokenInv, RegistryHoldsLiveCalls, ProgressReachesOwnCall
<1> QED BY <1>4, <1>5, <1>6, <1>7, <1>8 DEF McpInv

(* An attempt that fails on the session it used.                           *)
LEMMA LostMcp ==
  ASSUME McpInv, BoundAssumption, NEW p \in Callers,
         \/ LoseConnection(p) \/ RequestRefused(p)
         \/ \E why \in {"rpc", "cancelled"} : FinalError(p, why)
  PROVE  McpInv'
<1>1. failures \in 0 .. MaxFailures
  BY TypeMeans DEF McpInv
<1>2. CASE LoseConnection(p)
  BY <1>1, <1>2, FailMcp DEF LoseConnection, At, Live
<1>3. CASE RequestRefused(p)
  <2>1. failures' \in 0 .. MaxFailures
    BY <1>1, <1>3 DEF RequestRefused, EnvironmentFails, BoundAssumption
  <2> QED BY <1>3, <2>1, FailMcp DEF RequestRefused, At, Live
<1>4. ASSUME NEW why \in {"rpc", "cancelled"}, FinalError(p, why) PROVE McpInv'
  <2>1. failures' \in 0 .. MaxFailures
    BY <1>1, <1>4 DEF FinalError, EnvironmentFails, BoundAssumption
  <2> QED BY <1>4, <2>1, FailMcp DEF FinalError, At, Live
<1> QED BY <1>2, <1>3, <1>4

LEMMA CallerMcp ==
  ASSUME Assumptions, McpInv, NEW p \in Callers, CallerStep(p)
  PROVE  McpInv'
<1>1. BoundAssumption /\ CallerAssumption /\ CauseAssumption
  BY DEF Assumptions
<1>2. CASE CachedCatalog(p) \/ Publish(p) \/ Retry(p) \/ GiveUp(p) \/ CancelledWait(p)
  BY <1>1, <1>2, QuietMcp
<1>3. CASE EnsureSession(p)
  BY <1>1, <1>3, QuietMcp, LockMcp
<1>4. CASE Connect(p)
  BY <1>1, <1>4, ConnectMcp
<1>5. CASE \E why \in StartCauses : ConnectFails(p, why)
  BY <1>1, <1>5, ConnectFailsMcp
<1>6. CASE Detach(p)
  BY <1>1, <1>6, DetachMcp
<1>7. CASE Shut(p)
  BY <1>1, <1>7, ShutMcp
<1>8. CASE Request(p)
  BY <1>1, <1>8, QuietMcp, RequestMcp
<1>9. CASE Execute(p)
  BY <1>1, <1>9, ExecuteMcp
<1>10. CASE Reply(p)
  BY <1>1, <1>10, ReplyMcp
<1>11. CASE \/ LoseConnection(p) \/ RequestRefused(p)
            \/ \E why \in {"rpc", "cancelled"} : FinalError(p, why)
  BY <1>1, <1>11, LostMcp
<1> QED BY <1>2, <1>3, <1>4, <1>5, <1>6, <1>7, <1>8, <1>9, <1>10, <1>11 DEF CallerStep

LEMMA NextMcp ==
  ASSUME Assumptions, McpInv, [Next]_vars
  PROVE  McpInv'
<1>1. BoundAssumption
  BY DEF Assumptions
<1>2. ASSUME NEW p \in Callers, HostStep(p) PROVE McpInv'
  BY <1>1, <1>2, HostMcp
<1>3. ASSUME NEW p \in Callers, CallerStep(p) PROVE McpInv'
  BY <1>3, CallerMcp
<1>4. CASE Environment
  BY <1>1, <1>4, EnvironmentMcp
<1>5. CASE UNCHANGED vars
  <2>1. UNCHANGED <<conn, session, catalog, holder, registry, seq, working, delivering, caller,
                    ops, failures, hostClosed>>
    BY <1>5 DEF vars, shared, progress, bounds
  <2> QED BY <2>1 DEF McpInv, TypeOK, MutexInv, NoSessionLeaked, ProgressInv, TokenInv,
                      RegistryHoldsLiveCalls, ProgressReachesOwnCall, At
<1> QED BY <1>2, <1>3, <1>4, <1>5 DEF Next

LEMMA McpInvariant == Assumptions => (Spec => []McpInv)
<1> SUFFICES ASSUME Assumptions PROVE Spec => []McpInv
  OBVIOUS
<1>1. Init => McpInv
  BY InitMcp
<1>2. McpInv /\ [Next]_vars => McpInv'
  BY NextMcp
<1> QED BY <1>1, <1>2, PTL DEF Spec

(* However many goroutines share the client, connect, reconnect and close  *)
(* it, a session that is no longer the client's has been closed or is      *)
(* about to be (connectLocked, invalidateSession, Close).                  *)
THEOREM SessionsKept == Assumptions => (Spec => [](TypeOK /\ NoSessionLeaked))
<1>1. McpInv => TypeOK /\ NoSessionLeaked
  BY DEF McpInv
<1> QED BY <1>1, McpInvariant, PTL

(* The callback of a call receives the progress of that call only, and it  *)
(* is registered exactly while the call is in progress (progressRegistry,  *)
(* callTool).                                                              *)
THEOREM ProgressIsOwn ==
  Assumptions => (Spec => [](ProgressReachesOwnCall /\ RegistryHoldsLiveCalls))
<1>1. McpInv => ProgressReachesOwnCall /\ RegistryHoldsLiveCalls
  BY DEF McpInv, ProgressInv
<1> QED BY <1>1, McpInvariant, PTL

(* A step that moves p leaves the other goroutines where they are.         *)
LEMMA OthersStay ==
  ASSUME NEW p \in Callers, McpInv, BoundAssumption, HostStep(p) \/ CallerStep(p),
         NEW q \in Callers, q # p
  PROVE  caller'[q] = caller[q]
<1>1. \E r : caller' = [caller EXCEPT ![p] = r]
  BY DEF HostStep, StartList, StartCall, StartRead, StartClose, Start, CallerStep,
         CachedCatalog, EnsureSession, UseSession, Connect, ConnectFails, Detach, Shut, Request,
         Register, Execute, Reply, Publish, LoseConnection, RequestRefused, FinalError,
         FailAttempt, Retry, NextAttempt, GiveUp, CancelledWait, Finish, Goto
<1>2. caller \in [Callers -> CallerStates]
  BY CallerFacts
<1> QED BY <1>1, <1>2

(* After a final error nothing but the return of the operation is left.    *)
LEMMA FinalStep ==
  ASSUME Assumptions, McpInv, [Next]_vars
  PROVE  NotRepeatedAfterFinalError
<1> SUFFICES ASSUME NEW q \in Callers, caller[q].cause # "none",
                    ~ShouldReconnect(caller[q].cause)
             PROVE  caller'[q].executed <= caller[q].executed
  BY DEF NotRepeatedAfterFinalError
<1>1. BoundAssumption
  BY DEF Assumptions
<1>2. /\ caller \in [Callers -> CallerStates] /\ caller[q] \in CallerStates
      /\ caller[q].pc \in {"backoff", "giveup"}
      /\ caller[q].executed \in Nat
  <2>1. caller \in [Callers -> CallerStates] /\ caller[q] \in CallerStates /\ CallerInv(caller[q])
    BY <1>1, CallerFacts
  <2> QED BY <2>1 DEF CallerInv, ShouldReconnect, CallerStates, MaxAttempts
<1>3. ASSUME NEW p \in Callers, HostStep(p) \/ CallerStep(p), p # q
      PROVE  caller'[q] = caller[q]
  BY <1>1, <1>3, OthersStay
<1>4. ~HostStep(q)
  BY <1>2 DEF HostStep, StartList, StartCall, StartRead, StartClose, Start, At
<1>5. CASE CallerStep(q)
  <2>1. GiveUp(q) \/ CancelledWait(q)
    BY <1>2, <1>5 DEF CallerStep, CachedCatalog, EnsureSession, Connect, ConnectFails, Detach,
         Shut, Request, Execute, Reply, Publish, LoseConnection, RequestRefused, FinalError,
         Retry, At
  <2>2. \E how : caller' = [caller EXCEPT ![q] = Idle(how)]
    BY <2>1 DEF GiveUp, CancelledWait, Finish
  <2>3. \A how : Idle(how).executed = 0
    BY DEF Idle
  <2> QED BY <1>2, <2>2, <2>3
<1>6. CASE Environment \/ UNCHANGED vars
  <2>1. caller' = caller
    BY <1>6 DEF Environment, DropSession, Dispatch, RunCallback, vars
  <2> QED BY <1>2, <2>1
<1> QED BY <1>2, <1>3, <1>4, <1>5, <1>6 DEF Next

(* The server never sees an operation again whose error was classified as  *)
(* final, though the loop that retries it knows nothing of the class       *)
(* (withReconnect, FR-011).                                                *)
THEOREM FinalErrorsFinal == Assumptions => (Spec => FinalErrorIsFinal)
<1> SUFFICES ASSUME Assumptions PROVE Spec => FinalErrorIsFinal
  OBVIOUS
<1>1. Spec => []McpInv
  BY McpInvariant
<1>2. McpInv /\ [Next]_vars => [NotRepeatedAfterFinalError]_vars
  BY FinalStep
<1> QED BY <1>1, <1>2, PTL DEF Spec, FinalErrorIsFinal

----------------------------------------------------------------------------
(* A goroutine alone, and one failure.                                     *)

Recovery == {"detach", "shut", "backoff", "giveup"}
Sound == session # 0 => conn[session] = "open"

(* Nobody else replaces the session: the one in use is the current one,    *)
(* what is wrong with it, or with the attempt, cost a failure, and the     *)
(* second attempt finds no session or one it opened itself, so that it     *)
(* takes a second failure to end it.                                       *)
SoloInv(p) ==
  /\ At(p, "shut") => session = 0
  /\ At(p, "backoff") /\ caller[p].cause = "network" => session = 0
  /\ caller[p].pc \in OnSession => caller[p].using = session
  /\ caller[p].kind = "close" => caller[p].pc \in {"detach", "shut"} /\ caller[p].attempt = 1
  /\ caller[p].pc \in Recovery /\ caller[p].kind # "close" => failures >= 1
  /\ caller[p].attempt = 2 => failures >= 1
  /\ ~Sound => failures >= 1
  /\ failures <= 1 /\ caller[p].attempt = 2 => caller[p].pc \notin Recovery /\ Sound
  /\ failures <= 1 => caller[p].outcome # "network"

(* The fields of p after a step, and the session.                          *)
LEMMA SoloFields ==
  ASSUME Assumptions, McpInv, NEW p \in Callers
  PROVE  LET c == caller[p] d == caller'[p] IN
         /\ \A how : Finish(p, how) =>
              /\ d.pc = "idle" /\ d.kind = "none" /\ d.attempt = 0 /\ d.cause = "none"
              /\ d.outcome = how
         /\ \A place : Goto(p, place) =>
              /\ d.pc = place /\ d.kind = c.kind /\ d.attempt = c.attempt
              /\ d.cause = c.cause /\ d.using = c.using /\ d.outcome = c.outcome
         /\ \A s : UseSession(p, s) =>
              /\ d.pc = "request" /\ d.kind = c.kind /\ d.attempt = c.attempt
              /\ d.cause = c.cause /\ d.using = s /\ d.outcome = c.outcome
         /\ NextAttempt(p) =>
              /\ d.pc = "ensure" /\ d.kind = c.kind /\ d.attempt = c.attempt + 1
              /\ d.cause = c.cause /\ d.using = 0 /\ d.outcome = c.outcome
         /\ \A t : Register(p, t) =>
              /\ d.pc = "wait" /\ d.kind = c.kind /\ d.attempt = c.attempt
              /\ d.cause = c.cause /\ d.using = c.using /\ d.outcome = c.outcome
<1>1. caller \in [Callers -> CallerStates] /\ caller[p] \in CallerStates
  BY CallerFacts DEF Assumptions
<1> DEFINE c == caller[p]
<1>7. c \in CallerStates
  BY <1>1
<1> HIDE DEF c
<1>8. \A place : LET d == [c EXCEPT !.pc = place] IN
        /\ d.pc = place /\ d.kind = c.kind /\ d.attempt = c.attempt
        /\ d.cause = c.cause /\ d.using = c.using /\ d.outcome = c.outcome
  BY <1>7 DEF CallerStates
<1>9. \A s : LET d == [c EXCEPT !.using = s, !.pc = "request"] IN
        /\ d.pc = "request" /\ d.kind = c.kind /\ d.attempt = c.attempt
        /\ d.cause = c.cause /\ d.using = s /\ d.outcome = c.outcome
  BY <1>7 DEF CallerStates
<1>10. LET d == [c EXCEPT !.attempt = @ + 1, !.using = 0, !.pc = "ensure"] IN
        /\ d.pc = "ensure" /\ d.kind = c.kind /\ d.attempt = c.attempt + 1
        /\ d.cause = c.cause /\ d.using = 0 /\ d.outcome = c.outcome
  BY <1>7 DEF CallerStates
<1>11. \A t : LET d == [c EXCEPT !.token = t, !.pc = "wait"] IN
        /\ d.pc = "wait" /\ d.kind = c.kind /\ d.attempt = c.attempt
        /\ d.cause = c.cause /\ d.using = c.using /\ d.outcome = c.outcome
  BY <1>7 DEF CallerStates
<1> DEFINE d == caller'[p]
<1>12. ASSUME NEW how, Finish(p, how)
       PROVE  /\ d.pc = "idle" /\ d.kind = "none" /\ d.attempt = 0 /\ d.cause = "none"
              /\ d.outcome = how
  BY <1>1, <1>12 DEF Finish, Idle
<1>13. ASSUME NEW place, Goto(p, place)
       PROVE  /\ d.pc = place /\ d.kind = c.kind /\ d.attempt = c.attempt
              /\ d.cause = c.cause /\ d.using = c.using /\ d.outcome = c.outcome
  BY <1>1, <1>8, <1>13 DEF Goto, c
<1>14. ASSUME NEW s, UseSession(p, s)
       PROVE  /\ d.pc = "request" /\ d.kind = c.kind /\ d.attempt = c.attempt
              /\ d.cause = c.cause /\ d.using = s /\ d.outcome = c.outcome
  BY <1>1, <1>9, <1>14 DEF UseSession, c
<1>15. ASSUME NextAttempt(p)
       PROVE  /\ d.pc = "ensure" /\ d.kind = c.kind /\ d.attempt = c.attempt + 1
              /\ d.cause = c.cause /\ d.using = 0 /\ d.outcome = c.outcome
  BY <1>1, <1>10, <1>15 DEF NextAttempt, c
<1>16. ASSUME NEW t, Register(p, t)
       PROVE  /\ d.pc = "wait" /\ d.kind = c.kind /\ d.attempt = c.attempt
              /\ d.cause = c.cause /\ d.using = c.using /\ d.outcome = c.outcome
  BY <1>1, <1>11, <1>16 DEF Register, c
<1> QED BY <1>12, <1>13, <1>14, <1>15, <1>16 DEF c

(* A step of p that leaves the session as it is.                           *)
LEMMA SoloCaller ==
  ASSUME Assumptions, McpInv, NEW p \in Callers, SoloInv(p), UNCHANGED <<conn, session>>,
         \/ HostStep(p) \/ CachedCatalog(p) \/ EnsureSession(p)
         \/ Request(p) \/ Execute(p) \/ Reply(p) \/ Publish(p)
         \/ Retry(p) \/ GiveUp(p) \/ CancelledWait(p)
  PROVE  SoloInv(p)'
<1> DEFINE c == caller[p]
           d == caller'[p]
<1>1. /\ caller \in [Callers -> CallerStates] /\ c \in CallerStates /\ CallerInv(c)
      /\ failures \in Nat /\ c.attempt \in 0 .. 2
  BY CallerFacts DEF Assumptions, CallerStates, MaxAttempts
<1>2. Sound' = Sound
  BY DEF Sound
<1>3. CASE HostStep(p)
  <2>1. PICK k \in Kinds, place \in {"cached", "ensure", "detach"} :
          /\ Start(p, k, place)
          /\ k = "close" => place = "detach"
          /\ k # "close" => place # "detach"
    BY <1>3 DEF HostStep, StartList, StartCall, StartRead, StartClose, Start
  <2> DEFINE s == Idle("none")
  <2>2. /\ failures' = failures
        /\ d = [s EXCEPT !.pc = place, !.kind = k, !.op = ops + 1, !.attempt = 1]
    <3>1. caller' = [caller EXCEPT ![p] = [s EXCEPT !.pc = place, !.kind = k, !.op = ops + 1,
                                                    !.attempt = 1]]
      BY <2>1 DEF Start
    <3> HIDE DEF s
    <3>2. failures' = failures
      BY <2>1 DEF Start
    <3> QED BY <1>1, <3>1, <3>2
  <2>3. s \in CallerStates /\ s.cause = "none" /\ s.outcome = "none"
    BY IdleState, CallerFacts DEF Idle, Causes, Assumptions
  <2> HIDE DEF s
  <2>4. d.pc = place /\ d.kind = k /\ d.attempt = 1 /\ d.cause = "none" /\ d.outcome = "none"
    BY <2>2, <2>3 DEF CallerStates
  <2>5. d.pc \in Recovery => d.kind = "close"
    BY <2>1, <2>4 DEF Recovery
  <2>6. d.pc \in {"cached", "ensure", "detach"} /\ (d.kind = "close" => d.pc = "detach")
    BY <2>1, <2>4
  <2> HIDE DEF d
  <2>7. /\ d.pc \notin OnSession \cup {"shut", "backoff"}
        /\ failures' <= 1 => failures <= 1
        /\ ~Sound => failures >= 1
    BY <2>2, <2>6 DEF OnSession, SoloInv
  <2> QED BY <1>1, <1>2, <2>2, <2>4, <2>5, <2>6, <2>7 DEF SoloInv, At, d
<1>4. CASE CachedCatalog(p)
  <2>1. /\ c.pc = "cached" /\ failures' = failures
        /\ \/ d.pc = "idle" /\ d.kind = "none" /\ d.attempt = 0 /\ d.outcome = "ok"
           \/ /\ d.pc = "ensure" /\ d.kind = c.kind /\ d.attempt = c.attempt
              /\ d.outcome = c.outcome
    BY <1>4, SoloFields DEF CachedCatalog, At, bounds
  <2> QED BY <1>1, <1>2, <2>1 DEF SoloInv, At, OnSession, Recovery
<1>5. CASE EnsureSession(p)
  <2>1. /\ c.pc = "ensure" /\ failures' = failures
        /\ d.pc \in {"request", "connect"} /\ d.kind = c.kind /\ d.attempt = c.attempt
        /\ d.outcome = c.outcome /\ (d.pc = "request" => d.using = session)
    BY <1>5, SoloFields DEF EnsureSession, At, bounds
  <2> QED BY <1>1, <1>2, <2>1 DEF SoloInv, At, OnSession, Recovery
<1>6. CASE Request(p)
  <2>1. /\ c.pc = "request" /\ failures' = failures
        /\ d.pc = "wait" /\ d.kind = c.kind /\ d.attempt = c.attempt
        /\ d.outcome = c.outcome /\ d.using = c.using
    BY <1>6, SoloFields DEF Request, At, bounds
  <2> QED BY <1>1, <1>2, <2>1 DEF SoloInv, At, OnSession, Recovery
<1>7. CASE Execute(p)
  <2>1. /\ c.pc = "wait" /\ failures' = failures
        /\ d = [c EXCEPT !.executed = @ + 1, !.pc = "executed"]
    BY <1>1, <1>7 DEF Execute, At, bounds
  <2> HIDE DEF c
  <2>2. /\ d.pc = "executed" /\ d.kind = c.kind /\ d.attempt = c.attempt
        /\ d.outcome = c.outcome /\ d.using = c.using
    BY <1>1, <2>1 DEF CallerStates
  <2> QED BY <1>1, <1>2, <2>1, <2>2 DEF SoloInv, At, OnSession, Recovery, c
<1>8. CASE Reply(p)
  <2>1. /\ c.pc = "executed" /\ failures' = failures
        /\ \/ d.pc = "idle" /\ d.kind = "none" /\ d.attempt = 0 /\ d.outcome = "ok"
           \/ /\ d.pc = "publish" /\ d.kind = c.kind /\ d.attempt = c.attempt
              /\ d.outcome = c.outcome /\ d.using = c.using
    BY <1>8, SoloFields DEF Reply, At, bounds
  <2> QED BY <1>1, <1>2, <2>1 DEF SoloInv, At, OnSession, Recovery
<1>9. CASE Publish(p)
  <2>1. /\ failures' = failures
        /\ d.pc = "idle" /\ d.kind = "none" /\ d.attempt = 0 /\ d.outcome = "ok"
    BY <1>9, SoloFields DEF Publish, At, bounds
  <2> QED BY <1>1, <1>2, <2>1 DEF SoloInv, At, OnSession, Recovery
<1>10. CASE Retry(p)
  <2>1. /\ c.pc = "backoff" /\ c.cause = "network" /\ failures' = failures
        /\ d.pc = "ensure" /\ d.kind = c.kind /\ d.attempt = c.attempt + 1
        /\ d.outcome = c.outcome
    BY <1>10, SoloFields DEF Retry, At, bounds, ShouldReconnect
  <2> QED BY <1>1, <1>2, <2>1 DEF SoloInv, At, OnSession, Recovery, Sound
<1>11. CASE GiveUp(p)
  <2>1. /\ failures' = failures /\ d.pc = "idle" /\ d.kind = "none" /\ d.attempt = 0
        /\ d.outcome = c.cause
        /\ c.pc = "giveup" \/ c.cause # "network"
    BY <1>11, SoloFields DEF GiveUp, At, bounds, ShouldReconnect
  <2>2. c.pc = "giveup" => c.attempt = 2
    BY <1>1 DEF CallerInv, MaxAttempts
  <2> QED BY <1>1, <1>2, <2>1, <2>2 DEF SoloInv, At, OnSession, Recovery
<1>12. CASE CancelledWait(p)
  <2>1. /\ failures' = failures + 1 /\ d.pc = "idle" /\ d.kind = "none" /\ d.attempt = 0
        /\ d.outcome # "network"
    BY <1>12, SoloFields DEF CancelledWait, EnvironmentFails, At, ShouldReconnect
  <2> QED BY <1>1, <1>2, <2>1 DEF SoloInv, At, OnSession, Recovery
<1> QED BY <1>3, <1>4, <1>5, <1>6, <1>7, <1>8, <1>9, <1>10, <1>11, <1>12

(* The steps that fail, and those that replace the session.                *)
LEMMA SoloFails ==
  ASSUME Assumptions, McpInv, NEW p \in Callers, SoloInv(p),
         \/ \E why \in StartCauses : ConnectFails(p, why)
         \/ LoseConnection(p) \/ RequestRefused(p)
         \/ \E why \in {"rpc", "cancelled"} : FinalError(p, why)
  PROVE  SoloInv(p)'
<1> DEFINE c == caller[p]
           d == caller'[p]
<1>1. /\ caller \in [Callers -> CallerStates] /\ c \in CallerStates /\ CallerInv(c)
      /\ failures \in Nat /\ c.attempt \in 0 .. 2
  BY CallerFacts DEF Assumptions, CallerStates, MaxAttempts
<1>2. CASE \E why \in StartCauses : ConnectFails(p, why)
  <2>1. PICK why \in StartCauses : ConnectFails(p, why)
    BY <1>2
  <2>2. /\ c.pc = "connect" /\ failures' = failures + 1 /\ UNCHANGED <<conn, session>>
        /\ d = [c EXCEPT !.cause = why, !.pc = AfterFailure(p)]
    BY <1>1, <2>1 DEF ConnectFails, EnvironmentFails, At
  <2>3. AfterFailure(p) \in {"backoff", "giveup"}
    BY DEF AfterFailure
  <2>4. session = 0
    BY <2>2 DEF McpInv, MutexInv, At
  <2> HIDE DEF c
  <2>5. /\ d.pc \in {"backoff", "giveup"} /\ d.kind = c.kind /\ d.attempt = c.attempt
        /\ d.outcome = c.outcome
    BY <1>1, <2>2, <2>3 DEF CallerStates
  <2> QED BY <1>1, <2>2, <2>4, <2>5 DEF SoloInv, At, OnSession, Recovery, Sound, c
<1>3. ASSUME NEW why \in {"network", "rpc", "cancelled"}, FailAttempt(p, why),
             c.pc \in Live,
             \/ failures' = failures + 1
             \/ failures' = failures /\ ~Alive(p)
      PROVE  SoloInv(p)'
  <2> DEFINE next == IF ShouldReconnect(why) THEN "detach" ELSE AfterFailure(p)
  <2>1. /\ UNCHANGED <<conn, session>>
        /\ d = [c EXCEPT !.token = 0, !.cause = why, !.pc = next]
    BY <1>1, <1>3 DEF FailAttempt, shared
  <2>2. next \in {"detach", "backoff", "giveup"} /\ (why = "network" => next = "detach")
    BY DEF AfterFailure, ShouldReconnect
  <2>3. ~Alive(p) => ~Sound
    <3>1. c.using = session /\ c.using # 0
      BY <1>1, <1>3 DEF SoloInv, Live, OnSession, CallerInv
    <3> QED BY <3>1 DEF Alive, Sound
  <2> HIDE DEF c, next
  <2>4. /\ d.pc = next /\ d.kind = c.kind /\ d.attempt = c.attempt /\ d.cause = why
        /\ d.outcome = c.outcome
    BY <1>1, <2>1 DEF CallerStates
  <2>5. failures' \in Nat /\ failures' >= 1 /\ failures' >= failures
    BY <1>1, <1>3, <2>3 DEF SoloInv
  <2>6. failures' <= 1 => c.attempt # 2
    BY <1>1, <1>3, <2>3 DEF SoloInv, c
  <2>7. c.kind # "close"
    BY <1>3 DEF SoloInv, Live, c
  <2>8. Sound' = Sound
    BY <2>1 DEF Sound
  <2>9. failures' <= 1 => c.outcome # "network"
    BY <1>1, <1>3 DEF SoloInv, c
  <2> QED BY <1>1, <2>2, <2>4, <2>5, <2>6, <2>7, <2>9 DEF SoloInv, At, OnSession, Recovery
<1>4. CASE LoseConnection(p)
  BY <1>3, <1>4 DEF LoseConnection, At, Live
<1>5. CASE RequestRefused(p)
  BY <1>3, <1>5 DEF RequestRefused, EnvironmentFails, At, Live
<1>6. CASE \E why \in {"rpc", "cancelled"} : FinalError(p, why)
  BY <1>3, <1>6 DEF FinalError, EnvironmentFails, At, Live
<1> QED BY <1>2, <1>4, <1>5, <1>6

LEMMA SoloSession ==
  ASSUME Assumptions, McpInv, NEW p \in Callers, SoloInv(p), Connect(p) \/ Detach(p) \/ Shut(p)
  PROVE  SoloInv(p)'
<1> DEFINE c == caller[p]
           d == caller'[p]
<1>1. /\ caller \in [Callers -> CallerStates] /\ c \in CallerStates /\ CallerInv(c)
      /\ failures \in Nat /\ c.attempt \in 0 .. 2 /\ Len(conn) \in Nat
  BY CallerFacts DEF Assumptions, CallerStates, MaxAttempts
<1>2. CASE Connect(p)
  <2>1. /\ c.pc = "connect" /\ failures' = failures /\ session' = Len(conn) + 1
        /\ conn' = Append(conn, "open") /\ UseSession(p, Len(conn) + 1)
    BY <1>2 DEF Connect, At, bounds
  <2>2. /\ d.pc = "request" /\ d.kind = c.kind /\ d.attempt = c.attempt
        /\ d.outcome = c.outcome /\ d.using = session'
    BY <2>1, SoloFields
  <2>3. Sound'
    <3>1. conn \in Seq({"open", "dropped", "closed"})
      BY TypeMeans DEF McpInv
    <3> QED BY <1>1, <2>1, <3>1 DEF Sound
  <2> QED BY <1>1, <2>1, <2>2, <2>3 DEF SoloInv, At, OnSession, Recovery
<1>3. CASE Detach(p)
  <2>1. /\ c.pc = "detach" /\ failures' = failures /\ session' = 0
        /\ d = [c EXCEPT !.closing = session, !.pc = "shut"]
    BY <1>1, <1>3 DEF Detach, At, bounds
  <2> HIDE DEF c
  <2>2. /\ d.pc = "shut" /\ d.kind = c.kind /\ d.attempt = c.attempt
        /\ d.outcome = c.outcome
    BY <1>1, <2>1 DEF CallerStates
  <2> QED BY <1>1, <2>1, <2>2 DEF SoloInv, At, OnSession, Recovery, Sound, c
<1>4. CASE Shut(p)
  <2>1. /\ c.pc = "shut" /\ failures' = failures /\ session' = session /\ session = 0
        /\ IF c.kind = "close" THEN Finish(p, "ok")
           ELSE d = [c EXCEPT !.closing = 0, !.pc = AfterFailure(p)]
    BY <1>1, <1>4 DEF Shut, At, bounds, SoloInv
  <2>2. CASE c.kind = "close"
    <3>1. d.pc = "idle" /\ d.kind = "none" /\ d.attempt = 0 /\ d.outcome = "ok"
      BY <2>1, <2>2, SoloFields
    <3> QED BY <1>1, <2>1, <3>1 DEF SoloInv, At, OnSession, Recovery, Sound
  <2>3. CASE c.kind # "close"
    <3>1. AfterFailure(p) \in {"backoff", "giveup"}
      BY DEF AfterFailure
    <3> HIDE DEF c
    <3>2. /\ d.pc \in {"backoff", "giveup"} /\ d.kind = c.kind /\ d.attempt = c.attempt
          /\ d.outcome = c.outcome
      BY <1>1, <2>1, <2>3, <3>1 DEF CallerStates
    <3> QED BY <1>1, <2>1, <2>3, <3>2 DEF SoloInv, At, OnSession, Recovery, Sound, c
  <2> QED BY <2>2, <2>3
<1> QED BY <1>2, <1>3, <1>4

LEMMA SoloNext ==
  ASSUME Assumptions, McpInv, NEW p \in Callers, Callers = {p}, SoloInv(p), [Next]_vars
  PROVE  SoloInv(p)'
<1>1. ASSUME UNCHANGED <<conn, session, caller, failures>> PROVE SoloInv(p)'
  BY <1>1 DEF SoloInv, At, Sound
<1>2. CASE HostStep(p)
  <2>1. UNCHANGED <<conn, session>>
    BY <1>2 DEF HostStep, StartList, StartCall, StartRead, StartClose, Start, shared
  <2> QED BY <1>2, <2>1, SoloCaller
<1>3. CASE CallerStep(p)
  <2>1. CASE \/ CachedCatalog(p) \/ EnsureSession(p)
             \/ Request(p) \/ Execute(p) \/ Reply(p) \/ Publish(p)
             \/ Retry(p) \/ GiveUp(p) \/ CancelledWait(p)
    <3>1. UNCHANGED <<conn, session>>
      BY <2>1 DEF CachedCatalog, EnsureSession, Request, Execute, Reply, Publish, Retry, GiveUp,
                  CancelledWait, shared
    <3> QED BY <2>1, <3>1, SoloCaller
  <2>2. CASE \/ \E why \in StartCauses : ConnectFails(p, why)
             \/ LoseConnection(p) \/ RequestRefused(p)
             \/ \E why \in {"rpc", "cancelled"} : FinalError(p, why)
    BY <2>2, SoloFails
  <2>3. CASE Connect(p) \/ Detach(p) \/ Shut(p)
    BY <2>3, SoloSession
  <2> QED BY <1>3, <2>1, <2>2, <2>3 DEF CallerStep
<1>4. ASSUME NEW s \in DOMAIN conn, DropSession(s) PROVE SoloInv(p)'
  <2>1. caller' = caller /\ session' = session /\ failures' = failures + 1 /\ failures \in Nat
    BY <1>4, CallerFacts DEF DropSession, EnvironmentFails, Assumptions
  <2>2. failures' >= 1 /\ (failures' <= 1 => failures < 1 /\ failures <= 1)
    BY <2>1
  <2>3. ~(failures' <= 1 /\ caller[p].attempt = 2)
    BY <2>1, <2>2 DEF SoloInv
  <2> QED BY <2>1, <2>2, <2>3 DEF SoloInv, At
<1>5. CASE \/ \E w \in working : Dispatch(w)
           \/ \E d \in delivering : RunCallback(d)
           \/ UNCHANGED vars
  BY <1>1, <1>5 DEF Dispatch, RunCallback, vars, shared, bounds
<1> QED BY <1>2, <1>3, <1>4, <1>5 DEF Next, Environment

(* For a goroutine alone one failure of the environment, whatever it is    *)
(* and whenever it comes, ends no operation with an error of the network:  *)
(* it reconnects, and what it finds then is its own (withReconnect,        *)
(* FR-011).  Not so for two: of those that lost one session the second     *)
(* closes the one that the first has reopened.                             *)
THEOREM OneFailureTransparent ==
  ASSUME NEW p, Callers = {p}, Assumptions
  PROVE  Spec => []SingleFailureIsTransparent
<1>1. Init => SoloInv(p)
  <2> SUFFICES ASSUME Init PROVE SoloInv(p)
    OBVIOUS
  <2>1. session = 0 /\ failures = 0 /\ caller[p] = Idle("none")
    BY DEF Init
  <2> QED BY <2>1 DEF SoloInv, At, Idle, OnSession, Recovery, Sound
<1>2. McpInv /\ SoloInv(p) /\ [Next]_vars => SoloInv(p)'
  BY SoloNext
<1>3. SoloInv(p) => SingleFailureIsTransparent
  BY DEF SoloInv, SingleFailureIsTransparent
<1>4. Spec => []McpInv
  BY McpInvariant
<1> QED BY <1>1, <1>2, <1>3, <1>4, PTL DEF Spec
=============================================================================
