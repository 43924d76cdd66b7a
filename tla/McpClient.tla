------------------------------ MODULE McpClient ------------------------------
(***************************************************************************)
(* The MCP client of ia-harness (adapters/mcpclient): one protocol session *)
(* that every turn and every goroutine of a parallel batch shares.  It is  *)
(* opened lazily under a mutex, replaced after a transport failure, which  *)
(* each operation survives once, and carries a catalog of tools cached for *)
(* its lifetime.  Progress notifications find the callback of their call   *)
(* through a token.                                                        *)
(*                                                                         *)
(* The server, its transport and the SDK are external: a session may be    *)
(* dropped, a request may be refused, a reply may be lost after its        *)
(* effect, and notifications are handled by a goroutine of the SDK.        *)
(***************************************************************************)
EXTENDS Naturals, Sequences, FiniteSets, Functions

CONSTANTS
  Callers,       \* goroutines that use the client
  NoCaller,      \* the mutex is free
  Kinds,         \* operations callers start: subset of {"list", "call", "read", "close"}
  StartCauses,   \* why a connection may fail to start, for this transport
  MaxOps,        \* bound: operations started
  MaxFailures    \* bound: failures of the environment

KindAssumption == Kinds \subseteq {"list", "call", "read", "close"}
CauseAssumption ==
  StartCauses \subseteq {"network", "rpc", "cancelled", "executable", "credential"}
CallerAssumption == NoCaller \notin Callers
BoundAssumption == MaxOps \in Nat /\ MaxFailures \in Nat

VARIABLES
  conn,      \* the sessions opened so far: "open", "dropped" by the server, "closed"
  session,   \* Client.session: index in conn, 0 for nil
  catalog,   \* Client.catalog: the session it was listed on, 0 for nil
  holder,    \* who holds Client.mu across a connection attempt
  registry,  \* progressRegistry.calls: token to callback, here the operation
  seq,       \* progressRegistry.seq
  caller,    \* what each goroutine is doing, and how its last operation ended
  ops, failures, hostClosed,
  working,   \* history: tokens of calls the server works on, with their operation
  delivering \* callbacks fetched by dispatch and not yet run

shared == <<conn, session, catalog, holder>>
progress == <<registry, seq, working, delivering>>
bounds == <<ops, failures, hostClosed>>
vars == <<shared, progress, caller, bounds>>

Causes == {"none", "network", "rpc", "cancelled", "executable", "credential"}

(* shouldReconnect: protocol errors, cancellation and a child process that *)
(* cannot be started are final, anything else blames the session.          *)
ShouldReconnect(why) == why = "network"

MaxAttempts == 2

(* A goroutine between operations; executed is history, how often the      *)
(* server has executed its current operation.                              *)
Idle(outcome) ==
  [pc |-> "idle", kind |-> "none", op |-> 0, attempt |-> 0, using |-> 0, closing |-> 0,
   cause |-> "none", token |-> 0, executed |-> 0, outcome |-> outcome]

Init ==
  /\ conn = <<>> /\ session = 0 /\ catalog = 0 /\ holder = NoCaller
  /\ registry = <<>> /\ seq = 0 /\ working = {} /\ delivering = {}
  /\ caller = [p \in Callers |-> Idle("none")]
  /\ ops = 0 /\ failures = 0 /\ hostClosed = FALSE

At(p, place) == caller[p].pc = place
Goto(p, place) == caller' = [caller EXCEPT ![p].pc = place]
Finish(p, how) == caller' = [caller EXCEPT ![p] = Idle(how)]
LockFree == holder = NoCaller

----------------------------------------------------------------------------
(* Starting an operation; List looks at the cache first, Close takes the   *)
(* session away.                                                           *)

Start(p, k, place) ==
  /\ At(p, "idle") /\ k \in Kinds /\ ops < MaxOps /\ ~hostClosed
  /\ ops' = ops + 1
  /\ caller' = [caller EXCEPT ![p] = [Idle("none") EXCEPT !.pc = place, !.kind = k,
                                                          !.op = ops + 1, !.attempt = 1]]
  /\ hostClosed' = (k = "close")
  /\ UNCHANGED <<shared, progress, failures>>

StartList(p) == Start(p, "list", "cached")
StartCall(p) == Start(p, "call", "ensure")

(* Resources and prompts go through the same session and reconnection, and *)
(* cache nothing.                                                          *)
StartRead(p) == Start(p, "read", "ensure")

StartClose(p) == Start(p, "close", "detach")

CachedCatalog(p) ==
  /\ At(p, "cached") /\ LockFree
  /\ IF session # 0 /\ catalog # 0 THEN Finish(p, "ok") ELSE Goto(p, "ensure")
  /\ UNCHANGED <<shared, progress, bounds>>

----------------------------------------------------------------------------
(* The session.                                                            *)

UseSession(p, s) == caller' = [caller EXCEPT ![p].using = s, ![p].pc = "request"]

(* ensureSession: the current session, or a connection attempt that keeps  *)
(* the mutex until it is over.                                             *)
EnsureSession(p) ==
  /\ At(p, "ensure") /\ LockFree
  /\ IF session # 0
       THEN UseSession(p, session) /\ UNCHANGED holder
       ELSE Goto(p, "connect") /\ holder' = p
  /\ UNCHANGED <<conn, session, catalog, progress, bounds>>

Connect(p) ==
  /\ At(p, "connect")
  /\ conn' = Append(conn, "open")
  /\ session' = Len(conn) + 1
  /\ catalog' = 0
  /\ holder' = NoCaller
  /\ UseSession(p, Len(conn) + 1)
  /\ UNCHANGED <<progress, bounds>>

(* Slip: the attempts are not counted.                                     *)
AlwaysAgain(p) == "backoff"

(* After a failed attempt: wait, then try again, or give up.  A final      *)
(* error waits too: retry.Do knows nothing of it, the next attempt returns *)
(* it at once.                                                             *)
AfterFailure(p) == IF caller[p].attempt < MaxAttempts THEN "backoff" ELSE "giveup"

EnvironmentFails == failures < MaxFailures /\ failures' = failures + 1

(* Slip: the failing path returns without releasing the mutex.             *)
ConnectFailsLocked(p, why) ==
  /\ At(p, "connect") /\ EnvironmentFails
  /\ caller' = [caller EXCEPT ![p].cause = why, ![p].pc = AfterFailure(p)]
  /\ UNCHANGED <<shared, progress, ops, hostClosed>>

ConnectFails(p, why) ==
  /\ At(p, "connect") /\ EnvironmentFails
  /\ holder' = NoCaller
  /\ caller' = [caller EXCEPT ![p].cause = why, ![p].pc = AfterFailure(p)]
  /\ UNCHANGED <<conn, session, catalog, progress, ops, hostClosed>>

(* Slip: the session that failed is closed, the current one is dropped.    *)
DetachOwn(p) ==
  /\ At(p, "detach") /\ LockFree
  /\ session' = 0 /\ catalog' = 0
  /\ caller' = [caller EXCEPT ![p].closing = caller[p].using, ![p].pc = "shut"]
  /\ UNCHANGED <<conn, holder, progress, bounds>>

(* invalidateSession and Close: whatever session is current is taken out   *)
(* of the client under the mutex and closed outside it.                    *)
Detach(p) ==
  /\ At(p, "detach") /\ LockFree
  /\ session' = 0 /\ catalog' = 0
  /\ caller' = [caller EXCEPT ![p].closing = session, ![p].pc = "shut"]
  /\ UNCHANGED <<conn, holder, progress, bounds>>

Shut(p) ==
  /\ At(p, "shut")
  /\ conn' = [i \in DOMAIN conn |-> IF i = caller[p].closing THEN "closed" ELSE conn[i]]
  /\ IF caller[p].kind = "close"
       THEN Finish(p, "ok")
       ELSE caller' = [caller EXCEPT ![p].closing = 0, ![p].pc = AfterFailure(p)]
  /\ UNCHANGED <<session, catalog, holder, progress, bounds>>

----------------------------------------------------------------------------
(* One attempt of an operation on the session in use.                      *)

Register(p, t) ==
  /\ registry' = [u \in DOMAIN registry \cup {t} |->
                    IF u = t THEN caller[p].op ELSE registry[u]]
  /\ caller' = [caller EXCEPT ![p].token = t, ![p].pc = "wait"]

(* Slip: the token is the number of callbacks registered at the moment.    *)
RequestRecycled(p) ==
  /\ At(p, "request")
  /\ IF caller[p].kind = "call"
       THEN Register(p, Cardinality(DOMAIN registry) + 1) /\ seq' = seq + 1
       ELSE Goto(p, "wait") /\ UNCHANGED <<seq, registry>>
  /\ UNCHANGED <<shared, working, delivering, bounds>>

(* callTool registers its callback under a fresh token.                    *)
Request(p) ==
  /\ At(p, "request")
  /\ IF caller[p].kind = "call"
       THEN Register(p, seq + 1) /\ seq' = seq + 1
       ELSE Goto(p, "wait") /\ UNCHANGED <<seq, registry>>
  /\ UNCHANGED <<shared, working, delivering, bounds>>

Alive(p) == conn[caller[p].using] = "open"

(* The server executes the operation; it may report progress on it later,  *)
(* even when nobody waits for the answer any more.                         *)
Execute(p) ==
  /\ At(p, "wait") /\ Alive(p)
  /\ caller' = [caller EXCEPT ![p].executed = @ + 1, ![p].pc = "executed"]
  /\ working' = IF caller[p].kind = "call"
                  THEN working \cup {[token |-> caller[p].token, op |-> caller[p].op]}
                  ELSE working
  /\ UNCHANGED <<shared, registry, seq, delivering, bounds>>

(* Slip: only a call that failed takes its callback away.                  *)
UnregisterOnError(p) ==
  registry' = IF Alive(p) THEN registry
              ELSE Restrict(registry, DOMAIN registry \ {caller[p].token})

Unregister(p) == registry' = Restrict(registry, DOMAIN registry \ {caller[p].token})

(* A list is published as the catalog before it is returned.               *)
Reply(p) ==
  /\ At(p, "executed") /\ Alive(p)
  /\ Unregister(p)
  /\ IF caller[p].kind = "list" THEN Goto(p, "publish") ELSE Finish(p, "ok")
  /\ UNCHANGED <<shared, seq, working, delivering, bounds>>

(* fetchTools publishes without looking whether its session is current.    *)
Publish(p) ==
  /\ At(p, "publish") /\ LockFree
  /\ catalog' = caller[p].using
  /\ Finish(p, "ok")
  /\ UNCHANGED <<conn, session, holder, progress, bounds>>

FailAttempt(p, why) ==
  /\ Unregister(p)
  /\ caller' = [caller EXCEPT ![p].token = 0, ![p].cause = why,
                              ![p].pc = IF ShouldReconnect(why) THEN "detach"
                                        ELSE AfterFailure(p)]
  /\ UNCHANGED <<shared, seq, working, delivering, ops, hostClosed>>

(* The connection is gone, dropped by the server or closed by a caller.    *)
LoseConnection(p) ==
  /\ (At(p, "wait") \/ At(p, "executed")) /\ ~Alive(p)
  /\ FailAttempt(p, "network")
  /\ UNCHANGED failures

(* The request does not leave: authTransport could not resolve the         *)
(* credential, or the HTTP exchange failed.  Neither is a protocol error.  *)
RequestRefused(p) == At(p, "wait") /\ EnvironmentFails /\ FailAttempt(p, "network")

(* A protocol error of the server, or the end of the caller's context.     *)
FinalError(p, why) ==
  /\ (At(p, "wait") \/ At(p, "executed")) /\ EnvironmentFails
  /\ why = "rpc" => Alive(p)
  /\ FailAttempt(p, why)

NextAttempt(p) ==
  caller' = [caller EXCEPT ![p].attempt = @ + 1, ![p].using = 0, ![p].pc = "ensure"]

(* Slip: the memory of a final error is lost between the attempts.         *)
RetryAnything(p) ==
  /\ At(p, "backoff")
  /\ NextAttempt(p)
  /\ UNCHANGED <<shared, progress, bounds>>

(* Slip: the error of the first attempt is returned after the wait.        *)
NoRetry(p) ==
  /\ At(p, "backoff") /\ ShouldReconnect(caller[p].cause)
  /\ Finish(p, caller[p].cause)
  /\ UNCHANGED <<shared, progress, bounds>>

(* The wait between the attempts; a final error is returned after it, and  *)
(* a cancelled wait ends the operation.                                    *)
Retry(p) ==
  /\ At(p, "backoff") /\ ShouldReconnect(caller[p].cause)
  /\ NextAttempt(p)
  /\ UNCHANGED <<shared, progress, bounds>>

GiveUp(p) ==
  /\ At(p, "giveup") \/ (At(p, "backoff") /\ ~ShouldReconnect(caller[p].cause))
  /\ Finish(p, caller[p].cause)
  /\ UNCHANGED <<shared, progress, bounds>>

CancelledWait(p) ==
  /\ At(p, "backoff") /\ EnvironmentFails
  /\ Finish(p, IF ShouldReconnect(caller[p].cause) THEN "cancelled" ELSE caller[p].cause)
  /\ UNCHANGED <<shared, progress, ops, hostClosed>>

----------------------------------------------------------------------------
(* The environment: dropped sessions and progress notifications.           *)

DropSession(s) ==
  /\ conn[s] = "open" /\ EnvironmentFails
  /\ conn' = [conn EXCEPT ![s] = "dropped"]
  /\ UNCHANGED <<session, catalog, holder, progress, caller, ops, hostClosed>>

(* dispatch fetches the callback under the lock and runs it outside.       *)
Dispatch(w) ==
  /\ working' = working \ {w}
  /\ delivering' = IF w.token \in DOMAIN registry
                     THEN delivering \cup {[from |-> w.op, to |-> registry[w.token]]}
                     ELSE delivering
  /\ UNCHANGED <<shared, registry, seq, caller, bounds>>

RunCallback(d) ==
  /\ delivering' = delivering \ {d}
  /\ UNCHANGED <<shared, registry, seq, working, caller, bounds>>

----------------------------------------------------------------------------

CallerStep(p) ==
  \/ CachedCatalog(p) \/ EnsureSession(p) \/ Connect(p)
  \/ \E why \in StartCauses : ConnectFails(p, why)
  \/ Detach(p) \/ Shut(p) \/ Request(p) \/ Execute(p) \/ Reply(p) \/ Publish(p)
  \/ LoseConnection(p) \/ RequestRefused(p)
  \/ \E why \in {"rpc", "cancelled"} : FinalError(p, why)
  \/ Retry(p) \/ GiveUp(p) \/ CancelledWait(p)

HostStep(p) == StartList(p) \/ StartCall(p) \/ StartRead(p) \/ StartClose(p)

Environment ==
  \/ \E s \in DOMAIN conn : DropSession(s)
  \/ \E w \in working : Dispatch(w)
  \/ \E d \in delivering : RunCallback(d)

Next == (\E p \in Callers : HostStep(p) \/ CallerStep(p)) \/ Environment

Spec == Init /\ [][Next]_vars

(* Each goroutine is scheduled, each connection attempt and each request   *)
(* comes back, with an error at worst: they run under the turn's context.  *)
FairSpec == Spec /\ \A p \in Callers : WF_vars(CallerStep(p))
----------------------------------------------------------------------------
(* Properties.                                                             *)

(* Every variable keeps its type.                                          *)
TypeOK ==
  /\ conn \in Seq({"open", "dropped", "closed"})
  /\ session \in 0 .. Len(conn) /\ catalog \in 0 .. Len(conn)
  /\ holder \in Callers \cup {NoCaller}
  /\ seq \in Nat /\ DOMAIN registry \subseteq 1 .. seq
  /\ \A t \in DOMAIN registry : registry[t] \in 1 .. ops
  /\ working \subseteq [token : 1 .. seq, op : 1 .. ops]
  /\ delivering \subseteq [from : 1 .. ops, to : 1 .. ops]
  /\ caller \in [Callers ->
       [pc : {"idle", "cached", "ensure", "connect", "request", "wait", "executed", "publish",
              "detach", "shut", "backoff", "giveup"},
        kind : Kinds \cup {"none"}, op : 0 .. ops, attempt : 0 .. MaxAttempts,
        using : 0 .. Len(conn), closing : 0 .. Len(conn), cause : Causes, token : 0 .. seq,
        executed : 0 .. MaxAttempts, outcome : Causes \cup {"ok"}]]
  /\ ops \in 0 .. MaxOps /\ failures \in 0 .. MaxFailures /\ hostClosed \in BOOLEAN

(* A session, hence a child process, that is no longer the client's has    *)
(* been closed or is about to be, by whoever took it out, whatever races   *)
(* with it (connectLocked, invalidateSession, Close).                      *)
NoSessionLeaked ==
  \A s \in DOMAIN conn :
    s = session \/ conn[s] = "closed" \/ \E p \in Callers : caller[p].closing = s

(* An error classified as final is the last word on its operation: the     *)
(* server never sees it again, though withReconnect remembers the error    *)
(* only across a wait (FR-011).                                            *)
NotRepeatedAfterFinalError ==
  \A p \in Callers :
    caller[p].cause # "none" /\ ~ShouldReconnect(caller[p].cause)
      => caller'[p].executed <= caller[p].executed

FinalErrorIsFinal == [][NotRepeatedAfterFinalError]_vars

(* The progress a server reports on one call never reaches the callback of *)
(* another, though calls overlap, fail and are repeated (progressRegistry).*)
ProgressReachesOwnCall == \A d \in delivering : d.from = d.to

(* A callback is registered exactly while its call is in progress, so the  *)
(* registry does not grow with the calls that failed (callTool's defer).   *)
RegistryHoldsLiveCalls ==
  \A t \in DOMAIN registry :
    \E p \in Callers :
      caller[p].token = t /\ registry[t] = caller[p].op /\ (At(p, "wait") \/ At(p, "executed"))

(* Every operation returns, even when others hold the mutex, close the     *)
(* session or fail beside it.                                              *)
OperationEnds == \A p \in Callers : ~At(p, "idle") ~> At(p, "idle")

(* One failure of the environment is invisible: the operation reconnects   *)
(* and succeeds (spec 001, edge cases; FR-011).                            *)
SingleFailureIsTransparent ==
  failures <= 1 => \A p \in Callers : caller[p].outcome # "network"

(* FR-014: a tool call is not repeated in a retry.                         *)
CallSentOnce == \A p \in Callers : caller[p].kind = "call" => caller[p].executed <= 1

(* FR-005: the catalog is that of the current session.                     *)
CatalogOfCurrentSession == session # 0 /\ catalog # 0 => catalog = session

(* FR-STD-007: no process is left behind once Close has returned.          *)
NothingOpenAfterClose ==
  (hostClosed /\ \A p \in Callers : At(p, "idle"))
    => \A s \in DOMAIN conn : conn[s] = "closed"
=============================================================================
