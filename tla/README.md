# TLA+ development for ia-harness

ia-harness is a Go library that runs the turns of an LLM agent: it asks a model,
executes the tools the model calls under a policy, stops for a human where the
policy says so, and keeps the session in a store the host provides.  This directory
holds TLA+ modules of its behaviour, TLC configurations that check them on small
instances, and theorems checked by TLAPS.  Paths below are relative to `src/`.

## 1. Inventory

| Component | Source | State | Operations | Interacts through |
|---|---|---|---|---|
| Turn engine | `internal/engine/{engine,loop,checkpoint,parallel,policy_gate}.go` | the `*Session` of the running turn, the batch of calls, the turn budget | `Run`, `ResolveConfirmation`, `Session`, `Close` | every port below |
| Turn budget | `internal/engine/budget` | iterations, tokens, deadline | `CanIterate`, `StartIteration`, `AddUsage`, `Exceeded` | owned by one turn |
| Session | `internal/core/session.go` | messages, state, pending confirmation, checkpoint | data only | saved and loaded whole |
| Session store | `adapters/session/memory` (dev), or the host's | map id → session | `Load`, `Save` | shared by all turns |
| Session snapshot | `internal/engine/session` | none | marshal, unmarshal, validate | hosts that persist |
| Policy | `internal/engine/policy` | none (pure) | `Evaluate`, `Timeout` | called per tool call |
| Provider routing | `internal/engine/provider_route.go` | buckets under a mutex | `resolveModel`, `chat` with fallbacks, `acquireRateLimit` | providers, rate limiter |
| Rate limiter | `internal/engine/ratelimit` | tokens, last refill | `Reserve` | shared by all turns of a provider |
| Retry | `internal/platform/retry` | attempt counter | `Do`, `DoIf` | providers, MCP client |
| Window | `internal/engine/window.go` | none | drop or summarise old blocks | request of each model call |
| Semantic cache | `internal/engine/cache.go`, `semcache`, `adapters/cache/inmem` | entries with vector, time | `Lookup`, `Store`, `prune` | before and after each model call |
| Memory | `internal/engine/memory_context.go`, `adapters/memory/inmem` | facts per user | store, retrieve | head of the turn |
| Delegation | `internal/engine/agents` | depth in the context | `agents.delegate` | runs a sub-turn of the engine |
| MCP client | `adapters/mcpclient`, `internal/platform/proc` | session, catalog, progress callbacks | `List`, `Call`, reconnect, `Close` | shared by all turns and goroutines |
| Providers | `adapters/provider/*` | stream accumulators | `Chat`, `ChatStream` | HTTP |
| Embedder | `adapters/embed/openai` | none | `Embed` | HTTP |
| Audit, telemetry, redaction | `internal/engine/{audit_emit.go,telemetry}`, `adapters/audit` | event lists | emit | write only |
| Media, truncation | `internal/engine/media`, `tool_result.go` | none | validate, truncate | per message |
| Configuration | `internal/engine/config_validate.go`, `adapters/config` | none | load, validate | start only |
| Facade, ports, contracts, CLIs, examples, test doubles | `harness`, `internal/core`, `contracts`, `cmd`, `eval`, `examples`, `internal/testutil` | none | – | – |

What makes each correct, and what is hard about it:

- **Turn engine.** What a turn did lives in memory until a `Save`; an error return or
  a crash loses it, the effects of its tools stay.  So: no effect twice where it may
  not be repeated, no effect the store cannot account for, no answer in the history
  that is false, a paused session that can be resumed, a checkpoint that says what the
  next operation should do, results for every call before the model is asked again,
  approval before execution on every path, and a turn that ends.
- **Session store.** Whether a snapshot is really separate from the running turn; two
  turns at once on a session (ADR 0002 says the second is rejected).
- **MCP client.** One protocol session shared by concurrent calls that may each
  invalidate and reopen it; `tools/call` repeated after a transport failure; a catalog
  of an older session; progress after the call has returned.
- **Rate limiter.** Reservations made under a lock and waited for outside it; a rejected
  or cancelled wait keeps its debit.
- **Provider routing and cache.** Order of fallbacks, which model's key an answer is
  cached under, expiry and eviction.
- **Window.** Fits the budget without separating a call from its result.
- **Retry, policy, truncation, snapshot, accumulators.** Pure or nearly so: their
  boundaries and the order of their rules.
- **Delegation.** The depth limit, and what a parent is told of a paused sub-agent.

`PROJECT.json` lists the hazards at the lines where they bite.

## 2. Plan

Done, in this order; section 3 describes the modules:

1. `TurnEngine` with `CallLedger`, the abstract specification it implements, and
   the theorems of section 5.
2. `SessionTurns`: several turns on one session over the `Load`/`Save` of the memory
   store, with the sharing its copies leave.
3. `McpClient`: shared session, reconnection, catalog cache, progress registry.
4. The way of a model call: `ProviderRoute`, `RateLimiter`, `ProviderCall` (retries), the
   stream parsers on `ModelAnswer`, and `SemCache` in front of all.
5. What is made of a history: `WireHistory`, `ContextWindow`, `SessionSnapshot` (with the
   truncation of results), `UsageAudit`.
6. What an agent may do and know: `ToolPolicy`, `AgentDelegation`, `UserMemory`.

Last came `CallPath`, `History` and `Host`, which compose what a turn meets on the way to a model, what
is made of a history, and what goroutines and agents share.

The theorems came after the modules, each component's in a module of its own: those on
`TurnEngine`, then `McpClient`, `SessionTurns` and `AgentDelegation`, then the way of a model call
(`RateLimiter`, `ProviderCall`, `ProviderRoute`, `SemCache`), then what is made of a history (`UserMemory`,
`UsageAudit`, `ContextWindow`, `SessionSnapshot`), the policy, and what the three compositions inherit
(section 6).

Left, in the order of their worth:

- theorems: that a response of the stream parsers is the whole answer (`AnswerArrivesWhole`), what
  `WireHistory` says of a history (`WireSaysAll`), and what a sorted or filtered sequence of
  facts or documents holds (the rest of `MemoryIsCurrent`);
- structured output (`OutputInvalid` is one action now) with the schema in the request;
- the validation of the configuration, as the assumptions on the constants it establishes.

## 3. Modules

### TurnEngine

One session and a host that runs one turn at a time.  `store` is the session in the
`SessionStore`, `mem` the `*Session` of the running turn, `pc` the place in
`Run`/`ResolveConfirmation`/`runTurn`.

| Action | Code |
|---|---|
| `Run` | `Run` up to `runTurn`: refusal of an awaiting session, resumption of a running checkpoint |
| `ResolveConfirmation` | guards, marks cleared in memory, checkpoint set to running |
| `FetchCatalog` | `h.catalog`: a failure leaves the turn without tools |
| `NothingToReconcile`, `Reconcile` | `reconcileCheckpoint` with the call it may repeat |
| `BeginTurn` | input appended, `beginCheckpoint` |
| `ExecuteDecided`, `RejectDecided` | the `resume != nil` block |
| `StopTurn`, `CallModel`, `ModelFails`, `ModelAnswers` | top of the loop, limits, `chat`, the assistant message and its checkpoint |
| `FinalAnswer`, `OutputInvalid`, `DispatchBatch` | after an answer: end, schema error, parallel or sequential |
| `RejectCall`, `StartCall`, `HumanApproves`, `HumanDenies`, `PauseForHuman`, `InvokeTool` | one call of the sequential loop |
| `ParallelInvoke`, `ParallelCollect` | a goroutine of `executeParallel`; `wg.Wait` and the append in order |
| `FinishTurn`, `Return` | `finishCheckpoint` (only `Run`), the last save, the return |
| `SaveSession`, `SaveFails` | `Sessions.Save`, which may fail before or after it has written |
| `Crash` | the process dies; only `store` and the effects remain |

A save is a step of its own: the place after it is kept in `after`.  `SaveCheckpoint`
is `saveCheckpoint`, which does nothing without durability or checkpoint, and the
saves of a pause and of the end of the turn are unconditional.  A tool call is a
value of `Calls`; the sets `Unknown`, `Invalid`, `Denied`, `Confirm`, `Idempotent` and
`NoId` say what the engine distinguishes of it.  `issued`, `approved` and `invoked` are
history variables.

Abstractions.  Message contents, usage, events, audit and latency are left out.  Call ids
are unique (`ReusingSpec` of `MCTurnEngine` drops this).  The store copies what it is
given and a save is atomic.  A new session is the empty stored one.  A Run has an input.
A tool that is missing from one catalog because the listing failed may be back in the
next turn, everything else about a call stays the same.  Cancellation, token and wall-clock
limits are nondeterministic.  An answer from the semantic cache is a `ModelAnswers` with an
empty batch.  Handlers do not fail except by withholding a decision.

### CallLedger

What a durable session promises of its calls: an entry per call that only advances
(none, requested, intended, answered), an effect only behind a durable intention, a second
effect only for an idempotent tool, at most one intention at a time, and no call answered
without an intention that had an effect.  `TurnEngine` implements it with the refinement
mapping `LedgerEntry`, which reads the entry of a call from the stored session alone
(`KeepsLedger`).

### MCTurnEngine

Names the calls of the instances (`plain`, `idem`, `human`, `refused`) and the sets the
configurations use, and holds `ReusingSpec`, in which a provider numbers the calls of each
answer anew.

### SessionTurns

The engine takes no lock, so what several goroutines do to one session depends on what they
load and save, and on what the copies of the memory store share.  `store` is the stored session;
a session refers to its checkpoint by a cell of `cells`, because `cloneSession` copies the
pointer.  A turn is the sequence of its loads (`StartRun`, `StartResolve`, `Reconcile`),
saves (`Begin`, `Record`, `Pause`, `Finish`), model answers and effects (`ToolEffect`), and of
the refusals of media.  Effects and approvals are counted.  Tools are not idempotent and an
answer asks for one call; `TurnEngine` has the rest.  `StartResolve` is the load and the marks that
`ResolveConfirmation` writes to the checkpoint it shares, in one step.

### McpClient

`conn` lists the sessions opened so far with their state, `session` and `catalog` are the
fields of `Client`, `holder` its mutex while a connection is attempted (the only time it is
held across I/O), `registry` the progress callbacks.  `CallerStep` follows one operation through
`ensureSession`, the request, `invalidateSession` (`Detach` under the lock, `Shut` outside it), the wait and the
single retry of `withReconnect`; `List`, `Call`, resources and prompts and `Close` share these
steps as the code does.  `Environment` drops sessions and delivers progress late; a reply
may be lost after its effect.

### RateLimiter, ProviderRoute, ProviderCall

`RateLimiter`: `Acquire` is `Reserve` under `limiterMu` with the decision on `MaxWait`,
`WaitEnds` and `WaitCancelled` what happens outside it.  Tokens are counted in ticks, so that
a bucket holds integers; the rounding of its fractions is left out.  `ProviderRoute`: `Resolve` is
`resolveModel` and the capability check of `runTurn`, `Success`, `Failure` and `Skip` the steps of `chat` along the
chain; every configuration that `New` accepts is an initial state.  `ProviderCall`: the loop
of `retry.DoIf` under `providerhttp.Retryable`, with delays of the width of a duration
(`Wrap`), the context that may end in an attempt or in a wait, and the fallback.

### ModelAnswer, AnthropicStream, OpenAIStream, ResponsesStream

`ModelAnswer` is external: an answer as a sequence of items in fragments that may interleave, and the sink
of the host.  The three others extend it and `ProviderCall`, with one action per event their parser consumes,
the accumulators of the Go `streamState` and the `ChatResponse` it returns.  The name of a tool
comes in one piece, and an item of the Responses API that has neither call id nor name is no call.  A stream may be cut
between any two events.

### SemCache

`Lookup` is `prepareCache` and the scan of the store with its expiry, `Answer` the model's
answer and `saveCache`, which refreshes, appends and evicts; `Score` stands for the cosine.

### WireHistory, ContextWindow, SessionSnapshot, UsageAudit

`WireHistory` grows a history as the engine does and computes the messages of each wire form
from all of it, and the body of the request; the properties compare them with the history read directly.
`ContextWindow`: `ModelCall` is `applyWindow`, with the budget, the grouping into blocks, and the summary.
`SessionSnapshot`: each step of a turn writes the document of the session field by field; `Damaged` takes one field out,
`Crash` and `Load` run the generated decoders and `RestoreSession`; `truncateToolResult` is part
of `ToolAnswers`.  What is read equals what was written but for the integers a float64 rounds (`Reread`).
`UsageAudit`: `ModelCall` is `usageFor` with costs and totals of the width of an int64,
`recordModelCall` and its sink; `ModelCallFails` the call that no provider answers, which ends the turn with
an error to the handler and no event; `ToolCall` is `recordToolCall` with the truncation of a field.

### ToolPolicy, MCToolPolicy, AgentDelegation

`ToolPolicy` is `Evaluate` with its overrides, as operators.  `MCToolPolicy` lets a host edit
a policy entry by entry (`Deny`, `Allow`, `Confirm`, `Override`) and relates the verdicts
before and after.  `AgentDelegation` numbers sessions by their place in `turns`; a turn ends,
calls a tool, pauses, or delegates, the sub-turn inherits context, depth and user, and `Returns`
gives its outcome to the caller.  The host resolves, cancels, and restarts with another policy.

### UserMemory

The facts of the store (`Put`, `Delete`), the listing a turn is told (`ListFacts`), and the
retriever: the index built under its mutex while the embedder answers, with the decoding
of the embedder's answer by index.

### Conventions

Constants have named assumptions (`...Assumption`).  `CallPath`, `History` and `Host` instantiate several
components each; `Host` does so through the modules of their theorems, so that these hold of the
instances.  A variable `part` says which instance moves, the others rest.  Components of a composition
share no state (the variables two instances have in common, a clock or those of one component
instantiated twice, are of whichever moves), so that a behaviour of
one with the others at rest leaves nothing out, and each property is the conjunction of the components' own that make
one promise together.  `MCCallPath`, `MCHistory` and `MCHost` give them their constants and assume the components'
assumptions of these; `MCLiveness` instantiates, beside each other, the four components whose liveness is checked.
`Slip` marks an operator
that a definition does not use: a plausible mistake in the code it models.  `PROJECT.json` lists
under `mutants`, for each property, the slips that violate it when they replace the definition.

## 4. Runs

Deadlock checking is off: a host may stop calling, and does when the bound on its operations
is reached.

| Run | Instances | Shows |
|---|---|---|
| `durable` | `MCTurnEngine`: durable, sequential, calls idem and human, 3 operations, 2 crashes | types, at-most-once effects, approval before execution, effects accounted for, truthful answers, consistency of the stored marks, resolvable pauses, checkpoint status agreeing with the result, history that only grows, `CallLedger` |
| `volatile` | `MCTurnEngine`: not durable, parallel, batches of up to 3 with a refused call, 2 operations | every call answered, in order, before the model is asked again |
| `liveness` | `MCLiveness`: `TurnEngine` durable and parallel with a crash; `McpClient` with two goroutines and a failure; `AgentDelegation` one deep with three turns; `UserMemory` with two turns | a turn ends, an operation returns, a host's call returns, a turn gets past its memory |
| `shared_state` | `MCHost`: `McpClient` with two goroutines and a failure, and with one goroutine and two failures; `SessionTurns` overlapping with and without durability, and serial with media; `TurnEngine` without durability, confirming | no session leaked, progress to its own call, final errors final, a single failure invisible to a single caller, no effect beyond its approvals, effects stored and history kept while turns do not overlap |
| `model_call` | `MCCallPath`: `RateLimiter` with three callers on one bucket; `ProviderRoute` over all configurations of three aliases; `SemCache` with two turns, two users, a time to live and a ceiling of two; `ProviderCall` with five attempts and all faults; the three parsers on answers of up to three items | the rate is never exceeded, every capable fallback is tried in order, answers are served as stored, a call gives up for a cause, repeats nothing permanent but a 408 and waits as configured, a response is the whole answer or an error and the sink saw it once |
| `history` | `MCHistory`: `WireHistory` with conversations of up to five messages, and all requests with two; `ContextWindow`; `SessionSnapshot`; `UsageAudit` with calls that are answered or fail; `UserMemory` with changing facts, and with three turns that need the index | each wire form says all of the history, compaction keeps calls with results, a restart finds what was saved, totals add up, the trail misses no call the host was not told of, memory is current |
| `delegation` | `MCHost`: `MCToolPolicy`; `AgentDelegation` wide (parallel, one deep) and deep (two) | entries of a policy mean what they say, sub-turns are nested, failures and rights stay inside, cancellation reaches all |
| `resolve_leaves_running` | as `durable`, 1 crash | *violation* of `CompletedTurnIsClosed` |
| `pause_drops_batch` | not durable, sequential | *violation* of `AnsweredBeforeAsking` |
| `approval_replayed` | not durable, sequential | *violation* of `AtMostOnce` |
| `parallel_unaccounted` | durable, parallel | *violation* of `EffectsAccountedFor` |
| `call_without_id` | not durable, the human call arrives without id | *violation* of `AwaitingIsResolvable` |

Why the bounds suffice.

- `TurnEngine`: three operations allow a pause, its resolution and a turn after it; two crashes
  a crash in the turn and one in the recovery from it.  Two calls of different class
  in a batch of two give a call before and one after a pause.  Two iterations let a turn ask
  the model again after the results.  A call never comes back after it was issued, so more
  calls add repetition, not new interleavings.
- `SessionTurns`: two turns are what it takes to lose an update or to resolve twice; the
  third operation is a turn after them.
- `McpClient`: two goroutines with three operations let one invalidate what another uses
  or has reopened, with a `Close` beside them; one failure starts the reconnection.
- `RateLimiter`: three callers, a burst of two and a wait of five ticks let one be let through, one wait, one be
  rejected.  `ProviderRoute`: two fallbacks have an order.  `ProviderCall`: the fifth attempt is past the ceiling
  of the delay and at the largest duration.
- Parsers: three items of up to two fragments interleave in all ways, in each of two attempts.
- `SemCache`: a ceiling of two with three texts evicts; three ticks with a time to live of two expire.
- Histories: five messages hold a question, two calls, their results and an answer; the window
  removes two of its blocks and calls the model again.  A document that lost one field is enough to see
  whether that field is demanded.
- `AgentDelegation`: three turns are a caller with two sub-turns at once, four reach one level below the
  limit of two.  `UserMemory`: three turns are one that builds the index, one that waits for it, one that comes after.

The five violations, and those of section 5, are disagreements between the code and what the
repository says of it.  In short: a durable turn that completes through `ResolveConfirmation`
is left open and swallows the next input; a pause drops the rest of its batch; without
durability an approval can be given, and executed, twice; the parallel path of a durable
session has no write-ahead; and a call delivered without an id cannot be confirmed later.
`AnsweredBeforeAsking`, `EffectsAccountedFor` and others are kept as properties of the
instances in which the code does satisfy them; the table says which.

Fairness.

- `TurnEngine`: weak fairness of the engine's steps as a whole.  The goroutine of a started
  turn is scheduled, and each port it waits for (model, tool, store, handler) takes the turn's
  context and returns, with an error at worst.  That a turn ends then rests on the
  iteration limit and on batches being finite.
- `McpClient`: weak fairness of the steps of each goroutine, among them the end of a connection
  attempt and of a request, which have time limits.
- `AgentDelegation`: weak fairness of the engine's steps of each turn.
- `UserMemory`: weak fairness of the harness's steps of each turn, and that the embedder answers
  (`AnsweringSpec`).  With the first alone `CancelledTurnsEnd` fails: see section 5.

None is assumed of the host, of a successful save, of cancellation, of crashes or of their
absence.

## 5. Divergences

While the modules were written the code turned out to disagree with what the repository says of it in more
places than the five violation runs show.  Each is a definition of its module, which TLC refutes in the
instance named; no configuration is kept for it.  "As in" means that the constants are those of the run
of section 4 but for what follows.

**McpClient**

- `CallSentOnce` (one caller, one `call`, one failure). At `adapters/mcpclient/reconnect.go:44`: withReconnect repeats op after any transport failure, tools/call included, though the first attempt may have executed and only its answer was lost. specs/nucleo/001-harness-ia-reutilizavel/spec.md:161 says "FR-014: O harness MUST NOT repetir tool já executada em retry/fallback, exceto quando a tool for declaradamente idempotente".
- `CatalogOfCurrentSession` (two callers, `list` and `call`, 2 operations, one failure). At `adapters/mcpclient/catalog.go:79`: fetchTools stores the catalog without comparing its session with the current one, so a listing that finishes after another goroutine reconnected is served for the new session. adapters/mcpclient/catalog.go:14 says "o resultado é cacheado por sessão e invalidado na reconexão (FR-005)".
- `SingleFailureIsTransparent` (two callers, 3 `call`s, one failure). At `adapters/mcpclient/reconnect.go:58`: invalidateSession closes whatever session is current, not the one that failed; of two callers that lost one session the second closes the session the first has reopened, and the retry of the first fails on it. specs/nucleo/001-harness-ia-reutilizavel/spec.md:125 says "o harness deve reconectar de forma transparente antes de reportar falha".
- `NothingOpenAfterClose` (two callers, a `call` and a `close`, no failure). At `adapters/mcpclient/client.go:98`: Close leaves no mark of being closed: an operation in progress that reaches ensureSession afterwards starts a new process that nothing closes. specs/nucleo/023-mcp-stdio/spec.md:40 (FR-STD-007) says "Nenhum processo órfão após `Close`".

**SessionTurns**

- `ApprovedCallRunsOnce` (two durable turns that may overlap, one call to confirm, 3 operations). At `internal/engine/engine.go:115`: Nothing marks the session as taken between Load and Save, so two ResolveConfirmation calls of one pending call both pass the check and both execute it. docs/adr/0002-fallback-e-concorrencia-de-sessao.md:15 says "Uma sessão = um turno por vez. A sessão rejeita turno concorrente enquanto outro está ativo (ou pending de confirmação)".
- `StoreKeepsHistory` (two turns that may overlap, 2 operations). At `internal/engine/engine.go:86`: Save replaces the whole session with the copy this turn loaded, so the messages another turn has saved meanwhile disappear; no turn is rejected. docs/adr/0002-fallback-e-concorrencia-de-sessao.md:15 says "A sessão rejeita turno concorrente enquanto outro está ativo".
- `LoadLeavesStore` (one durable turn, one call to confirm, 2 operations). At `adapters/session/memory/store.go:64`: cloneSession copies Messages and Pending and keeps the Checkpoint pointer, so ResolveConfirmation's marks (engine.go:131) are in the store before any Save. adapters/session/memory/store.go:31 says "Load devolve uma cópia profunda da sessão".
- `AskedWithinLimit` (one turn, one call to confirm, 2 operations, one iteration each). At `internal/engine/engine.go:134`: ResolveConfirmation builds a request without the limits of the Run and the budget starts again, so a turn paused n times has n+1 budgets. specs/nucleo/001-harness-ia-reutilizavel/spec.md:152 says "FR-008: O loop de agente MUST ter limites configuráveis (iterações, tokens, tempo) e encerrar com mensagem explícita ao atingi-los", and internal/engine/engine.go:105 that the resolution follows "o turno de onde pausou".
- `RefusedInputNotStored` (one durable turn, inputs `text` and `odd`, 2 operations). At `internal/engine/loop.go:315`: With Durable, beginCheckpoint saves the input before media.Validate looks at it (loop.go:414); the error leaves the checkpoint running, and every later Run resumes into the same refusal. specs/nucleo/002-multimodal-imagem-documento/spec.md:85 (FR-MM-003) says "falhar com erro nomeado, sem chamar o provedor e sem alterar a sessão".
- `RefusedForItsOwnMedia` (one turn, inputs `text` and `image`, `MaxPerTurn = 1`, 2 operations). At `internal/engine/loop.go:414`: media.Validate gets the media of the whole history, so a session that has accumulated more than ten refuses every later turn, even one of text. internal/engine/media/media.go:17 says "DefaultMaxPerTurn é o número máximo de mídias por turno".
- `CancelledTurnIsStored` (one turn, 2 operations, 2 failures). At `internal/engine/loop.go:480`: A cancellation during the model call makes the call fail; runTurn emits an error event and returns StopError with an error, and Run returns before its Save. specs/nucleo/001-harness-ia-reutilizavel/contracts/library-api.md:165 says "`Run` cancelado retorna `StopReason=cancelled` com a sessão consistente e persistida", specs/nucleo/001-harness-ia-reutilizavel/contracts/events.md:38 "`ctx` cancelado → nenhum evento novo é emitido".

**RateLimiter**

- `RejectedOnlyWhenBusy` (two callers, `Period = 2`, `Burst = 1`, `MaxWait = 2`, 8 ticks). At `internal/engine/ratelimit/bucket.go:76`: Reserve takes a token of a call that acquireRateLimit then rejects (provider_route.go:161), and nothing gives it back: attempts that are all rejected keep the bucket in debt, so calls are rejected though none is made. specs/nucleo/019-rate-limit-provider/spec.md:13 says "The harness SHALL limit", speaking of provider calls.
- `ProvidersIndependent` (two callers, two providers, `Limited = {}`, `Burst = 1`). At `internal/engine/provider_route.go:144`: limiterFor gives one defaultLimiter to every provider without an entry of its own, so the calls of one make another wait. specs/nucleo/019-rate-limit-provider/spec.md:17 says "o limite é do provider".

**ProviderRoute**

- `ReportedIsAsked` (as in `model_call`). At `internal/engine/provider_route.go:79`: chat derives the primary's alias from its provider and model, so of two aliases with the same pair it reports the first by name even when the other was asked for and answered. specs/nucleo/001-harness-ia-reutilizavel/contracts/library-api.md:164 says "`TurnResult.Model` reflete o alias efetivo após fallback".
- `ToolsOnlyToCapable` (as in `model_call`). At `internal/engine/provider_route.go:121`: A fallback is checked for media and not for ToolCalling (loop.go:405 checks the profile asked for only), so a turn with tools is sent to a profile that does not declare them. specs/nucleo/001-harness-ia-reutilizavel/spec.md:162 says "FR-015: IF o perfil de provedor não suportar as capacidades exigidas pelo turno (ex.: tool-calling) THEN o harness SHALL falhar de forma explícita".
- `ReportedProviderAnswered` (as in `model_call`). At `internal/engine/loop.go:534`: UsageEvent and the audit event take Provider from the profile asked for and Model from the one that answered: a fallback on another provider is recorded under the wrong provider. specs/nucleo/001-harness-ia-reutilizavel/spec.md:179 says "FR-023: O harness MUST emitir evento estruturado por chamada de modelo [...] com provedor, modelo".

**SemCache**

- `EvictsOldest` (as in `model_call`, texts 1, 3 and 5, `TTL = 0`). At `adapters/cache/inmem/store.go:96`: Store refreshes an entry where it is and evicts the first place, so an entry just refreshed goes before older ones. specs/nucleo/020-cache-semantico/spec.md:18 says "removendo as mais antigas".
- `KeptUnderItsModel` (as in `model_call`, one text, two models). At `internal/engine/loop.go:490`: saveCache stores under the query made for profile.Model although chat may have answered with a fallback (effectiveModel is not passed). specs/nucleo/020-cache-semantico/spec.md:15 says the key is derived "do conteúdo canônico do contexto (system + mensagens) e do modelo efetivo".
- `ServedForItsMedia` (as in `model_call`, one text, media `none` and `image`). At `internal/engine/semcache/cache.go:87`: messageText keeps text, calls and results and drops media, so contexts that differ in an image have the same key and vector and one is served the answer of the other. specs/nucleo/020-cache-semantico/spec.md:15 says the key is derived "do conteúdo canônico do contexto (system + mensagens)".

**ProviderCall**

- `ClientTimeoutRepeated` (as in `model_call`, any number of attempts). At `internal/platform/providerhttp/retry.go:27`: Retryable refuses every error that Is context.DeadlineExceeded, and the error net/http returns when Config.Timeout passes is one: a timed out attempt is not repeated although its code is provider_timeout. specs/nucleo/007-retry-provider/spec.md:17 says "WHEN a chamada de modelo falha com erro transitório (429, timeout, 5xx ou transporte), o adaptador SHALL repetir com backoff exponencial + jitter, até `Config.MaxAttempts`".
- `RequestTimeoutNotRepeated` (as in `model_call`, any number of attempts). At `internal/platform/providerhttp/retry.go:20`: A 408 has the code provider_timeout, which is among codesRetryable, so it is repeated like a 429; `PermanentNotRepeated` is checked of every other 4xx. specs/nucleo/007-retry-provider/spec.md:18 says "FR-RETRY-002: O adaptador MUST NOT repetir erros permanentes (4xx diferentes de 429) nem cancelamento de contexto", while line 17 counts a "timeout" among the transient ones.
- `ErrorIsTyped` (as in `model_call`, any number of attempts). At `internal/platform/retry/retry.go:61`: When the context ends during the wait between attempts DoIf returns the context's error instead of the failure of the attempt, and ChatStream passes it on: no ProviderError is in its chain. specs/nucleo/001-harness-ia-reutilizavel/contracts/library-api.md:166 says "Erros são tipos do pacote `harness` (`*ConfigError`, `*PolicyError`, `*ToolError`, `*ProviderError`), com `errors.As`".

**AnthropicStream**

- `SinkIsAnswer` (as in `model_call`, `Fallbacks = 1`). At `internal/engine/provider_route.go:115`: chat calls the next profile with the same sink whatever the error, so after a cut stream the deltas of the fallback follow those already shown under the same MessageID. specs/nucleo/001-harness-ia-reutilizavel/spec.md:128 says "Queda do stream de resposta: retomar ou encerrar o turno de forma limpa, sem duplicar a cobrança/evento".

**WireHistory**

- `InvalidInputIsEmpty` (arguments `object`, `missing` and `invalid`, 3 messages). At `adapters/provider/anthropic/chat.go:685`: decodeInput returns emptySchema(), the object {"type":"object","properties":{}}, for arguments that are missing or not an object, so the model reads that it called its tool with fields type and properties. The comment of adapters/provider/anthropic/chat.go:676 says "fragmento inválido vira objeto vazio".

**ContextWindow**

- `CompactsAtRatio` (as in `history`). At `internal/engine/window.go:90`: applyWindow starts when the estimate passes budget*ratio, but removes blocks only while the estimate exceeds the whole budget: between the two it removes nothing and compacts nothing, so CompactAtRatio has no effect and no headroom is left. specs/nucleo/018-janela-por-modelo-e-compactacao/spec.md:26 says "WHEN o contexto estimado atinge uma fração configurável do orçamento (default 0,8 = 80%), o harness MUST compactar **antes** de chamar o modelo, deixando headroom".
- `SummaryStays` (as in `history`). At `internal/engine/loop.go:424`: The summary is put into requestMessages only; the next call of the turn windows the full messages again with summarizeAllowed false, and drops the same messages without their summary. specs/nucleo/018-janela-por-modelo-e-compactacao/spec.md:27 says "A compactação MUST substituir as mensagens elegíveis mais antigas por **uma** mensagem de resumo com proveniência explícita", and internal/engine/window.go:13 "janela transparente, nunca corte silencioso".
- `WithinBudget` (as in `history`). At `internal/engine/window.go:105`: The blocks kept fill the budget before the summary is added, and the request with the summary is not checked again, so it may exceed the budget though more blocks could be left out. specs/nucleo/018-janela-por-modelo-e-compactacao/spec.md:29 says "de modo que um loop longo de tools permaneça dentro do orçamento".
- `MediaCounted` (as in `history`, `Tokenizer = TRUE`). At `internal/engine/window.go:291`: tokenizeMessage counts text, arguments and results; with a Tokenizer the media of a message count nothing. specs/nucleo/002-multimodal-imagem-documento/spec.md:91 says "A janela de contexto MUST contabilizar mídia na estimativa de tokens de forma conservadora".

**SessionSnapshot**

- `SavedLoads` (as in `history`, with an answer of no parts). At `internal/engine/session/session_snapshot.go:118`: An answer with no text and no call has no parts (adapters/provider/openai/stream.go:179); the loop appends it, snapshotParts writes "parts": [], and the generated decoder refuses a message with less than one part, so the session cannot be loaded again. internal/engine/session/session_snapshot.go:14 says "Listas nulas viram listas vazias para permanecerem válidas no schema".
- `StepsCanBeSaved` (as in `history`, results in JSON, `MaxBytes = 3`). At `internal/engine/tool_result.go:29`: truncateToolResult cuts ResultJSON at a byte; the fragment is a json.RawMessage of the session, and encoding/json refuses it, so no later step of the session can be written. specs/nucleo/001-harness-ia-reutilizavel/spec.md:173 says "O harness MUST manter sessões conversacionais persistidas via porta fornecida pelo host, com histórico retomável após reinício do processo".
- `StepsCanBeSaved` (as in `history`, with a call whose arguments are a fragment). At `internal/engine/session/session_snapshot.go:410`: Adapters return argument fragments that are not JSON as they came, the loop answers the call with an error and keeps it in the history, and encoding/json refuses the raw text, so the session can no longer be written. specs/nucleo/001-harness-ia-reutilizavel/spec.md:173 says "O harness MUST manter sessões conversacionais persistidas via porta fornecida pelo host, com histórico retomável após reinício do processo".
- `ArgumentsComeBack` (as in `history`, with an integer of 54 bits among the arguments). At `internal/engine/session/session_snapshot.go:428`: The generated types hold arguments as interface{}: after the JSON a number is a float64, anyToRaw encodes it again, and an integer above 2^53 comes back changed.  White space, the order of keys and the escapes of HTML characters change in the same way, which is not modelled. internal/engine/session/session_snapshot.go:14 says "args/json viajam como json.RawMessage, sem re-serialização, preservando os bytes originais".

**MCToolPolicy**

- `CaseDoesNotMatter` (as in `delegation`). At `internal/engine/policy/policy.go:141`: matchTool compares and matches the text as it is, so a deny_tools entry "bank.*" leaves Bank.pay allowed. internal/engine/policy/policy.go:33 says "Globs casam contra "servidor.nome" e contra o nome puro via path.Match, sem diferenciar caixa"; the comment of matchTool at line 131 says the opposite.

**AgentDelegation**

- `DelegationDepthLimited` (as in `delegation`, one policy, `MaxAgentDepth = 1`, 3 turns). At `internal/engine/engine.go:134`: ResolveConfirmation runs the sub-session under the context of the host, whose call context has depth 0, so a sub-agent at the limit delegates again after each resumption. specs/nucleo/022-multi-agente/spec.md:16 says "A profundidade de delegação MUST ser limitada por `Config.MaxAgentDepth` (default 1); exceder devolve resultado de erro ao modelo, sem recursão infinita".
- `FinalTextIsTheResult` (as in `delegation`, 2 turns). At `internal/engine/agents/source.go:79`: A sub-turn that pauses for a confirmation comes back without error and without output, so the caller is told "agente concluiu sem texto" and the SubAgentEvent says completed; the text of the resumed sub-turn is the result of no tool. specs/nucleo/022-multi-agente/spec.md:15 says "MUST executar um **sub-turno** com o agente alvo [...] e devolver o texto final como resultado da tool".
- `TimeoutIsTheAgents` (as in `delegation`, 2 turns). At `internal/engine/loop.go:169`: effectiveToolTimeout reads h.cfg.Policy, while authorize reads the policy with that of the AgentSpec in it: the timeout overrides of AgentSpec.Policy have no effect. specs/nucleo/022-multi-agente/spec.md:19 says "A política do agente alvo MUST ser aplicada ao sub-turno", internal/engine/loop.go:166 "override da política vence o timeout publicado pela tool".
- `OverridePermitsRepetition` (as in `delegation`, 2 turns). At `internal/engine/checkpoint.go:60`: The write-ahead takes the idempotence from the tool alone; toolIdempotent, which reads the override, is called by its test only. specs/nucleo/001-harness-ia-reutilizavel/data-model.md:97 says of overrides[].idempotent "permite repetição em retry/fallback", and internal/engine/policy/policy.go:148 "o override do agente habilita a repetição".
- `PolicyIsApplied` (as in `delegation`, two policies, 2 turns). At `internal/engine/loop.go:364`: The resumption of a paused call finds the tool in the catalog and calls it without asking the policy, which may have changed since the pause (the session outlives the harness). specs/nucleo/001-harness-ia-reutilizavel/spec.md:166 says "O harness MUST aplicar política de permissão por usuário/agente: allowlist de tools, modo somente-leitura".

**UsageAudit**

- `EachTokenPaidOnce` (as in `history`). At `internal/engine/telemetry/cost.go:44`: The input that is charged at the full price is the total less what was read from the cache, while the total that the Anthropic adapter returns holds what was written to it as well: those tokens are charged at the price of the input and again at that of a write. internal/engine/telemetry/cost.go:36 says "o input não cacheado usa o preço de input, os tokens lidos usam o preço de cache e os escritos o preço de escrita", and specs/nucleo/006-prompt-caching/spec.md:19 "InputTokens é o total, incluindo os cacheados".
- `FailedCallsRecorded` (as in `history`). At `internal/engine/loop.go:480`: When chat fails, runTurn tells the handler and returns before recordModelCall, so the call has no event in the trail; `TrailIsComplete` counts it among those the host was told of. specs/nucleo/001-harness-ia-reutilizavel/spec.md:179 says "FR-023: O harness MUST emitir evento estruturado por chamada de modelo e por execução/negativa de tool, com provedor, modelo, tool, latência, status e tokens", and specs/nucleo/001-harness-ia-reutilizavel/data-model.md:112 "`AuditEvent` (um por chamada de modelo e um por execução/negativa de tool)".
- `TruncatedFits` (as in `history`, `MaxFieldBytes = 2`). At `internal/engine/telemetry/redact.go:154`: With max_field_bytes of 1 or 2, which the configuration admits, the text is cut to nothing and the marker alone is longer than the limit. internal/engine/telemetry/redact.go:147 says "O resultado cabe em max bytes (o marcador ocupa 3 bytes)".
- `TrailIsUnchanged` (as in `history`). At `adapters/audit/mem/sink.go:50`: cloneEvent leaves CachedInputTokens and CacheWriteTokens shared between the stored event and its copies. adapters/audit/mem/sink.go:37 says "mutar o resultado (inclusive os campos apontados) não altera o armazenado", and line 49 "copia o evento e todos os campos apontados do contrato".

**UserMemory**

- `CancelledTurnsEnd` (two turns, `FairSpec`). At `adapters/memory/inmem/retriever.go:98`: ensureIndex holds the mutex while the embedder is asked, with the context of the turn that came first; a second turn waits for the mutex whatever happens to its own context. .specify/memory/constitution.md:34 says "`context.Context` em toda operação de I/O; cancelamento se propaga por todo o turno", and specs/nucleo/001-harness-ia-reutilizavel/spec.md:154 "O host MUST poder cancelar um turno em andamento".
- `TurnsHaveTheirDocuments` (two turns). At `internal/engine/memory_context.go:36`: The query is the last text of the input of the request, and a resumption, after a confirmation or a crash, has none: the rest of the turn is asked of the model without the documents its first half had. specs/nucleo/001-harness-ia-reutilizavel/spec.md:187 says "O harness MUST recuperar conteúdo semanticamente relevante fornecido pelo host (índice de documentos/transações) e injetá-lo no contexto".

**MCTurnEngine**

- `EveryEffectIsTold` (`ReusingSpec`: durable, sequential, one call, 2 operations, 1 crash). At `internal/engine/checkpoint.go:93`: hasToolResult looks for the call id in the whole history, and nothing keeps a provider from giving an id again in a later answer: the write-ahead of the interrupted call is dropped as answered and the model is told nothing. specs/nucleo/021-execucao-duravel/spec.md:16 says "WHEN há `pending_call` sem resultado correspondente no histórico [...] MUST devolver resultado de erro "resultado ambíguo após interrupção" ao modelo".

## 6. Proofs

Eight modules hold theorems for every value of the constants that satisfies the named
assumptions of the component: sets of calls, callers, turns, agents and users of any size
(finite where their number matters), any limits, any number of operations, failures and crashes.

| Module | Of | Assumes, besides |
|---|---|---|
| `TurnEngineProofs` | `TurnEngine` | what each theorem says of `Durable`, `ParallelTools` and the classes of calls |
| `McpClientProofs` | `McpClient` | nothing; for one theorem a single goroutine |
| `SessionTurnsProofs` | `SessionTurns` | that the turns are finitely many; for two theorems no overlap |
| `AgentDelegationProofs` | `AgentDelegation` | that the agents are finitely many and a policy has its two fields |
| `CallPathProofs` | `RateLimiter`, `ProviderCall`, `ProviderRoute`, `SemCache`, `CallPath` | for the limiter that there is a provider, for the cache that there is something to ask |
| `HistoryProofs` | `UsageAudit`, `ContextWindow`, `SessionSnapshot`, `UserMemory`, `History` | for the window, histories of turns that ended; for what is cut, a limit no smaller than its marker (`PayloadAssumption`); for a session, texts without an integer that float64 rounds, messages with parts, results not yet cut (`ContentsAssumption`) |
| `HostProofs` | `Host`, `MCToolPolicy` | for the policy that no tool's key or name is a malformed glob, nor the bare name of another tool (`KeyAssumption`) |
| `DataInduction` | none: lemmas on sums over sets, quotients, repeated steps and chains | |

The operators are treated in lemmas (what an append, an update, a save or the end of a turn
yields), then each group of actions.  A bound on operations, crashes or turns is a constant
like any other: the theorems hold for every bound.

### The turn engine

- `TypeCorrect`: `Spec => []TypeOK`.  `TypeOK` alone is not inductive: actions that take the
  head of `todo` need it to be non-empty.  `HasHead` says where the turn is, or will be
  once its save is done (`At`), whenever that is the case.
- `AtMostOnceHolds`: with `Durable`, `Spec => []AtMostOnce`.  `OnceInv` adds to the property
  that only issued calls occur anywhere, that the calls of the current batch have had no
  effect (but those of a parallel batch that already have an outcome) and are distinct,
  that a pending call has had no effect, in the store as in memory, that the pending mark
  is cleared before the decided call runs, in the store too since `BeginTurn` or the
  write-ahead has been saved by then, and that there is no write-ahead without a checkpoint.
  The case of the reconciliation is where idempotence enters.
- `ApprovalRequired`: `Spec => []ApprovedBeforeInvoked`, with or
  without durability and parallel tools, asking inline or pausing.  `ApprovalInv` adds that a
  write-ahead, in the store as in memory, is only ever of an approved call or one that needs
  nobody, which is what lets the reconciliation repeat it without asking; that the head about
  to be invoked is approved; that a parallel batch needs nobody; and that the call a positive
  resolution carries is approved from the resolution to the call.
- `EffectsAccounted`: with `Durable` and without `ParallelTools`,
  `Spec => []EffectsAccountedFor`.  `AccountInv` adds that the session in memory accounts for
  the effects too, so that a save loses nothing; that the write-ahead is there, in the store
  as well, exactly while its call is in progress; and that a paused session has none.  Both
  assumptions are needed: `parallel_unaccounted` shows what the parallel path loses.

- In every mode unless said otherwise: `HistoryKept` (`Spec => HistoryOnlyGrows`),
  `StoreAgrees` (`StoreConsistent`), `ResultsInCallOrder` (`ResultsFollowCallOrder`) and, if no call that
  needs a confirmation comes without an id, `PauseResolvable` (`AwaitingIsResolvable`;
  `call_without_id` shows what happens otherwise).  One invariant, `HInv`, carries the four: it says
  of the stored session and of the one in memory alike (`Sound`) that the marks agree, that
  the write-ahead and the pending call are due (asked for, unanswered, and after every call
  answered so far), and that results stand in the order of the calls; of the batch in hand that
  its calls are due in this order; that the session in memory extends the stored one; and
  at which places of the turn each mark may be set.  "Due" is what makes it inductive: the order of
  results depends on where a resumed turn takes up the batch.
- `AskedOnlyWhenAnswered`: without `Durable` and with nothing to confirm, `AnsweredBeforeAsking`.
  `NothingLeftOpen` adds that the store never holds half a batch, so that what is open in memory is the
  rest of the batch in hand.  `pause_drops_batch` shows that a confirmation breaks it.
- With `Durable`: `CheckpointAnnounced` (`CheckpointMatchesResult`; `EndInv` follows the
  reason of the end from the place that decides it to the last save) and `AnswersTruthful`
  (`TruthfulAnswers`; `TruthInv` says it of the history in memory too, and that a parallel
  outcome is known only of a call that was executed; that a call to be rejected was not
  executed comes from `OnceInv`).
- `EngineRefinesLedger`: with `Durable` and without `ParallelTools`, `Spec => KeepsLedger`, that is, the
  engine implements `CallLedger` under the mapping of `LedgerEntry`.  Initial states map to
  initial states; a save maps to a step that advances entries, an execution to an effect
  of an intended call, everything else to a stutter.  `LedgerInv` relates the session that is about to be
  saved to the stored one: it keeps the write-ahead or answers it, and asks for or
  answers nothing that the stored history does not know.

`ApprovedBeforeInvoked` is also checked by `durable` and, inside `ApprovalsAndEffectsAgree`, by
`shared_state`; `ResultsFollowCallOrder` and `AnsweredBeforeAsking` by `volatile`; the others by `durable`.

### The MCP client

`McpInv` says of each goroutine which fields agree with its place, that the mutex belongs
to the goroutine that connects, that a token names one call for the registry, the server and the
callbacks alike, and includes the properties.

- `SessionsKept` (`TypeOK`, `NoSessionLeaked`) and `ProgressIsOwn` (`ProgressReachesOwnCall`,
  `RegistryHoldsLiveCalls`) follow from it for any number of goroutines.
- `FinalErrorsFinal` (`FinalErrorIsFinal`): a step property, from the same invariant.
- `OneFailureTransparent` (`SingleFailureIsTransparent`) is about a goroutine alone.  `SoloInv` adds that the
  session in use is the client's, that whatever is wrong with it cost a failure, and that a
  second attempt without a second failure finds a session that works.  Two goroutines break it:
  the second of those that lost a session closes the one the first has reopened.

### Turns on one session

- `TypesCorrect` (`TypeOK`): besides types it bounds iterations and says that a durable turn always
  has a checkpoint.  `TypeInv` adds a counting argument: with one cell more than turns
  there is always one that neither the store nor a turn uses.
- `EffectsWithinApprovals` (`OneEffectPerApproval`) and `PausesResolvable` (`AwaitingIsResolvable`) hold
  however turns overlap, durable or not.  `SharedInv` says that the executions so far and those under
  way stay within the approvals; that every session, stored or held by a turn, waits only for a call
  of its own history that is unanswered; and that a shared write-ahead names only calls that were, or
  are about to be, executed, so that reconciling another turn's write-ahead executes nothing again.
- `StoredStays` (`StoreKeepsHistory`, of steps) and, with `Durable`, `EffectsStored` (`EffectIsStored`) need turns that
  do not overlap.  `SerialInv` says that the turn under way is alone, extends the stored history and shares
  its checkpoint, and that the stored write-ahead names the call being executed and no other.

### Delegation

`DelegationInv` says of the sequence of turns that callers come before and awaited sub-turns after a turn, that a
turn waits exactly while a sub-turn has not returned to it and each of these knows it as its
caller (`Nested`), and that a paused turn has a question.  The lemmas treat what one step
does to a sequence: one turn moves, a batch of sub-turns is appended (of any size: a finite set of
names has a numbering), a sub-turn returns, a restart keeps what is paused.

- `SubTurnsNested` (`TypeOK`, `SubTurnsAreNested`).
- `FailureIsAResult` (`FailuresStayInside`): the one step that tells an error leaves the caller waiting or
  running, because the caller waited for that very sub-turn.
- `OwnRightsOnly` (`RightsAreNotInherited`): the policy in force for an agent and the one of its own
  specification give the same verdicts (`OwnRights`), and an execution has its verdict in the same step or
  the host's.
- `DepthBounded` (`DepthIsBounded`).  The depth a turn goes on with is what the engine compares with the limit, its
  generation what the property bounds, and they part: a restart loses the depth, a resumption starts at 0.  `DepthOk` says that
  they agree for a turn that goes on and has no resumed turn on the way to it: who lost its depth is paused, and a
  paused turn goes on only when it is resumed.
- `CancellationReaches` (`CancellationReachesAll`): a turn gets an answer only while its context lives, and by
  induction along its callers nothing above it is cancelled then.

Generation, callers above and life of a context are recursive functions along the chain of callers, of any
length; `ChainExists` gives their values, `PlaceInduction` what holds along them.

### The way of a model call

- `WaitsSpaced` (`TypeOK`, `TurnsSpaced`): callers that wait at one bucket have turns a period apart.
  `SpacedInv` adds that no turn is later than the instant at which the bucket will have paid its debt
  (`Paid`): a new reservation is then a period after all those before it, whatever is cancelled.
- `LimitKept` (`LimitRespected`): in every interval a bucket lets through at most a burst and what the rate gives for
  its length.  The property counts calls made; it is not inductive, because who waits now will be counted
  later.  `LimitInv` bounds, for every pair of instants, what was or will be taken between them (`Taken`: calls started
  and turns held) by the instant the bucket will be full again (`Full`): nothing that was taken
  since an instant is given back before.
- `RetriesForCause` (`CallTypeOK`, `GivesUpForCause`, `PermanentNotRepeated`, `DelayIsExponential`): at most the configured attempts, an end
  only for a cause, no repetition of a permanent fault but a 408, and waits that double up to the ceiling.
  `CallInv` says that every wait is the delay of its attempt and that all faults before the last were
  repeatable.  `DelayFor` is a recursive function; that its values are the iterates of one doubling, which
  stay below the ceiling and so never overflow, comes from `IterationExists` and `IterationUnique`.
- `ChainIsFollowed` (`MediaOnlyToCapable`, `AllTriedInOrder`, `ReportedModelAnswered`): for any chain.
  `RouteInv` says that what was tried so far are the capable places before the one reached, each at the position that
  the number of capable places up to it gives, and that none of them answered.
- `AnswersAsStored` (the `TypeOK`, `ServedToItsUser`, `ServedFresh`, `ExactBeforeSimilar`, `OneEntryPerKey` of `SemCache`): for any users,
  texts, scores, time to live and ceiling.  `CacheInv` says that no entry is of the future, that no key has two, and of who
  was served at this instant that no older entry of its very text scores higher: what is stored later in
  the same instant does not count.  What the loop of `prune` keeps is found by induction (`PrunedKeeps`: the entries that are
  fresh, in their order, and no other), what is stored either replaces the one entry of its key or
  evicts at most the first (`StoredFits`), and the candidate served exists and has the highest score (`BestIsServed`).

### Memory

- `LatestFacts` (`FactsAreTheLatest`).  `MemoryInv` relates the facts of a user to what the host last gave by
  `Recalls`, one fact for each remembered id; a replacement keeps the place, a deletion closes the gap.
- `AskedOnce` (`IndexedOnce`), for any number of turns: no query before every document has its vector, one turn at a time asks
  for the index, nobody once it is there.  `IndexInv` says that the mutex belongs to the turn that builds.

### Usage and trail

- `AccountExact` (`NeverUnderestimates`, `TotalsAreSums`), for any prices (negative ones too), counts and width of the
  integers.  The saturating sum and product are shown to be the exact value bounded by the largest
  integer (`PlusIsBounded`, `TimesIsBounded`), whatever the order of the operations; the cost is then the bounded charge,
  and the charge is never below the bill.
- `TrailAgrees` (`TrailIsComplete`): a call of the model is answered, and then in the trail or its refused event
  told, or it failed, and then told.  `AuditInv` follows the sum of the events of the trail; the event of a tool adds
  nothing to it.  That a failed call has no event is the divergence `FailedCallsRecorded`.
- `PayloadsWhole` (`PayloadsArePrefixes`): what is recorded of a call's arguments is all of them, or as many whole
  characters as leave room for the marker.  The sizes of the beginnings of a text rise (a sum over `1 .. k`), so
  that the longest that fits is one that the loop of `truncate` finds.

### The window

- `WindowKeepsWhole` (`PairsTogether`, `SystemAndNewestKept`, `OldestAndNoMore`, `SummaryOnce`, `TypeOK` of
  `ContextWindow`), for any histories, sizes of messages, budgets, tokenizers and summaries, and turns of any length.
  `HistoryAssumption` says what a turn starts with: the messages of the memory first, which are the only ones of the
  system, every result after its call with nothing but results between, and every call with its result.  A turn
  keeps the first two (`Shaped`), and the third but for the calls that wait (`AnsweredBut`), which are
  of the last message that is no result (`Waiting`); the model is called when none waits.  From `Shaped` alone every result is in the
  block of its call (`ResultBlock`), and the first messages of the blocks rise (`BlocksRise`): what is removed is
  whole blocks (`WithoutIs`), the oldest (`GoneIs`), and one block less would not fit, as the count
  of `Removed` is the least.  `Carries` says what a request holds whether it is the context, what is kept
  of it, or that with a summary (`InjectCarries`).  A history that a pause has left with an unanswered call is outside the
  assumption, as it is outside the histories of the run (`pause_drops_batch` is about how it comes to be).

### Induction

A theorem with an operator as its parameter cannot be instantiated by the provers here, and with it the induction
theorems of the library.  `DataInduction` takes sets in their place: a set of naturals that holds 0 and is closed
under the successor is `Nat` (`SetInduction`, from the fact that an injection of a finite set into itself is onto), and
from it induction over the subsets of a finite set, the sums `MapThenSumSet` gives, the values of a recursive
function, and those of one that goes along a chain of places; also that the members of a finite set of naturals have
the ranks from 1 to its size (`RanksAreAll`).

### The document of a session

- `SnapshotComesBack` (`TypeOK`, `RestartFindsAll`, `PartialDocuments`, `ResultsWithinCap`, `SavedLoads` of `SessionSnapshot`), for any
  contents of messages, any cap and any number of crashes and damages.  Each type of the document has a pair of
  lemmas: what is written of a good value can be read, and is the value again; without a field that must be
  there it is refused, without one that may be missing it is the value with that field empty.
  `SnapInv` says of the session that runs, the one stored and the one loaded alike that they are made of the inputs,
  answers and cut results the constants allow.

### The policy

- `HostReadsEntries` (`EntriesMeanWhatTheySay`): for any tools, matches of globs and sequence of edits.  The verdicts
  after the edit of one entry are compared with those before it, whatever the other entries of the policy.

### The compositions

The theorems of a component hold of its instance in a composition: the composition starts it in one of its
initial states, a step in which it moves is one of its steps, and `part` never changes, so that a behaviour in which
it moves is one of its own.

| Module | Theorem | Property of the runs |
|---|---|---|
| `CallPathProofs` | `PathRespectsLimit`, `PathTriesAll`, `PathServesAsStored`, `PathRetriesForCause` | `LimitRespected`, `AllTriedInOrder`, `ServedAsStored`, `RetriedForCause` (`model_call`) |
| `HistoryProofs` | `HistoryKeptWhole`, `HistoryComesBack`, `HistoryAddsUp`, `HistoryTrailWhole` | `CompactionKeepsWhole`, `RestartFindsAll`, `AccountAddsUp`, `TrailIsComplete` (`history`) |
| `HostProofs` | `HostLeaksNoSession`, `HostKeepsProgressApart`, `HostHidesOneFailure`, `HostHonoursApprovals`, `HostRepeatsNoFinalError`, `HostKeepsHistory` | `NoSessionLeaked`, `ProgressReachesOwnCall`, `SingleFailureIsTransparent`, `ApprovalsAndEffectsAgree`, `FinalErrorIsFinal`, `StoreKeepsHistory` (`shared_state`) |
| `HostProofs` | `HostNestsSubTurns`, `HostContainsDelegation`, `HostReadsEntries` | `SubTurnsAreNested`, `DelegationContains`, `EntriesMeanWhatTheySay` (`delegation`) |
| `HostProofs` | `HostTypesCorrect` | `TypeOK` (both) |

`LatestFacts` and `AskedOnce` are about parts of `MemoryIsCurrent` (`history`).

### Only model-checked

- Liveness (`TurnTerminates`, `OperationEnds`, `CallsReturn`, `TurnsGoOn`), and whatever needs `ENABLED`: out of
  the prover's reach.
- `AnswerArrivesWhole`: the accumulators of the stream parsers.
- `WireSaysAll`: the wire forms, and with both the `TypeOK` of `CallPath` and of `History` as a whole.
- What a `SelectSeq` or `SortSeq` yields, of which the library has no facts: `ToldWhatIsRemembered` and
  `ItemsAreNearest` of `UserMemory`, the rest of `MemoryIsCurrent`.

## 7. Not modelled

The components table of `PROJECT.json` says for each part what is left out.  In summary:

- bytes: HTTP, headers, credentials, redirects, the framing of events, JSON text, encodings
  except where a decoder may refuse them;
- text: prompts, wording of messages, descriptions, the search for sensitive keys;
- numbers that no property reads: jitter, latency, the estimate of what the cache saved, the
  rounding of token fractions in the limiter, and that of an estimate of more than 2^53 bytes;
- a host without prices, which estimates no tokens of a call without a report (`audit_emit.go:25`);
- the results of tools in the audit, which are cut as their arguments are;
- the operating system side of process groups, and the SDK behind the MCP client, of which only
  the failures and notifications it may cause are modelled;
- media formats and sizes (their refusal is modelled);
- configuration at start, whose outcome is the constants of the models;
- tracing, the slog sink, command line tools, the evaluation script, examples, test doubles
  and the generated types other than those of the session.
