# Runkite: TLA+ verification

Runkite is a control plane for AI agents. Clients create *runs* on *threads*
over HTTP, a job queue hands each run to a *runner* process over gRPC, the
runner streams events and reports a status, and the plane turns that report
into a durable result. Several replicas of the plane share one database and one
queue; any of them may die at any time. Agents reach third-party services
through *connectors*, which sit behind a circuit breaker.

This directory models two parts of it: the protocol that keeps a run's row, its
thread, its lease and its event log consistent while all of that interleaves,
and the circuit breaker of a connector under concurrent calls. TLC checks both
on small instances; TLAPS proves their main safety properties for every
instance. `PROJECT.json` lists the components, the runs, the correspondence of
each definition to source lines, the hazards at the lines where they bite, and
the findings.

## Inventory of the system

For each part: its state, its operations, what makes it hard, and what it has
to get right. "Modelled" parts name their module; the others are in the plan.

| part | state | operations | hard behaviours | correctness |
|---|---|---|---|---|
| run creation (`internal/api/runs.go`) — RunLifecycle | run row, thread status | `createRunCtx`, enqueue, `rollbackCreatedRun` | claim, INSERT and enqueue fail or crash one by one; the enqueue may arrive although it failed | an active run owns its thread; a failed creation frees it, itself ended, and overwrites no result |
| job queue (`internal/transport/*`) — RunLifecycle (in-process) | ready list, leases with a generation, cancel markers | Enqueue, Dequeue, Ack, Nack, Renew, Cancel, ReclaimStale | leases expire under live runners; every call is fenced by generation | one copy of a job; kept until the run is settled |
| bridge (`internal/bridge`) — RunLifecycle | cancel watchers | GetJob, StreamEvents, ReportStatus, Heartbeat, WatchCancels | each RPC is several queue, store and broker calls | only the current attempt counts; an accepted report is durable |
| durable completion (`internal/api/completion.go`, `internal/state/sqlcompletion`) — RunLifecycle | attempt and completion generation in the metadata | BeginRunAttempt, completeRunResult, CompleteReclaimedRun, completeObservedRun | runner, client, reaper, cancel and sweep complete one run | exactly one completion, of the latest attempt, with its own output |
| reaper (`cmd/reclaim.go`) — RunLifecycle | leader lock | reclaim tick, poison pills | races the runner it gave up on | every enqueued run settles |
| timeout sweep (`internal/api/timeout.go`) — RunLifecycle | none | TimeoutOverdueRuns | races everything else | every created run ends |
| runner (`python/runkite_runner`) — RunLifecycle | its execution | stream, report with retries, heartbeat | repeats reports whose answer it lost | a repeated report has no second effect |
| connectors (`internal/connector`) — Connector | breaker, cached token | GetSession, ProxyMCPRequest | outcomes recorded late and out of order; one call takes the breaker twice | a half-open breaker is never stuck; failures open it; recovery closes it; one fetch per expired token |
| Redis, NATS, Kafka queues | lists, streams, pending entries | as the job queue | a crash between two Redis commands | they implement the queue above |
| event broker and replay (`run_events.go`, `streaming.go`) | log per run, subscriptions | Publish, Subscribe, Replay, Close | replay then tail; slow subscribers; late publishers | a client sees every event once, in order, up to the end |
| hooks (`internal/hooks`) | bounded dispatch queue, terminal claim | Fire, claim, retry, shutdown | crash between claim and delivery; full queue | a terminal hook fires once per run |
| FinOps (`internal/finops`, `api/usage.go`) | usage events, holds, budgets | hold, settle, evaluate cap | concurrent holds near the cap; lost settle | caps hold within the documented slack; no hold leaks |
| admission and kill (`api/admission*.go`, `admin_kill.go`) | active counts, kill flags | admit, kill, drain | count read before insert; kill races creation | limits are not passed; a kill drains every run it covers |
| delegation (`api/a2a.go`) | parent links | create child, cascade cancel | child created while the parent is canceled | no active child under a canceled parent |
| cron (`cmd/cron.go`) | next fire, claim | claim, fire, release, catch up | replicas race; crash between claim and fire | at most one run per tick; no tick lost for ever |
| policy, HITL, break-glass | overlays, decision cache, approvals | evaluate, poll, approve, consume | stale cache; an approval used twice | one use per approval; a denied call stays denied |
| opaque checkpoints | versioned blobs | put with compare-and-swap | writers of superseded attempts | versions grow; only the current attempt writes |
| rate limiting | buckets | allow, evict | eviction of a busy bucket | the rate holds across eviction |
| retention | old rows | purge | purge next to active runs | no active run loses rows |

Authentication, single-row CRUD endpoints, boot and configuration, and generated
code have no protocol state worth a model; `PROJECT.json` says so one by one.

## Modules

| module | models |
|---|---|
| `RunLifecycle` | one run from thread claim to finalized terminal state |
| `RunContract` | what the run's row promises its readers; `RunLifecycle` implements it |
| `MCRunLifecycle` | small instances for TLC |
| `RunLifecycle_proofs` | type correctness |
| `RunSafety_proofs` | safety invariant, action properties, refinement of `RunContract` |
| `Connector` | breaker, token cache and calls of one connector |
| `MCConnector` | small instances for TLC |
| `Connector_proofs` | breaker invariant |

A name with a suffix after an underscore inside a module (`Applied_Again`) is a
variant of the definition that follows it, with a plausible mistake in it. No
specification uses these; replacing the definition by the variant must break a
named property, which shows that the property depends on that code.

### RunLifecycle

State. `status`, `attemptGen`, `completion`, `output`, `merges`, `finalized` are
the row (status, the two generation keys of the metadata, the stored output, the
checkpoints merged into the thread, the bookkeeping after commit); `thread` the
thread's status; `ready`, `inflight`, `fresh`, `canceled` the queue's lists, the
lease and its age, and the cancel marker; `log` the published events; `attempt`
and `outcome` what the runner of each generation is doing. Outputs are
represented by the generation that produced them. No action reads the history
variables; they record what a property has to know of the past: the queue took
the job (`enqueued`), a rollback wrote the status (`rolledBack`), the race of
`lost_finalization` happened (`discarded`), creation gave the thread back under
an active run (`unowned`), the attempts whose terminal event was published after
they had lost their lease (`late`).

Actions. Everything that works on that state is a *handler* in a slot `h[p]`:
an HTTP request (`Clients`), a runner RPC (`Bridge`), a loop tick (`Sweepers`).
A handler is a sequence of calls to store, queue or broker. A call is one step
(a database transaction or a mutex-protected queue method is atomic in the code),
handlers interleave between calls, and what a handler read earlier is kept in
its record: this is where stale reads come from.

| handler | steps |
|---|---|
| `createRunCtx` + `handleCreateBackgroundRun` | TryClaimThread, CreateRun, Enqueue; RollbackRun or RollbackRunFails, ReleaseThread |
| `GetJob` | Dequeue, AttemptCallback, RecoverDeliveredCompletion, BeginRunAttempt, Deliver or Nack |
| `StreamEvents` | StreamValues / StreamEnd, Publish |
| `ReportStatus` | ReportStatus, FenceReport, completion, Respond |
| completion (shared) | CheckCompletion, ReplayOutput, CompleteRun (one transaction), FinalizeCommittedRun, Ack |
| reaper | ReclaimStale, LookupInflight, CompleteReclaimedRun, BindRetainedLease, completion |
| cancel | CancelRun, completion, RecheckCanceled, QueueCancel |
| sweep, observing client | TimeoutOverdueRun / CompleteObservedRun, completion |

A runner may end without having streamed values, whatever its outcome (the
client chooses the stream modes), and one whose agent raises reports `error`
without a terminal event (`RunRaises`).

Failures. `Crash` ends any handler between two calls; `CreateRunFails` (with the
row inserted or not), `EnqueueFails` (with the job arrived or not),
`GetJobFails`, `ReportTimesOut` are the error paths the code handles; the
rollback after a failed enqueue may lose its status write (`RollbackRunFails`) or
both writes (`RollbackContextDone`); `RunnerStops` and `LeaseExpires` are a dead
or slow runner. `FaultKinds` names the injected ones and `MaxFaults` bounds them.

### Connector

State: the breaker (`state`, `consecutiveFailures`, and `cooled` for "the
cooldown has passed since openedAt"), the cached token and its mutex, and the
calls. A breaker method is a critical section, hence atomic; a call is several
steps, and others run between its Allow and its Record. The outcome of a network
call is fixed when it is sent. `consecutiveFailures` saturates at the threshold,
which the code only compares with `>=`. `deployment` is the connector's
configuration: its auth type and the routes its callers use.
`halfOpenInFlight` is written but never read by the code, and has no variable.
A request the tool filter denies never reaches the breaker and is left out.
`fetches` is history: the `client_credentials` tokens fetched since the last one
expired.

## What the runs check

| run | instance | states | shows |
|---|---|---|---|
| `attempts` | 2 RPC slots, sweep and reaper, 2 generations, 1 failed GetJob or report given up | 0.8 M | `FencedCompletion`, `SuccessHasOutput`, `MergedOnce`, `AcceptedIsDurable`, `AttemptsAdvance`, `NotExecutedAgain`, `TerminalIsFinal`, and that the row implements `RunContract` |
| `failures` | 1 RPC slot, 2 reapers, 2 generations, 1 fault of any kind anywhere | 0.5 M | `TypeOK`, `SingleCopy`, `LeaseRetained`, `ThreadFollowsRun`, `RunContract` again |
| `cancel` | a cancelling or observing client, a runner, the reaper, 2 generations | 1.2 M | `CanceledIsTerminal`, `OutputOfWinner` |
| `settles` | 1 fault of any kind, fair | 0.1 M | `EventuallySettled` |
| `timeout_sweep` | 1 fault of any kind, only handlers and sweep fair | 0.1 M | `EventuallyTerminal` |
| `breaker` | 3 calls, threshold 2, every auth type and use of the routes, fair | 0.3 M | `HalfOpenHasTrial`, `ClosedBelowThreshold`, `FetchedOnce`, `StaticGuarded`, `TrialRecovers`, `TypeOK` |

The comment above each property in the module says what it means and which code
it is about.

Bounds. Two generations (`MaxRetries = 2`) give a superseded attempt, its
successor and the exhausted retry; a third generation repeats the relation
between the first two. Two bridge slots let the RPCs of the old and the new
runner overlap, and let a runner repeat a report while the first call is still
served; two sweeper slots are two reapers at once, as after the leader key has
expired. One fault is enough to stop any handler at any point, and the loops
then have to recover without another; it is also enough for a stale Nack, a
repeated report and a lost answer. `attempts` needs two bridge slots and
`failures` two sweepers, and to stay small each leaves out what the other has:
`attempts` has the faults that overlap RPCs, and `failures` no sweep and no
streamed values (`Streams = {}`). `attempts` lets runners report success only,
the one outcome with output; `cancel` has two outcomes, so that attempts
disagree. Slots are interchangeable, so the invariant runs use
symmetry over them; liveness runs do not. Three calls are an old call, a trial
and a second trial; threshold 2 distinguishes counting from opening at once.
`CHECK_DEADLOCK FALSE` in the run-lifecycle configurations: a settled run has
nothing left to do. The connector runs check deadlock.

Fairness. `FairSpec`: a handler that was started makes its next call (a
goroutine is scheduled); a runner gets on or stops; runners poll GetJob; the
reclaim ticker fires; leases age. A heartbeat may renew a lease at any time, so
a lease stays stale only once its runner has stopped. Nothing is assumed of
clients, cancellations or failures. `TimeoutSpec` drops the runners and the
reaper and adds the sweep's ticker. `Connector!FairSpec`: every network call
returns (the shared HTTP client has a 30 s timeout), time passes, and callers
keep coming; `healthy` means that from then on the upstreams answer, secrets
resolve and callers present their sso_token.

## Findings

Each is a run that must fail: the property states what a document or a comment
says and TLC shows what the code does. `PROJECT.json` quotes the lines.

| run | what the code does |
|---|---|
| `rollback_overwrites_terminal` | a failed enqueue rewrites a status that a cancel already committed |
| `rollback_under_dead_context` | the rollback runs under the request's dead context: run pending, thread busy |
| `rollback_frees_active_run` | the rollback ignores that its status write failed and releases the thread under a pending run |
| `lost_finalization` | a GetJob that read the row before a cancel committed acknowledges the lease that would have retried the bookkeeping |
| `exchange_resets_failures` | with token exchange, failing proxied MCP calls never open the breaker: each call's own token success resets the count |
| `proxied_trial_refuses_itself` | a proxied half-open trial that needs a token is refused by the breaker it holds and reopens it, as long as only proxied calls arrive |

The passing properties are stated around the run's findings where they must be:
`TerminalIsFinal` excepts `rollbackCreatedRun`; `ThreadFollowsRun` excepts an
active run whose creation gave its thread back (`unowned`: the rollback of
`rollback_frees_active_run`, or an INSERT whose COMMIT got through and whose
answer was lost, after which `createRunCtx` sets the thread idle); `LeaseRetained`
and `EventuallySettled` except a run in which the race of `lost_finalization`
happened (`discarded`). `StaticGuarded` and `TrialRecovers` are
`GuardsProxiedCall` and `BreakerRecovers` for the configurations in which a call
takes the breaker once.

A proxied call carries a session token from `GetSession`, which lives 15 minutes,
and a `GetSession` trial does close the breaker: "only proxied calls" lasts at
most that long for callers that renew their session.

`StaticGuarded` says that failing proxied calls open the breaker of an `api_key`
or `bearer` connector. `docs/connectors.md:81` and the tests of `mcpproxy` say
so; the sentence of `docs/connectors.md:161` that such a connector "never touches
a breaker -- they make no network calls to break on" is about token fetches, and
reads as a contradiction unless that is kept in mind.

The breaker does not know which call reports. A late success of a call admitted
before it opened closes it, and a late failure ends a half-open state whose trial
is still in flight; the properties of `breaker` hold with both.

## What is proved

All for every number of slots or calls, every `MaxRetries`, `MaxFaults` and
threshold, from the named assumptions of the modules only: slots are disjoint,
requests and outcomes are statuses the code knows, bounds are natural numbers,
`MaxRetries` is at least one (the default is 3; an explicit 0 means unlimited
retries, which no finite instance models), and so is the failure threshold
(`NewCircuitBreaker` replaces any other value by the default).

`RunLifecycle_proofs`, theorem `TypeCorrect`. `TypeOK` alone is not inductive: a
step that indexes `attempt` by a handler's generation needs to know that a
handler at that call has one, and a commit copies a status that was picked up
several calls before. `CallOK` says which operation can be at which call and what
its record then holds, in particular that a success is only presented for a
dispatched attempt (`Presents`); `TypeInv` is `TypeOK` with `CallOK` for every
handler, and an outcome for every terminal event in the log.

`RunSafety_proofs`: `CompletionIsFenced` (`FencedCompletion`), `JobExistsOnce`
(`SingleCopy`), `OutputIsOfWinner` (`OutputOfWinner`), `CheckpointedOnce`
(`MergedOnce`), `CancelMarksTerminal` (`CanceledIsTerminal`), `ThreadIsOwned`
(`ThreadFollowsRun`, with its exception), `TerminalStaysFinal`,
`AttemptsOnlyAdvance`, and `RowKeepsContract`: the row implements `RunContract`.
The proof first abstracts the forty actions: `RowSteps` reduces any step, on the
row, to a claim, a creation, a beginning, a commit, a rollback, a release or
nothing; `QueueSteps` does it for the queue and `PhaseSteps` for where a handler
can go. The invariant `SafetyInv` is then preserved by a handful of cases, and
each of the row's cases is a step of `RunContract`. `SafetyInv` adds to the
properties: nothing but the creator acts while the row is absent; there is one
creator, so one enqueue (without it `SingleCopy` is not inductive); a handler past
its commit has a terminal row (so the cancel marker can only be set then), and one
in its rollback an inserted one; output a handler captured before its commit
belongs to the attempt it names (`Captured`).

`Connector_proofs`, theorems `BreakerSafety`, `FetchesOnce`,
`StaticCallsGuarded`.
`BreakerInv` adds that a call is a trial only between its Allow and its report
(so a step of another kind cannot lose the trial), and for static credentials
that no call fetches and that the failed calls in a row never exceed the
breaker's count while it is closed. For `FetchesOnce` it adds that a call that
fetches holds the mutex and that no token is cached while it does. `CallStep` states once what a step of a
call must show; each action shows it.

Only model-checked: the liveness properties (fairness is outside the proof
system's reach), `LeaseRetained`, `AcceptedIsDurable`, `SuccessHasOutput` and
`NotExecutedAgain`.

## Not modelled

Several runs on one thread, run_id reuse and multitask strategies; cancel
watchers and the cancel bus (completion is safe without them: they only make a
runner stop sooner); the parts inside finalization (usage, hold, cache, hook),
which is one step here; broker subscriptions; the other stores (the SQL ones
complete runs through the same driver); every part of the inventory without a module.
Payloads, formats, authentication and configuration parsing are data that no
property tells apart.

## Plan

In this order; each module gets its MC module, runs and, where marked, proofs.

1. `JobQueue`: the abstract queue of one run (at most one copy, generations
   grow, nothing lost until acknowledged), and `RedisQueue`: the
   pending/drain/promote protocol of the Redis transport, one step per command,
   crashes between commands, refining `JobQueue` (proof: single copy).
2. `Finalization`: the parts of `finalizeCommittedRun` one by one (usage event,
   hold, cache, stream end, hook claim and bounded dispatch), with crash and
   retry; refines the one step of `RunLifecycle`.
3. `RunCreation`: several runs on a thread: claims, run_id reuse, admission
   counts, kill switches and drain (proof: one active run per thread).
4. `EventStream`: broker log, subscription, replay and tail; abstract
   specification: a prefix of the log, each event once.
5. `Cron`: fire claims of several replicas, release and catch-up (proof: one run
   per tick).
6. `UsageHolds`: holds, settlement and caps under concurrent runs.
7. `Delegation`: parent links, creation against the cancellation cascade.
8. `Policy`: overlay polling, decision cache, approvals and their single use.
9. `OpaqueCheckpoints`, `RateLimiter`, `ReclaimLeader`, `CancelBus`.

Runs: two replicas, two or three runs or keys, one crash, as above. Compositions:
`RunLifecycle` with `RunCreation` (a thread's next run starts as the last one
completes) and with `Finalization`.

Proofs to add to the existing modules: one runner per generation (the dispatch
invariant `AcceptedIsDurable` rests on), `AcceptedIsDurable`,
`SuccessHasOutput`, `NotExecutedAgain` and `LeaseRetained`.
