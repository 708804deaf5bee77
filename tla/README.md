# boxbox in TLA+

boxbox (`src/`) runs code for chat applications: a request gets a slot of a queue, a row in
`executions`, a warm Daytona sandbox, its input files from S3, and an answer; its output files go
back to S3 and the sandbox is destroyed. This directory models the parts of that program in which
several goroutines, a database, two remote services, crashes and cancelled requests meet. TLC checks
the models on small instances; every safety property it checks is also proved with TLAPS, for every
instance.

- [The system](#the-system)
- [Modules and how they correspond to the code](#modules-and-how-they-correspond-to-the-code)
- [Runs](#runs)
- [Fairness](#fairness)
- [Proofs](#proofs)
- [Findings](#findings)
- [What is not modelled](#what-is-not-modelled)
- [Plan](#plan)

To repeat a run: `tlc -workers 2 -config <cfg> <module>`; to repeat the proofs: `tlapm <module>.tla`.

## The system

| component | source | state | operations |
|---|---|---|---|
| Pool manager | `pool/manager.go` | rows of `sandbox_pool`, goroutines and their lists | startup (`cleanupOrphans`, `reconcileWithDaytona`), `scale`, `reap`, `checkHealth`, `createSandbox`, `ClaimSandbox`, `MarkExecuting`, `DeleteSandbox` |
| Database tables | `db/queries.go`, `db/models.go`, `db/migrations` | `sandbox_pool`, `executions` | one SQL statement per function, each its own transaction |
| Daytona client: sandboxes | `daytona/client.go` | none | create, get, list, start, delete, and their `AndVerify`/`AndWait` forms |
| Daytona client: rate-limit gate | `daytona/client.go` | `rateLimitedAt`, `retryAfter`, shared by all calls | `isRateLimited`, `setRateLimited`, `clearRateLimit`; `doWithRetry`; `Execute`, `UploadFile`, `DownloadFile` |
| Execution queue | `queue/queue.go` | a channel used as a semaphore, four counters, a closed flag and channel | `Acquire`, `Release`, `Close`, `GetMetrics` |
| Request handler | `server/handlers.go` | per request | `handleExecute` |
| Executor | `sandbox/executor.go` | per execution | `Execute`, `executeCode` |
| Syncer | `sandbox/syncer.go` | per execution: `synced`, `outputs` | `SyncToSandbox`, `SyncFromSandbox`, with one goroutine per file |
| S3 client | `s3/client.go` | the objects under `{user}/{chat}/` | list, download, upload |
| Rate limiter | `server/middleware.go` | a `sync.Map` of token buckets, one per user | `RateLimit`, `cleanup` |
| Other middleware | `server/middleware.go` | none | request IDs, API keys, logging, recovery, CORS |
| Server wiring and shutdown | `server/server.go`, `cmd/boxbox/main.go` | the signal's context, `stopCh`, the open database | `run`, `Start`, graceful shutdown |
| Configuration, database connection, image | `config`, `db/db.go`, `image` | none after startup | |

How they interact. `handleExecute` calls `queue.Acquire`, inserts the execution, calls
`pool.ClaimSandbox` and `MarkExecuting`, `executor.Execute`, `pool.DeleteSandbox`, and answers; the
deferred `Release` comes last. In front of it `RateLimit` takes a token from the user's bucket. The pool's three tickers and its creation and deletion goroutines work
on the same `sandbox_pool` rows as the handlers, with no lock and no version check: every
`UPDATE ... WHERE id = $n` overwrites whatever is there. Only `ClaimAvailableSandbox` looks at the state
of the row it takes. The executor and the syncer run in the handler's goroutine, under the context of
the request, which the client can cancel; executions of one chat share its S3 keys. Everything that
calls Daytona shares one `Client`, and with it the memory of the last 429. `run` in `main.go` starts the pool and
the server and takes them down in the opposite order: the queue is closed, `Shutdown` waits up to 30
seconds for requests, the pool's tickers are stopped and waited for, the database is closed.

What is hard, and what makes each part right:

- *pool*: many writers for a row, stale lists, lost answers, a crash between a Daytona call and the
  SQL statement that records it. A sandbox serves one execution; a used one never comes back and is
  destroyed; no row is stuck; the table and Daytona agree after a restart.
- *queue*: the channel, the counters and the flag are separate atomics. No slot is lost or invented on
  any of five ways out of `Acquire`; nobody enters late; `Close` lets nobody go on waiting.
- *rate-limit gate*: two variables that every call reads and writes with no order among answers. A limit
  that one call has been told of holds for all, though not against the answers to calls already under way; retries
  are bounded; the gate opens again.
- *rate limiter*: requests and the cleanup ticker race for the map, and for a bucket that is no longer in it.
  A user gets neither more nor less than one bucket kept for ever would give.
- *process*: slots, sandboxes, rows, tickers and the database come and go in an order. Slots bound the
  sandboxes in use, a graceful shutdown leaves nothing open, and every shutdown ends.
- *execution*: any of a dozen calls may fail, most failures are only logged. The row ends in the status
  the client was told; nothing reported is missing in S3; the inputs are there when the code starts;
  concurrent executions of a chat do not undo each other's files.

`PROJECT.json` lists the hazards one by one with the line where each bites.

## Modules and how they correspond to the code

```
SandboxDB      DaytonaCloud       SandboxLease     ExecutionLife                  Execution
     \             /               (what the pool   (what whoever --- implements --- /     \
      SandboxPool --- implements --- promises)       reads a row      ExecutionProofs  MCExecution
      /          \                          \         relies on)
SandboxPoolProofs  MCSandboxPool              \        /
                                                Boxbox ------ ExecQueue --- implements --- SlotSemaphore
                                                   |              |
                                             BoxboxProofs -- ExecQueueProofs

RateLimitGate             UserRateLimiter
      |                     /          \
RateLimitGateProofs  UserRateLimiterProofs  MCUserRateLimiter
```

**SandboxDB** is the table `sandbox_pool`. `daytona_id` is unique and rows are never removed, so the
table is a function from identifiers to `state`, `claimedBy` and `age`. Each operator is one function
of `queries.go`. `created_at` is an age class: young, older than the reaper's `maxAge`, older than the
TTL; `RowAges` lets time pass. `claimed_at`, `last_used_at`, `version` and `error_message` are written and
never read, and left out.

**DaytonaCloud** is the service as the client sees it: the state that Get and List report, the
effect of the calls, and what the service does by itself (finish a start, auto-stop, break). Those are
external; the client's predicates (`IsUsable`, `IsHealthy`, ...) are translated.

**SandboxPool** is the manager with the pool's part of `handleExecute`. A step is what an actor does up
to its next database or Daytona call.

| actor | variables | actions |
|---|---|---|
| startup | `boot`, `todo`, `seen`, `dropped` | `BootStart`, `CleanOrphan` (`DropOrphan`, `RecordOrphan`), `Reconcile`, `Adopt`, `BootDone` |
| scaler | `scaleQuota`, `scaleList` | `Scale`, `ScaleDownList`, `ScaleDownNext` |
| reaper | `reapNext`, `reapList` | `ReapStale`, `ReapFailed`, `ReapNext` |
| health checker | `healthList`, `condemned` | `HealthQuery`, `HealthGet`, `HealthDelete` |
| creator of a sandbox | `spawned`, `creator` | `CreateFails`, `Create`, `CreateLost`, `InsertRow`, `MarkWarming`, `CreatorStart`, `StartDone`, `StartFails` (`RecordUnstarted`, `DropUnstarted`), `MakeAvailable` |
| deletion goroutine | `deleters` | `DeleteAndVerify`, `DeleteExpires`, `RecordDeleted`, `RecordFailed` |
| request handler | `hpc`, `hsb`, `hatt`, `gone` | `Claim`, `ClaimFails`, `VerifyClaim`, `RejectClaim`, `WakeDone`, `WakeFails`, `MarkExecuting`, `FinishExecute`, `ClientLeaves` |
| everything | `crashes` | `Crash` |

A call fails only in an *outage* of its kind (`daytona`, `db`, or `deadline`: a Daytona call that outlives
the 60 seconds of its deletion's context), a span of time that the environment opens and closes, or, in
a handler, once its client has left. What failed may have been obeyed. A shutdown is `Crash` as well:
`Stop` waits for the tickers only, so creators, deletions and handlers that outlive
`Shutdown`'s 30 seconds end where they are. Two history variables name the cases the code gives up:
`forgot[s]` (the write that should have recorded an outcome failed) and `leaked[s]`
(`cleanupOrphans` recorded a deletion that had failed).

**SandboxLease** is what the pool promises: a sandbox is leased to one execution, which may enter it
once; a spent one never becomes fresh. `SandboxPool!SingleUse` is its specification under the mapping
`leaseOf` (from `claimed_by` and the progress of the handler).

**ExecQueue** is `queue.go`: one action per channel operation or atomic access that anything can observe.
The choice between several ready cases of the `select` in `Acquire` is free, as in Go. `late` is a history
variable: the request called `Acquire` after `Close` had returned. Its properties are checked in the
process it belongs to, by the run of `Boxbox`, whose requests take its actions as they are.

**SlotSemaphore** is what the queue promises its callers: a counting semaphore that can be shut. `ExecQueue!BoundedSlots` is its
specification under `placeOf`, which puts a request outside, waiting, inside or gone; the flag `closed` is the door.

**Execution** is the rest of `handleExecute` with `Execute`, `executeCode`, the syncer, the `executions`
table and the objects of one chat. The handler's place is `pc`; `status` and `exitCode` are its row;
`todo` holds the transfers that have not ended, each of which is a goroutine with an action of its
own (`SyncFileToSandbox`, `SyncFileFromSandbox`). The content of a file is its origin: the user, or the
execution and the directory it was written in. `Objects` and `Upload` are the calls of `s3/client.go`. `RunCode` writes any set of files, which includes
the upload of the code itself. A call may fail, obeyed or not, at most `MaxFaults` times, and at will
once the client has left. Two decisions of the code are worth knowing. `SyncToSandbox` joins its errors as strings, so the
`errors.Is` tests at `executor.go:88` and `:91` are never true and the code runs after any
failure of the inputs: `SyncedIn` has no error branch. And the syncer reads an object when it transfers
it, not when it lists it: another execution may have written it in between.

The history variable `unsaved[e]` names the paths on which the row may stay short of its end: `CreateExecution`
or `CompleteExecution` failed, the process died, or the UPDATE that links the sandbox failed: Execute
then returns (`executor.go:78`) and nobody completes the row, which keeps the status `pending`.

**ExecutionLife** is what the table `executions` promises to whoever reads it: a row is opened when the work on a
request begins, stays open while it lasts, says how it ended in the step that ends it, and never changes again; it stays
short of its end only if a write failed or the process died. `Execution!KeepsLife` is its specification under a
mapping that takes the four statuses between `pending` and the end for one open row (`rowOf`) and the handler's twelve places for four
(`lifeOf`).

**Boxbox** is the process. It EXTENDS `ExecQueue` and takes each of its actions as one of its own, adds what a handler does
between `Acquire` and `Release`, and uses the pool through its promise only: a claim, an
execution and a deletion are the actions `Lease`, `Enter` and `Spend` of `SandboxLease`, which `SandboxPool` has been
shown to implement. What the code does for one execution in `Execution` is here the row of the database, open or
ended, that `ExecutionLife` promises.

| actor | variables | actions |
|---|---|---|
| request handler | those of `ExecQueue`, `stage`, `row`, `lease`, `holder` | `AcquireStep`, `CreateExecution`, `CreateExecutionFails`, `ClaimSandbox`, `ClaimSandboxFails`, `Execute`, `CompleteExecution`, `DeleteSandbox`, `ReleaseStep` |
| tickers of the pool | `worker` | `TickerFires`, `PassEnds`, `WorkerReturns` |
| `run` and `Start` | `main`, `cancelled`, `stopCh`, `dbOpen` | `Signal`, `ShutDown`, `ServeFails`, `CloseQueue`, `Drain`, `DrainTimeout`, `StopPool`, `WaitWorkers`, `CloseDatabase`, `Exit` |

`unsaved[r]` says that the last write of r's row failed, and whether the database was still open to take it; a failed
write may have been obeyed (`WriteFails`), as in `Execution`. `hasty` says that the handlers were not waited for: the 30
seconds of `Shutdown` passed, or `ListenAndServe` failed and `Start` returned at once. One modelling assumption: the 30 seconds do not
pass while a goroutine is between two steps of the queue (`Settled`); they may while it waits or while a
handler runs.

**RateLimitGate** is the memory of a 429 in `client.go` and the calls that share it. A control call goes through
`doWithRetry`; a toolbox call (`Execute`, `UploadFile`, `DownloadFile`) sends one request; the table of who
looks at the gate, sets it and clears it, per outcome, is `Handle`. Times are what is left of them, counted down by `Tick`.
What a call is answered, and when, is external and unconstrained: two services share the one memory (the API and the toolbox
proxy, `client.go:114-115`), so a call may be served, or get a 404 or a 502, while another is being refused; `doWithRetry` lets any such answer
clear the limit (`client.go:673`), a toolbox call only a success. A limit in force can therefore be wiped. `LimitKept` says by whom: by a call that was under way when
the gate shut, never by one begun since, nor by an error of the transport. `LimitedTraffic` counts from the refusal that shuts the gate
until it opens, for whatever reason it does, and makes no claim about a service that refuses after a wiped limit.
`overlap` (the calls under way since before the gate shut) and `sent` (the requests sent since) are history, written by `Record`
in every action and read by none.

**UserRateLimiter** is the limiter of `middleware.go`. A request first gets a limiter from the map (`Load`, `Store`) and
then asks it (`Admit`, `Refuse`); cleanup looks at a bucket (`Visit`) and then deletes the entry (`Delete`);
between the two steps of either, the other may do anything. Addresses of limiters are reused once nothing
reaches them. The reference is `allowance`: the bucket the user would have if none were
ever dropped. `stray` counts what was admitted from a bucket that cleanup had already judged, or dropped,
until the reference is as full without it.

**MCSandboxPool** and **MCExecution** add the symmetry sets, which are used in runs of safety properties only;
**MCUserRateLimiter** says whose the requests are. Operators marked `Mutation:` are
plausible bugs of the definition that follows; they take no part in the specification and serve to
show that each property can fail.

## Runs

| run | what is in it | what it shows |
|---|---|---|
| `pool_safety` | 1 sandbox, 2 executions, every worker, scaling up and down, one outage of any kind or a leaving client, a crash | `HolderOwns`, `NeverReused`, `BusyIsOwned`, `DeletedIsGone`, `ReconcileTracks`, `StartupCleans`, and that the pool implements the lease |
| `pool_claims` | 2 sandboxes, 1 execution, 2 attempts, scaler (up and down) and reaper | `ClaimSandbox` goes through several sandboxes and leaves none behind (`ClaimedIsHeld`), `TypeOK` |
| `pool_liveness` | 1 sandbox, 1 execution, all faults, a crash, fairness | `UsedIsDestroyed`, `RowSettles` |
| `pool_expiry` | violation | `DestroyedAfterUse` fails (see Findings) |
| `pool_reaping` | violation | `StaleIsStuck` fails |
| `boxbox` | 2 requests, 1 slot, 2 sandboxes, 2 tickers, a signal or a failing listener at any point, fairness | of the queue: `SlotsMatch`, `MetricsMatch`, `LateRefused`; of the process: `BoxTypeOK`, `SlotsBoundLeases`, `GracefulIsClean`, `WorkersStopped`, `NobodyLeftWaiting`, `ShutdownEnds`; that the queue implements its semaphore (`BoundedSlots`) |
| `rate_limit_gate` | 2 control calls with 2 retries, 1 toolbox call, any answer at any time, waits of up to 3 seconds, fairness | `TypeOK`, `LimitedTraffic`, `LimitKept`, `GateDrains`, `CallReturns`, `GateReopens` |
| `user_rate_limiter` | 2 requests of a user, 1 of another, buckets of 2, cleanup, fairness | `TypeOK`, `NoSecondBurst`, `NoWrongRefusal`, `InactiveForgotten` |
| `execution_row` | 1 execution, 2 files one of which is an output, 2 faults, a leaving client, a crash | `ReplyMatchesRow`, `AnsweredHasEnded`, `InputsArrive`, `NewFilesSynced`, `RowEnds`, and that the handler implements the life of its row (`KeepsLife`) |
| `execution_chat` | 2 executions, 1 shared object, 2 faults | `ReportedIsStored`, `NeverReverts` |
| `execution_modified` | violation | `ModifiedFilesSynced` fails |
| `execution_exit` | violation | `ExitCodeTells` fails |

Bounds, and why they are enough:

- *Pool.* What can go wrong with a row involves one sandbox and the actors that write its row, so one
  identifier with two executions and every worker covers the races; a second execution is needed
  to claim twice. Two sandboxes are needed only for `ClaimSandbox`'s loop and for batches, which
  `pool_claims` has. One outage of an arbitrary length, at an arbitrary time, makes any set of
  calls inside it fail, and one crash at any point exercises the startup on every intermediate
  state. `MaxSpawned` and `MaxDeleters` count goroutines that would otherwise pile up without a
  limit: a caller of `DeleteSandbox` has to wait for a deletion of the same sandbox to end when
  `MaxDeleters` are in flight; `pool_safety` allows two at once, so that two writers race for the row.
  `HealthBatch = 0` turns the health checker off in the two runs where it would only multiply
  states. `pool_safety` and `pool_liveness` set `POOL_MAX_WARM` below `POOL_MIN_WARM`, which
  `config.go` accepts: it is how scaling down, and its stale list, is reached with a single sandbox. `pool_claims` reaches it with
  both of its sandboxes available and `POOL_MAX_WARM` one.
- *Process.* With one slot, one request can run while the other waits, is let in, refused, or cancelled;
  the counters are never decided upon, so more requests add no new case. Two sandboxes leave room for a claim that should not
  have been made, or whose answer is lost; two tickers let one be stopped while the other is in a pass.
- *Gate.* Two control calls and a toolbox call give every pair of answers in either order; two retries reach the
  last attempt from a backoff that is longer than a second. `MaxWait` 2 and
  `DefaultWait` 3 let a refusal leave the gate open (a `Retry-After` of 0), shut it for less or more than the next backoff, or take time off
  an earlier limit.
- *Limiter.* Two requests of one user race each other and cleanup, one of another user shares nothing
  with them. Five addresses: one per entry of the map and one per request. Buckets of two tokens can be full, empty or neither.
  `MaxStray = 0` bounds how long the race with cleanup can be drawn out: cleanup leaves a user alone whose last stray
  admission is still missing from the reference. An admission can be stray under this bound, and two of them at once.
- *Execution.* Rows of different executions never meet, so one execution is enough for them, with
  two faults: one to lose a call and one for the call that should repair it. Two files
  exercise the parallel transfers, one whose name `isOutputFile` rejects. Executions meet in the objects, where names
  are independent of each other: two executions and one name.

`CHECK_DEADLOCK FALSE` is set where the system may stop: the process exits, and all executions have been answered.
The pool, the gate and the limiter never stop.

## Fairness

Only what the Go runtime or the environment guarantees:

- a goroutine that can run runs: creators, deletions, handlers, tickers, a deferred decrement, `run`. In `Execution` this
  includes that every call ends, with a result or an error: they all run under a context with a deadline or through an HTTP
  client with a timeout. In `Boxbox` it does not include the handlers: an execution may outlast everything;
- in `Boxbox`, strong fairness of `WorkerReturns`: the `select` of a ticker that finds both its tick and the closed
  channel ready may take the tick, but not for ever. Weak fairness of the end of a pass, since each of its calls has a
  timeout, and of `DrainTimeout`, which is the context of `Shutdown`;
- in `RateLimitGate`, a request ends (`httpClient.Timeout`), in whatever way, and time passes;
- in `UserRateLimiter`, the ticker fires, `Range` comes to every key, a request that has its limiter goes on, and time passes;
- in the pool, the process is restarted when it dies (`Boot`), an outage ends (`OutageEnds`), rows grow old, and a start
  Daytona has begun comes to an end, good or bad;
- not assumed: that anybody calls the service, that `Create` ever succeeds, that code ends
  by itself, that a client leaves, that a queue timer fires, that a signal comes, that a service stops refusing or answers any two calls alike.

## Proofs

All hold for any sets of sandboxes, executions, requests, files, callers and users and any values of the bounds,
under the assumptions named in the modules. They say that sentinels differ from values and kinds of callers from each other
(`NoExecAssumption`, `NoSandboxAssumption`, `ContentAssumption`, `LimiterAssumption`, `CallersAssumption`), that sets are finite or contained in
one another and functions defined (`SandboxAssumption`, `FaultsAssumption`, `FilesAssumption`, `RequestAssumption`, `UserAssumption`), and that bounds are natural
numbers (`BoundsAssumption`, `MaxConcurrentAssumption`, `FaultBoundsAssumption`, `TimesAssumption`, `BurstAssumption`). `PowersAssumption`
says that powers of two are natural numbers, for which the provers have no rule; TLC evaluates it.

**SandboxPoolProofs.** `TypeCorrect` needs `HoldersHold` (a handler that holds a sandbox holds a
real one), so types and `UseInv` are proved together. `UseInv` strengthens `HolderOwns` and `NeverReused` with what
makes them inductive: the sandbox of a creator was never claimed, an identifier Daytona has not handed out has no
row, and during the startup nobody else runs. The argument: `claimed_by` is only written by a claim, a claim needs
`available`, and `available` is only written for a row nobody has claimed — by its creator, or by the
import, which inserts nothing when there is a row. From it follow `SingleUseHolds` (the
refinement: every step is a step of the lease or leaves it alone), `BusyIsOwnedHolds` (with `OwnedInv`: also what the startup is
still going to clean) and, from an invariant of its own (`DestroyInv`: gone is for good, a
deletion past its call has destroyed its sandbox), `DeletedIsGoneHolds`. `ClaimedIsHeldHolds` rests on `HeldInv`: until a call fails, a
claimed row has its holder, or the startup, which has it on its list. `ReconcileTracksHolds` rests on `TrackInv`: while `reconcileWithDaytona` works
through its list, what lives and is neither known nor given up is still on it; a row that was there before the import says "deleted" only
of what is gone or leaked, which is why `DestroyInv` is needed again. `StartupCleansHolds` rests on `CleanInv`: during the pass of
`cleanupOrphans` every row some life was at work on is still on its list. Three theorems go beyond what the runs check by name:
`UsedIsAttended` combines four of the invariants into the safety half of "destroyed after use" (a used sandbox is gone or
some actor is responsible for it, or it is one of the named exceptions), `RequestsProgress` gives each handler a bound that every step of its
own lowers, so that `ClaimSandbox` cannot go round in circles, and `UndisturbedPool` says that none of the exceptions occurs
before the first outage or crash (`CalmInv`).

**ExecQueueProofs.** `QueueInv` ties the semaphore and each counter to the number of requests at the
places where they are counted; `MoveIn`, `MoveOut` and `MoveAside` say how such a number changes with one move.
`QueueTypeCorrect`, `SlotsMatchHolds`, `MetricsMatchHolds`, `LateRefusedHolds`, and `BoundedSlotsHolds`, the refinement of `SlotSemaphore`: a
send on the channel is an admission because the tokens are as many as those inside.

**ExecutionProofs.** `TypeCorrect` in three parts (row, handler, files). `RowInv` says that a handler
that has answered left its row as it told the client, or the history says that the last write
failed: `ReplyMatchesRowHolds`, `AnsweredHasEndedHolds`. `ChatInv` describes what `SyncFromSandbox` is about to upload:
a file that is there, and the user's own copy only if its name is not in `syncedFiles`, which, as
long as nothing failed, never happens: `ReportedIsStoredHolds`, `NeverRevertsHolds`. A second invariant follows the files through a handler, in both directions, until
something fails: a requested object is in the sandbox or its transfer has not ended, a new file is reported or its upload has not
ended (`InputsArriveHolds`, `NewFilesSyncedHolds`). `KeepsLifeHolds` is the refinement of `ExecutionLife`, from `LifeInv` (there is
no row before the INSERT, and an open one for as long as the handler is at work); it needs each step of a handler sorted into the four
that move the life on (`LifeCases`) and `Crash` as the death of every request at work. `TerminalIsFinal` follows: no late write rewrites an ended row.
`UndisturbedExecution` is `ReplyMatchesRow` and `AnsweredHasEnded` without their exception. `ExecutionsAdvance` is the safety half of
`RowEnds`: every step of a handler moves it to a later phase or ends one of the finitely many transfers of its phase, and nobody sets it back.

**BoxboxProofs.** `UsesQueue`: every behaviour of the process is one of `ExecQueue`, so `QueueInv` and the three theorems above hold in it;
`UsesLeases`: its handlers use sandboxes as `SandboxLease` allows; `UsesLives`: they treat their rows as `ExecutionLife` says. With `SingleUseHolds`
and `KeepsLifeHolds`, the pool and the executor implement the very specifications that `Boxbox` puts in their place. `BoxInv` ties the stage of a handler to its place in the queue and to the sandbox it holds,
each sandbox in use to a different holder of a slot, and each place of `run` to what has ended before it. With the count
of `QueueInv`, this bounds the sandboxes in use (`SlotsBoundLeasesHolds`); `GracefulIsCleanHolds`, `WorkersStoppedHolds`,
`NobodyLeftWaitingHolds` are the parts about the shutdown.

**RateLimitGateProofs.** Nobody begins a call while the gate is shut, so whoever is under way then was so before (`OverlapInv`): with the case
analysis of what each answer does to the memory, `LimitKeptThm`. Each request sent since the gate shut is one of the counted attempts of its
call (`Allowance`), and attempts are bounded (`Attempts`): `LimitedTrafficThm`. Neither assumes anything of the services. `GateDrainsThm` is the safety half of `GateReopens`: `Remaining` counts the steps
a call has left, each step of a call lowers it (`CallShrinks`), and while the gate is shut nobody begins one, so only so many answers can
prolong it.

**UserRateLimiterProofs.** `BucketInv`: no limiter is shared by two users, in the map or in a request; each holds at least what the reference of its user does
(`NoWrongRefusalThm`); and a user whose limiter is about to be deleted lacks no more of a full reference than is counted as stray
(`NoSecondBurstThm`). Together they make the buckets exact for a user with no stray admission (`SeenBucketIsExact`).

Only model-checked: the liveness properties (`UsedIsDestroyed`, `RowSettles`, `RowEnds`, `ShutdownEnds`, `CallReturns`, `GateReopens`,
`InactiveForgotten`), which are beyond the prover because of fairness and ENABLED. Of three of them the part that needs no
fairness is proved: `UsedIsAttended` (somebody has the sandbox in hand), `ExecutionsAdvance` and `GateDrainsThm` (each step is progress).

## Findings

1. *A deletion that expires is forgotten* (`pool_expiry`). When the 60-second context of `DeleteSandbox`
   ends, the `UPDATE` to `failed` at `manager.go:187` runs under the same context and fails. The row
   stays `deleting`, which no ticker queries; the used sandbox lives until the next start of the
   process. `UsedIsDestroyed` is the promise that does hold, with this exception named.
2. *The reaper takes sandboxes from live handlers* (`pool_reaping`). `GetStaleSandboxes`
   (`queries.go:185`) compares `created_at`, not `claimed_at`: a sandbox that waited five minutes in the pool is "stuck in a
   transient state" the moment it is claimed.
3. *Modified inputs are lost* (`execution_modified`). `README.md:28` promises "New/modified files are synced"; `syncer.go:152` skips
   every name that was synced in.
4. *Exit code 0 for what failed* (`execution_exit`). After a timeout or a failed call the answer carries
   `exit_code` 0 (`executor.go:130`), which the example client in `README.md:163` takes for success.

## What is not modelled

- The columns of the tables that nothing reads back, log counters, metrics text, stdout and stderr, durations,
  media types, presigned URLs, paging of lists.
- The validation of request bodies and the other middleware (API keys, CORS, request IDs, logging, recovery): they keep no state and only reject or pass on.
- `UpdateExecutionInputFiles`: it fills one JSON column that no code reads.
- The worker semaphores of the syncer: they bound how many transfers run at once, and any number is allowed here.
- Files in subdirectories: both listings of `SyncFromSandbox` look one directory deep and skip the rest.
- The client's `Init`, snapshot and image building calls, configuration loading, the connection pool, migrations, the Dockerfile: run once, before anything here starts.
- The exceptions the code makes and the properties name: `forgot`, `leaked` (pool), `unsaved` (row), `hasty` (shutdown), `stray` (limiter).
  What happens in these cases is in the models; the properties promise nothing of it.
- Routes and the time limits of `http.Server`: after `WriteTimeout` (ten minutes) the handler runs on and only its answer is lost.

## Plan

The order was: the pool (most actors, crashes, outages), the queue, the execution, the gate and the limiter, and the process that
composes them. What is left, in the order of what it would add:

1. The gate inside the pool: while it is closed, creations and deletions fail at once and together; `Faults` now lets them fail
   at any time in an outage, which includes this.
2. Liveness of the reconciliation under repeated crashes: that `forgot` rows are found by the next startup that runs without a fault.
   `StartupCleansHolds` is its safety half.
