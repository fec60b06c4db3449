# A verification project for UncleCode

TLA+ models of the parts of UncleCode whose correctness depends on the order of
things, the TLC configurations that check them, and theorems about them that TLAPS
checks. `PROJECT.json` is the machine-readable index: components, runs, mutants, the
map from definitions to source lines, findings, hazards and theorems.

    tlc -workers 2 -config MCArbiterLanes.cfg MCMutationArbiter    # a run
    tlapm MutationArbiterProofs.tla                                # the proofs of a module

## 1. The system

UncleCode is a coding agent: a TypeScript monorepo (terminal shell, orchestrator, a
persistent *runtime owner* process with an HTTP server, a web control room) and a
Rust core for command-line work, sessions, queues and team runs. One owner process per
user holds the live Work Shell engines; the terminal, the web page and other
processes reach them through RPC and server-sent events. An engine runs one turn at
a time; a complex turn is planned into a graph of tasks that executor agents work
on in parallel.

| Component (source) | State it keeps | Operations | What makes it correct |
|---|---|---|---|
| Mutation arbiter (`apps/unclecode-server/src/runtime-mutation-arbiter.ts`) | revision clock, admission chain, normal lane, cancel tail, receipts by idempotency key, active generations | `mutate`, `publishAutonomous`, `publishDurable` | one execution per key, one normal mutation at a time, cancels first, every call answered |
| Runtime ledger (`runtime-ledger.ts`, SQLite) | per session: accepted revision, receipts, events, watermark | admit, complete, reopen, recover, seed; append, replay | revisions distinct, outcomes final, replay whole or refused |
| Live engine registry (`runtime-engine-rpc.ts`, the factory of `runtime-owner.ts`, the controls of `persistent-runtime.ts`) | engines, creations in flight, reservations, teardowns, orphans; the control room's own table of the same sessions | `create`, `invoke`, `releaseSession`, eviction and sweep, `disposeAll` | capacity kept and never leaked, both tables agree, no teardown fails in silence, a stop ends; right lane and revision per method |
| Event journals (`event-journal.ts`) | bounded ring, watermarks, listeners | publish, replay, subscribeAfter | no gap between replay and live delivery |
| HTTP server (`index.ts`) | open streams | openEventStream, routes | a slow client is cut off, never skipped |
| Control room store (`apps/godness-web/src/control-room-store.js`) | cursor per session, projection, connection | load, connect, discover, select | what is shown catches up |
| Owner discovery and election (`runtime-owner-discovery.ts`, `runtime-owner.ts`, `apps/unclecode-cli/src/runtime-owner-launcher.ts`) | lease file, lock file, owner processes | `ensureRuntimeOwner`, spawn and reap, lease watch, stop | one owner has the ledger open, and clients find that one |
| Pause controller (`packages/orchestrator/src/work-shell-pause-controller.ts`) | snapshot, acknowledgement, transition, running operations | checkpoint, runNonInterruptible, requestPause, resume, cancel, beginTurn, complete | an acknowledged pause is durable and quiet; nobody waits for ever |
| Work Shell engine (`work-shell-engine.ts`) | turn epoch, busy flag, claims of follow-ups, lifecycle flags | submit, interruptTurn, requestTurnPause, drainQueuedSubmits, shutdown, dispose, initialize | turns do not overlap; a follow-up runs once and is not lost |
| Session queue of the Rust core (`rust/unclecode-core/src/queue.rs`, `steer.rs`) | the queue file and its lock | push, claim, ack, nack, quarantine, recover, retry, discard, remove, clear; drain decisions | a claim has one holder |
| Task scheduler (`turn-orchestrator.ts`) and file claims (`file-ownership-registry.ts`) | pending, successful, failed tasks; owner of each path | runGoalTaskExecutorPool, runBoundedExecutorPool, claimAll | dependencies first, writers disjoint, every job settles |
| Agent run controller (`work-agent-run-controller.ts`) | planned jobs, permits and waiters, active runs, mailboxes, the shared agent's queue | runTask, steer, cancel, continueRun, clear | permits exact, ceiling kept, jobs settle once, no guidance lost |
| Evolution runtime (`evolution-runtime.ts`, `evolution-git-host.ts`) | candidate branch and worktree, baseline, preparation journal, record, lifecycle lock | run, verifyFresh; prepare, seal, cleanup, record; acquire and release of the lock | what is called ready is what was evaluated; a record is final; what is left on disk is known |
| Native team runs (`rust/unclecode/src/cli_team.rs`, `cli_team_background.rs`, `rust/unclecode-core/src/team_runtime.rs`) | run directory: checkpoint log, `.tip`, append lock, job file; coordinator and workers | run, background, abort, append, verify | the log is a chain, with named exceptions; a verdict covers the work of all workers |
| TypeScript team runner, mini-loop (`team-runner.ts` and others), disk ownership (`disk-ownership-registry.ts`) | run directories, lock files | claim, sweep, envelopes | stale locks only are removed |
| Quality runtime (`quality-runtime.ts`, and `runTurnInEpoch` of `work-agent.ts`) | iteration state of one turn: phase, graph, packet, verdict, findings, budgets | plan, run the nodes, review, synthesise, complete; refine, pivot, block | nothing proceeds that was not reviewed as it is; no objection is forgotten; the loops end |
| Session store, snapshots, admission ledger | transcript and queue files | atomic writes | a crash loses nothing acknowledged |
| Providers, tools, TUI, contracts, config, policy, context broker, memory bus, agentops-db, hosts and bridges | - | I/O, rendering, tables, data selection | no protocol of their own |

Interactions. Clients find the owner through the lease that `OwnerElection` is about;
`invoke` (RPC) picks a lane and calls `mutate`; the arbiter admits
against the ledger and runs the engine method; engine changes move the clock
(`publishAutonomous`) and append events to the ledger-backed journal, whose listeners
are the HTTP streams the web store reads. An engine's submit runs a turn through the
pause controller's checkpoints; a submit that finds the engine busy is pushed to the
session queue and drained after the turn. A complex turn goes through the scheduler, whose
workers offer tasks to the run controller, which charges permits and runs executor
agents inside the pause controller's non-interruptible operations. An interrupt
enters at the engine, cancels the pause controller and aborts the turn's signal.
Evolution runs and team runs are started from the engine or the command line and live on
disk: their processes share files and nothing else.

What is hard: JavaScript's awaits split nearly every operation, so a check and its
use are separated (precondition, checkpoint write, permit wait, queue command); every
process may crash between an effect and its record; clients retry with the same key and
reconnect with old cursors; locks are files that are removed by path; several bounded
tables evict. The hazards are listed with their lines in `PROJECT.json`.

## 2. Modules

| Module | Models | Notes |
|---|---|---|
| `RuntimeLedger` | receipts and accepted revisions of one session of the ledger | also instantiated by the arbiter |
| `CommandLog` | abstract: what the owner promises of a command | begun once, ended once, callers told that outcome or none |
| `PlanExecution` | abstract: what the execution of an accepted plan promises | begun once and when due, apart from other writers, ended once, judged once |
| `MutationArbiter` | arbiters, their calls, the ledger they share, `invoke` | generations = arbiter objects; a restart, a re-created session and a second owner each add one |
| `OwnerElection` | clients, their claims of the lock, the lease, owner processes | composes discovery, launcher and owner |
| `EventJournal` | the in-memory journal over several sessions | eviction and the bounded watermark table |
| `EventStream` | ledger events, subscription, socket, web store, for one session | composes four components |
| `PauseController` | pause controller and the engine's turns | flows of a turn, checkpoint writes that take time or fail |
| `FollowUpQueue` | the engine's submits and drains over the queue of the Rust core | queue commands run in another process |
| `WorkGraph` | scheduler, workers, file claims, run controller, interrupt and clear | composes five components |
| `LifecycleLock` | the directory lock of an evolution run | each file operation a step |
| `CreatorEvolution` | one evolution run over a Git workspace | crash at every await; failing host calls; edits from outside |
| `TeamLog` | the append lock, the hash chain and `.tip` of a team run | each file operation a step; every write may fail |
| `TeamRun` | coordinator, workers, launcher, `team abort`, the job file | extends `TeamLog` |
| `SessionRegistry` | the engines of an owner from creation to teardown, the control room's table beside it | a call of `create` names the engine it makes |
| `QualityRun` | one turn of the work agent through plan, workers, review and completion | files by whether they changed since the baseline and since the packet |
| `*Proofs` | theorems about the module they are named after (`RuntimeStoresProofs`: ledger, journal, lifecycle lock, evolution run; `OwnerServicesProofs`: owner election, session registry, event stream) | section 6 |
| `MC*` | instances for TLC | section 3 |

How the models read. The JavaScript between two awaits, and the Rust between two file
operations that others see, is one action; an action
that only resolves promises whose continuations nothing can come before is merged
with them. Each module's header says what is abstracted. A definition commented
*Slip* is a plausible mistake in the definition that follows it; nothing uses it. A
variable or field commented *history* records what happened and is read only by
properties - except bounds, which are named `Max...` and appear in guards.

**`MutationArbiter`.** A request is one call of `mutate()`: *queued* on the admission
chain, *checked* (its revision passed and the precondition is awaited), *admitted*,
*armed* (it has awaited the cancel tail), *running*, *answered*; *refused* waits for its
turn in the lane to answer; *joined* shares the promise of an earlier call with its
key. `AdmissionStep` is the body of the admission continuation: `Replay`,
`StalePreemptiveCancel`, `Conflict`, `AwaitPrecondition`/`Decline`, `Admit`, and
`AdmissionFault` when a ledger call throws. `TakeBarrier`, `Start` and `Finish` are
`runAdmitted` and `execute`. The fingerprint is the operation and the revision the
client saw. `Recreate`, `Restart`, `Split` make new generations over the same rows;
only a restart kills the processes before it.

**`OwnerElection`.** `pc` is where a client is in `ensureRuntimeOwner`: it reads and
classifies the lease, creates the lock, writes its claim, reads the lease again, spawns an
owner and waits for its lease; or it inspects, compares and unlinks a lock it takes for dead.
An owner is unborn, *booting* (its ledger is not open yet), *open*, *serving* (its lease is
published), *stopping*, *closed*, gone. `causes` (history) names what may split the ownership: a
claim taken from a live claimant, a live owner misread as dead, a child that was left
behind while booting.

**`EventStream`.** `Publish` appends, prunes and fans out in one transaction and a
synchronous loop, as `LedgerBackedEventJournal.publish` does; it may find a stalled
socket, which is destroyed. `OpenStream` is `subscribeAfter`: subscription and replay
have no await between them. The client reads its wire one event at a time.

**`PauseController`.** A transition is one pausing checkpoint: its write is
*persisting* until `PersistSettles`, then *suspended* on the gate. Flows that reach a
checkpoint meanwhile join it. `Submit`, `Begin`, `Interrupt`, `Finish`, `Close` are the
engine's side.

**`FollowUpQueue`.** A call of the engine is a record with a program counter and the stack of
follow-ups it has claimed (`held`), because a drain runs `handleSubmit`, whose tail drains.
A queue decision reads its arguments in one step, the queue file in another (`Load`) and
uses the answer in a third. `fate` (history) says of each follow-up whether its turn ran, it was
diverted, discarded or put back, and whether an id was given again that a drain still held.

**`WorkGraph`.** `pool` is the scheduler's loop, `worker` the executors of one wave, which
go on when the pool has thrown; `run` is the run controller's side of each task and
continuation, from *offered* through *parked* or *granted* permits to *preparing* (awaiting
an executor or the shared agent) and *turn*. The pause controller appears as
checkpoints that pass or throw: they throw once the turn was interrupted, and up to
`MaxFaults` times because a checkpoint could not be written.
`PlanExecution` knows tasks only. A task has *begun* there when its run was opened, is *writing*
in a provider turn, *closed* when its job has a terminal record, and has a *verdict* when the
scheduler was told; everything else of `WorkGraph` is invisible to it.

**`LifecycleLock`, `CreatorEvolution`.** The lock is renamed into place and away, so a claim, a
take-over and a release are several steps each; `races` (history) names the take-overs that moved
another lock than the one judged. `CreatorEvolution` takes the lock to exclude other processes and
follows one call through load, prepare, run of the creator, seal, evaluation, cleanup and
record; `disk` is what a crash leaves.

**`TeamLog`, `TeamRun`.** `writer` is where each process is in `append_team_checkpoint`. A line
carries the position of the line it was appended to, as its hash does, and is *whole*, *cut* by a
write that failed, or *glued* to one that was cut. `rifts` (history) names what may break the chain:
`untipped`, a writer added its line and died before, or could not open, `.tip`, which names an earlier
line; `torn`, a line was cut short; `unlocked`, the lock of a live writer was removed. A process that
is told of a failed append leaves with that error. `TeamRun` gives the writers their reasons: start
and dispatch of the run, tool calls and results of the workers, the coordinator's verdict,
an abort. `job` is `background-job.json`.

**`SessionRegistry`.** An engine is made by one call of `create` and named after it; `stage` is how far
it has come, up to the teardown that shuts it down, lets its arbiter settle and disposes it. A
teardown that takes too long goes on as an orphan (`late`), and while there is one no session is
admitted. `told` and `complaints` are the failures that a release and `disposeAll` have passed on.

**`QualityRun`.** `phase` is the await that the turn is at, `step` where each node of the graph
is. A decision of a hook or a critic is ruled on by `Rules`, which is `QualityRuntime.decide` with
its limits. `changed` and `since` say which paths were written since the baseline of the
review was captured and since the packet under review was made; writes of workers and edits from outside
may come at any moment. `said` (history) holds the objections that nothing has met yet.

## 3. Runs

| Run | Asks | Instance | States |
|---|---|---|---|
| `stores` | receipts, replay ring, lifecycle lock, evolution run, team run | five instances side by side, below | 1.79M |
| `services` | the event stream and its reader; the registry of engines | two instances side by side | 382k |
| `arbiter_lanes` | order in the normal lane, cancel barrier, activity counters | 3 calls, 2 keys, submit/cancel/view/setMode/pause | 392k |
| `arbiter_faults` | crash, retry, second owner, re-created session, ledger faults; refines `CommandLog`; every call comes to an end | 2 calls of one key, 2 generations, submit/cancel/steer | 128k |
| `owners_queue` | one owner serves and is the published one, splits heal; follow-ups are kept and not run again, calls return | two instances side by side | 294k |
| `shell` | pauses are quiet and answered, turns apart, interrupts final; what proceeds was reviewed, no objection is lost, the loops end | two instances side by side | 394k |
| `workgraph` | writers apart, jobs settle once, guidance spent, starts due; refines `PlanExecution`; every job settles | 4 tasks, 2 workers, 1 continuation, 2 operator acts, 1 fault | 1.12M |
| `stream_recovery` | *violated*: recovery of an expired cursor recovers | 1 tab, 4 events, 2 retained | - |
| `queue_wakeup` | *violated*: a queued follow-up runs after the turn | 2 submits | - |
| `pause_stale` | *violated*: the snapshot never goes back to an earlier turn | 2 flows, 2 turns, 1 pause | - |
| `workgraph_stranded` | *violated*: no job is left queued when a turn is over | as `workgraph`, interrupts only | - |
| `quality_stray` | *violated*: a write outside of the plan blocks the turn | as the quality half of `shell` | - |

`MCRuntimeStores`, `MCOwnerServices`, `MCOwnersAndQueue` and `MCShellTurns` put instances that
share no state into one run: `part` picks one in the initial state and the others stand
still. That is only a way to run them; the modules do not know of each other.

Deadlock checking is off in every run but `stream_recovery`: each bounded instance comes to
rest once its calls, events or turns are used up.

Why the bounds are enough for what they ask.

* *Arbiter.* Two calls of one key are what a retry hazard needs; three calls give a turn, a
  second turn queued behind it and a cancel between them; one receipt of room makes every
  settled call a candidate for eviction; two generations give every pair of owners.
* *Ledger, journal.* 2 keys and 4 revisions. Three sessions over a ring and a watermark table of 2
  (7 ids) make the table itself evict.
* *Stream.* One tab, 6 events of which 3 are kept, 3 failures: every cursor expires that
  can; tabs share nothing but the ledger, which no tab writes, so one is representative.
* *Registry.* Two sessions for one slot, two calls of `create` for the first of them and one for the
  second, one release, one `invoke`: a creation joins, races or evicts another, and any of
  them meets a teardown, an orphan or the stop.
* *Election.* The lock of a dead client, two live clients that may clean it up at the same time
  and claim twice each, two owners, which is what a split needs, one misread lease.
* *Queue.* Three submits (one remote), or two with a resume and an edit, and two acts: every pair of an
  interrupt, a failing turn, a shutdown, a restart and an edit. `Casts` lists which calls take
  part.
* *Pause.* Two flows, two turns and the interrupts between them, two pauses; four operations let both
  flows be inside one while a pause is asked for, in each of two turns.
* *Quality.* A plan of one node or of three with a dependency, two workers, one refinement and one
  pivot; `quality_stray` is the same instance.
* *Work graph.* Two tasks that want one file, a third beside them that shares the direct agent
  with the first, and a dependent fourth; two workers and budgets 1 and 2, so a mode switch
  can lower the ceiling under runs that hold permits; two operator acts give every pair (a
  clear during a continuation, a steer and a cancel, a mode switch and an interrupt).
* *Lock, evolution.* Three callers with two claims each; two processes, three attempts (one fails, one is retried
  after a crash, one follows), one later look, two faults or crashes, one edit from outside.
* *Team.* Two workers and the coordinator contend for the log, an aborter beside them; only
  lines of tool calls are bounded (4), those of the protocol are finitely many. The writes of the
  coordinator may fail (`Unlucky`), every time: a writer that fails comes before, between and after others
  that do not. (With failing writes of the workers as well the instance has 4.2M states and passes too, but takes too
  long to be kept; the theorems hold for any `Unlucky`.)

`arbiter_lanes` uses symmetry on keys and `stores` on the workers of the team run; the properties of
both are invariants, and keys and workers are chosen from a set and never compared in order. No run
with a temporal property uses symmetry.

## 4. Fairness

* `MutationArbiter!FairSpec`: admission, lanes and cancels are promise continuations, which
  the event loop always runs; *nothing* is assumed of the engine call (`Finish`).
  `EveryCallSettles` says that every call is decided without that, and answered if engine calls
  return (`EngineCallsReturn`). A precondition is taken to settle: it reads engine state and
  awaits nothing remote.
* `OwnerElection!ElectionFairness`: a client that is in the call goes on, an owner boots,
  publishes and stops, its watch timer fires. The deadline of a client is strongly fair: it
  passes once, but the code tests it at the head of its loop only. No crash, signal or misread
  is assumed.
* `EventStream!StreamFairness`: the server answers requests and the client's timers fire. Failures
  are bounded, never assumed to end by fairness.
* `SessionRegistry!RegistryFairness`: timers fire and continuations run. No factory, engine
  or disposer has to return; `StopEnds` holds all the same, because every wait has a
  time limit.
* `PauseController!PauseFairness`: operations return and checkpoint writes settle (either way);
  requests of the user have no fairness.
* `QualityRun!QualityFairness`: weak fairness of `Progress` as a whole - a turn takes finitely many such
  steps, and every call it awaits returns or throws; edits from outside and an abort are not in it.
* `FollowUpQueue!QueueFairness`: queue commands and turns end; nothing the operator does is assumed.
* `WorkGraph!FairGraphSpec`: workers and runs take steps and provider turns return or throw;
  nothing the operator does is assumed.
* The evolution run, its lock and team runs are checked for safety only: a process that
  gives up, dies or is killed is an ordinary outcome there.

In a run of two parts the fairness of one says nothing of the other: a part at rest has
nothing enabled, or its fairness is guarded by `part`.

## 5. What the runs show

Whatever crashes, retries, second owners and ledger faults occur, a command runs once at
most, its outcome is never replaced, and callers hear that outcome or a refusal
(`ImplementsLog`). A plan is executed as `PlanExecution` says, through clears, interrupts, throws
and pool failures (`ExecutesPlan`). Normal mutations run one after another in the order they were
admitted, each after the cancels queued before it. Streams are gapless and what the page shows
catches up. One owner serves and it is the published one, unless a named cause split the
ownership, and then the split heals. The registry keeps its capacity and agrees with the control
room, and stops. A pause is acknowledged when durable and quiet. What a turn calls reviewed
was reviewed as it is. Writers of one file never work at the same time; job records, guidance and follow-ups
are conserved by every interleaving explored. The chain of a team run breaks for three named
causes only, and a verdict covers the work.

Five disagreements between the code and what it says of itself (details and
quotations in `PROJECT.json`, "findings"):

1. **Recovery of an expired cursor** (`stream_recovery`). Dropping the cursor means asking for
   events after 0, which a ledger that has pruned anything refuses too. The view
   still catches up, because discovery polls (`ViewCatchesUp`). The test whose title the finding
   quotes asks a little less: it ends offline itself.
2. **A missed follow-up** (`queue_wakeup`). The count of queued follow-ups is written after the queue command
   returned; a turn that ends in between does not drain, and nothing drains later.
3. **A stale pause** (`pause_stale`). A checkpoint write that outlives its turn publishes the old
   turn's pause over the next one. `overtaken` (history) marks the behaviours in which a
   turn began while such a write was pending; `PausedIsQuiet`, `TurnsDoNotOverlap`
   and `PauseIsAnswered` are claimed for the others, and the run explores both.
4. **Stranded jobs** (`workgraph_stranded`). A between-nodes checkpoint that throws rejects the
   whole pool; jobs of tasks not yet offered stay queued until a later clear.
   `EveryJobSettles` is claimed for turns that were not interrupted and whose
   checkpoints could be written.
5. **Stray writes** (`quality_stray`). A refinement captures the baseline of the review anew, and a
   write outside of the plan that came before it is no longer seen.

Seen while modelling, and not made a run of their own:

* *Arbiter.* An exact revision is checked before the precondition is awaited and not after
  (`runtime-engine-rpc.ts:938`, `runtime-mutation-arbiter.ts:246`). The clock may move in between,
  and the call is then admitted at a revision its client did not ask for; no property excludes it.
* *Registry.* The owner's factory leaks an engine when `readRuntimeAdmissionRevision` or
  `seedSessionRevision` throws after the inner factory returned (`runtime-owner.ts:101-110`; `leaked`
  in the model). The `splice(0)` of `settleTeardowns` (`runtime-engine-rpc.ts:628`) lets one release
  take the failure of another, or of `disposeAll`, which is why `FailuresAreTold` says "or another was told".
* *Remote client.* A read served before a mutation's end but with a higher revision is shown after it.
* *Election.* The lock is unlinked by path (`runtime-owner-discovery.ts:249`, against the comment
  at 251): `causes` holds the claims that were taken from live claimants this way.
* *Queue.* A follow-up whose turn has completed is put back, and run again, when a call pauses the
  queue or the shell closes before the drain has acknowledged it (`work-shell-engine.ts:3119-3127`).
  One that its drain found the shell busy for is queued a second time, and if the queue is
  paused by then its claim is put back as well: it is in the file twice. `returned` holds what was
  put back in these two ways - after it had run, or while another item held it too - and is the
  exception in `NoRerun`; one that is put back before either stays in one place. Drained follow-ups that the steer composer diverts, or
  whose admission is cancelled, are acknowledged. A paused queue is not honoured by a drain under
  way (3068, against the message at 2332). Item ids are reused (the next is one above the largest in
  the file): once the operator has discarded a claimed item, the acknowledgement of the old claim can
  drop another call's item with the same id, and that follow-up is lost. It takes more calls and acts
  than `owners_queue` has (larger instances and the proof showed it); `reused` is the exception in
  `FollowUpsAreKept`, and `ClaimsHaveOneHolder` says that nothing but a retry or a discard of an item
  in flight leads there.
* *Pause.* A pause at `before_completion` leaves the engine not busy (3008), and the next turn's
  `beginTurn` does not wait for late workers of the last one (`turn-orchestrator.ts:441`,
  `work-agent-run-controller.ts:297`).
* *Evolution.* The lock of a live owner can be taken over without a crash
  (`evolution-git-host.ts:1243`, 1483, against "conservative but sound" at 1241): `races`. When a
  preparation fails and its clean-up fails too, the journal is kept "so the next retry can recover it"
  (430). The attempt has no candidate, so its answer is a completed cleanup of no resources
  (`evolution-runtime.ts:1094-1097`); recording that answer deletes the journal (541), and a recorded
  answer is final, so there is no next retry and branch or worktree stay. So it is with what a crashed
  attempt left, if the next one ends before it prepares. `AnswersMatchDisk` therefore speaks of cleanups
  that list resources (`listed`), and in `LeftoversAreKnown` such a record is the exception. Edits
  that an attempt left uncommitted are adopted and sealed by the next one.
* *Quality.* A partial refinement whose nodes do not own all that the plan owns is always called
  stale though no file changed (`work-agent.ts:2358-2394`, `qualityWritePaths` at 2638; `Fresh` in the model).
  `quality.graph` is read before an await and written back after it (2097, 2167). A worker may start
  after a terminal decision (2130 precedes the await at 2182). A "refine" on `planCreated` executes
  the plan it objected to. `selectRefineTasks` includes upstream nodes, not downstream ones.
* *Team.* An append fails outright when the lock vanishes between `create_new` and the read
  (`team_runtime.rs:1423`). A timeout kill between the line and `.tip` lets the next append fork the
  chain, after which `inspect --verify` says BROKEN (`rifts`). Locks are removed by path, and an empty
  lock file is never reclaimed, nor is the record of the TypeScript side by the native one. An abort
  between "starting" and "running" is overwritten; one of a finished background run turns accepted into
  aborted. A worker that cannot be spawned leaves the run without a final status. A foreground abort
  does not stop the coordinator, which may append "accepted" after it.

## 6. Theorems

Proved by TLAPS for every value of the constants that the modules' named assumptions allow -
any number of calls, keys, sessions, flows, nodes, workers, crashes and retries, and bounds of any size.
Each is `Spec => []Inv`, an action property or a refinement, by an inductive invariant that TLC checked first.
`OutcomesAreFinal` needs none beyond the types and stands without a run: no step of the receipt table
rewrites a stored outcome, and `AtMostOnce` (`arbiter_faults`) shows what its users make of that.

| Theorems | Module | Inductive invariant |
|---|---|---|
| `LedgerTypeCorrect`, `RevisionsDistinct`, `OutcomesAreFinal` | `RuntimeStoresProofs` | accepted revisions are distinct *and* at most the session's |
| `JournalTypeCorrect`, `ReplaysAreComplete` | `RuntimeStoresProofs` | `JournalInv` |
| `EvolutionTypeCorrect`, `AnswersAreTrue`, `LeftoversKnown`, `ReadyWasEvaluated` | `RuntimeStoresProofs` | `EvolutionInv`, `LeftoverInv` |
| `ArbiterTypeCorrect`, `ExecutedAtMostOnce`, `ClockNeverAhead` | `MutationArbiterProofs` | `OnceInv`, `ClockInv` |
| `TurnsRunInOrder`, `ActivityCounted` | `MutationArbiterProofs` | `LaneInv`, `ActivityInv` |
| `ImplementsCommandLog` (a refinement) | `MutationArbiterProofs` | `OnceInv`, `LaneInv`, `ReplyInv` |
| `ElectionTypeCorrect`, `OneLauncherAtATime`, `OneOwnerServes`, `ServingOwnerIsPublished` | `OwnerServicesProofs` | `ElectionInv` |
| `LockTypeCorrect`, `OnlyRacesSplit` | `RuntimeStoresProofs` | who holds the directory is who judged it, unless `races` says otherwise |
| `TeamTypeCorrect`, `ChainIsKept`, `VerdictIsCovered`, `JobIsTrue` | `TeamRunProofs` | `IInv` |
| `RegistryTypeCorrect`, `OwnerKeepsItsCapacity`, `ControlsAndRpcAgree`, `NoFailureIsSilent` | `OwnerServicesProofs` | `RegistryInv` |
| `StreamTypeCorrect`, `StreamsAreGapless` | `OwnerServicesProofs` | `StreamInv` |
| `QualityTypeCorrect`, `WhatProceedsIsReviewed`, `NoObjectionIsLost` | `QualityRunProofs` | `QualityInv` |
| `PauseTypeCorrect`, `PauseIsQuiet`, `TurnsAreApart`, `InterruptHolds` | `PauseControllerProofs` | `PauseInv` |
| `GraphTypeCorrect`, `WritersStayApart`, `JobsAreSettledOnce`, `NoGuidanceIsLost`, `StartsWhenDue`, `PermitsAreExact`, `OneDirectTurn`, `PlanNeverStalls` | `WorkGraphProofs` | `GraphInv` |
| `ImplementsPlanExecution` (a refinement) | `WorkGraphProofs` | `GraphInv`, `Begun`, `Told` |
| `QueueTypeCorrect`, `FollowUpsStay`, `NoFollowUpRunsTwice`, `OneHolder` | `FollowUpQueueProofs` | `QueueInv` |

The arguments.

* *Ledger.* An admission takes the next revision and nothing lowers it, so the bound on accepted revisions is
  what makes their distinctness inductive.
* *`ExecutedAtMostOnce`.* `AtMostOnce` says nothing of calls that are admitted and have not run.
  `OnceInv` says that a call that *may* run (`MayRun`: ran, admitted or armed) was accepted, that an
  accepted call's key is in the ledger for good, and that two accepted calls of one key are the
  same call. The frame lemma `OnceFrame` covers the actions that accept and start nothing; `AdmitOnce`
  is the one step that accepts, and the ledger admits a key only while it is absent.
* *`ClockNeverAhead`.* `ClockInv` speaks of all generations, dead ones included, because a new
  generation's clock is seeded while old ones still publish.
* *`TurnsRunInOrder`.* `LaneInv` says that a lane holds exactly the calls whose phase says so, each once, and that
  only the head of a normal lane is past admission. The cancels a turn found queued (`ahead`) must be decided when it
  starts, but it awaits one promise, the cancel tail as it read it: `AdmissionInv` says that every queued cancel
  stands at or before the tail, `BarrierInv` that those ahead stay at or before the one awaited while the lane
  moves, and admission is in order, so once that one is decided so are they. Each action is first reduced to what it
  does to the calls and to one arbiter (the `...Effect` lemmas); the lanes are sequences without repetitions
  (`LaneAppend`, `LaneTail`, `LaneRemove`).
* *`ActivityCounted`.* Accepted calls under way have distinct revisions (`RevInv`), so the call that ends takes its
  own generation and no other out of the active ones.
* *`ImplementsCommandLog`.* The detailed system of arbiters, generations, lanes, ledger and faults implements
  `CommandLog`: every step is a step of the log under the mapping `Effect`, `Reply`, or leaves both alone. `ReplyInv`
  says that a call that may still execute has an open row, that an answer with an outcome, also one that waits for its turn
  in the normal lane, tells the outcome of its key's row, and that a call which joined another has its key
  (`Fine`). One lemma per action: acceptance in the control lane and `Start` are `Begin` (`OnceInv` makes
  the effect "none" before), `Finish` is `End`, answers from rows are `Report`, all other answers `Refuse`,
  and crashes, new generations and clocks that move are stutters, since no finished row is rewritten (`RowsKept`).
* *`OneOwnerServes`, `ServingOwnerIsPublished`.* Without a cause in `causes`, one client is between its claim and the end of
  its launch at any time, and an owner that is not closed was launched by it or is the one in the lease.
* *`ChainIsKept`, `VerdictIsCovered`, `JobIsTrue`.* The lock, its holder and the `.tip` (`LogInv`) say where a
  chain can be appended to, and `ExtendEffect` and `LineEffect` what an append does to the lines, also to one that was
  cut; `Resting`, `Lives`, `Closed`, `Said`, `Received` and `Recorded` tie each process to
  the lines it has written; `Killed` and `Sig` to the signals it was sent.
* *`RegistryInv`.* `Holding` says of every creation what it holds - a reservation, a slot, an engine - at each of
  its awaits; `Room` counts attached and reserved sessions; `Telling` says where the failure of a
  teardown is until somebody is told.
* *`StreamInv`.* `WireFollows` gives a wire to every live client, also to one whose listener was dropped, and
  says that it starts after the client's cursor and has no gap; only that of a listener must reach the newest event.
  `LogIsInterval` is what a replay needs of the ledger's pruning. Rows are enumerated by their rank (`InOrder`), so no
  induction is needed.
* *`QualityInv`.* `Objections` and `ProceedIsReviewed` are about the end of a turn; `Course`,
  `Results`, `Copies`, `WaveResults` and `Approvals` say what must already hold in each phase before it, `Affordable` and
  `FailuresAreHeard` that what was asked for is granted or on record. Every plan is taken to be non-empty and closed
  under dependencies, which the planner's static fallback sees to (`work-agent.ts:990-1040`).
* *`PauseInv`.* `Order` says which turn may have flows under way, `Waits` what a submit that waits for a turn's
  end waits for, `Awaited` which flows hang on which transition; `Calm` is the pause itself, and holds only
  until a turn overtakes a write (`overtaken`, finding 3). `InterruptHolds` is an action property: no step
  takes an interrupted turn back to running.

* *`ReplaysAreComplete`.* A replay reads the ring and one watermark; what was published is history. `RingIsEnd` says
  that the ring is the end of what was published and `MarksAreLast` that a mark is the last evicted event of
  its session, and that a session without a mark either lost nothing or lost its mark to later ones, all of which are
  below the oldest event of the ring - which is the case that the refusal by the ring's oldest id is there for.
* *`EvolutionInv`.* One call is under way at a time (`Alone`; the lock is taken to exclude, see `LifecycleLock`), but
  candidates change from outside at every step of it. `EditsAreNew` says that an edit still to come is in no
  file and in nothing that passed, so a candidate that was changed is never again equal to what passed: no stale
  result can look fresh. `Judging` follows an attempt from the seal on: the branch is fixed and files are only
  added, so what was evaluated lies between what was sealed and what is there, and equality of the two ends
  makes it equal. `RecordIsTrue` holds for good because an attempt begins only where there is no record (`Trying`), and
  `Clearing` is how far a cleanup has come if nothing of it failed. A cleanup is true where it lists
  resources; that of an attempt without a candidate says nothing. `LeftoversAreKnown` needs `LeftoverInv`
  beside it: while nothing is recorded, what is on disk is in the journal (`Kept`), which was written before the
  first resource was acquired (`Journalled`). The constants are assumed to be told
  apart: `None` is no commit, snapshot or result, and there is at least one base.
* *`GraphInv`.* `Resting` and `Placed` say where each task is - pending, in the wave, with one worker - and what its run and
  job may be there; `Holding`, that a task between its claim and its release owns its files; `Due`, that
  what was taken had its dependencies done. `Parking`, `Permits` and `Serving` are the permit queue, the
  count and the shared agent's queue; `Records` and `Guidance` the histories. `Accounted` says that a
  dependency of a pending task is pending, done or failed, and with it `PlanNeverStalls` takes the pending task that
  comes first in the plan: its dependencies come before it, so none is pending. (A least element is found with the
  library's well-foundedness of the subset order; the natural-number induction theorem takes an operator.)
* *`ImplementsPlanExecution`.* Every step of scheduler, workers, run controller and operator is a step of `PlanExecution`
  or leaves it alone: a dispatch begins a task, a refusal, a woken waiter and a cleared job end one that never began, a
  report judges, a clear stops. It needs two facts beside `GraphInv`. `Begun`: a run that was opened is under way, or has ended and
  its record is gone, so nothing begins twice and `Clear` withdraws just what has not begun. `Told`: what the plan holds for
  failed was told to it as failed, and a wave whose workers rest has been reported whole (while tasks are left in it some
  worker is up, which needs one worker at least and a finite plan), so a task is blocked only for a dependency with
  such a verdict.
* *`QueueInv`.* What an acknowledgement may lose is the hard part: a drain acknowledges a follow-up that it ran,
  diverted, or queued again under a new id. `KeptInv` says that the text of every claim that is settled (`Spent`:
  its turn has begun, or another drain runs on top of it) is gone for good or is in an item that *no* settled claim names,
  so dropping an item that one names loses nothing; and that a claim and the item with its id have one text
  (`Matching`), which is what the reuse of an id breaks. `HolderInv` says that each claimed item has one holder and,
  while nothing in flight was retried or discarded, each claim its item, so the largest id in the file is above
  every held one and no id is given again. `PlacesInv` gives a follow-up one place, with a call that may still run it
  or as a pending item, and none once its turn has completed; `BareInv` that a submit which
  has not been queued yet is not in the file, so that queueing it gives it one place. `ClosedInv` says what `dispose` has waited for. `StepKinds`
  reduces the two dozen actions to seven kinds of step. `ClaimsHaveOneHolder` is proved (`OneHolder`);
  no run lists it.

Only model-checked: all liveness properties, which are out of the prover's reach.

## 7. Not modelled, and why

* `settle()` and the arbiter without a ledger: every live session is bound to one.
* A record of an evolution run that is there and cannot be read: `loadRecord` takes it for none
  (`evolution-git-host.ts:167`) and a new attempt starts beside the old result.
* In a team run, an abort between the write of the finished job and the end of the coordinator
  (`CompleteJob` is both), and a job file that cannot be written. Reads and removals in the log fail
  only because a file is gone.
* The registry's inventory and the validation of arguments: no state changes. Usage totals of the ledger:
  a sum that nothing orders.
* The files of the admission ledger, the session store and snapshots: single-writer files, write and rename.
* Decisions, panels and the paused queue's wording in the engine: presentation.
* A second turn over the work graph: workers that outlive their pool can meet the
  next turn's empty ownership registry; listed as a hazard without a property.
* Disk ownership: in `src/` only `sweepStaleLocks` is called.
* The TypeScript team runner and mini-loop: a temporary bridge; it appends to the same log.
* The remote engine client: its one hazard is the observation above.
* Providers, tools, rendering, telemetry, prompt assembly, contracts, configuration: I/O or pure
  data, without an order-dependent protocol. They are most of the lines of the repository.

## 8. Plan

Every safety property of a passing run that the provers can state is proved. Left: the abort of an
evolution run's lock and team runs under fairness, and the handover between the turns of
`WorkGraph` (section 7).
