------------------------------- MODULE WorkGraph -------------------------------
(***************************************************************************)
(* One complex turn of the work agent: the plan's scheduler and its        *)
(* bounded pool of workers (runGoalTaskExecutorPool, runBoundedExecutorPool *)
(* in turn-orchestrator.ts), their file claims (FileOwnershipRegistry), and *)
(* the controller of the agent runs they dispatch (WorkAgentRunController: *)
(* planned jobs, executor permits, abort links, mailboxes, continuations,  *)
(* the shared direct agent), wired as runTurnInEpoch wires them.           *)
(*                                                                         *)
(* The JavaScript between two awaits is one action.  Each task is run by   *)
(* `executeComplexTask` inside a non-interruptible operation, so the pause *)
(* checkpoints before it, after it and between nodes may throw: once the   *)
(* turn was interrupted, or when a pause checkpoint cannot be written      *)
(* (module PauseController has the controller itself).                     *)
(*                                                                         *)
(* Abstracted: prompts and results, traces other than queued, started and  *)
(* settled records, planner and guardian turns, the quality stages; a      *)
(* suspended checkpoint is a delay.                                        *)
(***************************************************************************)
EXTENDS Integers, SequencesExt

CONSTANTS
    Plan,           \* the accepted tasks, in plan order
    DependsOn,      \* of each task: its dependencies
    WritePaths,     \* of each task: the files it may write
    Continuations,  \* runs the operator starts by continuing an earlier one
    Direct,         \* runs of the shared direct agent: the tasks routed to it, or all
                    \* runs where there is no executor factory
    Paths, None,
    Budgets,        \* executor budgets of the modes the user may switch between
    MaxWorkers,     \* the budget when the turn started
    MaxActs,        \* bound: things the operator does
    MaxFaults,      \* bound: pause checkpoints that cannot be written
    Events          \* what may happen around the plan, a subset of AllEvents

Tasks == ToSet(Plan)
Position(t) == CHOOSE i \in DOMAIN Plan : Plan[i] = t
Runs == Tasks \cup Continuations
AllEvents == {"clear", "interrupt", "cancel", "steer", "mode", "throw"}

\* The plan has passed findGoalTaskPlanViolation: no task twice, dependencies first.
ASSUME WorkGraphAssumption ==
    /\ Plan \in Seq(Tasks) /\ DependsOn \in [Tasks -> SUBSET Tasks]
    /\ \A i, j \in DOMAIN Plan :
          /\ Plan[i] = Plan[j] => i = j
          /\ Plan[j] \in DependsOn[Plan[i]] => j < i
    /\ WritePaths \in [Tasks -> SUBSET Paths]
    /\ Direct \subseteq Tasks \/ Direct = Runs
    /\ Tasks \cap Continuations = {}
    /\ Budgets \subseteq Nat \ {0} /\ MaxWorkers \in Budgets
    /\ MaxActs \in Nat /\ MaxFaults \in Nat
    /\ Events \subseteq AllEvents
    /\ None \notin Nat

VARIABLES
    pool,       \* the scheduler: phase, pending tasks, verdicts, current wave
    worker,     \* the executors of the current wave
    owner,      \* FileOwnershipRegistry: the worker that holds each path
    result,     \* what the scheduler was told of each task
    job,        \* plannedJobs
    settled,    \* history: job.settled records of each task
    opened,     \* history: runs with an agent.run.started record
    run,        \* the controller's side of each task and continuation
    held, waiting, budget,  \* ExecutorPermitPool and its ceiling
    direct,     \* directAgentTurn: the runs queued for the shared agent
    aborted,    \* the turn's signal
    interrupted, cleared,           \* history
    faults, acts                    \* bounded counts

schedulerVars == <<pool, worker, owner, result>>
controllerVars == <<job, settled, opened, run, held, waiting, direct>>
turnVars == <<budget, aborted, interrupted, cleared, faults, acts>>
Unbothered == UNCHANGED <<budget, aborted, interrupted, cleared, acts>>
vars == <<schedulerVars, controllerVars, turnVars>>

Workers == 1..MaxWorkers
Smaller(a, b) == IF a < b THEN a ELSE b

Pool == [phase : {"loop", "blocking", "wave", "returned", "threw"},
         pending : SUBSET Tasks, successful : SUBSET Tasks, failed : SUBSET Tasks,
         wave : SUBSET Tasks,
         todo : SUBSET Tasks]   \* tasks to block, or those of the wave not taken yet
Worker == [phase : {"off", "taking", "claiming", "executing", "settling", "done", "threw"},
           task : Tasks \cup {None}]
Results == {"none", "completed", "failed", "cancelled", "blocked"}

\* "parked" awaits a permit, "woken" was refused one, "granted" has one and has not
\* gone on; "preparing" awaits an executor or the direct agent; "turn" is a
\* provider turn.
Ended == {"completed", "failed", "cancelled"}
Run == [phase : {"none", "offered", "parked", "woken", "granted", "preparing", "turn"} \cup Ended,
        aborted : BOOLEAN,
        mail : Nat,
        owed : Nat]     \* history: steers accepted and not delivered

NewRun == [phase |-> "none", aborted |-> FALSE, mail |-> 0, owed |-> 0]
NoWorker == [phase |-> "off", task |-> None]

\* queuePlannedJobs has accepted the plan
GraphInit ==
    /\ pool = [phase |-> "loop", pending |-> Tasks, successful |-> {}, failed |-> {},
               wave |-> {}, todo |-> {}]
    /\ worker = [w \in Workers |-> NoWorker]
    /\ owner = [p \in Paths |-> None]
    /\ result = [t \in Tasks |-> "none"]
    /\ job = [t \in Tasks |-> "queued"]
    /\ settled = [t \in Tasks |-> 0]
    /\ opened = {}
    /\ run = [r \in Runs |-> NewRun]
    /\ held = 0 /\ waiting = <<>> /\ budget = MaxWorkers
    /\ direct = <<>>
    /\ aborted = FALSE /\ interrupted = FALSE /\ cleared = FALSE
    /\ faults = 0 /\ acts = 0

TurnIsOpen == pool.phase \in {"loop", "blocking", "wave"}
Active(r) == run[r].phase \in {"preparing", "turn"}
Holders == {r \in Runs : run[r].phase \in {"granted", "preparing", "turn"}}

\* A pause checkpoint of the turn passes or throws.
CheckpointPasses == UNCHANGED faults
CheckpointThrows ==
    \/ interrupted /\ UNCHANGED faults
    \/ faults < MaxFaults /\ faults' = faults + 1

(***************************************************************************)
(* The scheduler.                                                          *)
(***************************************************************************)
Blocked == {t \in pool.pending : DependsOn[t] \cap pool.failed # {}}
Ready == {t \in pool.pending : DependsOn[t] \subseteq pool.successful}

\* Tasks are blocked, and taken, in plan order.
First(t, S) == t \in S /\ \A u \in S : Position(t) <= Position(u)

Schedule ==
    /\ pool.phase = "loop"
    /\ \/ /\ Blocked # {}
          /\ pool' = [pool EXCEPT !.phase = "blocking", !.todo = Blocked]
          /\ UNCHANGED worker
       \/ /\ Blocked = {} /\ pool.pending = {}
          /\ pool' = [pool EXCEPT !.phase = "returned"]
          /\ UNCHANGED worker
       \/ /\ Blocked = {} /\ pool.pending # {}
          /\ pool' = [pool EXCEPT !.phase = "wave", !.wave = Ready, !.todo = Ready,
                                  !.pending = @ \ Ready]
          /\ worker' = [w \in Workers |->
                          IF w <= Smaller(MaxWorkers, Cardinality(Ready))
                          THEN [phase |-> "taking", task |-> None] ELSE NoWorker]
    /\ UNCHANGED <<owner, result, controllerVars, turnVars>>

\* Slip: dispatched jobs are settled too.
SettleQueuedAndDispatched(S) ==
    LET open == {t \in S : job[t] # "absent"}
    IN  /\ job' = [t \in Tasks |-> IF t \in open THEN "absent" ELSE job[t]]
        /\ settled' = [t \in Tasks |-> IF t \in open THEN settled[t] + 1 ELSE settled[t]]

\* settleQueuedJob for each of S: only a job that was queued and not dispatched
SettleQueued(S) ==
    LET open == {t \in S : job[t] = "queued"}
    IN  /\ job' = [t \in Tasks |-> IF t \in open THEN "absent" ELSE job[t]]
        /\ settled' = [t \in Tasks |-> IF t \in open THEN settled[t] + 1 ELSE settled[t]]

\* A task whose dependency failed: createBlockedResult, then onTaskSettled.
Block(t) ==
    /\ pool.phase = "blocking" /\ First(t, pool.todo)
    /\ result' = [result EXCEPT ![t] = "blocked"]
    /\ SettleQueued({t})
    /\ \E phase \in {IF pool.todo = {t} THEN "loop" ELSE "blocking", "threw"} :
          /\ IF phase = "threw" THEN CheckpointThrows ELSE CheckpointPasses
          /\ pool' = [pool EXCEPT !.phase = phase, !.todo = @ \ {t},
                                  !.pending = @ \ {t}, !.failed = @ \cup {t}]
    /\ UNCHANGED <<worker, owner, opened, run, held, waiting, direct>>
    /\ Unbothered

WaveDone ==
    /\ pool.phase = "wave"
    /\ \A w \in Workers : worker[w].phase \in {"off", "done"}
    /\ LET done == {t \in pool.wave : result[t] = "completed"}
       IN  pool' = [pool EXCEPT !.phase = "loop", !.successful = @ \cup done,
                                !.failed = @ \cup (pool.wave \ done)]
    /\ UNCHANGED <<worker, owner, result, controllerVars, turnVars>>

(***************************************************************************)
(* A worker.  It goes on with its wave also after the pool has thrown.     *)
(***************************************************************************)
\* Slip: one free path is enough.
ClaimableIfAny(w, t) ==
    WritePaths[t] = {} \/ \E p \in WritePaths[t] : owner[p] \in {None, w}

\* claimAll: every path is free or its own
Claimable(w, t) == \A p \in WritePaths[t] : owner[p] \in {None, w}

Execute(w, t) ==
    /\ owner' = [p \in Paths |-> IF p \in WritePaths[t] THEN w ELSE owner[p]]
    /\ worker' = [worker EXCEPT ![w] = [phase |-> "executing", task |-> t]]
    /\ run' = [run EXCEPT ![t].phase = "offered"]

ReleasedBy(w) == [p \in Paths |-> IF owner[p] = w THEN None ELSE owner[p]]

Take(w) ==
    /\ worker[w].phase = "taking"
    /\ \/ /\ pool.todo = {}
          /\ worker' = [worker EXCEPT ![w] = [phase |-> "done", task |-> None]]
          /\ owner' = ReleasedBy(w)
          /\ UNCHANGED <<pool, run>>
       \/ \E t \in pool.todo :
             /\ First(t, pool.todo)
             /\ pool' = [pool EXCEPT !.todo = @ \ {t}]
             /\ IF Claimable(w, t) THEN Execute(w, t)
                ELSE /\ worker' = [worker EXCEPT ![w] = [phase |-> "claiming", task |-> t]]
                     /\ UNCHANGED <<owner, run>>
    /\ UNCHANGED <<result, job, settled, opened, held, waiting, direct, turnVars>>

\* the 1 ms poll
Claim(w) ==
    /\ worker[w].phase = "claiming"
    /\ Claimable(w, worker[w].task)
    /\ Execute(w, worker[w].task)
    /\ UNCHANGED <<pool, result, job, settled, opened, held, waiting, direct, turnVars>>

\* executeTask has its result, or the checkpoint after the run threw.
Report(w) ==
    LET t == worker[w].task
    IN  /\ worker[w].phase = "executing"
        /\ run[t].phase \in Ended
        /\ worker' = [worker EXCEPT ![w].phase = "settling"]
        /\ \/ CheckpointPasses /\ result' = [result EXCEPT ![t] = run[t].phase]
           \/ CheckpointThrows /\ result' = [result EXCEPT ![t] = "failed"]
        /\ UNCHANGED <<pool, owner, controllerVars>>
        /\ Unbothered

\* onTaskSettled: the checkpoint between nodes.  Its throw rejects the whole pool.
Settle(w) ==
    /\ worker[w].phase = "settling"
    /\ owner' = ReleasedBy(w)
    /\ \/ /\ CheckpointPasses
          /\ worker' = [worker EXCEPT ![w] = [phase |-> "taking", task |-> None]]
          /\ UNCHANGED pool
       \/ /\ CheckpointThrows
          /\ worker' = [worker EXCEPT ![w] = [phase |-> "threw", task |-> None]]
          /\ pool' = [pool EXCEPT !.phase = "threw"]
    /\ UNCHANGED <<result, controllerVars>>
    /\ Unbothered

(***************************************************************************)
(* The run controller: permits.                                            *)
(***************************************************************************)
\* Slip: nobody is woken.
FreeSilently(r, phase) ==
    /\ held' = held - 1
    /\ run' = [run EXCEPT ![r].phase = phase]
    /\ UNCHANGED waiting

\* Run r ends as `phase` and releases its permit: promoteWaiters
Free(r, phase) ==
    LET room == budget - (held - 1)
        n == Smaller(Len(waiting), IF room < 0 THEN 0 ELSE room)
        promoted == {waiting[i] : i \in 1..n}
    IN  /\ held' = held - 1 + n
        /\ waiting' = SubSeq(waiting, n + 1, Len(waiting))
        /\ run' = [x \in Runs |->
                     IF x = r THEN [run[x] EXCEPT !.phase = phase]
                     ELSE IF x \in promoted THEN [run[x] EXCEPT !.phase = "granted"]
                     ELSE run[x]]

\* The checkpoint before the operation throws: runTask is never called.
NotOffered(t) ==
    /\ run[t].phase = "offered"
    /\ CheckpointThrows
    /\ run' = [run EXCEPT ![t].phase = "failed"]
    /\ UNCHANGED <<schedulerVars, job, settled, opened, held, waiting, direct>>
    /\ Unbothered

\* runTask up to its await
RunTask(t) ==
    /\ run[t].phase = "offered"
    /\ \/ /\ aborted
          /\ SettleQueued({t})
          /\ run' = [run EXCEPT ![t].phase = "cancelled"]
          /\ UNCHANGED <<held, waiting>>
       \/ /\ ~aborted /\ job[t] # "queued"
          /\ run' = [run EXCEPT ![t].phase = "failed"]
          /\ UNCHANGED <<job, settled, held, waiting>>
       \/ /\ ~aborted /\ job[t] = "queued"
          /\ IF held < budget
             THEN /\ held' = held + 1
                  /\ run' = [run EXCEPT ![t].phase = "granted"]
                  /\ UNCHANGED waiting
             ELSE /\ waiting' = Append(waiting, t)
                  /\ run' = [run EXCEPT ![t].phase = "parked"]
                  /\ UNCHANGED held
          /\ UNCHANGED <<job, settled>>
    /\ UNCHANGED <<schedulerVars, opened, direct, turnVars>>

\* Slip: a waiter that was cancelled leaves its job behind.
WokenUnsettled(t) ==
    /\ run[t].phase = "woken"
    /\ run' = [run EXCEPT ![t].phase = "cancelled"]
    /\ UNCHANGED <<schedulerVars, job, settled, opened, held, waiting, direct, turnVars>>

Woken(t) ==
    /\ run[t].phase = "woken"
    /\ SettleQueued({t})
    /\ run' = [run EXCEPT ![t].phase = "cancelled"]
    /\ UNCHANGED <<schedulerVars, opened, held, waiting, direct, turnVars>>

\* agent.run.started
Started(r) == opened' = opened \cup {r}

\* and the wait for an executor or for the direct agent
Open(r) ==
    /\ Started(r)
    /\ direct' = IF r \in Direct THEN Append(direct, r) ELSE direct

\* Slip: the registry is not read again after the wait.
DispatchUnread(t) ==
    /\ run[t].phase = "granted"
    /\ job' = [job EXCEPT ![t] = "dispatched"]
    /\ run' = [run EXCEPT ![t].phase = "preparing"]
    /\ Open(t)
    /\ UNCHANGED <<schedulerVars, settled, held, waiting, turnVars>>

\* runTask after its await, and execute() up to its first, which a run of a turn that
\* was aborted meanwhile never reaches
Dispatch(t) ==
    /\ run[t].phase = "granted"
    /\ \/ /\ job[t] # "queued"
          /\ Free(t, "cancelled")
          /\ UNCHANGED <<job, settled, opened, direct>>
       \/ /\ job[t] = "queued" /\ aborted
          /\ Free(t, "cancelled")
          /\ SettleQueued({t})
          /\ Started(t)
          /\ UNCHANGED direct
       \/ /\ job[t] = "queued" /\ ~aborted
          /\ job' = [job EXCEPT ![t] = "dispatched"]
          /\ run' = [run EXCEPT ![t].phase = "preparing"]
          /\ Open(t)
          /\ UNCHANGED <<settled, held, waiting>>
    /\ UNCHANGED <<schedulerVars, turnVars>>

(***************************************************************************)
(* The run controller: one run.                                            *)
(***************************************************************************)
\* Run r settles as `status`, its record is dropped, its permit released, and the direct
\* agent handed on.
EndRun(r, status) ==
    /\ Free(r, status)
    /\ job' = [t \in Tasks |-> IF t = r THEN "absent" ELSE job[t]]
    /\ settled' = [t \in Tasks |-> IF t = r THEN settled[t] + 1 ELSE settled[t]]
    /\ direct' = IF r \in Direct THEN Tail(direct) ELSE direct
    /\ UNCHANGED <<schedulerVars, opened, turnVars>>

\* The executor exists, or the direct agent's turn has come; a run that was aborted
\* meanwhile spends no provider turn.
Prepare(r) ==
    /\ run[r].phase = "preparing"
    /\ r \in Direct => r = Head(direct)
    /\ IF run[r].aborted THEN EndRun(r, "cancelled")
       ELSE /\ run' = [run EXCEPT ![r].phase = "turn"]
            /\ UNCHANGED <<schedulerVars, job, settled, opened, held, waiting, direct, turnVars>>

\* createExecutorAgent or runTurn throws; an executor may also abort itself.
Throw(r) ==
    /\ "throw" \in Events
    /\ run[r].phase = "turn" \/ (run[r].phase = "preparing" /\ r \notin Direct)
    /\ \E status \in {"failed", "cancelled"} :
          /\ run[r].aborted => status = "cancelled"
          /\ EndRun(r, status)

\* Slip: guidance that arrived during the last provider turn is not looked for.
TurnReturnsUnread(r) ==
    /\ run[r].phase = "turn"
    /\ EndRun(r, IF run[r].aborted THEN "cancelled" ELSE "completed")

\* runTurn returns: the next steer is delivered as another provider turn.
TurnReturns(r) ==
    /\ run[r].phase = "turn"
    /\ IF ~run[r].aborted /\ run[r].mail > 0
       THEN /\ run' = [run EXCEPT ![r].mail = @ - 1, ![r].owed = @ - 1]
            /\ UNCHANGED <<schedulerVars, job, settled, opened, held, waiting, direct, turnVars>>
       ELSE EndRun(r, IF run[r].aborted THEN "cancelled" ELSE "completed")

(***************************************************************************)
(* The operator.                                                           *)
(***************************************************************************)
Acts == acts < MaxActs /\ acts' = acts + 1

Steer(r) ==
    /\ "steer" \in Events
    /\ Active(r) /\ ~run[r].aborted
    /\ Acts
    /\ run' = [run EXCEPT ![r].mail = @ + 1, ![r].owed = @ + 1]
    /\ UNCHANGED <<schedulerVars, job, settled, opened, held, waiting, direct,
                   budget, aborted, interrupted, cleared, faults>>

Cancel(r) ==
    /\ "cancel" \in Events
    /\ Acts
    /\ Active(r)
    /\ run' = [run EXCEPT ![r].aborted = TRUE, ![r].mail = 0]
    /\ UNCHANGED <<schedulerVars, job, settled, opened, held, waiting, direct,
                   budget, aborted, interrupted, cleared, faults>>

Continue(c) ==
    /\ Acts
    /\ run[c].phase = "none"
    /\ held < budget
    /\ held' = held + 1
    /\ run' = [run EXCEPT ![c].phase = "preparing"]
    /\ Open(c)
    /\ UNCHANGED <<schedulerVars, job, settled, waiting,
                   budget, aborted, interrupted, cleared, faults>>

SwitchMode(b) ==
    /\ "mode" \in Events
    /\ Acts
    /\ b # budget
    /\ budget' = b
    /\ UNCHANGED <<schedulerVars, controllerVars, aborted, interrupted, cleared, faults>>

\* the run's record once its abort link has fired
AbortedRun(r, mailKept) ==
    [run[r] EXCEPT !.aborted = TRUE, !.mail = IF mailKept THEN run[r].mail ELSE 0]

\* Slip: woken waiters stay in the queue.
AbortRunsKeepingQueue(S, mailKept) ==
    /\ run' = [r \in Runs |->
                 IF run[r].phase = "parked" THEN [run[r] EXCEPT !.phase = "woken"]
                 ELSE IF r \in S /\ Active(r) THEN AbortedRun(r, mailKept)
                 ELSE run[r]]
    /\ UNCHANGED waiting

\* Runs of S are aborted; parked tasks leave the permit queue empty-handed.
AbortRuns(S, mailKept) ==
    /\ run' = [r \in Runs |->
                 IF run[r].phase = "parked" THEN [run[r] EXCEPT !.phase = "woken"]
                 ELSE IF r \in S /\ Active(r) THEN AbortedRun(r, mailKept)
                 ELSE run[r]]
    /\ waiting' = <<>>

\* interruptTurn: the turn's signal aborts its planned runs, not the continuations
Interrupt ==
    /\ "interrupt" \in Events
    /\ Acts
    /\ TurnIsOpen /\ ~interrupted
    /\ interrupted' = TRUE /\ aborted' = TRUE
    /\ AbortRuns(Tasks, TRUE)
    /\ UNCHANGED <<schedulerVars, job, settled, opened, held, direct, budget, cleared, faults>>

\* clear(): every run, every waiter, every queued job
Clear ==
    /\ "clear" \in Events
    /\ Acts
    /\ ~cleared
    /\ cleared' = TRUE
    /\ aborted' = (aborted \/ TurnIsOpen)
    /\ AbortRuns(Runs, FALSE)
    /\ SettleQueued(Tasks)
    /\ UNCHANGED <<schedulerVars, opened, held, direct, budget, interrupted, faults>>

SchedulerStep == Schedule \/ (\E t \in Tasks : Block(t)) \/ WaveDone
WorkerStep(w) == Take(w) \/ Claim(w) \/ Report(w) \/ Settle(w)
DispatchStep(t) == NotOffered(t) \/ RunTask(t) \/ Woken(t) \/ Dispatch(t)
RunStep(r) == Prepare(r) \/ Throw(r) \/ TurnReturns(r)

GraphNext ==
    \/ SchedulerStep
    \/ \E w \in Workers : WorkerStep(w)
    \/ \E t \in Tasks : DispatchStep(t)
    \/ \E r \in Runs : RunStep(r) \/ Steer(r) \/ Cancel(r)
    \/ \E c \in Continuations : Continue(c)
    \/ \E b \in Budgets : SwitchMode(b)
    \/ Interrupt
    \/ Clear

GraphSpec == GraphInit /\ [][GraphNext]_vars

\* The event loop runs every enabled continuation and poll, and provider turns
\* return or throw.
FairGraphSpec ==
    /\ GraphSpec
    /\ WF_vars(SchedulerStep)
    /\ \A w \in Workers : WF_vars(WorkerStep(w))
    /\ \A t \in Tasks : WF_vars(DispatchStep(t))
    /\ \A r \in Runs : WF_vars(RunStep(r))

(***************************************************************************)
(* The turn executes the plan.  A task has begun when its run was opened,  *)
(* is closed when its job has a terminal record, and is judged when the    *)
(* scheduler is told.                                                      *)
(***************************************************************************)
Outcome(t) == IF run[t].phase \in Ended THEN run[t].phase ELSE "none"

Execution == INSTANCE PlanExecution WITH
    begun <- opened \cap Tasks,
    writing <- {t \in Tasks : run[t].phase = "turn"},
    outcome <- [t \in Tasks |-> Outcome(t)],
    closed <- {t \in Tasks : settled[t] > 0},
    verdict <- result,
    stopped <- cleared

\* Whatever the scheduler, its workers, the run controller and the operator do is a
\* step of the plan's execution or leaves it alone: waves, claims, permits, steers,
\* continuations, mode switches and a pool that throws change nothing it promises.
ExecutesPlan == Execution!PlanSpec

(***************************************************************************)
(* Properties                                                              *)
(***************************************************************************)
GraphTypeOK ==
    /\ pool \in Pool
    /\ worker \in [Workers -> Worker]
    /\ owner \in [Paths -> Workers \cup {None}]
    /\ result \in [Tasks -> Results]
    /\ job \in [Tasks -> {"absent", "queued", "dispatched"}]
    /\ settled \in [Tasks -> Nat]
    /\ opened \subseteq Runs
    /\ run \in [Runs -> Run]
    /\ held \in Nat /\ budget \in Budgets
    /\ waiting \in Seq(Tasks) /\ direct \in Seq(Direct)
    /\ aborted \in BOOLEAN /\ interrupted \in BOOLEAN /\ cleared \in BOOLEAN
    /\ faults \in 0..MaxFaults /\ acts \in 0..MaxActs

\* The permit count is exactly the runs that hold one, through promotion, aborts,
\* clears and mode switches, and nobody parks on a pool no run will release
\* ("A released permit is inert, so capacity never doubles").
PermitsExact ==
    /\ held = Cardinality(Holders)
    /\ waiting # <<>> => held > 0
    /\ ToSet(waiting) = {t \in Tasks : run[t].phase = "parked"}

\* Two runs never have a provider turn at once while their tasks write a common
\* file, also while the workers of a pool that has thrown are still at it.
WritersAreDisjoint ==
    \A t, u \in Tasks :
        t # u /\ run[t].phase = "turn" /\ run[u].phase = "turn" =>
            WritePaths[t] \cap WritePaths[u] = {}

\* "The slot changes hands between turns, never during one": the shared agent has one
\* provider turn at a time, that of the run it was handed to.
DirectAgentIsExclusive ==
    \A r \in Direct : run[r].phase = "turn" => direct # <<>> /\ Head(direct) = r

\* A planned job has one terminal record at most, and one that settled is neither
\* queued nor under way ("what keeps a job from opening a second agent run or
\* settling twice").
JobsSettleOnce ==
    \A t \in Tasks :
        /\ settled[t] <= 1
        /\ settled[t] = 1 => ~Active(t) /\ job[t] = "absent"

\* A planned run starts only after the run of every dependency was reported completed,
\* and none starts after a clear ("dispatching now would resurrect stopped work").  A
\* permit is handed out only below the ceiling of the mode in force, to planned runs and
\* continuations alike ("The authoritative ceiling on concurrent paid executor runs").
StartsAreDue ==
    [][/\ \A t \in Tasks \cap (opened' \ opened) :
             ~cleared /\ \A d \in DependsOn[t] : result[d] = "completed"
       /\ held' > held => held' <= budget]_vars

\* A run never completes over guidance it accepted: every steer was a provider turn
\* of its own ("so a steer can never be accepted into a run that is already
\* settling").
GuidanceIsSpent == \A r \in Runs : run[r].phase = "completed" => run[r].owed = 0

\* An accepted plan never gets stuck ("Goal task plan cannot make progress", which the
\* scheduler throws): a task that may start is left, or one to block, while tasks pend.
PlanCanProgress ==
    pool.phase = "loop" /\ pool.pending # {} => Blocked # {} \/ Ready # {}

\* Every queued job gets its terminal record: permits, claims and the direct agent
\* are handed on, and tasks behind a failed one are blocked - unless the turn was
\* interrupted or a pause checkpoint could not be written.
EveryJobSettles == <>(interrupted \/ faults > 0 \/ \A t \in Tasks : settled[t] = 1)

\* "Silently dropping it would leave the console showing queued work that can never
\* finish" (work-agent-run-controller.ts, settleQueuedJob): when the turn is over
\* and its workers have stopped, no job of its plan is left queued.
NoJobStranded ==
    ~TurnIsOpen /\ (\A w \in Workers : worker[w].phase \in {"off", "done", "threw"})
        => \A t \in Tasks : job[t] # "queued"
=============================================================================
