------------------------------- MODULE TeamRun --------------------------------
(***************************************************************************)
(* One team run as the native CLI runs it (cli_team.rs and                 *)
(* cli_team_background.rs): the coordinator records the run, starts the    *)
(* workers, waits for them and records a verdict; in the background it is  *)
(* a process that a launcher starts and describes in background-job.json;  *)
(* `team abort` comes from a process of its own.  All of them append to    *)
(* the checkpoint log of TeamLog.                                          *)
(*                                                                         *)
(* Left out: the worktrees of the workers, but for a failure to prepare    *)
(* them; their output; the run's .lock file, which only words a warning;   *)
(* file locks under locks/, which no native worker takes; `team restart`,  *)
(* which records another run; a run that is not dispatched; workers that   *)
(* only echo their task (UNCLECODE_TEAM_WORKER_LIVE=0); a coordinator that *)
(* is signalled after it has completed its job and before it exits; a job  *)
(* file that cannot be written.  A signal to a process group reaches all   *)
(* of it at once, and none of these processes handles it.                  *)
(***************************************************************************)
EXTENDS TeamLog

CONSTANTS
    Workers, Launcher, Coordinator, Aborter,
    MaxLines  \* bound: no tool call is recorded once the log has so many lines

ASSUME TeamAssumption ==
    /\ Writers = Workers \cup {Launcher, Coordinator, Aborter}
    /\ {Launcher, Coordinator, Aborter} \cap Workers = {}
    /\ Launcher # Coordinator /\ Launcher # Aborter /\ Coordinator # Aborter
    /\ MaxLines \in Nat

VARIABLES
    job,          \* background-job.json: its state, and whether it names the coordinator's pid
    launcher,     \* what the launcher of a background run is doing
    coordinator,  \* what the coordinator is doing, and the verdict it reached
    team,         \* what each worker is doing, and how it ended
    abort         \* what `team abort` is doing, the job it read, whether it killed the run

runVars == <<job, launcher, coordinator, team, abort>>
teamVars == <<logVars, runVars>>

Verdicts == {"accepted", "killed", "errored"}
Job == [state : {"none", "starting", "running", "accepted", "errored", "cancelled"},
        known : BOOLEAN]
NoJob == [state |-> "none", known |-> FALSE]
Coordinating == [pc : {"absent", "starting", "await", "running", "prepare", "erroring", "join",
                       "verdict", "finish", "over"},
                 verdict : Texts \cup {"none"}]
Working == [pc : {"none", "unspawned", "received", "working", "action", "over"},
            status : {"none", "completed", "failed", "killed"}]
Aborting == [pc : {"idle", "signal", "cancel", "clear", "aborted", "done", "failed"},
             job : Job, killed : BOOLEAN]

TeamInit ==
    /\ job = NoJob
    /\ \E first \in {Launcher, Coordinator} :
          /\ LogInit(first)
          /\ launcher = IF first = Launcher THEN "starting" ELSE "over"
          /\ coordinator = [pc |-> IF first = Launcher THEN "absent" ELSE "starting",
                            verdict |-> "none"]
    /\ team = [w \in Workers |-> [pc |-> "none", status |-> "none"]]
    /\ abort = [pc |-> "idle", job |-> NoJob, killed |-> FALSE]

Returned(p) == Doing(p, "ok") \/ Doing(p, "failed")
Coordinates(pc) == coordinator.pc = pc /\ Coordinator \in living
Exit(p) == living' = living \ {p}
Gone == [pc |-> "over", verdict |-> "none"]

---------------------------------------------------------------------------
\* record_team_run and launch_background_job, up to the first write of the job.
DescribeJob ==
    /\ launcher = "starting" /\ Returned(Launcher)
    /\ IF Doing(Launcher, "ok")
       THEN /\ job' = [state |-> "starting", known |-> FALSE]
            /\ launcher' = "spawn" /\ UNCHANGED living
       ELSE launcher' = "over" /\ Exit(Launcher) /\ UNCHANGED job
    /\ writer' = Rested(writer, Launcher)
    /\ UNCHANGED <<lines, tip, lock, rifts, coordinator, team, abort>>

SpawnCoordinator ==
    /\ launcher = "spawn"
    /\ \/ /\ living' = living \cup {Coordinator}
          /\ coordinator' = [coordinator EXCEPT !.pc = "await"]
          /\ launcher' = "publish" /\ UNCHANGED job
       \/ /\ job' = [job EXCEPT !.state = "errored"]
          /\ launcher' = "over" /\ Exit(Launcher) /\ UNCHANGED coordinator
    /\ UNCHANGED <<lines, tip, lock, writer, rifts, team, abort>>

\* The launcher writes the job it has in hand, whatever the file says by now.
PublishJob ==
    /\ launcher = "publish"
    /\ job' = [state |-> "running", known |-> TRUE]
    /\ launcher' = "over" /\ Exit(Launcher)
    /\ UNCHANGED <<lines, tip, lock, writer, rifts, coordinator, team, abort>>

---------------------------------------------------------------------------
Coordinate(pc, what) ==
    /\ coordinator' = [coordinator EXCEPT !.pc = pc]
    /\ writer' = Appending(writer, Coordinator, what)
    /\ UNCHANGED <<lines, tip, lock, living, rifts, job, launcher, team, abort>>

\* run_team_start before the dispatch: the run is recorded, or the job names the child.
BeginDispatch ==
    \/ Coordinates("starting") /\ Doing(Coordinator, "ok") /\ Coordinate("running", "running")
    \/ Coordinates("await") /\ job.known /\ Coordinate("running", "running")

\* The coordinator leaves with an error before there is a job to complete.
GiveUpStart ==
    /\ \/ Coordinates("starting") /\ Doing(Coordinator, "failed")
       \/ Coordinates("await") /\ ~job.known
    /\ coordinator' = Gone
    /\ writer' = Rested(writer, Coordinator)
    /\ Exit(Coordinator)
    /\ UNCHANGED <<lines, tip, lock, rifts, job, launcher, team, abort>>

\* The workspaces of the workers are ready, or one could not be prepared.
PrepareWorkspaces ==
    /\ Coordinates("running") /\ Doing(Coordinator, "ok")
    /\ \/ /\ coordinator' = [coordinator EXCEPT !.pc = "join"]
          /\ writer' = Rested(writer, Coordinator)
          /\ UNCHANGED <<lines, tip, lock, living, rifts, job, launcher, team, abort>>
       \/ Coordinate("erroring", "errored")

\* The threads of the workers run: a dispatch that ends because one worker could not be
\* started leaves the others to their threads until the process ends.
Dispatching ==
    Coordinates("join") \/ (Coordinates("finish") /\ \E w \in Workers : team[w].pc = "unspawned")

\* The thread of a worker starts its process, or fails to.
SpawnWorker(w) ==
    /\ Dispatching /\ team[w].pc = "none"
    /\ \/ /\ team' = [team EXCEPT ![w].pc = "received"]
          /\ living' = living \cup {w}
          /\ writer' = Appending(writer, w, "received")
       \/ /\ team' = [team EXCEPT ![w].pc = "unspawned"]
          /\ UNCHANGED <<living, writer>>
    /\ UNCHANGED <<lines, tip, lock, rifts, job, launcher, coordinator, abort>>

\* A slip: a worker that takes too long is given up, and runs on.
TimeOutWorkerAlive(w) ==
    /\ Dispatching /\ w \in living
    /\ team' = [team EXCEPT ![w].pc = "over", ![w].status = "killed"]
    /\ UNCHANGED <<logVars, job, launcher, coordinator, abort>>

\* A worker that takes too long is killed, and waited for.
TimeOutWorker(w) ==
    /\ Dispatching /\ w \in living
    /\ Perish({w})
    /\ team' = [team EXCEPT ![w].pc = "over", ![w].status = "killed"]
    /\ UNCHANGED <<lines, tip, lock, job, launcher, coordinator, abort>>

\* resolve_dispatch_status
DispatchStatus ==
    IF \A w \in Workers : team[w].status = "completed" THEN "accepted"
    ELSE IF \E w \in Workers : team[w].status = "killed" THEN "killed"
    ELSE "errored"

\* Every worker has ended.
Join ==
    /\ Coordinates("join")
    /\ \A w \in Workers : team[w].pc = "over"
    /\ Coordinate("verdict", DispatchStatus)

\* run_team_dispatch returns: after its last append, or with the error of an append or of
\* a worker that could not be started, with the others perhaps still at work: the workers
\* are joined in an order that is left open.
EndDispatch ==
    /\ \/ /\ coordinator.pc \in {"erroring", "verdict"} /\ Returned(Coordinator)
       \/ coordinator.pc = "running" /\ Doing(Coordinator, "failed")
       \/ coordinator.pc = "join" /\ \E w \in Workers : team[w].pc = "unspawned"
    /\ Coordinator \in living
    /\ coordinator' =
          [pc |-> "finish",
           verdict |-> IF coordinator.pc = "verdict" /\ Doing(Coordinator, "ok")
                       THEN writer[Coordinator].what ELSE "none"]
    /\ writer' = Rested(writer, Coordinator)
    /\ UNCHANGED <<lines, tip, lock, living, rifts, job, launcher, team, abort>>

\* complete_background_job, for a coordinator in the background, and the end of the process.
CompleteJob ==
    /\ Coordinates("finish")
    /\ job' = IF job = NoJob THEN job
              ELSE [job EXCEPT !.state = IF coordinator.verdict = "accepted" THEN "accepted"
                                         ELSE "errored"]
    /\ coordinator' = Gone
    /\ Exit(Coordinator)
    /\ UNCHANGED <<lines, tip, lock, writer, rifts, launcher, team, abort>>

\* The coordinator is killed; its workers go on.
CoordinatorDies ==
    /\ Coordinator \in living
    /\ Perish({Coordinator})
    /\ coordinator' = Gone
    /\ UNCHANGED <<lines, tip, lock, job, launcher, team, abort>>

---------------------------------------------------------------------------
\* run_native_cli_worker: the task is recorded, then each tool call that ends.
Work(w) ==
    /\ w \in living
    /\ team[w].pc \in {"received", "action"} /\ Doing(w, "ok")
    /\ team' = [team EXCEPT ![w].pc = "working"]
    /\ writer' = Rested(writer, w)
    /\ UNCHANGED <<lines, tip, lock, living, rifts, job, launcher, coordinator, abort>>

RecordAction(w) ==
    /\ w \in living
    /\ team[w].pc = "working" /\ Len(lines) < MaxLines
    /\ team' = [team EXCEPT ![w].pc = "action"]
    /\ writer' = Appending(writer, w, "action")
    /\ UNCHANGED <<lines, tip, lock, living, rifts, job, launcher, coordinator, abort>>

\* The worker exits: with what its loop returned, with the error of an append, or without
\* one, if its arguments or its runtime do not suit it.
EndWork(w) ==
    /\ w \in living
    /\ \E status \in {"completed", "failed"} :
          /\ \/ team[w].pc = "working"
             \/ /\ team[w].pc \in {"received", "action"} /\ status = "failed"
                /\ Doing(w, "failed") \/ (team[w].pc = "received" /\ Doing(w, "open"))
          /\ team' = [team EXCEPT ![w].pc = "over", ![w].status = status]
    /\ writer' = Rested(writer, w)
    /\ Exit(w)
    /\ UNCHANGED <<lines, tip, lock, rifts, job, launcher, coordinator, abort>>

---------------------------------------------------------------------------
\* team abort: the job, if there is one, is read, and its process looked for.
AbortRun ==
    /\ abort.pc = "idle"
    /\ living' = living \cup {Aborter}
    /\ abort' = [abort EXCEPT
          !.job = job,
          !.pc = IF job = NoJob THEN "aborted"
                 ELSE IF job.state \in {"starting", "running"} /\ job.known
                         /\ Coordinator \in living
                 THEN "signal" ELSE "cancel"]
    /\ writer' = IF job = NoJob THEN Appending(writer, Aborter, "aborted") ELSE writer
    /\ UNCHANGED <<lines, tip, lock, rifts, job, launcher, coordinator, team>>

\* A slip: the process is signalled, and not its group.
SignalProcess ==
    /\ abort.pc = "signal"
    /\ IF Coordinator \in living
       THEN /\ Perish({Coordinator})
            /\ coordinator' = Gone
            /\ abort' = [abort EXCEPT !.pc = "cancel", !.killed = TRUE]
       ELSE /\ abort' = [abort EXCEPT !.pc = "failed"]
            /\ Exit(Aborter)
            /\ UNCHANGED <<writer, rifts, coordinator>>
    /\ UNCHANGED <<lines, tip, lock, job, launcher, team>>

\* terminate_background_process: the whole group of the coordinator.  A process that has
\* gone since is refused.
SignalGroup ==
    /\ abort.pc = "signal"
    /\ IF Coordinator \in living
       THEN /\ Perish({Coordinator} \cup Workers)
            /\ coordinator' = Gone
            /\ team' = [w \in Workers |-> IF w \in living THEN [team[w] EXCEPT !.pc = "over"]
                                         ELSE team[w]]
            /\ abort' = [abort EXCEPT !.pc = "cancel", !.killed = TRUE]
       ELSE /\ abort' = [abort EXCEPT !.pc = "failed"]
            /\ Exit(Aborter)
            /\ UNCHANGED <<writer, rifts, coordinator, team>>
    /\ UNCHANGED <<lines, tip, lock, job, launcher>>

\* The job that was read is written back as cancelled.
CancelJob ==
    /\ abort.pc = "cancel"
    /\ job' = [abort.job EXCEPT !.state = "cancelled"]
    /\ abort' = [abort EXCEPT !.pc = "clear", !.job = NoJob]
    /\ UNCHANGED <<logVars, launcher, coordinator, team>>

\* The locks of the run are removed, whoever holds them.
ClearLocks ==
    /\ abort.pc = "clear"
    /\ UnlinkAppendLock(Aborter)
    /\ abort' = [abort EXCEPT !.pc = "aborted"]
    /\ writer' = Appending(writer, Aborter, "aborted")
    /\ UNCHANGED <<lines, tip, living, job, launcher, coordinator, team>>

EndAbort ==
    /\ abort.pc = "aborted" /\ Returned(Aborter)
    /\ abort' = [abort EXCEPT !.pc = IF Doing(Aborter, "ok") THEN "done" ELSE "failed"]
    /\ writer' = Rested(writer, Aborter)
    /\ Exit(Aborter)
    /\ UNCHANGED <<lines, tip, lock, rifts, job, launcher, coordinator, team>>

TeamNext ==
    \/ \E p \in Writers : AppendStep(p) /\ UNCHANGED runVars
    \/ DescribeJob \/ SpawnCoordinator \/ PublishJob
    \/ BeginDispatch \/ GiveUpStart \/ PrepareWorkspaces \/ Join \/ EndDispatch \/ CompleteJob
    \/ CoordinatorDies
    \/ \E w \in Workers :
          SpawnWorker(w) \/ TimeOutWorker(w) \/ Work(w) \/ RecordAction(w) \/ EndWork(w)
    \/ AbortRun \/ SignalGroup \/ CancelJob \/ ClearLocks \/ EndAbort

TeamSpec == TeamInit /\ [][TeamNext]_teamVars

---------------------------------------------------------------------------
TeamTypeOK ==
    /\ LogTypeOK
    /\ job \in Job /\ launcher \in {"starting", "spawn", "publish", "over"}
    /\ coordinator \in Coordinating /\ team \in [Workers -> Working] /\ abort \in Aborting

\* The log is a chain, each line naming the one before it ("Append-only NDJSON log with
\* sha256 chain", team-run-store.ts:5), unless one of three things has happened to it: a line
\* was cut short; .tip still names an earlier line, because the writer of the last one died
\* or could not open .tip; or the lock of a live writer was removed.  A .tip that was lost or
\* left empty is none of them.
ChainBreaksForCause == rifts = {} => ChainVerifies

\* A verdict covers the work: when the coordinator's verdict is in the log no worker adds a
\* line any more, and a run is accepted only if every worker recorded its task and completed.
VerdictCoversWork ==
    \A i \in DOMAIN lines : \A verdict \in Verdicts :
        Tells(i, Coordinator, verdict) =>
            /\ \A w \in Workers : w \notin living
            /\ \A j \in i..Len(lines) : lines[j].by \notin Workers
            /\ verdict = "accepted" =>
                  \A w \in Workers :
                      /\ team[w].status = "completed"
                      /\ \E j \in 1..i : Tells(j, w, "received")

\* The job file agrees with the log: an accepted job has its verdict there, and when `team
\* abort` has killed a run and returned, the job stays cancelled and "aborted" is the last
\* line for good.
JobAgreesWithLog ==
    /\ job.state = "accepted" => \E i \in DOMAIN lines : Tells(i, Coordinator, "accepted")
    /\ abort.killed /\ abort.pc = "done" =>
          /\ job.state = "cancelled"
          /\ lines # <<>> /\ Tells(Len(lines), Aborter, "aborted")
=============================================================================
