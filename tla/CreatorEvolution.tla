--------------------------- MODULE CreatorEvolution ---------------------------
(***************************************************************************)
(* One evolution run, from its first attempt to the last look at its       *)
(* result:                                                                 *)
(*                                                                         *)
(*   CreatorEvolutionService: run, verifyFresh    evolution-runtime.ts     *)
(*   loadRecord, prepareCandidate, sealCandidate,                          *)
(*   cleanup, record, verifyRecordedCandidate     evolution-git-host.ts    *)
(*                                                                         *)
(* Processes that share the workspace run it and look at its result; each  *)
(* call holds the lifecycle lock, which is taken to exclude the others     *)
(* (LifecycleLock says when it does not).  On disk are the candidate's     *)
(* branch and worktree, the baseline worktree, the preparation journal and *)
(* the record of the result.  A process may crash at every await; others   *)
(* may change the candidate's files, or move the workspace's base.  Host   *)
(* calls fail at most MaxFaults times, crashes included.                   *)
(*                                                                         *)
(* Files are abstracted to the set of edits in them: one for each attempt  *)
(* of a creator and one for each change from outside.  Digests are         *)
(* compared, so a change that was undone would pass; here none is undone.  *)
(* Protected assets are read from the candidate's worktree, so a change    *)
(* of one is a change of the candidate.  Calls that join one in flight     *)
(* get its answer and are left out, as are the receipts that identify the  *)
(* resources of a corrupt journal: an atomic rename leaves none.  A record *)
(* that is there and cannot be read, which loadRecord takes for none, is   *)
(* left out as well: the attempt that then starts would leave its own      *)
(* resources beside the record of an earlier one.                          *)
(***************************************************************************)
EXTENDS Naturals, FiniteSets

CONSTANTS
    Processes,    \* the processes that use the run
    Bases,        \* the commits the workspace may be at
    MaxAttempts,  \* bound: calls of run()
    MaxChecks,    \* bound: calls of verifyFresh()
    MaxFaults,    \* bound: host calls that throw, and crashes
    MaxEdits,     \* bound: changes of the candidate from outside
    None

VARIABLES
    disk,    \* branch, worktree, baseline, journal and record; the workspace's base
    call,    \* the call of each process, and what the process remembers
    holder,  \* the process that holds the lifecycle lock, or None
    spent,   \* attempts, checks, faults and edits so far
    passed   \* history: the snapshots that passed the evaluation

evolutionVars == <<disk, call, holder, spent, passed>>

Edit == {"creator", "outsider"} \X (1..(MaxAttempts + MaxEdits))
\* A commit is a base and the edits on top; a snapshot adds those not committed.
Commit == [base : Bases, edits : SUBSET Edit]
Snapshot == [commit : Commit, loose : SUBSET Edit]
Endings == {"failed", "cancelled", "stale", "rejected", "pr-ready"}
\* The cleanup of a result lists the candidate's resources, or none if there was no candidate.
Result == [status : Endings, recorded : BOOLEAN, cleanup : {"completed", "retained", "failed"},
           listed : BOOLEAN, of : Snapshot \cup {None}]
Disk == [branch : Commit \cup {None}, tree : (SUBSET Edit) \cup {None},
         baseline : Bases \cup {None}, journal : Bases \cup {None},
         record : Result \cup {None}, head : Bases]
Points == {"idle", "load", "verify", "base", "prepare", "baseline", "branch", "tree", "sweep",
           "create", "inspect", "seal", "sealed", "evaluate", "compare", "dispatch", "confirm",
           "reinspect", "dropBaseline", "dropTree", "dropBranch", "dropped", "record", "answered"}
Call == [pc : Points, op : {"run", "verifyFresh"}, base : Bases \cup {None},
         snapshot : Snapshot \cup {None}, prepared : BOOLEAN, verdict : {"pass", "reject"},
         retain : BOOLEAN, out : Result \cup {None}, got : Result \cup {None},
         tried : BOOLEAN, retained : BOOLEAN, settled : BOOLEAN, changed : BOOLEAN]

ASSUME EvolutionAssumption ==
    /\ MaxAttempts \in Nat /\ MaxChecks \in Nat /\ MaxFaults \in Nat /\ MaxEdits \in Nat
    /\ Bases # {}
    /\ None \notin Processes \cup Bases
    /\ None \notin Commit /\ None \notin Snapshot /\ None \notin Result
    /\ \A edits \in SUBSET Edit : edits # None

Idle == [pc |-> "idle", op |-> "run", base |-> None, snapshot |-> None, prepared |-> FALSE,
         verdict |-> "reject", retain |-> FALSE, out |-> None, got |-> None,
         tried |-> FALSE, retained |-> FALSE, settled |-> FALSE, changed |-> FALSE]

EvolutionInit ==
    /\ disk = [branch |-> None, tree |-> None, baseline |-> None, journal |-> None,
               record |-> None, head |-> CHOOSE b \in Bases : TRUE]
    /\ call = [p \in Processes |-> Idle]
    /\ holder = None
    /\ spent = [attempts |-> 0, checks |-> 0, faults |-> 0, edits |-> 0]
    /\ passed = {}

---------------------------------------------------------------------------
In(p, pc) == call[p].pc = pc
MoveTo(p, pc) == call' = [call EXCEPT ![p].pc = pc]
Spend(what) == spent' = [spent EXCEPT ![what] = @ + 1]
Faulty == spent.faults < MaxFaults /\ Spend("faults")

Plain(base) == [base |-> base, edits |-> {}]
Stands == disk.branch # None /\ disk.tree # None
OnDisk == [commit |-> disk.branch, loose |-> disk.tree]
Intact(r) == Stands /\ OnDisk = r.of
IsReady(r) == r.status = "pr-ready"
NothingLeft == disk.branch = None /\ disk.tree = None /\ disk.baseline = None

\* finish(): what is to be recorded, and whether there is a candidate to clean up; without
\* one the cleanup is completed as it is, with no resources.
Outcome(c, status) ==
    [c EXCEPT !.pc = IF c.prepared THEN "dropBaseline" ELSE "record",
              !.retain = status = "pr-ready",
              !.out = [status |-> status, recorded |-> FALSE, of |-> c.snapshot,
                       cleanup |-> "completed", listed |-> c.prepared]]
Finish(p, status) == call' = [call EXCEPT ![p] = Outcome(@, status)]
Start(p, op, pc, changed) ==
    /\ holder = None /\ holder' = p
    /\ call' = [call EXCEPT ![p] = [Idle EXCEPT !.op = op, !.pc = pc, !.changed = changed,
                                      !.got = call[p].got, !.retained = call[p].retained]]
Answer(p, result) == call' = [call EXCEPT ![p].pc = "answered", ![p].out = result]

\* A host call throws, or says that it failed: in an attempt that is the end.
Throws(p, pc, status) ==
    /\ In(p, pc) /\ Faulty
    /\ Finish(p, status)
    /\ UNCHANGED <<disk, holder, passed>>

---------------------------------------------------------------------------
\* run: the lock is taken.  changed notes whether the candidate that is recorded as ready
\* is another one by now.
Run(p) ==
    /\ In(p, "idle") /\ spent.attempts < MaxAttempts
    /\ Spend("attempts")
    /\ Start(p, "run", "load", disk.record # None /\ IsReady(disk.record)
                              /\ ~Intact(disk.record))
    /\ UNCHANGED <<disk, passed>>

\* loadRecord: a final record is the answer, a ready one is verified; the journal of an
\* attempt that was recorded is of no use.
LoadRecord(p) ==
    /\ In(p, "load")
    /\ IF disk.record = None
       THEN MoveTo(p, "base") /\ UNCHANGED disk
       ELSE /\ disk' = [disk EXCEPT !.journal = None]
            /\ IF IsReady(disk.record)
               THEN call' = [call EXCEPT ![p].pc = "verify", ![p].got = disk.record]
               ELSE Answer(p, disk.record)
    /\ UNCHANGED <<holder, spent, passed>>

\* A result that no longer stands: invalidateRecorded.
Invalidate(p) ==
    LET c == call[p]
        standing == [c EXCEPT !.prepared = TRUE, !.snapshot = c.got.of]
    IN  call' = [call EXCEPT ![p] = Outcome(standing, "stale")]

\* Slip: only the branch is looked at.
VerifyBranch(p) ==
    /\ In(p, "verify")
    /\ IF disk.branch = call[p].got.of.commit THEN Answer(p, call[p].got) ELSE Invalidate(p)
    /\ UNCHANGED <<disk, holder, spent, passed>>

\* verifyRecordedCandidate: branch and worktree are at the recorded commit, and nothing
\* in the worktree is uncommitted.  It may throw, or find the attestation too old.
VerifyRecorded(p) ==
    /\ In(p, "verify")
    /\ \/ /\ Intact(call[p].got) /\ call[p].got.of.loose = {}
          /\ Answer(p, call[p].got)
          /\ UNCHANGED spent
       \/ /\ ~(Intact(call[p].got) /\ call[p].got.of.loose = {})
          /\ Invalidate(p)
          /\ UNCHANGED spent
       \/ Faulty /\ Invalidate(p)
    /\ UNCHANGED <<disk, holder, passed>>

\* The configuration is valid, the signal not aborted; the base is where the workspace is.
ResolveBase(p) ==
    /\ In(p, "base")
    /\ call' = [call EXCEPT ![p].pc = "prepare", ![p].base = disk.head]
    /\ UNCHANGED <<disk, holder, spent, passed>>

---------------------------------------------------------------------------
\* The journal and everything it stands for are of this attempt's base.
Adoptable(base) ==
    /\ disk.journal = base
    /\ disk.baseline \in {None, base}
    /\ disk.branch \in {None, Plain(base)}

\* What removePreparationResources leaves: all is gone; without a journal only worktrees
\* are found, and a branch where one has it checked out.
Swept ==
    [disk EXCEPT !.tree = None, !.baseline = None,
                 !.branch = IF disk.journal = None /\ disk.tree = None THEN @ ELSE None]

\* What it leaves when it throws on the way; a checked-out branch cannot be deleted.  To die
\* in the middle of it is to die after it threw.
PartlySwept ==
    {[disk EXCEPT !.tree = t, !.baseline = b] :
        t \in {disk.tree, None}, b \in {disk.baseline, None}}

\* prepareCandidate: an earlier attempt's resources are adopted or removed.
Prepare(p) ==
    /\ In(p, "prepare")
    /\ \/ /\ disk' = [IF Adoptable(call[p].base) THEN disk ELSE Swept
                         EXCEPT !.journal = call[p].base]
          /\ MoveTo(p, "baseline")
          /\ UNCHANGED spent
       \/ /\ ~Adoptable(call[p].base) /\ Faulty
          /\ disk' \in PartlySwept
          /\ Finish(p, "failed")
    /\ UNCHANGED <<holder, passed>>

\* ensureWorktree, ensureBranch, ensureWorktree: what is there is taken as it is.
Acquire(p) ==
    /\ LET base == call[p].base
       IN  \/ /\ In(p, "baseline") /\ MoveTo(p, "branch")
              /\ disk' = [disk EXCEPT !.baseline = base]
           \/ /\ In(p, "branch") /\ disk.branch \in {None, Plain(base)}
              /\ MoveTo(p, "tree")
              /\ disk' = [disk EXCEPT !.branch = Plain(base)]
           \/ /\ In(p, "tree")
              /\ call' = [call EXCEPT ![p].pc = "create", ![p].prepared = TRUE]
              /\ disk' = [disk EXCEPT !.tree = IF @ = None THEN {} ELSE @]
    /\ UNCHANGED <<holder, spent, passed>>

AcquireFails(p) ==
    /\ \/ call[p].pc \in {"baseline", "branch", "tree"} /\ Faulty
       \/ In(p, "branch") /\ disk.branch \notin {None, Plain(call[p].base)} /\ UNCHANGED spent
    /\ MoveTo(p, "sweep")
    /\ UNCHANGED <<disk, holder, passed>>

\* Slip: the journal is removed whether or not the rest could be.
SweepAndForget(p) ==
    /\ In(p, "sweep")
    /\ \/ disk' = [Swept EXCEPT !.journal = None] /\ UNCHANGED spent
       \/ Faulty /\ disk' \in {[d EXCEPT !.journal = None] : d \in PartlySwept}
    /\ Finish(p, "failed")
    /\ UNCHANGED <<holder, passed>>

\* The catch of prepareCandidate: what was acquired is removed with the journal, or the
\* journal is kept; either way the attempt has no candidate and goes on to record that.
Sweep(p) ==
    /\ In(p, "sweep")
    /\ \/ disk' = [Swept EXCEPT !.journal = None] /\ UNCHANGED spent
       \/ Faulty /\ disk' \in PartlySwept
    /\ Finish(p, "failed")
    /\ UNCHANGED <<holder, passed>>

---------------------------------------------------------------------------
\* The creator's edits are written into the worktree, wherever it then ends.
RunCreator(p) ==
    /\ In(p, "create")
    /\ disk' = [disk EXCEPT !.tree = @ \cup {<<"creator", spent.attempts>>}]
    /\ \/ MoveTo(p, "inspect") /\ UNCHANGED spent
       \/ Faulty /\ \E status \in {"failed", "cancelled"} : Finish(p, status)
    /\ UNCHANGED <<holder, passed>>

Inspect(p) ==
    /\ In(p, "inspect")
    /\ call' = [call EXCEPT ![p].pc = "seal", ![p].snapshot = OnDisk]
    /\ UNCHANGED <<disk, holder, spent, passed>>

\* sealCandidate commits the changed paths as they are now.
Seal(p) ==
    /\ In(p, "seal")
    /\ \E late \in SUBSET (disk.tree \ call[p].snapshot.loose) :
          disk' = [disk EXCEPT !.branch.edits = @ \cup call[p].snapshot.loose \cup late,
                               !.tree = @ \ (call[p].snapshot.loose \cup late)]
    /\ MoveTo(p, "sealed")
    /\ UNCHANGED <<holder, spent, passed>>

InspectSealed(p) ==
    /\ In(p, "sealed")
    /\ call' = [call EXCEPT ![p].pc = "evaluate", ![p].snapshot = OnDisk]
    /\ UNCHANGED <<disk, holder, spent, passed>>

\* The evaluator reads what is in the worktree: it passes, or not.
Evaluate(p) ==
    /\ In(p, "evaluate")
    /\ \/ /\ call' = [call EXCEPT ![p].pc = "compare", ![p].verdict = "pass"]
          /\ passed' = passed \cup {OnDisk}
       \/ /\ call' = [call EXCEPT ![p].pc = "compare", ![p].verdict = "reject"]
          /\ UNCHANGED passed
    /\ UNCHANGED <<disk, holder, spent>>

\* What was evaluated is what was sealed; then the scores and the proof decide.
Compare(p) ==
    /\ In(p, "compare")
    /\ IF OnDisk # call[p].snapshot THEN Finish(p, "stale")
       ELSE IF call[p].verdict = "reject" THEN Finish(p, "rejected") ELSE MoveTo(p, "dispatch")
    /\ UNCHANGED <<disk, holder, spent, passed>>

\* The isolation is attested, and the hooks let the proposal proceed.
Dispatch(p) ==
    /\ In(p, "dispatch")
    /\ MoveTo(p, "confirm")
    /\ UNCHANGED <<disk, holder, spent, passed>>

Confirm(p) ==
    /\ In(p, "confirm")
    /\ Finish(p, IF OnDisk = call[p].snapshot THEN "pr-ready" ELSE "stale")
    /\ UNCHANGED <<disk, holder, spent, passed>>

AttemptFails(p) ==
    \/ \E status \in {"failed", "cancelled"} : Throws(p, "base", status)
    \/ \E pc \in {"prepare", "create", "inspect", "seal", "sealed", "compare",
                 "dispatch"} :
           Throws(p, pc, "failed")
    \/ \E status \in {"failed", "cancelled"} : Throws(p, "evaluate", status)
    \/ Throws(p, "confirm", "stale")

---------------------------------------------------------------------------
\* Slip: a worktree that cannot be removed is passed over.
DropIfPossible(p, what, next, fails) ==
    /\ \/ disk' = [disk EXCEPT ![what] = IF fails THEN @ ELSE None] /\ UNCHANGED spent
       \/ disk[what] # None /\ Faulty /\ UNCHANGED disk
    /\ MoveTo(p, next)

\* cleanupCandidate: a resource is removed, if it can be.
Drop(p, what, next, fails) ==
    \/ /\ disk' = [disk EXCEPT ![what] = IF fails THEN @ ELSE None]
       /\ call' = [call EXCEPT ![p].pc = next, ![p].out.cleanup = IF fails THEN "failed" ELSE @]
       /\ UNCHANGED spent
    \/ /\ disk[what] # None /\ Faulty
       /\ call' = [call EXCEPT ![p].pc = next, ![p].out.cleanup = "failed"]
       /\ UNCHANGED disk

\* The baseline goes first, the candidate only if it is not retained.
DropBaseline(p) ==
    /\ In(p, "dropBaseline")
    /\ Drop(p, "baseline", IF call[p].retain THEN "dropped" ELSE "dropTree", FALSE)
    /\ UNCHANGED <<holder, passed>>

DropTree(p) ==
    /\ In(p, "dropTree")
    /\ Drop(p, "tree", "dropBranch", FALSE)
    /\ UNCHANGED <<holder, passed>>

\* A branch that a worktree has checked out cannot be deleted.
DropBranch(p) ==
    /\ In(p, "dropBranch")
    /\ Drop(p, "branch", "dropped", disk.branch # None /\ disk.tree # None)
    /\ UNCHANGED <<holder, passed>>

\* The rest of finish: a ready result whose cleanup failed is none.  The cleanup after a
\* record that failed is the end.
CleanedUp(p) ==
    /\ In(p, "dropped")
    /\ LET out == call[p].out
           failed == out.cleanup = "failed"
       IN  /\ disk' = [disk EXCEPT !.journal = IF call[p].retain \/ failed THEN @ ELSE None]
           /\ call' = [call EXCEPT
                 ![p].pc = IF call[p].tried THEN "answered" ELSE "record",
                 ![p].out = [out EXCEPT
                    !.status = IF IsReady(out) /\ failed THEN "failed" ELSE out.status,
                    !.cleanup = IF call[p].retain /\ ~failed THEN "retained" ELSE out.cleanup]]
    /\ UNCHANGED <<holder, spent, passed>>

\* record: the artifact is renamed into place, then the journal is removed.
Record(p) ==
    /\ In(p, "record")
    /\ LET result == [call[p].out EXCEPT !.recorded = TRUE]
       IN  /\ disk' = [disk EXCEPT !.record = result, !.journal = None]
           /\ call' = [call EXCEPT ![p].pc = "answered", ![p].out = result,
                  ![p].retained = IsReady(result) /\ result.cleanup = "retained"]
    /\ UNCHANGED <<holder, spent, passed>>

\* record throws, before or after the rename.  What was retained is cleaned up after all.
RecordFails(p) ==
    /\ In(p, "record") /\ Faulty
    /\ \/ UNCHANGED disk
       \/ disk' = [disk EXCEPT !.record = [call[p].out EXCEPT !.recorded = TRUE]]
    /\ LET out == call[p].out
           again == call[p].prepared /\ call[p].retain
       IN  call' = [call EXCEPT
              ![p].pc = IF again THEN "dropBaseline" ELSE "answered",
              ![p].tried = TRUE, ![p].retain = FALSE,
              ![p].out = [out EXCEPT !.status = "failed",
                                     !.cleanup = IF again THEN "completed" ELSE out.cleanup]]
    /\ UNCHANGED <<holder, passed>>

---------------------------------------------------------------------------
\* verifyFresh of the ready result that the caller holds, unless its outcome is known.
VerifyFresh(p) ==
    /\ In(p, "idle") /\ spent.checks < MaxChecks
    /\ call[p].got # None /\ ~call[p].settled
    /\ Spend("checks")
    /\ Start(p, "verifyFresh", IF call[p].retained THEN "reinspect" ELSE "verify",
             ~Intact(call[p].got))
    /\ UNCHANGED <<disk, passed>>

\* With the execution still at hand the candidate is compared with its own snapshot.
Reinspect(p) ==
    /\ In(p, "reinspect")
    /\ \/ /\ Intact(call[p].got)
          /\ call' = [call EXCEPT ![p].pc = "answered", ![p].out = call[p].got,
                                  ![p].retained = FALSE]
          /\ UNCHANGED spent
       \/ ~Intact(call[p].got) /\ Invalidate(p) /\ UNCHANGED spent
       \/ Faulty /\ Invalidate(p)
    /\ UNCHANGED <<disk, holder, passed>>

\* The call returns, and its lock is released.
Return(p) ==
    /\ In(p, "answered")
    /\ holder' = None
    /\ LET c == call[p]
           ready == IsReady(c.out)
       IN  call' = [call EXCEPT ![p] = [Idle EXCEPT
              !.got = IF c.op = "verifyFresh" THEN c.got ELSE IF ready THEN c.out ELSE None,
              !.settled = c.op = "verifyFresh" /\ ~ready,
              !.retained = c.retained]]
    /\ UNCHANGED <<disk, spent, passed>>

\* The process dies and forgets; the lock is taken over from it.
ServiceCrash(p) ==
    /\ call[p] # Idle /\ Faulty
    /\ call' = [call EXCEPT ![p] = Idle]
    /\ holder' = IF holder = p THEN None ELSE holder
    /\ UNCHANGED <<disk, passed>>

\* Somebody else changes a file of the candidate.
Meddle ==
    /\ disk.tree # None /\ spent.edits < MaxEdits
    /\ Spend("edits")
    /\ disk' = [disk EXCEPT !.tree = @ \cup {<<"outsider", spent.edits + 1>>}]
    /\ UNCHANGED <<call, holder, passed>>

\* The workspace moves on.
MoveBase ==
    /\ spent.edits < MaxEdits
    /\ Spend("edits")
    /\ \E b \in Bases \ {disk.head} : disk' = [disk EXCEPT !.head = b]
    /\ UNCHANGED <<call, holder, passed>>

---------------------------------------------------------------------------
AttemptStep(p) ==
    \/ LoadRecord(p) \/ VerifyRecorded(p) \/ ResolveBase(p) \/ Prepare(p) \/ Acquire(p)
    \/ AcquireFails(p) \/ Sweep(p) \/ RunCreator(p) \/ Inspect(p) \/ Seal(p)
    \/ InspectSealed(p) \/ Evaluate(p) \/ Compare(p) \/ Dispatch(p) \/ Confirm(p)
    \/ AttemptFails(p)

FinishStep(p) ==
    DropBaseline(p) \/ DropTree(p) \/ DropBranch(p) \/ CleanedUp(p) \/ Record(p) \/ RecordFails(p)

EvolutionNext ==
    \/ \E p \in Processes :
          Run(p) \/ AttemptStep(p) \/ FinishStep(p) \/ VerifyFresh(p) \/ Reinspect(p)
          \/ Return(p) \/ ServiceCrash(p)
    \/ Meddle \/ MoveBase

EvolutionSpec == EvolutionInit /\ [][EvolutionNext]_evolutionVars

---------------------------------------------------------------------------
EvolutionTypeOK ==
    /\ disk \in Disk
    /\ call \in [Processes -> Call]
    /\ holder \in Processes \cup {None}
    /\ spent \in [attempts : 0..MaxAttempts, checks : 0..MaxChecks,
                  faults : 0..MaxFaults, edits : 0..MaxEdits]
    /\ passed \subseteq Snapshot

\* What an answer says of the candidate is true of the disk, across crashes, retries and
\* failed calls: a cleanup that lists resources and is completed has left nothing, of this
\* attempt or an earlier one, and a candidate said to be retained is there.  An answer that
\* lists no resources says "completed" of nothing: a clean-up inside prepareCandidate may
\* have failed before it, or an earlier attempt may have died.
AnswersMatchDisk ==
    \A p \in Processes : In(p, "answered") =>
        /\ call[p].out.cleanup = "completed" /\ call[p].out.listed => NothingLeft
        /\ call[p].out.cleanup = "retained" /\ IsReady(call[p].out) => Stands

\* At any moment, that of a crash included, what is on disk is known to the journal, which
\* the next attempt prepares from, or to a record that does not claim to have removed it:
\* its cleanup retained the candidate or failed.  One exception is the code's own: the
\* record of an attempt without candidate takes the place of the journal and lists nothing,
\* even if that attempt's clean-up failed or an earlier attempt had left something.
LeftoversAreKnown ==
    \/ NothingLeft
    \/ disk.journal # None
    \/ disk.record # None /\ (disk.record.cleanup # "completed" \/ ~disk.record.listed)

\* A candidate that is recorded or answered as ready is, to the last edit, what was
\* evaluated with success, and had not been changed when the call began.
ReadyIsAsEvaluated ==
    /\ disk.record # None /\ IsReady(disk.record) => disk.record.of \in passed
    /\ \A p \in Processes : In(p, "answered") /\ IsReady(call[p].out) =>
          call[p].out.of \in passed /\ ~call[p].changed

=============================================================================
