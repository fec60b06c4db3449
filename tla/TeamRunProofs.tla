----------------------------- MODULE TeamRunProofs -----------------------------
(***************************************************************************)
(* The log of a team run is a chain unless its order was put at risk, a    *)
(* verdict covers the work of every worker, and the job file agrees with   *)
(* the log: for any number of workers and lines.                           *)
(*                                                                         *)
(* While no live writer lost its lock, no line was cut short and no .tip   *)
(* was left behind, whoever is past the lock is its owner, so it alone is  *)
(* there, and .tip names the last line, or none, unless that one is about  *)
(* to write it (LogInv).  Around that, who is between two appends rests,   *)
(* the workers start and end within "join", and no process comes back once *)
(* it has gone.  A line that is cut is lost to whoever appends next; the   *)
(* others stay (LineEffect).                                               *)
(***************************************************************************)
EXTENDS TeamRun, SequenceTheorems, TLAPS

\* Past the lock; past the line; the coordinator past its dispatch.
Inside == {"record", "read", "append", "tip", "drop", "unlink", "dropFailed", "unlinkFailed"}
Written == {"tip", "drop", "unlink", "ok"}
Ended == {"erroring", "verdict", "finish", "over"}

\* A process that is doing something with the log is alive.
BusyLive == \A p \in Writers : writer[p].pc # "idle" => p \in living
\* Whoever is past the lock is its owner; .tip, if there is one, and the line read there are
\* the last.
Held == \A p \in Writers : writer[p].pc \in Inside => lock # NoOwner /\ lock.owner = p
TipFollows == (\A p \in Writers : writer[p].pc # "tip") => tip \in {0, Len(lines)}
PrevFollows == \A p \in Writers : writer[p].pc \in {"append", "tip"} => writer[p].prev = Len(lines)
LogInv ==
    /\ LogTypeOK /\ BusyLive
    /\ rifts = {} => Held /\ TipFollows /\ PrevFollows /\ ChainVerifies

\* Who is between two appends rests.
Resting ==
    /\ launcher # "starting" => writer[Launcher].pc = "idle"
    /\ coordinator.pc \in {"absent", "await", "join", "finish", "over"} =>
          writer[Coordinator].pc = "idle"
    /\ \A w \in Workers :
          team[w].pc \in {"none", "unspawned", "working", "over"} => writer[w].pc = "idle"
    /\ abort.pc # "aborted" => writer[Aborter].pc = "idle"

\* Who has gone stays gone, and the workers run within "join".
Lives ==
    /\ coordinator.pc \in {"absent", "over"} => Coordinator \notin living
    /\ launcher = "over" => Launcher \notin living
    /\ \A w \in Workers : w \in living => team[w].pc \in {"received", "working", "action"}
    /\ coordinator.pc \in {"absent", "starting", "await", "running"} =>
          \A w \in Workers : team[w].pc = "none"
    /\ launcher \in {"starting", "spawn"} => coordinator.pc = "absent"
    /\ job.known \/ abort.job.known => launcher = "over"
    /\ abort.pc \notin {"idle", "done", "failed"} => Aborter \in living

\* There is a line of p with this text.
Logged(p, what) == \E i \in DOMAIN lines : Tells(i, p, what)

\* No worker is left once the coordinator has a verdict, or the log has it.
Closed ==
    coordinator.pc \in {"erroring", "verdict"} \/ (\E v \in Verdicts : Logged(Coordinator, v))
    => /\ coordinator.pc \in {"erroring", "verdict", "finish", "over"}
       /\ \A w \in Workers : w \notin living /\ team[w].pc # "unspawned"

\* What the coordinator is about to append.
Said ==
    writer[Coordinator].pc # "idle" =>
        /\ writer[Coordinator].what \in Verdicts => coordinator.pc \in {"erroring", "verdict"}
        /\ writer[Coordinator].what = "accepted" =>
              coordinator.pc = "verdict" /\ \A w \in Workers : team[w].status = "completed"
        /\ coordinator.pc = "verdict" => writer[Coordinator].what \in Verdicts

\* Who records tool calls, or completed, has its task in the log.
Received ==
    \A w \in Workers :
        /\ team[w].status # "none" => team[w].pc = "over"
        /\ team[w].pc = "received" /\ writer[w].pc # "idle" => writer[w].what = "received"
        /\ \/ team[w].pc \in {"working", "action"} \/ team[w].status = "completed"
           \/ team[w].pc = "received" /\ writer[w].pc \in Written
           => Logged(w, "received")

\* A verdict that was returned, or that the job file repeats, is in the log.
Recorded ==
    /\ coordinator.pc = "verdict" /\ writer[Coordinator].pc \in Written =>
          Logged(Coordinator, writer[Coordinator].what)
    /\ coordinator.verdict = "accepted" \/ job.state = "accepted" => Logged(Coordinator, "accepted")

\* Of a run that was killed only the aborter is left, and its line is the last.
Killed ==
    abort.killed =>
        /\ living \subseteq {Aborter} /\ launcher = "over" /\ coordinator.pc = "over"
        /\ abort.pc \in {"clear", "aborted", "done"} => job.state = "cancelled"
        /\ abort.pc = "done" \/ (abort.pc = "aborted" /\ writer[Aborter].pc \in Written) =>
              lines # <<>> /\ Tells(Len(lines), Aborter, "aborted")
        /\ abort.pc = "aborted" => writer[Aborter].what = "aborted"
        /\ abort.pc \notin {"idle", "signal"}

\* Only a job that names its process is signalled.
Sig == abort.pc = "signal" => abort.job.known

IInv == LogInv /\ Resting /\ Lives /\ Closed /\ Said /\ Received /\ Recorded /\ Killed /\ Sig

---------------------------------------------------------------------------
\* Starting to append and coming to rest keep `writer` well-formed.
LEMMA CallTypes ==
    ASSUME LogTypeOK, NEW p \in Writers, NEW what \in Texts
    PROVE  /\ Appending(writer, p, what) \in [Writers -> Writer]
           /\ \A q \in Writers : Appending(writer, p, what)[q].prev <= Len(lines)
           /\ Rested(writer, p) \in [Writers -> Writer]
           /\ \A q \in Writers : Rested(writer, p)[q].prev <= Len(lines)
<1>1. /\ Len(lines) \in Nat
      /\ \A pc \in {"idle", "open"} : pc \in Places
      /\ "started" \in Texts
  BY DEF LogTypeOK, Places, Texts, RunStatuses
<1>2. QED
  BY <1>1 DEF LogTypeOK, Writer, Appending, Rested, AtRest

LEMMA PerishTypes ==
    ASSUME LogTypeOK, NEW dead, Perish(dead)
    PROVE  /\ writer' \in [Writers -> Writer]
           /\ \A q \in Writers : writer'[q].prev <= Len(lines)
           /\ living' \subseteq Writers
           /\ rifts' \subseteq {"unlocked", "untipped", "torn"}
<1>1. Len(lines) \in Nat /\ "idle" \in Places /\ "started" \in Texts
  BY DEF LogTypeOK, Places, Texts, RunStatuses
<1>2. QED
  BY <1>1 DEF LogTypeOK, Writer, Perish, AtRest

LEMMA ProceedTypes ==
    ASSUME LogTypeOK, NEW p \in Writers, NEW pc \in Places, Proceed(p, pc)
    PROVE  /\ writer' \in [Writers -> Writer]
           /\ \A q \in Writers : writer'[q].prev <= Len(lines)
BY DEF LogTypeOK, Writer, Proceed

\* A line comes after the last one, or replaces it if that was cut; the others stay.
LEMMA ExtendEffect ==
    ASSUME LogTypeOK, NEW p \in Writers, NEW shape \in {"whole", "cut", "glued"},
           Extend(p, shape)
    PROVE  /\ lines' \in Seq(Line) /\ Len(lines) \in Nat /\ Len(lines') \in Nat
           /\ Len(lines') > 0 /\ Len(lines) <= Len(lines')
           /\ Len(lines') = Len(lines) + 1 \/ (Len(lines') = Len(lines) /\ LastIs("cut"))
           /\ DOMAIN lines = 1..Len(lines) /\ DOMAIN lines' = 1..Len(lines')
           /\ \A i \in DOMAIN lines' : i # Len(lines') => i \in DOMAIN lines /\ lines'[i] = lines[i]
           /\ lines'[Len(lines')] =
                 [by |-> p, what |-> writer[p].what, prev |-> writer[p].prev, shape |-> shape]
<1> DEFINE line == [by |-> p, what |-> writer[p].what, prev |-> writer[p].prev, shape |-> shape]
<1>1. lines \in Seq(Line) /\ line \in Line
  BY DEF LogTypeOK, Writer, Line
<1>2. Len(lines) \in Nat /\ DOMAIN lines = 1..Len(lines)
  BY <1>1
<1>3. CASE LastIs("cut")
  <2>1. lines' = [lines EXCEPT ![Len(lines)] = line]
    BY <1>3 DEF Extend
  <2>2. Len(lines) \in 1..Len(lines)
    BY <1>1, <1>2, <1>3 DEF LastIs
  <2>3. lines' \in Seq(Line) /\ Len(lines') = Len(lines)
    <3> HIDE DEF line
    <3>1. QED
      BY <1>1, <2>1, <2>2, ExceptSeq
  <2>e. \A j \in 1..Len(lines) : lines'[j] = IF j = Len(lines) THEN line ELSE lines[j]
    <3> HIDE DEF line
    <3>1. QED
      BY <1>1, <2>1, <2>2, ExceptSeq
  <2>4. DOMAIN lines' = 1..Len(lines')
    BY <2>3
  <2>5. lines'[Len(lines')] = line /\ Len(lines') > 0
    <3> HIDE DEF line
    <3>1. lines'[Len(lines)] = line
      BY <2>2, <2>e
    <3>2. Len(lines) > 0
      BY <1>2, <2>2
    <3>3. Len(lines') = Len(lines)
      BY <2>3
    <3>4. QED
      BY <3>1, <3>2, <3>3
  <2>6. \A i \in DOMAIN lines' : i # Len(lines') => i \in DOMAIN lines /\ lines'[i] = lines[i]
    <3> HIDE DEF line
    <3>1. QED
      BY <1>2, <2>3, <2>e, <2>4
  <2>7. Len(lines') \in Nat /\ Len(lines) <= Len(lines')
    <3>1. Len(lines') = Len(lines)
      BY <2>3
    <3>2. QED
      BY <1>2, <3>1
  <2>8. QED
    BY <1>2, <1>3, <2>3, <2>4, <2>5, <2>6, <2>7
<1>4. CASE ~LastIs("cut")
  <2>1. lines' = Append(lines, line)
    BY <1>4 DEF Extend
  <2>2. /\ lines' \in Seq(Line) /\ Len(lines') = Len(lines) + 1
        /\ \A i \in 1..Len(lines) : lines'[i] = lines[i]
        /\ lines'[Len(lines) + 1] = line
    <3> HIDE DEF line
    <3>1. QED
      BY <1>1, <2>1
  <2>3. DOMAIN lines' = 1..Len(lines')
    BY <2>2
  <2>4. QED
    BY <1>2, <2>2, <2>3
<1>5. QED
  BY <1>3, <1>4

\* What every process may do with the log keeps the log well-formed.
LEMMA AppendTypeStep ==
    ASSUME LogTypeOK, NEW p \in Writers, AppendStep(p)
    PROVE  LogTypeOK'
<1>0. Places = {"idle", "open", "inspect", "reclaim", "record", "read", "append", "tip", "drop",
                "unlink", "ok", "dropFailed", "unlinkFailed", "failed"}
  BY DEF Places
<1>1. CASE OpenAppendLock(p)
  <2>1. PICK pc \in Places : Proceed(p, pc)
    BY <1>0, <1>1 DEF OpenAppendLock
  <2>2. lock' \in Lock
    <3>r. [owner |-> p, written |-> FALSE] \in [owner : Writers, written : BOOLEAN]
      OBVIOUS
    <3>1. CASE lock = NoOwner
      BY <1>1, <3>r, <3>1 DEF OpenAppendLock, Lock
    <3>2. CASE lock # NoOwner
      BY <1>1, <3>2 DEF OpenAppendLock, LogTypeOK
    <3>3. QED
      BY <3>1, <3>2
  <2>3. UNCHANGED <<lines, tip, living, rifts>>
    BY <1>1 DEF OpenAppendLock
  <2>4. QED
    BY <2>1, <2>2, <2>3, ProceedTypes DEF LogTypeOK
<1>2. CASE InspectAppendLock(p) \/ CheckAppendLock(p)
  <2>1. PICK pc \in Places : Proceed(p, pc)
    BY <1>0, <1>2 DEF InspectAppendLock, CheckAppendLock, Drops
  <2>2. QED
    BY <2>1, <1>2, ProceedTypes DEF InspectAppendLock, CheckAppendLock, LogTypeOK
<1>3. CASE ReclaimAppendLock(p) \/ DropAppendLock(p) \/ AppendLockFails(p)
  <2>1. PICK pc \in Places : Proceed(p, pc)
    BY <1>0, <1>3 DEF ReclaimAppendLock, DropAppendLock, AppendLockFails, Drops
  <2>2. /\ lock' \in {lock, NoOwner} /\ rifts' \subseteq rifts \cup {"unlocked"}
        /\ UNCHANGED <<lines, tip, living>>
    BY <1>3 DEF ReclaimAppendLock, DropAppendLock, AppendLockFails, UnlinkAppendLock
  <2>3. QED
    BY <2>1, <2>2, ProceedTypes DEF LogTypeOK, Lock
<1>4. CASE RecordOwner(p)
  <2>1. Proceed(p, "read") /\ "read" \in Places
    BY <1>0, <1>4 DEF RecordOwner
  <2>2. lock' \in Lock
    BY <1>4 DEF RecordOwner, LogTypeOK, Lock
  <2>3. QED
    BY <2>1, <2>2, <1>4, ProceedTypes DEF RecordOwner, LogTypeOK
<1>5. CASE ReadTip(p)
  <2> DEFINE place == IF tip # 0 THEN tip ELSE IF LastIs("whole") THEN Len(lines) ELSE 0
  <2>1. place \in 0..Len(lines) /\ tip' \in 0..Len(lines) /\ Len(lines) \in Nat
    BY <1>5 DEF ReadTip, LogTypeOK
  <2>2. writer' = [writer EXCEPT ![p] = [pc |-> "append", what |-> @.what, prev |-> place]]
    BY <1>5 DEF ReadTip
  <2> HIDE DEF place
  <2>3. QED
    BY <2>1, <2>2, <1>0, <1>5 DEF ReadTip, LogTypeOK, Writer
<1>6. CASE AppendLine(p)
  <2>1. /\ lines' \in Seq(Line) /\ Len(lines) \in Nat /\ Len(lines') \in Nat
        /\ Len(lines) <= Len(lines')
    BY <1>6, ExtendEffect DEF AppendLine
  <2>2. writer' = [writer EXCEPT ![p] = [pc |-> "tip", what |-> @.what, prev |-> Len(lines')]]
    BY <1>6 DEF AppendLine
  <2>3. /\ writer' \in [Writers -> Writer]
        /\ \A q \in Writers : writer'[q].prev <= Len(lines')
    <3> DEFINE n == Len(lines')
    <3>1. n \in Nat /\ Len(lines) <= n
      BY <2>1
    <3>2. writer' = [writer EXCEPT ![p] = [pc |-> "tip", what |-> @.what, prev |-> n]]
      BY <2>2
    <3> HIDE DEF n
    <3>3. writer' \in [Writers -> Writer] /\ \A q \in Writers : writer'[q].prev <= n
      BY <2>1, <3>1, <3>2, <1>0 DEF LogTypeOK, Writer
    <3>4. QED
      BY <3>3 DEF n
  <2>4. UNCHANGED <<tip, lock, living, rifts>>
    BY <1>6 DEF AppendLine
  <2>5. QED
    BY <2>1, <2>3, <2>4 DEF LogTypeOK
<1>7. CASE AppendFails(p)
  <2>1. Proceed(p, "dropFailed") /\ "dropFailed" \in Places /\ UNCHANGED <<tip, lock, living>>
    BY <1>0, <1>7 DEF AppendFails
  <2>2. /\ lines' \in Seq(Line) /\ Len(lines) \in Nat /\ Len(lines') \in Nat
        /\ Len(lines) <= Len(lines') /\ rifts' \subseteq rifts \cup {"torn"}
    <3>1. CASE UNCHANGED <<lines, rifts>>
      BY <3>1 DEF LogTypeOK
    <3>2. CASE Extend(p, "cut") /\ rifts' = rifts \cup {"torn"}
      BY <3>2, ExtendEffect
    <3>3. (UNCHANGED <<lines, rifts>>) \/ (Extend(p, "cut") /\ rifts' = rifts \cup {"torn"})
      BY <1>7 DEF AppendFails
    <3>4. QED
      BY <3>1, <3>2, <3>3
  <2>3. QED
    BY <2>1, <2>2, ProceedTypes DEF LogTypeOK, Writer
<1>8. CASE WriteTip(p) \/ TipFails(p)
  <2>1. PICK pc \in Places : Proceed(p, pc)
    BY <1>0, <1>8 DEF WriteTip, TipFails
  <2>2. /\ tip' \in 0..Len(lines) /\ rifts' \subseteq rifts \cup {"untipped"}
        /\ UNCHANGED <<lines, lock, living>>
    BY <1>8 DEF WriteTip, TipFails, LogTypeOK, Writer
  <2>3. QED
    BY <2>1, <2>2, ProceedTypes DEF LogTypeOK
<1>9. QED
  BY <1>1, <1>2, <1>3, <1>4, <1>5, <1>6, <1>7, <1>8 DEF AppendStep

\* So does every other step, which lets a process start to append, rest or die.
LEMMA QuietTypes ==
    ASSUME LogTypeOK, NEW p \in Writers, NEW what \in Texts,
           writer' \in {writer, Appending(writer, p, what), Rested(writer, p)},
           lines' = lines, tip' = tip, lock' \in {lock, NoOwner},
           living' \subseteq Writers, rifts' \subseteq {"unlocked", "untipped", "torn"}
    PROVE  LogTypeOK'
BY CallTypes DEF LogTypeOK, Lock

\* Every step keeps the state well-formed.
LEMMA TeamTypeStep ==
    ASSUME TeamTypeOK, [TeamNext]_teamVars
    PROVE  TeamTypeOK'
<1> USE TeamAssumption
<1>0. LogTypeOK /\ living \subseteq Writers /\ rifts \subseteq {"unlocked", "untipped", "torn"}
  BY DEF TeamTypeOK, LogTypeOK
<1>s. /\ {"started", "running", "accepted", "killed", "errored", "aborted", "received", "action"}
            \subseteq Texts
      /\ DispatchStatus \in Texts
  BY DEF Texts, RunStatuses, Steps, DispatchStatus
<1>1. CASE \E p \in Writers : AppendStep(p) /\ UNCHANGED runVars
  BY <1>0, <1>1, AppendTypeStep DEF TeamTypeOK, runVars
<1>2. CASE DescribeJob \/ SpawnCoordinator \/ PublishJob
  <2>1. /\ writer' \in {writer, Rested(writer, Launcher)}
        /\ living' \subseteq Writers /\ UNCHANGED <<lines, tip, lock, rifts>>
    BY <1>0, <1>2 DEF DescribeJob, SpawnCoordinator, PublishJob, Exit
  <2>2. LogTypeOK'
    BY <1>0, <1>s, <2>1, QuietTypes
  <2>3. job' \in Job
    <3>1. /\ [state |-> "starting", known |-> FALSE] \in Job
          /\ [state |-> "running", known |-> TRUE] \in Job
          /\ [job EXCEPT !.state = "errored"] \in Job
      BY DEF Job, TeamTypeOK
    <3>2. QED
      BY <1>2, <3>1 DEF DescribeJob, SpawnCoordinator, PublishJob, TeamTypeOK
  <2>4. coordinator' \in Coordinating
    BY <1>2 DEF DescribeJob, SpawnCoordinator, PublishJob, TeamTypeOK, Coordinating
  <2>5. QED
    BY <2>2, <2>3, <2>4, <1>2 DEF DescribeJob, SpawnCoordinator, PublishJob, TeamTypeOK
<1>4. CASE BeginDispatch \/ PrepareWorkspaces \/ Join
  <2>1. /\ \E what \in Texts :
             writer' \in {Appending(writer, Coordinator, what), Rested(writer, Coordinator)}
        /\ UNCHANGED <<lines, tip, lock, living, rifts>>
    BY <1>4, <1>s DEF BeginDispatch, PrepareWorkspaces, Join, Coordinate
  <2>2. LogTypeOK'
    BY <1>0, <2>1, QuietTypes
  <2>3. QED
    BY <2>2, <1>4
       DEF BeginDispatch, PrepareWorkspaces, Join, Coordinate, TeamTypeOK, Coordinating
<1>5. CASE GiveUpStart \/ EndDispatch \/ CompleteJob
  <2>1. /\ writer' \in {writer, Rested(writer, Coordinator)}
        /\ living' \subseteq living /\ UNCHANGED <<lines, tip, lock, rifts>>
    BY <1>5 DEF GiveUpStart, EndDispatch, CompleteJob, Exit
  <2>2. LogTypeOK'
    BY <1>0, <1>s, <2>1, QuietTypes
  <2>3. CASE GiveUpStart
    BY <2>2, <2>3 DEF GiveUpStart, TeamTypeOK, Coordinating, Gone
  <2>4. CASE CompleteJob
    BY <2>2, <2>4 DEF CompleteJob, TeamTypeOK, Coordinating, Job, NoJob, Gone
  <2>5. CASE EndDispatch
    <3>1. writer[Coordinator].what \in Texts
      BY <1>0 DEF LogTypeOK, Writer
    <3>2. QED
      BY <3>1, <2>2, <2>5 DEF EndDispatch, TeamTypeOK, Coordinating
  <2>6. QED
    BY <1>5, <2>3, <2>4, <2>5
<1>6. CASE CoordinatorDies
  <2>1. LogTypeOK'
    BY <1>0, <1>6, PerishTypes DEF CoordinatorDies, LogTypeOK
  <2>2. QED
    BY <2>1, <1>6 DEF CoordinatorDies, TeamTypeOK, Coordinating, Gone
<1>7. ASSUME NEW w \in Workers, SpawnWorker(w) \/ Work(w) \/ RecordAction(w) \/ EndWork(w)
      PROVE  TeamTypeOK'
  <2>1. /\ \E what \in Texts :
             writer' \in {writer, Appending(writer, w, what), Rested(writer, w)}
        /\ living' \subseteq Writers /\ UNCHANGED <<lines, tip, lock, rifts>>
    BY <1>0, <1>7, <1>s DEF SpawnWorker, Work, RecordAction, EndWork, Exit
  <2>2. LogTypeOK'
    BY <1>0, <2>1, QuietTypes
  <2>3. team' \in [Workers -> Working]
    BY <1>7 DEF SpawnWorker, Work, RecordAction, EndWork, TeamTypeOK, Working
  <2>4. QED
    BY <2>2, <2>3, <1>7 DEF SpawnWorker, Work, RecordAction, EndWork, TeamTypeOK
<1>8. ASSUME NEW w \in Workers, TimeOutWorker(w)
      PROVE  TeamTypeOK'
  <2>1. LogTypeOK'
    BY <1>0, <1>8, PerishTypes DEF TimeOutWorker, LogTypeOK
  <2>2. team' \in [Workers -> Working]
    BY <1>8 DEF TimeOutWorker, TeamTypeOK, Working
  <2>3. QED
    BY <2>1, <2>2, <1>8 DEF TimeOutWorker, TeamTypeOK
<1>9. CASE AbortRun \/ CancelJob \/ EndAbort \/ ClearLocks
  <2>1. /\ \E what \in Texts :
             writer' \in {writer, Appending(writer, Aborter, what), Rested(writer, Aborter)}
        /\ living' \subseteq Writers /\ UNCHANGED <<lines, tip>>
        /\ lock' \in {lock, NoOwner} /\ rifts' \subseteq rifts \cup {"unlocked"}
    BY <1>0, <1>9, <1>s
       DEF AbortRun, CancelJob, EndAbort, ClearLocks, UnlinkAppendLock, logVars, Exit
  <2>2. LogTypeOK'
    BY <1>0, <2>1, QuietTypes
  <2>j. NoJob \in Job /\ job \in Job /\ abort.job \in Job
    BY DEF NoJob, Job, TeamTypeOK, Aborting
  <2>k. job' \in Job
    BY <1>9, <2>j DEF AbortRun, CancelJob, EndAbort, ClearLocks, Job
  <2>3. abort' \in Aborting /\ job' \in Job
    BY <1>9, <2>j, <2>k DEF AbortRun, CancelJob, EndAbort, ClearLocks, TeamTypeOK, Aborting
  <2>4. QED
    BY <2>2, <2>3, <1>9 DEF AbortRun, CancelJob, EndAbort, ClearLocks, TeamTypeOK
<1>10. CASE SignalGroup
  <2>1. CASE Coordinator \in living
    <3>1. LogTypeOK'
      BY <1>0, <1>10, <2>1, PerishTypes DEF SignalGroup, LogTypeOK
    <3>2. team' \in [Workers -> Working]
      BY <1>10, <2>1 DEF SignalGroup, TeamTypeOK, Working
    <3>a. [abort EXCEPT !.pc = "cancel", !.killed = TRUE] \in Aborting
      BY DEF TeamTypeOK, Aborting
    <3>3. QED
      BY <3>1, <3>2, <3>a, <1>10, <2>1 DEF SignalGroup, TeamTypeOK, Coordinating, Gone
  <2>2. CASE Coordinator \notin living
    BY <1>10, <2>2 DEF SignalGroup, TeamTypeOK, LogTypeOK, Aborting, Exit
  <2>3. QED
    BY <2>1, <2>2
<1>11. CASE UNCHANGED teamVars
  BY <1>11 DEF teamVars, logVars, runVars, TeamTypeOK, LogTypeOK
<1>12. QED
  BY <1>1, <1>2, <1>4, <1>5, <1>6, <1>7, <1>8, <1>9, <1>10, <1>11 DEF TeamNext
---------------------------------------------------------------------------
\* A process that starts to append, comes to rest or dies leaves the log in order.
LEMMA QuietLog ==
    ASSUME LogInv, LogTypeOK', BusyLive', UNCHANGED <<lines, tip, lock>>, rifts \subseteq rifts',
           \A p \in Writers : writer'[p] = writer[p] \/ writer'[p].pc \in {"idle", "open"},
           \A p \in Writers : writer[p].pc = "tip" /\ writer'[p] # writer[p] =>
               rifts' # {} \/ tip = 0
    PROVE  LogInv'
<1>1. SUFFICES ASSUME rifts' = {}
               PROVE  Held' /\ TipFollows' /\ PrevFollows' /\ ChainVerifies'
  BY DEF LogInv
<1>2. rifts = {} /\ Held /\ TipFollows /\ PrevFollows /\ ChainVerifies
  BY <1>1 DEF LogInv
<1>3. QED
  BY <1>1, <1>2 DEF Held, Inside, TipFollows, PrevFollows, ChainVerifies

\* Only the owner of the lock is past it.
LEMMA Alone ==
    ASSUME Held, NEW p \in Writers, writer[p].pc \in Inside
    PROVE  \A q \in Writers : writer[q].pc \in Inside => q = p
BY DEF Held

LEMMA AppendKeepsLog ==
    ASSUME LogInv, LogTypeOK', NEW p \in Writers, AppendStep(p)
    PROVE  LogInv'
<1>t. LogTypeOK /\ writer \in [Writers -> Writer]
  BY DEF LogInv, LogTypeOK
<1>w. /\ p \in living /\ living' = living /\ rifts \subseteq rifts'
      /\ \A q \in Writers : q # p => writer'[q] = writer[q]
  BY <1>t DEF AppendStep, OpenAppendLock, InspectAppendLock, ReclaimAppendLock, RecordOwner,
     AppendLockFails, ReadTip, AppendLine, AppendFails, WriteTip, TipFails, CheckAppendLock,
     DropAppendLock, Proceed, UnlinkAppendLock
<1>b. BusyLive'
  BY <1>w DEF LogInv, BusyLive
<1>1. SUFFICES ASSUME rifts' = {}
               PROVE  Held' /\ TipFollows' /\ PrevFollows' /\ ChainVerifies'
  BY <1>b DEF LogInv
<1>r. rifts = {}
  BY <1>1, <1>w
<1>2. Held /\ TipFollows /\ PrevFollows /\ ChainVerifies
  BY <1>r DEF LogInv
<1> USE DEF Doing, Proceed, Writer
<1>3. CASE OpenAppendLock(p)
  <2>1. CASE lock = NoOwner
    <3>1. \A q \in Writers : writer[q].pc \notin Inside
      BY <1>2, <2>1 DEF Held
    <3>r. [owner |-> p, written |-> FALSE] \in [owner : Writers, written : BOOLEAN]
      OBVIOUS
    <3>2. lock' # NoOwner /\ lock'.owner = p /\ writer'[p].pc = "record"
      BY <1>t, <1>3, <2>1, <3>r, OwnerAssumption DEF OpenAppendLock, OwnerAssumption
    <3>3. QED
      BY <3>1, <3>2, <1>2, <1>w, <1>3
         DEF OpenAppendLock, Held, Inside, TipFollows, PrevFollows, ChainVerifies
  <2>2. CASE lock # NoOwner
    <3>1. /\ writer[p].pc = "open" /\ writer'[p].pc = "inspect"
          /\ UNCHANGED <<lines, tip, lock>>
      BY <1>t, <1>3, <2>2 DEF OpenAppendLock
    <3>2. QED
      BY <3>1, <1>2, <1>w DEF Held, Inside, TipFollows, PrevFollows, ChainVerifies
  <2>3. QED
    BY <2>1, <2>2
<1>4. CASE InspectAppendLock(p)
  <2>1. writer[p].pc = "inspect" /\ writer'[p].pc \in {"failed", "reclaim", "open"}
        /\ UNCHANGED <<lines, tip, lock>>
    BY <1>t, <1>4 DEF InspectAppendLock
  <2>2. QED
    BY <2>1, <1>2, <1>w DEF Held, Inside, TipFollows, PrevFollows, ChainVerifies
<1>5. CASE ReclaimAppendLock(p)
  <2>1. lock = NoOwner \/ lock.owner \notin living \ {p}
    BY <1>1, <1>5 DEF ReclaimAppendLock, UnlinkAppendLock
  <2>2. \A q \in Writers : writer[q].pc \notin Inside
    BY <2>1, <1>2, <1>5 DEF ReclaimAppendLock, Held, LogInv, BusyLive, Inside
  <2>3. QED
    BY <2>2, <1>t, <1>2, <1>w, <1>5
       DEF ReclaimAppendLock, Held, Inside, TipFollows, PrevFollows, ChainVerifies
<1>6. CASE RecordOwner(p)
  <2>1. lock' # NoOwner /\ lock'.owner = p
    <3>1. lock # NoOwner /\ lock.owner = p
      BY <1>2, <1>6 DEF RecordOwner, Held, Inside
    <3>2. lock \in [owner : Writers, written : BOOLEAN]
      BY <1>t, <3>1 DEF LogTypeOK, Lock
    <3>3. lock' = [lock EXCEPT !.written = TRUE]
      BY <1>6, <3>1 DEF RecordOwner
    <3>4. QED
      BY <3>1, <3>2, <3>3, OwnerAssumption DEF OwnerAssumption
  <2>2. \A q \in Writers : writer[q].pc \in Inside => q = p
    BY <1>2, <1>6, Alone DEF RecordOwner, Inside
  <2>3. QED
    BY <2>1, <2>2, <1>t, <1>2, <1>w, <1>6
       DEF RecordOwner, Held, Inside, TipFollows, PrevFollows, ChainVerifies
<1>7. CASE ReadTip(p)
  <2>1. \A q \in Writers : writer[q].pc \in Inside => q = p
    BY <1>2, <1>7, Alone DEF ReadTip, Inside
  <2>2. tip \in {0, Len(lines)}
    BY <2>1, <1>2, <1>7 DEF ReadTip, TipFollows, Inside
  <2>3. lines = <<>> \/ LastIs("whole")
    BY <1>2, <1>t DEF ChainVerifies, LastIs, LogTypeOK
  <2>4. (IF tip # 0 THEN tip ELSE IF LastIs("whole") THEN Len(lines) ELSE 0) = Len(lines)
    <3>1. CASE lines = <<>>
      BY <2>2, <3>1 DEF LastIs
    <3>2. QED
      BY <2>2, <2>3, <3>1
  <2>5. /\ tip' \in {0, Len(lines)} /\ UNCHANGED <<lines, lock>>
        /\ writer'[p].pc = "append" /\ writer'[p].prev = Len(lines)
    BY <2>2, <2>4, <1>t, <1>7 DEF ReadTip
  <2>6. writer[p].pc = "read"
    BY <1>7 DEF ReadTip
  <2>7. QED
    BY <2>1, <2>5, <2>6, <1>2, <1>w DEF Held, Inside, TipFollows, PrevFollows, ChainVerifies
<1>8. CASE AppendLine(p)
  <2>1. \A q \in Writers : writer[q].pc \in Inside => q = p
    BY <1>2, <1>8, Alone DEF AppendLine, Inside
  <2>2. ~LastIs("cut") /\ writer[p].prev = Len(lines)
    BY <1>2, <1>8, <1>t DEF AppendLine, PrevFollows, ChainVerifies, LastIs, LogTypeOK
  <2>3. Extend(p, "whole")
    BY <2>2, <1>8 DEF AppendLine
  <2>4. /\ Len(lines) \in Nat /\ Len(lines') = Len(lines) + 1
        /\ DOMAIN lines' = 1..Len(lines) + 1 /\ DOMAIN lines = 1..Len(lines)
        /\ \A i \in DOMAIN lines' : i # Len(lines') => i \in DOMAIN lines /\ lines'[i] = lines[i]
        /\ lines'[Len(lines) + 1].prev = Len(lines) /\ lines'[Len(lines) + 1].shape = "whole"
    <3>1. /\ Len(lines) \in Nat /\ Len(lines') = Len(lines) + 1
          /\ DOMAIN lines' = 1..Len(lines') /\ DOMAIN lines = 1..Len(lines)
          /\ \A i \in DOMAIN lines' : i # Len(lines') => i \in DOMAIN lines /\ lines'[i] = lines[i]
      BY <2>2, <2>3, <1>t, ExtendEffect
    <3>2. lines'[Len(lines')] = [by |-> p, what |-> writer[p].what, prev |-> writer[p].prev,
                                 shape |-> "whole"]
      BY <2>3, <1>t, ExtendEffect
    <3>3. QED
      BY <2>2, <3>1, <3>2
  <2>5. ChainVerifies'
    BY <2>4, <1>2 DEF ChainVerifies
  <2>6. writer'[p].pc = "tip" /\ writer'[p].prev = Len(lines') /\ lock' = lock
    BY <1>t, <1>8 DEF AppendLine
  <2>7. QED
    BY <2>1, <2>5, <2>6, <1>2, <1>w, <1>8 DEF AppendLine, Held, Inside, TipFollows, PrevFollows
<1>9. CASE WriteTip(p) \/ TipFails(p)
  <2>1. \A q \in Writers : writer[q].pc \in Inside => q = p
    BY <1>2, <1>9, Alone DEF WriteTip, TipFails, Inside
  <2>2. tip' \in {0, Len(lines)}
    BY <1>1, <1>2, <1>9 DEF WriteTip, TipFails, PrevFollows
  <2>3. /\ writer[p].pc = "tip" /\ writer'[p].pc \in {"drop", "dropFailed"}
        /\ UNCHANGED <<lines, lock>>
    BY <1>t, <1>9 DEF WriteTip, TipFails
  <2>4. QED
    BY <2>1, <2>2, <2>3, <1>2, <1>w DEF Held, Inside, TipFollows, PrevFollows, ChainVerifies
<1>10. CASE AppendFails(p)
  <2>1. \A q \in Writers : writer[q].pc \in Inside => q = p
    BY <1>2, <1>10, Alone DEF AppendFails, Inside
  <2>2. /\ writer[p].pc = "append" /\ writer'[p].pc = "dropFailed"
        /\ UNCHANGED <<lines, tip, lock>>
    BY <1>t, <1>1, <1>10 DEF AppendFails
  <2>3. QED
    BY <2>1, <2>2, <1>2, <1>w DEF Held, Inside, TipFollows, PrevFollows, ChainVerifies
<1>11. CASE CheckAppendLock(p)
  <2>1. /\ \/ writer[p].pc = "drop" /\ writer'[p].pc \in {"unlink", "ok"}
           \/ writer[p].pc = "dropFailed" /\ writer'[p].pc \in {"unlinkFailed", "failed"}
        /\ UNCHANGED <<lines, tip, lock>>
    BY <1>t, <1>11 DEF CheckAppendLock, Drops
  <2>2. QED
    BY <2>1, <1>2, <1>w DEF Held, Inside, TipFollows, PrevFollows, ChainVerifies
<1>12. CASE DropAppendLock(p) \/ (AppendLockFails(p) /\ writer[p].pc = "record")
  <2>1. /\ writer[p].pc \in {"unlink", "unlinkFailed", "record"}
        /\ writer'[p].pc \in {"ok", "failed"} /\ UNCHANGED <<lines, tip>>
    BY <1>t, <1>12 DEF DropAppendLock, AppendLockFails, Drops
  <2>2. \A q \in Writers : writer[q].pc \in Inside => q = p
    BY <2>1, <1>2, Alone DEF Inside
  <2>3. QED
    BY <2>1, <2>2, <1>2, <1>w DEF Held, Inside, TipFollows, PrevFollows, ChainVerifies
<1>13. CASE AppendLockFails(p) /\ writer[p].pc # "record"
  <2>1. /\ writer[p].pc \in {"open", "reclaim"} /\ writer'[p].pc = "failed"
        /\ UNCHANGED <<lines, tip, lock>>
    BY <1>t, <1>13 DEF AppendLockFails
  <2>2. QED
    BY <2>1, <1>2, <1>w DEF Held, Inside, TipFollows, PrevFollows, ChainVerifies
<1>14. QED
  BY <1>3, <1>4, <1>5, <1>6, <1>7, <1>8, <1>9, <1>10, <1>11, <1>12, <1>13 DEF AppendStep
---------------------------------------------------------------------------
\* A caller that is not between the line and .tip may start over or come to rest.
LEMMA CallKeepsLog ==
    ASSUME LogInv, LogTypeOK', NEW p \in Writers, NEW what \in Texts,
           UNCHANGED <<lines, tip, lock, rifts>>,
           writer[p].pc # "tip",
           \/ writer' = Rested(writer, p) /\ living \ {p} \subseteq living'
           \/ writer' = Appending(writer, p, what) /\ p \in living' /\ living \subseteq living'
    PROVE  LogInv'
<1>1. writer \in [Writers -> Writer]
  BY DEF LogInv, LogTypeOK
<1>2. /\ \A q \in Writers : writer'[q] = writer[q] \/ (q = p /\ writer'[q].pc \in {"idle", "open"})
      /\ writer'[p].pc = "open" => p \in living'
  BY <1>1 DEF Rested, AtRest, Appending
<1>3. BusyLive'
  BY <1>2, <1>1 DEF LogInv, BusyLive, Rested, AtRest, Appending
<1>4. QED
  BY <1>2, <1>3, QuietLog

\* So may processes that die.
LEMMA PerishKeepsLog ==
    ASSUME LogInv, LogTypeOK', NEW dead, Perish(dead), UNCHANGED <<lines, tip, lock>>
    PROVE  LogInv'
<1>1. writer \in [Writers -> Writer]
  BY DEF LogInv, LogTypeOK
<1>2. \A q \in Writers : writer'[q] = IF q \in dead THEN AtRest ELSE writer[q]
  BY DEF Perish
<1>3. BusyLive'
  BY <1>2 DEF LogInv, BusyLive, Perish, AtRest
<1>4. \A q \in Writers : writer[q].pc = "tip" /\ writer'[q] # writer[q] =>
          rifts' # {} \/ tip = 0
  BY <1>2 DEF LogInv, BusyLive, Perish, Doing
<1>5. \A q \in Writers : writer'[q] = writer[q] \/ writer'[q].pc \in {"idle", "open"}
  BY <1>2 DEF AtRest
<1>6. rifts \subseteq rifts'
  BY DEF Perish
<1>7. QED
  BY <1>3, <1>4, <1>5, <1>6, QuietLog

\* Every step of the run keeps the log in order.
LEMMA LogStep ==
    ASSUME TeamTypeOK, TeamTypeOK', LogInv, Resting, Lives, [TeamNext]_teamVars
    PROVE  LogInv'
<1> USE TeamAssumption
<1>0. LogTypeOK' /\ LogTypeOK /\ "started" \in Texts
  BY DEF TeamTypeOK, Texts, RunStatuses
<1>s. /\ {"running", "accepted", "killed", "errored", "aborted", "received", "action"}
            \subseteq Texts
      /\ DispatchStatus \in Texts
  BY DEF Texts, RunStatuses, Steps, DispatchStatus
<1>1. CASE \E p \in Writers : AppendStep(p) /\ UNCHANGED runVars
  BY <1>0, <1>1, AppendKeepsLog
<1>2. CASE DescribeJob
  <2>1. /\ writer' = Rested(writer, Launcher) /\ living \ {Launcher} \subseteq living'
        /\ writer[Launcher].pc # "tip" /\ UNCHANGED <<lines, tip, lock, rifts>>
    BY <1>2 DEF DescribeJob, Exit, Returned, Doing
  <2>2. QED
    BY <1>0, <2>1, CallKeepsLog
<1>3. CASE SpawnCoordinator \/ PublishJob \/ CompleteJob \/ CancelJob
  <2>1. UNCHANGED <<lines, tip, lock, writer, rifts>>
    BY <1>3 DEF SpawnCoordinator, PublishJob, CompleteJob, CancelJob, logVars
  <2>2. BusyLive'
    BY <1>3, <2>1
       DEF SpawnCoordinator, PublishJob, CompleteJob, CancelJob, logVars, Exit, Coordinates,
           Resting, LogInv, BusyLive
  <2>3. QED
    BY <1>0, <2>1, <2>2, QuietLog
<1>4. CASE BeginDispatch \/ PrepareWorkspaces \/ Join
  <2>1. /\ \E what \in Texts : \/ writer' = Appending(writer, Coordinator, what)
                               \/ writer' = Rested(writer, Coordinator)
        /\ UNCHANGED <<lines, tip, lock, living, rifts>>
        /\ Coordinator \in living
    BY <1>4, <1>s
       DEF BeginDispatch, PrepareWorkspaces, Join, Coordinate, Coordinates
  <2>2. writer[Coordinator].pc # "tip"
    BY <1>4 DEF BeginDispatch, PrepareWorkspaces, Join, Coordinates, Doing, Resting
  <2>3. QED
    BY <1>0, <2>1, <2>2, CallKeepsLog
<1>5. CASE GiveUpStart \/ EndDispatch
  <2>1. /\ writer' = Rested(writer, Coordinator) /\ living \ {Coordinator} \subseteq living'
        /\ UNCHANGED <<lines, tip, lock, rifts>>
    BY <1>5 DEF GiveUpStart, EndDispatch, Exit
  <2>2. writer[Coordinator].pc # "tip"
    BY <1>5 DEF GiveUpStart, EndDispatch, Coordinates, Returned, Doing, Resting
  <2>3. QED
    BY <1>0, <2>1, <2>2, CallKeepsLog
<1>6. CASE CoordinatorDies
  BY <1>0, <1>6, PerishKeepsLog DEF CoordinatorDies
<1>7. ASSUME NEW w \in Workers, SpawnWorker(w) \/ Work(w) \/ RecordAction(w) \/ EndWork(w)
      PROVE  LogInv'
  <2>1. CASE team[w].pc = "none" /\ team'[w].pc = "unspawned" /\ UNCHANGED <<writer, living>>
    <3>1. UNCHANGED <<lines, tip, lock, rifts>>
      BY <1>7 DEF SpawnWorker, Work, RecordAction, EndWork
    <3>2. BusyLive'
      BY <2>1 DEF LogInv, BusyLive
    <3>3. QED
      BY <1>0, <2>1, <3>1, <3>2, QuietLog
  <2>2. CASE \/ writer' = Rested(writer, w) /\ living \ {w} \subseteq living'
             \/ \E what \in Texts : /\ writer' = Appending(writer, w, what)
                                   /\ w \in living' /\ living \subseteq living'
    <3>1. UNCHANGED <<lines, tip, lock, rifts>>
      BY <1>7 DEF SpawnWorker, Work, RecordAction, EndWork
    <3>2. writer[w].pc # "tip"
      BY <1>7 DEF SpawnWorker, Work, RecordAction, EndWork, Doing, Resting
    <3>3. QED
      BY <1>0, <2>2, <3>1, <3>2, CallKeepsLog
  <2>3. QED
    <3>1. CASE SpawnWorker(w)
      BY <3>1, <2>1, <2>2, <1>s DEF SpawnWorker, TeamTypeOK, Working
    <3>2. CASE Work(w) \/ RecordAction(w) \/ EndWork(w)
      BY <3>2, <2>2, <1>s DEF Work, RecordAction, EndWork, Exit
    <3>3. QED
      BY <1>7, <3>1, <3>2
<1>8. ASSUME NEW w \in Workers, TimeOutWorker(w)
      PROVE  LogInv'
  BY <1>0, <1>8, PerishKeepsLog DEF TimeOutWorker
<1>9. CASE AbortRun
  <2>1. CASE writer' = writer
    <3>1. BusyLive'
      BY <1>9, <2>1 DEF AbortRun, LogInv, BusyLive
    <3>2. QED
      BY <1>0, <1>9, <2>1, <3>1, QuietLog DEF AbortRun
  <2>2. CASE writer' = Appending(writer, Aborter, "aborted")
    <3>1. writer[Aborter].pc # "tip"
      BY <1>9 DEF AbortRun, Resting
    <3>2. /\ Aborter \in living' /\ living \subseteq living'
          /\ UNCHANGED <<lines, tip, lock, rifts>> /\ "aborted" \in Texts
      BY <1>9, <1>s DEF AbortRun
    <3>3. \E what \in Texts : writer' = Appending(writer, Aborter, what)
      BY <2>2, <3>2
    <3>4. QED
      BY <1>0, <3>1, <3>2, <3>3, CallKeepsLog
  <2>3. QED
    BY <1>9, <2>1, <2>2 DEF AbortRun
<1>10. CASE SignalGroup
  <2>1. CASE Coordinator \in living
    BY <1>0, <1>10, <2>1, PerishKeepsLog DEF SignalGroup
  <2>2. CASE Coordinator \notin living
    <3>1. UNCHANGED <<lines, tip, lock, writer, rifts>> /\ living' = living \ {Aborter}
          /\ writer[Aborter].pc = "idle"
      BY <1>10, <2>2 DEF SignalGroup, Exit, Resting
    <3>2. BusyLive'
      BY <3>1 DEF LogInv, BusyLive
    <3>3. QED
      BY <1>0, <3>1, <3>2, QuietLog
  <2>3. QED
    BY <2>1, <2>2
<1>11. CASE ClearLocks
  <2>1. /\ writer' = Appending(writer, Aborter, "aborted") /\ UNCHANGED <<lines, tip, living>>
        /\ writer[Aborter].pc = "idle" /\ Aborter \in living
        /\ writer \in [Writers -> Writer]
    BY <1>0, <1>11 DEF ClearLocks, Resting, Lives, LogTypeOK
  <2>2. BusyLive'
    BY <2>1 DEF LogInv, BusyLive, Appending
  <2>3. SUFFICES ASSUME rifts' = {}
                 PROVE  Held' /\ TipFollows' /\ PrevFollows' /\ ChainVerifies'
    BY <1>0, <2>2 DEF LogInv
  <2>4. /\ rifts = {} /\ (lock = NoOwner \/ lock.owner \notin living \ {Aborter})
        /\ Held /\ TipFollows /\ PrevFollows /\ ChainVerifies
    BY <1>11, <2>3 DEF ClearLocks, UnlinkAppendLock, LogInv
  <2>5. \A q \in Writers : writer[q].pc \notin Inside
    BY <2>1, <2>4 DEF Held, LogInv, BusyLive, Inside
  <2>6. \A q \in Writers : writer'[q] = writer[q] \/ writer'[q].pc = "open"
    BY <2>1 DEF Appending
  <2>7. QED
    BY <2>1, <2>4, <2>5, <2>6 DEF Held, Inside, TipFollows, PrevFollows, ChainVerifies
<1>12. CASE EndAbort
  <2>1. /\ writer' = Rested(writer, Aborter) /\ living \ {Aborter} \subseteq living'
        /\ writer[Aborter].pc # "tip" /\ UNCHANGED <<lines, tip, lock, rifts>>
    BY <1>12 DEF EndAbort, Exit, Returned, Doing
  <2>2. QED
    BY <1>0, <2>1, CallKeepsLog
<1>13. CASE UNCHANGED teamVars
  <2>1. BusyLive'
    BY <1>13 DEF teamVars, logVars, LogInv, BusyLive
  <2>2. QED
    BY <1>0, <1>13, <2>1, QuietLog DEF teamVars, logVars
<1>14. QED
  BY <1>1, <1>2, <1>3, <1>4, <1>5, <1>6, <1>7, <1>8, <1>9, <1>10, <1>11, <1>12, <1>13 DEF TeamNext
---------------------------------------------------------------------------
\* What an append does to its caller, and to the log.
LEMMA AppendEffect ==
    ASSUME TeamTypeOK, NEW p \in Writers, AppendStep(p)
    PROVE  /\ p \in living /\ living' = living
           /\ writer[p].pc \notin {"idle", "ok", "failed"} /\ writer'[p].pc # "idle"
           /\ writer'[p].what = writer[p].what
           /\ \A q \in Writers : q # p => writer'[q] = writer[q]
           /\ \/ /\ lines' = lines
                 /\ writer'[p].pc \in Written => writer[p].pc \in Written
              \/ /\ writer[p].pc = "append"
                 /\ \E shape \in {"whole", "cut", "glued"} :
                       Extend(p, shape) /\ (writer'[p].pc \in Written => shape # "cut")
<1> USE DEF Doing, Proceed, Writer, Written
<1>1. writer \in [Writers -> Writer]
  BY DEF TeamTypeOK, LogTypeOK
<1>2. CASE OpenAppendLock(p) \/ InspectAppendLock(p) \/ CheckAppendLock(p)
  BY <1>1, <1>2 DEF AppendStep, OpenAppendLock, InspectAppendLock, CheckAppendLock, Drops
<1>3. CASE ReclaimAppendLock(p) \/ DropAppendLock(p) \/ RecordOwner(p) \/ AppendLockFails(p)
  BY <1>1, <1>3 DEF AppendStep, ReclaimAppendLock, DropAppendLock, RecordOwner, AppendLockFails, Drops
<1>4. CASE ReadTip(p) \/ WriteTip(p) \/ TipFails(p)
  BY <1>1, <1>4 DEF AppendStep, ReadTip, WriteTip, TipFails
<1>5. CASE AppendLine(p)
  BY <1>1, <1>5 DEF AppendStep, AppendLine
<1>6. CASE AppendFails(p)
  BY <1>1, <1>6 DEF AppendStep, AppendFails
<1>7. QED
  BY <1>2, <1>3, <1>4, <1>5, <1>6 DEF AppendStep

\* A rest and a call change the place of one process.
LEMMA RestEffect ==
    ASSUME writer \in [Writers -> Writer], NEW p \in Writers, writer' = Rested(writer, p)
    PROVE  writer'[p] = AtRest /\ \A q \in Writers : q # p => writer'[q] = writer[q]
BY DEF Rested

LEMMA CallEffect ==
    ASSUME writer \in [Writers -> Writer], NEW p \in Writers, NEW what,
           writer' = Appending(writer, p, what)
    PROVE  /\ writer'[p] = [pc |-> "open", what |-> what, prev |-> 0]
           /\ \A q \in Writers : q # p => writer'[q] = writer[q]
BY DEF Appending

\* Processes rest between their appends.
LEMMA RestingStep ==
    ASSUME TeamTypeOK, Resting, Lives, [TeamNext]_teamVars
    PROVE  Resting'
<1> USE TeamAssumption DEF Resting
<1>t. writer \in [Writers -> Writer] /\ team \in [Workers -> Working]
  BY DEF TeamTypeOK, LogTypeOK
<1>a. AtRest.pc = "idle"
  BY DEF AtRest
<1>1. CASE \E p \in Writers : AppendStep(p) /\ UNCHANGED runVars
  BY <1>1, AppendEffect DEF runVars
<1>2. CASE DescribeJob
  <2>1. writer' = Rested(writer, Launcher) /\ UNCHANGED <<coordinator, team, abort>>
    BY <1>2 DEF DescribeJob
  <2>2. writer'[Launcher].pc = "idle" /\ \A q \in Writers : q # Launcher => writer'[q] = writer[q]
    BY <2>1, <1>t, <1>a, RestEffect
  <2>3. QED
    BY <2>1, <2>2
<1>3. CASE SpawnCoordinator \/ PublishJob
  <2>1. launcher # "starting" /\ UNCHANGED <<writer, team, abort>>
    BY <1>3 DEF SpawnCoordinator, PublishJob
  <2>2. coordinator'.pc # coordinator.pc => coordinator.pc = "absent"
    BY <1>3 DEF SpawnCoordinator, PublishJob, Lives
  <2>3. QED
    BY <2>1, <2>2
<1>4. CASE BeginDispatch \/ PrepareWorkspaces \/ Join
  <2>1. /\ \/ writer' = Rested(writer, Coordinator)
           \/ /\ \E what : writer' = Appending(writer, Coordinator, what)
              /\ coordinator'.pc \in {"running", "erroring", "verdict"}
        /\ UNCHANGED <<launcher, team, abort>>
    BY <1>4 DEF BeginDispatch, PrepareWorkspaces, Join, Coordinate, TeamTypeOK, Coordinating
  <2>2. /\ \A q \in Writers : q # Coordinator => writer'[q] = writer[q]
        /\ writer'[Coordinator].pc = "idle" \/ coordinator'.pc \in {"running", "erroring", "verdict"}
    <3>1. ASSUME writer' = Rested(writer, Coordinator)
          PROVE  writer'[Coordinator].pc = "idle" /\ \A q \in Writers : q # Coordinator => writer'[q] = writer[q]
      BY <3>1, <1>t, <1>a, RestEffect
    <3>2. ASSUME NEW what, writer' = Appending(writer, Coordinator, what)
          PROVE  \A q \in Writers : q # Coordinator => writer'[q] = writer[q]
      BY <3>2, <1>t, CallEffect
    <3>3. QED
      BY <3>1, <3>2, <2>1
  <2>3. QED
    BY <2>1, <2>2
<1>5. CASE GiveUpStart \/ EndDispatch
  <2>1. writer' = Rested(writer, Coordinator) /\ UNCHANGED <<launcher, team, abort>>
    BY <1>5 DEF GiveUpStart, EndDispatch
  <2>2. writer'[Coordinator].pc = "idle" /\ \A q \in Writers : q # Coordinator => writer'[q] = writer[q]
    BY <2>1, <1>t, <1>a, RestEffect
  <2>3. QED
    BY <2>1, <2>2
<1>6. CASE CompleteJob
  BY <1>6, <1>t DEF CompleteJob, Coordinates
<1>7. CASE CoordinatorDies
  BY <1>7, <1>t, <1>a DEF CoordinatorDies, Perish
<1>8. ASSUME NEW w \in Workers, SpawnWorker(w) \/ Work(w) \/ RecordAction(w) \/ EndWork(w)
      PROVE  Resting'
  <2>1. UNCHANGED <<launcher, coordinator, abort>> /\ \A v \in Workers : v # w => team'[v] = team[v]
    BY <1>8, <1>t DEF SpawnWorker, Work, RecordAction, EndWork
  <2>2. \/ writer' = Rested(writer, w)
        \/ /\ \E what : writer' = Appending(writer, w, what)
           /\ team'[w].pc \in {"received", "action"}
        \/ writer' = writer /\ team[w].pc = "none"
    BY <1>8, <1>t DEF SpawnWorker, Work, RecordAction, EndWork, Working
  <2>3. /\ \A q \in Writers : q # w => writer'[q] = writer[q]
        /\ \/ writer'[w].pc = "idle" \/ team'[w].pc \in {"received", "action"}
           \/ writer'[w] = writer[w] /\ team[w].pc = "none"
    <3>1. ASSUME writer' = Rested(writer, w)
          PROVE  writer'[w].pc = "idle" /\ \A q \in Writers : q # w => writer'[q] = writer[q]
      BY <3>1, <1>t, <1>a, RestEffect
    <3>2. ASSUME NEW what, writer' = Appending(writer, w, what)
          PROVE  \A q \in Writers : q # w => writer'[q] = writer[q]
      BY <3>2, <1>t, CallEffect
    <3>3. QED
      BY <3>1, <3>2, <2>2
  <2>4. QED
    BY <2>1, <2>3
<1>9. ASSUME NEW w \in Workers, TimeOutWorker(w)
      PROVE  Resting'
  <2>1. UNCHANGED <<launcher, coordinator, abort>> /\ \A v \in Workers : v # w => team'[v] = team[v]
    BY <1>9, <1>t DEF TimeOutWorker
  <2>2. writer'[w] = AtRest /\ \A q \in Writers : q # w => writer'[q] = writer[q]
    BY <1>9 DEF TimeOutWorker, Perish
  <2>3. QED
    BY <2>1, <2>2, <1>a
<1>10. CASE AbortRun \/ CancelJob \/ EndAbort \/ ClearLocks
  <2>1. UNCHANGED <<launcher, coordinator, team>>
    BY <1>10 DEF AbortRun, CancelJob, EndAbort, ClearLocks
  <2>2. \/ writer' = Rested(writer, Aborter)
        \/ (\E what : writer' = Appending(writer, Aborter, what)) /\ abort'.pc = "aborted"
        \/ writer' = writer /\ abort.pc # "aborted"
    BY <1>10 DEF AbortRun, CancelJob, EndAbort, ClearLocks, logVars, TeamTypeOK, Aborting
  <2>3. /\ \A q \in Writers : q # Aborter => writer'[q] = writer[q]
        /\ \/ writer'[Aborter].pc = "idle" \/ abort'.pc = "aborted"
           \/ writer'[Aborter] = writer[Aborter] /\ abort.pc # "aborted"
    <3>1. ASSUME writer' = Rested(writer, Aborter)
          PROVE  writer'[Aborter].pc = "idle" /\ \A q \in Writers : q # Aborter => writer'[q] = writer[q]
      BY <3>1, <1>t, <1>a, RestEffect
    <3>2. ASSUME NEW what, writer' = Appending(writer, Aborter, what)
          PROVE  \A q \in Writers : q # Aborter => writer'[q] = writer[q]
      BY <3>2, <1>t, CallEffect
    <3>3. QED
      BY <3>1, <3>2, <2>2
  <2>4. QED
    BY <2>1, <2>3
<1>11. CASE SignalGroup
  <2>1. CASE Coordinator \in living
    <3>1. \A w \in Workers : team'[w].pc \in {team[w].pc, "over"} /\ (w \in living => team'[w].pc = "over")
                             /\ (w \notin living => team'[w] = team[w])
      BY <1>11, <2>1, <1>t DEF SignalGroup, Working
    <3>2. /\ writer'[Coordinator].pc = "idle" /\ \A w \in Workers : writer'[w].pc = "idle"
          /\ writer'[Launcher] = writer[Launcher] /\ writer'[Aborter] = writer[Aborter]
      BY <1>11, <2>1, <1>a DEF SignalGroup, Perish
    <3>3. abort.pc = "signal" /\ launcher' = launcher
      BY <1>11 DEF SignalGroup
    <3>4. QED
      BY <3>2, <3>3
  <2>2. CASE Coordinator \notin living
    BY <1>11, <2>2 DEF SignalGroup
  <2>3. QED
    BY <2>1, <2>2
<1>12. CASE UNCHANGED teamVars
  BY <1>12 DEF teamVars, logVars, runVars
<1>13. QED
  BY <1>1, <1>2, <1>3, <1>4, <1>5, <1>6, <1>7, <1>8, <1>9, <1>10, <1>11, <1>12 DEF TeamNext

\* A process that has gone does not come back, and the workers run within "join".
LEMMA LivesStep ==
    ASSUME TeamTypeOK, Lives, Sig, [TeamNext]_teamVars
    PROVE  Lives' /\ Sig'
<1> USE TeamAssumption DEF Lives, Sig
<1>t. team \in [Workers -> Working] /\ coordinator \in Coordinating /\ abort \in Aborting
      /\ job \in Job /\ abort.job \in Job
  BY DEF TeamTypeOK, Aborting
<1>1. CASE \E p \in Writers : AppendStep(p) /\ UNCHANGED runVars
  BY <1>1, AppendEffect DEF runVars
<1>2. CASE DescribeJob
  BY <1>2 DEF DescribeJob, Exit
<1>3. CASE SpawnCoordinator
  <2>1. /\ coordinator.pc = "absent" /\ launcher = "spawn" /\ UNCHANGED <<team, abort>>
        /\ \A w \in Workers : w \in living' => w \in living
        /\ job'.known = job.known /\ launcher' \in {"publish", "over"}
    BY <1>3, <1>t DEF SpawnCoordinator, Exit, Job
  <2>2. \/ /\ coordinator'.pc = "await" /\ launcher' = "publish"
           /\ living \subseteq living'
        \/ coordinator' = coordinator /\ launcher' = "over" /\ living' = living \ {Launcher}
    BY <1>3, <1>t DEF SpawnCoordinator, Exit, Coordinating
  <2>3. QED
    BY <2>1, <2>2
<1>4. CASE PublishJob
  BY <1>4, <1>t DEF PublishJob, Exit
<1>5. CASE BeginDispatch \/ PrepareWorkspaces \/ Join
  <2>1. /\ coordinator'.pc \in {"running", "join", "erroring", "verdict"}
        /\ coordinator.pc \in {"starting", "await", "running", "join"}
        /\ coordinator'.pc = "running" => coordinator.pc \in {"starting", "await"}
        /\ UNCHANGED <<living, job, launcher, team, abort>>
    BY <1>5, <1>t
       DEF BeginDispatch, PrepareWorkspaces, Join, Coordinate, Coordinates, Coordinating
  <2>2. QED
    BY <2>1
<1>6. CASE GiveUpStart \/ CompleteJob \/ EndDispatch
  <2>1. /\ UNCHANGED <<launcher, team, abort>> /\ job'.known = job.known
        /\ coordinator.pc # "absent"
        /\ \/ living' = living \ {Coordinator} /\ coordinator'.pc = "over"
           \/ living' = living /\ coordinator'.pc = "finish"
    BY <1>6, <1>t DEF GiveUpStart, EndDispatch, CompleteJob, Exit, Gone, Coordinates, Job
  <2>2. QED
    BY <2>1
<1>7. CASE CoordinatorDies
  BY <1>7, <1>t DEF CoordinatorDies, Perish, Gone
<1>8. ASSUME NEW w \in Workers, SpawnWorker(w) \/ Work(w) \/ RecordAction(w) \/ EndWork(w)
      PROVE  Lives' /\ Sig'
  <2>1. /\ UNCHANGED <<launcher, coordinator, abort, job>>
        /\ \A v \in Workers : v # w => team'[v] = team[v]
        /\ \A q \in Writers : q # w => (q \in living' <=> q \in living)
    BY <1>8, <1>t DEF SpawnWorker, Work, RecordAction, EndWork, Exit
  <2>2. w \in living' => team'[w].pc \in {"received", "working", "action"}
    BY <1>8, <1>t DEF SpawnWorker, Work, RecordAction, EndWork, Exit, Working
  <2>3. team[w].pc # "none" \/ coordinator.pc \in {"join", "finish"}
    BY <1>8 DEF SpawnWorker, Work, RecordAction, EndWork, Coordinates, Dispatching
  <2>4. QED
    BY <2>1, <2>2, <2>3
<1>9. ASSUME NEW w \in Workers, TimeOutWorker(w)
      PROVE  Lives' /\ Sig'
  <2>1. /\ UNCHANGED <<launcher, coordinator, abort, job>> /\ coordinator.pc \in {"join", "finish"}
        /\ \A v \in Workers : v # w => team'[v] = team[v]
        /\ living' = living \ {w}
    BY <1>9, <1>t DEF TimeOutWorker, Perish, Coordinates, Dispatching
  <2>2. QED
    BY <2>1
<1>10. CASE AbortRun
  <2>1. /\ UNCHANGED <<launcher, coordinator, team, job>> /\ living' = living \cup {Aborter}
        /\ abort'.job = job /\ (abort'.pc = "signal" => job.known) /\ NoJob.known = FALSE
    BY <1>10, <1>t DEF AbortRun, Aborting, NoJob
  <2>2. QED
    BY <2>1
<1>11. CASE CancelJob \/ EndAbort \/ ClearLocks
  <2>1. /\ UNCHANGED <<launcher, coordinator, team>>
        /\ job'.known \in {job.known, abort.job.known}
        /\ abort'.job.known => abort.job.known
    <3>1. CASE CancelJob
      BY <1>t, <3>1 DEF CancelJob, Aborting, NoJob, Job
    <3>2. CASE EndAbort \/ ClearLocks
      BY <1>t, <3>2 DEF EndAbort, ClearLocks, Aborting
    <3>3. QED
      BY <1>11, <3>1, <3>2
  <2>2. /\ abort.pc \in {"cancel", "clear", "aborted"}
        /\ abort'.pc \in {"clear", "aborted", "done", "failed"}
        /\ \/ living' = living
           \/ living' = living \ {Aborter} /\ abort'.pc \in {"done", "failed"}
    BY <1>11, <1>t DEF CancelJob, EndAbort, ClearLocks, Aborting, logVars, Exit
  <2>3. QED
    BY <2>1, <2>2
<1>12. CASE SignalGroup
  <2>0. /\ abort'.job = abort.job /\ abort.pc = "signal" /\ UNCHANGED <<job, launcher>>
        /\ abort'.pc \in {"cancel", "failed"}
    BY <1>12, <1>t DEF SignalGroup, Aborting
  <2>1. CASE Coordinator \in living
    <3>1. /\ living' = living \ ({Coordinator} \cup Workers) /\ coordinator'.pc = "over"
          /\ coordinator.pc # "absent"
      BY <1>12, <2>1 DEF SignalGroup, Perish, Gone
    <3>2. QED
      BY <2>0, <3>1
  <2>2. CASE Coordinator \notin living
    <3>1. /\ UNCHANGED <<coordinator, team>> /\ living' = living \ {Aborter}
          /\ abort'.pc = "failed"
      BY <1>12, <2>2, <1>t DEF SignalGroup, Exit, Aborting
    <3>2. QED
      BY <2>0, <3>1
  <2>3. QED
    BY <2>1, <2>2
<1>13. CASE UNCHANGED teamVars
  BY <1>13 DEF teamVars, logVars, runVars
<1>14. QED
  BY <1>1, <1>2, <1>3, <1>4, <1>5, <1>6, <1>7, <1>8, <1>9, <1>10, <1>11, <1>12, <1>13 DEF TeamNext

---------------------------------------------------------------------------
\* What a step that appends no line means for the workers and the coordinator.
LEMMA QuietStep ==
    ASSUME TeamTypeOK, Lives, [TeamNext]_teamVars,
           ~\E p \in Writers : AppendStep(p) /\ UNCHANGED runVars
    PROVE  /\ lines' = lines
           /\ \A w \in Workers : w \in living' => w \in living \/ Dispatching
           /\ coordinator.pc \in Ended => coordinator'.pc \in Ended
           /\ coordinator'.pc \in {"erroring", "verdict"} /\ coordinator'.pc # coordinator.pc
                 => \A w \in Workers : w \notin living' /\ team'[w].pc # "unspawned"
           /\ \A w \in Workers : team'[w].pc = "unspawned" => team[w].pc = "unspawned" \/ Dispatching
           /\ \A w \in Workers : team[w].pc = "over" => team'[w].status = team[w].status
<1> USE TeamAssumption DEF Ended
<1>t. team \in [Workers -> Working] /\ coordinator \in Coordinating
  BY DEF TeamTypeOK
<1>1. CASE DescribeJob \/ PublishJob \/ AbortRun \/ CancelJob \/ ClearLocks \/ EndAbort
  BY <1>1
     DEF DescribeJob, PublishJob, AbortRun, CancelJob, ClearLocks, EndAbort, logVars, Exit
<1>2. CASE SpawnCoordinator
  BY <1>2, <1>t DEF SpawnCoordinator, Exit, Coordinating, Lives
<1>3. CASE BeginDispatch
  BY <1>3, <1>t DEF BeginDispatch, Coordinate, Coordinates, Coordinating
<1>4. CASE PrepareWorkspaces
  <2>1. \A w \in Workers : w \notin living /\ team[w].pc = "none"
    BY <1>4 DEF PrepareWorkspaces, Coordinates, Lives
  <2>2. /\ UNCHANGED <<lines, living, team>>
        /\ coordinator.pc = "running" /\ coordinator'.pc \in {"join", "erroring"}
    BY <1>4, <1>t DEF PrepareWorkspaces, Coordinate, Coordinates, Coordinating
  <2>3. QED
    BY <2>1, <2>2
<1>5. CASE Join
  <2>1. \A w \in Workers : w \notin living /\ team[w].pc = "over"
    BY <1>5 DEF Join, Lives
  <2>2. /\ UNCHANGED <<lines, living, team>>
        /\ coordinator.pc = "join" /\ coordinator'.pc = "verdict"
    BY <1>5, <1>t DEF Join, Coordinate, Coordinates, Coordinating
  <2>3. QED
    BY <2>1, <2>2
<1>6. CASE GiveUpStart \/ EndDispatch \/ CompleteJob \/ CoordinatorDies
  BY <1>6 DEF GiveUpStart, EndDispatch, CompleteJob, CoordinatorDies, Exit, Gone, Perish
<1>7. ASSUME NEW w \in Workers,
             SpawnWorker(w) \/ TimeOutWorker(w) \/ Work(w) \/ RecordAction(w) \/ EndWork(w)
      PROVE  /\ UNCHANGED <<lines, coordinator>>
             /\ \A v \in Workers : v \in living' => v \in living \/ Dispatching
             /\ \A v \in Workers : team'[v].pc = "unspawned" =>
                                       team[v].pc = "unspawned" \/ Dispatching
             /\ \A v \in Workers : team[v].pc = "over" => team'[v].status = team[v].status
  <2>1. team[w].pc # "over"
    BY <1>7 DEF SpawnWorker, TimeOutWorker, Work, RecordAction, EndWork, Lives
  <2>2. /\ UNCHANGED <<lines, coordinator>> /\ \A v \in Workers : v # w => team'[v] = team[v]
        /\ \A v \in Workers : v \in living' => v \in living \/ Dispatching
    BY <1>7, <1>t
       DEF SpawnWorker, TimeOutWorker, Work, RecordAction, EndWork, Perish, Exit
  <2>3. team'[w].pc = "unspawned" => Dispatching
    BY <1>7, <1>t DEF SpawnWorker, TimeOutWorker, Work, RecordAction, EndWork, Working
  <2>4. QED
    BY <2>1, <2>2, <2>3
<1>8. CASE SignalGroup
  <2>1. /\ lines' = lines /\ coordinator'.pc \in {"over", coordinator.pc} /\ living' \subseteq living
    BY <1>8 DEF SignalGroup, Perish, Exit, Gone
  <2>2. \A w \in Workers : /\ team'[w].status = team[w].status
                           /\ team'[w].pc \in {team[w].pc, "over"}
    BY <1>8, <1>t DEF SignalGroup, Working
  <2>3. QED
    BY <2>1, <2>2
<1>9. CASE UNCHANGED teamVars
  BY <1>9 DEF teamVars, logVars, runVars
<1>10. QED
  BY <1>1, <1>2, <1>3, <1>4, <1>5, <1>6, <1>7, <1>8, <1>9 DEF TeamNext

\* A step of an append leaves the log as it is, or the line of a living process becomes the
\* last one and every other that was not cut stays.
LEMMA LineEffect ==
    ASSUME TeamTypeOK, NEW p \in Writers, AppendStep(p)
    PROVE  \/ lines' = lines /\ (writer'[p].pc \in Written => writer[p].pc \in Written)
           \/ /\ writer[p].pc = "append" /\ p \in living
              /\ Len(lines) \in Nat /\ Len(lines') \in Nat /\ Len(lines) <= Len(lines')
              /\ Len(lines') \in DOMAIN lines'
              /\ DOMAIN lines = 1..Len(lines) /\ DOMAIN lines' = 1..Len(lines')
              /\ \A i \in DOMAIN lines' : i # Len(lines') => i \in DOMAIN lines /\ lines'[i] = lines[i]
              /\ \A i \in DOMAIN lines : lines[i].shape # "cut" =>
                    i \in DOMAIN lines' /\ lines'[i] = lines[i]
              /\ lines'[Len(lines')].by = p
              /\ lines'[Len(lines')].what = writer[p].what
              /\ writer'[p].pc \in Written => lines'[Len(lines')].shape # "cut"
<1>1. LogTypeOK /\ p \in living
  BY AppendEffect DEF TeamTypeOK
<1>2. ASSUME NEW shape \in {"whole", "cut", "glued"}, Extend(p, shape)
      PROVE  /\ Len(lines) \in Nat /\ Len(lines') \in Nat /\ Len(lines) <= Len(lines')
             /\ Len(lines') \in DOMAIN lines'
             /\ DOMAIN lines = 1..Len(lines) /\ DOMAIN lines' = 1..Len(lines')
             /\ \A i \in DOMAIN lines' : i # Len(lines') => i \in DOMAIN lines /\ lines'[i] = lines[i]
             /\ \A i \in DOMAIN lines : lines[i].shape # "cut" =>
                   i \in DOMAIN lines' /\ lines'[i] = lines[i]
             /\ lines'[Len(lines')].by = p
             /\ lines'[Len(lines')].what = writer[p].what
             /\ lines'[Len(lines')].shape = shape
  <2>n. /\ Len(lines) \in Nat /\ Len(lines') \in Nat
        /\ Len(lines') > 0 /\ Len(lines) <= Len(lines')
    BY <1>1, <1>2, ExtendEffect
  <2>l. Len(lines') = Len(lines) + 1 \/ (Len(lines') = Len(lines) /\ LastIs("cut"))
    BY <1>1, <1>2, ExtendEffect
  <2>d. DOMAIN lines = 1..Len(lines) /\ DOMAIN lines' = 1..Len(lines')
    BY <1>1, <1>2, ExtendEffect
  <2>1. \A i \in DOMAIN lines' : i # Len(lines') => i \in DOMAIN lines /\ lines'[i] = lines[i]
    BY <1>1, <1>2, ExtendEffect
  <2>2. lines'[Len(lines')] =
            [by |-> p, what |-> writer[p].what, prev |-> writer[p].prev, shape |-> shape]
    BY <1>1, <1>2, ExtendEffect
  <2>3. ASSUME NEW i \in DOMAIN lines, lines[i].shape # "cut"
        PROVE  i \in DOMAIN lines' /\ lines'[i] = lines[i]
    <3>1. i \in 1..Len(lines')
      BY <2>n, <2>d
    <3>2. i # Len(lines')
      <4>1. CASE Len(lines') = Len(lines) + 1
        BY <2>n, <2>d, <4>1
      <4>2. CASE Len(lines') = Len(lines) /\ LastIs("cut")
        BY <2>3, <4>2 DEF LastIs
      <4>3. QED
        BY <2>l, <4>1, <4>2
    <3>3. QED
      BY <2>d, <2>1, <3>1, <3>2
  <2>4. Len(lines') \in DOMAIN lines'
    <3>1. Len(lines') \in 1..Len(lines')
      BY <2>n
    <3>2. QED
      BY <2>d, <3>1
  <2>5. QED
    BY <2>n, <2>d, <2>1, <2>2, <2>3, <2>4
<1>3. QED
  BY <1>1, <1>2, AppendEffect

\* Who is past its line has it in the log.
LEMMA WrittenEffect ==
    ASSUME TeamTypeOK, NEW p \in Writers, AppendStep(p)
    PROVE  writer'[p].pc \in Written => writer[p].pc \in Written \/ Logged(p, writer[p].what)'
<1>1. writer'[p].what = writer[p].what
  BY AppendEffect
<1>2. QED
  BY <1>1, LineEffect DEF Logged, Tells

\* What is in the log stays there.
LEMMA LoggedStays ==
    ASSUME TeamTypeOK, Lives, [TeamNext]_teamVars, NEW q, NEW what, Logged(q, what)
    PROVE  Logged(q, what)'
<1>1. CASE \E p \in Writers : AppendStep(p) /\ UNCHANGED runVars
  <2>1. PICK p \in Writers : AppendStep(p)
    BY <1>1
  <2>2. QED
    BY <2>1, LineEffect DEF Logged, Tells
<1>2. CASE ~\E p \in Writers : AppendStep(p) /\ UNCHANGED runVars
  BY <1>2, QuietStep DEF Logged, Tells
<1>3. QED
  BY <1>1, <1>2

\* Once the coordinator has a verdict, or the log has it, no worker is left.
LEMMA ClosedStep ==
    ASSUME TeamTypeOK, Lives, Closed, Said, [TeamNext]_teamVars
    PROVE  Closed'
<1> USE TeamAssumption
<1>1. CASE \E p \in Writers : AppendStep(p) /\ UNCHANGED runVars
  <2>1. PICK p \in Writers : AppendStep(p) /\ UNCHANGED runVars
    BY <1>1
  <2>2. UNCHANGED <<living, coordinator, team>> /\ writer[p].pc # "idle"
    BY <2>1, AppendEffect DEF runVars
  <2>3. ASSUME NEW v \in Verdicts, Logged(Coordinator, v)'
        PROVE  Logged(Coordinator, v) \/ coordinator.pc \in {"erroring", "verdict"}
    BY <2>1, <2>2, <2>3, LineEffect DEF Logged, Tells, Said
  <2>4. QED
    BY <2>2, <2>3 DEF Closed
<1>2. CASE ~\E p \in Writers : AppendStep(p) /\ UNCHANGED runVars
  <2>1. \A v \in Verdicts : Logged(Coordinator, v)' => Logged(Coordinator, v)
    BY <1>2, QuietStep DEF Logged, Tells
  <2>2. CASE coordinator.pc \in {"erroring", "verdict"} \/ \E v \in Verdicts : Logged(Coordinator, v)
    <3>1. coordinator.pc \in Ended /\ ~Dispatching
      BY <2>2 DEF Closed, Ended, Dispatching, Coordinates
    <3>2. QED
      BY <1>2, <2>2, <3>1, QuietStep DEF Closed, Ended
  <2>3. CASE ~(coordinator.pc \in {"erroring", "verdict"} \/ \E v \in Verdicts : Logged(Coordinator, v))
    BY <1>2, <2>1, <2>3, QuietStep DEF Closed, Ended
  <2>4. QED
    BY <2>2, <2>3
<1>3. QED
  BY <1>1, <1>2

\* The coordinator appends a verdict only as its last word, and "accepted" only for workers
\* that completed.
LEMMA SaidStep ==
    ASSUME TeamTypeOK, Resting, Lives, Said, Received, [TeamNext]_teamVars
    PROVE  Said'
<1> USE TeamAssumption
<1>t. writer \in [Writers -> Writer] /\ coordinator \in Coordinating /\ team \in [Workers -> Working]
  BY DEF TeamTypeOK, LogTypeOK
<1>a. AtRest.pc = "idle"
  BY DEF AtRest
<1>1. CASE \E p \in Writers : AppendStep(p) /\ UNCHANGED runVars
  BY <1>1, AppendEffect DEF runVars, Said
<1>2. CASE UNCHANGED coordinator /\ writer'[Coordinator] = writer[Coordinator]
           /\ ~\E p \in Writers : AppendStep(p) /\ UNCHANGED runVars
  <2>1. \A w \in Workers : team[w].status = "completed" => team'[w].status = "completed"
    BY <1>2, QuietStep DEF Received
  <2>2. QED
    BY <1>2, <2>1 DEF Said
<1>3. CASE writer'[Coordinator].pc = "idle"
  BY <1>3 DEF Said
<1>4. CASE BeginDispatch \/ PrepareWorkspaces \/ Join
  <2>1. \/ writer' = Rested(writer, Coordinator)
        \/ /\ writer' = Appending(writer, Coordinator, "running") /\ coordinator'.pc = "running"
        \/ /\ writer' = Appending(writer, Coordinator, "errored") /\ coordinator'.pc = "erroring"
        \/ /\ writer' = Appending(writer, Coordinator, DispatchStatus)
           /\ coordinator'.pc = "verdict" /\ team' = team
    BY <1>4, <1>t DEF BeginDispatch, PrepareWorkspaces, Join, Coordinate, Coordinating
  <2>2. /\ DispatchStatus \in Verdicts
        /\ DispatchStatus = "accepted" => \A w \in Workers : team[w].status = "completed"
    BY DEF DispatchStatus, Verdicts
  <2>3. CASE writer' = Rested(writer, Coordinator)
    BY <2>3, <1>3, <1>t, <1>a, RestEffect
  <2>4. ASSUME NEW what, writer' = Appending(writer, Coordinator, what)
        PROVE  writer'[Coordinator].what = what
    BY <2>4, <1>t DEF Appending
  <2>5. QED
    BY <2>1, <2>2, <2>3, <2>4 DEF Said, Verdicts
<1>5. CASE GiveUpStart \/ EndDispatch
  <2>1. writer' = Rested(writer, Coordinator)
    BY <1>5 DEF GiveUpStart, EndDispatch
  <2>2. QED
    BY <2>1, <1>3, <1>t, <1>a, RestEffect
<1>6. CASE CompleteJob \/ SpawnCoordinator
  <2>1. writer'[Coordinator].pc = "idle"
    BY <1>6 DEF CompleteJob, SpawnCoordinator, Coordinates, Resting, Lives
  <2>2. QED
    BY <2>1, <1>3
<1>7. CASE CoordinatorDies
  BY <1>7, <1>3, <1>a DEF CoordinatorDies, Perish
<1>8. CASE SignalGroup
  BY <1>8, <1>2, <1>3, <1>a, <1>1 DEF SignalGroup, Perish
<1>9. CASE DescribeJob \/ PublishJob \/ AbortRun \/ CancelJob \/ ClearLocks \/ EndAbort
  <2>1. /\ UNCHANGED coordinator
        /\ \/ writer' = writer \/ \E p \in {Launcher, Aborter} : writer' = Rested(writer, p)
           \/ writer' = Appending(writer, Aborter, "aborted")
    BY <1>9 DEF DescribeJob, PublishJob, AbortRun, CancelJob, ClearLocks, EndAbort, logVars
  <2>2. writer'[Coordinator] = writer[Coordinator]
    BY <2>1, <1>t DEF Rested, Appending
  <2>3. QED
    BY <2>1, <2>2, <1>1, <1>2
<1>10. ASSUME NEW w \in Workers,
              SpawnWorker(w) \/ TimeOutWorker(w) \/ Work(w) \/ RecordAction(w) \/ EndWork(w)
       PROVE  Said'
  <2>1. /\ UNCHANGED coordinator
        /\ \/ writer' = writer \/ writer' = Rested(writer, w) \/ Perish({w})
           \/ \E what \in {"received", "action"} : writer' = Appending(writer, w, what)
    BY <1>10 DEF SpawnWorker, TimeOutWorker, Work, RecordAction, EndWork
  <2>2. writer'[Coordinator] = writer[Coordinator]
    BY <2>1, <1>t DEF Rested, Appending, Perish
  <2>3. QED
    BY <2>1, <2>2, <1>1, <1>2
<1>11. CASE UNCHANGED teamVars
  BY <1>11 DEF teamVars, logVars, runVars, Said
<1>12. QED
  BY <1>1, <1>4, <1>5, <1>6, <1>7, <1>8, <1>9, <1>10, <1>11 DEF TeamNext

\* A worker that records tool calls, or completed, has recorded its task.
LEMMA ReceivedStep ==
    ASSUME TeamTypeOK, Lives, Received, [TeamNext]_teamVars
    PROVE  Received'
<1> USE TeamAssumption
<1>t. writer \in [Writers -> Writer] /\ team \in [Workers -> Working]
  BY DEF TeamTypeOK, LogTypeOK
<1>l. \A w \in Workers : Logged(w, "received") => Logged(w, "received")'
  BY LoggedStays
<1>1. CASE \E p \in Writers : AppendStep(p) /\ UNCHANGED runVars
  <2>1. PICK p \in Writers : AppendStep(p) /\ UNCHANGED runVars
    BY <1>1
  <2>2. /\ \A q \in Writers : q # p => writer'[q] = writer[q]
        /\ writer[p].pc # "idle" /\ writer'[p].what = writer[p].what
        /\ UNCHANGED team
    BY <2>1, AppendEffect DEF runVars
  <2>3. writer'[p].pc \in Written => writer[p].pc \in Written \/ Logged(p, writer[p].what)'
    BY <2>1, WrittenEffect
  <2>4. QED
    BY <2>2, <2>3, <1>l DEF Received
<1>2. CASE UNCHANGED team /\ \A w \in Workers : writer'[w] = writer[w]
  BY <1>2, <1>l DEF Received
<1>3. CASE DescribeJob \/ SpawnCoordinator \/ PublishJob \/ BeginDispatch \/ GiveUpStart
           \/ PrepareWorkspaces \/ Join \/ EndDispatch \/ CompleteJob \/ CoordinatorDies
           \/ AbortRun \/ CancelJob \/ ClearLocks \/ EndAbort
  <2>1. /\ UNCHANGED team
        /\ \/ writer' = writer \/ Perish({Coordinator})
           \/ \E p \in {Launcher, Coordinator, Aborter} :
                 writer' = Rested(writer, p) \/ \E what : writer' = Appending(writer, p, what)
    BY <1>3
       DEF DescribeJob, SpawnCoordinator, PublishJob, BeginDispatch, GiveUpStart,
           PrepareWorkspaces, Join, EndDispatch, CompleteJob, CoordinatorDies, Coordinate,
           AbortRun, CancelJob, ClearLocks, EndAbort, logVars
  <2>2. \A w \in Workers : writer'[w] = writer[w]
    BY <2>1, <1>t DEF Rested, Appending, Perish
  <2>3. QED
    BY <2>1, <2>2, <1>2
<1>4. ASSUME NEW w \in Workers,
             SpawnWorker(w) \/ TimeOutWorker(w) \/ Work(w) \/ RecordAction(w) \/ EndWork(w)
      PROVE  Received'
  <2>1. \A v \in Workers : v # w => team'[v] = team[v] /\ writer'[v] = writer[v]
    BY <1>4, <1>t
       DEF SpawnWorker, TimeOutWorker, Work, RecordAction, EndWork, Perish, Rested, Appending
  <2>2. CASE SpawnWorker(w)
    <3>1. /\ team'[w].pc \in {"received", "unspawned"} /\ team'[w].status = team[w].status
          /\ team[w].pc = "none"
          /\ team'[w].pc = "received" => writer'[w].what = "received" /\ writer'[w].pc = "open"
      BY <2>2, <1>t DEF SpawnWorker, Working, Appending
    <3>2. QED
      BY <2>1, <3>1, <1>l DEF Received, Written
  <2>3. CASE TimeOutWorker(w)
    <3>1. team'[w].pc = "over" /\ team'[w].status = "killed"
      BY <2>3, <1>t DEF TimeOutWorker, Working
    <3>2. QED
      BY <2>1, <3>1, <1>l DEF Received
  <2>4. CASE Work(w)
    <3>1. /\ team'[w].pc = "working" /\ team'[w].status = team[w].status
          /\ team[w].pc \in {"received", "action"} /\ writer[w].pc = "ok"
      BY <2>4, <1>t DEF Work, Working, Doing
    <3>2. Logged(w, "received") /\ team[w].status = "none"
      BY <3>1, <1>t DEF Received, Written
    <3>3. QED
      BY <2>1, <3>1, <3>2, <1>l DEF Received
  <2>5. CASE RecordAction(w)
    <3>1. /\ team'[w].pc = "action" /\ team'[w].status = team[w].status
          /\ team[w].pc = "working"
      BY <2>5, <1>t DEF RecordAction, Working
    <3>2. Logged(w, "received") /\ team[w].status = "none"
      BY <3>1, <1>t DEF Received
    <3>3. QED
      BY <2>1, <3>1, <3>2, <1>l DEF Received
  <2>6. CASE EndWork(w)
    <3>1. /\ team'[w].pc = "over"
          /\ team'[w].status = "failed" \/ team[w].pc = "working"
      BY <2>6, <1>t DEF EndWork, Working
    <3>2. QED
      BY <2>1, <3>1, <1>l DEF Received
  <2>7. QED
    BY <1>4, <2>2, <2>3, <2>4, <2>5, <2>6
<1>5. CASE SignalGroup
  <2>1. CASE Coordinator \in living
    <3>1. \A w \in Workers : /\ w \in living => team'[w].pc = "over"
                             /\ w \notin living => team'[w] = team[w]
                             /\ team'[w].status = team[w].status
                             /\ writer'[w].pc = "idle"
      BY <1>5, <2>1, <1>t DEF SignalGroup, Perish, AtRest, Working
    <3>2. QED
      BY <3>1, <1>l DEF Received, Written
  <2>2. CASE Coordinator \notin living
    BY <1>5, <2>2, <1>2 DEF SignalGroup
  <2>3. QED
    BY <2>1, <2>2
<1>6. CASE UNCHANGED teamVars
  BY <1>6, <1>2 DEF teamVars, logVars, runVars
<1>7. QED
  BY <1>1, <1>3, <1>4, <1>5, <1>6 DEF TeamNext

\* A verdict that was returned, or that the job file repeats, is in the log.
LEMMA RecordedStep ==
    ASSUME TeamTypeOK, Lives, Recorded, [TeamNext]_teamVars
    PROVE  Recorded'
<1> USE TeamAssumption
<1>t. /\ writer \in [Writers -> Writer] /\ coordinator \in Coordinating
      /\ job \in Job /\ abort.job \in Job
  BY DEF TeamTypeOK, LogTypeOK, Aborting
<1>l. \A what \in Texts : Logged(Coordinator, what) => Logged(Coordinator, what)'
  BY LoggedStays
<1>w. writer[Coordinator].what \in Texts /\ "accepted" \in Texts
  BY <1>t DEF Writer, Texts, RunStatuses
<1>1. CASE \E p \in Writers : AppendStep(p) /\ UNCHANGED runVars
  <2>1. PICK p \in Writers : AppendStep(p) /\ UNCHANGED runVars
    BY <1>1
  <2>2. /\ \A q \in Writers : q # p => writer'[q] = writer[q]
        /\ writer'[p].what = writer[p].what /\ UNCHANGED <<coordinator, job>>
    BY <2>1, AppendEffect DEF runVars
  <2>3. writer'[p].pc \in Written => writer[p].pc \in Written \/ Logged(p, writer[p].what)'
    BY <2>1, WrittenEffect
  <2>4. QED
    BY <2>2, <2>3, <1>l, <1>w DEF Recorded
<1>2. CASE /\ coordinator' = coordinator /\ writer'[Coordinator] = writer[Coordinator]
           /\ job'.state = "accepted" => job.state = "accepted"
  BY <1>2, <1>l, <1>w DEF Recorded
<1>3. CASE DescribeJob \/ SpawnCoordinator \/ PublishJob \/ AbortRun \/ CancelJob
           \/ ClearLocks \/ EndAbort
  <2>1. /\ coordinator' = coordinator \/ coordinator' = [coordinator EXCEPT !.pc = "await"]
        /\ \/ writer' = writer
           \/ \E p \in {Launcher, Aborter} : writer' = Rested(writer, p)
           \/ writer' = Appending(writer, Aborter, "aborted")
    BY <1>3
       DEF DescribeJob, SpawnCoordinator, PublishJob, AbortRun, CancelJob, ClearLocks, EndAbort,
           logVars
  <2>2. job'.state = "accepted" => job.state = "accepted"
    <3>1. CASE DescribeJob \/ SpawnCoordinator \/ PublishJob
      BY <3>1, <1>t DEF DescribeJob, SpawnCoordinator, PublishJob, Job
    <3>2. CASE CancelJob
      BY <3>2, <1>t DEF CancelJob, Job
    <3>3. CASE AbortRun \/ ClearLocks \/ EndAbort
      BY <3>3 DEF AbortRun, ClearLocks, EndAbort
    <3>4. QED
      BY <1>3, <3>1, <3>2, <3>3
  <2>3. writer'[Coordinator] = writer[Coordinator]
    BY <2>1, <1>t DEF Rested, Appending
  <2>4. /\ coordinator'.verdict = coordinator.verdict
        /\ coordinator'.pc = "verdict" => coordinator.pc = "verdict"
    BY <2>1, <1>t DEF Coordinating
  <2>5. QED
    BY <2>2, <2>3, <2>4, <1>l, <1>w DEF Recorded
<1>4. CASE BeginDispatch \/ PrepareWorkspaces \/ Join
  <2>1. /\ \/ coordinator'.pc # "verdict"
           \/ writer' = Appending(writer, Coordinator, DispatchStatus)
        /\ coordinator'.verdict = coordinator.verdict /\ job' = job
    BY <1>4, <1>t DEF BeginDispatch, PrepareWorkspaces, Join, Coordinate, Coordinating
  <2>2. coordinator'.pc = "verdict" => writer'[Coordinator].pc \notin Written
    BY <2>1, <1>t DEF Appending, Written
  <2>3. QED
    BY <2>1, <2>2, <1>l, <1>w DEF Recorded
<1>5. CASE EndDispatch
  <2>1. /\ job' = job /\ coordinator'.pc = "finish"
        /\ coordinator'.verdict = "accepted" =>
              /\ coordinator.pc = "verdict" /\ writer[Coordinator].pc = "ok"
              /\ writer[Coordinator].what = "accepted"
    BY <1>5 DEF EndDispatch, Doing
  <2>2. QED
    BY <2>1, <1>l, <1>w DEF Recorded, Written
<1>6. CASE GiveUpStart \/ CompleteJob \/ CoordinatorDies
  <2>1. /\ coordinator' = Gone
        /\ job'.state = "accepted" => job.state = "accepted" \/ coordinator.verdict = "accepted"
    BY <1>6, <1>t DEF GiveUpStart, CompleteJob, CoordinatorDies, Job
  <2>2. QED
    BY <2>1, <1>l, <1>w DEF Recorded, Gone
<1>7. ASSUME NEW w \in Workers,
             SpawnWorker(w) \/ TimeOutWorker(w) \/ Work(w) \/ RecordAction(w) \/ EndWork(w)
      PROVE  Recorded'
  <2>1. /\ UNCHANGED <<coordinator, job>>
        /\ \/ writer' = writer \/ writer' = Rested(writer, w) \/ Perish({w})
           \/ \E what \in {"received", "action"} : writer' = Appending(writer, w, what)
    BY <1>7 DEF SpawnWorker, TimeOutWorker, Work, RecordAction, EndWork
  <2>2. writer'[Coordinator] = writer[Coordinator]
    BY <2>1, <1>t DEF Rested, Appending, Perish
  <2>3. QED
    BY <2>1, <2>2, <1>2
<1>8. CASE SignalGroup
  <2>1. job' = job /\ (coordinator' = Gone \/ UNCHANGED <<coordinator, writer>>)
    BY <1>8 DEF SignalGroup
  <2>2. QED
    BY <2>1, <1>2, <1>l, <1>w DEF Recorded, Gone
<1>9. CASE UNCHANGED teamVars
  BY <1>9, <1>2 DEF teamVars, logVars, runVars
<1>10. QED
  BY <1>1, <1>3, <1>4, <1>5, <1>6, <1>7, <1>8, <1>9 DEF TeamNext

\* A run that was killed stays killed: nothing but the aborter is left of it, and its line is
\* the last one.
LEMMA KilledStep ==
    ASSUME TeamTypeOK, LogInv, Resting, Lives, Sig, Killed, [TeamNext]_teamVars
    PROVE  Killed'
<1> USE TeamAssumption
<1>t. /\ writer \in [Writers -> Writer] /\ abort \in Aborting /\ abort.job \in Job
      /\ living \subseteq Writers /\ lines \in Seq(Line)
  BY DEF TeamTypeOK, LogTypeOK, Aborting
<1>1. CASE \E p \in Writers : AppendStep(p) /\ UNCHANGED runVars
  <2>1. PICK p \in Writers : AppendStep(p) /\ UNCHANGED runVars
    BY <1>1
  <2>2. /\ p \in living /\ living' = living /\ writer[p].pc # "idle"
        /\ writer'[p].what = writer[p].what
        /\ UNCHANGED <<job, launcher, coordinator, abort>>
    BY <2>1, AppendEffect DEF runVars
  <2>3. SUFFICES ASSUME abort.killed
                 PROVE  Killed'
    BY <2>2 DEF Killed
  <2>4. p = Aborter /\ abort.pc = "aborted"
    BY <2>2, <2>3 DEF Killed, Resting
  <2>5. writer'[p].pc \in Written => lines' # <<>> /\ Tells(Len(lines), Aborter, "aborted")'
    <3>1. CASE lines' = lines /\ (writer'[p].pc \in Written => writer[p].pc \in Written)
      BY <3>1, <2>3, <2>4 DEF Killed, Tells
    <3>2. CASE /\ Len(lines') \in DOMAIN lines' /\ DOMAIN lines' = 1..Len(lines')
               /\ Len(lines') \in Nat
               /\ lines'[Len(lines')].by = p /\ lines'[Len(lines')].what = writer[p].what
               /\ writer'[p].pc \in Written => lines'[Len(lines')].shape # "cut"
      BY <3>2, <2>3, <2>4 DEF Killed, Tells
    <3>3. QED
      BY <2>1, <3>1, <3>2, LineEffect
  <2>6. QED
    BY <2>2, <2>3, <2>4, <2>5 DEF Killed
<1>2. CASE UNCHANGED <<lines, abort, job>> /\ ~abort.killed
  BY <1>2 DEF Killed
<1>3. CASE DescribeJob \/ SpawnCoordinator \/ PublishJob \/ BeginDispatch \/ GiveUpStart
           \/ PrepareWorkspaces \/ Join \/ EndDispatch \/ CompleteJob \/ CoordinatorDies
           \/ \E w \in Workers :
                 SpawnWorker(w) \/ TimeOutWorker(w) \/ Work(w) \/ RecordAction(w) \/ EndWork(w)
  <2>1. /\ abort' = abort
        /\ launcher # "over" \/ coordinator.pc # "over" \/ \E p \in living : p # Aborter
    BY <1>3
       DEF DescribeJob, SpawnCoordinator, PublishJob, BeginDispatch, GiveUpStart,
           PrepareWorkspaces, Join, EndDispatch, CompleteJob, CoordinatorDies, Coordinate,
           Coordinates, Dispatching, SpawnWorker, TimeOutWorker, Work, RecordAction, EndWork
  <2>2. ~abort.killed
    BY <2>1 DEF Killed
  <2>3. QED
    BY <2>1, <2>2 DEF Killed
<1>4. CASE AbortRun
  <2>1. abort.pc = "idle" /\ abort'.killed = abort.killed
    BY <1>4, <1>t DEF AbortRun, Aborting
  <2>2. QED
    BY <2>1 DEF Killed
<1>5. CASE CancelJob
  <2>1. /\ abort.pc = "cancel" /\ abort'.pc = "clear" /\ abort'.killed = abort.killed
        /\ job'.state = "cancelled" /\ UNCHANGED <<living, launcher, coordinator>>
    BY <1>5, <1>t DEF CancelJob, Aborting, Job, logVars
  <2>2. QED
    BY <2>1 DEF Killed
<1>6. CASE ClearLocks
  <2>1. /\ abort.pc = "clear" /\ abort'.pc = "aborted" /\ abort'.killed = abort.killed
        /\ UNCHANGED <<living, launcher, coordinator, job>>
    BY <1>6, <1>t DEF ClearLocks, Aborting
  <2>2. writer'[Aborter].what = "aborted" /\ writer'[Aborter].pc = "open"
    BY <1>6, <1>t DEF ClearLocks, Appending
  <2>3. QED
    BY <2>1, <2>2 DEF Killed, Written
<1>7. CASE EndAbort
  <2>1. /\ abort.pc = "aborted" /\ abort'.killed = abort.killed
        /\ abort'.pc = "failed" \/ (abort'.pc = "done" /\ writer[Aborter].pc = "ok")
        /\ UNCHANGED <<launcher, coordinator, job, lines>> /\ living' \subseteq living
    BY <1>7, <1>t DEF EndAbort, Aborting, Doing, Exit
  <2>2. QED
    BY <2>1 DEF Killed, Written, Tells
<1>8. CASE SignalGroup
  <2>1. CASE Coordinator \in living
    <3>1. Launcher \notin living /\ launcher = "over"
      BY <1>8 DEF SignalGroup, Sig, Lives
    <3>2. /\ abort'.pc = "cancel" /\ coordinator'.pc = "over" /\ launcher' = launcher
          /\ living' = living \ ({Coordinator} \cup Workers)
      <4>1. abort'.pc = "cancel"
        BY <1>8, <2>1, <1>t DEF SignalGroup, Aborting
      <4>2. QED
        BY <4>1, <1>8, <2>1 DEF SignalGroup, Gone, Perish
    <3>3. living' \subseteq {Aborter}
      BY <1>t, <3>1, <3>2
    <3>4. QED
      BY <3>1, <3>2, <3>3 DEF Killed
  <2>2. CASE Coordinator \notin living
    <3>1. abort.pc = "signal" /\ abort'.killed = abort.killed
      BY <1>8, <2>2, <1>t DEF SignalGroup, Aborting
    <3>2. QED
      BY <3>1 DEF Killed
  <2>3. QED
    BY <2>1, <2>2
<1>9. CASE UNCHANGED teamVars
  BY <1>9 DEF teamVars, logVars, runVars, Killed, Tells
<1>10. QED
  BY <1>1, <1>3, <1>4, <1>5, <1>6, <1>7, <1>8, <1>9 DEF TeamNext

\* Every step keeps what a verdict says of the work.
LEMMA CoversStep ==
    ASSUME TeamTypeOK, Lives, Closed, Closed', Said, Received, VerdictCoversWork,
           [TeamNext]_teamVars
    PROVE  VerdictCoversWork'
<1> USE TeamAssumption
<1>1. CASE \E p \in Writers : AppendStep(p) /\ UNCHANGED runVars
  <2>1. PICK p \in Writers : AppendStep(p) /\ UNCHANGED runVars
    BY <1>1
  <2>2. UNCHANGED <<living, team, coordinator>> /\ writer[p].pc # "idle"
    BY <2>1, AppendEffect DEF runVars
  <2>3. CASE lines' = lines
    BY <2>2, <2>3 DEF VerdictCoversWork, Tells
  <2>4. CASE lines' # lines
    <3> DEFINE last == Len(lines')
    <3>1. /\ p \in living /\ last \in Nat /\ last \in DOMAIN lines' /\ DOMAIN lines' = 1..last
          /\ Len(lines) \in Nat /\ Len(lines) <= last /\ DOMAIN lines = 1..Len(lines)
          /\ \A i \in DOMAIN lines' : i # last => i \in DOMAIN lines /\ lines'[i] = lines[i]
          /\ \A i \in DOMAIN lines : lines[i].shape # "cut" => lines'[i] = lines[i]
          /\ lines'[last].by = p /\ lines'[last].what = writer[p].what
      BY <2>1, <2>4, LineEffect
    <3>2. SUFFICES ASSUME NEW i \in DOMAIN lines', NEW verdict \in Verdicts,
                          Tells(i, Coordinator, verdict)'
                   PROVE  /\ \A w \in Workers : w \notin living
                          /\ \A j \in i..last : lines'[j].by \notin Workers
                          /\ verdict = "accepted" =>
                                \A w \in Workers :
                                    /\ team[w].status = "completed"
                                    /\ \E j \in 1..i : Tells(j, w, "received")'
      BY <2>2 DEF VerdictCoversWork
    <3>3. \A w \in Workers : w \notin living
      BY <3>2, <2>2 DEF Closed, Logged
    <3>4. CASE i # last
      <4>1. /\ i \in DOMAIN lines /\ Tells(i, Coordinator, verdict)
        BY <3>1, <3>2, <3>4 DEF Tells
      <4>2. ASSUME NEW j \in i..last
            PROVE  lines'[j].by \notin Workers
        <5>1. CASE j = last
          BY <5>1, <3>1, <3>3
        <5>2. CASE j # last
          <6>0. i \in Nat \ {0} /\ j \in Int /\ i <= j /\ j <= last
            BY <3>1
          <6>1. j \in DOMAIN lines' /\ j \in DOMAIN lines /\ lines'[j] = lines[j]
            <7> HIDE DEF last
            <7>1. j \in DOMAIN lines'
              BY <6>0, <3>1
            <7>2. QED
              BY <7>1, <5>2, <3>1
          <6>2. j \in i..Len(lines)
            BY <6>0, <6>1, <3>1
          <6>3. QED
            BY <6>1, <6>2, <4>1 DEF VerdictCoversWork
        <5>3. QED
          BY <5>1, <5>2
      <4>3. ASSUME verdict = "accepted", NEW w \in Workers
            PROVE  /\ team[w].status = "completed"
                   /\ \E j \in 1..i : Tells(j, w, "received")'
        <5>1. PICK j \in 1..i : Tells(j, w, "received") /\ team[w].status = "completed"
          BY <4>1, <4>3 DEF VerdictCoversWork
        <5>2. j \in DOMAIN lines
          BY <3>1, <4>1
        <5>3. Tells(j, w, "received")'
          BY <3>1, <5>1, <5>2 DEF Tells
        <5>4. QED
          BY <5>1, <5>3
      <4>4. QED
        BY <3>3, <4>2, <4>3
    <3>5. CASE i = last
      <4>1. p = Coordinator /\ writer[p].what = verdict
        BY <3>1, <3>2, <3>5 DEF Tells
      <4>2. \A j \in i..last : lines'[j].by \notin Workers
        BY <3>1, <3>5, <4>1
      <4>3. ASSUME verdict = "accepted", NEW w \in Workers
            PROVE  /\ team[w].status = "completed"
                   /\ \E j \in 1..i : Tells(j, w, "received")'
        <5>1. team[w].status = "completed"
          BY <4>1, <4>3, <2>2 DEF Said
        <5>2. PICK j \in DOMAIN lines : Tells(j, w, "received")
          BY <5>1 DEF Received, Logged
        <5>3. j \in 1..i /\ Tells(j, w, "received")'
          BY <5>2, <3>1, <3>5 DEF Tells
        <5>4. QED
          BY <5>1, <5>3
      <4>4. QED
        BY <3>3, <4>2, <4>3
    <3>6. QED
      BY <3>4, <3>5
  <2>5. QED
    BY <2>3, <2>4
<1>2. CASE ~\E p \in Writers : AppendStep(p) /\ UNCHANGED runVars
  <2>1. lines' = lines /\ \A w \in Workers : team[w].pc = "over" => team'[w].status = team[w].status
    BY <1>2, QuietStep
  <2>t. \A i, p, what : Tells(i, p, what)' <=> Tells(i, p, what)
    BY <2>1 DEF Tells
  <2>2. SUFFICES ASSUME NEW i \in DOMAIN lines, NEW verdict \in Verdicts,
                        Tells(i, Coordinator, verdict)
                 PROVE  /\ \A w \in Workers : w \notin living'
                        /\ \A j \in i..Len(lines) : lines[j].by \notin Workers
                        /\ verdict = "accepted" =>
                              \A w \in Workers :
                                  /\ team'[w].status = "completed"
                                  /\ \E j \in 1..i : Tells(j, w, "received")
    BY <2>1 DEF VerdictCoversWork, Tells
  <2>3. \A w \in Workers : w \notin living'
    BY <2>1, <2>2, <2>t DEF Closed, Logged
  <2>4. \A w \in Workers : team[w].status = "completed" => team'[w].status = "completed"
    BY <2>1 DEF Received
  <2>5. QED
    BY <2>2, <2>3, <2>4 DEF VerdictCoversWork
<1>3. QED
  BY <1>1, <1>2

---------------------------------------------------------------------------
\* The run starts in order.
LEMMA InitHolds ==
    ASSUME TeamInit
    PROVE  TeamTypeOK /\ IInv /\ VerdictCoversWork
<1> USE TeamAssumption
<1>1. PICK first \in {Launcher, Coordinator} :
          /\ LogInit(first)
          /\ launcher = IF first = Launcher THEN "starting" ELSE "over"
          /\ coordinator = [pc |-> IF first = Launcher THEN "absent" ELSE "starting",
                            verdict |-> "none"]
  BY DEF TeamInit
<1>2. /\ lines = <<>> /\ Len(lines) = 0 /\ tip = 0 /\ lock = NoOwner /\ rifts = {}
      /\ living = {first} /\ first \in Writers
      /\ lines \in Seq(Line)
  BY <1>1 DEF LogInit
<1>3. writer = [p \in Writers |-> IF p = first THEN [pc |-> "open", what |-> "started", prev |-> 0]
                                              ELSE AtRest]
  BY <1>1, <1>2 DEF LogInit, Appending
<1>4. AtRest = [pc |-> "idle", what |-> "started", prev |-> 0]
  BY DEF AtRest
<1>5. TeamTypeOK
  <2>1. {"idle", "open"} \subseteq Places /\ "started" \in Texts
    BY DEF Places, Texts, RunStatuses
  <2>2. writer \in [Writers -> Writer] /\ \A p \in Writers : writer[p].prev = 0
    BY <1>3, <1>4, <2>1 DEF Writer
  <2>3. LogTypeOK
    BY <1>2, <2>2 DEF LogTypeOK, Lock
  <2>4. job \in Job /\ team \in [Workers -> Working] /\ abort \in Aborting
    BY DEF TeamInit, NoJob, Job, Working, Aborting
  <2>5. coordinator \in Coordinating /\ launcher \in {"starting", "spawn", "publish", "over"}
    BY <1>1 DEF Coordinating
  <2>6. QED
    BY <2>3, <2>4, <2>5 DEF TeamTypeOK
<1>6. LogInv
  <2>1. BusyLive
    BY <1>2, <1>3, <1>4 DEF BusyLive
  <2>2. Held /\ TipFollows /\ PrevFollows /\ ChainVerifies
    BY <1>2, <1>3, <1>4 DEF Held, Inside, TipFollows, PrevFollows, ChainVerifies
  <2>3. QED
    BY <1>5, <2>1, <2>2 DEF LogInv, TeamTypeOK
<1>7. Resting
  <2>1. \A p \in Writers : p # first => writer[p].pc = "idle"
    BY <1>3, <1>4
  <2>2. abort.pc = "idle" /\ \A w \in Workers : w # first
    BY DEF TeamInit
  <2>3. QED
    BY <1>1, <2>1, <2>2 DEF Resting
<1>8. Lives /\ Sig
  BY <1>1, <1>2 DEF TeamInit, NoJob, Lives, Sig
<1>9. Closed /\ Recorded /\ VerdictCoversWork
  <2>1. coordinator.pc \in {"absent", "starting"} /\ coordinator.verdict = "none"
    BY <1>1
  <2>2. job.state = "none" /\ DOMAIN lines = {}
    BY <1>2 DEF TeamInit, NoJob
  <2>3. QED
    BY <2>1, <2>2 DEF Closed, Recorded, VerdictCoversWork, Logged
<1>10. Said /\ Received /\ Killed
  <2>1. writer[Coordinator].pc # "idle" => writer[Coordinator].what = "started"
    BY <1>3, <1>4
  <2>2. coordinator.pc \in {"absent", "starting"}
    BY <1>1
  <2>3. \A w \in Workers : team[w].pc = "none" /\ team[w].status = "none"
    BY DEF TeamInit
  <2>4. QED
    BY <2>1, <2>2, <2>3 DEF TeamInit, Said, Received, Killed, Verdicts
<1>11. QED
  BY <1>6, <1>7, <1>8, <1>9, <1>10, <1>5 DEF IInv

\* TeamTypeOK: the log, its lock, the job file and every process stay well-formed.
THEOREM TeamTypeCorrect == TeamSpec => []TeamTypeOK
<1>1. TeamInit => TeamTypeOK
  BY InitHolds
<1>2. TeamTypeOK /\ [TeamNext]_teamVars => TeamTypeOK'
  BY TeamTypeStep
<1>3. QED
  BY <1>1, <1>2, PTL DEF TeamSpec

\* The inductive invariant.
LEMMA InvariantHolds == TeamSpec => [](IInv /\ VerdictCoversWork)
<1> DEFINE Kept == TeamTypeOK /\ IInv /\ VerdictCoversWork
<1>1. TeamInit => Kept
  BY InitHolds
<1>2. Kept /\ [TeamNext]_teamVars => Kept'
  <2>1. SUFFICES ASSUME Kept, [TeamNext]_teamVars
                 PROVE  Kept'
    OBVIOUS
  <2>2. TeamTypeOK'
    BY <2>1, TeamTypeStep
  <2>3. LogInv'
    BY <2>1, <2>2, LogStep DEF IInv
  <2>4. Resting' /\ Lives' /\ Sig'
    BY <2>1, RestingStep, LivesStep DEF IInv
  <2>5. Closed' /\ Said' /\ Received' /\ Recorded'
    BY <2>1, ClosedStep, SaidStep, ReceivedStep, RecordedStep DEF IInv
  <2>6. Killed' /\ VerdictCoversWork'
    BY <2>1, <2>5, KilledStep, CoversStep DEF IInv
  <2>7. QED
    BY <2>2, <2>3, <2>4, <2>5, <2>6 DEF IInv
<1>3. Kept => IInv /\ VerdictCoversWork
  OBVIOUS
<1> HIDE DEF Kept
<1>4. QED
  BY <1>1, <1>2, <1>3, PTL DEF TeamSpec

\* ChainBreaksForCause: the log of a run is a chain, whatever the number of its workers and
\* lines and whichever of their writes fail, unless a line was cut short, .tip was left at an
\* earlier line, or a live writer lost its lock.
THEOREM ChainIsKept == TeamSpec => []ChainBreaksForCause
<1>1. IInv => ChainBreaksForCause
  BY DEF IInv, LogInv, ChainBreaksForCause
<1>2. QED
  BY <1>1, InvariantHolds, PTL

\* VerdictCoversWork: no worker is left once the log has a verdict, and an accepted run is
\* one whose workers all recorded their task and completed.
THEOREM VerdictIsCovered == TeamSpec => []VerdictCoversWork
BY InvariantHolds, PTL

\* JobAgreesWithLog: an accepted job has its verdict in the log, and a run that was killed
\* stays cancelled, with "aborted" as its last line.
THEOREM JobIsTrue == TeamSpec => []JobAgreesWithLog
<1>1. IInv => JobAgreesWithLog
  BY DEF IInv, Recorded, Killed, Logged, JobAgreesWithLog
<1>2. QED
  BY <1>1, InvariantHolds, PTL
=============================================================================
