------------------------------- MODULE TeamLog --------------------------------
(***************************************************************************)
(* The checkpoint log of a team run, checkpoints.ndjson, as the native     *)
(* processes write it: append_team_checkpoint, current_tip_hash and        *)
(* AppendLock of team_runtime.rs.                                          *)
(*                                                                         *)
(* Each line carries the hash of the line it was appended to and a hash    *)
(* over that and its own text, so here a line is its place in the log and  *)
(* `prev` the place of the line it names, 0 for none.  Appending takes the *)
(* .append.lock, reads the hash of the last line from the .tip file, adds  *)
(* the line, writes .tip and gives the lock back.  Each file operation is  *)
(* a step; a process may die between any two of them, and every write may  *)
(* fail, with nothing or a part of it done.  To die in the middle of a     *)
(* write is to die after one that failed.                                  *)
(*                                                                         *)
(* Left out: a read or a removal that fails although the file is there;    *)
(* the time a waiter sleeps (it may give up whenever it finds the lock     *)
(* taken); a prevTipHash demanded by the caller, which none demands.  A    *)
(* line that lacks only its line end counts as cut.  A process is known by *)
(* its pid and start time, so a pid used again is not its owner.           *)
(***************************************************************************)
EXTENDS Naturals, Sequences

CONSTANTS
    Writers,  \* the processes of the run
    Unlucky,  \* bound: the processes whose writes may fail
    NoOwner   \* the lock is free

ASSUME OwnerAssumption == NoOwner \notin [owner : Writers, written : BOOLEAN]

VARIABLES
    lines,   \* checkpoints.ndjson
    tip,     \* the place .tip names, 0 while there is no .tip
    lock,    \* .append.lock: its owner, and whether the owner's record is in it
    writer,  \* what each process is doing with the log
    living,  \* the processes that run
    rifts    \* history: how the order of the log has been put at risk

logVars == <<lines, tip, lock, writer, living, rifts>>

RunStatuses == {"started", "running", "accepted", "killed", "errored", "aborted"}
Steps == {"received", "action"}
Texts == RunStatuses \cup Steps
\* A line whose write failed is cut, and what is appended next ends up glued to it.
Line == [by : Writers, what : Texts, prev : Nat, shape : {"whole", "cut", "glued"}]
Lock == [owner : Writers, written : BOOLEAN] \cup {NoOwner}
Places == {"idle", "open", "inspect", "reclaim", "record", "read", "append", "tip",
           "drop", "unlink", "ok", "dropFailed", "unlinkFailed", "failed"}
Writer == [pc : Places, what : Texts, prev : Nat]

AtRest == [pc |-> "idle", what |-> "started", prev |-> 0]
Rested(w, p) == [w EXCEPT ![p] = AtRest]
\* The call of append_team_checkpoint; the caller goes on once it is ok or failed.
Appending(w, p, what) == [w EXCEPT ![p] = [pc |-> "open", what |-> what, prev |-> 0]]
Doing(p, pc) == writer[p].pc = pc
Proceed(p, pc) == writer' = [writer EXCEPT ![p].pc = pc]

\* start_team_run_record: the log is empty, and the process that records the run adds to it.
LogInit(first) ==
    /\ lines = <<>> /\ tip = 0 /\ lock = NoOwner /\ rifts = {}
    /\ living = {first}
    /\ writer = Appending([p \in Writers |-> AtRest], first, "started")

---------------------------------------------------------------------------
\* A slip: the lock is opened without asking that it be new.
OpenAppendLockAnyway(p) ==
    /\ Doing(p, "open")
    /\ lock' = [owner |-> p, written |-> FALSE]
    /\ Proceed(p, "record")
    /\ UNCHANGED <<lines, tip, living, rifts>>

\* The path of the append lock is removed by p, whoever's lock is there by now.
UnlinkAppendLock(p) ==
    /\ lock' = NoOwner
    /\ rifts' = rifts \cup
          (IF lock # NoOwner /\ lock.owner \in living \ {p} THEN {"unlocked"} ELSE {})

\* create_new
OpenAppendLock(p) ==
    /\ Doing(p, "open")
    /\ IF lock = NoOwner
       THEN lock' = [owner |-> p, written |-> FALSE] /\ Proceed(p, "record")
       ELSE UNCHANGED lock /\ Proceed(p, "inspect")
    /\ UNCHANGED <<lines, tip, living, rifts>>

\* reclaim_dead_append_lock, up to its removal: an owner is judged by the record in the
\* lock.  A lock that is gone by now is an error, not a reason to try again.
InspectAppendLock(p) ==
    /\ Doing(p, "inspect")
    /\ \/ lock = NoOwner /\ Proceed(p, "failed")
       \/ /\ lock # NoOwner /\ lock.written /\ lock.owner \notin living
          /\ Proceed(p, "reclaim")
       \/ /\ lock # NoOwner /\ (lock.written => lock.owner \in living)
          /\ \/ Proceed(p, "open")
             \/ Proceed(p, "failed")
    /\ UNCHANGED <<lines, tip, lock, living, rifts>>

ReclaimAppendLock(p) ==
    /\ Doing(p, "reclaim")
    /\ UnlinkAppendLock(p)
    /\ Proceed(p, "open")
    /\ UNCHANGED <<lines, tip, living>>

\* The owner's record goes into the file that was opened, wherever that is by now.
RecordOwner(p) ==
    /\ Doing(p, "record")
    /\ IF lock # NoOwner /\ lock.owner = p THEN lock' = [lock EXCEPT !.written = TRUE]
       ELSE UNCHANGED lock
    /\ Proceed(p, "read")
    /\ UNCHANGED <<lines, tip, living, rifts>>

\* The lock cannot be opened or reclaimed, or its record not be written: then its path is
\* removed again.
AppendLockFails(p) ==
    /\ p \in Unlucky
    /\ \/ writer[p].pc \in {"open", "reclaim"} /\ UNCHANGED <<lock, rifts>>
       \/ Doing(p, "record") /\ UnlinkAppendLock(p)
    /\ Proceed(p, "failed")
    /\ UNCHANGED <<lines, tip, living>>

LastIs(shape) == lines # <<>> /\ lines[Len(lines)].shape = shape

\* current_tip_hash: .tip is believed; without one the last line counts, if it can be
\* parsed, and .tip is written, if it can be.
ReadTip(p) ==
    /\ Doing(p, "read")
    /\ LET place == IF tip # 0 THEN tip ELSE IF LastIs("whole") THEN Len(lines) ELSE 0
       IN  /\ tip' = place \/ (p \in Unlucky /\ tip' = tip)
           /\ writer' = [writer EXCEPT ![p] = [pc |-> "append", what |-> @.what, prev |-> place]]
    /\ UNCHANGED <<lines, lock, living, rifts>>

\* What p appends comes after the last line, or on it if that was cut.
Extend(p, shape) ==
    LET line == [by |-> p, what |-> writer[p].what, prev |-> writer[p].prev, shape |-> shape]
    IN  lines' = IF LastIs("cut") THEN [lines EXCEPT ![Len(lines)] = line] ELSE Append(lines, line)

AppendLine(p) ==
    /\ Doing(p, "append")
    /\ Extend(p, IF LastIs("cut") THEN "glued" ELSE "whole")
    /\ writer' = [writer EXCEPT ![p] = [pc |-> "tip", what |-> @.what, prev |-> Len(lines')]]
    /\ UNCHANGED <<tip, lock, living, rifts>>

\* The log cannot be opened, or a part of the line is written.
AppendFails(p) ==
    /\ p \in Unlucky /\ Doing(p, "append")
    /\ \/ UNCHANGED <<lines, rifts>>
       \/ Extend(p, "cut") /\ rifts' = rifts \cup {"torn"}
    /\ Proceed(p, "dropFailed")
    /\ UNCHANGED <<tip, lock, living>>

WriteTip(p) ==
    /\ Doing(p, "tip")
    /\ tip' = writer[p].prev
    /\ Proceed(p, "drop")
    /\ UNCHANGED <<lines, lock, living, rifts>>

\* A .tip that cannot be opened names the line before; one that was opened is empty, and
\* the next writer looks at the log.  The line stays.
TipFails(p) ==
    /\ p \in Unlucky /\ Doing(p, "tip")
    /\ tip' \in {tip, 0}
    /\ rifts' = rifts \cup (IF tip' # 0 THEN {"untipped"} ELSE {})
    /\ Proceed(p, "dropFailed")
    /\ UNCHANGED <<lines, lock, living>>

\* Drop for AppendLock, after an append that is ok or failed: the lock is removed if it
\* holds the writer's own record.
Drops == {[check |-> "drop", unlink |-> "unlink", end |-> "ok"],
          [check |-> "dropFailed", unlink |-> "unlinkFailed", end |-> "failed"]}

CheckAppendLock(p) ==
    /\ \E d \in Drops :
          /\ Doing(p, d.check)
          /\ Proceed(p, IF lock = [owner |-> p, written |-> TRUE] THEN d.unlink ELSE d.end)
    /\ UNCHANGED <<lines, tip, lock, living, rifts>>

DropAppendLock(p) ==
    /\ \E d \in Drops : Doing(p, d.unlink) /\ Proceed(p, d.end)
    /\ UnlinkAppendLock(p)
    /\ UNCHANGED <<lines, tip, living>>

AppendStep(p) ==
    /\ p \in living
    /\ \/ OpenAppendLock(p) \/ InspectAppendLock(p) \/ ReclaimAppendLock(p) \/ RecordOwner(p)
       \/ AppendLockFails(p) \/ ReadTip(p) \/ AppendLine(p) \/ AppendFails(p) \/ WriteTip(p)
       \/ TipFails(p) \/ CheckAppendLock(p) \/ DropAppendLock(p)

\* The processes of `dead` die where they are.
Perish(dead) ==
    /\ living' = living \ dead
    /\ writer' = [p \in Writers |-> IF p \in dead THEN AtRest ELSE writer[p]]
    /\ rifts' = rifts \cup
          (IF tip # 0 /\ \E p \in dead \cap living : Doing(p, "tip") THEN {"untipped"} ELSE {})

---------------------------------------------------------------------------
LogTypeOK ==
    /\ lines \in Seq(Line) /\ tip \in 0..Len(lines)
    /\ lock \in Lock
    /\ writer \in [Writers -> Writer] /\ \A p \in Writers : writer[p].prev <= Len(lines)
    /\ living \subseteq Writers
    /\ rifts \subseteq {"unlocked", "untipped", "torn"}

\* verify_team_run_chain: every line can be parsed and names the one before it.
ChainVerifies == \A i \in DOMAIN lines : lines[i].shape = "whole" /\ lines[i].prev = i - 1

\* The i-th line holds this record of p; one glued to a fragment is there, if hard to parse.
Tells(i, p, what) == lines[i].by = p /\ lines[i].what = what /\ lines[i].shape # "cut"
=============================================================================
