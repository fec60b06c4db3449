---------------------------- MODULE LifecycleLock -----------------------------
(***************************************************************************)
(* The lock that serialises the lifecycle of one evolution run among       *)
(* processes: acquirePreparationLock and releasePreparationLock of         *)
(* evolution-git-host.ts.                                                  *)
(*                                                                         *)
(* The lock is a directory at a known path; the owner.json in it holds the *)
(* token and the pid of its owner.  A claimant builds its directory under  *)
(* a private name and renames it onto the path, which fails while one is   *)
(* there.  To remove a lock, stale or its own, a process first renames it  *)
(* to a private name, then reads whose it was, then deletes it or renames  *)
(* it back.  Each of these file operations is a step.                      *)
(*                                                                         *)
(* Left out: what a directory holds beside its token; the collection of    *)
(* private directories that a crash has left, which no lock is among.  A   *)
(* heartbeat only keeps the lease of a live owner from expiring, and only  *)
(* dead owners are judged by their lease.  A lock that came between the    *)
(* failed read of its owner and the look at its age is a young one.  Each  *)
(* caller is a process of its own, and pids are not used again.            *)
(***************************************************************************)
EXTENDS Naturals, FiniteSets

CONSTANTS
    Callers,    \* the processes that want the lock
    MaxClaims,  \* bound: how often each of them gets it
    NoLock

ASSUME LockAssumption == MaxClaims \in Nat \ {0} /\ NoLock \notin (Callers \X Nat)

VARIABLES
    lockPath,  \* the token of the directory at the path, or NoLock
    acquire,   \* what each caller is doing
    races      \* history: the ways in which the lock of another was moved

lockVars == <<lockPath, acquire, races>>

\* A token names the caller and which of its claims this is.
Token == Callers \X (1..MaxClaims)
Acquirer == [pc : {"idle", "claim", "read", "stat", "take", "taken", "held", "moved",
                   "dead"},
             claims : 0..MaxClaims, seen : Token \cup {NoLock}, shelf : Token \cup {NoLock}]

LockInit ==
    /\ lockPath = NoLock
    /\ acquire = [c \in Callers |-> [pc |-> "idle", claims |-> 0, seen |-> NoLock, shelf |-> NoLock]]
    /\ races = {}

At(c, pc) == acquire[c].pc = pc
Goto(c, pc) == acquire' = [acquire EXCEPT ![c].pc = pc]
Leave(c, pc) == acquire' = [acquire EXCEPT ![c].pc = pc, ![c].seen = NoLock, ![c].shelf = NoLock]
OwnToken(c) == <<c, acquire[c].claims>>

---------------------------------------------------------------------------
\* withRunLock: the caller has no lock yet and wants one.
Begin(c) ==
    /\ At(c, "idle") /\ acquire[c].claims < MaxClaims
    /\ Goto(c, "claim")
    /\ UNCHANGED <<lockPath, races>>

\* The head of the loop: the caller's signal was aborted.
Aborted(c) ==
    /\ At(c, "claim")
    /\ Goto(c, "idle")
    /\ UNCHANGED <<lockPath, races>>

\* The finished directory is renamed onto the path.
Claim(c) ==
    /\ At(c, "claim") /\ lockPath = NoLock
    /\ acquire' = [acquire EXCEPT ![c].pc = "held", ![c].claims = @ + 1]
    /\ lockPath' = <<c, acquire[c].claims + 1>>
    /\ UNCHANGED races

\* EEXIST or ENOTEMPTY: there is one.
Blocked(c) ==
    /\ At(c, "claim") /\ lockPath # NoLock
    /\ Goto(c, "read")
    /\ UNCHANGED <<lockPath, races>>

\* Slip: the pid of the owner is not asked for.
ExpiredOnly(token) == TRUE

\* !isProcessAlive(current.pid): whether the lease has expired as well is open.
MayBeStale(token) == acquire[token[1]].pc = "dead"

\* The owner of the lock is read; none can be when the lock has gone meanwhile.
ReadOwner(c) ==
    /\ At(c, "read")
    /\ \/ lockPath = NoLock /\ Goto(c, "stat")
       \/ /\ lockPath # NoLock /\ MayBeStale(lockPath)
          /\ acquire' = [acquire EXCEPT ![c].pc = "take", ![c].seen = lockPath]
       \/ /\ lockPath # NoLock
          /\ Goto(c, "claim")
    /\ UNCHANGED <<lockPath, races>>

\* incompleteLockIsStale: a lock without an owner is stale when it has gone (ENOENT).
StatLock(c) ==
    /\ At(c, "stat")
    /\ Goto(c, IF lockPath = NoLock THEN "take" ELSE "claim")
    /\ UNCHANGED <<lockPath, races>>

\* The name under which c quarantines a lock is taken: that of a token is the same for all.
NameTaken(c) ==
    /\ acquire[c].seen # NoLock
    /\ \E d \in Callers \ {c} :
           /\ acquire[d].seen = acquire[c].seen
           /\ acquire[d].shelf # NoLock

\* The lock is renamed to the quarantine, whatever it is by now.
Take(c) ==
    /\ At(c, "take")
    /\ \/ lockPath = NoLock /\ Leave(c, "claim") /\ UNCHANGED <<lockPath, races>>
       \/ lockPath # NoLock /\ NameTaken(c) /\ Leave(c, "idle") /\ UNCHANGED <<lockPath, races>>
       \/ /\ lockPath # NoLock /\ ~NameTaken(c)
          /\ acquire' = [acquire EXCEPT ![c].pc = "taken", ![c].shelf = lockPath]
          /\ lockPath' = NoLock
          /\ races' = races \cup IF lockPath = acquire[c].seen THEN {}
                                 ELSE IF acquire[c].seen = NoLock THEN {"unread"} ELSE {"late"}

\* A rename back to the path, which fails when another lock is there.
PutBackLock(c) == lockPath' = IF lockPath = NoLock THEN acquire[c].shelf ELSE lockPath

\* The token in the quarantine is compared with the one judged stale, if one was read.
CheckTaken(c) ==
    /\ At(c, "taken")
    /\ IF acquire[c].seen # NoLock /\ acquire[c].shelf # acquire[c].seen
       THEN /\ PutBackLock(c)
            /\ Leave(c, "idle")
       ELSE /\ Leave(c, "claim")
            /\ UNCHANGED lockPath
    /\ UNCHANGED races

---------------------------------------------------------------------------
\* Release: the lock at the path is moved away, whosever it is, unless none is there.
MoveAway(c) ==
    /\ At(c, "held")
    /\ \/ lockPath = NoLock /\ Goto(c, "idle") /\ UNCHANGED <<lockPath, races>>
       \/ /\ lockPath # NoLock
          /\ acquire' = [acquire EXCEPT ![c].pc = "moved", ![c].shelf = lockPath]
          /\ lockPath' = NoLock
          /\ races' = races \cup IF lockPath = OwnToken(c) THEN {} ELSE {"release"}

\* Its token is compared with the own one.
CheckMoved(c) ==
    /\ At(c, "moved")
    /\ IF acquire[c].shelf = OwnToken(c) THEN UNCHANGED lockPath ELSE PutBackLock(c)
    /\ Leave(c, "idle")
    /\ UNCHANGED races

Die(c) ==
    /\ acquire[c].pc \notin {"idle", "dead"}
    /\ Goto(c, "dead")
    /\ UNCHANGED <<lockPath, races>>

---------------------------------------------------------------------------
LockNext ==
    \E c \in Callers :
        \/ Begin(c) \/ Aborted(c) \/ Claim(c) \/ Blocked(c) \/ ReadOwner(c) \/ StatLock(c)
        \/ Take(c) \/ CheckTaken(c) \/ MoveAway(c) \/ CheckMoved(c) \/ Die(c)

LockSpec == LockInit /\ [][LockNext]_lockVars

---------------------------------------------------------------------------
LockTypeOK ==
    /\ lockPath \in Token \cup {NoLock}
    /\ acquire \in [Callers -> Acquirer]
    /\ races \subseteq {"unread", "late", "release"}

\* At most one process holds the lock: taking over from an owner that is dead and whose
\* lease has expired is "conservative but sound" (evolution-git-host.ts:1241).
OneHolder ==
    \A c, d \in Callers : At(c, "held") /\ At(d, "held") => c = d

\* Two processes hold the lock only after a rename that moved another lock than the one
\* judged stale: one whose owner could not be read, or one claimed since.  A release that
\* moves another's lock only ever follows one of those.
OnlyStaleTakeoversSplit ==
    /\ races \cap {"unread", "late"} = {} => OneHolder
    /\ "release" \in races => races \cap {"unread", "late"} # {}
=============================================================================
