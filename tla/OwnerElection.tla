------------------------------ MODULE OwnerElection ------------------------------
(***************************************************************************)
(* How the processes of one user agree on a single runtime owner:          *)
(* ensureRuntimeOwner (apps/unclecode-server/src/runtime-owner-discovery.ts)*)
(* run by every client, spawnDetachedRuntimeOwner (apps/unclecode-cli/src/  *)
(* runtime-owner-launcher.ts) run by the one that claims the lock, and the *)
(* life of the owner process (runtime-owner.ts, startPersistentRuntimeOwner *)
(* and its stop).                                                          *)
(*                                                                         *)
(* They share two files: the lease, replaced by an atomic rename, and the  *)
(* lock, created exclusively and unlinked by path.  An action is what runs *)
(* between two awaits on them.                                             *)
(*                                                                         *)
(* Abstracted: a process that is gone stands for a dead pid, a reused one  *)
(* and another boot, which the code tells from a live one in the same      *)
(* place; the backoff sleeps are left out; an identity lookup that fails   *)
(* and a health probe that times out are one answer, "live-unhealthy".     *)
(***************************************************************************)
EXTENDS Integers, FiniteSets

CONSTANTS
    Clients,        \* processes that call ensureRuntimeOwner, once each
    Crashed,        \* those that died in it before the system starts
    Owners,         \* owner processes that may be spawned
    None,           \* no file, no process
    MaxClaims,      \* bound: locks that one client creates
    MaxMisreads     \* bound: reads of the lease that fail on a file that is there

ASSUME ElectionAssumption ==
    /\ None \notin Clients \cup Owners \cup [by : Clients, n : Nat, written : BOOLEAN]
    /\ Crashed \subseteq Clients
    /\ MaxClaims \in Nat \ {0} /\ MaxMisreads \in Nat

VARIABLES
    lease,          \* owner named by the lease file
    lock,           \* claim in the lock file
    owner,          \* where each owner process is
    pc,             \* where each client is in ensureRuntimeOwner
    seen,           \* lease that the client read last
    target,         \* claim that it read in the lock file
    child,          \* owner that it spawned
    claims,         \* claims that it has made
    misreads,       \* failed reads so far
    causes          \* history: what happened so far that may split the ownership

electionVars == <<lease, lock, owner, pc, seen, target, child, claims, misreads, causes>>

Claim == [by : Clients, n : Nat, written : BOOLEAN]

OwnerStates == {"unborn", "booting", "open", "serving", "stopping", "closed",
                "removing", "gone"}
ClientStates == {"idle", "loop", "classify", "open", "write", "reread", "reclassify",
                 "spawn", "wait", "blind", "reap", "clean", "remove", "health",
                 "publish", "attached", "refused", "retry", "inspect", "compare",
                 "unlink", "done", "failed", "gone"}

\* The process exists; its ledger is open; its server answers /health.
Alive(o) == o # None /\ owner[o] \notin {"unborn", "gone"}
Serves(o) == owner[o] \in {"open", "serving", "stopping"}
Healthy(o) == o # None /\ owner[o] \in {"open", "serving"}

\* Between the creation of the lock and the `finally` that removes it; of these, the
\* ones that have decided to start an owner.
Launching == {"spawn", "wait", "blind", "reap", "clean", "remove", "health", "publish"}
Claiming == {"write", "reread", "reclassify", "attached", "refused", "retry"} \cup Launching

Goto(c, label) == pc' = [pc EXCEPT ![c] = label]
Become(o, state) == owner' = [owner EXCEPT ![o] = state]

\* One of those that died before may have left its lock.
ElectionInit ==
    /\ lease = None
    /\ lock \in {None} \cup [by : Crashed, n : {1}, written : {TRUE}]
    /\ owner = [o \in Owners |-> "unborn"]
    /\ pc = [c \in Clients |-> IF c \in Crashed THEN "gone" ELSE "idle"]
    /\ seen = [c \in Clients |-> None]
    /\ target = [c \in Clients |-> None]
    /\ child = [c \in Clients |-> None]
    /\ claims = [c \in Clients |-> IF c \in Crashed THEN MaxClaims ELSE 0]
    /\ misreads = 0
    /\ causes = {}

---------------------------------------------------------------------------
\* ensureRuntimeOwner up to the lock: read the lease, classify the owner it names.

Ensure(c) ==
    /\ pc[c] = "idle"
    /\ Goto(c, "loop")
    /\ UNCHANGED <<lease, lock, owner, seen, target, child, claims, misreads, causes>>

\* The deadline is tested at the head of the loop only.
TimeOut(c) ==
    /\ pc[c] = "loop"
    /\ Goto(c, "failed")
    /\ UNCHANGED <<lease, lock, owner, seen, target, child, claims, misreads, causes>>

\* readRuntimeOwnerLease returns null for a file that it cannot read.
Read(c, next) ==
    /\ Goto(c, next)
    /\ \/ /\ seen' = [seen EXCEPT ![c] = lease]
          /\ UNCHANGED <<misreads, causes>>
       \/ /\ lease # None
          /\ misreads < MaxMisreads
          /\ misreads' = misreads + 1
          /\ causes' = causes \cup {"misread"}
          /\ seen' = [seen EXCEPT ![c] = None]
    /\ UNCHANGED <<lease, lock, owner, target, child, claims>>

ReadLease(c) ==
    /\ pc[c] = "loop"
    /\ claims[c] < MaxClaims
    /\ Read(c, "classify")

\* Slip: an owner that does not answer its probe in time is replaced.
ClassifyImpatient(c, stale, attachable, unhealthy) ==
    /\ \/ ~Alive(seen[c]) /\ Goto(c, stale)
       \/ Healthy(seen[c]) /\ Goto(c, attachable)
       \/ Alive(seen[c]) /\ Goto(c, stale)
    /\ seen' = [seen EXCEPT ![c] = None]
    /\ UNCHANGED <<lease, lock, owner, target, child, claims, misreads, causes>>

\* classifyPublishedOwner: what the owner in the lease is now, and where each
\* answer leads.
Classify(c, stale, attachable, unhealthy) ==
    /\ \/ ~Alive(seen[c]) /\ Goto(c, stale)
       \/ Healthy(seen[c]) /\ Goto(c, attachable)
       \/ Alive(seen[c]) /\ Goto(c, unhealthy)
    /\ seen' = [seen EXCEPT ![c] = None]
    /\ UNCHANGED <<lease, lock, owner, target, child, claims, misreads, causes>>

ClassifyFirst(c) == pc[c] = "classify" /\ Classify(c, "open", "done", "loop")

---------------------------------------------------------------------------
\* The claim: open(lockPath, "wx"), write the claim into it, read the lease again.

OpenLock(c) ==
    /\ pc[c] = "open"
    /\ \/ /\ lock = None
          /\ claims' = [claims EXCEPT ![c] = @ + 1]
          /\ lock' = [by |-> c, n |-> claims[c] + 1, written |-> FALSE]
          /\ Goto(c, "write")
       \/ /\ lock # None
          /\ Goto(c, "inspect")
          /\ UNCHANGED <<lock, claims>>
    /\ UNCHANGED <<lease, owner, seen, target, child, misreads, causes>>

\* The write goes to the file that was opened, which may no longer be at the path.
WriteLock(c) ==
    /\ pc[c] = "write"
    /\ Goto(c, "reread")
    /\ lock' = IF lock # None /\ lock.by = c
             THEN [by |-> c, n |-> lock.n, written |-> TRUE] ELSE lock
    /\ UNCHANGED <<lease, owner, seen, target, child, claims, misreads, causes>>

RereadLease(c) == pc[c] = "reread" /\ Read(c, "reclassify")

Reclassify(c) == pc[c] = "reclassify" /\ Classify(c, "spawn", "attached", "retry")

\* A claim leaves the path although its claimant is still at work behind it.
Robbed(c) == lock # None /\ lock.by # c /\ pc[lock.by] \in Claiming

\* The `finally`: unlink(lockPath), whoever's lock is there by now.
ReleaseLock(c) ==
    /\ pc[c] \in {"attached", "refused", "retry"}
    /\ Goto(c, CASE pc[c] = "attached" -> "done" [] pc[c] = "refused" -> "failed"
                 [] pc[c] = "retry" -> "loop")
    /\ lock' = None
    /\ causes' = IF Robbed(c) THEN causes \cup {"claim"} ELSE causes
    /\ child' = [child EXCEPT ![c] = None]
    /\ UNCHANGED <<lease, owner, seen, target, claims, misreads>>

---------------------------------------------------------------------------
\* EEXIST: removeDeadLock and unlinkLockIfUnchanged.

\* A claim that is not written yet counts as dead once it is LOCK_WRITE_GRACE_MS old.
Dead(claim) == ~claim.written \/ pc[claim.by] = "gone"

InspectLock(c) ==
    /\ pc[c] = "inspect"
    /\ \/ /\ lock # None /\ Dead(lock)
          /\ target' = [target EXCEPT ![c] = lock]
          /\ Goto(c, "compare")
       \/ /\ lock # None => pc[lock.by] # "gone"
          /\ UNCHANGED target
          /\ Goto(c, "loop")
    /\ UNCHANGED <<lease, lock, owner, seen, child, claims, misreads, causes>>

CompareLock(c) ==
    /\ pc[c] = "compare"
    /\ IF lock = target[c]
       THEN Goto(c, "unlink") /\ UNCHANGED target
       ELSE Goto(c, "loop") /\ target' = [target EXCEPT ![c] = None]
    /\ UNCHANGED <<lease, lock, owner, seen, child, claims, misreads, causes>>

UnlinkLock(c) ==
    /\ pc[c] = "unlink"
    /\ Goto(c, "loop")
    /\ target' = [target EXCEPT ![c] = None]
    /\ lock' = None
    /\ causes' = IF Robbed(c) THEN causes \cup {"claim"} ELSE causes
    /\ UNCHANGED <<lease, owner, seen, child, claims, misreads>>

---------------------------------------------------------------------------
\* spawnDetachedRuntimeOwner: spawn the owner, poll the lease until it names it.

\* The lookup of the child's start identity may fail: nothing can match it then.
Spawn(c) ==
    /\ pc[c] = "spawn"
    /\ \E o \in Owners :
          /\ owner[o] = "unborn"
          /\ Become(o, "booting")
          /\ child' = [child EXCEPT ![c] = o]
    /\ \E next \in {"wait", "blind"} : Goto(c, next)
    /\ UNCHANGED <<lease, lock, seen, target, claims, misreads, causes>>

SpawnFails(c) ==
    /\ pc[c] = "spawn"
    /\ Goto(c, "refused")
    /\ UNCHANGED <<lease, lock, owner, seen, target, child, claims, misreads, causes>>

HandOff(c) ==
    /\ pc[c] = "wait"
    /\ lease = child[c]
    /\ Healthy(child[c])
    /\ Goto(c, "health")
    /\ UNCHANGED <<lease, lock, owner, seen, target, child, claims, misreads, causes>>

\* Slip: a child that is late is left alone, as one that was not identified is.
GiveUpUnreaped(c) ==
    /\ pc[c] \in {"wait", "blind"}
    /\ Goto(c, "refused")
    /\ UNCHANGED <<lease, lock, owner, seen, target, child, claims, misreads, causes>>

\* The child exited, or the launcher's own deadline passed.  One that was not
\* identified is reaped at once: there is no lease of it to remove.
GiveUp(c) ==
    /\ pc[c] \in {"wait", "blind"}
    /\ Goto(c, IF pc[c] = "wait" THEN "reap" ELSE "refused")
    /\ IF pc[c] = "wait" THEN UNCHANGED owner ELSE Become(child[c], "gone")
    /\ UNCHANGED <<lease, lock, seen, target, child, claims, misreads, causes>>

\* SIGTERM may let it stop by itself first (Stop); SIGKILL ends it.
Reap(c) ==
    /\ pc[c] = "reap"
    /\ Become(child[c], "gone")
    /\ Goto(c, "clean")
    /\ UNCHANGED <<lease, lock, seen, target, child, claims, misreads, causes>>

\* removeExactChildLease: the last of its two reads, and its unlink.
CheckChildLease(c) ==
    /\ pc[c] = "clean"
    /\ Goto(c, IF lease = child[c] THEN "remove" ELSE "refused")
    /\ UNCHANGED <<lease, lock, owner, seen, target, child, claims, misreads, causes>>

RemoveChildLease(c) ==
    /\ pc[c] = "remove"
    /\ lease' = None
    /\ Goto(c, "refused")
    /\ UNCHANGED <<lock, owner, seen, target, child, claims, misreads, causes>>

\* Back in ensureRuntimeOwner: the health of what startOwner returned, and the lease
\* published a second time.
CheckHealth(c) ==
    /\ pc[c] = "health"
    /\ \/ Healthy(child[c]) /\ Goto(c, "publish")
       \/ Goto(c, "refused")
    /\ UNCHANGED <<lease, lock, owner, seen, target, child, claims, misreads, causes>>

PublishAgain(c) ==
    /\ pc[c] = "publish"
    /\ lease' = child[c]
    /\ Goto(c, "attached")
    /\ UNCHANGED <<lock, owner, seen, target, child, claims, misreads, causes>>

\* A client that dies leaves its claim, and its child to itself.
ClientCrash(c) ==
    /\ pc[c] \notin {"idle", "done", "failed", "gone"}
    /\ Goto(c, "gone")
    /\ seen' = [seen EXCEPT ![c] = None]
    /\ target' = [target EXCEPT ![c] = None]
    /\ child' = [child EXCEPT ![c] = None]
    /\ causes' = IF Alive(child[c]) THEN causes \cup {"launcher"} ELSE causes
    /\ UNCHANGED <<lease, lock, owner, claims, misreads>>

---------------------------------------------------------------------------
\* startPersistentRuntimeOwner, its lease watch and its stop.

\* openRuntimeLedger, recoverInDoubt, startServer.
Boot(o) ==
    /\ owner[o] = "booting"
    /\ Become(o, "open")
    /\ UNCHANGED <<lease, lock, pc, seen, target, child, claims, misreads, causes>>

\* publishRuntimeOwnerLease, over whatever lease is there.
PublishLease(o) ==
    /\ owner[o] = "open"
    /\ Become(o, "serving")
    /\ lease' = o
    /\ UNCHANGED <<lock, pc, seen, target, child, claims, misreads, causes>>

\* Slip: a missing lease does not stop an owner.
WatchOthersOnly(o) ==
    /\ owner[o] = "serving"
    /\ lease \notin {o, None}
    /\ Become(o, "stopping")
    /\ UNCHANGED <<lease, lock, pc, seen, target, child, claims, misreads, causes>>

\* The lease watch: another lease, none, or one that it cannot read.
Watch(o) ==
    /\ owner[o] = "serving"
    /\ \/ lease # o /\ UNCHANGED <<misreads, causes>>
       \/ /\ lease = o
          /\ misreads < MaxMisreads
          /\ misreads' = misreads + 1
          /\ causes' = causes \cup {"misread"}
    /\ Become(o, "stopping")
    /\ UNCHANGED <<lease, lock, pc, seen, target, child, claims>>

\* SIGTERM.
Stop(o) ==
    /\ owner[o] = "serving"
    /\ Become(o, "stopping")
    /\ UNCHANGED <<lease, lock, pc, seen, target, child, claims, misreads, causes>>

\* stop: the server, the engines, the ledger; then the lease, if it is still its own.
Close(o) ==
    /\ owner[o] = "stopping"
    /\ Become(o, "closed")
    /\ UNCHANGED <<lease, lock, pc, seen, target, child, claims, misreads, causes>>

CheckOwnLease(o) ==
    /\ owner[o] = "closed"
    /\ Become(o, IF lease = o THEN "removing" ELSE "gone")
    /\ UNCHANGED <<lease, lock, pc, seen, target, child, claims, misreads, causes>>

RemoveOwnLease(o) ==
    /\ owner[o] = "removing"
    /\ Become(o, "gone")
    /\ lease' = None
    /\ UNCHANGED <<lock, pc, seen, target, child, claims, misreads, causes>>

OwnerCrash(o) ==
    /\ Alive(o)
    /\ Become(o, "gone")
    /\ UNCHANGED <<lease, lock, pc, seen, target, child, claims, misreads, causes>>

---------------------------------------------------------------------------
FindOwner(c) == Ensure(c) \/ TimeOut(c) \/ ReadLease(c) \/ ClassifyFirst(c)
ClaimStep(c) == OpenLock(c) \/ WriteLock(c) \/ RereadLease(c) \/ Reclassify(c) \/ ReleaseLock(c)
Cleanup(c) == InspectLock(c) \/ CompareLock(c) \/ UnlinkLock(c)
Launch(c) == Spawn(c) \/ SpawnFails(c) \/ HandOff(c) \/ GiveUp(c) \/ Reap(c)
             \/ CheckChildLease(c) \/ RemoveChildLease(c) \/ CheckHealth(c) \/ PublishAgain(c)
ClientStep(c) == FindOwner(c) \/ ClaimStep(c) \/ Cleanup(c) \/ Launch(c)

OwnerStep(o) == Boot(o) \/ PublishLease(o) \/ Close(o) \/ CheckOwnLease(o) \/ RemoveOwnLease(o)

ElectionNext ==
    \/ \E c \in Clients : ClientStep(c) \/ ClientCrash(c)
    \/ \E o \in Owners : OwnerStep(o) \/ Watch(o) \/ Stop(o) \/ OwnerCrash(o)

ElectionSpec == ElectionInit /\ [][ElectionNext]_electionVars

\* A client that is in the call goes on; its deadline passes, although it tests it
\* only now and then; a process runs and its timer fires.  No one has to be stopped,
\* to crash or to misread.
ElectionFairness ==
    /\ \A c \in Clients : /\ WF_electionVars(ClientStep(c) /\ pc[c] # "idle")
                          /\ SF_electionVars(TimeOut(c))
    /\ \A o \in Owners : /\ WF_electionVars(OwnerStep(o))
                         /\ WF_electionVars(Watch(o) /\ lease # o)

ElectionFairSpec == ElectionSpec /\ ElectionFairness

---------------------------------------------------------------------------
ElectionTypeOK ==
    /\ lease \in Owners \cup {None}
    /\ lock \in Claim \cup {None}
    /\ owner \in [Owners -> OwnerStates]
    /\ pc \in [Clients -> ClientStates]
    /\ seen \in [Clients -> Owners \cup {None}]
    /\ target \in [Clients -> Claim \cup {None}]
    /\ child \in [Clients -> Owners \cup {None}]
    /\ claims \in [Clients -> Nat]
    /\ misreads \in 0 .. MaxMisreads
    /\ causes \subseteq {"claim", "launcher", "misread"}
    /\ \A c \in Clients : pc[c] \in Launching \ {"spawn"} => child[c] # None

\* "Simultaneous clients start exactly one runtime owner": two clients are past the
\* second look at the lease at once only after a claim was taken from a live claimant.
OneLauncher ==
    causes = {} =>
        \A c, d \in Clients : pc[c] \in Launching /\ pc[d] \in Launching => c = d

\* No two owners have the ledger open at once, which would let the second one's
\* recovery settle the commands of the first, unless a claim was taken from a live
\* claimant, a launcher died before its owner had published, or a lease that was
\* there could not be read.
OneServing ==
    causes = {} => \A o, p \in Owners : Serves(o) /\ Serves(p) => o = p

\* With the same exceptions, an owner that serves is the one that clients find: no
\* stop and no failed start removes or replaces the lease of a later owner.
ServingIsPublished ==
    causes = {} => \A o \in Owners : owner[o] = "serving" => lease = o

\* Every call of ensureRuntimeOwner ends, and whatever split the ownership, the lease watch
\* ends it: from some time on no client is in the call, and at most one owner serves, the one
\* in the lease.
ElectionSettles ==
    <>[](/\ \A c \in Clients : pc[c] \in {"idle", "done", "failed", "gone"}
         /\ \A o \in Owners : Serves(o) => lease = o /\ owner[o] = "serving")
=============================================================================
