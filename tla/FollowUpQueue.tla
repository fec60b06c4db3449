------------------------------ MODULE FollowUpQueue ------------------------------
(***************************************************************************)
(* The follow-ups of a Work Shell: handleSubmit and drainQueuedSubmits     *)
(* (packages/orchestrator/src/work-shell-engine.ts) over the durable queue *)
(* of the Rust core (rust/unclecode-core/src/queue.rs, steer.rs).          *)
(*                                                                         *)
(* Every queue operation and every queue decision is a command that runs   *)
(* in another process.  The arguments of a decision are read when the      *)
(* command is started and its answer is used when it ends; a queue file is *)
(* read or changed in between, under its lock.  A call is therefore a      *)
(* sequence of steps, and other calls run between them.                    *)
(*                                                                         *)
(* A drain runs handleSubmit for each follow-up that it claims, and the    *)
(* tail of that call may drain again: `held` is the stack of the claims of *)
(* one call.  A follow-up is named by the call that submitted it.          *)
(*                                                                         *)
(* Abstracted: what a turn does; commands that run no turn; a pending      *)
(* decision, which only a running turn opens and which makes a submit      *)
(* return at once, is one of the reasons for Ignore; attachments are a     *)
(* restoration that succeeds or fails.                                     *)
(***************************************************************************)
EXTENDS Integers, FiniteSets, Sequences, SequencesExt

CONSTANTS
    Submits,        \* calls of handleSubmit, once each
    Remote,         \* those of them that an RPC admits first
    Resumes,        \* calls of resumeQueueItems
    Edits,          \* calls of clear, retry, discard or removeQueueItem
    Casts,          \* instances: the calls that are made, and the bound that is left
    MaxActs         \* bound: acts of the operator, failures and restarts, altogether

ASSUME QueueAssumption ==
    /\ Remote \subseteq Submits
    /\ Submits \cap Resumes = {} /\ Submits \cap Edits = {} /\ Resumes \cap Edits = {}
    /\ MaxActs \in Nat
    /\ Casts \subseteq [calls : SUBSET (Submits \cup Resumes \cup Edits), events : 0..MaxActs]

Calls == Submits \cup Resumes \cup Edits

VARIABLES
    queue,          \* the queue file: its items, in order
    shell,          \* fields of the engine
    call,           \* where each call is
    fate,           \* history: what became of each follow-up
    events          \* how many of those there were

queueVars == <<queue, shell, call, fate, events>>

Item == [id : Nat \ {0}, text : Submits, status : {"pending", "claimed", "action"}]

Shell == [count : Nat,              \* queuedCountCache
          paused : BOOLEAN,         \* queueAutoDrainPaused
          skip : SUBSET Nat,        \* queueDrainSkipTurnEpochs
          epoch : Nat,              \* activeTurnEpoch
          busy : BOOLEAN,           \* state.isBusy
          draining : BOOLEAN,       \* drainingQueue
          phase : {"open", "closing", "closed"},    \* lifecycleClosing, disposed
          admitted : Nat, cancelled : Nat,          \* admitted remote turns
          steering : BOOLEAN]       \* composerMode is "agent-steer"

Labels == {"new", "admitted", "pushing", "pushed", "turn", "unwinding", "skipping",
           "starting", "claiming", "load", "store", "restore", "quarantine", "acking",
           "nacking", "returning", "failing", "looping", "leaving", "done", "gone"}

CallState == [pc : Labels,
              then : {"none", "leave", "restore", "pause", "rethrow", "cleared", "done"},
              turn : Nat,                \* epoch of its turn
              seen : [n : Nat, action : BOOLEAN],        \* what it read last
              held : Seq([id : Nat \ {0}, text : Submits])]

Unread == [n |-> 0, action |-> FALSE]
Resting(label) == [pc |-> label, then |-> "none", turn |-> 0, seen |-> Unread,
                   held |-> <<>>]

QueueInit ==
    /\ queue = <<>>
    /\ shell = [count |-> 0, paused |-> FALSE, skip |-> {}, epoch |-> 0, busy |-> FALSE,
                draining |-> FALSE, phase |-> "open", admitted |-> 0, cancelled |-> 0,
                steering |-> FALSE]
    /\ \E cast \in Casts :
          /\ call = [f \in Calls |-> Resting(IF f \in cast.calls THEN "new" ELSE "done")]
          /\ events = MaxActs - cast.events
    /\ fate = [accepted |-> {}, begun |-> {}, completed |-> {}, dropped |-> {},
               diverted |-> {}, returned |-> {}, meddled |-> FALSE, reused |-> FALSE]

Happens == events < MaxActs /\ events' = events + 1

---------------------------------------------------------------------------
\* The queue file.

HeldIds == UNION {{call[g].held[k].id : k \in DOMAIN call[g].held} : g \in Calls}
WithStatus(status) == {i \in DOMAIN queue : queue[i].status = status}
Texts == {queue[i].text : i \in DOMAIN queue}

\* The id after the largest one in the file: the id of a removed item may come again.
NextItemId == IF queue = <<>> THEN 1
              ELSE 1 + CHOOSE n \in {queue[i].id : i \in DOMAIN queue} :
                            \A i \in DOMAIN queue : queue[i].id <= n

\* Where the item with this id is, when its status is one of these: one index or none.
At(id, statuses) == {i \in DOMAIN queue : queue[i].id = id /\ queue[i].status \in statuses}

SetStatus(indices, status) ==
    queue' = [i \in DOMAIN queue |->
                IF i \in indices THEN [queue[i] EXCEPT !.status = status] ELSE queue[i]]
Drop(indices) == \E i \in indices : queue' = RemoveAt(queue, i)

\* Only these items stay, in their order.
Keep(indices) ==
    \E order \in [1..Cardinality(indices) -> indices] :
        /\ \A j, k \in DOMAIN order : j < k => order[j] < order[k]
        /\ \A i \in indices : \E k \in DOMAIN order : order[k] = i
        /\ queue' = [k \in DOMAIN order |-> queue[order[k]]]

Snapshot == [n |-> Cardinality(WithStatus("pending")), action |-> WithStatus("action") # {}]

---------------------------------------------------------------------------
\* Steps of a call.  `c` is the call's record and `e` the engine as this step leaves them.

Closing(e) == e.phase # "open"
Put(f, c) == call' = [call EXCEPT ![f] = c]
Top(c) == Last(c.held)
Popped(c) == [c EXCEPT !.held = Front(@)]
TextOf(f) == IF call[f].held = <<>> THEN f ELSE Top(call[f]).text

\* handleSubmit returns: to its caller, or to the drain that runs a claimed follow-up,
\* which returns the claim, puts it back or acknowledges it.
Returned(c, e) ==
    CASE c.held = <<>> -> Resting("done")
      [] c.held # <<>> /\ Closing(e) -> [c EXCEPT !.pc = "returning"]
      [] c.held # <<>> /\ ~Closing(e) /\ e.paused -> [c EXCEPT !.pc = "nacking"]
      [] OTHER -> [c EXCEPT !.pc = "acking"]

\* An exception leaves handleSubmit or a drain.
Thrown(c) == IF c.held = <<>> THEN Resting("done") ELSE [c EXCEPT !.pc = "failing"]

\* The `finally` of a drain.
Undrained(e) == [e EXCEPT !.draining = FALSE]
Left(c, e) == Returned(c, Undrained(e))

\* Queue commands are awaited twice: the file is read, then the answer is used.
Reload(c, next) == [c EXCEPT !.pc = "load", !.then = next]

\* The decision to start a drain, on the values that it is sent.
Asked(c, e) ==
    [c EXCEPT !.pc = IF ~e.draining /\ ~e.busy /\ e.count > 0 THEN "starting" ELSE "skipping"]
\* The decision to go on with it.
Continued(c, e) ==
    [c EXCEPT !.pc = IF ~e.busy /\ e.count > 0 THEN "claiming" ELSE "leaving"]

\* consumeRuntimeTurnAdmission: whichever submit comes first uses up an admission.
Cancelled == shell.admitted > 0 /\ shell.cancelled > 0
Admitted == IF shell.admitted = 0 THEN shell ELSE [shell EXCEPT !.admitted = @ - 1]
Diverted(f) == fate' = [fate EXCEPT !.diverted = @ \cup {TextOf(f)}]

\* handleSubmit up to its first await.
HandleSubmit(f) ==
    LET c == call[f] e == Admitted IN
    \/ /\ Closing(shell)
       /\ Put(f, Returned(c, shell))
       /\ UNCHANGED <<shell, fate>>
    \/ /\ ~Closing(shell) /\ Cancelled
       /\ shell' = [e EXCEPT !.cancelled = @ - 1]
       /\ Put(f, Returned(c, e))
       /\ Diverted(f)
    \/ /\ ~Closing(shell) /\ ~Cancelled /\ shell.steering
       /\ shell' = [e EXCEPT !.steering = FALSE]
       /\ Put(f, Returned(c, e))
       /\ Diverted(f)
    \/ /\ ~Closing(shell) /\ ~Cancelled /\ ~shell.steering /\ shell.busy
       /\ shell' = e
       /\ Put(f, [c EXCEPT !.pc = "pushing", !.seen.n = e.count])
       /\ UNCHANGED fate
    \/ /\ ~Closing(shell) /\ ~Cancelled /\ ~shell.steering /\ ~shell.busy
       /\ shell' = [e EXCEPT !.epoch = @ + 1, !.busy = TRUE]
       /\ Put(f, [c EXCEPT !.pc = "turn", !.turn = e.epoch + 1])
       /\ fate' = [fate EXCEPT !.begun = @ \cup {TextOf(f)}]

\* admitRuntimeTurn, when the arbiter admits a remote submit.
Admit(f) ==
    /\ f \in Remote
    /\ call[f].pc = "new"
    /\ Put(f, [call[f] EXCEPT !.pc = "admitted"])
    /\ shell' = [shell EXCEPT !.admitted = @ + 1]
    /\ UNCHANGED <<queue, fate, events>>

Submit(f) ==
    /\ f \in Submits
    /\ call[f].pc = IF f \in Remote THEN "admitted" ELSE "new"
    /\ HandleSubmit(f)
    /\ UNCHANGED <<queue, events>>

\* A busy submit that is not queued: a slash command, or text that a decision awaits.
Ignore(f) ==
    /\ f \in Submits
    /\ call[f].pc = "pushing" /\ call[f].held = <<>>
    /\ Put(f, Returned(call[f], shell))
    /\ UNCHANGED <<queue, shell, fate, events>>

\* handleBusySubmit: push-envelope-json, then the count of before plus one.
Push(f) ==
    /\ call[f].pc = "pushing"
    /\ queue' = Append(queue, [id |-> NextItemId, text |-> TextOf(f), status |-> "pending"])
    /\ Put(f, [call[f] EXCEPT !.pc = "pushed"])
    /\ fate' = [fate EXCEPT !.accepted = @ \cup {TextOf(f)},
                            !.reused = @ \/ NextItemId \in HeldIds]
    /\ UNCHANGED <<shell, events>>

CountPush(f) ==
    /\ call[f].pc = "pushed"
    /\ shell' = [shell EXCEPT !.count = call[f].seen.n + 1]
    /\ Put(f, Returned([call[f] EXCEPT !.seen = Unread], shell))
    /\ UNCHANGED <<queue, fate, events>>

---------------------------------------------------------------------------
\* The turn of a submit and its tail.

Current(f) == call[f].turn = shell.epoch

\* The turn ends by itself: the shell is idle before handleSubmit goes on.
TurnEnds(f) ==
    /\ call[f].pc = "turn" /\ Current(f)
    /\ shell' = [shell EXCEPT !.busy = FALSE]
    /\ fate' = [fate EXCEPT !.completed = @ \cup {TextOf(f)}]
    /\ Put(f, [call[f] EXCEPT !.pc = "unwinding"])
    /\ UNCHANGED <<queue, events>>

\* Slip: the signal of an interrupted turn reaches nobody.
TurnIgnoresAbort(f) ==
    /\ call[f].pc = "turn" /\ Current(f) /\ Closing(shell)
    /\ Put(f, [call[f] EXCEPT !.pc = "unwinding"])
    /\ UNCHANGED <<queue, shell, fate, events>>

\* An interrupted turn ends, and may notice it before it has called the provider.
TurnAborts(f) ==
    /\ call[f].pc = "turn" /\ ~Current(f)
    /\ \E skip \in {shell.skip, shell.skip \cup {call[f].turn}} :
          shell' = [shell EXCEPT !.skip = skip]
    /\ Put(f, [call[f] EXCEPT !.pc = "unwinding"])
    /\ UNCHANGED <<queue, fate, events>>

\* pauseQueueAfterProofBlock: the turn may not start, and the queue waits with it.
TurnBlocked(f) ==
    /\ call[f].pc = "turn" /\ Current(f)
    /\ Happens
    /\ shell' = [shell EXCEPT !.busy = FALSE, !.skip = @ \cup {call[f].turn},
                              !.paused = @ \/ shell.draining \/ shell.count > 0]
    /\ Put(f, [call[f] EXCEPT !.pc = "unwinding"])
    /\ UNCHANGED <<queue, fate>>

\* The preparation of the turn throws.
TurnThrows(f) ==
    /\ call[f].pc = "turn"
    /\ Happens
    /\ shell' = [shell EXCEPT !.busy = @ /\ ~Current(f)]
    /\ Put(f, Thrown(call[f]))
    /\ UNCHANGED <<queue, fate>>

\* shouldSkipQueueDrainAfterTurn, and the start of drainQueuedSubmits.
AfterTurn(f) ==
    /\ call[f].pc = "unwinding"
    /\ IF call[f].turn \in shell.skip
       THEN /\ shell' = [shell EXCEPT !.skip = @ \ {call[f].turn}]
            /\ Put(f, Returned(call[f], shell))
       ELSE LET e == [shell EXCEPT !.paused = FALSE] IN
            /\ shell' = e
            /\ Put(f, IF Closing(e) THEN Returned(call[f], e)
                      ELSE Asked([call[f] EXCEPT !.turn = 0], e))
    /\ UNCHANGED <<queue, fate, events>>

SkipDrain(f) ==
    /\ call[f].pc = "skipping"
    /\ Put(f, Returned(call[f], shell))
    /\ UNCHANGED <<queue, shell, fate, events>>

---------------------------------------------------------------------------
\* drainQueuedSubmits.

BeginDrain(f) ==
    /\ call[f].pc = "starting"
    /\ IF Closing(shell)
       THEN Put(f, Returned(call[f], shell)) /\ UNCHANGED shell
       ELSE /\ shell' = [shell EXCEPT !.draining = TRUE]
            /\ Put(f, Continued(call[f], shell))
    /\ UNCHANGED <<queue, fate, events>>

\* Slip: the item leaves the queue when it is claimed.
ClaimByPop(f) ==
    /\ call[f].pc = "claiming"
    /\ ~Closing(shell)
    /\ \E i \in DOMAIN queue :
          /\ queue[i].status = "pending"
          /\ Drop({i})
          /\ Put(f, [Reload(call[f], "restore") EXCEPT
                        !.held = Append(@, [id |-> queue[i].id, text |-> queue[i].text])])
    /\ UNCHANGED <<shell, fate, events>>

\* claim-json: the first pending item.
ClaimNext(f) ==
    /\ call[f].pc = "claiming"
    /\ LET pending == {i \in DOMAIN queue : queue[i].status = "pending"} IN
       \/ /\ Closing(shell)
          /\ shell' = Undrained(shell)
          /\ Put(f, Left(call[f], shell))
          /\ UNCHANGED queue
       \/ /\ ~Closing(shell)
          /\ pending = {}
          /\ Put(f, Reload(call[f], "leave"))
          /\ UNCHANGED <<queue, shell>>
       \/ /\ ~Closing(shell)
          /\ \E i \in pending :
                /\ \A j \in pending : i <= j
                /\ SetStatus({i}, "claimed")
                /\ Put(f, [Reload(call[f], "restore") EXCEPT
                            !.held = Append(@, [id |-> queue[i].id, text |-> queue[i].text])])
          /\ UNCHANGED shell
    /\ UNCHANGED <<fate, events>>

\* len-json or list-json reads the file ...
Load(f) ==
    /\ call[f].pc = "load"
    /\ Put(f, [call[f] EXCEPT !.pc = "store", !.seen = Snapshot])
    /\ UNCHANGED <<queue, shell, fate, events>>

\* ... and its answer becomes the count, however old it is by then.
Store(f) ==
    /\ call[f].pc = "store"
    /\ LET c == [call[f] EXCEPT !.then = "none", !.seen = Unread]
           e == [shell EXCEPT !.count = call[f].seen.n] IN
       CASE call[f].then = "restore" -> shell' = e /\ Put(f, [c EXCEPT !.pc = "restore"])
         [] call[f].then = "leave" -> shell' = Undrained(e) /\ Put(f, Left(c, e))
         [] call[f].then = "pause" ->
                /\ shell' = Undrained([e EXCEPT !.paused = TRUE])
                /\ Put(f, Left(c, [e EXCEPT !.paused = TRUE]))
         [] call[f].then = "rethrow" -> shell' = Undrained(e) /\ Put(f, Thrown(c))
         [] call[f].then = "cleared" ->
                /\ shell' = [e EXCEPT !.paused = call[f].seen.action, !.skip = {}]
                /\ Put(f, Resting("done"))
         [] call[f].then = "done" -> shell' = e /\ Put(f, Resting("done"))
    /\ UNCHANGED <<queue, fate, events>>

\* The attachments are there: run the follow-up.
RunClaimed(f) ==
    /\ call[f].pc = "restore"
    /\ IF Closing(shell)
       THEN Put(f, [call[f] EXCEPT !.pc = "returning"]) /\ UNCHANGED <<shell, fate>>
       ELSE HandleSubmit(f)
    /\ UNCHANGED <<queue, events>>

RestoreFails(f) ==
    /\ call[f].pc = "restore"
    /\ Happens
    /\ Put(f, [call[f] EXCEPT !.pc = "quarantine"])
    /\ UNCHANGED <<queue, shell, fate>>

Quarantine(f) ==
    /\ call[f].pc = "quarantine"
    /\ SetStatus(At(Top(call[f]).id, {"claimed"}), "action")
    /\ Put(f, Reload(Popped(call[f]), "pause"))
    /\ UNCHANGED <<shell, fate, events>>

\* ack-json; a claim that is gone is an error.
Acknowledge(f) ==
    /\ call[f].pc = "acking"
    /\ LET mine == At(Top(call[f]).id, {"claimed"}) c == Popped(call[f]) IN
       \/ /\ mine # {}
          /\ Drop(mine)
          /\ Put(f, [c EXCEPT !.pc = "looping"])
          /\ UNCHANGED shell
       \/ /\ mine = {}
          /\ shell' = Undrained(shell)
          /\ Put(f, Thrown(c))
          /\ UNCHANGED queue
    /\ UNCHANGED <<fate, events>>

\* After the sweep of attachments, the head of the loop.
Loop(f) ==
    /\ call[f].pc = "looping"
    /\ IF Closing(shell)
       THEN shell' = Undrained(shell) /\ Put(f, Left(call[f], shell))
       ELSE Put(f, Continued(call[f], shell)) /\ UNCHANGED shell
    /\ UNCHANGED <<queue, fate, events>>

Leave(f) ==
    /\ call[f].pc = "leaving"
    /\ shell' = Undrained(shell)
    /\ Put(f, Left(call[f], shell))
    /\ UNCHANGED <<queue, fate, events>>

\* Follow-ups that have run, or are in the file besides these items.
Used(indices) == fate.completed \cup {queue[k].text : k \in DOMAIN queue \ indices}

\* nack-json: because the queue is paused, the shell is closing, or the turn has thrown.
PutBack(f) ==
    /\ call[f].pc \in {"nacking", "returning", "failing"}
    /\ LET mine == At(Top(call[f]).id, {"claimed"}) c == Popped(call[f]) IN
       /\ SetStatus(mine, "pending")
       /\ IF mine = {} /\ call[f].pc = "returning"
          THEN shell' = Undrained(shell) /\ Put(f, Thrown(c))
          ELSE /\ Put(f, Reload(c, IF call[f].pc = "failing" THEN "rethrow" ELSE "leave"))
               /\ UNCHANGED shell
       /\ fate' = [fate EXCEPT !.returned = @ \cup ({queue[i].text : i \in mine} \cap Used(mine))]
    /\ UNCHANGED events

---------------------------------------------------------------------------
\* The operator, the owner and the process.

\* interruptTurn of a busy shell.
Interrupted(e) ==
    [e EXCEPT !.skip = @ \cup {e.epoch}, !.paused = e.count > 0, !.epoch = @ + 1,
              !.busy = FALSE]

Interrupt ==
    /\ Happens
    /\ \/ /\ shell.busy
          /\ shell' = Interrupted(shell)
       \/ /\ ~shell.busy /\ shell.cancelled < shell.admitted
          /\ shell' = [shell EXCEPT !.cancelled = @ + 1]
    /\ UNCHANGED <<queue, call, fate>>

\* beginAgentSteer: the next submit goes to an agent run.
BeginSteer ==
    /\ Happens
    /\ ~shell.steering
    /\ shell' = [shell EXCEPT !.steering = TRUE]
    /\ UNCHANGED <<queue, call, fate>>

Resume(f) ==
    /\ f \in Resumes
    /\ call[f].pc = "new"
    /\ Happens
    /\ LET e == [shell EXCEPT !.paused = FALSE, !.skip = {}] IN
       /\ shell' = e
       /\ Put(f, IF e.busy \/ Closing(e) THEN Resting("done")
                 ELSE Asked(call[f], e))
    /\ UNCHANGED <<queue, fate>>

\* clear drops what is pending.
Clear(f) ==
    /\ f \in Edits
    /\ call[f].pc = "new"
    /\ Happens
    /\ Keep(DOMAIN queue \ WithStatus("pending"))
    /\ fate' = [fate EXCEPT !.dropped = @ \cup {queue[i].text : i \in WithStatus("pending")}]
    /\ Put(f, Reload(call[f], "cleared"))
    /\ UNCHANGED <<shell>>

\* retry puts an item back that failed or is in flight; discard and remove drop one.
Retry(f) ==
    /\ f \in Edits
    /\ call[f].pc = "new"
    /\ Happens
    /\ \E i \in DOMAIN queue :
          /\ queue[i].status \in {"claimed", "action"}
          /\ SetStatus({i}, "pending")
    /\ fate' = [fate EXCEPT !.meddled = TRUE]
    /\ Put(f, Reload(call[f], "done"))
    /\ UNCHANGED <<shell>>

Discard(f) ==
    /\ f \in Edits
    /\ call[f].pc = "new"
    /\ Happens
    /\ \E i \in DOMAIN queue :
          /\ Drop({i})
          /\ fate' = [fate EXCEPT !.dropped = @ \cup {queue[i].text},
                                  !.meddled = @ \/ queue[i].status = "claimed"]
    /\ Put(f, Reload(call[f], "done"))
    /\ UNCHANGED <<shell>>

\* shutdown: no new work; the turn is interrupted; then the owner waits.
Shutdown ==
    /\ shell.phase = "open"
    /\ shell' = [(IF shell.busy THEN Interrupted(shell) ELSE shell)
                    EXCEPT !.phase = "closing"]
    /\ UNCHANGED <<queue, call, fate, events>>

\* activeTurnSettlements: executions, and the drains at the tail of a submit.
Settling(f) ==
    LET c == call[f] IN
    \/ c.pc \in {"turn", "unwinding"}
    \/ c.held # <<>> /\ (f \in Submits \/ c.pc \in {"skipping", "starting"})
    \/ f \in Submits /\ c.pc \in {"skipping", "starting", "claiming", "load", "store",
                                  "looping", "leaving"}

Dispose ==
    /\ shell.phase = "closing"
    /\ \A f \in Calls : ~Settling(f)
    /\ shell' = [shell EXCEPT !.phase = "closed"]
    /\ UNCHANGED <<queue, call, fate, events>>

\* Slip: the claims of the process before are left as they are.
RestartUnrecovered ==
    /\ Happens
    /\ shell' = [count |-> Cardinality(WithStatus("pending")), paused |-> FALSE, skip |-> {},
                 epoch |-> 0, busy |-> FALSE, draining |-> FALSE, phase |-> "open",
                 admitted |-> 0, cancelled |-> 0, steering |-> FALSE]
    /\ call' = [f \in Calls |-> IF call[f].pc \in {"new", "done", "gone"} THEN call[f]
                                ELSE Resting("gone")]
    /\ UNCHANGED <<queue, fate>>

\* Slip: the claims of the process before are pending again.
RestartRequeues ==
    /\ Happens
    /\ SetStatus({i \in DOMAIN queue : queue[i].status = "claimed"}, "pending")
    /\ shell' = [count |-> Len(queue), paused |-> FALSE, skip |-> {}, epoch |-> 0,
                 busy |-> FALSE, draining |-> FALSE, phase |-> "open", admitted |-> 0,
                 cancelled |-> 0, steering |-> FALSE]
    /\ call' = [f \in Calls |-> IF call[f].pc \in {"new", "done", "gone"} THEN call[f]
                                ELSE Resting("gone")]
    /\ UNCHANGED fate

\* The process ends, by itself or not; another one resumes the session: initialize.
Restart ==
    /\ Happens
    /\ queue' = [i \in DOMAIN queue |->
                    IF queue[i].status = "claimed"
                    THEN [queue[i] EXCEPT !.status = "action"] ELSE queue[i]]
    /\ shell' = [count |-> Cardinality(WithStatus("pending")),
                 paused |-> WithStatus("claimed") # {}, skip |-> {}, epoch |-> 0,
                 busy |-> FALSE, draining |-> FALSE, phase |-> "open", admitted |-> 0,
                 cancelled |-> 0, steering |-> FALSE]
    /\ call' = [f \in Calls |-> IF call[f].pc \in {"new", "done", "gone"} THEN call[f]
                                ELSE Resting("gone")]
    /\ UNCHANGED fate

---------------------------------------------------------------------------
CallStep(f) ==
    \/ Push(f) \/ CountPush(f)
    \/ TurnEnds(f) \/ TurnAborts(f) \/ TurnBlocked(f) \/ TurnThrows(f)
    \/ AfterTurn(f) \/ SkipDrain(f) \/ BeginDrain(f) \/ ClaimNext(f) \/ Load(f) \/ Store(f)
    \/ RunClaimed(f) \/ RestoreFails(f) \/ Quarantine(f) \/ Acknowledge(f) \/ Loop(f)
    \/ Leave(f) \/ PutBack(f)

QueueNext ==
    \/ \E f \in Calls : CallStep(f)
    \/ \E f \in Calls : Admit(f) \/ Submit(f) \/ Ignore(f) \/ Resume(f) \/ Clear(f)
                        \/ Retry(f) \/ Discard(f)
    \/ Interrupt \/ BeginSteer \/ Shutdown \/ Dispose \/ Restart

QueueSpec == QueueInit /\ [][QueueNext]_queueVars

\* Queue commands and turns end.
QueueFairness == \A f \in Calls : WF_queueVars(CallStep(f))

QueueFairSpec == QueueSpec /\ QueueFairness

---------------------------------------------------------------------------
QueueTypeOK ==
    /\ queue \in Seq(Item)
    /\ shell \in Shell
    /\ call \in [Calls -> CallState]
    /\ events \in 0..MaxActs

\* An accepted follow-up is in the queue until its turn has begun or the operator has
\* dropped it, across failures, shutdowns and restarts; the exceptions are those that
\* handleSubmit itself turned away and the drain then acknowledged, and the reuse of an
\* id that a drain still holds: it acknowledges the new item.
FollowUpsAreKept ==
    ~fate.reused =>
        fate.accepted \subseteq Texts \cup fate.begun \cup fate.dropped \cup fate.diverted

Claimed == {i \in DOMAIN queue : queue[i].status = "claimed"}
Holders(i) == {f \in Calls : \E k \in DOMAIN call[f].held : call[f].held[k].id = queue[i].id}

\* An item in flight is held by the one call that claimed it, so that somebody will put it
\* back or acknowledge it, and its id is not given again meanwhile: unless the operator
\* retried or discarded one in flight.  And
\* none is in flight once shutdown has disposed the engine, except for the drain of a
\* resumeQueueItems, which shutdown does not wait for.
ClaimsHaveOneHolder ==
    /\ ~fate.meddled => ~fate.reused /\ \A i \in Claimed : Cardinality(Holders(i)) = 1
    /\ shell.phase = "closed" /\ (\A f \in Resumes : call[f].pc \in {"new", "done", "gone"})
           => Claimed = {}

\* A follow-up whose turn has completed is not run again, unless the operator meddled or
\* a drain put it back when it had run, or had been queued a second time by a busy shell:
\* because another call had paused the queue, the shell closed, or what it ran next threw.
NoRerun ==
    [][\A f \in Calls : RunClaimed(f) /\ call'[f].pc = "turn" =>
            fate.meddled \/ Top(call[f]).text \notin fate.completed \ fate.returned]_queueVars

\* Every call returns: of the finitely many calls none is under way for ever.
CallsReturn ==
    []<>(\A f \in Calls : call[f].pc \in {"new", "admitted", "done", "gone"})

\* A follow-up that was queued is run, unless the queue is paused or the shell closes
\* ("It will run automatically after the active turn.", steer.rs:116).
FollowUpsRun ==
    \A t \in Submits : t \in fate.accepted ~>
        \/ t \in fate.begun \cup fate.dropped
        \/ shell.paused \/ shell.phase # "open"
=============================================================================
