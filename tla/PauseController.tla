---------------------------- MODULE PauseController ----------------------------
(***************************************************************************)
(* CooperativePauseController (packages/orchestrator/src/                  *)
(* work-shell-pause-controller.ts) and the turns of the Work Shell engine  *)
(* that run through it (work-shell-engine.ts: submit, interruptTurn,       *)
(* requestTurnPause, resumeTurn, finishCooperativeTurn).                   *)
(*                                                                         *)
(* A turn has a main flow and may fan out to parallel ones; each performs  *)
(* operations (provider requests, policy checks, approvals, tool calls)    *)
(* between checkpoints.  A pause takes hold at the first checkpoint that   *)
(* no operation overlaps, writes a session snapshot, and only then is      *)
(* acknowledged.  What runs in the microtasks after one promise settles is *)
(* one action with it: no request can come between.                        *)
(*                                                                         *)
(* Abstracted: the four kinds of operation differ only in their boundary's *)
(* name; a flow whose AbortSignal is aborted starts no new operation; a    *)
(* flow that is thrown out of a checkpoint is "ready", since the agent or   *)
(* the `finally` of executeSubmitRoute carries on; the pause restored from *)
(* a previous process is left out.                                         *)
(***************************************************************************)
EXTENDS Integers, FiniteSets, Sequences

CONSTANTS
    Flows,          \* flows of one turn
    Main,           \* the one that finishes it
    MaxTurns,       \* bound: turns submitted
    MaxPauses,      \* bound: pause requests that create an acknowledgement
    MaxOperations   \* bound: operations started and flows forked

ASSUME PauseAssumption ==
    /\ Main \in Flows
    /\ MaxTurns \in Nat /\ MaxPauses \in Nat /\ MaxOperations \in Nat

VARIABLES
    snapshot,       \* #snapshot
    acks,           \* every acknowledgement promise handed out
    ack,            \* #pauseAcknowledgement: its index, 0 for undefined
    transitions,    \* every PauseTransition created
    transition,     \* #pauseTransition: its index, 0 for undefined
    flow,           \* the flows of each turn
    epoch,          \* activeTurnEpoch of the engine
    busy,           \* isBusy of the engine
    waiting,        \* turn that awaits the drain in beginTurn, 0 for none
    durable,        \* turns whose pause checkpoint was written
    operations,     \* operations started and flows forked
    overtaken       \* history: a turn began while the pause checkpoint of an
                    \* earlier one was still being written

pauseVars == <<snapshot, acks, ack, transitions, transition, flow, epoch, busy, waiting,
          durable, operations, overtaken>>

Turns == 1 .. 2 * MaxTurns      \* epochs: a submit and an interrupt each take one
States == {"idle", "running", "pause_pending", "paused", "cancelled", "completed"}
Active == {"running", "pause_pending", "paused"}
Boundaries == {"none", "before_operation", "after_operation", "before_approval",
               "between_nodes", "before_completion"}

PauseSnapshot == [state : States, turn : Turns \cup {0}, boundary : Boundaries]
Ack == [status : {"waiting", "resolved", "rejected"}, turn : Turns \cup {0}]
Transition == [turn : Turns, boundary : Boundaries,
               phase : {"persisting", "suspended", "ended"}, gate : BOOLEAN]

\* "ready": between checkpoints; "operating": inside run(); the others await the
\* suspension of the transition `on`.
Phases == {"off", "ready", "operating", "before_operation", "after_operation",
           "between_nodes", "before_completion"}
Flow == [phase : Phases, on : Nat]
NoFlow == [phase |-> "off", on |-> 0]
Idle == [phase |-> "ready", on |-> 0]

PauseInit ==
    /\ snapshot = [state |-> "idle", turn |-> 0, boundary |-> "none"]
    /\ acks = <<>> /\ ack = 0
    /\ transitions = <<>> /\ transition = 0
    /\ flow = [t \in Turns |-> [w \in Flows |-> NoFlow]]
    /\ epoch = 0 /\ busy = FALSE /\ waiting = 0
    /\ durable = {} /\ operations = 0 /\ overtaken = FALSE

Running(t) == [state |-> "running", turn |-> t, boundary |-> "none"]
NoWrite == \A i \in DOMAIN transitions : transitions[i].phase # "persisting"
Operating == {x \in Turns \X Flows : flow[x[1]][x[2]].phase = "operating"}
Unsettled == {x \in Turns \X Flows :
                flow[x[1]][x[2]].phase \in {"operating", "after_operation"}}

(***************************************************************************)
(* checkpoint(): what a flow that reaches boundary b does, while `others`  *)
(* are the operations still running beside it.                             *)
(***************************************************************************)
Throws == snapshot.state = "cancelled"
Joins == ~Throws /\ transition # 0

\* Slip: operations beside the checkpoint are not looked at.
PausesAnywhere(b, others) ==
    ~Throws /\ transition = 0 /\ snapshot.state = "pause_pending"

Pauses(b, others) ==
    /\ ~Throws /\ transition = 0 /\ snapshot.state = "pause_pending"
    /\ others = {} \/ b = "before_approval"

Passes(b, others) == ~Throws /\ ~Joins /\ ~Pauses(b, others)

\* the synchronous part of a pausing checkpoint, up to `await persist(paused)`
NewTransition(t, b) ==
    /\ transitions' = Append(transitions,
           [turn |-> t, boundary |-> b, phase |-> "persisting", gate |-> FALSE])
    /\ transition' = Len(transitions) + 1

\* Flow w of turn t reaches b; it goes to `pass`, waits at `wait`, or is thrown out.
Checkpoint(t, w, b, others, pass, wait) ==
    \/ /\ Throws
       /\ flow' = [flow EXCEPT ![t][w] = IF wait = "before_completion" THEN NoFlow ELSE Idle]
       /\ UNCHANGED <<transitions, transition>>
    \/ /\ Joins
       /\ flow' = [flow EXCEPT ![t][w] = [phase |-> wait, on |-> transition]]
       /\ UNCHANGED <<transitions, transition>>
    \/ /\ Pauses(b, others)
       /\ NewTransition(t, b)
       /\ flow' = [flow EXCEPT ![t][w] = [phase |-> wait, on |-> transition']]
    \/ /\ Passes(b, others)
       /\ flow' = [flow EXCEPT ![t][w] = [phase |-> pass, on |-> 0]]
       /\ UNCHANGED <<transitions, transition>>

Ready(t, w) == flow[t][w].phase = "ready"

\* runNonInterruptible up to run(), in a flow that was not aborted
StartOperation(t, w) ==
    /\ Ready(t, w) /\ t = epoch
    /\ operations < MaxOperations
    /\ operations' = operations + 1
    /\ Checkpoint(t, w, "before_operation", Operating, "operating", "before_operation")
    /\ UNCHANGED <<snapshot, acks, ack, epoch, busy, waiting, durable, overtaken>>

\* run() returned or threw
EndOperation(t, w) ==
    /\ flow[t][w].phase = "operating"
    /\ Checkpoint(t, w, "after_operation", Operating \ {<<t, w>>}, "ready", "after_operation")
    /\ UNCHANGED <<snapshot, acks, ack, epoch, busy, waiting, durable, operations, overtaken>>

BetweenNodes(t, w) ==
    /\ Ready(t, w) /\ t = epoch
    /\ snapshot.state # "running"
    /\ Checkpoint(t, w, "between_nodes", Operating, "ready", "between_nodes")
    /\ UNCHANGED <<snapshot, acks, ack, epoch, busy, waiting, durable, operations, overtaken>>

Fork(t, w) ==
    /\ Ready(t, Main) /\ t = epoch
    /\ flow[t][w].phase = "off"
    /\ operations < MaxOperations
    /\ operations' = operations + 1
    /\ flow' = [flow EXCEPT ![t][w].phase = "ready"]
    /\ UNCHANGED <<snapshot, acks, ack, transitions, transition, epoch, busy, waiting, durable, overtaken>>

\* A flow has nothing more to do, failed, or sees that it was aborted.
LeaveFlow(t, w) ==
    /\ Ready(t, w)
    /\ w # Main \/ t # epoch
    /\ flow' = [flow EXCEPT ![t][w] = NoFlow]
    /\ UNCHANGED <<snapshot, acks, ack, transitions, transition, epoch, busy, waiting, durable, operations, overtaken>>

Completed(s) == IF s.state = "running" THEN [s EXCEPT !.state = "completed"] ELSE s

\* finishCooperativeTurn(t) of the current turn, entered with isBusy = b: its last
\* checkpoint, then complete(), which throws on a suspended turn and leaves isBusy
Close(t, b) ==
    LET passes == Passes("before_completion", Operating)
    IN  /\ Checkpoint(t, Main, "before_completion", Operating, "off", "before_completion")
        /\ snapshot' = IF passes THEN Completed(snapshot) ELSE snapshot
        /\ busy' = (b /\ (passes => snapshot.state \in {"pause_pending", "paused"}))

\* The main flow has its answer and isBusy is FALSE, or the turn ended while still
\* "preparing context".
Finish(t) ==
    /\ Ready(t, Main) /\ t = epoch
    /\ \A w \in Flows \ {Main} : flow[t][w].phase = "off"
    /\ \E b \in {busy, FALSE} : Close(t, b)
    /\ UNCHANGED <<acks, ack, epoch, waiting, durable, operations, overtaken>>

(***************************************************************************)
(* The end of a suspension i: every flow that awaits it goes on, or all of *)
(* them are thrown out; a main flow that was finishing completes its turn. *)
(***************************************************************************)
Awaits(t, w, i) == flow[t][w].on = i

Released(i, passed) ==
    [t \in Turns |-> [w \in Flows |->
        IF ~Awaits(t, w, i) THEN flow[t][w]
        ELSE IF flow[t][w].phase = "before_completion" THEN NoFlow
        ELSE IF flow[t][w].phase = "before_operation" /\ passed
        THEN [phase |-> "operating", on |-> 0]
        ELSE Idle]]

Finishing(t, i) == flow[t][Main].phase = "before_completion" /\ Awaits(t, Main, i)
SomeFinishing(i) == \E t \in Turns : Finishing(t, i)
CurrentFinishing(i) == epoch # 0 /\ Finishing(epoch, i)

Settled(status, t) == [acks EXCEPT ![ack] = [status |-> status, turn |-> t]]

\* Slip: the pause is acknowledged whether or not its checkpoint was written.
SettlesWhateverWritten(i, ok) ==
    LET tr == transitions[i]
    IN  /\ i \in DOMAIN transitions
        /\ tr.phase = "persisting"
        /\ snapshot.state # "cancelled"
        /\ durable' = IF ok THEN durable \cup {tr.turn} ELSE durable
        /\ acks' = IF ack # 0 THEN Settled("resolved", tr.turn) ELSE acks
        /\ snapshot' = [state |-> "paused", turn |-> tr.turn, boundary |-> tr.boundary]
        /\ transitions' = [transitions EXCEPT ![i].phase = "suspended"]
        /\ UNCHANGED <<flow, ack, transition, busy, epoch, waiting, operations, overtaken>>

\* Slip: cancellation is not looked at when the write settles.
SettlesUncancelled(i, ok) ==
    LET tr == transitions[i]
    IN  /\ ok
        /\ i \in DOMAIN transitions
        /\ tr.phase = "persisting"
        /\ durable' = durable \cup {tr.turn}
        /\ acks' = IF ack # 0 THEN Settled("resolved", tr.turn) ELSE acks
        /\ snapshot' = [state |-> "paused", turn |-> tr.turn, boundary |-> tr.boundary]
        /\ transitions' = [transitions EXCEPT ![i].phase = "suspended"]
        /\ UNCHANGED <<flow, ack, transition, busy, epoch, waiting, operations, overtaken>>

\* await persist(paused) settled; `ok` is FALSE when the write failed.  A turn whose
\* answer was persisted calls finishCooperativeTurn `again`, in the finally.
PersistSettles(i, ok) ==
    LET tr == transitions[i]
        Again == IF CurrentFinishing(i) /\ ~busy THEN BOOLEAN ELSE {FALSE}
        paused == [state |-> "paused", turn |-> tr.turn, boundary |-> tr.boundary]
        cancelled == snapshot.state = "cancelled"
    IN  /\ i \in DOMAIN transitions
        /\ tr.phase = "persisting"
        /\ durable' = IF ok THEN durable \cup {tr.turn} ELSE durable
        /\ \/ /\ ok /\ ~cancelled
              /\ acks' = IF ack # 0 THEN Settled("resolved", tr.turn) ELSE acks
              /\ snapshot' = paused
              /\ transitions' = [transitions EXCEPT
                     ![i].phase = IF tr.gate THEN "ended" ELSE "suspended"]
              /\ flow' = IF tr.gate THEN Released(i, TRUE) ELSE flow
              /\ UNCHANGED <<ack, transition, busy>>
           \/ /\ ~ok \/ cancelled
              /\ transitions' = [transitions EXCEPT ![i].phase = "ended"]
              /\ transition' = IF transition = i THEN 0 ELSE transition
              /\ flow' = Released(i, FALSE)
              /\ IF cancelled
                 THEN UNCHANGED <<acks, ack, snapshot>>
                 ELSE /\ acks' = IF ack # 0 THEN Settled("rejected", tr.turn) ELSE acks
                      /\ ack' = 0
                      /\ \E again \in Again :
                            snapshot' = IF again THEN Completed(Running(tr.turn))
                                        ELSE Running(tr.turn)
              /\ UNCHANGED busy
        /\ UNCHANGED <<epoch, waiting, operations, overtaken>>

(***************************************************************************)
(* The user and the runtime owner.                                         *)
(***************************************************************************)
\* requestPause; with a decision pending inside an operation (deciding) the
\* engine checkpoints at once, before_approval.
RequestPause(deciding) ==
    /\ snapshot.state \in {"running", "pause_pending"}
    /\ Len(acks) < MaxPauses
    /\ snapshot.turn # 0
    /\ IF ack = 0
       THEN /\ acks' = Append(acks, [status |-> "waiting", turn |-> snapshot.turn])
            /\ ack' = Len(acks) + 1
       ELSE UNCHANGED <<acks, ack>>
    /\ snapshot' = [snapshot EXCEPT !.state = "pause_pending"]
    /\ deciding => Operating # {}
    /\ IF deciding /\ transition = 0
       THEN NewTransition(epoch, "before_approval")
       ELSE UNCHANGED <<transitions, transition>>
    /\ UNCHANGED <<flow, epoch, busy, waiting, durable, operations, overtaken>>

ResumeTurn ==
    /\ snapshot.state = "paused" /\ transition # 0
    /\ transitions' = [transitions EXCEPT ![transition].phase = "ended", ![transition].gate = TRUE]
    /\ flow' = Released(transition, TRUE)
    /\ snapshot' = IF SomeFinishing(transition) THEN Completed(Running(snapshot.turn))
                   ELSE Running(snapshot.turn)
    /\ busy' = (busy /\ ~CurrentFinishing(transition))
    /\ transition' = 0 /\ ack' = 0
    /\ UNCHANGED <<acks, epoch, waiting, durable, operations, overtaken>>

\* Slip: the acknowledgement is dropped, not rejected.
InterruptSilently ==
    /\ busy /\ busy' = FALSE
    /\ epoch' = epoch + 1
    /\ waiting' = 0
    /\ snapshot.state \in Active
    /\ snapshot' = [snapshot EXCEPT !.state = "cancelled", !.boundary = "none"]
    /\ ack' = 0
    /\ transition' = 0
    /\ IF transition = 0
       THEN UNCHANGED <<transitions, flow>>
       ELSE IF transitions[transition].phase = "suspended"
       THEN /\ transitions' = [transitions EXCEPT ![transition].phase = "ended"]
            /\ flow' = Released(transition, FALSE)
       ELSE /\ transitions' = [transitions EXCEPT ![transition].gate = TRUE]
            /\ UNCHANGED flow
    /\ UNCHANGED <<acks, durable, operations, overtaken>>

\* interruptTurn: a turn that still drains is abandoned, an active one cancelled
InterruptTurn ==
    /\ busy /\ busy' = FALSE
    /\ epoch' = epoch + 1
    /\ waiting' = 0
    /\ IF snapshot.state \notin Active
       THEN UNCHANGED <<snapshot, acks, ack, transition, transitions, flow>>
       ELSE /\ snapshot' = [snapshot EXCEPT !.state = "cancelled", !.boundary = "none"]
            /\ acks' = IF ack # 0 /\ acks[ack].status = "waiting"
                       THEN Settled("rejected", snapshot.turn) ELSE acks
            /\ ack' = 0
            /\ transition' = 0
            /\ IF transition = 0
               THEN UNCHANGED <<transitions, flow>>
               ELSE IF transitions[transition].phase = "suspended"
               THEN /\ transitions' = [transitions EXCEPT ![transition].phase = "ended"]
                    /\ flow' = Released(transition, FALSE)
               ELSE /\ transitions' = [transitions EXCEPT ![transition].gate = TRUE]
                    /\ UNCHANGED flow
    /\ UNCHANGED <<durable, operations, overtaken>>

ClaimedByFlow(t) ==
    /\ overtaken' = (overtaken \/ ~NoWrite)
    /\ snapshot' = Running(t)
    /\ ack' = 0 /\ transition' = 0
    /\ flow' = [flow EXCEPT ![t][Main].phase = "ready"]

\* A submitted turn calls beginTurn: beside an active turn it is refused, and its
\* `finally` goes on to close that one; else it waits for the operations of an
\* interrupted turn, or begins.
SubmitTurn ==
    /\ ~busy
    /\ epoch + 2 \in Turns
    /\ epoch' = epoch + 1
    /\ \/ /\ snapshot.state \in Active
          /\ Close(epoch', TRUE)
          /\ UNCHANGED <<waiting, ack, overtaken>>
       \/ /\ snapshot.state \notin Active /\ Unsettled # {}
          /\ waiting' = epoch' /\ busy' = TRUE
          /\ UNCHANGED <<snapshot, ack, transitions, transition, flow, overtaken>>
       \/ /\ snapshot.state \notin Active /\ Unsettled = {}
          /\ ClaimedByFlow(epoch') /\ busy' = TRUE
          /\ UNCHANGED <<waiting, transitions>>
    /\ UNCHANGED <<acks, durable, operations>>

\* Slip: the turn begins when the first of the operations has settled.
BeginEarly ==
    /\ waiting # 0
    /\ Cardinality(Unsettled) <= 1
    /\ ClaimedByFlow(waiting)
    /\ waiting' = 0
    /\ UNCHANGED <<acks, transitions, epoch, busy, durable, operations>>

Begin ==
    /\ waiting # 0
    /\ Unsettled = {}
    /\ ClaimedByFlow(waiting)
    /\ waiting' = 0
    /\ UNCHANGED <<acks, transitions, epoch, busy, durable, operations>>

FlowStep(t, w) ==
    \/ EndOperation(t, w)
    \/ LeaveFlow(t, w)
    \/ w = Main /\ Finish(t)

PauseNext ==
    \/ \E t \in Turns, w \in Flows :
          StartOperation(t, w) \/ BetweenNodes(t, w) \/ Fork(t, w) \/ FlowStep(t, w)
    \/ \E i \in 1..Len(transitions), ok \in BOOLEAN : PersistSettles(i, ok)
    \/ \E deciding \in BOOLEAN : RequestPause(deciding)
    \/ ResumeTurn
    \/ InterruptTurn
    \/ SubmitTurn
    \/ Begin

PauseSpec == PauseInit /\ [][PauseNext]_pauseVars

\* Operations return, writes settle and flows run; the user need not do anything.
PauseFairness ==
    /\ \A t \in Turns, w \in Flows : WF_pauseVars(FlowStep(t, w))
    /\ \A i \in 1..MaxPauses + 1 : WF_pauseVars(\E ok \in BOOLEAN : PersistSettles(i, ok))
    /\ WF_pauseVars(Begin)

PauseFairSpec == PauseSpec /\ PauseFairness

(***************************************************************************)
(* Properties                                                              *)
(***************************************************************************)
PauseTypeOK ==
    /\ snapshot \in PauseSnapshot
    /\ (snapshot.state = "paused") = (snapshot.boundary # "none")
    /\ acks \in Seq(Ack) /\ ack \in 0..Len(acks)
    /\ transitions \in Seq(Transition) /\ transition \in 0..Len(transitions)
    /\ flow \in [Turns -> [Flows -> Flow]]
    /\ epoch \in Turns \cup {0} /\ waiting \in Turns \cup {0}
    /\ durable \subseteq Turns /\ busy \in BOOLEAN /\ overtaken \in BOOLEAN

\* A paused turn is at rest: no operation of any flow runs while it is paused,
\* nor while its checkpoint is being written, unless the pause was taken at a
\* pending decision ("Defer acknowledgement until the last irreversible operation
\* reaches its own post-operation checkpoint").  As SnapshotNeverGoesBack shows,
\* this cannot be said once a turn was overtaken.
PausedIsQuiet ==
    ~overtaken /\ transition # 0 /\ transitions[transition].boundary # "before_approval"
        => Operating = {}

\* A pause is confirmed only after the checkpoint of that very turn is durable
\* ("durably flushes that boundary, and only then acknowledges the request").
AckIsDurable ==
    \A i \in DOMAIN acks : acks[i].status = "resolved" => acks[i].turn \in durable

\* A pause requested of a turn that still runs is answered once the work under way
\* returns: a write that fails, an interrupt and a turn that ends reject or resolve
\* it.
Unanswered(i) ==
    i \in DOMAIN acks /\ acks[i].status = "waiting"
PauseIsAnswered ==
    \A i \in 1..MaxPauses :
        (Unanswered(i) /\ epoch # 0 /\ flow[epoch][Main].phase # "off")
            ~> (~Unanswered(i) \/ overtaken)

\* An operation of an interrupted turn never runs inside the next one: beginTurn
\* waits for the drain.
TurnsDoNotOverlap ==
    ~overtaken => \A x \in Operating : snapshot.state \in Active => x[1] = snapshot.turn

\* An interrupted turn never runs or pauses again ("Turn cancelled while persisting
\* its pause checkpoint."): a write or an operation that settles late finds it
\* cancelled.
InterruptIsFinal ==
    [][snapshot.state = "cancelled" /\ snapshot'.turn = snapshot.turn
         => snapshot'.state = "cancelled"]_pauseVars

\* "Turn-scoped cooperative suspension" (work-shell-pause-controller.ts): the
\* pause of a turn that was interrupted does not come back over a later one.
SnapshotNeverGoesBack == [][snapshot'.turn >= snapshot.turn]_pauseVars
=============================================================================
