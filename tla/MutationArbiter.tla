--------------------------- MODULE MutationArbiter ---------------------------
(***************************************************************************)
(* The mutation arbiter of a live session: RuntimeSessionMutationArbiter   *)
(* (apps/unclecode-server/src/runtime-mutation-arbiter.ts), driven by      *)
(* LiveRuntimeEngineRegistry.invoke (runtime-engine-rpc.ts) and bound to   *)
(* the durable ledger as startRuntimeOwner binds it (runtime-owner.ts).    *)
(*                                                                         *)
(* A request is one call of mutate(); a retry is another request with the  *)
(* same key.  A generation is one arbiter object: a session that is torn   *)
(* down and created again in the same process, an owner process that       *)
(* crashed and was restarted, and a second owner started beside the first  *)
(* each get a new one over the same ledger.  The JavaScript between two    *)
(* awaits is one action; microtask-adjacent continuations that nothing can *)
(* come between are merged with the action that resolves them.             *)
(*                                                                         *)
(* Abstracted: payloads (an operation and the revision the client saw are  *)
(* the fingerprint, as in invoke), the engine (it may decline in its       *)
(* precondition, succeed or throw), wording of failures.                   *)
(***************************************************************************)
EXTENDS Integers, SequencesExt

CONSTANTS
    Requests,       \* calls of mutate()
    Keys,           \* idempotency keys
    Ops,            \* the engine methods clients call
    None,
    MaxRevision,    \* bound: revisions handed out
    MaxGeneration,  \* bound: arbiter objects over the ledger's lifetime
    MaxReceipts,    \* in-memory receipts kept per arbiter (2,048 in the code)
    MaxPublished,   \* bound: nobody publishes a revision beyond it
    Events          \* which of AllEvents happen around the calls

AllOps == {"submit", "cancel", "pause", "view", "decide", "steer", "setMode"}

\* "publish" and "notice": the clock moves without a mutation; "ledger": a ledger
\* call throws; "recreate", "restart", "split": a new generation appears.
AllEvents == {"publish", "notice", "ledger", "recreate", "restart", "split"}

ASSUME ArbiterAssumption ==
    /\ Ops \subseteq AllOps
    /\ Events \subseteq AllEvents
    /\ MaxRevision \in Nat
    /\ MaxPublished \in Nat
    /\ MaxGeneration \in Nat \ {0}
    /\ MaxReceipts \in Nat
    /\ None \notin Requests \cup Keys

VARIABLES
    revision, receipts,     \* the ledger: shared by all generations, durable
    req,                    \* one record per call of mutate()
    arb,                    \* one record per arbiter object
    latest,                 \* generations created so far: 1..latest
    alive,                  \* generations whose process still runs
    serving                 \* generations the session registry routes to

vars == <<revision, receipts, req, arb, latest, alive, serving>>

Gens == 1..MaxGeneration
Fingerprints == AllOps \X Nat
Outcomes == [status : {"completed", "failed"}, revision : Nat]

Ledger == INSTANCE RuntimeLedger WITH
    Results <- Outcomes, Null <- None

\* What a call of mutate() resolves to.  "executed" answers carry the outcome of
\* the one execution; every other answer says why there was none to report.
Refusals == {"conflict", "invalidReuse", "fenced", "declined", "fault", "unrecorded"}
Answer == [kind : {"executed"}, outcome : Outcomes] \cup [kind : Refusals, outcome : {None}]
Executed(o) == [kind |-> "executed", outcome |-> o]
Refused(why) == [kind |-> why, outcome |-> None]

(***************************************************************************)
(* What invoke passes to mutate() for each method.  A submit that finds    *)
(* another submit in flight, or a busy engine, is queue admission: it      *)
(* takes the control lane and accepts the latest revision.                 *)
(***************************************************************************)
Lane(r) ==
    IF req[r].op = "cancel" THEN "cancel"
    ELSE IF req[r].busy \/ req[r].op \in {"pause", "view", "decide", "steer"} THEN "control"
    ELSE "normal"

Rebases(r) == req[r].busy \/ req[r].op = "view"
HasPrecondition(r) == req[r].op \in {"submit", "cancel", "decide", "steer"}
BindsGeneration(r) == Lane(r) = "normal" \/ req[r].op = "pause"

Fingerprint(r) == <<req[r].op, req[r].expected>>

Phases == {"new", "queued", "checked", "admitted", "armed", "running",
           "refused", "joined", "answered", "lost"}

Request == [phase : Phases, gen : Gens \cup {0}, key : Keys \cup {None},
            op : AllOps, expected : Nat, busy : BOOLEAN,
            rev : Nat,                          \* accepted revision; 0: not accepted
            barrier : Requests \cup {None},     \* cancel awaited before execution
            owner : Requests \cup {None},       \* prior call whose promise is shared
            answer : Answer \cup {None},
            ran : BOOLEAN,                      \* history: execute() was called
            ahead : SUBSET Requests]            \* history: cancels queued at admission

NewRequest == [phase |-> "new", gen |-> 0, key |-> None, op |-> "setMode",
               expected |-> 0, busy |-> FALSE, rev |-> 0, barrier |-> None,
               owner |-> None, answer |-> None, ran |-> FALSE, ahead |-> {}]

Arbiter == [clock : Nat, admissions : Seq(Requests), normals : Seq(Requests),
            cancelTail : Requests \cup {None}, receipts : Seq(Requests),
            activeMutations : Int, activeNormals : SUBSET Nat]

NewArbiter(clock) ==
    [clock |-> clock, admissions |-> <<>>, normals |-> <<>>, cancelTail |-> None,
     receipts |-> <<>>, activeMutations |-> 0, activeNormals |-> {}]

Unsettled(r) == req[r].phase \notin {"new", "answered", "lost"}
Unadmitted(r) == req[r].phase \in {"queued", "checked"}

ArbiterInit ==
    /\ Ledger!LedgerInit
    /\ req = [r \in Requests |-> NewRequest]
    /\ arb = [g \in Gens |-> NewArbiter(0)]
    /\ latest = 1
    /\ alive = {1}
    /\ serving = {1}

(***************************************************************************)
(* Settling a call: its promise resolves, and with it every call that      *)
(* joined it; the finally() handler drops the receipt of a call that was   *)
(* not accepted and then bounds the map, oldest settled entry first.       *)
(***************************************************************************)
\* Slip: the calls that joined r are forgotten.
ResolvedAlone(q, r, a) ==
    [q EXCEPT ![r].phase = "answered", ![r].answer = a]

Resolved(q, r, a) ==
    [x \in Requests |->
        IF x = r \/ (q[x].phase = "joined" /\ q[x].owner = r)
        THEN [q[x] EXCEPT !.phase = "answered", !.answer = a]
        ELSE q[x]]

KeptReceipts(g, r, accepted) ==
    LET kept == IF accepted THEN arb[g].receipts ELSE RemoveFirst(arb[g].receipts, r)
        Evictable(x) == x # r /\ req[x].phase = "answered"
    IN  IF Len(kept) > MaxReceipts THEN RemoveFirstMatch(kept, Evictable) ELSE kept

(***************************************************************************)
(* mutate(): the synchronous part.                                         *)
(***************************************************************************)
\* activeSubmitInvocations > 0 for generation g
SubmitInFlight(g) ==
    \E x \in Requests : req[x].gen = g /\ req[x].op = "submit" /\ Unsettled(x)

Prior(g, k) == {x \in ToSet(arb[g].receipts) : req[x].key = k}

\* A client calls with key k, having rendered revision e.  isBusyEngine is the
\* engine's own answer: it may say busy without a submit in flight.
Called(g, r, k, op, e, busy) ==
    /\ g \in serving
    /\ req[r].phase = "new"
    /\ e <= revision
    /\ busy => op = "submit"
    /\ op = "submit" /\ SubmitInFlight(g) => busy

Call(g, r, k, op, e, busy, phase, owner, answer) ==
    req' = [req EXCEPT ![r] = [NewRequest EXCEPT
        !.phase = phase, !.gen = g, !.key = k, !.op = op, !.expected = e,
        !.busy = busy, !.owner = owner, !.answer = answer]]

Enqueue(g, r, k, op, e, busy) ==
    /\ Called(g, r, k, op, e, busy)
    /\ Prior(g, k) = {}
    /\ Call(g, r, k, op, e, busy, "queued", None, None)
    /\ arb' = [arb EXCEPT
           ![g].admissions = Append(@, r),
           ![g].normals = IF Lane(r)' = "normal" THEN Append(@, r) ELSE @,
           ![g].cancelTail = IF Lane(r)' = "cancel" THEN r ELSE @,
           ![g].receipts = Append(@, r)]
    /\ UNCHANGED <<revision, receipts, latest, alive, serving>>

\* The key is known to this arbiter: share the first call's promise, which may
\* have resolved long ago, or refuse another payload under the same key.
Join(g, r, k, op, e, busy) ==
    /\ Called(g, r, k, op, e, busy)
    /\ \E p \in Prior(g, k) :
          IF Fingerprint(p) # <<op, e>>
          THEN Call(g, r, k, op, e, busy, "answered", None, Refused("invalidReuse"))
          ELSE IF req[p].phase = "answered"
          THEN Call(g, r, k, op, e, busy, "answered", p, req[p].answer)
          ELSE Call(g, r, k, op, e, busy, "joined", p, None)
    /\ UNCHANGED <<revision, receipts, arb, latest, alive, serving>>

(***************************************************************************)
(* The admission lane: one request at a time, from ledger lookup to        *)
(* durable acceptance.                                                     *)
(***************************************************************************)
\* Slip: the lane is held while a mutation executes.
AtAdmissionWhenIdle(g, r) ==
    /\ g \in alive /\ arb[g].admissions # <<>> /\ r = Head(arb[g].admissions)
    /\ arb[g].activeMutations = 0

AtAdmission(g, r) == g \in alive /\ arb[g].admissions # <<>> /\ r = Head(arb[g].admissions)

\* The admission ends without acceptance.  Its result is known now, but a
\* normal-lane promise still waits for its turn in the normal lane.
EndRefused(g, r, a, clock) ==
    /\ req' = IF Lane(r) = "normal"
              THEN [req EXCEPT ![r].phase = "refused", ![r].answer = a]
              ELSE Resolved(req, r, a)
    /\ arb' = [arb EXCEPT
           ![g].clock = clock,
           ![g].admissions = Tail(@),
           ![g].receipts = IF Lane(r) = "normal" THEN @ ELSE KeptReceipts(g, r, FALSE)]
    /\ UNCHANGED <<latest, alive, serving>>

LookupOf(r) == Ledger!Lookup(req[r].key, Fingerprint(r))

\* durableResult: what a receipt already in the ledger means for this call.
DurableAnswer(r) ==
    LET row == receipts[req[r].key]
    IN  IF LookupOf(r) = "mismatch" THEN Refused("invalidReuse")
        ELSE IF row.status \in Ledger!Terminal /\ row.result # None THEN Executed(row.result)
        ELSE Refused("fenced")

\* The receipt is found by lookupMutation, or by admitMutation when another
\* generation admitted the key during this call's precondition.
Replay(g, r) ==
    /\ AtAdmission(g, r)
    /\ LookupOf(r) # "miss"
    /\ EndRefused(g, r, DurableAnswer(r), Ledger!Larger(arb[g].clock, revision))
    /\ UNCHANGED <<revision, receipts>>

\* A cancel may be stale if some active generation is one the client can have
\* seen, or was about to see, when it asked.
StalePreemptiveCancel(g, r) ==
    /\ Lane(r) = "cancel"
    /\ req[r].expected < arb[g].clock
    /\ \E n \in arb[g].activeNormals :
          /\ \A m \in arb[g].activeNormals : n <= m
          /\ req[r].expected + 1 >= n

\* identity: acceptLatestRevisionWhen() of a steer whose target is unchanged
RevisionAccepted(g, r, identity) ==
    \/ arb[g].clock = req[r].expected
    \/ Rebases(r)
    \/ StalePreemptiveCancel(g, r)
    \/ req[r].op = "steer" /\ identity

Conflict(g, r) ==
    /\ AtAdmission(g, r)
    /\ req[r].phase = "queued"
    /\ LookupOf(r) = "miss"
    /\ ~RevisionAccepted(g, r, FALSE)
    /\ EndRefused(g, r, Refused("conflict"), arb[g].clock)
    /\ UNCHANGED <<revision, receipts>>

\* The call passes the revision check and awaits its precondition.
AwaitPrecondition(g, r) ==
    /\ AtAdmission(g, r)
    /\ req[r].phase = "queued"
    /\ HasPrecondition(r)
    /\ LookupOf(r) = "miss"
    /\ \E identity \in BOOLEAN : RevisionAccepted(g, r, identity)
    /\ req' = [req EXCEPT ![r].phase = "checked"]
    /\ UNCHANGED <<revision, receipts, arb, latest, alive, serving>>

\* The precondition finds nothing to mutate, or throws.
Decline(g, r) ==
    /\ AtAdmission(g, r)
    /\ req[r].phase = "checked"
    /\ EndRefused(g, r, Refused("declined"), arb[g].clock)
    /\ UNCHANGED <<revision, receipts>>

\* The ledger call throws before anything is written.
AdmissionFault(g, r) ==
    /\ "ledger" \in Events
    /\ AtAdmission(g, r)
    /\ EndRefused(g, r, Refused("fault"), arb[g].clock)
    /\ UNCHANGED <<revision, receipts>>

\* Durable acceptance.  A control or cancel call starts executing at once; a
\* normal call waits for its lane.  The clock follows the ledger's revision,
\* which another generation may have moved since the check.
Admit(g, r) ==
    /\ AtAdmission(g, r)
    /\ \/ req[r].phase = "checked"
       \/ req[r].phase = "queued" /\ ~HasPrecondition(r) /\ RevisionAccepted(g, r, FALSE)
    /\ Ledger!AdmitMutation(req[r].key, Fingerprint(r))
    /\ req' = [req EXCEPT
           ![r].phase = IF Lane(r) = "normal" THEN "admitted" ELSE "running",
           ![r].rev = revision',
           ![r].ran = Lane(r) # "normal",
           ![r].ahead = {c \in ToSet(Tail(arb[g].admissions)) : Lane(c) = "cancel"}]
    /\ arb' = [arb EXCEPT
           ![g].clock = revision',
           ![g].admissions = Tail(@),
           ![g].activeMutations = @ + 1,
           ![g].activeNormals = IF BindsGeneration(r) THEN @ \cup {revision'} ELSE @]
    /\ UNCHANGED <<latest, alive, serving>>

AdmissionStep(g, r) ==
    \/ Replay(g, r)
    \/ Conflict(g, r)
    \/ AwaitPrecondition(g, r)
    \/ Decline(g, r)
    \/ AdmissionFault(g, r)
    \/ Admit(g, r)

(***************************************************************************)
(* The normal lane: one mutation runs at a time, in call order.            *)
(***************************************************************************)
AtNormalHead(g, r) == g \in alive /\ arb[g].normals # <<>> /\ r = Head(arb[g].normals)

SettleRefused(g, r) ==
    /\ AtNormalHead(g, r)
    /\ req[r].phase = "refused"
    /\ req' = Resolved(req, r, req[r].answer)
    /\ arb' = [arb EXCEPT ![g].normals = Tail(@), ![g].receipts = KeptReceipts(g, r, FALSE)]
    /\ UNCHANGED <<revision, receipts, latest, alive, serving>>

\* Slip: no cancel is awaited.
TakeNoBarrier(g, r) ==
    /\ AtNormalHead(g, r)
    /\ req[r].phase = "admitted"
    /\ req' = [req EXCEPT ![r].phase = "armed"]
    /\ UNCHANGED <<revision, receipts, arb, latest, alive, serving>>

\* await this.#cancelAdmissionTail: the field is read now, awaited from here on
TakeBarrier(g, r) ==
    /\ AtNormalHead(g, r)
    /\ req[r].phase = "admitted"
    /\ req' = [req EXCEPT ![r].phase = "armed", ![r].barrier = arb[g].cancelTail]
    /\ UNCHANGED <<revision, receipts, arb, latest, alive, serving>>

Start(g, r) ==
    /\ AtNormalHead(g, r)
    /\ req[r].phase = "armed"
    /\ req[r].barrier # None => ~Unadmitted(req[r].barrier)
    /\ req' = [req EXCEPT ![r].phase = "running", ![r].ran = TRUE]
    /\ UNCHANGED <<revision, receipts, arb, latest, alive, serving>>

\* Slip: the generation stays cancellable after its turn.
ReleasedKeepingGeneration(g, r) ==
    [arb[g] EXCEPT
        !.activeMutations = @ - 1,
        !.normals = RemoveFirst(@, r),
        !.receipts = KeptReceipts(g, r, TRUE)]

\* Arbiter g when the engine call of r has returned: the inner finally of
\* execute(), the end of the normal lane's turn and the outer finally().
Released(g, r) ==
    [arb[g] EXCEPT
        !.activeMutations = @ - 1,
        !.activeNormals = @ \ {req[r].rev},
        !.normals = RemoveFirst(@, r),
        !.receipts = KeptReceipts(g, r, TRUE)]

(***************************************************************************)
(* The engine call returns or throws; the outcome is stored and answered.  *)
(* When storing it throws (the result exceeds the ledger's limit, or the   *)
(* ledger fails) the caller gets a failure and the receipt stays open.     *)
(***************************************************************************)
Finish(g, r, status) ==
    LET o == [status |-> status, revision |-> req[r].rev]
    IN  /\ g \in alive
        /\ req[r].gen = g
        /\ req[r].phase = "running"
        /\ arb' = [arb EXCEPT ![g] = Released(g, r)]
        /\ \/ /\ Ledger!CompleteMutation(req[r].key, status, o)
              /\ req' = Resolved(req, r, Executed(o))
           \/ /\ "ledger" \in Events \/ Ledger!CompletionRefused(req[r].key, status, o)
              /\ req' = Resolved(req, r, Refused("unrecorded"))
              /\ UNCHANGED <<revision, receipts>>
        /\ UNCHANGED <<latest, alive, serving>>

(***************************************************************************)
(* The clock moves on its own.                                             *)
(***************************************************************************)
\* publishAutonomous, from the engine's change notifications: ignored while a
\* mutation is active.
PublishAutonomous(g) ==
    /\ "publish" \in Events
    /\ g \in serving
    /\ arb[g].clock < MaxPublished
    /\ arb[g].activeMutations = 0
    /\ Ledger!SeedSessionRevision(arb[g].clock + 1)
    /\ arb' = [arb EXCEPT ![g].clock = revision']
    /\ UNCHANGED <<req, latest, alive, serving>>

\* publishDurable: a revision learnt from elsewhere, mutations active or not
PublishDurable(g, n) ==
    /\ "notice" \in Events
    /\ g \in serving
    /\ n \in arb[g].clock + 1 .. MaxPublished
    /\ Ledger!SeedSessionRevision(n)
    /\ arb' = [arb EXCEPT ![g].clock = revision']
    /\ UNCHANGED <<req, latest, alive, serving>>

(***************************************************************************)
(* New generations over the same ledger.  Each constructor seeds its clock *)
(* from the ledger's revision.                                             *)
(***************************************************************************)
NewGeneration ==
    /\ latest < MaxGeneration
    /\ latest' = latest + 1
    /\ arb' = [arb EXCEPT ![latest + 1] = NewArbiter(revision)]

\* The registry releases or evicts a session with no active mutation and a
\* client creates it again; calls still queued in the old arbiter go on there.
Recreate(g) ==
    /\ "recreate" \in Events
    /\ g \in serving
    /\ arb[g].activeMutations = 0
    /\ NewGeneration
    /\ alive' = alive \cup {latest + 1}
    /\ serving' = (serving \ {g}) \cup {latest + 1}
    /\ UNCHANGED <<revision, receipts, req>>

\* The owner process dies, with every promise in it, and a new one starts.
Restart ==
    /\ "restart" \in Events
    /\ NewGeneration
    /\ Ledger!RecoverInDoubt
    /\ alive' = {latest + 1}
    /\ serving' = {latest + 1}
    /\ req' = [r \in Requests |->
                 IF Unsettled(r) THEN [req[r] EXCEPT !.phase = "lost"] ELSE req[r]]

\* A second owner process starts while the first still runs.
Split ==
    /\ "split" \in Events
    /\ NewGeneration
    /\ Ledger!RecoverInDoubt
    /\ alive' = alive \cup {latest + 1}
    /\ serving' = serving \cup {latest + 1}
    /\ UNCHANGED req

ArbiterNext ==
    \/ \E g \in Gens, r \in Requests, k \in Keys, op \in Ops, e \in 0..revision, busy \in BOOLEAN :
          Enqueue(g, r, k, op, e, busy) \/ Join(g, r, k, op, e, busy)
    \/ \E g \in Gens, r \in Requests :
          \/ AdmissionStep(g, r)
          \/ SettleRefused(g, r)
          \/ TakeBarrier(g, r)
          \/ Start(g, r)
          \/ \E status \in {"completed", "failed"} : Finish(g, r, status)
    \/ \E g \in Gens : PublishAutonomous(g) \/ Recreate(g)
    \/ \E g \in Gens, n \in 0..MaxPublished : PublishDurable(g, n)
    \/ Restart
    \/ Split

ArbiterSpec == ArbiterInit /\ [][ArbiterNext]_vars

\* Every enabled continuation of the event loop runs.  An engine call need not
\* return: a provider or tool turn may hang.
Fairness ==
    \A g \in Gens, r \in Requests :
        /\ WF_vars(AdmissionStep(g, r))
        /\ WF_vars(SettleRefused(g, r) \/ TakeBarrier(g, r) \/ Start(g, r))

FairSpec == ArbiterSpec /\ Fairness

(***************************************************************************)
(* The arbiter implements the command log.  A command is begun when its    *)
(* execute() is called and has an outcome when its row has one.            *)
(***************************************************************************)
Effect(k) ==
    IF k \in DOMAIN receipts /\ receipts[k].status \in Ledger!Terminal
    THEN <<"done", receipts[k].result>>
    ELSE IF \E r \in Requests : req[r].key = k /\ req[r].ran THEN <<"begun">>
    ELSE <<"none">>

Reply(r) ==
    IF req[r].phase # "answered" THEN None
    ELSE IF req[r].answer.kind = "executed" THEN <<req[r].key, req[r].answer.outcome>>
    ELSE <<"refused">>

Log == INSTANCE CommandLog WITH
    Callers <- Requests, Unknown <- None,
    Outcomes <- [status : {"completed", "failed"}, revision : 0..MaxRevision],
    effect <- [k \in Keys |-> Effect(k)],
    reply <- [r \in Requests |-> Reply(r)]

\* Every step of the arbiters, the ledger and the faults around them is a step of
\* the command log or leaves it alone.
ImplementsLog == Log!LogSpec

(***************************************************************************)
(* Properties                                                              *)
(***************************************************************************)
Accepted(r) == req[r].rev # 0
Active(r) == req[r].phase \in {"admitted", "armed", "running"}

ArbiterTypeOK ==
    /\ Ledger!LedgerTypeOK
    /\ req \in [Requests -> Request]
    /\ latest \in Gens
    /\ alive \subseteq 1..latest
    /\ serving \subseteq alive
    /\ arb \in [Gens -> Arbiter]

\* A command identified by an idempotency key is executed at most once, ever:
\* through retries, in-memory eviction, a torn-down session that is created
\* again, a crash between any two steps and a second owner on the same ledger
\* (mutate: ledger lookup before admission, admission before execute()).
AtMostOnce ==
    \A r, s \in Requests :
        req[r].ran /\ req[s].ran /\ req[r].key = req[s].key => r = s

\* No arbiter ever shows a revision that a crash could take back ("Keeping clock
\* publication after persistence also prevents a later mutation from depending on
\* a revision that can still fail to become durable").
ClockIsDurable == \A g \in alive : arb[g].clock <= revision

\* Within one arbiter two normal-lane commands never execute together (the
\* normalTail chain in mutate), and a turn does not start while a cancel that was
\* queued when the turn became durable is still undecided ("A cancel already queued
\* while this mutation was becoming durable must consume the admitted turn before
\* provider/tool work begins").
NormalLaneIsOrdered ==
    \A r \in Requests :
        req[r].phase = "running" /\ Lane(r) = "normal" =>
            /\ \A c \in req[r].ahead : ~Unadmitted(c)
            /\ \A s \in Requests :
                  req[s].phase = "running" /\ Lane(s) = "normal" /\ req[r].gen = req[s].gen => r = s

\* isMutationActive and hasCancellableMutation, which gate teardown, autonomous
\* publication and stale cancels, count exactly the accepted calls whose engine
\* call has not returned.
ActivityIsExact ==
    \A g \in alive :
        LET active == {r \in Requests : req[r].gen = g /\ Active(r)}
        IN  /\ arb[g].activeMutations = Cardinality(active)
            /\ arb[g].activeNormals = {req[r].rev : r \in {x \in active : BindsGeneration(x)}}

\* A pause, approval, steer or cancel is decided even if the running turn never
\* returns ("The lane is released before engine execution, so a long provider/tool
\* turn cannot block pause, approval, steer, or cancel").  And if every engine call
\* returns in the end, every call of mutate() is answered or its owner died: no lane
\* waits on itself, no refused call is forgotten in the normal lane, every joined call
\* is resolved.
EngineCallsReturn == \A r \in Requests : []<>(req[r].phase # "running")
EveryCallSettles ==
    /\ \A r \in Requests : Unadmitted(r) ~> ~Unadmitted(r)
    /\ EngineCallsReturn => \A r \in Requests : Unsettled(r) ~> ~Unsettled(r)
=============================================================================
