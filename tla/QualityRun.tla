------------------------------ MODULE QualityRun ------------------------------
(***************************************************************************)
(* One turn of the work agent under the quality runtime (work-agent.ts,    *)
(* runTurnInEpoch; quality-runtime.ts, QualityArtifactStore): the turn is  *)
(* answered directly, or planned into a graph whose nodes workers carry    *)
(* out; a critic reviews a packet of the changed files, a synthesis and    *)
(* the completion hooks follow, and on the way hooks and critic may ask    *)
(* for a refinement, a pivot to another plan, or block the run.            *)
(*                                                                         *)
(* Files.  Manifests and packets are compared, never looked into: what     *)
(* matters of a path is whether it was written since the baseline of the   *)
(* review was captured (`changed`) and since the packet was made (`since`).*)
(* Git-ignored paths are in neither, and no write is undone by another.    *)
(*                                                                         *)
(* Abstracted: how the run controller and the scheduler run the workers of *)
(* a wave is WorkGraph's subject, here they start and end; of the state of *)
(* a node of the graph only whether it is completed, which is what the     *)
(* refinement reads.  Findings are named after the iteration they ask for. *)
(* Traces, artifacts' contents and their limits are left out, and so are   *)
(* creator turns (CreatorEvolution).                                       *)
(***************************************************************************)
EXTENDS Naturals, FiniteSets

CONSTANTS
    Nodes,
    Deps,           \* dependsOn
    Owns,           \* fileOwnership
    Paths,
    Plans,          \* the sets of nodes that a planner may come up with
    MaxWorkers,
    Limit           \* DEFAULT_ITERATION_LIMITS

Iterations == {"refine", "pivot"}
Closed(some) == \A n \in some : Deps[n] \subseteq some

ASSUME QualityAssumption ==
    /\ Deps \in [Nodes -> SUBSET Nodes] /\ Owns \in [Nodes -> SUBSET Paths]
    /\ \A some \in Plans : some # {} /\ some \subseteq Nodes /\ Closed(some)
    /\ MaxWorkers \in Nat \ {0} /\ Limit \in [Iterations -> Nat]

VARIABLES
    phase,      \* where the turn is; what it awaits there
    intent,     \* effectiveIntent: answered directly, or by a graph
    plan,       \* currentPlan, and the nodes of quality.graph
    wave,       \* the nodes of the present run of the orchestrator
    step,       \* where the worker of each of them is
    completed,  \* nodes whose status in quality.graph is completed
    seen,       \* by node: `completed` in the copy of the graph taken before dispatch
    artifacts,  \* the nodes in workerArtifactsByNode
    pending,    \* pendingIteration
    terminal,   \* why the run is blocked
    spent,      \* refineCount and pivotCount
    changed,    \* paths written since reviewBaseline was captured
    since,      \* paths written since completionReviewPacket was made
    packet,     \* whether there is a completionReviewPacket
    checks,     \* how the executable checks of this iteration ended
    gate,       \* criticGateStatus, or the qualityStatus of a direct turn
    independent,    \* criticIndependent
    mutated,    \* mutationCapableToolStarted
    aborted,    \* turnSignal
    outcome,
    said,       \* history: refusals on record, and requests of this iteration
    strayed     \* history: a worker has written a path that no node of its plan owns

graphVars == <<intent, plan, wave, step, completed, seen, artifacts>>
rulingVars == <<pending, terminal, said>>
fileVars == <<changed, since, packet, strayed>>
reviewVars == <<checks, gate, independent>>
qualityVars == <<phase, graphVars, rulingVars, spent, fileVars, reviewVars, mutated, aborted, outcome>>

Decisions == {"proceed", "unproven", "refine", "pivot", "block"}
NoRequest == [kind |-> "none", nodes |-> {}, all |-> FALSE]
Request == [kind : Iterations \cup {"none"}, nodes : SUBSET Nodes, all : BOOLEAN]
Verdicts == [answer : {"invalid", "unproven", "fail", "pass"},
             findings : Iterations \cup {"none", "grave"}, independent : BOOLEAN]
Causes == {"decision", "worker", "evidence", "undeclared", "stale"}
LoopPhases == {"explore", "direct", "directHook", "plan", "planHook", "work", "checks", "review",
           "settle", "promote", "complete", "ended"}
Steps == {"waiting", "ready", "gate", "context", "work", "after", "closing",
          "completed", "blocked", "stopped", "thrown"}

QualityInit ==
    /\ phase = "explore" /\ intent \in {"direct", "graph"}
    /\ plan = {} /\ wave = {} /\ completed = {} /\ artifacts = {}
    /\ step = [n \in Nodes |-> "waiting"] /\ seen = [n \in Nodes |-> {}]
    /\ pending = NoRequest /\ terminal = "none" /\ said = {}
    /\ spent = [k \in Iterations |-> 0]
    /\ changed = {} /\ since = {} /\ packet = FALSE /\ strayed = FALSE
    /\ checks = "none" /\ gate = "proceed" /\ independent = FALSE
    /\ mutated = FALSE /\ aborted = FALSE /\ outcome = "none"

Owned(some) == UNION {Owns[n] : n \in some}
AtWork == {n \in wave : step[n] \in {"gate", "context", "work", "after", "closing"}}
SettledNodes == {n \in wave : step[n] \in {"completed", "blocked", "stopped", "thrown"}}

Ends(how) == phase' = "ended" /\ outcome' = how
GoesOn(next) == phase' = next /\ UNCHANGED outcome

---------------------------------------------------------------------------
(* Decisions                                                               *)

\* The limits: one request more than they allow is a refusal.
Effective(decision) ==
    LET asked == IF decision = "refine" /\ pending.kind = "pivot" THEN "pivot" ELSE decision
    IN  IF asked \in Iterations /\ spent[asked] >= Limit[asked] THEN "block" ELSE decision

\* Slip: a later request takes the place of a refusal on record.
RulesLatest(decision, who, cause) ==
    LET ruling == Effective(decision)
    IN  /\ said' = said \cup ({decision, ruling} \cap {"refine", "pivot", "block"})
        /\ terminal' = CASE ruling = "block" -> cause
                         [] ruling \in Iterations -> "none"
                         [] OTHER -> terminal
        /\ pending' = CASE ruling = "block" -> NoRequest
                        [] ruling \in Iterations -> [kind |-> ruling, nodes |-> who, all |-> who = {}]
                        [] OTHER -> pending

\* recordQualityDecision: `who` is the node the decision is about, if it is about one.
Rules(decision, who, cause) ==
    LET ruling == Effective(decision)
    IN  /\ said' = said \cup ({decision, ruling} \cap {"refine", "pivot", "block"})
        /\ terminal' = IF ruling = "block" THEN cause ELSE terminal
        /\ pending' = CASE ruling = "block" -> NoRequest
                        [] ruling \in Iterations /\ terminal = "none" ->
                               [kind |-> IF "pivot" \in {ruling, pending.kind} THEN "pivot"
                                         ELSE "refine",
                                nodes |-> pending.nodes \cup who,
                                all |-> pending.all \/ who = {}]
                        [] OTHER -> pending

\* finishTerminalQualityNode, its end: the refusal of a node that failed, or that never began.
RulesOut ==
    /\ said' = said \cup {"block"} /\ pending' = NoRequest
    /\ terminal' = IF terminal = "none" THEN "worker" ELSE terminal

---------------------------------------------------------------------------
(* The next iteration                                                      *)

\* selectRefineTasks.
Selected ==
    IF pending.all \/ pending.nodes = {} THEN plan
    ELSE {n \in plan : \A some \in SUBSET plan :
             ((pending.nodes \cap plan) \cup (plan \ completed) \subseteq some /\ Closed(some))
                 => n \in some}

\* The tasks of a run are proposed anew, and the baseline of their review is captured.
BeginsWave(some) ==
    /\ wave' = some /\ completed' = completed \ some
    /\ step' = [n \in Nodes |-> "waiting"]
    /\ changed' = {}
    /\ GoesOn("work")

\* Slip: a pivot is not counted.
SpendsRefines(kind) == spent' = IF kind = "refine" THEN [spent EXCEPT ![kind] = @ + 1] ELSE spent

Spends(kind) == spent' = [spent EXCEPT ![kind] = @ + 1]

\* prepareNextQualityIteration, and for a refinement planComplexTurn and onPlan, which keep
\* the plan and ask no hook.
Prepares ==
    /\ Spends(pending.kind)
    /\ pending' = NoRequest /\ said' = said \ Iterations
    /\ packet' = FALSE /\ since' = {}
    /\ checks' = "none" /\ gate' = "unproven" /\ independent' = FALSE
    /\ \/ /\ pending.kind = "pivot"
          /\ intent' = "graph" /\ artifacts' = {}
          /\ GoesOn("plan") /\ UNCHANGED <<wave, step, completed, changed>>
       \/ /\ pending.kind = "refine" /\ intent = "graph"
          /\ artifacts' = artifacts \ Selected
          /\ BeginsWave(Selected) /\ UNCHANGED intent
       \/ /\ pending.kind = "refine" /\ intent = "direct"
          /\ GoesOn("direct") /\ UNCHANGED <<intent, artifacts, wave, step, completed, changed>>
    /\ UNCHANGED <<plan, seen, terminal, strayed, mutated, aborted>>

---------------------------------------------------------------------------
(* Classification, direct turns, planning                                  *)

\* dispatchRunClassified, which asks about the run as a whole.
Explore(decision) ==
    /\ phase = "explore"
    /\ Rules(decision, {}, "decision")
    /\ IF terminal' # "none" THEN Ends("block")
       ELSE GoesOn(IF intent = "direct" THEN "direct" ELSE "plan")
    /\ UNCHANGED <<graphVars, spent, fileVars, reviewVars, mutated, aborted>>

\* runDirectQualityTurn: the provider's turn is over; a tool that is not read-only may have run.
DirectEnds ==
    /\ phase = "direct"
    /\ mutated' \in BOOLEAN
    /\ GoesOn("directHook")
    /\ UNCHANGED <<graphVars, rulingVars, spent, fileVars, reviewVars, aborted>>

\* ... and dispatchBeforeRunComplete has answered.  `usable`: the lifecycle is intact and the
\* inventory holds no entry that cannot be trusted.
DirectHook(decision, usable) ==
    /\ phase = "directHook"
    /\ IF mutated \/ ~usable THEN Rules("block", {}, "evidence") ELSE Rules(decision, {}, "decision")
    /\ gate' = decision
    /\ GoesOn("settle")
    /\ UNCHANGED <<graphVars, spent, fileVars, checks, independent, mutated, aborted>>

\* planComplexTurn: the planner has answered; onPlan makes the graph.
PlanMade(nodes) ==
    /\ phase = "plan"
    /\ plan' = nodes /\ wave' = {} /\ completed' = {}
    /\ GoesOn("planHook")
    /\ UNCHANGED <<intent, step, seen, artifacts, rulingVars, spent, fileVars, reviewVars,
                   mutated, aborted>>

\* dispatchPlanCreated has answered.
PlanHook(decision) ==
    /\ phase = "planHook"
    /\ Rules(decision, {}, "decision")
    /\ IF terminal' # "none" THEN Ends("block") /\ UNCHANGED <<wave, completed, step, changed>>
       ELSE IF pending' # NoRequest
            THEN GoesOn("settle") /\ UNCHANGED <<wave, completed, step, changed>>
            ELSE BeginsWave(plan)
    /\ UNCHANGED <<intent, plan, seen, artifacts, spent, since, packet, strayed, reviewVars,
                   mutated, aborted>>

---------------------------------------------------------------------------
(* The workers of a wave                                                   *)

Failed == {n \in wave : step[n] \in {"blocked", "stopped", "thrown"}}
Doomed == {n \in wave : step[n] = "waiting" /\ Deps[n] \cap Failed # {}}
Free == {n \in wave : step[n] = "waiting" /\ \A d \in Deps[n] : step[d] = "completed"}
Batch == {n \in wave : step[n] = "ready"} \cup AtWork

\* runGoalTaskExecutorPool between two batches: what depends on a failure is blocked, ...
BlockDependents ==
    /\ phase = "work" /\ Batch = {} /\ Doomed # {}
    /\ step' = [n \in Nodes |-> IF n \in Doomed THEN "blocked" ELSE step[n]]
    /\ completed' = completed \ Doomed
    /\ UNCHANGED <<phase, intent, plan, wave, seen, artifacts, rulingVars, spent, fileVars,
                   reviewVars, mutated, aborted, outcome>>

\* ... and all that has become free is the next batch.
OfferBatch ==
    /\ phase = "work" /\ Batch = {} /\ Doomed = {} /\ Free # {}
    /\ step' = [n \in Nodes |-> IF n \in Free THEN "ready" ELSE step[n]]
    /\ completed' = completed \ Free
    /\ UNCHANGED <<phase, intent, plan, wave, seen, artifacts, rulingVars, spent, fileVars,
                   reviewVars, mutated, aborted, outcome>>

\* executeComplexTask up to dispatchBeforeNodeDispatch: it keeps the graph as it is now.
Start(n) ==
    /\ phase = "work" /\ n \in wave /\ step[n] = "ready" /\ Cardinality(AtWork) < MaxWorkers
    /\ step' = [step EXCEPT ![n] = "gate"]
    /\ completed' = completed \ {n}
    /\ seen' = [seen EXCEPT ![n] = completed']
    /\ UNCHANGED <<phase, intent, plan, wave, artifacts, rulingVars, spent, fileVars, reviewVars,
                   mutated, aborted, outcome>>

\* beforeNodeDispatch has answered.  Unless that stops the node, the copy of the graph is
\* written back, over what has been recorded since.
Gate(n, decision) ==
    /\ phase = "work" /\ n \in wave /\ step[n] = "gate"
    /\ Rules(decision, {n}, "decision")
    /\ IF terminal' # "none" THEN step' = [step EXCEPT ![n] = "closing"] /\ UNCHANGED completed
       ELSE IF pending' # NoRequest
            THEN step' = [step EXCEPT ![n] = "blocked"] /\ UNCHANGED completed
            ELSE step' = [step EXCEPT ![n] = "context"] /\ completed' = seen[n]
    /\ seen' = [seen EXCEPT ![n] = {}]
    /\ UNCHANGED <<phase, intent, plan, wave, artifacts, spent, fileVars, reviewVars,
                   mutated, aborted, outcome>>

\* The context is there: runTask begins.
Dispatch(n) ==
    /\ phase = "work" /\ n \in wave /\ step[n] = "context"
    /\ step' = [step EXCEPT ![n] = "work"]
    /\ UNCHANGED <<phase, intent, plan, wave, completed, seen, artifacts, rulingVars, spent, fileVars,
                   reviewVars, mutated, aborted, outcome>>

\* runTask is over: with a result, whose artifact is made, or without one.
WorkEnds(n) ==
    /\ phase = "work" /\ n \in wave /\ step[n] = "work"
    /\ \/ /\ step' = [step EXCEPT ![n] = "after"]
          /\ artifacts' = artifacts \cup {n} /\ completed' = completed \cup {n}
       \/ /\ step' = [step EXCEPT ![n] = "closing"]
          /\ completed' = completed \ {n} /\ UNCHANGED artifacts
    /\ UNCHANGED <<phase, intent, plan, wave, seen, rulingVars, spent, fileVars, reviewVars,
                   mutated, aborted, outcome>>

\* afterNodeCompleted has answered: the worker's result counts unless someone has objected.
After(n, decision) ==
    /\ phase = "work" /\ n \in wave /\ step[n] = "after"
    /\ Rules(decision, {n}, "decision")
    /\ IF terminal' # "none" \/ pending' # NoRequest
       THEN step' = [step EXCEPT ![n] = "blocked"] /\ completed' = completed \ {n}
       ELSE step' = [step EXCEPT ![n] = "completed"] /\ completed' = completed \cup {n}
    /\ UNCHANGED <<phase, intent, plan, wave, seen, artifacts, spent, fileVars, reviewVars,
                   mutated, aborted, outcome>>

\* finishTerminalQualityNode has told the hooks.
CloseNode(n) ==
    /\ phase = "work" /\ n \in wave /\ step[n] = "closing"
    /\ RulesOut
    /\ step' = [step EXCEPT ![n] = "stopped"]
    /\ UNCHANGED <<phase, intent, plan, wave, completed, seen, artifacts, spent, fileVars, reviewVars,
                   mutated, aborted, outcome>>

\* A hook throws: createFailedComplexTaskResult, of which no hook has been told.
HookThrows(n) ==
    /\ phase = "work" /\ n \in wave /\ step[n] \in {"gate", "context", "after", "closing"}
    /\ step' = [step EXCEPT ![n] = "thrown"]
    /\ completed' = completed \ {n} /\ seen' = [seen EXCEPT ![n] = {}]
    /\ UNCHANGED <<phase, intent, plan, wave, artifacts, rulingVars, spent, fileVars, reviewVars,
                   mutated, aborted, outcome>>

\* The wave has settled: shouldRunGuardianReview.
WaveEnds ==
    /\ phase = "work" /\ SettledNodes = wave
    /\ IF terminal = "none" /\ pending = NoRequest /\ Failed = {}
       THEN IF aborted THEN Ends("aborted") ELSE GoesOn("checks")
       ELSE GoesOn("settle")
    /\ UNCHANGED <<graphVars, rulingVars, spent, fileVars, reviewVars, mutated, aborted>>

---------------------------------------------------------------------------
(* Files                                                                   *)

\* A path is written, and compared with the baseline or with the packet later.
Touches(p) ==
    IF packet THEN since' = since \cup {p} /\ UNCHANGED changed
    ELSE changed' = changed \cup {p} /\ UNCHANGED since

\* A worker writes a path, one of its own or not.
Write(n, p) ==
    /\ phase = "work" /\ n \in wave /\ step[n] = "work"
    /\ Touches(p)
    /\ strayed' = (strayed \/ p \notin Owned(plan))
    /\ UNCHANGED <<phase, graphVars, rulingVars, spent, packet, reviewVars, mutated, aborted, outcome>>

\* Somebody else does: the user, an executable check, a plugin.
Edit(p) ==
    /\ phase \in {"work", "checks", "review", "settle", "promote", "complete"}
    /\ Touches(p)
    /\ UNCHANGED <<phase, graphVars, rulingVars, spent, packet, strayed, reviewVars, mutated, aborted,
                   outcome>>

\* reviewPacketIsFresh, and the manifest of all nodes against the one of the packet, which is
\* of the wave.
Fresh == since = {} /\ Owned(plan) = Owned(wave)
StaleCause == IF since \subseteq Owned(wave) THEN "stale" ELSE "undeclared"

---------------------------------------------------------------------------
(* Review and completion                                                   *)

\* runGuardianReview: the executable checks have ended, persistReviewPacket compares the files
\* with the baseline.  `usable`: there is a reviewer, and the packet holds nothing that cannot
\* be trusted.
ChecksEnd(how, usable) ==
    /\ phase = "checks" /\ ~aborted
    /\ checks' = how /\ packet' = TRUE /\ since' = {}
    /\ IF ~(changed \subseteq Owned(wave))
       THEN Rules("block", {}, "undeclared") /\ gate' = "block" /\ GoesOn("settle")
       ELSE IF ~usable
            THEN Rules("block", {}, "evidence") /\ gate' = "block" /\ GoesOn("settle")
            ELSE GoesOn("review") /\ UNCHANGED <<rulingVars, gate>>
    /\ UNCHANGED <<graphVars, spent, changed, strayed, independent, mutated, aborted>>

\* The gate of the critic, with evaluateGate for a verdict that asks for nothing.
CriticGate(v) ==
    IF v.answer = "invalid" \/ checks = "failed" THEN "block"
    ELSE IF v.answer = "unproven" \/ checks = "unproven" \/ ~v.independent THEN "unproven"
    ELSE IF v.findings \in Iterations
         THEN IF spent[v.findings] >= Limit[v.findings] THEN "block" ELSE v.findings
         ELSE IF v.answer = "pass" /\ v.findings = "none" THEN "proceed" ELSE "block"

\* The critic has answered; first the packet is made again and compared.
Review(v) ==
    /\ phase = "review"
    /\ IF ~Fresh
       THEN Rules("block", {}, StaleCause) /\ gate' = "block" /\ UNCHANGED independent
       ELSE gate' = CriticGate(v) /\ Rules(gate', {}, "decision") /\ independent' = v.independent
    /\ GoesOn("settle")
    /\ UNCHANGED <<graphVars, spent, fileVars, checks, mutated, aborted>>

\* The end of the loop's body, once the orchestrator's run is over: reconcileTerminalQualityResults
\* reports the failures no hook was told of, then abort, refusal and request are looked at in
\* this order.
Settle ==
    /\ phase = "settle"
    /\ LET thrown == \E n \in wave : step[n] = "thrown"
           refused == thrown \/ terminal # "none"
       IN  \/ /\ aborted \/ refused
              /\ Ends(IF aborted THEN "aborted" ELSE "block")
              /\ IF thrown THEN RulesOut ELSE UNCHANGED rulingVars
              /\ UNCHANGED <<graphVars, spent, fileVars, reviewVars, mutated, aborted>>
           \/ /\ ~aborted /\ ~refused /\ pending # NoRequest
              /\ Prepares
           \/ /\ ~aborted /\ ~refused /\ pending = NoRequest
              /\ intent = "direct" \/ gate # "proceed"
              /\ Ends(gate)
              /\ UNCHANGED <<graphVars, rulingVars, spent, fileVars, reviewVars, mutated, aborted>>
           \/ /\ ~aborted /\ ~refused /\ pending = NoRequest
              /\ intent = "graph" /\ gate = "proceed"
              /\ IF Fresh THEN GoesOn("promote") /\ UNCHANGED rulingVars
                 ELSE Ends("block") /\ Rules("block", {}, StaleCause)
              /\ UNCHANGED <<graphVars, spent, fileVars, reviewVars, mutated, aborted>>

\* The synthesis is there; the files are compared again and the completion hooks are asked.
Promote ==
    /\ phase = "promote"
    /\ IF Fresh THEN GoesOn("complete") /\ UNCHANGED rulingVars
       ELSE Ends("block") /\ Rules("block", {}, StaleCause)
    /\ UNCHANGED <<graphVars, spent, fileVars, reviewVars, mutated, aborted>>

\* Slip: the files are not compared after the completion hooks.
CompleteUnchecked(decision) ==
    /\ phase = "complete"
    /\ Rules(decision, {}, "decision")
    /\ IF terminal' # "none" THEN Ends("block")
       ELSE IF pending' # NoRequest THEN GoesOn("settle") ELSE Ends(decision)
    /\ UNCHANGED <<graphVars, spent, fileVars, reviewVars, mutated, aborted>>

\* dispatchBeforeRunComplete has answered, and the files are compared for the last time.
Complete(decision) ==
    /\ phase = "complete"
    /\ IF ~Fresh THEN Ends("block") /\ Rules("block", {}, StaleCause)
       ELSE /\ Rules(decision, {}, "decision")
            /\ IF terminal' # "none" THEN Ends("block")
               ELSE IF pending' # NoRequest THEN GoesOn("settle") ELSE Ends(decision)
    /\ UNCHANGED <<graphVars, spent, fileVars, reviewVars, mutated, aborted>>

---------------------------------------------------------------------------
(* Interruption                                                            *)

Abort ==
    /\ phase # "ended" /\ ~aborted
    /\ aborted' = TRUE
    /\ UNCHANGED <<phase, graphVars, rulingVars, spent, fileVars, reviewVars, mutated, outcome>>

\* What the turn awaits throws: the planner, a reviewer, a hook; or it was aborted.
LoopThrows ==
    /\ \/ phase \in {"explore", "direct", "directHook", "plan", "planHook", "review", "promote",
                      "complete"}
       \/ phase \in {"work", "checks"} /\ aborted
    /\ Ends(IF aborted THEN "aborted" ELSE "failed")
    /\ UNCHANGED <<graphVars, rulingVars, spent, fileVars, reviewVars, mutated, aborted>>

NodeSteps(n) ==
    \/ Start(n) \/ Dispatch(n) \/ WorkEnds(n) \/ CloseNode(n) \/ HookThrows(n)
    \/ \E decision \in Decisions : Gate(n, decision) \/ After(n, decision)

\* What goes on by itself, once every call that the turn awaits returns.
Progress ==
    \/ \E decision \in Decisions :
          \/ Explore(decision) \/ PlanHook(decision) \/ Complete(decision)
          \/ \E usable \in BOOLEAN : DirectHook(decision, usable)
    \/ DirectEnds \/ \E nodes \in Plans : PlanMade(nodes)
    \/ BlockDependents \/ OfferBatch \/ WaveEnds
    \/ \E n \in Nodes : NodeSteps(n)
    \/ \E how \in {"passed", "failed", "unproven"}, usable \in BOOLEAN : ChecksEnd(how, usable)
    \/ \E v \in Verdicts : Review(v)
    \/ Settle \/ Promote \/ LoopThrows

QualityNext ==
    \/ Progress \/ Abort
    \/ \E p \in Paths : Edit(p) \/ \E n \in Nodes : Write(n, p)

QualitySpec == QualityInit /\ [][QualityNext]_qualityVars

\* Planner, workers, reviewers and hooks return or throw, and the turn goes on.  A turn takes
\* finitely many such steps, so that one condition on all of them asks nothing more.
QualityFairness == WF_qualityVars(Progress)

QualityFairSpec == QualitySpec /\ QualityFairness

---------------------------------------------------------------------------
(* Properties                                                              *)

QualityTypeOK ==
    /\ phase \in LoopPhases /\ intent \in {"direct", "graph"}
    /\ plan \in {{}} \cup Plans /\ wave \subseteq plan /\ Closed(wave)
    /\ step \in [Nodes -> Steps] /\ seen \in [Nodes -> SUBSET Nodes]
    /\ completed \subseteq Nodes /\ artifacts \subseteq Nodes
    /\ pending \in Request /\ terminal \in {"none"} \cup Causes
    /\ spent \in [Iterations -> Nat] /\ \A k \in Iterations : spent[k] <= Limit[k]
    /\ changed \subseteq Paths /\ since \subseteq Paths
    /\ packet \in BOOLEAN /\ strayed \in BOOLEAN
    /\ checks \in {"none", "passed", "failed", "unproven"} /\ gate \in Decisions
    /\ independent \in BOOLEAN /\ mutated \in BOOLEAN /\ aborted \in BOOLEAN
    /\ outcome \in {"none", "proceed", "unproven", "block", "failed", "aborted"}
    /\ said \subseteq {"refine", "pivot", "block"}

\* A turn that is said to proceed has been reviewed as it is, and as a whole: the executable
\* checks passed, an independent critic approved the packet of this iteration, every node of
\* the plan has a result in it, no file was written since, and none that the plan does not own
\* since the work on it began.  A direct turn proceeds only if no tool ran that could change a
\* file.  Hooks, synthesis, partial refinements and outside edits come in between.
ProceedIsReviewed ==
    outcome = "proceed" =>
        IF intent = "direct" THEN ~mutated
        ELSE /\ packet /\ since = {} /\ changed \subseteq Owned(plan)
             /\ checks = "passed" /\ independent
             /\ plan # {} /\ plan \subseteq artifacts

\* No objection is lost: where hooks of parallel nodes, the critic and the completion hooks
\* have refused the run, or have asked for another iteration of what is now to end, it does not
\* end well.
ObjectionsCount == outcome \in {"proceed", "unproven"} => said = {}

\* The loop of refinements and pivots is bounded: a turn that has been classified comes to an
\* end, whatever hooks, critics and workers answer.
LoopEnds == phase # "explore" ~> phase = "ended"

\* "undeclared worker writes block before the independent critic can approve them"
\* (tests/work/quality-runtime.test.mjs:2124).
StrayWritesBlock == outcome = "proceed" => ~strayed
=============================================================================
