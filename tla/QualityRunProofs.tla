--------------------------- MODULE QualityRunProofs ---------------------------
(***************************************************************************)
(* What holds of a turn under the quality runtime for any plan, any number *)
(* of workers, any files and any limits: the state is well-formed, a turn  *)
(* that proceeds has been reviewed as it is and as a whole, and no         *)
(* objection is lost.                                                      *)
(*                                                                         *)
(* The inductive invariant says what each part of the turn may rely on:    *)
(* an objection on record is waiting to be ruled on or has been ruled on   *)
(* (Objections), a node that failed has objected (FailuresAreHeard), a     *)
(* result that counts has an artifact (Results, Copies, WaveResults), and  *)
(* what an approval rests on is still there at the end (Approvals).        *)
(***************************************************************************)
EXTENDS QualityRun, TLAPS

Heard == terminal # "none" \/ pending # NoRequest
Objections ==
    /\ said # {} \/ gate \in Iterations => Heard
    /\ "block" \in said => terminal # "none"

\* A request on record is one that the limits allow.
Affordable ==
    /\ pending.kind = "none" => pending = NoRequest
    /\ pending.kind # "none" => spent[pending.kind] < Limit[pending.kind]

\* Which phases a direct turn and a graph pass through.
Course ==
    /\ intent = "direct" => phase \in {"explore", "direct", "directHook", "settle", "ended"}
    /\ phase \in {"direct", "directHook"} => intent = "direct"
    /\ intent = "graph" /\ phase \notin {"explore", "plan", "ended"} => plan \in Plans
    /\ phase # "ended" => outcome = "none"

Worked == {"work", "checks", "review", "settle", "promote", "complete"}
SomeThrown == \E n \in wave : step[n] = "thrown"
FailuresAreHeard ==
    intent = "graph" /\ phase \in Worked /\ Failed # {} => Heard \/ SomeThrown

\* A node whose status is completed has an artifact, in the graph and in every copy of it.
Results == phase \notin {"plan", "ended"} => completed \subseteq artifacts
Copies ==
    \A n \in Nodes : seen[n] # {} =>
        \/ phase = "ended"
        \/ phase = "work" /\ n \in wave /\ step[n] = "gate" /\ seen[n] \subseteq artifacts
WaveResults ==
    phase = "work" =>
        /\ plan \ wave \subseteq artifacts
        /\ \A n \in wave : step[n] \in {"after", "completed"} => n \in artifacts

\* What has been reviewed.
Covered == plan \subseteq artifacts
Clean == packet /\ changed \subseteq Owned(wave)
Approved == Covered /\ Clean /\ checks = "passed" /\ independent
Approvals ==
    /\ packet => phase \in {"review", "settle", "promote", "complete", "ended"}
    /\ phase \in {"checks", "review", "promote", "complete"} => Covered
    /\ phase = "review" => Clean /\ checks # "none"
    /\ phase \in {"promote", "complete"} => Approved
    /\ phase = "settle" /\ intent = "graph" /\ gate = "proceed" =>
           Approved \/ Heard \/ SomeThrown
    /\ phase = "settle" /\ intent = "direct" /\ mutated => terminal # "none"

QualityInv ==
    /\ QualityTypeOK
    /\ Objections /\ Affordable /\ Course
    /\ FailuresAreHeard /\ Results /\ Copies /\ WaveResults /\ Approvals
    /\ ProceedIsReviewed /\ ObjectionsCount

---------------------------------------------------------------------------
(* Lemmas about what the actions are built from.                           *)

\* A ruling: the record stays well-formed and affordable, nothing heard before is forgotten,
\* and a decision that objects is heard.
LEMMA RulesFacts ==
    ASSUME QualityTypeOK, Affordable, Objections,
           NEW decision \in Decisions, NEW who \in SUBSET Nodes, NEW cause \in Causes,
           Rules(decision, who, cause)
    PROVE  /\ pending' \in Request /\ terminal' \in {"none"} \cup Causes
           /\ said' \subseteq {"refine", "pivot", "block"}
           /\ pending'.kind = "none" => pending' = NoRequest
           /\ pending'.kind # "none" => spent[pending'.kind] < Limit[pending'.kind]
           /\ Heard => Heard'
           /\ terminal # "none" => terminal' # "none"
           /\ said' # {} => Heard'
           /\ "block" \in said' => terminal' # "none"
           /\ decision \in Iterations => Heard'
           /\ decision = "block" => terminal' # "none"
  <1> DEFINE asked == IF decision = "refine" /\ pending.kind = "pivot" THEN "pivot" ELSE decision
             ruling == Effective(decision)
  <1>1. /\ ruling \in {decision, "block"}
        /\ ruling \in Iterations =>
               asked \in Iterations /\ asked \in {ruling, "pivot"} /\ spent[asked] < Limit[asked]
               /\ (asked # ruling => pending.kind = "pivot")
    BY QualityAssumption DEF Effective, Decisions, Iterations, QualityTypeOK
  <1>2. CASE ruling = "block"
    BY <1>1, <1>2 DEF Rules, Objections, Affordable, Heard, QualityTypeOK, Decisions, Request,
       NoRequest, Causes, Iterations
  <1>3. CASE ruling \in Iterations
    BY <1>1, <1>3 DEF Rules, Objections, Affordable, Heard, QualityTypeOK, Decisions, Request,
       NoRequest, Causes, Iterations
  <1>4. CASE ruling \in {"proceed", "unproven"}
    BY <1>1, <1>4 DEF Rules, Objections, Affordable, Heard, QualityTypeOK, Decisions, Request,
       NoRequest, Causes, Iterations
  <1> QED BY <1>1, <1>2, <1>3, <1>4 DEF Decisions, Iterations

\* The nodes of the next refinement are some of the plan, with all that they depend on, and
\* what is left out is completed.
LEMMA SelectedFacts ==
    ASSUME QualityTypeOK
    PROVE  Selected \subseteq plan /\ Closed(Selected) /\ plan \ Selected \subseteq completed
  <1>1. Closed(plan)
    BY QualityAssumption DEF QualityTypeOK, Closed
  <1>2. CASE pending.all \/ pending.nodes = {}
    BY <1>1, <1>2 DEF Selected
  <1>3. CASE ~(pending.all \/ pending.nodes = {})
    <2> DEFINE Base == (pending.nodes \cap plan) \cup (plan \ completed)
    <2>1. Selected = {n \in plan : \A some \in SUBSET plan :
                          Base \subseteq some /\ Closed(some) => n \in some}
      BY <1>3 DEF Selected
    <2>2. ASSUME NEW n \in Selected, NEW d \in Deps[n] PROVE d \in Selected
      BY <1>1, <2>1, <2>2 DEF Closed
    <2> QED BY <2>1, <2>2 DEF Closed
  <1> QED BY <1>2, <1>3


\* The ruling of a decision about the run as a whole, beside which nothing else of the state's
\* type is disturbed.
LEMMA RulesType ==
    ASSUME QualityTypeOK, Affordable, Objections,
           NEW decision \in Decisions, NEW cause \in Causes, Rules(decision, {}, cause)
    PROVE  /\ pending' \in Request /\ terminal' \in {"none"} \cup Causes
           /\ said' \subseteq {"refine", "pivot", "block"}
  <1>1. {} \in SUBSET Nodes
    OBVIOUS
  <1> QED BY <1>1, RulesFacts

LEMMA StaleCauseFact == StaleCause \in Causes
  BY DEF StaleCause, Causes

\* The next iteration is prepared: it is one that the limits allow.
LEMMA PreparesType ==
    ASSUME QualityTypeOK, Affordable, pending # NoRequest, Prepares
    PROVE  QualityTypeOK'
  <1>1. /\ pending.kind \in Iterations /\ spent[pending.kind] < Limit[pending.kind]
        /\ spent' = [spent EXCEPT ![pending.kind] = @ + 1]
    BY DEF Affordable, Prepares, Spends, QualityTypeOK, Request
  <1>2. spent' \in [Iterations -> Nat] /\ \A k \in Iterations : spent'[k] <= Limit[k]
    <2>1. spent' \in [Iterations -> Nat]
      BY <1>1 DEF QualityTypeOK
    <2>2. ASSUME NEW k \in Iterations PROVE spent'[k] <= Limit[k]
      <3>1. CASE k = pending.kind
        <4>1. spent[k] \in Nat /\ Limit[k] \in Nat /\ spent'[k] = spent[k] + 1
          BY <1>1, <3>1, QualityAssumption DEF QualityTypeOK
        <4>2. spent[k] < Limit[k]
          BY <1>1, <3>1
        <4> QED BY <4>1, <4>2
      <3>2. CASE k # pending.kind
        BY <1>1, <3>2 DEF QualityTypeOK
      <3> QED BY <3>1, <3>2
    <2> QED BY <2>1, <2>2
  <1>3. /\ wave' \subseteq plan /\ Closed(wave)' /\ completed' \subseteq Nodes /\ changed' \subseteq Paths
        /\ step' \in [Nodes -> Steps] /\ artifacts' \subseteq Nodes
        /\ phase' \in LoopPhases /\ intent' \in {"direct", "graph"} /\ UNCHANGED outcome
    BY SelectedFacts DEF Prepares, BeginsWave, GoesOn, QualityTypeOK, Closed, Steps, LoopPhases
  <1>4. pending' \in Request /\ said' \subseteq {"refine", "pivot", "block"} /\ gate' \in Decisions
    BY DEF Prepares, QualityTypeOK, NoRequest, Request, Decisions
  <1> QED BY <1>2, <1>3, <1>4 DEF Prepares, QualityTypeOK

LEMMA SettleType ==
    ASSUME QualityTypeOK, Affordable, Objections, Settle
    PROVE  QualityTypeOK'
  <1>1. CASE pending # NoRequest /\ Prepares
    BY <1>1, PreparesType
  <1>2. CASE ~(pending # NoRequest /\ Prepares)
    <2> UNCHANGED <<graphVars, spent, fileVars, reviewVars, mutated, aborted>>
      BY <1>2 DEF Settle
    <2>1. UNCHANGED rulingVars \/ RulesOut \/ \E cause \in Causes : Rules("block", {}, cause)
      BY <1>2, StaleCauseFact DEF Settle
    <2>2. /\ pending' \in Request /\ terminal' \in {"none"} \cup Causes
          /\ said' \subseteq {"refine", "pivot", "block"}
      <3>1. CASE UNCHANGED rulingVars
        BY <3>1 DEF rulingVars, QualityTypeOK
      <3>2. CASE RulesOut
        BY <3>2 DEF RulesOut, QualityTypeOK, NoRequest, Request, Causes
      <3>3. CASE \E cause \in Causes : Rules("block", {}, cause)
        BY <3>3, RulesFacts DEF Decisions
      <3> QED BY <2>1, <3>1, <3>2, <3>3
    <2>3. /\ phase' \in LoopPhases
          /\ outcome' \in {"none", "proceed", "unproven", "block", "failed", "aborted"}
      BY <1>2 DEF Settle, Ends, GoesOn, Objections, Heard, QualityTypeOK, Decisions, Iterations,
         LoopPhases
    <2> QED BY <2>2, <2>3 DEF QualityTypeOK, graphVars, fileVars, reviewVars
  <1> QED BY <1>1, <1>2

LEMMA TypeStep ==
    ASSUME QualityTypeOK, Affordable, Objections, QualityNext
    PROVE  QualityTypeOK'
  <1>1. ASSUME NEW decision \in Decisions, Explore(decision) PROVE QualityTypeOK'
    BY <1>1, RulesFacts, QualityAssumption DEF Explore, QualityTypeOK, GoesOn, Ends, Closed,
       graphVars, fileVars, reviewVars, LoopPhases, Steps, Decisions, Causes
  <1>2. CASE DirectEnds
    BY <1>2, QualityAssumption DEF DirectEnds, QualityTypeOK, GoesOn, graphVars, rulingVars,
       fileVars, reviewVars, LoopPhases, Steps
  <1>3. ASSUME NEW decision \in Decisions, NEW usable \in BOOLEAN, DirectHook(decision, usable)
        PROVE  QualityTypeOK'
    BY <1>3, RulesFacts, QualityAssumption DEF DirectHook, QualityTypeOK, GoesOn, Closed,
       graphVars, fileVars, LoopPhases, Steps, Decisions, Causes
  <1>4. ASSUME NEW nodes \in Plans, PlanMade(nodes) PROVE QualityTypeOK'
    BY <1>4, QualityAssumption DEF PlanMade, QualityTypeOK, Closed, GoesOn, rulingVars,
       fileVars, reviewVars, LoopPhases, Steps
  <1>5. ASSUME NEW decision \in Decisions, PlanHook(decision) PROVE QualityTypeOK'
    BY <1>5, RulesFacts, QualityAssumption DEF PlanHook, QualityTypeOK, GoesOn, Ends,
       BeginsWave, Closed, reviewVars, LoopPhases, Steps, Decisions, Causes
  <1>6. CASE BlockDependents
    BY <1>6, QualityAssumption DEF BlockDependents, QualityTypeOK, rulingVars, fileVars,
       reviewVars, LoopPhases, Steps
  <1>7. CASE OfferBatch
    BY <1>7, QualityAssumption DEF OfferBatch, QualityTypeOK, rulingVars, fileVars, reviewVars,
       LoopPhases, Steps
  <1>8. ASSUME NEW n \in Nodes, Start(n) PROVE QualityTypeOK'
    BY <1>8, QualityAssumption DEF Start, QualityTypeOK, rulingVars, fileVars, reviewVars,
       LoopPhases, Steps
  <1>9. ASSUME NEW n \in Nodes, NEW decision \in Decisions, Gate(n, decision)
        PROVE  QualityTypeOK'
    BY <1>9, RulesFacts, QualityAssumption DEF Gate, QualityTypeOK, Closed, fileVars,
       reviewVars, LoopPhases, Steps, Decisions, Causes
  <1>10. ASSUME NEW n \in Nodes, Dispatch(n) PROVE QualityTypeOK'
    BY <1>10, QualityAssumption DEF Dispatch, QualityTypeOK, rulingVars, fileVars, reviewVars,
       LoopPhases, Steps
  <1>11. ASSUME NEW n \in Nodes, WorkEnds(n) PROVE QualityTypeOK'
    BY <1>11, QualityAssumption DEF WorkEnds, QualityTypeOK, rulingVars, fileVars, reviewVars,
       LoopPhases, Steps
  <1>12. ASSUME NEW n \in Nodes, NEW decision \in Decisions, After(n, decision)
         PROVE  QualityTypeOK'
    BY <1>12, RulesFacts, QualityAssumption DEF After, QualityTypeOK, Closed, fileVars,
       reviewVars, LoopPhases, Steps, Decisions, Causes
  <1>13. ASSUME NEW n \in Nodes, CloseNode(n) PROVE QualityTypeOK'
    BY <1>13, QualityAssumption DEF CloseNode, QualityTypeOK, RulesOut, Causes, NoRequest,
       Request, fileVars, reviewVars, LoopPhases, Steps
  <1>14. ASSUME NEW n \in Nodes, HookThrows(n) PROVE QualityTypeOK'
    BY <1>14, QualityAssumption DEF HookThrows, QualityTypeOK, rulingVars, fileVars, reviewVars,
       LoopPhases, Steps
  <1>15. CASE WaveEnds
    BY <1>15, QualityAssumption DEF WaveEnds, QualityTypeOK, GoesOn, Ends, graphVars,
       rulingVars, fileVars, reviewVars, LoopPhases, Steps
  <1>16. ASSUME NEW how \in {"passed", "failed", "unproven"}, NEW usable \in BOOLEAN, ChecksEnd(how, usable)
         PROVE  QualityTypeOK'
    <2>1. CASE changed \subseteq Owned(wave) /\ usable
      <3>1. /\ UNCHANGED <<graphVars, rulingVars, gate, spent, changed, strayed, independent, mutated,
                           aborted>>
            /\ GoesOn("review") /\ checks' = how /\ packet' = TRUE /\ since' = {}
        BY <1>16, <2>1 DEF ChecksEnd
      <3> QED BY <3>1 DEF QualityTypeOK, GoesOn, graphVars, rulingVars, LoopPhases
    <2>2. CASE ~(changed \subseteq Owned(wave) /\ usable)
      <3>1. \E cause \in Causes : Rules("block", {}, cause)
        BY <1>16, <2>2 DEF ChecksEnd, Causes
      <3>2. UNCHANGED <<graphVars, spent, changed, strayed, independent, mutated, aborted>>
              /\ GoesOn("settle") /\ gate' = "block" /\ checks' = how /\ packet' = TRUE /\ since' = {}
        BY <1>16, <2>2 DEF ChecksEnd
      <3> QED BY <3>1, <3>2, RulesType DEF QualityTypeOK, GoesOn, graphVars, LoopPhases,
         Decisions
    <2> QED BY <2>1, <2>2
  <1>17. ASSUME NEW v \in Verdicts, Review(v) PROVE QualityTypeOK'
    <2>1. CriticGate(v) \in Decisions
      BY DEF CriticGate, Decisions, Iterations
    <2>2. PICK decision \in Decisions, cause \in Causes : Rules(decision, {}, cause) /\ gate' = decision
      BY <1>17, <2>1, StaleCauseFact DEF Review, Causes, Decisions
    <2>3. independent' \in BOOLEAN
      BY <1>17 DEF Review, Verdicts, QualityTypeOK
    <2>4. UNCHANGED <<graphVars, spent, fileVars, checks, mutated, aborted>> /\ GoesOn("settle")
      BY <1>17 DEF Review
    <2> QED BY <2>2, <2>3, <2>4, RulesFacts DEF QualityTypeOK, GoesOn, graphVars, fileVars,
       LoopPhases
  <1>18. CASE Settle
    BY <1>18, SettleType
  <1>19. CASE Promote
    <2>1. CASE Fresh
      <3>1. /\ UNCHANGED <<graphVars, rulingVars, spent, fileVars, reviewVars, mutated, aborted>>
            /\ GoesOn("complete")
        BY <1>19, <2>1 DEF Promote
      <3> QED BY <3>1 DEF QualityTypeOK, GoesOn, graphVars, rulingVars, fileVars, reviewVars,
         LoopPhases
    <2>2. CASE ~Fresh
      <3>1. \E cause \in Causes : Rules("block", {}, cause)
        BY <1>19, <2>2, StaleCauseFact DEF Promote
      <3>2. Ends("block") /\ UNCHANGED <<graphVars, spent, fileVars, reviewVars, mutated, aborted>>
        BY <1>19, <2>2 DEF Promote
      <3> QED BY <3>1, <3>2, RulesType DEF QualityTypeOK, Ends, graphVars, fileVars, reviewVars,
         LoopPhases, Decisions
    <2> QED BY <2>1, <2>2
  <1>20. ASSUME NEW decision \in Decisions, Complete(decision) PROVE QualityTypeOK'
    <2>1. PICK ruled \in Decisions, cause \in Causes : Rules(ruled, {}, cause)
      BY <1>20, StaleCauseFact DEF Complete, Causes, Decisions
    <2>2. CASE Fresh
      <3>1. Rules(decision, {}, "decision")
        BY <1>20, <2>2 DEF Complete
      <3>2. "decision" \in Causes
        BY DEF Causes
      <3>3. phase' \in LoopPhases /\ outcome' \in {"none", "proceed", "unproven", "block", "failed", "aborted"}
        BY <1>20, <2>2, <3>1, <3>2, RulesFacts DEF Complete, Ends, GoesOn, Heard, Decisions,
           Iterations, LoopPhases, QualityTypeOK
      <3> QED BY <1>20, <2>1, <3>3, RulesFacts DEF Complete, QualityTypeOK, graphVars, fileVars,
         reviewVars
    <2>3. CASE ~Fresh
      BY <1>20, <2>1, <2>3, RulesFacts DEF Complete, Ends, QualityTypeOK, graphVars, fileVars,
         reviewVars, LoopPhases
    <2> QED BY <2>2, <2>3
  <1>21. CASE LoopThrows
    BY <1>21, QualityAssumption DEF LoopThrows, QualityTypeOK, GoesOn, Ends, graphVars,
       rulingVars, fileVars, reviewVars, LoopPhases, Steps
  <1>22. CASE Abort
    BY <1>22, QualityAssumption DEF Abort, QualityTypeOK, GoesOn, Ends, graphVars, rulingVars,
       fileVars, reviewVars, LoopPhases, Steps
  <1>23. ASSUME NEW p \in Paths, Edit(p) PROVE QualityTypeOK'
    BY <1>23, QualityAssumption DEF Edit, QualityTypeOK, Touches, GoesOn, Ends, graphVars,
       rulingVars, fileVars, reviewVars, LoopPhases, Steps
  <1>24. ASSUME NEW n \in Nodes, NEW p \in Paths, Write(n, p) PROVE QualityTypeOK'
    BY <1>24, QualityAssumption DEF Write, QualityTypeOK, Touches, GoesOn, Ends, graphVars,
       rulingVars, fileVars, reviewVars, LoopPhases, Steps
  <1> QED BY <1>1, <1>2, <1>3, <1>4, <1>5, <1>6, <1>7, <1>8, <1>9, <1>10, <1>11, <1>12, <1>13,
     <1>14, <1>15, <1>16, <1>17, <1>18, <1>19, <1>20, <1>21, <1>22, <1>23, <1>24
     DEF QualityNext, Progress, NodeSteps


---------------------------------------------------------------------------
(* The record of what was decided.                                         *)

LEMMA RecordStep ==
    ASSUME QualityTypeOK, Affordable, Objections, QualityNext
    PROVE  Objections' /\ Affordable'
  <1>1. ASSUME NEW decision \in Decisions, Explore(decision) PROVE Objections' /\ Affordable'
    BY <1>1, RulesFacts DEF Explore, Objections, Affordable, Heard, reviewVars, Decisions,
       Causes
  <1>2. CASE DirectEnds
    BY <1>2 DEF DirectEnds, Objections, Affordable, Heard, rulingVars, reviewVars
  <1>3. ASSUME NEW decision \in Decisions, NEW usable \in BOOLEAN, DirectHook(decision, usable)
        PROVE  Objections' /\ Affordable'
    BY <1>3, RulesFacts DEF DirectHook, Objections, Affordable, Heard, Decisions, Causes
  <1>4. ASSUME NEW nodes \in Plans, PlanMade(nodes) PROVE Objections' /\ Affordable'
    BY <1>4 DEF PlanMade, Objections, Affordable, Heard, rulingVars, reviewVars
  <1>5. ASSUME NEW decision \in Decisions, PlanHook(decision) PROVE Objections' /\ Affordable'
    BY <1>5, RulesFacts DEF PlanHook, Objections, Affordable, Heard, reviewVars, Decisions,
       Causes
  <1>6. CASE BlockDependents
    BY <1>6 DEF BlockDependents, Objections, Affordable, Heard, rulingVars, reviewVars
  <1>7. CASE OfferBatch
    BY <1>7 DEF OfferBatch, Objections, Affordable, Heard, rulingVars, reviewVars
  <1>8. ASSUME NEW n \in Nodes, Start(n) PROVE Objections' /\ Affordable'
    BY <1>8 DEF Start, Objections, Affordable, Heard, rulingVars, reviewVars
  <1>9. ASSUME NEW n \in Nodes, NEW decision \in Decisions, Gate(n, decision)
        PROVE  Objections' /\ Affordable'
    BY <1>9, RulesFacts DEF Gate, Objections, Affordable, Heard, reviewVars, Decisions, Causes
  <1>10. ASSUME NEW n \in Nodes, Dispatch(n) PROVE Objections' /\ Affordable'
    BY <1>10 DEF Dispatch, Objections, Affordable, Heard, rulingVars, reviewVars
  <1>11. ASSUME NEW n \in Nodes, WorkEnds(n) PROVE Objections' /\ Affordable'
    BY <1>11 DEF WorkEnds, Objections, Affordable, Heard, rulingVars, reviewVars
  <1>12. ASSUME NEW n \in Nodes, NEW decision \in Decisions, After(n, decision)
         PROVE  Objections' /\ Affordable'
    BY <1>12, RulesFacts DEF After, Objections, Affordable, Heard, reviewVars, Decisions,
       Causes
  <1>13. ASSUME NEW n \in Nodes, CloseNode(n) PROVE Objections' /\ Affordable'
    BY <1>13 DEF CloseNode, RulesOut, Objections, Affordable, Heard, NoRequest, reviewVars
  <1>14. ASSUME NEW n \in Nodes, HookThrows(n) PROVE Objections' /\ Affordable'
    BY <1>14 DEF HookThrows, Objections, Affordable, Heard, rulingVars, reviewVars
  <1>15. CASE WaveEnds
    BY <1>15 DEF WaveEnds, Objections, Affordable, Heard, rulingVars, reviewVars
  <1>16. ASSUME NEW how \in {"passed", "failed", "unproven"}, NEW usable \in BOOLEAN, ChecksEnd(how, usable)
         PROVE  Objections' /\ Affordable'
    <2>1. CASE UNCHANGED <<rulingVars, gate>>
      BY <1>16, <2>1 DEF ChecksEnd, Objections, Affordable, Heard, rulingVars
    <2>2. CASE ~UNCHANGED <<rulingVars, gate>>
      <3>1. PICK cause \in Causes : Rules("block", {}, cause)
        BY <1>16, <2>2 DEF ChecksEnd, Causes
      <3>2. gate' = "block" /\ UNCHANGED spent
        BY <1>16, <2>2 DEF ChecksEnd
      <3> QED BY <3>1, <3>2, RulesFacts DEF Objections, Affordable, Heard, Decisions,
         Iterations
    <2> QED BY <2>1, <2>2
  <1>17. ASSUME NEW v \in Verdicts, Review(v) PROVE Objections' /\ Affordable'
    <2>1. CriticGate(v) \in Decisions
      BY DEF CriticGate, Decisions, Iterations
    <2>2. PICK decision \in Decisions, cause \in Causes : Rules(decision, {}, cause) /\ gate' = decision
      BY <1>17, <2>1, StaleCauseFact DEF Review, Causes, Decisions
    <2>3. UNCHANGED spent
      BY <1>17 DEF Review
    <2> QED BY <2>2, <2>3, RulesFacts DEF Objections, Affordable, Heard
  <1>18. CASE Settle
    <2>1. CASE pending # NoRequest /\ terminal = "none" /\ Prepares
      BY <2>1 DEF Prepares, Objections, Affordable, Heard, NoRequest, Iterations, QualityTypeOK
    <2>2. CASE UNCHANGED <<spent, gate>> /\ UNCHANGED rulingVars
      BY <2>2 DEF Objections, Affordable, Heard, rulingVars
    <2>3. CASE UNCHANGED <<spent, gate>> /\ RulesOut
      BY <2>3 DEF RulesOut, Objections, Affordable, Heard, NoRequest
    <2>4. CASE UNCHANGED <<spent, gate>> /\ Rules("block", {}, StaleCause)
      BY <2>4, StaleCauseFact, RulesFacts DEF Objections, Affordable, Heard, Decisions
    <2> QED BY <1>18, <2>1, <2>2, <2>3, <2>4 DEF Settle, reviewVars
  <1>19. CASE Promote
    <2>1. UNCHANGED <<spent, gate>> /\ (UNCHANGED rulingVars \/ Rules("block", {}, StaleCause))
      BY <1>19 DEF Promote, reviewVars
    <2>2. CASE UNCHANGED rulingVars
      BY <2>1, <2>2 DEF Objections, Affordable, Heard, rulingVars
    <2>3. CASE Rules("block", {}, StaleCause)
      BY <2>1, <2>3, StaleCauseFact, RulesFacts DEF Objections, Affordable, Heard, Decisions
    <2> QED BY <2>1, <2>2, <2>3
  <1>20. ASSUME NEW decision \in Decisions, Complete(decision) PROVE Objections' /\ Affordable'
    <2>1. PICK ruled \in Decisions, cause \in Causes : Rules(ruled, {}, cause)
      BY <1>20, StaleCauseFact DEF Complete, Causes, Decisions
    <2> QED BY <1>20, <2>1, RulesFacts DEF Complete, Objections, Affordable, Heard, reviewVars
  <1>21. CASE LoopThrows
    BY <1>21 DEF LoopThrows, Objections, Affordable, Heard, rulingVars, reviewVars
  <1>22. CASE Abort
    BY <1>22 DEF Abort, Objections, Affordable, Heard, rulingVars, reviewVars
  <1>23. ASSUME NEW p \in Paths, Edit(p) PROVE Objections' /\ Affordable'
    BY <1>23 DEF Edit, Objections, Affordable, Heard, rulingVars, reviewVars
  <1>24. ASSUME NEW n \in Nodes, NEW p \in Paths, Write(n, p) PROVE Objections' /\ Affordable'
    BY <1>24 DEF Write, Objections, Affordable, Heard, rulingVars, reviewVars
  <1> QED BY <1>1, <1>2, <1>3, <1>4, <1>5, <1>6, <1>7, <1>8, <1>9, <1>10, <1>11, <1>12, <1>13,
     <1>14, <1>15, <1>16, <1>17, <1>18, <1>19, <1>20, <1>21, <1>22, <1>23, <1>24
     DEF QualityNext, Progress, NodeSteps

\* The course of the turn.
LEMMA CourseStep ==
    ASSUME QualityTypeOK, Course, QualityNext
    PROVE  Course'
  <1>1. ASSUME NEW decision \in Decisions, Explore(decision) PROVE Course'
    BY <1>1 DEF Explore, Course, GoesOn, Ends, graphVars, LoopPhases, QualityTypeOK
  <1>2. CASE DirectEnds
    BY <1>2 DEF DirectEnds, Course, GoesOn, graphVars, LoopPhases, QualityTypeOK
  <1>3. ASSUME NEW decision \in Decisions, NEW usable \in BOOLEAN, DirectHook(decision, usable)
        PROVE  Course'
    BY <1>3 DEF DirectHook, Course, GoesOn, graphVars, LoopPhases, QualityTypeOK
  <1>4. ASSUME NEW nodes \in Plans, PlanMade(nodes) PROVE Course'
    BY <1>4 DEF PlanMade, Course, GoesOn, LoopPhases, QualityTypeOK
  <1>5. ASSUME NEW decision \in Decisions, PlanHook(decision) PROVE Course'
    BY <1>5 DEF PlanHook, Course, GoesOn, Ends, BeginsWave
  <1>6. CASE BlockDependents
    BY <1>6 DEF BlockDependents, Course, LoopPhases, QualityTypeOK
  <1>7. CASE OfferBatch
    BY <1>7 DEF OfferBatch, Course, LoopPhases, QualityTypeOK
  <1>8. ASSUME NEW n \in Nodes, Start(n) PROVE Course'
    BY <1>8 DEF Start, Course, LoopPhases, QualityTypeOK
  <1>9. ASSUME NEW n \in Nodes, NEW decision \in Decisions, Gate(n, decision) PROVE Course'
    BY <1>9 DEF Gate, Course, LoopPhases, QualityTypeOK
  <1>10. ASSUME NEW n \in Nodes, Dispatch(n) PROVE Course'
    BY <1>10 DEF Dispatch, Course, LoopPhases, QualityTypeOK
  <1>11. ASSUME NEW n \in Nodes, WorkEnds(n) PROVE Course'
    BY <1>11 DEF WorkEnds, Course, LoopPhases, QualityTypeOK
  <1>12. ASSUME NEW n \in Nodes, NEW decision \in Decisions, After(n, decision) PROVE Course'
    BY <1>12 DEF After, Course, LoopPhases, QualityTypeOK
  <1>13. ASSUME NEW n \in Nodes, CloseNode(n) PROVE Course'
    BY <1>13 DEF CloseNode, Course, LoopPhases, QualityTypeOK
  <1>14. ASSUME NEW n \in Nodes, HookThrows(n) PROVE Course'
    BY <1>14 DEF HookThrows, Course, LoopPhases, QualityTypeOK
  <1>15. CASE WaveEnds
    BY <1>15 DEF WaveEnds, Course, GoesOn, Ends, graphVars, LoopPhases, QualityTypeOK
  <1>16. ASSUME NEW how \in {"passed", "failed", "unproven"}, NEW usable \in BOOLEAN, ChecksEnd(how, usable)
         PROVE  Course'
    BY <1>16 DEF ChecksEnd, Course, GoesOn, graphVars, LoopPhases, QualityTypeOK
  <1>17. ASSUME NEW v \in Verdicts, Review(v) PROVE Course'
    BY <1>17 DEF Review, Course, GoesOn, graphVars, LoopPhases, QualityTypeOK
  <1>18. CASE Settle
    <2>1. CASE Prepares
      BY <1>18, <2>1 DEF Settle, Prepares, Course, GoesOn, BeginsWave, QualityTypeOK
    <2>2. CASE ~Prepares
      BY <1>18, <2>2 DEF Settle, Course, GoesOn, Ends, graphVars
    <2> QED BY <2>1, <2>2
  <1>19. CASE Promote
    BY <1>19 DEF Promote, Course, GoesOn, Ends, graphVars, LoopPhases, QualityTypeOK
  <1>20. ASSUME NEW decision \in Decisions, Complete(decision) PROVE Course'
    BY <1>20 DEF Complete, Course, GoesOn, Ends, graphVars, LoopPhases, QualityTypeOK
  <1>21. CASE LoopThrows
    BY <1>21 DEF LoopThrows, Course, Ends, graphVars, LoopPhases, QualityTypeOK
  <1>22. CASE Abort
    BY <1>22 DEF Abort, Course, graphVars, LoopPhases, QualityTypeOK
  <1>23. ASSUME NEW p \in Paths, Edit(p) PROVE Course'
    BY <1>23 DEF Edit, Course, graphVars, LoopPhases, QualityTypeOK
  <1>24. ASSUME NEW n \in Nodes, NEW p \in Paths, Write(n, p) PROVE Course'
    BY <1>24 DEF Write, Course, graphVars, LoopPhases, QualityTypeOK
  <1> QED BY <1>1, <1>2, <1>3, <1>4, <1>5, <1>6, <1>7, <1>8, <1>9, <1>10, <1>11, <1>12, <1>13,
     <1>14, <1>15, <1>16, <1>17, <1>18, <1>19, <1>20, <1>21, <1>22, <1>23, <1>24
     DEF QualityNext, Progress, NodeSteps

---------------------------------------------------------------------------
(* The nodes and their results.                                            *)

LEMMA NodesFact ==
    ASSUME QualityTypeOK
   
    PROVE  plan \subseteq Nodes /\ wave \subseteq plan /\ wave \subseteq Nodes /\ step \in [Nodes -> Steps]
  BY QualityAssumption DEF QualityTypeOK

\* One worker of the wave, which has not failed, goes on to x.
LEMMA OneStep ==
    ASSUME QualityTypeOK, NEW n \in wave, NEW x \in Steps, UNCHANGED wave,
           step[n] \notin {"blocked", "stopped", "thrown"}, step' = [step EXCEPT ![n] = x]
    PROVE  /\ x \notin {"blocked", "stopped", "thrown"} => Failed' = Failed
           /\ SomeThrown \/ x = "thrown" => SomeThrown'
           /\ step'[n] = x
  <1>1. step'[n] = x /\ \A m \in wave : m # n => step'[m] = step[m]
    BY NodesFact
  <1> QED BY <1>1 DEF Failed, SomeThrown

LEMMA FailuresStep ==
    ASSUME QualityTypeOK, Affordable, Objections, Course, FailuresAreHeard, QualityNext
    PROVE  FailuresAreHeard'
  <1>1. ASSUME NEW decision \in Decisions, Explore(decision) PROVE FailuresAreHeard'
    BY <1>1, RulesFacts DEF Explore, FailuresAreHeard, Worked, Failed, SomeThrown, GoesOn, Ends,
       graphVars, Causes, QualityTypeOK
  <1>2. CASE DirectEnds
    BY <1>2 DEF DirectEnds, FailuresAreHeard, Worked, Failed, SomeThrown, Heard, GoesOn,
       graphVars, rulingVars, reviewVars
  <1>3. ASSUME NEW decision \in Decisions, NEW usable \in BOOLEAN, DirectHook(decision, usable)
        PROVE  FailuresAreHeard'
    BY <1>3 DEF DirectHook, FailuresAreHeard, Course, graphVars
  <1>4. ASSUME NEW nodes \in Plans, PlanMade(nodes) PROVE FailuresAreHeard'
    BY <1>4 DEF PlanMade, FailuresAreHeard, Worked, Failed, SomeThrown, Heard, GoesOn,
       rulingVars, reviewVars
  <1>5. ASSUME NEW decision \in Decisions, PlanHook(decision) PROVE FailuresAreHeard'
    <2>1. Heard => Heard'
      BY <1>5, RulesFacts DEF PlanHook, Causes
    <2>2. Failed' = {} \/ Heard' \/ phase' = "ended"
      BY <1>5, NodesFact DEF PlanHook, Failed, BeginsWave, Heard, GoesOn, Ends
    <2> QED BY <2>2 DEF FailuresAreHeard, Worked
  <1>6. CASE BlockDependents
    <2>1. Failed # {}
      BY <1>6 DEF BlockDependents, Doomed
    <2>2. Heard \/ SomeThrown
      BY <1>6, <2>1 DEF BlockDependents, FailuresAreHeard, Worked, Course, QualityTypeOK
    <2>3. \A n \in wave : step[n] = "thrown" => step'[n] = "thrown"
      BY <1>6, NodesFact DEF BlockDependents, Doomed
    <2>4. Heard' = Heard /\ wave' = wave
      BY <1>6 DEF BlockDependents, Heard, rulingVars
    <2> QED BY <2>2, <2>3, <2>4 DEF FailuresAreHeard, SomeThrown
  <1>7. CASE OfferBatch
    <2>1. Failed' = Failed /\ SomeThrown' = SomeThrown
      BY <1>7, NodesFact DEF OfferBatch, Free, Failed, SomeThrown
    <2> QED BY <1>7, <2>1 DEF OfferBatch, FailuresAreHeard, Heard, rulingVars
  <1>8. ASSUME NEW n \in Nodes, Start(n) PROVE FailuresAreHeard'
    <2>1. Heard' = Heard
      BY <1>8 DEF Start, Heard, rulingVars, Causes, QualityTypeOK
    <2>2. PICK x \in {"gate"} : step' = [step EXCEPT ![n] = x]
      BY <1>8 DEF Start
    <2>3. n \in wave /\ step[n] \notin {"blocked", "stopped", "thrown"} /\ wave' = wave
      BY <1>8 DEF Start
    <2> QED BY <1>8, <2>1, <2>2, <2>3, OneStep DEF Start, FailuresAreHeard, Steps
  <1>9. ASSUME NEW n \in Nodes, NEW decision \in Decisions, Gate(n, decision)
        PROVE  FailuresAreHeard'
    <2>1. (Heard => Heard') /\ (step'[n] = "blocked" => Heard')
      BY <1>9, RulesFacts DEF Gate, Heard, Causes, QualityTypeOK
    <2>2. PICK x \in {"closing", "blocked", "context"} : step' = [step EXCEPT ![n] = x]
      BY <1>9 DEF Gate
    <2>3. n \in wave /\ step[n] \notin {"blocked", "stopped", "thrown"} /\ wave' = wave
      BY <1>9 DEF Gate
    <2> QED BY <1>9, <2>1, <2>2, <2>3, OneStep DEF Gate, FailuresAreHeard, Steps
  <1>10. ASSUME NEW n \in Nodes, Dispatch(n) PROVE FailuresAreHeard'
    <2>1. Heard' = Heard
      BY <1>10 DEF Dispatch, Heard, rulingVars, Causes, QualityTypeOK
    <2>2. PICK x \in {"work"} : step' = [step EXCEPT ![n] = x]
      BY <1>10 DEF Dispatch
    <2>3. n \in wave /\ step[n] \notin {"blocked", "stopped", "thrown"} /\ wave' = wave
      BY <1>10 DEF Dispatch
    <2> QED BY <1>10, <2>1, <2>2, <2>3, OneStep DEF Dispatch, FailuresAreHeard, Steps
  <1>11. ASSUME NEW n \in Nodes, WorkEnds(n) PROVE FailuresAreHeard'
    <2>1. Heard' = Heard
      BY <1>11 DEF WorkEnds, Heard, rulingVars, Causes, QualityTypeOK
    <2>2. PICK x \in {"after", "closing"} : step' = [step EXCEPT ![n] = x]
      BY <1>11 DEF WorkEnds
    <2>3. n \in wave /\ step[n] \notin {"blocked", "stopped", "thrown"} /\ wave' = wave
      BY <1>11 DEF WorkEnds
    <2> QED BY <1>11, <2>1, <2>2, <2>3, OneStep DEF WorkEnds, FailuresAreHeard, Steps
  <1>12. ASSUME NEW n \in Nodes, NEW decision \in Decisions, After(n, decision)
         PROVE  FailuresAreHeard'
    <2>1. (Heard => Heard') /\ (step'[n] = "blocked" => Heard')
      BY <1>12, RulesFacts DEF After, Heard, Causes, QualityTypeOK
    <2>2. PICK x \in {"blocked", "completed"} : step' = [step EXCEPT ![n] = x]
      BY <1>12 DEF After
    <2>3. n \in wave /\ step[n] \notin {"blocked", "stopped", "thrown"} /\ wave' = wave
      BY <1>12 DEF After
    <2> QED BY <1>12, <2>1, <2>2, <2>3, OneStep DEF After, FailuresAreHeard, Steps
  <1>13. ASSUME NEW n \in Nodes, CloseNode(n) PROVE FailuresAreHeard'
    <2>1. Heard'
      BY <1>13 DEF CloseNode, Heard, RulesOut, Causes, QualityTypeOK
    <2>2. PICK x \in {"stopped"} : step' = [step EXCEPT ![n] = x]
      BY <1>13 DEF CloseNode
    <2>3. n \in wave /\ step[n] \notin {"blocked", "stopped", "thrown"} /\ wave' = wave
      BY <1>13 DEF CloseNode
    <2> QED BY <1>13, <2>1, <2>2, <2>3, OneStep DEF CloseNode, FailuresAreHeard, Steps
  <1>14. ASSUME NEW n \in Nodes, HookThrows(n) PROVE FailuresAreHeard'
    <2>1. Heard' = Heard
      BY <1>14 DEF HookThrows, Heard, rulingVars, Causes, QualityTypeOK
    <2>2. PICK x \in {"thrown"} : step' = [step EXCEPT ![n] = x]
      BY <1>14 DEF HookThrows
    <2>3. n \in wave /\ step[n] \notin {"blocked", "stopped", "thrown"} /\ wave' = wave
      BY <1>14 DEF HookThrows
    <2> QED BY <1>14, <2>1, <2>2, <2>3, OneStep DEF HookThrows, FailuresAreHeard, Steps
  <1>15. CASE WaveEnds
    BY <1>15 DEF WaveEnds, FailuresAreHeard, Worked, Failed, SomeThrown, Heard, GoesOn, Ends,
       graphVars, rulingVars, reviewVars
  <1>16. ASSUME NEW how \in {"passed", "failed", "unproven"}, NEW usable \in BOOLEAN, ChecksEnd(how, usable)
         PROVE  FailuresAreHeard'
    <2>1. Heard => Heard'
      <3>1. CASE UNCHANGED rulingVars
        BY <3>1 DEF Heard, rulingVars
      <3>2. CASE \E cause \in Causes : Rules("block", {}, cause)
        BY <3>2, RulesFacts DEF Decisions
      <3> QED BY <1>16, <3>1, <3>2 DEF ChecksEnd, Causes
    <2> QED BY <1>16, <2>1 DEF ChecksEnd, FailuresAreHeard, Worked, Failed, SomeThrown,
       graphVars
  <1>17. ASSUME NEW v \in Verdicts, Review(v) PROVE FailuresAreHeard'
    <2>1. CriticGate(v) \in Decisions
      BY DEF CriticGate, Decisions, Iterations
    <2>2. PICK decision \in Decisions, cause \in Causes : Rules(decision, {}, cause)
      BY <1>17, <2>1, StaleCauseFact DEF Review, Causes, Decisions
    <2>3. Heard => Heard'
      BY <2>2, RulesFacts
    <2> QED BY <1>17, <2>3 DEF Review, FailuresAreHeard, Worked, Failed, SomeThrown, graphVars
  <1>18. CASE Settle
    <2>1. CASE Prepares
      <3>1. phase' \in Worked => intent = "graph" /\ pending.kind = "refine"
        BY <2>1 DEF Prepares, GoesOn, Worked
      <3>2. phase' \in Worked => Failed' = {}
        BY <2>1, <3>1, SelectedFacts, NodesFact DEF Prepares, BeginsWave, Failed
      <3> QED BY <3>2 DEF FailuresAreHeard
    <2>2. CASE ~Prepares
      BY <1>18, <2>2 DEF Settle, FailuresAreHeard, Worked, Failed, SomeThrown, Heard, GoesOn,
         Ends, graphVars, rulingVars
    <2> QED BY <2>1, <2>2
  <1>19. CASE Promote
    BY <1>19 DEF Promote, FailuresAreHeard, Worked, Failed, SomeThrown, Heard, GoesOn, Ends,
       graphVars, rulingVars
  <1>20. ASSUME NEW decision \in Decisions, Complete(decision) PROVE FailuresAreHeard'
    <2>1. PICK ruled \in Decisions, cause \in Causes : Rules(ruled, {}, cause)
      BY <1>20, StaleCauseFact DEF Complete, Causes, Decisions
    <2>2. Heard => Heard'
      BY <2>1, RulesFacts
    <2> QED BY <1>20, <2>2 DEF Complete, FailuresAreHeard, Worked, Failed, SomeThrown,
       graphVars
  <1>21. CASE LoopThrows
    BY <1>21 DEF LoopThrows, FailuresAreHeard, Worked, Failed, SomeThrown, Heard, Ends,
       graphVars, rulingVars, reviewVars
  <1>22. CASE Abort
    BY <1>22 DEF Abort, FailuresAreHeard, Worked, Failed, SomeThrown, Heard, graphVars,
       rulingVars, reviewVars
  <1>23. ASSUME NEW p \in Paths, Edit(p) PROVE FailuresAreHeard'
    BY <1>23 DEF Edit, FailuresAreHeard, Worked, Failed, SomeThrown, Heard, graphVars,
       rulingVars, reviewVars
  <1>24. ASSUME NEW n \in Nodes, NEW p \in Paths, Write(n, p) PROVE FailuresAreHeard'
    BY <1>24 DEF Write, FailuresAreHeard, Worked, Failed, SomeThrown, Heard, graphVars,
       rulingVars, reviewVars
  <1> QED BY <1>1, <1>2, <1>3, <1>4, <1>5, <1>6, <1>7, <1>8, <1>9, <1>10, <1>11, <1>12, <1>13,
     <1>14, <1>15, <1>16, <1>17, <1>18, <1>19, <1>20, <1>21, <1>22, <1>23, <1>24
     DEF QualityNext, Progress, NodeSteps

LEMMA ResultsStep ==
    ASSUME QualityTypeOK, Results, Copies, WaveResults, QualityNext
    PROVE  Results' /\ Copies' /\ WaveResults'
  <1>1. ASSUME NEW decision \in Decisions, Explore(decision)
        PROVE  Results' /\ Copies' /\ WaveResults'
    BY <1>1 DEF Explore, Results, Copies, WaveResults, GoesOn, Ends, graphVars
  <1>2. CASE DirectEnds
    BY <1>2 DEF DirectEnds, Results, Copies, WaveResults, GoesOn, graphVars
  <1>3. ASSUME NEW decision \in Decisions, NEW usable \in BOOLEAN, DirectHook(decision, usable)
        PROVE  Results' /\ Copies' /\ WaveResults'
    BY <1>3 DEF DirectHook, Results, Copies, WaveResults, GoesOn, graphVars
  <1>4. ASSUME NEW nodes \in Plans, PlanMade(nodes) PROVE Results' /\ Copies' /\ WaveResults'
    BY <1>4 DEF PlanMade, Results, Copies, WaveResults, GoesOn
  <1>5. ASSUME NEW decision \in Decisions, PlanHook(decision)
        PROVE  Results' /\ Copies' /\ WaveResults'
    <2>1. completed \subseteq artifacts /\ \A n \in Nodes : seen[n] = {}
      BY <1>5 DEF PlanHook, Results, Copies
    <2>2. completed' \subseteq completed /\ UNCHANGED <<artifacts, seen, plan>>
      BY <1>5 DEF PlanHook, BeginsWave
    <2>3. phase' = "work" => wave' = plan /\ step' = [n \in Nodes |-> "waiting"]
      BY <1>5 DEF PlanHook, BeginsWave, GoesOn, Ends
    <2> QED BY <2>1, <2>2, <2>3, NodesFact DEF Results, Copies, WaveResults
  <1>6. CASE BlockDependents
    <2>1. /\ phase = "work" /\ UNCHANGED <<phase, plan, wave, seen, artifacts>>
          /\ completed' \subseteq completed
      BY <1>6 DEF BlockDependents
    <2>2. \A n \in wave : step'[n] # step[n] => step[n] = "waiting" /\ step'[n] = "blocked"
      <3>1. step' = [n \in Nodes |-> IF n \in Doomed THEN "blocked" ELSE step[n]]
        BY <1>6 DEF BlockDependents
      <3>2. \A n \in Doomed : step[n] = "waiting"
        BY DEF Doomed
      <3>3. \A n \in Nodes : step'[n] = IF n \in Doomed THEN "blocked" ELSE step[n]
        BY <3>1
      <3> QED BY <3>2, <3>3, NodesFact
    <2> QED BY <2>1, <2>2 DEF Results, Copies, WaveResults
  <1>7. CASE OfferBatch
    <2>1. /\ phase = "work" /\ UNCHANGED <<phase, plan, wave, seen, artifacts>>
          /\ completed' \subseteq completed
      BY <1>7 DEF OfferBatch
    <2>2. \A n \in wave : step'[n] # step[n] => step[n] = "waiting" /\ step'[n] = "ready"
      <3>1. step' = [n \in Nodes |-> IF n \in Free THEN "ready" ELSE step[n]]
        BY <1>7 DEF OfferBatch
      <3>2. \A n \in Free : step[n] = "waiting"
        BY DEF Free
      <3>3. \A n \in Nodes : step'[n] = IF n \in Free THEN "ready" ELSE step[n]
        BY <3>1
      <3> QED BY <3>2, <3>3, NodesFact
    <2> QED BY <2>1, <2>2 DEF Results, Copies, WaveResults
  <1>8. ASSUME NEW n \in Nodes, Start(n) PROVE Results' /\ Copies' /\ WaveResults'
    <2>1. /\ phase = "work" /\ n \in wave /\ UNCHANGED <<phase, plan, wave>>
          /\ artifacts \subseteq artifacts' /\ completed' \subseteq artifacts'
          /\ \A m \in Nodes : m # n => seen'[m] = seen[m] /\ step'[m] = step[m]
      BY <1>8, NodesFact DEF Start, Results, Copies, WaveResults, QualityTypeOK
    <2>2. seen'[n] \subseteq artifacts' /\ step'[n] = "gate"
      BY <1>8, NodesFact DEF Start, Results, Copies, WaveResults, QualityTypeOK
    <2> QED BY <2>1, <2>2, NodesFact DEF Results, Copies, WaveResults
  <1>9. ASSUME NEW n \in Nodes, NEW decision \in Decisions, Gate(n, decision)
        PROVE  Results' /\ Copies' /\ WaveResults'
    <2>1. /\ phase = "work" /\ n \in wave /\ UNCHANGED <<phase, plan, wave>>
          /\ artifacts \subseteq artifacts' /\ completed' \subseteq artifacts'
          /\ \A m \in Nodes : m # n => seen'[m] = seen[m] /\ step'[m] = step[m]
      BY <1>9, NodesFact DEF Gate, Results, Copies, WaveResults, QualityTypeOK
    <2>2. seen'[n] = {} /\ step'[n] \notin {"after", "completed"}
      BY <1>9, NodesFact DEF Gate, Results, Copies, WaveResults, QualityTypeOK
    <2> QED BY <2>1, <2>2, NodesFact DEF Results, Copies, WaveResults
  <1>10. ASSUME NEW n \in Nodes, Dispatch(n) PROVE Results' /\ Copies' /\ WaveResults'
    <2>1. /\ phase = "work" /\ n \in wave /\ UNCHANGED <<phase, plan, wave>>
          /\ artifacts \subseteq artifacts' /\ completed' \subseteq artifacts'
          /\ \A m \in Nodes : m # n => seen'[m] = seen[m] /\ step'[m] = step[m]
      BY <1>10, NodesFact DEF Dispatch, Results, Copies, WaveResults, QualityTypeOK
    <2>2. seen'[n] = {} /\ step'[n] \notin {"after", "completed"}
      BY <1>10, NodesFact DEF Dispatch, Results, Copies, WaveResults, QualityTypeOK
    <2> QED BY <2>1, <2>2, NodesFact DEF Results, Copies, WaveResults
  <1>11. ASSUME NEW n \in Nodes, WorkEnds(n) PROVE Results' /\ Copies' /\ WaveResults'
    <2>1. /\ phase = "work" /\ n \in wave /\ UNCHANGED <<phase, plan, wave>>
          /\ artifacts \subseteq artifacts' /\ completed' \subseteq artifacts'
          /\ \A m \in Nodes : m # n => seen'[m] = seen[m] /\ step'[m] = step[m]
      BY <1>11, NodesFact DEF WorkEnds, Results, Copies, WaveResults, QualityTypeOK
    <2>2. seen'[n] = {} /\ (step'[n] \in {"after", "completed"} => n \in artifacts')
      BY <1>11, NodesFact DEF WorkEnds, Results, Copies, WaveResults, QualityTypeOK
    <2> QED BY <2>1, <2>2, NodesFact DEF Results, Copies, WaveResults
  <1>12. ASSUME NEW n \in Nodes, NEW decision \in Decisions, After(n, decision)
         PROVE  Results' /\ Copies' /\ WaveResults'
    <2>1. /\ phase = "work" /\ n \in wave /\ UNCHANGED <<phase, plan, wave>>
          /\ artifacts \subseteq artifacts' /\ completed' \subseteq artifacts'
          /\ \A m \in Nodes : m # n => seen'[m] = seen[m] /\ step'[m] = step[m]
      BY <1>12, NodesFact DEF After, Results, Copies, WaveResults, QualityTypeOK
    <2>2. seen'[n] = {} /\ (step'[n] \in {"after", "completed"} => n \in artifacts')
      BY <1>12, NodesFact DEF After, Results, Copies, WaveResults, QualityTypeOK
    <2> QED BY <2>1, <2>2, NodesFact DEF Results, Copies, WaveResults
  <1>13. ASSUME NEW n \in Nodes, CloseNode(n) PROVE Results' /\ Copies' /\ WaveResults'
    <2>1. /\ phase = "work" /\ n \in wave /\ UNCHANGED <<phase, plan, wave>>
          /\ artifacts \subseteq artifacts' /\ completed' \subseteq artifacts'
          /\ \A m \in Nodes : m # n => seen'[m] = seen[m] /\ step'[m] = step[m]
      BY <1>13, NodesFact DEF CloseNode, Results, Copies, WaveResults, QualityTypeOK
    <2>2. seen'[n] = {} /\ step'[n] \notin {"after", "completed"}
      BY <1>13, NodesFact DEF CloseNode, Results, Copies, WaveResults, QualityTypeOK
    <2> QED BY <2>1, <2>2, NodesFact DEF Results, Copies, WaveResults
  <1>14. ASSUME NEW n \in Nodes, HookThrows(n) PROVE Results' /\ Copies' /\ WaveResults'
    <2>1. /\ phase = "work" /\ n \in wave /\ UNCHANGED <<phase, plan, wave>>
          /\ artifacts \subseteq artifacts' /\ completed' \subseteq artifacts'
          /\ \A m \in Nodes : m # n => seen'[m] = seen[m] /\ step'[m] = step[m]
      BY <1>14, NodesFact DEF HookThrows, Results, Copies, WaveResults, QualityTypeOK
    <2>2. seen'[n] = {} /\ step'[n] \notin {"after", "completed"}
      BY <1>14, NodesFact DEF HookThrows, Results, Copies, WaveResults, QualityTypeOK
    <2> QED BY <2>1, <2>2, NodesFact DEF Results, Copies, WaveResults
  <1>15. CASE WaveEnds
    BY <1>15 DEF WaveEnds, SettledNodes, Results, Copies, WaveResults, GoesOn, Ends, graphVars
  <1>16. ASSUME NEW how \in {"passed", "failed", "unproven"}, NEW usable \in BOOLEAN, ChecksEnd(how, usable)
         PROVE  Results' /\ Copies' /\ WaveResults'
    BY <1>16 DEF ChecksEnd, Results, Copies, WaveResults, GoesOn, graphVars
  <1>17. ASSUME NEW v \in Verdicts, Review(v) PROVE Results' /\ Copies' /\ WaveResults'
    BY <1>17 DEF Review, Results, Copies, WaveResults, GoesOn, graphVars
  <1>18. CASE Settle
    <2>1. completed \subseteq artifacts /\ \A n \in Nodes : seen[n] = {}
      BY <1>18 DEF Settle, Results, Copies
    <2>2. CASE Prepares /\ pending.kind = "refine" /\ intent = "graph"
      <3>1. /\ wave' = Selected /\ completed' = completed \ Selected /\ artifacts' = artifacts \ Selected
            /\ phase' = "work" /\ step' = [n \in Nodes |-> "waiting"] /\ UNCHANGED <<plan, seen>>
        BY <2>2 DEF Prepares, BeginsWave, GoesOn
      <3>2. \A n \in Selected : step'[n] = "waiting"
        BY <3>1, SelectedFacts, NodesFact
      <3> QED BY <2>1, <3>1, <3>2, SelectedFacts DEF Results, Copies, WaveResults
    <2>3. CASE Prepares /\ ~(pending.kind = "refine" /\ intent = "graph")
      BY <2>1, <2>3 DEF Prepares, GoesOn, Results, Copies, WaveResults
    <2>4. CASE ~Prepares
      BY <1>18, <2>1, <2>4 DEF Settle, Results, Copies, WaveResults, GoesOn, Ends, graphVars
    <2> QED BY <2>2, <2>3, <2>4
  <1>19. CASE Promote
    BY <1>19 DEF Promote, Results, Copies, WaveResults, GoesOn, Ends, graphVars
  <1>20. ASSUME NEW decision \in Decisions, Complete(decision)
         PROVE  Results' /\ Copies' /\ WaveResults'
    BY <1>20 DEF Complete, Results, Copies, WaveResults, GoesOn, Ends, graphVars
  <1>21. CASE LoopThrows
    BY <1>21 DEF LoopThrows, Results, Copies, WaveResults, Ends, graphVars
  <1>22. CASE Abort
    BY <1>22 DEF Abort, Results, Copies, WaveResults, graphVars
  <1>23. ASSUME NEW p \in Paths, Edit(p) PROVE Results' /\ Copies' /\ WaveResults'
    BY <1>23 DEF Edit, Results, Copies, WaveResults, graphVars
  <1>24. ASSUME NEW n \in Nodes, NEW p \in Paths, Write(n, p)
         PROVE  Results' /\ Copies' /\ WaveResults'
    BY <1>24 DEF Write, Results, Copies, WaveResults, graphVars
  <1> QED BY <1>1, <1>2, <1>3, <1>4, <1>5, <1>6, <1>7, <1>8, <1>9, <1>10, <1>11, <1>12, <1>13,
     <1>14, <1>15, <1>16, <1>17, <1>18, <1>19, <1>20, <1>21, <1>22, <1>23, <1>24
     DEF QualityNext, Progress, NodeSteps


---------------------------------------------------------------------------
(* Review, completion and the end.                                         *)

\* While workers are at work nothing has been reviewed.
LEMMA ReviewFrame ==
    ASSUME Approvals, phase = "work", UNCHANGED <<phase, packet>>
    PROVE  Approvals'
  BY DEF Approvals

LEMMA ApprovalsStep ==
    ASSUME QualityTypeOK, Affordable, Objections, Course, FailuresAreHeard, WaveResults, Approvals,
           QualityNext
    PROVE  Approvals'
  <1>1. ASSUME NEW decision \in Decisions, Explore(decision) PROVE Approvals'
    BY <1>1 DEF Explore, Approvals, Covered, Clean, Approved, Course, GoesOn, Ends, graphVars,
       fileVars, reviewVars, QualityTypeOK
  <1>2. CASE DirectEnds
    BY <1>2 DEF DirectEnds, Approvals, Covered, Clean, Approved, Heard, SomeThrown, GoesOn,
       graphVars, fileVars, reviewVars, rulingVars
  <1>3. ASSUME NEW decision \in Decisions, NEW usable \in BOOLEAN, DirectHook(decision, usable)
        PROVE  Approvals'
    <2>1. mutated => terminal' # "none"
      BY <1>3, RulesFacts DEF DirectHook, Decisions, Causes
    <2>2. intent = "direct" /\ phase' = "settle"
      BY <1>3 DEF DirectHook, Course, GoesOn
    <2> QED BY <1>3, <2>1, <2>2 DEF DirectHook, Approvals, Covered, Clean, Approved, graphVars,
       fileVars
  <1>4. ASSUME NEW nodes \in Plans, PlanMade(nodes) PROVE Approvals'
    BY <1>4 DEF PlanMade, Approvals, Covered, Clean, Approved, Heard, SomeThrown, GoesOn,
       fileVars, reviewVars, rulingVars
  <1>5. ASSUME NEW decision \in Decisions, PlanHook(decision) PROVE Approvals'
    <2>1. ~packet' /\ intent = "graph" /\ phase' \in {"ended", "settle", "work"}
      BY <1>5 DEF PlanHook, Approvals, Course, GoesOn, Ends, BeginsWave, QualityTypeOK
    <2>2. phase' = "settle" => Heard'
      BY <1>5 DEF PlanHook, Heard, GoesOn, Ends, BeginsWave
    <2> QED BY <1>5, <2>1, <2>2 DEF PlanHook, Approvals
  <1>6. CASE BlockDependents
    BY <1>6, ReviewFrame DEF BlockDependents, fileVars
  <1>7. CASE OfferBatch
    BY <1>7, ReviewFrame DEF OfferBatch, fileVars
  <1>8. ASSUME NEW n \in Nodes, Start(n) PROVE Approvals'
    BY <1>8, ReviewFrame DEF Start, fileVars
  <1>9. ASSUME NEW n \in Nodes, NEW decision \in Decisions, Gate(n, decision) PROVE Approvals'
    BY <1>9, ReviewFrame DEF Gate, fileVars
  <1>10. ASSUME NEW n \in Nodes, Dispatch(n) PROVE Approvals'
    BY <1>10, ReviewFrame DEF Dispatch, fileVars
  <1>11. ASSUME NEW n \in Nodes, WorkEnds(n) PROVE Approvals'
    BY <1>11, ReviewFrame DEF WorkEnds, fileVars
  <1>12. ASSUME NEW n \in Nodes, NEW decision \in Decisions, After(n, decision) PROVE Approvals'
    BY <1>12, ReviewFrame DEF After, fileVars
  <1>13. ASSUME NEW n \in Nodes, CloseNode(n) PROVE Approvals'
    BY <1>13, ReviewFrame DEF CloseNode, fileVars
  <1>14. ASSUME NEW n \in Nodes, HookThrows(n) PROVE Approvals'
    BY <1>14, ReviewFrame DEF HookThrows, fileVars
  <1>15. CASE WaveEnds
    <2>1. ~packet /\ intent = "graph"
      BY <1>15 DEF WaveEnds, Approvals, Course, QualityTypeOK
    <2>2. CASE terminal = "none" /\ pending = NoRequest /\ Failed = {}
      <3>1. \A n \in wave : step[n] = "completed"
        BY <1>15, <2>2 DEF WaveEnds, SettledNodes, Failed
      <3>2. Covered
        BY <1>15, <3>1 DEF WaveEnds, WaveResults, Covered
      <3>3. phase' \in {"checks", "ended"}
        BY <1>15, <2>2 DEF WaveEnds, GoesOn, Ends
      <3> QED BY <1>15, <2>1, <3>2, <3>3 DEF WaveEnds, Approvals, Covered, graphVars, fileVars
    <2>3. CASE ~(terminal = "none" /\ pending = NoRequest /\ Failed = {})
      <3>1. Heard \/ SomeThrown
        BY <1>15, <2>1, <2>3 DEF WaveEnds, FailuresAreHeard, Worked, Heard
      <3>2. phase' = "settle"
        BY <1>15, <2>3 DEF WaveEnds, GoesOn
      <3> QED BY <1>15, <2>1, <3>1, <3>2 DEF WaveEnds, Approvals, Heard, SomeThrown, graphVars,
         fileVars, rulingVars
    <2> QED BY <2>2, <2>3
  <1>16. ASSUME NEW how \in {"passed", "failed", "unproven"}, NEW usable \in BOOLEAN, ChecksEnd(how, usable)
         PROVE  Approvals'
    <2>1. \/ phase' = "review" /\ changed \subseteq Owned(wave)
          \/ phase' = "settle" /\ gate' = "block"
      BY <1>16 DEF ChecksEnd, GoesOn
    <2>2. intent # "direct" /\ Covered /\ Covered' = Covered /\ packet' /\ checks' # "none"
            /\ UNCHANGED <<intent, wave, changed>>
      BY <1>16 DEF ChecksEnd, Course, Approvals, Covered, graphVars
    <2> QED BY <2>1, <2>2 DEF Approvals, Clean
  <1>17. ASSUME NEW v \in Verdicts, Review(v) PROVE Approvals'
    <2>1. /\ phase' = "settle" /\ intent' # "direct" /\ packet /\ Covered /\ Clean /\ checks # "none"
          /\ UNCHANGED <<graphVars, fileVars, checks, mutated>>
      BY <1>17 DEF Review, GoesOn, Course, Approvals, Clean, graphVars
    <2>2. CASE gate' = "proceed"
      <3>1. gate' = CriticGate(v) /\ independent' = v.independent
        BY <1>17, <2>2 DEF Review
      <3>2. checks = "passed" /\ v.independent
        <4>1. v.independent \in BOOLEAN /\ checks \in {"passed", "failed", "unproven"}
          BY <1>17, <2>1 DEF Verdicts, QualityTypeOK
        <4> QED BY <2>2, <3>1, <4>1 DEF CriticGate, Iterations
      <3>3. Approved'
        BY <2>1, <3>1, <3>2 DEF Approved, Covered, Clean, graphVars, fileVars
      <3> QED BY <2>1, <3>3 DEF Approvals
    <2>3. CASE gate' # "proceed"
      BY <2>1, <2>3 DEF Approvals
    <2> QED BY <2>2, <2>3
  <1>18. CASE Settle
    <2>1. CASE Prepares
      BY <2>1 DEF Prepares, Approvals, GoesOn, BeginsWave
    <2>2. CASE ~Prepares
      <3>1. phase' # "ended" =>
              phase' = "promote" /\ intent = "graph" /\ gate = "proceed" /\ ~Heard /\ ~SomeThrown
        BY <1>18, <2>2 DEF Settle, GoesOn, Ends, Heard, SomeThrown
      <3>2. UNCHANGED <<graphVars, fileVars, reviewVars>>
        BY <1>18, <2>2 DEF Settle
      <3>3. phase' = "promote" => Approved
        BY <1>18, <3>1 DEF Settle, Approvals
      <3> QED BY <3>1, <3>2, <3>3 DEF Approvals, Approved, Covered, Clean, graphVars, fileVars,
         reviewVars
    <2> QED BY <2>1, <2>2
  <1>19. CASE Promote
    <2>1. /\ phase' \in {"complete", "ended"} /\ Approved
          /\ UNCHANGED <<graphVars, fileVars, reviewVars>>
      BY <1>19 DEF Promote, GoesOn, Ends, Approvals
    <2> QED BY <2>1 DEF Approvals, Approved, Covered, Clean, graphVars, fileVars, reviewVars
  <1>20. ASSUME NEW decision \in Decisions, Complete(decision) PROVE Approvals'
    <2>1. /\ Approved /\ intent # "direct"
          /\ UNCHANGED <<graphVars, fileVars, reviewVars>>
      BY <1>20 DEF Complete, Approvals, Course
    <2>2. phase' = "ended" \/ phase' = "settle"
      BY <1>20 DEF Complete, GoesOn, Ends
    <2> QED BY <2>1, <2>2 DEF Approvals, Approved, Covered, Clean, graphVars, fileVars,
       reviewVars
  <1>21. CASE LoopThrows
    BY <1>21 DEF LoopThrows, Approvals, Ends, fileVars
  <1>22. CASE Abort
    BY <1>22 DEF Abort, Approvals, Covered, Clean, Approved, Heard, SomeThrown, graphVars,
       fileVars, reviewVars, rulingVars
  <1>23. ASSUME NEW p \in Paths, Edit(p) PROVE Approvals'
    <2>1. /\ UNCHANGED <<phase, graphVars, rulingVars, packet, reviewVars, mutated>>
          /\ packet => UNCHANGED changed
      BY <1>23 DEF Edit, Touches
    <2>2. UNCHANGED <<Heard, SomeThrown, Covered>> /\ (Clean => Clean')
      BY <2>1 DEF Heard, SomeThrown, Covered, Clean, graphVars, rulingVars
    <2> QED BY <2>1, <2>2 DEF Approvals, Approved, graphVars, rulingVars, reviewVars
  <1>24. ASSUME NEW n \in Nodes, NEW p \in Paths, Write(n, p) PROVE Approvals'
    BY <1>24, ReviewFrame DEF Write
  <1> QED BY <1>1, <1>2, <1>3, <1>4, <1>5, <1>6, <1>7, <1>8, <1>9, <1>10, <1>11, <1>12, <1>13,
     <1>14, <1>15, <1>16, <1>17, <1>18, <1>19, <1>20, <1>21, <1>22, <1>23, <1>24
     DEF QualityNext, Progress, NodeSteps

\* How a turn ends well: as a direct one, or without approval, or after the last comparison of
\* the files.
LEMMA EndStep ==
    ASSUME QualityInv, QualityNext, outcome' \in {"proceed", "unproven"}
    PROVE  ProceedIsReviewed' /\ ObjectionsCount'
  <1>1. outcome = "none"
    BY DEF QualityInv, Course, QualityNext, Progress, NodeSteps, Explore, DirectEnds,
       DirectHook, PlanMade, PlanHook, BlockDependents, OfferBatch, Start, Gate, Dispatch,
       WorkEnds, After, CloseNode, HookThrows, WaveEnds, ChecksEnd, Review, Settle, Promote,
       Complete, LoopThrows, Abort, Edit, Write
  <1>2. Settle \/ \E decision \in Decisions : Complete(decision)
    BY <1>1 DEF QualityNext, Progress, NodeSteps, Explore, DirectEnds, DirectHook, PlanMade,
       PlanHook, BlockDependents, OfferBatch, Start, Gate, Dispatch, WorkEnds, After, CloseNode,
       HookThrows, WaveEnds, ChecksEnd, Review, Promote, LoopThrows, Abort, Edit, Write, GoesOn,
       Ends, BeginsWave
  <1>3. CASE Settle
    <2>1. ~Prepares
      BY <1>1, <1>3 DEF Prepares, GoesOn, BeginsWave
    <2>2. /\ phase = "settle" /\ ~Heard /\ (intent = "direct" \/ gate # "proceed") /\ outcome' = gate
          /\ UNCHANGED <<graphVars, rulingVars, mutated>>
      BY <1>1, <1>3, <2>1 DEF Settle, Ends, GoesOn, Heard
    <2>3. said = {} /\ (intent = "direct" => ~mutated)
      BY <2>2 DEF QualityInv, Objections, Approvals, Heard
    <2> QED BY <2>2, <2>3 DEF ProceedIsReviewed, ObjectionsCount, graphVars, rulingVars
  <1>4. ASSUME NEW decision \in Decisions, Complete(decision)
        PROVE  ProceedIsReviewed' /\ ObjectionsCount'
    <2>1. /\ phase = "complete" /\ Fresh /\ Rules(decision, {}, "decision") /\ ~Heard'
          /\ UNCHANGED <<graphVars, fileVars, reviewVars>>
      BY <1>1, <1>4 DEF Complete, Ends, GoesOn, Heard
    <2>2. said' = {}
      BY <2>1, RulesFacts DEF QualityInv, Causes
    <2>3. Approved /\ since = {} /\ Owned(plan) = Owned(wave) /\ intent # "direct" /\ plan \in Plans
      BY <2>1 DEF QualityInv, Approvals, Course, Fresh, QualityTypeOK
    <2>4. plan # {}
      BY <2>3, QualityAssumption
    <2> QED BY <2>1, <2>2, <2>3, <2>4 DEF ProceedIsReviewed, ObjectionsCount, Approved, Covered,
       Clean, graphVars, fileVars, reviewVars
  <1> QED BY <1>2, <1>3, <1>4

---------------------------------------------------------------------------
(* The theorems.                                                           *)

LEMMA InvInit == QualityInit => QualityInv
  <1> SUFFICES ASSUME QualityInit PROVE QualityInv
    OBVIOUS
  <1>1. QualityTypeOK
    <2>1. spent \in [Iterations -> Nat] /\ \A k \in Iterations : spent[k] <= Limit[k]
      BY QualityAssumption DEF QualityInit
    <2>2. pending \in Request /\ phase \in LoopPhases /\ gate \in Decisions /\ step \in [Nodes -> Steps]
      BY DEF QualityInit, NoRequest, Request, LoopPhases, Decisions, Steps
    <2> QED BY <2>1, <2>2 DEF QualityInit, QualityTypeOK, Closed
  <1>2. Objections /\ Affordable /\ Course
    BY DEF QualityInit, Objections, Affordable, Course, NoRequest, Iterations
  <1>3. FailuresAreHeard /\ Results /\ Copies /\ WaveResults /\ Approvals
    BY DEF QualityInit, FailuresAreHeard, Worked, Results, Copies, WaveResults, Approvals
  <1>4. ProceedIsReviewed /\ ObjectionsCount
    BY DEF QualityInit, ProceedIsReviewed, ObjectionsCount
  <1> QED BY <1>1, <1>2, <1>3, <1>4 DEF QualityInv

LEMMA InvStep == QualityInv /\ [QualityNext]_qualityVars => QualityInv'
  <1> SUFFICES ASSUME QualityInv, [QualityNext]_qualityVars PROVE QualityInv'
    OBVIOUS
  <1>1. CASE QualityNext
    <2>1. QualityTypeOK' /\ Objections' /\ Affordable' /\ Course'
      BY <1>1, TypeStep, RecordStep, CourseStep DEF QualityInv
    <2>2. FailuresAreHeard' /\ Results' /\ Copies' /\ WaveResults' /\ Approvals'
      BY <1>1, FailuresStep, ResultsStep, ApprovalsStep DEF QualityInv
    <2>3. ProceedIsReviewed' /\ ObjectionsCount'
      BY <1>1, EndStep DEF ProceedIsReviewed, ObjectionsCount
    <2> QED BY <2>1, <2>2, <2>3 DEF QualityInv
  <1>2. CASE UNCHANGED qualityVars
    BY <1>2 DEF qualityVars, graphVars, rulingVars, fileVars, reviewVars, QualityInv,
       QualityTypeOK, Objections, Affordable, Course, FailuresAreHeard, Results, Copies,
       WaveResults, Approvals, ProceedIsReviewed, ObjectionsCount, Heard, Failed, SomeThrown,
       Approved, Covered, Clean
  <1> QED BY <1>1, <1>2

\* The invariant holds of every state of a turn.
THEOREM TurnInvariant == QualitySpec => []QualityInv
  BY InvInit, InvStep, PTL DEF QualitySpec

\* The state of a turn is well-formed; no more refinements and pivots are spent than the limits
\* allow (prepareNextQualityIteration, recordQualityDecision).
THEOREM QualityTypeCorrect == QualitySpec => []QualityTypeOK
  BY TurnInvariant, PTL DEF QualityInv

\* A turn that proceeds has been reviewed as it is and as a whole, whatever the plan, the files,
\* the number of workers and the limits: a direct one changed nothing, and of a graph every node
\* has a result, the checks passed, an independent critic approved, and no file was written since.
THEOREM WhatProceedsIsReviewed == QualitySpec => []ProceedIsReviewed
  BY TurnInvariant, PTL DEF QualityInv

\* No objection of a hook, of the critic or of a failed node is lost: where one is on record, the
\* turn does not end as proceeding or unproven.
THEOREM NoObjectionIsLost == QualitySpec => []ObjectionsCount
  BY TurnInvariant, PTL DEF QualityInv

=============================================================================
