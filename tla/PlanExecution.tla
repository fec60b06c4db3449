----------------------------- MODULE PlanExecution -----------------------------
(***************************************************************************)
(* What the execution of an accepted plan promises, without scheduler,     *)
(* waves, workers, file claims, permits, mailboxes or a shared agent.      *)
(*                                                                         *)
(* A task begins once at most, when all it depends on was judged           *)
(* completed and the plan was not stopped.  It spends provider turns only  *)
(* while no task that writes one of its files does, and ends once.  Its    *)
(* record is closed once, with its end at the latest if it began.  The     *)
(* plan is told of each task once: how it ended, or that it failed, or     *)
(* that it is blocked because something it needs did.                      *)
(***************************************************************************)
CONSTANTS Tasks, DependsOn, WritePaths

VARIABLES
    begun,      \* the tasks that were started
    writing,    \* those of them that are in a provider turn
    outcome,    \* of each task: how its run ended, or "none"
    closed,     \* the tasks with a terminal record
    verdict,    \* what the plan was told of each task
    stopped     \* nothing begins any more

planVars == <<begun, writing, outcome, closed, verdict, stopped>>

Endings == {"completed", "failed", "cancelled"}

PlanInit ==
    /\ begun = {} /\ writing = {} /\ closed = {} /\ stopped = FALSE
    /\ outcome = [t \in Tasks |-> "none"]
    /\ verdict = [t \in Tasks |-> "none"]

Fresh(t) == t \notin begun /\ outcome[t] = "none"

MayBegin(t) ==
    /\ Fresh(t) /\ t \notin closed /\ ~stopped
    /\ \A d \in DependsOn[t] : verdict[d] = "completed"

\* Started in a turn that was aborted meanwhile, a task ends with its start.
Begin(t) ==
    /\ MayBegin(t)
    /\ begun' = begun \cup {t}
    /\ \/ UNCHANGED <<outcome, closed>>
       \/ outcome' = [outcome EXCEPT ![t] = "cancelled"] /\ closed' = closed \cup {t}
    /\ UNCHANGED <<writing, verdict, stopped>>

Turn(t) ==
    /\ t \in begun /\ t \notin closed /\ t \notin writing
    /\ \A u \in writing : WritePaths[t] \cap WritePaths[u] = {}
    /\ writing' = writing \cup {t}
    /\ UNCHANGED <<begun, outcome, closed, verdict, stopped>>

\* A task completes from a provider turn only.
End(t) ==
    /\ t \in begun /\ t \notin closed
    /\ \E how \in Endings :
          /\ how = "completed" => t \in writing
          /\ outcome' = [outcome EXCEPT ![t] = how]
    /\ writing' = writing \ {t} /\ closed' = closed \cup {t}
    /\ UNCHANGED <<begun, verdict, stopped>>

\* A task ends that was never started, and its record is closed.
Refuse(t) ==
    /\ Fresh(t)
    /\ \E how \in {"failed", "cancelled"} : outcome' = [outcome EXCEPT ![t] = how]
    /\ closed' = closed \cup {t}
    /\ UNCHANGED <<begun, writing, verdict, stopped>>

\* It fails before the run controller has heard of it, which closes no record.
Lose(t) ==
    /\ Fresh(t)
    /\ outcome' = [outcome EXCEPT ![t] = "failed"]
    /\ UNCHANGED <<begun, writing, closed, verdict, stopped>>

\* The plan is told how a task ended, or that it failed since a pause could not be kept.
Judge(t) ==
    /\ verdict[t] = "none" /\ outcome[t] # "none"
    /\ \E told \in {outcome[t], "failed"} : verdict' = [verdict EXCEPT ![t] = told]
    /\ UNCHANGED <<begun, writing, outcome, closed, stopped>>

Block(t) ==
    /\ verdict[t] = "none" /\ Fresh(t)
    /\ \E d \in DependsOn[t] : verdict[d] \in {"failed", "cancelled", "blocked"}
    /\ verdict' = [verdict EXCEPT ![t] = "blocked"]
    /\ closed' = closed \cup {t}
    /\ UNCHANGED <<begun, writing, outcome, stopped>>

\* Everything that has not begun is withdrawn.
Stop ==
    /\ ~stopped
    /\ stopped' = TRUE
    /\ closed' = closed \cup (Tasks \ begun)
    /\ UNCHANGED <<begun, writing, outcome, verdict>>

PlanNext ==
    \/ \E t \in Tasks :
          \/ Begin(t) \/ Turn(t) \/ End(t)
          \/ Refuse(t) \/ Lose(t) \/ Judge(t) \/ Block(t)
    \/ Stop

PlanSpec == PlanInit /\ [][PlanNext]_planVars
=============================================================================
