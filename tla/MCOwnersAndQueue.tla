--------------------------- MODULE MCOwnersAndQueue ---------------------------
(***************************************************************************)
(* Small instances of two things that outlive the processes around them,   *)
(* and share no state in the models: the election of the runtime owner,    *)
(* and the queue of follow-ups of a session.  A behaviour is one of `part`.*)
(***************************************************************************)
EXTENDS OwnerElection, MCFollowUpQueue

CONSTANTS c1, c2, c3, o1, o2

MCThreeClients == {c1, c2, c3}
MCTwoOwners == {o1, o2}

VARIABLE part

bothVars == <<electionVars, queueVars, part>>

\* What stays at rest starts in one way only.
BothInit ==
    /\ part \in {"election", "queue"} /\ ElectionInit /\ QueueInit
    /\ IF part = "election" THEN events = 0 ELSE lock = None

BothNext ==
    /\ UNCHANGED part
    /\ \/ part = "election" /\ ElectionNext /\ UNCHANGED queueVars
       \/ part = "queue" /\ QueueNext /\ UNCHANGED electionVars

\* Nothing has to happen in an election or a queue at rest, so the fairness of the one says
\* nothing of the other.
BothSpec == BothInit /\ [][BothNext]_bothVars /\ ElectionFairness /\ QueueFairness
=============================================================================
