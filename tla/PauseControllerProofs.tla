------------------------ MODULE PauseControllerProofs ------------------------
(***************************************************************************)
(* What holds of the cooperative pause controller and of the turns that    *)
(* run through it, for any number of flows, turns, pauses and operations:  *)
(* the state is well-formed, an interrupted turn stays interrupted, and,   *)
(* as long as no turn began while an earlier pause was being written, a    *)
(* paused turn is at rest and operations belong to the turn that is active. *)
(*                                                                         *)
(* The inductive invariant has two parts.  Always: later turns have not    *)
(* begun, and a turn whose main flow is over has no other flow (Order,     *)
(* Waits, Awaited).  Until a turn was overtaken (Calm): the pause under way is the *)
(* one the snapshot tells of, an active turn is the current one, and what  *)
(* waits for a pause belongs to the turn that it pauses.                   *)
(***************************************************************************)
EXTENDS PauseController, TLAPS

\* The main flow of the current turn is not yet finishing.
Under == {"ready", "operating", "before_operation", "after_operation", "between_nodes"}
UnderWay == epoch # 0 /\ flow[epoch][Main].phase \in Under
IsActive == snapshot.state \in Active

\* Turns begin in the order of their numbers, and their flows end with the main one.
Order ==
    /\ \A t \in Turns : t > epoch => \A w \in Flows : flow[t][w] = NoFlow
    /\ \A w \in Flows : epoch # 0 /\ flow[epoch][w].phase # "off" /\ w # Main => UnderWay
    /\ UnderWay => busy
    /\ busy => epoch + 1 \in Turns
    /\ snapshot.turn <= epoch

\* A turn that waits for the drain has not begun, and was not cancelled.
Waits ==
    waiting # 0 =>
        /\ waiting = epoch /\ busy
        /\ \A w \in Flows : flow[waiting][w] = NoFlow
        /\ snapshot.state = "cancelled" => snapshot.turn < waiting

\* Flows await transitions, and these are of turns that have begun.
Awaited ==
    /\ \A t \in Turns, w \in Flows :
           /\ flow[t][w].on <= Len(transitions)
           /\ flow[t][w].phase \in {"off", "ready", "operating"} => flow[t][w].on = 0
    /\ \A i \in 1..Len(transitions) :
           transitions[i].turn <= epoch /\ transitions[i].boundary # "none"

\* The pause under way is the one that the snapshot tells of.
OnePause ==
    /\ transition # 0 =>
           /\ ~transitions[transition].gate
           /\ \/ transitions[transition].phase = "persisting" /\ snapshot.state = "pause_pending"
              \/ transitions[transition].phase = "suspended" /\ snapshot.state = "paused"
    /\ \A i \in 1..Len(transitions) :
           transitions[i].phase = "persisting" => i = transition \/ snapshot.state = "cancelled"

\* A turn that is under way is active, and a pause under way is its own.
OwnTurn ==
    UnderWay =>
        /\ IsActive /\ snapshot.turn = epoch
        /\ transition # 0 => transitions[transition].turn = epoch

\* Operations, and flows that will begin one after the pause, are of the current turn.
OwnFlows ==
    \A t \in Turns, w \in Flows :
        /\ IsActive /\ flow[t][w].phase = "operating" => t = epoch
        /\ transition # 0 /\ flow[t][w].on = transition =>
               /\ flow[t][w].phase = "before_operation" => t = epoch
               /\ flow[t][w].phase = "before_completion" => ~UnderWay

Quiet ==
    transition # 0 /\ transitions[transition].boundary # "before_approval" => Operating = {}

Calm == ~overtaken => OnePause /\ OwnTurn /\ OwnFlows /\ Quiet

PauseInv == PauseTypeOK /\ Order /\ Waits /\ Awaited /\ Calm

---------------------------------------------------------------------------
(* The state is well-formed.                                               *)

\* What the type says of the parts of the state that the actions look into.
LEMMA TypeFacts ==
    ASSUME PauseTypeOK
    PROVE  /\ Main \in Flows /\ epoch \in Nat /\ (epoch # 0 => epoch \in Turns)
           /\ Turns \subseteq Nat \ {0}
           /\ Len(transitions) \in Nat /\ transition \in Nat /\ transition <= Len(transitions)
           /\ \A i \in 1..Len(transitions) : transitions[i] \in Transition
           /\ Len(acks) \in Nat /\ ack \in 0..Len(acks)
           /\ \A i \in 1..Len(acks) : acks[i] \in Ack
           /\ flow \in [Turns -> [Flows -> Flow]]
           /\ \A t \in Turns, w \in Flows : flow[t][w] \in Flow
           /\ \A t \in Turns, w \in Flows : flow[t][w].on \in Nat
           /\ \A i \in 1..Len(transitions) : transitions[i].turn \in Nat
           /\ snapshot.turn \in Nat /\ busy \in BOOLEAN
           /\ snapshot \in PauseSnapshot /\ waiting \in Turns \cup {0}
  <1>1. Turns \subseteq Nat \ {0}
    BY PauseAssumption DEF Turns
  <1>2. \A t \in Turns, w \in Flows : flow[t][w] \in Flow
    BY DEF PauseTypeOK
  <1>3. \A i \in 1..Len(transitions) : transitions[i] \in Transition
    BY DEF PauseTypeOK
  <1>4. \A t \in Turns, w \in Flows : flow[t][w].on \in Nat
    BY <1>2 DEF Flow
  <1>5. \A i \in 1..Len(transitions) : transitions[i].turn \in Nat
    BY <1>1, <1>3 DEF Transition
  <1>6. snapshot.turn \in Nat
    BY <1>1 DEF PauseTypeOK, PauseSnapshot
  <1> QED BY <1>1, <1>2, <1>3, <1>4, <1>5, <1>6, PauseAssumption DEF PauseTypeOK

LEMMA NewTransitionFacts ==
    ASSUME PauseTypeOK, NEW t \in Turns, NEW b \in Boundaries, NewTransition(t, b)
    PROVE  /\ transitions' \in Seq(Transition) /\ Len(transitions') = Len(transitions) + 1
           /\ transition' = Len(transitions') /\ transition' \in Nat \ {0}
           /\ transition' \in 0..Len(transitions')
           /\ transitions'[transition'] =
                  [turn |-> t, boundary |-> b, phase |-> "persisting", gate |-> FALSE]
           /\ \A i \in 1..Len(transitions) : transitions'[i] = transitions[i]
           /\ \A i \in 1..Len(transitions') : i \in 1..Len(transitions) \/ i = transition'
  <1> DEFINE new == [turn |-> t, boundary |-> b, phase |-> "persisting", gate |-> FALSE]
  <1>1. new \in Transition
    BY DEF Transition
  <1>2. transitions \in Seq(Transition) /\ transitions' = Append(transitions, new)
          /\ transition' = Len(transitions) + 1
    BY DEF NewTransition, PauseTypeOK
  <1> HIDE DEF new
  <1>3. transitions' \in Seq(Transition) /\ Len(transitions') = Len(transitions) + 1
          /\ transitions'[Len(transitions) + 1] = new /\ Len(transitions) \in Nat
          /\ \A i \in 1..Len(transitions) : transitions'[i] = transitions[i]
    BY <1>1, <1>2
  <1> QED BY <1>2, <1>3 DEF new

\* A transition is changed in place.
LEMMA ChangedTransition ==
    ASSUME PauseTypeOK, NEW i \in 1..Len(transitions), NEW tr \in Transition,
           transitions' = [transitions EXCEPT ![i] = tr]
    PROVE  /\ transitions' \in Seq(Transition) /\ Len(transitions') = Len(transitions)
           /\ \A j \in 1..Len(transitions) : transitions'[j] = IF j = i THEN tr ELSE transitions[j]
  BY DEF PauseTypeOK

LEMMA SettledFacts ==
    ASSUME PauseTypeOK, ack # 0, NEW status \in {"resolved", "rejected"}, NEW t \in Turns \cup {0}
    PROVE  Settled(status, t) \in Seq(Ack) /\ Len(Settled(status, t)) = Len(acks)
  BY DEF PauseTypeOK, Settled, Ack

LEMMA ReleasedType ==
    ASSUME PauseTypeOK, NEW i, NEW passed \in BOOLEAN
    PROVE  Released(i, passed) \in [Turns -> [Flows -> Flow]]
  BY TypeFacts DEF Released, Flow, NoFlow, Idle, Phases

LEMMA CheckpointType ==
    ASSUME PauseTypeOK, NEW t \in Turns, NEW w \in Flows, NEW b \in Boundaries, NEW others,
           NEW pass \in Phases, NEW wait \in Phases, Checkpoint(t, w, b, others, pass, wait)
    PROVE  /\ transitions' \in Seq(Transition) /\ transition' \in 0..Len(transitions')
           /\ flow' \in [Turns -> [Flows -> Flow]]
  <1>1. CASE UNCHANGED <<transitions, transition>>
    <2>1. \E f \in Flow : flow' = [flow EXCEPT ![t][w] = f]
      <3>1. NoFlow \in Flow /\ Idle \in Flow /\ [phase |-> wait, on |-> transition] \in Flow
              /\ [phase |-> wait, on |-> transition'] \in Flow /\ [phase |-> pass, on |-> 0] \in Flow
        BY <1>1, TypeFacts DEF Flow, NoFlow, Idle, Phases
      <3> QED BY <3>1 DEF Checkpoint
    <2> QED BY <1>1, <2>1 DEF PauseTypeOK
  <1>2. CASE NewTransition(t, b) /\ flow' = [flow EXCEPT ![t][w] = [phase |-> wait, on |-> transition']]
    <2>1. transition' \in Nat /\ [phase |-> wait, on |-> transition'] \in Flow
      BY <1>2, NewTransitionFacts DEF Flow
    <2>2. flow' \in [Turns -> [Flows -> Flow]]
      BY <1>2, <2>1, TypeFacts
    <2> QED BY <1>2, <2>2, NewTransitionFacts
  <1> QED BY <1>1, <1>2 DEF Checkpoint

LEMMA CloseType ==
    ASSUME PauseTypeOK, NEW t \in Turns, NEW b \in BOOLEAN, Close(t, b)
    PROVE  /\ transitions' \in Seq(Transition) /\ transition' \in 0..Len(transitions')
           /\ flow' \in [Turns -> [Flows -> Flow]] /\ busy' \in BOOLEAN
           /\ snapshot' \in PauseSnapshot
           /\ (snapshot'.state = "paused") = (snapshot'.boundary # "none")
  <1>1. Main \in Flows /\ "before_completion" \in Boundaries /\ "off" \in Phases
          /\ "before_completion" \in Phases
    BY PauseAssumption DEF Boundaries, Phases
  <1>2. Checkpoint(t, Main, "before_completion", Operating, "off", "before_completion")
    BY DEF Close
  <1>3. /\ transitions' \in Seq(Transition) /\ transition' \in 0..Len(transitions')
        /\ flow' \in [Turns -> [Flows -> Flow]]
    BY <1>1, <1>2, CheckpointType
  <1>4. busy' \in BOOLEAN /\ snapshot' \in {snapshot, Completed(snapshot)}
    BY DEF Close
  <1> QED BY <1>3, <1>4 DEF PauseTypeOK, Completed, PauseSnapshot, States

LEMMA ClaimType ==
    ASSUME PauseTypeOK, NEW t \in Turns, ClaimedByFlow(t)
    PROVE  /\ snapshot' \in PauseSnapshot
           /\ (snapshot'.state = "paused") = (snapshot'.boundary # "none")
           /\ ack' \in 0..Len(acks) /\ transition' \in 0..Len(transitions)
           /\ flow' \in [Turns -> [Flows -> Flow]] /\ overtaken' \in BOOLEAN
  <1>1. [flow[t][Main] EXCEPT !.phase = "ready"] \in Flow
    BY TypeFacts DEF Flow, Phases
  <1>2. flow' = [flow EXCEPT ![t][Main] = [flow[t][Main] EXCEPT !.phase = "ready"]]
    BY TypeFacts DEF ClaimedByFlow
  <1>3. flow' \in [Turns -> [Flows -> Flow]]
    BY <1>1, <1>2, TypeFacts
  <1>4. /\ snapshot' \in PauseSnapshot
        /\ (snapshot'.state = "paused") = (snapshot'.boundary # "none")
    BY DEF ClaimedByFlow, Running, PauseSnapshot, States, Boundaries
  <1> QED BY <1>3, <1>4, TypeFacts DEF ClaimedByFlow, PauseTypeOK

LEMMA PersistType ==
    ASSUME PauseTypeOK, Awaited, NEW i \in 1..Len(transitions), NEW ok \in BOOLEAN, PersistSettles(i, ok)
    PROVE  PauseTypeOK'
  <1> DEFINE tr == transitions[i]
  <1>1. tr \in Transition /\ tr.turn \in Turns /\ tr.boundary \in Boundaries \ {"none"}
    BY TypeFacts DEF Awaited, Transition
  <1>2. PICK phase \in {"suspended", "ended"} : transitions' = [transitions EXCEPT ![i].phase = phase]
    BY DEF PersistSettles
  <1>3. [tr EXCEPT !.phase = phase] \in Transition
    BY <1>1 DEF Transition
  <1>4. transitions' \in Seq(Transition) /\ Len(transitions') = Len(transitions)
    BY <1>2, <1>3, ChangedTransition
  <1>5. transition' \in 0..Len(transitions') /\ ack' \in 0..Len(acks)
    <2>1. transition' \in {0, transition} /\ ack' \in {0, ack}
      BY DEF PersistSettles
    <2> QED BY <1>4, <2>1, TypeFacts
  <1>6. acks' \in Seq(Ack) /\ Len(acks') = Len(acks)
    <2>1. \/ UNCHANGED acks
          \/ ack # 0 /\ \E status \in {"resolved", "rejected"} : acks' = Settled(status, tr.turn)
      BY DEF PersistSettles
    <2> QED BY <1>1, <2>1, SettledFacts DEF PauseTypeOK
  <1>7. flow' \in [Turns -> [Flows -> Flow]]
    <2>1. flow' = flow \/ \E passed \in BOOLEAN : flow' = Released(i, passed)
      BY DEF PersistSettles
    <2> QED BY <2>1, ReleasedType, TypeFacts
  <1>8. snapshot' \in PauseSnapshot /\ (snapshot'.state = "paused") = (snapshot'.boundary # "none")
    <2>1. \/ UNCHANGED snapshot
          \/ snapshot' = [state |-> "paused", turn |-> tr.turn, boundary |-> tr.boundary]
          \/ snapshot' \in {Running(tr.turn), Completed(Running(tr.turn))}
      BY DEF PersistSettles
    <2> QED BY <1>1, <2>1 DEF PauseTypeOK, PauseSnapshot, Running, Completed, States,
       Boundaries
  <1>9. durable' \subseteq Turns /\ UNCHANGED <<busy, epoch, waiting, overtaken>>
    BY <1>1 DEF PersistSettles, PauseTypeOK
  <1> QED BY <1>4, <1>5, <1>6, <1>7, <1>8, <1>9 DEF PauseTypeOK

LEMMA ResumeType ==
    ASSUME PauseTypeOK, ResumeTurn
    PROVE  PauseTypeOK'
  <1>1. transition \in 1..Len(transitions)
    BY TypeFacts DEF ResumeTurn
  <1>2. [transitions[transition] EXCEPT !.phase = "ended", !.gate = TRUE] \in Transition
    BY <1>1, TypeFacts DEF Transition
  <1>3. transitions' = [transitions EXCEPT ![transition] =
                            [transitions[transition] EXCEPT !.phase = "ended", !.gate = TRUE]]
    BY <1>1 DEF ResumeTurn, PauseTypeOK
  <1>4. transitions' \in Seq(Transition)
    BY <1>1, <1>2, <1>3, ChangedTransition
  <1>5. snapshot' \in PauseSnapshot /\ (snapshot'.state = "paused") = (snapshot'.boundary # "none")
    BY DEF ResumeTurn, PauseTypeOK, PauseSnapshot, Running, Completed, States, Boundaries
  <1>6. flow' \in [Turns -> [Flows -> Flow]]
    BY ReleasedType DEF ResumeTurn
  <1>7. /\ transition' = 0 /\ ack' = 0 /\ busy' \in BOOLEAN
        /\ UNCHANGED <<acks, epoch, waiting, durable, overtaken>>
    BY DEF ResumeTurn
  <1>8. 0 \in 0..Len(transitions') /\ 0 \in 0..Len(acks)
    BY <1>4, TypeFacts
  <1> QED BY <1>4, <1>5, <1>6, <1>7, <1>8 DEF PauseTypeOK

LEMMA InterruptType ==
    ASSUME PauseTypeOK, Order, InterruptTurn
    PROVE  PauseTypeOK'
  <1>1. /\ transitions' \in Seq(Transition) /\ Len(transitions') = Len(transitions)
        /\ transition' \in 0..Len(transitions)
    <2>1. CASE UNCHANGED transitions
      <3>1. transition' \in {0, transition} /\ transitions \in Seq(Transition)
        BY DEF InterruptTurn, PauseTypeOK
      <3> QED BY <2>1, <3>1, TypeFacts
    <2>2. CASE ~UNCHANGED transitions
      <3>1. transition \in 1..Len(transitions) /\ transition' = 0
        <4>1. transition # 0 /\ transition' = 0
          BY <2>2 DEF InterruptTurn
        <4> QED BY <4>1, TypeFacts
      <3>2. PICK tr \in Transition : transitions' = [transitions EXCEPT ![transition] = tr]
        <4>1. /\ [transitions[transition] EXCEPT !.phase = "ended"] \in Transition
              /\ [transitions[transition] EXCEPT !.gate = TRUE] \in Transition
          BY <3>1, TypeFacts DEF Transition
        <4> QED BY <2>2, <3>1, <4>1 DEF InterruptTurn, PauseTypeOK
      <3>3. transitions' \in Seq(Transition) /\ Len(transitions') = Len(transitions)
        BY <3>1, <3>2, ChangedTransition
      <3> QED BY <3>1, <3>3, TypeFacts
    <2> QED BY <2>1, <2>2
  <1>2. acks' \in Seq(Ack) /\ Len(acks') = Len(acks) /\ ack' \in 0..Len(acks)
    <2>1. snapshot.turn \in Turns \cup {0}
      BY DEF PauseTypeOK, PauseSnapshot
    <2>2. UNCHANGED acks \/ (ack # 0 /\ acks' = Settled("rejected", snapshot.turn))
      BY DEF InterruptTurn
    <2>3. ack' \in {0, ack}
      BY DEF InterruptTurn
    <2> QED BY <2>1, <2>2, <2>3, SettledFacts, TypeFacts DEF PauseTypeOK
  <1>3. snapshot' \in PauseSnapshot /\ (snapshot'.state = "paused") = (snapshot'.boundary # "none")
    BY DEF InterruptTurn, PauseTypeOK, PauseSnapshot, States, Boundaries, Active
  <1>4. flow' \in [Turns -> [Flows -> Flow]]
    <2>1. flow' = flow \/ flow' = Released(transition, FALSE)
      BY DEF InterruptTurn
    <2> QED BY <2>1, ReleasedType, TypeFacts
  <1>5. /\ epoch' \in Turns /\ busy' = FALSE /\ waiting' = 0
        /\ UNCHANGED <<durable, overtaken>>
    BY DEF InterruptTurn, Order
  <1> QED BY <1>1, <1>2, <1>3, <1>4, <1>5 DEF PauseTypeOK

LEMMA TypeStep ==
    ASSUME PauseTypeOK, Order, Awaited, PauseNext
    PROVE  PauseTypeOK'
  <1>1. ASSUME NEW t \in Turns, NEW w \in Flows, StartOperation(t, w) PROVE PauseTypeOK'
    BY <1>1, CheckpointType, TypeFacts DEF StartOperation, PauseTypeOK, PauseSnapshot, Phases,
       Boundaries
  <1>2. ASSUME NEW t \in Turns, NEW w \in Flows, BetweenNodes(t, w) PROVE PauseTypeOK'
    BY <1>2, CheckpointType, TypeFacts DEF BetweenNodes, PauseTypeOK, PauseSnapshot, Phases,
       Boundaries
  <1>3. ASSUME NEW t \in Turns, NEW w \in Flows, Fork(t, w) PROVE PauseTypeOK'
    <2>1. [flow[t][w] EXCEPT !.phase = "ready"] \in Flow
      BY <1>3, TypeFacts DEF Flow, Phases
    <2>2. flow' = [flow EXCEPT ![t][w] = [flow[t][w] EXCEPT !.phase = "ready"]]
      BY <1>3, TypeFacts DEF Fork
    <2>3. flow' \in [Turns -> [Flows -> Flow]]
      BY <2>1, <2>2, TypeFacts
    <2> QED BY <1>3, <2>3 DEF Fork, PauseTypeOK
  <1>4. ASSUME NEW t \in Turns, NEW w \in Flows, EndOperation(t, w) PROVE PauseTypeOK'
    BY <1>4, CheckpointType, TypeFacts DEF EndOperation, PauseTypeOK, PauseSnapshot, Phases,
       Boundaries
  <1>5. ASSUME NEW t \in Turns, NEW w \in Flows, LeaveFlow(t, w) PROVE PauseTypeOK'
    BY <1>5, TypeFacts DEF LeaveFlow, PauseTypeOK, Flow, NoFlow, Phases, PauseSnapshot, States,
       Boundaries
  <1>6. ASSUME NEW t \in Turns, Finish(t) PROVE PauseTypeOK'
    BY <1>6, CloseType, TypeFacts DEF Finish, PauseTypeOK
  <1>7. ASSUME NEW i \in 1..Len(transitions), NEW ok \in BOOLEAN, PersistSettles(i, ok)
        PROVE  PauseTypeOK'
    BY <1>7, PersistType
  <1>8. ASSUME NEW deciding \in BOOLEAN, RequestPause(deciding) PROVE PauseTypeOK'
    <2>1. /\ snapshot' \in PauseSnapshot
          /\ (snapshot'.state = "paused") = (snapshot'.boundary # "none")
      BY <1>8 DEF RequestPause, PauseTypeOK, PauseSnapshot, States
    <2>2. acks' \in Seq(Ack) /\ ack' \in 0..Len(acks')
      <3>1. CASE ack = 0
        <4> DEFINE new == [status |-> "waiting", turn |-> snapshot.turn]
        <4>1. new \in Ack /\ acks \in Seq(Ack)
          BY DEF Ack, PauseTypeOK, PauseSnapshot
        <4>2. acks' = Append(acks, new) /\ ack' = Len(acks) + 1
          BY <1>8, <3>1 DEF RequestPause
        <4> HIDE DEF new
        <4> QED BY <4>1, <4>2
      <3>2. CASE ack # 0
        BY <1>8, <3>2 DEF RequestPause, PauseTypeOK
      <3> QED BY <3>1, <3>2
    <2>3. transitions' \in Seq(Transition) /\ transition' \in 0..Len(transitions')
      <3>1. CASE NewTransition(epoch, "before_approval")
        <4>1. epoch \in Turns
          BY <1>8, TypeFacts DEF RequestPause, Order, PauseSnapshot
        <4> QED BY <3>1, <4>1, NewTransitionFacts DEF Boundaries
      <3>2. CASE UNCHANGED <<transitions, transition>>
        BY <3>2 DEF PauseTypeOK
      <3> QED BY <1>8, <3>1, <3>2 DEF RequestPause
    <2> QED BY <1>8, <2>1, <2>2, <2>3 DEF RequestPause, PauseTypeOK
  <1>9. CASE ResumeTurn
    BY <1>9, ResumeType
  <1>10. CASE InterruptTurn
    BY <1>10, InterruptType
  <1>11. CASE SubmitTurn
    <2> epoch + 1 \in Turns /\ epoch' = epoch + 1
      BY <1>11, TypeFacts, PauseAssumption DEF SubmitTurn, Turns
    <2>1. CASE IsActive /\ Close(epoch', TRUE)
      BY <1>11, <2>1, CloseType, TypeFacts DEF SubmitTurn, PauseTypeOK, IsActive
    <2>2. CASE ~IsActive
      <3>1. CASE waiting' = epoch' /\ UNCHANGED <<snapshot, ack, transitions, transition, flow, overtaken>>
        BY <1>11, <2>2, <3>1 DEF SubmitTurn, PauseTypeOK, IsActive
      <3>2. CASE ClaimedByFlow(epoch') /\ UNCHANGED <<waiting, transitions>>
        BY <1>11, <2>2, <3>2, ClaimType DEF SubmitTurn, PauseTypeOK, IsActive
      <3> QED BY <1>11, <2>2, <3>1, <3>2 DEF SubmitTurn, IsActive
    <2> QED BY <1>11, <2>1, <2>2 DEF SubmitTurn, IsActive
  <1>12. CASE Begin
    BY <1>12, ClaimType DEF Begin, PauseTypeOK
  <1> QED BY <1>1, <1>2, <1>3, <1>4, <1>5, <1>6, <1>7, <1>8, <1>9, <1>10, <1>11, <1>12
     DEF PauseNext, FlowStep


---------------------------------------------------------------------------
(* What the parts of the actions do to flows and transitions.              *)

\* A checkpoint moves its flow, and makes a transition at the most.
Moved(t, w, b, pass, wait) ==
    /\ \A u \in Turns, x \in Flows : u # t \/ x # w => flow'[u][x] = flow[u][x]
    /\ \/ flow'[t][w].phase \in {pass, "ready", "off"} /\ flow'[t][w].on = 0
       \/ flow'[t][w] = [phase |-> wait, on |-> transition']
    /\ flow'[t][w].phase = "off" => pass = "off" \/ wait \in {"off", "before_completion"}
    /\ flow'[t][w].phase = "ready" => pass = "ready" \/ wait # "before_completion"
    /\ UNCHANGED <<transitions, transition>> \/ NewTransition(t, b)

LEMMA CheckpointEffect ==
    ASSUME PauseTypeOK, NEW t \in Turns, NEW w \in Flows, NEW b \in Boundaries, NEW others,
           NEW pass \in Phases, NEW wait \in Phases, Checkpoint(t, w, b, others, pass, wait)
    PROVE  Moved(t, w, b, pass, wait)
  <1>1. PICK f : flow' = [flow EXCEPT ![t][w] = f]
    BY DEF Checkpoint
  <1>2. flow'[t][w] = f /\ \A u \in Turns, x \in Flows : u # t \/ x # w => flow'[u][x] = flow[u][x]
    BY <1>1, TypeFacts
  <1>3. CASE Throws /\ UNCHANGED <<transitions, transition>>
               /\ flow' = [flow EXCEPT ![t][w] = IF wait = "before_completion" THEN NoFlow ELSE Idle]
    BY <1>2, <1>3, TypeFacts DEF NoFlow, Idle, Moved
  <1>4. CASE /\ UNCHANGED <<transitions, transition>>
             /\ flow' = [flow EXCEPT ![t][w] = [phase |-> wait, on |-> transition]]
    BY <1>2, <1>4, TypeFacts DEF Moved
  <1>5. CASE /\ NewTransition(t, b)
             /\ flow' = [flow EXCEPT ![t][w] = [phase |-> wait, on |-> transition']]
    BY <1>2, <1>5, TypeFacts DEF Moved
  <1>6. CASE /\ UNCHANGED <<transitions, transition>>
             /\ flow' = [flow EXCEPT ![t][w] = [phase |-> pass, on |-> 0]]
    BY <1>2, <1>6, TypeFacts DEF Moved
  <1> QED BY <1>3, <1>4, <1>5, <1>6 DEF Checkpoint

\* A released flow goes on.
LEMMA ReleasedEffect ==
    ASSUME PauseTypeOK, Awaited, NEW i \in 1..Len(transitions), NEW passed \in BOOLEAN,
           NEW t \in Turns, NEW w \in Flows
    PROVE  LET f == flow[t][w]
               r == Released(i, passed)[t][w]
           IN  /\ f = NoFlow => r = NoFlow
               /\ f.on # i => r = f
               /\ f.on = i => r.on = 0
               /\ f.on = i /\ f.phase = "before_completion" => r.phase = "off"
               /\ f.on = i /\ f.phase # "before_completion" =>
                      r.phase = IF f.phase = "before_operation" /\ passed THEN "operating" ELSE "ready"
               /\ f.phase \in Under <=> r.phase \in Under
               /\ f.phase = "off" => r.phase = "off"
  <1>1. flow[t][w] \in Flow /\ i # 0
    BY TypeFacts
  <1>2. Released(i, passed)[t][w] =
            IF flow[t][w].on # i THEN flow[t][w]
            ELSE IF flow[t][w].phase = "before_completion" THEN NoFlow
            ELSE IF flow[t][w].phase = "before_operation" /\ passed
            THEN [phase |-> "operating", on |-> 0]
            ELSE Idle
    BY DEF Released, Awaits
  <1>3. flow[t][w].on = i =>
            flow[t][w].phase \in {"before_operation", "after_operation", "between_nodes", "before_completion"}
    BY <1>1 DEF Awaited, Flow, Phases
  <1> QED BY <1>1, <1>2, <1>3 DEF NoFlow, Idle, Under

LEMMA ReleasedFlows ==
    ASSUME PauseTypeOK, Awaited, NEW i \in 1..Len(transitions), NEW passed \in BOOLEAN,
           flow' = Released(i, passed)
    PROVE  \A t \in Turns, w \in Flows :
              /\ flow[t][w] = NoFlow => flow'[t][w] = NoFlow
              /\ flow[t][w].on # i => flow'[t][w] = flow[t][w]
              /\ flow[t][w].on = i => flow'[t][w].on = 0
              /\ flow[t][w].on = i /\ flow[t][w].phase = "before_completion" =>
                     flow'[t][w].phase = "off"
              /\ flow[t][w].on = i /\ flow[t][w].phase # "before_completion" =>
                     flow'[t][w].phase =
                         IF flow[t][w].phase = "before_operation" /\ passed
                         THEN "operating" ELSE "ready"
              /\ flow[t][w].phase \in Under <=> flow'[t][w].phase \in Under
              /\ flow[t][w].phase = "off" => flow'[t][w].phase = "off"
  BY ReleasedEffect

---------------------------------------------------------------------------
(* Turns and their flows.                                                  *)

\* Transitions are made by turns that have begun.
LEMMA TransitionsOrder ==
    ASSUME PauseTypeOK, Awaited, NEW t \in Turns, NEW b \in Boundaries \ {"none"}, epoch' \in Nat,
           t <= epoch', epoch <= epoch', UNCHANGED <<transitions, transition>> \/ NewTransition(t, b)
    PROVE  /\ Len(transitions') \in Nat /\ Len(transitions) <= Len(transitions')
           /\ transition' \in Nat /\ transition' <= Len(transitions')
           /\ \A i \in 1..Len(transitions') :
                  transitions'[i].turn <= epoch' /\ transitions'[i].boundary # "none"
  <1>1. \A i \in 1..Len(transitions) : transitions[i].turn <= epoch'
    <2> SUFFICES ASSUME NEW i \in 1..Len(transitions) PROVE transitions[i].turn <= epoch'
      OBVIOUS
    <2>1. transitions[i].turn \in Nat /\ transitions[i].turn <= epoch /\ epoch \in Nat
      BY TypeFacts DEF Awaited, Transition
    <2> QED BY <2>1
  <1>2. CASE UNCHANGED <<transitions, transition>>
    BY <1>1, <1>2, TypeFacts DEF Awaited
  <1>3. CASE NewTransition(t, b)
    <2> b \in Boundaries
      OBVIOUS
    <2>1. /\ Len(transitions') \in Nat /\ Len(transitions) <= Len(transitions')
          /\ transition' \in Nat /\ transition' <= Len(transitions')
      <3>1. Len(transitions') = Len(transitions) + 1 /\ transition' = Len(transitions')
        BY <1>3, NewTransitionFacts
      <3>2. Len(transitions) \in Nat
        BY TypeFacts
      <3> QED BY <3>1, <3>2
    <2>2. ASSUME NEW i \in 1..Len(transitions')
          PROVE  transitions'[i].turn <= epoch' /\ transitions'[i].boundary # "none"
      <3>1. CASE i \in 1..Len(transitions)
        BY <1>1, <1>3, <3>1, NewTransitionFacts DEF Awaited
      <3>2. CASE i = transition'
        <4>1. transitions'[i] = [turn |-> t, boundary |-> b, phase |-> "persisting", gate |-> FALSE]
          BY <1>3, <3>2, NewTransitionFacts
        <4> QED BY <4>1
      <3> QED BY <1>3, <3>1, <3>2, NewTransitionFacts
    <2> QED BY <2>1, <2>2
  <1> QED BY <1>2, <1>3

\* A flow that moves awaits a transition that there is.
LEMMA FlowsAwait ==
    ASSUME PauseTypeOK, Awaited, NEW t \in Turns, NEW w \in Flows,
           \A u \in Turns, x \in Flows : u # t \/ x # w => flow'[u][x] = flow[u][x],
           flow'[t][w].on \in {0, transition'},
           flow'[t][w].phase \in {"off", "ready", "operating"} => flow'[t][w].on = 0,
           Len(transitions') \in Nat, Len(transitions) <= Len(transitions'),
           transition' \in Nat, transition' <= Len(transitions')
    PROVE  \A u \in Turns, x \in Flows :
              /\ flow'[u][x].on <= Len(transitions')
              /\ flow'[u][x].phase \in {"off", "ready", "operating"} => flow'[u][x].on = 0
  <1> SUFFICES ASSUME NEW u \in Turns, NEW x \in Flows
               PROVE  /\ flow'[u][x].on <= Len(transitions')
                      /\ flow'[u][x].phase \in {"off", "ready", "operating"} => flow'[u][x].on = 0
    OBVIOUS
  <1>1. CASE u = t /\ x = w
    BY <1>1
  <1>2. CASE u # t \/ x # w
    <2>1. flow'[u][x] = flow[u][x] /\ flow[u][x].on \in Nat /\ flow[u][x].on <= Len(transitions)
      BY <1>2, TypeFacts DEF Awaited, Flow
    <2> QED BY <1>2, <2>1, TypeFacts DEF Awaited
  <1> QED BY <1>1, <1>2

LEMMA StepOrder ==
    ASSUME PauseTypeOK, Order, Waits, Awaited, NEW t \in Turns, NEW w \in Flows, NEW others,
           NEW pass \in {"ready", "operating"},
           NEW wait \in {"before_operation", "after_operation", "between_nodes"},
           Checkpoint(t, w, wait, others, pass, wait), t <= epoch, flow[t][w].phase \in Under,
           UNCHANGED <<snapshot, epoch, busy, waiting>>
    PROVE  Order' /\ Waits' /\ Awaited'
  <1>1. pass \in Phases /\ wait \in Phases /\ wait \in Boundaries \ {"none"}
    BY DEF Phases, Boundaries
  <1>2. /\ \A u \in Turns, x \in Flows : u # t \/ x # w => flow'[u][x] = flow[u][x]
        /\ \/ flow'[t][w].phase \in {pass, "ready", "off"} /\ flow'[t][w].on = 0
           \/ flow'[t][w] = [phase |-> wait, on |-> transition']
        /\ flow'[t][w].phase = "off" => pass = "off" \/ wait \in {"off", "before_completion"}
        /\ UNCHANGED <<transitions, transition>> \/ NewTransition(t, wait)
    <2>1. Moved(t, w, wait, pass, wait)
      BY <1>1, CheckpointEffect
    <2> QED BY <2>1 DEF Moved
  <1>3. /\ flow'[t][w].phase \in Under
        /\ (flow'[t][w].phase \in {"off", "ready", "operating"} => flow'[t][w].on = 0)
        /\ flow'[t][w].on \in {0, transition'}
    BY <1>2 DEF Under
  <1>4. /\ Len(transitions') \in Nat /\ Len(transitions) <= Len(transitions')
        /\ transition' \in Nat /\ transition' <= Len(transitions')
        /\ \A i \in 1..Len(transitions') :
               transitions'[i].turn <= epoch' /\ transitions'[i].boundary # "none"
    BY <1>1, <1>2, TransitionsOrder, TypeFacts
  <1>5. Awaited'
    BY <1>2, <1>3, <1>4, FlowsAwait DEF Awaited
  <1>6. t = epoch => UnderWay
    <2>1. flow[t][w].phase # "off" /\ (t = epoch => epoch # 0)
      BY TypeFacts DEF Under
    <2> QED BY <2>1 DEF Order, UnderWay
  <1>7. UnderWay' = UnderWay
    BY <1>2, <1>3, <1>6, TypeFacts DEF UnderWay
  <1>8. \A u \in Turns : u > epoch => u # t
    BY TypeFacts
  <1>9. \A u \in Turns : u > epoch => \A x \in Flows : flow'[u][x] = NoFlow
    BY <1>2, <1>8 DEF Order
  <1>10. ASSUME NEW x \in Flows, epoch # 0, flow'[epoch][x].phase # "off", x # Main
         PROVE  UnderWay
    <2>1. CASE epoch = t
      BY <1>6, <2>1
    <2>2. CASE epoch # t
      <3>1. epoch \in Turns
        BY <1>10, TypeFacts
      <3> QED BY <1>2, <1>10, <2>2, <3>1 DEF Order
    <2> QED BY <2>1, <2>2
  <1>11. Order'
    BY <1>7, <1>9, <1>10 DEF Order
  <1>12. Waits'
    <2>1. waiting # 0 => t # epoch
      BY DEF Waits, Under, NoFlow
    <2> QED BY <1>2, <2>1, TypeFacts DEF Waits
  <1> QED BY <1>5, <1>11, <1>12

LEMMA CloseOrder ==
    ASSUME PauseTypeOK, Order, Awaited, NEW t \in Turns, NEW b \in BOOLEAN, Close(t, b),
           t = epoch', epoch <= epoch', waiting' = 0, b => t + 1 \in Turns,
           \A w \in Flows : w # Main => flow[t][w].phase = "off"
    PROVE  Order' /\ Waits' /\ Awaited'
  <1>1. Main \in Flows /\ t \in Nat /\ epoch' = t
    BY TypeFacts
  <1>2. Checkpoint(t, Main, "before_completion", Operating, "off", "before_completion")
    BY DEF Close
  <1>3. "before_completion" \in Boundaries \ {"none"} /\ "before_completion" \in Phases
          /\ "off" \in Phases
    BY DEF Boundaries, Phases
  <1>4. /\ \A u \in Turns, x \in Flows : u # t \/ x # Main => flow'[u][x] = flow[u][x]
        /\ \/ flow'[t][Main].phase \in {"off", "ready"} /\ flow'[t][Main].on = 0
           \/ flow'[t][Main] = [phase |-> "before_completion", on |-> transition']
        /\ flow'[t][Main].phase # "ready"
        /\ UNCHANGED <<transitions, transition>> \/ NewTransition(t, "before_completion")
    <2>1. Moved(t, Main, "before_completion", "off", "before_completion")
      BY <1>1, <1>2, <1>3, CheckpointEffect
    <2> QED BY <2>1 DEF Moved
  <1>5. /\ flow'[t][Main].phase \notin Under
        /\ (flow'[t][Main].phase \in {"off", "ready", "operating"} => flow'[t][Main].on = 0)
        /\ flow'[t][Main].on \in {0, transition'}
    BY <1>4 DEF Under
  <1>6. Awaited'
    <2>1. /\ Len(transitions') \in Nat /\ Len(transitions) <= Len(transitions')
          /\ transition' \in Nat /\ transition' <= Len(transitions')
          /\ \A i \in 1..Len(transitions') :
                 transitions'[i].turn <= epoch' /\ transitions'[i].boundary # "none"
      BY <1>1, <1>3, <1>4, TransitionsOrder
    <2> QED BY <1>1, <1>4, <1>5, <2>1, FlowsAwait DEF Awaited
  <1>7. ~UnderWay' /\ (busy' => b) /\ snapshot'.turn = snapshot.turn
    BY <1>1, <1>5 DEF Close, UnderWay, Completed
  <1>8. Order'
    <2>1. \A u \in Turns : u > epoch' => u > epoch /\ u # t
      BY <1>1, TypeFacts
    <2>2. \A u \in Turns : u > epoch' => \A w \in Flows : flow'[u][w] = NoFlow
      BY <1>4, <2>1 DEF Order
    <2>3. \A w \in Flows : w # Main => flow'[epoch'][w].phase = "off"
      BY <1>1, <1>4
    <2>4. snapshot'.turn <= epoch' /\ (busy' => epoch' + 1 \in Turns)
      BY <1>1, <1>7, TypeFacts DEF Order
    <2> QED BY <1>7, <2>2, <2>3, <2>4 DEF Order
  <1> QED BY <1>6, <1>8 DEF Waits

LEMMA ClaimOrder ==
    ASSUME PauseTypeOK, Order, Awaited, NEW t \in Turns, ClaimedByFlow(t), UNCHANGED transitions,
           t = epoch', epoch <= epoch', waiting' = 0, busy', t + 1 \in Turns,
           \A w \in Flows : flow[t][w] = NoFlow
    PROVE  Order' /\ Waits' /\ Awaited'
  <1>1. Main \in Flows /\ t \in Nat \ {0} /\ epoch' = t
    BY TypeFacts
  <1>2. /\ \A u \in Turns, x \in Flows : u # t \/ x # Main => flow'[u][x] = flow[u][x]
        /\ flow'[t][Main] = [phase |-> "ready", on |-> 0]
    BY <1>1, TypeFacts DEF ClaimedByFlow, NoFlow
  <1>3. Awaited'
    <2>1. \A u \in Turns, w \in Flows :
             /\ flow'[u][w].on <= Len(transitions)
             /\ flow'[u][w].phase \in {"off", "ready", "operating"} => flow'[u][w].on = 0
      <3>1. TAKE u \in Turns, w \in Flows
      <3>2. CASE u = t /\ w = Main
        BY <1>2, <3>2, TypeFacts
      <3>3. CASE u # t \/ w # Main
        BY <1>2, <3>1, <3>3 DEF Awaited
      <3> QED BY <3>2, <3>3
    <2>2. \A i \in 1..Len(transitions) :
             transitions[i].turn <= epoch' /\ transitions[i].boundary # "none"
      <3>1. TAKE i \in 1..Len(transitions)
      <3>2. transitions[i].turn \in Nat /\ epoch \in Nat /\ epoch' \in Nat
        BY <1>1, <3>1, TypeFacts
      <3>3. transitions[i].turn <= epoch /\ transitions[i].boundary # "none"
        BY <3>1 DEF Awaited
      <3> QED BY <3>2, <3>3
    <2> QED BY <2>1, <2>2 DEF Awaited
  <1>4. UnderWay'
    BY <1>1, <1>2 DEF UnderWay, Under
  <1>5. Order'
    <2>1. snapshot'.turn = epoch'
      BY DEF ClaimedByFlow, Running
    <2>2. \A u \in Turns : u > epoch' => u > epoch /\ u # t
      BY <1>1, TypeFacts
    <2>3. \A u \in Turns : u > epoch' => \A w \in Flows : flow'[u][w] = NoFlow
      BY <1>2, <2>2 DEF Order
    <2> QED BY <1>1, <1>4, <2>1, <2>3 DEF Order
  <1> QED BY <1>3, <1>5 DEF Waits

\* Flows that are released neither begin nor end the main flow of the turn.
LEMMA ReleasedOrder ==
    ASSUME PauseTypeOK, Order, Waits, Awaited, NEW i \in 1..Len(transitions), NEW passed \in BOOLEAN,
           flow' = flow \/ flow' = Released(i, passed), UNCHANGED epoch
    PROVE  /\ \A t \in Turns : t > epoch => \A w \in Flows : flow'[t][w] = NoFlow
           /\ UnderWay' = UnderWay
           /\ \A w \in Flows : epoch # 0 /\ flow'[epoch][w].phase # "off" /\ w # Main => UnderWay
           /\ waiting # 0 => \A w \in Flows : flow'[waiting][w] = NoFlow
           /\ \A t \in Turns, w \in Flows :
                  /\ flow'[t][w].on <= Len(transitions)
                  /\ flow'[t][w].phase \in {"off", "ready", "operating"} => flow'[t][w].on = 0
  <1>1. CASE flow' = flow
    BY <1>1, TypeFacts DEF Order, Waits, Awaited, UnderWay
  <1>2. CASE flow' = Released(i, passed)
    <2>1. \A t \in Turns, w \in Flows :
             /\ flow[t][w] = NoFlow => flow'[t][w] = NoFlow
             /\ flow[t][w].on # i => flow'[t][w] = flow[t][w]
             /\ flow[t][w].on = i => flow'[t][w].on = 0
             /\ flow[t][w].phase \in Under <=> flow'[t][w].phase \in Under
             /\ flow[t][w].phase = "off" => flow'[t][w].phase = "off"
      BY <1>2, ReleasedEffect
    <2>2. UnderWay' = UnderWay
      BY <2>1, TypeFacts DEF UnderWay
    <2>3. \A t \in Turns : t > epoch => \A w \in Flows : flow'[t][w] = NoFlow
      BY <2>1 DEF Order
    <2>4. \A w \in Flows : epoch # 0 /\ flow'[epoch][w].phase # "off" /\ w # Main => UnderWay
      BY <2>1, TypeFacts DEF Order
    <2>5. waiting # 0 => \A w \in Flows : flow'[waiting][w] = NoFlow
      BY <2>1, TypeFacts DEF Waits
    <2>6. \A t \in Turns, w \in Flows :
             /\ flow'[t][w].on <= Len(transitions)
             /\ flow'[t][w].phase \in {"off", "ready", "operating"} => flow'[t][w].on = 0
      <3>1. TAKE t \in Turns, w \in Flows
      <3>2. CASE flow[t][w].on = i
        BY <2>1, <3>1, <3>2, TypeFacts
      <3>3. CASE flow[t][w].on # i
        BY <2>1, <3>1, <3>3 DEF Awaited
      <3> QED BY <3>2, <3>3
    <2> QED BY <2>2, <2>3, <2>4, <2>5, <2>6
  <1> QED BY <1>1, <1>2

\* Changing a transition's phase and gate leaves its turn and boundary.
LEMMA AwaitedStays ==
    ASSUME PauseTypeOK, Awaited, NEW i \in 1..Len(transitions), NEW tr \in Transition,
           transitions' = [transitions EXCEPT ![i] = tr],
           tr.turn = transitions[i].turn, tr.boundary = transitions[i].boundary
    PROVE  /\ Len(transitions') = Len(transitions)
           /\ \A j \in 1..Len(transitions) :
                  transitions'[j].turn <= epoch /\ transitions'[j].boundary # "none"
  <1>1. /\ Len(transitions') = Len(transitions)
        /\ \A j \in 1..Len(transitions) : transitions'[j] = IF j = i THEN tr ELSE transitions[j]
    BY ChangedTransition
  <1> QED BY <1>1 DEF Awaited

LEMMA PersistOrder ==
    ASSUME PauseTypeOK, Order, Waits, Awaited, NEW i \in 1..Len(transitions), NEW ok \in BOOLEAN,
           PersistSettles(i, ok)
    PROVE  Order' /\ Waits' /\ Awaited'
  <1> DEFINE tr == transitions[i]
  <1>1. tr \in Transition /\ tr.turn <= epoch
    BY TypeFacts DEF Awaited
  <1>2. PICK phase \in {"suspended", "ended"} :
            transitions' = [transitions EXCEPT ![i] = [tr EXCEPT !.phase = phase]]
    BY TypeFacts DEF PersistSettles, PauseTypeOK
  <1>3. [tr EXCEPT !.phase = phase] \in Transition
    BY <1>1 DEF Transition
  <1>4. /\ Len(transitions') = Len(transitions)
        /\ \A j \in 1..Len(transitions) :
               transitions'[j].turn <= epoch /\ transitions'[j].boundary # "none"
    BY <1>1, <1>2, <1>3, AwaitedStays DEF Transition
  <1>5. UNCHANGED <<epoch, busy, waiting>>
    BY DEF PersistSettles
  <1>6. \E passed \in BOOLEAN : flow' = flow \/ flow' = Released(i, passed)
    BY DEF PersistSettles
  <1>7. UNCHANGED snapshot \/ (snapshot'.turn = tr.turn /\ snapshot'.state # "cancelled")
    <2>1. \/ UNCHANGED snapshot
          \/ snapshot' = [state |-> "paused", turn |-> tr.turn, boundary |-> tr.boundary]
          \/ snapshot' \in {Running(tr.turn), Completed(Running(tr.turn))}
      BY DEF PersistSettles
    <2> QED BY <2>1 DEF Running, Completed
  <1> HIDE DEF tr
  <1>8. Order' /\ Waits'
    BY <1>1, <1>5, <1>6, <1>7, ReleasedOrder DEF Order, Waits
  <1>9. Awaited'
    BY <1>4, <1>5, <1>6, ReleasedOrder DEF Awaited
  <1> QED BY <1>8, <1>9

LEMMA ResumeOrder ==
    ASSUME PauseTypeOK, Order, Waits, Awaited, ResumeTurn
    PROVE  Order' /\ Waits' /\ Awaited'
  <1>1. transition \in 1..Len(transitions) /\ snapshot.state = "paused"
    BY TypeFacts DEF ResumeTurn
  <1> DEFINE tr == [transitions[transition] EXCEPT !.phase = "ended", !.gate = TRUE]
  <1>2. /\ tr \in Transition /\ tr.turn = transitions[transition].turn
        /\ tr.boundary = transitions[transition].boundary
    BY <1>1, TypeFacts DEF Transition
  <1>3. transitions' = [transitions EXCEPT ![transition] = tr]
    BY <1>1 DEF ResumeTurn, PauseTypeOK
  <1>4. /\ Len(transitions') = Len(transitions)
        /\ \A j \in 1..Len(transitions) :
               transitions'[j].turn <= epoch /\ transitions'[j].boundary # "none"
    BY <1>1, <1>2, <1>3, AwaitedStays
  <1>5. /\ UNCHANGED <<epoch, waiting>> /\ flow' = Released(transition, TRUE)
        /\ snapshot'.turn = snapshot.turn /\ snapshot'.state # "cancelled"
    BY DEF ResumeTurn, Running, Completed
  <1>6. busy' => busy
    BY DEF ResumeTurn
  <1>7. UnderWay \/ waiting # 0 => (busy => busy')
    <2>1. UnderWay \/ waiting # 0 => ~CurrentFinishing(transition)
      BY TypeFacts DEF CurrentFinishing, Finishing, UnderWay, Under, Waits, NoFlow
    <2> QED BY <2>1 DEF ResumeTurn
  <1>8. /\ \A t \in Turns : t > epoch => \A w \in Flows : flow'[t][w] = NoFlow
        /\ UnderWay' = UnderWay
        /\ \A w \in Flows : epoch # 0 /\ flow'[epoch][w].phase # "off" /\ w # Main => UnderWay
        /\ waiting # 0 => \A w \in Flows : flow'[waiting][w] = NoFlow
    BY <1>1, <1>5, ReleasedOrder
  <1>10. Order' /\ Waits'
    BY <1>5, <1>6, <1>7, <1>8 DEF Order, Waits
  <1>9. Awaited'
    BY <1>1, <1>4, <1>5, ReleasedOrder DEF Awaited
  <1> QED BY <1>9, <1>10

LEMMA InterruptOrder ==
    ASSUME PauseTypeOK, Order, Waits, Awaited, InterruptTurn
    PROVE  Order' /\ Waits' /\ Awaited'
  <1>1. /\ epoch + 1 \in Turns /\ epoch' = epoch + 1 /\ ~busy' /\ waiting' = 0
        /\ snapshot'.turn = snapshot.turn
    <2>1. snapshot' \in {snapshot, [snapshot EXCEPT !.state = "cancelled", !.boundary = "none"]}
      BY DEF InterruptTurn
    <2>2. snapshot'.turn = snapshot.turn
      BY <2>1 DEF PauseTypeOK, PauseSnapshot
    <2> QED BY <2>2 DEF InterruptTurn, Order
  <1>2. flow' = flow \/ (transition \in 1..Len(transitions) /\ flow' = Released(transition, FALSE))
    <2>1. flow' = flow \/ (transition # 0 /\ flow' = Released(transition, FALSE))
      BY DEF InterruptTurn
    <2>2. transition # 0 => transition \in 1..Len(transitions)
      BY TypeFacts
    <2> QED BY <2>1, <2>2
  <1>3. /\ \A t \in Turns, w \in Flows : flow[t][w] = NoFlow => flow'[t][w] = NoFlow
        /\ \A t \in Turns, w \in Flows :
               /\ flow'[t][w].on <= Len(transitions)
               /\ flow'[t][w].phase \in {"off", "ready", "operating"} => flow'[t][w].on = 0
    <2>1. CASE flow' = flow
      BY <2>1 DEF Awaited
    <2>2. CASE transition \in 1..Len(transitions) /\ flow' = Released(transition, FALSE)
      <3>1. \A t \in Turns, w \in Flows :
               /\ flow[t][w] = NoFlow => flow'[t][w] = NoFlow
               /\ flow[t][w].on # transition => flow'[t][w] = flow[t][w]
               /\ flow[t][w].on = transition => flow'[t][w].on = 0
        <4>1. PICK passed \in BOOLEAN : flow' = Released(transition, passed)
          BY <2>2
        <4>2. transition \in 1..Len(transitions)
          BY <2>2
        <4> QED BY <4>1, <4>2, ReleasedFlows
      <3> SUFFICES ASSUME NEW t \in Turns, NEW w \in Flows
                   PROVE  /\ flow[t][w] = NoFlow => flow'[t][w] = NoFlow
                          /\ flow'[t][w].on <= Len(transitions)
                          /\ flow'[t][w].phase \in {"off", "ready", "operating"}
                                 => flow'[t][w].on = 0
        OBVIOUS
      <3>2. CASE flow[t][w].on = transition
        BY <3>1, <3>2, TypeFacts
      <3>3. CASE flow[t][w].on # transition
        BY <3>1, <3>3 DEF Awaited
      <3> QED BY <3>2, <3>3
    <2> QED BY <1>2, <2>1, <2>2
  <1>4. \A w \in Flows : flow'[epoch + 1][w] = NoFlow
    BY <1>1, <1>3, TypeFacts DEF Order
  <1>5. ~UnderWay'
    BY <1>1, <1>4, TypeFacts DEF UnderWay, Under, NoFlow
  <1>6. /\ Len(transitions') = Len(transitions)
        /\ \A j \in 1..Len(transitions) :
               transitions'[j].turn <= epoch /\ transitions'[j].boundary # "none"
    <2>1. CASE UNCHANGED transitions
      BY <2>1 DEF Awaited
    <2>2. CASE ~UNCHANGED transitions
      <3>1. transition \in 1..Len(transitions)
        <4>1. transition # 0
          BY <2>2 DEF InterruptTurn
        <4> QED BY <4>1, TypeFacts
      <3>2. PICK tr \in Transition :
                /\ transitions' = [transitions EXCEPT ![transition] = tr]
                /\ tr.turn = transitions[transition].turn /\ tr.boundary = transitions[transition].boundary
        <4>1. /\ [transitions[transition] EXCEPT !.phase = "ended"] \in Transition
              /\ [transitions[transition] EXCEPT !.gate = TRUE] \in Transition
          BY <3>1, TypeFacts DEF Transition
        <4> QED BY <2>2, <3>1, <4>1, TypeFacts DEF InterruptTurn, PauseTypeOK, Transition
      <3> QED BY <3>1, <3>2, AwaitedStays
    <2> QED BY <2>1, <2>2
  <1>7. Order'
    <2>1. \A t \in Turns : t > epoch' => \A w \in Flows : flow'[t][w] = NoFlow
      BY <1>1, <1>3, TypeFacts DEF Order
    <2>2. \A w \in Flows : flow'[epoch'][w].phase = "off"
      BY <1>1, <1>4 DEF NoFlow
    <2>3. snapshot'.turn <= epoch'
      BY <1>1, TypeFacts DEF Order
    <2> QED BY <1>1, <1>5, <2>1, <2>2, <2>3 DEF Order
  <1>8. Awaited'
    <2>1. \A j \in 1..Len(transitions) : transitions'[j].turn \in Nat => transitions'[j].turn <= epoch'
      BY <1>1, <1>6, TypeFacts
    <2>2. \A j \in 1..Len(transitions') : transitions'[j].turn \in Nat
      <3>1. PauseTypeOK'
        BY InterruptType
      <3>2. \A j \in 1..Len(transitions') : transitions'[j] \in Transition
        BY <3>1 DEF PauseTypeOK
      <3> QED BY <3>2, TypeFacts DEF Transition
    <2> QED BY <1>3, <1>6, <2>1, <2>2 DEF Awaited
  <1> QED BY <1>1, <1>7, <1>8 DEF Waits

LEMMA OrderStep ==
    ASSUME PauseTypeOK, Order, Waits, Awaited, PauseNext
    PROVE  Order' /\ Waits' /\ Awaited'
  <1>1. ASSUME NEW t \in Turns, NEW w \in Flows, StartOperation(t, w)
        PROVE  Order' /\ Waits' /\ Awaited'
    <2>1. t \in Turns /\ w \in Flows /\ t <= epoch /\ flow[t][w].phase \in Under
      BY <1>1, TypeFacts DEF StartOperation, Ready, Under
    <2>2. \E others : Checkpoint(t, w, "before_operation", others, "operating", "before_operation")
      BY <1>1 DEF StartOperation
    <2>3. UNCHANGED <<snapshot, epoch, busy, waiting>>
      BY <1>1 DEF StartOperation
    <2> QED BY <2>1, <2>2, <2>3, StepOrder
  <1>2. ASSUME NEW t \in Turns, NEW w \in Flows, BetweenNodes(t, w)
        PROVE  Order' /\ Waits' /\ Awaited'
    <2>1. t \in Turns /\ w \in Flows /\ t <= epoch /\ flow[t][w].phase \in Under
      BY <1>2, TypeFacts DEF BetweenNodes, Ready, Under
    <2>2. \E others : Checkpoint(t, w, "between_nodes", others, "ready", "between_nodes")
      BY <1>2 DEF BetweenNodes
    <2>3. UNCHANGED <<snapshot, epoch, busy, waiting>>
      BY <1>2 DEF BetweenNodes
    <2> QED BY <2>1, <2>2, <2>3, StepOrder
  <1>3. ASSUME NEW t \in Turns, NEW w \in Flows, Fork(t, w) PROVE Order' /\ Waits' /\ Awaited'
    <2>1. flow[t][w] = NoFlow /\ t = epoch /\ UnderWay /\ waiting = 0
      BY <1>3, TypeFacts DEF Fork, Ready, Awaited, Flow, NoFlow, UnderWay, Under, Waits
    <2>2. flow' = [flow EXCEPT ![t][w] = [phase |-> "ready", on |-> 0]]
      <3>1. flow' = [flow EXCEPT ![t][w] = [flow[t][w] EXCEPT !.phase = "ready"]]
        BY <1>3, TypeFacts DEF Fork
      <3>2. [flow[t][w] EXCEPT !.phase = "ready"] = [phase |-> "ready", on |-> 0]
        BY <2>1 DEF NoFlow
      <3> QED BY <3>1, <3>2
    <2>3. UNCHANGED <<snapshot, transitions, epoch, busy, waiting>>
      BY <1>3 DEF Fork
    <2> QED BY <1>3, <2>1, <2>2, <2>3, TypeFacts DEF Order, Waits, Awaited, UnderWay, Under
  <1>4. ASSUME NEW t \in Turns, NEW w \in Flows, EndOperation(t, w)
        PROVE  Order' /\ Waits' /\ Awaited'
    <2>1. t \in Turns /\ w \in Flows /\ t <= epoch /\ flow[t][w].phase \in Under
      BY <1>4, TypeFacts DEF EndOperation, Under, Order, NoFlow
    <2>2. \E others : Checkpoint(t, w, "after_operation", others, "ready", "after_operation")
      BY <1>4 DEF EndOperation
    <2>3. UNCHANGED <<snapshot, epoch, busy, waiting>>
      BY <1>4 DEF EndOperation
    <2> QED BY <2>1, <2>2, <2>3, StepOrder
  <1>5. ASSUME NEW t \in Turns, NEW w \in Flows, LeaveFlow(t, w)
        PROVE  Order' /\ Waits' /\ Awaited'
    <2>1. flow' = [flow EXCEPT ![t][w] = NoFlow] /\ (w # Main \/ t # epoch) /\ flow[t][w].phase = "ready"
      BY <1>5 DEF LeaveFlow, Ready
    <2>2. UNCHANGED <<snapshot, transitions, epoch, busy, waiting>>
      BY <1>5 DEF LeaveFlow
    <2>3. UnderWay' = UnderWay
      BY <1>5, <2>1, <2>2, TypeFacts DEF UnderWay
    <2> QED BY <1>5, <2>1, <2>2, <2>3, TypeFacts DEF Order, Waits, Awaited, NoFlow
  <1>6. ASSUME NEW t \in Turns, Finish(t) PROVE Order' /\ Waits' /\ Awaited'
    <2>1. t = epoch /\ waiting = 0 /\ \A w \in Flows : w # Main => flow[t][w].phase = "off"
      BY <1>6, TypeFacts DEF Finish, Ready, Waits, NoFlow
    <2>2. PICK b \in {busy, FALSE} : Close(t, b)
      BY <1>6 DEF Finish
    <2>3. UNCHANGED <<epoch, waiting>> /\ t <= epoch /\ b \in BOOLEAN /\ epoch \in Nat
      <3>1. epoch \in Nat /\ busy \in BOOLEAN
        BY TypeFacts
      <3>2. t <= epoch
        BY <2>1, <3>1
      <3>3. UNCHANGED <<epoch, waiting>>
        BY <1>6 DEF Finish
      <3> QED BY <3>1, <3>2, <3>3
    <2> QED BY <2>1, <2>2, <2>3, CloseOrder DEF Order
  <1>7. ASSUME NEW i \in 1..Len(transitions), NEW ok \in BOOLEAN, PersistSettles(i, ok)
        PROVE  Order' /\ Waits' /\ Awaited'
    BY <1>7, PersistOrder
  <1>8. ASSUME NEW deciding \in BOOLEAN, RequestPause(deciding)
        PROVE  Order' /\ Waits' /\ Awaited'
    <2>1. UNCHANGED <<flow, epoch, busy, waiting>> /\ snapshot'.turn = snapshot.turn
          /\ snapshot'.state # "cancelled" /\ epoch \in Turns
      BY <1>8, TypeFacts DEF RequestPause, Order, PauseSnapshot
    <2>2. Order' /\ Waits'
      BY <2>1, TypeFacts DEF Order, Waits, UnderWay
    <2>3. Awaited'
      <3>1. CASE NewTransition(epoch, "before_approval")
        <4>1. epoch' \in Nat /\ epoch <= epoch'
          BY <2>1, TypeFacts
        <4>2. "before_approval" \in Boundaries \ {"none"}
          BY DEF Boundaries
        <4>3. /\ Len(transitions') \in Nat /\ Len(transitions) <= Len(transitions')
              /\ \A i \in 1..Len(transitions') :
                     transitions'[i].turn <= epoch' /\ transitions'[i].boundary # "none"
          BY <2>1, <3>1, <4>1, <4>2, TransitionsOrder
        <4>4. \A u \in Turns, x \in Flows : flow[u][x].on <= Len(transitions')
          BY <4>3, TypeFacts DEF Awaited
        <4> QED BY <2>1, <4>3, <4>4 DEF Awaited
      <3>2. CASE UNCHANGED <<transitions, transition>>
        BY <2>1, <3>2 DEF Awaited
      <3> QED BY <1>8, <3>1, <3>2 DEF RequestPause
    <2> QED BY <2>2, <2>3
  <1>9. CASE ResumeTurn
    BY <1>9, ResumeOrder
  <1>10. CASE InterruptTurn
    BY <1>10, InterruptOrder
  <1>11. CASE SubmitTurn
    <2> epoch + 1 \in Turns /\ epoch + 2 \in Turns /\ epoch' = epoch + 1 /\ waiting = 0
      BY <1>11, TypeFacts, PauseAssumption DEF SubmitTurn, Turns, Waits
    <2>1. CASE IsActive /\ Close(epoch', TRUE)
      <3>1. waiting' = 0 /\ \A w \in Flows : flow[epoch + 1][w] = NoFlow
        <4>1. waiting' = waiting
          <5>1. waiting' = waiting \/ snapshot.state \notin Active
            BY <1>11 DEF SubmitTurn
          <5> QED BY <2>1, <5>1 DEF IsActive
        <4>2. epoch + 1 > epoch
          BY TypeFacts
        <4> QED BY <4>1, <4>2 DEF Order
      <3>2. \A w \in Flows : w # Main => flow[epoch + 1][w].phase = "off"
        BY <3>1 DEF NoFlow
      <3>3. epoch <= epoch + 1 /\ (epoch + 1) + 1 \in Turns /\ TRUE \in BOOLEAN
        BY TypeFacts
      <3> QED BY <2>1, <3>1, <3>2, <3>3, CloseOrder
    <2>2. CASE waiting' = epoch' /\ busy' = TRUE
                 /\ UNCHANGED <<snapshot, ack, transitions, transition, flow, overtaken>>
      <3>1. /\ snapshot.turn < epoch + 1 /\ epoch + 1 \in Nat /\ epoch \in Nat
            /\ \A w \in Flows : flow[epoch + 1][w] = NoFlow
        <4>1. snapshot.turn < epoch + 1 /\ epoch + 1 > epoch
          BY TypeFacts DEF Order
        <4> QED BY <4>1, TypeFacts DEF Order
      <3>2. ~UnderWay' /\ \A w \in Flows : flow'[epoch'][w].phase = "off"
        BY <2>2, <3>1, TypeFacts DEF UnderWay, Under, NoFlow
      <3>3. \A t \in Turns : t > epoch' => \A w \in Flows : flow'[t][w] = NoFlow
        BY <2>2, <3>1, TypeFacts DEF Order
      <3>4. Order'
        <4>1. snapshot'.turn <= epoch' /\ (epoch + 1) + 1 \in Turns
          BY <2>2, <3>1, TypeFacts
        <4> QED BY <2>2, <3>2, <3>3, <4>1 DEF Order
      <3>5. Waits'
        BY <2>2, <3>1 DEF Waits
      <3>6. \A i \in 1..Len(transitions) : transitions[i].turn <= epoch + 1
        BY TypeFacts DEF Awaited
      <3> QED BY <2>2, <3>4, <3>5, <3>6 DEF Awaited
    <2>3. CASE ClaimedByFlow(epoch') /\ busy' = TRUE /\ UNCHANGED <<waiting, transitions>>
      BY <2>3, ClaimOrder, TypeFacts DEF Order
    <2> QED BY <1>11, <2>1, <2>2, <2>3 DEF SubmitTurn, IsActive
  <1>12. CASE Begin
    <2>1. waiting \in Turns /\ waiting = epoch /\ busy /\ ClaimedByFlow(waiting) /\ waiting' = 0
          /\ UNCHANGED <<transitions, epoch, busy>> /\ \A w \in Flows : flow[epoch][w] = NoFlow
      BY <1>12, TypeFacts DEF Begin, Waits
    <2> QED BY <2>1, ClaimOrder, TypeFacts DEF Order
  <1> QED BY <1>1, <1>2, <1>3, <1>4, <1>5, <1>6, <1>7, <1>8, <1>9, <1>10, <1>11, <1>12
     DEF PauseNext, FlowStep

---------------------------------------------------------------------------
(* Until a turn was overtaken.                                             *)

CalmState == OnePause /\ OwnTurn /\ OwnFlows /\ Quiet

\* A pause under way is that of an active turn.
LEMMA PauseIsActive ==
    ASSUME OnePause, transition # 0
    PROVE  IsActive /\ snapshot.state # "cancelled"
  BY DEF OnePause, IsActive, Active

LEMMA OperatingIs ==
    \A t \in Turns, w \in Flows : <<t, w>> \in Operating <=> flow[t][w].phase = "operating"
  BY DEF Operating

\* A flow of the current turn that is not its main one is there only while the main
\* flow is under way.
LEMMA CurrentIsUnderWay ==
    ASSUME Order, NEW w \in Flows, epoch # 0, flow[epoch][w].phase \in Under
    PROVE  UnderWay
  <1>1. flow[epoch][w].phase # "off"
    BY DEF Under
  <1> QED BY <1>1 DEF Order, UnderWay

\* A checkpoint that makes a transition is reached in a pending pause, which is then
\* the only one being written.
LEMMA PausingIsOnePause ==
    ASSUME PauseTypeOK, OnePause, NEW t \in Turns, NEW b \in Boundaries, NewTransition(t, b),
           transition = 0, snapshot'.state = "pause_pending", snapshot.state # "cancelled"
    PROVE  OnePause'
  <1>1. \A i \in 1..Len(transitions) : transitions[i].phase # "persisting"
    BY TypeFacts DEF OnePause
  <1>2. /\ transitions'[transition'] =
               [turn |-> t, boundary |-> b, phase |-> "persisting", gate |-> FALSE]
        /\ \A i \in 1..Len(transitions') :
               i = transition' \/ transitions'[i].phase # "persisting"
    BY <1>1, NewTransitionFacts
  <1> QED BY <1>2 DEF OnePause

LEMMA StepCalm ==
    ASSUME PauseTypeOK, Order, Awaited, CalmState, NEW t \in Turns, NEW w \in Flows, NEW others,
           NEW pass \in {"ready", "operating"},
           NEW wait \in {"before_operation", "after_operation", "between_nodes"},
           Checkpoint(t, w, wait, others, pass, wait),
           t = epoch \/ flow[t][w].phase = "operating",
           pass = "operating" \/ wait = "before_operation" => t = epoch,
           Operating \ {<<t, w>>} \subseteq others,
           flow[t][w].phase \in Under, UNCHANGED <<snapshot, epoch>>
    PROVE  CalmState'
  <1>1. pass \in Phases /\ wait \in Phases /\ wait \in Boundaries
    BY DEF Phases, Boundaries
  <1>2. /\ \A u \in Turns, x \in Flows : u # t \/ x # w => flow'[u][x] = flow[u][x]
        /\ \/ flow'[t][w].phase \in {pass, "ready", "off"} /\ flow'[t][w].on = 0
           \/ flow'[t][w] = [phase |-> wait, on |-> transition']
        /\ flow'[t][w].phase = "off" => pass = "off" \/ wait \in {"off", "before_completion"}
        /\ UNCHANGED <<transitions, transition>> \/ NewTransition(t, wait)
    <2>1. Moved(t, w, wait, pass, wait)
      BY <1>1, CheckpointEffect
    <2> QED BY <2>1 DEF Moved
  <1>3. /\ flow'[t][w].phase \in Under
        /\ flow'[t][w].phase = "operating" => pass = "operating"
        /\ flow'[t][w].phase = "before_operation" => wait = "before_operation"
    BY <1>2 DEF Under
  <1>4. UnderWay' = UnderWay
    <2>1. t = epoch => UnderWay
      BY TypeFacts, CurrentIsUnderWay
    <2> QED BY <1>2, <1>3, <2>1, TypeFacts DEF UnderWay
  <1>5. IsActive' = IsActive
    BY DEF IsActive
  <1>6. ASSUME NEW u \in Turns, NEW x \in Flows, IsActive', flow'[u][x].phase = "operating"
        PROVE  u = epoch'
    BY <1>2, <1>3, <1>5, <1>6 DEF CalmState, OwnFlows
  <1>7. \A u \in Turns, x \in Flows : flow[u][x].on <= Len(transitions)
    BY DEF Awaited
  <1>8. CASE UNCHANGED <<transitions, transition>>
    <2>1. OnePause' /\ OwnTurn'
      BY <1>4, <1>5, <1>8 DEF CalmState, OnePause, OwnTurn
    <2>2. ASSUME NEW u \in Turns, NEW x \in Flows, transition # 0, flow'[u][x].on = transition
          PROVE  /\ flow'[u][x].phase = "before_operation" => u = epoch
                 /\ flow'[u][x].phase = "before_completion" => ~UnderWay
      BY <1>2, <1>3, <2>2 DEF CalmState, OwnFlows, Under
    <2>3. OwnFlows'
      BY <1>4, <1>6, <1>8, <2>2 DEF OwnFlows
    <2>4. Quiet'
      <3>1. CASE flow'[t][w].phase = "operating"
        <4>1. transition = 0 \/ snapshot.state = "cancelled"
          <5>1. Joins => flow' = [flow EXCEPT ![t][w] = [phase |-> wait, on |-> transition]]
            BY <1>8, NewTransitionFacts DEF Checkpoint, Joins, Throws, Pauses, Passes
          <5>2. Joins => flow'[t][w].phase = wait
            BY <5>1, TypeFacts
          <5> QED BY <3>1, <5>2 DEF Joins, Throws
        <4> QED BY <1>8, <4>1, PauseIsActive DEF CalmState, Quiet
      <3>2. CASE flow'[t][w].phase # "operating"
        <4>1. Operating' \subseteq Operating
          BY <1>2, <3>2 DEF Operating
        <4> QED BY <1>8, <4>1 DEF CalmState, Quiet
      <3> QED BY <3>1, <3>2
    <2> QED BY <2>1, <2>3, <2>4 DEF CalmState
  <1>9. CASE ~UNCHANGED <<transitions, transition>>
    <2>1. Pauses(wait, others) /\ NewTransition(t, wait)
            /\ flow' = [flow EXCEPT ![t][w] = [phase |-> wait, on |-> transition']]
      BY <1>9 DEF Checkpoint
    <2>2. transition = 0 /\ snapshot.state = "pause_pending" /\ others = {}
      BY <2>1 DEF Pauses
    <2>3. t = epoch
      BY <2>2 DEF CalmState, OwnFlows, IsActive, Active
    <2>4. /\ transitions'[transition'] =
               [turn |-> t, boundary |-> wait, phase |-> "persisting", gate |-> FALSE]
          /\ transition' = Len(transitions) + 1 /\ Len(transitions) \in Nat
      BY <1>1, <2>1, NewTransitionFacts, TypeFacts
    <2>5. OnePause'
      BY <1>1, <2>1, <2>2, PausingIsOnePause DEF CalmState
    <2>6. OwnTurn'
      BY <1>4, <1>5, <2>3, <2>4 DEF CalmState, OwnTurn
    <2>7. ASSUME NEW u \in Turns, NEW x \in Flows, flow'[u][x].on = transition'
          PROVE  u = t /\ x = w
      <3>1. flow[u][x].on # transition'
        BY <1>7, <2>4, TypeFacts
      <3> QED BY <1>2, <2>7, <3>1
    <2>8. OwnFlows'
      BY <1>3, <1>6, <2>3, <2>7 DEF OwnFlows, Under
    <2>9. flow'[t][w].phase # "operating"
      BY <2>1, TypeFacts
    <2>10. Operating' = {}
      BY <1>2, <2>2, <2>9 DEF Operating
    <2> QED BY <2>5, <2>6, <2>8, <2>10 DEF CalmState, Quiet
  <1> QED BY <1>8, <1>9

LEMMA CloseCalm ==
    ASSUME PauseTypeOK, Order, Awaited, CalmState, NEW t \in Turns, NEW b, Close(t, b),
           t = epoch',
           \A u \in Turns, x \in Flows :
               /\ IsActive /\ flow[u][x].phase = "operating" => u = t
               /\ transition # 0 /\ flow[u][x].on = transition
                      /\ flow[u][x].phase = "before_operation" => u = t
    PROVE  CalmState'
  <1>1. Main \in Flows /\ "before_completion" \in Boundaries /\ "off" \in Phases
          /\ "before_completion" \in Phases /\ t # 0
    BY TypeFacts DEF Boundaries, Phases
  <1>2. Checkpoint(t, Main, "before_completion", Operating, "off", "before_completion")
    BY DEF Close
  <1>3. /\ \A u \in Turns, x \in Flows : u # t \/ x # Main => flow'[u][x] = flow[u][x]
        /\ \/ flow'[t][Main].phase \in {"off", "ready"} /\ flow'[t][Main].on = 0
           \/ flow'[t][Main] = [phase |-> "before_completion", on |-> transition']
        /\ flow'[t][Main].phase # "ready"
        /\ UNCHANGED <<transitions, transition>> \/ NewTransition(t, "before_completion")
    <2>1. Moved(t, Main, "before_completion", "off", "before_completion")
      BY <1>1, <1>2, CheckpointEffect
    <2> QED BY <2>1 DEF Moved
  <1>4. flow'[t][Main].phase \in {"off", "before_completion"} /\ ~UnderWay'
    BY <1>3 DEF UnderWay, Under
  <1>5. OwnTurn'
    BY <1>4 DEF OwnTurn
  <1>6. Operating' \subseteq Operating
    BY <1>3, <1>4 DEF Operating
  <1>7. \/ UNCHANGED snapshot
        \/ /\ snapshot.state = "running" /\ snapshot'.state = "completed"
           /\ UNCHANGED <<transitions, transition>> /\ transition = 0
    <2>1. CASE Passes("before_completion", Operating)
      <3>1. snapshot' = Completed(snapshot) /\ transition = 0
              /\ UNCHANGED <<transitions, transition>>
        BY <1>2, <2>1 DEF Close, Passes, Checkpoint, Joins
      <3> QED BY <3>1 DEF Completed, PauseTypeOK, PauseSnapshot
    <2>2. CASE ~Passes("before_completion", Operating)
      BY <2>2 DEF Close
    <2> QED BY <2>1, <2>2
  <1>8. IsActive' => IsActive
    BY <1>7 DEF IsActive, Active
  <1>9. ASSUME NEW u \in Turns, NEW x \in Flows, IsActive', flow'[u][x].phase = "operating"
        PROVE  u = epoch'
    BY <1>3, <1>4, <1>8, <1>9
  <1>10. CASE UNCHANGED <<transitions, transition>>
    <2>1. OnePause'
      BY <1>7, <1>10 DEF CalmState, OnePause
    <2>2. ASSUME NEW u \in Turns, NEW x \in Flows, transition # 0, flow'[u][x].on = transition,
                 flow'[u][x].phase = "before_operation"
          PROVE  u = epoch'
      BY <1>3, <1>4, <2>2
    <2>3. OwnFlows'
      BY <1>4, <1>9, <1>10, <2>2 DEF OwnFlows
    <2>4. Quiet'
      BY <1>6, <1>10 DEF CalmState, Quiet
    <2> QED BY <1>5, <2>1, <2>3, <2>4 DEF CalmState
  <1>11. CASE ~UNCHANGED <<transitions, transition>>
    <2>1. Pauses("before_completion", Operating) /\ NewTransition(t, "before_completion")
      BY <1>2, <1>11 DEF Checkpoint
    <2>2. transition = 0 /\ snapshot.state = "pause_pending" /\ Operating = {} /\ UNCHANGED snapshot
      BY <1>7, <1>11, <2>1 DEF Pauses
    <2>3. OnePause'
      BY <1>1, <2>1, <2>2, PausingIsOnePause DEF CalmState
    <2>4. transition' = Len(transitions) + 1 /\ Len(transitions) \in Nat
      BY <1>1, <2>1, NewTransitionFacts, TypeFacts
    <2>5. ASSUME NEW u \in Turns, NEW x \in Flows, flow'[u][x].on = transition'
          PROVE  u = t /\ x = Main
      <3>1. flow[u][x].on # transition'
        BY <2>4, TypeFacts DEF Awaited
      <3> QED BY <1>3, <2>5, <3>1
    <2>6. OwnFlows'
      BY <1>4, <1>9, <2>5 DEF OwnFlows
    <2>7. Operating' = {}
      BY <1>6, <2>2
    <2> QED BY <1>5, <2>3, <2>6, <2>7 DEF CalmState, Quiet
  <1> QED BY <1>10, <1>11

LEMMA ClaimCalm ==
    ASSUME PauseTypeOK, NEW t \in Turns, ClaimedByFlow(t), t = epoch', ~overtaken',
           Unsettled = {}, UNCHANGED transitions
    PROVE  CalmState'
  <1>1. NoWrite /\ snapshot' = Running(t) /\ transition' = 0
    BY DEF ClaimedByFlow
  <1>2. \A u \in Turns, x \in Flows :
            flow'[u][x].phase \in {"ready", flow[u][x].phase} /\ flow[u][x].phase # "operating"
    <2> SUFFICES ASSUME NEW u \in Turns, NEW x \in Flows
                 PROVE  flow'[u][x].phase \in {"ready", flow[u][x].phase}
                          /\ flow[u][x].phase # "operating"
      OBVIOUS
    <2>1. <<u, x>> \notin Unsettled
      OBVIOUS
    <2>2. flow[u][x].phase # "operating"
      BY <2>1 DEF Unsettled
    <2>3. flow' = [flow EXCEPT ![t][Main] = [flow[t][Main] EXCEPT !.phase = "ready"]]
      BY TypeFacts DEF ClaimedByFlow
    <2>4. [flow[t][Main] EXCEPT !.phase = "ready"].phase = "ready"
      BY TypeFacts DEF Flow
    <2>5. flow'[u][x] \in {flow[u][x], [flow[t][Main] EXCEPT !.phase = "ready"]}
      BY <2>3, TypeFacts
    <2> QED BY <2>2, <2>4, <2>5
  <1>3. OnePause'
    BY <1>1, TypeFacts DEF OnePause, NoWrite, PauseTypeOK
  <1>4. OwnTurn'
    BY <1>1 DEF OwnTurn, IsActive, Active, Running
  <1>5. OwnFlows' /\ Quiet'
    BY <1>1, <1>2 DEF OwnFlows, Quiet
  <1> QED BY <1>3, <1>4, <1>5 DEF CalmState

LEMMA PersistCalm ==
    ASSUME PauseTypeOK, Order, Waits, Awaited, CalmState, NEW i \in 1..Len(transitions),
           NEW ok \in BOOLEAN, PersistSettles(i, ok)
    PROVE  CalmState'
  <1> DEFINE tr == transitions[i]
             cancelled == snapshot.state = "cancelled"
  <1>1. /\ tr \in Transition /\ tr.phase = "persisting" /\ UNCHANGED epoch
        /\ i # 0 /\ transitions \in Seq(Transition)
    BY TypeFacts DEF PersistSettles, PauseTypeOK
  <1>2. cancelled \/ (i = transition /\ ~tr.gate /\ snapshot.state = "pause_pending")
    BY <1>1 DEF CalmState, OnePause
  <1>3. UnderWay' = UnderWay
    <2>1. \E passed \in BOOLEAN : flow' = flow \/ flow' = Released(i, passed)
      BY DEF PersistSettles
    <2> QED BY <1>1, <2>1, ReleasedOrder
  <1>4. ASSUME NEW phase \in {"suspended", "ended"},
               transitions' = [transitions EXCEPT ![i].phase = phase]
        PROVE  /\ Len(transitions') = Len(transitions)
               /\ transitions'[i] = [tr EXCEPT !.phase = phase]
               /\ \A j \in 1..Len(transitions) : j # i => transitions'[j] = transitions[j]
    BY <1>1, <1>4
  <1>5. CASE ok /\ ~cancelled
    <2>1. /\ snapshot' = [state |-> "paused", turn |-> tr.turn, boundary |-> tr.boundary]
          /\ transitions' = [transitions EXCEPT ![i].phase = "suspended"]
          /\ UNCHANGED <<flow, transition>> /\ i = transition
      BY <1>2, <1>5 DEF PersistSettles
    <2>2. /\ Len(transitions') = Len(transitions)
          /\ transitions'[i] = [tr EXCEPT !.phase = "suspended"]
          /\ \A j \in 1..Len(transitions) : j # i => transitions'[j] = transitions[j]
      BY <1>4, <2>1
    <2>3. /\ transitions'[i].phase = "suspended" /\ ~transitions'[i].gate
          /\ transitions'[i].turn = tr.turn /\ transitions'[i].boundary = tr.boundary
      BY <1>1, <1>2, <1>5, <2>2 DEF Transition
    <2>4. OnePause'
      BY <1>5, <2>1, <2>2, <2>3 DEF CalmState, OnePause
    <2>5. OwnTurn'
      BY <1>1, <1>3, <2>1, <2>3 DEF CalmState, OwnTurn, IsActive, Active
    <2>6. OwnFlows'
      BY <1>1, <1>2, <1>3, <1>5, <2>1 DEF CalmState, OwnFlows, IsActive, Active
    <2>7. Quiet'
      BY <2>1, <2>3 DEF CalmState, Quiet, Operating
    <2> QED BY <2>4, <2>5, <2>6, <2>7 DEF CalmState
  <1>6. CASE ~(ok /\ ~cancelled)
    <2>1. /\ transitions' = [transitions EXCEPT ![i].phase = "ended"]
          /\ transition' = IF transition = i THEN 0 ELSE transition
          /\ flow' = Released(i, FALSE)
      BY <1>6 DEF PersistSettles
    <2>2. /\ Len(transitions') = Len(transitions) /\ transitions'[i].phase = "ended"
          /\ \A j \in 1..Len(transitions) : j # i => transitions'[j] = transitions[j]
      <3>1. [tr EXCEPT !.phase = "ended"].phase = "ended"
        BY <1>1 DEF Transition
      <3> QED BY <1>4, <2>1, <3>1
    <2>3. transition' = 0
      <3>1. cancelled => transition = 0
        BY PauseIsActive DEF CalmState
      <3> QED BY <1>2, <2>1, <3>1
    <2>4. \A t \in Turns, w \in Flows :
             flow'[t][w].phase = "operating" => flow[t][w].phase = "operating"
      <3> SUFFICES ASSUME NEW t \in Turns, NEW w \in Flows, flow'[t][w].phase = "operating"
                   PROVE  flow[t][w].phase = "operating"
        OBVIOUS
      <3>1. flow'[t][w] \in {flow[t][w], NoFlow, Idle}
        BY <2>1 DEF Released
      <3> QED BY <3>1 DEF NoFlow, Idle
    <2>5. CASE cancelled
      <3>1. UNCHANGED snapshot
        BY <2>5 DEF PersistSettles
      <3>2. OnePause'
        BY <2>3, <2>5, <3>1 DEF OnePause
      <3>3. ~IsActive /\ ~IsActive'
        BY <2>5, <3>1 DEF IsActive, Active
      <3>4. OwnTurn'
        BY <1>3, <3>3 DEF CalmState, OwnTurn
      <3> QED BY <2>3, <3>2, <3>3, <3>4 DEF CalmState, OwnFlows, Quiet
    <2>6. CASE ~cancelled
      <3>1. i = transition
        BY <1>2, <2>6
      <3>2. \/ snapshot' = Running(tr.turn)
            \/ ~UnderWay /\ snapshot' = Completed(Running(tr.turn))
        <4>1. \E again \in (IF CurrentFinishing(i) /\ ~busy THEN BOOLEAN ELSE {FALSE}) :
                  snapshot' = IF again THEN Completed(Running(tr.turn)) ELSE Running(tr.turn)
          BY <1>6, <2>6 DEF PersistSettles
        <4>2. CurrentFinishing(i) => ~UnderWay
          BY DEF CurrentFinishing, Finishing, UnderWay, Under
        <4> QED BY <4>1, <4>2
      <3>3. snapshot'.turn = tr.turn /\ (UnderWay => IsActive')
        BY <3>2 DEF Running, Completed, IsActive, Active
      <3>4. OnePause'
        <4>1. \A j \in 1..Len(transitions') : transitions'[j].phase # "persisting"
          BY <2>2, <2>6, <3>1 DEF CalmState, OnePause
        <4> QED BY <2>3, <4>1 DEF OnePause
      <3>5. OwnTurn'
        BY <1>1, <1>3, <2>3, <3>1, <3>3 DEF CalmState, OwnTurn
      <3>6. OwnFlows'
        BY <1>1, <1>2, <2>3, <2>4, <2>6 DEF CalmState, OwnFlows, IsActive, Active
      <3> QED BY <2>3, <3>4, <3>5, <3>6 DEF CalmState, Quiet
    <2> QED BY <2>5, <2>6
  <1> QED BY <1>5, <1>6

LEMMA ResumeCalm ==
    ASSUME PauseTypeOK, Order, Waits, Awaited, CalmState, ResumeTurn
    PROVE  CalmState'
  <1>1. /\ transition \in 1..Len(transitions) /\ snapshot.state = "paused"
        /\ transition' = 0 /\ UNCHANGED epoch /\ transitions \in Seq(Transition)
    BY TypeFacts DEF ResumeTurn, PauseTypeOK
  <1>2. flow' = Released(transition, TRUE)
    BY DEF ResumeTurn
  <1>3. UnderWay' = UnderWay
    BY <1>1, <1>2, ReleasedOrder
  <1>4. OnePause'
    <2>1. /\ Len(transitions') = Len(transitions) /\ transitions'[transition].phase = "ended"
          /\ \A j \in 1..Len(transitions) : j # transition => transitions'[j] = transitions[j]
      <3> DEFINE tr == [transitions[transition] EXCEPT !.phase = "ended", !.gate = TRUE]
      <3>1. transitions' = [transitions EXCEPT ![transition] = tr]
        BY <1>1 DEF ResumeTurn
      <3>2. tr.phase = "ended"
        BY <1>1, TypeFacts DEF Transition
      <3> HIDE DEF tr
      <3> QED BY <1>1, <3>1, <3>2
    <2>2. \A j \in 1..Len(transitions') : transitions'[j].phase # "persisting"
      BY <1>1, <2>1 DEF CalmState, OnePause
    <2> QED BY <1>1, <2>2 DEF OnePause
  <1>5. OwnTurn'
    <2>1. UnderWay => ~SomeFinishing(transition)
      BY <1>1, PauseAssumption DEF SomeFinishing, Finishing, Awaits, CalmState, OwnFlows
    <2>2. UnderWay => snapshot' = Running(snapshot.turn)
      BY <2>1 DEF ResumeTurn
    <2> QED BY <1>1, <1>3, <2>2 DEF CalmState, OwnTurn, IsActive, Active, Running
  <1>6. ASSUME NEW t \in Turns, NEW w \in Flows, flow'[t][w].phase = "operating" PROVE t = epoch
    <2>1. CASE flow[t][w].on = transition /\ flow[t][w].phase = "before_operation"
      BY <1>1, <2>1 DEF CalmState, OwnFlows
    <2>2. CASE flow[t][w].phase = "operating"
      BY <1>1, <2>2 DEF CalmState, OwnFlows, IsActive, Active
    <2>3. flow'[t][w] = IF flow[t][w].on # transition THEN flow[t][w]
                        ELSE IF flow[t][w].phase = "before_completion" THEN NoFlow
                        ELSE IF flow[t][w].phase = "before_operation"
                        THEN [phase |-> "operating", on |-> 0] ELSE Idle
      BY <1>2 DEF Released, Awaits
    <2> QED BY <1>6, <2>1, <2>2, <2>3 DEF NoFlow, Idle
  <1> QED BY <1>1, <1>4, <1>5, <1>6 DEF CalmState, OwnFlows, Quiet

LEMMA InterruptCalm ==
    ASSUME PauseTypeOK, Order, Waits, Awaited, CalmState, InterruptTurn
    PROVE  CalmState'
  <1>1. epoch + 1 \in Turns /\ epoch' = epoch + 1
    BY DEF InterruptTurn, Order
  <1>2. flow' = flow \/ (transition \in 1..Len(transitions) /\ flow' = Released(transition, FALSE))
    <2>1. flow' = flow \/ (transition # 0 /\ flow' = Released(transition, FALSE))
      BY DEF InterruptTurn
    <2>2. transition # 0 => transition \in 1..Len(transitions)
      BY TypeFacts
    <2> QED BY <2>1, <2>2
  <1>3. ~UnderWay'
    <2>1. flow[epoch + 1][Main] = NoFlow /\ Main \in Flows
      <3>1. epoch + 1 > epoch
        BY TypeFacts
      <3> QED BY <1>1, <3>1, PauseAssumption DEF Order
    <2>2. flow'[epoch + 1][Main] = NoFlow
      <3>1. CASE flow' = flow
        BY <2>1, <3>1
      <3>2. CASE transition \in 1..Len(transitions) /\ flow' = Released(transition, FALSE)
        <4>1. transition \in 1..Len(transitions) /\ flow[epoch + 1][Main].on # transition
          BY <2>1, <3>2 DEF NoFlow
        <4> QED BY <1>1, <2>1, <3>2, <4>1 DEF Released, Awaits
      <3> QED BY <1>2, <3>1, <3>2
    <2> QED BY <1>1, <2>2 DEF UnderWay, Under, NoFlow
  <1>4. transition' = 0 /\ ~IsActive'
    <2>1. CASE ~IsActive
      <3>1. UNCHANGED <<snapshot, transition>>
        BY <2>1 DEF InterruptTurn, IsActive
      <3> QED BY <2>1, <3>1, PauseIsActive DEF CalmState, IsActive
    <2>2. CASE IsActive
      <3>1. snapshot' = [snapshot EXCEPT !.state = "cancelled", !.boundary = "none"]
              /\ transition' = 0
        BY <2>2 DEF InterruptTurn, IsActive
      <3>2. snapshot'.state = "cancelled"
        BY <3>1 DEF PauseTypeOK, PauseSnapshot
      <3> QED BY <3>1, <3>2 DEF IsActive, Active
    <2> QED BY <2>1, <2>2
  <1>5. OnePause'
    <2>1. CASE ~IsActive
      <3>1. UNCHANGED <<snapshot, transition, transitions>>
        BY <2>1 DEF InterruptTurn, IsActive
      <3> QED BY <3>1 DEF CalmState, OnePause
    <2>2. CASE IsActive
      <3>1. snapshot' = [snapshot EXCEPT !.state = "cancelled", !.boundary = "none"]
        BY <2>2 DEF InterruptTurn, IsActive
      <3>2. snapshot'.state = "cancelled"
        BY <3>1 DEF PauseTypeOK, PauseSnapshot
      <3> QED BY <1>4, <3>2 DEF OnePause
    <2> QED BY <2>1, <2>2
  <1> QED BY <1>3, <1>4, <1>5 DEF CalmState, OwnTurn, OwnFlows, Quiet

\* The flows of a turn that is not under way do not operate, and await no operation.
LEMMA NothingUnderWay ==
    ASSUME PauseTypeOK, Order, CalmState, ~UnderWay
    PROVE  \A t \in Turns, w \in Flows :
              /\ IsActive => flow[t][w].phase # "operating"
              /\ transition # 0 /\ flow[t][w].on = transition =>
                     flow[t][w].phase # "before_operation"
  <1> SUFFICES ASSUME NEW t \in Turns, NEW w \in Flows,
                      flow[t][w].phase \in {"operating", "before_operation"}, t = epoch
               PROVE  FALSE
    BY DEF CalmState, OwnFlows
  <1> QED BY CurrentIsUnderWay, TypeFacts DEF Under

LEMMA SubmitCalm ==
    ASSUME PauseTypeOK, Order, Waits, Awaited, CalmState, ~overtaken', SubmitTurn
    PROVE  CalmState'
  <1>1. /\ epoch + 1 \in Turns /\ epoch' = epoch + 1 /\ epoch + 1 > epoch
        /\ ~UnderWay
    <2>1. ~busy /\ epoch' = epoch + 1 /\ epoch + 2 \in Turns
      BY DEF SubmitTurn
    <2>2. epoch + 1 \in Turns /\ epoch + 1 > epoch
      BY <2>1, TypeFacts, PauseAssumption DEF Turns
    <2> QED BY <2>1, <2>2 DEF Order
  <1>2. CASE IsActive /\ Close(epoch', TRUE)
    <2>1. \A u \in Turns, x \in Flows :
             /\ IsActive /\ flow[u][x].phase = "operating" => u = epoch'
             /\ transition # 0 /\ flow[u][x].on = transition
                    /\ flow[u][x].phase = "before_operation" => u = epoch'
      BY <1>1, NothingUnderWay
    <2>2. epoch' \in Turns
      BY <1>1
    <2> QED BY <1>2, <2>1, <2>2, CloseCalm
  <1>3. CASE ~IsActive /\ UNCHANGED <<snapshot, transitions, transition, flow>>
    <2>1. transition = 0
      BY <1>3, PauseIsActive DEF CalmState
    <2>2. ~UnderWay'
      BY <1>1, <1>3, PauseAssumption DEF Order, UnderWay, Under, NoFlow
    <2>3. OnePause' /\ ~IsActive'
      BY <1>3 DEF CalmState, OnePause, IsActive
    <2> QED BY <1>3, <2>1, <2>2, <2>3 DEF CalmState, OwnTurn, OwnFlows, Quiet
  <1>4. CASE Unsettled = {} /\ ClaimedByFlow(epoch') /\ UNCHANGED transitions
    <2>1. epoch' \in Turns
      BY <1>1
    <2> QED BY <1>4, <2>1, ClaimCalm
  <1> QED BY <1>2, <1>3, <1>4 DEF SubmitTurn, IsActive

LEMMA RequestCalm ==
    ASSUME PauseTypeOK, Order, Awaited, CalmState, NEW deciding \in BOOLEAN, RequestPause(deciding)
    PROVE  CalmState'
  <1>1. /\ UNCHANGED <<flow, epoch>> /\ snapshot'.turn = snapshot.turn
        /\ snapshot'.state = "pause_pending" /\ epoch \in Turns
        /\ snapshot.state \in {"running", "pause_pending"}
    BY TypeFacts DEF RequestPause, Order, PauseSnapshot
  <1>2. IsActive /\ IsActive' /\ UnderWay' = UnderWay /\ Operating' = Operating
    BY <1>1 DEF IsActive, Active, UnderWay, Operating
  <1>3. CASE UNCHANGED <<transitions, transition>>
    BY <1>1, <1>2, <1>3 DEF CalmState, OnePause, OwnTurn, OwnFlows, Quiet
  <1>4. CASE transition = 0 /\ NewTransition(epoch, "before_approval")
    <2>1. "before_approval" \in Boundaries
      BY DEF Boundaries
    <2>2. OnePause'
      BY <1>1, <1>4, <2>1, PausingIsOnePause DEF CalmState
    <2>3. /\ transitions'[transition'] = [turn |-> epoch, boundary |-> "before_approval",
                                          phase |-> "persisting", gate |-> FALSE]
          /\ transition' = Len(transitions) + 1 /\ Len(transitions) \in Nat
      BY <1>1, <1>4, <2>1, NewTransitionFacts, TypeFacts
    <2>4. \A u \in Turns, x \in Flows : flow[u][x].on # transition'
      BY <2>3, TypeFacts DEF Awaited
    <2> QED BY <1>1, <1>2, <2>2, <2>3, <2>4 DEF CalmState, OwnTurn, OwnFlows, Quiet
  <1> QED BY <1>3, <1>4 DEF RequestPause

\* A flow that comes or goes beside the checkpoints leaves a calm state calm.
LEMMA FlowCalm ==
    ASSUME PauseTypeOK, CalmState, NEW t \in Turns, NEW w \in Flows, NEW f \in {NoFlow, Idle},
           flow' = [flow EXCEPT ![t][w] = f], UnderWay' = UnderWay,
           UNCHANGED <<snapshot, transitions, transition, epoch>>
    PROVE  CalmState'
  <1>1. \A u \in Turns, x \in Flows : flow'[u][x] \in {flow[u][x], f}
    BY TypeFacts
  <1>2. f.phase \in {"off", "ready"} /\ f.on = 0
    BY DEF NoFlow, Idle
  <1>3. Operating' \subseteq Operating
    BY <1>1, <1>2 DEF Operating
  <1>4. OwnFlows'
    BY <1>1, <1>2 DEF CalmState, OwnFlows, IsActive
  <1> QED BY <1>3, <1>4 DEF CalmState, OnePause, OwnTurn, Quiet, IsActive

LEMMA CalmStep ==
    ASSUME PauseTypeOK, Order, Waits, Awaited, Calm, PauseNext
    PROVE  Calm'
  <1>0. CASE overtaken'
    BY <1>0 DEF Calm
  <1> SUFFICES ASSUME ~overtaken' PROVE CalmState'
    BY <1>0 DEF Calm, CalmState
  <1>1. CalmState
    <2>1. ~overtaken
      BY DEF PauseNext, StartOperation, BetweenNodes, Fork, FlowStep, EndOperation, LeaveFlow,
         Finish, PersistSettles, RequestPause, ResumeTurn, InterruptTurn, SubmitTurn, Begin,
         ClaimedByFlow
    <2> QED BY <2>1 DEF Calm, CalmState
  <1>2. ASSUME NEW t \in Turns, NEW w \in Flows, StartOperation(t, w) PROVE CalmState'
    <2>1. /\ t = epoch /\ flow[t][w].phase \in Under /\ UNCHANGED <<snapshot, epoch>>
          /\ Checkpoint(t, w, "before_operation", Operating, "operating", "before_operation")
      BY <1>2 DEF StartOperation, Ready, Under
    <2> QED BY <1>1, <1>2, <2>1, StepCalm
  <1>3. ASSUME NEW t \in Turns, NEW w \in Flows, BetweenNodes(t, w) PROVE CalmState'
    <2>1. /\ t = epoch /\ flow[t][w].phase \in Under /\ UNCHANGED <<snapshot, epoch>>
          /\ Checkpoint(t, w, "between_nodes", Operating, "ready", "between_nodes")
      BY <1>3 DEF BetweenNodes, Ready, Under
    <2> QED BY <1>1, <1>3, <2>1, StepCalm
  <1>4. ASSUME NEW t \in Turns, NEW w \in Flows, EndOperation(t, w) PROVE CalmState'
    <2>1. /\ flow[t][w].phase = "operating" /\ UNCHANGED <<snapshot, epoch>>
          /\ Checkpoint(t, w, "after_operation", Operating \ {<<t, w>>}, "ready", "after_operation")
      BY <1>4 DEF EndOperation
    <2>2. flow[t][w].phase \in Under
      BY <2>1 DEF Under
    <2> QED BY <1>1, <1>4, <2>1, <2>2, StepCalm
  <1>5. ASSUME NEW t \in Turns, NEW w \in Flows, Fork(t, w) PROVE CalmState'
    <2>1. flow[t][w] = NoFlow /\ flow[t][Main].phase = "ready"
      BY <1>5, TypeFacts DEF Fork, Ready, Awaited, Flow, NoFlow
    <2>2. flow' = [flow EXCEPT ![t][w] = [flow[t][w] EXCEPT !.phase = "ready"]]
      BY <1>5, TypeFacts DEF Fork
    <2>3. [flow[t][w] EXCEPT !.phase = "ready"] = Idle
      BY <2>1 DEF NoFlow, Idle
    <2>4. flow' = [flow EXCEPT ![t][w] = Idle]
      BY <2>2, <2>3
    <2>5. UnderWay' = UnderWay
      <3>1. w # Main
        BY <2>1 DEF NoFlow
      <3>2. \A u \in Turns : flow'[u][Main] = flow[u][Main]
        BY <2>4, <3>1, TypeFacts
      <3> QED BY <1>5, <3>2, TypeFacts DEF Fork, UnderWay
    <2> QED BY <1>1, <1>5, <2>4, <2>5, FlowCalm DEF Fork
  <1>6. ASSUME NEW t \in Turns, NEW w \in Flows, LeaveFlow(t, w) PROVE CalmState'
    <2>1. /\ flow' = [flow EXCEPT ![t][w] = NoFlow] /\ (w # Main \/ t # epoch)
          /\ UNCHANGED <<snapshot, transitions, transition, epoch>>
      BY <1>6 DEF LeaveFlow
    <2>2. UnderWay' = UnderWay
      BY <1>6, <2>1, TypeFacts DEF UnderWay
    <2> QED BY <1>1, <1>6, <2>1, <2>2, FlowCalm
  <1>7. ASSUME NEW t \in Turns, Finish(t) PROVE CalmState'
    <2>1. t = epoch' /\ t = epoch /\ flow[t][Main].phase = "ready"
            /\ \A w \in Flows : w # Main => flow[t][w].phase = "off"
      BY <1>7 DEF Finish, Ready
    <2>2. PICK b \in {busy, FALSE} : Close(t, b)
      BY <1>7 DEF Finish
    <2>3. \A u \in Turns, x \in Flows :
             /\ IsActive /\ flow[u][x].phase = "operating" => u = t
             /\ transition # 0 /\ flow[u][x].on = transition
                    /\ flow[u][x].phase = "before_operation" => u = t
      BY <1>1, <2>1 DEF CalmState, OwnFlows
    <2> QED BY <1>1, <1>7, <2>1, <2>2, <2>3, CloseCalm
  <1>8. ASSUME NEW i \in 1..Len(transitions), NEW ok \in BOOLEAN, PersistSettles(i, ok)
        PROVE  CalmState'
    BY <1>1, <1>8, PersistCalm
  <1>9. ASSUME NEW deciding \in BOOLEAN, RequestPause(deciding) PROVE CalmState'
    BY <1>1, <1>9, RequestCalm
  <1>10. CASE ResumeTurn
    BY <1>1, <1>10, ResumeCalm
  <1>11. CASE InterruptTurn
    BY <1>1, <1>11, InterruptCalm
  <1>12. CASE SubmitTurn
    BY <1>1, <1>12, SubmitCalm
  <1>13. CASE Begin
    <2>1. waiting \in Turns /\ waiting = epoch'
      BY <1>13, TypeFacts DEF Begin, Waits
    <2>2. Unsettled = {} /\ ClaimedByFlow(waiting) /\ UNCHANGED transitions
      BY <1>13 DEF Begin
    <2> QED BY <2>1, <2>2, ClaimCalm
  <1> QED BY <1>2, <1>3, <1>4, <1>5, <1>6, <1>7, <1>8, <1>9, <1>10, <1>11, <1>12, <1>13
     DEF PauseNext, FlowStep

---------------------------------------------------------------------------
(* The theorems.                                                           *)

\* What is always so of the pauses of a work shell's turns.
THEOREM PauseInvariant == PauseSpec => []PauseInv
  <1>1. PauseInit => PauseInv
    <2> SUFFICES ASSUME PauseInit PROVE PauseInv
      OBVIOUS
    <2>1. \A t \in Turns, w \in Flows : flow[t][w] = NoFlow
      BY DEF PauseInit
    <2>2. PauseTypeOK
      <3>1. snapshot \in PauseSnapshot /\ (snapshot.state = "paused") = (snapshot.boundary # "none")
        BY DEF PauseInit, PauseSnapshot, States, Boundaries
      <3>2. acks \in Seq(Ack) /\ ack \in 0..Len(acks)
        BY DEF PauseInit
      <3>3. transitions \in Seq(Transition) /\ transition \in 0..Len(transitions)
        BY DEF PauseInit
      <3>4. NoFlow \in Flow
        BY DEF NoFlow, Flow, Phases
      <3>5. flow \in [Turns -> [Flows -> Flow]]
        BY <3>4 DEF PauseInit
      <3> QED BY <3>1, <3>2, <3>3, <3>5 DEF PauseInit, PauseTypeOK
    <2>3. Order /\ Waits
      BY <2>1, TypeFacts, <2>2, PauseAssumption DEF PauseInit, Order, Waits, UnderWay
    <2>4. Awaited
      BY <2>1 DEF PauseInit, Awaited, NoFlow
    <2>5. Calm
      BY <2>1 DEF PauseInit, Calm, OnePause, OwnTurn, OwnFlows, Quiet, UnderWay, NoFlow
    <2> QED BY <2>2, <2>3, <2>4, <2>5 DEF PauseInv
  <1>2. PauseInv /\ [PauseNext]_pauseVars => PauseInv'
    <2> SUFFICES ASSUME PauseInv, [PauseNext]_pauseVars PROVE PauseInv'
      OBVIOUS
    <2>1. CASE PauseNext
      BY <2>1, TypeStep, OrderStep, CalmStep DEF PauseInv
    <2>2. CASE UNCHANGED pauseVars
      BY <2>2 DEF pauseVars, PauseInv, PauseTypeOK, Order, Waits, Awaited, Calm, OnePause,
         OwnTurn, OwnFlows, Quiet, UnderWay, IsActive, Operating
    <2> QED BY <2>1, <2>2
  <1> QED BY <1>1, <1>2, PTL DEF PauseSpec

\* The state is well-formed; a boundary is shown while, and only while, the turn is
\* paused (work-shell-pause-controller.ts: snapshots are built in checkpoint and
\* resume).
THEOREM PauseTypeCorrect == PauseSpec => []PauseTypeOK
  BY PauseInvariant, PTL DEF PauseInv

\* While a pause is being written or holds, no flow is inside an operation, unless the
\* pause was taken at a pending decision, or the turn was overtaken
\* (checkpoint: "Defer acknowledgement until the last irreversible operation ...").
THEOREM PauseIsQuiet == PauseSpec => []PausedIsQuiet
  <1>1. PauseInv => PausedIsQuiet
    BY DEF PauseInv, Calm, Quiet, PausedIsQuiet
  <1> QED BY <1>1, PauseInvariant, PTL

\* An operation that runs while a turn is active is that turn's (beginTurn drains the
\* operations of the one before), unless the turn was overtaken.
THEOREM TurnsAreApart == PauseSpec => []TurnsDoNotOverlap
  <1>1. PauseInv => TurnsDoNotOverlap
    <2> SUFFICES ASSUME PauseInv, ~overtaken, NEW x \in Operating, IsActive
                 PROVE  x[1] = snapshot.turn
      BY DEF TurnsDoNotOverlap, IsActive
    <2>1. x[1] \in Turns /\ x[2] \in Flows /\ flow[x[1]][x[2]].phase = "operating"
      BY DEF Operating
    <2>2. x[1] = epoch
      BY <2>1 DEF PauseInv, Calm, OwnFlows
    <2>3. UnderWay
      BY <2>1, <2>2, CurrentIsUnderWay, TypeFacts DEF PauseInv, Under
    <2> QED BY <2>2, <2>3 DEF PauseInv, Calm, OwnTurn
  <1> QED BY <1>1, PauseInvariant, PTL

\* A turn that was interrupted stays cancelled, whatever settles late
\* (interruptTurn, and the check of `cancelled` after `await persist`).
THEOREM InterruptHolds == PauseSpec => InterruptIsFinal
  <1>1. PauseInv /\ [PauseNext]_pauseVars =>
            [snapshot.state = "cancelled" /\ snapshot'.turn = snapshot.turn
                 => snapshot'.state = "cancelled"]_pauseVars
    <2> SUFFICES ASSUME PauseInv, PauseNext, snapshot.state = "cancelled",
                        snapshot'.turn = snapshot.turn
                 PROVE  snapshot'.state = "cancelled"
      OBVIOUS
    <2>1. ASSUME NEW t \in Turns, ClaimedByFlow(t), t > snapshot.turn PROVE FALSE
      <3>1. snapshot'.turn = t /\ snapshot.turn \in Nat
        BY <2>1, TypeFacts DEF PauseInv, ClaimedByFlow, Running
      <3> QED BY <2>1, <3>1, TypeFacts DEF PauseInv
    <2>2. ASSUME NEW t \in Turns, Finish(t) PROVE UNCHANGED snapshot
      BY <2>2 DEF Finish, Close, Completed
    <2>3. CASE SubmitTurn
      <3>1. /\ epoch + 1 \in Turns /\ epoch' = epoch + 1 /\ epoch + 1 > snapshot.turn
        BY <2>3, TypeFacts, PauseAssumption DEF SubmitTurn, Turns, PauseInv, Order
      <3>2. UNCHANGED snapshot \/ ClaimedByFlow(epoch')
        BY <2>3 DEF SubmitTurn, Active
      <3> QED BY <2>1, <3>1, <3>2
    <2>4. CASE Begin
      <3>1. waiting \in Turns /\ ClaimedByFlow(waiting) /\ waiting > snapshot.turn
        BY <2>4, TypeFacts DEF Begin, PauseInv, Waits
      <3> QED BY <2>1, <3>1
    <2>5. CASE InterruptTurn
      BY <2>5 DEF InterruptTurn, Active
    <2>6. ASSUME NEW i \in 1..Len(transitions), NEW ok \in BOOLEAN, PersistSettles(i, ok)
          PROVE  UNCHANGED snapshot
      BY <2>6 DEF PersistSettles
    <2> QED BY <2>2, <2>3, <2>4, <2>5, <2>6 DEF PauseNext, FlowStep, StartOperation,
       BetweenNodes, Fork, EndOperation, LeaveFlow, RequestPause, ResumeTurn
  <1> QED BY <1>1, PauseInvariant, PTL DEF PauseSpec, InterruptIsFinal

=============================================================================
