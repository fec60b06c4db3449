---------------------------- MODULE WorkGraphProofs ----------------------------
(***************************************************************************)
(* The work graph for any plan, any number of workers and any bounds.      *)
(*                                                                         *)
(* Two arguments meet.  The scheduler's: a task is in one place - pending, *)
(* to be taken, at one worker, or reported - and untouched until a worker  *)
(* runs it, which then holds its files until the run has ended (Resting,   *)
(* Placed, Holding, Due).  The run controller's: its record of a job and   *)
(* the phase of its run change together (Records), parked runs are those   *)
(* in the queue (Parking), and guidance that was accepted is in the        *)
(* mailbox until it is delivered or the run is aborted (Guidance).         *)
(*                                                                         *)
(* The last part shows that all of it implements PlanExecution.            *)
(***************************************************************************)
EXTENDS WorkGraph, SequenceTheorems, FiniteSetTheorems, TLAPS

AtTask(w) == worker[w].phase \in {"claiming", "executing"}
AtRest(w) == worker[w].phase \in {"off", "done"}
UnderWay(r) == run[r].phase \notin {"none"} \cup Ended
Untouched(t) == run[t].phase = "none" /\ result[t] = "none"
Met(t) == \A d \in DependsOn[t] : result[d] = "completed"

\* No worker of an earlier wave is left when the scheduler goes on.
Resting ==
    pool.phase \in {"loop", "blocking", "returned"} => \A w \in Workers : AtRest(w)

\* A task is where it should be, and at one place.
Placed ==
    /\ \A t \in pool.pending \cup pool.todo : Untouched(t)
    /\ \A w \in Workers :
          /\ ~AtRest(w) => pool.pending \cap pool.todo = {}
          /\ AtTask(w) => worker[w].task \in Tasks \ (pool.pending \cup pool.todo)
          /\ AtTask(w) => result[worker[w].task] = "none"
          /\ worker[w].phase = "claiming" => Untouched(worker[w].task)
    /\ \A v, w \in Workers :
          v # w /\ AtTask(v) /\ AtTask(w) => worker[v].task # worker[w].task

\* A run under way is executed by a worker that holds its files.
Holding ==
    /\ \A w \in Workers :
          worker[w].phase = "executing" =>
              \A p \in WritePaths[worker[w].task] : owner[p] = w
    /\ \A t \in Tasks :
          UnderWay(t) => \E w \in Workers : worker[w].phase = "executing" /\ worker[w].task = t

\* What is taken had its dependencies completed.
Due ==
    /\ \A d \in pool.successful : result[d] = "completed"
    /\ \A w \in Workers :
          /\ ~AtRest(w) => \A t \in pool.todo : Met(t)
          /\ AtTask(w) => Met(worker[w].task)

\* The queue for permits holds the parked runs, each once.
Parking ==
    /\ \A i, j \in 1..Len(waiting) : waiting[i] = waiting[j] => i = j
    /\ \A r \in Runs : run[r].phase = "parked" <=> \E i \in 1..Len(waiting) : waiting[i] = r

\* The record of a job, its terminal records and its run agree.
Records ==
    /\ \A t \in Tasks :
          \/ job[t] = "queued" /\ settled[t] = 0 /\ ~Active(t)
          \/ job[t] = "dispatched" /\ settled[t] = 0 /\ Active(t)
          \/ job[t] = "absent" /\ settled[t] = 1 /\ ~Active(t)
    /\ cleared => \A t \in Tasks : job[t] # "queued"

\* Guidance that was accepted is in the mailbox, unless the run is aborted.
Guidance ==
    \A r \in Runs :
        /\ Active(r) => run[r].mail = run[r].owed \/ run[r].aborted
        /\ ~Active(r) /\ run[r].phase \notin Ended => run[r].mail = run[r].owed
        /\ run[r].phase = "completed" => run[r].owed = 0

\* Permits are counted right, and nobody waits for one that no run will release.
Permits == /\ IsFiniteSet(Holders) /\ held = Cardinality(Holders)
           /\ waiting # <<>> => held > 0

\* A run of the shared agent is in its queue.
Serving == \A r \in Direct : Active(r) => \E i \in 1..Len(direct) : direct[i] = r

Scheduling == Resting /\ Placed /\ Holding /\ Due
Control == Parking /\ Permits /\ DirectAgentIsExclusive /\ Serving /\ Records /\ Guidance
GraphInv == GraphTypeOK /\ Scheduling /\ Control

\* What StartsAreDue asks of a step.
StepIsDue ==
    /\ \A t \in Tasks \cap (opened' \ opened) : ~cleared /\ Met(t)
    /\ held' > held => held' <= budget


\* The permits that promoteWaiters hands out are as many as the runs it wakes.
LEMMA FirstOnes ==
    ASSUME NEW s, NEW n \in Nat, \A i, j \in 1..n : s[i] = s[j] => i = j,
           NEW some, \A x : x \in some <=> \E i \in 1..n : x = s[i]
    PROVE  IsFiniteSet(some) /\ Cardinality(some) = n
  <1> DEFINE f == [i \in 1..n |-> s[i]]
  <1>1. f \in Bijection(1..n, some)
    BY DEF Bijection, Injection, Surjection, IsInjective
  <1>2. ExistsBijection(1..n, some)
    BY <1>1 DEF ExistsBijection
  <1> QED BY <1>2, FS_NatBijection, FS_CountingElements

LEMMA GraphTypes ==
    ASSUME GraphTypeOK
    PROVE  /\ Workers \subseteq Nat /\ None \notin Workers /\ budget \in Nat \ {0}
           /\ Tasks \subseteq Runs /\ Direct \subseteq Runs /\ held \in Nat /\ Len(waiting) \in Nat
           /\ \A i \in 1..Len(waiting) : waiting[i] \in Tasks
           /\ \A r \in Runs : run[r] \in Run
           /\ \A w \in Workers : worker[w] \in Worker
           /\ \A t \in Tasks : DependsOn[t] \subseteq Tasks /\ WritePaths[t] \subseteq Paths
  BY WorkGraphAssumption DEF GraphTypeOK, Workers, Runs

\* A run ends, its permit is released, and runs in the queue get what is free.
Promoted(x) == run[x].phase = "parked" /\ run'[x] = [run[x] EXCEPT !.phase = "granted"]

LEMMA FreeEffect ==
    ASSUME GraphTypeOK, Parking, Permits, NEW r \in Runs, NEW phase \in Ended, r \in Holders,
           Free(r, phase), UNCHANGED budget
    PROVE  /\ run' \in [Runs -> Run] /\ waiting' \in Seq(Tasks) /\ held' \in Nat
           /\ run'[r] = [run[r] EXCEPT !.phase = phase]
           /\ \A x \in Runs : x # r => run'[x] = run[x] \/ Promoted(x)
           /\ Parking' /\ Permits'
           /\ held' > held => held' <= budget'
  <1> DEFINE room == budget - (held - 1)
             free == IF room < 0 THEN 0 ELSE room
             n == Smaller(Len(waiting), free)
             some == {waiting[i] : i \in 1..n}
  <1> HIDE DEF some, n, free, room
  <1>1. /\ n \in 0..Len(waiting) /\ n \in Nat /\ room \in Int /\ free \in Nat
        /\ n < Len(waiting) => n = free
        /\ n > 0 => n <= room
    BY GraphTypes DEF n, free, room, Smaller
  <1>2. held \in Nat \ {0}
    <2>1. Cardinality(Holders) # 0
      BY FS_EmptySet DEF Permits
    <2> QED BY <2>1, GraphTypes DEF Permits
  <1>3. \A x \in some : x \in Runs /\ run[x].phase = "parked" /\ x # r
    BY <1>1, GraphTypes DEF some, Parking, Holders
  <1>4. IsFiniteSet(some) /\ Cardinality(some) = n
    <2>1. \A i, j \in 1..n : waiting[i] = waiting[j] => i = j
      BY <1>1, GraphTypes DEF Parking
    <2>2. \A x : x \in some <=> \E i \in 1..n : x = waiting[i]
      BY DEF some
    <2> QED BY <1>1, <2>1, <2>2, FirstOnes
  <1>5. /\ held' = held - 1 + n
        /\ waiting' = SubSeq(waiting, n + 1, Len(waiting))
        /\ run' = [x \in Runs |->
                     IF x = r THEN [run[x] EXCEPT !.phase = phase]
                     ELSE IF x \in some THEN [run[x] EXCEPT !.phase = "granted"]
                     ELSE run[x]]
    BY DEF Free, some, n, free, room
  <1>6. /\ waiting' \in Seq(Tasks) /\ Len(waiting') = Len(waiting) - n
        /\ \A i \in 1..Len(waiting') : waiting'[i] = waiting[n + i]
    <2>1. \A i \in n + 1 .. Len(waiting) : waiting[i] \in Tasks
      BY <1>1, GraphTypes
    <2> DEFINE m == n + 1
    <2>2. m \in Int /\ Len(waiting) \in Int
      BY <1>1, GraphTypes
    <2>3. /\ SubSeq(waiting, m, Len(waiting)) \in Seq(Tasks)
          /\ Len(SubSeq(waiting, m, Len(waiting))) =
                IF m <= Len(waiting) THEN Len(waiting) - m + 1 ELSE 0
          /\ \A i \in 1 .. Len(waiting) - m + 1 :
                SubSeq(waiting, m, Len(waiting))[i] = waiting[m + i - 1]
      <3> HIDE DEF m
      <3>1. \A i \in m .. Len(waiting) : waiting[i] \in Tasks
        BY <2>1 DEF m
      <3> QED BY <2>2, <3>1, SubSeqProperties
    <2>4. waiting' = SubSeq(waiting, m, Len(waiting))
      BY <1>5
    <2>5. /\ (IF m <= Len(waiting) THEN Len(waiting) - m + 1 ELSE 0) = Len(waiting) - n
          /\ Len(waiting) - m + 1 = Len(waiting) - n
          /\ \A i \in 1 .. Len(waiting) - n : m + i - 1 = n + i
      BY <1>1, <2>2
    <2> HIDE DEF m
    <2> QED BY <2>3, <2>4, <2>5
  <1>7. run' \in [Runs -> Run]
    BY <1>5, GraphTypes DEF Run, Ended
  <1>8. /\ run'[r] = [run[r] EXCEPT !.phase = phase]
        /\ \A x \in Runs : x # r => run'[x] = run[x] \/ Promoted(x)
    BY <1>3, <1>5 DEF Promoted
  <1>9. /\ run'[r].phase = phase /\ run'[r].phase # "parked"
        /\ \A x \in some : run'[x].phase = "granted"
        /\ \A x \in Runs : x # r /\ x \notin some => run'[x] = run[x]
    BY <1>3, <1>5, <1>8, GraphTypes DEF Run, Ended
  <1>10. Parking'
    <2>1. \A i, j \in 1..Len(waiting') : waiting'[i] = waiting'[j] => i = j
      BY <1>1, <1>6, GraphTypes DEF Parking
    <2>2. ASSUME NEW x \in Runs, NEW i \in 1..Len(waiting'), waiting'[i] = x
          PROVE  run'[x].phase = "parked"
      <3>1. n + i \in 1..Len(waiting) /\ waiting[n + i] = x
        BY <1>1, <1>6, <2>2, GraphTypes
      <3>2. run[x].phase = "parked" /\ x # r
        BY <3>1 DEF Parking, Holders
      <3>3. x \notin some
        BY <1>1, <3>1, GraphTypes DEF some, Parking
      <3> QED BY <1>9, <3>2, <3>3
    <2>3. ASSUME NEW x \in Runs, run'[x].phase = "parked"
          PROVE  \E i \in 1..Len(waiting') : waiting'[i] = x
      <3>1. x # r /\ x \notin some /\ run[x].phase = "parked"
        BY <1>9, <2>3
      <3>2. PICK j \in 1..Len(waiting) : waiting[j] = x
        BY <3>1 DEF Parking
      <3>3. j > n
        BY <1>1, <3>1, <3>2, GraphTypes DEF some
      <3>4. j - n \in 1..Len(waiting') /\ n + (j - n) = j
        BY <1>1, <1>6, <3>2, <3>3, GraphTypes
      <3> QED BY <1>6, <3>2, <3>4
    <2> QED BY <2>1, <2>2, <2>3 DEF Parking
  <1>11. Permits'
    <2>1. Holders' = (Holders \ {r}) \cup some
      <3>1. ASSUME NEW x \in Runs
            PROVE  x \in Holders' <=> x \in (Holders \ {r}) \cup some
        <4>1. CASE x = r
          BY <1>3, <1>9, <4>1 DEF Holders, Ended
        <4>2. CASE x \in some
          BY <1>9, <4>2 DEF Holders
        <4>3. CASE x # r /\ x \notin some
          BY <1>9, <4>3 DEF Holders
        <4> QED BY <4>1, <4>2, <4>3
      <3> QED BY <1>3, <3>1 DEF Holders
    <2>2. (Holders \ {r}) \cap some = {}
      BY <1>3 DEF Holders
    <2>3. IsFiniteSet(Holders \ {r}) /\ Cardinality(Holders \ {r}) = held - 1
      BY FS_RemoveElement DEF Permits
    <2>4. /\ IsFiniteSet((Holders \ {r}) \cup some)
          /\ Cardinality((Holders \ {r}) \cup some) =
                Cardinality(Holders \ {r}) + Cardinality(some) - Cardinality((Holders \ {r}) \cap some)
      BY <1>4, <2>3, FS_Union
    <2>5. Cardinality((Holders \ {r}) \cap some) = 0
      BY <2>2, FS_EmptySet
    <2>6. IsFiniteSet(Holders') /\ held' = Cardinality(Holders')
      BY <1>1, <1>2, <1>4, <1>5, <2>1, <2>3, <2>4, <2>5
    <2>7. waiting' # <<>> => held' > 0
      <3>1. SUFFICES ASSUME waiting' # <<>> PROVE held' > 0
        OBVIOUS
      <3>2. Len(waiting') > 0
        BY <1>6, <3>1
      <3>3. n = free
        BY <1>1, <1>6, <3>2, GraphTypes
      <3>4. free >= 0 /\ free >= room /\ room = budget - (held - 1) /\ budget > 0
        BY <1>1, GraphTypes DEF free, room
      <3>5. held' = held - 1 + free /\ held - 1 \in Nat /\ free \in Nat /\ budget \in Nat
        BY <1>1, <1>2, <1>5, <3>3, GraphTypes
      <3> QED BY <1>2, <3>4, <3>5
    <2> QED BY <2>6, <2>7 DEF Permits
  <1>12. held' \in Nat /\ (held' > held => held' <= budget')
    <2>1. room = budget - (held - 1) /\ budget \in Nat /\ held - 1 \in Nat /\ budget' = budget
      BY <1>2, GraphTypes DEF room
    <2>2. held' = held - 1 + n
      BY <1>5
    <2> QED BY <1>1, <1>2, <2>1, <2>2
  <1> QED BY <1>6, <1>7, <1>8, <1>10, <1>11, <1>12

(***************************************************************************)
(* What a step leaves alone.                                               *)
(***************************************************************************)
LEMMA SchedulingFrame ==
    ASSUME GraphTypeOK, Scheduling, UNCHANGED schedulerVars,
           \A t \in Tasks : /\ UnderWay(t)' => UnderWay(t)
                            /\ run[t].phase = "none" => run'[t].phase = "none"
    PROVE  Scheduling'
  <1>1. UNCHANGED <<pool, worker, owner, result>>
    BY DEF schedulerVars
  <1>2. \A t \in Tasks : Untouched(t) => Untouched(t)'
    BY <1>1 DEF Untouched
  <1>3. Resting'
    BY <1>1 DEF Scheduling, Resting, AtRest
  <1>4. Placed'
    <2>1. (\A t \in pool.pending \cup pool.todo : Untouched(t))'
      BY <1>1, <1>2 DEF Scheduling, Placed, GraphTypeOK, Pool
    <2>2. \A w \in Workers : worker[w].phase = "claiming" => Untouched(worker[w].task)'
      BY <1>1, <1>2 DEF Scheduling, Placed, AtTask, Untouched
    <2> QED BY <1>1, <2>1, <2>2 DEF Scheduling, Placed, AtTask, AtRest
  <1>5. Holding'
    BY <1>1 DEF Scheduling, Holding
  <1>6. Due'
    BY <1>1 DEF Scheduling, Due, Met, AtRest, AtTask
  <1> QED BY <1>3, <1>4, <1>5, <1>6 DEF Scheduling

LEMMA PermitFrame ==
    ASSUME Parking, Permits, UNCHANGED <<held, waiting>>,
           \A r \in Runs : /\ r \in Holders' <=> r \in Holders
                           /\ run'[r].phase = "parked" <=> run[r].phase = "parked"
    PROVE  Parking' /\ Permits'
  <1>1. Holders' = Holders
    BY DEF Holders
  <1> QED BY <1>1 DEF Parking, Permits

LEMMA ControlFrame ==
    ASSUME Control, UNCHANGED <<controllerVars, cleared>>
    PROVE  Control'
  <1> USE DEF controllerVars
  <1>1. Parking' /\ Permits'
    BY PermitFrame DEF Control, Holders
  <1>2. Serving' /\ DirectAgentIsExclusive'
    BY DEF Control, Serving, DirectAgentIsExclusive, Active
  <1>3. Records' /\ Guidance'
    BY DEF Control, Records, Guidance, Active
  <1> QED BY <1>1, <1>2, <1>3 DEF Control

\* The same runs are under way, and no run gets a provider turn.
SameActive == \A x \in Runs : Active(x)' <=> Active(x)
SameTurns == SameActive /\ \A x \in Runs : run'[x].phase = "turn" => run[x].phase = "turn"

\* Only jobs that are queued are settled this way.
LEMMA SettleQueuedEffect ==
    ASSUME GraphTypeOK, Records, NEW S \in SUBSET Tasks, SettleQueued(S),
           SameActive, UNCHANGED cleared \/ S = Tasks
    PROVE  /\ Records' /\ job' \in [Tasks -> {"absent", "queued", "dispatched"}]
           /\ settled' \in [Tasks -> Nat]
  <1>1. /\ job' = [t \in Tasks |-> IF t \in S /\ job[t] = "queued" THEN "absent" ELSE job[t]]
        /\ settled' = [t \in Tasks |-> IF t \in S /\ job[t] = "queued"
                                       THEN settled[t] + 1 ELSE settled[t]]
    BY DEF SettleQueued
  <1>2. job' \in [Tasks -> {"absent", "queued", "dispatched"}] /\ settled' \in [Tasks -> Nat]
    BY <1>1 DEF GraphTypeOK
  <1>3. ASSUME NEW t \in Tasks
        PROVE  /\ \/ job'[t] = "queued" /\ settled'[t] = 0 /\ ~Active(t)'
                  \/ job'[t] = "dispatched" /\ settled'[t] = 0 /\ Active(t)'
                  \/ job'[t] = "absent" /\ settled'[t] = 1 /\ ~Active(t)'
               /\ cleared' => job'[t] # "queued"
    BY <1>1, GraphTypes DEF Records, SameActive
  <1> QED BY <1>2, <1>3 DEF Records

(***************************************************************************)
(* The scheduler.                                                          *)
(***************************************************************************)
\* The parts of the pool after a step.
PoolIs(phase, pending, successful, failed, wave, todo) ==
    /\ pool' \in Pool
    /\ pool'.phase = phase /\ pool'.pending = pending /\ pool'.successful = successful
    /\ pool'.failed = failed /\ pool'.wave = wave /\ pool'.todo = todo

LEMMA PoolTypes ==
    ASSUME GraphTypeOK
    PROVE  /\ pool.pending \subseteq Tasks /\ pool.todo \subseteq Tasks
           /\ pool.successful \subseteq Tasks
  BY DEF GraphTypeOK, Pool

LEMMA ScheduleSafe ==
    ASSUME GraphInv, Schedule
    PROVE  GraphInv' /\ StepIsDue
  <1> USE DEF GraphInv
  <1>1. /\ pool.phase = "loop" /\ UNCHANGED <<owner, result, controllerVars, turnVars>>
        /\ UNCHANGED <<run, held, opened, cleared>>
    BY DEF Schedule, controllerVars, turnVars
  <1>2. Control'
    BY <1>1, ControlFrame
  <1>3. \A w \in Workers : AtRest(w)
    BY <1>1 DEF Scheduling, Resting
  <1>4. /\ pool' \in Pool /\ worker' \in [Workers -> Worker]
        /\ pool'.successful = pool.successful
        /\ pool'.pending \cup pool'.todo \subseteq pool.pending \cup pool.todo
        /\ \A w \in Workers : worker'[w].phase \in {"off", "done", "taking"}
        /\ \/ worker' = worker
           \/ /\ pool'.phase = "wave" /\ pool'.pending \cap pool'.todo = {}
              /\ \A t \in pool'.todo : DependsOn[t] \subseteq pool.successful
    <2>1. CASE pool' = [pool EXCEPT !.phase = "blocking", !.todo = Blocked] /\ UNCHANGED worker
      <3>1. Blocked \subseteq pool.pending
        BY DEF Blocked
      <3>2. PoolIs("blocking", pool.pending, pool.successful, pool.failed, pool.wave, Blocked)
        BY <2>1, <3>1 DEF PoolIs, GraphTypeOK, Pool
      <3> QED BY <1>3, <2>1, <3>1, <3>2, PoolTypes DEF PoolIs, AtRest, GraphTypeOK
    <2>2. CASE pool' = [pool EXCEPT !.phase = "returned"] /\ UNCHANGED worker
      <3>1. PoolIs("returned", pool.pending, pool.successful, pool.failed, pool.wave, pool.todo)
        BY <2>2 DEF PoolIs, GraphTypeOK, Pool
      <3> QED BY <1>3, <2>2, <3>1 DEF PoolIs, AtRest, GraphTypeOK
    <2>3. CASE /\ pool' = [pool EXCEPT !.phase = "wave", !.wave = Ready, !.todo = Ready,
                                       !.pending = @ \ Ready]
               /\ worker' = [w \in Workers |->
                               IF w <= Smaller(MaxWorkers, Cardinality(Ready))
                               THEN [phase |-> "taking", task |-> None] ELSE NoWorker]
      <3>1. Ready \subseteq pool.pending /\ \A t \in Ready : DependsOn[t] \subseteq pool.successful
        BY DEF Ready
      <3>2. PoolIs("wave", pool.pending \ Ready, pool.successful, pool.failed, Ready, Ready)
        BY <2>3, <3>1 DEF PoolIs, GraphTypeOK, Pool
      <3>3. \A w \in Workers : worker'[w] \in Worker /\ worker'[w].phase \in {"off", "taking"}
        BY <2>3 DEF Worker, NoWorker
      <3>4. worker' \in [Workers -> Worker]
        BY <2>3, <3>3
      <3> QED BY <3>1, <3>2, <3>3, <3>4 DEF PoolIs
    <2> QED BY <2>1, <2>2, <2>3 DEF Schedule
  <1>5. GraphTypeOK'
    BY <1>1, <1>4 DEF GraphTypeOK, controllerVars, turnVars
  <1>6. \A w \in Workers : worker'[w].phase \notin {"claiming", "executing"}
    BY <1>4
  <1>7. Resting'
    BY <1>3, <1>4 DEF Resting, AtRest
  <1>8. Placed'
    <2>1. \A w \in Workers : ~AtRest(w)' => pool'.pending \cap pool'.todo = {}
      BY <1>3, <1>4 DEF AtRest
    <2>2. (\A t \in pool.pending \cup pool.todo : Untouched(t))'
      BY <1>1, <1>4 DEF Scheduling, Placed, Untouched
    <2> QED BY <1>6, <2>1, <2>2 DEF Placed, AtTask
  <1>9. Holding'
    BY <1>1, <1>3, <1>6 DEF Scheduling, Holding, AtRest, UnderWay
  <1>10. Due'
    <2>1. (\A d \in pool.successful : result[d] = "completed")'
      BY <1>1, <1>4 DEF Scheduling, Due
    <2>2. \A w \in Workers : ~AtRest(w)' => (\A t \in pool.todo : Met(t))'
      BY <1>1, <1>3, <1>4 DEF Scheduling, Due, AtRest, Met
    <2> QED BY <1>6, <2>1, <2>2 DEF Due, AtTask
  <1>11. StepIsDue
    BY <1>1, GraphTypes DEF StepIsDue
  <1> QED BY <1>2, <1>5, <1>7, <1>8, <1>9, <1>10, <1>11 DEF Scheduling

LEMMA WaveDoneSafe ==
    ASSUME GraphInv, WaveDone
    PROVE  GraphInv' /\ StepIsDue
  <1> USE DEF GraphInv
  <1>1. /\ UNCHANGED <<worker, owner, result, controllerVars, turnVars>>
        /\ UNCHANGED <<run, held, opened, cleared>>
        /\ \A w \in Workers : AtRest(w)
    BY DEF WaveDone, controllerVars, turnVars, AtRest
  <1>2. Control'
    BY <1>1, ControlFrame
  <1>3. /\ pool' \in Pool /\ pool'.pending = pool.pending /\ pool'.todo = pool.todo
        /\ \A d \in pool'.successful : d \in pool.successful \/ result[d] = "completed"
    <2> DEFINE good == {t \in pool.wave : result[t] = "completed"}
    <2>1. PoolIs("loop", pool.pending, pool.successful \cup good,
                 pool.failed \cup (pool.wave \ good), pool.wave, pool.todo)
      <3>1. good \subseteq pool.wave
        OBVIOUS
      <3>2. pool' = [pool EXCEPT !.phase = "loop", !.successful = @ \cup good,
                                 !.failed = @ \cup (pool.wave \ good)]
        BY DEF WaveDone
      <3> HIDE DEF good
      <3> QED BY <3>1, <3>2 DEF PoolIs, GraphTypeOK, Pool
    <2> QED BY <2>1 DEF PoolIs
  <1>4. GraphTypeOK'
    BY <1>1, <1>3 DEF GraphTypeOK, controllerVars, turnVars
  <1>5. Resting' /\ Holding'
    BY <1>1 DEF Scheduling, Resting, Holding, AtRest, UnderWay
  <1>6. Placed'
    BY <1>1, <1>3 DEF Scheduling, Placed, AtRest, AtTask, Untouched
  <1>7. Due'
    BY <1>1, <1>3 DEF Scheduling, Due, AtRest, AtTask, Met
  <1>8. StepIsDue
    BY <1>1, GraphTypes DEF StepIsDue
  <1> QED BY <1>2, <1>4, <1>5, <1>6, <1>7, <1>8 DEF Scheduling

LEMMA BlockSafe ==
    ASSUME GraphInv, NEW t \in Tasks, Block(t)
    PROVE  GraphInv' /\ StepIsDue
  <1> USE DEF GraphInv
  <1>1. /\ pool.phase = "blocking" /\ t \in pool.todo
        /\ result' = [result EXCEPT ![t] = "blocked"] /\ SettleQueued({t})
        /\ UNCHANGED <<worker, owner, opened, run, held, waiting, direct>>
        /\ UNCHANGED <<budget, aborted, interrupted, cleared, acts>>
        /\ faults' \in 0..MaxFaults
    <2>1. CheckpointPasses \/ CheckpointThrows
      BY DEF Block
    <2>2. faults' \in 0..MaxFaults
      BY <2>1, WorkGraphAssumption DEF CheckpointPasses, CheckpointThrows, GraphTypeOK
    <2> QED BY <2>2 DEF Block, First, Unbothered
  <1>2. /\ pool' \in Pool /\ pool'.pending = pool.pending \ {t} /\ pool'.todo = pool.todo \ {t}
        /\ pool'.successful = pool.successful
    <2>1. PICK phase \in {"loop", "blocking", "threw"} :
              pool' = [pool EXCEPT !.phase = phase, !.todo = @ \ {t}, !.pending = @ \ {t},
                                   !.failed = @ \cup {t}]
      BY DEF Block
    <2>2. PoolIs(phase, pool.pending \ {t}, pool.successful, pool.failed \cup {t}, pool.wave,
                 pool.todo \ {t})
      BY <2>1 DEF PoolIs, GraphTypeOK, Pool
    <2> QED BY <2>2 DEF PoolIs
  <1>3. (\A w \in Workers : AtRest(w)) /\ result[t] = "none"
    BY <1>1 DEF Scheduling, Resting, Placed, Untouched
  <1>4. /\ Records' /\ job' \in [Tasks -> {"absent", "queued", "dispatched"}]
        /\ settled' \in [Tasks -> Nat]
    <2>1. SameActive
      BY <1>1 DEF SameActive, Active
    <2> QED BY <1>1, <2>1, SettleQueuedEffect DEF Control
  <1>5. GraphTypeOK'
    <2>1. result' \in [Tasks -> Results]
      BY <1>1 DEF GraphTypeOK, Results
    <2> QED BY <1>1, <1>2, <1>4, <2>1 DEF GraphTypeOK
  <1>6. Control'
    <2>1. Parking' /\ Permits'
      BY <1>1, PermitFrame DEF Control, Holders
    <2>2. Serving' /\ DirectAgentIsExclusive' /\ Guidance'
      BY <1>1 DEF Control, Serving, DirectAgentIsExclusive, Guidance, Active
    <2> QED BY <1>4, <2>1, <2>2 DEF Control
  <1>7. \A d \in Tasks : d # t => result'[d] = result[d]
    BY <1>1 DEF GraphTypeOK
  <1>8. Resting' /\ Holding'
    BY <1>1, <1>3 DEF Scheduling, Resting, Holding, AtRest, UnderWay
  <1>9. Placed'
    <2>1. pool.pending \subseteq Tasks /\ pool.todo \subseteq Tasks
      BY DEF GraphTypeOK, Pool
    <2>2. (\A u \in pool.pending \cup pool.todo : Untouched(u))'
      BY <1>1, <1>2, <1>7, <2>1 DEF Scheduling, Placed, Untouched
    <2> QED BY <1>1, <1>2, <1>3, <2>2 DEF Scheduling, Placed, AtRest, AtTask
  <1>10. Due'
    <2>1. (\A d \in pool.successful : result[d] = "completed")'
      <3>1. pool.successful \subseteq Tasks
        BY DEF GraphTypeOK, Pool
      <3> QED BY <1>2, <1>3, <1>7, <3>1 DEF Scheduling, Due
    <2> QED BY <1>1, <1>3, <2>1 DEF Due, AtRest, AtTask
  <1>11. StepIsDue
    BY <1>1, GraphTypes DEF StepIsDue
  <1> QED BY <1>5, <1>6, <1>8, <1>9, <1>10, <1>11 DEF Scheduling

(***************************************************************************)
(* The workers.                                                            *)
(***************************************************************************)
\* A worker at work changes nothing of the pool but what is left of the wave.
PoolGoesOn ==
    /\ pool' \in Pool /\ pool'.pending = pool.pending /\ pool'.todo \subseteq pool.todo
    /\ pool'.successful = pool.successful
    /\ pool'.phase \in {pool.phase, "threw"}

\* Every worker but one stays where it is.
OthersStay(w) == \A v \in Workers : v # w => worker'[v] = worker[v]

LEMMA ExecuteSafe ==
    ASSUME GraphInv, NEW w \in Workers, NEW t \in Tasks, Execute(w, t), Claimable(w, t),
           worker[w].phase \in {"taking", "claiming"}, Untouched(t), Met(t), PoolGoesOn,
           t \notin pool'.pending \cup pool'.todo,
           \A v \in Workers : v # w /\ AtTask(v) => worker[v].task # t,
           UNCHANGED <<result, job, settled, opened, held, waiting, direct, turnVars>>
    PROVE  GraphInv' /\ StepIsDue
  <1> USE DEF GraphInv
  <1>1. /\ UNCHANGED <<result, job, settled, opened, held, waiting, direct>>
        /\ UNCHANGED <<budget, aborted, interrupted, cleared, faults, acts>>
    BY DEF turnVars
  <1>2. /\ worker' \in [Workers -> Worker] /\ worker'[w] = [phase |-> "executing", task |-> t]
        /\ OthersStay(w)
    BY DEF Execute, GraphTypeOK, Worker, OthersStay
  <1>3. /\ owner' \in [Paths -> Workers \cup {None}]
        /\ \A p \in Paths : owner'[p] = IF p \in WritePaths[t] THEN w ELSE owner[p]
    BY DEF Execute, GraphTypeOK
  <1>4. /\ run' \in [Runs -> Run] /\ run'[t] = [run[t] EXCEPT !.phase = "offered"]
        /\ \A r \in Runs : r # t => run'[r] = run[r]
    BY GraphTypes DEF Execute, GraphTypeOK, Run
  <1>5. GraphTypeOK'
    BY <1>1, <1>2, <1>3, <1>4 DEF GraphTypeOK, PoolGoesOn
  <1>6. /\ run[t].phase = "none" /\ run'[t].phase = "offered"
        /\ run'[t].mail = run[t].mail /\ run'[t].owed = run[t].owed
    BY <1>4, GraphTypes DEF Untouched, Run
  <1>7. Control'
    <2>1. \A r \in Runs : (Active(r) <=> Active(r)') /\ (r \in Holders' <=> r \in Holders)
      BY <1>4, <1>6 DEF Active, Holders
    <2>2. \A r \in Runs : run'[r].phase = "parked" <=> run[r].phase = "parked"
      BY <1>4, <1>6
    <2>3. Parking' /\ Permits'
      BY <1>1, <2>1, <2>2, PermitFrame DEF Control
    <2>4. Serving' /\ DirectAgentIsExclusive'
      <3>1. \A r \in Direct : run'[r].phase = "turn" => run[r].phase = "turn"
        BY <1>4, <1>6, GraphTypes
      <3>2. \A r \in Direct : Active(r)' => Active(r)
        BY <2>1, GraphTypes
      <3> QED BY <1>1, <3>1, <3>2 DEF Control, Serving, DirectAgentIsExclusive
    <2>5. Records'
      BY <1>1, <2>1, GraphTypes DEF Control, Records
    <2>6. Guidance'
      <3>1. run'[t].mail = run'[t].owed
        BY <1>6, GraphTypes DEF Control, Guidance, Ended, Active
      <3>2. run'[t].phase \notin Ended /\ ~Active(t)'
        BY <1>6 DEF Ended, Active
      <3>3. \A r \in Runs : r # t => run'[r] = run[r] /\ (Active(r)' <=> Active(r))
        BY <1>4 DEF Active
      <3> QED BY <3>1, <3>2, <3>3 DEF Control, Guidance, Ended
    <2> QED BY <2>3, <2>4, <2>5, <2>6 DEF Control
  <1>8. Resting'
    <2>1. pool.phase \notin {"loop", "blocking", "returned"}
      BY DEF Scheduling, Resting, AtRest
    <2> QED BY <2>1 DEF Resting, PoolGoesOn
  <1>9. ~AtRest(w) /\ ~(worker[w].phase = "executing")
    BY DEF AtRest
  <1>10. Placed'
    <2>1. (\A u \in pool.pending \cup pool.todo : Untouched(u))'
      <3>1. \A u \in pool'.pending \cup pool'.todo : u \in Tasks /\ u # t /\ Untouched(u)
        BY PoolTypes DEF Scheduling, Placed, PoolGoesOn
      <3> QED BY <1>1, <1>4, <3>1, GraphTypes DEF Untouched
    <2>2. pool'.pending \cap pool'.todo = {}
      BY <1>9 DEF Scheduling, Placed, PoolGoesOn
    <2>3. ASSUME NEW v \in Workers, AtTask(v)'
          PROVE  /\ (worker[v].task \in Tasks \ (pool.pending \cup pool.todo))'
                 /\ (result[worker[v].task] = "none")'
                 /\ (worker[v].phase = "claiming" => Untouched(worker[v].task))'
                 /\ v # w => worker'[v].task # t
      <3>1. CASE v = w
        BY <1>1, <1>2, <3>1 DEF Untouched
      <3>2. CASE v # w
        <4>1. worker'[v] = worker[v] /\ AtTask(v)
          BY <1>2, <2>3, <3>2 DEF OthersStay, AtTask
        <4>2. /\ worker[v].task \in Tasks \ (pool.pending \cup pool.todo)
              /\ result[worker[v].task] = "none" /\ worker[v].task # t
              /\ worker[v].phase = "claiming" => Untouched(worker[v].task)
          BY <3>2, <4>1 DEF Scheduling, Placed
        <4>3. (worker[v].phase = "claiming" => Untouched(worker[v].task))'
          BY <1>1, <1>4, <4>1, <4>2, GraphTypes DEF Untouched
        <4> QED BY <1>1, <4>1, <4>2, <4>3 DEF PoolGoesOn
      <3> QED BY <3>1, <3>2
    <2>4. ASSUME NEW u \in Workers, NEW v \in Workers, u # v, AtTask(u)', AtTask(v)'
          PROVE  worker'[u].task # worker'[v].task
      <3>1. CASE u = w \/ v = w
        BY <1>2, <2>3, <2>4, <3>1
      <3>2. CASE u # w /\ v # w
        BY <1>2, <2>4, <3>2 DEF OthersStay, AtTask, Scheduling, Placed
      <3> QED BY <3>1, <3>2
    <2>5. \A v \in Workers : worker'[v].phase = "claiming" => AtTask(v)'
      BY DEF AtTask
    <2> QED BY <2>1, <2>2, <2>3, <2>4, <2>5 DEF Placed
  <1>11. Holding'
    <2>1. ASSUME NEW v \in Workers, worker'[v].phase = "executing",
                 NEW p \in WritePaths[worker'[v].task]
          PROVE  owner'[p] = v
      <3>1. CASE v = w
        BY <1>2, <1>3, <2>1, <3>1, GraphTypes
      <3>2. CASE v # w
        <4>1. worker'[v] = worker[v] /\ worker[v].task \in Tasks
          BY <1>2, <2>1, <3>2 DEF OthersStay, AtTask, Scheduling, Placed
        <4>2. owner[p] = v /\ p \in Paths
          BY <2>1, <4>1, GraphTypes DEF Scheduling, Holding
        <4>3. p \notin WritePaths[t]
          BY <3>2, <4>2, GraphTypes DEF Claimable
        <4> QED BY <1>3, <4>2, <4>3
      <3> QED BY <3>1, <3>2
    <2>2. ASSUME NEW u \in Tasks, UnderWay(u)'
          PROVE  \E v \in Workers : worker'[v].phase = "executing" /\ worker'[v].task = u
      <3>1. CASE u = t
        BY <1>2, <3>1
      <3>2. CASE u # t
        <4>1. UnderWay(u)
          BY <1>4, <2>2, <3>2, GraphTypes DEF UnderWay
        <4>2. PICK v \in Workers : worker[v].phase = "executing" /\ worker[v].task = u
          BY <4>1 DEF Scheduling, Holding
        <4> QED BY <1>2, <1>9, <4>2 DEF OthersStay
      <3> QED BY <3>1, <3>2
    <2> QED BY <2>1, <2>2 DEF Holding
  <1>12. Due'
    <2>1. (\A d \in pool.successful : result[d] = "completed")'
      BY <1>1 DEF Scheduling, Due, PoolGoesOn
    <2>2. \A u \in Tasks : Met(u) => Met(u)'
      BY <1>1 DEF Met
    <2>3. (\A u \in pool.todo : Met(u))'
      BY <1>9, <2>2, PoolTypes DEF Scheduling, Due, PoolGoesOn
    <2>4. \A v \in Workers : AtTask(v)' => Met(worker[v].task)'
      <3>1. TAKE v \in Workers
      <3>2. CASE v = w
        BY <1>2, <2>2, <3>2 DEF Met
      <3>3. CASE v # w
        <4>1. AtTask(v)' => AtTask(v) /\ worker'[v] = worker[v]
          BY <1>2, <3>1, <3>3 DEF OthersStay, AtTask
        <4>2. AtTask(v) => worker[v].task \in Tasks /\ Met(worker[v].task)
          BY <3>1 DEF Scheduling, Due, Placed
        <4> QED BY <1>1, <4>1, <4>2 DEF Met
      <3> QED BY <3>2, <3>3
    <2> QED BY <2>1, <2>3, <2>4 DEF Due
  <1>13. StepIsDue
    BY <1>1, GraphTypes DEF StepIsDue
  <1> QED BY <1>5, <1>7, <1>8, <1>10, <1>11, <1>12, <1>13 DEF Scheduling

\* A worker that does not begin to execute: it takes a task it has to wait for, reports one,
\* or leaves.
LEMMA WorkerSafe ==
    ASSUME GraphInv, NEW w \in Workers, NEW x \in Worker, worker' = [worker EXCEPT ![w] = x],
           ~AtRest(w), x.phase # "executing", PoolGoesOn,
           x.phase = "claiming" =>
               x.task \in pool.todo \ pool'.todo /\ result' = result /\ ~AtTask(w),
           worker[w].phase = "executing" => ~UnderWay(worker[w].task),
           owner' = owner \/ owner' = ReleasedBy(w),
           \/ result' = result
           \/ /\ worker[w].phase = "executing"
              /\ \E status \in Results : result' = [result EXCEPT ![worker[w].task] = status],
           UNCHANGED <<controllerVars, budget, aborted, interrupted, cleared, acts>>,
           faults' \in 0..MaxFaults
    PROVE  GraphInv' /\ StepIsDue
  <1> USE DEF GraphInv
  <1>1. UNCHANGED <<job, settled, opened, run, held, waiting, direct>>
    BY DEF controllerVars
  <1>2. Control'
    BY ControlFrame
  <1>3. /\ worker' \in [Workers -> Worker] /\ worker'[w] = x /\ OthersStay(w)
    BY DEF GraphTypeOK, OthersStay
  <1>4. /\ owner' \in [Paths -> Workers \cup {None}]
        /\ \A p \in Paths : owner[p] # w => owner'[p] = owner[p]
    BY DEF ReleasedBy, GraphTypeOK
  <1>5. /\ result' \in [Tasks -> Results]
        /\ \A t \in Tasks : result'[t] # result[t] =>
              worker[w].phase = "executing" /\ t = worker[w].task /\ result[t] = "none"
    <2>1. CASE result' = result
      BY <2>1 DEF GraphTypeOK
    <2>2. CASE worker[w].phase = "executing"
               /\ \E status \in Results : result' = [result EXCEPT ![worker[w].task] = status]
      <3>1. worker[w].task \in Tasks /\ result[worker[w].task] = "none"
        BY <2>2 DEF Scheduling, Placed, AtTask
      <3> QED BY <2>2, <3>1 DEF GraphTypeOK
    <2> QED BY <2>1, <2>2
  <1>6. GraphTypeOK'
    BY <1>1, <1>3, <1>4, <1>5 DEF GraphTypeOK, PoolGoesOn
  <1>7. Resting'
    <2>1. pool.phase \notin {"loop", "blocking", "returned"}
      BY DEF Scheduling, Resting
    <2> QED BY <2>1 DEF Resting, PoolGoesOn
  <1>8. \A v \in Workers :
           v # w => (AtTask(v)' <=> AtTask(v)) /\ worker'[v] = worker[v]
    BY <1>3 DEF OthersStay, AtTask
  <1>9. pool'.pending \cap pool'.todo = {} /\ pool.pending \cap pool.todo = {}
    BY DEF Scheduling, Placed, PoolGoesOn
  <1>10. \A t \in pool.pending \cup pool.todo : result'[t] = result[t]
    <2>1. worker[w].phase = "executing" => worker[w].task \notin pool.pending \cup pool.todo
      BY DEF Scheduling, Placed, AtTask
    <2> QED BY <1>5, <2>1, PoolTypes
  <1>11. Placed'
    <2>1. (\A t \in pool.pending \cup pool.todo : Untouched(t))'
      BY <1>1, <1>10 DEF Scheduling, Placed, PoolGoesOn, Untouched
    <2>2. ASSUME NEW v \in Workers, AtTask(v)'
          PROVE  /\ (worker[v].task \in Tasks \ (pool.pending \cup pool.todo))'
                 /\ (result[worker[v].task] = "none")'
                 /\ (worker[v].phase = "claiming" => Untouched(worker[v].task))'
                 /\ v # w /\ x.phase = "claiming" => worker'[v].task # x.task
      <3>1. CASE v = w
        <4>1. x.phase = "claiming" /\ worker'[v] = x
          BY <1>3, <2>2, <3>1 DEF AtTask
        <4>2. /\ x.task \in Tasks /\ x.task \in pool.todo /\ x.task \notin pool'.todo
              /\ x.task \notin pool'.pending
          BY <1>9, <4>1, PoolTypes DEF PoolGoesOn
        <4>3. Untouched(x.task)
          BY <4>2 DEF Scheduling, Placed
        <4> QED BY <1>1, <3>1, <4>1, <4>2, <4>3 DEF Untouched
      <3>2. CASE v # w
        <4>1. worker'[v] = worker[v] /\ AtTask(v)
          BY <1>8, <2>2, <3>2
        <4>2. /\ worker[v].task \in Tasks \ (pool.pending \cup pool.todo)
              /\ result[worker[v].task] = "none"
              /\ worker[v].phase = "claiming" => Untouched(worker[v].task)
          BY <4>1 DEF Scheduling, Placed
        <4>3. result'[worker[v].task] = "none"
          <5>1. worker[w].phase = "executing" => worker[w].task # worker[v].task
            BY <3>2, <4>1 DEF Scheduling, Placed, AtTask
          <5> QED BY <1>5, <4>2, <5>1
        <4>4. worker'[v].task \notin pool'.pending \cup pool'.todo
          BY <4>1, <4>2 DEF PoolGoesOn
        <4>5. (worker[v].phase = "claiming" => Untouched(worker[v].task))'
          BY <1>1, <4>1, <4>2, <4>3 DEF Untouched
        <4> QED BY <4>1, <4>2, <4>3, <4>4, <4>5
      <3> QED BY <3>1, <3>2
    <2>3. ASSUME NEW u \in Workers, NEW v \in Workers, u # v, AtTask(u)', AtTask(v)'
          PROVE  worker'[u].task # worker'[v].task
      <3>1. CASE u = w \/ v = w
        <4>1. AtTask(w)' => x.phase = "claiming" /\ worker'[w].task = x.task
          BY <1>3 DEF AtTask
        <4> QED BY <2>2, <2>3, <3>1, <4>1
      <3>2. CASE u # w /\ v # w
        BY <1>8, <2>3, <3>2 DEF Scheduling, Placed
      <3> QED BY <3>1, <3>2
    <2>4. \A v \in Workers : worker'[v].phase = "claiming" => AtTask(v)'
      BY DEF AtTask
    <2> QED BY <1>9, <2>1, <2>2, <2>3, <2>4 DEF Placed
  <1>12. Holding'
    <2>1. ASSUME NEW v \in Workers, worker'[v].phase = "executing",
                 NEW p \in WritePaths[worker'[v].task]
          PROVE  owner'[p] = v
      <3>1. v # w /\ worker'[v] = worker[v]
        BY <1>3, <1>8, <2>1
      <3>2. worker[v].task \in Tasks
        BY <2>1, <3>1 DEF Scheduling, Placed, AtTask
      <3>3. owner[p] = v /\ p \in Paths
        BY <2>1, <3>1, <3>2, GraphTypes DEF Scheduling, Holding
      <3> QED BY <1>4, <3>1, <3>3
    <2>2. ASSUME NEW t \in Tasks, UnderWay(t)'
          PROVE  \E v \in Workers : worker'[v].phase = "executing" /\ worker'[v].task = t
      <3>1. UnderWay(t)
        BY <1>1, <2>2 DEF UnderWay
      <3>2. PICK v \in Workers : worker[v].phase = "executing" /\ worker[v].task = t
        BY <3>1 DEF Scheduling, Holding
      <3>3. v # w
        BY <3>1, <3>2
      <3> QED BY <1>8, <3>2, <3>3
    <2> QED BY <2>1, <2>2 DEF Holding
  <1>13. Due'
    <2>1. (\A d \in pool.successful : result[d] = "completed")'
      <3>1. \A d \in pool.successful : d \in Tasks /\ result[d] = "completed"
        BY PoolTypes DEF Scheduling, Due
      <3> QED BY <1>5, <3>1 DEF PoolGoesOn
    <2>2. \A u \in Tasks : Met(u) => Met(u)'
      BY <1>5, GraphTypes DEF Met
    <2>3. \A u \in pool.todo : u \in Tasks /\ Met(u)
      BY PoolTypes DEF Scheduling, Due
    <2>4. \A v \in Workers : AtTask(v)' => worker'[v].task \in Tasks /\ Met(worker[v].task)'
      <3>1. TAKE v \in Workers
      <3>2. CASE v = w
        <4>1. AtTask(v)' => x.phase = "claiming" /\ worker'[v] = x
          BY <1>3, <3>2 DEF AtTask
        <4>2. x.phase = "claiming" => x.task \in Tasks /\ Met(x.task)
          BY <2>3
        <4>3. x.phase = "claiming" => x.task \in Tasks /\ Met(x.task)'
          BY <2>2, <4>2
        <4> QED BY <4>1, <4>3 DEF Met
      <3>3. CASE v # w
        <4>1. AtTask(v)' => AtTask(v) /\ worker'[v] = worker[v]
          BY <1>8, <3>1, <3>3
        <4>2. AtTask(v) => worker[v].task \in Tasks /\ Met(worker[v].task)
          BY <3>1 DEF Scheduling, Due, Placed
        <4>3. AtTask(v) => Met(worker[v].task)' \/ worker'[v] # worker[v]
          BY <2>2, <4>2 DEF Met
        <4> QED BY <4>1, <4>2, <4>3
      <3> QED BY <3>2, <3>3
    <2> QED BY <2>1, <2>2, <2>3, <2>4 DEF Due, PoolGoesOn
  <1>14. StepIsDue
    BY <1>1, GraphTypes DEF StepIsDue
  <1> QED BY <1>2, <1>6, <1>7, <1>11, <1>12, <1>13, <1>14 DEF Scheduling

LEMMA TakeSafe ==
    ASSUME GraphInv, NEW w \in Workers, Take(w)
    PROVE  GraphInv' /\ StepIsDue
  <1>1. /\ worker[w].phase = "taking" /\ ~AtRest(w) /\ ~AtTask(w)
        /\ UNCHANGED <<result, job, settled, opened, held, waiting, direct, turnVars>>
        /\ UNCHANGED <<budget, aborted, interrupted, cleared, faults, acts>>
    BY DEF Take, AtRest, AtTask, turnVars
  <1>2. GraphTypeOK /\ Scheduling
    BY DEF GraphInv
  <1>3. faults' \in 0..MaxFaults
    BY <1>1, <1>2 DEF GraphTypeOK
  <1>4. CASE /\ pool.todo = {}
             /\ worker' = [worker EXCEPT ![w] = [phase |-> "done", task |-> None]]
             /\ owner' = ReleasedBy(w)
             /\ UNCHANGED <<pool, run>>
    <2>1. [phase |-> "done", task |-> None] \in Worker
      BY DEF Worker
    <2>2. PoolGoesOn
      BY <1>2, <1>4 DEF PoolGoesOn, GraphTypeOK
    <2> QED BY <1>1, <1>3, <1>4, <2>1, <2>2, WorkerSafe DEF controllerVars
  <1>5. CASE \E t \in pool.todo :
               /\ First(t, pool.todo)
               /\ pool' = [pool EXCEPT !.todo = @ \ {t}]
               /\ IF Claimable(w, t) THEN Execute(w, t)
                  ELSE /\ worker' = [worker EXCEPT ![w] = [phase |-> "claiming", task |-> t]]
                       /\ UNCHANGED <<owner, run>>
    <2>1. PICK t \in pool.todo :
             /\ pool' = [pool EXCEPT !.todo = @ \ {t}]
             /\ IF Claimable(w, t) THEN Execute(w, t)
                ELSE /\ worker' = [worker EXCEPT ![w] = [phase |-> "claiming", task |-> t]]
                     /\ UNCHANGED <<owner, run>>
      BY <1>5
    <2>2. PoolIs(pool.phase, pool.pending, pool.successful, pool.failed, pool.wave,
                 pool.todo \ {t})
      BY <1>2, <2>1 DEF PoolIs, GraphTypeOK, Pool
    <2>3. PoolGoesOn /\ t \notin pool'.todo /\ t \in Tasks
      BY <1>2, <2>2, PoolTypes DEF PoolIs, PoolGoesOn
    <2>4. CASE Claimable(w, t)
      <3>1. Untouched(t) /\ Met(t) /\ t \notin pool'.pending
        BY <1>1, <1>2, <2>2 DEF Scheduling, Placed, Due, PoolIs
      <3>2. \A v \in Workers : v # w /\ AtTask(v) => worker[v].task # t
        BY <1>2 DEF Scheduling, Placed
      <3>3. Execute(w, t)
        BY <2>1, <2>4
      <3>4. worker[w].phase \in {"taking", "claiming"} /\ t \notin pool'.pending \cup pool'.todo
        BY <1>1, <2>3, <3>1
      <3> QED BY <1>1, <2>3, <2>4, <3>1, <3>2, <3>3, <3>4, ExecuteSafe
    <2>5. CASE ~Claimable(w, t)
      <3> DEFINE x == [phase |-> "claiming", task |-> t]
      <3>1. x \in Worker
        BY <2>3 DEF Worker
      <3>2. worker' = [worker EXCEPT ![w] = x] /\ UNCHANGED <<owner, run>>
        BY <2>1, <2>5
      <3>3. UNCHANGED <<controllerVars, budget, aborted, interrupted, cleared, acts>>
        BY <1>1, <3>2 DEF controllerVars
      <3>4. x.phase # "executing" /\ x.task = t
        OBVIOUS
      <3> HIDE DEF x
      <3> QED BY <1>1, <1>3, <2>3, <3>1, <3>2, <3>3, <3>4, WorkerSafe
    <2> QED BY <2>4, <2>5
  <1> QED BY <1>4, <1>5 DEF Take

LEMMA ClaimSafe ==
    ASSUME GraphInv, NEW w \in Workers, Claim(w)
    PROVE  GraphInv' /\ StepIsDue
  <1> DEFINE t == worker[w].task
  <1>1. GraphTypeOK /\ Scheduling
    BY DEF GraphInv
  <1>2. /\ worker[w].phase = "claiming" /\ Claimable(w, t) /\ Execute(w, t) /\ UNCHANGED pool
        /\ UNCHANGED <<result, job, settled, opened, held, waiting, direct, turnVars>>
    BY DEF Claim
  <1>3. t \in Tasks /\ t \notin pool.pending \cup pool.todo /\ Untouched(t) /\ Met(t)
    BY <1>1, <1>2 DEF Scheduling, Placed, Due, AtTask
  <1>4. \A v \in Workers : v # w /\ AtTask(v) => worker[v].task # t
    BY <1>1, <1>2 DEF Scheduling, Placed, AtTask
  <1>5. PoolGoesOn
    BY <1>1, <1>2 DEF PoolGoesOn, GraphTypeOK
  <1> HIDE DEF t
  <1> QED BY <1>2, <1>3, <1>4, <1>5, ExecuteSafe

LEMMA ReportSafe ==
    ASSUME GraphInv, NEW w \in Workers, Report(w)
    PROVE  GraphInv' /\ StepIsDue
  <1> DEFINE t == worker[w].task
             x == [worker[w] EXCEPT !.phase = "settling"]
  <1>1. GraphTypeOK
    BY DEF GraphInv
  <1>2. /\ worker[w].phase = "executing" /\ run[t].phase \in Ended
        /\ worker' = [worker EXCEPT ![w] = x]
        /\ UNCHANGED <<pool, owner, controllerVars, budget, aborted, interrupted, cleared, acts>>
    BY DEF Report, Unbothered
  <1>3. x \in Worker /\ x.phase = "settling"
    BY <1>1, GraphTypes DEF Worker
  <1>4. \E status \in Results : result' = [result EXCEPT ![t] = status]
    BY <1>2 DEF Report, Results, Ended
  <1>5. faults' \in 0..MaxFaults
    <2>1. CheckpointPasses \/ CheckpointThrows
      BY DEF Report
    <2> QED BY <1>1, <2>1, WorkGraphAssumption DEF CheckpointPasses, CheckpointThrows,
       GraphTypeOK
  <1>6. PoolGoesOn
    BY <1>1, <1>2 DEF PoolGoesOn, GraphTypeOK
  <1>7. ~AtRest(w) /\ ~UnderWay(t)
    BY <1>2 DEF AtRest, UnderWay
  <1> HIDE DEF x
  <1> QED BY <1>2, <1>3, <1>4, <1>5, <1>6, <1>7, WorkerSafe

LEMMA SettleSafe ==
    ASSUME GraphInv, NEW w \in Workers, Settle(w)
    PROVE  GraphInv' /\ StepIsDue
  <1>1. GraphTypeOK /\ Scheduling
    BY DEF GraphInv
  <1>2. /\ worker[w].phase = "settling" /\ ~AtRest(w) /\ owner' = ReleasedBy(w)
        /\ UNCHANGED <<result, controllerVars, budget, aborted, interrupted, cleared, acts>>
    BY DEF Settle, Unbothered, AtRest
  <1>3. faults' \in 0..MaxFaults
    <2>1. CheckpointPasses \/ CheckpointThrows
      BY DEF Settle
    <2> QED BY <1>1, <2>1, WorkGraphAssumption DEF CheckpointPasses, CheckpointThrows,
       GraphTypeOK
  <1>4. PICK phase \in {"taking", "threw"} :
            /\ worker' = [worker EXCEPT ![w] = [phase |-> phase, task |-> None]]
            /\ pool' \in {pool, [pool EXCEPT !.phase = "threw"]}
    BY DEF Settle
  <1>5. PoolGoesOn
    <2>1. CASE pool' = pool
      BY <1>1, <2>1 DEF PoolGoesOn, GraphTypeOK
    <2>2. CASE pool' = [pool EXCEPT !.phase = "threw"]
      <3>1. PoolIs("threw", pool.pending, pool.successful, pool.failed, pool.wave, pool.todo)
        BY <1>1, <2>2 DEF PoolIs, GraphTypeOK, Pool
      <3> QED BY <3>1 DEF PoolIs, PoolGoesOn
    <2> QED BY <1>4, <2>1, <2>2
  <1>6. [phase |-> phase, task |-> None] \in Worker
    BY DEF Worker
  <1> QED BY <1>2, <1>3, <1>4, <1>5, <1>6, WorkerSafe

(***************************************************************************)
(* The run controller.                                                     *)
(***************************************************************************)
\* One run changes its phase, and nothing else of any run changes.
LEMMA PhaseChanged ==
    ASSUME GraphTypeOK, NEW r \in Runs, NEW phase,
           phase \in {"failed", "cancelled", "parked", "granted", "preparing", "turn"},
           run' = [run EXCEPT ![r].phase = phase]
    PROVE  /\ run' \in [Runs -> Run] /\ run'[r].phase = phase
           /\ run'[r].aborted = run[r].aborted
           /\ run'[r].mail = run[r].mail /\ run'[r].owed = run[r].owed
           /\ \A x \in Runs : x # r => run'[x] = run[x]
  BY DEF GraphTypeOK, Run, Ended

\* A task that the controller does not take, or that has not got a permit.
LEMMA RefusedSafe ==
    ASSUME GraphInv, NEW t \in Tasks, run[t].phase \in {"offered", "woken"},
           NEW phase \in {"failed", "cancelled"}, run' = [run EXCEPT ![t].phase = phase],
           UNCHANGED <<job, settled>> \/ SettleQueued({t}),
           UNCHANGED <<schedulerVars, opened, held, waiting, direct>>,
           UNCHANGED <<budget, aborted, interrupted, cleared, acts>>, faults' \in 0..MaxFaults
    PROVE  GraphInv' /\ StepIsDue
  <1>1. GraphTypeOK /\ Scheduling /\ Control /\ t \in Runs
    BY GraphTypes DEF GraphInv
  <1>2. /\ run' \in [Runs -> Run] /\ run'[t].phase = phase
        /\ \A x \in Runs : x # t => run'[x] = run[x]
    BY <1>1, PhaseChanged
  <1>3. \A r \in Runs : /\ Active(r)' <=> Active(r)
                        /\ r \in Holders' <=> r \in Holders
                        /\ run'[r].phase = "parked" <=> run[r].phase = "parked"
                        /\ run'[r].phase = "turn" => run[r].phase = "turn"
    BY <1>2 DEF Active, Holders
  <1>4. Records' /\ job' \in [Tasks -> {"absent", "queued", "dispatched"}]
        /\ settled' \in [Tasks -> Nat]
    <2>1. SameActive
      BY <1>3 DEF SameActive
    <2>2. CASE UNCHANGED <<job, settled>>
      BY <1>1, <2>1, <2>2, GraphTypes DEF Control, Records, GraphTypeOK, SameActive
    <2>3. CASE SettleQueued({t})
      BY <1>1, <2>1, <2>3, SettleQueuedEffect DEF Control
    <2> QED BY <2>2, <2>3
  <1>5. GraphTypeOK'
    BY <1>1, <1>2, <1>4 DEF GraphTypeOK, schedulerVars
  <1>6. Scheduling'
    <2>1. \A u \in Tasks : /\ UnderWay(u)' => UnderWay(u)
                           /\ run[u].phase = "none" => run'[u].phase = "none"
      BY <1>1, <1>2, GraphTypes DEF UnderWay, Ended
    <2> QED BY <1>1, <2>1, SchedulingFrame
  <1>7. Control'
    <2>1. Parking' /\ Permits'
      BY <1>1, <1>3, PermitFrame DEF Control
    <2>2. Serving' /\ DirectAgentIsExclusive'
      BY <1>1, <1>3, GraphTypes DEF Control, Serving, DirectAgentIsExclusive
    <2>3. Guidance'
      BY <1>1, <1>2, <1>3 DEF Control, Guidance, Ended
    <2> QED BY <1>4, <2>1, <2>2, <2>3 DEF Control
  <1>8. StepIsDue
    BY <1>1, GraphTypes DEF StepIsDue
  <1> QED BY <1>5, <1>6, <1>7, <1>8 DEF GraphInv

LEMMA NotOfferedSafe ==
    ASSUME GraphInv, NEW t \in Tasks, NotOffered(t)
    PROVE  GraphInv' /\ StepIsDue
  <1>1. faults' \in 0..MaxFaults
    BY WorkGraphAssumption DEF NotOffered, CheckpointThrows, GraphInv, GraphTypeOK
  <1> QED BY <1>1, RefusedSafe DEF NotOffered, Unbothered

LEMMA WokenSafe ==
    ASSUME GraphInv, NEW t \in Tasks, Woken(t)
    PROVE  GraphInv' /\ StepIsDue
  <1>1. UNCHANGED <<budget, aborted, interrupted, cleared, acts>> /\ faults' \in 0..MaxFaults
    BY DEF Woken, turnVars, GraphInv, GraphTypeOK
  <1> QED BY <1>1, RefusedSafe DEF Woken

\* A task gets a permit at once.
LEMMA GrantedSafe ==
    ASSUME GraphInv, NEW t \in Tasks, run[t].phase = "offered", held < budget, held' = held + 1,
           run' = [run EXCEPT ![t].phase = "granted"],
           UNCHANGED <<schedulerVars, job, settled, opened, waiting, direct, turnVars>>
    PROVE  GraphInv' /\ StepIsDue
  <1>1. GraphTypeOK /\ Scheduling /\ Control /\ t \in Runs
    BY GraphTypes DEF GraphInv
  <1>2. /\ run' \in [Runs -> Run] /\ run'[t].phase = "granted"
        /\ run'[t].mail = run[t].mail /\ run'[t].owed = run[t].owed
        /\ \A x \in Runs : x # t => run'[x] = run[x]
    BY <1>1, PhaseChanged
  <1>3. \A r \in Runs : /\ Active(r)' <=> Active(r)
                        /\ run'[r].phase = "parked" <=> run[r].phase = "parked"
                        /\ run'[r].phase = "turn" => run[r].phase = "turn"
    BY <1>2 DEF Active
  <1>4. GraphTypeOK'
    BY <1>1, <1>2, GraphTypes DEF GraphTypeOK, schedulerVars, turnVars
  <1>5. Scheduling'
    <2>1. \A u \in Tasks : /\ UnderWay(u)' => UnderWay(u)
                           /\ run[u].phase = "none" => run'[u].phase = "none"
      BY <1>1, <1>2, GraphTypes DEF UnderWay, Ended
    <2> QED BY <1>1, <2>1, SchedulingFrame
  <1>6. Permits'
    <2>1. t \notin Holders /\ Holders' = Holders \cup {t}
      BY <1>1, <1>2 DEF Holders
    <2>2. /\ IsFiniteSet(Holders \cup {t})
          /\ Cardinality(Holders \cup {t}) = Cardinality(Holders) + 1
      BY <1>1, <2>1, FS_AddElement DEF Control, Permits
    <2> QED BY <1>1, <2>1, <2>2, GraphTypes DEF Control, Permits
  <1>7. Control'
    <2>1. Parking'
      BY <1>1, <1>3 DEF Control, Parking
    <2>2. Serving' /\ DirectAgentIsExclusive'
      BY <1>1, <1>3, GraphTypes DEF Control, Serving, DirectAgentIsExclusive
    <2>3. Guidance'
      BY <1>1, <1>2, <1>3 DEF Control, Guidance, Ended, Active
    <2>4. Records'
      BY <1>1, <1>3, GraphTypes DEF Control, Records, turnVars
    <2> QED BY <1>6, <2>1, <2>2, <2>3, <2>4 DEF Control
  <1>8. StepIsDue
    BY <1>1, GraphTypes DEF StepIsDue
  <1> QED BY <1>4, <1>5, <1>7, <1>8 DEF GraphInv

\* A task waits for a permit.
LEMMA ParkedSafe ==
    ASSUME GraphInv, NEW t \in Tasks, run[t].phase = "offered", ~(held < budget),
           waiting' = Append(waiting, t), run' = [run EXCEPT ![t].phase = "parked"],
           UNCHANGED <<schedulerVars, job, settled, opened, held, direct, turnVars>>
    PROVE  GraphInv' /\ StepIsDue
  <1>1. GraphTypeOK /\ Scheduling /\ Control /\ t \in Runs
    BY GraphTypes DEF GraphInv
  <1>2. /\ run' \in [Runs -> Run] /\ run'[t].phase = "parked"
        /\ run'[t].mail = run[t].mail /\ run'[t].owed = run[t].owed
        /\ \A x \in Runs : x # t => run'[x] = run[x]
    BY <1>1, PhaseChanged
  <1>3. \A r \in Runs : /\ Active(r)' <=> Active(r)
                        /\ r \in Holders' <=> r \in Holders
                        /\ run'[r].phase = "turn" => run[r].phase = "turn"
    BY <1>2 DEF Active, Holders
  <1>4. /\ waiting' \in Seq(Tasks) /\ Len(waiting') = Len(waiting) + 1
        /\ waiting'[Len(waiting) + 1] = t
        /\ \A i \in 1..Len(waiting) : waiting'[i] = waiting[i]
    BY <1>1, AppendProperties DEF GraphTypeOK
  <1>5. GraphTypeOK'
    BY <1>1, <1>2, <1>4 DEF GraphTypeOK, schedulerVars, turnVars
  <1>6. Scheduling'
    <2>1. \A u \in Tasks : /\ UnderWay(u)' => UnderWay(u)
                           /\ run[u].phase = "none" => run'[u].phase = "none"
      BY <1>1, <1>2, GraphTypes DEF UnderWay, Ended
    <2> QED BY <1>1, <2>1, SchedulingFrame
  <1>7. Parking'
    <2>1. \A i \in 1..Len(waiting) : waiting[i] # t
      BY <1>1 DEF Control, Parking
    <2>2. \A i \in 1..Len(waiting') : i \in 1..Len(waiting) \/ i = Len(waiting) + 1
      BY <1>1, <1>4, GraphTypes
    <2>3. \A i, j \in 1..Len(waiting') : waiting'[i] = waiting'[j] => i = j
      BY <1>1, <1>4, <2>1, <2>2 DEF Control, Parking
    <2>4. \A r \in Runs :
             run'[r].phase = "parked" <=> \E i \in 1..Len(waiting') : waiting'[i] = r
      <3>1. TAKE r \in Runs
      <3>2. CASE r = t
        BY <1>1, <1>2, <1>4, <3>2, GraphTypes
      <3>3. CASE r # t
        <4>1. run'[r].phase = "parked" <=> \E i \in 1..Len(waiting) : waiting[i] = r
          BY <1>1, <1>2, <3>1, <3>3 DEF Control, Parking
        <4>2. ASSUME NEW i \in 1..Len(waiting'), waiting'[i] = r
              PROVE  \E k \in 1..Len(waiting) : waiting[k] = r
          BY <1>4, <2>2, <3>3, <4>2
        <4>3. ASSUME NEW i \in 1..Len(waiting), waiting[i] = r
              PROVE  \E k \in 1..Len(waiting') : waiting'[k] = r
          <5>1. i \in 1..Len(waiting')
            BY <1>1, <1>4, GraphTypes
          <5> QED BY <1>4, <4>3, <5>1
        <4> QED BY <4>1, <4>2, <4>3
      <3> QED BY <3>2, <3>3
    <2> QED BY <2>3, <2>4 DEF Parking
  <1>8. Permits'
    <2>1. Holders' = Holders
      BY <1>3 DEF Holders
    <2>2. held' > 0
      BY <1>1, GraphTypes
    <2> QED BY <1>1, <2>1, <2>2 DEF Control, Permits
  <1>9. Control'
    <2>1. Serving' /\ DirectAgentIsExclusive'
      BY <1>1, <1>3, GraphTypes DEF Control, Serving, DirectAgentIsExclusive
    <2>2. Guidance'
      BY <1>1, <1>2, <1>3 DEF Control, Guidance, Ended, Active
    <2>3. Records'
      BY <1>1, <1>3, GraphTypes DEF Control, Records, turnVars
    <2> QED BY <1>7, <1>8, <2>1, <2>2, <2>3 DEF Control
  <1>10. StepIsDue
    BY <1>1, GraphTypes DEF StepIsDue
  <1> QED BY <1>5, <1>6, <1>9, <1>10 DEF GraphInv

LEMMA RunTaskSafe ==
    ASSUME GraphInv, NEW t \in Tasks, RunTask(t)
    PROVE  GraphInv' /\ StepIsDue
  <1>1. /\ run[t].phase = "offered" /\ faults' \in 0..MaxFaults
        /\ UNCHANGED <<schedulerVars, opened, direct, turnVars>>
        /\ UNCHANGED <<budget, aborted, interrupted, cleared, acts>>
    BY DEF RunTask, turnVars, GraphInv, GraphTypeOK
  <1>2. CASE aborted /\ SettleQueued({t}) /\ run' = [run EXCEPT ![t].phase = "cancelled"]
             /\ UNCHANGED <<held, waiting>>
    BY <1>1, <1>2, RefusedSafe
  <1>3. CASE run' = [run EXCEPT ![t].phase = "failed"] /\ UNCHANGED <<job, settled, held, waiting>>
    BY <1>1, <1>3, RefusedSafe
  <1>4. CASE held < budget /\ held' = held + 1 /\ run' = [run EXCEPT ![t].phase = "granted"]
             /\ UNCHANGED <<waiting, job, settled>>
    BY <1>1, <1>4, GrantedSafe
  <1>5. CASE ~(held < budget) /\ waiting' = Append(waiting, t)
             /\ run' = [run EXCEPT ![t].phase = "parked"] /\ UNCHANGED <<held, job, settled>>
    BY <1>1, <1>5, ParkedSafe
  <1> QED BY <1>2, <1>3, <1>4, <1>5 DEF RunTask

(***************************************************************************)
(* A run ends.                                                             *)
(***************************************************************************)
LEMMA RunEnds ==
    ASSUME GraphInv, NEW r \in Runs, NEW phase \in Ended, r \in Holders, Free(r, phase),
           phase = "completed" => run[r].owed = 0, UNCHANGED <<schedulerVars, turnVars>>
    PROVE  /\ run' \in [Runs -> Run] /\ waiting' \in Seq(Tasks) /\ held' \in Nat
           /\ Scheduling' /\ Parking' /\ Permits' /\ Guidance'
           /\ held' > held => held' <= budget
           /\ ~Active(r)' /\ run'[r].phase # "turn"
           /\ \A x \in Runs : x # r => (Active(x)' <=> Active(x))
           /\ \A x \in Runs : x # r => (run'[x].phase = "turn" <=> run[x].phase = "turn")
  <1>1. GraphTypeOK /\ Scheduling /\ Control /\ UNCHANGED budget
    BY DEF GraphInv, turnVars
  <1>2. /\ run' \in [Runs -> Run] /\ waiting' \in Seq(Tasks) /\ held' \in Nat
        /\ run'[r] = [run[r] EXCEPT !.phase = phase]
        /\ \A x \in Runs : x # r => run'[x] = run[x] \/ Promoted(x)
        /\ Parking' /\ Permits'
        /\ held' > held => held' <= budget
    BY <1>1, FreeEffect DEF Control
  <1>3. /\ run'[r].phase = phase /\ run'[r].owed = run[r].owed
        /\ run[r].phase \in {"granted", "preparing", "turn"}
    BY <1>1, <1>2, GraphTypes DEF Holders, Run
  <1>4. ASSUME NEW x \in Runs, x # r
        PROVE  /\ run'[x].mail = run[x].mail /\ run'[x].owed = run[x].owed
               /\ run'[x].aborted = run[x].aborted
               /\ \/ run'[x].phase = run[x].phase
                  \/ run[x].phase = "parked" /\ run'[x].phase = "granted"
    BY <1>1, <1>2, <1>4, GraphTypes DEF Promoted, Run
  <1>5. ~Active(r)' /\ run'[r].phase # "turn"
    BY <1>3 DEF Active, Ended
  <1>6. /\ \A x \in Runs : x # r => (Active(x)' <=> Active(x))
        /\ \A x \in Runs : x # r => (run'[x].phase = "turn" <=> run[x].phase = "turn")
    BY <1>4 DEF Active
  <1>7. Scheduling'
    <2>1. ASSUME NEW t \in Tasks
          PROVE  /\ UnderWay(t)' => UnderWay(t)
                 /\ run[t].phase = "none" => run'[t].phase = "none"
      BY <1>1, <1>3, <1>4, GraphTypes DEF UnderWay, Ended
    <2> QED BY <1>1, <2>1, SchedulingFrame
  <1>8. Guidance'
    <2>1. ASSUME NEW x \in Runs
          PROVE  /\ Active(x)' => run'[x].mail = run'[x].owed \/ run'[x].aborted
                 /\ ~Active(x)' /\ run'[x].phase \notin Ended => run'[x].mail = run'[x].owed
                 /\ run'[x].phase = "completed" => run'[x].owed = 0
      <3>1. CASE x = r
        BY <1>3, <1>5, <3>1
      <3>2. CASE x # r
        <4>1. /\ Active(x) => run[x].mail = run[x].owed \/ run[x].aborted
              /\ ~Active(x) /\ run[x].phase \notin Ended => run[x].mail = run[x].owed
              /\ run[x].phase = "completed" => run[x].owed = 0
          BY <1>1 DEF Control, Guidance
        <4> QED BY <1>4, <3>2, <4>1 DEF Active, Ended
      <3> QED BY <3>1, <3>2
    <2> QED BY <2>1 DEF Guidance
  <1> QED BY <1>2, <1>5, <1>6, <1>7, <1>8

\* Nobody queues for the shared agent, and no run gets it.
LEMMA SameQueue ==
    ASSUME GraphTypeOK, Serving, DirectAgentIsExclusive, UNCHANGED direct,
           SameTurns
    PROVE  Serving' /\ DirectAgentIsExclusive'
  <1>1. ASSUME NEW x \in Direct, Active(x)'
        PROVE  \E i \in 1..Len(direct') : direct'[i] = x
    BY <1>1, GraphTypes DEF Serving, SameTurns, SameActive
  <1>2. ASSUME NEW x \in Direct, run'[x].phase = "turn"
        PROVE  direct' # <<>> /\ Head(direct') = x
    BY <1>2, GraphTypes DEF DirectAgentIsExclusive, SameTurns
  <1> QED BY <1>1, <1>2 DEF Serving, DirectAgentIsExclusive

\* A run takes its place in the queue of the shared agent.
Served == direct' \in Seq(Direct) /\ Serving' /\ DirectAgentIsExclusive'

LEMMA OpenSafe ==
    ASSUME GraphTypeOK, Serving, DirectAgentIsExclusive, NEW r \in Runs,
           direct' = IF r \in Direct THEN Append(direct, r) ELSE direct,
           run'[r].phase # "turn", \A x \in Runs : x # r => run'[x] = run[x]
    PROVE  Served
  <1>1. CASE r \notin Direct
    BY <1>1, GraphTypes DEF GraphTypeOK, Serving, DirectAgentIsExclusive, Active, Served
  <1>2. CASE r \in Direct
    <2>1. /\ direct' \in Seq(Direct) /\ Len(direct') = Len(direct) + 1 /\ direct' # <<>>
          /\ direct'[Len(direct) + 1] = r /\ Len(direct) \in Nat
          /\ \A i \in 1..Len(direct) : direct'[i] = direct[i]
      BY <1>2, AppendProperties DEF GraphTypeOK
    <2>2. Serving'
      BY <2>1, GraphTypes DEF Serving, Active
    <2>3. ASSUME NEW x \in Direct, run'[x].phase = "turn"
          PROVE  direct' # <<>> /\ Head(direct') = x
      <3>1. x # r /\ direct # <<>> /\ Head(direct) = x
        BY <2>3, GraphTypes DEF DirectAgentIsExclusive
      <3>2. Len(direct) > 0 /\ direct[1] = x
        BY <2>1, <3>1 DEF GraphTypeOK
      <3> QED BY <2>1, <3>2
    <2> QED BY <2>1, <2>2, <2>3 DEF DirectAgentIsExclusive, Served
  <1> QED BY <1>1, <1>2

LEMMA DispatchSafe ==
    ASSUME GraphInv, NEW t \in Tasks, Dispatch(t)
    PROVE  GraphInv' /\ StepIsDue
  <1>1. /\ GraphTypeOK /\ Scheduling /\ Control /\ t \in Runs
        /\ run[t].phase = "granted" /\ t \in Holders /\ ~Active(t)
        /\ UNCHANGED <<schedulerVars, turnVars>>
    BY GraphTypes DEF Dispatch, GraphInv, Holders, Active
  <1>2. Met(t)
    <2>1. PICK w \in Workers : worker[w].phase = "executing" /\ worker[w].task = t
      BY <1>1 DEF Scheduling, Holding, UnderWay, Ended
    <2> QED BY <1>1, <2>1 DEF Scheduling, Due, AtTask
  <1>3. job[t] = "queued" => ~cleared
    BY <1>1 DEF Control, Records
  <1>4. CASE job[t] # "queued" /\ Free(t, "cancelled")
             /\ UNCHANGED <<job, settled, opened, direct>>
    <2>1. /\ run' \in [Runs -> Run] /\ waiting' \in Seq(Tasks) /\ held' \in Nat
          /\ Scheduling' /\ Parking' /\ Permits' /\ Guidance'
          /\ held' > held => held' <= budget
          /\ ~Active(t)' /\ run'[t].phase # "turn"
          /\ \A x \in Runs : x # t => (Active(x)' <=> Active(x))
          /\ \A x \in Runs : x # t => (run'[x].phase = "turn" <=> run[x].phase = "turn")
      <3>1. "cancelled" \in Ended /\ "cancelled" # "completed"
        BY DEF Ended
      <3> QED BY <1>1, <1>4, <3>1, RunEnds
    <2>6. SameActive /\ SameTurns
      BY <1>1, <2>1 DEF SameTurns, SameActive
    <2>2. GraphTypeOK'
      BY <1>1, <1>4, <2>1 DEF GraphTypeOK, schedulerVars, turnVars
    <2>3. Serving' /\ DirectAgentIsExclusive'
      BY <1>1, <1>4, <2>6, SameQueue DEF Control
    <2>4. Records'
      <3>1. UNCHANGED <<job, settled, cleared>>
        BY <1>1, <1>4 DEF turnVars
      <3> QED BY <1>1, <2>6, <3>1, GraphTypes DEF Control, Records, SameActive
    <2>5. StepIsDue
      <3>1. Tasks \cap (opened' \ opened) = {}
        BY <1>4
      <3> QED BY <2>1, <3>1 DEF StepIsDue
    <2> QED BY <2>1, <2>2, <2>3, <2>4, <2>5 DEF GraphInv, Control
  <1>5. CASE job[t] = "queued" /\ Free(t, "cancelled") /\ SettleQueued({t}) /\ Started(t)
             /\ UNCHANGED direct
    <2>1. /\ run' \in [Runs -> Run] /\ waiting' \in Seq(Tasks) /\ held' \in Nat
          /\ Scheduling' /\ Parking' /\ Permits' /\ Guidance'
          /\ held' > held => held' <= budget
          /\ ~Active(t)' /\ run'[t].phase # "turn"
          /\ \A x \in Runs : x # t => (Active(x)' <=> Active(x))
          /\ \A x \in Runs : x # t => (run'[x].phase = "turn" <=> run[x].phase = "turn")
      <3>1. "cancelled" \in Ended /\ "cancelled" # "completed"
        BY DEF Ended
      <3> QED BY <1>1, <1>5, <3>1, RunEnds
    <2>7. SameActive /\ SameTurns
      BY <1>1, <2>1 DEF SameTurns, SameActive
    <2>2. /\ Records' /\ job' \in [Tasks -> {"absent", "queued", "dispatched"}]
          /\ settled' \in [Tasks -> Nat]
      <3>1. UNCHANGED cleared /\ {t} \in SUBSET Tasks
        BY <1>1 DEF turnVars
      <3> QED BY <1>1, <1>5, <2>7, <3>1, SettleQueuedEffect DEF Control
    <2>3. opened' = opened \cup {t}
      BY <1>5 DEF Started
    <2>4. GraphTypeOK'
      BY <1>1, <1>5, <2>1, <2>2, <2>3 DEF GraphTypeOK, schedulerVars, turnVars
    <2>5. Serving' /\ DirectAgentIsExclusive'
      BY <1>1, <1>5, <2>7, SameQueue DEF Control, Active
    <2>6. StepIsDue
      <3>1. \A u \in Tasks \cap (opened' \ opened) : u = t
        BY <2>3
      <3> QED BY <1>2, <1>3, <1>5, <2>1, <3>1 DEF StepIsDue
    <2> QED BY <2>1, <2>2, <2>4, <2>5, <2>6 DEF GraphInv, Control
  <1>6. CASE job[t] = "queued" /\ job' = [job EXCEPT ![t] = "dispatched"]
             /\ run' = [run EXCEPT ![t].phase = "preparing"] /\ Open(t)
             /\ UNCHANGED <<settled, held, waiting>>
    <2>1. /\ run' \in [Runs -> Run] /\ run'[t].phase = "preparing"
          /\ run'[t].mail = run[t].mail /\ run'[t].owed = run[t].owed
          /\ \A x \in Runs : x # t => run'[x] = run[x]
      BY <1>1, <1>6, PhaseChanged
    <2>2. opened' = opened \cup {t} /\ direct' = IF t \in Direct THEN Append(direct, t) ELSE direct
      BY <1>6 DEF Open, Started
    <2>3. Served
      BY <1>1, <2>1, <2>2, OpenSafe DEF Control
    <2>4. Records'
      <3>1. /\ Active(t)' /\ job'[t] = "dispatched" /\ settled'[t] = 0
        BY <1>1, <1>6, <2>1 DEF Active, Control, Records, GraphTypeOK
      <3>2. \A u \in Tasks : u # t => /\ Active(u)' = Active(u) /\ job'[u] = job[u]
                                     /\ settled'[u] = settled[u]
        BY <1>1, <1>6, <2>1, GraphTypes DEF Active, GraphTypeOK
      <3>3. UNCHANGED cleared
        BY <1>1 DEF turnVars
      <3> QED BY <1>1, <3>1, <3>2, <3>3 DEF Control, Records
    <2>5. GraphTypeOK'
      BY <1>1, <1>6, <2>1, <2>2, <2>3 DEF GraphTypeOK, schedulerVars, turnVars, Served
    <2>6. Scheduling'
      <3>1. \A u \in Tasks : /\ UnderWay(u)' => UnderWay(u)
                             /\ run[u].phase = "none" => run'[u].phase = "none"
        BY <1>1, <2>1, GraphTypes DEF UnderWay, Ended
      <3> QED BY <1>1, <3>1, SchedulingFrame
    <2>7. Parking' /\ Permits'
      <3>1. \A x \in Runs : /\ x \in Holders' <=> x \in Holders
                            /\ run'[x].phase = "parked" <=> run[x].phase = "parked"
        BY <1>1, <2>1 DEF Holders
      <3> QED BY <1>1, <1>6, <3>1, PermitFrame DEF Control
    <2>8. Guidance'
      BY <1>1, <2>1 DEF Control, Guidance, Active, Ended
    <2>9. StepIsDue
      BY <1>1, <1>2, <1>3, <1>6, <2>2, GraphTypes DEF StepIsDue
    <2> QED BY <2>3, <2>4, <2>5, <2>6, <2>7, <2>8, <2>9 DEF GraphInv, Control, Served
  <1> QED BY <1>4, <1>5, <1>6 DEF Dispatch

\* The shared agent goes from the run that had it to the next.
LEMMA HandedOn ==
    ASSUME GraphTypeOK, Serving, DirectAgentIsExclusive, NEW r \in Runs, Active(r),
           r \in Direct => Head(direct) = r,
           direct' = IF r \in Direct THEN Tail(direct) ELSE direct,
           ~Active(r)', run'[r].phase # "turn",
           \A x \in Runs : x # r => (Active(x)' <=> Active(x)),
           \A x \in Runs : x # r => (run'[x].phase = "turn" <=> run[x].phase = "turn")
    PROVE  Served
  <1>1. CASE r \notin Direct
    <2>1. \A x \in Direct : /\ x \in Runs /\ x # r
                            /\ Active(x)' => Active(x)
                            /\ run'[x].phase = "turn" => run[x].phase = "turn"
      BY <1>1, GraphTypes
    <2>2. Serving' /\ DirectAgentIsExclusive'
      BY <1>1, <2>1 DEF Serving, DirectAgentIsExclusive
    <2> QED BY <1>1, <2>2 DEF GraphTypeOK, Served
  <1>2. CASE r \in Direct
    <2>1. /\ Len(direct) > 0 /\ Len(direct) \in Nat /\ direct # <<>>
          /\ direct[1] = r /\ direct' = Tail(direct)
      BY <1>2 DEF GraphTypeOK, Serving
    <2>2. /\ direct' \in Seq(Direct) /\ Len(direct') = Len(direct) - 1
          /\ \A i \in 1..Len(direct') : direct'[i] = direct[i + 1]
      BY <2>1, HeadTailProperties DEF GraphTypeOK
    <2>3. ASSUME NEW x \in Direct, Active(x)'
          PROVE  \E i \in 1..Len(direct') : direct'[i] = x
      <3>1. x # r /\ Active(x)
        BY <2>3, GraphTypes
      <3>2. PICK i \in 1..Len(direct) : direct[i] = x
        BY <3>1 DEF Serving
      <3>3. i - 1 \in 1..Len(direct') /\ (i - 1) + 1 = i
        BY <2>1, <2>2, <3>1, <3>2
      <3> QED BY <2>2, <3>2, <3>3
    <2>4. \A x \in Direct : run'[x].phase # "turn"
      BY <1>2, GraphTypes DEF DirectAgentIsExclusive
    <2> QED BY <2>2, <2>3, <2>4 DEF Serving, DirectAgentIsExclusive, Served
  <1> QED BY <1>1, <1>2

LEMMA EndRunSafe ==
    ASSUME GraphInv, NEW r \in Runs, NEW status \in Ended, Active(r), EndRun(r, status),
           status = "completed" => run[r].owed = 0, r \in Direct => Head(direct) = r
    PROVE  GraphInv' /\ StepIsDue
  <1>1. /\ GraphTypeOK /\ Scheduling /\ Control /\ r \in Holders
        /\ Free(r, status) /\ UNCHANGED <<schedulerVars, opened, turnVars>>
    BY DEF GraphInv, EndRun, Active, Holders
  <1>2. /\ run' \in [Runs -> Run] /\ waiting' \in Seq(Tasks) /\ held' \in Nat
        /\ Scheduling' /\ Parking' /\ Permits' /\ Guidance'
        /\ held' > held => held' <= budget
        /\ ~Active(r)' /\ run'[r].phase # "turn"
        /\ \A x \in Runs : x # r => (Active(x)' <=> Active(x))
        /\ \A x \in Runs : x # r => (run'[x].phase = "turn" <=> run[x].phase = "turn")
    BY <1>1, RunEnds
  <1>3. Served
    <2>1. direct' = IF r \in Direct THEN Tail(direct) ELSE direct
      BY DEF EndRun
    <2> QED BY <1>1, <1>2, <2>1, HandedOn DEF Control
  <1>4. Records' /\ job' \in [Tasks -> {"absent", "queued", "dispatched"}]
        /\ settled' \in [Tasks -> Nat]
    <2>1. /\ job' = [t \in Tasks |-> IF t = r THEN "absent" ELSE job[t]]
          /\ settled' = [t \in Tasks |-> IF t = r THEN settled[t] + 1 ELSE settled[t]]
          /\ UNCHANGED cleared
      BY <1>1 DEF EndRun, turnVars
    <2>2. ASSUME NEW t \in Tasks
          PROVE  /\ \/ job'[t] = "queued" /\ settled'[t] = 0 /\ ~Active(t)'
                    \/ job'[t] = "dispatched" /\ settled'[t] = 0 /\ Active(t)'
                    \/ job'[t] = "absent" /\ settled'[t] = 1 /\ ~Active(t)'
                 /\ cleared' => job'[t] # "queued"
      <3>1. CASE t = r
        <4>1. settled[t] = 0
          BY <1>1, <3>1 DEF Control, Records
        <4> QED BY <1>2, <2>1, <3>1, <4>1
      <3>2. CASE t # r
        <4>1. /\ Active(t)' <=> Active(t)
              /\ job'[t] = job[t] /\ settled'[t] = settled[t] /\ cleared' = cleared
          BY <1>1, <1>2, <2>1, <3>2, GraphTypes
        <4>2. /\ \/ job[t] = "queued" /\ settled[t] = 0 /\ ~Active(t)
                 \/ job[t] = "dispatched" /\ settled[t] = 0 /\ Active(t)
                 \/ job[t] = "absent" /\ settled[t] = 1 /\ ~Active(t)
              /\ cleared => job[t] # "queued"
          BY <1>1 DEF Control, Records
        <4> QED BY <4>1, <4>2
      <3> QED BY <3>1, <3>2
    <2>3. job' \in [Tasks -> {"absent", "queued", "dispatched"}] /\ settled' \in [Tasks -> Nat]
      BY <1>1, <2>1 DEF GraphTypeOK
    <2> QED BY <2>2, <2>3 DEF Records
  <1>5. GraphTypeOK'
    BY <1>1, <1>2, <1>3, <1>4 DEF GraphTypeOK, schedulerVars, turnVars, Served
  <1>6. StepIsDue
    <2>1. Tasks \cap (opened' \ opened) = {}
      BY <1>1
    <2> QED BY <1>2, <2>1 DEF StepIsDue
  <1> QED BY <1>2, <1>3, <1>4, <1>5, <1>6 DEF GraphInv, Control, Served

(***************************************************************************)
(* A run that goes on, and what the operator does to it.                   *)
(***************************************************************************)
\* One run under way stays under way: it gets its turn, guidance, or is aborted.
LEMMA GoesOn ==
    ASSUME GraphInv, NEW r \in Runs, Active(r), NEW rec \in Run,
           run' = [run EXCEPT ![r] = rec],
           rec.phase \in {"preparing", "turn"}, rec.mail = rec.owed \/ rec.aborted,
           rec.phase = "turn" /\ r \in Direct => direct # <<>> /\ Head(direct) = r,
           UNCHANGED <<schedulerVars, job, settled, opened, held, waiting, direct>>,
           UNCHANGED <<budget, cleared>>, aborted' \in BOOLEAN, interrupted' \in BOOLEAN,
           faults' \in 0..MaxFaults, acts' \in 0..MaxActs
    PROVE  GraphInv' /\ StepIsDue
  <1>1. GraphTypeOK /\ Scheduling /\ Control
    BY DEF GraphInv
  <1>2. /\ run' \in [Runs -> Run] /\ run'[r] = rec
        /\ \A x \in Runs : x # r => run'[x] = run[x]
    BY <1>1 DEF GraphTypeOK
  <1>3. run[r].phase \in {"preparing", "turn"}
    BY DEF Active
  <1>4. GraphTypeOK'
    BY <1>1, <1>2 DEF GraphTypeOK, schedulerVars
  <1>5. Scheduling'
    <2>1. ASSUME NEW u \in Tasks
          PROVE  /\ UnderWay(u)' => UnderWay(u)
                 /\ run[u].phase = "none" => run'[u].phase = "none"
      BY <1>1, <1>2, <1>3, GraphTypes DEF UnderWay, Ended
    <2> QED BY <1>1, <2>1, SchedulingFrame
  <1>6. Parking' /\ Permits'
    <2>1. ASSUME NEW x \in Runs
          PROVE  /\ x \in Holders' <=> x \in Holders
                 /\ run'[x].phase = "parked" <=> run[x].phase = "parked"
      BY <1>1, <1>2, <1>3 DEF Holders
    <2> QED BY <1>1, <2>1, PermitFrame DEF Control
  <1>7. SameActive
    BY <1>2, <1>3 DEF SameActive, Active
  <1>8. Serving' /\ DirectAgentIsExclusive'
    <2>1. Serving'
      BY <1>1, <1>7, GraphTypes DEF Control, Serving, SameActive
    <2>2. ASSUME NEW x \in Direct, run'[x].phase = "turn"
          PROVE  direct # <<>> /\ Head(direct) = x
      <3>1. CASE x = r
        BY <1>2, <2>2, <3>1
      <3>2. CASE x # r
        BY <1>1, <1>2, <2>2, <3>2, GraphTypes DEF Control, DirectAgentIsExclusive
      <3> QED BY <3>1, <3>2
    <2> QED BY <2>1, <2>2 DEF DirectAgentIsExclusive
  <1>9. Records'
    BY <1>1, <1>7, GraphTypes DEF Control, Records, SameActive
  <1>10. Guidance'
    <2>1. ASSUME NEW x \in Runs
          PROVE  /\ Active(x)' => run'[x].mail = run'[x].owed \/ run'[x].aborted
                 /\ ~Active(x)' /\ run'[x].phase \notin Ended => run'[x].mail = run'[x].owed
                 /\ run'[x].phase = "completed" => run'[x].owed = 0
      <3>1. CASE x = r
        BY <1>2, <3>1 DEF Active
      <3>2. CASE x # r
        BY <1>1, <1>2, <3>2 DEF Control, Guidance, Active
      <3> QED BY <3>1, <3>2
    <2> QED BY <2>1 DEF Guidance
  <1>11. StepIsDue
    BY <1>1, GraphTypes DEF StepIsDue
  <1> QED BY <1>1, <1>4, <1>5, <1>6, <1>8, <1>9, <1>10, <1>11 DEF GraphInv, Control

LEMMA PrepareSafe ==
    ASSUME GraphInv, NEW r \in Runs, Prepare(r)
    PROVE  GraphInv' /\ StepIsDue
  <1>1. /\ GraphTypeOK /\ Control /\ run[r].phase = "preparing" /\ Active(r)
        /\ r \in Direct => Head(direct) = r
    BY DEF Prepare, GraphInv, Active
  <1>2. CASE EndRun(r, "cancelled")
    BY <1>1, <1>2, EndRunSafe DEF Ended
  <1>3. CASE /\ ~run[r].aborted /\ run' = [run EXCEPT ![r].phase = "turn"]
             /\ UNCHANGED <<schedulerVars, job, settled, opened, held, waiting, direct, turnVars>>
    <2> DEFINE rec == [run[r] EXCEPT !.phase = "turn"]
    <2>1. rec \in Run /\ rec.phase = "turn" /\ rec.mail = rec.owed
      BY <1>1, <1>3, GraphTypes DEF Run, Control, Guidance
    <2>2. r \in Direct => direct # <<>>
      BY <1>1 DEF Control, Serving, GraphTypeOK
    <2>3. run' = [run EXCEPT ![r] = rec]
      BY <1>3
    <2>4. /\ UNCHANGED <<budget, cleared>> /\ aborted' \in BOOLEAN /\ interrupted' \in BOOLEAN
          /\ faults' \in 0..MaxFaults /\ acts' \in 0..MaxActs
      BY <1>1, <1>3 DEF turnVars, GraphTypeOK
    <2> HIDE DEF rec
    <2> QED BY <1>1, <1>3, <2>1, <2>2, <2>3, <2>4, GoesOn
  <1> QED BY <1>2, <1>3 DEF Prepare

\* The shared agent is at the head of its queue in a provider turn.
LEMMA ThrowSafe ==
    ASSUME GraphInv, NEW r \in Runs, Throw(r)
    PROVE  GraphInv' /\ StepIsDue
  <1>1. PICK status \in {"failed", "cancelled"} : EndRun(r, status)
    BY DEF Throw
  <1>2. Active(r) /\ (r \in Direct => Head(direct) = r)
    BY DEF Throw, Active, GraphInv, Control, DirectAgentIsExclusive
  <1>3. status \in Ended /\ status # "completed"
    BY DEF Ended
  <1> QED BY <1>1, <1>2, <1>3, EndRunSafe

LEMMA TurnReturnsSafe ==
    ASSUME GraphInv, NEW r \in Runs, TurnReturns(r)
    PROVE  GraphInv' /\ StepIsDue
  <1>1. /\ GraphTypeOK /\ Control /\ run[r].phase = "turn" /\ Active(r)
        /\ r \in Direct => direct # <<>> /\ Head(direct) = r
        /\ run[r].mail = run[r].owed \/ run[r].aborted
        /\ run[r] \in Run
    BY GraphTypes DEF TurnReturns, Active, GraphInv, Control, DirectAgentIsExclusive, Guidance
  <1>2. CASE /\ ~run[r].aborted /\ run[r].mail > 0
             /\ run' = [run EXCEPT ![r].mail = @ - 1, ![r].owed = @ - 1]
             /\ UNCHANGED <<schedulerVars, job, settled, opened, held, waiting, direct, turnVars>>
    <2> DEFINE rec == [run[r] EXCEPT !.mail = @ - 1, !.owed = @ - 1]
    <2>1. run[r].mail \in Nat \ {0} /\ run[r].owed = run[r].mail
      BY <1>1, <1>2 DEF Run
    <2> DEFINE n == run[r].mail - 1
    <2>2. n \in Nat /\ rec = [run[r] EXCEPT !.mail = n, !.owed = n]
      BY <1>1, <2>1 DEF Run
    <2> HIDE DEF n
    <2>5. rec \in Run /\ rec.phase = "turn" /\ rec.mail = rec.owed
      BY <1>1, <2>2 DEF Run
    <2>3. run' = [run EXCEPT ![r] = rec]
      BY <1>1, <1>2 DEF GraphTypeOK, Run
    <2>4. /\ UNCHANGED <<budget, cleared>> /\ aborted' \in BOOLEAN /\ interrupted' \in BOOLEAN
          /\ faults' \in 0..MaxFaults /\ acts' \in 0..MaxActs
      BY <1>1, <1>2 DEF turnVars, GraphTypeOK
    <2> HIDE DEF rec
    <2> QED BY <1>1, <1>2, <2>3, <2>4, <2>5, GoesOn
  <1>3. CASE run[r].aborted /\ EndRun(r, "cancelled")
    BY <1>1, <1>3, EndRunSafe DEF Ended
  <1>4. CASE ~run[r].aborted /\ ~(run[r].mail > 0) /\ EndRun(r, "completed")
    <2>1. run[r].owed = 0
      BY <1>1, <1>4 DEF Run
    <2> QED BY <1>1, <1>4, <2>1, EndRunSafe DEF Ended
  <1> QED BY <1>2, <1>3, <1>4 DEF TurnReturns

LEMMA ActsCounted ==
    ASSUME GraphTypeOK, Acts
    PROVE  acts' \in 0..MaxActs
  BY WorkGraphAssumption DEF GraphTypeOK, Acts

LEMMA SteerSafe ==
    ASSUME GraphInv, NEW r \in Runs, Steer(r)
    PROVE  GraphInv' /\ StepIsDue
  <1> DEFINE rec == [run[r] EXCEPT !.mail = @ + 1, !.owed = @ + 1]
  <1>1. /\ GraphTypeOK /\ Control /\ Active(r) /\ ~run[r].aborted /\ run[r] \in Run
        /\ run[r].mail = run[r].owed /\ run[r].phase \in {"preparing", "turn"}
    BY GraphTypes DEF Steer, GraphInv, Control, Guidance, Active
  <1>2. rec \in Run /\ rec.phase = run[r].phase /\ rec.mail = rec.owed
    <2> DEFINE n == run[r].mail + 1
    <2>1. n \in Nat /\ rec = [run[r] EXCEPT !.mail = n, !.owed = n]
      BY <1>1 DEF Run
    <2> HIDE DEF n
    <2> QED BY <1>1, <2>1 DEF Run
  <1>3. run' = [run EXCEPT ![r] = rec]
    BY <1>1 DEF Steer, GraphTypeOK, Run
  <1>4. run[r].phase = "turn" /\ r \in Direct => direct # <<>> /\ Head(direct) = r
    BY <1>1 DEF Control, DirectAgentIsExclusive
  <1>5. /\ UNCHANGED <<schedulerVars, job, settled, opened, held, waiting, direct, budget, cleared>>
        /\ aborted' \in BOOLEAN /\ interrupted' \in BOOLEAN
        /\ faults' \in 0..MaxFaults /\ acts' \in 0..MaxActs
    BY <1>1, ActsCounted DEF Steer, GraphTypeOK
  <1> HIDE DEF rec
  <1> QED BY <1>1, <1>2, <1>3, <1>4, <1>5, GoesOn

LEMMA CancelSafe ==
    ASSUME GraphInv, NEW r \in Runs, Cancel(r)
    PROVE  GraphInv' /\ StepIsDue
  <1> DEFINE rec == [run[r] EXCEPT !.aborted = TRUE, !.mail = 0]
  <1>1. /\ GraphTypeOK /\ Control /\ Active(r) /\ run[r] \in Run
        /\ run[r].phase \in {"preparing", "turn"}
    BY GraphTypes DEF Cancel, GraphInv, Active
  <1>2. rec \in Run /\ rec.phase = run[r].phase /\ rec.aborted
    BY <1>1 DEF Run
  <1>3. run' = [run EXCEPT ![r] = rec]
    BY <1>1 DEF Cancel, GraphTypeOK, Run
  <1>4. run[r].phase = "turn" /\ r \in Direct => direct # <<>> /\ Head(direct) = r
    BY <1>1 DEF Control, DirectAgentIsExclusive
  <1>5. /\ UNCHANGED <<schedulerVars, job, settled, opened, held, waiting, direct, budget, cleared>>
        /\ aborted' \in BOOLEAN /\ interrupted' \in BOOLEAN
        /\ faults' \in 0..MaxFaults /\ acts' \in 0..MaxActs
    BY <1>1, ActsCounted DEF Cancel, GraphTypeOK
  <1> HIDE DEF rec
  <1> QED BY <1>1, <1>2, <1>3, <1>4, <1>5, GoesOn

\* A continuation takes a permit and goes to its agent.
LEMMA ContinueSafe ==
    ASSUME GraphInv, NEW c \in Continuations, Continue(c)
    PROVE  GraphInv' /\ StepIsDue
  <1>1. /\ GraphTypeOK /\ Scheduling /\ Control /\ c \in Runs /\ c \notin Tasks
        /\ run[c].phase = "none" /\ held < budget /\ held' = held + 1
        /\ run' = [run EXCEPT ![c].phase = "preparing"]
        /\ opened' = opened \cup {c}
        /\ direct' = IF c \in Direct THEN Append(direct, c) ELSE direct
        /\ UNCHANGED <<schedulerVars, job, settled, waiting>>
        /\ UNCHANGED <<budget, aborted, interrupted, cleared, faults>>
    BY WorkGraphAssumption DEF Continue, Open, Started, GraphInv, Runs
  <1>2. /\ run' \in [Runs -> Run] /\ run'[c].phase = "preparing"
        /\ run'[c].mail = run[c].mail /\ run'[c].owed = run[c].owed
        /\ \A x \in Runs : x # c => run'[x] = run[x]
    BY <1>1, PhaseChanged
  <1>3. Served
    BY <1>1, <1>2, OpenSafe DEF Control
  <1>4. GraphTypeOK'
    <2>1. acts' \in 0..MaxActs
      BY <1>1, ActsCounted DEF Continue
    <2> QED BY <1>1, <1>2, <1>3, <2>1, GraphTypes DEF GraphTypeOK, schedulerVars, Served
  <1>5. Scheduling'
    <2>1. \A u \in Tasks : /\ UnderWay(u)' => UnderWay(u)
                           /\ run[u].phase = "none" => run'[u].phase = "none"
      BY <1>1, <1>2, GraphTypes DEF UnderWay
    <2> QED BY <1>1, <2>1, SchedulingFrame
  <1>6. Permits'
    <2>1. c \notin Holders /\ Holders' = Holders \cup {c}
      BY <1>1, <1>2 DEF Holders
    <2>2. /\ IsFiniteSet(Holders \cup {c})
          /\ Cardinality(Holders \cup {c}) = Cardinality(Holders) + 1
      BY <1>1, <2>1, FS_AddElement DEF Control, Permits
    <2> QED BY <1>1, <2>1, <2>2, GraphTypes DEF Control, Permits
  <1>7. Parking'
    <2>1. ASSUME NEW x \in Runs
          PROVE  run'[x].phase = "parked" <=> run[x].phase = "parked"
      BY <1>1, <1>2
    <2> QED BY <1>1, <2>1 DEF Control, Parking
  <1>8. Records'
    <2>1. \A u \in Tasks : run'[u] = run[u]
      BY <1>1, <1>2, GraphTypes
    <2> QED BY <1>1, <2>1 DEF Control, Records, Active
  <1>9. Guidance'
    BY <1>1, <1>2 DEF Control, Guidance, Active, Ended
  <1>10. StepIsDue
    <2>1. Tasks \cap (opened' \ opened) = {}
      BY <1>1
    <2> QED BY <1>1, <2>1, GraphTypes DEF StepIsDue
  <1> QED BY <1>3, <1>4, <1>5, <1>6, <1>7, <1>8, <1>9, <1>10 DEF GraphInv, Control, Served

LEMMA SwitchModeSafe ==
    ASSUME GraphInv, NEW b \in Budgets, SwitchMode(b)
    PROVE  GraphInv' /\ StepIsDue
  <1>1. /\ GraphTypeOK /\ Scheduling /\ Control /\ budget' = b /\ acts' \in 0..MaxActs
        /\ UNCHANGED <<schedulerVars, controllerVars, aborted, interrupted, cleared, faults>>
    BY ActsCounted DEF SwitchMode, GraphInv
  <1>2. GraphTypeOK'
    BY <1>1 DEF GraphTypeOK, schedulerVars, controllerVars
  <1>3. Scheduling'
    BY <1>1, SchedulingFrame DEF controllerVars, UnderWay
  <1>4. Control'
    BY <1>1, ControlFrame
  <1>5. StepIsDue
    BY <1>1, GraphTypes DEF StepIsDue, controllerVars
  <1> QED BY <1>2, <1>3, <1>4, <1>5 DEF GraphInv

(***************************************************************************)
(* The turn is interrupted, or cleared.                                    *)
(***************************************************************************)
\* Runs are aborted, and the queue for permits is emptied; no permit changes hands.
LEMMA AbortRunsEffect ==
    ASSUME GraphTypeOK, Scheduling, Control, NEW S, NEW mailKept \in BOOLEAN,
           AbortRuns(S, mailKept), UNCHANGED <<schedulerVars, held, direct>>
    PROVE  /\ run' \in [Runs -> Run] /\ waiting' \in Seq(Tasks) /\ SameActive
           /\ Scheduling' /\ Parking' /\ Permits' /\ Serving' /\ DirectAgentIsExclusive'
           /\ Guidance'
  <1>1. /\ waiting' = <<>>
        /\ run' = [x \in Runs |->
                     IF run[x].phase = "parked" THEN [run[x] EXCEPT !.phase = "woken"]
                     ELSE IF x \in S /\ Active(x) THEN AbortedRun(x, mailKept)
                     ELSE run[x]]
    BY DEF AbortRuns
  <1>2. ASSUME NEW x \in Runs
        PROVE  /\ run'[x] \in Run
               /\ \/ run[x].phase = "parked" /\ run'[x].phase = "woken"
                     /\ run'[x].mail = run[x].mail /\ run'[x].owed = run[x].owed
                  \/ Active(x) /\ run'[x].phase = run[x].phase /\ run'[x].aborted
                  \/ run[x].phase # "parked" /\ run'[x] = run[x]
    <2>1. run[x] \in Run /\ x \in Runs
      BY GraphTypes
    <2>2. CASE run[x].phase = "parked"
      BY <1>1, <2>1, <2>2 DEF Run
    <2>3. CASE run[x].phase # "parked" /\ x \in S /\ Active(x)
      <3> DEFINE left == IF mailKept THEN run[x].mail ELSE 0
      <3>1. left \in Nat
        BY <2>1 DEF Run
      <3>2. run'[x] = [run[x] EXCEPT !.aborted = TRUE, !.mail = left]
        <4>1. run'[x] = AbortedRun(x, mailKept)
          BY <1>1, <2>1, <2>3
        <4> QED BY <4>1 DEF AbortedRun
      <3> HIDE DEF left
      <3> QED BY <2>1, <2>3, <3>1, <3>2 DEF Run
    <2>4. CASE run[x].phase # "parked" /\ ~(x \in S /\ Active(x))
      BY <1>1, <2>1, <2>4
    <2> QED BY <2>2, <2>3, <2>4
  <1>3. run' \in [Runs -> Run] /\ waiting' \in Seq(Tasks) /\ Len(waiting') = 0
    BY <1>1, <1>2
  <1>4. ASSUME NEW x \in Runs
        PROVE  /\ run'[x].phase # "parked"
               /\ \/ run'[x].phase = run[x].phase
                  \/ run[x].phase = "parked" /\ run'[x].phase = "woken"
    BY <1>2 DEF Active
  <1>5. SameActive /\ SameTurns
    BY <1>4 DEF SameActive, SameTurns, Active
  <1>6. Scheduling'
    <2>1. ASSUME NEW u \in Tasks
          PROVE  /\ UnderWay(u)' => UnderWay(u)
                 /\ run[u].phase = "none" => run'[u].phase = "none"
      BY <1>4, GraphTypes DEF UnderWay, Ended
    <2> QED BY <2>1, SchedulingFrame
  <1>7. Parking' /\ Permits'
    <2>1. Holders' = Holders
      BY <1>4 DEF Holders
    <2> QED BY <1>1, <1>3, <1>4, <2>1 DEF Control, Parking, Permits
  <1>8. Serving' /\ DirectAgentIsExclusive'
    BY <1>5, SameQueue DEF Control
  <1>9. Guidance'
    <2>1. ASSUME NEW x \in Runs
          PROVE  /\ Active(x)' => run'[x].mail = run'[x].owed \/ run'[x].aborted
                 /\ ~Active(x)' /\ run'[x].phase \notin Ended => run'[x].mail = run'[x].owed
                 /\ run'[x].phase = "completed" => run'[x].owed = 0
      <3>1. /\ Active(x) => run[x].mail = run[x].owed \/ run[x].aborted
            /\ ~Active(x) /\ run[x].phase \notin Ended => run[x].mail = run[x].owed
            /\ run[x].phase = "completed" => run[x].owed = 0
        BY DEF Control, Guidance
      <3> QED BY <1>2, <3>1 DEF Active, Ended
    <2> QED BY <2>1 DEF Guidance
  <1> QED BY <1>3, <1>5, <1>6, <1>7, <1>8, <1>9

LEMMA InterruptSafe ==
    ASSUME GraphInv, Interrupt
    PROVE  GraphInv' /\ StepIsDue
  <1>1. /\ GraphTypeOK /\ Scheduling /\ Control /\ AbortRuns(Tasks, TRUE)
        /\ interrupted' = TRUE /\ aborted' = TRUE /\ acts' \in 0..MaxActs
        /\ UNCHANGED <<schedulerVars, job, settled, opened, held, direct, budget, cleared, faults>>
    BY ActsCounted DEF Interrupt, GraphInv
  <1>2. /\ run' \in [Runs -> Run] /\ waiting' \in Seq(Tasks) /\ SameActive
        /\ Scheduling' /\ Parking' /\ Permits' /\ Serving' /\ DirectAgentIsExclusive'
        /\ Guidance'
    BY <1>1, AbortRunsEffect
  <1>3. GraphTypeOK'
    BY <1>1, <1>2 DEF GraphTypeOK, schedulerVars
  <1>4. Records'
    BY <1>1, <1>2, GraphTypes DEF Control, Records, SameActive
  <1>5. StepIsDue
    BY <1>1, GraphTypes DEF StepIsDue
  <1> QED BY <1>2, <1>3, <1>4, <1>5 DEF GraphInv, Control

LEMMA ClearSafe ==
    ASSUME GraphInv, Clear
    PROVE  GraphInv' /\ StepIsDue
  <1>1. /\ GraphTypeOK /\ Scheduling /\ Control /\ AbortRuns(Runs, FALSE)
        /\ SettleQueued(Tasks) /\ cleared' = TRUE /\ aborted' \in BOOLEAN /\ acts' \in 0..MaxActs
        /\ UNCHANGED <<schedulerVars, opened, held, direct, budget, interrupted, faults>>
    BY ActsCounted DEF Clear, GraphInv
  <1>2. /\ run' \in [Runs -> Run] /\ waiting' \in Seq(Tasks) /\ SameActive
        /\ Scheduling' /\ Parking' /\ Permits' /\ Serving' /\ DirectAgentIsExclusive'
        /\ Guidance'
    BY <1>1, AbortRunsEffect
  <1>3. /\ Records' /\ job' \in [Tasks -> {"absent", "queued", "dispatched"}]
        /\ settled' \in [Tasks -> Nat]
    BY <1>1, <1>2, SettleQueuedEffect DEF Control
  <1>4. GraphTypeOK'
    BY <1>1, <1>2, <1>3 DEF GraphTypeOK, schedulerVars
  <1>5. StepIsDue
    BY <1>1, GraphTypes DEF StepIsDue
  <1> QED BY <1>2, <1>3, <1>4, <1>5 DEF GraphInv, Control

(***************************************************************************)
(* Every step, and the theorems.                                           *)
(***************************************************************************)
LEMMA GraphInitSafe == GraphInit => GraphInv
  <1> SUFFICES ASSUME GraphInit PROVE GraphInv
    OBVIOUS
  <1> USE DEF GraphInit
  <1>1. Tasks \subseteq Runs /\ MaxWorkers \in Budgets /\ Budgets \subseteq Nat \ {0}
    BY WorkGraphAssumption DEF Runs
  <1>2. waiting \in Seq(Tasks) /\ direct \in Seq(Direct) /\ Len(waiting) = 0
    OBVIOUS
  <1>3. GraphTypeOK
    <2>1. pool \in Pool
      BY DEF Pool
    <2>2. worker \in [Workers -> Worker]
      BY DEF NoWorker, Worker
    <2>3. run \in [Runs -> Run]
      BY DEF NewRun, Run
    <2>4. result \in [Tasks -> Results]
      BY DEF Results
    <2>5. /\ owner \in [Paths -> Workers \cup {None}]
          /\ job \in [Tasks -> {"absent", "queued", "dispatched"}] /\ settled \in [Tasks -> Nat]
      OBVIOUS
    <2>6. /\ opened \subseteq Runs /\ held \in Nat /\ budget \in Budgets
          /\ aborted \in BOOLEAN /\ interrupted \in BOOLEAN /\ cleared \in BOOLEAN
      BY <1>1
    <2>7. faults \in 0..MaxFaults /\ acts \in 0..MaxActs
      <3>1. MaxFaults \in Nat /\ MaxActs \in Nat
        BY WorkGraphAssumption
      <3> QED BY <3>1
    <2> QED BY <1>2, <2>1, <2>2, <2>3, <2>4, <2>5, <2>6, <2>7 DEF GraphTypeOK
  <1>4. \A r \in Runs : run[r].phase = "none" /\ run[r].mail = 0 /\ run[r].owed = 0
    BY DEF NewRun
  <1>5. \A w \in Workers : worker[w].phase = "off"
    BY DEF NoWorker
  <1>6. Scheduling
    <2>1. Resting /\ Due
      BY <1>5 DEF Resting, Due, AtRest, AtTask
    <2>2. Placed
      BY <1>1, <1>4, <1>5 DEF Placed, AtRest, AtTask, Untouched
    <2>3. Holding
      BY <1>1, <1>4, <1>5 DEF Holding, UnderWay
    <2> QED BY <2>1, <2>2, <2>3 DEF Scheduling
  <1>7. Control
    <2>1. Parking
      BY <1>2, <1>4 DEF Parking
    <2>2. Permits
      <3>1. Holders = {}
        BY <1>4 DEF Holders
      <3> QED BY <3>1, FS_EmptySet DEF Permits
    <2>3. \A r \in Runs : ~Active(r)
      BY <1>4 DEF Active
    <2>4. Serving /\ DirectAgentIsExclusive
      BY <1>3, <1>4, <2>3, GraphTypes DEF Serving, DirectAgentIsExclusive
    <2>5. Records
      BY <1>1, <2>3 DEF Records
    <2>6. Guidance
      BY <1>4, <2>3 DEF Guidance
    <2> QED BY <2>1, <2>2, <2>4, <2>5, <2>6 DEF Control
  <1> QED BY <1>3, <1>6, <1>7 DEF GraphInv

LEMMA GraphStep ==
    ASSUME GraphInv, [GraphNext]_vars
    PROVE  GraphInv' /\ StepIsDue
  <1>1. ASSUME NEW t \in Tasks, Block(t) PROVE GraphInv' /\ StepIsDue
    BY <1>1, BlockSafe
  <1>2. ASSUME NEW w \in Workers, WorkerStep(w) PROVE GraphInv' /\ StepIsDue
    BY <1>2, TakeSafe, ClaimSafe, ReportSafe, SettleSafe DEF WorkerStep
  <1>3. ASSUME NEW t \in Tasks, DispatchStep(t) PROVE GraphInv' /\ StepIsDue
    BY <1>3, NotOfferedSafe, RunTaskSafe, WokenSafe, DispatchSafe DEF DispatchStep
  <1>4. ASSUME NEW r \in Runs, RunStep(r) \/ Steer(r) \/ Cancel(r)
        PROVE  GraphInv' /\ StepIsDue
    BY <1>4, PrepareSafe, ThrowSafe, TurnReturnsSafe, SteerSafe, CancelSafe DEF RunStep
  <1>5. ASSUME NEW c \in Continuations, Continue(c) PROVE GraphInv' /\ StepIsDue
    BY <1>5, ContinueSafe
  <1>6. ASSUME NEW b \in Budgets, SwitchMode(b) PROVE GraphInv' /\ StepIsDue
    BY <1>6, SwitchModeSafe
  <1>7. CASE Schedule \/ WaveDone \/ Interrupt \/ Clear
    BY <1>7, ScheduleSafe, WaveDoneSafe, InterruptSafe, ClearSafe
  <1>8. CASE UNCHANGED vars
    <2>1. /\ GraphTypeOK /\ Scheduling /\ Control
          /\ UNCHANGED <<schedulerVars, controllerVars, turnVars>>
      BY <1>8 DEF GraphInv, vars
    <2>2. GraphTypeOK'
      BY <2>1 DEF GraphTypeOK, schedulerVars, controllerVars, turnVars
    <2>3. Scheduling'
      BY <2>1, SchedulingFrame DEF controllerVars, UnderWay
    <2>4. Control'
      BY <2>1, ControlFrame DEF turnVars
    <2>5. StepIsDue
      BY <2>1, GraphTypes DEF StepIsDue, controllerVars
    <2> QED BY <2>2, <2>3, <2>4, <2>5 DEF GraphInv
  <1> QED BY <1>1, <1>2, <1>3, <1>4, <1>5, <1>6, <1>7, <1>8 DEF GraphNext, SchedulerStep

\* GraphInv holds in every state of the work graph.
THEOREM GraphCorrect == GraphSpec => []GraphInv
  <1>1. GraphInv /\ [GraphNext]_vars => GraphInv'
    BY GraphStep
  <1> QED BY <1>1, GraphInitSafe, PTL DEF GraphSpec

\* The variables have their types for every plan, routing and operator (the state of the
\* pool, the registry, the permit pool and the run controller).
THEOREM GraphTypeCorrect == GraphSpec => []GraphTypeOK
  <1>1. GraphInv => GraphTypeOK
    BY DEF GraphInv
  <1> QED BY <1>1, GraphCorrect, PTL

\* Each run under way has a worker of its own, which holds its files.
LEMMA FilesApart ==
    ASSUME GraphInv, NEW t \in Tasks, NEW u \in Tasks, t # u, UnderWay(t), UnderWay(u)
    PROVE  WritePaths[t] \cap WritePaths[u] = {}
  <1> SUFFICES ASSUME NEW p \in WritePaths[t] \cap WritePaths[u] PROVE FALSE
    OBVIOUS
  <1>1. Holding
    BY DEF GraphInv, Scheduling
  <1>2. PICK v \in Workers : worker[v].phase = "executing" /\ worker[v].task = t
    BY <1>1 DEF Holding
  <1>3. PICK w \in Workers : worker[w].phase = "executing" /\ worker[w].task = u
    BY <1>1 DEF Holding
  <1>4. owner[p] = v /\ owner[p] = w
    BY <1>1, <1>2, <1>3 DEF Holding
  <1> QED BY <1>2, <1>3, <1>4

\* Two planned runs in a provider turn at once write no common file: each is executed by
\* a worker of its own, and a worker holds the files of its task until the run has ended.
THEOREM WritersStayApart == GraphSpec => []WritersAreDisjoint
  <1>1. GraphInv => WritersAreDisjoint
    BY FilesApart DEF WritersAreDisjoint, UnderWay, Ended
  <1> QED BY <1>1, GraphCorrect, PTL

\* A planned job is recorded as settled at most once, and one that was is neither queued
\* nor under way, through clear, refusals, throws and a job cleared while it waited.
THEOREM JobsAreSettledOnce == GraphSpec => []JobsSettleOnce
  <1>1. GraphInv => JobsSettleOnce
    BY DEF GraphInv, Control, Records, JobsSettleOnce
  <1> QED BY <1>1, GraphCorrect, PTL

\* A run never completes over guidance it accepted, whenever the steer arrived.
THEOREM NoGuidanceIsLost == GraphSpec => []GuidanceIsSpent
  <1>1. GraphInv => GuidanceIsSpent
    BY DEF GraphInv, Control, Guidance, GuidanceIsSpent
  <1> QED BY <1>1, GraphCorrect, PTL

\* The permit count is the number of runs that hold one, the queue is the parked runs,
\* and it is never left waiting on a pool that no run will release.
THEOREM PermitsAreExact == GraphSpec => []PermitsExact
  <1>1. GraphInv => PermitsExact
    <2> SUFFICES ASSUME GraphInv PROVE PermitsExact
      OBVIOUS
    <2>1. GraphTypeOK /\ Parking /\ Permits
      BY DEF GraphInv, Control
    <2>2. ToSet(waiting) = {t \in Tasks : run[t].phase = "parked"}
      <3>1. waiting \in Seq(Tasks)
        BY <2>1 DEF GraphTypeOK
      <3>2. DOMAIN waiting = 1..Len(waiting)
        BY <3>1
      <3>3. \A x : x \in ToSet(waiting) <=> \E i \in 1..Len(waiting) : waiting[i] = x
        BY <3>2 DEF ToSet
      <3> QED BY <2>1, <3>3, GraphTypes DEF Parking
    <2> QED BY <2>1, <2>2 DEF Permits, PermitsExact
  <1> QED BY <1>1, GraphCorrect, PTL

\* The shared agent has one provider turn at a time, that of the run it was handed to.
THEOREM OneDirectTurn == GraphSpec => []DirectAgentIsExclusive
  <1>1. GraphInv => DirectAgentIsExclusive
    BY DEF GraphInv, Control
  <1> QED BY <1>1, GraphCorrect, PTL

\* A planned run starts only when its dependencies were reported completed and nothing was
\* cleared, and no step hands out a permit above the ceiling of the mode in force.
THEOREM StartsWhenDue == GraphSpec => StartsAreDue
  <1>1. GraphInv /\ [GraphNext]_vars =>
          [/\ \A t \in Tasks \cap (opened' \ opened) :
                 ~cleared /\ \A d \in DependsOn[t] : result[d] = "completed"
           /\ held' > held => held' <= budget]_vars
    BY GraphStep DEF StepIsDue, Met
  <1> QED BY <1>1, GraphCorrect, PTL DEF GraphSpec, StartsAreDue

(***************************************************************************)
(* The plan never gets stuck.                                              *)
(***************************************************************************)
\* No task is forgotten between the waves.
Accounted ==
    LET known == pool.pending \cup pool.successful \cup pool.failed
    IN  /\ pool.phase \in {"loop", "blocking", "returned"} => Tasks \subseteq known
        /\ pool.phase = "wave" => Tasks \subseteq known \cup pool.wave

LEMMA AccountedStep ==
    ASSUME GraphTypeOK, Accounted, [GraphNext]_vars
    PROVE  Accounted'
  <1>1. ASSUME NEW t \in Tasks, Block(t) PROVE Accounted'
    <2>1. PICK phase \in {"loop", "blocking", "threw"} :
              pool' = [pool EXCEPT !.phase = phase, !.todo = @ \ {t}, !.pending = @ \ {t},
                                   !.failed = @ \cup {t}]
      BY <1>1 DEF Block
    <2>2. PoolIs(phase, pool.pending \ {t}, pool.successful, pool.failed \cup {t}, pool.wave,
                 pool.todo \ {t})
      BY <2>1 DEF PoolIs, GraphTypeOK, Pool
    <2>3. pool.phase = "blocking"
      BY <1>1 DEF Block
    <2> QED BY <2>2, <2>3 DEF PoolIs, Accounted
  <1>2. CASE Schedule
    <2>1. CASE pool' = [pool EXCEPT !.phase = "blocking", !.todo = Blocked]
      <3>1. PoolIs("blocking", pool.pending, pool.successful, pool.failed, pool.wave, Blocked)
        <4>1. Blocked \subseteq pool.pending
          BY DEF Blocked
        <4> QED BY <2>1, <4>1 DEF PoolIs, GraphTypeOK, Pool
      <3> QED BY <1>2, <3>1 DEF PoolIs, Accounted, Schedule
    <2>2. CASE pool' = [pool EXCEPT !.phase = "returned"]
      <3>1. PoolIs("returned", pool.pending, pool.successful, pool.failed, pool.wave, pool.todo)
        BY <2>2 DEF PoolIs, GraphTypeOK, Pool
      <3> QED BY <1>2, <3>1 DEF PoolIs, Accounted, Schedule
    <2>3. CASE pool' = [pool EXCEPT !.phase = "wave", !.wave = Ready, !.todo = Ready,
                                    !.pending = @ \ Ready]
      <3>1. PoolIs("wave", pool.pending \ Ready, pool.successful, pool.failed, Ready, Ready)
        <4>1. Ready \subseteq pool.pending
          BY DEF Ready
        <4> QED BY <2>3, <4>1 DEF PoolIs, GraphTypeOK, Pool
      <3> QED BY <1>2, <3>1 DEF PoolIs, Accounted, Schedule
    <2> QED BY <1>2, <2>1, <2>2, <2>3 DEF Schedule
  <1>3. CASE WaveDone
    <2> DEFINE done == {t \in pool.wave : result[t] = "completed"}
    <2>1. PoolIs("loop", pool.pending, pool.successful \cup done,
                 pool.failed \cup (pool.wave \ done), pool.wave, pool.todo)
      <3>1. done \subseteq pool.wave
        OBVIOUS
      <3>2. pool' = [pool EXCEPT !.phase = "loop", !.successful = @ \cup done,
                                 !.failed = @ \cup (pool.wave \ done)]
        BY <1>3 DEF WaveDone
      <3> HIDE DEF done
      <3> QED BY <3>1, <3>2 DEF PoolIs, GraphTypeOK, Pool
    <2>2. pool.phase = "wave"
      BY <1>3 DEF WaveDone
    <2> HIDE DEF done
    <2> QED BY <2>1, <2>2 DEF PoolIs, Accounted
  <1>4. ASSUME NEW w \in Workers, WorkerStep(w) PROVE Accounted'
    <2>1. \/ UNCHANGED pool
          \/ pool' = [pool EXCEPT !.phase = "threw"]
          \/ \E t \in pool.todo : pool' = [pool EXCEPT !.todo = @ \ {t}]
      BY <1>4 DEF WorkerStep, Take, Claim, Report, Settle
    <2>2. /\ pool'.pending = pool.pending /\ pool'.successful = pool.successful
          /\ pool'.failed = pool.failed /\ pool'.wave = pool.wave
          /\ pool'.phase \in {pool.phase, "threw"}
      BY <2>1 DEF GraphTypeOK, Pool
    <2> QED BY <2>2 DEF Accounted
  <1>5. CASE UNCHANGED pool
    BY <1>5 DEF Accounted
  <1>6. ASSUME NEW t \in Tasks, DispatchStep(t) PROVE UNCHANGED pool
    BY <1>6 DEF DispatchStep, NotOffered, RunTask, Woken, Dispatch, schedulerVars
  <1>7. ASSUME NEW r \in Runs, RunStep(r) \/ Steer(r) \/ Cancel(r) PROVE UNCHANGED pool
    BY <1>7 DEF RunStep, Prepare, Throw, TurnReturns, EndRun, Steer, Cancel, schedulerVars
  <1>8. ASSUME NEW c \in Continuations, Continue(c) PROVE UNCHANGED pool
    BY <1>8 DEF Continue, schedulerVars
  <1>9. (\E b \in Budgets : SwitchMode(b)) \/ Interrupt \/ Clear \/ UNCHANGED vars
          => UNCHANGED pool
    BY DEF SwitchMode, Interrupt, Clear, vars, schedulerVars
  <1> QED BY <1>1, <1>2, <1>3, <1>4, <1>5, <1>6, <1>7, <1>8, <1>9 DEF GraphNext, SchedulerStep

LEMMA PositionInPlan ==
    ASSUME NEW t \in Tasks
    PROVE  Position(t) \in DOMAIN Plan /\ Plan[Position(t)] = t /\ Position(t) \in Nat
  <1>1. \E i \in DOMAIN Plan : Plan[i] = t
    BY WorkGraphAssumption DEF Tasks, ToSet
  <1>2. Position(t) \in DOMAIN Plan /\ Plan[Position(t)] = t
    BY <1>1 DEF Position
  <1>3. DOMAIN Plan \subseteq Nat
    BY WorkGraphAssumption
  <1> QED BY <1>2, <1>3

\* A set of naturals has a least element: its finite initial segments are well-founded.
LEMMA LeastNatural ==
    ASSUME NEW S \in SUBSET Nat, S # {}
    PROVE  \E n \in S : \A m \in S : n <= m
  <1> DEFINE upTo(n) == {m \in S : m <= n}
             segments == {upTo(n) : n \in S}
  <1>1. segments \subseteq FiniteSubsetsOf(S) /\ segments # {}
    <2>1. ASSUME NEW n \in S
          PROVE  IsFiniteSet(upTo(n)) /\ upTo(n) \subseteq S
      <3>1. upTo(n) \in SUBSET Nat /\ n \in Nat /\ \A m \in upTo(n) : m <= n
        OBVIOUS
      <3> HIDE DEF upTo
      <3>2. IsFiniteSet(upTo(n))
        BY <3>1, FS_BoundedSetOfNaturals
      <3> QED BY <3>2 DEF upTo
    <2> QED BY <2>1 DEF FiniteSubsetsOf
  <1>2. PICK low \in segments : \A x \in segments : ~ (<<x, low>> \in StrictSubsetOrdering(S))
    <2> HIDE DEF segments
    <2> QED BY <1>1, FS_StrictSubsetOrderingWellFounded, WFMin
  <1>3. PICK n \in S : low = upTo(n)
    BY <1>2
  <1>4. ASSUME NEW m \in S, ~ (n <= m)
        PROVE  FALSE
    <2>1. n \in Nat /\ m \in Nat /\ m < n /\ S \subseteq Nat
      BY <1>4
    <2>2. upTo(m) \in segments /\ n \in upTo(n) \ upTo(m)
      BY <2>1
    <2>3. upTo(m) \subseteq upTo(n)
      <3>1. \A x \in S : x <= m => x <= n
        BY <2>1
      <3> QED BY <3>1
    <2>4. upTo(m) \in SUBSET S /\ upTo(n) \in SUBSET S
      OBVIOUS
    <2> HIDE DEF upTo, segments
    <2> QED BY <1>2, <1>3, <2>2, <2>3, <2>4 DEF StrictSubsetOrdering
  <1> QED BY <1>4

\* The first of some tasks, in plan order, depends on none of them.
LEMMA FirstIsFree ==
    ASSUME NEW S \in SUBSET Tasks, S # {}
    PROVE  \E t \in S : DependsOn[t] \cap S = {}
  <1> DEFINE places == {Position(t) : t \in S}
  <1>1. places \in SUBSET Nat /\ places # {}
    BY PositionInPlan
  <1>2. PICK n \in places : \A m \in places : n <= m
    <2> HIDE DEF places
    <2> QED BY <1>1, LeastNatural
  <1>3. PICK t \in S : n = Position(t)
    BY <1>2
  <1>4. ASSUME NEW d \in DependsOn[t], d \in S
        PROVE  FALSE
    <2>1. /\ Position(d) \in DOMAIN Plan /\ Plan[Position(d)] = d /\ Position(d) \in Nat
          /\ Position(t) \in DOMAIN Plan /\ Plan[Position(t)] = t /\ Position(t) \in Nat
      BY <1>4, PositionInPlan
    <2>2. Position(d) < Position(t)
      BY <1>4, <2>1, WorkGraphAssumption
    <2>3. Position(t) <= Position(d)
      BY <1>2, <1>3, <1>4
    <2> QED BY <2>1, <2>2, <2>3
  <1> QED BY <1>3, <1>4

\* The scheduler never throws "Goal task plan cannot make progress" for a plan that was
\* accepted: while tasks are pending one of them is ready, or there is one to block.
THEOREM PlanNeverStalls == GraphSpec => []PlanCanProgress
  <1>1. GraphInit => Accounted
    BY DEF GraphInit, Accounted
  <1>2. GraphTypeOK /\ Accounted /\ [GraphNext]_vars => Accounted'
    BY AccountedStep
  <1>3. GraphTypeOK /\ Accounted => PlanCanProgress
    <2> SUFFICES ASSUME GraphTypeOK, Accounted, pool.phase = "loop", pool.pending # {},
                        Blocked = {}
                 PROVE  Ready # {}
      BY DEF PlanCanProgress
    <2>1. pool.pending \in SUBSET Tasks
      BY DEF GraphTypeOK, Pool
    <2>2. PICK t \in pool.pending : DependsOn[t] \cap pool.pending = {}
      BY <2>1, FirstIsFree
    <2>3. DependsOn[t] \subseteq Tasks /\ DependsOn[t] \cap pool.failed = {}
      BY <2>1, <2>2, GraphTypes DEF Blocked
    <2>4. DependsOn[t] \subseteq pool.successful
      BY <2>2, <2>3 DEF Accounted
    <2> QED BY <2>4 DEF Ready
  <1> QED BY <1>1, <1>2, <1>3, GraphTypeCorrect, PTL DEF GraphSpec

(***************************************************************************)
(* The turn executes the plan.  A run that was opened is under way or      *)
(* settled (Begun); a task that the plan calls failed was told to it, and  *)
(* a wave is not over before each of its tasks was (Told).                 *)
(***************************************************************************)
Begun ==
    \A t \in Tasks :
        /\ Active(t) => t \in opened
        /\ t \in opened => Active(t) \/ (run[t].phase \in Ended /\ job[t] = "absent")

Failed(t) == result[t] \in {"failed", "cancelled", "blocked"}

Told ==
    /\ \A t \in pool.failed : Failed(t)
    /\ pool.phase = "blocking" => \A t \in pool.todo : DependsOn[t] \cap pool.failed # {}
    /\ pool.phase = "wave" =>
          /\ \A t \in pool.wave : \/ t \in pool.todo \/ result[t] # "none"
                                  \/ \E w \in Workers : AtTask(w) /\ worker[w].task = t
          /\ pool.todo # {} => \E w \in Workers : ~AtRest(w)

PlanInv == GraphInv /\ Begun /\ Told

Performed == Execution!PlanNext \/ UNCHANGED Execution!planVars

\* Of a task, what the plan's execution sees of its run.
Kept(t) == /\ Outcome(t)' = Outcome(t)
           /\ run'[t].phase = "turn" <=> run[t].phase = "turn"

LEMMA Unseen ==
    ASSUME \A t \in Tasks : Kept(t), opened' \cap Tasks = opened \cap Tasks,
           UNCHANGED <<settled, result, cleared>>
    PROVE  Performed
  <1>1. {t \in Tasks : run'[t].phase = "turn"} = {t \in Tasks : run[t].phase = "turn"}
    BY DEF Kept
  <1>2. [t \in Tasks |-> Outcome(t)]' = [t \in Tasks |-> Outcome(t)]
    BY DEF Kept
  <1>3. UNCHANGED Execution!planVars
    BY <1>1, <1>2 DEF Execution!planVars
  <1> QED BY <1>3 DEF Performed

\* The runs and the pool do nothing that the execution or the invariant sees.
LEMMA Quiet ==
    ASSUME Begun, Told, \A t \in Tasks : /\ Kept(t) /\ (Active(t)' <=> Active(t))
                                         /\ run[t].phase \in Ended => run'[t].phase \in Ended,
           opened' \cap Tasks = opened \cap Tasks,
           UNCHANGED <<job, settled, pool, worker, result, cleared>>
    PROVE  Begun' /\ Told' /\ Performed
  <1>1. Begun'
    BY DEF Begun
  <1>2. Told'
    BY DEF Told, Failed, AtTask, AtRest
  <1> QED BY <1>1, <1>2, Unseen

LEMMA ToldFrame ==
    ASSUME Told, UNCHANGED schedulerVars
    PROVE  Told' /\ UNCHANGED result
  BY DEF Told, Failed, AtTask, AtRest, schedulerVars

LEMMA SamePhase ==
    ASSUME NEW t \in Tasks, run'[t].phase = run[t].phase
    PROVE  /\ Kept(t) /\ (Active(t)' <=> Active(t))
           /\ run[t].phase \in Ended => run'[t].phase \in Ended
  BY DEF Kept, Outcome, Active

\* A run that is not under way and gets another phase before its start.
LEMMA EarlyPhase ==
    ASSUME NEW t \in Tasks, run[t].phase \in {"none", "offered", "parked", "woken"},
           run'[t].phase \in {"offered", "parked", "woken", "granted"}
    PROVE  /\ Kept(t) /\ (Active(t)' <=> Active(t))
           /\ run[t].phase \in Ended => run'[t].phase \in Ended
  BY DEF Kept, Outcome, Active, Ended

(***************************************************************************)
(* The steps of the plan's execution, as the turn takes them.              *)
(***************************************************************************)
LEMMA Refused ==
    ASSUME NEW t \in Tasks, t \notin opened, Outcome(t) = "none", run[t].phase # "turn",
           run'[t].phase \in {"failed", "cancelled"}, \A x \in Tasks : x # t => Kept(x),
           settled'[t] > 0, \A x \in Tasks : x # t => settled'[x] = settled[x],
           UNCHANGED <<opened, result, cleared>>
    PROVE  Performed
  <1>1. Outcome(t)' = run'[t].phase
    BY DEF Outcome, Ended
  <1>2. {x \in Tasks : run'[x].phase = "turn"} = {x \in Tasks : run[x].phase = "turn"}
    BY DEF Kept
  <1>3. [x \in Tasks |-> Outcome(x)]'
          = [[x \in Tasks |-> Outcome(x)] EXCEPT ![t] = run'[t].phase]
    BY <1>1 DEF Kept
  <1>4. {x \in Tasks : settled'[x] > 0} = {x \in Tasks : settled[x] > 0} \cup {t}
    OBVIOUS
  <1>5. Execution!Refuse(t)
    BY <1>2, <1>3, <1>4 DEF Execution!Refuse, Execution!Fresh
  <1> QED BY <1>5 DEF Performed, Execution!PlanNext

LEMMA Lost ==
    ASSUME NEW t \in Tasks, t \notin opened, Outcome(t) = "none", run[t].phase # "turn",
           run'[t].phase = "failed", \A x \in Tasks : x # t => Kept(x),
           UNCHANGED <<settled, opened, result, cleared>>
    PROVE  Performed
  <1>1. Outcome(t)' = "failed"
    BY DEF Outcome, Ended
  <1>2. {x \in Tasks : run'[x].phase = "turn"} = {x \in Tasks : run[x].phase = "turn"}
    BY DEF Kept
  <1>3. [x \in Tasks |-> Outcome(x)]' = [[x \in Tasks |-> Outcome(x)] EXCEPT ![t] = "failed"]
    BY <1>1 DEF Kept
  <1>4. Execution!Lose(t)
    BY <1>2, <1>3 DEF Execution!Lose, Execution!Fresh
  <1> QED BY <1>4 DEF Performed, Execution!PlanNext

LEMMA Begins ==
    ASSUME NEW t \in Tasks, t \notin opened, opened' = opened \cup {t}, Outcome(t) = "none",
           ~(settled[t] > 0), ~cleared, Met(t), run[t].phase # "turn", run'[t].phase # "turn",
           \A x \in Tasks : x # t => Kept(x),
           UNCHANGED <<result, cleared>>,
           \/ Outcome(t)' = "none" /\ UNCHANGED settled
           \/ /\ Outcome(t)' = "cancelled" /\ settled'[t] > 0
              /\ \A x \in Tasks : x # t => settled'[x] = settled[x]
    PROVE  Performed
  <1>1. {x \in Tasks : run'[x].phase = "turn"} = {x \in Tasks : run[x].phase = "turn"}
    BY DEF Kept
  <1>2. opened' \cap Tasks = (opened \cap Tasks) \cup {t}
    OBVIOUS
  <1>3. Execution!MayBegin(t)
    BY DEF Execution!MayBegin, Execution!Fresh, Met
  <1>4. CASE Outcome(t)' = "none" /\ UNCHANGED settled
    <2>1. [x \in Tasks |-> Outcome(x)]' = [x \in Tasks |-> Outcome(x)]
      BY <1>4 DEF Kept
    <2>2. Execution!Begin(t)
      BY <1>1, <1>2, <1>3, <1>4, <2>1 DEF Execution!Begin
    <2> QED BY <2>2 DEF Performed, Execution!PlanNext
  <1>5. CASE /\ Outcome(t)' = "cancelled" /\ settled'[t] > 0
             /\ \A x \in Tasks : x # t => settled'[x] = settled[x]
    <2>1. [x \in Tasks |-> Outcome(x)]'
            = [[x \in Tasks |-> Outcome(x)] EXCEPT ![t] = "cancelled"]
      BY <1>5 DEF Kept
    <2>2. {x \in Tasks : settled'[x] > 0} = {x \in Tasks : settled[x] > 0} \cup {t}
      BY <1>5
    <2>3. Execution!Begin(t)
      BY <1>1, <1>2, <1>3, <2>1, <2>2 DEF Execution!Begin
    <2> QED BY <2>3 DEF Performed, Execution!PlanNext
  <1> QED BY <1>4, <1>5

LEMMA Turns ==
    ASSUME NEW t \in Tasks, t \in opened, ~(settled[t] > 0), run[t].phase = "preparing",
           run'[t].phase = "turn", \A x \in Tasks : x # t => Kept(x),
           \A u \in Tasks : run[u].phase = "turn" => WritePaths[t] \cap WritePaths[u] = {},
           UNCHANGED <<settled, opened, result, cleared>>
    PROVE  Performed
  <1>1. {x \in Tasks : run'[x].phase = "turn"} = {x \in Tasks : run[x].phase = "turn"} \cup {t}
    BY DEF Kept
  <1>2. [x \in Tasks |-> Outcome(x)]' = [x \in Tasks |-> Outcome(x)]
    BY DEF Kept, Outcome, Ended
  <1>3. \A u \in {x \in Tasks : run[x].phase = "turn"} : WritePaths[t] \cap WritePaths[u] = {}
    OBVIOUS
  <1>4. Execution!Turn(t)
    BY <1>1, <1>2, <1>3 DEF Execution!Turn
  <1> QED BY <1>4 DEF Performed, Execution!PlanNext

LEMMA Finishes ==
    ASSUME NEW t \in Tasks, NEW how \in Ended, t \in opened, ~(settled[t] > 0), settled'[t] > 0,
           how = "completed" => run[t].phase = "turn", run'[t].phase = how,
           \A x \in Tasks : x # t => Kept(x) /\ settled'[x] = settled[x],
           UNCHANGED <<opened, result, cleared>>
    PROVE  Performed
  <1>1. Outcome(t)' = how /\ how # "turn"
    BY DEF Outcome, Ended
  <1>2. {x \in Tasks : run'[x].phase = "turn"} = {x \in Tasks : run[x].phase = "turn"} \ {t}
    BY <1>1 DEF Kept
  <1>3. [x \in Tasks |-> Outcome(x)]' = [[x \in Tasks |-> Outcome(x)] EXCEPT ![t] = how]
    BY <1>1 DEF Kept
  <1>4. {x \in Tasks : settled'[x] > 0} = {x \in Tasks : settled[x] > 0} \cup {t}
    OBVIOUS
  <1>5. Execution!End(t)
    BY <1>2, <1>3, <1>4 DEF Execution!End, Execution!Endings, Ended
  <1> QED BY <1>5 DEF Performed, Execution!PlanNext

LEMMA Judged ==
    ASSUME NEW t \in Tasks, result \in [Tasks -> Results], run[t].phase \in Ended, result[t] = "none",
           result' = [result EXCEPT ![t] = run[t].phase] \/ result' = [result EXCEPT ![t] = "failed"],
           UNCHANGED <<run, settled, opened, cleared>>
    PROVE  Performed
  <1>1. Outcome(t) = run[t].phase /\ Outcome(t) # "none"
    BY DEF Outcome, Ended
  <1>2. [x \in Tasks |-> Outcome(x)]' = [x \in Tasks |-> Outcome(x)]
    BY DEF Outcome
  <1>3. Execution!Judge(t)
    BY <1>1, <1>2 DEF Execution!Judge
  <1> QED BY <1>3 DEF Performed, Execution!PlanNext

(***************************************************************************)
(* The scheduler and its workers.                                          *)
(***************************************************************************)
LEMMA TasksFinite == IsFiniteSet(Tasks)
  <1>1. PICK n \in Nat : DOMAIN Plan = 1..n
    BY WorkGraphAssumption
  <1>2. Plan \in Surjection(1..n, Tasks)
    BY <1>1, WorkGraphAssumption DEF Surjection, Tasks, ToSet
  <1>3. IsFiniteSet(1..n)
    BY FS_Interval
  <1> QED BY <1>2, <1>3, FS_Surjection

LEMMA SchedulePlan ==
    ASSUME PlanInv, Schedule
    PROVE  Begun' /\ Told' /\ Performed
  <1>1. /\ GraphTypeOK /\ Begun /\ Told
        /\ pool.phase = "loop" /\ UNCHANGED <<owner, result, controllerVars, turnVars>>
    BY DEF PlanInv, GraphInv, Schedule
  <1>2. /\ Begun' /\ Performed
    <2>1. \A t \in Tasks : Kept(t)
      BY <1>1 DEF Kept, Outcome, controllerVars
    <2>2. Performed
      BY <1>1, <2>1, Unseen DEF controllerVars, turnVars
    <2>3. Begun'
      BY <1>1 DEF Begun, Active, controllerVars
    <2> QED BY <2>2, <2>3
  <1>3. CASE pool' = [pool EXCEPT !.phase = "blocking", !.todo = Blocked]
    <2>1. PoolIs("blocking", pool.pending, pool.successful, pool.failed, pool.wave, Blocked)
      <3>1. Blocked \subseteq pool.pending
        BY DEF Blocked
      <3> QED BY <1>1, <1>3, <3>1 DEF PoolIs, GraphTypeOK, Pool
    <2>2. \A t \in Blocked : DependsOn[t] \cap pool.failed # {}
      BY DEF Blocked
    <2>3. Told'
      BY <1>1, <2>1, <2>2 DEF Told, Failed, PoolIs
    <2> QED BY <1>2, <2>3
  <1>4. CASE pool' = [pool EXCEPT !.phase = "returned"]
    <2>1. PoolIs("returned", pool.pending, pool.successful, pool.failed, pool.wave, pool.todo)
      BY <1>1, <1>4 DEF PoolIs, GraphTypeOK, Pool
    <2>2. Told'
      BY <1>1, <2>1 DEF Told, Failed, PoolIs
    <2> QED BY <1>2, <2>2
  <1>5. CASE /\ pool' = [pool EXCEPT !.phase = "wave", !.wave = Ready, !.todo = Ready,
                                     !.pending = @ \ Ready]
             /\ worker' = [w \in Workers |->
                             IF w <= Smaller(MaxWorkers, Cardinality(Ready))
                             THEN [phase |-> "taking", task |-> None] ELSE NoWorker]
    <2>1. PoolIs("wave", pool.pending \ Ready, pool.successful, pool.failed, Ready, Ready)
      <3>1. Ready \subseteq pool.pending
        BY DEF Ready
      <3> QED BY <1>1, <1>5, <3>1 DEF PoolIs, GraphTypeOK, Pool
    <2>2. ASSUME Ready # {} PROVE \E w \in Workers : ~AtRest(w)'
      <3>1. IsFiniteSet(Ready)
        <4>1. Ready \subseteq Tasks
          BY <1>1, PoolTypes DEF Ready
        <4> QED BY <4>1, TasksFinite, FS_Subset
      <3>2. Cardinality(Ready) \in Nat /\ Cardinality(Ready) # 0
        BY <2>2, <3>1, FS_CardinalityType, FS_EmptySet
      <3>3. 1 \in Workers /\ 1 <= Smaller(MaxWorkers, Cardinality(Ready))
        BY <3>2, WorkGraphAssumption DEF Workers, Smaller
      <3>4. worker'[1].phase = "taking"
        BY <1>5, <3>3
      <3> QED BY <3>3, <3>4 DEF AtRest
    <2>3. Told'
      BY <1>1, <2>1, <2>2 DEF Told, Failed, PoolIs
    <2> QED BY <1>2, <2>3
  <1> QED BY <1>3, <1>4, <1>5 DEF Schedule

LEMMA WaveDonePlan ==
    ASSUME PlanInv, WaveDone
    PROVE  Begun' /\ Told' /\ Performed
  <1> DEFINE done == {t \in pool.wave : result[t] = "completed"}
  <1>1. /\ GraphTypeOK /\ Begun /\ Told /\ pool.phase = "wave"
        /\ \A w \in Workers : AtRest(w)
        /\ UNCHANGED <<worker, owner, result, controllerVars, turnVars>>
    BY DEF PlanInv, GraphInv, WaveDone, AtRest
  <1>2. Begun' /\ Performed
    <2>1. \A t \in Tasks : Kept(t)
      BY <1>1 DEF Kept, Outcome, controllerVars
    <2>2. Performed
      BY <1>1, <2>1, Unseen DEF controllerVars, turnVars
    <2>3. Begun'
      BY <1>1 DEF Begun, Active, controllerVars
    <2> QED BY <2>2, <2>3
  <1>3. \A t \in pool.wave \ done : Failed(t)
    <2>1. pool.todo = {} /\ \A w \in Workers : ~AtTask(w)
      BY <1>1 DEF Told, AtRest, AtTask
    <2>2. \A t \in pool.wave : t \in Tasks /\ result[t] # "none"
      BY <1>1, <2>1 DEF Told, GraphTypeOK, Pool
    <2> QED BY <1>1, <2>2 DEF Failed, GraphTypeOK, Results
  <1>4. PoolIs("loop", pool.pending, pool.successful \cup done,
               pool.failed \cup (pool.wave \ done), pool.wave, pool.todo)
    <2>1. pool' = [pool EXCEPT !.phase = "loop", !.successful = @ \cup done,
                               !.failed = @ \cup (pool.wave \ done)]
      BY DEF WaveDone
    <2>2. done \subseteq pool.wave
      OBVIOUS
    <2> HIDE DEF done
    <2> QED BY <1>1, <2>1, <2>2 DEF PoolIs, GraphTypeOK, Pool
  <1> HIDE DEF done
  <1>5. Told'
    BY <1>1, <1>3, <1>4 DEF Told, Failed, PoolIs
  <1> QED BY <1>2, <1>5

LEMMA BlockPlan ==
    ASSUME PlanInv, NEW t \in Tasks, Block(t)
    PROVE  Begun' /\ Told' /\ Performed
  <1>1. /\ GraphTypeOK /\ Begun /\ Told /\ Scheduling /\ Records
        /\ pool.phase = "blocking" /\ t \in pool.todo /\ SettleQueued({t})
        /\ result' = [result EXCEPT ![t] = "blocked"]
        /\ UNCHANGED <<worker, opened, run, cleared>>
    BY Zenon DEF PlanInv, GraphInv, Control, Block, First, Unbothered
  <1>2. result \in [Tasks -> Results]
    BY <1>1 DEF GraphTypeOK
  <1>3. /\ run[t].phase = "none" /\ result[t] = "none" /\ t \notin opened
        /\ Outcome(t) = "none"
    BY <1>1 DEF Scheduling, Placed, Untouched, Begun, Active, Outcome, Ended
  <1>4. /\ job' = [x \in Tasks |-> IF x = t /\ job[x] = "queued" THEN "absent" ELSE job[x]]
        /\ settled' = [x \in Tasks |-> IF x = t /\ job[x] = "queued"
                                       THEN settled[x] + 1 ELSE settled[x]]
    BY <1>1 DEF SettleQueued
  <1>5. settled'[t] > 0 /\ \A x \in Tasks : x # t => settled'[x] = settled[x]
    BY <1>1, <1>3, <1>4 DEF Records, Active
  <1>6. Begun'
    BY <1>1, <1>4 DEF Begun, Active
  <1>7. Told'
    <2>1. PICK phase \in {"loop", "blocking", "threw"} :
              pool' = [pool EXCEPT !.phase = phase, !.todo = @ \ {t}, !.pending = @ \ {t},
                                   !.failed = @ \cup {t}]
      BY DEF Block
    <2>2. PoolIs(phase, pool.pending \ {t}, pool.successful, pool.failed \cup {t}, pool.wave,
                 pool.todo \ {t})
      BY <1>1, <2>1 DEF PoolIs, GraphTypeOK, Pool
    <2>3. \A x \in pool.failed \cup {t} : Failed(x)'
      <3>1. pool.failed \subseteq Tasks
        BY <1>1 DEF GraphTypeOK, Pool
      <3> QED BY <1>1, <1>2, <3>1 DEF Told, Failed
    <2> QED BY <1>1, <2>2, <2>3 DEF Told, PoolIs
  <1>8. Performed
    <2>1. \E d \in DependsOn[t] : result[d] \in {"failed", "cancelled", "blocked"}
      BY <1>1 DEF Told, Failed
    <2>2. {x \in Tasks : settled'[x] > 0} = {x \in Tasks : settled[x] > 0} \cup {t}
      BY <1>5
    <2>3. [x \in Tasks |-> Outcome(x)]' = [x \in Tasks |-> Outcome(x)]
      BY <1>1 DEF Outcome
    <2>4. Execution!Block(t)
      BY <1>1, <1>3, <2>1, <2>2, <2>3 DEF Execution!Block, Execution!Fresh
    <2> QED BY <2>4 DEF Performed, Execution!PlanNext
  <1> QED BY <1>6, <1>7, <1>8

\* A worker moves, the pool stays in its wave.
LEMMA ToldByWorker ==
    ASSUME GraphTypeOK, Told, NEW w \in Workers, OthersStay(w), worker'[w] \in Worker,
           ~AtRest(w)' \/ pool'.todo = {},
           pool'.phase = pool.phase, pool'.failed = pool.failed, pool'.wave = pool.wave,
           pool'.todo \subseteq pool.todo,
           AtTask(w) => \/ AtTask(w)' /\ worker'[w].task = worker[w].task
                        \/ result'[worker[w].task] # "none",
           \A t \in pool.todo \ pool'.todo : AtTask(w)' /\ worker'[w].task = t,
           \A t \in Tasks : result[t] # "none" => result'[t] = result[t]
    PROVE  Told'
  <1>1. \A t \in pool'.failed : Failed(t)'
    BY DEF Told, Failed, GraphTypeOK, Pool
  <1>2. pool'.phase = "blocking" => \A t \in pool'.todo : DependsOn[t] \cap pool'.failed # {}
    BY DEF Told
  <1>3. ASSUME pool'.phase = "wave", NEW t \in pool'.wave
        PROVE  \/ t \in pool'.todo \/ result'[t] # "none"
               \/ \E v \in Workers : AtTask(v)' /\ worker'[v].task = t
    <2>1. t \in Tasks
      BY <1>3 DEF GraphTypeOK, Pool
    <2>2. CASE t \in pool.todo
      BY <2>2
    <2>3. CASE result[t] # "none"
      BY <2>1, <2>3
    <2>4. CASE \E v \in Workers : AtTask(v) /\ worker[v].task = t
      <3>1. PICK v \in Workers : AtTask(v) /\ worker[v].task = t
        BY <2>4
      <3>2. CASE v = w
        BY <3>1, <3>2
      <3>3. CASE v # w
        BY <3>1, <3>3 DEF OthersStay, AtTask
      <3> QED BY <3>2, <3>3
    <2> QED BY <1>3, <2>2, <2>3, <2>4 DEF Told
  <1> QED BY <1>1, <1>2, <1>3 DEF Told

LEMMA ExecuteSeen ==
    ASSUME GraphTypeOK, Begun, NEW w \in Workers, NEW t \in Tasks, Untouched(t), Execute(w, t)
    PROVE  \A x \in Tasks : /\ Kept(x) /\ (Active(x)' <=> Active(x))
                            /\ run[x].phase \in Ended => run'[x].phase \in Ended
  <1>1. run' = [run EXCEPT ![t].phase = "offered"] /\ t \in Runs /\ run[t].phase = "none"
    BY GraphTypes DEF Execute, Untouched
  <1>2. run'[t].phase = "offered" /\ \A x \in Tasks : x # t => run'[x].phase = run[x].phase
    BY <1>1, GraphTypes DEF GraphTypeOK, Run
  <1> QED BY <1>1, <1>2, SamePhase, EarlyPhase

LEMMA TakePlan ==
    ASSUME PlanInv, NEW w \in Workers, Take(w)
    PROVE  Begun' /\ Told' /\ Performed
  <1>1. /\ GraphTypeOK /\ Begun /\ Told /\ Scheduling /\ worker[w].phase = "taking"
        /\ ~AtTask(w) /\ UNCHANGED <<result, job, settled, opened, cleared>>
    BY DEF PlanInv, GraphInv, Take, AtTask, turnVars
  <1>2. CASE /\ pool.todo = {}
             /\ worker' = [worker EXCEPT ![w] = [phase |-> "done", task |-> None]]
             /\ UNCHANGED <<pool, run>>
    <2>1. [phase |-> "done", task |-> None] \in Worker
      BY DEF Worker
    <2>2. OthersStay(w) /\ worker'[w] \in Worker
      BY <1>1, <1>2, <2>1 DEF OthersStay, GraphTypeOK
    <2>3. Told'
      BY <1>1, <1>2, <2>2, ToldByWorker
    <2>4. Performed
      BY <1>1, <1>2, Unseen DEF Kept, Outcome
    <2>5. Begun'
      BY <1>1, <1>2 DEF Begun, Active
    <2> QED BY <2>3, <2>4, <2>5
  <1>3. ASSUME NEW t \in pool.todo, pool' = [pool EXCEPT !.todo = @ \ {t}],
               IF Claimable(w, t) THEN Execute(w, t)
               ELSE /\ worker' = [worker EXCEPT ![w] = [phase |-> "claiming", task |-> t]]
                    /\ UNCHANGED <<owner, run>>
        PROVE  Begun' /\ Told' /\ Performed
    <2>1. t \in Tasks /\ Untouched(t)
      BY <1>1, <1>3, PoolTypes DEF Scheduling, Placed
    <2>2. PICK phase \in {"claiming", "executing"} :
              worker' = [worker EXCEPT ![w] = [phase |-> phase, task |-> t]]
      BY <1>3 DEF Execute
    <2>3. [phase |-> phase, task |-> t] \in Worker
      BY <2>1 DEF Worker
    <2>4. OthersStay(w) /\ worker'[w] = [phase |-> phase, task |-> t]
      BY <1>1, <2>2 DEF OthersStay, GraphTypeOK
    <2>5. AtTask(w)' /\ ~AtRest(w)' /\ worker'[w].task = t
      BY <2>4 DEF AtTask, AtRest
    <2>6. Told'
      <3>1. /\ pool'.phase = pool.phase /\ pool'.failed = pool.failed
            /\ pool'.wave = pool.wave /\ pool'.todo = pool.todo \ {t}
        BY <1>1, <1>3 DEF GraphTypeOK, Pool
      <3> QED BY <1>1, <2>3, <2>4, <2>5, <3>1, ToldByWorker
    <2>7. \A x \in Tasks : /\ Kept(x) /\ (Active(x)' <=> Active(x))
                           /\ run[x].phase \in Ended => run'[x].phase \in Ended
      <3>1. CASE Execute(w, t)
        BY <1>1, <2>1, <3>1, ExecuteSeen
      <3>2. CASE UNCHANGED run
        BY <3>2, SamePhase
      <3> QED BY <1>3, <3>1, <3>2
    <2>8. Performed
      BY <1>1, <2>7, Unseen
    <2>9. Begun'
      BY <1>1, <2>7 DEF Begun
    <2> QED BY <2>6, <2>8, <2>9
  <1> QED BY <1>2, <1>3 DEF Take

LEMMA ClaimPlan ==
    ASSUME PlanInv, NEW w \in Workers, Claim(w)
    PROVE  Begun' /\ Told' /\ Performed
  <1> DEFINE t == worker[w].task
  <1>1. /\ GraphTypeOK /\ Begun /\ Told /\ Scheduling /\ worker[w].phase = "claiming"
        /\ AtTask(w) /\ Execute(w, t)
        /\ UNCHANGED <<pool, result, job, settled, opened, cleared>>
    BY DEF PlanInv, GraphInv, Claim, AtTask, turnVars
  <1>2. t \in Tasks /\ Untouched(t)
    BY <1>1 DEF Scheduling, Placed
  <1> HIDE DEF t
  <1>3. [phase |-> "executing", task |-> t] \in Worker
    BY <1>2 DEF Worker
  <1>4. OthersStay(w) /\ worker'[w] = [phase |-> "executing", task |-> t]
    BY <1>1 DEF Execute, OthersStay, GraphTypeOK
  <1>5. AtTask(w)' /\ ~AtRest(w)' /\ worker'[w].task = worker[w].task
    BY <1>4 DEF AtTask, AtRest, t
  <1>6. Told'
    BY <1>1, <1>3, <1>4, <1>5, ToldByWorker
  <1>7. \A x \in Tasks : /\ Kept(x) /\ (Active(x)' <=> Active(x))
                         /\ run[x].phase \in Ended => run'[x].phase \in Ended
    BY <1>1, <1>2, ExecuteSeen
  <1>8. Performed
    BY <1>1, <1>7, Unseen
  <1>9. Begun'
    BY <1>1, <1>7 DEF Begun
  <1> QED BY <1>6, <1>8, <1>9

LEMMA ReportPlan ==
    ASSUME PlanInv, NEW w \in Workers, Report(w)
    PROVE  Begun' /\ Told' /\ Performed
  <1> DEFINE t == worker[w].task
  <1>1. /\ GraphTypeOK /\ Begun /\ Told /\ Scheduling /\ worker[w].phase = "executing"
        /\ AtTask(w) /\ run[t].phase \in Ended
        /\ worker' = [worker EXCEPT ![w].phase = "settling"]
        /\ \/ result' = [result EXCEPT ![t] = run[t].phase]
           \/ result' = [result EXCEPT ![t] = "failed"]
        /\ UNCHANGED <<pool, run, job, settled, opened, cleared>>
    BY DEF PlanInv, GraphInv, Report, AtTask, Unbothered, controllerVars
  <1>2. t \in Tasks /\ result[t] = "none" /\ result \in [Tasks -> Results]
    BY <1>1 DEF Scheduling, Placed, GraphTypeOK
  <1> HIDE DEF t
  <1>3. result'[t] # "none" /\ \A x \in Tasks : x # t => result'[x] = result[x]
    BY <1>1, <1>2 DEF Ended
  <1>4. Told'
    <2>1. worker[w] \in Worker
      BY <1>1, GraphTypes
    <2>2. worker'[w] \in Worker /\ OthersStay(w) /\ worker'[w].phase = "settling"
      BY <1>1, <2>1 DEF OthersStay, GraphTypeOK, Worker
    <2>3. ~AtRest(w)' /\ result'[worker[w].task] # "none"
      BY <1>3, <2>2 DEF AtRest, t
    <2> QED BY <1>1, <1>2, <1>3, <2>2, <2>3, ToldByWorker
  <1>5. Performed
    BY <1>1, <1>2, Judged
  <1>6. Begun'
    BY <1>1 DEF Begun, Active
  <1> QED BY <1>4, <1>5, <1>6

LEMMA SettlePlan ==
    ASSUME PlanInv, NEW w \in Workers, Settle(w)
    PROVE  Begun' /\ Told' /\ Performed
  <1>1. /\ GraphTypeOK /\ Begun /\ Told /\ worker[w].phase = "settling" /\ ~AtTask(w)
        /\ UNCHANGED <<result, run, job, settled, opened, cleared>>
        /\ \/ /\ worker' = [worker EXCEPT ![w] = [phase |-> "taking", task |-> None]]
              /\ UNCHANGED pool
           \/ pool' = [pool EXCEPT !.phase = "threw"]
    BY DEF PlanInv, GraphInv, Settle, AtTask, Unbothered, controllerVars
  <1>2. Performed
    BY <1>1, Unseen DEF Kept, Outcome
  <1>3. Begun'
    BY <1>1 DEF Begun, Active
  <1>4. CASE /\ worker' = [worker EXCEPT ![w] = [phase |-> "taking", task |-> None]]
             /\ UNCHANGED pool
    <2>1. [phase |-> "taking", task |-> None] \in Worker
      BY DEF Worker
    <2>2. /\ OthersStay(w) /\ worker'[w] \in Worker /\ ~AtRest(w)'
      BY <1>1, <1>4, <2>1 DEF OthersStay, AtRest, GraphTypeOK
    <2>3. Told'
      BY <1>1, <1>4, <2>2, ToldByWorker
    <2> QED BY <1>2, <1>3, <2>3
  <1>5. CASE pool' = [pool EXCEPT !.phase = "threw"]
    <2>1. pool'.phase = "threw" /\ pool'.failed = pool.failed
      BY <1>1, <1>5 DEF GraphTypeOK, Pool
    <2>2. Told'
      BY <1>1, <2>1 DEF Told, Failed
    <2> QED BY <1>2, <1>3, <2>2
  <1> QED BY <1>1, <1>4, <1>5

(***************************************************************************)
(* The run controller.                                                     *)
(***************************************************************************)
\* A task whose run has not been opened, and what its record says.
LEMMA NotBegun ==
    ASSUME GraphInv, Begun, NEW t \in Tasks,
           run[t].phase \in {"offered", "parked", "woken", "granted"}
    PROVE  /\ t \notin opened /\ Outcome(t) = "none" /\ ~Active(t) /\ run[t].phase # "turn"
           /\ \/ job[t] = "queued" /\ settled[t] = 0 /\ ~cleared
              \/ job[t] = "absent" /\ settled[t] = 1
  BY DEF GraphInv, Control, Records, Begun, Active, Outcome, Ended

\* What happens to one task is no matter for the others.
LEMMA BegunByOne ==
    ASSUME Begun, NEW r,
           \A x \in Tasks : x # r =>
              /\ Active(x)' <=> Active(x)
              /\ run[x].phase \in Ended => run'[x].phase \in Ended
              /\ job'[x] = job[x] /\ (x \in opened' <=> x \in opened),
           r \in Tasks => \/ r \notin opened' /\ ~Active(r)'
                          \/ r \in opened' /\ Active(r)'
                          \/ ~Active(r)' /\ run'[r].phase \in Ended /\ job'[r] = "absent"
    PROVE  Begun'
  BY DEF Begun

LEMMA NotOfferedPlan ==
    ASSUME PlanInv, NEW t \in Tasks, NotOffered(t)
    PROVE  Begun' /\ Told' /\ Performed
  <1>1. /\ GraphInv /\ GraphTypeOK /\ Begun /\ Told /\ run[t].phase = "offered" /\ t \in Runs
        /\ run' = [run EXCEPT ![t].phase = "failed"]
        /\ UNCHANGED <<schedulerVars, job, settled, opened, cleared>>
    BY GraphTypes DEF PlanInv, GraphInv, NotOffered, Unbothered
  <1>2. run'[t].phase = "failed" /\ \A x \in Runs : x # t => run'[x] = run[x]
    BY <1>1, PhaseChanged
  <1>3. \A x \in Tasks : x # t => run'[x].phase = run[x].phase
    BY <1>1, <1>2, GraphTypes
  <1>4. t \notin opened /\ Outcome(t) = "none" /\ run[t].phase # "turn"
    BY <1>1, NotBegun
  <1>5. Begun'
    <2>1. ~Active(t)'
      BY <1>2 DEF Active
    <2> QED BY <1>1, <1>3, <1>4, <2>1, SamePhase, BegunByOne
  <1>6. Told' /\ UNCHANGED result
    BY <1>1, ToldFrame
  <1>7. Performed
    BY <1>1, <1>2, <1>3, <1>4, <1>6, SamePhase, Lost
  <1> QED BY <1>5, <1>6, <1>7

\* A task is refused while its job is queued, which is settled, or was settled before.
LEMMA RefusedPlan ==
    ASSUME PlanInv, NEW t \in Tasks, run[t].phase \in {"offered", "woken"},
           NEW phase \in {"failed", "cancelled"}, run' = [run EXCEPT ![t].phase = phase],
           SettleQueued({t}) \/ (job[t] # "queued" /\ UNCHANGED <<job, settled>>),
           UNCHANGED <<schedulerVars, opened, cleared>>
    PROVE  Begun' /\ Told' /\ Performed
  <1>1. GraphInv /\ GraphTypeOK /\ Begun /\ Told /\ t \in Runs
    BY GraphTypes DEF PlanInv, GraphInv
  <1>2. run'[t].phase = phase /\ \A x \in Runs : x # t => run'[x] = run[x]
    BY <1>1, PhaseChanged
  <1>3. \A x \in Tasks : x # t => run'[x].phase = run[x].phase
    BY <1>1, <1>2, GraphTypes
  <1>4. /\ t \notin opened /\ Outcome(t) = "none" /\ run[t].phase # "turn"
        /\ \/ job[t] = "queued" /\ settled[t] = 0
           \/ job[t] = "absent" /\ settled[t] = 1
    BY <1>1, NotBegun
  <1>5. /\ settled'[t] > 0 /\ job'[t] = "absent"
        /\ \A x \in Tasks : x # t => settled'[x] = settled[x] /\ job'[x] = job[x]
    <2>1. CASE SettleQueued({t})
      BY <1>4, <2>1 DEF SettleQueued
    <2>2. CASE job[t] # "queued" /\ UNCHANGED <<job, settled>>
      BY <1>4, <2>2
    <2> QED BY <2>1, <2>2
  <1>6. Begun'
    <2>1. ~Active(t)'
      BY <1>2 DEF Active
    <2> QED BY <1>1, <1>3, <1>4, <1>5, <2>1, SamePhase, BegunByOne
  <1>7. Told' /\ UNCHANGED result
    BY <1>1, ToldFrame
  <1>8. Performed
    BY <1>2, <1>3, <1>4, <1>5, <1>7, SamePhase, Refused
  <1> QED BY <1>6, <1>7, <1>8

LEMMA WokenPlan ==
    ASSUME PlanInv, NEW t \in Tasks, Woken(t)
    PROVE  Begun' /\ Told' /\ Performed
  BY RefusedPlan DEF Woken, turnVars

LEMMA RunTaskPlan ==
    ASSUME PlanInv, NEW t \in Tasks, RunTask(t)
    PROVE  Begun' /\ Told' /\ Performed
  <1>1. /\ GraphInv /\ GraphTypeOK /\ Begun /\ Told /\ run[t].phase = "offered" /\ t \in Runs
        /\ UNCHANGED <<schedulerVars, opened, cleared>>
    BY GraphTypes DEF PlanInv, GraphInv, RunTask, turnVars
  <1>2. CASE SettleQueued({t}) /\ run' = [run EXCEPT ![t].phase = "cancelled"]
    BY <1>1, <1>2, RefusedPlan
  <1>3. CASE /\ job[t] # "queued" /\ run' = [run EXCEPT ![t].phase = "failed"]
             /\ UNCHANGED <<job, settled>>
    BY <1>1, <1>3, RefusedPlan
  <1>4. ASSUME NEW phase \in {"granted", "parked"}, run' = [run EXCEPT ![t].phase = phase],
               UNCHANGED <<job, settled>>
        PROVE  Begun' /\ Told' /\ Performed
    <2>1. run'[t].phase = phase /\ \A x \in Runs : x # t => run'[x] = run[x]
      BY <1>1, <1>4, PhaseChanged
    <2>2. \A x \in Tasks : /\ Kept(x) /\ (Active(x)' <=> Active(x))
                           /\ run[x].phase \in Ended => run'[x].phase \in Ended
      BY <1>1, <2>1, GraphTypes, SamePhase, EarlyPhase
    <2> QED BY <1>1, <1>4, <2>2, Quiet DEF schedulerVars
  <1> QED BY <1>2, <1>3, <1>4 DEF RunTask

\* What the end of run r that releases its permit does to the other tasks.
LEMMA FreePlan ==
    ASSUME PlanInv, NEW r \in Runs, NEW phase \in Ended, r \in Holders, Free(r, phase),
           UNCHANGED budget
    PROVE  /\ run'[r].phase = phase /\ ~Active(r)'
           /\ \A x \in Tasks : x # r =>
                 /\ Kept(x) /\ (Active(x)' <=> Active(x))
                 /\ run[x].phase \in Ended => run'[x].phase \in Ended
  <1>1. GraphTypeOK /\ Parking /\ Permits
    BY DEF PlanInv, GraphInv, Control
  <1>2. /\ run'[r] = [run[r] EXCEPT !.phase = phase]
        /\ \A x \in Runs : x # r => run'[x] = run[x] \/ Promoted(x)
    BY <1>1, FreeEffect
  <1>3. run'[r].phase = phase /\ ~Active(r)'
    <2>1. run[r] \in Run
      BY <1>1, GraphTypes
    <2>2. run'[r].phase = phase
      BY <1>2, <2>1 DEF Run
    <2> QED BY <2>2 DEF Active, Ended
  <1>4. ASSUME NEW x \in Tasks, x # r
        PROVE  /\ Kept(x) /\ (Active(x)' <=> Active(x))
               /\ run[x].phase \in Ended => run'[x].phase \in Ended
    <2>1. x \in Runs /\ run[x] \in Run
      BY <1>1, GraphTypes
    <2>2. CASE run'[x] = run[x]
      BY <2>2, SamePhase
    <2>3. CASE Promoted(x)
      <3>1. run[x].phase = "parked" /\ run'[x].phase = "granted"
        BY <2>1, <2>3 DEF Promoted, Run
      <3> QED BY <3>1, EarlyPhase
    <2> QED BY <1>2, <1>4, <2>1, <2>2, <2>3
  <1> QED BY <1>3, <1>4

LEMMA DispatchPlan ==
    ASSUME PlanInv, NEW t \in Tasks, Dispatch(t)
    PROVE  Begun' /\ Told' /\ Performed
  <1>1. /\ GraphInv /\ GraphTypeOK /\ Begun /\ Told /\ Scheduling
        /\ run[t].phase = "granted" /\ t \in Runs /\ t \in Holders
        /\ UNCHANGED <<schedulerVars, budget, cleared>>
    BY GraphTypes DEF PlanInv, GraphInv, Dispatch, turnVars, Holders
  <1>2. /\ t \notin opened /\ Outcome(t) = "none" /\ ~Active(t) /\ run[t].phase # "turn"
        /\ \/ job[t] = "queued" /\ settled[t] = 0 /\ ~cleared
           \/ job[t] = "absent" /\ settled[t] = 1
    BY <1>1, NotBegun
  <1>3. Met(t)
    <2>1. PICK w \in Workers : worker[w].phase = "executing" /\ worker[w].task = t
      BY <1>1 DEF Scheduling, Holding, UnderWay, Ended
    <2> QED BY <1>1, <2>1 DEF Scheduling, Due, AtTask
  <1>4. Told' /\ UNCHANGED result
    BY <1>1, ToldFrame
  <1>5. ASSUME Free(t, "cancelled")
        PROVE  /\ run'[t].phase = "cancelled" /\ ~Active(t)' /\ Outcome(t)' = "cancelled"
               /\ \A x \in Tasks : x # t =>
                     /\ Kept(x) /\ (Active(x)' <=> Active(x))
                     /\ run[x].phase \in Ended => run'[x].phase \in Ended
    <2>1. /\ run'[t].phase = "cancelled" /\ ~Active(t)'
          /\ \A x \in Tasks : x # t =>
                /\ Kept(x) /\ (Active(x)' <=> Active(x))
                /\ run[x].phase \in Ended => run'[x].phase \in Ended
      BY <1>1, <1>5, FreePlan DEF Ended
    <2>2. Outcome(t)' = "cancelled"
      BY <2>1 DEF Outcome, Ended
    <2> QED BY <2>1, <2>2
  <1>6. CASE job[t] # "queued" /\ Free(t, "cancelled") /\ UNCHANGED <<job, settled, opened>>
    <2>1. Begun'
      BY <1>1, <1>2, <1>5, <1>6, BegunByOne
    <2>2. Performed
      BY <1>1, <1>2, <1>4, <1>5, <1>6, Refused
    <2> QED BY <1>4, <2>1, <2>2
  <1>7. CASE job[t] = "queued" /\ Free(t, "cancelled") /\ SettleQueued({t}) /\ Started(t)
    <2>1. /\ settled'[t] > 0 /\ job'[t] = "absent"
          /\ \A x \in Tasks : x # t => settled'[x] = settled[x] /\ job'[x] = job[x]
      BY <1>2, <1>7 DEF SettleQueued
    <2>2. opened' = opened \cup {t}
      BY <1>7 DEF Started
    <2>3. Begun'
      <3>1. run'[t].phase \in Ended
        BY <1>5, <1>7 DEF Ended
      <3> QED BY <1>1, <1>5, <1>7, <2>1, <2>2, <3>1, BegunByOne
    <2>4. Performed
      BY <1>1, <1>2, <1>3, <1>4, <1>5, <1>7, <2>1, <2>2, Begins
    <2> QED BY <1>4, <2>3, <2>4
  <1>8. CASE /\ job[t] = "queued" /\ job' = [job EXCEPT ![t] = "dispatched"]
             /\ run' = [run EXCEPT ![t].phase = "preparing"] /\ Started(t) /\ UNCHANGED settled
    <2>1. run'[t].phase = "preparing" /\ \A x \in Runs : x # t => run'[x] = run[x]
      BY <1>1, <1>8, PhaseChanged
    <2>2. /\ Active(t)' /\ Outcome(t)' = "none" /\ run'[t].phase # "turn"
      BY <2>1 DEF Active, Outcome, Ended
    <2>3. \A x \in Tasks : x # t => /\ Kept(x) /\ (Active(x)' <=> Active(x))
                                    /\ run[x].phase \in Ended => run'[x].phase \in Ended
      BY <1>1, <2>1, GraphTypes, SamePhase
    <2>4. opened' = opened \cup {t} /\ \A x \in Tasks : x # t => job'[x] = job[x]
      BY <1>1, <1>8 DEF Started, GraphTypeOK
    <2>5. Begun'
      BY <1>1, <2>2, <2>3, <2>4, BegunByOne
    <2>6. Performed
      BY <1>1, <1>2, <1>3, <1>4, <1>8, <2>2, <2>3, <2>4, Begins
    <2> QED BY <1>4, <2>5, <2>6
  <1>9. \/ job[t] # "queued" /\ Free(t, "cancelled") /\ UNCHANGED <<job, settled, opened>>
        \/ job[t] = "queued" /\ Free(t, "cancelled") /\ SettleQueued({t}) /\ Started(t)
        \/ /\ job[t] = "queued" /\ job' = [job EXCEPT ![t] = "dispatched"]
           /\ run' = [run EXCEPT ![t].phase = "preparing"] /\ Started(t) /\ UNCHANGED settled
    BY Zenon DEF Dispatch, Open
  <1> QED BY <1>6, <1>7, <1>8, <1>9

\* A run that was opened ends.
LEMMA EndRunPlan ==
    ASSUME PlanInv, NEW r \in Runs, NEW status \in Ended, Active(r), EndRun(r, status),
           status = "completed" => run[r].phase = "turn"
    PROVE  Begun' /\ Told' /\ Performed
  <1>1. /\ GraphTypeOK /\ Begun /\ Told /\ Records /\ r \in Holders /\ Free(r, status)
        /\ job' = [t \in Tasks |-> IF t = r THEN "absent" ELSE job[t]]
        /\ settled' = [t \in Tasks |-> IF t = r THEN settled[t] + 1 ELSE settled[t]]
        /\ UNCHANGED <<schedulerVars, opened, budget, cleared>>
    BY DEF PlanInv, GraphInv, Control, EndRun, turnVars, Active, Holders
  <1>2. /\ run'[r].phase = status /\ ~Active(r)'
        /\ \A x \in Tasks : x # r =>
              /\ Kept(x) /\ (Active(x)' <=> Active(x))
              /\ run[x].phase \in Ended => run'[x].phase \in Ended
    BY <1>1, FreePlan
  <1>3. Told' /\ UNCHANGED result
    BY <1>1, ToldFrame
  <1>4. Begun'
    BY <1>1, <1>2, BegunByOne
  <1>5. CASE r \in Tasks
    <2>1. r \in opened /\ settled[r] = 0
      BY <1>1, <1>5 DEF Begun, Records
    <2>2. /\ settled'[r] > 0 /\ ~(settled[r] > 0)
          /\ \A x \in Tasks : x # r => settled'[x] = settled[x]
      BY <1>1, <1>5, <2>1
    <2>3. Performed
      BY <1>1, <1>2, <1>3, <1>5, <2>1, <2>2, Finishes
    <2> QED BY <1>3, <1>4, <2>3
  <1>6. CASE r \notin Tasks
    <2>1. settled' = settled
      BY <1>1, <1>6 DEF GraphTypeOK
    <2>2. Performed
      BY <1>1, <1>2, <1>3, <1>6, <2>1, Unseen
    <2> QED BY <1>3, <1>4, <2>2
  <1> QED BY <1>5, <1>6

\* A run goes on in its phase: guidance, cancels and deliveries.
LEMMA SamePhasesPlan ==
    ASSUME PlanInv, \A x \in Runs : run'[x].phase = run[x].phase,
           opened' \cap Tasks = opened \cap Tasks,
           UNCHANGED <<schedulerVars, job, settled, cleared>>
    PROVE  Begun' /\ Told' /\ Performed
  <1>1. GraphTypeOK /\ Begun /\ Told
    BY DEF PlanInv, GraphInv
  <1>2. \A x \in Tasks : /\ Kept(x) /\ (Active(x)' <=> Active(x))
                         /\ run[x].phase \in Ended => run'[x].phase \in Ended
    BY <1>1, GraphTypes, SamePhase
  <1> QED BY <1>1, <1>2, Quiet DEF schedulerVars

LEMMA PreparePlan ==
    ASSUME PlanInv, NEW r \in Runs, Prepare(r)
    PROVE  Begun' /\ Told' /\ Performed
  <1>1. /\ GraphTypeOK /\ Begun /\ Told /\ Records /\ run[r].phase = "preparing" /\ Active(r)
    BY DEF PlanInv, GraphInv, Control, Prepare, Active
  <1>2. CASE EndRun(r, "cancelled")
    BY <1>1, <1>2, EndRunPlan DEF Ended
  <1>3. CASE /\ run' = [run EXCEPT ![r].phase = "turn"]
             /\ UNCHANGED <<schedulerVars, job, settled, opened, cleared>>
    <2>1. run'[r].phase = "turn" /\ \A x \in Runs : x # r => run'[x] = run[x]
      BY <1>1, <1>3, PhaseChanged
    <2>2. Active(r)' /\ \A x \in Tasks : x # r =>
              /\ Kept(x) /\ (Active(x)' <=> Active(x))
              /\ run[x].phase \in Ended => run'[x].phase \in Ended
      <3>1. \A x \in Tasks : x # r => run'[x].phase = run[x].phase
        BY <1>1, <2>1, GraphTypes
      <3> QED BY <2>1, <3>1, SamePhase DEF Active
    <2>3. Told' /\ UNCHANGED result
      BY <1>1, <1>3, ToldFrame
    <2>4. Begun'
      BY <1>1, <1>3, <2>2, BegunByOne DEF Begun
    <2>5. CASE r \in Tasks
      <3>1. r \in opened /\ ~(settled[r] > 0)
        BY <1>1, <2>5 DEF Begun, Records
      <3>2. \A u \in Tasks : run[u].phase = "turn" => WritePaths[r] \cap WritePaths[u] = {}
        BY <1>1, <2>5, FilesApart DEF PlanInv, UnderWay, Ended
      <3> QED BY <1>1, <1>3, <2>1, <2>2, <2>3, <2>4, <2>5, <3>1, <3>2, Turns
    <2>6. CASE r \notin Tasks
      <3>1. \A x \in Tasks : Kept(x)
        BY <2>2, <2>6
      <3> QED BY <1>3, <2>3, <2>4, <3>1, Unseen
    <2> QED BY <2>5, <2>6
  <1>4. \/ EndRun(r, "cancelled")
        \/ /\ run' = [run EXCEPT ![r].phase = "turn"]
           /\ UNCHANGED <<schedulerVars, job, settled, opened, cleared>>
    BY DEF Prepare, turnVars
  <1> QED BY <1>2, <1>3, <1>4

LEMMA ThrowPlan ==
    ASSUME PlanInv, NEW r \in Runs, Throw(r)
    PROVE  Begun' /\ Told' /\ Performed
  <1>1. PICK status \in {"failed", "cancelled"} : EndRun(r, status)
    BY DEF Throw
  <1>2. Active(r)
    BY DEF Throw, Active
  <1> QED BY <1>1, <1>2, EndRunPlan DEF Ended

LEMMA TurnReturnsPlan ==
    ASSUME PlanInv, NEW r \in Runs, TurnReturns(r)
    PROVE  Begun' /\ Told' /\ Performed
  <1>1. GraphTypeOK /\ run[r].phase = "turn" /\ Active(r) /\ run[r] \in Run
    BY GraphTypes DEF PlanInv, GraphInv, TurnReturns, Active
  <1>2. CASE EndRun(r, IF run[r].aborted THEN "cancelled" ELSE "completed")
    BY <1>1, <1>2, EndRunPlan DEF Ended
  <1>3. CASE /\ run' = [run EXCEPT ![r].mail = @ - 1, ![r].owed = @ - 1]
             /\ UNCHANGED <<schedulerVars, job, settled, opened, cleared>>
    <2>1. \A x \in Runs : run'[x].phase = run[x].phase
      BY <1>1, <1>3, GraphTypes DEF GraphTypeOK, Run
    <2> QED BY <1>3, <2>1, SamePhasesPlan
  <1> QED BY <1>2, <1>3 DEF TurnReturns, turnVars

(***************************************************************************)
(* The operator, and every step.                                           *)
(***************************************************************************)
LEMMA OperatorPlan ==
    ASSUME PlanInv, NEW r \in Runs, Steer(r) \/ Cancel(r)
    PROVE  Begun' /\ Told' /\ Performed
  <1>1. GraphTypeOK /\ \A x \in Runs : run[x] \in Run
    BY GraphTypes DEF PlanInv, GraphInv
  <1>2. /\ \/ run' = [run EXCEPT ![r].mail = @ + 1, ![r].owed = @ + 1]
           \/ run' = [run EXCEPT ![r].aborted = TRUE, ![r].mail = 0]
        /\ UNCHANGED <<schedulerVars, job, settled, opened, cleared>>
    BY DEF Steer, Cancel
  <1>3. \A x \in Runs : run'[x].phase = run[x].phase
    <2>1. CASE run' = [run EXCEPT ![r].mail = @ + 1, ![r].owed = @ + 1]
      BY <1>1, <2>1 DEF GraphTypeOK, Run
    <2>2. CASE run' = [run EXCEPT ![r].aborted = TRUE, ![r].mail = 0]
      BY <1>1, <2>2 DEF GraphTypeOK, Run
    <2> QED BY <1>2, <2>1, <2>2
  <1> QED BY <1>2, <1>3, SamePhasesPlan

LEMMA ContinuePlan ==
    ASSUME PlanInv, NEW c \in Continuations, Continue(c)
    PROVE  Begun' /\ Told' /\ Performed
  <1>1. GraphTypeOK /\ Begun /\ Told /\ c \notin Tasks /\ c \in Runs
    BY WorkGraphAssumption DEF PlanInv, GraphInv, Runs
  <1>2. /\ run' = [run EXCEPT ![c].phase = "preparing"] /\ opened' = opened \cup {c}
        /\ UNCHANGED <<schedulerVars, job, settled, cleared>>
    BY DEF Continue, Open, Started
  <1>3. \A x \in Tasks : run'[x] = run[x]
    BY <1>1, <1>2, GraphTypes, PhaseChanged
  <1>4. \A x \in Tasks : /\ Kept(x) /\ (Active(x)' <=> Active(x))
                         /\ run[x].phase \in Ended => run'[x].phase \in Ended
    BY <1>3, SamePhase
  <1>5. opened' \cap Tasks = opened \cap Tasks
    BY <1>1, <1>2
  <1> QED BY <1>1, <1>2, <1>4, <1>5, Quiet DEF schedulerVars

\* Runs are aborted and waiters leave the queue for permits.
LEMMA AbortRunsSeen ==
    ASSUME GraphTypeOK, NEW S, NEW mailKept, AbortRuns(S, mailKept)
    PROVE  \A x \in Tasks : /\ Kept(x) /\ (Active(x)' <=> Active(x))
                            /\ run[x].phase \in Ended => run'[x].phase \in Ended
  <1> SUFFICES ASSUME NEW x \in Tasks
               PROVE  /\ Kept(x) /\ (Active(x)' <=> Active(x))
                      /\ run[x].phase \in Ended => run'[x].phase \in Ended
    OBVIOUS
  <1>1. x \in Runs /\ run[x] \in Run
    BY GraphTypes
  <1>2. run'[x] = IF run[x].phase = "parked" THEN [run[x] EXCEPT !.phase = "woken"]
                  ELSE IF x \in S /\ Active(x) THEN AbortedRun(x, mailKept)
                  ELSE run[x]
    BY <1>1 DEF AbortRuns
  <1>3. CASE run[x].phase = "parked"
    <2>1. run'[x].phase = "woken"
      BY <1>1, <1>2, <1>3 DEF Run
    <2> QED BY <1>3, <2>1, EarlyPhase
  <1>4. CASE run[x].phase # "parked"
    <2>1. run'[x].phase = run[x].phase
      BY <1>1, <1>2, <1>4 DEF Run, AbortedRun
    <2> QED BY <2>1, SamePhase
  <1> QED BY <1>3, <1>4

LEMMA InterruptPlan ==
    ASSUME PlanInv, Interrupt
    PROVE  Begun' /\ Told' /\ Performed
  <1>1. /\ GraphTypeOK /\ Begun /\ Told /\ AbortRuns(Tasks, TRUE)
        /\ UNCHANGED <<schedulerVars, job, settled, opened, cleared>>
    BY DEF PlanInv, GraphInv, Interrupt
  <1> QED BY <1>1, AbortRunsSeen, Quiet DEF schedulerVars

LEMMA ClearPlan ==
    ASSUME PlanInv, Clear
    PROVE  Begun' /\ Told' /\ Performed
  <1>1. /\ GraphTypeOK /\ Begun /\ Told /\ Records /\ AbortRuns(Runs, FALSE)
        /\ SettleQueued(Tasks) /\ ~cleared /\ cleared' = TRUE /\ UNCHANGED <<schedulerVars, opened>>
    BY DEF PlanInv, GraphInv, Control, Clear
  <1>2. \A x \in Tasks : /\ Kept(x) /\ (Active(x)' <=> Active(x))
                         /\ run[x].phase \in Ended => run'[x].phase \in Ended
    BY <1>1, AbortRunsSeen
  <1>3. /\ job' = [t \in Tasks |-> IF job[t] = "queued" THEN "absent" ELSE job[t]]
        /\ settled' = [t \in Tasks |-> IF job[t] = "queued" THEN settled[t] + 1 ELSE settled[t]]
    BY <1>1 DEF SettleQueued
  <1>4. Told' /\ UNCHANGED result
    BY <1>1, ToldFrame
  <1>5. Begun'
    BY <1>1, <1>2, <1>3 DEF Begun
  <1>6. \A t \in Tasks : settled'[t] > 0 <=> settled[t] > 0 \/ t \notin opened
    BY <1>1, <1>3 DEF Records, Begun
  <1>7. Performed
    <2>1. {t \in Tasks : settled'[t] > 0}
            = {t \in Tasks : settled[t] > 0} \cup (Tasks \ (opened \cap Tasks))
      BY <1>6
    <2>2. {t \in Tasks : run'[t].phase = "turn"} = {t \in Tasks : run[t].phase = "turn"}
      BY <1>2 DEF Kept
    <2>3. [t \in Tasks |-> Outcome(t)]' = [t \in Tasks |-> Outcome(t)]
      BY <1>2 DEF Kept
    <2>4. Execution!Stop
      BY <1>1, <1>4, <2>1, <2>2, <2>3 DEF Execution!Stop
    <2> QED BY <2>4 DEF Performed, Execution!PlanNext
  <1> QED BY <1>4, <1>5, <1>7

LEMMA PlanInit ==
    ASSUME GraphInit
    PROVE  PlanInv /\ Execution!PlanInit
  <1>1. GraphInv
    BY GraphInitSafe
  <1>2. /\ opened = {} /\ cleared = FALSE /\ result = [t \in Tasks |-> "none"]
        /\ settled = [t \in Tasks |-> 0] /\ pool.phase = "loop" /\ pool.failed = {}
        /\ \A t \in Tasks : run[t].phase = "none"
    BY DEF GraphInit, NewRun, Runs
  <1>3. Begun /\ Told
    BY <1>2 DEF Begun, Told, Active
  <1>4. \A t \in Tasks : Outcome(t) = "none" /\ ~(settled[t] > 0)
    BY <1>2 DEF Outcome, Ended
  <1>5. Execution!PlanInit
    BY <1>2, <1>4 DEF Execution!PlanInit
  <1> QED BY <1>1, <1>3, <1>5 DEF PlanInv

LEMMA PlanStep ==
    ASSUME PlanInv, [GraphNext]_vars
    PROVE  PlanInv' /\ Performed
  <1>1. GraphInv'
    BY GraphStep DEF PlanInv
  <1>2. ASSUME NEW t \in Tasks, Block(t) PROVE Begun' /\ Told' /\ Performed
    BY <1>2, BlockPlan
  <1>3. ASSUME NEW w \in Workers, WorkerStep(w) PROVE Begun' /\ Told' /\ Performed
    BY <1>3, TakePlan, ClaimPlan, ReportPlan, SettlePlan DEF WorkerStep
  <1>4. ASSUME NEW t \in Tasks, DispatchStep(t) PROVE Begun' /\ Told' /\ Performed
    BY <1>4, NotOfferedPlan, RunTaskPlan, WokenPlan, DispatchPlan DEF DispatchStep
  <1>5. ASSUME NEW r \in Runs, RunStep(r) \/ Steer(r) \/ Cancel(r)
        PROVE  Begun' /\ Told' /\ Performed
    BY <1>5, PreparePlan, ThrowPlan, TurnReturnsPlan, OperatorPlan DEF RunStep
  <1>6. ASSUME NEW c \in Continuations, Continue(c) PROVE Begun' /\ Told' /\ Performed
    BY <1>6, ContinuePlan
  <1>7. ASSUME Schedule \/ WaveDone \/ Interrupt \/ Clear
        PROVE  Begun' /\ Told' /\ Performed
    BY <1>7, SchedulePlan, WaveDonePlan, InterruptPlan, ClearPlan
  <1>8. ASSUME UNCHANGED vars \/ \E b \in Budgets : SwitchMode(b)
        PROVE  Begun' /\ Told' /\ Performed
    <2>1. UNCHANGED <<schedulerVars, run, job, settled, opened, cleared>>
      BY <1>8 DEF vars, controllerVars, turnVars, SwitchMode
    <2> QED BY <2>1, SamePhasesPlan
  <1>9. Begun' /\ Told' /\ Performed
    BY <1>2, <1>3, <1>4, <1>5, <1>6, <1>7, <1>8 DEF GraphNext, SchedulerStep
  <1> QED BY <1>1, <1>9 DEF PlanInv

\* For every plan, file layout, routing and budgets, and for whatever the operator does,
\* the scheduler with its workers and the run controller implement the execution of the
\* plan: each of their steps is one of its steps or none.
THEOREM ImplementsPlanExecution == GraphSpec => ExecutesPlan
  <1>1. PlanInv /\ [GraphNext]_vars
          => PlanInv' /\ [Execution!PlanNext]_(Execution!planVars)
    BY PlanStep DEF Performed
  <1> QED BY <1>1, PlanInit, PTL DEF GraphSpec, ExecutesPlan, Execution!PlanSpec
=============================================================================
