-------------------------- MODULE OwnerServicesProofs --------------------------
(***************************************************************************)
(* The runtime owner, for any number of clients, owner processes,          *)
(* sessions, calls, tabs and events: two of its services, and at the end   *)
(* its election.                                                           *)
(*                                                                         *)
(* What holds of the registry of engines for any number of sessions, calls *)
(* of create and releases: its state is well-formed, the owner never holds *)
(* more sessions than it may and no slot leaks, the control room and the   *)
(* RPC reach the same engine of a session, and no teardown fails silently. *)
(*                                                                         *)
(* The inductive invariant says who holds a session: its slot is reserved  *)
(* only while a creation is pending for it (Slots), a session with a       *)
(* pending creation has no engine (Pending), a creation under way is the   *)
(* pending one until the owner has stopped (Making), and the engines in    *)
(* the two tables are those of that session and have not been ended        *)
(* (Kept, Reached).                                                        *)
(*                                                                         *)
(* The event stream has no gap.  What is on a wire follows its client's    *)
(* cursor without one, and the wire of a listener ends at the newest event *)
(* (WireFollows); the replay keeps that since the rows of the ledger are   *)
(* the interval of numbers up to the newest event, pruned from below.      *)
(*                                                                         *)
(* The election is safe.  Its inductive invariant says, of a history in    *)
(* which no claim was taken from a live claimant, no launcher died over    *)
(* its child and no lease went unread: a claimant holds the lock; at most  *)
(* one owner process is alive; one that has not published is the child of  *)
(* a waiting launcher, one that has is in the lease; and a claimant that   *)
(* is about to start an owner knows that none is alive.                    *)
(***************************************************************************)
EXTENDS SessionRegistry, EventStream, OwnerElection, FiniteSetTheorems, SequenceTheorems, TLAPS

Creating == {"making", "binding", "discarding"}

\* An engine that the RPC reaches is attached, and the control room reaches it too.
Kept ==
    \A s \in SessionIds : live[s] # NoEngine =>
        stage[live[s]] = "attached" /\ CreatedFor[live[s]] = s /\ controls[s] = live[s]

\* An engine that the control room reaches is of that session and not yet ended.
Reached ==
    \A s \in SessionIds : controls[s] # NoEngine =>
        CreatedFor[controls[s]] = s /\ stage[controls[s]] \in {"attached", "shutting"}

\* A pending creation is under way, and its session has no engine.
Pending ==
    \A s \in SessionIds : pending[s] # NoEngine =>
        CreatedFor[pending[s]] = s /\ creation[pending[s]] \in Creating /\ live[s] = NoEngine

\* A creation under way is the pending one of its session, until the owner has stopped.
Making ==
    \A c \in Creators : creation[c] \in Creating => Stopped \/ pending[CreatedFor[c]] = c

\* What has become of the engine of a creation under way.
Made ==
    \A c \in Creators :
        /\ creation[c] \in {"new", "making"} => stage[c] = "none"
        /\ creation[c] = "binding" => stage[c] = "made"
        /\ creation[c] = "discarding" => stage[c] = "discarding"
        /\ creation[c] # "answered" => c \notin late

\* A slot is reserved for a pending creation only.
Slots == \A s \in reserved : pending[s] # NoEngine

Holding == Kept /\ Reached /\ Pending /\ Making /\ Made /\ Slots

Room == Cardinality(Attached) + Cardinality(reserved) <= MaxSessions

---------------------------------------------------------------------------
LEMMA TypeInit == RegistryInit => RegistryTypeOK
  BY RegistryAssumption DEF RegistryInit, RegistryTypeOK, Stage, Creation, Release, Disposal

\* Engines that are retired leave the table for their teardown.
LEMMA RetireKeepsType ==
    ASSUME RegistryTypeOK, NEW some \in SUBSET Creators, Retire(some)
    PROVE  /\ live' \in [SessionIds -> Creators \cup {NoEngine}]
           /\ stage' \in [Creators -> Stage]
           /\ leased' \subseteq Creators
  BY DEF RegistryTypeOK, Retire, Stage

LEMMA TypeNext == RegistryTypeOK /\ [RegistryNext]_registryVars => RegistryTypeOK'
<1> SUFFICES ASSUME RegistryTypeOK, [RegistryNext]_registryVars
             PROVE  RegistryTypeOK'
  OBVIOUS
<1> USE RegistryAssumption DEF RegistryTypeOK
<1>1. ASSUME NEW c \in Creators, Create(c)
      PROVE  RegistryTypeOK'
  <2>1. /\ live' \in [SessionIds -> Creators \cup {NoEngine}]
        /\ stage' \in [Creators -> Stage]
        /\ leased' \subseteq Creators
    BY <1>1, RetireKeepsType DEF Create, Idling, Attached
  <2>2. /\ creation' \in [Creators -> Creation]
        /\ reserved' \subseteq SessionIds
        /\ pending' \in [SessionIds -> Creators \cup {NoEngine}]
    BY <1>1 DEF Create, StartCreation, Creation
  <2>3. QED
    BY <1>1, <2>1, <2>2 DEF Create, callVars
<1>2. ASSUME NEW c \in Creators, MakeEngine(c) \/ BindFails(c)
      PROVE  RegistryTypeOK'
  BY <1>2 DEF MakeEngine, BindFails, CreationEnds, callVars, Stage, Creation
<1>3. ASSUME NEW c \in Creators, BindEngine(c)
      PROVE  RegistryTypeOK'
  BY <1>3 DEF BindEngine, Attach, Discard, CreationEnds, callVars, Stage, Creation
<1>4. ASSUME NEW e \in Creators, ShutDown(e) \/ DisposeEngine(e) \/ TeardownTimesOut(e)
      PROVE  RegistryTypeOK'
  BY <1>4 DEF ShutDown, DisposeEngine, TeardownTimesOut, Conclude, FailureRecorded, sessionVars,
              callVars, Stage
<1>5. ASSUME NEW e \in Creators, DiscardEnds(e) \/ DiscardTimesOut(e)
      PROVE  RegistryTypeOK'
  BY <1>5 DEF DiscardEnds, DiscardTimesOut, Conclude, CreationEnds, FailureRecorded, callVars,
              Stage, Creation
<1>6. ASSUME NEW e \in Creators, InvokeEngine(e) \/ ControlEngine(e)
      PROVE  RegistryTypeOK'
  BY <1>6 DEF InvokeEngine, ControlEngine, Attached, sessionVars, callVars
<1>7. ASSUME NEW e \in Creators, MutationEnds(e) \/ TouchEngine(e) \/ LeaseEnds(e)
      PROVE  RegistryTypeOK'
  BY <1>7 DEF MutationEnds, TouchEngine, LeaseEnds, Attached, sessionVars, callVars
<1>8. ASSUME NEW r \in Releasers, SettleRelease(r)
      PROVE  RegistryTypeOK'
  BY <1>8 DEF SettleRelease, sessionVars, engineVars, Release
<1>9. ASSUME NEW r \in Releasers, NEW s \in SessionIds, ReleaseSession(r, s)
      PROVE  RegistryTypeOK'
  <2>1. /\ live' \in [SessionIds -> Creators \cup {NoEngine}]
        /\ stage' \in [Creators -> Stage]
        /\ leased' \subseteq Creators
    BY <1>9, RetireKeepsType DEF ReleaseSession
  <2>2. release' \in [Releasers -> Release]
    BY <1>9 DEF ReleaseSession, Release
  <2>3. QED
    BY <1>9, <2>1, <2>2 DEF ReleaseSession
<1>10. CASE IdleSweep
  BY <1>10, RetireKeepsType DEF IdleSweep, Idling, Attached, callVars
<1>11. CASE DisposeAll
  BY <1>11, RetireKeepsType DEF DisposeAll, Attached, Disposal
<1>12. CASE SettleDisposal
  BY <1>12 DEF SettleDisposal, Orphans, Disposal, engineVars
<1>13. CASE CreationsSettle
  BY <1>13 DEF CreationsSettle, Disposal, sessionVars, engineVars
<1>14. CASE UNCHANGED registryVars
  BY <1>14 DEF registryVars, sessionVars, engineVars, callVars
<1>15. QED
  BY <1>1, <1>2, <1>3, <1>4, <1>5, <1>6, <1>7, <1>8, <1>9, <1>10, <1>11, <1>12, <1>13, <1>14
     DEF RegistryNext, EngineStep

\* The registry, its engines and the calls on it stay well-formed.
THEOREM RegistryTypeCorrect == RegistrySpec => []RegistryTypeOK
<1>1. QED BY TypeInit, TypeNext, PTL DEF RegistrySpec

---------------------------------------------------------------------------
LEMMA HoldingInit == RegistryInit => Holding
  BY RegistryAssumption
     DEF RegistryInit, Holding, Kept, Reached, Pending, Making, Made, Slots, Creating, Stopped

\* Engines that are in the table may be retired, of any session.
LEMMA RetireKeepsHolding ==
    ASSUME RegistryTypeOK, Holding, NEW some \in SUBSET Attached, Retire(some),
           UNCHANGED <<controls, reserved, pending, creation, late>>, Stopped => Stopped'
    PROVE  Holding'
  BY RegistryAssumption
     DEF RegistryTypeOK, Retire, Attached, Creating, Holding, Kept, Reached, Pending,
         Making, Made, Slots

\* Nor does it matter who uses an engine, or waits for one.
LEMMA HoldingFrame ==
    ASSUME Holding, UNCHANGED <<sessionVars, stage, late>>, Stopped => Stopped'
    PROVE  Holding'
  BY DEF Holding, Kept, Reached, Pending, Making, Made, Slots, sessionVars

LEMMA HoldingNext == RegistryTypeOK /\ Holding /\ [RegistryNext]_registryVars => Holding'
<1> SUFFICES ASSUME RegistryTypeOK, Holding, [RegistryNext]_registryVars
             PROVE  Holding'
  OBVIOUS
<1> USE RegistryAssumption DEF RegistryTypeOK, Holding
<1>1. ASSUME NEW c \in Creators, Create(c)
      PROVE  Holding'
  <2> DEFINE s == CreatedFor[c]
  <2>1. CASE /\ UNCHANGED <<live, stage, reserved, pending, controls, late>>
             /\ creation' = [creation EXCEPT ![c] = "answered"]
    BY <1>1, <2>1
       DEF Create, callVars, Creating, Stopped, Kept, Reached, Pending, Making, Made,
           Slots
  <2>2. ASSUME NEW some \in SUBSET Idling, Retire(some),
               UNCHANGED <<reserved, pending, controls, late>>,
               creation' = [creation EXCEPT ![c] = "answered"]
        PROVE  Holding'
    BY <1>1, <2>2
       DEF Create, Retire, Idling, Attached, callVars, Creating, Stopped, Kept, Reached,
           Pending, Making, Made, Slots
  <2>3. ASSUME NEW some \in SUBSET Idling, Retire(some), StartCreation(c), ~Disposed,
               pending[s] = NoEngine, live[s] = NoEngine, UNCHANGED <<controls, late, disposal>>
        PROVE  Holding'
    BY <1>1, <2>3
       DEF Create, StartCreation, Retire, Idling, Attached, Creating, Stopped, Kept, Reached,
           Pending, Making, Made, Slots
  <2>4. QED
    BY <1>1, <2>1, <2>2, <2>3 DEF Create, callVars
<1>2. ASSUME NEW c \in Creators, MakeEngine(c) \/ BindFails(c)
      PROVE  Holding'
  BY <1>2
     DEF MakeEngine, BindFails, CreationEnds, callVars, Creating, Stopped, Kept, Reached,
         Pending, Making, Made, Slots
<1>3. ASSUME NEW c \in Creators, BindEngine(c)
      PROVE  Holding'
  <2>1. CASE Attach(c)
    BY <1>3, <2>1
       DEF BindEngine, Attach, CreationEnds, callVars, Creating, Stopped, Kept, Reached,
           Pending, Making, Made, Slots
  <2>2. CASE Discard(c)
    BY <1>3, <2>2
       DEF BindEngine, Discard, callVars, Creating, Stopped, Kept, Reached, Pending,
           Making, Made, Slots
  <2>3. QED
    BY <1>3, <2>1, <2>2 DEF BindEngine
<1>4. ASSUME NEW e \in Creators, ShutDown(e) \/ DisposeEngine(e) \/ TeardownTimesOut(e)
      PROVE  Holding'
  BY <1>4
     DEF ShutDown, DisposeEngine, TeardownTimesOut, Conclude, Teardowns, Ending, Creation,
         sessionVars, callVars, Creating, Stopped, Kept, Reached, Pending, Making, Made,
         Slots
<1>5. ASSUME NEW e \in Creators, DiscardEnds(e) \/ DiscardTimesOut(e)
      PROVE  Holding'
  BY <1>5
     DEF DiscardEnds, DiscardTimesOut, Conclude, CreationEnds, callVars, Creating,
         Stopped, Kept, Reached, Pending, Making, Made, Slots
<1>6. ASSUME NEW e \in Creators, InvokeEngine(e) \/ ControlEngine(e)
      PROVE  Holding'
  BY <1>6, HoldingFrame DEF InvokeEngine, ControlEngine, callVars, Stopped
<1>7. ASSUME NEW e \in Creators, MutationEnds(e) \/ TouchEngine(e) \/ LeaseEnds(e)
      PROVE  Holding'
  BY <1>7, HoldingFrame DEF MutationEnds, TouchEngine, LeaseEnds, callVars, Stopped
<1>8. ASSUME NEW r \in Releasers, SettleRelease(r)
      PROVE  Holding'
  BY <1>8, HoldingFrame DEF SettleRelease, engineVars, Stopped
<1>9. ASSUME NEW r \in Releasers, NEW s \in SessionIds, ReleaseSession(r, s)
      PROVE  Holding'
  <2>1. CASE UNCHANGED <<live, stage>>
    BY <1>9, <2>1, HoldingFrame DEF ReleaseSession, sessionVars, Stopped
  <2>2. CASE live[s] # NoEngine /\ Retire({live[s]})
    <3>1. live[s] \in Attached
      BY <2>2 DEF Attached, Kept
    <3>2. QED
      BY <1>9, <2>2, <3>1, RetireKeepsHolding DEF ReleaseSession, Stopped
  <2>3. QED
    BY <1>9, <2>1, <2>2 DEF ReleaseSession
<1>10. CASE IdleSweep
  BY <1>10, RetireKeepsHolding DEF IdleSweep, Idling, Attached, callVars, Stopped
<1>11. CASE DisposeAll
  BY <1>11, RetireKeepsHolding DEF DisposeAll, Stopped
<1>12. CASE SettleDisposal
  BY <1>12
     DEF SettleDisposal, engineVars, Creating, Stopped, Kept, Reached, Pending, Making,
         Made, Slots
<1>13. CASE CreationsSettle
  BY <1>13, HoldingFrame DEF CreationsSettle, engineVars, Stopped
<1>14. CASE UNCHANGED registryVars
  BY <1>14, HoldingFrame DEF registryVars, sessionVars, engineVars, callVars, Stopped
<1>15. QED
  BY <1>1, <1>2, <1>3, <1>4, <1>5, <1>6, <1>7, <1>8, <1>9, <1>10, <1>11, <1>12, <1>13, <1>14
     DEF RegistryNext, EngineStep

---------------------------------------------------------------------------
\* A step that attaches no engine and reserves no slot leaves room.
Shrinks == Attached' \subseteq Attached /\ reserved' \subseteq reserved

LEMMA RoomInit == RegistryInit => Room
<1> SUFFICES ASSUME RegistryInit
             PROVE  Room
  OBVIOUS
<1>1. Attached = {} /\ reserved = {}
  BY DEF RegistryInit, Attached
<1>2. QED
  BY <1>1, FS_EmptySet, RegistryAssumption DEF Room

\* Everything counted is finite.
LEMMA Finite ==
    ASSUME RegistryTypeOK
    PROVE  /\ \A A \in SUBSET Creators : IsFiniteSet(A) /\ Cardinality(A) \in Nat
           /\ \A R \in SUBSET SessionIds : IsFiniteSet(R) /\ Cardinality(R) \in Nat
           /\ Attached \in SUBSET Creators /\ reserved \in SUBSET SessionIds
<1>1. \A A \in SUBSET Creators : IsFiniteSet(A)
  BY FS_Subset, RegistryAssumption
<1>2. \A R \in SUBSET SessionIds : IsFiniteSet(R)
  BY FS_Subset, RegistryAssumption
<1>3. QED
  BY <1>1, <1>2, FS_CardinalityType DEF RegistryTypeOK, Attached

LEMMA ShrinkingLeavesRoom ==
    ASSUME RegistryTypeOK, Room, Shrinks
    PROVE  Room'
<1>1. Cardinality(Attached') <= Cardinality(Attached)
  BY Finite, FS_Subset DEF Shrinks
<1>2. Cardinality(reserved') <= Cardinality(reserved)
  BY Finite, FS_Subset DEF Shrinks
<1>3. /\ Cardinality(Attached) \in Nat /\ Cardinality(Attached') \in Nat
      /\ Cardinality(reserved) \in Nat /\ Cardinality(reserved') \in Nat
  BY Finite DEF Shrinks
<1>4. QED
  BY <1>1, <1>2, <1>3, RegistryAssumption DEF Room

\* A slot is reserved only where there is room for it.
LEMMA ReservingLeavesRoom ==
    ASSUME RegistryTypeOK, NEW some \in SUBSET Attached, NEW s \in SessionIds,
           RoomWithout(some, reserved), Attached' = Attached \ some,
           reserved' = reserved \cup {s}
    PROVE  Room'
<1>1. Attached \ some \in SUBSET Creators
  BY Finite
<1>2. Cardinality(Attached \ some) \in Nat /\ Cardinality(reserved) \in Nat
  BY <1>1, Finite
<1>3. Cardinality(reserved') \in {Cardinality(reserved), Cardinality(reserved) + 1}
  BY Finite, FS_AddElement
<1>4. QED
  BY <1>2, <1>3, RegistryAssumption DEF Room, RoomWithout

\* An engine is attached in the slot that was kept for it.
LEMMA AttachingLeavesRoom ==
    ASSUME RegistryTypeOK, NEW c \in Creators, RoomWithout({}, reserved \ {CreatedFor[c]}),
           Attached' = Attached \cup {c}, reserved' = reserved \ {CreatedFor[c]}
    PROVE  Room'
<1>1. Cardinality(Attached') \in {Cardinality(Attached), Cardinality(Attached) + 1}
  BY Finite, FS_AddElement
<1>2. Cardinality(Attached) \in Nat /\ Cardinality(reserved') \in Nat
  BY Finite
<1>3. Attached \ {} = Attached
  OBVIOUS
<1>4. QED
  BY <1>1, <1>2, <1>3, RegistryAssumption DEF Room, RoomWithout

\* Only create attaches engines and reserves slots.
LEMMA RoomNext == RegistryTypeOK /\ Holding /\ Room /\ [RegistryNext]_registryVars => Room'
<1> SUFFICES ASSUME RegistryTypeOK, Holding, Room, [RegistryNext]_registryVars
             PROVE  Room'
  OBVIOUS
<1> USE RegistryAssumption DEF RegistryTypeOK
<1>1. ASSUME NEW some \in SUBSET Creators, Retire(some)
      PROVE  Attached' = Attached \ some
  BY <1>1 DEF Retire, Attached
<1>2. ASSUME NEW c \in Creators, Create(c)
      PROVE  Room'
  <2>1. CASE UNCHANGED <<stage, reserved>>
    BY <2>1, ShrinkingLeavesRoom DEF Shrinks, Attached
  <2>2. ASSUME NEW some \in SUBSET Idling, Retire(some), UNCHANGED reserved
        PROVE  Room'
    BY <1>1, <2>2, ShrinkingLeavesRoom DEF Shrinks, Idling, Attached
  <2>3. ASSUME NEW some \in SUBSET Idling, Retire(some), RoomWithout(some, reserved),
               StartCreation(c)
        PROVE  Room'
    <3>1. some \in SUBSET Attached /\ CreatedFor[c] \in SessionIds
      BY DEF Idling
    <3>2. Attached' = Attached \ some
      BY <1>1, <2>3, <3>1 DEF Attached
    <3>3. QED
      BY <2>3, <3>1, <3>2, ReservingLeavesRoom DEF StartCreation
  <2>4. QED
    BY <1>2, <2>1, <2>2, <2>3 DEF Create
<1>3. ASSUME NEW c \in Creators, BindEngine(c)
      PROVE  Room'
  <2>1. CASE Attach(c)
    <3>1. Attached' = Attached \cup {c}
      BY <2>1 DEF Attach, Attached
    <3>2. QED
      BY <2>1, <3>1, AttachingLeavesRoom DEF Attach, CreationEnds
  <2>2. CASE Discard(c)
    BY <2>2, ShrinkingLeavesRoom DEF Discard, Shrinks, Attached
  <2>3. QED
    BY <1>3, <2>1, <2>2 DEF BindEngine
<1>4. ASSUME NEW c \in Creators, MakeEngine(c) \/ BindFails(c)
      PROVE  Room'
  BY <1>4, ShrinkingLeavesRoom DEF MakeEngine, BindFails, CreationEnds, Shrinks, Attached
<1>5. ASSUME NEW e \in Creators, ShutDown(e) \/ DisposeEngine(e) \/ TeardownTimesOut(e)
      PROVE  Room'
  BY <1>5, ShrinkingLeavesRoom
     DEF ShutDown, DisposeEngine, TeardownTimesOut, Conclude, sessionVars, Shrinks, Attached
<1>6. ASSUME NEW e \in Creators, DiscardEnds(e) \/ DiscardTimesOut(e)
      PROVE  Room'
  BY <1>6, ShrinkingLeavesRoom
     DEF DiscardEnds, DiscardTimesOut, Conclude, CreationEnds, Shrinks, Attached
<1>7. CASE UNCHANGED <<stage, reserved>>
  BY <1>7, ShrinkingLeavesRoom DEF Shrinks, Attached
<1>8. ASSUME NEW r \in Releasers, NEW s \in SessionIds, ReleaseSession(r, s)
      PROVE  Room'
  <2>1. CASE UNCHANGED stage
    BY <1>7, <1>8, <2>1 DEF ReleaseSession
  <2>2. CASE live[s] # NoEngine /\ Retire({live[s]})
    BY <1>1, <1>8, <2>2, ShrinkingLeavesRoom DEF ReleaseSession, Shrinks
  <2>3. QED
    BY <1>8, <2>1, <2>2 DEF ReleaseSession
<1>9. CASE IdleSweep \/ DisposeAll
  BY <1>1, <1>9, ShrinkingLeavesRoom DEF IdleSweep, DisposeAll, Idling, Attached, Shrinks
<1>10. CASE SettleDisposal
  BY <1>7, <1>10, ShrinkingLeavesRoom DEF SettleDisposal, engineVars, Shrinks, Attached
<1>11. ASSUME NEW e \in Creators,
              \/ InvokeEngine(e) \/ ControlEngine(e) \/ MutationEnds(e) \/ TouchEngine(e)
              \/ LeaseEnds(e)
       PROVE  Room'
  BY <1>7, <1>11
     DEF InvokeEngine, ControlEngine, MutationEnds, TouchEngine, LeaseEnds, sessionVars
<1>12. CASE CreationsSettle \/ \E r \in Releasers : SettleRelease(r)
  BY <1>7, <1>12 DEF CreationsSettle, SettleRelease, sessionVars, engineVars
<1>13. CASE UNCHANGED registryVars
  BY <1>7, <1>13 DEF registryVars, sessionVars, engineVars
<1>14. QED
  BY <1>2, <1>3, <1>4, <1>5, <1>6, <1>8, <1>9, <1>10, <1>11, <1>12, <1>13
     DEF RegistryNext, EngineStep

---------------------------------------------------------------------------
(***************************************************************************)
(* That failures are told.  A mutation runs only on an engine that has not *)
(* ended cleanly (Quiet), a failure is on record until somebody has heard  *)
(* it (Heard), and the stop waits for, or complains of, all that was       *)
(* under way when it began (Unclaimed, Emptied, Resettled, Clean).         *)
(***************************************************************************)
Quiet ==
    \A e \in working :
        stage[e] \in {"attached", "shutting", "disposing", "failed"}
            /\ (stage[e] = "disposing" => e \in unsettled)

Heard ==
    \A e \in Creators :
        stage[e] = "failed" \/ e \in late => e \in teardownFailures \cup told \cup complaints

\* An engine that was made and not attached is in the hands of its creation, or an orphan.
Unclaimed ==
    \A e \in Creators :
        /\ stage[e] = "made" => creation[e] = "binding"
        /\ stage[e] = "discarding" => creation[e] = "discarding" \/ e \in late

Emptied == Disposed => Attached = {}

Resettled ==
    disposal = "resettling" =>
        \A c \in Creators : creation[c] \in Creating => c \in complaints

Clean ==
    disposal = "clean" =>
        \A e \in Creators :
            /\ creation[e] \notin Creating
            /\ stage[e] \in {"none", "ended", "leaked", "failed"}
            /\ stage[e] = "failed" => e \in told

\* What a release waits for, and what it may say.
Freed ==
    \A r \in Releasers :
        LET e == release[r].of
        IN  release[r].pc \in {"waiting", "released"} =>
                /\ e \in Creators /\ stage[e] \in {"shutting", "disposing", "ended", "failed"}
                /\ release[r].pc = "released" => stage[e] = "ended" \/ e \in told \cup complaints

Telling == Quiet /\ Heard /\ Unclaimed /\ Emptied /\ Resettled /\ Clean /\ Freed

LEMMA TellingInit == RegistryInit => Telling
  BY RegistryAssumption
     DEF RegistryInit, Telling, Quiet, Heard, Unclaimed, Emptied, Resettled, Clean, Freed,
         Disposed, Attached, Creating

LEMMA TellingNext ==
    RegistryTypeOK /\ Holding /\ Telling /\ [RegistryNext]_registryVars => Telling'
<1> SUFFICES ASSUME RegistryTypeOK, Holding, Telling, [RegistryNext]_registryVars
             PROVE  Telling'
  OBVIOUS
<1> USE RegistryAssumption DEF RegistryTypeOK, Telling
<1>1. ASSUME NEW c \in Creators, Create(c)
      PROVE  Telling'
  BY <1>1
     DEF Create, StartCreation, Retire, Idling, Attached, Disposed, Creating, callVars, Quiet,
         Heard, Unclaimed, Emptied, Resettled, Clean, Freed
<1>2. ASSUME NEW c \in Creators, MakeEngine(c) \/ BindFails(c)
      PROVE  Telling'
  BY <1>2
     DEF MakeEngine, BindFails, CreationEnds, Attached, Disposed, Creating, callVars, Holding,
         Made, Quiet, Heard, Unclaimed, Emptied, Resettled, Clean, Freed
<1>3. ASSUME NEW c \in Creators, BindEngine(c)
      PROVE  Telling'
  BY <1>3
     DEF BindEngine, Attach, Discard, CreationEnds, Attached, Disposed, Stopped, Creating,
         callVars, Holding, Made, Quiet, Heard, Unclaimed, Emptied, Resettled, Clean, Freed
<1>4. ASSUME NEW e \in Creators, ShutDown(e)
      PROVE  Telling'
  BY <1>4
     DEF ShutDown, Attached, Disposed, Creating, callVars, Quiet, Heard, Unclaimed, Emptied,
         Resettled, Clean, Freed
<1>5. ASSUME NEW e \in Creators, DisposeEngine(e)
      PROVE  Telling'
  BY <1>5
     DEF DisposeEngine, Conclude, FailureRecorded, Attached, Disposed, Creating, sessionVars,
         callVars, Quiet, Heard, Unclaimed, Emptied, Resettled, Clean, Freed
<1>6. ASSUME NEW e \in Creators, TeardownTimesOut(e)
      PROVE  Telling'
  BY <1>6
     DEF TeardownTimesOut, FailureRecorded, Attached, Disposed, Creating, sessionVars, callVars,
         Quiet, Heard, Unclaimed, Emptied, Resettled, Clean, Freed
<1>7. ASSUME NEW e \in Creators, DiscardEnds(e)
      PROVE  Telling'
  BY <1>7
     DEF DiscardEnds, Conclude, CreationEnds, FailureRecorded, Attached, Disposed, Creating,
         callVars, Holding, Made, Quiet, Heard, Unclaimed, Emptied, Resettled, Clean, Freed
<1>8. ASSUME NEW e \in Creators, DiscardTimesOut(e)
      PROVE  Telling'
  BY <1>8
     DEF DiscardTimesOut, CreationEnds, FailureRecorded, Attached, Disposed, Creating,
         callVars, Holding, Made, Quiet, Heard, Unclaimed, Emptied, Resettled, Clean, Freed
<1>9. ASSUME NEW e \in Creators, InvokeEngine(e) \/ ControlEngine(e)
      PROVE  Telling'
  BY <1>9
     DEF InvokeEngine, ControlEngine, Attached, Disposed, Creating, sessionVars, callVars,
         Holding, Reached, Quiet, Heard, Unclaimed, Emptied, Resettled, Clean, Freed
<1>10. ASSUME NEW e \in Creators, MutationEnds(e) \/ TouchEngine(e) \/ LeaseEnds(e)
       PROVE  Telling'
  BY <1>10
     DEF MutationEnds, TouchEngine, LeaseEnds, Attached, Disposed, Creating, sessionVars,
         callVars, Quiet, Heard, Unclaimed, Emptied, Resettled, Clean, Freed
<1>11. ASSUME NEW r \in Releasers, SettleRelease(r)
       PROVE  Telling'
  <2>1. Freed'
    BY <1>11
       DEF SettleRelease, sessionVars, engineVars, Release, Orphans, Teardowns, Ending, Heard,
           Freed
  <2>2. QED
    BY <1>11, <2>1
       DEF SettleRelease, Attached, Disposed, Creating, sessionVars, engineVars, Quiet, Heard,
           Unclaimed, Emptied, Resettled, Clean
<1>12. ASSUME NEW r \in Releasers, NEW s \in SessionIds, ReleaseSession(r, s)
       PROVE  Telling'
  <2>1. Freed'
    BY <1>12 DEF ReleaseSession, Retire, Release, Holding, Kept, Freed
  <2>2. CASE UNCHANGED <<live, stage>>
    BY <1>12, <2>1, <2>2
       DEF ReleaseSession, Attached, Disposed, Creating, Quiet, Heard, Unclaimed, Emptied,
           Resettled, Clean
  <2>3. CASE live[s] # NoEngine /\ Retire({live[s]})
    BY <1>12, <2>1, <2>3
       DEF ReleaseSession, Retire, Attached, Disposed, Creating, Holding, Kept, Quiet, Heard,
           Unclaimed, Emptied, Resettled, Clean
  <2>4. QED
    BY <1>12, <2>2, <2>3 DEF ReleaseSession
<1>13. CASE IdleSweep
  BY <1>13
     DEF IdleSweep, Retire, Idling, Attached, Disposed, Creating, callVars, Quiet, Heard,
         Unclaimed, Emptied, Resettled, Clean, Freed
<1>14. CASE DisposeAll
  BY <1>14
     DEF DisposeAll, Retire, Attached, Disposed, Creating, Quiet, Heard, Unclaimed, Emptied,
         Resettled, Clean, Freed
<1>15. CASE SettleDisposal
  <2>1. Clean'
    BY <1>15
       DEF SettleDisposal, engineVars, Attached, Orphans, Teardowns, Ending, Disposed, Creating,
           Stopped, Stage, Holding, Making, Heard, Unclaimed, Emptied, Resettled, Clean
  <2>2. QED
    BY <1>15, <2>1
       DEF SettleDisposal, engineVars, Attached, Disposed, Quiet, Heard, Unclaimed, Emptied,
           Resettled, Freed
<1>16. CASE CreationsSettle
  BY <1>16
     DEF CreationsSettle, sessionVars, engineVars, Attached, Disposed, Creating, Stopped, Holding,
         Making, Quiet, Heard, Unclaimed, Emptied, Resettled, Clean, Freed
<1>17. CASE UNCHANGED registryVars
  BY <1>17
     DEF registryVars, sessionVars, engineVars, callVars, Attached, Disposed, Creating, Quiet,
         Heard, Unclaimed, Emptied, Resettled, Clean, Freed
<1>18. QED
  BY <1>1, <1>2, <1>3, <1>4, <1>5, <1>6, <1>7, <1>8, <1>9, <1>10, <1>11, <1>12, <1>13, <1>14,
     <1>15, <1>16, <1>17
     DEF RegistryNext, EngineStep

---------------------------------------------------------------------------
RegistryInv == RegistryTypeOK /\ Holding /\ Room /\ Telling

LEMMA RegistryInvariant == RegistrySpec => []RegistryInv
<1>1. RegistryInit => RegistryInv
  BY TypeInit, HoldingInit, RoomInit, TellingInit DEF RegistryInv
<1>2. RegistryInv /\ [RegistryNext]_registryVars => RegistryInv'
  BY TypeNext, HoldingNext, RoomNext, TellingNext DEF RegistryInv
<1>3. QED
  BY <1>1, <1>2, PTL DEF RegistrySpec

\* The owner never holds more sessions than it may, and a slot is reserved exactly as long as
\* a creation may use it.
THEOREM OwnerKeepsItsCapacity == RegistrySpec => []CapacityIsKept
<1>1. RegistryInv => CapacityIsKept
  BY DEF RegistryInv, Holding, Room, Slots, Pending, Creating, CapacityIsKept, RegistryTypeOK
<1>2. QED
  BY <1>1, RegistryInvariant, PTL

\* The control room and the RPC reach the same engine of a session, and the control room
\* none that is gone.
THEOREM ControlsAndRpcAgree == RegistrySpec => []ControlsReachLive
<1>1. RegistryInv => ControlsReachLive
  BY DEF RegistryInv, Holding, Kept, Reached, ControlsReachLive
<1>2. QED
  BY <1>1, RegistryInvariant, PTL

\* No teardown fails in silence: a clean end of the owner and a release that reports success
\* are true of every engine, except of those whose failure somebody else was told.
THEOREM NoFailureIsSilent == RegistrySpec => []FailuresAreTold
<1>1. RegistryInv => FailuresAreTold
  BY DEF RegistryInv, Telling, Quiet, Clean, Freed, FailuresAreTold
<1>2. QED
  BY <1>1, RegistryInvariant, PTL

(***************************************************************************)
(* The event stream.                                                       *)
(***************************************************************************)
\* The n ids that follow a cursor.
Span(cursor, n) == [i \in 1 .. n |-> cursor + i]

\* The log is numbered without gaps up to the newest event, and ends there.
LogIsInterval == lowWatermark >= 1 /\ lowWatermark <= nextSeq

\* What is on a wire follows the cursor, also on one whose listener was dropped; that of
\* a listener reaches the newest event.
WireFollows(c) ==
    /\ client[c].cursor <= Version
    /\ client[c].connection # "live" => wire[c] = <<>> /\ c \notin subscribed
    /\ client[c].connection = "live" =>
          \E n \in Nat : /\ wire[c] = Span(client[c].cursor, n)
                         /\ client[c].cursor + n <= Version
                         /\ (c \in subscribed => client[c].cursor + n = Version)

StreamInv == StreamTypeOK /\ LogIsInterval /\ \A c \in Tabs : WireFollows(c)

\* A span is a sequence, grows by the id after it and shrinks to the span of the next cursor.
LEMMA SpanProperties ==
    ASSUME NEW k \in Nat, NEW n \in Nat
    PROVE  /\ Span(k, n) \in Seq(Nat) /\ Len(Span(k, n)) = n
           /\ Append(Span(k, n), k + n + 1) = Span(k, n + 1)
           /\ Span(k, 0) = <<>>
           /\ n > 0 => Head(Span(k, n)) = k + 1 /\ Tail(Span(k, n)) = Span(k + 1, n - 1)
<1>1. Span(k, n) \in Seq(Nat) /\ Len(Span(k, n)) = n
  BY DEF Span
<1>2. Append(Span(k, n), k + n + 1) = Span(k, n + 1)
  <2>1. Append(Span(k, n), k + n + 1) = [i \in 1 .. n + 1 |->
            IF i = n + 1 THEN k + n + 1 ELSE Span(k, n)[i]]
    BY <1>1
  <2>2. \A i \in 1 .. n + 1 : i # n + 1 => i \in 1 .. n
    OBVIOUS
  <2>3. QED
    BY <2>1, <2>2 DEF Span
<1>3. Span(k, 0) = <<>>
  BY DEF Span
<1>4. ASSUME n > 0
      PROVE  Head(Span(k, n)) = k + 1 /\ Tail(Span(k, n)) = Span(k + 1, n - 1)
  <2>1. Head(Span(k, n)) = k + 1
    BY <1>1, <1>4 DEF Span
  <2>2. /\ Tail(Span(k, n)) \in Seq(Nat) /\ Len(Tail(Span(k, n))) = n - 1
        /\ \A i \in 1 .. n - 1 : Tail(Span(k, n))[i] = Span(k, n)[i + 1]
    <3>1. Span(k, n) # <<>>
      BY <1>1, <1>4
    <3>2. QED
      BY <1>1, <3>1, HeadTailProperties
  <2>3. \A i \in 1 .. n - 1 : Tail(Span(k, n))[i] = Span(k + 1, n - 1)[i]
    <3>1. ASSUME NEW i \in 1 .. n - 1
          PROVE  Span(k, n)[i + 1] = k + (i + 1) /\ Span(k + 1, n - 1)[i] = k + 1 + i
      BY <1>4 DEF Span
    <3>2. QED
      BY <2>2, <3>1
  <2>4. Span(k + 1, n - 1) \in Seq(Nat) /\ Len(Span(k + 1, n - 1)) = n - 1
    BY <1>4 DEF Span
  <2>5. Tail(Span(k, n)) = Span(k + 1, n - 1)
    BY <2>2, <2>3, <2>4, SeqEqual
  <2>6. QED
    BY <2>1, <2>5
<1>5. QED
  BY <1>1, <1>2, <1>3, <1>4

\* A replay from a cursor that is not too old serves all that follows it, in order.
LEMMA ReplayIsSpan ==
    ASSUME StreamInv, NEW after \in Nat, ~Unreplayable(after)
    PROVE  Replay(after) = Span(after, Version - after)
<1> DEFINE due == {q \in rows : q > after}
<1>1. /\ nextSeq \in Nat /\ lowWatermark \in Nat /\ rows = lowWatermark .. nextSeq - 1
      /\ after >= lowWatermark - 1 /\ after <= nextSeq - 1 /\ Version = nextSeq - 1
  BY DEF StreamInv, StreamTypeOK, Unreplayable, Version
<1>2. due = (after + 1) .. Version
  BY <1>1
<1>3. Cardinality(due) = Version - after
  <2>1. Cardinality((after + 1) .. Version) = Version - after
    BY <1>1, FS_Interval
  <2>2. QED
    BY <1>2, <2>1
<1>4. ASSUME NEW q \in due
      PROVE  Cardinality({r \in due : r <= q}) = q - after
  <2>1. {r \in due : r <= q} = (after + 1) .. q
    BY <1>1, <1>2
  <2>2. q \in Int /\ q >= after + 1
    BY <1>1, <1>2
  <2>3. Cardinality((after + 1) .. q) = q - after
    BY <2>2, FS_Interval
  <2>4. QED
    BY <2>1, <2>3
<1>5. ASSUME NEW i \in 1 .. Version - after
      PROVE  (CHOOSE q \in due : Cardinality({r \in due : r <= q}) = i) = after + i
  <2>1. after + i \in due
    BY <1>1, <1>2
  <2>2. \A q \in due : Cardinality({r \in due : r <= q}) = i <=> q = after + i
    <3>1. ASSUME NEW q \in due
          PROVE  Cardinality({r \in due : r <= q}) = i <=> q = after + i
      <4>1. q \in Int
        BY <1>1, <1>2
      <4>2. Cardinality({r \in due : r <= q}) = q - after
        BY <1>4
      <4>3. QED
        BY <4>1, <4>2
    <3>2. QED
      BY <3>1
  <2> HIDE DEF due
  <2>3. QED
    BY <2>1, <2>2
<1>6. QED
  BY <1>3, <1>5 DEF Replay, InOrder, Span

\* What follows a cursor is well-formed: Loading and AfterLoad change no more than the read.
LEMMA ReadsStayWellFormed ==
    ASSUME NEW p \in Client
    PROVE  /\ Loading(p) \in Client /\ Loading(p).connection = p.connection
           /\ Loading(p).cursor = p.cursor
           /\ AfterLoad(p) \in Client /\ AfterLoad(p).cursor = p.cursor
           /\ (AfterLoad(p).connection = "live") = (p.connection = "live")
BY DEF Client, Loading, AfterLoad, Reads, Connections

\* A step of one tab leaves the wires of the others as they are.
LEMMA OtherTabs ==
    ASSUME StreamInv, UNCHANGED eventVars, NEW c \in Tabs, NEW p \in Client,
           client' = [client EXCEPT ![c] = p], failures' \in 0 .. MaxFailures,
           NEW w \in Seq(Nat), wire' = [wire EXCEPT ![c] = w],
           subscribed' \subseteq Tabs,
           \A d \in Tabs : d # c => (d \in subscribed' <=> d \in subscribed),
           WireFollows(c)'
    PROVE  StreamInv'
<1>1. StreamTypeOK' /\ LogIsInterval'
  BY DEF StreamInv, StreamTypeOK, LogIsInterval, eventVars
<1>2. ASSUME NEW d \in Tabs, d # c
      PROVE  WireFollows(d)'
  <2>1. client'[d] = client[d] /\ wire'[d] = wire[d] /\ Version' = Version /\ WireFollows(d)
    BY <1>2 DEF StreamInv, StreamTypeOK, eventVars, Version
  <2>2. QED
    BY <1>2, <2>1 DEF WireFollows
<1>3. QED
  BY <1>1, <1>2 DEF StreamInv

\* A step of one tab that writes nothing to it and closes nothing.
LEMMA WireStays ==
    ASSUME StreamInv, UNCHANGED <<eventVars, subscribed, wire>>, NEW c \in Tabs, NEW p \in Client,
           client' = [client EXCEPT ![c] = p], failures' \in 0 .. MaxFailures,
           p.cursor = client[c].cursor,
           (p.connection = "live") = (client[c].connection = "live")
    PROVE  StreamInv'
<1>1. WireFollows(c)'
  <2>1. client'[c] = p /\ Version' = Version /\ WireFollows(c)
    BY DEF StreamInv, StreamTypeOK, eventVars, Version
  <2>2. QED
    BY <2>1 DEF WireFollows
<1>2. wire' = [wire EXCEPT ![c] = wire[c]] /\ wire[c] \in Seq(Nat) /\ subscribed' \subseteq Tabs
  BY DEF StreamInv, StreamTypeOK
<1>3. QED
  BY <1>1, <1>2, OtherTabs

\* A connection that ends takes its wire with it.
LEMMA WireCut ==
    ASSUME StreamInv, UNCHANGED eventVars, NEW c \in Tabs, NEW p \in Client,
           client' = [client EXCEPT ![c] = p], failures' \in 0 .. MaxFailures,
           p.cursor = client[c].cursor, p.connection # "live",
           subscribed' = subscribed \ {c}, wire' = [wire EXCEPT ![c] = <<>>]
    PROVE  StreamInv'
<1>1. WireFollows(c)'
  <2>1. /\ client'[c] = p /\ Version' = Version /\ WireFollows(c)
        /\ wire'[c] = <<>> /\ c \notin subscribed'
    BY DEF StreamInv, StreamTypeOK, eventVars, Version
  <2>2. QED
    BY <2>1 DEF WireFollows
<1>2. <<>> \in Seq(Nat) /\ subscribed' \subseteq Tabs
  BY DEF StreamInv, StreamTypeOK
<1>3. QED
  BY <1>1, <1>2, OtherTabs

\* The numbering goes on, and pruning never passes the newest event.
LEMMA LogGrows ==
    ASSUME StreamInv, Append1
    PROVE  /\ nextSeq' = nextSeq + 1 /\ nextSeq' \in Nat /\ lowWatermark' \in Nat
           /\ LogIsInterval' /\ rows' = lowWatermark' .. nextSeq' - 1
           /\ Version' = Version + 1 /\ Version \in Nat
<1>1. /\ nextSeq \in Nat /\ lowWatermark \in Nat /\ rows = lowWatermark .. nextSeq - 1
      /\ lowWatermark >= 1 /\ lowWatermark <= nextSeq /\ MaxEventsPerSession \in Nat \ {0}
  BY StreamAssumption DEF StreamInv, StreamTypeOK, LogIsInterval
<1>2. /\ nextSeq' = nextSeq + 1
      /\ lowWatermark' = Later(lowWatermark, nextSeq + 1 - MaxEventsPerSession)
      /\ rows' = {q \in rows \cup {nextSeq} : q >= lowWatermark'}
  BY DEF Append1
<1>3. lowWatermark' \in Nat /\ lowWatermark' >= lowWatermark /\ lowWatermark' <= nextSeq
  BY <1>1, <1>2 DEF Later
<1>4. rows' = lowWatermark' .. nextSeq' - 1
  BY <1>1, <1>2, <1>3
<1>5. QED
  BY <1>1, <1>2, <1>3, <1>4 DEF LogIsInterval, Version

\* A published event ends up on the wire of every listener, once.
LEMMA PublishKeepsWires ==
    ASSUME StreamInv, NEW stalled \in SUBSET Tabs, PublishEvent(stalled)
    PROVE  StreamInv'
<1>1. /\ client \in [Tabs -> Client] /\ wire \in [Tabs -> Seq(Nat)] /\ subscribed \subseteq Tabs
      /\ failures \in 0 .. MaxFailures /\ nextSeq \in Nat /\ Version = nextSeq - 1
  BY DEF StreamInv, StreamTypeOK, Version
<1>2. /\ nextSeq' = nextSeq + 1 /\ nextSeq' \in Nat /\ lowWatermark' \in Nat
      /\ LogIsInterval' /\ rows' = lowWatermark' .. nextSeq' - 1
      /\ Version' = Version + 1 /\ Version \in Nat
  BY LogGrows DEF PublishEvent
<1>3. failures' \in 0 .. MaxFailures
  <2>1. Cardinality(stalled) \in Nat
    BY StreamAssumption, FS_Subset, FS_CardinalityType
  <2>2. QED
    BY <1>1, <2>1, StreamAssumption DEF PublishEvent
<1>4. /\ client' = client /\ subscribed' = subscribed \ stalled
      /\ wire' = [c \in Tabs |-> IF c \in subscribed THEN Append(wire[c], nextSeq) ELSE wire[c]]
  BY DEF PublishEvent
<1>5. StreamTypeOK'
  <2>1. wire' \in [Tabs -> Seq(Nat)]
    BY <1>1, <1>4
  <2>2. QED
    BY <1>1, <1>2, <1>3, <1>4, <2>1 DEF StreamTypeOK
<1>6. ASSUME NEW c \in Tabs
      PROVE  WireFollows(c)'
  <2>1. WireFollows(c) /\ client'[c] = client[c] /\ client[c].cursor \in Nat
    BY <1>1, <1>4 DEF StreamInv, Client
  <2>2. client[c].connection # "live" => wire'[c] = <<>> /\ c \notin subscribed'
    BY <1>4, <2>1 DEF WireFollows
  <2>3. ASSUME client[c].connection = "live"
        PROVE  \E n \in Nat : /\ wire'[c] = Span(client[c].cursor, n)
                              /\ client[c].cursor + n <= Version'
                              /\ (c \in subscribed' => client[c].cursor + n = Version')
    <3>1. PICK n \in Nat : /\ wire[c] = Span(client[c].cursor, n)
                            /\ client[c].cursor + n <= Version
                            /\ (c \in subscribed => client[c].cursor + n = Version)
      BY <2>1, <2>3 DEF WireFollows
    <3>2. CASE c \in subscribed
      <4>0. client[c].cursor + n = Version /\ Version = nextSeq - 1 /\ nextSeq \in Nat
        BY <1>1, <3>1, <3>2
      <4>1. nextSeq = client[c].cursor + n + 1
        BY <2>1, <4>0
      <4>2. wire'[c] = Span(client[c].cursor, n + 1)
        BY <1>4, <2>1, <3>1, <3>2, <4>1, SpanProperties
      <4>3. QED
        <5>1. n + 1 \in Nat /\ client[c].cursor + (n + 1) = Version'
          <6>1. Version' = Version + 1 /\ client[c].cursor \in Nat
            BY <1>2, <2>1
          <6>2. QED
            BY <4>0, <6>1
        <5>2. client[c].cursor + (n + 1) <= Version'
          BY <1>2, <5>1
        <5>3. QED
          BY <4>2, <5>1, <5>2
    <3>3. CASE c \notin subscribed
      BY <1>2, <1>4, <2>1, <3>1, <3>3
    <3>4. QED
      BY <3>2, <3>3
  <2>4. QED
    BY <1>2, <2>1, <2>2, <2>3 DEF WireFollows
<1>7. QED
  BY <1>2, <1>5, <1>6 DEF StreamInv

\* A crash takes every wire, whether its last event got out or not.
LEMMA CrashKeepsWires ==
    ASSUME StreamInv, Crash
    PROVE  StreamInv'
<1>1. /\ client \in [Tabs -> Client] /\ failures \in 0 .. MaxFailures
      /\ nextSeq \in Nat /\ lowWatermark \in Nat /\ rows = lowWatermark .. nextSeq - 1
      /\ LogIsInterval
  BY DEF StreamInv, StreamTypeOK
<1>2. /\ nextSeq' \in Nat /\ lowWatermark' \in Nat
      /\ LogIsInterval' /\ rows' = lowWatermark' .. nextSeq' - 1
      /\ Version' >= Version /\ Version \in Int /\ Version' \in Int
  <2>1. CASE Append1
    BY <2>1, LogGrows
  <2>2. CASE UNCHANGED eventVars
    BY <1>1, <2>2 DEF eventVars, LogIsInterval, Version
  <2>3. QED
    BY <2>1, <2>2 DEF Crash
<1>3. /\ failures' \in 0 .. MaxFailures /\ subscribed' = {}
      /\ wire' = [c \in Tabs |-> <<>>] /\ wire' \in [Tabs -> Seq(Nat)]
  <2>1. /\ failures < MaxFailures /\ failures' = failures + 1 /\ subscribed' = {}
        /\ wire' = [c \in Tabs |-> <<>>]
    BY Zenon DEF Crash
  <2>2. <<>> \in Seq(Nat)
    OBVIOUS
  <2>3. wire' \in [Tabs -> Seq(Nat)]
    BY <2>1, <2>2
  <2>4. QED
    BY <1>1, <2>1, <2>3, StreamAssumption
<1>4. ASSUME NEW c \in Tabs
      PROVE  /\ client'[c] \in Client /\ client'[c].cursor = client[c].cursor
             /\ client'[c].connection # "live"
  BY <1>1 DEF Crash, Client, Streaming, Connections, Reads
<1>5. client' \in [Tabs -> Client]
  <2>1. client' = [c \in Tabs |-> client'[c]]
    BY DEF Crash
  <2>2. QED
    BY <1>4, <2>1
<1>6. ASSUME NEW c \in Tabs
      PROVE  WireFollows(c)'
  <2>1. client[c].cursor <= Version /\ client[c].cursor \in Nat
    BY <1>1 DEF StreamInv, WireFollows, Client
  <2>2. QED
    BY <1>2, <1>3, <1>4, <2>1 DEF WireFollows
<1>7. QED
  BY <1>2, <1>3, <1>5, <1>6 DEF StreamInv, StreamTypeOK

\* A stream that opens is replayed all that its cursor lacks, or refused.
LEMMA OpenKeepsWires ==
    ASSUME StreamInv, NEW c \in Tabs, OpenStream(c)
    PROVE  StreamInv'
<1>1. /\ client \in [Tabs -> Client] /\ client[c] \in Client /\ client[c].cursor \in Nat
      /\ failures \in 0 .. MaxFailures
      /\ wire \in [Tabs -> Seq(Nat)] /\ subscribed \subseteq Tabs /\ nextSeq \in Nat
      /\ client[c].cursor <= Version /\ WireFollows(c)
  BY DEF StreamInv, StreamTypeOK, WireFollows, Client
<1> DEFINE k == client[c].cursor
           to(connection) == [client[c] EXCEPT !.connection = connection]
<1>2. \A connection \in Connections : /\ to(connection) \in Client /\ to(connection).cursor = k
                                      /\ to(connection).connection = connection
  BY <1>1 DEF Client
<1>3. CASE Unreplayable(k)
  <2>1. /\ client' = [client EXCEPT ![c] = to("refused")]
        /\ UNCHANGED <<eventVars, subscribed, wire>>
        /\ failures' = failures /\ client[c].connection = "requesting"
    BY <1>1, <1>3 DEF OpenStream
  <2>2. "refused" \in Connections
    BY DEF Connections
  <2>3. QED
    BY <1>1, <1>2, <2>1, <2>2, WireStays
<1>4. CASE ~Unreplayable(k)
  <2>1. /\ client' = [client EXCEPT ![c] = to("live")] /\ UNCHANGED eventVars
        /\ failures' = failures /\ subscribed' = subscribed \cup {c}
        /\ wire' = [wire EXCEPT ![c] = Replay(k)]
    BY <1>1, <1>4 DEF OpenStream
  <2>2. "live" \in Connections
    BY DEF Connections
  <2>3. /\ Version - k \in Nat /\ Replay(k) = Span(k, Version - k) /\ Version' = Version
        /\ Replay(k) \in Seq(Nat)
    <3>1. Version - k \in Nat
      BY <1>1 DEF Version
    <3>2. Replay(k) = Span(k, Version - k)
      BY <1>1, <1>4, ReplayIsSpan
    <3>3. QED
      BY <1>1, <2>1, <3>1, <3>2, SpanProperties DEF Version, eventVars
  <2>4. WireFollows(c)'
    <3>1. client'[c].cursor = k /\ client'[c].connection = "live" /\ wire'[c] = Replay(k)
      BY <1>1, <1>2, <2>1, <2>2
    <3>2. k + (Version - k) = Version
      BY <1>1 DEF Version
    <3>3. QED
      BY <1>1, <2>3, <3>1, <3>2 DEF WireFollows
  <2> HIDE DEF k, to
  <2>5. QED
    BY <1>1, <1>2, <2>1, <2>2, <2>3, <2>4, OtherTabs
<1>5. QED
  BY <1>3, <1>4

\* An event that is read moves the cursor by one: none is skipped.
LEMMA ReadKeepsWires ==
    ASSUME StreamInv, NEW c \in Tabs, ReadEvent(c)
    PROVE  StreamInv'
<1>1. /\ client \in [Tabs -> Client] /\ client[c] \in Client /\ client[c].cursor \in Nat
      /\ failures \in 0 .. MaxFailures
      /\ wire \in [Tabs -> Seq(Nat)] /\ subscribed \subseteq Tabs /\ nextSeq \in Nat
      /\ client[c].cursor <= Version /\ WireFollows(c)
  <2>1. client \in [Tabs -> Client] /\ client[c] \in Client /\ WireFollows(c)
    BY DEF StreamInv, StreamTypeOK
  <2>2. client[c].cursor \in Nat
    BY <2>1 DEF Client
  <2>3. QED
    BY <2>1, <2>2 DEF StreamInv, StreamTypeOK, WireFollows
<1> DEFINE k == client[c].cursor
           p == [Loading(client[c]) EXCEPT !.cursor = k + 1]
<1>2. PICK n \in Nat : /\ wire[c] = Span(k, n) /\ k + n <= Version
                        /\ (c \in subscribed => k + n = Version)
  BY <1>1 DEF ReadEvent, WireFollows
<1>3. n > 0 /\ Head(wire[c]) = k + 1 /\ Tail(wire[c]) = Span(k + 1, n - 1)
  <2>1. n # 0
    BY <1>1, <1>2, SpanProperties DEF ReadEvent
  <2>2. QED
    <3>1. n > 0 /\ k \in Nat
      BY <1>1, <2>1
    <3>2. QED
      BY <1>2, <3>1, SpanProperties
<1>4. /\ client' = [client EXCEPT ![c] = p] /\ wire' = [wire EXCEPT ![c] = Span(k + 1, n - 1)]
      /\ UNCHANGED <<eventVars, subscribed, failures>>
  <2>1. ~(Head(wire[c]) <= k)
    BY <1>1, <1>3
  <2>2. client' = [client EXCEPT ![c] = [Loading(client[c]) EXCEPT !.cursor = Head(wire[c])]]
    BY <2>1 DEF ReadEvent
  <2>3. wire' = [wire EXCEPT ![c] = Tail(wire[c])]
    BY DEF ReadEvent
  <2>4. QED
    BY <1>3, <2>2, <2>3 DEF ReadEvent
<1>5. p \in Client /\ p.cursor = k + 1 /\ p.connection = "live"
  <2>1. Loading(client[c]) \in Client /\ Loading(client[c]).connection = "live"
    BY <1>1, ReadsStayWellFormed DEF ReadEvent
  <2>2. k + 1 \in Nat
    BY <1>1
  <2>3. QED
    BY <2>1, <2>2 DEF Client
<1>6. Span(k + 1, n - 1) \in Seq(Nat)
  <2>1. k + 1 \in Nat /\ n - 1 \in Nat
    BY <1>1, <1>3
  <2>2. QED
    BY <2>1, SpanProperties
<1> HIDE DEF p
<1>7. WireFollows(c)'
  <2>1. /\ client'[c].cursor = k + 1 /\ client'[c].connection = "live"
        /\ wire'[c] = Span(k + 1, n - 1) /\ Version' = Version /\ Version \in Int
        /\ subscribed' = subscribed
    BY <1>1, <1>4, <1>5 DEF Version, eventVars
  <2>2. n - 1 \in Nat /\ k + 1 + (n - 1) = k + n /\ k + 1 <= Version
    <3>1. k \in Nat /\ n > 0 /\ k + n <= Version /\ Version \in Int
      BY <1>1, <1>2, <1>3, <2>1
    <3>2. QED
      BY <3>1
  <2>3. QED
    BY <1>2, <2>1, <2>2 DEF WireFollows
<1>8. QED
  BY <1>1, <1>4, <1>5, <1>6, <1>7, OtherTabs

\* What the timers and the projection reads do leaves cursor and wire alone.
LEMMA TabKeepsWires ==
    ASSUME StreamInv, NEW c \in Tabs,
           \/ ServeRead(c) \/ Connect(c) \/ TakeAnswer(c) \/ Discover(c) \/ ReadFails(c)
    PROVE  StreamInv'
<1>1. /\ client \in [Tabs -> Client] /\ client[c] \in Client /\ failures \in 0 .. MaxFailures
      /\ nextSeq \in Nat /\ lowWatermark \in Nat /\ LogIsInterval
  BY DEF StreamInv, StreamTypeOK
<1>2. Version \in Nat
  BY <1>1 DEF LogIsInterval, Version
<1>3. ASSUME NEW p \in Client, client' = [client EXCEPT ![c] = p],
             UNCHANGED <<eventVars, subscribed, wire>>, failures' \in 0 .. MaxFailures,
             p.cursor = client[c].cursor,
             (p.connection = "live") = (client[c].connection = "live")
      PROVE  StreamInv'
  BY <1>3, WireStays
<1>4. CASE ServeRead(c)
  <2> DEFINE p == [client[c] EXCEPT !.read = "answered", !.answer = Version]
  <2>1. p \in Client /\ p.cursor = client[c].cursor /\ p.connection = client[c].connection
    BY <1>1, <1>2 DEF Client, Reads
  <2>2. client' = [client EXCEPT ![c] = p]
    BY <1>1, <1>4 DEF ServeRead
  <2> HIDE DEF p
  <2>3. QED
    BY <1>1, <1>3, <1>4, <2>1, <2>2 DEF ServeRead
<1>5. CASE Connect(c)
  <2> DEFINE p == [client[c] EXCEPT !.connection = "requesting", !.recovery = TRUE]
  <2>1. p \in Client /\ p.cursor = client[c].cursor /\ p.connection = "requesting"
    BY <1>1 DEF Client, Connections
  <2>2. client' = [client EXCEPT ![c] = p]
    BY <1>1, <1>5 DEF Connect
  <2> HIDE DEF p
  <2>3. QED
    BY <1>1, <1>3, <1>5, <2>1, <2>2 DEF Connect
<1>6. CASE TakeAnswer(c)
  <2> DEFINE p == [client[c] EXCEPT
                     !.shown = client[c].answer,
                     !.connection = IF client[c].connection = "starting" THEN "off"
                                    ELSE client[c].connection]
  <2>1. /\ p \in Client /\ p.cursor = client[c].cursor
        /\ (p.connection = "live") = (client[c].connection = "live")
    BY <1>1 DEF Client, Connections
  <2>2. client' = [client EXCEPT ![c] = AfterLoad(p)]
    BY <1>1, <1>6 DEF TakeAnswer
  <2> HIDE DEF p
  <2>3. QED
    BY <1>1, <1>3, <1>6, <2>1, <2>2, ReadsStayWellFormed DEF TakeAnswer
<1>7. CASE Discover(c)
  <2>1. client' = [client EXCEPT ![c] = Loading(client[c])]
    BY <1>1, <1>7 DEF Discover
  <2>2. QED
    BY <1>1, <1>3, <1>7, <2>1, ReadsStayWellFormed DEF Discover
<1>8. CASE ReadFails(c)
  <2>1. client' = [client EXCEPT ![c] = AfterLoad(client[c])] /\ failures' \in 0 .. MaxFailures
    BY <1>1, <1>8, StreamAssumption DEF ReadFails
  <2>2. QED
    BY <1>1, <1>3, <1>8, <2>1, ReadsStayWellFormed DEF ReadFails
<1>9. QED
  BY <1>4, <1>5, <1>6, <1>7, <1>8

\* A refused client starts over, or not at all.
LEMMA RefusalKeepsWires ==
    ASSUME StreamInv, NEW c \in Tabs, ReadRefusal(c)
    PROVE  StreamInv'
<1>1. /\ client \in [Tabs -> Client] /\ client[c] \in Client /\ failures \in 0 .. MaxFailures
      /\ wire \in [Tabs -> Seq(Nat)] /\ subscribed \subseteq Tabs /\ nextSeq \in Nat
      /\ lowWatermark \in Nat /\ LogIsInterval /\ WireFollows(c)
      /\ client[c].connection = "refused"
      /\ UNCHANGED <<eventVars, subscribed, wire, failures>>
  BY DEF StreamInv, StreamTypeOK, ReadRefusal
<1>2. CASE client[c].recovery
  <2> DEFINE p == [Loading(client[c]) EXCEPT !.connection = "recovering", !.cursor = 0]
  <2>1. client' = [client EXCEPT ![c] = p]
    BY <1>1, <1>2 DEF ReadRefusal
  <2>2. p \in Client /\ p.cursor = 0 /\ p.connection = "recovering"
    BY <1>1, ReadsStayWellFormed DEF Client, Connections
  <2> HIDE DEF p
  <2>3. WireFollows(c)'
    <3>1. client'[c] = p /\ wire'[c] = <<>> /\ c \notin subscribed'
      BY <1>1, <2>1 DEF WireFollows
    <3>2. Version' \in Nat
      BY <1>1 DEF LogIsInterval, Version, eventVars
    <3>3. QED
      BY <2>2, <3>1, <3>2 DEF WireFollows
  <2>4. wire' = [wire EXCEPT ![c] = wire[c]] /\ wire[c] \in Seq(Nat)
    BY <1>1
  <2>5. QED
    BY <1>1, <2>1, <2>2, <2>3, <2>4, OtherTabs
<1>3. CASE ~client[c].recovery
  <2> DEFINE p == [client[c] EXCEPT !.connection = "blocked"]
  <2>1. client' = [client EXCEPT ![c] = p]
    BY <1>1, <1>3 DEF ReadRefusal
  <2>2. p \in Client /\ p.cursor = client[c].cursor /\ p.connection = "blocked"
    BY <1>1 DEF Client, Connections
  <2> HIDE DEF p
  <2>3. QED
    BY <1>1, <2>1, <2>2, WireStays
<1>4. QED
  BY <1>2, <1>3

\* A client that leaves keeps its cursor only.
LEMMA LeavingKeepsWires ==
    ASSUME StreamInv, NEW c \in Tabs, Disconnect(c) \/ Reselect(c)
    PROVE  StreamInv'
<1>1. /\ client \in [Tabs -> Client] /\ client[c] \in Client /\ failures \in 0 .. MaxFailures
  BY DEF StreamInv, StreamTypeOK
<1>2. CASE Disconnect(c)
  <2>1. /\ Dropped(c) \in Client /\ Dropped(c).cursor = client[c].cursor
        /\ Dropped(c).connection = "off"
    BY <1>1 DEF Dropped, Client, Connections
  <2>2. failures' \in 0 .. MaxFailures
    BY <1>1, <1>2, StreamAssumption DEF Disconnect
  <2>3. QED
    BY <1>2, <2>1, <2>2, WireCut DEF Disconnect
<1>3. CASE Reselect(c)
  <2> DEFINE p == [client[c] EXCEPT !.connection = "requesting", !.recovery = TRUE]
  <2>1. p \in Client /\ p.cursor = client[c].cursor /\ p.connection = "requesting"
    BY <1>1 DEF Client, Connections
  <2>2. failures' \in 0 .. MaxFailures
    BY <1>1, <1>3, StreamAssumption DEF Reselect
  <2>4. client' = [client EXCEPT ![c] = p]
    BY <1>1, <1>3 DEF Reselect
  <2> HIDE DEF p
  <2>3. QED
    BY <1>3, <2>1, <2>2, <2>4, WireCut DEF Reselect
<1>4. QED
  BY <1>2, <1>3

\* The invariant of the event stream.
LEMMA StreamIsInvariant == StreamSpec => []StreamInv
<1>1. StreamInit => StreamInv
  <2> SUFFICES ASSUME StreamInit
               PROVE  StreamInv
    OBVIOUS
  <2>1. NewClient \in Client /\ NewClient.cursor = 0 /\ NewClient.connection = "starting"
    BY DEF NewClient, Client, Connections, Reads
  <2>2. StreamTypeOK /\ LogIsInterval
    BY <2>1, StreamAssumption DEF StreamInit, StreamTypeOK, LogIsInterval
  <2>3. \A c \in Tabs : WireFollows(c)
    BY <2>1 DEF StreamInit, WireFollows, Version
  <2>4. QED
    BY <2>2, <2>3 DEF StreamInv
<1>2. StreamInv /\ [StreamNext]_streamVars => StreamInv'
  <2> SUFFICES ASSUME StreamInv, [StreamNext]_streamVars
               PROVE  StreamInv'
    OBVIOUS
  <2>1. CASE UNCHANGED streamVars
    <3>1. UNCHANGED <<nextSeq, lowWatermark, rows, subscribed, wire, client, failures>>
      BY <2>1 DEF streamVars
    <3>2. QED
      BY <3>1 DEF StreamInv, StreamTypeOK, LogIsInterval, WireFollows, Version
  <2>2. ASSUME NEW c \in Tabs, TabStep(c)
        PROVE  StreamInv'
    BY <2>2, TabKeepsWires, ReadKeepsWires, RefusalKeepsWires DEF TabStep
  <2>3. QED
    BY <2>1, <2>2, PublishKeepsWires, CrashKeepsWires, OpenKeepsWires, TabKeepsWires,
       LeavingKeepsWires DEF StreamNext
<1>3. QED
  BY <1>1, <1>2, PTL DEF StreamSpec

\* The log, the wires and the clients of the event stream stay well-formed.
THEOREM StreamTypeCorrect == StreamSpec => []StreamTypeOK
<1>1. StreamInv => StreamTypeOK
  BY DEF StreamInv
<1>2. QED
  BY <1>1, StreamIsInvariant, PTL

\* Replay and live delivery join without a gap, a repetition or a swap, for any number of
\* tabs and events and any number of rows kept: what a listening client has not read is
\* exactly what follows its cursor, up to the newest event.
THEOREM StreamsAreGapless == StreamSpec => []StreamIsGapless
<1>1. StreamInv => StreamIsGapless
  <2> SUFFICES ASSUME StreamInv, NEW c \in subscribed
               PROVE  /\ client[c].connection = "live"
                      /\ wire[c] = [i \in 1 .. Version - client[c].cursor |-> client[c].cursor + i]
    BY DEF StreamIsGapless
  <2>1. c \in Tabs /\ WireFollows(c) /\ client[c].cursor \in Nat /\ client[c].connection = "live"
    BY DEF StreamInv, StreamTypeOK, WireFollows, Client
  <2>2. PICK n \in Nat : wire[c] = Span(client[c].cursor, n) /\ client[c].cursor + n = Version
    BY <2>1 DEF WireFollows
  <2>3. Version - client[c].cursor = n
    BY <2>1, <2>2
  <2>4. QED
    BY <2>1, <2>2, <2>3 DEF Span
<1>2. QED
  BY <1>1, StreamIsInvariant, PTL

---------------------------------------------------------------------------
\* The election of the owner.

Published == {"serving", "stopping", "closed", "removing"}

LockHeld == \A c \in Clients : pc[c] \in Claiming => lock # None /\ lock.by = c
OneAlive == \A o, p \in Owners : Alive(o) /\ Alive(p) => o = p
LaterLeased == \A o \in Owners : owner[o] \in Published => lease = o
StartingHeld ==
    \A o \in Owners : owner[o] \in {"booting", "open"} =>
        \E c \in Clients : pc[c] \in {"wait", "blind", "reap"} /\ child[c] = o
SeenAlive ==
    \A c \in Clients : pc[c] = "reclassify" => \A o \in Owners : Alive(o) => seen[c] = o
SpawnAlone ==
    \A c \in Clients : pc[c] = "spawn" => \A o \in Owners : ~Alive(o)
ChildAlone ==
    \A c \in Clients : pc[c] \in Launching \ {"spawn"} =>
        \A o \in Owners : Alive(o) => o = child[c]

Unsplit ==
    /\ LockHeld /\ OneAlive /\ LaterLeased /\ StartingHeld
    /\ SeenAlive /\ SpawnAlone /\ ChildAlone

\* What holds whatever happens: the processes only go forward.
LeasePublished == lease # None => owner[lease] \in Published \cup {"gone"}
HandedOff ==
    \A c \in Clients : pc[c] \in {"health", "publish"} =>
        owner[child[c]] \in Published \cup {"gone"}
Reaped == \A c \in Clients : pc[c] \in {"clean", "remove"} => owner[child[c]] = "gone"

Progress == LeasePublished /\ HandedOff /\ Reaped

\* A claim is not mistaken for a missing lock.
LEMMA ClaimIsThere ==
    \A c \in Clients, n \in Nat, w \in BOOLEAN : [by |-> c, n |-> n, written |-> w] # None
<1> SUFFICES ASSUME NEW c \in Clients, NEW n \in Nat, NEW w \in BOOLEAN
             PROVE  [by |-> c, n |-> n, written |-> w] # None
  OBVIOUS
<1>1. [by |-> c, n |-> n, written |-> w] \in [by : Clients, n : Nat, written : BOOLEAN]
  OBVIOUS
<1>2. QED
  BY <1>1, ElectionAssumption DEF ElectionAssumption

\* Every step keeps the state well-formed.
LEMMA TypeStep ==
    ASSUME ElectionTypeOK, [ElectionNext]_electionVars
    PROVE  ElectionTypeOK'
<1> USE ElectionAssumption DEF ElectionTypeOK, Claim, OwnerStates, ClientStates, Launching, Alive, Healthy, Goto, Become
<1>1. CASE \E c \in Clients : Ensure(c)
  BY <1>1 DEF Ensure
<1>2. CASE \E c \in Clients : TimeOut(c)
  BY <1>2 DEF TimeOut
<1>3. CASE \E c \in Clients : ReadLease(c)
  BY <1>3 DEF ReadLease, Read
<1>4. CASE \E c \in Clients : ClassifyFirst(c)
  BY <1>4 DEF ClassifyFirst, Classify
<1>5. CASE \E c \in Clients : OpenLock(c)
  <2> PICK c \in Clients : OpenLock(c)
    BY <1>5
  <2>1. CASE lock = None /\ Goto(c, "write")
    <3>1. [by |-> c, n |-> claims[c] + 1, written |-> FALSE] \in Claim
      OBVIOUS
    <3>2. QED
      BY <2>1, <3>1 DEF OpenLock
  <2>2. CASE lock # None
    BY <2>2 DEF OpenLock
  <2>3. QED
    BY <2>1, <2>2 DEF OpenLock
<1>6. CASE \E c \in Clients : WriteLock(c)
  BY <1>6 DEF WriteLock
<1>7. CASE \E c \in Clients : RereadLease(c)
  BY <1>7 DEF RereadLease, Read
<1>8. CASE \E c \in Clients : Reclassify(c)
  BY <1>8 DEF Reclassify, Classify
<1>9. CASE \E c \in Clients : ReleaseLock(c)
  BY <1>9 DEF ReleaseLock, Robbed
<1>10. CASE \E c \in Clients : InspectLock(c)
  BY <1>10 DEF InspectLock, Dead
<1>11. CASE \E c \in Clients : CompareLock(c)
  BY <1>11 DEF CompareLock
<1>12. CASE \E c \in Clients : UnlinkLock(c)
  BY <1>12 DEF UnlinkLock, Robbed
<1>13. CASE \E c \in Clients : Spawn(c)
  BY <1>13 DEF Spawn
<1>14. CASE \E c \in Clients : SpawnFails(c)
  BY <1>14 DEF SpawnFails
<1>15. CASE \E c \in Clients : HandOff(c)
  BY <1>15 DEF HandOff
<1>16. CASE \E c \in Clients : GiveUp(c)
  BY <1>16 DEF GiveUp
<1>17. CASE \E c \in Clients : Reap(c)
  BY <1>17 DEF Reap
<1>18. CASE \E c \in Clients : CheckChildLease(c)
  BY <1>18 DEF CheckChildLease
<1>19. CASE \E c \in Clients : RemoveChildLease(c)
  BY <1>19 DEF RemoveChildLease
<1>20. CASE \E c \in Clients : CheckHealth(c)
  BY <1>20 DEF CheckHealth
<1>21. CASE \E c \in Clients : PublishAgain(c)
  BY <1>21 DEF PublishAgain
<1>22. CASE \E c \in Clients : ClientCrash(c)
  BY <1>22 DEF ClientCrash
<1>23. CASE \E o \in Owners : Boot(o)
  BY <1>23 DEF Boot
<1>24. CASE \E o \in Owners : PublishLease(o)
  BY <1>24 DEF PublishLease
<1>25. CASE \E o \in Owners : Watch(o)
  BY <1>25 DEF Watch
<1>26. CASE \E o \in Owners : Stop(o)
  BY <1>26 DEF Stop
<1>27. CASE \E o \in Owners : Close(o)
  BY <1>27 DEF Close
<1>28. CASE \E o \in Owners : CheckOwnLease(o)
  BY <1>28 DEF CheckOwnLease
<1>29. CASE \E o \in Owners : RemoveOwnLease(o)
  BY <1>29 DEF RemoveOwnLease
<1>30. CASE \E o \in Owners : OwnerCrash(o)
  BY <1>30 DEF OwnerCrash
<1>31. CASE UNCHANGED electionVars
  BY <1>31 DEF electionVars
<1>32. QED
  BY <1>1, <1>2, <1>3, <1>4, <1>5, <1>6, <1>7, <1>8, <1>9, <1>10, <1>11, <1>12, <1>13, <1>14, <1>15, <1>16, <1>17, <1>18, <1>19, <1>20, <1>21, <1>22, <1>23, <1>24, <1>25, <1>26, <1>27, <1>28, <1>29, <1>30, <1>31
     DEF ElectionNext, ClientStep, FindOwner, ClaimStep, Cleanup, Launch, OwnerStep

\* Every step keeps what the order of the steps alone implies.
LEMMA ProgressStep ==
    ASSUME ElectionTypeOK, Progress, [ElectionNext]_electionVars
    PROVE  Progress'
<1> USE ElectionAssumption DEF ElectionTypeOK, Progress, LeasePublished, HandedOff, Reaped, Published, OwnerStates, Launching, Alive, Healthy, Goto, Become
<1>1. CASE \E c \in Clients : Ensure(c)
  BY <1>1 DEF Ensure
<1>2. CASE \E c \in Clients : TimeOut(c)
  BY <1>2 DEF TimeOut
<1>3. CASE \E c \in Clients : ReadLease(c)
  BY <1>3 DEF ReadLease, Read
<1>4. CASE \E c \in Clients : ClassifyFirst(c)
  BY <1>4 DEF ClassifyFirst, Classify
<1>5. CASE \E c \in Clients : OpenLock(c)
  BY <1>5 DEF OpenLock
<1>6. CASE \E c \in Clients : WriteLock(c)
  BY <1>6 DEF WriteLock
<1>7. CASE \E c \in Clients : RereadLease(c)
  BY <1>7 DEF RereadLease, Read
<1>8. CASE \E c \in Clients : Reclassify(c)
  BY <1>8 DEF Reclassify, Classify
<1>9. CASE \E c \in Clients : ReleaseLock(c)
  BY <1>9 DEF ReleaseLock, Robbed
<1>10. CASE \E c \in Clients : InspectLock(c)
  BY <1>10 DEF InspectLock, Dead
<1>11. CASE \E c \in Clients : CompareLock(c)
  BY <1>11 DEF CompareLock
<1>12. CASE \E c \in Clients : UnlinkLock(c)
  BY <1>12 DEF UnlinkLock, Robbed
<1>13. CASE \E c \in Clients : Spawn(c)
  BY <1>13 DEF Spawn
<1>14. CASE \E c \in Clients : SpawnFails(c)
  BY <1>14 DEF SpawnFails
<1>15. CASE \E c \in Clients : HandOff(c)
  BY <1>15 DEF HandOff
<1>16. CASE \E c \in Clients : GiveUp(c)
  BY <1>16 DEF GiveUp
<1>17. CASE \E c \in Clients : Reap(c)
  BY <1>17 DEF Reap
<1>18. CASE \E c \in Clients : CheckChildLease(c)
  BY <1>18 DEF CheckChildLease
<1>19. CASE \E c \in Clients : RemoveChildLease(c)
  BY <1>19 DEF RemoveChildLease
<1>20. CASE \E c \in Clients : CheckHealth(c)
  BY <1>20 DEF CheckHealth
<1>21. CASE \E c \in Clients : PublishAgain(c)
  BY <1>21 DEF PublishAgain
<1>22. CASE \E c \in Clients : ClientCrash(c)
  BY <1>22 DEF ClientCrash
<1>23. CASE \E o \in Owners : Boot(o)
  BY <1>23 DEF Boot
<1>24. CASE \E o \in Owners : PublishLease(o)
  BY <1>24 DEF PublishLease
<1>25. CASE \E o \in Owners : Watch(o)
  BY <1>25 DEF Watch
<1>26. CASE \E o \in Owners : Stop(o)
  BY <1>26 DEF Stop
<1>27. CASE \E o \in Owners : Close(o)
  BY <1>27 DEF Close
<1>28. CASE \E o \in Owners : CheckOwnLease(o)
  BY <1>28 DEF CheckOwnLease
<1>29. CASE \E o \in Owners : RemoveOwnLease(o)
  BY <1>29 DEF RemoveOwnLease
<1>30. CASE \E o \in Owners : OwnerCrash(o)
  BY <1>30 DEF OwnerCrash
<1>31. CASE UNCHANGED electionVars
  BY <1>31 DEF electionVars
<1>32. QED
  BY <1>1, <1>2, <1>3, <1>4, <1>5, <1>6, <1>7, <1>8, <1>9, <1>10, <1>11, <1>12, <1>13, <1>14, <1>15, <1>16, <1>17, <1>18, <1>19, <1>20, <1>21, <1>22, <1>23, <1>24, <1>25, <1>26, <1>27, <1>28, <1>29, <1>30, <1>31
     DEF ElectionNext, ClientStep, FindOwner, ClaimStep, Cleanup, Launch, OwnerStep

\* The claim of a client that has created the lock, or written it, is there.
LEMMA ClaimMade ==
    ASSUME ElectionTypeOK, NEW c \in Clients, OpenLock(c), lock = None
    PROVE  lock' # None /\ lock'.by = c
<1> DEFINE new == [by |-> c, n |-> claims[c] + 1, written |-> FALSE]
<1>1. lock' = new
  BY DEF OpenLock
<1>2. claims[c] + 1 \in Nat
  BY DEF ElectionTypeOK
<1>3. new # None
  BY <1>2, ClaimIsThere, Zenon
<1>4. new.by = c
  OBVIOUS
<1>5. QED
  BY <1>1, <1>3, <1>4

LEMMA ClaimWritten ==
    ASSUME ElectionTypeOK, NEW c \in Clients, WriteLock(c), lock # None, lock.by = c
    PROVE  lock' # None /\ lock'.by = c
<1> DEFINE new == [by |-> c, n |-> lock.n, written |-> TRUE]
<1>1. lock' = new
  BY DEF WriteLock
<1>2. lock.n \in Nat
  BY DEF ElectionTypeOK, Claim
<1>3. new # None
  BY <1>2, ClaimIsThere, Zenon
<1>4. new.by = c
  OBVIOUS
<1>5. QED
  BY <1>1, <1>3, <1>4

\* Every step that does not split the ownership keeps it whole.
LEMMA UnsplitStep ==
    ASSUME ElectionTypeOK, ElectionTypeOK', Progress, causes = {} => Unsplit, causes' = {}, [ElectionNext]_electionVars
    PROVE  Unsplit'
<1> USE ElectionAssumption DEF ElectionTypeOK, Progress, LeasePublished, HandedOff, Reaped, Unsplit, LockHeld, OneAlive, LaterLeased, StartingHeld, SeenAlive, SpawnAlone, ChildAlone, Published, OwnerStates, Launching, Claiming, Claim, Alive, Healthy, Goto, Become
<1>1. CASE \E c \in Clients : Ensure(c)
  BY <1>1 DEF Ensure
<1>2. CASE \E c \in Clients : TimeOut(c)
  BY <1>2 DEF TimeOut
<1>3. CASE \E c \in Clients : ReadLease(c)
  BY <1>3 DEF ReadLease, Read
<1>4. CASE \E c \in Clients : ClassifyFirst(c)
  BY <1>4 DEF ClassifyFirst, Classify
<1>5. CASE \E c \in Clients : OpenLock(c)
  <2> PICK c \in Clients : OpenLock(c)
    BY <1>5
  <2> USE DEF OpenLock
  <2>1. CASE lock # None
    BY <2>1
  <2>2. CASE lock = None
    <3>1. \A d \in Clients : pc[d] \notin Claiming
      BY <2>2
    <3>2. lock' # None /\ lock'.by = c
      BY <2>2, ClaimMade
    <3>3. LockHeld'
      BY <2>2, <3>1, <3>2
    <3>4. QED
      BY <2>2, <3>1, <3>3
  <2>3. QED
    BY <2>1, <2>2
<1>6. CASE \E c \in Clients : WriteLock(c)
  <2> PICK c \in Clients : WriteLock(c)
    BY <1>6
  <2>1. lock # None /\ lock.by = c /\ \A d \in Clients : pc[d] \in Claiming => d = c
    BY DEF WriteLock
  <2>2. lock' # None /\ lock'.by = c
    BY <2>1, ClaimWritten
  <2> USE DEF WriteLock
  <2>3. LockHeld'
    BY <2>1, <2>2
  <2>4. QED
    BY <2>1, <2>3
<1>7. CASE \E c \in Clients : RereadLease(c)
  BY <1>7 DEF RereadLease, Read
<1>8. CASE \E c \in Clients : Reclassify(c)
  BY <1>8 DEF Reclassify, Classify
<1>9. CASE \E c \in Clients : ReleaseLock(c)
  BY <1>9 DEF ReleaseLock, Robbed
<1>10. CASE \E c \in Clients : InspectLock(c)
  BY <1>10 DEF InspectLock, Dead
<1>11. CASE \E c \in Clients : CompareLock(c)
  BY <1>11 DEF CompareLock
<1>12. CASE \E c \in Clients : UnlinkLock(c)
  <2> PICK c \in Clients : UnlinkLock(c)
    BY <1>12
  <2> USE DEF UnlinkLock, Robbed
  <2>1. causes = {} /\ ~Robbed(c)
    OBVIOUS
  <2>2. \A d \in Clients : pc[d] \notin Claiming
    BY <2>1
  <2>3. QED
    BY <2>1, <2>2
<1>13. CASE \E c \in Clients : Spawn(c)
  BY <1>13 DEF Spawn
<1>14. CASE \E c \in Clients : SpawnFails(c)
  BY <1>14 DEF SpawnFails
<1>15. CASE \E c \in Clients : HandOff(c)
  BY <1>15 DEF HandOff
<1>16. CASE \E c \in Clients : GiveUp(c)
  BY <1>16 DEF GiveUp
<1>17. CASE \E c \in Clients : Reap(c)
  BY <1>17 DEF Reap
<1>18. CASE \E c \in Clients : CheckChildLease(c)
  BY <1>18 DEF CheckChildLease
<1>19. CASE \E c \in Clients : RemoveChildLease(c)
  BY <1>19 DEF RemoveChildLease
<1>20. CASE \E c \in Clients : CheckHealth(c)
  BY <1>20 DEF CheckHealth
<1>21. CASE \E c \in Clients : PublishAgain(c)
  BY <1>21 DEF PublishAgain
<1>22. CASE \E c \in Clients : ClientCrash(c)
  <2> PICK c \in Clients : ClientCrash(c)
    BY <1>22
  <2> USE DEF ClientCrash
  <2>1. causes = {} /\ ~Alive(child[c])
    OBVIOUS
  <2>2. \A o \in Owners : owner[o] \in {"booting", "open"} => child[c] # o
    BY <2>1
  <2>3. QED
    BY <2>1, <2>2
<1>23. CASE \E o \in Owners : Boot(o)
  BY <1>23 DEF Boot
<1>24. CASE \E o \in Owners : PublishLease(o)
  BY <1>24 DEF PublishLease
<1>25. CASE \E o \in Owners : Watch(o)
  BY <1>25 DEF Watch
<1>26. CASE \E o \in Owners : Stop(o)
  BY <1>26 DEF Stop
<1>27. CASE \E o \in Owners : Close(o)
  BY <1>27 DEF Close
<1>28. CASE \E o \in Owners : CheckOwnLease(o)
  BY <1>28 DEF CheckOwnLease
<1>29. CASE \E o \in Owners : RemoveOwnLease(o)
  BY <1>29 DEF RemoveOwnLease
<1>30. CASE \E o \in Owners : OwnerCrash(o)
  BY <1>30 DEF OwnerCrash
<1>31. CASE UNCHANGED electionVars
  BY <1>31 DEF electionVars
<1>32. QED
  BY <1>1, <1>2, <1>3, <1>4, <1>5, <1>6, <1>7, <1>8, <1>9, <1>10, <1>11, <1>12, <1>13, <1>14, <1>15, <1>16, <1>17, <1>18, <1>19, <1>20, <1>21, <1>22, <1>23, <1>24, <1>25, <1>26, <1>27, <1>28, <1>29, <1>30, <1>31
     DEF ElectionNext, ClientStep, FindOwner, ClaimStep, Cleanup, Launch, OwnerStep


---------------------------------------------------------------------------
\* The election keeps well-formed state.
THEOREM ElectionTypeCorrect == ElectionSpec => []ElectionTypeOK
<1>1. ElectionInit => ElectionTypeOK
  <2> SUFFICES ASSUME ElectionInit PROVE ElectionTypeOK
    OBVIOUS
  <2>1. lock \in Claim \cup {None}
    <3>1. CASE lock \in [by : Crashed, n : {1}, written : {TRUE}]
      <4>1. Crashed \subseteq Clients
        BY ElectionAssumption DEF ElectionAssumption
      <4>2. PICK d \in Crashed : lock = [by |-> d, n |-> 1, written |-> TRUE]
        BY <3>1
      <4>3. QED
        BY <4>1, <4>2 DEF Claim
    <3>2. QED
      BY <3>1 DEF ElectionInit
  <2>2. QED
    BY <2>1, ElectionAssumption
       DEF ElectionInit, ElectionTypeOK, OwnerStates, ClientStates, Launching, ElectionAssumption
<1>2. QED
  BY <1>1, TypeStep, PTL DEF ElectionSpec

ElectionInv == Progress /\ (causes = {} => Unsplit)

\* The inductive invariant: the processes go forward, and an ownership that was not
\* split is whole.
THEOREM ElectionInvariant == ElectionSpec => []ElectionInv
<1>1. ElectionInit => ElectionInv
  BY ElectionAssumption
     DEF ElectionInit, ElectionInv, Progress, LeasePublished, HandedOff, Reaped, Unsplit,
         LockHeld, OneAlive, LaterLeased, StartingHeld, SeenAlive, SpawnAlone, ChildAlone,
         Published, Launching, Claiming, Alive
<1>2. ElectionTypeOK /\ ElectionTypeOK' /\ ElectionInv /\ [ElectionNext]_electionVars => ElectionInv'
  BY ProgressStep, UnsplitStep DEF ElectionInv
<1>3. QED
  BY <1>1, <1>2, ElectionTypeCorrect, PTL DEF ElectionSpec

\* "Simultaneous clients start exactly one runtime owner": two clients launch at once
\* only if a claim was taken from a live claimant, a launcher died over its child, or
\* a lease went unread.
THEOREM OneLauncherAtATime == ElectionSpec => []OneLauncher
<1>1. ElectionInv => OneLauncher
  BY DEF ElectionInv, Unsplit, LockHeld, OneLauncher, Claiming
<1>2. QED
  BY <1>1, ElectionInvariant, PTL

\* With the same exceptions two owners never have the ledger open at once.
THEOREM OneOwnerServes == ElectionSpec => []OneServing
<1>1. ElectionTypeOK /\ ElectionInv => OneServing
  BY ElectionAssumption
     DEF ElectionTypeOK, ElectionInv, Unsplit, OneAlive, OneServing, Serves, Alive, ElectionAssumption
<1>2. QED
  BY <1>1, ElectionInvariant, ElectionTypeCorrect, PTL

\* With the same exceptions the owner that serves is the one in the lease.
THEOREM ServingOwnerIsPublished == ElectionSpec => []ServingIsPublished
<1>1. ElectionInv => ServingIsPublished
  BY DEF ElectionInv, Unsplit, LaterLeased, Published, ServingIsPublished
<1>2. QED
  BY <1>1, ElectionInvariant, PTL
=============================================================================
