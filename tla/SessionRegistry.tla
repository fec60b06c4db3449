---------------------------- MODULE SessionRegistry ----------------------------
(***************************************************************************)
(* The engines that a runtime owner holds: LiveRuntimeEngineRegistry       *)
(* (runtime-engine-rpc.ts: create, releaseSession, disposeAll, teardowns), *)
(* the factory that startPersistentRuntimeOwner gives it (runtime-owner.ts)*)
(* and the control room's registry of the same sessions (persistent-       *)
(* runtime.ts, LiveRuntimeControlRegistry).                                *)
(*                                                                         *)
(* An engine is made by one call of create and named after it.  It is      *)
(* attached, and later torn down: shut down, its arbiter settled, disposed;*)
(* a teardown that takes too long goes on as an orphan, and while there is *)
(* one no session is admitted.                                             *)
(*                                                                         *)
(* Abstracted: of time, only whether a client's lease has run out; which   *)
(* of the idle engines is evicted or swept depends on the order of their   *)
(* accesses and is any here; a retry of create with the same key gets the  *)
(* same promise and changes nothing; what create answers and the inventory *)
(* for observability are left out.  Nobody in src/ attaches an engine      *)
(* beside create, so none is replaced; and the bound on idle sessions is,  *)
(* as the owner starts it, the bound on all of them.                       *)
(***************************************************************************)
EXTENDS Naturals, FiniteSets

CONSTANTS
    SessionIds,
    Creators,       \* calls of create, and the engines they make
    CreatedFor,     \* the session of each
    Releasers,      \* calls of releaseSession
    MaxSessions,    \* #maxTotalSessions
    MaxInvokes,     \* bound: calls of invoke
    NoEngine

ASSUME RegistryAssumption ==
    /\ CreatedFor \in [Creators -> SessionIds]
    /\ NoEngine \notin Creators /\ IsFiniteSet(Creators) /\ IsFiniteSet(SessionIds)
    /\ MaxSessions \in Nat \ {0} /\ MaxInvokes \in Nat

VARIABLES
    live,       \* #engines
    controls,   \* the control room's #controls
    reserved,   \* #sessionCapacityReservations
    pending,    \* #sessionCreations
    creation,   \* where each call of create is
    stage,      \* where each engine is
    leased,     \* engines whose clientLeaseUntil is ahead
    working,    \* engines with arbiter.isMutationActive
    unsettled,  \* engines that are being ended although their arbiter did not settle
    late,       \* engines whose teardown timed out
    teardownFailures,   \* #teardownFailures: the engines whose failure is recorded
    release,    \* where each call of releaseSession is
    disposal,   \* where disposeAll is
    complaints, \* its failures: what it will throw
    invokes,    \* calls of invoke so far
    told        \* history: engines whose failure a releaseSession was told

sessionVars == <<live, controls, reserved, pending, creation>>
engineVars == <<stage, leased, working, unsettled, late>>
callVars == <<release, disposal, complaints, told>>
registryVars == <<sessionVars, engineVars, teardownFailures, callVars, invokes>>

Stage == {"none", "made", "attached", "shutting", "disposing", "discarding", "ended", "failed",
          "leaked"}
Creation == {"new", "making", "binding", "discarding", "answered"}
Release == [pc : {"idle", "waiting", "released", "kept", "failed"}, of : Creators \cup {NoEngine}]
Disposal == {"open", "settling", "creations", "resettling", "clean", "unclean"}

RegistryInit ==
    /\ live = [s \in SessionIds |-> NoEngine] /\ controls = live /\ pending = live
    /\ reserved = {}
    /\ creation = [c \in Creators |-> "new"]
    /\ stage = [c \in Creators |-> "none"]
    /\ leased = {} /\ working = {} /\ unsettled = {} /\ late = {}
    /\ teardownFailures = {}
    /\ release = [r \in Releasers |-> [pc |-> "idle", of |-> NoEngine]]
    /\ disposal = "open" /\ complaints = {}
    /\ invokes = 0 /\ told = {}

Attached == {e \in Creators : stage[e] = "attached"}
Idling == Attached \ (leased \cup working)
Ending == {e \in Creators : stage[e] \in {"shutting", "disposing"}}
Teardowns == Ending \ late
Orphans == {e \in late : e \in Ending \/ stage[e] = "discarding"}
Disposed == disposal # "open"
Stopped == disposal \in {"clean", "unclean"}

---------------------------------------------------------------------------
\* #scheduleTeardown of every engine of `some`: gone from the table at once.
Retire(some) ==
    /\ live' = [s \in SessionIds |-> IF live[s] \in some THEN NoEngine ELSE live[s]]
    /\ stage' = [e \in Creators |-> IF e \in some THEN "shutting" ELSE stage[e]]
    /\ leased' = leased \ some

\* #newSessionAdmissionError, with the slots of `held` taken: idle engines are evicted while
\* there is no room.
RoomWithout(some, held) == Cardinality(Attached \ some) + Cardinality(held) < MaxSessions
Evicts(some, held) ==
    /\ some \subseteq Idling
    /\ RoomWithout(some, held) \/ some = Idling
    /\ \A e \in some : ~RoomWithout(some \ {e}, held)

\* Slip: create gives the reservation back itself, once the engine may be attached.
CreationEndsUnreserved(c) ==
    /\ creation' = [creation EXCEPT ![c] = "answered"]
    /\ reserved' = IF creation[c] = "binding" THEN reserved \ {CreatedFor[c]} ELSE reserved
    /\ pending' = [pending EXCEPT ![CreatedFor[c]] = IF @ = c THEN NoEngine ELSE @]

\* The `finally` of a creation.
CreationEnds(c) ==
    /\ creation' = [creation EXCEPT ![c] = "answered"]
    /\ reserved' = reserved \ {CreatedFor[c]}
    /\ pending' = [pending EXCEPT ![CreatedFor[c]] = IF @ = c THEN NoEngine ELSE @]

\* A slot is reserved, and the factory called.
StartCreation(c) ==
    /\ creation' = [creation EXCEPT ![c] = "making"]
    /\ reserved' = reserved \cup {CreatedFor[c]}
    /\ pending' = [pending EXCEPT ![CreatedFor[c]] = c]

\* create: refused once disposed, joins a creation under way, finds the session attached (by
\* another workspace, perhaps) or asks for a slot, which it gets unless an orphan is left or
\* there is no room.
Create(c) ==
    LET s == CreatedFor[c]
        known == Disposed \/ pending[s] # NoEngine \/ live[s] # NoEngine
        answered == /\ creation' = [creation EXCEPT ![c] = "answered"]
                    /\ UNCHANGED <<reserved, pending>>
    IN  /\ creation[c] = "new"
        /\ \/ /\ known \/ Orphans # {}
              /\ answered /\ UNCHANGED <<live, stage, leased>>
           \/ /\ ~known /\ Orphans = {}
              /\ \E some \in SUBSET Idling :
                    /\ Evicts(some, reserved)
                    /\ Retire(some)
                    /\ IF RoomWithout(some, reserved) THEN StartCreation(c) ELSE answered
        /\ UNCHANGED <<controls, working, unsettled, late, teardownFailures, callVars, invokes>>

\* The factory of the CLI has built the engine, or has failed and cleaned up after itself.
MakeEngine(c) ==
    /\ creation[c] = "making"
    /\ \/ /\ creation' = [creation EXCEPT ![c] = "binding"]
          /\ stage' = [stage EXCEPT ![c] = "made"]
          /\ UNCHANGED <<reserved, pending>>
       \/ CreationEnds(c) /\ UNCHANGED stage
    /\ UNCHANGED <<live, controls, leased, working, unsettled, late, teardownFailures,
                   callVars, invokes>>

\* The owner's factory could not read or seed the revision (its ledger is closed once
\* disposeAll has ended): nobody disposes the engine.
BindFails(c) ==
    /\ creation[c] = "binding"
    /\ CreationEnds(c)
    /\ stage' = [stage EXCEPT ![c] = "leaked"]
    /\ UNCHANGED <<live, controls, leased, working, unsettled, late, teardownFailures,
                   callVars, invokes>>

\* create attaches the engine: there is room, its slot having been kept for it.
Attach(c) ==
    LET s == CreatedFor[c]
    IN  /\ RoomWithout({}, reserved \ {s})
        /\ CreationEnds(c)
        /\ live' = [live EXCEPT ![s] = c]
        /\ controls' = [controls EXCEPT ![s] = c]
        /\ stage' = [stage EXCEPT ![c] = "attached"]

\* create disposes the engine again; the control room could reach it for a moment.
Discard(c) ==
    /\ creation' = [creation EXCEPT ![c] = "discarding"]
    /\ reserved' = IF Disposed THEN reserved ELSE reserved \ {CreatedFor[c]}
    /\ stage' = [stage EXCEPT ![c] = "discarding"]
    /\ controls' = [controls EXCEPT ![CreatedFor[c]] = NoEngine]
    /\ UNCHANGED <<live, pending>>

\* Slip: it is not asked again whether the registry was disposed meanwhile.
BindEngineAnyway(c) ==
    /\ creation[c] = "binding" /\ ~Stopped
    /\ Attach(c)
    /\ UNCHANGED <<leased, working, unsettled, late, teardownFailures, callVars, invokes>>

\* The engine is bound and the control room can reach it; then create attaches it, unless the
\* registry was disposed or an orphan has appeared.
BindEngine(c) ==
    /\ creation[c] = "binding" /\ ~Stopped
    /\ \/ ~Disposed /\ Orphans = {} /\ Attach(c)
       \/ (Disposed \/ Orphans # {}) /\ Discard(c)
    /\ UNCHANGED <<leased, working, unsettled, late, teardownFailures, callVars, invokes>>

---------------------------------------------------------------------------
\* The teardown of an engine.
FailureRecorded(e) == teardownFailures' = teardownFailures \cup {e}

\* Slip: the control room is detached by session, not by engine.
ShutDownSession(e) ==
    /\ stage[e] = "shutting"
    /\ stage' = [stage EXCEPT ![e] = "disposing"]
    /\ unsettled' = unsettled \cup ({e} \cap working)
    /\ controls' = [controls EXCEPT ![CreatedFor[e]] = NoEngine]
    /\ UNCHANGED <<live, reserved, pending, creation, leased, working, late,
                   teardownFailures, callVars, invokes>>

\* The engine has shut down and its arbiter has settled, or has been given up with its
\* mutation; the disposer begins, which detaches the control room first.
ShutDown(e) ==
    /\ stage[e] = "shutting"
    /\ stage' = [stage EXCEPT ![e] = "disposing"]
    /\ unsettled' = unsettled \cup ({e} \cap working)
    /\ controls' = [s \in SessionIds |-> IF controls[s] = e THEN NoEngine ELSE controls[s]]
    /\ UNCHANGED <<live, reserved, pending, creation, leased, working, late,
                   teardownFailures, callVars, invokes>>

\* A teardown ends, well or not; a failure is recorded unless the time was up.
Conclude(e, failed) ==
    /\ stage' = [stage EXCEPT ![e] = IF failed THEN "failed" ELSE "ended"]
    /\ unsettled' = unsettled \ {e} /\ late' = late \ {e}
    /\ IF failed /\ e \notin late THEN FailureRecorded(e) ELSE UNCHANGED teardownFailures

\* The disposer has returned, or something of the teardown has thrown.
DisposeEngine(e) ==
    /\ stage[e] = "disposing"
    /\ \E ok \in BOOLEAN : Conclude(e, ~ok \/ e \in unsettled)
    /\ UNCHANGED <<sessionVars, leased, working, callVars, invokes>>

\* Its time is up: #quarantineTeardown.
TeardownTimesOut(e) ==
    /\ e \in Teardowns
    /\ late' = late \cup {e}
    /\ FailureRecorded(e)
    /\ UNCHANGED <<sessionVars, stage, leased, working, unsettled, callVars, invokes>>

\* #disposeUnattached, of an engine that create could not attach.
DiscardEnds(e) ==
    /\ stage[e] = "discarding"
    /\ \E ok \in BOOLEAN : Conclude(e, ~ok)
    /\ IF e \in late THEN UNCHANGED <<creation, reserved, pending>> ELSE CreationEnds(e)
    /\ UNCHANGED <<live, controls, leased, working, callVars, invokes>>

DiscardTimesOut(e) ==
    /\ stage[e] = "discarding" /\ e \notin late
    /\ late' = late \cup {e}
    /\ FailureRecorded(e)
    /\ CreationEnds(e)
    /\ UNCHANGED <<live, controls, stage, leased, working, unsettled, callVars, invokes>>

---------------------------------------------------------------------------
\* Use of an engine.
\* invoke touches the session; its mutation is active until it ends.
InvokeEngine(e) ==
    /\ e \in Attached \ working
    /\ invokes < MaxInvokes /\ invokes' = invokes + 1
    /\ working' = working \cup {e} /\ leased' = leased \cup {e}
    /\ UNCHANGED <<sessionVars, stage, unsettled, late, teardownFailures, callVars>>

\* A control of the control room takes the same arbiter but touches nothing; it still
\* reaches an engine that is shutting down.
ControlEngine(e) ==
    /\ controls[CreatedFor[e]] = e /\ e \notin working
    /\ invokes < MaxInvokes /\ invokes' = invokes + 1
    /\ working' = working \cup {e}
    /\ UNCHANGED <<sessionVars, stage, leased, unsettled, late, teardownFailures, callVars>>

MutationEnds(e) ==
    /\ e \in working /\ working' = working \ {e}
    /\ UNCHANGED <<sessionVars, stage, leased, unsettled, late, teardownFailures, callVars,
                   invokes>>

\* read and attachSession.
TouchEngine(e) ==
    /\ e \in Attached \ leased /\ leased' = leased \cup {e}
    /\ UNCHANGED <<sessionVars, stage, working, unsettled, late, teardownFailures, callVars,
                   invokes>>

\* The lease of the client has run out.
LeaseEnds(e) ==
    /\ e \in leased /\ leased' = leased \ {e}
    /\ UNCHANGED <<sessionVars, stage, working, unsettled, late, teardownFailures, callVars,
                   invokes>>

\* The timer of #scheduleIdleSweep, which disposeAll clears, finds some that were not used for
\* as long as a lease.
IdleSweep ==
    /\ ~Disposed
    /\ \E some \in (SUBSET Idling) \ {{}} : Retire(some)
    /\ UNCHANGED <<controls, reserved, pending, creation, working, unsettled, late,
                   teardownFailures, callVars, invokes>>

---------------------------------------------------------------------------
\* releaseSession, up to settleTeardowns; a session that is at work, or gone, is kept as it is.
ReleaseSession(r, s) ==
    /\ release[r].pc = "idle"
    /\ IF live[s] = NoEngine \/ live[s] \in working
       THEN /\ release' = [release EXCEPT ![r].pc = "kept"]
            /\ leased' = leased \ {live[s]}
            /\ UNCHANGED <<live, stage>>
       ELSE /\ release' = [release EXCEPT ![r] = [pc |-> "waiting", of |-> live[s]]]
            /\ Retire({live[s]})
    /\ UNCHANGED <<controls, reserved, pending, creation, working, unsettled, late,
                   teardownFailures, disposal, complaints, told, invokes>>

\* settleTeardowns has found no teardown left: it takes every recorded failure, its own or not.
SettleRelease(r) ==
    LET clean == teardownFailures = {} /\ Orphans = {}
    IN  /\ release[r].pc = "waiting" /\ Teardowns = {}
        /\ release' = [release EXCEPT ![r].pc = IF clean THEN "released" ELSE "failed"]
        /\ teardownFailures' = {} /\ told' = told \cup teardownFailures
        /\ UNCHANGED <<sessionVars, engineVars, disposal, complaints, invokes>>

\* disposeAll, once: the owner stops.
DisposeAll ==
    /\ disposal = "open" /\ disposal' = "settling"
    /\ Retire(Attached)
    /\ UNCHANGED <<controls, reserved, pending, creation, working, unsettled, late,
                   teardownFailures, release, complaints, told, invokes>>

\* Its call of settleTeardowns; after the second one, or if nothing is being created, it
\* forgets what was, and throws what it has heard.
SettleDisposal ==
    /\ disposal \in {"settling", "resettling"} /\ Teardowns = {}
    /\ teardownFailures' = {}
    /\ complaints' = complaints \cup teardownFailures \cup Orphans
    /\ IF disposal = "settling" /\ \E s \in SessionIds : pending[s] # NoEngine
       THEN disposal' = "creations" /\ UNCHANGED <<reserved, pending>>
       ELSE /\ disposal' = IF complaints' = {} THEN "clean" ELSE "unclean"
            /\ reserved' = {} /\ pending' = [s \in SessionIds |-> NoEngine]
    /\ UNCHANGED <<live, controls, creation, engineVars, release, told, invokes>>

\* Slip: the stop waits for the creations under way without a limit.
CreationsAwaited ==
    /\ disposal = "creations" /\ disposal' = "resettling"
    /\ \A s \in SessionIds : pending[s] = NoEngine
    /\ UNCHANGED <<sessionVars, engineVars, teardownFailures, release, complaints, told, invokes>>

\* The creations under way have ended, or their time is up.
CreationsSettle ==
    /\ disposal = "creations" /\ disposal' = "resettling"
    /\ complaints' = complaints \cup {c \in Creators : pending[CreatedFor[c]] = c}
    /\ UNCHANGED <<sessionVars, engineVars, teardownFailures, release, told, invokes>>

---------------------------------------------------------------------------
EngineStep(e) ==
    \/ Create(e) \/ MakeEngine(e) \/ BindEngine(e) \/ BindFails(e)
    \/ ShutDown(e) \/ DisposeEngine(e) \/ TeardownTimesOut(e)
    \/ DiscardEnds(e) \/ DiscardTimesOut(e)
    \/ InvokeEngine(e) \/ ControlEngine(e) \/ MutationEnds(e) \/ TouchEngine(e) \/ LeaseEnds(e)

RegistryNext ==
    \/ \E e \in Creators : EngineStep(e)
    \/ \E r \in Releasers : SettleRelease(r) \/ \E s \in SessionIds : ReleaseSession(r, s)
    \/ IdleSweep \/ DisposeAll \/ SettleDisposal \/ CreationsSettle

RegistrySpec == RegistryInit /\ [][RegistryNext]_registryVars

\* Timers fire and continuations run.  No factory, engine or disposer has to return.
RegistryFairness ==
    /\ \A e \in Creators : WF_registryVars(TeardownTimesOut(e) \/ DiscardTimesOut(e))
    /\ \A r \in Releasers : WF_registryVars(SettleRelease(r))
    /\ WF_registryVars(SettleDisposal \/ CreationsSettle)

---------------------------------------------------------------------------
RegistryTypeOK ==
    /\ live \in [SessionIds -> Creators \cup {NoEngine}]
    /\ controls \in [SessionIds -> Creators \cup {NoEngine}]
    /\ pending \in [SessionIds -> Creators \cup {NoEngine}]
    /\ reserved \subseteq SessionIds
    /\ creation \in [Creators -> Creation]
    /\ stage \in [Creators -> Stage]
    /\ leased \subseteq Creators /\ working \subseteq Creators
    /\ unsettled \subseteq Creators /\ late \subseteq Creators
    /\ teardownFailures \subseteq Creators /\ complaints \subseteq Creators
    /\ told \subseteq Creators
    /\ release \in [Releasers -> Release]
    /\ disposal \in Disposal /\ invokes \in 0..MaxInvokes

\* The owner never holds more sessions than it may, those being created included, and a
\* slot is reserved exactly as long as a creation may use it: none leaks when a factory
\* fails or an engine has to be discarded, so the owner cannot starve itself.
CapacityIsKept ==
    /\ Cardinality(Attached) + Cardinality(reserved) <= MaxSessions
    /\ \A s \in reserved :
          pending[s] # NoEngine /\ creation[pending[s]] \in {"making", "binding", "discarding"}

\* The control room and the RPC reach the same engine of a session, although the old one
\* may still be shutting down while a new one is attached; and the control room never
\* reaches an engine that is gone.
ControlsReachLive ==
    \A s \in SessionIds :
        /\ live[s] # NoEngine => controls[s] = live[s]
        /\ controls[s] # NoEngine => stage[controls[s]] \in {"attached", "shutting"}

\* No teardown fails in silence.  An engine that ended cleanly has no mutation running; if
\* disposeAll reports a clean end, every engine ever made has ended cleanly, except one that
\* its factory leaked and those whose failure a release was told; if a release reports
\* success, so has its engine, or another release or disposeAll was told.
FailuresAreTold ==
    /\ \A e \in working : stage[e] # "ended"
    /\ disposal = "clean" =>
          \A e \in Creators : stage[e] \in {"none", "ended", "leaked"} \/ e \in told
    /\ \A r \in Releasers :
          LET e == release[r].of
          IN  release[r].pc = "released" => stage[e] = "ended" \/ e \in told \cup complaints

\* A release and a stop end, whatever the engines, their disposers and the factories do:
\* once begun, neither is under way for ever.
StopEnds ==
    []<>(/\ Disposed => Stopped
         /\ \A r \in Releasers : release[r].pc # "waiting")
=============================================================================
