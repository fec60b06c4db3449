---------------------------- MODULE MCOwnerServices ----------------------------
(***************************************************************************)
(* Small instances of two services of the runtime owner, which share no    *)
(* state: the event stream with its reader, and the registry of the        *)
(* engines of its sessions.  A behaviour is one of `part`.                 *)
(***************************************************************************)
EXTENDS EventStream, SessionRegistry

CONSTANTS t1, s1, s2, c1, c2, c3, r1

MCOneTab == {t1}
MCSessionIds == {s1, s2}
MCCreators == {c1, c2, c3}
MCCreatedFor == [c \in MCCreators |-> IF c = c3 THEN s2 ELSE s1]
MCReleasers == {r1}

VARIABLE part

serviceVars == <<streamVars, registryVars, part>>

ServicesInit == part \in {"stream", "registry"} /\ StreamInit /\ RegistryInit

ServicesNext ==
    /\ UNCHANGED part
    /\ \/ part = "stream" /\ StreamNext /\ UNCHANGED registryVars
       \/ part = "registry" /\ RegistryNext /\ UNCHANGED streamVars

\* No timer of an empty registry runs, so its fairness says nothing of a stream.
ServicesSpec ==
    /\ ServicesInit /\ [][ServicesNext]_serviceVars
    /\ part = "stream" => StreamFairness
    /\ RegistryFairness

\* The variables of the two services have their types.
ServicesTypeOK == StreamTypeOK /\ RegistryTypeOK
=============================================================================
