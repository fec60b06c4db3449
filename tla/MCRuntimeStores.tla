--------------------------- MODULE MCRuntimeStores ---------------------------
(***************************************************************************)
(* Small instances of what UncleCode records, most of it on disk and by    *)
(* several processes: the receipt table, the in-memory journal, an         *)
(* evolution run and its lifecycle lock, and a team run with its log.      *)
(* They share no state; a behaviour is one of `part`.                      *)
(***************************************************************************)
EXTENDS RuntimeLedger, EventJournal, LifecycleLock, CreatorEvolution, TeamRun

CONSTANTS k1, k2, fp1, fp2, res1, res2, s1, s2, s3, p1, p2, p3, b1, b2, w1, w2

MCKeys == {k1, k2}
MCFingerprints == {fp1, fp2}
MCResults == {res1, res2}
MCSessions == {s1, s2, s3}
MCCallers == {p1, p2, p3}
MCProcesses == {p1, p2}
MCBases == {b1, b2}
MCWorkers == {w1, w2}
MCWriters == {w1, w2, Launcher, Coordinator, Aborter}
MCUnlucky == {Coordinator}
\* The workers are alike: either may be the first to write, and neither fails to.
MCSymmetry == Permutations(MCWorkers)

VARIABLE part

storeVars == <<ledgerVars, journalVars, lockVars, evolutionVars, teamVars, part>>

StoresInit ==
    /\ part \in {"ledger", "journal", "lock", "evolution", "team"}
    /\ LedgerInit /\ JournalInit /\ LockInit /\ EvolutionInit /\ TeamInit

StoresNext ==
    /\ UNCHANGED part
    /\ part # "ledger" => UNCHANGED ledgerVars
    /\ part # "journal" => UNCHANGED journalVars
    /\ part # "lock" => UNCHANGED lockVars
    /\ part # "evolution" => UNCHANGED evolutionVars
    /\ part # "team" => UNCHANGED teamVars
    /\ \/ part = "ledger" /\ LedgerNext
       \/ part = "journal" /\ JournalNext
       \/ part = "lock" /\ LockNext
       \/ part = "evolution" /\ EvolutionNext
       \/ part = "team" /\ TeamNext

StoresSpec == StoresInit /\ [][StoresNext]_storeVars
=============================================================================
