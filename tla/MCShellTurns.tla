---------------------------- MODULE MCShellTurns ----------------------------
(***************************************************************************)
(* Small instances of how a turn of the Work Shell is paused and how it is *)
(* judged: the pause controller, and the quality loop, which share no      *)
(* state in the models.  A behaviour is one of `part`.                     *)
(***************************************************************************)
EXTENDS MCPauseController, MCQualityRun

VARIABLE part

shellVars == <<pauseVars, qualityVars, part>>

\* What stays at rest starts in one way only.
ShellInit ==
    /\ part \in {"pause", "quality"} /\ PauseInit /\ QualityInit
    /\ part = "pause" => intent = "direct"

ShellNext ==
    /\ UNCHANGED part
    /\ \/ part = "pause" /\ PauseNext /\ UNCHANGED qualityVars
       \/ part = "quality" /\ QualityNext /\ UNCHANGED pauseVars

\* Nothing has to happen in a pause controller at rest, so its fairness says nothing of a
\* quality loop; a quality loop at rest could go on.
ShellSpec ==
    /\ ShellInit /\ [][ShellNext]_shellVars
    /\ PauseFairness
    /\ WF_qualityVars(part = "quality" /\ Progress)
=============================================================================
