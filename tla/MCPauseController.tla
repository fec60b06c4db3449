--------------------------- MODULE MCPauseController ---------------------------
(* Small instances of the pause controller for TLC.                        *)
EXTENDS PauseController

CONSTANTS main, side

MCFlows == {main, side}
=============================================================================
