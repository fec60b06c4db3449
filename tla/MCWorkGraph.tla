------------------------------ MODULE MCWorkGraph ------------------------------
(* A small plan for TLC: two tasks that write one file, a third beside them *)
(* that shares the direct agent with the first, and one that needs two of   *)
(* them; an earlier run that may be continued meanwhile.                    *)
EXTENDS WorkGraph

CONSTANTS a, b, c, d, again, file, other

MCPlan == <<a, b, c, d>>
MCDependsOn == [t \in {a, b, c, d} |-> IF t = d THEN {a, b} ELSE {}]
MCWritePaths ==
    [t \in {a, b, c, d} |->
        IF t = a THEN {file} ELSE IF t = b THEN {file, other} ELSE {}]
MCPaths == {file, other}
MCContinuations == {again}
MCDirect == {a, c}
=============================================================================
