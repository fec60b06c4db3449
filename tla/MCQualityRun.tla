----------------------------- MODULE MCQualityRun -----------------------------
(* A small plan of the quality runtime for TLC.                            *)
EXTENDS QualityRun

CONSTANTS a, b, c, x, stray

MCNodes == {a, b, c}
\* c goes on with what a makes, in the same file; b only reads; one path is nobody's.  So a
\* refinement of a or of c covers all that the plan owns, one of b alone does not.
MCDeps == [n \in MCNodes |-> IF n = c THEN {a} ELSE {}]
MCOwns == [n \in MCNodes |-> IF n = b THEN {} ELSE {x}]
MCPaths == {x, stray}
MCPlans == {{a}, {a, b, c}}
MCLimit == [refine |-> 1, pivot |-> 1]
=============================================================================
