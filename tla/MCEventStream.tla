----------------------------- MODULE MCEventStream -----------------------------
(* A small instance of the event stream for TLC.                           *)
EXTENDS EventStream

CONSTANT t1

MCOneTab == {t1}
=============================================================================
