----------------------------- MODULE CommandLog -----------------------------
(***************************************************************************)
(* What the runtime owner promises a client about its commands, without    *)
(* arbiters, lanes, generations or ledger rows.                            *)
(*                                                                         *)
(* A command (an idempotency key) takes effect at most once.  It may be    *)
(* begun and then never heard of again (its owner died); if it has an      *)
(* outcome that outcome is fixed.  A caller is told the outcome, or that   *)
(* none can be reported - never an outcome that is not the command's.      *)
(***************************************************************************)
EXTENDS Integers

CONSTANTS Keys, Callers, Outcomes, Unknown

VARIABLES
    effect,     \* of each command: <<"none">>, <<"begun">> or <<"done", outcome>>
    reply       \* to each caller: Unknown, <<"refused">> or <<command, outcome>>

logVars == <<effect, reply>>

LogInit ==
    /\ effect = [k \in Keys |-> <<"none">>]
    /\ reply = [c \in Callers |-> Unknown]

\* Callers C, none of which has a reply yet, are told a.
Tell(C, a) ==
    /\ \A c \in C : reply[c] = Unknown
    /\ reply' = [c \in Callers |-> IF c \in C THEN a ELSE reply[c]]

Begin(k) ==
    /\ effect[k] = <<"none">>
    /\ effect' = [effect EXCEPT ![k] = <<"begun">>]
    /\ UNCHANGED reply

\* The command ends with outcome o; those waiting for it hear of it.
End(k, o, C) ==
    /\ effect[k] = <<"begun">>
    /\ effect' = [effect EXCEPT ![k] = <<"done", o>>]
    /\ Tell(C, <<k, o>>)

Report(k, o, C) ==
    /\ effect[k] = <<"done", o>>
    /\ Tell(C, <<k, o>>)
    /\ UNCHANGED effect

Refuse(C) ==
    /\ Tell(C, <<"refused">>)
    /\ UNCHANGED effect

LogNext ==
    \/ \E k \in Keys : Begin(k)
    \/ \E k \in Keys, o \in Outcomes, C \in SUBSET Callers :
          End(k, o, C) \/ Report(k, o, C)
    \/ \E C \in SUBSET Callers : Refuse(C)

LogSpec == LogInit /\ [][LogNext]_logVars
=============================================================================
