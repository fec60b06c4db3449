----------------------------- MODULE MCFollowUpQueue -----------------------------
(* Small instances of the follow-up queue for TLC.                         *)
EXTENDS FollowUpQueue

CONSTANTS s1, s2, s3, r1, e1

MCSubmits == {s1, s2, s3}

\* Three submits and one event, or two submits, a resume, an edit and two events.
MCMixedCasts == {[calls |-> {s1, s2, s3}, events |-> 1],
                 [calls |-> {s1, s2, r1, e1}, events |-> 2]}
\* Two submits, and nothing else.
MCQuietCast == {[calls |-> {s1, s2}, events |-> 0]}
=============================================================================
