----------------------------- MODULE EventJournal -----------------------------
(***************************************************************************)
(* BoundedEventJournal (apps/unclecode-server/src/event-journal.ts): the   *)
(* process-local replay buffer behind the event streams of a server that   *)
(* has no ledger.  One ring is shared by all sessions; ids are global.     *)
(*                                                                         *)
(* Abstracted: payloads and timestamps (an event is its id and session),   *)
(* and eventsBySession, an index that always holds exactly the ring's      *)
(* events of each session.                                                 *)
(***************************************************************************)
EXTENDS Integers, SequencesExt

CONSTANTS
    Sessions,
    Capacity,   \* of the ring, and of the watermark table
    MaxId       \* bound: ids handed out

ASSUME JournalAssumption == Capacity \in Nat \ {0} /\ MaxId \in Nat

VARIABLES
    ring,       \* retained events, oldest first
    watermarks, \* last evicted event per session: the table, whose order is that of ids
    published   \* history: the session of every id ever published

journalVars == <<ring, watermarks, published>>

Event == [id : 1..MaxId, session : Sessions]

JournalInit == ring = <<>> /\ watermarks = {} /\ published = <<>>

NextId == Len(published) + 1

\* #replayWatermarks after `evicted` left the ring: delete, set, then trim.
Watermarked(evicted) ==
    LET table == {w \in watermarks : w.session # evicted.session} \cup {evicted}
    IN  IF Cardinality(table) <= Capacity THEN table
        ELSE table \ {CHOOSE w \in table : \A x \in table : w.id <= x.id}

Publish(s) ==
    LET item == [id |-> NextId, session |-> s]
    IN  /\ NextId <= MaxId
        /\ published' = Append(published, s)
        /\ \/ /\ Len(ring) < Capacity
              /\ ring' = Append(ring, item)
              /\ UNCHANGED watermarks
           \/ /\ Len(ring) = Capacity
              /\ ring' = Append(Tail(ring), item)
              /\ watermarks' = Watermarked(Head(ring))

JournalNext == \E s \in Sessions : Publish(s)

JournalSpec == JournalInit /\ [][JournalNext]_journalVars

(***************************************************************************)
(* replay()                                                                *)
(***************************************************************************)
Oldest == IF ring = <<>> THEN NextId ELSE Head(ring).id
Newest == IF ring = <<>> THEN 0 ELSE Last(ring).id

WatermarksOf(s) == {w.id : w \in {x \in watermarks : x.session = s}}

\* Slip: without a watermark every cursor is served.
ExpiredByWatermarkOnly(s, after) ==
    \/ after > Newest
    \/ after > 0 /\ \E w \in WatermarksOf(s) : after < w

Expired(s, after) ==
    \/ after > Newest
    \/ after > 0 /\ \E w \in WatermarksOf(s) : after < w
    \/ after > 0 /\ WatermarksOf(s) = {} /\ after < Oldest - 1

Replayed(s, after) == {e.id : e \in {x \in ToSet(ring) : x.session = s /\ x.id > after}}

(***************************************************************************)
(* Properties                                                              *)
(***************************************************************************)
Ids(s) == {i \in DOMAIN published : published[i] = s}

JournalTypeOK ==
    /\ ring \in Seq(Event)
    /\ watermarks \subseteq Event
    /\ published \in Seq(Sessions)
    /\ Len(ring) <= Capacity /\ Cardinality(watermarks) <= Capacity

\* A subscriber that resumes after an event it has seen is served everything
\* its session published since, or told that its cursor expired: it never
\* continues over a silent gap, also after its session's watermark was itself
\* dropped from the bounded table (replay).
ReplayIsComplete ==
    \A s \in Sessions : \A after \in Ids(s) :
        ~Expired(s, after) => Replayed(s, after) = {i \in Ids(s) : i > after}

=============================================================================
