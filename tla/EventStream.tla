----------------------------- MODULE EventStream ------------------------------
(***************************************************************************)
(* The durable event stream of one session, end to end:                    *)
(*                                                                         *)
(*   appendRuntimeEvent, replayRuntimeEvents      runtime-ledger.ts        *)
(*   LedgerBackedEventJournal                     event-journal.ts         *)
(*   openEventStream                              index.ts                 *)
(*   createControlRoomStore: connect and load     control-room-store.js    *)
(*                                                                         *)
(* The owner publishes events, which the ledger numbers and prunes; each   *)
(* open stream is a FIFO to one client (a browser tab), lost as a whole    *)
(* when it breaks.  A client resumes after the last id it read, and every  *)
(* event makes it read the session's projection again.  Reads coalesce: a  *)
(* second one joins the one in flight, whatever that one is going to say.  *)
(*                                                                         *)
(* Opening a stream (subscribe, replay, flush) and publishing (append,     *)
(* fan-out) are synchronous in the owner, so each is one action.  The      *)
(* projection is abstracted to how many events it reflects; credentials    *)
(* and the selection of sessions other than this one are left out.         *)
(***************************************************************************)
EXTENDS Integers, Sequences, FiniteSets

CONSTANTS
    Tabs,
    MaxEventsPerSession,    \* rows the ledger keeps (1,000 in the code)
    MaxPublished,           \* bound: events published
    MaxFailures             \* bound: broken connections, failed reads and crashes

ASSUME StreamAssumption ==
    /\ IsFiniteSet(Tabs)
    /\ MaxEventsPerSession \in Nat \ {0}
    /\ MaxPublished \in Nat
    /\ MaxFailures \in Nat

VARIABLES
    nextSeq, lowWatermark, rows,    \* the ledger: runtime_sessions, runtime_events
    subscribed,                     \* clients with a listener in the owner
    wire,                           \* ids written to a client and not yet read
    client,                         \* the store of each client
    failures

streamVars == <<nextSeq, lowWatermark, rows, subscribed, wire, client, failures>>
eventVars == <<nextSeq, lowWatermark, rows>>

\* "off": a reconnect timer or the discovery timer will call connect();
\* "refused": the 409 has not been read; "recovering": it awaits load().
\* "starting": no projection has been read yet, so no session is known.
Connections == {"starting", "off", "requesting", "refused", "live", "recovering", "blocked"}

\* A projection read: none, on its way, or answered with a version.
Reads == {"none", "asked", "answered"}

Client == [connection : Connections, recovery : BOOLEAN, cursor : Nat,
           read : Reads, answer : Nat, shown : Nat]

NewClient == [connection |-> "starting", recovery |-> TRUE, cursor |-> 0,
              read |-> "asked", answer |-> 0, shown |-> 0]

StreamInit ==
    /\ nextSeq = 1 /\ lowWatermark = 1 /\ rows = {}
    /\ subscribed = {}
    /\ wire = [c \in Tabs |-> <<>>]
    /\ client = [c \in Tabs |-> NewClient]
    /\ failures = 0

Version == nextSeq - 1

(***************************************************************************)
(* The owner.                                                              *)
(***************************************************************************)
Later(a, b) == IF a < b THEN b ELSE a

\* appendRuntimeEvent: one transaction
Append1 ==
    /\ nextSeq <= MaxPublished
    /\ nextSeq' = nextSeq + 1
    /\ lowWatermark' = Later(lowWatermark, nextSeq + 1 - MaxEventsPerSession)
    /\ rows' = {q \in rows \cup {nextSeq} : q >= lowWatermark'}

\* publish, and fan-out to every listener.  A socket that cannot take more is
\* given the event, then its listener is dropped and it is destroyed.
PublishEvent(stalled) ==
    /\ Append1
    /\ stalled \subseteq subscribed
    /\ failures + Cardinality(stalled) <= MaxFailures
    /\ failures' = failures + Cardinality(stalled)
    /\ wire' = [c \in Tabs |->
                  IF c \in subscribed THEN Append(wire[c], nextSeq) ELSE wire[c]]
    /\ subscribed' = subscribed \ stalled
    /\ UNCHANGED client

Dropped(c) == [client[c] EXCEPT !.connection = "off"]
Streaming == {"requesting", "refused", "live"}

\* The owner process dies, perhaps right after an event became durable, and a
\* new one opens the ledger.  Every connection and projection read fails.
Crash ==
    /\ failures < MaxFailures
    /\ failures' = failures + 1
    /\ Append1 \/ UNCHANGED eventVars
    /\ subscribed' = {}
    /\ wire' = [c \in Tabs |-> <<>>]
    /\ client' = [c \in Tabs |->
                    [client[c] EXCEPT
                       !.connection = IF client[c].connection \in Streaming THEN "off"
                                      ELSE IF client[c].connection = "recovering"
                                      THEN "requesting" ELSE client[c].connection,
                       !.recovery = client[c].recovery /\ client[c].connection # "recovering",
                       !.read = "none"]]

\* replayRuntimeEvents
Unreplayable(after) == after < lowWatermark - 1 \/ after > nextSeq - 1

\* ORDER BY sequence: the i-th row has i rows up to and with it
InOrder(due) ==
    [i \in 1 .. Cardinality(due) |-> CHOOSE q \in due : Cardinality({r \in due : r <= q}) = i]

\* Slip: the replay starts at the cursor, not after it.
ReplayFrom(after) == InOrder({q \in rows : q >= after})

Replay(after) == InOrder({q \in rows : q > after})

\* openEventStream with the client's Last-Event-ID
OpenStream(c) ==
    /\ client[c].connection = "requesting"
    /\ IF Unreplayable(client[c].cursor)
       THEN /\ client' = [client EXCEPT ![c].connection = "refused"]
            /\ UNCHANGED <<subscribed, wire>>
       ELSE /\ client' = [client EXCEPT ![c].connection = "live"]
            /\ subscribed' = subscribed \cup {c}
            /\ wire' = [wire EXCEPT ![c] = Replay(client[c].cursor)]
    /\ UNCHANGED <<eventVars, failures>>

\* GET /control-room
ServeRead(c) ==
    /\ client[c].read = "asked"
    /\ client' = [client EXCEPT ![c].read = "answered", ![c].answer = Version]
    /\ UNCHANGED <<eventVars, subscribed, wire, failures>>

(***************************************************************************)
(* The client.                                                             *)
(***************************************************************************)
\* load() joins the read in flight or starts one
Loading(p) == [p EXCEPT !.read = IF @ = "none" THEN "asked" ELSE @]

\* connect(false) once the awaited load() is done, else what was there
AfterLoad(p) ==
    IF p.connection = "recovering"
    THEN [p EXCEPT !.read = "none", !.connection = "requesting", !.recovery = FALSE]
    ELSE [p EXCEPT !.read = "none"]

\* connect(), from the reconnect timer or from discovery: a blocked or busy
\* connection is left alone.
Connect(c) ==
    /\ client[c].connection = "off"
    /\ client' = [client EXCEPT ![c].connection = "requesting", ![c].recovery = TRUE]
    /\ UNCHANGED <<eventVars, subscribed, wire, failures>>

\* A frame is read.  An id at or below the cursor is skipped.
ReadEvent(c) ==
    /\ client[c].connection = "live"
    /\ wire[c] # <<>>
    /\ wire' = [wire EXCEPT ![c] = Tail(@)]
    /\ client' = IF Head(wire[c]) <= client[c].cursor
                 THEN client
                 ELSE [client EXCEPT ![c] = [Loading(client[c]) EXCEPT !.cursor = Head(wire[c])]]
    /\ UNCHANGED <<eventVars, subscribed, failures>>

\* 409: the cursor is forgotten and the projection read again, once.
ReadRefusal(c) ==
    /\ client[c].connection = "refused"
    /\ client' = [client EXCEPT ![c] =
           IF client[c].recovery
           THEN [Loading(client[c]) EXCEPT !.connection = "recovering", !.cursor = 0]
           ELSE [client[c] EXCEPT !.connection = "blocked"]]
    /\ UNCHANGED <<eventVars, subscribed, wire, failures>>

\* The connection breaks, or the owner destroyed a stalled one.
Disconnect(c) ==
    /\ client[c].connection \in Streaming
    /\ IF client[c].connection = "live" /\ c \notin subscribed
       THEN UNCHANGED failures
       ELSE failures < MaxFailures /\ failures' = failures + 1
    /\ client' = [client EXCEPT ![c] = Dropped(c)]
    /\ subscribed' = subscribed \ {c}
    /\ wire' = [wire EXCEPT ![c] = <<>>]
    /\ UNCHANGED eventVars

\* Slip: discovery reads the projection only while there is no stream.
DiscoverOffline(c) ==
    /\ client[c].read = "none"
    /\ client[c].connection # "live"
    /\ client' = [client EXCEPT ![c] = Loading(@)]
    /\ UNCHANGED <<eventVars, subscribed, wire, failures>>

\* the discovery timer: load() again, whatever the stream says
Discover(c) ==
    /\ client[c].read = "none"
    /\ client' = [client EXCEPT ![c] = Loading(@)]
    /\ UNCHANGED <<eventVars, subscribed, wire, failures>>

TakeAnswer(c) ==
    /\ client[c].read = "answered"
    /\ LET p == client[c]
       IN  client' = [client EXCEPT ![c] = AfterLoad([p EXCEPT
              !.shown = p.answer,
              !.connection = IF p.connection = "starting" THEN "off" ELSE p.connection])]
    /\ UNCHANGED <<eventVars, subscribed, wire, failures>>

\* The read fails or times out; what was shown stays.
ReadFails(c) ==
    /\ client[c].read # "none"
    /\ failures < MaxFailures
    /\ failures' = failures + 1
    /\ client' = [client EXCEPT ![c] = AfterLoad(@)]
    /\ UNCHANGED <<eventVars, subscribed, wire>>

\* The user selects another session and comes back.
Reselect(c) ==
    /\ failures < MaxFailures
    /\ failures' = failures + 1
    /\ client[c].connection \notin {"starting", "off"}
    /\ client' = [client EXCEPT ![c].connection = "requesting", ![c].recovery = TRUE]
    /\ subscribed' = subscribed \ {c}
    /\ wire' = [wire EXCEPT ![c] = <<>>]
    /\ UNCHANGED eventVars

TabStep(c) ==
    \/ Connect(c) \/ ReadEvent(c) \/ ReadRefusal(c) \/ TakeAnswer(c) \/ Discover(c)

StreamNext ==
    \/ \E stalled \in SUBSET Tabs : PublishEvent(stalled)
    \/ Crash
    \/ \E c \in Tabs :
          \/ OpenStream(c) \/ ServeRead(c)
          \/ TabStep(c)
          \/ Disconnect(c) \/ ReadFails(c) \/ Reselect(c)

StreamSpec == StreamInit /\ [][StreamNext]_streamVars

\* The owner serves what it is asked and the client's timers fire.
StreamFairness ==
    \A c \in Tabs :
        /\ WF_streamVars(OpenStream(c)) /\ WF_streamVars(ServeRead(c))
        /\ WF_streamVars(Connect(c)) /\ WF_streamVars(ReadEvent(c))
        /\ WF_streamVars(ReadRefusal(c)) /\ WF_streamVars(TakeAnswer(c))
        /\ WF_streamVars(Discover(c))

(***************************************************************************)
(* Properties                                                              *)
(***************************************************************************)
StreamTypeOK ==
    /\ nextSeq \in Nat /\ lowWatermark \in Nat
    /\ rows = lowWatermark .. nextSeq - 1
    /\ subscribed \subseteq Tabs
    /\ wire \in [Tabs -> Seq(Nat)]
    /\ client \in [Tabs -> Client]
    /\ failures \in 0 .. MaxFailures

\* What lies between a listening client's cursor and the newest event is on its
\* wire, whole, in order and once: replay and live delivery join without a gap,
\* across reconnects, pruning and owner crashes (subscribeAfter, openEventStream).
StreamIsGapless ==
    \A c \in subscribed :
        /\ client[c].connection = "live"
        /\ wire[c] = [i \in 1 .. Version - client[c].cursor |-> client[c].cursor + i]

\* What the user sees catches up with the last event although an event that
\* arrives during a projection read is answered by that older read, and although
\* the stream may be blocked for good (queueRefresh, load, scheduleDiscovery).
ViewCatchesUp == \A c \in Tabs : []<>(client[c].shown >= Version)

\* "web store performs one authoritative recovery for an expired cursor"
\* (tests/unclecode-server/web-store.test.mjs): it recovers.
RecoveryReopens == \A c \in Tabs : client[c].connection # "blocked"
=============================================================================
