-------------------------- MODULE FollowUpQueueProofs --------------------------
(***************************************************************************)
(* The follow-up queue for any number of submits, resumes, edits, drains   *)
(* in one another, failures and restarts: no accepted follow-up is lost,   *)
(* an item in flight has one holder, and no follow-up is run twice.        *)
(*                                                                         *)
(* The inductive invariant has four parts.  A claim and the item with its  *)
(* id have the same text, and the text of a claim that is settled (its     *)
(* turn has begun, or a drain below it runs) is gone or is in an item that *)
(* no settled claim names, so that acknowledging one loses nothing         *)
(* (KeptInv); a claimed item has one holder and a claim its item           *)
(* (HolderInv); what a disposed engine still has under way holds nothing   *)
(* (ClosedInv); and a follow-up is in one place only, with a call that may *)
(* still run it or as one pending item, and in none when its turn has      *)
(* completed, unless a drain put it back when it was used (PlacesInv),     *)
(* since what a call has not yet queued is not in the file (BareInv).      *)
(*                                                                         *)
(* The steps are grouped by what they do to calls and to the file: those   *)
(* that only move a call (Moves), a claim (CallClaims), a settlement       *)
(* (CallPops, QueuePops), a push (CallPushes), an edit (CallEdits), a step *)
(* of the shell alone (OnlyShell) and a restart (Resumed); StepKinds says  *)
(* that there are no others.                                               *)
(***************************************************************************)
EXTENDS FollowUpQueue, SequenceTheorems, FiniteSetTheorems, WellFoundedInduction, TLAPS

Fate == [accepted : SUBSET Submits, begun : SUBSET Submits, completed : SUBSET Submits,
         dropped : SUBSET Submits, diverted : SUBSET Submits, returned : SUBSET Submits,
         meddled : BOOLEAN, reused : BOOLEAN]

Awaited(c) == c.pc \in {"load", "store"}

\* What the label of a call says of its claims.
CallOK(f, c) ==
    /\ c.pc \in {"new", "admitted", "done", "gone"} => c.held = <<>>
    /\ c.pc \in {"restore", "quarantine", "acking", "nacking", "returning", "failing"}
           => c.held # <<>>
    /\ Awaited(c) => /\ c.then # "none"
                     /\ c.then = "restore" => c.held # <<>>
                     /\ c.then \in {"cleared", "done"} => c.held = <<>>
    /\ c.pc \in {"pushing", "turn"} /\ c.held = <<>> => f \in Submits
    /\ f \in Edits => c.held = <<>> /\ c.pc \in {"new", "load", "store", "done", "gone"}
                      /\ (Awaited(c) => c.then \in {"cleared", "done"})

DistinctIds(q) == \A i, j \in DOMAIN q : q[i].id = q[j].id => i = j

QueueOK ==
    /\ QueueTypeOK
    /\ fate \in Fate
    /\ \A f \in Calls : CallOK(f, call[f])
    /\ DistinctIds(queue)

\* A call that answers for a text: it may still run or queue it.
Bears(f, c) ==
    \/ c.pc \in {"pushing", "turn", "restore"}
    \/ Awaited(c) /\ c.then = "restore"
    \/ f \in Submits /\ c.pc \in {"new", "admitted"}

\* The last claim of a call is open until its turn begins or another item has its text.
Open(c) ==
    \/ c.pc \in {"pushing", "restore", "quarantine", "returning", "failing", "nacking"}
    \/ Awaited(c) /\ c.then = "restore"

Spent(c, k) == k < Len(c.held) \/ ~Open(c)

Gone == fate.begun \cup fate.dropped \cup fate.diverted

SpentIds == UNION {{call[f].held[k].id : k \in {j \in DOMAIN call[f].held : Spent(call[f], j)}}
                    : f \in Calls}

Safe(t) == t \in Gone \/ \E i \in DOMAIN queue : queue[i].text = t /\ queue[i].id \notin SpentIds

Matching ==
    \A f \in Calls : \A k \in DOMAIN call[f].held : \A i \in DOMAIN queue :
        call[f].held[k].id = queue[i].id => call[f].held[k].text = queue[i].text
SpentSafe ==
    \A f \in Calls : \A k \in DOMAIN call[f].held :
        Spent(call[f], k) => Safe(call[f].held[k].text)
Kept == fate.accepted \subseteq Texts \cup Gone

KeptInv == ~fate.reused => Matching /\ SpentSafe /\ Kept

\* Who has what.
HoldsClaimed ==
    \A f \in Calls : \A k \in DOMAIN call[f].held :
        \E i \in Claimed : queue[i].id = call[f].held[k].id
HeldOnce ==
    \A f, g \in Calls : \A k \in DOMAIN call[f].held, j \in DOMAIN call[g].held :
        call[f].held[k].id = call[g].held[j].id => f = g /\ k = j
ClaimsHeld == \A i \in Claimed : Holders(i) # {}

HolderInv ==
    /\ ClaimsHeld
    /\ ~fate.meddled => ~fate.reused /\ HoldsClaimed /\ HeldOnce

Ashore == {"new", "admitted", "pushing", "pushed", "done", "gone"}

ClosedInv ==
    shell.phase = "closed" =>
        \A f \in Submits : /\ call[f].held = <<>>
                           /\ call[f].pc \in Ashore

\* A text has one place, and none when its turn has completed.
Pending == WithStatus("pending")
OnePlace(t) ==
    /\ \A f, g \in Calls : Bears(f, call[f]) /\ TextOf(f) = t /\ Bears(g, call[g]) /\ TextOf(g) = t
                               => f = g
    /\ \A i, j \in Pending : queue[i].text = t /\ queue[j].text = t => i = j
    /\ \A f \in Calls : Bears(f, call[f]) /\ TextOf(f) = t =>
           t \notin fate.completed /\ \A i \in Pending : queue[i].text # t
    /\ t \in fate.completed => \A i \in Pending : queue[i].text # t

PlacesInv == ~fate.meddled => \A t \in Submits \ fate.returned : OnePlace(t)

\* A submit that has not been queued is not in the file.
BareInv ==
    ~fate.meddled =>
        \A f \in Submits : call[f].held = <<>> /\ Bears(f, call[f]) => f \notin Texts

Claim == [id : Nat \ {0}, text : Submits]

---------------------------------------------------------------------------
\* Claims and items.

\* The last claim, and the claims without it.
LEMMA Popping ==
    ASSUME NEW held \in Seq(Claim), held # <<>>
    PROVE  /\ Len(held) \in Nat \ {0}
           /\ Last(held) \in Claim /\ Last(held) = held[Len(held)]
           /\ Front(held) \in Seq(Claim) /\ Len(Front(held)) = Len(held) - 1
           /\ DOMAIN Front(held) = 1..(Len(held) - 1)
           /\ \A k \in DOMAIN Front(held) : Front(held)[k] = held[k]
<1>1. Len(held) \in Nat \ {0} /\ DOMAIN held = 1..Len(held)
  BY EmptySeq
<1>2. \A k \in 1..(Len(held) - 1) : held[k] \in Claim
  BY <1>1
<1>3. /\ SubSeq(held, 1, Len(held) - 1) \in Seq(Claim)
      /\ Len(SubSeq(held, 1, Len(held) - 1)) =
           IF 1 <= Len(held) - 1 THEN Len(held) - 1 - 1 + 1 ELSE 0
      /\ \A k \in 1..(Len(held) - 1 - 1 + 1) : SubSeq(held, 1, Len(held) - 1)[k] = held[1 + k - 1]
  BY <1>1, <1>2, SubSeqProperties
<1>4. Len(SubSeq(held, 1, Len(held) - 1)) = Len(held) - 1
  BY <1>1, <1>3
<1>5. DOMAIN SubSeq(held, 1, Len(held) - 1) = 1..(Len(held) - 1)
  BY <1>3, <1>4
<1>6. \A k \in 1..(Len(held) - 1) : SubSeq(held, 1, Len(held) - 1)[k] = held[k]
  BY <1>1, <1>3
<1>7. held[Len(held)] \in Claim
  BY <1>1
<1>8. QED
  BY <1>1, <1>3, <1>4, <1>5, <1>6, <1>7 DEF Front, Last

LEMMA Pushing ==
    ASSUME NEW held \in Seq(Claim), NEW claim \in Claim
    PROVE  /\ Append(held, claim) \in Seq(Claim) /\ Append(held, claim) # <<>>
           /\ Len(Append(held, claim)) = Len(held) + 1
           /\ DOMAIN Append(held, claim) = 1..(Len(held) + 1)
           /\ \A k \in DOMAIN held : Append(held, claim)[k] = held[k]
           /\ Append(held, claim)[Len(held) + 1] = claim
  BY AppendProperties

\* The items of the next queue are these items of the queue.
Remain(indices) ==
    /\ \A j \in DOMAIN queue' : \E i \in indices : queue'[j] = queue[i]
    /\ \A i \in indices : \E j \in DOMAIN queue' : queue'[j] = queue[i]

LEMMA Dropping ==
    ASSUME queue \in Seq(Item), DistinctIds(queue), NEW i \in DOMAIN queue, Drop({i})
    PROVE  queue' \in Seq(Item) /\ DistinctIds(queue') /\ Remain(DOMAIN queue \ {i})
<1> DEFINE n == Len(queue)
           before == SubSeq(queue, 1, i - 1)
           after == SubSeq(queue, i + 1, n)
<1>1. n \in Nat /\ DOMAIN queue = 1..n /\ i \in 1..n
  OBVIOUS
<1>2. before \in Seq(Item) /\ Len(before) = i - 1 /\ \A k \in 1..(i - 1) : before[k] = queue[k]
  <2>1. \A k \in 1..(i - 1) : queue[k] \in Item
    BY <1>1
  <2>2. /\ before \in Seq(Item)
        /\ Len(before) = IF 1 <= i - 1 THEN i - 1 - 1 + 1 ELSE 0
        /\ \A k \in 1..(i - 1 - 1 + 1) : before[k] = queue[1 + k - 1]
    BY <1>1, <2>1, SubSeqProperties
  <2>3. QED
    BY <1>1, <2>2
<1>3. after \in Seq(Item) /\ Len(after) = n - i /\ \A k \in 1..(n - i) : after[k] = queue[i + k]
  <2>1. \A k \in (i + 1)..n : queue[k] \in Item
    BY <1>1
  <2>2. /\ after \in Seq(Item)
        /\ Len(after) = IF i + 1 <= n THEN n - (i + 1) + 1 ELSE 0
        /\ \A k \in 1..(n - (i + 1) + 1) : after[k] = queue[(i + 1) + k - 1]
    BY <1>1, <2>1, SubSeqProperties
  <2>3. QED
    BY <1>1, <2>2
<1>4. queue' = before \o after
  BY DEF Drop, RemoveAt
<1>5. /\ queue' \in Seq(Item) /\ Len(queue') = n - 1
      /\ \A k \in 1..(n - 1) : queue'[k] = IF k < i THEN queue[k] ELSE queue[k + 1]
  <2>1. /\ before \o after \in Seq(Item)
        /\ Len(before \o after) = Len(before) + Len(after)
        /\ \A k \in 1..(Len(before) + Len(after)) :
              (before \o after)[k] = IF k <= Len(before) THEN before[k] ELSE after[k - Len(before)]
    BY <1>2, <1>3, ConcatProperties
  <2> HIDE DEF before, after, n
  <2>2. Len(before) + Len(after) = n - 1
    BY <1>1, <1>2, <1>3
  <2>3. ASSUME NEW k \in 1..(n - 1)
        PROVE  queue'[k] = IF k < i THEN queue[k] ELSE queue[k + 1]
    <3>1. CASE k < i
      BY <1>1, <1>2, <1>4, <2>1, <2>2, <3>1
    <3>2. CASE k >= i
      <4>1. queue'[k] = after[k - (i - 1)]
        BY <1>1, <1>2, <1>4, <2>1, <2>2, <3>2
      <4>2. k - (i - 1) \in 1..(n - i) /\ i + (k - (i - 1)) = k + 1
        BY <1>1, <3>2
      <4>3. QED
        BY <1>1, <1>3, <3>2, <4>1, <4>2
    <3>3. QED
      BY <1>1, <3>1, <3>2
  <2>4. QED
    BY <1>4, <2>1, <2>2, <2>3
<1> HIDE DEF before, after, n
<1>6. DOMAIN queue' = 1..(n - 1)
  BY <1>5
<1>7. DistinctIds(queue')
  <2>1. \A j \in 1..(n - 1) : /\ j < i => j \in DOMAIN queue /\ queue'[j] = queue[j]
                             /\ j >= i => j + 1 \in DOMAIN queue /\ queue'[j] = queue[j + 1]
    BY <1>1, <1>5
  <2>2. ASSUME NEW j \in 1..(n - 1), NEW k \in 1..(n - 1), queue'[j].id = queue'[k].id
        PROVE  j = k
    <3> DEFINE at(m) == IF m < i THEN m ELSE m + 1
    <3>1. \A m \in 1..(n - 1) : at(m) \in DOMAIN queue /\ queue'[m] = queue[at(m)]
      <4> SUFFICES ASSUME NEW m \in 1..(n - 1)
                   PROVE  at(m) \in DOMAIN queue /\ queue'[m] = queue[at(m)]
        OBVIOUS
      <4>1. CASE m < i
        <5>1. at(m) = m
          BY <4>1
        <5>2. m \in DOMAIN queue /\ queue'[m] = queue[m]
          BY <1>1, <1>5, <4>1
        <5>3. QED
          BY <5>1, <5>2
      <4>2. CASE ~(m < i)
        BY <1>1, <2>1, <4>2
      <4>3. QED
        BY <4>1, <4>2
    <3>2. at(j) = at(k)
      <4> HIDE DEF at
      <4>1. QED
        BY <2>2, <3>1 DEF DistinctIds
    <3>3. QED
      BY <1>1, <3>2
  <2>3. QED
    BY <1>6, <2>2 DEF DistinctIds
<1>8. Remain(DOMAIN queue \ {i})
  <2>1. ASSUME NEW j \in DOMAIN queue'
        PROVE  \E k \in DOMAIN queue \ {i} : queue'[j] = queue[k]
    <3>1. CASE j < i
      BY <1>1, <1>5, <1>6, <3>1
    <3>2. CASE j >= i
      <4>1. j + 1 \in DOMAIN queue \ {i} /\ queue'[j] = queue[j + 1]
        BY <1>1, <1>5, <1>6, <3>2
      <4>2. QED
        BY <4>1
    <3>3. QED
      BY <1>1, <1>6, <3>1, <3>2
  <2>2. ASSUME NEW k \in DOMAIN queue \ {i}
        PROVE  \E j \in DOMAIN queue' : queue'[j] = queue[k]
    <3>1. CASE k < i
      BY <1>1, <1>5, <1>6, <3>1
    <3>2. CASE k > i
      <4>1. k - 1 \in DOMAIN queue' /\ ~(k - 1 < i) /\ (k - 1) + 1 = k
        BY <1>1, <1>6, <3>2
      <4>2. QED
        BY <1>5, <1>6, <4>1
    <3>3. QED
      BY <1>1, <3>1, <3>2
  <2>3. QED
    BY <2>1, <2>2 DEF Remain
<1>9. QED
  BY <1>5, <1>7, <1>8

LEMMA Keeping ==
    ASSUME queue \in Seq(Item), DistinctIds(queue), NEW indices \in SUBSET DOMAIN queue,
           Keep(indices)
    PROVE  queue' \in Seq(Item) /\ DistinctIds(queue') /\ Remain(indices)
<1>1. PICK order \in [1..Cardinality(indices) -> indices] :
          /\ \A j, k \in DOMAIN order : j < k => order[j] < order[k]
          /\ \A i \in indices : \E k \in DOMAIN order : order[k] = i
          /\ queue' = [k \in DOMAIN order |-> queue[order[k]]]
  BY DEF Keep
<1>2. Cardinality(indices) \in Nat /\ DOMAIN order = 1..Cardinality(indices)
  <2>1. DOMAIN queue = 1..Len(queue) /\ Len(queue) \in Nat
    OBVIOUS
  <2>2. IsFiniteSet(1..Len(queue))
    BY <2>1, FS_Interval
  <2>3. IsFiniteSet(indices)
    BY <2>1, <2>2, FS_Subset
  <2>4. QED
    BY <1>1, <2>3, FS_CardinalityType
<1>3. DOMAIN queue' = DOMAIN order /\ \A k \in DOMAIN order : queue'[k] = queue[order[k]]
  BY <1>1
<1>4. \A k \in DOMAIN order : order[k] \in indices /\ order[k] \in DOMAIN queue /\ order[k] \in Int
  BY <1>1
<1>5. queue' \in Seq(Item)
  BY <1>1, <1>2, <1>4
<1>6. DistinctIds(queue')
  <2>1. ASSUME NEW j \in DOMAIN order, NEW k \in DOMAIN order, queue'[j].id = queue'[k].id
        PROVE  j = k
    <3>1. order[j] = order[k]
      BY <1>3, <1>4, <2>1 DEF DistinctIds
    <3>2. j \in Int /\ k \in Int
      BY <1>2
    <3>3. QED
      BY <1>1, <1>4, <3>1, <3>2
  <2>2. QED
    BY <1>3, <2>1 DEF DistinctIds
<1>7. Remain(indices)
  BY <1>1, <1>3, <1>4 DEF Remain
<1>8. QED
  BY <1>5, <1>6, <1>7

\* Giving some items another status.
LEMMA Restating ==
    ASSUME queue \in Seq(Item), DistinctIds(queue), NEW indices \in SUBSET DOMAIN queue,
           NEW status \in {"pending", "claimed", "action"}, SetStatus(indices, status)
    PROVE  /\ queue' \in Seq(Item) /\ DistinctIds(queue') /\ DOMAIN queue' = DOMAIN queue
           /\ \A i \in DOMAIN queue :
                 /\ queue'[i].id = queue[i].id /\ queue'[i].text = queue[i].text
                 /\ queue'[i].status = IF i \in indices THEN status ELSE queue[i].status
<1>1. DOMAIN queue = 1..Len(queue) /\ Len(queue) \in Nat
  OBVIOUS
<1>2. \A i \in DOMAIN queue : queue[i] \in Item
  OBVIOUS
<1>3. \A i \in DOMAIN queue : [queue[i] EXCEPT !.status = status] \in Item
  BY <1>2 DEF Item
<1>4. queue' \in Seq(Item) /\ DOMAIN queue' = DOMAIN queue
  BY <1>1, <1>2, <1>3 DEF SetStatus
<1>5. \A i \in DOMAIN queue :
          /\ queue'[i].id = queue[i].id /\ queue'[i].text = queue[i].text
          /\ queue'[i].status = IF i \in indices THEN status ELSE queue[i].status
  BY <1>2 DEF SetStatus, Item
<1>6. QED
  BY <1>4, <1>5 DEF DistinctIds

---------------------------------------------------------------------------
\* Steps of one call that leave the queue and its claims alone.

CallMoves(f) ==
    /\ queue' = queue
    /\ \A g \in Calls \ {f} : call'[g] = call[g]
    /\ call' \in [Calls -> CallState]
    /\ CallOK(f, call'[f])
    /\ call'[f].held = call[f].held
    /\ Bears(f, call'[f]) => Bears(f, call[f])
    /\ call[f].held # <<>> /\ Open(call[f]) /\ ~Open(call'[f]) => Top(call[f]).text \in Gone'
    /\ shell.phase = "closed" /\ f \in Submits => call'[f].pc \in Ashore

ShellMoves ==
    /\ shell' \in Shell
    /\ shell'.phase = shell.phase
    /\ events' \in 0..MaxActs

FateGrows(f) ==
    /\ fate' \in Fate
    /\ Gone \subseteq Gone'
    /\ fate'.accepted = fate.accepted /\ fate'.returned = fate.returned
    /\ fate'.meddled = fate.meddled /\ fate'.reused = fate.reused
    /\ \/ fate'.completed = fate.completed
       \/ /\ fate'.completed = fate.completed \cup {TextOf(f)}
          /\ Bears(f, call[f]) /\ ~Bears(f, call'[f])

Moves(f) == CallMoves(f) /\ ShellMoves /\ FateGrows(f)

LEMMA SameFate ==
    ASSUME QueueOK, fate' = fate, NEW f \in Calls
    PROVE  FateGrows(f)
  BY DEF FateGrows, QueueOK, Gone

LEMMA SameShell ==
    ASSUME QueueOK, shell' = shell, events' \in 0..MaxActs
    PROVE  ShellMoves
  BY DEF ShellMoves, QueueOK, QueueTypeOK

LEMMA ActOrNot ==
    ASSUME QueueOK, events' = events \/ Happens
    PROVE  events' \in 0..MaxActs
  BY QueueAssumption DEF QueueOK, QueueTypeOK, Happens, QueueAssumption

LEMMA RestingOK ==
    ASSUME NEW f \in Calls, NEW label \in {"new", "done", "gone"}
    PROVE  /\ Resting(label) \in CallState /\ Resting(label).held = <<>>
           /\ Resting(label).pc = label
           /\ label # "new" => CallOK(f, Resting(label)) /\ ~Bears(f, Resting(label))
           /\ ~Open(Resting(label))
<1>1. <<>> \in Seq(Claim)
  OBVIOUS
<1>2. Resting(label) \in CallState
  BY <1>1 DEF Resting, CallState, Labels, Unread, Claim
<1>3. QED
  BY <1>2 DEF Resting, CallOK, Bears, Open, Awaited

\* A call that returns, or throws, and what it does with its last claim.
LEMMA Returning ==
    ASSUME NEW f \in Calls, NEW c \in CallState, NEW e, f \in Edits => c.held = <<>>
    PROVE  /\ Returned(c, e) \in CallState /\ Returned(c, e).held = c.held
           /\ CallOK(f, Returned(c, e)) /\ ~Bears(f, Returned(c, e))
           /\ Returned(c, e).pc \in {"done", "returning", "nacking", "acking"}
           /\ c.held = <<>> => Returned(c, e).pc = "done"
           /\ Closing(e) => Open(Returned(c, e)) \/ c.held = <<>>
<1>1. CASE c.held = <<>>
  <2>1. Returned(c, e) = Resting("done")
    BY <1>1 DEF Returned
  <2>2. QED
    BY <1>1, <2>1, RestingOK
<1>2. CASE c.held # <<>>
  <2>1. PICK label \in {"returning", "nacking", "acking"} :
            Returned(c, e) = [c EXCEPT !.pc = label] /\ (Closing(e) => label = "returning")
    BY <1>2 DEF Returned
  <2>2. Returned(c, e) \in CallState
    BY <2>1 DEF CallState, Labels
  <2>3. Returned(c, e).held = c.held /\ Returned(c, e).pc = label
    BY <2>1 DEF CallState
  <2>4. QED
    BY <1>2, <2>1, <2>2, <2>3 DEF CallOK, Bears, Awaited, Open
<1>3. QED
  BY <1>1, <1>2

LEMMA Throwing ==
    ASSUME NEW f \in Calls, NEW c \in CallState, f \in Edits => c.held = <<>>
    PROVE  /\ Thrown(c) \in CallState /\ Thrown(c).held = c.held
           /\ CallOK(f, Thrown(c)) /\ ~Bears(f, Thrown(c))
           /\ Thrown(c).pc \in {"done", "failing"}
           /\ c.held = <<>> => Thrown(c).pc = "done"
           /\ c.held # <<>> => Open(Thrown(c))
<1>1. CASE c.held = <<>>
  <2>1. Thrown(c) = Resting("done")
    BY <1>1 DEF Thrown
  <2>2. QED
    BY <1>1, <2>1, RestingOK
<1>2. CASE c.held # <<>>
  <2>1. Thrown(c) = [c EXCEPT !.pc = "failing"]
    BY <1>2 DEF Thrown
  <2>2. Thrown(c) \in CallState
    BY <2>1 DEF CallState, Labels
  <2>3. Thrown(c).held = c.held /\ Thrown(c).pc = "failing"
    BY <2>1 DEF CallState
  <2>4. QED
    BY <1>2, <2>2, <2>3 DEF CallOK, Bears, Awaited, Open
<1>3. QED
  BY <1>1, <1>2

LEMMA Relabelling ==
    ASSUME NEW c \in CallState, NEW label \in Labels
    PROVE  /\ [c EXCEPT !.pc = label] \in CallState
           /\ [c EXCEPT !.pc = label].pc = label
           /\ [c EXCEPT !.pc = label].held = c.held
           /\ [c EXCEPT !.pc = label].then = c.then
           /\ [c EXCEPT !.pc = label].turn = c.turn
  BY DEF CallState

LEMMA CallMoved ==
    ASSUME QueueOK, NEW f \in Calls, NEW c \in CallState, Put(f, c), queue' = queue,
           CallOK(f, c), c.held = call[f].held, Bears(f, c) => Bears(f, call[f]),
           call[f].held # <<>> /\ Open(call[f]) /\ ~Open(c) => Top(call[f]).text \in Gone',
           shell.phase = "closed" /\ f \in Submits => c.pc \in Ashore
    PROVE  CallMoves(f) /\ call'[f] = c
<1>1. call \in [Calls -> CallState]
  BY DEF QueueOK, QueueTypeOK
<1>2. call' \in [Calls -> CallState] /\ call'[f] = c /\ \A g \in Calls \ {f} : call'[g] = call[g]
  BY <1>1 DEF Put
<1>3. QED
  BY <1>2 DEF CallMoves

\* What is known of a call.
LEMMA CallTyped ==
    ASSUME QueueOK, NEW f \in Calls
    PROVE  /\ call[f] \in CallState /\ CallOK(f, call[f]) /\ shell \in Shell
           /\ call[f].held \in Seq(Claim) /\ call[f].then \in {"none", "leave", "restore",
                  "pause", "rethrow", "cleared", "done"}
           /\ call[f].pc \in Labels /\ call[f].turn \in Nat
           /\ call[f].seen \in [n : Nat, action : BOOLEAN]
  BY DEF QueueOK, QueueTypeOK, CallState, Claim

LEMMA TextTyped ==
    ASSUME QueueOK, NEW f \in Calls, call[f].held # <<>> \/ f \in Submits
    PROVE  TextOf(f) \in Submits
  BY CallTyped, Popping DEF TextOf, Top, Claim

LEMMA SubmitsApart ==
    \A f \in Submits : f \in Calls /\ f \notin Edits /\ f \notin Resumes
  BY QueueAssumption DEF QueueAssumption, Calls

LEMMA Handling ==
    ASSUME QueueOK, ClosedInv, NEW f \in Calls, HandleSubmit(f), queue' = queue, events' = events,
           \/ f \in Submits /\ call[f].pc \in {"new", "admitted"}
           \/ call[f].pc = "restore" /\ ~Closing(shell)
    PROVE  Moves(f)
<1> DEFINE c == call[f]
           e == Admitted
<1>1. c \in CallState /\ CallOK(f, c) /\ shell \in Shell
  BY CallTyped
<1>2. Bears(f, c) /\ (c.held = <<>> => f \in Submits) /\ f \notin Edits
  BY <1>1, SubmitsApart DEF CallOK, Bears
<1>3. /\ e \in Shell /\ e.phase = shell.phase /\ e.epoch = shell.epoch /\ e.count = shell.count
      /\ e.cancelled = shell.cancelled
  <2>1. CASE shell.admitted = 0
    BY <1>1, <2>1 DEF Admitted
  <2>2. CASE shell.admitted # 0
    <3>1. shell.admitted - 1 \in Nat
      BY <1>1, <2>2 DEF Shell
    <3>2. QED
      BY <1>1, <2>2, <3>1 DEF Admitted, Shell
  <2>3. QED
    BY <2>1, <2>2
<1>4. events' \in 0..MaxActs
  BY ActOrNot
<1>5. TextOf(f) \in Submits /\ (c.held # <<>> => TextOf(f) = Top(c).text)
  BY <1>2, TextTyped DEF TextOf
<1>6. fate \in Fate
  BY DEF QueueOK
<1>7. shell.phase = "closed" /\ f \in Submits => c.pc \in Ashore
  BY DEF ClosedInv
<1>8. \A x : Returned(c, x) \in CallState /\ Returned(c, x).held = c.held
             /\ CallOK(f, Returned(c, x)) /\ ~Bears(f, Returned(c, x))
             /\ (c.held = <<>> => Returned(c, x).pc = "done")
             /\ (Closing(x) => Open(Returned(c, x)) \/ c.held = <<>>)
  BY <1>1, <1>2, Returning
<1> HIDE DEF e
<1>9. CASE Closing(shell)
  <2>1. Put(f, Returned(c, shell)) /\ shell' = shell /\ fate' = fate
    BY <1>9 DEF HandleSubmit
  <2>2. c.held = <<>>
    BY <1>1, <1>9 DEF CallOK
  <2>3. CallMoves(f)
    BY <1>8, <2>1, <2>2, CallMoved DEF Ashore
  <2>4. QED
    BY <1>4, <2>1, <2>3, SameFate, SameShell DEF Moves
<1>10. CASE ~Closing(shell) /\ shell' \in Shell /\ shell'.phase = shell.phase
            /\ Put(f, Returned(c, e)) /\ Diverted(f)
  <2>1. FateGrows(f) /\ (c.held # <<>> => Top(c).text \in Gone')
    BY <1>5, <1>6, <1>10 DEF Diverted, FateGrows, Fate, Gone
  <2>2. CallMoves(f)
    BY <1>7, <1>8, <1>10, <2>1, CallMoved DEF Closing
  <2>3. QED
    BY <1>4, <1>10, <2>1, <2>2 DEF Moves, ShellMoves
<1>11. CASE ~Closing(shell) /\ shell' = e /\ fate' = fate
            /\ Put(f, [c EXCEPT !.pc = "pushing", !.seen.n = e.count])
  <2> DEFINE d == [c EXCEPT !.pc = "pushing", !.seen.n = e.count]
  <2>1. d \in CallState /\ d.held = c.held /\ d.pc = "pushing"
    BY <1>1, <1>3 DEF CallState, Shell, Labels
  <2>2. CallOK(f, d) /\ Open(d)
    BY <1>2, <2>1 DEF CallOK, Open, Awaited
  <2> HIDE DEF d
  <2>3. Put(f, d)
    BY <1>11 DEF d
  <2>4. CallMoves(f)
    BY <1>2, <1>11, <2>1, <2>2, <2>3, CallMoved DEF Closing
  <2>5. QED
    BY <1>3, <1>4, <1>11, <2>4, SameFate DEF Moves, ShellMoves
<1>12. CASE /\ ~Closing(shell)
            /\ shell' = [e EXCEPT !.epoch = @ + 1, !.busy = TRUE]
            /\ Put(f, [c EXCEPT !.pc = "turn", !.turn = e.epoch + 1])
            /\ fate' = [fate EXCEPT !.begun = @ \cup {TextOf(f)}]
  <2> DEFINE d == [c EXCEPT !.pc = "turn", !.turn = e.epoch + 1]
  <2>0. e.epoch + 1 \in Nat
    BY <1>3 DEF Shell
  <2>1. d \in CallState /\ d.held = c.held /\ d.pc = "turn"
    BY <1>1, <2>0 DEF CallState, Labels
  <2>2. CallOK(f, d)
    BY <1>2, <2>1 DEF CallOK, Awaited
  <2>3. FateGrows(f) /\ (c.held # <<>> => Top(c).text \in Gone')
    BY <1>5, <1>6, <1>12 DEF FateGrows, Fate, Gone
  <2> HIDE DEF d
  <2>4. Put(f, d)
    BY <1>12 DEF d
  <2>5. CallMoves(f)
    BY <1>2, <1>12, <2>1, <2>2, <2>3, <2>4, CallMoved DEF Closing
  <2>6. shell' \in Shell /\ shell'.phase = shell.phase
    BY <1>3, <1>12, <2>0 DEF Shell
  <2>7. QED
    BY <1>4, <2>3, <2>5, <2>6 DEF Moves, ShellMoves
<1>13. [e EXCEPT !.steering = FALSE] \in Shell /\ [e EXCEPT !.steering = FALSE].phase = shell.phase
  BY <1>3 DEF Shell
<1>14. Cancelled => /\ [e EXCEPT !.cancelled = @ - 1] \in Shell
                    /\ [e EXCEPT !.cancelled = @ - 1].phase = shell.phase
  BY <1>1, <1>3 DEF Shell, Cancelled
<1>15. QED
  BY <1>9, <1>10, <1>11, <1>12, <1>13, <1>14 DEF HandleSubmit, e

Between == {"unwinding", "skipping", "starting", "claiming", "leaving"}

\* A call goes on, with nothing open.
LEMMA GoingOn ==
    ASSUME QueueOK, ClosedInv, NEW f \in Calls, NEW c \in CallState, Put(f, c), queue' = queue,
           c.pc \in Between, c.held = call[f].held, ~Open(call[f]),
           f \notin Edits, f \in Submits => call[f].pc \notin Ashore
    PROVE  CallMoves(f) /\ call'[f] = c
<1>1. CallOK(f, c) /\ ~Bears(f, c)
  BY DEF CallOK, Bears, Between, Awaited
<1>2. f \in Submits => shell.phase # "closed"
  BY DEF ClosedInv
<1>3. QED
  BY <1>1, <1>2, CallMoved

\* A call returns, with nothing open.
LEMMA GoingBack ==
    ASSUME QueueOK, ClosedInv, NEW f \in Calls, NEW e, NEW d \in CallState, queue' = queue,
           Put(f, Returned(d, e)), d.held = call[f].held,
           ~Open(call[f]) \/ d.held = <<>>, f \notin Edits
    PROVE  CallMoves(f) /\ call'[f] = Returned(d, e)
<1>1. /\ Returned(d, e) \in CallState /\ Returned(d, e).held = d.held
      /\ CallOK(f, Returned(d, e)) /\ ~Bears(f, Returned(d, e))
      /\ d.held = <<>> => Returned(d, e).pc = "done"
  BY Returning
<1>2. shell.phase = "closed" /\ f \in Submits => Returned(d, e).pc \in Ashore
  BY <1>1 DEF ClosedInv, Ashore
<1>3. QED
  BY <1>1, <1>2, CallMoved

LEMMA ThrowingMoves ==
    ASSUME QueueOK, ClosedInv, NEW f \in Calls, NEW d \in CallState, queue' = queue,
           Put(f, Thrown(d)), d.held = call[f].held, f \notin Edits
    PROVE  CallMoves(f) /\ call'[f] = Thrown(d)
<1>1. /\ Thrown(d) \in CallState /\ Thrown(d).held = d.held
      /\ CallOK(f, Thrown(d)) /\ ~Bears(f, Thrown(d))
      /\ d.held = <<>> => Thrown(d).pc = "done"
      /\ d.held # <<>> => Open(Thrown(d))
  BY Throwing
<1>2. shell.phase = "closed" /\ f \in Submits => Thrown(d).pc \in Ashore
  BY <1>1 DEF ClosedInv, Ashore
<1>3. QED
  BY <1>1, <1>2, CallMoved

LEMMA Undraining ==
    ASSUME NEW e \in Shell
    PROVE  Undrained(e) \in Shell /\ Undrained(e).phase = e.phase
  BY DEF Undrained, Shell

\* Submits, turns and what follows them.
LEMMA TurnMoves ==
    ASSUME QueueOK, ClosedInv, NEW f \in Calls,
           \/ Admit(f) \/ Submit(f) \/ Ignore(f) \/ CountPush(f)
           \/ TurnEnds(f) \/ TurnAborts(f) \/ TurnBlocked(f) \/ TurnThrows(f)
           \/ AfterTurn(f) \/ SkipDrain(f)
    PROVE  Moves(f)
<1> DEFINE c == call[f]
<1>1. /\ c \in CallState /\ CallOK(f, c) /\ shell \in Shell /\ c.turn \in Nat
      /\ c.seen \in [n : Nat, action : BOOLEAN]
  BY CallTyped
<1>2. c.pc \notin {"new", "load", "store", "done", "gone"} => f \notin Edits
  BY <1>1 DEF CallOK
<1>3. events' = events \/ Happens => events' \in 0..MaxActs
  BY ActOrNot
<1>4. c.pc \in {"pushed", "unwinding", "skipping", "turn"} => ~Open(c)
  BY DEF Open, Awaited
<1>5. \A label \in Labels :
          /\ [c EXCEPT !.pc = label] \in CallState /\ [c EXCEPT !.pc = label].pc = label
          /\ [c EXCEPT !.pc = label].held = c.held
  BY <1>1, Relabelling
<1>6. Between \subseteq Labels /\ Between \cap Ashore = {}
  BY DEF Between, Labels, Ashore
<1> HIDE DEF c
<1>7. CASE Admit(f)
  <2> DEFINE d == [c EXCEPT !.pc = "admitted"]
  <2>1. d \in CallState /\ d.pc = "admitted" /\ d.held = c.held /\ c.pc = "new" /\ f \in Submits
    BY <1>1, <1>5, <1>7, QueueAssumption DEF Admit, c, QueueAssumption, Labels
  <2>2. c.held = <<>> /\ Put(f, d) /\ queue' = queue
    BY <1>1, <1>7, <2>1 DEF CallOK, Admit, c
  <2> HIDE DEF d
  <2>3. CallOK(f, d) /\ Bears(f, c)
    BY <2>1, <2>2, SubmitsApart DEF CallOK, Awaited, Bears
  <2>4. CallMoves(f)
    BY <2>1, <2>2, <2>3, CallMoved DEF c, Ashore
  <2>5. shell' \in Shell /\ shell'.phase = shell.phase
    BY <1>1, <1>7 DEF Admit, Shell
  <2>6. QED
    BY <1>3, <1>7, <2>4, <2>5, SameFate DEF Moves, ShellMoves, Admit
<1>8. CASE Submit(f)
  BY <1>8, Handling DEF Submit
<1>9. CASE Ignore(f)
  <2>1. CallMoves(f)
    BY <1>1, <1>2, <1>9, GoingBack DEF Ignore, c
  <2>2. QED
    BY <1>3, <1>9, <2>1, SameFate, SameShell DEF Moves, Ignore
<1>10. CASE CountPush(f)
  <2> DEFINE d == [c EXCEPT !.seen = Unread]
  <2>1. d \in CallState /\ d.held = c.held
    BY <1>1 DEF CallState, Unread
  <2> HIDE DEF d
  <2>2. Put(f, Returned(d, shell)) /\ c.pc = "pushed"
    BY <1>10 DEF CountPush, d, c
  <2>3. CallMoves(f)
    BY <1>1, <1>2, <1>4, <1>10, <2>1, <2>2, GoingBack DEF CountPush, c
  <2>4. c.seen.n + 1 \in Nat
    BY <1>1
  <2>5. shell' \in Shell /\ shell'.phase = shell.phase
    BY <1>1, <1>10, <2>4 DEF CountPush, Shell, c
  <2>6. QED
    BY <1>3, <1>10, <2>3, <2>5, SameFate DEF Moves, ShellMoves, CountPush
<1>11. CASE TurnEnds(f)
  <2>1. CallMoves(f) /\ call'[f].pc = "unwinding"
    <3>1. [c EXCEPT !.pc = "unwinding"].pc \in Between /\ "unwinding" \in Labels
      BY <1>5, <1>6 DEF Between
    <3>2. QED
      BY <1>1, <1>2, <1>4, <1>5, <1>11, <3>1, GoingOn DEF TurnEnds, c, Ashore
  <2>2. TextOf(f) \in Submits
    BY <1>1, <1>11, TextTyped DEF CallOK, TurnEnds, c
  <2>3. FateGrows(f)
    <3>1. Bears(f, call[f]) /\ ~Bears(f, call'[f])
      BY <1>11, <2>1 DEF Bears, TurnEnds, Awaited
    <3>2. fate \in Fate
      BY DEF QueueOK
    <3>3. QED
      BY <1>11, <2>2, <3>1, <3>2 DEF FateGrows, TurnEnds, Fate, Gone
  <2>4. shell' \in Shell /\ shell'.phase = shell.phase
    BY <1>1, <1>11 DEF TurnEnds, Shell
  <2>5. QED
    BY <1>3, <1>11, <2>1, <2>3, <2>4 DEF Moves, ShellMoves, TurnEnds
<1>12. CASE TurnAborts(f) \/ TurnBlocked(f)
  <2>1. CallMoves(f)
    <3>1. [c EXCEPT !.pc = "unwinding"].pc \in Between /\ "unwinding" \in Labels
      BY <1>5, <1>6 DEF Between
    <3>2. QED
      BY <1>1, <1>2, <1>4, <1>5, <1>12, <3>1, GoingOn DEF TurnAborts, TurnBlocked, c, Ashore
  <2>2. shell' \in Shell /\ shell'.phase = shell.phase
    <3>1. shell.skip \cup {c.turn} \in SUBSET Nat /\ shell.skip \in SUBSET Nat
      BY <1>1 DEF Shell
    <3>2. CASE TurnAborts(f)
      BY <1>1, <3>1, <3>2 DEF TurnAborts, Shell, c
    <3>3. CASE TurnBlocked(f)
      BY <1>1, <3>1, <3>3 DEF TurnBlocked, Shell, c
    <3>4. QED
      BY <1>12, <3>2, <3>3
  <2>3. QED
    BY <1>3, <1>12, <2>1, <2>2, SameFate DEF Moves, ShellMoves, TurnAborts, TurnBlocked
<1>13. CASE TurnThrows(f)
  <2>1. CallMoves(f)
    BY <1>1, <1>2, <1>13, ThrowingMoves DEF TurnThrows, c
  <2>2. shell' \in Shell /\ shell'.phase = shell.phase
    BY <1>1, <1>13 DEF TurnThrows, Shell
  <2>3. QED
    BY <1>3, <1>13, <2>1, <2>2, SameFate DEF Moves, ShellMoves, TurnThrows
<1>14. CASE AfterTurn(f)
  <2> DEFINE d == [c EXCEPT !.turn = 0]
  <2>1. d \in CallState /\ d.held = c.held /\ c.pc = "unwinding"
    BY <1>1, <1>14 DEF CallState, AfterTurn, c
  <2> HIDE DEF d
  <2>2. /\ queue' = queue /\ UNCHANGED <<fate, events>>
        /\ shell' \in Shell /\ shell'.phase = shell.phase
    <3>1. shell.skip \ {c.turn} \in SUBSET Nat
      BY <1>1 DEF Shell
    <3>2. QED
      BY <1>1, <1>14, <3>1 DEF AfterTurn, Shell, c
  <2>3. (\E e : Put(f, Returned(c, e))) \/ (\E e : Put(f, Asked(d, e)))
    BY <1>14 DEF AfterTurn, c, d
  <2>4. ASSUME NEW e, Put(f, Asked(d, e))
        PROVE  CallMoves(f)
    <3>1. PICK label \in {"starting", "skipping"} : Asked(d, e) = [d EXCEPT !.pc = label]
      BY DEF Asked
    <3>2. label \in Labels /\ label \in Between
      BY DEF Labels, Between
    <3>3. Asked(d, e) \in CallState /\ Asked(d, e).pc \in Between /\ Asked(d, e).held = c.held
      BY <2>1, <3>1, <3>2, Relabelling
    <3>4. QED
      BY <1>2, <1>4, <2>1, <2>2, <2>4, <3>3, GoingOn DEF c, Ashore
  <2>5. CallMoves(f)
    BY <1>1, <1>2, <1>4, <2>1, <2>2, <2>3, <2>4, GoingBack DEF c
  <2>6. QED
    BY <1>3, <2>2, <2>5, SameFate DEF Moves, ShellMoves
<1>15. CASE SkipDrain(f)
  <2>1. CallMoves(f)
    BY <1>1, <1>2, <1>4, <1>15, GoingBack DEF SkipDrain, c
  <2>2. QED
    BY <1>3, <1>15, <2>1, SameFate, SameShell DEF Moves, SkipDrain
<1>16. QED
  BY <1>7, <1>8, <1>9, <1>10, <1>11, <1>12, <1>13, <1>14, <1>15

LEMMA SnapshotTyped ==
    ASSUME QueueOK
    PROVE  Snapshot \in [n : Nat, action : BOOLEAN]
           /\ \A status : Cardinality(WithStatus(status)) \in Nat
<1>1. queue \in Seq(Item)
  BY DEF QueueOK, QueueTypeOK
<1>2. DOMAIN queue = 1..Len(queue) /\ Len(queue) \in Nat
  BY <1>1
<1>3. IsFiniteSet(DOMAIN queue)
  BY <1>2, FS_Interval
<1>4. ASSUME NEW status PROVE Cardinality(WithStatus(status)) \in Nat
  <2>1. WithStatus(status) \subseteq DOMAIN queue
    BY DEF WithStatus
  <2>2. IsFiniteSet(WithStatus(status))
    BY <1>3, <2>1, FS_Subset
  <2>3. QED
    BY <2>2, FS_CardinalityType
<1>5. QED
  BY <1>4 DEF Snapshot

LEMMA StoreMoves ==
    ASSUME QueueOK, ClosedInv, NEW f \in Calls, Store(f)
    PROVE  Moves(f)
<1> DEFINE c == call[f]
           d == [c EXCEPT !.then = "none", !.seen = Unread]
           e == [shell EXCEPT !.count = c.seen.n]
<1>1. /\ c \in CallState /\ CallOK(f, c) /\ shell \in Shell /\ c.pc = "store"
      /\ c.seen \in [n : Nat, action : BOOLEAN]
      /\ c.then \in {"none", "leave", "restore", "pause", "rethrow", "cleared", "done"}
  BY CallTyped DEF Store
<1>2. queue' = queue /\ fate' = fate /\ events' = events
  BY Zenon DEF Store
<1>3. c.then # "none" /\ (f \in Edits => c.then \in {"cleared", "done"})
  BY <1>1 DEF CallOK, Awaited
<1>4. d \in CallState /\ d.held = c.held
  BY <1>1 DEF CallState, Unread
<1>5. e \in Shell /\ e.phase = shell.phase
  BY <1>1 DEF Shell
<1>6. [e EXCEPT !.paused = TRUE] \in Shell /\ [e EXCEPT !.paused = TRUE].phase = shell.phase
  BY <1>5 DEF Shell
<1>7. f \in Submits => shell.phase # "closed"
  BY <1>1 DEF ClosedInv, Ashore
<1>8. CASE c.then = "restore"
  <2>1. shell' = e /\ Put(f, [d EXCEPT !.pc = "restore"])
    BY <1>8 DEF Store
  <2>2. /\ [d EXCEPT !.pc = "restore"] \in CallState /\ [d EXCEPT !.pc = "restore"].held = c.held
        /\ [d EXCEPT !.pc = "restore"].pc = "restore"
    BY <1>4, Relabelling DEF Labels
  <2>3. c.held # <<>> /\ Bears(f, c) /\ f \notin Edits
    BY <1>1, <1>3, <1>8 DEF CallOK, Awaited, Bears
  <2>4. CallOK(f, [d EXCEPT !.pc = "restore"]) /\ Open([d EXCEPT !.pc = "restore"])
    BY <2>2, <2>3 DEF CallOK, Open, Awaited
  <2>5. CallMoves(f)
    BY <1>2, <1>7, <2>1, <2>2, <2>3, <2>4, CallMoved
  <2>6. QED
    BY <1>2, <1>5, <2>1, <2>5, ActOrNot, SameFate DEF Moves, ShellMoves
<1>9. CASE c.then \in {"leave", "pause", "rethrow"}
  <2> DEFINE p == [e EXCEPT !.paused = TRUE]
  <2>1. ~Open(c) /\ f \notin Edits
    BY <1>1, <1>3, <1>9 DEF Open, Awaited
  <2>2. c.then = "leave" => shell' = Undrained(e) /\ Put(f, Returned(d, Undrained(e)))
    BY DEF Store, Left
  <2>3. c.then = "pause" => shell' = Undrained(p) /\ Put(f, Returned(d, Undrained(p)))
    BY DEF Store, Left
  <2>4. c.then = "rethrow" => shell' = Undrained(e) /\ Put(f, Thrown(d))
    BY DEF Store
  <2>5. shell' \in Shell /\ shell'.phase = shell.phase
    <3> HIDE DEF e
    <3>1. QED
      BY <1>5, <1>6, <1>9, <2>2, <2>3, <2>4, Undraining
  <2> HIDE DEF p, d, e
  <2>6. CallMoves(f)
    BY <1>2, <1>4, <1>9, <2>1, <2>2, <2>3, <2>4, GoingBack, ThrowingMoves DEF c
  <2>7. QED
    BY <1>2, <2>5, <2>6, ActOrNot, SameFate DEF Moves, ShellMoves
<1>10. CASE c.then \in {"cleared", "done"}
  <2>1. Put(f, Resting("done"))
    BY <1>10 DEF Store
  <2>2. c.held = <<>> /\ ~Open(c)
    BY <1>1, <1>10 DEF CallOK, Awaited, Open
  <2>3. CallMoves(f)
    BY <1>2, <1>7, <2>1, <2>2, RestingOK, CallMoved
  <2>4. shell' \in Shell /\ shell'.phase = shell.phase
    <3>1. CASE c.then = "done"
      BY <1>5, <3>1 DEF Store
    <3>2. CASE c.then = "cleared"
      <4>1. shell' = [e EXCEPT !.paused = c.seen.action, !.skip = {}]
        BY <3>2 DEF Store
      <4>2. c.seen.action \in BOOLEAN
        BY <1>1
      <4> HIDE DEF e
      <4>3. QED
        BY <1>5, <4>1, <4>2 DEF Shell
    <3>3. QED
      BY <1>10, <3>1, <3>2
  <2>5. QED
    BY <1>2, <2>3, <2>4, ActOrNot, SameFate DEF Moves, ShellMoves
<1>11. QED
  BY <1>1, <1>3, <1>8, <1>9, <1>10

\* What a drain does without touching a claim.
LEMMA DrainMoves ==
    ASSUME QueueOK, ClosedInv, NEW f \in Calls,
           \/ BeginDrain(f) \/ Load(f) \/ Store(f) \/ RunClaimed(f) \/ RestoreFails(f)
           \/ Loop(f) \/ Leave(f) \/ Resume(f)
    PROVE  Moves(f)
<1> DEFINE c == call[f]
<1>1. /\ c \in CallState /\ CallOK(f, c) /\ shell \in Shell
      /\ c.seen \in [n : Nat, action : BOOLEAN]
  BY CallTyped
<1>2. c.pc \notin {"new", "load", "store", "done", "gone"} => f \notin Edits
  BY <1>1 DEF CallOK
<1>3. events' = events \/ Happens => events' \in 0..MaxActs
  BY ActOrNot
<1>4. c.pc \in {"starting", "looping", "leaving", "new"} => ~Open(c)
  BY DEF Open, Awaited
<1>5. \A label \in Labels :
          /\ [c EXCEPT !.pc = label] \in CallState /\ [c EXCEPT !.pc = label].pc = label
          /\ [c EXCEPT !.pc = label].held = c.held /\ [c EXCEPT !.pc = label].then = c.then
  BY <1>1, Relabelling
<1>6. Between \subseteq Labels /\ Between \cap Ashore = {}
  BY DEF Between, Labels, Ashore
<1>7. ClosedInv => (f \in Submits /\ c.pc \notin Ashore => shell.phase # "closed")
  BY DEF ClosedInv
<1>8. \A e : (\E label \in Between : Asked(c, e) = [c EXCEPT !.pc = label])
             /\ (\E label \in Between : Continued(c, e) = [c EXCEPT !.pc = label])
  BY DEF Asked, Continued, Between
<1>9. \A e : /\ Asked(c, e) \in CallState /\ Asked(c, e).pc \in Between /\ Asked(c, e).held = c.held
             /\ Continued(c, e) \in CallState /\ Continued(c, e).pc \in Between
             /\ Continued(c, e).held = c.held
  <2> HIDE DEF c
  <2> TAKE e
  <2>1. PICK a \in Between : Asked(c, e) = [c EXCEPT !.pc = a]
    BY <1>8
  <2>2. PICK b \in Between : Continued(c, e) = [c EXCEPT !.pc = b]
    BY <1>8
  <2>3. a \in Labels /\ b \in Labels
    BY <1>6
  <2>4. QED
    BY <1>5, <2>1, <2>2, <2>3
<1> HIDE DEF c
<1>10. CASE BeginDrain(f)
  <2>1. \/ Put(f, Returned(c, shell))
        \/ Put(f, Continued(c, shell))
    BY <1>10 DEF BeginDrain, c
  <2>2. CallMoves(f)
    BY <1>1, <1>2, <1>4, <1>9, <1>10, <2>1, GoingBack, GoingOn DEF BeginDrain, c, Ashore
  <2>3. shell' \in Shell /\ shell'.phase = shell.phase
    BY <1>1, <1>10 DEF BeginDrain, Shell
  <2>4. QED
    BY <1>3, <1>10, <2>2, <2>3, SameFate DEF Moves, ShellMoves, BeginDrain
<1>11. CASE Load(f)
  <2> DEFINE d == [c EXCEPT !.pc = "store", !.seen = Snapshot]
  <2>1. d \in CallState /\ d.held = c.held /\ d.pc = "store" /\ d.then = c.then /\ c.pc = "load"
    BY <1>1, <1>11, SnapshotTyped DEF CallState, Labels, Load, c
  <2> HIDE DEF d
  <2>2. CallOK(f, d) /\ (Bears(f, d) => Bears(f, c)) /\ (Open(c) => Open(d))
    BY <1>1, <2>1 DEF CallOK, Bears, Open, Awaited
  <2>3. Put(f, d) /\ queue' = queue
    BY <1>11 DEF Load, d, c
  <2>4. CallMoves(f)
    BY <1>7, <2>1, <2>2, <2>3, CallMoved DEF c, Ashore
  <2>5. QED
    BY <1>3, <1>11, <2>4, SameFate, SameShell DEF Moves, Load
<1>12. CASE Store(f)
  BY <1>12, StoreMoves
<1>13. CASE RunClaimed(f)
  <2>1. CASE Closing(shell)
    <3> DEFINE d == [c EXCEPT !.pc = "returning"]
    <3>1. d \in CallState /\ d.held = c.held /\ d.pc = "returning" /\ c.pc = "restore"
      BY <1>5, <1>13 DEF RunClaimed, c, Labels
    <3> HIDE DEF d
    <3>2. CallOK(f, d) /\ ~Bears(f, d) /\ Open(d)
      BY <1>1, <1>2, <3>1 DEF CallOK, Bears, Open, Awaited
    <3>3. Put(f, d) /\ queue' = queue /\ UNCHANGED <<shell, fate, events>>
      BY <1>13, <2>1 DEF RunClaimed, c, d
    <3>4. CallMoves(f)
      BY <1>7, <3>1, <3>2, <3>3, CallMoved DEF c, Ashore
    <3>5. QED
      BY <1>3, <3>3, <3>4, SameFate, SameShell DEF Moves
  <2>2. CASE ~Closing(shell)
    BY <1>13, <2>2, Handling DEF RunClaimed
  <2>3. QED
    BY <2>1, <2>2
<1>14. CASE RestoreFails(f)
  <2> DEFINE d == [c EXCEPT !.pc = "quarantine"]
  <2>1. d \in CallState /\ d.held = c.held /\ d.pc = "quarantine" /\ c.pc = "restore"
    BY <1>5, <1>14 DEF RestoreFails, c, Labels
  <2> HIDE DEF d
  <2>2. CallOK(f, d) /\ ~Bears(f, d) /\ Open(d)
    BY <1>1, <1>2, <2>1 DEF CallOK, Bears, Open, Awaited
  <2>3. Put(f, d) /\ queue' = queue
    BY <1>14 DEF RestoreFails, c, d
  <2>4. CallMoves(f)
    BY <1>7, <2>1, <2>2, <2>3, CallMoved DEF c, Ashore
  <2>5. QED
    BY <1>3, <1>14, <2>4, SameFate, SameShell DEF Moves, RestoreFails
<1>15. CASE Loop(f) \/ Leave(f)
  <2>1. \/ Put(f, Returned(c, Undrained(shell)))
        \/ Put(f, Continued(c, shell))
    BY <1>15 DEF Loop, Leave, Left, c
  <2>2. CallMoves(f)
    BY <1>1, <1>2, <1>4, <1>9, <1>15, <2>1, GoingBack, GoingOn DEF Loop, Leave, c, Ashore
  <2>3. shell' \in Shell /\ shell'.phase = shell.phase
    BY <1>1, <1>15, Undraining DEF Loop, Leave
  <2>4. QED
    BY <1>3, <1>15, <2>2, <2>3, SameFate DEF Moves, ShellMoves, Loop, Leave
<1>16. CASE Resume(f)
  <2>1. c.pc = "new" /\ f \notin Edits /\ f \notin Submits /\ c.held = <<>>
    BY <1>1, <1>16, QueueAssumption DEF Resume, c, QueueAssumption, CallOK
  <2>2. Put(f, Resting("done")) \/ (\E e : Put(f, Asked(c, e)))
    BY <1>16 DEF Resume, c
  <2>3. CallMoves(f)
    BY <1>4, <1>9, <1>16, <2>1, <2>2, RestingOK, CallMoved, GoingOn DEF Resume, c
  <2>4. shell' \in Shell /\ shell'.phase = shell.phase
    BY <1>1, <1>16 DEF Resume, Shell
  <2>5. QED
    BY <1>3, <1>16, <2>3, <2>4, SameFate DEF Moves, ShellMoves, Resume
<1>17. QED
  BY <1>10, <1>11, <1>12, <1>13, <1>14, <1>15, <1>16

---------------------------------------------------------------------------
\* Steps that take, give back or settle a claim, and those that change the queue.

CallPops(f) ==
    /\ call[f].held # <<>>
    /\ \A g \in Calls \ {f} : call'[g] = call[g]
    /\ call' \in [Calls -> CallState]
    /\ CallOK(f, call'[f])
    /\ call'[f].held = Front(call[f].held)
    /\ ~Bears(f, call[f]) /\ ~Bears(f, call'[f])
    /\ f \in Submits => shell.phase # "closed"

LEMMA PoppedTyped ==
    ASSUME NEW c \in CallState, c.held # <<>>
    PROVE  Popped(c) \in CallState /\ Popped(c).held = Front(c.held)
<1>1. c.held \in Seq(Claim)
  BY DEF CallState, Claim
<1>2. Front(c.held) \in Seq([id : Nat \ {0}, text : Submits])
  BY <1>1, Popping DEF Claim
<1>3. QED
  BY <1>2 DEF Popped, CallState

LEMMA Reloading ==
    ASSUME NEW c \in CallState,
           NEW next \in {"leave", "restore", "pause", "rethrow", "cleared", "done"}
    PROVE  /\ Reload(c, next) \in CallState /\ Reload(c, next).held = c.held
           /\ Reload(c, next).pc = "load" /\ Reload(c, next).then = next
  BY DEF Reload, CallState, Labels

LEMMA PopMoves ==
    ASSUME QueueOK, ClosedInv, NEW f \in Calls, Quarantine(f) \/ Acknowledge(f) \/ PutBack(f)
    PROVE  CallPops(f) /\ ShellMoves
<1> DEFINE c == call[f]
           d == Popped(c)
<1>1. /\ c \in CallState /\ CallOK(f, c) /\ shell \in Shell
      /\ c.pc \in {"quarantine", "acking", "nacking", "returning", "failing"}
  BY CallTyped DEF Quarantine, Acknowledge, PutBack
<1>2. c.held # <<>> /\ f \notin Edits /\ ~Bears(f, c) /\ (f \in Submits => shell.phase # "closed")
  BY <1>1 DEF CallOK, Bears, Awaited, ClosedInv
<1>3. d \in CallState /\ d.held = Front(c.held)
  BY <1>1, <1>2, PoppedTyped
<1>4. events' \in 0..MaxActs
  BY ActOrNot DEF Quarantine, Acknowledge, PutBack
<1> HIDE DEF d
<1>5. \/ Put(f, Reload(d, "pause")) \/ Put(f, [d EXCEPT !.pc = "looping"])
      \/ Put(f, Thrown(d)) \/ Put(f, Reload(d, "leave")) \/ Put(f, Reload(d, "rethrow"))
  BY DEF Quarantine, Acknowledge, PutBack, d
<1>6. shell' = shell \/ shell' = Undrained(shell)
  BY Zenon DEF Quarantine, Acknowledge, PutBack
<1>7. ShellMoves
  BY <1>1, <1>4, <1>6, Undraining DEF ShellMoves
<1>8. ASSUME NEW n \in CallState, Put(f, n), n.held = d.held, CallOK(f, n), ~Bears(f, n)
      PROVE  CallPops(f)
  <2>1. call \in [Calls -> CallState]
    BY DEF QueueOK, QueueTypeOK
  <2>2. call' \in [Calls -> CallState] /\ call'[f] = n /\ \A g \in Calls \ {f} : call'[g] = call[g]
    BY <1>8, <2>1 DEF Put
  <2>3. QED
    BY <1>2, <1>3, <1>8, <2>2 DEF CallPops
<1>9. ASSUME NEW next \in {"pause", "leave", "rethrow"}, Put(f, Reload(d, next))
      PROVE  CallPops(f)
  <2>1. /\ Reload(d, next) \in CallState /\ Reload(d, next).held = d.held
        /\ Reload(d, next).pc = "load" /\ Reload(d, next).then = next
    BY <1>3, Reloading
  <2>2. CallOK(f, Reload(d, next)) /\ ~Bears(f, Reload(d, next))
    BY <1>2, <2>1 DEF CallOK, Bears, Awaited
  <2>3. QED
    BY <1>8, <1>9, <2>1, <2>2
<1>10. CASE Put(f, [d EXCEPT !.pc = "looping"])
  <2> DEFINE n == [d EXCEPT !.pc = "looping"]
  <2>1. n \in CallState /\ n.held = d.held /\ n.pc = "looping"
    BY <1>3, Relabelling DEF Labels
  <2>2. CallOK(f, n) /\ ~Bears(f, n)
    BY <1>2, <2>1 DEF CallOK, Bears, Awaited
  <2>3. Put(f, n)
    BY <1>10
  <2> HIDE DEF n
  <2>4. QED
    BY <1>7, <1>8, <2>1, <2>2, <2>3
<1>11. CASE Put(f, Thrown(d))
  <2>1. /\ Thrown(d) \in CallState /\ Thrown(d).held = d.held
        /\ CallOK(f, Thrown(d)) /\ ~Bears(f, Thrown(d))
    BY <1>2, <1>3, Throwing
  <2>2. QED
    BY <1>7, <1>8, <1>11, <2>1
<1>12. QED
  BY <1>5, <1>7, <1>9, <1>10, <1>11

\* The claim of the first pending item.
CallClaims(f, i) ==
    /\ i \in DOMAIN queue /\ queue[i].status = "pending"
    /\ SetStatus({i}, "claimed")
    /\ call[f].pc = "claiming" /\ ~Closing(shell)
    /\ \A g \in Calls \ {f} : call'[g] = call[g]
    /\ call' \in [Calls -> CallState]
    /\ CallOK(f, call'[f])
    /\ call'[f].held = Append(call[f].held, [id |-> queue[i].id, text |-> queue[i].text])
    /\ call'[f].pc = "load" /\ call'[f].then = "restore"
    /\ UNCHANGED <<shell, fate, events>>

LEMMA ClaimMoves ==
    ASSUME QueueOK, ClosedInv, NEW f \in Calls, ClaimNext(f)
    PROVE  Moves(f) \/ \E i \in DOMAIN queue : CallClaims(f, i)
<1> DEFINE c == call[f]
<1>1. /\ c \in CallState /\ CallOK(f, c) /\ shell \in Shell /\ c.pc = "claiming"
      /\ c.held \in Seq(Claim)
  BY CallTyped DEF ClaimNext
<1>2. f \notin Edits /\ ~Open(c) /\ ~Bears(f, c) /\ (f \in Submits => shell.phase # "closed")
  BY <1>1 DEF CallOK, Open, Bears, Awaited, ClosedInv, Ashore
<1>3. fate' = fate /\ events' = events
  BY Zenon DEF ClaimNext
<1>4. CASE shell' = Undrained(shell) /\ Put(f, Left(c, shell)) /\ queue' = queue
  <2>1. CallMoves(f)
    BY <1>1, <1>2, <1>4, GoingBack DEF Left
  <2>2. QED
    BY <1>1, <1>3, <1>4, <2>1, Undraining, ActOrNot, SameFate DEF Moves, ShellMoves
<1>5. CASE Put(f, Reload(c, "leave")) /\ queue' = queue /\ shell' = shell
  <2>1. /\ Reload(c, "leave") \in CallState /\ Reload(c, "leave").held = c.held
        /\ Reload(c, "leave").pc = "load" /\ Reload(c, "leave").then = "leave"
    BY <1>1, Reloading
  <2>2. CallOK(f, Reload(c, "leave")) /\ ~Bears(f, Reload(c, "leave"))
    BY <1>2, <2>1 DEF CallOK, Bears, Awaited
  <2>3. CallMoves(f)
    BY <1>2, <1>5, <2>1, <2>2, CallMoved
  <2>4. QED
    BY <1>3, <1>5, <2>3, ActOrNot, SameFate, SameShell DEF Moves
<1>6. ASSUME NEW i \in DOMAIN queue, queue[i].status = "pending", ~Closing(shell),
             SetStatus({i}, "claimed"), shell' = shell,
             Put(f, [Reload(c, "restore") EXCEPT
                        !.held = Append(@, [id |-> queue[i].id, text |-> queue[i].text])])
      PROVE  CallClaims(f, i)
  <2> DEFINE claim == [id |-> queue[i].id, text |-> queue[i].text]
             d == Reload(c, "restore")
             n == [d EXCEPT !.held = Append(@, claim)]
  <2>1. claim \in Claim
    <3>1. queue[i] \in Item
      BY DEF QueueOK, QueueTypeOK
    <3>2. QED
      BY <3>1 DEF Item, Claim
  <2> HIDE DEF claim
  <2>2. /\ d \in CallState /\ d.held = c.held /\ d.pc = "load" /\ d.then = "restore"
    BY <1>1, Reloading
  <2>3. Append(c.held, claim) \in Seq(Claim) /\ Append(c.held, claim) # <<>>
    BY <1>1, <2>1, Pushing
  <2> HIDE DEF d
  <2>4. /\ n \in CallState /\ n.held = Append(c.held, claim) /\ n.pc = "load"
        /\ n.then = "restore"
    BY <2>2, <2>3 DEF CallState, Claim
  <2>5. Put(f, n)
    BY <1>6 DEF d, claim
  <2> HIDE DEF n
  <2>6. CallOK(f, n)
    BY <1>2, <2>3, <2>4 DEF CallOK, Awaited
  <2>7. call \in [Calls -> CallState]
    BY DEF QueueOK, QueueTypeOK
  <2>8. call' \in [Calls -> CallState] /\ call'[f] = n /\ \A g \in Calls \ {f} : call'[g] = call[g]
    BY <2>4, <2>5, <2>7 DEF Put
  <2>9. QED
    BY <1>1, <1>3, <1>6, <2>4, <2>6, <2>8 DEF CallClaims, claim
<1>7. QED
  BY <1>4, <1>5, <1>6 DEF ClaimNext

\* A finite set of natural numbers has a largest element.
LEMMA LargestNatural ==
    ASSUME NEW S \in SUBSET Nat, IsFiniteSet(S), S # {}
    PROVE  \E n \in S : \A m \in S : m <= n
<1> DEFINE above(n) == {m \in S : m > n}
           tails == {above(n) : n \in S}
<1>1. tails \subseteq FiniteSubsetsOf(S) /\ tails # {}
  <2>1. ASSUME NEW n \in S
        PROVE  IsFiniteSet(above(n)) /\ above(n) \subseteq S
    <3>1. above(n) \subseteq S
      OBVIOUS
    <3> HIDE DEF above
    <3>2. QED
      BY <3>1, FS_Subset
  <2>2. QED
    BY <2>1 DEF FiniteSubsetsOf
<1>2. PICK low \in tails : \A x \in tails : ~ (<<x, low>> \in StrictSubsetOrdering(S))
  <2> HIDE DEF tails
  <2>1. QED
    BY <1>1, FS_StrictSubsetOrderingWellFounded, WFMin
<1>3. PICK n \in S : low = above(n)
  BY <1>2
<1>4. ASSUME NEW m \in S, ~ (m <= n)
      PROVE  FALSE
  <2>1. n \in Nat /\ m \in Nat /\ m > n /\ S \subseteq Nat
    BY <1>4
  <2>2. above(m) \in tails /\ m \in above(n) \ above(m)
    BY <2>1
  <2>3. above(m) \subseteq above(n)
    <3>1. \A x \in S : x > m => x > n
      BY <2>1
    <3>2. QED
      BY <3>1
  <2>4. above(m) \in SUBSET S /\ above(n) \in SUBSET S
    OBVIOUS
  <2> HIDE DEF above, tails
  <2>5. QED
    BY <1>2, <1>3, <2>2, <2>3, <2>4 DEF StrictSubsetOrdering
<1>5. QED
  BY <1>4

\* A new item has an id that no item of the file has.
LEMMA NextIdIsNew ==
    ASSUME queue \in Seq(Item)
    PROVE  NextItemId \in Nat \ {0} /\ \A i \in DOMAIN queue : queue[i].id # NextItemId
<1> DEFINE ids == {queue[i].id : i \in DOMAIN queue}
<1>1. DOMAIN queue = 1..Len(queue) /\ Len(queue) \in Nat
  OBVIOUS
<1>2. \A i \in DOMAIN queue : queue[i].id \in Nat /\ queue[i].id # 0
  <2>1. \A i \in DOMAIN queue : queue[i] \in Item
    OBVIOUS
  <2>2. QED
    BY <2>1 DEF Item
<1>3. ids \in SUBSET Nat /\ IsFiniteSet(ids)
  <2>1. IsFiniteSet(DOMAIN queue)
    BY <1>1, FS_Interval
  <2>2. IsFiniteSet(ids)
    <3> DEFINE idOf == [i \in DOMAIN queue |-> queue[i].id]
    <3>1. idOf \in Surjection(DOMAIN queue, ids)
      BY DEF Surjection
    <3> HIDE DEF ids, idOf
    <3>2. QED
      BY <2>1, <3>1, FS_Surjection
  <2>3. QED
    BY <1>2, <2>2
<1>4. CASE queue = <<>>
  BY <1>1, <1>4 DEF NextItemId
<1>5. CASE queue # <<>>
  <2>1. ids # {}
    <3>1. 1 \in DOMAIN queue
      BY <1>1, <1>5
    <3>2. QED
      BY <3>1
  <2>2. \E n \in ids : \A m \in ids : m <= n
    <3> HIDE DEF ids
    <3>1. QED
      BY <1>3, <2>1, LargestNatural
  <2>3. PICK n \in ids : \A i \in DOMAIN queue : queue[i].id <= n
    BY <2>2
  <2> DEFINE largest == CHOOSE x \in ids : \A i \in DOMAIN queue : queue[i].id <= x
  <2>4. largest \in ids /\ \A i \in DOMAIN queue : queue[i].id <= largest
    BY <2>3
  <2>5. NextItemId = 1 + largest
    BY <1>5 DEF NextItemId
  <2> HIDE DEF largest
  <2>6. largest \in Nat
    BY <1>3, <2>4
  <2>7. QED
    BY <1>2, <2>4, <2>5, <2>6
<1>6. QED
  BY <1>4, <1>5

\* Appending a follow-up.
CallPushes(f) ==
    /\ queue' = Append(queue, [id |-> NextItemId, text |-> TextOf(f), status |-> "pending"])
    /\ queue' \in Seq(Item) /\ DistinctIds(queue')
    /\ Len(queue) \in Nat /\ DOMAIN queue = 1..Len(queue) /\ DOMAIN queue' = 1..(Len(queue) + 1)
    /\ \A i \in DOMAIN queue : queue'[i] = queue[i] /\ queue[i].id # NextItemId
    /\ queue'[Len(queue) + 1] = [id |-> NextItemId, text |-> TextOf(f), status |-> "pending"]
    /\ TextOf(f) \in Submits
    /\ call[f].pc = "pushing" /\ call'[f].pc = "pushed"
    /\ \A g \in Calls \ {f} : call'[g] = call[g]
    /\ call' \in [Calls -> CallState]
    /\ CallOK(f, call'[f])
    /\ call'[f].held = call[f].held
    /\ fate' \in Fate
    /\ fate'.accepted = fate.accepted \cup {TextOf(f)}
    /\ fate'.reused = (fate.reused \/ NextItemId \in HeldIds)
    /\ Gone' = Gone /\ fate'.completed = fate.completed
    /\ fate'.returned = fate.returned /\ fate'.meddled = fate.meddled
    /\ UNCHANGED <<shell, events>>

LEMMA PushMoves ==
    ASSUME QueueOK, NEW f \in Calls, Push(f)
    PROVE  CallPushes(f)
<1> DEFINE c == call[f]
           item == [id |-> NextItemId, text |-> TextOf(f), status |-> "pending"]
           d == [c EXCEPT !.pc = "pushed"]
<1>1. c \in CallState /\ CallOK(f, c) /\ c.pc = "pushing"
  BY CallTyped DEF Push
<1>2. TextOf(f) \in Submits /\ f \notin Edits
  BY <1>1, TextTyped DEF CallOK
<1>3. queue \in Seq(Item) /\ DistinctIds(queue) /\ fate \in Fate /\ call \in [Calls -> CallState]
  BY DEF QueueOK, QueueTypeOK
<1>4. NextItemId \in Nat \ {0} /\ \A i \in DOMAIN queue : queue[i].id # NextItemId
  BY <1>3, NextIdIsNew
<1>5. item \in Item /\ item.id = NextItemId
  BY <1>2, <1>4 DEF Item
<1>6. /\ queue' = Append(queue, item) /\ Put(f, d) /\ UNCHANGED <<shell, events>>
      /\ fate' = [fate EXCEPT !.accepted = @ \cup {TextOf(f)},
                              !.reused = @ \/ NextItemId \in HeldIds]
  BY DEF Push
<1> HIDE DEF item
<1>7. /\ queue' \in Seq(Item) /\ Len(queue') = Len(queue) + 1 /\ Len(queue) \in Nat
      /\ \A i \in 1..Len(queue) : queue'[i] = queue[i]
      /\ queue'[Len(queue) + 1] = item
  BY <1>3, <1>5, <1>6, AppendProperties
<1>8. DOMAIN queue = 1..Len(queue) /\ DOMAIN queue' = 1..(Len(queue) + 1)
  BY <1>3, <1>7
<1>9. DistinctIds(queue')
  <2>1. ASSUME NEW i \in DOMAIN queue', NEW j \in DOMAIN queue', queue'[i].id = queue'[j].id
        PROVE  i = j
    <3>1. CASE i \in DOMAIN queue /\ j \in DOMAIN queue
      BY <1>3, <1>7, <1>8, <2>1, <3>1 DEF DistinctIds
    <3>2. \A k \in DOMAIN queue' : k \in DOMAIN queue \/ k = Len(queue) + 1
      BY <1>7, <1>8
    <3>3. QED
      BY <1>4, <1>5, <1>7, <1>8, <2>1, <3>1, <3>2
  <2>2. QED
    BY <2>1 DEF DistinctIds
<1>10. d \in CallState /\ d.held = c.held /\ d.pc = "pushed"
  BY <1>1, Relabelling DEF Labels
<1>11. CallOK(f, d)
  BY <1>2, <1>10 DEF CallOK, Awaited
<1> HIDE DEF d
<1>12. /\ call' \in [Calls -> CallState] /\ call'[f] = d
       /\ \A g \in Calls \ {f} : call'[g] = call[g]
  BY <1>3, <1>6, <1>10 DEF Put
<1>13. /\ fate' \in Fate
       /\ fate'.accepted = fate.accepted \cup {TextOf(f)}
       /\ Gone' = Gone /\ fate'.completed = fate.completed
       /\ fate'.returned = fate.returned /\ fate'.meddled = fate.meddled
  BY <1>2, <1>3, <1>6 DEF Fate, Gone
<1>14. fate'.reused = (fate.reused \/ NextItemId \in HeldIds)
  BY Zenon, <1>3, <1>6 DEF Fate
<1>15. QED
  BY <1>1, <1>2, <1>4, <1>6, <1>7, <1>8, <1>9, <1>10, <1>11, <1>12, <1>13, <1>14
     DEF CallPushes, item

\* The operator edits the queue.
CallEdits(f) ==
    /\ f \in Edits /\ f \notin Submits
    /\ call[f].held = <<>> /\ call'[f].held = <<>>
    /\ ~Bears(f, call[f]) /\ ~Bears(f, call'[f])
    /\ \A g \in Calls \ {f} : call'[g] = call[g]
    /\ call' \in [Calls -> CallState]
    /\ CallOK(f, call'[f])
    /\ ShellMoves
    /\ shell' = shell
    /\ queue' \in Seq(Item) /\ DistinctIds(queue')
    /\ fate' \in Fate

LEMMA EditMoves ==
    ASSUME QueueOK, NEW f \in Calls, Clear(f) \/ Retry(f) \/ Discard(f)
    PROVE  CallEdits(f)
<1> DEFINE c == call[f]
<1>1. /\ c \in CallState /\ CallOK(f, c) /\ c.pc = "new" /\ c.held = <<>> /\ f \in Edits
      /\ f \notin Submits
  BY CallTyped, QueueAssumption DEF Clear, Retry, Discard, CallOK, QueueAssumption
<1>2. queue \in Seq(Item) /\ DistinctIds(queue) /\ fate \in Fate /\ call \in [Calls -> CallState]
  BY DEF QueueOK, QueueTypeOK
<1>3. ShellMoves /\ shell' = shell
  BY ActOrNot, SameShell DEF Clear, Retry, Discard
<1>4. ASSUME NEW next \in {"cleared", "done"}, Put(f, Reload(c, next))
      PROVE  /\ call'[f].held = <<>> /\ ~Bears(f, call'[f]) /\ CallOK(f, call'[f])
             /\ call' \in [Calls -> CallState]
             /\ \A g \in Calls \ {f} : call'[g] = call[g]
  <2>1. /\ Reload(c, next) \in CallState /\ Reload(c, next).held = <<>>
        /\ Reload(c, next).pc = "load" /\ Reload(c, next).then = next
    BY <1>1, Reloading
  <2>2. CallOK(f, Reload(c, next)) /\ ~Bears(f, Reload(c, next))
    BY <2>1 DEF CallOK, Bears, Awaited
  <2>3. /\ call' \in [Calls -> CallState] /\ call'[f] = Reload(c, next)
        /\ \A g \in Calls \ {f} : call'[g] = call[g]
    BY <1>2, <1>4, <2>1 DEF Put
  <2>4. QED
    BY <2>1, <2>2, <2>3
<1>5. Put(f, Reload(c, "cleared")) \/ Put(f, Reload(c, "done"))
  BY DEF Clear, Retry, Discard
<1>6. ~Bears(f, c)
  BY <1>1 DEF Bears, Awaited
<1>7. \A i \in DOMAIN queue : queue[i].text \in Submits
  <2>1. \A i \in DOMAIN queue : queue[i] \in Item
    BY <1>2
  <2>2. QED
    BY <2>1 DEF Item
<1>8. queue' \in Seq(Item) /\ DistinctIds(queue') /\ fate' \in Fate
  <2>1. CASE Clear(f)
    <3>1. Keep(DOMAIN queue \ WithStatus("pending"))
      BY <2>1 DEF Clear
    <3>2. queue' \in Seq(Item) /\ DistinctIds(queue')
      BY <1>2, <3>1, Keeping
    <3>3. {queue[i].text : i \in WithStatus("pending")} \subseteq Submits
      BY <1>7 DEF WithStatus
    <3>4. fate' \in Fate
      BY <1>2, <2>1, <3>3 DEF Clear, Fate
    <3>5. QED
      BY <3>2, <3>4
  <2>2. CASE Retry(f)
    <3>1. PICK i \in DOMAIN queue : SetStatus({i}, "pending")
      BY <2>2 DEF Retry
    <3>2. queue' \in Seq(Item) /\ DistinctIds(queue')
      BY <1>2, <3>1, Restating
    <3>3. fate' \in Fate
      BY <1>2, <2>2 DEF Retry, Fate
    <3>4. QED
      BY <3>2, <3>3
  <2>3. CASE Discard(f)
    <3>1. PICK i \in DOMAIN queue :
              /\ Drop({i})
              /\ fate' = [fate EXCEPT !.dropped = @ \cup {queue[i].text},
                                      !.meddled = @ \/ queue[i].status = "claimed"]
      BY <2>3 DEF Discard
    <3>2. queue' \in Seq(Item) /\ DistinctIds(queue')
      BY <1>2, <3>1, Dropping
    <3>3. fate' \in Fate
      BY <1>2, <1>7, <3>1 DEF Fate
    <3>4. QED
      BY <3>2, <3>3
  <2>4. QED
    BY <2>1, <2>2, <2>3
<1>9. QED
  BY <1>1, <1>3, <1>4, <1>5, <1>6, <1>8 DEF CallEdits

\* The operator and the owner act on the engine alone.
OnlyShell ==
    /\ shell' \in Shell /\ events' \in 0..MaxActs
    /\ UNCHANGED <<queue, call, fate>>
    /\ \/ shell'.phase = shell.phase
       \/ shell'.phase = "closing"
       \/ shell'.phase = "closed" /\ \A f \in Calls : ~Settling(f)

LEMMA ShellSteps ==
    ASSUME QueueOK, Interrupt \/ BeginSteer \/ Shutdown \/ Dispose
    PROVE  OnlyShell
<1>1. shell \in Shell /\ events' \in 0..MaxActs
  BY ActOrNot DEF QueueOK, QueueTypeOK, Interrupt, BeginSteer, Shutdown, Dispose
<1>2. Interrupted(shell) \in Shell /\ Interrupted(shell).phase = shell.phase
  <2>1. shell.epoch + 1 \in Nat /\ shell.skip \cup {shell.epoch} \in SUBSET Nat
    BY <1>1 DEF Shell
  <2> DEFINE skip == shell.skip \cup {shell.epoch}
             paused == shell.count > 0
             epoch == shell.epoch + 1
  <2>2. skip \in SUBSET Nat /\ paused \in BOOLEAN /\ epoch \in Nat
    BY <2>1
  <2>3. Interrupted(shell) = [shell EXCEPT !.skip = skip, !.paused = paused,
                                           !.epoch = epoch, !.busy = FALSE]
    BY DEF Interrupted
  <2> HIDE DEF skip, paused, epoch
  <2>4. QED
    BY <1>1, <2>2, <2>3 DEF Shell
<1>3. CASE Interrupt
  <2>1. shell.cancelled + 1 \in Nat
    BY <1>1 DEF Shell
  <2>2. shell' \in Shell /\ shell'.phase = shell.phase
    BY <1>1, <1>2, <1>3, <2>1 DEF Interrupt, Shell
  <2>3. QED
    BY <1>1, <1>3, <2>2 DEF OnlyShell, Interrupt
<1>4. CASE BeginSteer
  BY <1>1, <1>4 DEF OnlyShell, BeginSteer, Shell
<1>5. CASE Shutdown
  <2>1. \E e \in Shell : shell' = [e EXCEPT !.phase = "closing"]
    BY <1>1, <1>2, <1>5 DEF Shutdown
  <2>2. shell' \in Shell /\ shell'.phase = "closing"
    BY <2>1 DEF Shell
  <2>3. QED
    BY <1>1, <1>5, <2>2 DEF OnlyShell, Shutdown
<1>6. CASE Dispose
  BY <1>1, <1>6 DEF OnlyShell, Dispose, Shell
<1>7. QED
  BY <1>3, <1>4, <1>5, <1>6

\* Another process resumes the session.
Resumed ==
    /\ SetStatus(Claimed, "action")
    /\ shell' \in Shell /\ shell'.phase = "open" /\ events' \in 0..MaxActs
    /\ call' \in [Calls -> CallState]
    /\ \A f \in Calls : /\ CallOK(f, call'[f]) /\ call'[f].held = <<>>
                        /\ call'[f] = call[f] \/ (call'[f].pc = "gone" /\ ~Bears(f, call'[f]))
    /\ fate' = fate

LEMMA RestartSteps ==
    ASSUME QueueOK, Restart
    PROVE  Resumed
<1>1. queue \in Seq(Item) /\ DistinctIds(queue) /\ call \in [Calls -> CallState]
  BY DEF QueueOK, QueueTypeOK
<1>2. SetStatus(Claimed, "action")
  <2>1. \A i \in DOMAIN queue : i \in Claimed <=> queue[i].status = "claimed"
    BY DEF Claimed
  <2>2. QED
    BY <2>1 DEF Restart, SetStatus
<1>3. shell' \in Shell /\ shell'.phase = "open" /\ events' \in 0..MaxActs /\ fate' = fate
  <2>1. Cardinality(WithStatus("pending")) \in Nat
    BY SnapshotTyped
  <2>2. shell' \in Shell /\ shell'.phase = "open"
    BY <2>1 DEF Restart, Shell
  <2>3. QED
    BY <2>2, ActOrNot DEF Restart
<1>4. \A f \in Calls : call'[f] = IF call[f].pc \in {"new", "done", "gone"} THEN call[f]
                                  ELSE Resting("gone")
  BY DEF Restart
<1>5. ASSUME NEW f \in Calls
      PROVE  /\ call'[f] \in CallState /\ CallOK(f, call'[f]) /\ call'[f].held = <<>>
             /\ call'[f] = call[f] \/ (call'[f].pc = "gone" /\ ~Bears(f, call'[f]))
  <2>1. CASE call[f].pc \in {"new", "done", "gone"}
    BY <1>4, <2>1, CallTyped DEF CallOK
  <2>2. CASE call[f].pc \notin {"new", "done", "gone"}
    BY <1>4, <2>2, RestingOK
  <2>3. QED
    BY <2>1, <2>2
<1>6. call' \in [Calls -> CallState]
  <2>1. DOMAIN call' = Calls /\ call' = [f \in Calls |-> call'[f]]
    BY DEF Restart
  <2>2. QED
    BY <1>5, <2>1
<1>7. QED
  BY <1>2, <1>3, <1>5, <1>6 DEF Resumed

\* Every step is of one of these kinds.
LEMMA StepKinds ==
    ASSUME QueueOK, ClosedInv, QueueNext
    PROVE  \/ \E f \in Calls : \/ Moves(f)
                               \/ \E i \in DOMAIN queue : CallClaims(f, i)
                               \/ Quarantine(f) \/ Acknowledge(f) \/ PutBack(f)
                               \/ Push(f) \/ Clear(f) \/ Retry(f) \/ Discard(f)
           \/ OnlyShell \/ Restart
<1>1. \/ \E f \in Calls : CallStep(f)
      \/ \E f \in Calls : Admit(f) \/ Submit(f) \/ Ignore(f) \/ Resume(f) \/ Clear(f)
                             \/ Retry(f) \/ Discard(f)
      \/ Interrupt \/ BeginSteer \/ Shutdown \/ Dispose \/ Restart
  BY DEF QueueNext
<1>2. CASE \E f \in Calls : CallStep(f)
  BY <1>2, TurnMoves, DrainMoves, ClaimMoves DEF CallStep
<1>3. CASE \E f \in Calls : Admit(f) \/ Submit(f) \/ Ignore(f) \/ Resume(f) \/ Clear(f)
                             \/ Retry(f) \/ Discard(f)
  BY <1>3, TurnMoves, DrainMoves
<1>4. CASE Interrupt \/ BeginSteer \/ Shutdown \/ Dispose \/ Restart
  BY <1>4, ShellSteps
<1>5. QED
  BY <1>1, <1>2, <1>3, <1>4

\* The claimed item that the last claim of a call names.
Mine(f) == At(Top(call[f]).id, {"claimed"})

\* What the end of a claim does to the queue.
QueuePops(f) ==
    /\ queue' \in Seq(Item) /\ DistinctIds(queue') /\ fate' \in Fate
    /\ \A j \in DOMAIN queue' : \E i \in DOMAIN queue :
          /\ queue'[j].id = queue[i].id /\ queue'[j].text = queue[i].text
          /\ i \notin Mine(f) => queue'[j].status = queue[i].status
          /\ i \in Mine(f) => /\ queue'[j].status # "claimed"
                              /\ queue'[j].status = "pending" =>
                                     queue[i].text \notin Used(Mine(f)) \ fate'.returned
    /\ \A i \in DOMAIN queue \ Mine(f) : \E j \in DOMAIN queue' : queue'[j] = queue[i]
    /\ \A i \in Mine(f) : \/ Acknowledge(f)
                          \/ \E j \in DOMAIN queue' : /\ queue'[j].id = queue[i].id
                                                      /\ queue'[j].text = queue[i].text
    /\ Gone' = Gone /\ fate'.accepted = fate.accepted /\ fate'.completed = fate.completed
    /\ fate'.meddled = fate.meddled /\ fate'.reused = fate.reused
    /\ fate.returned \subseteq fate'.returned

LEMMA PopQueue ==
    ASSUME QueueOK, NEW f \in Calls, Quarantine(f) \/ Acknowledge(f) \/ PutBack(f)
    PROVE  QueuePops(f)
<1>1. queue \in Seq(Item) /\ DistinctIds(queue) /\ fate \in Fate /\ Mine(f) \subseteq DOMAIN queue
  BY DEF QueueOK, QueueTypeOK, Mine, At
<1>2. ASSUME NEW status \in {"pending", "action"}, SetStatus(Mine(f), status), fate' \in Fate,
             Gone' = Gone, fate'.accepted = fate.accepted, fate'.completed = fate.completed,
             fate'.meddled = fate.meddled, fate'.reused = fate.reused,
             fate.returned \subseteq fate'.returned,
             status = "pending" =>
                 \A i \in Mine(f) : queue[i].text \notin Used(Mine(f)) \ fate'.returned
      PROVE  QueuePops(f)
  <2>1. /\ queue' \in Seq(Item) /\ DistinctIds(queue') /\ DOMAIN queue' = DOMAIN queue
        /\ \A i \in DOMAIN queue :
              /\ queue'[i].id = queue[i].id /\ queue'[i].text = queue[i].text
              /\ queue'[i].status = IF i \in Mine(f) THEN status ELSE queue[i].status
    BY <1>1, <1>2, Restating
  <2>2. \A i \in DOMAIN queue \ Mine(f) : queue'[i] = queue[i]
    BY <1>2, <2>1 DEF SetStatus
  <2>3. QED
    BY <1>1, <1>2, <2>1, <2>2 DEF QueuePops
<1>3. CASE Quarantine(f)
  <2>1. SetStatus(Mine(f), "action") /\ fate' = fate
    BY <1>3 DEF Quarantine, Mine
  <2>2. QED
    BY <1>1, <1>2, <2>1 DEF Gone
<1>4. CASE PutBack(f)
  <2>1. /\ SetStatus(Mine(f), "pending")
        /\ fate' = [fate EXCEPT !.returned =
                        @ \cup ({queue[i].text : i \in Mine(f)} \cap Used(Mine(f)))]
    BY Zenon, <1>4 DEF PutBack, Mine
  <2>2. \A i \in DOMAIN queue : queue[i].text \in Submits
    <3>1. \A i \in DOMAIN queue : queue[i] \in Item
      BY <1>1
    <3>2. QED
      BY <3>1 DEF Item
  <2>3. {queue[i].text : i \in Mine(f)} \subseteq Submits
    BY <1>1, <2>2
  <2>4. /\ fate' \in Fate /\ Gone' = Gone /\ fate'.accepted = fate.accepted
        /\ fate'.completed = fate.completed /\ fate'.meddled = fate.meddled
        /\ fate'.reused = fate.reused /\ fate.returned \subseteq fate'.returned
        /\ {queue[i].text : i \in Mine(f)} \cap Used(Mine(f)) \subseteq fate'.returned
    BY <1>1, <2>1, <2>3 DEF Fate, Gone
  <2>5. \A i \in Mine(f) : queue[i].text \notin Used(Mine(f)) \ fate'.returned
    BY <2>4
  <2>6. QED
    BY <1>2, <2>1, <2>4, <2>5
<1>5. CASE Acknowledge(f)
  <2>1. fate' = fate
    BY <1>5 DEF Acknowledge
  <2>2. CASE Mine(f) = {} /\ queue' = queue
    BY <1>1, <2>1, <2>2 DEF QueuePops, Gone
  <2>3. CASE Drop(Mine(f))
    <3>1. PICK i \in Mine(f) : queue' = RemoveAt(queue, i)
      BY <2>3 DEF Drop
    <3>2. Drop({i}) /\ i \in DOMAIN queue
      BY <1>1, <3>1 DEF Drop
    <3>3. queue' \in Seq(Item) /\ DistinctIds(queue') /\ Remain(DOMAIN queue \ {i})
      BY <1>1, <3>2, Dropping
    <3>4. Mine(f) = {i}
      BY <1>1, <3>1 DEF Mine, At, DistinctIds
    <3>5. QED
      BY <1>1, <1>5, <2>1, <3>3, <3>4 DEF QueuePops, Remain, Gone
  <2>4. QED
    BY <1>5, <2>2, <2>3 DEF Acknowledge, Mine
<1>6. QED
  BY <1>3, <1>4, <1>5

\* The state stays well-formed.
LEMMA OKStep ==
    ASSUME QueueOK, ClosedInv, QueueNext
    PROVE  QueueOK'
<1>1. /\ queue \in Seq(Item) /\ shell \in Shell /\ call \in [Calls -> CallState]
      /\ events \in 0..MaxActs /\ fate \in Fate /\ DistinctIds(queue)
      /\ \A f \in Calls : CallOK(f, call[f])
  BY DEF QueueOK, QueueTypeOK
<1>2. ASSUME NEW f \in Calls, call' \in [Calls -> CallState], CallOK(f, call'[f]),
             \A g \in Calls \ {f} : call'[g] = call[g],
             queue' \in Seq(Item), DistinctIds(queue'), shell' \in Shell, events' \in 0..MaxActs,
             fate' \in Fate
      PROVE  QueueOK'
  <2>1. \A g \in Calls : CallOK(g, call'[g])
    BY <1>1, <1>2
  <2>2. QED
    BY <1>2, <2>1 DEF QueueOK, QueueTypeOK
<1>3. ASSUME NEW f \in Calls, Moves(f) PROVE QueueOK'
  BY <1>1, <1>2, <1>3 DEF Moves, CallMoves, ShellMoves, FateGrows
<1>4. ASSUME NEW f \in Calls, NEW i \in DOMAIN queue, CallClaims(f, i) PROVE QueueOK'
  <2>1. queue' \in Seq(Item) /\ DistinctIds(queue')
    BY <1>1, <1>4, Restating DEF CallClaims
  <2>2. QED
    BY <1>1, <1>2, <1>4, <2>1 DEF CallClaims
<1>5. ASSUME NEW f \in Calls, Quarantine(f) \/ Acknowledge(f) \/ PutBack(f) PROVE QueueOK'
  BY <1>2, <1>5, PopMoves, PopQueue DEF CallPops, ShellMoves, QueuePops
<1>6. ASSUME NEW f \in Calls, Push(f) PROVE QueueOK'
  BY <1>1, <1>2, <1>6, PushMoves DEF CallPushes
<1>7. ASSUME NEW f \in Calls, Clear(f) \/ Retry(f) \/ Discard(f) PROVE QueueOK'
  BY <1>2, <1>7, EditMoves DEF CallEdits, ShellMoves
<1>8. CASE OnlyShell
  <2>1. QueueTypeOK'
    BY <1>1, <1>8 DEF OnlyShell, QueueTypeOK
  <2>2. QED
    BY <1>1, <1>8, <2>1 DEF OnlyShell, QueueOK
<1>9. CASE Restart
  <2>1. Resumed
    BY <1>9, RestartSteps
  <2>2. Claimed \in SUBSET DOMAIN queue
    BY DEF Claimed
  <2>3. queue' \in Seq(Item) /\ DistinctIds(queue')
    BY <1>1, <2>1, <2>2, Restating DEF Resumed
  <2>4. QED
    BY <1>1, <2>1, <2>3 DEF Resumed, QueueOK, QueueTypeOK
<1>10. QED
  BY <1>3, <1>4, <1>5, <1>6, <1>7, <1>8, <1>9, StepKinds

LEMMA ClosedStep ==
    ASSUME QueueOK, ClosedInv, QueueNext
    PROVE  ClosedInv'
<1> SUFFICES ASSUME shell'.phase = "closed", NEW f \in Submits
             PROVE  call'[f].held = <<>> /\ call'[f].pc \in Ashore
  BY DEF ClosedInv
<1>1. f \in Calls /\ f \notin Edits
  BY SubmitsApart
<1>2. shell.phase = "closed" => call[f].held = <<>> /\ call[f].pc \in Ashore
  BY DEF ClosedInv
<1>3. ASSUME NEW g \in Calls, Moves(g) PROVE call'[f].held = <<>> /\ call'[f].pc \in Ashore
  BY <1>1, <1>2, <1>3 DEF Moves, CallMoves, ShellMoves
<1>4. ASSUME NEW g \in Calls, NEW i \in DOMAIN queue, CallClaims(g, i) PROVE FALSE
  BY <1>4 DEF CallClaims, Closing
<1>5. ASSUME NEW g \in Calls, Quarantine(g) \/ Acknowledge(g) \/ PutBack(g)
      PROVE  call'[f].held = <<>> /\ call'[f].pc \in Ashore
  BY <1>1, <1>2, <1>5, PopMoves DEF CallPops, ShellMoves
<1>6. ASSUME NEW g \in Calls, Push(g) PROVE call'[f].held = <<>> /\ call'[f].pc \in Ashore
  BY <1>1, <1>2, <1>6, PushMoves DEF CallPushes, Ashore
<1>7. ASSUME NEW g \in Calls, Clear(g) \/ Retry(g) \/ Discard(g)
      PROVE  call'[f].held = <<>> /\ call'[f].pc \in Ashore
  BY <1>1, <1>2, <1>7, EditMoves DEF CallEdits, ShellMoves
<1>8. CASE OnlyShell
  <2>1. CASE shell.phase = "closed"
    BY <1>2, <1>8, <2>1 DEF OnlyShell
  <2>2. CASE shell.phase # "closed"
    <3>1. ~Settling(f) /\ call' = call
      BY <1>1, <1>8, <2>2 DEF OnlyShell
    <3>2. call[f].held = <<>> /\ call[f].pc \in Labels /\ CallOK(f, call[f])
      BY <1>1, <3>1, CallTyped DEF Settling
    <3>3. QED
      BY <3>1, <3>2 DEF Settling, Labels, CallOK, Ashore
  <2>3. QED
    BY <2>1, <2>2
<1>9. CASE Restart
  BY <1>9, RestartSteps DEF Resumed
<1>10. QED
  BY <1>3, <1>4, <1>5, <1>6, <1>7, <1>8, <1>9, StepKinds

LEMMA OKInit ==
    ASSUME QueueInit
    PROVE  QueueOK /\ ClosedInv
<1>1. \A f \in Calls : call[f] = Resting("new") \/ call[f] = Resting("done")
  BY DEF QueueInit
<1>2. ASSUME NEW f \in Calls
      PROVE  call[f] \in CallState /\ CallOK(f, call[f]) /\ call[f].held = <<>>
  <2>1. CallOK(f, Resting("new"))
    BY RestingOK DEF CallOK, Awaited
  <2>2. QED
    BY <1>1, <2>1, RestingOK
<1>3. call \in [Calls -> CallState]
  <2>1. PICK cast \in Casts :
            call = [f \in Calls |-> Resting(IF f \in cast.calls THEN "new" ELSE "done")]
    BY DEF QueueInit
  <2>2. QED
    BY <1>2, <2>1
<1>4. events \in 0..MaxActs
  <2>1. PICK cast \in Casts : events = MaxActs - cast.events
    BY DEF QueueInit
  <2>2. cast.events \in 0..MaxActs /\ MaxActs \in Nat
    BY QueueAssumption DEF QueueAssumption
  <2>3. QED
    BY <2>1, <2>2
<1>5. shell \in Shell /\ shell.phase = "open"
  BY DEF QueueInit, Shell
<1>6. fate \in Fate
  BY DEF QueueInit, Fate
<1>7. queue \in Seq(Item) /\ DistinctIds(queue)
  BY DEF QueueInit, DistinctIds
<1>8. QED
  BY <1>2, <1>3, <1>4, <1>5, <1>6, <1>7 DEF QueueOK, QueueTypeOK, ClosedInv

---------------------------------------------------------------------------
\* Who holds what is in flight.

\* An item's holders, by claim.
HeldBy(i) == \E f \in Calls : \E k \in DOMAIN call[f].held : call[f].held[k].id = queue[i].id

LEMMA HeldByHolders ==
    ClaimsHeld <=> \A i \in DOMAIN queue : queue[i].status = "claimed" => HeldBy(i)
  BY DEF ClaimsHeld, Claimed, Holders, HeldBy

LEMMA HoldsKept ==
    ASSUME QueueOK, HolderInv, queue' = queue, \A f \in Calls : call'[f].held = call[f].held,
           fate'.meddled = fate.meddled, fate'.reused = fate.reused
    PROVE  HolderInv'
<1>1. ClaimsHeld'
  BY DEF HolderInv, ClaimsHeld, Claimed, Holders
<1>2. HoldsClaimed => HoldsClaimed'
  BY DEF HoldsClaimed, Claimed
<1>3. HeldOnce => HeldOnce'
  BY DEF HeldOnce
<1>4. QED
  BY <1>1, <1>2, <1>3 DEF HolderInv

\* What of a call's claims is left when the last one is popped.
LEMMA HeldAfterPop ==
    ASSUME QueueOK, NEW f \in Calls, CallPops(f)
    PROVE  /\ Len(call[f].held) \in Nat \ {0} /\ DOMAIN call[f].held = 1..Len(call[f].held)
           /\ DOMAIN call'[f].held = 1..(Len(call[f].held) - 1)
           /\ \A k \in DOMAIN call'[f].held : call'[f].held[k] = call[f].held[k]
           /\ Top(call[f]) = call[f].held[Len(call[f].held)]
<1>1. call[f].held \in Seq(Claim) /\ call[f].held # <<>>
  BY CallTyped DEF CallPops
<1>2. QED
  BY <1>1, Popping DEF CallPops, Top

LEMMA HeldAfterClaim ==
    ASSUME QueueOK, NEW f \in Calls, NEW i \in DOMAIN queue, CallClaims(f, i)
    PROVE  /\ Len(call[f].held) \in Nat /\ DOMAIN call[f].held = 1..Len(call[f].held)
           /\ DOMAIN call'[f].held = 1..(Len(call[f].held) + 1)
           /\ \A k \in DOMAIN call[f].held : call'[f].held[k] = call[f].held[k]
           /\ call'[f].held[Len(call[f].held) + 1].id = queue[i].id
           /\ call'[f].held[Len(call[f].held) + 1].text = queue[i].text
<1> DEFINE claim == [id |-> queue[i].id, text |-> queue[i].text]
<1>1. call[f].held \in Seq(Claim)
  BY CallTyped
<1>2. claim \in Claim /\ claim.id = queue[i].id /\ claim.text = queue[i].text
  <2>1. queue[i] \in Item
    BY DEF QueueOK, QueueTypeOK
  <2>2. QED
    BY <2>1 DEF Item, Claim
<1>3. call'[f].held = Append(call[f].held, claim)
  BY DEF CallClaims
<1> HIDE DEF claim
<1>4. QED
  BY <1>1, <1>2, <1>3, Pushing

LEMMA HolderStep ==
    ASSUME QueueOK, ClosedInv, HolderInv, QueueNext
    PROVE  HolderInv'
<1>1. queue \in Seq(Item) /\ DistinctIds(queue)
  BY DEF QueueOK, QueueTypeOK
<1>2. \A i \in DOMAIN queue : queue[i].status = "claimed" => HeldBy(i)
  BY HeldByHolders DEF HolderInv
<1>3. ~fate.meddled => /\ ~fate.reused
                       /\ HeldOnce
                       /\ \A g \in Calls : \A k \in DOMAIN call[g].held : \E i \in DOMAIN queue :
                             queue[i].status = "claimed" /\ queue[i].id = call[g].held[k].id
  BY DEF HolderInv, HoldsClaimed, Claimed
<1>4. ASSUME \A i \in DOMAIN queue' : queue'[i].status = "claimed" => HeldBy(i)',
             ~fate'.meddled =>
                 /\ ~fate'.reused
                 /\ \A g, h \in Calls : \A k \in DOMAIN call'[g].held, j \in DOMAIN call'[h].held :
                       call'[g].held[k].id = call'[h].held[j].id => g = h /\ k = j
                 /\ \A g \in Calls : \A k \in DOMAIN call'[g].held : \E i \in DOMAIN queue' :
                       queue'[i].status = "claimed" /\ queue'[i].id = call'[g].held[k].id
      PROVE  HolderInv'
  BY <1>4 DEF HolderInv, ClaimsHeld, Claimed, Holders, HeldBy, HeldOnce, HoldsClaimed
<1>5. ASSUME NEW f \in Calls, Moves(f) PROVE HolderInv'
  BY <1>5, HoldsKept DEF Moves, CallMoves, FateGrows
<1>6. ASSUME NEW f \in Calls, NEW i \in DOMAIN queue, CallClaims(f, i) PROVE HolderInv'
  <2> DEFINE last == Len(call[f].held) + 1
  <2>1. /\ Len(call[f].held) \in Nat /\ DOMAIN call[f].held = 1..Len(call[f].held)
        /\ DOMAIN call'[f].held = 1..last
        /\ \A k \in DOMAIN call[f].held : call'[f].held[k] = call[f].held[k]
        /\ call'[f].held[last].id = queue[i].id
    BY <1>6, HeldAfterClaim
  <2>2. /\ DOMAIN queue' = DOMAIN queue
        /\ \A j \in DOMAIN queue :
              /\ queue'[j].id = queue[j].id
              /\ queue'[j].status = IF j = i THEN "claimed" ELSE queue[j].status
    BY <1>1, <1>6, Restating DEF CallClaims
  <2>3. /\ \A g \in Calls \ {f} : call'[g] = call[g]
        /\ fate' = fate /\ queue[i].status = "pending"
    BY <1>6 DEF CallClaims
  <2>4. last \in DOMAIN call'[f].held /\ last \notin DOMAIN call[f].held
        /\ \A k \in DOMAIN call'[f].held : k = last \/ k \in DOMAIN call[f].held
    BY <2>1
  <2>5. \A g \in Calls : \A k \in DOMAIN call[g].held :
            k \in DOMAIN call'[g].held /\ call'[g].held[k] = call[g].held[k]
    BY <2>1, <2>3
  <2>6. \A j \in DOMAIN queue' : queue'[j].status = "claimed" => HeldBy(j)'
    <3>1. ASSUME NEW j \in DOMAIN queue', queue'[j].status = "claimed"
          PROVE  \E g \in Calls : \E k \in DOMAIN call'[g].held : call'[g].held[k].id = queue'[j].id
      <4>1. CASE j = i
        BY <2>1, <2>2, <2>4, <4>1
      <4>2. CASE j # i
        BY <1>2, <2>2, <2>5, <3>1, <4>2 DEF HeldBy
      <4>3. QED
        BY <4>1, <4>2
    <3>2. QED
      BY <3>1 DEF HeldBy
  <2>7. ~fate.meddled => \A g \in Calls : \A k \in DOMAIN call[g].held :
            call[g].held[k].id # queue[i].id
    BY <1>1, <1>3, <2>3 DEF DistinctIds
  <2>8. ASSUME ~fate.meddled, NEW g \in Calls, NEW h \in Calls, NEW k \in DOMAIN call'[g].held,
               NEW j \in DOMAIN call'[h].held, call'[g].held[k].id = call'[h].held[j].id
        PROVE  g = h /\ k = j
    <3> HIDE DEF last
    <3>1. (k \in DOMAIN call[g].held /\ call'[g].held[k] = call[g].held[k]) \/ (g = f /\ k = last)
      BY <2>3, <2>4, <2>5
    <3>2. (j \in DOMAIN call[h].held /\ call'[h].held[j] = call[h].held[j]) \/ (h = f /\ j = last)
      BY <2>3, <2>4, <2>5
    <3>3. call'[f].held[last].id = queue[i].id
      BY <2>1
    <3>4. QED
      BY <1>3, <2>7, <2>8, <3>1, <3>2, <3>3 DEF HeldOnce
  <2>9. ASSUME ~fate.meddled, NEW g \in Calls, NEW k \in DOMAIN call'[g].held
        PROVE  \E j \in DOMAIN queue' :
                   queue'[j].status = "claimed" /\ queue'[j].id = call'[g].held[k].id
    <3>1. CASE k \in DOMAIN call[g].held
      BY <1>3, <2>2, <2>5, <2>9, <3>1
    <3>2. CASE k \notin DOMAIN call[g].held
      <4>1. g = f /\ k = last
        BY <2>3, <2>4, <3>2
      <4>2. QED
        BY <2>1, <2>2, <4>1
    <3>3. QED
      BY <3>1, <3>2
  <2> HIDE DEF last
  <2>10. QED
    BY <1>3, <1>4, <2>3, <2>6, <2>8, <2>9
<1>7. ASSUME NEW f \in Calls, Quarantine(f) \/ Acknowledge(f) \/ PutBack(f) PROVE HolderInv'
  <2>1. CallPops(f) /\ QueuePops(f)
    BY <1>7, PopMoves, PopQueue
  <2> DEFINE last == Len(call[f].held)
  <2>2. /\ last \in Nat \ {0} /\ DOMAIN call[f].held = 1..last
        /\ DOMAIN call'[f].held = 1..(last - 1)
        /\ \A k \in DOMAIN call'[f].held : call'[f].held[k] = call[f].held[k]
        /\ Top(call[f]) = call[f].held[last]
    BY <2>1, HeldAfterPop
  <2>3. \A g \in Calls \ {f} : call'[g] = call[g]
    BY <2>1 DEF CallPops
  <2>4. /\ last \in DOMAIN call[f].held /\ last \notin DOMAIN call'[f].held
        /\ \A k \in DOMAIN call[f].held : k = last \/ k \in DOMAIN call'[f].held
        /\ \A k \in DOMAIN call'[f].held : k \in DOMAIN call[f].held
    BY <2>2
  <2>5. \A i \in DOMAIN queue : i \in Mine(f) <=>
            queue[i].id = call[f].held[last].id /\ queue[i].status = "claimed"
    BY <2>2 DEF Mine, At
  <2> HIDE DEF last
  <2>6. \A g \in Calls : \A k \in DOMAIN call'[g].held :
            /\ k \in DOMAIN call[g].held /\ call'[g].held[k] = call[g].held[k]
            /\ g # f \/ k # last
    BY <2>2, <2>3, <2>4
  <2>7. \A g \in Calls : \A k \in DOMAIN call[g].held :
            \/ k \in DOMAIN call'[g].held /\ call'[g].held[k] = call[g].held[k]
            \/ g = f /\ k = last
    BY <2>2, <2>3, <2>4
  <2>8. ASSUME NEW j \in DOMAIN queue', queue'[j].status = "claimed"
        PROVE  \E g \in Calls : \E k \in DOMAIN call'[g].held : call'[g].held[k].id = queue'[j].id
    <3>1. PICK i \in DOMAIN queue : i \notin Mine(f) /\ queue'[j].id = queue[i].id
                                    /\ queue[i].status = "claimed"
      BY <2>1, <2>8 DEF QueuePops
    <3>2. PICK g \in Calls : \E k \in DOMAIN call[g].held : call[g].held[k].id = queue[i].id
      BY <1>2, <3>1 DEF HeldBy
    <3>3. PICK k \in DOMAIN call[g].held : call[g].held[k].id = queue[i].id
      BY <3>2
    <3>4. ~(g = f /\ k = last)
      BY <2>5, <3>1, <3>3
    <3>5. QED
      BY <2>7, <3>1, <3>3, <3>4
  <2>9. ASSUME ~fate.meddled, NEW g \in Calls, NEW k \in DOMAIN call'[g].held
        PROVE  \E j \in DOMAIN queue' :
                   queue'[j].status = "claimed" /\ queue'[j].id = call'[g].held[k].id
    <3>1. /\ k \in DOMAIN call[g].held /\ call'[g].held[k] = call[g].held[k]
          /\ g # f \/ k # last
      BY <2>6
    <3>2. PICK i \in DOMAIN queue : queue[i].status = "claimed" /\ queue[i].id = call[g].held[k].id
      BY <1>3, <2>9, <3>1
    <3>3. i \notin Mine(f)
      BY <1>3, <2>4, <2>5, <2>9, <3>1, <3>2 DEF HeldOnce
    <3>4. QED
      BY <2>1, <3>1, <3>2, <3>3 DEF QueuePops
  <2>10. ~fate.meddled =>
            \A g, h \in Calls : \A k \in DOMAIN call'[g].held, j \in DOMAIN call'[h].held :
               call'[g].held[k].id = call'[h].held[j].id => g = h /\ k = j
    BY <1>3, <2>6 DEF HeldOnce
  <2>11. fate'.meddled = fate.meddled /\ fate'.reused = fate.reused
    BY <2>1 DEF QueuePops
  <2>12. \A j \in DOMAIN queue' : queue'[j].status = "claimed" => HeldBy(j)'
    BY <2>8 DEF HeldBy
  <2>13. QED
    BY <1>3, <1>4, <2>9, <2>10, <2>11, <2>12
<1>8. ASSUME NEW f \in Calls, Push(f) PROVE HolderInv'
  <2>1. CallPushes(f)
    BY <1>8, PushMoves
  <2>2. \A g \in Calls : call'[g].held = call[g].held
    BY <2>1 DEF CallPushes
  <2>3. /\ \A i \in DOMAIN queue : i \in DOMAIN queue' /\ queue'[i] = queue[i]
        /\ \A i \in DOMAIN queue' : queue'[i].status = "claimed" => i \in DOMAIN queue
    BY <2>1 DEF CallPushes
  <2>4. ~fate.meddled => ~fate'.reused /\ fate'.meddled = fate.meddled
    <3>1. ~fate.meddled => NextItemId \notin HeldIds
      BY <1>3, <2>1 DEF HeldIds, CallPushes
    <3>2. QED
      BY <1>3, <2>1, <3>1 DEF CallPushes
  <2>5. \A j \in DOMAIN queue' : queue'[j].status = "claimed" => HeldBy(j)'
    BY <1>2, <2>2, <2>3 DEF HeldBy
  <2>6. fate'.meddled = fate.meddled
    BY <2>1 DEF CallPushes
  <2>7. ~fate.meddled => \A g \in Calls : \A k \in DOMAIN call'[g].held : \E i \in DOMAIN queue' :
                       queue'[i].status = "claimed" /\ queue'[i].id = call'[g].held[k].id
    BY <1>3, <2>2, <2>3
  <2>8. ~fate.meddled =>
            \A g, h \in Calls : \A k \in DOMAIN call'[g].held, j \in DOMAIN call'[h].held :
               call'[g].held[k].id = call'[h].held[j].id => g = h /\ k = j
    BY <1>3, <2>2 DEF HeldOnce
  <2>9. QED
    BY <1>4, <2>4, <2>5, <2>6, <2>7, <2>8
<1>9. ASSUME NEW f \in Calls, Clear(f) \/ Retry(f) \/ Discard(f) PROVE HolderInv'
  <2>1. CallEdits(f)
    BY <1>9, EditMoves
  <2>2. \A g \in Calls : call'[g].held = call[g].held
    BY <2>1 DEF CallEdits
  <2>3. \A j \in DOMAIN queue' : queue'[j].status = "claimed" =>
            \E i \in DOMAIN queue : queue[i].status = "claimed" /\ queue[i].id = queue'[j].id
    <3>1. CASE Clear(f)
      <4>1. Remain(DOMAIN queue \ WithStatus("pending"))
        BY <1>1, <3>1, Keeping DEF Clear
      <4>2. QED
        BY <4>1 DEF Remain
    <3>2. CASE Retry(f)
      <4>1. PICK i \in DOMAIN queue : SetStatus({i}, "pending")
        BY <3>2 DEF Retry
      <4>2. QED
        BY <1>1, <4>1, Restating
    <3>3. CASE Discard(f)
      <4>1. PICK i \in DOMAIN queue : Drop({i})
        BY <3>3 DEF Discard
      <4>2. Remain(DOMAIN queue \ {i})
        BY <1>1, <4>1, Dropping
      <4>3. QED
        BY <4>2 DEF Remain
    <3>4. QED
      BY <1>9, <3>1, <3>2, <3>3
  <2>4. /\ fate.meddled => fate'.meddled
        /\ fate'.reused = fate.reused
        /\ ~fate'.meddled => \A i \in DOMAIN queue : queue[i].status = "claimed" =>
               \E j \in DOMAIN queue' : queue'[j] = queue[i]
    <3>0. fate \in Fate
      BY DEF QueueOK
    <3>1. CASE Clear(f)
      <4>1. Remain(DOMAIN queue \ WithStatus("pending"))
        BY <1>1, <3>1, Keeping DEF Clear
      <4>2. \A i \in DOMAIN queue : queue[i].status = "claimed" =>
               \E j \in DOMAIN queue' : queue'[j] = queue[i]
        BY <4>1 DEF Remain, WithStatus
      <4>3. fate'.meddled = fate.meddled /\ fate'.reused = fate.reused
        BY <3>0, <3>1 DEF Clear, Fate
      <4>4. QED
        BY <4>2, <4>3
    <3>2. CASE Retry(f)
      BY <3>0, <3>2 DEF Retry, Fate
    <3>3. CASE Discard(f)
      <4>1. PICK i \in DOMAIN queue :
                /\ Drop({i})
                /\ fate' = [fate EXCEPT !.dropped = @ \cup {queue[i].text},
                                        !.meddled = @ \/ queue[i].status = "claimed"]
        BY <3>3 DEF Discard
      <4>2. Remain(DOMAIN queue \ {i})
        BY <1>1, <4>1, Dropping
      <4>3. fate'.reused = fate.reused
        BY <3>0, <4>1 DEF Fate
      <4>4. fate'.meddled = (fate.meddled \/ queue[i].status = "claimed")
        BY Zenon, <3>0, <4>1 DEF Fate
      <4>5. ASSUME ~fate'.meddled, NEW j \in DOMAIN queue, queue[j].status = "claimed"
            PROVE  \E k \in DOMAIN queue' : queue'[k] = queue[j]
        BY <4>2, <4>4, <4>5 DEF Remain
      <4>6. QED
        BY <4>3, <4>4, <4>5
    <3>4. QED
      BY <1>9, <3>1, <3>2, <3>3
  <2>5. \A j \in DOMAIN queue' : queue'[j].status = "claimed" => HeldBy(j)'
    BY <1>2, <2>2, <2>3 DEF HeldBy
  <2>6. ~fate'.meddled => \A g \in Calls : \A k \in DOMAIN call'[g].held : \E i \in DOMAIN queue' :
                       queue'[i].status = "claimed" /\ queue'[i].id = call'[g].held[k].id
    BY <1>3, <2>2, <2>4
  <2>7. ~fate'.meddled =>
            /\ ~fate'.reused
            /\ \A g, h \in Calls : \A k \in DOMAIN call'[g].held, j \in DOMAIN call'[h].held :
                  call'[g].held[k].id = call'[h].held[j].id => g = h /\ k = j
    BY <1>3, <2>2, <2>4 DEF HeldOnce
  <2>8. QED
    BY <1>4, <2>5, <2>6, <2>7
<1>10. CASE OnlyShell
  BY <1>10, HoldsKept DEF OnlyShell
<1>11. CASE Restart
  <2>1. Resumed
    BY <1>11, RestartSteps
  <2>2. Claimed \in SUBSET DOMAIN queue
    BY DEF Claimed
  <2>3. \A j \in DOMAIN queue' : queue'[j].status # "claimed"
    BY <1>1, <2>1, <2>2, Restating DEF Resumed, Claimed
  <2>4. \A g \in Calls : DOMAIN call'[g].held = {}
    BY <2>1 DEF Resumed
  <2>5. QED
    BY <1>3, <1>4, <2>1, <2>3, <2>4 DEF Resumed
<1>12. QED
  BY <1>5, <1>6, <1>7, <1>8, <1>9, <1>10, <1>11, StepKinds

---------------------------------------------------------------------------
\* No accepted follow-up is lost.

\* A claim that is settled names this id.
Spends(n) ==
    \E g \in Calls : \E k \in DOMAIN call[g].held : Spent(call[g], k) /\ call[g].held[k].id = n

LEMMA SafeMeans ==
    \A t : Safe(t) <=> t \in Gone \/ \E i \in DOMAIN queue : queue[i].text = t /\ ~Spends(queue[i].id)
<1>1. \A n : n \in SpentIds <=> Spends(n)
  BY DEF SpentIds, Spends
<1>2. QED
  BY <1>1 DEF Safe

SpendsNext(n) ==
    \E g \in Calls : \E k \in DOMAIN call'[g].held :
        Spent(call'[g], k) /\ call'[g].held[k].id = n

SafeNext(t) ==
    t \in Gone' \/ \E j \in DOMAIN queue' : queue'[j].text = t /\ ~SpendsNext(queue'[j].id)

LEMMA SafeThen ==
    ASSUME \A g \in Calls : \A k \in DOMAIN call'[g].held :
               Spent(call'[g], k) => SafeNext(call'[g].held[k].text)
    PROVE  SpentSafe'
<1>1. ASSUME NEW n PROVE n \in SpentIds' <=> SpendsNext(n)
  BY DEF SpentIds, SpendsNext
<1>2. ASSUME NEW g \in Calls, NEW k \in DOMAIN call'[g].held, Spent(call'[g], k)
      PROVE  \/ call'[g].held[k].text \in Gone'
             \/ \E i \in DOMAIN queue' : /\ queue'[i].text = call'[g].held[k].text
                                        /\ queue'[i].id \notin SpentIds'
  BY <1>1, <1>2 DEF SafeNext
<1>3. QED
  BY <1>2 DEF SpentSafe, Safe

\* Nothing is lost by a step that drops only what is settled or gone, and settles a claim
\* only of what is gone.
SettlesWhatIsGone ==
    /\ \A j \in DOMAIN queue' : \E i \in DOMAIN queue :
           queue'[j].id = queue[i].id /\ queue'[j].text = queue[i].text
    /\ \A i \in DOMAIN queue :
           \/ \E j \in DOMAIN queue' : queue'[j].id = queue[i].id /\ queue'[j].text = queue[i].text
           \/ queue[i].text \in Gone'
           \/ Spends(queue[i].id)
    /\ \A g \in Calls : \A k \in DOMAIN call'[g].held :
           \/ /\ k \in DOMAIN call[g].held /\ call'[g].held[k] = call[g].held[k]
              /\ Spent(call'[g], k) => Spent(call[g], k) \/ call[g].held[k].text \in Gone'
           \/ /\ ~Spent(call'[g], k)
              /\ \E i \in DOMAIN queue : /\ call'[g].held[k].id = queue[i].id
                                         /\ call'[g].held[k].text = queue[i].text
    /\ Gone \subseteq Gone' /\ fate'.accepted = fate.accepted /\ fate'.reused = fate.reused

LEMMA KeptBySettling ==
    ASSUME QueueOK, KeptInv, SettlesWhatIsGone
    PROVE  KeptInv'
<1> SUFFICES ASSUME ~fate.reused
             PROVE  Matching' /\ SpentSafe' /\ Kept'
  BY DEF KeptInv, SettlesWhatIsGone
<1>1. Matching /\ SpentSafe /\ Kept
  BY DEF KeptInv
<1>2. DistinctIds(queue)
  BY DEF QueueOK
<1>3. ASSUME NEW t, Safe(t)
      PROVE  SafeNext(t)
  <2>1. CASE t \in Gone
    BY <2>1 DEF SettlesWhatIsGone, SafeNext
  <2>2. CASE \E i \in DOMAIN queue : queue[i].text = t /\ ~Spends(queue[i].id)
    <3>1. PICK i \in DOMAIN queue : queue[i].text = t /\ ~Spends(queue[i].id)
      BY <2>2
    <3>2. CASE t \in Gone'
      BY <3>2 DEF SafeNext
    <3>3. CASE t \notin Gone'
      <4>1. PICK j \in DOMAIN queue' : queue'[j].id = queue[i].id /\ queue'[j].text = queue[i].text
        BY <3>1, <3>3 DEF SettlesWhatIsGone
      <4>2. ASSUME NEW g \in Calls, NEW k \in DOMAIN call'[g].held, Spent(call'[g], k),
                   call'[g].held[k].id = queue'[j].id
            PROVE  FALSE
        <5>1. /\ k \in DOMAIN call[g].held /\ call'[g].held[k] = call[g].held[k]
              /\ Spent(call[g], k) \/ call[g].held[k].text \in Gone'
          BY <4>2 DEF SettlesWhatIsGone
        <5>2. call[g].held[k].text = t
          BY <1>1, <3>1, <4>1, <4>2, <5>1 DEF Matching
        <5>3. QED
          BY <3>1, <3>3, <4>1, <4>2, <5>1, <5>2 DEF Spends
      <4>3. ~SpendsNext(queue'[j].id)
        BY <4>2 DEF SpendsNext
      <4>4. QED
        BY <3>1, <4>1, <4>3 DEF SafeNext
    <3>4. QED
      BY <3>2, <3>3
  <2>3. QED
    BY <1>3, <2>1, <2>2, SafeMeans
<1>4. Matching'
  <2>1. ASSUME NEW g \in Calls, NEW k \in DOMAIN call'[g].held, NEW j \in DOMAIN queue',
               call'[g].held[k].id = queue'[j].id
        PROVE  call'[g].held[k].text = queue'[j].text
    <3>1. PICK i \in DOMAIN queue : queue'[j].id = queue[i].id /\ queue'[j].text = queue[i].text
      BY DEF SettlesWhatIsGone
    <3>2. CASE k \in DOMAIN call[g].held /\ call'[g].held[k] = call[g].held[k]
      BY <1>1, <2>1, <3>1, <3>2 DEF Matching
    <3>3. CASE \E m \in DOMAIN queue : call'[g].held[k].id = queue[m].id
                                       /\ call'[g].held[k].text = queue[m].text
      BY <1>2, <2>1, <3>1, <3>3 DEF DistinctIds
    <3>4. QED
      BY <3>2, <3>3 DEF SettlesWhatIsGone
  <2>2. QED
    BY <2>1 DEF Matching
<1>5. SpentSafe'
  <2>1. ASSUME NEW g \in Calls, NEW k \in DOMAIN call'[g].held, Spent(call'[g], k)
        PROVE  SafeNext(call'[g].held[k].text)
    <3>1. /\ k \in DOMAIN call[g].held /\ call'[g].held[k] = call[g].held[k]
          /\ Spent(call[g], k) \/ call[g].held[k].text \in Gone'
      BY <2>1 DEF SettlesWhatIsGone
    <3>2. CASE Spent(call[g], k)
      BY <1>1, <1>3, <3>1, <3>2 DEF SpentSafe
    <3>3. CASE call[g].held[k].text \in Gone'
      BY <3>1, <3>3 DEF SafeNext
    <3>4. QED
      BY <3>1, <3>2, <3>3
  <2>2. QED
    BY <2>1, SafeThen
<1>6. Kept'
  <2>1. ASSUME NEW t \in fate.accepted
        PROVE  t \in (Texts \cup Gone)'
    <3>1. CASE t \in Gone
      BY <3>1 DEF SettlesWhatIsGone
    <3>2. CASE t \in Texts
      <4>1. PICK i \in DOMAIN queue : queue[i].text = t
        BY <3>2 DEF Texts
      <4>2. CASE \E j \in DOMAIN queue' : queue'[j].text = queue[i].text
        BY <4>1, <4>2 DEF Texts
      <4>3. CASE queue[i].text \in Gone'
        BY <4>1, <4>3
      <4>4. CASE Spends(queue[i].id)
        <5>0. PICK g \in Calls : \E k \in DOMAIN call[g].held :
                  Spent(call[g], k) /\ call[g].held[k].id = queue[i].id
          BY <4>4 DEF Spends
        <5>1. PICK k \in DOMAIN call[g].held :
                  Spent(call[g], k) /\ call[g].held[k].id = queue[i].id
          BY <5>0
        <5>2. call[g].held[k].text = t
          BY <1>1, <4>1, <5>1 DEF Matching
        <5>3. Safe(t)
          BY <1>1, <5>1, <5>2 DEF SpentSafe
        <5>4. QED
          BY <1>3, <5>3 DEF Texts, SafeNext
      <4>5. QED
        BY <4>2, <4>3, <4>4 DEF SettlesWhatIsGone
    <3>3. QED
      BY <1>1, <3>1, <3>2 DEF Kept
  <2>2. QED
    BY <2>1 DEF Kept, SettlesWhatIsGone
<1>7. QED
  BY <1>4, <1>5, <1>6

\* A push settles the claim that it is made for, and its item answers for the text.
LEMMA KeptByPush ==
    ASSUME QueueOK, KeptInv, NEW f \in Calls, CallPushes(f)
    PROVE  KeptInv'
<1> SUFFICES ASSUME ~fate'.reused
             PROVE  Matching' /\ SpentSafe' /\ Kept'
  BY DEF KeptInv
<1>1. ~fate.reused /\ NextItemId \notin HeldIds
  BY DEF CallPushes
<1>2. Matching /\ SpentSafe /\ Kept
  BY <1>1 DEF KeptInv
<1> DEFINE new == Len(queue) + 1
<1>3. /\ \A g \in Calls : call'[g].held = call[g].held
      /\ \A g \in Calls \ {f} : call'[g] = call[g]
      /\ Gone' = Gone
  BY DEF CallPushes
<1>4. /\ \A i \in DOMAIN queue : i \in DOMAIN queue' /\ queue'[i] = queue[i]
      /\ \A j \in DOMAIN queue' : j \in DOMAIN queue \/ j = new
      /\ new \in DOMAIN queue' /\ queue'[new].id = NextItemId /\ queue'[new].text = TextOf(f)
  BY DEF CallPushes
<1> HIDE DEF new
<1>5. \A g \in Calls : \A k \in DOMAIN call'[g].held : call'[g].held[k].id # queue'[new].id
  BY <1>1, <1>3, <1>4 DEF HeldIds
<1>6. Matching'
  BY <1>2, <1>3, <1>4, <1>5 DEF Matching
<1>7. \A g \in Calls : \A k \in DOMAIN call'[g].held :
          Spent(call'[g], k) => Spent(call[g], k) \/ call[g].held[k].text = TextOf(f)
  <2>1. ASSUME NEW g \in Calls, NEW k \in DOMAIN call'[g].held, Spent(call'[g], k), ~Spent(call[g], k)
        PROVE  call[g].held[k].text = TextOf(f)
    <3>1. g = f
      BY <1>3, <2>1
    <3>2. call[f].held \in Seq(Claim)
      BY CallTyped
    <3>3. k \in 1..Len(call[f].held) /\ ~(k < Len(call[f].held)) /\ Len(call[f].held) \in Nat
      BY <1>3, <2>1, <3>1, <3>2 DEF Spent
    <3>4. k = Len(call[f].held) /\ call[f].held # <<>>
      BY <3>2, <3>3
    <3>5. QED
      BY <3>1, <3>4 DEF TextOf, Top, Last
  <2>2. QED
    BY <2>1
<1>8. SafeNext(TextOf(f))
  <2>1. ~SpendsNext(queue'[new].id)
    BY <1>5 DEF SpendsNext
  <2>2. QED
    BY <1>4, <2>1 DEF SafeNext
<1>9. ASSUME NEW t, Safe(t) PROVE SafeNext(t)
  <2>1. CASE t = TextOf(f)
    BY <1>8, <2>1
  <2>2. CASE t \in Gone
    BY <1>3, <2>2 DEF SafeNext
  <2>3. CASE t # TextOf(f) /\ \E i \in DOMAIN queue : queue[i].text = t /\ ~Spends(queue[i].id)
    <3>1. PICK i \in DOMAIN queue : queue[i].text = t /\ ~Spends(queue[i].id)
      BY <2>3
    <3>2. ASSUME NEW g \in Calls, NEW k \in DOMAIN call'[g].held, Spent(call'[g], k),
                 call'[g].held[k].id = queue'[i].id
          PROVE  FALSE
      <4>1. call[g].held[k].text = t /\ k \in DOMAIN call[g].held
            /\ call[g].held[k].id = queue[i].id
        BY <1>2, <1>3, <1>4, <3>1, <3>2 DEF Matching
      <4>2. QED
        BY <1>7, <2>3, <3>1, <3>2, <4>1 DEF Spends
    <3>3. ~SpendsNext(queue'[i].id)
      BY <3>2 DEF SpendsNext
    <3>4. QED
      BY <1>4, <3>1, <3>3 DEF SafeNext
  <2>4. QED
    BY <1>9, <2>1, <2>2, <2>3, SafeMeans
<1>10. SpentSafe'
  <2>1. ASSUME NEW g \in Calls, NEW k \in DOMAIN call'[g].held, Spent(call'[g], k)
        PROVE  SafeNext(call'[g].held[k].text)
    <3>1. CASE Spent(call[g], k)
      BY <1>2, <1>3, <1>9, <3>1 DEF SpentSafe
    <3>2. CASE call[g].held[k].text = TextOf(f)
      BY <1>3, <1>8, <3>2
    <3>3. QED
      BY <1>7, <2>1, <3>1, <3>2
  <2>2. QED
    BY <2>1, SafeThen
<1>11. Kept'
  <2>1. Texts \subseteq Texts' /\ TextOf(f) \in Texts'
    BY <1>4 DEF Texts
  <2>2. fate'.accepted = fate.accepted \cup {TextOf(f)}
    BY DEF CallPushes
  <2>3. QED
    BY <1>2, <1>3, <2>1, <2>2 DEF Kept
<1>12. QED
  BY <1>6, <1>10, <1>11

\* The claims of the calls of a step that pushes or claims nothing.
LEMMA KeptStep ==
    ASSUME QueueOK, ClosedInv, KeptInv, QueueNext
    PROVE  KeptInv'
<1>1. queue \in Seq(Item) /\ DistinctIds(queue) /\ fate \in Fate
  BY DEF QueueOK, QueueTypeOK
<1>2. ASSUME NEW f \in Calls, Moves(f) PROVE SettlesWhatIsGone
  <2>1. /\ queue' = queue /\ \A g \in Calls \ {f} : call'[g] = call[g]
        /\ call'[f].held = call[f].held
        /\ call[f].held # <<>> /\ Open(call[f]) /\ ~Open(call'[f]) => Top(call[f]).text \in Gone'
        /\ Gone \subseteq Gone' /\ fate'.accepted = fate.accepted /\ fate'.reused = fate.reused
    BY <1>2 DEF Moves, CallMoves, FateGrows
  <2>2. ASSUME NEW k \in DOMAIN call[f].held, Spent(call'[f], k)
        PROVE  Spent(call[f], k) \/ call[f].held[k].text \in Gone'
    <3>1. call[f].held \in Seq(Claim)
      BY CallTyped
    <3>2. k \in 1..Len(call[f].held) /\ Len(call[f].held) \in Nat /\ call[f].held # <<>>
      BY <2>2, <3>1
    <3>3. CASE k < Len(call[f].held)
      BY <3>3 DEF Spent
    <3>4. CASE k = Len(call[f].held)
      <4>1. ~Open(call'[f]) /\ Top(call[f]) = call[f].held[k]
        BY <2>1, <2>2, <3>2, <3>4 DEF Spent, Top, Last
      <4>2. QED
        BY <2>1, <3>2, <4>1 DEF Spent
    <3>5. QED
      BY <3>2, <3>3, <3>4
  <2>3. \A g \in Calls : \A k \in DOMAIN call'[g].held :
            /\ k \in DOMAIN call[g].held /\ call'[g].held[k] = call[g].held[k]
            /\ Spent(call'[g], k) => Spent(call[g], k) \/ call[g].held[k].text \in Gone'
    BY <2>1, <2>2
  <2>4. QED
    BY <2>1, <2>3 DEF SettlesWhatIsGone
<1>3. ASSUME NEW f \in Calls, NEW i \in DOMAIN queue, CallClaims(f, i) PROVE SettlesWhatIsGone
  <2> DEFINE last == Len(call[f].held) + 1
  <2>1. /\ Len(call[f].held) \in Nat /\ DOMAIN call[f].held = 1..Len(call[f].held)
        /\ DOMAIN call'[f].held = 1..last
        /\ \A k \in DOMAIN call[f].held : call'[f].held[k] = call[f].held[k]
        /\ call'[f].held[last].id = queue[i].id /\ call'[f].held[last].text = queue[i].text
    BY <1>3, HeldAfterClaim
  <2>2. /\ DOMAIN queue' = DOMAIN queue
        /\ \A j \in DOMAIN queue : queue'[j].id = queue[j].id /\ queue'[j].text = queue[j].text
    BY <1>1, <1>3, Restating DEF CallClaims
  <2>3. /\ \A g \in Calls \ {f} : call'[g] = call[g]
        /\ fate' = fate /\ call[f].pc = "claiming"
        /\ call'[f].pc = "load" /\ call'[f].then = "restore"
    BY <1>3 DEF CallClaims
  <2>4. Len(call'[f].held) = last
    <3>1. call'[f].held \in Seq(Claim)
      BY <1>3 DEF CallClaims, CallState, Claim
    <3>2. QED
      BY <2>1, <3>1
  <2>5. Gone' = Gone
    BY <2>3 DEF Gone
  <2>6. ~Open(call[f]) /\ Open(call'[f])
    BY <2>3 DEF Open, Awaited
  <2>7. ASSUME NEW k \in DOMAIN call'[f].held
        PROVE  \/ /\ k \in DOMAIN call[f].held /\ call'[f].held[k] = call[f].held[k]
                  /\ Spent(call[f], k)
               \/ /\ ~Spent(call'[f], k)
                  /\ call'[f].held[k].id = queue[i].id
                  /\ call'[f].held[k].text = queue[i].text
    <3>1. CASE k = last
      <4>1. ~(k < Len(call'[f].held))
        BY <2>1, <2>4, <3>1
      <4>2. QED
        BY <2>1, <2>6, <3>1, <4>1 DEF Spent
    <3>2. CASE k # last
      <4>1. k \in DOMAIN call[f].held
        BY <2>1, <3>2
      <4>2. QED
        BY <2>1, <2>6, <4>1 DEF Spent
    <3>3. QED
      BY <3>1, <3>2
  <2> HIDE DEF last
  <2>8. ASSUME NEW g \in Calls, NEW k \in DOMAIN call'[g].held
        PROVE  \/ /\ k \in DOMAIN call[g].held /\ call'[g].held[k] = call[g].held[k]
                  /\ Spent(call'[g], k) => Spent(call[g], k) \/ call[g].held[k].text \in Gone'
               \/ /\ ~Spent(call'[g], k)
                  /\ \E j \in DOMAIN queue : /\ call'[g].held[k].id = queue[j].id
                                             /\ call'[g].held[k].text = queue[j].text
    BY <2>3, <2>7
  <2>9. \A j \in DOMAIN queue : \E m \in DOMAIN queue' :
            queue'[m].id = queue[j].id /\ queue'[m].text = queue[j].text
    BY <2>2
  <2>10. \A m \in DOMAIN queue' : \E j \in DOMAIN queue :
            queue'[m].id = queue[j].id /\ queue'[m].text = queue[j].text
    BY <2>2
  <2>11. QED
    BY <2>3, <2>5, <2>8, <2>9, <2>10 DEF SettlesWhatIsGone
<1>4. ASSUME NEW f \in Calls, Quarantine(f) \/ Acknowledge(f) \/ PutBack(f)
      PROVE  SettlesWhatIsGone
  <2>1. CallPops(f) /\ QueuePops(f)
    BY <1>4, PopMoves, PopQueue
  <2> DEFINE last == Len(call[f].held)
  <2>2. /\ last \in Nat \ {0} /\ DOMAIN call[f].held = 1..last
        /\ DOMAIN call'[f].held = 1..(last - 1)
        /\ \A k \in DOMAIN call'[f].held : call'[f].held[k] = call[f].held[k]
        /\ Top(call[f]) = call[f].held[last]
    BY <2>1, HeldAfterPop
  <2>3. \A g \in Calls \ {f} : call'[g] = call[g]
    BY <2>1 DEF CallPops
  <2>4. \A k \in DOMAIN call'[f].held : k \in DOMAIN call[f].held /\ Spent(call[f], k)
    BY <2>2 DEF Spent
  <2>5. \A g \in Calls : \A k \in DOMAIN call'[g].held :
            /\ k \in DOMAIN call[g].held /\ call'[g].held[k] = call[g].held[k]
            /\ Spent(call'[g], k) => Spent(call[g], k)
    BY <2>2, <2>3, <2>4
  <2>6. ASSUME NEW i \in DOMAIN queue
        PROVE  \/ \E j \in DOMAIN queue' : /\ queue'[j].id = queue[i].id
                                           /\ queue'[j].text = queue[i].text
               \/ Spends(queue[i].id)
    <3>1. CASE i \notin Mine(f)
      BY <2>1, <3>1 DEF QueuePops
    <3>2. CASE i \in Mine(f) /\ ~Acknowledge(f)
      BY <2>1, <3>2 DEF QueuePops
    <3>3. CASE i \in Mine(f) /\ Acknowledge(f)
      <4>1. call[f].pc = "acking"
        BY <3>3 DEF Acknowledge
      <4>2. last \in DOMAIN call[f].held /\ Spent(call[f], last)
        BY <2>2, <4>1 DEF Spent, Open, Awaited
      <4>3. call[f].held[last].id = queue[i].id
        BY <2>2, <3>3 DEF Mine, At
      <4>4. QED
        BY <4>2, <4>3 DEF Spends
    <3>4. QED
      BY <3>1, <3>2, <3>3
  <2> HIDE DEF last
  <2>7. \A j \in DOMAIN queue' : \E i \in DOMAIN queue :
           queue'[j].id = queue[i].id /\ queue'[j].text = queue[i].text
    BY <2>1 DEF QueuePops
  <2>8. Gone' = Gone /\ fate'.accepted = fate.accepted /\ fate'.reused = fate.reused
    BY <2>1 DEF QueuePops
  <2>9. QED
    BY <2>5, <2>6, <2>7, <2>8 DEF SettlesWhatIsGone
<1>5. ASSUME NEW f \in Calls, Clear(f) \/ Retry(f) \/ Discard(f) PROVE SettlesWhatIsGone
  <2>1. CallEdits(f)
    BY <1>5, EditMoves
  <2>2. /\ \A j \in DOMAIN queue' : \E i \in DOMAIN queue :
              queue'[j].id = queue[i].id /\ queue'[j].text = queue[i].text
        /\ \A i \in DOMAIN queue :
              \/ \E j \in DOMAIN queue' : /\ queue'[j].id = queue[i].id
                                          /\ queue'[j].text = queue[i].text
              \/ queue[i].text \in Gone'
        /\ Gone \subseteq Gone' /\ fate'.accepted = fate.accepted /\ fate'.reused = fate.reused
    <3>1. CASE Clear(f)
      <4>1. Remain(DOMAIN queue \ WithStatus("pending"))
        BY <1>1, <3>1, Keeping DEF Clear
      <4>2. /\ {queue[i].text : i \in WithStatus("pending")} \subseteq Gone'
            /\ Gone \subseteq Gone' /\ fate'.accepted = fate.accepted
            /\ fate'.reused = fate.reused
        BY <1>1, <3>1 DEF Clear, Fate, Gone
      <4>3. \A i \in WithStatus("pending") : queue[i].text \in Gone'
        BY <4>2
      <4>4. \A i \in DOMAIN queue \ WithStatus("pending") :
                \E j \in DOMAIN queue' : queue'[j] = queue[i]
        BY <4>1 DEF Remain
      <4>5. QED
        BY <4>1, <4>2, <4>3, <4>4 DEF Remain
    <3>2. CASE Retry(f)
      <4>1. PICK i \in DOMAIN queue : SetStatus({i}, "pending")
        BY <3>2 DEF Retry
      <4>2. Gone' = Gone /\ fate'.accepted = fate.accepted /\ fate'.reused = fate.reused
        BY <1>1, <3>2 DEF Retry, Fate, Gone
      <4>3. QED
        BY <1>1, <4>1, <4>2, Restating
    <3>3. CASE Discard(f)
      <4>1. PICK i \in DOMAIN queue :
                /\ Drop({i})
                /\ fate' = [fate EXCEPT !.dropped = @ \cup {queue[i].text},
                                        !.meddled = @ \/ queue[i].status = "claimed"]
        BY <3>3 DEF Discard
      <4>2. Remain(DOMAIN queue \ {i})
        BY <1>1, <4>1, Dropping
      <4>3. /\ queue[i].text \in Gone' /\ Gone \subseteq Gone'
            /\ fate'.accepted = fate.accepted /\ fate'.reused = fate.reused
        BY <1>1, <4>1 DEF Fate, Gone
      <4>4. QED
        BY <4>2, <4>3 DEF Remain
    <3>4. QED
      BY <1>5, <3>1, <3>2, <3>3
  <2>3. /\ \A g \in Calls \ {f} : call'[g] = call[g]
        /\ DOMAIN call'[f].held = {}
    BY <2>1 DEF CallEdits
  <2>4. QED
    BY <2>2, <2>3 DEF SettlesWhatIsGone
<1>6. ASSUME OnlyShell PROVE SettlesWhatIsGone
  <2>1. queue' = queue /\ call' = call /\ fate' = fate
    BY <1>6 DEF OnlyShell
  <2>2. Gone \subseteq Gone' /\ fate'.accepted = fate.accepted /\ fate'.reused = fate.reused
    BY <2>1 DEF Gone
  <2>3. \A g \in Calls : \A k \in DOMAIN call'[g].held :
            /\ k \in DOMAIN call[g].held /\ call'[g].held[k] = call[g].held[k]
            /\ Spent(call'[g], k) => Spent(call[g], k)
    BY <2>1
  <2>4. QED
    BY <2>1, <2>2, <2>3 DEF SettlesWhatIsGone
<1>7. ASSUME Restart PROVE SettlesWhatIsGone
  <2>1. Resumed
    BY <1>7, RestartSteps
  <2>2. Claimed \in SUBSET DOMAIN queue
    BY DEF Claimed
  <2>3. /\ DOMAIN queue' = DOMAIN queue
        /\ \A j \in DOMAIN queue : queue'[j].id = queue[j].id /\ queue'[j].text = queue[j].text
    BY <1>1, <2>1, <2>2, Restating DEF Resumed
  <2>4. \A g \in Calls : DOMAIN call'[g].held = {}
    BY <2>1 DEF Resumed
  <2>5. Gone \subseteq Gone' /\ fate'.accepted = fate.accepted /\ fate'.reused = fate.reused
    BY <2>1 DEF Resumed, Gone
  <2>6. /\ \A j \in DOMAIN queue' : \E i \in DOMAIN queue :
              queue'[j].id = queue[i].id /\ queue'[j].text = queue[i].text
        /\ \A i \in DOMAIN queue : \E j \in DOMAIN queue' :
              queue'[j].id = queue[i].id /\ queue'[j].text = queue[i].text
    BY <2>3
  <2>7. QED
    BY <2>4, <2>5, <2>6 DEF SettlesWhatIsGone
<1>8. ASSUME NEW f \in Calls, Push(f) PROVE KeptInv'
  BY <1>8, PushMoves, KeptByPush
<1>9. QED
  BY <1>2, <1>3, <1>4, <1>5, <1>6, <1>7, <1>8, KeptBySettling, StepKinds

---------------------------------------------------------------------------
\* A submit that still has its own text is not in the file.

LEMMA BareKept ==
    ASSUME BareInv, fate.meddled => fate'.meddled,
           \A j \in DOMAIN queue' : \E i \in DOMAIN queue : queue'[j].text = queue[i].text,
           \A g \in Calls : Bears(g, call'[g]) /\ call'[g].held = <<>> =>
               Bears(g, call[g]) /\ call[g].held = <<>>
    PROVE  BareInv'
<1>1. Texts' \subseteq Texts
  BY DEF Texts
<1>2. Submits \subseteq Calls
  BY DEF Calls
<1>3. QED
  BY <1>1, <1>2 DEF BareInv

\* What the operator removes leaves the rest as it is.
LEMMA Editing ==
    ASSUME queue \in Seq(Item), DistinctIds(queue), fate \in Fate, NEW f \in Calls,
           Clear(f) \/ Discard(f)
    PROVE  /\ \A j \in DOMAIN queue' : \E i \in DOMAIN queue : queue'[j] = queue[i]
           /\ fate'.returned = fate.returned /\ fate'.completed = fate.completed
           /\ fate.meddled => fate'.meddled
<1>1. CASE Clear(f)
  <2>1. Remain(DOMAIN queue \ WithStatus("pending"))
    BY <1>1, Keeping DEF Clear
  <2>2. \A j \in DOMAIN queue' : \E i \in DOMAIN queue : queue'[j] = queue[i]
    BY <2>1 DEF Remain
  <2>3. QED
    BY <1>1, <2>2 DEF Clear, Fate
<1>2. CASE Discard(f)
  <2>1. PICK i \in DOMAIN queue :
            /\ Drop({i})
            /\ fate' = [fate EXCEPT !.dropped = @ \cup {queue[i].text},
                                    !.meddled = @ \/ queue[i].status = "claimed"]
    BY <1>2 DEF Discard
  <2>2. \A j \in DOMAIN queue' : \E k \in DOMAIN queue : queue'[j] = queue[k]
    <3>1. Remain(DOMAIN queue \ {i})
      BY <2>1, Dropping
    <3>2. QED
      BY <3>1 DEF Remain
  <2>3. fate'.returned = fate.returned /\ fate'.completed = fate.completed
    BY <2>1 DEF Fate
  <2>4. fate'.meddled = (fate.meddled \/ queue[i].status = "claimed")
    BY Zenon, <2>1 DEF Fate
  <2>5. QED
    BY <2>2, <2>3, <2>4
<1>3. QED
  BY <1>1, <1>2

LEMMA BareStep ==
    ASSUME QueueOK, ClosedInv, HolderInv, KeptInv, BareInv, QueueNext
    PROVE  BareInv'
<1>1. queue \in Seq(Item) /\ DistinctIds(queue) /\ fate \in Fate
  BY DEF QueueOK, QueueTypeOK
<1>2. ASSUME NEW f \in Calls, Moves(f) PROVE BareInv'
  <2>1. /\ queue' = queue /\ fate'.meddled = fate.meddled
        /\ \A g \in Calls \ {f} : call'[g] = call[g]
        /\ call'[f].held = call[f].held /\ (Bears(f, call'[f]) => Bears(f, call[f]))
    BY <1>2 DEF Moves, CallMoves, FateGrows
  <2>2. QED
    BY <2>1, BareKept
<1>3. ASSUME NEW f \in Calls, NEW i \in DOMAIN queue, CallClaims(f, i) PROVE BareInv'
  <2>1. /\ fate' = fate /\ \A g \in Calls \ {f} : call'[g] = call[g]
    BY <1>3 DEF CallClaims
  <2>2. call'[f].held # <<>>
    <3>1. /\ Len(call[f].held) \in Nat
          /\ DOMAIN call'[f].held = 1..(Len(call[f].held) + 1)
      BY <1>3, HeldAfterClaim
    <3>2. Len(call[f].held) + 1 \in DOMAIN call'[f].held
      BY <3>1
    <3>3. QED
      BY <3>2
  <2>3. DOMAIN queue' = DOMAIN queue /\ \A j \in DOMAIN queue : queue'[j].text = queue[j].text
    BY <1>1, <1>3, Restating DEF CallClaims
  <2>4. QED
    BY <2>1, <2>2, <2>3, BareKept
<1>4. ASSUME NEW f \in Calls, Quarantine(f) \/ Acknowledge(f) \/ PutBack(f) PROVE BareInv'
  <2>1. CallPops(f) /\ QueuePops(f)
    BY <1>4, PopMoves, PopQueue
  <2>2. /\ ~Bears(f, call'[f]) /\ fate'.meddled = fate.meddled
        /\ \A g \in Calls \ {f} : call'[g] = call[g]
        /\ \A j \in DOMAIN queue' : \E i \in DOMAIN queue : queue'[j].text = queue[i].text
    BY <2>1 DEF CallPops, QueuePops
  <2>3. QED
    BY <2>2, BareKept
<1>5. ASSUME NEW f \in Calls, Clear(f) \/ Discard(f) PROVE BareInv'
  <2>1. ~Bears(f, call'[f]) /\ \A g \in Calls \ {f} : call'[g] = call[g]
    BY <1>5, EditMoves DEF CallEdits
  <2>2. /\ \A j \in DOMAIN queue' : \E i \in DOMAIN queue : queue'[j] = queue[i]
        /\ fate.meddled => fate'.meddled
    BY <1>1, <1>5, Editing
  <2>3. \A j \in DOMAIN queue' : \E i \in DOMAIN queue : queue'[j].text = queue[i].text
    BY <2>2
  <2>4. QED
    BY <2>1, <2>2, <2>3, BareKept
<1>6. ASSUME NEW f \in Calls, Retry(f) PROVE BareInv'
  <2>1. fate'.meddled
    BY <1>1, <1>6 DEF Retry, Fate
  <2>2. QED
    BY <2>1 DEF BareInv
<1>7. CASE OnlyShell
  <2>1. queue' = queue /\ call' = call /\ fate' = fate
    BY <1>7 DEF OnlyShell
  <2>2. QED
    BY <2>1, BareKept
<1>8. CASE Restart
  <2>1. Resumed
    BY <1>8, RestartSteps
  <2>2. Claimed \in SUBSET DOMAIN queue
    BY DEF Claimed
  <2>3. DOMAIN queue' = DOMAIN queue /\ \A j \in DOMAIN queue : queue'[j].text = queue[j].text
    BY <1>1, <2>1, <2>2, Restating DEF Resumed
  <2>4. fate' = fate /\ \A g \in Calls : Bears(g, call'[g]) => call'[g] = call[g]
    BY <2>1 DEF Resumed
  <2>5. QED
    BY <2>3, <2>4, BareKept
<1>9. ASSUME NEW f \in Calls, Push(f) PROVE BareInv'
  <2> SUFFICES ASSUME ~fate'.meddled, NEW g \in Submits,
                      call'[g].held = <<>>, Bears(g, call'[g])
               PROVE  g \notin Texts'
    BY DEF BareInv
  <2>1. CallPushes(f)
    BY <1>9, PushMoves
  <2>2. /\ ~Bears(f, call'[f]) /\ ~fate.meddled /\ g \in Calls
        /\ \A h \in Calls \ {f} : call'[h] = call[h]
        /\ call[f] \in CallState
    BY <2>1, CallTyped DEF CallPushes, Bears, Awaited, Calls
  <2>3. g # f /\ g \notin Texts
    BY <2>2 DEF BareInv
  <2>4. TextOf(f) # g
    <3>1. CASE call[f].held = <<>>
      BY <2>3, <3>1 DEF TextOf
    <3>2. CASE call[f].held # <<>>
      <4>1. call[f].held \in Seq(Claim)
        BY <2>2 DEF CallState, Claim
      <4>2. PICK k \in DOMAIN call[f].held : Top(call[f]) = call[f].held[k]
        BY <3>2, <4>1 DEF Top, Last
      <4>3. HoldsClaimed /\ Matching
        BY <2>2 DEF HolderInv, KeptInv
      <4>4. PICK i \in Claimed : queue[i].id = call[f].held[k].id
        BY <4>3 DEF HoldsClaimed
      <4>5. i \in DOMAIN queue /\ queue[i].text = TextOf(f)
        BY <3>2, <4>2, <4>3, <4>4 DEF Matching, TextOf, Claimed
      <4>6. QED
        BY <2>3, <4>5 DEF Texts
    <3>3. QED
      BY <3>1, <3>2
  <2>5. \A j \in DOMAIN queue' :
            queue'[j].text = TextOf(f) \/ \E i \in DOMAIN queue : queue'[j].text = queue[i].text
    BY <2>1 DEF CallPushes
  <2>6. QED
    BY <2>3, <2>4, <2>5 DEF Texts
<1>10. QED
  BY <1>2, <1>3, <1>4, <1>5, <1>6, <1>7, <1>8, <1>9, StepKinds

---------------------------------------------------------------------------
\* A follow-up has one place at a time.

\* A step that makes no new place for a text.
NoNewPlace(t) ==
    /\ \A g \in Calls : Bears(g, call'[g]) => /\ Bears(g, call[g])
                                              /\ call'[g].held = call[g].held
    /\ \A j \in DOMAIN queue' : queue'[j].status = "pending" /\ queue'[j].text = t =>
           \E i \in DOMAIN queue : /\ queue[i].status = "pending" /\ queue[i].id = queue'[j].id
                                   /\ queue[i].text = t
    /\ DistinctIds(queue')
    /\ t \in fate'.completed => \/ t \in fate.completed
                                \/ \E f \in Calls : /\ Bears(f, call[f]) /\ TextOf(f) = t
                                                    /\ ~Bears(f, call'[f])

LEMMA SameText ==
    ASSUME NEW g \in Calls, call'[g].held = call[g].held
    PROVE  TextOf(g)' = TextOf(g)
  BY DEF TextOf, Top

\* The same, without the names.
LEMMA OnePlaceMeans ==
    ASSUME NEW t
    PROVE  OnePlace(t) <=>
             /\ \A f, g \in Calls : (/\ Bears(f, call[f]) /\ TextOf(f) = t
                                     /\ Bears(g, call[g]) /\ TextOf(g) = t) => f = g
             /\ \A i, j \in DOMAIN queue :
                   (/\ queue[i].status = "pending" /\ queue[i].text = t
                    /\ queue[j].status = "pending" /\ queue[j].text = t) => i = j
             /\ \A f \in Calls : Bears(f, call[f]) /\ TextOf(f) = t =>
                   /\ t \notin fate.completed
                   /\ \A i \in DOMAIN queue : queue[i].status = "pending" => queue[i].text # t
             /\ t \in fate.completed =>
                   \A i \in DOMAIN queue : queue[i].status = "pending" => queue[i].text # t
<1>1. \A i : i \in Pending <=> i \in DOMAIN queue /\ queue[i].status = "pending"
  BY DEF Pending, WithStatus
<1>2. (\A i, j \in Pending : queue[i].text = t /\ queue[j].text = t => i = j) <=>
         \A i, j \in DOMAIN queue :
             (/\ queue[i].status = "pending" /\ queue[i].text = t
              /\ queue[j].status = "pending" /\ queue[j].text = t) => i = j
  BY Zenon, <1>1
<1>3. (\A i \in Pending : queue[i].text # t) <=>
         \A i \in DOMAIN queue : queue[i].status = "pending" => queue[i].text # t
  BY <1>1
<1>4. QED
  BY <1>2, <1>3 DEF OnePlace

LEMMA PlaceKept ==
    ASSUME NEW t, OnePlace(t), NoNewPlace(t)
    PROVE  OnePlace(t)'
<1>1. OnePlace(t)
  OBVIOUS
<1>2. \A g \in Calls : Bears(g, call'[g]) /\ TextOf(g)' = t => Bears(g, call[g]) /\ TextOf(g) = t
  BY SameText DEF NoNewPlace
<1>3. \A j \in DOMAIN queue' : queue'[j].status = "pending" /\ queue'[j].text = t =>
          \E i \in DOMAIN queue : /\ queue[i].status = "pending" /\ queue[i].text = t
                                  /\ queue[i].id = queue'[j].id
  BY DEF NoNewPlace
<1>4. \A f, g \in Calls : (/\ Bears(f, call'[f]) /\ TextOf(f)' = t
                           /\ Bears(g, call'[g]) /\ TextOf(g)' = t) => f = g
  <2> SUFFICES ASSUME NEW f \in Calls, NEW g \in Calls, Bears(f, call'[f]), TextOf(f)' = t,
                      Bears(g, call'[g]), TextOf(g)' = t
               PROVE  f = g
    OBVIOUS
  <2>1. /\ Bears(f, call[f]) /\ TextOf(f) = t
        /\ Bears(g, call[g]) /\ TextOf(g) = t
    BY <1>2
  <2>2. QED
    BY <1>1, <2>1, OnePlaceMeans
<1>5. ASSUME NEW j \in DOMAIN queue', NEW m \in DOMAIN queue',
             queue'[j].status = "pending", queue'[j].text = t,
             queue'[m].status = "pending", queue'[m].text = t
      PROVE  j = m
  <2>1. queue'[j].id = queue'[m].id
    BY <1>1, <1>3, <1>5, OnePlaceMeans
  <2>2. QED
    BY <2>1 DEF NoNewPlace, DistinctIds
<1>6. t \in fate'.completed =>
          \/ t \in fate.completed
          \/ \E f \in Calls : Bears(f, call[f]) /\ TextOf(f) = t /\ ~Bears(f, call'[f])
  BY DEF NoNewPlace
<1>7. ASSUME NEW f \in Calls, Bears(f, call'[f]), TextOf(f)' = t
      PROVE  /\ t \notin fate'.completed
             /\ \A j \in DOMAIN queue' : queue'[j].status = "pending" => queue'[j].text # t
  BY <1>1, <1>2, <1>3, <1>6, <1>7, OnePlaceMeans
<1>8. ASSUME t \in fate'.completed
      PROVE  \A j \in DOMAIN queue' : queue'[j].status = "pending" => queue'[j].text # t
  BY <1>1, <1>3, <1>6, <1>8, OnePlaceMeans
<1>9. QED
  BY <1>4, <1>5, <1>7, <1>8 DEF OnePlace, Pending, WithStatus

LEMMA PlacesKept ==
    ASSUME PlacesInv, \A t : NoNewPlace(t), fate.returned \subseteq fate'.returned,
           fate.meddled => fate'.meddled
    PROVE  PlacesInv'
  BY PlaceKept DEF PlacesInv

\* A claim moves the place of a text from the file to the call.
LEMMA PlacesByClaim ==
    ASSUME QueueOK, PlacesInv, NEW f \in Calls, NEW i \in DOMAIN queue, CallClaims(f, i)
    PROVE  PlacesInv'
<1> SUFFICES ASSUME ~fate'.meddled, NEW t \in Submits \ fate'.returned
             PROVE  OnePlace(t)'
  BY DEF PlacesInv
<1>1. OnePlace(t) /\ fate' = fate
  BY DEF PlacesInv, CallClaims
<1>2. queue \in Seq(Item) /\ DistinctIds(queue)
  BY DEF QueueOK, QueueTypeOK
<1>3. /\ DOMAIN queue' = DOMAIN queue
      /\ \A j \in DOMAIN queue :
            /\ queue'[j].text = queue[j].text
            /\ queue'[j].status = IF j = i THEN "claimed" ELSE queue[j].status
  BY <1>2, Restating DEF CallClaims
<1>4. /\ \A g \in Calls \ {f} : call'[g] = call[g]
      /\ queue[i].status = "pending" /\ call[f].pc = "claiming"
  BY DEF CallClaims
<1>5. ~Bears(f, call[f])
  BY <1>4 DEF Bears, Awaited
<1>6. TextOf(f)' = queue[i].text
  <2>1. /\ Len(call[f].held) \in Nat /\ DOMAIN call[f].held = 1..Len(call[f].held)
        /\ DOMAIN call'[f].held = 1..(Len(call[f].held) + 1)
        /\ call'[f].held[Len(call[f].held) + 1].text = queue[i].text
    BY HeldAfterClaim
  <2>2. call'[f].held \in Seq(Claim)
    BY DEF CallClaims, CallState, Claim
  <2>3. Len(call'[f].held) = Len(call[f].held) + 1 /\ call'[f].held # <<>>
    BY <2>1, <2>2
  <2>4. QED
    BY <2>1, <2>3 DEF TextOf, Top, Last
<1>7. \A g \in Calls \ {f} : Bears(g, call'[g]) <=> Bears(g, call[g])
  BY <1>4
<1>8. \A g \in Calls \ {f} : TextOf(g)' = TextOf(g)
  BY <1>4, SameText
<1>9. \A j \in DOMAIN queue' : queue'[j].status = "pending" =>
          j # i /\ queue[j].status = "pending" /\ queue'[j].text = queue[j].text
  BY <1>3
<1>10. \A g, h \in Calls : (/\ Bears(g, call'[g]) /\ TextOf(g)' = t
                            /\ Bears(h, call'[h]) /\ TextOf(h)' = t) => g = h
  BY <1>1, <1>4, <1>6, <1>7, <1>8, OnePlaceMeans
<1>11. \A j, m \in DOMAIN queue' :
           (/\ queue'[j].status = "pending" /\ queue'[j].text = t
            /\ queue'[m].status = "pending" /\ queue'[m].text = t) => j = m
  BY <1>1, <1>3, <1>9, OnePlaceMeans
<1>12. ASSUME NEW g \in Calls, Bears(g, call'[g]), TextOf(g)' = t
       PROVE  /\ t \notin fate'.completed
              /\ \A j \in DOMAIN queue' : queue'[j].status = "pending" => queue'[j].text # t
  <2>1. CASE g = f
    BY <1>1, <1>3, <1>4, <1>6, <1>9, <1>12, <2>1, OnePlaceMeans
  <2>2. CASE g # f
    BY <1>1, <1>3, <1>7, <1>8, <1>9, <1>12, <2>2, OnePlaceMeans
  <2>3. QED
    BY <2>1, <2>2
<1>13. t \in fate'.completed =>
          \A j \in DOMAIN queue' : queue'[j].status = "pending" => queue'[j].text # t
  BY <1>1, <1>3, <1>9, OnePlaceMeans
<1>14. QED
  BY <1>10, <1>11, <1>12, <1>13 DEF OnePlace, Pending, WithStatus

\* A push moves it from the call to the file.
LEMMA PlacesByPush ==
    ASSUME QueueOK, PlacesInv, NEW f \in Calls, CallPushes(f)
    PROVE  PlacesInv'
<1> SUFFICES ASSUME ~fate'.meddled, NEW t \in Submits \ fate'.returned
             PROVE  OnePlace(t)'
  BY DEF PlacesInv
<1>1. /\ fate'.meddled = fate.meddled /\ fate'.returned = fate.returned
      /\ fate'.completed = fate.completed
  BY DEF CallPushes
<1>2. OnePlace(t)
  BY <1>1 DEF PlacesInv
<1> DEFINE new == Len(queue) + 1
<1>3. /\ \A i \in DOMAIN queue : i \in DOMAIN queue' /\ queue'[i] = queue[i]
      /\ \A j \in DOMAIN queue' : j \in DOMAIN queue \/ j = new
      /\ queue'[new].text = TextOf(f)
  BY DEF CallPushes
<1> HIDE DEF new
<1>4. Bears(f, call[f]) /\ ~Bears(f, call'[f])
  BY DEF CallPushes, Bears, Awaited
<1>5. \A g \in Calls \ {f} : call'[g] = call[g]
  BY DEF CallPushes
<1>6. \A g \in Calls : Bears(g, call'[g]) => g # f /\ Bears(g, call[g])
  BY <1>4, <1>5
<1>7. \A g \in Calls \ {f} : TextOf(g)' = TextOf(g)
  BY <1>5, SameText
<1>8. \A g, h \in Calls : (/\ Bears(g, call'[g]) /\ TextOf(g)' = t
                           /\ Bears(h, call'[h]) /\ TextOf(h)' = t) => g = h
  <2> SUFFICES ASSUME NEW g \in Calls, NEW h \in Calls, Bears(g, call'[g]), TextOf(g)' = t,
                      Bears(h, call'[h]), TextOf(h)' = t
               PROVE  g = h
    OBVIOUS
  <2>1. /\ Bears(g, call[g]) /\ TextOf(g) = t
        /\ Bears(h, call[h]) /\ TextOf(h) = t
    BY <1>6, <1>7
  <2>2. QED
    BY <1>2, <2>1, OnePlaceMeans
<1>9. \A j, m \in DOMAIN queue' :
           (/\ queue'[j].status = "pending" /\ queue'[j].text = t
            /\ queue'[m].status = "pending" /\ queue'[m].text = t) => j = m
  <2> SUFFICES ASSUME NEW j \in DOMAIN queue', NEW m \in DOMAIN queue',
                      queue'[j].status = "pending", queue'[j].text = t,
                      queue'[m].status = "pending", queue'[m].text = t
               PROVE  j = m
    OBVIOUS
  <2>1. CASE TextOf(f) = t
    <3>1. \A i \in DOMAIN queue : queue[i].status = "pending" => queue[i].text # t
      BY <1>2, <1>4, <2>1, OnePlaceMeans
    <3>2. QED
      BY <1>3, <3>1
  <2>2. CASE TextOf(f) # t
    <3>1. j \in DOMAIN queue /\ m \in DOMAIN queue
      BY <1>3, <2>2
    <3>2. QED
      BY <1>2, <1>3, <3>1, OnePlaceMeans
  <2>3. QED
    BY <2>1, <2>2
<1>10. ASSUME NEW g \in Calls, Bears(g, call'[g]), TextOf(g)' = t
       PROVE  /\ t \notin fate'.completed
              /\ \A j \in DOMAIN queue' : queue'[j].status = "pending" => queue'[j].text # t
  <2>1. g # f /\ Bears(g, call[g]) /\ TextOf(g) = t
    BY <1>6, <1>7, <1>10
  <2>2. TextOf(f) # t
    BY <1>2, <1>4, <2>1, OnePlaceMeans
  <2>3. QED
    BY <1>1, <1>2, <1>3, <2>1, <2>2, OnePlaceMeans
<1>11. t \in fate'.completed =>
          \A j \in DOMAIN queue' : queue'[j].status = "pending" => queue'[j].text # t
  <2>1. t \in fate.completed => TextOf(f) # t
    BY <1>2, <1>4, OnePlaceMeans
  <2>2. QED
    BY <1>1, <1>2, <1>3, <2>1, OnePlaceMeans
<1>12. QED
  BY <1>8, <1>9, <1>10, <1>11 DEF OnePlace, Pending, WithStatus

\* A settlement gives a text a place only when it had none.
LEMMA PlacesBySettling ==
    ASSUME QueueOK, HolderInv, KeptInv, BareInv, PlacesInv,
           NEW f \in Calls, CallPops(f), QueuePops(f)
    PROVE  PlacesInv'
<1> SUFFICES ASSUME ~fate'.meddled, NEW t \in Submits \ fate'.returned
             PROVE  OnePlace(t)'
  BY DEF PlacesInv
<1>1. /\ fate'.meddled = fate.meddled /\ fate.returned \subseteq fate'.returned
      /\ fate'.completed = fate.completed /\ DistinctIds(queue')
  BY DEF QueuePops
<1>2. OnePlace(t)
  BY <1>1 DEF PlacesInv
<1>3. /\ HoldsClaimed /\ HeldOnce /\ Matching
      /\ \A g \in Submits : call[g].held = <<>> /\ Bears(g, call[g]) => g \notin Texts
  BY <1>1 DEF HolderInv, KeptInv, BareInv
<1>4. \A g \in Calls : Bears(g, call'[g]) => g # f /\ call'[g] = call[g]
  BY DEF CallPops
<1>5. \A j \in DOMAIN queue' : \E i \in DOMAIN queue :
          /\ queue'[j].id = queue[i].id /\ queue'[j].text = queue[i].text
          /\ i \notin Mine(f) => queue'[j].status = queue[i].status
          /\ i \in Mine(f) /\ queue'[j].status = "pending" =>
                 queue[i].text \notin Used(Mine(f)) \ fate'.returned
  BY DEF QueuePops
<1>6. CASE \E m \in Mine(f) : queue[m].text = t /\ t \notin Used(Mine(f))
  <2> PICK m \in Mine(f) : queue[m].text = t /\ t \notin Used(Mine(f))
    BY <1>6
  <2>1. /\ m \in DOMAIN queue /\ \A i \in Mine(f) : i \in DOMAIN queue /\ queue[i].id = Top(call[f]).id
        /\ call[f].held # <<>>
    BY DEF Mine, At, CallPops
  <2>2. t \notin fate.completed /\ \A i \in DOMAIN queue : queue[i].text = t => i \in Mine(f)
    BY DEF Used
  <2>3. ASSUME NEW g \in Calls, Bears(g, call'[g]), TextOf(g)' = t
        PROVE  FALSE
    <3>1. g # f /\ Bears(g, call[g]) /\ TextOf(g) = t
      BY <1>4, <2>3, SameText
    <3>2. CASE call[g].held = <<>>
      <4>1. g = t
        BY <3>1, <3>2 DEF TextOf
      <4>2. t \in Texts
        BY <2>1 DEF Texts
      <4>3. QED
        BY <1>3, <3>1, <3>2, <4>1, <4>2
    <3>3. CASE call[g].held # <<>>
      <4>1. /\ call[g] \in CallState /\ call[f] \in CallState
        BY CallTyped
      <4>2. /\ call[g].held \in Seq(Claim) /\ call[f].held \in Seq(Claim)
        BY <4>1 DEF CallState, Claim
      <4>3. PICK k \in DOMAIN call[g].held : Top(call[g]) = call[g].held[k]
        BY <3>3, <4>2 DEF Top, Last
      <4>4. PICK l \in DOMAIN call[f].held : Top(call[f]) = call[f].held[l]
        BY <2>1, <4>2 DEF Top, Last
      <4>5. PICK i \in Claimed : queue[i].id = call[g].held[k].id
        BY <1>3 DEF HoldsClaimed
      <4>6. i \in DOMAIN queue
        BY DEF Claimed
      <4>7. queue[i].text = t
        BY <1>3, <3>1, <3>3, <4>3, <4>5, <4>6 DEF Matching, TextOf
      <4>8. call[g].held[k].id = call[f].held[l].id
        BY <2>1, <2>2, <4>4, <4>5, <4>6, <4>7
      <4>9. QED
        BY <1>3, <3>1, <4>8 DEF HeldOnce
    <3>4. QED
      BY <3>2, <3>3
  <2>4. \A j, n \in DOMAIN queue' : queue'[j].text = t /\ queue'[n].text = t => j = n
    <3> SUFFICES ASSUME NEW j \in DOMAIN queue', NEW n \in DOMAIN queue',
                        queue'[j].text = t, queue'[n].text = t
                 PROVE  j = n
      OBVIOUS
    <3>1. queue'[j].id = Top(call[f]).id /\ queue'[n].id = Top(call[f]).id
      BY <1>5, <2>1, <2>2
    <3>2. QED
      BY <1>1, <3>1 DEF DistinctIds
  <2>5. QED
    BY <1>1, <2>2, <2>3, <2>4 DEF OnePlace, Pending, WithStatus
<1>7. CASE ~\E m \in Mine(f) : queue[m].text = t /\ t \notin Used(Mine(f))
  <2>1. \A j \in DOMAIN queue' : queue'[j].status = "pending" /\ queue'[j].text = t =>
           \E i \in DOMAIN queue : /\ queue[i].status = "pending" /\ queue[i].id = queue'[j].id
                                   /\ queue[i].text = t
    BY <1>5, <1>7
  <2>2. NoNewPlace(t)
    BY <1>1, <1>4, <2>1 DEF NoNewPlace
  <2>3. QED
    BY <1>2, <2>2, PlaceKept
<1>8. QED
  BY <1>6, <1>7

NoNew ==
    /\ \A t : NoNewPlace(t)
    /\ fate.returned \subseteq fate'.returned /\ (fate.meddled => fate'.meddled)

LEMMA PlacesStep ==
    ASSUME QueueOK, ClosedInv, HolderInv, KeptInv, BareInv, PlacesInv, QueueNext
    PROVE  PlacesInv'
<1>1. queue \in Seq(Item) /\ DistinctIds(queue) /\ fate \in Fate
  BY DEF QueueOK, QueueTypeOK
<1>2. fate' \in Fate /\ DistinctIds(queue')
  BY OKStep DEF QueueOK
<1>3. ASSUME NEW f \in Calls, Moves(f) PROVE NoNew
  <2>1. /\ queue' = queue /\ \A g \in Calls \ {f} : call'[g] = call[g]
        /\ call'[f].held = call[f].held /\ (Bears(f, call'[f]) => Bears(f, call[f]))
        /\ fate'.returned = fate.returned /\ fate'.meddled = fate.meddled
        /\ \/ fate'.completed = fate.completed
           \/ /\ fate'.completed = fate.completed \cup {TextOf(f)}
              /\ Bears(f, call[f]) /\ ~Bears(f, call'[f])
    BY <1>3 DEF Moves, CallMoves, FateGrows
  <2>2. QED
    BY <1>1, <2>1 DEF NoNew, NoNewPlace
<1>4. ASSUME NEW f \in Calls, Quarantine(f) \/ Acknowledge(f) \/ PutBack(f) PROVE PlacesInv'
  BY <1>4, PopMoves, PopQueue, PlacesBySettling
<1>5. ASSUME NEW f \in Calls, Clear(f) \/ Discard(f) PROVE NoNew
  <2>1. CallEdits(f)
    BY <1>5, EditMoves
  <2>2. /\ ~Bears(f, call'[f]) /\ \A g \in Calls \ {f} : call'[g] = call[g]
    BY <2>1 DEF CallEdits
  <2>3. /\ \A j \in DOMAIN queue' : \E i \in DOMAIN queue : queue'[j] = queue[i]
        /\ fate'.returned = fate.returned /\ fate'.completed = fate.completed
        /\ fate.meddled => fate'.meddled
    BY <1>1, <1>5, Editing
  <2>4. QED
    BY <1>2, <2>2, <2>3 DEF NoNew, NoNewPlace
<1>6. ASSUME NEW f \in Calls, Retry(f) PROVE PlacesInv'
  <2>1. fate'.meddled
    BY <1>1, <1>6 DEF Retry, Fate
  <2>2. QED
    BY <2>1 DEF PlacesInv
<1>7. ASSUME OnlyShell PROVE NoNew
  <2>1. queue' = queue /\ call' = call /\ fate' = fate
    BY <1>7 DEF OnlyShell
  <2>2. QED
    BY <1>1, <2>1 DEF NoNew, NoNewPlace
<1>8. ASSUME Restart PROVE NoNew
  <2>1. Resumed
    BY <1>8, RestartSteps
  <2>2. Claimed \in SUBSET DOMAIN queue
    BY DEF Claimed
  <2>3. /\ DOMAIN queue' = DOMAIN queue
        /\ \A j \in DOMAIN queue : /\ queue'[j].id = queue[j].id /\ queue'[j].text = queue[j].text
                                   /\ queue'[j].status = IF j \in Claimed THEN "action"
                                                         ELSE queue[j].status
    BY <1>1, <2>1, <2>2, Restating DEF Resumed
  <2>4. \A g \in Calls : Bears(g, call'[g]) => call'[g] = call[g]
    BY <2>1 DEF Resumed
  <2>5. fate' = fate
    BY <2>1 DEF Resumed
  <2>6. \A j \in DOMAIN queue' : queue'[j].status = "pending" =>
           \E i \in DOMAIN queue : /\ queue[i].status = "pending" /\ queue[i].id = queue'[j].id
                                   /\ queue[i].text = queue'[j].text
    BY <2>3
  <2>7. QED
    BY <1>2, <2>4, <2>5, <2>6 DEF NoNew, NoNewPlace
<1>9. NoNew => PlacesInv'
  BY PlacesKept DEF NoNew
<1>10. ASSUME NEW f \in Calls, Push(f) PROVE PlacesInv'
  BY <1>10, PushMoves, PlacesByPush
<1>11. ASSUME NEW f \in Calls, NEW i \in DOMAIN queue, CallClaims(f, i) PROVE PlacesInv'
  BY <1>11, PlacesByClaim
<1>12. QED
  BY <1>3, <1>4, <1>5, <1>6, <1>7, <1>8, <1>9, <1>10, <1>11, StepKinds

---------------------------------------------------------------------------
\* The invariant and what follows from it.

QueueInv == QueueOK /\ ClosedInv /\ HolderInv /\ KeptInv /\ BareInv /\ PlacesInv

\* At the start there is no item and no claim, and a follow-up is with its own call.
LEMMA InvInit ==
    ASSUME QueueInit
    PROVE  QueueInv
<1>1. queue = <<>> /\ DOMAIN queue = {}
  BY DEF QueueInit
<1>2. \A f \in Calls : call[f].held = <<>> /\ DOMAIN call[f].held = {}
  BY DEF QueueInit, Resting
<1>3. fate.accepted = {} /\ fate.completed = {} /\ ~fate.meddled /\ ~fate.reused
  BY DEF QueueInit
<1>4. HolderInv
  BY <1>1, <1>2, <1>3 DEF HolderInv, ClaimsHeld, HoldsClaimed, HeldOnce, Claimed
<1>5. KeptInv
  BY <1>1, <1>2, <1>3 DEF KeptInv, Matching, SpentSafe, Kept
<1>6. \A f \in Calls : TextOf(f) = f
  BY <1>2 DEF TextOf
<1>7. Pending = {}
  BY <1>1 DEF Pending, WithStatus
<1>8. PlacesInv
  BY <1>3, <1>6, <1>7 DEF PlacesInv, OnePlace
<1>9. BareInv
  BY <1>1 DEF BareInv, Texts
<1>10. QED
  BY <1>4, <1>5, <1>8, <1>9, OKInit DEF QueueInv

\* Nothing of it can change when nothing changes.
LEMMA InvStutter ==
    ASSUME QueueInv, UNCHANGED queueVars
    PROVE  QueueInv'
<1>1. queue' = queue /\ shell' = shell /\ call' = call /\ fate' = fate /\ events' = events
  BY DEF queueVars
<1>2. QueueOK'
  BY <1>1 DEF QueueInv, QueueOK, QueueTypeOK
<1>3. ClosedInv'
  BY <1>1 DEF QueueInv, ClosedInv
<1>4. HolderInv'
  BY <1>1 DEF QueueInv, HolderInv, ClaimsHeld, HoldsClaimed, HeldOnce, Claimed, Holders
<1>5. KeptInv'
  BY <1>1 DEF QueueInv, KeptInv, Matching, SpentSafe, Kept, Safe, SpentIds, Gone, Texts
<1>6. PlacesInv'
  BY <1>1 DEF QueueInv, PlacesInv, OnePlace, Pending, WithStatus, TextOf
<1>7. BareInv'
  BY <1>1 DEF QueueInv, BareInv, Texts
<1>8. QED
  BY <1>2, <1>3, <1>4, <1>5, <1>6, <1>7 DEF QueueInv

\* The inductive invariant, for any number of submits, of drains in one another and of
\* restarts: claims and items agree, what a call has settled is safe, and a follow-up has
\* one place.
THEOREM QueueInvariant == QueueSpec => []QueueInv
<1>1. QueueInit => QueueInv
  BY InvInit
<1>2. QueueInv /\ [QueueNext]_queueVars => QueueInv'
  <2>1. ASSUME QueueInv, QueueNext PROVE QueueInv'
    BY <2>1, OKStep, ClosedStep, HolderStep, KeptStep, BareStep, PlacesStep DEF QueueInv
  <2>2. QED
    BY <2>1, InvStutter
<1>3. QED
  BY <1>1, <1>2, PTL DEF QueueSpec

\* The file, the engine and every call stay well-formed.
THEOREM QueueTypeCorrect == QueueSpec => []QueueTypeOK
<1>1. QueueInv => QueueTypeOK
  BY DEF QueueInv, QueueOK
<1>2. QED
  BY <1>1, QueueInvariant, PTL

\* No accepted follow-up is lost: it is in the file until its turn has begun, the operator
\* has dropped it or handleSubmit has turned it away, whatever fails and however often the
\* process restarts; except when the id of an item that left the file was given again
\* while a drain held it.
THEOREM FollowUpsStay == QueueSpec => []FollowUpsAreKept
<1>1. QueueInv => FollowUpsAreKept
  BY DEF QueueInv, KeptInv, Kept, Gone, FollowUpsAreKept
<1>2. QED
  BY <1>1, QueueInvariant, PTL

\* An item in flight is held by one call, its id is not given again meanwhile, and after
\* shutdown nothing is in flight.
THEOREM OneHolder == QueueSpec => []ClaimsHaveOneHolder
<1>1. ASSUME QueueInv PROVE ClaimsHaveOneHolder
  <2>1. \A i \in Claimed : Holders(i) # {}
    BY <1>1 DEF QueueInv, HolderInv, ClaimsHeld
  <2>2. ASSUME ~fate.meddled, NEW i \in Claimed PROVE Cardinality(Holders(i)) = 1
    <3>1. HeldOnce
      BY <1>1, <2>2 DEF QueueInv, HolderInv
    <3>2. \A f, g \in Holders(i) : f = g
      BY <3>1 DEF Holders, HeldOnce
    <3>3. PICK f \in Holders(i) : TRUE
      BY <2>1, <2>2
    <3>4. Holders(i) = {f}
      BY <3>2, <3>3
    <3>5. QED
      BY <3>4, FS_Singleton
  <2>3. ASSUME shell.phase = "closed",
               \A f \in Resumes : call[f].pc \in {"new", "done", "gone"}
        PROVE  \A f \in Calls : call[f].held = <<>>
    BY <1>1, <2>3 DEF QueueInv, QueueOK, ClosedInv, CallOK, Calls
  <2>4. ASSUME \A f \in Calls : call[f].held = <<>> PROVE Claimed = {}
    <3>1. \A i \in Claimed : Holders(i) = {}
      BY <2>4 DEF Holders
    <3>2. QED
      BY <2>1, <3>1
  <2>5. ~fate.meddled => ~fate.reused
    BY <1>1 DEF QueueInv, HolderInv
  <2>6. QED
    BY <2>2, <2>3, <2>4, <2>5 DEF ClaimsHaveOneHolder
<1>2. QED
  BY <1>1, QueueInvariant, PTL

\* A follow-up is not run again after its turn has completed, unless the operator retried
\* or discarded one in flight, or a drain put this one back when it had run or had been
\* queued a second time.
THEOREM NoFollowUpRunsTwice == QueueSpec => NoRerun
<1>1. ASSUME QueueInv, NEW f \in Calls, RunClaimed(f),
             ~fate.meddled, Top(call[f]).text \notin fate.returned
      PROVE  Top(call[f]).text \notin fate.completed
  <2>1. call[f].pc = "restore" /\ call[f].held # <<>>
    BY <1>1 DEF RunClaimed, QueueInv, QueueOK, CallOK
  <2>2. Bears(f, call[f]) /\ TextOf(f) = Top(call[f]).text
    BY <2>1 DEF Bears, TextOf
  <2>3. TextOf(f) \in Submits
    BY <1>1, <2>1, TextTyped DEF QueueInv
  <2>4. OnePlace(TextOf(f))
    BY <1>1, <2>2, <2>3 DEF QueueInv, PlacesInv
  <2>5. QED
    BY <2>2, <2>4 DEF OnePlace
<1>2. QueueInv => [\A f \in Calls : RunClaimed(f) /\ call'[f].pc = "turn" =>
                       fate.meddled \/ Top(call[f]).text \notin fate.completed \ fate.returned]_queueVars
  BY <1>1
<1>3. QED
  BY <1>2, QueueInvariant, PTL DEF NoRerun

=============================================================================
