-------------------------- MODULE RuntimeStoresProofs --------------------------
(***************************************************************************)
(* Four of the stores, for any keys, callers, sessions and bounds, and     *)
(* for operations in any order.                                            *)
(*                                                                         *)
(* The receipt table needs little: its properties are inductive beside its *)
(* types, as a row takes the revision after the current one.               *)
(*                                                                         *)
(* The lifecycle lock excludes, with its exceptions.  As long as no lock   *)
(* was moved that nobody had judged stale, a caller in the critical        *)
(* section finds its own token at the path, what is in a quarantine is the *)
(* token that was judged, and what is being released is the own one.  The  *)
(* token that was judged belongs to a dead process, and a dead process     *)
(* stays dead: so no rename takes the lock from a holder.                  *)
(*                                                                         *)
(* The replay buffer is the end of what was published (RingIsEnd), and the *)
(* mark of a session is the last of its events that left it, so what a     *)
(* subscriber above the mark asks for is there (MarksAreLast).  A session  *)
(* without a mark is safe only above everything that left.                 *)
(*                                                                         *)
(* An evolution run trusts what it compares.  Between the sealing and the  *)
(* comparison files are only added, and an edit is never made twice, so a  *)
(* candidate equal to what was sealed is what was evaluated (Judging), and *)
(* one that was changed never again equals what passed.  The record is     *)
(* true for good, as an attempt only starts where there is none            *)
(* (RecordIsTrue, Trying).  A cleanup is true only where it lists          *)
(* resources: that of an attempt without a candidate says nothing.         *)
(* While nothing is recorded, whatever is on disk is in the journal, which *)
(* is written before anything is acquired (Kept, Journalled).              *)
(***************************************************************************)
EXTENDS RuntimeLedger, LifecycleLock, EventJournal, CreatorEvolution, SequenceTheorems,
        FiniteSetTheorems, TLAPS

(***************************************************************************)
(* The receipt table.                                                      *)
(***************************************************************************)
\* The ledger only ever holds well-formed rows.
THEOREM LedgerTypeCorrect == LedgerSpec => []LedgerTypeOK
<1> USE LedgerAssumption DEF LedgerTypeOK
<1>1. LedgerInit => LedgerTypeOK
  BY DEF LedgerInit, Row
<1>2. LedgerTypeOK /\ [LedgerNext]_ledgerVars => LedgerTypeOK'
  <2> SUFFICES ASSUME LedgerTypeOK, [LedgerNext]_ledgerVars
               PROVE  LedgerTypeOK'
    OBVIOUS
  <2> USE DEF Row, Statuses
  <2>1. CASE \E k \in Keys, fp \in Fingerprints : AdmitMutation(k, fp)
    BY <2>1 DEF AdmitMutation, InsertRow
  <2>2. CASE \E k \in Keys, s \in Terminal, res \in Results \cup {Null} :
                CompleteMutation(k, s, res)
    BY <2>2 DEF CompleteMutation, CompletionRefused, Terminal
  <2>3. CASE \E k \in Keys : ReopenMutation(k)
    BY <2>3 DEF ReopenMutation
  <2>4. CASE \E n \in 0..MaxRevision : SeedSessionRevision(n)
    BY <2>4 DEF SeedSessionRevision, Larger
  <2>5. CASE RecoverInDoubt
    BY <2>5 DEF RecoverInDoubt
  <2>6. CASE UNCHANGED ledgerVars
    BY <2>6 DEF ledgerVars
  <2>7. QED
    BY <2>1, <2>2, <2>3, <2>4, <2>5, <2>6 DEF LedgerNext
<1>3. QED
  BY <1>1, <1>2, PTL DEF LedgerSpec

\* Accepted revisions are distinct and never above the session's revision.
\* AcceptedRevisionsDistinct is inductive beside the type invariant: a new row
\* takes the revision after the current one, and no operation lowers it.
THEOREM RevisionsDistinct == LedgerSpec => []AcceptedRevisionsDistinct
<1> USE LedgerAssumption DEF AcceptedRevisionsDistinct
<1>1. LedgerInit => AcceptedRevisionsDistinct
  BY DEF LedgerInit
<1>2. LedgerTypeOK /\ AcceptedRevisionsDistinct /\ [LedgerNext]_ledgerVars
        => AcceptedRevisionsDistinct'
  <2> SUFFICES ASSUME LedgerTypeOK, AcceptedRevisionsDistinct, [LedgerNext]_ledgerVars
               PROVE  AcceptedRevisionsDistinct'
    OBVIOUS
  <2> USE DEF LedgerTypeOK, Row
  <2>1. CASE \E k \in Keys, fp \in Fingerprints : AdmitMutation(k, fp)
    BY <2>1 DEF AdmitMutation, InsertRow
  <2>2. CASE \E k \in Keys, s \in Terminal, res \in Results \cup {Null} :
                CompleteMutation(k, s, res)
    BY <2>2 DEF CompleteMutation, CompletionRefused
  <2>3. CASE \E k \in Keys : ReopenMutation(k)
    BY <2>3 DEF ReopenMutation
  <2>4. CASE \E n \in 0..MaxRevision : SeedSessionRevision(n)
    BY <2>4 DEF SeedSessionRevision, Larger
  <2>5. CASE RecoverInDoubt
    BY <2>5 DEF RecoverInDoubt
  <2>6. CASE UNCHANGED ledgerVars
    BY <2>6 DEF ledgerVars
  <2>7. QED
    BY <2>1, <2>2, <2>3, <2>4, <2>5, <2>6 DEF LedgerNext
<1>3. QED
  BY <1>1, <1>2, LedgerTypeCorrect, PTL DEF LedgerSpec

\* A stored outcome, the payload a row fences and its accepted revision are final.
THEOREM OutcomesAreFinal == LedgerSpec => OutcomeIsFinal
<1> DEFINE Final ==
      \A k \in DOMAIN receipts :
          /\ k \in DOMAIN receipts'
          /\ receipts'[k].fingerprint = receipts[k].fingerprint
          /\ receipts'[k].acceptedRevision = receipts[k].acceptedRevision
          /\ receipts[k].status \in Terminal => receipts'[k] = receipts[k]
<1>1. LedgerTypeOK /\ [LedgerNext]_ledgerVars => [Final]_ledgerVars
  <2> SUFFICES ASSUME LedgerTypeOK, LedgerNext
               PROVE  Final
    OBVIOUS
  <2> USE DEF LedgerTypeOK, Row
  <2>1. CASE \E k \in Keys, fp \in Fingerprints : AdmitMutation(k, fp)
    BY <2>1 DEF AdmitMutation, InsertRow
  <2>2. CASE \E k \in Keys, s \in Terminal, res \in Results \cup {Null} :
                CompleteMutation(k, s, res)
    BY <2>2 DEF CompleteMutation, CompletionRefused
  <2>3. CASE \E k \in Keys : ReopenMutation(k)
    BY <2>3 DEF ReopenMutation, Terminal
  <2>4. CASE \E n \in 0..MaxRevision : SeedSessionRevision(n)
    BY <2>4 DEF SeedSessionRevision
  <2>5. CASE RecoverInDoubt
    BY <2>5 DEF RecoverInDoubt, Terminal
  <2>6. QED
    BY <2>1, <2>2, <2>3, <2>4, <2>5 DEF LedgerNext
<1>2. QED
  BY <1>1, LedgerTypeCorrect, PTL DEF LedgerSpec, OutcomeIsFinal

(***************************************************************************)
(* The lifecycle lock.                                                     *)
(***************************************************************************)
Unraced == races \cap {"unread", "late"} = {}

HeldOwns == \A c \in Callers : At(c, "held") => lockPath = OwnToken(c)
TakenSeen ==
    \A c \in Callers : At(c, "taken") => acquire[c].shelf = acquire[c].seen /\ acquire[c].seen # NoLock
MovedOwn == \A c \in Callers : At(c, "moved") => acquire[c].shelf = OwnToken(c)
SeenDead == \A c \in Callers : acquire[c].seen # NoLock => At(acquire[c].seen[1], "dead")
ReleaseFollows == "release" \in races => ~Unraced

LockInv ==
    /\ LockTypeOK /\ SeenDead /\ ReleaseFollows
    /\ Unraced => HeldOwns /\ TakenSeen /\ MovedOwn

\* No token is mistaken for a missing lock.
LEMMA TokenIsThere == NoLock \notin Token
BY LockAssumption DEF LockAssumption, Token

\* Every step keeps the state well-formed.
LEMMA LockTypeStep ==
    ASSUME LockTypeOK, [LockNext]_lockVars
    PROVE  LockTypeOK'
<1> USE LockAssumption DEF LockTypeOK, Acquirer, At, Goto, Leave
<1>1. CASE \E c \in Callers : Begin(c) \/ Aborted(c) \/ Blocked(c) \/ StatLock(c) \/ Die(c)
  BY <1>1 DEF Begin, Aborted, Blocked, StatLock, Die
<1>2. CASE \E c \in Callers : Claim(c)
  <2> PICK c \in Callers : Claim(c)
    BY <1>2
  <2>1. acquire[c].claims + 1 \in 1..MaxClaims
    BY DEF Claim
  <2>2. QED
    BY <2>1 DEF Claim, Token, LockAssumption
<1>3. CASE \E c \in Callers : ReadOwner(c)
  BY <1>3 DEF ReadOwner
<1>4. CASE \E c \in Callers : Take(c)
  BY <1>4 DEF Take
<1>5. CASE \E c \in Callers : CheckTaken(c) \/ CheckMoved(c)
  BY <1>5 DEF CheckTaken, CheckMoved, PutBackLock
<1>6. CASE \E c \in Callers : MoveAway(c)
  BY <1>6 DEF MoveAway
<1>7. CASE UNCHANGED lockVars
  BY <1>7 DEF lockVars
<1>8. QED
  BY <1>1, <1>2, <1>3, <1>4, <1>5, <1>6, <1>7 DEF LockNext

\* A step that moves no lock and makes nobody a holder keeps the invariant.
LEMMA QuietStep ==
    ASSUME LockInv, LockTypeOK', NEW c \in Callers, UNCHANGED <<lockPath, races>>,
           Begin(c) \/ Aborted(c) \/ Blocked(c) \/ ReadOwner(c) \/ StatLock(c) \/ Die(c)
    PROVE  LockInv'
<1> USE DEF LockInv, LockTypeOK, Acquirer
<1>1. \A d \in Callers : At(d, "dead") => At(d, "dead")'
  BY DEF Begin, Aborted, Blocked, ReadOwner, StatLock, Die, At, Goto
<1>2. \A d \in Callers :
         /\ \/ acquire'[d].seen \in {acquire[d].seen, NoLock}
            \/ acquire'[d].seen = lockPath /\ At(lockPath[1], "dead") /\ lockPath # NoLock
         /\ acquire'[d].shelf = acquire[d].shelf /\ acquire'[d].claims = acquire[d].claims
         /\ acquire'[d].pc \in {"held", "taken", "moved"} => acquire'[d] = acquire[d]
  <2>1. CASE Begin(c) \/ Aborted(c) \/ Blocked(c) \/ StatLock(c) \/ Die(c)
    BY <2>1 DEF Begin, Aborted, Blocked, StatLock, Die, At, Goto
  <2>2. CASE ReadOwner(c)
    BY <2>2 DEF ReadOwner, At, Goto, MayBeStale
  <2>3. QED
    BY <2>1, <2>2
<1>3. SeenDead'
  BY <1>1, <1>2 DEF SeenDead, Token
<1>4. ReleaseFollows' /\ (Unraced' <=> Unraced)
  BY DEF ReleaseFollows, Unraced
<1>5. Unraced => HeldOwns' /\ TakenSeen' /\ MovedOwn'
  BY <1>2 DEF HeldOwns, TakenSeen, MovedOwn, At, OwnToken
<1>6. QED
  BY <1>3, <1>4, <1>5

\* The path was free: nobody held the lock.
LEMMA ClaimStep ==
    ASSUME LockInv, LockTypeOK', NEW c \in Callers, Claim(c)
    PROVE  LockInv'
<1> USE DEF LockInv, LockTypeOK, Acquirer, Claim
<1>1. SeenDead'
  BY DEF SeenDead, At, Token
<1>2. ReleaseFollows' /\ (Unraced' <=> Unraced)
  BY DEF ReleaseFollows, Unraced
<1>3. ASSUME Unraced
      PROVE  HeldOwns' /\ TakenSeen' /\ MovedOwn'
  <2>1. \A d \in Callers : ~At(d, "held")
    <3>1. \A d \in Callers : OwnToken(d) # NoLock
      BY LockAssumption DEF LockAssumption, OwnToken
    <3>2. QED
      BY <1>3, <3>1 DEF HeldOwns
  <2>2. HeldOwns'
    BY <2>1 DEF HeldOwns, At, OwnToken
  <2>3. QED
    BY <1>3, <2>2 DEF TakenSeen, MovedOwn, At, OwnToken
<1>4. QED
  BY <1>1, <1>2, <1>3

\* A lock that was judged stale by its owner is not a holder's.
LEMMA TakeStep ==
    ASSUME LockInv, LockTypeOK', NEW c \in Callers, Take(c)
    PROVE  LockInv'
<1> USE DEF LockInv, LockTypeOK, Acquirer, Take, Leave
<1>1. SeenDead'
  BY DEF SeenDead, At, Token
<1>2. ReleaseFollows' /\ (Unraced' => Unraced)
  BY DEF ReleaseFollows, Unraced
<1>3. ASSUME Unraced'
      PROVE  HeldOwns' /\ TakenSeen' /\ MovedOwn'
  <2>1. CASE lockPath' = lockPath
    BY <1>2, <1>3, <2>1 DEF HeldOwns, TakenSeen, MovedOwn, At, OwnToken
  <2>2. CASE lockPath' # lockPath
    <3>1. lockPath = acquire[c].seen /\ lockPath # NoLock
      BY <1>3, <2>2 DEF Unraced
    <3>2. \A d \in Callers : ~At(d, "held")
      BY <1>2, <1>3, <3>1 DEF HeldOwns, SeenDead, OwnToken, At
    <3>3. acquire' = [acquire EXCEPT ![c].pc = "taken", ![c].shelf = lockPath]
      BY <2>2
    <3>4. QED
      BY <1>2, <1>3, <3>1, <3>2, <3>3 DEF HeldOwns, TakenSeen, MovedOwn, At, OwnToken
  <2>3. QED
    BY <2>1, <2>2
<1>4. QED
  BY <1>1, <1>2, <1>3

\* What is in a quarantine or released is what it should be: nothing is put back.
LEMMA SettleStep ==
    ASSUME LockInv, LockTypeOK', NEW c \in Callers, CheckTaken(c) \/ CheckMoved(c)
    PROVE  LockInv'
<1> USE DEF LockInv, LockTypeOK, Acquirer, CheckTaken, CheckMoved, Leave
<1>1. SeenDead'
  BY DEF SeenDead, At, Token
<1>2. ReleaseFollows' /\ (Unraced' <=> Unraced)
  BY DEF ReleaseFollows, Unraced
<1>3. ASSUME Unraced
      PROVE  HeldOwns' /\ TakenSeen' /\ MovedOwn'
  <2>1. lockPath' = lockPath
    BY <1>3 DEF TakenSeen, MovedOwn
  <2>2. QED
    BY <1>3, <2>1 DEF HeldOwns, TakenSeen, MovedOwn, At, OwnToken
<1>4. QED
  BY <1>1, <1>2, <1>3

\* A holder releases its own lock, and was the only one.
LEMMA MoveAwayStep ==
    ASSUME LockInv, LockTypeOK', NEW c \in Callers, MoveAway(c)
    PROVE  LockInv'
<1> USE DEF LockInv, LockTypeOK, Acquirer, MoveAway, Goto
<1>1. SeenDead'
  BY DEF SeenDead, At, Token
<1>2. Unraced' <=> Unraced
  BY DEF Unraced
<1>3. ReleaseFollows'
  BY <1>2 DEF ReleaseFollows, Unraced, HeldOwns
<1>4. ASSUME Unraced
      PROVE  HeldOwns' /\ TakenSeen' /\ MovedOwn'
  <2>1. lockPath = OwnToken(c)
    BY <1>4 DEF HeldOwns
  <2>2. \A d \in Callers \ {c} : ~At(d, "held")
    BY <1>4, <2>1 DEF HeldOwns, OwnToken
  <2>3. lockPath # NoLock
    BY <2>1, LockAssumption DEF LockAssumption, OwnToken
  <2>4. QED
    BY <1>4, <2>1, <2>2, <2>3 DEF HeldOwns, TakenSeen, MovedOwn, At, OwnToken
<1>5. QED
  BY <1>1, <1>2, <1>3, <1>4

LEMMA LockInvStep ==
    ASSUME LockInv, [LockNext]_lockVars
    PROVE  LockInv'
<1>1. LockTypeOK'
  BY LockTypeStep DEF LockInv
<1>2. CASE UNCHANGED lockVars
  BY <1>1, <1>2 DEF lockVars, LockInv, SeenDead, ReleaseFollows, Unraced, HeldOwns, TakenSeen,
                    MovedOwn, At, OwnToken
<1>3. CASE LockNext
  <2> PICK c \in Callers :
          \/ Begin(c) \/ Aborted(c) \/ Claim(c) \/ Blocked(c) \/ ReadOwner(c) \/ StatLock(c)
          \/ Take(c) \/ CheckTaken(c) \/ MoveAway(c) \/ CheckMoved(c) \/ Die(c)
    BY <1>3 DEF LockNext
  <2>1. CASE Begin(c) \/ Aborted(c) \/ Blocked(c) \/ ReadOwner(c) \/ StatLock(c) \/ Die(c)
    <3>1. UNCHANGED <<lockPath, races>>
      BY <2>1 DEF Begin, Aborted, Blocked, ReadOwner, StatLock, Die
    <3>2. QED
      BY <1>1, <2>1, <3>1, QuietStep
  <2>2. QED
    BY <1>1, <2>1, ClaimStep, TakeStep, SettleStep, MoveAwayStep
<1>4. QED
  BY <1>2, <1>3

LEMMA LockInvStart ==
    ASSUME LockInit
    PROVE  LockInv
<1> USE LockAssumption DEF LockInit, LockAssumption
<1>1. LockTypeOK
  BY DEF LockTypeOK, Acquirer
<1>2. QED
  BY <1>1 DEF LockInv, SeenDead, ReleaseFollows, Unraced, HeldOwns, TakenSeen, MovedOwn, At

LEMMA LockInvariant == LockSpec => []LockInv
BY LockInvStart, LockInvStep, PTL DEF LockSpec

\* The state of the lock is well-formed (acquirePreparationLock).
THEOREM LockTypeCorrect == LockSpec => []LockTypeOK
<1>1. LockInv => LockTypeOK
  BY DEF LockInv
<1>2. QED
  BY LockInvariant, <1>1, PTL

\* Two processes hold the lifecycle lock only after a rename that moved another lock than
\* the one whose owner was found dead (acquirePreparationLock, releasePreparationLock).
THEOREM OnlyRacesSplit == LockSpec => []OnlyStaleTakeoversSplit
<1>1. LockInv => OnlyStaleTakeoversSplit
  <2> SUFFICES ASSUME LockInv
               PROVE  OnlyStaleTakeoversSplit
    OBVIOUS
  <2>1. Unraced => OneHolder
    BY DEF LockInv, HeldOwns, OneHolder, OwnToken
  <2>2. QED
    BY <2>1 DEF LockInv, OnlyStaleTakeoversSplit, ReleaseFollows, Unraced
<1>2. QED
  BY LockInvariant, <1>1, PTL

(***************************************************************************)
(* The replay buffer.                                                      *)
(***************************************************************************)
\* The number of events that have left the ring.
Gone == Len(published) - Len(ring)

\* The ring is the end of what was published.
RingIsEnd ==
    /\ Len(ring) <= Len(published)
    /\ Len(ring) < Capacity => Len(ring) = Len(published)
    /\ \A i \in 1..Len(ring) : ring[i].id = Gone + i /\ ring[i].session = published[Gone + i]

\* A watermark is the last event of its session that left the ring.
MarksAreLast ==
    \A w \in watermarks :
        w.id <= Gone /\ \A i \in 1..Gone : published[i] = w.session => i <= w.id

JournalInv == JournalTypeOK /\ IsFiniteSet(watermarks) /\ RingIsEnd /\ MarksAreLast

\* A set of naturals has a least element: its finite initial segments are well-founded.
LEMMA LeastNatural ==
    ASSUME NEW S \in SUBSET Nat, S # {}
    PROVE  \E n \in S : \A m \in S : n <= m
  <1> DEFINE upTo(n) == {m \in S : m <= n}
             segments == {upTo(n) : n \in S}
  <1>1. segments \subseteq FiniteSubsetsOf(S) /\ segments # {}
    <2>1. ASSUME NEW n \in S
          PROVE  IsFiniteSet(upTo(n)) /\ upTo(n) \subseteq S
      <3>1. upTo(n) \in SUBSET Nat /\ n \in Nat /\ \A m \in upTo(n) : m <= n
        OBVIOUS
      <3> HIDE DEF upTo
      <3>2. IsFiniteSet(upTo(n))
        BY <3>1, FS_BoundedSetOfNaturals
      <3> QED BY <3>2 DEF upTo
    <2> QED BY <2>1 DEF FiniteSubsetsOf
  <1>2. PICK low \in segments : \A x \in segments : ~ (<<x, low>> \in StrictSubsetOrdering(S))
    <2> HIDE DEF segments
    <2> QED BY <1>1, FS_StrictSubsetOrderingWellFounded, WFMin
  <1>3. PICK n \in S : low = upTo(n)
    BY <1>2
  <1>4. ASSUME NEW m \in S, ~ (n <= m)
        PROVE  FALSE
    <2>1. n \in Nat /\ m \in Nat /\ m < n /\ S \subseteq Nat
      BY <1>4
    <2>2. upTo(m) \in segments /\ n \in upTo(n) \ upTo(m)
      BY <2>1
    <2>3. upTo(m) \subseteq upTo(n)
      <3>1. \A x \in S : x <= m => x <= n
        BY <2>1
      <3> QED BY <3>1
    <2>4. upTo(m) \in SUBSET S /\ upTo(n) \in SUBSET S
      OBVIOUS
    <2> HIDE DEF upTo, segments
    <2> QED BY <1>2, <1>3, <2>2, <2>3, <2>4 DEF StrictSubsetOrdering
  <1> QED BY <1>4

\* The table after an eviction: it has a new mark, and is not larger than allowed.
LEMMA WatermarkedEffect ==
    ASSUME JournalInv, NEW e \in Event
    PROVE  /\ Watermarked(e) \subseteq {w \in watermarks : w.session # e.session} \cup {e}
           /\ Watermarked(e) \subseteq Event /\ IsFiniteSet(Watermarked(e))
           /\ Cardinality(Watermarked(e)) <= Capacity
<1> DEFINE others == {w \in watermarks : w.session # e.session}
           table == others \cup {e}
           first == CHOOSE w \in table : \A x \in table : w.id <= x.id
<1>1. Capacity \in Nat \ {0} /\ watermarks \subseteq Event /\ IsFiniteSet(watermarks)
      /\ Cardinality(watermarks) \in Nat /\ Cardinality(watermarks) <= Capacity
  BY JournalAssumption, FS_CardinalityType DEF JournalInv, JournalTypeOK
<1>2. IsFiniteSet(others) /\ Cardinality(others) \in Nat /\ Cardinality(others) <= Capacity
  <2>1. others \in SUBSET watermarks
    OBVIOUS
  <2> HIDE DEF others
  <2> QED BY <1>1, <2>1, FS_Subset, FS_CardinalityType
<1>3. IsFiniteSet(table) /\ Cardinality(table) \in Nat /\ Cardinality(table) <= Capacity + 1
  <2> HIDE DEF others
  <2>1. IsFiniteSet(table) /\ Cardinality(table) <= Cardinality(others) + 1
    BY <1>2, FS_AddElement
  <2> QED BY <1>1, <1>2, <2>1, FS_CardinalityType
<1>4. table \subseteq Event /\ e \in table
  BY <1>1
<1>5. first \in table
  <2> HIDE DEF table
  <2> DEFINE ids == {w.id : w \in table}
  <2>1. ids \in SUBSET Nat /\ ids # {}
    BY <1>4 DEF Event
  <2>2. PICK n \in ids : \A m \in ids : n <= m
    <3> HIDE DEF ids
    <3> QED BY <2>1, LeastNatural
  <2>3. \E w \in table : \A x \in table : w.id <= x.id
    BY <2>2
  <2> QED BY <2>3
<1>6. IsFiniteSet(table \ {first}) /\ Cardinality(table \ {first}) <= Capacity
  <2> HIDE DEF table, first
  <2>1. IsFiniteSet(table \ {first}) /\ Cardinality(table \ {first}) = Cardinality(table) - 1
    BY <1>3, <1>5, FS_RemoveElement
  <2> QED BY <1>1, <1>3, <2>1
<1>7. Watermarked(e) = IF Cardinality(table) <= Capacity THEN table ELSE table \ {first}
  BY DEF Watermarked
<1> HIDE DEF first
<1>8. Watermarked(e) \subseteq table
  <2> HIDE DEF table
  <2> QED BY <1>7
<1>9. IsFiniteSet(Watermarked(e)) /\ Cardinality(Watermarked(e)) <= Capacity
  <2> HIDE DEF table
  <2> QED BY <1>3, <1>6, <1>7
<1> QED BY <1>4, <1>8, <1>9

\* An event is published.
LEMMA PublishKeeps ==
    ASSUME JournalInv, NEW s \in Sessions, Publish(s)
    PROVE  JournalInv'
<1> DEFINE n == Len(published)
           item == [id |-> n + 1, session |-> s]
<1>1. /\ ring \in Seq(Event) /\ published \in Seq(Sessions) /\ n \in Nat /\ Len(ring) \in Nat
      /\ Capacity \in Nat \ {0} /\ Len(ring) <= Capacity /\ Len(ring) <= n
      /\ Gone = n - Len(ring) /\ Gone \in Nat /\ item \in Event
  BY JournalAssumption DEF JournalInv, JournalTypeOK, RingIsEnd, Gone, Publish, NextId, Event
<1>2. /\ published' \in Seq(Sessions) /\ Len(published') = n + 1 /\ published'[n + 1] = s
      /\ \A i \in 1..n : published'[i] = published[i]
  BY <1>1, AppendProperties DEF Publish
<1>3. CASE Len(ring) < Capacity /\ ring' = Append(ring, item) /\ UNCHANGED watermarks
  <2>1. /\ ring' \in Seq(Event) /\ Len(ring') = Len(ring) + 1 /\ ring'[Len(ring) + 1] = item
        /\ \A i \in 1..Len(ring) : ring'[i] = ring[i]
    <3> HIDE DEF item
    <3> QED BY <1>1, <1>3, AppendProperties
  <2>2. Len(ring) = n /\ Gone = 0 /\ Gone' = 0
    BY <1>1, <1>2, <1>3, <2>1 DEF JournalInv, RingIsEnd, Gone
  <2>3. RingIsEnd'
    <3>1. ASSUME NEW i \in 1..Len(ring')
          PROVE  ring'[i].id = i /\ ring'[i].session = published'[i]
      <4>1. CASE i \in 1..n
        BY <1>1, <1>2, <2>1, <2>2, <4>1 DEF JournalInv, RingIsEnd
      <4>2. CASE i = n + 1
        BY <1>2, <2>1, <2>2, <4>2
      <4> QED BY <1>1, <2>1, <2>2, <4>1, <4>2
    <3>2. \A i \in 1..Len(ring') : Gone' + i = i
      BY <1>1, <2>1, <2>2
    <3> QED BY <1>1, <1>2, <2>1, <2>2, <3>1, <3>2 DEF RingIsEnd
  <2>4. MarksAreLast'
    BY <1>1, <1>3, <2>2 DEF JournalInv, MarksAreLast
  <2>5. JournalTypeOK'
    BY <1>1, <1>2, <1>3, <2>1 DEF JournalInv, JournalTypeOK
  <2> QED BY <1>3, <2>3, <2>4, <2>5 DEF JournalInv
<1>4. CASE Len(ring) = Capacity /\ ring' = Append(Tail(ring), item)
           /\ watermarks' = Watermarked(Head(ring))
  <2> DEFINE e == Head(ring)
  <2>1. ring # <<>> /\ e = ring[1] /\ e \in Event
    BY <1>1, <1>4
  <2>2. /\ Tail(ring) \in Seq(Event) /\ Len(Tail(ring)) = Len(ring) - 1
        /\ \A i \in 1..Len(Tail(ring)) : Tail(ring)[i] = ring[i + 1]
    BY <1>1, <2>1, HeadTailProperties
  <2>3. /\ ring' \in Seq(Event) /\ Len(ring') = Len(ring) /\ ring'[Len(ring)] = item
        /\ \A i \in 1..Len(ring) - 1 : ring'[i] = ring[i + 1]
    <3> HIDE DEF item
    <3>1. /\ ring' \in Seq(Event) /\ Len(ring') = Len(Tail(ring)) + 1
          /\ ring'[Len(Tail(ring)) + 1] = item
          /\ \A i \in 1..Len(Tail(ring)) : ring'[i] = Tail(ring)[i]
      BY <1>1, <1>4, <2>2, AppendProperties
    <3> QED BY <1>1, <2>2, <3>1
  <2>4. Gone' = Gone + 1
    BY <1>1, <1>2, <2>3 DEF Gone
  <2>5. e.id = Gone + 1 /\ e.session = published[Gone + 1] /\ Gone + 1 \in 1..n
    <3>1. 1 \in 1..Len(ring) /\ Gone + 1 \in 1..n
      BY <1>1, <1>4
    <3>2. ring[1].id = Gone + 1 /\ ring[1].session = published[Gone + 1]
      BY <3>1 DEF JournalInv, RingIsEnd
    <3> QED BY <2>1, <3>1, <3>2
  <2>6. RingIsEnd'
    <3>1. ASSUME NEW i \in 1..Len(ring')
          PROVE  ring'[i].id = Gone' + i /\ ring'[i].session = published'[Gone' + i]
      <4>1. CASE i \in 1..Len(ring) - 1
        <5>1. i + 1 \in 1..Len(ring) /\ Gone + (i + 1) = Gone' + i /\ Gone' + i \in 1..n
          BY <1>1, <2>4, <4>1
        <5> QED BY <1>2, <2>3, <4>1, <5>1 DEF JournalInv, RingIsEnd
      <4>2. CASE i = Len(ring)
        <5>1. Gone' + i = n + 1
          BY <1>1, <2>4, <4>2
        <5> QED BY <1>2, <2>3, <4>2, <5>1
      <4> QED BY <1>1, <2>3, <4>1, <4>2
    <3>2. Len(ring') <= Len(published') /\ ~(Len(ring') < Capacity)
      BY <1>1, <1>2, <1>4, <2>3
    <3> QED BY <3>1, <3>2 DEF RingIsEnd
  <2>7. /\ watermarks' \subseteq {w \in watermarks : w.session # e.session} \cup {e}
        /\ watermarks' \subseteq Event /\ IsFiniteSet(watermarks')
        /\ Cardinality(watermarks') <= Capacity
    <3> HIDE DEF e
    <3> QED BY <1>4, <2>1, WatermarkedEffect DEF e
  <2>8. MarksAreLast'
    <3>1. ASSUME NEW w \in watermarks'
          PROVE  w.id <= Gone' /\ \A i \in 1..Gone' : published'[i] = w.session => i <= w.id
      <4>1. \A i \in 1..Gone' : i \in 1..Gone \/ i = Gone + 1
        <5>1. Gone \in Nat
          BY <1>1
        <5> QED BY <2>4, <5>1
      <4>2. \A i \in 1..Gone' : published'[i] = published[i]
        BY <1>1, <1>2, <2>4, <2>5
      <4>3. CASE w = e
        <5>1. Gone \in Nat /\ w.id = Gone'
          BY <1>1, <2>4, <2>5, <4>3
        <5>2. \A i \in 1..Gone' : i <= w.id
          BY <2>4, <5>1
        <5> QED BY <2>4, <5>1, <5>2
      <4>4. CASE w \in watermarks /\ w.session # e.session
        <5>1. w.id <= Gone /\ w.id \in Nat
          BY <2>7, <4>4 DEF JournalInv, JournalTypeOK, MarksAreLast, Event
        <5>2. \A i \in 1..Gone : published[i] = w.session => i <= w.id
          BY <4>4 DEF JournalInv, MarksAreLast
        <5> QED BY <1>1, <2>4, <2>5, <4>1, <4>2, <4>4, <5>1, <5>2
      <4> QED BY <2>7, <4>3, <4>4
    <3> QED BY <3>1 DEF MarksAreLast
  <2>9. JournalTypeOK'
    BY <1>1, <1>2, <2>3, <2>7 DEF JournalTypeOK
  <2> QED BY <2>6, <2>7, <2>8, <2>9 DEF JournalInv
<1> QED BY <1>3, <1>4 DEF Publish, NextId

\* JournalInv holds in every state of the replay buffer.
THEOREM JournalCorrect == JournalSpec => []JournalInv
<1>1. JournalInit => JournalInv
  BY JournalAssumption, FS_EmptySet
  DEF JournalInit, JournalInv, JournalTypeOK, RingIsEnd, MarksAreLast, Gone
<1>2. JournalInv /\ [JournalNext]_journalVars => JournalInv'
  <2>1. JournalInv /\ UNCHANGED journalVars => JournalInv'
    BY DEF journalVars, JournalInv, JournalTypeOK, RingIsEnd, MarksAreLast, Gone
  <2> QED BY <2>1, PublishKeeps DEF JournalNext
<1> QED BY <1>1, <1>2, PTL DEF JournalSpec

\* The ring and the table of watermarks hold events and never outgrow their capacity,
\* however many sessions publish.
THEOREM JournalTypeCorrect == JournalSpec => []JournalTypeOK
<1>1. JournalInv => JournalTypeOK
  BY DEF JournalInv
<1> QED BY <1>1, JournalCorrect, PTL

\* A subscriber that resumes is served all its session published since, or told that its
\* cursor expired, whatever the capacity, the sessions and the table that forgets them.
THEOREM ReplaysAreComplete == JournalSpec => []ReplayIsComplete
<1>1. JournalInv => ReplayIsComplete
  <2> SUFFICES ASSUME JournalInv, NEW s \in Sessions, NEW after \in Ids(s), ~Expired(s, after)
               PROVE  Replayed(s, after) = {i \in Ids(s) : i > after}
    BY DEF ReplayIsComplete
  <2>1. /\ ring \in Seq(Event) /\ published \in Seq(Sessions) /\ Len(published) \in Nat
        /\ Len(ring) \in Nat /\ Gone = Len(published) - Len(ring) /\ Gone \in Nat
        /\ after \in 1..Len(published) /\ Capacity > 0 /\ Capacity \in Nat
    BY JournalAssumption DEF JournalInv, JournalTypeOK, RingIsEnd, Gone, Ids
  <2>2. ring # <<>> /\ Oldest = Gone + 1
    BY <2>1 DEF JournalInv, RingIsEnd, Oldest
  <2>3. ASSUME NEW i \in Ids(s), i > after
        PROVE  i > Gone
    <3>1. i \in 1..Len(published) /\ published[i] = s
      BY <2>1 DEF Ids
    <3>2. CASE WatermarksOf(s) = {}
      BY <2>1, <2>2, <2>3, <3>1, <3>2 DEF Expired
    <3>3. CASE WatermarksOf(s) # {}
      <4>1. PICK w \in watermarks : w.session = s
        BY <3>3 DEF WatermarksOf
      <4>2. w.id \in WatermarksOf(s) /\ w.id \in Nat
        BY <4>1 DEF WatermarksOf, JournalInv, JournalTypeOK, Event
      <4>3. ~(after < w.id)
        BY <2>1, <4>2 DEF Expired
      <4>4. i \in 1..Gone => i <= w.id
        BY <3>1, <4>1 DEF JournalInv, MarksAreLast
      <4> QED BY <2>1, <2>3, <3>1, <4>2, <4>3, <4>4
    <3> QED BY <3>2, <3>3
  <2>4. ASSUME NEW i \in Ids(s), i > after
        PROVE  i \in Replayed(s, after)
    <3>1. i \in 1..Len(published) /\ published[i] = s /\ i > Gone
      BY <2>1, <2>3, <2>4 DEF Ids
    <3>2. i - Gone \in 1..Len(ring) /\ Gone + (i - Gone) = i
      BY <2>1, <3>1
    <3>3. ring[i - Gone].id = i /\ ring[i - Gone].session = s
      BY <3>1, <3>2 DEF JournalInv, RingIsEnd
    <3>4. ring[i - Gone] \in ToSet(ring)
      BY <2>1, <3>2 DEF ToSet
    <3> QED BY <2>4, <3>3, <3>4 DEF Replayed
  <2>5. ASSUME NEW i \in Replayed(s, after)
        PROVE  i \in Ids(s) /\ i > after
    <3>1. PICK k \in 1..Len(ring) : ring[k].id = i /\ ring[k].session = s /\ i > after
      BY <2>1, <2>5 DEF Replayed, ToSet
    <3>2. i = Gone + k /\ published[i] = s
      BY <3>1 DEF JournalInv, RingIsEnd
    <3> QED BY <2>1, <3>1, <3>2 DEF Ids
  <2> QED BY <2>4, <2>5
<1> QED BY <1>1, JournalCorrect, PTL
(***************************************************************************)
(* The evolution run.                                                      *)
(***************************************************************************)
Attempting == {"base", "prepare", "baseline", "branch", "tree", "sweep", "create", "inspect",
               "seal", "sealed", "evaluate", "compare", "dispatch", "confirm"}
WithCandidate == {"create", "inspect", "seal", "sealed", "evaluate", "compare", "dispatch",
                  "confirm"}
CleaningUp == {"dropBaseline", "dropTree", "dropBranch", "dropped"}
Decided == CleaningUp \cup {"record", "answered"}

\* Whoever is in a call holds the lock.
Alone == \A p \in Processes : ~In(p, "idle") => holder = p

\* An edit from outside that is still to come is in no file and in nothing evaluated.
EditsAreNew ==
    \A n \in Nat : n > spent.edits =>
        /\ disk.tree # None => <<"outsider", n>> \notin disk.tree
        /\ \A s \in passed : <<"outsider", n>> \notin s.loose

\* The record tells the truth for good, and what it calls ready passed.
RecordIsTrue ==
    disk.record # None =>
        /\ disk.record.cleanup = "completed" /\ disk.record.listed => NothingLeft
        /\ IsReady(disk.record) => disk.record.of \in passed /\ disk.record.cleanup = "retained"

\* What a process remembers as ready was recorded so.
Remembered(p) ==
    call[p].got # None =>
        /\ call[p].got \in Result /\ IsReady(call[p].got)
        /\ call[p].got.of \in passed /\ call[p].got.cleanup = "retained"

\* A call that began with a changed candidate goes on to see that.
Looking(p) ==
    /\ In(p, "load") =>
          /\ spent.attempts > 0
          /\ call[p].changed =>
                disk.record # None /\ IsReady(disk.record) /\ ~Intact(disk.record)
    /\ call[p].pc \in {"verify", "reinspect"} =>
          call[p].got # None /\ (call[p].changed => ~Intact(call[p].got))

\* An attempt is made where nothing is recorded, and has its candidate on disk from the
\* moment it is prepared.
Trying(p) ==
    /\ call[p].pc \in Attempting =>
          /\ disk.record = None /\ ~call[p].changed /\ spent.attempts > 0
          /\ ~In(p, "base") => call[p].base \in Bases
    /\ In(p, "tree") => disk.branch # None
    /\ call[p].pc \in WithCandidate => Stands /\ call[p].prepared

\* Up to the comparison files are only added to what was sealed, so that what is unchanged
\* by then is what was evaluated.
Judging(p) ==
    /\ call[p].pc \in {"seal", "evaluate", "compare"} => call[p].snapshot # None
    /\ In(p, "evaluate") =>
          call[p].snapshot.commit = disk.branch /\ call[p].snapshot.loose \subseteq disk.tree
    /\ In(p, "compare") /\ call[p].verdict = "pass" =>
          \E s \in passed : /\ s.commit = disk.branch
                            /\ call[p].snapshot.loose \subseteq s.loose
                            /\ s.loose \subseteq disk.tree
    /\ call[p].pc \in {"dispatch", "confirm"} => call[p].snapshot \in passed

\* What was decided: a ready result passed and its candidate stands.
Deciding(p) ==
    call[p].pc \in Decided =>
        /\ call[p].out \in Result
        /\ call[p].pc \in CleaningUp => call[p].out.cleanup \in {"completed", "failed"}
        /\ IsReady(call[p].out) =>
              /\ call[p].out.of \in passed /\ ~call[p].changed /\ Stands
              /\ call[p].pc \in CleaningUp => call[p].retain /\ call[p].pc \in {"dropBaseline", "dropped"}
              /\ call[p].pc \in {"record", "answered"} => call[p].out.cleanup = "retained"

\* How far the cleanup has come, if nothing of it failed.
Clearing(p) ==
    /\ In(p, "dropTree") /\ call[p].out.cleanup = "completed" => disk.baseline = None
    /\ In(p, "dropBranch") /\ call[p].out.cleanup = "completed" =>
          disk.baseline = None /\ disk.tree = None
    /\ In(p, "dropped") /\ call[p].out.cleanup = "completed" /\ ~call[p].retain => NothingLeft
    /\ call[p].pc \in {"record", "answered"} /\ call[p].out.cleanup = "completed"
          /\ call[p].out.listed => NothingLeft

CallInv(p) ==
    Remembered(p) /\ Looking(p) /\ Trying(p) /\ Judging(p) /\ Deciding(p) /\ Clearing(p)
SharedInv == Alone /\ EditsAreNew /\ RecordIsTrue

EvolutionInv == EvolutionTypeOK /\ SharedInv /\ \A p \in Processes : CallInv(p)

\* The points of a call, one by one.
LEMMA PointsAre ==
    {"idle", "load", "verify", "base", "prepare", "baseline", "branch", "tree", "sweep",
     "create", "inspect", "seal", "sealed", "evaluate", "compare", "dispatch", "confirm",
     "reinspect", "dropBaseline", "dropTree", "dropBranch", "dropped", "record", "answered"}
        \subseteq Points
BY DEF Points

\* The endings of an attempt, one by one.
LEMMA EndingsAre == {"failed", "cancelled", "stale", "rejected", "pr-ready"} \subseteq Endings
BY DEF Endings

\* A call that changes one field stays a call.
LEMMA CallWith ==
    ASSUME NEW c \in Call, NEW pc \in Points
    PROVE  /\ [c EXCEPT !.pc = pc] \in Call
           /\ \A out \in Result : [c EXCEPT !.out = out] \in Call
           /\ \A base \in Bases : [c EXCEPT !.base = base] \in Call
           /\ \A b \in BOOLEAN :
                 /\ [c EXCEPT !.prepared = b] \in Call /\ [c EXCEPT !.retain = b] \in Call
                 /\ [c EXCEPT !.tried = b] \in Call /\ [c EXCEPT !.retained = b] \in Call
BY DEF Call

\* What finish() makes of a call is a call with a result.
LEMMA OutcomeIsCall ==
    ASSUME NEW c \in Call, NEW status \in Endings
    PROVE  Outcome(c, status) \in Call /\ Outcome(c, status).out \in Result
<1>1. (status = "pr-ready") \in BOOLEAN
  OBVIOUS
<1> DEFINE out == [status |-> status, recorded |-> FALSE, of |-> c.snapshot,
                   cleanup |-> "completed", listed |-> c.prepared]
<1>2. out \in Result
  <2>1. c.snapshot \in Snapshot \cup {None} /\ c.prepared \in BOOLEAN
    BY DEF Call
  <2>2. QED
    BY <2>1 DEF Result
<1>3. Outcome(c, status) \in Call
  BY <1>1, <1>2, PointsAre DEF Outcome, Call
<1>4. Outcome(c, status).out = out
  BY DEF Outcome, Call
<1>5. QED
  BY <1>2, <1>3, <1>4

\* A candidate that stands has a snapshot.
LEMMA OnDiskIsSnapshot ==
    ASSUME disk \in Disk, Stands
    PROVE  OnDisk \in Snapshot
<1>1. disk.branch \in Commit /\ disk.tree \in SUBSET Edit
  BY DEF Disk, Stands
<1>2. QED
  BY <1>1 DEF OnDisk, Snapshot

\* What a sweep leaves is a disk.
LEMMA SweptIsDisk ==
    ASSUME disk \in Disk
    PROVE  Swept \in Disk /\ PartlySwept \subseteq Disk
<1>1. Swept \in Disk
  BY DEF Disk, Swept
<1>2. ASSUME NEW t \in {disk.tree, None}, NEW b \in {disk.baseline, None}
      PROVE  [disk EXCEPT !.tree = t, !.baseline = b] \in Disk
  BY DEF Disk
<1>3. QED
  BY <1>1, <1>2 DEF PartlySwept

Spent == [attempts : 0..MaxAttempts, checks : 0..MaxChecks,
          faults : 0..MaxFaults, edits : 0..MaxEdits]

\* A fault is counted once.
LEMMA FaultIsSpent ==
    ASSUME spent \in Spent, Faulty
    PROVE  spent' \in Spent /\ spent'.edits = spent.edits /\ spent'.attempts = spent.attempts
BY EvolutionAssumption DEF Spent, Faulty, Spend

\* One call becomes another one.
LEMMA CallsStayWellFormed ==
    ASSUME NEW p \in Processes, call \in [Processes -> Call], NEW c \in Call,
           call' = [call EXCEPT ![p] = c]
    PROVE  call' \in [Processes -> Call]
OBVIOUS

\* Finish keeps the calls well-formed.
LEMMA FinishIsTyped ==
    ASSUME NEW p \in Processes, call \in [Processes -> Call],
           NEW status \in Endings,
           Finish(p, status)
    PROVE  call' \in [Processes -> Call]
BY OutcomeIsCall DEF Finish

\* So does a result that no longer stands.
LEMMA InvalidateIsTyped ==
    ASSUME NEW p \in Processes, call \in [Processes -> Call], call[p].got # None, Invalidate(p)
    PROVE  call' \in [Processes -> Call]
<1>1. call[p].got \in Result
  BY DEF Call
<1>2. call[p].got.of \in Snapshot \cup {None}
  BY <1>1 DEF Result
<1>3. [call[p] EXCEPT !.prepared = TRUE, !.snapshot = call[p].got.of] \in Call
  BY <1>2 DEF Call
<1>4. QED
  BY <1>3, OutcomeIsCall, EndingsAre DEF Invalidate

\* So does an answer.
LEMMA AnswerIsTyped ==
    ASSUME NEW p \in Processes, call \in [Processes -> Call],
           NEW result \in Result, NEW retained \in BOOLEAN,
           \/ Answer(p, result)
           \/ call' = [call EXCEPT ![p].pc = "answered", ![p].out = result,
                                  ![p].retained = retained]
    PROVE  call' \in [Processes -> Call]
<1>1. [call[p] EXCEPT !.pc = "answered", !.out = result] \in Call
  BY PointsAre, CallWith
<1>2. [call[p] EXCEPT !.pc = "answered", !.out = result, !.retained = retained] \in Call
  BY <1>1, CallWith, PointsAre
<1>3. QED
  BY <1>1, <1>2 DEF Answer

\* So does a move to another point.
LEMMA MoveIsTyped ==
    ASSUME NEW p \in Processes, call \in [Processes -> Call],
           NEW pc \in Points,
           MoveTo(p, pc)
    PROVE  call' \in [Processes -> Call]
BY DEF MoveTo, Call

\* Every step keeps the state well-formed.
LEMMA EvolutionTypeStep ==
    ASSUME EvolutionInv, [EvolutionNext]_evolutionVars
    PROVE  EvolutionTypeOK'
<1> USE EvolutionAssumption, PointsAre, EndingsAre DEF EvolutionInv, EvolutionTypeOK
<1>1. ASSUME NEW p \in Processes, Run(p)
      PROVE  EvolutionTypeOK'
  <2>1. spent' \in Spent
    BY <1>1 DEF Run, Spend, Spent
  <2>2. call' \in [Processes -> Call]
    BY <1>1 DEF Run, Start, Call, Idle
  <2>3. QED
    BY <1>1, <2>1, <2>2 DEF Run, Start, Spent
<1>2. ASSUME NEW p \in Processes, LoadRecord(p)
      PROVE  EvolutionTypeOK'
  BY <1>2 DEF LoadRecord, MoveTo, Answer, Call, Disk
<1>3. ASSUME NEW p \in Processes, VerifyRecorded(p)
      PROVE  EvolutionTypeOK'
  <2>1. call[p].got # None
    BY <1>3 DEF VerifyRecorded, CallInv, Looking, In
  <2>2. call' \in [Processes -> Call]
    <3>1. CASE Answer(p, call[p].got)
      <4>1. call[p].got \in Result
        BY <2>1 DEF Call
      <4>2. QED
        BY <3>1, <4>1, AnswerIsTyped
    <3>2. QED
      BY <1>3, <2>1, <3>1, InvalidateIsTyped DEF VerifyRecorded
  <2>3. QED
    BY <1>3, <2>2, FaultIsSpent DEF VerifyRecorded, Spent
<1>4. ASSUME NEW p \in Processes, ResolveBase(p)
      PROVE  EvolutionTypeOK'
  <2>1. disk.head \in Bases
    BY DEF Disk
  <2>2. [call[p] EXCEPT !.pc = "prepare", !.base = disk.head] \in Call
    BY <2>1, CallWith
  <2>3. QED
    BY <1>4, <2>2 DEF ResolveBase
<1>5. ASSUME NEW p \in Processes, Prepare(p)
      PROVE  EvolutionTypeOK'
  <2>1. call[p].base \in Bases
    BY <1>5 DEF Prepare, CallInv, Trying, In, Attempting
  <2>2. CASE Finish(p, "failed") /\ Faulty /\ disk' \in PartlySwept
    BY <2>2, <1>5, FinishIsTyped, FaultIsSpent, SweptIsDisk DEF Prepare, Spent
  <2>3. CASE /\ disk' = [IF Adoptable(call[p].base) THEN disk ELSE Swept
                           EXCEPT !.journal = call[p].base]
             /\ MoveTo(p, "baseline") /\ UNCHANGED spent
    <3>1. disk' \in Disk
      BY <2>1, <2>3, SweptIsDisk DEF Disk
    <3>2. QED
      BY <3>1, <2>3, <1>5, MoveIsTyped DEF Prepare
  <2>4. QED
    BY <1>5, <2>2, <2>3 DEF Prepare
<1>6. ASSUME NEW p \in Processes, Acquire(p)
      PROVE  EvolutionTypeOK'
  <2>1. call[p].base \in Bases
    BY <1>6 DEF Acquire, CallInv, Trying, In, Attempting
  <2>2. disk' \in Disk
    BY <1>6, <2>1 DEF Acquire, Disk, Plain, Commit
  <2>3. call' \in [Processes -> Call]
    <3>1. [call[p] EXCEPT !.pc = "create", !.prepared = TRUE] \in Call
      BY CallWith
    <3>2. QED
      BY <1>6, <3>1, MoveIsTyped DEF Acquire
  <2>4. QED
    BY <1>6, <2>2, <2>3 DEF Acquire
<1>7. ASSUME NEW p \in Processes, AcquireFails(p)
      PROVE  EvolutionTypeOK'
  BY <1>7, FaultIsSpent, MoveIsTyped DEF AcquireFails, Spent
<1>8. ASSUME NEW p \in Processes, Sweep(p)
      PROVE  EvolutionTypeOK'
  <2>1. [Swept EXCEPT !.journal = None] \in Disk
    BY SweptIsDisk DEF Disk
  <2>2. QED
    BY <1>8, <2>1, FaultIsSpent, FinishIsTyped, SweptIsDisk DEF Sweep, Spent
<1>9. ASSUME NEW p \in Processes, RunCreator(p)
      PROVE  EvolutionTypeOK'
  <2>1. disk.tree # None /\ spent.attempts \in 1..(MaxAttempts + MaxEdits)
    BY <1>9 DEF RunCreator, CallInv, Trying, In, Attempting, WithCandidate, Stands, Spent
  <2>2. disk' \in Disk
    BY <1>9, <2>1 DEF RunCreator, Disk, Edit
  <2>3. QED
    BY <1>9, <2>2, FaultIsSpent, FinishIsTyped, MoveIsTyped DEF RunCreator, Spent
<1>10. ASSUME NEW p \in Processes, Inspect(p) \/ InspectSealed(p)
      PROVE  EvolutionTypeOK'
  <2>1. OnDisk \in Snapshot
    BY <1>10, OnDiskIsSnapshot DEF Inspect, InspectSealed, CallInv, Trying, In, WithCandidate
  <2>2. QED
    BY <1>10, <2>1 DEF Inspect, InspectSealed, Call
<1>11. ASSUME NEW p \in Processes, Seal(p)
      PROVE  EvolutionTypeOK'
  <2>1. Stands /\ call[p].snapshot \in Snapshot
    BY <1>11 DEF Seal, CallInv, Trying, Judging, In, WithCandidate, Call
  <2>2. disk' \in Disk
    <3>1. disk.branch \in Commit /\ disk.tree \subseteq Edit
      BY <2>1 DEF Disk, Stands
    <3>2. call[p].snapshot.loose \subseteq Edit
      BY <2>1 DEF Snapshot
    <3>3. PICK late \in SUBSET (disk.tree \ call[p].snapshot.loose) :
             disk' = [disk EXCEPT !.branch.edits = @ \cup call[p].snapshot.loose \cup late,
                                  !.tree = @ \ (call[p].snapshot.loose \cup late)]
      BY <1>11 DEF Seal
    <3>4. [disk.branch EXCEPT !.edits = @ \cup call[p].snapshot.loose \cup late] \in Commit
      BY <3>1, <3>2 DEF Commit
    <3>5. QED
      BY <3>1, <3>3, <3>4 DEF Disk
  <2>3. QED
    BY <1>11, <2>2, MoveIsTyped DEF Seal
<1>12. ASSUME NEW p \in Processes, Evaluate(p)
      PROVE  EvolutionTypeOK'
  <2>1. OnDisk \in Snapshot
    BY <1>12, OnDiskIsSnapshot DEF Evaluate, CallInv, Trying, In, WithCandidate
  <2>2. call' \in [Processes -> Call]
    BY <1>12 DEF Evaluate, Call
  <2>3. QED
    BY <1>12, <2>1, <2>2 DEF Evaluate
<1>13. ASSUME NEW p \in Processes, Compare(p) \/ Dispatch(p) \/ Confirm(p)
      PROVE  EvolutionTypeOK'
  BY <1>13, MoveIsTyped, FinishIsTyped DEF Compare, Dispatch, Confirm
<1>14. ASSUME NEW p \in Processes, AttemptFails(p)
      PROVE  EvolutionTypeOK'
  BY <1>14, FinishIsTyped, FaultIsSpent DEF AttemptFails, Throws, Spent
<1>15. ASSUME NEW p \in Processes, DropBaseline(p) \/ DropTree(p) \/ DropBranch(p)
      PROVE  EvolutionTypeOK'
  <2>1. call[p].out \in Result
    BY <1>15 DEF DropBaseline, DropTree, DropBranch, CallInv, Deciding, In, Decided, CleaningUp
  <2>2. call' \in [Processes -> Call]
    BY <1>15, <2>1 DEF DropBaseline, DropTree, DropBranch, Drop, Call, Result
  <2>3. disk' \in Disk
    BY <1>15 DEF DropBaseline, DropTree, DropBranch, Drop, Disk
  <2>4. spent' \in Spent
    BY <1>15, FaultIsSpent DEF DropBaseline, DropTree, DropBranch, Drop, Spent
  <2>5. QED
    BY <1>15, <2>2, <2>3, <2>4 DEF DropBaseline, DropTree, DropBranch, Spent
<1>16. ASSUME NEW p \in Processes, CleanedUp(p)
      PROVE  EvolutionTypeOK'
  <2>1. call[p].out \in Result
    BY <1>16 DEF CleanedUp, CallInv, Deciding, In, Decided, CleaningUp
  <2>2. call' \in [Processes -> Call]
    <3>1. PICK out \in Result, pc \in Points :
             call' = [call EXCEPT ![p].pc = pc, ![p].out = out]
      <4>1. \A status \in Endings, cleanup \in {"completed", "retained", "failed"} :
               [call[p].out EXCEPT !.status = status, !.cleanup = cleanup] \in Result
        BY <2>1 DEF Result
      <4>2. call[p].out.status \in Endings /\
              call[p].out.cleanup \in {"completed", "retained", "failed"}
        BY <2>1 DEF Result
      <4> DEFINE o == call[p].out
                 failed == o.cleanup = "failed"
                 pc == IF call[p].tried THEN "answered" ELSE "record"
                 out == [o EXCEPT
                           !.status = IF IsReady(o) /\ failed THEN "failed" ELSE o.status,
                           !.cleanup = IF call[p].retain /\ ~failed THEN "retained" ELSE o.cleanup]
      <4>3. call' = [call EXCEPT ![p].pc = pc, ![p].out = out]
        BY <1>16 DEF CleanedUp
      <4>4. out \in Result /\ pc \in Points
        BY <4>1, <4>2
      <4>5. QED
        BY <4>3, <4>4
    <3>2. [call[p] EXCEPT !.pc = pc, !.out = out] \in Call
      BY CallWith
    <3>3. QED
      BY <3>1, <3>2
  <2>3. disk' \in Disk
    BY <1>16 DEF CleanedUp, Disk
  <2>4. QED
    BY <1>16, <2>2, <2>3 DEF CleanedUp
<1>17. ASSUME NEW p \in Processes, Record(p) \/ RecordFails(p)
      PROVE  EvolutionTypeOK'
  <2>1. call[p].out \in Result
    BY <1>17 DEF Record, RecordFails, CallInv, Deciding, In, Decided
  <2>2. [call[p].out EXCEPT !.recorded = TRUE] \in Result
    BY <2>1 DEF Result
  <2>3. call' \in [Processes -> Call]
    <3>1. CASE Record(p)
      BY <2>2, <3>1, AnswerIsTyped DEF Record
    <3>2. CASE RecordFails(p)
      <4>1. \A status \in Endings, cleanup \in {"completed", "retained", "failed"} :
               [call[p].out EXCEPT !.status = status, !.cleanup = cleanup] \in Result
        BY <2>1 DEF Result
      <4>2. call[p].out.cleanup \in {"completed", "retained", "failed"}
        BY <2>1 DEF Result
      <4> DEFINE again == call[p].prepared /\ call[p].retain
                 pc == IF again THEN "dropBaseline" ELSE "answered"
                 o == call[p].out
                 out == [o EXCEPT !.status = "failed",
                                  !.cleanup = IF again THEN "completed" ELSE o.cleanup]
      <4>3. /\ call' = [call EXCEPT ![p] = [call[p] EXCEPT !.pc = pc, !.tried = TRUE,
                                                           !.retain = FALSE, !.out = out]]
            /\ out \in Result /\ pc \in Points
        <5>1. call' = [call EXCEPT ![p].pc = pc, ![p].tried = TRUE, ![p].retain = FALSE,
                                   ![p].out = out]
          BY <3>2 DEF RecordFails
        <5>2. out \in Result /\ pc \in Points
          BY <4>1, <4>2
        <5>3. QED
          BY <5>1, <5>2
      <4>4. [call[p] EXCEPT !.pc = pc, !.tried = TRUE, !.retain = FALSE, !.out = out] \in Call
        <5>1. [call[p] EXCEPT !.pc = pc, !.tried = TRUE, !.retain = FALSE] \in Call
          BY <4>3, CallWith
        <5>2. QED
          BY <4>3, <5>1, CallWith
      <4>5. QED
        BY <4>3, <4>4
    <3>3. QED
      BY <1>17, <3>1, <3>2
  <2>4. disk' \in Disk
    BY <1>17, <2>2 DEF Record, RecordFails, Disk
  <2>5. spent' \in Spent
    BY <1>17, FaultIsSpent DEF Record, RecordFails, Spent
  <2>6. QED
    BY <1>17, <2>3, <2>4, <2>5 DEF Record, RecordFails, Spent
<1>18. ASSUME NEW p \in Processes, VerifyFresh(p)
      PROVE  EvolutionTypeOK'
  <2>1. spent' \in Spent
    BY <1>18 DEF VerifyFresh, Spend, Spent
  <2>2. call' \in [Processes -> Call]
    BY <1>18 DEF VerifyFresh, Start, Call, Idle
  <2>3. QED
    BY <1>18, <2>1, <2>2 DEF VerifyFresh, Start, Spent
<1>19. ASSUME NEW p \in Processes, Reinspect(p)
      PROVE  EvolutionTypeOK'
  <2>1. call[p].got # None
    BY <1>19 DEF Reinspect, CallInv, Looking, In
  <2>2. call' \in [Processes -> Call]
    <3>1. CASE Invalidate(p)
      BY <3>1, <2>1, InvalidateIsTyped
    <3>2. CASE call' = [call EXCEPT ![p].pc = "answered", ![p].out = call[p].got,
                                    ![p].retained = FALSE]
      <4>1. call[p].got \in Result
        BY <2>1 DEF Call
      <4>2. QED
        BY <3>2, <4>1, AnswerIsTyped
    <3>3. QED
      BY <1>19, <3>1, <3>2 DEF Reinspect
  <2>3. QED
    BY <1>19, <2>2, FaultIsSpent DEF Reinspect, Spent
<1>20. ASSUME NEW p \in Processes, Return(p)
      PROVE  EvolutionTypeOK'
  <2>1. call' \in [Processes -> Call]
    BY <1>20 DEF Return, Call, Idle
  <2>2. QED
    BY <1>20, <2>1 DEF Return
<1>21. ASSUME NEW p \in Processes, ServiceCrash(p)
      PROVE  EvolutionTypeOK'
  <2>1. call' \in [Processes -> Call]
    BY <1>21 DEF ServiceCrash, Call, Idle
  <2>2. QED
    BY <1>21, <2>1, FaultIsSpent DEF ServiceCrash, Spent
<1>22. CASE Meddle
  <2>1. spent.edits + 1 \in 1..(MaxAttempts + MaxEdits) /\ spent' \in Spent
    BY <1>22 DEF Meddle, Spend, Spent
  <2>2. disk' \in Disk
    BY <1>22, <2>1 DEF Meddle, Disk, Edit
  <2>3. QED
    BY <1>22, <2>1, <2>2 DEF Meddle, Spent
<1>23. CASE MoveBase
  <2>1. spent' \in Spent
    BY <1>23 DEF MoveBase, Spend, Spent
  <2>2. QED
    BY <1>23, <2>1 DEF MoveBase, Spent, Disk
<1>24. CASE UNCHANGED evolutionVars
  BY <1>24 DEF evolutionVars
<1>25. QED
  BY <1>1, <1>2, <1>3, <1>4, <1>5, <1>6, <1>7, <1>8, <1>9, <1>10, <1>11, <1>12, <1>13, <1>14,
     <1>15, <1>16, <1>17, <1>18, <1>19, <1>20, <1>21, <1>22, <1>23, <1>24
  DEF EvolutionNext, AttemptStep, FinishStep

\* While a process is in a call all others are idle, so the invariant is its own matter.
LEMMA ActsAlone ==
    ASSUME EvolutionInv, EvolutionTypeOK', NEW p \in Processes, ~In(p, "idle"),
           NEW c, call' = [call EXCEPT ![p] = c], holder' = holder, passed \subseteq passed',
           EditsAreNew', RecordIsTrue', CallInv(p)'
    PROVE  EvolutionInv'
<1> USE DEF EvolutionInv, SharedInv
<1>1. holder = p /\ \A q \in Processes \ {p} : In(q, "idle")
  BY EvolutionAssumption DEF Alone, EvolutionTypeOK
<1>2. Alone'
  BY <1>1 DEF Alone, In, EvolutionTypeOK
<1>3. ASSUME NEW q \in Processes, q # p
      PROVE  CallInv(q)'
  <2>1. call'[q] = call[q] /\ call[q].pc = "idle" /\ CallInv(q)
    BY <1>1, <1>3 DEF In, EvolutionTypeOK
  <2>2. Remembered(q)'
    BY <2>1 DEF CallInv, Remembered, IsReady
  <2>3. Looking(q)' /\ Trying(q)' /\ Judging(q)' /\ Deciding(q)' /\ Clearing(q)'
    BY <2>1 DEF Looking, Trying, Judging, Deciding, Clearing, In, Attempting, WithCandidate,
                Decided, CleaningUp
  <2>4. QED
    BY <2>2, <2>3 DEF CallInv
<1>4. QED
  BY <1>2, <1>3

\* A step that leaves the disk, what passed and the edits alone.
LEMMA DiskStays ==
    ASSUME EvolutionInv, UNCHANGED <<disk, passed>>, spent'.edits = spent.edits
    PROVE  EditsAreNew' /\ RecordIsTrue'
BY DEF EvolutionInv, SharedInv, EditsAreNew, RecordIsTrue, NothingLeft, IsReady

\* What the invariant does not ask of a call at a certain point.
LEMMA Elsewhere ==
    ASSUME NEW p \in Processes
    PROVE  /\ call'[p].pc \notin {"load", "verify", "reinspect"} => Looking(p)'
           /\ call'[p].pc \notin Attempting => Trying(p)' /\ Judging(p)'
           /\ call'[p].pc \notin {"seal", "evaluate", "compare", "dispatch", "confirm"} => Judging(p)'
           /\ call'[p].pc \notin Decided => Deciding(p)' /\ Clearing(p)'
           /\ call'[p].pc = "dropBaseline" => Clearing(p)'
<1>1. call'[p].pc \notin {"load", "verify", "reinspect"} => Looking(p)'
  BY DEF Looking, In
<1>2. call'[p].pc \notin Attempting => Trying(p)' /\ Judging(p)'
  BY DEF Trying, Judging, In, Attempting, WithCandidate
<1>3. call'[p].pc \notin {"seal", "evaluate", "compare", "dispatch", "confirm"} => Judging(p)'
  BY DEF Judging, In
<1>4. call'[p].pc \notin Decided => Deciding(p)' /\ Clearing(p)'
  BY DEF Deciding, Clearing, In, Decided, CleaningUp
<1>5. call'[p].pc = "dropBaseline" => Clearing(p)'
  BY DEF Clearing, In
<1>6. QED
  BY <1>1, <1>2, <1>3, <1>4, <1>5

\* What is remembered stays so while what passed only grows.
LEMMA StillRemembered ==
    ASSUME NEW p \in Processes, CallInv(p), call'[p].got = call[p].got, passed \subseteq passed'
    PROVE  Remembered(p)'
BY DEF CallInv, Remembered, IsReady

\* What finish() decides: only a candidate that stands and passed may be called ready.
LEMMA FinishKeeps ==
    ASSUME NEW p \in Processes, call \in [Processes -> Call], CallInv(p),
           NEW c \in Call, NEW status \in Endings,
           call' = [call EXCEPT ![p] = Outcome(c, status)],
           c.got = call[p].got, passed \subseteq passed',
           status = "pr-ready" =>
               c.prepared /\ c.snapshot \in passed' /\ ~c.changed /\ Stands'
    PROVE  CallInv(p)'
<1> DEFINE o == Outcome(c, status)
<1>1. /\ o \in Call /\ o.out \in Result /\ o.out.status = status /\ o.out.of = c.snapshot
      /\ o.out.cleanup = "completed" /\ o.out.listed = c.prepared
      /\ status = "pr-ready" => o.retain
      /\ o.changed = c.changed /\ o.got = c.got
      /\ o.pc = IF c.prepared THEN "dropBaseline" ELSE "record"
  <2>1. o \in Call /\ o.out \in Result
    BY OutcomeIsCall
  <2>2. /\ o.out.status = status /\ o.out.of = c.snapshot
        /\ o.out.cleanup = "completed" /\ o.out.listed = c.prepared
    BY DEF Outcome, Call
  <2>3. o.retain = (status = "pr-ready")
    BY DEF Outcome, Call
  <2>4. /\ o.changed = c.changed /\ o.got = c.got
        /\ o.pc = IF c.prepared THEN "dropBaseline" ELSE "record"
    BY DEF Outcome, Call
  <2>5. QED
    BY <2>1, <2>2, <2>3, <2>4
<1> HIDE DEF o
<1>2. call'[p] = o
  BY DEF o
<1>3. Deciding(p)'
  BY <1>1, <1>2 DEF Deciding, CleaningUp, IsReady
<1>4. Clearing(p)'
  BY <1>1, <1>2 DEF Clearing, In
<1>5. QED
  BY <1>1, <1>2, <1>3, <1>4, Elsewhere, StillRemembered DEF CallInv, Attempting

\* A result that no longer stands is cleaned up.
LEMMA InvalidateKeeps ==
    ASSUME NEW p \in Processes, call \in [Processes -> Call], CallInv(p),
           call[p].got # None, Invalidate(p), passed \subseteq passed'
    PROVE  CallInv(p)'
<1> DEFINE c == [call[p] EXCEPT !.prepared = TRUE, !.snapshot = call[p].got.of]
<1>1. c \in Call /\ c.got = call[p].got
  <2>1. call[p].got \in Result
    BY DEF Call
  <2>2. call[p].got.of \in Snapshot \cup {None}
    BY <2>1 DEF Result
  <2>3. QED
    BY <2>2 DEF Call
<1>2. call' = [call EXCEPT ![p] = Outcome(c, "stale")]
  BY DEF Invalidate
<1> HIDE DEF c
<1>3. QED
  BY <1>1, <1>2, FinishKeeps, EndingsAre

\* A record found is an answer, or is verified; else an attempt begins.
LEMMA LoadRecordStep ==
    ASSUME EvolutionInv, EvolutionTypeOK', NEW p \in Processes, LoadRecord(p)
    PROVE  EvolutionInv'
<1> USE DEF LoadRecord
<1>1. EditsAreNew' /\ RecordIsTrue'
  BY DEF EvolutionInv, EvolutionTypeOK, SharedInv, EditsAreNew, RecordIsTrue, NothingLeft,
         IsReady, Disk
<1>2. CallInv(p) /\ call \in [Processes -> Call]
  BY DEF EvolutionInv, EvolutionTypeOK
<1>3. CallInv(p)'
  <2>1. CASE disk.record = None
    <3>1. /\ call'[p].pc = "base" /\ call'[p].got = call[p].got
          /\ call'[p].changed = call[p].changed /\ UNCHANGED <<disk, spent, passed>>
      BY <1>2, <2>1 DEF MoveTo, Call
    <3>2. Trying(p)'
      BY <1>2, <2>1, <3>1 DEF CallInv, Looking, Trying, In, Attempting, WithCandidate
    <3>3. QED
      BY <1>2, <3>1, <3>2, Elsewhere, StillRemembered DEF CallInv, Decided, CleaningUp
  <2>2. CASE disk.record # None /\ IsReady(disk.record)
    <3>1. /\ call'[p].pc = "verify" /\ call'[p].got = disk.record
          /\ call'[p].changed = call[p].changed /\ UNCHANGED <<spent, passed>>
          /\ disk' = [disk EXCEPT !.journal = None]
      BY <1>2, <2>2 DEF Call
    <3>2. Remembered(p)'
      BY <2>2, <3>1 DEF EvolutionInv, EvolutionTypeOK, SharedInv, RecordIsTrue, Remembered,
                        Disk, IsReady
    <3>3. Looking(p)'
      BY <1>2, <2>2, <3>1 DEF CallInv, Looking, In, Intact, Stands, OnDisk, EvolutionInv,
                              EvolutionTypeOK, Disk
    <3>4. QED
      BY <3>1, <3>2, <3>3, Elsewhere DEF CallInv, Decided, CleaningUp, Attempting
  <2>3. CASE disk.record # None /\ ~IsReady(disk.record)
    <3>1. /\ call'[p].pc = "answered" /\ call'[p].got = call[p].got
          /\ call'[p].out = disk.record /\ UNCHANGED <<spent, passed>>
          /\ disk' = [disk EXCEPT !.journal = None]
      BY <1>2, <2>3 DEF Answer, Call
    <3>2. Deciding(p)'
      BY <2>3, <3>1 DEF EvolutionInv, EvolutionTypeOK, Disk, Deciding, CleaningUp, IsReady
    <3>3. Clearing(p)'
      BY <2>3, <3>1 DEF EvolutionInv, EvolutionTypeOK, SharedInv, RecordIsTrue, NothingLeft,
                        Disk, Clearing, In
    <3>4. QED
      BY <1>2, <3>1, <3>2, <3>3, Elsewhere, StillRemembered DEF CallInv, Attempting
  <2>4. QED
    BY <2>1, <2>2, <2>3
<1>4. QED
  BY <1>1, <1>3, ActsAlone DEF MoveTo, Answer, In

\* A failed attempt records that, with whatever candidate it had.
LEMMA FailureKeeps ==
    ASSUME NEW p \in Processes, call \in [Processes -> Call], CallInv(p),
           NEW status \in Endings, status # "pr-ready", Finish(p, status),
           passed \subseteq passed'
    PROVE  CallInv(p)'
<1>1. call[p] \in Call
  OBVIOUS
<1>2. QED
  BY <1>1, FinishKeeps DEF Finish

\* A call takes the lock, and notes whether the candidate has changed.
LEMMA StartStep ==
    ASSUME EvolutionInv, EvolutionTypeOK', NEW p \in Processes, Run(p) \/ VerifyFresh(p)
    PROVE  EvolutionInv'
<1>1. CallInv(p) /\ call \in [Processes -> Call] /\ spent \in Spent
  BY DEF EvolutionInv, EvolutionTypeOK, Spent
<1>2. /\ holder = None /\ holder' = p /\ UNCHANGED <<disk, passed>>
      /\ spent'.edits = spent.edits /\ spent'.attempts >= spent.attempts
      /\ Run(p) => spent'.attempts > 0
      /\ \E c \in Call : call' = [call EXCEPT ![p] = c]
  BY <1>1 DEF Run, VerifyFresh, Start, Spend, Spent, EvolutionTypeOK
<1>3. CallInv(p)'
  <2>1. CASE Run(p)
    <3>1. /\ call'[p].pc = "load" /\ call'[p].got = call[p].got
          /\ call'[p].changed = (disk.record # None /\ IsReady(disk.record) /\ ~Intact(disk.record))
      BY <1>1, <2>1 DEF Run, Start, Idle
    <3>2. Looking(p)'
      BY <1>2, <2>1, <3>1 DEF Looking, In, Intact, Stands, OnDisk
    <3>3. QED
      BY <1>1, <1>2, <3>1, <3>2, Elsewhere, StillRemembered DEF CallInv, Attempting, Decided,
                                                                CleaningUp
  <2>2. CASE VerifyFresh(p)
    <3>1. /\ call'[p].pc \in {"reinspect", "verify"} /\ call'[p].got = call[p].got
          /\ call'[p].got # None /\ call'[p].changed = ~Intact(call[p].got)
      BY <1>1, <2>2 DEF VerifyFresh, Start, Idle
    <3>2. Looking(p)'
      BY <1>2, <2>2, <3>1 DEF Looking, In, Intact, Stands, OnDisk
    <3>3. QED
      BY <1>1, <1>2, <3>1, <3>2, Elsewhere, StillRemembered DEF CallInv, Attempting, Decided,
                                                                CleaningUp
  <2>3. QED
    BY <2>1, <2>2
<1>4. ASSUME NEW q \in Processes, q # p
      PROVE  CallInv(q)' /\ In(q, "idle")'
  <2>1. call'[q] = call[q] /\ CallInv(q)
    BY <1>2, <1>4 DEF EvolutionInv
  <2>2. call[q].pc = "idle"
    BY <1>2, EvolutionAssumption DEF EvolutionInv, SharedInv, Alone, In
  <2>3. QED
    BY <1>2, <2>1, <2>2, Elsewhere, StillRemembered DEF CallInv, Attempting, Decided,
                                                        CleaningUp, In
<1>5. Alone'
  BY <1>2, <1>4 DEF Alone
<1>6. QED
  BY <1>2, <1>3, <1>4, <1>5, DiskStays DEF EvolutionInv, SharedInv

\* A look at the candidate answers with what passed, or with a stale result.
LEMMA VerifyRecordedStep ==
    ASSUME EvolutionInv, EvolutionTypeOK', NEW p \in Processes, VerifyRecorded(p) \/ Reinspect(p)
    PROVE  EvolutionInv'
<1>1. /\ CallInv(p) /\ call \in [Processes -> Call] /\ spent \in Spent
      /\ call[p].pc \in {"verify", "reinspect"}
  BY DEF EvolutionInv, EvolutionTypeOK, Spent, VerifyRecorded, Reinspect, In
<1>2. /\ UNCHANGED <<disk, passed, holder>> /\ spent'.edits = spent.edits
      /\ call[p].got # None /\ call[p].got \in Result
  BY <1>1, FaultIsSpent DEF VerifyRecorded, Reinspect, CallInv, Looking, Call
<1>3. CallInv(p)'
  <2>1. CASE Invalidate(p)
    BY <1>1, <1>2, <2>1, InvalidateKeeps
  <2>2. CASE ~Invalidate(p)
    <3>1. /\ Intact(call[p].got)
          /\ call'[p].pc = "answered" /\ call'[p].out = call[p].got /\ call'[p].got = call[p].got
          /\ call'[p].changed = call[p].changed
      BY <1>1, <2>2 DEF VerifyRecorded, Reinspect, Answer, Call
    <3>2. ~call[p].changed /\ Stands
      BY <1>1, <3>1 DEF CallInv, Looking, Intact
    <3>3. Deciding(p)' /\ Clearing(p)'
      BY <1>1, <1>2, <3>1, <3>2 DEF Deciding, Clearing, CallInv, Remembered, CleaningUp, In,
                                    IsReady, Stands
    <3>4. QED
      BY <1>1, <1>2, <3>1, <3>3, Elsewhere, StillRemembered DEF CallInv, Attempting
  <2>3. QED
    BY <2>1, <2>2
<1>4. \E c : call' = [call EXCEPT ![p] = c]
  BY DEF VerifyRecorded, Reinspect, Invalidate, Answer
<1>5. QED
  BY <1>1, <1>2, <1>3, <1>4, ActsAlone, DiskStays DEF In

\* No attempt brings in an edit from outside.
LEMMA NoEdits ==
    ASSUME EvolutionInv, passed' = passed, spent'.edits = spent.edits,
           disk'.tree # None => \A n \in Nat : <<"outsider", n>> \in disk'.tree =>
                                    disk.tree # None /\ <<"outsider", n>> \in disk.tree
    PROVE  EditsAreNew'
BY DEF EvolutionInv, SharedInv, EditsAreNew

\* While an attempt is under way nothing is recorded.
LEMMA AttemptKeeps ==
    ASSUME EvolutionInv, EvolutionTypeOK', NEW p \in Processes, call[p].pc \in Attempting,
           NEW c, call' = [call EXCEPT ![p] = c], holder' = holder,
           disk'.record = disk.record, passed \subseteq passed', EditsAreNew', CallInv(p)'
    PROVE  EvolutionInv'
<1>1. disk.record = None
  BY DEF EvolutionInv, CallInv, Trying
<1>2. RecordIsTrue'
  BY <1>1 DEF RecordIsTrue
<1>3. QED
  BY <1>2, ActsAlone DEF In, Attempting

\* A whole sweep leaves no worktree and no baseline.
LEMMA SweepingClears ==
    ASSUME disk \in Disk
    PROVE  /\ Swept.record = disk.record /\ Swept.tree = None
           /\ \A d \in PartlySwept : d.record = disk.record /\ d.tree \in {disk.tree, None}
<1>1. Swept.record = disk.record /\ Swept.tree = None
  BY DEF Disk, Swept
<1>2. ASSUME NEW t, NEW b
      PROVE  /\ [disk EXCEPT !.tree = t, !.baseline = b].record = disk.record
             /\ [disk EXCEPT !.tree = t, !.baseline = b].tree = t
  BY DEF Disk
<1>3. ASSUME NEW d \in PartlySwept
      PROVE  d.record = disk.record /\ d.tree \in {disk.tree, None}
  <2>1. PICK t \in {disk.tree, None}, b \in {disk.baseline, None} :
           d = [disk EXCEPT !.tree = t, !.baseline = b]
    BY <1>3 DEF PartlySwept
  <2>2. QED
    BY <1>2, <2>1
<1>4. QED
  BY <1>1, <1>3

\* A candidate is prepared where nothing is recorded, and what fails is swept away.
LEMMA PrepareStep ==
    ASSUME EvolutionInv, EvolutionTypeOK', NEW p \in Processes,
           ResolveBase(p) \/ Prepare(p) \/ Acquire(p) \/ AcquireFails(p) \/ Sweep(p)
    PROVE  EvolutionInv'
<1>1. /\ CallInv(p) /\ call \in [Processes -> Call] /\ spent \in Spent /\ disk \in Disk
      /\ call[p].pc \in Attempting \ WithCandidate
  BY DEF EvolutionInv, EvolutionTypeOK, Spent, ResolveBase, Prepare, Acquire, AcquireFails,
         Sweep,
         In, Attempting, WithCandidate
<1>2. /\ holder' = holder /\ passed' = passed
      /\ spent'.edits = spent.edits /\ spent'.attempts = spent.attempts
  BY <1>1, FaultIsSpent DEF ResolveBase, Prepare, Acquire, AcquireFails, Sweep
<1>3. disk'.record = disk.record /\ (disk'.tree # None => disk'.tree \in {disk.tree, {}})
  <2>1. CASE ResolveBase(p) \/ AcquireFails(p)
    BY <2>1 DEF ResolveBase, AcquireFails
  <2>2. CASE Prepare(p)
    <3>1. CASE disk' \in PartlySwept
      BY <1>1, <3>1, SweepingClears
    <3>2. CASE disk' = [IF Adoptable(call[p].base) THEN disk ELSE Swept
                           EXCEPT !.journal = call[p].base]
      BY <1>1, <3>2, SweepingClears, SweptIsDisk DEF Disk
    <3>3. QED
      BY <2>2, <3>1, <3>2 DEF Prepare
  <2>3. CASE Acquire(p)
    BY <1>1, <2>3 DEF Acquire, Disk
  <2>4. CASE Sweep(p)
    <3>1. CASE disk' \in PartlySwept
      BY <1>1, <3>1, SweepingClears
    <3>2. CASE disk' = [Swept EXCEPT !.journal = None]
      BY <1>1, <3>2, SweepingClears, SweptIsDisk DEF Disk
    <3>3. QED
      BY <2>4, <3>1, <3>2 DEF Sweep
  <2>5. QED
    BY <2>1, <2>2, <2>3, <2>4
<1>4. EditsAreNew'
  BY <1>2, <1>3, NoEdits
<1>5. CallInv(p)'
  <2>1. CASE \E status \in {"failed"} : Finish(p, status)
    BY <1>1, <1>2, <2>1, FailureKeeps, EndingsAre
  <2>2. CASE ResolveBase(p) \/ AcquireFails(p) \/ \E pc \in {"baseline"} : Prepare(p) /\ MoveTo(p, pc)
    <3>1. /\ call'[p].pc \in {"prepare", "baseline", "sweep"} /\ call'[p].base \in Bases
          /\ call'[p].got = call[p].got /\ call'[p].changed = call[p].changed
      BY <1>1, <2>2 DEF ResolveBase, AcquireFails, Prepare, MoveTo, CallInv, Trying, In,
                        Attempting,
                        Call, Disk
    <3>2. Trying(p)'
      BY <1>1, <1>2, <1>3, <3>1 DEF CallInv, Trying, In, Attempting, WithCandidate
    <3>3. QED
      BY <1>1, <1>2, <3>1, <3>2, Elsewhere, StillRemembered DEF CallInv, Decided, CleaningUp
  <2>3. CASE Acquire(p)
    <3>1. /\ call'[p].pc \in {"branch", "tree", "create"} /\ call'[p].base = call[p].base
          /\ call'[p].got = call[p].got /\ call'[p].changed = call[p].changed
          /\ call'[p].pc = "create" => call'[p].prepared
          /\ In(p, "baseline") => call'[p].pc = "branch"
      BY <1>1, <2>3 DEF Acquire, MoveTo, Call, In
    <3>2. /\ call'[p].pc \in {"tree", "create"} => disk'.branch # None
          /\ call'[p].pc = "create" => disk'.tree # None
      <4>1. CASE In(p, "baseline")
        BY <3>1, <4>1
      <4>2. CASE In(p, "branch")
        <5>1. Plain(call[p].base) \in Commit
          BY <1>1, <4>2 DEF CallInv, Trying, In, Attempting, Plain, Commit
        <5>2. call'[p].pc = "tree" /\ disk'.branch = Plain(call[p].base)
          BY <1>1, <2>3, <4>2 DEF Acquire, MoveTo, In, Call, Disk
        <5>3. QED
          BY <5>1, <5>2, EvolutionAssumption
      <4>3. CASE In(p, "tree")
        BY <1>1, <2>3, <4>3, EvolutionAssumption DEF Acquire, In, Disk, CallInv, Trying
      <4>4. QED
        BY <2>3, <4>1, <4>2, <4>3 DEF Acquire
    <3>3. Trying(p)'
      <4>1. call[p].base \in Bases
        BY <1>1, <2>3 DEF Acquire, CallInv, Trying, In, Attempting
      <4>2. disk.record = None /\ ~call[p].changed /\ spent.attempts > 0
        BY <1>1 DEF CallInv, Trying
      <4>3. QED
        BY <1>2, <1>3, <3>1, <3>2, <4>1, <4>2 DEF Trying, In, WithCandidate, Stands
    <3>4. QED
      BY <1>1, <1>2, <3>1, <3>3, Elsewhere, StillRemembered DEF CallInv, Decided, CleaningUp
  <2>4. QED
    BY <2>1, <2>2, <2>3 DEF Prepare, Sweep
<1>6. \E c : call' = [call EXCEPT ![p] = c]
  BY DEF ResolveBase, Prepare, Acquire, AcquireFails, Sweep, MoveTo, Finish
<1>7. QED
  BY <1>1, <1>2, <1>3, <1>4, <1>5, <1>6, AttemptKeeps

\* Files are added, inspected and sealed.
LEMMA CreateStep ==
    ASSUME EvolutionInv, EvolutionTypeOK', NEW p \in Processes,
           RunCreator(p) \/ Inspect(p) \/ Seal(p) \/ InspectSealed(p)
    PROVE  EvolutionInv'
<1>1. /\ CallInv(p) /\ call \in [Processes -> Call] /\ spent \in Spent /\ disk \in Disk
      /\ call[p].pc \in WithCandidate /\ Stands /\ Trying(p)
  BY DEF EvolutionInv, EvolutionTypeOK, Spent, RunCreator, Inspect, Seal, InspectSealed,
         In, CallInv, Trying, WithCandidate
<1>2. /\ holder' = holder /\ passed' = passed
      /\ spent'.edits = spent.edits /\ spent'.attempts = spent.attempts
  BY <1>1, FaultIsSpent DEF RunCreator, Inspect, Seal, InspectSealed
<1>3. disk.branch \in Commit /\ disk.tree \subseteq Edit
  BY <1>1 DEF Stands, Disk
<1>4. /\ disk'.record = disk.record /\ Stands'
      /\ \A n \in Nat : <<"outsider", n>> \in disk'.tree => <<"outsider", n>> \in disk.tree
  <2>1. CASE Inspect(p) \/ InspectSealed(p)
    BY <1>1, <2>1 DEF Inspect, InspectSealed, Stands
  <2>2. CASE RunCreator(p)
    <3>1. /\ disk'.record = disk.record /\ disk'.branch = disk.branch
          /\ disk'.tree = disk.tree \cup {<<"creator", spent.attempts>>}
      BY <1>1, <2>2 DEF RunCreator, Disk
    <3>2. disk'.tree \subseteq Edit
      BY <1>1, <1>3, <3>1, EvolutionAssumption DEF Trying, Attempting, WithCandidate, Edit,
                                                   Spent
    <3>3. QED
      BY <1>1, <1>3, <3>1, <3>2, EvolutionAssumption DEF Stands
  <2>3. CASE Seal(p)
    <3>1. call[p].snapshot \in Snapshot
      BY <1>1, <2>3 DEF Seal, In, CallInv, Judging, Call
    <3>2. PICK late \in SUBSET (disk.tree \ call[p].snapshot.loose) :
             disk' = [disk EXCEPT !.branch.edits = @ \cup call[p].snapshot.loose \cup late,
                                  !.tree = @ \ (call[p].snapshot.loose \cup late)]
      BY <2>3 DEF Seal
    <3>3. /\ disk'.record = disk.record
          /\ disk'.branch = [disk.branch EXCEPT !.edits = @ \cup call[p].snapshot.loose \cup late]
          /\ disk'.tree = disk.tree \ (call[p].snapshot.loose \cup late)
      BY <1>1, <3>2 DEF Disk
    <3>4. disk'.branch \in Commit
      BY <1>3, <3>1, <3>3 DEF Snapshot, Commit
    <3>5. QED
      BY <1>3, <3>3, <3>4, EvolutionAssumption DEF Stands
  <2>4. QED
    BY <2>1, <2>2, <2>3
<1>5. EditsAreNew'
  BY <1>1, <1>2, <1>4, NoEdits DEF Stands
<1>6. CallInv(p)'
  <2>1. CASE \E status \in {"failed", "cancelled"} : Finish(p, status)
    BY <1>1, <1>2, <2>1, FailureKeeps, EndingsAre
  <2>2. CASE ~\E status \in {"failed", "cancelled"} : Finish(p, status)
    <3>1. /\ call'[p].pc \in {"inspect", "seal", "sealed", "evaluate"}
          /\ call'[p].base = call[p].base /\ call'[p].prepared = call[p].prepared
          /\ call'[p].got = call[p].got /\ call'[p].changed = call[p].changed
          /\ call'[p].pc \in {"seal", "evaluate"} => call'[p].snapshot = OnDisk /\ UNCHANGED disk
      <4>1. CASE RunCreator(p) \/ Seal(p)
        <5>1. MoveTo(p, "inspect") \/ MoveTo(p, "sealed")
          BY <2>2, <4>1 DEF RunCreator, Seal
        <5>2. QED
          BY <1>1, <5>1 DEF MoveTo, Call
      <4>2. CASE Inspect(p) \/ InspectSealed(p)
        BY <1>1, <4>2 DEF Inspect, InspectSealed, Call
      <4>3. QED
        BY <4>1, <4>2
    <3>2. Trying(p)'
      BY <1>1, <1>2, <1>4, <3>1 DEF Trying, In, Attempting, WithCandidate
    <3>3. Judging(p)'
      <4>1. OnDisk \in Snapshot
        BY <1>1, OnDiskIsSnapshot
      <4>2. QED
        BY <3>1, <4>1, EvolutionAssumption DEF Judging, In, OnDisk
    <3>4. QED
      BY <1>1, <1>2, <3>1, <3>2, <3>3, Elsewhere, StillRemembered DEF CallInv, Decided,
                                                                      CleaningUp
  <2>3. QED
    BY <2>1, <2>2
<1>7. \E c : call' = [call EXCEPT ![p] = c]
  BY DEF RunCreator, Inspect, Seal, InspectSealed, MoveTo, Finish
<1>8. QED
  BY <1>1, <1>2, <1>4, <1>5, <1>6, <1>7, AttemptKeeps DEF Attempting, WithCandidate

\* What passes is what was sealed and whatever was added since.
LEMMA EvaluateStep ==
    ASSUME EvolutionInv, EvolutionTypeOK', NEW p \in Processes, Evaluate(p)
    PROVE  EvolutionInv'
<1>1. /\ CallInv(p) /\ call \in [Processes -> Call] /\ In(p, "evaluate") /\ Stands
      /\ Trying(p) /\ OnDisk \in Snapshot
  BY OnDiskIsSnapshot
  DEF EvolutionInv, EvolutionTypeOK, Evaluate, In, CallInv, Trying, WithCandidate
<1>2. /\ UNCHANGED <<disk, holder, spent>> /\ passed \subseteq passed'
      /\ passed' \subseteq passed \cup {OnDisk}
      /\ OnDisk.loose = disk.tree /\ OnDisk.commit = disk.branch
  BY DEF Evaluate, OnDisk
<1>3. /\ call'[p].pc = "compare" /\ (call'[p].verdict = "pass" => OnDisk \in passed')
      /\ call'[p].base = call[p].base /\ call'[p].prepared = call[p].prepared
      /\ call'[p].got = call[p].got /\ call'[p].changed = call[p].changed
      /\ call'[p].snapshot = call[p].snapshot
  <2>1. CASE call' = [call EXCEPT ![p].pc = "compare", ![p].verdict = "pass"] /\ passed' = passed \cup {OnDisk}
    BY <1>1, <2>1 DEF Call
  <2>2. CASE call' = [call EXCEPT ![p].pc = "compare", ![p].verdict = "reject"]
    BY <1>1, <2>2 DEF Call
  <2>3. QED
    BY <2>1, <2>2 DEF Evaluate
<1>4. EditsAreNew'
  <2>1. EditsAreNew /\ disk.tree # None
    BY <1>1 DEF EvolutionInv, SharedInv, Stands
  <2>2. ASSUME NEW n \in Nat, n > spent.edits, NEW s \in passed'
        PROVE  <<"outsider", n>> \notin disk.tree /\ <<"outsider", n>> \notin s.loose
    BY <1>2, <2>1, <2>2 DEF EditsAreNew
  <2>3. QED
    BY <1>2, <2>1, <2>2 DEF EditsAreNew
<1>5. Trying(p)'
  BY <1>1, <1>2, <1>3 DEF Trying, In, Attempting, WithCandidate, Stands
<1>6. Judging(p)'
  <2>1. /\ call[p].snapshot # None /\ call[p].snapshot.loose \subseteq disk.tree
    BY <1>1 DEF CallInv, Judging, In
  <2>2. call'[p].verdict = "pass" =>
           \E s \in passed' : /\ s.commit = disk.branch
                              /\ call[p].snapshot.loose \subseteq s.loose
                              /\ s.loose \subseteq disk.tree
    BY <1>2, <1>3, <2>1
  <2>3. QED
    BY <1>2, <1>3, <2>1, <2>2 DEF Judging, In
<1>7. CallInv(p)'
  BY <1>1, <1>2, <1>3, <1>5, <1>6, Elsewhere, StillRemembered DEF CallInv, Decided, CleaningUp
<1>8. \E c : call' = [call EXCEPT ![p] = c]
  BY DEF Evaluate
<1>9. QED
  BY <1>1, <1>2, <1>4, <1>7, <1>8, AttemptKeeps DEF In, Attempting

\* Equal to what was sealed, before and after, is equal to what passed.
LEMMA JudgeStep ==
    ASSUME EvolutionInv, EvolutionTypeOK', NEW p \in Processes,
           Compare(p) \/ Dispatch(p) \/ Confirm(p)
    PROVE  EvolutionInv'
<1>1. /\ CallInv(p) /\ call \in [Processes -> Call] /\ Stands
      /\ call[p].pc \in {"compare", "dispatch", "confirm"}
      /\ Trying(p) /\ OnDisk \in Snapshot
      /\ OnDisk.loose = disk.tree /\ OnDisk.commit = disk.branch
  BY OnDiskIsSnapshot
  DEF OnDisk, EvolutionInv, EvolutionTypeOK, Compare, Dispatch, Confirm, In, CallInv, Trying,
      WithCandidate
<1>2. UNCHANGED <<disk, holder, spent, passed>>
  BY DEF Compare, Dispatch, Confirm
<1>3. CallInv(p)'
  <2>1. CASE \E status \in {"stale", "rejected"} : Finish(p, status)
    BY <1>1, <1>2, <2>1, FailureKeeps, EndingsAre
  <2>2. CASE In(p, "confirm") /\ Finish(p, "pr-ready")
    <3>2. /\ call[p].prepared /\ call[p].snapshot \in passed /\ ~call[p].changed /\ Stands'
      BY <1>1, <1>2, <2>2 DEF CallInv, Judging, Trying, In, Attempting, WithCandidate, Stands
    <3>3. call[p] \in Call
      BY <1>1
    <3>4. QED
      BY <1>1, <1>2, <2>2, <3>2, <3>3, FinishKeeps, EndingsAre DEF Finish
  <2>3. CASE /\ MoveTo(p, "dispatch") \/ MoveTo(p, "confirm")
             /\ In(p, "compare") => OnDisk = call[p].snapshot /\ call[p].verdict # "reject"
    <3>1. /\ call'[p].pc \in {"dispatch", "confirm"}
          /\ call'[p].base = call[p].base /\ call'[p].prepared = call[p].prepared
          /\ call'[p].got = call[p].got /\ call'[p].changed = call[p].changed
          /\ call'[p].snapshot = call[p].snapshot
      BY <1>1, <2>3 DEF MoveTo, Call
    <3>2. call[p].snapshot \in passed
      <4>1. CASE In(p, "compare")
        <5>1. OnDisk = call[p].snapshot /\ call[p].verdict = "pass"
          BY <1>1, <2>3, <4>1 DEF Call
        <5>2. PICK s \in passed :
                 /\ s.commit = disk.branch
                 /\ call[p].snapshot.loose \subseteq s.loose /\ s.loose \subseteq disk.tree
          BY <1>1, <4>1, <5>1 DEF CallInv, Judging
        <5>3. s.loose = disk.tree /\ s.commit = disk.branch
          BY <1>1, <5>1, <5>2
        <5>4. s \in Snapshot
          BY DEF EvolutionInv, EvolutionTypeOK
        <5>5. s = OnDisk
          BY <5>3, <5>4 DEF OnDisk, Snapshot
        <5>6. QED
          BY <5>1, <5>5
      <4>2. CASE ~In(p, "compare")
        BY <1>1, <4>2 DEF CallInv, Judging, In
      <4>3. QED
        BY <4>1, <4>2
    <3>3. Trying(p)'
      BY <1>1, <1>2, <3>1 DEF Trying, In, Attempting, WithCandidate, Stands
    <3>4. Judging(p)'
      BY <1>2, <3>1, <3>2 DEF Judging, In
    <3>5. QED
      BY <1>1, <1>2, <3>1, <3>3, <3>4, Elsewhere, StillRemembered DEF CallInv, Decided,
                                                                      CleaningUp
  <2>4. QED
    BY <2>1, <2>2, <2>3 DEF Compare, Dispatch, Confirm, In
<1>4. \E c : call' = [call EXCEPT ![p] = c]
  BY DEF Compare, Dispatch, Confirm, MoveTo, Finish
<1>5. QED
  BY <1>1, <1>2, <1>3, <1>4, DiskStays, AttemptKeeps DEF Attempting

\* A host call that throws ends the attempt, never as ready.
LEMMA AttemptFailsStep ==
    ASSUME EvolutionInv, EvolutionTypeOK', NEW p \in Processes, AttemptFails(p)
    PROVE  EvolutionInv'
<1>1. /\ CallInv(p) /\ call \in [Processes -> Call] /\ spent \in Spent
  BY DEF EvolutionInv, EvolutionTypeOK, Spent
<1>2. PICK pc \in Attempting, status \in {"failed", "cancelled", "stale"} : Throws(p, pc, status)
  BY DEF AttemptFails, Attempting
<1>3. UNCHANGED <<disk, holder, passed>> /\ spent'.edits = spent.edits
  BY <1>1, <1>2, FaultIsSpent DEF Throws
<1>4. CallInv(p)'
  BY <1>1, <1>2, <1>3, FailureKeeps, EndingsAre DEF Throws
<1>5. \E c : call' = [call EXCEPT ![p] = c]
  BY <1>2 DEF Throws, Finish
<1>6. call[p].pc \in Attempting
  BY <1>2 DEF Throws, In
<1>7. QED
  BY <1>3, <1>4, <1>5, <1>6, DiskStays, AttemptKeeps

\* A cleanup that failed nowhere has removed what it got to.
LEMMA DropStep ==
    ASSUME EvolutionInv, EvolutionTypeOK', NEW p \in Processes,
           DropBaseline(p) \/ DropTree(p) \/ DropBranch(p)
    PROVE  EvolutionInv'
<1> DEFINE what == IF In(p, "dropBaseline") THEN "baseline"
                   ELSE IF In(p, "dropTree") THEN "tree" ELSE "branch"
           next == IF In(p, "dropBaseline") THEN (IF call[p].retain THEN "dropped" ELSE "dropTree")
                   ELSE IF In(p, "dropTree") THEN "dropBranch" ELSE "dropped"
<1>1. /\ CallInv(p) /\ call \in [Processes -> Call] /\ spent \in Spent /\ disk \in Disk
      /\ call[p].pc \in {"dropBaseline", "dropTree", "dropBranch"}
  BY DEF EvolutionInv, EvolutionTypeOK, Spent, DropBaseline, DropTree, DropBranch, In
<1>2. PICK fails \in BOOLEAN :
         /\ Drop(p, what, next, fails) /\ UNCHANGED <<holder, passed>>
         /\ fails => In(p, "dropBranch")
  <2>1. CASE DropBaseline(p)
    BY <2>1 DEF DropBaseline
  <2>2. CASE DropTree(p)
    BY <2>2 DEF DropTree, In
  <2>3. CASE DropBranch(p)
    <3>1. (disk.branch # None /\ disk.tree # None) \in BOOLEAN
      OBVIOUS
    <3>2. QED
      BY <2>3, <3>1 DEF DropBranch, In
  <2>4. QED
    BY <2>1, <2>2, <2>3
<1>3. call[p].out \in Result /\ call[p].out.cleanup \in {"completed", "failed"}
  BY <1>1 DEF CallInv, Deciding, Decided, CleaningUp
<1>4. /\ call'[p].pc = next /\ call'[p].got = call[p].got /\ call'[p].retain = call[p].retain
      /\ call'[p].changed = call[p].changed
      /\ call'[p].out.status = call[p].out.status /\ call'[p].out.of = call[p].out.of
      /\ call'[p].out \in Result
      /\ call'[p].out.cleanup \in {call[p].out.cleanup, "failed"}
      /\ spent'.edits = spent.edits
      /\ \/ disk' = [disk EXCEPT ![what] = None]
         \/ UNCHANGED disk /\ call'[p].out.cleanup = "failed"
  <2>1. spent'.edits = spent.edits
    BY <1>1, <1>2, FaultIsSpent DEF Drop
  <2>2. PICK k \in {call[p].out.cleanup, "failed"} :
           /\ call' = [call EXCEPT ![p].pc = next, ![p].out.cleanup = k]
           /\ \/ disk' = [disk EXCEPT ![what] = None]
              \/ disk' = [disk EXCEPT ![what] = @] /\ k = "failed"
              \/ UNCHANGED disk /\ k = "failed"
    BY <1>2 DEF Drop
  <2>3. [disk EXCEPT ![what] = @] = disk
    BY <1>1 DEF Disk
  <2>4. call'[p] = [call[p] EXCEPT !.pc = next, !.out = [call[p].out EXCEPT !.cleanup = k]]
    BY <1>1, <2>2 DEF Call
  <2>5. [call[p].out EXCEPT !.cleanup = k] \in Result
    BY <1>3 DEF Result
  <2>6. /\ [call[p].out EXCEPT !.cleanup = k].cleanup = k
        /\ [call[p].out EXCEPT !.cleanup = k].status = call[p].out.status
        /\ [call[p].out EXCEPT !.cleanup = k].of = call[p].out.of
    BY <1>3 DEF Result
  <2>7. /\ call'[p].pc = next /\ call'[p].got = call[p].got /\ call'[p].retain = call[p].retain
        /\ call'[p].changed = call[p].changed
        /\ call'[p].out = [call[p].out EXCEPT !.cleanup = k]
    BY <1>1, <2>4 DEF Call
  <2> HIDE DEF what, next
  <2>8. \/ disk' = [disk EXCEPT ![what] = None]
        \/ UNCHANGED disk /\ k = "failed"
    BY <2>2, <2>3
  <2>9. QED
    BY <2>1, <2>5, <2>6, <2>7, <2>8
<1>5. /\ disk'.record = disk.record
      /\ disk'.tree \in {disk.tree, None} /\ disk'.branch \in {disk.branch, None}
      /\ disk'.baseline \in {disk.baseline, None}
      /\ In(p, "dropBaseline") => disk'.tree = disk.tree /\ disk'.branch = disk.branch
      /\ call'[p].out.cleanup # "failed" => disk'[what] = None
  BY <1>1, <1>4 DEF Disk
<1> HIDE DEF what, next
<1>6. EditsAreNew'
  BY <1>2, <1>4, <1>5, NoEdits
<1>7. RecordIsTrue'
  BY <1>2, <1>5 DEF EvolutionInv, SharedInv, RecordIsTrue, NothingLeft, IsReady
<1>8. Deciding(p)'
  BY <1>1, <1>2, <1>3, <1>4, <1>5 DEF CallInv, Deciding, Decided, CleaningUp, IsReady,
                                      Stands, In, next
<1>9. Clearing(p)'
  BY <1>1, <1>3, <1>4, <1>5 DEF CallInv, Clearing, NothingLeft, In, what, next
<1>10. CallInv(p)'
  <2>1. call'[p].pc \in {"dropTree", "dropBranch", "dropped"}
    BY <1>4 DEF next
  <2>2. QED
    BY <1>1, <1>2, <1>4, <1>8, <1>9, <2>1, Elsewhere, StillRemembered DEF CallInv, Attempting
<1>11. \E c : call' = [call EXCEPT ![p] = c]
  BY <1>2 DEF Drop
<1>12. QED
  BY <1>1, <1>2, <1>6, <1>7, <1>10, <1>11, ActsAlone DEF In

\* A cleanup that is completed has left nothing.
LEMMA CleanedUpStep ==
    ASSUME EvolutionInv, EvolutionTypeOK', NEW p \in Processes, CleanedUp(p)
    PROVE  EvolutionInv'
<1>1. /\ CallInv(p) /\ call \in [Processes -> Call] /\ disk \in Disk /\ In(p, "dropped")
      /\ call[p].out \in Result /\ call[p].out.cleanup \in {"completed", "failed"}
  BY DEF EvolutionInv, EvolutionTypeOK, CleanedUp, In, CallInv, Deciding, Decided, CleaningUp
<1>2. /\ UNCHANGED <<holder, passed, spent>>
      /\ disk'.record = disk.record /\ disk'.tree = disk.tree /\ disk'.branch = disk.branch
      /\ disk'.baseline = disk.baseline
  BY <1>1 DEF CleanedUp, Disk
<1> DEFINE o == call[p].out
           failed == o.cleanup = "failed"
           out == [o EXCEPT
                     !.status = IF IsReady(o) /\ failed THEN "failed" ELSE o.status,
                     !.cleanup = IF call[p].retain /\ ~failed THEN "retained" ELSE o.cleanup]
<1>3. call' = [call EXCEPT ![p].pc = IF call[p].tried THEN "answered" ELSE "record",
                           ![p].out = out]
  BY DEF CleanedUp
<1>4. /\ out.status = (IF IsReady(o) /\ failed THEN "failed" ELSE o.status)
      /\ out.cleanup = (IF call[p].retain /\ ~failed THEN "retained" ELSE o.cleanup)
      /\ out.of = o.of /\ out.listed = o.listed /\ out \in Result
  <2>1. o.status \in Endings
    BY <1>1 DEF Result
  <2>2. QED
    BY <1>1, <2>1, EndingsAre DEF Result
<1>5. /\ call'[p].pc \in {"answered", "record"} /\ call'[p].out = out
      /\ call'[p].got = call[p].got /\ call'[p].changed = call[p].changed
  <2> HIDE DEF out
  <2>1. QED
    BY <1>1, <1>3 DEF Call
<1> HIDE DEF out
<1>6. EditsAreNew' /\ RecordIsTrue'
  BY <1>2, NoEdits DEF EvolutionInv, SharedInv, RecordIsTrue, NothingLeft, IsReady
<1>7. Deciding(p)'
  BY <1>1, <1>2, <1>4, <1>5 DEF CallInv, Deciding, Decided, CleaningUp, IsReady, Stands, In
<1>8. Clearing(p)'
  BY <1>1, <1>2, <1>4, <1>5 DEF CallInv, Clearing, NothingLeft, In
<1>9. CallInv(p)'
  BY <1>1, <1>2, <1>5, <1>7, <1>8, Elsewhere, StillRemembered DEF CallInv, Attempting
<1>10. \E c : call' = [call EXCEPT ![p] = c]
  BY <1>3
<1>11. QED
  BY <1>1, <1>2, <1>6, <1>9, <1>10, ActsAlone DEF In

\* What is recorded is true; what could not be recorded is cleaned up after all.
LEMMA RecordStep ==
    ASSUME EvolutionInv, EvolutionTypeOK', NEW p \in Processes, Record(p) \/ RecordFails(p)
    PROVE  EvolutionInv'
<1>1. /\ CallInv(p) /\ call \in [Processes -> Call] /\ disk \in Disk /\ In(p, "record")
      /\ spent \in Spent /\ call[p].out \in Result
  BY DEF EvolutionInv, EvolutionTypeOK, Spent, Record, RecordFails, In, CallInv, Deciding,
         Decided
<1> DEFINE o == call[p].out
           result == [o EXCEPT !.recorded = TRUE]
<1>2. /\ result.status = o.status /\ result.cleanup = o.cleanup /\ result.of = o.of
      /\ result.listed = o.listed
      /\ result \in Result
  BY <1>1 DEF Result
<1>3. /\ o.cleanup = "completed" /\ o.listed => NothingLeft
      /\ IsReady(o) => o.of \in passed /\ ~call[p].changed /\ Stands /\ o.cleanup = "retained"
  BY <1>1 DEF CallInv, Deciding, Clearing, In, Decided, CleaningUp
<1>4. /\ UNCHANGED <<holder, passed>> /\ spent'.edits = spent.edits
      /\ disk'.tree = disk.tree /\ disk'.branch = disk.branch /\ disk'.baseline = disk.baseline
      /\ disk'.record \in {disk.record, result}
  BY <1>1, FaultIsSpent DEF Record, RecordFails, Disk
<1> HIDE DEF result
<1>5. EditsAreNew'
  BY <1>4, NoEdits
<1>6. RecordIsTrue'
  BY <1>2, <1>3, <1>4 DEF EvolutionInv, SharedInv, RecordIsTrue, NothingLeft, IsReady
<1>7. CallInv(p)'
  <2>1. CASE Record(p)
    <3>1. /\ call'[p].pc = "answered" /\ call'[p].out = result
          /\ call'[p].got = call[p].got /\ call'[p].changed = call[p].changed
      BY <1>1, <2>1 DEF Record, Call, result
    <3>2. Deciding(p)' /\ Clearing(p)'
      BY <1>2, <1>3, <1>4, <3>1 DEF Deciding, Clearing, CleaningUp, IsReady, Stands,
                                    NothingLeft, In
    <3>3. QED
      BY <1>1, <1>4, <3>1, <3>2, Elsewhere, StillRemembered DEF CallInv, Attempting
  <2>2. CASE RecordFails(p)
    <3> DEFINE again == call[p].prepared /\ call[p].retain
               out == [o EXCEPT !.status = "failed",
                                !.cleanup = IF again THEN "completed" ELSE o.cleanup]
    <3>1. call' = [call EXCEPT ![p].pc = IF again THEN "dropBaseline" ELSE "answered",
                               ![p].tried = TRUE, ![p].retain = FALSE, ![p].out = out]
      BY <2>2 DEF RecordFails
    <3>2. /\ out.status = "failed" /\ out \in Result
          /\ out.cleanup = (IF again THEN "completed" ELSE o.cleanup)
          /\ out.listed = o.listed
      <4>1. o.cleanup \in {"completed", "retained", "failed"}
        BY <1>1 DEF Result
      <4>2. QED
        BY <1>1, <4>1, EndingsAre DEF Result
    <3> HIDE DEF out
    <3>3. /\ call'[p].pc = (IF again THEN "dropBaseline" ELSE "answered")
          /\ call'[p].out = out /\ call'[p].got = call[p].got
      BY <1>1, <3>1 DEF Call
    <3>4. Deciding(p)' /\ Clearing(p)'
      BY <1>3, <1>4, <3>2, <3>3 DEF Deciding, Clearing, CleaningUp, IsReady, NothingLeft, In
    <3>5. QED
      BY <1>1, <1>4, <3>3, <3>4, Elsewhere, StillRemembered DEF CallInv, Attempting
  <2>3. QED
    BY <2>1, <2>2
<1>8. \E c : call' = [call EXCEPT ![p] = c]
  BY DEF Record, RecordFails
<1>9. QED
  BY <1>1, <1>4, <1>5, <1>6, <1>7, <1>8, ActsAlone DEF In

\* A process that leaves remembers a ready result, or nothing.
LEMMA LeaveStep ==
    ASSUME EvolutionInv, EvolutionTypeOK', NEW p \in Processes, Return(p) \/ ServiceCrash(p)
    PROVE  EvolutionInv'
<1>1. /\ \A q \in Processes : CallInv(q)
      /\ call \in [Processes -> Call] /\ spent \in Spent /\ Alone
  BY DEF EvolutionInv, EvolutionTypeOK, Spent, SharedInv
<1>2. UNCHANGED <<disk, passed>> /\ spent'.edits = spent.edits /\ spent'.attempts = spent.attempts
  BY <1>1, FaultIsSpent DEF Return, ServiceCrash
<1>3. call'[p].pc = "idle" /\ \A q \in Processes \ {p} : call'[q] = call[q]
  <2>1. CASE Return(p)
    BY <1>1, <2>1 DEF Return, Idle
  <2>2. CASE ServiceCrash(p)
    BY <1>1, <2>2 DEF ServiceCrash, Idle
  <2>3. QED
    BY <2>1, <2>2
<1>4. Remembered(p)'
  <2>1. CASE Return(p)
    <3> DEFINE kept == IF call[p].op = "verifyFresh" THEN call[p].got
                       ELSE IF IsReady(call[p].out) THEN call[p].out ELSE None
    <3>0. call'[p].got = kept
      BY <1>1, <2>1 DEF Return, Idle
    <3>1. CASE call[p].op = "verifyFresh"
      BY <1>1, <1>2, <3>0, <3>1, StillRemembered
    <3>2. CASE call[p].op # "verifyFresh" /\ IsReady(call[p].out)
      BY <1>1, <1>2, <2>1, <3>0, <3>2
      DEF Return, In, CallInv, Deciding, Decided, CleaningUp, Remembered, IsReady
    <3>3. CASE call[p].op # "verifyFresh" /\ ~IsReady(call[p].out)
      BY <3>0, <3>3 DEF Remembered
    <3>4. QED
      BY <3>1, <3>2, <3>3
  <2>2. CASE ServiceCrash(p)
    BY <1>1, <2>2 DEF ServiceCrash, Idle, Remembered
  <2>3. QED
    BY <2>1, <2>2
<1>5. CallInv(p)'
  BY <1>3, <1>4, Elsewhere DEF CallInv, Attempting, Decided, CleaningUp
<1>6. ASSUME NEW q \in Processes, q # p
      PROVE  CallInv(q)'
  <2>1. call'[q] = call[q] /\ CallInv(q)
    BY <1>1, <1>3, <1>6
  <2>2. Remembered(q)'
    BY <1>2, <2>1, StillRemembered
  <2>3. Looking(q)' /\ Trying(q)'
    BY <1>2, <2>1 DEF CallInv, Looking, Trying, In, Intact, Stands, OnDisk, IsReady
  <2>4. Judging(q)'
    BY <1>2, <2>1 DEF CallInv, Judging, In
  <2>5. Deciding(q)' /\ Clearing(q)'
    BY <1>2, <2>1 DEF CallInv, Deciding, Clearing, In, Stands, NothingLeft, IsReady
  <2>6. QED
    BY <2>2, <2>3, <2>4, <2>5 DEF CallInv
<1>7. Alone'
  <2>1. ASSUME NEW q \in Processes, ~In(q, "idle")'
        PROVE  holder' = q
    <3>1. q # p /\ holder = q
      BY <1>1, <1>3, <2>1 DEF Alone, In
    <3>2. QED
      BY <1>1, <3>1 DEF Return, ServiceCrash, Alone, In
  <2>2. QED
    BY <2>1 DEF Alone
<1>8. QED
  BY <1>2, <1>5, <1>6, <1>7, DiskStays DEF EvolutionInv, SharedInv

\* An edit from outside is new: nothing that was sealed or recorded has it.
LEMMA OutsideStep ==
    ASSUME EvolutionInv, EvolutionTypeOK', Meddle \/ MoveBase
    PROVE  EvolutionInv'
<1>1. /\ spent \in Spent /\ disk \in Disk /\ passed \subseteq Snapshot
      /\ call \in [Processes -> Call] /\ SharedInv
  BY DEF EvolutionInv, EvolutionTypeOK, Spent
<1> DEFINE new == <<"outsider", spent.edits + 1>>
<1>2. /\ UNCHANGED <<call, holder, passed>>
      /\ spent'.edits = spent.edits + 1 /\ spent'.attempts = spent.attempts
      /\ disk'.branch = disk.branch /\ disk'.baseline = disk.baseline
      /\ disk'.record = disk.record
      /\ \/ disk'.tree = disk.tree
         \/ disk.tree # None /\ disk'.tree = disk.tree \cup {new}
  BY <1>1 DEF Meddle, MoveBase, Spend, Spent, Disk
<1>3. disk.tree # None => disk'.tree # None /\ disk.tree \subseteq disk'.tree
  <2>1. CASE disk'.tree = disk.tree
    BY <2>1
  <2>2. CASE disk.tree # None /\ disk'.tree = disk.tree \cup {new}
    <3>1. new \in disk'.tree /\ disk.tree \subseteq disk'.tree
      BY <2>2
    <3>2. disk.tree \in SUBSET Edit /\ new \in Edit
      <4>1. spent.edits < MaxEdits
        BY <1>1, <2>2 DEF Meddle, MoveBase, Disk
      <4>2. spent.edits + 1 \in 1..(MaxAttempts + MaxEdits)
        BY <1>1, <4>1, EvolutionAssumption DEF Spent
      <4>3. QED
        BY <1>1, <2>2, <4>2 DEF Disk, Edit
    <3>3. disk'.tree \in SUBSET Edit
      BY <2>2, <3>2
    <3>4. QED
      BY <3>1, <3>3, EvolutionAssumption
  <2>3. QED
    BY <1>2, <2>1, <2>2
<1>4. EditsAreNew'
  <2>1. ASSUME NEW n \in Nat, n > spent'.edits
        PROVE  n > spent.edits /\ <<"outsider", n>> # new
    BY <1>1, <1>2, <2>1 DEF Spent
  <2>2. ASSUME NEW n \in Nat, n > spent'.edits
        PROVE  /\ disk'.tree # None => <<"outsider", n>> \notin disk'.tree
               /\ \A s \in passed' : <<"outsider", n>> \notin s.loose
    <3>1. n > spent.edits /\ <<"outsider", n>> # new
      BY <2>1, <2>2
    <3>2. /\ disk.tree # None => <<"outsider", n>> \notin disk.tree
          /\ \A s \in passed : <<"outsider", n>> \notin s.loose
      BY <1>1, <3>1 DEF SharedInv, EditsAreNew
    <3> HIDE DEF new
    <3>3. QED
      BY <1>2, <3>1, <3>2
  <2>3. QED
    BY <2>2 DEF EditsAreNew
<1>5. (Stands' <=> Stands) /\ (NothingLeft => NothingLeft')
  BY <1>2, <1>3 DEF Stands, NothingLeft
<1>6. RecordIsTrue'
  BY <1>1, <1>2, <1>5 DEF SharedInv, RecordIsTrue, IsReady
<1>7. ASSUME NEW r, r.of \in passed, ~Intact(r)
      PROVE  ~Intact(r)'
  <2>1. new \notin r.of.loose
    BY <1>1, <1>7 DEF SharedInv, EditsAreNew, Spent
  <2>2. CASE disk'.tree = disk.tree
    BY <1>2, <1>5, <1>7, <2>2 DEF Intact, OnDisk
  <2>3. CASE disk'.tree = disk.tree \cup {new}
    BY <2>1, <2>3 DEF Intact, OnDisk
  <2>4. QED
    BY <1>2, <2>2, <2>3
<1>8. ASSUME NEW p \in Processes
      PROVE  CallInv(p)'
  <2>1. CallInv(p)
    BY DEF EvolutionInv
  <2>2. Remembered(p)'
    BY <1>2, <2>1, StillRemembered
  <2>3. Looking(p)'
    <3>1. call[p].got # None => call[p].got.of \in passed
      BY <2>1 DEF CallInv, Remembered
    <3>2. disk.record # None /\ IsReady(disk.record) => disk.record.of \in passed
      BY <1>1 DEF SharedInv, RecordIsTrue
    <3>3. /\ call[p].got # None /\ ~Intact(call[p].got) => ~Intact(call[p].got)'
          /\ disk.record # None /\ IsReady(disk.record) /\ ~Intact(disk.record) => ~Intact(disk.record)'
      BY <1>2, <1>7, <3>1, <3>2 DEF Intact, OnDisk, Stands
    <3>4. QED
      BY <1>2, <2>1, <3>3 DEF CallInv, Looking, In, IsReady
  <2>4. Trying(p)'
    BY <1>2, <1>5, <2>1 DEF CallInv, Trying, In
  <2>5. Judging(p)'
    BY <1>2, <1>3, <2>1 DEF CallInv, Judging, Trying, In, WithCandidate, Stands
  <2>6. Deciding(p)'
    BY <1>2, <1>5, <2>1 DEF CallInv, Deciding, IsReady
  <2>7. Clearing(p)'
    BY <1>2, <1>5, <2>1 DEF CallInv, Clearing, In
  <2>8. QED
    BY <2>2, <2>3, <2>4, <2>5, <2>6, <2>7 DEF CallInv
<1>9. Alone'
  BY <1>1, <1>2 DEF SharedInv, Alone, In
<1>10. QED
  BY <1>4, <1>6, <1>8, <1>9 DEF EvolutionInv, SharedInv

\* The invariant holds at first.
LEMMA EvolutionStarts == EvolutionInit => EvolutionInv
<1> SUFFICES ASSUME EvolutionInit
             PROVE  EvolutionInv
  OBVIOUS
<1>1. /\ disk.branch = None /\ disk.tree = None /\ disk.baseline = None
      /\ disk.journal = None /\ disk.record = None /\ disk.head \in Bases
  BY EvolutionAssumption DEF EvolutionInit
<1>2. Idle \in Call
  BY PointsAre DEF Idle, Call
<1>3. EvolutionTypeOK
  <2>1. disk \in Disk
    BY <1>1 DEF EvolutionInit, Disk
  <2>2. spent \in [attempts : 0..MaxAttempts, checks : 0..MaxChecks,
                  faults : 0..MaxFaults, edits : 0..MaxEdits]
    BY EvolutionAssumption DEF EvolutionInit
  <2>3. QED
    BY <1>2, <2>1, <2>2 DEF EvolutionInit, EvolutionTypeOK
<1>4. SharedInv
  BY <1>1 DEF EvolutionInit, SharedInv, Alone, EditsAreNew, RecordIsTrue, In, Idle
<1>5. ASSUME NEW p \in Processes
      PROVE  CallInv(p)
  <2>1. call[p].pc = "idle" /\ call[p].got = None
    BY DEF EvolutionInit, Idle
  <2>2. QED
    BY <2>1 DEF CallInv, Remembered, Looking, Trying, Judging, Deciding, Clearing, In,
                Attempting, WithCandidate, Decided, CleaningUp
<1>6. QED
  BY <1>3, <1>4, <1>5 DEF EvolutionInv

\* A step that changes nothing keeps the invariant.
LEMMA EvolutionStays ==
    ASSUME EvolutionInv, UNCHANGED evolutionVars
    PROVE  EvolutionInv'
<1>1. UNCHANGED <<disk, call, holder, spent, passed>>
  BY DEF evolutionVars
<1>2. EvolutionTypeOK'
  BY <1>1 DEF EvolutionInv, EvolutionTypeOK
<1>3. SharedInv'
  BY <1>1 DEF EvolutionInv, SharedInv, Alone, EditsAreNew, RecordIsTrue, In, IsReady,
              NothingLeft
<1>4. ASSUME NEW p \in Processes
      PROVE  CallInv(p)'
  <2>1. CallInv(p)
    BY DEF EvolutionInv
  <2>2. Remembered(p)' /\ Looking(p)' /\ Trying(p)'
    BY <1>1, <2>1 DEF CallInv, Remembered, Looking, Trying, In, Intact, Stands, OnDisk, IsReady
  <2>3. Judging(p)'
    BY <1>1, <2>1 DEF CallInv, Judging, In
  <2>4. Deciding(p)' /\ Clearing(p)'
    BY <1>1, <2>1 DEF CallInv, Deciding, Clearing, In, Stands, NothingLeft, IsReady
  <2>5. QED
    BY <2>2, <2>3, <2>4 DEF CallInv
<1>5. QED
  BY <1>2, <1>3, <1>4 DEF EvolutionInv

\* Every step keeps the invariant.
LEMMA EvolutionStep ==
    ASSUME EvolutionInv, [EvolutionNext]_evolutionVars
    PROVE  EvolutionInv'
<1>1. EvolutionTypeOK'
  BY EvolutionTypeStep
<1>2. ASSUME NEW p \in Processes, Run(p) \/ VerifyFresh(p)
      PROVE  EvolutionInv'
  BY <1>1, <1>2, StartStep
<1>3. ASSUME NEW p \in Processes, AttemptStep(p)
      PROVE  EvolutionInv'
  BY <1>1, <1>3, LoadRecordStep, VerifyRecordedStep, PrepareStep, CreateStep, EvaluateStep,
     JudgeStep, AttemptFailsStep DEF AttemptStep
<1>4. ASSUME NEW p \in Processes, FinishStep(p)
      PROVE  EvolutionInv'
  BY <1>1, <1>4, DropStep, CleanedUpStep, RecordStep DEF FinishStep
<1>5. ASSUME NEW p \in Processes, Reinspect(p) \/ Return(p) \/ ServiceCrash(p)
      PROVE  EvolutionInv'
  BY <1>1, <1>5, VerifyRecordedStep, LeaveStep
<1>6. CASE Meddle \/ MoveBase
  BY <1>1, <1>6, OutsideStep
<1>7. CASE UNCHANGED evolutionVars
  BY <1>7, EvolutionStays
<1>8. QED
  BY <1>2, <1>3, <1>4, <1>5, <1>6, <1>7 DEF EvolutionNext

\* The invariant of an evolution run.
LEMMA EvolutionIsInvariant == EvolutionSpec => []EvolutionInv
BY EvolutionStarts, EvolutionStep, PTL DEF EvolutionSpec

\* The variables of a run keep their types, whatever crashes, fails or is changed from
\* outside: only whole records and candidates are ever on disk.
THEOREM EvolutionTypeCorrect == EvolutionSpec => []EvolutionTypeOK
<1>1. EvolutionInv => EvolutionTypeOK
  BY DEF EvolutionInv
<1>2. QED
  BY <1>1, EvolutionIsInvariant, PTL

\* Every answer of a run tells the truth about its candidate: a cleanup that lists resources
\* and is completed (cleanupCandidate, through finish() and record()) has left nothing,
\* and a candidate retained is there, whichever host calls threw and whichever attempts
\* crashed before.
THEOREM AnswersAreTrue == EvolutionSpec => []AnswersMatchDisk
<1>1. EvolutionInv => AnswersMatchDisk
  <2> SUFFICES ASSUME EvolutionInv, NEW p \in Processes, In(p, "answered")
               PROVE  /\ call[p].out.cleanup = "completed" /\ call[p].out.listed => NothingLeft
                      /\ call[p].out.cleanup = "retained" /\ IsReady(call[p].out) => Stands
    BY DEF AnswersMatchDisk
  <2>1. Deciding(p) /\ Clearing(p)
    BY DEF EvolutionInv, CallInv
  <2>2. QED
    BY <2>1 DEF Deciding, Clearing, In, Decided
<1>2. QED
  BY <1>1, EvolutionIsInvariant, PTL

\* A candidate recorded or answered as ready is what the evaluator passed, to the last
\* edit, and was unchanged when the call began: verifyRecordedCandidate and the comparisons
\* of an attempt let no other one through.
THEOREM ReadyWasEvaluated == EvolutionSpec => []ReadyIsAsEvaluated
<1>1. EvolutionInv => ReadyIsAsEvaluated
  <2> SUFFICES ASSUME EvolutionInv
               PROVE  ReadyIsAsEvaluated
    OBVIOUS
  <2>1. disk.record # None /\ IsReady(disk.record) => disk.record.of \in passed
    BY DEF EvolutionInv, SharedInv, RecordIsTrue
  <2>2. ASSUME NEW p \in Processes, In(p, "answered"), IsReady(call[p].out)
        PROVE  call[p].out.of \in passed /\ ~call[p].changed
    BY <2>2 DEF EvolutionInv, CallInv, Deciding, In, Decided
  <2>3. QED
    BY <2>1, <2>2 DEF ReadyIsAsEvaluated
<1>2. QED
  BY <1>1, EvolutionIsInvariant, PTL

\* While nothing is recorded, what is on disk is in the journal, which is written before the
\* first resource is acquired.
Journalled(p) == call[p].pc \in {"baseline", "branch", "tree"} => disk.journal # None
Kept == disk.record = None => NothingLeft \/ disk.journal # None
LeftoverInv == Kept /\ \A p \in Processes : Journalled(p)

\* What a process in a call does to the journal is the matter of no other.
LEMMA OthersAreIdle ==
    ASSUME EvolutionInv, LeftoverInv, NEW p \in Processes, ~In(p, "idle"),
           \A q \in Processes \ {p} : call'[q] = call[q], Kept', Journalled(p)'
    PROVE  LeftoverInv'
<1>1. \A q \in Processes \ {p} : In(q, "idle")
  BY EvolutionAssumption DEF EvolutionInv, SharedInv, Alone
<1>2. \A q \in Processes \ {p} : Journalled(q)'
  BY <1>1 DEF Journalled, In
<1>3. QED
  BY <1>2 DEF LeftoverInv

\* A sweep removes what the journal knows, or leaves the journal.
LEMMA SweepKeeps ==
    ASSUME disk \in Disk, disk.record = None, Kept
    PROVE  /\ Swept.tree = None /\ Swept.baseline = None /\ Swept.branch = None
           /\ \A d \in PartlySwept :
                 /\ d.record = None /\ d.journal = disk.journal
                 /\ NothingLeft => d.branch = None /\ d.tree = None /\ d.baseline = None
<1>1. Swept.tree = None /\ Swept.baseline = None /\ Swept.branch = None
  BY DEF Disk, Swept, Kept, NothingLeft
<1>2. ASSUME NEW t, NEW b
      PROVE  LET d == [disk EXCEPT !.tree = t, !.baseline = b]
             IN  /\ d.record = disk.record /\ d.journal = disk.journal
                 /\ d.branch = disk.branch /\ d.tree = t /\ d.baseline = b
  BY DEF Disk
<1>3. ASSUME NEW d \in PartlySwept
      PROVE  /\ d.record = None /\ d.journal = disk.journal
             /\ NothingLeft => d.branch = None /\ d.tree = None /\ d.baseline = None
  <2>1. PICK t \in {disk.tree, None}, b \in {disk.baseline, None} :
           d = [disk EXCEPT !.tree = t, !.baseline = b]
    BY <1>3 DEF PartlySwept
  <2>2. QED
    BY <1>2, <2>1 DEF NothingLeft
<1>4. QED
  BY <1>1, <1>3

\* Preparing writes the journal first, and removes it when all is gone.
LEMMA PrepareIsJournalled ==
    ASSUME EvolutionInv, LeftoverInv, NEW p \in Processes,
           Prepare(p) \/ Acquire(p) \/ Sweep(p)
    PROVE  Kept' /\ Journalled(p)'
<1>1. /\ CallInv(p) /\ Kept /\ Journalled(p) /\ call \in [Processes -> Call] /\ disk \in Disk
      /\ disk.record = None
  BY DEF EvolutionInv, EvolutionTypeOK, LeftoverInv, Prepare, Acquire, Sweep, In, CallInv,
         Trying, Attempting
<1>2. ASSUME disk' \in PartlySwept, Finish(p, "failed")
      PROVE  Kept' /\ Journalled(p)'
  <2>1. call'[p].pc \in {"dropBaseline", "record"}
    BY <1>1, <1>2 DEF Finish, Outcome, Call
  <2>2. QED
    BY <1>1, <1>2, <2>1, SweepKeeps DEF Kept, Journalled, NothingLeft
<1>3. CASE Prepare(p)
  <2>1. CASE disk' = [IF Adoptable(call[p].base) THEN disk ELSE Swept
                         EXCEPT !.journal = call[p].base]
    <3>1. call[p].base # None
      BY <1>1, <1>3, EvolutionAssumption DEF CallInv, Trying, In, Attempting, Prepare
    <3>2. disk'.journal = call[p].base
      BY <1>1, <2>1, SweptIsDisk DEF Disk
    <3>3. QED
      BY <3>1, <3>2 DEF Kept, Journalled
  <2>2. QED
    BY <1>2, <1>3, <2>1 DEF Prepare
<1>4. CASE Acquire(p)
  <2>1. disk.journal # None
    BY <1>1, <1>4 DEF Journalled, Acquire, In
  <2>2. disk'.journal = disk.journal
    BY <1>1, <1>4 DEF Acquire, Disk
  <2>3. QED
    BY <2>1, <2>2 DEF Kept, Journalled
<1>5. CASE Sweep(p)
  <2>1. CASE disk' = [Swept EXCEPT !.journal = None] /\ Finish(p, "failed")
    <3>1. NothingLeft'
      BY <1>1, <2>1, SweepKeeps, SweptIsDisk DEF NothingLeft, Disk
    <3>2. call'[p].pc \in {"dropBaseline", "record"}
      BY <1>1, <2>1 DEF Finish, Outcome, Call
    <3>3. QED
      BY <3>1, <3>2 DEF Kept, Journalled
  <2>2. QED
    BY <1>2, <1>5, <2>1 DEF Sweep
<1>6. QED
  BY <1>3, <1>4, <1>5

\* Files come and go with the journal in place; it goes with the last resource, or for the
\* record.
LEMMA WorkIsJournalled ==
    ASSUME EvolutionInv, LeftoverInv, NEW p \in Processes,
           \/ LoadRecord(p) \/ RunCreator(p) \/ Seal(p) \/ FinishStep(p)
    PROVE  Kept' /\ Journalled(p)'
<1>1. /\ CallInv(p) /\ Kept /\ call \in [Processes -> Call] /\ disk \in Disk
  BY DEF EvolutionInv, EvolutionTypeOK, LeftoverInv
<1>2. CASE LoadRecord(p)
  <2>1. call'[p].pc \in {"base", "verify", "answered"}
    BY <1>1, <1>2 DEF LoadRecord, MoveTo, Answer, Call
  <2>2. Kept'
    BY <1>1, <1>2 DEF LoadRecord, Kept, NothingLeft, Disk
  <2>3. QED
    BY <2>1, <2>2 DEF Journalled
<1>3. CASE RunCreator(p) \/ Seal(p)
  <2>1. Stands
    BY <1>1, <1>3 DEF CallInv, Trying, In, WithCandidate, RunCreator, Seal
  <2>2. disk'.journal = disk.journal /\ disk'.record = disk.record
    BY <1>1, <1>3 DEF RunCreator, Seal, Disk
  <2>3. call'[p].pc \in {"inspect", "dropBaseline", "record", "sealed"}
    <3>1. ASSUME NEW status, Finish(p, status)
          PROVE  call'[p].pc \in {"dropBaseline", "record"}
      BY <1>1, <3>1 DEF Finish, Outcome, Call
    <3>2. CASE \E status : Finish(p, status)
      BY <3>1, <3>2
    <3>3. CASE MoveTo(p, "inspect") \/ MoveTo(p, "sealed")
      BY <1>1, <3>3 DEF MoveTo, Call
    <3>4. QED
      BY <1>3, <3>2, <3>3 DEF RunCreator, Seal
  <2>4. QED
    BY <1>1, <2>1, <2>2, <2>3 DEF Kept, Journalled, NothingLeft, Stands
<1>4. CASE DropBaseline(p) \/ DropTree(p) \/ DropBranch(p)
  <2>1. /\ disk'.journal = disk.journal /\ disk'.record = disk.record
        /\ NothingLeft => NothingLeft'
    BY <1>1, <1>4 DEF DropBaseline, DropTree, DropBranch, Drop, NothingLeft, Disk
  <2>2. call'[p].pc \in {"dropped", "dropTree", "dropBranch"}
    BY <1>1, <1>4 DEF DropBaseline, DropTree, DropBranch, Drop, Call
  <2>3. QED
    BY <1>1, <2>1, <2>2 DEF Kept, Journalled
<1>5. CASE CleanedUp(p)
  <2>1. call'[p].pc \in {"answered", "record"}
    BY <1>1, <1>5 DEF CleanedUp, Call
  <2>2. call[p].out.cleanup \in {"completed", "failed"}
    BY <1>1, <1>5 DEF CleanedUp, CallInv, Deciding, In, Decided, CleaningUp
  <2>3. /\ disk'.record = disk.record
        /\ NothingLeft' = NothingLeft
        /\ disk'.journal = IF call[p].retain \/ call[p].out.cleanup = "failed"
                           THEN disk.journal ELSE None
    BY <1>1, <1>5 DEF CleanedUp, NothingLeft, Disk
  <2>4. ~call[p].retain /\ call[p].out.cleanup = "completed" => NothingLeft
    BY <1>1, <1>5 DEF CleanedUp, CallInv, Clearing
  <2>5. QED
    BY <1>1, <2>1, <2>2, <2>3, <2>4 DEF Kept, Journalled
<1>6. CASE Record(p) \/ RecordFails(p)
  <2>1. call'[p].pc \in {"answered", "dropBaseline"}
    BY <1>1, <1>6 DEF Record, RecordFails, Call
  <2>2. call[p].out \in Result
    BY <1>1, <1>6 DEF Record, RecordFails, CallInv, Deciding, In, Decided
  <2>3. [call[p].out EXCEPT !.recorded = TRUE] \in Result
    BY <2>2 DEF Result
  <2>4. UNCHANGED disk \/ disk'.record # None
    BY <1>1, <1>6, <2>3, EvolutionAssumption DEF Record, RecordFails, Disk
  <2>5. QED
    BY <1>1, <2>1, <2>4 DEF Kept, Journalled, NothingLeft
<1>7. QED
  BY <1>2, <1>3, <1>4, <1>5, <1>6 DEF FinishStep

\* The rest of a call leaves the disk alone, and never starts to acquire.
LEMMA RestIsJournalled ==
    ASSUME EvolutionInv, LeftoverInv, NEW p \in Processes,
           \/ Run(p) \/ VerifyFresh(p) \/ VerifyRecorded(p) \/ Reinspect(p) \/ Return(p)
           \/ ServiceCrash(p) \/ ResolveBase(p) \/ AcquireFails(p) \/ Inspect(p)
           \/ InspectSealed(p) \/ Evaluate(p) \/ Compare(p) \/ Dispatch(p) \/ Confirm(p)
           \/ AttemptFails(p)
    PROVE  Kept' /\ Journalled(p)'
<1>1. call \in [Processes -> Call] /\ Kept
  BY DEF EvolutionInv, EvolutionTypeOK, LeftoverInv
<1>2. UNCHANGED disk
  BY DEF Run, VerifyFresh, VerifyRecorded, Reinspect, Return, ServiceCrash, ResolveBase,
         AcquireFails, Inspect, InspectSealed, Evaluate, Compare, Dispatch, Confirm,
         AttemptFails, Throws
<1>3. call'[p].pc \notin {"baseline", "branch", "tree"}
  <2>1. CASE Run(p) \/ VerifyFresh(p)
    <3>1. CASE Run(p)
      <4>1. call'[p].pc = "load"
        BY <1>1, <3>1 DEF Run, Start, Idle
      <4>2. QED
        BY <4>1
    <3>2. CASE VerifyFresh(p)
      <4>1. call'[p].pc \in {"reinspect", "verify"}
        BY <1>1, <3>2 DEF VerifyFresh, Start, Idle
      <4>2. QED
        BY <4>1
    <3>3. QED
      BY <2>1, <3>1, <3>2
  <2>2. ASSUME Invalidate(p)
        PROVE  call'[p].pc \in {"dropBaseline", "record"}
    BY <1>1, <2>2 DEF Invalidate, Outcome, Call
  <2>3. ASSUME NEW status, Finish(p, status)
        PROVE  call'[p].pc \in {"dropBaseline", "record"}
    BY <1>1, <2>3 DEF Finish, Outcome, Call
  <2>4. CASE VerifyRecorded(p) \/ Reinspect(p)
    <3>1. CASE Invalidate(p)
      BY <2>2, <3>1
    <3>2. CASE ~Invalidate(p)
      BY <1>1, <2>4, <3>2 DEF VerifyRecorded, Reinspect, Answer, Call
    <3>3. QED
      BY <3>1, <3>2
  <2>5. CASE Return(p) \/ ServiceCrash(p)
    <3>1. CASE Return(p)
      <4>1. call'[p].pc = "idle"
        BY <1>1, <3>1 DEF Return, Idle
      <4>2. QED
        BY <4>1
    <3>2. CASE ServiceCrash(p)
      BY <1>1, <3>2 DEF ServiceCrash, Idle
    <3>3. QED
      BY <2>5, <3>1, <3>2
  <2>6. CASE ResolveBase(p) \/ AcquireFails(p) \/ Inspect(p) \/ InspectSealed(p) \/ Evaluate(p)
    BY <1>1, <2>6 DEF ResolveBase, AcquireFails, Inspect, InspectSealed, Evaluate, MoveTo, Call
  <2>7. CASE Compare(p) \/ Dispatch(p) \/ Confirm(p)
    <3>1. MoveTo(p, "dispatch") \/ MoveTo(p, "confirm") \/ \E status \in Endings : Finish(p, status)
      BY <2>7 DEF Compare, Dispatch, Confirm, Endings
    <3>2. QED
      BY <1>1, <2>3, <3>1 DEF MoveTo, Call
  <2>8. CASE AttemptFails(p)
    <3>1. \E status \in Endings : Finish(p, status)
      BY <2>8 DEF AttemptFails, Throws, Endings
    <3>2. QED
      BY <2>3, <3>1
  <2>9. QED
    BY <2>1, <2>4, <2>5, <2>6, <2>7, <2>8
<1>4. QED
  BY <1>1, <1>2, <1>3 DEF Kept, Journalled, NothingLeft

\* Every step keeps what is left known.
LEMMA LeftoverStep ==
    ASSUME EvolutionInv, LeftoverInv, [EvolutionNext]_evolutionVars
    PROVE  LeftoverInv'
<1>1. call \in [Processes -> Call] /\ disk \in Disk
  BY DEF EvolutionInv, EvolutionTypeOK
<1>2. ASSUME NEW p \in Processes, Run(p) \/ VerifyFresh(p) \/ ServiceCrash(p)
      PROVE  LeftoverInv'
  <2>1. UNCHANGED disk /\ \A q \in Processes \ {p} : call'[q] = call[q]
    BY <1>1, <1>2 DEF Run, VerifyFresh, ServiceCrash, Start
  <2>2. Kept' /\ Journalled(p)'
    BY <1>2, RestIsJournalled
  <2>3. QED
    BY <2>1, <2>2 DEF LeftoverInv, Journalled
<1>3. ASSUME NEW p \in Processes,
             AttemptStep(p) \/ FinishStep(p) \/ Reinspect(p) \/ Return(p)
      PROVE  LeftoverInv'
  <2>1. ~In(p, "idle")
    BY <1>3 DEF In, AttemptStep, FinishStep, LoadRecord, VerifyRecorded, ResolveBase, Prepare,
                Acquire, AcquireFails, Sweep, RunCreator, Inspect, Seal, InspectSealed, Evaluate,
                Compare, Dispatch, Confirm, AttemptFails, Throws, DropBaseline, DropTree,
                DropBranch, CleanedUp, Record, RecordFails, Reinspect, Return
  <2>2. \E c : call' = [call EXCEPT ![p] = c]
    BY <1>3 DEF AttemptStep, FinishStep, LoadRecord, VerifyRecorded, ResolveBase, Prepare,
                Acquire, AcquireFails, Sweep, RunCreator, Inspect, Seal, InspectSealed, Evaluate,
                Compare, Dispatch, Confirm, AttemptFails, Throws, DropBaseline, DropTree,
                DropBranch, Drop, CleanedUp, Record, RecordFails, Reinspect, Return,
                MoveTo, Finish, Answer, Invalidate
  <2>3. Kept' /\ Journalled(p)'
    BY <1>3, PrepareIsJournalled, WorkIsJournalled, RestIsJournalled DEF AttemptStep
  <2>4. QED
    BY <1>1, <2>1, <2>2, <2>3, OthersAreIdle
<1>4. CASE Meddle \/ MoveBase
  <2>1. /\ UNCHANGED call /\ disk'.journal = disk.journal /\ disk'.record = disk.record
        /\ NothingLeft => NothingLeft'
    BY <1>1, <1>4 DEF Meddle, MoveBase, NothingLeft, Disk
  <2>2. QED
    BY <2>1 DEF LeftoverInv, Kept, Journalled
<1>5. CASE UNCHANGED evolutionVars
  BY <1>5 DEF evolutionVars, LeftoverInv, Kept, Journalled, NothingLeft
<1>6. QED
  BY <1>2, <1>3, <1>4, <1>5 DEF EvolutionNext

\* What is on disk is known at any moment, that of a crash included: to the journal, until
\* a record takes its place (prepareCandidate, cleanupCandidate, record), and a record that
\* claims to have removed its resources is right for good.
THEOREM LeftoversKnown == EvolutionSpec => []LeftoversAreKnown
<1>1. EvolutionInit => LeftoverInv
  BY DEF EvolutionInit, LeftoverInv, Kept, Journalled, NothingLeft, Idle
<1>2. EvolutionInv /\ LeftoverInv => LeftoversAreKnown
  BY DEF EvolutionInv, SharedInv, RecordIsTrue, LeftoverInv, Kept, LeftoversAreKnown
<1>3. EvolutionInv /\ LeftoverInv /\ [EvolutionNext]_evolutionVars => LeftoverInv'
  BY LeftoverStep
<1>4. QED
  BY <1>1, <1>2, <1>3, EvolutionIsInvariant, PTL DEF EvolutionSpec

=============================================================================
