------------------------ MODULE MutationArbiterProofs ------------------------
(***************************************************************************)
(* What holds of the arbiters for any number of calls, keys, generations   *)
(* and faults: the type invariant, at-most-once execution, that no         *)
(* arbiter's clock runs ahead of the ledger, the order of the normal lane, *)
(* the counts that gate teardown and stale cancels, and that the whole     *)
(* implements the command log.                                             *)
(***************************************************************************)
EXTENDS MutationArbiter, FiniteSetTheorems, SequenceTheorems, WellFoundedInduction, TLAPS

(***************************************************************************)
(* Sequences with one element taken out.                                   *)
(***************************************************************************)
\* A non-empty set of indices has a least element.
LEMMA LeastIndex ==
  ASSUME NEW n \in Nat, NEW I \in SUBSET (1..n), I # {}
  PROVE  \E i \in I : \A j \in I : i <= j
<1> DEFINE R == OpToRel(<, Nat)
<1>1. I \subseteq Nat
  OBVIOUS
<1>2. PICK x \in I : \A y \in I : ~(<<y, x>> \in R)
  <2>1. IsWellFoundedOn(R, Nat)
    BY NatLessThanWellFounded
  <2> HIDE DEF R
  <2>2. QED
    BY <1>1, <2>1, WFMin
<1>3. R = {ss \in Nat \X Nat : ss[1] < ss[2]}
  BY Zenon DEF OpToRel
<1>4. \A y \in I : ~(y < x)
  <2>1. TAKE y \in I
  <2>2. <<y, x>> \in Nat \X Nat
    BY <1>1
  <2>3. ~(<<y, x>> \in {ss \in Nat \X Nat : ss[1] < ss[2]})
    <3> HIDE DEF R
    <3>1. QED
      BY <1>2, <1>3
  <2>4. QED
    BY <2>2, <2>3, SMT
<1>5. QED
  BY <1>1, <1>4

LEMMA MinIsMember ==
  ASSUME NEW n \in Nat, NEW I \in SUBSET (1..n), I # {}
  PROVE  Min(I) \in I
BY LeastIndex, Zenon DEF Min

LEMMA RemoveAtType ==
  ASSUME NEW S, NEW s \in Seq(S), NEW i \in 1..Len(s)
  PROVE  RemoveAt(s, i) \in Seq(S)
<1>1. SubSeq(s, 1, i - 1) \in Seq(S) /\ SubSeq(s, i + 1, Len(s)) \in Seq(S)
  BY LenProperties, SubSeqProperties
<1>2. QED
  BY <1>1, ConcatProperties DEF RemoveAt

LEMMA RemoveFirstType ==
  ASSUME NEW S, NEW s \in Seq(S), NEW e
  PROVE  RemoveFirst(s, e) \in Seq(S)
<1> DEFINE I == {i \in 1..Len(s) : s[i] = e}
<1>1. CASE I = {}
  BY <1>1 DEF RemoveFirst
<1>2. CASE I # {}
  <2>1. RemoveFirst(s, e) = RemoveAt(s, Min(I))
    BY <1>2, Zenon DEF RemoveFirst, SelectInSeq
  <2>2. Min(I) \in 1..Len(s)
    <3>1. Len(s) \in Nat /\ I \in SUBSET (1..Len(s))
      BY LenProperties
    <3> HIDE DEF I
    <3>2. QED
      BY <1>2, <3>1, MinIsMember
  <2>3. QED
    BY <2>1, <2>2, RemoveAtType
<1>3. QED
  BY <1>1, <1>2

\* What an arbiter keeps of its receipts map is a sequence of calls again.
LEMMA KeptReceiptsType ==
  ASSUME NEW g, NEW r, NEW accepted, arb[g].receipts \in Seq(Requests)
  PROVE  KeptReceipts(g, r, accepted) \in Seq(Requests)
<1> DEFINE kept == IF accepted THEN arb[g].receipts ELSE RemoveFirst(arb[g].receipts, r)
           I == {i \in 1..Len(kept) : kept[i] # r /\ req[kept[i]].phase = "answered"}
<1>1. kept \in Seq(Requests)
  BY RemoveFirstType
<1>2. CASE I = {} \/ ~(Len(kept) > MaxReceipts)
  BY <1>1, <1>2, Zenon DEF KeptReceipts, RemoveFirstMatch
<1>3. CASE I # {} /\ Len(kept) > MaxReceipts
  <2>1. KeptReceipts(g, r, accepted) = RemoveAt(kept, Min(I))
    BY <1>3, Zenon DEF KeptReceipts, RemoveFirstMatch, SelectInSeq
  <2>2. Min(I) \in 1..Len(kept)
    <3>1. Len(kept) \in Nat
      BY <1>1, LenProperties
    <3> HIDE DEF kept
    <3>2. QED
      BY <1>3, <3>1, MinIsMember
  <2> HIDE DEF kept
  <2>3. QED
    BY <1>1, <2>1, <2>2, RemoveAtType
<1>4. QED
  BY <1>2, <1>3, Zenon

(***************************************************************************)
(* The type invariant, action by action.                                   *)
(***************************************************************************)
ReqOK ==
    /\ req \in [Requests -> Request]
    /\ \A r \in Requests : Unadmitted(r) => req[r].key \in Keys
ArbOK == arb \in [Gens -> Arbiter]
GensOK == latest \in Gens /\ alive \subseteq 1..latest /\ serving \subseteq alive

\* The type invariant is inductive once a call in an admission lane has a key.
TypeInv == Ledger!LedgerTypeOK /\ ReqOK /\ ArbOK /\ GensOK

LEMMA ResolvedType ==
  ASSUME ReqOK, NEW r, NEW a \in Answer \cup {None}
  PROVE  /\ Resolved(req, r, a) \in [Requests -> Request]
         /\ \A x \in Requests :
               Resolved(req, r, a)[x].phase \in {"queued", "checked"}
                 => Resolved(req, r, a)[x] = req[x]
<1>1. ASSUME NEW x \in Requests
      PROVE  /\ req[x] \in Request
             /\ [req[x] EXCEPT !.phase = "answered", !.answer = a] \in Request
             /\ [req[x] EXCEPT !.phase = "answered", !.answer = a].phase = "answered"
  <2>1. req[x] \in Request
    BY DEF ReqOK
  <2>2. QED
    BY <2>1 DEF Request, Phases
<1>2. QED
  BY <1>1 DEF Resolved

LEMMA RefusedType == ASSUME NEW why \in Refusals PROVE Refused(why) \in Answer
BY DEF Refused, Answer

LEMMA DurableAnswerType ==
  ASSUME TypeInv, NEW r \in Requests, LookupOf(r) # "miss"
  PROVE  DurableAnswer(r) \in Answer
<1>1. receipts[req[r].key] \in Ledger!Row
  BY DEF TypeInv, Ledger!LedgerTypeOK, LookupOf, Ledger!Lookup
<1>2. receipts[req[r].key].result \in Outcomes \cup {None}
  BY <1>1 DEF Ledger!Row
<1>3. QED
  BY <1>2, RefusedType DEF DurableAnswer, Executed, Answer, Refusals

LEMMA EndRefusedType ==
  ASSUME TypeInv, NEW g \in Gens, NEW r \in Requests, AtAdmission(g, r),
         NEW a \in Answer, NEW clock \in Nat, EndRefused(g, r, a, clock)
  PROVE  ReqOK' /\ ArbOK' /\ GensOK'
<1> USE DEF TypeInv, EndRefused
<1>1. ReqOK'
  <2>1. CASE Lane(r) = "normal"
    <3> DEFINE q == [req[r] EXCEPT !.phase = "refused", !.answer = a]
    <3>1. q \in Request /\ q.phase = "refused"
      <4>1. req[r] \in Request
        BY DEF ReqOK
      <4>2. QED
        BY <4>1 DEF Request, Phases
    <3>2. req' = [req EXCEPT ![r] = q]
      BY <2>1, Zenon
    <3> HIDE DEF q
    <3>3. QED
      BY <3>1, <3>2 DEF ReqOK, Unadmitted
  <2>2. CASE Lane(r) # "normal"
    BY <2>2, ResolvedType DEF ReqOK, Unadmitted
  <2>3. QED
    BY <2>1, <2>2
<1>2. ArbOK'
  <2>1. arb[g] \in Arbiter
    BY DEF ArbOK
  <2>2. arb[g].receipts \in Seq(Requests) /\ arb[g].admissions \in Seq(Requests)
    BY <2>1 DEF Arbiter
  <2>3. Tail(arb[g].admissions) \in Seq(Requests)
    BY <2>2, HeadTailProperties DEF AtAdmission
  <2>4. (IF Lane(r) = "normal" THEN arb[g].receipts ELSE KeptReceipts(g, r, FALSE))
           \in Seq(Requests)
    BY <2>2, KeptReceiptsType
  <2>5. QED
    BY <2>1, <2>3, <2>4 DEF ArbOK, Arbiter
<1>3. GensOK'
  BY DEF GensOK
<1>4. QED
  BY <1>1, <1>2, <1>3

LEMMA LedgerUnchanged ==
  ASSUME TypeInv, UNCHANGED <<revision, receipts>>
  PROVE  Ledger!LedgerTypeOK'
BY DEF TypeInv, Ledger!LedgerTypeOK

LEMMA CallType ==
  ASSUME TypeInv, NEW g \in Gens, NEW r \in Requests, NEW k \in Keys,
         NEW op \in AllOps, NEW e \in Nat, NEW busy \in BOOLEAN, NEW phase \in Phases,
         NEW owner \in Requests \cup {None}, NEW answer \in Answer \cup {None},
         Call(g, r, k, op, e, busy, phase, owner, answer)
  PROVE  ReqOK'
<1>1. NewRequest \in Request
  BY DEF NewRequest, Request, Phases, AllOps
<1> DEFINE q == [NewRequest EXCEPT
        !.phase = phase, !.gen = g, !.key = k, !.op = op, !.expected = e,
        !.busy = busy, !.owner = owner, !.answer = answer]
<1>2. q \in Request /\ q.key = k
  BY <1>1 DEF Request
<1>3. req' = [req EXCEPT ![r] = q]
  BY DEF Call
<1> HIDE DEF q
<1>4. QED
  BY <1>2, <1>3 DEF TypeInv, ReqOK, Unadmitted

LEMMA EnqueueType ==
  ASSUME TypeInv, NEW g \in Gens, NEW r \in Requests, NEW k \in Keys,
         NEW op \in Ops, NEW e \in Nat, NEW busy \in BOOLEAN,
         Enqueue(g, r, k, op, e, busy)
  PROVE  TypeInv'
<1>1. op \in AllOps /\ "queued" \in Phases
  BY ArbiterAssumption DEF Phases
<1>2. ReqOK'
  BY <1>1, CallType DEF Enqueue
<1>3. ArbOK'
  <2>1. arb[g] \in Arbiter
    BY DEF TypeInv, ArbOK
  <2>2. /\ arb[g].admissions \in Seq(Requests)
        /\ arb[g].normals \in Seq(Requests)
        /\ arb[g].receipts \in Seq(Requests)
    BY <2>1 DEF Arbiter
  <2>3. /\ Append(arb[g].admissions, r) \in Seq(Requests)
        /\ Append(arb[g].normals, r) \in Seq(Requests)
        /\ Append(arb[g].receipts, r) \in Seq(Requests)
    BY <2>2, AppendProperties
  <2>4. QED
    BY <2>1, <2>2, <2>3 DEF TypeInv, ArbOK, Arbiter, Enqueue
<1>4. QED
  BY <1>2, <1>3, LedgerUnchanged DEF TypeInv, Enqueue, GensOK

LEMMA JoinType ==
  ASSUME TypeInv, NEW g \in Gens, NEW r \in Requests, NEW k \in Keys,
         NEW op \in Ops, NEW e \in Nat, NEW busy \in BOOLEAN,
         Join(g, r, k, op, e, busy)
  PROVE  TypeInv'
<1>1. op \in AllOps /\ {"answered", "joined"} \subseteq Phases
  BY ArbiterAssumption DEF Phases
<1>2. PICK p \in Prior(g, k) :
        \/ Call(g, r, k, op, e, busy, "answered", None, Refused("invalidReuse"))
        \/ Call(g, r, k, op, e, busy, "answered", p, req[p].answer)
        \/ Call(g, r, k, op, e, busy, "joined", p, None)
  BY Zenon DEF Join
<1>3. p \in Requests
  BY DEF TypeInv, Prior, ToSet, ArbOK, Arbiter
<1>4. req[p].answer \in Answer \cup {None}
  BY <1>3 DEF TypeInv, ReqOK, Request
<1>5. Refused("invalidReuse") \in Answer \cup {None}
  BY RefusedType DEF Refusals
<1>6. ReqOK'
  <2>1. CASE Call(g, r, k, op, e, busy, "answered", None, Refused("invalidReuse"))
    BY <1>1, <1>5, <2>1, CallType
  <2>2. CASE Call(g, r, k, op, e, busy, "answered", p, req[p].answer)
    BY <1>1, <1>3, <1>4, <2>2, CallType
  <2>3. CASE Call(g, r, k, op, e, busy, "joined", p, None)
    BY <1>1, <1>3, <2>3, CallType
  <2>4. QED
    BY <1>2, <2>1, <2>2, <2>3
<1>7. QED
  BY <1>6, LedgerUnchanged DEF TypeInv, Join, ArbOK, GensOK

LEMMA ArbiterUpdate ==
  ASSUME NEW a \in Arbiter, NEW clock \in Nat, NEW admissions \in Seq(Requests),
         NEW n \in Int, NEW gens \in SUBSET Nat
  PROVE  [a EXCEPT !.clock = clock, !.admissions = admissions,
                   !.activeMutations = n, !.activeNormals = gens] \in Arbiter
BY DEF Arbiter

LEMMA AdmitType ==
  ASSUME TypeInv, NEW g \in Gens, NEW r \in Requests, Admit(g, r)
  PROVE  TypeInv'
<1> USE DEF TypeInv
<1>1. req[r] \in Request /\ arb[g] \in Arbiter /\ req[r].key \in Keys
  BY DEF ReqOK, ArbOK, Admit, Unadmitted
<1>2. revision' \in Nat
  BY DEF Admit, Ledger!AdmitMutation, Ledger!InsertRow, Ledger!LedgerTypeOK
<1>3. Ledger!LedgerTypeOK'
  <2>1. Fingerprint(r) \in Fingerprints
    BY <1>1 DEF Fingerprint, Fingerprints, Request
  <2>2. QED
    BY <1>1, <2>1 DEF Admit, Ledger!AdmitMutation, Ledger!InsertRow, Ledger!LedgerTypeOK,
                      Ledger!Row, Ledger!Statuses
<1>4. Tail(arb[g].admissions) \in Seq(Requests)
  BY <1>1, HeadTailProperties DEF Admit, AtAdmission, Arbiter
<1>5. {c \in ToSet(Tail(arb[g].admissions)) : Lane(c) = "cancel"} \subseteq Requests
  BY <1>4, ElementOfSeq DEF ToSet
<1>6. ReqOK'
  <2> DEFINE ahead == {c \in ToSet(Tail(arb[g].admissions)) : Lane(c) = "cancel"}
             ran == Lane(r) # "normal"
             phase == IF Lane(r) = "normal" THEN "admitted" ELSE "running"
             q == [req[r] EXCEPT !.phase = phase, !.rev = revision', !.ran = ran,
                                 !.ahead = ahead]
  <2>1. req' = [req EXCEPT ![r] = q]
    BY Zenon DEF Admit
  <2>2. ahead \in SUBSET Requests /\ ran \in BOOLEAN /\ phase \in {"admitted", "running"}
    BY <1>5
  <2> HIDE DEF ahead, ran, phase
  <2>3. q \in Request /\ q.phase \notin {"queued", "checked"}
    BY <1>1, <1>2, <2>2 DEF Request, Phases
  <2> HIDE DEF q
  <2>4. QED
    BY <2>1, <2>3 DEF ReqOK, Unadmitted
<1>7. ArbOK'
  <2> DEFINE gens == IF BindsGeneration(r) THEN arb[g].activeNormals \cup {revision'}
                     ELSE arb[g].activeNormals
             b == [arb[g] EXCEPT !.clock = revision',
                                 !.admissions = Tail(arb[g].admissions),
                                 !.activeMutations = arb[g].activeMutations + 1,
                                 !.activeNormals = gens]
  <2>1. arb' = [arb EXCEPT ![g] = b]
    BY Zenon DEF Admit
  <2>2. gens \in SUBSET Nat
    BY <1>1, <1>2 DEF Arbiter
  <2> HIDE DEF gens
  <2>3. arb[g].activeMutations + 1 \in Int
    <3>1. arb[g].activeMutations \in Int
      BY <1>1 DEF Arbiter
    <3>2. QED
      BY <3>1
  <2>5. b \in Arbiter
    BY <1>1, <1>2, <1>4, <2>2, <2>3, ArbiterUpdate
  <2> HIDE DEF b
  <2>4. QED
    BY <2>1, <2>5 DEF ArbOK
<1>8. QED
  BY <1>3, <1>6, <1>7 DEF Admit, GensOK

LEMMA AdmissionType ==
  ASSUME TypeInv, NEW g \in Gens, NEW r \in Requests, AdmissionStep(g, r)
  PROVE  TypeInv'
<1>1. arb[g].clock \in Nat /\ revision \in Nat /\ Ledger!Larger(arb[g].clock, revision) \in Nat
  <2>1. arb[g] \in Arbiter /\ revision \in Nat
    BY DEF TypeInv, ArbOK, Ledger!LedgerTypeOK
  <2>2. QED
    BY <2>1 DEF Arbiter, Ledger!Larger
<1>2. {"conflict", "declined", "fault"} \subseteq Refusals
  BY DEF Refusals
<1>3. CASE Replay(g, r)
  BY <1>1, <1>3, DurableAnswerType, EndRefusedType, LedgerUnchanged DEF TypeInv, Replay
<1>4. CASE Conflict(g, r)
  BY <1>1, <1>2, <1>4, RefusedType, EndRefusedType, LedgerUnchanged DEF TypeInv, Conflict
<1>5. CASE AwaitPrecondition(g, r)
  <2> DEFINE q == [req[r] EXCEPT !.phase = "checked"]
  <2>1. req' = [req EXCEPT ![r] = q]
    BY <1>5, Zenon DEF AwaitPrecondition
  <2>2. q \in Request /\ q.key \in Keys
    <3>1. req[r] \in Request /\ req[r].key \in Keys
      BY <1>5 DEF TypeInv, ReqOK, Unadmitted, AwaitPrecondition
    <3>2. QED
      BY <3>1 DEF Request, Phases
  <2> HIDE DEF q
  <2>3. ReqOK'
    BY <2>1, <2>2 DEF TypeInv, ReqOK, Unadmitted
  <2>4. QED
    BY <1>5, <2>3, LedgerUnchanged DEF TypeInv, ArbOK, GensOK, AwaitPrecondition
<1>6. CASE Decline(g, r)
  BY <1>1, <1>2, <1>6, RefusedType, EndRefusedType, LedgerUnchanged DEF TypeInv, Decline
<1>7. CASE AdmissionFault(g, r)
  BY <1>1, <1>2, <1>7, RefusedType, EndRefusedType, LedgerUnchanged DEF TypeInv, AdmissionFault
<1>8. CASE Admit(g, r)
  BY <1>8, AdmitType
<1>9. QED
  BY <1>3, <1>4, <1>5, <1>6, <1>7, <1>8 DEF AdmissionStep

LEMMA ArbiterRelease ==
  ASSUME NEW a \in Arbiter, NEW n \in Int, NEW gens \in SUBSET Nat,
         NEW normals \in Seq(Requests), NEW kept \in Seq(Requests)
  PROVE  [a EXCEPT !.activeMutations = n, !.activeNormals = gens,
                   !.normals = normals, !.receipts = kept] \in Arbiter
BY DEF Arbiter

LEMMA ReleasedType ==
  ASSUME TypeInv, NEW g \in Gens, NEW r \in Requests
  PROVE  Released(g, r) \in Arbiter
<1>1. arb[g] \in Arbiter
  BY DEF TypeInv, ArbOK
<1>2. /\ arb[g].activeMutations \in Int
      /\ arb[g].activeNormals \in SUBSET Nat
      /\ arb[g].normals \in Seq(Requests)
      /\ arb[g].receipts \in Seq(Requests)
  BY <1>1 DEF Arbiter
<1> DEFINE n == arb[g].activeMutations - 1
           gens == arb[g].activeNormals \ {req[r].rev}
           normals == RemoveFirst(arb[g].normals, r)
           kept == KeptReceipts(g, r, TRUE)
<1>3. n \in Int /\ gens \in SUBSET Nat
  BY <1>2
<1>4. normals \in Seq(Requests)
  BY <1>2, RemoveFirstType
<1>5. kept \in Seq(Requests)
  BY <1>2, KeptReceiptsType
<1>6. Released(g, r) = [arb[g] EXCEPT !.activeMutations = n, !.activeNormals = gens,
                                      !.normals = normals, !.receipts = kept]
  BY Zenon DEF Released
<1> HIDE DEF n, gens, normals, kept
<1>7. [arb[g] EXCEPT !.activeMutations = n, !.activeNormals = gens,
                     !.normals = normals, !.receipts = kept] \in Arbiter
  BY <1>1, <1>3, <1>4, <1>5, ArbiterRelease, Zenon
<1>8. QED
  BY <1>6, <1>7, Zenon

LEMMA FinishType ==
  ASSUME TypeInv, NEW g \in Gens, NEW r \in Requests,
         NEW status \in {"completed", "failed"}, Finish(g, r, status)
  PROVE  TypeInv'
<1> DEFINE o == [status |-> status, revision |-> req[r].rev]
<1>1. o \in Outcomes
  <2>1. req[r] \in Request
    BY DEF TypeInv, ReqOK
  <2>2. req[r].rev \in Nat
    BY <2>1 DEF Request
  <2>3. QED
    BY <2>2 DEF Outcomes
<1>2. \/ /\ Ledger!CompleteMutation(req[r].key, status, o)
         /\ req' = Resolved(req, r, Executed(o))
      \/ /\ UNCHANGED <<revision, receipts>>
         /\ req' = Resolved(req, r, Refused("unrecorded"))
  BY Zenon DEF Finish
<1> HIDE DEF o
<1>3. Ledger!LedgerTypeOK'
  <2>1. CASE UNCHANGED <<revision, receipts>>
    BY <2>1, LedgerUnchanged
  <2>2. CASE Ledger!CompleteMutation(req[r].key, status, o)
    <3> DEFINE k == req[r].key
               row == [receipts[k] EXCEPT !.status = status, !.result = o]
    <3>1. k \in DOMAIN receipts
      BY <2>2 DEF Ledger!CompleteMutation, Ledger!CompletionRefused
    <3>2. receipts[k] \in Ledger!Row
      BY <3>1 DEF TypeInv, Ledger!LedgerTypeOK
    <3>3. row \in Ledger!Row
      BY <1>1, <3>2 DEF Ledger!Row, Ledger!Statuses
    <3>4. receipts' = [receipts EXCEPT ![k] = row] /\ revision' = revision
      BY <2>2, Zenon DEF Ledger!CompleteMutation
    <3> HIDE DEF k, row
    <3>5. QED
      BY <3>1, <3>3, <3>4 DEF TypeInv, Ledger!LedgerTypeOK
  <2>3. QED
    BY <1>2, <2>1, <2>2
<1>4. ReqOK'
  <2>1. PICK a \in Answer : req' = Resolved(req, r, a)
    <3>1. Executed(o) \in Answer /\ Refused("unrecorded") \in Answer
      BY <1>1, RefusedType DEF Executed, Answer, Refusals
    <3>2. QED
      BY <1>2, <3>1
  <2>2. QED
    BY <2>1, ResolvedType DEF TypeInv, ReqOK, Unadmitted
<1>5. ArbOK'
  BY ReleasedType DEF TypeInv, ArbOK, Finish
<1>6. QED
  BY <1>3, <1>4, <1>5 DEF TypeInv, GensOK, Finish

LEMMA LaneType ==
  ASSUME TypeInv, NEW g \in Gens, NEW r \in Requests,
         SettleRefused(g, r) \/ TakeBarrier(g, r) \/ Start(g, r)
  PROVE  TypeInv'
<1>1. req[r] \in Request /\ arb[g] \in Arbiter
  BY DEF TypeInv, ReqOK, ArbOK
<1>2. CASE SettleRefused(g, r)
  <2>1. req[r].answer \in Answer \cup {None}
    BY <1>1 DEF Request
  <2>2. ReqOK'
    BY <1>2, <2>1, ResolvedType DEF TypeInv, ReqOK, Unadmitted, SettleRefused
  <2>3. Tail(arb[g].normals) \in Seq(Requests) /\ KeptReceipts(g, r, FALSE) \in Seq(Requests)
    BY <1>1, <1>2, HeadTailProperties, KeptReceiptsType DEF SettleRefused, AtNormalHead, Arbiter
  <2> DEFINE b == [arb[g] EXCEPT !.normals = Tail(arb[g].normals),
                                 !.receipts = KeptReceipts(g, r, FALSE)]
  <2>4. arb' = [arb EXCEPT ![g] = b]
    BY <1>2, Zenon DEF SettleRefused
  <2>5. b \in Arbiter
    BY <1>1, <2>3 DEF Arbiter
  <2> HIDE DEF b
  <2>6. ArbOK'
    BY <2>4, <2>5 DEF TypeInv, ArbOK
  <2>7. QED
    BY <1>2, <2>2, <2>6, LedgerUnchanged DEF TypeInv, GensOK, SettleRefused
<1>3. CASE TakeBarrier(g, r)
  <2> DEFINE q == [req[r] EXCEPT !.phase = "armed", !.barrier = arb[g].cancelTail]
  <2>1. req' = [req EXCEPT ![r] = q]
    BY <1>3, Zenon DEF TakeBarrier
  <2>2. arb[g].cancelTail \in Requests \cup {None}
    BY <1>1 DEF Arbiter
  <2>3. q \in Request /\ q.phase = "armed"
    BY <1>1, <2>2 DEF Request, Phases
  <2> HIDE DEF q
  <2>4. ReqOK'
    BY <2>1, <2>3 DEF TypeInv, ReqOK, Unadmitted
  <2>5. QED
    BY <1>3, <2>4, LedgerUnchanged DEF TypeInv, ArbOK, GensOK, TakeBarrier
<1>4. CASE Start(g, r)
  <2> DEFINE q == [req[r] EXCEPT !.phase = "running", !.ran = TRUE]
  <2>1. req' = [req EXCEPT ![r] = q]
    BY <1>4, Zenon DEF Start
  <2>2. q \in Request /\ q.phase = "running"
    BY <1>1 DEF Request, Phases
  <2> HIDE DEF q
  <2>3. ReqOK'
    BY <2>1, <2>2 DEF TypeInv, ReqOK, Unadmitted
  <2>4. QED
    BY <1>4, <2>3, LedgerUnchanged DEF TypeInv, ArbOK, GensOK, Start
<1>5. QED
  BY <1>2, <1>3, <1>4

LEMMA PublishType ==
  ASSUME TypeInv, NEW g \in Gens,
         PublishAutonomous(g) \/ \E n \in 0..MaxPublished : PublishDurable(g, n)
  PROVE  TypeInv'
<1>1. arb[g] \in Arbiter /\ revision \in Nat
  BY DEF TypeInv, ArbOK, Ledger!LedgerTypeOK
<1>2. PICK n \in Nat : Ledger!SeedSessionRevision(n)
  <2>1. arb[g].clock + 1 \in Nat
    BY <1>1 DEF Arbiter
  <2>2. QED
    BY <2>1, ArbiterAssumption DEF PublishAutonomous, PublishDurable
<1>3. revision' \in Nat /\ receipts' = receipts
  BY <1>1, <1>2 DEF Ledger!SeedSessionRevision, Ledger!Larger
<1>4. [arb[g] EXCEPT !.clock = revision'] \in Arbiter
  BY <1>1, <1>3 DEF Arbiter
<1>5. ArbOK' /\ UNCHANGED <<req, latest, alive, serving>>
  BY <1>4 DEF TypeInv, ArbOK, PublishAutonomous, PublishDurable
<1>6. QED
  BY <1>3, <1>5 DEF TypeInv, ReqOK, Unadmitted, GensOK, Ledger!LedgerTypeOK

LEMMA NewArbiterType == ASSUME NEW n \in Nat PROVE NewArbiter(n) \in Arbiter
BY EmptySeq DEF NewArbiter, Arbiter

LEMMA RecoverType ==
  ASSUME TypeInv, Ledger!RecoverInDoubt
  PROVE  Ledger!LedgerTypeOK'
<1>1. ASSUME NEW k \in DOMAIN receipts
      PROVE  [receipts[k] EXCEPT !.status = "in_doubt"] \in Ledger!Row
  <2>1. receipts[k] \in Ledger!Row
    BY DEF TypeInv, Ledger!LedgerTypeOK
  <2>2. QED
    BY <2>1 DEF Ledger!Row, Ledger!Statuses
<1>2. QED
  BY <1>1 DEF TypeInv, Ledger!LedgerTypeOK, Ledger!RecoverInDoubt

LEMMA GenerationType ==
  ASSUME TypeInv, Restart \/ Split \/ \E g \in Gens : Recreate(g)
  PROVE  TypeInv'
<1>1. NewGeneration
  BY DEF Restart, Split, Recreate
<1>2. latest + 1 \in Gens
  BY <1>1, ArbiterAssumption DEF TypeInv, GensOK, Gens, NewGeneration
<1>3. ArbOK'
  <2>1. NewArbiter(revision) \in Arbiter
    BY NewArbiterType DEF TypeInv, Ledger!LedgerTypeOK
  <2>2. QED
    BY <1>1, <2>1 DEF TypeInv, ArbOK, NewGeneration
<1>4. GensOK'
  <2>1. latest' = latest + 1
    BY <1>1 DEF NewGeneration
  <2>2. 1..latest \subseteq 1..latest' /\ latest + 1 \in 1..latest'
    BY <2>1, ArbiterAssumption DEF TypeInv, GensOK, Gens
  <2>3. QED
    BY <1>2, <2>1, <2>2 DEF TypeInv, GensOK, Restart, Split, Recreate
<1>5. Ledger!LedgerTypeOK'
  BY RecoverType, LedgerUnchanged DEF Restart, Split, Recreate
<1>6. ReqOK'
  <2>1. CASE Restart
    <3>1. ASSUME NEW r \in Requests PROVE [req[r] EXCEPT !.phase = "lost"] \in Request
      <4>1. req[r] \in Request
        BY DEF TypeInv, ReqOK
      <4>2. QED
        BY <4>1 DEF Request, Phases
    <3>2. QED
      BY <2>1, <3>1 DEF TypeInv, ReqOK, Unadmitted, Unsettled, Restart
  <2>2. CASE UNCHANGED req
    BY <2>2 DEF TypeInv, ReqOK, Unadmitted
  <2>3. QED
    BY <2>1, <2>2 DEF Split, Recreate
<1>7. QED
  BY <1>3, <1>4, <1>5, <1>6 DEF TypeInv

LEMMA InitType == ArbiterInit => TypeInv
<1> SUFFICES ASSUME ArbiterInit PROVE TypeInv
  OBVIOUS
<1>1. Ledger!LedgerTypeOK
  BY DEF ArbiterInit, Ledger!LedgerInit, Ledger!LedgerTypeOK
<1>2. ReqOK
  <2>1. NewRequest \in Request /\ NewRequest.phase = "new"
    BY DEF NewRequest, Request, Phases, AllOps
  <2>2. QED
    BY <2>1 DEF ArbiterInit, ReqOK, Unadmitted
<1>3. ArbOK
  BY NewArbiterType DEF ArbiterInit, ArbOK
<1>4. GensOK
  BY ArbiterAssumption DEF ArbiterInit, GensOK, Gens
<1>5. QED
  BY <1>1, <1>2, <1>3, <1>4 DEF TypeInv

LEMMA NextType == TypeInv /\ [ArbiterNext]_vars => TypeInv'
<1> SUFFICES ASSUME TypeInv, [ArbiterNext]_vars PROVE TypeInv'
  OBVIOUS
<1>1. ASSUME NEW g \in Gens, NEW r \in Requests, NEW k \in Keys, NEW op \in Ops,
             NEW e \in 0..revision, NEW busy \in BOOLEAN,
             Enqueue(g, r, k, op, e, busy) \/ Join(g, r, k, op, e, busy)
      PROVE  TypeInv'
  <2>1. e \in Nat
    BY DEF TypeInv, Ledger!LedgerTypeOK
  <2>2. QED
    BY <1>1, <2>1, EnqueueType, JoinType
<1>2. ASSUME NEW g \in Gens, NEW r \in Requests, AdmissionStep(g, r) PROVE TypeInv'
  BY <1>2, AdmissionType
<1>3. ASSUME NEW g \in Gens, NEW r \in Requests,
             SettleRefused(g, r) \/ TakeBarrier(g, r) \/ Start(g, r)
      PROVE  TypeInv'
  BY <1>3, LaneType
<1>4. ASSUME NEW g \in Gens, NEW r \in Requests, NEW status \in {"completed", "failed"},
             Finish(g, r, status)
      PROVE  TypeInv'
  BY <1>4, FinishType
<1>5. ASSUME NEW g \in Gens,
             PublishAutonomous(g) \/ \E n \in 0..MaxPublished : PublishDurable(g, n)
      PROVE  TypeInv'
  BY <1>5, PublishType
<1>6. CASE Restart \/ Split \/ \E g \in Gens : Recreate(g)
  BY <1>6, GenerationType
<1>7. CASE UNCHANGED vars
  BY <1>7 DEF vars, TypeInv, ReqOK, Unadmitted, ArbOK, GensOK, Ledger!LedgerTypeOK
<1>8. QED
  BY <1>1, <1>2, <1>3, <1>4, <1>5, <1>6, <1>7, Zenon DEF ArbiterNext

\* The arbiters, their calls and the ledger keep their types in every behaviour.
THEOREM ArbiterTypeCorrect == ArbiterSpec => []ArbiterTypeOK
<1>1. TypeInv => ArbiterTypeOK
  BY DEF TypeInv, ReqOK, ArbOK, GensOK, ArbiterTypeOK
<1>2. QED
  BY <1>1, InitType, NextType, PTL DEF ArbiterSpec

(***************************************************************************)
(* At most once.  A call that may execute was accepted; an accepted call's *)
(* key is in the ledger for good; and a key is accepted for one call only, *)
(* since acceptance needs the key to be absent.                            *)
(***************************************************************************)
MayRun(q) == q.ran \/ q.phase \in {"admitted", "armed"}

OnceInv ==
    /\ \A r \in Requests : MayRun(req[r]) => req[r].rev # 0
    /\ \A r \in Requests : req[r].rev # 0 => req[r].key \in DOMAIN receipts
    /\ \A r, s \in Requests :
          req[r].rev # 0 /\ req[s].rev # 0 /\ req[r].key = req[s].key => r = s

\* q became p without being accepted or started.
Unmoved(q, p) ==
    \/ p.rev = 0 /\ ~MayRun(p)
    \/ p.key = q.key /\ p.rev = q.rev /\ (MayRun(p) => MayRun(q))

LEMMA OnceFrame ==
  ASSUME OnceInv, DOMAIN receipts \subseteq DOMAIN receipts',
         \A r \in Requests : Unmoved(req[r], req'[r])
  PROVE  OnceInv'
<1>1. \A r \in Requests : MayRun(req'[r]) => req'[r].rev # 0
  BY DEF OnceInv, Unmoved
<1>2. \A r \in Requests : req'[r].rev # 0 => req'[r].rev = req[r].rev /\ req'[r].key = req[r].key
  BY DEF Unmoved
<1>3. QED
  BY <1>1, <1>2 DEF OnceInv

LEMMA ResolvedUnmoved ==
  ASSUME ReqOK, NEW r, NEW a, req' = Resolved(req, r, a)
  PROVE  \A x \in Requests : Unmoved(req[x], req'[x])
<1>1. ASSUME NEW x \in Requests
      PROVE  Unmoved(req[x], [req[x] EXCEPT !.phase = "answered", !.answer = a])
  <2>1. req[x] \in Request
    BY DEF ReqOK
  <2>2. QED
    BY <2>1 DEF Request, Unmoved, MayRun
<1>2. \A x \in Requests : Unmoved(req[x], req[x])
  BY DEF Unmoved
<1>3. QED
  BY <1>1, <1>2 DEF Resolved

LEMMA CallUnmoved ==
  ASSUME ReqOK, NEW g, NEW r \in Requests, NEW k, NEW op, NEW e, NEW busy,
         NEW phase \in {"queued", "answered", "joined"}, NEW owner, NEW answer,
         Call(g, r, k, op, e, busy, phase, owner, answer)
  PROVE  \A x \in Requests : Unmoved(req[x], req'[x])
<1> DEFINE q == [NewRequest EXCEPT
        !.phase = phase, !.gen = g, !.key = k, !.op = op, !.expected = e,
        !.busy = busy, !.owner = owner, !.answer = answer]
<1>1. q.rev = 0 /\ ~MayRun(q)
  BY DEF NewRequest, MayRun
<1>2. req' = [req EXCEPT ![r] = q]
  BY DEF Call
<1> HIDE DEF q
<1>3. QED
  BY <1>1, <1>2 DEF ReqOK, Unmoved

LEMMA EndRefusedUnmoved ==
  ASSUME ReqOK, NEW g, NEW r \in Requests, NEW a, NEW clock, EndRefused(g, r, a, clock)
  PROVE  \A x \in Requests : Unmoved(req[x], req'[x])
<1>1. CASE Lane(r) = "normal"
  <2> DEFINE q == [req[r] EXCEPT !.phase = "refused", !.answer = a]
  <2>1. Unmoved(req[r], q)
    <3>1. req[r] \in Request
      BY DEF ReqOK
    <3>2. QED
      BY <3>1 DEF Request, Unmoved, MayRun
  <2>2. req' = [req EXCEPT ![r] = q]
    BY <1>1, Zenon DEF EndRefused
  <2> HIDE DEF q
  <2>3. QED
    BY <2>1, <2>2 DEF ReqOK, Unmoved
<1>2. CASE Lane(r) # "normal"
  <2>1. req' = Resolved(req, r, a)
    BY <1>2, Zenon DEF EndRefused
  <2>2. QED
    BY <2>1, ResolvedUnmoved
<1>3. QED
  BY <1>1, <1>2

LEMMA AdmitOnce ==
  ASSUME TypeInv, OnceInv, NEW g \in Gens, NEW r \in Requests, Admit(g, r)
  PROVE  OnceInv'
<1>1. req[r] \in Request /\ req \in [Requests -> Request]
  BY DEF TypeInv, ReqOK
<1> DEFINE k == req[r].key
<1>2. /\ k \notin DOMAIN receipts
      /\ DOMAIN receipts' = DOMAIN receipts \cup {k}
      /\ revision' = revision + 1
  BY DEF Admit, Ledger!AdmitMutation, Ledger!InsertRow
<1>3. revision' # 0
  BY <1>2 DEF TypeInv, Ledger!LedgerTypeOK
<1>4. /\ req'[r].key = k /\ req'[r].rev # 0
      /\ \A x \in Requests \ {r} : req'[x] = req[x]
  BY <1>1, <1>3 DEF Admit, Request
<1> HIDE DEF k
<1>5. \A x \in Requests : req[x].rev # 0 => req[x].key # k
  BY <1>2 DEF OnceInv
<1>6. QED
  BY <1>2, <1>4, <1>5 DEF OnceInv

LEMMA NextOnce ==
  TypeInv /\ OnceInv /\ [ArbiterNext]_vars => OnceInv'
<1> SUFFICES ASSUME TypeInv, OnceInv, [ArbiterNext]_vars PROVE OnceInv'
  OBVIOUS
<1> DEFINE Moveless == \A x \in Requests : Unmoved(req[x], req'[x])
<1>0. ReqOK /\ \A x \in Requests : Unmoved(req[x], req[x])
  BY DEF TypeInv, Unmoved
<1>1. ASSUME NEW g \in Gens, NEW r \in Requests, NEW k \in Keys, NEW op \in Ops,
             NEW e \in 0..revision, NEW busy \in BOOLEAN,
             Enqueue(g, r, k, op, e, busy) \/ Join(g, r, k, op, e, busy)
      PROVE  OnceInv'
  <2>1. PICK phase, owner, answer :
            /\ phase \in {"queued", "answered", "joined"}
            /\ Call(g, r, k, op, e, busy, phase, owner, answer)
    BY <1>1 DEF Enqueue, Join
  <2>2. receipts' = receipts
    BY <1>1 DEF Enqueue, Join
  <2>3. QED
    BY <1>0, <2>1, <2>2, CallUnmoved, OnceFrame
<1>2. ASSUME NEW g \in Gens, NEW r \in Requests, AdmissionStep(g, r) PROVE OnceInv'
  <2>1. CASE Admit(g, r)
    BY <2>1, AdmitOnce
  <2>2. CASE AwaitPrecondition(g, r)
    <3>1. req[r] \in Request
      BY DEF TypeInv, ReqOK
    <3>2. Unmoved(req[r], [req[r] EXCEPT !.phase = "checked"])
      BY <3>1 DEF Request, Unmoved, MayRun
    <3>3. req' = [req EXCEPT ![r] = [req[r] EXCEPT !.phase = "checked"]] /\ receipts' = receipts
      BY <2>2, Zenon DEF AwaitPrecondition
    <3>4. Moveless
      BY <1>0, <3>2, <3>3 DEF ReqOK
    <3>5. QED
      BY <3>3, <3>4, OnceFrame
  <2>3. CASE Replay(g, r) \/ Conflict(g, r) \/ Decline(g, r) \/ AdmissionFault(g, r)
    <3>1. (\E a, clock : EndRefused(g, r, a, clock)) /\ receipts' = receipts
      BY <2>3 DEF Replay, Conflict, Decline, AdmissionFault
    <3>2. QED
      BY <1>0, <3>1, EndRefusedUnmoved, OnceFrame
  <2>4. QED
    BY <1>2, <2>1, <2>2, <2>3 DEF AdmissionStep
<1>3. ASSUME NEW g \in Gens, NEW r \in Requests,
             SettleRefused(g, r) \/ TakeBarrier(g, r) \/ Start(g, r)
      PROVE  OnceInv'
  <2>1. receipts' = receipts
    BY <1>3 DEF SettleRefused, TakeBarrier, Start
  <2>2. req[r] \in Request
    BY DEF TypeInv, ReqOK
  <2>3. CASE SettleRefused(g, r)
    BY <1>0, <2>1, <2>3, ResolvedUnmoved, OnceFrame DEF SettleRefused
  <2>4. CASE TakeBarrier(g, r)
    <3>1. Unmoved(req[r], [req[r] EXCEPT !.phase = "armed", !.barrier = arb[g].cancelTail])
      BY <2>2, <2>4 DEF Request, Unmoved, MayRun, TakeBarrier
    <3>2. req' = [req EXCEPT ![r] =
                    [req[r] EXCEPT !.phase = "armed", !.barrier = arb[g].cancelTail]]
      BY <2>4, Zenon DEF TakeBarrier
    <3>3. Moveless
      BY <1>0, <3>1, <3>2 DEF ReqOK
    <3>4. QED
      BY <2>1, <3>3, OnceFrame
  <2>5. CASE Start(g, r)
    <3>1. Unmoved(req[r], [req[r] EXCEPT !.phase = "running", !.ran = TRUE])
      BY <2>2, <2>5 DEF Request, Unmoved, MayRun, Start
    <3>2. req' = [req EXCEPT ![r] = [req[r] EXCEPT !.phase = "running", !.ran = TRUE]]
      BY <2>5, Zenon DEF Start
    <3>3. Moveless
      BY <1>0, <3>1, <3>2 DEF ReqOK
    <3>4. QED
      BY <2>1, <3>3, OnceFrame
  <2>6. QED
    BY <1>3, <2>3, <2>4, <2>5
<1>4. ASSUME NEW g \in Gens, NEW r \in Requests, NEW status \in {"completed", "failed"},
             Finish(g, r, status)
      PROVE  OnceInv'
  <2>1. \E a : req' = Resolved(req, r, a)
    BY <1>4, Zenon DEF Finish
  <2>2. DOMAIN receipts' = DOMAIN receipts
    BY <1>4 DEF Finish, Ledger!CompleteMutation
  <2>3. QED
    BY <1>0, <2>1, <2>2, ResolvedUnmoved, OnceFrame
<1>5. ASSUME NEW g \in Gens,
             \/ PublishAutonomous(g)
             \/ \E n \in 0..MaxPublished : PublishDurable(g, n)
             \/ Recreate(g)
      PROVE  OnceInv'
  BY <1>5 DEF PublishAutonomous, PublishDurable, Recreate, Ledger!SeedSessionRevision,
              OnceInv, MayRun
<1>6. CASE Restart \/ Split
  <2>1. DOMAIN receipts' = DOMAIN receipts
    BY <1>6 DEF Restart, Split, Ledger!RecoverInDoubt
  <2>2. ASSUME NEW x \in Requests PROVE Unmoved(req[x], [req[x] EXCEPT !.phase = "lost"])
    <3>1. req[x] \in Request
      BY DEF TypeInv, ReqOK
    <3>2. QED
      BY <3>1 DEF Request, Unmoved, MayRun
  <2>3. Moveless
    BY <1>0, <1>6, <2>2 DEF Restart, Split
  <2>4. QED
    BY <2>1, <2>3, OnceFrame
<1>7. CASE UNCHANGED vars
  BY <1>7 DEF vars, OnceInv, MayRun
<1>8. QED
  BY <1>1, <1>2, <1>3, <1>4, <1>5, <1>6, <1>7, Zenon DEF ArbiterNext

\* No command is executed twice, whatever is retried, evicted, torn down,
\* crashed or run by two owners on one ledger.
THEOREM ExecutedAtMostOnce == ArbiterSpec => []AtMostOnce
<1>1. ArbiterInit => OnceInv
  BY DEF ArbiterInit, OnceInv, MayRun, NewRequest
<1>2. OnceInv => AtMostOnce
  BY DEF OnceInv, MayRun, AtMostOnce
<1>3. QED
  BY <1>1, <1>2, InitType, NextType, NextOnce, PTL DEF ArbiterSpec

(***************************************************************************)
(* The clocks.  The ledger's revision only grows, and a clock is only ever *)
(* set to the revision just read from the ledger.                          *)
(***************************************************************************)
ClockInv == \A g \in Gens : arb[g].clock <= revision

LEMMA RevisionGrows ==
  ASSUME TypeInv, [ArbiterNext]_vars
  PROVE  revision' \in Nat /\ revision <= revision'
<1>1. revision \in Nat /\ revision' \in Nat /\ revision <= revision
  <2>1. TypeInv'
    BY NextType
  <2>2. QED
    BY <2>1 DEF TypeInv, Ledger!LedgerTypeOK
<1>2. ASSUME NEW n, Ledger!SeedSessionRevision(n) PROVE revision <= revision'
  BY <1>1, <1>2 DEF Ledger!SeedSessionRevision, Ledger!Larger
<1>3. ASSUME NEW g, NEW r, AdmissionStep(g, r) PROVE revision <= revision'
  <2>1. revision' = revision \/ revision' = revision + 1
    BY <1>3 DEF AdmissionStep, Replay, Conflict, AwaitPrecondition, Decline, AdmissionFault,
                Admit, Ledger!AdmitMutation, Ledger!InsertRow
  <2>2. QED
    BY <1>1, <2>1
<1>4. ASSUME NEW g, NEW r, SettleRefused(g, r) \/ TakeBarrier(g, r) \/ Start(g, r)
      PROVE  revision <= revision'
  <2>1. revision' = revision
    BY <1>4 DEF SettleRefused, TakeBarrier, Start
  <2>2. QED
    BY <1>1, <2>1
<1>5. ASSUME NEW g, NEW r, NEW status, Finish(g, r, status) PROVE revision <= revision'
  <2>1. revision' = revision
    BY <1>5 DEF Finish, Ledger!CompleteMutation
  <2>2. QED
    BY <1>1, <2>1
<1>6. ASSUME NEW g, PublishAutonomous(g) \/ \E n \in 0..MaxPublished : PublishDurable(g, n)
      PROVE  revision <= revision'
  BY <1>2, <1>6 DEF PublishAutonomous, PublishDurable
<1>7. CASE Restart \/ Split \/ \E g \in Gens : Recreate(g)
  BY <1>1, <1>7 DEF Restart, Split, Recreate, Ledger!RecoverInDoubt
<1>8. CASE UNCHANGED vars
  BY <1>1, <1>8 DEF vars
<1>9. ASSUME NEW g, NEW r, NEW k, NEW op, NEW e, NEW busy,
             Enqueue(g, r, k, op, e, busy) \/ Join(g, r, k, op, e, busy)
      PROVE  revision <= revision'
  BY <1>1, <1>9 DEF Enqueue, Join
<1>10. QED
  BY <1>1, <1>3, <1>4, <1>5, <1>6, <1>7, <1>8, <1>9, Zenon DEF ArbiterNext

\* One arbiter changes, and its clock stays or follows the ledger.
LEMMA ClockAt ==
  ASSUME TypeInv, TypeInv', ClockInv, revision <= revision', NEW g, NEW b,
         arb' = [arb EXCEPT ![g] = b], b.clock = arb[g].clock \/ b.clock <= revision'
  PROVE  ClockInv'
<1>1. revision \in Nat /\ revision' \in Nat
  BY DEF TypeInv, Ledger!LedgerTypeOK
<1>2. ASSUME NEW x \in Gens PROVE arb[x].clock \in Nat /\ arb'[x].clock \in Nat
  <2>1. arb[x] \in Arbiter /\ arb'[x] \in Arbiter
    BY DEF TypeInv, ArbOK
  <2>2. QED
    BY <2>1 DEF Arbiter
<1>3. ASSUME NEW x \in Gens PROVE arb'[x].clock = arb[x].clock \/ arb'[x].clock <= revision'
  BY DEF TypeInv, ArbOK
<1>4. QED
  BY <1>1, <1>2, <1>3 DEF ClockInv

LEMMA NextClock == TypeInv /\ ClockInv /\ [ArbiterNext]_vars => ClockInv'
<1> SUFFICES ASSUME TypeInv, ClockInv, [ArbiterNext]_vars PROVE ClockInv'
  OBVIOUS
<1>1. TypeInv' /\ revision <= revision'
  BY NextType, RevisionGrows
<1>2. revision \in Nat /\ revision' \in Nat /\ revision' <= revision'
  BY <1>1 DEF TypeInv, Ledger!LedgerTypeOK
<1>3. ASSUME NEW g \in Gens
      PROVE  /\ arb[g] \in Arbiter
             /\ arb[g].clock <= revision'
  <2>1. arb[g] \in Arbiter
    BY DEF TypeInv, ArbOK
  <2>2. arb[g].clock <= revision'
    BY <1>1, <1>2, <2>1 DEF ClockInv, Arbiter
  <2>3. QED
    BY <2>1, <2>2 DEF Arbiter
<1>4. ASSUME arb' = arb PROVE ClockInv'
  <2>1. \A g \in Gens : arb'[g].clock <= revision'
    BY <1>3, <1>4
  <2>2. QED
    BY <2>1 DEF ClockInv
<1>5. ASSUME NEW g \in Gens, NEW r \in Requests, NEW k \in Keys, NEW op \in Ops,
             NEW e \in 0..revision, NEW busy \in BOOLEAN,
             Enqueue(g, r, k, op, e, busy) \/ Join(g, r, k, op, e, busy)
      PROVE  ClockInv'
  <2>1. CASE Join(g, r, k, op, e, busy)
    BY <1>4, <2>1 DEF Join
  <2>2. CASE Enqueue(g, r, k, op, e, busy)
    <3> DEFINE normals == IF Lane(r)' = "normal" THEN Append(arb[g].normals, r)
                          ELSE arb[g].normals
               tail == IF Lane(r)' = "cancel" THEN r ELSE arb[g].cancelTail
               b == [arb[g] EXCEPT !.admissions = Append(arb[g].admissions, r),
                                   !.normals = normals, !.cancelTail = tail,
                                   !.receipts = Append(arb[g].receipts, r)]
    <3>1. arb' = [arb EXCEPT ![g] = b]
      BY <2>2, Zenon DEF Enqueue
    <3>2. b.clock = arb[g].clock
      <4> HIDE DEF normals, tail
      <4>1. QED
        BY <1>3 DEF Arbiter
    <3> HIDE DEF b
    <3>3. QED
      BY <1>1, <3>1, <3>2, ClockAt
  <2>3. QED
    BY <1>5, <2>1, <2>2
<1>6. ASSUME NEW g \in Gens, NEW r \in Requests, AdmissionStep(g, r) PROVE ClockInv'
  <2>1. ASSUME NEW a, NEW clock, EndRefused(g, r, a, clock), clock <= revision'
        PROVE  ClockInv'
    <3>1. PICK admissions, kept :
             arb' = [arb EXCEPT ![g] =
                       [arb[g] EXCEPT !.clock = clock, !.admissions = admissions,
                                      !.receipts = kept]]
      BY <2>1, Zenon DEF EndRefused
    <3>2. [arb[g] EXCEPT !.clock = clock, !.admissions = admissions,
                         !.receipts = kept].clock = clock
      BY <1>3 DEF Arbiter
    <3>3. QED
      BY <1>1, <2>1, <3>1, <3>2, ClockAt
  <2>2. CASE Replay(g, r)
    <3>1. Ledger!Larger(arb[g].clock, revision) <= revision'
      BY <1>1, <1>3 DEF Ledger!Larger
    <3>2. QED
      BY <2>1, <2>2, <3>1 DEF Replay
  <2>3. CASE Conflict(g, r) \/ Decline(g, r) \/ AdmissionFault(g, r)
    BY <1>3, <2>1, <2>3 DEF Conflict, Decline, AdmissionFault
  <2>4. CASE AwaitPrecondition(g, r)
    BY <1>4, <2>4 DEF AwaitPrecondition
  <2>5. CASE Admit(g, r)
    <3>1. PICK admissions, n, gens :
             arb' = [arb EXCEPT ![g] =
                       [arb[g] EXCEPT !.clock = revision', !.admissions = admissions,
                                      !.activeMutations = n, !.activeNormals = gens]]
      BY <2>5, Zenon DEF Admit
    <3>2. [arb[g] EXCEPT !.clock = revision', !.admissions = admissions,
                         !.activeMutations = n, !.activeNormals = gens].clock = revision'
      BY <1>3 DEF Arbiter
    <3>3. QED
      BY <1>1, <1>2, <3>1, <3>2, ClockAt
  <2>6. QED
    BY <1>6, <2>2, <2>3, <2>4, <2>5 DEF AdmissionStep
<1>7. ASSUME NEW g \in Gens, NEW r \in Requests,
             SettleRefused(g, r) \/ TakeBarrier(g, r) \/ Start(g, r)
      PROVE  ClockInv'
  <2>1. CASE SettleRefused(g, r)
    <3>1. PICK normals, kept :
             arb' = [arb EXCEPT ![g] =
                       [arb[g] EXCEPT !.normals = normals, !.receipts = kept]]
      BY <2>1, Zenon DEF SettleRefused
    <3>2. [arb[g] EXCEPT !.normals = normals, !.receipts = kept].clock = arb[g].clock
      BY <1>3 DEF Arbiter
    <3>3. QED
      BY <1>1, <3>1, <3>2, ClockAt
  <2>2. CASE TakeBarrier(g, r) \/ Start(g, r)
    BY <1>4, <2>2 DEF TakeBarrier, Start
  <2>3. QED
    BY <1>7, <2>1, <2>2
<1>8. ASSUME NEW g \in Gens, NEW r \in Requests, NEW status \in {"completed", "failed"},
             Finish(g, r, status)
      PROVE  ClockInv'
  <2>1. arb' = [arb EXCEPT ![g] = Released(g, r)]
    BY <1>8, Zenon DEF Finish
  <2>2. Released(g, r).clock = arb[g].clock
    BY <1>3 DEF Released, Arbiter
  <2>3. QED
    BY <1>1, <2>1, <2>2, ClockAt
<1>9. ASSUME NEW g \in Gens,
             PublishAutonomous(g) \/ \E n \in 0..MaxPublished : PublishDurable(g, n)
      PROVE  ClockInv'
  <2>1. arb' = [arb EXCEPT ![g] = [arb[g] EXCEPT !.clock = revision']]
    BY <1>9, Zenon DEF PublishAutonomous, PublishDurable
  <2>2. [arb[g] EXCEPT !.clock = revision'].clock = revision'
    BY <1>3 DEF Arbiter
  <2>3. QED
    BY <1>1, <1>2, <2>1, <2>2, ClockAt
<1>10. CASE Restart \/ Split \/ \E g \in Gens : Recreate(g)
  <2>1. arb' = [arb EXCEPT ![latest + 1] = NewArbiter(revision)]
    BY <1>10, Zenon DEF Restart, Split, Recreate, NewGeneration
  <2>2. NewArbiter(revision).clock <= revision'
    BY <1>1 DEF NewArbiter
  <2>3. QED
    BY <1>1, <2>1, <2>2, ClockAt
<1>11. CASE UNCHANGED vars
  BY <1>4, <1>11 DEF vars
<1>12. QED
  BY <1>5, <1>6, <1>7, <1>8, <1>9, <1>10, <1>11, Zenon DEF ArbiterNext

\* No arbiter ever shows a revision that is not yet in the ledger.
THEOREM ClockNeverAhead == ArbiterSpec => []ClockIsDurable
<1>1. ArbiterInit => ClockInv
  BY DEF ArbiterInit, ClockInv, NewArbiter, Ledger!LedgerInit
<1>2. TypeInv /\ ClockInv => ClockIsDurable
  <2>1. TypeInv => alive \subseteq Gens
    BY ArbiterAssumption DEF TypeInv, GensOK, Gens
  <2>2. QED
    BY <2>1 DEF ClockInv, ClockIsDurable
<1>3. QED
  BY <1>1, <1>2, InitType, NextType, NextClock, PTL DEF ArbiterSpec

(***************************************************************************)
(* The lanes as sequences without repetitions.                             *)
(***************************************************************************)
Within(s, x) == \E i \in 1..Len(s) : s[i] = x
Distinct(s) == \A i, j \in 1..Len(s) : s[i] = s[j] => i = j
\* c is in s, and t stands where c does or behind it
Covers(s, c, t) == \E i, j \in 1..Len(s) : i <= j /\ s[i] = c /\ s[j] = t

LEMMA LaneAppend ==
  ASSUME NEW S, NEW s \in Seq(S), NEW e \in S
  PROVE  /\ \A x : Within(Append(s, e), x) <=> Within(s, x) \/ x = e
         /\ Distinct(s) /\ ~Within(s, e) => Distinct(Append(s, e))
         /\ \A c, t : Covers(s, c, t) => Covers(Append(s, e), c, t)
         /\ \A c : Within(Append(s, e), c) => Covers(Append(s, e), c, e)
<1> DEFINE n == Len(s)
           a == Append(s, e)
<1>1. /\ n \in Nat
      /\ Len(a) = n + 1
      /\ \A i \in 1..n : a[i] = s[i]
      /\ a[n + 1] = e
  BY AppendProperties, LenProperties
<1>2. 1..(n + 1) = 1..n \cup {n + 1} /\ n + 1 \notin 1..n
  BY <1>1
<1> HIDE DEF n, a
<1>3. \A x : Within(a, x) <=> Within(s, x) \/ x = e
  BY <1>1, <1>2 DEF Within, n
<1>4. Distinct(s) /\ ~Within(s, e) => Distinct(a)
  BY <1>1, <1>2 DEF Distinct, Within, n
<1>5. \A c, t : Covers(s, c, t) => Covers(a, c, t)
  <2> SUFFICES ASSUME NEW c, NEW t, Covers(s, c, t) PROVE Covers(a, c, t)
    OBVIOUS
  <2>1. PICK i \in 1..n, j \in 1..n : i <= j /\ s[i] = c /\ s[j] = t
    BY DEF Covers, n
  <2>2. i \in 1..Len(a) /\ j \in 1..Len(a) /\ a[i] = c /\ a[j] = t
    BY <1>1, <1>2, <2>1
  <2>3. QED
    BY <2>1, <2>2 DEF Covers
<1>6. \A c : Within(a, c) => Covers(a, c, e)
  <2> SUFFICES ASSUME NEW c, Within(a, c) PROVE Covers(a, c, e)
    OBVIOUS
  <2>1. PICK i \in 1..Len(a) : a[i] = c
    BY DEF Within
  <2>2. n + 1 \in 1..Len(a) /\ i <= n + 1
    BY <1>1
  <2>3. QED
    BY <1>1, <2>1, <2>2 DEF Covers
<1>7. QED
  BY <1>3, <1>4, <1>5, <1>6 DEF a

LEMMA LaneTail ==
  ASSUME NEW S, NEW s \in Seq(S), s # <<>>, Distinct(s)
  PROVE  /\ Tail(s) \in Seq(S)
         /\ Head(s) \in S /\ Within(s, Head(s))
         /\ \A x : Within(Tail(s), x) <=> Within(s, x) /\ x # Head(s)
         /\ Distinct(Tail(s))
         /\ \A c, t : Covers(s, c, t) /\ c # Head(s) => Covers(Tail(s), c, t)
<1> DEFINE n == Len(s)
           u == Tail(s)
<1>1. /\ n \in Nat \ {0}
      /\ Head(s) = s[1] /\ Head(s) \in S
      /\ u \in Seq(S) /\ Len(u) = n - 1
      /\ \A i \in 1..(n - 1) : u[i] = s[i + 1]
  BY HeadTailProperties, EmptySeq, LenProperties
<1>2. /\ 1 \in 1..n
      /\ \A i \in 1..(n - 1) : i + 1 \in 1..n /\ i + 1 # 1
      /\ \A i \in 1..n : i # 1 => i - 1 \in 1..(n - 1) /\ (i - 1) + 1 = i
      /\ \A i, j \in 1..(n - 1) : i + 1 = j + 1 => i = j
  BY <1>1
<1> HIDE DEF n, u
<1>3. Within(s, Head(s))
  BY <1>1, <1>2 DEF Within, n
<1>4. ASSUME NEW x PROVE Within(u, x) <=> Within(s, x) /\ x # Head(s)
  <2>1. ASSUME Within(u, x) PROVE Within(s, x) /\ x # Head(s)
    <3>1. PICK i \in 1..(n - 1) : u[i] = x
      BY <1>1, <2>1 DEF Within
    <3>2. i + 1 \in 1..n /\ s[i + 1] = x /\ i + 1 # 1
      BY <1>1, <1>2, <3>1
    <3>3. QED
      BY <1>1, <1>2, <3>2 DEF Within, Distinct, n
  <2>2. ASSUME Within(s, x), x # Head(s) PROVE Within(u, x)
    <3>1. PICK i \in 1..n : s[i] = x
      BY <2>2 DEF Within, n
    <3>2. i - 1 \in 1..(n - 1) /\ u[i - 1] = x
      BY <1>1, <1>2, <2>2, <3>1
    <3>3. QED
      BY <1>1, <3>2 DEF Within
  <2>3. QED
    BY <2>1, <2>2
<1>5. Distinct(u)
  BY <1>1, <1>2 DEF Distinct, n
<1>6. ASSUME NEW c, NEW t, Covers(s, c, t), c # Head(s) PROVE Covers(u, c, t)
  <2>1. PICK i \in 1..n, j \in 1..n : i <= j /\ s[i] = c /\ s[j] = t
    BY <1>6 DEF Covers, n
  <2>2. i # 1 /\ j # 1
    BY <1>1, <1>6, <2>1
  <2>3. i - 1 <= j - 1
    BY <1>1, <2>1
  <2>4. /\ i - 1 \in 1..(n - 1) /\ u[i - 1] = c
        /\ j - 1 \in 1..(n - 1) /\ u[j - 1] = t
    BY <1>1, <1>2, <2>1, <2>2
  <2>5. QED
    BY <1>1, <2>3, <2>4 DEF Covers
<1>7. QED
  BY <1>1, <1>3, <1>4, <1>5, <1>6 DEF u

LEMMA LaneRemove ==
  ASSUME NEW S, NEW s \in Seq(S), NEW e
  PROVE  /\ ~Within(s, e) => RemoveFirst(s, e) = s
         /\ s # <<>> /\ e = Head(s) => RemoveFirst(s, e) = Tail(s)
<1>1. ASSUME ~Within(s, e) PROVE RemoveFirst(s, e) = s
  BY <1>1 DEF Within, RemoveFirst
<1>2. ASSUME s # <<>>, e = Head(s) PROVE RemoveFirst(s, e) = Tail(s)
  <2> DEFINE I == {i \in 1..Len(s) : s[i] = e}
  <2>1. /\ Len(s) \in Nat \ {0}
        /\ Head(s) = s[1]
    BY <1>2, HeadTailProperties, EmptySeq, LenProperties
  <2>2. 1 \in I /\ I \in SUBSET (1..Len(s))
    BY <1>2, <2>1
  <2>3. Min(I) = 1
    <3> HIDE DEF I
    <3>1. PICK m \in I : \A j \in I : m <= j
      BY <2>1, <2>2, LeastIndex
    <3>2. \A m2 \in I : (\A j \in I : m2 <= j) => m2 = 1
      BY <2>1, <2>2
    <3>3. (CHOOSE x \in I : \A y \in I : x <= y) = 1
      BY <3>1, <3>2
    <3>4. QED
      BY <3>3 DEF Min
  <2>4. RemoveFirst(s, e) = RemoveAt(s, Min(I))
    BY <2>2, Zenon DEF RemoveFirst, SelectInSeq
  <2> HIDE DEF I
  <2>5. RemoveFirst(s, e) = SubSeq(s, 1, 0) \o SubSeq(s, 2, Len(s))
    BY <2>1, <2>3, <2>4 DEF RemoveAt
  <2>6. SubSeq(s, 1, 0) = <<>>
    BY SubSeqEmpty
  <2>7. SubSeq(s, 2, Len(s)) = Tail(s) /\ Tail(s) \in Seq(S)
    BY <1>2, HeadTailProperties, TailIsSubSeq
  <2>8. QED
    BY <2>5, <2>6, <2>7, ConcatEmptySeq
<1>3. QED
  BY <1>1, <1>2

(***************************************************************************)
(* What the lanes hold.                                                    *)
(***************************************************************************)
Normal(r) == Lane(r) = "normal"
Turn(r) == Normal(r) /\ req[r].phase \in
    {"queued", "checked", "refused", "admitted", "armed", "running"}

\* Calls belong to a generation that exists; unsettled ones to a living one.
OwnedInv ==
    \A r \in Requests :
        /\ req[r].gen \in 0..latest
        /\ req[r].phase = "new" => req[r].gen = 0
        /\ Unsettled(r) => req[r].gen \in alive

\* An admission lane holds exactly the undecided calls of its arbiter, each once,
\* and no cancel stands behind the one the arbiter knows as the last.
AdmissionInv ==
    \A g \in alive :
        /\ Distinct(arb[g].admissions)
        /\ \A r \in Requests :
              Within(arb[g].admissions, r) <=> Unadmitted(r) /\ req[r].gen = g
        /\ \A r \in Requests :
              Within(arb[g].admissions, r) /\ Lane(r) = "cancel"
                 => Covers(arb[g].admissions, r, arb[g].cancelTail)

\* A normal lane holds exactly the unsettled normal calls of its arbiter, each once,
\* and only its head is past admission's end.
TurnInv ==
    \A g \in alive :
        /\ Distinct(arb[g].normals)
        /\ \A r \in Requests : Within(arb[g].normals, r) <=> Turn(r) /\ req[r].gen = g
        /\ \A r \in Requests :
              Turn(r) /\ req[r].phase \in {"armed", "running"} /\ req[r].gen = g
                 => arb[g].normals # <<>> /\ r = Head(arb[g].normals)

\* The cancels a turn found queued stand before the one it awaits while it waits,
\* and are decided once it runs.
BarrierInv ==
    \A r, c \in Requests :
        Turn(r) /\ Active(r) /\ c \in req[r].ahead =>
           /\ req[c].gen = req[r].gen
           /\ Lane(c) = "cancel"
           /\ req[r].phase = "armed" /\ Unadmitted(c)
                 => Covers(arb[req[r].gen].admissions, c, req[r].barrier)
           /\ req[r].phase = "running" => ~Unadmitted(c)

LaneInv == OwnedInv /\ AdmissionInv /\ TurnInv /\ BarrierInv

(***************************************************************************)
(* The actions, by what they do to the calls and to one arbiter.           *)
(***************************************************************************)
\* p became q without changing what it is or what it was accepted for.
Same(p, q) == /\ q.gen = p.gen /\ q.op = p.op /\ q.busy = p.busy
              /\ q.rev = p.rev /\ q.ahead = p.ahead /\ q.barrier = p.barrier
\* A bystander stays, unless it had joined a call that settled.
Stays(p, q) ==
    /\ Same(p, q)
    /\ \/ q.phase = p.phase
       \/ p.phase = "joined" /\ q.phase = "answered"
Others(r) == \A x \in Requests \ {r} : Stays(req[x], req'[x])
\* Lanes of arbiters other than g, and of g itself, that a step leaves alone
Lanes(a, b) == b.admissions = a.admissions /\ b.normals = a.normals /\ b.cancelTail = a.cancelTail
Counts(a, b) == b.activeMutations = a.activeMutations /\ b.activeNormals = a.activeNormals
Elsewhere(g) == \A x \in Gens \ {g} : arb'[x] = arb[x]
SameGenerations == UNCHANGED <<latest, alive>>

LEMMA StaysPut == ASSUME NEW p PROVE Stays(p, p)
BY DEF Stays, Same

LEMMA LaneKept ==
  ASSUME NEW r, Same(req[r], req'[r])
  PROVE  /\ Lane(r)' = Lane(r)
         /\ BindsGeneration(r)' = BindsGeneration(r)
BY DEF Same, Lane, BindsGeneration

LEMMA TypedAt ==
  ASSUME TypeInv, NEW g \in Gens
  PROVE  /\ arb[g] \in Arbiter
         /\ arb[g].admissions \in Seq(Requests) /\ arb[g].normals \in Seq(Requests)
<1>1. arb[g] \in Arbiter
  BY DEF TypeInv, ArbOK
<1>2. QED
  BY <1>1 DEF Arbiter

LEMMA EnqueueEffect ==
  ASSUME TypeInv, NEW g \in Gens, NEW r \in Requests, NEW k, NEW op, NEW e, NEW busy,
         Enqueue(g, r, k, op, e, busy)
  PROVE  /\ req[r].phase = "new" /\ g \in alive
         /\ req'[r].phase = "queued" /\ req'[r].gen = g
         /\ \A x \in Requests \ {r} : req'[x] = req[x]
         /\ Elsewhere(g) /\ SameGenerations /\ UNCHANGED <<revision, receipts>>
         /\ Counts(arb[g], arb'[g])
         /\ arb'[g].admissions = Append(arb[g].admissions, r)
         /\ arb'[g].normals = (IF Normal(r)' THEN Append(arb[g].normals, r) ELSE arb[g].normals)
         /\ arb'[g].cancelTail = (IF Lane(r)' = "cancel" THEN r ELSE arb[g].cancelTail)
<1> DEFINE normals == IF Normal(r)' THEN Append(arb[g].normals, r) ELSE arb[g].normals
           tail == IF Lane(r)' = "cancel" THEN r ELSE arb[g].cancelTail
           q == [NewRequest EXCEPT
                   !.phase = "queued", !.gen = g, !.key = k, !.op = op, !.expected = e,
                   !.busy = busy, !.owner = None, !.answer = None]
<1>1. arb' = [arb EXCEPT ![g] =
                [arb[g] EXCEPT !.admissions = Append(arb[g].admissions, r),
                               !.normals = normals, !.cancelTail = tail,
                               !.receipts = Append(arb[g].receipts, r)]]
  BY Zenon DEF Enqueue, Normal
<1>2. req' = [req EXCEPT ![r] = q]
  BY Zenon DEF Enqueue, Call
<1>3. q.phase = "queued" /\ q.gen = g
  BY DEF NewRequest
<1> HIDE DEF q, normals, tail
<1>4. req'[r].phase = "queued" /\ req'[r].gen = g /\ \A x \in Requests \ {r} : req'[x] = req[x]
  BY <1>2, <1>3 DEF TypeInv, ReqOK
<1>5. /\ Elsewhere(g) /\ Counts(arb[g], arb'[g])
      /\ arb'[g].admissions = Append(arb[g].admissions, r)
      /\ arb'[g].normals = normals /\ arb'[g].cancelTail = tail
  BY <1>1, TypedAt DEF TypeInv, ArbOK, Arbiter, Elsewhere, Counts
<1>6. /\ req[r].phase = "new" /\ g \in alive
      /\ SameGenerations /\ UNCHANGED <<revision, receipts>>
  BY DEF TypeInv, GensOK, Enqueue, Called, SameGenerations
<1>7. QED
  BY <1>4, <1>5, <1>6 DEF normals, tail

LEMMA JoinEffect ==
  ASSUME TypeInv, NEW g \in Gens, NEW r \in Requests, NEW k, NEW op, NEW e, NEW busy,
         Join(g, r, k, op, e, busy)
  PROVE  /\ req[r].phase = "new" /\ g \in alive
         /\ req'[r].phase \in {"joined", "answered"} /\ req'[r].gen = g
         /\ \A x \in Requests \ {r} : req'[x] = req[x]
         /\ arb' = arb /\ SameGenerations /\ UNCHANGED <<revision, receipts>>
<1>1. PICK phase \in {"joined", "answered"} : \E owner, answer :
         Call(g, r, k, op, e, busy, phase, owner, answer)
  BY DEF Join
<1>2. PICK owner, answer : Call(g, r, k, op, e, busy, phase, owner, answer)
  BY <1>1
<1> DEFINE q == [NewRequest EXCEPT
                   !.phase = phase, !.gen = g, !.key = k, !.op = op, !.expected = e,
                   !.busy = busy, !.owner = owner, !.answer = answer]
<1>3. req' = [req EXCEPT ![r] = q]
  BY <1>2, Zenon DEF Call
<1>4. q.phase = phase /\ q.gen = g
  BY DEF NewRequest
<1> HIDE DEF q
<1>5. req'[r].phase = phase /\ req'[r].gen = g /\ \A x \in Requests \ {r} : req'[x] = req[x]
  BY <1>3, <1>4 DEF TypeInv, ReqOK
<1>6. QED
  BY <1>5 DEF TypeInv, GensOK, Join, Called, SameGenerations

LEMMA ResolvedEffect ==
  ASSUME ReqOK, NEW r \in Requests, NEW a, req' = Resolved(req, r, a)
  PROVE  Same(req[r], req'[r]) /\ req'[r].phase = "answered" /\ Others(r)
<1>1. ASSUME NEW x \in Requests
      PROVE  /\ Same(req[x], [req[x] EXCEPT !.phase = "answered", !.answer = a])
             /\ [req[x] EXCEPT !.phase = "answered", !.answer = a].phase = "answered"
  <2>1. req[x] \in Request
    BY DEF ReqOK
  <2>2. QED
    BY <2>1 DEF Request, Same
<1>2. \A x \in Requests : Same(req[x], req[x])
  BY DEF Same
<1>3. ASSUME NEW x \in Requests
      PROVE  req'[x] = IF x = r \/ (req[x].phase = "joined" /\ req[x].owner = r)
                       THEN [req[x] EXCEPT !.phase = "answered", !.answer = a]
                       ELSE req[x]
  BY DEF Resolved
<1>4. Same(req[r], req'[r]) /\ req'[r].phase = "answered"
  <2>1. req'[r] = [req[r] EXCEPT !.phase = "answered", !.answer = a]
    BY <1>3, Zenon
  <2>2. QED
    BY <1>1, <2>1, Zenon
<1>5. ASSUME NEW x \in Requests \ {r} PROVE Stays(req[x], req'[x])
  <2>1. CASE req[x].phase = "joined" /\ req[x].owner = r
    <3>1. req'[x] = [req[x] EXCEPT !.phase = "answered", !.answer = a]
      BY <1>3, <2>1, Zenon
    <3>2. QED
      BY <1>1, <2>1, <3>1, Zenon DEF Stays
  <2>2. CASE ~(req[x].phase = "joined" /\ req[x].owner = r)
    <3>1. req'[x] = req[x]
      BY <1>3, <1>5, <2>2, Zenon
    <3>2. QED
      BY <3>1, StaysPut
  <2>3. QED
    BY <2>1, <2>2
<1>6. QED
  BY <1>4, <1>5, Zenon DEF Others

LEMMA EndRefusedEffect ==
  ASSUME TypeInv, NEW g \in Gens, NEW r \in Requests, NEW a, NEW clock,
         EndRefused(g, r, a, clock)
  PROVE  /\ Same(req[r], req'[r]) /\ Others(r)
         /\ req'[r].phase = (IF Normal(r) THEN "refused" ELSE "answered")
         /\ Elsewhere(g) /\ SameGenerations
         /\ Counts(arb[g], arb'[g])
         /\ arb'[g].admissions = Tail(arb[g].admissions)
         /\ arb'[g].normals = arb[g].normals /\ arb'[g].cancelTail = arb[g].cancelTail
<1>0. /\ Elsewhere(g) /\ SameGenerations
      /\ Counts(arb[g], arb'[g])
      /\ arb'[g].admissions = Tail(arb[g].admissions)
      /\ arb'[g].normals = arb[g].normals /\ arb'[g].cancelTail = arb[g].cancelTail
  <2>1. PICK kept : arb' = [arb EXCEPT ![g] =
                       [arb[g] EXCEPT !.clock = clock, !.admissions = Tail(arb[g].admissions),
                                      !.receipts = kept]]
    BY Zenon DEF EndRefused
  <2>2. SameGenerations
    BY DEF EndRefused, SameGenerations
  <2>3. QED
    BY <2>1, <2>2, TypedAt DEF TypeInv, ArbOK, Arbiter, Elsewhere, Counts
<1>1. CASE Normal(r)
  <2> DEFINE q == [req[r] EXCEPT !.phase = "refused", !.answer = a]
  <2>1. Same(req[r], q) /\ q.phase = "refused"
    <3>1. req[r] \in Request
      BY DEF TypeInv, ReqOK
    <3>2. QED
      BY <3>1 DEF Request, Same
  <2>2. req' = [req EXCEPT ![r] = q]
    BY <1>1, Zenon DEF EndRefused, Normal
  <2> HIDE DEF q
  <2>3. req'[r] = q /\ \A x \in Requests \ {r} : req'[x] = req[x]
    BY <2>2 DEF TypeInv, ReqOK
  <2>4. Others(r)
    BY <2>3, StaysPut DEF Others
  <2>5. QED
    BY <1>1, <2>1, <2>3, <2>4, <1>0, Zenon
<1>2. CASE ~Normal(r)
  <2>1. req' = Resolved(req, r, a)
    BY <1>2, Zenon DEF EndRefused, Normal
  <2>2. QED
    BY <1>2, <2>1, <1>0, ResolvedEffect DEF TypeInv
<1>3. QED
  BY <1>1, <1>2

\* One call becomes q; nothing else changes among the calls.
LEMMA OneCall ==
  ASSUME ReqOK, NEW r \in Requests, NEW q, req' = [req EXCEPT ![r] = q]
  PROVE  req'[r] = q /\ Others(r) /\ \A x \in Requests \ {r} : req'[x] = req[x]
<1>1. req'[r] = q /\ \A x \in Requests \ {r} : req'[x] = req[x]
  BY DEF ReqOK
<1>2. QED
  BY <1>1, StaysPut DEF Others

LEMMA AdmitEffect ==
  ASSUME TypeInv, NEW g \in Gens, NEW r \in Requests, Admit(g, r)
  PROVE  /\ AtAdmission(g, r) /\ Unadmitted(r)
         /\ \A x \in Requests \ {r} : req'[x] = req[x]
         /\ req'[r].gen = req[r].gen /\ req'[r].op = req[r].op /\ req'[r].busy = req[r].busy
         /\ req'[r].barrier = req[r].barrier /\ req'[r].rev = revision'
         /\ req'[r].phase = (IF Normal(r) THEN "admitted" ELSE "running")
         /\ req'[r].ahead = {c \in ToSet(Tail(arb[g].admissions)) : Lane(c) = "cancel"}
         /\ revision' = revision + 1
         /\ Elsewhere(g) /\ SameGenerations
         /\ arb'[g].admissions = Tail(arb[g].admissions)
         /\ arb'[g].normals = arb[g].normals /\ arb'[g].cancelTail = arb[g].cancelTail
         /\ arb'[g].activeMutations = arb[g].activeMutations + 1
         /\ arb'[g].activeNormals = (IF BindsGeneration(r) THEN arb[g].activeNormals \cup {revision'}
                                     ELSE arb[g].activeNormals)
<1> DEFINE ahead == {c \in ToSet(Tail(arb[g].admissions)) : Lane(c) = "cancel"}
           ran == Lane(r) # "normal"
           phase == IF Normal(r) THEN "admitted" ELSE "running"
           q == [req[r] EXCEPT !.phase = phase, !.rev = revision', !.ran = ran,
                               !.ahead = ahead]
           gens == IF BindsGeneration(r) THEN arb[g].activeNormals \cup {revision'}
                   ELSE arb[g].activeNormals
<1>1. req' = [req EXCEPT ![r] = q]
  BY Zenon DEF Admit, Normal
<1>2. arb' = [arb EXCEPT ![g] = [arb[g] EXCEPT !.clock = revision',
                                !.admissions = Tail(arb[g].admissions),
                                !.activeMutations = arb[g].activeMutations + 1,
                                !.activeNormals = gens]]
  BY Zenon DEF Admit
<1>3. /\ AtAdmission(g, r) /\ Unadmitted(r) /\ SameGenerations
      /\ revision' = revision + 1
  BY DEF Admit, Unadmitted, SameGenerations, Ledger!AdmitMutation, Ledger!InsertRow
<1> HIDE DEF ahead, ran, phase, gens
<1>4. /\ q.gen = req[r].gen /\ q.op = req[r].op /\ q.busy = req[r].busy
      /\ q.barrier = req[r].barrier /\ q.rev = revision'
      /\ q.phase = phase /\ q.ahead = ahead
  <2>1. req[r] \in Request
    BY DEF TypeInv, ReqOK
  <2>2. QED
    BY <2>1 DEF Request
<1> HIDE DEF q
<1>5. req'[r] = q /\ \A x \in Requests \ {r} : req'[x] = req[x]
  BY <1>1, OneCall DEF TypeInv
<1>6. /\ Elsewhere(g)
      /\ arb'[g].admissions = Tail(arb[g].admissions)
      /\ arb'[g].normals = arb[g].normals /\ arb'[g].cancelTail = arb[g].cancelTail
      /\ arb'[g].activeMutations = arb[g].activeMutations + 1
      /\ arb'[g].activeNormals = gens
  BY <1>2, TypedAt DEF TypeInv, ArbOK, Arbiter, Elsewhere
<1>7. QED
  BY <1>3, <1>4, <1>5, <1>6 DEF ahead, phase, gens

LEMMA AwaitEffect ==
  ASSUME TypeInv, NEW g \in Gens, NEW r \in Requests, AwaitPrecondition(g, r)
  PROVE  /\ Unadmitted(r) /\ Same(req[r], req'[r]) /\ req'[r].phase = "checked" /\ Others(r)
         /\ arb' = arb /\ SameGenerations /\ UNCHANGED <<revision, receipts>>
<1> DEFINE q == [req[r] EXCEPT !.phase = "checked"]
<1>1. req' = [req EXCEPT ![r] = q]
  BY Zenon DEF AwaitPrecondition
<1>2. Same(req[r], q) /\ q.phase = "checked"
  <2>1. req[r] \in Request
    BY DEF TypeInv, ReqOK
  <2>2. QED
    BY <2>1 DEF Request, Same
<1> HIDE DEF q
<1>3. req'[r] = q /\ Others(r)
  BY <1>1, OneCall DEF TypeInv
<1>4. Unadmitted(r) /\ arb' = arb /\ SameGenerations /\ UNCHANGED <<revision, receipts>>
  BY DEF AwaitPrecondition, Unadmitted, SameGenerations
<1>5. QED
  BY <1>2, <1>3, <1>4

LEMMA TakeBarrierEffect ==
  ASSUME TypeInv, NEW g \in Gens, NEW r \in Requests, TakeBarrier(g, r)
  PROVE  /\ AtNormalHead(g, r) /\ req[r].phase = "admitted"
         /\ req'[r].gen = req[r].gen /\ req'[r].op = req[r].op /\ req'[r].busy = req[r].busy
         /\ req'[r].rev = req[r].rev /\ req'[r].ahead = req[r].ahead
         /\ req'[r].barrier = arb[g].cancelTail
         /\ req'[r].phase = "armed" /\ \A x \in Requests \ {r} : req'[x] = req[x]
         /\ arb' = arb /\ SameGenerations /\ UNCHANGED <<revision, receipts>>
<1> DEFINE q == [req[r] EXCEPT !.phase = "armed", !.barrier = arb[g].cancelTail]
<1>1. req' = [req EXCEPT ![r] = q]
  BY Zenon DEF TakeBarrier
<1>2. /\ q.gen = req[r].gen /\ q.op = req[r].op /\ q.busy = req[r].busy
      /\ q.rev = req[r].rev /\ q.ahead = req[r].ahead
      /\ q.barrier = arb[g].cancelTail /\ q.phase = "armed"
  <2>1. req[r] \in Request
    BY DEF TypeInv, ReqOK
  <2>2. QED
    BY <2>1 DEF Request
<1> HIDE DEF q
<1>3. req'[r] = q /\ \A x \in Requests \ {r} : req'[x] = req[x]
  BY <1>1, OneCall DEF TypeInv
<1>4. /\ AtNormalHead(g, r) /\ req[r].phase = "admitted"
      /\ arb' = arb /\ SameGenerations /\ UNCHANGED <<revision, receipts>>
  BY DEF TakeBarrier, SameGenerations
<1>5. QED
  BY <1>2, <1>3, <1>4

LEMMA StartEffect ==
  ASSUME TypeInv, NEW g \in Gens, NEW r \in Requests, Start(g, r)
  PROVE  /\ AtNormalHead(g, r) /\ req[r].phase = "armed"
         /\ req[r].barrier # None => ~Unadmitted(req[r].barrier)
         /\ Same(req[r], req'[r]) /\ req'[r].phase = "running"
         /\ \A x \in Requests \ {r} : req'[x] = req[x]
         /\ arb' = arb /\ SameGenerations /\ UNCHANGED <<revision, receipts>>
<1> DEFINE q == [req[r] EXCEPT !.phase = "running", !.ran = TRUE]
<1>1. req' = [req EXCEPT ![r] = q]
  BY Zenon DEF Start
<1>2. Same(req[r], q) /\ q.phase = "running"
  <2>1. req[r] \in Request
    BY DEF TypeInv, ReqOK
  <2>2. QED
    BY <2>1 DEF Request, Same
<1> HIDE DEF q
<1>3. req'[r] = q /\ \A x \in Requests \ {r} : req'[x] = req[x]
  BY <1>1, OneCall DEF TypeInv
<1>4. /\ AtNormalHead(g, r) /\ req[r].phase = "armed"
      /\ req[r].barrier # None => ~Unadmitted(req[r].barrier)
      /\ arb' = arb /\ SameGenerations /\ UNCHANGED <<revision, receipts>>
  BY DEF Start, SameGenerations
<1>5. QED
  BY <1>2, <1>3, <1>4

LEMMA SettleRefusedEffect ==
  ASSUME TypeInv, NEW g \in Gens, NEW r \in Requests, SettleRefused(g, r)
  PROVE  /\ AtNormalHead(g, r) /\ req[r].phase = "refused"
         /\ Same(req[r], req'[r]) /\ req'[r].phase = "answered" /\ Others(r)
         /\ Elsewhere(g) /\ SameGenerations /\ UNCHANGED <<revision, receipts>>
         /\ Counts(arb[g], arb'[g])
         /\ arb'[g].admissions = arb[g].admissions
         /\ arb'[g].normals = Tail(arb[g].normals) /\ arb'[g].cancelTail = arb[g].cancelTail
<1>1. PICK kept : arb' = [arb EXCEPT ![g] =
                     [arb[g] EXCEPT !.normals = Tail(arb[g].normals), !.receipts = kept]]
  BY Zenon DEF SettleRefused
<1>2. /\ Elsewhere(g) /\ Counts(arb[g], arb'[g])
      /\ arb'[g].admissions = arb[g].admissions
      /\ arb'[g].normals = Tail(arb[g].normals) /\ arb'[g].cancelTail = arb[g].cancelTail
  BY <1>1, TypedAt DEF TypeInv, ArbOK, Arbiter, Elsewhere, Counts
<1>3. req' = Resolved(req, r, req[r].answer)
  BY Zenon DEF SettleRefused
<1>4. Same(req[r], req'[r]) /\ req'[r].phase = "answered" /\ Others(r)
  BY <1>3, ResolvedEffect DEF TypeInv
<1>5. /\ AtNormalHead(g, r) /\ req[r].phase = "refused"
      /\ SameGenerations /\ UNCHANGED <<revision, receipts>>
  BY DEF SettleRefused, SameGenerations
<1>6. QED
  BY <1>2, <1>4, <1>5

LEMMA FinishEffect ==
  ASSUME TypeInv, NEW g \in Gens, NEW r \in Requests, NEW status, Finish(g, r, status)
  PROVE  /\ g \in alive /\ req[r].gen = g /\ req[r].phase = "running"
         /\ Same(req[r], req'[r]) /\ req'[r].phase = "answered" /\ Others(r)
         /\ revision' = revision
         /\ Elsewhere(g) /\ SameGenerations
         /\ arb'[g].admissions = arb[g].admissions /\ arb'[g].cancelTail = arb[g].cancelTail
         /\ arb'[g].normals = RemoveFirst(arb[g].normals, r)
         /\ arb'[g].activeMutations = arb[g].activeMutations - 1
         /\ arb'[g].activeNormals = arb[g].activeNormals \ {req[r].rev}
<1>1. arb' = [arb EXCEPT ![g] = Released(g, r)]
  BY Zenon DEF Finish
<1>2. PICK kept : Released(g, r) =
                [arb[g] EXCEPT !.activeMutations = arb[g].activeMutations - 1,
                               !.activeNormals = arb[g].activeNormals \ {req[r].rev},
                               !.normals = RemoveFirst(arb[g].normals, r),
                               !.receipts = kept]
  BY Zenon DEF Released
<1>3. /\ Elsewhere(g)
      /\ arb'[g].admissions = arb[g].admissions /\ arb'[g].cancelTail = arb[g].cancelTail
      /\ arb'[g].normals = RemoveFirst(arb[g].normals, r)
      /\ arb'[g].activeMutations = arb[g].activeMutations - 1
      /\ arb'[g].activeNormals = arb[g].activeNormals \ {req[r].rev}
  <2>1. arb[g] \in Arbiter
    BY TypedAt
  <2>2. arb'[g] = Released(g, r) /\ Elsewhere(g)
    BY <1>1 DEF TypeInv, ArbOK, Elsewhere
  <2>3. QED
    BY <1>2, <2>1, <2>2 DEF Arbiter
<1>4. PICK a : req' = Resolved(req, r, a)
  BY Zenon DEF Finish
<1>5. Same(req[r], req'[r]) /\ req'[r].phase = "answered" /\ Others(r)
  BY <1>4, ResolvedEffect DEF TypeInv
<1>6. g \in alive /\ req[r].gen = g /\ req[r].phase = "running" /\ SameGenerations
  BY Zenon DEF Finish, SameGenerations
<1>7. revision' = revision
  BY DEF Finish, Ledger!CompleteMutation
<1>8. QED
  BY <1>3, <1>5, <1>6, <1>7

LEMMA PublishEffect ==
  ASSUME TypeInv, NEW g \in Gens,
         PublishAutonomous(g) \/ \E n \in 0..MaxPublished : PublishDurable(g, n)
  PROVE  /\ req' = req /\ SameGenerations /\ Elsewhere(g)
         /\ Lanes(arb[g], arb'[g]) /\ Counts(arb[g], arb'[g])
<1>1. arb' = [arb EXCEPT ![g] = [arb[g] EXCEPT !.clock = revision']]
  BY Zenon DEF PublishAutonomous, PublishDurable
<1>2. QED
  BY <1>1, TypedAt DEF TypeInv, ArbOK, Arbiter, Elsewhere, Lanes, Counts,
     PublishAutonomous, PublishDurable, SameGenerations

\* A new generation is empty; the calls of the others stay or are all lost.
LEMMA GenerationEffect ==
  ASSUME TypeInv, OwnedInv, Restart \/ Split \/ \E g \in Gens : Recreate(g)
  PROVE  /\ latest' = latest + 1 /\ latest + 1 \in Gens /\ latest + 1 \notin alive
         /\ \A r \in Requests : req[r].gen # latest + 1
         /\ arb'[latest + 1] = NewArbiter(revision) /\ Elsewhere(latest + 1)
         /\ alive' \subseteq alive \cup {latest + 1} /\ latest + 1 \in alive'
         /\ revision' = revision
         /\ \/ req' = req /\ alive \subseteq alive'
            \/ /\ alive' = {latest + 1}
               /\ \A r \in Requests : req'[r].gen = req[r].gen /\ ~Unsettled(r)'
                                      /\ (req'[r].phase = "new" => req[r].phase = "new")
<1>1. NewGeneration
  BY DEF Restart, Split, Recreate
<1>2. latest' = latest + 1 /\ latest + 1 \in Gens /\ latest + 1 \notin alive /\ latest \in Nat
  BY <1>1, ArbiterAssumption DEF TypeInv, GensOK, Gens, NewGeneration
<1>3. \A r \in Requests : req[r].gen # latest + 1
  BY <1>2 DEF OwnedInv
<1>4. arb'[latest + 1] = NewArbiter(revision) /\ Elsewhere(latest + 1)
  BY <1>1, <1>2 DEF NewGeneration, TypeInv, ArbOK, Elsewhere
<1>5. revision' = revision
  BY DEF Restart, Split, Recreate, Ledger!RecoverInDoubt
<1>6. CASE Split \/ \E g \in Gens : Recreate(g)
  BY <1>2, <1>3, <1>4, <1>5, <1>6 DEF Split, Recreate
<1>7. CASE Restart
  <2>1. ASSUME NEW r \in Requests
        PROVE  /\ req'[r].gen = req[r].gen /\ ~Unsettled(r)'
               /\ (req'[r].phase = "new" => req[r].phase = "new")
    <3>1. req[r] \in Request
      BY DEF TypeInv, ReqOK
    <3>2. /\ [req[r] EXCEPT !.phase = "lost"].gen = req[r].gen
          /\ [req[r] EXCEPT !.phase = "lost"].phase = "lost"
      BY <3>1 DEF Request
    <3>3. req'[r] = IF Unsettled(r) THEN [req[r] EXCEPT !.phase = "lost"] ELSE req[r]
      BY <1>7 DEF Restart
    <3>4. QED
      BY <3>2, <3>3 DEF Unsettled
  <2>2. alive' = {latest + 1}
    BY <1>7 DEF Restart
  <2>3. QED
    BY <1>2, <1>3, <1>4, <1>5, <2>1, <2>2
<1>8. QED
  BY <1>6, <1>7

(***************************************************************************)
(* Calls keep their owners.                                                *)
(***************************************************************************)
LEMMA LivingGeneration ==
  ASSUME TypeInv, NEW g \in alive
  PROVE  g \in Gens /\ g # 0
BY ArbiterAssumption DEF TypeInv, GensOK, Gens

LEMMA OwnedKept ==
  ASSUME OwnedInv, SameGenerations,
         \A x \in Requests :
            /\ req'[x].gen = req[x].gen
            /\ req'[x].phase = "new" => req[x].phase = "new"
            /\ Unsettled(x)' => Unsettled(x)
  PROVE  OwnedInv'
BY DEF OwnedInv, SameGenerations

\* The move of one unsettled call, and of the calls that had joined it.
LEMMA OwnedMove ==
  ASSUME OwnedInv, SameGenerations, NEW r \in Requests, Unsettled(r), Others(r),
         req'[r].gen = req[r].gen, req'[r].phase # "new"
  PROVE  OwnedInv'
<1>1. \A x \in Requests : /\ req'[x].gen = req[x].gen
                          /\ req'[x].phase = "new" => req[x].phase = "new"
                          /\ Unsettled(x)' => Unsettled(x)
  BY DEF Others, Stays, Same, Unsettled
<1>2. QED
  BY <1>1, OwnedKept

LEMMA OwnedCall ==
  ASSUME TypeInv, OwnedInv, SameGenerations, NEW g \in alive, NEW r \in Requests,
         req'[r].gen = g, req'[r].phase # "new",
         \A x \in Requests \ {r} : req'[x] = req[x]
  PROVE  OwnedInv'
<1>1. g \in 0..latest
  BY ArbiterAssumption DEF TypeInv, GensOK, Gens
<1>2. QED
  BY <1>1 DEF OwnedInv, SameGenerations, Unsettled

(***************************************************************************)
(* The admission lanes.                                                    *)
(***************************************************************************)
SameUndecided(x) ==
    /\ Unadmitted(x)' <=> Unadmitted(x)
    /\ Unadmitted(x) => req'[x].gen = req[x].gen /\ Lane(x)' = Lane(x)

LEMMA AdmissionKept ==
  ASSUME AdmissionInv, alive' = alive, \A x \in Requests : SameUndecided(x),
         \A g \in alive : /\ arb'[g].admissions = arb[g].admissions
                          /\ arb'[g].cancelTail = arb[g].cancelTail
  PROVE  AdmissionInv'
<1>1. ASSUME NEW g \in alive, NEW r \in Requests
      PROVE  Unadmitted(r)' /\ req'[r].gen = g <=> Unadmitted(r) /\ req[r].gen = g
  BY DEF SameUndecided
<1>2. ASSUME NEW g \in alive, NEW r \in Requests, Within(arb[g].admissions, r)
      PROVE  Lane(r)' = Lane(r)
  BY <1>2 DEF AdmissionInv, SameUndecided
<1>3. QED
  BY <1>1, <1>2 DEF AdmissionInv

LEMMA AdmissionPop ==
  ASSUME TypeInv, AdmissionInv, alive' = alive, NEW g \in Gens, NEW r \in Requests,
         AtAdmission(g, r), ~Unadmitted(r)',
         \A x \in Requests \ {r} : SameUndecided(x), Elsewhere(g),
         arb'[g].admissions = Tail(arb[g].admissions),
         arb'[g].cancelTail = arb[g].cancelTail
  PROVE  AdmissionInv'
<1> DEFINE adm == arb[g].admissions
<1>1. g \in alive /\ adm \in Seq(Requests) /\ adm # <<>> /\ Distinct(adm) /\ r = Head(adm)
  BY TypedAt DEF AtAdmission, AdmissionInv
<1>2. /\ Within(adm, r) /\ Distinct(Tail(adm))
      /\ \A x : Within(Tail(adm), x) <=> Within(adm, x) /\ x # r
      /\ \A c, t : Covers(adm, c, t) /\ c # r => Covers(Tail(adm), c, t)
  <2> HIDE DEF adm
  <2>1. QED
    BY <1>1, LaneTail
<1>3. req[r].gen = g
  BY <1>1, <1>2 DEF AdmissionInv
<1>4. /\ Distinct(arb'[g].admissions)
      /\ \A x \in Requests :
            /\ Within(arb'[g].admissions, x) <=> Unadmitted(x)' /\ req'[x].gen = g
            /\ Within(arb'[g].admissions, x) /\ Lane(x)' = "cancel"
                 => Covers(arb'[g].admissions, x, arb'[g].cancelTail)
  <2>1. arb'[g].admissions = Tail(adm) /\ arb'[g].cancelTail = arb[g].cancelTail
    OBVIOUS
  <2>2. \A x \in Requests : Within(adm, x) <=> Unadmitted(x) /\ req[x].gen = g
    BY <1>1 DEF AdmissionInv
  <2>3. \A x \in Requests : Within(adm, x) /\ Lane(x) = "cancel"
                              => Covers(adm, x, arb[g].cancelTail)
    BY <1>1 DEF AdmissionInv
  <2> HIDE DEF adm
  <2>4. ASSUME NEW x \in Requests
        PROVE  Within(Tail(adm), x) <=> Unadmitted(x)' /\ req'[x].gen = g
    BY <1>2, <2>2 DEF SameUndecided
  <2>5. ASSUME NEW x \in Requests, Within(Tail(adm), x), Lane(x)' = "cancel"
        PROVE  Covers(Tail(adm), x, arb[g].cancelTail)
    BY <1>2, <2>2, <2>3, <2>5 DEF SameUndecided
  <2>6. QED
    BY <1>2, <2>1, <2>4, <2>5
<1>5. ASSUME NEW h \in alive, h # g
      PROVE  /\ Distinct(arb'[h].admissions)
             /\ \A x \in Requests :
                  /\ Within(arb'[h].admissions, x) <=> Unadmitted(x)' /\ req'[x].gen = h
                  /\ Within(arb'[h].admissions, x) /\ Lane(x)' = "cancel"
                       => Covers(arb'[h].admissions, x, arb'[h].cancelTail)
  <2>1. arb'[h] = arb[h]
    BY <1>5, LivingGeneration DEF Elsewhere
  <2>2. ~Within(arb[h].admissions, r)
    BY <1>3, <1>5 DEF AdmissionInv
  <2>3. \A x \in Requests : Within(arb[h].admissions, x) <=> Unadmitted(x) /\ req[x].gen = h
    BY DEF AdmissionInv
  <2>4. ASSUME NEW x \in Requests
        PROVE  Within(arb[h].admissions, x) <=> Unadmitted(x)' /\ req'[x].gen = h
    BY <2>2, <2>3 DEF SameUndecided
  <2>5. ASSUME NEW x \in Requests, Within(arb[h].admissions, x) PROVE Lane(x)' = Lane(x)
    BY <2>2, <2>3, <2>5 DEF SameUndecided
  <2>6. QED
    BY <2>1, <2>4, <2>5 DEF AdmissionInv
<1>6. QED
  BY <1>4, <1>5 DEF AdmissionInv

LEMMA AdmissionAppend ==
  ASSUME TypeInv, OwnedInv, AdmissionInv, alive' = alive, NEW g \in alive, NEW r \in Requests,
         req[r].phase = "new", req'[r].phase = "queued", req'[r].gen = g,
         \A x \in Requests \ {r} : req'[x] = req[x], Elsewhere(g),
         arb'[g].admissions = Append(arb[g].admissions, r),
         arb'[g].cancelTail = IF Lane(r)' = "cancel" THEN r ELSE arb[g].cancelTail
  PROVE  AdmissionInv'
<1> DEFINE adm == arb[g].admissions
<1>1. adm \in Seq(Requests) /\ Distinct(adm) /\ ~Unadmitted(r) /\ Unadmitted(r)'
  BY TypedAt, LivingGeneration DEF AdmissionInv, Unadmitted
<1>2. ~Within(adm, r)
  BY <1>1 DEF AdmissionInv
<1>3. /\ Distinct(Append(adm, r))
      /\ \A x : Within(Append(adm, r), x) <=> Within(adm, x) \/ x = r
      /\ \A c, t : Covers(adm, c, t) => Covers(Append(adm, r), c, t)
      /\ \A c : Within(Append(adm, r), c) => Covers(Append(adm, r), c, r)
  <2> HIDE DEF adm
  <2>1. QED
    BY <1>1, <1>2, LaneAppend
<1>4. ASSUME NEW x \in Requests, x # r
      PROVE  Lane(x)' = Lane(x) /\ (Unadmitted(x)' <=> Unadmitted(x)) /\ req'[x].gen = req[x].gen
  BY <1>4 DEF Lane, Unadmitted
<1>5. /\ Distinct(arb'[g].admissions)
      /\ \A x \in Requests :
            /\ Within(arb'[g].admissions, x) <=> Unadmitted(x)' /\ req'[x].gen = g
            /\ Within(arb'[g].admissions, x) /\ Lane(x)' = "cancel"
                 => Covers(arb'[g].admissions, x, arb'[g].cancelTail)
  <2>1. arb'[g].admissions = Append(adm, r)
    OBVIOUS
  <2>2. \A x \in Requests : Within(adm, x) <=> Unadmitted(x) /\ req[x].gen = g
    BY DEF AdmissionInv
  <2>3. \A x \in Requests : Within(adm, x) /\ Lane(x) = "cancel"
                              => Covers(adm, x, arb[g].cancelTail)
    BY DEF AdmissionInv
  <2> HIDE DEF adm
  <2>4. ASSUME NEW x \in Requests
        PROVE  Within(Append(adm, r), x) <=> Unadmitted(x)' /\ req'[x].gen = g
    BY <1>1, <1>3, <1>4, <2>2
  <2>5. ASSUME NEW x \in Requests, Within(Append(adm, r), x), Lane(x)' = "cancel"
        PROVE  Covers(Append(adm, r), x, arb'[g].cancelTail)
    BY <1>3, <1>4, <2>3, <2>5
  <2>6. QED
    BY <1>3, <2>1, <2>4, <2>5
<1>6. ASSUME NEW h \in alive, h # g
      PROVE  /\ Distinct(arb'[h].admissions)
             /\ \A x \in Requests :
                  /\ Within(arb'[h].admissions, x) <=> Unadmitted(x)' /\ req'[x].gen = h
                  /\ Within(arb'[h].admissions, x) /\ Lane(x)' = "cancel"
                       => Covers(arb'[h].admissions, x, arb'[h].cancelTail)
  <2>1. arb'[h] = arb[h]
    BY <1>6, LivingGeneration DEF Elsewhere
  <2>2. ~Within(arb[h].admissions, r)
    BY <1>1 DEF AdmissionInv
  <2>3. \A x \in Requests : Within(arb[h].admissions, x) <=> Unadmitted(x) /\ req[x].gen = h
    BY DEF AdmissionInv
  <2>4. ASSUME NEW x \in Requests
        PROVE  Within(arb[h].admissions, x) <=> Unadmitted(x)' /\ req'[x].gen = h
    BY <1>4, <1>6, <2>2, <2>3
  <2>5. ASSUME NEW x \in Requests, Within(arb[h].admissions, x) PROVE Lane(x)' = Lane(x)
    BY <1>4, <2>2, <2>5
  <2>6. QED
    BY <2>1, <2>4, <2>5 DEF AdmissionInv
<1>7. QED
  BY <1>5, <1>6 DEF AdmissionInv

(***************************************************************************)
(* The normal lanes.                                                       *)
(***************************************************************************)
SameTurn(x) ==
    /\ Turn(x)' <=> Turn(x)
    /\ Turn(x) => req'[x].gen = req[x].gen
    /\ Turn(x)' /\ req'[x].phase \in {"armed", "running"}
         => req[x].phase \in {"armed", "running"}

LEMMA TurnKept ==
  ASSUME TurnInv, alive' = alive, \A x \in Requests : SameTurn(x),
         \A g \in alive : arb'[g].normals = arb[g].normals
  PROVE  TurnInv'
<1>1. ASSUME NEW g \in alive, NEW r \in Requests
      PROVE  Turn(r)' /\ req'[r].gen = g <=> Turn(r) /\ req[r].gen = g
  BY DEF SameTurn
<1>2. ASSUME NEW g \in alive, NEW r \in Requests,
             Turn(r)', req'[r].phase \in {"armed", "running"}, req'[r].gen = g
      PROVE  arb[g].normals # <<>> /\ r = Head(arb[g].normals)
  BY <1>1, <1>2 DEF TurnInv, SameTurn
<1>3. QED
  BY <1>1, <1>2 DEF TurnInv

\* The head of a lane arms or starts.
LEMMA TurnAtHead ==
  ASSUME TurnInv, alive' = alive, arb' = arb, NEW g \in Gens, NEW r \in Requests,
         AtNormalHead(g, r), req'[r].gen = g, Turn(r) <=> Turn(r)',
         req[r].gen = g, \A x \in Requests \ {r} : SameTurn(x)
  PROVE  TurnInv'
<1>1. ASSUME NEW h \in alive, NEW x \in Requests
      PROVE  Turn(x)' /\ req'[x].gen = h <=> Turn(x) /\ req[x].gen = h
  BY DEF SameTurn
<1>2. ASSUME NEW h \in alive, NEW x \in Requests,
             Turn(x)', req'[x].phase \in {"armed", "running"}, req'[x].gen = h
      PROVE  arb[h].normals # <<>> /\ x = Head(arb[h].normals)
  <2>1. CASE x = r
    BY <1>2, <2>1 DEF AtNormalHead
  <2>2. CASE x # r
    BY <1>1, <1>2, <2>2 DEF TurnInv, SameTurn
  <2>3. QED
    BY <2>1, <2>2
<1>3. QED
  BY <1>1, <1>2 DEF TurnInv

LEMMA TurnPop ==
  ASSUME TypeInv, TurnInv, alive' = alive, NEW g \in alive, NEW r \in Requests,
         arb[g].normals # <<>>, r = Head(arb[g].normals), ~Turn(r)',
         \A x \in Requests \ {r} : SameTurn(x), Elsewhere(g),
         arb'[g].normals = Tail(arb[g].normals)
  PROVE  TurnInv'
<1> DEFINE turns == arb[g].normals
<1>1. turns \in Seq(Requests) /\ Distinct(turns)
  BY TypedAt, LivingGeneration DEF TurnInv
<1>2. /\ Within(turns, r) /\ Distinct(Tail(turns))
      /\ \A x : Within(Tail(turns), x) <=> Within(turns, x) /\ x # r
  <2>1. turns # <<>> /\ r = Head(turns)
    OBVIOUS
  <2> HIDE DEF turns
  <2>2. QED
    BY <1>1, <2>1, LaneTail
<1>3. Turn(r) /\ req[r].gen = g
  BY <1>2 DEF TurnInv
<1>4. /\ Distinct(arb'[g].normals)
      /\ \A x \in Requests :
            /\ Within(arb'[g].normals, x) <=> Turn(x)' /\ req'[x].gen = g
            /\ ~(Turn(x)' /\ req'[x].phase \in {"armed", "running"} /\ req'[x].gen = g)
  <2>1. arb'[g].normals = Tail(turns)
    OBVIOUS
  <2>2. \A x \in Requests : Within(turns, x) <=> Turn(x) /\ req[x].gen = g
    BY DEF TurnInv
  <2>3. \A x \in Requests : Turn(x) /\ req[x].phase \in {"armed", "running"} /\ req[x].gen = g
                              => x = r
    BY DEF TurnInv
  <2> HIDE DEF turns
  <2>4. ASSUME NEW x \in Requests
        PROVE  Within(Tail(turns), x) <=> Turn(x)' /\ req'[x].gen = g
    BY <1>2, <2>2 DEF SameTurn
  <2>5. ASSUME NEW x \in Requests, Turn(x)', req'[x].phase \in {"armed", "running"},
               req'[x].gen = g
        PROVE  FALSE
    BY <2>3, <2>5 DEF SameTurn
  <2>6. QED
    BY <1>2, <2>1, <2>4, <2>5
<1>5. ASSUME NEW h \in alive, h # g
      PROVE  /\ Distinct(arb'[h].normals)
             /\ \A x \in Requests :
                  /\ Within(arb'[h].normals, x) <=> Turn(x)' /\ req'[x].gen = h
                  /\ Turn(x)' /\ req'[x].phase \in {"armed", "running"} /\ req'[x].gen = h
                       => arb'[h].normals # <<>> /\ x = Head(arb'[h].normals)
  <2>1. arb'[h] = arb[h]
    BY <1>5, LivingGeneration DEF Elsewhere
  <2>2. ASSUME NEW x \in Requests
        PROVE  Turn(x)' /\ req'[x].gen = h <=> Turn(x) /\ req[x].gen = h
    BY <1>3, <1>5 DEF SameTurn
  <2>3. ASSUME NEW x \in Requests, Turn(x)', req'[x].phase \in {"armed", "running"},
               req'[x].gen = h
        PROVE  req[x].phase \in {"armed", "running"}
    BY <1>3, <1>5, <2>3 DEF SameTurn
  <2>4. QED
    BY <2>1, <2>2, <2>3 DEF TurnInv
<1>6. QED
  BY <1>4, <1>5 DEF TurnInv

LEMMA TurnAppend ==
  ASSUME TypeInv, TurnInv, alive' = alive, NEW g \in alive, NEW r \in Requests,
         ~Turn(r), Turn(r)', req'[r].phase = "queued", req'[r].gen = g,
         \A x \in Requests \ {r} : SameTurn(x), Elsewhere(g),
         arb'[g].normals = Append(arb[g].normals, r)
  PROVE  TurnInv'
<1> DEFINE turns == arb[g].normals
<1>1. turns \in Seq(Requests) /\ Distinct(turns)
  BY TypedAt, LivingGeneration DEF TurnInv
<1>2. ~Within(turns, r)
  BY DEF TurnInv
<1>3. /\ Distinct(Append(turns, r))
      /\ \A x : Within(Append(turns, r), x) <=> Within(turns, x) \/ x = r
      /\ Append(turns, r) # <<>>
      /\ turns # <<>> => Head(Append(turns, r)) = Head(turns)
  <2> HIDE DEF turns
  <2>1. /\ Distinct(Append(turns, r))
        /\ \A x : Within(Append(turns, r), x) <=> Within(turns, x) \/ x = r
    BY <1>1, <1>2, LaneAppend
  <2>2. /\ Append(turns, r) # <<>>
        /\ turns # <<>> => Head(Append(turns, r)) = Head(turns)
    BY <1>1, HeadTailAppend, AppendProperties
  <2>3. QED
    BY <2>1, <2>2
<1>4. ASSUME NEW x \in Requests
      PROVE  /\ Within(arb'[g].normals, x) <=> Turn(x)' /\ req'[x].gen = g
             /\ Turn(x)' /\ req'[x].phase \in {"armed", "running"} /\ req'[x].gen = g
                  => arb'[g].normals # <<>> /\ x = Head(arb'[g].normals)
  <2>1. arb'[g].normals = Append(turns, r)
    OBVIOUS
  <2>2. Within(turns, x) <=> Turn(x) /\ req[x].gen = g
    BY DEF TurnInv
  <2>3. Turn(x) /\ req[x].phase \in {"armed", "running"} /\ req[x].gen = g
           => turns # <<>> /\ x = Head(turns)
    BY DEF TurnInv
  <2> HIDE DEF turns
  <2>4. CASE x = r
    BY <1>3, <2>1, <2>4
  <2>5. CASE x # r
    BY <1>3, <2>1, <2>2, <2>3, <2>5 DEF SameTurn
  <2>6. QED
    BY <2>4, <2>5
<1>5. ASSUME NEW h \in alive, h # g
      PROVE  /\ Distinct(arb'[h].normals)
             /\ \A x \in Requests :
                  /\ Within(arb'[h].normals, x) <=> Turn(x)' /\ req'[x].gen = h
                  /\ Turn(x)' /\ req'[x].phase \in {"armed", "running"} /\ req'[x].gen = h
                       => arb'[h].normals # <<>> /\ x = Head(arb'[h].normals)
  <2>1. arb'[h] = arb[h]
    BY <1>5, LivingGeneration DEF Elsewhere
  <2>2. ASSUME NEW x \in Requests
        PROVE  Turn(x)' /\ req'[x].gen = h <=> Turn(x) /\ req[x].gen = h
    BY <1>5 DEF SameTurn
  <2>3. ASSUME NEW x \in Requests, Turn(x)', req'[x].phase \in {"armed", "running"},
               req'[x].gen = h
        PROVE  req[x].phase \in {"armed", "running"}
    BY <1>5, <2>3 DEF SameTurn
  <2>4. QED
    BY <2>1, <2>2, <2>3 DEF TurnInv
<1>6. Distinct(arb'[g].normals)
  BY <1>3
<1>7. QED
  BY <1>4, <1>5, <1>6 DEF TurnInv

(***************************************************************************)
(* The cancels ahead of a turn.                                            *)
(***************************************************************************)
\* r's own part of the invariant
Beside(r, c) ==
    /\ req[c].gen = req[r].gen
    /\ Lane(c) = "cancel"
    /\ req[r].phase = "armed" /\ Unadmitted(c)
          => Covers(arb[req[r].gen].admissions, c, req[r].barrier)
    /\ req[r].phase = "running" => ~Unadmitted(c)

\* Nobody becomes undecided again, calls keep what they are, and no undecided call
\* loses its place before another.
Decided ==
    /\ \A x \in Requests : req[x].phase # "new" =>
          /\ req'[x].gen = req[x].gen /\ Lane(x)' = Lane(x)
          /\ Unadmitted(x)' => Unadmitted(x)
    /\ \A g \in alive, c \in Requests : \A t :
          Covers(arb[g].admissions, c, t) /\ Unadmitted(c)' => Covers(arb'[g].admissions, c, t)

\* A call in a turn before and after, with the same barrier.
SameWait(r) ==
    /\ Turn(r) /\ Active(r)
    /\ req'[r].gen = req[r].gen /\ req'[r].ahead = req[r].ahead
    /\ req'[r].barrier = req[r].barrier /\ req'[r].phase = req[r].phase

LEMMA ActiveOwned ==
  ASSUME TypeInv, OwnedInv, NEW r \in Requests, Active(r)
  PROVE  req[r].gen \in alive /\ req[r].gen \in Gens
BY LivingGeneration DEF OwnedInv, Active, Unsettled

LEMMA AheadType ==
  ASSUME TypeInv, NEW r \in Requests, NEW c \in req[r].ahead
  PROVE  c \in Requests
<1>1. req[r] \in Request
  BY DEF TypeInv, ReqOK
<1>2. QED
  BY <1>1 DEF Request

LEMMA BesideKept ==
  ASSUME TypeInv, OwnedInv, BarrierInv, Decided, NEW r \in Requests, SameWait(r),
         NEW c \in Requests, c \in req[r].ahead
  PROVE  Beside(r, c)'
<1>1. Beside(r, c)
  BY DEF BarrierInv, SameWait, Beside
<1>2. req[r].gen \in alive /\ req[r].gen # 0
  BY ActiveOwned, LivingGeneration DEF SameWait
<1>3. req[c].phase # "new"
  BY <1>1, <1>2 DEF Beside, OwnedInv
<1>4. req'[c].gen = req[c].gen /\ Lane(c)' = Lane(c) /\ (Unadmitted(c)' => Unadmitted(c))
  BY <1>3 DEF Decided
<1>5. ASSUME req'[r].phase = "armed", Unadmitted(c)'
      PROVE  Covers(arb'[req'[r].gen].admissions, c, req'[r].barrier)
  <2>1. Covers(arb[req[r].gen].admissions, c, req[r].barrier)
    BY <1>1, <1>4, <1>5 DEF Beside, SameWait
  <2>2. Covers(arb'[req[r].gen].admissions, c, req[r].barrier)
    BY <1>2, <1>5, <2>1 DEF Decided
  <2>3. QED
    BY <2>2 DEF SameWait
<1>6. req'[r].phase = "running" => ~Unadmitted(c)'
  BY <1>1, <1>4 DEF Beside, SameWait
<1>7. req'[c].gen = req'[r].gen /\ Lane(c)' = "cancel"
  BY <1>1, <1>4 DEF Beside, SameWait
<1>8. QED
  BY <1>5, <1>6, <1>7 DEF Beside

\* Every turn either waits as before or has its part proved anew.
LEMMA BarrierStep ==
  ASSUME TypeInv, OwnedInv, BarrierInv, Decided,
         \A r \in Requests : Turn(r)' /\ Active(r)' =>
            SameWait(r) \/ \A c \in Requests : c \in req'[r].ahead => Beside(r, c)'
  PROVE  BarrierInv'
<1> SUFFICES ASSUME NEW r \in Requests, NEW c \in Requests,
                    Turn(r)', Active(r)', c \in req'[r].ahead
             PROVE  Beside(r, c)'
  BY Zenon DEF BarrierInv, Beside
<1>1. CASE SameWait(r)
  BY <1>1, BesideKept DEF SameWait
<1>2. QED
  BY <1>1

LEMMA LanesDecided ==
  ASSUME TypeInv, NEW g \in Gens, Elsewhere(g),
         \A x \in Requests : req[x].phase # "new" =>
            /\ req'[x].gen = req[x].gen /\ Lane(x)' = Lane(x)
            /\ Unadmitted(x)' => Unadmitted(x),
         \A c \in Requests : \A t :
            Covers(arb[g].admissions, c, t) /\ Unadmitted(c)'
               => Covers(arb'[g].admissions, c, t)
  PROVE  Decided
<1>1. ASSUME NEW h \in alive, NEW c \in Requests, NEW t,
             Covers(arb[h].admissions, c, t), Unadmitted(c)'
      PROVE  Covers(arb'[h].admissions, c, t)
  <2>1. h \in Gens
    BY LivingGeneration
  <2>2. QED
    BY <1>1, <2>1 DEF Elsewhere
<1>2. QED
  BY <1>1 DEF Decided

\* What a bystander keeps, in the terms of the invariants above.
LEMMA BystanderKeeps ==
  ASSUME NEW x, Stays(req[x], req'[x])
  PROVE  /\ SameUndecided(x) /\ SameTurn(x) /\ Lane(x)' = Lane(x)
         /\ Active(x)' <=> Active(x)
         /\ Turn(x)' /\ Active(x)' => SameWait(x)
<1>1. Lane(x)' = Lane(x)
  BY LaneKept DEF Stays
<1>2. SameUndecided(x)
  BY <1>1 DEF SameUndecided, Unadmitted, Stays, Same
<1>3. Turn(x)' <=> Turn(x)
  BY <1>1 DEF Turn, Normal, Stays
<1>4. Active(x)' <=> Active(x)
  BY DEF Active, Stays
<1>5. Turn(x)' /\ Active(x)' => SameWait(x)
  BY <1>3, <1>4 DEF SameWait, Stays, Same, Active
<1>6. SameTurn(x)
  BY <1>3 DEF SameTurn, Stays, Same
<1>7. QED
  BY <1>1, <1>2, <1>3, <1>4, <1>5, <1>6

(***************************************************************************)
(* Each action keeps the lanes.                                            *)
(***************************************************************************)
LEMMA EnqueueLanes ==
  ASSUME TypeInv, LaneInv, NEW g \in Gens, NEW r \in Requests, NEW k, NEW op, NEW e, NEW busy,
         Enqueue(g, r, k, op, e, busy)
  PROVE  LaneInv'
<1>1. /\ req[r].phase = "new" /\ g \in alive
      /\ req'[r].phase = "queued" /\ req'[r].gen = g
      /\ \A x \in Requests \ {r} : req'[x] = req[x]
      /\ Elsewhere(g) /\ SameGenerations
      /\ arb'[g].admissions = Append(arb[g].admissions, r)
      /\ arb'[g].normals = (IF Normal(r)' THEN Append(arb[g].normals, r) ELSE arb[g].normals)
      /\ arb'[g].cancelTail = (IF Lane(r)' = "cancel" THEN r ELSE arb[g].cancelTail)
  BY EnqueueEffect
<1>2. alive' = alive
  BY <1>1 DEF SameGenerations
<1>3. ASSUME NEW x \in Requests \ {r}
      PROVE  /\ SameUndecided(x) /\ SameTurn(x) /\ Lane(x)' = Lane(x)
             /\ Turn(x)' /\ Active(x)' => SameWait(x)
  <2>1. Stays(req[x], req'[x])
    BY <1>1, StaysPut
  <2>2. QED
    BY <2>1, BystanderKeeps
<1>4. OwnedInv'
  BY <1>1, OwnedCall DEF LaneInv
<1>5. AdmissionInv'
  BY <1>1, <1>2, AdmissionAppend DEF LaneInv
<1>6. ~Turn(r) /\ ~Active(r) /\ ~Active(r)' /\ (Turn(r)' <=> Normal(r)')
  BY <1>1 DEF Turn, Active
<1>7. TurnInv'
  <2>1. CASE Normal(r)'
    BY <1>1, <1>2, <1>3, <1>6, <2>1, TurnAppend DEF LaneInv
  <2>2. CASE ~Normal(r)'
    <3>1. \A x \in Requests : SameTurn(x)
      BY <1>3, <1>6, <2>2 DEF SameTurn
    <3>2. \A h \in alive : arb'[h].normals = arb[h].normals
      BY <1>1, <2>2, LivingGeneration DEF Elsewhere
    <3>3. QED
      BY <1>2, <3>1, <3>2, TurnKept DEF LaneInv
  <2>3. QED
    BY <2>1, <2>2
<1>8. BarrierInv'
  <2>1. \A c, t : Covers(arb[g].admissions, c, t) => Covers(arb'[g].admissions, c, t)
    BY <1>1, TypedAt, LaneAppend
  <2>2. \A x \in Requests : req[x].phase # "new" =>
            /\ req'[x].gen = req[x].gen /\ Lane(x)' = Lane(x)
            /\ Unadmitted(x)' => Unadmitted(x)
    BY <1>1, <1>3 DEF SameUndecided
  <2>3. Decided
    BY <1>1, <2>1, <2>2, LanesDecided
  <2>4. \A x \in Requests : Turn(x)' /\ Active(x)' => SameWait(x)
    BY <1>3, <1>6
  <2>5. QED
    BY <2>3, <2>4, BarrierStep DEF LaneInv
<1>9. QED
  BY <1>4, <1>5, <1>7, <1>8 DEF LaneInv

\* A step that leaves every lane of every arbiter alone and moves r, if at all,
\* between phases that are in no turn or in the same place of it.
LEMMA QuietLanes ==
  ASSUME TypeInv, LaneInv, OwnedInv', alive' = alive, NEW r \in Requests,
         \A g \in alive : Lanes(arb[g], arb'[g]),
         \A x \in Requests \ {r} : Stays(req[x], req'[x]),
         SameUndecided(r), SameTurn(r),
         req[r].phase # "new" => req'[r].gen = req[r].gen /\ Lane(r)' = Lane(r),
         Turn(r)' /\ Active(r)' => SameWait(r)
  PROVE  LaneInv'
<1>1. ASSUME NEW x \in Requests
      PROVE  /\ SameUndecided(x) /\ SameTurn(x)
             /\ Turn(x)' /\ Active(x)' => SameWait(x)
             /\ req[x].phase # "new" => req'[x].gen = req[x].gen /\ Lane(x)' = Lane(x)
  <2>1. CASE x = r
    BY <2>1
  <2>2. CASE x # r
    BY <2>2, BystanderKeeps DEF Stays, Same
  <2>3. QED
    BY <2>1, <2>2
<1>2. AdmissionInv' /\ TurnInv'
  BY <1>1, AdmissionKept, TurnKept DEF LaneInv, Lanes
<1>3. Decided
  BY <1>1 DEF Decided, Lanes, SameUndecided
<1>4. BarrierInv'
  BY <1>1, <1>3, BarrierStep DEF LaneInv
<1>5. QED
  BY <1>2, <1>4 DEF LaneInv

LEMMA JoinLanes ==
  ASSUME TypeInv, LaneInv, NEW g \in Gens, NEW r \in Requests, NEW k, NEW op, NEW e, NEW busy,
         Join(g, r, k, op, e, busy)
  PROVE  LaneInv'
<1>1. /\ req[r].phase = "new" /\ g \in alive
      /\ req'[r].phase \in {"joined", "answered"} /\ req'[r].gen = g
      /\ \A x \in Requests \ {r} : req'[x] = req[x]
      /\ arb' = arb /\ SameGenerations
  BY JoinEffect
<1>2. OwnedInv'
  BY <1>1, OwnedCall DEF LaneInv
<1>3. SameUndecided(r) /\ SameTurn(r) /\ ~Turn(r)'
  BY <1>1 DEF SameUndecided, SameTurn, Unadmitted, Turn
<1>4. \A x \in Requests \ {r} : Stays(req[x], req'[x])
  BY <1>1, StaysPut
<1>5. alive' = alive /\ \A h \in alive : Lanes(arb[h], arb'[h])
  BY <1>1 DEF SameGenerations, Lanes
<1>6. QED
  BY <1>1, <1>2, <1>3, <1>4, <1>5, QuietLanes

LEMMA AwaitLanes ==
  ASSUME TypeInv, LaneInv, NEW g \in Gens, NEW r \in Requests, AwaitPrecondition(g, r)
  PROVE  LaneInv'
<1>1. /\ Unadmitted(r) /\ Same(req[r], req'[r]) /\ req'[r].phase = "checked" /\ Others(r)
      /\ arb' = arb /\ SameGenerations
  BY AwaitEffect
<1>2. OwnedInv'
  BY <1>1, OwnedMove DEF LaneInv, Unadmitted, Unsettled, Same
<1>3. Lane(r)' = Lane(r)
  BY <1>1, LaneKept
<1>4. SameUndecided(r) /\ SameTurn(r) /\ ~Active(r)'
  BY <1>1, <1>3 DEF SameUndecided, SameTurn, Unadmitted, Turn, Normal, Same, Active
<1>5. alive' = alive /\ \A h \in alive : Lanes(arb[h], arb'[h])
  BY <1>1 DEF SameGenerations, Lanes
<1>6. QED
  BY <1>1, <1>2, <1>3, <1>4, <1>5, QuietLanes DEF Others, Same

LEMMA EndRefusedLanes ==
  ASSUME TypeInv, LaneInv, NEW g \in Gens, NEW r \in Requests, NEW a, NEW clock,
         AtAdmission(g, r), EndRefused(g, r, a, clock)
  PROVE  LaneInv'
<1>1. /\ Same(req[r], req'[r]) /\ Others(r)
      /\ req'[r].phase = (IF Normal(r) THEN "refused" ELSE "answered")
      /\ Elsewhere(g) /\ SameGenerations
      /\ arb'[g].admissions = Tail(arb[g].admissions)
      /\ arb'[g].normals = arb[g].normals /\ arb'[g].cancelTail = arb[g].cancelTail
  BY EndRefusedEffect
<1>2. alive' = alive /\ g \in alive /\ Lane(r)' = Lane(r)
  BY <1>1, LaneKept DEF SameGenerations, AtAdmission
<1>3. /\ Unadmitted(r)
      /\ \A c, t : Covers(arb[g].admissions, c, t) /\ c # r => Covers(Tail(arb[g].admissions), c, t)
  <2>1. /\ arb[g].admissions \in Seq(Requests) /\ arb[g].admissions # <<>>
        /\ Distinct(arb[g].admissions) /\ r = Head(arb[g].admissions)
    BY <1>2, TypedAt DEF AtAdmission, LaneInv, AdmissionInv
  <2>2. Within(arb[g].admissions, r)
    BY <2>1, LaneTail
  <2>3. QED
    BY <1>2, <2>1, <2>2, LaneTail DEF LaneInv, AdmissionInv
<1>4. OwnedInv'
  BY <1>1, <1>3, OwnedMove DEF LaneInv, Unadmitted, Unsettled, Same
<1>5. ~Unadmitted(r)' /\ ~Active(r)' /\ SameTurn(r)
  BY <1>1, <1>2, <1>3 DEF Unadmitted, Active, SameTurn, Turn, Normal, Same
<1>6. ASSUME NEW x \in Requests \ {r}
      PROVE  /\ SameUndecided(x) /\ SameTurn(x) /\ Lane(x)' = Lane(x)
             /\ Turn(x)' /\ Active(x)' => SameWait(x)
             /\ req'[x].gen = req[x].gen
  BY <1>1, BystanderKeeps DEF Others, Stays, Same
<1>7. AdmissionInv'
  BY <1>1, <1>2, <1>5, <1>6, AdmissionPop DEF LaneInv
<1>8. TurnInv'
  <2>1. \A h \in alive : arb'[h].normals = arb[h].normals
    BY <1>1, LivingGeneration DEF Elsewhere
  <2>2. QED
    BY <1>2, <1>5, <1>6, <2>1, TurnKept DEF LaneInv
<1>9. BarrierInv'
  <2>1. Decided
    <3>1. \A x \in Requests : req[x].phase # "new" =>
              /\ req'[x].gen = req[x].gen /\ Lane(x)' = Lane(x)
              /\ Unadmitted(x)' => Unadmitted(x)
      BY <1>1, <1>2, <1>3, <1>6 DEF SameUndecided, Same
    <3>2. \A c \in Requests : \A t : Covers(arb[g].admissions, c, t) /\ Unadmitted(c)'
                                   => Covers(arb'[g].admissions, c, t)
      BY <1>1, <1>3, <1>5
    <3>3. QED
      BY <1>1, <3>1, <3>2, LanesDecided
  <2>2. \A x \in Requests : Turn(x)' /\ Active(x)' => SameWait(x)
    BY <1>5, <1>6
  <2>3. QED
    BY <2>1, <2>2, BarrierStep DEF LaneInv
<1>10. QED
  BY <1>4, <1>7, <1>8, <1>9 DEF LaneInv

LEMMA AdmitLanes ==
  ASSUME TypeInv, LaneInv, NEW g \in Gens, NEW r \in Requests, Admit(g, r)
  PROVE  LaneInv'
<1>1. /\ AtAdmission(g, r) /\ Unadmitted(r)
      /\ \A x \in Requests \ {r} : req'[x] = req[x]
      /\ req'[r].gen = req[r].gen /\ req'[r].op = req[r].op /\ req'[r].busy = req[r].busy
      /\ req'[r].phase = (IF Normal(r) THEN "admitted" ELSE "running")
      /\ req'[r].ahead = {c \in ToSet(Tail(arb[g].admissions)) : Lane(c) = "cancel"}
      /\ Elsewhere(g) /\ SameGenerations
      /\ arb'[g].admissions = Tail(arb[g].admissions)
      /\ arb'[g].normals = arb[g].normals /\ arb'[g].cancelTail = arb[g].cancelTail
  BY AdmitEffect
<1>2. alive' = alive /\ g \in alive /\ Lane(r)' = Lane(r)
  BY <1>1 DEF SameGenerations, AtAdmission, Lane
<1>3. /\ arb[g].admissions \in Seq(Requests) /\ arb[g].admissions # <<>>
      /\ Distinct(arb[g].admissions) /\ r = Head(arb[g].admissions)
      /\ Within(arb[g].admissions, r)
      /\ \A c : Within(Tail(arb[g].admissions), c) <=> Within(arb[g].admissions, c) /\ c # r
      /\ \A c, t : Covers(arb[g].admissions, c, t) /\ c # r => Covers(Tail(arb[g].admissions), c, t)
  <2>1. /\ arb[g].admissions \in Seq(Requests) /\ arb[g].admissions # <<>>
        /\ Distinct(arb[g].admissions) /\ r = Head(arb[g].admissions)
    BY <1>1, <1>2, TypedAt DEF AtAdmission, LaneInv, AdmissionInv
  <2>2. QED
    BY <2>1, LaneTail
<1>4. req[r].gen = g
  BY <1>2, <1>3 DEF LaneInv, AdmissionInv
<1>5. ASSUME NEW x \in Requests \ {r}
      PROVE  /\ SameUndecided(x) /\ SameTurn(x) /\ Lane(x)' = Lane(x)
             /\ Turn(x)' /\ Active(x)' => SameWait(x)
             /\ req'[x].gen = req[x].gen
  <2>1. Stays(req[x], req'[x])
    BY <1>1, StaysPut
  <2>2. QED
    BY <1>1, <2>1, BystanderKeeps
<1>6. OwnedInv'
  <2>1. Others(r)
    BY <1>1, StaysPut DEF Others
  <2>2. Unsettled(r) /\ req'[r].phase # "new"
    BY <1>1 DEF Unadmitted, Unsettled
  <2>3. QED
    BY <1>1, <2>1, <2>2, OwnedMove DEF LaneInv
<1>7. ~Unadmitted(r)' /\ SameTurn(r)
  BY <1>1, <1>2 DEF Unadmitted, SameTurn, Turn, Normal
<1>8. AdmissionInv'
  BY <1>1, <1>2, <1>5, <1>7, AdmissionPop DEF LaneInv
<1>9. TurnInv'
  <2>1. \A h \in alive : arb'[h].normals = arb[h].normals
    BY <1>1, LivingGeneration DEF Elsewhere
  <2>2. QED
    BY <1>2, <1>5, <1>7, <2>1, TurnKept DEF LaneInv
<1>10. BarrierInv'
  <2>1. Decided
    <3>1. \A x \in Requests : req[x].phase # "new" =>
              /\ req'[x].gen = req[x].gen /\ Lane(x)' = Lane(x)
              /\ Unadmitted(x)' => Unadmitted(x)
      BY <1>1, <1>2, <1>5 DEF SameUndecided
    <3>2. \A c \in Requests : \A t : Covers(arb[g].admissions, c, t) /\ Unadmitted(c)'
                                       => Covers(arb'[g].admissions, c, t)
      BY <1>1, <1>3, <1>7
    <3>3. QED
      BY <1>1, <3>1, <3>2, LanesDecided
  <2>2. ASSUME NEW c \in Requests, Turn(r)', c \in req'[r].ahead PROVE Beside(r, c)'
    <3>1. req'[r].phase = "admitted"
      BY <1>1, <1>2, <2>2 DEF Turn, Normal
    <3>2. c \in ToSet(Tail(arb[g].admissions)) /\ Lane(c) = "cancel"
      BY <1>1, <2>2
    <3>3. Within(Tail(arb[g].admissions), c)
      BY <3>2 DEF ToSet, Within
    <3>4. c # r /\ req[c].gen = g
      BY <1>2, <1>3, <3>3 DEF LaneInv, AdmissionInv
    <3>5. req'[c].gen = req'[r].gen /\ Lane(c)' = "cancel"
      BY <1>1, <1>4, <1>5, <3>2, <3>4
    <3>6. QED
      BY <3>1, <3>5 DEF Beside
  <2>3. \A x \in Requests : Turn(x)' /\ Active(x)' =>
            SameWait(x) \/ \A c \in Requests : c \in req'[x].ahead => Beside(x, c)'
    BY <1>5, <2>2
  <2>4. QED
    BY <2>1, <2>3, BarrierStep DEF LaneInv
<1>11. QED
  BY <1>6, <1>8, <1>9, <1>10 DEF LaneInv

LEMMA NormalHead ==
  ASSUME TypeInv, LaneInv, NEW g \in Gens, NEW r \in Requests, AtNormalHead(g, r)
  PROVE  g \in alive /\ Turn(r) /\ Normal(r) /\ req[r].gen = g
<1>1. g \in alive /\ arb[g].normals \in Seq(Requests) /\ arb[g].normals # <<>>
      /\ Distinct(arb[g].normals) /\ r = Head(arb[g].normals)
  BY TypedAt DEF AtNormalHead, LaneInv, TurnInv
<1>2. Within(arb[g].normals, r)
  BY <1>1, LaneTail
<1>3. QED
  BY <1>1, <1>2 DEF LaneInv, TurnInv, Turn

LEMMA SettleRefusedLanes ==
  ASSUME TypeInv, LaneInv, NEW g \in Gens, NEW r \in Requests, SettleRefused(g, r)
  PROVE  LaneInv'
<1>1. /\ AtNormalHead(g, r) /\ req[r].phase = "refused"
      /\ Same(req[r], req'[r]) /\ req'[r].phase = "answered" /\ Others(r)
      /\ Elsewhere(g) /\ SameGenerations
      /\ arb'[g].admissions = arb[g].admissions
      /\ arb'[g].normals = Tail(arb[g].normals) /\ arb'[g].cancelTail = arb[g].cancelTail
  BY SettleRefusedEffect
<1>2. alive' = alive /\ g \in alive /\ Lane(r)' = Lane(r)
  BY <1>1, LaneKept, NormalHead DEF SameGenerations
<1>3. OwnedInv'
  BY <1>1, OwnedMove DEF LaneInv, Unsettled, Same
<1>4. ASSUME NEW x \in Requests \ {r}
      PROVE  /\ SameUndecided(x) /\ SameTurn(x) /\ Lane(x)' = Lane(x)
             /\ Turn(x)' /\ Active(x)' => SameWait(x)
             /\ req'[x].gen = req[x].gen
  BY <1>1, BystanderKeeps DEF Others, Stays, Same
<1>5. SameUndecided(r) /\ ~Turn(r)' /\ ~Active(r)'
  BY <1>1 DEF SameUndecided, Unadmitted, Turn, Active
<1>6. AdmissionInv'
  <2>1. \A h \in alive : /\ arb'[h].admissions = arb[h].admissions
                         /\ arb'[h].cancelTail = arb[h].cancelTail
    BY <1>1, LivingGeneration DEF Elsewhere
  <2>2. QED
    BY <1>2, <1>4, <1>5, <2>1, AdmissionKept DEF LaneInv
<1>7. TurnInv'
  BY <1>1, <1>2, <1>4, <1>5, TurnPop DEF LaneInv, AtNormalHead
<1>8. BarrierInv'
  <2>1. \A x \in Requests : req[x].phase # "new" =>
            /\ req'[x].gen = req[x].gen /\ Lane(x)' = Lane(x)
            /\ Unadmitted(x)' => Unadmitted(x)
    BY <1>1, <1>2, <1>4, <1>5 DEF SameUndecided, Same
  <2>2. Decided
    BY <1>1, <2>1, LanesDecided
  <2>3. QED
    BY <1>4, <1>5, <2>2, BarrierStep DEF LaneInv
<1>9. QED
  BY <1>3, <1>6, <1>7, <1>8 DEF LaneInv

LEMMA TakeBarrierLanes ==
  ASSUME TypeInv, LaneInv, NEW g \in Gens, NEW r \in Requests, TakeBarrier(g, r)
  PROVE  LaneInv'
<1>1. /\ AtNormalHead(g, r) /\ req[r].phase = "admitted"
      /\ req'[r].gen = req[r].gen /\ req'[r].op = req[r].op /\ req'[r].busy = req[r].busy
      /\ req'[r].ahead = req[r].ahead
      /\ req'[r].barrier = arb[g].cancelTail
      /\ req'[r].phase = "armed" /\ \A x \in Requests \ {r} : req'[x] = req[x]
      /\ arb' = arb /\ SameGenerations
  BY TakeBarrierEffect
<1>2. /\ alive' = alive /\ g \in alive /\ req[r].gen = g
      /\ Turn(r) /\ Normal(r) /\ Lane(r)' = Lane(r)
  BY <1>1, NormalHead DEF SameGenerations, Lane
<1>3. ASSUME NEW x \in Requests \ {r}
      PROVE  /\ SameUndecided(x) /\ SameTurn(x) /\ Lane(x)' = Lane(x)
             /\ Turn(x)' /\ Active(x)' => SameWait(x)
             /\ req'[x].gen = req[x].gen
  <2>1. Stays(req[x], req'[x])
    BY <1>1, StaysPut
  <2>2. QED
    BY <1>1, <2>1, BystanderKeeps
<1>4. OwnedInv'
  <2>1. Others(r) /\ Unsettled(r) /\ req'[r].phase # "new"
    BY <1>1, StaysPut DEF Others, Unsettled
  <2>2. QED
    BY <1>1, <2>1, OwnedMove DEF LaneInv
<1>5. SameUndecided(r) /\ Turn(r)'
  BY <1>1, <1>2 DEF SameUndecided, Unadmitted, Turn, Normal
<1>6. AdmissionInv'
  BY <1>1, <1>2, <1>3, <1>5, AdmissionKept DEF LaneInv
<1>7. TurnInv'
  BY <1>1, <1>2, <1>3, <1>5, TurnAtHead DEF LaneInv
<1>8. BarrierInv'
  <2>1. \A x \in Requests : req[x].phase # "new" =>
            /\ req'[x].gen = req[x].gen /\ Lane(x)' = Lane(x)
            /\ Unadmitted(x)' => Unadmitted(x)
    BY <1>1, <1>2, <1>3, <1>5 DEF SameUndecided
  <2>2. Decided
    BY <1>1, <2>1 DEF Decided
  <2>3. ASSUME NEW c \in Requests, c \in req'[r].ahead PROVE Beside(r, c)'
    <3>1. req[c].gen = req[r].gen /\ Lane(c) = "cancel"
      BY <1>1, <1>2, <2>3 DEF LaneInv, BarrierInv, Active
    <3>2. c # r
      BY <1>2, <3>1 DEF Normal
    <3>3. req'[c].gen = req'[r].gen /\ Lane(c)' = "cancel" /\ (Unadmitted(c)' => Unadmitted(c))
      BY <1>1, <1>3, <3>1, <3>2 DEF SameUndecided
    <3>4. ASSUME Unadmitted(c)'
          PROVE  Covers(arb'[req'[r].gen].admissions, c, req'[r].barrier)
      <4>1. Covers(arb[g].admissions, c, arb[g].cancelTail)
        BY <1>2, <3>1, <3>3, <3>4 DEF LaneInv, AdmissionInv
      <4>2. QED
        BY <1>1, <1>2, <4>1
    <3>5. QED
      BY <1>1, <3>3, <3>4 DEF Beside
  <2>4. \A x \in Requests : Turn(x)' /\ Active(x)' =>
            SameWait(x) \/ \A c \in Requests : c \in req'[x].ahead => Beside(x, c)'
    BY <1>3, <2>3
  <2>5. QED
    BY <2>2, <2>4, BarrierStep DEF LaneInv
<1>9. QED
  BY <1>4, <1>6, <1>7, <1>8 DEF LaneInv

LEMMA StartLanes ==
  ASSUME TypeInv, LaneInv, NEW g \in Gens, NEW r \in Requests, Start(g, r)
  PROVE  LaneInv'
<1>1. /\ AtNormalHead(g, r) /\ req[r].phase = "armed"
      /\ req[r].barrier # None => ~Unadmitted(req[r].barrier)
      /\ Same(req[r], req'[r]) /\ req'[r].phase = "running"
      /\ \A x \in Requests \ {r} : req'[x] = req[x]
      /\ arb' = arb /\ SameGenerations
  BY StartEffect
<1>2. /\ alive' = alive /\ g \in alive /\ req[r].gen = g
      /\ Turn(r) /\ Normal(r) /\ Lane(r)' = Lane(r)
  BY <1>1, NormalHead, LaneKept DEF SameGenerations
<1>3. ASSUME NEW x \in Requests \ {r}
      PROVE  /\ SameUndecided(x) /\ SameTurn(x) /\ Lane(x)' = Lane(x)
             /\ Turn(x)' /\ Active(x)' => SameWait(x)
             /\ req'[x].gen = req[x].gen
  <2>1. Stays(req[x], req'[x])
    BY <1>1, StaysPut
  <2>2. QED
    BY <1>1, <2>1, BystanderKeeps
<1>4. OwnedInv'
  <2>1. Others(r) /\ Unsettled(r) /\ req'[r].phase # "new" /\ req'[r].gen = req[r].gen
    BY <1>1, StaysPut DEF Others, Unsettled, Same
  <2>2. QED
    BY <1>1, <2>1, OwnedMove DEF LaneInv
<1>5. SameUndecided(r) /\ Turn(r)' /\ req'[r].gen = g
  BY <1>1, <1>2 DEF SameUndecided, Unadmitted, Turn, Normal, Same
<1>6. AdmissionInv'
  BY <1>1, <1>2, <1>3, <1>5, AdmissionKept DEF LaneInv
<1>7. TurnInv'
  BY <1>1, <1>2, <1>3, <1>5, TurnAtHead DEF LaneInv
<1>8. BarrierInv'
  <2>1. \A x \in Requests : req[x].phase # "new" =>
            /\ req'[x].gen = req[x].gen /\ Lane(x)' = Lane(x)
            /\ Unadmitted(x)' => Unadmitted(x)
    BY <1>1, <1>2, <1>3, <1>5 DEF SameUndecided
  <2>2. Decided
    BY <1>1, <2>1 DEF Decided
  <2>3. ASSUME NEW c \in Requests, c \in req'[r].ahead PROVE Beside(r, c)'
    <3>1. Beside(r, c)
      BY <1>1, <1>2, <2>3 DEF LaneInv, BarrierInv, Active, Same, Beside
    <3>2. c # r
      BY <1>2, <3>1 DEF Normal, Beside
    <3>3. ~Unadmitted(c)
      <4> SUFFICES ASSUME Unadmitted(c) PROVE FALSE
        OBVIOUS
      <4>1. PICK j \in 1..Len(arb[g].admissions) : arb[g].admissions[j] = req[r].barrier
        BY <1>1, <1>2, <3>1 DEF Beside, Covers
      <4>2. Within(arb[g].admissions, req[r].barrier) /\ arb[g].admissions \in Seq(Requests)
        BY <4>1, TypedAt DEF Within
      <4>3. req[r].barrier \in Requests
        BY <4>1, <4>2, ElementOfSeq
      <4>4. Unadmitted(req[r].barrier) /\ req[r].barrier # None
        BY <1>2, <4>2, <4>3, ArbiterAssumption DEF LaneInv, AdmissionInv
      <4>5. QED
        BY <1>1, <4>4
    <3>4. req'[c].gen = req'[r].gen /\ Lane(c)' = "cancel" /\ ~Unadmitted(c)'
      BY <1>1, <1>3, <3>1, <3>2, <3>3 DEF SameUndecided, Beside, Same
    <3>5. QED
      BY <3>4 DEF Beside
  <2>4. \A x \in Requests : Turn(x)' /\ Active(x)' =>
            SameWait(x) \/ \A c \in Requests : c \in req'[x].ahead => Beside(x, c)'
    BY <1>3, <2>3
  <2>5. QED
    BY <2>2, <2>4, BarrierStep DEF LaneInv
<1>9. QED
  BY <1>4, <1>6, <1>7, <1>8 DEF LaneInv

LEMMA FinishLanes ==
  ASSUME TypeInv, LaneInv, NEW g \in Gens, NEW r \in Requests, NEW status, Finish(g, r, status)
  PROVE  LaneInv'
<1>1. /\ g \in alive /\ req[r].gen = g /\ req[r].phase = "running"
      /\ Same(req[r], req'[r]) /\ req'[r].phase = "answered" /\ Others(r)
      /\ Elsewhere(g) /\ SameGenerations
      /\ arb'[g].admissions = arb[g].admissions /\ arb'[g].cancelTail = arb[g].cancelTail
      /\ arb'[g].normals = RemoveFirst(arb[g].normals, r)
  BY FinishEffect
<1>2. alive' = alive /\ Lane(r)' = Lane(r)
  BY <1>1, LaneKept DEF SameGenerations
<1>3. OwnedInv'
  BY <1>1, OwnedMove DEF LaneInv, Unsettled, Same
<1>4. ASSUME NEW x \in Requests \ {r}
      PROVE  /\ SameUndecided(x) /\ SameTurn(x) /\ Lane(x)' = Lane(x)
             /\ Turn(x)' /\ Active(x)' => SameWait(x)
             /\ req'[x].gen = req[x].gen
  BY <1>1, BystanderKeeps DEF Others, Stays, Same
<1>5. SameUndecided(r) /\ ~Turn(r)' /\ ~Active(r)'
  BY <1>1 DEF SameUndecided, Unadmitted, Turn, Active
<1>6. AdmissionInv'
  <2>1. \A h \in alive : /\ arb'[h].admissions = arb[h].admissions
                         /\ arb'[h].cancelTail = arb[h].cancelTail
    BY <1>1, LivingGeneration DEF Elsewhere
  <2>2. QED
    BY <1>2, <1>4, <1>5, <2>1, AdmissionKept DEF LaneInv
<1>7. TurnInv'
  <2>0. arb[g].normals \in Seq(Requests)
    BY TypedAt
  <2>1. CASE Normal(r)
    <3>1. arb[g].normals # <<>> /\ r = Head(arb[g].normals)
      BY <1>1, <2>1 DEF LaneInv, TurnInv, Turn
    <3>2. arb'[g].normals = Tail(arb[g].normals)
      BY <1>1, <2>0, <3>1, LaneRemove
    <3>3. QED
      BY <1>1, <1>2, <1>4, <1>5, <3>1, <3>2, TurnPop DEF LaneInv
  <2>2. CASE ~Normal(r)
    <3>1. ~Turn(r)
      BY <2>2 DEF Turn
    <3>2. ~Within(arb[g].normals, r)
      BY <1>1, <3>1 DEF LaneInv, TurnInv
    <3>3. arb'[g].normals = arb[g].normals
      BY <1>1, <2>0, <3>2, LaneRemove
    <3>4. \A h \in alive : arb'[h].normals = arb[h].normals
      BY <1>1, <3>3, LivingGeneration DEF Elsewhere
    <3>5. SameTurn(r)
      BY <1>5, <3>1 DEF SameTurn
    <3>6. QED
      BY <1>2, <1>4, <3>4, <3>5, TurnKept DEF LaneInv
  <2>3. QED
    BY <2>1, <2>2
<1>8. BarrierInv'
  <2>1. \A x \in Requests : req[x].phase # "new" =>
            /\ req'[x].gen = req[x].gen /\ Lane(x)' = Lane(x)
            /\ Unadmitted(x)' => Unadmitted(x)
    BY <1>1, <1>2, <1>4, <1>5 DEF SameUndecided, Same
  <2>2. Decided
    BY <1>1, <2>1, LanesDecided
  <2>3. QED
    BY <1>4, <1>5, <2>2, BarrierStep DEF LaneInv
<1>9. QED
  BY <1>3, <1>6, <1>7, <1>8 DEF LaneInv

LEMMA GenerationLanes ==
  ASSUME TypeInv, LaneInv, Restart \/ Split \/ \E g \in Gens : Recreate(g)
  PROVE  LaneInv'
<1> DEFINE new == latest + 1
<1>1. /\ latest' = new /\ new \in Gens /\ new \notin alive
      /\ \A r \in Requests : req[r].gen # new
      /\ arb'[new] = NewArbiter(revision) /\ Elsewhere(new)
      /\ alive' \subseteq alive \cup {new} /\ new \in alive'
      /\ \/ req' = req /\ alive \subseteq alive'
         \/ /\ alive' = {new}
            /\ \A r \in Requests : req'[r].gen = req[r].gen /\ ~Unsettled(r)'
                                   /\ (req'[r].phase = "new" => req[r].phase = "new")
  BY GenerationEffect DEF LaneInv
<1>2. new = latest + 1 /\ latest \in Nat
  BY ArbiterAssumption DEF TypeInv, GensOK, Gens
<1> HIDE DEF new
<1>3. OwnedInv'
  <2>1. 0..latest \subseteq 0..new
    BY <1>2
  <2>2. QED
    BY <1>1, <2>1 DEF LaneInv, OwnedInv, Unsettled
<1>4. /\ arb'[new].admissions = <<>> /\ arb'[new].normals = <<>>
      /\ \A x : ~Within(<<>>, x)
      /\ Distinct(<<>>)
  BY <1>1 DEF NewArbiter, Within, Distinct
<1>5. \A x \in Requests : req'[x].gen # new
  BY <1>1
<1>6. ASSUME NEW g \in alive', g # new
      PROVE  g \in alive /\ req' = req /\ arb'[g] = arb[g]
  BY <1>1, <1>6, LivingGeneration DEF Elsewhere
<1>7. AdmissionInv'
  <2> SUFFICES ASSUME NEW g \in alive'
               PROVE  /\ Distinct(arb'[g].admissions)
                      /\ \A x \in Requests :
                           /\ Within(arb'[g].admissions, x) <=> Unadmitted(x)' /\ req'[x].gen = g
                           /\ Within(arb'[g].admissions, x) /\ Lane(x)' = "cancel"
                                => Covers(arb'[g].admissions, x, arb'[g].cancelTail)
    BY DEF AdmissionInv
  <2>1. CASE g = new
    BY <1>4, <1>5, <2>1
  <2>2. CASE g # new
    BY <1>6, <2>2 DEF LaneInv, AdmissionInv, Unadmitted, Lane
  <2>3. QED
    BY <2>1, <2>2
<1>8. TurnInv'
  <2> SUFFICES ASSUME NEW g \in alive'
               PROVE  /\ Distinct(arb'[g].normals)
                      /\ \A x \in Requests :
                           /\ Within(arb'[g].normals, x) <=> Turn(x)' /\ req'[x].gen = g
                           /\ Turn(x)' /\ req'[x].phase \in {"armed", "running"} /\ req'[x].gen = g
                                => arb'[g].normals # <<>> /\ x = Head(arb'[g].normals)
    BY DEF TurnInv
  <2>1. CASE g = new
    BY <1>4, <1>5, <2>1
  <2>2. CASE g # new
    BY <1>6, <2>2 DEF LaneInv, TurnInv, Turn, Normal, Lane
  <2>3. QED
    BY <2>1, <2>2
<1>9. BarrierInv'
  <2> SUFFICES ASSUME NEW r \in Requests, NEW c \in Requests,
                      Turn(r)', Active(r)', c \in req'[r].ahead
               PROVE  Beside(r, c)'
    BY Zenon DEF BarrierInv, Beside
  <2>1. Unsettled(r)'
    BY DEF Active, Unsettled
  <2>2. req' = req
    BY <1>1, <2>1
  <2>3. Turn(r) /\ Active(r) /\ c \in req[r].ahead
    BY <2>2 DEF Turn, Normal, Lane, Active
  <2>4. Beside(r, c)
    BY <2>3 DEF LaneInv, BarrierInv, Beside
  <2>5. arb'[req[r].gen] = arb[req[r].gen]
    BY <1>1, <2>3, ActiveOwned DEF LaneInv, Elsewhere
  <2>6. QED
    BY <2>2, <2>4, <2>5 DEF Beside, Lane, Unadmitted
<1>10. QED
  BY <1>3, <1>7, <1>8, <1>9 DEF LaneInv

LEMMA NextLanes == TypeInv /\ LaneInv /\ [ArbiterNext]_vars => LaneInv'
<1> SUFFICES ASSUME TypeInv, LaneInv, [ArbiterNext]_vars PROVE LaneInv'
  OBVIOUS
<1>1. ASSUME NEW g \in Gens, NEW r \in Requests, NEW k \in Keys, NEW op \in Ops,
             NEW e \in 0..revision, NEW busy \in BOOLEAN,
             Enqueue(g, r, k, op, e, busy) \/ Join(g, r, k, op, e, busy)
      PROVE  LaneInv'
  BY <1>1, EnqueueLanes, JoinLanes
<1>2. ASSUME NEW g \in Gens, NEW r \in Requests, AdmissionStep(g, r) PROVE LaneInv'
  <2>1. CASE Admit(g, r)
    BY <2>1, AdmitLanes
  <2>2. CASE AwaitPrecondition(g, r)
    BY <2>2, AwaitLanes
  <2>3. CASE Replay(g, r) \/ Conflict(g, r) \/ Decline(g, r) \/ AdmissionFault(g, r)
    <3>1. AtAdmission(g, r) /\ \E a, clock : EndRefused(g, r, a, clock)
      BY <2>3 DEF Replay, Conflict, Decline, AdmissionFault
    <3>2. QED
      BY <3>1, EndRefusedLanes
  <2>4. QED
    BY <1>2, <2>1, <2>2, <2>3 DEF AdmissionStep
<1>3. ASSUME NEW g \in Gens, NEW r \in Requests,
             SettleRefused(g, r) \/ TakeBarrier(g, r) \/ Start(g, r)
      PROVE  LaneInv'
  BY <1>3, SettleRefusedLanes, TakeBarrierLanes, StartLanes
<1>4. ASSUME NEW g \in Gens, NEW r \in Requests, NEW status \in {"completed", "failed"},
             Finish(g, r, status)
      PROVE  LaneInv'
  BY <1>4, FinishLanes
<1>5. ASSUME NEW g \in Gens,
             PublishAutonomous(g) \/ \E n \in 0..MaxPublished : PublishDurable(g, n)
      PROVE  LaneInv'
  <2>1. req' = req /\ SameGenerations /\ Elsewhere(g) /\ Lanes(arb[g], arb'[g])
    BY <1>5, PublishEffect
  <2>2. /\ alive' = alive /\ latest' = latest
        /\ \A h \in alive : Lanes(arb[h], arb'[h])
    BY <2>1, LivingGeneration DEF SameGenerations, Elsewhere, Lanes
  <2>3. OwnedInv'
    BY <2>1, <2>2 DEF LaneInv, OwnedInv, Unsettled
  <2>4. AdmissionInv' /\ TurnInv'
    <3>1. \A x \in Requests : SameUndecided(x) /\ SameTurn(x)
      BY <2>1, StaysPut, BystanderKeeps
    <3>2. QED
      BY <2>2, <3>1, AdmissionKept, TurnKept DEF LaneInv, Lanes
  <2>5. BarrierInv'
    BY <2>1, <2>2, ActiveOwned DEF LaneInv, BarrierInv, Lanes, Turn, Normal, Active, Lane, Unadmitted
  <2>6. QED
    BY <2>3, <2>4, <2>5 DEF LaneInv
<1>6. CASE Restart \/ Split \/ \E g \in Gens : Recreate(g)
  BY <1>6, GenerationLanes
<1>7. CASE UNCHANGED vars
  <2>1. UNCHANGED <<req, arb, latest, alive>>
    BY <1>7 DEF vars
  <2>2. QED
    BY <2>1 DEF LaneInv, OwnedInv, AdmissionInv, TurnInv, BarrierInv, Turn, Normal, Active,
                Lane, Unadmitted, Unsettled
<1>8. QED
  BY <1>1, <1>2, <1>3, <1>4, <1>5, <1>6, <1>7, Zenon DEF ArbiterNext

LEMMA InitLanes == ArbiterInit => LaneInv
<1> SUFFICES ASSUME ArbiterInit PROVE LaneInv
  OBVIOUS
<1>1. /\ latest = 1 /\ alive = {1} /\ 1 \in Gens
      /\ arb[1].admissions = <<>> /\ arb[1].normals = <<>>
  BY ArbiterAssumption DEF ArbiterInit, NewArbiter, Gens
<1>2. \A r \in Requests : req[r].phase = "new" /\ req[r].gen = 0
  BY DEF ArbiterInit, NewRequest
<1>3. (\A x : ~Within(<<>>, x)) /\ Distinct(<<>>)
  BY DEF Within, Distinct
<1>4. \A r \in Requests : ~Unsettled(r) /\ ~Unadmitted(r) /\ ~Turn(r)
  BY <1>2 DEF Unsettled, Unadmitted, Turn
<1>5. OwnedInv /\ BarrierInv
  BY <1>1, <1>2, <1>4 DEF OwnedInv, BarrierInv
<1>6. AdmissionInv /\ TurnInv
  BY <1>1, <1>3, <1>4 DEF AdmissionInv, TurnInv
<1>7. QED
  BY <1>5, <1>6 DEF LaneInv

\* Within one arbiter turns run one at a time, and none starts before every cancel it
\* found queued is decided.
THEOREM TurnsRunInOrder == ArbiterSpec => []NormalLaneIsOrdered
<1>1. TypeInv /\ LaneInv => NormalLaneIsOrdered
  <2> SUFFICES ASSUME TypeInv, LaneInv, NEW r \in Requests,
                      req[r].phase = "running", Lane(r) = "normal"
               PROVE  /\ \A c \in req[r].ahead : ~Unadmitted(c)
                      /\ \A s \in Requests :
                           req[s].phase = "running" /\ Lane(s) = "normal" /\ req[r].gen = req[s].gen
                             => r = s
    BY DEF NormalLaneIsOrdered
  <2>1. Turn(r) /\ Active(r)
    BY DEF Turn, Normal, Active
  <2>2. req[r].gen \in alive
    BY <2>1, ActiveOwned DEF LaneInv
  <2>3. \A c \in req[r].ahead : ~Unadmitted(c)
    BY <2>1, AheadType DEF LaneInv, BarrierInv
  <2>4. \A s \in Requests :
           req[s].phase = "running" /\ Lane(s) = "normal" /\ req[r].gen = req[s].gen => r = s
    BY <2>1, <2>2 DEF LaneInv, TurnInv, Turn, Normal
  <2>5. QED
    BY <2>3, <2>4
<1>2. QED
  BY <1>1, InitType, NextType, InitLanes, NextLanes, PTL DEF ArbiterSpec

(***************************************************************************)
(* What an arbiter counts.  Revisions tell the accepted calls apart, so    *)
(* taking one out of the active generations takes out one call.            *)
(***************************************************************************)
Running(g) == {r \in Requests : req[r].gen = g /\ Active(r)}
Generations(S) == {req[r].rev : r \in {x \in S : BindsGeneration(x)}}

RevInv ==
    /\ \A r \in Requests : Active(r) => req[r].rev <= revision
    /\ \A r, s \in Requests : Active(r) /\ Active(s) /\ req[r].rev = req[s].rev => r = s

CountInv ==
    \A g \in alive :
        /\ IsFiniteSet(Running(g))
        /\ arb[g].activeMutations = Cardinality(Running(g))
        /\ arb[g].activeNormals = Generations(Running(g))

ActivityInv == RevInv /\ CountInv

SameActivity(x) ==
    /\ Active(x)' <=> Active(x)
    /\ Active(x) => /\ req'[x].gen = req[x].gen /\ req'[x].rev = req[x].rev
                    /\ BindsGeneration(x)' = BindsGeneration(x)

LEMMA ActivityKept ==
  ASSUME TypeInv, TypeInv', ActivityInv, alive' = alive, revision <= revision',
         \A x \in Requests : SameActivity(x),
         \A g \in alive : Counts(arb[g], arb'[g])
  PROVE  ActivityInv'
<1>1. revision \in Nat /\ revision' \in Nat /\ \A r \in Requests : req[r].rev \in Nat
  <2>1. \A r \in Requests : req[r] \in Request
    BY DEF TypeInv, ReqOK
  <2>2. QED
    BY <2>1 DEF TypeInv, Ledger!LedgerTypeOK, Request
<1>2. RevInv'
  <2>1. ASSUME NEW r \in Requests, Active(r)' PROVE req'[r].rev <= revision'
    <3>1. req'[r].rev = req[r].rev /\ req[r].rev <= revision
      BY <2>1 DEF SameActivity, ActivityInv, RevInv
    <3>2. QED
      BY <1>1, <3>1
  <2>2. \A r, s \in Requests : Active(r)' /\ Active(s)' /\ req'[r].rev = req'[s].rev => r = s
    BY DEF SameActivity, ActivityInv, RevInv
  <2>3. QED
    BY <2>1, <2>2 DEF RevInv
<1>3. ASSUME NEW g \in alive
      PROVE  Running(g)' = Running(g) /\ Generations(Running(g))' = Generations(Running(g))
  <2>1. Running(g)' = Running(g)
    BY DEF Running, SameActivity
  <2>2. \A x \in Running(g) : x \in Requests /\ req'[x].rev = req[x].rev
                              /\ BindsGeneration(x)' = BindsGeneration(x)
    BY DEF Running, SameActivity
  <2>3. QED
    BY <2>1, <2>2 DEF Generations
<1>4. CountInv'
  BY <1>3 DEF ActivityInv, CountInv, Counts
<1>5. QED
  BY <1>2, <1>4 DEF ActivityInv

LEMMA BystanderActivity ==
  ASSUME NEW x, Stays(req[x], req'[x])
  PROVE  SameActivity(x)
BY LaneKept DEF SameActivity, Active, Stays, Same

LEMMA AdmitActivity ==
  ASSUME TypeInv, LaneInv, ActivityInv, NEW g \in Gens, NEW r \in Requests, Admit(g, r)
  PROVE  ActivityInv'
<1>1. /\ AtAdmission(g, r) /\ Unadmitted(r)
      /\ \A x \in Requests \ {r} : req'[x] = req[x]
      /\ req'[r].gen = req[r].gen /\ req'[r].op = req[r].op /\ req'[r].busy = req[r].busy
      /\ req'[r].rev = revision'
      /\ req'[r].phase = (IF Normal(r) THEN "admitted" ELSE "running")
      /\ revision' = revision + 1
      /\ Elsewhere(g) /\ SameGenerations
      /\ arb'[g].activeMutations = arb[g].activeMutations + 1
      /\ arb'[g].activeNormals = (IF BindsGeneration(r) THEN arb[g].activeNormals \cup {revision'}
                                  ELSE arb[g].activeNormals)
  BY AdmitEffect
<1>2. alive' = alive /\ g \in alive
  BY <1>1 DEF SameGenerations, AtAdmission
<1>3. req[r].gen = g
  <2>1. /\ arb[g].admissions \in Seq(Requests) /\ arb[g].admissions # <<>>
        /\ Distinct(arb[g].admissions) /\ r = Head(arb[g].admissions)
    BY <1>1, <1>2, TypedAt DEF AtAdmission, LaneInv, AdmissionInv
  <2>2. Within(arb[g].admissions, r)
    BY <2>1, LaneTail
  <2>3. QED
    BY <1>2, <2>2 DEF LaneInv, AdmissionInv
<1>4. ~Active(r) /\ Active(r)' /\ BindsGeneration(r)' = BindsGeneration(r)
  BY <1>1 DEF Unadmitted, Active, BindsGeneration, Lane
<1>5. ASSUME NEW x \in Requests, x # r
      PROVE  /\ Active(x)' <=> Active(x)
             /\ BindsGeneration(x)' = BindsGeneration(x)
             /\ req'[x].gen = req[x].gen /\ req'[x].rev = req[x].rev
  BY <1>1, <1>5 DEF Active, BindsGeneration, Lane
<1>6. RevInv'
  <2>1. revision \in Nat /\ \A x \in Requests : req[x].rev \in Nat
    <3>1. \A x \in Requests : req[x] \in Request
      BY DEF TypeInv, ReqOK
    <3>2. QED
      BY <3>1 DEF TypeInv, Ledger!LedgerTypeOK, Request
  <2>2. ASSUME NEW x \in Requests, x # r, Active(x)'
        PROVE  req'[x].rev <= revision' /\ req'[x].rev # revision'
    <3>1. req[x].rev <= revision
      BY <1>5, <2>2 DEF ActivityInv, RevInv
    <3>2. QED
      BY <1>1, <1>5, <2>1, <2>2, <3>1
  <2>3. revision' <= revision'
    BY <1>1, <2>1
  <2>4. \A x \in Requests : Active(x)' => req'[x].rev <= revision'
    BY <1>1, <2>2, <2>3
  <2>5. \A x, y \in Requests : Active(x)' /\ Active(y)' /\ req'[x].rev = req'[y].rev => x = y
    BY <1>1, <1>5, <2>2 DEF ActivityInv, RevInv
  <2>6. QED
    BY <2>4, <2>5 DEF RevInv
<1>7. ASSUME NEW h \in alive
      PROVE  Running(h)' = IF h = g THEN Running(g) \cup {r} ELSE Running(h)
  BY <1>1, <1>3, <1>4, <1>5 DEF Running
<1>8. r \notin Running(g)
  BY <1>4 DEF Running
<1>9. /\ IsFiniteSet(Running(g)')
      /\ arb'[g].activeMutations = Cardinality(Running(g)')
  <2>1. IsFiniteSet(Running(g)) /\ arb[g].activeMutations = Cardinality(Running(g))
    BY <1>2 DEF ActivityInv, CountInv
  <2>2. /\ IsFiniteSet(Running(g) \cup {r})
        /\ Cardinality(Running(g) \cup {r}) = Cardinality(Running(g)) + 1
    BY <1>8, <2>1, FS_AddElement
  <2>3. QED
    BY <1>1, <1>2, <1>7, <2>1, <2>2
<1>10. arb'[g].activeNormals = Generations(Running(g))'
  <2>1. Generations(Running(g))' =
          {req'[x].rev : x \in {y \in Running(g) \cup {r} : BindsGeneration(y)'}}
    BY <1>2, <1>7 DEF Generations
  <2>2. \A y \in Running(g) : /\ BindsGeneration(y)' = BindsGeneration(y)
                              /\ req'[y].rev = req[y].rev
    BY <1>5, <1>8 DEF Running
  <2>3. arb[g].activeNormals = Generations(Running(g))
    BY <1>2 DEF ActivityInv, CountInv
  <2>4. {req'[x].rev : x \in {y \in Running(g) \cup {r} : BindsGeneration(y)'}} =
          IF BindsGeneration(r) THEN Generations(Running(g)) \cup {revision'}
          ELSE Generations(Running(g))
    BY <1>1, <1>4, <2>2 DEF Generations
  <2>5. QED
    BY <1>1, <2>1, <2>3, <2>4
<1>11. ASSUME NEW h \in alive, h # g
       PROVE  /\ IsFiniteSet(Running(h)')
              /\ arb'[h].activeMutations = Cardinality(Running(h)')
              /\ arb'[h].activeNormals = Generations(Running(h))'
  <2>1. arb'[h] = arb[h] /\ Running(h)' = Running(h)
    BY <1>1, <1>7, <1>11, LivingGeneration DEF Elsewhere
  <2>2. \A y \in Running(h) : /\ BindsGeneration(y)' = BindsGeneration(y)
                              /\ req'[y].rev = req[y].rev
    BY <1>3, <1>5, <1>11 DEF Running
  <2>3. Generations(Running(h))' = Generations(Running(h))
    BY <2>1, <2>2 DEF Generations
  <2>4. QED
    BY <2>1, <2>3 DEF ActivityInv, CountInv
<1>12. CountInv'
  BY <1>2, <1>9, <1>10, <1>11 DEF CountInv
<1>13. QED
  BY <1>6, <1>12 DEF ActivityInv

LEMMA FinishActivity ==
  ASSUME TypeInv, ActivityInv, NEW g \in Gens, NEW r \in Requests, NEW status,
         Finish(g, r, status)
  PROVE  ActivityInv'
<1>1. /\ g \in alive /\ req[r].gen = g /\ req[r].phase = "running"
      /\ Same(req[r], req'[r]) /\ req'[r].phase = "answered" /\ Others(r)
      /\ revision' = revision
      /\ Elsewhere(g) /\ SameGenerations
      /\ arb'[g].activeMutations = arb[g].activeMutations - 1
      /\ arb'[g].activeNormals = arb[g].activeNormals \ {req[r].rev}
  BY FinishEffect
<1>2. alive' = alive
  BY <1>1 DEF SameGenerations
<1>3. Active(r) /\ ~Active(r)'
  BY <1>1 DEF Active
<1>4. ASSUME NEW x \in Requests, x # r
      PROVE  SameActivity(x) /\ req'[x].gen = req[x].gen
  BY <1>1, <1>4, BystanderActivity DEF Others, Stays, Same
<1>5. RevInv'
  BY <1>1, <1>3, <1>4 DEF ActivityInv, RevInv, SameActivity
<1>6. ASSUME NEW h \in alive
      PROVE  Running(h)' = IF h = g THEN Running(g) \ {r} ELSE Running(h)
  BY <1>1, <1>3, <1>4 DEF Running, SameActivity
<1>7. r \in Running(g)
  BY <1>1, <1>3 DEF Running
<1>8. /\ IsFiniteSet(Running(g)')
      /\ arb'[g].activeMutations = Cardinality(Running(g)')
  <2>1. IsFiniteSet(Running(g)) /\ arb[g].activeMutations = Cardinality(Running(g))
    BY <1>1 DEF ActivityInv, CountInv
  <2>2. /\ IsFiniteSet(Running(g) \ {r})
        /\ Cardinality(Running(g) \ {r}) = Cardinality(Running(g)) - 1
    BY <1>7, <2>1, FS_RemoveElement
  <2>3. QED
    BY <1>1, <1>6, <2>1, <2>2
<1>9. arb'[g].activeNormals = Generations(Running(g))'
  <2>1. Generations(Running(g))' =
          {req'[x].rev : x \in {y \in Running(g) \ {r} : BindsGeneration(y)'}}
    BY <1>1, <1>6 DEF Generations
  <2>2. \A y \in Running(g) \ {r} : /\ BindsGeneration(y)' = BindsGeneration(y)
                                    /\ req'[y].rev = req[y].rev
                                    /\ req[y].rev # req[r].rev
    BY <1>3, <1>4 DEF Running, SameActivity, ActivityInv, RevInv
  <2>3. arb[g].activeNormals = Generations(Running(g))
    BY <1>1 DEF ActivityInv, CountInv
  <2>4. {req'[x].rev : x \in {y \in Running(g) \ {r} : BindsGeneration(y)'}} =
          Generations(Running(g)) \ {req[r].rev}
    BY <2>2 DEF Generations
  <2>5. QED
    BY <1>1, <2>1, <2>3, <2>4
<1>10. ASSUME NEW h \in alive, h # g
       PROVE  /\ IsFiniteSet(Running(h)')
              /\ arb'[h].activeMutations = Cardinality(Running(h)')
              /\ arb'[h].activeNormals = Generations(Running(h))'
  <2>1. arb'[h] = arb[h] /\ Running(h)' = Running(h)
    BY <1>1, <1>6, <1>10, LivingGeneration DEF Elsewhere
  <2>2. \A y \in Running(h) : /\ BindsGeneration(y)' = BindsGeneration(y)
                              /\ req'[y].rev = req[y].rev
    BY <1>1, <1>4, <1>10 DEF Running, SameActivity
  <2>3. Generations(Running(h))' = Generations(Running(h))
    BY <2>1, <2>2 DEF Generations
  <2>4. QED
    BY <2>1, <2>3 DEF ActivityInv, CountInv
<1>11. CountInv'
  BY <1>2, <1>8, <1>9, <1>10 DEF CountInv
<1>12. QED
  BY <1>5, <1>11 DEF ActivityInv

LEMMA GenerationActivity ==
  ASSUME TypeInv, OwnedInv, OwnedInv', ActivityInv,
         Restart \/ Split \/ \E g \in Gens : Recreate(g)
  PROVE  ActivityInv'
<1>1. PICK new \in Gens :
      /\ \A r \in Requests : req[r].gen # new
      /\ arb'[new] = NewArbiter(revision) /\ Elsewhere(new)
      /\ alive' \subseteq alive \cup {new}
      /\ revision' = revision
      /\ \/ req' = req
         \/ /\ alive' = {new}
            /\ \A r \in Requests : req'[r].gen = req[r].gen /\ ~Unsettled(r)'
  BY GenerationEffect
<1>2. \A r \in Requests : Active(r)' => Unsettled(r)'
  BY DEF Active, Unsettled
<1>3. RevInv'
  BY <1>1, <1>2 DEF ActivityInv, RevInv, Active
<1>4. ASSUME NEW g \in alive', g # new
      PROVE  /\ IsFiniteSet(Running(g)')
             /\ arb'[g].activeMutations = Cardinality(Running(g)')
             /\ arb'[g].activeNormals = Generations(Running(g))'
  <2>1. g \in alive /\ req' = req /\ arb'[g] = arb[g]
    BY <1>1, <1>4, LivingGeneration DEF Elsewhere
  <2>2. Running(g)' = Running(g) /\ Generations(Running(g))' = Generations(Running(g))
    BY <2>1 DEF Running, Active, Generations, BindsGeneration, Lane
  <2>3. QED
    BY <2>1, <2>2 DEF ActivityInv, CountInv
<1>5. /\ IsFiniteSet(Running(new)')
      /\ arb'[new].activeMutations = Cardinality(Running(new)')
      /\ arb'[new].activeNormals = Generations(Running(new))'
  <2>1. \A r \in Requests : req'[r].gen # new
    BY <1>1
  <2>2. Running(new)' = {}
    BY <2>1 DEF Running
  <2>3. Generations(Running(new))' = {}
    BY <2>2 DEF Generations
  <2>4. QED
    BY <1>1, <2>2, <2>3, FS_EmptySet DEF NewArbiter
<1>6. CountInv'
  BY <1>1, <1>4, <1>5 DEF CountInv
<1>7. QED
  BY <1>3, <1>6 DEF ActivityInv

LEMMA NextActivity ==
  TypeInv /\ LaneInv /\ ActivityInv /\ [ArbiterNext]_vars => ActivityInv'
<1> SUFFICES ASSUME TypeInv, LaneInv, ActivityInv, [ArbiterNext]_vars PROVE ActivityInv'
  OBVIOUS
<1>1. TypeInv' /\ LaneInv' /\ revision <= revision'
  BY NextType, NextLanes, RevisionGrows
<1>2. ASSUME NEW g \in Gens, NEW r \in Requests, SameGenerations, Elsewhere(g),
             Counts(arb[g], arb'[g]), SameActivity(r),
             \A x \in Requests \ {r} : Stays(req[x], req'[x])
      PROVE  ActivityInv'
  <2>1. \A x \in Requests : SameActivity(x)
    BY <1>2, BystanderActivity
  <2>2. alive' = alive /\ \A h \in alive : Counts(arb[h], arb'[h])
    BY <1>2, LivingGeneration DEF SameGenerations, Elsewhere, Counts
  <2>3. QED
    BY <1>1, <2>1, <2>2, ActivityKept
<1>3. ASSUME NEW g \in Gens, arb' = arb PROVE Elsewhere(g) /\ Counts(arb[g], arb'[g])
  BY <1>3 DEF Elsewhere, Counts
<1>4. ASSUME NEW g \in Gens, NEW r \in Requests, NEW k \in Keys, NEW op \in Ops,
             NEW e \in 0..revision, NEW busy \in BOOLEAN,
             Enqueue(g, r, k, op, e, busy) \/ Join(g, r, k, op, e, busy)
      PROVE  ActivityInv'
  <2>1. /\ req[r].phase = "new" /\ req'[r].phase \in {"queued", "joined", "answered"}
        /\ \A x \in Requests \ {r} : req'[x] = req[x]
        /\ SameGenerations /\ Elsewhere(g) /\ Counts(arb[g], arb'[g])
    <3>1. CASE Enqueue(g, r, k, op, e, busy)
      BY <3>1, EnqueueEffect
    <3>2. CASE Join(g, r, k, op, e, busy)
      BY <1>3, <3>2, JoinEffect
    <3>3. QED
      BY <1>4, <3>1, <3>2
  <2>2. SameActivity(r)
    BY <2>1 DEF SameActivity, Active
  <2>3. QED
    BY <1>2, <2>1, <2>2, StaysPut
<1>5. ASSUME NEW g \in Gens, NEW r \in Requests, AdmissionStep(g, r) PROVE ActivityInv'
  <2>1. CASE Admit(g, r)
    BY <2>1, AdmitActivity
  <2>2. CASE AwaitPrecondition(g, r)
    <3>1. /\ Unadmitted(r) /\ req'[r].phase = "checked" /\ Others(r)
          /\ arb' = arb /\ SameGenerations
      BY <2>2, AwaitEffect
    <3>2. SameActivity(r)
      BY <3>1 DEF SameActivity, Active, Unadmitted
    <3>3. QED
      BY <1>2, <1>3, <3>1, <3>2 DEF Others
  <2>3. CASE Replay(g, r) \/ Conflict(g, r) \/ Decline(g, r) \/ AdmissionFault(g, r)
    <3>1. AtAdmission(g, r) /\ \E a, clock : EndRefused(g, r, a, clock)
      BY <2>3 DEF Replay, Conflict, Decline, AdmissionFault
    <3>2. /\ Others(r) /\ req'[r].phase \in {"refused", "answered"}
          /\ Elsewhere(g) /\ SameGenerations /\ Counts(arb[g], arb'[g])
      BY <3>1, EndRefusedEffect
    <3>3. Unadmitted(r)
      <4>1. /\ g \in alive /\ arb[g].admissions \in Seq(Requests) /\ arb[g].admissions # <<>>
            /\ Distinct(arb[g].admissions) /\ r = Head(arb[g].admissions)
        BY <3>1, TypedAt DEF AtAdmission, LaneInv, AdmissionInv
      <4>2. Within(arb[g].admissions, r)
        BY <4>1, LaneTail
      <4>3. QED
        BY <4>1, <4>2 DEF LaneInv, AdmissionInv
    <3>4. SameActivity(r)
      BY <3>2, <3>3 DEF SameActivity, Active, Unadmitted
    <3>5. QED
      BY <1>2, <3>2, <3>4 DEF Others
  <2>4. QED
    BY <1>5, <2>1, <2>2, <2>3 DEF AdmissionStep
<1>6. ASSUME NEW g \in Gens, NEW r \in Requests,
             SettleRefused(g, r) \/ TakeBarrier(g, r) \/ Start(g, r)
      PROVE  ActivityInv'
  <2>1. CASE SettleRefused(g, r)
    <3>1. /\ req[r].phase = "refused" /\ req'[r].phase = "answered" /\ Others(r)
          /\ Elsewhere(g) /\ SameGenerations /\ Counts(arb[g], arb'[g])
      BY <2>1, SettleRefusedEffect
    <3>2. SameActivity(r)
      BY <3>1 DEF SameActivity, Active
    <3>3. QED
      BY <1>2, <3>1, <3>2 DEF Others
  <2>2. CASE TakeBarrier(g, r) \/ Start(g, r)
    <3>1. /\ Active(r) /\ Active(r)'
          /\ req'[r].gen = req[r].gen /\ req'[r].op = req[r].op /\ req'[r].busy = req[r].busy
          /\ req'[r].rev = req[r].rev
          /\ \A x \in Requests \ {r} : req'[x] = req[x]
          /\ arb' = arb /\ SameGenerations
      BY <2>2, TakeBarrierEffect, StartEffect DEF Active, Same
    <3>2. SameActivity(r)
      BY <3>1 DEF SameActivity, BindsGeneration, Lane
    <3>3. QED
      BY <1>2, <1>3, <3>1, <3>2, StaysPut
  <2>3. QED
    BY <1>6, <2>1, <2>2
<1>7. ASSUME NEW g \in Gens, NEW r \in Requests, NEW status \in {"completed", "failed"},
             Finish(g, r, status)
      PROVE  ActivityInv'
  BY <1>7, FinishActivity
<1>8. ASSUME NEW g \in Gens,
             PublishAutonomous(g) \/ \E n \in 0..MaxPublished : PublishDurable(g, n)
      PROVE  ActivityInv'
  <2>1. req' = req /\ SameGenerations /\ Elsewhere(g) /\ Counts(arb[g], arb'[g])
    BY <1>8, PublishEffect
  <2>2. \A x \in Requests : SameActivity(x)
    BY <2>1, StaysPut, BystanderActivity
  <2>3. alive' = alive /\ \A h \in alive : Counts(arb[h], arb'[h])
    BY <2>1, LivingGeneration DEF SameGenerations, Elsewhere, Counts
  <2>4. QED
    BY <1>1, <2>2, <2>3, ActivityKept
<1>9. CASE Restart \/ Split \/ \E g \in Gens : Recreate(g)
  BY <1>1, <1>9, GenerationActivity DEF LaneInv
<1>10. CASE UNCHANGED vars
  <2>1. UNCHANGED <<req, arb, alive, revision>>
    BY <1>10 DEF vars
  <2>2. \A x \in Requests : SameActivity(x)
    BY <2>1, StaysPut, BystanderActivity
  <2>3. alive' = alive /\ \A h \in alive : Counts(arb[h], arb'[h])
    BY <2>1 DEF Counts
  <2>4. QED
    BY <1>1, <2>2, <2>3, ActivityKept
<1>11. QED
  BY <1>4, <1>5, <1>6, <1>7, <1>8, <1>9, <1>10, Zenon DEF ArbiterNext

LEMMA InitActivity == ArbiterInit => ActivityInv
<1> SUFFICES ASSUME ArbiterInit PROVE ActivityInv
  OBVIOUS
<1>1. /\ alive = {1}
      /\ arb[1].activeMutations = 0 /\ arb[1].activeNormals = {}
  BY ArbiterAssumption DEF ArbiterInit, NewArbiter, Gens
<1>2. \A r \in Requests : ~Active(r)
  BY DEF ArbiterInit, NewRequest, Active
<1>3. Running(1) = {} /\ Generations(Running(1)) = {}
  BY <1>2 DEF Running, Generations
<1>4. QED
  BY <1>1, <1>2, <1>3, FS_EmptySet DEF ActivityInv, RevInv, CountInv

\* An arbiter counts exactly the accepted calls whose engine call has not returned, and
\* knows exactly the generations a cancel may still hit.
THEOREM ActivityCounted == ArbiterSpec => []ActivityIsExact
<1>1. ActivityInv => ActivityIsExact
  BY DEF ActivityInv, CountInv, Running, Generations, ActivityIsExact
<1>2. QED
  BY <1>1, InitType, NextType, InitLanes, NextLanes, InitActivity, NextActivity, PTL
     DEF ArbiterSpec

(***************************************************************************)
(* The arbiters implement the command log.  A call that may still execute  *)
(* has an open row, an answer that tells an outcome tells the row's, and a *)
(* finished row is never rewritten; so a step that starts a call begins    *)
(* its command, a step that finishes one ends it, and whoever is told an   *)
(* outcome is told the command's.                                          *)
(***************************************************************************)
LEMMA LogTell ==
  ASSUME NEW C \in SUBSET Requests, NEW v,
         \A x \in C : Reply(x) = None /\ Reply(x)' = v,
         \A x \in Requests \ C : Reply(x)' = Reply(x)
  PROVE  Log!Tell(C, v)
BY DEF Log!Tell

LEMMA LogStutter ==
  ASSUME \A x \in Requests : Reply(x)' = Reply(x), \A k \in Keys : Effect(k)' = Effect(k)
  PROVE  UNCHANGED Log!logVars
BY DEF Log!logVars

LEMMA LogBegin ==
  ASSUME NEW k \in Keys, Effect(k) = <<"none">>, Effect(k)' = <<"begun">>,
         \A j \in Keys \ {k} : Effect(j)' = Effect(j), \A x \in Requests : Reply(x)' = Reply(x)
  PROVE  Log!LogNext
<1>1. Log!Begin(k)
  BY DEF Log!Begin
<1>2. QED
  BY <1>1 DEF Log!LogNext

LogOutcomes == [status : {"completed", "failed"}, revision : 0..MaxRevision]

LEMMA LogEnd ==
  ASSUME NEW k \in Keys, NEW o \in LogOutcomes, NEW C \in SUBSET Requests,
         Effect(k) = <<"begun">>, Effect(k)' = <<"done", o>>,
         \A j \in Keys \ {k} : Effect(j)' = Effect(j),
         \A x \in C : Reply(x) = None /\ Reply(x)' = <<k, o>>,
         \A x \in Requests \ C : Reply(x)' = Reply(x)
  PROVE  Log!LogNext
<1>1. Log!Tell(C, <<k, o>>)
  BY LogTell
<1>2. Log!End(k, o, C)
  BY <1>1 DEF Log!End
<1>3. QED
  BY <1>2 DEF Log!LogNext, LogOutcomes

LEMMA LogReport ==
  ASSUME NEW k \in Keys, NEW o \in LogOutcomes, NEW C \in SUBSET Requests,
         Effect(k) = <<"done", o>>, \A j \in Keys : Effect(j)' = Effect(j),
         \A x \in C : Reply(x) = None /\ Reply(x)' = <<k, o>>,
         \A x \in Requests \ C : Reply(x)' = Reply(x)
  PROVE  Log!LogNext
<1>1. Log!Tell(C, <<k, o>>)
  BY LogTell
<1>2. Log!Report(k, o, C)
  BY <1>1 DEF Log!Report
<1>3. QED
  BY <1>2 DEF Log!LogNext, LogOutcomes

LEMMA LogRefuse ==
  ASSUME NEW C \in SUBSET Requests, \A j \in Keys : Effect(j)' = Effect(j),
         \A x \in C : Reply(x) = None /\ Reply(x)' = <<"refused">>,
         \A x \in Requests \ C : Reply(x)' = Reply(x)
  PROVE  Log!LogNext
<1>1. Log!Tell(C, <<"refused">>)
  BY LogTell
<1>2. Log!Refuse(C)
  BY <1>1 DEF Log!Refuse
<1>3. QED
  BY <1>2 DEF Log!LogNext

\* What a call was told is what its key's row says, for good.
Answered(x) ==
    /\ req[x].answer \in Answer
    /\ req[x].answer.kind = "executed" =>
          /\ req[x].key \in DOMAIN receipts
          /\ receipts[req[x].key].status \in Ledger!Terminal
          /\ receipts[req[x].key].result = req[x].answer.outcome

Fine(x) ==
    /\ req[x].phase = "new" => req[x].key = None /\ ~req[x].ran
    /\ req[x].ran => req[x].phase \in {"running", "answered", "lost"}
    /\ req[x].phase = "running" => req[x].ran
    /\ req[x].phase = "joined" => /\ req[x].owner \in Requests /\ req[x].key \in Keys
                                  /\ req[req[x].owner].key = req[x].key
    /\ Active(x) => receipts[req[x].key].status \notin Ledger!Terminal
    /\ req[x].rev <= MaxRevision
    /\ req[x].phase \in {"refused", "answered"} => Answered(x)

Ended(k) == k \in DOMAIN receipts /\ receipts[k].status \in Ledger!Terminal
Ends == \A k \in DOMAIN receipts : Ended(k) => receipts[k].result \in LogOutcomes

ReplyInv == revision <= MaxRevision /\ Ends /\ \A x \in Requests : Fine(x)

\* Rows stay, and finished ones as they are.
RowsKept == \A k \in DOMAIN receipts :
    k \in DOMAIN receipts' /\ (Ended(k) => receipts'[k] = receipts[k])

KeysKept == \A x \in Requests : req[x].phase # "new" => req'[x].key = req[x].key

LEMMA ActiveAccepted ==
  ASSUME OnceInv, NEW r \in Requests, Fine(r), Active(r)
  PROVE  req[r].rev # 0 /\ req[r].key \in DOMAIN receipts
BY DEF OnceInv, Fine, Active, MayRun

\* A call that does not move stays fine while its row stays open.
LEMMA FineKept ==
  ASSUME TypeInv, OnceInv, ReplyInv, RowsKept, KeysKept, NEW x \in Requests,
         req'[x] = req[x], Active(x) => ~Ended(req[x].key)'
  PROVE  Fine(x)'
<1>1. Fine(x)
  BY DEF ReplyInv
<1>2. req'[x].phase = "joined" => req'[req'[x].owner].key = req'[x].key
  <2>1. ASSUME req[x].phase = "joined" PROVE req'[req[x].owner].key = req[x].key
    <3>1. req[x].owner \in Requests /\ req[x].key \in Keys /\ req[req[x].owner].key = req[x].key
      BY <1>1, <2>1 DEF Fine
    <3>2. req[req[x].owner].phase # "new"
      BY <3>1, ArbiterAssumption DEF ReplyInv, Fine
    <3>3. QED
      BY <3>1, <3>2 DEF KeysKept
  <2>2. QED
    BY <2>1
<1>3. req'[x].phase \in {"refused", "answered"} => Answered(x)'
  BY <1>1 DEF Fine, Answered, RowsKept, Ended
<1>4. Active(x)' => receipts'[req'[x].key].status \notin Ledger!Terminal
  <2>1. Active(x)' => Active(x)
    BY DEF Active
  <2>2. Active(x) => req[x].key \in DOMAIN receipts'
    BY <1>1, ActiveAccepted DEF RowsKept
  <2>3. QED
    BY <2>1, <2>2 DEF Ended
<1>5. QED
  BY <1>1, <1>2, <1>3, <1>4 DEF Fine

Begun(k) == \E r \in Requests : req[r].key = k /\ req[r].ran

LEMMA EffectSame ==
  ASSUME NEW k, RowsKept, Ended(k)' => Ended(k), Begun(k)' <=> Begun(k)
  PROVE  Effect(k)' = Effect(k)
<1>1. Ended(k) => Ended(k)' /\ receipts'[k] = receipts[k]
  BY DEF RowsKept, Ended
<1>2. CASE Ended(k)
  BY <1>1, <1>2 DEF Effect, Ended
<1>3. CASE ~Ended(k)
  BY <1>3 DEF Effect, Ended, Begun
<1>4. QED
  BY <1>2, <1>3

\* No execute() is called and no row finishes.
LEMMA EffectsSame ==
  ASSUME ReplyInv, RowsKept, KeysKept, \A k \in Keys : Ended(k)' => Ended(k),
         \A x \in Requests : req'[x].ran <=> req[x].ran
  PROVE  \A k \in Keys : Effect(k)' = Effect(k)
<1>1. \A x \in Requests : req[x].ran => req'[x].key = req[x].key
  BY DEF ReplyInv, Fine, KeysKept
<1>2. \A k \in Keys : Begun(k)' <=> Begun(k)
  BY <1>1 DEF Begun
<1>3. QED
  BY <1>2, EffectSame

Listening(r) == {x \in Requests : x = r \/ (req[x].phase = "joined" /\ req[x].owner = r)}
ReplyTo(k, a) == IF a.kind = "executed" THEN <<k, a.outcome>> ELSE <<"refused">>

LEMMA ResolvedTells ==
  ASSUME TypeInv, ReplyInv, NEW r \in Requests, NEW a, req' = Resolved(req, r, a),
         req[r].phase # "answered"
  PROVE  /\ \A x \in Requests : /\ req'[x].key = req[x].key /\ req'[x].ran = req[x].ran
                                /\ req'[x].rev = req[x].rev
         /\ \A x \in Requests \ Listening(r) : req'[x] = req[x] /\ Reply(x)' = Reply(x)
         /\ \A x \in Listening(r) :
               /\ req[x].key = req[r].key
               /\ req'[x].phase = "answered" /\ req'[x].answer = a
               /\ Reply(x) = None /\ Reply(x)' = ReplyTo(req[r].key, a)
<1>1. ASSUME NEW x \in Requests
      PROVE  LET q == [req[x] EXCEPT !.phase = "answered", !.answer = a]
             IN  /\ q.key = req[x].key /\ q.ran = req[x].ran /\ q.rev = req[x].rev
                 /\ q.phase = "answered" /\ q.answer = a
  <2>1. req[x] \in Request
    BY DEF TypeInv, ReqOK
  <2>2. QED
    BY <2>1 DEF Request
<1>2. ASSUME NEW x \in Requests \ Listening(r)
      PROVE  req'[x] = req[x] /\ Reply(x)' = Reply(x)
  <2>1. req'[x] = req[x]
    BY DEF Resolved, Listening
  <2>2. QED
    BY <2>1 DEF Reply
<1>3. ASSUME NEW x \in Listening(r)
      PROVE  req'[x] = [req[x] EXCEPT !.phase = "answered", !.answer = a]
  BY DEF Resolved, Listening
<1>4. ASSUME NEW x \in Listening(r)
      PROVE  req[x].key = req[r].key /\ req[x].phase # "answered" /\ x \in Requests
  BY DEF Listening, ReplyInv, Fine
<1>5. ASSUME NEW x \in Listening(r)
      PROVE  /\ req'[x].phase = "answered" /\ req'[x].answer = a
             /\ Reply(x) = None /\ Reply(x)' = ReplyTo(req[r].key, a)
             /\ req'[x].key = req[x].key /\ req'[x].ran = req[x].ran /\ req'[x].rev = req[x].rev
  <2>1. /\ req'[x].phase = "answered" /\ req'[x].answer = a
        /\ req'[x].key = req[x].key /\ req'[x].ran = req[x].ran /\ req'[x].rev = req[x].rev
    <3>1. x \in Requests
      BY <1>4
    <3> DEFINE q == [req[x] EXCEPT !.phase = "answered", !.answer = a]
    <3>2. /\ q.key = req[x].key /\ q.ran = req[x].ran /\ q.rev = req[x].rev
          /\ q.phase = "answered" /\ q.answer = a
      BY <1>1, <3>1
    <3>3. req'[x] = q
      BY <1>3
    <3> HIDE DEF q
    <3>4. QED
      BY <3>2, <3>3
  <2>2. QED
    BY <1>4, <2>1 DEF Reply, ReplyTo
<1>6. QED
  BY <1>2, <1>4, <1>5

\* Calls are answered: the invariant, given that the answer is the row's.
LEMMA ResolvedFine ==
  ASSUME TypeInv, OnceInv, ReplyInv, RowsKept, NEW r \in Requests, NEW a \in Answer,
         req' = Resolved(req, r, a), req[r].phase # "answered",
         a.kind = "executed" => /\ Ended(req[r].key)'
                                /\ receipts'[req[r].key].result = a.outcome,
         req[r].ran => req[r].phase = "running",
         \A x \in Requests \ {r} : Active(x) => ~Ended(req[x].key)'
  PROVE  \A x \in Requests : Fine(x)'
<1>1. /\ \A x \in Requests : /\ req'[x].key = req[x].key /\ req'[x].ran = req[x].ran
                             /\ req'[x].rev = req[x].rev
      /\ \A x \in Requests \ Listening(r) : req'[x] = req[x]
      /\ \A x \in Listening(r) :
            /\ req[x].key = req[r].key
            /\ req'[x].phase = "answered" /\ req'[x].answer = a
  BY ResolvedTells
<1>2. ASSUME NEW x \in Listening(r) PROVE Fine(x)'
  <2>1. Fine(x) /\ x \in Requests
    BY DEF ReplyInv, Listening
  <2>2. Answered(x)'
    BY <1>1, <2>1 DEF Answered, Ended
  <2>3. ~Active(x)'
    BY <1>1 DEF Active
  <2>4. QED
    BY <1>1, <2>1, <2>2, <2>3 DEF Fine
<1>3. ASSUME NEW x \in Requests \ Listening(r) PROVE Fine(x)'
  <2>1. KeysKept
    BY <1>1 DEF KeysKept
  <2>2. x # r
    BY DEF Listening
  <2>3. QED
    BY <1>1, <2>1, <2>2, FineKept
<1>4. QED
  BY <1>2, <1>3

Logged == Log!LogNext \/ UNCHANGED Log!logVars

\* Nothing is started, finished or told.
LEMMA QuietStep ==
  ASSUME ReplyInv, RowsKept, KeysKept, \A k \in Keys : Ended(k)' => Ended(k),
         \A x \in Requests : (req'[x].ran <=> req[x].ran) /\ Reply(x)' = Reply(x)
  PROVE  Logged
<1>1. \A k \in Keys : Effect(k)' = Effect(k)
  BY EffectsSame
<1>2. QED
  BY <1>1, LogStutter DEF Logged

LEMMA RowsUnchanged ==
  ASSUME UNCHANGED receipts
  PROVE  /\ RowsKept /\ \A k : Ended(k)' <=> Ended(k)
         /\ Ends => Ends'
BY DEF RowsKept, Ended, Ends

LEMMA KeepFine ==
  ASSUME TypeInv, OnceInv, ReplyInv, RowsKept, KeysKept, NEW x \in Requests,
         req'[x] = req[x], \A k : Ended(k)' => Ended(k)
  PROVE  Fine(x)'
<1>1. Active(x) => ~Ended(req[x].key)'
  BY DEF ReplyInv, Fine, Ended
<1>2. QED
  BY <1>1, FineKept

\* One call moves, the ledger does not.
LEMMA MoveFine ==
  ASSUME TypeInv, OnceInv, ReplyInv, UNCHANGED <<revision, receipts>>, NEW r \in Requests,
         \A x \in Requests \ {r} : req'[x] = req[x],
         req[r].phase # "new" => req'[r].key = req[r].key,
         Fine(r)'
  PROVE  ReplyInv' /\ KeysKept
<1>1. KeysKept
  BY DEF KeysKept
<1>2. RowsKept /\ (\A k : Ended(k)' => Ended(k)) /\ (Ends => Ends')
  BY RowsUnchanged
<1>3. \A x \in Requests : Fine(x)'
  BY <1>1, <1>2, KeepFine
<1>4. QED
  BY <1>1, <1>2, <1>3 DEF ReplyInv

\* One call is settled with its row's outcome or with a reason, the ledger unmoved.
LEMMA SettleStep ==
  ASSUME TypeInv, OnceInv, ReplyInv, UNCHANGED <<revision, receipts>>,
         NEW r \in Requests, NEW a \in Answer, req' = Resolved(req, r, a),
         req[r].phase \notin {"answered", "new"},
         req[r].ran => req[r].phase = "running",
         a.kind = "executed" => Ended(req[r].key) /\ receipts[req[r].key].result = a.outcome
  PROVE  ReplyInv' /\ Logged
<1>1. RowsKept /\ (\A k : Ended(k)' <=> Ended(k)) /\ (Ends => Ends')
  BY RowsUnchanged
<1>2. ReplyInv'
  <2>0. \A x \in Requests : req'[x].key = req[x].key
    BY ResolvedTells
  <2>1. a.kind = "executed" => /\ Ended(req[r].key)'
                               /\ receipts'[req[r].key].result = a.outcome
    BY <2>0 DEF Ended
  <2>2. \A x \in Requests \ {r} : Active(x) => ~Ended(req[x].key)'
    BY <2>0 DEF ReplyInv, Fine, Ended
  <2>3. \A x \in Requests : Fine(x)'
    BY <1>1, <2>1, <2>2, ResolvedFine
  <2>4. QED
    BY <1>1, <2>3 DEF ReplyInv
<1>3. /\ \A x \in Requests : /\ req'[x].key = req[x].key /\ req'[x].ran = req[x].ran
      /\ \A x \in Requests \ Listening(r) : Reply(x)' = Reply(x)
      /\ \A x \in Listening(r) : Reply(x) = None /\ Reply(x)' = ReplyTo(req[r].key, a)
  BY ResolvedTells
<1>4. \A k \in Keys : Effect(k)' = Effect(k)
  <2>1. KeysKept
    BY <1>3 DEF KeysKept
  <2>2. QED
    BY <1>1, <1>3, <2>1, EffectsSame
<1>5. Listening(r) \in SUBSET Requests
  BY DEF Listening
<1>6. CASE a.kind = "executed"
  <2>1. req[r].key \in Keys /\ a.outcome \in LogOutcomes
    BY <1>6 DEF TypeInv, Ledger!LedgerTypeOK, ReplyInv, Ends, Ended
  <2>2. Effect(req[r].key) = <<"done", a.outcome>>
    BY <1>6 DEF Effect, Ended
  <2>3. ReplyTo(req[r].key, a) = <<req[r].key, a.outcome>>
    BY <1>6 DEF ReplyTo
  <2>4. QED
    BY <1>2, <1>3, <1>4, <1>5, <2>1, <2>2, <2>3, LogReport DEF Logged
<1>7. CASE a.kind # "executed"
  <2>1. ReplyTo(req[r].key, a) = <<"refused">>
    BY <1>7 DEF ReplyTo
  <2>2. QED
    BY <1>2, <1>3, <1>4, <1>5, <2>1, LogRefuse DEF Logged
<1>8. QED
  BY <1>6, <1>7

LEMMA EnqueueLog ==
  ASSUME TypeInv, OnceInv, ReplyInv, NEW g \in Gens, NEW r \in Requests, NEW k \in Keys,
         NEW op, NEW e, NEW busy, Enqueue(g, r, k, op, e, busy)
  PROVE  ReplyInv' /\ Logged
<1> DEFINE q == [NewRequest EXCEPT
                   !.phase = "queued", !.gen = g, !.key = k, !.op = op, !.expected = e,
                   !.busy = busy, !.owner = None, !.answer = None]
<1>1. req' = [req EXCEPT ![r] = q]
  BY Zenon DEF Enqueue, Call
<1>2. q.phase = "queued" /\ q.ran = FALSE /\ q.rev = 0
  BY DEF NewRequest
<1> HIDE DEF q
<1>3. req'[r] = q /\ \A x \in Requests \ {r} : req'[x] = req[x]
  BY <1>1, OneCall DEF TypeInv
<1>4. req[r].phase = "new" /\ ~req[r].ran /\ UNCHANGED <<revision, receipts>>
  BY DEF Enqueue, Called, ReplyInv, Fine
<1>5. Fine(r)'
  BY <1>2, <1>3, ArbiterAssumption DEF Fine, Active
<1>6. ReplyInv' /\ KeysKept
  BY <1>3, <1>4, <1>5, MoveFine
<1>7. \A x \in Requests : (req'[x].ran <=> req[x].ran) /\ Reply(x)' = Reply(x)
  BY <1>2, <1>3, <1>4 DEF Reply
<1>8. QED
  BY <1>4, <1>6, <1>7, RowsUnchanged, QuietStep

LEMMA JoinLog ==
  ASSUME TypeInv, OnceInv, ReplyInv, NEW g \in Gens, NEW r \in Requests, NEW k \in Keys,
         NEW op, NEW e, NEW busy, Join(g, r, k, op, e, busy)
  PROVE  ReplyInv' /\ Logged
<1>1. PICK p \in Prior(g, k) :
          IF Fingerprint(p) # <<op, e>>
          THEN Call(g, r, k, op, e, busy, "answered", None, Refused("invalidReuse"))
          ELSE IF req[p].phase = "answered"
          THEN Call(g, r, k, op, e, busy, "answered", p, req[p].answer)
          ELSE Call(g, r, k, op, e, busy, "joined", p, None)
  BY DEF Join
<1>2. p \in Requests /\ req[p].key = k
  <2>1. arb[g].receipts \in Seq(Requests)
    BY DEF TypeInv, ArbOK, Arbiter
  <2>2. ToSet(arb[g].receipts) \subseteq Requests
    BY <2>1 DEF ToSet
  <2>3. QED
    BY <1>1, <2>2 DEF Prior
<1>3. PICK phase, owner, answer :
         /\ Call(g, r, k, op, e, busy, phase, owner, answer)
         /\ \/ phase = "answered" /\ answer = Refused("invalidReuse")
            \/ phase = "answered" /\ req[p].phase = "answered" /\ answer = req[p].answer
            \/ phase = "joined" /\ owner = p
  BY <1>1, Zenon
<1> DEFINE q == [NewRequest EXCEPT
                   !.phase = phase, !.gen = g, !.key = k, !.op = op, !.expected = e,
                   !.busy = busy, !.owner = owner, !.answer = answer]
<1>4. req' = [req EXCEPT ![r] = q]
  BY <1>3, Zenon DEF Call
<1>5. q.phase = phase /\ q.ran = FALSE /\ q.rev = 0 /\ q.key = k /\ q.owner = owner /\ q.answer = answer
  BY DEF NewRequest
<1> HIDE DEF q
<1>6. req'[r] = q /\ \A x \in Requests \ {r} : req'[x] = req[x]
  BY <1>4, OneCall DEF TypeInv
<1>7. req[r].phase = "new" /\ ~req[r].ran /\ req[r].key = None /\ UNCHANGED <<revision, receipts>>
  BY DEF Join, Called, ReplyInv, Fine
<1>8. p # r
  BY <1>2, <1>7, ArbiterAssumption
<1>9. phase = "answered" =>
        /\ answer \in Answer
        /\ answer.kind = "executed" => Ended(k) /\ receipts[k].result = answer.outcome
  <2>1. Refused("invalidReuse") \in Answer /\ Refused("invalidReuse").kind # "executed"
    BY RefusedType DEF Refused, Refusals
  <2>2. req[p].phase = "answered" => Answered(p)
    BY <1>2 DEF ReplyInv, Fine
  <2>3. QED
    BY <1>2, <1>3, <2>1, <2>2 DEF Answered, Ended
<1>10. phase \in {"answered", "joined"}
  BY <1>3
<1>11. Fine(r)'
  <2>1. phase = "joined" => owner = p
    BY <1>3
  <2>2. req'[p].key = k
    BY <1>2, <1>6, <1>8
  <2>3. phase = "answered" => Answered(r)'
    BY <1>5, <1>6, <1>7, <1>9 DEF Answered, Ended
  <2>4. ~Active(r)'
    BY <1>5, <1>6, <1>10 DEF Active
  <2>5. QED
    BY <1>2, <1>5, <1>6, <1>10, <2>1, <2>2, <2>3, <2>4, ArbiterAssumption DEF Fine
<1>12. ReplyInv' /\ KeysKept
  BY <1>6, <1>7, <1>11, MoveFine
<1>13. RowsKept /\ \A j : Ended(j)' <=> Ended(j)
  BY <1>7, RowsUnchanged
<1>14. \A x \in Requests : req'[x].ran <=> req[x].ran
  BY <1>5, <1>6, <1>7
<1>15. \A j \in Keys : Effect(j)' = Effect(j)
  BY <1>12, <1>13, <1>14, EffectsSame
<1>16. Reply(r) = None /\ \A x \in Requests \ {r} : Reply(x)' = Reply(x)
  BY <1>6, <1>7 DEF Reply
<1>17. CASE phase = "joined"
  <2>1. Reply(r)' = None
    BY <1>5, <1>6, <1>17 DEF Reply
  <2>2. QED
    BY <1>12, <1>15, <1>16, <2>1, LogStutter DEF Logged
<1>18. CASE phase = "answered" /\ answer.kind = "executed"
  <2>1. Reply(r)' = <<k, answer.outcome>>
    BY <1>5, <1>6, <1>18 DEF Reply
  <2>2. Effect(k) = <<"done", answer.outcome>> /\ answer.outcome \in LogOutcomes
    BY <1>9, <1>18 DEF Effect, Ended, ReplyInv, Ends
  <2>3. {r} \in SUBSET Requests
    OBVIOUS
  <2>4. QED
    BY <1>12, <1>15, <1>16, <2>1, <2>2, <2>3, LogReport DEF Logged
<1>19. CASE phase = "answered" /\ answer.kind # "executed"
  <2>1. Reply(r)' = <<"refused">>
    BY <1>5, <1>6, <1>19 DEF Reply
  <2>2. {r} \in SUBSET Requests
    OBVIOUS
  <2>3. QED
    BY <1>12, <1>15, <1>16, <2>1, <2>2, LogRefuse DEF Logged
<1>20. QED
  BY <1>10, <1>17, <1>18, <1>19

\* A call at the head of an admission lane is undecided, so it never ran.
LEMMA AdmissionHead ==
  ASSUME TypeInv, LaneInv, ReplyInv, NEW g \in Gens, NEW r \in Requests, AtAdmission(g, r)
  PROVE  Unadmitted(r) /\ req[r].key \in Keys /\ ~req[r].ran
<1>1. arb[g].admissions \in Seq(Requests) /\ arb[g].admissions # <<>> /\ g \in alive
  BY TypedAt DEF AtAdmission
<1>2. Within(arb[g].admissions, r)
  BY <1>1 DEF Within, AtAdmission
<1>3. Unadmitted(r)
  BY <1>1, <1>2 DEF LaneInv, AdmissionInv
<1>4. QED
  BY <1>3 DEF TypeInv, ReqOK, ReplyInv, Fine, Unadmitted

LEMMA EndRefusedLog ==
  ASSUME TypeInv, OnceInv, LaneInv, ReplyInv, NEW g \in Gens, NEW r \in Requests,
         AtAdmission(g, r), NEW a \in Answer, NEW clock, EndRefused(g, r, a, clock),
         UNCHANGED <<revision, receipts>>,
         a.kind = "executed" => Ended(req[r].key) /\ receipts[req[r].key].result = a.outcome
  PROVE  ReplyInv' /\ Logged
<1>1. Unadmitted(r) /\ req[r].key \in Keys /\ ~req[r].ran
  BY AdmissionHead
<1>2. CASE Lane(r) # "normal"
  <2>1. req' = Resolved(req, r, a)
    BY <1>2, Zenon DEF EndRefused
  <2>2. req[r].phase \notin {"answered", "new"}
    BY <1>1 DEF Unadmitted
  <2>3. QED
    BY <1>1, <2>1, <2>2, SettleStep
<1>3. CASE Lane(r) = "normal"
  <2> DEFINE q == [req[r] EXCEPT !.phase = "refused", !.answer = a]
  <2>1. req' = [req EXCEPT ![r] = q]
    BY <1>3, Zenon DEF EndRefused
  <2>2. /\ q.phase = "refused" /\ q.answer = a /\ q.key = req[r].key
        /\ q.ran = req[r].ran /\ q.rev = req[r].rev
    <3>1. req[r] \in Request
      BY DEF TypeInv, ReqOK
    <3>2. QED
      BY <3>1 DEF Request
  <2> HIDE DEF q
  <2>3. req'[r] = q /\ \A x \in Requests \ {r} : req'[x] = req[x]
    BY <2>1, OneCall DEF TypeInv
  <2>4. Fine(r)'
    <3>1. Fine(r)
      BY DEF ReplyInv
    <3>2. Answered(r)'
      BY <2>2, <2>3 DEF Answered, Ended
    <3>3. ~Active(r)'
      BY <2>2, <2>3 DEF Active
    <3>4. QED
      BY <1>1, <2>2, <2>3, <3>1, <3>2, <3>3 DEF Fine
  <2>5. ReplyInv' /\ KeysKept
    BY <2>2, <2>3, <2>4, MoveFine
  <2>6. \A x \in Requests : (req'[x].ran <=> req[x].ran) /\ Reply(x)' = Reply(x)
    BY <1>1, <2>2, <2>3 DEF Reply, Unadmitted
  <2>7. QED
    BY <2>5, <2>6, RowsUnchanged, QuietStep
<1>4. QED
  BY <1>2, <1>3

LEMMA AwaitLog ==
  ASSUME TypeInv, OnceInv, LaneInv, ReplyInv, NEW g \in Gens, NEW r \in Requests,
         AwaitPrecondition(g, r)
  PROVE  ReplyInv' /\ Logged
<1> DEFINE q == [req[r] EXCEPT !.phase = "checked"]
<1>1. req' = [req EXCEPT ![r] = q]
  BY Zenon DEF AwaitPrecondition
<1>2. q.phase = "checked" /\ q.key = req[r].key /\ q.ran = req[r].ran /\ q.rev = req[r].rev
  <2>1. req[r] \in Request
    BY DEF TypeInv, ReqOK
  <2>2. QED
    BY <2>1 DEF Request
<1> HIDE DEF q
<1>3. req'[r] = q /\ \A x \in Requests \ {r} : req'[x] = req[x]
  BY <1>1, OneCall DEF TypeInv
<1>4. req[r].phase = "queued" /\ UNCHANGED <<revision, receipts>>
  BY DEF AwaitPrecondition
<1>5. ~req[r].ran /\ Fine(r)'
  BY <1>2, <1>3, <1>4 DEF ReplyInv, Fine, Active
<1>6. ReplyInv' /\ KeysKept
  BY <1>2, <1>3, <1>4, <1>5, MoveFine
<1>7. \A x \in Requests : (req'[x].ran <=> req[x].ran) /\ Reply(x)' = Reply(x)
  BY <1>2, <1>3, <1>4 DEF Reply
<1>8. QED
  BY <1>4, <1>6, <1>7, RowsUnchanged, QuietStep

LEMMA AdmitLog ==
  ASSUME TypeInv, OnceInv, LaneInv, ReplyInv, NEW g \in Gens, NEW r \in Requests, Admit(g, r)
  PROVE  ReplyInv' /\ Logged
<1> DEFINE ahead == {c \in ToSet(Tail(arb[g].admissions)) : Lane(c) = "cancel"}
           ran == Lane(r) # "normal"
           phase == IF Lane(r) = "normal" THEN "admitted" ELSE "running"
           q == [req[r] EXCEPT !.phase = phase, !.rev = revision', !.ran = ran,
                               !.ahead = ahead]
<1>1. req' = [req EXCEPT ![r] = q]
  BY Zenon DEF Admit
<1>2. PICK k \in Keys : k = req[r].key /\ Unadmitted(r) /\ ~req[r].ran
  BY AdmissionHead DEF Admit
<1>3. /\ k \notin DOMAIN receipts /\ DOMAIN receipts' = DOMAIN receipts \cup {k}
      /\ \A j \in DOMAIN receipts : receipts'[j] = receipts[j]
      /\ receipts'[k].status = "admitted"
      /\ revision' <= MaxRevision
  BY <1>2, ArbiterAssumption DEF Admit, Ledger!AdmitMutation, Ledger!InsertRow,
     TypeInv, Ledger!LedgerTypeOK
<1> HIDE DEF ahead, phase
<1>4. q.phase = phase /\ q.key = req[r].key /\ q.rev = revision' /\ q.ran = ran
  <2>1. req[r] \in Request
    BY DEF TypeInv, ReqOK
  <2>2. QED
    BY <2>1 DEF Request
<1> HIDE DEF q
<1>5. req'[r] = q /\ \A x \in Requests \ {r} : req'[x] = req[x]
  BY <1>1, OneCall DEF TypeInv
<1>6. phase = (IF ran THEN "running" ELSE "admitted") /\ ran \in BOOLEAN
  BY DEF phase
<1> HIDE DEF ran
<1>7. RowsKept /\ \A j : Ended(j)' <=> Ended(j)
  BY <1>3 DEF RowsKept, Ended, Ledger!Terminal
<1>8. KeysKept
  BY <1>4, <1>5 DEF KeysKept
<1>9. Ends'
  BY <1>3, <1>7 DEF ReplyInv, Ends, Ended
<1>10. Fine(r)'
  BY <1>2, <1>3, <1>4, <1>5, <1>6, ArbiterAssumption DEF Fine, Active, Ledger!Terminal
<1>11. ReplyInv'
  <2>1. \A x \in Requests : Fine(x)'
    BY <1>5, <1>7, <1>8, <1>10, KeepFine
  <2>2. QED
    BY <1>3, <1>9, <2>1 DEF ReplyInv
<1>12. \A x \in Requests : Reply(x)' = Reply(x)
  BY <1>2, <1>4, <1>5, <1>6 DEF Reply, Unadmitted
<1>13. CASE ~ran
  <2>1. \A x \in Requests : req'[x].ran <=> req[x].ran
    BY <1>2, <1>4, <1>5, <1>13
  <2>2. QED
    BY <1>7, <1>8, <1>11, <1>12, <2>1, QuietStep
<1>14. CASE ran
  <2>1. ~Begun(k) /\ ~Ended(k) /\ ~Ended(k)'
    BY <1>3, <1>7 DEF OnceInv, MayRun, Begun, Ended
  <2>2. Begun(k)'
    BY <1>2, <1>4, <1>5, <1>14 DEF Begun
  <2>3. Effect(k) = <<"none">> /\ Effect(k)' = <<"begun">>
    BY <2>1, <2>2 DEF Effect, Ended, Begun
  <2>4. ASSUME NEW j \in Keys \ {k} PROVE Effect(j)' = Effect(j)
    <3>1. Begun(j)' <=> Begun(j)
      BY <1>2, <1>4, <1>5 DEF Begun
    <3>2. QED
      BY <1>7, <3>1, EffectSame
  <2>5. QED
    BY <1>11, <1>12, <2>3, <2>4, LogBegin DEF Logged
<1>15. QED
  BY <1>13, <1>14

LEMMA AdmissionLog ==
  ASSUME TypeInv, OnceInv, LaneInv, ReplyInv, NEW g \in Gens, NEW r \in Requests,
         AdmissionStep(g, r)
  PROVE  ReplyInv' /\ Logged
<1>1. CASE Replay(g, r)
  <2>1. AtAdmission(g, r) /\ UNCHANGED <<revision, receipts>> /\ LookupOf(r) # "miss"
    BY <1>1, Zenon DEF Replay
  <2>2. PICK clock : EndRefused(g, r, DurableAnswer(r), clock)
    BY <1>1, Zenon DEF Replay
  <2>3. DurableAnswer(r) \in Answer
    BY <2>1, DurableAnswerType DEF TypeInv
  <2>4. DurableAnswer(r).kind = "executed" =>
           Ended(req[r].key) /\ receipts[req[r].key].result = DurableAnswer(r).outcome
    BY <2>1 DEF DurableAnswer, Refused, Executed, Ended, LookupOf, Ledger!Lookup
  <2>5. QED
    BY <2>1, <2>2, <2>3, <2>4, EndRefusedLog
<1>2. ASSUME NEW why \in Refusals, NEW clock, EndRefused(g, r, Refused(why), clock),
             AtAdmission(g, r), UNCHANGED <<revision, receipts>>
      PROVE  ReplyInv' /\ Logged
  <2>1. Refused(why) \in Answer /\ Refused(why).kind # "executed"
    BY RefusedType DEF Refused, Refusals
  <2>2. QED
    BY <1>2, <2>1, EndRefusedLog
<1>3. CASE Conflict(g, r)
  BY <1>2, <1>3, Zenon DEF Conflict, Refusals
<1>4. CASE Decline(g, r)
  BY <1>2, <1>4, Zenon DEF Decline, Refusals
<1>5. CASE AdmissionFault(g, r)
  BY <1>2, <1>5, Zenon DEF AdmissionFault, Refusals
<1>6. QED
  BY <1>1, <1>3, <1>4, <1>5, AwaitLog, AdmitLog DEF AdmissionStep

LEMMA SettleRefusedLog ==
  ASSUME TypeInv, OnceInv, ReplyInv, NEW g \in Gens, NEW r \in Requests, SettleRefused(g, r)
  PROVE  ReplyInv' /\ Logged
<1>1. /\ req[r].phase = "refused" /\ req' = Resolved(req, r, req[r].answer)
      /\ UNCHANGED <<revision, receipts>>
  BY Zenon DEF SettleRefused
<1>2. Answered(r) /\ ~req[r].ran
  BY <1>1 DEF ReplyInv, Fine
<1>3. req[r].answer.kind = "executed" =>
         Ended(req[r].key) /\ receipts[req[r].key].result = req[r].answer.outcome
  BY <1>2 DEF Answered, Ended
<1>4. PICK a \in Answer : a = req[r].answer
  BY <1>2 DEF Answered
<1>5. QED
  BY <1>1, <1>2, <1>3, <1>4, SettleStep

LEMMA TakeBarrierLog ==
  ASSUME TypeInv, OnceInv, ReplyInv, NEW g \in Gens, NEW r \in Requests, TakeBarrier(g, r)
  PROVE  ReplyInv' /\ Logged
<1> DEFINE q == [req[r] EXCEPT !.phase = "armed", !.barrier = arb[g].cancelTail]
<1>1. req' = [req EXCEPT ![r] = q]
  BY Zenon DEF TakeBarrier
<1>2. q.phase = "armed" /\ q.key = req[r].key /\ q.ran = req[r].ran /\ q.rev = req[r].rev
  <2>1. req[r] \in Request
    BY DEF TypeInv, ReqOK
  <2>2. QED
    BY <2>1 DEF Request
<1> HIDE DEF q
<1>3. req'[r] = q /\ \A x \in Requests \ {r} : req'[x] = req[x]
  BY <1>1, OneCall DEF TypeInv
<1>4. req[r].phase = "admitted" /\ UNCHANGED <<revision, receipts>>
  BY DEF TakeBarrier
<1>5. Fine(r)'
  BY <1>2, <1>3, <1>4 DEF ReplyInv, Fine, Active
<1>6. ReplyInv' /\ KeysKept
  BY <1>2, <1>3, <1>4, <1>5, MoveFine
<1>7. \A x \in Requests : (req'[x].ran <=> req[x].ran) /\ Reply(x)' = Reply(x)
  BY <1>2, <1>3, <1>4 DEF Reply
<1>8. QED
  BY <1>4, <1>6, <1>7, RowsUnchanged, QuietStep

LEMMA StartLog ==
  ASSUME TypeInv, OnceInv, ReplyInv, NEW g \in Gens, NEW r \in Requests, Start(g, r)
  PROVE  ReplyInv' /\ Logged
<1> DEFINE q == [req[r] EXCEPT !.phase = "running", !.ran = TRUE]
<1>1. req' = [req EXCEPT ![r] = q]
  BY Zenon DEF Start
<1>2. q.phase = "running" /\ q.key = req[r].key /\ q.ran = TRUE /\ q.rev = req[r].rev
  <2>1. req[r] \in Request
    BY DEF TypeInv, ReqOK
  <2>2. QED
    BY <2>1 DEF Request
<1> HIDE DEF q
<1>3. req'[r] = q /\ \A x \in Requests \ {r} : req'[x] = req[x]
  BY <1>1, OneCall DEF TypeInv
<1>4. req[r].phase = "armed" /\ UNCHANGED <<revision, receipts>>
  BY DEF Start
<1>5. Active(r) /\ Fine(r) /\ ~req[r].ran
  BY <1>4 DEF ReplyInv, Fine, Active
<1>6. Fine(r)'
  BY <1>2, <1>3, <1>4, <1>5 DEF Fine, Active
<1>7. ReplyInv' /\ KeysKept
  BY <1>2, <1>3, <1>4, <1>6, MoveFine
<1>8. PICK k \in Keys : k = req[r].key /\ ~Ended(k)
  BY <1>5, ActiveAccepted DEF TypeInv, Ledger!LedgerTypeOK, Fine, Ended
<1>9. RowsKept /\ \A j : Ended(j)' <=> Ended(j)
  BY <1>4, RowsUnchanged
<1>10. ~Begun(k)
  <2>1. \A s \in Requests : req[s].ran /\ req[s].key = k => s = r
    BY <1>4, <1>8 DEF OnceInv, MayRun
  <2>2. QED
    BY <1>5, <2>1 DEF Begun
<1>11. Begun(k)'
  BY <1>2, <1>3, <1>8 DEF Begun
<1>12. Effect(k) = <<"none">> /\ Effect(k)' = <<"begun">>
  <2>1. ~Ended(k)'
    BY <1>8, <1>9
  <2>2. QED
    BY <1>8, <1>10, <1>11, <2>1 DEF Effect, Ended, Begun
<1>13. ASSUME NEW j \in Keys \ {k} PROVE Effect(j)' = Effect(j)
  <2>1. Begun(j)' <=> Begun(j)
    BY <1>2, <1>3, <1>8 DEF Begun
  <2>2. QED
    BY <1>9, <2>1, EffectSame
<1>14. \A x \in Requests : Reply(x)' = Reply(x)
  BY <1>2, <1>3, <1>4 DEF Reply
<1>15. QED
  BY <1>7, <1>12, <1>13, <1>14, LogBegin DEF Logged

LEMMA FinishLog ==
  ASSUME TypeInv, OnceInv, ReplyInv, NEW g \in Gens, NEW r \in Requests,
         NEW status \in {"completed", "failed"}, Finish(g, r, status)
  PROVE  ReplyInv' /\ Logged
<1> DEFINE o == [status |-> status, revision |-> req[r].rev]
<1>1. /\ req[r].phase = "running"
      /\ \/ /\ Ledger!CompleteMutation(req[r].key, status, o)
            /\ req' = Resolved(req, r, Executed(o))
         \/ /\ req' = Resolved(req, r, Refused("unrecorded"))
            /\ UNCHANGED <<revision, receipts>>
  BY Zenon DEF Finish
<1>2. o \in LogOutcomes /\ o \in Outcomes /\ o.status = status
  BY ArbiterAssumption DEF TypeInv, ReqOK, Request, ReplyInv, Fine, LogOutcomes, Outcomes
<1> HIDE DEF o
<1>3. Active(r) /\ Fine(r) /\ req[r].ran
  BY <1>1 DEF Active, ReplyInv, Fine
<1>4. CASE req' = Resolved(req, r, Refused("unrecorded")) /\ UNCHANGED <<revision, receipts>>
  <2>1. Refused("unrecorded") \in Answer /\ Refused("unrecorded").kind # "executed"
    BY RefusedType DEF Refused, Refusals
  <2>2. QED
    BY <1>1, <1>4, <2>1, SettleStep
<1>5. CASE Ledger!CompleteMutation(req[r].key, status, o) /\ req' = Resolved(req, r, Executed(o))
  <2>1. PICK k \in Keys : k = req[r].key /\ ~Ended(k) /\ k \in DOMAIN receipts
    BY <1>3, ActiveAccepted DEF TypeInv, Ledger!LedgerTypeOK, Fine, Ended
  <2>2. /\ DOMAIN receipts' = DOMAIN receipts
        /\ \A j \in DOMAIN receipts \ {k} : receipts'[j] = receipts[j]
        /\ receipts'[k].status = status /\ receipts'[k].result = o
        /\ revision' = revision
    <3>1. receipts' = [receipts EXCEPT ![k] = [receipts[k] EXCEPT !.status = status, !.result = o]]
      BY <1>5, <2>1 DEF Ledger!CompleteMutation
    <3>2. receipts[k] \in Ledger!Row
      BY <2>1 DEF TypeInv, Ledger!LedgerTypeOK
    <3>3. receipts \in [DOMAIN receipts -> Ledger!Row]
      BY DEF TypeInv, Ledger!LedgerTypeOK
    <3>4. revision' = revision
      BY <1>5 DEF Ledger!CompleteMutation
    <3>5. QED
      BY <2>1, <3>1, <3>2, <3>3, <3>4 DEF Ledger!Row
  <2>3. /\ RowsKept /\ Ends' /\ Ended(k)' /\ receipts'[k].result = o
        /\ \A j : j # k => (Ended(j)' <=> Ended(j))
    BY <1>2, <2>1, <2>2 DEF RowsKept, Ended, Ends, Ledger!Terminal, ReplyInv
  <2>4. PICK a \in Answer : a = Executed(o) /\ a.kind = "executed" /\ a.outcome = o
    <3>1. Executed(o).kind = "executed" /\ Executed(o).outcome = o
      BY DEF Executed
    <3>2. Executed(o) \in [kind : {"executed"}, outcome : Outcomes]
      BY <1>2 DEF Executed
    <3>3. QED
      BY <3>1, <3>2 DEF Answer
  <2>5. /\ \A x \in Requests : /\ req'[x].key = req[x].key /\ req'[x].ran = req[x].ran
        /\ \A x \in Requests \ Listening(r) : Reply(x)' = Reply(x)
        /\ \A x \in Listening(r) : Reply(x) = None /\ Reply(x)' = ReplyTo(k, a)
    BY <1>1, <1>5, <2>1, <2>4, ResolvedTells
  <2>6. ASSUME NEW x \in Requests \ {r}, Active(x) PROVE ~Ended(req[x].key)'
    <3>1. Fine(x)
      BY DEF ReplyInv
    <3>2. req[x].rev # 0 /\ req[r].rev # 0 /\ req[x].key \in DOMAIN receipts
      BY <1>3, <2>6, <3>1, ActiveAccepted
    <3>3. req[x].key # k
      BY <2>1, <2>6, <3>2 DEF OnceInv
    <3>4. ~Ended(req[x].key)
      BY <2>6, <3>1 DEF Fine, Ended
    <3>5. PICK j : j = req[x].key
      OBVIOUS
    <3>6. ~Ended(j)'
      BY <2>3, <3>3, <3>4, <3>5
    <3>7. QED
      BY <2>5, <3>5, <3>6
  <2>7. \A x \in Requests : Fine(x)'
    <3>1. a.kind = "executed" => Ended(req[r].key)' /\ receipts'[req[r].key].result = a.outcome
      BY <2>1, <2>3, <2>4, <2>5
    <3>2. QED
      BY <1>1, <1>3, <1>5, <2>3, <2>4, <2>6, <3>1, ResolvedFine
  <2>8. ReplyInv'
    BY <2>2, <2>3, <2>7 DEF ReplyInv
  <2>9. Effect(k) = <<"begun">>
    BY <1>3, <2>1 DEF Effect, Ended
  <2>10. Effect(k)' = <<"done", o>>
    BY <2>3 DEF Effect, Ended
  <2>11. ASSUME NEW j \in Keys \ {k} PROVE Effect(j)' = Effect(j)
    <3>1. Begun(j)' <=> Begun(j)
      BY <2>5 DEF Begun
    <3>2. QED
      BY <2>3, <3>1, EffectSame
  <2>12. ReplyTo(k, a) = <<k, o>> /\ Listening(r) \in SUBSET Requests
    BY <2>4 DEF ReplyTo, Listening
  <2>13. QED
    BY <1>2, <2>5, <2>8, <2>9, <2>10, <2>11, <2>12, LogEnd DEF Logged
<1>6. QED
  BY <1>1, <1>4, <1>5

LEMMA PublishLog ==
  ASSUME TypeInv, OnceInv, ReplyInv, NEW g \in Gens,
         PublishAutonomous(g) \/ \E n \in 0..MaxPublished : PublishDurable(g, n)
  PROVE  ReplyInv' /\ Logged
<1>1. req' = req /\ receipts' = receipts
  BY DEF PublishAutonomous, PublishDurable, Ledger!SeedSessionRevision
<1>2. revision' <= MaxRevision
  BY DEF PublishAutonomous, PublishDurable, Ledger!SeedSessionRevision, Ledger!Larger, ReplyInv
<1>3. RowsKept /\ (\A k : Ended(k)' <=> Ended(k)) /\ (Ends => Ends')
  BY <1>1, RowsUnchanged
<1>4. KeysKept
  BY <1>1 DEF KeysKept
<1>5. \A x \in Requests : Fine(x)'
  BY <1>1, <1>3, <1>4, KeepFine
<1>6. ReplyInv'
  BY <1>2, <1>3, <1>5 DEF ReplyInv
<1>7. \A x \in Requests : (req'[x].ran <=> req[x].ran) /\ Reply(x)' = Reply(x)
  BY <1>1 DEF Reply
<1>8. QED
  BY <1>3, <1>4, <1>6, <1>7, QuietStep

LEMMA GenerationLog ==
  ASSUME TypeInv, OnceInv, ReplyInv, Restart \/ Split \/ \E g \in Gens : Recreate(g)
  PROVE  ReplyInv' /\ Logged
<1>1. /\ DOMAIN receipts' = DOMAIN receipts
      /\ \A k \in DOMAIN receipts : /\ receipts'[k].result = receipts[k].result
                                    /\ Ended(k)' <=> Ended(k)
                                    /\ Ended(k) => receipts'[k] = receipts[k]
      /\ revision' = revision
  <2>1. CASE \E g \in Gens : Recreate(g)
    BY <2>1 DEF Recreate, Ended
  <2>2. CASE Restart \/ Split
    <3>1. Ledger!RecoverInDoubt
      BY <2>2 DEF Restart, Split
    <3>2. ASSUME NEW k \in DOMAIN receipts
          PROVE  /\ receipts'[k].result = receipts[k].result
                 /\ Ended(k)' <=> Ended(k)
                 /\ Ended(k) => receipts'[k] = receipts[k]
      <4>1. receipts[k] \in Ledger!Row
        BY DEF TypeInv, Ledger!LedgerTypeOK
      <4>2. /\ receipts'[k] = IF receipts[k].status = "admitted"
                              THEN [receipts[k] EXCEPT !.status = "in_doubt"]
                              ELSE receipts[k]
            /\ k \in DOMAIN receipts'
        BY <3>1 DEF Ledger!RecoverInDoubt
      <4>3. QED
        BY <4>1, <4>2 DEF Ended, Ledger!Terminal, Ledger!Row
    <3>3. QED
      BY <3>1, <3>2 DEF Ledger!RecoverInDoubt
  <2>3. QED
    BY <2>1, <2>2
<1>2. RowsKept /\ (\A k : Ended(k)' <=> Ended(k)) /\ Ends'
  BY <1>1 DEF RowsKept, Ended, ReplyInv, Ends
<1>3. ASSUME NEW x \in Requests
      PROVE  /\ req'[x].key = req[x].key /\ req'[x].ran = req[x].ran /\ req'[x].rev = req[x].rev
             /\ req'[x] # req[x] => Unsettled(x) /\ req'[x].phase = "lost"
  <2>1. CASE Restart
    <3>1. req'[x] = IF Unsettled(x) THEN [req[x] EXCEPT !.phase = "lost"] ELSE req[x]
      BY <2>1 DEF Restart
    <3>2. req[x] \in Request
      BY DEF TypeInv, ReqOK
    <3>3. QED
      BY <3>1, <3>2 DEF Request
  <2>2. CASE req' = req
    BY <2>2
  <2>3. QED
    BY <2>1, <2>2 DEF Split, Recreate
<1>4. KeysKept
  BY <1>3 DEF KeysKept
<1>5. ASSUME NEW x \in Requests PROVE Fine(x)'
  <2>1. CASE req'[x] = req[x]
    BY <1>2, <1>4, <2>1, KeepFine
  <2>2. CASE req'[x] # req[x]
    BY <1>3, <2>2 DEF ReplyInv, Fine, Active, Unsettled
  <2>3. QED
    BY <2>1, <2>2
<1>6. ReplyInv'
  BY <1>1, <1>2, <1>5 DEF ReplyInv
<1>7. \A x \in Requests : (req'[x].ran <=> req[x].ran) /\ Reply(x)' = Reply(x)
  BY <1>3 DEF Reply, Unsettled
<1>8. QED
  BY <1>2, <1>4, <1>6, <1>7, QuietStep

LEMMA NextLog ==
  TypeInv /\ OnceInv /\ LaneInv /\ ReplyInv /\ [ArbiterNext]_vars => ReplyInv' /\ Logged
<1> SUFFICES ASSUME TypeInv, OnceInv, LaneInv, ReplyInv, [ArbiterNext]_vars
             PROVE  ReplyInv' /\ Logged
  OBVIOUS
<1>1. ASSUME NEW g \in Gens, NEW r \in Requests, NEW k \in Keys, NEW op \in Ops,
             NEW e \in 0..revision, NEW busy \in BOOLEAN,
             Enqueue(g, r, k, op, e, busy) \/ Join(g, r, k, op, e, busy)
      PROVE  ReplyInv' /\ Logged
  BY <1>1, EnqueueLog, JoinLog
<1>2. ASSUME NEW g \in Gens, NEW r \in Requests,
             \/ AdmissionStep(g, r) \/ SettleRefused(g, r) \/ TakeBarrier(g, r) \/ Start(g, r)
             \/ \E status \in {"completed", "failed"} : Finish(g, r, status)
      PROVE  ReplyInv' /\ Logged
  BY <1>2, AdmissionLog, SettleRefusedLog, TakeBarrierLog, StartLog, FinishLog
<1>3. ASSUME NEW g \in Gens,
             PublishAutonomous(g) \/ \E n \in 0..MaxPublished : PublishDurable(g, n)
      PROVE  ReplyInv' /\ Logged
  BY <1>3, PublishLog
<1>4. CASE Restart \/ Split \/ \E g \in Gens : Recreate(g)
  BY <1>4, GenerationLog
<1>5. CASE UNCHANGED vars
  <2>1. RowsKept /\ (\A k : Ended(k)' <=> Ended(k)) /\ (Ends => Ends') /\ KeysKept
    BY <1>5, RowsUnchanged DEF vars, KeysKept
  <2>2. \A x \in Requests : Fine(x)'
    BY <1>5, <2>1, KeepFine DEF vars
  <2>3. ReplyInv'
    BY <1>5, <2>1, <2>2 DEF ReplyInv, vars
  <2>4. \A x \in Requests : (req'[x].ran <=> req[x].ran) /\ Reply(x)' = Reply(x)
    BY <1>5 DEF Reply, vars
  <2>5. QED
    BY <2>1, <2>3, <2>4, QuietStep
<1>6. QED
  BY <1>1, <1>2, <1>3, <1>4, <1>5 DEF ArbiterNext

LEMMA InitLog == ArbiterInit => ReplyInv /\ Log!LogInit
<1> SUFFICES ASSUME ArbiterInit PROVE ReplyInv /\ Log!LogInit
  OBVIOUS
<1>1. \A x \in Requests : req[x].phase = "new" /\ req[x].key = None /\ ~req[x].ran /\ req[x].rev = 0
  BY DEF ArbiterInit, NewRequest
<1>2. revision = 0 /\ DOMAIN receipts = {}
  BY DEF ArbiterInit, Ledger!LedgerInit
<1>3. ReplyInv
  BY <1>1, <1>2, ArbiterAssumption DEF ReplyInv, Ends, Fine, Active
<1>4. (\A k \in Keys : Effect(k) = <<"none">>) /\ \A x \in Requests : Reply(x) = None
  BY <1>1, <1>2 DEF Effect, Reply
<1>5. QED
  BY <1>3, <1>4 DEF Log!LogInit

\* Every step of the arbiters, the ledger and the faults around them is a step of the
\* command log or leaves it alone.
THEOREM ImplementsCommandLog == ArbiterSpec => ImplementsLog
<1>1. ArbiterInit => TypeInv /\ OnceInv /\ LaneInv /\ ReplyInv /\ Log!LogInit
  BY InitType, InitLanes, InitLog DEF ArbiterInit, OnceInv, MayRun, NewRequest
<1>2. TypeInv /\ OnceInv /\ LaneInv /\ ReplyInv /\ [ArbiterNext]_vars
        => TypeInv' /\ OnceInv' /\ LaneInv' /\ ReplyInv' /\ [Log!LogNext]_(Log!logVars)
  BY NextType, NextOnce, NextLanes, NextLog DEF Logged
<1>3. QED
  BY <1>1, <1>2, PTL DEF ArbiterSpec, ImplementsLog, Log!LogSpec
=============================================================================
