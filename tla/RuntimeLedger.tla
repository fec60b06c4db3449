---------------------------- MODULE RuntimeLedger ----------------------------
(***************************************************************************)
(* The durable receipts of one runtime session, as SqliteRuntimeLedger     *)
(* keeps them (apps/unclecode-server/src/runtime-ledger.ts).               *)
(*                                                                         *)
(* Every operation of the class runs inside BEGIN IMMEDIATE ... COMMIT, so *)
(* each one is a single atomic action, also when two owner processes have  *)
(* the same database open.  Rows of different sessions never meet (every   *)
(* statement is keyed by session_id), so one session is modelled; the      *)
(* event and usage tables of the class are separate state.                 *)
(*                                                                         *)
(* A fingerprint and a result are opaque values: canonicalJson only makes  *)
(* equality of payloads decidable.                                         *)
(***************************************************************************)
EXTENDS Integers

CONSTANTS
    Keys,           \* idempotency keys of the modelled (session, domain)
    Fingerprints,   \* canonical payloads
    Results,        \* answers a finished mutation may store
    Null,           \* result_json IS NULL
    MaxRevision     \* bound: revisions handed out in a behaviour

ASSUME LedgerAssumption ==
    /\ MaxRevision \in Nat
    /\ Null \notin Results

VARIABLES
    revision,       \* runtime_sessions.revision
    receipts        \* mutation_receipts, a partial function on Keys

ledgerVars == <<revision, receipts>>

Statuses == {"admitted", "completed", "failed", "in_doubt"}
Terminal == {"completed", "failed"}

Row == [fingerprint : Fingerprints, status : Statuses,
        acceptedRevision : Nat, result : Results \cup {Null}]

Larger(a, b) == IF a < b THEN b ELSE a

LedgerInit ==
    /\ revision = 0
    /\ receipts = [k \in {} |-> Null]

(***************************************************************************)
(* receiptLookupResult: what a reader of key k with fingerprint fp learns. *)
(***************************************************************************)
Lookup(k, fp) ==
    IF k \notin DOMAIN receipts THEN "miss"
    ELSE IF receipts[k].fingerprint # fp THEN "mismatch"
    ELSE "replay"

\* The UPDATE and the INSERT of admitMutation, with no look at an existing row.
InsertRow(k, fp) ==
    /\ revision < MaxRevision
    /\ revision' = revision + 1
    /\ receipts' = [x \in DOMAIN receipts \cup {k} |->
                      IF x = k
                      THEN [fingerprint |-> fp, status |-> "admitted",
                            acceptedRevision |-> revision + 1, result |-> Null]
                      ELSE receipts[x]]

\* admitMutation on a key with no row: the only statement that inserts one.
AdmitMutation(k, fp) ==
    /\ k \notin DOMAIN receipts
    /\ InsertRow(k, fp)

\* completeMutation refuses (throws) exactly when this holds.
CompletionRefused(k, status, res) ==
    \/ k \notin DOMAIN receipts
    \/ /\ receipts[k].status \in Terminal
       /\ receipts[k].status # status \/ receipts[k].result # res

CompleteMutation(k, status, res) ==
    /\ ~CompletionRefused(k, status, res)
    /\ receipts' = [receipts EXCEPT ![k].status = status, ![k].result = res]
    /\ UNCHANGED revision

\* recoverInDoubt: run once by every owner process before it serves anything.
RecoverInDoubt ==
    /\ receipts' = [k \in DOMAIN receipts |->
                      IF receipts[k].status = "admitted"
                      THEN [receipts[k] EXCEPT !.status = "in_doubt"]
                      ELSE receipts[k]]
    /\ UNCHANGED revision

\* reopenMutation on an in_doubt row; on any other row it only reads.
ReopenMutation(k) ==
    /\ k \in DOMAIN receipts
    /\ receipts[k].status = "in_doubt"
    /\ receipts' = [receipts EXCEPT ![k].status = "admitted"]
    /\ UNCHANGED revision

\* Slip: the update has no "AND revision < ?".
SeedLowering(n) ==
    /\ n <= MaxRevision
    /\ revision' = n
    /\ UNCHANGED receipts

\* seedSessionRevision raises the revision, never lowers it.
SeedSessionRevision(n) ==
    /\ n <= MaxRevision
    /\ revision' = Larger(revision, n)
    /\ UNCHANGED receipts

(***************************************************************************)
(* The ledger with arbitrary callers: any operation, in any order.         *)
(***************************************************************************)
LedgerNext ==
    \/ \E k \in Keys, fp \in Fingerprints : AdmitMutation(k, fp)
    \/ \E k \in Keys, s \in Terminal, res \in Results \cup {Null} :
          CompleteMutation(k, s, res)
    \/ \E k \in Keys : ReopenMutation(k)
    \/ \E n \in 0..MaxRevision : SeedSessionRevision(n)
    \/ RecoverInDoubt

LedgerSpec == LedgerInit /\ [][LedgerNext]_ledgerVars

(***************************************************************************)
(* Properties                                                              *)
(***************************************************************************)
LedgerTypeOK ==
    /\ revision \in Nat
    /\ DOMAIN receipts \subseteq Keys
    /\ receipts \in [DOMAIN receipts -> Row]

\* An accepted revision names one mutation: no two receipts share it and none
\* lies above the session's revision, whatever is seeded in between
\* (runtime-ledger.ts, admitMutation and seedSessionRevision).
AcceptedRevisionsDistinct ==
    \A j, k \in DOMAIN receipts :
        /\ receipts[j].acceptedRevision \in 1..revision
        /\ receipts[j].acceptedRevision = receipts[k].acceptedRevision => j = k

\* Once the ledger has stored an outcome for a key nothing rewrites it: neither
\* a late completion, nor recovery after a restart, nor a reopen; and a row
\* never disappears or changes the payload it fences.
OutcomeIsFinal ==
    [][\A k \in DOMAIN receipts :
          /\ k \in DOMAIN receipts'
          /\ receipts'[k].fingerprint = receipts[k].fingerprint
          /\ receipts'[k].acceptedRevision = receipts[k].acceptedRevision
          /\ receipts[k].status \in Terminal => receipts'[k] = receipts[k]]_ledgerVars

=============================================================================
