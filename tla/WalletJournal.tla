----------------------------- MODULE WalletJournal -----------------------------
(***************************************************************************)
(* The durable journal of contract-intent wallet requests                  *)
(* (lib/contract-intent-wallet-store.mjs) and the artifacts that move it   *)
(* (lib/contract-intent-wallet.mjs): the preflight that claims the one     *)
(* wallet request of a contract intent, the outcome the wallet reported,   *)
(* the transaction and its replacements, the receipts two providers        *)
(* observe, and their quorum.                                              *)
(*                                                                         *)
(* Every preflight here is for the same contract intent, prepared at       *)
(* different times: preflights of different intents share nothing but the  *)
(* bound on rows.  A digest is the content it is taken of.  The            *)
(* CONTEXT_CHANGED variants of the submission states take the same         *)
(* transitions as the plain ones and are merged with them.                 *)
(***************************************************************************)
EXTENDS Integers, FiniteSets

CONSTANTS Preflights, Providers, Transactions, Blocks,
          ExpiresAt,            \* the expiry of the authorized intent
          MaxTime,              \* bound on the clock
          None                  \* a field that is null

\* The columns of the intent table that the model keeps.
RowStates == {"WALLET_REQUEST_CLAIMED", "USER_REJECTED", "SUBMISSION_UNKNOWN", "SUBMISSION_REPORTED", "PENDING",
              "NOT_FOUND", "REORGED", "INCLUDED", "REVERTED", "MISMATCH", "FINALITY_QUORUM_PENDING", "FINALIZED_CORE"}
Rows == [state : RowStates, tx : Transactions \union {None}, reported : Transactions \union {None},
         nonce : BOOLEAN, block : Blocks \union {None}, consensus : BOOLEAN]

\* Null is none of the values a field can have, and the wallet has a transaction to send.
ASSUME WalletAssumption ==
  /\ ExpiresAt \in Nat /\ MaxTime \in Nat
  /\ Transactions # {} /\ None \notin Transactions /\ None \notin Blocks /\ None \notin Rows

VARIABLES now,
          rows,        \* the intent table: a preflight's row, or None
          artifacts,   \* the artifact table, as far as a later step asks for it
          live         \* volatile: the preflights whose submission this process holds, and
                       \* the transactions it has verified

journalVars == <<rows, artifacts, live>>

SubmissionStates == {"USER_REJECTED", "SUBMISSION_UNKNOWN", "SUBMISSION_REPORTED"}
NoTransactionStates == {"WALLET_REQUEST_CLAIMED", "USER_REJECTED", "SUBMISSION_UNKNOWN"}
IncludedStates == {"INCLUDED", "REVERTED", "MISMATCH", "FINALITY_QUORUM_PENDING", "FINALIZED_CORE"}

JournalInit ==
  /\ rows = [p \in Preflights |-> None]
  /\ artifacts = {}
  /\ live = {}

-------------------------------------------------------------------------------
(* Artifacts. *)

\* prepareContractIntentWalletPreflight: an intent that is still authorized.
Prepared(p) == now < ExpiresAt

\* verifyContractIntentWalletContext: the wallet shows the intent's chain and account first,
\* before the intent expires.
VerifiedContext(same) == same /\ now < ExpiresAt

\* recordContractIntentWalletOutcome: what the wallet answered, and nothing it did not.
Submission(p, outcome, hash) ==
  [kind |-> "SUBMISSION", of |-> p,
   state |-> CASE outcome = "reported" -> "SUBMISSION_REPORTED"
               [] outcome = "rejected" -> "USER_REJECTED"
               [] outcome = "ambiguous" -> "SUBMISSION_UNKNOWN",
   tx |-> IF outcome = "reported" THEN hash ELSE None]

\* transactionResult: pending, or in a block.
Transaction(p, tx, replaces, block) ==
  [kind |-> "TRANSACTION", of |-> p, tx |-> tx, replaces |-> replaces, block |-> block,
   state |-> IF block = None THEN "PENDING" ELSE "INCLUDED"]

\* verifyReportedContractIntentWalletTransaction: the hash of the reported submission.
ReportedTransaction(p, tx) ==
  [submission |-> p] \in live /\ rows[p] # None /\ rows[p].reported = tx

\* verifyReplacementContractIntentWalletTransaction: another hash in place of a verified one.
ReplacementTransaction(p, tx, previous) ==
  [submission |-> p, verified |-> previous] \in live /\ tx # previous

\* observeContractIntentWalletReceipt: what a provider can say of a verified transaction.
\* Without a receipt, a transaction that was seen in a block is reorganised away.
Observation(p, provider, tx, state, block) ==
  [kind |-> "OBSERVATION", of |-> p, provider |-> provider, tx |-> tx, state |-> state,
   block |-> block]
ObservedStates(block) ==
  IF block = None THEN {"NOT_FOUND", "REORGED"}
                  ELSE {"REORGED", "REVERTED", "MISMATCH", "INCLUDED", "FINALIZED"}

\* verifyContractIntentWalletReceiptQuorum: two providers, one finalized reservation.
Quorum(p, tx, block, pair) ==
  [kind |-> "QUORUM", of |-> p, tx |-> tx, block |-> block, providers |-> pair,
   state |-> "REPOSITORY_CORE_VERIFIED"]

-------------------------------------------------------------------------------
(* The store. *)

\* artifactState: the states an artifact may move a row from.
Accepts(state, a) ==
  CASE a.kind = "SUBMISSION" -> state = "WALLET_REQUEST_CLAIMED"
    [] a.kind = "TRANSACTION" -> state \in {"SUBMISSION_REPORTED", "PENDING", "INCLUDED", "NOT_FOUND", "REORGED"}
    [] a.kind = "OBSERVATION" -> /\ state \notin NoTransactionStates \union {"SUBMISSION_REPORTED"}
                                 /\ state \in {"MISMATCH", "REVERTED", "FINALIZED_CORE"} => a.state = "REORGED"
    [] a.kind = "QUORUM" -> state = "FINALITY_QUORUM_PENDING"

\* artifactState: the state it moves it to.
ArtifactState(a) ==
  CASE a.kind = "OBSERVATION" /\ a.state = "FINALIZED" -> "FINALITY_QUORUM_PENDING"
    [] a.kind = "QUORUM" -> "FINALIZED_CORE"
    [] OTHER -> a.state

\* Mutant of QuorumIsDurable: any two observations of the transaction count.
QuorumIsDurable_Any(a) ==
  \A q \in a.providers : \E o \in artifacts :
    o.kind = "OBSERVATION" /\ o.of = a.of /\ o.state = "FINALIZED" /\ o.provider = q

\* verifyStoredQuorumPrerequisites: both providers' finalized observations are rows of the
\* artifact table.  One that its provider has withdrawn since is still there.
QuorumIsDurable(a) ==
  \A q \in a.providers :
    Observation(a.of, q, a.tx, "FINALIZED", a.block) \in artifacts

\* The chain of replacements may not fork, and a receipt is for the transaction of the row.
ChainHolds(row, a) ==
  CASE a.kind = "TRANSACTION" -> IF a.replaces = None THEN row.tx = a.tx ELSE row.tx = a.replaces
    [] a.kind = "OBSERVATION" -> row.tx = a.tx
    [] a.kind = "QUORUM" -> row.tx = a.tx /\ QuorumIsDurable(a)
    [] OTHER -> TRUE

\* The fields record leaves in the row.
Updated(row, a) ==
  CASE a.kind = "SUBMISSION" -> [row EXCEPT !.state = a.state, !.tx = a.tx, !.reported = a.tx]
    [] a.kind = "TRANSACTION" -> [row EXCEPT !.state = ArtifactState(a), !.tx = a.tx, !.nonce = TRUE,
                                             !.block = a.block, !.consensus = FALSE]
    [] OTHER -> [row EXCEPT !.state = ArtifactState(a), !.block = a.block, !.consensus = TRUE]

\* validateRow: what a row must look like to be read again; a row it refuses closes the
\* store to every intent.
Consistent(row) ==
  /\ row.state \in NoTransactionStates => row.tx = None /\ ~row.nonce
  /\ row.state = "SUBMISSION_REPORTED" => row.tx # None /\ ~row.nonce
  /\ row.state \notin NoTransactionStates \union {"SUBMISSION_REPORTED"} => row.tx # None /\ row.nonce
  /\ row.state \in IncludedStates => row.block # None
  /\ row.state \in NoTransactionStates \union {"SUBMISSION_REPORTED", "PENDING"} => ~row.consensus
  /\ row.state \in {"NOT_FOUND", "REORGED", "REVERTED", "MISMATCH", "FINALITY_QUORUM_PENDING",
                    "FINALIZED_CORE"} => row.consensus

\* verifyDatabase, before and after every transaction.
Readable == \A p \in Preflights : rows[p] # None => Consistent(rows[p])

\* The artifacts a later step looks for; the others only count.
Kept(a) == a.kind \in {"TRANSACTION", "QUORUM"} \/ (a.kind = "OBSERVATION" /\ a.state = "FINALIZED")

\* record: an artifact the store has already is not recorded again.  The digest of an
\* observation holds its time, which this model leaves out: seen again, it is a new row of
\* the table.
Known(a) == a.kind \in {"TRANSACTION", "QUORUM"} /\ a \in artifacts

Record(a) ==
  /\ Readable
  /\ rows[a.of] # None /\ ~Known(a)
  /\ Accepts(rows[a.of].state, a) /\ ChainHolds(rows[a.of], a)
  /\ rows' = [rows EXCEPT ![a.of] = Updated(@, a)]
  /\ artifacts' = IF Kept(a) THEN artifacts \union {a} ELSE artifacts

\* claim, for a preflight the table does not know: no row of the same settlement or intent.
Unclaimed(p) == \A q \in Preflights : rows[q] = None

\* claimContractIntentWalletForDispatch: only a claim that made the row may be dispatched.
ClaimRow(p) ==
  /\ Readable /\ now < ExpiresAt
  /\ Unclaimed(p)
  /\ rows' = [rows EXCEPT ![p] = [state |-> "WALLET_REQUEST_CLAIMED", tx |-> None, reported |-> None,
                                  nonce |-> FALSE, block |-> None, consensus |-> FALSE]]

\* consumeContractIntentWalletDispatchClaim: the row is still what the claim left.
Dispatchable(p) ==
  /\ Readable /\ now < ExpiresAt
  /\ rows[p] # None /\ rows[p].state = "WALLET_REQUEST_CLAIMED" /\ rows[p].tx = None

\* recoveryAction: what a restart may do about a row; nothing is sent again.
RecoveryAction(state) ==
  CASE state \in {"WALLET_REQUEST_CLAIMED", "SUBMISSION_UNKNOWN"} -> "SEARCH_QUOTE_NO_RESEND"
    [] state \in {"SUBMISSION_REPORTED", "PENDING", "NOT_FOUND"} -> "RECONCILE_TRANSACTION_NO_RESEND"
    [] state \in {"INCLUDED", "FINALITY_QUORUM_PENDING"} -> "RECONCILE_RECEIPT_NO_LIGHTNING"
    [] state = "FINALIZED_CORE" -> "REQUIRE_DEPLOYED_FINALITY_PROOF_NO_LIGHTNING"
    [] OTHER -> "HALT_AND_RECONCILE_NO_RESEND"

-------------------------------------------------------------------------------
(* Reconciliation, by the process that recorded the submission: its artifacts carry the    *)
(* provenance of objects that a restart loses.                                             *)

RecordTransaction(p, tx, replaces, block) ==
  /\ IF replaces = None THEN ReportedTransaction(p, tx) ELSE ReplacementTransaction(p, tx, replaces)
  /\ Record(Transaction(p, tx, replaces, block))
  /\ live' = live \union {[submission |-> p, verified |-> tx]}

RecordObservation(p, provider, tx, state, block) ==
  /\ [submission |-> p, verified |-> tx] \in live
  /\ state \in ObservedStates(block)
  /\ Record(Observation(p, provider, tx, state, block))
  /\ UNCHANGED live

RecordQuorum(p, tx, block, pair) ==
  /\ [submission |-> p, verified |-> tx] \in live
  /\ Cardinality(pair) = 2
  /\ Record(Quorum(p, tx, block, pair))
  /\ UNCHANGED live

Reconcile ==
  \E p \in Preflights, tx \in Transactions, block \in Blocks \union {None} :
    \/ \E replaces \in Transactions \union {None} : RecordTransaction(p, tx, replaces, block)
    \/ \E q \in Providers, state \in {"NOT_FOUND", "REORGED", "REVERTED", "MISMATCH", "INCLUDED", "FINALIZED"} :
         RecordObservation(p, q, tx, state, block)
    \/ block # None /\ \E pair \in SUBSET Providers : RecordQuorum(p, tx, block, pair)

-------------------------------------------------------------------------------
\* A repository-finalized reservation rests on two providers that durably finalized the
\* very transaction and block of the row, through replacements, reorganisations and
\* observations that arrive late; and no sequence of artifacts leaves a row that the store
\* would refuse to read.
FinalizedBacked ==
  /\ Readable
  /\ \A p \in Preflights :
       rows[p] # None /\ rows[p].state = "FINALIZED_CORE" =>
         \E pair \in SUBSET Providers :
           /\ Cardinality(pair) = 2
           /\ \A q \in pair : Observation(p, q, rows[p].tx, "FINALIZED", rows[p].block) \in artifacts
================================================================================
