----------------------------- MODULE WalletProofs ------------------------------
(***************************************************************************)
(* The wallet request for any number of preflights, tabs, concurrent HTTP  *)
(* requests, providers, transactions and blocks: the wallet is asked once, *)
(* the journal says no more than the wallet did, a finalized row is backed *)
(* by two providers, and the edge halts only for a reason.                 *)
(*                                                                         *)
(* The argument.  One row of an intent is ever claimed, by the gateway or  *)
(* by the dispatcher, and never both.  A claim of the gateway may reach    *)
(* several tabs; the tombstone, written under the lock, lets one of them   *)
(* through, and it does not expire before the claim does.  A report is     *)
(* true when it is made, answers of the wallet are final, and so it is     *)
(* still true when it is recorded.                                         *)
(***************************************************************************)
EXTENDS WalletDispatch, TLAPS

Outcomes == {"none", "reported", "rejected", "ambiguous"}
Hashes == Transactions \union {None}
Requests == [phase : {"idle", "body", "session", "gateway"}, kind : {"none", "prepare", "claim", "outcome"},
             of : Preflights \union {None}, at : Nat, outcome : Outcomes, hash : Hashes]
TabStates == [phase : {"idle", "lock", "context", "asked"}, of : Preflights \union {None}, at : Nat]
WalletStates == [asked : Nat, answer : {"open", "accepted", "rejected"}, tx : Hashes]

\* What the proof needs to know of the types.
WalletTypeOK ==
  /\ now \in Nat
  /\ rows \in [Preflights -> Rows \union {None}]
  /\ wallet \in [Preflights -> WalletStates]
  /\ outcomes \in [Preflights -> [outcome : Outcomes, hash : Hashes]]
  /\ requests \in [Slots -> Requests]
  /\ tabs \in [Tabs -> TabStates]
  /\ tombstones \in [high : Nat, of : SUBSET Preflights]
  /\ dispatcher \in [phase : {"idle", "context", "asked"}, of : Preflights \union {None}]
  /\ abuse \in [high : Nat, startedAt : Nat, count : Nat]
  /\ delivered \subseteq Preflights
  /\ edge \in {"active", "halted", "down"}

\* One row of the intent, and the claims that were delivered are rows.
OneRow == \A p, q \in Preflights : rows[p] # None /\ rows[q] # None => p = q
DeliveredClaimed == \A p \in delivered : rows[p] # None

\* A tab holds a delivered claim that was live when it started; past the lock its tombstone
\* is there, and before it asks nobody has asked.
TabHolds(t) ==
  /\ tabs[t].phase # "idle" => tabs[t].of \in delivered /\ tabs[t].at < ExpiresAt
  /\ tabs[t].phase \in {"context", "asked"} => tabs[t].of \in tombstones.of
  /\ tabs[t].phase = "context" => wallet[tabs[t].of].asked = 0
OneContext ==
  \A t, u \in Tabs : tabs[t].phase = "context" /\ tabs[u].phase = "context" /\ tabs[t].of = tabs[u].of => t = u

\* The dispatcher holds a row of its own.
DispatcherHolds ==
  dispatcher.phase # "idle" =>
    /\ dispatcher.of \in Preflights \ delivered /\ rows[dispatcher.of] # None
    /\ dispatcher.phase = "context" => wallet[dispatcher.of].asked = 0

\* The wallet was asked once at most, for a claimed row, and a tab left its tombstone.
AskedBehind(p) ==
  /\ wallet[p].asked <= 1
  /\ wallet[p].asked > 0 => rows[p] # None /\ (p \in delivered => p \in tombstones.of)
  /\ wallet[p].answer = "accepted" => wallet[p].tx \in Transactions

\* A report says what the wallet did.
Truthful(p, outcome, hash) ==
  /\ outcome = "reported" => wallet[p].answer = "accepted" /\ hash = wallet[p].tx
  /\ outcome = "rejected" => wallet[p].answer = "rejected"
ReportsTrue ==
  /\ \A p \in Preflights : Truthful(p, outcomes[p].outcome, outcomes[p].hash)
  /\ \A r \in Slots : requests[r].phase # "idle" =>
       /\ requests[r].of \in Preflights /\ Truthful(requests[r].of, requests[r].outcome, requests[r].hash)
       /\ requests[r].kind = "outcome" => requests[r].outcome # "none"

\* A request is as old as the clock, or the clock moved meanwhile; none outlives the process.
RequestTimed(r) ==
  requests[r].phase # "idle" =>
    edge # "down" /\ requests[r].at <= now /\ (requests[r].at < now => tickInFlight)

ClientInv ==
  /\ OneRow /\ DeliveredClaimed
  /\ \A t \in Tabs : TabHolds(t)
  /\ OneContext /\ DispatcherHolds
  /\ \A p \in Preflights : AskedBehind(p)
JournalInv == ReportsTrue /\ OutcomeTrue /\ FinalizedBacked
EdgeInv == (\A r \in Slots : RequestTimed(r)) /\ abuse.high <= now /\ HaltExplained

\* The inductive invariant of the wallet request.
WalletInv == WalletTypeOK /\ ClientInv /\ JournalInv /\ EdgeInv
-------------------------------------------------------------------------------
(* The journal. *)

Reports == {"reported", "rejected", "ambiguous"}
Replaced == Transactions \union {None}

\* What a step may do to the rows.
RecordsSubmission ==
  \E p \in Preflights, outcome \in Reports, hash \in Hashes :
    Truthful(p, outcome, hash) /\ Record(Submission(p, outcome, hash))
RecordsTransaction ==
  \E p \in Preflights, tx \in Transactions, replaces \in Replaced, block \in Blocks \union {None} :
    Record(Transaction(p, tx, replaces, block))
RecordsObservation ==
  \E p \in Preflights, provider \in Providers, tx \in Transactions, block \in Blocks \union {None} :
    \E state \in ObservedStates(block) : Record(Observation(p, provider, tx, state, block))
RecordsQuorum ==
  \E p \in Preflights, tx \in Transactions, block \in Blocks, pair \in SUBSET Providers :
    Cardinality(pair) = 2 /\ Record(Quorum(p, tx, block, pair))
RowMove ==
  \/ rows' = rows /\ artifacts' = artifacts
  \/ \E p \in Preflights : ClaimRow(p) /\ artifacts' = artifacts
  \/ RecordsSubmission \/ RecordsTransaction \/ RecordsObservation \/ RecordsQuorum

\* Null is not a row.
LEMMA RowNotNull == \A row \in Rows : row # None
BY WalletAssumption

\* A report leaves a row that can be read again, and says what was reported.
LEMMA SubmissionRow ==
  ASSUME NEW row \in Rows, Consistent(row), row.state = "WALLET_REQUEST_CLAIMED", NEW p, NEW outcome \in Reports,
         NEW hash \in Hashes, outcome = "reported" => hash \in Transactions
  PROVE  LET new == Updated(row, Submission(p, outcome, hash))
         IN /\ new \in Rows /\ Consistent(new) /\ new.state # "FINALIZED_CORE"
            /\ new.state = "USER_REJECTED" => outcome = "rejected"
            /\ new.reported # None => outcome = "reported" /\ new.reported = hash
<1> DEFINE a == Submission(p, outcome, hash)
           new == Updated(row, a)
<1>1. /\ a.kind = "SUBMISSION" /\ a.state \in SubmissionStates /\ a.tx \in Hashes
      /\ outcome = "reported" => a.state = "SUBMISSION_REPORTED" /\ a.tx = hash
      /\ outcome = "rejected" => a.state = "USER_REJECTED" /\ a.tx = None
      /\ outcome = "ambiguous" => a.state = "SUBMISSION_UNKNOWN" /\ a.tx = None
  BY DEF Submission, SubmissionStates, Reports, Hashes
<1> HIDE DEF a
<1>2. new = [row EXCEPT !.state = a.state, !.tx = a.tx, !.reported = a.tx]
  BY <1>1 DEF Updated
<1>3. /\ new \in Rows /\ new.state = a.state /\ new.tx = a.tx /\ new.reported = a.tx
      /\ new.nonce = row.nonce /\ new.consensus = row.consensus
  <2>1. a.state \in RowStates /\ a.tx \in Transactions \union {None}
    BY <1>1 DEF SubmissionStates, RowStates, Hashes
  <2> HIDE DEF new
  <2> QED BY <1>2, <2>1 DEF Rows
<1> HIDE DEF new
<1>4. ~row.nonce /\ ~row.consensus
  BY DEF Consistent, NoTransactionStates
<1>5. Consistent(new)
  BY <1>1, <1>3, <1>4, WalletAssumption DEF Consistent, NoTransactionStates, IncludedStates, Reports
<1>6. /\ new.state # "FINALIZED_CORE"
      /\ new.state = "USER_REJECTED" => outcome = "rejected"
      /\ new.reported # None => outcome = "reported" /\ new.reported = hash
  BY <1>1, <1>3 DEF Reports
<1> QED BY <1>3, <1>5, <1>6 DEF a, new

\* So does a transaction, pending or in a block.
LEMMA TransactionRow ==
  ASSUME NEW row \in Rows, NEW p, NEW tx \in Transactions, NEW replaces, NEW block \in Blocks \union {None}
  PROVE  LET new == Updated(row, Transaction(p, tx, replaces, block))
         IN /\ new \in Rows /\ Consistent(new) /\ new.state \notin {"FINALIZED_CORE", "USER_REJECTED"}
            /\ new.reported = row.reported
<1> DEFINE a == Transaction(p, tx, replaces, block)
           new == Updated(row, a)
<1>1. /\ a.kind = "TRANSACTION" /\ a.tx = tx /\ a.block = block
      /\ a.state \in {"PENDING", "INCLUDED"} /\ (a.state = "INCLUDED" => block # None)
  BY DEF Transaction
<1> HIDE DEF a
<1>2. new = [row EXCEPT !.state = a.state, !.tx = tx, !.nonce = TRUE, !.block = block, !.consensus = FALSE]
  BY <1>1 DEF Updated, ArtifactState
<1>3. /\ new \in Rows /\ new.state = a.state /\ new.tx = tx /\ new.reported = row.reported
      /\ new.nonce = TRUE /\ new.consensus = FALSE /\ new.block = block
  <2>1. a.state \in RowStates
    BY <1>1 DEF RowStates
  <2> HIDE DEF new
  <2> QED BY <1>2, <2>1 DEF Rows
<1> HIDE DEF new
<1>4. Consistent(new)
  BY <1>1, <1>3, WalletAssumption DEF Consistent, NoTransactionStates, IncludedStates
<1> QED BY <1>1, <1>3, <1>4 DEF a, new

\* So does what a provider observed of a transaction.
LEMMA ObservationRow ==
  ASSUME NEW row \in Rows, Consistent(row), row.state \notin NoTransactionStates \union {"SUBMISSION_REPORTED"},
         NEW p, NEW provider, NEW tx, NEW block \in Blocks \union {None}, NEW state \in ObservedStates(block)
  PROVE  LET new == Updated(row, Observation(p, provider, tx, state, block))
         IN /\ new \in Rows /\ Consistent(new) /\ new.state \notin {"FINALIZED_CORE", "USER_REJECTED"}
            /\ new.reported = row.reported
<1> DEFINE a == Observation(p, provider, tx, state, block)
           new == Updated(row, a)
<1>1. /\ a.kind = "OBSERVATION" /\ a.block = block /\ a.state = state
      /\ ArtifactState(a) = IF state = "FINALIZED" THEN "FINALITY_QUORUM_PENDING" ELSE state
  BY DEF Observation, ArtifactState
<1>2. /\ ArtifactState(a) \in {"NOT_FOUND", "REORGED", "REVERTED", "MISMATCH", "INCLUDED", "FINALITY_QUORUM_PENDING"}
      /\ block = None => ArtifactState(a) \in {"NOT_FOUND", "REORGED"}
  BY <1>1 DEF ObservedStates
<1> HIDE DEF a
<1>3. new = [row EXCEPT !.state = ArtifactState(a), !.block = block, !.consensus = TRUE]
  BY <1>1 DEF Updated
<1>4. /\ new \in Rows /\ new.state = ArtifactState(a) /\ new.tx = row.tx /\ new.reported = row.reported
      /\ new.nonce = row.nonce /\ new.consensus = TRUE /\ new.block = block
  <2>1. ArtifactState(a) \in RowStates
    BY <1>2 DEF RowStates
  <2> HIDE DEF new
  <2> QED BY <1>3, <2>1 DEF Rows
<1> HIDE DEF new
<1>5. row.tx # None /\ row.nonce
  BY DEF Consistent, NoTransactionStates
<1>6. Consistent(new)
  BY <1>2, <1>4, <1>5 DEF Consistent, NoTransactionStates, IncludedStates
<1> QED BY <1>2, <1>4, <1>6 DEF a, new

\* And the quorum, which finalizes the transaction and the block it was verified for.
LEMMA QuorumRow ==
  ASSUME NEW row \in Rows, Consistent(row), row.state = "FINALITY_QUORUM_PENDING",
         NEW p, NEW tx, NEW block \in Blocks, NEW pair
  PROVE  LET new == Updated(row, Quorum(p, tx, block, pair))
         IN /\ new \in Rows /\ Consistent(new) /\ new.state = "FINALIZED_CORE"
            /\ new.reported = row.reported /\ new.tx = row.tx /\ new.block = block
<1> DEFINE a == Quorum(p, tx, block, pair)
           new == Updated(row, a)
<1>1. a.kind = "QUORUM" /\ a.block = block /\ ArtifactState(a) = "FINALIZED_CORE"
  BY DEF Quorum, ArtifactState
<1> HIDE DEF a
<1>3. new = [row EXCEPT !.state = ArtifactState(a), !.block = block, !.consensus = TRUE]
  BY <1>1 DEF Updated
<1>4. /\ new \in Rows /\ new.state = "FINALIZED_CORE" /\ new.tx = row.tx /\ new.reported = row.reported
      /\ new.nonce = row.nonce /\ new.consensus = TRUE /\ new.block = block
  <2>1. "FINALIZED_CORE" \in RowStates
    BY DEF RowStates
  <2> HIDE DEF new
  <2> QED BY <1>1, <1>3, <2>1 DEF Rows
<1> HIDE DEF new
<1>5. row.tx # None /\ row.nonce
  BY DEF Consistent, NoTransactionStates
<1>6. Consistent(new)
  BY <1>4, <1>5, WalletAssumption DEF Consistent, NoTransactionStates, IncludedStates
<1> QED BY <1>4, <1>6 DEF a, new

\* A row that can be read, that says what the wallet did, and that is backed if finalized.
RowTrue(p, row) ==
  /\ row.state = "USER_REJECTED" => wallet[p].answer = "rejected"
  /\ row.reported # None => wallet[p].answer = "accepted" /\ row.reported = wallet[p].tx
Backed(p, row, kept) ==
  row.state = "FINALIZED_CORE" =>
    \E pair \in SUBSET Providers :
      Cardinality(pair) = 2 /\ \A q \in pair : Observation(p, q, row.tx, "FINALIZED", row.block) \in kept
RowGood(p, row, kept) == row \in Rows /\ Consistent(row) /\ RowTrue(p, row) /\ Backed(p, row, kept)

\* The rows before a step.
LEMMA RowsGood ==
  ASSUME WalletInv, NEW p \in Preflights, rows[p] # None
  PROVE  RowGood(p, rows[p], artifacts)
<1>1. rows[p] \in Rows
  BY DEF WalletInv, WalletTypeOK
<1>2. Consistent(rows[p]) /\ RowTrue(p, rows[p]) /\ Backed(p, rows[p], artifacts)
  BY DEF WalletInv, JournalInv, OutcomeTrue, FinalizedBacked, Readable, RowTrue, Backed
<1> QED BY <1>1, <1>2 DEF RowGood

\* A record replaces one row of the table.
LEMMA RecordChanges ==
  ASSUME WalletInv, NEW a, NEW p \in Preflights, a.of = p, Record(a)
  PROVE  /\ rows[p] \in Rows /\ RowGood(p, rows[p], artifacts)
         /\ Accepts(rows[p].state, a) /\ ChainHolds(rows[p], a)
         /\ rows' = [rows EXCEPT ![p] = Updated(rows[p], a)]
         /\ artifacts \subseteq artifacts'
<1>1. /\ rows[p] # None /\ Accepts(rows[p].state, a) /\ ChainHolds(rows[p], a)
      /\ rows' = [rows EXCEPT ![p] = Updated(rows[p], a)] /\ artifacts \subseteq artifacts'
  BY DEF Record
<1>2. RowGood(p, rows[p], artifacts)
  BY <1>1, RowsGood
<1> QED BY <1>1, <1>2 DEF RowGood

\* What is left after a move: one row changed, for a good one, and no artifact is lost.
RowsAfter(p) ==
  /\ rows[p] # None /\ artifacts \subseteq artifacts'
  /\ \E row : RowGood(p, row, artifacts') /\ rows' = [rows EXCEPT ![p] = row]

\* A report of the wallet's answer.
LEMMA SubmissionAfter ==
  ASSUME WalletInv, RecordsSubmission
  PROVE  \E p \in Preflights : RowsAfter(p)
<1>1. PICK p \in Preflights, outcome \in Reports, hash \in Hashes :
        Truthful(p, outcome, hash) /\ Record(Submission(p, outcome, hash))
  BY DEF RecordsSubmission
<1> DEFINE a == Submission(p, outcome, hash)
           new == Updated(rows[p], a)
<1>2. a.of = p /\ a.kind = "SUBMISSION"
  BY DEF Submission
<1>3. /\ rows[p] \in Rows /\ RowGood(p, rows[p], artifacts) /\ Accepts(rows[p].state, a)
      /\ rows' = [rows EXCEPT ![p] = new] /\ artifacts \subseteq artifacts'
  <2> HIDE DEF a
  <2>1. Record(a)
    BY <1>1 DEF a
  <2> QED BY <1>2, <2>1, RecordChanges
<1>4. rows[p].state = "WALLET_REQUEST_CLAIMED" /\ Consistent(rows[p])
  BY <1>2, <1>3 DEF Accepts, RowGood
<1>5. outcome = "reported" => hash \in Transactions
  BY <1>1 DEF Truthful, WalletInv, ClientInv, AskedBehind
<1>6. /\ new \in Rows /\ Consistent(new) /\ new.state # "FINALIZED_CORE"
      /\ new.state = "USER_REJECTED" => outcome = "rejected"
      /\ new.reported # None => outcome = "reported" /\ new.reported = hash
  BY <1>3, <1>4, <1>5, SubmissionRow
<1> HIDE DEF new
<1>7. RowGood(p, new, artifacts')
  BY <1>1, <1>6 DEF RowGood, RowTrue, Backed, Truthful
<1> QED BY <1>3, <1>7, RowNotNull DEF RowsAfter

\* A transaction, or its replacement.
LEMMA TransactionAfter ==
  ASSUME WalletInv, RecordsTransaction
  PROVE  \E p \in Preflights : RowsAfter(p)
<1>1. PICK p \in Preflights, tx \in Transactions, replaces \in Replaced, block \in Blocks \union {None} :
        Record(Transaction(p, tx, replaces, block))
  BY DEF RecordsTransaction
<1> DEFINE a == Transaction(p, tx, replaces, block)
           new == Updated(rows[p], a)
<1>2. a.of = p
  BY DEF Transaction
<1>3. /\ rows[p] \in Rows /\ RowGood(p, rows[p], artifacts)
      /\ rows' = [rows EXCEPT ![p] = new] /\ artifacts \subseteq artifacts'
  <2> HIDE DEF a
  <2>1. Record(a)
    BY <1>1 DEF a
  <2> QED BY <1>2, <2>1, RecordChanges
<1>4. /\ new \in Rows /\ Consistent(new) /\ new.state \notin {"FINALIZED_CORE", "USER_REJECTED"}
      /\ new.reported = rows[p].reported
  BY <1>3, TransactionRow
<1> HIDE DEF new
<1>5. RowGood(p, new, artifacts')
  BY <1>3, <1>4 DEF RowGood, RowTrue, Backed
<1> QED BY <1>3, <1>5, RowNotNull DEF RowsAfter

\* What a provider observed.
LEMMA ObservationAfter ==
  ASSUME WalletInv, RecordsObservation
  PROVE  \E p \in Preflights : RowsAfter(p)
<1>1. PICK p \in Preflights, provider \in Providers, tx \in Transactions, block \in Blocks \union {None} :
        \E state \in ObservedStates(block) : Record(Observation(p, provider, tx, state, block))
  BY DEF RecordsObservation
<1>2. PICK state \in ObservedStates(block) : Record(Observation(p, provider, tx, state, block))
  BY <1>1
<1> DEFINE a == Observation(p, provider, tx, state, block)
           new == Updated(rows[p], a)
<1>3. a.of = p /\ a.kind = "OBSERVATION"
  BY DEF Observation
<1>4. /\ rows[p] \in Rows /\ RowGood(p, rows[p], artifacts) /\ Accepts(rows[p].state, a)
      /\ rows' = [rows EXCEPT ![p] = new] /\ artifacts \subseteq artifacts'
  <2> HIDE DEF a
  <2>1. Record(a)
    BY <1>2 DEF a
  <2> QED BY <1>3, <2>1, RecordChanges
<1>5. rows[p].state \notin NoTransactionStates \union {"SUBMISSION_REPORTED"} /\ Consistent(rows[p])
  BY <1>3, <1>4 DEF Accepts, RowGood
<1>6. /\ new \in Rows /\ Consistent(new) /\ new.state \notin {"FINALIZED_CORE", "USER_REJECTED"}
      /\ new.reported = rows[p].reported
  BY <1>4, <1>5, ObservationRow
<1> HIDE DEF new
<1>7. RowGood(p, new, artifacts')
  BY <1>4, <1>6 DEF RowGood, RowTrue, Backed
<1> QED BY <1>4, <1>7, RowNotNull DEF RowsAfter

\* The quorum of two providers: their finalized observations are in the table.
LEMMA QuorumAfter ==
  ASSUME WalletInv, RecordsQuorum
  PROVE  \E p \in Preflights : RowsAfter(p)
<1>1. PICK p \in Preflights, tx \in Transactions, block \in Blocks, pair \in SUBSET Providers :
        Cardinality(pair) = 2 /\ Record(Quorum(p, tx, block, pair))
  BY DEF RecordsQuorum
<1> DEFINE a == Quorum(p, tx, block, pair)
           new == Updated(rows[p], a)
<1>2. a.of = p /\ a.kind = "QUORUM" /\ a.tx = tx /\ a.block = block /\ a.providers = pair
  BY DEF Quorum
<1>3. /\ rows[p] \in Rows /\ RowGood(p, rows[p], artifacts) /\ Accepts(rows[p].state, a) /\ ChainHolds(rows[p], a)
      /\ rows' = [rows EXCEPT ![p] = new] /\ artifacts \subseteq artifacts'
  <2> HIDE DEF a
  <2>1. Record(a)
    BY <1>1 DEF a
  <2> QED BY <1>2, <2>1, RecordChanges
<1>4. rows[p].state = "FINALITY_QUORUM_PENDING" /\ Consistent(rows[p])
  BY <1>2, <1>3 DEF Accepts, RowGood
<1>5. rows[p].tx = tx /\ QuorumIsDurable(a)
  <2> HIDE DEF a
  <2> QED BY <1>2, <1>3 DEF ChainHolds
<1>6. /\ new \in Rows /\ Consistent(new) /\ new.state = "FINALIZED_CORE"
      /\ new.reported = rows[p].reported /\ new.tx = rows[p].tx /\ new.block = block
  BY <1>3, <1>4, QuorumRow
<1>7. \A q \in pair : Observation(p, q, tx, "FINALIZED", block) \in artifacts'
  <2> HIDE DEF a, new
  <2> QED BY <1>2, <1>3, <1>5 DEF QuorumIsDurable
<1> HIDE DEF new, a
<1>8. Backed(p, new, artifacts')
  BY <1>1, <1>5, <1>6, <1>7 DEF Backed
<1>9. RowGood(p, new, artifacts')
  BY <1>3, <1>6, <1>8 DEF RowGood, RowTrue
<1> QED BY <1>3, <1>9, RowNotNull DEF RowsAfter

\* The claim of a row, when there is none.
ClaimedRow == [state |-> "WALLET_REQUEST_CLAIMED", tx |-> None, reported |-> None,
               nonce |-> FALSE, block |-> None, consensus |-> FALSE]

\* It is good: nothing was reported yet.
LEMMA ClaimAfter ==
  ASSUME NEW p \in Preflights
  PROVE  RowGood(p, ClaimedRow, artifacts')
BY DEF ClaimedRow, RowGood, RowTrue, Backed, Rows, RowStates, Consistent, NoTransactionStates, IncludedStates

\* Together: rows stay, the intent has one at most, and each is good.
LEMMA RowMoves ==
  ASSUME WalletInv, RowMove
  PROVE  /\ rows' \in [Preflights -> Rows \union {None}]
         /\ \A p \in Preflights : rows[p] # None => rows'[p] # None
         /\ OneRow'
         /\ \A p \in Preflights : rows'[p] # None => RowGood(p, rows'[p], artifacts')
<1>1. /\ rows \in [Preflights -> Rows \union {None}] /\ OneRow
      /\ \A p \in Preflights : rows[p] # None => RowGood(p, rows[p], artifacts)
  BY RowsGood DEF WalletInv, WalletTypeOK, ClientInv
<1>2. CASE rows' = rows /\ artifacts' = artifacts
  BY <1>1, <1>2 DEF OneRow
<1>3. CASE \E p \in Preflights : ClaimRow(p) /\ artifacts' = artifacts
  <2>1. PICK p \in Preflights : ClaimRow(p)
    BY <1>3
  <2>2. rows' = [rows EXCEPT ![p] = ClaimedRow] /\ \A q \in Preflights : rows[q] = None
    BY <2>1 DEF ClaimRow, ClaimedRow, Unclaimed
  <2>3. RowGood(p, ClaimedRow, artifacts') /\ ClaimedRow \in Rows
    BY ClaimAfter DEF RowGood
  <2>4. rows' \in [Preflights -> Rows \union {None}] /\ rows'[p] = ClaimedRow
        /\ \A q \in Preflights \ {p} : rows'[q] = None
    BY <1>1, <2>2, <2>3
  <2> QED BY <2>2, <2>3, <2>4 DEF OneRow
<1>4. CASE \E p \in Preflights : RowsAfter(p)
  <2>1. PICK p \in Preflights : RowsAfter(p)
    BY <1>4
  <2>2. PICK row : RowGood(p, row, artifacts') /\ rows' = [rows EXCEPT ![p] = row]
    BY <2>1 DEF RowsAfter
  <2>3. row \in Rows /\ row # None
    BY <2>2, RowNotNull DEF RowGood
  <2>4. rows' \in [Preflights -> Rows \union {None}] /\ rows'[p] = row
        /\ \A q \in Preflights \ {p} : rows'[q] = rows[q]
    BY <1>1, <2>2, <2>3
  <2>5. rows[p] # None /\ artifacts \subseteq artifacts'
    BY <2>1 DEF RowsAfter
  <2>6. ASSUME NEW q \in Preflights \ {p}, rows[q] # None PROVE RowGood(q, rows[q], artifacts')
    BY <1>1, <2>5, <2>6 DEF RowGood, Backed
  <2> QED BY <1>1, <2>2, <2>3, <2>4, <2>5, <2>6 DEF OneRow
<1> QED BY <1>2, <1>3, <1>4, SubmissionAfter, TransactionAfter, ObservationAfter, QuorumAfter DEF RowMove

-------------------------------------------------------------------------------
(* Reports. *)

\* An answer of the wallet is final.
AnswersFinal ==
  /\ wallet' \in [Preflights -> WalletStates]
  /\ \A p \in Preflights :
       /\ wallet[p].answer # "open" => wallet'[p].answer = wallet[p].answer /\ wallet'[p].tx = wallet[p].tx
       /\ wallet'[p].answer = "accepted" => wallet'[p].tx \in Transactions

\* A tab makes a report of what the wallet answered.
OutcomesMove ==
  /\ outcomes' \in [Preflights -> [outcome : Outcomes, hash : Hashes]]
  /\ \A p \in Preflights :
       \/ outcomes'[p] = outcomes[p]
       \/ Truthful(p, outcomes'[p].outcome, outcomes'[p].hash)

\* A request ends, goes on, or arrives with a report that was made ready.
RequestMove(r) ==
  \/ requests'[r] = requests[r]
  \/ requests'[r] = NoRequest
  \/ /\ requests[r].phase # "idle" /\ requests'[r].of = requests[r].of /\ requests'[r].at = requests[r].at
     /\ requests'[r].kind = requests[r].kind /\ requests'[r].outcome = requests[r].outcome
     /\ requests'[r].hash = requests[r].hash
  \/ /\ edge = "active" /\ requests'[r].of \in Preflights /\ requests'[r].at = now
     /\ Truthful(requests'[r].of, requests'[r].outcome, requests'[r].hash)
     /\ requests'[r].kind = "outcome" => requests'[r].outcome # "none"
RequestMoves == requests' \in [Slots -> Requests] /\ \A r \in Slots : RequestMove(r)

\* What was true of the wallet stays true.
LEMMA TruthStays ==
  ASSUME WalletInv, AnswersFinal, NEW p \in Preflights, NEW outcome, NEW hash, Truthful(p, outcome, hash)
  PROVE  /\ outcome = "reported" => wallet'[p].answer = "accepted" /\ hash = wallet'[p].tx
         /\ outcome = "rejected" => wallet'[p].answer = "rejected"
BY DEF AnswersFinal, Truthful

\* The journal part of the invariant is kept by moves.
LEMMA KeepsJournal ==
  ASSUME WalletInv, RowMove, AnswersFinal, OutcomesMove, RequestMoves
  PROVE  JournalInv'
<1>1. /\ rows' \in [Preflights -> Rows \union {None}]
      /\ \A p \in Preflights : rows'[p] # None => RowGood(p, rows'[p], artifacts')
  BY RowMoves
<1>2. \A p \in Preflights :
        /\ wallet[p].answer # "open" => wallet'[p].answer = wallet[p].answer /\ wallet'[p].tx = wallet[p].tx
  BY DEF AnswersFinal
<1>3. OutcomeTrue'
  BY <1>1, <1>2 DEF OutcomeTrue, RowGood, RowTrue
<1>4. FinalizedBacked'
  BY <1>1 DEF FinalizedBacked, Readable, RowGood, Backed
<1>5. ASSUME NEW p \in Preflights PROVE Truthful(p, outcomes[p].outcome, outcomes[p].hash)'
  <2>1. Truthful(p, outcomes[p].outcome, outcomes[p].hash)
    BY DEF WalletInv, JournalInv, ReportsTrue
  <2> QED BY <1>2, <2>1 DEF OutcomesMove, Truthful
<1>6. ASSUME NEW r \in Slots, requests'[r].phase # "idle"
      PROVE  /\ requests'[r].of \in Preflights
             /\ Truthful(requests[r].of, requests[r].outcome, requests[r].hash)'
             /\ requests'[r].kind = "outcome" => requests'[r].outcome # "none"
  <2>1. RequestMove(r)
    BY DEF RequestMoves
  <2>2. requests'[r] # NoRequest
    BY <1>6 DEF NoRequest
  <2>3. requests[r].phase # "idle" =>
          /\ requests[r].of \in Preflights /\ Truthful(requests[r].of, requests[r].outcome, requests[r].hash)
          /\ requests[r].kind = "outcome" => requests[r].outcome # "none"
    BY DEF WalletInv, JournalInv, ReportsTrue
  <2> QED BY <1>2, <1>6, <2>1, <2>2, <2>3 DEF RequestMove, Truthful
<1>7. ReportsTrue'
  BY <1>5, <1>6 DEF ReportsTrue
<1> QED BY <1>3, <1>4, <1>7 DEF JournalInv

-------------------------------------------------------------------------------
(* Who holds a claim. *)

\* Nobody starts, claims or asks.
ClientQuiet ==
  /\ tabs' \in [Tabs -> TabStates] /\ \A t \in Tabs : tabs'[t] = tabs[t] \/ tabs'[t] = NoTab
  /\ tombstones' = tombstones /\ delivered' = delivered
  /\ dispatcher' = dispatcher \/ dispatcher' = NoDispatch
  /\ \A p \in Preflights : wallet'[p].asked = wallet[p].asked

\* Then everyone holds what they held.
LEMMA KeepsClientQuiet ==
  ASSUME WalletInv, RowMove, AnswersFinal, ClientQuiet
  PROVE  ClientInv'
<1>1. OneRow' /\ \A p \in Preflights : rows[p] # None => rows'[p] # None
  BY RowMoves
<1>2. delivered \subseteq Preflights /\ tabs \in [Tabs -> TabStates] /\ wallet \in [Preflights -> WalletStates]
  BY DEF WalletInv, WalletTypeOK
<1>3. /\ DeliveredClaimed /\ (\A t \in Tabs : TabHolds(t)) /\ OneContext /\ DispatcherHolds
      /\ \A p \in Preflights : AskedBehind(p)
  BY DEF WalletInv, ClientInv
<1>4. NoTab.phase = "idle" /\ NoDispatch.phase = "idle"
  BY DEF NoTab, NoDispatch
<1>5. DeliveredClaimed'
  BY <1>1, <1>2, <1>3 DEF ClientQuiet, DeliveredClaimed
<1>6. ASSUME NEW t \in Tabs PROVE TabHolds(t)'
  BY <1>2, <1>3, <1>4 DEF ClientQuiet, TabHolds
<1>7. OneContext'
  BY <1>3, <1>4 DEF ClientQuiet, OneContext
<1>8. DispatcherHolds'
  BY <1>1, <1>3, <1>4 DEF ClientQuiet, DispatcherHolds
<1>9. ASSUME NEW p \in Preflights PROVE AskedBehind(p)'
  BY <1>1, <1>3 DEF ClientQuiet, AskedBehind, AnswersFinal
<1> QED BY <1>1, <1>5, <1>6, <1>7, <1>8, <1>9 DEF ClientInv

-------------------------------------------------------------------------------
(* The clock of a request. *)

\* Requests that end, go on or arrive while the clock and the process stand still.
LEMMA KeepsEdgeQuiet ==
  ASSUME WalletInv, RequestMoves, UNCHANGED <<now, edge, fault, tickInFlight, abuse>>
  PROVE  EdgeInv'
<1>1. \A r \in Slots : RequestTimed(r) /\ RequestMove(r)
  BY DEF WalletInv, EdgeInv, RequestMoves
<1>2. NoRequest.phase = "idle" /\ now \in Nat
  BY DEF NoRequest, WalletInv, WalletTypeOK
<1>3. ASSUME NEW r \in Slots PROVE RequestTimed(r)'
  BY <1>1, <1>2 DEF RequestTimed, RequestMove
<1>4. abuse'.high <= now' /\ HaltExplained'
  BY DEF WalletInv, EdgeInv, HaltExplained
<1> QED BY <1>3, <1>4 DEF EdgeInv

-------------------------------------------------------------------------------
(* The steps. *)

RestTyped ==
  /\ now \in Nat /\ tabs \in [Tabs -> TabStates] /\ tombstones \in [high : Nat, of : SUBSET Preflights]
  /\ dispatcher \in [phase : {"idle", "context", "asked"}, of : Preflights \union {None}]
  /\ abuse \in [high : Nat, startedAt : Nat, count : Nat]
  /\ delivered \subseteq Preflights /\ edge \in {"active", "halted", "down"}

\* A step made of moves that keeps the other two parts keeps the invariant.
LEMMA Combine ==
  ASSUME WalletInv, RowMove, AnswersFinal, OutcomesMove, RequestMoves, ClientInv', EdgeInv', RestTyped'
  PROVE  WalletInv'
<1>1. JournalInv' /\ rows' \in [Preflights -> Rows \union {None}]
  BY KeepsJournal, RowMoves
<1>2. WalletTypeOK'
  BY <1>1 DEF WalletTypeOK, RestTyped, AnswersFinal, OutcomesMove, RequestMoves
<1> QED BY <1>1, <1>2 DEF WalletInv

\* What a step leaves alone.
LEMMA StandStill ==
  ASSUME WalletInv
  PROVE  /\ rows' = rows /\ artifacts' = artifacts => RowMove
         /\ wallet' = wallet => AnswersFinal
         /\ outcomes' = outcomes => OutcomesMove
         /\ requests' = requests => RequestMoves
         /\ tabs' = tabs /\ tombstones' = tombstones /\ delivered' = delivered /\ dispatcher' = dispatcher
              /\ wallet' = wallet => ClientQuiet
         /\ RestTyped
<1>1. WalletTypeOK /\ \A p \in Preflights : AskedBehind(p)
  BY DEF WalletInv, ClientInv
<1>2. wallet' = wallet => AnswersFinal
  BY <1>1 DEF WalletTypeOK, AskedBehind, AnswersFinal
<1>3. outcomes' = outcomes => OutcomesMove
  BY <1>1 DEF WalletTypeOK, OutcomesMove
<1>4. requests' = requests => RequestMoves
  BY <1>1 DEF WalletTypeOK, RequestMoves, RequestMove
<1>5. RestTyped
  BY <1>1 DEF WalletTypeOK, RestTyped
<1>6. tabs' = tabs /\ tombstones' = tombstones /\ delivered' = delivered /\ dispatcher' = dispatcher
        /\ wallet' = wallet => ClientQuiet
  BY <1>1 DEF WalletTypeOK, ClientQuiet
<1> QED BY <1>2, <1>3, <1>4, <1>5, <1>6 DEF RowMove

\* One request ends, or goes on to its next phase.
LEMMA RequestStep ==
  ASSUME WalletInv, NEW r \in Slots
  PROVE  /\ Idle(r) => RequestMoves
         /\ \A phase \in {"session", "gateway"} :
              requests[r].phase # "idle" /\ requests' = [requests EXCEPT ![r].phase = phase] => RequestMoves
<1>1. requests \in [Slots -> Requests] /\ requests[r] \in Requests
  BY DEF WalletInv, WalletTypeOK
<1>2. ASSUME Idle(r) PROVE RequestMoves
  <2>1. NoRequest \in Requests
    BY DEF NoRequest, Requests, Outcomes, Hashes
  <2> QED BY <1>1, <1>2, <2>1 DEF Idle, RequestMoves, RequestMove
<1>3. ASSUME NEW phase \in {"session", "gateway"}, requests[r].phase # "idle",
             requests' = [requests EXCEPT ![r].phase = phase]
      PROVE  RequestMoves
  <2> DEFINE next == [requests[r] EXCEPT !.phase = phase]
  <2>1. /\ next \in Requests /\ next.of = requests[r].of /\ next.at = requests[r].at /\ next.kind = requests[r].kind
        /\ next.outcome = requests[r].outcome /\ next.hash = requests[r].hash
    BY <1>1 DEF Requests
  <2>2. requests' = [requests EXCEPT ![r] = next]
    BY <1>1, <1>3
  <2> HIDE DEF next
  <2>3. requests' \in [Slots -> Requests] /\ requests'[r] = next /\ \A s \in Slots \ {r} : requests'[s] = requests[s]
    BY <1>1, <2>1, <2>2
  <2> QED BY <1>3, <2>1, <2>3 DEF RequestMoves, RequestMove
<1> QED BY <1>2, <1>3

\* A request that arrives carries the report it found.
LEMMA ArriveStep ==
  ASSUME WalletInv, NEW r \in Slots, NEW p \in Preflights, NEW kind \in {"prepare", "claim", "outcome"},
         NEW outcome \in Outcomes, NEW hash \in Hashes, Truthful(p, outcome, hash),
         kind = "outcome" => outcome # "none", Arrive(r, kind, p, outcome, hash)
  PROVE  RequestMoves
<1> DEFINE new == [phase |-> "body", kind |-> kind, of |-> p, at |-> now, outcome |-> outcome, hash |-> hash]
<1>1. requests \in [Slots -> Requests] /\ now \in Nat
  BY DEF WalletInv, WalletTypeOK
<1>2. /\ new \in Requests /\ new.of = p /\ new.at = now /\ new.kind = kind /\ new.outcome = outcome /\ new.hash = hash
  BY <1>1 DEF Requests
<1>3. requests' = [requests EXCEPT ![r] = new] /\ edge = "active"
  BY DEF Arrive
<1> HIDE DEF new
<1>4. requests' \in [Slots -> Requests] /\ requests'[r] = new /\ \A s \in Slots \ {r} : requests'[s] = requests[s]
  BY <1>1, <1>2, <1>3
<1> QED BY <1>2, <1>3, <1>4 DEF RequestMoves, RequestMove

\* The edge halts for a reason, while its requests end.
LEMMA KeepsEdgeHalt ==
  ASSUME WalletInv, RequestMoves, UNCHANGED <<now, tickInFlight>>, edge \in {"active", "halted"},
         edge' \in {"active", "halted"}, abuse'.high <= now, HaltExplained'
  PROVE  EdgeInv'
<1>1. \A r \in Slots : RequestTimed(r) /\ RequestMove(r)
  BY DEF WalletInv, EdgeInv, RequestMoves
<1>2. NoRequest.phase = "idle" /\ now \in Nat
  BY DEF NoRequest, WalletInv, WalletTypeOK
<1>3. ASSUME NEW r \in Slots PROVE RequestTimed(r)'
  BY <1>1, <1>2 DEF RequestTimed, RequestMove
<1> QED BY <1>3 DEF EdgeInv

\* The clients while the server takes a step: only the dispatcher may die with it.
ClientsStill ==
  /\ UNCHANGED <<tabs, tombstones, outcomes, wallet>>
  /\ dispatcher' = dispatcher \/ dispatcher' = NoDispatch

\* What stays so of the clients in such a step.
LEMMA ServerFrame ==
  ASSUME WalletInv, ClientsStill
  PROVE  /\ AnswersFinal /\ OutcomesMove
         /\ delivered' = delivered => ClientQuiet
         /\ now' \in Nat /\ abuse' \in [high : Nat, startedAt : Nat, count : Nat] /\ delivered' \subseteq Preflights
              /\ edge' \in {"active", "halted", "down"} => RestTyped'
<1>1. RestTyped
  BY StandStill
<1>2. NoDispatch \in [phase : {"idle", "context", "asked"}, of : Preflights \union {None}]
  BY DEF NoDispatch
<1>3. AnswersFinal /\ OutcomesMove
  BY StandStill DEF ClientsStill
<1>4. delivered' = delivered => ClientQuiet
  BY <1>1 DEF ClientsStill, ClientQuiet, RestTyped
<1> QED BY <1>1, <1>2, <1>3, <1>4 DEF ClientsStill, RestTyped

\* A request before its session is known.
LEMMA EarlyStep ==
  ASSUME WalletInv, ClientsStill, NEW r \in Slots, BodyEnds(r) \/ SessionFails(r) \/ Refuse(r)
  PROVE  WalletInv'
<1>1. /\ AnswersFinal /\ OutcomesMove
      /\ delivered' = delivered => ClientQuiet
      /\ now' \in Nat /\ abuse' \in [high : Nat, startedAt : Nat, count : Nat] /\ delivered' \subseteq Preflights
           /\ edge' \in {"active", "halted", "down"} => RestTyped'
  BY ServerFrame
<1>2. UNCHANGED <<now, rows, artifacts, abuse, delivered, tickInFlight>>
  BY DEF BodyEnds, SessionFails, Refuse, journalVars
<1>3. RowMove /\ RestTyped
  BY <1>2, StandStill
<1>4. RequestTimed(r) /\ HaltExplained /\ abuse.high <= now /\ now \in Nat /\ requests[r] \in Requests
  BY DEF WalletInv, EdgeInv, WalletTypeOK
<1>5. RequestMoves
  BY RequestStep DEF BodyEnds, SessionFails, Refuse, Halt
<1>6. EdgeInv'
  <2>1. CASE UNCHANGED <<edge, fault>>
    BY <1>2, <1>5, <2>1, KeepsEdgeQuiet
  <2>2. CASE edge = "active" /\ edge' = "halted" /\ fault' = TRUE
    <3>1. HaltExplained'
      BY <2>2 DEF HaltExplained
    <3> QED BY <1>2, <1>4, <1>5, <2>2, <3>1, KeepsEdgeHalt
  <2>3. CASE requests[r].phase = "body" /\ edge = "active" /\ requests[r].at # now /\ edge' = "halted"
    <3>1. requests[r].at < now
      BY <1>4, <2>3 DEF RequestTimed, Requests
    <3>2. tickInFlight
      BY <1>4, <2>3, <3>1 DEF RequestTimed
    <3>3. HaltExplained'
      BY <1>2, <3>2 DEF HaltExplained
    <3> QED BY <1>2, <1>4, <1>5, <2>3, <3>3, KeepsEdgeHalt
  <2> QED BY <2>1, <2>2, <2>3 DEF BodyEnds, SessionFails, Refuse, Halt
<1>7. edge' \in {"active", "halted", "down"}
  BY <1>3 DEF RestTyped, BodyEnds, SessionFails, Refuse, Halt
<1>8. RestTyped'
  BY <1>1, <1>2, <1>3, <1>7 DEF RestTyped
<1>9. ClientInv'
  BY <1>1, <1>2, <1>3, KeepsClientQuiet
<1> QED BY <1>1, <1>3, <1>5, <1>6, <1>8, <1>9, Combine

\* The abuse store takes the time of the request.
LEMMA Consuming ==
  ASSUME WalletInv, NEW at \in Nat, at <= now
  PROVE  /\ Consumed(at) \in [high : Nat, startedAt : Nat, count : Nat] /\ Consumed(at).high <= now
         /\ [abuse EXCEPT !.high = at] \in [high : Nat, startedAt : Nat, count : Nat]
         /\ [abuse EXCEPT !.high = at].high <= now
<1>1. abuse \in [high : Nat, startedAt : Nat, count : Nat]
  BY DEF WalletInv, WalletTypeOK
<1> DEFINE fresh == [high |-> at, startedAt |-> at, count |-> 1]
           counted == [abuse EXCEPT !.high = at, !.count = abuse.count + 1]
           stamped == [abuse EXCEPT !.high = at]
<1>2. fresh \in [high : Nat, startedAt : Nat, count : Nat] /\ fresh.high = at
  OBVIOUS
<1>3. counted \in [high : Nat, startedAt : Nat, count : Nat] /\ counted.high = at
  <2>1. abuse.count + 1 \in Nat
    BY <1>1
  <2> QED BY <1>1, <2>1
<1>4. stamped \in [high : Nat, startedAt : Nat, count : Nat] /\ stamped.high = at
  BY <1>1
<1>5. Consumed(at) = fresh \/ Consumed(at) = counted
  BY DEF Consumed
<1> HIDE DEF fresh, counted, stamped
<1>6. Consumed(at) \in [high : Nat, startedAt : Nat, count : Nat] /\ Consumed(at).high <= now
  BY <1>2, <1>3, <1>5
<1>7. stamped \in [high : Nat, startedAt : Nat, count : Nat] /\ stamped.high <= now
  BY <1>4
<1> QED BY <1>6, <1>7 DEF stamped

\* A request with its session.
LEMMA SessionStep ==
  ASSUME WalletInv, ClientsStill, NEW r \in Slots, SessionEnds(r)
  PROVE  WalletInv'
<1>1. /\ AnswersFinal /\ OutcomesMove
      /\ delivered' = delivered => ClientQuiet
      /\ now' \in Nat /\ abuse' \in [high : Nat, startedAt : Nat, count : Nat] /\ delivered' \subseteq Preflights
           /\ edge' \in {"active", "halted", "down"} => RestTyped'
  BY ServerFrame
<1>2. UNCHANGED <<now, rows, artifacts, delivered, fault, tickInFlight>> /\ requests[r].phase = "session"
  BY DEF SessionEnds, journalVars
<1>3. RowMove /\ RestTyped
  BY <1>2, StandStill
<1>4. /\ RequestTimed(r) /\ HaltExplained /\ abuse.high <= now /\ now \in Nat /\ requests[r] \in Requests
      /\ requests[r].at \in Nat /\ requests[r].at <= now /\ edge # "down" /\ (requests[r].at < now => tickInFlight)
  BY <1>2 DEF WalletInv, EdgeInv, WalletTypeOK, RequestTimed, Requests
<1>5. RequestMoves
  <2>1. requests[r].phase # "idle"
    BY <1>2
  <2>2. CASE Idle(r)
    BY <2>2, RequestStep
  <2>3. CASE requests' = [requests EXCEPT ![r].phase = "gateway"]
    BY <2>1, <2>3, RequestStep
  <2>4. CASE ClaimHandle(r)
    <3>1. requests' = [requests EXCEPT ![r].phase = "gateway"] \/ Idle(r)
      BY <2>4 DEF ClaimHandle, Idle
    <3> QED BY <2>2, <2>3, <3>1
  <2> QED BY <2>2, <2>3, <2>4 DEF SessionEnds, IssueHandle, ForwardOutcome, Halt
<1>6. \/ abuse' = abuse
      \/ abuse' = Consumed(requests[r].at)
      \/ abuse' = [abuse EXCEPT !.high = requests[r].at]
  BY DEF SessionEnds
<1>7. abuse' \in [high : Nat, startedAt : Nat, count : Nat] /\ abuse'.high <= now
  BY <1>3, <1>4, <1>6, Consuming DEF RestTyped
<1>8. edge' \in {"active", "halted"} /\ edge \in {"active", "halted"}
  BY <1>3, <1>4 DEF SessionEnds, Halt, RestTyped
<1>9. HaltExplained'
  <2>1. CASE edge' = edge
    BY <1>2, <1>4, <2>1 DEF HaltExplained
  <2>2. CASE Overtaken(requests[r].at)
    <3>1. requests[r].at < now
      BY <1>3, <1>4, <2>2 DEF Overtaken, RestTyped
    <3> QED BY <1>2, <1>4, <3>1 DEF HaltExplained
  <2> QED BY <2>1, <2>2 DEF SessionEnds
<1>10. EdgeInv'
  BY <1>2, <1>5, <1>7, <1>8, <1>9, KeepsEdgeHalt
<1>11. RestTyped'
  BY <1>1, <1>2, <1>3, <1>7, <1>8 DEF RestTyped
<1>12. ClientInv'
  BY <1>1, <1>2, <1>3, KeepsClientQuiet
<1> QED BY <1>1, <1>3, <1>5, <1>10, <1>11, <1>12, Combine

\* The gateway records the report of a request.
LEMMA GatewayRecordStep ==
  ASSUME WalletInv, ClientsStill, NEW r \in Slots, GatewayRecords(r)
  PROVE  WalletInv'
<1>1. /\ AnswersFinal /\ OutcomesMove
      /\ delivered' = delivered => ClientQuiet
      /\ now' \in Nat /\ abuse' \in [high : Nat, startedAt : Nat, count : Nat] /\ delivered' \subseteq Preflights
           /\ edge' \in {"active", "halted", "down"} => RestTyped'
  BY ServerFrame
<1>2. UNCHANGED <<now, edge, abuse, delivered, fault, tickInFlight>> /\ Idle(r)
      /\ requests[r].phase = "gateway" /\ requests[r].kind = "outcome"
  BY DEF GatewayRecords
<1>3. RestTyped
  BY StandStill
<1>4. /\ requests[r].of \in Preflights /\ requests[r].outcome \in Reports /\ requests[r].hash \in Hashes
      /\ Truthful(requests[r].of, requests[r].outcome, requests[r].hash)
  <2>1. requests[r] \in Requests
    BY DEF WalletInv, WalletTypeOK
  <2>2. requests[r].outcome \in Outcomes /\ requests[r].hash \in Hashes
    BY <2>1 DEF Requests
  <2>3. /\ requests[r].of \in Preflights /\ Truthful(requests[r].of, requests[r].outcome, requests[r].hash)
        /\ requests[r].outcome # "none"
    BY <1>2 DEF WalletInv, JournalInv, ReportsTrue
  <2> QED BY <2>2, <2>3 DEF Outcomes, Reports
<1>5. RowMove
  <2>1. CASE Record(Submission(requests[r].of, requests[r].outcome, requests[r].hash))
    BY <1>4, <2>1 DEF RowMove, RecordsSubmission
  <2>2. CASE rows' = rows /\ artifacts' = artifacts
    BY <2>2 DEF RowMove
  <2> QED BY <2>1, <2>2 DEF GatewayRecords
<1>6. RequestMoves
  BY <1>2, RequestStep
<1>7. EdgeInv'
  BY <1>2, <1>6, KeepsEdgeQuiet
<1>8. RestTyped'
  BY <1>1, <1>2, <1>3 DEF RestTyped
<1>9. ClientInv'
  BY <1>1, <1>2, <1>5, KeepsClientQuiet
<1> QED BY <1>1, <1>5, <1>6, <1>7, <1>8, <1>9, Combine

\* The gateway claims the row, and the claim may reach the browser.
LEMMA GatewayClaimStep ==
  ASSUME WalletInv, ClientsStill, NEW r \in Slots, NEW arrives \in BOOLEAN, GatewayClaims(r, arrives)
  PROVE  WalletInv'
<1> DEFINE p == requests[r].of
<1>1. /\ AnswersFinal /\ OutcomesMove
      /\ delivered' = delivered => ClientQuiet
      /\ now' \in Nat /\ abuse' \in [high : Nat, startedAt : Nat, count : Nat] /\ delivered' \subseteq Preflights
           /\ edge' \in {"active", "halted", "down"} => RestTyped'
  BY ServerFrame
<1>2. /\ UNCHANGED <<now, artifacts, edge, abuse, fault, tickInFlight>> /\ Idle(r) /\ requests[r].phase = "gateway"
      /\ \/ ClaimRow(p) /\ (delivered' = delivered \/ delivered' = delivered \union {p})
         \/ rows' = rows /\ delivered' = delivered
  BY DEF GatewayClaims
<1>3. RestTyped
  BY StandStill
<1>4. p \in Preflights
  BY <1>2 DEF WalletInv, JournalInv, ReportsTrue
<1> HIDE DEF p
<1>5. RowMove
  BY <1>2, <1>4 DEF RowMove
<1>6. RequestMoves
  BY <1>2, RequestStep
<1>7. EdgeInv'
  BY <1>2, <1>6, KeepsEdgeQuiet
<1>8. RestTyped'
  <2>1. delivered' \subseteq Preflights
    BY <1>2, <1>3, <1>4 DEF RestTyped
  <2> QED BY <1>1, <1>2, <1>3, <2>1 DEF RestTyped
<1>9. CASE delivered' = delivered
  <2>1. ClientInv'
    BY <1>1, <1>5, <1>9, KeepsClientQuiet
  <2> QED BY <1>1, <1>5, <1>6, <1>7, <1>8, <2>1, Combine
<1>10. CASE ClaimRow(p) /\ delivered' = delivered \union {p}
  <2>1. /\ \A q \in Preflights : rows[q] = None
        /\ rows' = [rows EXCEPT ![p] = ClaimedRow]
    BY <1>10 DEF ClaimRow, Unclaimed, ClaimedRow
  <2>2. OneRow' /\ \A q \in Preflights : rows'[q] # None => RowGood(q, rows'[q], artifacts')
    BY <1>5, RowMoves
  <2>3. rows'[p] # None
    <3>1. rows'[p] = ClaimedRow /\ ClaimedRow \in Rows
      BY <1>4, <2>1, ClaimAfter DEF WalletInv, WalletTypeOK, RowGood
    <3> QED BY <3>1, RowNotNull
  <2>4. /\ \A q \in Preflights : wallet[q] \in WalletStates /\ AskedBehind(q)
        /\ delivered \subseteq Preflights /\ DeliveredClaimed /\ DispatcherHolds /\ \A t \in Tabs : TabHolds(t)
    BY DEF WalletInv, WalletTypeOK, ClientInv
  <2>5. delivered = {}
    BY <2>1, <2>4 DEF DeliveredClaimed
  <2>6. \A q \in Preflights : wallet[q].asked = 0
    BY <2>1, <2>4 DEF AskedBehind, WalletStates
  <2>7. \A t \in Tabs : tabs[t].phase = "idle"
    BY <2>4, <2>5 DEF TabHolds
  <2>8. dispatcher.phase = "idle"
    BY <2>1, <2>4 DEF DispatcherHolds
  <2>9. tabs' = tabs /\ wallet' = wallet /\ dispatcher'.phase = "idle"
    BY <2>8 DEF ClientsStill, NoDispatch
  <2>10. DeliveredClaimed'
    BY <1>10, <2>3, <2>5 DEF DeliveredClaimed
  <2>11. (\A t \in Tabs : TabHolds(t))' /\ OneContext' /\ DispatcherHolds'
    BY <2>7, <2>9 DEF TabHolds, OneContext, DispatcherHolds
  <2>12. (\A q \in Preflights : AskedBehind(q))'
    BY <2>4, <2>6, <2>9 DEF AskedBehind
  <2>13. ClientInv'
    BY <2>2, <2>10, <2>11, <2>12 DEF ClientInv
  <2> QED BY <1>1, <1>5, <1>6, <1>7, <1>8, <2>13, Combine
<1> QED BY <1>2, <1>9, <1>10

\* The process: its fence fails, it crashes, and a new one starts.
LEMMA ProcessStep ==
  ASSUME WalletInv, ClientsStill, FenceFails \/ EdgeCrash \/ ClearFence \/ EdgeStart
  PROVE  WalletInv'
<1>1. /\ AnswersFinal /\ OutcomesMove
      /\ delivered' = delivered => ClientQuiet
      /\ now' \in Nat /\ abuse' \in [high : Nat, startedAt : Nat, count : Nat] /\ delivered' \subseteq Preflights
           /\ edge' \in {"active", "halted", "down"} => RestTyped'
  BY ServerFrame
<1>2. UNCHANGED <<now, rows, artifacts, abuse, delivered>>
  BY DEF FenceFails, EdgeCrash, ClearFence, EdgeStart, journalVars
<1>3. RowMove /\ RestTyped
  BY <1>2, StandStill
<1>4. /\ (\A r \in Slots : RequestTimed(r)) /\ HaltExplained /\ abuse.high <= now
      /\ requests \in [Slots -> Requests] /\ now \in Nat
  BY DEF WalletInv, EdgeInv, WalletTypeOK
<1>5. ClientInv'
  BY <1>1, <1>2, <1>3, KeepsClientQuiet
<1>6. CASE FenceFails
  <2>1. /\ edge = "active" /\ edge' = "halted" /\ fault' = TRUE /\ requests' = requests /\ tickInFlight' = tickInFlight
    BY <1>6 DEF FenceFails
  <2>2. RequestMoves /\ RestTyped'
    BY <1>1, <1>2, <1>3, <2>1, StandStill DEF RestTyped
  <2>3. HaltExplained'
    BY <2>1 DEF HaltExplained
  <2>4. EdgeInv'
    BY <1>2, <1>4, <2>1, <2>2, <2>3, KeepsEdgeHalt
  <2> QED BY <1>1, <1>3, <1>5, <2>2, <2>4, Combine
<1>7. CASE EdgeCrash
  <2>1. edge' = "down" /\ requests' = [r \in Slots |-> NoRequest]
    BY <1>7 DEF EdgeCrash
  <2>2. NoRequest \in Requests /\ NoRequest.phase = "idle"
    BY DEF NoRequest, Requests, Outcomes, Hashes
  <2>3. RequestMoves
    BY <2>1, <2>2 DEF RequestMoves, RequestMove
  <2>4. RestTyped'
    BY <1>1, <1>2, <1>3, <2>1 DEF RestTyped
  <2>5. EdgeInv'
    BY <1>2, <1>4, <2>1, <2>2 DEF EdgeInv, RequestTimed, HaltExplained
  <2> QED BY <1>1, <1>3, <1>5, <2>3, <2>4, <2>5, Combine
<1>8. CASE ClearFence
  <2>1. UNCHANGED <<edge, requests, fault, tickInFlight>>
    BY <1>8 DEF ClearFence
  <2>2. RequestMoves /\ RestTyped'
    BY <1>1, <1>2, <1>3, <2>1, StandStill DEF RestTyped
  <2>3. EdgeInv'
    BY <1>2, <2>1, <2>2, KeepsEdgeQuiet
  <2> QED BY <1>1, <1>3, <1>5, <2>2, <2>3, Combine
<1>9. CASE EdgeStart
  <2>1. edge = "down" /\ edge' = "active" /\ requests' = requests
    BY <1>9 DEF EdgeStart
  <2>2. RequestMoves /\ RestTyped'
    BY <1>1, <1>2, <1>3, <2>1, StandStill DEF RestTyped
  <2>3. \A r \in Slots : requests[r].phase = "idle"
    BY <1>4, <2>1 DEF RequestTimed
  <2>4. EdgeInv'
    BY <1>2, <1>4, <2>1, <2>3 DEF EdgeInv, RequestTimed, HaltExplained
  <2> QED BY <1>1, <1>3, <1>5, <2>2, <2>4, Combine
<1> QED BY <1>6, <1>7, <1>8, <1>9

\* Every step of the server.
LEMMA ServerStep ==
  ASSUME WalletInv, Server
  PROVE  WalletInv'
<1>1. EdgeStep /\ ClientsStill
  BY DEF Server, ClientsStill
<1> QED BY <1>1, EarlyStep, SessionStep, GatewayClaimStep, ProcessStep DEF EdgeStep

\* A step of the clients leaves the process alone.
EdgeStill == UNCHANGED <<now, edge, fault, tickInFlight, abuse, delivered>>

\* Such a step preserves the invariant when the clients' and the journal's parts are preserved.
LEMMA ClientFrame ==
  ASSUME WalletInv, EdgeStill, RowMove, AnswersFinal, OutcomesMove, RequestMoves, ClientInv',
         tabs' \in [Tabs -> TabStates], tombstones' \in [high : Nat, of : SUBSET Preflights],
         dispatcher' \in [phase : {"idle", "context", "asked"}, of : Preflights \union {None}]
  PROVE  WalletInv'
<1>1. RestTyped
  BY StandStill
<1>2. RestTyped'
  BY <1>1 DEF RestTyped, EdgeStill
<1>3. EdgeInv'
  BY KeepsEdgeQuiet DEF EdgeStill
<1> QED BY <1>2, <1>3, Combine

\* The clock.
LEMMA TickStep ==
  ASSUME WalletInv, Tick
  PROVE  WalletInv'
<1>1. /\ now' = now + 1 /\ UNCHANGED <<rows, artifacts, edge, requests, abuse, delivered, fault>>
      /\ UNCHANGED <<tabs, tombstones, outcomes, dispatcher, wallet>>
      /\ tickInFlight' = (tickInFlight \/ \E r \in Slots : requests[r].phase # "idle")
  BY DEF Tick, journalVars, clientVars
<1>2. RowMove /\ AnswersFinal /\ OutcomesMove /\ RequestMoves /\ ClientQuiet /\ RestTyped
  BY <1>1, StandStill
<1>3. ClientInv'
  BY <1>2, KeepsClientQuiet
<1>4. /\ (\A r \in Slots : RequestTimed(r)) /\ HaltExplained /\ abuse.high <= now
      /\ requests \in [Slots -> Requests] /\ now \in Nat
  BY DEF WalletInv, EdgeInv, WalletTypeOK
<1>5. ASSUME NEW r \in Slots PROVE RequestTimed(r)'
  <2>1. requests[r].at \in Nat
    BY <1>4 DEF Requests
  <2>2. requests[r].phase # "idle" => tickInFlight'
    BY <1>1
  <2> QED BY <1>1, <1>4, <2>1, <2>2 DEF RequestTimed
<1>6. HaltExplained'
  BY <1>1, <1>4 DEF HaltExplained
<1>7. abuse'.high <= now' /\ now' \in Nat
  BY <1>1, <1>2, <1>4 DEF RestTyped
<1>8. EdgeInv' /\ RestTyped'
  BY <1>1, <1>2, <1>5, <1>6, <1>7 DEF EdgeInv, RestTyped
<1> QED BY <1>2, <1>3, <1>8, Combine

\* Reconciliation.
LEMMA ReconcileStep ==
  ASSUME WalletInv, Reconcile, UNCHANGED <<now, edgeVars, clientVars>>
  PROVE  WalletInv'
<1>1. EdgeStill /\ UNCHANGED <<requests, tabs, tombstones, outcomes, dispatcher, wallet>>
  BY DEF EdgeStill, edgeVars, clientVars
<1>2. RowMove
  <2>1. PICK p \in Preflights, tx \in Transactions, block \in Blocks \union {None} :
          \/ \E replaces \in Transactions \union {None} : RecordTransaction(p, tx, replaces, block)
          \/ \E q \in Providers, state \in {"NOT_FOUND", "REORGED", "REVERTED", "MISMATCH", "INCLUDED", "FINALIZED"} :
               RecordObservation(p, q, tx, state, block)
          \/ block # None /\ \E pair \in SUBSET Providers : RecordQuorum(p, tx, block, pair)
    BY DEF Reconcile
  <2>2. CASE \E replaces \in Transactions \union {None} : RecordTransaction(p, tx, replaces, block)
    BY <2>2 DEF RecordTransaction, RowMove, RecordsTransaction, Replaced
  <2>3. CASE \E q \in Providers, state \in {"NOT_FOUND", "REORGED", "REVERTED", "MISMATCH", "INCLUDED", "FINALIZED"} :
               RecordObservation(p, q, tx, state, block)
    BY <2>3 DEF RecordObservation, RowMove, RecordsObservation
  <2>4. CASE block # None /\ \E pair \in SUBSET Providers : RecordQuorum(p, tx, block, pair)
    BY <2>4 DEF RecordQuorum, RowMove, RecordsQuorum
  <2> QED BY <2>1, <2>2, <2>3, <2>4
<1>3. AnswersFinal /\ OutcomesMove /\ RequestMoves /\ RestTyped
  BY <1>1, StandStill
<1>4. ClientQuiet
  BY <1>1, <1>3, StandStill DEF EdgeStill
<1>5. ClientInv'
  BY <1>2, <1>3, <1>4, KeepsClientQuiet
<1> QED BY <1>1, <1>2, <1>3, <1>5, ClientFrame DEF RestTyped

\* The user answers: once, and for good.
LEMMA UserStep ==
  ASSUME WalletInv, NEW p \in Preflights, UserAccepts(p) \/ UserRejects(p)
  PROVE  WalletInv'
<1>1. EdgeStill /\ UNCHANGED <<rows, artifacts, requests, tabs, tombstones, outcomes, dispatcher>>
  BY DEF UserAccepts, UserRejects, EdgeStill, journalVars, edgeVars
<1>2. RowMove /\ OutcomesMove /\ RequestMoves /\ RestTyped
  BY <1>1, StandStill
<1>3. wallet \in [Preflights -> WalletStates] /\ wallet[p].answer = "open" /\ \A q \in Preflights : AskedBehind(q)
  BY DEF WalletInv, WalletTypeOK, ClientInv, UserAccepts, UserRejects
<1>4. FirstHash \in Transactions
  BY WalletAssumption DEF FirstHash
<1>5. PICK row \in WalletStates :
        /\ wallet' = [wallet EXCEPT ![p] = row] /\ row.asked = wallet[p].asked
        /\ row.answer = "accepted" => row.tx \in Transactions
  <2>1. CASE UserAccepts(p)
    <3> DEFINE row == [wallet[p] EXCEPT !.answer = "accepted", !.tx = FirstHash]
    <3>1. row \in WalletStates /\ row.asked = wallet[p].asked /\ row.tx = FirstHash
      BY <1>3, <1>4 DEF WalletStates, Hashes
    <3>2. wallet' = [wallet EXCEPT ![p] = row]
      BY <1>3, <2>1 DEF UserAccepts, WalletStates
    <3> QED BY <1>4, <3>1, <3>2
  <2>2. CASE UserRejects(p)
    <3> DEFINE row == [wallet[p] EXCEPT !.answer = "rejected"]
    <3>1. row \in WalletStates /\ row.asked = wallet[p].asked /\ row.answer = "rejected"
      BY <1>3 DEF WalletStates
    <3>2. wallet' = [wallet EXCEPT ![p] = row]
      BY <1>3, <2>2 DEF UserRejects
    <3> QED BY <3>1, <3>2
  <2> QED BY <2>1, <2>2
<1>6. /\ wallet' \in [Preflights -> WalletStates] /\ wallet'[p] = row
      /\ \A q \in Preflights \ {p} : wallet'[q] = wallet[q]
  BY <1>3, <1>5
<1>7. AnswersFinal
  BY <1>3, <1>5, <1>6 DEF AnswersFinal, AskedBehind
<1>8. ClientQuiet
  BY <1>1, <1>2, <1>5, <1>6 DEF ClientQuiet, RestTyped, EdgeStill
<1>9. ClientInv'
  BY <1>2, <1>7, <1>8, KeepsClientQuiet
<1> QED BY <1>1, <1>2, <1>7, <1>9, ClientFrame DEF RestTyped

\* The dispatcher claims the row of an intent nobody has claimed.
LEMMA DispatcherClaimStep ==
  ASSUME WalletInv, NEW p \in Preflights, DispatcherClaims(p)
  PROVE  WalletInv'
<1>1. /\ EdgeStill /\ UNCHANGED <<artifacts, requests, tabs, tombstones, outcomes, wallet>>
      /\ ClaimRow(p) /\ dispatcher' = [phase |-> "context", of |-> p]
  BY DEF DispatcherClaims, EdgeStill, edgeVars
<1>2. RowMove /\ AnswersFinal /\ OutcomesMove /\ RequestMoves /\ RestTyped
  BY <1>1, StandStill DEF RowMove
<1>3. (\A q \in Preflights : rows[q] = None) /\ rows' = [rows EXCEPT ![p] = ClaimedRow]
  BY <1>1 DEF ClaimRow, Unclaimed, ClaimedRow
<1>4. OneRow' /\ rows'[p] # None
  <2>1. rows'[p] = ClaimedRow /\ ClaimedRow \in Rows
    BY <1>3, ClaimAfter DEF WalletInv, WalletTypeOK, RowGood
  <2> QED BY <1>2, <2>1, RowMoves, RowNotNull
<1>5. /\ \A q \in Preflights : wallet[q] \in WalletStates /\ AskedBehind(q)
      /\ delivered \subseteq Preflights /\ DeliveredClaimed /\ \A t \in Tabs : TabHolds(t)
  BY DEF WalletInv, WalletTypeOK, ClientInv
<1>6. delivered = {} /\ \A q \in Preflights : wallet[q].asked = 0
  BY <1>3, <1>5 DEF DeliveredClaimed, AskedBehind, WalletStates
<1>7. \A t \in Tabs : tabs[t].phase = "idle"
  BY <1>5, <1>6 DEF TabHolds
<1>8. delivered' = delivered
  BY <1>1 DEF EdgeStill
<1>9. DeliveredClaimed' /\ (\A t \in Tabs : TabHolds(t))' /\ OneContext'
  BY <1>1, <1>6, <1>7, <1>8 DEF DeliveredClaimed, TabHolds, OneContext
<1>10. DispatcherHolds'
  BY <1>1, <1>4, <1>6, <1>8 DEF DispatcherHolds
<1>11. (\A q \in Preflights : AskedBehind(q))'
  BY <1>1, <1>5, <1>6 DEF AskedBehind
<1>12. ClientInv'
  BY <1>4, <1>9, <1>10, <1>11 DEF ClientInv
<1>13. dispatcher' \in [phase : {"idle", "context", "asked"}, of : Preflights \union {None}]
  BY <1>1
<1> QED BY <1>1, <1>2, <1>12, <1>13, ClientFrame DEF RestTyped

\* A request of the browser.
LEMMA BrowserRequestStep ==
  ASSUME WalletInv, NEW r \in Slots, NEW p \in Preflights, BrowserRequests(r, p)
  PROVE  WalletInv'
<1>1. PICK kind \in {"prepare", "claim", "outcome"}, outcome \in Outcomes, hash \in Hashes :
        /\ Arrive(r, kind, p, outcome, hash) /\ Truthful(p, outcome, hash) /\ (kind = "outcome" => outcome # "none")
  <2>1. Truthful(p, outcomes[p].outcome, outcomes[p].hash)
    BY DEF WalletInv, JournalInv, ReportsTrue
  <2>2. outcomes[p].outcome \in Outcomes /\ outcomes[p].hash \in Hashes /\ "none" \in Outcomes /\ None \in Hashes
    BY DEF WalletInv, WalletTypeOK, Outcomes, Hashes
  <2>3. Truthful(p, "none", None)
    BY DEF Truthful
  <2>4. CASE Arrive(r, "prepare", p, "none", None)
    BY <2>2, <2>3, <2>4
  <2>5. CASE Arrive(r, "claim", p, "none", None)
    BY <2>2, <2>3, <2>5
  <2>6. CASE outcomes[p].outcome # "none" /\ Arrive(r, "outcome", p, outcomes[p].outcome, outcomes[p].hash)
    BY <2>1, <2>2, <2>6
  <2> QED BY <2>4, <2>5, <2>6 DEF BrowserRequests
<1>2. /\ EdgeStill /\ UNCHANGED <<rows, artifacts, tabs, tombstones, outcomes, dispatcher, wallet>>
  BY <1>1 DEF Arrive, EdgeStill, BrowserRequests, clientVars
<1>3. RequestMoves
  BY <1>1, ArriveStep
<1>4. RowMove /\ AnswersFinal /\ OutcomesMove /\ RestTyped
  BY <1>2, StandStill
<1>5. ClientQuiet
  BY <1>2, StandStill DEF EdgeStill
<1>6. ClientInv'
  BY <1>4, <1>5, KeepsClientQuiet
<1> QED BY <1>2, <1>3, <1>4, <1>6, ClientFrame DEF RestTyped

\* A tab that gives up, is closed or has its answer holds nothing any more.
LEMMA TabLeaves ==
  ASSUME WalletInv, NEW t \in Tabs, tabs' = [tabs EXCEPT ![t] = NoTab], EdgeStill, OutcomesMove,
         UNCHANGED <<rows, artifacts, requests, tombstones, dispatcher, wallet>>
  PROVE  WalletInv'
<1>1. RowMove /\ AnswersFinal /\ RequestMoves /\ RestTyped
  BY StandStill
<1>2. NoTab \in TabStates
  BY DEF NoTab, TabStates
<1>3. ClientQuiet
  BY <1>1, <1>2 DEF ClientQuiet, RestTyped, EdgeStill
<1>4. ClientInv'
  BY <1>1, <1>3, KeepsClientQuiet
<1>5. tabs' \in [Tabs -> TabStates]
  BY <1>3 DEF ClientQuiet
<1> QED BY <1>1, <1>4, <1>5, ClientFrame DEF RestTyped

\* The report of a tab is what the wallet answered.
LEMMA WalletAnsweredStep ==
  ASSUME WalletInv, NEW t \in Tabs, NEW outcome \in Reports, WalletAnswered(t, outcome)
  PROVE  WalletInv'
<1> DEFINE p == tabs[t].of
           report == [outcome |-> outcome, hash |-> wallet[p].tx]
<1>1. /\ EdgeStill /\ UNCHANGED <<rows, artifacts, requests, tombstones, dispatcher, wallet>>
      /\ tabs' = [tabs EXCEPT ![t] = NoTab] /\ Classified(p, outcome) /\ tabs[t].phase = "asked"
      /\ outcomes' = outcomes \/ outcomes' = [outcomes EXCEPT ![p] = report]
  BY DEF WalletAnswered, EdgeStill, journalVars, edgeVars
<1>2. p \in Preflights
  BY <1>1 DEF WalletInv, ClientInv, TabHolds, WalletTypeOK
<1>3. /\ outcomes \in [Preflights -> [outcome : Outcomes, hash : Hashes]]
      /\ wallet[p] \in WalletStates
  BY <1>2 DEF WalletInv, WalletTypeOK
<1>4. report \in [outcome : Outcomes, hash : Hashes] /\ report.outcome = outcome /\ report.hash = wallet[p].tx
  BY <1>3 DEF Outcomes, Reports, WalletStates
<1>5. Truthful(p, outcome, wallet[p].tx)
  BY <1>1 DEF Classified, Truthful, Reports
<1> HIDE DEF p, report
<1>6. OutcomesMove
  <2>1. CASE outcomes' = outcomes
    BY <2>1, StandStill
  <2>2. CASE outcomes' = [outcomes EXCEPT ![p] = report]
    <3>1. /\ outcomes' \in [Preflights -> [outcome : Outcomes, hash : Hashes]] /\ outcomes'[p] = report
          /\ \A q \in Preflights \ {p} : outcomes'[q] = outcomes[q]
      BY <1>2, <1>3, <1>4, <2>2
    <3> QED BY <1>4, <1>5, <3>1 DEF OutcomesMove
  <2> QED BY <1>1, <2>1, <2>2
<1> QED BY <1>1, <1>6, TabLeaves

\* A tab changes its own entry.
LEMMA TabChanges ==
  ASSUME WalletInv, NEW t \in Tabs, NEW tab \in TabStates, tabs' = [tabs EXCEPT ![t] = tab]
  PROVE  tabs' \in [Tabs -> TabStates] /\ tabs'[t] = tab /\ \A u \in Tabs \ {t} : tabs'[u] = tabs[u]
BY DEF WalletInv, WalletTypeOK

\* A tab starts with a claim that is still live.
LEMMA BrowserStartStep ==
  ASSUME WalletInv, NEW t \in Tabs, NEW p \in Preflights, BrowserStarts(t, p)
  PROVE  WalletInv'
<1> DEFINE tab == [phase |-> "lock", of |-> p, at |-> now]
<1>1. /\ EdgeStill /\ UNCHANGED <<rows, artifacts, requests, tombstones, outcomes, dispatcher, wallet>>
      /\ tabs' = [tabs EXCEPT ![t] = tab] /\ p \in delivered /\ now < ExpiresAt
  BY DEF BrowserStarts, EdgeStill, journalVars, edgeVars, ClaimVerified
<1>2. tab \in TabStates /\ tab.phase = "lock" /\ tab.of = p /\ tab.at = now
  BY DEF WalletInv, WalletTypeOK, TabStates
<1> HIDE DEF tab
<1>3. tabs' \in [Tabs -> TabStates] /\ tabs'[t] = tab /\ \A u \in Tabs \ {t} : tabs'[u] = tabs[u]
  BY <1>1, <1>2, TabChanges
<1>4. RowMove /\ AnswersFinal /\ OutcomesMove /\ RequestMoves /\ RestTyped
  BY <1>1, StandStill
<1>5. /\ OneRow /\ DeliveredClaimed /\ (\A u \in Tabs : TabHolds(u)) /\ OneContext /\ DispatcherHolds
      /\ \A q \in Preflights : AskedBehind(q)
  BY DEF WalletInv, ClientInv
<1>6. OneRow' /\ DeliveredClaimed' /\ DispatcherHolds' /\ (\A q \in Preflights : AskedBehind(q))'
  BY <1>1, <1>5 DEF OneRow, DeliveredClaimed, DispatcherHolds, AskedBehind, EdgeStill
<1>7. ASSUME NEW u \in Tabs PROVE TabHolds(u)'
  <2>1. CASE u = t
    BY <1>1, <1>2, <1>3, <2>1 DEF TabHolds, EdgeStill
  <2>2. CASE u # t
    BY <1>1, <1>3, <1>5, <2>2 DEF TabHolds, EdgeStill
  <2> QED BY <2>1, <2>2
<1>8. OneContext'
  BY <1>2, <1>3, <1>5 DEF OneContext
<1>9. ClientInv'
  BY <1>6, <1>7, <1>8 DEF ClientInv
<1> QED BY <1>1, <1>3, <1>4, <1>9, ClientFrame DEF RestTyped

\* The lock lets one tab past, for the tombstone of a live claim has not expired.
LEMMA LockStep ==
  ASSUME WalletInv, NEW t \in Tabs, LockGranted(t)
  PROVE  WalletInv'
<1> DEFINE p == tabs[t].of
           tab == [tabs[t] EXCEPT !.phase = "context"]
           entry == [high |-> tabs[t].at, of |-> tombstones.of \union {p}]
<1>1. /\ EdgeStill /\ UNCHANGED <<rows, artifacts, requests, outcomes, dispatcher, wallet>> /\ tabs[t].phase = "lock"
  BY DEF LockGranted, EdgeStill, journalVars, edgeVars
<1>2. CASE tabs' = [tabs EXCEPT ![t] = NoTab] /\ tombstones' = tombstones
  BY <1>1, <1>2, StandStill, TabLeaves
<1>3. /\ OneRow /\ DeliveredClaimed /\ (\A u \in Tabs : TabHolds(u)) /\ OneContext /\ DispatcherHolds
      /\ \A q \in Preflights : AskedBehind(q)
  BY DEF WalletInv, ClientInv
<1>4. /\ tabs[t] \in TabStates /\ p \in delivered /\ p \in Preflights /\ tabs[t].at \in Nat /\ tabs[t].at < ExpiresAt
  BY <1>1, <1>3 DEF TabHolds, WalletInv, WalletTypeOK, TabStates
<1>5. KeptTombstones(tabs[t].at) = tombstones.of
  <2>1. ~(ReportExpiresAt <= tabs[t].at)
    BY <1>4, WalletAssumption, EdgeAssumption DEF ReportExpiresAt
  <2> QED BY <2>1 DEF KeptTombstones
<1>6. CASE /\ ConsumesTombstone(t) /\ tombstones' = entry /\ tabs' = [tabs EXCEPT ![t].phase = "context"]
  <2>1. p \notin tombstones.of
    BY <1>5, <1>6 DEF ConsumesTombstone
  <2>2. tab \in TabStates /\ tab.phase = "context" /\ tab.of = p /\ tab.at = tabs[t].at
    BY <1>4 DEF TabStates
  <2>3. entry \in [high : Nat, of : SUBSET Preflights] /\ entry.of = tombstones.of \union {p}
    BY <1>4 DEF WalletInv, WalletTypeOK
  <2>4. tabs' = [tabs EXCEPT ![t] = tab] /\ tombstones' = entry
    BY <1>6 DEF WalletInv, WalletTypeOK, TabStates
  <2> HIDE DEF p, tab, entry
  <2>5. tabs' \in [Tabs -> TabStates] /\ tabs'[t] = tab /\ \A u \in Tabs \ {t} : tabs'[u] = tabs[u]
    BY <2>2, <2>4, TabChanges
  <2>6. wallet[p].asked = 0 /\ wallet[p] \in WalletStates
    BY <1>3, <1>4, <2>1 DEF AskedBehind, WalletInv, WalletTypeOK, WalletStates
  <2>7. RowMove /\ AnswersFinal /\ OutcomesMove /\ RequestMoves /\ RestTyped
    BY <1>1, StandStill
  <2>8. OneRow' /\ DeliveredClaimed' /\ DispatcherHolds'
    BY <1>1, <1>3 DEF OneRow, DeliveredClaimed, DispatcherHolds, EdgeStill
  <2>9. (\A q \in Preflights : AskedBehind(q))'
    BY <1>1, <1>3, <2>3, <2>4 DEF AskedBehind, EdgeStill
  <2>10. ASSUME NEW u \in Tabs PROVE TabHolds(u)'
    <3>1. CASE u = t
      BY <1>1, <1>4, <2>2, <2>3, <2>4, <2>5, <2>6, <3>1 DEF TabHolds, EdgeStill
    <3>2. CASE u # t
      BY <1>1, <1>3, <2>3, <2>4, <2>5, <3>2 DEF TabHolds, EdgeStill
    <3> QED BY <3>1, <3>2
  <2>11. OneContext'
    <3>1. \A u \in Tabs : tabs[u].phase = "context" => tabs[u].of # p
      BY <1>3, <2>1 DEF TabHolds
    <3> QED BY <1>3, <2>2, <2>5, <3>1 DEF OneContext
  <2>12. ClientInv'
    BY <2>8, <2>9, <2>10, <2>11 DEF ClientInv
  <2> QED BY <1>1, <2>3, <2>4, <2>5, <2>7, <2>12, ClientFrame DEF RestTyped
<1> QED BY <1>2, <1>5, <1>6 DEF LockGranted

\* Asking counts.
LEMMA Asking ==
  ASSUME WalletInv, NEW p \in Preflights, Ask(p)
  PROVE  /\ wallet' \in [Preflights -> WalletStates] /\ wallet'[p].asked = wallet[p].asked + 1
         /\ wallet'[p].answer = wallet[p].answer /\ wallet'[p].tx = wallet[p].tx
         /\ \A q \in Preflights \ {p} : wallet'[q] = wallet[q]
         /\ AnswersFinal
<1> DEFINE row == [wallet[p] EXCEPT !.asked = wallet[p].asked + 1]
<1>1. wallet \in [Preflights -> WalletStates] /\ wallet[p] \in WalletStates
  BY DEF WalletInv, WalletTypeOK
<1>2. wallet[p].asked + 1 \in Nat
  BY <1>1 DEF WalletStates
<1>3. row \in WalletStates /\ row.asked = wallet[p].asked + 1 /\ row.answer = wallet[p].answer /\ row.tx = wallet[p].tx
  BY <1>1, <1>2 DEF WalletStates
<1>4. wallet' = [wallet EXCEPT ![p] = row]
  BY <1>1 DEF Ask
<1> HIDE DEF row
<1>5. /\ wallet' \in [Preflights -> WalletStates] /\ wallet'[p] = row
      /\ \A q \in Preflights \ {p} : wallet'[q] = wallet[q]
  BY <1>1, <1>3, <1>4
<1>6. \A q \in Preflights : wallet[q].answer = "accepted" => wallet[q].tx \in Transactions
  BY DEF WalletInv, ClientInv, AskedBehind
<1>7. AnswersFinal
  BY <1>3, <1>5, <1>6 DEF AnswersFinal
<1> QED BY <1>3, <1>5, <1>7

\* The tab that got past the lock asks, and no other may.
LEMMA ContextStep ==
  ASSUME WalletInv, NEW t \in Tabs, NEW same \in BOOLEAN, ContextRead(t, same)
  PROVE  WalletInv'
<1> DEFINE p == tabs[t].of
           tab == [tabs[t] EXCEPT !.phase = "asked"]
<1>1. /\ EdgeStill /\ UNCHANGED <<rows, artifacts, requests, tombstones, outcomes, dispatcher>>
      /\ tabs[t].phase = "context"
  BY DEF ContextRead, EdgeStill, journalVars, edgeVars
<1>2. CASE tabs' = [tabs EXCEPT ![t] = NoTab] /\ wallet' = wallet
  BY <1>1, <1>2, StandStill, TabLeaves
<1>3. /\ OneRow /\ DeliveredClaimed /\ (\A u \in Tabs : TabHolds(u)) /\ OneContext /\ DispatcherHolds
      /\ \A q \in Preflights : AskedBehind(q)
  BY DEF WalletInv, ClientInv
<1>4. /\ tabs[t] \in TabStates /\ p \in delivered /\ p \in Preflights /\ tabs[t].at < ExpiresAt
      /\ p \in tombstones.of /\ wallet[p].asked = 0 /\ rows[p] # None
  BY <1>1, <1>3 DEF TabHolds, DeliveredClaimed, WalletInv, WalletTypeOK, TabStates
<1>5. CASE Ask(p) /\ tabs' = [tabs EXCEPT ![t].phase = "asked"]
  <2>1. tab \in TabStates /\ tab.phase = "asked" /\ tab.of = p /\ tab.at = tabs[t].at
    BY <1>4 DEF TabStates
  <2>2. tabs' = [tabs EXCEPT ![t] = tab]
    BY <1>5 DEF WalletInv, WalletTypeOK, TabStates
  <2> HIDE DEF p, tab
  <2>3. tabs' \in [Tabs -> TabStates] /\ tabs'[t] = tab /\ \A u \in Tabs \ {t} : tabs'[u] = tabs[u]
    BY <2>1, <2>2, TabChanges
  <2>4. /\ wallet'[p].asked = 1 /\ wallet'[p].answer = wallet[p].answer /\ wallet'[p].tx = wallet[p].tx
        /\ \A q \in Preflights \ {p} : wallet'[q] = wallet[q]
        /\ AnswersFinal
    BY <1>4, <1>5, Asking
  <2>5. RowMove /\ OutcomesMove /\ RequestMoves /\ RestTyped
    BY <1>1, StandStill
  <2>6. OneRow' /\ DeliveredClaimed'
    BY <1>1, <1>3 DEF OneRow, DeliveredClaimed, EdgeStill
  <2>7. DispatcherHolds'
    BY <1>1, <1>3, <1>4, <2>4 DEF DispatcherHolds, EdgeStill
  <2>8. ASSUME NEW q \in Preflights PROVE AskedBehind(q)'
    <3>1. CASE q = p
      BY <1>1, <1>3, <1>4, <2>4, <3>1 DEF AskedBehind, EdgeStill
    <3>2. CASE q # p
      BY <1>1, <1>3, <2>4, <3>2 DEF AskedBehind, EdgeStill
    <3> QED BY <3>1, <3>2
  <2>9. ASSUME NEW u \in Tabs PROVE TabHolds(u)'
    <3>1. CASE u = t
      BY <1>1, <1>4, <2>1, <2>3, <3>1 DEF TabHolds, EdgeStill
    <3>2. CASE u # t
      <4>1. tabs[u].phase = "context" => tabs[u].of # p /\ tabs[u].of \in Preflights
        BY <1>1, <1>3, <3>2 DEF OneContext, TabHolds, WalletInv, WalletTypeOK, p
      <4> QED BY <1>1, <1>3, <2>3, <2>4, <3>2, <4>1 DEF TabHolds, EdgeStill
    <3> QED BY <3>1, <3>2
  <2>10. OneContext'
    BY <1>3, <2>1, <2>3 DEF OneContext
  <2>11. ClientInv'
    BY <2>6, <2>7, <2>8, <2>9, <2>10 DEF ClientInv
  <2> QED BY <1>1, <2>3, <2>4, <2>5, <2>11, ClientFrame DEF RestTyped
<1> QED BY <1>2, <1>5 DEF ContextRead

\* The dispatcher asks for the row it claimed, or gives up.
LEMMA DispatcherAskStep ==
  ASSUME WalletInv, NEW same \in BOOLEAN, DispatcherAsks(same)
  PROVE  WalletInv'
<1> DEFINE p == dispatcher.of
<1>1. /\ EdgeStill /\ UNCHANGED <<rows, artifacts, requests, tabs, tombstones, outcomes>>
      /\ dispatcher.phase = "context"
  BY DEF DispatcherAsks, EdgeStill, journalVars, edgeVars
<1>2. RowMove /\ OutcomesMove /\ RequestMoves /\ RestTyped
  BY <1>1, StandStill
<1>3. CASE dispatcher' = NoDispatch /\ wallet' = wallet
  <2>1. AnswersFinal
    BY <1>3, StandStill
  <2>2. ClientQuiet
    BY <1>1, <1>2, <1>3 DEF ClientQuiet, RestTyped, EdgeStill
  <2>3. ClientInv'
    BY <1>2, <2>1, <2>2, KeepsClientQuiet
  <2>4. dispatcher' \in [phase : {"idle", "context", "asked"}, of : Preflights \union {None}]
    BY <1>3 DEF NoDispatch
  <2> QED BY <1>1, <1>2, <2>1, <2>3, <2>4, ClientFrame DEF RestTyped
<1>4. /\ OneRow /\ DeliveredClaimed /\ (\A u \in Tabs : TabHolds(u)) /\ OneContext /\ DispatcherHolds
      /\ \A q \in Preflights : AskedBehind(q)
  BY DEF WalletInv, ClientInv
<1>5. p \in Preflights /\ p \notin delivered /\ rows[p] # None /\ wallet[p].asked = 0
  BY <1>1, <1>4 DEF DispatcherHolds
<1>6. CASE Ask(p) /\ dispatcher' = [dispatcher EXCEPT !.phase = "asked"]
  <2>1. /\ dispatcher' \in [phase : {"idle", "context", "asked"}, of : Preflights \union {None}]
        /\ dispatcher'.phase = "asked" /\ dispatcher'.of = p
    BY <1>2, <1>6 DEF RestTyped
  <2> HIDE DEF p
  <2>2. /\ wallet'[p].asked = 1 /\ wallet'[p].answer = wallet[p].answer /\ wallet'[p].tx = wallet[p].tx
        /\ \A q \in Preflights \ {p} : wallet'[q] = wallet[q]
        /\ AnswersFinal
    BY <1>5, <1>6, Asking
  <2>3. OneRow' /\ DeliveredClaimed' /\ OneContext'
    BY <1>1, <1>4 DEF OneRow, DeliveredClaimed, OneContext, EdgeStill
  <2>4. DispatcherHolds'
    BY <1>1, <1>5, <2>1 DEF DispatcherHolds, EdgeStill
  <2>5. ASSUME NEW q \in Preflights PROVE AskedBehind(q)'
    <3>1. CASE q = p
      BY <1>1, <1>4, <1>5, <2>2, <3>1 DEF AskedBehind, EdgeStill
    <3>2. CASE q # p
      BY <1>1, <1>4, <2>2, <3>2 DEF AskedBehind, EdgeStill
    <3> QED BY <3>1, <3>2
  <2>6. ASSUME NEW u \in Tabs PROVE TabHolds(u)'
    <3>1. tabs[u].phase # "idle" => tabs[u].of # p /\ tabs[u].of \in Preflights
      BY <1>4, <1>5 DEF TabHolds, WalletInv, WalletTypeOK
    <3> QED BY <1>1, <1>4, <2>2, <3>1 DEF TabHolds, EdgeStill
  <2>7. ClientInv'
    BY <2>3, <2>4, <2>5, <2>6 DEF ClientInv
  <2> QED BY <1>1, <1>2, <2>1, <2>2, <2>7, ClientFrame DEF RestTyped
<1> QED BY <1>3, <1>6 DEF DispatcherAsks

\* The dispatcher records what the wallet answered it.
LEMMA DispatcherRecordStep ==
  ASSUME WalletInv, NEW outcome \in Reports, NEW ok \in BOOLEAN, DispatcherRecords(outcome, ok)
  PROVE  WalletInv'
<1> DEFINE p == dispatcher.of
<1>1. /\ EdgeStill /\ UNCHANGED <<requests, tabs, tombstones, outcomes, wallet>>
      /\ dispatcher.phase = "asked" /\ Classified(p, outcome) /\ dispatcher' = NoDispatch
      /\ \/ Record(Submission(p, outcome, wallet[p].tx))
         \/ rows' = rows /\ artifacts' = artifacts
  BY DEF DispatcherRecords, EdgeStill, journalVars, edgeVars
<1>2. p \in Preflights
  BY <1>1 DEF WalletInv, ClientInv, DispatcherHolds
<1>3. Truthful(p, outcome, wallet[p].tx) /\ wallet[p].tx \in Hashes
  BY <1>1, <1>2 DEF Classified, Truthful, Reports, WalletInv, WalletTypeOK, WalletStates
<1> HIDE DEF p
<1>4. RowMove
  BY <1>1, <1>2, <1>3 DEF RowMove, RecordsSubmission
<1>5. AnswersFinal /\ OutcomesMove /\ RequestMoves /\ RestTyped
  BY <1>1, StandStill
<1>6. ClientQuiet
  BY <1>1, <1>5 DEF ClientQuiet, RestTyped, EdgeStill
<1>7. ClientInv'
  BY <1>4, <1>5, <1>6, KeepsClientQuiet
<1>8. dispatcher' \in [phase : {"idle", "context", "asked"}, of : Preflights \union {None}]
  BY <1>1 DEF NoDispatch
<1> QED BY <1>1, <1>4, <1>5, <1>7, <1>8, ClientFrame DEF RestTyped

-------------------------------------------------------------------------------
\* The inductive invariant of the wallet request holds in every state.
THEOREM WalletInvariant == DispatchSpec => []WalletInv
<1>1. DispatchInit => WalletInv
  <2> SUFFICES ASSUME DispatchInit PROVE WalletInv
    OBVIOUS
  <2>1. /\ now = 0 /\ rows = [p \in Preflights |-> None] /\ edge = "active"
        /\ requests = [r \in Slots |-> NoRequest] /\ abuse = [high |-> 0, startedAt |-> 0, count |-> 0]
        /\ delivered = {} /\ tabs = [t \in Tabs |-> NoTab] /\ tombstones = [high |-> 0, of |-> {}]
        /\ outcomes = [p \in Preflights |-> [outcome |-> "none", hash |-> None]]
        /\ dispatcher = NoDispatch
        /\ wallet = [p \in Preflights |-> [asked |-> 0, answer |-> "open", tx |-> None]]
    BY DEF DispatchInit, JournalInit, EdgeInit
  <2>2. NoRequest \in Requests /\ NoRequest.phase = "idle" /\ NoTab \in TabStates /\ NoTab.phase = "idle"
        /\ NoDispatch.phase = "idle" /\ NoDispatch.of = None
    BY DEF NoRequest, Requests, Outcomes, Hashes, NoTab, TabStates, NoDispatch
  <2>3. WalletTypeOK
    BY <2>1, <2>2 DEF WalletTypeOK, WalletStates, Outcomes, Hashes, NoDispatch
  <2>4. ClientInv
    BY <2>1, <2>2 DEF ClientInv, OneRow, DeliveredClaimed, TabHolds, OneContext, DispatcherHolds, AskedBehind
  <2>5. JournalInv
    BY <2>1, <2>2 DEF JournalInv, ReportsTrue, Truthful, OutcomeTrue, FinalizedBacked, Readable
  <2>6. EdgeInv
    BY <2>1, <2>2 DEF EdgeInv, RequestTimed, HaltExplained
  <2> QED BY <2>3, <2>4, <2>5, <2>6 DEF WalletInv
<1>2. WalletInv /\ [DispatchNext]_walletVars => WalletInv'
  <2> SUFFICES ASSUME WalletInv, [DispatchNext]_walletVars PROVE WalletInv'
    OBVIOUS
  <2>1. CASE Tick
    BY <2>1, TickStep
  <2>2. CASE Server
    BY <2>2, ServerStep
  <2>2a. CASE \E r \in Slots : GatewayRecords(r) /\ UNCHANGED clientVars
    <3>1. ClientsStill
      BY <2>2a DEF clientVars, ClientsStill
    <3> QED BY <2>2a, <3>1, GatewayRecordStep
  <2>3. CASE Reconcile /\ UNCHANGED <<now, edgeVars, clientVars>>
    BY <2>3, ReconcileStep
  <2>4. CASE \E p \in Preflights : UserRejects(p) \/ UserAccepts(p)
    BY <2>4, UserStep
  <2>5. CASE \E p \in Preflights : DispatcherClaims(p)
    BY <2>5, DispatcherClaimStep
  <2>6. CASE \E p \in Preflights, t \in Tabs : BrowserStarts(t, p)
    BY <2>6, BrowserStartStep
  <2>7. CASE \E p \in Preflights, r \in Slots : BrowserRequests(r, p)
    BY <2>7, BrowserRequestStep
  <2>8. CASE \E t \in Tabs : LockGranted(t)
    BY <2>8, LockStep
  <2>9. CASE \E t \in Tabs : TabCloses(t)
    <3>1. PICK t \in Tabs : TabCloses(t)
      BY <2>9
    <3>2. /\ EdgeStill /\ UNCHANGED <<rows, artifacts, requests, tombstones, outcomes, dispatcher, wallet>>
          /\ tabs' = [tabs EXCEPT ![t] = NoTab]
      BY <3>1 DEF TabCloses, EdgeStill, journalVars, edgeVars
    <3> QED BY <3>2, StandStill, TabLeaves
  <2>10. CASE \E t \in Tabs, same \in BOOLEAN : ContextRead(t, same)
    BY <2>10, ContextStep
  <2>11. CASE \E t \in Tabs, outcome \in Reports : WalletAnswered(t, outcome)
    BY <2>11, WalletAnsweredStep
  <2>12. CASE \E same \in BOOLEAN : DispatcherAsks(same)
    BY <2>12, DispatcherAskStep
  <2>13. CASE \E outcome \in Reports, ok \in BOOLEAN : DispatcherRecords(outcome, ok)
    BY <2>13, DispatcherRecordStep
  <2>14. CASE UNCHANGED walletVars
    <3>1. EdgeStill /\ UNCHANGED <<rows, artifacts, requests, tabs, tombstones, outcomes, dispatcher, wallet>>
      BY <2>14 DEF walletVars, EdgeStill, journalVars, edgeVars, clientVars
    <3>2. RowMove /\ AnswersFinal /\ OutcomesMove /\ RequestMoves /\ RestTyped /\ ClientQuiet
      BY <3>1, StandStill DEF EdgeStill
    <3>3. ClientInv'
      BY <3>2, KeepsClientQuiet
    <3> QED BY <3>1, <3>2, <3>3, ClientFrame DEF RestTyped
  <2> QED BY <2>1, <2>2, <2>2a, <2>3, <2>4, <2>5, <2>6, <2>7, <2>8, <2>9, <2>10, <2>11, <2>12, <2>13, <2>14
          DEF DispatchNext, Reports
<1> QED BY <1>1, <1>2, PTL DEF DispatchSpec

\* The wallet is asked at most once for a contract intent, and only after the claim.
THEOREM WalletAskedOnce == DispatchSpec => []AskedOnce
<1>1. WalletInv => AskedOnce
  <2> SUFFICES ASSUME WalletInv PROVE AskedOnce
    OBVIOUS
  <2>1. \A p \in Preflights : AskedBehind(p) /\ wallet[p].asked \in Nat
    BY DEF WalletInv, ClientInv, WalletTypeOK, WalletStates
  <2>2. OneRow
    BY DEF WalletInv, ClientInv
  <2>3. ASSUME NEW p \in Preflights, NEW q \in Preflights
        PROVE  wallet[p].asked + (IF p = q THEN 0 ELSE wallet[q].asked) <= 1
    BY <2>1, <2>2 DEF AskedBehind, OneRow
  <2> QED BY <2>1, <2>3 DEF AskedOnce, AskedBehind
<1> QED BY <1>1, WalletInvariant, PTL

\* The journal says no more than the wallet did.
THEOREM WalletOutcomeTrue == DispatchSpec => []OutcomeTrue
<1>1. WalletInv => OutcomeTrue
  BY DEF WalletInv, JournalInv
<1> QED BY <1>1, WalletInvariant, PTL

\* A finalized row rests on two providers, and every row stays readable.
THEOREM WalletFinalizedBacked == DispatchSpec => []FinalizedBacked
<1>1. WalletInv => FinalizedBacked
  BY DEF WalletInv, JournalInv
<1> QED BY <1>1, WalletInvariant, PTL

\* The edge halts only after a fault or after the clock moved under a request.
THEOREM WalletHaltExplained == DispatchSpec => []HaltExplained
<1>1. WalletInv => HaltExplained
  BY DEF WalletInv, EdgeInv
<1> QED BY <1>1, WalletInvariant, PTL
===============================================================================
