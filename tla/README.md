# TreeSwap: models, checks and proofs

TreeSwap swaps the ERC-20 token BIT against Bitcoin on Lightning. A user asks for quotes (an RFQ), a solver
answers with a firm offer, and one settlement ties together a lock of BIT in an escrow contract and a Lightning
payment, both unlocked by the same preimage. Nothing in the design makes the two legs atomic except the order in
which steps are taken and what is written down before each of them. That order, and the durable state that
remembers it, is what these modules model. They are written from `lib/*.mjs`, `infra/lightning-adapter/server.mjs`
and `contracts/src/*.sol`; comments name the method each definition stands for and `PROJECT.json` gives the lines.

## 1. The system

| Part | State it keeps | Operations | Talks to |
|---|---|---|---|
| Settlement ledger, `coordinator-store` (SQLite) | `settlements`, `coordinator_actions`, `coordinator_evm_transactions` | accept, bind intent / policy / reservation, plan, claim, record result, reconcile, broadcast, include, halt, terminal | daemon, runners, supervisors |
| Admission ledger, same file, `admission-policy` | identities, requests, admission events, solver capacity, firm offers, restart clock | admit, cancel, expire, resolve, snapshot, reserve / bind / authorize an offer, outcomes, restart sweep | RFQ services; hands a selected offer to the settlement ledger |
| Solver daemon: planner, runtime, action runners | nothing durable of its own; local values between awaits | one step per settlement and cycle: observe, plan, authorize, dispatch, reconcile, claim, verify, close | ledger, Lightning adapter, EVM providers, evidence services |
| Lightning adapter | append-only action journal, chain-progress record | execute a signed authorization once, look up, capacity | LND |
| Contracts | gate, consumed hashes, vault balances and reservations, user escrows | schedule / execute open, halt; consume; deposit, withdraw, reserve, claim, refund; open, claim, refund | one token, one chain clock |
| Active execution: lifecycle, fence, release supervisor | lifecycle, status, cursor, timer, fence, current release activation | start, cycle, refresh, step, stop | daemon, ledger, lease |
| Service lease, `coordinator-service-state` | a directory with owner, heartbeat and status files | acquire, take over, publish, release, assert ownership | every process of the coordinator |
| Active and recovery services, supervisors, recovery loop | run journal with crash breaker; bootstrap and publication state | start, prepare, hand over, heartbeat, cycle over jobs, stop, clean up | lease, store, release or recovery verification |
| RFQ: delivery, quote ingress, quote book, reservation, private ceremony | ingress rows and quotas, sessions, reservation records | claim a request, collect, rank, select, reserve, finalize, prepare, sign | wallet, solver endpoints, admission ledger |
| Selected solver: finalization, invoice material, signing | one durable exchange per request in each of three stores | begin, resolve, complete, answer again | LND, coordinator |
| Wallet request: journal, gateway, SIWE edge, browser adapter, dispatcher | preflight rows and artifacts, handles, claims, abuse store, tombstones | prepare, stage, claim, ask the wallet, report, reconcile, finalize | browser tabs, wallet, two EVM providers |
| Deployment and release | plan, preflight, postflight, promotion, evidence, candidate, approvals, activations | observe, sign, execute, promote, qualify, approve, activate | chain, providers, approvers |
| Release retention and custody | custody packages, backups, restored stores, job sets, drills | seal, restore, ready, claim jobs, drill, rotate | coordinator store, recovery service |
| Policies, evidence collectors, accounts, web application | none, or web session tables | predicates over documents and numbers | everything |

What is hard here, and hard to test:

* **Crash windows.** Every side effect is claimed durably, then sent, then its answer is recorded. A process may
  die, lose its lease or be overtaken between any two of these.
* **Ambiguity.** A lost or unauthenticated answer says nothing. An action then stays UNKNOWN until a definite
  observation, and everything else of its settlement waits.
* **Staleness.** Code awaits between reading the world and writing the ledger; escrow, node, clock and ledger move.
* **Deadlines of two worlds.** Lightning may be paid only while the BIT stays locked; claim and refund windows meet
  at one second; a hold invoice must be settled before its HTLC expires.
* **Ownership.** A firm offer holds capacity and may be released by expiry, cancellation, a rival's outcome, a
  restart sweep or its settlement, but once a settlement owns it, only by that settlement.
* **Revocation.** A process learns that it must stop (a lost lease, a stopped lifecycle, an expired release) only
  where it looks, and it looks before an await.
* **Once.** One wallet prompt, one dispatch, one executable response, one collection of a request, against retries,
  lost answers, several tabs and restarts that forget what was in memory.
* **Evidence in time.** An activation rests on documents, signatures and observations that were taken at different
  times and blocks, and on a chain that may still fork.

`PROJECT.json` lists these as hazards, each at its line with the properties that would catch it.

## 2. Modules

| Module | Models | Uses |
|---|---|---|
| `SettlementLedger` | the settlement half of the store, one action per method, unconstrained callers | |
| `SwapOutcome` | abstract specification: a leg is decided once, and the outcome follows the decision | |
| `SolverDaemon` | planner, runtime and runners of several processes over the ledger, with the node, the escrow and the clock as the world | EXTENDS `SettlementLedger`, INSTANCE `SwapOutcome` |
| `LightningAdapter` | one adapter process with concurrent calls, its journal, LND, chain and clock | |
| `OpenGate`, `PaymentHashRegistry` | the two shared contracts | |
| `EscrowRules` | token, quote validation, price band, fee cap: what both escrows share | |
| `BitVault`, `UserEscrow` | the two escrow contracts | EXTEND `EscrowRules` and the shared contracts |
| `Escrows` | all contracts on one chain | composes the five |
| `AdmissionLedger` | the admission half of the store, its policy functions and the restart reconciliation | |
| `ServiceLease` | the filesystem lease, one filesystem operation per step | |
| `ServiceStatus` | what the validators accept of a service status | |
| `ExecutionCycle` | the active execution loop, its fence, report and release supervisor, await by await | EXTENDS `ServiceStatus` |
| `ActiveService` | the active process: bootstrap, supervisor, stops, and the run journal with its breaker | |
| `RecoveryService` | the recovery process: bootstrap, verification, supervisor, action loop | EXTENDS `ServiceStatus` |
| `CoordinatorHost` | both services of one host, on one lease | EXTENDS `ActiveService`, INSTANCE `RecoveryService` |
| `QuoteIntake` | signed request to quote session: ingress store, collection, quote book | |
| `SelectedSolver` | the solver's finalization, invoice-material and signing services | EXTENDS `QuoteIntake` |
| `SelectionCeremony` | the coordinator's reservation, finalization and signing clients, and the firm offer | EXTENDS `SelectedSolver` |
| `WalletJournal` | the durable journal of wallet requests and the artifacts that move it | |
| `WalletGateway` | the server: fence, edge, session and abuse stores, ownership, gateway | EXTENDS `WalletJournal` |
| `WalletDispatch` | who asks the wallet: tabs and the in-process dispatcher | EXTENDS `WalletGateway` |
| `ClosedDeployment` | plan, preflight, execution, postflight, promotion over a chain with forks | |
| `ReleaseEvidence` | what each evidence validator demands, and the campaign workspace | EXTENDS `ClosedDeployment` |
| `ReleaseActivation` | candidate, approvals, observation, activations and daemon contexts | EXTENDS `ReleaseEvidence` |
| `RetainedCustody` | backups, custody, restored stores, job sets, drills, rotation | EXTENDS `ReleaseActivation` |
| `Totals` | the sum of an amount over a finite set | used by `Escrows`, `AdmissionLedger`, `LightningAdapter` |
| `SettlementProofs`, `CoordinatorProofs`, `ExecutionProofs`, `LightningAdapterProofs`, `WalletProofs`, `SelectionCeremonyProofs`, `ReleaseProofs` | theorems: `SettlementProofs` is about both ends of a swap (ledger, daemon, gate and escrows), `CoordinatorProofs` about `AdmissionLedger` and about both services of the host, `ExecutionProofs` about `ServiceLease` and `ExecutionCycle`, `WalletProofs` about `WalletDispatch`, `SelectionCeremonyProofs` about the three RFQ modules, `ReleaseProofs` about the four release modules | the modules they are about, `TLAPS` |
| `SumTheorems` | lemmas about `Total`, used by three of the proof modules | EXTENDS `Totals` |
| `MC*` | TLC instances: constants, symmetry, bounds | |

### SettlementLedger

Each column that decides anything is a function of the settlement: `state`, `haltCode`, `terminalState`,
`reconciliationRequired`, the three bindings, `actionState[s][method]` (the table is UNIQUE on that pair), and the
EVM transaction row. `sends` counts the uses of the right to perform a side effect; it is the only history
variable. A store method is one SQLite transaction, so one step; a method that throws rolls back and is no step, and
an idempotent replay is a stutter. Callers are unconstrained, which includes processes that die between calls and
processes that should no longer run. Digests, amounts and times are compared for equality only and are left out,
except the payment hash.

### SolverDaemon and SwapOutcome

A worker's `job` is the step it is executing and the phase within it: one action per stretch of code between two
awaits, with `seen` holding what it read before the await. `StartStep` runs the planner (`ClassifySolverDaemonStep`,
whose checks keep the code's order). `Abort` is a throw, a timeout, a lost lease or a crash. `ActiveWorkers` may
dispatch on Lightning, the others are recovery processes. The world has a payment per settlement, signed requests in
transit with their expiry, the escrow, the claim transaction with its block, reorganizations and drops, and a clock
in seconds for the settlement's `lightningActionDeadline` and its refund deadline. `SwapOutcome` says what the swap
promises; `ImplementsSwap` maps the node's record to the leg and the terminal state to the outcome.

An envelope is good for `AuthorizationLifetime` seconds from its signature, whatever the deadlines, as in
`dispatchLightningAction`; `solver-private-packet.mjs` demands `MinimumEvmSafety` seconds between the two deadlines
(`DeadlineAssumption`), and nothing relates the two numbers. So a payment may leave after the refund opened, and
`ExposureCovered` says for how long (section 6).

### LightningAdapter

The HTTP server executes requests concurrently, so each call is cut at its awaits: node read, chain-progress record,
validation and authorization, journal append, dispatch, completion. The journal is what a restart reads; an append
may fail or be torn by a crash. LND decides about an invoice or a payment on its own and its answer may be lost; the
chain grows, forks and stalls; exposure, liquidity and day totals are computed from the journal as the policy does.

### Contracts

Transactions are serial, so one external call is one action; a revert is no step. Quotes are constants: any signed
quote of the instance may be submitted by anyone at any time. Arithmetic of caps, fee and price band is the
contracts' integer arithmetic; amounts are small, so no instance reaches the 256-bit bound that Solidity's checked
arithmetic guards. The token moves exact amounts. Its pause, as `docs/RISK_POLICY.md` records for the deployed
version, does not block transfers; a later token version that does is not modelled.

### AdmissionLedger

Rows are functions of requests, solvers, offers and settlements (keyed by the offer they select). Terms bound to an
identifier by a digest are constants, so a retry with other terms does not exist and an exact retry is left out.
Expiry, accounting and policy checks that the code runs inside a method are inside the action, in its order:
`ReserveVerifiedFirmOffer` first expires what is due and then assesses the solver row that results. REFUNDED,
FAILED and CANCELED are one state, UNFILLED, because nothing on this side tells them apart. `ResolveRfq(r,
"EXERCISED")` is kept although it is never enabled: filling an offer already resolves its request.

### Lease, cycle, services, host

`ServiceLease`: `lease` is what is at the lease path, no directory or one with the tokens of its owner, heartbeat and
status files. Every filesystem operation is awaited, so each is a step, and a process may pause for any time between
its ownership check and the operation the check was for. A process stands for its token; a restart is another one.

`ExecutionCycle`: `cycle.at` is the await the running cycle is in and `cycle.todo` the entries it still has. `Throw`
and `Return` are the two ways a cycle ends, with what `start`, `schedule` and `recordFailedCycle` do then. `report`
is the status record, kept by what the validators of `ServiceStatus` compare. What a step does to its settlement is
chosen freely among the runtime's outcomes.

`ActiveService` and `RecoveryService` treat a cycle, a preparation, a refresh and a publication as asynchronous
operations that may end in any order, succeed or fail, and be overtaken by a stop from the operator, a timer, a
failed heartbeat or the other half of the service. The run journal of `ActiveService` survives its crashes: it
counts failures in a window and blocks a start past the limit; the history `failures` keeps the time of each and its
number in its window. `CoordinatorHost` lets either service start when the
other does not hold the lease.

### RFQ: QuoteIntake, SelectedSolver, SelectionCeremony

A request goes through claim, collection, session, selection, reservation, finalization (with a hold invoice from
the material service), preparation of the contract intent, the user's authorization and the solver's signature.
Every HTTP exchange is a call that may be lost before or after it took effect, answered late or repeated with the
same signed packet; the stores of both sides survive a crash and the records in memory do not. An envelope is a
record of what the book compares: identifier, solver, price, expiry, whether its signature and capacity hold. The
policy's longest request and authorization bound what a claim accepts (`WithinLifetime`).

### Wallet: WalletJournal, WalletGateway, WalletDispatch

All preflights are for one contract intent prepared at different times, because only those compete. The gateway's
claim is durable before the browser sees it; ownership handles, staged preflights and live claims end with the
process. A tab consumes a claim by a tombstone in local storage before it asks the wallet; the wallet's answer may
come after the tab has given up. Transactions may be replaced; receipts come from two providers, and finalization
needs both.

### Release: ClosedDeployment, ReleaseEvidence, ReleaseActivation, RetainedCustody

The chain is a sequence of blocks with at most one transaction each and a block's hash is the chain up to it, so a
reorganization is another sequence. One provider may report what the plan expects whatever the chain says. Documents
are drafts, constants that vary in the fields a validator compares, and a document is in force once the people its
roles name have signed it. The postflight's manifest is what the first provider of the quorum reported, not what the
chain says. Custody adds stores whose settlements move on after a backup was taken. `ReleaseSpec` is the whole path
with a step of the ceremony, the campaign, the activation or the custody at a time, on one chain and one clock.

## 3. Runs

| Run | Question | Instance |
|---|---|---|
| `ledger` | one dispatch per payment hash, settled terminals, reservation before money, under unconstrained callers | two settlements and one hash, all five methods, two blocks, two halt codes, broadcast limit 2 |
| `daemon_race` | one execution, covered by locked BIT but for the seconds a lifetime exceeds the margin by; verdicts and outcomes are true; refinement of `SwapOutcome` | two active workers, two blocks, broadcast limit 2, a lifetime of three seconds on a margin of one |
| `daemon_live` | a payment is learned and claimed | an active and a recovery process, fairness of the latter |
| `escrows` | solvency, exact liabilities, exclusive exits; whatever is locked is released | two quotes per contract sharing users, hashes and an epoch |
| `admission` | running totals and conflict flag exact; a selected offer is decided by its settlement only; a cancellation holds | two solvers bidding for one request, or one solver's capacity shared by both directions |
| `execution` | at most one effect after the lease or the fence is lost; publishable reports; a shutdown completes | three processes on the lease, or a loop over three settlements, one without a policy |
| `cycle_report` | **violation**: section 6 | two settlements, two per cycle |
| `adapter` | one dispatch and a true journal, exposure within its caps but for overlapping calls, settlement before the HTLC expires | two concurrent calls, two invoices and a settlement, two payments of different hashes |
| `wallet` | one prompt, true outcomes, finalization by two providers, explained halts | two preflights, two tabs, two request slots, the dispatcher |
| `host` | sound run journal and bounded crash loop; drained shutdowns without authority, publishable recovery reports; every stop ends | breaker at two failures in two seconds, four starts, two jobs |
| `rfq` | collections per quota window, the best received offer, one agreed response, terminal records | two requests of one wallet, three delivery paths, one restart or crash |
| `release` | a promotion is of the deployed contracts; funding rests on evidence that covers it; an activation saw an acceptable gate; jobs start on exact copies; a rotation strands nothing | two providers, one of them faulty; five parts, see below |

Every property has a mutant, a variant of one mapped definition (a dropped guard, a missed update, a swapped order),
kept next to its original and under which TLC violates the property. Deadlock is not checked where the system may
stop: every settlement closed, every process gone, the clock at its bound.

Why the bounds are enough.

* *Ledger and daemon.* Two active processes are the smallest number that can race to dispatch; the recovery process,
  which alone goes on once a settlement is halted, is in `daemon_live`. That nothing is lost with the third process is
  proved: the theorems of section 5 state every property of `daemon_race` for any number of processes of either kind.
  Settlements share only the payment hash, which `ledger` has two compete for and `DispatchSafety` proves for any
  number. A broadcast limit of 2 has a first broadcast, a repeat and a refusal; two blocks give an inclusion that a
  second one contradicts. With the deadlines at 1 and 2 and a lifetime of 3, an envelope outlives the refund deadline and
  the excess of `ExposureCovered` is one second, which is reached; with a lifetime of 2, as in `daemon_live`, it is none.
* *Escrows.* Two quotes for each contract, because every shared quantity (hash, nonce, epoch volume, inventory,
  balance) is contended by two.
* *Admission.* A behaviour has one of two focuses, since timestamps multiply the states: rival offers (with a second
  request competing for the quota, and a settlement that names an offer before it is reserved), or shared capacity
  (both directions, a snapshot that shrinks it, one settlement, one second). Two seconds are enough for an offer to
  expire before, with and after its request. Quotas and the global cap are modelled, but no property of a run is about
  them.
* *Execution.* Three lease processes are an owner, its successor and a contender that saw the same stale lease; the
  stale interval is one second of three. Three settlements have one that degrades the cycle and two that run. The
  lease and the fence share no variable, so a behaviour moves one of them.
* *Adapter.* Two calls overlap in every order; the invoices and one payment share a hash and the other payment has one of
  its own; a daily cap of 3 is binding for the two payments of 2, and their overlap exceeds it by one; two blocks of
  height are an expiry with a safety margin of one.
* *Wallet.* Two tabs, two slots and two preflights are one rival each. Once a row has left the states a client can
  reach, it is explored with the edge at rest (`Quiet`), since reconciliation reads nothing of the edge. The abuse
  limit lets four requests through: three prepare, claim and report one preflight, and four prepare and claim both,
  the only case in which the fourth is explored (`Rivals`). None of these bounds is part of the theorems. The clock is
  monotone: all parties fail closed when it is not.
* *Host.* Two failures in a window of two seconds and a clock of three outlast the window; two jobs give a recovery
  cycle a middle. Recovery is started on a host whose journal is fresh or blocked.
* *RFQ.* The second request is there for quotas, replay and the limit of pending selections and is not followed once
  the first is reserved. One fault in a behaviour; a reserved swap is followed to second 2, when one reserved at
  once ends. The quota window is half of the longest authorization and the sessions end at 2 or 3, so a request does
  claim a second time while its authorization lives (section 6), and three claims are what a mistake would show.
* *Release.* A behaviour is about one of five parts: ceremony, campaign, funding, recovery or custody. All but the
  ceremony start from a promoted deployment, a state the ceremony reaches. In the ceremony the clock runs to 3, one
  fault (a stray transaction or a reorganization) comes up to time 2, approvers sign in one order and the faulty
  provider answers after the honest one. Funding and recovery have at most one disturbance, with the approvals
  before the deposit and the deposit before an attempt. The campaign writes scenarios before metrics and forks its
  workspace once, and only the unforked order is activated. Custody has one backup for the inspected packages, two
  restored stores, two readiness records, and jobs or drills but not both. None of these limits is in `ReleaseSpec`,
which the theorems are about; `MCRelease` restricts its steps.

## 4. Fairness

Safety runs assume none. `daemon_live` assumes it of the recovery process only: an active process may stop for good
anywhere. Every call of the runners has a timeout, so a started step ends; the cycle starts the next step; reads of
the node and of packets are retried every cycle and succeed eventually (strong fairness, as they may be interrupted
again and again). The chain and the node make progress. Nothing is assumed of the planner's rebroadcasts, of which
there are none. `escrows` assumes that blocks keep coming and that somebody calls `refund` after `refundAfter`:
the call is permissionless and pays the owner of the funds. `execution` assumes that every await of a cycle ends,
because each has a timeout; that a step returns or fails after finitely many side effects (strong fairness, as the
model lets it cross one boundary after another and the code's steps have no loop); that an armed timer fires; and
that a drained shutdown completes. A process that shares the lease promises nothing. `host` assumes of both services
that awaited operations end, by a timeout of their own or by the abort signal the preparation must honour, that a
step of a job ends, and that promises are delivered; nothing of the clock, the operator and the crashes.

## 5. Proofs

TLAPS proves these for every value of the constants, under the named assumptions of the modules. The assumptions say
what the code's own validators or types say of the constants: limits and times are natural numbers, a method names a
known RPC, an offer's selection ends no later than the offer, `None` is not a transaction (`ConstantsAssumption`,
`DaemonAssumption`, `WorkersAssumption`, `DeadlineAssumption`, `RiskConfigAssumption`, `QuoteAssumption`,
`AdmissionAssumption`, `AdapterAssumption`, `WalletAssumption`, `EdgeAssumption`, `CycleAssumption`, `LeaseAssumption`,
`ActiveAssumption`, `HostAssumption`, `IntakeAssumption`, `SolverAssumption`, `CeremonyAssumption`,
`DeploymentAssumption`, `EvidenceAssumption`, `ActivationAssumption`, `CustodyAssumption`). No bound on the number of
processes, calls, tabs,
requests or settlements is assumed; the bounds on the clock, the chain and the runs of a service are arbitrary. Where
amounts are added up the identifiers form a finite set (`IsFiniteSet` of quotes, solvers, offers and adapter requests),
since they are digests of 32 bytes and addresses of 20, and so do the calls in flight in the one process of the
adapter.

* **Sums.** A total over a set is a recursive function chosen with CHOOSE, and what it is worth takes induction, which
  the provers cannot do over an operator. `SumTheorems` does it over sets instead: a set of numbers that contains 0
  and the successor of each member is `Nat` (`NatSteps`, from the well-foundedness of `<`), and a set of subsets of a
  finite set that contains `{}` and is closed under adding one element contains the whole (`SetSteps`). With the set of
  all subsets that satisfy a formula, this is the induction for that formula. `FoldExists` and `FoldUnique` show
  that the recursion has one solution; `TotalAdds`, that the order of the additions does not matter; and `TotalWith`,
  `TotalWithout`, `TotalMinus`, `TotalSame`, `TotalMonotone` and `TotalMost` are what the three proofs about money cite.

* **Ledger.** `LedgerInvariant`: `LedgerSpec => []LedgerInv`. `TypeOK` and the stated properties are not inductive.
  `LedgerInv` adds `RowsOwned` (an absent settlement has no bindings, actions or transaction, and a hash belongs to
  one settlement) and `DispatchAccounting` (`sends` is one exactly for actions past PENDING), which is what makes
  `AtMostOneDispatch` follow: a claim needs PENDING and no action returns there. The step lemma has one case per
  store method. From it follow `DispatchSafety`, `TerminalSafety` and `ReservationSafety`.
* **Daemon.** `DaemonImplementsLedger` first: every step of every process is one transaction of the ledger or none, so
  `LedgerInv` comes for free. `DaemonInv` then adds what a process knows between two awaits. The hard part is that
  knowledge: `KnowledgeTrue(w)` says that each observation process `w` still carries is true now, or is of a kind that
  the store will refuse; it is preserved by the steps of all others because decided legs stay decided, and because
  `OneClaimant` leaves at most one process between its claim of the leg and the send. `RequestAccounted` ties the
  requests on their way to the node's executions. `DaemonExecutedOnce`, `DaemonVerdictTrue` and
  `DaemonExposureCovered` follow (`LiveExpiry`: what was sent expires before the Lightning deadline and a lifetime;
  `NothingUncovered` is the case of a lifetime at most a second above the margin), and `DaemonImplementsSwap`, the
  refinement of `SwapOutcome`: the initial states map to initial states, and each step to a decision of a leg, an
  outcome that follows the decision, or a stutter.
* **Gate and escrows.** `GateInvariant` ties the end of an opening and of a pending one to the clock;
  `GateTypeCorrect`, `GateHaltHolds` and `GateOpeningBounded` follow. `EscrowsInv` is the types with `Solvent`, the
  exact bookkeeping of both contracts and `TakenValid` (a taken quote was valid when taken). One lemma
  (`SwapStep`) says that every call leaves a swap table quiet, adds one lock or makes one exit, with `MoneyStep` for
  what each does to balances. `EscrowsLiabilitiesExact` goes with it: for each of the three, what becomes of the sum
  over the locked swaps, over the balances of the solvers, and of the slots of a user. `EscrowsTypeCorrect`,
  `EscrowsSolvent`, `EscrowsHashOnce`, `EscrowsFeeBounded` (through `FeeCapExact`, integer division),
  `EscrowsExposureGated` and `EscrowsExitExclusive` (a claim comes strictly before `refundAfter`, a refund from
  then on) follow.
* **Admission.** Sixteen methods change three tables, most of them several rows at once through sweeps. `OfferMoves`,
  `RequestMoves` and `SettlementMoves` say what may happen to one row; each method is shown to make only such moves,
  and the parts of `AdmissionInv` follow from the moves alone. `CancelHolds` is inductive with `HighestSequence` (the
  cancellation sequence is a maximum); `OwnershipCausal` needs `OfferOrdered` (stamps are given in order) and
  `OwnedInOrder`; `SettlementDecidesOffer` needs `OneOwned` and `ExercisedByFill`, which make an exercised request and
  its filled offer agree, so that no rival is released by it. `AdmissionAccountingExact` needs more than moves of one
  row. `Accounts` ties the row of each solver to the sets of its active, filled and failed offers, and each method is
  shown to move both together: a reservation commits one offer more (`Committing`), a completion releases the set of
  those that ended (`Releasing`) and counts the one that was decided (`Counting`), a sweep releases a set that may span
  several solvers and several requests (`CompletesNeutral`), a snapshot changes only what the conflict flag compares.
* **Lease and cycle.** `LeaseOneLateEffect`, for any number of processes and any stale interval, from `LateIsLast`: once
  a process has performed a late effect the owner file is not its own, and it cannot become so again, since a process
  writes that file only on its way to holding the lease. The proof needs nothing of takeovers. `CycleOneEffect` is the
  same inside one process, from `FenceHolds`: the check in front of an effect can be passed only before the
  revocation, and one step is past it at a time. `CycleReportAccepted` rests on `CycleFits` (what a cycle attempted and
  what it still has to do never exceed what it discovered) and `ReportConsistent` (the counts reconcile).
* **Adapter.** `AdapterInv` has one part per idea: `OneHolder` (past its reservation a call is the only one on its
  request, and the journal says dispatching), `DispatchedOnce` (a holder that has not dispatched finds nothing sent),
  `AnswerTrue` (what a call is about to record is so, and a payment belongs to a request that took effect, which is
  why a failed one never comes back), `MarginHeld` (an accepted invoice keeps its expiry, and no more than
  `SafetyBlocks` blocks arrive during a call) and `ExposureChecked`. `AdapterJournalTruthful` and
  `AdapterSettledInTime` follow. `AdapterExposureLimited` adds two: `DailyHeld`, that what the one call
  that was authorized is about to reserve still fits in its day, which is why the reservation need not check it again;
  and `OverlapHeld`, that the day's value and a largest payment for each call about to reserve (`Pending`) stay within
  the cap and a largest payment for each call but one, since the call that was authorized first found room.
* **Wallet.** `WalletInv` relates the durable row, the tombstones, the tabs, the dispatcher and the reports in flight:
  a tab past its lock has left its tombstone (`TabHolds`), no two tabs are about to ask for one claim (`OneContext`),
  the dispatcher works on a row that was never delivered (`DispatcherHolds`), and every report on its way is true
  (`ReportsTrue`). The theorems `WalletAskedOnce`, `WalletOutcomeTrue`, `WalletFinalizedBacked` and
  `WalletHaltExplained` are stated without the constraint `Quiet` and without a bound on requests.
* **Host.** `HostInv` has three parts. `ControlInv` orders the active process: there is no supervisor before the
  handoff, a stop that was asked for leaves no release under which the handoff would start one, and a stopped
  bootstrap has drained. `JournalInv` is about the record: `Readable` alone is not inductive, nor does the record say
  how often the process failed before, so `Windows` ties every failure to the one that opened its window (`Anchor`) and
  says that a window opens only once the one before is over; `CurrentWindow` ties the record to the last of them.
  `WindowsBound` concludes that `2 * MaximumFailures` failures in a row span a window length, since among them are the
  anchor of the last one's window and that of the window before. The clock may step back at any time; the order of the
  failures stands because the store refuses a write older than its record. `RecoveryInv` orders the recovery
  process in the same way: the loop works only under the job-set lease, which the supervisor waits for
  (`RecoveryLoopOrder`), a refresh that answers after the stop finds the verification stopped (`RecoveryRevoked`), one
  effect at most is past its fence (`RecoveryEffects`), and what the loop reports is valid unless it is inactive, which
  is never published (`RecoveryReports`). `HostJournalSound`, `HostServicesDrained` and `HostFailuresStand` (a failure
  on record is never taken back) follow.
* **RFQ.** `CeremonyInv` has one part for the solver's services (`LocalInv`) and one per request. The services' part
  says what a call in flight knows (`CallsKnow`), that a response that was answered is the one its row holds
  (`AnsweredIsReady`), and that its invoice is on the node (`MaterialKnown`). None of this is inductive alone: a row is
  forgotten when it expires, and a later call would build a second response. `Agreed(q)` excludes that: a request has
  one packet, so its calls, its record and its row have one expiry (`PacketOf`), and while a call may still build, its
  row cannot have been forgotten; the packet is signed once, for the reserved record of the first firm offer
  (`PacketOnce`); the coordinator awaits calls of this packet only (`Awaited`), and firm offer, record and signature
  follow the response (`FirmFollows`). A service's step is shown once to keep the agreement of every request
  (`ServicesKeep`), the coordinator's steps action by action, with the requests an action is not about framed by
  `AgreedStays`. `CeremonyAgreedResponse` follows. `CeremonyTerminalRecords` needs `RecordTaken`: no call is pending for
  a record that is failed or authorized, so no answer can reopen one. `CeremonyCollectedPerWindow` is from `Consumed`:
  while the authorization lives, the row of a request remembers its last claim or was forgotten a whole window later,
  and the claims before it took as many windows, so n claims fit only if n - 1 windows are shorter than the longest
  authorization. `CeremonyCollectedOnce` is the case of a window no shorter than that, which the policy's validator
  does not demand (section 6).
* **Release.** What is signed or observed once is not changed later, so `ReleaseInv` says of each document that it
  still has what its validator demanded. Two things could spoil that. The chain may lose blocks: `ChainMoves` says that
  no step takes a final one, so `FinalBlock` is stable, and `PostflightInv` keeps a preflight's anchor, which need not
  be final when it is taken, as a prefix of the final block. And a document rests on others: `EvidenceFixed` says that
  the plan, the promotion and the campaign do not change once a candidate could have read them, hence a candidate
  stays verified (`VerifiedStays`). A faulty provider is harmless because a record needs all providers to agree and one
  of them read the chain (`PostSeenInv`). `Rests` and `Observed` tie an activation to its approvals and to one block in
  which the contracts were acceptable; `CustodyInv` ties readiness, job sets and drills to an inspected package.
  `ReleasePromotedIsDeployed`, `ReleaseFundingCovers`, `ReleaseActivationObserved`, `ReleaseJobsStartExact` and
  `ReleaseRotationStrandsNothing` follow; that the metrics of a campaign leave out none of its solvers, and that two
  attesting organizations are two, are counting arguments about finite sets.

TLC checked each of these inductive invariants on the instance of the run before it was proved.

Only model-checked: all liveness (`LockedIsReleased`, `PaidIsLearned`, `PaidIsClaimed`, `StopCompletes`, the stops of
the host), which the prover does not treat; and `BestReceived`, which is about a fold over the deliveries and a sort,
and needs induction over sequences; the prover also knows `SortSeq` and `SelectSeq`, in which `Ranked` and `Received`
are written, by their names alone and does not expand them.

## 6. Finding and observations

`cycle_report`. `docs/COORDINATOR.md` says that an already-halted nonterminal settlement makes the cycle degraded and
reports all authority false. `performCycle` counts a settlement it finds halted both among the closed ones and among
the halted, with no attempt; `validateActiveExecution` requires the outcomes, less the unmatched, to add up to the
attempts. So the report of such a cycle is refused, `buildCoordinatorActiveExecutionStatus` throws, the publication
fails and the service stops, as does every restart while the settlement stays halted. The run reaches it in a few
steps; with no halted settlement, `execution` shows that every report is accepted.

Other behaviour met while modelling, which the modules state as it is:

*Coordinator.*
The policy may set `minimumEvmSafetySeconds` from 1 to 86400 and `authorizationLifetimeSeconds` from 1 to 30 (15 by
default), and nothing compares them (`solver-private-packet.mjs:275`, `coordinator-action-runner.mjs:649`). With a
margin shorter than the lifetime, a request that was signed in time and delayed is paid after the BIT was refunded,
where `docs/THREAT_MODEL.md:145` requires the refund deadline to outlive the last safe Lightning time plus margins.
`daemon_race` reaches it and `ExposureCovered` bounds it.
`reconcileRfqFinalizationRestart` refuses a settlement-owned BIT-to-Lightning offer with routing headroom
(`coordinator-store.mjs:2561` compares the notional with the amount that includes the headroom), where
`docs/RFQ_FINALIZATION_RESTART_POLICY.md` promises `settlement-recovery-required`.
`rotateAfterCursor` reads `settlementId` of `{ settlement, policy }` entries, which have none, so the cursor of
`docs/COORDINATOR.md:58` never rotates: with more runnable settlements than `maxSettlementsPerCycle`, those behind the
bound wait until one in front closes.
A reconciliation that finds a mismatch halts the settlement and is reported as an advanced outcome, so the cycle goes
on, where `docs/PRODUCTION_READINESS.md:235` says that a newly reached halt ends it.
A paused owner that resumes after its ownership check writes or removes the lease files of its successor
(`coordinator-service-state.mjs:1550`, against `docs/COORDINATOR.md:75`); work is still bounded by `OneLateEffect`. A
crash between `mkdir` and the heartbeat file leaves a directory that only an operator can remove.
The active supervisor releases the lease before its cycle has drained, and a release that throws closes the store
under a cycle in flight; `HostDrained` names that exception.
The crash-breaker window is anchored at its first failure and does not slide, so up to `2 * max - 1` failures fit in
one window length. A RUNNING record without failures is refused, with no expiry, once the crash policy changed.
A refresh deactivates the current activation before it awaits the next one: a heartbeat of the active service, or a
recovery cycle that starts in between, finds it inactive and stops the service (against
`docs/RETAINED_RELEASE_CUSTODY.md:75` for recovery).
A result that arrives after a halt rewrites `state` and `reconciliation_required` but never `halt_code`;
`recordTerminal` as FAILED or CANCELED does not look at a confirmed Lightning leg; an expired request held by a
settlement stays at the head of a limited expiry sweep; a GATE_CLOSED settlement ends the cycle for those behind it.

*Contracts.* The vault, unlike the user escrow, accepts itself as beneficiary, in which case only the refund succeeds.

*Adapter.* Two overlapping calls may together exceed the daily cap, since each reads the journal before the other
appends (`lightning-adapter-runtime.mjs:390`, `docs/LIGHTNING_ADAPTER.md:41`); `ExposureLimited` bounds the excess by a
largest payment for each other call, and the run reaches it. Chain observations recorded out of order latch a conflict.
A torn append leaves a journal that does not open again.

*RFQ.* `ready` shortens a claim to its session and cleanup deletes expired rows outside the quota window, so with
`quotaWindowSeconds` shorter than what is left of a request the same signed request can be claimed again, contrary to
`docs/RFQ_QUOTE_INGRESS.md:48`; `CollectedPerWindow` says how often, and the run reaches a second claim.
A duplicate `offerId` is resolved by arrival. The reader uses the time it captured before it collected. An expired
material attempt blocks retries within the finalization window. A solver may sign a second intent for a settlement once
the row of the first has expired. A solver with two direction capabilities of different capacity epochs can invalidate
the snapshot of an earlier reservation.

*Wallet.* The edge can halt without a clock rollback, when a request carries a time captured before another's write
(`HaltExplained`). Reconciliation needs objects of the process that made the submission, so a restart ends it.

*Release.* The funding activation is not bounded by the gate's `openUntil`, nor a release by the promotion's
`validUntil`. A recovery activation has no end of its own and `verifiedPublicTestnetRecoveryActivation` never finds it
stale; readiness, job sets and drills under it do not expire either, while the daemon context does. The rotation check
sees the gate closed at the blocks of the activations only. The lease of a job set is per store object. EVM providers
of a campaign need match the promoted ones in number only, manifest owners need not equal the plan's, and preflight
approvals may be signed after execution. The preflight may anchor a block that is not final, which the postflight
proves again. A forked campaign is not detected when it is finalized.

## 7. Not modelled

Listed in `PROJECT.json` with the reason. In short: signature and digest checks, canonical JSON, EIP-712, BOLT11, TLS
and response authentication (a message is authentic or it is not an answer), strict parsing of requests and
documents (what does not parse is refused and changes nothing); user interface, scripts, infrastructure; numeric
policies without state; safety and close monitors, whose verdict an operator acts on; web accounts and sessions; and
evidence collectors that no running service consumes. Partly modelled: the lease component without its
verification-only modes, and the RFQ services without their listeners and encryption.

## 8. Plan

Modelled and checked: everything in section 2. Proved: section 5.
