---------------------------- MODULE AdmissionLedger ----------------------------
(***************************************************************************)
(* The admission side of lib/coordinator-store.mjs with the policy of      *)
(* lib/admission-policy.mjs: RFQ requests, solver capacity snapshots, firm *)
(* offers and the settlements that select them.  Each method is one SQLite *)
(* transaction, so one step; a method that throws rolls back and is no     *)
(* step, and an exact retry that changes nothing is left out.  The terms   *)
(* an identifier is bound to (its digest) are constants of the model.      *)
(***************************************************************************)
EXTENDS Totals

CONSTANTS Identities, RequestIds, SolverIds, OfferIds,
          RequestTerms,    \* per request: identity, direction, notional, nonce, expiresAt
          OfferTerms,      \* per offer: request, solver, bit, notional, routingFee, epoch, expiresAt,
                           \* selectionExpiresAt (the selection authorization's)
          Snapshots,       \* signed capacity snapshots: solver, epoch, observedAt, bit, lightning,
                           \* capabilityExpiresAt
          CancellationSequences,
          MaxTime,                    \* bound on seconds
          SweepLimit,                 \* limit of one expiry or restart sweep
          MaxRfqTtl, MaxActiveRequests, MaxRequestsPerWindow, MaxCancellationsPerWindow, QuotaWindow,
          MaxFirmQuoteTtl, MaxCapacityAge, MaxActiveFirmQuotes, MaxConsecutiveFailures,
          MinReliabilitySample, MinReliabilityBps, EstablishedFills, UnknownCap, EstablishedCap,
          GlobalCap

Directions == {"lightning-to-bit", "bit-to-lightning"}
Never == -1

ASSUME AdmissionAssumption ==
  /\ MaxTime \in Nat /\ SweepLimit \in Nat \ {0}
  /\ QuotaWindow \in Nat \ {0} /\ MaxRequestsPerWindow \in Nat /\ MaxActiveRequests \in Nat
  /\ UnknownCap \in Nat \ {0} /\ EstablishedCap >= UnknownCap /\ EstablishedFills \in Nat \ {0}
  /\ CancellationSequences \subseteq Nat
  /\ \A r \in RequestIds : RequestTerms[r].identity \in Identities /\ RequestTerms[r].nonce \in Nat
  /\ IsFiniteSet(OfferIds)   \* digests of 32 bytes
  /\ \A o \in OfferIds :
       /\ OfferTerms[o].request \in RequestIds /\ OfferTerms[o].solver \in SolverIds
       /\ {OfferTerms[o].bit, OfferTerms[o].notional, OfferTerms[o].routingFee} \subseteq Nat
       /\ OfferTerms[o].selectionExpiresAt \in Nat /\ OfferTerms[o].expiresAt \in Nat
       /\ OfferTerms[o].selectionExpiresAt <= OfferTerms[o].expiresAt
  /\ \A c \in Snapshots :
       /\ c.solver \in SolverIds
       /\ {c.epoch, c.observedAt, c.bit, c.lightning, c.capabilityExpiresAt} \subseteq Nat
       /\ c.capabilityExpiresAt > c.observedAt

VARIABLES now,             \* the second the callers read from their clock
          cancellations,   \* CANCELED events: identity, sequence, at
          lastObserved,    \* rfq_identities.last_observed_at
          requests,        \* rfq_requests
          solvers,         \* solver_capacity
          offers,          \* firm_offer_commitments
          settlements,     \* settlements by selected_offer_id
          restartClock     \* the restart high-water mark in coordinator_meta

admissionVars == <<now, cancellations, lastObserved, requests, solvers, offers, settlements, restartClock>>

NoRequest == [state |-> "NONE", acceptedAt |-> Never]
NoOffer == [state |-> "NONE", reservedAt |-> Never, finalizedAt |-> Never, authorizedAt |-> Never,
            authorizationExpiresAt |-> Never, resolvedAt |-> Never]
NoSettlement == [state |-> "NONE", createdAt |-> Never, updatedAt |-> Never]
NoSolver == [epoch |-> Never, observedAt |-> Never, bit |-> 0, lightning |-> 0,
             capabilityExpiresAt |-> 0, committedBit |-> 0, committedLightning |-> 0,
             activeFirmQuotes |-> 0, fills |-> 0, failures |-> 0, consecutive |-> 0,
             suspended |-> FALSE, conflicted |-> FALSE, updatedAt |-> Never]

AdmissionInit ==
  /\ now = 0
  /\ cancellations = {}
  /\ lastObserved = [i \in Identities |-> Never]
  /\ requests = [r \in RequestIds |-> NoRequest]
  /\ solvers = [s \in SolverIds |-> NoSolver]
  /\ offers = [o \in OfferIds |-> NoOffer]
  /\ settlements = [o \in OfferIds |-> NoSettlement]
  /\ restartClock = Never

-------------------------------------------------------------------------------
\* What an offer commits: a Lightning-to-BIT offer takes BIT and inbound capacity, a
\* BIT-to-Lightning offer outbound capacity with its routing headroom.
DirectionOf(o) == RequestTerms[OfferTerms[o].request].direction
BitAmount(o) == IF DirectionOf(o) = "lightning-to-bit" THEN OfferTerms[o].bit ELSE 0
LightningAmount(o) ==
  OfferTerms[o].notional + IF DirectionOf(o) = "bit-to-lightning" THEN OfferTerms[o].routingFee ELSE 0

Owned(o) == settlements[o].state # "NONE"
OffersOf(r) == {o \in OfferIds : offers[o].state # "NONE" /\ OfferTerms[o].request = r}
ActiveOffers == {o \in OfferIds : offers[o].state = "ACTIVE"}
ActiveOf(s) == {o \in ActiveOffers : OfferTerms[o].solver = s}
BitAmounts == [o \in OfferIds |-> BitAmount(o)]
LightningAmounts == [o \in OfferIds |-> LightningAmount(o)]
CancellationSequence(i) == Max({c.sequence : c \in {d \in cancellations : d.identity = i}} \cup {0})

\* getSolverCapacity: throws when the row has diverged from the offers.
AccountingHolds(s) ==
  /\ solvers[s].activeFirmQuotes = Cardinality(ActiveOf(s))
  /\ solvers[s].committedBit = Total(BitAmounts, ActiveOf(s))
  /\ solvers[s].committedLightning = Total(LightningAmounts, ActiveOf(s))

Conflict(row) == row.bit < row.committedBit \/ row.lightning < row.committedLightning

\* #writeSolverAccounting
Accounted(row) == [row EXCEPT !.conflicted = Conflict(row), !.updatedAt = now]

Counted(row, outcome) ==
  CASE outcome = "FILLED" -> [row EXCEPT !.fills = @ + 1, !.consecutive = 0]
    [] outcome = "SOLVER_FAILED" ->
         [row EXCEPT !.failures = @ + 1, !.consecutive = @ + 1,
                     !.suspended = @ \/ row.consecutive + 1 >= MaxConsecutiveFailures]
    [] OTHER -> row

\* Mutant of Released: the routing headroom stays committed.
Released_KeepsHeadroom(row, S) ==
  [row EXCEPT !.activeFirmQuotes = @ - Cardinality(S),
              !.committedBit = @ - Total(BitAmounts, S),
              !.committedLightning = @ - Total([o \in OfferIds |-> OfferTerms[o].notional], S)]

\* recordFirmOfferOutcome of admission-policy.mjs: the amounts an outcome gives back.
Released(row, S) ==
  [row EXCEPT !.activeFirmQuotes = @ - Cardinality(S),
              !.committedBit = @ - Total(BitAmounts, S),
              !.committedLightning = @ - Total(LightningAmounts, S)]

\* #completeFirmOffer for a set of offers with their outcomes: the guard, the offers and
\* the solvers afterwards.  A filled or failed outcome comes with neutral ones only.
CanComplete(outcome) ==
  \A o \in DOMAIN outcome :
    /\ offers[o].state = "ACTIVE" /\ now >= offers[o].reservedAt
    /\ outcome[o] = "EXPIRED_UNEXERCISED" => now >= OfferTerms[o].expiresAt
    /\ AccountingHolds(OfferTerms[o].solver)
CompletedOffers(outcome) ==
  [o \in OfferIds |-> IF o \in DOMAIN outcome
                      THEN [offers[o] EXCEPT !.state = outcome[o], !.resolvedAt = now]
                      ELSE offers[o]]
CompletedSolvers(outcome) ==
  [s \in SolverIds |->
    LET mine == {o \in DOMAIN outcome : OfferTerms[o].solver = s}
        counted == {o \in mine : outcome[o] \in {"FILLED", "SOLVER_FAILED"}}
        row == Released(solvers[s], mine)
    IN IF mine = {} THEN solvers[s]
       ELSE Accounted(IF counted = {} THEN row ELSE Counted(row, outcome[CHOOSE o \in counted : TRUE]))]

All(S, outcome) == [o \in S |-> outcome]
ResolvedRequests(R, state) ==
  [r \in RequestIds |-> IF r \in R THEN [requests[r] EXCEPT !.state = state] ELSE requests[r]]

\* #releaseActiveFirmOffers refuses while a settlement owns one of the offers.
Releasable(R) == ~\E o \in ActiveOffers : OfferTerms[o].request \in R /\ Owned(o)
ActiveFor(R) == {o \in ActiveOffers : OfferTerms[o].request \in R}

\* Mutant of DueOffers: expiry ignores that a settlement selected the offer.
DueOffers_Owned(R) == ActiveFor(R)

\* #expireRfqRequests over the requests of some identities: unowned offers are released
\* and requests that no settlement ever selected are closed.
DueRequests(I) ==
  {r \in RequestIds : /\ requests[r].state = "ACTIVE" /\ RequestTerms[r].expiresAt <= now
                      /\ RequestTerms[r].identity \in I}
DueOffers(R) == {o \in ActiveFor(R) : ~Owned(o)}

Closable(R) == {r \in R : \A o \in OffersOf(r) : ~Owned(o)}

-------------------------------------------------------------------------------

\* #rfqUsage and assessRfqAdmission
AcceptedSince(i, t) ==
  {r \in RequestIds : requests[r].state # "NONE" /\ RequestTerms[r].identity = i /\ requests[r].acceptedAt > t}
CancellationsSince(i, t) == {c \in cancellations : c.identity = i /\ c.at > t}
ActiveRequests(i, R) ==
  {r \in RequestIds \ R : requests[r].state = "ACTIVE" /\ RequestTerms[r].identity = i}

Admissible(r, closed) ==
  LET i == RequestTerms[r].identity
  IN /\ now < RequestTerms[r].expiresAt /\ RequestTerms[r].expiresAt <= now + MaxRfqTtl
     /\ Cardinality(ActiveRequests(i, closed)) < MaxActiveRequests
     /\ Cardinality(AcceptedSince(i, now - QuotaWindow)) < MaxRequestsPerWindow
     /\ Cardinality(CancellationsSince(i, now - QuotaWindow)) < MaxCancellationsPerWindow
     /\ RequestTerms[r].nonce > CancellationSequence(i)

\* #ensureRfqIdentity and #touchRfqIdentity
Observe(i) ==
  /\ now >= lastObserved[i]
  /\ lastObserved' = [lastObserved EXCEPT ![i] = now]

\* admitRfq of a new request, after expiring those of its identity.
AdmitRfq(r) ==
  LET i == RequestTerms[r].identity
      due == DueRequests({i})
      expired == All(DueOffers(due), "EXPIRED_UNEXERCISED")
  IN /\ requests[r].state = "NONE"
     /\ \A other \in RequestIds : requests[other].state # "NONE" =>
          <<RequestTerms[other].identity, RequestTerms[other].nonce>> # <<i, RequestTerms[r].nonce>>
     /\ Observe(i)
     /\ CanComplete(expired)
     /\ Admissible(r, Closable(due))
     /\ requests' = [ResolvedRequests(Closable(due), "EXPIRED") EXCEPT ![r] = [state |-> "ACTIVE", acceptedAt |-> now]]
     /\ offers' = CompletedOffers(expired)
     /\ solvers' = CompletedSolvers(expired)
     /\ UNCHANGED <<now, cancellations, settlements, restartClock>>

\* admitRfq again: only the expiry and the observation.
ReadmitRfq(r) ==
  LET i == RequestTerms[r].identity
      due == DueRequests({i})
      expired == All(DueOffers(due), "EXPIRED_UNEXERCISED")
  IN /\ requests[r].state # "NONE"
     /\ Observe(i)
     /\ CanComplete(expired)
     /\ requests' = ResolvedRequests(Closable(due), "EXPIRED")
     /\ offers' = CompletedOffers(expired)
     /\ solvers' = CompletedSolvers(expired)
     /\ UNCHANGED <<now, cancellations, settlements, restartClock>>

\* Mutant of CancelRfqs: requests that a settlement holds are skipped, not refused.
CancelRfqs_SkipsOwned(i, sequence) ==
  LET due == DueRequests({i})
      canceled == {r \in ActiveRequests(i, Closable(due)) : RequestTerms[r].nonce <= sequence /\ Releasable({r})}
      outcome == [o \in DueOffers(due) \cup ActiveFor(canceled) |->
                    IF o \in DueOffers(due) THEN "EXPIRED_UNEXERCISED" ELSE "USER_ABANDONED"]
  IN /\ sequence > CancellationSequence(i)
     /\ Observe(i)
     /\ CanComplete(outcome)
     /\ requests' = [r \in RequestIds |-> IF r \in canceled THEN [requests[r] EXCEPT !.state = "CANCELED"]
                                          ELSE ResolvedRequests(Closable(due), "EXPIRED")[r]]
     /\ offers' = CompletedOffers(outcome)
     /\ solvers' = CompletedSolvers(outcome)
     /\ cancellations' = cancellations \cup {[identity |-> i, sequence |-> sequence, at |-> now]}
     /\ UNCHANGED <<now, settlements, restartClock>>

\* cancelRfqs: every active request up to the sequence, or none if one is settlement-owned.
CancelRfqs(i, sequence) ==
  LET due == DueRequests({i})
      canceled == {r \in ActiveRequests(i, Closable(due)) : RequestTerms[r].nonce <= sequence}
      outcome == [o \in DueOffers(due) \cup ActiveFor(canceled) |->
                    IF o \in DueOffers(due) THEN "EXPIRED_UNEXERCISED" ELSE "USER_ABANDONED"]
  IN /\ sequence > CancellationSequence(i)
     /\ Observe(i)
     /\ Releasable(canceled)
     /\ CanComplete(outcome)
     /\ requests' = [r \in RequestIds |-> IF r \in canceled THEN [requests[r] EXCEPT !.state = "CANCELED"]
                                          ELSE ResolvedRequests(Closable(due), "EXPIRED")[r]]
     /\ offers' = CompletedOffers(outcome)
     /\ solvers' = CompletedSolvers(outcome)
     /\ cancellations' = cancellations \cup {[identity |-> i, sequence |-> sequence, at |-> now]}
     /\ UNCHANGED <<now, settlements, restartClock>>

\* ORDER BY expires_at LIMIT SweepLimit, ties broken either way.
Batches(S, terms) ==
  {B \in SUBSET S : /\ Cardinality(B) = Min({SweepLimit, Cardinality(S)})
                    /\ \A x \in B, y \in S \ B : terms[x].expiresAt <= terms[y].expiresAt}

\* expireRfqs: a request a settlement holds keeps its place at the head of the batch.
ExpireRfqs ==
  \E due \in Batches(DueRequests(Identities), RequestTerms) :
    LET expired == All(DueOffers(due), "EXPIRED_UNEXERCISED")
    IN /\ DueOffers(due) # {} \/ Closable(due) # {}
       /\ CanComplete(expired)
       /\ requests' = ResolvedRequests(Closable(due), "EXPIRED")
       /\ offers' = CompletedOffers(expired)
       /\ solvers' = CompletedSolvers(expired)
       /\ UNCHANGED <<now, cancellations, lastObserved, settlements, restartClock>>

\* resolveRfq: exercised needs a filled offer, and no settlement may own an active one.
ResolveRfq(r, state) ==
  LET abandoned == All(ActiveFor({r}), "USER_ABANDONED")
  IN /\ requests[r].state = "ACTIVE"
     /\ now >= requests[r].acceptedAt
     /\ state = "EXERCISED" => \E o \in OffersOf(r) : offers[o].state = "FILLED"
     /\ Releasable({r})
     /\ CanComplete(abandoned)
     /\ requests' = ResolvedRequests({r}, state)
     /\ offers' = CompletedOffers(abandoned)
     /\ solvers' = CompletedSolvers(abandoned)
     /\ UNCHANGED <<now, cancellations, lastObserved, settlements, restartClock>>

-------------------------------------------------------------------------------
\* recordSolverCapacity: epochs and observation times advance; a snapshot below what is
\* committed marks the solver conflicted.
RecordSolverCapacity(c) ==
  LET row == [solvers[c.solver] EXCEPT !.epoch = c.epoch, !.observedAt = c.observedAt, !.bit = c.bit,
                                       !.lightning = c.lightning, !.updatedAt = c.observedAt,
                                       !.capabilityExpiresAt = c.capabilityExpiresAt]
  IN /\ c.epoch > solvers[c.solver].epoch /\ c.observedAt > solvers[c.solver].observedAt
     /\ AccountingHolds(c.solver)
     /\ solvers' = [solvers EXCEPT ![c.solver] = [row EXCEPT !.conflicted = Conflict(row)]]
     /\ UNCHANGED <<now, cancellations, lastObserved, requests, offers, settlements, restartClock>>

\* #solverDirectionHistory over the offers of a solver in one direction.
History(s, direction, state) ==
  {o \in OfferIds : OfferTerms[o].solver = s /\ offers[o].state = state /\ DirectionOf(o) = direction}
ConsecutiveFailures(s, direction) ==
  LET latest == Max({offers[o].resolvedAt : o \in History(s, direction, "FILLED")} \cup {Never})
  IN Cardinality({o \in History(s, direction, "SOLVER_FAILED") : offers[o].resolvedAt >= latest})

\* assessFirmOffer, over the solver's row after the expiry that precedes it.
Assessed(o, row) ==
  LET t == OfferTerms[o]
      fills == Cardinality(History(t.solver, DirectionOf(o), "FILLED"))
      failures == Cardinality(History(t.solver, DirectionOf(o), "SOLVER_FAILED"))
  IN /\ ~row.suspended /\ ~row.conflicted
     /\ now < t.expiresAt /\ t.expiresAt <= now + MaxFirmQuoteTtl /\ t.expiresAt <= row.capabilityExpiresAt
     /\ row.observedAt # Never /\ row.observedAt <= now /\ now - row.observedAt <= MaxCapacityAge
     /\ t.epoch = row.epoch
     /\ row.bit - row.committedBit >= BitAmount(o)
     /\ row.lightning - row.committedLightning >= LightningAmount(o)
     /\ row.activeFirmQuotes < MaxActiveFirmQuotes
     /\ DirectionOf(o) = "bit-to-lightning" =>
          LightningAmount(o) <= IF fills >= EstablishedFills THEN EstablishedCap ELSE UnknownCap
     /\ ConsecutiveFailures(t.solver, DirectionOf(o)) < MaxConsecutiveFailures
     /\ fills + failures >= MinReliabilitySample /\ fills + failures > 0 =>
          fills * 10000 >= MinReliabilityBps * (fills + failures)

InFlight(S) == Total(LightningAmounts, {o \in S : DirectionOf(o) = "bit-to-lightning"})

\* Mutant of Preclaimed: an identifier that a settlement already names may be reserved.
Preclaimed_Never(o) == FALSE

\* A settlement already names the offer or, as pricing identifier, its request.
Preclaimed(o) == \E p \in OfferIds : Owned(p) /\ (p = o \/ OfferTerms[p].request = OfferTerms[o].request)

\* reserveVerifiedFirmOffer, after expiring every due request.
ReserveVerifiedFirmOffer(o) ==
  LET t == OfferTerms[o]
      due == DueRequests(Identities)
      expired == All(DueOffers(due), "EXPIRED_UNEXERCISED")
      row == CompletedSolvers(expired)[t.solver]
  IN /\ offers[o].state = "NONE"
     /\ ~Preclaimed(o)
     /\ t.selectionExpiresAt > now
     /\ CanComplete(expired)
     /\ requests[t.request].state = "ACTIVE" /\ t.request \notin due
     /\ t.expiresAt <= RequestTerms[t.request].expiresAt
     /\ t.notional = RequestTerms[t.request].notional
     /\ row.epoch # Never /\ AccountingHolds(t.solver)
     /\ Assessed(o, row)
     /\ DirectionOf(o) = "bit-to-lightning" =>
          InFlight(ActiveOffers \ DOMAIN expired) + LightningAmount(o) <= GlobalCap
     /\ \A p \in OffersOf(t.request) : OfferTerms[p].solver # t.solver
     /\ requests' = ResolvedRequests(Closable(due), "EXPIRED")
     /\ offers' = [CompletedOffers(expired) EXCEPT ![o] = [NoOffer EXCEPT !.state = "ACTIVE", !.reservedAt = now]]
     /\ solvers' = [CompletedSolvers(expired) EXCEPT ![t.solver] =
          Accounted([row EXCEPT !.activeFirmQuotes = @ + 1, !.committedBit = @ + BitAmount(o),
                                !.committedLightning = @ + LightningAmount(o)])]
     /\ UNCHANGED <<now, cancellations, lastObserved, settlements, restartClock>>

\* bindFirmOfferExecution
BindFirmOfferExecution(o) ==
  /\ offers[o].state = "ACTIVE" /\ OfferTerms[o].expiresAt > now /\ now >= offers[o].reservedAt
  /\ requests[OfferTerms[o].request].state = "ACTIVE" /\ RequestTerms[OfferTerms[o].request].expiresAt > now
  /\ offers[o].finalizedAt = Never
  /\ offers' = [offers EXCEPT ![o].finalizedAt = now]
  /\ UNCHANGED <<now, cancellations, lastObserved, requests, solvers, settlements, restartClock>>

\* #bindFirmOfferUserAuthorization: the guard and the offer afterwards.
Authorizable(o, expiresAt) ==
  /\ offers[o].state = "ACTIVE" /\ OfferTerms[o].expiresAt > now
  /\ offers[o].finalizedAt # Never /\ offers[o].finalizedAt <= now
  /\ expiresAt > now /\ expiresAt <= OfferTerms[o].selectionExpiresAt
Authorized(o, expiresAt) == [offers[o] EXCEPT !.authorizedAt = now, !.authorizationExpiresAt = expiresAt]

BindFirmOfferUserAuthorization(o, expiresAt) ==
  /\ Authorizable(o, expiresAt)
  /\ offers[o].authorizedAt = Never
  /\ offers' = [offers EXCEPT ![o] = Authorized(o, expiresAt)]
  /\ UNCHANGED <<now, cancellations, lastObserved, requests, solvers, settlements, restartClock>>

\* #acceptSettlement for the selected offer as it then stands: a settlement may also name
\* an offer and a request this store has never seen.
Acceptable(o, offer) ==
  LET t == OfferTerms[o]
  IN IF offer.state = "NONE" THEN requests[t.request].state = "NONE"
     ELSE /\ ~\E p \in OffersOf(t.request) : Owned(p)
          /\ offer.state = "ACTIVE" /\ t.expiresAt > now /\ t.selectionExpiresAt > now
          /\ offer.authorizedAt # Never /\ offer.authorizationExpiresAt > now
          /\ offer.reservedAt <= now /\ offer.finalizedAt <= now /\ offer.authorizedAt <= now
          /\ requests[t.request].state = "ACTIVE" /\ RequestTerms[t.request].expiresAt > now

\* The amount of a settlement is the notional of the request.
AmountSats(o) == RequestTerms[OfferTerms[o].request].notional
NewSettlement == [state |-> "OPEN", createdAt |-> now, updatedAt |-> now]

AcceptSettlement(o) ==
  /\ ~Owned(o) /\ Acceptable(o, offers[o])
  /\ settlements' = [settlements EXCEPT ![o] = NewSettlement]
  /\ UNCHANGED <<now, cancellations, lastObserved, requests, solvers, offers, restartClock>>

\* acceptAuthorizedFirmOfferSettlement: authorization and settlement in one transaction.
AcceptAuthorizedFirmOfferSettlement(o, expiresAt) ==
  /\ offers[o].state # "NONE" /\ requests[OfferTerms[o].request].state = "ACTIVE"
  /\ Authorizable(o, expiresAt)
  /\ offers[o].authorizedAt = Never \/ offers[o] = Authorized(o, expiresAt)
  /\ ~Owned(o) /\ Acceptable(o, Authorized(o, expiresAt))
  /\ offers' = [offers EXCEPT ![o] = Authorized(o, expiresAt)]
  /\ settlements' = [settlements EXCEPT ![o] = NewSettlement]
  /\ UNCHANGED <<now, cancellations, lastObserved, requests, solvers, restartClock>>

\* recordTerminal, for the settlement that selected o.
RecordTerminal(o, state) ==
  /\ settlements[o].state = "OPEN"
  /\ settlements' = [settlements EXCEPT ![o].state = state, ![o].updatedAt = now]
  /\ UNCHANGED <<now, cancellations, lastObserved, requests, solvers, offers, restartClock>>

WithoutFill(o) ==
  settlements[o].state = "UNFILLED" /\ settlements[o].updatedAt <= now

\* recordFirmOfferOutcome of an offer no settlement selected.
RecordUnownedOutcome(o, outcome) ==
  /\ ~Owned(o) /\ outcome # "FILLED"
  /\ CanComplete(All({o}, outcome))
  /\ offers' = CompletedOffers(All({o}, outcome))
  /\ solvers' = CompletedSolvers(All({o}, outcome))
  /\ UNCHANGED <<now, cancellations, lastObserved, requests, settlements, restartClock>>

\* recordFirmOfferOutcome with the exact terminal proof of the settlement: the offer is
\* filled or released neutrally, its rivals are released and the request is resolved.
RecordReconciledOutcome(o, outcome) ==
  LET r == OfferTerms[o].request
      completed == [p \in ActiveFor({r}) \cup {o} |-> IF p = o THEN outcome ELSE "USER_ABANDONED"]
  IN /\ Owned(o)
     /\ \/ outcome = "FILLED" /\ settlements[o].state = "COMPLETED"
        \/ outcome = "USER_ABANDONED" /\ WithoutFill(o)
     /\ requests[r].state = "ACTIVE"
     /\ ~\E p \in ActiveFor({r}) \ {o} : Owned(p)
     /\ CanComplete(completed)
     /\ offers' = CompletedOffers(completed)
     /\ solvers' = CompletedSolvers(completed)
     /\ requests' = ResolvedRequests({r}, IF outcome = "FILLED" THEN "EXERCISED" ELSE "ABANDONED")
     /\ UNCHANGED <<now, cancellations, lastObserved, settlements, restartClock>>

-------------------------------------------------------------------------------
\* COALESCE(resolved_at, authorized_at, finalized_at, reserved_at)
LastTouched(offer) ==
  LET stamps == <<offer.resolvedAt, offer.authorizedAt, offer.finalizedAt, offer.reservedAt>>
      set == {n \in 1..4 : stamps[n] # Never}
  IN IF set = {} THEN Never ELSE stamps[Min(set)]
LiabilityClock ==
  Max({lastObserved[i] : i \in Identities} \cup {solvers[s].updatedAt : s \in SolverIds}
      \cup {LastTouched(offers[o]) : o \in OfferIds} \cup {settlements[o].updatedAt : o \in OfferIds})

\* The rows a restart refuses to run over.
Malformed(o) ==
  \/ requests[OfferTerms[o].request].state # "ACTIVE"
  \/ OfferTerms[o].expiresAt > RequestTerms[OfferTerms[o].request].expiresAt
  \/ offers[o].authorizedAt # Never /\ offers[o].finalizedAt = Never
UnsafeSettlementOwnership(o) ==
  \/ offers[o].finalizedAt = Never \/ offers[o].authorizedAt = Never
  \/ AmountSats(o) # LightningAmount(o)
  \/ settlements[o].createdAt < offers[o].authorizedAt
  \/ settlements[o].createdAt >= Min({offers[o].authorizationExpiresAt, OfferTerms[o].expiresAt})
  \/ requests[OfferTerms[o].request].state # "ACTIVE"
SettlementsOf(r) == {o \in OffersOf(r) : Owned(o)}
EmptyRequests(done) ==
  {r \in DueRequests(Identities) : ActiveFor({r}) \subseteq done /\ SettlementsOf(r) = {}}

\* reconcileRfqFinalizationRestart: release unowned offers past their own expiry, then
\* close the expired requests left empty (#closeExpiredEmptyRfqRequests).
ReconcileRfqFinalizationRestart ==
  LET due == {o \in ActiveOffers : OfferTerms[o].expiresAt <= now /\ ~Owned(o)}
  IN /\ now >= restartClock /\ now >= LiabilityClock
     /\ \A o \in ActiveOffers : ~Malformed(o)
     /\ \A o \in ActiveOffers : Owned(o) => ~UnsafeSettlementOwnership(o)
     /\ \A r \in RequestIds : Cardinality(SettlementsOf(r)) <= 1
     /\ \E released \in Batches(due, OfferTerms) :
          LET expired == All(released, "EXPIRED_UNEXERCISED")
          IN /\ CanComplete(expired)
             /\ offers' = CompletedOffers(expired)
             /\ solvers' = CompletedSolvers(expired)
             /\ \E closed \in Batches(EmptyRequests(released), RequestTerms) :
                  requests' = ResolvedRequests(closed, "EXPIRED")
     /\ restartClock' = now
     /\ UNCHANGED <<now, cancellations, lastObserved, settlements>>

\* The callers' clock.
Tick ==
  /\ now < MaxTime
  /\ now' = now + 1
  /\ UNCHANGED <<cancellations, lastObserved, requests, solvers, offers, settlements, restartClock>>

AuthorizationExpiries == 1..MaxTime
\* UNFILLED stands for REFUNDED, FAILED and CANCELED, which nothing here tells apart.
Terminals == {"COMPLETED", "UNFILLED"}

AdmissionNext ==
  \/ \E r \in RequestIds : AdmitRfq(r)
  \/ \E r \in RequestIds : ReadmitRfq(r)
  \/ \E i \in Identities, sequence \in CancellationSequences : CancelRfqs(i, sequence)
  \/ ExpireRfqs
  \/ \E r \in RequestIds, state \in {"EXERCISED", "ABANDONED"} : ResolveRfq(r, state)
  \/ \E c \in Snapshots : RecordSolverCapacity(c)
  \/ \E o \in OfferIds : ReserveVerifiedFirmOffer(o)
  \/ \E o \in OfferIds : BindFirmOfferExecution(o)
  \/ \E o \in OfferIds, expiresAt \in AuthorizationExpiries : BindFirmOfferUserAuthorization(o, expiresAt)
  \/ \E o \in OfferIds : AcceptSettlement(o)
  \/ \E o \in OfferIds, expiresAt \in AuthorizationExpiries : AcceptAuthorizedFirmOfferSettlement(o, expiresAt)
  \/ \E o \in OfferIds, state \in Terminals : RecordTerminal(o, state)
  \/ \E o \in OfferIds, outcome \in {"SOLVER_FAILED", "EXPIRED_UNEXERCISED", "USER_ABANDONED"} :
       RecordUnownedOutcome(o, outcome)
  \/ \E o \in OfferIds, outcome \in {"FILLED", "USER_ABANDONED"} : RecordReconciledOutcome(o, outcome)
  \/ ReconcileRfqFinalizationRestart
  \/ Tick

AdmissionSpec == AdmissionInit /\ [][AdmissionNext]_admissionVars

-------------------------------------------------------------------------------
\* The running totals of a solver (#writeSolverAccounting) always equal what its offers in
\* the ledger add up to, over every order of reservations, expiries, cancellations and
\* outcomes: otherwise getSolverCapacity throws and the solver is locked out for good.  And
\* capacity_conflicted is set exactly while the latest signed snapshot does not cover them,
\* also after the commitments that caused the conflict are released.
AccountingExact ==
  \A s \in SolverIds :
    LET mine(state) == {o \in OfferIds : offers[o].state = state /\ OfferTerms[o].solver = s}
    IN /\ solvers[s].activeFirmQuotes = Cardinality(mine("ACTIVE"))
       /\ solvers[s].committedBit = Total(BitAmounts, mine("ACTIVE"))
       /\ solvers[s].committedLightning = Total(LightningAmounts, mine("ACTIVE"))
       /\ solvers[s].fills = Cardinality(mine("FILLED"))
       /\ solvers[s].failures = Cardinality(mine("SOLVER_FAILED"))
       /\ solvers[s].conflicted <=> \/ solvers[s].bit < Total(BitAmounts, mine("ACTIVE"))
                                   \/ solvers[s].lightning < Total(LightningAmounts, mine("ACTIVE"))

\* A settlement that owns a known offer was created after the offer was reserved, bound
\* and authorized, and before that authorization ran out: a settlement that names the
\* identifier first keeps reserveVerifiedFirmOffer from ever creating the offer.
OwnershipCausal ==
  \A o \in OfferIds : Owned(o) /\ offers[o].state # "NONE" =>
    /\ Never < offers[o].reservedAt /\ offers[o].reservedAt <= offers[o].finalizedAt
    /\ offers[o].finalizedAt <= offers[o].authorizedAt /\ offers[o].authorizedAt <= settlements[o].createdAt
    /\ settlements[o].createdAt < offers[o].authorizationExpiresAt
    /\ offers[o].authorizationExpiresAt <= OfferTerms[o].expiresAt

\* cancelRfqs is permanent: no request at or below the identity's cancellation sequence is
\* active, whether it was admitted before the cancellation or tried after it.
CancelHolds ==
  \A r \in RequestIds : requests[r].state = "ACTIVE" =>
    RequestTerms[r].nonce > CancellationSequence(RequestTerms[r].identity)

\* The settlement alone decides an offer it owns: the offer is filled only by a completed
\* one, released only by one that ended without a fill, and its request says the same.
\* No expiry, cancellation, rival outcome or restart sweep gets there first, and rival offers
\* for one request never get a settlement each, whichever entry point created the first.
SettlementDecidesOffer ==
  /\ \A r \in RequestIds : Cardinality(SettlementsOf(r)) <= 1
  /\ \A o \in OfferIds :
       /\ Owned(o) => \/ offers[o].state \in {"NONE", "ACTIVE"}
                      \/ offers[o].state = "FILLED" /\ settlements[o].state = "COMPLETED"
                      \/ offers[o].state = "USER_ABANDONED" /\ settlements[o].state = "UNFILLED"
       /\ offers[o].state = "FILLED" => Owned(o) /\ requests[OfferTerms[o].request].state = "EXERCISED"
       /\ requests[OfferTerms[o].request].state = "EXERCISED" =>
            \E p \in SettlementsOf(OfferTerms[o].request) : offers[p].state = "FILLED"
===============================================================================
