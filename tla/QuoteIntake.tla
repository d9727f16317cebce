------------------------------ MODULE QuoteIntake ------------------------------
(***************************************************************************)
(* From a signed quote request to a session of blind quotes: the ingress   *)
(* route with its durable replay and quota store, the reader that collects *)
(* offers over every delivery path, and the quote book                     *)
(* (lib/rfq-quote-ingress.mjs, rfq-quote-ingress-{store, reader}.mjs,      *)
(* rfq-delivery.mjs, rfq-delivery-service.mjs, blind-rfq.mjs,              *)
(* blind-quote-preview.mjs).                                               *)
(*                                                                         *)
(* An action is the code between two awaits.  Strict parsing, signatures,  *)
(* digests and the challenge of a delivery refuse a message and are        *)
(* otherwise left out; an envelope is a record of what the book compares.  *)
(***************************************************************************)
EXTENDS Integers, Sequences, FiniteSets, SequencesExt

CONSTANTS Requests,               \* signed quote requests, each with its pricing ID and nonce
          Identity,               \* the wallet that signed a request
          PricingExpiry,          \* pricing.expiresAt
          AuthorizationExpiry,    \* authorizationExpiresAt of the signed request
          MaximumRequestLifetime, \* maximumRequestLifetimeSeconds of the policy
          MaximumAuthorizationTtl,\* maximumAuthorizationTtlSeconds of the policy
          Plan,                   \* the delivery paths in the order of the roster
          PathKind, Envelopes,    \* kind of a path, and the sequence of envelopes it holds
          MinimumRelayPaths, MinimumDirectSolverPaths, MinimumIndependentSolvers,
          MaxOffersPerRequest,
          QuotaWindow, RequestsPerWindow, RequestsPerIdentityWindow,
          MaximumLiveRequests, SessionsPerIdentity,
          MaxTime, MaxRestarts    \* bounds: the clock, restarts of the coordinator

Paths == ToSet(Plan)
Offers == UNION {ToSet(Envelopes[p]) : p \in Paths}

ASSUME IntakeAssumption ==
  /\ PricingExpiry \in [Requests -> Nat] /\ AuthorizationExpiry \in [Requests -> Nat]
  /\ \A q \in Requests : AuthorizationExpiry[q] <= PricingExpiry[q]
  /\ QuotaWindow \in Nat \ {0} /\ MaximumAuthorizationTtl \in Nat \ {0}
  /\ MinimumIndependentSolvers >= 2

VARIABLES now,        \* seconds; the stores refuse one that steps back
          rows,       \* the durable claims of the ingress store
          reading,    \* requests whose offers are being collected: when that began
          sessions,   \* preview sessions of the running process
          restarts,
          collected   \* history: how often the offers for a request were collected

intakeVars == <<rows, reading, sessions, collected>>

Idle == -1
NoRow == [state |-> "NONE", expiresAt |-> 0, claimedAt |-> 0]
NoSession == [offers |-> <<>>, expiresAt |-> 0, delivered |-> {}]

IntakeInit ==
  /\ now = 0 /\ restarts = 0
  /\ rows = [q \in Requests |-> NoRow]
  /\ reading = [q \in Requests |-> Idle]
  /\ sessions = [q \in Requests |-> NoSession]
  /\ collected = [q \in Requests |-> 0]

-------------------------------------------------------------------------------
(* The quote book. *)

\* The first element of s for each value of the field.
FirstBy(s, field) ==
  FoldLeft(LAMBDA kept, e : IF \E i \in DOMAIN kept : kept[i][field] = e[field]
                            THEN kept ELSE Append(kept, e), <<>>, s)

\* Envelopes of the responsive paths in the order of the plan; the fingerprint makes
\* identical ones one.
Received(delivered) ==
  FoldLeft(LAMBDA all, p : all \o SelectSeq(Envelopes[p], LAMBDA e : e \notin ToSet(all)), <<>>,
           SelectSeq(Plan, LAMBDA p : p \in delivered))

\* validateBlindSolverOffer and the market-risk attestation through the offer's expiry.
ValidOffer(q, e, t) == e.genuine /\ e.covered /\ t < e.expiresAt /\ e.expiresAt <= PricingExpiry[q]

\* Mutant of Ranked: the best offer of a solver is the first to arrive.
Ranked_ByArrival(q, delivered, t) ==
  SortSeq(FirstBy(FirstBy(SelectSeq(Received(delivered), LAMBDA e : ValidOffer(q, e, t)), "id"), "solver"),
          LAMBDA a, b : a.price < b.price \/ (a.price = b.price /\ a.id < b.id))

\* Valid offers, one for an identifier, from the cheapest on.
Ranked(q, delivered, t) ==
  SortSeq(FirstBy(SelectSeq(Received(delivered), LAMBDA e : ValidOffer(q, e, t)), "id"),
          LAMBDA a, b : a.price < b.price \/ (a.price = b.price /\ a.id < b.id))

\* The offers of the book: the best of each solver, up to the retained limit.
Retained(q, delivered, t) ==
  LET best == FirstBy(Ranked(q, delivered, t), "solver")
  IN IF Len(best) > MaxOffersPerRequest THEN SubSeq(best, 1, MaxOffersPerRequest) ELSE best

\* Every path is asked by itself: it answers this very challenge in time, or it does not count.
Deliveries == SUBSET Paths

OfKind(S, kind) == {p \in S : PathKind[p] = kind}
Supplying(delivered, offers) == {p \in delivered : ToSet(Envelopes[p]) \cap ToSet(offers) # {}}
Diverse(S) == /\ Cardinality(OfKind(S, "relay")) >= MinimumRelayPaths
              /\ Cardinality(OfKind(S, "direct-solver")) >= MinimumDirectSolverPaths

\* collectNormalizedRfqDeliveries and buildMultipathBlindQuoteBook succeed: enough paths
\* answered, enough solvers are retained, and enough paths supplied a retained offer.
HasBook(q, delivered, t) ==
  LET offers == Retained(q, delivered, t)
  IN /\ Diverse(delivered)
     /\ Len(offers) >= MinimumIndependentSolvers
     /\ Diverse(Supplying(delivered, offers))

\* buildSession: the preview ends with the pricing or the first of its offers.
SessionOf(q, delivered, t) ==
  LET offers == Retained(q, delivered, t)
      ends == {PricingExpiry[q]} \cup {e.expiresAt : e \in ToSet(offers)}
  IN [offers |-> offers, delivered |-> delivered,
      expiresAt |-> CHOOSE x \in ends : \A y \in ends : x <= y]

-------------------------------------------------------------------------------
(* The durable store. *)

\* Mutant of Prune: expired rows go, whatever the quota window.
Prune_Expired(q) == rows[q].expiresAt <= now
\* The row is removed at the next claim.
Prune(q) == rows[q].expiresAt <= now /\ rows[q].claimedAt <= now - QuotaWindow
PrunedRows == [q \in Requests |-> IF rows[q].state # "NONE" /\ Prune(q) THEN NoRow ELSE rows[q]]

ClaimedSince(table, S) == {q \in S : table[q].state # "NONE" /\ table[q].claimedAt > now - QuotaWindow}
LiveClaims(table, S) == {q \in S : table[q].state \in {"CLAIMED", "READY"} /\ table[q].expiresAt > now}
SameIdentity(q) == {p \in Requests : Identity[p] = Identity[q]}

WithinQuota(table, q) ==
  /\ Cardinality(ClaimedSince(table, Requests)) < RequestsPerWindow
  /\ Cardinality(ClaimedSince(table, SameIdentity(q))) < RequestsPerIdentityWindow
  /\ Cardinality(LiveClaims(table, Requests)) < MaximumLiveRequests
  /\ Cardinality(LiveClaims(table, SameIdentity(q))) < SessionsPerIdentity

\* cleanupSessions, at the head of every request.
LiveSessions == [q \in Requests |-> IF sessions[q].expiresAt <= now THEN NoSession ELSE sessions[q]]

-------------------------------------------------------------------------------
(* The route. *)

\* The wallet signed these terms, and its authorization is current.
Authorized(q) == now < AuthorizationExpiry[q]

\* Neither the pricing nor the authorization reaches further than the policy lets it.
WithinLifetime(q) == /\ PricingExpiry[q] - now <= MaximumRequestLifetime
                     /\ AuthorizationExpiry[q] - now <= MaximumAuthorizationTtl

\* handleCreate up to the reader: policy and authorization hold, the claim commits.
CreateQuote(q) ==
  /\ Authorized(q) /\ WithinLifetime(q)
  /\ WithinQuota(PrunedRows, q)
  /\ sessions' = LiveSessions
  /\ \/ /\ PrunedRows[q].state = "NONE"
        /\ rows' = [PrunedRows EXCEPT ![q] = [state |-> "CLAIMED", expiresAt |-> PricingExpiry[q],
                                              claimedAt |-> now]]
        /\ reading' = [reading EXCEPT ![q] = now]
        /\ collected' = [collected EXCEPT ![q] = @ + 1]
     \/ PrunedRows[q].state # "NONE" /\ rows' = PrunedRows /\ UNCHANGED <<reading, collected>>
  /\ UNCHANGED <<now, restarts>>

\* The reader answers; the book uses the time at which the collection began.
Read(q, delivered) == HasBook(q, delivered, reading[q])
CollectionEnds(q, delivered) ==
  LET session == SessionOf(q, delivered, reading[q])
  IN /\ reading[q] # Idle
     /\ Read(q, delivered)
     /\ Authorized(q)
     /\ rows[q].state = "CLAIMED" /\ rows[q].expiresAt > now
     /\ session.expiresAt \in now + 1 .. rows[q].expiresAt
     /\ rows' = [rows EXCEPT ![q].state = "READY", ![q].expiresAt = session.expiresAt]
     /\ sessions' = [sessions EXCEPT ![q] = session]
     /\ reading' = [reading EXCEPT ![q] = Idle]
     /\ UNCHANGED <<now, restarts, collected>>

\* Too few paths or solvers, an expired session or authorization, or the deadline of the
\* route, whose abort ends the collection: the claim stays.
CollectionFails(q) ==
  /\ reading[q] # Idle
  /\ reading' = [reading EXCEPT ![q] = Idle]
  /\ UNCHANGED <<now, restarts, rows, sessions, collected>>

\* claimSelection: a ready session is taken once, in the store.
Selectable(q) == rows[q].state = "READY" /\ rows[q].expiresAt > now
ClaimSelection(q) == Selectable(q) /\ rows' = [rows EXCEPT ![q].state = "SELECTED"]

-------------------------------------------------------------------------------
\* docs/RFQ_QUOTE_INGRESS.md: a signed request is claimed before its offers are collected
\* and stays consumed over failures, early session expiries and restarts. The store forgets
\* an expired session with its quota window, so the same authorization claims again at most
\* once for each window that ends while it lives: once in all where the window is no shorter.
CollectedPerWindow ==
  \A q \in Requests : collected[q] > 0 => (collected[q] - 1) * QuotaWindow < MaximumAuthorizationTtl

\* docs/RFQ_DELIVERY.md, "Best received quote": no valid offer that a responsive path
\* delivered undercuts the first of the session, unless its solver used the identifier of
\* another offer; and each solver has one offer.
BestReceived ==
  \A q \in Requests : sessions[q].offers # <<>> =>
    LET s == sessions[q]
        all == ToSet(Received(s.delivered))
    IN /\ \A e \in all : e.genuine /\ e.covered /\ e.expiresAt <= PricingExpiry[q] /\ now < e.expiresAt =>
            s.offers[1].price <= e.price \/ \E f \in all \ {e} : f.id = e.id
       /\ Cardinality({e.solver : e \in ToSet(s.offers)}) = Len(s.offers)
================================================================================
