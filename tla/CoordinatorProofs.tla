--------------------------- MODULE CoordinatorProofs ---------------------------
(***************************************************************************)
(* What the coordinator guarantees for any number of requests, offers,     *)
(* solvers, jobs and runs, for any quotas and limits and however long the  *)
(* clock runs.                                                             *)
(*                                                                         *)
(* The admission ledger: a cancellation is permanent, a settlement owns an *)
(* offer only in causal order and alone decides the offer it owns, and the *)
(* committed amounts of each solver are exactly those of its active        *)
(* offers (AccountingExact).                                               *)
(*                                                                         *)
(* Sixteen methods change the three tables, most of them several rows at   *)
(* once.  What any of them may do to one row is stated once (OfferMoves,   *)
(* RequestMoves, SettlementMoves) and shown for every method; the parts of *)
(* the invariant follow from the moves alone.  The accounts need more: how *)
(* every method changes the row of a solver together with its offers.      *)
(*                                                                         *)
(* The two services of the coordinator's host: the run journal of the      *)
(* active service is sound (JournalSound), and either service has drained  *)
(* before its store is closed (HostDrained).                               *)
(***************************************************************************)
EXTENDS AdmissionLedger, CoordinatorHost, SumTheorems

-------------------------------------------------------------------------------
(* The admission ledger. *)

OfferStates == {"NONE", "ACTIVE", "FILLED", "SOLVER_FAILED", "EXPIRED_UNEXERCISED", "USER_ABANDONED"}
Offers == [state : OfferStates, reservedAt : Int, finalizedAt : Int, authorizedAt : Int,
           authorizationExpiresAt : Int, resolvedAt : Int]
RequestStates == {"NONE", "ACTIVE", "EXPIRED", "CANCELED", "EXERCISED", "ABANDONED"}
Requests == [state : RequestStates, acceptedAt : Int]
Settlements == [state : {"NONE", "OPEN", "COMPLETED", "UNFILLED"}, createdAt : Int, updatedAt : Int]

\* The rows of the three tables have their types.
AdmissionTypeOK ==
  /\ now \in Nat
  /\ requests \in [RequestIds -> Requests]
  /\ offers \in [OfferIds -> Offers]
  /\ settlements \in [OfferIds -> Settlements]
  /\ cancellations \subseteq [identity : Identities, sequence : Nat, at : Nat]

\* The stamps of an offer were given in order, none of them in the future.
OfferOrdered(o) ==
  offers[o].state # "NONE" =>
    /\ 0 <= offers[o].reservedAt /\ offers[o].reservedAt <= now
    /\ offers[o].finalizedAt # Never =>
         offers[o].reservedAt <= offers[o].finalizedAt /\ offers[o].finalizedAt <= now
    /\ offers[o].authorizedAt # Never =>
         /\ offers[o].finalizedAt # Never /\ offers[o].finalizedAt <= offers[o].authorizedAt
         /\ offers[o].authorizedAt <= now
         /\ offers[o].authorizationExpiresAt <= OfferTerms[o].selectionExpiresAt

\* A settlement that owns an offer the ledger knows came after its authorization.
OwnedInOrder(o) ==
  Owned(o) /\ offers[o].state # "NONE" =>
    /\ offers[o].authorizedAt # Never /\ offers[o].authorizedAt <= settlements[o].createdAt
    /\ settlements[o].createdAt < offers[o].authorizationExpiresAt

\* What an owned offer's state says is what its settlement says; a filled one is owned and
\* its request exercised.
OfferDecided(o) ==
  /\ Owned(o) => \/ offers[o].state \in {"NONE", "ACTIVE"}
                 \/ offers[o].state = "FILLED" /\ settlements[o].state = "COMPLETED"
                 \/ offers[o].state = "USER_ABANDONED" /\ settlements[o].state = "UNFILLED"
  /\ offers[o].state = "FILLED" => Owned(o) /\ requests[OfferTerms[o].request].state = "EXERCISED"

\* No two offers for one request have a settlement each.
OneOwned ==
  \A o, p \in OfferIds :
    /\ Owned(o) /\ offers[o].state # "NONE" /\ Owned(p) /\ offers[p].state # "NONE"
    /\ OfferTerms[o].request = OfferTerms[p].request
    => o = p

\* An exercised request has the filled offer that exercised it.
ExercisedByFill ==
  \A r \in RequestIds : requests[r].state = "EXERCISED" =>
    \E o \in OfferIds : OfferTerms[o].request = r /\ Owned(o) /\ offers[o].state = "FILLED"

\* The cancellation sequence of an identity is the highest it ever sent.
Sequences(i) == {c.sequence : c \in {d \in cancellations : d.identity = i}} \cup {0}
HighestSequence(i) == \E x \in Sequences(i) : \A y \in Sequences(i) : x >= y

\* The inductive invariant of the admission ledger.
AdmissionInv ==
  /\ AdmissionTypeOK
  /\ \A o \in OfferIds : OfferOrdered(o) /\ OwnedInOrder(o) /\ OfferDecided(o)
  /\ OneOwned /\ ExercisedByFill
  /\ \A i \in Identities : HighestSequence(i)
  /\ CancelHolds

-------------------------------------------------------------------------------
Outcomes == {"FILLED", "SOLVER_FAILED", "EXPIRED_UNEXERCISED", "USER_ABANDONED"}
Completed(o, outcome) == [offers[o] EXCEPT !.state = outcome, !.resolvedAt = now]
RequestOf(o) == OfferTerms[o].request

\* What a step may do to one offer: nothing, decide it while it is active (a settlement
\* that owns it has the last word), reserve it, bind it or authorize it.
Decides(o, outcome) ==
  \/ ~Owned(o) /\ outcome # "FILLED"
  \/ outcome = "FILLED" /\ settlements[o].state = "COMPLETED" /\ requests'[RequestOf(o)].state = "EXERCISED"
  \/ outcome = "USER_ABANDONED" /\ settlements[o].state = "UNFILLED"
OfferMoves(o) ==
  \/ offers'[o] = offers[o]
  \/ /\ offers[o].state = "ACTIVE" /\ settlements'[o] = settlements[o]
     /\ \E outcome \in Outcomes : Decides(o, outcome) /\ offers'[o] = Completed(o, outcome)
  \/ /\ offers[o].state = "NONE" /\ ~Preclaimed(o) /\ settlements' = settlements
     /\ offers'[o] = [NoOffer EXCEPT !.state = "ACTIVE", !.reservedAt = now]
     /\ \A p \in OfferIds \ {o} : offers'[p].state # "NONE" => offers[p].state # "NONE"
  \/ /\ offers[o].state = "ACTIVE" /\ now >= offers[o].reservedAt /\ offers[o].finalizedAt = Never
     /\ offers'[o] = [offers[o] EXCEPT !.finalizedAt = now] /\ settlements'[o] = settlements[o]
  \/ /\ offers[o].authorizedAt = Never \/ ~Owned(o)
     /\ \E expiresAt \in AuthorizationExpiries : Authorizable(o, expiresAt) /\ offers'[o] = Authorized(o, expiresAt)

\* To one request: nothing, close it while it is active, exercise it by a filled offer, or
\* admit it above the cancellation sequence of its identity.
RequestMoves(r) ==
  \/ requests'[r] = requests[r]
  \/ requests[r].state = "ACTIVE" /\ requests'[r].state \in {"EXPIRED", "CANCELED", "ABANDONED"}
  \/ /\ requests[r].state = "ACTIVE" /\ requests'[r].state = "EXERCISED" /\ settlements' = settlements
     /\ \E o \in OfferIds : RequestOf(o) = r /\ Owned(o) /\ offers'[o].state = "FILLED"
  \/ /\ requests[r].state = "NONE" /\ requests'[r].state = "ACTIVE"
     /\ RequestTerms[r].nonce > CancellationSequence(RequestTerms[r].identity)

\* To one settlement: nothing, end it, or create it for an offer the ledger does not know
\* or for the one authorized offer of a request that no settlement has yet.
SettlementMoves(o) ==
  \/ settlements'[o] = settlements[o]
  \/ /\ settlements[o].state = "OPEN" /\ offers'[o] = offers[o]
     /\ settlements'[o].state \in Terminals /\ settlements'[o].createdAt = settlements[o].createdAt
  \/ /\ ~Owned(o) /\ settlements'[o] = NewSettlement
     /\ \A p \in OfferIds \ {o} : settlements'[p] = settlements[p] /\ offers'[p] = offers[p]
     /\ \/ offers[o].state = "NONE" /\ offers'[o] = offers[o]
        \/ /\ ~\E p \in OffersOf(RequestOf(o)) : Owned(p)
           /\ offers[o].state = "ACTIVE" /\ offers'[o].state = "ACTIVE" /\ offers'[o].authorizedAt # Never
           /\ offers'[o].authorizedAt <= now /\ now < offers'[o].authorizationExpiresAt

Moves ==
  /\ \A o \in OfferIds : OfferMoves(o) /\ SettlementMoves(o)
  /\ \A r \in RequestIds : RequestMoves(r)
  /\ now' \in Nat /\ now <= now'
  /\ requests' \in [RequestIds -> Requests] /\ offers' \in [OfferIds -> Offers]
  /\ settlements' \in [OfferIds -> Settlements]

\* #completeFirmOffer changes the offers it is given, each of them active, and no other.
LEMMA Completing ==
  ASSUME AdmissionTypeOK, NEW outcome, \A o \in DOMAIN outcome : outcome[o] \in Outcomes, CanComplete(outcome)
  PROVE  /\ CompletedOffers(outcome) \in [OfferIds -> Offers]
         /\ \A o \in OfferIds :
              /\ o \notin DOMAIN outcome => CompletedOffers(outcome)[o] = offers[o]
              /\ o \in DOMAIN outcome => offers[o].state = "ACTIVE"
                                         /\ CompletedOffers(outcome)[o] = Completed(o, outcome[o])
<1> DEFINE done == CompletedOffers(outcome)
<1>1. \A o \in OfferIds : /\ o \notin DOMAIN outcome => done[o] = offers[o]
                          /\ o \in DOMAIN outcome => done[o] = Completed(o, outcome[o])
  BY DEF CompletedOffers, Completed
<1>2. \A o \in DOMAIN outcome : offers[o].state = "ACTIVE"
  BY DEF CanComplete
<1>3. \A o \in OfferIds, x \in Outcomes : Completed(o, x) \in Offers /\ offers[o] \in Offers
  <2> SUFFICES ASSUME NEW o \in OfferIds, NEW x \in Outcomes PROVE Completed(o, x) \in Offers /\ offers[o] \in Offers
    OBVIOUS
  <2>1. offers[o] \in Offers /\ now \in Int /\ x \in OfferStates
    BY DEF AdmissionTypeOK, Outcomes, OfferStates
  <2> QED BY <2>1 DEF Completed, Offers
<1>4. done \in [OfferIds -> Offers]
  <2> DEFINE row(o) == IF o \in DOMAIN outcome THEN Completed(o, outcome[o]) ELSE offers[o]
  <2>1. ASSUME NEW o \in OfferIds PROVE row(o) \in Offers
    <3>1. o \in DOMAIN outcome => outcome[o] \in Outcomes
      OBVIOUS
    <3>2. o \in DOMAIN outcome => Completed(o, outcome[o]) \in Offers
      BY <1>3, <3>1
    <3>3. offers[o] \in Offers
      BY DEF AdmissionTypeOK
    <3> QED BY <3>2, <3>3
  <2>2. done = [o \in OfferIds |-> row(o)]
    BY DEF CompletedOffers, Completed
  <2> HIDE DEF done, row
  <2> QED BY <2>1, <2>2
<1> QED BY <1>1, <1>2, <1>4

\* Closing requests leaves the others alone.
LEMMA Resolving ==
  ASSUME AdmissionTypeOK, NEW R, NEW state \in RequestStates
  PROVE  /\ ResolvedRequests(R, state) \in [RequestIds -> Requests]
         /\ \A r \in RequestIds :
              ResolvedRequests(R, state)[r] = IF r \in R THEN [requests[r] EXCEPT !.state = state] ELSE requests[r]
BY DEF AdmissionTypeOK, ResolvedRequests, Requests

\* The expiry that admission, cancellation, reservation and the sweep share: active offers
\* that no settlement owns are released, and active requests without a settlement closed.
LEMMA Expiring ==
  ASSUME AdmissionTypeOK, NEW due, due \subseteq {r \in RequestIds : requests[r].state = "ACTIVE"},
         CanComplete(All(DueOffers(due), "EXPIRED_UNEXERCISED"))
  PROVE  LET done == CompletedOffers(All(DueOffers(due), "EXPIRED_UNEXERCISED"))
             closed == ResolvedRequests(Closable(due), "EXPIRED")
         IN /\ done \in [OfferIds -> Offers]
            /\ \A o \in OfferIds :
                 \/ done[o] = offers[o]
                 \/ offers[o].state = "ACTIVE" /\ ~Owned(o) /\ done[o] = Completed(o, "EXPIRED_UNEXERCISED")
            /\ closed \in [RequestIds -> Requests]
            /\ \A r \in RequestIds :
                 closed[r] = requests[r] \/ (requests[r].state = "ACTIVE" /\ closed[r].state = "EXPIRED")
<1> DEFINE outcome == All(DueOffers(due), "EXPIRED_UNEXERCISED")
<1>1. DOMAIN outcome = DueOffers(due) /\ \A o \in DueOffers(due) : outcome[o] = "EXPIRED_UNEXERCISED" /\ ~Owned(o)
  BY DEF All, DueOffers
<1>2. \A o \in DOMAIN outcome : outcome[o] \in Outcomes
  BY <1>1 DEF Outcomes
<1>3. CanComplete(outcome)
  OBVIOUS
<1> HIDE DEF outcome
<1>4. /\ CompletedOffers(outcome) \in [OfferIds -> Offers]
      /\ \A o \in OfferIds :
           /\ o \notin DOMAIN outcome => CompletedOffers(outcome)[o] = offers[o]
           /\ o \in DOMAIN outcome => offers[o].state = "ACTIVE"
                                      /\ CompletedOffers(outcome)[o] = Completed(o, outcome[o])
  BY <1>2, <1>3, Completing
<1>5. \A o \in OfferIds :
        \/ CompletedOffers(outcome)[o] = offers[o]
        \/ /\ offers[o].state = "ACTIVE" /\ ~Owned(o)
           /\ CompletedOffers(outcome)[o] = Completed(o, "EXPIRED_UNEXERCISED")
  BY <1>1, <1>4
<1>6. Closable(due) \subseteq due
  BY DEF Closable
<1>7. "EXPIRED" \in RequestStates
  BY DEF RequestStates
<1>8. /\ ResolvedRequests(Closable(due), "EXPIRED") \in [RequestIds -> Requests]
      /\ \A r \in RequestIds : ResolvedRequests(Closable(due), "EXPIRED")[r]
           = IF r \in Closable(due) THEN [requests[r] EXCEPT !.state = "EXPIRED"] ELSE requests[r]
  BY <1>7, Resolving
<1>9. \A r \in Closable(due) : requests[r].state = "ACTIVE" /\ [requests[r] EXCEPT !.state = "EXPIRED"].state = "EXPIRED"
  BY <1>6 DEF AdmissionTypeOK, Requests
<1> QED BY <1>4, <1>5, <1>8, <1>9 DEF outcome

-------------------------------------------------------------------------------
\* Admission expires the requests of the identity and opens one above its sequence.
LEMMA AdmitMoves ==
  ASSUME AdmissionInv, NEW r \in RequestIds, AdmitRfq(r)
  PROVE  Moves
<1> DEFINE due == DueRequests({RequestTerms[r].identity})
           done == CompletedOffers(All(DueOffers(due), "EXPIRED_UNEXERCISED"))
           closed == ResolvedRequests(Closable(due), "EXPIRED")
<1>1. due \subseteq {q \in RequestIds : requests[q].state = "ACTIVE"}
  BY DEF DueRequests
<1>2. /\ offers' = done /\ requests' = [closed EXCEPT ![r] = [state |-> "ACTIVE", acceptedAt |-> now]]
      /\ requests[r].state = "NONE" /\ CanComplete(All(DueOffers(due), "EXPIRED_UNEXERCISED"))
      /\ settlements' = settlements /\ now' = now
      /\ RequestTerms[r].nonce > CancellationSequence(RequestTerms[r].identity)
  BY DEF AdmitRfq, Admissible
<1>3. AdmissionTypeOK
  BY DEF AdmissionInv
<1> HIDE DEF due
<1>4. /\ done \in [OfferIds -> Offers]
      /\ \A o \in OfferIds :
           \/ done[o] = offers[o]
           \/ offers[o].state = "ACTIVE" /\ ~Owned(o) /\ done[o] = Completed(o, "EXPIRED_UNEXERCISED")
      /\ closed \in [RequestIds -> Requests]
      /\ \A q \in RequestIds :
           closed[q] = requests[q] \/ (requests[q].state = "ACTIVE" /\ closed[q].state = "EXPIRED")
  BY <1>1, <1>2, <1>3, Expiring
<1> HIDE DEF done, closed
<1>5. \A o \in OfferIds : OfferMoves(o) /\ SettlementMoves(o)
  BY <1>2, <1>4 DEF OfferMoves, SettlementMoves, Decides, Outcomes
<1>6. now \in Int /\ [state |-> "ACTIVE", acceptedAt |-> now] \in Requests
  BY <1>3 DEF AdmissionTypeOK, Requests, RequestStates
<1>7. requests' \in [RequestIds -> Requests]
  BY <1>2, <1>4, <1>6
<1>8. \A q \in RequestIds : RequestMoves(q)
  BY <1>2, <1>4 DEF RequestMoves
<1>9. now' \in Nat /\ now <= now' /\ settlements' \in [OfferIds -> Settlements] /\ offers' \in [OfferIds -> Offers]
  BY <1>2, <1>3, <1>4 DEF AdmissionTypeOK
<1> QED BY <1>5, <1>7, <1>8, <1>9 DEF Moves

\* Expiry on its own: another admission of the same request, or the sweep.
LEMMA ExpiryMoves ==
  ASSUME AdmissionInv, NEW due, due \subseteq {r \in RequestIds : requests[r].state = "ACTIVE"},
         CanComplete(All(DueOffers(due), "EXPIRED_UNEXERCISED")),
         offers' = CompletedOffers(All(DueOffers(due), "EXPIRED_UNEXERCISED")),
         requests' = ResolvedRequests(Closable(due), "EXPIRED"),
         settlements' = settlements, now' = now
  PROVE  Moves
<1> DEFINE done == CompletedOffers(All(DueOffers(due), "EXPIRED_UNEXERCISED"))
           closed == ResolvedRequests(Closable(due), "EXPIRED")
<1>3. AdmissionTypeOK
  BY DEF AdmissionInv
<1>4. /\ done \in [OfferIds -> Offers]
      /\ \A o \in OfferIds :
           \/ done[o] = offers[o]
           \/ offers[o].state = "ACTIVE" /\ ~Owned(o) /\ done[o] = Completed(o, "EXPIRED_UNEXERCISED")
      /\ closed \in [RequestIds -> Requests]
      /\ \A q \in RequestIds :
           closed[q] = requests[q] \/ (requests[q].state = "ACTIVE" /\ closed[q].state = "EXPIRED")
  BY <1>3, Expiring
<1>2. offers' = done /\ requests' = closed /\ settlements' = settlements /\ now' = now
  OBVIOUS
<1> HIDE DEF done, closed
<1>5. \A o \in OfferIds : OfferMoves(o) /\ SettlementMoves(o)
  BY <1>2, <1>4 DEF OfferMoves, SettlementMoves, Decides, Outcomes
<1>8. \A q \in RequestIds : RequestMoves(q)
  BY <1>2, <1>4 DEF RequestMoves
<1>9. /\ now' \in Nat /\ now <= now' /\ settlements' \in [OfferIds -> Settlements]
      /\ offers' \in [OfferIds -> Offers] /\ requests' \in [RequestIds -> Requests]
  BY <1>2, <1>3, <1>4 DEF AdmissionTypeOK
<1> QED BY <1>5, <1>8, <1>9 DEF Moves

\* A reservation follows the expiry, and only for an identifier no settlement names.
LEMMA ReserveMoves ==
  ASSUME AdmissionInv, NEW o \in OfferIds, ReserveVerifiedFirmOffer(o)
  PROVE  Moves
<1> DEFINE due == DueRequests(Identities)
           done == CompletedOffers(All(DueOffers(due), "EXPIRED_UNEXERCISED"))
           closed == ResolvedRequests(Closable(due), "EXPIRED")
           reserved == [NoOffer EXCEPT !.state = "ACTIVE", !.reservedAt = now]
<1>1. due \subseteq {q \in RequestIds : requests[q].state = "ACTIVE"}
  BY DEF DueRequests
<1>2. /\ offers' = [done EXCEPT ![o] = reserved] /\ requests' = closed
      /\ offers[o].state = "NONE" /\ ~Preclaimed(o) /\ CanComplete(All(DueOffers(due), "EXPIRED_UNEXERCISED"))
      /\ settlements' = settlements /\ now' = now
  BY DEF ReserveVerifiedFirmOffer
<1>3. AdmissionTypeOK
  BY DEF AdmissionInv
<1> HIDE DEF due
<1>4. /\ done \in [OfferIds -> Offers]
      /\ \A p \in OfferIds :
           \/ done[p] = offers[p]
           \/ offers[p].state = "ACTIVE" /\ ~Owned(p) /\ done[p] = Completed(p, "EXPIRED_UNEXERCISED")
      /\ closed \in [RequestIds -> Requests]
      /\ \A q \in RequestIds :
           closed[q] = requests[q] \/ (requests[q].state = "ACTIVE" /\ closed[q].state = "EXPIRED")
  BY <1>1, <1>2, <1>3, Expiring
<1> HIDE DEF done, closed
<1>5. reserved \in Offers
  <2>1. now \in Int /\ Never \in Int /\ "ACTIVE" \in OfferStates /\ "NONE" \in OfferStates
    BY <1>3 DEF AdmissionTypeOK, OfferStates, Never
  <2>2. NoOffer \in Offers
    BY <2>1 DEF Offers, NoOffer
  <2> QED BY <2>1, <2>2 DEF Offers
<1>6. /\ offers' \in [OfferIds -> Offers] /\ offers'[o] = reserved
      /\ \A p \in OfferIds \ {o} : offers'[p] = done[p]
  <2> HIDE DEF reserved
  <2> QED BY <1>2, <1>4, <1>5
<1>7. \A p \in OfferIds \ {o} : offers'[p].state # "NONE" => offers[p].state # "NONE"
  BY <1>4, <1>6
<1>8. OfferMoves(o)
  BY <1>2, <1>6, <1>7 DEF OfferMoves
<1>9. \A p \in OfferIds : OfferMoves(p)
  <2> SUFFICES ASSUME NEW p \in OfferIds \ {o} PROVE OfferMoves(p)
    BY <1>8
  <2>1. \/ offers'[p] = offers[p]
        \/ offers[p].state = "ACTIVE" /\ ~Owned(p) /\ offers'[p] = Completed(p, "EXPIRED_UNEXERCISED")
    BY <1>4, <1>6
  <2>2. settlements'[p] = settlements[p] /\ "EXPIRED_UNEXERCISED" \in Outcomes
        /\ "EXPIRED_UNEXERCISED" # "FILLED"
    BY <1>2 DEF Outcomes
  <2> HIDE DEF reserved
  <2> QED BY <2>1, <2>2 DEF OfferMoves, Decides
<1>10. \A p \in OfferIds : SettlementMoves(p)
  BY <1>2 DEF SettlementMoves
<1>11. \A q \in RequestIds : RequestMoves(q)
  BY <1>2, <1>4 DEF RequestMoves
<1>12. /\ now' \in Nat /\ now <= now' /\ settlements' \in [OfferIds -> Settlements]
       /\ requests' \in [RequestIds -> Requests]
  BY <1>2, <1>3, <1>4 DEF AdmissionTypeOK
<1> QED BY <1>6, <1>9, <1>10, <1>11, <1>12 DEF Moves

\* Any other completion: it is enough that each outcome is one the settlement allows.
LEMMA CompleteMoves ==
  ASSUME AdmissionInv, NEW outcome, \A o \in DOMAIN outcome : outcome[o] \in Outcomes,
         CanComplete(outcome), \A o \in OfferIds : o \in DOMAIN outcome => Decides(o, outcome[o]),
         offers' = CompletedOffers(outcome), settlements' = settlements, now' = now,
         requests' \in [RequestIds -> Requests], \A r \in RequestIds : RequestMoves(r)
  PROVE  Moves
<1>1. AdmissionTypeOK
  BY DEF AdmissionInv
<1>2. /\ offers' \in [OfferIds -> Offers]
      /\ \A o \in OfferIds :
           /\ o \notin DOMAIN outcome => offers'[o] = offers[o]
           /\ o \in DOMAIN outcome => offers[o].state = "ACTIVE" /\ offers'[o] = Completed(o, outcome[o])
  BY <1>1, Completing
<1>3. ASSUME NEW o \in OfferIds PROVE OfferMoves(o)
  <2>1. CASE o \notin DOMAIN outcome
    BY <1>2, <2>1 DEF OfferMoves
  <2>2. CASE o \in DOMAIN outcome
    BY <1>2, <2>2 DEF OfferMoves
  <2> QED BY <2>1, <2>2
<1>4. \A o \in OfferIds : SettlementMoves(o)
  BY DEF SettlementMoves
<1>5. now' \in Nat /\ now <= now' /\ settlements' \in [OfferIds -> Settlements]
  BY <1>1 DEF AdmissionTypeOK
<1> QED BY <1>2, <1>3, <1>4, <1>5 DEF Moves

\* A cancellation releases what no settlement owns, or nothing at all.
LEMMA CancelMoves ==
  ASSUME AdmissionInv, NEW i \in Identities, NEW sequence \in CancellationSequences, CancelRfqs(i, sequence)
  PROVE  Moves
<1> DEFINE due == DueRequests({i})
           canceled == {r \in ActiveRequests(i, Closable(due)) : RequestTerms[r].nonce <= sequence}
           outcome == [o \in DueOffers(due) \cup ActiveFor(canceled) |->
                        IF o \in DueOffers(due) THEN "EXPIRED_UNEXERCISED" ELSE "USER_ABANDONED"]
           closed == ResolvedRequests(Closable(due), "EXPIRED")
<1>1. AdmissionTypeOK
  BY DEF AdmissionInv
<1>2. /\ Releasable(canceled) /\ CanComplete(outcome) /\ offers' = CompletedOffers(outcome)
      /\ requests' = [r \in RequestIds |-> IF r \in canceled THEN [requests[r] EXCEPT !.state = "CANCELED"]
                                           ELSE closed[r]]
      /\ settlements' = settlements /\ now' = now
  BY DEF CancelRfqs
<1>3. /\ Closable(due) \subseteq {r \in RequestIds : requests[r].state = "ACTIVE"}
      /\ canceled \subseteq {r \in RequestIds : requests[r].state = "ACTIVE"}
  BY DEF Closable, DueRequests, ActiveRequests
<1>4. /\ \A o \in DueOffers(due) : ~Owned(o)
      /\ \A o \in ActiveFor(canceled) : ~Owned(o)
  BY <1>2 DEF DueOffers, ActiveFor, Releasable
<1>5. /\ \A o \in DOMAIN outcome : outcome[o] \in {"EXPIRED_UNEXERCISED", "USER_ABANDONED"} /\ ~Owned(o)
  BY <1>4
<1>6. closed \in [RequestIds -> Requests] /\ \A r \in RequestIds :
        closed[r] = IF r \in Closable(due) THEN [requests[r] EXCEPT !.state = "EXPIRED"] ELSE requests[r]
  <2>1. "EXPIRED" \in RequestStates
    BY DEF RequestStates
  <2> QED BY <1>1, <2>1, Resolving
<1> HIDE DEF due, canceled, outcome, closed
<1>7. \A r \in RequestIds : /\ requests[r] \in Requests
                            /\ [requests[r] EXCEPT !.state = "CANCELED"] \in Requests
                            /\ [requests[r] EXCEPT !.state = "CANCELED"].state = "CANCELED"
                            /\ [requests[r] EXCEPT !.state = "EXPIRED"].state = "EXPIRED"
  BY <1>1 DEF AdmissionTypeOK, Requests, RequestStates
<1>8. requests' \in [RequestIds -> Requests]
  BY <1>2, <1>6, <1>7
<1>9. ASSUME NEW r \in RequestIds PROVE RequestMoves(r)
  BY <1>2, <1>3, <1>6, <1>7 DEF RequestMoves
<1>10. \A o \in DOMAIN outcome : outcome[o] \in Outcomes /\ Decides(o, outcome[o])
  BY <1>5 DEF Outcomes, Decides
<1> QED BY <1>2, <1>8, <1>9, <1>10, CompleteMoves

\* Resolving a request by hand never exercises it: an offer already filled has exercised
\* it, so the request is no longer active.
LEMMA ResolveMoves ==
  ASSUME AdmissionInv, NEW r \in RequestIds, NEW state \in {"EXERCISED", "ABANDONED"}, ResolveRfq(r, state)
  PROVE  Moves
<1> DEFINE outcome == All(ActiveFor({r}), "USER_ABANDONED")
<1>1. AdmissionTypeOK
  BY DEF AdmissionInv
<1>2. /\ Releasable({r}) /\ CanComplete(outcome) /\ offers' = CompletedOffers(outcome)
      /\ requests' = ResolvedRequests({r}, state) /\ requests[r].state = "ACTIVE"
      /\ settlements' = settlements /\ now' = now
      /\ state = "EXERCISED" => \E o \in OffersOf(r) : offers[o].state = "FILLED"
  BY DEF ResolveRfq
<1>3. state = "ABANDONED"
  <2>1. \A o \in OfferIds : offers[o].state = "FILLED" => requests[OfferTerms[o].request].state = "EXERCISED"
    BY DEF AdmissionInv, OfferDecided
  <2>2. \A o \in OffersOf(r) : o \in OfferIds /\ OfferTerms[o].request = r
    BY DEF OffersOf
  <2> QED BY <1>2, <2>1, <2>2
<1>4. \A o \in DOMAIN outcome : outcome[o] = "USER_ABANDONED" /\ ~Owned(o)
  BY <1>2 DEF All, ActiveFor, Releasable
<1> HIDE DEF outcome
<1>5. \A o \in DOMAIN outcome : outcome[o] \in Outcomes /\ Decides(o, outcome[o])
  BY <1>4 DEF Outcomes, Decides
<1>6. /\ requests' \in [RequestIds -> Requests]
      /\ \A q \in RequestIds :
           requests'[q] = IF q \in {r} THEN [requests[q] EXCEPT !.state = state] ELSE requests[q]
  <2>1. state \in RequestStates
    BY DEF RequestStates
  <2>2. requests' = ResolvedRequests({r}, state)
    BY <1>2
  <2> QED BY <1>1, <2>1, <2>2, Resolving
<1>7. \A q \in RequestIds : [requests[q] EXCEPT !.state = "ABANDONED"].state = "ABANDONED"
  BY <1>1 DEF AdmissionTypeOK, Requests
<1>8. ASSUME NEW q \in RequestIds PROVE RequestMoves(q)
  BY <1>2, <1>3, <1>6, <1>7 DEF RequestMoves
<1> QED BY <1>2, <1>5, <1>6, <1>8, CompleteMoves

\* An offer no settlement selected, decided by hand.
LEMMA UnownedMoves ==
  ASSUME AdmissionInv, NEW o \in OfferIds, NEW result \in {"SOLVER_FAILED", "EXPIRED_UNEXERCISED", "USER_ABANDONED"},
         RecordUnownedOutcome(o, result)
  PROVE  Moves
<1> DEFINE outcome == All({o}, result)
<1>1. /\ ~Owned(o) /\ CanComplete(outcome) /\ offers' = CompletedOffers(outcome)
      /\ requests' = requests /\ settlements' = settlements /\ now' = now
  BY DEF RecordUnownedOutcome
<1>2. \A p \in DOMAIN outcome : outcome[p] = result /\ p = o
  BY DEF All
<1> HIDE DEF outcome
<1>3. \A p \in DOMAIN outcome : outcome[p] \in Outcomes /\ Decides(p, outcome[p])
  BY <1>1, <1>2 DEF Outcomes, Decides
<1>4. requests' \in [RequestIds -> Requests] /\ \A q \in RequestIds : RequestMoves(q)
  BY <1>1 DEF AdmissionInv, AdmissionTypeOK, RequestMoves
<1> QED BY <1>1, <1>3, <1>4, CompleteMoves

\* The settlement's own outcome: the offer it owns, its rivals (none of them owned) and the
\* request in one transaction.
LEMMA ReconciledMoves ==
  ASSUME AdmissionInv, NEW o \in OfferIds, NEW result \in {"FILLED", "USER_ABANDONED"},
         RecordReconciledOutcome(o, result)
  PROVE  Moves
<1> DEFINE r == OfferTerms[o].request
           outcome == [p \in ActiveFor({r}) \cup {o} |-> IF p = o THEN result ELSE "USER_ABANDONED"]
<1>1. AdmissionTypeOK /\ r \in RequestIds
  BY AdmissionAssumption DEF AdmissionInv
<1>2. PICK state \in {"EXERCISED", "ABANDONED"} :
        /\ state = IF result = "FILLED" THEN "EXERCISED" ELSE "ABANDONED"
        /\ requests' = ResolvedRequests({r}, state)
  BY DEF RecordReconciledOutcome
<1>3. /\ Owned(o) /\ CanComplete(outcome) /\ offers' = CompletedOffers(outcome)
      /\ requests[r].state = "ACTIVE" /\ settlements' = settlements /\ now' = now
      /\ \A p \in ActiveFor({r}) \ {o} : ~Owned(p)
      /\ \/ result = "FILLED" /\ settlements[o].state = "COMPLETED"
         \/ result = "USER_ABANDONED" /\ settlements[o].state = "UNFILLED"
  BY DEF RecordReconciledOutcome, WithoutFill
<1>4. /\ DOMAIN outcome = ActiveFor({r}) \cup {o} /\ outcome[o] = result
      /\ \A p \in ActiveFor({r}) \ {o} : outcome[p] = "USER_ABANDONED"
  OBVIOUS
<1>5. /\ requests' \in [RequestIds -> Requests]
      /\ \A q \in RequestIds :
           requests'[q] = IF q \in {r} THEN [requests[q] EXCEPT !.state = state] ELSE requests[q]
  <2>1. state \in RequestStates
    BY DEF RequestStates
  <2> QED BY <1>1, <1>2, <2>1, Resolving
<1>6. [requests[r] EXCEPT !.state = state].state = state
  BY <1>1 DEF AdmissionTypeOK, Requests
<1>7. requests'[r].state = state
  BY <1>1, <1>5, <1>6
<1> HIDE DEF outcome
<1>8. ASSUME NEW p \in DOMAIN outcome PROVE outcome[p] \in Outcomes /\ Decides(p, outcome[p])
  <2>1. CASE p = o
    BY <1>2, <1>3, <1>4, <1>7, <2>1 DEF Outcomes, Decides, RequestOf
  <2>2. CASE p # o
    BY <1>3, <1>4, <2>2 DEF Outcomes, Decides
  <2> QED BY <2>1, <2>2
<1>9. \A p \in DOMAIN outcome : outcome[p] \in Outcomes
  BY <1>8
<1>10. result = "FILLED" => offers'[o].state = "FILLED"
  <2>1. offers'[o] = Completed(o, outcome[o])
    BY <1>1, <1>3, <1>4, <1>9, Completing
  <2>2. Completed(o, "FILLED").state = "FILLED"
    BY <1>1 DEF Completed, AdmissionTypeOK, Offers
  <2> QED BY <1>4, <2>1, <2>2
<1>11. ASSUME NEW q \in RequestIds PROVE RequestMoves(q)
  <2>1. CASE q # r
    BY <1>5, <2>1 DEF RequestMoves
  <2>2. CASE q = r /\ result = "FILLED"
    <3>1. /\ requests[q].state = "ACTIVE" /\ requests'[q].state = "EXERCISED" /\ settlements' = settlements
          /\ RequestOf(o) = q /\ Owned(o) /\ offers'[o].state = "FILLED"
      BY <1>2, <1>3, <1>7, <1>10, <2>2 DEF RequestOf
    <3> QED BY <3>1 DEF RequestMoves
  <2>3. CASE q = r /\ result # "FILLED"
    BY <1>2, <1>3, <1>7, <2>3 DEF RequestMoves
  <2> QED BY <2>1, <2>2, <2>3
<1> HIDE DEF r
<1> QED BY <1>3, <1>5, <1>8, <1>9, <1>11, CompleteMoves

\* The restart sweep releases expired offers that no settlement owns and closes requests
\* that are still active.
LEMMA RestartMoves ==
  ASSUME AdmissionInv, ReconcileRfqFinalizationRestart
  PROVE  Moves
<1> DEFINE due == {o \in ActiveOffers : OfferTerms[o].expiresAt <= now /\ ~Owned(o)}
<1>1. AdmissionTypeOK
  BY DEF AdmissionInv
<1>2. PICK released \in Batches(due, OfferTerms) :
        /\ CanComplete(All(released, "EXPIRED_UNEXERCISED"))
        /\ offers' = CompletedOffers(All(released, "EXPIRED_UNEXERCISED"))
        /\ \E closed \in Batches(EmptyRequests(released), RequestTerms) :
             requests' = ResolvedRequests(closed, "EXPIRED")
  BY DEF ReconcileRfqFinalizationRestart
<1>3. PICK closed \in Batches(EmptyRequests(released), RequestTerms) :
        requests' = ResolvedRequests(closed, "EXPIRED")
  BY <1>2
<1>4. settlements' = settlements /\ now' = now
  BY DEF ReconcileRfqFinalizationRestart
<1>5. (\A o \in released : ~Owned(o)) /\ closed \subseteq {r \in RequestIds : requests[r].state = "ACTIVE"}
  BY <1>2, <1>3 DEF Batches, EmptyRequests, DueRequests
<1> DEFINE outcome == All(released, "EXPIRED_UNEXERCISED")
<1>6. \A o \in DOMAIN outcome : outcome[o] = "EXPIRED_UNEXERCISED" /\ ~Owned(o)
  BY <1>5 DEF All
<1>7. CanComplete(outcome) /\ offers' = CompletedOffers(outcome)
  BY <1>2
<1> HIDE DEF outcome, due
<1>8. \A o \in DOMAIN outcome : outcome[o] \in Outcomes /\ Decides(o, outcome[o])
  BY <1>6 DEF Outcomes, Decides
<1>9. /\ requests' \in [RequestIds -> Requests]
      /\ \A q \in RequestIds :
           requests'[q] = IF q \in closed THEN [requests[q] EXCEPT !.state = "EXPIRED"] ELSE requests[q]
  <2>1. "EXPIRED" \in RequestStates
    BY DEF RequestStates
  <2> QED BY <1>1, <1>3, <2>1, Resolving
<1>10. \A q \in RequestIds : [requests[q] EXCEPT !.state = "EXPIRED"].state = "EXPIRED"
  BY <1>1 DEF AdmissionTypeOK, Requests
<1>11. ASSUME NEW q \in RequestIds PROVE RequestMoves(q)
  BY <1>5, <1>9, <1>10 DEF RequestMoves
<1> QED BY <1>4, <1>7, <1>8, <1>9, <1>11, CompleteMoves

\* Binding an offer's execution stamps it once.
LEMMA BindMoves ==
  ASSUME AdmissionInv, NEW o \in OfferIds, BindFirmOfferExecution(o)
  PROVE  Moves
<1>1. AdmissionTypeOK /\ now \in Int
  BY DEF AdmissionInv, AdmissionTypeOK
<1> DEFINE bound == [offers[o] EXCEPT !.finalizedAt = now]
<1>2. bound \in Offers
  BY <1>1 DEF AdmissionTypeOK, Offers
<1>3. /\ offers' = [offers EXCEPT ![o] = bound] /\ requests' = requests /\ settlements' = settlements /\ now' = now
      /\ offers[o].state = "ACTIVE" /\ now >= offers[o].reservedAt /\ offers[o].finalizedAt = Never
  BY <1>1 DEF BindFirmOfferExecution, AdmissionTypeOK
<1>4. offers' \in [OfferIds -> Offers] /\ offers'[o] = bound /\ \A p \in OfferIds \ {o} : offers'[p] = offers[p]
  <2> HIDE DEF bound
  <2> QED BY <1>1, <1>2, <1>3 DEF AdmissionTypeOK
<1>5. OfferMoves(o)
  BY <1>3, <1>4 DEF OfferMoves
<1>6. \A p \in OfferIds : OfferMoves(p)
  BY <1>4, <1>5 DEF OfferMoves
<1>7. \A p \in OfferIds : SettlementMoves(p)
  BY <1>3 DEF SettlementMoves
<1>8. \A r \in RequestIds : RequestMoves(r)
  BY <1>3 DEF RequestMoves
<1>9. /\ now' \in Nat /\ now <= now' /\ settlements' \in [OfferIds -> Settlements]
      /\ requests' \in [RequestIds -> Requests]
  BY <1>1, <1>3 DEF AdmissionTypeOK
<1> QED BY <1>4, <1>6, <1>7, <1>8, <1>9 DEF Moves

\* Authorizing an offer, on its own or with the settlement it authorizes.
LEMMA AuthorizedTyped ==
  ASSUME AdmissionTypeOK, NEW o \in OfferIds, NEW expiresAt \in AuthorizationExpiries,
         offers' = [offers EXCEPT ![o] = Authorized(o, expiresAt)]
  PROVE  /\ offers' \in [OfferIds -> Offers] /\ offers'[o] = Authorized(o, expiresAt)
         /\ \A p \in OfferIds \ {o} : offers'[p] = offers[p]
         /\ offers'[o].state = offers[o].state /\ offers'[o].authorizedAt = now
         /\ offers'[o].authorizationExpiresAt = expiresAt
<1>1. now \in Int /\ expiresAt \in Int /\ offers[o] \in Offers
  BY AdmissionAssumption DEF AdmissionTypeOK, AuthorizationExpiries
<1> DEFINE bound == Authorized(o, expiresAt)
<1>2. bound \in Offers /\ bound.state = offers[o].state /\ bound.authorizedAt = now /\ bound.authorizationExpiresAt = expiresAt
  BY <1>1 DEF Authorized, Offers
<1>3. offers' = [offers EXCEPT ![o] = bound]
  OBVIOUS
<1> HIDE DEF bound
<1>4. offers' \in [OfferIds -> Offers] /\ offers'[o] = bound /\ \A p \in OfferIds \ {o} : offers'[p] = offers[p]
  BY <1>2, <1>3 DEF AdmissionTypeOK
<1>5. offers'[o] = Authorized(o, expiresAt)
  BY <1>4 DEF bound
<1> QED BY <1>2, <1>4, <1>5

\* An authorization on its own, given once.
LEMMA AuthorizeMoves ==
  ASSUME AdmissionInv, NEW o \in OfferIds, NEW expiresAt \in AuthorizationExpiries,
         BindFirmOfferUserAuthorization(o, expiresAt)
  PROVE  Moves
<1>1. AdmissionTypeOK
  BY DEF AdmissionInv
<1>2. /\ offers' = [offers EXCEPT ![o] = Authorized(o, expiresAt)] /\ Authorizable(o, expiresAt)
      /\ offers[o].authorizedAt = Never /\ requests' = requests /\ settlements' = settlements /\ now' = now
  BY DEF BindFirmOfferUserAuthorization
<1>3. /\ offers' \in [OfferIds -> Offers] /\ offers'[o] = Authorized(o, expiresAt)
      /\ \A p \in OfferIds \ {o} : offers'[p] = offers[p]
  BY <1>1, <1>2, AuthorizedTyped
<1>4. OfferMoves(o)
  BY <1>2, <1>3 DEF OfferMoves
<1>5. \A p \in OfferIds : OfferMoves(p) /\ SettlementMoves(p)
  BY <1>2, <1>3, <1>4 DEF OfferMoves, SettlementMoves
<1>6. \A r \in RequestIds : RequestMoves(r)
  BY <1>2 DEF RequestMoves
<1>7. /\ now' \in Nat /\ now <= now' /\ settlements' \in [OfferIds -> Settlements]
      /\ requests' \in [RequestIds -> Requests]
  BY <1>1, <1>2 DEF AdmissionTypeOK
<1> QED BY <1>3, <1>5, <1>6, <1>7 DEF Moves

\* A new settlement is typed and the only one that changes.
LEMMA SettlementTyped ==
  ASSUME AdmissionTypeOK, NEW o \in OfferIds, settlements' = [settlements EXCEPT ![o] = NewSettlement]
  PROVE  /\ settlements' \in [OfferIds -> Settlements] /\ settlements'[o] = NewSettlement
         /\ \A p \in OfferIds \ {o} : settlements'[p] = settlements[p]
<1>1. NewSettlement \in Settlements
  BY DEF AdmissionTypeOK, Settlements, NewSettlement
<1> QED BY <1>1 DEF AdmissionTypeOK

\* A settlement for an offer that carries its authorization, or for one unknown here.
LEMMA AcceptMoves ==
  ASSUME AdmissionInv, NEW o \in OfferIds, AcceptSettlement(o)
  PROVE  Moves
<1>1. AdmissionTypeOK
  BY DEF AdmissionInv
<1>2. /\ ~Owned(o) /\ Acceptable(o, offers[o]) /\ settlements' = [settlements EXCEPT ![o] = NewSettlement]
      /\ offers' = offers /\ requests' = requests /\ now' = now
  BY DEF AcceptSettlement
<1>3. /\ settlements' \in [OfferIds -> Settlements] /\ settlements'[o] = NewSettlement
      /\ \A p \in OfferIds \ {o} : settlements'[p] = settlements[p]
  BY <1>1, <1>2, SettlementTyped
<1>4. \/ offers[o].state = "NONE"
      \/ /\ ~\E p \in OffersOf(RequestOf(o)) : Owned(p)
         /\ offers[o].state = "ACTIVE" /\ offers[o].authorizedAt # Never
         /\ offers[o].authorizedAt <= now /\ offers[o].authorizationExpiresAt > now
  BY <1>2 DEF Acceptable, RequestOf
<1>5. now < offers[o].authorizationExpiresAt <=> offers[o].authorizationExpiresAt > now
  BY <1>1 DEF AdmissionTypeOK, Offers
<1>6. SettlementMoves(o)
  BY <1>2, <1>3, <1>4, <1>5 DEF SettlementMoves
<1>7. \A p \in OfferIds : SettlementMoves(p) /\ OfferMoves(p)
  BY <1>2, <1>3, <1>6 DEF SettlementMoves, OfferMoves
<1>8. \A r \in RequestIds : RequestMoves(r)
  BY <1>2 DEF RequestMoves
<1>9. /\ now' \in Nat /\ now <= now' /\ offers' \in [OfferIds -> Offers] /\ requests' \in [RequestIds -> Requests]
  BY <1>1, <1>2 DEF AdmissionTypeOK
<1> QED BY <1>3, <1>7, <1>8, <1>9 DEF Moves

\* Authorization and settlement in one transaction.
LEMMA AcceptAuthorizedMoves ==
  ASSUME AdmissionInv, NEW o \in OfferIds, NEW expiresAt \in AuthorizationExpiries,
         AcceptAuthorizedFirmOfferSettlement(o, expiresAt)
  PROVE  Moves
<1>1. AdmissionTypeOK
  BY DEF AdmissionInv
<1>2. /\ ~Owned(o) /\ Acceptable(o, Authorized(o, expiresAt)) /\ Authorizable(o, expiresAt)
      /\ settlements' = [settlements EXCEPT ![o] = NewSettlement]
      /\ offers' = [offers EXCEPT ![o] = Authorized(o, expiresAt)] /\ requests' = requests /\ now' = now
  BY DEF AcceptAuthorizedFirmOfferSettlement
<1>3. /\ settlements' \in [OfferIds -> Settlements] /\ settlements'[o] = NewSettlement
      /\ \A p \in OfferIds \ {o} : settlements'[p] = settlements[p]
  BY <1>1, <1>2, SettlementTyped
<1>4. /\ offers' \in [OfferIds -> Offers] /\ offers'[o] = Authorized(o, expiresAt)
      /\ \A p \in OfferIds \ {o} : offers'[p] = offers[p]
      /\ offers'[o].state = offers[o].state /\ offers'[o].authorizedAt = now
      /\ offers'[o].authorizationExpiresAt = expiresAt
  BY <1>1, <1>2, AuthorizedTyped
<1>5. offers[o].state = "ACTIVE" /\ expiresAt > now
  BY <1>2 DEF Authorizable
<1>6. ~\E p \in OffersOf(RequestOf(o)) : Owned(p)
  BY <1>2, <1>4, <1>5 DEF Acceptable, RequestOf
<1>7. now # Never /\ now <= now /\ now < expiresAt
  BY <1>1, <1>5, AdmissionAssumption DEF AdmissionTypeOK, Never, AuthorizationExpiries
<1>8. SettlementMoves(o)
  BY <1>2, <1>3, <1>4, <1>5, <1>6, <1>7 DEF SettlementMoves
<1>9. OfferMoves(o)
  BY <1>2, <1>4 DEF OfferMoves
<1>10. \A p \in OfferIds : SettlementMoves(p) /\ OfferMoves(p)
  BY <1>3, <1>4, <1>8, <1>9 DEF SettlementMoves, OfferMoves
<1>11. \A r \in RequestIds : RequestMoves(r)
  BY <1>2 DEF RequestMoves
<1>12. now' \in Nat /\ now <= now' /\ requests' \in [RequestIds -> Requests]
  BY <1>1, <1>2 DEF AdmissionTypeOK
<1> QED BY <1>3, <1>4, <1>10, <1>11, <1>12 DEF Moves

\* A terminal ends one open settlement.
LEMMA TerminalMoves ==
  ASSUME AdmissionInv, NEW o \in OfferIds, NEW state \in Terminals, RecordTerminal(o, state)
  PROVE  Moves
<1>1. AdmissionTypeOK
  BY DEF AdmissionInv
<1> DEFINE ended == [settlements[o] EXCEPT !.state = state, !.updatedAt = now]
<1>2. /\ settlements[o].state = "OPEN" /\ settlements' = [settlements EXCEPT ![o] = ended]
      /\ offers' = offers /\ requests' = requests /\ now' = now
  BY <1>1 DEF RecordTerminal, AdmissionTypeOK, Settlements
<1>3. ended \in Settlements /\ ended.state = state /\ ended.createdAt = settlements[o].createdAt
  <2>1. now \in Int /\ settlements[o] \in Settlements /\ state \in {"NONE", "OPEN", "COMPLETED", "UNFILLED"}
    BY <1>1 DEF AdmissionTypeOK, Terminals
  <2> QED BY <2>1 DEF Settlements
<1> HIDE DEF ended
<1>4. /\ settlements' \in [OfferIds -> Settlements] /\ settlements'[o] = ended
      /\ \A p \in OfferIds \ {o} : settlements'[p] = settlements[p]
  BY <1>1, <1>2, <1>3 DEF AdmissionTypeOK
<1>5. SettlementMoves(o)
  BY <1>2, <1>3, <1>4 DEF SettlementMoves
<1>6. \A p \in OfferIds : SettlementMoves(p) /\ OfferMoves(p)
  BY <1>2, <1>4, <1>5 DEF SettlementMoves, OfferMoves
<1>7. \A r \in RequestIds : RequestMoves(r)
  BY <1>2 DEF RequestMoves
<1>8. /\ now' \in Nat /\ now <= now' /\ offers' \in [OfferIds -> Offers] /\ requests' \in [RequestIds -> Requests]
  BY <1>1, <1>2 DEF AdmissionTypeOK
<1> QED BY <1>4, <1>6, <1>7, <1>8 DEF Moves

\* A snapshot, a tick and a stutter leave the three tables alone.
LEMMA IdleMoves ==
  ASSUME AdmissionInv, UNCHANGED <<requests, offers, settlements>>, now' = now \/ now' = now + 1
  PROVE  Moves
<1>1. AdmissionTypeOK
  BY DEF AdmissionInv
<1>2. now' \in Nat /\ now <= now'
  BY <1>1 DEF AdmissionTypeOK
<1>3. /\ settlements' \in [OfferIds -> Settlements]
      /\ offers' \in [OfferIds -> Offers] /\ requests' \in [RequestIds -> Requests]
  BY <1>1 DEF AdmissionTypeOK
<1>4. /\ \A o \in OfferIds : OfferMoves(o) /\ SettlementMoves(o)
      /\ \A r \in RequestIds : RequestMoves(r)
  BY DEF OfferMoves, SettlementMoves, RequestMoves
<1> QED BY <1>2, <1>3, <1>4 DEF Moves

\* Every step is made of moves.
LEMMA StepMoves ==
  ASSUME AdmissionInv, [AdmissionNext]_admissionVars
  PROVE  Moves
<1>1. CASE \E r \in RequestIds : AdmitRfq(r)
  BY <1>1, AdmitMoves
<1>2. CASE \E r \in RequestIds : ReadmitRfq(r)
  <2>1. PICK r \in RequestIds : ReadmitRfq(r)
    BY <1>2
  <2> DEFINE due == DueRequests({RequestTerms[r].identity})
  <2>2. /\ due \subseteq {q \in RequestIds : requests[q].state = "ACTIVE"}
        /\ CanComplete(All(DueOffers(due), "EXPIRED_UNEXERCISED"))
        /\ offers' = CompletedOffers(All(DueOffers(due), "EXPIRED_UNEXERCISED"))
        /\ requests' = ResolvedRequests(Closable(due), "EXPIRED")
        /\ settlements' = settlements /\ now' = now
    BY <2>1 DEF ReadmitRfq, DueRequests
  <2> HIDE DEF due
  <2> QED BY <2>2, ExpiryMoves
<1>3. CASE \E i \in Identities, sequence \in CancellationSequences : CancelRfqs(i, sequence)
  BY <1>3, CancelMoves
<1>4. CASE ExpireRfqs
  <2>1. PICK due \in Batches(DueRequests(Identities), RequestTerms) :
          /\ CanComplete(All(DueOffers(due), "EXPIRED_UNEXERCISED"))
          /\ offers' = CompletedOffers(All(DueOffers(due), "EXPIRED_UNEXERCISED"))
          /\ requests' = ResolvedRequests(Closable(due), "EXPIRED")
          /\ settlements' = settlements /\ now' = now
    BY <1>4 DEF ExpireRfqs
  <2>2. due \subseteq {q \in RequestIds : requests[q].state = "ACTIVE"}
    BY DEF Batches, DueRequests
  <2> QED BY <2>1, <2>2, ExpiryMoves
<1>5. CASE \E r \in RequestIds, state \in {"EXERCISED", "ABANDONED"} : ResolveRfq(r, state)
  BY <1>5, ResolveMoves
<1>6. CASE \E c \in Snapshots : RecordSolverCapacity(c)
  BY <1>6, IdleMoves DEF RecordSolverCapacity
<1>7. CASE \E o \in OfferIds : ReserveVerifiedFirmOffer(o)
  BY <1>7, ReserveMoves
<1>8. CASE \E o \in OfferIds : BindFirmOfferExecution(o)
  BY <1>8, BindMoves
<1>9. CASE \E o \in OfferIds, expiresAt \in AuthorizationExpiries : BindFirmOfferUserAuthorization(o, expiresAt)
  BY <1>9, AuthorizeMoves
<1>10. CASE \E o \in OfferIds : AcceptSettlement(o)
  BY <1>10, AcceptMoves
<1>11. CASE \E o \in OfferIds, expiresAt \in AuthorizationExpiries : AcceptAuthorizedFirmOfferSettlement(o, expiresAt)
  BY <1>11, AcceptAuthorizedMoves
<1>12. CASE \E o \in OfferIds, state \in Terminals : RecordTerminal(o, state)
  BY <1>12, TerminalMoves
<1>13. CASE \E o \in OfferIds, outcome \in {"SOLVER_FAILED", "EXPIRED_UNEXERCISED", "USER_ABANDONED"} :
              RecordUnownedOutcome(o, outcome)
  BY <1>13, UnownedMoves
<1>14. CASE \E o \in OfferIds, outcome \in {"FILLED", "USER_ABANDONED"} : RecordReconciledOutcome(o, outcome)
  BY <1>14, ReconciledMoves
<1>15. CASE ReconcileRfqFinalizationRestart
  BY <1>15, RestartMoves
<1>16. CASE Tick
  BY <1>16, IdleMoves DEF Tick
<1>17. CASE UNCHANGED admissionVars
  BY <1>17, IdleMoves DEF admissionVars
<1> QED BY <1>1, <1>2, <1>3, <1>4, <1>5, <1>6, <1>7, <1>8, <1>9, <1>10, <1>11, <1>12, <1>13, <1>14, <1>15, <1>16,
           <1>17 DEF AdmissionNext

-------------------------------------------------------------------------------
\* What the moves say of one offer's fields.
LEMMA OfferFields ==
  ASSUME AdmissionTypeOK, NEW o \in OfferIds
  PROVE  /\ \A x \in Outcomes :
              /\ Completed(o, x).state = x /\ Completed(o, x).reservedAt = offers[o].reservedAt
              /\ Completed(o, x).finalizedAt = offers[o].finalizedAt
              /\ Completed(o, x).authorizedAt = offers[o].authorizedAt
              /\ Completed(o, x).authorizationExpiresAt = offers[o].authorizationExpiresAt
         /\ LET reserved == [NoOffer EXCEPT !.state = "ACTIVE", !.reservedAt = now]
            IN reserved.state = "ACTIVE" /\ reserved.reservedAt = now /\ reserved.finalizedAt = Never
               /\ reserved.authorizedAt = Never
         /\ LET bound == [offers[o] EXCEPT !.finalizedAt = now]
            IN /\ bound.state = offers[o].state /\ bound.reservedAt = offers[o].reservedAt
               /\ bound.finalizedAt = now /\ bound.authorizedAt = offers[o].authorizedAt
               /\ bound.authorizationExpiresAt = offers[o].authorizationExpiresAt
         /\ \A e \in AuthorizationExpiries :
              /\ Authorized(o, e).state = offers[o].state /\ Authorized(o, e).reservedAt = offers[o].reservedAt
              /\ Authorized(o, e).finalizedAt = offers[o].finalizedAt
              /\ Authorized(o, e).authorizedAt = now /\ Authorized(o, e).authorizationExpiresAt = e
<1>1. offers[o] \in Offers
  BY DEF AdmissionTypeOK
<1> QED BY <1>1 DEF Completed, Authorized, NoOffer, Offers, Outcomes

\* An offer's stamps stay in order.
LEMMA KeepsOrder ==
  ASSUME AdmissionInv, Moves, NEW o \in OfferIds
  PROVE  OfferOrdered(o)'
<1>1. /\ now \in Nat /\ now' \in Nat /\ now <= now' /\ offers[o] \in Offers /\ offers'[o] \in Offers
      /\ OfferMoves(o) /\ OfferOrdered(o) /\ AdmissionTypeOK
  BY DEF AdmissionInv, AdmissionTypeOK, Moves
<1>2. /\ now \in Int /\ now' \in Int /\ offers[o].reservedAt \in Int /\ offers[o].finalizedAt \in Int
      /\ offers[o].authorizedAt \in Int /\ offers[o].authorizationExpiresAt \in Int
      /\ OfferTerms[o].selectionExpiresAt \in Int
  BY <1>1, AdmissionAssumption DEF Offers
<1>3. CASE offers'[o] = offers[o]
  BY <1>1, <1>2, <1>3 DEF OfferOrdered
<1>4. CASE \E outcome \in Outcomes : offers[o].state = "ACTIVE" /\ offers'[o] = Completed(o, outcome)
  BY <1>1, <1>2, <1>4, OfferFields DEF OfferOrdered
<1>5. CASE offers'[o] = [NoOffer EXCEPT !.state = "ACTIVE", !.reservedAt = now]
  BY <1>1, <1>2, <1>5, OfferFields DEF OfferOrdered, Never
<1>6. CASE /\ offers[o].state = "ACTIVE" /\ now >= offers[o].reservedAt /\ offers[o].finalizedAt = Never
           /\ offers'[o] = [offers[o] EXCEPT !.finalizedAt = now]
  BY <1>1, <1>2, <1>6, OfferFields DEF OfferOrdered, Never
<1>7. CASE \E e \in AuthorizationExpiries : Authorizable(o, e) /\ offers'[o] = Authorized(o, e)
  BY <1>1, <1>2, <1>7, OfferFields DEF OfferOrdered, Authorizable, Never
<1> QED BY <1>1, <1>3, <1>4, <1>5, <1>6, <1>7 DEF OfferMoves

\* A settlement follows the authorization of the offer it owns.
LEMMA KeepsOwnership ==
  ASSUME AdmissionInv, Moves, NEW o \in OfferIds
  PROVE  OwnedInOrder(o)'
<1>1. /\ now \in Int /\ now' \in Int /\ now <= now' /\ offers[o] \in Offers /\ offers'[o] \in Offers
      /\ OfferMoves(o) /\ SettlementMoves(o) /\ OwnedInOrder(o) /\ OfferOrdered(o) /\ AdmissionTypeOK
      /\ settlements[o] \in Settlements
  BY DEF AdmissionInv, AdmissionTypeOK, Moves
<1>2. CASE /\ ~Owned(o) /\ settlements'[o] = NewSettlement
           /\ \/ offers[o].state = "NONE" /\ offers'[o] = offers[o]
              \/ /\ offers'[o].authorizedAt # Never
                 /\ offers'[o].authorizedAt <= now /\ now < offers'[o].authorizationExpiresAt
  <2>1. NewSettlement.createdAt = now
    BY DEF NewSettlement
  <2> QED BY <1>1, <1>2, <2>1 DEF OwnedInOrder
<1>3. CASE /\ settlements[o].state = "OPEN" /\ offers'[o] = offers[o]
           /\ settlements'[o].createdAt = settlements[o].createdAt
  BY <1>1, <1>3 DEF OwnedInOrder, Owned
<1>4. CASE settlements'[o] = settlements[o]
  <2>1. Owned(o)' <=> Owned(o)
    BY <1>4 DEF Owned
  <2>2. CASE offers'[o] = offers[o]
    BY <1>1, <1>4, <2>1, <2>2 DEF OwnedInOrder
  <2>3. CASE \E outcome \in Outcomes : offers[o].state = "ACTIVE" /\ offers'[o] = Completed(o, outcome)
    BY <1>1, <1>4, <2>1, <2>3, OfferFields DEF OwnedInOrder
  <2>4. CASE ~Preclaimed(o)
    BY <2>1, <2>4 DEF OwnedInOrder, Preclaimed
  <2>5. CASE /\ offers[o].state = "ACTIVE" /\ offers'[o] = [offers[o] EXCEPT !.finalizedAt = now]
    BY <1>1, <1>4, <2>1, <2>5, OfferFields DEF OwnedInOrder
  <2>6. CASE (offers[o].authorizedAt = Never \/ ~Owned(o)) /\ \E e \in AuthorizationExpiries : Authorizable(o, e)
    <3>1. offers[o].state = "ACTIVE"
      BY <2>6 DEF Authorizable
    <3>2. ~Owned(o)
      BY <1>1, <2>6, <3>1 DEF OwnedInOrder
    <3> QED BY <2>1, <3>2 DEF OwnedInOrder
  <2> QED BY <1>1, <2>2, <2>3, <2>4, <2>5, <2>6 DEF OfferMoves
<1> QED BY <1>1, <1>2, <1>3, <1>4 DEF SettlementMoves

\* The settlement that owns an offer decides it.
LEMMA KeepsDecision ==
  ASSUME AdmissionInv, Moves, NEW o \in OfferIds
  PROVE  OfferDecided(o)'
<1> DEFINE r == OfferTerms[o].request
<1>1. /\ OfferMoves(o) /\ SettlementMoves(o) /\ OfferDecided(o) /\ AdmissionTypeOK /\ r \in RequestIds /\ RequestMoves(r)
      /\ offers[o] \in Offers /\ settlements[o] \in Settlements
  BY AdmissionAssumption DEF AdmissionInv, AdmissionTypeOK, Moves
<1>2. offers[o].state = "FILLED" => requests'[r].state = "EXERCISED"
  BY <1>1 DEF OfferDecided, RequestMoves
<1>3. CASE offers'[o] = offers[o]
  <2>1. Owned(o) => settlements'[o].state # "NONE"
    BY <1>1 DEF SettlementMoves, NewSettlement, Terminals, Owned
  <2>2. CASE settlements'[o] = settlements[o]
    BY <1>1, <1>2, <1>3, <2>2 DEF OfferDecided, Owned
  <2>3. CASE settlements[o].state = "OPEN" /\ settlements'[o].state \in Terminals
    BY <1>1, <1>2, <1>3, <2>3 DEF OfferDecided, Owned, Terminals
  <2>4. CASE ~Owned(o) /\ offers[o].state \in {"NONE", "ACTIVE"}
    BY <1>1, <1>2, <1>3, <2>4 DEF OfferDecided, Owned
  <2> QED BY <1>1, <2>2, <2>3, <2>4 DEF SettlementMoves
<1>4. CASE /\ offers[o].state = "ACTIVE" /\ settlements'[o] = settlements[o]
           /\ \E outcome \in Outcomes : Decides(o, outcome) /\ offers'[o] = Completed(o, outcome)
  <2>1. PICK outcome \in Outcomes : Decides(o, outcome) /\ offers'[o] = Completed(o, outcome)
    BY <1>4
  <2>2. offers'[o].state = outcome
    BY <1>1, <2>1, OfferFields
  <2>3. Owned(o)' <=> Owned(o)
    BY <1>4 DEF Owned
  <2> QED BY <1>4, <2>1, <2>2, <2>3 DEF OfferDecided, Decides, RequestOf, Owned
<1>5. CASE offers'[o] = [NoOffer EXCEPT !.state = "ACTIVE", !.reservedAt = now]
  BY <1>1, <1>5, OfferFields DEF OfferDecided
<1>6. CASE offers[o].state = "ACTIVE" /\ offers'[o] = [offers[o] EXCEPT !.finalizedAt = now]
  BY <1>1, <1>6, OfferFields DEF OfferDecided
<1>7. CASE \E e \in AuthorizationExpiries : Authorizable(o, e) /\ offers'[o] = Authorized(o, e)
  BY <1>1, <1>7, OfferFields DEF OfferDecided, Authorizable
<1> HIDE DEF r
<1> QED BY <1>1, <1>3, <1>4, <1>5, <1>6, <1>7 DEF OfferMoves

\* An offer the ledger knows was known before, or no settlement names its request.
LEMMA KnownBefore ==
  ASSUME AdmissionInv, Moves, NEW o \in OfferIds, offers'[o].state # "NONE"
  PROVE  \/ offers[o].state # "NONE"
         \/ /\ ~Preclaimed(o) /\ settlements' = settlements
            /\ \A p \in OfferIds \ {o} : offers'[p].state # "NONE" => offers[p].state # "NONE"
<1>1. OfferMoves(o)
  BY DEF Moves
<1> QED BY <1>1 DEF OfferMoves, Authorizable

\* At most one offer of a request gets a settlement.
LEMMA KeepsOneOwned ==
  ASSUME AdmissionInv, Moves
  PROVE  OneOwned'
<1> SUFFICES ASSUME NEW o \in OfferIds, NEW p \in OfferIds,
                    settlements'[o].state # "NONE", offers'[o].state # "NONE",
                    settlements'[p].state # "NONE", offers'[p].state # "NONE",
                    OfferTerms[o].request = OfferTerms[p].request, o # p
             PROVE  FALSE
  BY DEF OneOwned, Owned
<1>1. OneOwned /\ SettlementMoves(o) /\ SettlementMoves(p) /\ AdmissionTypeOK
  BY DEF AdmissionInv, Moves
<1>2. offers[o].state # "NONE"
  <2>1. SUFFICES ASSUME ~Preclaimed(o), settlements' = settlements PROVE FALSE
    BY KnownBefore
  <2> QED BY <2>1 DEF Preclaimed, Owned
<1>3. offers[p].state # "NONE"
  <2>1. SUFFICES ASSUME ~Preclaimed(p), settlements' = settlements PROVE FALSE
    BY KnownBefore
  <2> QED BY <2>1 DEF Preclaimed, Owned
<1>4. o \in OffersOf(RequestOf(p)) /\ p \in OffersOf(RequestOf(o))
  BY <1>2, <1>3 DEF OffersOf, RequestOf
<1>5. ~(Owned(o) /\ Owned(p))
  BY <1>1, <1>2, <1>3 DEF OneOwned
<1>6. CASE Owned(o) /\ ~Owned(p)
  BY <1>1, <1>3, <1>4, <1>6 DEF SettlementMoves, Owned
<1>7. CASE ~Owned(o) /\ Owned(p)
  BY <1>1, <1>2, <1>4, <1>7 DEF SettlementMoves, Owned
<1>8. CASE ~Owned(o) /\ ~Owned(p)
  BY <1>1, <1>8 DEF SettlementMoves, Owned
<1> QED BY <1>5, <1>6, <1>7, <1>8

\* A request is exercised by a filled offer, and a filled offer stays so.
LEMMA KeepsExercised ==
  ASSUME AdmissionInv, Moves
  PROVE  ExercisedByFill'
<1> SUFFICES ASSUME NEW r \in RequestIds, requests'[r].state = "EXERCISED"
             PROVE  \E o \in OfferIds : OfferTerms[o].request = r /\ settlements'[o].state # "NONE" /\ offers'[o].state = "FILLED"
  BY DEF ExercisedByFill, Owned
<1>1. RequestMoves(r) /\ ExercisedByFill /\ AdmissionTypeOK
  BY DEF Moves, AdmissionInv
<1>2. CASE requests[r].state = "EXERCISED"
  <2>1. PICK o \in OfferIds : OfferTerms[o].request = r /\ Owned(o) /\ offers[o].state = "FILLED"
    BY <1>1, <1>2 DEF ExercisedByFill
  <2>2. OfferMoves(o) /\ SettlementMoves(o)
    BY DEF Moves
  <2>3. offers'[o] = offers[o]
    BY <2>1, <2>2, <1>1, OfferFields DEF OfferMoves, Authorizable
  <2>4. settlements'[o].state # "NONE"
    BY <2>1, <2>2 DEF SettlementMoves, Owned, Terminals
  <2> QED BY <2>1, <2>3, <2>4
<1>3. CASE /\ settlements' = settlements
           /\ \E o \in OfferIds : RequestOf(o) = r /\ Owned(o) /\ offers'[o].state = "FILLED"
  BY <1>3 DEF RequestOf, Owned
<1> QED BY <1>1, <1>2, <1>3 DEF RequestMoves

-------------------------------------------------------------------------------
\* Max is the element no other exceeds.
LEMMA MaxIs ==
  ASSUME NEW S, S \subseteq Nat, NEW x \in S, \A y \in S : x >= y
  PROVE  Max(S) = x
<1>1. Max(S) \in S /\ \A y \in S : Max(S) >= y
  BY DEF Max
<1>2. Max(S) >= x /\ x >= Max(S) /\ Max(S) \in Nat /\ x \in Nat
  BY <1>1
<1> QED BY <1>2

\* The cancellation sequence is one that was sent, and none sent is higher.
LEMMA HighestIs ==
  ASSUME AdmissionTypeOK, NEW i \in Identities, HighestSequence(i)
  PROVE  /\ Sequences(i) \subseteq Nat
         /\ CancellationSequence(i) \in Sequences(i)
         /\ \A y \in Sequences(i) : CancellationSequence(i) >= y
<1>1. Sequences(i) \subseteq Nat
  BY DEF AdmissionTypeOK, Sequences
<1>2. PICK x \in Sequences(i) : \A y \in Sequences(i) : x >= y
  BY DEF HighestSequence
<1>3. Max(Sequences(i)) = x
  BY <1>1, <1>2, MaxIs
<1>4. CancellationSequence(i) = Max(Sequences(i))
  BY DEF CancellationSequence, Sequences
<1> QED BY <1>1, <1>2, <1>3, <1>4

\* Only cancelRfqs adds to the cancellations.
LEMMA OnlyCancelRfqs ==
  ASSUME [AdmissionNext]_admissionVars
  PROVE  \/ cancellations' = cancellations
         \/ \E i \in Identities, sequence \in CancellationSequences : CancelRfqs(i, sequence)
BY DEF AdmissionNext, admissionVars, AdmitRfq, ReadmitRfq, ExpireRfqs, ResolveRfq, RecordSolverCapacity,
       ReserveVerifiedFirmOffer, BindFirmOfferExecution, BindFirmOfferUserAuthorization, AcceptSettlement,
       AcceptAuthorizedFirmOfferSettlement, RecordTerminal, RecordUnownedOutcome, RecordReconciledOutcome,
       ReconcileRfqFinalizationRestart, Tick

\* The cancellation part of the invariant: a step that sends no cancellation.
LEMMA KeepsCancelIdle ==
  ASSUME AdmissionInv, Moves, cancellations' = cancellations
  PROVE  /\ (cancellations \subseteq [identity : Identities, sequence : Nat, at : Nat])'
         /\ (\A i \in Identities : HighestSequence(i))' /\ CancelHolds'
<1>1. \A i \in Identities : Sequences(i)' = Sequences(i) /\ CancellationSequence(i)' = CancellationSequence(i)
  BY DEF Sequences, CancellationSequence
<1>2. (\A i \in Identities : HighestSequence(i))'
  BY <1>1 DEF AdmissionInv, HighestSequence
<1>3. ASSUME NEW r \in RequestIds, requests'[r].state = "ACTIVE"
      PROVE  RequestTerms[r].nonce > CancellationSequence(RequestTerms[r].identity)
  BY <1>3 DEF Moves, RequestMoves, AdmissionInv, CancelHolds
<1>4. CancelHolds'
  BY <1>1, <1>3, AdmissionAssumption DEF CancelHolds
<1> QED BY <1>2, <1>4 DEF AdmissionInv, AdmissionTypeOK

\* And the one that does: it closes every active request up to its sequence, which
\* exceeds all the identity sent before.
LEMMA KeepsCancel ==
  ASSUME AdmissionInv, Moves, NEW i \in Identities, NEW sequence \in CancellationSequences, CancelRfqs(i, sequence)
  PROVE  /\ (cancellations \subseteq [identity : Identities, sequence : Nat, at : Nat])'
         /\ (\A j \in Identities : HighestSequence(j))' /\ CancelHolds'
<1> DEFINE entry == [identity |-> i, sequence |-> sequence, at |-> now]
           due == DueRequests({i})
           canceled == {r \in ActiveRequests(i, Closable(due)) : RequestTerms[r].nonce <= sequence}
           closed == ResolvedRequests(Closable(due), "EXPIRED")
<1>1. /\ sequence > CancellationSequence(i) /\ cancellations' = cancellations \cup {entry}
      /\ requests' = [r \in RequestIds |-> IF r \in canceled THEN [requests[r] EXCEPT !.state = "CANCELED"]
                                           ELSE closed[r]]
  BY DEF CancelRfqs
<1>2. AdmissionTypeOK /\ sequence \in Nat
  BY AdmissionAssumption DEF AdmissionInv
<1>3. entry \in [identity : Identities, sequence : Nat, at : Nat] /\ entry.identity = i /\ entry.sequence = sequence
  BY <1>2 DEF AdmissionTypeOK
<1>4. (cancellations \subseteq [identity : Identities, sequence : Nat, at : Nat])'
  BY <1>1, <1>2, <1>3 DEF AdmissionTypeOK
<1>5. Sequences(i)' = Sequences(i) \cup {sequence}
  <2> HIDE DEF entry
  <2> QED BY <1>1, <1>3 DEF Sequences
<1>6. \A j \in Identities \ {i} : Sequences(j)' = Sequences(j)
  <2> HIDE DEF entry
  <2> QED BY <1>1, <1>3 DEF Sequences
<1>7. \A j \in Identities : /\ CancellationSequence(j) = Max(Sequences(j))
                            /\ CancellationSequence(j)' = Max(Sequences(j)')
  BY DEF CancellationSequence, Sequences
<1>8. /\ Sequences(i) \subseteq Nat /\ CancellationSequence(i) \in Sequences(i)
      /\ \A y \in Sequences(i) : CancellationSequence(i) >= y
  BY <1>2, HighestIs DEF AdmissionInv
<1>9. \A y \in Sequences(i) \cup {sequence} : sequence >= y
  BY <1>1, <1>2, <1>8
<1>10. Max(Sequences(i) \cup {sequence}) = sequence
  <2>1. Sequences(i) \cup {sequence} \subseteq Nat /\ sequence \in Sequences(i) \cup {sequence}
    BY <1>2, <1>8
  <2> QED BY <2>1, <1>9, MaxIs
<1>11. CancellationSequence(i)' = sequence
  BY <1>5, <1>7, <1>10
<1>12. (\A j \in Identities : HighestSequence(j))'
  <2>1. ASSUME NEW j \in Identities PROVE \E x \in Sequences(j)' : \A y \in Sequences(j)' : x >= y
    <3>1. CASE j = i
      BY <1>5, <1>9, <3>1
    <3>2. CASE j # i
      BY <1>6, <3>2 DEF AdmissionInv, HighestSequence
    <3> QED BY <3>1, <3>2
  <2> QED BY <2>1 DEF HighestSequence
<1>13. ASSUME NEW r \in RequestIds, requests'[r].state = "ACTIVE"
       PROVE  RequestTerms[r].nonce > CancellationSequence(RequestTerms[r].identity)'
  <2>1. closed[r] = IF r \in Closable(due) THEN [requests[r] EXCEPT !.state = "EXPIRED"] ELSE requests[r]
    BY DEF ResolvedRequests
  <2>2. /\ [requests[r] EXCEPT !.state = "CANCELED"].state = "CANCELED"
        /\ [requests[r] EXCEPT !.state = "EXPIRED"].state = "EXPIRED"
    BY <1>2 DEF AdmissionTypeOK, Requests
  <2>3. r \notin canceled /\ r \notin Closable(due) /\ requests[r].state = "ACTIVE"
    <3> HIDE DEF closed, canceled, due
    <3> QED BY <1>1, <1>13, <2>1, <2>2
  <2>4. RequestTerms[r].identity \in Identities /\ RequestTerms[r].nonce \in Nat
    BY AdmissionAssumption
  <2>5. CASE RequestTerms[r].identity = i
    <3>1. ~(RequestTerms[r].nonce <= sequence)
      BY <2>3, <2>5 DEF ActiveRequests
    <3> QED BY <1>2, <1>11, <2>4, <2>5, <3>1
  <2>6. CASE RequestTerms[r].identity # i
    <3>1. CancellationSequence(RequestTerms[r].identity)' = CancellationSequence(RequestTerms[r].identity)
      BY <1>6, <1>7, <2>4, <2>6
    <3>2. RequestTerms[r].nonce > CancellationSequence(RequestTerms[r].identity)
      BY <2>3 DEF AdmissionInv, CancelHolds
    <3> QED BY <3>1, <3>2
  <2> QED BY <2>5, <2>6
<1>14. CancelHolds'
  BY <1>13 DEF CancelHolds
<1> QED BY <1>4, <1>12, <1>14

-------------------------------------------------------------------------------
\* The inductive invariant of the admission ledger holds in every state.
THEOREM AdmissionInvariant == AdmissionSpec => []AdmissionInv
<1>1. AdmissionInit => AdmissionInv
  <2> SUFFICES ASSUME AdmissionInit PROVE AdmissionInv
    OBVIOUS
  <2>1. /\ now = 0 /\ cancellations = {} /\ \A r \in RequestIds : requests[r] = NoRequest
        /\ \A o \in OfferIds : offers[o] = NoOffer /\ settlements[o] = NoSettlement
    BY DEF AdmissionInit
  <2>2. NoRequest.state = "NONE" /\ NoOffer.state = "NONE" /\ NoSettlement.state = "NONE"
    BY DEF NoRequest, NoOffer, NoSettlement
  <2>3. NoRequest \in Requests /\ NoSettlement \in Settlements
    BY DEF NoRequest, NoSettlement, Requests, RequestStates, Settlements, Never
  <2>4. NoOffer \in Offers
    <3>1. Never \in Int /\ "NONE" \in OfferStates
      BY DEF Never, OfferStates
    <3> QED BY <3>1 DEF NoOffer, Offers
  <2>5. AdmissionTypeOK
    BY <2>1, <2>3, <2>4 DEF AdmissionTypeOK, AdmissionInit
  <2>6. /\ \A o \in OfferIds : OfferOrdered(o) /\ OwnedInOrder(o) /\ OfferDecided(o)
        /\ OneOwned /\ ExercisedByFill
    BY <2>1, <2>2 DEF OfferOrdered, OwnedInOrder, OfferDecided, OneOwned, ExercisedByFill, Owned
  <2>7. \A i \in Identities : Sequences(i) = {0}
    BY <2>1 DEF Sequences
  <2>8. \A i \in Identities : HighestSequence(i)
    BY <2>7 DEF HighestSequence
  <2>9. CancelHolds
    BY <2>1, <2>2 DEF CancelHolds
  <2> QED BY <2>5, <2>6, <2>8, <2>9 DEF AdmissionInv
<1>2. AdmissionInv /\ [AdmissionNext]_admissionVars => AdmissionInv'
  <2> SUFFICES ASSUME AdmissionInv, [AdmissionNext]_admissionVars PROVE AdmissionInv'
    OBVIOUS
  <2>1. Moves
    BY StepMoves
  <2>2. /\ (cancellations \subseteq [identity : Identities, sequence : Nat, at : Nat])'
        /\ (\A i \in Identities : HighestSequence(i))' /\ CancelHolds'
    BY <2>1, OnlyCancelRfqs, KeepsCancelIdle, KeepsCancel
  <2>3. AdmissionTypeOK'
    BY <2>1, <2>2 DEF Moves, AdmissionTypeOK
  <2>4. (\A o \in OfferIds : OfferOrdered(o) /\ OwnedInOrder(o) /\ OfferDecided(o))'
    BY <2>1, KeepsOrder, KeepsOwnership, KeepsDecision
  <2>5. OneOwned' /\ ExercisedByFill'
    BY <2>1, KeepsOneOwned, KeepsExercised
  <2> QED BY <2>2, <2>3, <2>4, <2>5 DEF AdmissionInv
<1> QED BY <1>1, <1>2, PTL DEF AdmissionSpec

\* cancelRfqs is permanent for every identity, nonce and sequence.
THEOREM AdmissionCancelHolds == AdmissionSpec => []CancelHolds
<1>1. AdmissionInv => CancelHolds
  BY DEF AdmissionInv
<1> QED BY <1>1, AdmissionInvariant, PTL

\* A settlement owns an offer only in causal order: reserved, bound, authorized, selected,
\* and all of it before the authorization and the offer expire.
THEOREM AdmissionOwnershipCausal == AdmissionSpec => []OwnershipCausal
<1>1. AdmissionInv => OwnershipCausal
  <2> SUFFICES ASSUME AdmissionInv, NEW o \in OfferIds, Owned(o), offers[o].state # "NONE"
               PROVE  /\ Never < offers[o].reservedAt /\ offers[o].reservedAt <= offers[o].finalizedAt
                      /\ offers[o].finalizedAt <= offers[o].authorizedAt
                      /\ offers[o].authorizedAt <= settlements[o].createdAt
                      /\ settlements[o].createdAt < offers[o].authorizationExpiresAt
                      /\ offers[o].authorizationExpiresAt <= OfferTerms[o].expiresAt
    BY DEF OwnershipCausal
  <2>1. OfferOrdered(o) /\ OwnedInOrder(o)
    BY DEF AdmissionInv
  <2>2. /\ offers[o].reservedAt \in Int /\ offers[o].authorizationExpiresAt \in Int
        /\ OfferTerms[o].selectionExpiresAt \in Nat /\ OfferTerms[o].expiresAt \in Nat
        /\ OfferTerms[o].selectionExpiresAt <= OfferTerms[o].expiresAt
    BY AdmissionAssumption DEF AdmissionInv, AdmissionTypeOK, Offers
  <2> QED BY <2>1, <2>2 DEF OfferOrdered, OwnedInOrder, Never
<1> QED BY <1>1, AdmissionInvariant, PTL

\* The settlement alone decides the offer it owns, and a request never gets two.
THEOREM AdmissionSettlementDecides == AdmissionSpec => []SettlementDecidesOffer
<1>1. AdmissionInv => SettlementDecidesOffer
  <2> SUFFICES ASSUME AdmissionInv PROVE SettlementDecidesOffer
    OBVIOUS
  <2>1. ASSUME NEW r \in RequestIds PROVE Cardinality(SettlementsOf(r)) <= 1
    <3>1. \A o, p \in SettlementsOf(r) : o = p
      BY DEF SettlementsOf, OffersOf, AdmissionInv, OneOwned
    <3>2. SettlementsOf(r) = {} \/ \E o \in SettlementsOf(r) : SettlementsOf(r) = {o}
      BY <3>1
    <3>3. Cardinality({}) = 0 /\ \A o : Cardinality({o}) = 1
      BY FS_EmptySet, FS_Singleton
    <3>4. Cardinality(SettlementsOf(r)) = 0 \/ Cardinality(SettlementsOf(r)) = 1
      BY <3>2, <3>3
    <3> QED BY <3>4
  <2>2. ASSUME NEW o \in OfferIds, requests[OfferTerms[o].request].state = "EXERCISED"
        PROVE  \E p \in SettlementsOf(OfferTerms[o].request) : offers[p].state = "FILLED"
    <3>1. OfferTerms[o].request \in RequestIds
      BY AdmissionAssumption
    <3>2. PICK p \in OfferIds : OfferTerms[p].request = OfferTerms[o].request /\ Owned(p) /\ offers[p].state = "FILLED"
      BY <2>2, <3>1 DEF AdmissionInv, ExercisedByFill
    <3> QED BY <3>2 DEF SettlementsOf, OffersOf
  <2>3. \A o \in OfferIds : OfferDecided(o)
    BY DEF AdmissionInv
  <2> QED BY <2>1, <2>2, <2>3 DEF SettlementDecidesOffer, OfferDecided
<1> QED BY <1>1, AdmissionInvariant, PTL
-------------------------------------------------------------------------------
(* The solver accounts. *)

SolverRows ==
  [epoch : Int, observedAt : Int, bit : Int, lightning : Int, capabilityExpiresAt : Int,
   committedBit : Int, committedLightning : Int, activeFirmQuotes : Int, fills : Int, failures : Int,
   consecutive : Int, suspended : BOOLEAN, conflicted : BOOLEAN, updatedAt : Int]

\* The offers of a solver in a state, in a table of offers.
Mine(table, s, state) == {o \in OfferIds : table[o].state = state /\ OfferTerms[o].solver = s}

\* The row of a solver adds up: what is committed over its active offers, what is counted
\* over the decided ones, and the flag that compares the two.
Committed(row, active) ==
  /\ row.activeFirmQuotes = Cardinality(active)
  /\ row.committedBit = Total(BitAmounts, active)
  /\ row.committedLightning = Total(LightningAmounts, active)
Scored(row, filled, failed) == row.fills = Cardinality(filled) /\ row.failures = Cardinality(failed)
Flagged(row) == row.conflicted <=> Conflict(row)

Account(row, table, s) ==
  /\ row \in SolverRows
  /\ Committed(row, Mine(table, s, "ACTIVE"))
  /\ Scored(row, Mine(table, s, "FILLED"), Mine(table, s, "SOLVER_FAILED"))
  /\ Flagged(row)
Accounts(rows, table) == rows \in [SolverIds -> SolverRows] /\ \A s \in SolverIds : Account(rows[s], table, s)

\* What offers commit is natural, and any set of them adds up.
LEMMA AmountsAdd ==
  ASSUME NEW S \in SUBSET OfferIds
  PROVE  /\ IsFiniteSet(S) /\ Cardinality(S) \in Nat
         /\ \A o \in S : BitAmounts[o] \in Int /\ LightningAmounts[o] \in Int
         /\ Total(BitAmounts, S) \in Int /\ Total(LightningAmounts, S) \in Int
<1>1. IsFiniteSet(S) /\ Cardinality(S) \in Nat
  BY AdmissionAssumption, FS_Subset, FS_CardinalityType
<1>2. \A o \in S : BitAmounts[o] \in Int /\ LightningAmounts[o] \in Int
  BY AdmissionAssumption DEF BitAmounts, LightningAmounts, BitAmount, LightningAmount
<1> QED BY <1>1, <1>2, TotalInt

\* The sets of offers a row is about are sets of offers.
LEMMA MineAreOffers ==
  ASSUME NEW table, NEW s, NEW state PROVE Mine(table, s, state) \in SUBSET OfferIds
BY DEF Mine

\* Releasing some of the active offers keeps the row committed to the rest.
LEMMA Releasing ==
  ASSUME NEW row \in SolverRows, NEW active \in SUBSET OfferIds, Committed(row, active), NEW S \in SUBSET active
  PROVE  /\ Released(row, S) \in SolverRows /\ Committed(Released(row, S), active \ S)
         /\ Released(row, S).fills = row.fills /\ Released(row, S).failures = row.failures
<1> DEFINE r == Released(row, S)
           n == Cardinality(S)
           b == Total(BitAmounts, S)
           l == Total(LightningAmounts, S)
<1>1. n \in Int /\ b \in Int /\ l \in Int
  BY AmountsAdd
<1>2. r = [row EXCEPT !.activeFirmQuotes = @ - n, !.committedBit = @ - b, !.committedLightning = @ - l]
  BY DEF Released
<1>3. /\ row.activeFirmQuotes \in Int /\ row.committedBit \in Int /\ row.committedLightning \in Int
  BY DEF SolverRows
<1> HIDE DEF n, b, l, r
<1>9. r \in SolverRows
  <2> DEFINE x == row.activeFirmQuotes - n
             y == row.committedBit - b
             z == row.committedLightning - l
  <2>1. x \in Int /\ y \in Int /\ z \in Int
    BY <1>1, <1>3
  <2>2. r = [row EXCEPT !.activeFirmQuotes = x, !.committedBit = y, !.committedLightning = z]
    BY <1>2
  <2> HIDE DEF x, y, z
  <2> QED BY <2>1, <2>2 DEF SolverRows
<1>4. /\ r.activeFirmQuotes = row.activeFirmQuotes - n /\ r.committedBit = row.committedBit - b
      /\ r.committedLightning = row.committedLightning - l
      /\ r.fills = row.fills /\ r.failures = row.failures /\ r.bit = row.bit /\ r.lightning = row.lightning
  BY <1>1, <1>2, <1>3 DEF SolverRows
<1>5. Cardinality(active \ S) = Cardinality(active) - n
  <2>1. active \cap S = S
    OBVIOUS
  <2> QED BY <2>1, AmountsAdd, FS_Difference DEF n
<1>6. Total(BitAmounts, active \ S) = Total(BitAmounts, active) - b
  BY AmountsAdd, TotalMinus DEF b
<1>7. Total(LightningAmounts, active \ S) = Total(LightningAmounts, active) - l
  BY AmountsAdd, TotalMinus DEF l
<1>8. Committed(r, active \ S)
  BY <1>4, <1>5, <1>6, <1>7 DEF Committed
<1> QED BY <1>4, <1>8, <1>9 DEF r

\* #writeSolverAccounting sets the flag and touches no amount.
LEMMA Accounting ==
  ASSUME now \in Nat, NEW row \in SolverRows
  PROVE  /\ Accounted(row) \in SolverRows /\ Flagged(Accounted(row))
         /\ \A active : Committed(row, active) => Committed(Accounted(row), active)
         /\ \A filled, failed : Scored(row, filled, failed) => Scored(Accounted(row), filled, failed)
<1> DEFINE r == Accounted(row)
           flag == Conflict(row)
<1>1. r = [row EXCEPT !.conflicted = flag, !.updatedAt = now]
  BY DEF Accounted
<1>2. flag \in BOOLEAN
  BY DEF Conflict
<1> HIDE DEF flag, r
<1>9. now \in Int
  OBVIOUS
<1>6. r \in SolverRows
  BY <1>1, <1>2, <1>9 DEF SolverRows
<1>3. /\ r.conflicted = flag /\ r.bit = row.bit /\ r.lightning = row.lightning /\ r.committedBit = row.committedBit
      /\ r.committedLightning = row.committedLightning /\ r.activeFirmQuotes = row.activeFirmQuotes
      /\ r.fills = row.fills /\ r.failures = row.failures
  BY <1>1, <1>2 DEF SolverRows
<1>4. Conflict(r) <=> Conflict(row)
  BY <1>3 DEF Conflict
<1>5. Flagged(r)
  BY <1>3, <1>4 DEF Flagged, flag
<1> QED BY <1>3, <1>5, <1>6 DEF Committed, Scored, r

\* A decided offer is counted, neutral ones are not.
LEMMA Counting ==
  ASSUME NEW row \in SolverRows, NEW outcome \in Outcomes
  PROVE  LET r == Counted(row, outcome)
         IN /\ r \in SolverRows
            /\ \A active : Committed(row, active) => Committed(r, active)
            /\ r.fills = row.fills + IF outcome = "FILLED" THEN 1 ELSE 0
            /\ r.failures = row.failures + IF outcome = "SOLVER_FAILED" THEN 1 ELSE 0
<1> DEFINE r == Counted(row, outcome)
<1>1. row.fills \in Int /\ row.failures \in Int /\ row.consecutive \in Int /\ row.suspended \in BOOLEAN
  BY DEF SolverRows
<1>2. CASE outcome = "FILLED"
  <2>1. r = [row EXCEPT !.fills = @ + 1, !.consecutive = 0]
    BY <1>2 DEF Counted
  <2>3. r \in SolverRows
    <3> DEFINE x == row.fills + 1
               y == 0
    <3>1. x \in Int /\ y \in Int
      BY <1>1
    <3>2. r = [row EXCEPT !.fills = x, !.consecutive = y]
      BY <2>1
    <3> HIDE DEF x, y, r
    <3> QED BY <3>1, <3>2 DEF SolverRows
  <2>2. /\ r.fills = row.fills + 1 /\ r.failures = row.failures
        /\ r.activeFirmQuotes = row.activeFirmQuotes /\ r.committedBit = row.committedBit
        /\ r.committedLightning = row.committedLightning
    BY <1>1, <2>1 DEF SolverRows
  <2> QED BY <1>1, <1>2, <2>2, <2>3 DEF Committed
<1>3. CASE outcome = "SOLVER_FAILED"
  <2> DEFINE x == row.suspended \/ row.consecutive + 1 >= MaxConsecutiveFailures
  <2>1. r = [row EXCEPT !.failures = @ + 1, !.consecutive = @ + 1, !.suspended = x]
    BY <1>3 DEF Counted
  <2>2. x \in BOOLEAN
    OBVIOUS
  <2> HIDE DEF x
  <2>4. r \in SolverRows
    <3> DEFINE y == row.failures + 1
               z == row.consecutive + 1
    <3>1. y \in Int /\ z \in Int
      BY <1>1
    <3>2. r = [row EXCEPT !.failures = y, !.consecutive = z, !.suspended = x]
      BY <2>1
    <3> HIDE DEF y, z
    <3> QED BY <2>2, <3>1, <3>2 DEF SolverRows
  <2>3. /\ r.fills = row.fills /\ r.failures = row.failures + 1
        /\ r.activeFirmQuotes = row.activeFirmQuotes /\ r.committedBit = row.committedBit
        /\ r.committedLightning = row.committedLightning
    BY <1>1, <2>1, <2>2 DEF SolverRows
  <2> QED BY <1>1, <1>3, <2>3, <2>4 DEF Committed
<1>4. CASE outcome \notin {"FILLED", "SOLVER_FAILED"}
  <2>1. r = row
    BY <1>4 DEF Counted
  <2> QED BY <1>1, <1>4, <2>1
<1> QED BY <1>2, <1>3, <1>4

\* What completing offers does to the offers of a solver in each state.
LEMMA MineCompleted ==
  ASSUME AdmissionTypeOK, NEW outcome, \A o \in DOMAIN outcome : o \in OfferIds /\ outcome[o] \in Outcomes,
         CanComplete(outcome), NEW s
  PROVE  LET mine == {o \in DOMAIN outcome : OfferTerms[o].solver = s}
             done == CompletedOffers(outcome)
         IN /\ mine \in SUBSET Mine(offers, s, "ACTIVE")
            /\ Mine(done, s, "ACTIVE") = Mine(offers, s, "ACTIVE") \ mine
            /\ \A state \in {"FILLED", "SOLVER_FAILED"} :
                 /\ Mine(done, s, state) = Mine(offers, s, state) \cup {o \in mine : outcome[o] = state}
                 /\ mine \cap Mine(offers, s, state) = {}
<1> DEFINE mine == {o \in DOMAIN outcome : OfferTerms[o].solver = s}
           done == CompletedOffers(outcome)
<1>1. \A o \in OfferIds :
        /\ o \notin DOMAIN outcome => done[o] = offers[o]
        /\ o \in DOMAIN outcome => offers[o].state = "ACTIVE" /\ done[o] = Completed(o, outcome[o])
  BY Completing
<1>2. \A o \in DOMAIN outcome : Completed(o, outcome[o]).state = outcome[o]
  BY DEF AdmissionTypeOK, Offers, Completed
<1> HIDE DEF done
<1>3. \A o \in OfferIds : /\ o \notin DOMAIN outcome => done[o].state = offers[o].state
                          /\ o \in DOMAIN outcome => offers[o].state = "ACTIVE" /\ done[o].state = outcome[o]
  BY <1>1, <1>2
<1>4. \A o \in DOMAIN outcome : outcome[o] # "ACTIVE"
  BY DEF Outcomes
<1>5. mine \in SUBSET Mine(offers, s, "ACTIVE")
  BY <1>3 DEF Mine
<1>6. Mine(done, s, "ACTIVE") = Mine(offers, s, "ACTIVE") \ mine
  BY <1>3, <1>4 DEF Mine
<1>7. \A state \in {"FILLED", "SOLVER_FAILED"} :
        /\ Mine(done, s, state) = Mine(offers, s, state) \cup {o \in mine : outcome[o] = state}
        /\ mine \cap Mine(offers, s, state) = {}
  BY <1>3 DEF Mine
<1> QED BY <1>5, <1>6, <1>7 DEF done

\* Completing offers keeps every account: at most one of them is filled or failed, the
\* others are released neutrally.
LEMMA Completes ==
  ASSUME AdmissionTypeOK, Accounts(solvers, offers), NEW outcome,
         \A o \in DOMAIN outcome : o \in OfferIds /\ outcome[o] \in Outcomes, CanComplete(outcome),
         NEW c, \A o \in DOMAIN outcome : outcome[o] \in {"FILLED", "SOLVER_FAILED"} => o = c
  PROVE  Accounts(CompletedSolvers(outcome), CompletedOffers(outcome))
<1> DEFINE done == CompletedOffers(outcome)
           rows == CompletedSolvers(outcome)
<1>0. now \in Nat
  BY DEF AdmissionTypeOK
<1>1. ASSUME NEW s \in SolverIds PROVE Account(rows[s], done, s)
  <2> DEFINE mine == {o \in DOMAIN outcome : OfferTerms[o].solver = s}
             counted == {o \in mine : outcome[o] \in {"FILLED", "SOLVER_FAILED"}}
             active == Mine(offers, s, "ACTIVE")
             filled == Mine(offers, s, "FILLED")
             failed == Mine(offers, s, "SOLVER_FAILED")
             row == Released(solvers[s], mine)
  <2>1. rows[s] = IF mine = {} THEN solvers[s]
                  ELSE Accounted(IF counted = {} THEN row
                                 ELSE Counted(row, outcome[CHOOSE o \in counted : TRUE]))
    BY DEF CompletedSolvers
  <2>2. /\ mine \in SUBSET active /\ Mine(done, s, "ACTIVE") = active \ mine
        /\ Mine(done, s, "FILLED") = filled \cup {o \in mine : outcome[o] = "FILLED"}
        /\ Mine(done, s, "SOLVER_FAILED") = failed \cup {o \in mine : outcome[o] = "SOLVER_FAILED"}
        /\ mine \cap filled = {} /\ mine \cap failed = {}
    BY MineCompleted
  <2>3. /\ solvers[s] \in SolverRows /\ Committed(solvers[s], active) /\ Scored(solvers[s], filled, failed)
        /\ Flagged(solvers[s])
    BY DEF Accounts, Account
  <2>4. active \in SUBSET OfferIds /\ filled \in SUBSET OfferIds /\ failed \in SUBSET OfferIds
    BY MineAreOffers
  <2>5. counted = {} \/ (counted = {c} /\ c \in mine /\ outcome[c] \in {"FILLED", "SOLVER_FAILED"})
    OBVIOUS
  <2>6. /\ counted = {} => /\ {o \in mine : outcome[o] = "FILLED"} = {}
                           /\ {o \in mine : outcome[o] = "SOLVER_FAILED"} = {}
        /\ \A x \in {"FILLED", "SOLVER_FAILED"} : counted = {c} /\ outcome[c] = x => {o \in mine : outcome[o] = x} = {c}
        /\ counted = {c} /\ outcome[c] = "FILLED" => {o \in mine : outcome[o] = "SOLVER_FAILED"} = {}
        /\ counted = {c} /\ outcome[c] = "SOLVER_FAILED" => {o \in mine : outcome[o] = "FILLED"} = {}
    OBVIOUS
  <2> DEFINE newFilled == {o \in mine : outcome[o] = "FILLED"}
             newFailed == {o \in mine : outcome[o] = "SOLVER_FAILED"}
  <2> HIDE DEF mine, counted, active, filled, failed, done, rows, newFilled, newFailed
  <2>7. CASE mine = {}
    <3>1. newFilled = {} /\ newFailed = {}
      BY <2>7 DEF newFilled, newFailed
    <3>2. Mine(done, s, "ACTIVE") = active /\ Mine(done, s, "FILLED") = filled /\ Mine(done, s, "SOLVER_FAILED") = failed
      BY <2>2, <2>7, <3>1 DEF newFilled, newFailed
    <3> QED BY <2>1, <2>3, <2>7, <3>2 DEF Account
  <2>8. /\ row \in SolverRows /\ Committed(row, active \ mine)
        /\ row.fills = solvers[s].fills /\ row.failures = solvers[s].failures
    <3>1. mine \in SUBSET active /\ active \in SUBSET OfferIds
      BY <2>2, <2>4
    <3>2. solvers[s] \in SolverRows /\ Committed(solvers[s], active)
      BY <2>3
    <3> QED BY <3>1, <3>2, Releasing
  <2> HIDE DEF row
  <2>9. CASE mine # {} /\ counted = {}
    <3>1. Mine(done, s, "FILLED") = filled /\ Mine(done, s, "SOLVER_FAILED") = failed
      BY <2>2, <2>6, <2>9
    <3>2. Scored(row, filled, failed)
      BY <2>3, <2>8 DEF Scored
    <3>3. rows[s] = Accounted(row)
      BY <2>1, <2>9
    <3>4. /\ Accounted(row) \in SolverRows /\ Flagged(Accounted(row))
          /\ Committed(Accounted(row), active \ mine) /\ Scored(Accounted(row), filled, failed)
      BY <1>0, <2>8, <3>2, Accounting
    <3> QED BY <2>2, <3>1, <3>3, <3>4 DEF Account
  <2>10. CASE mine # {} /\ counted = {c} /\ c \in mine /\ outcome[c] \in {"FILLED", "SOLVER_FAILED"}
    <3> DEFINE x == outcome[c]
               r == Counted(row, x)
    <3>1. (CHOOSE o \in counted : TRUE) = c
      BY <2>10
    <3>2. rows[s] = Accounted(r)
      BY <2>1, <2>10, <3>1
    <3>3. x \in Outcomes
      BY <2>10 DEF Outcomes
    <3>4. /\ r \in SolverRows /\ Committed(r, active \ mine)
          /\ r.fills = row.fills + IF x = "FILLED" THEN 1 ELSE 0
          /\ r.failures = row.failures + IF x = "SOLVER_FAILED" THEN 1 ELSE 0
      BY <2>8, <3>3, Counting
    <3>5. Scored(r, Mine(done, s, "FILLED"), Mine(done, s, "SOLVER_FAILED"))
      <4>1. c \notin filled /\ c \notin failed
        BY <2>2, <2>10
      <4>2. /\ Cardinality(filled \cup {c}) = Cardinality(filled) + 1
            /\ Cardinality(failed \cup {c}) = Cardinality(failed) + 1
        BY <2>4, <4>1, AmountsAdd, FS_AddElement
      <4>3. row.fills = Cardinality(filled) /\ row.failures = Cardinality(failed)
        BY <2>3, <2>8 DEF Scored
      <4>4. Cardinality(filled) \in Nat /\ Cardinality(failed) \in Nat
        BY <2>4, AmountsAdd
      <4>5. CASE x = "FILLED"
        <5>1. Mine(done, s, "FILLED") = filled \cup {c} /\ Mine(done, s, "SOLVER_FAILED") = failed
          BY <2>2, <2>6, <2>10, <4>5
        <5> HIDE DEF x, r
        <5> QED BY <3>4, <4>2, <4>3, <4>4, <4>5, <5>1 DEF Scored
      <4>6. CASE x = "SOLVER_FAILED"
        <5>1. Mine(done, s, "FILLED") = filled /\ Mine(done, s, "SOLVER_FAILED") = failed \cup {c}
          BY <2>2, <2>6, <2>10, <4>6
        <5> HIDE DEF x, r
        <5>2. x # "FILLED"
          BY <4>6
        <5>3. r.fills = row.fills + 0 /\ r.failures = row.failures + 1
          BY <3>4, <4>6, <5>2
        <5>4. r.fills = row.fills
          BY <4>3, <4>4, <5>3
        <5> QED BY <4>2, <4>3, <4>4, <5>1, <5>3, <5>4 DEF Scored
      <4> QED BY <2>10, <4>5, <4>6
    <3> HIDE DEF r
    <3>6. /\ Accounted(r) \in SolverRows /\ Flagged(Accounted(r)) /\ Committed(Accounted(r), active \ mine)
          /\ Scored(Accounted(r), Mine(done, s, "FILLED"), Mine(done, s, "SOLVER_FAILED"))
      BY <1>0, <3>4, <3>5, Accounting
    <3> QED BY <2>2, <3>2, <3>6 DEF Account
  <2> QED BY <2>5, <2>7, <2>9, <2>10
<1>2. \A s \in SolverIds : rows[s] \in SolverRows
  BY <1>1 DEF Account
<1>3. rows = [s \in SolverIds |-> rows[s]]
  BY DEF CompletedSolvers
<1> HIDE DEF rows, done
<1>4. rows \in [SolverIds -> SolverRows]
  BY <1>2, <1>3
<1>5. Accounts(rows, done)
  BY <1>1, <1>4 DEF Accounts
<1> QED BY <1>5 DEF rows, done

\* Offers that end in one neutral way.
LEMMA CompletesNeutral ==
  ASSUME AdmissionTypeOK, Accounts(solvers, offers), NEW S \in SUBSET OfferIds,
         NEW result \in {"EXPIRED_UNEXERCISED", "USER_ABANDONED"}, CanComplete(All(S, result))
  PROVE  Accounts(CompletedSolvers(All(S, result)), CompletedOffers(All(S, result)))
<1> DEFINE outcome == All(S, result)
<1>1. \A o \in DOMAIN outcome : o \in OfferIds /\ outcome[o] = result
  BY DEF All
<1>2. CanComplete(outcome)
  OBVIOUS
<1> HIDE DEF outcome
<1>3. /\ \A o \in DOMAIN outcome : o \in OfferIds /\ outcome[o] \in Outcomes
      /\ \A o \in DOMAIN outcome : outcome[o] \in {"FILLED", "SOLVER_FAILED"} => o = result
  BY <1>1 DEF Outcomes
<1>4. Accounts(CompletedSolvers(outcome), CompletedOffers(outcome))
  BY <1>2, <1>3, Completes
<1> QED BY <1>4 DEF outcome

\* The offers an expiry releases.
LEMMA DueAreOffers == ASSUME NEW R PROVE DueOffers(R) \in SUBSET OfferIds /\ ActiveFor(R) \in SUBSET OfferIds
BY DEF DueOffers, ActiveFor, ActiveOffers

\* A cancellation releases offers in two neutral ways.
LEMMA CancelAccounts ==
  ASSUME AdmissionTypeOK, Accounts(solvers, offers), NEW i, NEW sequence, CancelRfqs(i, sequence)
  PROVE  Accounts(solvers', offers')
<1> DEFINE due == DueRequests({i})
           canceled == {r \in ActiveRequests(i, Closable(due)) : RequestTerms[r].nonce <= sequence}
           outcome == [o \in DueOffers(due) \cup ActiveFor(canceled) |->
                        IF o \in DueOffers(due) THEN "EXPIRED_UNEXERCISED" ELSE "USER_ABANDONED"]
<1>1. CanComplete(outcome) /\ offers' = CompletedOffers(outcome) /\ solvers' = CompletedSolvers(outcome)
  BY DEF CancelRfqs
<1>2. DOMAIN outcome \subseteq OfferIds
  BY DueAreOffers
<1>3. \A o \in DOMAIN outcome : outcome[o] \in {"EXPIRED_UNEXERCISED", "USER_ABANDONED"}
  OBVIOUS
<1> HIDE DEF outcome
<1>4. /\ \A o \in DOMAIN outcome : o \in OfferIds /\ outcome[o] \in Outcomes
      /\ \A o \in DOMAIN outcome : outcome[o] \in {"FILLED", "SOLVER_FAILED"} => o = i
  BY <1>2, <1>3 DEF Outcomes
<1> QED BY <1>1, <1>4, Completes

\* So does the settlement's own outcome, except for the offer it owns.
LEMMA ReconciledAccounts ==
  ASSUME AdmissionTypeOK, Accounts(solvers, offers), NEW o \in OfferIds, NEW result \in {"FILLED", "USER_ABANDONED"},
         RecordReconciledOutcome(o, result)
  PROVE  Accounts(solvers', offers')
<1> DEFINE r == OfferTerms[o].request
           outcome == [p \in ActiveFor({r}) \cup {o} |-> IF p = o THEN result ELSE "USER_ABANDONED"]
<1>1. CanComplete(outcome) /\ offers' = CompletedOffers(outcome) /\ solvers' = CompletedSolvers(outcome)
  BY DEF RecordReconciledOutcome
<1>2. DOMAIN outcome \subseteq OfferIds
  BY DueAreOffers
<1>3. \A p \in DOMAIN outcome : outcome[p] \in {"FILLED", "USER_ABANDONED"} /\ (outcome[p] = "FILLED" => p = o)
  OBVIOUS
<1> HIDE DEF outcome
<1>4. /\ \A p \in DOMAIN outcome : p \in OfferIds /\ outcome[p] \in Outcomes
      /\ \A p \in DOMAIN outcome : outcome[p] \in {"FILLED", "SOLVER_FAILED"} => p = o
  BY <1>2, <1>3 DEF Outcomes
<1> QED BY <1>1, <1>4, Completes

\* An offer no settlement selected may also have failed.
LEMMA UnownedAccounts ==
  ASSUME AdmissionTypeOK, Accounts(solvers, offers), NEW o \in OfferIds,
         NEW result \in {"SOLVER_FAILED", "EXPIRED_UNEXERCISED", "USER_ABANDONED"}, RecordUnownedOutcome(o, result)
  PROVE  Accounts(solvers', offers')
<1> DEFINE outcome == All({o}, result)
<1>1. CanComplete(outcome) /\ offers' = CompletedOffers(outcome) /\ solvers' = CompletedSolvers(outcome)
  BY DEF RecordUnownedOutcome
<1>2. \A p \in DOMAIN outcome : p = o /\ outcome[p] = result
  BY DEF All
<1> HIDE DEF outcome
<1>3. \A p \in DOMAIN outcome : p \in OfferIds /\ outcome[p] \in Outcomes
  BY <1>2 DEF Outcomes
<1> QED BY <1>1, <1>2, <1>3, Completes

\* A restart sweep expires a batch.
LEMMA RestartAccounts ==
  ASSUME AdmissionTypeOK, Accounts(solvers, offers), ReconcileRfqFinalizationRestart
  PROVE  Accounts(solvers', offers')
<1> DEFINE due == {o \in ActiveOffers : OfferTerms[o].expiresAt <= now /\ ~Owned(o)}
<1>1. PICK released \in Batches(due, OfferTerms) :
        /\ CanComplete(All(released, "EXPIRED_UNEXERCISED"))
        /\ offers' = CompletedOffers(All(released, "EXPIRED_UNEXERCISED"))
        /\ solvers' = CompletedSolvers(All(released, "EXPIRED_UNEXERCISED"))
  BY DEF ReconcileRfqFinalizationRestart
<1>2. released \in SUBSET OfferIds
  BY DEF Batches, ActiveOffers
<1> QED BY <1>1, <1>2, CompletesNeutral

\* The methods that expire or abandon offers.
LEMMA ExpiryAccounts ==
  ASSUME AdmissionTypeOK, Accounts(solvers, offers),
         \/ \E r \in RequestIds : AdmitRfq(r) \/ ReadmitRfq(r)
         \/ ExpireRfqs
         \/ \E r \in RequestIds, state \in {"EXERCISED", "ABANDONED"} : ResolveRfq(r, state)
  PROVE  Accounts(solvers', offers')
<1>1. \E S \in SUBSET OfferIds, result \in {"EXPIRED_UNEXERCISED", "USER_ABANDONED"} :
        /\ CanComplete(All(S, result))
        /\ offers' = CompletedOffers(All(S, result)) /\ solvers' = CompletedSolvers(All(S, result))
  <2>1. CASE \E r \in RequestIds : AdmitRfq(r) \/ ReadmitRfq(r)
    <3> PICK r \in RequestIds : AdmitRfq(r) \/ ReadmitRfq(r)
      BY <2>1
    <3> DEFINE R == DueRequests({RequestTerms[r].identity})
    <3>1. /\ CanComplete(All(DueOffers(R), "EXPIRED_UNEXERCISED"))
          /\ offers' = CompletedOffers(All(DueOffers(R), "EXPIRED_UNEXERCISED"))
          /\ solvers' = CompletedSolvers(All(DueOffers(R), "EXPIRED_UNEXERCISED"))
      BY DEF AdmitRfq, ReadmitRfq
    <3> HIDE DEF R
    <3> QED BY <3>1, DueAreOffers
  <2>2. CASE ExpireRfqs
    BY <2>2, DueAreOffers DEF ExpireRfqs
  <2>3. CASE \E r \in RequestIds, state \in {"EXERCISED", "ABANDONED"} : ResolveRfq(r, state)
    <3> PICK r \in RequestIds, state \in {"EXERCISED", "ABANDONED"} : ResolveRfq(r, state)
      BY <2>3
    <3>1. /\ CanComplete(All(ActiveFor({r}), "USER_ABANDONED"))
          /\ offers' = CompletedOffers(All(ActiveFor({r}), "USER_ABANDONED"))
          /\ solvers' = CompletedSolvers(All(ActiveFor({r}), "USER_ABANDONED"))
      BY DEF ResolveRfq
    <3> QED BY <3>1, DueAreOffers
  <2> QED BY <2>1, <2>2, <2>3
<1> QED BY <1>1, CompletesNeutral

\* One more active offer commits its amounts.
Commits(row, o) == [row EXCEPT !.activeFirmQuotes = @ + 1, !.committedBit = @ + BitAmount(o),
                               !.committedLightning = @ + LightningAmount(o)]

LEMMA Committing ==
  ASSUME NEW row \in SolverRows, NEW active \in SUBSET OfferIds, Committed(row, active),
         NEW o \in OfferIds, o \notin active
  PROVE  /\ Commits(row, o) \in SolverRows /\ Committed(Commits(row, o), active \cup {o})
         /\ Commits(row, o).fills = row.fills /\ Commits(row, o).failures = row.failures
<1> DEFINE r == Commits(row, o)
<1>1. BitAmount(o) = BitAmounts[o] /\ LightningAmount(o) = LightningAmounts[o]
  BY DEF BitAmounts, LightningAmounts
<1>2. BitAmounts[o] \in Int /\ LightningAmounts[o] \in Int
  <2>1. {o} \in SUBSET OfferIds
    OBVIOUS
  <2> QED BY <2>1, AmountsAdd
<1>3. row.activeFirmQuotes \in Int /\ row.committedBit \in Int /\ row.committedLightning \in Int
  BY DEF SolverRows
<1> DEFINE x == row.activeFirmQuotes + 1
           y == row.committedBit + BitAmounts[o]
           z == row.committedLightning + LightningAmounts[o]
<1>4. x \in Int /\ y \in Int /\ z \in Int
  BY <1>2, <1>3
<1>5. r = [row EXCEPT !.activeFirmQuotes = x, !.committedBit = y, !.committedLightning = z]
  BY <1>1 DEF Commits
<1> HIDE DEF x, y, z, r
<1>6. r \in SolverRows
  BY <1>4, <1>5 DEF SolverRows
<1>7. /\ r.activeFirmQuotes = x /\ r.committedBit = y /\ r.committedLightning = z
      /\ r.fills = row.fills /\ r.failures = row.failures
  BY <1>5 DEF SolverRows
<1>8. Cardinality(active \cup {o}) = Cardinality(active) + 1
  BY AmountsAdd, FS_AddElement
<1>9. Total(BitAmounts, active \cup {o}) = Total(BitAmounts, active) + BitAmounts[o]
  BY <1>2, AmountsAdd, TotalWith
<1>10. Total(LightningAmounts, active \cup {o}) = Total(LightningAmounts, active) + LightningAmounts[o]
  BY <1>2, AmountsAdd, TotalWith
<1>11. Committed(r, active \cup {o})
  BY <1>7, <1>8, <1>9, <1>10 DEF Committed, x, y, z
<1> QED BY <1>6, <1>7, <1>11 DEF r

\* A reservation follows the expiry and commits one more offer of its solver.
LEMMA ReserveAccounts ==
  ASSUME AdmissionTypeOK, Accounts(solvers, offers), NEW o \in OfferIds, ReserveVerifiedFirmOffer(o)
  PROVE  Accounts(solvers', offers')
<1> DEFINE s == OfferTerms[o].solver
           expired == All(DueOffers(DueRequests(Identities)), "EXPIRED_UNEXERCISED")
           done == CompletedOffers(expired)
           rows == CompletedSolvers(expired)
           row == rows[s]
           r == Commits(row, o)
           reserved == [NoOffer EXCEPT !.state = "ACTIVE", !.reservedAt = now]
<1>1. /\ CanComplete(expired) /\ offers[o].state = "NONE"
      /\ offers' = [done EXCEPT ![o] = reserved]
      /\ solvers' = [rows EXCEPT ![s] = Accounted(r)]
  BY DEF ReserveVerifiedFirmOffer, Commits
<1>2. Accounts(rows, done)
  BY <1>1, DueAreOffers, CompletesNeutral
<1>3. done[o].state = "NONE" /\ DOMAIN done = OfferIds
  <2>1. o \notin DOMAIN expired
    BY <1>1 DEF CanComplete
  <2> QED BY <1>1, <2>1 DEF CompletedOffers
<1>4. s \in SolverIds
  BY AdmissionAssumption
<1>5. reserved.state = "ACTIVE"
  BY DEF NoOffer
<1>6. now \in Nat
  BY DEF AdmissionTypeOK
<1> HIDE DEF expired, done, rows, reserved
<1>7. /\ offers'[o].state = "ACTIVE" /\ \A p \in OfferIds : p # o => offers'[p] = done[p]
  BY <1>1, <1>3, <1>5
<1>8. /\ Mine(offers', s, "ACTIVE") = Mine(done, s, "ACTIVE") \cup {o} /\ o \notin Mine(done, s, "ACTIVE")
      /\ Mine(offers', s, "FILLED") = Mine(done, s, "FILLED")
      /\ Mine(offers', s, "SOLVER_FAILED") = Mine(done, s, "SOLVER_FAILED")
      /\ \A u \in SolverIds : \A state : u # s => Mine(offers', u, state) = Mine(done, u, state)
  BY <1>3, <1>7 DEF Mine
<1>9. Account(rows[s], done, s) /\ rows \in [SolverIds -> SolverRows]
  BY <1>2, <1>4 DEF Accounts
<1>10. row \in SolverRows /\ Committed(row, Mine(done, s, "ACTIVE"))
       /\ Scored(row, Mine(done, s, "FILLED"), Mine(done, s, "SOLVER_FAILED"))
  BY <1>9 DEF Account
<1> DEFINE active == Mine(done, s, "ACTIVE")
<1>11. active \in SUBSET OfferIds /\ o \notin active
  BY <1>8, MineAreOffers
<1>12. /\ r \in SolverRows /\ Committed(r, active \cup {o})
       /\ r.fills = row.fills /\ r.failures = row.failures
  <2>1. Committed(row, active)
    BY <1>10
  <2>2. row \in SolverRows
    BY <1>10
  <2> HIDE DEF active, row, s
  <2> QED BY <1>11, <2>1, <2>2, Committing
<1> HIDE DEF r, row
<1>13. Scored(r, Mine(done, s, "FILLED"), Mine(done, s, "SOLVER_FAILED"))
  BY <1>10, <1>12 DEF Scored
<1>14. /\ Accounted(r) \in SolverRows /\ Flagged(Accounted(r)) /\ Committed(Accounted(r), active \cup {o})
       /\ Scored(Accounted(r), Mine(done, s, "FILLED"), Mine(done, s, "SOLVER_FAILED"))
  BY <1>6, <1>12, <1>13, Accounting
<1>15. Account(Accounted(r), offers', s)
  BY <1>8, <1>14 DEF Account
<1> HIDE DEF s
<1>16. solvers' \in [SolverIds -> SolverRows] /\ solvers'[s] = Accounted(r)
       /\ \A u \in SolverIds : u # s => solvers'[u] = rows[u]
  BY <1>1, <1>4, <1>9, <1>14
<1>17. ASSUME NEW u \in SolverIds PROVE Account(solvers'[u], offers', u)
  <2>1. CASE u = s
    BY <1>15, <1>16, <2>1
  <2>2. CASE u # s
    <3>1. Account(rows[u], done, u)
      BY <1>2 DEF Accounts
    <3> QED BY <1>8, <1>16, <2>2, <3>1 DEF Account
  <2> QED BY <2>1, <2>2
<1> QED BY <1>16, <1>17 DEF Accounts

\* A new snapshot changes what a solver has, not what it has committed.
LEMMA SnapshotAccounts ==
  ASSUME Accounts(solvers, offers), NEW c \in Snapshots, RecordSolverCapacity(c)
  PROVE  Accounts(solvers', offers')
<1> DEFINE s == c.solver
           old == solvers[s]
           row == [old EXCEPT !.epoch = c.epoch, !.observedAt = c.observedAt, !.bit = c.bit,
                              !.lightning = c.lightning, !.updatedAt = c.observedAt,
                              !.capabilityExpiresAt = c.capabilityExpiresAt]
           flag == Conflict(row)
           new == [row EXCEPT !.conflicted = flag]
<1>1. solvers' = [solvers EXCEPT ![s] = new] /\ offers' = offers
  BY DEF RecordSolverCapacity
<1>2. /\ s \in SolverIds /\ c.epoch \in Int /\ c.observedAt \in Int /\ c.bit \in Int /\ c.lightning \in Int
      /\ c.capabilityExpiresAt \in Int
  BY AdmissionAssumption
<1>3. old \in SolverRows /\ Account(old, offers, s) /\ solvers \in [SolverIds -> SolverRows]
  BY <1>2 DEF Accounts
<1> HIDE DEF old, s
<1>4. /\ row \in SolverRows
      /\ row.committedBit = old.committedBit /\ row.committedLightning = old.committedLightning
      /\ row.activeFirmQuotes = old.activeFirmQuotes /\ row.fills = old.fills /\ row.failures = old.failures
  BY <1>2, <1>3 DEF SolverRows
<1>5. flag \in BOOLEAN
  BY DEF Conflict
<1> HIDE DEF row, flag
<1>6. new \in SolverRows
  BY <1>4, <1>5 DEF SolverRows
<1>7. /\ new.conflicted = flag /\ new.bit = row.bit /\ new.lightning = row.lightning
      /\ new.committedBit = row.committedBit /\ new.committedLightning = row.committedLightning
      /\ new.activeFirmQuotes = row.activeFirmQuotes /\ new.fills = row.fills /\ new.failures = row.failures
  BY <1>4 DEF SolverRows
<1> HIDE DEF new
<1>8. Flagged(new)
  <2>1. Conflict(new) <=> flag
    BY <1>7 DEF Conflict, flag
  <2> QED BY <1>7, <2>1 DEF Flagged
<1>9. Account(new, offers, s)
  BY <1>3, <1>4, <1>6, <1>7, <1>8 DEF Account, Committed, Scored
<1>10. solvers' \in [SolverIds -> SolverRows] /\ solvers'[s] = new
       /\ \A u \in SolverIds : u # s => solvers'[u] = solvers[u]
  BY <1>1, <1>2, <1>3, <1>6
<1>11. \A u \in SolverIds : Account(solvers'[u], offers', u)
  BY <1>1, <1>9, <1>10 DEF Accounts
<1> QED BY <1>10, <1>11 DEF Accounts

\* The other methods change neither the rows nor the state of an offer.
LEMMA OtherAccounts ==
  ASSUME AdmissionTypeOK, Accounts(solvers, offers), solvers' = solvers,
         \A o \in OfferIds : offers'[o].state = offers[o].state
  PROVE  Accounts(solvers', offers')
<1>1. \A s, state : Mine(offers', s, state) = Mine(offers, s, state)
  BY DEF Mine
<1> QED BY <1>1 DEF Accounts, Account

\* Every step keeps every account.
LEMMA AccountStep ==
  ASSUME AdmissionTypeOK, Accounts(solvers, offers), [AdmissionNext]_admissionVars
  PROVE  Accounts(solvers', offers')
<1>1. CASE \/ \E r \in RequestIds : AdmitRfq(r) \/ ReadmitRfq(r)
           \/ ExpireRfqs
           \/ \E r \in RequestIds, state \in {"EXERCISED", "ABANDONED"} : ResolveRfq(r, state)
  BY <1>1, ExpiryAccounts
<1>2. CASE \E i \in Identities, sequence \in CancellationSequences : CancelRfqs(i, sequence)
  BY <1>2, CancelAccounts
<1>3. CASE \E c \in Snapshots : RecordSolverCapacity(c)
  BY <1>3, SnapshotAccounts
<1>4. CASE \E o \in OfferIds : ReserveVerifiedFirmOffer(o)
  BY <1>4, ReserveAccounts
<1>5. CASE \E o \in OfferIds, outcome \in {"SOLVER_FAILED", "EXPIRED_UNEXERCISED", "USER_ABANDONED"} :
             RecordUnownedOutcome(o, outcome)
  BY <1>5, UnownedAccounts
<1>6. CASE \E o \in OfferIds, outcome \in {"FILLED", "USER_ABANDONED"} : RecordReconciledOutcome(o, outcome)
  BY <1>6, ReconciledAccounts
<1>7. CASE ReconcileRfqFinalizationRestart
  BY <1>7, RestartAccounts
<1>8. CASE \E o \in OfferIds : BindFirmOfferExecution(o)
  <2> PICK o \in OfferIds : BindFirmOfferExecution(o)
    BY <1>8
  <2>1. offers' = [offers EXCEPT ![o].finalizedAt = now] /\ solvers' = solvers
    BY DEF BindFirmOfferExecution
  <2>2. \A p \in OfferIds : offers'[p].state = offers[p].state
    BY <2>1 DEF AdmissionTypeOK, Offers
  <2> QED BY <2>1, <2>2, OtherAccounts
<1>9. CASE \E o \in OfferIds, expiresAt \in AuthorizationExpiries :
             BindFirmOfferUserAuthorization(o, expiresAt) \/ AcceptAuthorizedFirmOfferSettlement(o, expiresAt)
  <2> PICK o \in OfferIds, expiresAt \in AuthorizationExpiries :
             BindFirmOfferUserAuthorization(o, expiresAt) \/ AcceptAuthorizedFirmOfferSettlement(o, expiresAt)
    BY <1>9
  <2>1. offers' = [offers EXCEPT ![o] = Authorized(o, expiresAt)] /\ solvers' = solvers
    BY DEF BindFirmOfferUserAuthorization, AcceptAuthorizedFirmOfferSettlement
  <2>2. Authorized(o, expiresAt).state = offers[o].state
    BY DEF Authorized, AdmissionTypeOK, Offers
  <2>3. \A p \in OfferIds : offers'[p].state = offers[p].state
    BY <2>1, <2>2 DEF AdmissionTypeOK
  <2> QED BY <2>1, <2>3, OtherAccounts
<1>10. CASE \/ \E o \in OfferIds : AcceptSettlement(o)
            \/ \E o \in OfferIds, state \in Terminals : RecordTerminal(o, state)
            \/ Tick \/ UNCHANGED admissionVars
  <2>1. offers' = offers /\ solvers' = solvers
    BY <1>10 DEF AcceptSettlement, RecordTerminal, Tick, admissionVars
  <2> QED BY <2>1, OtherAccounts
<1> QED BY <1>1, <1>2, <1>3, <1>4, <1>5, <1>6, <1>7, <1>8, <1>9, <1>10 DEF AdmissionNext

\* A fresh ledger has nothing committed.
LEMMA AccountInit == AdmissionInit => Accounts(solvers, offers)
<1> SUFFICES ASSUME AdmissionInit PROVE Accounts(solvers, offers)
  OBVIOUS
<1>1. solvers = [s \in SolverIds |-> NoSolver] /\ \A o \in OfferIds : offers[o].state = "NONE"
  BY DEF AdmissionInit, NoOffer
<1>2. NoSolver \in SolverRows
  BY DEF NoSolver, SolverRows, Never
<1>3. \A s, state : state # "NONE" => Mine(offers, s, state) = {}
  BY <1>1 DEF Mine
<1>4. Committed(NoSolver, {}) /\ Scored(NoSolver, {}, {})
  BY TotalEmpty, FS_EmptySet DEF Committed, Scored, NoSolver
<1>5. Flagged(NoSolver)
  BY DEF Flagged, Conflict, NoSolver
<1>6. \A s \in SolverIds : Account(NoSolver, offers, s)
  BY <1>2, <1>3, <1>4, <1>5 DEF Account
<1> QED BY <1>1, <1>2, <1>6 DEF Accounts

\* The running totals of every solver equal what its offers add up to, and the conflict flag
\* compares them with its latest snapshot, over any order of the methods.
THEOREM AdmissionAccountingExact == AdmissionSpec => []AccountingExact
<1>1. AdmissionInit => Accounts(solvers, offers)
  BY AccountInit
<1>2. AdmissionInv /\ Accounts(solvers, offers) /\ [AdmissionNext]_admissionVars => Accounts(solvers, offers)'
  BY AccountStep DEF AdmissionInv
<1>3. Accounts(solvers, offers) => AccountingExact
  <2> SUFFICES ASSUME Accounts(solvers, offers), NEW s \in SolverIds
               PROVE  /\ solvers[s].activeFirmQuotes = Cardinality(Mine(offers, s, "ACTIVE"))
                      /\ solvers[s].committedBit = Total(BitAmounts, Mine(offers, s, "ACTIVE"))
                      /\ solvers[s].committedLightning = Total(LightningAmounts, Mine(offers, s, "ACTIVE"))
                      /\ solvers[s].fills = Cardinality(Mine(offers, s, "FILLED"))
                      /\ solvers[s].failures = Cardinality(Mine(offers, s, "SOLVER_FAILED"))
                      /\ solvers[s].conflicted <=>
                           \/ solvers[s].bit < Total(BitAmounts, Mine(offers, s, "ACTIVE"))
                           \/ solvers[s].lightning < Total(LightningAmounts, Mine(offers, s, "ACTIVE"))
    BY DEF AccountingExact, Mine
  <2>1. Account(solvers[s], offers, s)
    BY DEF Accounts
  <2> QED BY <2>1 DEF Account, Committed, Scored, Flagged, Conflict
<1> QED BY <1>1, <1>2, <1>3, AdmissionInvariant, PTL DEF AdmissionSpec

-------------------------------------------------------------------------------
(* The services of the host. *)

Reasons == {"requested", "aborted", "startup-failure", "background-failure"}
Starts == {"none", "verifying", "first status", "preparing", "handoff", "lease", "first cycle",
           "supervisor", "done", "failed"}
Lifecycles == {"none", "starting", "running", "stopping", "stopped"}

\* Where the start awaits before there is a supervisor.
BeforeHandoff == {"verifying", "first status", "preparing", "handoff", "lease"}

-------------------------------------------------------------------------------
(* The active service: its control. *)

ControlType ==
  /\ proc \in {"down", "starting", "up", "cleaning"}
  /\ start \in Starts /\ boot \in Lifecycles /\ sup \in Lifecycles
  /\ bootPublishing \in BOOLEAN /\ preparation \in BOOLEAN /\ publishing \in BOOLEAN
  /\ release \in {"active", "inactive", "stopped"}
  /\ exec \in [state : {"idle", "running", "active", "degraded", "stopped"}, cycle : BOOLEAN]
  /\ leaseRelease \in {"none", "out", "done", "thrown"}
  /\ reason \in Reasons \cup {"none"}

\* A run that the process has begun and not finished is the one the journal calls RUNNING.
RunBegun == proc \in {"starting", "up"} => run.state = "RUNNING"

\* Once a stop was asked for it has a reason, and no release is active that would let the
\* handoff start a supervisor nobody stops.
StopStands ==
  boot \in {"stopping", "stopped"} => reason # "none" /\ (sup = "none" => release # "active")

BootOrder ==
  /\ proc = "cleaning" => boot = "stopped"
  /\ boot = "stopped" => ~bootPublishing /\ ~preparation /\ sup \in {"none", "stopped"}
  /\ start = "verifying" => boot = "none" /\ ~bootPublishing
  /\ preparation => start = "preparing"

SupervisorOrder ==
  /\ start \in BeforeHandoff => sup = "none"
  /\ sup = "none" => ~publishing /\ ~exec.cycle
  /\ sup = "stopped" => /\ ~publishing /\ leaseRelease # "out"
                        /\ exec.cycle => leaseRelease = "thrown"

ControlInv == ControlType /\ RunBegun /\ StopStands /\ BootOrder /\ SupervisorOrder

-------------------------------------------------------------------------------
(* The active service: its run journal. *)

RunRecord ==
  [state : {"NEVER_STARTED", "RUNNING", "STOPPED", "FAILED", "BLOCKED"},
   startedAt : Int, updatedAt : Int, outcome : Reasons \cup {"none", "crash-loop-open"},
   lastStatusAt : Int, windowAt : Int, count : Nat, failureAt : Int]

JournalType ==
  /\ clock \in Nat /\ started \in Nat /\ stopped \in Nat
  /\ run \in RunRecord
  /\ failures \in Seq([at : Nat, nth : Nat])

\* The record of a run in progress was last written by its start or by its last status.
LastWrite ==
  run.state = "RUNNING" =>
    run.updatedAt = IF run.lastStatusAt = Unset THEN run.startedAt ELSE run.lastStatusAt

\* The first failure of the window that the j-th failure was counted in.
Anchor(j) == j - failures[j].nth + 1

\* The failures come in the order of their times, fall into windows of MaximumFailures at most,
\* and a window opens once the one before it is over.
Windows ==
  \A j \in 1 .. Len(failures) :
    /\ failures[j].nth \in 1 .. MaximumFailures /\ Anchor(j) >= 1
    /\ failures[j].at <= run.updatedAt
    /\ \A i \in 1 .. j : failures[i].at <= failures[j].at
    /\ Anchor(j) > 1 =>
         failures[Anchor(j)].at >= failures[Anchor(Anchor(j) - 1)].at + FailureWindowSeconds

\* The record's window is the one of the last failure, until it is over.
CurrentWindow ==
  LET n == Len(failures) IN
  /\ run.count > 0 => n > 0 /\ run.count = failures[n].nth /\ run.windowAt = failures[Anchor(n)].at
  /\ run.count = 0 /\ n > 0 => run.updatedAt >= failures[Anchor(n)].at + FailureWindowSeconds

JournalInv ==
  JournalType /\ RunsAccounted /\ Readable(run) /\ LastWrite /\ Windows /\ CurrentWindow

-------------------------------------------------------------------------------
(* The recovery service. *)

LoopReport ==
  [state : {"idle", "running", "active", "inactive", "stopped"}, attempted : BOOLEAN,
   lastSuccess : {"never", "this attempt", "earlier"}, failures : Nat, steps : Int, results : Int,
   cycleDigest : BOOLEAN, record : {"release"}]
ActionLoop == [at : {"none", "lease", "step", "crossed"}, job : Nat, report : LoopReport]

RecoveryType ==
  /\ rStart \in Starts /\ rBoot \in Lifecycles /\ rSup \in Lifecycles
  /\ rBootPublishing \in BOOLEAN /\ rPreparation \in BOOLEAN
  /\ rPublishing \in {"none", "refreshing", "writing"}
  /\ rVerification \in BOOLEAN /\ rVerificationStopped \in BOOLEAN
  /\ rLoop \in ActionLoop
  /\ rLoopStopped \in BOOLEAN /\ rFence \in BOOLEAN /\ rJobSetLease \in BOOLEAN
  /\ rStore \in {"open", "closed"} /\ rLease \in {"held", "released"}
  /\ rLateEffects \in Nat

\* The store is closed by a bootstrap that has stopped, and a free lease has no process.
RecoveryResources ==
  /\ rStore = "closed" => rLease = "released" \/ rBoot = "stopped"
  /\ rLease = "released" => /\ rStore = "closed" /\ rStart = "none" /\ rBoot = "none" /\ rSup = "none"
                            /\ ~rBootPublishing /\ ~rPreparation

RecoveryBootOrder ==
  /\ rBoot = "stopped" => ~rBootPublishing /\ ~rPreparation /\ rSup \in {"none", "stopped"}
  /\ rStart = "verifying" => rBoot = "none" /\ ~rBootPublishing
  /\ rPreparation => rStart = "preparing"
  /\ rStart \in BeforeHandoff => rSup = "none"

\* What the loop does hangs on the job-set lease, which the supervisor waits for.
RecoveryLoopOrder ==
  /\ rSup \in {"none", "stopped"} => rPublishing = "none" /\ ~rJobSetLease
  /\ rLoop.at # "none" => rJobSetLease
  /\ rSup \in {"none", "starting"} => rLoop = Recovery!NoLoop /\ ~rLoopStopped
  /\ rSup \in {"starting", "running"} => rJobSetLease /\ ~rLoopStopped
  /\ rSup \in {"stopping", "stopped"} => rLoopStopped
  /\ rFence => rLoop.at # "none" /\ ~rLoopStopped

\* A stop revokes for good: the refresh that answers late finds the verification stopped.
RecoveryRevoked ==
  /\ rBoot \in {"stopping", "stopped"} => ~rVerification /\ rSup \in {"none", "stopping", "stopped"}
  /\ rSup \in {"stopping", "stopped"} => ~rVerification /\ rVerificationStopped

\* One effect at most is between its fence and its mutation.
RecoveryEffects ==
  /\ ~rLoopStopped => rLateEffects = 0
  /\ rLoop.at = "crossed" => rLateEffects = 0
  /\ rLateEffects <= 1

\* What the loop reports is valid unless it is inactive, which is never published.
RecoveryReports ==
  LET report == rLoop.report IN
  /\ report.lastSuccess # "never" => report.attempted
  /\ rLoop.at # "none" => report.attempted
  /\ rLoop.at # "none" /\ ~rLoopStopped => report.state = "running"
  /\ report.state # "inactive" => Recovery!RecoveryActionValid(report, JobCount)

RecoveryInv ==
  /\ RecoveryType /\ RecoveryResources /\ RecoveryBootOrder /\ RecoveryLoopOrder
  /\ RecoveryRevoked /\ RecoveryEffects /\ RecoveryReports

-------------------------------------------------------------------------------
(* The control of the active service keeps its order. *)

\* A host that starts has a process that is down.
LEMMA ActiveControlInit == ActiveInit => ControlInv
<1> SUFFICES ASSUME ActiveInit PROVE ControlInv
  OBVIOUS
<1>1. exec \in [state : {"idle", "running", "active", "degraded", "stopped"}, cycle : BOOLEAN]
  BY DEF ActiveInit
<1>2. ControlType
  BY <1>1 DEF ActiveInit, ControlType, Starts, Lifecycles
<1>3. RunBegun /\ StopStands /\ BootOrder /\ SupervisorOrder
  BY DEF ActiveInit, RunBegun, StopStands, BootOrder, SupervisorOrder, BeforeHandoff
<1> QED BY <1>2, <1>3 DEF ControlInv

\* A stop of the bootstrap leaves a supervisor that stops, or none and no release.
LEMMA StopBootKeeps ==
  ASSUME ControlInv, NEW why \in Reasons, StopBoot(why), boot # "stopped",
         UNCHANGED proc, publishing' \in BOOLEAN, publishing' => publishing,
         run'.state = run.state,
         start' \in Starts, start' \in BeforeHandoff => sup = "none",
         start' = "verifying" => start = "verifying" /\ boot = "none",
         bootPublishing' \in BOOLEAN, preparation' \in BOOLEAN,
         preparation' => start' = "preparing",
         start # "verifying"
  PROVE  ControlInv'
<1> USE DEF ControlInv, StopBoot, HaltSupervisor
<1>1. ControlType'
  BY DEF ControlType, Lifecycles, Reasons
<1>2. RunBegun' /\ StopStands'
  BY DEF RunBegun, StopStands, Reasons, ControlType, Lifecycles
<1>3. BootOrder'
  BY DEF BootOrder, ControlType
<1>4. SupervisorOrder'
  BY DEF SupervisorOrder, ControlType, BeforeHandoff
<1> QED BY <1>1, <1>2, <1>3, <1>4

\* Where nothing of the bootstrap, the supervisor and the lifecycle changes.
LEMMA KeepKeeps ==
  ASSUME ControlInv, Keep, UNCHANGED proc, publishing' \in BOOLEAN, publishing' => publishing,
         run'.state = run.state,
         start' \in Starts, start' \in BeforeHandoff => sup = "none",
         start' # "verifying",
         bootPublishing' \in BOOLEAN, preparation' \in BOOLEAN,
         preparation' => start' = "preparing",
         boot = "stopped" => ~bootPublishing' /\ ~preparation'
  PROVE  ControlInv'
BY DEF ControlInv, Keep, ControlType, RunBegun, StopStands, BootOrder, SupervisorOrder, Lifecycles

\* A start that fails stops the bootstrap with its reason.
LEMMA FailStartKeeps ==
  ASSUME ControlInv, NEW why \in Reasons, FailStart(why),
         UNCHANGED proc, publishing' \in BOOLEAN, publishing' => publishing,
         run'.state = run.state,
         start' \in Starts, start' \in BeforeHandoff => sup = "none",
         start # "verifying", start' # "verifying",
         bootPublishing' \in BOOLEAN, preparation' \in BOOLEAN,
         preparation' => start' = "preparing",
         boot = "stopped" => ~bootPublishing' /\ ~preparation'
  PROVE  ControlInv'
<1>1. CASE boot = "starting"
  <2>1. StopBoot(why)
    BY <1>1 DEF FailStart
  <2> QED BY <1>1, <2>1, StopBootKeeps
<1>2. CASE boot # "starting"
  <2>1. Keep
    BY <1>2 DEF FailStart, Keep
  <2> QED BY <2>1, KeepKeeps
<1> QED BY <1>1, <1>2

\* A status touches the record of the run without ending it.
LEMMA RecordedState == ASSUME JournalType, NEW ok, Recorded(ok) PROVE run'.state = run.state
BY DEF Recorded, RecordStatus, JournalType, RunRecord

\* Every step of the active process keeps the order of its control: one case per action.
LEMMA ActiveControlStep == ASSUME ControlInv, JournalType, ActiveNext PROVE ControlInv'
<1>1. CASE Launch
  <2>1. CASE /\ run'.state = "RUNNING" /\ FreshProcess("starting")
             /\ start' = "verifying" /\ store' = "open" /\ release' = "inactive" /\ reason' = "none"
    <3>1. /\ exec' \in [state : {"idle", "running", "active", "degraded", "stopped"}, cycle : BOOLEAN]
          /\ ~exec'.cycle
      BY <2>1 DEF FreshProcess
    <3>2. /\ ~bootPublishing' /\ ~preparation' /\ ~publishing'
          /\ bootPublishing' \in BOOLEAN /\ preparation' \in BOOLEAN /\ publishing' \in BOOLEAN
      BY <2>1 DEF FreshProcess
    <3> QED
      BY <2>1, <3>1, <3>2 DEF FreshProcess, ControlInv, ControlType, RunBegun, StopStands,
              BootOrder, SupervisorOrder, Starts, Lifecycles, BeforeHandoff
  <2>2. CASE UNCHANGED procVars
    <3>1. proc' = "down"
      BY <1>1, <2>2 DEF Launch, procVars
    <3> QED
      BY <2>2, <3>1 DEF procVars, ControlInv, ControlType, RunBegun, StopStands,
              BootOrder, SupervisorOrder
  <2> QED BY <1>1, <2>1, <2>2 DEF Launch
<1>2. ASSUME NEW ok \in BOOLEAN, FirstRefreshEnds(ok) PROVE ControlInv'
  <2>1. /\ start = "verifying" /\ proc = "starting" /\ proc' = "up" /\ run' = run /\ sup = "none"
        /\ UNCHANGED <<preparation, sup, publishing, exec, leaseRelease>>
    BY <1>2 DEF FirstRefreshEnds, ControlInv, SupervisorOrder, BeforeHandoff
  <2>2. ~preparation /\ ~bootPublishing
    BY <2>1 DEF ControlInv, BootOrder
  <2>3. CASE /\ boot' = "starting" /\ start' = "first status" /\ bootPublishing' = TRUE
             /\ release' = "active" /\ UNCHANGED reason
    <3>1. bootPublishing' \in BOOLEAN
      BY <2>3
    <3> QED
      BY <2>1, <2>2, <2>3, <3>1 DEF ControlInv, ControlType, RunBegun, StopStands,
              BootOrder, SupervisorOrder, Starts, Lifecycles, BeforeHandoff
  <2>4. CASE /\ boot' = "stopped" /\ start' = "failed" /\ release' = "stopped"
             /\ reason' \in {"startup-failure", "aborted"} /\ UNCHANGED bootPublishing
    BY <2>1, <2>2, <2>4 DEF ControlInv, ControlType, RunBegun, StopStands,
              BootOrder, SupervisorOrder, Starts, Lifecycles, BeforeHandoff, Reasons
  <2> QED BY <1>2, <2>3, <2>4 DEF FirstRefreshEnds
<1>3. ASSUME NEW ok \in BOOLEAN, BootPublicationEnds(ok) PROVE ControlInv'
  <2>1. /\ run'.state = run.state /\ start # "verifying" /\ boot # "stopped"
        /\ UNCHANGED <<proc, publishing>>
    BY <1>3, RecordedState DEF BootPublicationEnds, ControlInv, BootOrder
  <2>b. ~bootPublishing' /\ bootPublishing' \in BOOLEAN /\ publishing \in BOOLEAN
    BY <1>3 DEF BootPublicationEnds, ControlInv, ControlType
  <2>2. CASE ok /\ start = "first status" /\ start' = "preparing" /\ preparation' = TRUE /\ Keep
    <3>1. preparation' \in BOOLEAN
      BY <2>2
    <3>2. sup = "none" /\ start' \in Starts /\ start' # "verifying"
      BY <2>2 DEF ControlInv, SupervisorOrder, BeforeHandoff, Starts
    <3> QED BY <2>1, <2>b, <2>2, <3>1, <3>2, KeepKeeps
  <2>3. CASE ok /\ start = "preparing" /\ Keep /\ UNCHANGED <<start, preparation>>
    BY <2>1, <2>b, <2>3, KeepKeeps DEF ControlInv, ControlType, SupervisorOrder, BeforeHandoff, Starts
  <2>4. CASE ok /\ start = "handoff" /\ Handoff /\ UNCHANGED preparation
    <3>1. ~preparation' /\ preparation' \in BOOLEAN /\ sup = "none"
      BY <2>4 DEF ControlInv, ControlType, BootOrder, SupervisorOrder, BeforeHandoff
    <3>2. CASE start' = "lease" /\ Keep
      BY <2>1, <2>b, <3>1, <3>2, KeepKeeps DEF Starts
    <3>3. CASE start' = "failed" /\ FailStart("startup-failure")
      BY <2>1, <2>b, <3>1, <3>3, FailStartKeeps DEF Starts, Reasons
    <3> QED BY <2>4, <3>2, <3>3 DEF Handoff
  <2>5. CASE /\ ~ok
             /\ start' = IF start = "preparing" THEN start ELSE "failed"
             /\ FailStart(IF start = "first status" THEN "startup-failure" ELSE "background-failure")
             /\ UNCHANGED preparation
    <3>1. PICK why \in Reasons : FailStart(why)
      BY <2>5 DEF Reasons
    <3>2. /\ start' \in Starts /\ start' # "verifying" /\ preparation' \in BOOLEAN
          /\ start' \in BeforeHandoff => sup = "none"
          /\ preparation' => start' = "preparing"
      BY <2>5 DEF ControlInv, ControlType, BootOrder, SupervisorOrder, BeforeHandoff, Starts
    <3> QED BY <2>1, <2>b, <3>1, <3>2, FailStartKeeps
  <2> QED BY <1>3, <2>2, <2>3, <2>4, <2>5 DEF BootPublicationEnds
<1>4. ASSUME NEW ok \in BOOLEAN, PreparationEnds(ok) PROVE ControlInv'
  <2>1. /\ run' = run /\ start = "preparing" /\ boot # "stopped" /\ sup = "none"
        /\ UNCHANGED <<proc, publishing, bootPublishing>>
        /\ bootPublishing \in BOOLEAN /\ publishing \in BOOLEAN
    BY <1>4 DEF PreparationEnds, KeepRest, ControlInv, ControlType, BootOrder, SupervisorOrder,
                BeforeHandoff
  <2>b. ~preparation' /\ preparation' \in BOOLEAN
    BY <1>4 DEF PreparationEnds
  <2>2. CASE start' \in {"handoff", "lease"} /\ Keep
    BY <2>1, <2>b, <2>2, KeepKeeps DEF Starts
  <2>3. CASE start' = "failed" /\ FailStart("startup-failure")
    BY <2>1, <2>b, <2>3, FailStartKeeps DEF Starts, Reasons
  <2> QED BY <1>4, <2>2, <2>3 DEF PreparationEnds, Handoff
<1>5. ASSUME NEW ok \in BOOLEAN, HandoffLeaseEnds(ok) PROVE ControlInv'
  <2>1. CASE ok /\ release = "active"
    <3>1. /\ start' = "first cycle" /\ sup' = "starting"
          /\ exec' = [state |-> "running", cycle |-> TRUE]
          /\ UNCHANGED <<boot, reason, leaseRelease, release, bootPublishing, preparation, publishing>>
          /\ start = "lease" /\ KeepRest
      BY <1>5, <2>1 DEF HandoffLeaseEnds
    <3>2. exec' \in [state : {"idle", "running", "active", "degraded", "stopped"}, cycle : BOOLEAN]
      BY <3>1
    <3> QED
      BY <2>1, <3>1, <3>2 DEF KeepRest, ControlInv, ControlType, RunBegun, StopStands,
              BootOrder, SupervisorOrder, Starts, Lifecycles, BeforeHandoff
  <2>2. CASE start' = "failed" /\ FailStart("startup-failure")
    <3>1. /\ run' = run /\ start # "verifying"
          /\ UNCHANGED <<proc, publishing, bootPublishing, preparation>>
      BY <1>5 DEF HandoffLeaseEnds, KeepRest
    <3>2. /\ ~preparation /\ preparation \in BOOLEAN /\ bootPublishing \in BOOLEAN
          /\ publishing \in BOOLEAN
          /\ boot = "stopped" => ~bootPublishing
      BY <1>5 DEF HandoffLeaseEnds, ControlInv, BootOrder, ControlType
    <3> QED BY <2>2, <3>1, <3>2, FailStartKeeps DEF Starts, Reasons, BeforeHandoff
  <2> QED BY <1>5, <2>1, <2>2 DEF HandoffLeaseEnds
<1>6. ASSUME NEW ok \in BOOLEAN, PublicationEnds(ok) PROVE ControlInv'
  <2>1. /\ run'.state = run.state /\ publishing' = FALSE /\ sup \notin {"none", "stopped"}
        /\ UNCHANGED <<proc, bootPublishing, preparation>>
    BY <1>6, RecordedState DEF PublicationEnds, ControlInv, SupervisorOrder
  <2>2. /\ start \notin BeforeHandoff /\ boot # "stopped" /\ preparation' = FALSE
        /\ bootPublishing' \in BOOLEAN
    BY <2>1 DEF ControlInv, ControlType, BootOrder, SupervisorOrder, BeforeHandoff
  <2>3. CASE SupervisorFails
    <3>1. CASE sup = "starting" /\ StopBoot("startup-failure") /\ start' = "failed"
      BY <2>1, <2>2, <3>1, StopBootKeeps DEF Starts, Reasons, BeforeHandoff
    <3>2. CASE sup = "running" /\ HaltSupervisor /\ reason' = "background-failure"
               /\ UNCHANGED <<boot, start>>
      <4>1. exec' \in [state : {"idle", "running", "active", "degraded", "stopped"}, cycle : BOOLEAN]
        BY <3>2 DEF HaltSupervisor, ControlInv, ControlType
      <4> QED
        BY <2>1, <2>2, <3>2, <4>1 DEF HaltSupervisor, ControlInv, ControlType, RunBegun, StopStands,
              BootOrder, SupervisorOrder, Lifecycles, Reasons
    <3>3. CASE Keep /\ UNCHANGED start
      BY <2>1, <2>2, <3>3, KeepKeeps DEF ControlInv, ControlType, BeforeHandoff
    <3> QED BY <2>3, <3>1, <3>2, <3>3 DEF SupervisorFails
  <2>4. CASE /\ sup' = "running" /\ boot' = "running" /\ start' = "done"
             /\ UNCHANGED <<reason, leaseRelease, release, exec>>
    <3>1. proc # "cleaning"
      BY <2>2 DEF ControlInv, BootOrder
    <3> QED
      BY <2>1, <2>2, <2>4, <3>1 DEF ControlInv, ControlType, RunBegun, StopStands,
              BootOrder, SupervisorOrder, Lifecycles, Starts, BeforeHandoff
  <2>5. CASE Keep /\ start' = IF start = "supervisor" THEN "failed" ELSE start
    BY <2>1, <2>2, <2>5, KeepKeeps DEF ControlInv, ControlType, Starts, BeforeHandoff
  <2> QED BY <1>6, <2>3, <2>4, <2>5 DEF PublicationEnds
<1>7. ASSUME NEW how \in {"done", "thrown"}, LeaseReleaseEnds(how) PROVE ControlInv'
  BY <1>7 DEF LeaseReleaseEnds, KeepRest, ControlInv, ControlType, RunBegun, StopStands,
              BootOrder, SupervisorOrder
<1>8. ASSUME NEW state \in {"active", "degraded", "inactive"}, CycleEnds(state) PROVE ControlInv'
  <2>1. /\ KeepRest /\ UNCHANGED <<bootPublishing, preparation>> /\ exec.cycle /\ sup # "none"
    BY <1>8 DEF CycleEnds, ControlInv, SupervisorOrder
  <2>2. start \notin BeforeHandoff
    BY <2>1 DEF ControlInv, SupervisorOrder
  <2>3. /\ exec' \in [state : {"idle", "running", "active", "degraded", "stopped"}, cycle : BOOLEAN]
        /\ ~exec'.cycle
    <3>1. PICK x \in {"idle", "running", "active", "degraded", "stopped"} :
            exec' = [state |-> x, cycle |-> FALSE]
      BY <1>8 DEF CycleEnds, ControlInv, ControlType
    <3> QED BY <3>1
  <2>4. CASE sup = "running" /\ state # "inactive"
    BY <1>8, <2>1, <2>2, <2>3, <2>4 DEF CycleEnds, KeepRest, ControlInv, ControlType, RunBegun,
       StopStands, BootOrder, SupervisorOrder
  <2>5. CASE sup = "starting" /\ state # "inactive"
    BY <1>8, <2>1, <2>2, <2>3, <2>5 DEF CycleEnds, KeepRest, ControlInv, ControlType, RunBegun,
       StopStands, BootOrder, SupervisorOrder, Starts, BeforeHandoff
  <2>6. CASE sup = "starting" /\ state = "inactive"
    BY <1>8, <2>1, <2>2, <2>3, <2>6 DEF CycleEnds, KeepRest, ControlInv, ControlType, RunBegun,
       StopStands, BootOrder, SupervisorOrder, Starts, BeforeHandoff, Lifecycles, Reasons
  <2>7. CASE sup = "running" /\ state = "inactive"
    BY <1>8, <2>1, <2>2, <2>3, <2>7 DEF CycleEnds, KeepRest, ControlInv, ControlType, RunBegun,
       StopStands, BootOrder, SupervisorOrder, Starts, BeforeHandoff, Lifecycles, Reasons
  <2>8. CASE sup \in {"stopping", "stopped"}
    BY <1>8, <2>1, <2>2, <2>3, <2>8 DEF CycleEnds, KeepRest, ControlInv, ControlType, RunBegun,
       StopStands, BootOrder, SupervisorOrder
  <2> QED BY <1>8, <2>4, <2>5, <2>6, <2>7, <2>8 DEF CycleEnds
<1>9. CASE SupervisorDrains
  <2>1. ~publishing /\ leaseRelease # "out" /\ (exec.cycle => leaseRelease = "thrown")
    BY <1>9 DEF SupervisorDrains
  <2>2. start \notin BeforeHandoff /\ boot # "stopped"
    BY <1>9 DEF SupervisorDrains, ControlInv, BootOrder, SupervisorOrder
  <2> QED
    BY <1>9, <2>1, <2>2 DEF SupervisorDrains, KeepRest, ControlInv, ControlType, RunBegun, StopStands,
              BootOrder, SupervisorOrder, Lifecycles
<1>10. CASE BootFollows
  <2>1. /\ start # "verifying" /\ boot # "stopped" /\ run' = run
        /\ UNCHANGED <<proc, start, bootPublishing, preparation, publishing>>
        /\ StopBoot("background-failure")
    BY <1>10 DEF BootFollows, KeepRest, ControlInv, BootOrder
  <2> QED BY <2>1, StopBootKeeps DEF ControlInv, ControlType, BootOrder, SupervisorOrder, Reasons
<1>11. CASE BootDrains
  BY <1>11 DEF BootDrains, KeepRest, ControlInv, ControlType, RunBegun, StopStands,
              BootOrder, SupervisorOrder, Lifecycles
<1>12. CASE Cleanup
  BY <1>12 DEF Cleanup, ControlInv, ControlType, RunBegun, StopStands, BootOrder, SupervisorOrder
<1>13. CASE Exit \/ Crash
  <2>1. /\ exec' \in [state : {"idle", "running", "active", "degraded", "stopped"}, cycle : BOOLEAN]
        /\ ~exec'.cycle
    <3>1. exec' = [state |-> "idle", cycle |-> FALSE]
      BY <1>13 DEF Exit, Crash, FreshProcess
    <3> QED BY <3>1
  <2>2. /\ ~bootPublishing' /\ ~preparation' /\ ~publishing'
        /\ bootPublishing' \in BOOLEAN /\ preparation' \in BOOLEAN /\ publishing' \in BOOLEAN
    BY <1>13 DEF Exit, Crash, FreshProcess
  <2> QED
    BY <1>13, <2>1, <2>2 DEF Exit, Crash, FreshProcess, ControlInv, ControlType, RunBegun, StopStands,
                BootOrder, SupervisorOrder, Starts, Lifecycles, BeforeHandoff
<1>14. CASE BootBeat
  <2>1. /\ start = "preparing" /\ boot = "starting" /\ run' = run
        /\ UNCHANGED <<proc, start, preparation, publishing>>
    BY <1>14 DEF BootBeat, KeepRest
  <2>2. CASE bootPublishing' = TRUE /\ Keep
    BY <2>1, <2>2, KeepKeeps DEF ControlInv, ControlType, BootOrder, SupervisorOrder
  <2>3. CASE StopBoot("background-failure") /\ UNCHANGED bootPublishing
    BY <2>1, <2>3, StopBootKeeps DEF ControlInv, ControlType, BootOrder, SupervisorOrder, Reasons
  <2> QED BY <1>14, <2>2, <2>3 DEF BootBeat
<1>15. CASE PreparationTimeout
  <2>1. /\ start = "preparing" /\ boot = "starting" /\ run' = run
        /\ UNCHANGED <<proc, start, bootPublishing, preparation, publishing>>
        /\ StopBoot("background-failure")
    BY <1>15 DEF PreparationTimeout, KeepRest, ControlInv, BootOrder
  <2> QED BY <2>1, StopBootKeeps DEF ControlInv, ControlType, BootOrder, SupervisorOrder, Reasons
<1>16. CASE StartCycle
  <2>1. exec' \in [state : {"idle", "running", "active", "degraded", "stopped"}, cycle : BOOLEAN]
    BY <1>16 DEF StartCycle
  <2> QED
    BY <1>16, <2>1 DEF StartCycle, KeepRest, ControlInv, ControlType, RunBegun, StopStands,
                BootOrder, SupervisorOrder
<1>17. CASE SupervisorBeat
  <2>1. /\ sup = "running" /\ start \notin BeforeHandoff /\ boot # "stopped" /\ KeepRest
        /\ UNCHANGED <<bootPublishing, preparation>>
    BY <1>17 DEF SupervisorBeat, ControlInv, BootOrder, SupervisorOrder
  <2>2. CASE publishing' = TRUE /\ Keep /\ UNCHANGED start
    BY <2>1, <2>2 DEF Keep, KeepRest, ControlInv, ControlType, RunBegun, StopStands,
       BootOrder, SupervisorOrder
  <2>3. CASE SupervisorFails /\ UNCHANGED publishing
    <3>1. exec' \in [state : {"idle", "running", "active", "degraded", "stopped"}, cycle : BOOLEAN]
      BY <2>1, <2>3 DEF SupervisorFails, HaltSupervisor, ControlInv, ControlType
    <3> QED
      BY <2>1, <2>3, <3>1 DEF SupervisorFails, HaltSupervisor, KeepRest, ControlInv, ControlType,
         RunBegun, StopStands, BootOrder, SupervisorOrder, Lifecycles, Reasons
  <2> QED BY <1>17, <2>2, <2>3 DEF SupervisorBeat
<1>18. ASSUME NEW why \in {"requested", "aborted"}, Stop(why) PROVE ControlInv'
  <2>1. /\ start # "verifying" /\ boot # "stopped" /\ run' = run /\ why \in Reasons
        /\ UNCHANGED <<proc, start, bootPublishing, preparation, publishing>>
        /\ StopBoot(why)
    BY <1>18 DEF Stop, KeepRest, ControlInv, BootOrder, Reasons
  <2> QED BY <2>1, StopBootKeeps DEF ControlInv, ControlType, BootOrder, SupervisorOrder
<1>19. CASE Expire
  BY <1>19 DEF Expire, KeepRest, ControlInv, ControlType, RunBegun, StopStands, BootOrder,
               SupervisorOrder
<1>20. ASSUME NEW t \in 0 .. MaxClock, SetClock(t) PROVE ControlInv'
  BY <1>20 DEF SetClock, procVars, ControlInv, ControlType, RunBegun, StopStands, BootOrder,
               SupervisorOrder
<1> QED
  BY <1>1, <1>2, <1>3, <1>4, <1>5, <1>6, <1>7, <1>8, <1>9, <1>10, <1>11, <1>12, <1>13, <1>14,
     <1>15, <1>16, <1>17, <1>18, <1>19, <1>20 DEF ActiveNext, Answers, Shutdown

-------------------------------------------------------------------------------
(* What the operations of the run journal write. *)

\* The record with its window forgotten once that is over.
Kept(r) == IF Expired(r) THEN Forget(r) ELSE r

\* A record keeps its type when one field is replaced: one lemma per field.
LEMMA SetCount == ASSUME NEW r \in RunRecord, NEW n \in Nat PROVE [r EXCEPT !.count = n] \in RunRecord
BY DEF RunRecord
LEMMA SetWindow == ASSUME NEW r \in RunRecord, NEW t \in Int PROVE [r EXCEPT !.windowAt = t] \in RunRecord
BY DEF RunRecord
LEMMA SetFailure == ASSUME NEW r \in RunRecord, NEW t \in Int PROVE [r EXCEPT !.failureAt = t] \in RunRecord
BY DEF RunRecord
LEMMA SetStarted == ASSUME NEW r \in RunRecord, NEW t \in Int PROVE [r EXCEPT !.startedAt = t] \in RunRecord
BY DEF RunRecord
LEMMA SetUpdated == ASSUME NEW r \in RunRecord, NEW t \in Int PROVE [r EXCEPT !.updatedAt = t] \in RunRecord
BY DEF RunRecord
LEMMA SetStatus == ASSUME NEW r \in RunRecord, NEW t \in Int PROVE [r EXCEPT !.lastStatusAt = t] \in RunRecord
BY DEF RunRecord
LEMMA SetState ==
  ASSUME NEW r \in RunRecord, NEW x \in {"NEVER_STARTED", "RUNNING", "STOPPED", "FAILED", "BLOCKED"}
  PROVE  [r EXCEPT !.state = x] \in RunRecord
BY DEF RunRecord
LEMMA SetOutcome ==
  ASSUME NEW r \in RunRecord, NEW x \in Reasons \cup {"none", "crash-loop-open"}
  PROVE  [r EXCEPT !.outcome = x] \in RunRecord
BY DEF RunRecord

\* What beginServiceRun and finishServiceRun keep of the record they find.
LEMMA KeptFields ==
  ASSUME NEW r \in RunRecord, clock \in Nat
  PROVE  /\ Kept(r) \in RunRecord
         /\ Kept(r).state = r.state /\ Kept(r).startedAt = r.startedAt
         /\ Kept(r).updatedAt = r.updatedAt /\ Kept(r).lastStatusAt = r.lastStatusAt
         /\ Expired(r) => Kept(r).count = 0 /\ Kept(r).windowAt = Unset /\ Kept(r).failureAt = Unset
         /\ ~Expired(r) => Kept(r) = r
<1>1. Unset \in Int
  BY DEF Unset
<1>2. PICK r1 \in RunRecord : r1 = [r EXCEPT !.count = 0]
  BY SetCount
<1>3. PICK r2 \in RunRecord : r2 = [r1 EXCEPT !.windowAt = Unset]
  BY <1>1, SetWindow
<1>4. PICK r3 \in RunRecord : r3 = [r2 EXCEPT !.failureAt = Unset]
  BY <1>1, SetFailure
<1>5. Forget(r) \in RunRecord
  BY <1>2, <1>3, <1>4 DEF Forget
<1>6. Kept(r) \in RunRecord
  BY <1>5 DEF Kept
<1> QED BY <1>6 DEF Kept, Forget, RunRecord

\* A failure raises the count by one and opens a window where there is none.
LEMMA CountFailureFields ==
  ASSUME NEW r \in RunRecord, clock \in Nat
  PROVE  /\ CountFailure(r) \in RunRecord
         /\ CountFailure(r).state = r.state /\ CountFailure(r).startedAt = r.startedAt
         /\ CountFailure(r).lastStatusAt = r.lastStatusAt
         /\ CountFailure(r).count = r.count + 1 /\ CountFailure(r).failureAt = clock
         /\ CountFailure(r).windowAt = IF r.windowAt = Unset THEN clock ELSE r.windowAt
<1>1. r.count + 1 \in Nat /\ (IF r.windowAt = Unset THEN clock ELSE r.windowAt) \in Int /\ clock \in Int
  BY DEF RunRecord
<1>2. PICK r1 \in RunRecord : r1 = [r EXCEPT !.count = r.count + 1]
  BY <1>1, SetCount
<1>3. PICK r2 \in RunRecord : r2 = [r1 EXCEPT !.failureAt = clock]
  BY <1>1, SetFailure
<1>4. PICK r3 \in RunRecord : r3 = [r2 EXCEPT !.windowAt = IF r.windowAt = Unset THEN clock ELSE r.windowAt]
  BY <1>1, SetWindow
<1>5. CountFailure(r) = r3
  <2>1. r2.windowAt = r.windowAt
    BY <1>2, <1>3 DEF RunRecord
  <2> QED BY <1>2, <1>3, <1>4, <2>1 DEF CountFailure
<1> QED BY <1>2, <1>3, <1>4, <1>5 DEF RunRecord

\* A run found RUNNING counts as one failure.
LEMMA RecoveredFields ==
  ASSUME NEW r \in RunRecord, clock \in Nat
  PROVE  /\ Recovered(r) \in RunRecord
         /\ Recovered(r) = IF r.state = "RUNNING" THEN CountFailure(Kept(r)) ELSE Kept(r)
BY KeptFields, CountFailureFields DEF Recovered, Kept

\* What beginServiceRun writes, field by field.
LEMMA BeginFields ==
  ASSUME NEW r \in RunRecord, clock \in Nat, ActiveAssumption
  PROVE  /\ Begin(r) \in RunRecord
         /\ Begin(r).count = Recovered(r).count /\ Begin(r).windowAt = Recovered(r).windowAt
         /\ Begin(r).failureAt = Recovered(r).failureAt
         /\ Begin(r).startedAt = clock /\ Begin(r).updatedAt = clock /\ Begin(r).lastStatusAt = Unset
         /\ \/ /\ Begin(r).count >= MaximumFailures /\ Begin(r).state = "BLOCKED"
            \/ /\ Begin(r).count < MaximumFailures /\ Begin(r).state = "RUNNING"
               /\ Begin(r).outcome = "none"
<1> DEFINE q == Recovered(r)
<1>1. q \in RunRecord
  BY RecoveredFields
<1>2. Begin(r) = [q EXCEPT !.state = IF q.count >= MaximumFailures THEN "BLOCKED" ELSE "RUNNING",
                  !.outcome = IF q.count >= MaximumFailures THEN "crash-loop-open" ELSE "none",
                  !.startedAt = clock, !.updatedAt = clock, !.lastStatusAt = Unset]
  BY DEF Begin
<1> HIDE DEF q
<1>3. Begin(r) \in RunRecord
  <2>1. /\ Unset \in Int /\ clock \in Int
        /\ (IF q.count >= MaximumFailures THEN "BLOCKED" ELSE "RUNNING")
             \in {"NEVER_STARTED", "RUNNING", "STOPPED", "FAILED", "BLOCKED"}
        /\ (IF q.count >= MaximumFailures THEN "crash-loop-open" ELSE "none")
             \in Reasons \cup {"none", "crash-loop-open"}
    BY DEF Unset
  <2>2. PICK r1 \in RunRecord : r1 = [q EXCEPT !.state = IF q.count >= MaximumFailures THEN "BLOCKED" ELSE "RUNNING"]
    BY <1>1, <2>1, SetState
  <2>3. PICK r2 \in RunRecord : r2 = [r1 EXCEPT !.outcome = IF q.count >= MaximumFailures THEN "crash-loop-open" ELSE "none"]
    BY <2>1, SetOutcome
  <2>4. PICK r3 \in RunRecord : r3 = [r2 EXCEPT !.startedAt = clock]
    BY <2>1, SetStarted
  <2>5. PICK r4 \in RunRecord : r4 = [r3 EXCEPT !.updatedAt = clock]
    BY <2>1, SetUpdated
  <2>6. PICK r5 \in RunRecord : r5 = [r4 EXCEPT !.lastStatusAt = Unset]
    BY <2>1, SetStatus
  <2> QED BY <1>2, <2>2, <2>3, <2>4, <2>5, <2>6
<1>4. /\ Begin(r).count = q.count /\ Begin(r).windowAt = q.windowAt
      /\ Begin(r).failureAt = q.failureAt
      /\ Begin(r).startedAt = clock /\ Begin(r).updatedAt = clock /\ Begin(r).lastStatusAt = Unset
  BY <1>1, <1>2 DEF RunRecord
<1>5. \/ /\ Begin(r).count >= MaximumFailures /\ Begin(r).state = "BLOCKED"
      \/ /\ Begin(r).count < MaximumFailures /\ Begin(r).state = "RUNNING"
         /\ Begin(r).outcome = "none"
  BY <1>1, <1>2 DEF RunRecord, ActiveAssumption
<1> QED BY <1>3, <1>4, <1>5 DEF q

\* What finishServiceRun writes, field by field.
LEMMA FinishFields ==
  ASSUME NEW r \in RunRecord, clock \in Nat, NEW why \in Reasons
  PROVE  /\ Finish(r, why) \in RunRecord
         /\ Finish(r, why).outcome = why /\ Finish(r, why).updatedAt = clock
         /\ Finish(r, why).startedAt = r.startedAt /\ Finish(r, why).lastStatusAt = r.lastStatusAt
         /\ why \in {"requested", "aborted"} =>
              /\ Finish(r, why).state = "STOPPED"
              /\ Finish(r, why).count = Kept(r).count /\ Finish(r, why).windowAt = Kept(r).windowAt
              /\ Finish(r, why).failureAt = Kept(r).failureAt
         /\ why \notin {"requested", "aborted"} =>
              /\ Finish(r, why).state = "FAILED"
              /\ Finish(r, why).count = Kept(r).count + 1 /\ Finish(r, why).failureAt = clock
              /\ Finish(r, why).windowAt = IF Kept(r).windowAt = Unset THEN clock ELSE Kept(r).windowAt
<1>0. clock \in Int
  OBVIOUS
<1> DEFINE k == Kept(r)
           c == CountFailure(k)
<1>1. k \in RunRecord /\ k.startedAt = r.startedAt /\ k.lastStatusAt = r.lastStatusAt
  BY KeptFields
<1>2. /\ c \in RunRecord /\ c.startedAt = r.startedAt /\ c.lastStatusAt = r.lastStatusAt
      /\ c.count = k.count + 1 /\ c.failureAt = clock
      /\ c.windowAt = IF k.windowAt = Unset THEN clock ELSE k.windowAt
  BY <1>1, CountFailureFields
<1>3. Finish(r, why) = IF why \in {"requested", "aborted"}
        THEN [k EXCEPT !.state = "STOPPED", !.outcome = why, !.updatedAt = clock]
        ELSE [c EXCEPT !.state = "FAILED", !.outcome = why, !.updatedAt = clock]
  BY DEF Finish, Kept
<1> HIDE DEF k, c
<1>4. CASE why \in {"requested", "aborted"}
  <2>1. PICK r1 \in RunRecord : r1 = [k EXCEPT !.state = "STOPPED"]
    BY <1>1, SetState
  <2>2. PICK r2 \in RunRecord : r2 = [r1 EXCEPT !.outcome = why]
    BY SetOutcome
  <2>3. PICK r3 \in RunRecord : r3 = [r2 EXCEPT !.updatedAt = clock]
    BY <1>0, SetUpdated
  <2>4. Finish(r, why) = r3
    BY <1>3, <1>4, <2>1, <2>2, <2>3
  <2> QED BY <1>1, <1>4, <2>1, <2>2, <2>3, <2>4 DEF RunRecord, k
<1>5. CASE why \notin {"requested", "aborted"}
  <2>1. PICK r1 \in RunRecord : r1 = [c EXCEPT !.state = "FAILED"]
    BY <1>2, SetState
  <2>2. PICK r2 \in RunRecord : r2 = [r1 EXCEPT !.outcome = why]
    BY SetOutcome
  <2>3. PICK r3 \in RunRecord : r3 = [r2 EXCEPT !.updatedAt = clock]
    BY <1>0, SetUpdated
  <2>4. Finish(r, why) = r3
    BY <1>3, <1>5, <2>1, <2>2, <2>3
  <2> QED BY <1>2, <1>5, <2>1, <2>2, <2>3, <2>4 DEF RunRecord, k
<1> QED BY <1>4, <1>5

-------------------------------------------------------------------------------
(* The windows of the recorded failures. *)

\* The types of the recorded failures and of the anchors of their windows.
LEMMA FailureFacts ==
  ASSUME JournalInv
  PROVE  /\ Len(failures) \in Nat
         /\ \A j \in 1 .. Len(failures) :
              /\ failures[j].at \in Nat /\ failures[j].nth \in Nat
              /\ Anchor(j) \in 1 .. j
<1> DEFINE Failure == [at : Nat, nth : Nat]
<1>1. failures \in Seq(Failure)
  BY DEF JournalInv, JournalType
<1>2. Len(failures) \in Nat /\ \A j \in 1 .. Len(failures) : failures[j] \in Failure
  <2> HIDE DEF Failure
  <2> QED BY <1>1
<1>3. ASSUME NEW j \in 1 .. Len(failures)
      PROVE  /\ failures[j].at \in Nat /\ failures[j].nth \in Nat
             /\ Anchor(j) \in 1 .. j
  <2>1. failures[j].at \in Nat /\ failures[j].nth \in Nat
    BY <1>2
  <2>2. failures[j].nth \in 1 .. MaximumFailures /\ Anchor(j) >= 1
    BY DEF JournalInv, Windows
  <2> QED BY <1>2, <2>1, <2>2 DEF Anchor
<1> QED BY <1>2, <1>3

\* A write that counts a failure: the next one of the window, or the first of a new window.
LEMMA FailureWrite ==
  ASSUME JournalInv, ActiveAssumption, clock >= run.updatedAt, run.state = "RUNNING",
         failures' = Append(failures, [at |-> clock, nth |-> run'.count]),
         run'.updatedAt = clock, run'.count = Kept(run).count + 1,
         run'.windowAt = IF Kept(run).windowAt = Unset THEN clock ELSE Kept(run).windowAt
  PROVE  Windows' /\ CurrentWindow' /\ Len(failures') = Len(failures) + 1
<1> DEFINE k == Kept(run)
<1>0. PICK n \in Nat : n = Len(failures)
  BY FailureFacts
<1>1. /\ run \in RunRecord /\ clock \in Nat /\ FailureWindowSeconds \in Nat \ {0}
      /\ MaximumFailures \in Nat \ {0}
      /\ n \in Nat /\ \A j \in 1 .. n : failures[j].at \in Nat /\ Anchor(j) \in 1 .. j
  BY <1>0, FailureFacts DEF JournalInv, JournalType, ActiveAssumption
<1>2. run.updatedAt \in Int /\ run.windowAt \in Int /\ run.count \in Nat
  BY <1>1 DEF RunRecord
<1>3. k \in RunRecord /\ k.count \in Nat /\ k.windowAt \in Int
  BY <1>1, KeptFields DEF RunRecord
<1>4. PICK c \in Nat : c = k.count + 1 /\ run'.count = c
  BY <1>3
<1>5. PICK f : f = [at |-> clock, nth |-> c]
  OBVIOUS
<1>6. failures' = Append(failures, f) /\ f.at = clock /\ f.nth = c
  BY <1>4, <1>5
<1>7. /\ Len(failures') = n + 1
      /\ failures'[n + 1] = f
      /\ \A j \in 1 .. n : failures'[j] = failures[j]
  <2> DEFINE Failure == [at : Nat, nth : Nat]
  <2>1. failures \in Seq(Failure) /\ f \in Failure
    BY <1>1, <1>5 DEF JournalInv, JournalType
  <2> HIDE DEF Failure
  <2> QED BY <1>0, <1>6, <2>1
<1>8. \A j \in 1 .. n : Anchor(j)' = Anchor(j)
  BY <1>7 DEF Anchor
<1>9. Anchor(n + 1)' = n + 2 - c
  BY <1>1, <1>4, <1>6, <1>7 DEF Anchor
\* What the record says of the window that the failure falls into.
<1>10. \/ /\ c > 1 /\ n > 0 /\ Anchor(n + 1)' = Anchor(n) /\ k.windowAt = failures[Anchor(n)].at
          /\ k.windowAt # Unset /\ c <= MaximumFailures
       \/ /\ c = 1 /\ k.windowAt = Unset
          /\ n > 0 => clock >= failures[Anchor(n)].at + FailureWindowSeconds
  <2>0. /\ run.count > 0 => /\ n > 0 /\ run.count = failures[n].nth
                            /\ run.windowAt = failures[Anchor(n)].at
        /\ run.count = 0 /\ n > 0 => run.updatedAt >= failures[Anchor(n)].at + FailureWindowSeconds
        /\ (run.count = 0) = (run.windowAt = Unset)
        /\ run.count < MaximumFailures
    BY <1>0 DEF JournalInv, CurrentWindow, Readable
  <2>1. CASE Expired(run)
    <3>1. c = 1 /\ k.windowAt = Unset
      BY <1>1, <1>4, <2>1, KeptFields
    <3>2. run.count > 0 /\ clock - run.windowAt >= FailureWindowSeconds
      BY <1>2, <2>0, <2>1 DEF Expired
    <3>3. clock >= failures[Anchor(n)].at + FailureWindowSeconds
      BY <1>1, <1>2, <2>0, <3>2
    <3> QED BY <3>1, <3>3
  <2>2. CASE ~Expired(run) /\ run.count > 0
    <3>1. k = run
      BY <1>1, <2>2, KeptFields
    <3>2. Anchor(n + 1)' = Anchor(n)
      <4>1. n \in 1 .. n /\ failures[n].nth = run.count
        BY <1>1, <2>0, <2>2
      <4>2. Anchor(n) = n - run.count + 1
        BY <4>1 DEF Anchor
      <4> QED BY <1>1, <1>2, <1>4, <1>9, <3>1, <4>2
    <3> QED BY <1>1, <1>2, <1>4, <2>0, <2>2, <3>1, <3>2
  <2>3. CASE ~Expired(run) /\ run.count = 0
    <3>1. k = run
      BY <1>1, <2>3, KeptFields
    <3>2. n > 0 => failures[Anchor(n)].at \in Nat
      <4>1. n > 0 => n \in 1 .. n /\ Anchor(n) \in 1 .. n
        BY <1>1
      <4> QED BY <1>1, <4>1
    <3> QED BY <1>1, <1>2, <1>4, <2>0, <2>3, <3>1, <3>2
  <2> QED BY <1>2, <2>1, <2>2, <2>3
<1>11. PICK a \in 1 .. n + 1 : a = Anchor(n + 1)'
  BY <1>1, <1>9, <1>10
<1>12. \A j \in 1 .. n : failures'[j].at <= clock
  <2>1. \A j \in 1 .. n : failures[j].at <= run.updatedAt
    BY <1>0 DEF JournalInv, Windows
  <2> QED BY <1>1, <1>2, <1>7, <2>1
<1>13. ASSUME NEW j \in 1 .. n
       PROVE  /\ failures'[j].nth \in 1 .. MaximumFailures /\ Anchor(j)' >= 1
              /\ failures'[j].at <= run'.updatedAt
              /\ \A i \in 1 .. j : failures'[i].at <= failures'[j].at
              /\ Anchor(j)' > 1 =>
                   failures'[Anchor(j)'].at >=
                     failures'[Anchor(Anchor(j) - 1)'].at + FailureWindowSeconds
  <2>1. /\ failures[j].nth \in 1 .. MaximumFailures /\ Anchor(j) >= 1
        /\ \A i \in 1 .. j : failures[i].at <= failures[j].at
        /\ Anchor(j) > 1 =>
             failures[Anchor(j)].at >= failures[Anchor(Anchor(j) - 1)].at + FailureWindowSeconds
    BY <1>0 DEF JournalInv, Windows
  <2>2. PICK b \in 1 .. j : b = Anchor(j)
    BY <1>1
  <2>3. b > 1 => b - 1 \in 1 .. n /\ Anchor(b - 1) \in 1 .. n
    BY <1>1, <2>2
  <2>4. /\ failures'[j] = failures[j] /\ failures'[b] = failures[b]
        /\ \A i \in 1 .. j : failures'[i] = failures[i]
        /\ b > 1 => failures'[Anchor(b - 1)] = failures[Anchor(b - 1)]
    BY <1>7, <2>2, <2>3
  <2>5. Anchor(j)' = b /\ (b > 1 => Anchor(b - 1)' = Anchor(b - 1))
    BY <1>8, <2>2, <2>3
  <2>6. failures'[j].at <= run'.updatedAt
    BY <1>12
  <2> QED BY <2>1, <2>2, <2>4, <2>5, <2>6
<1>14. /\ failures'[n + 1].nth \in 1 .. MaximumFailures /\ Anchor(n + 1)' >= 1
       /\ failures'[n + 1].at <= run'.updatedAt
       /\ \A i \in 1 .. n + 1 : failures'[i].at <= failures'[n + 1].at
       /\ Anchor(n + 1)' > 1 =>
            failures'[Anchor(n + 1)'].at >=
              failures'[Anchor(Anchor(n + 1) - 1)'].at + FailureWindowSeconds
  <2>1. failures'[n + 1].nth \in 1 .. MaximumFailures /\ failures'[n + 1].at = clock
    BY <1>1, <1>4, <1>6, <1>7, <1>10
  <2>2. \A i \in 1 .. n + 1 : failures'[i].at <= clock
    <3>1. clock <= clock
      BY <1>1
    <3>2. \A i \in 1 .. n + 1 : i \in 1 .. n \/ i = n + 1
      BY <1>1
    <3> QED BY <1>12, <2>1, <3>1, <3>2, Zenon
  <2>3. ASSUME a > 1
        PROVE  failures'[a].at >= failures'[Anchor(a - 1)'].at + FailureWindowSeconds
    <3>1. a - 1 \in 1 .. n /\ Anchor(a - 1)' = Anchor(a - 1) /\ Anchor(a - 1) \in 1 .. n
      BY <1>1, <1>8, <1>11, <2>3
    <3>2. failures'[Anchor(a - 1)'] = failures[Anchor(a - 1)]
      BY <1>7, <3>1
    <3>3. CASE c > 1 /\ n > 0 /\ a = Anchor(n)
      <4>1. failures'[a] = failures[a] /\ n \in 1 .. n
        BY <1>1, <1>7, <3>3
      <4>2. failures[a].at >= failures[Anchor(a - 1)].at + FailureWindowSeconds
        BY <1>0, <2>3, <3>3, <4>1 DEF JournalInv, Windows
      <4> QED BY <3>2, <4>1, <4>2
    <3>4. CASE c = 1 /\ (n > 0 => clock >= failures[Anchor(n)].at + FailureWindowSeconds)
      <4>1. a = n + 1 /\ a - 1 = n /\ n > 0
        BY <1>1, <1>9, <1>11, <2>3, <3>4
      <4> QED BY <2>1, <3>2, <3>4, <4>1
    <3> QED BY <1>10, <1>11, <3>3, <3>4
  <2>4. Anchor(n + 1)' >= 1
    BY <1>1, <1>11
  <2>5. failures'[n + 1].at <= run'.updatedAt
    <3>1. clock <= clock
      BY <1>1
    <3> QED BY <2>1, <3>1, Zenon
  <2>6. Anchor(Anchor(n + 1) - 1)' = Anchor(a - 1)'
    BY <1>11 DEF Anchor
  <2> QED BY <1>11, <2>1, <2>2, <2>3, <2>4, <2>5, <2>6
<1>15. Windows'
  <2>1. \A j \in 1 .. n + 1 : j \in 1 .. n \/ j = n + 1
    BY <1>1
  <2> QED BY <1>7, <1>13, <1>14, <2>1 DEF Windows
<1>16. CurrentWindow'
  <2>1. run'.count > 0 /\ run'.count = failures'[n + 1].nth
    <3>1. c > 0
      BY <1>3, <1>4
    <3>2. failures'[n + 1].nth = c
      BY <1>6, <1>7, Zenon
    <3> QED BY <1>4, <3>1, <3>2
  <2>2. run'.windowAt = failures'[Anchor(n + 1)'].at
    <3>1. CASE c > 1 /\ n > 0 /\ a = Anchor(n) /\ k.windowAt = failures[Anchor(n)].at
               /\ k.windowAt # Unset
      <4>1. failures'[a] = failures[a]
        BY <1>1, <1>7, <3>1
      <4> QED BY <1>11, <3>1, <4>1
    <3>2. CASE c = 1 /\ k.windowAt = Unset
      BY <1>1, <1>6, <1>7, <1>9, <1>11, <3>2
    <3> QED BY <1>10, <1>11, <3>1, <3>2
  <2>3. n + 1 > 0 /\ run'.count # 0
    BY <1>1, <1>4, <2>1
  <2> QED BY <1>7, <2>1, <2>2, <2>3 DEF CurrentWindow
<1> QED BY <1>0, <1>7, <1>15, <1>16

\* A write without a failure: it keeps the window, or forgets it when it is over.
LEMMA QuietWrite ==
  ASSUME JournalInv, ActiveAssumption, clock >= run.updatedAt,
         failures' = failures, run'.updatedAt \in Int, run'.updatedAt = clock,
         run'.count = Kept(run).count, run'.windowAt = Kept(run).windowAt
  PROVE  Windows' /\ CurrentWindow'
<1> DEFINE n == Len(failures)
<1>1. /\ run \in RunRecord /\ clock \in Nat /\ FailureWindowSeconds \in Nat
      /\ n \in Nat /\ \A j \in 1 .. n : failures[j].at \in Nat /\ Anchor(j) \in 1 .. j
  BY FailureFacts DEF JournalInv, JournalType, ActiveAssumption
<1>2. run.updatedAt \in Int /\ run.windowAt \in Int /\ run.count \in Nat
  BY <1>1 DEF RunRecord
<1>3. \A j : Anchor(j)' = Anchor(j)
  BY DEF Anchor
<1>4. Windows'
  <2>1. \A j \in 1 .. n : failures[j].at <= run.updatedAt
    BY DEF JournalInv, Windows
  <2>2. \A j \in 1 .. n : failures[j].at <= run'.updatedAt
    BY <1>1, <1>2, <2>1
  <2> QED BY <1>3, <2>2 DEF JournalInv, Windows
<1>5. CurrentWindow'
  <2>1. CASE Expired(run)
    <3>1. /\ run'.count = 0 /\ run.count # 0 /\ clock - run.windowAt >= FailureWindowSeconds
      BY <1>1, <2>1, KeptFields DEF Expired, JournalInv, Readable
    <3>2. n > 0 /\ run.windowAt = failures[Anchor(n)].at
      BY <1>1, <1>2, <3>1 DEF JournalInv, CurrentWindow
    <3>3. clock >= failures[Anchor(n)].at + FailureWindowSeconds
      BY <1>1, <1>2, <3>1, <3>2
    <3> QED BY <1>1, <1>3, <3>1, <3>3 DEF CurrentWindow
  <2>2. CASE ~Expired(run)
    <3>1. run'.count = run.count /\ run'.windowAt = run.windowAt
      BY <1>1, <2>2, KeptFields
    <3>2. n > 0 => failures[Anchor(n)].at \in Nat
      <4>1. n > 0 => n \in 1 .. n /\ Anchor(n) \in 1 .. n
        BY <1>1
      <4> QED BY <1>1, <4>1
    <3> HIDE DEF n
    <3>3. run.count > 0 => n > 0 /\ run.count = failures[n].nth /\ run.windowAt = failures[Anchor(n)].at
      BY DEF JournalInv, CurrentWindow, n
    <3>4. run.count = 0 /\ n > 0 => run.updatedAt >= failures[Anchor(n)].at + FailureWindowSeconds
      BY DEF JournalInv, CurrentWindow, n
    <3>5. run.count = 0 /\ n > 0 => clock >= failures[Anchor(n)].at + FailureWindowSeconds
      BY <1>1, <1>2, <3>2, <3>4
    <3> QED BY <1>3, <3>1, <3>3, <3>5 DEF CurrentWindow, n
  <2> QED BY <2>1, <2>2
<1> QED BY <1>4, <1>5

-------------------------------------------------------------------------------
(* The run journal. *)

\* A store without a run has a sound record.
LEMMA ActiveJournalInit == ActiveInit => JournalInv
<1> SUFFICES ASSUME ActiveInit PROVE JournalInv
  OBVIOUS
<1>1. run = NoRun /\ clock = 0 /\ started = 0 /\ stopped = 0 /\ failures = << >>
  BY DEF ActiveInit
<1>2. NoRun \in RunRecord
  BY DEF NoRun, RunRecord, Unset
<1>3. << >> \in Seq([at : Nat, nth : Nat]) /\ Len(<< >>) = 0
  OBVIOUS
<1>4. JournalType
  BY <1>1, <1>2, <1>3 DEF JournalType
<1>5. RunsAccounted /\ LastWrite /\ Windows /\ CurrentWindow
  BY <1>1, <1>3 DEF RunsAccounted, LastWrite, Windows, CurrentWindow, NoRun
<1>6. Readable(run)
  BY <1>1, ActiveAssumption DEF Readable, NoRun, Unset, ActiveAssumption
<1> QED BY <1>4, <1>5, <1>6 DEF JournalInv

\* The window of a record that readServiceRunState accepts, once its expiry was looked at.
LEMMA KeptReadable ==
  ASSUME NEW r \in RunRecord, Readable(r), clock \in Nat, clock >= r.updatedAt, ActiveAssumption
  PROVE  /\ (Kept(r).count = 0) = (Kept(r).windowAt = Unset)
         /\ (Kept(r).count = 0) = (Kept(r).failureAt = Unset)
         /\ Kept(r).count <= r.count /\ Kept(r).count \in Nat
         /\ Kept(r).windowAt \in Int /\ Kept(r).failureAt \in Int
         /\ Kept(r).windowAt # Unset => /\ Kept(r).failureAt >= Kept(r).windowAt
                                        /\ Kept(r).failureAt <= clock /\ Kept(r).windowAt <= clock
<1>1. /\ r.count \in Nat /\ r.windowAt \in Int /\ r.failureAt \in Int /\ r.updatedAt \in Int
  BY DEF RunRecord
<1>2. CASE Expired(r)
  BY <1>1, <1>2, KeptFields DEF Unset
<1>3. CASE ~Expired(r)
  <2>1. Kept(r) = r
    BY <1>3, KeptFields
  <2> QED BY <1>1, <2>1 DEF Readable
<1> QED BY <1>2, <1>3

\* beginServiceRun keeps the journal sound, also where it finds an abrupt exit or opens the breaker.
LEMMA LaunchJournal == ASSUME JournalInv, ActiveAssumption, Launch PROVE JournalInv'
<1>1. /\ run \in RunRecord /\ clock \in Nat /\ clock' = clock /\ clock >= run.updatedAt
      /\ started \in Nat /\ stopped \in Nat /\ stopped' = stopped
      /\ run' = Begin(run) /\ Readable(run)
      /\ failures' = IF run.state = "RUNNING" THEN WithFailure(Begin(run)) ELSE failures
      /\ \/ Begin(run).state = "RUNNING" /\ started' = started + 1
         \/ Begin(run).state = "BLOCKED" /\ started' = started
  BY DEF Launch, JournalInv, JournalType
<1> DEFINE k == Kept(run)
           b == Begin(run)
<1>2. /\ (k.count = 0) = (k.windowAt = Unset) /\ (k.count = 0) = (k.failureAt = Unset)
      /\ k.count <= run.count /\ k.count \in Nat
      /\ k.windowAt \in Int /\ k.failureAt \in Int
      /\ k.windowAt # Unset => k.failureAt >= k.windowAt /\ k.failureAt <= clock /\ k.windowAt <= clock
  BY <1>1, KeptReadable
<1>3. /\ b \in RunRecord /\ b.startedAt = clock /\ b.updatedAt = clock /\ b.lastStatusAt = Unset
      /\ \/ b.count >= MaximumFailures /\ b.state = "BLOCKED"
         \/ b.count < MaximumFailures /\ b.state = "RUNNING" /\ b.outcome = "none"
  BY <1>1, BeginFields
<1>4. CASE run.state = "RUNNING"
  <2>1. /\ b.count = k.count + 1 /\ b.failureAt = clock
        /\ b.windowAt = IF k.windowAt = Unset THEN clock ELSE k.windowAt
    <3>1. Recovered(run) = CountFailure(k)
      BY <1>1, <1>4, RecoveredFields
    <3>2. k \in RunRecord
      BY <1>1, KeptFields
    <3> HIDE DEF k
    <3>3. /\ CountFailure(k).count = k.count + 1 /\ CountFailure(k).failureAt = clock
          /\ CountFailure(k).windowAt = IF k.windowAt = Unset THEN clock ELSE k.windowAt
      BY <1>1, <3>2, CountFailureFields
    <3> QED BY <1>1, <3>1, <3>3, BeginFields
  <2>2. run.count < MaximumFailures /\ run.count \in Nat /\ MaximumFailures \in Nat
    BY <1>1, <1>4 DEF Readable, RunRecord, ActiveAssumption
  <2>3. Readable(b)
    BY <1>1, <1>2, <1>3, <2>1, <2>2 DEF Readable, Unset
  <2>4. failures' = Append(failures, [at |-> clock, nth |-> run'.count])
    BY <1>1, <1>4 DEF WithFailure
  <2>5. Windows' /\ CurrentWindow' /\ Len(failures') = Len(failures) + 1
    BY <1>1, <1>3, <1>4, <2>1, <2>4, FailureWrite
  <2>6. failures' \in Seq([at : Nat, nth : Nat])
    <3> DEFINE Failure == [at : Nat, nth : Nat]
    <3>1. b.count \in Nat
      BY <1>3 DEF RunRecord
    <3>2. PICK f \in Failure : f = [at |-> clock, nth |-> b.count]
      BY <1>1, <3>1
    <3>3. failures \in Seq(Failure) /\ failures' = Append(failures, f)
      BY <1>1, <2>4, <3>2 DEF JournalInv, JournalType
    <3> HIDE DEF Failure
    <3>4. failures' \in Seq(Failure)
      BY <3>3
    <3> QED BY <3>4 DEF Failure
  <2>7. RunsAccounted'
    <3>1. started = stopped + Len(failures) + 1 /\ Len(failures) \in Nat
      BY <1>4, FailureFacts DEF JournalInv, RunsAccounted
    <3>2. \/ run'.state = "RUNNING" /\ started' = started + 1
          \/ run'.state = "BLOCKED" /\ started' = started
      BY <1>1
    <3>3. /\ started \in Nat /\ stopped \in Nat /\ stopped' = stopped
          /\ Len(failures') = Len(failures) + 1
      BY <1>1, <2>5, FailureFacts
    <3>4. started' = stopped' + Len(failures') + IF run'.state = "RUNNING" THEN 1 ELSE 0
      BY <3>1, <3>2, <3>3
    <3> QED BY <3>4 DEF RunsAccounted
  <2>8. LastWrite'
    BY <1>1, <1>3 DEF LastWrite
  <2>9. JournalType' /\ Readable(run)'
    BY <1>1, <1>3, <2>3, <2>6 DEF JournalType, Readable
  <2> QED BY <2>5, <2>7, <2>8, <2>9 DEF JournalInv
<1>5. CASE run.state # "RUNNING"
  <2>1. b.count = k.count /\ b.failureAt = k.failureAt /\ b.windowAt = k.windowAt
    BY <1>1, <1>5, BeginFields, RecoveredFields
  <2>2. run.count <= MaximumFailures /\ run.count \in Nat /\ MaximumFailures \in Nat
    BY <1>1 DEF Readable, RunRecord, ActiveAssumption
  <2>3. Readable(b)
    BY <1>1, <1>2, <1>3, <2>1, <2>2 DEF Readable, Unset
  <2>4. failures' = failures
    BY <1>1, <1>5
  <2>5. Windows' /\ CurrentWindow'
    BY <1>1, <1>3, <2>1, <2>4, QuietWrite
  <2>6. RunsAccounted'
    <3>1. started = stopped + Len(failures) /\ Len(failures) \in Nat
      BY <1>1, <1>5, FailureFacts DEF JournalInv, RunsAccounted
    <3>2. \/ run'.state = "RUNNING" /\ started' = started + 1
          \/ run'.state = "BLOCKED" /\ started' = started
      BY <1>1
    <3>3. /\ started \in Nat /\ stopped \in Nat /\ stopped' = stopped
          /\ Len(failures') = Len(failures) + 0
      BY <1>1, <2>4, FailureFacts
    <3>4. started' = stopped' + Len(failures') + IF run'.state = "RUNNING" THEN 1 ELSE 0
      BY <3>1, <3>2, <3>3
    <3> QED BY <3>4 DEF RunsAccounted
  <2>7. LastWrite'
    BY <1>1, <1>3 DEF LastWrite
  <2>8. JournalType' /\ Readable(run)'
    BY <1>1, <1>3, <2>3, <2>4 DEF JournalType, JournalInv, Readable
  <2> QED BY <2>5, <2>6, <2>7, <2>8 DEF JournalInv
<1> QED BY <1>4, <1>5

\* finishServiceRun keeps the journal sound, also where the clock makes the store refuse it.
LEMMA CleanupJournal ==
  ASSUME JournalInv, ControlInv, ActiveAssumption, Cleanup PROVE JournalInv'
<1>1. /\ run \in RunRecord /\ clock \in Nat /\ clock' = clock /\ started' = started
      /\ started \in Nat /\ stopped \in Nat /\ Readable(run)
  BY DEF Cleanup, JournalInv, JournalType
<1>2. run.state = "RUNNING"
  BY DEF Cleanup, ControlInv, RunBegun
<1>3. PICK why \in Reasons : why = IF leaseRelease = "thrown" THEN "background-failure" ELSE reason
  BY DEF Cleanup, ControlInv, ControlType, StopStands, Reasons
<1>4. CASE clock >= run.updatedAt
  <2> DEFINE k == Kept(run)
             b == Finish(run, why)
  <2>1. /\ run' = b
        /\ stopped' = IF why \in {"requested", "aborted"} THEN stopped + 1 ELSE stopped
        /\ failures' = IF why \in {"requested", "aborted"} THEN failures ELSE WithFailure(b)
    BY <1>3, <1>4 DEF Cleanup
  <2>2. /\ (k.count = 0) = (k.windowAt = Unset) /\ (k.count = 0) = (k.failureAt = Unset)
        /\ k.count <= run.count /\ k.count \in Nat
        /\ k.windowAt \in Int /\ k.failureAt \in Int
        /\ k.windowAt # Unset => k.failureAt >= k.windowAt /\ k.failureAt <= clock /\ k.windowAt <= clock
    BY <1>1, <1>4, KeptReadable
  <2>3. /\ b \in RunRecord /\ b.outcome = why /\ b.updatedAt = clock
        /\ b.startedAt = run.startedAt /\ b.lastStatusAt = run.lastStatusAt
    BY <1>1, FinishFields
  <2>4. /\ run.count < MaximumFailures /\ run.count \in Nat /\ MaximumFailures \in Nat
        /\ run.startedAt \in Int /\ run.lastStatusAt \in Int /\ run.updatedAt \in Int
        /\ run.updatedAt >= run.startedAt
        /\ run.lastStatusAt # Unset => run.lastStatusAt \in run.startedAt .. run.updatedAt
    BY <1>1, <1>2 DEF Readable, RunRecord, ActiveAssumption
  <2>5. CASE why \in {"requested", "aborted"}
    <3>1. /\ b.state = "STOPPED" /\ b.count = k.count /\ b.failureAt = k.failureAt
          /\ b.windowAt = k.windowAt
      BY <1>1, <2>5, FinishFields
    <3>2. Readable(b)
      BY <1>1, <1>4, <2>2, <2>3, <2>4, <2>5, <3>1 DEF Readable, Unset
    <3>3. failures' = failures /\ stopped' = stopped + 1
      BY <2>1, <2>5
    <3>4. Windows' /\ CurrentWindow'
      BY <1>1, <1>4, <2>1, <2>3, <3>1, <3>3, QuietWrite
    <3>5. RunsAccounted'
      <4>1. started = stopped + Len(failures) + 1 /\ Len(failures) \in Nat
        BY <1>2, FailureFacts DEF JournalInv, RunsAccounted
      <4>2. run'.state # "RUNNING" /\ started' = started /\ Len(failures') = Len(failures)
        BY <1>1, <2>1, <3>1, <3>3
      <4>3. started' = stopped' + Len(failures') + IF run'.state = "RUNNING" THEN 1 ELSE 0
        BY <1>1, <3>3, <4>1, <4>2
      <4> QED BY <4>3 DEF RunsAccounted
    <3>6. LastWrite'
      BY <2>1, <3>1 DEF LastWrite
    <3>7. JournalType' /\ Readable(run)'
      BY <1>1, <2>1, <2>3, <3>2, <3>3 DEF JournalType, JournalInv, Readable
    <3> QED BY <3>4, <3>5, <3>6, <3>7 DEF JournalInv
  <2>6. CASE why \notin {"requested", "aborted"}
    <3>1. /\ b.state = "FAILED" /\ b.count = k.count + 1 /\ b.failureAt = clock
          /\ b.windowAt = IF k.windowAt = Unset THEN clock ELSE k.windowAt
      BY <1>1, <2>6, FinishFields
    <3>2. why \in {"startup-failure", "background-failure"}
      BY <2>6 DEF Reasons
    <3>3. Readable(b)
      BY <1>1, <1>4, <2>2, <2>3, <2>4, <3>1, <3>2 DEF Readable, Unset
    <3>4. failures' = Append(failures, [at |-> clock, nth |-> run'.count]) /\ stopped' = stopped
      BY <2>1, <2>6 DEF WithFailure
    <3>5. Windows' /\ CurrentWindow' /\ Len(failures') = Len(failures) + 1
      BY <1>1, <1>2, <1>4, <2>1, <2>3, <3>1, <3>4, FailureWrite
    <3>6. failures' \in Seq([at : Nat, nth : Nat])
      <4> DEFINE Failure == [at : Nat, nth : Nat]
      <4>1. b.count \in Nat
        BY <2>3 DEF RunRecord
      <4>2. PICK f \in Failure : f = [at |-> clock, nth |-> b.count]
        BY <1>1, <4>1
      <4>3. failures \in Seq(Failure) /\ failures' = Append(failures, f)
        BY <2>1, <3>4, <4>2 DEF JournalInv, JournalType
      <4> HIDE DEF Failure
      <4>4. failures' \in Seq(Failure)
        BY <4>3
      <4> QED BY <4>4 DEF Failure
    <3>7. RunsAccounted'
      <4>1. started = stopped + Len(failures) + 1 /\ Len(failures) \in Nat
        BY <1>2, FailureFacts DEF JournalInv, RunsAccounted
      <4>2. run'.state # "RUNNING" /\ started' = started
        BY <1>1, <2>1, <3>1
      <4>3. started' = stopped' + Len(failures') + IF run'.state = "RUNNING" THEN 1 ELSE 0
        BY <1>1, <3>4, <3>5, <4>1, <4>2
      <4> QED BY <4>3 DEF RunsAccounted
    <3>8. LastWrite'
      BY <2>1, <3>1 DEF LastWrite
    <3>9. JournalType' /\ Readable(run)'
      BY <1>1, <2>1, <2>3, <3>3, <3>4, <3>6 DEF JournalType, Readable
    <3> QED BY <3>5, <3>7, <3>8, <3>9 DEF JournalInv
  <2> QED BY <2>5, <2>6
<1>5. CASE ~(clock >= run.updatedAt)
  <2>1. UNCHANGED <<run, stopped, failures, started, clock>>
    BY <1>1, <1>5 DEF Cleanup
  <2> QED BY <2>1 DEF JournalInv, JournalType, RunsAccounted, Readable, LastWrite, Windows,
                      CurrentWindow, Anchor
<1> QED BY <1>4, <1>5

\* A status moves the times of the record only, forward.
LEMMA StatusJournal ==
  ASSUME JournalInv, ActiveAssumption, RecordStatus, UNCHANGED <<clock, started, stopped, failures>>
  PROVE  JournalInv'
<1>1. /\ run \in RunRecord /\ clock \in Nat /\ Readable(run) /\ run.state = "RUNNING"
      /\ clock >= run.startedAt /\ clock >= run.lastStatusAt
      /\ run' = [run EXCEPT !.updatedAt = clock, !.lastStatusAt = clock]
  BY DEF RecordStatus, JournalInv, JournalType
<1>0. clock \in Int
  BY <1>1
<1>2. PICK r1 \in RunRecord : r1 = [run EXCEPT !.updatedAt = clock]
  BY <1>0, <1>1, SetUpdated
<1>3. PICK r \in RunRecord : r = [r1 EXCEPT !.lastStatusAt = clock]
  BY <1>0, SetStatus
<1>4. run' = r
  BY <1>1, <1>2, <1>3
<1>5. /\ r.state = "RUNNING" /\ r.count = run.count /\ r.windowAt = run.windowAt
      /\ r.failureAt = run.failureAt /\ r.outcome = run.outcome /\ r.startedAt = run.startedAt
      /\ r.updatedAt = clock /\ r.lastStatusAt = clock
  BY <1>1, <1>2, <1>3 DEF RunRecord
<1>6. /\ run.startedAt \in Int /\ run.lastStatusAt \in Int /\ run.updatedAt \in Int
      /\ run.windowAt \in Int /\ run.failureAt \in Int /\ run.count \in Nat
      /\ FailureWindowSeconds \in Nat
  BY <1>1 DEF RunRecord, ActiveAssumption
<1>7. clock >= run.updatedAt
  BY <1>1, <1>6 DEF JournalInv, LastWrite
<1>8. Readable(r)
  BY <1>1, <1>5, <1>6, <1>7 DEF Readable, Unset
<1>9. JournalType' /\ Readable(run)' /\ RunsAccounted' /\ LastWrite'
  BY <1>1, <1>4, <1>5, <1>8 DEF JournalInv, JournalType, RunsAccounted, LastWrite, Readable, Unset
<1>10. \A j : Anchor(j)' = Anchor(j)
  BY DEF Anchor
<1>11. Windows'
  <2>1. \A j \in 1 .. Len(failures) : failures[j].at \in Nat /\ failures[j].at <= run.updatedAt
    BY FailureFacts DEF JournalInv, Windows
  <2>2. \A j \in 1 .. Len(failures) : failures[j].at <= run'.updatedAt
    BY <1>1, <1>4, <1>5, <1>6, <1>7, <2>1
  <2> QED BY <1>10, <2>2 DEF JournalInv, Windows
<1>12. CurrentWindow'
  <2> DEFINE n == Len(failures)
  <2>1. n > 0 => failures[Anchor(n)].at \in Nat
    <3>1. n > 0 => n \in 1 .. n /\ Anchor(n) \in 1 .. n
      BY FailureFacts
    <3> QED BY <3>1, FailureFacts
  <2>2. run.count = 0 /\ n > 0 => run.updatedAt >= failures[Anchor(n)].at + FailureWindowSeconds
    BY DEF JournalInv, CurrentWindow
  <2> HIDE DEF n
  <2>3. run.count = 0 /\ n > 0 => clock >= failures[Anchor(n)].at + FailureWindowSeconds
    BY <1>1, <1>6, <1>7, <2>1, <2>2
  <2> QED BY <1>4, <1>5, <1>10, <2>3 DEF JournalInv, CurrentWindow, n
<1> QED BY <1>9, <1>11, <1>12 DEF JournalInv

\* What a step may write to the journal.
LEMMA JournalMoves ==
  ASSUME ActiveNext, clock \in Nat
  PROVE  \/ Launch \/ Cleanup
         \/ /\ run' = run \/ (RecordStatus /\ clock' = clock)
            /\ clock' \in Nat /\ UNCHANGED <<started, stopped, failures>>
<1>1. ASSUME NEW ok \in BOOLEAN, BootPublicationEnds(ok) \/ PublicationEnds(ok)
      PROVE  /\ run' = run \/ (RecordStatus /\ clock' = clock)
             /\ clock' \in Nat /\ UNCHANGED <<started, stopped, failures>>
  BY <1>1 DEF BootPublicationEnds, PublicationEnds, Recorded
<1>2. ASSUME NEW ok \in BOOLEAN, FirstRefreshEnds(ok) \/ PreparationEnds(ok) \/ HandoffLeaseEnds(ok)
      PROVE  UNCHANGED <<clock, run, started, stopped, failures>>
  BY <1>2 DEF FirstRefreshEnds, PreparationEnds, HandoffLeaseEnds, KeepRest
<1>3. ASSUME NEW how \in {"done", "thrown"}, LeaseReleaseEnds(how)
      PROVE  UNCHANGED <<clock, run, started, stopped, failures>>
  BY <1>3 DEF LeaseReleaseEnds, KeepRest
<1>4. ASSUME NEW state \in {"active", "degraded", "inactive"}, CycleEnds(state)
      PROVE  UNCHANGED <<clock, run, started, stopped, failures>>
  BY <1>4 DEF CycleEnds, KeepRest
<1>5. CASE SupervisorDrains \/ BootFollows \/ BootDrains \/ Exit \/ BootBeat \/ PreparationTimeout
           \/ StartCycle \/ SupervisorBeat \/ Crash \/ Expire
  <2>1. UNCHANGED <<clock, run, started, stopped, failures>>
    BY <1>5 DEF SupervisorDrains, BootFollows, BootDrains, Exit, BootBeat, PreparationTimeout,
                StartCycle, SupervisorBeat, Crash, Expire, KeepRest
  <2> QED BY <2>1
<1>6. ASSUME NEW why \in {"requested", "aborted"}, Stop(why)
      PROVE  UNCHANGED <<clock, run, started, stopped, failures>>
  BY <1>6 DEF Stop, KeepRest
<1>7. ASSUME NEW t \in 0 .. MaxClock, SetClock(t)
      PROVE  clock' \in Nat /\ UNCHANGED <<run, started, stopped, failures>>
  BY <1>7 DEF SetClock
<1> QED
  BY <1>1, <1>2, <1>3, <1>4, <1>5, <1>6, <1>7 DEF ActiveNext, Answers, Shutdown

\* Every step of the active process keeps the journal sound.
LEMMA ActiveJournalStep ==
  ASSUME JournalInv, ControlInv, ActiveAssumption, ActiveNext PROVE JournalInv'
<1>1. CASE Launch
  BY <1>1, LaunchJournal
<1>2. CASE Cleanup
  BY <1>2, CleanupJournal
<1>3. CASE RecordStatus /\ clock' = clock /\ UNCHANGED <<started, stopped, failures>>
  BY <1>3, StatusJournal
<1>4. CASE run' = run /\ clock' \in Nat /\ UNCHANGED <<started, stopped, failures>>
  BY <1>4 DEF JournalInv, JournalType, RunsAccounted, Readable, LastWrite, Windows, CurrentWindow,
              Anchor
<1> QED BY <1>1, <1>2, <1>3, <1>4, JournalMoves DEF JournalInv, JournalType

\* Two windows cannot lie within the span of one.
LEMMA WindowsBound == ASSUME JournalInv, ActiveAssumption PROVE BreakerBounds
<1> SUFFICES ASSUME NEW i \in 1 .. Len(failures), NEW j \in 1 .. Len(failures),
                    j = i + 2 * MaximumFailures - 1
             PROVE  failures[j].at >= failures[i].at + FailureWindowSeconds
  BY DEF BreakerBounds
<1>1. /\ Len(failures) \in Nat /\ MaximumFailures \in Nat \ {0} /\ FailureWindowSeconds \in Nat
      /\ \A m \in 1 .. Len(failures) : /\ failures[m].at \in Nat /\ failures[m].nth \in Nat
                                       /\ Anchor(m) \in 1 .. m
  BY FailureFacts DEF ActiveAssumption
<1>2. \A m \in 1 .. Len(failures) : Anchor(m) > m - MaximumFailures
  <2>1. \A m \in 1 .. Len(failures) : failures[m].nth \in 1 .. MaximumFailures
    BY DEF JournalInv, Windows
  <2> QED BY <1>1, <2>1 DEF Anchor
<1>3. PICK a \in 1 .. j : a = Anchor(j)
  BY <1>1
<1>4. a >= i + MaximumFailures /\ a - 1 \in i .. j /\ a > 1
  BY <1>1, <1>2, <1>3
<1>5. PICK b \in 1 .. a - 1 : b = Anchor(a - 1)
  BY <1>1, <1>3, <1>4
<1>6. b >= i
  <2>1. b > a - 1 - MaximumFailures
    BY <1>1, <1>2, <1>3, <1>4, <1>5
  <2> QED BY <1>1, <1>4, <2>1
<1>7. failures[a].at >= failures[b].at + FailureWindowSeconds
  BY <1>3, <1>4, <1>5 DEF JournalInv, Windows
<1>8. failures[a].at <= failures[j].at /\ failures[i].at <= failures[b].at
  <2>1. b \in 1 .. Len(failures) /\ i \in 1 .. b
    BY <1>1, <1>3, <1>5, <1>6
  <2> QED BY <1>3, <2>1 DEF JournalInv, Windows
<1> QED
  <2>1. a \in 1 .. Len(failures) /\ b \in 1 .. Len(failures)
    BY <1>1, <1>3, <1>5
  <2>2. /\ failures[a].at \in Nat /\ failures[b].at \in Nat
        /\ failures[i].at \in Nat /\ failures[j].at \in Nat
    BY <1>1, <2>1
  <2>3. PICK ta \in Nat, tb \in Nat, ti \in Nat, tj \in Nat :
          ta = failures[a].at /\ tb = failures[b].at /\ ti = failures[i].at /\ tj = failures[j].at
    BY <2>2
  <2>4. ta >= tb + FailureWindowSeconds /\ ta <= tj /\ ti <= tb
    BY <1>7, <1>8, <2>3
  <2>5. tj >= ti + FailureWindowSeconds
    BY <1>1, <2>4
  <2> QED BY <2>3, <2>5

-------------------------------------------------------------------------------
(* The recovery service: what stops it. *)

\* A loop that has not run reports what the validator accepts.
LEMMA NoLoopFacts ==
  /\ Recovery!NoLoop \in ActionLoop /\ Recovery!NoLoop.at = "none"
  /\ Recovery!NoLoop.report.lastSuccess = "never"
  /\ Recovery!RecoveryActionValid(Recovery!NoLoop.report, JobCount)
<1>1. Recovery!NoReport \in LoopReport
  BY DEF Recovery!NoReport, LoopReport
<1>2. Recovery!NoLoop \in ActionLoop /\ Recovery!NoLoop.at = "none"
      /\ Recovery!NoLoop.report = Recovery!NoReport
  BY <1>1 DEF Recovery!NoLoop, Recovery!NoCycle, ActionLoop
<1>3. Recovery!NoReport.lastSuccess = "never"
  BY DEF Recovery!NoReport
<1>4. Recovery!RecoveryActionValid(Recovery!NoReport, JobCount)
  BY HostAssumption DEF Recovery!RecoveryActionValid, Recovery!NoReport, HostAssumption
<1> QED BY <1>2, <1>3, <1>4

\* A host without a recovery process.
LEMMA RecoveryInitially == ASSUME Recovery!NoService PROVE RecoveryInv
<1>1. RecoveryType
  BY NoLoopFacts DEF Recovery!NoService, RecoveryType, Starts, Lifecycles
<1>2. RecoveryResources /\ RecoveryBootOrder /\ RecoveryRevoked
  BY DEF Recovery!NoService, RecoveryResources, RecoveryBootOrder, RecoveryRevoked, BeforeHandoff
<1>3. RecoveryLoopOrder /\ RecoveryEffects /\ RecoveryReports
  BY NoLoopFacts DEF Recovery!NoService, RecoveryLoopOrder, RecoveryEffects, RecoveryReports
<1> QED BY <1>1, <1>2, <1>3 DEF RecoveryInv

\* A new process, or none: everything is as it was at first.
LEMMA ResetKeeps ==
  ASSUME NEW at \in {"none", "verifying"}, NEW st \in {"open", "closed"}, NEW l \in {"held", "released"},
         Recovery!Reset(at, st, l),
         l = "released" <=> at = "none", l = "released" <=> st = "closed"
  PROVE  RecoveryInv'
<1>1. RecoveryType'
  BY NoLoopFacts DEF Recovery!Reset, RecoveryType, Starts, Lifecycles
<1>2. RecoveryResources' /\ RecoveryBootOrder' /\ RecoveryRevoked'
  BY DEF Recovery!Reset, RecoveryResources, RecoveryBootOrder, RecoveryRevoked, BeforeHandoff
<1>3. RecoveryLoopOrder' /\ RecoveryEffects' /\ RecoveryReports'
  BY NoLoopFacts DEF Recovery!Reset, RecoveryLoopOrder, RecoveryEffects, RecoveryReports
<1> QED BY <1>1, <1>2, <1>3 DEF RecoveryInv

-------------------------------------------------------------------------------
(* The recovery service: what its loop reports. *)

\* A report keeps its type when one field is replaced: one lemma per field.
LEMMA SetReportState ==
  ASSUME NEW r \in LoopReport, NEW x \in {"idle", "running", "active", "inactive", "stopped"}
  PROVE  [r EXCEPT !.state = x] \in LoopReport
BY DEF LoopReport
LEMMA SetReportAttempted ==
  ASSUME NEW r \in LoopReport, NEW x \in BOOLEAN PROVE [r EXCEPT !.attempted = x] \in LoopReport
BY DEF LoopReport
LEMMA SetReportSuccess ==
  ASSUME NEW r \in LoopReport, NEW x \in {"never", "this attempt", "earlier"}
  PROVE  [r EXCEPT !.lastSuccess = x] \in LoopReport
BY DEF LoopReport
LEMMA SetReportFailures ==
  ASSUME NEW r \in LoopReport, NEW n \in Nat PROVE [r EXCEPT !.failures = n] \in LoopReport
BY DEF LoopReport
LEMMA SetReportSteps ==
  ASSUME NEW r \in LoopReport, NEW n \in Int PROVE [r EXCEPT !.steps = n] \in LoopReport
BY DEF LoopReport
LEMMA SetReportResults ==
  ASSUME NEW r \in LoopReport, NEW n \in Int PROVE [r EXCEPT !.results = n] \in LoopReport
BY DEF LoopReport
LEMMA SetReportDigest ==
  ASSUME NEW r \in LoopReport, NEW x \in BOOLEAN PROVE [r EXCEPT !.cycleDigest = x] \in LoopReport
BY DEF LoopReport

\* The report of a state with its counts, field by field.
LEMMA ReportFacts ==
  ASSUME rLoop \in ActionLoop, NEW n \in Int, NEW m \in Int,
         NEW x \in {"idle", "running", "active", "inactive", "stopped"}
  PROVE  /\ Recovery!Report(x, n, m) \in LoopReport
         /\ Recovery!Report(x, n, m).state = x
         /\ Recovery!Report(x, n, m).steps = n /\ Recovery!Report(x, n, m).results = m
         /\ Recovery!Report(x, n, m).cycleDigest <=> m > 0
         /\ Recovery!Report(x, n, m).attempted <=> rLoop.report.attempted
         /\ Recovery!Report(x, n, m).lastSuccess = rLoop.report.lastSuccess
         /\ Recovery!Report(x, n, m).failures = rLoop.report.failures
<1>1. PICK r \in LoopReport : r = rLoop.report
  BY DEF ActionLoop
<1>2. PICK r1 \in LoopReport : r1 = [r EXCEPT !.state = x]
  BY SetReportState
<1>3. PICK r2 \in LoopReport : r2 = [r1 EXCEPT !.steps = n]
  BY SetReportSteps
<1>4. PICK r3 \in LoopReport : r3 = [r2 EXCEPT !.results = m]
  BY SetReportResults
<1>5. (m > 0) \in BOOLEAN
  OBVIOUS
<1>6. PICK r4 \in LoopReport : r4 = [r3 EXCEPT !.cycleDigest = (m > 0)]
  BY <1>5, SetReportDigest
<1>7. Recovery!Report(x, n, m) = r4
  BY <1>1, <1>2, <1>3, <1>4, <1>6 DEF Recovery!Report
<1>8. /\ r4.state = x /\ r4.steps = n /\ r4.results = m
      /\ r4.lastSuccess = r.lastSuccess /\ r4.failures = r.failures
  BY <1>2, <1>3, <1>4, <1>6 DEF LoopReport
<1>9. r4.cycleDigest = (m > 0)
  BY <1>6 DEF LoopReport
<1>10. r4.attempted = r.attempted
  BY <1>2, <1>3, <1>4, <1>6 DEF LoopReport
<1>11. (r4.cycleDigest <=> m > 0) /\ (r4.attempted <=> r.attempted)
  BY <1>9, <1>10
<1> QED BY <1>1, <1>7, <1>8, <1>11

\* The report of a stopped loop is valid.
LEMMA StoppedReport ==
  ASSUME rLoop \in ActionLoop, RecoveryReports
  PROVE  Recovery!RecoveryActionValid(Recovery!Report("stopped", 0, 0), JobCount)
<1>1. PICK r \in LoopReport : r = Recovery!Report("stopped", 0, 0)
  BY ReportFacts
<1>2. /\ r.state = "stopped" /\ r.steps = 0 /\ r.results = 0
      /\ r.attempted <=> rLoop.report.attempted
      /\ r.lastSuccess = rLoop.report.lastSuccess
      /\ r.cycleDigest <=> 0 > 0
  BY <1>1, ReportFacts
<1>3. ~r.cycleDigest
  BY <1>2
<1>4. r.lastSuccess # "never" => r.attempted
  BY <1>2 DEF RecoveryReports
<1>5. Recovery!RecoveryActionValid(r, JobCount)
  BY <1>2, <1>3, <1>4, HostAssumption DEF Recovery!RecoveryActionValid, HostAssumption
<1> QED BY <1>1, <1>5

\* The report of a cycle that begins is valid.
LEMMA RunningReportFacts ==
  ASSUME rLoop \in ActionLoop
  PROVE  /\ Recovery!RunningReport \in LoopReport
         /\ Recovery!RunningReport.state = "running" /\ Recovery!RunningReport.attempted
         /\ Recovery!RecoveryActionValid(Recovery!RunningReport, JobCount)
<1>1. PICK r \in LoopReport : r = Recovery!Report("running", 0, 0)
  BY ReportFacts
<1>2. r.state = "running" /\ r.steps = 0 /\ r.results = 0
  BY <1>1, ReportFacts
<1>3. PICK success : /\ success \in {"never", "this attempt", "earlier"}
                     /\ success = IF r.lastSuccess = "this attempt" THEN "earlier" ELSE r.lastSuccess
  BY DEF LoopReport
<1>4. PICK r1 \in LoopReport : r1 = [r EXCEPT !.attempted = TRUE]
  BY SetReportAttempted
<1>5. PICK r2 \in LoopReport : r2 = [r1 EXCEPT !.lastSuccess = success]
  BY <1>3, SetReportSuccess
<1>6. Recovery!RunningReport = r2
  <2>1. r1.lastSuccess = r.lastSuccess
    BY <1>4 DEF LoopReport
  <2> QED BY <1>1, <1>3, <1>4, <1>5, <2>1 DEF Recovery!RunningReport
<1>7. r2.state = "running" /\ r2.steps = 0 /\ r2.results = 0
  BY <1>2, <1>4, <1>5 DEF LoopReport
<1>8. r2.attempted = TRUE
  BY <1>4, <1>5 DEF LoopReport
<1>9. r2.attempted /\ ~r2.cycleDigest
  <2>1. r2.cycleDigest = r.cycleDigest
    BY <1>4, <1>5 DEF LoopReport
  <2>2. r.cycleDigest <=> 0 > 0
    BY <1>1, ReportFacts
  <2>3. ~r.cycleDigest
    BY <2>2
  <2> QED BY <1>8, <2>1, <2>3
<1>10. Recovery!RecoveryActionValid(r2, JobCount)
  <2>1. 0 <= JobCount
    BY HostAssumption DEF HostAssumption
  <2> QED BY <1>7, <1>9, <2>1, Zenon DEF Recovery!RecoveryActionValid
<1> QED BY <1>6, <1>7, <1>9, <1>10

\* The report of a failed cycle says inactive.
LEMMA InactiveReportFacts ==
  ASSUME rLoop \in ActionLoop, NEW n \in Int, NEW m \in Int
  PROVE  /\ Recovery!InactiveReport(n, m) \in LoopReport
         /\ Recovery!InactiveReport(n, m).state = "inactive"
         /\ Recovery!InactiveReport(n, m).attempted <=> rLoop.report.attempted
         /\ Recovery!InactiveReport(n, m).lastSuccess = rLoop.report.lastSuccess
<1>1. PICK r \in LoopReport : r = Recovery!Report("inactive", n, m)
  BY ReportFacts
<1>2. PICK r1 \in LoopReport : r1 = [r EXCEPT !.failures = 1]
  BY SetReportFailures
<1>3. Recovery!InactiveReport(n, m) = r1
  BY <1>1, <1>2 DEF Recovery!InactiveReport
<1>4. /\ r.state = "inactive" /\ r.lastSuccess = rLoop.report.lastSuccess
      /\ r.attempted <=> rLoop.report.attempted
  BY <1>1, ReportFacts
<1>5. r1.state = "inactive" /\ r1.lastSuccess = r.lastSuccess
  BY <1>2, <1>4 DEF LoopReport
<1>6. r1.attempted = r.attempted
  BY <1>2 DEF LoopReport
<1>7. r1.attempted <=> rLoop.report.attempted
  BY <1>4, <1>6
<1> QED BY <1>3, <1>4, <1>5, <1>7

\* The report of a cycle that went through all its jobs is valid.
LEMMA ActiveReportFacts ==
  ASSUME rLoop \in ActionLoop, rLoop.report.attempted
  PROVE  /\ Recovery!ActiveReport \in LoopReport
         /\ Recovery!ActiveReport.state = "active" /\ Recovery!ActiveReport.attempted
         /\ Recovery!RecoveryActionValid(Recovery!ActiveReport, JobCount)
<1>0. JobCount \in Int /\ JobCount > 0
  BY HostAssumption DEF HostAssumption
<1>1. PICK r \in LoopReport : r = Recovery!Report("active", JobCount, JobCount)
  BY <1>0, ReportFacts
<1>2. /\ r.state = "active" /\ r.steps = JobCount /\ r.results = JobCount
      /\ r.attempted <=> rLoop.report.attempted
      /\ r.cycleDigest <=> JobCount > 0
  BY <1>0, <1>1, ReportFacts
<1>4. PICK r1 \in LoopReport : r1 = [r EXCEPT !.lastSuccess = "this attempt"]
  BY SetReportSuccess
<1>5. PICK r2 \in LoopReport : r2 = [r1 EXCEPT !.failures = 0]
  BY SetReportFailures
<1>6. Recovery!ActiveReport = r2
  BY <1>1, <1>4, <1>5 DEF Recovery!ActiveReport
<1>7. /\ r2.state = "active" /\ r2.steps = JobCount /\ r2.results = JobCount
      /\ r2.lastSuccess = "this attempt" /\ r2.failures = 0
  BY <1>2, <1>4, <1>5 DEF LoopReport
<1>8. r2.attempted /\ r2.cycleDigest
  <2>1. r2.attempted = r.attempted /\ r2.cycleDigest = r.cycleDigest
    BY <1>4, <1>5 DEF LoopReport
  <2>2. r.attempted /\ r.cycleDigest
    BY <1>0, <1>2
  <2> QED BY <2>1, <2>2
<1>9. Recovery!RecoveryActionValid(r2, JobCount)
  <2>1. JobCount <= JobCount
    BY <1>0
  <2> QED BY <1>7, <1>8, <2>1, Zenon DEF Recovery!RecoveryActionValid
<1> QED BY <1>6, <1>7, <1>8, <1>9

-------------------------------------------------------------------------------
(* The recovery service: its stop. *)

\* A loop keeps its type and its place when its report is replaced.
LEMMA SetLoopReport ==
  ASSUME NEW x \in ActionLoop, NEW r \in LoopReport
  PROVE  /\ [x EXCEPT !.report = r] \in ActionLoop
         /\ [x EXCEPT !.report = r].at = x.at /\ [x EXCEPT !.report = r].report = r
BY DEF ActionLoop

\* A stopped loop has no fence and a valid report.
LEMMA StopLoopFacts ==
  ASSUME RecoveryInv, Recovery!StopLoop
  PROVE  /\ rLoop' \in ActionLoop /\ rLoop'.at = rLoop.at
         /\ rLoopStopped' /\ rLoopStopped' \in BOOLEAN /\ ~rFence' /\ rFence' \in BOOLEAN
         /\ rJobSetLease' \in BOOLEAN /\ (rJobSetLease' <=> rJobSetLease /\ rLoop.at # "none")
         /\ RecoveryReports'
<1>1. rLoop \in ActionLoop /\ rLoop.report \in LoopReport /\ RecoveryReports
  BY DEF RecoveryInv, RecoveryType, ActionLoop
<1>2. PICK r \in LoopReport : r = Recovery!Report("stopped", 0, 0)
  BY <1>1, ReportFacts
<1>3. /\ r.state = "stopped" /\ r.lastSuccess = rLoop.report.lastSuccess
      /\ r.attempted <=> rLoop.report.attempted
  BY <1>1, <1>2, ReportFacts
<1>4. Recovery!RecoveryActionValid(r, JobCount)
  BY <1>1, <1>2, StoppedReport
<1>5. rLoop' = [rLoop EXCEPT !.report = r]
  BY <1>2 DEF Recovery!StopLoop
<1>6. rLoop' \in ActionLoop /\ rLoop'.at = rLoop.at /\ rLoop'.report = r
  BY <1>1, <1>5, SetLoopReport
<1>7. rLoopStopped' /\ rLoopStopped' \in BOOLEAN /\ ~rFence' /\ rFence' \in BOOLEAN
  BY DEF Recovery!StopLoop
<1>8. rJobSetLease' \in BOOLEAN /\ (rJobSetLease' <=> rJobSetLease /\ rLoop.at # "none")
  BY DEF Recovery!StopLoop, Recovery!NoCycle
<1>9. /\ r.lastSuccess # "never" => r.attempted
      /\ rLoop.at # "none" => r.attempted
  BY <1>1, <1>3 DEF RecoveryReports
<1>10. RecoveryReports'
  BY <1>4, <1>6, <1>7, <1>9 DEF RecoveryReports
<1> QED BY <1>6, <1>7, <1>8, <1>10

\* A supervisor that stops, with the bootstrap or by itself.
LEMMA StopSupervisorKeeps ==
  ASSUME RecoveryInv, Recovery!StopLoop, Recovery!RevokeVerification, rSup' = "stopping",
         rSup \in {"starting", "running"}, rBoot' \in {"stopping", rBoot},
         UNCHANGED <<rStore, rLease, rLateEffects>>, rPublishing' \in {rPublishing, "none"},
         rStart' \in Starts \ BeforeHandoff, rBootPublishing' \in BOOLEAN, ~rPreparation', rPreparation' \in BOOLEAN
  PROVE  RecoveryInv'
<1>1. /\ rLoop' \in ActionLoop /\ rLoop'.at = rLoop.at
      /\ rLoopStopped' /\ rLoopStopped' \in BOOLEAN /\ ~rFence' /\ rFence' \in BOOLEAN
      /\ rJobSetLease' \in BOOLEAN /\ (rJobSetLease' <=> rJobSetLease /\ rLoop.at # "none")
      /\ RecoveryReports'
  BY StopLoopFacts
<1>2. ~rVerification' /\ rVerification' \in BOOLEAN /\ rVerificationStopped' /\ rVerificationStopped' \in BOOLEAN
  BY DEF Recovery!RevokeVerification
<1>3. rLease = "held" /\ rStore = "open" /\ rBoot # "stopped"
  BY DEF RecoveryInv, RecoveryType, RecoveryResources, RecoveryBootOrder
<1>4. RecoveryType'
  BY <1>1, <1>2 DEF RecoveryInv, RecoveryType, Lifecycles
<1>5. RecoveryResources' /\ RecoveryBootOrder' /\ RecoveryRevoked'
  BY <1>2, <1>3 DEF RecoveryResources, RecoveryBootOrder, RecoveryRevoked, BeforeHandoff
<1>6. RecoveryLoopOrder' /\ RecoveryEffects'
  BY <1>1 DEF RecoveryInv, RecoveryLoopOrder, RecoveryEffects
<1> QED BY <1>1, <1>4, <1>5, <1>6 DEF RecoveryInv

UnchangedControl ==
  UNCHANGED <<rBoot, rSup, rVerification, rVerificationStopped, rLoop, rLoopStopped, rFence,
              rJobSetLease>>

\* A step that moves only the start and the publications.
LEMMA UnchangedKeeps ==
  ASSUME RecoveryInv, rLease = "held", UnchangedControl,
         UNCHANGED <<rStore, rLease, rLateEffects>>, rPublishing' \in {rPublishing, "none"},
         rStart' \in Starts, rStart' \in BeforeHandoff => rSup = "none", rStart' # "verifying",
         rBootPublishing' \in BOOLEAN, rPreparation' \in BOOLEAN, rPreparation' => rStart' = "preparing",
         rBoot = "stopped" => ~rBootPublishing' /\ ~rPreparation'
  PROVE  RecoveryInv'
<1>1. RecoveryType'
  BY DEF RecoveryInv, RecoveryType, UnchangedControl
<1>2. RecoveryResources' /\ RecoveryBootOrder' /\ RecoveryRevoked'
  BY DEF RecoveryInv, RecoveryResources, RecoveryBootOrder, RecoveryRevoked, UnchangedControl
<1>3. RecoveryLoopOrder' /\ RecoveryEffects' /\ RecoveryReports'
  BY DEF RecoveryInv, RecoveryLoopOrder, RecoveryEffects, RecoveryReports, UnchangedControl
<1> QED BY <1>1, <1>2, <1>3 DEF RecoveryInv

\* stop of the bootstrap, wherever it is.
LEMMA RecoveryStopKeeps ==
  ASSUME RecoveryInv, rLease = "held", NEW why, Recovery!StopBoot(why), rBoot # "stopped",
         UNCHANGED <<rStore, rLease, rLateEffects>>, rPublishing' \in {rPublishing, "none"},
         rStart' \in Starts, rStart' \in BeforeHandoff => rSup = "none", rStart' # "verifying",
         rBootPublishing' \in BOOLEAN, rPreparation' \in BOOLEAN, rPreparation' => rStart' = "preparing"
  PROVE  RecoveryInv'
<1>1. rBoot' = "stopping" /\ Recovery!RevokeVerification
  BY DEF Recovery!StopBoot
<1>2. CASE rSup \in {"starting", "running"}
  <2>1. rSup' = "stopping" /\ Recovery!StopLoop
    BY <1>2 DEF Recovery!StopBoot
  <2>2. rStart' \in Starts \ BeforeHandoff /\ ~rPreparation'
    BY <1>2 DEF BeforeHandoff
  <2> QED BY <1>1, <1>2, <2>1, <2>2, StopSupervisorKeeps
<1>3. CASE rSup \in {"none", "stopping", "stopped"}
  <2>1. UNCHANGED <<rSup, rLoop, rLoopStopped, rFence, rJobSetLease>>
    BY <1>3 DEF Recovery!StopBoot, Recovery!loopVars
  <2>2. ~rVerification' /\ rVerification' \in BOOLEAN /\ rVerificationStopped' /\ rVerificationStopped' \in BOOLEAN
    BY <1>1 DEF Recovery!RevokeVerification
  <2>3. rStore = "open"
    BY DEF RecoveryInv, RecoveryType, RecoveryResources
  <2>4. RecoveryType'
    BY <1>1, <2>1, <2>2 DEF RecoveryInv, RecoveryType, Lifecycles
  <2>5. RecoveryResources' /\ RecoveryBootOrder' /\ RecoveryRevoked'
    BY <1>1, <1>3, <2>1, <2>2, <2>3 DEF RecoveryInv, RecoveryResources, RecoveryBootOrder, RecoveryRevoked
  <2>6. RecoveryLoopOrder' /\ RecoveryEffects' /\ RecoveryReports'
    BY <2>1 DEF RecoveryInv, RecoveryLoopOrder, RecoveryEffects, RecoveryReports
  <2> QED BY <2>4, <2>5, <2>6 DEF RecoveryInv
<1> QED BY <1>2, <1>3 DEF Recovery!StopBoot

\* A start of the recovery service that fails stops its bootstrap.
LEMMA RecoveryFailStartKeeps ==
  ASSUME RecoveryInv, rLease = "held", NEW why, Recovery!FailStart(why),
         UNCHANGED <<rStore, rLease, rLateEffects>>, rPublishing' \in {rPublishing, "none"},
         rStart' \in Starts, rStart' \in BeforeHandoff => rSup = "none", rStart' # "verifying",
         rBootPublishing' \in BOOLEAN, rPreparation' \in BOOLEAN, rPreparation' => rStart' = "preparing",
         rBoot = "stopped" => ~rBootPublishing' /\ ~rPreparation'
  PROVE  RecoveryInv'
<1>1. CASE rBoot = "starting" /\ Recovery!StopBoot(why)
  <2>1. rBoot # "stopped"
    BY <1>1
  <2> QED BY <1>1, <2>1, RecoveryStopKeeps
<1>2. CASE rBoot # "starting"
  <2>1. UnchangedControl
    BY <1>2 DEF Recovery!FailStart, UnchangedControl, Recovery!verificationVars, Recovery!loopVars
  <2> QED BY <2>1, UnchangedKeeps
<1> QED BY <1>1, <1>2 DEF Recovery!FailStart

-------------------------------------------------------------------------------
(* The recovery service: its start and its publications. *)

\* A report that is not inactive makes a status that buildStatus accepts.
LEMMA PublicationWrites ==
  ASSUME RecoveryInv, rLoop.report.state # "inactive" PROVE Recovery!Publication = "writing"
<1>1. PICK r \in LoopReport : r = rLoop.report
  BY DEF RecoveryInv, RecoveryType, ActionLoop
<1>2. Recovery!RecoveryActionValid(r, JobCount) /\ r.record = "release"
  BY <1>1 DEF RecoveryInv, RecoveryReports, LoopReport
<1> DEFINE v == [state |-> "active", record |-> "release"]
           u == Recovery!BuildRecoveryStatus(v, r)
<1>3. v.state = "active" /\ v.record = "release"
  OBVIOUS
<1> HIDE DEF v
<1>4. u.verification = v /\ u.action = r /\ u.claims = (v.state = "active" /\ r.state = "active")
  BY DEF Recovery!BuildRecoveryStatus
<1> HIDE DEF u
<1>5. Recovery!RecoveryVerificationValid(v)
  BY <1>3 DEF Recovery!RecoveryVerificationValid
<1>6. Recovery!RecoveryStatusValid(u, JobCount)
  BY <1>2, <1>3, <1>4, <1>5 DEF Recovery!RecoveryStatusValid
<1> QED BY <1>1, <1>6 DEF Recovery!Publication, u, v

\* The awaits of the start end, each with success or failure.
LEMMA RecoveryStartSteps ==
  ASSUME RecoveryInv, rLease = "held", NEW ok \in BOOLEAN,
         \/ Recovery!FirstRefreshEnds(ok) \/ Recovery!BootPublicationEnds(ok)
         \/ Recovery!PreparationEnds(ok) \/ Recovery!HandoffLeaseEnds(ok)
  PROVE  RecoveryInv'
<1>1. CASE Recovery!FirstRefreshEnds(ok)
  <2>1. /\ rStart = "verifying" /\ rBoot = "none" /\ rSup = "none"
        /\ UNCHANGED <<rPreparation, rSup, rPublishing, rVerificationStopped, rLoop, rLoopStopped,
                       rFence, rJobSetLease, rStore, rLease, rLateEffects>>
    BY <1>1 DEF Recovery!FirstRefreshEnds, Recovery!loopVars, Recovery!resourceVars, RecoveryInv,
                RecoveryBootOrder, BeforeHandoff
  <2>2. ~rPreparation /\ rStore = "open"
    BY <2>1 DEF RecoveryInv, RecoveryType, RecoveryBootOrder, RecoveryResources
  <2>3. CASE ok
    <3>1. rVerification' \in BOOLEAN /\ rBootPublishing' \in BOOLEAN
      BY <1>1 DEF Recovery!FirstRefreshEnds
    <3>2. rBoot' = "starting" /\ rStart' = "first status"
      BY <1>1, <2>3 DEF Recovery!FirstRefreshEnds
    <3>3. RecoveryType'
      BY <2>1, <3>1, <3>2 DEF RecoveryInv, RecoveryType, Lifecycles, Starts
    <3>4. RecoveryResources' /\ RecoveryBootOrder' /\ RecoveryRevoked'
      BY <2>1, <2>2, <3>2 DEF RecoveryResources, RecoveryBootOrder, RecoveryRevoked
    <3>5. RecoveryLoopOrder' /\ RecoveryEffects' /\ RecoveryReports'
      BY <2>1 DEF RecoveryInv, RecoveryLoopOrder, RecoveryEffects, RecoveryReports
    <3> QED BY <3>3, <3>4, <3>5 DEF RecoveryInv
  <2>4. CASE ~ok
    <3>1. /\ rVerification' \in BOOLEAN /\ rBootPublishing' \in BOOLEAN
          /\ ~rVerification' /\ ~rBootPublishing'
      BY <1>1, <2>4 DEF Recovery!FirstRefreshEnds
    <3>2. rBoot' = "stopped" /\ rStart' = "failed"
      BY <1>1, <2>4 DEF Recovery!FirstRefreshEnds
    <3>3. RecoveryType'
      BY <2>1, <3>1, <3>2 DEF RecoveryInv, RecoveryType, Lifecycles, Starts
    <3>4. RecoveryResources' /\ RecoveryBootOrder' /\ RecoveryRevoked'
      BY <2>1, <2>2, <3>1, <3>2 DEF RecoveryResources, RecoveryBootOrder, RecoveryRevoked, BeforeHandoff
    <3>5. RecoveryLoopOrder' /\ RecoveryEffects' /\ RecoveryReports'
      BY <2>1 DEF RecoveryInv, RecoveryLoopOrder, RecoveryEffects, RecoveryReports
    <3> QED BY <3>3, <3>4, <3>5 DEF RecoveryInv
  <2> QED BY <2>3, <2>4
<1>2. CASE Recovery!BootPublicationEnds(ok)
  <2>1. /\ UNCHANGED <<rStore, rLease, rLateEffects, rPublishing>> /\ rStart # "verifying"
        /\ rBoot # "stopped" /\ rBootPublishing' = FALSE
    BY <1>2 DEF Recovery!BootPublicationEnds, Recovery!resourceVars, RecoveryInv, RecoveryBootOrder
  <2>2. ~rBootPublishing' /\ rBootPublishing' \in BOOLEAN
    BY <2>1
  <2>3. CASE rStart = "first status" /\ rStart' = "preparing" /\ rPreparation' = TRUE /\ UnchangedControl
    <3>1. rPreparation' \in BOOLEAN
      BY <2>3
    <3>2. rSup = "none" /\ rStart' \in Starts
      BY <2>3 DEF RecoveryInv, RecoveryBootOrder, BeforeHandoff, Starts
    <3> QED BY <2>1, <2>2, <2>3, <3>1, <3>2, UnchangedKeeps
  <2>4. CASE UNCHANGED <<rStart, rPreparation>> /\ UnchangedControl
    BY <2>1, <2>2, <2>4, UnchangedKeeps DEF RecoveryInv, RecoveryType, RecoveryBootOrder
  <2>5. CASE rStart = "handoff" /\ Recovery!Handoff /\ UNCHANGED rPreparation
    <3>1. rSup = "none" /\ ~rPreparation' /\ rPreparation' \in BOOLEAN
      BY <2>5 DEF RecoveryInv, RecoveryType, RecoveryBootOrder, BeforeHandoff
    <3>2. CASE rStart' = "lease" /\ UnchangedControl
      BY <2>1, <2>2, <3>1, <3>2, UnchangedKeeps DEF Starts
    <3>3. CASE rStart' = "failed" /\ Recovery!FailStart("startup-failure")
      BY <2>1, <2>2, <3>1, <3>3, RecoveryFailStartKeeps DEF Starts
    <3> QED BY <2>5, <3>2, <3>3 DEF Recovery!Handoff, UnchangedControl, Recovery!verificationVars,
               Recovery!loopVars
  <2>6. CASE /\ rStart' = IF rStart = "preparing" THEN rStart ELSE "failed"
             /\ Recovery!FailStart(IF rStart = "first status" THEN "startup-failure"
                                   ELSE "background-failure")
             /\ UNCHANGED rPreparation
    <3>1. PICK why : Recovery!FailStart(why)
      BY <2>6
    <3>2. /\ rStart' \in Starts /\ rStart' # "verifying" /\ rPreparation' \in BOOLEAN
          /\ rStart' \in BeforeHandoff => rSup = "none"
          /\ rPreparation' => rStart' = "preparing"
      BY <2>6 DEF RecoveryInv, RecoveryType, RecoveryBootOrder, BeforeHandoff, Starts
    <3> QED BY <2>1, <2>2, <3>1, <3>2, RecoveryFailStartKeeps
  <2> QED BY <1>2, <2>3, <2>4, <2>5, <2>6
          DEF Recovery!BootPublicationEnds, UnchangedControl, Recovery!verificationVars, Recovery!loopVars
<1>3. CASE Recovery!PreparationEnds(ok)
  <2>1. /\ UNCHANGED <<rStore, rLease, rLateEffects, rPublishing, rBootPublishing>>
        /\ rStart = "preparing" /\ rBoot # "stopped" /\ rSup = "none" /\ rBootPublishing \in BOOLEAN
    BY <1>3 DEF Recovery!PreparationEnds, Recovery!resourceVars, RecoveryInv, RecoveryType,
                RecoveryBootOrder, BeforeHandoff
  <2>2. ~rPreparation' /\ rPreparation' \in BOOLEAN
    BY <1>3 DEF Recovery!PreparationEnds
  <2>3. CASE rStart' \in {"handoff", "lease"} /\ UnchangedControl
    BY <2>1, <2>2, <2>3, UnchangedKeeps DEF Starts
  <2>4. CASE rStart' = "failed" /\ Recovery!FailStart("startup-failure")
    BY <2>1, <2>2, <2>4, RecoveryFailStartKeeps DEF Starts
  <2> QED BY <1>3, <2>3, <2>4 DEF Recovery!PreparationEnds, Recovery!Handoff, UnchangedControl,
             Recovery!verificationVars, Recovery!loopVars
<1>4. CASE Recovery!HandoffLeaseEnds(ok)
  <2>1. /\ UNCHANGED <<rStore, rLease, rLateEffects, rBootPublishing, rPreparation>>
        /\ rStart = "lease" /\ rSup = "none"
    BY <1>4 DEF Recovery!HandoffLeaseEnds, Recovery!resourceVars, RecoveryInv, RecoveryBootOrder,
                BeforeHandoff
  <2>2. ~rPreparation /\ rPreparation \in BOOLEAN /\ rBootPublishing \in BOOLEAN
    BY <2>1 DEF RecoveryInv, RecoveryType, RecoveryBootOrder
  <2>3. CASE ok /\ rVerification
    <3>1. /\ rStart' = "supervisor" /\ rSup' = "starting" /\ rJobSetLease' = TRUE
          /\ rPublishing' = Recovery!Publication
          /\ UNCHANGED <<rBoot, rVerification, rVerificationStopped, rLoop, rLoopStopped, rFence>>
      BY <1>4, <2>3 DEF Recovery!HandoffLeaseEnds, Recovery!verificationVars
    <3>2. rLoop = Recovery!NoLoop /\ ~rLoopStopped
      BY <2>1 DEF RecoveryInv, RecoveryLoopOrder
    <3>3. Recovery!NoLoop.report.state # "inactive"
      BY DEF Recovery!NoLoop, Recovery!NoReport
    <3>4. rPublishing' = "writing"
      BY <3>1, <3>2, <3>3, PublicationWrites
    <3>5. rBoot \notin {"stopping", "stopped"} /\ rStore = "open"
      BY <2>3 DEF RecoveryInv, RecoveryType, RecoveryRevoked, RecoveryResources
    <3>6. rJobSetLease' /\ rJobSetLease' \in BOOLEAN
      BY <3>1
    <3>7. RecoveryType'
      BY <2>1, <2>2, <3>1, <3>4, <3>6 DEF RecoveryInv, RecoveryType, Lifecycles, Starts
    <3>8. RecoveryResources' /\ RecoveryBootOrder' /\ RecoveryRevoked'
      BY <2>1, <2>2, <3>1, <3>5 DEF RecoveryInv, RecoveryResources, RecoveryBootOrder, RecoveryRevoked, BeforeHandoff
    <3>9. RecoveryLoopOrder'
      BY <3>1, <3>2, <3>6 DEF RecoveryInv, RecoveryLoopOrder
    <3>10. RecoveryEffects' /\ RecoveryReports'
      BY <2>1, <3>1 DEF RecoveryInv, RecoveryEffects, RecoveryReports
    <3> QED BY <3>7, <3>8, <3>9, <3>10 DEF RecoveryInv
  <2>4. CASE rStart' = "failed" /\ Recovery!FailStart("startup-failure") /\ UNCHANGED rPublishing
    <3>1. rBoot = "stopped" => ~rBootPublishing
      BY DEF RecoveryInv, RecoveryBootOrder
    <3>2. "failed" \in Starts /\ "failed" \notin BeforeHandoff
      BY DEF Starts, BeforeHandoff
    <3> QED BY <2>1, <2>2, <2>4, <3>1, <3>2, RecoveryFailStartKeeps
  <2> QED BY <1>4, <2>3, <2>4 DEF Recovery!HandoffLeaseEnds
<1> QED BY <1>1, <1>2, <1>3, <1>4

\* A publication that fails stops what published it.
LEMMA PublicationFailsKeeps ==
  ASSUME RecoveryInv, rLease = "held", Recovery!PublicationFails,
         UNCHANGED <<rBootPublishing, rPreparation, rStore, rLease, rLateEffects>>
  PROVE  RecoveryInv'
<1>1. rSup \in {"starting", "running", "stopping"} /\ rPublishing' = "none"
  BY DEF Recovery!PublicationFails
<1>2. /\ rStart \in Starts \ BeforeHandoff /\ ~rPreparation /\ rPreparation \in BOOLEAN
      /\ rBootPublishing \in BOOLEAN /\ rBoot # "stopped" /\ rStart # "verifying"
  BY <1>1 DEF RecoveryInv, RecoveryType, RecoveryBootOrder, BeforeHandoff
<1>3. CASE rSup = "running" /\ Recovery!StopSupervisor("background-failure") /\ UNCHANGED rStart
  BY <1>1, <1>2, <1>3, StopSupervisorKeeps DEF Recovery!StopSupervisor
<1>4. CASE rSup = "starting" /\ rStart' = "failed" /\ Recovery!StopBoot("startup-failure")
  <2>1. "failed" \in Starts /\ "failed" \notin BeforeHandoff
    BY DEF Starts, BeforeHandoff
  <2> QED BY <1>1, <1>2, <1>4, <2>1, RecoveryStopKeeps
<1>5. CASE UNCHANGED rStart /\ UnchangedControl
  BY <1>1, <1>2, <1>5, UnchangedKeeps
<1> QED BY <1>3, <1>4, <1>5 DEF Recovery!PublicationFails, UnchangedControl,
           Recovery!verificationVars, Recovery!loopVars

\* A publication that goes on, of a supervisor that was not stopped.
LEMMA PublishingKeeps ==
  ASSUME RecoveryInv, rLease = "held", rSup = "running", rPublishing' \in {"none", "refreshing", "writing"},
         rVerification' \in BOOLEAN,
         UNCHANGED <<rStart, rBoot, rSup, rVerificationStopped, rLoop, rLoopStopped, rFence, rJobSetLease,
                     rBootPublishing, rPreparation, rStore, rLease, rLateEffects>>
  PROVE  RecoveryInv'
<1>1. RecoveryType'
  BY DEF RecoveryInv, RecoveryType
<1>2. RecoveryResources' /\ RecoveryBootOrder' /\ RecoveryRevoked'
  BY DEF RecoveryInv, RecoveryResources, RecoveryBootOrder, RecoveryRevoked
<1>3. RecoveryLoopOrder' /\ RecoveryEffects' /\ RecoveryReports'
  BY DEF RecoveryInv, RecoveryLoopOrder, RecoveryEffects, RecoveryReports
<1> QED BY <1>1, <1>2, <1>3 DEF RecoveryInv

\* A heartbeat of the supervisor begins a publication or stops the service.
LEMMA SupervisorBeatKeeps ==
  ASSUME RecoveryInv, rLease = "held", Recovery!SupervisorBeat PROVE RecoveryInv'
<1>1. /\ rSup = "running"
      /\ UNCHANGED <<rBootPublishing, rPreparation, rStore, rLease, rLateEffects>>
  BY DEF Recovery!SupervisorBeat, Recovery!resourceVars
<1>2. CASE /\ rPublishing' = "refreshing" /\ rVerification' = FALSE
           /\ UNCHANGED <<rStart, rBoot, rSup, rVerificationStopped, rLoop, rLoopStopped, rFence,
                          rJobSetLease>>
  <2>1. rVerification' \in BOOLEAN
    BY <1>2
  <2> QED BY <1>1, <1>2, <2>1, PublishingKeeps
<1>3. CASE rLoop.report.state # "inactive" /\ rPublishing' = Recovery!Publication /\ UnchangedControl
           /\ UNCHANGED rStart
  <2>1. rPublishing' = "writing"
    BY <1>3, PublicationWrites
  <2>2. rVerification' \in BOOLEAN
    BY <1>3 DEF UnchangedControl, RecoveryInv, RecoveryType
  <2> QED BY <1>1, <1>3, <2>1, <2>2, PublishingKeeps DEF UnchangedControl
<1>4. CASE Recovery!PublicationFails
  BY <1>1, <1>4, PublicationFailsKeeps
<1> QED BY <1>2, <1>3, <1>4 DEF Recovery!SupervisorBeat, UnchangedControl, Recovery!verificationVars,
           Recovery!loopVars

\* A refresh answers, perhaps after the stop.
LEMMA RefreshEndsKeeps ==
  ASSUME RecoveryInv, rLease = "held", NEW ok \in BOOLEAN, Recovery!RefreshEnds(ok) PROVE RecoveryInv'
<1>1. /\ rPublishing = "refreshing"
      /\ UNCHANGED <<rBootPublishing, rPreparation, rStore, rLease, rLateEffects>>
  BY DEF Recovery!RefreshEnds, Recovery!resourceVars
<1>2. CASE /\ ~rVerificationStopped /\ rLoop.report.state # "inactive"
           /\ rVerification' = TRUE /\ rPublishing' = Recovery!Publication
           /\ UNCHANGED <<rStart, rBoot, rSup, rVerificationStopped, rLoop, rLoopStopped, rFence,
                          rJobSetLease>>
  <2>1. rPublishing' = "writing" /\ rVerification' \in BOOLEAN
    BY <1>2, PublicationWrites
  <2>2. rSup \in {"starting", "running"} /\ rBoot \notin {"stopping", "stopped"}
    BY <1>1, <1>2 DEF RecoveryInv, RecoveryType, Lifecycles, RecoveryLoopOrder, RecoveryRevoked
  <2>3. RecoveryType'
    BY <1>1, <1>2, <2>1 DEF RecoveryInv, RecoveryType
  <2>4. RecoveryResources' /\ RecoveryBootOrder' /\ RecoveryRevoked'
    BY <1>1, <1>2, <2>2 DEF RecoveryInv, RecoveryResources, RecoveryBootOrder, RecoveryRevoked
  <2>5. RecoveryLoopOrder' /\ RecoveryEffects' /\ RecoveryReports'
    BY <1>1, <1>2, <2>2 DEF RecoveryInv, RecoveryLoopOrder, RecoveryEffects, RecoveryReports
  <2> QED BY <2>3, <2>4, <2>5 DEF RecoveryInv
<1>3. CASE Recovery!PublicationFails
  BY <1>1, <1>3, PublicationFailsKeeps
<1> QED BY <1>2, <1>3 DEF Recovery!RefreshEnds, Recovery!loopVars

\* The write of a status ends.
LEMMA PublicationEndsKeeps ==
  ASSUME RecoveryInv, rLease = "held", NEW ok \in BOOLEAN, Recovery!PublicationEnds(ok)
  PROVE  RecoveryInv'
<1>1. /\ rPublishing = "writing"
      /\ UNCHANGED <<rBootPublishing, rPreparation, rStore, rLease, rLateEffects>>
  BY DEF Recovery!PublicationEnds, Recovery!resourceVars, RecoveryInv, RecoveryType
<1>2. /\ rSup \in {"starting", "running", "stopping"} /\ rStart \in Starts \ BeforeHandoff
      /\ ~rPreparation /\ rPreparation \in BOOLEAN /\ rBootPublishing \in BOOLEAN
      /\ rBoot # "stopped" /\ rStart # "verifying"
  BY <1>1 DEF RecoveryInv, RecoveryType, Lifecycles, RecoveryLoopOrder, RecoveryBootOrder, BeforeHandoff
<1>3. CASE Recovery!PublicationFails
  BY <1>1, <1>3, PublicationFailsKeeps
<1>4. CASE /\ rPublishing' = "none" /\ rSup = "starting"
           /\ rSup' = "running" /\ rBoot' = "running" /\ rStart' = "done"
           /\ UNCHANGED <<rVerification, rVerificationStopped, rLoop, rLoopStopped, rFence, rJobSetLease>>
  <2>1. RecoveryType'
    BY <1>1, <1>4 DEF RecoveryInv, RecoveryType, Lifecycles, Starts
  <2>2. rStore = "open"
    BY <1>2 DEF RecoveryInv, RecoveryType, RecoveryResources
  <2>3. RecoveryResources' /\ RecoveryBootOrder' /\ RecoveryRevoked'
    BY <1>1, <1>2, <1>4, <2>2 DEF RecoveryResources, RecoveryBootOrder, RecoveryRevoked, BeforeHandoff
  <2>4. RecoveryLoopOrder' /\ RecoveryEffects' /\ RecoveryReports'
    BY <1>1, <1>4 DEF RecoveryInv, RecoveryLoopOrder, RecoveryEffects, RecoveryReports
  <2> QED BY <2>1, <2>3, <2>4 DEF RecoveryInv
<1>5. CASE /\ rPublishing' = "none" /\ UnchangedControl
           /\ rStart' = IF rStart = "supervisor" THEN "failed" ELSE rStart
  <2>1. rStart' \in Starts \ BeforeHandoff /\ rStart' # "verifying"
    BY <1>2, <1>5 DEF Starts, BeforeHandoff
  <2> QED BY <1>1, <1>2, <1>5, <2>1, UnchangedKeeps
<1> QED BY <1>3, <1>4, <1>5 DEF Recovery!PublicationEnds, UnchangedControl,
           Recovery!verificationVars, Recovery!loopVars

-------------------------------------------------------------------------------
(* The recovery service: its loop. *)

UnchangedService ==
  UNCHANGED <<rStart, rBoot, rBootPublishing, rPreparation, rSup, rPublishing, rVerification,
              rVerificationStopped, rStore, rLease>>

\* A step of the loop concerns the order, the effects and the reports of the loop only.
LEMMA LoopKeeps ==
  ASSUME RecoveryInv, UnchangedService, rLoop' \in ActionLoop, rLoopStopped' \in BOOLEAN,
         rFence' \in BOOLEAN, rJobSetLease' \in BOOLEAN, rLateEffects' \in Nat,
         RecoveryLoopOrder', RecoveryEffects', RecoveryReports'
  PROVE  RecoveryInv'
<1>1. RecoveryType'
  BY DEF RecoveryInv, RecoveryType, UnchangedService
<1>2. RecoveryResources' /\ RecoveryBootOrder' /\ RecoveryRevoked'
  BY DEF RecoveryInv, RecoveryResources, RecoveryBootOrder, RecoveryRevoked, UnchangedService
<1> QED BY <1>1, <1>2 DEF RecoveryInv

\* A cycle ends with its report, and returns the fence.
LEMMA CycleEndsKeeps ==
  ASSUME RecoveryInv, UnchangedService, UNCHANGED rLateEffects, rSup \in {"running", "stopping"},
         NEW report, Recovery!CycleEnds(report), report \in LoopReport,
         report.lastSuccess # "never" => report.attempted,
         report.state # "inactive" => Recovery!RecoveryActionValid(report, JobCount)
  PROVE  RecoveryInv'
<1>1. PICK r \in LoopReport : r = IF rLoopStopped THEN rLoop.report ELSE report
  BY DEF RecoveryInv, RecoveryType, ActionLoop
<1>2. rLoop' = [at |-> "none", job |-> 0, report |-> r]
  BY <1>1 DEF Recovery!CycleEnds, Recovery!NoCycle
<1>3. rLoop' \in ActionLoop /\ rLoop'.at = "none" /\ rLoop'.report = r
  BY <1>2 DEF ActionLoop
<1>4. ~rFence' /\ rFence' \in BOOLEAN /\ rLoopStopped' = rLoopStopped
  BY DEF Recovery!CycleEnds
<1>5. rJobSetLease' \in BOOLEAN /\ (rJobSetLease' <=> rJobSetLease /\ ~rLoopStopped)
  BY DEF Recovery!CycleEnds
<1>6. /\ r.lastSuccess # "never" => r.attempted
      /\ r.state # "inactive" => Recovery!RecoveryActionValid(r, JobCount)
  BY <1>1 DEF RecoveryInv, RecoveryReports
<1>7. RecoveryReports'
  BY <1>3, <1>6 DEF RecoveryReports
<1>8. RecoveryLoopOrder'
  BY <1>3, <1>4, <1>5 DEF RecoveryInv, RecoveryLoopOrder, UnchangedService
<1>9. RecoveryEffects'
  BY <1>3, <1>4 DEF RecoveryInv, RecoveryEffects
<1>10. rLoopStopped' \in BOOLEAN /\ rLateEffects' \in Nat
  BY <1>4 DEF RecoveryInv, RecoveryType
<1> QED BY <1>3, <1>4, <1>5, <1>7, <1>8, <1>9, <1>10, LoopKeeps

\* A loop keeps its type and its report when it moves on, or to another job.
LEMMA SetLoopAt ==
  ASSUME NEW x \in ActionLoop, NEW a \in {"none", "lease", "step", "crossed"}
  PROVE  /\ [x EXCEPT !.at = a] \in ActionLoop
         /\ [x EXCEPT !.at = a].at = a /\ [x EXCEPT !.at = a].report = x.report
BY DEF ActionLoop

LEMMA SetLoopJob ==
  ASSUME NEW x \in ActionLoop, NEW j \in Nat
  PROVE  /\ [x EXCEPT !.job = j] \in ActionLoop
         /\ [x EXCEPT !.job = j].at = x.at /\ [x EXCEPT !.job = j].report = x.report
BY DEF ActionLoop

\* A cycle in flight has its job-set lease and its supervisor.
LEMMA CycleInFlight ==
  ASSUME RecoveryInv, rLoop.at # "none"
  PROVE  rJobSetLease /\ rSup \in {"running", "stopping"}
<1>1. rJobSetLease /\ rLoop # Recovery!NoLoop
  BY NoLoopFacts DEF RecoveryInv, RecoveryLoopOrder
<1> QED BY <1>1 DEF RecoveryInv, RecoveryType, Lifecycles, RecoveryLoopOrder

\* A cycle that failed.
LEMMA InactiveCycleEnds ==
  ASSUME RecoveryInv, UnchangedService, UNCHANGED rLateEffects, rLoop.at # "none",
         NEW n \in Int, NEW m \in Int, Recovery!CycleEnds(Recovery!InactiveReport(n, m))
  PROVE  RecoveryInv'
<1>1. rLoop \in ActionLoop /\ RecoveryReports
  BY DEF RecoveryInv, RecoveryType
<1>2. PICK r \in LoopReport : r = Recovery!InactiveReport(n, m)
  BY <1>1, InactiveReportFacts
<1>3. /\ r.state = "inactive" /\ r.lastSuccess = rLoop.report.lastSuccess
      /\ r.attempted <=> rLoop.report.attempted
  BY <1>1, <1>2, InactiveReportFacts
<1>4. r.lastSuccess # "never" => r.attempted
  BY <1>1, <1>3 DEF RecoveryReports
<1> QED BY <1>2, <1>3, <1>4, CycleInFlight, CycleEndsKeeps

\* The walk over the job set goes on, or ends the cycle.
LEMMA NextJobKeeps ==
  ASSUME RecoveryInv, UnchangedService, UNCHANGED rLateEffects, rLoop.at \in {"lease", "step", "crossed"},
         NEW j \in Nat, Recovery!NextJob(j)
  PROVE  RecoveryInv'
<1>1. CASE /\ ~rLoopStopped /\ rLoop' = [rLoop EXCEPT !.at = "step", !.job = j]
           /\ rFence' = TRUE /\ UNCHANGED <<rLoopStopped, rJobSetLease>>
  <2>1. PICK x \in ActionLoop : x = [rLoop EXCEPT !.at = "step"]
    BY SetLoopAt DEF RecoveryInv, RecoveryType
  <2>2. x.at = "step" /\ x.report = rLoop.report
    BY <2>1, SetLoopAt DEF RecoveryInv, RecoveryType
  <2>3. rLoop' = [x EXCEPT !.job = j]
    BY <1>1, <2>1
  <2>4. rLoop' \in ActionLoop /\ rLoop'.at = "step" /\ rLoop'.report = rLoop.report
    BY <2>2, <2>3, SetLoopJob
  <2>5. rFence' \in BOOLEAN
    BY <1>1
  <2>6. rJobSetLease /\ rSup \in {"running", "stopping"}
    BY CycleInFlight
  <2>7. RecoveryLoopOrder'
    BY <1>1, <2>4, <2>6 DEF RecoveryInv, RecoveryLoopOrder, UnchangedService
  <2>8. RecoveryEffects'
    BY <1>1, <2>4 DEF RecoveryInv, RecoveryEffects
  <2>9. RecoveryReports'
    BY <1>1, <2>4 DEF RecoveryInv, RecoveryReports
  <2>10. rLoopStopped' \in BOOLEAN /\ rJobSetLease' \in BOOLEAN /\ rLateEffects' \in Nat
    BY <1>1 DEF RecoveryInv, RecoveryType
  <2> QED BY <2>4, <2>5, <2>7, <2>8, <2>9, <2>10, LoopKeeps
<1>2. CASE Recovery!CycleEnds(Recovery!InactiveReport(j, j - 1))
  <2>1. j \in Int /\ j - 1 \in Int /\ rLoop.at # "none"
    OBVIOUS
  <2> QED BY <1>2, <2>1, InactiveCycleEnds
<1> QED BY <1>1, <1>2 DEF Recovery!NextJob

\* The steps of the loop, through its lease, its fence and its effects.
LEMMA RecoveryLoopSteps ==
  ASSUME RecoveryInv, rLease = "held",
         \/ Recovery!StartCycle \/ Recovery!CrossBoundary \/ Recovery!Effect
         \/ \E ok \in BOOLEAN : Recovery!CycleLeaseEnds(ok) \/ Recovery!StepEnds(ok)
  PROVE  RecoveryInv'
<1>1. rLoop \in ActionLoop /\ rLoop.job \in Nat
  BY DEF RecoveryInv, RecoveryType, ActionLoop
<1>2. UnchangedService
  BY DEF Recovery!StartCycle, Recovery!CrossBoundary, Recovery!Effect, Recovery!CycleLeaseEnds,
         Recovery!StepEnds, Recovery!UnchangedByLoop, Recovery!bootVars, Recovery!verificationVars,
         Recovery!resourceVars, UnchangedService
<1>3. CASE Recovery!StartCycle
  <2>1. rSup = "running" /\ ~rLoopStopped /\ rLoop.at = "none" /\ UNCHANGED rLateEffects
    BY <1>3 DEF Recovery!StartCycle, Recovery!NoCycle
  <2>2. PICK r \in LoopReport : r = Recovery!RunningReport
    BY <1>1, RunningReportFacts
  <2>3. r.state = "running" /\ r.attempted /\ Recovery!RecoveryActionValid(r, JobCount)
    BY <1>1, <2>2, RunningReportFacts
  <2>4. CASE /\ rLoop' = [at |-> "lease", job |-> 0, report |-> r]
             /\ UNCHANGED <<rLoopStopped, rFence, rJobSetLease>>
    <3>1. rLoop' \in ActionLoop /\ rLoop'.at = "lease" /\ rLoop'.report = r
      BY <2>4 DEF ActionLoop
    <3>2. rFence = FALSE
      BY <2>1 DEF RecoveryInv, RecoveryType, RecoveryLoopOrder
    <3>3. rJobSetLease
      BY <2>1 DEF RecoveryInv, RecoveryLoopOrder
    <3>4. RecoveryLoopOrder'
      BY <1>2, <2>1, <2>4, <3>1, <3>2, <3>3 DEF RecoveryInv, RecoveryLoopOrder, UnchangedService
    <3>5. RecoveryEffects'
      BY <2>1, <2>4, <3>1 DEF RecoveryInv, RecoveryEffects
    <3>6. RecoveryReports'
      BY <2>3, <3>1 DEF RecoveryReports
    <3>7. /\ rLoopStopped' \in BOOLEAN /\ rJobSetLease' \in BOOLEAN /\ rLateEffects' \in Nat
          /\ rFence' \in BOOLEAN
      BY <2>1, <2>4 DEF RecoveryInv, RecoveryType
    <3> QED BY <1>2, <3>1, <3>4, <3>5, <3>6, <3>7, LoopKeeps
  <2>5. CASE Recovery!CycleEnds([r EXCEPT !.state = "inactive", !.failures = 1])
    <3>1. PICK r1 \in LoopReport : r1 = [r EXCEPT !.state = "inactive"]
      BY SetReportState
    <3>2. PICK r2 \in LoopReport : r2 = [r1 EXCEPT !.failures = 1]
      BY SetReportFailures
    <3>3. r2 = [r EXCEPT !.state = "inactive", !.failures = 1]
      BY <3>1, <3>2
    <3>4. r2.state = "inactive"
      BY <3>1, <3>2 DEF LoopReport
    <3>5. r2.attempted = r.attempted
      BY <3>1, <3>2 DEF LoopReport
    <3>6. r2.attempted
      BY <2>3, <3>5
    <3> QED BY <1>2, <2>1, <2>5, <3>3, <3>4, <3>6, CycleEndsKeeps
  <2> QED BY <1>3, <2>2, <2>4, <2>5 DEF Recovery!StartCycle
<1>4. CASE Recovery!CrossBoundary \/ Recovery!Effect
  <2>1. PICK a \in {"step", "crossed"} : rLoop' = [rLoop EXCEPT !.at = a]
    BY <1>4 DEF Recovery!CrossBoundary, Recovery!Effect
  <2>2. rLoop' \in ActionLoop /\ rLoop'.at = a /\ rLoop'.report = rLoop.report
    BY <1>1, <2>1, SetLoopAt
  <2>3. UNCHANGED <<rLoopStopped, rFence, rJobSetLease>> /\ rLoop.at # "none"
    BY <1>4 DEF Recovery!CrossBoundary, Recovery!Effect
  <2>4. rJobSetLease /\ rSup \in {"running", "stopping"}
    BY <2>3, CycleInFlight
  <2>5. RecoveryLoopOrder'
    BY <1>2, <2>2, <2>3, <2>4 DEF RecoveryInv, RecoveryLoopOrder, UnchangedService
  <2>6. RecoveryReports'
    BY <2>2, <2>3 DEF RecoveryInv, RecoveryReports
  <2>7. RecoveryEffects' /\ rLateEffects' \in Nat
    <3>1. CASE Recovery!CrossBoundary
      <4>1. rFence /\ UNCHANGED rLateEffects
        BY <3>1 DEF Recovery!CrossBoundary
      <4>2. ~rLoopStopped
        BY <4>1 DEF RecoveryInv, RecoveryLoopOrder
      <4> QED BY <2>3, <4>1, <4>2 DEF RecoveryInv, RecoveryType, RecoveryEffects
    <3>2. CASE Recovery!Effect
      <4>1. rLoop.at = "crossed" /\ rLoop' = [rLoop EXCEPT !.at = "step"]
            /\ rLateEffects' = IF rLoopStopped THEN rLateEffects + 1 ELSE rLateEffects
        BY <3>2 DEF Recovery!Effect
      <4>2. rLateEffects = 0 /\ rLoop'.at = "step"
        BY <1>1, <4>1, SetLoopAt DEF RecoveryInv, RecoveryEffects
      <4>3. rLateEffects' \in {0, 1} /\ (~rLoopStopped' => rLateEffects' = 0)
        BY <2>3, <4>1, <4>2
      <4> QED BY <4>2, <4>3 DEF RecoveryEffects
    <3> QED BY <1>4, <3>1, <3>2
  <2>8. rLoopStopped' \in BOOLEAN /\ rJobSetLease' \in BOOLEAN /\ rFence' \in BOOLEAN
    BY <2>3 DEF RecoveryInv, RecoveryType
  <2> QED BY <1>2, <2>2, <2>5, <2>6, <2>7, <2>8, LoopKeeps
<1>5. ASSUME NEW ok \in BOOLEAN, Recovery!CycleLeaseEnds(ok) PROVE RecoveryInv'
  <2>1. rLoop.at = "lease" /\ UNCHANGED rLateEffects
    BY <1>5 DEF Recovery!CycleLeaseEnds
  <2>2. CASE ok
    <3>1. Recovery!NextJob(1)
      BY <1>5, <2>2 DEF Recovery!CycleLeaseEnds
    <3> QED BY <1>2, <2>1, <3>1, NextJobKeeps
  <2>3. CASE ~ok
    <3>1. Recovery!CycleEnds(Recovery!InactiveReport(0, 0))
      BY <1>5, <2>3 DEF Recovery!CycleLeaseEnds
    <3>2. rLoop.at # "none"
      BY <2>1
    <3> QED BY <1>2, <2>1, <3>1, <3>2, InactiveCycleEnds
  <2> QED BY <2>2, <2>3
<1>6. ASSUME NEW ok \in BOOLEAN, Recovery!StepEnds(ok) PROVE RecoveryInv'
  <2>1. rLoop.at \in {"step", "crossed"} /\ UNCHANGED rLateEffects /\ rLoop.at # "none"
    BY <1>6 DEF Recovery!StepEnds
  <2>2. CASE Recovery!CycleEnds(Recovery!InactiveReport(rLoop.job, rLoop.job - 1))
    <3>1. rLoop.job \in Int /\ rLoop.job - 1 \in Int
      BY <1>1
    <3> QED BY <1>2, <2>1, <2>2, <3>1, InactiveCycleEnds
  <2>3. CASE Recovery!NextJob(rLoop.job + 1)
    <3>1. rLoop.job + 1 \in Nat /\ rLoop.at \in {"lease", "step", "crossed"}
      BY <1>1, <2>1
    <3> QED BY <1>2, <2>1, <2>3, <3>1, NextJobKeeps
  <2>4. CASE Recovery!CycleEnds(Recovery!ActiveReport)
    <3>1. rLoop.report.attempted
      BY <2>1 DEF RecoveryInv, RecoveryReports
    <3>2. PICK r \in LoopReport : r = Recovery!ActiveReport
      BY <1>1, <3>1, ActiveReportFacts
    <3>3. r.attempted /\ Recovery!RecoveryActionValid(r, JobCount)
      BY <1>1, <3>1, <3>2, ActiveReportFacts
    <3> QED BY <1>2, <2>1, <2>4, <3>2, <3>3, CycleInFlight, CycleEndsKeeps
  <2> QED BY <1>6, <2>2, <2>3, <2>4 DEF Recovery!StepEnds
<1> QED BY <1>3, <1>4, <1>5, <1>6

-------------------------------------------------------------------------------
(* The recovery service: every step. *)

\* Supervisor and bootstrap drain, the store is closed and the lease released.
LEMMA RecoveryShutdownSteps ==
  ASSUME RecoveryInv, rLease = "held", Recovery!Shutdown PROVE RecoveryInv'
<1>1. CASE Recovery!SupervisorDrains
  <2>1. /\ rSup = "stopping" /\ rPublishing = "none" /\ ~rJobSetLease /\ rSup' = "stopped"
        /\ UNCHANGED <<rStart, rBoot, rBootPublishing, rPreparation, rPublishing, rVerification,
                       rVerificationStopped, rLoop, rLoopStopped, rFence, rJobSetLease, rStore, rLease,
                       rLateEffects>>
    BY <1>1 DEF Recovery!SupervisorDrains, Recovery!bootVars, Recovery!verificationVars,
                Recovery!loopVars, Recovery!resourceVars
  <2>2. RecoveryType'
    BY <2>1 DEF RecoveryInv, RecoveryType, Lifecycles
  <2>3. RecoveryResources' /\ RecoveryBootOrder' /\ RecoveryRevoked'
    BY <2>1 DEF RecoveryInv, RecoveryResources, RecoveryBootOrder, RecoveryRevoked
  <2>4. RecoveryLoopOrder' /\ RecoveryEffects' /\ RecoveryReports'
    BY <2>1 DEF RecoveryInv, RecoveryLoopOrder, RecoveryEffects, RecoveryReports
  <2> QED BY <2>2, <2>3, <2>4 DEF RecoveryInv
<1>2. CASE Recovery!BootFollows
  <2>1. /\ rBoot # "stopped" /\ rStart # "verifying" /\ Recovery!StopBoot("background-failure")
        /\ UNCHANGED <<rStart, rBootPublishing, rPreparation, rPublishing, rStore, rLease, rLateEffects>>
    BY <1>2 DEF Recovery!BootFollows, Recovery!resourceVars, RecoveryInv, RecoveryBootOrder
  <2> QED BY <2>1, RecoveryStopKeeps DEF RecoveryInv, RecoveryType, RecoveryBootOrder
<1>3. CASE Recovery!BootDrains
  <2>1. /\ rBoot = "stopping" /\ ~rBootPublishing /\ ~rPreparation /\ rSup \in {"none", "stopped"}
        /\ rBoot' = "stopped"
        /\ UNCHANGED <<rStart, rBootPublishing, rPreparation, rSup, rPublishing, rVerification,
                       rVerificationStopped, rLoop, rLoopStopped, rFence, rJobSetLease, rStore, rLease,
                       rLateEffects>>
    BY <1>3 DEF Recovery!BootDrains, Recovery!verificationVars, Recovery!loopVars, Recovery!resourceVars
  <2>2. RecoveryType'
    BY <2>1 DEF RecoveryInv, RecoveryType, Lifecycles
  <2>3. RecoveryResources' /\ RecoveryBootOrder' /\ RecoveryRevoked'
    BY <2>1 DEF RecoveryInv, RecoveryResources, RecoveryBootOrder, RecoveryRevoked
  <2>4. RecoveryLoopOrder' /\ RecoveryEffects' /\ RecoveryReports'
    BY <2>1 DEF RecoveryInv, RecoveryLoopOrder, RecoveryEffects, RecoveryReports
  <2> QED BY <2>2, <2>3, <2>4 DEF RecoveryInv
<1>4. CASE Recovery!CloseStore
  <2>1. /\ rBoot = "stopped" /\ rStore' = "closed" /\ Recovery!RevokeVerification
        /\ UNCHANGED <<rStart, rBoot, rBootPublishing, rPreparation, rSup, rPublishing, rLoop,
                       rLoopStopped, rFence, rJobSetLease, rLease, rLateEffects>>
    BY <1>4 DEF Recovery!CloseStore, Recovery!bootVars, Recovery!loopVars
  <2>2. ~rVerification' /\ rVerification' \in BOOLEAN /\ rVerificationStopped' /\ rVerificationStopped' \in BOOLEAN
    BY <2>1 DEF Recovery!RevokeVerification
  <2>3. RecoveryType'
    BY <2>1, <2>2 DEF RecoveryInv, RecoveryType
  <2>4. RecoveryResources' /\ RecoveryBootOrder' /\ RecoveryRevoked'
    BY <2>1, <2>2 DEF RecoveryInv, RecoveryResources, RecoveryBootOrder, RecoveryRevoked
  <2>5. RecoveryLoopOrder' /\ RecoveryEffects' /\ RecoveryReports'
    BY <2>1 DEF RecoveryInv, RecoveryLoopOrder, RecoveryEffects, RecoveryReports
  <2> QED BY <2>3, <2>4, <2>5 DEF RecoveryInv
<1>5. CASE Recovery!ReleaseLease
  BY <1>5, ResetKeeps DEF Recovery!ReleaseLease
<1> QED BY <1>1, <1>2, <1>3, <1>4, <1>5 DEF Recovery!Shutdown

\* Every step of the recovery process keeps its invariant: one case per group of actions.
LEMMA RecoveryInvStep == ASSUME RecoveryInv, rLease = "held", Recovery!RecoveryNext PROVE RecoveryInv'
<1>1. ASSUME NEW ok \in BOOLEAN,
             \/ Recovery!FirstRefreshEnds(ok) \/ Recovery!BootPublicationEnds(ok)
             \/ Recovery!PreparationEnds(ok) \/ Recovery!HandoffLeaseEnds(ok)
      PROVE  RecoveryInv'
  BY <1>1, RecoveryStartSteps
<1>2. ASSUME NEW ok \in BOOLEAN, Recovery!RefreshEnds(ok) PROVE RecoveryInv'
  BY <1>2, RefreshEndsKeeps
<1>3. ASSUME NEW ok \in BOOLEAN, Recovery!PublicationEnds(ok) PROVE RecoveryInv'
  BY <1>3, PublicationEndsKeeps
<1>4. ASSUME NEW ok \in BOOLEAN, Recovery!CycleLeaseEnds(ok) \/ Recovery!StepEnds(ok) PROVE RecoveryInv'
  BY <1>4, RecoveryLoopSteps
<1>5. CASE Recovery!StartCycle \/ Recovery!CrossBoundary \/ Recovery!Effect
  BY <1>5, RecoveryLoopSteps
<1>6. CASE Recovery!Shutdown
  BY <1>6, RecoveryShutdownSteps
<1>7. CASE Recovery!SupervisorBeat
  BY <1>7, SupervisorBeatKeeps
<1>8. CASE Recovery!BootBeat
  <2>1. /\ rBoot = "starting" /\ rStart = "preparing"
        /\ UNCHANGED <<rStart, rPreparation, rPublishing, rStore, rLease, rLateEffects>>
    BY <1>8 DEF Recovery!BootBeat, Recovery!resourceVars
  <2>2. /\ rSup = "none" /\ rPreparation \in BOOLEAN /\ rBootPublishing \in BOOLEAN
        /\ rStart \in Starts
    BY <2>1 DEF RecoveryInv, RecoveryType, RecoveryBootOrder, BeforeHandoff
  <2>3. CASE rBootPublishing' = TRUE /\ UnchangedControl
    <3>1. rBootPublishing' \in BOOLEAN
      BY <2>3
    <3> QED BY <2>1, <2>2, <2>3, <3>1, UnchangedKeeps
  <2>4. CASE Recovery!StopBoot("background-failure") /\ UNCHANGED rBootPublishing
    BY <2>1, <2>2, <2>4, RecoveryStopKeeps
  <2> QED BY <1>8, <2>3, <2>4 DEF Recovery!BootBeat, UnchangedControl, Recovery!verificationVars,
             Recovery!loopVars
<1>9. CASE Recovery!PreparationTimeout \/ \E why \in {"requested", "aborted"} : Recovery!Stop(why)
  <2>1. PICK why : Recovery!StopBoot(why)
    BY <1>9 DEF Recovery!PreparationTimeout, Recovery!Stop
  <2>2. /\ rBoot \in {"starting", "running"}
        /\ UNCHANGED <<rStart, rBootPublishing, rPreparation, rPublishing, rStore, rLease, rLateEffects>>
    BY <1>9 DEF Recovery!PreparationTimeout, Recovery!Stop, Recovery!resourceVars
  <2>3. rBoot # "stopped" /\ rStart # "verifying"
    BY <2>2 DEF RecoveryInv, RecoveryBootOrder
  <2> QED BY <2>1, <2>2, <2>3, RecoveryStopKeeps DEF RecoveryInv, RecoveryType, RecoveryBootOrder
<1>10. CASE Recovery!Expire
  <2>1. UNCHANGED <<rStart, rBoot, rBootPublishing, rPreparation, rSup, rPublishing,
                    rVerificationStopped, rLoop, rLoopStopped, rFence, rJobSetLease, rStore, rLease,
                    rLateEffects>>
    BY <1>10 DEF Recovery!Expire, Recovery!bootVars, Recovery!loopVars, Recovery!resourceVars
  <2>2. ~rVerification' /\ rVerification' \in BOOLEAN
    BY <1>10 DEF Recovery!Expire
  <2>3. RecoveryType'
    BY <2>1, <2>2 DEF RecoveryInv, RecoveryType
  <2>4. RecoveryResources' /\ RecoveryBootOrder' /\ RecoveryRevoked'
    BY <2>1, <2>2 DEF RecoveryInv, RecoveryResources, RecoveryBootOrder, RecoveryRevoked
  <2>5. RecoveryLoopOrder' /\ RecoveryEffects' /\ RecoveryReports'
    BY <2>1 DEF RecoveryInv, RecoveryLoopOrder, RecoveryEffects, RecoveryReports
  <2> QED BY <2>3, <2>4, <2>5 DEF RecoveryInv
<1> QED
  BY <1>1, <1>2, <1>3, <1>4, <1>5, <1>6, <1>7, <1>8, <1>9, <1>10
     DEF Recovery!RecoveryNext, Recovery!Answers, Recovery!StepReturns

-------------------------------------------------------------------------------
(* The host. *)

HostInv == ControlInv /\ JournalInv /\ RecoveryInv

\* What the active process knows is its own.
LEMMA ActiveStutters ==
  ASSUME ControlInv, JournalInv, UNCHANGED activeVars PROVE ControlInv' /\ JournalInv'
<1>1. ControlInv'
  BY DEF activeVars, procVars, ControlInv, ControlType, RunBegun, StopStands, BootOrder, SupervisorOrder
<1>2. JournalInv'
  BY DEF activeVars, JournalInv, JournalType, RunsAccounted, Readable, LastWrite, Windows,
         CurrentWindow, Anchor
<1> QED BY <1>1, <1>2

\* What the recovery process knows is its own.
LEMMA RecoveryStutters == ASSUME RecoveryInv, UNCHANGED rVars PROVE RecoveryInv'
<1>1. RecoveryType'
  BY DEF rVars, RecoveryInv, RecoveryType
<1>2. RecoveryResources' /\ RecoveryBootOrder' /\ RecoveryRevoked'
  BY DEF rVars, RecoveryInv, RecoveryResources, RecoveryBootOrder, RecoveryRevoked
<1>3. RecoveryLoopOrder' /\ RecoveryEffects' /\ RecoveryReports'
  BY DEF rVars, RecoveryInv, RecoveryLoopOrder, RecoveryEffects, RecoveryReports
<1> QED BY <1>1, <1>2, <1>3 DEF RecoveryInv

\* The inductive invariant of the host, for every window, limit of failures and job count: the
\* order in which the two services start, hand over, stop and drain, and the windows of failures
\* that the run journal keeps across the deaths of the process.
THEOREM HostInvariant == HostSpec => []HostInv
<1>1. HostInit => HostInv
  BY ActiveControlInit, ActiveJournalInit, RecoveryInitially DEF HostInit, HostInv
<1>2. HostInv /\ [HostNext]_hostVars => HostInv'
  <2> SUFFICES ASSUME HostInv, [HostNext]_hostVars PROVE HostInv'
    OBVIOUS
  <2> USE DEF HostInv
  <2>1. CASE ActiveStep
    <3>1. JournalType
      BY DEF JournalInv
    <3>2. ControlInv' /\ JournalInv'
      BY <2>1, <3>1, ActiveAssumption, ActiveControlStep, ActiveJournalStep DEF ActiveStep
    <3> QED BY <2>1, <3>2, RecoveryStutters DEF ActiveStep
  <2>2. CASE LaunchRecovery
    <3>1. Recovery!Reset("verifying", "open", "held") /\ UNCHANGED activeVars
      BY <2>2 DEF LaunchRecovery, Recovery!Acquire
    <3>2. RecoveryInv'
      BY <3>1, ResetKeeps
    <3> QED BY <3>1, <3>2, ActiveStutters
  <2>3. CASE RecoveryStep
    <3>1. RecoveryInv'
      BY <2>3, RecoveryInvStep DEF RecoveryStep, RecoveryRuns
    <3> QED BY <2>3, <3>1, ActiveStutters DEF RecoveryStep
  <2>4. CASE CrashRecovery
    <3>1. Recovery!Reset("none", "closed", "released") /\ UNCHANGED activeVars
      BY <2>4 DEF CrashRecovery, Recovery!Die
    <3>2. RecoveryInv'
      BY <3>1, ResetKeeps
    <3> QED BY <3>1, <3>2, ActiveStutters
  <2>5. CASE UNCHANGED hostVars
    <3>1. UNCHANGED activeVars /\ UNCHANGED rVars
      BY <2>5 DEF hostVars
    <3> QED BY <3>1, ActiveStutters, RecoveryStutters
  <2> QED BY <2>1, <2>2, <2>3, <2>4, <2>5 DEF HostNext
<1> QED BY <1>1, <1>2, PTL DEF HostSpec

\* The run journal is sound: beginServiceRun, recordServiceRunStatus and finishServiceRun account
\* for every run once, never write a record that readServiceRunState refuses, and bound a crash
\* loop, whenever the process dies and however the clock is set back.
THEOREM HostJournalSound == HostSpec => []JournalSound
<1>1. HostInv => JournalSound
  <2> SUFFICES ASSUME HostInv PROVE JournalSound
    OBVIOUS
  <2>1. BreakerBounds
    BY ActiveAssumption, WindowsBound DEF HostInv
  <2> QED BY <2>1 DEF HostInv, JournalInv, JournalSound
<1> QED BY <1>1, HostInvariant, PTL

\* Either service closes its store only after what it had in flight has drained, and a stopped
\* recovery service has no authority left, whichever await the stop met.
THEOREM HostServicesDrained == HostSpec => []HostDrained
<1>1. HostInv => HostDrained
  <2> SUFFICES ASSUME HostInv PROVE HostDrained
    OBVIOUS
  <2>1. ClosedIsDrained
    BY DEF HostInv, ControlInv, ControlType, BootOrder, SupervisorOrder, ClosedIsDrained
  <2>2. Recovery!DrainedBeforeClose
    <3>1. ASSUME rStore = "closed"
          PROVE  rSup \in {"none", "stopped"} /\ ~rPreparation /\ ~rBootPublishing
      BY <3>1 DEF HostInv, RecoveryInv, RecoveryResources, RecoveryBootOrder
    <3>2. ASSUME rStore = "closed"
          PROVE  rLoop.at = "none" /\ ~rJobSetLease /\ rPublishing = "none"
      BY <3>1, <3>2 DEF HostInv, RecoveryInv, RecoveryLoopOrder
    <3>3. rLease = "released" => rStore = "closed"
      BY DEF HostInv, RecoveryInv, RecoveryResources
    <3> QED BY <3>1, <3>2, <3>3 DEF Recovery!DrainedBeforeClose, Recovery!NoCycle
  <2>3. Recovery!StopRevokes
    BY DEF HostInv, RecoveryInv, RecoveryLoopOrder, RecoveryRevoked, RecoveryEffects,
           Recovery!StopRevokes
  <2>4. Recovery!ReportPublishable
    BY DEF HostInv, RecoveryInv, RecoveryType, Recovery!ReportPublishable
  <2> QED BY <2>1, <2>2, <2>3, <2>4 DEF HostDrained
<1> QED BY <1>1, HostInvariant, PTL

\* A record of a failure is never taken back: the history that bounds a crash loop only grows, by
\* one failure of the present, at a start that finds the last run RUNNING or at the end of a run.
THEOREM HostFailuresStand ==
  HostSpec => [][failures' = failures \/ failures' = Append(failures, [at |-> clock, nth |-> run'.count])]_hostVars
<1>1. ActiveNext /\ JournalInv =>
        failures' = failures \/ failures' = Append(failures, [at |-> clock, nth |-> run'.count])
  <2> SUFFICES ASSUME ActiveNext, JournalInv
               PROVE  failures' = failures \/ failures' = Append(failures, [at |-> clock, nth |-> run'.count])
    OBVIOUS
  <2>1. CASE Launch
    BY <2>1 DEF Launch, WithFailure
  <2>2. CASE Cleanup
    BY <2>2 DEF Cleanup, WithFailure
  <2> QED BY <2>1, <2>2, JournalMoves DEF JournalInv, JournalType
<1>2. HostInv /\ [HostNext]_hostVars =>
        [failures' = failures \/ failures' = Append(failures, [at |-> clock, nth |-> run'.count])]_hostVars
  BY <1>1 DEF HostNext, ActiveStep, LaunchRecovery, RecoveryStep, CrashRecovery, activeVars, HostInv
<1> QED BY <1>2, HostInvariant, PTL DEF HostSpec

===============================================================================
