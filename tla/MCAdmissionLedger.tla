--------------------------- MODULE MCAdmissionLedger ---------------------------
(* TLC instance of AdmissionLedger: the requests, offers and snapshots. *)
EXTENDS AdmissionLedger, TLC

CONSTANTS i1, i2, r1, r2, r3, s1, s2, o1, o2, o3

Request(identity, direction, nonce, expiresAt) ==
  [identity |-> identity, direction |-> direction, notional |-> 2, nonce |-> nonce, expiresAt |-> expiresAt]
Offer(request, solver, bit, fee, epoch, expiresAt) ==
  [request |-> request, solver |-> solver, bit |-> bit, notional |-> 2, routingFee |-> fee, epoch |-> epoch,
   expiresAt |-> expiresAt, selectionExpiresAt |-> expiresAt]
Snapshot(solver, epoch, at, bit, lightning) ==
  [solver |-> solver, epoch |-> epoch, observedAt |-> at, bit |-> bit, lightning |-> lightning,
   capabilityExpiresAt |-> 5]

\* Two solvers bid for the first request, and the first offer expires before it; the second
\* request competes with it for the quota.  The third is another user's, in the other direction:
\* its offer has routing headroom and takes capacity of the first solver, whose second snapshot
\* no longer covers it.
MCRequests ==
  (r1 :> Request(i1, "lightning-to-bit", 1, 2)) @@ (r2 :> Request(i1, "bit-to-lightning", 2, 3))
  @@ (r3 :> Request(i2, "bit-to-lightning", 1, 2))
MCOffers ==
  (o1 :> Offer(r1, s1, 1, 0, 0, 1)) @@ (o2 :> Offer(r1, s2, 1, 0, 0, 2)) @@ (o3 :> Offer(r3, s1, 0, 1, 0, 2))
MCSnapshots == {Snapshot(s1, 0, 0, 1, 5), Snapshot(s1, 1, 1, 1, 2), Snapshot(s2, 0, 0, 1, 2)}

\* A behaviour is about rival offers or about shared capacity; it leaves the rest alone.  The
\* request that competes for the quota is not followed together with rivals or settlements, and
\* what is independent comes in one order.
VARIABLE focus
mcVars == <<admissionVars, focus>>
Focused ==
  \/ /\ focus = "rivals"
     /\ lastObserved[i2] = Never /\ solvers[s1].epoch <= 0 /\ settlements[o3] = NoSettlement
     /\ (Owned(o2) => offers[o2] # NoOffer)
     /\ (solvers[s2].epoch # Never => solvers[s1].epoch # Never)
     /\ (requests[r2] # NoRequest => \A o \in OfferIds : settlements[o] = NoSettlement /\ offers[o2] = NoOffer)
  \/ /\ focus = "capacity"
     /\ requests[r2] = NoRequest /\ solvers[s2].epoch = Never /\ cancellations = {}
     /\ settlements[o2] = NoSettlement /\ now <= 1
     /\ \A o \in {o1, o3} : Owned(o) => offers[o] # NoOffer
     /\ (requests[r3] # NoRequest => requests[r1] # NoRequest)
     /\ (settlements[o3] # NoSettlement => settlements[o1] = NoSettlement)
     /\ (\A r \in {r1, r3} : requests[r].state # "ABANDONED")
MCInit == AdmissionInit /\ focus \in {"rivals", "capacity"}
MCNext == UNCHANGED focus /\ AdmissionNext /\ Focused'
MCSpec == MCInit /\ [][MCNext]_mcVars
===============================================================================
