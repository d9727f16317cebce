---------------------------- MODULE SelectedSolver -----------------------------
(***************************************************************************)
(* The services of the selected solver: the finalization provider with its *)
(* durable store, the finalizer that obtains a hold invoice from the       *)
(* private invoice-material service, that service and its node, and the    *)
(* contract-signing provider (lib/selected-solver-finalization-            *)
(* {transport, provider}.mjs, selected-solver-invoice-material             *)
(* {,-finalizer, -transport, -provider}.mjs, solver-contract-signing-      *)
(* {transport, provider}.mjs).  The direction is Lightning to BIT; in the  *)
(* other one the invoice comes with the request and no material is asked.  *)
(*                                                                         *)
(* A call is one HTTP request with a packet that is signed once; a lost,   *)
(* late or failed call may be repeated with the same packet.  Packets name *)
(* their settlement, so that the conflict of two digests under one request *)
(* identifier, which needs two clients, does not arise.                    *)
(***************************************************************************)
EXTENDS QuoteIntake

CONSTANTS Calls, MaterialCalls,          \* requests that may be in flight at once
          LeaseSeconds, MaterialTtl,     \* recoveryLeaseSeconds, requestTtlSeconds of the material client
          SigningWindow,                 \* a signing claim is recovered for so long
          MaxCrashes                     \* bound: crashes of the solver's two processes

VARIABLES calls,            \* calls to the solver's endpoint
          finalizations,    \* durable rows of the finalization provider
          signings,         \* durable rows of the signing provider
          attempts,         \* material attempts of the finalizer, kept while it runs
          materialCalls,    \* calls to the material service
          materials,        \* durable rows of the material provider
          resolution,       \* the one resolution of a payment hash in flight
          invoices,         \* requests with a hold invoice on the node
          crashes,
          answered          \* history: the executable responses answered for a request

solverVars == <<calls, finalizations, signings, attempts, materialCalls, materials, resolution, invoices,
                crashes, answered>>
endpointVars == <<calls, finalizations, signings, attempts>>
materialVars == <<materialCalls, materials, resolution, invoices>>

None == "none"

ASSUME SolverAssumption ==
  /\ None \notin Calls \cup MaterialCalls
  /\ LeaseSeconds \in Nat /\ MaterialTtl \in Nat

NoCall == [phase |-> "idle", kind |-> None, of |-> None, expiresAt |-> 0, epoch |-> 0,
           status |-> 0, response |-> 0, until |-> 0]
NoExchange == [state |-> "NONE", expiresAt |-> 0, claimedAt |-> 0, epoch |-> 0, leaseExpiresAt |-> 0,
               response |-> 0, responseExpiresAt |-> 0]
NoAttempt == [expiresAt |-> 0, call |-> None, result |-> FALSE]

SolverInit ==
  /\ calls = [c \in Calls |-> NoCall]
  /\ materialCalls = [m \in MaterialCalls |-> NoCall]
  /\ finalizations = [q \in Requests |-> NoExchange]
  /\ signings = [q \in Requests |-> NoExchange]
  /\ materials = [q \in Requests |-> NoExchange]
  /\ attempts = [q \in Requests |-> NoAttempt]
  /\ resolution = [q \in Requests |-> "idle"]
  /\ invoices = {} /\ crashes = 0
  /\ answered = [q \in Requests |-> {}]

-------------------------------------------------------------------------------
(* A durable store of exchanges: what begin and complete do, in all three providers. *)

LiveRow(row) == IF row.expiresAt <= now THEN NoExchange ELSE row
Least(a, b) == IF a <= b THEN a ELSE b

\* The status that begin returns for a live row.
ClaimStatus(row) ==
  CASE row.state = "NONE" -> "LEASE"
    [] row.state = "READY" /\ row.responseExpiresAt > now -> "READY"
    [] row.state = "READY" /\ row.responseExpiresAt <= now -> "EXPIRED"
    [] row.state = "CLAIMED" /\ row.leaseExpiresAt > now -> "PENDING"
    [] OTHER -> "LEASE"

\* A first lease, or a recovery lease in the next epoch.
Leased(row, expiresAt) ==
  LET base == IF row.state = "NONE"
              THEN [NoExchange EXCEPT !.state = "CLAIMED", !.expiresAt = expiresAt, !.claimedAt = now] ELSE row
  IN [base EXCEPT !.epoch = @ + 1, !.leaseExpiresAt = Least(expiresAt, now + LeaseSeconds)]

\* complete: the lease that did the work is still the current one.
Completable(row, call, until) ==
  /\ row.state = "CLAIMED" /\ row.epoch = call.epoch /\ row.leaseExpiresAt > now
  /\ now < until /\ until <= row.expiresAt
Completed(row, response, until) ==
  [row EXCEPT !.state = "READY", !.response = response, !.responseExpiresAt = until]

Answer(call, status) == [call EXCEPT !.phase = "answered", !.status = status]
AnswerWith(call, row) ==
  [Answer(call, 200) EXCEPT !.response = row.response, !.until = row.responseExpiresAt]

\* The answer to a claim that was not leased.
Rejection(call, row) ==
  CASE ClaimStatus(row) = "READY" -> AnswerWith(call, row)
    [] ClaimStatus(row) = "PENDING" -> Answer(call, 425)
    [] OTHER -> Answer(call, 400)

-------------------------------------------------------------------------------
(* The finalization provider and its finalizer. *)

Sent(c, kind) == calls[c].phase = "sent" /\ calls[c].kind = kind

\* handle up to the finalizer: the packet is verified, and claimed.
FinalizationArrives(c) ==
  LET call == calls[c]
      row == LiveRow(finalizations[call.of])
  IN /\ Sent(c, "finalize")
     /\ IF call.expiresAt <= now
        THEN calls' = [calls EXCEPT ![c] = Answer(call, 400)] /\ UNCHANGED finalizations
        ELSE IF ClaimStatus(row) = "LEASE"
        THEN LET leased == Leased(row, call.expiresAt)
             IN /\ finalizations' = [finalizations EXCEPT ![call.of] = leased]
                /\ calls' = [calls EXCEPT ![c].phase = "resolving", ![c].epoch = leased.epoch]
        ELSE /\ finalizations' = [finalizations EXCEPT ![call.of] = row]
             /\ calls' = [calls EXCEPT ![c] = Rejection(call, row)]
     /\ UNCHANGED <<signings, attempts, materialVars, crashes, answered>>

\* The material request that is signed once for an attempt.
MaterialPacket(q, attempt, until) ==
  [NoCall EXCEPT !.phase = "sent", !.kind = "material", !.of = q, !.expiresAt = attempt.expiresAt,
                 !.until = until]

\* resolve of the finalizer up to the material client: one attempt for a request, its
\* result kept, one send in flight.
AskMaterial(c) ==
  LET q == calls[c].of
      fresh == attempts[q].expiresAt = 0
      attempt == IF fresh THEN [NoAttempt EXCEPT !.expiresAt = Least(now + MaterialTtl, calls[c].expiresAt)]
                 ELSE attempts[q]
  IN /\ calls[c].phase = "resolving"
     /\ \/ /\ attempt.result
           /\ calls' = [calls EXCEPT ![c].phase = "building"]
           /\ UNCHANGED <<attempts, materialCalls>>
        \/ /\ ~attempt.result /\ (attempt.call # None \/ attempt.expiresAt <= now)
           /\ calls' = [calls EXCEPT ![c] = Answer(@, 503)]
           /\ UNCHANGED <<attempts, materialCalls>>
        \/ /\ ~attempt.result /\ attempt.call = None /\ attempt.expiresAt > now
           /\ \E m \in MaterialCalls :
                /\ materialCalls[m].phase = "idle"
                /\ materialCalls' = [materialCalls EXCEPT ![m] = MaterialPacket(q, attempt, calls[c].expiresAt)]
                /\ attempts' = [attempts EXCEPT ![q] = [attempt EXCEPT !.call = m]]
           /\ calls' = [calls EXCEPT ![c].phase = "material"]
     /\ UNCHANGED <<finalizations, signings, materials, resolution, invoices, crashes, answered>>

\* An answer with a response to this request that has not expired.
MaterialVerified(call) == call.phase = "answered" /\ call.status = 200 /\ call.until > now

\* send of the material client ends; the handler that still waits goes on or fails.
MaterialReturns(q, found) ==
  /\ attempts[q].call # None
  /\ found => MaterialVerified(materialCalls[attempts[q].call])
  /\ attempts' = [attempts EXCEPT ![q].call = None, ![q].result = found]
  /\ calls' = [c \in Calls |-> IF calls[c].phase = "material" /\ calls[c].of = q
                               THEN IF found THEN [calls[c] EXCEPT !.phase = "building"]
                                    ELSE Answer(calls[c], 503)
                               ELSE calls[c]]
  /\ materialCalls' = [materialCalls EXCEPT ![attempts[q].call] =
                         IF @.phase = "answered" THEN NoCall ELSE [@ EXCEPT !.kind = "orphan"]]
  /\ UNCHANGED <<finalizations, signings, materials, resolution, invoices, crashes, answered>>

\* Mutant of BuildEnds: the response is answered although its lease was lost.
BuildEnds_Unchecked(c, until) ==
  LET q == calls[c].of
      row == finalizations[q]
      done == Completed(row, calls[c].epoch, until)
  IN /\ calls[c].phase = "building" /\ now < until /\ until <= calls[c].expiresAt
     /\ finalizations' = [finalizations EXCEPT ![q] = IF Completable(row, calls[c], until) THEN done ELSE row]
     /\ calls' = [calls EXCEPT ![c] = AnswerWith(@, done)]
     /\ answered' = [answered EXCEPT ![q] = @ \cup {done.response}]
     /\ UNCHANGED <<signings, attempts, materialVars, crashes>>

\* build of the executable builder returns; the response is signed, committed under the
\* lease and answered.
BuildEnds(c, until) ==
  LET q == calls[c].of
      row == finalizations[q]
      done == Completed(row, calls[c].epoch, until)
  IN /\ calls[c].phase = "building"
     /\ IF Completable(row, calls[c], until)
        THEN /\ finalizations' = [finalizations EXCEPT ![q] = done]
             /\ calls' = [calls EXCEPT ![c] = AnswerWith(@, done)]
             /\ answered' = [answered EXCEPT ![q] = @ \cup {done.response}]
        ELSE /\ calls' = [calls EXCEPT ![c] = Answer(@, 503)]
             /\ UNCHANGED <<finalizations, answered>>
     /\ UNCHANGED <<signings, attempts, materialVars, crashes>>

\* The deadline of the provider, or the loader or builder fails; what it awaited goes on.
FinalizationGivesUp(c) ==
  /\ calls[c].phase \in {"resolving", "material", "building"}
  /\ calls' = [calls EXCEPT ![c] = Answer(@, 503)]
  /\ UNCHANGED <<finalizations, signings, attempts, materialVars, crashes, answered>>

-------------------------------------------------------------------------------
(* The invoice-material service. *)

\* handle of the material provider up to the service; the row lives as long as the
\* authorization of the finalization.
MaterialArrives(m) ==
  LET call == materialCalls[m]
      row == LiveRow(materials[call.of])
  IN /\ call.phase = "sent"
     /\ IF call.expiresAt <= now
        THEN materialCalls' = [materialCalls EXCEPT ![m] = Answer(call, 400)] /\ UNCHANGED materials
        ELSE IF ClaimStatus(row) = "LEASE"
        THEN LET leased == Leased(row, call.until)
             IN /\ materials' = [materials EXCEPT ![call.of] = leased]
                /\ materialCalls' = [materialCalls EXCEPT ![m].phase = "waiting", ![m].epoch = leased.epoch]
        ELSE /\ materials' = [materials EXCEPT ![call.of] = row]
             /\ materialCalls' = [materialCalls EXCEPT ![m] = Rejection(call, row)]
     /\ resolution' = [resolution EXCEPT ![call.of] =
                         IF materialCalls'[m].phase = "waiting" /\ @ = "idle" THEN "lookup" ELSE @]
     /\ UNCHANGED <<endpointVars, invoices, crashes, answered>>

\* What becomes of the calls that wait for a resolution.
Resolved(q, found) ==
  [m \in MaterialCalls |-> IF materialCalls[m].phase = "waiting" /\ materialCalls[m].of = q
                           THEN IF found THEN [materialCalls[m] EXCEPT !.phase = "resolved"]
                                ELSE Answer(materialCalls[m], 503)
                           ELSE materialCalls[m]]

\* The first lookup of resolveOnce: the invoice is there, is not, or the node fails.
LookupEnds(q) ==
  /\ resolution[q] = "lookup"
  /\ \/ /\ q \in invoices
        /\ resolution' = [resolution EXCEPT ![q] = "idle"] /\ materialCalls' = Resolved(q, TRUE)
     \/ /\ q \notin invoices
        /\ resolution' = [resolution EXCEPT ![q] = "adding"] /\ UNCHANGED materialCalls
     \/ resolution' = [resolution EXCEPT ![q] = "idle"] /\ materialCalls' = Resolved(q, FALSE)
  /\ UNCHANGED <<endpointVars, materials, invoices, crashes, answered>>

\* The node adds the hold invoice; its payment hash is fixed by the request.
InvoiceAdded(q) ==
  /\ resolution[q] = "adding" /\ invoices' = invoices \cup {q}
  /\ UNCHANGED <<endpointVars, materialCalls, materials, resolution, crashes, answered>>

\* The add returns or fails, and only the second lookup decides.
AddEnds(q) ==
  /\ resolution[q] = "adding"
  /\ resolution' = [resolution EXCEPT ![q] = "idle"]
  /\ \E found \in BOOLEAN : (found => q \in invoices) /\ materialCalls' = Resolved(q, found)
  /\ UNCHANGED <<endpointVars, materials, invoices, crashes, answered>>

\* The material response is signed and committed under the lease.
MaterialCompletes(m) ==
  LET call == materialCalls[m]
      row == materials[call.of]
      done == Completed(row, call.epoch, call.expiresAt)
  IN /\ call.phase = "resolved"
     /\ IF Completable(row, call, call.expiresAt)
        THEN /\ materials' = [materials EXCEPT ![call.of] = done]
             /\ materialCalls' = [materialCalls EXCEPT ![m] = AnswerWith(call, done)]
        ELSE materialCalls' = [materialCalls EXCEPT ![m] = Answer(call, 503)] /\ UNCHANGED materials
     /\ UNCHANGED <<endpointVars, resolution, invoices, crashes, answered>>

\* The deadline of the material provider.
MaterialGivesUp(m) ==
  /\ materialCalls[m].phase \in {"waiting", "resolved"}
  /\ materialCalls' = [materialCalls EXCEPT ![m] = Answer(@, 503)]
  /\ UNCHANGED <<endpointVars, materials, resolution, invoices, crashes, answered>>

\* Nobody waits for the answer any more.
MaterialForgotten(m) ==
  /\ materialCalls[m].phase = "answered" /\ \A q \in Requests : attempts[q].call # m
  /\ materialCalls' = [materialCalls EXCEPT ![m] = NoCall]
  /\ UNCHANGED <<endpointVars, materials, resolution, invoices, crashes, answered>>

-------------------------------------------------------------------------------
(* The contract-signing provider: claim, signature and commit have no await between them. *)

SigningStatus(row) ==
  IF ClaimStatus(row) = "LEASE" /\ row.state = "CLAIMED" /\ row.claimedAt + SigningWindow <= now
  THEN "EXPIRED" ELSE ClaimStatus(row)

\* handle: interrupted says that the request was aborted after its claim.
SigningArrives(c, interrupted) ==
  LET call == calls[c]
      row == LiveRow(signings[call.of])
      leased == Leased(row, call.expiresAt)
      done == Completed(leased, call.of, call.expiresAt)
  IN /\ Sent(c, "sign")
     /\ IF call.expiresAt <= now \/ SigningStatus(row) # "LEASE"
        THEN /\ ~interrupted
             /\ signings' = [signings EXCEPT ![call.of] = row]
             /\ calls' = [calls EXCEPT ![c] =
                  IF call.expiresAt <= now \/ SigningStatus(row) = "EXPIRED" THEN Answer(call, 400)
                  ELSE [Rejection(call, row) EXCEPT !.response = 0]]
        ELSE IF interrupted
        THEN /\ signings' = [signings EXCEPT ![call.of] = leased]
             /\ calls' = [calls EXCEPT ![c] = Answer(call, 503)]
        ELSE /\ signings' = [signings EXCEPT ![call.of] = done]
             /\ calls' = [calls EXCEPT ![c] = [AnswerWith(call, done) EXCEPT !.response = 0]]
     /\ UNCHANGED <<finalizations, attempts, materialVars, crashes, answered>>

-------------------------------------------------------------------------------
(* Faults. *)

\* The endpoint's process dies and comes back: its calls break, its attempts are gone.
EndpointCrashes ==
  /\ crashes < MaxCrashes /\ crashes' = crashes + 1
  /\ \E c \in Calls : calls[c].phase \in {"resolving", "material", "building"}
  /\ calls' = [c \in Calls |-> IF calls[c].phase \in {"idle", "answered"} THEN calls[c] ELSE Answer(calls[c], 0)]
  /\ attempts' = [q \in Requests |-> NoAttempt]
  /\ UNCHANGED <<finalizations, signings, materialVars, answered>>

\* The material service dies and comes back; an add in flight may still reach the node.
MaterialServiceCrashes ==
  /\ crashes < MaxCrashes /\ crashes' = crashes + 1
  /\ \E m \in MaterialCalls : materialCalls[m].phase \in {"waiting", "resolved"}
  /\ materialCalls' = [m \in MaterialCalls |-> IF materialCalls[m].phase \in {"idle", "answered"}
                                               THEN materialCalls[m] ELSE Answer(materialCalls[m], 0)]
  /\ \E late \in SUBSET {q \in Requests : resolution[q] = "adding"} : invoices' = invoices \cup late
  /\ resolution' = [q \in Requests |-> "idle"]
  /\ UNCHANGED <<endpointVars, materials, answered>>

SolverNext ==
  \/ \E c \in Calls : FinalizationArrives(c) \/ AskMaterial(c) \/ FinalizationGivesUp(c)
  \/ \E c \in Calls : \E until \in {now + 1, calls[c].expiresAt} : BuildEnds(c, until)
  \/ \E c \in Calls, interrupted \in BOOLEAN : SigningArrives(c, interrupted)
  \/ \E q \in Requests, found \in BOOLEAN : MaterialReturns(q, found)
  \/ \E q \in Requests : LookupEnds(q) \/ InvoiceAdded(q) \/ AddEnds(q)
  \/ \E m \in MaterialCalls : MaterialArrives(m) \/ MaterialCompletes(m) \/ MaterialGivesUp(m)
                              \/ MaterialForgotten(m)
  \/ EndpointCrashes \/ MaterialServiceCrashes
================================================================================
