--------------------------- MODULE SelectionCeremony ---------------------------
(***************************************************************************)
(* The coordinator's half of a swap from the chosen quote to the bound     *)
(* contract intent: the reservation service with its records in memory,    *)
(* the two private routes, the finalization and signing clients, and the   *)
(* durable firm offer they act on (lib/rfq-selection-reservation.mjs,      *)
(* rfq-private-ceremony.mjs, blind-rfq.mjs, rfq-contract-intent.mjs,       *)
(* rfq-finalization-restart-policy.mjs).  The store's own accounting of    *)
(* offers is the subject of AdmissionLedger.                               *)
(*                                                                         *)
(* The bearer token of a record is written as its request.  The user       *)
(* repeats, delays or omits any step; one action is the code between two   *)
(* awaits.                                                                 *)
(***************************************************************************)
EXTENDS SelectedSolver

CONSTANTS MaximumPendingSelections,
          RequestTtl      \* MAX_REQUEST_TTL_SECONDS of the finalization packet

ASSUME CeremonyAssumption == RequestTtl \in Nat

VARIABLES records,    \* the records of the reservation service
          pending,    \* pendingFinalizations of the execution route: the call awaited
          signing,    \* the signing attempt for a prepared intent
          firm        \* durable: the firm offer, its execution binding and settlement

ceremonyVars == <<records, pending, signing, firm>>
allVars == <<now, restarts, intakeVars, solverVars, ceremonyVars>>

NoRecord == [state |-> "none", expiresAt |-> 0, attemptExpiresAt |-> 0, response |-> 0, until |-> 0,
             intentExpiresAt |-> 0]
NoFirm == [state |-> "NONE", expiresAt |-> 0, authorizedUntil |-> 0, bound |-> 0, settled |-> 0,
           intent |-> FALSE]
NoSigning == [expiresAt |-> 0, call |-> None, until |-> 0]

CeremonyInit ==
  /\ records = [q \in Requests |-> NoRecord]
  /\ pending = [q \in Requests |-> None]
  /\ signing = [q \in Requests |-> NoSigning]
  /\ firm = [q \in Requests |-> NoFirm]

\* cleanup of the records, on every access.
LiveRecords == [q \in Requests |-> IF records[q].expiresAt <= now THEN NoRecord ELSE records[q]]
Replace(q, record) == records' = [LiveRecords EXCEPT ![q] = record]
Failed(q) == [records[q] EXCEPT !.state = "failed"]

\* activeBlindQuoteReservationBinding: the firm offer is active, and so is the user's
\* selection authorization.
Active(q) == firm[q].state = "ACTIVE" /\ firm[q].expiresAt > now /\ firm[q].authorizedUntil > now

-------------------------------------------------------------------------------
(* Selection and reservation. *)

\* handleSelection: the durable claim first, then the session and the handoff to the
\* reservation service, whose refusal burns the claim.
SelectQuote(q) ==
  /\ ClaimSelection(q)
  /\ \/ /\ LiveSessions[q] # NoSession
        /\ Cardinality({p \in Requests : LiveRecords[p] # NoRecord}) < MaximumPendingSelections
        /\ Replace(q, [NoRecord EXCEPT !.state = "selected", !.expiresAt = sessions[q].expiresAt])
     \/ /\ \/ LiveSessions[q] = NoSession
           \/ Cardinality({p \in Requests : LiveRecords[p] # NoRecord}) >= MaximumPendingSelections
        /\ records' = LiveRecords
  /\ sessions' = [LiveSessions EXCEPT ![q] = NoSession]
  /\ UNCHANGED <<now, restarts, reading, collected, solverVars, pending, signing, firm>>

\* The user's signature over the selected offer, until a time no later than the offer.
SelectionAuthorized(q, until) == now < until /\ until <= records[q].expiresAt
\* The firm offer that the store reserves for it.
Reserved(q, until) == [NoFirm EXCEPT !.state = "ACTIVE", !.expiresAt = records[q].expiresAt, !.authorizedUntil = until]

\* prepare and reserve: the user signed the selection until then; capacity, admission and
\* the firm offer are written, and the record ends with the shorter of the two expiries.
ReserveSelected(q, until) ==
  /\ LiveRecords[q].state = "selected" /\ firm[q].state = "NONE"
  /\ SelectionAuthorized(q, until)
  /\ firm' = [firm EXCEPT ![q] = Reserved(q, until)]
  /\ Replace(q, [records[q] EXCEPT !.state = "reserved", !.expiresAt = until])
  /\ UNCHANGED <<now, restarts, intakeVars, solverVars, pending, signing>>

\* The user cancels the request, or the sweep of the restart policy releases an expired
\* offer; one with a settlement stays.
Release(q) ==
  /\ firm[q].state = "ACTIVE" /\ firm[q].settled = 0
  /\ firm' = [firm EXCEPT ![q].state = "CLOSED"]
  /\ UNCHANGED <<now, restarts, intakeVars, solverVars, records, pending, signing>>

-------------------------------------------------------------------------------
(* Finalization. *)

Packet(q, kind, expiresAt) ==
  [NoCall EXCEPT !.phase = "sent", !.kind = kind, !.of = q, !.expiresAt = expiresAt]
Send(q, c, kind, expiresAt) ==
  calls[c].phase = "idle" /\ calls' = [calls EXCEPT ![c] = Packet(q, kind, expiresAt)]

\* The private request may be disclosed: nothing executable is bound to the offer yet.
Disclosable(q) == Active(q) /\ firm[q].bound = 0

\* finalize of a reserved record: the disclosure is built and the packet signed once.
FinalizeReserved(q, c) ==
  LET until == Least(now + RequestTtl, records[q].expiresAt)
  IN /\ pending[q] = None /\ LiveRecords[q].state = "reserved"
     /\ Disclosable(q)
     /\ Replace(q, [records[q] EXCEPT !.state = "finalizing", !.attemptExpiresAt = until])
     /\ Send(q, c, "finalize", until)
     /\ pending' = [pending EXCEPT ![q] = c]
     /\ UNCHANGED <<now, restarts, intakeVars, finalizations, signings, attempts, materialVars, crashes,
                    answered, signing, firm>>

\* The same when the offer is no longer active or the private request is not acceptable.
FinalizeRefused(q) ==
  /\ pending[q] = None /\ LiveRecords[q].state = "reserved"
  /\ Replace(q, Failed(q))
  /\ UNCHANGED <<now, restarts, intakeVars, solverVars, pending, signing, firm>>

\* Mutant of MayFinalize: two requests for one token run at once.
MayFinalize_Concurrent(q) == TRUE
\* The execution route lets one finalization of a token run at a time.
MayFinalize(q) == pending[q] = None

\* send refuses the packet without a call: it is in flight or has expired.
SendRefused(q) == pending[q] # None \/ records[q].attemptExpiresAt <= now

\* finalize of a record whose first call ended ambiguously: the same packet again.
FinalizeAgain(q, c) ==
  /\ MayFinalize(q) /\ LiveRecords[q].state = "finalizing"
  /\ IF SendRefused(q)
     THEN /\ Replace(q, Failed(q)) /\ UNCHANGED <<calls, pending>>
     ELSE /\ Send(q, c, "finalize", records[q].attemptExpiresAt)
          /\ pending' = [pending EXCEPT ![q] = c] /\ records' = LiveRecords
  /\ UNCHANGED <<now, restarts, intakeVars, finalizations, signings, attempts, materialVars, crashes,
                 answered, signing, firm>>

\* finalizeSelectedBlindQuote: the offer is active and bound to no other executable quote.
Finalizable(q, response) == Active(q) /\ firm[q].bound \in {0, response}

\* The verified response is bound to the firm offer, durably, and the record follows:
\* finalized, or failed when the offer is gone or the invoice does not validate.
Bound(q, response, until) ==
  IF ~Finalizable(q, response) THEN UNCHANGED firm /\ records' = [records EXCEPT ![q] = Failed(q)]
  ELSE /\ firm' = [firm EXCEPT ![q].bound = response]
       /\ \/ records' = [records EXCEPT ![q].state = "finalized", ![q].response = response,
                                        ![q].until = Least(until, records[q].expiresAt)]
          \/ records' = [records EXCEPT ![q] = Failed(q)]

\* No answer, a claim of another call, or a failure of the provider: the packet may have been
\* finalized or not.
Ambiguous == {0, 425, 503}

\* send returns.  Ambiguous answers leave the record as it is; a rejection, a stale
\* response or a failing binding is terminal.
FinalizationReturns(q) ==
  LET call == calls[pending[q]]
  IN /\ pending[q] # None /\ call.phase = "answered"
     /\ \/ call.status \in Ambiguous /\ UNCHANGED <<records, firm>>
        \/ /\ call.status \notin Ambiguous /\ (call.status = 400 \/ call.until <= now)
           /\ records' = [records EXCEPT ![q] = Failed(q)] /\ UNCHANGED firm
        \/ call.status = 200 /\ call.until > now /\ Bound(q, call.response, call.until)
     /\ calls' = [calls EXCEPT ![pending[q]] = NoCall]
     /\ pending' = [pending EXCEPT ![q] = None]
     /\ UNCHANGED <<now, restarts, intakeVars, finalizations, signings, attempts, materialVars, crashes,
                    answered, signing>>

\* The client's own deadline, or a broken connection: ambiguous, and the call goes on.
FinalizationTimesOut(q) ==
  /\ pending[q] # None
  /\ pending' = [pending EXCEPT ![q] = None]
  /\ UNCHANGED <<now, restarts, intakeVars, solverVars, records, signing, firm>>

\* A request is lost on its way, or an answer that nobody awaits arrives.
CallEnds(c) ==
  /\ calls[c].phase \in {"sent", "answered"}
  /\ \A q \in Requests : pending[q] # c /\ signing[q].call # c
  /\ calls' = [calls EXCEPT ![c] = NoCall]
  /\ UNCHANGED <<now, restarts, intakeVars, finalizations, signings, attempts, materialVars, crashes,
                 answered, ceremonyVars>>

-------------------------------------------------------------------------------
(* The user's authorization, the solver's signature and the contract intent. *)

\* The settlement is accepted in the transaction that stores the user's authorization of the
\* finalized quote.
Accepted(q) == [firm[q] EXCEPT !.settled = records[q].response]
\* verifiedFinalizedExecutableQuote, on every later use.
Executable(q) == Active(q) /\ records[q].until > now

\* authorize of the reservation service.
AuthorizeFinalized(q) ==
  /\ LiveRecords[q].state = "finalized" /\ Executable(q)
  /\ firm' = [firm EXCEPT ![q] = Accepted(q)]
  /\ Replace(q, [records[q] EXCEPT !.state = "authorized"])
  /\ UNCHANGED <<now, restarts, intakeVars, solverVars, pending, signing>>

\* prepareContractIntent, once for a record.
PrepareContractIntent(q) ==
  /\ LiveRecords[q].state = "authorized" /\ records[q].intentExpiresAt = 0 /\ Executable(q)
  /\ Replace(q, [records[q] EXCEPT !.intentExpiresAt = records[q].until])
  /\ UNCHANGED <<now, restarts, intakeVars, solverVars, pending, signing, firm>>

\* sign of the signing client: one packet for a prepared intent, one call at a time, the
\* first verified signature kept.
SignIntent(q, c) ==
  LET until == IF signing[q].expiresAt = 0 THEN records[q].intentExpiresAt ELSE signing[q].expiresAt
  IN /\ records[q].intentExpiresAt > 0 /\ signing[q].call = None /\ signing[q].until = 0
     /\ signing[q].expiresAt = 0 => records[q].intentExpiresAt > now
     /\ Send(q, c, "sign", until)
     /\ signing' = [signing EXCEPT ![q] = [@ EXCEPT !.expiresAt = until, !.call = c]]
     /\ UNCHANGED <<now, restarts, intakeVars, finalizations, signings, attempts, materialVars, crashes,
                    answered, records, pending, firm>>

SignatureReturns(q) ==
  LET call == calls[signing[q].call]
  IN /\ signing[q].call # None /\ call.phase = "answered"
     /\ signing' = [signing EXCEPT ![q].call = None,
                                   ![q].until = IF call.status = 200 /\ call.until > now THEN call.until ELSE 0]
     /\ calls' = [calls EXCEPT ![signing[q].call] = NoCall]
     /\ UNCHANGED <<now, restarts, intakeVars, finalizations, signings, attempts, materialVars, crashes,
                    answered, records, pending, firm>>

\* authorizeContractIntentWithSolverSignature and persistFinalizedContractIntentBinding.
BindContractIntent(q) ==
  /\ signing[q].until > now /\ records[q].intentExpiresAt > now /\ Active(q) /\ ~firm[q].intent
  /\ firm' = [firm EXCEPT ![q].intent = TRUE]
  /\ UNCHANGED <<now, restarts, intakeVars, solverVars, records, pending, signing>>

-------------------------------------------------------------------------------
\* The coordinator's process ends and comes back.  What was in memory is gone, calls go on
\* without a client, and the restart policy releases the expired offers.
Restart ==
  /\ restarts < MaxRestarts /\ restarts' = restarts + 1
  /\ reading' = [q \in Requests |-> Idle] /\ sessions' = [q \in Requests |-> NoSession]
  /\ records' = [q \in Requests |-> NoRecord] /\ pending' = [q \in Requests |-> None]
  /\ signing' = [q \in Requests |-> NoSigning]
  /\ firm' = [q \in Requests |-> IF firm[q].state = "ACTIVE" /\ firm[q].settled = 0 /\ firm[q].expiresAt <= now
                                 THEN [firm[q] EXCEPT !.state = "CLOSED"] ELSE firm[q]]
  /\ UNCHANGED <<now, rows, collected, solverVars>>

Tick == /\ now < MaxTime /\ now' = now + 1
        /\ UNCHANGED <<restarts, intakeVars, solverVars, ceremonyVars>>

CeremonyInitial == IntakeInit /\ SolverInit /\ CeremonyInit

IntakeNext == \E q \in Requests :
  \/ CreateQuote(q) \/ CollectionFails(q)
  \/ \E delivered \in Deliveries : CollectionEnds(q, delivered)

CeremonyStep(q) ==
  \/ SelectQuote(q) \/ Release(q)
  \/ \E until \in {now + 1, records[q].expiresAt} : ReserveSelected(q, until)
  \/ \E c \in Calls : FinalizeReserved(q, c) \/ FinalizeAgain(q, c) \/ SignIntent(q, c)
  \/ FinalizeRefused(q) \/ FinalizationReturns(q) \/ FinalizationTimesOut(q)
  \/ AuthorizeFinalized(q) \/ PrepareContractIntent(q) \/ SignatureReturns(q) \/ BindContractIntent(q)

CeremonyNext ==
  \/ IntakeNext /\ UNCHANGED <<solverVars, ceremonyVars>>
  \/ \E q \in Requests : CeremonyStep(q)
  \/ \E c \in Calls : CallEnds(c)
  \/ SolverNext /\ UNCHANGED <<now, restarts, intakeVars, ceremonyVars>>
  \/ Restart \/ Tick

CeremonySpec == CeremonyInitial /\ [][CeremonyNext]_allVars

-------------------------------------------------------------------------------
\* docs/RFQ_DELIVERY.md: the solver answers one executable quote for a finalization,
\* whatever is repeated, late, recovered or restarted; the coordinator binds that one, over
\* an invoice the node has; the user authorizes what was bound; and the solver signs for
\* accepted settlements only.
AgreedResponse ==
  \A q \in Requests :
    /\ Cardinality(answered[q]) <= 1
    /\ firm[q].bound # 0 => firm[q].bound \in answered[q] /\ q \in invoices
    /\ firm[q].settled # 0 => firm[q].settled = firm[q].bound
    /\ records[q].state = "finalized" => records[q].response = firm[q].bound
    /\ records[q].state = "authorized" => records[q].response = firm[q].settled
    /\ signings[q].state # "NONE" => firm[q].settled # 0

\* docs/RFQ_DELIVERY.md: a terminal finalization failure needs a fresh quote, and an
\* authorized record stays so.  No late answer and no second request takes either back.
TerminalRecords ==
  [][\A q \in Requests :
       records[q].state \in {"failed", "authorized"} /\ records[q].expiresAt > now =>
         records'[q].state \in {records[q].state, "none"}]_allVars
================================================================================
