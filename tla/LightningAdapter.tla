--------------------------- MODULE LightningAdapter ---------------------------
(***************************************************************************)
(* One Lightning adapter process: the runtime that executes signed         *)
(* authorizations against LND, its append-only action journal, its durable *)
(* chain-progress record, and the capacity endpoint (lib/lightning-*.mjs,  *)
(* lib/lnd-rest-client.mjs, infra/lightning-adapter/server.mjs).           *)
(*                                                                         *)
(* The HTTP server executes requests concurrently.  Each call is cut at    *)
(* its awaits: node read, progress record, validation and authorization,   *)
(* journal append, dispatch, completion.  LND, the chain and the wall      *)
(* clock are the environment.                                              *)
(***************************************************************************)
EXTENDS Totals

CONSTANTS
    Calls,              \* HTTP exchanges in progress at the same time
    Requests,           \* signed envelopes, identified by their requestId
    NoRequest,          \* the request of an idle call
    Method,             \* [Requests -> Methods]
    HashOf,             \* [Requests -> Hashes]
    ExpiresAt,          \* [Requests -> end of the authorization window]
    Amount,             \* [Requests -> satoshis]
    Hashes,             \* payment hashes
    MaxPaymentSats, MaxDailyValueSats, MaxInFlightSats,
    Liquidity,          \* directional channel balance with nothing in flight
    SafetyBlocks,       \* policy.fulfillmentSafetyBlocks
    HtlcBlocks,         \* most blocks from acceptance to the expiry of an HTLC
    MaxNoProgress,      \* policy.maxChainNoProgressSeconds
    DayLength,          \* seconds in a UTC day
    MaxTime, MaxHeight  \* bounds of the clock and of the chain

InvoiceMethods == {"AddHold", "Lookup", "Settle", "Cancel"}
PayerMethods == {"Decode", "Send", "Track"}
Methods == InvoiceMethods \cup PayerMethods
Terminal == {"succeeded", "failed", "unknown"}

ASSUME AdapterAssumption ==
    /\ IsFiniteSet(Requests)             \* identifiers of 32 bytes
    /\ IsFiniteSet(Calls) /\ Calls # {}
    /\ Method \in [Requests -> Methods]
    /\ HashOf \in [Requests -> Hashes]
    /\ Amount \in [Requests -> Nat \ {0}]
    /\ ExpiresAt \in [Requests -> Nat]
    /\ {MaxPaymentSats, MaxDailyValueSats, MaxInFlightSats, Liquidity,
        SafetyBlocks, HtlcBlocks, MaxNoProgress, MaxTime, MaxHeight} \subseteq Nat
    /\ DayLength \in Nat \ {0}
    /\ NoRequest \notin Requests

VARIABLES
    role,       \* the role of this process
    up,         \* the process is running
    torn,       \* a crash cut an append short: the file has a partial line
    journal,    \* [Requests -> "none" | "dispatching" | Terminal]
    day,        \* [Requests -> the UTC day of the reservation's recordedAt]
    progress,   \* the chain-progress record
    call,       \* [Calls -> what the call has read and decided]
    invoice,    \* [Hashes -> LND invoice: state, HTLC expiry, settlement height]
    payment,    \* [Hashes -> LND payment: state, request that started it]
    chain,      \* the node's best block: height and branch
    now,        \* wall clock
    sent,       \* history: [Requests -> dispatches]
    applied,    \* history: requests whose RPC took effect
    fault,      \* history: requests whose terminal append failed
    overlap,    \* history: two calls were in progress together
    stepped     \* history: the chain or the clock went backwards, which happens once

journalVars == <<torn, journal, day>>
lndVars == <<invoice, payment>>
envVars == <<chain, now>>
history == <<sent, applied, fault, overlap, stepped>>
vars == <<role, up, journalVars, progress, call, lndVars, envVars, history>>

NoReading == [height |-> 0, branch |-> 0, at |-> 0, inFlight |-> 0,
              progressing |-> FALSE, baseline |-> FALSE]
Idle == [pc |-> "idle", req |-> NoRequest, obs |-> NoReading, out |-> "none"]
NoInvoice == [state |-> "none", sats |-> 0, expiry |-> 0, settled |-> 0]
NoPayment == [state |-> "none", sats |-> 0, by |-> NoRequest]

Init ==
    /\ role \in {"invoice", "payer"}
    /\ up = TRUE
    /\ torn = FALSE
    /\ journal = [r \in Requests |-> "none"]
    /\ day = [r \in Requests |-> 0]
    /\ chain = [height |-> 0, branch |-> 0]
    /\ now = 0
    /\ progress = [height |-> 0, branch |-> 0, advancedAt |-> 0,
                   initialized |-> FALSE, conflicted |-> FALSE]
    /\ call = [c \in Calls |-> Idle]
    /\ invoice = [h \in Hashes |-> NoInvoice]
    /\ payment = [h \in Hashes |-> NoPayment]
    /\ sent = [r \in Requests |-> 0]
    /\ applied = {}
    /\ fault = {}
    /\ overlap = FALSE
    /\ stepped = FALSE

-----------------------------------------------------------------------------
(* The journal. *)

Exposure(r) == Method[r] \in {"AddHold", "Send"}
Mutating(r) == Method[r] \in {"AddHold", "Settle", "Cancel", "Send"}

Day(t) == t \div DayLength

Reserved == {r \in Requests : journal[r] # "none"}

HasExposurePaymentHash(h) == \E r \in Reserved : Exposure(r) /\ HashOf[r] = h

DailyValue(d) == Total(Amount, {r \in Reserved : Exposure(r) /\ day[r] = d})

\* A reservation is refused only when its identifier is already in the journal.
CanReserve(r) == journal[r] = "none"

\* Appending the terminal record, which must follow one "dispatching" record.
Completes(r, state) ==
    /\ journal[r] = "dispatching"
    /\ journal' = [journal EXCEPT ![r] = state]

-----------------------------------------------------------------------------
(* The chain-progress record: what an observation makes of it. *)

Observed(p, o) ==
    IF o.at < p.advancedAt
    THEN [p EXCEPT !.conflicted = TRUE]
    ELSE IF o.height > p.height
    THEN [height |-> o.height, branch |-> o.branch, advancedAt |-> o.at,
          initialized |-> TRUE, conflicted |-> FALSE]
    ELSE IF o.height # p.height \/ o.branch # p.branch
    THEN [p EXCEPT !.conflicted = TRUE]
    ELSE p

NoProgressSeconds(p, o) == IF o.at > p.advancedAt THEN o.at - p.advancedAt ELSE 0

-----------------------------------------------------------------------------
(* The node as getInfo, listChannels and pendingChannels report it. *)

InFlightSats ==
    LET held == {h \in Hashes : invoice[h].state = "ACCEPTED"}
        paying == {h \in Hashes : payment[h].state = "IN_FLIGHT"}
    IN MapThenSumSet(LAMBDA h : invoice[h].sats, held)
       + MapThenSumSet(LAMBDA h : payment[h].sats, paying)

NodeReading ==
    [height |-> chain.height, branch |-> chain.branch, at |-> now, inFlight |-> InFlightSats,
     progressing |-> FALSE, baseline |-> FALSE]

\* The service view of #observeService: the reading with the progress answer.
ServiceView(o, p) ==
    [height |-> o.height, branch |-> 0, at |-> o.at, inFlight |-> o.inFlight,
     progressing |-> NoProgressSeconds(p, o) <= MaxNoProgress,
     baseline |-> p.initialized /\ ~p.conflicted]

-----------------------------------------------------------------------------
(* execute: the synchronous part up to the first await. *)

RoleMethods == IF role = "invoice" THEN InvoiceMethods ELSE PayerMethods

\* verifyLightningAuthorizationEnvelope: the signature, key and schema hold for the
\* envelopes modelled; what changes is whether the window is still open.
EnvelopeVerified(r) == now < ExpiresAt[r]

Admits(r) ==
    /\ EnvelopeVerified(r)
    /\ Method[r] \in RoleMethods
    /\ CanReserve(r)
    /\ Exposure(r) => ~HasExposurePaymentHash(HashOf[r])

\* The checks before the first await, and the node's answer to it.  The window in
\* which other calls act is the same whether it opens before or after that answer:
\* the journal's reservations are what they change, and those are read here.
Receive(c, r) ==
    /\ up
    /\ call[c].pc = "idle"
    /\ Admits(r)
    /\ call' = [call EXCEPT ![c] = [pc |-> "observed", req |-> r, obs |-> NodeReading,
                                     out |-> "none"]]
    /\ overlap' = (overlap \/ \E d \in Calls \ {c} : call[d].pc # "idle")
    /\ UNCHANGED <<role, up, journalVars, progress, lndVars, envVars,
                   sent, applied, fault, stepped>>

\* The progress store serializes observations in the order they are queued,
\* which need not be the order in which the node was read.
RecordProgress(c) ==
    LET o == call[c].obs
    IN /\ call[c].pc = "observed"
       /\ progress' = Observed(progress, o)
       /\ call' = [call EXCEPT ![c].pc = "validating", ![c].obs = ServiceView(o, progress')]
       /\ UNCHANGED <<role, up, journalVars, lndVars, envVars, sent, applied, fault, overlap, stepped>>

\* Mutant of OperationValid: the safety margin is off by one block.
OperationValid_Boundary(r, o) ==
    LET i == invoice[HashOf[r]]
    IN /\ Method[r] = "Settle" => /\ i.state = "ACCEPTED"
                                  /\ i.sats = Amount[r]
                                  /\ i.expiry >= o.height + SafetyBlocks
       /\ Method[r] = "Cancel" => i.state # "SETTLED"

\* #validateOperation: what LND now says of the invoice the operation names.
OperationValid(r, o) ==
    LET i == invoice[HashOf[r]]
    IN /\ Method[r] = "Settle" => /\ i.state = "ACCEPTED"
                                  /\ i.sats = Amount[r]
                                  /\ i.expiry > o.height + SafetyBlocks
       /\ Method[r] = "Cancel" => i.state # "SETTLED"

\* Mutant of Authorized: the day's limit is compared without the new amount.
Authorized_UsageOnly(r, o) ==
    /\ o.progressing
    /\ CanReserve(r)
    /\ Exposure(r) =>
         /\ o.baseline
         /\ Amount[r] <= MaxPaymentSats
         /\ DailyValue(Day(o.at)) <= MaxDailyValueSats
         /\ o.inFlight + Amount[r] <= MaxInFlightSats
         /\ Liquidity - o.inFlight >= Amount[r]

\* authorizeLightningRpc, over the usage of the day on which the call began.
Authorized(r, o) ==
    /\ o.progressing
    /\ CanReserve(r)
    /\ Exposure(r) =>
         /\ o.baseline
         /\ Amount[r] <= MaxPaymentSats
         /\ DailyValue(Day(o.at)) + Amount[r] <= MaxDailyValueSats
         /\ o.inFlight + Amount[r] <= MaxInFlightSats
         /\ Liquidity - o.inFlight >= Amount[r]

\* What later steps of the call still read of its reading: the height and the time.
KeptReading(h, t) == [height |-> h, branch |-> 0, at |-> t, inFlight |-> 0,
                      progressing |-> FALSE, baseline |-> FALSE]

\* "synced" stands for the node's sync flags, the age and skew of its best header
\* and its channel counts, which the call read with the rest.
Authorize(c) ==
    LET r == call[c].req
    IN /\ call[c].pc = "validating"
       /\ \E synced \in BOOLEAN :
            IF synced /\ OperationValid(r, call[c].obs) /\ Authorized(r, call[c].obs)
            THEN call' = [call EXCEPT ![c].pc = "authorized", ![c].obs = KeptReading(@.height, @.at)]
            ELSE call' = [call EXCEPT ![c] = Idle]
       /\ UNCHANGED <<role, up, journalVars, progress, lndVars, envVars, history>>

\* journal.reserve: the queued append checks the identifier and nothing else.
ReserveRequest(c) ==
    LET r == call[c].req
    IN /\ call[c].pc = "authorized"
       /\ IF CanReserve(r)
          THEN /\ journal' = [journal EXCEPT ![r] = "dispatching"]
               /\ day' = [day EXCEPT ![r] = Day(call[c].obs.at)]
               /\ call' = [call EXCEPT ![c].pc = "reserved", ![c].obs = KeptReading(@.height, 0)]
          ELSE /\ call' = [call EXCEPT ![c] = Idle]
               /\ UNCHANGED <<journal, day>>
       /\ UNCHANGED <<role, up, torn, progress, lndVars, envVars, history>>

-----------------------------------------------------------------------------
(* #dispatch and the REST client. *)

\* Mutant of Outcome: a transport error counts as a refusal.
Outcome_TransportFails(r, reply) == IF reply = "ok" THEN "succeeded" ELSE "failed"

\* What the client makes of a reply: "ok", "refused" (an HTTP status below 500),
\* "lost" (a status of 500 and above, a broken stream, a timeout).
Outcome(r, reply) ==
    IF reply = "ok" THEN "succeeded"
    ELSE IF reply = "lost" /\ Mutating(r) THEN "unknown"
    ELSE "failed"

\* The effect LND gives the RPC when it accepts it.
LndAccepts(r) ==
    LET h == HashOf[r]
    IN CASE Method[r] = "AddHold" -> invoice[h].state = "none"
         [] Method[r] = "Settle" -> invoice[h].state = "ACCEPTED"
         [] Method[r] = "Cancel" -> invoice[h].state \in {"OPEN", "ACCEPTED"}
         [] Method[r] = "Send" -> payment[h].state \in {"none", "FAILED"}
         [] OTHER -> TRUE

LndEffect(r) ==
    LET h == HashOf[r]
        set(i) == invoice' = [invoice EXCEPT ![h] = i] /\ UNCHANGED payment
    IN CASE Method[r] = "AddHold" -> set([NoInvoice EXCEPT !.state = "OPEN", !.sats = Amount[r]])
         [] Method[r] = "Settle" -> set([invoice[h] EXCEPT !.state = "SETTLED",
                                                         !.settled = chain.height])
         [] Method[r] = "Cancel" -> set([invoice[h] EXCEPT !.state = "CANCELED"])
         [] Method[r] = "Send" -> /\ payment' = [payment EXCEPT ![h] =
                                       [state |-> "IN_FLIGHT", sats |-> Amount[r], by |-> r]]
                                  /\ UNCHANGED invoice
         [] OTHER -> UNCHANGED lndVars

\* The RPC reaches LND and takes effect, or it does not; a payment's answer comes
\* when the payment ends, every other answer with the RPC.
Dispatch(c) ==
    LET r == call[c].req
    IN /\ call[c].pc = "reserved"
       /\ sent' = [sent EXCEPT ![r] = @ + 1]
       /\ \/ /\ LndAccepts(r)
             /\ LndEffect(r)
             /\ applied' = applied \cup {r}
             /\ \/ /\ Method[r] = "Send"
                   /\ call' = [call EXCEPT ![c].pc = "paying"]
                \/ /\ Method[r] # "Send"
                   /\ \E reply \in {"ok", "lost"} :
                        call' = [call EXCEPT ![c].pc = "answered", ![c].out = Outcome(r, reply)]
          \/ /\ \E reply \in {"refused", "lost"} :
                  call' = [call EXCEPT ![c].pc = "answered", ![c].out = Outcome(r, reply)]
             /\ UNCHANGED <<lndVars, applied>>
       /\ UNCHANGED <<role, up, journalVars, progress, envVars, fault, overlap, stepped>>

\* sendPayment resolves on the terminal frame of the stream, or ends ambiguously.
PaymentAnswer(c) ==
    LET r == call[c].req
        p == payment[HashOf[r]]
    IN /\ call[c].pc = "paying"
       /\ \/ /\ p.by = r /\ p.state = "SUCCEEDED"
             /\ call' = [call EXCEPT ![c].pc = "answered", ![c].out = "succeeded"]
          \/ /\ p.by = r /\ p.state = "FAILED"
             /\ call' = [call EXCEPT ![c].pc = "answered", ![c].out = "failed"]
          \/ call' = [call EXCEPT ![c].pc = "answered", ![c].out = Outcome(r, "lost")]
       /\ UNCHANGED <<role, up, journalVars, progress, lndVars, envVars, history>>

Complete(c) ==
    /\ call[c].pc = "answered"
    /\ Completes(call[c].req, call[c].out)
    /\ call' = [call EXCEPT ![c] = Idle]
    /\ UNCHANGED <<role, up, torn, day, progress, lndVars, envVars, history>>

\* The append of the terminal record fails.  The append of "succeeded" stands in the
\* try block of the dispatch, so its failure is recorded as the failure of the RPC,
\* unless that second append fails too.
CompletionLost(c) ==
    LET r == call[c].req
    IN /\ call[c].pc = "answered"
       /\ \/ call[c].out = "succeeded" /\ Completes(r, "failed")
          \/ UNCHANGED journal
       /\ fault' = fault \cup {r}
       /\ call' = [call EXCEPT ![c] = Idle]
       /\ UNCHANGED <<role, up, torn, day, progress, lndVars, envVars,
                      sent, applied, overlap, stepped>>

-----------------------------------------------------------------------------
(* observeCapacity records its observation whether or not it gives an answer. *)

ObserveCapacity ==
    /\ up
    /\ progress' = Observed(progress, NodeReading)
    /\ UNCHANGED <<role, up, journalVars, call, lndVars, envVars, history>>

-----------------------------------------------------------------------------
(* A crash loses every call; one that cuts an append short leaves a line that *)
(* LightningActionJournal.open refuses.  Starting records an observation.      *)

Crash ==
    /\ up
    /\ up' = FALSE
    /\ torn' \in IF \E c \in Calls : call[c].pc \in {"authorized", "answered"}
                 THEN BOOLEAN ELSE {FALSE}
    /\ call' = [c \in Calls |-> Idle]
    /\ UNCHANGED <<role, journal, day, progress, lndVars, envVars, history>>

Start ==
    /\ ~up
    /\ ~torn
    /\ up' = TRUE
    /\ progress' = Observed(progress, NodeReading)
    /\ UNCHANGED <<role, journalVars, call, lndVars, envVars, history>>

-----------------------------------------------------------------------------
(* The environment: LND's peers, the chain and the clock. *)

\* A payer locks an HTLC to an open invoice; LND cancels it at its expiry.
HtlcAccepted(h) ==
    /\ invoice[h].state = "OPEN"
    /\ \E n \in 1..HtlcBlocks :
         invoice' = [invoice EXCEPT ![h].state = "ACCEPTED", ![h].expiry = chain.height + n]
    /\ UNCHANGED <<role, up, journalVars, progress, call, payment, envVars, history>>

PaymentEnds(h) ==
    /\ payment[h].state = "IN_FLIGHT"
    /\ \E s \in {"SUCCEEDED", "FAILED"} : payment' = [payment EXCEPT ![h].state = s]
    /\ UNCHANGED <<role, up, journalVars, progress, call, invoice, envVars, history>>

\* The policy's margin is sized for the blocks that a call can last: no more than
\* SafetyBlocks of them arrive after the call read the node.
Mine ==
    /\ chain.height < MaxHeight
    /\ \A c \in Calls : call[c].pc # "idle" =>
                           chain.height < call[c].obs.height + SafetyBlocks
    /\ chain' = [chain EXCEPT !.height = @ + 1]
    /\ UNCHANGED <<role, up, journalVars, progress, call, lndVars, now, history>>

Reorganize ==
    /\ ~stepped
    /\ stepped' = TRUE
    /\ chain' = [chain EXCEPT !.branch = 1]
    /\ UNCHANGED <<role, up, journalVars, progress, call, lndVars, now,
                   sent, applied, fault, overlap>>

Tick ==
    /\ now < MaxTime
    /\ now' = now + 1
    /\ UNCHANGED <<role, up, journalVars, progress, call, lndVars, chain, history>>

SetClockBack ==
    /\ ~stepped
    /\ now > 0
    /\ stepped' = TRUE
    /\ now' = now - 1
    /\ UNCHANGED <<role, up, journalVars, progress, call, lndVars, chain,
                   sent, applied, fault, overlap>>

CallStep(c) ==
    \/ \E r \in Requests : Receive(c, r)
    \/ RecordProgress(c)
    \/ Authorize(c)
    \/ ReserveRequest(c)
    \/ Dispatch(c)
    \/ PaymentAnswer(c)
    \/ Complete(c)
    \/ CompletionLost(c)

Next ==
    \/ \E c \in Calls : CallStep(c)
    \/ ObserveCapacity
    \/ Crash
    \/ Start
    \/ \E h \in Hashes : HtlcAccepted(h) \/ PaymentEnds(h)
    \/ Mine
    \/ Reorganize
    \/ Tick
    \/ SetClockBack

Spec == Init /\ [][Next]_vars

-----------------------------------------------------------------------------
(* Properties. *)

\* Each request is dispatched to LND at most once, across concurrent calls, crashes and
\* restarts, and the journal never says more than LND did: a request recorded as succeeded took
\* effect, and one recorded as failed moved nothing and holds nothing, so that the
\* coordinator may treat it as not done (the ambiguous flag of lnd-rest-client.mjs).
\* The one exception is a terminal append that failed after LND had answered.
JournalTruthful ==
    \A r \in Requests :
        LET p == payment[HashOf[r]]
        IN /\ sent[r] <= 1
           /\ journal[r] = "succeeded" => r \in applied
           /\ journal[r] = "failed" /\ Mutating(r) /\ r \in applied \ fault =>
                Method[r] = "Send" /\ (p.by = r => p.state = "FAILED")

ExposureAfterGrowth == (\E r \in Reserved : Exposure(r)) => progress.height > 0

OneExposurePerHash ==
    \A r, s \in Reserved : Exposure(r) /\ Exposure(s) /\ HashOf[r] = HashOf[s] => r = s

\* No exposure is reserved before the chain has been seen to grow: the baseline of a fresh
\* record never authorizes one.  execute checks the payment hash and the daily usage before
\* it awaits the reservation, which checks neither again: as long as calls do not overlap the
\* checks are exact, whatever crashes in between; and calls that do overlap take a day past
\* its limit by at most one payment for each call but the last, however they interleave.
ExposureLimited ==
    /\ ExposureAfterGrowth
    /\ \A d \in 0..Day(MaxTime) :
         DailyValue(d) <= MaxDailyValueSats + (Cardinality(Calls) - 1) * MaxPaymentSats
    /\ ~overlap =>
        /\ OneExposurePerHash
        /\ \A d \in 0..Day(MaxTime) : DailyValue(d) <= MaxDailyValueSats

\* An invoice is settled before its HTLC can expire, although the height the check
\* used is that of the call's first await and blocks arrive until the dispatch.
SettledInTime ==
    \A h \in Hashes : invoice[h].state = "SETTLED" => invoice[h].settled < invoice[h].expiry

=============================================================================
