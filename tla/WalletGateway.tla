----------------------------- MODULE WalletGateway -----------------------------
(***************************************************************************)
(* The server side of a wallet request: the replica fence and perimeter,   *)
(* the SIWE edge with its session reader and abuse store, the ownership    *)
(* handles and the gateway that makes the durable claim and records the    *)
(* outcome (lib/contract-intent-wallet-{edge-perimeter, siwe-edge,         *)
(* session-reader, session-route, abuse-store, ownership, gateway}.mjs).   *)
(*                                                                         *)
(* They run in one process; a slot is one concurrent HTTP request, and one *)
(* action is the code between two awaits.  Signatures, CSRF tokens and     *)
(* strict parsing refuse a request (Refuse) and are otherwise left out.    *)
(* The clock never steps back: all parties fail closed when it does.       *)
(***************************************************************************)
EXTENDS WalletJournal

CONSTANTS Slots,                 \* maximumConcurrentRequests of the perimeter
          HandleSeconds, RequestSeconds, ReportGrace, Skew, RateWindow, RateLimit

ASSUME EdgeAssumption == ReportGrace \in Nat

VARIABLES edge,        \* the process: active, halted (until it is replaced) or down
          fence,       \* the replica fence directory: free or held
          requests,    \* the requests in flight
          abuse,       \* the durable abuse store: clock high-water mark and rate window
          handles,     \* ownership handles, by preflight
          staged,      \* preflights staged at the gateway
          claims,      \* the gateway's live claims: the outcome each has
          edgeClaims,  \* the edge's active claims: the outcome each forwarded, and how it went
          delivered,   \* claims that reached the browser
          fault,       \* history: a reader, a store or the fence failed
          tickInFlight \* history: the clock moved while a request was in flight

edgeVars == <<edge, fence, requests, abuse, handles, staged, claims, edgeClaims, delivered, fault, tickInFlight>>
volatileVars == <<handles, staged, claims, edgeClaims>>

ReportExpiresAt == ExpiresAt + ReportGrace
NoRequest == [phase |-> "idle", kind |-> "none", of |-> None, at |-> 0, outcome |-> "none", hash |-> None]
NoHandle == [state |-> "none", expiresAt |-> 0]
NoClaim == [open |-> FALSE, outcome |-> "none"]
NoEdgeClaim == [open |-> FALSE, outcome |-> "none", failed |-> FALSE]

EdgeInit ==
  /\ edge = "active" /\ fence = "held"
  /\ requests = [r \in Slots |-> NoRequest]
  /\ abuse = [high |-> 0, startedAt |-> 0, count |-> 0]
  /\ handles = [p \in Preflights |-> NoHandle] /\ staged = {}
  /\ claims = [p \in Preflights |-> NoClaim] /\ edgeClaims = [p \in Preflights |-> NoEdgeClaim]
  /\ delivered = {} /\ fault = FALSE /\ tickInFlight = FALSE

Idle(r) == requests' = [requests EXCEPT ![r] = NoRequest]

-------------------------------------------------------------------------------
(* Pruning: each party forgets by a clock of its own. *)

PrunedHandles ==
  [p \in Preflights |-> IF ExpiresAt <= now THEN NoHandle
                        ELSE IF handles[p].state = "ISSUED" /\ handles[p].expiresAt <= now
                             THEN [handles[p] EXCEPT !.state = "EXPIRED"] ELSE handles[p]]
PrunedStaged == IF ExpiresAt <= now THEN {} ELSE staged
PrunedClaims == IF ReportExpiresAt <= now THEN [p \in Preflights |-> NoClaim] ELSE claims
PrunedEdgeClaims == IF ReportExpiresAt <= now THEN [p \in Preflights |-> NoEdgeClaim] ELSE edgeClaims

-------------------------------------------------------------------------------
(* A request until its session is known. *)

\* The perimeter admits the request, its fence is held, and the edge takes the time the
\* whole request will use.
Arrive(r, kind, p, outcome, hash) ==
  /\ edge = "active" /\ fence = "held" /\ requests[r].phase = "idle"
  /\ requests' = [requests EXCEPT ![r] = [phase |-> "body", kind |-> kind, of |-> p, at |-> now,
                                          outcome |-> outcome, hash |-> hash]]
  /\ edgeClaims' = IF kind = "prepare" THEN edgeClaims ELSE PrunedEdgeClaims
  /\ UNCHANGED <<now, rows, artifacts, live, edge, fence, abuse, handles, staged, claims, delivered, fault,
                 tickInFlight>>

\* The edge halts: a failure of its session reader or abuse store, which the perimeter
\* answers by stopping it.
Halt(r) ==
  /\ edge' = "halted" /\ edgeClaims' = [p \in Preflights |-> NoEdgeClaim]
  /\ Idle(r)

\* strictJson, browserMetadata, the CSRF token or the signature refuses the request.
Refuse(r) ==
  /\ requests[r].phase \in {"body", "session"}
  /\ Idle(r)
  /\ UNCHANGED <<now, journalVars, edge, fence, abuse, volatileVars, delivered, fault, tickInFlight>>

\* The body is there; the session reader demands that the time of the request is still the
\* current one, and asks the session provider.
BodyEnds(r) ==
  /\ requests[r].phase = "body"
  /\ \/ /\ edge = "active" /\ requests[r].at = now
        /\ requests' = [requests EXCEPT ![r].phase = "session"]
        /\ UNCHANGED <<edge, edgeClaims>>
     \/ edge = "active" /\ requests[r].at # now /\ Halt(r)
     \/ edge # "active" /\ Idle(r) /\ UNCHANGED <<edge, edgeClaims>>
  /\ UNCHANGED <<now, journalVars, fence, abuse, handles, staged, claims, delivered, fault, tickInFlight>>

\* The session provider of the reader is unreachable, slow, or answers out of policy.
SessionFails(r) ==
  /\ requests[r].phase = "session"
  /\ \/ edge = "active" /\ Halt(r) /\ fault' = TRUE
     \/ edge # "active" /\ Idle(r) /\ UNCHANGED <<edge, edgeClaims, fault>>
  /\ UNCHANGED <<now, journalVars, fence, abuse, handles, staged, claims, delivered, tickInFlight>>

\* consume of the abuse store, at the time of the request.
RateExpired(at) == abuse.startedAt + RateWindow <= at
Consumed(at) ==
  IF RateExpired(at) \/ abuse.count = 0
  THEN [high |-> at, startedAt |-> at, count |-> 1]
  ELSE [abuse EXCEPT !.high = at, !.count = @ + 1]
RateAllows(at) == RateExpired(at) \/ abuse.count < RateLimit

\* Mutant of Overtaken: a second request in the same second is a rollback too.
Overtaken_Strict(at) == at <= abuse.high /\ abuse.count > 0
\* The clock of the store is ahead of the request: another request was faster.
Overtaken(at) == at < abuse.high

-------------------------------------------------------------------------------
(* A request with its session. *)

\* issue of the ownership service: one handle for a preflight, until it is pruned.
IssueHandle(r) ==
  LET p == requests[r].of IN
  /\ handles' = IF Prepared(p) /\ PrunedHandles[p].state = "none"
                THEN [PrunedHandles EXCEPT ![p] = [state |-> "ISSUED",
                        expiresAt |-> IF now + HandleSeconds < ExpiresAt THEN now + HandleSeconds ELSE ExpiresAt]]
                ELSE PrunedHandles
  /\ Idle(r)
  /\ UNCHANGED <<staged, edgeClaims>>

\* stage of the gateway: a preflight that is live and not staged already.
Stageable(p) == now < ExpiresAt /\ p \notin PrunedStaged

\* claim and take of the ownership service, and stage of the gateway: the handle is spent
\* before the preflight is staged.
ClaimHandle(r) ==
  LET p == requests[r].of
      usable == PrunedHandles[p].state = "ISSUED"
  IN /\ handles' = IF usable THEN [PrunedHandles EXCEPT ![p].state = "CLAIMED"] ELSE PrunedHandles
     /\ staged' = IF usable /\ Stageable(p) THEN PrunedStaged \union {p} ELSE staged
     /\ requests' = [requests EXCEPT ![r] = IF usable /\ Stageable(p) THEN [@ EXCEPT !.phase = "gateway"] ELSE NoRequest]
     /\ UNCHANGED edgeClaims

\* The outcome of an active claim is forwarded once; the same report again waits for the
\* same answer, another one is refused.
ForwardOutcome(r) ==
  LET p == requests[r].of IN
  /\ \/ /\ edgeClaims[p].open /\ requests[r].at < ReportExpiresAt /\ edgeClaims[p].outcome = "none"
        /\ edgeClaims' = [edgeClaims EXCEPT ![p].outcome = requests[r].outcome]
        /\ requests' = [requests EXCEPT ![r].phase = "gateway"]
     \/ /\ ~edgeClaims[p].open \/ requests[r].at >= ReportExpiresAt \/ edgeClaims[p].outcome # "none"
        /\ Idle(r) /\ UNCHANGED edgeClaims
  /\ UNCHANGED <<handles, staged>>

\* The session is active: the rate is consumed and the request performed up to the gateway.
SessionEnds(r) ==
  /\ requests[r].phase = "session"
  /\ LET at == requests[r].at IN
     \/ /\ edge = "active" /\ ~Overtaken(at) /\ RateAllows(at)
        /\ abuse' = Consumed(at)
        /\ \/ requests[r].kind = "prepare" /\ IssueHandle(r)
           \/ requests[r].kind = "claim" /\ ClaimHandle(r)
           \/ requests[r].kind = "outcome" /\ ForwardOutcome(r)
        /\ UNCHANGED edge
     \/ /\ edge = "active" /\ Overtaken(at)
        /\ Halt(r) /\ UNCHANGED <<abuse, handles, staged>>
     \/ /\ edge = "active" /\ ~Overtaken(at) /\ ~RateAllows(at)
        /\ abuse' = [abuse EXCEPT !.high = at]
        /\ Idle(r) /\ UNCHANGED <<edge, edgeClaims, handles, staged>>
     \/ /\ edge # "active"
        /\ Idle(r) /\ UNCHANGED <<edge, edgeClaims, abuse, handles, staged>>
  /\ UNCHANGED <<now, journalVars, fence, claims, delivered, fault, tickInFlight>>

-------------------------------------------------------------------------------
(* The gateway. *)

\* buildContractIntentWalletGateway...Request: how long the signed request lives.
SignedUntil(r, bound) ==
  IF requests[r].at + RequestSeconds < bound THEN requests[r].at + RequestSeconds ELSE bound

\* verifySignedRequest of the gateway: the request is still within its window.
SignedLive(r, bound) == now < SignedUntil(r, bound)

\* verifyContractIntentWalletGatewayClaimResponse, with the time of the request: an answer
\* the gateway gave too late for it is refused, though the claim is durable.
EdgeAcceptsClaim(r) == requests[r].at >= now - Skew /\ requests[r].at < ExpiresAt

\* handle of the gateway for a claim, and its answer at the edge.  The claim is durable, and
\* then the answer may be lost on its way through the edge to the browser.
GatewayClaims(r, arrives) ==
  LET p == requests[r].of IN
  /\ requests[r].phase = "gateway" /\ requests[r].kind = "claim"
  /\ \/ /\ SignedLive(r, ExpiresAt) /\ p \in PrunedStaged
        /\ ClaimRow(p)
        /\ claims' = [PrunedClaims EXCEPT ![p] = [open |-> TRUE, outcome |-> "none"]]
        /\ staged' = PrunedStaged \ {p}
        /\ edgeClaims' = IF EdgeAcceptsClaim(r)
                         THEN [edgeClaims EXCEPT ![p] = [NoEdgeClaim EXCEPT !.open = TRUE]] ELSE edgeClaims
        /\ delivered' = IF EdgeAcceptsClaim(r) /\ arrives THEN delivered \union {p} ELSE delivered
     \/ /\ ~SignedLive(r, ExpiresAt) \/ p \notin PrunedStaged \/ ~Unclaimed(p)
        /\ staged' = PrunedStaged /\ claims' = PrunedClaims
        /\ UNCHANGED <<rows, edgeClaims, delivered>>
  /\ Idle(r)
  /\ UNCHANGED <<now, artifacts, live, edge, fence, abuse, handles, fault, tickInFlight>>

\* handle of the gateway for an outcome.  The edge never forwards a second one.
GatewayRecords(r) ==
  LET p == requests[r].of
      a == Submission(p, requests[r].outcome, requests[r].hash)
      fits == SignedLive(r, ReportExpiresAt) /\ PrunedClaims[p].open /\ PrunedClaims[p].outcome = "none"
  IN
  /\ requests[r].phase = "gateway" /\ requests[r].kind = "outcome"
  /\ \/ /\ fits /\ Record(a)
        /\ live' = live \union {[submission |-> p]}
        /\ claims' = [PrunedClaims EXCEPT ![p].outcome = requests[r].outcome]
        /\ UNCHANGED edgeClaims
     \/ /\ ~fits \/ rows[p] = None \/ ~Accepts(rows[p].state, a)
        /\ claims' = PrunedClaims
        /\ edgeClaims' = [edgeClaims EXCEPT ![p].failed = edgeClaims[p].open]
        /\ UNCHANGED <<rows, artifacts, live>>
  /\ Idle(r)
  /\ UNCHANGED <<now, edge, fence, abuse, handles, staged, delivered, fault, tickInFlight>>

-------------------------------------------------------------------------------
(* The process. *)

\* The fence is lost or unreadable: the perimeter stops the edge.
FenceFails ==
  /\ edge = "active"
  /\ edge' = "halted" /\ fault' = TRUE
  /\ edgeClaims' = [p \in Preflights |-> NoEdgeClaim]
  /\ UNCHANGED <<now, journalVars, fence, requests, abuse, handles, staged, claims, delivered, tickInFlight>>

\* The process ends, with everything but the databases and the fence directory.
EdgeCrash ==
  /\ edge # "down"
  /\ edge' = "down" /\ live' = {}
  /\ requests' = [r \in Slots |-> NoRequest]
  /\ handles' = [p \in Preflights |-> NoHandle] /\ staged' = {}
  /\ claims' = [p \in Preflights |-> NoClaim] /\ edgeClaims' = [p \in Preflights |-> NoEdgeClaim]
  /\ UNCHANGED <<now, rows, artifacts, fence, abuse, delivered, fault, tickInFlight>>

\* External: the operator has proved that the old replica is gone and removes its fence.
ClearFence ==
  /\ edge = "down" /\ fence = "held" /\ fence' = "free"
  /\ UNCHANGED <<now, journalVars, edge, requests, abuse, volatileVars, delivered, fault, tickInFlight>>

\* A new replica makes the fence directory and opens the stores.
EdgeStart ==
  /\ edge = "down" /\ fence = "free"
  /\ edge' = "active" /\ fence' = "held"
  /\ fault' = FALSE /\ tickInFlight' = FALSE
  /\ UNCHANGED <<now, journalVars, requests, abuse, volatileVars, delivered>>

EdgeStep ==
  \/ \E r \in Slots :
       \/ BodyEnds(r) \/ SessionFails(r) \/ SessionEnds(r) \/ Refuse(r)
       \/ \E arrives \in BOOLEAN : GatewayClaims(r, arrives)
  \/ FenceFails \/ EdgeCrash \/ ClearFence \/ EdgeStart

-------------------------------------------------------------------------------
\* The edge halts for good when its reader, its store or its fence fails, and, without any
\* failure, only if the clock moved while a request was being handled: the time a request
\* uses is taken before its body and its session are awaited, so that a slow request, or one
\* that a later one overtakes, looks like a clock that stepped back.
HaltExplained == edge = "halted" => fault \/ tickInFlight
================================================================================
