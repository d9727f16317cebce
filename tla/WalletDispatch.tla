---------------------------- MODULE WalletDispatch -----------------------------
(***************************************************************************)
(* Who asks the wallet: the browser adapter, in several tabs, with a claim *)
(* it got through the edge (lib/contract-intent-wallet-browser.mjs), and   *)
(* the in-process dispatcher, which claims the journal itself              *)
(* (lib/contract-intent-wallet-dispatcher.mjs).  Both compete for the same *)
(* contract intent.  The wallet and its user are external: an answer may   *)
(* come after the adapter has given up waiting.                            *)
(***************************************************************************)
EXTENDS WalletGateway

CONSTANT Tabs

VARIABLES tabs,        \* the dispatch running in each tab
          tombstones,  \* localStorage: the claims consumed, and the clock of the last writer
          outcomes,    \* the report a tab made ready, by preflight
          dispatcher,  \* the in-process dispatch: its phase and its preflight
          wallet       \* external: requests the wallet got, and what its user did with each

clientVars == <<tabs, tombstones, outcomes, dispatcher, wallet>>
walletVars == <<now, journalVars, edgeVars, clientVars>>

NoTab == [phase |-> "idle", of |-> None, at |-> 0]
NoDispatch == [phase |-> "idle", of |-> None]

DispatchInit ==
  /\ now = 0 /\ JournalInit /\ EdgeInit
  /\ tabs = [t \in Tabs |-> NoTab]
  /\ tombstones = [high |-> 0, of |-> {}]
  /\ outcomes = [p \in Preflights |-> [outcome |-> "none", hash |-> None]]
  /\ dispatcher = NoDispatch
  /\ wallet = [p \in Preflights |-> [asked |-> 0, answer |-> "open", tx |-> None]]

-------------------------------------------------------------------------------
(* The wallet. *)

\* The transaction the wallet broadcasts; the others are its replacements.
FirstHash == CHOOSE tx \in Transactions : TRUE

Ask(p) == wallet' = [wallet EXCEPT ![p].asked = @ + 1]

\* External: the user accepts, and the transaction is broadcast, or rejects.
UserAccepts(p) ==
  /\ wallet[p].asked > 0 /\ wallet[p].answer = "open"
  /\ wallet' = [wallet EXCEPT ![p].answer = "accepted", ![p].tx = FirstHash]
  /\ UNCHANGED <<now, journalVars, edgeVars, tabs, tombstones, outcomes, dispatcher>>
UserRejects(p) ==
  /\ wallet[p].asked > 0 /\ wallet[p].answer = "open"
  /\ wallet' = [wallet EXCEPT ![p].answer = "rejected"]
  /\ UNCHANGED <<now, journalVars, edgeVars, tabs, tombstones, outcomes, dispatcher>>

\* Mutant of Classified: no answer before the deadline counts as a rejection.
Classified_TimeoutRejects(p, outcome) ==
  CASE outcome = "reported" -> wallet[p].answer = "accepted"
    [] outcome = "rejected" -> wallet[p].answer # "accepted"
    [] outcome = "ambiguous" -> TRUE

\* withDeadline and classifiedOutcome: a hash, the exact rejection, or anything else.
Classified(p, outcome) ==
  CASE outcome = "reported" -> wallet[p].answer = "accepted"
    [] outcome = "rejected" -> wallet[p].answer = "rejected"
    [] outcome = "ambiguous" -> TRUE

-------------------------------------------------------------------------------
(* The browser. *)

\* verifyClaim: the response of the gateway, for the intent the page expects, before it expires.
ClaimVerified(p) == p \in delivered /\ now < ExpiresAt

\* dispatch, until it asks for the lock: the claim was verified in this page, the user
\* confirmed it, and it is live.
BrowserStarts(t, p) ==
  /\ tabs[t].phase = "idle" /\ ClaimVerified(p)
  /\ tabs' = [tabs EXCEPT ![t] = [phase |-> "lock", of |-> p, at |-> now]]
  /\ UNCHANGED <<now, journalVars, edgeVars, tombstones, outcomes, dispatcher, wallet>>

\* tombstoneRecord: what is left of the storage at the time of the dispatch.
KeptTombstones(at) == IF ReportExpiresAt <= at THEN {} ELSE tombstones.of

\* Mutant of ConsumesTombstone: the entry is written, but not looked for.
ConsumesTombstone_Blind(t) == tabs[t].at >= tombstones.high
\* consumeClaimTombstone, under the lock all tabs share.
ConsumesTombstone(t) ==
  /\ tabs[t].at >= tombstones.high
  /\ tabs[t].of \notin KeptTombstones(tabs[t].at)

LockGranted(t) ==
  /\ tabs[t].phase = "lock"
  /\ \/ /\ ConsumesTombstone(t)
        /\ tombstones' = [high |-> tabs[t].at, of |-> KeptTombstones(tabs[t].at) \union {tabs[t].of}]
        /\ tabs' = [tabs EXCEPT ![t].phase = "context"]
     \/ /\ ~ConsumesTombstone(t)
        /\ tabs' = [tabs EXCEPT ![t] = NoTab] /\ UNCHANGED tombstones
  /\ UNCHANGED <<now, journalVars, edgeVars, outcomes, dispatcher, wallet>>

\* The wallet context is read; with the expected chain and account, before the claim
\* expires and with the user still active, the request is sent.
ContextRead(t, same) ==
  /\ tabs[t].phase = "context"
  /\ \/ /\ VerifiedContext(same)
        /\ Ask(tabs[t].of) /\ tabs' = [tabs EXCEPT ![t].phase = "asked"]
     \/ /\ ~VerifiedContext(same)
        /\ tabs' = [tabs EXCEPT ![t] = NoTab] /\ UNCHANGED wallet
  /\ UNCHANGED <<now, journalVars, edgeVars, tombstones, outcomes, dispatcher>>

\* The wallet answered or the deadline passed: a report, unless it is too late for one.
WalletAnswered(t, outcome) ==
  /\ tabs[t].phase = "asked" /\ Classified(tabs[t].of, outcome)
  /\ outcomes' = IF now < ReportExpiresAt
                 THEN [outcomes EXCEPT ![tabs[t].of] = [outcome |-> outcome, hash |-> wallet[tabs[t].of].tx]]
                 ELSE outcomes
  /\ tabs' = [tabs EXCEPT ![t] = NoTab]
  /\ UNCHANGED <<now, journalVars, edgeVars, tombstones, dispatcher, wallet>>

\* The page is closed: the tombstone stays.
TabCloses(t) ==
  /\ tabs[t].phase # "idle" /\ tabs' = [tabs EXCEPT ![t] = NoTab]
  /\ UNCHANGED <<now, journalVars, edgeVars, tombstones, outcomes, dispatcher, wallet>>

\* The requests of the browser to the edge; any of them may be repeated.
BrowserRequests(r, p) ==
  /\ \/ handles[p].state = "none" /\ Arrive(r, "prepare", p, "none", None)
     \/ handles[p].state = "ISSUED" /\ Arrive(r, "claim", p, "none", None)
     \/ outcomes[p].outcome # "none" /\ Arrive(r, "outcome", p, outcomes[p].outcome, outcomes[p].hash)
  /\ UNCHANGED clientVars

-------------------------------------------------------------------------------
(* The dispatcher. *)

\* The user confirmed and the row is claimed; without the claim nothing is sent.
DispatcherClaims(p) ==
  /\ dispatcher.phase = "idle" /\ edge # "down"
  /\ ClaimRow(p)
  /\ dispatcher' = [phase |-> "context", of |-> p]
  /\ UNCHANGED <<now, artifacts, live, edgeVars, tabs, tombstones, outcomes, wallet>>

\* The context is verified, the claim consumed and the wallet asked.
DispatcherAsks(same) ==
  /\ dispatcher.phase = "context"
  /\ \/ /\ VerifiedContext(same) /\ Dispatchable(dispatcher.of)
        /\ Ask(dispatcher.of) /\ dispatcher' = [dispatcher EXCEPT !.phase = "asked"]
     \/ /\ ~(VerifiedContext(same) /\ Dispatchable(dispatcher.of))
        /\ dispatcher' = NoDispatch /\ UNCHANGED wallet
  /\ UNCHANGED <<now, journalVars, edgeVars, tabs, tombstones, outcomes>>

\* The outcome is recorded; a journal that refuses it leaves the row claimed.
DispatcherRecords(outcome, ok) ==
  LET p == dispatcher.of IN
  /\ dispatcher.phase = "asked" /\ Classified(p, outcome)
  /\ \/ ok /\ Record(Submission(p, outcome, wallet[p].tx)) /\ live' = live \union {[submission |-> p]}
     \/ ~ok /\ UNCHANGED journalVars
  /\ dispatcher' = NoDispatch
  /\ UNCHANGED <<now, edgeVars, tabs, tombstones, outcomes, wallet>>

-------------------------------------------------------------------------------

Tick ==
  /\ now < MaxTime /\ now' = now + 1
  /\ tickInFlight' = (tickInFlight \/ \E r \in Slots : requests[r].phase # "idle")
  /\ UNCHANGED <<journalVars, edge, fence, requests, abuse, volatileVars, delivered, fault, clientVars>>

\* The dispatcher lives in the process of the journal and dies with it.
Server ==
  /\ EdgeStep
  /\ dispatcher' = IF edge' = "down" THEN NoDispatch ELSE dispatcher
  /\ UNCHANGED <<tabs, tombstones, outcomes, wallet>>

DispatchNext ==
  \/ Tick \/ Server
  \/ \E r \in Slots : GatewayRecords(r) /\ UNCHANGED clientVars
  \/ Reconcile /\ UNCHANGED <<now, edgeVars, clientVars>>
  \/ \E p \in Preflights :
       \/ UserRejects(p) \/ UserAccepts(p)
       \/ DispatcherClaims(p)
       \/ \E t \in Tabs : BrowserStarts(t, p)
       \/ \E r \in Slots : BrowserRequests(r, p)
  \/ \E t \in Tabs :
       \/ LockGranted(t) \/ TabCloses(t) \/ \E same \in BOOLEAN : ContextRead(t, same)
       \/ \E outcome \in {"reported", "rejected", "ambiguous"} : WalletAnswered(t, outcome)
  \/ \E same \in BOOLEAN : DispatcherAsks(same)
  \/ \E outcome \in {"reported", "rejected", "ambiguous"}, ok \in BOOLEAN : DispatcherRecords(outcome, ok)

DispatchSpec == DispatchInit /\ [][DispatchNext]_walletVars

-------------------------------------------------------------------------------
\* The wallet is asked at most once for a contract intent, and only after the durable
\* claim: across two preflights of the intent, two tabs with the same claim, the browser and
\* the dispatcher, restarts of the server and tombstones that expire.
AskedOnce ==
  /\ \A p \in Preflights : wallet[p].asked > 0 => rows[p] # None
  /\ \A p, q \in Preflights : wallet[p].asked + (IF p = q THEN 0 ELSE wallet[q].asked) <= 1

\* The journal never says more than the wallet did: a rejected request was not broadcast,
\* also when the answer came after the deadline, and a row with a transaction was.
OutcomeTrue ==
  \A p \in Preflights : rows[p] # None =>
    /\ rows[p].state = "USER_REJECTED" => wallet[p].answer = "rejected"
    /\ rows[p].reported # None => wallet[p].answer = "accepted" /\ rows[p].reported = wallet[p].tx
================================================================================
