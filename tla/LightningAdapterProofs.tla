------------------------- MODULE LightningAdapterProofs -------------------------
(***************************************************************************)
(* What the Lightning adapter guarantees for any number of concurrent      *)
(* calls, signed requests and payment hashes, and for every value of the   *)
(* policy's limits and of the bounds on the clock and the chain.           *)
(***************************************************************************)
EXTENDS LightningAdapter, SumTheorems

Pcs == {"idle", "observed", "validating", "authorized", "reserved", "paying", "answered"}
\* A call that owns the reservation of its request.
Holding == {"reserved", "paying", "answered"}
\* A call whose request was not reserved when the call checked it.
Checking == {"observed", "validating", "authorized"}

\* The fields that a call's record always has, with the types the argument needs.
WellFormed(k) ==
    /\ k = [pc |-> k.pc, req |-> k.req, obs |-> k.obs, out |-> k.out]
    /\ k.pc \in Pcs
    /\ k.pc # "idle" => k.req \in Requests
    /\ k.pc = "answered" => k.out \in Terminal
    /\ k.obs = [height |-> k.obs.height, branch |-> k.obs.branch, at |-> k.obs.at,
                inFlight |-> k.obs.inFlight, progressing |-> k.obs.progressing,
                baseline |-> k.obs.baseline]
    /\ k.obs.height \in Nat
    /\ k.obs.branch \in Nat
    /\ k.obs.at \in Int
    /\ k.obs.baseline \in BOOLEAN

InvoiceStates == {"none", "OPEN", "ACCEPTED", "SETTLED", "CANCELED"}
PaymentStates == {"none", "IN_FLIGHT", "SUCCEEDED", "FAILED"}

\* The types of the state, the readings' in-flight sums apart.
TypeOK ==
    /\ journal \in [Requests -> {"none", "dispatching"} \cup Terminal]
    /\ call = [c \in Calls |-> call[c]]
    /\ \A c \in Calls : WellFormed(call[c])
    /\ invoice \in [Hashes -> [state : InvoiceStates, sats : Nat, expiry : Nat, settled : Nat]]
    /\ payment \in [Hashes -> [state : PaymentStates, sats : Nat, by : Requests \cup {NoRequest}]]
    /\ chain \in [height : Nat, branch : Nat]
    /\ now \in Int
    /\ progress \in [height : Nat, branch : Nat, advancedAt : Int,
                     initialized : BOOLEAN, conflicted : BOOLEAN]
    /\ sent \in [Requests -> Nat]
    /\ applied \subseteq Requests
    /\ overlap \in BOOLEAN

\* A call past its reservation is the only one on a request that the journal has dispatching.
OneHolder ==
    /\ \A c \in Calls : call[c].pc \in Holding => journal[call[c].req] = "dispatching"
    /\ \A c, d \in Calls : call[c].pc \in Holding /\ call[d].pc \in Holding
                             /\ call[c].req = call[d].req => c = d

\* A request is dispatched by the call that reserved it, once; nothing took effect before.
DispatchedOnce ==
    /\ \A r \in Requests : /\ sent[r] <= 1
                           /\ journal[r] = "none" => sent[r] = 0
                           /\ r \in applied => sent[r] = 1
    /\ \A c \in Calls : call[c].pc = "reserved" => sent[call[c].req] = 0

\* What "failed" means for a mutating request that took effect: its own payment has failed.
FailedHarmless(r) ==
    Mutating(r) /\ r \in applied =>
        Method[r] = "Send" /\ (payment[HashOf[r]].by = r => payment[HashOf[r]].state = "FAILED")

\* The answer that a call is about to record is true, and a payment belongs to the request
\* that started it.
AnswerTrue ==
    /\ \A h \in Hashes : payment[h].by # NoRequest => payment[h].by \in applied
    /\ \A c \in Calls :
         LET r == call[c].req
         IN /\ call[c].pc = "paying" => Method[r] = "Send" /\ r \in applied
            /\ call[c].pc = "answered" /\ call[c].out = "succeeded" => r \in applied
            /\ call[c].pc = "answered" /\ call[c].out = "failed" => FailedHarmless(r)
    /\ \A r \in Requests : /\ journal[r] = "succeeded" => r \in applied
                           /\ journal[r] = "failed" /\ r \notin fault => FailedHarmless(r)

\* The margin of a settlement call covers the blocks that can arrive before its dispatch.
MarginHeld ==
    /\ \A c \in Calls :
         /\ call[c].pc # "idle" => chain.height <= call[c].obs.height + SafetyBlocks
         /\ call[c].pc \in {"authorized", "reserved"} /\ Method[call[c].req] = "Settle" =>
              /\ invoice[HashOf[call[c].req]].state \in {"ACCEPTED", "SETTLED", "CANCELED"}
              /\ invoice[HashOf[call[c].req]].expiry > call[c].obs.height + SafetyBlocks
    /\ SettledInTime

\* A baseline is only reported after the chain grew; while calls do not overlap, what a
\* call found of its payment hash is still so when it reserves.
ExposureChecked ==
    /\ progress.initialized => progress.height > 0
    /\ \A c \in Calls :
         /\ call[c].pc = "validating" /\ call[c].obs.baseline => progress.height > 0
         /\ call[c].pc = "authorized" /\ Exposure(call[c].req) => progress.height > 0
    /\ ExposureAfterGrowth
    /\ ~overlap =>
        /\ \A c, d \in Calls : c = d \/ call[c].pc = "idle" \/ call[d].pc = "idle"
        /\ \A c \in Calls, s \in Requests :
             call[c].pc \in Checking /\ Exposure(call[c].req) /\ journal[s] # "none" /\ Exposure(s)
               => HashOf[s] # HashOf[call[c].req]
        /\ OneExposurePerHash

AdapterInv == TypeOK /\ OneHolder /\ DispatchedOnce /\ AnswerTrue /\ MarginHeld /\ ExposureChecked

-----------------------------------------------------------------------------
(* Lemmas about the operators. *)

\* The other calls stay as they are: what a step of call c does to the calls.
OthersKept(c) ==
    /\ call' = [d \in Calls |-> call'[d]]
    /\ \A d \in Calls \ {c} : call'[d] = call[d]

\* Call c moves on to pc with the request and the height it had.
MovesTo(c, pc) ==
    /\ OthersKept(c)
    /\ WellFormed(call'[c])
    /\ call'[c].pc = pc
    /\ call'[c].req = call[c].req
    /\ call'[c].obs.height = call[c].obs.height

\* Call c ends.
EndsCall(c) == OthersKept(c) /\ call'[c] = Idle

\* An idle call is well formed.
LEMMA IdleWellFormed == WellFormed(Idle) /\ Idle.pc = "idle"
<1> DEFINE zero == [height |-> 0, branch |-> 0, at |-> 0, inFlight |-> 0,
                    progressing |-> FALSE, baseline |-> FALSE]
<1>1. /\ zero = [height |-> zero.height, branch |-> zero.branch, at |-> zero.at,
                 inFlight |-> zero.inFlight, progressing |-> zero.progressing,
                 baseline |-> zero.baseline]
      /\ zero.height \in Nat /\ zero.at \in Int /\ zero.branch \in Nat
  OBVIOUS
<1>2. zero.baseline \in BOOLEAN
  OBVIOUS
<1>3. zero = NoReading
  BY DEF NoReading
<1> HIDE DEF zero
<1> QED  BY <1>1, <1>2, <1>3 DEF WellFormed, Idle, Pcs

\* What the node answers has the fields of a reading, at the node's height and the clock's time.
LEMMA NodeReadingFields ==
    ASSUME TypeOK
    PROVE  /\ NodeReading = [height |-> chain.height, branch |-> chain.branch, at |-> now,
                             inFlight |-> InFlightSats, progressing |-> FALSE, baseline |-> FALSE]
           /\ NodeReading.height = chain.height /\ NodeReading.height \in Nat
           /\ NodeReading.branch \in Nat
           /\ NodeReading.at = now /\ NodeReading.at \in Int
           /\ NodeReading.baseline = FALSE
<1>1. chain.height \in Nat /\ chain.branch \in Nat /\ now \in Int
  BY DEF TypeOK
<1>2. NodeReading = [height |-> chain.height, branch |-> chain.branch, at |-> now,
                     inFlight |-> InFlightSats, progressing |-> FALSE, baseline |-> FALSE]
  BY DEF NodeReading
<1> QED  BY <1>1, <1>2

\* An observation never lowers the recorded height, and only one that raises it initializes
\* the record (lightning-chain-progress.mjs).
LEMMA ObservedGrows ==
    ASSUME NEW p \in [height : Nat, branch : Nat, advancedAt : Int,
                      initialized : BOOLEAN, conflicted : BOOLEAN],
           NEW o, o.height \in Nat, o.branch \in Nat, o.at \in Int
    PROVE  /\ Observed(p, o) \in [height : Nat, branch : Nat, advancedAt : Int,
                                  initialized : BOOLEAN, conflicted : BOOLEAN]
           /\ Observed(p, o).height >= p.height
           /\ (p.initialized => p.height > 0)
                => (Observed(p, o).initialized => Observed(p, o).height > 0)
<1> DEFINE marked == [p EXCEPT !.conflicted = TRUE]
           grown == [height |-> o.height, branch |-> o.branch, advancedAt |-> o.at,
                     initialized |-> TRUE, conflicted |-> FALSE]
<1>1. /\ marked \in [height : Nat, branch : Nat, advancedAt : Int,
                     initialized : BOOLEAN, conflicted : BOOLEAN]
      /\ marked.height = p.height /\ marked.initialized = p.initialized
  OBVIOUS
<1>2. /\ grown \in [height : Nat, branch : Nat, advancedAt : Int,
                    initialized : BOOLEAN, conflicted : BOOLEAN]
      /\ grown.height = o.height
  OBVIOUS
<1>3. \/ Observed(p, o) = marked
      \/ Observed(p, o) = grown /\ o.height > p.height
      \/ Observed(p, o) = p
  BY DEF Observed
<1> HIDE DEF marked, grown
<1>4. p.height \in Nat
  OBVIOUS
<1>5. CASE Observed(p, o) = marked
  BY <1>1, <1>4, <1>5
<1>6. CASE Observed(p, o) = grown /\ o.height > p.height
  BY <1>2, <1>4, <1>6
<1>7. CASE Observed(p, o) = p
  BY <1>4, <1>7
<1> QED  BY <1>3, <1>5, <1>6, <1>7

\* The service view keeps the height and the time of the reading it was made from.
LEMMA ServiceViewFields ==
    ASSUME NEW p \in [height : Nat, branch : Nat, advancedAt : Int,
                      initialized : BOOLEAN, conflicted : BOOLEAN],
           NEW o
    PROVE  /\ ServiceView(o, p) =
                [height |-> ServiceView(o, p).height, branch |-> ServiceView(o, p).branch,
                 at |-> ServiceView(o, p).at, inFlight |-> ServiceView(o, p).inFlight,
                 progressing |-> ServiceView(o, p).progressing,
                 baseline |-> ServiceView(o, p).baseline]
           /\ ServiceView(o, p).height = o.height
           /\ ServiceView(o, p).at = o.at
           /\ ServiceView(o, p).branch = 0
           /\ ServiceView(o, p).baseline \in BOOLEAN
           /\ ServiceView(o, p).baseline => p.initialized
<1> DEFINE moving == NoProgressSeconds(p, o) <= MaxNoProgress
           based == p.initialized /\ ~p.conflicted
<1>1. ServiceView(o, p) = [height |-> o.height, branch |-> 0, at |-> o.at,
                           inFlight |-> o.inFlight, progressing |-> moving, baseline |-> based]
  BY DEF ServiceView
<1>2. based \in BOOLEAN /\ (based => p.initialized)
  OBVIOUS
<1> HIDE DEF moving, based
<1> QED  BY <1>1, <1>2

\* A reply lost on a mutating request is recorded as unknown, and only "ok" as succeeded.
LEMMA OutcomeFacts ==
    ASSUME NEW r, NEW reply \in {"ok", "refused", "lost"}
    PROVE  /\ Outcome(r, reply) \in Terminal
           /\ Outcome(r, reply) = "succeeded" => reply = "ok"
           /\ Outcome(r, reply) = "failed" /\ reply = "lost" => ~Mutating(r)
           /\ Outcome(r, reply) = "failed" => reply # "ok"
BY DEF Outcome, Terminal

\* A step that ends a call leaves the others alone.
LEMMA EndingCall ==
    ASSUME TypeOK, NEW c \in Calls, call' = [call EXCEPT ![c] = Idle]
    PROVE  EndsCall(c)
BY DEF TypeOK, EndsCall, OthersKept

\* A record with the fields of a call is well formed when its fields are.
LEMMA CallFields ==
    ASSUME NEW k, NEW pc \in Pcs, NEW r, NEW o, NEW out,
           k = [pc |-> pc, req |-> r, obs |-> o, out |-> out],
           pc # "idle" => r \in Requests,
           pc = "answered" => out \in Terminal,
           o = [height |-> o.height, branch |-> o.branch, at |-> o.at, inFlight |-> o.inFlight,
                progressing |-> o.progressing, baseline |-> o.baseline],
           o.height \in Nat, o.branch \in Nat, o.at \in Int, o.baseline \in BOOLEAN
    PROVE  WellFormed(k) /\ k.pc = pc /\ k.req = r /\ k.obs = o /\ k.out = out
<1>1. k.pc = pc /\ k.req = r /\ k.obs = o /\ k.out = out
  OBVIOUS
<1>2. k = [pc |-> k.pc, req |-> k.req, obs |-> k.obs, out |-> k.out]
  OBVIOUS
<1> QED  BY <1>1, <1>2 DEF WellFormed

\* A step that advances a call and keeps the height and a time of its reading.
LEMMA KeepingReading ==
    ASSUME TypeOK, NEW c \in Calls, NEW t \in Int, NEW pc \in Pcs,
           call[c].pc # "idle", pc # "answered",
           call' = [call EXCEPT ![c].pc = pc, ![c].obs = KeptReading(call[c].obs.height, t)]
    PROVE  MovesTo(c, pc)
<1> DEFINE o == KeptReading(call[c].obs.height, t)
<1>1. /\ call[c] = [pc |-> call[c].pc, req |-> call[c].req, obs |-> call[c].obs, out |-> call[c].out]
      /\ call[c].obs.height \in Nat /\ call[c].req \in Requests
  BY DEF TypeOK, WellFormed
<1>2. o = [height |-> call[c].obs.height, branch |-> 0, at |-> t, inFlight |-> 0,
           progressing |-> FALSE, baseline |-> FALSE]
  BY DEF KeptReading
<1>3. /\ o = [height |-> o.height, branch |-> o.branch, at |-> o.at, inFlight |-> o.inFlight,
              progressing |-> o.progressing, baseline |-> o.baseline]
      /\ o.height = call[c].obs.height /\ o.height \in Nat
      /\ o.branch \in Nat /\ o.at \in Int /\ o.baseline \in BOOLEAN
  <2> HIDE DEF o
  <2> QED  BY <1>1, <1>2
<1>0. call' = [call EXCEPT ![c].pc = pc, ![c].obs = o]
  OBVIOUS
<1> HIDE DEF o
<1>4. OthersKept(c) /\ call'[c] = [call[c] EXCEPT !.pc = pc, !.obs = o]
  BY <1>0 DEF TypeOK, OthersKept
<1>5. call'[c] = [pc |-> pc, req |-> call[c].req, obs |-> o, out |-> call[c].out]
  BY <1>1, <1>4
<1> DEFINE k == [pc |-> pc, req |-> call[c].req, obs |-> o, out |-> call[c].out]
<1>6. WellFormed(k) /\ k.pc = pc /\ k.req = call[c].req /\ k.obs = o
  BY <1>1, <1>3, CallFields
<1>7. call'[c] = k
  BY <1>5
<1> HIDE DEF k
<1> QED  BY <1>3, <1>4, <1>6, <1>7 DEF MovesTo

-----------------------------------------------------------------------------
(* Calls until the reservation. *)

\* Receiving a request: the call starts with the node's reading and holds nothing.
LEMMA ReceiveKeeps ==
    ASSUME AdapterInv, NEW c \in Calls, NEW r \in Requests, Receive(c, r)
    PROVE  AdapterInv'
<1>0. TypeOK /\ OneHolder /\ DispatchedOnce /\ AnswerTrue /\ MarginHeld /\ ExposureChecked
  BY DEF AdapterInv
<1> DEFINE k == [pc |-> "observed", req |-> r, obs |-> NodeReading, out |-> "none"]
<1>1. /\ NodeReading = [height |-> NodeReading.height, branch |-> NodeReading.branch,
                        at |-> NodeReading.at, inFlight |-> NodeReading.inFlight,
                        progressing |-> NodeReading.progressing,
                        baseline |-> NodeReading.baseline]
      /\ NodeReading.height = chain.height /\ NodeReading.height \in Nat
      /\ NodeReading.branch \in Nat /\ NodeReading.at \in Int
      /\ NodeReading.baseline \in BOOLEAN
  BY <1>0, NodeReadingFields
<1>3. WellFormed(k) /\ k.pc = "observed" /\ k.req = r /\ k.obs.height = chain.height
  BY <1>1 DEF WellFormed, Pcs
<1>4. call' = [call EXCEPT ![c] = k]
  BY DEF Receive
<1> HIDE DEF k
<1>5. OthersKept(c) /\ call'[c] = k
  BY <1>0, <1>4 DEF TypeOK, OthersKept
<1>6. /\ UNCHANGED <<journal, progress, invoice, payment, chain, now, sent, applied, fault>>
      /\ overlap' = (overlap \/ \E d \in Calls \ {c} : call[d].pc # "idle")
      /\ Exposure(r) => ~HasExposurePaymentHash(HashOf[r])
  BY DEF Receive, Admits, journalVars, lndVars, envVars
<1>7. TypeOK'
  BY <1>0, <1>3, <1>5, <1>6 DEF TypeOK, OthersKept, WellFormed
<1>8. OneHolder'
  BY <1>0, <1>3, <1>5, <1>6 DEF OneHolder, OthersKept, Holding
<1>9. DispatchedOnce'
  BY <1>0, <1>3, <1>5, <1>6 DEF DispatchedOnce, OthersKept
<1>10. AnswerTrue'
  BY <1>0, <1>3, <1>5, <1>6 DEF AnswerTrue, OthersKept, FailedHarmless
<1>11. MarginHeld'
  <2>1. chain.height <= chain.height + SafetyBlocks
    BY <1>0, AdapterAssumption DEF TypeOK
  <2> QED  BY <1>0, <1>3, <1>5, <1>6, <2>1 DEF MarginHeld, OthersKept, SettledInTime
<1>12. ExposureChecked'
  <2>1. /\ progress'.initialized => progress'.height > 0
        /\ ExposureAfterGrowth'
        /\ ~overlap' => OneExposurePerHash'
    BY <1>0, <1>6 DEF ExposureChecked, ExposureAfterGrowth, OneExposurePerHash, Reserved
  <2>2. ASSUME NEW d \in Calls
        PROVE  /\ call'[d].pc = "validating" /\ call'[d].obs.baseline => progress'.height > 0
               /\ call'[d].pc = "authorized" /\ Exposure(call'[d].req) => progress'.height > 0
    BY <1>0, <1>3, <1>5, <1>6 DEF ExposureChecked, OthersKept
  <2>3. ASSUME ~overlap'
        PROVE  /\ \A e, d \in Calls : e = d \/ call'[e].pc = "idle" \/ call'[d].pc = "idle"
               /\ \A d \in Calls, s \in Requests :
                    call'[d].pc \in Checking /\ Exposure(call'[d].req)
                      /\ journal'[s] # "none" /\ Exposure(s)
                      => HashOf[s] # HashOf[call'[d].req]
    <3>1. ~overlap /\ \A d \in Calls \ {c} : call'[d].pc = "idle"
      BY <1>0, <1>5, <1>6, <2>3 DEF OthersKept, TypeOK
    <3>2. \A s \in Requests : Exposure(r) /\ journal[s] # "none" /\ Exposure(s)
                                => HashOf[s] # HashOf[r]
      BY <1>6 DEF HasExposurePaymentHash, Reserved
    <3> QED  BY <1>3, <1>5, <1>6, <3>1, <3>2 DEF Checking
  <2> QED  BY <2>1, <2>2, <2>3 DEF ExposureChecked
<1> QED  BY <1>7, <1>8, <1>9, <1>10, <1>11, <1>12 DEF AdapterInv

\* A call that advances before its reservation disturbs nothing that concerns the journal,
\* the answers or the margins.
LEMMA CallAdvances ==
    ASSUME OneHolder, DispatchedOnce, AnswerTrue, MarginHeld, NEW c \in Calls,
           NEW pc \in {"validating", "authorized"}, call[c].pc \in Checking, MovesTo(c, pc),
           pc = "authorized" /\ Method[call[c].req] = "Settle" =>
             /\ invoice[HashOf[call[c].req]].state = "ACCEPTED"
             /\ invoice[HashOf[call[c].req]].expiry > call[c].obs.height + SafetyBlocks,
           UNCHANGED <<journal, invoice, payment, chain, sent, applied, fault>>
    PROVE  OneHolder' /\ DispatchedOnce' /\ AnswerTrue' /\ MarginHeld'
<1>1. /\ call'[c].pc = pc /\ call'[c].req = call[c].req
      /\ call'[c].obs.height = call[c].obs.height
      /\ call[c].pc # "idle"
      /\ \A d \in Calls \ {c} : call'[d] = call[d]
  BY DEF MovesTo, OthersKept, Checking
<1>2. OneHolder'
  BY <1>1 DEF OneHolder, Holding
<1>3. DispatchedOnce'
  BY <1>1 DEF DispatchedOnce
<1>4. AnswerTrue'
  BY <1>1 DEF AnswerTrue, FailedHarmless
<1>5. MarginHeld'
  BY <1>1 DEF MarginHeld, SettledInTime
<1> QED  BY <1>2, <1>3, <1>4, <1>5

\* While the record only grows, a call that advances to a later check keeps what it found.
LEMMA CheckingAdvances ==
    ASSUME ExposureChecked, NEW c \in Calls, NEW pc \in {"validating", "authorized"},
           call[c].pc \in Checking, MovesTo(c, pc),
           progress'.initialized => progress'.height > 0,
           progress.height \in Nat, progress'.height \in Nat, progress'.height >= progress.height,
           pc = "validating" /\ call'[c].obs.baseline => progress'.height > 0,
           pc = "authorized" /\ Exposure(call[c].req) => progress'.height > 0,
           UNCHANGED <<journal, overlap>>
    PROVE  ExposureChecked'
<1>1. /\ call'[c].pc = pc /\ call'[c].req = call[c].req
      /\ call[c].pc # "idle"
      /\ \A d \in Calls \ {c} : call'[d] = call[d]
  BY DEF MovesTo, OthersKept, Checking
<1>3. ExposureAfterGrowth' /\ (~overlap' => OneExposurePerHash')
  BY DEF ExposureChecked, ExposureAfterGrowth, OneExposurePerHash, Reserved
<1>4. ASSUME NEW d \in Calls
      PROVE  /\ call'[d].pc = "validating" /\ call'[d].obs.baseline => progress'.height > 0
             /\ call'[d].pc = "authorized" /\ Exposure(call'[d].req) => progress'.height > 0
  <2>1. CASE d = c
    BY <1>1, <2>1
  <2>2. CASE d # c
    BY <1>1, <2>2 DEF ExposureChecked
  <2> QED  BY <2>1, <2>2
<1>5. ASSUME ~overlap'
      PROVE  /\ \A e, d \in Calls : e = d \/ call'[e].pc = "idle" \/ call'[d].pc = "idle"
             /\ \A d \in Calls, s \in Requests :
                  call'[d].pc \in Checking /\ Exposure(call'[d].req)
                    /\ journal'[s] # "none" /\ Exposure(s)
                    => HashOf[s] # HashOf[call'[d].req]
  <2>1. /\ \A e, d \in Calls : e = d \/ call[e].pc = "idle" \/ call[d].pc = "idle"
        /\ \A d \in Calls, s \in Requests :
             call[d].pc \in Checking /\ Exposure(call[d].req) /\ journal[s] # "none" /\ Exposure(s)
               => HashOf[s] # HashOf[call[d].req]
    BY <1>5 DEF ExposureChecked
  <2>2. \A e, d \in Calls : e = d \/ call'[e].pc = "idle" \/ call'[d].pc = "idle"
    BY <1>1, <2>1
  <2>3. \A d \in Calls, s \in Requests :
          call'[d].pc \in Checking /\ Exposure(call'[d].req)
            /\ journal'[s] # "none" /\ Exposure(s)
            => HashOf[s] # HashOf[call'[d].req]
    BY <1>1, <2>1
  <2> QED  BY <2>2, <2>3
<1> QED  BY <1>3, <1>4, <1>5 DEF ExposureChecked

\* Recording the observation: the call gets the service view of its reading.
LEMMA RecordProgressKeeps ==
    ASSUME AdapterInv, NEW c \in Calls, RecordProgress(c)
    PROVE  AdapterInv'
<1>0. TypeOK /\ OneHolder /\ DispatchedOnce /\ AnswerTrue /\ MarginHeld /\ ExposureChecked
  BY DEF AdapterInv
<1> DEFINE o == call[c].obs
           q == Observed(progress, o)
           v == ServiceView(o, q)
<1>1. /\ call[c].pc = "observed" /\ WellFormed(call[c])
      /\ o.height \in Nat /\ o.branch \in Nat /\ o.at \in Int
  BY <1>0 DEF RecordProgress, TypeOK, WellFormed
<1>2. progress \in [height : Nat, branch : Nat, advancedAt : Int,
                    initialized : BOOLEAN, conflicted : BOOLEAN]
  BY <1>0 DEF TypeOK
<1>3. /\ q \in [height : Nat, branch : Nat, advancedAt : Int,
                initialized : BOOLEAN, conflicted : BOOLEAN]
      /\ q.height >= progress.height
      /\ q.initialized => q.height > 0
  BY <1>0, <1>1, <1>2, ObservedGrows DEF ExposureChecked
<1> HIDE DEF q
<1>4. /\ v = [height |-> v.height, branch |-> v.branch, at |-> v.at, inFlight |-> v.inFlight,
              progressing |-> v.progressing, baseline |-> v.baseline]
      /\ v.height = o.height /\ v.at = o.at /\ v.branch = 0
      /\ v.baseline \in BOOLEAN /\ (v.baseline => q.initialized)
  BY <1>3, ServiceViewFields
<1>5. progress' = q /\ call' = [call EXCEPT ![c].pc = "validating", ![c].obs = v]
  BY DEF RecordProgress, q
<1> HIDE DEF v
<1>6. OthersKept(c) /\ call'[c] = [call[c] EXCEPT !.pc = "validating", !.obs = v]
  BY <1>0, <1>5 DEF TypeOK, OthersKept
<1>7. call'[c] = [pc |-> "validating", req |-> call[c].req, obs |-> v, out |-> call[c].out]
  <2>1. call[c] = [pc |-> call[c].pc, req |-> call[c].req, obs |-> call[c].obs, out |-> call[c].out]
    BY <1>1 DEF WellFormed
  <2> QED  BY <1>6, <2>1
<1>8. /\ call'[c].pc = "validating" /\ call'[c].req = call[c].req
      /\ call'[c].obs = v /\ call'[c].out = call[c].out
  BY <1>7
<1>9. WellFormed(call'[c])
  BY <1>1, <1>4, <1>7, <1>8 DEF WellFormed, Pcs
<1>10. call'[c].obs.height = call[c].obs.height
  BY <1>4, <1>8
<1>11. UNCHANGED <<journal, invoice, payment, chain, now, sent, applied, fault, overlap>>
  BY DEF RecordProgress, journalVars, lndVars, envVars
<1>12. MovesTo(c, "validating")
  BY <1>6, <1>8, <1>9, <1>10 DEF MovesTo
<1>13. TypeOK'
  BY <1>0, <1>3, <1>5, <1>6, <1>9, <1>11 DEF TypeOK, OthersKept, WellFormed
<1>14. OneHolder' /\ DispatchedOnce' /\ AnswerTrue' /\ MarginHeld'
  BY <1>0, <1>1, <1>11, <1>12, CallAdvances DEF Checking
<1>15. ExposureChecked'
  <2>1. /\ progress'.initialized => progress'.height > 0
        /\ progress'.height \in Nat /\ progress.height \in Nat
        /\ progress'.height >= progress.height
    BY <1>2, <1>3, <1>5
  <2>2. call'[c].obs.baseline => progress'.height > 0
    BY <1>3, <1>4, <1>5, <1>8
  <2> QED  BY <1>0, <1>1, <1>11, <1>12, <2>1, <2>2, CheckingAdvances DEF Checking
<1> QED  BY <1>0, <1>13, <1>14, <1>15 DEF AdapterInv

\* A call that ends without touching the journal or LND disturbs nothing.
LEMMA CallEnds ==
    ASSUME AdapterInv, NEW c \in Calls, EndsCall(c),
           UNCHANGED <<journal, progress, invoice, payment, chain, now, sent, applied, overlap>>,
           fault \subseteq fault'
    PROVE  AdapterInv'
<1>0. TypeOK /\ OneHolder /\ DispatchedOnce /\ AnswerTrue /\ MarginHeld /\ ExposureChecked
  BY DEF AdapterInv
<1>1. /\ call' = [d \in Calls |-> call'[d]]
      /\ WellFormed(call'[c]) /\ call'[c].pc = "idle"
      /\ \A d \in Calls \ {c} : call'[d] = call[d]
  BY IdleWellFormed DEF EndsCall, OthersKept
<1>2. TypeOK'
  BY <1>0, <1>1 DEF TypeOK, WellFormed
<1>3. OneHolder'
  BY <1>0, <1>1 DEF OneHolder, Holding
<1>4. DispatchedOnce'
  BY <1>0, <1>1 DEF DispatchedOnce
<1>5. AnswerTrue'
  BY <1>0, <1>1 DEF AnswerTrue, FailedHarmless
<1>6. MarginHeld'
  BY <1>0, <1>1 DEF MarginHeld, SettledInTime
<1>7. ExposureChecked'
  <2>1. ExposureAfterGrowth' /\ (~overlap' => OneExposurePerHash')
    BY <1>0 DEF ExposureChecked, ExposureAfterGrowth, OneExposurePerHash, Reserved
  <2> QED  BY <1>0, <1>1, <2>1 DEF ExposureChecked, Checking
<1> QED  BY <1>2, <1>3, <1>4, <1>5, <1>6, <1>7 DEF AdapterInv

\* Authorizing: the checks of the invoice and of the baseline hold of what the call read.
LEMMA AuthorizeKeeps ==
    ASSUME AdapterInv, NEW c \in Calls, Authorize(c)
    PROVE  AdapterInv'
<1>0. TypeOK /\ OneHolder /\ DispatchedOnce /\ AnswerTrue /\ MarginHeld /\ ExposureChecked
  BY DEF AdapterInv
<1>1. call[c].pc = "validating" /\ WellFormed(call[c]) /\ call[c].req \in Requests
  BY <1>0 DEF Authorize, TypeOK, WellFormed
<1>2. UNCHANGED <<journal, progress, invoice, payment, chain, now, sent, applied, fault, overlap>>
  BY DEF Authorize, journalVars, lndVars, envVars, history
<1>3. \/ call' = [call EXCEPT ![c] = Idle]
      \/ /\ call' = [call EXCEPT ![c].pc = "authorized", ![c].obs = KeptReading(call[c].obs.height, call[c].obs.at)]
         /\ OperationValid(call[c].req, call[c].obs)
         /\ Authorized(call[c].req, call[c].obs)
  BY DEF Authorize
<1>4. CASE call' = [call EXCEPT ![c] = Idle]
  <2>1. EndsCall(c)
    BY <1>0, <1>4, EndingCall
  <2> QED  BY <1>2, <2>1, CallEnds
<1>5. CASE /\ call' = [call EXCEPT ![c].pc = "authorized", ![c].obs = KeptReading(call[c].obs.height, call[c].obs.at)]
           /\ OperationValid(call[c].req, call[c].obs)
           /\ Authorized(call[c].req, call[c].obs)
  <2>1. call[c].obs.at \in Int
    BY <1>1 DEF WellFormed
  <2>6. MovesTo(c, "authorized")
    BY <1>0, <1>1, <1>5, <2>1, KeepingReading DEF Pcs
  <2>7. TypeOK'
    BY <1>0, <1>2, <2>6 DEF TypeOK, MovesTo, OthersKept, WellFormed
  <2>8. Method[call[c].req] = "Settle" =>
          /\ invoice[HashOf[call[c].req]].state = "ACCEPTED"
          /\ invoice[HashOf[call[c].req]].expiry > call[c].obs.height + SafetyBlocks
    BY <1>5 DEF OperationValid
  <2>9. OneHolder' /\ DispatchedOnce' /\ AnswerTrue' /\ MarginHeld'
    BY <1>0, <1>1, <1>2, <2>6, <2>8, CallAdvances DEF Checking
  <2>10. Exposure(call[c].req) => progress.height > 0
    BY <1>0, <1>1, <1>5 DEF Authorized, ExposureChecked
  <2>11. progress.height \in Nat /\ (progress.initialized => progress.height > 0)
    BY <1>0 DEF TypeOK, ExposureChecked
  <2>12. progress.height >= progress.height
    BY <2>11
  <2>13. ExposureChecked'
    BY <1>0, <1>1, <1>2, <2>6, <2>10, <2>11, <2>12, CheckingAdvances DEF Checking
  <2> QED  BY <2>7, <2>9, <2>13 DEF AdapterInv
<1> QED  BY <1>3, <1>4, <1>5

\* Reserving: the journal refuses an identifier it has, so that the call is the only holder.
LEMMA ReserveRequestKeeps ==
    ASSUME AdapterInv, NEW c \in Calls, ReserveRequest(c)
    PROVE  AdapterInv'
<1>0. TypeOK /\ OneHolder /\ DispatchedOnce /\ AnswerTrue /\ MarginHeld /\ ExposureChecked
  BY DEF AdapterInv
<1> DEFINE r == call[c].req
<1>1. call[c].pc = "authorized" /\ WellFormed(call[c]) /\ r \in Requests
  BY <1>0 DEF ReserveRequest, TypeOK, WellFormed
<1>2. UNCHANGED <<progress, invoice, payment, chain, now, sent, applied, fault, overlap>>
  BY DEF ReserveRequest, journalVars, lndVars, envVars, history
<1>3. \/ call' = [call EXCEPT ![c] = Idle] /\ UNCHANGED journal
      \/ /\ journal[r] = "none"
         /\ journal' = [journal EXCEPT ![r] = "dispatching"]
         /\ call' = [call EXCEPT ![c].pc = "reserved", ![c].obs = KeptReading(call[c].obs.height, 0)]
  BY DEF ReserveRequest, CanReserve
<1>4. CASE call' = [call EXCEPT ![c] = Idle] /\ UNCHANGED journal
  <2>1. EndsCall(c)
    BY <1>0, <1>4, EndingCall
  <2> QED  BY <1>2, <1>4, <2>1, CallEnds
<1>5. CASE /\ journal[r] = "none"
           /\ journal' = [journal EXCEPT ![r] = "dispatching"]
           /\ call' = [call EXCEPT ![c].pc = "reserved", ![c].obs = KeptReading(call[c].obs.height, 0)]
  <2>0. call' = [call EXCEPT ![c].pc = "reserved", ![c].obs = KeptReading(call[c].obs.height, 0)]
    BY <1>5
  <2>1. MovesTo(c, "reserved")
    <3>1. TypeOK /\ call[c].pc # "idle" /\ 0 \in Int /\ "reserved" \in Pcs
      BY <1>0, <1>1 DEF Pcs
    <3> QED  BY <2>0, <3>1, KeepingReading
  <2>2. /\ call' = [d \in Calls |-> call'[d]] /\ WellFormed(call'[c])
        /\ call'[c].pc = "reserved" /\ call'[c].req = call[c].req
        /\ call'[c].obs.height = call[c].obs.height
        /\ \A d \in Calls \ {c} : call'[d] = call[d]
    BY <2>1 DEF MovesTo, OthersKept
  <2>3. /\ journal' \in [Requests -> {"none", "dispatching"} \cup Terminal]
        /\ journal'[r] = "dispatching"
        /\ \A s \in Requests : s # r => journal'[s] = journal[s]
    BY <1>0, <1>1, <1>5 DEF TypeOK
  <2>4. TypeOK'
    <3>1. \A d \in Calls : WellFormed(call'[d])
      BY <1>0, <2>2 DEF TypeOK
    <3>2. TypeOK' <=> /\ call' = [d \in Calls |-> call'[d]] /\ \A d \in Calls : WellFormed(call'[d])
                      /\ journal' \in [Requests -> {"none", "dispatching"} \cup Terminal]
      BY <1>0, <1>2 DEF TypeOK, WellFormed
    <3> QED  BY <2>2, <2>3, <3>1, <3>2
  <2>5. ASSUME NEW d \in Calls, call[d].pc \in Holding
        PROVE  d # c /\ call[d].req # r /\ call[d].req \in Requests
    BY <1>0, <1>1, <1>5, <2>5 DEF OneHolder, Holding, TypeOK, WellFormed
  <2>6. OneHolder'
    BY <1>0, <1>1, <2>2, <2>3, <2>5 DEF OneHolder, Holding
  <2>7. DispatchedOnce'
    BY <1>0, <1>1, <1>2, <1>5, <2>2, <2>3 DEF DispatchedOnce
  <2>8. AnswerTrue'
    BY <1>0, <1>1, <1>2, <2>2, <2>3 DEF AnswerTrue, FailedHarmless
  <2>9. MarginHeld'
    BY <1>0, <1>1, <1>2, <2>2 DEF MarginHeld, SettledInTime
  <2>10. ExposureChecked'
    <3>1. \A s \in Requests : journal'[s] # "none" => s = r \/ journal[s] # "none"
      BY <2>3
    <3>2. Exposure(r) => progress.height > 0
      BY <1>0, <1>1 DEF ExposureChecked
    <3>3. ExposureAfterGrowth'
      BY <1>0, <1>2, <3>1, <3>2 DEF ExposureChecked, ExposureAfterGrowth, Reserved
    <3>4. ASSUME NEW d \in Calls
          PROVE  /\ call'[d].pc = "validating" /\ call'[d].obs.baseline => progress'.height > 0
                 /\ call'[d].pc = "authorized" /\ Exposure(call'[d].req) => progress'.height > 0
      BY <1>0, <1>2, <2>2 DEF ExposureChecked
    <3>5. ASSUME ~overlap'
          PROVE  /\ \A e, d \in Calls : e = d \/ call'[e].pc = "idle" \/ call'[d].pc = "idle"
                 /\ \A d \in Calls, s \in Requests :
                      call'[d].pc \in Checking /\ Exposure(call'[d].req)
                        /\ journal'[s] # "none" /\ Exposure(s)
                        => HashOf[s] # HashOf[call'[d].req]
                 /\ OneExposurePerHash'
      <4>1. /\ \A d \in Calls : d = c \/ call'[d].pc = "idle"
            /\ OneExposurePerHash
            /\ \A s \in Requests : Exposure(r) /\ journal[s] # "none" /\ Exposure(s)
                                     => HashOf[s] # HashOf[r]
        BY <1>0, <1>1, <1>2, <2>2, <3>5 DEF ExposureChecked, Checking
      <4>2. OneExposurePerHash'
        BY <3>1, <4>1 DEF OneExposurePerHash, Reserved
      <4> QED  BY <2>2, <4>1, <4>2 DEF Checking
    <3>6. progress'.initialized => progress'.height > 0
      BY <1>0, <1>2 DEF ExposureChecked
    <3> QED  BY <3>3, <3>4, <3>5, <3>6 DEF ExposureChecked
  <2> QED  BY <2>4, <2>6, <2>7, <2>8, <2>9, <2>10 DEF AdapterInv
<1> QED  BY <1>3, <1>4, <1>5

-----------------------------------------------------------------------------
(* Calls from the dispatch on. *)

\* A step that records the answer of a call.
LEMMA AnsweringCall ==
    ASSUME TypeOK, NEW c \in Calls, NEW out \in Terminal, call[c].pc # "idle",
           call' = [call EXCEPT ![c].pc = "answered", ![c].out = out]
    PROVE  MovesTo(c, "answered") /\ call'[c].out = out
<1>1. /\ call[c] = [pc |-> call[c].pc, req |-> call[c].req, obs |-> call[c].obs, out |-> call[c].out]
      /\ call[c].req \in Requests
  BY DEF TypeOK, WellFormed
<1>2. LET o == call[c].obs
      IN /\ o = [height |-> o.height, branch |-> o.branch, at |-> o.at, inFlight |-> o.inFlight,
                 progressing |-> o.progressing, baseline |-> o.baseline]
         /\ o.height \in Nat /\ o.branch \in Nat /\ o.at \in Int /\ o.baseline \in BOOLEAN
  BY DEF TypeOK, WellFormed
<1>4. OthersKept(c) /\ call'[c] = [call[c] EXCEPT !.pc = "answered", !.out = out]
  BY DEF TypeOK, OthersKept
<1> DEFINE k == [pc |-> "answered", req |-> call[c].req, obs |-> call[c].obs, out |-> out]
<1>5. call'[c] = k
  BY <1>1, <1>4
<1>6. WellFormed(k) /\ k.pc = "answered" /\ k.req = call[c].req /\ k.obs = call[c].obs /\ k.out = out
  BY <1>1, <1>2, CallFields DEF Pcs
<1> HIDE DEF k
<1> QED  BY <1>4, <1>5, <1>6 DEF MovesTo

\* A step that starts the wait for a payment.
LEMMA PayingCall ==
    ASSUME TypeOK, NEW c \in Calls, call[c].pc # "idle",
           call' = [call EXCEPT ![c].pc = "paying"]
    PROVE  MovesTo(c, "paying")
<1>1. /\ call[c] = [pc |-> call[c].pc, req |-> call[c].req, obs |-> call[c].obs, out |-> call[c].out]
      /\ call[c].req \in Requests
  BY DEF TypeOK, WellFormed
<1>2. LET o == call[c].obs
      IN /\ o = [height |-> o.height, branch |-> o.branch, at |-> o.at, inFlight |-> o.inFlight,
                 progressing |-> o.progressing, baseline |-> o.baseline]
         /\ o.height \in Nat /\ o.branch \in Nat /\ o.at \in Int /\ o.baseline \in BOOLEAN
  BY DEF TypeOK, WellFormed
<1>4. OthersKept(c) /\ call'[c] = [call[c] EXCEPT !.pc = "paying"]
  BY DEF TypeOK, OthersKept
<1> DEFINE k == [pc |-> "paying", req |-> call[c].req, obs |-> call[c].obs, out |-> call[c].out]
<1>5. call'[c] = k
  BY <1>1, <1>4
<1>6. WellFormed(k) /\ k.pc = "paying" /\ k.req = call[c].req /\ k.obs = call[c].obs
  BY <1>1, <1>2, CallFields DEF Pcs
<1> HIDE DEF k
<1> QED  BY <1>4, <1>5, <1>6 DEF MovesTo

\* What LND may do to the invoices on behalf of request r: an accepted invoice keeps its
\* expiry, and one is settled by a settlement of its hash, at the present height.
InvoiceMoves(r) ==
    \A h \in Hashes :
        /\ invoice[h].state \in {"ACCEPTED", "SETTLED", "CANCELED"} =>
             /\ invoice'[h].state \in {"ACCEPTED", "SETTLED", "CANCELED"}
             /\ invoice'[h].expiry = invoice[h].expiry
        /\ invoice'[h].state = "SETTLED" =>
             \/ invoice'[h] = invoice[h]
             \/ /\ Method[r] = "Settle" /\ HashOf[r] = h
                /\ invoice'[h].settled = chain.height /\ invoice'[h].expiry = invoice[h].expiry

\* What LND may do to the payments: start one for r.
PaymentMoves(r) ==
    \A h \in Hashes :
        \/ payment'[h] = payment[h]
        \/ Method[r] = "Send" /\ HashOf[r] = h /\ payment'[h].by = r

\* The effect of an accepted RPC.
LEMMA LndEffectMoves ==
    ASSUME TypeOK, NEW r \in Requests, LndAccepts(r), LndEffect(r)
    PROVE  /\ invoice' \in [Hashes -> [state : InvoiceStates, sats : Nat, expiry : Nat, settled : Nat]]
           /\ payment' \in [Hashes -> [state : PaymentStates, sats : Nat, by : Requests \cup {NoRequest}]]
           /\ InvoiceMoves(r) /\ PaymentMoves(r)
<1> DEFINE h == HashOf[r]
           Invoices == [state : InvoiceStates, sats : Nat, expiry : Nat, settled : Nat]
<1>1. /\ h \in Hashes /\ Amount[r] \in Nat /\ chain.height \in Nat /\ Method[r] \in Methods
      /\ invoice \in [Hashes -> Invoices] /\ invoice[h] \in Invoices
      /\ payment \in [Hashes -> [state : PaymentStates, sats : Nat, by : Requests \cup {NoRequest}]]
  BY AdapterAssumption DEF TypeOK
<1>2. CASE Method[r] = "AddHold"
  <2> DEFINE i == [NoInvoice EXCEPT !.state = "OPEN", !.sats = Amount[r]]
  <2>1. i \in Invoices /\ i.state = "OPEN"
    BY <1>1 DEF NoInvoice, InvoiceStates
  <2>2. invoice[h].state = "none" /\ invoice' = [invoice EXCEPT ![h] = i] /\ UNCHANGED payment
    BY <1>2 DEF LndAccepts, LndEffect
  <2> HIDE DEF i
  <2> QED  BY <1>1, <2>1, <2>2 DEF InvoiceMoves, PaymentMoves
<1>3. CASE Method[r] = "Settle"
  <2> DEFINE i == [invoice[h] EXCEPT !.state = "SETTLED", !.settled = chain.height]
  <2>1. i \in Invoices /\ i.state = "SETTLED" /\ i.settled = chain.height
        /\ i.expiry = invoice[h].expiry
    BY <1>1 DEF InvoiceStates
  <2>2. invoice[h].state = "ACCEPTED" /\ invoice' = [invoice EXCEPT ![h] = i] /\ UNCHANGED payment
    BY <1>3 DEF LndAccepts, LndEffect
  <2> HIDE DEF i
  <2> QED  BY <1>1, <1>3, <2>1, <2>2 DEF InvoiceMoves, PaymentMoves
<1>4. CASE Method[r] = "Cancel"
  <2> DEFINE i == [invoice[h] EXCEPT !.state = "CANCELED"]
  <2>1. i \in Invoices /\ i.state = "CANCELED" /\ i.expiry = invoice[h].expiry
    BY <1>1 DEF InvoiceStates
  <2>2. invoice' = [invoice EXCEPT ![h] = i] /\ UNCHANGED payment
    BY <1>4 DEF LndEffect
  <2> HIDE DEF i
  <2> QED  BY <1>1, <2>1, <2>2 DEF InvoiceMoves, PaymentMoves
<1>5. CASE Method[r] = "Send"
  <2> DEFINE q == [state |-> "IN_FLIGHT", sats |-> Amount[r], by |-> r]
  <2>1. q \in [state : PaymentStates, sats : Nat, by : Requests \cup {NoRequest}] /\ q.by = r
    BY <1>1 DEF PaymentStates
  <2>2. payment' = [payment EXCEPT ![h] = q] /\ UNCHANGED invoice
    BY <1>5 DEF LndEffect
  <2> HIDE DEF q
  <2> QED  BY <1>1, <1>5, <2>1, <2>2 DEF InvoiceMoves, PaymentMoves
<1>6. CASE Method[r] \notin {"AddHold", "Settle", "Cancel", "Send"}
  <2>1. UNCHANGED <<invoice, payment>>
    BY <1>6 DEF LndEffect, lndVars
  <2> QED  BY <1>1, <2>1 DEF InvoiceMoves, PaymentMoves
<1> QED  BY <1>2, <1>3, <1>4, <1>5, <1>6

\* Once reserved, a call no longer concerns the checks of the exposure: a step that keeps the
\* journal's reservations and the record keeps them.
LEMMA ExposureKept ==
    ASSUME ExposureChecked, NEW c \in Calls, call[c].pc \in Holding,
           \A d \in Calls \ {c} : call'[d] = call[d],
           call'[c].pc \in Holding \cup {"idle"},
           UNCHANGED <<progress, overlap>>,
           \A s \in Requests : journal'[s] = "none" <=> journal[s] = "none"
    PROVE  ExposureChecked'
<1>1. ExposureAfterGrowth' /\ (~overlap' => OneExposurePerHash')
  BY DEF ExposureChecked, ExposureAfterGrowth, OneExposurePerHash, Reserved
<1>2. ASSUME NEW d \in Calls
      PROVE  /\ call'[d].pc = "validating" /\ call'[d].obs.baseline => progress'.height > 0
             /\ call'[d].pc = "authorized" /\ Exposure(call'[d].req) => progress'.height > 0
  BY DEF ExposureChecked, Holding
<1>3. ASSUME ~overlap'
      PROVE  /\ \A e, d \in Calls : e = d \/ call'[e].pc = "idle" \/ call'[d].pc = "idle"
             /\ \A d \in Calls, s \in Requests :
                  call'[d].pc \in Checking /\ Exposure(call'[d].req)
                    /\ journal'[s] # "none" /\ Exposure(s)
                    => HashOf[s] # HashOf[call'[d].req]
  BY <1>3 DEF ExposureChecked, Holding, Checking
<1>4. progress'.initialized => progress'.height > 0
  BY DEF ExposureChecked
<1> QED  BY <1>1, <1>2, <1>3, <1>4 DEF ExposureChecked

\* Dispatching: the one holder of a reservation that was never sent sends it.
LEMMA DispatchKeeps ==
    ASSUME AdapterInv, NEW c \in Calls, Dispatch(c)
    PROVE  AdapterInv'
<1>0. TypeOK /\ OneHolder /\ DispatchedOnce /\ AnswerTrue /\ MarginHeld /\ ExposureChecked
  BY DEF AdapterInv
<1>r. PICK r \in Requests : r = call[c].req
  BY <1>0 DEF Dispatch, TypeOK, WellFormed
<1>1. /\ call[c].pc = "reserved" /\ r \in Requests /\ journal[r] = "dispatching"
      /\ sent[r] = 0 /\ r \notin applied
  BY <1>0, <1>r DEF Dispatch, OneHolder, Holding, DispatchedOnce
<1>2. /\ UNCHANGED <<journal, progress, chain, now, fault, overlap>>
      /\ sent' = [sent EXCEPT ![r] = @ + 1]
  BY <1>r DEF Dispatch, journalVars, envVars
<1>3. /\ sent' \in [Requests -> Nat] /\ sent'[r] = 1
      /\ \A s \in Requests : s # r => sent'[s] = sent[s]
  BY <1>0, <1>1, <1>2 DEF TypeOK
<1>4. \/ /\ LndAccepts(r) /\ LndEffect(r) /\ applied' = applied \cup {r}
         /\ \/ Method[r] = "Send" /\ call' = [call EXCEPT ![c].pc = "paying"]
            \/ /\ Method[r] # "Send"
               /\ \E reply \in {"ok", "lost"} :
                    call' = [call EXCEPT ![c].pc = "answered", ![c].out = Outcome(r, reply)]
      \/ /\ UNCHANGED <<invoice, payment, applied>>
         /\ \E reply \in {"refused", "lost"} :
              call' = [call EXCEPT ![c].pc = "answered", ![c].out = Outcome(r, reply)]
  BY <1>r DEF Dispatch, lndVars
<1>5. /\ invoice' \in [Hashes -> [state : InvoiceStates, sats : Nat, expiry : Nat, settled : Nat]]
      /\ payment' \in [Hashes -> [state : PaymentStates, sats : Nat, by : Requests \cup {NoRequest}]]
      /\ InvoiceMoves(r)
      /\ applied' \subseteq applied \cup {r} /\ applied \subseteq applied'
      /\ \A h \in Hashes : payment'[h] = payment[h] \/ (payment'[h].by = r /\ r \in applied')
  <2>1. CASE LndAccepts(r) /\ LndEffect(r) /\ applied' = applied \cup {r}
    <3>1. /\ invoice' \in [Hashes -> [state : InvoiceStates, sats : Nat, expiry : Nat, settled : Nat]]
          /\ payment' \in [Hashes -> [state : PaymentStates, sats : Nat, by : Requests \cup {NoRequest}]]
          /\ InvoiceMoves(r) /\ PaymentMoves(r)
      BY <1>0, <1>1, <2>1, LndEffectMoves
    <3> QED  BY <2>1, <3>1 DEF PaymentMoves
  <2>2. CASE UNCHANGED <<invoice, payment, applied>>
    BY <1>0, <2>2 DEF TypeOK, InvoiceMoves
  <2> QED  BY <1>4, <2>1, <2>2
<1>6. \/ /\ MovesTo(c, "paying") /\ Method[r] = "Send" /\ r \in applied'
      \/ /\ MovesTo(c, "answered")
         /\ call'[c].out = "succeeded" => r \in applied'
         /\ call'[c].out = "failed" => ~Mutating(r) \/ r \notin applied'
  <2>1. CASE r \in applied' /\ Method[r] = "Send" /\ call' = [call EXCEPT ![c].pc = "paying"]
    <3>1. call' = [call EXCEPT ![c].pc = "paying"]
      BY <2>1
    <3>2. TypeOK /\ call[c].pc # "idle"
      BY <1>0, <1>1
    <3>3. MovesTo(c, "paying")
      BY <3>1, <3>2, PayingCall
    <3> QED  BY <2>1, <3>3
  <2>2. ASSUME NEW reply \in {"ok", "lost"}, r \in applied',
               call' = [call EXCEPT ![c].pc = "answered", ![c].out = Outcome(r, reply)]
        PROVE  /\ MovesTo(c, "answered")
               /\ call'[c].out = "succeeded" => r \in applied'
               /\ call'[c].out = "failed" => ~Mutating(r)
    <3> DEFINE out == Outcome(r, reply)
    <3>1. out \in Terminal /\ (out = "failed" => ~Mutating(r))
      BY OutcomeFacts
    <3>2. call' = [call EXCEPT ![c].pc = "answered", ![c].out = out] /\ call[c].pc # "idle"
      BY <1>1, <2>2
    <3> HIDE DEF out
    <3>3. MovesTo(c, "answered") /\ call'[c].out = out
      BY <1>0, <3>1, <3>2, AnsweringCall
    <3> QED  BY <2>2, <3>1, <3>3
  <2>3. ASSUME NEW reply \in {"refused", "lost"}, r \notin applied',
               call' = [call EXCEPT ![c].pc = "answered", ![c].out = Outcome(r, reply)]
        PROVE  /\ MovesTo(c, "answered")
               /\ call'[c].out # "succeeded"
    <3> DEFINE out == Outcome(r, reply)
    <3>1. out \in Terminal /\ out # "succeeded"
      BY OutcomeFacts
    <3>2. call' = [call EXCEPT ![c].pc = "answered", ![c].out = out] /\ call[c].pc # "idle"
      BY <1>1, <2>3
    <3> HIDE DEF out
    <3>3. MovesTo(c, "answered") /\ call'[c].out = out
      BY <1>0, <3>1, <3>2, AnsweringCall
    <3> QED  BY <3>1, <3>3
  <2>4. \/ r \in applied' /\ Method[r] = "Send" /\ call' = [call EXCEPT ![c].pc = "paying"]
        \/ r \in applied' /\ \E reply \in {"ok", "lost"} :
              call' = [call EXCEPT ![c].pc = "answered", ![c].out = Outcome(r, reply)]
        \/ r \notin applied' /\ \E reply \in {"refused", "lost"} :
              call' = [call EXCEPT ![c].pc = "answered", ![c].out = Outcome(r, reply)]
    BY <1>1, <1>4
  <2> QED  BY <2>1, <2>2, <2>3, <2>4
<1>7. /\ call' = [d \in Calls |-> call'[d]] /\ WellFormed(call'[c])
      /\ call'[c].pc \in {"paying", "answered"} /\ call'[c].req = r
      /\ call'[c].obs.height = call[c].obs.height
      /\ \A d \in Calls \ {c} : call'[d] = call[d]
  BY <1>r, <1>6 DEF MovesTo, OthersKept
<1>8. /\ call'[c].pc = "paying" => Method[r] = "Send" /\ r \in applied'
      /\ call'[c].pc = "answered" /\ call'[c].out = "succeeded" => r \in applied'
      /\ call'[c].pc = "answered" /\ call'[c].out = "failed" => ~Mutating(r) \/ r \notin applied'
  BY <1>6 DEF MovesTo
<1>9. \A d \in Calls \ {c} : call[d].pc \in Holding => call[d].req # r
  BY <1>0, <1>r, <1>1 DEF OneHolder, Holding
<1>10. \A d \in Calls : call[d].pc # "idle" => call[d].req \in Requests
  BY <1>0 DEF TypeOK, WellFormed
<1>11. TypeOK'
  <2>1. applied' \subseteq Requests
    BY <1>0, <1>1, <1>5 DEF TypeOK
  <2>2. \A d \in Calls : WellFormed(call'[d])
    BY <1>0, <1>7 DEF TypeOK
  <2>3. (\A d \in Calls : WellFormed(call[d]))'
    BY <2>2 DEF WellFormed
  <2> QED  BY <1>0, <1>2, <1>3, <1>5, <1>7, <2>1, <2>3 DEF TypeOK
<1>12. OneHolder'
  BY <1>0, <1>1, <1>2, <1>7, <1>9 DEF OneHolder, Holding
<1>13. DispatchedOnce'
  <2>1. \A d \in Calls : call'[d].pc = "reserved" => d # c /\ call[d].pc = "reserved" /\ call[d].req # r
                                                      /\ call[d].req \in Requests
    BY <1>7, <1>9, <1>10 DEF Holding
  <2> QED  BY <1>0, <1>1, <1>2, <1>3, <1>5, <1>7, <2>1 DEF DispatchedOnce
<1>14. \A s \in Requests : s # r /\ FailedHarmless(s) => FailedHarmless(s)'
  BY <1>5, AdapterAssumption DEF FailedHarmless, Mutating
<1>15. AnswerTrue'
  <2>1. \A h \in Hashes : payment'[h].by # NoRequest => payment'[h].by \in applied'
    BY <1>0, <1>5 DEF AnswerTrue
  <2>2. \A s \in Requests : /\ journal'[s] = "succeeded" => s \in applied'
                            /\ journal'[s] = "failed" /\ s \notin fault' => FailedHarmless(s)'
    BY <1>0, <1>1, <1>2, <1>5, <1>14 DEF AnswerTrue
  <2>3. call'[c].pc = "answered" /\ call'[c].out = "failed" => FailedHarmless(r)'
    BY <1>8 DEF FailedHarmless, Mutating
  <2>4. ASSUME NEW d \in Calls
        PROVE  /\ call'[d].pc = "paying" => Method[call'[d].req] = "Send" /\ call'[d].req \in applied'
               /\ call'[d].pc = "answered" /\ call'[d].out = "succeeded" => call'[d].req \in applied'
               /\ call'[d].pc = "answered" /\ call'[d].out = "failed" => FailedHarmless(call[d].req)'
    <3>1. CASE d = c
      BY <1>7, <1>8, <2>3, <3>1
    <3>2. CASE d # c
      BY <1>0, <1>5, <1>7, <1>9, <1>10, <1>14, <3>2 DEF AnswerTrue, Holding
    <3> QED  BY <3>1, <3>2
  <2> QED  BY <2>1, <2>2, <2>4 DEF AnswerTrue
<1>16. MarginHeld'
  <2>1. ASSUME NEW d \in Calls, call'[d].pc # "idle"
        PROVE  chain'.height <= call'[d].obs.height + SafetyBlocks
    BY <1>0, <1>1, <1>2, <1>7, <2>1 DEF MarginHeld
  <2>2. ASSUME NEW d \in Calls, call'[d].pc \in {"authorized", "reserved"},
               Method[call'[d].req] = "Settle"
        PROVE  /\ invoice'[HashOf[call'[d].req]].state \in {"ACCEPTED", "SETTLED", "CANCELED"}
               /\ invoice'[HashOf[call'[d].req]].expiry > call'[d].obs.height + SafetyBlocks
    <3>1. d # c /\ call'[d] = call[d] /\ HashOf[call[d].req] \in Hashes
      BY <1>7, <1>10, <2>2, AdapterAssumption
    <3> QED  BY <1>0, <1>5, <2>2, <3>1 DEF MarginHeld, InvoiceMoves
  <2>3. ASSUME NEW h \in Hashes, invoice'[h].state = "SETTLED"
        PROVE  invoice'[h].settled < invoice'[h].expiry
    <3>1. CASE invoice'[h] = invoice[h]
      BY <1>0, <2>3, <3>1 DEF MarginHeld, SettledInTime
    <3>2. CASE /\ Method[r] = "Settle" /\ HashOf[r] = h
               /\ invoice'[h].settled = chain.height /\ invoice'[h].expiry = invoice[h].expiry
      <4>1. /\ chain.height <= call[c].obs.height + SafetyBlocks
            /\ invoice[h].expiry > call[c].obs.height + SafetyBlocks
        BY <1>0, <1>r, <1>1, <3>2 DEF MarginHeld
      <4>2. /\ chain.height \in Nat /\ call[c].obs.height \in Nat /\ invoice[h].expiry \in Nat
            /\ SafetyBlocks \in Nat
        BY <1>0, AdapterAssumption DEF TypeOK, WellFormed
      <4> QED  BY <3>2, <4>1, <4>2
    <3> QED  BY <1>5, <2>3, <3>1, <3>2 DEF InvoiceMoves
  <2> QED  BY <2>1, <2>2, <2>3 DEF MarginHeld, SettledInTime
<1>17. ExposureChecked'
  BY <1>0, <1>1, <1>2, <1>7, ExposureKept DEF Holding
<1> QED  BY <1>11, <1>12, <1>13, <1>15, <1>16, <1>17 DEF AdapterInv

\* The end of a payment stream: its terminal frame says what became of the request's payment.
LEMMA PaymentAnswerKeeps ==
    ASSUME AdapterInv, NEW c \in Calls, PaymentAnswer(c)
    PROVE  AdapterInv'
<1>0. TypeOK /\ OneHolder /\ DispatchedOnce /\ AnswerTrue /\ MarginHeld /\ ExposureChecked
  BY DEF AdapterInv
<1>r. PICK r \in Requests : r = call[c].req
  BY <1>0 DEF PaymentAnswer, TypeOK, WellFormed
<1>1. call[c].pc = "paying" /\ Method[r] = "Send" /\ r \in applied
  BY <1>0, <1>r DEF PaymentAnswer, AnswerTrue
<1>2. UNCHANGED <<journal, progress, invoice, payment, chain, now, sent, applied, fault, overlap>>
  BY DEF PaymentAnswer, journalVars, lndVars, envVars, history
<1>3. PICK out \in Terminal : /\ call' = [call EXCEPT ![c].pc = "answered", ![c].out = out]
                              /\ out = "failed" => /\ payment[HashOf[r]].by = r
                                                   /\ payment[HashOf[r]].state = "FAILED"
  <2>1. Outcome(r, "lost") = "unknown"
    BY <1>1 DEF Outcome, Mutating
  <2> QED  BY <1>r, <2>1 DEF PaymentAnswer, Terminal
<1>4. MovesTo(c, "answered") /\ call'[c].out = out
  <2>1. call' = [call EXCEPT ![c].pc = "answered", ![c].out = out] /\ call[c].pc # "idle"
    BY <1>1, <1>3
  <2> QED  BY <1>0, <2>1, AnsweringCall
<1>5. /\ call' = [d \in Calls |-> call'[d]] /\ WellFormed(call'[c])
      /\ call'[c].pc = "answered" /\ call'[c].req = r /\ call'[c].out = out
      /\ call'[c].obs.height = call[c].obs.height
      /\ \A d \in Calls \ {c} : call'[d] = call[d]
  BY <1>r, <1>4 DEF MovesTo, OthersKept
<1>6. TypeOK'
  BY <1>0, <1>2, <1>5 DEF TypeOK, WellFormed
<1>7. OneHolder'
  BY <1>0, <1>r, <1>1, <1>2, <1>5 DEF OneHolder, Holding
<1>8. DispatchedOnce'
  BY <1>0, <1>2, <1>5 DEF DispatchedOnce
<1>9. AnswerTrue'
  <2>1. out = "failed" => FailedHarmless(r)'
    BY <1>1, <1>2, <1>3 DEF FailedHarmless
  <2>2. \A s \in Requests : FailedHarmless(s)' <=> FailedHarmless(s)
    BY <1>2 DEF FailedHarmless, Mutating
  <2>3. ASSUME NEW d \in Calls
        PROVE  /\ call'[d].pc = "paying" => Method[call'[d].req] = "Send" /\ call'[d].req \in applied'
               /\ call'[d].pc = "answered" /\ call'[d].out = "succeeded" => call'[d].req \in applied'
               /\ call'[d].pc = "answered" /\ call'[d].out = "failed" => FailedHarmless(call[d].req)'
    <3>1. CASE d = c
      BY <1>1, <1>2, <1>5, <2>1, <3>1
    <3>2. CASE d # c
      BY <1>0, <1>2, <1>5, <3>2 DEF AnswerTrue, FailedHarmless
    <3> QED  BY <3>1, <3>2
  <2> QED  BY <1>0, <1>2, <2>2, <2>3 DEF AnswerTrue
<1>10. MarginHeld'
  BY <1>0, <1>1, <1>2, <1>5 DEF MarginHeld, SettledInTime
<1>11. ExposureChecked'
  BY <1>0, <1>1, <1>2, <1>5, ExposureKept DEF Holding
<1> QED  BY <1>6, <1>7, <1>8, <1>9, <1>10, <1>11 DEF AdapterInv

\* The holder of a reservation writes its terminal record: a truth, or a "failed" that the
\* lost append of a success explains.
LEMMA TerminalRecordKeeps ==
    ASSUME AdapterInv, NEW c \in Calls, NEW state \in Terminal, call[c].pc = "answered",
           journal' = [journal EXCEPT ![call[c].req] = state],
           state = call[c].out \/ (state = "failed" /\ call[c].req \in fault'),
           fault \subseteq fault', EndsCall(c),
           UNCHANGED <<progress, invoice, payment, chain, now, sent, applied, overlap>>
    PROVE  AdapterInv'
<1>0. TypeOK /\ OneHolder /\ DispatchedOnce /\ AnswerTrue /\ MarginHeld /\ ExposureChecked
  BY DEF AdapterInv
<1>r. PICK r \in Requests : r = call[c].req
  BY <1>0 DEF TypeOK, WellFormed
<1>1. /\ journal[r] = "dispatching"
      /\ \A d \in Calls \ {c} : call[d].pc \in Holding => call[d].req # r
  BY <1>0, <1>r DEF OneHolder, Holding
<1>2. /\ journal' \in [Requests -> {"none", "dispatching"} \cup Terminal]
      /\ journal'[r] = state
      /\ \A s \in Requests : s # r => journal'[s] = journal[s]
  BY <1>0, <1>r DEF TypeOK
<1>3. /\ call' = [d \in Calls |-> call'[d]]
      /\ WellFormed(call'[c]) /\ call'[c].pc = "idle"
      /\ \A d \in Calls \ {c} : call'[d] = call[d]
  BY IdleWellFormed DEF EndsCall, OthersKept
<1>4. \A d \in Calls : call[d].pc # "idle" => call[d].req \in Requests
  BY <1>0 DEF TypeOK, WellFormed
<1>5. TypeOK'
  BY <1>0, <1>2, <1>3 DEF TypeOK, WellFormed
<1>6. OneHolder'
  BY <1>0, <1>1, <1>2, <1>3, <1>4 DEF OneHolder, Holding
<1>7. DispatchedOnce'
  BY <1>0, <1>1, <1>2, <1>3 DEF DispatchedOnce, Terminal
<1>8. AnswerTrue'
  <2>1. \A s \in Requests : FailedHarmless(s)' <=> FailedHarmless(s)
    BY DEF FailedHarmless, Mutating
  <2>2. /\ state = "succeeded" => r \in applied
        /\ state = "failed" /\ r \notin fault' => FailedHarmless(r)
    BY <1>0, <1>r DEF AnswerTrue
  <2>3. \A s \in Requests : /\ journal'[s] = "succeeded" => s \in applied'
                            /\ journal'[s] = "failed" /\ s \notin fault' => FailedHarmless(s)'
    BY <1>0, <1>2, <2>1, <2>2 DEF AnswerTrue
  <2>4. ASSUME NEW d \in Calls
        PROVE  /\ call'[d].pc = "paying" => Method[call'[d].req] = "Send" /\ call'[d].req \in applied'
               /\ call'[d].pc = "answered" /\ call'[d].out = "succeeded" => call'[d].req \in applied'
               /\ call'[d].pc = "answered" /\ call'[d].out = "failed" => FailedHarmless(call[d].req)'
    BY <1>0, <1>3 DEF AnswerTrue, FailedHarmless
  <2>5. \A h \in Hashes : payment'[h].by # NoRequest => payment'[h].by \in applied'
    BY <1>0 DEF AnswerTrue
  <2> QED  BY <2>3, <2>4, <2>5 DEF AnswerTrue
<1>9. MarginHeld'
  BY <1>0, <1>3 DEF MarginHeld, SettledInTime
<1>10. ExposureChecked'
  BY <1>0, <1>1, <1>2, <1>3, ExposureKept DEF Holding, Terminal
<1> QED  BY <1>5, <1>6, <1>7, <1>8, <1>9, <1>10 DEF AdapterInv

\* Completing a call.
LEMMA CompleteKeeps ==
    ASSUME AdapterInv, NEW c \in Calls, Complete(c)
    PROVE  AdapterInv'
<1>1. TypeOK /\ call[c].pc = "answered" /\ call[c].out \in Terminal
  BY DEF AdapterInv, Complete, TypeOK, WellFormed
<1>2. /\ call' = [call EXCEPT ![c] = Idle]
      /\ journal' = [journal EXCEPT ![call[c].req] = call[c].out]
      /\ UNCHANGED <<progress, invoice, payment, chain, now, sent, applied, overlap, fault>>
  BY DEF Complete, Completes, lndVars, envVars, history
<1>3. EndsCall(c)
  BY <1>1, <1>2, EndingCall
<1> QED  BY <1>1, <1>2, <1>3, TerminalRecordKeeps

\* Losing the terminal append.
LEMMA CompletionLostKeeps ==
    ASSUME AdapterInv, NEW c \in Calls, CompletionLost(c)
    PROVE  AdapterInv'
<1>1. TypeOK /\ call[c].pc = "answered"
  BY DEF AdapterInv, CompletionLost
<1>2. /\ call' = [call EXCEPT ![c] = Idle]
      /\ UNCHANGED <<progress, invoice, payment, chain, now, sent, applied, overlap>>
      /\ fault \subseteq fault' /\ call[c].req \in fault'
      /\ UNCHANGED journal \/ journal' = [journal EXCEPT ![call[c].req] = "failed"]
  BY DEF CompletionLost, Completes, lndVars, envVars
<1>3. EndsCall(c)
  BY <1>1, <1>2, EndingCall
<1>4. CASE UNCHANGED journal
  BY <1>2, <1>3, <1>4, CallEnds
<1>5. CASE journal' = [journal EXCEPT ![call[c].req] = "failed"]
  BY <1>1, <1>2, <1>3, <1>5, TerminalRecordKeeps DEF Terminal
<1> QED  BY <1>2, <1>4, <1>5

-----------------------------------------------------------------------------
(* The process and its environment. *)

\* A step that changes none of the calls, the journal, LND and the chain's height, and moves
\* the record only by an observation of the node.
LEMMA AmbientKeeps ==
    ASSUME AdapterInv,
           UNCHANGED <<journal, call, invoice, payment, sent, applied, fault, overlap>>,
           progress' = progress \/ progress' = Observed(progress, NodeReading),
           chain' \in [height : Nat, branch : Nat], chain'.height = chain.height, now' \in Int
    PROVE  AdapterInv'
<1>0. TypeOK /\ OneHolder /\ DispatchedOnce /\ AnswerTrue /\ MarginHeld /\ ExposureChecked
  BY DEF AdapterInv
<1>1. /\ progress' \in [height : Nat, branch : Nat, advancedAt : Int,
                        initialized : BOOLEAN, conflicted : BOOLEAN]
      /\ progress.height \in Nat /\ progress'.height \in Nat /\ progress'.height >= progress.height
      /\ progress'.initialized => progress'.height > 0
  <2> DEFINE q == Observed(progress, NodeReading)
  <2>1. progress \in [height : Nat, branch : Nat, advancedAt : Int,
                      initialized : BOOLEAN, conflicted : BOOLEAN]
        /\ (progress.initialized => progress.height > 0)
    BY <1>0 DEF TypeOK, ExposureChecked
  <2>2. NodeReading.height \in Nat /\ NodeReading.branch \in Nat /\ NodeReading.at \in Int
    BY <1>0, NodeReadingFields
  <2>3. /\ q \in [height : Nat, branch : Nat, advancedAt : Int,
                  initialized : BOOLEAN, conflicted : BOOLEAN]
        /\ q.height >= progress.height /\ (q.initialized => q.height > 0)
    BY <2>1, <2>2, ObservedGrows
  <2>4. progress' = progress \/ progress' = q
    OBVIOUS
  <2> HIDE DEF q
  <2> QED  BY <2>1, <2>3, <2>4
<1>2. TypeOK'
  BY <1>0, <1>1 DEF TypeOK, WellFormed
<1>3. OneHolder'
  BY <1>0 DEF OneHolder
<1>4. DispatchedOnce'
  BY <1>0 DEF DispatchedOnce
<1>5. AnswerTrue'
  BY <1>0 DEF AnswerTrue, FailedHarmless
<1>6. MarginHeld'
  BY <1>0 DEF MarginHeld, SettledInTime
<1>7. ExposureChecked'
  <2>1. progress.height > 0 => progress'.height > 0
    BY <1>1
  <2>2. ExposureAfterGrowth' /\ (~overlap' => OneExposurePerHash')
    BY <1>0, <2>1 DEF ExposureChecked, ExposureAfterGrowth, OneExposurePerHash, Reserved
  <2> QED  BY <1>0, <1>1, <2>1, <2>2 DEF ExposureChecked
<1> QED  BY <1>2, <1>3, <1>4, <1>5, <1>6, <1>7 DEF AdapterInv

\* A crash ends every call and keeps the journal as it was written.
LEMMA CrashKeeps ==
    ASSUME AdapterInv, Crash
    PROVE  AdapterInv'
<1>0. TypeOK /\ OneHolder /\ DispatchedOnce /\ AnswerTrue /\ MarginHeld /\ ExposureChecked
  BY DEF AdapterInv
<1>1. /\ UNCHANGED <<journal, progress, invoice, payment, chain, now, sent, applied, fault, overlap>>
      /\ call' = [c \in Calls |-> Idle]
  BY DEF Crash, lndVars, envVars, history
<1>2. /\ call' = [c \in Calls |-> call'[c]]
      /\ \A c \in Calls : WellFormed(call'[c]) /\ call'[c].pc = "idle"
  BY <1>1, IdleWellFormed
<1>3. TypeOK'
  BY <1>0, <1>1, <1>2 DEF TypeOK, WellFormed
<1>4. OneHolder'
  BY <1>2 DEF OneHolder, Holding
<1>5. DispatchedOnce'
  BY <1>0, <1>1, <1>2 DEF DispatchedOnce
<1>6. AnswerTrue'
  BY <1>0, <1>1, <1>2 DEF AnswerTrue, FailedHarmless
<1>7. MarginHeld'
  BY <1>0, <1>1, <1>2 DEF MarginHeld, SettledInTime
<1>8. ExposureChecked'
  <2>1. ExposureAfterGrowth' /\ (~overlap' => OneExposurePerHash')
    BY <1>0, <1>1 DEF ExposureChecked, ExposureAfterGrowth, OneExposurePerHash, Reserved
  <2> QED  BY <1>0, <1>1, <1>2, <2>1 DEF ExposureChecked, Checking
<1> QED  BY <1>3, <1>4, <1>5, <1>6, <1>7, <1>8 DEF AdapterInv

\* An HTLC locked to an open invoice fixes its expiry.
LEMMA HtlcAcceptedKeeps ==
    ASSUME AdapterInv, NEW h \in Hashes, HtlcAccepted(h)
    PROVE  AdapterInv'
<1>0. TypeOK /\ OneHolder /\ DispatchedOnce /\ AnswerTrue /\ MarginHeld /\ ExposureChecked
  BY DEF AdapterInv
<1>1. /\ UNCHANGED <<journal, progress, call, payment, chain, now, sent, applied, fault, overlap>>
      /\ invoice[h].state = "OPEN"
  BY DEF HtlcAccepted, journalVars, envVars, history
<1>2. PICK n \in 1..HtlcBlocks :
        invoice' = [invoice EXCEPT ![h].state = "ACCEPTED", ![h].expiry = chain.height + n]
  BY DEF HtlcAccepted
<1>3. /\ invoice' \in [Hashes -> [state : InvoiceStates, sats : Nat, expiry : Nat, settled : Nat]]
      /\ invoice'[h].state = "ACCEPTED"
      /\ \A g \in Hashes : g # h => invoice'[g] = invoice[g]
  <2>1. chain.height + n \in Nat /\ "ACCEPTED" \in InvoiceStates
    BY <1>0, AdapterAssumption DEF TypeOK, InvoiceStates
  <2> DEFINE e == chain.height + n
  <2>2. e \in Nat /\ invoice' = [invoice EXCEPT ![h].state = "ACCEPTED", ![h].expiry = e]
    BY <1>2, <2>1
  <2> HIDE DEF e
  <2> QED  BY <1>0, <2>1, <2>2 DEF TypeOK
<1>4. TypeOK'
  BY <1>0, <1>1, <1>3 DEF TypeOK, WellFormed
<1>5. OneHolder'
  BY <1>0, <1>1 DEF OneHolder
<1>6. DispatchedOnce'
  BY <1>0, <1>1 DEF DispatchedOnce
<1>7. AnswerTrue'
  BY <1>0, <1>1 DEF AnswerTrue, FailedHarmless
<1>8. MarginHeld'
  <2>1. \A c \in Calls : call[c].pc \in {"authorized", "reserved"} /\ Method[call[c].req] = "Settle"
                           => HashOf[call[c].req] # h /\ HashOf[call[c].req] \in Hashes
    BY <1>0, <1>1, AdapterAssumption DEF MarginHeld, TypeOK, WellFormed
  <2> QED  BY <1>0, <1>1, <1>3, <2>1 DEF MarginHeld, SettledInTime
<1>9. ExposureChecked'
  BY <1>0, <1>1 DEF ExposureChecked, ExposureAfterGrowth, OneExposurePerHash, Reserved
<1> QED  BY <1>4, <1>5, <1>6, <1>7, <1>8, <1>9 DEF AdapterInv

\* A payment ends only from in flight: one that a request recorded as failed does not move.
LEMMA PaymentEndsKeeps ==
    ASSUME AdapterInv, NEW h \in Hashes, PaymentEnds(h)
    PROVE  AdapterInv'
<1>0. TypeOK /\ OneHolder /\ DispatchedOnce /\ AnswerTrue /\ MarginHeld /\ ExposureChecked
  BY DEF AdapterInv
<1>1. /\ UNCHANGED <<journal, progress, call, invoice, chain, now, sent, applied, fault, overlap>>
      /\ payment[h].state = "IN_FLIGHT"
  BY DEF PaymentEnds, journalVars, envVars, history
<1>2. PICK s \in {"SUCCEEDED", "FAILED"} : payment' = [payment EXCEPT ![h].state = s]
  BY DEF PaymentEnds
<1>3. /\ payment' \in [Hashes -> [state : PaymentStates, sats : Nat, by : Requests \cup {NoRequest}]]
      /\ payment'[h].by = payment[h].by
      /\ \A g \in Hashes : g # h => payment'[g] = payment[g]
  BY <1>0, <1>2 DEF TypeOK, PaymentStates
<1>4. TypeOK'
  BY <1>0, <1>1, <1>3 DEF TypeOK, WellFormed
<1>5. OneHolder'
  BY <1>0, <1>1 DEF OneHolder
<1>6. DispatchedOnce'
  BY <1>0, <1>1 DEF DispatchedOnce
<1>7. AnswerTrue'
  <2>1. ASSUME NEW r \in Requests, FailedHarmless(r)
        PROVE  FailedHarmless(r)'
    <3>1. HashOf[r] \in Hashes
      BY AdapterAssumption
    <3>2. CASE HashOf[r] = h
      BY <1>1, <1>3, <2>1, <3>2 DEF FailedHarmless, Mutating
    <3>3. CASE HashOf[r] # h
      BY <1>1, <1>3, <2>1, <3>1, <3>3 DEF FailedHarmless, Mutating
    <3> QED  BY <3>2, <3>3
  <2>2. \A c \in Calls : call[c].pc = "answered" => call[c].req \in Requests
    BY <1>0 DEF TypeOK, WellFormed
  <2>3. ASSUME NEW d \in Calls
        PROVE  /\ call'[d].pc = "paying" => Method[call'[d].req] = "Send" /\ call'[d].req \in applied'
               /\ call'[d].pc = "answered" /\ call'[d].out = "succeeded" => call'[d].req \in applied'
    BY <1>0, <1>1 DEF AnswerTrue
  <2>4. ASSUME NEW d \in Calls, call'[d].pc = "answered", call'[d].out = "failed"
        PROVE  FailedHarmless(call[d].req)'
    <3>1. PICK r \in Requests : r = call[d].req
      BY <1>1, <2>2, <2>4
    <3>2. FailedHarmless(r)'
      BY <1>0, <1>1, <2>1, <2>4, <3>1 DEF AnswerTrue
    <3>3. call'[d].req = r
      BY <1>1, <3>1
    <3> QED  BY <3>2, <3>3 DEF FailedHarmless
  <2>5. \A g \in Hashes : payment'[g].by # NoRequest => payment'[g].by \in applied'
    BY <1>0, <1>1, <1>3 DEF AnswerTrue
  <2>6. \A r \in Requests : /\ journal'[r] = "succeeded" => r \in applied'
                            /\ journal'[r] = "failed" /\ r \notin fault' => FailedHarmless(r)'
    BY <1>0, <1>1, <2>1 DEF AnswerTrue
  <2> QED  BY <2>3, <2>4, <2>5, <2>6 DEF AnswerTrue
<1>8. MarginHeld'
  BY <1>0, <1>1 DEF MarginHeld, SettledInTime
<1>9. ExposureChecked'
  BY <1>0, <1>1 DEF ExposureChecked, ExposureAfterGrowth, OneExposurePerHash, Reserved
<1> QED  BY <1>4, <1>5, <1>6, <1>7, <1>8, <1>9 DEF AdapterInv

\* A block arrives only within the margin of every call in progress.
LEMMA MineKeeps ==
    ASSUME AdapterInv, Mine
    PROVE  AdapterInv'
<1>0. TypeOK /\ OneHolder /\ DispatchedOnce /\ AnswerTrue /\ MarginHeld /\ ExposureChecked
  BY DEF AdapterInv
<1>1. /\ UNCHANGED <<journal, progress, call, invoice, payment, now, sent, applied, fault, overlap>>
      /\ chain' = [chain EXCEPT !.height = @ + 1]
      /\ \A c \in Calls : call[c].pc # "idle" => chain.height < call[c].obs.height + SafetyBlocks
  BY DEF Mine, journalVars, lndVars, history
<1>2. chain \in [height : Nat, branch : Nat] /\ chain.height \in Nat
  BY <1>0 DEF TypeOK
<1>3. chain' \in [height : Nat, branch : Nat] /\ chain'.height = chain.height + 1
  BY <1>1, <1>2
<1>4. TypeOK'
  BY <1>0, <1>1, <1>3 DEF TypeOK, WellFormed
<1>5. OneHolder'
  BY <1>0, <1>1 DEF OneHolder
<1>6. DispatchedOnce'
  BY <1>0, <1>1 DEF DispatchedOnce
<1>7. AnswerTrue'
  BY <1>0, <1>1 DEF AnswerTrue, FailedHarmless
<1>8. MarginHeld'
  <2>1. \A c \in Calls : call[c].obs.height \in Nat
    BY <1>0 DEF TypeOK, WellFormed
  <2>2. \A c \in Calls : call[c].pc # "idle" => chain'.height <= call[c].obs.height + SafetyBlocks
    BY <1>1, <1>2, <1>3, <2>1, AdapterAssumption
  <2> QED  BY <1>0, <1>1, <2>2 DEF MarginHeld, SettledInTime
<1>9. ExposureChecked'
  BY <1>0, <1>1 DEF ExposureChecked, ExposureAfterGrowth, OneExposurePerHash, Reserved
<1> QED  BY <1>4, <1>5, <1>6, <1>7, <1>8, <1>9 DEF AdapterInv

-----------------------------------------------------------------------------
(* The theorems. *)

\* The process starts in a state of the invariant.
LEMMA AdapterInit ==
    ASSUME Init
    PROVE  AdapterInv
<1>1. /\ call = [c \in Calls |-> call[c]]
      /\ \A c \in Calls : WellFormed(call[c]) /\ call[c].pc = "idle"
  BY IdleWellFormed DEF Init
<1>2. TypeOK
  <2>1. NoInvoice \in [state : InvoiceStates, sats : Nat, expiry : Nat, settled : Nat]
        /\ NoPayment \in [state : PaymentStates, sats : Nat, by : Requests \cup {NoRequest}]
    BY DEF NoInvoice, NoPayment, InvoiceStates, PaymentStates
  <2>2. progress \in [height : Nat, branch : Nat, advancedAt : Int,
                      initialized : BOOLEAN, conflicted : BOOLEAN]
    BY DEF Init
  <2> QED  BY <1>1, <2>1, <2>2 DEF Init, TypeOK
<1>3. OneHolder
  BY <1>1 DEF OneHolder, Holding
<1>4. DispatchedOnce
  BY <1>1 DEF DispatchedOnce, Init
<1>5. AnswerTrue
  BY <1>1 DEF AnswerTrue, Init, NoPayment
<1>6. MarginHeld
  BY <1>1 DEF MarginHeld, SettledInTime, Init, NoInvoice
<1>7. ExposureChecked
  BY <1>1 DEF ExposureChecked, ExposureAfterGrowth, OneExposurePerHash, Reserved, Checking, Init
<1> QED  BY <1>2, <1>3, <1>4, <1>5, <1>6, <1>7 DEF AdapterInv

\* Every step keeps the invariant, one action at a time.
LEMMA AdapterNext ==
    ASSUME AdapterInv, [Next]_vars
    PROVE  AdapterInv'
<1>0. TypeOK
  BY DEF AdapterInv
<1>t. chain \in [height : Nat, branch : Nat] /\ now \in Int
  BY <1>0 DEF TypeOK
<1>1. ASSUME NEW c \in Calls, CallStep(c)
      PROVE  AdapterInv'
  BY <1>1, ReceiveKeeps, RecordProgressKeeps, AuthorizeKeeps, ReserveRequestKeeps,
     DispatchKeeps, PaymentAnswerKeeps, CompleteKeeps, CompletionLostKeeps DEF CallStep
<1>2. CASE ObserveCapacity \/ Start
  BY <1>t, <1>2, AmbientKeeps DEF ObserveCapacity, Start, journalVars, lndVars, envVars, history
<1>3. CASE Reorganize
  <2>1. chain' \in [height : Nat, branch : Nat] /\ chain'.height = chain.height
    BY <1>t, <1>3 DEF Reorganize
  <2> QED  BY <1>t, <1>3, <2>1, AmbientKeeps DEF Reorganize, journalVars, lndVars
<1>4. CASE Tick \/ SetClockBack
  <2>1. now' \in Int
    BY <1>t, <1>4 DEF Tick, SetClockBack
  <2> QED  BY <1>t, <1>4, <2>1, AmbientKeeps DEF Tick, SetClockBack, journalVars, lndVars, history
<1>5. CASE UNCHANGED vars
  BY <1>t, <1>5, AmbientKeeps DEF vars, journalVars, lndVars, envVars, history
<1> QED  BY <1>1, <1>2, <1>3, <1>4, <1>5, CrashKeeps, HtlcAcceptedKeeps, PaymentEndsKeeps, MineKeeps
            DEF Next

\* The inductive invariant holds in every reachable state of the adapter process.
THEOREM AdapterInvariant == Spec => []AdapterInv
BY AdapterInit, AdapterNext, PTL DEF Spec

\* A request is dispatched to LND at most once, whatever calls overlap and whatever crashes,
\* and the journal's terminal records are true of LND (execute, LightningActionJournal).
THEOREM AdapterJournalTruthful == Spec => []JournalTruthful
<1>1. AdapterInv => JournalTruthful
  BY DEF AdapterInv, DispatchedOnce, AnswerTrue, FailedHarmless, JournalTruthful
<1> QED  BY <1>1, AdapterInvariant, PTL

\* An invoice is settled before its HTLC can expire, for every safety margin the policy sets.
THEOREM AdapterSettledInTime == Spec => []SettledInTime
<1>1. AdapterInv => SettledInTime
  BY DEF AdapterInv, MarginHeld
<1> QED  BY <1>1, AdapterInvariant, PTL

-----------------------------------------------------------------------------
(* The daily limit. *)

\* The reservations that count against the limit of a day.
Counted(d) == {r \in Reserved : Exposure(r) /\ day[r] = d}

\* While calls do not overlap every day is within the limit, with what the call that was
\* authorized is about to reserve.
DailyHeld ==
    /\ DOMAIN day = Requests
    /\ ~overlap =>
        /\ \A d : DailyValue(d) <= MaxDailyValueSats
        /\ \A c \in Calls : \A d :
             call[c].pc = "authorized" /\ Exposure(call[c].req) /\ d = Day(call[c].obs.at) =>
               DailyValue(d) + Amount[call[c].req] <= MaxDailyValueSats

\* A set of reservations has an integer total, and one more adds its amount.
LEMMA CountedAmounts ==
    /\ \A d : /\ IsFiniteSet(Counted(d)) /\ Counted(d) \subseteq Requests
             /\ DailyValue(d) = Total(Amount, Counted(d)) /\ DailyValue(d) \in Int
    /\ \A r \in Requests : Amount[r] \in Int
<1>1. \A r \in Requests : Amount[r] \in Int
  BY AdapterAssumption
<1>2. ASSUME NEW d
      PROVE  /\ IsFiniteSet(Counted(d)) /\ Counted(d) \subseteq Requests
             /\ DailyValue(d) = Total(Amount, Counted(d)) /\ DailyValue(d) \in Int
  <2>1. Counted(d) \subseteq Requests
    BY DEF Counted, Reserved
  <2>2. IsFiniteSet(Counted(d))
    BY <2>1, AdapterAssumption, FS_Subset
  <2>3. DailyValue(d) = Total(Amount, Counted(d))
    BY DEF DailyValue, Counted
  <2> QED  BY <1>1, <2>1, <2>2, <2>3, TotalInt
<1> QED  BY <1>1, <1>2

\* A step that reserves nothing and authorizes no call.
Quiet ==
    /\ overlap => overlap'
    /\ UNCHANGED day
    /\ \A r \in Requests : journal'[r] = "none" <=> journal[r] = "none"
    /\ \A c \in Calls : call'[c].pc = "authorized" => call'[c] = call[c]

\* Such a step keeps the daily limit.
LEMMA DailyStands ==
    ASSUME DailyHeld, Quiet
    PROVE  DailyHeld'
<1> USE DEF Quiet
<1>1. ASSUME NEW d PROVE DailyValue(d)' = DailyValue(d)
  <2>1. Counted(d)' = Counted(d)
    BY DEF Counted, Reserved
  <2> QED  BY <2>1 DEF DailyValue, Counted
<1> SUFFICES ASSUME ~overlap'
             PROVE  /\ \A d : DailyValue(d)' <= MaxDailyValueSats
                    /\ \A c \in Calls : \A d :
                         call'[c].pc = "authorized" /\ Exposure(call'[c].req) /\ d = Day(call'[c].obs.at) =>
                           DailyValue(d)' + Amount[call'[c].req] <= MaxDailyValueSats
  BY DEF DailyHeld
<1>2. \A d : DailyValue(d)' <= MaxDailyValueSats
  BY <1>1 DEF DailyHeld
<1>3. ASSUME NEW c \in Calls, NEW d, call'[c].pc = "authorized", Exposure(call'[c].req), d = Day(call'[c].obs.at)
      PROVE  DailyValue(d)' + Amount[call'[c].req] <= MaxDailyValueSats
  <2>1. DailyValue(d) + Amount[call[c].req] <= MaxDailyValueSats
    BY <1>3 DEF DailyHeld
  <2> QED  BY <1>1, <1>3, <2>1
<1> QED  BY <1>2, <1>3

\* A step of call c that leaves it elsewhere than at its reservation.
LEMMA CallElsewhere ==
    ASSUME TypeOK, NEW c \in Calls, NEW pc, NEW v, pc # "authorized",
           \/ call' = [call EXCEPT ![c].pc = pc]
           \/ call' = [call EXCEPT ![c].pc = pc, ![c].obs = v]
           \/ call' = [call EXCEPT ![c].pc = pc, ![c].out = v]
    PROVE  call'[c].pc # "authorized" /\ \A d \in Calls \ {c} : call'[d] = call[d]
<1>1. call[c] = [pc |-> call[c].pc, req |-> call[c].req, obs |-> call[c].obs, out |-> call[c].out]
  BY DEF TypeOK, WellFormed
<1>2. \A d \in Calls \ {c} : call'[d] = call[d]
  BY DEF TypeOK
<1>3. \/ call'[c] = [call[c] EXCEPT !.pc = pc]
      \/ call'[c] = [call[c] EXCEPT !.pc = pc, !.obs = v]
      \/ call'[c] = [call[c] EXCEPT !.pc = pc, !.out = v]
  BY DEF TypeOK
<1>4. call'[c].pc = pc
  BY <1>1, <1>3
<1> QED  BY <1>2, <1>4

\* Authorizing adds the amount to the usage of the day on which the call began.
LEMMA DailyAuthorized ==
    ASSUME AdapterInv, DailyHeld, NEW c \in Calls, Authorize(c)
    PROVE  DailyHeld'
<1>0. TypeOK
  BY DEF AdapterInv
<1>1. UNCHANGED <<journal, day, overlap>>
  BY DEF Authorize, journalVars, history
<1> DEFINE t == call[c].obs.at
<1>2. CASE call' = [call EXCEPT ![c] = Idle]
  <2>1. EndsCall(c)
    BY <1>0, <1>2, EndingCall
  <2> QED  BY <1>1, <2>1, DailyStands, IdleWellFormed DEF EndsCall, OthersKept, Quiet
<1>3. CASE /\ call' = [call EXCEPT ![c].pc = "authorized", ![c].obs = KeptReading(call[c].obs.height, t)]
           /\ Authorized(call[c].req, call[c].obs)
  <2>1. call[c] = [pc |-> call[c].pc, req |-> call[c].req, obs |-> call[c].obs, out |-> call[c].out]
    BY <1>0 DEF TypeOK, WellFormed
  <2>2. /\ call'[c].pc = "authorized" /\ call'[c].req = call[c].req /\ call'[c].obs.at = t
        /\ \A d \in Calls \ {c} : call'[d] = call[d]
    BY <1>0, <1>3, <2>1 DEF TypeOK, KeptReading
  <2>3. ASSUME NEW d PROVE DailyValue(d)' = DailyValue(d)
    BY <1>1 DEF DailyValue, Reserved
  <2>4. Exposure(call[c].req) => DailyValue(Day(t)) + Amount[call[c].req] <= MaxDailyValueSats
    BY <1>3 DEF Authorized
  <2> HIDE DEF t
  <2>5. ASSUME NEW e \in Calls, NEW d, ~overlap, call'[e].pc = "authorized", Exposure(call'[e].req),
               d = Day(call'[e].obs.at)
        PROVE  DailyValue(d)' + Amount[call'[e].req] <= MaxDailyValueSats
    <3>1. CASE e = c
      BY <2>2, <2>3, <2>4, <2>5, <3>1
    <3>2. CASE e # c
      <4>1. call'[e] = call[e]
        BY <2>2, <3>2
      <4>2. DailyValue(d) + Amount[call[e].req] <= MaxDailyValueSats
        BY <2>5, <4>1 DEF DailyHeld
      <4> QED  BY <2>3, <4>1, <4>2
    <3> QED  BY <3>1, <3>2
  <2>6. ASSUME NEW d, ~overlap PROVE DailyValue(d)' <= MaxDailyValueSats
    BY <2>3, <2>6 DEF DailyHeld
  <2> QED  BY <1>1, <2>5, <2>6 DEF DailyHeld
<1> QED  BY <1>2, <1>3 DEF Authorize

\* Reserving adds what was authorized, and while calls do not overlap no other call is
\* authorized against the same day.
LEMMA DailyReserved ==
    ASSUME AdapterInv, DailyHeld, NEW c \in Calls, ReserveRequest(c)
    PROVE  DailyHeld'
<1> DEFINE r == call[c].req
           d == Day(call[c].obs.at)
<1>0. TypeOK /\ ExposureChecked
  BY DEF AdapterInv
<1>1. call[c].pc = "authorized" /\ r \in Requests /\ UNCHANGED overlap
  BY <1>0 DEF ReserveRequest, TypeOK, WellFormed, history
<1>2. CASE call' = [call EXCEPT ![c] = Idle] /\ UNCHANGED <<journal, day>>
  <2>1. EndsCall(c)
    BY <1>0, <1>2, EndingCall
  <2> QED  BY <1>1, <1>2, <2>1, DailyStands, IdleWellFormed DEF EndsCall, OthersKept, Quiet
<1>3. CASE /\ journal[r] = "none"
           /\ journal' = [journal EXCEPT ![r] = "dispatching"]
           /\ day' = [day EXCEPT ![r] = d]
           /\ call' = [call EXCEPT ![c].pc = "reserved", ![c].obs = KeptReading(call[c].obs.height, 0)]
  <2>1. call'[c].pc # "authorized" /\ \A e \in Calls \ {c} : call'[e] = call[e]
    BY <1>0, <1>3, CallElsewhere
  <2>2. /\ journal'[r] = "dispatching" /\ day'[r] = d
        /\ \A s \in Requests : s # r => journal'[s] = journal[s] /\ day'[s] = day[s]
    <3>1. journal \in [Requests -> {"none", "dispatching"} \cup Terminal]
      BY <1>0 DEF TypeOK
    <3>2. DOMAIN day = Requests
      BY DEF DailyHeld
    <3> HIDE DEF r, d
    <3> QED  BY <1>1, <1>3, <3>1, <3>2
  <2>d. DOMAIN day' = Requests
    BY <1>3 DEF DailyHeld
  <2> SUFFICES ASSUME ~overlap
               PROVE  /\ \A e : DailyValue(e)' <= MaxDailyValueSats
                      /\ \A e \in Calls : call'[e].pc # "authorized"
    BY <1>1, <2>d DEF DailyHeld
  <2>3. \A e \in Calls : call'[e].pc # "authorized"
    BY <1>0, <1>1, <2>1 DEF ExposureChecked
  <2>4. r \notin Counted(d) /\ \A e : r \notin Counted(e)
    BY <1>3 DEF Counted, Reserved
  <2>5. Exposure(r) => DailyValue(d) + Amount[r] <= MaxDailyValueSats
    <3>1. ASSUME NEW e, e = Day(call[c].obs.at), Exposure(call[c].req)
          PROVE  DailyValue(e) + Amount[call[c].req] <= MaxDailyValueSats
      BY <1>1, <3>1 DEF DailyHeld
    <3> QED  BY <3>1
  <2> HIDE DEF d, r
  <2>6. ASSUME NEW e PROVE DailyValue(e)' <= MaxDailyValueSats
    <3>1. CASE e = d /\ Exposure(r)
      <4>1. Counted(e)' = Counted(e) \cup {r}
        BY <1>1, <2>2, <3>1 DEF Counted, Reserved
      <4>2. Total(Amount, Counted(e) \cup {r}) = Total(Amount, Counted(e)) + Amount[r]
        BY <1>1, <2>4, CountedAmounts, TotalWith
      <4>3. DailyValue(e)' = Total(Amount, Counted(e)')
        BY DEF DailyValue, Counted
      <4> QED  BY <2>5, <3>1, <4>1, <4>2, <4>3, CountedAmounts
    <3>2. CASE ~(e = d /\ Exposure(r))
      <4>1. Counted(e)' = Counted(e)
        BY <1>1, <2>2, <2>4, <3>2 DEF Counted, Reserved
      <4>2. DailyValue(e)' = DailyValue(e)
        BY <4>1 DEF DailyValue, Counted
      <4> QED  BY <4>2 DEF DailyHeld
    <3> QED  BY <3>1, <3>2
  <2> QED  BY <2>3, <2>6
<1> QED  BY <1>2, <1>3 DEF ReserveRequest, CanReserve

\* Every other step than these two is quiet.
LEMMA QuietNext ==
    ASSUME AdapterInv, [Next]_vars
    PROVE  Quiet \/ \E c \in Calls : Authorize(c) \/ ReserveRequest(c)
<1>0. TypeOK
  BY DEF AdapterInv
<1>1. ASSUME NEW c \in Calls, NEW r \in Requests, Receive(c, r) PROVE Quiet
  <2>1. /\ call'[c].pc = "observed" /\ \A d \in Calls \ {c} : call'[d] = call[d]
        /\ (overlap => overlap') /\ UNCHANGED <<journal, day>>
    BY <1>0, <1>1 DEF Receive, TypeOK, journalVars
  <2>2. \A d \in Calls : call'[d].pc = "authorized" => call'[d] = call[d]
    BY <2>1
  <2> QED  BY <2>1, <2>2 DEF Quiet
<1>2. ASSUME NEW c \in Calls, RecordProgress(c) PROVE Quiet
  <2>1. /\ call' = [call EXCEPT ![c].pc = "validating", ![c].obs = ServiceView(call[c].obs, progress')]
        /\ UNCHANGED <<overlap, journal, day>>
    BY <1>2 DEF RecordProgress, journalVars
  <2>2. call'[c].pc # "authorized" /\ \A d \in Calls \ {c} : call'[d] = call[d]
    BY <1>0, <2>1, CallElsewhere
  <2> QED  BY <2>1, <2>2 DEF Quiet
<1>3. ASSUME NEW c \in Calls, Dispatch(c) \/ PaymentAnswer(c) PROVE Quiet
  <2>1. \/ call' = [call EXCEPT ![c].pc = "paying"]
        \/ \E out : call' = [call EXCEPT ![c].pc = "answered", ![c].out = out]
    BY <1>3 DEF Dispatch, PaymentAnswer
  <2>2. UNCHANGED <<overlap, journal, day>>
    BY <1>3 DEF Dispatch, PaymentAnswer, journalVars, history
  <2>3. call'[c].pc # "authorized" /\ \A d \in Calls \ {c} : call'[d] = call[d]
    BY <1>0, <2>1, CallElsewhere
  <2> QED  BY <2>2, <2>3 DEF Quiet
<1>4. ASSUME NEW c \in Calls, Complete(c) \/ CompletionLost(c) PROVE Quiet
  <2>1. call[c].pc = "answered" /\ call[c].out \in Terminal /\ call[c].req \in Requests
    BY <1>0, <1>4 DEF Complete, CompletionLost, TypeOK, WellFormed
  <2>2. /\ call' = [call EXCEPT ![c] = Idle] /\ UNCHANGED <<overlap, day>>
        /\ \/ UNCHANGED journal
           \/ \E out \in Terminal : /\ journal[call[c].req] = "dispatching"
                                   /\ journal' = [journal EXCEPT ![call[c].req] = out]
    BY <1>4, <2>1 DEF Complete, CompletionLost, Completes, Terminal, history
  <2>3. \A r \in Requests : journal'[r] = "none" <=> journal[r] = "none"
    BY <1>0, <2>1, <2>2 DEF TypeOK, Terminal
  <2>4. EndsCall(c)
    BY <1>0, <2>2, EndingCall
  <2> QED  BY <2>2, <2>3, <2>4, IdleWellFormed DEF EndsCall, OthersKept, Quiet
<1>5. CASE Crash
  <2>1. \A c \in Calls : call'[c].pc = "idle"
    BY <1>5, IdleWellFormed DEF Crash
  <2> QED  BY <1>5, <2>1 DEF Crash, history, Quiet
<1>6. CASE UNCHANGED <<journal, day, call, overlap>>
  BY <1>6 DEF Quiet
<1>7. ASSUME ObserveCapacity \/ Start \/ Mine \/ Reorganize \/ Tick \/ SetClockBack \/ UNCHANGED vars
      PROVE  UNCHANGED <<journal, day, call, overlap>>
  BY <1>7 DEF ObserveCapacity, Start, Mine, Reorganize, Tick, SetClockBack, vars, journalVars, history
<1>8. ASSUME NEW h \in Hashes, HtlcAccepted(h) \/ PaymentEnds(h)
      PROVE  UNCHANGED <<journal, day, call, overlap>>
  BY <1>8 DEF HtlcAccepted, PaymentEnds, journalVars, history
<1> QED  BY <1>1, <1>2, <1>3, <1>4, <1>5, <1>6, <1>7, <1>8
            DEF Next, CallStep

\* Every step keeps the daily limit.
LEMMA DailyNext ==
    ASSUME AdapterInv, DailyHeld, [Next]_vars
    PROVE  DailyHeld'
  BY QuietNext, DailyStands, DailyAuthorized, DailyReserved

-----------------------------------------------------------------------------
(* The daily limit, when calls overlap. *)

\* What each call is about to reserve against the limit of a day.
Pending(d) ==
    [c \in Calls |-> IF call[c].pc = "authorized" /\ Exposure(call[c].req) /\ Day(call[c].obs.at) = d
                     THEN Amount[call[c].req] ELSE 0]

\* One payment for each call but the last.
Excess == (Cardinality(Calls) - 1) * MaxPaymentSats

\* A day's reservations and what is about to join them stay within the limit and the excess.
OverlapHeld ==
    /\ DOMAIN day = Requests
    /\ \A c \in Calls : call[c].pc = "authorized" /\ Exposure(call[c].req) =>
                          Amount[call[c].req] <= MaxPaymentSats
    /\ \A d : DailyValue(d) + Total(Pending(d), Calls) <= MaxDailyValueSats + Excess

LEMMA ExcessNat == Excess \in Nat /\ Cardinality(Calls) \in Nat /\ Cardinality(Calls) >= 1
<1>1. Cardinality(Calls) \in Nat /\ Cardinality(Calls) # 0
  BY AdapterAssumption, FS_CardinalityType, FS_EmptySet
<1>2. \A n, k \in Nat : n # 0 => (n - 1) * k \in Nat
  <2>1. \A n \in Nat : n # 0 => n - 1 \in Nat
    OBVIOUS
  <2>2. \A n, k \in Nat : n * k \in Nat
    OBVIOUS
  <2> QED  BY <2>1, <2>2
<1> QED  BY <1>1, <1>2, AdapterAssumption DEF Excess

\* What is pending is an amount or nothing, and never more than one payment a call.
LEMMA PendingAmounts ==
    ASSUME TypeOK, OverlapHeld
    PROVE  \A d : /\ \A c \in Calls : Pending(d)[c] \in Nat /\ Pending(d)[c] <= MaxPaymentSats
                  /\ Total(Pending(d), Calls) \in Nat
<1>1. ASSUME NEW d, NEW c \in Calls PROVE Pending(d)[c] \in Nat /\ Pending(d)[c] <= MaxPaymentSats
  <2>1. call[c].pc = "authorized" => call[c].req \in Requests
    BY DEF TypeOK, WellFormed
  <2> QED  BY <2>1, AdapterAssumption DEF Pending, OverlapHeld
<1> QED  BY <1>1, AdapterAssumption, TotalNat

\* A quiet step leaves no more pending than there was.
LEMMA OverlapStands ==
    ASSUME TypeOK, OverlapHeld, Quiet
    PROVE  OverlapHeld'
<1> USE DEF Quiet
<1>1. ASSUME NEW d PROVE DailyValue(d)' = DailyValue(d)
  <2>1. Counted(d)' = Counted(d)
    BY DEF Counted, Reserved
  <2> QED  BY <2>1 DEF DailyValue, Counted
<1>2. ASSUME NEW d PROVE Total(Pending(d)', Calls) <= Total(Pending(d), Calls) /\ Total(Pending(d)', Calls) \in Int
  <2> DEFINE after == Pending(d)'
  <2>1. ASSUME NEW c \in Calls PROVE Pending(d)[c] \in Int /\ after[c] \in Int /\ after[c] <= Pending(d)[c]
    <3>1. after[c] = 0 \/ after[c] = Pending(d)[c]
      BY DEF Pending
    <3> HIDE DEF after
    <3> QED  BY <3>1, PendingAmounts
  <2> HIDE DEF after
  <2>2. Total(after, Calls) <= Total(Pending(d), Calls) /\ Total(after, Calls) \in Int
    BY <2>1, AdapterAssumption, TotalMonotone, TotalInt
  <2> QED  BY <2>2 DEF after
<1>3. ASSUME NEW d PROVE DailyValue(d)' + Total(Pending(d)', Calls) <= MaxDailyValueSats + Excess
  <2>1. DailyValue(d) + Total(Pending(d), Calls) <= MaxDailyValueSats + Excess
    BY DEF OverlapHeld
  <2>2. /\ DailyValue(d) \in Int /\ Total(Pending(d), Calls) \in Int
        /\ MaxDailyValueSats \in Int /\ Excess \in Int
    BY CountedAmounts, PendingAmounts, ExcessNat, AdapterAssumption
  <2> QED  BY <1>1, <1>2, <2>1, <2>2
<1> QED  BY <1>3 DEF OverlapHeld, Excess

\* What the other calls have pending is within the excess.
LEMMA OthersPending ==
    ASSUME NEW c \in Calls, NEW pending,
           \A e \in Calls : pending[e] \in Nat /\ pending[e] <= MaxPaymentSats
    PROVE  Total(pending, Calls) \in Int /\ Total(pending, Calls) <= pending[c] + Excess
<1> DEFINE others == Calls \ {c}
<1>1. IsFiniteSet(others) /\ Cardinality(others) = Cardinality(Calls) - 1
  BY AdapterAssumption, FS_Subset, FS_RemoveElement
<1>2. Total(pending, others) <= Cardinality(others) * MaxPaymentSats /\ Total(pending, others) \in Int
  BY <1>1, AdapterAssumption, TotalMost, TotalInt
<1>3. Total(pending, Calls) = pending[c] + Total(pending, others)
  BY AdapterAssumption, TotalAdds
<1> HIDE DEF others
<1>4. Cardinality(others) * MaxPaymentSats = Excess
  BY <1>1 DEF Excess
<1> QED  BY <1>2, <1>3, <1>4, ExcessNat

\* A call is authorized against the reservations there are: only what the others have
\* pending was left out.
LEMMA OverlapAuthorized ==
    ASSUME AdapterInv, OverlapHeld, NEW c \in Calls, Authorize(c)
    PROVE  OverlapHeld'
<1>0. TypeOK
  BY DEF AdapterInv
<1>1. UNCHANGED <<journal, day, overlap>>
  BY DEF Authorize, journalVars, history
<1> DEFINE t == call[c].obs.at
<1>2. CASE call' = [call EXCEPT ![c] = Idle]
  <2>1. EndsCall(c)
    BY <1>0, <1>2, EndingCall
  <2> QED  BY <1>0, <1>1, <2>1, OverlapStands, IdleWellFormed DEF EndsCall, OthersKept, Quiet
<1>3. CASE /\ call' = [call EXCEPT ![c].pc = "authorized", ![c].obs = KeptReading(call[c].obs.height, t)]
           /\ Authorized(call[c].req, call[c].obs)
  <2>1. call[c] = [pc |-> call[c].pc, req |-> call[c].req, obs |-> call[c].obs, out |-> call[c].out]
    BY <1>0 DEF TypeOK, WellFormed
  <2>2. /\ call'[c].pc = "authorized" /\ call'[c].req = call[c].req /\ call'[c].obs.at = t
        /\ \A d \in Calls \ {c} : call'[d] = call[d]
    BY <1>0, <1>3, <2>1 DEF TypeOK, KeptReading
  <2>3. ASSUME NEW d PROVE DailyValue(d)' = DailyValue(d)
    BY <1>1 DEF DailyValue, Reserved
  <2>4. Exposure(call[c].req) => /\ DailyValue(Day(t)) + Amount[call[c].req] <= MaxDailyValueSats
                                 /\ Amount[call[c].req] <= MaxPaymentSats
    BY <1>3 DEF Authorized
  <2>5. call[c].pc = "validating"
    BY DEF Authorize
  <2>6. call[c].req \in Requests
    BY <1>0, <2>5 DEF TypeOK, WellFormed
  <2> HIDE DEF t
  <2>7. ASSUME NEW e \in Calls, call'[e].pc = "authorized", Exposure(call'[e].req)
        PROVE  Amount[call'[e].req] <= MaxPaymentSats
    BY <2>2, <2>4, <2>7 DEF OverlapHeld
  <2>8. ASSUME NEW d PROVE DailyValue(d)' + Total(Pending(d)', Calls) <= MaxDailyValueSats + Excess
    <3> DEFINE after == Pending(d)'
    <3>1. \A e \in Calls \ {c} : after[e] = Pending(d)[e]
      BY <2>2 DEF Pending
    <3>2. /\ Exposure(call[c].req) /\ Day(t) = d => after[c] = Amount[call[c].req]
          /\ ~(Exposure(call[c].req) /\ Day(t) = d) => after[c] = 0
      BY <2>2 DEF Pending
    <3>3. \A e \in Calls : Pending(d)[e] \in Nat /\ Pending(d)[e] <= MaxPaymentSats
      BY <1>0, PendingAmounts
    <3> HIDE DEF after
    <3>4. \A e \in Calls : after[e] \in Nat /\ after[e] <= MaxPaymentSats
      BY <2>4, <2>6, <3>1, <3>2, <3>3, AdapterAssumption
    <3>5. DailyValue(d) \in Int /\ MaxDailyValueSats \in Int /\ Excess \in Int
      BY CountedAmounts, ExcessNat, AdapterAssumption
    <3>6. CASE Exposure(call[c].req) /\ Day(t) = d
      <4>1. Total(after, Calls) \in Int /\ Total(after, Calls) <= after[c] + Excess
        BY <3>4, OthersPending
      <4>2. DailyValue(d) + after[c] <= MaxDailyValueSats
        BY <2>4, <3>2, <3>6
      <4>3. after[c] \in Nat
        BY <3>4
      <4>4. DailyValue(d) + Total(after, Calls) <= MaxDailyValueSats + Excess
        BY <3>5, <4>1, <4>2, <4>3
      <4> QED  BY <2>3, <4>4 DEF after
    <3>7. CASE ~(Exposure(call[c].req) /\ Day(t) = d)
      <4>1. \A e \in Calls : Pending(d)[e] \in Int /\ after[e] \in Int /\ after[e] <= Pending(d)[e]
        BY <3>1, <3>2, <3>3, <3>4, <3>7
      <4>2. Total(after, Calls) <= Total(Pending(d), Calls) /\ Total(after, Calls) \in Int
        BY <4>1, AdapterAssumption, TotalMonotone, TotalInt
      <4>3. DailyValue(d) + Total(Pending(d), Calls) <= MaxDailyValueSats + Excess
        BY DEF OverlapHeld
      <4>4. Total(Pending(d), Calls) \in Int
        BY <1>0, PendingAmounts
      <4>5. DailyValue(d) + Total(after, Calls) <= MaxDailyValueSats + Excess
        BY <3>5, <4>2, <4>3, <4>4
      <4> QED  BY <2>3, <4>5 DEF after
    <3> QED  BY <3>6, <3>7
  <2>9. DOMAIN day' = Requests
    BY <1>1 DEF OverlapHeld
  <2> QED  BY <2>7, <2>8, <2>9 DEF OverlapHeld, Excess
<1> QED  BY <1>2, <1>3 DEF Authorize

\* Reserving moves what the call had pending to the reservations of its day.
LEMMA OverlapReserved ==
    ASSUME AdapterInv, OverlapHeld, NEW c \in Calls, ReserveRequest(c)
    PROVE  OverlapHeld'
<1> DEFINE r == call[c].req
           d == Day(call[c].obs.at)
<1>0. TypeOK
  BY DEF AdapterInv
<1>1. call[c].pc = "authorized" /\ r \in Requests /\ UNCHANGED overlap
  BY <1>0 DEF ReserveRequest, TypeOK, WellFormed, history
<1>2. CASE call' = [call EXCEPT ![c] = Idle] /\ UNCHANGED <<journal, day>>
  <2>1. EndsCall(c)
    BY <1>0, <1>2, EndingCall
  <2> QED  BY <1>0, <1>1, <1>2, <2>1, OverlapStands, IdleWellFormed DEF EndsCall, OthersKept, Quiet
<1>3. CASE /\ journal[r] = "none"
           /\ journal' = [journal EXCEPT ![r] = "dispatching"]
           /\ day' = [day EXCEPT ![r] = d]
           /\ call' = [call EXCEPT ![c].pc = "reserved", ![c].obs = KeptReading(call[c].obs.height, 0)]
  <2>1. call'[c].pc # "authorized" /\ \A e \in Calls \ {c} : call'[e] = call[e]
    BY <1>0, <1>3, CallElsewhere
  <2>2. /\ journal'[r] = "dispatching" /\ day'[r] = d
        /\ \A s \in Requests : s # r => journal'[s] = journal[s] /\ day'[s] = day[s]
    <3>1. journal \in [Requests -> {"none", "dispatching"} \cup Terminal]
      BY <1>0 DEF TypeOK
    <3>2. DOMAIN day = Requests
      BY DEF OverlapHeld
    <3> HIDE DEF r, d
    <3> QED  BY <1>1, <1>3, <3>1, <3>2
  <2>3. DOMAIN day' = Requests
    BY <1>3 DEF OverlapHeld
  <2>4. \A e : r \notin Counted(e)
    BY <1>3 DEF Counted, Reserved
  <2>5. \A e \in Calls : call'[e].pc = "authorized" /\ Exposure(call'[e].req) => Amount[call'[e].req] <= MaxPaymentSats
    BY <2>1 DEF OverlapHeld
  <2>6. ASSUME NEW e PROVE DailyValue(e)' + Total(Pending(e)', Calls) <= MaxDailyValueSats + Excess
    <3> DEFINE after == Pending(e)'
               counts == e = d /\ Exposure(r)
    <3>1. after[c] = 0 /\ \A f \in Calls \ {c} : after[f] = Pending(e)[f]
      BY <2>1 DEF Pending
    <3>2. Pending(e)[c] = IF counts THEN Amount[r] ELSE 0
      BY <1>1 DEF Pending
    <3> HIDE DEF after, r, d
    <3>3. /\ DailyValue(e) \in Int /\ Amount[r] \in Nat /\ MaxDailyValueSats \in Int /\ Excess \in Int
          /\ Total(Pending(e), Calls) \in Int
      BY <1>0, <1>1, CountedAmounts, PendingAmounts, ExcessNat, AdapterAssumption
    <3>4. Total(after, Calls) = Total(Pending(e), Calls) - Pending(e)[c]
      <4> DEFINE others == Calls \ {c}
      <4>1. IsFiniteSet(others) /\ others \subseteq Calls
        BY AdapterAssumption, FS_Subset
      <4>2. \A f \in Calls : Pending(e)[f] \in Int /\ after[f] \in Int
        BY <1>0, <3>1, PendingAmounts
      <4>3. /\ Total(after, Calls) = after[c] + Total(after, others)
            /\ Total(Pending(e), Calls) = Pending(e)[c] + Total(Pending(e), others)
        BY <4>2, AdapterAssumption, TotalAdds
      <4>4. Total(after, others) = Total(Pending(e), others) /\ Total(after, others) \in Int
        BY <3>1, <4>1, <4>2, TotalSame, TotalInt
      <4> QED  BY <3>1, <4>2, <4>3, <4>4
    <3>5. DailyValue(e)' = DailyValue(e) + Pending(e)[c]
      <4>1. CASE counts
        <5>1. Counted(e)' = Counted(e) \cup {r}
          BY <1>1, <2>2, <4>1 DEF Counted, Reserved
        <5>2. Total(Amount, Counted(e) \cup {r}) = Total(Amount, Counted(e)) + Amount[r]
          BY <1>1, <2>4, CountedAmounts, TotalWith
        <5>3. DailyValue(e)' = Total(Amount, Counted(e)')
          BY DEF DailyValue, Counted
        <5> QED  BY <3>2, <4>1, <5>1, <5>2, <5>3, CountedAmounts
      <4>2. CASE ~counts
        <5>1. Counted(e)' = Counted(e)
          BY <1>1, <2>2, <2>4, <4>2 DEF Counted, Reserved
        <5>2. DailyValue(e)' = DailyValue(e)
          BY <5>1 DEF DailyValue, Counted
        <5> QED  BY <3>2, <3>3, <4>2, <5>2
      <4> QED  BY <4>1, <4>2
    <3>6. DailyValue(e) + Total(Pending(e), Calls) <= MaxDailyValueSats + Excess
      BY DEF OverlapHeld
    <3>7. Pending(e)[c] \in Int
      BY <3>2, <3>3
    <3>8. DailyValue(e)' + Total(after, Calls) <= MaxDailyValueSats + Excess
      BY <3>3, <3>4, <3>5, <3>6, <3>7
    <3> QED  BY <3>8 DEF after
  <2> HIDE DEF r, d
  <2> QED  BY <2>3, <2>5, <2>6 DEF OverlapHeld, Excess
<1> QED  BY <1>2, <1>3 DEF ReserveRequest, CanReserve

\* Every step keeps a day's reservations, with what is pending, within limit and excess.
LEMMA OverlapNext ==
    ASSUME AdapterInv, OverlapHeld, [Next]_vars
    PROVE  OverlapHeld'
  BY QuietNext, OverlapStands, OverlapAuthorized, OverlapReserved DEF AdapterInv

\* No exposure is reserved before the chain was seen to grow.  As long as calls do not
\* overlap, whatever crashes in between, a payment hash is exposed by one request only and
\* the reservations of every day add up to no more than the daily limit; calls that overlap
\* exceed it by at most one payment for each call but the last (execute checks both before
\* it awaits the reservation, and the reservation checks neither again).
THEOREM AdapterExposureLimited == Spec => []ExposureLimited
<1>1. Init => DailyHeld /\ OverlapHeld
  <2> SUFFICES ASSUME Init PROVE DailyHeld /\ OverlapHeld
    OBVIOUS
  <2>1. ASSUME NEW d PROVE DailyValue(d) = 0
    <3>1. {r \in Reserved : Exposure(r) /\ day[r] = d} = {}
      BY DEF Init, Reserved
    <3> QED  BY <3>1, TotalEmpty DEF DailyValue
  <2>2. \A c \in Calls : call[c].pc = "idle"
    BY IdleWellFormed DEF Init
  <2>3. DOMAIN day = Requests
    BY DEF Init
  <2>4. ASSUME NEW d PROVE Total(Pending(d), Calls) = 0
    BY <2>2, AdapterAssumption, TotalZero DEF Pending
  <2>5. MaxDailyValueSats >= 0 /\ MaxDailyValueSats \in Int
    BY AdapterAssumption
  <2>6. \A d : DailyValue(d) + Total(Pending(d), Calls) <= MaxDailyValueSats + Excess
    BY <2>1, <2>4, <2>5, ExcessNat
  <2>7. DailyHeld
    BY <2>1, <2>2, <2>3, <2>5 DEF DailyHeld
  <2> QED  BY <2>2, <2>3, <2>6, <2>7 DEF OverlapHeld
<1>2. AdapterInv /\ DailyHeld /\ OverlapHeld /\ [Next]_vars => DailyHeld' /\ OverlapHeld'
  BY DailyNext, OverlapNext
<1>3. AdapterInv /\ DailyHeld /\ OverlapHeld => ExposureLimited
  <2> SUFFICES ASSUME AdapterInv, DailyHeld, OverlapHeld PROVE ExposureLimited
    OBVIOUS
  <2>1. ASSUME NEW d PROVE DailyValue(d) <= MaxDailyValueSats + (Cardinality(Calls) - 1) * MaxPaymentSats
    <3>1. DailyValue(d) + Total(Pending(d), Calls) <= MaxDailyValueSats + Excess
      BY DEF OverlapHeld
    <3>2. DailyValue(d) \in Int /\ Total(Pending(d), Calls) \in Nat
      BY CountedAmounts, PendingAmounts DEF AdapterInv
    <3>3. DailyValue(d) <= MaxDailyValueSats + Excess
      BY <3>1, <3>2, ExcessNat, AdapterAssumption
    <3> QED  BY <3>3 DEF Excess
  <2> QED  BY <2>1 DEF AdapterInv, ExposureChecked, DailyHeld, ExposureLimited
<1> QED  BY <1>1, <1>2, <1>3, AdapterInvariant, PTL DEF Spec

=================================================================================
