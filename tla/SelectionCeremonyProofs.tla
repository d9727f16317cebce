------------------------ MODULE SelectionCeremonyProofs ------------------------
(***************************************************************************)
(* Proofs about the quote intake, the selected solver's services and the   *)
(* coordinator's ceremony, for any number of requests and calls in flight: *)
(* a signed request is collected once for each quota window of its         *)
(* authorization (CollectedPerWindow), both sides agree on one response    *)
(* (AgreedResponse), and a terminal record stays terminal                  *)
(* (TerminalRecords).                                                      *)
(***************************************************************************)
EXTENDS SelectionCeremony, FiniteSetTheorems, TLAPS

Phases == {"idle", "sent", "resolving", "material", "building", "waiting", "resolved", "answered"}
Statuses == {0, 200, 400, 425, 503}
Kinds == {None, "finalize", "sign", "material", "orphan"}

\* A response is the epoch of its lease, a signature is named by its request, 0 is none.
Values == Nat \cup Requests

Call == [phase : Phases, kind : Kinds, of : Requests \cup {None}, expiresAt : Int, epoch : Nat,
         status : Statuses, response : Values, until : Int]
Exchange == [state : {"NONE", "CLAIMED", "READY"}, expiresAt : Int, claimedAt : Int, epoch : Nat,
                leaseExpiresAt : Int, response : Values, responseExpiresAt : Int]
Attempt == [expiresAt : Int, call : MaterialCalls \cup {None}, result : BOOLEAN]
Row == [state : {"NONE", "CLAIMED", "READY", "SELECTED"}, expiresAt : Int, claimedAt : Nat]
Record == [state : {"none", "selected", "reserved", "finalizing", "finalized", "authorized", "failed"},
           expiresAt : Int, attemptExpiresAt : Int, response : Values, until : Int, intentExpiresAt : Int]
Firm == [state : {"NONE", "ACTIVE", "CLOSED"}, expiresAt : Int, authorizedUntil : Int, bound : Values,
         settled : Values, intent : BOOLEAN]
Signing == [expiresAt : Int, call : Calls \cup {None}, until : Int]

IntakeType ==
  /\ now \in Nat
  /\ rows \in [Requests -> Row]
  /\ sessions = [q \in Requests |-> sessions[q]] /\ \A q \in Requests : sessions[q].expiresAt \in Int
  /\ collected \in [Requests -> Nat]

SolverType ==
  /\ calls \in [Calls -> Call] /\ materialCalls \in [MaterialCalls -> Call]
  /\ finalizations \in [Requests -> Exchange] /\ materials \in [Requests -> Exchange]
  /\ signings \in [Requests -> Exchange]
  /\ attempts \in [Requests -> Attempt]
  /\ answered \in [Requests -> SUBSET Values]

CeremonyType ==
  /\ records \in [Requests -> Record] /\ firm \in [Requests -> Firm]
  /\ pending \in [Requests -> Calls \cup {None}]
  /\ signing \in [Requests -> Signing]

-------------------------------------------------------------------------------
(* The invariant. *)

Finalizes(c, q) == calls[c].kind = "finalize" /\ calls[c].of = q
Signs(c, q) == calls[c].kind = "sign" /\ calls[c].of = q

\* What a call to the solver's endpoint is and knows.
CallKnows(c) ==
  LET call == calls[c] IN
  /\ call.phase = "idle" <=> call.kind = None
  /\ call.kind # None => call.kind \in {"finalize", "sign"} /\ call.of \in Requests
  /\ call.phase \in {"resolving", "material", "building"} => call.kind = "finalize"
  /\ call.kind = "finalize" /\ call.phase = "building" => call.of \in invoices
  /\ call.kind = "finalize" /\ call.phase = "answered" /\ call.status = 200 =>
       call.response \in answered[call.of] /\ call.of \in invoices

CallsKnow == \A c \in Calls : CallKnows(c)

\* Who awaits which call.
Awaited(q) ==
  /\ pending[q] # None => Finalizes(pending[q], q)
  /\ signing[q].call # None => Signs(signing[q].call, q)

\* The material that an attempt, a call or a row stands for is on the node.
MaterialKnown ==
  /\ \A q \in Requests :
       /\ attempts[q].result => q \in invoices
       /\ materials[q].state = "READY" => q \in invoices
       /\ attempts[q].call # None => /\ materialCalls[attempts[q].call].phase # "idle"
                                     /\ materialCalls[attempts[q].call].of = q
  /\ \A m \in MaterialCalls :
       LET call == materialCalls[m] IN
       /\ call.phase # "idle" => call.of \in Requests
       /\ call.phase = "resolved" \/ (call.phase = "answered" /\ call.status = 200) => call.of \in invoices

\* A request has one finalization packet: its calls, the record that repeats it and the
\* provider's row have one expiry.
PacketOf(q) ==
  \E expiry \in Int :
    /\ \A c \in Calls : Finalizes(c, q) => calls[c].expiresAt = expiry
    /\ finalizations[q].state # "NONE" => finalizations[q].expiresAt = expiry
    /\ records[q].state = "finalizing" => records[q].attemptExpiresAt = expiry
OnePacket == \A q \in Requests : PacketOf(q)

\* The packet is signed once, for the reserved record of the first firm offer.
Untouched(q) == finalizations[q].state = "NONE" /\ \A c \in Calls : ~Finalizes(c, q)
PacketOnce(q) ==
  /\ firm[q].state = "NONE" \/ records[q].state = "reserved" => Untouched(q)
  /\ records[q].state \in {"reserved", "finalizing"} => firm[q].state # "NONE"

\* What was answered is what the row holds.
AnsweredIsReady ==
  \A q \in Requests :
    /\ finalizations[q].state = "READY" =>
         /\ answered[q] = {finalizations[q].response} /\ finalizations[q].response # 0
         /\ q \in invoices
    /\ finalizations[q].state # "READY" => answered[q] = {}
    /\ finalizations[q].state = "CLAIMED" => finalizations[q].epoch # 0

\* The firm offer binds what was answered; record, signing and settlement follow it.
FirmFollows(q) ==
  /\ firm[q].bound # 0 => firm[q].bound \in answered[q] /\ q \in invoices
  /\ firm[q].settled # 0 => firm[q].settled = firm[q].bound
  /\ records[q].state \in {"finalized", "authorized"} =>
       records[q].response = firm[q].bound /\ firm[q].bound # 0
  /\ records[q].state = "authorized" => records[q].response = firm[q].settled
  /\ records[q].intentExpiresAt # 0 => firm[q].settled # 0
  /\ signings[q].state # "NONE" => firm[q].settled # 0
  /\ \A c \in Calls : Signs(c, q) => firm[q].settled # 0

\* A live record is of a session that was taken, and a call is pending for no other record
\* than the one that sent it.
RecordTaken(q) ==
  /\ pending[q] # None => records[q].state \in {"none", "selected", "finalizing"}
  /\ records[q].expiresAt > now =>
       rows[q].state = "SELECTED" /\ records[q].expiresAt <= rows[q].expiresAt
  /\ sessions[q].expiresAt > now =>
       rows[q].state # "NONE" /\ rows[q].expiresAt = sessions[q].expiresAt

\* What the services know of themselves, and what holds of a request between them and the
\* coordinator.
LocalInv == SolverType /\ CallsKnow /\ MaterialKnown /\ AnsweredIsReady
Agreed(q) == Awaited(q) /\ PacketOf(q) /\ PacketOnce(q) /\ FirmFollows(q)

CeremonyInv ==
  /\ IntakeType /\ CeremonyType /\ LocalInv
  /\ \A q \in Requests : Agreed(q) /\ RecordTaken(q)

\* How long n quota windows last.
Span(n) == n * QuotaWindow

\* A request of n claims stays consumed: its row remembers the last claim, or was forgotten a
\* whole window later, and the claims before it took n - 1 windows; or its authorization has
\* ended.
Consumed ==
  \A q \in Requests :
    collected[q] # 0 =>
      /\ Span(collected[q] - 1) < MaximumAuthorizationTtl
      /\ \/ now >= AuthorizationExpiry[q]
         \/ /\ rows[q].state # "NONE"
            /\ AuthorizationExpiry[q] + Span(collected[q] - 1) <= rows[q].claimedAt + MaximumAuthorizationTtl
         \/ AuthorizationExpiry[q] + Span(collected[q]) <= now + MaximumAuthorizationTtl

-------------------------------------------------------------------------------
(* Records of calls and exchanges. *)

\* A call keeps its type when one field is replaced: one lemma per field.
LEMMA SetPhase == ASSUME NEW x \in Call, NEW p \in Phases PROVE [x EXCEPT !.phase = p] \in Call
  BY DEF Call
LEMMA SetStatus == ASSUME NEW x \in Call, NEW s \in Statuses PROVE [x EXCEPT !.status = s] \in Call
  BY DEF Call
LEMMA SetKind == ASSUME NEW x \in Call, NEW k \in Kinds PROVE [x EXCEPT !.kind = k] \in Call
  BY DEF Call
LEMMA SetOf == ASSUME NEW x \in Call, NEW q \in Requests PROVE [x EXCEPT !.of = q] \in Call
  BY DEF Call
LEMMA SetExpiry == ASSUME NEW x \in Call, NEW t \in Int PROVE [x EXCEPT !.expiresAt = t] \in Call
  BY DEF Call
LEMMA SetEpoch == ASSUME NEW x \in Call, NEW n \in Nat PROVE [x EXCEPT !.epoch = n] \in Call
  BY DEF Call
LEMMA SetResponse == ASSUME NEW x \in Call, NEW n \in Values PROVE [x EXCEPT !.response = n] \in Call
  BY DEF Call
LEMMA SetUntil == ASSUME NEW x \in Call, NEW t \in Int PROVE [x EXCEPT !.until = t] \in Call
  BY DEF Call

\* What stays of a call through the services: what it is about.
Same(x, y) == x.kind = y.kind /\ x.of = y.of /\ x.expiresAt = y.expiresAt

\* Answers.
LEMMA AnswerFacts ==
  ASSUME NEW x \in Call, NEW s \in Statuses
  PROVE  /\ Answer(x, s) \in Call /\ Same(Answer(x, s), x)
         /\ Answer(x, s).phase = "answered" /\ Answer(x, s).status = s
<1>1. PICK y \in Call : y = [x EXCEPT !.phase = "answered"]
  BY SetPhase DEF Phases
<1>2. y.phase = "answered" /\ Same(y, x)
  BY <1>1 DEF Call, Same
<1>3. Answer(x, s) = [y EXCEPT !.status = s]
  BY <1>1 DEF Answer
<1>4. Answer(x, s) \in Call
  BY <1>3, SetStatus
<1> QED BY <1>2, <1>3, <1>4 DEF Call, Same

LEMMA AnswerWithFacts ==
  ASSUME NEW x \in Call, NEW row, row.response \in Values, row.responseExpiresAt \in Int
  PROVE  /\ AnswerWith(x, row) \in Call /\ Same(AnswerWith(x, row), x)
         /\ AnswerWith(x, row).phase = "answered" /\ AnswerWith(x, row).status = 200
         /\ AnswerWith(x, row).response = row.response
<1>1. PICK y \in Call : y = Answer(x, 200)
  BY AnswerFacts DEF Statuses
<1>2. y.phase = "answered" /\ y.status = 200 /\ Same(y, x)
  BY <1>1, AnswerFacts DEF Statuses
<1>3. PICK z \in Call : z = [y EXCEPT !.response = row.response]
  BY SetResponse
<1>4. z.phase = "answered" /\ z.status = 200 /\ Same(z, x) /\ z.response = row.response
  BY <1>2, <1>3 DEF Call, Same
<1>5. AnswerWith(x, row) = [z EXCEPT !.until = row.responseExpiresAt]
  BY <1>1, <1>3 DEF AnswerWith
<1>6. AnswerWith(x, row) \in Call
  BY <1>5, SetUntil
<1> QED BY <1>4, <1>5, <1>6 DEF Call, Same

\* A row keeps its type.
LEMMA NoExchangeType == NoExchange \in Exchange
  BY DEF NoExchange, Exchange, Values
LEMMA LiveRowType == ASSUME NEW row \in Exchange PROVE LiveRow(row) \in Exchange
  BY NoExchangeType DEF LiveRow

\* The refusal of a claim; one that carries a response repeats the row's.
LEMMA RejectionFacts ==
  ASSUME NEW x \in Call, NEW row, row.response \in Values, row.responseExpiresAt \in Int
  PROVE  /\ Rejection(x, row) \in Call /\ Same(Rejection(x, row), x)
         /\ Rejection(x, row).phase = "answered"
         /\ Rejection(x, row).status = 200 =>
              row.state = "READY" /\ Rejection(x, row).response = row.response
<1>1. CASE ClaimStatus(row) = "READY"
  <2>1. row.state = "READY"
    BY <1>1 DEF ClaimStatus
  <2>2. Rejection(x, row) = AnswerWith(x, row)
    BY <1>1 DEF Rejection
  <2> QED BY <2>1, <2>2, AnswerWithFacts
<1>2. CASE ClaimStatus(row) = "PENDING"
  <2>1. Rejection(x, row) = Answer(x, 425)
    BY <1>2 DEF Rejection
  <2> QED BY <2>1, AnswerFacts DEF Statuses
<1>3. CASE ClaimStatus(row) \notin {"READY", "PENDING"}
  <2>1. Rejection(x, row) = Answer(x, 400)
    BY <1>3 DEF Rejection
  <2> QED BY <2>1, AnswerFacts DEF Statuses
<1> QED BY <1>1, <1>2, <1>3

\* A lease is of a row that is not ready, and keeps the expiry of a claimed one.
LEMMA LeasedFacts ==
  ASSUME NEW row \in Exchange, NEW t \in Int, now \in Nat, SolverAssumption
  PROVE  /\ Leased(row, t) \in Exchange /\ Leased(row, t).epoch # 0
         /\ Leased(row, t).state = IF row.state = "NONE" THEN "CLAIMED" ELSE row.state
         /\ Leased(row, t).expiresAt = IF row.state = "NONE" THEN t ELSE row.expiresAt
<1> DEFINE base == IF row.state = "NONE"
                   THEN [NoExchange EXCEPT !.state = "CLAIMED", !.expiresAt = t, !.claimedAt = now] ELSE row
<1>1. /\ base \in Exchange
      /\ base.state = IF row.state = "NONE" THEN "CLAIMED" ELSE row.state
      /\ base.expiresAt = IF row.state = "NONE" THEN t ELSE row.expiresAt
  <2>1. PICK u \in Exchange : u = [NoExchange EXCEPT !.state = "CLAIMED"]
    <3>1. PICK e \in Exchange : e = NoExchange
      BY NoExchangeType
    <3> QED BY <3>1 DEF Exchange
  <2>2. PICK v \in Exchange : v = [u EXCEPT !.expiresAt = t]
    BY DEF Exchange
  <2>3. PICK w \in Exchange : w = [v EXCEPT !.claimedAt = now]
    <3>1. now \in Int
      OBVIOUS
    <3> QED BY <3>1 DEF Exchange
  <2>4. u.state = "CLAIMED"
    BY <2>1 DEF NoExchange
  <2>5. w.state = "CLAIMED" /\ w.expiresAt = t
    BY <2>2, <2>3, <2>4 DEF Exchange
  <2>6. w = [NoExchange EXCEPT !.state = "CLAIMED", !.expiresAt = t, !.claimedAt = now]
    BY <2>1, <2>2, <2>3
  <2> QED BY <2>5, <2>6
<1>2. PICK y \in Exchange : y = base
  BY <1>1
<1>3. PICK z \in Exchange : z = [y EXCEPT !.epoch = y.epoch + 1]
  <2>1. y.epoch + 1 \in Nat
    BY DEF Exchange
  <2>2. PICK n \in Nat : n = y.epoch + 1
    BY <2>1
  <2>3. [y EXCEPT !.epoch = n] \in Exchange
    BY DEF Exchange
  <2> QED BY <2>2, <2>3
<1>4. z.epoch # 0 /\ z.state = y.state /\ z.expiresAt = y.expiresAt
  BY <1>3 DEF Exchange
<1>5. PICK lease \in Int : lease = Least(t, now + LeaseSeconds)
  BY DEF Least, SolverAssumption
<1>6. Leased(row, t) = [z EXCEPT !.leaseExpiresAt = lease]
  BY <1>2, <1>3, <1>5 DEF Leased
<1>7. Leased(row, t) \in Exchange
  BY <1>6 DEF Exchange
<1>8. /\ Leased(row, t).epoch = z.epoch /\ Leased(row, t).state = z.state
      /\ Leased(row, t).expiresAt = z.expiresAt
  BY <1>6 DEF Exchange
<1> QED BY <1>1, <1>2, <1>4, <1>7, <1>8

LEMMA CompletedFacts ==
  ASSUME NEW row \in Exchange, NEW response \in Values, NEW t \in Int
  PROVE  /\ Completed(row, response, t) \in Exchange /\ Completed(row, response, t).state = "READY"
         /\ Completed(row, response, t).response = response
         /\ Completed(row, response, t).responseExpiresAt = t
         /\ Completed(row, response, t).expiresAt = row.expiresAt
<1>1. PICK y \in Exchange : y = [row EXCEPT !.state = "READY"]
  BY DEF Exchange
<1>2. PICK z \in Exchange : z = [y EXCEPT !.response = response]
  BY DEF Exchange
<1>3. Completed(row, response, t) = [z EXCEPT !.responseExpiresAt = t]
  BY <1>1, <1>2 DEF Completed
<1>4. Completed(row, response, t) \in Exchange
  BY <1>3 DEF Exchange
<1>5. y.state = "READY" /\ y.expiresAt = row.expiresAt
  BY <1>1 DEF Exchange
<1>6. z.state = "READY" /\ z.expiresAt = row.expiresAt /\ z.response = response
  BY <1>2, <1>5 DEF Exchange
<1> QED BY <1>3, <1>4, <1>6 DEF Exchange

-------------------------------------------------------------------------------
(* The solver's services: what a step may do. *)

\* No step of the services takes anything back: calls keep what they are about, what is
\* answered or on the node stays so, and a row is written for a call that asks for it.
Grows == invoices \subseteq invoices' /\ \A q \in Requests : answered[q] \subseteq answered'[q]
CallsKept ==
  \A c \in Calls : Same(calls'[c], calls[c]) /\ (calls'[c].phase = "idle" <=> calls[c].phase = "idle")
RowsKept ==
  \A q \in Requests : finalizations'[q].state # "NONE" =>
    \/ finalizations[q].state # "NONE" /\ finalizations'[q].expiresAt = finalizations[q].expiresAt
    \/ \E c \in Calls : Finalizes(c, q) /\ finalizations'[q].expiresAt = calls[c].expiresAt
SigningsKept ==
  \A q \in Requests : signings'[q].state # "NONE" =>
    signings[q].state # "NONE" \/ \E c \in Calls : Signs(c, q)
ServicesKeep == Grows /\ CallsKept /\ RowsKept /\ SigningsKept

\* A call that a step of the services moves on.
Moved(c) ==
  /\ calls'[c] \in Call /\ Same(calls'[c], calls[c])
  /\ calls[c].phase # "idle" /\ calls'[c].phase # "idle"
  /\ calls'[c].phase \in {"resolving", "material", "building"} => calls[c].kind = "finalize"
  /\ calls[c].kind = "finalize" /\ calls'[c].phase = "building" => calls[c].of \in invoices
  /\ calls[c].kind = "finalize" /\ calls'[c].phase = "answered" /\ calls'[c].status = 200 =>
       calls'[c].response \in answered'[calls[c].of] /\ calls[c].of \in invoices

\* Calls that stay or move on keep their type and their knowledge.
LEMMA CallsMove ==
  ASSUME SolverType, CallsKnow, Grows,
         calls' = [c \in Calls |-> calls'[c]],
         \A c \in Calls : calls'[c] = calls[c] \/ Moved(c)
  PROVE  calls' \in [Calls -> Call] /\ CallsKept /\ CallsKnow'
<1>1. \A c \in Calls : calls'[c] \in Call
  BY DEF Moved, SolverType
<1>2. calls' \in [Calls -> Call]
  BY <1>1
<1>3. CallsKept
  BY DEF CallsKept, Moved, Same
<1>4. ASSUME NEW c \in Calls PROVE CallKnows(c)'
  <2>1. CallKnows(c)
    BY DEF CallsKnow
  <2>2. CASE calls'[c] = calls[c]
    BY <2>1, <2>2 DEF CallKnows, Grows
  <2>3. CASE Moved(c)
    BY <2>1, <2>3 DEF CallKnows, Moved, Same, Grows
  <2> QED BY <2>2, <2>3
<1> QED BY <1>2, <1>3, <1>4 DEF CallsKnow

\* One call moves on.
LEMMA CallMoves ==
  ASSUME SolverType, CallsKnow, Grows,
         NEW d \in Calls, NEW v \in Call, calls' = [calls EXCEPT ![d] = v], Same(v, calls[d]),
         calls[d].phase # "idle", v.phase # "idle",
         v.phase \in {"resolving", "material", "building"} => calls[d].kind = "finalize",
         calls[d].kind = "finalize" /\ v.phase = "building" => calls[d].of \in invoices,
         calls[d].kind = "finalize" /\ v.phase = "answered" /\ v.status = 200 =>
           v.response \in answered'[calls[d].of] /\ calls[d].of \in invoices
  PROVE  calls' \in [Calls -> Call] /\ CallsKept /\ CallsKnow'
<1>1. calls'[d] = v /\ \A c \in Calls : c # d => calls'[c] = calls[c]
  BY DEF SolverType
<1>2. Moved(d)
  BY <1>1 DEF Moved
<1>3. calls' = [c \in Calls |-> calls'[c]]
  BY DEF SolverType
<1>4. \A c \in Calls : calls'[c] = calls[c] \/ Moved(c)
  BY <1>1, <1>2
<1> QED BY <1>3, <1>4, CallsMove

\* A call is answered without a response.
LEMMA CallRefused ==
  ASSUME SolverType, CallsKnow, Grows,
         NEW d \in Calls, NEW s \in Statuses \ {200}, calls' = [calls EXCEPT ![d] = Answer(calls[d], s)],
         calls[d].phase # "idle"
  PROVE  calls' \in [Calls -> Call] /\ CallsKept /\ CallsKnow'
<1>1. calls[d] \in Call
  BY DEF SolverType
<1>2. PICK v \in Call : v = Answer(calls[d], s)
  BY <1>1, AnswerFacts
<1>3. v.phase = "answered" /\ v.status = s /\ Same(v, calls[d])
  BY <1>1, <1>2, AnswerFacts
<1> QED BY <1>2, <1>3, CallMoves

\* No call moves.
LEMMA CallsStay ==
  ASSUME SolverType, CallsKnow, Grows, UNCHANGED calls
  PROVE  calls' \in [Calls -> Call] /\ CallsKept /\ CallsKnow'
<1>1. calls' = [c \in Calls |-> calls'[c]] /\ \A c \in Calls : calls'[c] = calls[c]
  BY DEF SolverType
<1> QED BY <1>1, CallsMove

\* The rows, and the answers given out of them, stay.
LEMMA RowsStay ==
  ASSUME AnsweredIsReady, invoices \subseteq invoices', UNCHANGED <<finalizations, answered>>
  PROVE  AnsweredIsReady' /\ RowsKept /\ Grows
  BY DEF AnsweredIsReady, RowsKept, Grows

\* What an endpoint knows of the material service outlasts a step that leaves it alone.
LEMMA MaterialStays ==
  ASSUME MaterialKnown, invoices \subseteq invoices', UNCHANGED <<attempts, materialCalls, materials>>
  PROVE  MaterialKnown'
  BY DEF MaterialKnown

LEMMA GivesUpKeeps ==
  ASSUME LocalInv, NEW c \in Calls, FinalizationGivesUp(c)
  PROVE  LocalInv' /\ ServicesKeep
<1>1. /\ calls' = [calls EXCEPT ![c] = Answer(calls[c], 503)] /\ calls[c].phase # "idle"
      /\ UNCHANGED <<finalizations, signings, attempts, materialCalls, materials, resolution, invoices, answered>>
  BY DEF FinalizationGivesUp, materialVars, LocalInv, SolverType
<1>2. AnsweredIsReady' /\ RowsKept /\ Grows
  BY <1>1, RowsStay DEF LocalInv
<1>3. calls' \in [Calls -> Call] /\ CallsKept /\ CallsKnow'
  <2>1. PICK s \in Statuses \ {200} : s = 503
    BY DEF Statuses
  <2>2. calls' = [calls EXCEPT ![c] = Answer(calls[c], s)]
    BY <1>1, <2>1
  <2> QED BY <1>1, <1>2, <2>2, CallRefused DEF LocalInv
<1>4. MaterialKnown'
  BY <1>1, MaterialStays DEF LocalInv
<1>5. SolverType'
  BY <1>1, <1>3 DEF LocalInv, SolverType
<1>6. SigningsKept
  BY <1>1 DEF SigningsKept
<1> QED BY <1>2, <1>3, <1>4, <1>5, <1>6 DEF LocalInv, ServicesKeep

\* A finalization is claimed, repeated or refused.  Its row has not expired while the packet has
\* not: both have one expiry.
LEMMA FinalizationArrivesKeeps ==
  ASSUME LocalInv, OnePacket, now \in Nat, SolverAssumption, NEW c \in Calls, FinalizationArrives(c)
  PROVE  LocalInv' /\ ServicesKeep
<1> DEFINE call == calls[c]
           row == LiveRow(finalizations[call.of])
<1>1. /\ call.phase = "sent" /\ call.kind = "finalize"
      /\ UNCHANGED <<signings, attempts, materialCalls, materials, resolution, invoices, answered>>
  BY DEF FinalizationArrives, Sent, materialVars
<1>2. call \in Call /\ call.expiresAt \in Int
  BY DEF LocalInv, SolverType, Call
<1>3. PICK q \in Requests : q = call.of
  BY <1>1 DEF LocalInv, CallsKnow, CallKnows, None
<1>4. finalizations[q] \in Exchange
  BY DEF LocalInv, SolverType
<1>5. Finalizes(c, q)
  BY <1>1, <1>3 DEF Finalizes
<1>6. Grows
  BY <1>1 DEF Grows
<1>7. MaterialKnown' /\ SigningsKept
  BY <1>1, MaterialStays DEF LocalInv, SigningsKept
<1>8. finalizations[q].state # "NONE" => finalizations[q].expiresAt = call.expiresAt
  BY <1>5 DEF OnePacket, PacketOf
<1>9. CASE call.expiresAt <= now
  <2>1. calls' = [calls EXCEPT ![c] = Answer(call, 400)] /\ UNCHANGED finalizations
    BY <1>9 DEF FinalizationArrives
  <2>2. PICK s \in Statuses \ {200} : s = 400
    BY DEF Statuses
  <2>3. calls' = [calls EXCEPT ![c] = Answer(calls[c], s)]
    BY <2>1, <2>2
  <2>4. calls' \in [Calls -> Call] /\ CallsKept /\ CallsKnow'
    BY <1>1, <1>6, <2>3, CallRefused DEF LocalInv
  <2>5. AnsweredIsReady' /\ RowsKept
    BY <1>1, <2>1, RowsStay DEF LocalInv
  <2>6. SolverType'
    BY <1>1, <2>1, <2>4 DEF LocalInv, SolverType
  <2> QED BY <1>6, <1>7, <2>4, <2>5, <2>6 DEF LocalInv, ServicesKeep
<1>10. CASE ~(call.expiresAt <= now) /\ ClaimStatus(row) = "LEASE"
  <2>1. PICK leased : leased = Leased(row, call.expiresAt)
    OBVIOUS
  <2>2. /\ finalizations' = [finalizations EXCEPT ![q] = leased]
        /\ calls' = [calls EXCEPT ![c].phase = "resolving", ![c].epoch = leased.epoch]
    BY <1>3, <1>10, <2>1 DEF FinalizationArrives
  <2>3. PICK r \in Exchange : r = row
    BY <1>3, <1>4, LiveRowType
  <2>4. /\ leased \in Exchange /\ leased.epoch # 0
        /\ leased.state = IF r.state = "NONE" THEN "CLAIMED" ELSE r.state
        /\ leased.expiresAt = IF r.state = "NONE" THEN call.expiresAt ELSE r.expiresAt
    BY <1>2, <2>1, <2>3, LeasedFacts
  <2>5. /\ finalizations[q].state # "NONE" => r = finalizations[q]
        /\ finalizations[q].state = "NONE" => r.state = "NONE"
    BY <1>3, <1>8, <1>10, <2>3 DEF LiveRow, NoExchange
  <2>6. r.state # "READY"
    <3>1. r.responseExpiresAt \in Int
      BY DEF Exchange
    <3>2. r.responseExpiresAt > now \/ r.responseExpiresAt <= now
      BY <3>1
    <3> QED BY <1>10, <2>3, <3>2 DEF ClaimStatus
  <2>7. leased.state = "CLAIMED" /\ leased.expiresAt = call.expiresAt /\ finalizations[q].state # "READY"
    BY <1>4, <1>8, <2>3, <2>4, <2>5, <2>6 DEF Exchange
  <2>8. AnsweredIsReady' /\ RowsKept
    <3>1. finalizations'[q] = leased /\ \A p \in Requests : p # q => finalizations'[p] = finalizations[p]
      BY <2>2 DEF LocalInv, SolverType
    <3>2. AnsweredIsReady'
      BY <1>1, <2>4, <2>7, <3>1 DEF LocalInv, AnsweredIsReady
    <3>3. RowsKept
      BY <1>5, <2>7, <3>1 DEF RowsKept
    <3> QED BY <3>2, <3>3
  <2>9. calls' \in [Calls -> Call] /\ CallsKept /\ CallsKnow'
    <3>1. PICK u \in Call : u = [call EXCEPT !.phase = "resolving"]
      BY <1>2, SetPhase DEF Phases
    <3>2. leased.epoch \in Nat
      BY <2>4 DEF Exchange
    <3>3. PICK v \in Call : v = [u EXCEPT !.epoch = leased.epoch]
      BY <3>2, SetEpoch
    <3>4. v.phase = "resolving" /\ Same(v, calls[c])
      BY <1>2, <3>1, <3>3 DEF Call, Same
    <3>5. calls' = [calls EXCEPT ![c] = v]
      BY <2>2, <3>1, <3>3 DEF LocalInv, SolverType
    <3> QED BY <1>1, <1>6, <3>4, <3>5, CallMoves DEF LocalInv
  <2>10. SolverType'
    BY <1>1, <2>2, <2>4, <2>9 DEF LocalInv, SolverType
  <2> QED BY <1>6, <1>7, <2>8, <2>9, <2>10 DEF LocalInv, ServicesKeep
<1>11. CASE ~(call.expiresAt <= now) /\ ClaimStatus(row) # "LEASE"
  <2>1. /\ finalizations' = [finalizations EXCEPT ![q] = row]
        /\ calls' = [calls EXCEPT ![c] = Rejection(call, row)]
    BY <1>3, <1>11 DEF FinalizationArrives
  <2>2. PICK r \in Exchange : r = row
    BY <1>3, <1>4, LiveRowType
  <2>3. r.state # "NONE"
    BY <1>11, <2>2 DEF ClaimStatus
  <2>4. r = finalizations[q]
    BY <1>3, <1>8, <1>11, <2>2, <2>3 DEF LiveRow, NoExchange
  <2>5. UNCHANGED finalizations
    BY <2>1, <2>2, <2>4 DEF LocalInv, SolverType
  <2>6. AnsweredIsReady' /\ RowsKept
    BY <1>1, <2>5, RowsStay DEF LocalInv
  <2>7. r.response \in Values /\ r.responseExpiresAt \in Int
    BY DEF Exchange
  <2>8. PICK v \in Call : v = Rejection(call, r)
    BY <1>2, <2>7, RejectionFacts
  <2>9. /\ Same(v, calls[c]) /\ v.phase = "answered"
        /\ v.status = 200 => r.state = "READY" /\ v.response = r.response
    BY <1>2, <2>7, <2>8, RejectionFacts
  <2>10. v.status = 200 => v.response \in answered'[calls[c].of] /\ calls[c].of \in invoices
    BY <1>1, <1>3, <2>4, <2>9 DEF LocalInv, AnsweredIsReady
  <2>11. calls' = [calls EXCEPT ![c] = v]
    BY <2>1, <2>2, <2>8
  <2>12. calls' \in [Calls -> Call] /\ CallsKept /\ CallsKnow'
    BY <1>1, <1>6, <2>9, <2>10, <2>11, CallMoves DEF LocalInv
  <2>13. SolverType'
    BY <1>1, <2>5, <2>12 DEF LocalInv, SolverType
  <2> QED BY <1>6, <1>7, <2>6, <2>12, <2>13 DEF LocalInv, ServicesKeep
<1> QED BY <1>9, <1>10, <1>11

\* The response is committed under its lease, on an invoice that is there, and answered.
LEMMA BuildEndsKeeps ==
  ASSUME LocalInv, now \in Nat, NEW c \in Calls, NEW until \in Int, BuildEnds(c, until)
  PROVE  LocalInv' /\ ServicesKeep
<1> DEFINE call == calls[c]
<1>1. /\ call.phase = "building"
      /\ UNCHANGED <<signings, attempts, materialCalls, materials, resolution, invoices>>
  BY DEF BuildEnds, materialVars
<1>2. call \in Call /\ call.epoch \in Nat
  BY DEF LocalInv, SolverType, Call
<1>3. PICK q \in Requests : q = call.of
  BY <1>1 DEF LocalInv, CallsKnow, CallKnows
<1>4. call.kind = "finalize" /\ q \in invoices
  BY <1>1, <1>3 DEF LocalInv, CallsKnow, CallKnows
<1>5. PICK row \in Exchange : row = finalizations[q]
  BY DEF LocalInv, SolverType
<1>6. MaterialKnown' /\ SigningsKept
  BY <1>1, MaterialStays DEF LocalInv, SigningsKept
<1>7. CASE Completable(row, call, until)
  <2>1. PICK done : done = Completed(row, call.epoch, until)
    OBVIOUS
  <2>2. /\ finalizations' = [finalizations EXCEPT ![q] = done]
        /\ calls' = [calls EXCEPT ![c] = AnswerWith(call, done)]
        /\ answered' = [answered EXCEPT ![q] = answered[q] \cup {done.response}]
    <3>1. Completable(finalizations[call.of], call, until)
      BY <1>3, <1>5, <1>7
    <3>2. done = Completed(finalizations[call.of], call.epoch, until)
      BY <1>3, <1>5, <2>1
    <3>3. /\ finalizations' = [finalizations EXCEPT ![call.of] = done]
          /\ calls' = [calls EXCEPT ![c] = AnswerWith(call, done)]
          /\ answered' = [answered EXCEPT ![call.of] = @ \cup {done.response}]
      BY <3>1, <3>2, Zenon DEF BuildEnds
    <3> QED BY <1>3, <3>3
  <2>3. /\ done \in Exchange /\ done.state = "READY" /\ done.response = call.epoch
        /\ done.expiresAt = row.expiresAt
    <3>1. PICK n \in Values : n = call.epoch
      BY <1>2 DEF Values
    <3>2. done = Completed(row, n, until)
      BY <2>1, <3>1
    <3> QED BY <3>1, <3>2, CompletedFacts
  <2>4. row.state = "CLAIMED" /\ row.epoch = call.epoch
    BY <1>7 DEF Completable
  <2>5. answered[q] = {} /\ done.response # 0
    BY <1>5, <2>3, <2>4 DEF LocalInv, AnsweredIsReady
  <2>6. /\ finalizations'[q] = done /\ answered'[q] = {done.response}
        /\ \A p \in Requests : p # q => finalizations'[p] = finalizations[p] /\ answered'[p] = answered[p]
    BY <2>2, <2>5 DEF LocalInv, SolverType
  <2>7. Grows
    BY <1>1, <2>5, <2>6 DEF Grows
  <2>8. AnsweredIsReady'
    BY <1>1, <1>4, <2>3, <2>5, <2>6 DEF LocalInv, AnsweredIsReady
  <2>9. RowsKept
    BY <1>5, <2>3, <2>4, <2>6 DEF RowsKept
  <2>10. done.response \in Values /\ done.responseExpiresAt \in Int
    BY <2>3 DEF Exchange
  <2>11. PICK v \in Call : v = AnswerWith(call, done)
    BY <1>2, <2>10, AnswerWithFacts
  <2>12. Same(v, calls[c]) /\ v.phase = "answered" /\ v.response = done.response
    BY <1>2, <2>10, <2>11, AnswerWithFacts
  <2>13. v.response \in answered'[calls[c].of] /\ calls[c].of \in invoices
    BY <1>3, <1>4, <2>6, <2>12
  <2>14. calls' = [calls EXCEPT ![c] = v]
    BY <2>2, <2>11
  <2>15. calls' \in [Calls -> Call] /\ CallsKept /\ CallsKnow'
    BY <1>1, <2>7, <2>12, <2>13, <2>14, CallMoves DEF LocalInv
  <2>16. SolverType'
    BY <1>1, <2>2, <2>3, <2>10, <2>15 DEF LocalInv, SolverType
  <2> QED BY <1>6, <2>7, <2>8, <2>9, <2>15, <2>16 DEF LocalInv, ServicesKeep
<1>8. CASE ~Completable(row, call, until)
  <2>1. calls' = [calls EXCEPT ![c] = Answer(call, 503)] /\ UNCHANGED <<finalizations, answered>>
    BY <1>3, <1>5, <1>8 DEF BuildEnds
  <2>2. AnsweredIsReady' /\ RowsKept /\ Grows
    BY <1>1, <2>1, RowsStay DEF LocalInv
  <2>3. PICK s \in Statuses \ {200} : s = 503
    BY DEF Statuses
  <2>4. calls' = [calls EXCEPT ![c] = Answer(calls[c], s)]
    BY <2>1, <2>3
  <2>5. calls' \in [Calls -> Call] /\ CallsKept /\ CallsKnow'
    BY <1>1, <2>2, <2>4, CallRefused DEF LocalInv
  <2>6. SolverType'
    BY <1>1, <2>1, <2>5 DEF LocalInv, SolverType
  <2> QED BY <1>6, <2>2, <2>5, <2>6 DEF LocalInv, ServicesKeep
<1> QED BY <1>7, <1>8

\* A signing is claimed and signed, interrupted or refused.
LEMMA SigningArrivesKeeps ==
  ASSUME LocalInv, now \in Nat, SolverAssumption, NEW c \in Calls, NEW interrupted, SigningArrives(c, interrupted)
  PROVE  LocalInv' /\ ServicesKeep
<1> DEFINE call == calls[c]
           row == LiveRow(signings[call.of])
           leased == Leased(row, call.expiresAt)
           done == Completed(leased, call.of, call.expiresAt)
<1>1. /\ call.phase = "sent" /\ call.kind = "sign"
      /\ UNCHANGED <<finalizations, attempts, materialCalls, materials, resolution, invoices, answered>>
  BY DEF SigningArrives, Sent, materialVars
<1>2. call \in Call /\ call.expiresAt \in Int
  BY DEF LocalInv, SolverType, Call
<1>3. PICK q \in Requests : q = call.of
  BY <1>1 DEF LocalInv, CallsKnow, CallKnows, None
<1>4. signings[call.of] \in Exchange
  BY <1>3 DEF LocalInv, SolverType
<1>5. row \in Exchange
  BY <1>4, LiveRowType
<1>6. leased \in Exchange
  BY <1>2, <1>5, LeasedFacts
<1>7. done \in Exchange
  BY <1>2, <1>3, <1>6, CompletedFacts DEF Values
<1>8. AnsweredIsReady' /\ RowsKept /\ Grows
  BY <1>1, RowsStay DEF LocalInv
<1>9. MaterialKnown'
  BY <1>1, MaterialStays DEF LocalInv
<1>10. \E r \in Exchange : signings' = [signings EXCEPT ![call.of] = r]
  <2>1. \/ signings' = [signings EXCEPT ![call.of] = row]
        \/ signings' = [signings EXCEPT ![call.of] = leased]
        \/ signings' = [signings EXCEPT ![call.of] = done]
    BY DEF SigningArrives
  <2> QED BY <1>5, <1>6, <1>7, <2>1
<1>11. \E v \in Call : /\ calls' = [calls EXCEPT ![c] = v] /\ Same(v, calls[c]) /\ v.phase = "answered"
  <2>1. \/ \E s \in {400, 503} : calls' = [calls EXCEPT ![c] = Answer(call, s)]
        \/ calls' = [calls EXCEPT ![c] = [Rejection(call, row) EXCEPT !.response = 0]]
        \/ calls' = [calls EXCEPT ![c] = [AnswerWith(call, done) EXCEPT !.response = 0]]
    BY DEF SigningArrives
  <2>2. \A s \in {400, 503} : /\ Answer(call, s) \in Call /\ Same(Answer(call, s), call)
                              /\ Answer(call, s).phase = "answered"
    BY <1>2, AnswerFacts DEF Statuses
  <2>3. ASSUME NEW v \in Call, Same(v, call), v.phase = "answered"
        PROVE  LET w == [v EXCEPT !.response = 0] IN w \in Call /\ Same(w, call) /\ w.phase = "answered"
    <3>1. PICK w \in Call : w = [v EXCEPT !.response = 0]
      BY SetResponse DEF Values
    <3>2. Same(w, call) /\ w.phase = "answered"
      BY <2>3, <3>1 DEF Call, Same
    <3> QED BY <3>1, <3>2
  <2>4. PICK r \in Exchange : r = row
    BY <1>5
  <2>5. r.response \in Values /\ r.responseExpiresAt \in Int
    BY DEF Exchange
  <2>6. PICK v \in Call : v = Rejection(call, r)
    BY <1>2, <2>5, RejectionFacts
  <2>7. Same(v, call) /\ v.phase = "answered"
    BY <1>2, <2>5, <2>6, RejectionFacts
  <2>8. PICK d \in Exchange : d = done
    BY <1>7
  <2>9. d.response \in Values /\ d.responseExpiresAt \in Int
    BY DEF Exchange
  <2>10. PICK u \in Call : u = AnswerWith(call, d)
    BY <1>2, <2>9, AnswerWithFacts
  <2>11. Same(u, call) /\ u.phase = "answered"
    BY <1>2, <2>9, <2>10, AnswerWithFacts
  <2>12. CASE \E s \in {400, 503} : calls' = [calls EXCEPT ![c] = Answer(call, s)]
    <3>1. PICK s \in {400, 503} : calls' = [calls EXCEPT ![c] = Answer(call, s)]
      BY <2>12
    <3>2. PICK x \in Call : x = Answer(call, s) /\ Same(x, call) /\ x.phase = "answered"
      BY <2>2
    <3>3. calls' = [calls EXCEPT ![c] = x]
      BY <3>1, <3>2
    <3> QED BY <3>2, <3>3
  <2>13. CASE calls' = [calls EXCEPT ![c] = [Rejection(call, row) EXCEPT !.response = 0]]
    <3>1. calls' = [calls EXCEPT ![c] = [v EXCEPT !.response = 0]]
      BY <2>4, <2>6, <2>13
    <3> QED BY <2>3, <2>7, <3>1
  <2>14. CASE calls' = [calls EXCEPT ![c] = [AnswerWith(call, done) EXCEPT !.response = 0]]
    <3>1. calls' = [calls EXCEPT ![c] = [u EXCEPT !.response = 0]]
      BY <2>8, <2>10, <2>14
    <3> QED BY <2>3, <2>11, <3>1
  <2> QED BY <2>1, <2>12, <2>13, <2>14
<1>12. PICK v \in Call : calls' = [calls EXCEPT ![c] = v] /\ Same(v, calls[c]) /\ v.phase = "answered"
  BY <1>11
<1>13. calls' \in [Calls -> Call] /\ CallsKept /\ CallsKnow'
  BY <1>1, <1>8, <1>12, CallMoves DEF LocalInv
<1>14. SigningsKept
  <2>1. Signs(c, q)
    BY <1>1, <1>3 DEF Signs
  <2>2. \A p \in Requests : p # q => signings'[p] = signings[p]
    BY <1>3, <1>10 DEF LocalInv, SolverType
  <2> QED BY <2>1, <2>2 DEF SigningsKept
<1>15. SolverType'
  <2>1. signings' \in [Requests -> Exchange]
    BY <1>3, <1>10 DEF LocalInv, SolverType
  <2> QED BY <1>1, <1>13, <2>1 DEF LocalInv, SolverType
<1> QED BY <1>8, <1>9, <1>13, <1>14, <1>15 DEF LocalInv, ServicesKeep

\* The endpoint's process dies: its calls break, and its attempts are gone.
LEMMA EndpointCrashKeeps == ASSUME LocalInv, EndpointCrashes PROVE LocalInv' /\ ServicesKeep
<1>1. /\ calls' = [c \in Calls |-> IF calls[c].phase \in {"idle", "answered"} THEN calls[c] ELSE Answer(calls[c], 0)]
      /\ attempts' = [q \in Requests |-> NoAttempt]
      /\ UNCHANGED <<finalizations, signings, materialCalls, materials, resolution, invoices, answered>>
  BY DEF EndpointCrashes, materialVars
<1>2. AnsweredIsReady' /\ RowsKept /\ Grows
  BY <1>1, RowsStay DEF LocalInv
<1>3. NoAttempt \in Attempt /\ ~NoAttempt.result /\ NoAttempt.call = None
  BY DEF NoAttempt, Attempt
<1>4. MaterialKnown'
  BY <1>1, <1>3 DEF LocalInv, MaterialKnown
<1>5. calls' \in [Calls -> Call] /\ CallsKept /\ CallsKnow'
  <2>1. ASSUME NEW c \in Calls, calls[c].phase \notin {"idle", "answered"} PROVE Moved(c)
    <3>1. calls[c] \in Call
      BY DEF LocalInv, SolverType
    <3>2. PICK s \in Statuses : s = 0
      BY DEF Statuses
    <3>3. calls'[c] = Answer(calls[c], s)
      BY <1>1, <2>1, <3>2
    <3>4. calls'[c] \in Call /\ Same(calls'[c], calls[c]) /\ calls'[c].phase = "answered" /\ calls'[c].status = s
      BY <3>1, <3>3, AnswerFacts
    <3>5. s # 200
      BY <3>2
    <3> QED BY <2>1, <3>4, <3>5 DEF Moved
  <2>2. \A c \in Calls : calls'[c] = calls[c] \/ Moved(c)
    BY <1>1, <2>1
  <2>3. calls' = [c \in Calls |-> calls'[c]]
    BY <1>1
  <2> QED BY <1>2, <2>2, <2>3, CallsMove DEF LocalInv
<1>6. SolverType'
  BY <1>1, <1>3, <1>5 DEF LocalInv, SolverType
<1>7. SigningsKept
  BY <1>1 DEF SigningsKept
<1> QED BY <1>2, <1>4, <1>5, <1>6, <1>7 DEF LocalInv, ServicesKeep

-------------------------------------------------------------------------------
(* The solver's services: the material. *)

\* A call to the material service that moves on.
MaterialMoved(m) ==
  /\ materialCalls'[m] \in Call /\ materialCalls'[m].of = materialCalls[m].of
  /\ materialCalls[m].phase # "idle" /\ materialCalls'[m].phase # "idle"
  /\ \/ materialCalls'[m].phase = "resolved"
     \/ materialCalls'[m].phase = "answered" /\ materialCalls'[m].status = 200
     => materialCalls[m].of \in invoices'

\* Calls to the material service that stay or move on, and rows that are ready for an invoice.
LEMMA MaterialMoves ==
  ASSUME SolverType, MaterialKnown, invoices \subseteq invoices', UNCHANGED attempts,
         materialCalls' = [m \in MaterialCalls |-> materialCalls'[m]],
         \A m \in MaterialCalls : materialCalls'[m] = materialCalls[m] \/ MaterialMoved(m),
         \A q \in Requests : materials'[q].state = "READY" => q \in invoices'
  PROVE  materialCalls' \in [MaterialCalls -> Call] /\ MaterialKnown'
<1>1. \A m \in MaterialCalls : materialCalls'[m] \in Call
  BY DEF MaterialMoved, SolverType
<1>2. materialCalls' \in [MaterialCalls -> Call]
  BY <1>1
<1>3. \A q \in Requests : attempts[q].call # None => attempts[q].call \in MaterialCalls
  BY DEF SolverType, Attempt
<1>4. ASSUME NEW q \in Requests
      PROVE  /\ attempts'[q].result => q \in invoices'
             /\ attempts'[q].call # None => /\ materialCalls'[attempts'[q].call].phase # "idle"
                                            /\ materialCalls'[attempts'[q].call].of = q
  BY <1>3 DEF MaterialKnown, MaterialMoved
<1>5. ASSUME NEW m \in MaterialCalls
      PROVE  /\ materialCalls'[m].phase # "idle" => materialCalls'[m].of \in Requests
             /\ \/ materialCalls'[m].phase = "resolved"
                \/ materialCalls'[m].phase = "answered" /\ materialCalls'[m].status = 200
                => materialCalls'[m].of \in invoices'
  BY DEF MaterialKnown, MaterialMoved
<1>6. MaterialKnown'
  BY <1>4, <1>5 DEF MaterialKnown
<1> QED BY <1>2, <1>6

\* A step of the material service leaves the endpoint alone.
LEMMA EndpointStays ==
  ASSUME LocalInv, invoices \subseteq invoices', UNCHANGED <<endpointVars, answered>>,
         materials' \in [Requests -> Exchange], materialCalls' \in [MaterialCalls -> Call], MaterialKnown'
  PROVE  LocalInv' /\ ServicesKeep
<1>1. UNCHANGED <<calls, finalizations, signings, attempts, answered>>
  BY DEF endpointVars
<1>2. AnsweredIsReady' /\ RowsKept /\ Grows
  BY <1>1, RowsStay DEF LocalInv
<1>3. calls' \in [Calls -> Call] /\ CallsKept /\ CallsKnow'
  BY <1>1, <1>2, CallsStay DEF LocalInv
<1>4. SolverType'
  BY <1>1, <1>3 DEF LocalInv, SolverType
<1>5. SigningsKept
  BY <1>1 DEF SigningsKept
<1> QED BY <1>2, <1>3, <1>4, <1>5 DEF LocalInv, ServicesKeep

\* One call to the material service moves on, its rows stay.
LEMMA MaterialCallMoves ==
  ASSUME LocalInv, UNCHANGED <<endpointVars, invoices, answered>>,
         NEW m \in MaterialCalls, NEW v \in Call, materialCalls' = [materialCalls EXCEPT ![m] = v],
         v.of = materialCalls[m].of, materialCalls[m].phase # "idle", v.phase # "idle",
         v.phase = "resolved" \/ (v.phase = "answered" /\ v.status = 200) => materialCalls[m].of \in invoices,
         materials' \in [Requests -> Exchange],
         \A q \in Requests : materials'[q].state = "READY" => q \in invoices
  PROVE  LocalInv' /\ ServicesKeep
<1>1. materialCalls'[m] = v /\ \A n \in MaterialCalls : n # m => materialCalls'[n] = materialCalls[n]
  BY DEF LocalInv, SolverType
<1>2. MaterialMoved(m)
  BY <1>1 DEF MaterialMoved
<1>3. materialCalls' = [n \in MaterialCalls |-> materialCalls'[n]]
  BY DEF LocalInv, SolverType
<1>4. \A n \in MaterialCalls : materialCalls'[n] = materialCalls[n] \/ MaterialMoved(n)
  BY <1>1, <1>2
<1>5. UNCHANGED attempts
  BY DEF endpointVars
<1>6. materialCalls' \in [MaterialCalls -> Call] /\ MaterialKnown'
  BY <1>3, <1>4, <1>5, MaterialMoves DEF LocalInv
<1> QED BY <1>6, EndpointStays

LEMMA MaterialRefused ==
  ASSUME LocalInv, UNCHANGED <<endpointVars, invoices, answered, materials>>,
         NEW m \in MaterialCalls, NEW s \in Statuses \ {200}, materialCalls[m].phase # "idle",
         materialCalls' = [materialCalls EXCEPT ![m] = Answer(materialCalls[m], s)]
  PROVE  LocalInv' /\ ServicesKeep
<1>1. materialCalls[m] \in Call
  BY DEF LocalInv, SolverType
<1>2. PICK v \in Call : v = Answer(materialCalls[m], s)
  BY <1>1, AnswerFacts
<1>3. v.phase = "answered" /\ v.status = s /\ v.of = materialCalls[m].of
  BY <1>1, <1>2, AnswerFacts DEF Same
<1>4. /\ materials' \in [Requests -> Exchange]
      /\ \A q \in Requests : materials'[q].state = "READY" => q \in invoices
  BY DEF LocalInv, SolverType, MaterialKnown
<1> QED BY <1>2, <1>3, <1>4, MaterialCallMoves

\* A material request is claimed, repeated or refused.
LEMMA MaterialArrivesKeeps ==
  ASSUME LocalInv, now \in Nat, SolverAssumption, NEW m \in MaterialCalls, MaterialArrives(m)
  PROVE  LocalInv' /\ ServicesKeep
<1> DEFINE call == materialCalls[m]
           row == LiveRow(materials[call.of])
<1>1. call.phase = "sent" /\ UNCHANGED <<endpointVars, invoices, answered>>
  BY DEF MaterialArrives
<1>2. call \in Call /\ call.until \in Int
  BY DEF LocalInv, SolverType, Call
<1>3. PICK q \in Requests : q = call.of
  BY <1>1 DEF LocalInv, MaterialKnown
<1>4. PICK r \in Exchange : r = row
  BY <1>3, LiveRowType DEF LocalInv, SolverType
<1>5. r.state = "READY" => q \in invoices
  BY <1>3, <1>4 DEF LocalInv, MaterialKnown, LiveRow, NoExchange
<1>6. CASE call.expiresAt <= now
  <2>1. materialCalls' = [materialCalls EXCEPT ![m] = Answer(call, 400)] /\ UNCHANGED materials
    BY <1>6 DEF MaterialArrives
  <2>2. PICK s \in Statuses \ {200} : s = 400
    BY DEF Statuses
  <2>3. materialCalls' = [materialCalls EXCEPT ![m] = Answer(materialCalls[m], s)]
    BY <2>1, <2>2
  <2> QED BY <1>1, <2>1, <2>3, MaterialRefused
<1>7. CASE ~(call.expiresAt <= now) /\ ClaimStatus(row) = "LEASE"
  <2>1. PICK leased : leased = Leased(row, call.until)
    OBVIOUS
  <2>2. /\ materials' = [materials EXCEPT ![q] = leased]
        /\ materialCalls' = [materialCalls EXCEPT ![m].phase = "waiting", ![m].epoch = leased.epoch]
    BY <1>3, <1>7, <2>1 DEF MaterialArrives
  <2>3. leased \in Exchange /\ leased.state = IF r.state = "NONE" THEN "CLAIMED" ELSE r.state
    BY <1>2, <1>4, <2>1, LeasedFacts
  <2>4. leased.state = "READY" => q \in invoices
    BY <1>5, <2>3
  <2>5. PICK u \in Call : u = [call EXCEPT !.phase = "waiting"]
    BY <1>2, SetPhase DEF Phases
  <2>6. leased.epoch \in Nat
    BY <2>3 DEF Exchange
  <2>7. PICK v \in Call : v = [u EXCEPT !.epoch = leased.epoch]
    BY <2>6, SetEpoch
  <2>8. v.phase = "waiting" /\ v.of = call.of
    BY <1>2, <2>5, <2>7 DEF Call
  <2>9. materialCalls' = [materialCalls EXCEPT ![m] = v]
    BY <2>2, <2>5, <2>7 DEF LocalInv, SolverType
  <2>10. /\ materials' \in [Requests -> Exchange]
         /\ \A p \in Requests : materials'[p].state = "READY" => p \in invoices
    BY <2>2, <2>3, <2>4 DEF LocalInv, SolverType, MaterialKnown
  <2> QED BY <1>1, <2>8, <2>9, <2>10, MaterialCallMoves
<1>8. CASE ~(call.expiresAt <= now) /\ ClaimStatus(row) # "LEASE"
  <2>1. /\ materials' = [materials EXCEPT ![q] = r]
        /\ materialCalls' = [materialCalls EXCEPT ![m] = Rejection(call, r)]
    BY <1>3, <1>4, <1>8 DEF MaterialArrives
  <2>2. r.response \in Values /\ r.responseExpiresAt \in Int
    BY DEF Exchange
  <2>3. PICK v \in Call : v = Rejection(call, r)
    BY <1>2, <2>2, RejectionFacts
  <2>4. v.of = call.of /\ v.phase = "answered" /\ (v.status = 200 => r.state = "READY")
    BY <1>2, <2>2, <2>3, RejectionFacts DEF Same
  <2>5. /\ materials' \in [Requests -> Exchange]
        /\ \A p \in Requests : materials'[p].state = "READY" => p \in invoices
    BY <1>5, <2>1 DEF LocalInv, SolverType, MaterialKnown
  <2>6. materialCalls' = [materialCalls EXCEPT ![m] = v]
    BY <2>1, <2>3
  <2> QED BY <1>1, <1>3, <1>5, <2>4, <2>5, <2>6, MaterialCallMoves
<1> QED BY <1>6, <1>7, <1>8

\* The material response is committed under its lease, for an invoice that is there.
LEMMA MaterialCompletesKeeps ==
  ASSUME LocalInv, NEW m \in MaterialCalls, MaterialCompletes(m)
  PROVE  LocalInv' /\ ServicesKeep
<1> DEFINE call == materialCalls[m]
<1>1. call.phase = "resolved" /\ UNCHANGED <<endpointVars, invoices, answered>>
  BY DEF MaterialCompletes
<1>2. call \in Call /\ call.expiresAt \in Int /\ call.epoch \in Values
  BY DEF LocalInv, SolverType, Call, Values
<1>3. PICK q \in Requests : q = call.of
  BY <1>1 DEF LocalInv, MaterialKnown
<1>4. q \in invoices
  BY <1>1, <1>3 DEF LocalInv, MaterialKnown
<1>5. PICK row \in Exchange : row = materials[q]
  BY DEF LocalInv, SolverType
<1>6. CASE Completable(row, call, call.expiresAt)
  <2>1. PICK done : done = Completed(row, call.epoch, call.expiresAt)
    OBVIOUS
  <2>2. /\ materials' = [materials EXCEPT ![q] = done]
        /\ materialCalls' = [materialCalls EXCEPT ![m] = AnswerWith(call, done)]
    <3>1. Completable(materials[call.of], call, call.expiresAt)
      BY <1>3, <1>5, <1>6
    <3>2. done = Completed(materials[call.of], call.epoch, call.expiresAt)
      BY <1>3, <1>5, <2>1
    <3>3. /\ materials' = [materials EXCEPT ![call.of] = done]
          /\ materialCalls' = [materialCalls EXCEPT ![m] = AnswerWith(call, done)]
      BY <3>1, <3>2, Zenon DEF MaterialCompletes
    <3> QED BY <1>3, <3>3
  <2>3. done \in Exchange
    BY <1>2, <2>1, CompletedFacts
  <2>4. done.response \in Values /\ done.responseExpiresAt \in Int
    BY <2>3 DEF Exchange
  <2>5. PICK v \in Call : v = AnswerWith(call, done)
    BY <1>2, <2>4, AnswerWithFacts
  <2>6. v.of = call.of /\ v.phase = "answered"
    BY <1>2, <2>4, <2>5, AnswerWithFacts DEF Same
  <2>7. /\ materials' \in [Requests -> Exchange]
        /\ \A p \in Requests : materials'[p].state = "READY" => p \in invoices
    BY <1>4, <2>2, <2>3 DEF LocalInv, SolverType, MaterialKnown
  <2>8. materialCalls' = [materialCalls EXCEPT ![m] = v]
    BY <2>2, <2>5
  <2> QED BY <1>1, <1>3, <1>4, <2>6, <2>7, <2>8, MaterialCallMoves
<1>7. CASE ~Completable(row, call, call.expiresAt)
  <2>1. materialCalls' = [materialCalls EXCEPT ![m] = Answer(call, 503)] /\ UNCHANGED materials
    BY <1>3, <1>5, <1>7 DEF MaterialCompletes
  <2>2. PICK s \in Statuses \ {200} : s = 503
    BY DEF Statuses
  <2>3. materialCalls' = [materialCalls EXCEPT ![m] = Answer(materialCalls[m], s)]
    BY <2>1, <2>2
  <2> QED BY <1>1, <2>1, <2>3, MaterialRefused
<1> QED BY <1>6, <1>7

\* A resolution ends for every call that waits for it.
LEMMA ResolvedKeeps ==
  ASSUME LocalInv, NEW q \in Requests, NEW found \in BOOLEAN, found => q \in invoices,
         materialCalls' = Resolved(q, found), UNCHANGED <<endpointVars, materials, invoices, answered>>
  PROVE  LocalInv' /\ ServicesKeep
<1>1. ASSUME NEW m \in MaterialCalls PROVE materialCalls'[m] = materialCalls[m] \/ MaterialMoved(m)
  <2>1. materialCalls[m] \in Call
    BY DEF LocalInv, SolverType
  <2>2. CASE ~(materialCalls[m].phase = "waiting" /\ materialCalls[m].of = q)
    BY <2>2 DEF Resolved
  <2>3. CASE materialCalls[m].phase = "waiting" /\ materialCalls[m].of = q /\ found
    <3>1. materialCalls'[m] = [materialCalls[m] EXCEPT !.phase = "resolved"]
      BY <2>3 DEF Resolved
    <3>2. PICK v \in Call : v = [materialCalls[m] EXCEPT !.phase = "resolved"]
      BY <2>1, SetPhase DEF Phases
    <3>3. v.phase = "resolved" /\ v.of = materialCalls[m].of
      BY <2>1, <3>2 DEF Call
    <3> QED BY <2>3, <3>1, <3>2, <3>3 DEF MaterialMoved
  <2>4. CASE materialCalls[m].phase = "waiting" /\ materialCalls[m].of = q /\ ~found
    <3>1. PICK s \in Statuses : s = 503
      BY DEF Statuses
    <3>2. materialCalls'[m] = Answer(materialCalls[m], s)
      BY <2>4, <3>1 DEF Resolved
    <3>3. PICK v \in Call : v = Answer(materialCalls[m], s)
      BY <2>1, AnswerFacts
    <3>4. v.phase = "answered" /\ v.status = s /\ v.of = materialCalls[m].of
      BY <2>1, <3>3, AnswerFacts DEF Same
    <3>5. s # 200
      BY <3>1
    <3> QED BY <2>4, <3>2, <3>3, <3>4, <3>5 DEF MaterialMoved
  <2> QED BY <2>2, <2>3, <2>4
<1>2. materialCalls' = [m \in MaterialCalls |-> materialCalls'[m]]
  BY DEF Resolved
<1>3. /\ materials' \in [Requests -> Exchange] /\ UNCHANGED attempts /\ invoices \subseteq invoices'
      /\ \A p \in Requests : materials'[p].state = "READY" => p \in invoices'
  BY DEF LocalInv, SolverType, MaterialKnown, endpointVars
<1>4. materialCalls' \in [MaterialCalls -> Call] /\ MaterialKnown'
  BY <1>1, <1>2, <1>3, MaterialMoves DEF LocalInv
<1> QED BY <1>3, <1>4, EndpointStays

\* Only the node and the resolution change.
LEMMA NodeMoves ==
  ASSUME LocalInv, invoices \subseteq invoices', UNCHANGED <<endpointVars, materialCalls, materials, answered>>
  PROVE  LocalInv' /\ ServicesKeep
<1>1. materials' \in [Requests -> Exchange] /\ materialCalls' \in [MaterialCalls -> Call]
  BY DEF LocalInv, SolverType
<1>2. MaterialKnown'
  BY MaterialStays DEF LocalInv, endpointVars
<1> QED BY <1>1, <1>2, EndpointStays

LEMMA ResolutionKeeps ==
  ASSUME LocalInv, NEW q \in Requests, LookupEnds(q) \/ InvoiceAdded(q) \/ AddEnds(q)
  PROVE  LocalInv' /\ ServicesKeep
<1>1. CASE LookupEnds(q)
  <2>1. UNCHANGED <<endpointVars, materials, invoices, answered>>
    BY <1>1 DEF LookupEnds
  <2>2. \/ q \in invoices /\ materialCalls' = Resolved(q, TRUE)
        \/ UNCHANGED materialCalls
        \/ materialCalls' = Resolved(q, FALSE)
    BY <1>1 DEF LookupEnds
  <2>3. CASE q \in invoices /\ materialCalls' = Resolved(q, TRUE)
    BY <2>1, <2>3, ResolvedKeeps
  <2>4. CASE UNCHANGED materialCalls
    BY <2>1, <2>4, NodeMoves
  <2>5. CASE materialCalls' = Resolved(q, FALSE)
    BY <2>1, <2>5, ResolvedKeeps
  <2> QED BY <2>2, <2>3, <2>4, <2>5
<1>2. CASE InvoiceAdded(q)
  BY <1>2, NodeMoves DEF InvoiceAdded
<1>3. CASE AddEnds(q)
  <2>1. PICK found \in BOOLEAN : (found => q \in invoices) /\ materialCalls' = Resolved(q, found)
    BY <1>3 DEF AddEnds
  <2> QED BY <1>3, <2>1, ResolvedKeeps DEF AddEnds
<1> QED BY <1>1, <1>2, <1>3

LEMMA MaterialGivesUpKeeps ==
  ASSUME LocalInv, NEW m \in MaterialCalls, MaterialGivesUp(m) PROVE LocalInv' /\ ServicesKeep
<1>1. PICK s \in Statuses \ {200} : s = 503
  BY DEF Statuses
<1>2. /\ materialCalls' = [materialCalls EXCEPT ![m] = Answer(materialCalls[m], s)]
      /\ materialCalls[m].phase # "idle" /\ UNCHANGED <<endpointVars, materials, invoices, answered>>
  BY <1>1 DEF MaterialGivesUp
<1> QED BY <1>2, MaterialRefused

LEMMA NoCallFacts == NoCall \in Call /\ NoCall.phase = "idle" /\ NoCall.kind = None
  BY DEF NoCall, Call, Phases, Kinds, Statuses, Values

\* An answer that no attempt awaits is dropped.
LEMMA MaterialForgottenKeeps ==
  ASSUME LocalInv, NEW m \in MaterialCalls, MaterialForgotten(m) PROVE LocalInv' /\ ServicesKeep
<1>1. /\ materialCalls' = [materialCalls EXCEPT ![m] = NoCall] /\ \A q \in Requests : attempts[q].call # m
      /\ UNCHANGED <<endpointVars, materials, invoices, answered>>
  BY DEF MaterialForgotten
<1>2. materials' \in [Requests -> Exchange] /\ materialCalls' \in [MaterialCalls -> Call]
  BY <1>1, NoCallFacts DEF LocalInv, SolverType
<1>3. materialCalls'[m] = NoCall /\ \A n \in MaterialCalls : n # m => materialCalls'[n] = materialCalls[n]
  BY <1>1 DEF LocalInv, SolverType
<1>4. UNCHANGED attempts /\ \A q \in Requests : attempts[q].call # None => attempts[q].call \in MaterialCalls
  BY <1>1 DEF LocalInv, SolverType, Attempt, endpointVars
<1>5. ASSUME NEW q \in Requests
      PROVE  /\ attempts'[q].result => q \in invoices'
             /\ materials'[q].state = "READY" => q \in invoices'
             /\ attempts'[q].call # None => /\ materialCalls'[attempts'[q].call].phase # "idle"
                                            /\ materialCalls'[attempts'[q].call].of = q
  BY <1>1, <1>3, <1>4 DEF LocalInv, MaterialKnown
<1>6. ASSUME NEW n \in MaterialCalls
      PROVE  /\ materialCalls'[n].phase # "idle" => materialCalls'[n].of \in Requests
             /\ \/ materialCalls'[n].phase = "resolved"
                \/ materialCalls'[n].phase = "answered" /\ materialCalls'[n].status = 200
                => materialCalls'[n].of \in invoices'
  BY <1>1, <1>3, NoCallFacts DEF LocalInv, MaterialKnown
<1>7. MaterialKnown'
  BY <1>5, <1>6 DEF MaterialKnown
<1> QED BY <1>1, <1>2, <1>7, EndpointStays

\* The material service dies: its calls break, and an add may still reach the node.
LEMMA MaterialCrashKeeps == ASSUME LocalInv, MaterialServiceCrashes PROVE LocalInv' /\ ServicesKeep
<1>1. /\ materialCalls' = [m \in MaterialCalls |-> IF materialCalls[m].phase \in {"idle", "answered"}
                                                  THEN materialCalls[m] ELSE Answer(materialCalls[m], 0)]
      /\ invoices \subseteq invoices' /\ UNCHANGED <<endpointVars, materials, answered>>
  BY DEF MaterialServiceCrashes
<1>2. ASSUME NEW m \in MaterialCalls, materialCalls[m].phase \notin {"idle", "answered"} PROVE MaterialMoved(m)
  <2>1. materialCalls[m] \in Call
    BY DEF LocalInv, SolverType
  <2>2. PICK s \in Statuses : s = 0
    BY DEF Statuses
  <2>3. materialCalls'[m] = Answer(materialCalls[m], s)
    BY <1>1, <1>2, <2>2
  <2>4. PICK v \in Call : v = Answer(materialCalls[m], s)
    BY <2>1, AnswerFacts
  <2>5. v.phase = "answered" /\ v.status = s /\ v.of = materialCalls[m].of
    BY <2>1, <2>4, AnswerFacts DEF Same
  <2>6. s # 200
    BY <2>2
  <2> QED BY <1>2, <2>3, <2>4, <2>5, <2>6 DEF MaterialMoved
<1>3. \A m \in MaterialCalls : materialCalls'[m] = materialCalls[m] \/ MaterialMoved(m)
  BY <1>1, <1>2
<1>4. materialCalls' = [m \in MaterialCalls |-> materialCalls'[m]]
  BY <1>1
<1>5. /\ materials' \in [Requests -> Exchange] /\ UNCHANGED attempts
      /\ \A p \in Requests : materials'[p].state = "READY" => p \in invoices'
  BY <1>1 DEF LocalInv, SolverType, MaterialKnown, endpointVars
<1>6. materialCalls' \in [MaterialCalls -> Call] /\ MaterialKnown'
  BY <1>1, <1>3, <1>4, <1>5, MaterialMoves DEF LocalInv
<1> QED BY <1>1, <1>5, <1>6, EndpointStays

\* An attempt keeps its type when one field is replaced: one lemma per field.
LEMMA SetAttemptExpiry == ASSUME NEW a \in Attempt, NEW t \in Int PROVE [a EXCEPT !.expiresAt = t] \in Attempt
  BY DEF Attempt
LEMMA SetAttemptCall ==
  ASSUME NEW a \in Attempt, NEW m \in MaterialCalls \cup {None} PROVE [a EXCEPT !.call = m] \in Attempt
  BY DEF Attempt
LEMMA SetAttemptResult == ASSUME NEW a \in Attempt, NEW x \in BOOLEAN PROVE [a EXCEPT !.result = x] \in Attempt
  BY DEF Attempt

LEMMA NoAttemptType == NoAttempt \in Attempt
<1>1. 0 \in Int /\ None \in MaterialCalls \cup {None} /\ FALSE \in BOOLEAN
  OBVIOUS
<1> QED BY <1>1 DEF NoAttempt, Attempt

\* The packet of a material request.
LEMMA MaterialPacketFacts ==
  ASSUME NEW q \in Requests, NEW a \in Attempt, NEW t \in Int
  PROVE  LET packet == MaterialPacket(q, a, t)
         IN packet \in Call /\ packet.phase = "sent" /\ packet.of = q
<1>1. PICK v1 \in Call : v1 = NoCall
  BY NoCallFacts
<1>2. PICK v2 \in Call : v2 = [v1 EXCEPT !.phase = "sent"]
  BY SetPhase DEF Phases
<1>3. PICK v3 \in Call : v3 = [v2 EXCEPT !.kind = "material"]
  BY SetKind DEF Kinds
<1>4. PICK v4 \in Call : v4 = [v3 EXCEPT !.of = q]
  BY SetOf
<1>5. a.expiresAt \in Int
  BY DEF Attempt
<1>6. PICK v5 \in Call : v5 = [v4 EXCEPT !.expiresAt = a.expiresAt]
  BY <1>5, SetExpiry
<1>7. PICK v6 \in Call : v6 = [v5 EXCEPT !.until = t]
  BY SetUntil
<1>8. v2.phase = "sent"
  BY <1>2 DEF Call
<1>9. v4.phase = "sent" /\ v4.of = q
  BY <1>3, <1>4, <1>8 DEF Call
<1>10. v6.phase = "sent" /\ v6.of = q
  BY <1>6, <1>7, <1>9 DEF Call
<1>11. v6 = MaterialPacket(q, a, t)
  BY <1>1, <1>2, <1>3, <1>4, <1>6, <1>7 DEF MaterialPacket
<1> QED BY <1>10, <1>11

\* The finalizer uses the result it has, gives up, or asks for the material.
LEMMA AskMaterialKeeps ==
  ASSUME LocalInv, now \in Nat, SolverAssumption, NEW c \in Calls, AskMaterial(c)
  PROVE  LocalInv' /\ ServicesKeep
<1>1. calls[c].phase = "resolving" /\ UNCHANGED <<finalizations, signings, materials, resolution, invoices, answered>>
  BY DEF AskMaterial
<1>2. calls[c] \in Call /\ calls[c].expiresAt \in Int
  BY DEF LocalInv, SolverType, Call
<1>3. PICK q \in Requests : q = calls[c].of
  BY <1>1 DEF LocalInv, CallsKnow, CallKnows
<1>4. calls[c].kind = "finalize" /\ attempts[q] \in Attempt
  BY <1>1 DEF LocalInv, CallsKnow, CallKnows, SolverType
<1> DEFINE fresh == [NoAttempt EXCEPT !.expiresAt = Least(now + MaterialTtl, calls[c].expiresAt)]
<1>5. PICK attempt \in Attempt :
        attempt = IF attempts[q].expiresAt = 0 THEN fresh ELSE attempts[q]
  <2>1. PICK none \in Attempt : none = NoAttempt
    BY NoAttemptType
  <2>2. PICK t \in Int : t = Least(now + MaterialTtl, calls[c].expiresAt)
    BY <1>2 DEF Least, SolverAssumption
  <2>3. fresh = [none EXCEPT !.expiresAt = t]
    BY <2>1, <2>2
  <2>4. fresh \in Attempt
    BY <2>3, SetAttemptExpiry
  <2> QED BY <1>4, <2>4
<1>6. attempt.result => attempts[q].result
  BY <1>5 DEF NoAttempt
<1>7. \/ /\ attempt.result /\ calls' = [calls EXCEPT ![c].phase = "building"]
         /\ UNCHANGED <<attempts, materialCalls>>
      \/ /\ calls' = [calls EXCEPT ![c] = Answer(calls[c], 503)]
         /\ UNCHANGED <<attempts, materialCalls>>
      \/ /\ ~attempt.result
         /\ \E m \in MaterialCalls :
              /\ materialCalls[m].phase = "idle"
              /\ materialCalls' = [materialCalls EXCEPT ![m] = MaterialPacket(q, attempt, calls[c].expiresAt)]
              /\ attempts' = [attempts EXCEPT ![q] = [attempt EXCEPT !.call = m]]
         /\ calls' = [calls EXCEPT ![c].phase = "material"]
  BY <1>3, <1>5 DEF AskMaterial
<1>8. AnsweredIsReady' /\ RowsKept /\ Grows /\ SigningsKept
  BY <1>1, RowsStay DEF LocalInv, SigningsKept
<1>9. CASE /\ attempt.result /\ calls' = [calls EXCEPT ![c].phase = "building"]
           /\ UNCHANGED <<attempts, materialCalls>>
  <2>1. q \in invoices
    BY <1>6, <1>9 DEF LocalInv, MaterialKnown
  <2>2. PICK v \in Call : v = [calls[c] EXCEPT !.phase = "building"]
    BY <1>2, SetPhase DEF Phases
  <2>3. v.phase = "building" /\ Same(v, calls[c])
    BY <1>2, <2>2 DEF Call, Same
  <2>4. calls' = [calls EXCEPT ![c] = v]
    BY <1>9, <2>2
  <2>5. calls' \in [Calls -> Call] /\ CallsKept /\ CallsKnow'
    BY <1>1, <1>3, <1>4, <1>8, <2>1, <2>3, <2>4, CallMoves DEF LocalInv
  <2>6. MaterialKnown'
    BY <1>1, <1>9, MaterialStays DEF LocalInv
  <2>7. SolverType'
    BY <1>1, <1>9, <2>5 DEF LocalInv, SolverType
  <2> QED BY <1>8, <2>5, <2>6, <2>7 DEF LocalInv, ServicesKeep
<1>10. CASE /\ calls' = [calls EXCEPT ![c] = Answer(calls[c], 503)]
            /\ UNCHANGED <<attempts, materialCalls>>
  <2>1. PICK s \in Statuses \ {200} : s = 503
    BY DEF Statuses
  <2>2. calls' = [calls EXCEPT ![c] = Answer(calls[c], s)]
    BY <1>10, <2>1
  <2>3. calls' \in [Calls -> Call] /\ CallsKept /\ CallsKnow'
    BY <1>1, <1>8, <2>2, CallRefused DEF LocalInv
  <2>4. MaterialKnown'
    BY <1>1, <1>10, MaterialStays DEF LocalInv
  <2>5. SolverType'
    BY <1>1, <1>10, <2>3 DEF LocalInv, SolverType
  <2> QED BY <1>8, <2>3, <2>4, <2>5 DEF LocalInv, ServicesKeep
<1>11. ASSUME ~attempt.result, calls' = [calls EXCEPT ![c].phase = "material"],
              NEW m \in MaterialCalls, materialCalls[m].phase = "idle",
              materialCalls' = [materialCalls EXCEPT ![m] = MaterialPacket(q, attempt, calls[c].expiresAt)],
              attempts' = [attempts EXCEPT ![q] = [attempt EXCEPT !.call = m]]
       PROVE  LocalInv' /\ ServicesKeep
  <2>1. PICK v \in Call : v = [calls[c] EXCEPT !.phase = "material"]
    BY <1>2, SetPhase DEF Phases
  <2>2. v.phase = "material" /\ Same(v, calls[c])
    BY <1>2, <2>1 DEF Call, Same
  <2>3. calls' = [calls EXCEPT ![c] = v]
    BY <1>11, <2>1
  <2>4. calls' \in [Calls -> Call] /\ CallsKept /\ CallsKnow'
    BY <1>1, <1>4, <1>8, <2>2, <2>3, CallMoves DEF LocalInv
  <2>5. PICK packet \in Call :
          packet = MaterialPacket(q, attempt, calls[c].expiresAt) /\ packet.phase = "sent" /\ packet.of = q
    BY <1>2, MaterialPacketFacts
  <2>6. PICK a \in Attempt : a = [attempt EXCEPT !.call = m]
    BY SetAttemptCall
  <2>7. a.call = m /\ ~a.result
    BY <1>11, <2>6 DEF Attempt
  <2>8. /\ materialCalls'[m] = packet /\ \A n \in MaterialCalls : n # m => materialCalls'[n] = materialCalls[n]
        /\ attempts'[q] = a /\ \A p \in Requests : p # q => attempts'[p] = attempts[p]
    BY <1>11, <2>5, <2>6 DEF LocalInv, SolverType
  <2>9. \A p \in Requests : attempts[p].call # None => attempts[p].call \in MaterialCalls \ {m}
    BY <1>11 DEF LocalInv, SolverType, Attempt, MaterialKnown
  <2>10. ASSUME NEW p \in Requests
         PROVE  /\ attempts'[p].result => p \in invoices'
                /\ materials'[p].state = "READY" => p \in invoices'
                /\ attempts'[p].call # None => /\ materialCalls'[attempts'[p].call].phase # "idle"
                                               /\ materialCalls'[attempts'[p].call].of = p
    <3>1. CASE p = q
      BY <1>1, <2>5, <2>7, <2>8, <3>1 DEF LocalInv, MaterialKnown
    <3>2. CASE p # q
      BY <1>1, <2>8, <2>9, <3>2 DEF LocalInv, MaterialKnown
    <3> QED BY <3>1, <3>2
  <2>11. ASSUME NEW n \in MaterialCalls
         PROVE  /\ materialCalls'[n].phase # "idle" => materialCalls'[n].of \in Requests
                /\ \/ materialCalls'[n].phase = "resolved"
                   \/ materialCalls'[n].phase = "answered" /\ materialCalls'[n].status = 200
                   => materialCalls'[n].of \in invoices'
    BY <1>1, <2>5, <2>8 DEF LocalInv, MaterialKnown
  <2>12. MaterialKnown'
    BY <2>10, <2>11 DEF MaterialKnown
  <2>13. materialCalls' \in [MaterialCalls -> Call] /\ attempts' \in [Requests -> Attempt]
    BY <1>11, <2>5, <2>6 DEF LocalInv, SolverType
  <2>14. SolverType'
    BY <1>1, <2>4, <2>13 DEF LocalInv, SolverType
  <2> QED BY <1>8, <2>4, <2>12, <2>14 DEF LocalInv, ServicesKeep
<1> QED BY <1>7, <1>9, <1>10, <1>11

\* The material client returns: the calls that wait go on with a material that is there, or fail.
LEMMA MaterialReturnsKeeps ==
  ASSUME LocalInv, SolverAssumption, NEW q \in Requests, NEW found \in BOOLEAN, MaterialReturns(q, found)
  PROVE  LocalInv' /\ ServicesKeep
<1>1. /\ attempts[q].call # None
      /\ found => MaterialVerified(materialCalls[attempts[q].call])
      /\ attempts' = [attempts EXCEPT ![q].call = None, ![q].result = found]
      /\ UNCHANGED <<finalizations, signings, materials, resolution, invoices, answered>>
  BY DEF MaterialReturns
<1>2. PICK m \in MaterialCalls : m = attempts[q].call
  BY <1>1 DEF LocalInv, SolverType, Attempt
<1>3. materialCalls[m] \in Call /\ materialCalls[m].phase # "idle" /\ materialCalls[m].of = q
  BY <1>1, <1>2 DEF LocalInv, SolverType, MaterialKnown
<1>4. found => q \in invoices
  BY <1>1, <1>2, <1>3 DEF MaterialVerified, LocalInv, MaterialKnown
<1>5. AnsweredIsReady' /\ RowsKept /\ Grows /\ SigningsKept
  BY <1>1, RowsStay DEF LocalInv, SigningsKept
<1>6. calls' \in [Calls -> Call] /\ CallsKept /\ CallsKnow'
  <2>1. calls' = [c \in Calls |-> IF calls[c].phase = "material" /\ calls[c].of = q
                                  THEN IF found THEN [calls[c] EXCEPT !.phase = "building"]
                                       ELSE Answer(calls[c], 503)
                                  ELSE calls[c]]
    BY DEF MaterialReturns
  <2>2. ASSUME NEW c \in Calls, calls[c].phase = "material", calls[c].of = q PROVE Moved(c)
    <3>1. calls[c] \in Call /\ calls[c].kind = "finalize"
      BY <2>2 DEF LocalInv, SolverType, CallsKnow, CallKnows
    <3>2. CASE found
      <4>1. PICK v \in Call : v = [calls[c] EXCEPT !.phase = "building"]
        BY <3>1, SetPhase DEF Phases
      <4>2. v.phase = "building" /\ Same(v, calls[c])
        BY <3>1, <4>1 DEF Call, Same
      <4>3. calls'[c] = v
        BY <2>1, <2>2, <3>2, <4>1
      <4> QED BY <1>4, <2>2, <3>1, <3>2, <4>2, <4>3 DEF Moved
    <3>3. CASE ~found
      <4>1. PICK s \in Statuses : s = 503
        BY DEF Statuses
      <4>2. calls'[c] = Answer(calls[c], s)
        BY <2>1, <2>2, <3>3, <4>1
      <4>3. PICK v \in Call : v = Answer(calls[c], s)
        BY <3>1, AnswerFacts
      <4>4. v.phase = "answered" /\ v.status = s /\ Same(v, calls[c])
        BY <3>1, <4>3, AnswerFacts
      <4>5. s # 200
        BY <4>1
      <4> QED BY <2>2, <4>2, <4>3, <4>4, <4>5 DEF Moved
    <3> QED BY <3>2, <3>3
  <2>3. calls' = [c \in Calls |-> calls'[c]] /\ \A c \in Calls : calls'[c] = calls[c] \/ Moved(c)
    BY <2>1, <2>2
  <2> QED BY <1>5, <2>3, CallsMove DEF LocalInv
<1>7. PICK a \in Attempt : attempts' = [attempts EXCEPT ![q] = a] /\ a.call = None /\ (a.result <=> found)
  <2>1. PICK b \in Attempt : b = attempts[q]
    BY DEF LocalInv, SolverType
  <2>2. PICK d \in Attempt : d = [b EXCEPT !.call = None]
    BY SetAttemptCall
  <2>3. PICK a \in Attempt : a = [d EXCEPT !.result = found]
    BY SetAttemptResult
  <2>4. d.call = None
    BY <2>2 DEF Attempt
  <2>5. a.call = None /\ (a.result <=> found)
    BY <2>3, <2>4 DEF Attempt
  <2>6. attempts' = [attempts EXCEPT ![q] = a]
    BY <1>1, <2>1, <2>2, <2>3 DEF LocalInv, SolverType
  <2> QED BY <2>5, <2>6
<1>8. PICK w \in Call : /\ materialCalls' = [materialCalls EXCEPT ![m] = w]
                        /\ \/ w = NoCall
                           \/ /\ w.of = q
                              /\ w.phase = materialCalls[m].phase /\ w.status = materialCalls[m].status
  <2>1. PICK x \in Call : x = materialCalls[m]
    BY <1>3
  <2>2. PICK y \in Call : y = [x EXCEPT !.kind = "orphan"]
    BY SetKind DEF Kinds
  <2>3. y.of = x.of /\ y.phase = x.phase /\ y.status = x.status
    BY <2>2 DEF Call
  <2>4. materialCalls' = [materialCalls EXCEPT ![m] = IF x.phase = "answered" THEN NoCall ELSE y]
    BY <1>2, <2>1, <2>2 DEF MaterialReturns
  <2> QED BY <1>3, <2>1, <2>3, <2>4, NoCallFacts
<1>9. /\ materialCalls'[m] = w /\ \A n \in MaterialCalls : n # m => materialCalls'[n] = materialCalls[n]
      /\ attempts'[q] = a /\ \A p \in Requests : p # q => attempts'[p] = attempts[p]
  BY <1>7, <1>8 DEF LocalInv, SolverType
<1>10. \A p \in Requests : p # q /\ attempts[p].call # None => attempts[p].call \in MaterialCalls \ {m}
  BY <1>3 DEF LocalInv, SolverType, Attempt, MaterialKnown
<1>11. ASSUME NEW p \in Requests
       PROVE  /\ attempts'[p].result => p \in invoices'
              /\ materials'[p].state = "READY" => p \in invoices'
              /\ attempts'[p].call # None => /\ materialCalls'[attempts'[p].call].phase # "idle"
                                             /\ materialCalls'[attempts'[p].call].of = p
  <2>1. CASE p = q
    BY <1>1, <1>4, <1>7, <1>9, <2>1 DEF LocalInv, MaterialKnown
  <2>2. CASE p # q
    <3>1. attempts'[p] = attempts[p] /\ materials'[p] = materials[p] /\ invoices' = invoices
      BY <1>1, <1>9, <2>2
    <3>2. /\ attempts[p].result => p \in invoices
          /\ materials[p].state = "READY" => p \in invoices
          /\ attempts[p].call # None => /\ materialCalls[attempts[p].call].phase # "idle"
                                        /\ materialCalls[attempts[p].call].of = p
      BY DEF LocalInv, MaterialKnown
    <3>3. ASSUME attempts[p].call # None
          PROVE  materialCalls'[attempts[p].call] = materialCalls[attempts[p].call]
      BY <1>9, <1>10, <2>2, <3>3
    <3> QED BY <3>1, <3>2, <3>3
  <2> QED BY <2>1, <2>2
<1>12. ASSUME NEW n \in MaterialCalls
       PROVE  /\ materialCalls'[n].phase # "idle" => materialCalls'[n].of \in Requests
              /\ \/ materialCalls'[n].phase = "resolved"
                 \/ materialCalls'[n].phase = "answered" /\ materialCalls'[n].status = 200
                 => materialCalls'[n].of \in invoices'
  BY <1>1, <1>3, <1>8, <1>9, NoCallFacts DEF LocalInv, MaterialKnown
<1>13. MaterialKnown'
  BY <1>11, <1>12 DEF MaterialKnown
<1>14. materialCalls' \in [MaterialCalls -> Call] /\ attempts' \in [Requests -> Attempt]
  BY <1>7, <1>8 DEF LocalInv, SolverType
<1>15. SolverType'
  BY <1>1, <1>6, <1>14 DEF LocalInv, SolverType
<1> QED BY <1>5, <1>6, <1>13, <1>15 DEF LocalInv, ServicesKeep

\* Every step of the solver's services.
LEMMA SolverStep ==
  ASSUME LocalInv, OnePacket, now \in Nat, SolverAssumption, SolverNext
  PROVE  LocalInv' /\ ServicesKeep
<1>1. ASSUME NEW c \in Calls, FinalizationArrives(c) \/ AskMaterial(c) \/ FinalizationGivesUp(c)
      PROVE  LocalInv' /\ ServicesKeep
  BY <1>1, FinalizationArrivesKeeps, AskMaterialKeeps, GivesUpKeeps
<1>2. ASSUME NEW c \in Calls, NEW until \in {now + 1, calls[c].expiresAt}, BuildEnds(c, until)
      PROVE  LocalInv' /\ ServicesKeep
  <2>1. until \in Int
    BY DEF LocalInv, SolverType, Call
  <2> QED BY <1>2, <2>1, BuildEndsKeeps
<1>3. ASSUME NEW c \in Calls, NEW interrupted \in BOOLEAN, SigningArrives(c, interrupted)
      PROVE  LocalInv' /\ ServicesKeep
  BY <1>3, SigningArrivesKeeps
<1>4. ASSUME NEW q \in Requests, NEW found \in BOOLEAN, MaterialReturns(q, found)
      PROVE  LocalInv' /\ ServicesKeep
  BY <1>4, MaterialReturnsKeeps
<1>5. ASSUME NEW q \in Requests, LookupEnds(q) \/ InvoiceAdded(q) \/ AddEnds(q)
      PROVE  LocalInv' /\ ServicesKeep
  BY <1>5, ResolutionKeeps
<1>6. ASSUME NEW m \in MaterialCalls,
             \/ MaterialArrives(m) \/ MaterialCompletes(m) \/ MaterialGivesUp(m) \/ MaterialForgotten(m)
      PROVE  LocalInv' /\ ServicesKeep
  BY <1>6, MaterialArrivesKeeps, MaterialCompletesKeeps, MaterialGivesUpKeeps, MaterialForgottenKeeps
<1> QED BY <1>1, <1>2, <1>3, <1>4, <1>5, <1>6, EndpointCrashKeeps, MaterialCrashKeeps DEF SolverNext

-------------------------------------------------------------------------------
(* The coordinator: what a step leaves of a request. *)

\* The calls about a request are among those it had, and the ones it awaits are there.
CallsFollow(p) ==
  \A c \in Calls :
    /\ calls'[c].kind = "finalize" /\ calls'[c].of = p =>
         Finalizes(c, p) /\ calls'[c].expiresAt = calls[c].expiresAt
    /\ calls'[c].kind = "sign" /\ calls'[c].of = p => Signs(c, p)
AwaitedFollow(p) ==
  /\ pending'[p] # None => /\ pending'[p] = pending[p]
                           /\ calls'[pending[p]].kind = "finalize" /\ calls'[pending[p]].of = p
  /\ signing'[p].call # None => /\ signing'[p].call = signing[p].call
                                /\ calls'[signing[p].call].kind = "sign" /\ calls'[signing[p].call].of = p
Untroubled == Grows /\ RowsKept /\ SigningsKept

\* A request that a step is not about, apart from calls, rows and records that end.
LEMMA AgreedStays ==
  ASSUME NEW p \in Requests, Agreed(p), CallsFollow(p), AwaitedFollow(p), Untroubled,
         firm'[p] = firm[p], records'[p] \in {records[p], NoRecord}
  PROVE  Agreed(p)'
<1>1. Awaited(p)'
  BY DEF Awaited, AwaitedFollow, Finalizes, Signs
<1>2. \/ records'[p] = records[p]
      \/ records'[p].state = "none" /\ records'[p].intentExpiresAt = 0
  BY DEF NoRecord
<1>3. PacketOf(p)'
  <2>1. PICK expiry \in Int : /\ \A c \in Calls : Finalizes(c, p) => calls[c].expiresAt = expiry
                              /\ finalizations[p].state # "NONE" => finalizations[p].expiresAt = expiry
                              /\ records[p].state = "finalizing" => records[p].attemptExpiresAt = expiry
    BY DEF Agreed, PacketOf
  <2>2. \A c \in Calls : Finalizes(c, p)' => calls'[c].expiresAt = expiry
    BY <2>1 DEF CallsFollow, Finalizes
  <2>3. finalizations'[p].state # "NONE" => finalizations'[p].expiresAt = expiry
    BY <2>1 DEF Untroubled, RowsKept
  <2>4. records'[p].state = "finalizing" => records'[p].attemptExpiresAt = expiry
    BY <1>2, <2>1
  <2> QED BY <2>2, <2>3, <2>4 DEF PacketOf
<1>4. PacketOnce(p)'
  <2>1. Untouched(p) => Untouched(p)'
    BY DEF Untouched, CallsFollow, Finalizes, Untroubled, RowsKept
  <2> QED BY <1>2, <2>1 DEF Agreed, PacketOnce
<1>5. FirmFollows(p)'
  <2>1. \A c \in Calls : Signs(c, p)' => Signs(c, p)
    BY DEF CallsFollow, Signs
  <2>2. signings'[p].state # "NONE" => firm[p].settled # 0
    BY DEF Agreed, FirmFollows, Untroubled, SigningsKept
  <2>3. answered[p] \subseteq answered'[p] /\ invoices \subseteq invoices'
    BY DEF Untroubled, Grows
  <2> QED BY <1>2, <2>1, <2>2, <2>3 DEF Agreed, FirmFollows
<1> QED BY <1>1, <1>3, <1>4, <1>5 DEF Agreed

LEMMA TakenStays ==
  ASSUME NEW p \in Requests, RecordTaken(p), IntakeType, CeremonyType, now' \in Nat, now <= now',
         rows'[p] = rows[p], sessions'[p] \in {sessions[p], NoSession}, pending'[p] \in {pending[p], None},
         records'[p] \in {records[p], NoRecord}
  PROVE  RecordTaken(p)'
<1>1. records[p].expiresAt \in Int /\ sessions[p].expiresAt \in Int /\ now \in Nat
  BY DEF IntakeType, CeremonyType, Record
<1>2. NoRecord.state = "none" /\ NoRecord.expiresAt = 0 /\ NoSession.expiresAt = 0
  BY DEF NoRecord, NoSession
<1>3. pending'[p] # None => records'[p].state \in {"none", "selected", "finalizing"}
  BY <1>2 DEF RecordTaken
<1>4. records'[p].expiresAt > now' => rows'[p].state = "SELECTED" /\ records'[p].expiresAt <= rows'[p].expiresAt
  <2>1. CASE records'[p] = records[p]
    BY <1>1, <2>1 DEF RecordTaken
  <2>2. CASE records'[p] = NoRecord
    BY <1>1, <1>2, <2>2
  <2> QED BY <2>1, <2>2
<1>5. sessions'[p].expiresAt > now' => rows'[p].state # "NONE" /\ rows'[p].expiresAt = sessions'[p].expiresAt
  <2>1. CASE sessions'[p] = sessions[p]
    BY <1>1, <2>1 DEF RecordTaken
  <2>2. CASE sessions'[p] = NoSession
    BY <1>1, <1>2, <2>2
  <2> QED BY <2>1, <2>2
<1> QED BY <1>3, <1>4, <1>5 DEF RecordTaken

\* A step that leaves the solver alone.
LEMMA SolverStays ==
  ASSUME LocalInv, UNCHANGED solverVars
  PROVE  LocalInv' /\ Untroubled /\ \A p \in Requests : CallsFollow(p)
<1>1. UNCHANGED <<calls, finalizations, signings, attempts, materialCalls, materials, invoices, answered>>
  BY DEF solverVars
<1>2. AnsweredIsReady' /\ RowsKept /\ Grows
  BY <1>1, RowsStay DEF LocalInv
<1>3. CallsKnow'
  BY <1>1, <1>2, CallsStay DEF LocalInv
<1>4. MaterialKnown' /\ SolverType' /\ SigningsKept
  BY <1>1 DEF LocalInv, MaterialKnown, SolverType, SigningsKept
<1>5. \A p \in Requests : CallsFollow(p)
  BY <1>1 DEF CallsFollow, Finalizes, Signs
<1> QED BY <1>2, <1>3, <1>4, <1>5 DEF LocalInv, Untroubled

LEMMA AwaitedStays ==
  ASSUME NEW p \in Requests, Awaited(p), UNCHANGED calls,
         pending'[p] \in {pending[p], None},
         signing'[p] = signing[p] \/ signing'[p].call \in {signing[p].call, None}
  PROVE  AwaitedFollow(p)
  BY DEF Awaited, AwaitedFollow, Finalizes, Signs

\* The variables of the solver's services that a client's step leaves alone.
Untouching == UNCHANGED <<finalizations, signings, attempts, materialVars, crashes, answered>>

\* An idle call is replaced by a packet, or a call that is over by none.
LEMMA ClientKeeps ==
  ASSUME LocalInv, Untouching, NEW c \in Calls, NEW v \in Call, calls' = [calls EXCEPT ![c] = v],
         \/ v = NoCall
         \/ v.phase = "sent" /\ v.kind \in {"finalize", "sign"} /\ v.of \in Requests
  PROVE  LocalInv' /\ Untroubled
<1>1. UNCHANGED <<finalizations, signings, attempts, materialCalls, materials, invoices, answered>>
  BY DEF Untouching, materialVars
<1>2. AnsweredIsReady' /\ RowsKept /\ Grows
  BY <1>1, RowsStay DEF LocalInv
<1>3. calls' \in [Calls -> Call] /\ calls'[c] = v /\ \A d \in Calls : d # c => calls'[d] = calls[d]
  BY DEF LocalInv, SolverType
<1>4. ASSUME NEW d \in Calls PROVE CallKnows(d)'
  <2>1. CASE d = c
    <3>1. \/ v.phase = "idle" /\ v.kind = None
          \/ v.phase = "sent" /\ v.kind \in {"finalize", "sign"} /\ v.of \in Requests
      BY NoCallFacts
    <3>2. None \notin {"finalize", "sign"}
      BY DEF None
    <3> QED BY <1>3, <2>1, <3>1, <3>2 DEF CallKnows
  <2>2. CASE d # c
    BY <1>1, <1>3, <2>2 DEF CallKnows, LocalInv, CallsKnow
  <2> QED BY <2>1, <2>2
<1>5. CallsKnow'
  BY <1>4 DEF CallsKnow
<1>6. MaterialKnown' /\ SolverType' /\ SigningsKept
  BY <1>1, <1>3 DEF LocalInv, MaterialKnown, SolverType, SigningsKept
<1> QED BY <1>2, <1>5, <1>6 DEF LocalInv, Untroubled

\* Records, firm offers and rows keep their type when one field is replaced.
LEMMA SetRecordState ==
  ASSUME NEW r \in Record,
         NEW s \in {"none", "selected", "reserved", "finalizing", "finalized", "authorized", "failed"}
  PROVE  [r EXCEPT !.state = s] \in Record
  BY DEF Record
LEMMA SetRecordExpiry == ASSUME NEW r \in Record, NEW t \in Int PROVE [r EXCEPT !.expiresAt = t] \in Record
  BY DEF Record
LEMMA SetRecordAttempt == ASSUME NEW r \in Record, NEW t \in Int PROVE [r EXCEPT !.attemptExpiresAt = t] \in Record
  BY DEF Record
LEMMA SetRecordResponse == ASSUME NEW r \in Record, NEW x \in Values PROVE [r EXCEPT !.response = x] \in Record
  BY DEF Record
LEMMA SetRecordUntil == ASSUME NEW r \in Record, NEW t \in Int PROVE [r EXCEPT !.until = t] \in Record
  BY DEF Record
LEMMA SetRecordIntent == ASSUME NEW r \in Record, NEW t \in Int PROVE [r EXCEPT !.intentExpiresAt = t] \in Record
  BY DEF Record
LEMMA NoRecordType == NoRecord \in Record
  BY DEF NoRecord, Record, Values
LEMMA SetFirmState ==
  ASSUME NEW f \in Firm, NEW s \in {"NONE", "ACTIVE", "CLOSED"} PROVE [f EXCEPT !.state = s] \in Firm
  BY DEF Firm
LEMMA NoFirmType == NoFirm \in Firm
<1>1. 0 \in Int /\ 0 \in Values /\ FALSE \in BOOLEAN
  BY DEF Values
<1> QED BY <1>1 DEF NoFirm, Firm
LEMMA SetFirmExpiry == ASSUME NEW f \in Firm, NEW t \in Int PROVE [f EXCEPT !.expiresAt = t] \in Firm
  BY DEF Firm
LEMMA SetFirmUntil == ASSUME NEW f \in Firm, NEW t \in Int PROVE [f EXCEPT !.authorizedUntil = t] \in Firm
  BY DEF Firm
LEMMA SetFirmBound == ASSUME NEW f \in Firm, NEW x \in Values PROVE [f EXCEPT !.bound = x] \in Firm
  BY DEF Firm
LEMMA SetFirmSettled == ASSUME NEW f \in Firm, NEW x \in Values PROVE [f EXCEPT !.settled = x] \in Firm
  BY DEF Firm
LEMMA SetFirmIntent == ASSUME NEW f \in Firm, NEW x \in BOOLEAN PROVE [f EXCEPT !.intent = x] \in Firm
  BY DEF Firm
LEMMA SetRowState ==
  ASSUME NEW r \in Row, NEW s \in {"NONE", "CLAIMED", "READY", "SELECTED"} PROVE [r EXCEPT !.state = s] \in Row
  BY DEF Row
LEMMA SetRowExpiry == ASSUME NEW r \in Row, NEW t \in Int PROVE [r EXCEPT !.expiresAt = t] \in Row
  BY DEF Row

\* A record is replaced; those that have expired are gone.
LEMMA ReplaceFacts ==
  ASSUME CeremonyType, NEW q \in Requests, NEW r \in Record, Replace(q, r)
  PROVE  /\ records' \in [Requests -> Record] /\ records'[q] = r
         /\ \A p \in Requests : p # q => records'[p] \in {records[p], NoRecord}
  BY NoRecordType DEF Replace, LiveRecords, CeremonyType

\* What the step of another request leaves.
Aside(p) ==
  /\ firm'[p] = firm[p] /\ records'[p] \in {records[p], NoRecord}
  /\ pending'[p] = pending[p] /\ signing'[p] = signing[p]
  /\ rows'[p] = rows[p] /\ sessions'[p] \in {sessions[p], NoSession}

\* A step of one request that leaves the solver alone.
LEMMA OwnStep ==
  ASSUME CeremonyInv, UNCHANGED <<now, solverVars>>, NEW q \in Requests, IntakeType', CeremonyType',
         \A p \in Requests : p # q => Aside(p),
         AwaitedFollow(q), PacketOnce(q)', FirmFollows(q)', RecordTaken(q)',
         records'[q].state = "finalizing" =>
           records[q].state = "finalizing" /\ records'[q].attemptExpiresAt = records[q].attemptExpiresAt
  PROVE  CeremonyInv'
<1>1. LocalInv' /\ Untroubled /\ (\A p \in Requests : CallsFollow(p)) /\ UNCHANGED <<calls, finalizations>>
  BY SolverStays DEF CeremonyInv, solverVars
<1>2. ASSUME NEW p \in Requests, p # q PROVE Agreed(p)' /\ RecordTaken(p)'
  <2>1. Agreed(p) /\ RecordTaken(p) /\ Aside(p) /\ CallsFollow(p)
    BY <1>1, <1>2 DEF CeremonyInv
  <2>2. AwaitedFollow(p)
    BY <1>1, <2>1, AwaitedStays DEF Aside, Agreed
  <2>3. Agreed(p)'
    BY <1>1, <2>1, <2>2, AgreedStays DEF Aside
  <2>4. now' \in Nat /\ now <= now'
    BY DEF CeremonyInv, IntakeType
  <2>5. RecordTaken(p)'
    BY <2>1, <2>4, TakenStays DEF Aside, CeremonyInv
  <2> QED BY <2>3, <2>5
<1>3. Agreed(q)'
  <2>1. Awaited(q)'
    BY DEF AwaitedFollow, Awaited, Finalizes, Signs
  <2>2. PacketOf(q)'
    BY <1>1 DEF CeremonyInv, Agreed, PacketOf, Finalizes
  <2> QED BY <2>1, <2>2 DEF Agreed
<1> QED BY <1>1, <1>2, <1>3 DEF CeremonyInv

\* The services' steps leave the coordinator what it agreed on.
LEMMA SolverNextKeeps ==
  ASSUME CeremonyInv, SolverAssumption, SolverNext, UNCHANGED <<now, restarts, intakeVars, ceremonyVars>>
  PROVE  CeremonyInv'
<1>1. UNCHANGED <<now, rows, sessions, collected, records, pending, signing, firm>>
  BY DEF intakeVars, ceremonyVars
<1>2. LocalInv /\ OnePacket /\ now \in Nat
  BY DEF CeremonyInv, OnePacket, Agreed, IntakeType
<1>3. LocalInv' /\ ServicesKeep
  BY <1>2, SolverStep
<1>4. IntakeType' /\ CeremonyType'
  BY <1>1 DEF CeremonyInv, IntakeType, CeremonyType
<1>5. ASSUME NEW p \in Requests PROVE Agreed(p)' /\ RecordTaken(p)'
  <2>1. Agreed(p) /\ RecordTaken(p)
    BY DEF CeremonyInv
  <2>2. pending[p] \in Calls \cup {None} /\ signing[p].call \in Calls \cup {None}
    BY DEF CeremonyInv, CeremonyType, Signing
  <2>3. CallsFollow(p)
    BY <1>3 DEF ServicesKeep, CallsKept, Same, CallsFollow, Finalizes, Signs
  <2>4. AwaitedFollow(p)
    BY <1>1, <1>3, <2>1, <2>2 DEF ServicesKeep, CallsKept, Same, Agreed, Awaited, AwaitedFollow, Finalizes, Signs
  <2>5. Agreed(p)'
    BY <1>1, <1>3, <2>1, <2>3, <2>4, AgreedStays DEF ServicesKeep, Untroubled
  <2>6. RecordTaken(p)'
    BY <1>1, <2>1 DEF RecordTaken
  <2> QED BY <2>5, <2>6
<1> QED BY <1>3, <1>4, <1>5 DEF CeremonyInv

-------------------------------------------------------------------------------
(* Selection, reservation and release. *)

LEMMA SelectQuoteKeeps ==
  ASSUME CeremonyInv, NEW q \in Requests, SelectQuote(q)
  PROVE  CeremonyInv'
<1>1. /\ rows[q].state = "READY" /\ rows[q].expiresAt > now
      /\ rows' = [rows EXCEPT ![q].state = "SELECTED"]
      /\ sessions' = [LiveSessions EXCEPT ![q] = NoSession]
      /\ UNCHANGED <<now, collected, solverVars, pending, signing, firm>>
  BY DEF SelectQuote, ClaimSelection, Selectable
<1>2. /\ Agreed(q) /\ RecordTaken(q) /\ now \in Nat /\ records[q] \in Record
      /\ sessions[q].expiresAt \in Int /\ rows[q] \in Row
  BY DEF CeremonyInv, IntakeType, CeremonyType
<1>3. PICK r \in Record :
        /\ Replace(q, r)
        /\ \/ r.state = "selected" /\ r.expiresAt = sessions[q].expiresAt /\ sessions[q].expiresAt > now
           \/ r \in {records[q], NoRecord}
        /\ r = records[q] \/ r.intentExpiresAt = 0
        /\ r = records[q] \/ r.state \in {"none", "selected"}
  <2>1. CASE /\ LiveSessions[q] # NoSession
             /\ Replace(q, [NoRecord EXCEPT !.state = "selected", !.expiresAt = sessions[q].expiresAt])
    <3>1. PICK r0 \in Record : r0 = [NoRecord EXCEPT !.state = "selected"]
      BY NoRecordType, SetRecordState
    <3>2. PICK t \in Int : t = sessions[q].expiresAt
      BY <1>2
    <3>3. PICK r \in Record : r = [r0 EXCEPT !.expiresAt = t]
      BY SetRecordExpiry
    <3>4. r0.state = "selected" /\ r0.intentExpiresAt = 0
      BY <3>1 DEF NoRecord
    <3>5. r.state = "selected" /\ r.expiresAt = t /\ r.intentExpiresAt = 0
      BY <3>3, <3>4 DEF Record
    <3>6. Replace(q, r)
      BY <2>1, <3>1, <3>2, <3>3
    <3>7. sessions[q].expiresAt > now
      BY <1>2, <2>1 DEF LiveSessions
    <3> QED BY <3>2, <3>5, <3>6, <3>7
  <2>2. CASE records' = LiveRecords
    <3>1. PICK r \in Record : r = LiveRecords[q] /\ r \in {records[q], NoRecord}
      BY <1>2, NoRecordType DEF LiveRecords
    <3>2. LiveRecords = [LiveRecords EXCEPT ![q] = r]
      BY <3>1 DEF LiveRecords
    <3>3. Replace(q, r)
      BY <2>2, <3>2 DEF Replace
    <3> QED BY <3>1, <3>3 DEF NoRecord
  <2> QED BY <2>1, <2>2 DEF SelectQuote
<1>4. /\ records' \in [Requests -> Record] /\ records'[q] = r
      /\ \A p \in Requests : p # q => records'[p] \in {records[p], NoRecord}
  BY <1>3, ReplaceFacts DEF CeremonyInv
<1>5. PICK w \in Row : rows' = [rows EXCEPT ![q] = w] /\ w.state = "SELECTED" /\ w.expiresAt = rows[q].expiresAt
  <2>1. PICK w \in Row : w = [rows[q] EXCEPT !.state = "SELECTED"]
    BY <1>2, SetRowState
  <2>2. w.state = "SELECTED" /\ w.expiresAt = rows[q].expiresAt
    BY <1>2, <2>1 DEF Row
  <2> QED BY <1>1, <2>1, <2>2
<1>6. /\ rows' \in [Requests -> Row] /\ rows'[q] = w
      /\ \A p \in Requests : p # q => rows'[p] = rows[p]
  BY <1>5 DEF CeremonyInv, IntakeType
<1>7. /\ sessions' = [p \in Requests |-> sessions'[p]] /\ sessions'[q] = NoSession
      /\ \A p \in Requests : sessions'[p] \in {sessions[p], NoSession}
  BY <1>1 DEF LiveSessions
<1>8. IntakeType'
  <2>1. \A p \in Requests : sessions[p].expiresAt \in Int /\ NoSession.expiresAt \in Int
    BY DEF CeremonyInv, IntakeType, NoSession
  <2>2. \A p \in Requests : sessions'[p].expiresAt \in Int
    BY <1>7, <2>1
  <2>3. now' \in Nat /\ collected' \in [Requests -> Nat]
    BY <1>1 DEF CeremonyInv, IntakeType
  <2> QED BY <1>6, <1>7, <2>2, <2>3 DEF IntakeType
<1>9. CeremonyType'
  BY <1>1, <1>4 DEF CeremonyInv, CeremonyType
<1>10. \A p \in Requests : p # q => Aside(p)
  BY <1>1, <1>4, <1>6, <1>7 DEF Aside
<1>11. UNCHANGED <<calls, finalizations, signings, answered, invoices>>
  BY <1>1 DEF solverVars
<1>12. AwaitedFollow(q)
  BY <1>1, <1>2, <1>11, AwaitedStays DEF Agreed
<1>13. PacketOnce(q)' /\ FirmFollows(q)'
  BY <1>1, <1>2, <1>3, <1>4, <1>11 DEF Agreed, PacketOnce, FirmFollows, Untouched, Finalizes, Signs
<1>14. RecordTaken(q)'
  <2>1. NoSession.expiresAt = 0 /\ NoRecord.expiresAt = 0 /\ NoRecord.state = "none"
    BY DEF NoSession, NoRecord
  <2>2. rows[q].expiresAt \in Int /\ records[q].expiresAt \in Int
    BY <1>2 DEF Row, Record
  <2>3. pending'[q] # None => records'[q].state \in {"none", "selected", "finalizing"}
    BY <1>1, <1>2, <1>3, <1>4 DEF RecordTaken
  <2>4. records[q].expiresAt <= now
    BY <1>1, <1>2, <2>2 DEF RecordTaken
  <2>5. records'[q].expiresAt > now' => records'[q].expiresAt <= rows'[q].expiresAt
    BY <1>1, <1>2, <1>3, <1>4, <1>5, <1>6, <2>1, <2>2, <2>4 DEF RecordTaken
  <2>6. ~(sessions'[q].expiresAt > now')
    BY <1>1, <1>2, <1>7, <2>1
  <2> QED BY <1>5, <1>6, <2>3, <2>5, <2>6 DEF RecordTaken
<1>15. records'[q].state = "finalizing" =>
         records[q].state = "finalizing" /\ records'[q].attemptExpiresAt = records[q].attemptExpiresAt
  BY <1>3, <1>4
<1> QED BY <1>1, <1>8, <1>9, <1>10, <1>12, <1>13, <1>14, <1>15, OwnStep

\* A step that writes a record, and perhaps the firm offer, of a request.
LEMMA RecordStep ==
  ASSUME CeremonyInv, NEW q \in Requests, NEW r \in Record, NEW f \in Firm,
         Replace(q, r), firm' = [firm EXCEPT ![q] = f],
         UNCHANGED <<now, rows, sessions, collected, solverVars, pending, signing>>,
         r.state # "none", r.expiresAt <= records[q].expiresAt,
         pending[q] # None => r.state \in {"none", "selected", "finalizing"},
         PacketOnce(q)', FirmFollows(q)', r.state # "finalizing"
  PROVE  CeremonyInv'
<1>1. /\ records' \in [Requests -> Record] /\ records'[q] = r
      /\ \A p \in Requests : p # q => records'[p] \in {records[p], NoRecord}
  BY ReplaceFacts DEF CeremonyInv
<1>2. firm' \in [Requests -> Firm] /\ firm'[q] = f /\ \A p \in Requests : p # q => firm'[p] = firm[p]
  BY DEF CeremonyInv, CeremonyType
<1>3. IntakeType' /\ CeremonyType'
  BY <1>1, <1>2 DEF CeremonyInv, IntakeType, CeremonyType
<1>4. \A p \in Requests : p # q => Aside(p)
  BY <1>1, <1>2 DEF Aside
<1>5. AwaitedFollow(q)
  BY AwaitedStays DEF CeremonyInv, Agreed, solverVars
<1>6. RecordTaken(q)'
  <2>1. /\ RecordTaken(q) /\ r.expiresAt \in Int /\ records[q].expiresAt \in Int /\ rows[q].expiresAt \in Int
        /\ now \in Nat
    BY DEF CeremonyInv, CeremonyType, IntakeType, Record, Row
  <2> QED BY <1>1, <2>1 DEF RecordTaken
<1> QED BY <1>1, <1>3, <1>4, <1>5, <1>6, OwnStep

LEMMA LiveRecord ==
  ASSUME CeremonyType, now \in Nat, NEW q \in Requests, LiveRecords[q].state # "none"
  PROVE  LiveRecords[q] = records[q] /\ records[q].expiresAt > now
<1>1. records[q].expiresAt \in Int
  BY DEF CeremonyType, Record
<1> QED BY <1>1 DEF LiveRecords, NoRecord

\* An offer that was never made has no trace at the solver or in the record.
LEMMA NothingYet ==
  ASSUME CeremonyInv, NEW q \in Requests, Untouched(q)
  PROVE  /\ pending[q] = None /\ answered[q] = {} /\ firm[q].bound = 0 /\ firm[q].settled = 0
         /\ signings[q].state = "NONE" /\ records[q].intentExpiresAt = 0
         /\ \A c \in Calls : ~Signs(c, q)
<1>1. Agreed(q) /\ pending[q] \in Calls \cup {None}
  BY DEF CeremonyInv, CeremonyType
<1>2. pending[q] = None
  BY <1>1 DEF Agreed, Awaited, Untouched
<1>3. answered[q] = {}
  BY DEF CeremonyInv, LocalInv, AnsweredIsReady, Untouched
<1>4. firm[q].bound = 0 /\ firm[q].settled = 0
  BY <1>1, <1>3 DEF Agreed, FirmFollows
<1> QED BY <1>1, <1>2, <1>3, <1>4 DEF Agreed, FirmFollows

LEMMA ReserveSelectedKeeps ==
  ASSUME CeremonyInv, NEW q \in Requests, NEW until \in Int, ReserveSelected(q, until)
  PROVE  CeremonyInv'
<1>1. /\ LiveRecords[q].state = "selected" /\ firm[q].state = "NONE"
      /\ until <= records[q].expiresAt
      /\ firm' = [firm EXCEPT ![q] = Reserved(q, until)]
      /\ Replace(q, [records[q] EXCEPT !.state = "reserved", !.expiresAt = until])
      /\ UNCHANGED <<now, rows, sessions, collected, solverVars, pending, signing>>
  BY DEF ReserveSelected, SelectionAuthorized, intakeVars
<1>2. records[q] \in Record /\ Agreed(q) /\ RecordTaken(q) /\ now \in Nat /\ records[q].expiresAt \in Int
  BY DEF CeremonyInv, CeremonyType, IntakeType, Record
<1>3. records[q].state = "selected"
  BY <1>1, <1>2, LiveRecord DEF CeremonyInv
<1>4. Untouched(q)
  BY <1>1, <1>2 DEF Agreed, PacketOnce
<1>5. PICK r \in Record : /\ Replace(q, r) /\ r.state = "reserved" /\ r.expiresAt = until
                          /\ r.intentExpiresAt = records[q].intentExpiresAt
  <2>1. PICK r0 \in Record : r0 = [records[q] EXCEPT !.state = "reserved"]
    BY <1>2, SetRecordState
  <2>2. PICK r \in Record : r = [r0 EXCEPT !.expiresAt = until]
    BY SetRecordExpiry
  <2>3. r0.state = "reserved" /\ r0.intentExpiresAt = records[q].intentExpiresAt
    BY <1>2, <2>1 DEF Record
  <2>4. r.state = "reserved" /\ r.expiresAt = until /\ r.intentExpiresAt = records[q].intentExpiresAt
    BY <2>2, <2>3 DEF Record
  <2>5. Replace(q, r)
    BY <1>1, <2>1, <2>2
  <2> QED BY <2>4, <2>5
<1>6. PICK f \in Firm : f = Reserved(q, until) /\ f.state = "ACTIVE" /\ f.bound = 0 /\ f.settled = 0
  <2>1. PICK f0 \in Firm : f0 = NoFirm
    BY NoFirmType
  <2>2. f0.bound = 0 /\ f0.settled = 0
    BY <2>1 DEF NoFirm
  <2>3. PICK f1 \in Firm : f1 = [f0 EXCEPT !.state = "ACTIVE"]
    BY SetFirmState
  <2>4. PICK f2 \in Firm : f2 = [f1 EXCEPT !.expiresAt = records[q].expiresAt]
    BY <1>2, SetFirmExpiry
  <2>5. PICK f \in Firm : f = [f2 EXCEPT !.authorizedUntil = until]
    BY SetFirmUntil
  <2>6. f1.state = "ACTIVE" /\ f1.bound = 0 /\ f1.settled = 0
    BY <2>2, <2>3 DEF Firm
  <2>7. f2.state = "ACTIVE" /\ f2.bound = 0 /\ f2.settled = 0
    BY <2>4, <2>6 DEF Firm
  <2>8. f.state = "ACTIVE" /\ f.bound = 0 /\ f.settled = 0
    BY <2>5, <2>7 DEF Firm
  <2>9. f = Reserved(q, until)
    BY <2>1, <2>3, <2>4, <2>5 DEF Reserved
  <2> QED BY <2>8, <2>9
<1>7. firm' = [firm EXCEPT ![q] = f] /\ firm'[q] = f
  BY <1>1, <1>6 DEF CeremonyInv, CeremonyType
<1>8. records'[q] = r
  BY <1>5, ReplaceFacts DEF CeremonyInv
<1>9. UNCHANGED <<calls, finalizations, signings, answered, invoices>>
  BY <1>1 DEF solverVars
<1>10. /\ pending[q] = None /\ signings[q].state = "NONE" /\ records[q].intentExpiresAt = 0
       /\ \A c \in Calls : ~Signs(c, q)
  BY <1>4, NothingYet
<1>11. PacketOnce(q)'
  BY <1>4, <1>6, <1>7, <1>8, <1>9 DEF PacketOnce, Untouched, Finalizes
<1>12. FirmFollows(q)'
  BY <1>5, <1>6, <1>7, <1>8, <1>9, <1>10 DEF FirmFollows, Signs
<1> QED BY <1>1, <1>5, <1>7, <1>10, <1>11, <1>12, RecordStep

\* A step that writes the state or the intent of a firm offer.
LEMMA FirmStep ==
  ASSUME CeremonyInv, NEW q \in Requests, NEW f \in Firm, firm' = [firm EXCEPT ![q] = f],
         UNCHANGED <<now, rows, sessions, collected, solverVars, records, pending, signing>>,
         firm[q].state # "NONE", f.state # "NONE", f.bound = firm[q].bound, f.settled = firm[q].settled
  PROVE  CeremonyInv'
<1>1. firm' \in [Requests -> Firm] /\ firm'[q] = f /\ \A p \in Requests : p # q => firm'[p] = firm[p]
  BY DEF CeremonyInv, CeremonyType
<1>2. IntakeType' /\ CeremonyType'
  BY <1>1 DEF CeremonyInv, IntakeType, CeremonyType
<1>3. \A p \in Requests : p # q => Aside(p)
  BY <1>1 DEF Aside
<1>4. Agreed(q) /\ RecordTaken(q) /\ UNCHANGED <<calls, finalizations, signings, answered, invoices>>
  BY DEF CeremonyInv, solverVars
<1>5. AwaitedFollow(q)
  BY <1>4, AwaitedStays DEF Agreed
<1>6. PacketOnce(q)' /\ FirmFollows(q)'
  BY <1>1, <1>4 DEF Agreed, PacketOnce, FirmFollows, Untouched, Finalizes, Signs
<1>7. RecordTaken(q)'
  BY <1>4 DEF RecordTaken
<1> QED BY <1>2, <1>3, <1>5, <1>6, <1>7, OwnStep

LEMMA ReleaseKeeps ==
  ASSUME CeremonyInv, NEW q \in Requests, Release(q)
  PROVE  CeremonyInv'
<1>1. /\ firm[q].state = "ACTIVE" /\ firm' = [firm EXCEPT ![q].state = "CLOSED"] /\ firm[q] \in Firm
      /\ UNCHANGED <<now, rows, sessions, collected, solverVars, records, pending, signing>>
  BY DEF Release, intakeVars, CeremonyInv, CeremonyType
<1>2. PICK f \in Firm : f = [firm[q] EXCEPT !.state = "CLOSED"]
  BY <1>1, SetFirmState
<1>3. f.state = "CLOSED" /\ f.bound = firm[q].bound /\ f.settled = firm[q].settled
  BY <1>1, <1>2 DEF Firm
<1>4. firm' = [firm EXCEPT ![q] = f]
  BY <1>1, <1>2
<1> QED BY <1>1, <1>3, <1>4, FirmStep

LEMMA BindContractIntentKeeps ==
  ASSUME CeremonyInv, NEW q \in Requests, BindContractIntent(q)
  PROVE  CeremonyInv'
<1>1. /\ firm[q].state = "ACTIVE" /\ firm' = [firm EXCEPT ![q].intent = TRUE] /\ firm[q] \in Firm
      /\ UNCHANGED <<now, rows, sessions, collected, solverVars, records, pending, signing>>
  BY DEF BindContractIntent, Active, intakeVars, CeremonyInv, CeremonyType
<1>2. PICK f \in Firm : f = [firm[q] EXCEPT !.intent = TRUE]
  BY <1>1, SetFirmIntent
<1>3. f.state = firm[q].state /\ f.bound = firm[q].bound /\ f.settled = firm[q].settled
  BY <1>1, <1>2 DEF Firm
<1>4. firm' = [firm EXCEPT ![q] = f]
  BY <1>1, <1>2
<1> QED BY <1>1, <1>3, <1>4, FirmStep

\* A record ends for good.
LEMMA FailedKeeps ==
  ASSUME CeremonyInv, NEW q \in Requests, pending[q] = None, Replace(q, Failed(q)),
         UNCHANGED <<now, rows, sessions, collected, solverVars, pending, signing, firm>>
  PROVE  CeremonyInv'
<1>1. records[q] \in Record /\ firm[q] \in Firm /\ Agreed(q) /\ records[q].expiresAt \in Int
  BY DEF CeremonyInv, CeremonyType, Record
<1>2. PICK r \in Record : r = [records[q] EXCEPT !.state = "failed"]
  BY <1>1, SetRecordState
<1>3. /\ r.state = "failed" /\ r.expiresAt = records[q].expiresAt
      /\ r.intentExpiresAt = records[q].intentExpiresAt
  BY <1>1, <1>2 DEF Record
<1>4. Replace(q, r)
  BY <1>2 DEF Failed
<1>5. records'[q] = r
  BY <1>4, ReplaceFacts DEF CeremonyInv
<1>6. PICK f \in Firm : f = firm[q] /\ firm' = [firm EXCEPT ![q] = f]
  BY <1>1 DEF CeremonyInv, CeremonyType
<1>7. UNCHANGED <<calls, finalizations, signings, answered, invoices>>
  BY DEF solverVars
<1>8. PacketOnce(q)' /\ FirmFollows(q)'
  BY <1>1, <1>3, <1>5, <1>7 DEF Agreed, PacketOnce, FirmFollows, Untouched, Finalizes, Signs
<1>9. r.expiresAt <= records[q].expiresAt
  BY <1>1, <1>3
<1> QED BY <1>3, <1>4, <1>6, <1>8, <1>9, RecordStep

LEMMA FinalizeRefusedKeeps ==
  ASSUME CeremonyInv, NEW q \in Requests, FinalizeRefused(q)
  PROVE  CeremonyInv'
<1>1. /\ pending[q] = None /\ Replace(q, Failed(q))
      /\ UNCHANGED <<now, rows, sessions, collected, solverVars, pending, signing, firm>>
  BY DEF FinalizeRefused, intakeVars
<1> QED BY <1>1, FailedKeeps

LEMMA FinalizationTimesOutKeeps ==
  ASSUME CeremonyInv, NEW q \in Requests, FinalizationTimesOut(q)
  PROVE  CeremonyInv'
<1>1. /\ pending' = [pending EXCEPT ![q] = None]
      /\ UNCHANGED <<now, rows, sessions, collected, solverVars, records, signing, firm>>
  BY DEF FinalizationTimesOut, intakeVars
<1>2. /\ pending' \in [Requests -> Calls \cup {None}] /\ pending'[q] = None
      /\ \A p \in Requests : p # q => pending'[p] = pending[p]
  BY <1>1 DEF CeremonyInv, CeremonyType
<1>3. IntakeType' /\ CeremonyType'
  BY <1>1, <1>2 DEF CeremonyInv, IntakeType, CeremonyType
<1>4. \A p \in Requests : p # q => Aside(p)
  BY <1>1, <1>2 DEF Aside
<1>5. Agreed(q) /\ RecordTaken(q) /\ UNCHANGED <<calls, finalizations, signings, answered, invoices>>
  BY <1>1 DEF CeremonyInv, solverVars
<1>6. AwaitedFollow(q)
  BY <1>1, <1>2, <1>5, AwaitedStays DEF Agreed
<1>7. PacketOnce(q)' /\ FirmFollows(q)'
  BY <1>1, <1>5 DEF Agreed, PacketOnce, FirmFollows, Untouched, Finalizes, Signs
<1>8. RecordTaken(q)'
  BY <1>1, <1>2, <1>5 DEF RecordTaken
<1> QED BY <1>1, <1>3, <1>4, <1>6, <1>7, <1>8, OwnStep

LEMMA AuthorizeFinalizedKeeps ==
  ASSUME CeremonyInv, NEW q \in Requests, AuthorizeFinalized(q)
  PROVE  CeremonyInv'
<1>1. /\ LiveRecords[q].state = "finalized" /\ firm[q].state = "ACTIVE"
      /\ firm' = [firm EXCEPT ![q] = Accepted(q)]
      /\ Replace(q, [records[q] EXCEPT !.state = "authorized"])
      /\ UNCHANGED <<now, rows, sessions, collected, solverVars, pending, signing>>
  BY DEF AuthorizeFinalized, Executable, Active, intakeVars
<1>2. /\ records[q] \in Record /\ firm[q] \in Firm /\ Agreed(q) /\ RecordTaken(q)
      /\ records[q].expiresAt \in Int /\ now \in Nat /\ records[q].response \in Values
  BY DEF CeremonyInv, CeremonyType, IntakeType, Record
<1>3. records[q].state = "finalized"
  BY <1>1, <1>2, LiveRecord DEF CeremonyInv
<1>4. PICK r \in Record : r = [records[q] EXCEPT !.state = "authorized"]
  BY <1>2, SetRecordState
<1>5. /\ r.state = "authorized" /\ r.expiresAt = records[q].expiresAt /\ r.response = records[q].response
      /\ r.intentExpiresAt = records[q].intentExpiresAt
  BY <1>2, <1>4 DEF Record
<1>6. Replace(q, r)
  BY <1>1, <1>4
<1>7. records'[q] = r
  BY <1>6, ReplaceFacts DEF CeremonyInv
<1>8. PICK f \in Firm : f = [firm[q] EXCEPT !.settled = records[q].response]
  BY <1>2, SetFirmSettled
<1>9. f.state = "ACTIVE" /\ f.bound = firm[q].bound /\ f.settled = records[q].response
  BY <1>1, <1>2, <1>8 DEF Firm
<1>10. firm' = [firm EXCEPT ![q] = f] /\ firm'[q] = f
  BY <1>1, <1>8 DEF Accepted, CeremonyInv, CeremonyType
<1>11. UNCHANGED <<calls, finalizations, signings, answered, invoices>>
  BY <1>1 DEF solverVars
<1>12. records[q].response = firm[q].bound /\ firm[q].bound # 0 /\ pending[q] = None
  BY <1>2, <1>3 DEF Agreed, FirmFollows, RecordTaken
<1>13. PacketOnce(q)'
  BY <1>5, <1>7, <1>9, <1>10 DEF PacketOnce
<1>14. FirmFollows(q)'
  BY <1>2, <1>5, <1>7, <1>9, <1>10, <1>11, <1>12 DEF Agreed, FirmFollows, Signs
<1>15. r.expiresAt <= records[q].expiresAt
  BY <1>2, <1>5
<1> QED BY <1>1, <1>5, <1>6, <1>10, <1>12, <1>13, <1>14, <1>15, RecordStep

LEMMA PrepareContractIntentKeeps ==
  ASSUME CeremonyInv, NEW q \in Requests, PrepareContractIntent(q)
  PROVE  CeremonyInv'
<1>1. /\ LiveRecords[q].state = "authorized"
      /\ Replace(q, [records[q] EXCEPT !.intentExpiresAt = records[q].until])
      /\ UNCHANGED <<now, rows, sessions, collected, solverVars, pending, signing, firm>>
  BY DEF PrepareContractIntent, intakeVars
<1>2. /\ records[q] \in Record /\ firm[q] \in Firm /\ Agreed(q) /\ RecordTaken(q)
      /\ records[q].expiresAt \in Int /\ now \in Nat /\ records[q].until \in Int
  BY DEF CeremonyInv, CeremonyType, IntakeType, Record
<1>3. records[q].state = "authorized"
  BY <1>1, <1>2, LiveRecord DEF CeremonyInv
<1>4. PICK r \in Record : r = [records[q] EXCEPT !.intentExpiresAt = records[q].until]
  BY <1>2, SetRecordIntent
<1>5. r.state = "authorized" /\ r.expiresAt = records[q].expiresAt /\ r.response = records[q].response
  BY <1>2, <1>3, <1>4 DEF Record
<1>6. Replace(q, r)
  BY <1>1, <1>4
<1>7. records'[q] = r
  BY <1>6, ReplaceFacts DEF CeremonyInv
<1>8. PICK f \in Firm : f = firm[q] /\ firm' = [firm EXCEPT ![q] = f]
  BY <1>1, <1>2 DEF CeremonyInv, CeremonyType
<1>9. UNCHANGED <<calls, finalizations, signings, answered, invoices>>
  BY <1>1 DEF solverVars
<1>10. records[q].response = firm[q].settled /\ firm[q].settled # 0 /\ pending[q] = None
  BY <1>2, <1>3 DEF Agreed, FirmFollows, RecordTaken
<1>11. PacketOnce(q)'
  BY <1>1, <1>2, <1>5, <1>7, <1>9 DEF Agreed, PacketOnce, Untouched, Finalizes
<1>12. FirmFollows(q)'
  BY <1>1, <1>2, <1>3, <1>5, <1>7, <1>9, <1>10 DEF Agreed, FirmFollows, Signs
<1>13. r.expiresAt <= records[q].expiresAt
  BY <1>2, <1>5
<1> QED BY <1>1, <1>5, <1>6, <1>8, <1>10, <1>11, <1>12, <1>13, RecordStep

-------------------------------------------------------------------------------
(* The clients' calls. *)

LEMMA CallCleared ==
  ASSUME LocalInv, Untouching, NEW c \in Calls, calls' = [calls EXCEPT ![c] = NoCall]
  PROVE  LocalInv' /\ Untroubled /\ \A p \in Requests : CallsFollow(p)
<1>1. PICK v \in Call : v = NoCall /\ v.kind = None
  BY NoCallFacts
<1>2. LocalInv' /\ Untroubled
  BY <1>1, ClientKeeps
<1>3. calls'[c] = v /\ \A d \in Calls : d # c => calls'[d] = calls[d]
  BY <1>1 DEF LocalInv, SolverType
<1>4. None \notin {"finalize", "sign"}
  BY DEF None
<1>5. \A p \in Requests : CallsFollow(p)
  BY <1>1, <1>3, <1>4 DEF CallsFollow, Finalizes, Signs
<1> QED BY <1>2, <1>5

LEMMA PacketFacts ==
  ASSUME NEW q \in Requests, NEW kind \in Kinds, NEW t \in Int
  PROVE  LET packet == Packet(q, kind, t)
         IN /\ packet \in Call /\ packet.phase = "sent" /\ packet.kind = kind /\ packet.of = q
            /\ packet.expiresAt = t
<1>1. PICK v1 \in Call : v1 = NoCall
  BY NoCallFacts
<1>2. PICK v2 \in Call : v2 = [v1 EXCEPT !.phase = "sent"]
  BY SetPhase DEF Phases
<1>3. PICK v3 \in Call : v3 = [v2 EXCEPT !.kind = kind]
  BY SetKind
<1>4. PICK v4 \in Call : v4 = [v3 EXCEPT !.of = q]
  BY SetOf
<1>5. PICK v5 \in Call : v5 = [v4 EXCEPT !.expiresAt = t]
  BY SetExpiry
<1>6. v2.phase = "sent"
  BY <1>2 DEF Call
<1>7. v3.phase = "sent" /\ v3.kind = kind
  BY <1>3, <1>6 DEF Call
<1>8. v4.phase = "sent" /\ v4.kind = kind /\ v4.of = q
  BY <1>4, <1>7 DEF Call
<1>9. v5.phase = "sent" /\ v5.kind = kind /\ v5.of = q /\ v5.expiresAt = t
  BY <1>5, <1>8 DEF Call
<1>10. v5 = Packet(q, kind, t)
  BY <1>1, <1>2, <1>3, <1>4, <1>5 DEF Packet
<1> QED BY <1>9, <1>10

\* A packet takes an idle call, which nobody awaits.
LEMMA PacketSent ==
  ASSUME CeremonyInv, Untouching, NEW q \in Requests, NEW c \in Calls, NEW kind \in {"finalize", "sign"},
         NEW t \in Int, Send(q, c, kind, t)
  PROVE  /\ LocalInv' /\ Untroubled /\ calls[c].kind = None
         /\ \A p \in Requests : p # q => CallsFollow(p)
         /\ calls'[c].kind = kind /\ calls'[c].of = q /\ calls'[c].expiresAt = t
         /\ \A d \in Calls : d # c => calls'[d] = calls[d]
         /\ \A p \in Requests : pending[p] # c /\ signing[p].call # c
<1>1. calls[c].phase = "idle" /\ calls' = [calls EXCEPT ![c] = Packet(q, kind, t)]
  BY DEF Send
<1>2. kind \in Kinds
  BY DEF Kinds
<1>3. PICK v \in Call : /\ v = Packet(q, kind, t) /\ v.phase = "sent" /\ v.kind = kind /\ v.of = q
                        /\ v.expiresAt = t
  BY <1>2, PacketFacts
<1>4. LocalInv /\ LocalInv' /\ Untroubled
  BY <1>1, <1>3, ClientKeeps DEF CeremonyInv
<1>5. calls'[c] = v /\ \A d \in Calls : d # c => calls'[d] = calls[d]
  BY <1>1, <1>3, <1>4 DEF LocalInv, SolverType
<1>6. calls[c].kind = None /\ None \notin {"finalize", "sign"}
  BY <1>1, <1>4 DEF LocalInv, CallsKnow, CallKnows, None
<1>7. \A p \in Requests : p # q => CallsFollow(p)
  BY <1>3, <1>5 DEF CallsFollow, Finalizes, Signs
<1>8. \A p \in Requests : pending[p] # c /\ signing[p].call # c
  <2>1. \A p \in Requests : Awaited(p)
    BY DEF CeremonyInv, Agreed
  <2>2. ASSUME NEW p \in Requests, pending[p] = c PROVE FALSE
    <3>1. c # None
      BY SolverAssumption
    <3> QED BY <1>6, <2>1, <2>2, <3>1 DEF Awaited, Finalizes
  <2>3. ASSUME NEW p \in Requests, signing[p].call = c PROVE FALSE
    <3>1. c # None
      BY SolverAssumption
    <3> QED BY <1>6, <2>1, <2>3, <3>1 DEF Awaited, Signs
  <2> QED BY <2>2, <2>3
<1> QED BY <1>3, <1>4, <1>5, <1>6, <1>7, <1>8

\* The calls that a request awaits, when another call changes.
LEMMA AwaitedElsewhere ==
  ASSUME CeremonyInv, NEW p \in Requests, NEW c \in Calls, \A d \in Calls : d # c => calls'[d] = calls[d],
         pending[p] # c, signing[p].call # c, pending'[p] \in {pending[p], None},
         signing'[p] = signing[p]
  PROVE  AwaitedFollow(p)
<1>1. Awaited(p) /\ pending[p] \in Calls \cup {None} /\ signing[p].call \in Calls \cup {None}
  BY DEF CeremonyInv, Agreed, CeremonyType, Signing
<1>2. pending[p] # None => calls'[pending[p]] = calls[pending[p]]
  BY <1>1
<1>3. signing[p].call # None => calls'[signing[p].call] = calls[signing[p].call]
  BY <1>1
<1> QED BY <1>1, <1>2, <1>3 DEF Awaited, AwaitedFollow, Finalizes, Signs

\* A step of one request that sends a packet or takes an answer.
LEMMA ClientStep ==
  ASSUME CeremonyInv, LocalInv', Untroubled, UNCHANGED <<now, rows, sessions, collected>>,
         NEW q \in Requests, CeremonyType', NEW c \in Calls, \A d \in Calls : d # c => calls'[d] = calls[d],
         \A p \in Requests : p # q => Aside(p) /\ CallsFollow(p) /\ pending[p] # c /\ signing[p].call # c,
         Agreed(q)', RecordTaken(q)'
  PROVE  CeremonyInv'
<1>1. ASSUME NEW p \in Requests, p # q PROVE Agreed(p)' /\ RecordTaken(p)'
  <2>1. Agreed(p) /\ RecordTaken(p) /\ Aside(p) /\ CallsFollow(p)
    BY <1>1 DEF CeremonyInv
  <2>2. AwaitedFollow(p)
    BY <1>1, <2>1, AwaitedElsewhere DEF Aside
  <2>3. Agreed(p)'
    BY <2>1, <2>2, AgreedStays DEF Aside
  <2>4. now' \in Nat /\ now <= now' /\ IntakeType /\ CeremonyType
    BY DEF CeremonyInv, IntakeType
  <2>5. RecordTaken(p)'
    BY <2>1, <2>4, TakenStays DEF Aside
  <2> QED BY <2>3, <2>5
<1>2. IntakeType'
  BY DEF CeremonyInv, IntakeType
<1> QED BY <1>1, <1>2 DEF CeremonyInv

LEMMA FinalizeReservedKeeps ==
  ASSUME CeremonyInv, NEW q \in Requests, NEW c \in Calls, FinalizeReserved(q, c)
  PROVE  CeremonyInv'
<1> DEFINE ends == Least(now + RequestTtl, records[q].expiresAt)
<1>1. /\ pending[q] = None /\ LiveRecords[q].state = "reserved" /\ firm[q].state = "ACTIVE"
      /\ Replace(q, [records[q] EXCEPT !.state = "finalizing", !.attemptExpiresAt = ends])
      /\ Send(q, c, "finalize", ends)
      /\ pending' = [pending EXCEPT ![q] = c]
      /\ UNCHANGED <<now, rows, sessions, collected, signing, firm>> /\ Untouching
  BY DEF FinalizeReserved, Disclosable, Active, intakeVars, Untouching
<1>2. /\ records[q] \in Record /\ Agreed(q) /\ RecordTaken(q) /\ now \in Nat
      /\ records[q].expiresAt \in Int /\ rows[q].expiresAt \in Int
  BY DEF CeremonyInv, CeremonyType, IntakeType, Record, Row
<1>3. PICK t \in Int : t = ends
  BY <1>2, CeremonyAssumption DEF Least, CeremonyAssumption
<1>4. /\ LocalInv' /\ Untroubled /\ calls[c].kind = None
      /\ \A p \in Requests : p # q => CallsFollow(p)
      /\ calls'[c].kind = "finalize" /\ calls'[c].of = q /\ calls'[c].expiresAt = t
      /\ \A d \in Calls : d # c => calls'[d] = calls[d]
      /\ \A p \in Requests : pending[p] # c /\ signing[p].call # c
  BY <1>1, <1>3, PacketSent
<1>5. records[q].state = "reserved"
  BY <1>1, <1>2, LiveRecord DEF CeremonyInv
<1>6. Untouched(q)
  BY <1>2, <1>5 DEF Agreed, PacketOnce
<1>7. PICK r \in Record : /\ Replace(q, r) /\ r.state = "finalizing" /\ r.attemptExpiresAt = t
                          /\ r.expiresAt = records[q].expiresAt
                          /\ r.intentExpiresAt = records[q].intentExpiresAt
  <2>1. PICK r0 \in Record : r0 = [records[q] EXCEPT !.state = "finalizing"]
    BY <1>2, SetRecordState
  <2>2. PICK r \in Record : r = [r0 EXCEPT !.attemptExpiresAt = t]
    BY SetRecordAttempt
  <2>3. /\ r0.state = "finalizing" /\ r0.expiresAt = records[q].expiresAt
        /\ r0.intentExpiresAt = records[q].intentExpiresAt
    BY <1>2, <2>1 DEF Record
  <2>4. /\ r.state = "finalizing" /\ r.attemptExpiresAt = t /\ r.expiresAt = records[q].expiresAt
        /\ r.intentExpiresAt = records[q].intentExpiresAt
    BY <2>2, <2>3 DEF Record
  <2>5. Replace(q, r)
    BY <1>1, <1>3, <2>1, <2>2
  <2> QED BY <2>4, <2>5
<1>8. /\ records' \in [Requests -> Record] /\ records'[q] = r
      /\ \A p \in Requests : p # q => records'[p] \in {records[p], NoRecord}
  BY <1>7, ReplaceFacts DEF CeremonyInv
<1>9. /\ pending' \in [Requests -> Calls \cup {None}] /\ pending'[q] = c
      /\ \A p \in Requests : p # q => pending'[p] = pending[p]
  BY <1>1 DEF CeremonyInv, CeremonyType
<1>10. CeremonyType'
  BY <1>1, <1>8, <1>9 DEF CeremonyInv, CeremonyType
<1>11. \A p \in Requests : p # q => Aside(p)
  BY <1>1, <1>8, <1>9 DEF Aside
<1>12. UNCHANGED <<finalizations, signings, answered, invoices>>
  BY <1>1 DEF Untouching, materialVars
<1>13. Awaited(q)'
  <2>1. signing[q].call \in Calls \cup {None} /\ Awaited(q)
    BY <1>2 DEF CeremonyInv, CeremonyType, Signing, Agreed
  <2>2. signing[q].call # None => calls'[signing[q].call] = calls[signing[q].call]
    BY <1>4, <2>1
  <2> QED BY <1>1, <1>4, <1>9, <2>1, <2>2 DEF Awaited, Finalizes, Signs
<1>14. PacketOf(q)'
  <2>1. \A d \in Calls : Finalizes(d, q)' => calls'[d].expiresAt = t
    BY <1>4, <1>6 DEF Finalizes, Untouched
  <2>2. finalizations'[q].state = "NONE"
    BY <1>6, <1>12 DEF Untouched
  <2> QED BY <1>7, <1>8, <2>1, <2>2 DEF PacketOf
<1>15. PacketOnce(q)'
  BY <1>1, <1>7, <1>8 DEF PacketOnce
<1>16. FirmFollows(q)'
  <2>1. \A d \in Calls : Signs(d, q)' => Signs(d, q)
    BY <1>4 DEF Signs
  <2> QED BY <1>1, <1>2, <1>7, <1>8, <1>12, <2>1 DEF Agreed, FirmFollows
<1>17. RecordTaken(q)'
  BY <1>1, <1>2, <1>7, <1>8 DEF RecordTaken
<1>18. Agreed(q)'
  BY <1>13, <1>14, <1>15, <1>16 DEF Agreed
<1> QED BY <1>1, <1>4, <1>10, <1>11, <1>17, <1>18, ClientStep

\* The record is as it was, or gone if it has expired.
LEMMA LiveFacts ==
  ASSUME CeremonyType, records' = LiveRecords
  PROVE  records' \in [Requests -> Record] /\ \A p \in Requests : records'[p] \in {records[p], NoRecord}
  BY NoRecordType DEF LiveRecords, CeremonyType

LEMMA FinalizeAgainKeeps ==
  ASSUME CeremonyInv, NEW q \in Requests, NEW c \in Calls, FinalizeAgain(q, c)
  PROVE  CeremonyInv'
<1>1. /\ pending[q] = None /\ LiveRecords[q].state = "finalizing"
      /\ UNCHANGED <<now, rows, sessions, collected, signing, firm>> /\ Untouching
  BY DEF FinalizeAgain, MayFinalize, intakeVars, Untouching
<1>2. /\ records[q] \in Record /\ Agreed(q) /\ RecordTaken(q) /\ now \in Nat /\ CeremonyType
      /\ records[q].attemptExpiresAt \in Int
  BY DEF CeremonyInv, CeremonyType, IntakeType, Record
<1>3. CASE Replace(q, Failed(q)) /\ UNCHANGED <<calls, pending>>
  <2>1. UNCHANGED solverVars
    BY <1>1, <1>3 DEF Untouching, materialVars, solverVars
  <2> QED BY <1>1, <1>3, <2>1, FailedKeeps
<1>4. CASE /\ Send(q, c, "finalize", records[q].attemptExpiresAt)
           /\ pending' = [pending EXCEPT ![q] = c] /\ records' = LiveRecords
  <2>1. PICK t \in Int : t = records[q].attemptExpiresAt
    BY <1>2
  <2>2. Send(q, c, "finalize", t)
    BY <1>4, <2>1
  <2>3. /\ LocalInv' /\ Untroubled /\ calls[c].kind = None
        /\ \A p \in Requests : p # q => CallsFollow(p)
        /\ calls'[c].kind = "finalize" /\ calls'[c].of = q /\ calls'[c].expiresAt = t
        /\ \A d \in Calls : d # c => calls'[d] = calls[d]
        /\ \A p \in Requests : pending[p] # c /\ signing[p].call # c
    BY <1>1, <2>2, PacketSent
  <2>4. LiveRecords[q] = records[q] /\ records[q].state = "finalizing"
    BY <1>1, <1>2, LiveRecord
  <2>5. records' \in [Requests -> Record] /\ \A p \in Requests : records'[p] \in {records[p], NoRecord}
    BY <1>2, <1>4, LiveFacts
  <2>6. records'[q] = records[q]
    BY <1>4, <2>4
  <2>7. /\ pending' \in [Requests -> Calls \cup {None}] /\ pending'[q] = c
        /\ \A p \in Requests : p # q => pending'[p] = pending[p]
    BY <1>4 DEF CeremonyInv, CeremonyType
  <2>8. CeremonyType'
    BY <1>1, <2>5, <2>7 DEF CeremonyInv, CeremonyType
  <2>9. \A p \in Requests : p # q => Aside(p)
    BY <1>1, <2>5, <2>7 DEF Aside
  <2>10. UNCHANGED <<finalizations, signings, answered, invoices>>
    BY <1>1 DEF Untouching, materialVars
  <2>11. Awaited(q)'
    <3>1. signing[q].call \in Calls \cup {None} /\ Awaited(q)
      BY <1>2 DEF CeremonyInv, CeremonyType, Signing, Agreed
    <3>2. signing[q].call # None => calls'[signing[q].call] = calls[signing[q].call]
      BY <2>3, <3>1
    <3> QED BY <1>1, <2>3, <2>7, <3>1, <3>2 DEF Awaited, Finalizes, Signs
  <2>12. PacketOf(q)'
    <3>1. /\ \A d \in Calls : Finalizes(d, q) => calls[d].expiresAt = t
          /\ finalizations[q].state # "NONE" => finalizations[q].expiresAt = t
      BY <1>2, <2>1, <2>4 DEF Agreed, PacketOf
    <3>2. \A d \in Calls : Finalizes(d, q)' => calls'[d].expiresAt = t
      BY <2>3, <3>1 DEF Finalizes
    <3> QED BY <2>1, <2>6, <2>10, <3>1, <3>2 DEF PacketOf
  <2>13. PacketOnce(q)'
    BY <1>1, <1>2, <2>4, <2>6 DEF Agreed, PacketOnce
  <2>14. FirmFollows(q)'
    <3>1. \A d \in Calls : Signs(d, q)' => Signs(d, q)
      BY <2>3 DEF Signs
    <3> QED BY <1>1, <1>2, <2>6, <2>10, <3>1 DEF Agreed, FirmFollows
  <2>15. RecordTaken(q)'
    BY <1>1, <1>2, <2>4, <2>6 DEF RecordTaken
  <2>16. Agreed(q)'
    BY <2>11, <2>12, <2>13, <2>14 DEF Agreed
  <2> QED BY <1>1, <2>3, <2>8, <2>9, <2>15, <2>16, ClientStep
<1> QED BY <1>3, <1>4 DEF FinalizeAgain

\* A signing attempt keeps its type when one field is replaced.
LEMMA SetSigningExpiry == ASSUME NEW s \in Signing, NEW t \in Int PROVE [s EXCEPT !.expiresAt = t] \in Signing
  BY DEF Signing
LEMMA SetSigningCall ==
  ASSUME NEW s \in Signing, NEW c \in Calls \cup {None} PROVE [s EXCEPT !.call = c] \in Signing
  BY DEF Signing
LEMMA SetSigningUntil == ASSUME NEW s \in Signing, NEW t \in Int PROVE [s EXCEPT !.until = t] \in Signing
  BY DEF Signing

LEMMA SignIntentKeeps ==
  ASSUME CeremonyInv, NEW q \in Requests, NEW c \in Calls, SignIntent(q, c)
  PROVE  CeremonyInv'
<1> DEFINE ends == IF signing[q].expiresAt = 0 THEN records[q].intentExpiresAt ELSE signing[q].expiresAt
<1>1. /\ records[q].intentExpiresAt > 0
      /\ Send(q, c, "sign", ends)
      /\ signing' = [signing EXCEPT ![q] = [@ EXCEPT !.expiresAt = ends, !.call = c]]
      /\ UNCHANGED <<now, rows, sessions, collected, records, pending, firm>> /\ Untouching
  BY DEF SignIntent, intakeVars, Untouching
<1>2. /\ Agreed(q) /\ RecordTaken(q) /\ signing[q] \in Signing
      /\ records[q].intentExpiresAt \in Int /\ signing[q].expiresAt \in Int
  BY DEF CeremonyInv, CeremonyType, Record, Signing
<1>3. PICK t \in Int : t = ends
  BY <1>2
<1>4. /\ LocalInv' /\ Untroubled /\ calls[c].kind = None
      /\ \A p \in Requests : p # q => CallsFollow(p)
      /\ calls'[c].kind = "sign" /\ calls'[c].of = q /\ calls'[c].expiresAt = t
      /\ \A d \in Calls : d # c => calls'[d] = calls[d]
      /\ \A p \in Requests : pending[p] # c /\ signing[p].call # c
  BY <1>1, <1>3, PacketSent
<1>5. firm[q].settled # 0
  BY <1>1, <1>2 DEF Agreed, FirmFollows
<1>6. PICK s \in Signing : signing' = [signing EXCEPT ![q] = s] /\ s.call = c
  <2>1. PICK s0 \in Signing : s0 = [signing[q] EXCEPT !.expiresAt = t]
    BY <1>2, SetSigningExpiry
  <2>2. PICK s \in Signing : s = [s0 EXCEPT !.call = c]
    BY SetSigningCall
  <2>3. s.call = c
    BY <2>2 DEF Signing
  <2>4. signing' = [signing EXCEPT ![q] = s]
    BY <1>1, <1>3, <2>1, <2>2
  <2> QED BY <2>3, <2>4
<1>7. signing' \in [Requests -> Signing] /\ signing'[q] = s /\ \A p \in Requests : p # q => signing'[p] = signing[p]
  BY <1>6 DEF CeremonyInv, CeremonyType
<1>8. CeremonyType'
  BY <1>1, <1>7 DEF CeremonyInv, CeremonyType
<1>9. \A p \in Requests : p # q => Aside(p)
  BY <1>1, <1>7 DEF Aside
<1>10. UNCHANGED <<finalizations, signings, answered, invoices>>
  BY <1>1 DEF Untouching, materialVars
<1>11. Awaited(q)'
  <2>1. pending[q] \in Calls \cup {None} /\ Awaited(q)
    BY <1>2 DEF CeremonyInv, CeremonyType, Agreed
  <2>2. pending[q] # None => calls'[pending[q]] = calls[pending[q]]
    BY <1>4, <2>1
  <2> QED BY <1>1, <1>4, <1>6, <1>7, <2>1, <2>2 DEF Awaited, Finalizes, Signs
<1>12. \A d \in Calls : Finalizes(d, q)' => Finalizes(d, q) /\ calls'[d].expiresAt = calls[d].expiresAt
  BY <1>4 DEF Finalizes
<1>13. PacketOf(q)'
  BY <1>1, <1>2, <1>10, <1>12 DEF Agreed, PacketOf
<1>14. PacketOnce(q)'
  BY <1>1, <1>2, <1>10, <1>12 DEF Agreed, PacketOnce, Untouched
<1>15. FirmFollows(q)'
  BY <1>1, <1>2, <1>5, <1>10 DEF Agreed, FirmFollows
<1>16. RecordTaken(q)'
  BY <1>1, <1>2 DEF RecordTaken
<1>17. Agreed(q)'
  BY <1>11, <1>13, <1>14, <1>15 DEF Agreed
<1> QED BY <1>1, <1>4, <1>8, <1>9, <1>16, <1>17, ClientStep

LEMMA SignatureReturnsKeeps ==
  ASSUME CeremonyInv, NEW q \in Requests, SignatureReturns(q)
  PROVE  CeremonyInv'
<1> DEFINE verified == calls[signing[q].call].status = 200 /\ calls[signing[q].call].until > now
<1>1. /\ signing[q].call # None
      /\ signing' = [signing EXCEPT ![q].call = None,
                                    ![q].until = IF verified THEN calls[signing[q].call].until ELSE 0]
      /\ calls' = [calls EXCEPT ![signing[q].call] = NoCall]
      /\ UNCHANGED <<now, rows, sessions, collected, records, pending, firm>> /\ Untouching
  BY DEF SignatureReturns, intakeVars, Untouching
<1>2. Agreed(q) /\ RecordTaken(q) /\ signing[q] \in Signing /\ LocalInv /\ signing \in [Requests -> Signing]
  BY DEF CeremonyInv, CeremonyType
<1>3. PICK c \in Calls : c = signing[q].call /\ Signs(c, q)
  BY <1>1, <1>2 DEF Signing, Agreed, Awaited
<1>4. LocalInv' /\ Untroubled /\ \A p \in Requests : CallsFollow(p)
  BY <1>1, <1>2, <1>3, CallCleared
<1>5. \A d \in Calls : d # c => calls'[d] = calls[d]
  BY <1>1, <1>2, <1>3 DEF LocalInv, SolverType
<1>6. \A p \in Requests : pending[p] # c /\ (p # q => signing[p].call # c)
  <2>1. c # None /\ \A p \in Requests : Awaited(p)
    BY SolverAssumption DEF SolverAssumption, CeremonyInv, Agreed
  <2> QED BY <1>3, <2>1 DEF Awaited, Finalizes, Signs
<1>7. PICK s \in Signing : signing' = [signing EXCEPT ![q] = s] /\ s.call = None
  <2>1. calls[c].until \in Int
    BY <1>2 DEF LocalInv, SolverType, Call
  <2>2. PICK t \in Int : t = IF verified THEN calls[signing[q].call].until ELSE 0
    BY <1>3, <2>1
  <2>3. PICK s0 \in Signing : s0 = [signing[q] EXCEPT !.call = None]
    BY <1>2, SetSigningCall
  <2>4. PICK s \in Signing : s = [s0 EXCEPT !.until = t]
    BY SetSigningUntil
  <2>5. s0.call = None
    BY <1>2, <2>3 DEF Signing
  <2>6. s.call = None
    BY <2>4, <2>5 DEF Signing
  <2>7. signing' = [signing EXCEPT ![q] = s]
    BY <1>1, <1>2, <2>2, <2>3, <2>4
  <2> QED BY <2>6, <2>7
<1>8. signing' \in [Requests -> Signing] /\ signing'[q] = s /\ \A p \in Requests : p # q => signing'[p] = signing[p]
  BY <1>2, <1>7
<1>9. CeremonyType'
  BY <1>1, <1>8 DEF CeremonyInv, CeremonyType
<1>10. \A p \in Requests : p # q => Aside(p)
  BY <1>1, <1>8 DEF Aside
<1>11. AwaitedFollow(q)
  <2>1. pending[q] \in Calls \cup {None} /\ Awaited(q)
    BY <1>2 DEF CeremonyInv, CeremonyType, Agreed
  <2>2. pending[q] # None => calls'[pending[q]] = calls[pending[q]]
    BY <1>5, <1>6, <2>1
  <2> QED BY <1>1, <1>7, <1>8, <2>1, <2>2 DEF Awaited, AwaitedFollow, Finalizes
<1>12. Agreed(q)'
  BY <1>1, <1>2, <1>4, <1>11, AgreedStays
<1>13. RecordTaken(q)'
  BY <1>1, <1>2 DEF RecordTaken
<1> QED BY <1>1, <1>4, <1>5, <1>6, <1>9, <1>10, <1>12, <1>13, ClientStep

LEMMA CallEndsKeeps ==
  ASSUME CeremonyInv, NEW c \in Calls, CallEnds(c)
  PROVE  CeremonyInv'
<1>1. /\ calls' = [calls EXCEPT ![c] = NoCall] /\ \A q \in Requests : pending[q] # c /\ signing[q].call # c
      /\ UNCHANGED <<now, rows, sessions, collected, records, pending, signing, firm>> /\ Untouching
  BY DEF CallEnds, intakeVars, ceremonyVars, Untouching
<1>2. LocalInv' /\ Untroubled /\ \A p \in Requests : CallsFollow(p)
  BY <1>1, CallCleared DEF CeremonyInv
<1>3. \A d \in Calls : d # c => calls'[d] = calls[d]
  BY <1>1 DEF CeremonyInv, LocalInv, SolverType
<1>4. IntakeType' /\ CeremonyType'
  BY <1>1 DEF CeremonyInv, IntakeType, CeremonyType
<1>5. ASSUME NEW p \in Requests PROVE Agreed(p)' /\ RecordTaken(p)'
  <2>1. Agreed(p) /\ RecordTaken(p)
    BY DEF CeremonyInv
  <2>2. AwaitedFollow(p)
    BY <1>1, <1>3, AwaitedElsewhere
  <2>3. Agreed(p)'
    BY <1>1, <1>2, <2>1, <2>2, AgreedStays
  <2>4. RecordTaken(p)'
    BY <1>1, <2>1 DEF RecordTaken
  <2> QED BY <2>3, <2>4
<1> QED BY <1>2, <1>4, <1>5 DEF CeremonyInv

\* What a returned finalization makes of the record and the offer.
LEMMA Returned ==
  ASSUME CeremonyInv, NEW q \in Requests, FinalizationReturns(q)
  PROVE  \E r \in Record, f \in Firm :
           /\ records' = [records EXCEPT ![q] = r] /\ firm' = [firm EXCEPT ![q] = f]
           /\ r.expiresAt = records[q].expiresAt /\ r.intentExpiresAt = records[q].intentExpiresAt
           /\ \/ r = records[q]
              \/ r.state = "failed"
              \/ r.state = "finalized" /\ r.response = f.bound /\ f.bound # 0
           /\ f.state = firm[q].state /\ f.settled = firm[q].settled
           /\ \/ f.bound = firm[q].bound
              \/ /\ f.bound \in answered[q] /\ q \in invoices
                 /\ firm[q].bound \in {0, f.bound}
<1>1. PICK c \in Calls : c = pending[q] /\ Finalizes(c, q) /\ calls[c].phase = "answered"
  BY DEF FinalizationReturns, CeremonyInv, CeremonyType, Agreed, Awaited
<1>2. /\ records[q] \in Record /\ firm[q] \in Firm /\ records \in [Requests -> Record]
      /\ firm \in [Requests -> Firm] /\ calls[c] \in Call
  BY DEF CeremonyInv, CeremonyType, LocalInv, SolverType
<1>3. records = [records EXCEPT ![q] = records[q]] /\ firm = [firm EXCEPT ![q] = firm[q]]
  BY <1>2
<1>4. PICK r0 \in Record : r0 = Failed(q)
  BY <1>2, SetRecordState DEF Failed
<1>5. /\ r0.state = "failed" /\ r0.expiresAt = records[q].expiresAt
      /\ r0.intentExpiresAt = records[q].intentExpiresAt
  BY <1>2, <1>4 DEF Failed, Record
<1>6. CASE UNCHANGED <<records, firm>>
  BY <1>2, <1>3, <1>6
<1>7. CASE records' = [records EXCEPT ![q] = Failed(q)] /\ UNCHANGED firm
  <2>1. records' = [records EXCEPT ![q] = r0] /\ firm' = [firm EXCEPT ![q] = firm[q]]
    BY <1>3, <1>4, <1>7
  <2> QED BY <1>2, <1>5, <2>1
<1>8. CASE /\ calls[c].status = 200 /\ Bound(q, calls[c].response, calls[c].until)
           /\ Finalizable(q, calls[c].response)
  <2>1. /\ calls[c].response \in answered[q] /\ q \in invoices /\ calls[c].response \in Values
        /\ calls[c].until \in Int
    BY <1>1, <1>2, <1>8 DEF CeremonyInv, LocalInv, CallsKnow, CallKnows, Finalizes, Call
  <2>2. PICK x \in Values : x = calls[c].response /\ x \in answered[q]
    BY <2>1
  <2>3. x # 0
    BY <2>2 DEF CeremonyInv, LocalInv, AnsweredIsReady
  <2>4. PICK f \in Firm : f = [firm[q] EXCEPT !.bound = x]
    BY <1>2, SetFirmBound
  <2>5. f.state = firm[q].state /\ f.settled = firm[q].settled /\ f.bound = x
    BY <1>2, <2>4 DEF Firm
  <2>6. firm' = [firm EXCEPT ![q] = f]
    BY <1>8, <2>2, <2>4 DEF Bound
  <2>7. firm[q].bound \in {0, f.bound}
    BY <1>8, <2>2, <2>5 DEF Finalizable
  <2>8. CASE records' = [records EXCEPT ![q] = Failed(q)]
    <3>1. records' = [records EXCEPT ![q] = r0]
      BY <1>4, <2>8
    <3> QED BY <1>5, <2>1, <2>2, <2>5, <2>6, <2>7, <3>1
  <2>9. CASE records' = [records EXCEPT ![q].state = "finalized", ![q].response = calls[c].response,
                                        ![q].until = Least(calls[c].until, records[q].expiresAt)]
    <3>1. PICK t \in Int : t = Least(calls[c].until, records[q].expiresAt)
      BY <1>2, <2>1 DEF Least, Record
    <3>2. PICK r1 \in Record : r1 = [records[q] EXCEPT !.state = "finalized"]
      BY <1>2, SetRecordState
    <3>3. PICK r2 \in Record : r2 = [r1 EXCEPT !.response = x]
      BY SetRecordResponse
    <3>4. PICK r \in Record : r = [r2 EXCEPT !.until = t]
      BY SetRecordUntil
    <3>5. /\ r1.state = "finalized" /\ r1.expiresAt = records[q].expiresAt
          /\ r1.intentExpiresAt = records[q].intentExpiresAt
      BY <1>2, <3>2 DEF Record
    <3>6. /\ r2.state = "finalized" /\ r2.response = x /\ r2.expiresAt = records[q].expiresAt
          /\ r2.intentExpiresAt = records[q].intentExpiresAt
      BY <3>3, <3>5 DEF Record
    <3>7. /\ r.state = "finalized" /\ r.response = x /\ r.expiresAt = records[q].expiresAt
          /\ r.intentExpiresAt = records[q].intentExpiresAt
      BY <3>4, <3>6 DEF Record
    <3>8. records' = [records EXCEPT ![q] = r]
      BY <1>2, <2>2, <2>9, <3>1, <3>2, <3>3, <3>4
    <3> QED BY <2>1, <2>2, <2>3, <2>5, <2>6, <2>7, <3>7, <3>8
  <2> QED BY <1>8, <2>8, <2>9 DEF Bound
<1>9. \/ UNCHANGED <<records, firm>>
      \/ records' = [records EXCEPT ![q] = Failed(q)] /\ UNCHANGED firm
      \/ calls[pending[q]].status = 200 /\ Bound(q, calls[pending[q]].response, calls[pending[q]].until)
  BY Zenon DEF FinalizationReturns
<1>10. \/ UNCHANGED <<records, firm>>
       \/ records' = [records EXCEPT ![q] = Failed(q)] /\ UNCHANGED firm
       \/ calls[c].status = 200 /\ Bound(q, calls[c].response, calls[c].until)
  BY <1>1, <1>9
<1>11. CASE Bound(q, calls[c].response, calls[c].until) /\ ~Finalizable(q, calls[c].response)
  BY <1>7, <1>11 DEF Bound
<1> QED BY <1>6, <1>7, <1>8, <1>10, <1>11

LEMMA FinalizationReturnsKeeps ==
  ASSUME CeremonyInv, NEW q \in Requests, FinalizationReturns(q)
  PROVE  CeremonyInv'
<1>1. /\ pending[q] # None
      /\ calls' = [calls EXCEPT ![pending[q]] = NoCall] /\ pending' = [pending EXCEPT ![q] = None]
      /\ UNCHANGED <<now, rows, sessions, collected, signing>> /\ Untouching
  BY DEF FinalizationReturns, intakeVars, Untouching
<1>2. /\ Agreed(q) /\ RecordTaken(q) /\ LocalInv /\ pending \in [Requests -> Calls \cup {None}]
      /\ records \in [Requests -> Record] /\ firm \in [Requests -> Firm]
  BY DEF CeremonyInv, CeremonyType
<1>3. PICK c \in Calls : c = pending[q] /\ Finalizes(c, q)
  BY <1>1, <1>2 DEF Agreed, Awaited
<1>4. LocalInv' /\ Untroubled /\ \A p \in Requests : CallsFollow(p)
  BY <1>1, <1>2, <1>3, CallCleared
<1>5. \A d \in Calls : d # c => calls'[d] = calls[d]
  BY <1>1, <1>2, <1>3 DEF LocalInv, SolverType
<1>6. \A p \in Requests : signing[p].call # c /\ (p # q => pending[p] # c)
  <2>1. c # None /\ \A p \in Requests : Awaited(p)
    BY SolverAssumption DEF SolverAssumption, CeremonyInv, Agreed
  <2> QED BY <1>3, <2>1 DEF Awaited, Finalizes, Signs
<1>7. PICK r \in Record, f \in Firm :
        /\ records' = [records EXCEPT ![q] = r] /\ firm' = [firm EXCEPT ![q] = f]
        /\ r.expiresAt = records[q].expiresAt /\ r.intentExpiresAt = records[q].intentExpiresAt
        /\ \/ r = records[q]
           \/ r.state = "failed"
           \/ r.state = "finalized" /\ r.response = f.bound /\ f.bound # 0
        /\ f.state = firm[q].state /\ f.settled = firm[q].settled
        /\ \/ f.bound = firm[q].bound
           \/ /\ f.bound \in answered[q] /\ q \in invoices
              /\ firm[q].bound \in {0, f.bound}
  BY Returned
<1>8. /\ records' \in [Requests -> Record] /\ records'[q] = r
      /\ firm' \in [Requests -> Firm] /\ firm'[q] = f
      /\ pending' \in [Requests -> Calls \cup {None}] /\ pending'[q] = None
      /\ \A p \in Requests : p # q => records'[p] = records[p] /\ firm'[p] = firm[p] /\ pending'[p] = pending[p]
  BY <1>1, <1>2, <1>7
<1>9. CeremonyType'
  BY <1>1, <1>8 DEF CeremonyInv, CeremonyType
<1>10. \A p \in Requests : p # q => Aside(p)
  BY <1>1, <1>8 DEF Aside
<1>11. records[q].state \in {"none", "selected", "finalizing"}
  BY <1>1, <1>2 DEF RecordTaken
<1>12. UNCHANGED <<finalizations, signings, answered, invoices>>
  BY <1>1 DEF Untouching, materialVars
<1>13. Awaited(q)'
  <2>1. signing[q].call \in Calls \cup {None} /\ Awaited(q)
    BY <1>2 DEF CeremonyInv, CeremonyType, Signing, Agreed
  <2>2. signing[q].call # None => calls'[signing[q].call] = calls[signing[q].call]
    BY <1>5, <1>6, <2>1
  <2> QED BY <1>1, <1>8, <2>1, <2>2 DEF Awaited, Signs
<1>14. \A d \in Calls : /\ Finalizes(d, q)' => Finalizes(d, q) /\ calls'[d].expiresAt = calls[d].expiresAt
                        /\ Signs(d, q)' => Signs(d, q)
  BY <1>4 DEF CallsFollow, Finalizes, Signs
<1>15. PacketOf(q)'
  BY <1>2, <1>7, <1>8, <1>12, <1>14 DEF Agreed, PacketOf
<1>16. PacketOnce(q)'
  BY <1>2, <1>7, <1>8, <1>11, <1>12, <1>14 DEF Agreed, PacketOnce, Untouched
<1>17. FirmFollows(q)'
  BY <1>2, <1>7, <1>8, <1>11, <1>12, <1>14 DEF Agreed, FirmFollows
<1>18. RecordTaken(q)'
  BY <1>1, <1>2, <1>7, <1>8 DEF RecordTaken
<1>19. Agreed(q)'
  BY <1>13, <1>15, <1>16, <1>17 DEF Agreed
<1> QED BY <1>1, <1>4, <1>5, <1>6, <1>9, <1>10, <1>18, <1>19, ClientStep

-------------------------------------------------------------------------------
(* The intake, the clock and the restart. *)

\* A step of the intake leaves the ceremony and the solver alone.
LEMMA IntakeStays ==
  ASSUME CeremonyInv, UNCHANGED <<now, solverVars, ceremonyVars>>, IntakeType',
         \A p \in Requests : RecordTaken(p)'
  PROVE  CeremonyInv'
<1>1. UNCHANGED <<records, pending, signing, firm, calls>>
  BY DEF ceremonyVars, solverVars
<1>2. LocalInv' /\ Untroubled /\ \A p \in Requests : CallsFollow(p)
  BY SolverStays DEF CeremonyInv
<1>3. CeremonyType'
  BY <1>1 DEF CeremonyInv, CeremonyType
<1>4. ASSUME NEW p \in Requests PROVE Agreed(p)'
  <2>1. AwaitedFollow(p)
    BY <1>1, AwaitedStays DEF CeremonyInv, Agreed
  <2> QED BY <1>1, <1>2, <2>1, AgreedStays DEF CeremonyInv
<1> QED BY <1>2, <1>3, <1>4 DEF CeremonyInv

LEMMA NoRowType == NoRow \in Row
  BY DEF NoRow, Row

\* What the intake may change: a row that no live record or session needs.
LEMMA CreateQuoteKeeps ==
  ASSUME CeremonyInv, IntakeAssumption, NEW q \in Requests, CreateQuote(q), UNCHANGED <<solverVars, ceremonyVars>>
  PROVE  CeremonyInv'
<1>1. /\ sessions' = LiveSessions /\ UNCHANGED <<now, records, pending>>
      /\ \/ /\ PrunedRows[q].state = "NONE"
            /\ rows' = [PrunedRows EXCEPT ![q] = [state |-> "CLAIMED", expiresAt |-> PricingExpiry[q],
                                                  claimedAt |-> now]]
            /\ collected' = [collected EXCEPT ![q] = @ + 1]
         \/ rows' = PrunedRows /\ UNCHANGED collected
  BY DEF CreateQuote, ceremonyVars
<1>2. rows \in [Requests -> Row] /\ now \in Nat /\ collected \in [Requests -> Nat]
  BY DEF CeremonyInv, IntakeType
<1>3. PrunedRows \in [Requests -> Row]
  BY <1>2, NoRowType DEF PrunedRows
<1>4. PICK w \in Row : w = [state |-> "CLAIMED", expiresAt |-> PricingExpiry[q], claimedAt |-> now]
  <2>1. PICK t \in Int : t = PricingExpiry[q]
    BY DEF IntakeAssumption
  <2>2. [state |-> "CLAIMED", expiresAt |-> t, claimedAt |-> now] \in Row
    BY <1>2 DEF Row
  <2> QED BY <2>1, <2>2
<1>5. /\ rows' \in [Requests -> Row] /\ collected' \in [Requests -> Nat]
      /\ \A p \in Requests : rows'[p] = PrunedRows[p] \/ PrunedRows[p].state = "NONE"
  <2>1. CASE rows' = PrunedRows /\ UNCHANGED collected
    BY <1>2, <1>3, <2>1
  <2>2. CASE PrunedRows[q].state = "NONE" /\ rows' = [PrunedRows EXCEPT ![q] = w] /\ collected' = [collected EXCEPT ![q] = @ + 1]
    BY <1>2, <1>3, <2>2
  <2> QED BY <1>1, <1>4, <2>1, <2>2
<1>6. ASSUME NEW p \in Requests, rows[p].state # "NONE", rows[p].expiresAt > now PROVE rows'[p] = rows[p]
  <2>1. rows[p].expiresAt \in Int
    BY <1>2 DEF Row
  <2>2. PrunedRows[p] = rows[p]
    BY <1>2, <1>6, <2>1 DEF PrunedRows, Prune
  <2> QED BY <1>5, <1>6, <2>2
<1>7. ASSUME NEW p \in Requests PROVE RecordTaken(p)'
  <2>1. /\ RecordTaken(p) /\ records[p].expiresAt \in Int /\ rows[p].expiresAt \in Int
        /\ sessions[p].expiresAt \in Int
    BY DEF CeremonyInv, CeremonyType, IntakeType, Record, Row
  <2>2. sessions'[p] = IF sessions[p].expiresAt <= now THEN NoSession ELSE sessions[p]
    BY <1>1 DEF LiveSessions
  <2>3. NoSession.expiresAt = 0
    BY DEF NoSession
  <2>4. records'[p].expiresAt > now' => rows'[p].state = "SELECTED" /\ records'[p].expiresAt <= rows'[p].expiresAt
    BY <1>1, <1>2, <1>6, <2>1 DEF RecordTaken
  <2>5. sessions'[p].expiresAt > now' => rows'[p].state # "NONE" /\ rows'[p].expiresAt = sessions'[p].expiresAt
    BY <1>1, <1>2, <1>6, <2>1, <2>2, <2>3 DEF RecordTaken
  <2> QED BY <1>1, <2>1, <2>4, <2>5 DEF RecordTaken
<1>8. IntakeType'
  <2>1. \A p \in Requests : sessions[p].expiresAt \in Int /\ NoSession.expiresAt \in Int
    BY DEF CeremonyInv, IntakeType, NoSession
  <2>2. sessions' = [p \in Requests |-> sessions'[p]] /\ \A p \in Requests : sessions'[p].expiresAt \in Int
    BY <1>1, <2>1 DEF LiveSessions
  <2> QED BY <1>1, <1>2, <1>5, <2>2 DEF IntakeType
<1> QED BY <1>1, <1>7, <1>8, IntakeStays

LEMMA CollectionEndsKeeps ==
  ASSUME CeremonyInv, NEW q \in Requests, NEW delivered, CollectionEnds(q, delivered),
         UNCHANGED <<solverVars, ceremonyVars>>
  PROVE  CeremonyInv'
<1>1. PICK session : session = SessionOf(q, delivered, reading[q])
  OBVIOUS
<1>2. /\ rows[q].state = "CLAIMED" /\ session.expiresAt \in now + 1 .. rows[q].expiresAt
      /\ rows' = [rows EXCEPT ![q].state = "READY", ![q].expiresAt = session.expiresAt]
      /\ sessions' = [sessions EXCEPT ![q] = session]
      /\ UNCHANGED <<now, collected, records, pending>>
  BY <1>1 DEF CollectionEnds, ceremonyVars
<1>3. /\ rows \in [Requests -> Row] /\ now \in Nat /\ collected \in [Requests -> Nat]
      /\ rows[q] \in Row /\ rows[q].expiresAt \in Int
  BY DEF CeremonyInv, IntakeType, Row
<1>4. PICK t \in Int : t = session.expiresAt
  BY <1>2, <1>3
<1>5. PICK w \in Row : rows' = [rows EXCEPT ![q] = w] /\ w.state = "READY" /\ w.expiresAt = t
  <2>1. PICK w0 \in Row : w0 = [rows[q] EXCEPT !.state = "READY"]
    BY <1>3, SetRowState
  <2>2. PICK w \in Row : w = [w0 EXCEPT !.expiresAt = t]
    BY SetRowExpiry
  <2>3. w0.state = "READY"
    BY <1>3, <2>1 DEF Row
  <2>4. w.state = "READY" /\ w.expiresAt = t
    BY <2>2, <2>3 DEF Row
  <2>5. rows' = [rows EXCEPT ![q] = w]
    BY <1>2, <1>3, <1>4, <2>1, <2>2
  <2> QED BY <2>4, <2>5
<1>6. /\ rows' \in [Requests -> Row] /\ rows'[q] = w
      /\ \A p \in Requests : p # q => rows'[p] = rows[p]
  BY <1>3, <1>5
<1>7. /\ sessions' = [p \in Requests |-> sessions'[p]] /\ sessions'[q] = session
      /\ \A p \in Requests : p # q => sessions'[p] = sessions[p]
  <2>1. sessions = [p \in Requests |-> sessions[p]]
    BY DEF CeremonyInv, IntakeType
  <2> QED BY <1>2, <2>1
<1>8. IntakeType'
  <2>1. \A p \in Requests : sessions'[p].expiresAt \in Int
    BY <1>4, <1>7 DEF CeremonyInv, IntakeType
  <2> QED BY <1>2, <1>3, <1>6, <1>7, <2>1 DEF IntakeType
<1>9. ASSUME NEW p \in Requests PROVE RecordTaken(p)'
  <2>1. RecordTaken(p) /\ records[p].expiresAt \in Int
    BY DEF CeremonyInv, CeremonyType, Record
  <2>2. CASE p # q
    BY <1>2, <1>6, <1>7, <2>1, <2>2 DEF RecordTaken
  <2>3. CASE p = q
    BY <1>2, <1>4, <1>5, <1>6, <1>7, <2>1, <2>3 DEF RecordTaken
  <2> QED BY <2>2, <2>3
<1> QED BY <1>2, <1>8, <1>9, IntakeStays

LEMMA CollectionFailsKeeps ==
  ASSUME CeremonyInv, NEW q \in Requests, CollectionFails(q), UNCHANGED <<solverVars, ceremonyVars>>
  PROVE  CeremonyInv'
<1>1. UNCHANGED <<now, rows, sessions, collected, records, pending>>
  BY DEF CollectionFails, ceremonyVars
<1>2. IntakeType' /\ \A p \in Requests : RecordTaken(p)'
  BY <1>1 DEF CeremonyInv, IntakeType, RecordTaken
<1> QED BY <1>1, <1>2, IntakeStays

LEMMA TickKeeps ==
  ASSUME CeremonyInv, Tick PROVE CeremonyInv'
<1>1. /\ now' = now + 1
      /\ UNCHANGED <<rows, sessions, collected, solverVars, records, pending, signing, firm, calls>>
  BY DEF Tick, intakeVars, ceremonyVars, solverVars
<1>2. now \in Nat /\ now' \in Nat /\ now <= now'
  BY <1>1 DEF CeremonyInv, IntakeType
<1>3. IntakeType' /\ CeremonyType'
  BY <1>1, <1>2 DEF CeremonyInv, IntakeType, CeremonyType
<1>4. LocalInv' /\ Untroubled /\ \A p \in Requests : CallsFollow(p)
  BY <1>1, SolverStays DEF CeremonyInv
<1>5. ASSUME NEW p \in Requests PROVE Agreed(p)' /\ RecordTaken(p)'
  <2>1. AwaitedFollow(p)
    BY <1>1, AwaitedStays DEF CeremonyInv, Agreed
  <2>2. Agreed(p)'
    BY <1>1, <1>4, <2>1, AgreedStays DEF CeremonyInv
  <2>3. RecordTaken(p)'
    BY <1>1, <1>2, TakenStays DEF CeremonyInv
  <2> QED BY <2>2, <2>3
<1> QED BY <1>3, <1>4, <1>5 DEF CeremonyInv

\* The records are gone; what the solver answered and the offers bound is not.
LEMMA RestartKeeps ==
  ASSUME CeremonyInv, Restart PROVE CeremonyInv'
<1>1. /\ sessions' = [q \in Requests |-> NoSession]
      /\ records' = [q \in Requests |-> NoRecord] /\ pending' = [q \in Requests |-> None]
      /\ signing' = [q \in Requests |-> NoSigning]
      /\ UNCHANGED <<now, rows, collected, solverVars, finalizations, calls, signings, answered, invoices>>
  BY DEF Restart, solverVars
<1>2. LocalInv'
  BY <1>1, SolverStays DEF CeremonyInv
<1>3. ASSUME NEW p \in Requests
      PROVE  /\ firm'[p] \in Firm /\ firm'[p].bound = firm[p].bound /\ firm'[p].settled = firm[p].settled
             /\ firm'[p].state = "NONE" => firm[p].state = "NONE"
  <2>1. firm[p] \in Firm
    BY DEF CeremonyInv, CeremonyType
  <2>2. PICK f \in Firm : f = [firm[p] EXCEPT !.state = "CLOSED"]
    BY <2>1, SetFirmState
  <2>3. f.bound = firm[p].bound /\ f.settled = firm[p].settled /\ f.state = "CLOSED"
    BY <2>1, <2>2 DEF Firm
  <2>4. firm'[p] \in {f, firm[p]}
    BY <2>2 DEF Restart
  <2> QED BY <2>1, <2>3, <2>4
<1>4. IntakeType'
  BY <1>1 DEF CeremonyInv, IntakeType, NoSession
<1>5. CeremonyType'
  <2>1. firm' = [p \in Requests |-> firm'[p]]
    BY DEF Restart
  <2>2. NoSigning \in Signing
    BY DEF NoSigning, Signing
  <2> QED BY <1>1, <1>3, <2>1, <2>2, NoRecordType DEF CeremonyType
<1>6. ASSUME NEW p \in Requests PROVE Agreed(p)' /\ RecordTaken(p)'
  <2>1. Agreed(p) /\ now \in Nat
    BY DEF CeremonyInv, IntakeType
  <2>2. /\ records'[p].state = "none" /\ records'[p].expiresAt = 0 /\ records'[p].intentExpiresAt = 0
        /\ pending'[p] = None /\ signing'[p].call = None /\ sessions'[p].expiresAt = 0
    BY <1>1 DEF NoRecord, NoSigning, NoSession
  <2>3. Awaited(p)'
    BY <2>2 DEF Awaited
  <2>4. PacketOf(p)'
    BY <1>1, <2>1, <2>2 DEF Agreed, PacketOf, Finalizes
  <2>5. PacketOnce(p)'
    BY <1>1, <1>3, <2>1, <2>2 DEF Agreed, PacketOnce, Untouched, Finalizes
  <2>6. FirmFollows(p)'
    BY <1>1, <1>3, <2>1, <2>2 DEF Agreed, FirmFollows, Signs
  <2>7. RecordTaken(p)'
    BY <1>1, <2>1, <2>2 DEF RecordTaken
  <2> QED BY <2>3, <2>4, <2>5, <2>6, <2>7 DEF Agreed
<1> QED BY <1>2, <1>4, <1>5, <1>6 DEF CeremonyInv

-------------------------------------------------------------------------------
(* The invariant, and what it gives. *)

LEMMA InitialInv ==
  ASSUME CeremonyInitial PROVE CeremonyInv
<1>1. /\ now = 0 /\ rows = [q \in Requests |-> NoRow] /\ sessions = [q \in Requests |-> NoSession]
      /\ collected = [q \in Requests |-> 0]
  BY DEF CeremonyInitial, IntakeInit
<1>2. /\ records = [q \in Requests |-> NoRecord] /\ pending = [q \in Requests |-> None]
      /\ signing = [q \in Requests |-> NoSigning] /\ firm = [q \in Requests |-> NoFirm]
  BY DEF CeremonyInitial, CeremonyInit
<1>3. /\ calls = [c \in Calls |-> NoCall] /\ materialCalls = [m \in MaterialCalls |-> NoCall]
      /\ finalizations = [q \in Requests |-> NoExchange] /\ signings = [q \in Requests |-> NoExchange]
      /\ materials = [q \in Requests |-> NoExchange] /\ attempts = [q \in Requests |-> NoAttempt]
      /\ answered = [q \in Requests |-> {}]
  BY DEF CeremonyInitial, SolverInit
<1>4. IntakeType
  BY <1>1, NoRowType DEF IntakeType, NoSession
<1>5. SolverType
  <2>1. \A q \in Requests : answered[q] \in SUBSET Values
    BY <1>3
  <2>2. answered \in [Requests -> SUBSET Values]
    BY <1>3, <2>1
  <2> QED BY <1>3, <2>2, NoCallFacts, NoExchangeType, NoAttemptType DEF SolverType
<1>6. CeremonyType
  <2>1. NoSigning \in Signing
    BY DEF NoSigning, Signing
  <2> QED BY <1>2, <2>1, NoRecordType, NoFirmType DEF CeremonyType
<1>7. /\ NoExchange.state = "NONE" /\ NoAttempt.call = None /\ NoAttempt.result = FALSE
      /\ NoSigning.call = None /\ NoRecord.state = "none" /\ NoRecord.expiresAt = 0
      /\ NoRecord.intentExpiresAt = 0 /\ NoFirm.bound = 0 /\ NoFirm.settled = 0 /\ NoSession.expiresAt = 0
  BY DEF NoExchange, NoAttempt, NoSigning, NoRecord, NoFirm, NoSession
<1>8. None \notin {"finalize", "sign"}
  BY DEF None
<1>9. \A c \in Calls : calls[c].phase = "idle" /\ calls[c].kind = None
  BY <1>3, NoCallFacts
<1>10. CallsKnow
  BY <1>8, <1>9 DEF CallsKnow, CallKnows
<1>11. MaterialKnown
  BY <1>3, <1>7, NoCallFacts DEF MaterialKnown
<1>12. AnsweredIsReady
  BY <1>3, <1>7 DEF AnsweredIsReady
<1>13. ASSUME NEW q \in Requests PROVE Agreed(q) /\ RecordTaken(q)
  <2>1. \A c \in Calls : ~Finalizes(c, q) /\ ~Signs(c, q)
    BY <1>8, <1>9 DEF Finalizes, Signs
  <2>2. /\ finalizations[q].state = "NONE" /\ signings[q].state = "NONE" /\ pending[q] = None
        /\ signing[q].call = None /\ records[q].state = "none" /\ records[q].expiresAt = 0
        /\ records[q].intentExpiresAt = 0 /\ firm[q].bound = 0 /\ firm[q].settled = 0
        /\ sessions[q].expiresAt = 0
    BY <1>1, <1>2, <1>3, <1>7
  <2>3. Awaited(q) /\ PacketOnce(q) /\ FirmFollows(q)
    BY <2>1, <2>2 DEF Awaited, PacketOnce, Untouched, FirmFollows
  <2>4. PacketOf(q)
    <3>1. 0 \in Int
      OBVIOUS
    <3> QED BY <2>1, <2>2, <3>1 DEF PacketOf
  <2>5. RecordTaken(q)
    BY <1>1, <2>2 DEF RecordTaken
  <2> QED BY <2>3, <2>4, <2>5 DEF Agreed
<1> QED BY <1>4, <1>5, <1>6, <1>10, <1>11, <1>12, <1>13 DEF CeremonyInv, LocalInv

LEMMA NextInv ==
  ASSUME CeremonyInv, [CeremonyNext]_allVars PROVE CeremonyInv'
<1>1. CASE IntakeNext /\ UNCHANGED <<solverVars, ceremonyVars>>
  <2>1. PICK q \in Requests : \/ CreateQuote(q) \/ CollectionFails(q)
                              \/ \E delivered \in Deliveries : CollectionEnds(q, delivered)
    BY <1>1 DEF IntakeNext
  <2> QED BY <1>1, <2>1, IntakeAssumption, CreateQuoteKeeps, CollectionFailsKeeps, CollectionEndsKeeps
<1>2. CASE \E q \in Requests : CeremonyStep(q)
  <2>1. PICK q \in Requests : CeremonyStep(q)
    BY <1>2
  <2>2. ASSUME NEW until \in {now + 1, records[q].expiresAt}, ReserveSelected(q, until) PROVE CeremonyInv'
    <3>1. now + 1 \in Int /\ records[q].expiresAt \in Int
      BY DEF CeremonyInv, IntakeType, CeremonyType, Record
    <3>2. until \in Int
      BY <3>1
    <3> QED BY <2>2, <3>2, ReserveSelectedKeeps
  <2>3. ASSUME NEW c \in Calls, FinalizeReserved(q, c) \/ FinalizeAgain(q, c) \/ SignIntent(q, c)
        PROVE  CeremonyInv'
    BY <2>3, FinalizeReservedKeeps, FinalizeAgainKeeps, SignIntentKeeps
  <2>4. CASE \/ SelectQuote(q) \/ Release(q) \/ FinalizeRefused(q) \/ FinalizationReturns(q)
             \/ FinalizationTimesOut(q)
    BY <2>4, SelectQuoteKeeps, ReleaseKeeps, FinalizeRefusedKeeps, FinalizationReturnsKeeps,
       FinalizationTimesOutKeeps
  <2>5. CASE \/ AuthorizeFinalized(q) \/ PrepareContractIntent(q) \/ SignatureReturns(q)
             \/ BindContractIntent(q)
    BY <2>5, AuthorizeFinalizedKeeps, PrepareContractIntentKeeps, SignatureReturnsKeeps,
       BindContractIntentKeeps
  <2> QED BY <2>1, <2>2, <2>3, <2>4, <2>5 DEF CeremonyStep
<1>3. CASE \E c \in Calls : CallEnds(c)
  BY <1>3, CallEndsKeeps
<1>4. CASE SolverNext /\ UNCHANGED <<now, restarts, intakeVars, ceremonyVars>>
  BY <1>4, SolverAssumption, SolverNextKeeps
<1>5. CASE Restart \/ Tick
  BY <1>5, RestartKeeps, TickKeeps
<1>6. CASE UNCHANGED allVars
  <2>1. UNCHANGED <<now, rows, sessions, collected, solverVars, ceremonyVars, records, pending>>
    BY <1>6 DEF allVars, intakeVars, ceremonyVars
  <2>2. IntakeType' /\ \A p \in Requests : RecordTaken(p)'
    BY <2>1 DEF CeremonyInv, IntakeType, RecordTaken
  <2> QED BY <2>1, <2>2, IntakeStays
<1> QED BY <1>1, <1>2, <1>3, <1>4, <1>5, <1>6 DEF CeremonyNext

\* The coordinator, the solver's services and their stores agree on every request at every
\* step, through lost, late and repeated calls, crashes and restarts.
THEOREM CeremonyInvariant == CeremonySpec => []CeremonyInv
<1>1. CeremonyInitial => CeremonyInv
  BY InitialInv
<1>2. CeremonyInv /\ [CeremonyNext]_allVars => CeremonyInv'
  BY NextInv
<1> QED BY <1>1, <1>2, PTL DEF CeremonySpec

LEMMA InvAgreed ==
  ASSUME CeremonyInv PROVE AgreedResponse
<1>1. ASSUME NEW q \in Requests
      PROVE  /\ Cardinality(answered[q]) <= 1
             /\ firm[q].bound # 0 => firm[q].bound \in answered[q] /\ q \in invoices
             /\ firm[q].settled # 0 => firm[q].settled = firm[q].bound
             /\ records[q].state = "finalized" => records[q].response = firm[q].bound
             /\ records[q].state = "authorized" => records[q].response = firm[q].settled
             /\ signings[q].state # "NONE" => firm[q].settled # 0
  <2>1. \/ answered[q] = {} \/ \E x : answered[q] = {x}
    BY DEF CeremonyInv, LocalInv, AnsweredIsReady
  <2>2. Cardinality(answered[q]) \in {0, 1}
    BY <2>1, FS_EmptySet, FS_Singleton
  <2>3. Agreed(q)
    BY DEF CeremonyInv
  <2> QED BY <2>2, <2>3 DEF Agreed, FirmFollows
<1> QED BY <1>1 DEF AgreedResponse

\* For every set of requests and calls, every lease and every schedule, crash and restart: the
\* solver answers one executable quote for a request, over an invoice that its node has, and
\* the coordinator binds, the user authorizes and the solver signs for that one.
THEOREM CeremonyAgreedResponse == CeremonySpec => []AgreedResponse
<1>1. CeremonyInv => AgreedResponse
  BY InvAgreed
<1> QED BY <1>1, CeremonyInvariant, PTL

\* A terminal record that has not expired.
Terminal(p) == records[p].state \in {"failed", "authorized"} /\ records[p].expiresAt > now
TerminalKept == \A p \in Requests : Terminal(p) => records'[p].state \in {records[p].state, "none"}

\* Writing one record leaves the others, or drops them.
LEMMA ReplaceTerminal ==
  ASSUME CeremonyInv, NEW q \in Requests, NEW r, Replace(q, r), Terminal(q) => r.state \in {records[q].state, "none"}
  PROVE  TerminalKept
<1>1. \A p \in Requests : p # q => records'[p] \in {records[p], NoRecord}
  BY DEF Replace, LiveRecords
<1>2. records'[q] = r
  BY DEF Replace, LiveRecords
<1>3. NoRecord.state = "none"
  BY DEF NoRecord
<1> QED BY <1>1, <1>2, <1>3 DEF TerminalKept

LEMMA LiveTerminal ==
  ASSUME records' = LiveRecords PROVE TerminalKept
  BY DEF LiveRecords, TerminalKept, NoRecord

\* A record that is written had another state, or keeps its own.
LEMMA ReplacedTerminal ==
  ASSUME CeremonyInv, NEW q \in Requests, NEW r, Replace(q, r),
         \/ LiveRecords[q].state \in {"selected", "reserved", "finalizing", "finalized"}
         \/ r.state = records[q].state
  PROVE  TerminalKept
<1>1. now \in Nat /\ CeremonyType
  BY DEF CeremonyInv, IntakeType
<1>2. CASE LiveRecords[q].state \in {"selected", "reserved", "finalizing", "finalized"}
  BY <1>1, <1>2, LiveRecord, ReplaceTerminal DEF Terminal
<1>3. CASE r.state = records[q].state
  BY <1>3, ReplaceTerminal
<1> QED BY <1>2, <1>3

LEMMA StepTerminal ==
  ASSUME CeremonyInv, NEW q \in Requests, CeremonyStep(q)
  PROVE  TerminalKept
<1>1. CASE SelectQuote(q)
  <2>1. rows[q].state = "READY"
    BY <1>1 DEF SelectQuote, ClaimSelection, Selectable
  <2>2. ~Terminal(q)
    BY <2>1 DEF CeremonyInv, RecordTaken, Terminal
  <2>3. CASE Replace(q, [NoRecord EXCEPT !.state = "selected", !.expiresAt = sessions[q].expiresAt])
    <3>1. PICK r : r = [NoRecord EXCEPT !.state = "selected", !.expiresAt = sessions[q].expiresAt]
      OBVIOUS
    <3> QED BY <2>2, <2>3, <3>1, ReplaceTerminal
  <2> QED BY <1>1, <2>3, LiveTerminal DEF SelectQuote
<1>2. ASSUME NEW until, ReserveSelected(q, until) PROVE TerminalKept
  <2>1. PICK r : r = [records[q] EXCEPT !.state = "reserved", !.expiresAt = until]
    OBVIOUS
  <2> QED BY <1>2, <2>1, ReplacedTerminal DEF ReserveSelected
<1>3. ASSUME NEW c \in Calls, FinalizeReserved(q, c) PROVE TerminalKept
  <2>1. PICK r : r = [records[q] EXCEPT !.state = "finalizing",
                                        !.attemptExpiresAt = Least(now + RequestTtl, records[q].expiresAt)]
    OBVIOUS
  <2>2. LiveRecords[q].state = "reserved" /\ Replace(q, r)
    BY <1>3, <2>1 DEF FinalizeReserved
  <2> QED BY <2>2, ReplacedTerminal
<1>4. ASSUME NEW c \in Calls, FinalizeAgain(q, c) PROVE TerminalKept
  <2>1. PICK r : r = Failed(q)
    OBVIOUS
  <2>2. LiveRecords[q].state = "finalizing" /\ (Replace(q, r) \/ records' = LiveRecords)
    BY <1>4, <2>1 DEF FinalizeAgain
  <2> QED BY <2>2, ReplacedTerminal, LiveTerminal
<1>5. CASE FinalizeRefused(q)
  <2>1. PICK r : r = Failed(q)
    OBVIOUS
  <2> QED BY <1>5, <2>1, ReplacedTerminal DEF FinalizeRefused
<1>6. CASE FinalizationReturns(q)
  <2>1. pending[q] # None
    BY <1>6 DEF FinalizationReturns
  <2>2. records[q].state \in {"none", "selected", "finalizing"}
    BY <2>1 DEF CeremonyInv, RecordTaken
  <2>3. \A p \in Requests : p # q => records'[p] = records[p]
    BY <1>6, Returned DEF CeremonyInv, CeremonyType
  <2> QED BY <2>2, <2>3 DEF TerminalKept, Terminal
<1>7. CASE AuthorizeFinalized(q)
  <2>1. PICK r : r = [records[q] EXCEPT !.state = "authorized"]
    OBVIOUS
  <2> QED BY <1>7, <2>1, ReplacedTerminal DEF AuthorizeFinalized
<1>8. CASE PrepareContractIntent(q)
  <2>1. PICK r : r = [records[q] EXCEPT !.intentExpiresAt = records[q].until]
    OBVIOUS
  <2>2. records[q] \in Record
    BY DEF CeremonyInv, CeremonyType
  <2>3. r.state = records[q].state
    BY <2>1, <2>2 DEF Record
  <2> QED BY <1>8, <2>1, <2>3, ReplacedTerminal DEF PrepareContractIntent
<1>9. ASSUME UNCHANGED records PROVE TerminalKept
  BY <1>9 DEF TerminalKept
<1>10. CASE Release(q) \/ FinalizationTimesOut(q) \/ SignatureReturns(q) \/ BindContractIntent(q)
  BY <1>9, <1>10 DEF Release, FinalizationTimesOut, SignatureReturns, BindContractIntent
<1>11. ASSUME NEW c \in Calls, SignIntent(q, c) PROVE TerminalKept
  BY <1>9, <1>11 DEF SignIntent
<1> QED BY <1>1, <1>2, <1>3, <1>4, <1>5, <1>6, <1>7, <1>8, <1>10, <1>11 DEF CeremonyStep

LEMMA NextTerminal ==
  ASSUME CeremonyInv, CeremonyNext
  PROVE  TerminalKept
<1>1. ASSUME UNCHANGED records PROVE TerminalKept
  BY <1>1 DEF TerminalKept
<1>2. CASE IntakeNext /\ UNCHANGED <<solverVars, ceremonyVars>>
  BY <1>1, <1>2 DEF ceremonyVars
<1>3. CASE \E q \in Requests : CeremonyStep(q)
  BY <1>3, StepTerminal
<1>4. CASE \E c \in Calls : CallEnds(c)
  BY <1>1, <1>4 DEF CallEnds, ceremonyVars
<1>5. CASE SolverNext /\ UNCHANGED <<now, restarts, intakeVars, ceremonyVars>>
  BY <1>1, <1>5 DEF ceremonyVars
<1>6. CASE Restart
  BY <1>6 DEF Restart, TerminalKept, NoRecord
<1>7. CASE Tick
  BY <1>1, <1>7 DEF Tick, ceremonyVars
<1> QED BY <1>2, <1>3, <1>4, <1>5, <1>6, <1>7 DEF CeremonyNext

\* No late answer, second request, cleanup or step of another swap takes a failed or an
\* authorized record back: while it lives it keeps its state, or is dropped.
THEOREM CeremonyTerminalRecords == CeremonySpec => TerminalRecords
<1>1. CeremonyInv /\ [CeremonyNext]_allVars =>
        [\A q \in Requests :
           records[q].state \in {"failed", "authorized"} /\ records[q].expiresAt > now =>
             records'[q].state \in {records[q].state, "none"}]_allVars
  BY NextTerminal DEF TerminalKept, Terminal
<1> QED BY <1>1, CeremonyInvariant, PTL DEF CeremonySpec, TerminalRecords

-------------------------------------------------------------------------------
(* A signed request is consumed by its first claim. *)

LEMMA Spans ==
  ASSUME IntakeAssumption
  PROVE  Span(0) = 0 /\ \A n \in Nat : Span(n) \in Nat /\ Span(n + 1) = Span(n) + QuotaWindow
<1>1. QuotaWindow \in Nat
  BY DEF IntakeAssumption
<1>2. ASSUME NEW n \in Nat PROVE Span(n) \in Nat /\ Span(n + 1) = Span(n) + QuotaWindow
  BY <1>1, <1>2, SMT DEF Span
<1> QED BY <1>1, <1>2, SMT DEF Span

LEMMA CreateQuoteConsumes ==
  ASSUME CeremonyInv, Consumed, IntakeAssumption, NEW q \in Requests, CreateQuote(q)
  PROVE  Consumed'
<1>1. /\ now < AuthorizationExpiry[q] /\ AuthorizationExpiry[q] - now <= MaximumAuthorizationTtl /\ now' = now
      /\ \/ /\ PrunedRows[q].state = "NONE"
            /\ rows' = [PrunedRows EXCEPT ![q] = [state |-> "CLAIMED", expiresAt |-> PricingExpiry[q],
                                                  claimedAt |-> now]]
            /\ collected' = [collected EXCEPT ![q] = @ + 1]
         \/ rows' = PrunedRows /\ UNCHANGED collected
  BY DEF CreateQuote, Authorized, WithinLifetime
<1>2. /\ rows \in [Requests -> Row] /\ now \in Nat /\ collected \in [Requests -> Nat]
      /\ QuotaWindow \in Nat /\ MaximumAuthorizationTtl \in Nat
      /\ \A p \in Requests : AuthorizationExpiry[p] \in Nat
  BY DEF CeremonyInv, IntakeType, IntakeAssumption
\* A row that is pruned was claimed a window ago.
<1>3. ASSUME NEW p \in Requests, collected[p] # 0
      PROVE  /\ Span(collected[p] - 1) < MaximumAuthorizationTtl
             /\ \/ now >= AuthorizationExpiry[p]
                \/ /\ PrunedRows[p].state # "NONE"
                   /\ AuthorizationExpiry[p] + Span(collected[p] - 1)
                        <= PrunedRows[p].claimedAt + MaximumAuthorizationTtl
                \/ AuthorizationExpiry[p] + Span(collected[p]) <= now + MaximumAuthorizationTtl
  <2>1. PrunedRows[p] = IF rows[p].state # "NONE" /\ Prune(p) THEN NoRow ELSE rows[p]
    BY DEF PrunedRows
  <2>2. rows[p].claimedAt \in Nat
    BY <1>2 DEF Row
  <2>3. CASE rows[p].state # "NONE" /\ Prune(p)
    <3>1. rows[p].claimedAt + QuotaWindow <= now
      BY <1>2, <2>2, <2>3 DEF Prune
    <3>2. PICK n \in Nat : collected[p] = n + 1
      BY <1>2, <1>3
    <3>3. Span(n) \in Nat /\ Span(n + 1) = Span(n) + QuotaWindow /\ collected[p] - 1 = n
      BY <3>2, Spans
    <3>4. \/ now >= AuthorizationExpiry[p]
          \/ AuthorizationExpiry[p] + Span(n) <= rows[p].claimedAt + MaximumAuthorizationTtl
          \/ AuthorizationExpiry[p] + Span(n + 1) <= now + MaximumAuthorizationTtl
      BY <1>3, <3>2, <3>3 DEF Consumed
    <3>5. \/ now >= AuthorizationExpiry[p]
          \/ AuthorizationExpiry[p] + Span(n + 1) <= now + MaximumAuthorizationTtl
      BY <1>2, <2>2, <3>1, <3>3, <3>4
    <3> QED BY <1>3, <3>2, <3>5 DEF Consumed
  <2>4. CASE ~(rows[p].state # "NONE" /\ Prune(p))
    BY <1>3, <2>1, <2>4 DEF Consumed
  <2> QED BY <2>3, <2>4
<1>4. CASE rows' = PrunedRows /\ UNCHANGED collected
  BY <1>1, <1>3, <1>4 DEF Consumed
<1>5. CASE /\ PrunedRows[q].state = "NONE"
           /\ rows' = [PrunedRows EXCEPT ![q] = [state |-> "CLAIMED", expiresAt |-> PricingExpiry[q],
                                                 claimedAt |-> now]]
           /\ collected' = [collected EXCEPT ![q] = @ + 1]
  <2>1. PICK n \in Nat : n = collected[q]
    BY <1>2
  <2>2. /\ collected'[q] = n + 1 /\ rows'[q].state = "CLAIMED" /\ rows'[q].claimedAt = now
        /\ \A p \in Requests : p # q => collected'[p] = collected[p] /\ rows'[p] = PrunedRows[p]
    BY <1>2, <1>5, <2>1 DEF PrunedRows
  <2>3. Span(0) = 0 /\ Span(n) \in Nat /\ (n + 1) - 1 = n /\ n + 1 # 0
    BY <2>1, Spans
\* The claims before this one took n windows of the authorization's life.
  <2>4. AuthorizationExpiry[q] + Span(n) <= now + MaximumAuthorizationTtl
    <3>1. CASE n = 0
      BY <1>1, <1>2, <2>3, <3>1
    <3>2. CASE n # 0
      BY <1>1, <1>2, <1>3, <1>5, <2>1, <3>2
    <3> QED BY <3>1, <3>2
  <2>5. Span(n) < MaximumAuthorizationTtl
    BY <1>1, <1>2, <2>3, <2>4
  <2>6. /\ collected'[q] - 1 = n /\ AuthorizationExpiry[q] + Span(n) <= rows'[q].claimedAt + MaximumAuthorizationTtl
    BY <2>2, <2>3, <2>4
  <2>7. ASSUME NEW p \in Requests, collected'[p] # 0
        PROVE  /\ Span(collected'[p] - 1) < MaximumAuthorizationTtl
               /\ \/ now >= AuthorizationExpiry[p]
                  \/ /\ rows'[p].state # "NONE"
                     /\ AuthorizationExpiry[p] + Span(collected'[p] - 1)
                          <= rows'[p].claimedAt + MaximumAuthorizationTtl
                  \/ AuthorizationExpiry[p] + Span(collected'[p]) <= now + MaximumAuthorizationTtl
    <3>1. CASE p = q
      BY <2>2, <2>5, <2>6, <3>1
    <3>2. CASE p # q
      BY <1>3, <2>2, <2>7, <3>2
    <3> QED BY <3>1, <3>2
  <2> QED BY <1>1, <2>7 DEF Consumed, Span
<1> QED BY <1>1, <1>4, <1>5

\* The other steps keep the rows' claims.
ClaimsKept ==
  /\ now' >= now /\ UNCHANGED collected
  /\ \A p \in Requests : (rows'[p].state = "NONE" => rows[p].state = "NONE") /\ rows'[p].claimedAt = rows[p].claimedAt

LEMMA ClaimsConsumed ==
  ASSUME CeremonyInv, now' \in Nat, IntakeAssumption, Consumed, ClaimsKept PROVE Consumed'
<1>1. /\ now \in Nat /\ collected \in [Requests -> Nat] /\ MaximumAuthorizationTtl \in Nat
      /\ \A p \in Requests : AuthorizationExpiry[p] \in Nat
  BY DEF CeremonyInv, IntakeType, IntakeAssumption
<1>2. ASSUME NEW p \in Requests, collected'[p] # 0
      PROVE  /\ Span(collected'[p] - 1) < MaximumAuthorizationTtl
             /\ \/ now' >= AuthorizationExpiry[p]
                \/ /\ rows'[p].state # "NONE"
                   /\ AuthorizationExpiry[p] + Span(collected'[p] - 1)
                        <= rows'[p].claimedAt + MaximumAuthorizationTtl
                \/ AuthorizationExpiry[p] + Span(collected'[p]) <= now' + MaximumAuthorizationTtl
  <2>1. collected[p] # 0 /\ collected'[p] = collected[p]
    BY <1>2 DEF ClaimsKept
  <2>2. PICK n \in Nat : collected[p] = n + 1
    BY <1>1, <2>1
  <2>3. Span(n) \in Nat /\ Span(n + 1) \in Nat /\ collected[p] - 1 = n
    BY <2>2, Spans
  <2>4. now' >= now /\ now' \in Nat /\ (rows'[p].state = "NONE" => rows[p].state = "NONE")
        /\ rows'[p].claimedAt = rows[p].claimedAt
    BY DEF ClaimsKept
  <2>5. /\ Span(n) < MaximumAuthorizationTtl
        /\ \/ now >= AuthorizationExpiry[p]
           \/ /\ rows[p].state # "NONE"
              /\ AuthorizationExpiry[p] + Span(n) <= rows[p].claimedAt + MaximumAuthorizationTtl
           \/ AuthorizationExpiry[p] + Span(n + 1) <= now + MaximumAuthorizationTtl
    BY <2>1, <2>2, <2>3 DEF Consumed
  <2>6. \/ now' >= AuthorizationExpiry[p]
        \/ /\ rows'[p].state # "NONE"
           /\ AuthorizationExpiry[p] + Span(n) <= rows'[p].claimedAt + MaximumAuthorizationTtl
        \/ AuthorizationExpiry[p] + Span(n + 1) <= now' + MaximumAuthorizationTtl
    BY <1>1, <2>3, <2>4, <2>5
  <2> QED BY <2>1, <2>2, <2>3, <2>5, <2>6
<1> QED BY <1>2 DEF Consumed, Span

LEMMA NextConsumes ==
  ASSUME CeremonyInv, Consumed, [CeremonyNext]_allVars
  PROVE  Consumed'
<1>1. /\ rows \in [Requests -> Row] /\ now \in Nat
      /\ \A q \in Requests : rows[q] \in Row
  BY DEF CeremonyInv, IntakeType
<1>2. ASSUME UNCHANGED <<now, rows, collected>> PROVE ClaimsKept /\ now' \in Nat
  BY <1>1, <1>2 DEF ClaimsKept
<1>3. ASSUME NEW q \in Requests, NEW delivered, CollectionEnds(q, delivered)
      PROVE  ClaimsKept /\ now' \in Nat
  <2>1. PICK t : t = SessionOf(q, delivered, reading[q]).expiresAt
    OBVIOUS
  <2>2. /\ rows' = [rows EXCEPT ![q].state = "READY", ![q].expiresAt = t]
        /\ UNCHANGED <<now, collected>>
    BY <1>3, <2>1 DEF CollectionEnds
  <2>3. \A p \in Requests : p # q => rows'[p] = rows[p]
    BY <1>1, <2>2
  <2>4. rows'[q].state = "READY" /\ rows'[q].claimedAt = rows[q].claimedAt
    <3>1. PICK w : w = [rows[q] EXCEPT !.state = "READY", !.expiresAt = t]
      OBVIOUS
    <3>2. rows'[q] = w
      BY <1>1, <2>2, <3>1
    <3>3. w.state = "READY" /\ w.claimedAt = rows[q].claimedAt
      BY <1>1, <3>1 DEF Row
    <3> QED BY <3>2, <3>3
  <2> QED BY <1>1, <2>2, <2>3, <2>4 DEF ClaimsKept
<1>4. ASSUME NEW q \in Requests, SelectQuote(q) PROVE ClaimsKept /\ now' \in Nat
  <2>1. rows' = [rows EXCEPT ![q].state = "SELECTED"] /\ UNCHANGED <<now, collected>>
    BY <1>4 DEF SelectQuote, ClaimSelection
  <2>2. PICK w \in Row : w = [rows[q] EXCEPT !.state = "SELECTED"]
    BY <1>1, SetRowState
  <2>3. w.state = "SELECTED" /\ w.claimedAt = rows[q].claimedAt
    BY <1>1, <2>2 DEF Row
  <2>4. rows'[q] = w /\ \A p \in Requests : p # q => rows'[p] = rows[p]
    BY <1>1, <2>1, <2>2
  <2> QED BY <1>1, <2>1, <2>3, <2>4 DEF ClaimsKept
<1>5. ASSUME NEW q \in Requests, CeremonyStep(q), ~SelectQuote(q) PROVE UNCHANGED <<now, rows, collected>>
  <2>1. ASSUME NEW until, ReserveSelected(q, until) PROVE UNCHANGED <<now, rows, collected>>
    BY <2>1 DEF ReserveSelected, intakeVars
  <2>2. ASSUME NEW c \in Calls, FinalizeReserved(q, c) \/ FinalizeAgain(q, c) \/ SignIntent(q, c)
        PROVE  UNCHANGED <<now, rows, collected>>
    BY <2>2 DEF FinalizeReserved, FinalizeAgain, SignIntent, intakeVars
  <2>3. CASE Release(q) \/ FinalizeRefused(q) \/ FinalizationReturns(q) \/ FinalizationTimesOut(q)
    BY <2>3 DEF Release, FinalizeRefused, FinalizationReturns, FinalizationTimesOut, intakeVars
  <2>4. CASE \/ AuthorizeFinalized(q) \/ PrepareContractIntent(q) \/ SignatureReturns(q)
             \/ BindContractIntent(q)
    BY <2>4 DEF AuthorizeFinalized, PrepareContractIntent, SignatureReturns, BindContractIntent, intakeVars
  <2> QED BY <1>5, <2>1, <2>2, <2>3, <2>4 DEF CeremonyStep
<1>6. CASE IntakeNext
  <2>1. PICK q \in Requests : \/ CreateQuote(q) \/ CollectionFails(q)
                              \/ \E delivered \in Deliveries : CollectionEnds(q, delivered)
    BY <1>6 DEF IntakeNext
  <2>2. CASE CreateQuote(q)
    BY <2>2, IntakeAssumption, CreateQuoteConsumes
  <2>3. CASE CollectionFails(q)
    BY <1>2, <2>3, IntakeAssumption, ClaimsConsumed DEF CollectionFails
  <2>4. CASE \E delivered \in Deliveries : CollectionEnds(q, delivered)
    BY <1>3, <2>4, IntakeAssumption, ClaimsConsumed
  <2> QED BY <2>1, <2>2, <2>3, <2>4
<1>7. CASE \E q \in Requests : CeremonyStep(q)
  BY <1>2, <1>4, <1>5, <1>7, IntakeAssumption, ClaimsConsumed
<1>8. CASE \/ \E c \in Calls : CallEnds(c)
           \/ SolverNext /\ UNCHANGED <<now, restarts, intakeVars, ceremonyVars>>
           \/ Restart \/ UNCHANGED allVars
  <2>1. UNCHANGED <<now, rows, collected>>
    BY <1>8 DEF CallEnds, Restart, intakeVars, allVars
  <2> QED BY <1>2, <2>1, IntakeAssumption, ClaimsConsumed
<1>9. CASE Tick
  <2>1. ClaimsKept /\ now' \in Nat
    BY <1>1, <1>9 DEF Tick, intakeVars, ClaimsKept
  <2> QED BY <2>1, IntakeAssumption, ClaimsConsumed
<1> QED BY <1>6, <1>7, <1>8, <1>9 DEF CeremonyNext

\* A signed request claims again at most once for each quota window that ends while its
\* authorization lives, whatever fails, expires early, is pruned or restarts in between.
THEOREM CeremonyCollectedPerWindow == CeremonySpec => []CollectedPerWindow
<1>1. CeremonyInitial => Consumed
  BY DEF CeremonyInitial, IntakeInit, Consumed
<1>2. CeremonyInv /\ Consumed /\ [CeremonyNext]_allVars => Consumed'
  BY NextConsumes
<1>3. CeremonyInv /\ Consumed => CollectedPerWindow
  BY DEF CeremonyInv, IntakeType, Consumed, Span, CollectedPerWindow
<1> QED BY <1>1, <1>2, <1>3, CeremonyInvariant, PTL DEF CeremonySpec

\* Where the quota window is no shorter than the policy lets an authorization live, that is
\* once.
COROLLARY CeremonyCollectedOnce ==
  ASSUME MaximumAuthorizationTtl <= QuotaWindow
  PROVE  CeremonySpec => [](\A q \in Requests : collected[q] <= 1)
<1>1. CeremonyInv /\ CollectedPerWindow => \A q \in Requests : collected[q] <= 1
  <2> SUFFICES ASSUME CeremonyInv, CollectedPerWindow, NEW q \in Requests, ~(collected[q] <= 1)
               PROVE  FALSE
    OBVIOUS
  <2>0. collected[q] \in Nat
    BY DEF CeremonyInv, IntakeType
  <2>1. PICK n \in Nat : collected[q] = n + 2
    BY <2>0
  <2>2. Span(n) \in Nat /\ Span(n + 1) = Span(n) + QuotaWindow
    BY <2>1, Spans, IntakeAssumption
  <2>3. (collected[q] - 1) * QuotaWindow < MaximumAuthorizationTtl
    BY <2>0, <2>1 DEF CollectedPerWindow
  <2>4. collected[q] - 1 = n + 1
    BY <2>1
  <2>5. Span(n + 1) < MaximumAuthorizationTtl
    BY <2>3, <2>4 DEF Span
  <2>6. QuotaWindow \in Nat /\ MaximumAuthorizationTtl \in Nat
    BY IntakeAssumption DEF IntakeAssumption
  <2> QED BY <2>2, <2>5, <2>6
<1> QED BY <1>1, CeremonyInvariant, CeremonyCollectedPerWindow, PTL
===============================================================================
