----------------------------- MODULE ReleaseProofs -----------------------------
(***************************************************************************)
(* Machine-checked proofs about the release path, from the unsigned plan   *)
(* to the rotation of its operating set, for any providers of which any    *)
(* may lie, any drafts of documents and any schedule of transactions,      *)
(* reorganisations, signatures, revocations and settlements.               *)
(*                                                                         *)
(* What is signed or observed once is not changed by anything later, so    *)
(* each document keeps what its validator demanded (CeremonyInv,           *)
(* EvidenceInv, ActivationInv, CustodyInv).  The chain is the exception:   *)
(* it may lose blocks, but never a final one (ChainMoves), and what has    *)
(* to be true of it later was checked in a final block.                    *)
(***************************************************************************)
EXTENDS RetainedCustody, FiniteSetTheorems, SequenceTheorems, TLAPS

-------------------------------------------------------------------------------
(* The chain. *)

Kinds == {"empty", "gate", "paymentHashRegistry", "vault", "userEscrow", "register-vault", "register-user-escrow",
          "seal-registry", "stray", "rotate", "pause", "donate", "schedule", "deposit", "lock", "halt", "upgrade"}
Block == [kind : Kinds, time : Nat]
           \cup [kind : {"open"}, time : Nat, risk : {o.risk : o \in GateOpenings},
                 until : {o.until : o \in GateOpenings}]

ChainInv ==
  /\ now \in Nat /\ chain \in Seq(Block) /\ finalized \in Nat
  /\ 1 <= finalized /\ finalized <= Len(chain)

\* A chain that nothing can undo.
FinalBlock(c) == c \in Seq(Block) /\ Len(c) >= 1 /\ Len(c) <= finalized /\ IsPrefix(c, chain)

\* A prefix agrees with the chain block by block.
LEMMA PrefixIs ==
  ASSUME NEW S, NEW s \in Seq(S), NEW t \in Seq(S)
  PROVE  IsPrefix(s, t) <=> Len(s) <= Len(t) /\ \A i \in 1..Len(s) : s[i] = t[i]
<1>1. ASSUME Len(s) <= Len(t) PROVE SubSeq(t, 1, Len(s)) \in Seq(S) /\ Len(SubSeq(t, 1, Len(s))) = Len(s)
                                   /\ \A i \in 1..Len(s) : SubSeq(t, 1, Len(s))[i] = t[i]
  BY <1>1
<1>2. SubSeq(s, 1, Len(s)) = s
  BY SubSeqFull
<1>3. ASSUME Len(s) <= Len(t), \A i \in 1..Len(s) : s[i] = t[i] PROVE s = SubSeq(t, 1, Len(s))
  BY <1>1, <1>3, SeqEqual
<1> QED BY <1>1, <1>2, <1>3 DEF IsPrefix

\* The first blocks of a chain.
LEMMA FirstBlocks ==
  ASSUME NEW S, NEW s \in Seq(S), NEW n \in Nat, n <= Len(s)
  PROVE  /\ SubSeq(s, 1, n) \in Seq(S) /\ Len(SubSeq(s, 1, n)) = n
         /\ \A i \in 1..n : SubSeq(s, 1, n)[i] = s[i]
         /\ IsPrefix(SubSeq(s, 1, n), s)
<1>1. /\ SubSeq(s, 1, n) \in Seq(S) /\ Len(SubSeq(s, 1, n)) = n
      /\ \A i \in 1..n : SubSeq(s, 1, n)[i] = s[i]
  OBVIOUS
<1> QED BY <1>1, PrefixIs

\* Two prefixes of one chain: the shorter is a prefix of the longer.
LEMMA PrefixOfPrefix ==
  ASSUME NEW S, NEW s \in Seq(S), NEW t \in Seq(S), NEW u \in Seq(S), IsPrefix(s, u), IsPrefix(t, u),
         Len(s) <= Len(t)
  PROVE  IsPrefix(s, t)
  BY PrefixIs

\* What one step may do to the chain: final blocks stay, and finality advances.
ChainMoves ==
  /\ chain' \in Seq(Block) /\ finalized' \in Nat /\ now' \in Nat
  /\ now <= now' /\ finalized <= finalized' /\ finalized' <= Len(chain')
  /\ \A i \in 1..finalized : chain'[i] = chain[i]

LEMMA FinalStays ==
  ASSUME ChainInv, ChainMoves, NEW c, FinalBlock(c)
  PROVE  FinalBlock(c)'
<1>1. c \in Seq(Block) /\ Len(c) \in Nat /\ Len(c) <= finalized' /\ Len(c) >= 1
  BY DEF FinalBlock, ChainInv, ChainMoves
<1>2. \A i \in 1..Len(c) : c[i] = chain'[i]
  BY <1>1, PrefixIs DEF FinalBlock, ChainInv, ChainMoves
<1>3. IsPrefix(c, chain')
  BY <1>1, <1>2, PrefixIs DEF ChainMoves
<1> QED BY <1>1, <1>3 DEF FinalBlock

\* A block is appended, or the last one that is not final is lost.
LEMMA Appended ==
  ASSUME ChainInv, NEW b \in Block, chain' = Append(chain, b), now' \in Nat, now <= now', UNCHANGED finalized
  PROVE  ChainMoves
  BY DEF ChainInv, ChainMoves
LEMMA LastLost ==
  ASSUME ChainInv, Len(chain) > finalized, chain' = Front(chain), UNCHANGED <<now, finalized>>
  PROVE  ChainMoves
<1>1. Len(chain) - 1 \in Nat /\ finalized <= Len(chain) - 1
  BY DEF ChainInv
<1>2. chain' = SubSeq(chain, 1, Len(chain) - 1)
  BY DEF Front
<1> QED BY <1>1, <1>2, FirstBlocks DEF ChainInv, ChainMoves
LEMMA Unmoved ==
  ASSUME ChainInv, UNCHANGED <<now, chain, finalized>>
  PROVE  ChainMoves
  BY DEF ChainInv, ChainMoves

\* A block of a transaction without data.
LEMMA PlainBlock ==
  ASSUME NEW kind \in Kinds, NEW t \in Nat
  PROVE  [kind |-> kind, time |-> t] \in Block
  BY DEF Block
LEMMA Mined ==
  ASSUME ChainInv, NEW kind \in Kinds, Mine(kind), UNCHANGED <<now, finalized>>
  PROVE  ChainMoves
  BY PlainBlock, Appended DEF Mine, ChainInv

-------------------------------------------------------------------------------
(* The ceremony: what a record keeps of the observations it was made from. *)

ceremonyVars == <<plan, preSeen, preflight, postSeen, postflight, manifestSeen, promotion, promoted>>
SeenFields == {"stage", "at", "block", "state"}
PreflightFields == {"stage", "policy", "preparedAt", "validUntil", "anchor", "signed"}
PostflightFields == {"stage", "policy", "deploymentPolicy", "preparedAt", "validUntil", "block", "manifest", "signed"}

\* A plan is made of a reviewed, published input.
PlanInv == plan # None => plan \in PlanInputs /\ PlanInput(plan) /\ ReviewedArtifacts(plan)

\* An honest provider reports the block it read.
PreSeenInv ==
  /\ DOMAIN preSeen = Providers
  /\ \A p \in Providers : preSeen[p].stage \in {"begun", "done"} =>
       /\ SeenFields \subseteq DOMAIN preSeen[p]
       /\ preSeen[p].block \in Seq(Block) /\ Len(preSeen[p].block) >= 1
       /\ p \notin Faulty => preSeen[p].state = StateAt(preSeen[p].block)

\* All providers of a preflight saw its anchor and what the plan expects there.
PreflightInv ==
  preflight.stage = "record" =>
    /\ PreflightFields \subseteq DOMAIN preflight
    /\ plan # None /\ preflight.validUntil \in Nat
    /\ \A p \in ProviderIds(preflight.policy) :
         /\ p \in Providers /\ preSeen[p].stage = "done"
         /\ preSeen[p].block = preflight.anchor /\ preSeen[p].state = ExpectedBefore

\* Nobody has seen the deployment unless somebody honest has, in a final block.
PostSeenInv ==
  /\ DOMAIN postSeen = Providers
  /\ \A p \in Providers :
       /\ postSeen[p].stage = "begun" => p \notin Faulty
       /\ postSeen[p].stage = "done" =>
            FinalBlock(postSeen[p].block) /\ (p \notin Faulty => postSeen[p].state = StateAt(postSeen[p].block))
  /\ (\E p \in Providers : postSeen[p].stage = "done") =>
       \E p \in Providers \ Faulty : postSeen[p].stage = "done"

\* The manifest of a postflight is the state of a final block, and the preflight's of its anchor.
PostflightInv ==
  postflight.stage = "record" =>
    /\ PostflightFields \subseteq DOMAIN postflight
    /\ preflight.stage = "record" /\ FinalBlock(postflight.block)
    /\ postflight.manifest = StateAt(postflight.block) /\ postflight.manifest.nonce = FinalNonce
    /\ Executed(postflight.block) /\ InWindow(postflight.block)
    /\ preflight.anchor \in Seq(Block) /\ Len(preflight.anchor) >= 1
    /\ IsPrefix(preflight.anchor, postflight.block) /\ StateAt(preflight.anchor) = ExpectedBefore
    /\ ValidateManifest(postflight.manifest, postflight.deploymentPolicy)

PromotionInv ==
  promotion.stage = "record" =>
    /\ {"stage", "policy", "preparedAt", "validUntil", "signed"} \subseteq DOMAIN promotion
    /\ promotion.policy \in PromotionPolicies

\* A promotion is of the postflight's block and by some providers.
PromotedInv ==
  promoted.stage = "verified" =>
    /\ postflight.stage = "record" /\ promoted.block = postflight.block
    /\ promoted.approvers \in {policy.approvers : policy \in PromotionPolicies}
    /\ OfRole(promoted.approvers, "provider") # {}

CeremonyInv ==
  PlanInv /\ PreSeenInv /\ PreflightInv /\ PostSeenInv /\ PostflightInv /\ PromotionInv /\ PromotedInv

LEMMA CeremonyStarts == DeploymentInit => ChainInv /\ CeremonyInv
<1> SUFFICES ASSUME DeploymentInit PROVE ChainInv /\ CeremonyInv
  OBVIOUS
<1>1. ChainInv
  <2> DEFINE b == [kind |-> "empty", time |-> 1]
  <2>1. b \in Block
    BY PlainBlock DEF Kinds
  <2> HIDE DEF b
  <2>2. <<b>> \in Seq(Block) /\ Len(<<b>>) = 1
    BY <2>1
  <2>3. chain = <<b>> /\ now = 1 /\ finalized = 1
    BY DEF b, DeploymentInit
  <2> QED BY <2>2, <2>3 DEF ChainInv
<1> USE DEF DeploymentInit, NotSeen, NoRecord
<1>2. PlanInv /\ PreSeenInv /\ PostSeenInv
  BY DEF PlanInv, PreSeenInv, PostSeenInv
<1>3. PreflightInv /\ PostflightInv /\ PromotionInv /\ PromotedInv
  BY DEF PreflightInv, PostflightInv, PromotionInv, PromotedInv
<1> QED BY <1>1, <1>2, <1>3 DEF CeremonyInv

\* The ceremony's files are as they were, and final blocks are still final.
LEMMA CeremonyStays ==
  ASSUME ChainInv, ChainMoves, CeremonyInv, UNCHANGED ceremonyVars
  PROVE  CeremonyInv'
<1> USE DEF ceremonyVars
<1>1. PlanInv'
  BY DEF CeremonyInv, PlanInv
<1>2. PreSeenInv'
  BY DEF CeremonyInv, PreSeenInv
<1>3. PreflightInv'
  BY DEF CeremonyInv, PreflightInv, ExpectedBefore
<1>4. PostSeenInv'
  BY FinalStays DEF CeremonyInv, PostSeenInv
<1>5. PostflightInv'
  BY FinalStays DEF CeremonyInv, PostflightInv, FinalNonce, InWindow, ExpectedBefore, ValidateManifest, ManifestRoles,
     ManifestContracts
<1>6. PromotionInv' /\ PromotedInv'
  BY DEF CeremonyInv, PromotionInv, PromotedInv
<1> QED BY <1>1, <1>2, <1>3, <1>4, <1>5, <1>6 DEF CeremonyInv

\* A step that reads the chain and writes one document.
chainReads == <<now, chain, finalized>>

LEMMA PostflightKept ==
  ASSUME ChainInv, UNCHANGED chainReads, PostflightInv, UNCHANGED <<plan, postflight>>,
         postflight.stage = "record" => preflight'.stage = "record" /\ preflight'.anchor = preflight.anchor
                                         /\ preflight'.validUntil = preflight.validUntil
  PROVE  PostflightInv'
  BY DEF PostflightInv, FinalBlock, chainReads, FinalNonce, InWindow, ExpectedBefore, ValidateManifest, ManifestRoles,
     ManifestContracts

LEMMA PostSeenKept ==
  ASSUME ChainInv, UNCHANGED chainReads, PostSeenInv, UNCHANGED postSeen
  PROVE  PostSeenInv'
  BY DEF PostSeenInv, FinalBlock, chainReads

LEMMA StepBuildPlan ==
  ASSUME ChainInv, CeremonyInv, NEW in \in PlanInputs, BuildPlan(in)
  PROVE  CeremonyInv'
<1> USE DEF BuildPlan, chainVars, chainReads
<1>1. PlanInv'
  BY DeploymentAssumption DEF PlanInv
<1>2. PreSeenInv' /\ PreflightInv'
  BY DEF CeremonyInv, PreSeenInv, PreflightInv
<1>3. PostSeenInv'
  BY PostSeenKept DEF CeremonyInv
<1>4. PostflightInv' /\ PromotionInv' /\ PromotedInv'
  BY DEF CeremonyInv, PreflightInv, PostflightInv, PromotionInv, PromotedInv
<1> QED BY <1>1, <1>2, <1>3, <1>4 DEF CeremonyInv

\* A provider that has not finished its preflight changes what it has seen.
LEMMA PreSeenStep ==
  ASSUME ChainInv, CeremonyInv, NEW p \in Providers, preSeen[p].stage # "done", NEW o,
         preSeen' = [preSeen EXCEPT ![p] = o],
         o.stage \in {"begun", "done"} =>
           /\ SeenFields \subseteq DOMAIN o
           /\ o.block \in Seq(Block) /\ Len(o.block) >= 1 /\ (p \notin Faulty => o.state = StateAt(o.block)),
         UNCHANGED <<now, chainVars, plan, preflight, postSeen, postflight, manifestSeen, promotion, promoted>>
  PROVE  CeremonyInv'
<1> USE DEF chainVars, chainReads
<1>1. PlanInv'
  BY DEF CeremonyInv, PlanInv
<1>2. PreSeenInv'
  BY DEF CeremonyInv, PreSeenInv
<1>3. PreflightInv'
  BY DEF CeremonyInv, PreSeenInv, PreflightInv, ExpectedBefore
<1>4. PostSeenInv' /\ PostflightInv'
  BY PostSeenKept, PostflightKept DEF CeremonyInv, PostflightInv
<1>5. PromotionInv' /\ PromotedInv'
  BY DEF CeremonyInv, PromotionInv, PromotedInv
<1> QED BY <1>1, <1>2, <1>3, <1>4, <1>5 DEF CeremonyInv

LEMMA StepBeginPreflight ==
  ASSUME ChainInv, CeremonyInv, NEW p \in Providers, BeginPreflight(p)
  PROVE  CeremonyInv'
<1>1. PICK n \in {Len(chain)} \cup {Len(preSeen[q].block) : q \in {r \in Providers : preSeen[r].stage = "done"}} :
        /\ n <= Len(chain)
        /\ preSeen' = [preSeen EXCEPT ![p] = [stage |-> "begun", at |-> now, block |-> Prefix(n),
                                              state |-> StateAt(Prefix(n))]]
  BY DEF BeginPreflight
<1>2. n \in Nat /\ n >= 1 /\ n <= Len(chain)
  BY <1>1 DEF CeremonyInv, PreSeenInv, ChainInv
<1>3. Prefix(n) \in Seq(Block) /\ Len(Prefix(n)) >= 1
  BY <1>2, FirstBlocks DEF ChainInv, Prefix
<1> DEFINE o == [stage |-> "begun", at |-> now, block |-> Prefix(n), state |-> StateAt(Prefix(n))]
<1>4. /\ SeenFields \subseteq DOMAIN o /\ o.block \in Seq(Block) /\ Len(o.block) >= 1
      /\ o.state = StateAt(o.block)
  BY <1>3 DEF SeenFields
<1>5. preSeen' = [preSeen EXCEPT ![p] = o]
  BY <1>1
<1> HIDE DEF o
<1> QED BY <1>4, <1>5, PreSeenStep DEF BeginPreflight

LEMMA StepEndPreflight ==
  ASSUME ChainInv, CeremonyInv, NEW p \in Providers, EndPreflight(p)
  PROVE  CeremonyInv'
<1>1. PICK o \in {[preSeen[p] EXCEPT !.stage = "done"], NotSeen} : preSeen' = [preSeen EXCEPT ![p] = o]
  BY DEF EndPreflight
<1>2. preSeen[p].stage = "begun"
  BY DEF EndPreflight
<1>3. CASE o = NotSeen
  BY <1>1, <1>2, <1>3, PreSeenStep DEF EndPreflight, NotSeen
<1>4. CASE o = [preSeen[p] EXCEPT !.stage = "done"]
  <2>1. /\ SeenFields \subseteq DOMAIN o /\ o.block = preSeen[p].block /\ o.state = preSeen[p].state
    BY <1>2, <1>4 DEF CeremonyInv, PreSeenInv, SeenFields
  <2>2. o.block \in Seq(Block) /\ Len(o.block) >= 1 /\ (p \notin Faulty => o.state = StateAt(o.block))
    BY <1>2, <2>1 DEF CeremonyInv, PreSeenInv
  <2> QED BY <1>1, <1>2, <2>1, <2>2, PreSeenStep DEF EndPreflight
<1> QED BY <1>1, <1>3, <1>4

LEMMA StepFaultyPreflight ==
  ASSUME ChainInv, CeremonyInv, NEW p \in Providers, FaultyPreflight(p)
  PROVE  CeremonyInv'
<1> DEFINE o == [stage |-> "done", at |-> now, block |-> chain, state |-> ExpectedBefore]
<1>1. /\ SeenFields \subseteq DOMAIN o /\ o.block \in Seq(Block) /\ Len(o.block) >= 1 /\ p \in Faulty
      /\ preSeen' = [preSeen EXCEPT ![p] = o] /\ preSeen[p].stage # "done"
  BY DEF FaultyPreflight, SeenFields, ChainInv
<1> HIDE DEF o
<1> QED BY <1>1, PreSeenStep DEF FaultyPreflight

\* The providers of a policy whose observations agree have all seen what the first one saw.
LEMMA FirstIsAny ==
  ASSUME NEW policy, NEW seen, Unanimous(policy, seen), NEW p \in ProviderIds(policy)
  PROVE  FirstOf(policy, seen).block = seen[p].block /\ FirstOf(policy, seen).state = seen[p].state
  BY DEF Unanimous, FirstOf

LEMMA StepRecordPreflight ==
  ASSUME ChainInv, CeremonyInv, NEW policy \in PreflightPolicies, RecordPreflight(policy)
  PROVE  CeremonyInv'
<1> USE DEF RecordPreflight, chainVars, chainReads
<1>1. PreflightInputs(policy, preSeen, now) /\ Unanimous(policy, preSeen)
  BY DEF PreflightInputs
<1>2. PlanInv' /\ PreSeenInv' /\ PromotionInv' /\ PromotedInv'
  BY DEF CeremonyInv, PlanInv, PreSeenInv, PromotionInv, PromotedInv
<1>3. PostSeenInv' /\ PostflightInv'
  BY PostSeenKept, PostflightKept DEF CeremonyInv, PostflightInv
<1>4. plan # None /\ now + policy.lifetime \in Nat
  BY <1>1, DeploymentAssumption DEF PreflightInputs, PreflightPlan, ChainInv
<1>5. ASSUME NEW p \in ProviderIds(policy)
      PROVE  /\ p \in Providers /\ preSeen[p].stage = "done"
             /\ preSeen[p].block = AnchorOf(policy, preSeen) /\ preSeen[p].state = ExpectedBefore
  <2>1. p \in Providers /\ preSeen[p].stage = "done"
    BY <1>1 DEF Unanimous
  <2>2. preSeen[p].state = ExpectedBefore
    BY <1>1 DEF PreflightInputs, PreflightObservation
  <2>3. preSeen[p].block = AnchorOf(policy, preSeen)
    BY <1>1, FirstIsAny DEF AnchorOf
  <2> QED BY <2>1, <2>2, <2>3
<1>6. PreflightInv'
  BY <1>4, <1>5 DEF PreflightInv, PreflightFields, ExpectedBefore
<1> QED BY <1>2, <1>3, <1>6 DEF CeremonyInv

LEMMA StepApprovePreflight ==
  ASSUME ChainInv, CeremonyInv, NEW a, ApprovePreflight(a)
  PROVE  CeremonyInv'
<1> USE DEF ApprovePreflight, chainVars, chainReads
<1>1. PreflightFields \subseteq DOMAIN preflight
  BY DEF CeremonyInv, PreflightInv
<1>2. \A f \in PreflightFields \ {"signed"} : preflight'[f] = preflight[f]
  BY <1>1 DEF PreflightFields
<1>3. PlanInv' /\ PreSeenInv' /\ PromotionInv' /\ PromotedInv'
  BY DEF CeremonyInv, PlanInv, PreSeenInv, PromotionInv, PromotedInv
<1>4. PostSeenInv' /\ PostflightInv'
  BY <1>2, PostSeenKept, PostflightKept DEF CeremonyInv, PreflightFields
<1>5. PreflightInv'
  BY <1>1, <1>2 DEF CeremonyInv, PreflightInv, PreflightFields, ExpectedBefore
<1> QED BY <1>3, <1>4, <1>5 DEF CeremonyInv

\* A provider changes what it has seen of the deployment.
LEMMA PostSeenStep ==
  ASSUME ChainInv, CeremonyInv, NEW p \in Providers, NEW o, postSeen' = [postSeen EXCEPT ![p] = o],
         o.stage = "begun" => p \notin Faulty,
         o.stage = "done" => /\ FinalBlock(o.block) /\ (p \notin Faulty => o.state = StateAt(o.block))
                             /\ \E q \in Providers \ Faulty : q = p \/ (q # p /\ postSeen[q].stage = "done"),
         postSeen[p].stage # "done",
         UNCHANGED <<now, chainVars, plan, preSeen, preflight, postflight, manifestSeen, promotion, promoted>>
  PROVE  CeremonyInv'
<1> USE DEF chainVars, chainReads
<1>1. PlanInv' /\ PreSeenInv' /\ PreflightInv'
  BY DEF CeremonyInv, PlanInv, PreSeenInv, PreflightInv, ExpectedBefore
<1>2. PostSeenInv'
  <2>1. DOMAIN postSeen' = Providers /\ postSeen'[p] = o /\ \A q \in Providers : q # p => postSeen'[q] = postSeen[q]
    BY DEF CeremonyInv, PostSeenInv
  <2>2. \A q \in Providers :
          /\ postSeen'[q].stage = "begun" => q \notin Faulty
          /\ postSeen'[q].stage = "done" =>
               FinalBlock(postSeen'[q].block) /\ (q \notin Faulty => postSeen'[q].state = StateAt(postSeen'[q].block))
    BY <2>1 DEF CeremonyInv, PostSeenInv
  <2>3. (\E q \in Providers : postSeen'[q].stage = "done") => \E q \in Providers \ Faulty : postSeen'[q].stage = "done"
    BY <2>1 DEF CeremonyInv, PostSeenInv
  <2>4. \A c : FinalBlock(c) => FinalBlock(c)'
    BY DEF FinalBlock
  <2> QED BY <2>1, <2>2, <2>3, <2>4 DEF PostSeenInv
<1>3. PostflightInv' /\ PromotionInv' /\ PromotedInv'
  BY PostflightKept DEF CeremonyInv, PostflightInv, PromotionInv, PromotedInv
<1> QED BY <1>1, <1>2, <1>3 DEF CeremonyInv

LEMMA StepBeginPostflight ==
  ASSUME ChainInv, CeremonyInv, NEW p \in Providers, NEW dp, BeginPostflight(p, dp)
  PROVE  CeremonyInv'
<1> DEFINE o == [stage |-> "begun", at |-> now, block |-> Prefix(LastStep(chain)), state |-> StateAt(chain)]
<1>1. postSeen' = [postSeen EXCEPT ![p] = o] /\ o.stage = "begun" /\ p \notin Faulty /\ postSeen[p].stage = "none"
  BY DEF BeginPostflight
<1> HIDE DEF o
<1> QED BY <1>1, PostSeenStep DEF BeginPostflight

LEMMA StepEndPostflight ==
  ASSUME ChainInv, CeremonyInv, NEW p \in Providers, EndPostflight(p)
  PROVE  CeremonyInv'
<1>1. PICK n \in {finalized} \cup {Len(postSeen[q].block) : q \in {r \in Providers : postSeen[r].stage = "done"}} :
        postSeen' = [postSeen EXCEPT ![p] =
         IF /\ n <= finalized /\ Len(@.block) <= n /\ Canonical(@.block)
            /\ Nonce(Prefix(n)) = FinalNonce /\ PendingNonce = FinalNonce
         THEN [stage |-> "done", at |-> @.at, block |-> Prefix(n), state |-> StateAt(Prefix(n))]
         ELSE NotSeen]
  BY DEF EndPostflight
<1>2. postSeen[p].stage = "begun" /\ p \notin Faulty
  BY DEF EndPostflight, CeremonyInv, PostSeenInv
<1>3. n \in Nat /\ n >= 1
  BY DEF CeremonyInv, PostSeenInv, FinalBlock, ChainInv
<1>4. ASSUME n <= finalized PROVE FinalBlock(Prefix(n))
  BY <1>3, <1>4, FirstBlocks DEF ChainInv, FinalBlock, Prefix
<1> DEFINE done == [stage |-> "done", at |-> postSeen[p].at, block |-> Prefix(n), state |-> StateAt(Prefix(n))]
<1>5. CASE postSeen' = [postSeen EXCEPT ![p] = NotSeen]
  BY <1>2, <1>5, PostSeenStep DEF EndPostflight, NotSeen
<1>6. CASE n <= finalized /\ postSeen' = [postSeen EXCEPT ![p] = done]
  <2>1. done.stage = "done" /\ FinalBlock(done.block) /\ done.state = StateAt(done.block)
    BY <1>4, <1>6
  <2> HIDE DEF done
  <2> QED BY <1>2, <1>6, <2>1, PostSeenStep DEF EndPostflight
<1>7. p \in DOMAIN postSeen
  BY DEF CeremonyInv, PostSeenInv
<1>8. \/ postSeen' = [postSeen EXCEPT ![p] = NotSeen]
      \/ n <= finalized /\ postSeen' = [postSeen EXCEPT ![p] = done]
  BY <1>1, <1>7
<1> QED BY <1>5, <1>6, <1>8

LEMMA StepFaultyPostflight ==
  ASSUME ChainInv, CeremonyInv, NEW p \in Providers, FaultyPostflight(p)
  PROVE  CeremonyInv'
<1>1. PICK q \in {r \in Providers \ Faulty : postSeen[r].stage = "done"} :
        \E st \in {ExpectedAfter, postSeen[q].state} :
          postSeen' = [postSeen EXCEPT ![p] = [stage |-> "done", at |-> now, block |-> postSeen[q].block, state |-> st]]
  BY DEF FaultyPostflight
<1>2. PICK st \in {ExpectedAfter, postSeen[q].state} :
        postSeen' = [postSeen EXCEPT ![p] = [stage |-> "done", at |-> now, block |-> postSeen[q].block, state |-> st]]
  BY <1>1
<1> DEFINE o == [stage |-> "done", at |-> now, block |-> postSeen[q].block, state |-> st]
<1>3. /\ p \in Faulty /\ postSeen[p].stage = "none" /\ o.stage = "done" /\ FinalBlock(o.block)
      /\ q # p /\ q \in Providers \ Faulty /\ postSeen[q].stage = "done"
      /\ postSeen' = [postSeen EXCEPT ![p] = o]
  BY <1>1, <1>2 DEF FaultyPostflight, CeremonyInv, PostSeenInv
<1> HIDE DEF o
<1> QED BY <1>3, PostSeenStep DEF FaultyPostflight

\* The first observation of a postflight is an honest provider's, which also saw the preflight's anchor.
LEMMA HonestPostflight ==
  ASSUME ChainInv, CeremonyInv, NEW policy, NEW dp, PostflightInputs(policy, dp, postSeen, now)
  PROVE  LET block == AnchorOf(policy, postSeen)  st == FirstOf(policy, postSeen).state IN
         /\ FinalBlock(block) /\ st = StateAt(block) /\ st.nonce = FinalNonce
         /\ Executed(block) /\ InWindow(block)
         /\ preflight.anchor \in Seq(Block) /\ Len(preflight.anchor) >= 1
         /\ IsPrefix(preflight.anchor, block) /\ StateAt(preflight.anchor) = ExpectedBefore
         /\ ValidateManifest(st, dp)
<1>1. /\ preflight.stage = "record" /\ PostflightPolicy(policy) /\ Unanimous(policy, postSeen)
      /\ \A p \in ProviderIds(policy) : PostflightObservation(postSeen[p], policy, dp, now)
  BY DEF PostflightInputs, PostflightContext
<1>2. ProviderIds(policy) # {}
  <2>1. Cardinality(ProviderIds(policy)) >= policy.minimumProviderCount /\ policy.minimumProviderCount \in 2..5
    BY <1>1 DEF Unanimous, PostflightPolicy
  <2> QED BY <2>1, FS_EmptySet
<1>3. PICK h \in ProviderIds(policy) : h \in Providers \ Faulty /\ postSeen[h].stage = "done"
  BY <1>1, <1>2 DEF Unanimous, CeremonyInv, PostSeenInv
<1>4. FirstOf(policy, postSeen).block = postSeen[h].block /\ FirstOf(policy, postSeen).state = postSeen[h].state
  BY <1>1, <1>3, FirstIsAny
<1>5. FinalBlock(postSeen[h].block) /\ postSeen[h].state = StateAt(postSeen[h].block)
  BY <1>3 DEF CeremonyInv, PostSeenInv
<1>6. h \in ProviderIds(preflight.policy)
  BY <1>1, <1>3 DEF PostflightPolicy, ProviderIds, OfRole
<1>7. preSeen[h].stage = "done" /\ preSeen[h].block = preflight.anchor /\ preSeen[h].state = ExpectedBefore
  BY <1>1, <1>6 DEF CeremonyInv, PreflightInv
<1>8. /\ preflight.anchor \in Seq(Block) /\ Len(preflight.anchor) >= 1
      /\ StateAt(preflight.anchor) = ExpectedBefore
  BY <1>3, <1>7 DEF CeremonyInv, PreSeenInv
<1>9. PostflightObservation(postSeen[h], policy, dp, now)
  BY <1>1, <1>3
<1> QED BY <1>4, <1>5, <1>8, <1>9 DEF AnchorOf, PostflightObservation

LEMMA StepRecordPostflight ==
  ASSUME ChainInv, CeremonyInv, NEW policy, NEW dp, RecordPostflight(policy, dp)
  PROVE  CeremonyInv'
<1> USE DEF RecordPostflight, chainVars, chainReads
<1>1. PlanInv' /\ PreSeenInv' /\ PreflightInv' /\ PromotionInv' /\ PromotedInv'
  BY DEF CeremonyInv, PlanInv, PreSeenInv, PreflightInv, PromotionInv, PromotedInv, ExpectedBefore
<1>2. PostSeenInv'
  BY PostSeenKept DEF CeremonyInv
<1>3. PostflightFields \subseteq DOMAIN postflight'
  BY DEF PostflightFields
<1>4. PostflightInv'
  <2>1. /\ postflight'.block = AnchorOf(policy, postSeen) /\ postflight'.manifest = FirstOf(policy, postSeen).state
        /\ postflight'.deploymentPolicy = dp /\ preflight.stage = "record"
    OBVIOUS
  <2>2. PICK block, st :
        /\ block = AnchorOf(policy, postSeen) /\ st = FirstOf(policy, postSeen).state
        /\ FinalBlock(block) /\ st = StateAt(block) /\ st.nonce = FinalNonce
        /\ Executed(block) /\ InWindow(block)
        /\ preflight.anchor \in Seq(Block) /\ Len(preflight.anchor) >= 1
        /\ IsPrefix(preflight.anchor, block) /\ StateAt(preflight.anchor) = ExpectedBefore
        /\ ValidateManifest(st, dp)
    BY HonestPostflight
  <2>3. FinalBlock(block)' /\ InWindow(block)' /\ ValidateManifest(st, dp)'
    BY <2>2 DEF FinalBlock, InWindow, ValidateManifest, ManifestRoles, ManifestContracts
  <2>4. FinalNonce' = FinalNonce /\ ExpectedBefore' = ExpectedBefore /\ preflight' = preflight
    BY DEF FinalNonce, ExpectedBefore
  <2> QED BY <1>3, <2>1, <2>2, <2>3, <2>4 DEF PostflightInv
<1> QED BY <1>1, <1>2, <1>4 DEF CeremonyInv

LEMMA StepApprovePostflight ==
  ASSUME ChainInv, CeremonyInv, NEW a, ApprovePostflight(a)
  PROVE  CeremonyInv'
<1> USE DEF ApprovePostflight, chainVars, chainReads
<1>1. PlanInv' /\ PreSeenInv' /\ PreflightInv' /\ PromotionInv'
  BY DEF CeremonyInv, PlanInv, PreSeenInv, PreflightInv, PromotionInv, ExpectedBefore
<1>2. PostSeenInv'
  BY PostSeenKept DEF CeremonyInv
<1>3. PostflightFields \subseteq DOMAIN postflight
  BY DEF CeremonyInv, PostflightInv
<1>4. DOMAIN postflight' = DOMAIN postflight /\ \A f \in PostflightFields \ {"signed"} : postflight'[f] = postflight[f]
  BY <1>3 DEF PostflightFields
<1>5. PromotedInv'
  BY <1>4 DEF CeremonyInv, PromotedInv, PostflightFields
<1>6. PostflightInv'
  BY <1>3, <1>4 DEF CeremonyInv, PostflightInv, PostflightFields, FinalBlock, FinalNonce, InWindow, ExpectedBefore,
     ValidateManifest, ManifestRoles, ManifestContracts
<1> QED BY <1>1, <1>2, <1>5, <1>6 DEF CeremonyInv

LEMMA StepObserveManifest ==
  ASSUME ChainInv, CeremonyInv, NEW p \in Providers, ObserveManifest(p)
  PROVE  CeremonyInv'
<1> USE DEF ObserveManifest, chainVars, chainReads
<1>1. PlanInv' /\ PreSeenInv' /\ PreflightInv' /\ PromotionInv' /\ PromotedInv'
  BY DEF CeremonyInv, PlanInv, PreSeenInv, PreflightInv, PromotionInv, PromotedInv, ExpectedBefore
<1>2. PostSeenInv' /\ PostflightInv'
  BY PostSeenKept, PostflightKept DEF CeremonyInv, PostflightInv
<1> QED BY <1>1, <1>2 DEF CeremonyInv

LEMMA StepRecordPromotion ==
  ASSUME ChainInv, CeremonyInv, NEW policy \in PromotionPolicies, RecordPromotion(policy)
  PROVE  CeremonyInv'
<1> USE DEF RecordPromotion, chainVars, chainReads
<1>1. PlanInv' /\ PreSeenInv' /\ PreflightInv' /\ PromotionInv' /\ PromotedInv'
  BY DEF CeremonyInv, PlanInv, PreSeenInv, PreflightInv, PromotionInv, PromotedInv, ExpectedBefore
<1>2. PostSeenInv' /\ PostflightInv'
  BY PostSeenKept, PostflightKept DEF CeremonyInv, PostflightInv
<1> QED BY <1>1, <1>2 DEF CeremonyInv

LEMMA StepApprovePromotion ==
  ASSUME ChainInv, CeremonyInv, NEW a, ApprovePromotion(a)
  PROVE  CeremonyInv'
<1> USE DEF ApprovePromotion, chainVars, chainReads
<1>1. PlanInv' /\ PreSeenInv' /\ PreflightInv' /\ PromotedInv'
  BY DEF CeremonyInv, PlanInv, PreSeenInv, PreflightInv, PromotedInv, ExpectedBefore
<1>2. PostSeenInv' /\ PostflightInv'
  BY PostSeenKept, PostflightKept DEF CeremonyInv, PostflightInv
<1>3. PromotionInv'
  BY DEF CeremonyInv, PromotionInv
<1> QED BY <1>1, <1>2, <1>3 DEF CeremonyInv

LEMMA StepPromote ==
  ASSUME ChainInv, CeremonyInv, Promote
  PROVE  CeremonyInv'
<1> USE DEF Promote, chainVars, chainReads
<1>1. PlanInv' /\ PreSeenInv' /\ PreflightInv' /\ PromotionInv'
  BY DEF CeremonyInv, PlanInv, PreSeenInv, PreflightInv, PromotionInv, ExpectedBefore
<1>2. PostSeenInv' /\ PostflightInv'
  BY PostSeenKept, PostflightKept DEF CeremonyInv, PostflightInv
<1>3. OfRole(promotion.policy.approvers, "provider") # {}
  <2> DEFINE providers == OfRole(promotion.policy.approvers, "provider")  n == promotion.policy.minimumProviderCount
  <2>1. n \in 2..5 /\ Cardinality(providers) \in n..5
    BY DEF PromotionInputs, PromotionPolicy
  <2> HIDE DEF providers, n
  <2>2. Cardinality(providers) # 0
    BY <2>1
  <2>3. providers # {}
    BY <2>2, FS_EmptySet
  <2> QED BY <2>3 DEF providers
<1>4. postflight.stage = "record"
  BY DEF PromotionInputs, PromotionPostflight, PostflightVerified
<1>5. PromotedInv'
  BY <1>3, <1>4 DEF CeremonyInv, PromotionInv, PromotedInv
<1> QED BY <1>1, <1>2, <1>5 DEF CeremonyInv

\* A step that moves the chain: the ceremony's documents stay.
ChainStep ==
  \/ Tick \/ StrayBroadcast \/ StrayMined \/ Reorganise \/ Finalise
  \/ \E i \in DOMAIN Deployments : Deploy(i)
  \/ \E j \in DOMAIN ControllerActions : ControllerCall(j)
  \/ \E kind \in {"rotate", "pause", "donate", "schedule"} : Interference(kind)

LEMMA ChainStepMoves ==
  ASSUME ChainInv, ChainStep
  PROVE  ChainMoves /\ UNCHANGED ceremonyVars
<1> USE DEF evidenceVars, ceremonyVars
<1>1. CASE Tick
  <2>1. "empty" \in Kinds /\ now + 1 \in Nat
    BY DEF ChainInv, Kinds
  <2>2. [kind |-> "empty", time |-> now + 1] \in Block
    BY <2>1, PlainBlock
  <2> QED BY <1>1, <2>1, <2>2, Appended DEF Tick, ChainInv
<1>2. CASE StrayBroadcast
  BY <1>2, Unmoved DEF StrayBroadcast
<1>3. CASE StrayMined
  BY <1>3, Mined DEF StrayMined, Kinds
<1>4. CASE Reorganise
  BY <1>4, LastLost DEF Reorganise
<1>5. CASE Finalise
  BY <1>5 DEF Finalise, ChainInv, ChainMoves
<1>6. ASSUME NEW i \in DOMAIN Deployments, Deploy(i) PROVE ChainMoves /\ UNCHANGED ceremonyVars
  <2>1. Deployments[i] \in Kinds
    BY DEF Deployments, Kinds
  <2> QED BY <1>6, <2>1, Mined DEF Deploy
<1>7. ASSUME NEW j \in DOMAIN ControllerActions, ControllerCall(j) PROVE ChainMoves /\ UNCHANGED ceremonyVars
  <2>1. ControllerActions[j] \in Kinds
    BY DEF ControllerActions, Kinds
  <2>2. Mine(ControllerActions[j]) /\ UNCHANGED <<finalized, stray, faults, evidenceVars>>
    BY <1>7 DEF ControllerCall
  <2> QED BY <2>1, <2>2, Mined
<1>8. ASSUME NEW kind \in {"rotate", "pause", "donate", "schedule"}, Interference(kind)
      PROVE  ChainMoves /\ UNCHANGED ceremonyVars
  BY <1>8, Mined DEF Interference, Kinds
<1> QED BY <1>1, <1>2, <1>3, <1>4, <1>5, <1>6, <1>7, <1>8 DEF ChainStep

LEMMA MovedChain == ASSUME ChainInv, ChainMoves PROVE ChainInv'
  BY DEF ChainInv, ChainMoves

LEMMA DeploymentKeeps ==
  ASSUME ChainInv, CeremonyInv, DeploymentNext
  PROVE  ChainMoves /\ CeremonyInv'
<1>1. CASE ChainStep
  BY <1>1, ChainStepMoves, CeremonyStays
<1> USE Unmoved DEF chainVars
<1>2. ASSUME NEW in \in PlanInputs, BuildPlan(in) PROVE ChainMoves /\ CeremonyInv'
  BY <1>2, StepBuildPlan DEF BuildPlan
<1>3. ASSUME NEW p \in Providers, BeginPreflight(p) PROVE ChainMoves /\ CeremonyInv'
  BY <1>3, StepBeginPreflight DEF BeginPreflight
<1>4. ASSUME NEW p \in Providers, EndPreflight(p) PROVE ChainMoves /\ CeremonyInv'
  BY <1>4, StepEndPreflight DEF EndPreflight
<1>5. ASSUME NEW p \in Providers, FaultyPreflight(p) PROVE ChainMoves /\ CeremonyInv'
  BY <1>5, StepFaultyPreflight DEF FaultyPreflight
<1>6. ASSUME NEW p \in Providers, EndPostflight(p) PROVE ChainMoves /\ CeremonyInv'
  BY <1>6, StepEndPostflight DEF EndPostflight
<1>7. ASSUME NEW p \in Providers, FaultyPostflight(p) PROVE ChainMoves /\ CeremonyInv'
  BY <1>7, StepFaultyPostflight DEF FaultyPostflight
<1>8. ASSUME NEW p \in Providers, ObserveManifest(p) PROVE ChainMoves /\ CeremonyInv'
  BY <1>8, StepObserveManifest DEF ObserveManifest
<1>9. ASSUME NEW p \in Providers, NEW dp, BeginPostflight(p, dp) PROVE ChainMoves /\ CeremonyInv'
  BY <1>9, StepBeginPostflight DEF BeginPostflight
<1>10. ASSUME NEW policy \in PreflightPolicies, RecordPreflight(policy) PROVE ChainMoves /\ CeremonyInv'
  BY <1>10, StepRecordPreflight DEF RecordPreflight
<1>11. ASSUME NEW policy, NEW dp, RecordPostflight(policy, dp) PROVE ChainMoves /\ CeremonyInv'
  BY <1>11, StepRecordPostflight DEF RecordPostflight
<1>12. ASSUME NEW policy \in PromotionPolicies, RecordPromotion(policy) PROVE ChainMoves /\ CeremonyInv'
  BY <1>12, StepRecordPromotion DEF RecordPromotion
<1>13. ASSUME NEW a, ApprovePreflight(a) PROVE ChainMoves /\ CeremonyInv'
  BY <1>13, StepApprovePreflight DEF ApprovePreflight
<1>14. ASSUME NEW a, ApprovePostflight(a) PROVE ChainMoves /\ CeremonyInv'
  BY <1>14, StepApprovePostflight DEF ApprovePostflight
<1>15. ASSUME NEW a, ApprovePromotion(a) PROVE ChainMoves /\ CeremonyInv'
  BY <1>15, StepApprovePromotion DEF ApprovePromotion
<1>16. CASE Promote
  BY <1>16, StepPromote DEF Promote
<1> QED BY <1>1, <1>2, <1>3, <1>4, <1>5, <1>6, <1>7, <1>8, <1>9, <1>10, <1>11, <1>12, <1>13, <1>14, <1>15, <1>16
     DEF DeploymentNext, ChainStep

\* The steps of the plan: the four creations, then the three calls of the controller.
LEMMA Steps ==
  /\ Len(PlanSteps) = 7 /\ Len(Deployments) = 4 /\ DOMAIN PlanSteps = 1..7
  /\ \A i \in 1..4 : PlanSteps[i] = Deployments[i]
  /\ Deployments[1] = "gate" /\ Deployments[2] = "paymentHashRegistry"
  /\ Deployments[3] = "vault" /\ Deployments[4] = "userEscrow"
  /\ ToSet(Deployments) = {"gate", "paymentHashRegistry", "vault", "userEscrow"}
<1> DEFINE S == {"gate", "paymentHashRegistry", "vault", "userEscrow", "register-vault", "register-user-escrow",
                 "seal-registry"}
<1>1. /\ Deployments \in Seq(S) /\ Len(Deployments) = 4 /\ ControllerActions \in Seq(S) /\ Len(ControllerActions) = 3
      /\ Deployments[1] = "gate" /\ Deployments[2] = "paymentHashRegistry"
      /\ Deployments[3] = "vault" /\ Deployments[4] = "userEscrow" /\ DOMAIN Deployments = 1..4
  BY DEF Deployments, ControllerActions
<1>2. ToSet(Deployments) = {"gate", "paymentHashRegistry", "vault", "userEscrow"}
  BY <1>1 DEF ToSet
<1> HIDE DEF S
<1>3. /\ PlanSteps \in Seq(S) /\ Len(PlanSteps) = Len(Deployments) + Len(ControllerActions)
      /\ \A i \in 1..(Len(Deployments) + Len(ControllerActions)) : PlanSteps[i] =
            IF i <= Len(Deployments) THEN Deployments[i] ELSE ControllerActions[i - Len(Deployments)]
  BY <1>1, ConcatProperties DEF PlanSteps
<1>4. PlanSteps \in Seq(S) /\ Len(PlanSteps) = 7
  BY <1>1, <1>3
<1>5. ASSUME NEW i \in 1..4 PROVE PlanSteps[i] = Deployments[i]
  <2>1. i \in 1..(Len(Deployments) + Len(ControllerActions)) /\ i <= Len(Deployments)
    BY <1>1
  <2> QED BY <2>1, <1>3
<1> QED BY <1>1, <1>2, <1>4, <1>5

LEMMA FiveElements ==
  ASSUME NEW S, IsFiniteSet(S), NEW a \in S, NEW b \in S, NEW c \in S, NEW d \in S, NEW e \in S,
         a # b, a # c, a # d, a # e, b # c, b # d, b # e, c # d, c # e, d # e
  PROVE  Cardinality(S) >= 5
<1>1. ASSUME NEW T, NEW x, IsFiniteSet(T), x \notin T
      PROVE  IsFiniteSet(T \cup {x}) /\ Cardinality(T \cup {x}) = Cardinality(T) + 1
  BY <1>1, FS_AddElement
<1> DEFINE two == {a} \cup {b}  three == two \cup {c}  four == three \cup {d}  five == four \cup {e}
<1>2. b \notin {a} /\ c \notin two /\ d \notin three /\ e \notin four /\ five \in SUBSET S
  OBVIOUS
<1>3. IsFiniteSet({a}) /\ Cardinality({a}) = 1
  BY FS_Singleton
<1>4. IsFiniteSet(two) /\ Cardinality(two) = Cardinality({a}) + 1
  BY <1>1, <1>2, <1>3
<1>5. IsFiniteSet(three) /\ Cardinality(three) = Cardinality(two) + 1
  <2> HIDE DEF two
  <2> QED BY <1>1, <1>2, <1>4
<1>6. IsFiniteSet(four) /\ Cardinality(four) = Cardinality(three) + 1
  <2> HIDE DEF three
  <2> QED BY <1>1, <1>2, <1>5
<1>7. Cardinality(five) = Cardinality(four) + 1
  <2> HIDE DEF four
  <2> QED BY <1>1, <1>2, <1>6
<1>8. Cardinality(five) <= Cardinality(S)
  BY <1>2, FS_Subset
<1> HIDE DEF two, three, four, five
<1> QED BY <1>3, <1>4, <1>5, <1>6, <1>7, <1>8

\* The nonce counts: a chain that grew by the four creations of the plan grew by nothing else.
LEMMA NoStray ==
  ASSUME NEW c \in Seq(Block), NEW a \in Seq(Block), IsPrefix(a, c), Executed(c), NEW n \in Nat,
         Nonce(a) = n, Nonce(c) = n + 4, StateAt(a).code = {}
  PROVE  \A i \in Positions(c, "stray") : i <= Len(a)
<1> DEFINE kinds == {"gate", "paymentHashRegistry", "vault", "userEscrow", "stray"}
           all == {i \in DOMAIN c : c[i].kind \in kinds}
           old == {i \in DOMAIN a : a[i].kind \in kinds}
           x == [i \in 1..4 |-> PositionOf(c, PlanSteps[i])]
<1>1. Cardinality(all) = n + 4 /\ Cardinality(old) = n
  <2>1. ToSet(Deployments) \cup {"stray"} = kinds
    BY Steps
  <2> QED BY <2>1 DEF Nonce
<1>2. IsFiniteSet(all) /\ IsFiniteSet(old)
  <2>1. IsFiniteSet(1..Len(c)) /\ IsFiniteSet(1..Len(a))
    BY FS_Interval
  <2>2. all \in SUBSET (1..Len(c)) /\ old \in SUBSET (1..Len(a))
    OBVIOUS
  <2> HIDE DEF all, old
  <2> QED BY <2>1, <2>2, FS_Subset
<1>3. Len(a) <= Len(c) /\ \A i \in 1..Len(a) : a[i] = c[i]
  BY PrefixIs
<1>4. old \subseteq all /\ \A i \in all : i > Len(a) <=> i \notin old
  BY <1>3
<1>5. Cardinality(all \ old) = 4 /\ IsFiniteSet(all \ old)
  <2>1. Cardinality(all \ old) = Cardinality(all) - Cardinality(all \cap old) /\ IsFiniteSet(all \ old)
    BY <1>2, FS_Difference
  <2>2. all \cap old = old
    BY <1>4
  <2> HIDE DEF all, old
  <2>3. Cardinality(all \ old) = Cardinality(all) - Cardinality(old)
    BY <2>1, <2>2
  <2>4. Cardinality(all \ old) = n + 4 - n
    BY <1>1, <2>3
  <2>5. n + 4 - n = 4
    OBVIOUS
  <2> QED BY <2>1, <2>4, <2>5
<1>6. \A i \in 1..4 : x[i] \in DOMAIN c /\ c[x[i]].kind = PlanSteps[i]
  <2> SUFFICES ASSUME NEW i \in 1..4 PROVE x[i] \in DOMAIN c /\ c[x[i]].kind = PlanSteps[i]
    OBVIOUS
  <2>1. Positions(c, PlanSteps[i]) # {}
    BY Steps DEF Executed, Happened
  <2>2. x[i] \in Positions(c, PlanSteps[i])
    BY <2>1 DEF PositionOf
  <2> QED BY <2>2 DEF Positions
<1>7. x[1] < x[2] /\ x[2] < x[3] /\ x[3] < x[4]
  BY Steps DEF Executed
<1>8. \A i \in 1..4 : x[i] \in all \ old
  <2> SUFFICES ASSUME NEW i \in 1..4 PROVE x[i] \in all \ old
    OBVIOUS
  <2>1. PlanSteps[i] \in ToSet(Deployments) /\ PlanSteps[i] \in kinds
    BY Steps
  <2>2. Positions(a, PlanSteps[i]) = {}
    BY <2>1 DEF StateAt, Happened
  <2>3. x[i] \notin DOMAIN a
    <3>1. c[x[i]].kind = PlanSteps[i]
      BY <1>6
    <3> HIDE DEF x, all, old, kinds
    <3>2. x[i] \in DOMAIN a => a[x[i]].kind = PlanSteps[i]
      BY <1>3, <3>1
    <3> QED BY <2>2, <3>2 DEF Positions
  <2> QED BY <1>6, <2>1, <2>3
<1> SUFFICES ASSUME NEW s \in Positions(c, "stray"), s > Len(a) PROVE FALSE
  BY DEF Positions
<1>9. s \in all \ old
  BY <1>4 DEF Positions
<1>10. s \notin {x[1], x[2], x[3], x[4]}
  BY <1>6, Steps DEF Positions
<1>11. x[1] \in Nat /\ x[2] \in Nat /\ x[3] \in Nat /\ x[4] \in Nat
  BY <1>6
<1> HIDE DEF x, all, old
<1>12. Cardinality(all \ old) >= 5
  <2> DEFINE new == all \ old  x1 == x[1]  x2 == x[2]  x3 == x[3]  x4 == x[4]
  <2>1. /\ IsFiniteSet(new) /\ x1 \in new /\ x2 \in new /\ x3 \in new /\ x4 \in new /\ s \in new
        /\ s # x1 /\ s # x2 /\ s # x3 /\ s # x4
    BY <1>5, <1>8, <1>9, <1>10
  <2>2. x1 # x2 /\ x1 # x3 /\ x1 # x4 /\ x2 # x3 /\ x2 # x4 /\ x3 # x4
    BY <1>7, <1>11
  <2> HIDE DEF new, x1, x2, x3, x4
  <2>3. Cardinality(new) >= 5
    BY <2>1, <2>2, FiveElements
  <2> QED BY <2>3 DEF new
<1> QED BY <1>5, <1>12

(* What PromotedIsDeployed says of a verified promotion follows from what its postflight kept. *)
LEMMA PromotedHolds == ChainInv /\ CeremonyInv => PromotedIsDeployed
<1> SUFFICES ASSUME ChainInv, CeremonyInv, promoted.stage = "verified" PROVE PromotedIsDeployed
  BY DEF PromotedIsDeployed
<1> DEFINE c == promoted.block
<1>1. /\ preflight.stage = "record" /\ FinalBlock(c) /\ postflight.manifest = StateAt(c)
      /\ StateAt(c).nonce = FinalNonce /\ Executed(c) /\ InWindow(c)
      /\ preflight.anchor \in Seq(Block) /\ Len(preflight.anchor) >= 1
      /\ IsPrefix(preflight.anchor, c) /\ StateAt(preflight.anchor) = ExpectedBefore
      /\ ValidateManifest(StateAt(c), postflight.deploymentPolicy)
  BY DEF CeremonyInv, PromotedInv, PostflightInv
<1>2. plan \in PlanInputs /\ PlanInput(plan) /\ ReviewedArtifacts(plan) /\ preflight.validUntil \in Nat
  BY <1>1 DEF CeremonyInv, PreflightInv, PlanInv
<1> HIDE DEF c
<1>3. c \in Seq(Block) /\ Canonical(c) /\ Len(c) <= finalized
  BY <1>1 DEF FinalBlock, Canonical
<1>4. Canonical(preflight.anchor)
  BY <1>1, <1>3, PrefixIs DEF Canonical, ChainInv
<1>5. \A i \in Positions(c, "stray") : i <= Len(preflight.anchor)
  <2>1. Nonce(preflight.anchor) = plan.startingNonce /\ StateAt(preflight.anchor).code = {}
    BY <1>1 DEF StateAt, ExpectedBefore
  <2>2. Nonce(c) = plan.startingNonce + 4
    BY <1>1, Steps DEF StateAt, FinalNonce
  <2>3. plan.startingNonce \in Nat
    BY <1>2, DeploymentAssumption
  <2> QED BY <1>1, <1>3, <2>1, <2>2, <2>3, NoStray
<1>6. \A i \in DOMAIN PlanSteps :
        c[PositionOf(c, PlanSteps[i])].time \in TimeOf(preflight.anchor)..preflight.validUntil
  <2> SUFFICES ASSUME NEW i \in DOMAIN PlanSteps
               PROVE  c[PositionOf(c, PlanSteps[i])].time \in TimeOf(preflight.anchor)..preflight.validUntil
    OBVIOUS
  <2>1. PositionOf(c, PlanSteps[i]) \in DOMAIN c
    BY <1>1 DEF Executed, Happened, PositionOf, Positions
  <2>2. c[PositionOf(c, PlanSteps[i])].time \in Nat
    BY <1>3, <2>1 DEF Block
  <2>3. TimeOf(preflight.anchor) \in Nat
    BY <1>1 DEF TimeOf, Block
  <2> QED BY <1>1, <1>2, <2>2, <2>3 DEF InWindow
<1>7. LET st == StateAt(c) IN
      /\ st.sealed /\ st.registered = Escrows /\ st.closed /\ st.balance = 0 /\ ~st.paused
      /\ \A r, s \in Roles : r # s => ~RolesShareQuorum(st.owners, r, s)
  BY <1>1 DEF ValidateManifest, ManifestContracts, ManifestRoles
<1>8. /\ plan.commit = Published /\ plan.artifacts.sources = Published
      /\ \A r \in Roles : Cardinality(plan.owners[r]) >= 3
  <2>1. PlanRoles(plan)
    BY <1>2 DEF PlanInput
  <2> QED BY <1>2, <2>1 DEF ReviewedArtifacts, PlanRoles
<1> QED BY <1>1, <1>3, <1>4, <1>5, <1>6, <1>7, <1>8 DEF PromotedIsDeployed, c

-------------------------------------------------------------------------------
(* The evidence: every file of a campaign keeps what its validator demanded. *)

WorkspacesInv ==
  \A w \in workspaces :
    /\ Workspace(w) /\ IsFiniteSet(w.people) /\ IsFiniteSet(w.metrics)
    /\ {"parent", "scenarios", "metrics"} \subseteq DOMAIN w

\* A finalized campaign is a valid record with the outcomes of each of its solvers.
CampaignInv ==
  campaign.stage = "record" =>
    /\ CampaignRecord(campaign)
    /\ \A a \in OfRole(campaign.people, "solver") : \E m \in campaign.metrics : m.operator = a.id

EvidenceInv == WorkspacesInv /\ CampaignInv

\* As many metrics as solvers, each of a solver and no two of the same one: none is missing.
LEMMA MetricsCover ==
  ASSUME NEW solvers, NEW metrics, IsFiniteSet(solvers), \A a, b \in solvers : a # b => a.id # b.id,
         \A m, n \in metrics : m # n => m.operator # n.operator,
         \A m \in metrics : m.operator \in {a.id : a \in solvers},
         Cardinality(metrics) = Cardinality(solvers)
  PROVE  \A a \in solvers : \E m \in metrics : m.operator = a.id
<1> DEFINE ids == {a.id : a \in solvers}
           name == [a \in solvers |-> a.id]
           owner == [m \in metrics |-> m.operator]
<1>1. name \in Injection(solvers, ids) /\ name \in Surjection(solvers, ids)
  BY DEF Injection, IsInjective, Surjection
<1>2. IsFiniteSet(ids) /\ Cardinality(ids) = Cardinality(solvers)
  BY <1>1, FS_Surjection
<1>3. owner \in Injection(metrics, ids)
  BY DEF Injection, IsInjective
<1>4. owner \in Surjection(metrics, ids)
  BY <1>2, <1>3, FS_Injection
<1> QED BY <1>4 DEF Surjection

LEMMA EvidenceStarts == workspaces = {} /\ campaign = NotSeen => EvidenceInv
  BY DEF EvidenceInv, WorkspacesInv, CampaignInv, NotSeen

LEMMA CampaignKeeps ==
  ASSUME EvidenceInv, CampaignNext
  PROVE  /\ EvidenceInv' /\ UNCHANGED deploymentVars
         /\ campaign.stage = "record" => UNCHANGED campaign
         /\ campaign # NotSeen => UNCHANGED campaign
<1> DEFINE goal == /\ EvidenceInv' /\ UNCHANGED deploymentVars
                   /\ campaign # NotSeen => UNCHANGED campaign
<1>1. ASSUME NEW c \in CampaignPlans, InitializeCampaign(c) PROVE goal
  <2>1. Workspace(c) /\ c.metrics = {} /\ IsFiniteSet(c.people) /\ {"parent", "scenarios", "metrics"} \subseteq DOMAIN c
    BY <1>1, EvidenceAssumption DEF InitializeCampaign, Workspace
  <2>2. IsFiniteSet(c.metrics)
    BY <2>1, FS_EmptySet
  <2>3. WorkspacesInv'
    BY <1>1, <2>1, <2>2 DEF InitializeCampaign, WorkspacesInv
  <2> QED BY <1>1, <2>3 DEF InitializeCampaign, EvidenceInv, CampaignInv
<1>2. ASSUME NEW w \in workspaces, NEW e, AppendScenario(w, e) PROVE goal
  <2> DEFINE next == [w EXCEPT !.scenarios = @ \cup {e}, !.parent = w]
  <2>1. Workspace(next) /\ workspaces' = workspaces \cup {next}
    BY <1>2 DEF AppendScenario, CampaignTransition
  <2>2. DOMAIN next = DOMAIN w /\ next.people = w.people /\ next.metrics = w.metrics
    BY <1>2 DEF EvidenceInv, WorkspacesInv, AppendScenario, CampaignTransition
  <2> HIDE DEF next
  <2>3. WorkspacesInv'
    BY <2>1, <2>2 DEF EvidenceInv, WorkspacesInv
  <2> QED BY <1>2, <2>3 DEF AppendScenario, EvidenceInv, CampaignInv
<1>3. ASSUME NEW w \in workspaces, NEW m, AppendMetric(w, m) PROVE goal
  <2> DEFINE next == [w EXCEPT !.metrics = @ \cup {m}, !.parent = w]
  <2>1. Workspace(next) /\ workspaces' = workspaces \cup {next}
    BY <1>3 DEF AppendMetric, CampaignTransition
  <2>2. DOMAIN next = DOMAIN w /\ next.people = w.people /\ next.metrics = w.metrics \cup {m}
    BY <1>3 DEF EvidenceInv, WorkspacesInv, AppendMetric, CampaignTransition
  <2>3. IsFiniteSet(w.metrics \cup {m})
    BY FS_AddElement DEF EvidenceInv, WorkspacesInv
  <2> HIDE DEF next
  <2>4. WorkspacesInv'
    BY <2>1, <2>2, <2>3 DEF EvidenceInv, WorkspacesInv
  <2> QED BY <1>3, <2>4 DEF AppendMetric, EvidenceInv, CampaignInv
<1>4. ASSUME NEW w \in workspaces, NEW f, FinalizeCampaign(w, f) PROVE goal
  <2>1. PICK d : /\ CampaignRecord(d) /\ campaign' = d /\ campaign = NotSeen /\ UNCHANGED <<deploymentVars, workspaces>>
                 /\ d.people = w.people /\ d.metrics = w.metrics /\ CollectionComplete(w)
    BY <1>4 DEF FinalizeCampaign
  <2> DEFINE solvers == OfRole(w.people, "solver")
  <2>2. Workspace(w) /\ IsFiniteSet(w.people)
    BY DEF EvidenceInv, WorkspacesInv
  <2>3. /\ IsFiniteSet(solvers) /\ \A a, b \in solvers : a # b => a.id # b.id
        /\ Cardinality(w.metrics) = Cardinality(solvers)
    BY <2>1, <2>2, FS_Subset DEF OfRole, Workspace, DistinctPeople, CollectionComplete
  <2>4. /\ \A m, n \in w.metrics : m # n => m.operator # n.operator
        /\ \A m \in w.metrics : m.operator \in {a.id : a \in solvers}
    BY <2>2 DEF Workspace, CampaignMetric
  <2> HIDE DEF solvers
  <2>5. \A a \in solvers : \E m \in w.metrics : m.operator = a.id
    BY <2>3, <2>4, MetricsCover
  <2>6. CampaignInv'
    BY <2>1, <2>5 DEF CampaignInv, solvers
  <2>7. WorkspacesInv'
    BY <2>1 DEF EvidenceInv, WorkspacesInv
  <2> QED BY <2>1, <2>6, <2>7 DEF EvidenceInv
<1>5. goal
  BY <1>1, <1>2, <1>3, <1>4 DEF CampaignNext
<1>6. campaign.stage = "record" => campaign # NotSeen
  BY DEF NotSeen
<1> QED BY <1>5, <1>6

-------------------------------------------------------------------------------
(* The candidate, its approvals and its activations. *)

Signed == \A r \in ReleaseRoles : approvals[r].signed

\* A candidate was verified at the time of its approval block.
CandidateInv ==
  candidate # NoCandidate =>
    /\ candidate.bundle \in DOMAIN Bundles /\ candidate.anchor \in Seq(Block) /\ Len(candidate.anchor) >= 1
    /\ CandidateVerified(CandidateBundle, TimeOf(candidate.anchor))

\* A block of the approved chain in which the contracts were acceptable.
Observed(c, mode, at) ==
  c \in Seq(Block) /\ Len(c) >= 1 /\ IsPrefix(candidate.anchor, c) /\ RuntimeObservation(c, mode, at)

\* An attempt past its approvals has them all, and has seen nothing unacceptable.
AttemptInv ==
  attempt # NoAttempt =>
    /\ {"stage", "mode", "at", "rec", "target", "heads", "seen"} \subseteq DOMAIN attempt
    /\ candidate # NoCandidate /\ attempt.stage \in {"approvals", "heads"}
    /\ attempt.mode \in ActivationModes /\ attempt.at \in Nat
    /\ attempt.mode = "funding" => attempt.rec \in Reconciliations
    /\ attempt.stage = "approvals" => DOMAIN attempt.seen = {}
    /\ attempt.stage = "heads" =>
         /\ Signed /\ FinalBlock(candidate.anchor)
         /\ attempt.mode = "funding" => RuntimeReconciliation(attempt.rec)
         /\ attempt.target \in Nat /\ Len(candidate.anchor) <= attempt.target
         /\ \A q \in DOMAIN attempt.seen : Observed(attempt.seen[q], attempt.mode, attempt.at)

\* An activation rests on the approvals and on one observed block, and ends with what it rests on.
Rests(mode) ==
  LET a == activations[mode] IN
  /\ "stage" \in DOMAIN a
  /\ a.stage = "verified" =>
       /\ {"stage", "active", "at", "block", "rec", "validUntil"} \subseteq DOMAIN a
       /\ candidate # NoCandidate /\ Signed /\ a.at \in Nat /\ Observed(a.block, mode, a.at)
       /\ mode = "funding" => /\ a.rec \in Reconciliations /\ RuntimeReconciliation(a.rec)
                              /\ a.validUntil = Min2(Rel.validUntil, a.rec.validUntil)
       /\ mode = "recovery" => a.validUntil = TimeOf(a.block) + MaxAge
ActivationsInv == DOMAIN activations = ActivationModes /\ \A mode \in ActivationModes : Rests(mode)

\* A recovery context claims on chain only what its activation saw unpaused.
ContextsInv ==
  /\ DOMAIN contexts = ActivationModes
  /\ contexts["recovery"] # NoContext =>
       /\ activations["recovery"].stage = "verified"
       /\ contexts["recovery"].evmClaims => ~StateAt(activations["recovery"].block).paused

ActivationInv ==
  DOMAIN approvals = ReleaseRoles /\ CandidateInv /\ AttemptInv /\ ActivationsInv /\ ContextsInv

\* What a verified candidate reads does not change once it exists.
EvidenceFixed ==
  /\ promoted.stage = "verified" => UNCHANGED <<plan, promoted>>
  /\ campaign.stage = "record" => UNCHANGED campaign

LEMMA VerifiedStays ==
  ASSUME NEW b, NEW t, CandidateVerified(b, t), EvidenceFixed
  PROVE  CandidateVerified(b, t)'
<1>1. plan' = plan /\ promoted' = promoted
  BY DEF CandidateVerified, EvidenceFixed
<1>2. b.mode = "operator-testnet" => campaign' = campaign
  BY DEF CandidateVerified, Qualifies, CampaignQualifies, CampaignVerified, EvidenceFixed
<1>3. Upstream(b)' = Upstream(b)
  BY <1>2 DEF Upstream
<1>4. Manifest' = Manifest /\ DeployedSubject' = DeployedSubject /\ PromotedProviders' = PromotedProviders
  BY <1>1 DEF Manifest, DeployedSubject, PromotedProviders
<1>5. Wallets' = Wallets
  BY <1>1, <1>4 DEF Wallets
<1>6. EvmProviders(b)' = EvmProviders(b) /\ Counts(b)' = Counts(b)
  BY <1>3 DEF EvmProviders, Counts
<1>7. Qualifies(b, t)' = Qualifies(b, t)
  BY <1>2, <1>3, <1>4, <1>6 DEF Qualifies, CampaignQualifies, BootstrapQualifies
<1>8. UniformMultisig(b)' /\ BoundReleaseWallets(b)'
  BY <1>1, <1>4 DEF CandidateVerified, UniformMultisig, BoundReleaseWallets
<1>9. IndependentReviewers(b)' /\ Qualification(b, t)'
  BY <1>1, <1>3, <1>4, <1>5 DEF CandidateVerified, IndependentReviewers, Qualification
<1>10. OperationalReadiness(b, t)'
  BY <1>1, <1>3, <1>4, <1>5 DEF CandidateVerified, OperationalReadiness
<1>11. Adoption(b)' /\ ReleaseRecord(b, t)'
  BY <1>1, <1>3, <1>6 DEF CandidateVerified, Adoption, ReleaseRecord
<1> QED BY <1>1, <1>4, <1>7, <1>8, <1>9, <1>10, <1>11 DEF CandidateVerified

LEMMA ObservedStays ==
  ASSUME UNCHANGED <<candidate, promoted>>, NEW c, NEW mode, NEW at, Observed(c, mode, at)
  PROVE  Observed(c, mode, at)'
<1>1. Manifest' = Manifest /\ Rel' = Rel /\ MaxAge' = MaxAge
  BY DEF Manifest, Rel, MaxAge, CandidateBundle
<1> QED BY <1>1 DEF Observed, RuntimeObservation, RuntimeHead, GateAcceptable, InventoryAcceptable

\* Whatever moves the chain or writes other documents leaves the activations as they are.
LEMMA ActivationStays ==
  ASSUME ChainInv, ChainMoves, ActivationInv, EvidenceFixed, UNCHANGED activationVars
  PROVE  ActivationInv'
<1> USE DEF activationVars
<1>1. CandidateBundle' = CandidateBundle /\ Rel' = Rel /\ MaxAge' = MaxAge
  BY DEF CandidateBundle, Rel, MaxAge
<1>2. CandidateInv'
  <2>1. ASSUME candidate # NoCandidate PROVE CandidateVerified(CandidateBundle, TimeOf(candidate.anchor))'
    <3>1. CandidateVerified(CandidateBundle, TimeOf(candidate.anchor))
      BY <2>1 DEF ActivationInv, CandidateInv
    <3>2. TimeOf(candidate.anchor)' = TimeOf(candidate.anchor)
      BY DEF TimeOf
    <3> QED BY <3>1, <3>2, <1>1, VerifiedStays
  <2> QED BY <2>1, <1>1 DEF ActivationInv, CandidateInv
<1>3. candidate # NoCandidate => promoted' = promoted
  BY DEF ActivationInv, CandidateInv, CandidateVerified, EvidenceFixed
<1>4. AttemptInv'
  <2> SUFFICES ASSUME attempt # NoAttempt PROVE AttemptInv'
    BY DEF AttemptInv
  <2>1. candidate # NoCandidate
    BY DEF ActivationInv, AttemptInv
  <2>2. ASSUME attempt.stage = "heads" PROVE FinalBlock(candidate.anchor)'
    BY <2>2, FinalStays DEF ActivationInv, AttemptInv, FinalBlock
  <2>3. ASSUME attempt.stage = "heads", NEW q \in DOMAIN attempt.seen
        PROVE  Observed(attempt.seen[q], attempt.mode, attempt.at)'
    BY <2>1, <2>3, <1>3, ObservedStays DEF ActivationInv, AttemptInv
  <2> QED BY <2>2, <2>3, <1>1 DEF ActivationInv, AttemptInv, Signed, RuntimeReconciliation
<1>5. ActivationsInv'
  <2>1. ASSUME NEW mode \in ActivationModes, activations[mode].stage = "verified"
        PROVE  Observed(activations[mode].block, mode, activations[mode].at)'
    BY <2>1, <1>3, ObservedStays DEF ActivationInv, ActivationsInv, Rests
  <2> QED BY <2>1, <1>1 DEF ActivationInv, ActivationsInv, Rests, Signed, RuntimeReconciliation
<1>6. ContextsInv'
  BY DEF ActivationInv, ContextsInv
<1> QED BY <1>2, <1>4, <1>5, <1>6 DEF ActivationInv

\* A step of an activation: the chain and the evidence stay.
activationReads == <<deploymentVars, evidenceFiles>>

LEMMA EvidenceRead == ASSUME UNCHANGED activationReads PROVE EvidenceFixed
  BY DEF activationReads, deploymentVars, evidenceFiles, EvidenceFixed

LEMMA CandidateKept ==
  ASSUME UNCHANGED activationReads, UNCHANGED candidate, CandidateInv
  PROVE  CandidateInv'
<1>1. CandidateBundle' = CandidateBundle /\ TimeOf(candidate.anchor)' = TimeOf(candidate.anchor)
  BY DEF CandidateBundle, TimeOf
<1>2. candidate # NoCandidate => CandidateVerified(CandidateBundle, TimeOf(candidate.anchor))'
  BY <1>1, EvidenceRead, VerifiedStays DEF CandidateInv
<1> QED BY <1>2 DEF CandidateInv

\* What is observed and reconciled for a candidate stays so.
LEMMA RuntimeKept ==
  ASSUME UNCHANGED activationReads, UNCHANGED candidate
  PROVE  /\ \A c, mode, at : Observed(c, mode, at) => Observed(c, mode, at)'
         /\ \A rec : RuntimeReconciliation(rec) => RuntimeReconciliation(rec)'
         /\ \A c : FinalBlock(c) => FinalBlock(c)'
         /\ Rel' = Rel /\ MaxAge' = MaxAge
<1> USE DEF activationReads, deploymentVars
<1>1. Rel' = Rel /\ MaxAge' = MaxAge
  BY DEF Rel, MaxAge, CandidateBundle
<1>2. \A c, mode, at : Observed(c, mode, at) => Observed(c, mode, at)'
  BY ObservedStays
<1> QED BY <1>1, <1>2 DEF RuntimeReconciliation, FinalBlock

LEMMA AttemptKept ==
  ASSUME UNCHANGED activationReads, UNCHANGED <<candidate, attempt>>, Signed => Signed', AttemptInv
  PROVE  AttemptInv'
<1>1. ASSUME attempt # NoAttempt, attempt.stage = "heads"
      PROVE  /\ Signed' /\ FinalBlock(candidate.anchor)'
             /\ attempt.mode = "funding" => RuntimeReconciliation(attempt.rec)'
             /\ attempt.target \in Nat /\ Len(candidate.anchor) <= attempt.target
             /\ \A q \in DOMAIN attempt.seen : Observed(attempt.seen[q], attempt.mode, attempt.at)'
  BY <1>1, RuntimeKept DEF AttemptInv
<1> QED BY <1>1 DEF AttemptInv

LEMMA RestsKept ==
  ASSUME UNCHANGED activationReads, UNCHANGED candidate, Signed => Signed', NEW mode, Rests(mode),
         activations'[mode] = activations[mode]
  PROVE  Rests(mode)'
  BY RuntimeKept DEF Rests, TimeOf

LEMMA StepPrepareCandidate ==
  ASSUME ChainInv, CeremonyInv, ActivationInv, NEW name \in DOMAIN Bundles, PrepareCandidate(name)
  PROVE  ActivationInv'
<1>1. PICK n \in {k \in DOMAIN chain : CandidateVerified(Bundles[name], chain[k].time)} :
        candidate' = [stage |-> "prepared", bundle |-> name, anchor |-> Prefix(n)]
  BY DEF PrepareCandidate
<1>2. candidate = NoCandidate /\ UNCHANGED <<activationReads, approvals, attempt, activations, contexts>>
  BY DEF PrepareCandidate, activationReads
<1>3. n \in Nat /\ 1 <= n /\ n <= Len(chain) /\ chain \in Seq(Block)
  BY <1>1 DEF ChainInv
<1>4. Prefix(n) \in Seq(Block) /\ Len(Prefix(n)) = n /\ Prefix(n)[n] = chain[n]
  BY <1>3, FirstBlocks DEF Prefix
<1>5. candidate'.bundle = name /\ candidate'.anchor = Prefix(n) /\ TimeOf(candidate.anchor)' = chain[n].time
  BY <1>1, <1>4 DEF TimeOf
<1>6. CandidateBundle' = Bundles[name]
  BY <1>5 DEF CandidateBundle
<1>7. CandidateVerified(CandidateBundle, TimeOf(candidate.anchor))'
  BY <1>1, <1>2, <1>5, <1>6, EvidenceRead, VerifiedStays
<1>8. CandidateInv'
  BY <1>3, <1>4, <1>5, <1>7 DEF CandidateInv
<1>9. attempt = NoAttempt /\ \A mode \in ActivationModes : activations[mode].stage # "verified"
  BY <1>2 DEF ActivationInv, AttemptInv, ActivationsInv, Rests
<1>10. AttemptInv' /\ ActivationsInv'
  BY <1>2, <1>9 DEF ActivationInv, AttemptInv, ActivationsInv, Rests, NoAttempt
<1> QED BY <1>2, <1>8, <1>10 DEF ActivationInv, ContextsInv

LEMMA StepApproveRelease ==
  ASSUME ActivationInv, NEW role \in ReleaseRoles, ApproveRelease(role)
  PROVE  ActivationInv'
<1>1. UNCHANGED activationReads /\ UNCHANGED <<candidate, attempt, activations, contexts>>
  BY DEF ApproveRelease, activationReads
<1>2. DOMAIN approvals' = ReleaseRoles /\ (Signed => Signed')
  BY DEF ActivationInv, ApproveRelease, Signed
<1>3. CandidateInv' /\ AttemptInv' /\ ContextsInv'
  BY <1>1, <1>2, CandidateKept, AttemptKept DEF ActivationInv, ContextsInv
<1>4. ActivationsInv'
  BY <1>1, <1>2, RestsKept DEF ActivationInv, ActivationsInv
<1> QED BY <1>2, <1>3, <1>4 DEF ActivationInv

\* A step that writes the attempt and nothing else.
LEMMA AttemptStep ==
  ASSUME ActivationInv, UNCHANGED activationReads, UNCHANGED <<candidate, approvals, activations, contexts>>, AttemptInv'
  PROVE  ActivationInv'
<1>1. Signed => Signed'
  BY DEF Signed
<1>2. CandidateInv' /\ ContextsInv'
  BY CandidateKept DEF ActivationInv, ContextsInv
<1>3. ActivationsInv'
  BY <1>1, RestsKept DEF ActivationInv, ActivationsInv
<1> QED BY <1>2, <1>3 DEF ActivationInv

LEMMA StepBeginActivation ==
  ASSUME ChainInv, ActivationInv, NEW mode, NEW rec, BeginActivation(mode, rec),
         \/ mode = "funding" /\ rec \in Reconciliations
         \/ mode = "recovery"
  PROVE  ActivationInv'
<1>1. AttemptInv'
  BY DEF BeginActivation, AttemptInv, NoAttempt, ChainInv, ActivationModes, deploymentVars
<1> QED BY <1>1, AttemptStep DEF BeginActivation, activationReads

LEMMA StepVerifyApprovals ==
  ASSUME ChainInv, ActivationInv, VerifyApprovals
  PROVE  ActivationInv'
<1> USE DEF VerifyApprovals, activationReads
<1>1. CASE attempt' = NoAttempt
  BY <1>1, AttemptStep DEF AttemptInv
<1>2. CASE attempt' # NoAttempt
  <2>1. /\ attempt' = [attempt EXCEPT !.stage = "heads", !.target = Len(chain)]
        /\ attempt.mode = "funding" => ApprovalsVerified(attempt.at) /\ RuntimeReconciliation(attempt.rec)
        /\ attempt.mode # "funding" => ApprovalsVerified(Min2(attempt.at, Rel.validUntil))
    BY <1>2
  <2>2. attempt # NoAttempt /\ attempt.stage = "approvals"
    BY DEF NoAttempt
  <2>3. Signed /\ Canonical(candidate.anchor) /\ Len(candidate.anchor) <= finalized
    BY <2>1 DEF ApprovalsVerified, Signed, WalletApproved, WalletRoles
  <2>4. candidate # NoCandidate /\ candidate.anchor \in Seq(Block) /\ Len(candidate.anchor) >= 1
    BY <2>2 DEF ActivationInv, AttemptInv, CandidateInv
  <2>5. FinalBlock(candidate.anchor) /\ Len(chain) \in Nat /\ Len(candidate.anchor) <= Len(chain)
    BY <2>3, <2>4 DEF FinalBlock, Canonical, ChainInv
  <2>6. Signed' /\ FinalBlock(candidate.anchor)' /\ candidate' = candidate
    BY <2>3, <2>5 DEF Signed, FinalBlock, deploymentVars
  <2>7. /\ {"stage", "mode", "at", "rec", "target", "heads", "seen"} \subseteq DOMAIN attempt'
        /\ attempt'.stage = "heads" /\ attempt'.target = Len(chain) /\ attempt'.mode = attempt.mode
        /\ attempt'.at = attempt.at /\ attempt'.rec = attempt.rec /\ attempt'.seen = attempt.seen
    BY <2>1, <2>2 DEF ActivationInv, AttemptInv
  <2>8. attempt.mode = "funding" => RuntimeReconciliation(attempt.rec)'
    BY <2>1, <2>7, RuntimeKept
  <2>9. AttemptInv'
    BY <2>2, <2>4, <2>5, <2>6, <2>7, <2>8 DEF ActivationInv, AttemptInv
  <2> QED BY <2>9, AttemptStep
<1> QED BY <1>1, <1>2

LEMMA StepTimeOut == ASSUME ActivationInv, TimeOut PROVE ActivationInv'
  BY AttemptStep DEF TimeOut, AttemptInv, activationReads

LEMMA StepReadHead ==
  ASSUME ChainInv, ActivationInv, NEW p, ReadHead(p)
  PROVE  ActivationInv'
<1> USE DEF activationReads
<1>1. UNCHANGED activationReads /\ UNCHANGED <<candidate, approvals, activations, contexts>>
  BY DEF ReadHead
<1>2. attempt.stage = "heads" /\ attempt # NoAttempt
  BY DEF ReadHead, NoAttempt
<1>3. /\ Signed /\ FinalBlock(candidate.anchor) /\ attempt.target \in Nat
      /\ Len(candidate.anchor) <= attempt.target /\ Len(candidate.anchor) \in Nat
  BY <1>2 DEF ActivationInv, AttemptInv, FinalBlock
<1>4. CASE attempt' = NoAttempt
  BY <1>1, <1>4, AttemptStep DEF AttemptInv
<1>5. CASE attempt' # NoAttempt
  <2>1. PICK n \in IF p \in Faulty THEN Len(candidate.anchor)..Len(chain) ELSE {Len(chain)} :
          attempt' = [attempt EXCEPT !.heads = @ \cup {p}, !.target = Min2(@, n)]
    BY <1>5 DEF ReadHead
  <2>2. n \in Nat /\ Len(candidate.anchor) <= n
    BY <1>3 DEF ChainInv, FinalBlock
  <2>3. Min2(attempt.target, n) \in Nat /\ Len(candidate.anchor) <= Min2(attempt.target, n)
    BY <1>3, <2>2 DEF Min2
  <2>4. /\ {"stage", "mode", "at", "rec", "target", "heads", "seen"} \subseteq DOMAIN attempt'
        /\ attempt'.stage = "heads" /\ attempt'.target = Min2(attempt.target, n) /\ attempt'.mode = attempt.mode
        /\ attempt'.at = attempt.at /\ attempt'.rec = attempt.rec /\ attempt'.seen = attempt.seen
    BY <1>2, <2>1 DEF ActivationInv, AttemptInv
  <2>5. /\ Signed' /\ FinalBlock(candidate.anchor)' /\ candidate' = candidate
        /\ attempt.mode = "funding" => RuntimeReconciliation(attempt.rec)'
        /\ \A q \in DOMAIN attempt.seen : Observed(attempt.seen[q], attempt.mode, attempt.at)'
    BY <1>1, <1>2, <1>3, <2>4, RuntimeKept DEF Signed, ActivationInv, AttemptInv
  <2>6. AttemptInv'
    BY <1>2, <2>3, <2>4, <2>5 DEF ActivationInv, AttemptInv
  <2> QED BY <1>1, <2>6, AttemptStep
<1> QED BY <1>4, <1>5

\* The target of an attempt, on the chain of now, has the approval block under it.
LEMMA TargetOver ==
  ASSUME ChainInv, FinalBlock(candidate.anchor), attempt.target \in Nat, Len(candidate.anchor) <= attempt.target,
         attempt.target <= Len(chain)
  PROVE  LET c == Prefix(attempt.target) IN
         c \in Seq(Block) /\ Len(c) >= 1 /\ IsPrefix(candidate.anchor, c)
<1> DEFINE c == Prefix(attempt.target)
<1>1. c \in Seq(Block) /\ Len(c) = attempt.target /\ IsPrefix(c, chain)
  BY FirstBlocks DEF ChainInv, Prefix
<1>2. candidate.anchor \in Seq(Block) /\ Len(candidate.anchor) >= 1 /\ IsPrefix(candidate.anchor, chain)
  BY DEF FinalBlock
<1> HIDE DEF c
<1>3. IsPrefix(candidate.anchor, c)
  BY <1>1, <1>2, PrefixOfPrefix DEF ChainInv
<1>4. Len(c) >= 1
  BY <1>1, <1>2
<1> QED BY <1>1, <1>3, <1>4 DEF c

LEMMA StepReadTarget ==
  ASSUME ChainInv, ActivationInv, NEW p, ReadTarget(p)
  PROVE  ActivationInv'
<1> USE DEF activationReads
<1>1. UNCHANGED activationReads /\ UNCHANGED <<candidate, approvals, activations, contexts>>
  BY DEF ReadTarget
<1>2. attempt.stage = "heads" /\ attempt # NoAttempt
  BY DEF ReadTarget, NoAttempt
<1>3. /\ Signed /\ FinalBlock(candidate.anchor) /\ attempt.target \in Nat
      /\ Len(candidate.anchor) <= attempt.target
      /\ \A q \in DOMAIN attempt.seen : Observed(attempt.seen[q], attempt.mode, attempt.at)
  BY <1>2 DEF ActivationInv, AttemptInv
<1>4. CASE attempt' = NoAttempt
  BY <1>1, <1>4, AttemptStep DEF AttemptInv
<1>5. CASE attempt' # NoAttempt
  <2>1. PICK c \in IF p \in Faulty THEN {attempt.seen[q] : q \in DOMAIN attempt.seen}
                   ELSE {IF attempt.target <= Len(chain) THEN Prefix(attempt.target) ELSE <<>>} :
          /\ c # <<>> /\ RuntimeObservation(c, attempt.mode, attempt.at)
          /\ attempt' = [attempt EXCEPT !.seen = [q \in DOMAIN @ \cup {p} |-> IF q = p THEN c ELSE @[q]]]
    BY <1>5 DEF ReadTarget
  <2>2. Observed(c, attempt.mode, attempt.at)
    <3>1. CASE p \in Faulty
      BY <2>1, <3>1, <1>3
    <3>2. CASE p \notin Faulty
      BY <2>1, <3>2, <1>3, TargetOver DEF Observed
    <3> QED BY <3>1, <3>2
  <2> DEFINE seen == [q \in DOMAIN attempt.seen \cup {p} |-> IF q = p THEN c ELSE attempt.seen[q]]
  <2>3. \A q \in DOMAIN seen : Observed(seen[q], attempt.mode, attempt.at)
    BY <1>3, <2>2
  <2>4. /\ {"stage", "mode", "at", "rec", "target", "heads", "seen"} \subseteq DOMAIN attempt'
        /\ attempt'.stage = "heads" /\ attempt'.target = attempt.target /\ attempt'.mode = attempt.mode
        /\ attempt'.at = attempt.at /\ attempt'.rec = attempt.rec /\ attempt'.seen = seen
    BY <1>2, <2>1 DEF ActivationInv, AttemptInv
  <2> HIDE DEF seen
  <2>5. /\ Signed' /\ FinalBlock(candidate.anchor)' /\ candidate' = candidate
        /\ attempt.mode = "funding" => RuntimeReconciliation(attempt.rec)'
        /\ (\A q \in DOMAIN attempt.seen : Observed(attempt.seen[q], attempt.mode, attempt.at))'
    BY <1>1, <1>2, <1>3, <2>3, <2>4, RuntimeKept DEF Signed, ActivationInv, AttemptInv
  <2>6. AttemptInv'
    BY <1>2, <1>3, <2>4, <2>5 DEF ActivationInv, AttemptInv
  <2> QED BY <1>1, <2>6, AttemptStep
<1> QED BY <1>4, <1>5

\* A verified candidate has somebody to observe its contracts.
LEMMA SomeProvider ==
  ASSUME CeremonyInv, NEW b, NEW t, CandidateVerified(b, t)
  PROVE  ProviderSet(b) # {}
<1> DEFINE people == OfRole(promoted.approvers, "provider")
           one == [a \in people |-> [id |-> a.id, signer |-> a.signer]]
<1>1. people # {} /\ IsFiniteSet(people)
  <2>1. people # {} /\ promoted.approvers \in {policy.approvers : policy \in PromotionPolicies}
    BY DEF CandidateVerified, CeremonyInv, PromotedInv
  <2>2. IsFiniteSet(promoted.approvers)
    BY <2>1, DeploymentAssumption
  <2>3. people \subseteq promoted.approvers
    BY DEF OfRole
  <2> QED BY <2>1, <2>2, <2>3, FS_Subset
<1>2. /\ PromotedProviders = {one[a] : a \in people}
      /\ Cardinality(EvmProviders(b)) = Cardinality(PromotedProviders)
  BY DEF PromotedProviders, CandidateVerified, Qualifies
<1>3. EvmProviders(b) # {} /\ PromotedProviders # {}
  <2>1. one \in [people -> PromotedProviders]
    BY <1>2
  <2>2. one \in Surjection(people, PromotedProviders)
    BY <1>2, <2>1 DEF Surjection
  <2> HIDE DEF people, one
  <2>3. IsFiniteSet(PromotedProviders) /\ PromotedProviders # {}
    BY <1>1, <1>2, <2>2, FS_Surjection
  <2> QED BY <1>2, <2>3, FS_EmptySet
<1>4. PICK e \in EvmProviders(b), q \in PromotedProviders : TRUE
  BY <1>3
<1>5. CASE b.mode = "operator-testnet"
  BY <1>4, <1>5 DEF ProviderSet
<1>6. CASE b.mode # "operator-testnet"
  BY <1>4, <1>6 DEF ProviderSet
<1> QED BY <1>5, <1>6

LEMMA StepFinishActivation ==
  ASSUME ChainInv, CeremonyInv, ActivationInv, FinishActivation
  PROVE  ActivationInv'
<1> USE DEF activationReads
<1>1. UNCHANGED activationReads /\ UNCHANGED <<candidate, approvals>> /\ attempt' = NoAttempt
  BY DEF FinishActivation
<1>2. attempt.stage = "heads" /\ attempt # NoAttempt /\ DOMAIN attempt.seen = ProviderSet(CandidateBundle)
  BY DEF FinishActivation, NoAttempt
<1>3. CandidateInv' /\ AttemptInv' /\ (Signed => Signed') /\ DOMAIN approvals' = ReleaseRoles
  BY <1>1, CandidateKept DEF ActivationInv, AttemptInv, Signed
<1>4. CASE UNCHANGED <<activations, contexts>>
  BY <1>1, <1>3, <1>4, RestsKept DEF ActivationInv, ActivationsInv, ContextsInv
<1>5. CASE ~UNCHANGED <<activations, contexts>>
  <2>1. PICK p, c, mode, at, rec, until, a :
          /\ p = CHOOSE q \in DOMAIN attempt.seen : TRUE
          /\ c = attempt.seen[p] /\ mode = attempt.mode /\ at = attempt.at /\ rec = attempt.rec
          /\ until = IF mode = "funding" THEN Min2(Rel.validUntil, rec.validUntil) ELSE TimeOf(c) + MaxAge
          /\ a = [stage |-> "verified", active |-> TRUE, at |-> at, block |-> c, rec |-> rec, validUntil |-> until]
          /\ activations' = [activations EXCEPT ![mode] = a]
          /\ contexts' = [contexts EXCEPT ![mode] = NoContext]
    BY <1>5 DEF FinishActivation
  <2>2. p \in DOMAIN attempt.seen
    BY <1>2, <2>1, SomeProvider DEF ActivationInv, AttemptInv, CandidateInv
  <2>3. /\ candidate # NoCandidate /\ Signed /\ at \in Nat /\ Observed(c, mode, at) /\ mode \in ActivationModes
        /\ mode = "funding" => rec \in Reconciliations /\ RuntimeReconciliation(rec)
    BY <1>2, <2>1, <2>2 DEF ActivationInv, AttemptInv
  <2>4. activations'[mode] = a /\ contexts'[mode] = NoContext
    BY <2>1, <2>3 DEF ActivationInv, ActivationsInv, ContextsInv
  <2>5. /\ candidate' # NoCandidate /\ Signed' /\ Observed(c, mode, at)' /\ Rel' = Rel /\ MaxAge' = MaxAge
        /\ mode = "funding" => RuntimeReconciliation(rec)'
    BY <1>1, <1>3, <2>3, RuntimeKept
  <2>6. /\ a.stage = "verified" /\ {"stage", "active", "at", "block", "rec", "validUntil"} \subseteq DOMAIN a
        /\ a.at = at /\ a.block = c /\ a.rec = rec /\ a.validUntil = until
    BY <2>1
  <2>7. Rests(mode)'
    BY <2>1, <2>3, <2>4, <2>5, <2>6 DEF Rests, TimeOf, Min2, ActivationModes
  <2>8. \A m \in ActivationModes : m # mode => Rests(m)'
    BY <1>1, <1>3, <2>1, RestsKept DEF ActivationInv, ActivationsInv
  <2>9. ActivationsInv'
    BY <2>1, <2>7, <2>8 DEF ActivationInv, ActivationsInv
  <2>10. ContextsInv'
    BY <2>1, <2>3, <2>4 DEF ActivationInv, ActivationsInv, ContextsInv, ActivationModes
  <2> QED BY <1>3, <2>9, <2>10 DEF ActivationInv
<1> QED BY <1>3, <1>4, <1>5
LEMMA StepDeactivate ==
  ASSUME ActivationInv, NEW mode \in ActivationModes, Deactivate(mode)
  PROVE  ActivationInv'
<1> USE DEF activationReads
<1>1. UNCHANGED activationReads /\ UNCHANGED <<candidate, approvals, attempt, contexts>>
  BY DEF Deactivate
<1>2. CandidateInv' /\ AttemptInv' /\ (Signed => Signed')
  BY <1>1, CandidateKept, AttemptKept DEF ActivationInv, Signed
<1>3. DOMAIN activations' = ActivationModes /\ \A m \in ActivationModes : m # mode => activations'[m] = activations[m]
  BY DEF Deactivate, ActivationInv, ActivationsInv
<1>4. /\ DOMAIN activations'[mode] = DOMAIN activations[mode]
      /\ \A f \in DOMAIN activations[mode] : f # "active" => activations'[mode][f] = activations[mode][f]
  BY DEF Deactivate, ActivationInv, ActivationsInv
<1>5. \A m \in ActivationModes : m # mode => Rests(m)'
  BY <1>1, <1>2, <1>3, RestsKept DEF ActivationInv, ActivationsInv
<1>6. activations[mode].stage = "verified" => Rests(mode)'
  <2> SUFFICES ASSUME activations[mode].stage = "verified" PROVE Rests(mode)'
    OBVIOUS
  <2>1. PICK c, at, rec, until :
          /\ c = activations[mode].block /\ at = activations[mode].at /\ rec = activations[mode].rec
          /\ until = activations[mode].validUntil
    OBVIOUS
  <2>2. /\ {"stage", "active", "at", "block", "rec", "validUntil"} \subseteq DOMAIN activations[mode]
        /\ candidate # NoCandidate /\ Signed /\ at \in Nat /\ Observed(c, mode, at)
        /\ mode = "funding" => /\ rec \in Reconciliations /\ RuntimeReconciliation(rec)
                               /\ until = Min2(Rel.validUntil, rec.validUntil)
        /\ mode = "recovery" => until = TimeOf(c) + MaxAge
    BY <2>1 DEF ActivationInv, ActivationsInv, Rests
  <2>3. /\ candidate' # NoCandidate /\ Signed' /\ Observed(c, mode, at)' /\ Rel' = Rel /\ MaxAge' = MaxAge
        /\ mode = "funding" => RuntimeReconciliation(rec)'
    BY <1>1, <1>2, <2>2, RuntimeKept
  <2>4. /\ activations'[mode].block = c /\ activations'[mode].at = at /\ activations'[mode].rec = rec
        /\ activations'[mode].validUntil = until /\ activations'[mode].stage = "verified"
    BY <1>4, <2>1, <2>2
  <2> QED BY <1>4, <2>2, <2>3, <2>4 DEF Rests, TimeOf, Min2
<1>7. activations[mode].stage # "verified" => Rests(mode)'
  BY <1>4 DEF ActivationInv, ActivationsInv, Rests
<1>8. ActivationsInv'
  BY <1>3, <1>5, <1>6, <1>7 DEF ActivationsInv
<1>9. ContextsInv'
  <2>1. activations["recovery"].stage = "verified" =>
          /\ activations'["recovery"].stage = "verified"
          /\ activations'["recovery"].block = activations["recovery"].block
    BY <1>3, <1>4 DEF ActivationInv, ActivationsInv, Rests, ActivationModes
  <2> QED BY <1>1, <2>1 DEF ActivationInv, ContextsInv
<1> QED BY <1>1, <1>2, <1>8, <1>9 DEF ActivationInv, Deactivate

LEMMA StepCreateContext ==
  ASSUME ActivationInv, NEW mode \in ActivationModes, NEW cap, NEW dp, CreateContext(mode, cap, dp)
  PROVE  ActivationInv'
<1> USE DEF activationReads
<1>1. UNCHANGED activationReads /\ UNCHANGED <<candidate, approvals, attempt, activations>>
  BY DEF CreateContext
<1>2. CandidateInv' /\ AttemptInv' /\ (Signed => Signed')
  BY <1>1, CandidateKept, AttemptKept DEF ActivationInv, Signed
<1>3. ActivationsInv'
  BY <1>1, <1>2, RestsKept DEF ActivationInv, ActivationsInv
<1>4. ContextsInv'
  <2>1. DOMAIN contexts' = ActivationModes /\ \A m \in ActivationModes : m # mode => contexts'[m] = contexts[m]
    BY DEF CreateContext, ActivationInv, ContextsInv
  <2>2. ASSUME mode = "recovery"
        PROVE  /\ activations["recovery"].stage = "verified"
               /\ contexts'["recovery"].evmClaims => ~StateAt(activations["recovery"].block).paused
    BY <2>2 DEF CreateContext, ActivationInv, ContextsInv
  <2>3. StateAt(activations["recovery"].block)' = StateAt(activations["recovery"].block)
    BY <1>1
  <2> QED BY <1>1, <2>1, <2>2, <2>3 DEF ActivationInv, ContextsInv, ActivationModes
<1> QED BY <1>1, <1>2, <1>3, <1>4 DEF ActivationInv

\* The gate opens, the vault moves and the guardian or an outsider interferes: all on the chain.
ContractStep ==
  \/ \E o \in GateOpenings : ExecuteOpening(o)
  \/ \E kind \in {"deposit", "lock"} : VaultMoves(kind)
  \/ \E kind \in {"reorganise", "halt", "rotate", "pause", "upgrade", "donate"} : Disturbance(kind)

LEMMA ContractStepMoves ==
  ASSUME ChainInv, ContractStep
  PROVE  ChainMoves /\ UNCHANGED <<ceremonyVars, evidenceFiles, activationVars>>
<1> USE DEF evidenceVars, ceremonyVars
<1>1. ASSUME NEW o \in GateOpenings, ExecuteOpening(o)
      PROVE  ChainMoves /\ UNCHANGED <<ceremonyVars, evidenceFiles, activationVars>>
  <2>1. [kind |-> "open", time |-> now, risk |-> o.risk, until |-> o.until] \in Block /\ now \in Nat
    BY DEF Block, ChainInv
  <2> QED BY <1>1, <2>1, Appended DEF ExecuteOpening
<1>2. ASSUME NEW kind \in {"deposit", "lock"}, VaultMoves(kind)
      PROVE  ChainMoves /\ UNCHANGED <<ceremonyVars, evidenceFiles, activationVars>>
  BY <1>2, Mined DEF VaultMoves, Kinds
<1>3. ASSUME NEW kind \in {"reorganise", "halt", "rotate", "pause", "upgrade", "donate"}, Disturbance(kind)
      PROVE  ChainMoves /\ UNCHANGED <<ceremonyVars, evidenceFiles, activationVars>>
  <2>1. CASE kind = "reorganise"
    BY <1>3, <2>1, LastLost DEF Disturbance
  <2>2. CASE kind # "reorganise"
    BY <1>3, <2>2, Mined DEF Disturbance, Kinds
  <2> QED BY <2>1, <2>2
<1> QED BY <1>1, <1>2, <1>3 DEF ContractStep

LEMMA ActivationKeeps ==
  ASSUME ChainInv, CeremonyInv, ActivationInv, ActivationNext
  PROVE  ChainMoves /\ CeremonyInv' /\ ActivationInv' /\ UNCHANGED evidenceFiles
<1>1. CASE ContractStep
  <2>1. ChainMoves /\ UNCHANGED <<ceremonyVars, evidenceFiles, activationVars>>
    BY <1>1, ContractStepMoves
  <2>2. EvidenceFixed
    BY <2>1 DEF EvidenceFixed, ceremonyVars, evidenceFiles
  <2> QED BY <2>1, <2>2, CeremonyStays, ActivationStays
<1>2. CASE ~ContractStep
  <2> DEFINE kept == ActivationInv' /\ UNCHANGED activationReads
  <2>1. ASSUME NEW name \in DOMAIN Bundles, PrepareCandidate(name) PROVE kept
    BY <2>1, StepPrepareCandidate DEF PrepareCandidate, activationReads
  <2>2. ASSUME NEW r \in ReleaseRoles, ApproveRelease(r) PROVE kept
    BY <2>2, StepApproveRelease DEF ApproveRelease, activationReads
  <2>3. ASSUME NEW rec \in Reconciliations, BeginActivation("funding", rec) PROVE kept
    BY <2>3, StepBeginActivation DEF BeginActivation, activationReads
  <2>4. ASSUME BeginActivation("recovery", NotSeen) PROVE kept
    BY <2>4, StepBeginActivation DEF BeginActivation, activationReads
  <2>5. ASSUME VerifyApprovals PROVE kept
    BY <2>5, StepVerifyApprovals DEF VerifyApprovals, activationReads
  <2>6. ASSUME FinishActivation PROVE kept
    BY <2>6, StepFinishActivation DEF FinishActivation, activationReads
  <2>7. ASSUME TimeOut PROVE kept
    BY <2>7, StepTimeOut DEF TimeOut, activationReads
  <2>8. ASSUME NEW p, ReadHead(p) \/ ReadTarget(p) PROVE kept
    BY <2>8, StepReadHead, StepReadTarget DEF ReadHead, ReadTarget, activationReads
  <2>9. ASSUME NEW mode \in ActivationModes, Deactivate(mode) PROVE kept
    BY <2>9, StepDeactivate DEF Deactivate, activationReads
  <2>10. ASSUME NEW mode \in ActivationModes, NEW cap, NEW dp, CreateContext(mode, cap, dp) PROVE kept
    BY <2>10, StepCreateContext DEF CreateContext, activationReads
  <2>11. kept
    BY <1>2, <2>1, <2>2, <2>3, <2>4, <2>5, <2>6, <2>7, <2>8, <2>9, <2>10 DEF ActivationNext, ContractStep
  <2>12. UNCHANGED <<now, chain, finalized, ceremonyVars, evidenceFiles>>
    BY <2>11 DEF activationReads, deploymentVars, ceremonyVars
  <2> QED BY <2>11, <2>12, Unmoved, CeremonyStays
<1> QED BY <1>1, <1>2

LEMMA ActivationStarts == ActivationInit => ActivationInv
<1> SUFFICES ASSUME ActivationInit PROVE ActivationInv
  OBVIOUS
<1> USE DEF ActivationInit
<1>1. DOMAIN approvals = ReleaseRoles /\ CandidateInv /\ AttemptInv
  BY DEF CandidateInv, AttemptInv
<1>2. ActivationsInv
  BY DEF ActivationsInv, Rests, NoActivation
<1>3. ContextsInv
  BY DEF ContextsInv, ActivationModes
<1> QED BY <1>1, <1>2, <1>3 DEF ActivationInv

\* The plan and the promotion that a release rests on are never replaced.
LEMMA PromotionFixed ==
  ASSUME CeremonyInv, DeploymentNext, promoted.stage = "verified"
  PROVE  UNCHANGED <<plan, promoted>>
<1>1. plan # None
  BY DEF CeremonyInv, PromotedInv, PostflightInv, PreflightInv
<1>2. ChainStep => UNCHANGED <<plan, promoted>>
  BY DEF ChainStep, Tick, StrayBroadcast, StrayMined, Reorganise, Finalise, Deploy, ControllerCall, Interference,
     evidenceVars
<1>3. \A p, dp : BeginPreflight(p) \/ EndPreflight(p) \/ FaultyPreflight(p) \/ EndPostflight(p) \/ FaultyPostflight(p)
                 \/ ObserveManifest(p) \/ BeginPostflight(p, dp) => UNCHANGED <<plan, promoted>>
  BY DEF BeginPreflight, EndPreflight, FaultyPreflight, EndPostflight, FaultyPostflight, ObserveManifest,
     BeginPostflight
<1>4. \A a, dp : RecordPreflight(a) \/ RecordPostflight(a, dp) \/ RecordPromotion(a) \/ ApprovePreflight(a)
                 \/ ApprovePostflight(a) \/ ApprovePromotion(a) => UNCHANGED <<plan, promoted>>
  BY DEF RecordPreflight, RecordPostflight, RecordPromotion, ApprovePreflight, ApprovePostflight, ApprovePromotion
<1>5. (\A in : ~BuildPlan(in)) /\ ~Promote
  BY <1>1 DEF BuildPlan, Promote
<1> QED BY <1>2, <1>3, <1>4, <1>5 DEF DeploymentNext, ChainStep

-------------------------------------------------------------------------------
(* What holds of an authority when it is used. *)

\* A usable funding authority and what its activation rests on.
LEMMA UsableFunding ==
  ASSUME ActivationInv, Usable("funding")
  PROVE  LET a == activations["funding"]  b == CandidateBundle IN
         /\ candidate # NoCandidate /\ candidate.bundle \in DOMAIN Bundles /\ Signed
         /\ CandidateVerified(b, TimeOf(candidate.anchor))
         /\ Rel.validFrom <= now /\ now <= Rel.validUntil
         /\ a.at \in Nat /\ a.at <= now /\ now - a.at <= MaxAge /\ now <= a.validUntil
         /\ Observed(a.block, "funding", a.at)
         /\ a.rec \in Reconciliations /\ RuntimeReconciliation(a.rec) /\ a.validUntil = Min2(Rel.validUntil, a.rec.validUntil)
  BY DEF Usable, AuthorizeFunding, CapabilitiesActive, ActivationInv, ActivationsInv, Rests, CandidateInv, ActivationModes

\* What covers the release's interval is in force whenever the release is.
LEMMA InForce ==
  ASSUME NEW d, NEW b, NEW t, Within(d, b, t), NEW n \in Nat, d.preparedAt \in Nat, d.validUntil \in Nat,
         b.record.validFrom \in Nat, b.record.validUntil \in Nat, b.record.validFrom <= n, n <= b.record.validUntil
  PROVE  CurrentAt(d, n)
<1> DEFINE p == d.preparedAt  u == d.validUntil  f == b.record.validFrom  l == b.record.validUntil
<1>1. p <= f /\ l <= u /\ f <= n /\ n <= l /\ p \in Nat /\ u \in Nat /\ f \in Nat /\ l \in Nat
  BY DEF Within, CoversTime
<1> HIDE DEF p, u, f, l
<1>2. p <= n /\ n <= u
  BY <1>1
<1> QED BY <1>2 DEF CurrentAt, p, u

\* So is what covers a document in force.
LEMMA InForceUnder ==
  ASSUME NEW d, NEW e, Covers(e, d), NEW n \in Nat, CurrentAt(d, n), d.preparedAt \in Nat, d.validUntil \in Nat,
         e.preparedAt \in Nat, e.validUntil \in Nat
  PROVE  CurrentAt(e, n)
<1> DEFINE p == d.preparedAt  u == d.validUntil  f == e.preparedAt  l == e.validUntil
<1>1. f <= p /\ u <= l /\ p <= n /\ n <= u /\ p \in Nat /\ u \in Nat /\ f \in Nat /\ l \in Nat
  BY DEF Covers, CurrentAt
<1> HIDE DEF p, u, f, l
<1>2. f <= n /\ n <= l
  BY <1>1
<1> QED BY <1>2 DEF CurrentAt, f, l

LEMMA FundingCovers ==
  ASSUME ChainInv, CeremonyInv, EvidenceInv, ActivationInv
  PROVE  FundingEvidenceCovers
<1> SUFFICES ASSUME Usable("funding") PROVE FundingEvidenceCovers
  BY DEF FundingEvidenceCovers
<1>1. PICK b, act, t : b = CandidateBundle /\ act = activations["funding"] /\ t = TimeOf(candidate.anchor)
  OBVIOUS
<1>2. /\ b \in {Bundles[name] : name \in DOMAIN Bundles} /\ Signed /\ CandidateVerified(b, t)
      /\ b.record.validFrom <= now /\ now <= b.record.validUntil /\ now <= act.validUntil /\ now \in Nat
      /\ act.rec \in Reconciliations /\ act.rec.unreconciled = 0
      /\ act.validUntil = Min2(b.record.validUntil, act.rec.validUntil)
  BY <1>1, UsableFunding DEF RuntimeReconciliation, CandidateBundle, Rel, ChainInv
<1>3. /\ \A d \in Documents(b) : d.preparedAt \in Nat /\ d.validUntil \in Nat
      /\ b.record.validFrom \in Nat /\ b.record.validUntil \in Nat /\ act.rec.validUntil \in Nat
      /\ \A s \in DOMAIN b.isolation.services : b.isolation.services[s].expiresAt \in Nat
      /\ b.adoption.fees["maxFeeBps"] \in Nat
  BY <1>2, ActivationAssumption
<1>4. now <= act.rec.validUntil
  BY <1>2, <1>3 DEF Min2
<1>5. /\ {b.review, b.qualification, b.operations, b.isolation, b.monitor, b.adoption} \subseteq Documents(b)
      /\ b.mode # "operator-testnet" => b.upstream \in Documents(b)
  BY DEF Documents
<1>6. /\ Within(b.review, b, t) /\ Within(b.qualification, b, t) /\ Within(b.operations, b, t)
      /\ b.mode # "operator-testnet" => Within(b.upstream, b, t)
      /\ Covers(b.isolation, b.operations) /\ Covers(b.monitor, b.operations) /\ Covers(b.adoption, b.operations)
  BY <1>2 DEF CandidateVerified, Qualification, OperationalReadiness, Qualifies, BootstrapQualifies, OperationsVerified,
     OperationsCandidate, ServiceIsolationBinding, SafetyMonitorBinding, AdoptionPolicyBinding
<1>7. /\ CurrentAt(b.review, now) /\ CurrentAt(b.qualification, now) /\ CurrentAt(b.operations, now)
      /\ b.mode # "operator-testnet" => CurrentAt(b.upstream, now)
  BY <1>2, <1>3, <1>5, <1>6, InForce
<1>8. CurrentAt(b.isolation, now) /\ CurrentAt(b.monitor, now) /\ CurrentAt(b.adoption, now)
  BY <1>2, <1>3, <1>5, <1>6, <1>7, InForceUnder
<1>9. \A d \in Documents(b) : CurrentAt(d, now)
  BY <1>7, <1>8 DEF Documents
<1>10. ASSUME NEW s \in DOMAIN b.isolation.services, b.isolation.services[s].classes # {}
       PROVE  now <= b.isolation.services[s].expiresAt
  <2>1. IsolatedService(b.isolation, s)
    BY <1>2 DEF CandidateVerified, IsolationVerified, IsolationRecord
  <2>2. b.isolation.validUntil <= b.isolation.services[s].expiresAt
    BY <1>10, <2>1 DEF IsolatedService
  <2>3. /\ now <= b.isolation.validUntil /\ b.isolation.validUntil \in Nat
        /\ b.isolation.services[s].expiresAt \in Nat
    BY <1>3, <1>5, <1>8 DEF CurrentAt
  <2> QED BY <1>2, <2>2, <2>3
<1>11. (Signers(b.review.people) \cup {b.qualification.policy.reviewer.signer}) \cap
         (Wallets \cup Approvers(b) \cup Signers(b.operations.people) \cup Signers(Upstream(b).people)) = {}
  <2>1. Signers(b.review.people) \cap
          (Wallets \cup Approvers(b) \cup Signers(b.operations.people) \cup Signers(Upstream(b).people)) = {}
    BY <1>2 DEF CandidateVerified, IndependentReviewers
  <2>2. b.qualification.policy.reviewer.signer \notin
          Wallets \cup Approvers(b) \cup Signers(b.operations.people) \cup Signers(Upstream(b).people)
    BY <1>2 DEF CandidateVerified, Qualification, Signers
  <2> QED BY <2>1, <2>2
<1>12. ASSUME NEW e \in Escrows PROVE b.adoption.fees["maxFeeBps"] <= plan.risk[e].maxFeeBps
  <2> DEFINE v == plan.risk["vault"].maxFeeBps  u == plan.risk["userEscrow"].maxFeeBps  fee == b.adoption.fees["maxFeeBps"]
  <2>1. plan \in PlanInputs
    BY <1>2 DEF CandidateVerified, CeremonyInv, PromotedInv, PostflightInv, PreflightInv, PlanInv
  <2>2. v \in Nat /\ u \in Nat /\ fee \in Nat
    BY <1>3, <2>1, DeploymentAssumption DEF Escrows
  <2>3. fee <= Min2(v, u)
    BY <1>2 DEF CandidateVerified, Adoption
  <2> HIDE DEF v, u, fee
  <2>4. fee <= v /\ fee <= u
    BY <2>2, <2>3 DEF Min2
  <2> QED BY <2>4 DEF v, u, fee, Escrows
<1>13. ASSUME b.mode = "operator-testnet"
       PROVE  /\ campaign.reconciliation.unreconciled = 0
              /\ \A a \in OfRole(campaign.people, "solver") : \E m \in campaign.metrics :
                   m.operator = a.id /\ m.selected = m.completed + m.timedOut + m.failed + m.abandoned
  <2>1. campaign.stage = "record" /\ CampaignRecord(campaign)
    BY <1>2, <1>13 DEF CandidateVerified, Qualifies, CampaignQualifies, CampaignVerified
  <2>2. campaign.reconciliation.unreconciled = 0 /\ \A m \in campaign.metrics : CampaignMetric(m, campaign.people, campaign.policy)
    BY <2>1 DEF CampaignRecord
  <2>3. \A m \in campaign.metrics : m.selected = m.completed + m.timedOut + m.failed + m.abandoned
    BY <2>2 DEF CampaignMetric
  <2> QED BY <2>1, <2>2, <2>3 DEF EvidenceInv, CampaignInv
<1>14. (\A r \in ReleaseRoles : approvals[r].signed) /\ Rel = b.record
  BY <1>1, <1>2 DEF Signed, Rel
<1> QED BY <1>1, <1>2, <1>4, <1>9, <1>10, <1>11, <1>12, <1>13, <1>14 DEF FundingEvidenceCovers

LEMMA ObservationHolds ==
  ASSUME ChainInv, ActivationInv
  PROVE  ActivationObserved
<1>1. candidate # NoCandidate => MaxAge \in Nat
  BY ActivationAssumption DEF ActivationInv, CandidateInv, MaxAge, CandidateBundle
<1>2. \A c : c \in Seq(Block) /\ Len(c) >= 1 => TimeOf(c) \in Nat
  BY DEF TimeOf, Block
<1>3. FundingGateObserved
  <2> SUFFICES ASSUME Usable("funding") PROVE FundingGateObserved
    BY DEF FundingGateObserved
  <2>1. PICK c, at : c = activations["funding"].block /\ at = activations["funding"].at
    OBVIOUS
  <2>2. /\ candidate # NoCandidate /\ at \in Nat /\ at <= now /\ now - at <= MaxAge /\ Observed(c, "funding", at)
        /\ MaxAge \in Nat /\ now \in Nat
    BY <1>1, <2>1, UsableFunding DEF ChainInv
  <2>3. TimeOf(c) \in Nat /\ TimeOf(c) <= at /\ at - TimeOf(c) <= MaxAge
    BY <1>2, <2>2 DEF Observed, RuntimeObservation, RuntimeHead
  <2>4. now - TimeOf(c) <= 2 * MaxAge
    <3> DEFINE t == TimeOf(c)  m == MaxAge
    <3>1. at \in Nat /\ now \in Nat /\ now - at <= m /\ m \in Nat /\ t \in Nat /\ at - t <= m
      BY <2>2, <2>3
    <3> HIDE DEF t, m
    <3>2. now - t <= 2 * m
      BY <3>1
    <3> QED BY <3>2 DEF t, m
  <2>5. /\ IsPrefix(candidate.anchor, c) /\ GateAcceptable(c, "funding", at) /\ StateAt(c).owners = Manifest.owners
        /\ ~StateAt(c).paused /\ ~Happened(c, "upgrade") /\ ~Happened(c, "donate") /\ StateAt(c).sealed
        /\ Deposited(c) - Locked(c) >= Rel.limits.minBitReserveWei
    BY <2>2 DEF Observed, RuntimeObservation, BalancesReconcile, InventoryAcceptable
  <2> QED BY <2>1, <2>4, <2>5 DEF FundingGateObserved, GateAcceptable
<1>4. RecoveryObserved
  <2> SUFFICES ASSUME Usable("recovery") PROVE RecoveryObserved
    BY DEF RecoveryObserved
  <2>1. PICK c, at : c = activations["recovery"].block /\ at = activations["recovery"].at
    OBVIOUS
  <2>2. /\ candidate # NoCandidate /\ Signed /\ Observed(c, "recovery", at) /\ now <= TimeOf(c) + MaxAge
        /\ contexts["recovery"].evmClaims => ~StateAt(c).paused
    BY <2>1 DEF Usable, RecoveryLive, ActivationInv, ActivationsInv, Rests, ContextsInv, ActivationModes
  <2>3. TimeOf(c) \in Nat /\ MaxAge \in Nat /\ now \in Nat
    BY <1>1, <1>2, <2>2 DEF Observed, ChainInv
  <2>4. now - TimeOf(c) <= MaxAge
    BY <2>2, <2>3
  <2>5. /\ IsPrefix(candidate.anchor, c) /\ (GateOpen(c) => LastOpening(c).risk = Rel.id)
        /\ StateAt(c).owners = Manifest.owners /\ ~Happened(c, "donate")
    BY <2>2 DEF Observed, RuntimeObservation, GateAcceptable, BalancesReconcile
  <2> QED BY <2>1, <2>2, <2>4, <2>5 DEF RecoveryObserved, Signed
<1> QED BY <1>3, <1>4 DEF ActivationObserved

-------------------------------------------------------------------------------
(* Custody: what was checked of a package, a readiness, a job set and a drill when it was made.   *)

\* An inspected package covers exactly its backup, of this release, with an authority for each policy.
CustodiesInv ==
  \A c \in custodies :
    /\ c.package \in DOMAIN Packages /\ WitnessPolicy(PackageOf(c).witness)
    /\ CoversLiabilities(PackageOf(c), c.backup)
    /\ \A r \in DOMAIN PackageOf(c).releases :
         RetainedPolicies(PackageOf(c), r) /\ candidate # NoCandidate /\ r = Rel.id

ReadinessInv ==
  \A r \in readiness :
    r.custody \in custodies /\ r.release \in DOMAIN PackageOf(r.custody).releases /\ r.store \in Restored

\* A job set keeps what the store owed, which is what the backup of some inspected package owes.
JobSetsInv ==
  /\ \E S : jobSets \in Seq(S)
  /\ \A i \in DOMAIN jobSets :
       /\ {"store", "release", "jobs", "preparedAt", "liabilities", "consumed"} \subseteq DOMAIN jobSets[i]
       /\ jobSets[i].store \in Restored /\ Cardinality(jobSets[i].jobs) <= MaxJobs
       /\ \E c \in custodies : /\ jobSets[i].liabilities = Liabilities(c.backup)
                               /\ jobSets[i].release \in DOMAIN PackageOf(c).releases

DrillsInv ==
  \A e \in drilled :
    /\ e.readiness \in readiness /\ e.drill.recovered > 0
    /\ e.drill.attested \subseteq PackageOf(e.readiness.custody).witness.witnesses
    /\ Cardinality(e.drill.attested) >= PackageOf(e.readiness.custody).witness.minimum

CustodyInv == CustodiesInv /\ ReadinessInv /\ JobSetsInv /\ DrillsInv /\ DOMAIN leases = Restored

LEMMA CustodyStarts == ASSUME NEW live, CustodyInit(live) PROVE CustodyInv
<1>1. jobSets = <<>> /\ <<>> \in Seq({}) /\ DOMAIN jobSets = {}
  BY DEF CustodyInit
<1>2. JobSetsInv
  BY <1>1 DEF JobSetsInv
<1> QED BY <1>2 DEF CustodyInit, CustodyInv, CustodiesInv, ReadinessInv, DrillsInv

\* Whatever another part of the release does, its candidate is not replaced.
LEMMA CustodyStays ==
  ASSUME CustodyInv, UNCHANGED custodyVars, candidate # NoCandidate => UNCHANGED candidate
  PROVE  CustodyInv'
<1> USE DEF custodyVars
<1>1. CustodiesInv'
  BY DEF CustodyInv, CustodiesInv, PackageOf, Rel, CandidateBundle
<1>2. ReadinessInv' /\ JobSetsInv' /\ DrillsInv' /\ DOMAIN leases' = Restored
  BY DEF CustodyInv, ReadinessInv, JobSetsInv, DrillsInv, PackageOf
<1> QED BY <1>1, <1>2 DEF CustodyInv

LEMMA CandidateFixed ==
  ASSUME ActivationNext, candidate # NoCandidate
  PROVE  UNCHANGED candidate
<1>1. ContractStep => UNCHANGED candidate
  BY DEF ContractStep, ExecuteOpening, VaultMoves, Disturbance, activationVars
<1>2. ASSUME NEW name, PrepareCandidate(name) PROVE UNCHANGED candidate
  BY <1>2 DEF PrepareCandidate
<1>3. ASSUME VerifyApprovals \/ FinishActivation \/ TimeOut PROVE UNCHANGED candidate
  BY <1>3 DEF VerifyApprovals, FinishActivation, TimeOut
<1>4. ASSUME NEW r, ApproveRelease(r) PROVE UNCHANGED candidate
  BY <1>4 DEF ApproveRelease
<1>5. ASSUME NEW mode, NEW rec, BeginActivation(mode, rec) PROVE UNCHANGED candidate
  BY <1>5 DEF BeginActivation
<1>6. ASSUME NEW p, ReadHead(p) \/ ReadTarget(p) PROVE UNCHANGED candidate
  BY <1>6 DEF ReadHead, ReadTarget
<1>7. ASSUME NEW mode, NEW cap, NEW dp, CreateContext(mode, cap, dp) \/ Deactivate(mode) PROVE UNCHANGED candidate
  BY <1>7 DEF CreateContext, Deactivate
<1> QED BY <1>1, <1>2, <1>3, <1>4, <1>5, <1>6, <1>7 DEF ActivationNext, ContractStep

\* Custodies and readiness are only added to.
LEMMA CustodyKept ==
  ASSUME CustodyInv, UNCHANGED candidate, custodies \subseteq custodies', readiness \subseteq readiness'
  PROVE  /\ \A c \in custodies :
              /\ c.package \in DOMAIN Packages /\ WitnessPolicy(PackageOf(c).witness)
              /\ CoversLiabilities(PackageOf(c), c.backup)
              /\ \A r \in DOMAIN PackageOf(c).releases :
                   RetainedPolicies(PackageOf(c), r) /\ candidate' # NoCandidate /\ r = Rel'.id
         /\ UNCHANGED readiness => ReadinessInv'
         /\ UNCHANGED jobSets => JobSetsInv'
         /\ UNCHANGED drilled => DrillsInv'
         /\ UNCHANGED custodies => CustodiesInv'
<1>1. Rel' = Rel
  BY DEF Rel, CandidateBundle
<1> QED BY <1>1 DEF CustodyInv, CustodiesInv, ReadinessInv, JobSetsInv, DrillsInv, PackageOf

LEMMA StepInspectCustody ==
  ASSUME CustodyInv, NEW name, InspectCustody(name)
  PROVE  CustodyInv'
<1> DEFINE c == [package |-> name, backup |-> backup]
<1>1. /\ name \in DOMAIN Packages /\ WitnessPolicy(Packages[name].witness) /\ CoversLiabilities(Packages[name], backup)
      /\ \A r \in DOMAIN Packages[name].releases :
           RetainedPolicies(Packages[name], r) /\ candidate # NoCandidate /\ r = Rel.id
      /\ custodies' = custodies \cup {c}
      /\ UNCHANGED <<candidate, readiness, jobSets, leases, drilled>>
  BY DEF InspectCustody, RetainedPackages, RetainedRelease, releaseVars, activationVars
<1>2. c.package = name /\ c.backup = backup /\ PackageOf(c) = Packages[name]
  BY DEF PackageOf
<1> HIDE DEF c
<1>3. Rel' = Rel
  BY <1>1 DEF Rel, CandidateBundle
<1>4. CustodiesInv'
  <2> SUFFICES ASSUME NEW d \in custodies \cup {c}
               PROVE  /\ d.package \in DOMAIN Packages /\ WitnessPolicy(PackageOf(d).witness)
                      /\ CoversLiabilities(PackageOf(d), d.backup)
                      /\ \A r \in DOMAIN PackageOf(d).releases :
                           RetainedPolicies(PackageOf(d), r) /\ candidate' # NoCandidate /\ r = Rel'.id
    BY <1>1 DEF CustodiesInv, PackageOf
  <2>1. CASE d \in custodies
    BY <2>1, <1>1, <1>3 DEF CustodyInv, CustodiesInv
  <2>2. CASE d = c
    BY <2>2, <1>1, <1>2, <1>3
  <2> QED BY <2>1, <2>2
<1>5. custodies \subseteq custodies' /\ readiness \subseteq readiness'
  BY <1>1
<1>6. ReadinessInv' /\ JobSetsInv' /\ DrillsInv'
  BY <1>1, <1>5, CustodyKept
<1> QED BY <1>1, <1>4, <1>6 DEF CustodyInv

LEMMA StepVerifyReadiness ==
  ASSUME CustodyInv, NEW c \in custodies, NEW release \in DOMAIN PackageOf(c).releases, NEW name \in Restored,
         VerifyReadiness(c, release, name)
  PROVE  CustodyInv'
<1>1. UNCHANGED <<candidate, custodies, jobSets, leases, drilled>>
  BY DEF VerifyReadiness, releaseVars, activationVars
<1>2. PICK caps, r :
        /\ r = [custody |-> c, release |-> release, store |-> name, caps |-> caps, at |-> now,
                gateOpen |-> GateOpen(activations["recovery"].block)]
        /\ readiness' = readiness \cup {r}
  BY DEF VerifyReadiness
<1>3. r.custody = c /\ r.release = release /\ r.store = name
  BY <1>2
<1>4. ReadinessInv'
  BY <1>1, <1>2, <1>3 DEF CustodyInv, ReadinessInv, PackageOf
<1>5. CustodiesInv' /\ JobSetsInv' /\ DrillsInv'
  BY <1>1, <1>2, CustodyKept
<1> QED BY <1>1, <1>4, <1>5 DEF CustodyInv

LEMMA StepVerifyDrill ==
  ASSUME CustodyInv, NEW r \in readiness, NEW d, VerifyDrill(r, d)
  PROVE  CustodyInv'
<1>1. PICK e : e = [readiness |-> r, drill |-> d]
  OBVIOUS
<1>2. /\ d.recovered > 0 /\ d.attested \subseteq PackageOf(r.custody).witness.witnesses
      /\ Cardinality(d.attested) >= PackageOf(r.custody).witness.minimum
  BY DEF VerifyDrill, DrillApproval
<1>3. /\ drilled' = drilled \cup {e} /\ e.readiness = r /\ e.drill = d
      /\ UNCHANGED <<candidate, custodies, readiness, jobSets, leases>>
  BY <1>1 DEF VerifyDrill, releaseVars, activationVars
<1>4. DrillsInv'
  BY <1>2, <1>3 DEF CustodyInv, DrillsInv, PackageOf
<1>5. CustodiesInv' /\ ReadinessInv' /\ JobSetsInv'
  BY <1>3, CustodyKept
<1> QED BY <1>3, <1>4, <1>5 DEF CustodyInv

\* A sequence with another element at its end.
LEMMA OneMore ==
  ASSUME NEW S, NEW s \in Seq(S), NEW e
  PROVE  /\ Append(s, e) \in Seq(S \cup {e}) /\ DOMAIN Append(s, e) = DOMAIN s \cup {Len(s) + 1}
         /\ Append(s, e)[Len(s) + 1] = e /\ \A i \in DOMAIN s : Append(s, e)[i] = s[i]
<1>1. s \in Seq(S \cup {e}) /\ DOMAIN s = 1..Len(s) /\ Len(s) \in Nat
  OBVIOUS
<1> QED BY <1>1

LEMMA StepPrepareJobSet ==
  ASSUME CustodyInv, NEW r \in readiness, PrepareJobSet(r)
  PROVE  CustodyInv'
<1>1. PICK j : /\ jobSets' = Append(jobSets, j)
               /\ j = [store |-> r.store, release |-> r.release, jobs |-> OfRelease(stores[r.store], r.release),
                       preparedAt |-> now, liabilities |-> Liabilities(stores[r.store]), consumed |-> FALSE]
               /\ UNCHANGED <<candidate, custodies, readiness, leases, drilled>>
  BY DEF PrepareJobSet, releaseVars, activationVars
<1>2. /\ Liabilities(stores[r.store]) = Liabilities(r.custody.backup)
      /\ Cardinality(OfRelease(stores[r.store], r.release)) \in 1..MaxJobs
  BY DEF PrepareJobSet
<1>3. r.custody \in custodies /\ r.release \in DOMAIN PackageOf(r.custody).releases /\ r.store \in Restored
  BY DEF CustodyInv, ReadinessInv
<1>4. /\ {"store", "release", "jobs", "preparedAt", "liabilities", "consumed"} \subseteq DOMAIN j
      /\ j.store \in Restored /\ Cardinality(j.jobs) <= MaxJobs
      /\ \E c \in custodies : j.liabilities = Liabilities(c.backup) /\ j.release \in DOMAIN PackageOf(c).releases
  BY <1>1, <1>2, <1>3
<1>5. PICK S : jobSets \in Seq(S)
  BY DEF CustodyInv, JobSetsInv
<1>6. /\ jobSets' \in Seq(S \cup {j}) /\ DOMAIN jobSets' = DOMAIN jobSets \cup {Len(jobSets) + 1}
      /\ jobSets'[Len(jobSets) + 1] = j /\ \A i \in DOMAIN jobSets : jobSets'[i] = jobSets[i]
  BY <1>1, <1>5, OneMore
<1>7. JobSetsInv'
  BY <1>1, <1>4, <1>6 DEF CustodyInv, JobSetsInv, PackageOf
<1>8. CustodiesInv' /\ ReadinessInv' /\ DrillsInv'
  BY <1>1, CustodyKept
<1> QED BY <1>1, <1>7, <1>8 DEF CustodyInv

LEMMA StepUseJobSet ==
  ASSUME CustodyInv, NEW i \in DOMAIN jobSets, UseJobSet(i)
  PROVE  CustodyInv'
<1>1. /\ jobSets' = [jobSets EXCEPT ![i].consumed = TRUE]
      /\ leases' = [leases EXCEPT ![jobSets[i].store] = i]
      /\ UNCHANGED <<candidate, custodies, readiness, drilled>>
  BY DEF UseJobSet, releaseVars, activationVars
<1>2. PICK S : jobSets \in Seq(S)
  BY DEF CustodyInv, JobSetsInv
<1>3. PICK j : j = [jobSets[i] EXCEPT !.consumed = TRUE]
  OBVIOUS
<1>4. /\ {"store", "release", "jobs", "preparedAt", "liabilities", "consumed"} \subseteq DOMAIN jobSets[i]
      /\ DOMAIN j = DOMAIN jobSets[i] /\ \A f \in DOMAIN jobSets[i] : f # "consumed" => j[f] = jobSets[i][f]
  BY <1>3 DEF CustodyInv, JobSetsInv
<1>5. jobSets' = [jobSets EXCEPT ![i] = j]
  BY <1>1, <1>3
<1>6. jobSets' \in Seq(S \cup {j})
  <2>1. jobSets \in Seq(S \cup {j})
    BY <1>2
  <2> QED BY <1>5, <2>1
<1>7. DOMAIN jobSets' = DOMAIN jobSets /\ jobSets'[i] = j /\ \A k \in DOMAIN jobSets : k # i => jobSets'[k] = jobSets[k]
  BY <1>5
<1>8. JobSetsInv'
  BY <1>1, <1>4, <1>6, <1>7 DEF CustodyInv, JobSetsInv, PackageOf
<1>9. CustodiesInv' /\ ReadinessInv' /\ DrillsInv'
  BY <1>1, CustodyKept
<1> QED BY <1>1, <1>8, <1>9 DEF CustodyInv

LEMMA CustodyKeeps ==
  ASSUME CustodyInv, CustodyNext
  PROVE  CustodyInv' /\ UNCHANGED releaseVars
<1> USE DEF releaseVars, activationVars
<1>1. CASE UNCHANGED <<releaseVars, custodies, readiness, jobSets, drilled>> /\ DOMAIN leases' = DOMAIN leases
  BY <1>1, CustodyKept DEF CustodyInv
<1>2. ASSUME NEW name, NEW s, SettlementStep(name, s) PROVE CustodyInv' /\ UNCHANGED releaseVars
  BY <1>1, <1>2 DEF SettlementStep
<1>3. ASSUME SealBackup PROVE CustodyInv' /\ UNCHANGED releaseVars
  BY <1>1, <1>3 DEF SealBackup
<1>4. ASSUME NEW name, Restore(name) \/ ReleaseJobSetLease(name) PROVE CustodyInv' /\ UNCHANGED releaseVars
  BY <1>1, <1>4 DEF Restore, ReleaseJobSetLease
<1>5. ASSUME NEW old, NEW new, NEW kind, AssessRotation(old, new, kind) PROVE CustodyInv' /\ UNCHANGED releaseVars
  BY <1>1, <1>5 DEF AssessRotation
<1>6. ASSUME NEW name, InspectCustody(name) PROVE CustodyInv' /\ UNCHANGED releaseVars
  BY <1>6, StepInspectCustody DEF InspectCustody
<1>7. ASSUME NEW c \in custodies, NEW release \in DOMAIN PackageOf(c).releases, NEW name \in Restored,
             VerifyReadiness(c, release, name)
      PROVE  CustodyInv' /\ UNCHANGED releaseVars
  BY <1>7, StepVerifyReadiness DEF VerifyReadiness
<1>8. ASSUME NEW r \in readiness, PrepareJobSet(r) PROVE CustodyInv' /\ UNCHANGED releaseVars
  BY <1>8, StepPrepareJobSet DEF PrepareJobSet
<1>9. ASSUME NEW r \in readiness, NEW d, VerifyDrill(r, d) PROVE CustodyInv' /\ UNCHANGED releaseVars
  BY <1>9, StepVerifyDrill DEF VerifyDrill
<1>10. ASSUME NEW i \in DOMAIN jobSets, UseJobSet(i) PROVE CustodyInv' /\ UNCHANGED releaseVars
  BY <1>10, StepUseJobSet DEF UseJobSet
<1> QED BY <1>2, <1>3, <1>4, <1>5, <1>6, <1>7, <1>8, <1>9, <1>10 DEF CustodyNext

\* A settlement of a covered store is bound, and the package keeps an authority for its policy.
LEMMA AuthorityKept ==
  ASSUME NEW pkg, NEW store, CoversLiabilities(pkg, store), NEW s \in store.rows, s.release \in DOMAIN pkg.releases,
         RetainedPolicies(pkg, s.release)
  PROVE  /\ s.bound
         /\ \E a \in pkg.releases[s.release].authorities : a.direction = s.direction /\ a.policy = s.policy
<1> DEFINE kept == pkg.releases[s.release]
<1>1. s.bound /\ [direction |-> s.direction, policy |-> s.policy] \in ExecutionPolicies(store, s.release)
  BY DEF CoversLiabilities, ExecutionPolicies, OfRelease
<1>2. PICK p \in kept.policies : [direction |-> p.direction, policy |-> p.policy]
                                 = [direction |-> s.direction, policy |-> s.policy]
  BY <1>1 DEF CoversLiabilities
<1>3. p.direction = s.direction /\ p.policy = s.policy
  BY <1>2
<1>4. [direction |-> p.direction, policy |-> p.policy, solver |-> p.solver] \in
        {[direction |-> a.direction, policy |-> a.policy, solver |-> a.solver] : a \in kept.authorities}
  BY DEF RetainedPolicies
<1>5. PICK a \in kept.authorities : [direction |-> a.direction, policy |-> a.policy, solver |-> a.solver]
                                    = [direction |-> p.direction, policy |-> p.policy, solver |-> p.solver]
  BY <1>4
<1>6. a.direction = p.direction /\ a.policy = p.policy
  BY <1>5
<1> QED BY <1>1, <1>3, <1>6

LEMMA SameRows == ASSUME NEW s, NEW t, Liabilities(s) = Liabilities(t) PROVE s.rows = t.rows /\ s.offers = t.offers
  BY DEF Liabilities

\* What UseJobSet finds in the store is what the job set was prepared on.
LEMMA JobsExact ==
  ASSUME CustodyInv, NEW i \in DOMAIN jobSets, UseJobSet(i), NEW name \in Restored, leases'[name] # leases[name]
  PROVE  leases'[name] = i /\ StartsExact(name, i)
<1>1. PICK j : j = jobSets[i]
  OBVIOUS
<1>2. /\ leases' = [leases EXCEPT ![j.store] = i] /\ j.store \in Restored /\ DOMAIN leases = Restored
      /\ Liabilities(stores[j.store]) = j.liabilities /\ OfRelease(stores[j.store], j.release) = j.jobs
      /\ ~j.consumed /\ leases[j.store] = 0 /\ Cardinality(j.jobs) <= MaxJobs
  BY <1>1 DEF UseJobSet, CustodyInv, JobSetsInv
<1>3. name = j.store /\ leases'[name] = i
  BY <1>2
<1>4. PICK c \in custodies : j.liabilities = Liabilities(c.backup) /\ j.release \in DOMAIN PackageOf(c).releases
  BY <1>1 DEF CustodyInv, JobSetsInv
<1>5. c.backup.rows = stores[name].rows
  BY <1>2, <1>3, <1>4, SameRows
<1>6. j.jobs = {s \in stores[name].rows : s.release = j.release}
  BY <1>2, <1>3 DEF OfRelease
<1>7. CoversLiabilities(PackageOf(c), c.backup) /\ RetainedPolicies(PackageOf(c), j.release)
  BY <1>4 DEF CustodyInv, CustodiesInv
<1>8. \A s \in c.backup.rows : s.release = j.release =>
        s.bound /\ \E a \in PackageOf(c).releases[j.release].authorities : a.direction = s.direction /\ a.policy = s.policy
  BY <1>4, <1>7, AuthorityKept
<1>9. \A s \in j.jobs :
        s.bound /\ \E a \in PackageOf(c).releases[j.release].authorities : a.direction = s.direction /\ a.policy = s.policy
  BY <1>5, <1>6, <1>8
<1> QED BY <1>1, <1>2, <1>3, <1>5, <1>6, <1>9 DEF StartsExact

\* As many organizations attested a drill as people did, and that is at least two.
LEMMA TwoOrganizations ==
  ASSUME CustodyInv, NEW e \in drilled
  PROVE  Cardinality({w.org : w \in e.drill.attested}) >= 2
<1> DEFINE p == PackageOf(e.readiness.custody).witness  people == e.drill.attested
           org == [w \in people |-> w.org]
           orgs == {w.org : w \in people}
<1>1. e.readiness.custody \in custodies
  BY DEF CustodyInv, DrillsInv, ReadinessInv
<1>2. WitnessPolicy(p) /\ IsFiniteSet(p.witnesses)
  BY <1>1, CustodyAssumption DEF CustodyInv, CustodiesInv, PackageOf
<1>3. people \subseteq p.witnesses /\ Cardinality(people) >= p.minimum
  BY DEF CustodyInv, DrillsInv
<1>4. /\ p.minimum \in 2..Cardinality(p.witnesses) /\ IsFiniteSet(people) /\ Cardinality(people) \in Nat
      /\ \A a, b \in people : a # b => a.org # b.org
  BY <1>2, <1>3, FS_Subset, FS_CardinalityType DEF WitnessPolicy
<1>5. org \in Injection(people, orgs) /\ org \in Surjection(people, orgs)
  BY <1>4 DEF Injection, IsInjective, Surjection
<1> HIDE DEF org, orgs, people, p
<1>6. Cardinality(orgs) = Cardinality(people)
  BY <1>4, <1>5, FS_Surjection
<1>7. Cardinality(people) >= 2
  BY <1>3, <1>4
<1>8. Cardinality(orgs) >= 2
  BY <1>6, <1>7
<1> QED BY <1>8 DEF orgs, people

\* What AssessRotation finds in the live store is what both packages cover and both drills recovered.
LEMMA RotationExact ==
  ASSUME CustodyInv, NEW o \in custodies, NEW n \in custodies, NEW kind, AssessRotation(o, n, kind)
  PROVE  StrandsNothing(stores["live"], o, n, kind)
<1> DEFINE live == stores["live"]  old == PackageOf(o)  new == PackageOf(n)
<1>1. Liabilities(live) = Liabilities(o.backup) /\ live.offers = 0 /\ \A s \in live.rows : s.bound
  BY DEF AssessRotation
<1>2. o.backup.rows = live.rows
  BY <1>1, SameRows
<1>3. /\ CoversLiabilities(old, o.backup) /\ CoversLiabilities(new, n.backup)
      /\ \A r \in DOMAIN old.releases : r = Rel.id
      /\ \A r \in DOMAIN new.releases : RetainedPolicies(new, r)
  BY DEF CustodyInv, CustodiesInv
<1>4. CASE live.rows = {}
  BY <1>4, <1>1 DEF StrandsNothing
<1> SUFFICES ASSUME live.rows # {} PROVE StrandsNothing(stores["live"], o, n, kind)
  BY <1>4
<1>5. /\ Liabilities(n.backup) = Liabilities(o.backup) /\ DOMAIN new.releases = DOMAIN old.releases
      /\ kind \notin FrozenKinds /\ ChangedMaterial(old, new, kind)
      /\ \A r \in DOMAIN old.releases : DrillPair(o, n, r)
  BY <1>2 DEF AssessRotation
<1>6. n.backup.rows = live.rows
  BY <1>2, <1>5, SameRows
<1>7. Releases(live) = DOMAIN old.releases /\ \A s \in live.rows : s.release \in DOMAIN new.releases
  <2>1. Releases(live) = Releases(o.backup)
    BY <1>2 DEF Releases
  <2>2. \A s \in live.rows : s.release \in Releases(live)
    BY <1>1 DEF Releases
  <2> QED BY <1>3, <1>5, <2>1, <2>2 DEF CoversLiabilities
<1>8. ASSUME NEW r \in Releases(live)
      PROVE  \E a, b \in drilled :
               /\ a.readiness.custody = o /\ b.readiness.custody = n
               /\ \A e \in {a, b} :
                    /\ e.readiness.release = r /\ e.readiness.custody.backup.rows = live.rows
                    /\ ~e.readiness.gateOpen /\ e.drill.recovered > 0
                    /\ now - e.drill.finishedAt <= PackageOf(e.readiness.custody).witness.maxAge
                    /\ Cardinality({w.org : w \in e.drill.attested}) >= 2
               /\ \E f \in DOMAIN old.releases[r] : old.releases[r][f] # new.releases[r][f]
  <2>1. PICK a \in drilled, b \in drilled :
          /\ a.readiness.release = r /\ b.readiness.release = r
          /\ a.readiness.custody = o /\ b.readiness.custody = n
          /\ ~a.readiness.gateOpen /\ ~b.readiness.gateOpen
          /\ now - a.drill.finishedAt <= PackageOf(o).witness.maxAge /\ now - b.drill.finishedAt <= PackageOf(n).witness.maxAge
    BY <1>5, <1>7 DEF DrillPair
  <2>2. \A e \in {a, b} : e.drill.recovered > 0 /\ Cardinality({w.org : w \in e.drill.attested}) >= 2
    BY TwoOrganizations DEF CustodyInv, DrillsInv
  <2>3. PICK q \in DOMAIN old.releases :
          CASE kind = "provider" -> old.releases[q].providers # new.releases[q].providers
            [] kind = "service-runtime" -> old.releases[q].archive # new.releases[q].archive
            [] kind = "solver-key" -> old.releases[q].authorities # new.releases[q].authorities
            [] OTHER -> FALSE
    BY <1>5 DEF ChangedMaterial
  <2>4. q = r
    BY <1>3, <1>7
  <2>5. {"providers", "archive", "authorities"} \subseteq DOMAIN old.releases[r]
    BY <1>7, CustodyAssumption DEF CustodyInv, CustodiesInv, PackageOf
  <2>6. \E f \in DOMAIN old.releases[r] : old.releases[r][f] # new.releases[r][f]
    BY <2>3, <2>4, <2>5
  <2>7. ASSUME NEW e \in {a, b}
        PROVE  /\ e.readiness.release = r /\ e.readiness.custody.backup.rows = live.rows
               /\ ~e.readiness.gateOpen /\ e.drill.recovered > 0
               /\ now - e.drill.finishedAt <= PackageOf(e.readiness.custody).witness.maxAge
               /\ Cardinality({w.org : w \in e.drill.attested}) >= 2
    <3>1. CASE e = a
      BY <3>1, <1>2, <2>1, <2>2
    <3>2. CASE e = b
      BY <3>2, <1>6, <2>1, <2>2
    <3> QED BY <3>1, <3>2
  <2> WITNESS a \in drilled, b \in drilled
  <2> QED BY <2>1, <2>6, <2>7
<1>9. ASSUME NEW s \in live.rows
       PROVE  \E p \in new.releases[s.release].authorities : p.direction = s.direction /\ p.policy = s.policy
  BY <1>3, <1>6, <1>7, AuthorityKept
<1> QED BY <1>1, <1>5, <1>8, <1>9 DEF StrandsNothing

-------------------------------------------------------------------------------
(* The release. *)

ReleaseInv == ChainInv /\ CeremonyInv /\ EvidenceInv /\ ActivationInv /\ CustodyInv

LEMMA ReleaseStarts == ReleaseInit => ReleaseInv
  BY CeremonyStarts, EvidenceStarts, ActivationStarts, CustodyStarts DEF ReleaseInit, ReleaseInv

LEMMA ChainKept == ASSUME ChainInv, ChainMoves PROVE ChainInv'
  BY DEF ChainInv, ChainMoves

LEMMA ReleaseKeeps == ReleaseInv /\ [ReleaseNext]_allReleaseVars => ReleaseInv'
<1> SUFFICES ASSUME ReleaseInv, [ReleaseNext]_allReleaseVars PROVE ReleaseInv'
  OBVIOUS
<1> USE DEF ReleaseInv
<1>1. CASE CeremonyStep
  <2>1. ChainMoves /\ CeremonyInv'
    BY <1>1, DeploymentKeeps DEF CeremonyStep
  <2>2. UNCHANGED <<evidenceFiles, activationVars, custodyVars>>
    BY <1>1 DEF CeremonyStep
  <2>3. EvidenceInv'
    BY <2>2 DEF EvidenceInv, WorkspacesInv, CampaignInv, evidenceFiles
  <2>4. EvidenceFixed
    BY <1>1, <2>2, PromotionFixed DEF CeremonyStep, EvidenceFixed, evidenceFiles
  <2>5. ActivationInv' /\ CustodyInv'
    BY <2>1, <2>2, <2>4, ActivationStays, CustodyStays DEF activationVars
  <2> QED BY <2>1, <2>3, <2>5, ChainKept
<1>2. CASE CampaignStep
  <2>1. /\ EvidenceInv' /\ UNCHANGED <<deploymentVars, activationVars, custodyVars>>
        /\ campaign.stage = "record" => UNCHANGED campaign
    BY <1>2, CampaignKeeps DEF CampaignStep
  <2>2. ChainMoves /\ UNCHANGED ceremonyVars /\ EvidenceFixed
    BY <2>1, Unmoved DEF deploymentVars, ceremonyVars, EvidenceFixed
  <2>3. CeremonyInv' /\ ActivationInv' /\ CustodyInv'
    BY <2>1, <2>2, CeremonyStays, ActivationStays, CustodyStays DEF activationVars
  <2> QED BY <2>1, <2>2, <2>3, ChainKept
<1>3. CASE ActivationStep
  <2>1. ChainMoves /\ CeremonyInv' /\ ActivationInv' /\ UNCHANGED <<evidenceFiles, custodyVars>>
    BY <1>3, ActivationKeeps DEF ActivationStep
  <2>2. EvidenceInv'
    BY <2>1 DEF EvidenceInv, WorkspacesInv, CampaignInv, evidenceFiles
  <2>3. CustodyInv'
    BY <1>3, <2>1, CandidateFixed, CustodyStays DEF ActivationStep
  <2> QED BY <2>1, <2>2, <2>3, ChainKept
<1>4. CASE UNCHANGED releaseVars /\ CustodyInv'
  <2>1. /\ ChainMoves /\ UNCHANGED <<ceremonyVars, evidenceFiles, activationVars>>
    BY <1>4, Unmoved DEF releaseVars, deploymentVars, ceremonyVars
  <2>2. EvidenceInv' /\ EvidenceFixed
    BY <2>1 DEF EvidenceInv, WorkspacesInv, CampaignInv, evidenceFiles, EvidenceFixed, ceremonyVars
  <2> QED BY <1>4, <2>1, <2>2, ChainKept, CeremonyStays, ActivationStays
<1>5. CASE CustodyNext
  BY <1>4, <1>5, CustodyKeeps
<1>6. CASE UNCHANGED allReleaseVars
  <2>1. UNCHANGED releaseVars /\ CustodyInv'
    BY <1>6, CustodyStays DEF allReleaseVars, releaseVars, activationVars
  <2> QED BY <1>4, <2>1
<1> QED BY <1>1, <1>2, <1>3, <1>5, <1>6 DEF ReleaseNext

(* From the plan to the rotation, every document keeps what its validator demanded when it was    *)
(* made, the blocks they rest on stay final, and what a process holds of them stays true of them. *)
THEOREM ReleaseInvariant == ReleaseSpec => []ReleaseInv
<1>1. ReleaseInit => ReleaseInv
  BY ReleaseStarts
<1>2. ReleaseInv /\ [ReleaseNext]_allReleaseVars => ReleaseInv'
  BY ReleaseKeeps
<1> QED BY <1>1, <1>2, PTL DEF ReleaseSpec

(* verifyDeploymentManifestPromotion only succeeds for what is on the chain: whatever a faulty    *)
(* provider reports, and however the chain is reorganised, a verified promotion is of a final     *)
(* block in which exactly the plan was executed inside the preflight's window.                    *)
THEOREM ReleasePromotedIsDeployed == ReleaseSpec => []PromotedIsDeployed
<1>1. ReleaseInv => PromotedIsDeployed
  BY PromotedHolds DEF ReleaseInv
<1> QED BY <1>1, ReleaseInvariant, PTL

(* While a context passes verifiedActiveSolverDaemonContext, every document the release rests on  *)
(* is still in force and nobody who reviewed the release has a part in it.                        *)
THEOREM ReleaseFundingCovers == ReleaseSpec => []FundingEvidenceCovers
<1>1. ReleaseInv => FundingEvidenceCovers
  BY FundingCovers DEF ReleaseInv
<1> QED BY <1>1, ReleaseInvariant, PTL

(* A funding or recovery context that passes its check relies on a gate, owners, token and        *)
(* balances that were observed, recently, in one block over the approved one.                     *)
THEOREM ReleaseActivationObserved == ReleaseSpec => []ActivationObserved
<1>1. ReleaseInv => ActivationObserved
  BY ObservationHolds DEF ReleaseInv
<1> QED BY <1>1, ReleaseInvariant, PTL

(* verifiedRetainedReleaseRecoveryJobs starts an action loop on exactly what its restored store   *)
(* owes, once, alone, and as a sealed backup had it, each job with an authority for its policy.   *)
THEOREM ReleaseJobsStartExact == ReleaseSpec => JobsStartExact
<1> DEFINE exact == \A name \in Restored :
                      (leases'[name] # leases[name] /\ leases'[name] # 0) => StartsExact(name, leases'[name])
<1>1. ReleaseInv /\ [ReleaseNext]_allReleaseVars => [exact]_leases
  <2> SUFFICES ASSUME ReleaseInv, [ReleaseNext]_allReleaseVars, leases' # leases PROVE exact
    OBVIOUS
  <2>1. CustodyNext
    BY DEF ReleaseNext, CeremonyStep, CampaignStep, ActivationStep, custodyVars, allReleaseVars
  <2>2. ASSUME NEW i \in DOMAIN jobSets, UseJobSet(i) PROVE exact
    BY <2>2, JobsExact DEF ReleaseInv
  <2>3. ASSUME NEW name \in Restored, ReleaseJobSetLease(name) PROVE exact
    BY <2>3 DEF ReleaseJobSetLease, ReleaseInv, CustodyInv
  <2> QED BY <2>1, <2>2, <2>3 DEF CustodyNext, SettlementStep, SealBackup, Restore, InspectCustody, VerifyReadiness,
             PrepareJobSet, VerifyDrill, AssessRotation
<1> QED BY <1>1, ReleaseInvariant, PTL DEF ReleaseSpec, JobsStartExact

(* assessRetainedReleaseRotation permits no rotation that leaves an open settlement of the live   *)
(* store to an operating set which has not shown, in a drill, that it recovers it.                *)
THEOREM ReleaseRotationStrandsNothing == ReleaseSpec => RotationStrandsNothing
<1> DEFINE strandless == StrandsNothing(stores["live"], rotation'.old, rotation'.new, rotation'.kind)
<1>1. ReleaseInv /\ [ReleaseNext]_allReleaseVars => [rotation' # rotation => strandless]_rotation
  <2> SUFFICES ASSUME ReleaseInv, [ReleaseNext]_allReleaseVars, rotation' # rotation PROVE strandless
    OBVIOUS
  <2>1. CustodyNext
    BY DEF ReleaseNext, CeremonyStep, CampaignStep, ActivationStep, custodyVars, allReleaseVars
  <2>2. ASSUME NEW o \in custodies, NEW n \in custodies, NEW kind, AssessRotation(o, n, kind) PROVE strandless
    <3>1. rotation'.old = o /\ rotation'.new = n /\ rotation'.kind = kind
      BY <2>2 DEF AssessRotation
    <3>2. StrandsNothing(stores["live"], o, n, kind)
      BY <2>2, RotationExact DEF ReleaseInv
    <3> QED BY <3>1, <3>2
  <2> QED BY <2>1, <2>2 DEF CustodyNext, SettlementStep, SealBackup, Restore, InspectCustody, VerifyReadiness,
             PrepareJobSet, VerifyDrill, UseJobSet, ReleaseJobSetLease
<1> QED BY <1>1, ReleaseInvariant, PTL DEF ReleaseSpec, RotationStrandsNothing

===============================================================================
