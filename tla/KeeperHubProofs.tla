--------------------------- MODULE KeeperHubProofs ---------------------------
(***************************************************************************)
(* Proofs about AdversaContracts and KeeperHub, for any wallets, grants,   *)
(* hashes, roles, calls and requests, and any number of transactions,      *)
(* tokens and events.                                                      *)
(*                                                                         *)
(* The invariants of the contracts are proved of ContractSpec, the chain   *)
(* by itself, and carried over to Spec by a step of its own: whatever the  *)
(* client, the service and the script do, the chain sees transactions.     *)
(***************************************************************************)
EXTENDS KeeperHub, TLAPS

(***************************************************************************)
(* What a transaction may write.                                           *)
(***************************************************************************)

(* One that changes who may do what leaves the books alone.                *)
LEMMA AccessWrites ==
  ASSUME NEW s, AccessStep(s)
  PROVE  UNCHANGED <<registryVars, reputationVars, tokenVars>>
BY DEF AccessStep, ApproveCaller, RevokeCaller, TransferOwnership, TransferINFTOwnership,
       SetReputationContract

(* One on reputations gives an agent a record, and enrols it if it is new. *)
LEMMA ReputationWrites ==
  ASSUME NEW s, ReputationStep(s)
  PROVE  /\ UNCHANGED <<accessVars, registryVars, tokenVars>> /\ sender' = s
         /\ \E a \in Wallet :
              /\ registeredAgents' = EnrolledAgents(a)
              /\ \/ agentStats' = [agentStats EXCEPT ![a] = Known(a)]
                 \/ \E b \in BOOLEAN : agentStats' = [agentStats EXCEPT ![a] = AfterReview(Known(a), b)]
                 \/ \E b \in BOOLEAN : agentStats' = [agentStats EXCEPT ![a] = AfterExploit(Known(a), b)]
BY DEF ReputationStep, RegisterAgent, UpdateReputation, RecordExploit

(* One on tokens leaves registry and reputations alone.                    *)
LEMMA TokenWrites ==
  ASSUME NEW s, TokenStep(s)
  PROVE  UNCHANGED <<accessVars, registryVars, reputationVars>> /\ sender' = s
BY DEF TokenStep, MintAgent, EvolveAgent, SyncReputation, SetActive, TransferToken

(* Any step of the contracts.                                              *)
LEMMA StepCases ==
  ASSUME [ContractNext]_contractVars
  PROVE  \/ UNCHANGED contractVars
         \/ \E s \in Wallet : AccessStep(s)
         \/ \E s \in Wallet, h \in Hash, v \in {"approved", "rejected"} : RecordReview(s, h, v)
         \/ \E s \in Wallet : ReputationStep(s)
         \/ \E s \in Wallet : TokenStep(s)
BY DEF ContractNext, Transact

(***************************************************************************)
(* Types.                                                                  *)
(***************************************************************************)
AccessType ==
  /\ owner \in [Contract -> Address \cup {Zero}]
  /\ approved \in [Guarded -> SUBSET Address]
  /\ reputationContract \in Address /\ sender \in Wallet

RegistryType == reviews \in [Hash -> Verdict] /\ allPRHashes \in Seq(Hash)

ReputationType == agentStats \in [Wallet -> Stats] /\ registeredAgents \in Seq(Wallet)

TokenType ==
  /\ agentMetadata \in Seq(Metadata) /\ holder \in Seq(Wallet)
  /\ Len(holder) = Len(agentMetadata)
  /\ roleToTokenId \in [Role -> Nat] /\ ownerTokens \in [Wallet -> Seq(Nat)]

LEMMA TypeParts == ContractTypeOK <=> AccessType /\ RegistryType /\ ReputationType /\ TokenType
BY DEF ContractTypeOK, AccessType, RegistryType, ReputationType, TokenType

LEMMA AccessTyped ==
  ASSUME AccessType, [ContractNext]_contractVars
  PROVE  AccessType'
<1>0. Deployer \in Wallet /\ Grantee \subseteq Address
  BY AddressAssumption DEF Address
<1>1. CASE UNCHANGED contractVars
  BY <1>1 DEF contractVars, accessVars, AccessType
<1>2. ASSUME NEW s \in Wallet, AccessStep(s) PROVE AccessType'
  <2>1. ASSUME NEW c \in Guarded, NEW a \in Grantee, ApproveCaller(s, c, a) PROVE AccessType'
    BY <2>1, <1>0 DEF ApproveCaller, AccessType
  <2>2. ASSUME NEW a \in Grantee, RevokeCaller(s, a) PROVE AccessType'
    BY <2>2, <1>0 DEF RevokeCaller, AccessType, Guarded
  <2>3. ASSUME NEW a \in Grantee, TransferOwnership(s, a) PROVE AccessType'
    BY <2>3, <1>0 DEF TransferOwnership, AccessType, Contract
  <2>4. ASSUME NEW a \in Grantee \cup {Zero}, TransferINFTOwnership(s, a) PROVE AccessType'
    BY <2>4, <1>0 DEF TransferINFTOwnership, AccessType, Contract
  <2>5. ASSUME NEW a \in Grantee, SetReputationContract(s, a) PROVE AccessType'
    BY <2>5, <1>0 DEF SetReputationContract, AccessType
  <2>. QED  BY <1>2, <2>1, <2>2, <2>3, <2>4, <2>5 DEF AccessStep
<1>3. ASSUME NEW s \in Wallet, NEW h \in Hash, NEW v \in {"approved", "rejected"}, RecordReview(s, h, v)
      PROVE  AccessType'
  BY <1>3 DEF RecordReview, accessVars, AccessType
<1>4. ASSUME NEW s \in Wallet, ReputationStep(s) \/ TokenStep(s) PROVE AccessType'
  <2>1. UNCHANGED accessVars /\ sender' = s
    BY <1>4, ReputationWrites, TokenWrites
  <2>. QED  BY <2>1 DEF accessVars, AccessType
<1>. QED  BY <1>1, <1>2, <1>3, <1>4, StepCases

LEMMA RegistryTyped ==
  ASSUME RegistryType, [ContractNext]_contractVars
  PROVE  RegistryType'
<1>1. ASSUME NEW s \in Wallet, NEW h \in Hash, NEW v \in {"approved", "rejected"}, RecordReview(s, h, v)
      PROVE  RegistryType'
  BY <1>1 DEF RecordReview, RegistryType, Verdict
<1>2. CASE UNCHANGED registryVars
  BY <1>2 DEF registryVars, RegistryType
<1>. QED  BY <1>1, <1>2, StepCases, AccessWrites, ReputationWrites, TokenWrites DEF contractVars

(***************************************************************************)
(* The registry.                                                           *)
(***************************************************************************)
LEMMA IndexStep ==
  ASSUME RegistryType, IndexIsExact, [ContractNext]_contractVars
  PROVE  IndexIsExact'
<1>1. ASSUME NEW s \in Wallet, NEW h \in Hash, NEW v \in {"approved", "rejected"}, RecordReview(s, h, v)
      PROVE  IndexIsExact'
  <2>1. /\ reviews[h] = "none" /\ reviews' = [reviews EXCEPT ![h] = v]
        /\ allPRHashes' = Append(allPRHashes, h) /\ allPRHashes \in Seq(Hash)
        /\ reviews \in [Hash -> Verdict] /\ v # "none"
    BY <1>1 DEF RecordReview, MayRecord, RegistryType
  <2>2. /\ DOMAIN allPRHashes' = 1 .. (Len(allPRHashes) + 1) /\ DOMAIN allPRHashes = 1 .. Len(allPRHashes)
        /\ \A i \in DOMAIN allPRHashes : allPRHashes'[i] = allPRHashes[i]
        /\ allPRHashes'[Len(allPRHashes) + 1] = h /\ Len(allPRHashes) \in Nat
    BY <2>1
  <2>3. \A i \in DOMAIN allPRHashes : allPRHashes[i] # h
    BY <2>1 DEF IndexIsExact
  <2>4. ASSUME NEW g \in Hash
        PROVE  reviews'[g] # "none" <=> \E i \in DOMAIN allPRHashes' : allPRHashes'[i] = g
    <3>1. CASE g = h
      BY <3>1, <2>1, <2>2
    <3>2. CASE g # h
      <4>1. reviews'[g] = reviews[g]
        BY <3>2, <2>1
      <4>2. (\E i \in DOMAIN allPRHashes' : allPRHashes'[i] = g) <=> (\E i \in DOMAIN allPRHashes : allPRHashes[i] = g)
        BY <3>2, <2>2
      <4>. QED  BY <4>1, <4>2 DEF IndexIsExact
    <3>. QED  BY <3>1, <3>2
  <2>5. \A i, j \in DOMAIN allPRHashes' : allPRHashes'[i] = allPRHashes'[j] => i = j
    BY <2>2, <2>3 DEF IndexIsExact
  <2>. QED  BY <2>4, <2>5 DEF IndexIsExact
<1>2. CASE UNCHANGED registryVars
  BY <1>2 DEF registryVars, IndexIsExact
<1>. QED  BY <1>1, <1>2, StepCases, AccessWrites, ReputationWrites, TokenWrites DEF contractVars

LEMMA RecordsStep ==
  ASSUME RegistryType, [ContractNext]_contractVars
  PROVE  \A h \in Hash : reviews[h] # "none" => reviews'[h] = reviews[h]
<1>1. ASSUME NEW s \in Wallet, NEW h \in Hash, NEW v \in {"approved", "rejected"}, RecordReview(s, h, v)
      PROVE  \A g \in Hash : reviews[g] # "none" => reviews'[g] = reviews[g]
  BY <1>1 DEF RecordReview, MayRecord, RegistryType
<1>2. CASE UNCHANGED registryVars
  BY <1>2 DEF registryVars
<1>. QED  BY <1>1, <1>2, StepCases, AccessWrites, ReputationWrites, TokenWrites DEF contractVars

(***************************************************************************)
(* The reputation contract.                                                *)
(***************************************************************************)
Score(st) == 10 * st.accurateReviews - 20 * (st.totalReviews - st.accurateReviews)
               + 25 * st.exploitsFound - 5 * st.exploitsFalsePositive

Count(st) == st.totalReviews + st.exploitsFound + st.exploitsFalsePositive

(* A record whose score is what its counters say.                          *)
Balanced(st) == st.reputationScore = Score(st) /\ st.accurateReviews <= st.totalReviews

(* What an update makes of a record of the right type.                     *)
LEMMA StatsFields ==
  ASSUME NEW st \in Stats
  PROVE  /\ st.reputationScore \in Int /\ st.totalReviews \in Nat /\ st.accurateReviews \in Nat
         /\ st.exploitsFound \in Nat /\ st.exploitsFalsePositive \in Nat
BY DEF Stats

LEMMA KnownStats ==
  ASSUME NEW st \in Stats
  PROVE  /\ [st EXCEPT !.exists = TRUE] \in Stats /\ [st EXCEPT !.exists = TRUE].exists
         /\ Balanced(st) => Balanced([st EXCEPT !.exists = TRUE])
<1>1. [st EXCEPT !.exists = TRUE] \in Stats /\ [st EXCEPT !.exists = TRUE].exists
  BY DEF Stats
<1>2. Balanced(st) => Balanced([st EXCEPT !.exists = TRUE])
  BY DEF Stats, Balanced, Score
<1>. QED  BY <1>1, <1>2

(* The fields of a record that an update changes, and the ones it keeps.   *)
LEMMA FieldsMakeStats ==
  ASSUME NEW st \in Stats, NEW score \in Int, NEW total \in Nat, NEW accurate \in Nat,
         NEW found \in Nat, NEW false \in Nat
  PROVE  /\ [st EXCEPT !.totalReviews = total, !.accurateReviews = accurate, !.reputationScore = score] \in Stats
         /\ [st EXCEPT !.exploitsFalsePositive = false, !.reputationScore = score] \in Stats
         /\ [st EXCEPT !.exploitsFound = found, !.reputationScore = score] \in Stats
BY DEF Stats

LEMMA ReviewStats ==
  ASSUME NEW st \in Stats, NEW b \in BOOLEAN, st.exists
  PROVE  /\ AfterReview(st, b) \in Stats /\ AfterReview(st, b).exists
         /\ Balanced(st) => Balanced(AfterReview(st, b))
<1> DEFINE new == AfterReview(st, b)
<1>1. /\ new.totalReviews = st.totalReviews + 1
      /\ new.accurateReviews = (IF b THEN st.accurateReviews + 1 ELSE st.accurateReviews)
      /\ new.reputationScore = (IF b THEN st.reputationScore + 10 ELSE st.reputationScore - 20)
      /\ new.exploitsFound = st.exploitsFound /\ new.exploitsFalsePositive = st.exploitsFalsePositive
  BY DEF Stats, AfterReview
<1>2. new.exists
  BY DEF Stats, AfterReview
<1>3. new \in Stats
  <2> DEFINE score == IF b THEN st.reputationScore + 10 ELSE st.reputationScore - 20
             total == st.totalReviews + 1
             accurate == IF b THEN st.accurateReviews + 1 ELSE st.accurateReviews
  <2>1. score \in Int /\ total \in Nat /\ accurate \in Nat
    BY StatsFields
  <2>2. new = [st EXCEPT !.totalReviews = total, !.accurateReviews = accurate, !.reputationScore = score]
    BY Zenon DEF AfterReview
  <2>. HIDE DEF score, total, accurate, new
  <2>3. [st EXCEPT !.totalReviews = total, !.accurateReviews = accurate, !.reputationScore = score] \in Stats
    BY <2>1, FieldsMakeStats, Zenon, StatsFields
  <2>. QED  BY <2>2, <2>3, Zenon
<1>4. Balanced(st) => Balanced(new)
  <2>. HIDE DEF new
  <2>. QED  BY <1>1, StatsFields DEF Balanced, Score
<1>. QED  BY <1>2, <1>3, <1>4

LEMMA ExploitStats ==
  ASSUME NEW st \in Stats, NEW b \in BOOLEAN, st.exists
  PROVE  /\ AfterExploit(st, b) \in Stats /\ AfterExploit(st, b).exists
         /\ Balanced(st) => Balanced(AfterExploit(st, b))
<1> DEFINE new == AfterExploit(st, b)
<1>1. /\ new.totalReviews = st.totalReviews /\ new.accurateReviews = st.accurateReviews
      /\ new.reputationScore = (IF b THEN st.reputationScore - 5 ELSE st.reputationScore + 25)
      /\ new.exploitsFound = (IF b THEN st.exploitsFound ELSE st.exploitsFound + 1)
      /\ new.exploitsFalsePositive = (IF b THEN st.exploitsFalsePositive + 1 ELSE st.exploitsFalsePositive)
  BY DEF Stats, AfterExploit
<1>2. new.exists
  BY DEF Stats, AfterExploit
<1>3. new \in Stats
  <2> DEFINE lower == st.reputationScore - 5
             higher == st.reputationScore + 25
             false == st.exploitsFalsePositive + 1
             found == st.exploitsFound + 1
  <2>1. lower \in Int /\ higher \in Int /\ false \in Nat /\ found \in Nat
    BY StatsFields
  <2>2. new = IF b THEN [st EXCEPT !.exploitsFalsePositive = false, !.reputationScore = lower]
              ELSE [st EXCEPT !.exploitsFound = found, !.reputationScore = higher]
    BY Zenon DEF AfterExploit
  <2>. HIDE DEF lower, higher, false, found, new
  <2>3. [st EXCEPT !.exploitsFalsePositive = false, !.reputationScore = lower] \in Stats
    BY <2>1, FieldsMakeStats, Zenon, StatsFields
  <2>4. [st EXCEPT !.exploitsFound = found, !.reputationScore = higher] \in Stats
    BY <2>1, FieldsMakeStats, Zenon, StatsFields
  <2>. QED  BY <2>2, <2>3, <2>4, Zenon
<1>4. Balanced(st) => Balanced(new)
  <2>. HIDE DEF new
  <2>. QED  BY <1>1, StatsFields DEF Balanced, Score
<1>. QED  BY <1>2, <1>3, <1>4

(* Three in one: the record that a step leaves.                            *)
LEMMA ReputationRecord ==
  ASSUME ReputationType, NEW s, ReputationStep(s)
  PROVE  \E a \in Wallet, st \in Stats :
           /\ agentStats' = [agentStats EXCEPT ![a] = st] /\ st.exists
           /\ Balanced(agentStats[a]) => Balanced(st)
           /\ registeredAgents' = EnrolledAgents(a)
<1>1. PICK a \in Wallet :
        /\ registeredAgents' = EnrolledAgents(a)
        /\ \/ agentStats' = [agentStats EXCEPT ![a] = Known(a)]
           \/ \E b \in BOOLEAN : agentStats' = [agentStats EXCEPT ![a] = AfterReview(Known(a), b)]
           \/ \E b \in BOOLEAN : agentStats' = [agentStats EXCEPT ![a] = AfterExploit(Known(a), b)]
  BY ReputationWrites
<1>2. /\ Known(a) \in Stats /\ Known(a).exists
      /\ Balanced(agentStats[a]) => Balanced(Known(a))
  BY KnownStats DEF ReputationType, Known
<1>3. ASSUME NEW b \in BOOLEAN
      PROVE  /\ AfterReview(Known(a), b) \in Stats /\ AfterReview(Known(a), b).exists
             /\ Balanced(Known(a)) => Balanced(AfterReview(Known(a), b))
             /\ AfterExploit(Known(a), b) \in Stats /\ AfterExploit(Known(a), b).exists
             /\ Balanced(Known(a)) => Balanced(AfterExploit(Known(a), b))
  BY <1>2, ReviewStats, ExploitStats
<1>4. CASE agentStats' = [agentStats EXCEPT ![a] = Known(a)]
  BY <1>1, <1>2, <1>4, Zenon
<1>5. ASSUME NEW b \in BOOLEAN, agentStats' = [agentStats EXCEPT ![a] = AfterReview(Known(a), b)]
      PROVE  \E st \in Stats : /\ agentStats' = [agentStats EXCEPT ![a] = st] /\ st.exists
                               /\ Balanced(agentStats[a]) => Balanced(st)
  BY <1>2, <1>3, <1>5, Zenon
<1>6. ASSUME NEW b \in BOOLEAN, agentStats' = [agentStats EXCEPT ![a] = AfterExploit(Known(a), b)]
      PROVE  \E st \in Stats : /\ agentStats' = [agentStats EXCEPT ![a] = st] /\ st.exists
                               /\ Balanced(agentStats[a]) => Balanced(st)
  BY <1>2, <1>3, <1>6, Zenon
<1>. QED  BY <1>1, <1>4, <1>5, <1>6, Zenon

(* The books of the reputation contract, as one invariant.                 *)
Listed(a) == \E i \in DOMAIN registeredAgents : registeredAgents[i] = a

ReputationBooks ==
  /\ ReputationType
  /\ \A a \in Wallet : Balanced(agentStats[a])
  /\ \A a \in Wallet : agentStats[a].exists <=> Listed(a)
  /\ \A i, j \in DOMAIN registeredAgents : registeredAgents[i] = registeredAgents[j] => i = j
  /\ \A a \in Wallet : agentStats[a].exists \/ agentStats[a] = Nobody

LEMMA ReputationBooksStep ==
  ASSUME ReputationBooks, [ContractNext]_contractVars
  PROVE  ReputationBooks'
<1>1. ASSUME NEW s \in Wallet, ReputationStep(s) PROVE ReputationBooks'
  <2>1. PICK a \in Wallet, st \in Stats :
          /\ agentStats' = [agentStats EXCEPT ![a] = st] /\ st.exists
          /\ Balanced(agentStats[a]) => Balanced(st)
          /\ registeredAgents' = EnrolledAgents(a)
    BY <1>1, ReputationRecord DEF ReputationBooks
  <2>2. /\ registeredAgents \in Seq(Wallet) /\ agentStats \in [Wallet -> Stats]
        /\ Balanced(agentStats[a]) /\ (agentStats[a].exists <=> Listed(a))
    BY DEF ReputationBooks, ReputationType
  <2>3. ReputationType'
    BY <2>1, <2>2 DEF ReputationType, EnrolledAgents
  <2>4. /\ agentStats'[a] = st
        /\ \A b \in Wallet : b # a => agentStats'[b] = agentStats[b]
    BY <2>1, <2>2
  <2>5. \A b \in Wallet : Balanced(agentStats'[b]) /\ (agentStats'[b].exists \/ agentStats'[b] = Nobody)
    BY <2>1, <2>2, <2>4, Zenon DEF ReputationBooks
  <2>6. CASE agentStats[a].exists
    <3>1. registeredAgents' = registeredAgents /\ Listed(a)
      BY <2>1, <2>2, <2>6, Zenon DEF EnrolledAgents
    <3>2. \A b \in Wallet : agentStats'[b].exists <=> Listed(b)'
      <4>1. \A b \in Wallet : Listed(b)' <=> Listed(b)
        BY <3>1, Zenon DEF Listed
      <4>. QED  BY <2>1, <2>4, <3>1, <4>1, Zenon DEF ReputationBooks
    <3>. QED  BY <2>3, <2>5, <3>1, <3>2, Zenon DEF ReputationBooks
  <2>7. CASE ~agentStats[a].exists
    <3>1. registeredAgents' = Append(registeredAgents, a) /\ ~Listed(a)
      BY <2>1, <2>2, <2>7, Zenon DEF EnrolledAgents
    <3>2. /\ DOMAIN registeredAgents' = 1 .. (Len(registeredAgents) + 1)
          /\ DOMAIN registeredAgents = 1 .. Len(registeredAgents) /\ Len(registeredAgents) \in Nat
          /\ \A i \in DOMAIN registeredAgents : registeredAgents'[i] = registeredAgents[i]
          /\ registeredAgents'[Len(registeredAgents) + 1] = a
      BY <2>2, <3>1
    <3>3. Listed(a)' /\ \A b \in Wallet : b # a => (Listed(b)' <=> Listed(b))
      BY <3>2 DEF Listed
    <3>4. \A b \in Wallet : agentStats'[b].exists <=> Listed(b)'
      BY <2>1, <2>4, <3>3, Zenon DEF ReputationBooks
    <3>5. \A i \in DOMAIN registeredAgents : registeredAgents[i] # a
      BY <3>1 DEF Listed
    <3>6. \A i, j \in DOMAIN registeredAgents' : registeredAgents'[i] = registeredAgents'[j] => i = j
      BY <3>2, <3>5 DEF ReputationBooks
    <3>. QED  BY <2>3, <2>5, <3>4, <3>6, Zenon DEF ReputationBooks
  <2>. QED  BY <2>6, <2>7
<1>2. CASE UNCHANGED reputationVars
  BY <1>2 DEF reputationVars, ReputationBooks, ReputationType, Listed
<1>3. ASSUME NEW s \in Wallet, NEW h \in Hash, NEW v \in {"approved", "rejected"}, RecordReview(s, h, v)
      PROVE  UNCHANGED reputationVars
  BY <1>3 DEF RecordReview
<1>. QED  BY <1>1, <1>2, <1>3, StepCases, AccessWrites, TokenWrites DEF contractVars

(***************************************************************************)
(* The tokens.                                                             *)
(***************************************************************************)
(* What a transaction makes of the metadata: it mints one token, or        *)
(* changes one that exists and leaves it the role it was minted for.       *)
Changes(t) ==
  /\ t \in Tokens
  /\ \E data \in Metadata :
       /\ data.role = agentMetadata[t].role
       /\ agentMetadata' = [agentMetadata EXCEPT ![t] = data]
  /\ UNCHANGED <<holder, roleToTokenId, ownerTokens>>

LEMMA NewMetadataTyped ==
  ASSUME NEW blob \in Blob, NEW role \in Role
  PROVE  NewMetadata(blob, role) \in Metadata /\ NewMetadata(blob, role).role = role
BY DEF NewMetadata, Metadata

LEMMA EvolveChanges ==
  ASSUME TokenType, NEW s, NEW t \in Tokens, NEW blob \in Blob, EvolveAgent(s, t, blob)
  PROVE  Changes(t)
<1> DEFINE old == agentMetadata[t]
           data == [old EXCEPT !.blob = blob, !.evolutionCount = old.evolutionCount + 1]
<1>1. old \in Metadata /\ agentMetadata \in Seq(Metadata) /\ t \in DOMAIN agentMetadata
  BY DEF TokenType, Tokens
<1>2. old.evolutionCount + 1 \in Nat
  BY <1>1 DEF Metadata
<1>3. data \in Metadata /\ data.role = old.role
  BY <1>1, <1>2 DEF Metadata
<1>4. agentMetadata' = [agentMetadata EXCEPT ![t] = data]
  BY <1>1, Zenon DEF EvolveAgent
<1>. QED  BY <1>3, <1>4, Zenon DEF Changes, EvolveAgent

LEMMA SyncChanges ==
  ASSUME TokenType, NEW s, NEW t \in Tokens, NEW score \in Int, NEW total \in Nat,
         SyncReputation(s, t, score, total)
  PROVE  Changes(t)
<1> DEFINE old == agentMetadata[t]
           data == [old EXCEPT !.reputationScore = score, !.totalReviews = total]
<1>1. old \in Metadata /\ agentMetadata \in Seq(Metadata) /\ t \in DOMAIN agentMetadata
  BY DEF TokenType, Tokens
<1>2. data \in Metadata /\ data.role = old.role
  BY <1>1 DEF Metadata
<1>3. agentMetadata' = [agentMetadata EXCEPT ![t] = data]
  BY <1>1, Zenon DEF SyncReputation
<1>. QED  BY <1>2, <1>3, Zenon DEF Changes, SyncReputation

LEMMA SetActiveChanges ==
  ASSUME TokenType, NEW s, NEW t \in Tokens, NEW active \in BOOLEAN, SetActive(s, t, active)
  PROVE  Changes(t)
<1> DEFINE old == agentMetadata[t]
           data == [old EXCEPT !.active = active]
<1>1. old \in Metadata /\ agentMetadata \in Seq(Metadata) /\ t \in DOMAIN agentMetadata
  BY DEF TokenType, Tokens
<1>2. data \in Metadata /\ data.role = old.role
  BY <1>1 DEF Metadata
<1>3. agentMetadata' = [agentMetadata EXCEPT ![t] = data]
  BY <1>1, Zenon DEF SetActive
<1>. QED  BY <1>2, <1>3, Zenon DEF Changes, SetActive

(* The cases of a step for the tokens.                                     *)
LEMMA TokenCases ==
  ASSUME TokenType, ReputationType, [ContractNext]_contractVars
  PROVE  \/ UNCHANGED tokenVars
         \/ \E s, to \in Wallet, blob \in Blob, role \in Role : MintAgent(s, to, blob, role)
         \/ \E t \in Tokens : Changes(t)
         \/ \E s, to \in Wallet, t \in Tokens : TransferToken(s, t, to)
<1>1. ASSUME NEW s \in Wallet, TokenStep(s)
      PROVE  \/ \E to \in Wallet, blob \in Blob, role \in Role : MintAgent(s, to, blob, role)
             \/ \E t \in Tokens : Changes(t)
             \/ \E to \in Wallet, t \in Tokens : TransferToken(s, t, to)
  <2>1. ASSUME NEW t \in Tokens, NEW blob \in Blob, EvolveAgent(s, t, blob) PROVE Changes(t)
    BY <2>1, EvolveChanges
  <2>2. ASSUME NEW t \in Tokens, NEW a \in Wallet,
               SyncReputation(s, t, agentStats[a].reputationScore, agentStats[a].totalReviews)
        PROVE  Changes(t)
    <3>1. agentStats[a].reputationScore \in Int /\ agentStats[a].totalReviews \in Nat
      BY StatsFields DEF ReputationType
    <3>. QED  BY <2>2, <3>1, SyncChanges
  <2>3. ASSUME NEW t \in Tokens, NEW active \in BOOLEAN, SetActive(s, t, active) PROVE Changes(t)
    BY <2>3, SetActiveChanges
  <2>. QED  BY <1>1, <2>1, <2>2, <2>3 DEF TokenStep
<1>2. ASSUME NEW s \in Wallet, NEW h \in Hash, NEW v \in {"approved", "rejected"}, RecordReview(s, h, v)
      PROVE  UNCHANGED tokenVars
  BY <1>2 DEF RecordReview
<1>. QED  BY <1>1, <1>2, StepCases, AccessWrites, ReputationWrites DEF contractVars

LEMMA TokenTyped ==
  ASSUME TokenType, ReputationType, [ContractNext]_contractVars
  PROVE  TokenType'
<1>1. CASE UNCHANGED tokenVars
  BY <1>1 DEF tokenVars, TokenType
<1>2. ASSUME NEW s \in Wallet, NEW to \in Wallet, NEW blob \in Blob, NEW role \in Role,
             MintAgent(s, to, blob, role)
      PROVE  TokenType'
  <2>1. /\ agentMetadata' = Append(agentMetadata, NewMetadata(blob, role))
        /\ holder' = Append(holder, to)
        /\ roleToTokenId' = [roleToTokenId EXCEPT ![role] = Len(agentMetadata) + 1]
        /\ ownerTokens' = [ownerTokens EXCEPT ![to] = Append(@, Len(agentMetadata) + 1)]
    BY <1>2 DEF MintAgent
  <2>2. NewMetadata(blob, role) \in Metadata
    BY NewMetadataTyped
  <2>3. agentMetadata' \in Seq(Metadata) /\ holder' \in Seq(Wallet) /\ Len(holder') = Len(agentMetadata')
    BY <2>1, <2>2 DEF TokenType
  <2>4. Len(agentMetadata) + 1 \in Nat
    BY DEF TokenType
  <2>5. roleToTokenId' \in [Role -> Nat]
    BY <2>1, <2>4 DEF TokenType
  <2>6. ownerTokens' \in [Wallet -> Seq(Nat)]
    BY <2>1, <2>4 DEF TokenType
  <2>. QED  BY <2>3, <2>5, <2>6 DEF TokenType
<1>3. ASSUME NEW t \in Tokens, Changes(t) PROVE TokenType'
  <2>1. PICK data \in Metadata : agentMetadata' = [agentMetadata EXCEPT ![t] = data]
    BY <1>3 DEF Changes
  <2>2. agentMetadata' \in Seq(Metadata) /\ Len(agentMetadata') = Len(agentMetadata)
    BY <2>1 DEF TokenType, Tokens
  <2>. QED  BY <1>3, <2>2 DEF Changes, TokenType
<1>4. ASSUME NEW s \in Wallet, NEW to \in Wallet, NEW t \in Tokens, TransferToken(s, t, to)
      PROVE  TokenType'
  BY <1>4 DEF TransferToken, TokenType, Tokens
<1>. QED  BY <1>1, <1>2, <1>3, <1>4, TokenCases

(* Only an evolution counts one.                                           *)
LEMMA EvolutionStep ==
  ASSUME TokenType, NEW t \in Tokens, [ContractNext]_contractVars,
         agentMetadata'[t].evolutionCount # agentMetadata[t].evolutionCount
  PROVE  holder[t] = sender' /\ agentMetadata[t].active
<1>0. agentMetadata \in Seq(Metadata) /\ Tokens = DOMAIN agentMetadata
  BY DEF TokenType, Tokens
<1>1. agentMetadata' # agentMetadata
  OBVIOUS
<1>2. ASSUME NEW s \in Wallet, TokenStep(s) PROVE holder[t] = sender' /\ agentMetadata[t].active
  <2>1. ASSUME NEW to \in Wallet, NEW blob \in Blob, NEW role \in Role, MintAgent(s, to, blob, role)
        PROVE  FALSE
    <3>1. agentMetadata' = Append(agentMetadata, NewMetadata(blob, role))
      BY <2>1 DEF MintAgent
    <3>2. NewMetadata(blob, role) \in Metadata
      BY NewMetadataTyped
    <3>3. agentMetadata'[t] = agentMetadata[t]
      BY <1>0, <3>1, <3>2
    <3>. QED  BY <3>3
  <2>2. ASSUME NEW u \in Tokens, NEW blob \in Blob, EvolveAgent(s, u, blob)
        PROVE  holder[t] = sender' /\ agentMetadata[t].active
    <3>1. CASE u = t
      BY <2>2, <3>1, Zenon DEF EvolveAgent, MayEvolve
    <3>2. CASE u # t
      <4>1. agentMetadata'[t] = agentMetadata[t]
        BY <2>2, <3>2, <1>0, Zenon DEF EvolveAgent
      <4>. QED  BY <4>1
    <3>. QED  BY <3>1, <3>2
  <2>3. ASSUME NEW u \in Tokens, NEW data,
               agentMetadata' = [agentMetadata EXCEPT ![u] = data],
               data.evolutionCount = agentMetadata[u].evolutionCount
        PROVE  FALSE
    <3>1. agentMetadata'[t] = agentMetadata[t] \/ (u = t /\ agentMetadata'[t] = data)
      BY <2>3, <1>0, Zenon
    <3>. QED  BY <2>3, <3>1
  <2>4. ASSUME NEW u \in Tokens, NEW score, NEW total, SyncReputation(s, u, score, total) PROVE FALSE
    <3> DEFINE old == agentMetadata[u]
               data == [old EXCEPT !.reputationScore = score, !.totalReviews = total]
    <3>1. agentMetadata' = [agentMetadata EXCEPT ![u] = data]
      BY <2>4, Zenon DEF SyncReputation
    <3>2. old \in Metadata
      BY <1>0
    <3>3. data.evolutionCount = old.evolutionCount
      BY <3>2 DEF Metadata
    <3>. QED  BY <2>3, <3>1, <3>3
  <2>5. ASSUME NEW u \in Tokens, NEW active \in BOOLEAN, SetActive(s, u, active) PROVE FALSE
    <3> DEFINE old == agentMetadata[u]
               data == [old EXCEPT !.active = active]
    <3>1. agentMetadata' = [agentMetadata EXCEPT ![u] = data]
      BY <2>5, Zenon DEF SetActive
    <3>2. old \in Metadata
      BY <1>0
    <3>3. data.evolutionCount = old.evolutionCount
      BY <3>2 DEF Metadata
    <3>. QED  BY <2>3, <3>1, <3>3
  <2>6. ASSUME NEW u \in Tokens, NEW to \in Wallet, TransferToken(s, u, to) PROVE FALSE
    BY <2>6, <1>1 DEF TransferToken
  <2>. QED  BY <1>2, <2>1, <2>2, <2>4, <2>5, <2>6 DEF TokenStep
<1>3. ASSUME NEW s \in Wallet, NEW h \in Hash, NEW v \in {"approved", "rejected"}, RecordReview(s, h, v)
      PROVE  UNCHANGED agentMetadata
  BY <1>3 DEF RecordReview, tokenVars
<1>. QED  BY <1>1, <1>2, <1>3, StepCases, AccessWrites, ReputationWrites DEF contractVars, tokenVars

(***************************************************************************)
(* The chain by itself.                                                    *)
(***************************************************************************)
(* The inductive invariant of the contracts.  A score balances because a   *)
(* record is either listed, once, or still as it was created; the types of *)
(* tokens need those of the records that syncReputation copies.            *)
ContractInv ==
  /\ AccessType /\ RegistryType /\ IndexIsExact
  /\ ReputationBooks /\ TokenType

LEMMA ContractInvInit == ContractInit => ContractInv
<1> SUFFICES ASSUME ContractInit PROVE ContractInv
  OBVIOUS
<1>1. AccessType
  BY AddressAssumption DEF ContractInit, AccessType, ApprovedAtStart, Address, Contract, Guarded
<1>2. RegistryType /\ IndexIsExact
  BY DEF ContractInit, RegistryType, Verdict, IndexIsExact
<1>3. Nobody \in Stats /\ ~Nobody.exists
  BY DEF Nobody, Stats
<1>4. Balanced(Nobody)
  BY DEF Nobody, Balanced, Score
<1>5. ReputationType
  BY <1>3 DEF ContractInit, ReputationType
<1>6. \A a \in Wallet : agentStats[a] = Nobody /\ ~Listed(a)
  BY DEF ContractInit, Listed
<1>7. ReputationBooks
  BY <1>3, <1>4, <1>5, <1>6 DEF ReputationBooks, ContractInit
<1>8. TokenType
  BY DEF ContractInit, TokenType
<1>. QED  BY <1>1, <1>2, <1>7, <1>8 DEF ContractInv

LEMMA ContractInvStep == ContractInv /\ [ContractNext]_contractVars => ContractInv'
<1> SUFFICES ASSUME ContractInv, [ContractNext]_contractVars PROVE ContractInv'
  OBVIOUS
<1>1. AccessType' /\ RegistryType' /\ IndexIsExact'
  BY AccessTyped, RegistryTyped, IndexStep DEF ContractInv
<1>2. ReputationBooks' /\ TokenType'
  BY ReputationBooksStep, TokenTyped DEF ContractInv, ReputationBooks
<1>. QED  BY <1>1, <1>2 DEF ContractInv

LEMMA ContractInvMeans ==
  ASSUME ContractInv
  PROVE  ContractTypeOK /\ IndexIsExact /\ LedgerBalances /\ AgentsListedOnce
<1>1. ContractTypeOK
  BY TypeParts DEF ContractInv, ReputationBooks
<1>2. LedgerBalances
  BY DEF ContractInv, ReputationBooks, LedgerBalances, Balanced, Score
<1>3. Count(Nobody) = 0 /\ \A a \in Wallet : Events(a) = Count(agentStats[a])
  BY DEF Events, Count, Nobody
<1>4. AgentsListedOnce
  <2>1. \A a \in Wallet : ~agentStats[a].exists => Events(a) = 0
    BY <1>3, Zenon DEF ContractInv, ReputationBooks
  <2>. QED  BY <2>1, Zenon DEF ContractInv, ReputationBooks, AgentsListedOnce, Listed
<1>. QED  BY <1>1, <1>2, <1>4 DEF ContractInv

LEMMA ContractActions ==
  ASSUME ContractInv, [ContractNext]_contractVars
  PROVE  /\ \A h \in Hash : reviews[h] # "none" => reviews'[h] = reviews[h]
         /\ \A t \in Tokens :
              agentMetadata'[t].evolutionCount # agentMetadata[t].evolutionCount
                => holder[t] = sender' /\ agentMetadata[t].active
BY RecordsStep, EvolutionStep, Zenon DEF ContractInv

(* Whatever sequence of transactions the chain has seen, its books are     *)
(* right: the contracts keep their types and the three invariants that the *)
(* views and the clients rely on.                                          *)
THEOREM ContractsKeepTheirBooks ==
  ContractSpec => [](ContractTypeOK /\ IndexIsExact /\ LedgerBalances /\ AgentsListedOnce)
<1>1. ContractSpec => []ContractInv
  BY ContractInvInit, ContractInvStep, PTL DEF ContractSpec
<1>. QED  BY <1>1, ContractInvMeans, PTL


(* No record on the chain is ever replaced or removed.                     *)
THEOREM ContractRecordsAreFinal == ContractSpec => RecordsAreFinal
<1>1. ContractSpec => []ContractInv
  BY ContractInvInit, ContractInvStep, PTL DEF ContractSpec
<1>2. ContractInv /\ [ContractNext]_contractVars
        => [\A h \in Hash : reviews[h] # "none" => reviews'[h] = reviews[h]]_contractVars
  BY ContractActions
<1>. QED  BY <1>1, <1>2, PTL DEF ContractSpec, RecordsAreFinal

(* Only the holder of an active token evolves it.                          *)
THEOREM ContractHolderEvolves == ContractSpec => HolderEvolves
<1>1. ContractSpec => []ContractInv
  BY ContractInvInit, ContractInvStep, PTL DEF ContractSpec
<1>2. ContractInv /\ [ContractNext]_contractVars
        => [\A t \in Tokens :
              agentMetadata'[t].evolutionCount # agentMetadata[t].evolutionCount
                => holder[t] = sender' /\ agentMetadata[t].active]_contractVars
  BY ContractActions
<1>. QED  BY <1>1, <1>2, PTL DEF ContractSpec, HolderEvolves

(***************************************************************************)
(* The client, the service and the script.                                 *)
(***************************************************************************)
AnyRequest == RecordRequest \cup UpdateRequest \cup MintRequest \cup EvolveRequest \cup FundRequest

Stages  == Running \cup {"idle", "returned"}
Results == Route \cup {"none", "mock", "skipped", "rejected", "failed"}
States  == Accepted \cup {"none", "asked", "refused"}

KeeperType ==
  /\ credentials \in BOOLEAN /\ mcpMode \in {"unknown", "on", "off"}
  /\ request \in [Job -> AnyRequest]
  /\ stage \in [Job -> Stages] /\ result \in [Job -> Results]
  /\ execution \in [Job -> [Route -> States]]
  /\ funded \in Nat /\ script \in 0 .. Len(ScriptRoles) /\ txs \in 0 .. MaxTx

LEMMA KeeperTypeMeans == ContractTypeOK /\ KeeperType => TypeOK
BY DEF KeeperType, TypeOK, Stages, Results, States

(* What an execution does is a transaction of KeeperHub's wallet, or none. *)
LEMMA PerformsTransacts ==
  ASSUME NEW q \in AnyRequest, Performs(q)
  PROVE  (ContractNext \/ UNCHANGED contractVars) /\ (funded' = funded \/ funded' = funded + 1)
<1>0. Keeper \in Wallet
  BY KeeperAssumption
<1>1. CASE q.op = "recordReview" /\ RecordReview(Keeper, q.hash, q.verdict) /\ UNCHANGED funded
  <2>1. q.hash \in Hash /\ q.verdict \in {"approved", "rejected"}
    BY <1>1 DEF AnyRequest, RecordRequest, UpdateRequest, MintRequest, EvolveRequest, FundRequest
  <2>. QED  BY <1>0, <1>1, <2>1, Zenon DEF ContractNext, Transact
<1>2. CASE q.op = "updateReputation" /\ UpdateReputation(Keeper, q.agent, q.accurate) /\ UNCHANGED funded
  <2>1. q \in UpdateRequest
    BY <1>2 DEF AnyRequest, RecordRequest, MintRequest, EvolveRequest, FundRequest
  <2>2. q.agent \in Wallet /\ q.accurate \in BOOLEAN
    BY <2>1 DEF UpdateRequest
  <2>3. ReputationStep(Keeper)
    BY <1>2, <2>2, Zenon DEF ReputationStep
  <2>. QED  BY <1>0, <1>2, <2>3, Zenon DEF ContractNext, Transact
<1>3. CASE q.op = "mintAgent" /\ MintAgent(Keeper, q.to, q.blob, q.role) /\ UNCHANGED funded
  <2>1. q \in MintRequest
    BY <1>3 DEF AnyRequest, RecordRequest, UpdateRequest, EvolveRequest, FundRequest
  <2>2. q.to \in Wallet /\ q.blob \in Blob /\ q.role \in Role
    BY <2>1 DEF MintRequest
  <2>3. TokenStep(Keeper)
    BY <1>3, <2>2, Zenon DEF TokenStep
  <2>. QED  BY <1>0, <1>3, <2>3, Zenon DEF ContractNext, Transact
<1>4. CASE q.op = "evolveAgent" /\ EvolveAgent(Keeper, q.token, q.blob) /\ UNCHANGED funded
  <2>1. q \in EvolveRequest
    BY <1>4 DEF AnyRequest, RecordRequest, UpdateRequest, MintRequest, FundRequest
  <2>2. q.token \in Tokens /\ q.blob \in Blob
    BY <1>4, <2>1 DEF EvolveRequest, EvolveAgent, MayEvolve, Exists
  <2>3. TokenStep(Keeper)
    BY <1>4, <2>2, Zenon DEF TokenStep
  <2>. QED  BY <1>0, <1>4, <2>3, Zenon DEF ContractNext, Transact
<1>5. CASE q.op = "fund" /\ funded' = funded + 1 /\ UNCHANGED contractVars
  BY <1>5
<1>. QED  BY <1>1, <1>2, <1>3, <1>4, <1>5, Zenon DEF Performs

LEMMA ScriptTransacts ==
  ASSUME script \in 0 .. Len(ScriptRoles), ScriptMint
  PROVE  ContractNext /\ script' \in 0 .. Len(ScriptRoles)
<1>0. Deployer \in Wallet /\ ScriptRoles \in Seq(Role)
  BY AddressAssumption, KeeperAssumption
<1>1. ScriptRoles[script] \in Role /\ NextRole(script) \in 0 .. Len(ScriptRoles)
  BY <1>0 DEF ScriptMint, NextRole
<1>2. TokenStep(Deployer)
  BY <1>0, <1>1, Zenon DEF ScriptMint, TokenStep
<1>. QED  BY <1>0, <1>1, <1>2, Zenon DEF ContractNext, Transact, ScriptMint

LEMMA KeeperTypeInit == Init => KeeperType
BY KeeperAssumption, BoundAssumption
   DEF Init, KeeperType, AnyRequest, FundRequest, Stages, Results, States, Route

LEMMA CallTyped ==
  ASSUME KeeperType, NEW j \in Job, NEW q \in Requests[j], Call(j, q)
  PROVE  KeeperType'
<1>1. q \in AnyRequest
  BY KeeperAssumption DEF IsRequest, AnyRequest
<1>2. request' \in [Job -> AnyRequest]
  BY <1>1 DEF Call, KeeperType
<1>3. stage' \in [Job -> Stages] /\ result' \in [Job -> Results]
  BY DEF Call, KeeperType, Go, Returns, Stages, Results, Running
<1>4. UNCHANGED <<credentials, mcpMode, execution, funded, script, txs>>
  BY DEF Call, scriptVars
<1>. QED  BY <1>2, <1>3, <1>4 DEF KeeperType

LEMMA ClientTyped ==
  ASSUME KeeperType, NEW j \in Job, Client(j)
  PROVE  KeeperType'
<1>1. UNCHANGED <<credentials, request, funded, script, txs>> /\ mcpMode' \in {"unknown", "on", "off"}
  BY DEF Client, McpCreated, McpAnswers, McpThrows, RestCreated, RestAnswers, RestThrows, scriptVars, KeeperType
<1>2. stage' \in [Job -> Stages] /\ result' \in [Job -> Results]
  BY DEF Client, McpCreated, McpAnswers, McpThrows, RestCreated, RestAnswers, RestThrows,
         KeeperType, Go, Returns, Stages, Results, Running, Route
<1>3. execution' \in [Job -> [Route -> States]]
  BY DEF Client, McpCreated, McpAnswers, McpThrows, RestCreated, RestAnswers, RestThrows,
         KeeperType, Asks, States, Route
<1>. QED  BY <1>1, <1>2, <1>3 DEF KeeperType

LEMMA ServiceTyped ==
  ASSUME KeeperType, NEW j \in Job, NEW r \in Route, Accept(j, r) \/ Refuse(j, r) \/ Completes(j, r) \/ Fails(j, r)
  PROVE  KeeperType'
<1>1. execution' \in [Job -> [Route -> States]]
  BY DEF Accept, Refuse, Completes, Fails, KeeperType, States, Accepted
<1>2. UNCHANGED clientVars /\ UNCHANGED scriptVars /\ UNCHANGED txs
  BY DEF Accept, Refuse, Completes, Fails
<1>3. request[j] \in AnyRequest /\ funded \in Nat
  BY DEF KeeperType
<1>4. funded' = funded \/ funded' = funded + 1
  BY <1>3, PerformsTransacts DEF Accept, Refuse, Completes, Fails
<1>. QED  BY <1>1, <1>2, <1>3, <1>4 DEF KeeperType, clientVars, scriptVars

LEMMA KeeperTypeStep == KeeperType /\ [Next]_vars => KeeperType'
<1> SUFFICES ASSUME KeeperType, [Next]_vars PROVE KeeperType'
  OBVIOUS
<1>1. ASSUME ScriptStart PROVE KeeperType'
  BY <1>1, KeeperAssumption DEF ScriptStart, KeeperType, clientVars
<1>2. ASSUME ScriptMint PROVE KeeperType'
  BY <1>2, ScriptTransacts DEF ScriptMint, KeeperType, clientVars
<1>3. ASSUME ScriptFails PROVE KeeperType'
  BY <1>3, KeeperAssumption DEF ScriptFails, KeeperType, clientVars
<1>4. ASSUME Direct PROVE KeeperType'
  BY <1>4, BoundAssumption DEF Direct, KeeperType, clientVars, scriptVars
<1>5. CASE UNCHANGED vars
  BY <1>5 DEF vars, keeperVars, clientVars, scriptVars, KeeperType
<1>. QED  BY <1>1, <1>2, <1>3, <1>4, <1>5, CallTyped, ClientTyped, ServiceTyped DEF Next

(* Whatever the system does, the chain sees a transaction or nothing.      *)
LEMMA StepTransacts == KeeperType /\ [Next]_vars => [ContractNext]_contractVars
<1> SUFFICES ASSUME KeeperType, [Next]_vars PROVE ContractNext \/ UNCHANGED contractVars
  OBVIOUS
<1>1. ASSUME NEW j \in Job, NEW q \in Requests[j], Call(j, q) PROVE UNCHANGED contractVars
  BY <1>1, Zenon DEF Call
<1>2. ASSUME NEW j \in Job, Client(j) PROVE UNCHANGED contractVars
  BY <1>2, Zenon DEF Client, McpCreated, McpAnswers, McpThrows, RestCreated, RestAnswers, RestThrows
<1>3. ASSUME NEW j \in Job, NEW r \in Route, Accept(j, r) \/ Refuse(j, r) \/ Completes(j, r) \/ Fails(j, r)
      PROVE  ContractNext \/ UNCHANGED contractVars
  <2>1. request[j] \in AnyRequest
    BY DEF KeeperType
  <2>. QED  BY <1>3, <2>1, PerformsTransacts, Zenon DEF Accept, Refuse, Completes, Fails
<1>4. ASSUME ScriptMint PROVE ContractNext
  BY <1>4, ScriptTransacts DEF KeeperType
<1>5. ASSUME ScriptStart \/ ScriptFails \/ Direct PROVE ContractNext \/ UNCHANGED contractVars
  BY <1>5, Zenon DEF ScriptStart, ScriptFails, Direct
<1>6. CASE UNCHANGED vars
  BY <1>6 DEF vars
<1>. QED  BY <1>1, <1>2, <1>3, <1>4, <1>5, <1>6 DEF Next

(* Client, service and script implement the chain by itself: retried,      *)
(* doubled, late and reverted executions included.                         *)
THEOREM KeeperHubRunsOnTheChain == Spec => ContractSpec
<1>1. Spec => []KeeperType
  BY KeeperTypeInit, KeeperTypeStep, PTL DEF Spec
<1>2. Init => ContractInit
  BY DEF Init
<1>. QED  BY <1>1, <1>2, StepTransacts, PTL DEF Spec, ContractSpec

(* Type correctness of the whole.                                          *)
THEOREM TypeCorrect == Spec => []TypeOK
<1>1. Spec => []KeeperType
  BY KeeperTypeInit, KeeperTypeStep, PTL DEF Spec
<1>2. Spec => []ContractTypeOK
  BY KeeperHubRunsOnTheChain, ContractsKeepTheirBooks, PTL
<1>. QED  BY <1>1, <1>2, KeeperTypeMeans, PTL

(* The registry's index lists each recorded hash once.                     *)
THEOREM IndexStaysExact == Spec => []IndexIsExact
BY KeeperHubRunsOnTheChain, ContractsKeepTheirBooks, PTL

(* A score is what its counters say.                                       *)
THEOREM LedgerStaysBalanced == Spec => []LedgerBalances
BY KeeperHubRunsOnTheChain, ContractsKeepTheirBooks, PTL

(* Every agent with a record is listed once.                               *)
THEOREM AgentsStayListedOnce == Spec => []AgentsListedOnce
BY KeeperHubRunsOnTheChain, ContractsKeepTheirBooks, PTL

(* Records are final under every client.                                   *)
THEOREM RecordsStayFinal == Spec => RecordsAreFinal
BY KeeperHubRunsOnTheChain, ContractRecordsAreFinal, PTL

(* And intelligence is the holder's.                                       *)
THEOREM OnlyHolderEvolves == Spec => HolderEvolves
BY KeeperHubRunsOnTheChain, ContractHolderEvolves, PTL

(***************************************************************************)
(* What a call returns.                                                    *)
(***************************************************************************)
(* What each await knows of the executions of its call: the REST API has   *)
(* been asked for nothing before the call gets there, nor has anyone before *)
(* its first request.                                                      *)
Honest(j) ==
  /\ stage[j] \in {"idle", "mcpCreate"} => \A r \in Route : execution[j][r] = "none"
  /\ stage[j] \in {"mcpExecute", "restCreate"} => execution[j]["rest"] = "none"
  /\ stage[j] # "returned" => result[j] = "none"
  /\ result[j] = "mcp" => execution[j]["rest"] = "none"
  /\ result[j] \in {"mock", "skipped", "rejected"} => \A r \in Route : execution[j][r] = "none"

HonestInv == \A j \in Job : Honest(j)

LEMMA HonestStep ==
  ASSUME KeeperType, HonestInv, [Next]_vars
  PROVE  HonestInv'
<1> SUFFICES ASSUME NEW k \in Job PROVE Honest(k)'
  BY DEF HonestInv
<1>0. /\ Honest(k) /\ stage \in [Job -> Stages] /\ result \in [Job -> Results]
      /\ execution \in [Job -> [Route -> States]]
  BY DEF HonestInv, KeeperType
<1>1. ASSUME NEW j \in Job, NEW q \in Requests[j], Call(j, q) PROVE Honest(k)'
  BY <1>0, <1>1 DEF Call, Honest, Go, Returns, Route
<1>2. ASSUME NEW j \in Job, McpCreated(j) PROVE Honest(k)'
  BY <1>0, <1>2 DEF McpCreated, Honest, Go, Asks, Route
<1>3. ASSUME NEW j \in Job, McpAnswers(j) PROVE Honest(k)'
  BY <1>0, <1>3 DEF McpAnswers, McpAnswered, Honest, Go, Returns, Route
<1>4. ASSUME NEW j \in Job, McpThrows(j) PROVE Honest(k)'
  BY <1>0, <1>4 DEF McpThrows, Honest, Go, Route
<1>5. ASSUME NEW j \in Job, RestCreated(j) PROVE Honest(k)'
  BY <1>0, <1>5 DEF RestCreated, Honest, Go, Asks, Route
<1>6. ASSUME NEW j \in Job, RestAnswers(j) PROVE Honest(k)'
  BY <1>0, <1>6 DEF RestAnswers, RestAnswered, Honest, Go, Returns, Route
<1>7. ASSUME NEW j \in Job, RestThrows(j) PROVE Honest(k)'
  BY <1>0, <1>7 DEF RestThrows, Honest, Go, Returns, Route
<1>8. ASSUME NEW j \in Job, NEW r \in Route, Accept(j, r) \/ Refuse(j, r) \/ Completes(j, r) \/ Fails(j, r)
      PROVE  Honest(k)'
  <2>1. UNCHANGED <<stage, result>>
    BY <1>8 DEF Accept, Refuse, Completes, Fails, clientVars
  <2>2. PICK new \in States \ {"none"} : /\ execution' = [execution EXCEPT ![j][r] = new]
                                         /\ execution[j][r] # "none"
    BY <1>8 DEF Accept, Refuse, Completes, Fails, Accepted, States
  <2>. QED  BY <1>0, <2>1, <2>2 DEF Honest, Route
<1>9. CASE UNCHANGED <<stage, result, execution>>
  BY <1>0, <1>9 DEF Honest
<1>10. ASSUME ScriptStart \/ ScriptMint \/ ScriptFails \/ Direct \/ UNCHANGED vars
       PROVE  UNCHANGED <<stage, result, execution>>
  BY <1>10 DEF ScriptStart, ScriptMint, ScriptFails, Direct, vars, keeperVars, clientVars
<1>. QED
  BY <1>1, <1>2, <1>3, <1>4, <1>5, <1>6, <1>7, <1>8, <1>9, <1>10 DEF Next, Client

(* What the MCP server has answered, the REST API is never asked for.      *)
THEOREM OnlyFallbacksDouble == Spec => []FallbackOnly
<1>1. Spec => []KeeperType
  BY KeeperTypeInit, KeeperTypeStep, PTL DEF Spec
<1>2. Init => HonestInv
  BY DEF Init, HonestInv, Honest, Route
<1>3. HonestInv => FallbackOnly
  BY DEF HonestInv, Honest, FallbackOnly
<1>. QED  BY <1>1, <1>2, <1>3, HonestStep, PTL DEF Spec

=============================================================================
