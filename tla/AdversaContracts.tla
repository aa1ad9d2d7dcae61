-------------------------- MODULE AdversaContracts --------------------------
(***************************************************************************)
(* The three contracts on 0G Chain, AdversaRegistry, AdversaReputation and *)
(* AdversaINFT, as deploy.ts leaves them.  A transaction is one step and   *)
(* has its sender as a parameter; one that reverts is no step at all, so a *)
(* guard is what the modifiers and the custom errors of the code let pass. *)
(*                                                                         *)
(* The callback of _safeMint runs before the token has its metadata.  It   *)
(* cannot enter mintAgent or evolveAgent again (nonReentrant), and may     *)
(* otherwise only transfer the token, which is the same as a transfer in   *)
(* the next step.                                                          *)
(***************************************************************************)
EXTENDS Integers, FiniteSets, Sequences

CONSTANTS
  Wallet,             (* the addresses that send transactions                *)
  Deployer,           (* the one that ran deploy.ts                          *)
  RegistryAddress,    (* the registry itself, which calls no other contract  *)
  ReputationAddress,  (* nor does the reputation contract                    *)
  Zero,               (* address(0)                                          *)
  Grantee,            (* whom an owner may approve, revoke or hand over to   *)
  Hash,               (* hashes of pull requests                             *)
  Role,               (* the roles an agent may be minted for                *)
  Blob                (* encrypted intelligence, with its hash               *)

ASSUME AddressAssumption ==
  /\ Deployer \in Wallet /\ Zero \notin Wallet
  /\ Grantee \subseteq Wallet \cup {RegistryAddress, ReputationAddress}
  /\ RegistryAddress \notin Wallet \cup {Zero}
  /\ ReputationAddress \notin Wallet \cup {Zero}

VARIABLES
  owner,        (* owner of each contract                                    *)
  approved,     (* approvedCallers of registry and reputation                *)
  reviews,      (* AdversaRegistry.reviews: the verdict under a hash         *)
  allPRHashes,  (* AdversaRegistry._allPRHashes                              *)
  agentStats,   (* AdversaReputation.agentStats                              *)
  registeredAgents, (* AdversaReputation._registeredAgents                   *)
  agentMetadata,    (* AdversaINFT.agentMetadata, of tokens 1, 2, ...        *)
  holder,           (* ownerOf                                               *)
  roleToTokenId,    (* AdversaINFT.roleToTokenId                             *)
  ownerTokens,      (* AdversaINFT._ownerTokens                              *)
  reputationContract, (* AdversaINFT.reputationContract                      *)
  sender              (* history: who sent the last transaction              *)

registryVars   == <<reviews, allPRHashes>>
reputationVars == <<agentStats, registeredAgents>>
tokenVars      == <<agentMetadata, holder, roleToTokenId, ownerTokens>>
accessVars     == <<owner, approved, reputationContract>>
contractVars   == <<accessVars, registryVars, reputationVars, tokenVars, sender>>

-----------------------------------------------------------------------------
Contract == {"registry", "reputation", "inft"}
Guarded  == {"registry", "reputation"}
Address  == Wallet \cup {RegistryAddress, ReputationAddress}
Verdict  == {"none", "approved", "rejected"}

(* AgentStats; the score is an int256, far from its limits.                *)
Stats == [reputationScore : Int, totalReviews : Nat, accurateReviews : Nat,
          exploitsFound : Nat, exploitsFalsePositive : Nat, exists : BOOLEAN]

Nobody == [reputationScore |-> 0, totalReviews |-> 0, accurateReviews |-> 0,
           exploitsFound |-> 0, exploitsFalsePositive |-> 0, exists |-> FALSE]

Metadata == [blob : Blob, role : Role, evolutionCount : Nat,
             reputationScore : Int, totalReviews : Nat, active : BOOLEAN]

Tokens    == 1 .. Len(agentMetadata)
Exists(t) == t \in Tokens

(* onlyApproved; revoking the owner's approval does not keep it out.       *)
MayWrite(s, c) == s \in approved[c] \/ s = owner[c]
IsOwner(s, c)  == s = owner[c]

-----------------------------------------------------------------------------
(* The constructors approve the deployer, deploy.ts the registry.          *)
ApprovedAtStart == [c \in Guarded |->
  {Deployer} \cup IF c = "reputation" THEN {RegistryAddress} ELSE {}]

ContractInit ==
  /\ owner = [c \in Contract |-> Deployer] /\ approved = ApprovedAtStart
  /\ reviews = [h \in Hash |-> "none"] /\ allPRHashes = <<>>
  /\ agentStats = [a \in Wallet |-> Nobody] /\ registeredAgents = <<>>
  /\ agentMetadata = <<>> /\ holder = <<>>
  /\ roleToTokenId = [r \in Role |-> 0] /\ ownerTokens = [a \in Wallet |-> <<>>]
  /\ reputationContract = ReputationAddress /\ sender = Deployer

-----------------------------------------------------------------------------
(* Who may do what.                                                        *)
ApproveCaller(s, c, a) ==
  /\ IsOwner(s, c) /\ sender' = s
  /\ approved' = [approved EXCEPT ![c] = @ \cup {a}]
  /\ UNCHANGED <<owner, reputationContract, registryVars, reputationVars, tokenVars>>

(* AdversaReputation has no revokeCaller.                                  *)
RevokeCaller(s, a) ==
  /\ IsOwner(s, "registry") /\ sender' = s
  /\ approved' = [approved EXCEPT !["registry"] = @ \ {a}]
  /\ UNCHANGED <<owner, reputationContract, registryVars, reputationVars, tokenVars>>

(* Leaves the approvals, the one of the old owner included.                *)
TransferOwnership(s, new) ==
  /\ IsOwner(s, "registry") /\ sender' = s
  /\ owner' = [owner EXCEPT !["registry"] = new]
  /\ UNCHANGED <<approved, reputationContract, registryVars, reputationVars, tokenVars>>

(* Ownable of OpenZeppelin: transferOwnership, and renounceOwnership, which *)
(* leaves address(0) as the owner.                                         *)
TransferINFTOwnership(s, new) ==
  /\ IsOwner(s, "inft") /\ sender' = s
  /\ owner' = [owner EXCEPT !["inft"] = new]
  /\ UNCHANGED <<approved, reputationContract, registryVars, reputationVars, tokenVars>>

SetReputationContract(s, a) ==
  /\ IsOwner(s, "inft") /\ sender' = s
  /\ reputationContract' = a
  /\ UNCHANGED <<owner, approved, registryVars, reputationVars, tokenVars>>

-----------------------------------------------------------------------------
(* AdversaRegistry.                                                        *)

(* Mutant: a second review of a hash replaces the first.                   *)
MayRecordAgain(s, h) == MayWrite(s, "registry")

MayRecord(s, h) == MayWrite(s, "registry") /\ reviews[h] = "none"

RecordReview(s, h, verdict) ==
  /\ MayRecord(s, h) /\ sender' = s
  /\ reviews' = [reviews EXCEPT ![h] = verdict]
  /\ allPRHashes' = Append(allPRHashes, h)
  /\ UNCHANGED <<accessVars, reputationVars, tokenVars>>

-----------------------------------------------------------------------------
(* AdversaReputation.                                                      *)

(* Registration, which every update repeats for an unknown agent.          *)
Known(a) == [agentStats[a] EXCEPT !.exists = TRUE]

(* Mutant: an update registers its agent whether or not it is known.       *)
EnrolledAgentsAgain(a) == Append(registeredAgents, a)

EnrolledAgents(a) ==
  IF agentStats[a].exists THEN registeredAgents ELSE Append(registeredAgents, a)

RegisterAgent(s, a) ==
  /\ MayWrite(s, "reputation") /\ sender' = s
  /\ agentStats' = [agentStats EXCEPT ![a] = Known(a)]
  /\ registeredAgents' = EnrolledAgents(a)
  /\ UNCHANGED <<accessVars, registryVars, tokenVars>>

(* Mutant: the penalty is the bonus with its sign turned.                  *)
AfterReviewSymmetric(st, accurate) ==
  [st EXCEPT !.totalReviews = @ + 1,
             !.accurateReviews = IF accurate THEN @ + 1 ELSE @,
             !.reputationScore = IF accurate THEN @ + 10 ELSE @ - 10]

AfterReview(st, accurate) ==
  [st EXCEPT !.totalReviews = @ + 1,
             !.accurateReviews = IF accurate THEN @ + 1 ELSE @,
             !.reputationScore = IF accurate THEN @ + 10 ELSE @ - 20]

UpdateReputation(s, a, accurate) ==
  /\ MayWrite(s, "reputation") /\ sender' = s
  /\ agentStats' = [agentStats EXCEPT ![a] = AfterReview(Known(a), accurate)]
  /\ registeredAgents' = EnrolledAgents(a)
  /\ UNCHANGED <<accessVars, registryVars, tokenVars>>

AfterExploit(st, falsePositive) ==
  IF falsePositive
  THEN [st EXCEPT !.exploitsFalsePositive = @ + 1, !.reputationScore = @ - 5]
  ELSE [st EXCEPT !.exploitsFound = @ + 1, !.reputationScore = @ + 25]

RecordExploit(s, a, falsePositive) ==
  /\ MayWrite(s, "reputation") /\ sender' = s
  /\ agentStats' = [agentStats EXCEPT ![a] = AfterExploit(Known(a), falsePositive)]
  /\ registeredAgents' = EnrolledAgents(a)
  /\ UNCHANGED <<accessVars, registryVars, tokenVars>>

-----------------------------------------------------------------------------
(* AdversaINFT.                                                            *)

NewMetadata(blob, role) ==
  [blob |-> blob, role |-> role, evolutionCount |-> 0,
   reputationScore |-> 0, totalReviews |-> 0, active |-> TRUE]

MintAgent(s, to, blob, role) ==
  LET t == Len(agentMetadata) + 1
  IN /\ IsOwner(s, "inft") /\ sender' = s
     /\ agentMetadata' = Append(agentMetadata, NewMetadata(blob, role))
     /\ holder' = Append(holder, to)
     /\ roleToTokenId' = [roleToTokenId EXCEPT ![role] = t]
     /\ ownerTokens' = [ownerTokens EXCEPT ![to] = Append(@, t)]
     /\ UNCHANGED <<accessVars, registryVars, reputationVars>>

(* Mutant: the owner is looked up in _ownerTokens.                         *)
MayEvolveListed(s, t) ==
  Exists(t) /\ (\E i \in DOMAIN ownerTokens[s] : ownerTokens[s][i] = t) /\ agentMetadata[t].active

MayEvolve(s, t) == Exists(t) /\ holder[t] = s /\ agentMetadata[t].active

EvolveAgent(s, t, blob) ==
  /\ MayEvolve(s, t) /\ sender' = s
  /\ agentMetadata' = [agentMetadata EXCEPT ![t].blob = blob, ![t].evolutionCount = @ + 1]
  /\ UNCHANGED <<accessVars, registryVars, reputationVars, holder, roleToTokenId, ownerTokens>>

(* The contract takes any numbers: nothing reads AdversaReputation.        *)
SyncReputation(s, t, score, total) ==
  /\ s = reputationContract \/ IsOwner(s, "inft")
  /\ Exists(t) /\ sender' = s
  /\ agentMetadata' = [agentMetadata EXCEPT ![t].reputationScore = score, ![t].totalReviews = total]
  /\ UNCHANGED <<accessVars, registryVars, reputationVars, holder, roleToTokenId, ownerTokens>>

SetActive(s, t, active) ==
  /\ IsOwner(s, "inft") /\ Exists(t) /\ sender' = s
  /\ agentMetadata' = [agentMetadata EXCEPT ![t].active = active]
  /\ UNCHANGED <<accessVars, registryVars, reputationVars, holder, roleToTokenId, ownerTokens>>

(* transferFrom of ERC721; _ownerTokens knows nothing of it.               *)
TransferToken(s, t, to) ==
  /\ Exists(t) /\ holder[t] = s /\ sender' = s
  /\ holder' = [holder EXCEPT ![t] = to]
  /\ UNCHANGED <<accessVars, registryVars, reputationVars, agentMetadata, roleToTokenId, ownerTokens>>

-----------------------------------------------------------------------------
Events(a) == agentStats[a].totalReviews + agentStats[a].exploitsFound
               + agentStats[a].exploitsFalsePositive

AccessStep(s) ==
  \/ \E c \in Guarded, a \in Grantee : ApproveCaller(s, c, a)
  \/ \E a \in Grantee : RevokeCaller(s, a)
  \/ \E a \in Grantee : TransferOwnership(s, a)
  \/ \E a \in Grantee \cup {Zero} : TransferINFTOwnership(s, a)
  \/ \E a \in Grantee : SetReputationContract(s, a)

ReputationStep(s) ==
  \E a \in Wallet :
    \/ RegisterAgent(s, a)
    \/ \E b \in BOOLEAN : UpdateReputation(s, a, b) \/ RecordExploit(s, a, b)

TokenStep(s) ==
  \/ \E to \in Wallet, blob \in Blob, role \in Role : MintAgent(s, to, blob, role)
  \/ \E t \in Tokens :
       \/ \E blob \in Blob : EvolveAgent(s, t, blob)
       \/ \E a \in Wallet :
            SyncReputation(s, t, agentStats[a].reputationScore, agentStats[a].totalReviews)
       \/ \E active \in BOOLEAN : SetActive(s, t, active)
       \/ \E to \in Wallet : TransferToken(s, t, to)

Transact(s) ==
  \/ AccessStep(s)
  \/ \E h \in Hash, v \in {"approved", "rejected"} : RecordReview(s, h, v)
  \/ ReputationStep(s)
  \/ TokenStep(s)

ContractNext == \E s \in Wallet : Transact(s)
ContractSpec == ContractInit /\ [][ContractNext]_contractVars

-----------------------------------------------------------------------------
(* The state of the contracts has its type.                                *)
ContractTypeOK ==
  /\ owner \in [Contract -> Address \cup {Zero}]
  /\ approved \in [Guarded -> SUBSET Address]
  /\ reviews \in [Hash -> Verdict] /\ allPRHashes \in Seq(Hash)
  /\ agentStats \in [Wallet -> Stats] /\ registeredAgents \in Seq(Wallet)
  /\ agentMetadata \in Seq(Metadata) /\ holder \in Seq(Wallet)
  /\ Len(holder) = Len(agentMetadata)
  /\ roleToTokenId \in [Role -> Nat] /\ ownerTokens \in [Wallet -> Seq(Nat)]
  /\ reputationContract \in Address /\ sender \in Wallet

(* The index of the registry lists every recorded hash once, and nothing   *)
(* else: getTotalReviews and getApprovalRate count over it.                *)
IndexIsExact ==
  /\ \A h \in Hash : reviews[h] # "none" <=> \E i \in DOMAIN allPRHashes : allPRHashes[i] = h
  /\ \A i, j \in DOMAIN allPRHashes : allPRHashes[i] = allPRHashes[j] => i = j

(* A review, once recorded, is never replaced or removed, whoever owns the *)
(* registry by then: "stores review outcomes immutably".                   *)
RecordsAreFinal ==
  [][\A h \in Hash : reviews[h] # "none" => reviews'[h] = reviews[h]]_contractVars

(* The score of an agent is what its counters say, whatever the order of   *)
(* the updates that came in, and whether or not it was registered first.   *)
LedgerBalances ==
  \A a \in Wallet :
    LET st == agentStats[a]
    IN /\ st.reputationScore = 10 * st.accurateReviews
                                 - 20 * (st.totalReviews - st.accurateReviews)
                                 + 25 * st.exploitsFound - 5 * st.exploitsFalsePositive
       /\ st.accurateReviews <= st.totalReviews

(* registeredAgents lists every agent with a record once: getTopAgents     *)
(* reads it in this order.                                                 *)
AgentsListedOnce ==
  /\ \A a \in Wallet : agentStats[a].exists <=> \E i \in DOMAIN registeredAgents : registeredAgents[i] = a
  /\ \A i, j \in DOMAIN registeredAgents : registeredAgents[i] = registeredAgents[j] => i = j
  /\ \A a \in Wallet : ~agentStats[a].exists => Events(a) = 0

(* The intelligence of a token is changed only by the one who holds it at  *)
(* that moment, whoever minted it or held it before.                       *)
HolderEvolves ==
  [][\A t \in Tokens :
       agentMetadata'[t].evolutionCount # agentMetadata[t].evolutionCount
         => holder[t] = sender' /\ agentMetadata[t].active]_contractVars

=============================================================================
