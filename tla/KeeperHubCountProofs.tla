------------------------ MODULE KeeperHubCountProofs ------------------------
(***************************************************************************)
(* What is counted in KeeperHub, for any wallets, calls and requests: the  *)
(* executions that the service has completed against what they left on the *)
(* chain.                                                                  *)
(*                                                                         *)
(* Nothing bounds the number of calls, so the sets that are counted are    *)
(* shown to be finite on the way: a step completes one execution at most.  *)
(***************************************************************************)
EXTENDS KeeperHubProofs, FiniteSetTheorems

(* What the proofs below rest on.                                          *)
Base == KeeperType /\ HonestInv /\ ContractInv

LEMMA BaseHolds == Spec => []Base
<1>1. Init => Base
  BY KeeperTypeInit, ContractInvInit DEF Init, HonestInv, Honest, Route, Base
<1>2. Base /\ [Next]_vars => Base'
  BY KeeperTypeStep, HonestStep, StepTransacts, ContractInvStep DEF Base
<1>. QED  BY <1>1, <1>2, PTL DEF Spec

-----------------------------------------------------------------------------
(***************************************************************************)
(* Lemmas on counting.                                                     *)
(***************************************************************************)

(* One more member, and room for one more.                                 *)
LEMMA CountOneMore ==
  ASSUME NEW S, NEW x, IsFiniteSet(S), NEW n \in Nat, Cardinality(S) <= n
  PROVE  IsFiniteSet(S \cup {x}) /\ Cardinality(S \cup {x}) <= n + 1
<1>1. Cardinality(S) \in Nat
  BY FS_CardinalityType
<1>. QED  BY <1>1, FS_AddElement

-----------------------------------------------------------------------------
(***************************************************************************)
(* A step completes nothing, or one execution.                             *)
(***************************************************************************)
Completed(j, r) == execution[j][r] = "completed"

(* Nothing is completed, and nothing forgotten.                            *)
Quiet ==
  /\ funded' = funded
  /\ \A j \in Job, r \in Route :
       /\ Completed(j, r)' <=> Completed(j, r)
       /\ Completed(j, r) => request'[j] = request[j]

CompletesNow(j, r) ==
  /\ ~Completed(j, r) /\ Performs(request[j]) /\ request' = request
  /\ execution' = [execution EXCEPT ![j][r] = "completed"]

LEMMA CompletionCases ==
  ASSUME Base, [Next]_vars
  PROVE  Quiet \/ \E j \in Job, r \in Route : CompletesNow(j, r)
<1>0. /\ execution \in [Job -> [Route -> States]] /\ request \in [Job -> AnyRequest]
      /\ \A j \in Job : Honest(j)
  BY DEF Base, KeeperType, HonestInv
<1>1. ASSUME NEW j \in Job, NEW q \in Requests[j], Call(j, q) PROVE Quiet
  <2>1. \A r \in Route : ~Completed(j, r)
    BY <1>0, <1>1 DEF Call, Honest, Completed
  <2>2. /\ UNCHANGED <<execution, funded>>
        /\ \A k \in Job : k # j => request'[k] = request[k]
    BY <1>0, <1>1 DEF Call
  <2>. QED  BY <2>1, <2>2 DEF Quiet, Completed
<1>2. ASSUME NEW j \in Job, Client(j) PROVE Quiet
  <2>1. UNCHANGED <<funded, request>>
    BY <1>2 DEF Client, McpCreated, McpAnswers, McpThrows, RestCreated, RestAnswers, RestThrows
  <2>2. CASE UNCHANGED execution
    BY <2>1, <2>2 DEF Quiet, Completed
  <2>3. CASE McpCreated(j)
    <3>1. Asks(j, "mcp") /\ execution[j]["mcp"] = "none"
      BY <1>0, <2>3 DEF McpCreated, Honest, Route
    <3>. QED  BY <1>0, <2>1, <3>1 DEF Asks, Quiet, Completed, Route
  <2>4. CASE RestCreated(j)
    <3>1. Asks(j, "rest") /\ execution[j]["rest"] = "none"
      BY <1>0, <2>4 DEF RestCreated, Honest
    <3>. QED  BY <1>0, <2>1, <3>1 DEF Asks, Quiet, Completed, Route
  <2>. QED  BY <1>2, <2>2, <2>3, <2>4 DEF Client, McpAnswers, McpThrows, RestAnswers, RestThrows
<1>3. ASSUME NEW j \in Job, NEW r \in Route, Accept(j, r) \/ Refuse(j, r) \/ Fails(j, r) PROVE Quiet
  <2>1. UNCHANGED <<funded, request>>
    BY <1>3 DEF Accept, Refuse, Fails, clientVars
  <2>2. PICK new \in {"accepted", "refused", "failed"} :
          ~Completed(j, r) /\ execution' = [execution EXCEPT ![j][r] = new]
    BY <1>3 DEF Accept, Refuse, Fails, Completed
  <2>. QED  BY <1>0, <2>1, <2>2 DEF Quiet, Completed
<1>4. ASSUME NEW j \in Job, NEW r \in Route, Completes(j, r) PROVE CompletesNow(j, r)
  BY <1>4 DEF Completes, CompletesNow, Completed, clientVars
<1>5. ASSUME ScriptStart \/ ScriptMint \/ ScriptFails \/ Direct \/ UNCHANGED vars PROVE Quiet
  <2>1. UNCHANGED <<funded, request, execution>>
    BY <1>5 DEF ScriptStart, ScriptMint, ScriptFails, Direct, vars, keeperVars, clientVars
  <2>. QED  BY <2>1 DEF Quiet, Completed
<1>. QED  BY <1>1, <1>2, <1>3, <1>4, <1>5 DEF Next

(* The executions that are counted together: those of one kind, by what    *)
(* they were asked to do.                                                  *)
LEMMA DoneIs ==
  ASSUME NEW op, NEW e
  PROVE  e \in Done(op) <=> \E j \in Job, r \in Route : /\ e = <<j, r>> /\ Completed(j, r)
                                                       /\ request[j].op = op
BY DEF Done, Completed

LEMMA DoneQuietly ==
  ASSUME Quiet, NEW op
  PROVE  /\ Done(op)' = Done(op)
         /\ \A e \in Done(op) : request'[e[1]] = request[e[1]]
<1>1. \A j \in Job, r \in Route :
        (Completed(j, r) /\ request[j].op = op)' <=> Completed(j, r) /\ request[j].op = op
  BY DEF Quiet
<1>2. Done(op)' = Done(op)
  BY <1>1 DEF Done, Completed
<1>3. \A e \in Done(op) : request'[e[1]] = request[e[1]]
  BY DoneIs DEF Quiet
<1>. QED  BY <1>2, <1>3

LEMMA DoneNow ==
  ASSUME Base, NEW j \in Job, NEW r \in Route, CompletesNow(j, r), NEW op
  PROVE  /\ Done(op)' = IF request[j].op = op THEN Done(op) \cup {<<j, r>>} ELSE Done(op)
         /\ <<j, r>> \notin Done(op)
<1>1. execution \in [Job -> [Route -> States]]
  BY DEF Base, KeeperType
<1>2. \A k \in Job, s \in Route : Completed(k, s)' <=> Completed(k, s) \/ (k = j /\ s = r)
  BY <1>1 DEF CompletesNow, Completed
<1>3. /\ Done(op) = {e \in Job \X Route : Completed(e[1], e[2]) /\ request[e[1]].op = op}
      /\ Done(op)' = {e \in Job \X Route : Completed(e[1], e[2])' /\ request[e[1]].op = op}
  BY DEF Done, Completed, CompletesNow
<1>4. \A e \in Job \X Route : e[1] \in Job /\ e[2] \in Route /\ e = <<e[1], e[2]>>
  OBVIOUS
<1>5. \A e \in Job \X Route :
        Completed(e[1], e[2])' <=> Completed(e[1], e[2]) \/ e = <<j, r>>
  BY <1>2, <1>4
<1>6. <<j, r>> \in Job \X Route /\ ~Completed(j, r)
  BY DEF CompletesNow
<1>. QED  BY <1>3, <1>5, <1>6

-----------------------------------------------------------------------------
(***************************************************************************)
(* Reviews: the registry takes one, and keeps it.                          *)
(***************************************************************************)
ReviewsDone ==
  /\ \A e, f \in Done("recordReview") : request[e[1]].hash = request[f[1]].hash => e = f
  /\ \A e \in Done("recordReview") : /\ request[e[1]] \in RecordRequest
                                     /\ reviews[request[e[1]].hash] = request[e[1]].verdict

(* A request is told by its op.                                            *)
LEMMA RequestByOp ==
  ASSUME NEW q \in AnyRequest
  PROVE  /\ q.op = "recordReview" => q \in RecordRequest
         /\ q.op = "updateReputation" => q \in UpdateRequest
         /\ q.op = "mintAgent" => q \in MintRequest
BY DEF AnyRequest, RecordRequest, UpdateRequest, MintRequest, EvolveRequest, FundRequest

LEMMA ReviewsDoneStep ==
  ASSUME Base, ReviewsDone, [Next]_vars
  PROVE  ReviewsDone'
<1> DEFINE done == Done("recordReview")
<1>0. [ContractNext]_contractVars /\ RegistryType
  BY StepTransacts DEF Base, ContractInv
<1>1. \A h \in Hash : reviews[h] # "none" => reviews'[h] = reviews[h]
  BY <1>0, RecordsStep
<1>2. \A e \in done : /\ request[e[1]] \in RecordRequest
                      /\ request[e[1]].hash \in Hash /\ request[e[1]].verdict # "none"
                      /\ reviews[request[e[1]].hash] = request[e[1]].verdict
  BY DEF ReviewsDone, RecordRequest
<1>3. \A e \in done : reviews'[request[e[1]].hash] = request[e[1]].verdict
  BY <1>1, <1>2
<1>4. CASE Quiet
  <2>1. done' = done /\ \A e \in done : request'[e[1]] = request[e[1]]
    BY <1>4, DoneQuietly
  <2>. QED  BY <1>2, <1>3, <2>1 DEF ReviewsDone
<1>5. ASSUME NEW j \in Job, NEW r \in Route, CompletesNow(j, r) PROVE ReviewsDone'
  <2>0. request' = request /\ request[j] \in AnyRequest
    BY <1>5 DEF CompletesNow, Base, KeeperType
  <2>1. CASE request[j].op # "recordReview"
    <3>1. done' = done
      BY <1>5, <2>1, DoneNow
    <3>. QED  BY <1>2, <1>3, <2>0, <3>1 DEF ReviewsDone
  <2>2. CASE request[j].op = "recordReview"
    <3>1. done' = done \cup {<<j, r>>} /\ <<j, r>>[1] = j
      BY <1>5, <2>2, DoneNow
    <3>2. request[j] \in RecordRequest
      BY <2>0, <2>2, RequestByOp
    <3>3. RecordReview(Keeper, request[j].hash, request[j].verdict) /\ request[j].hash \in Hash
      BY <1>5, <2>2, <3>2 DEF CompletesNow, Performs, RecordRequest
    <3>4. /\ reviews[request[j].hash] = "none"
          /\ reviews'[request[j].hash] = request[j].verdict
      BY <1>0, <3>3 DEF RecordReview, MayRecord, RegistryType
    <3>5. \A e \in done : request[e[1]].hash # request[j].hash
      BY <1>2, <3>4
    <3> HIDE DEF done
    <3>6. /\ \A e, f \in done' : request[e[1]].hash = request[f[1]].hash => e = f
          /\ \A e \in done' : /\ request[e[1]] \in RecordRequest
                              /\ reviews'[request[e[1]].hash] = request[e[1]].verdict
      <4>1. \A e, f \in done : request[e[1]].hash = request[f[1]].hash => e = f
        BY DEF ReviewsDone, done
      <4>. QED  BY <1>2, <1>3, <3>1, <3>2, <3>4, <3>5, <4>1
    <3>. QED  BY <2>0, <3>6 DEF ReviewsDone, done
  <2>. QED  BY <2>1, <2>2
<1>. QED  BY <1>4, <1>5, CompletionCases

-----------------------------------------------------------------------------
(***************************************************************************)
(* Updates: an agent has at least as many reviews as were executed for it. *)
(***************************************************************************)
UpdatesOf(a) == {e \in Done("updateReputation") : request[e[1]].agent = a}

UpdatesCounted ==
  \A a \in Wallet : /\ IsFiniteSet(UpdatesOf(a))
                    /\ Cardinality(UpdatesOf(a)) <= agentStats[a].totalReviews

(* No transaction lowers a count of reviews, and an update raises it.      *)
LEMMA ReviewsOnlyGrow ==
  ASSUME ReputationType, [ContractNext]_contractVars, NEW a \in Wallet
  PROVE  /\ agentStats[a].totalReviews \in Nat /\ agentStats'[a].totalReviews \in Nat
         /\ agentStats[a].totalReviews <= agentStats'[a].totalReviews
<1>0. /\ agentStats \in [Wallet -> Stats]
      /\ \A b \in Wallet : agentStats[b] \in Stats /\ agentStats[b].totalReviews \in Nat
  BY StatsFields DEF ReputationType
<1>1. CASE UNCHANGED agentStats
  BY <1>0, <1>1
<1>2. ASSUME NEW s \in Wallet, ReputationStep(s)
      PROVE  /\ agentStats'[a].totalReviews \in Nat
             /\ agentStats[a].totalReviews <= agentStats'[a].totalReviews
  <2> DEFINE left(b) == {Known(b)} \cup {AfterReview(Known(b), x) : x \in BOOLEAN}
                         \cup {AfterExploit(Known(b), x) : x \in BOOLEAN}
  <2>0. PICK b \in Wallet : \E st \in left(b) : agentStats' = [agentStats EXCEPT ![b] = st]
    BY <1>2, ReputationWrites
  <2>1. PICK st \in left(b) : agentStats' = [agentStats EXCEPT ![b] = st]
    BY <2>0
  <2>2. Known(b) \in Stats /\ Known(b).totalReviews = agentStats[b].totalReviews
    BY <1>0, KnownStats DEF Known, Stats
  <2>3. \A x \in BOOLEAN :
          /\ AfterReview(Known(b), x).totalReviews = agentStats[b].totalReviews + 1
          /\ AfterExploit(Known(b), x).totalReviews = agentStats[b].totalReviews
    BY <2>2 DEF AfterReview, AfterExploit, Stats
  <2>4. st.totalReviews \in {agentStats[b].totalReviews, agentStats[b].totalReviews + 1}
    BY <2>1, <2>2, <2>3
  <2>. QED  BY <1>0, <2>1, <2>4
<1>3. ASSUME NEW s \in Wallet, NEW h \in Hash, NEW v \in {"approved", "rejected"}, RecordReview(s, h, v)
      PROVE  UNCHANGED agentStats
  BY <1>3 DEF RecordReview, reputationVars
<1>. QED
  BY <1>0, <1>1, <1>2, <1>3, StepCases, AccessWrites, TokenWrites DEF contractVars, reputationVars

LEMMA UpdateCounts ==
  ASSUME ReputationType, NEW s, NEW a \in Wallet, NEW b \in BOOLEAN, UpdateReputation(s, a, b)
  PROVE  agentStats'[a].totalReviews = agentStats[a].totalReviews + 1
<1>1. agentStats \in [Wallet -> Stats] /\ agentStats[a] \in Stats
  BY DEF ReputationType
<1>2. Known(a) \in Stats /\ Known(a).totalReviews = agentStats[a].totalReviews
  BY <1>1, KnownStats DEF Known, Stats
<1>3. AfterReview(Known(a), b).totalReviews = agentStats[a].totalReviews + 1
  BY <1>2 DEF AfterReview, Stats
<1>4. agentStats' = [agentStats EXCEPT ![a] = AfterReview(Known(a), b)]
  BY DEF UpdateReputation
<1>5. agentStats'[a] = AfterReview(Known(a), b)
  <2> HIDE DEF ReputationType
  <2>. QED  BY <1>1, <1>4
<1>. QED  BY <1>3, <1>5

LEMMA UpdatesCountedStep ==
  ASSUME Base, UpdatesCounted, [Next]_vars
  PROVE  UpdatesCounted'
<1> SUFFICES ASSUME NEW a \in Wallet
             PROVE  /\ IsFiniteSet(UpdatesOf(a)')
                    /\ Cardinality(UpdatesOf(a)') <= agentStats'[a].totalReviews
  BY DEF UpdatesCounted
<1>0. [ContractNext]_contractVars /\ ReputationType
  BY StepTransacts DEF Base, ContractInv, ReputationBooks
<1>1. /\ agentStats[a].totalReviews \in Nat /\ agentStats'[a].totalReviews \in Nat
      /\ agentStats[a].totalReviews <= agentStats'[a].totalReviews
  BY <1>0, ReviewsOnlyGrow
<1>2. /\ IsFiniteSet(UpdatesOf(a)) /\ Cardinality(UpdatesOf(a)) <= agentStats[a].totalReviews
      /\ Cardinality(UpdatesOf(a)) \in Nat
  BY FS_CardinalityType DEF UpdatesCounted
<1>3. CASE UpdatesOf(a)' = UpdatesOf(a)
  BY <1>1, <1>2, <1>3
<1>4. CASE Quiet
  <2>1. UpdatesOf(a)' = UpdatesOf(a)
    BY <1>4, DoneQuietly DEF UpdatesOf
  <2>. QED  BY <1>3, <2>1
<1>5. ASSUME NEW j \in Job, NEW r \in Route, CompletesNow(j, r)
      PROVE  /\ IsFiniteSet(UpdatesOf(a)')
             /\ Cardinality(UpdatesOf(a)') <= agentStats'[a].totalReviews
  <2>0. request' = request /\ request[j] \in AnyRequest /\ <<j, r>>[1] = j
    BY <1>5 DEF CompletesNow, Base, KeeperType
  <2>1. CASE request[j].op = "updateReputation" /\ request[j].agent = a
    <3>1. UpdatesOf(a)' = UpdatesOf(a) \cup {<<j, r>>}
      BY <1>5, <2>0, <2>1, DoneNow DEF UpdatesOf
    <3>2. request[j].accurate \in BOOLEAN /\ UpdateReputation(Keeper, a, request[j].accurate)
      BY <1>5, <2>0, <2>1, RequestByOp DEF CompletesNow, Performs, UpdateRequest
    <3>3. agentStats'[a].totalReviews = agentStats[a].totalReviews + 1
      BY <1>0, <3>2, UpdateCounts
    <3>4. /\ IsFiniteSet(UpdatesOf(a) \cup {<<j, r>>})
          /\ Cardinality(UpdatesOf(a) \cup {<<j, r>>}) <= agentStats[a].totalReviews + 1
      BY <1>1, <1>2, CountOneMore
    <3>. QED  BY <3>1, <3>3, <3>4
  <2>2. CASE ~(request[j].op = "updateReputation" /\ request[j].agent = a)
    <3>1. UpdatesOf(a)' = UpdatesOf(a)
      BY <1>5, <2>0, <2>2, DoneNow DEF UpdatesOf
    <3>. QED  BY <1>3, <3>1
  <2>. QED  BY <2>1, <2>2
<1>. QED  BY <1>4, <1>5, CompletionCases

-----------------------------------------------------------------------------
(***************************************************************************)
(* Mints: a role has at least as many tokens as were minted for it.        *)
(***************************************************************************)
MintsOf(r)  == {e \in Done("mintAgent") : request[e[1]].role = r}
TokensOf(r) == {t \in Tokens : agentMetadata[t].role = r}

MintsCounted ==
  \A r \in Role : /\ IsFiniteSet(MintsOf(r))
                  /\ Cardinality(MintsOf(r)) <= Cardinality(TokensOf(r))

LEMMA TokensFinite ==
  ASSUME TokenType, NEW r
  PROVE  IsFiniteSet(TokensOf(r)) /\ Cardinality(TokensOf(r)) \in Nat
<1>1. IsFiniteSet(Tokens)
  BY FS_Interval DEF TokenType, Tokens
<1>2. TokensOf(r) \in SUBSET Tokens
  BY DEF TokensOf
<1>3. IsFiniteSet(TokensOf(r))
  BY <1>1, <1>2, FS_Subset
<1>. QED  BY <1>3, FS_CardinalityType

(* A mint gives its role one token.                                        *)
LEMMA MintAdds ==
  ASSUME TokenType, NEW s, NEW to, NEW blob \in Blob, NEW role \in Role,
         MintAgent(s, to, blob, role), NEW r
  PROVE  /\ Len(agentMetadata) + 1 \notin TokensOf(r)
         /\ TokensOf(r)' = IF r = role THEN TokensOf(r) \cup {Len(agentMetadata) + 1}
                           ELSE TokensOf(r)
<1> DEFINE n == Len(agentMetadata)
           new == NewMetadata(blob, role)
<1>1. agentMetadata \in Seq(Metadata) /\ n \in Nat /\ Tokens = 1 .. n
  BY DEF TokenType, Tokens
<1>2. new \in Metadata /\ new.role = role
  BY NewMetadataTyped
<1>3. agentMetadata' = Append(agentMetadata, new)
  BY DEF MintAgent
<1> HIDE DEF new
<1>4. /\ Tokens' = 1 .. (n + 1) /\ agentMetadata'[n + 1] = new
      /\ \A t \in 1 .. n : agentMetadata'[t] = agentMetadata[t]
  BY <1>1, <1>3 DEF Tokens
<1>. QED  BY <1>1, <1>2, <1>4 DEF TokensOf

(* No transaction takes a token from its role.                             *)
LEMMA TokensOnlyGrow ==
  ASSUME TokenType, ReputationType, [ContractNext]_contractVars
  PROVE  /\ Len(agentMetadata) <= Len(agentMetadata')
         /\ \A r \in Role : TokensOf(r) \subseteq TokensOf(r)'
<1>0. agentMetadata \in Seq(Metadata) /\ Tokens = 1 .. Len(agentMetadata)
  BY DEF TokenType, Tokens
<1>1. CASE UNCHANGED agentMetadata
  BY <1>0, <1>1 DEF TokensOf, Tokens
<1>2. ASSUME NEW s \in Wallet, NEW to \in Wallet, NEW blob \in Blob, NEW role \in Role,
             MintAgent(s, to, blob, role)
      PROVE  /\ Len(agentMetadata) <= Len(agentMetadata')
             /\ \A r \in Role : TokensOf(r) \subseteq TokensOf(r)'
  <2>1. \A r \in Role : TokensOf(r) \subseteq TokensOf(r)'
    BY <1>2, MintAdds
  <2>2. agentMetadata' = Append(agentMetadata, NewMetadata(blob, role))
    BY <1>2 DEF MintAgent
  <2>3. Len(agentMetadata') = Len(agentMetadata) + 1
    BY <1>0, <2>2
  <2>. QED  BY <1>0, <2>1, <2>3
<1>3. ASSUME NEW t \in Tokens, Changes(t)
      PROVE  /\ Len(agentMetadata) <= Len(agentMetadata')
             /\ \A r \in Role : TokensOf(r) \subseteq TokensOf(r)'
  <2>1. PICK data \in Metadata : /\ data.role = agentMetadata[t].role
                                 /\ agentMetadata' = [agentMetadata EXCEPT ![t] = data]
    BY <1>3 DEF Changes
  <2>2. /\ Len(agentMetadata') = Len(agentMetadata)
        /\ \A u \in Tokens : agentMetadata'[u].role = agentMetadata[u].role
    BY <1>0, <2>1
  <2>3. Tokens' = Tokens
    BY <2>2 DEF Tokens
  <2>. QED  BY <1>0, <2>2, <2>3 DEF TokensOf
<1>. QED  BY <1>1, <1>2, <1>3, TokenCases DEF tokenVars, TransferToken

LEMMA MintsCountedStep ==
  ASSUME Base, MintsCounted, [Next]_vars
  PROVE  MintsCounted'
<1> SUFFICES ASSUME NEW role \in Role
             PROVE  /\ IsFiniteSet(MintsOf(role)')
                    /\ Cardinality(MintsOf(role)') <= Cardinality(TokensOf(role)')
  BY DEF MintsCounted
<1>0. [ContractNext]_contractVars /\ ReputationType /\ TokenType /\ TokenType'
  BY StepTransacts, TokenTyped DEF Base, ContractInv, ReputationBooks
<1>1. /\ IsFiniteSet(TokensOf(role)) /\ Cardinality(TokensOf(role)) \in Nat
      /\ IsFiniteSet(TokensOf(role)') /\ Cardinality(TokensOf(role)') \in Nat
  <2>1. /\ IsFiniteSet(TokensOf(role)) /\ Cardinality(TokensOf(role)) \in Nat
    BY <1>0, TokensFinite
  <2>2. IsFiniteSet(Tokens')
    BY <1>0, FS_Interval DEF TokenType, Tokens
  <2>3. TokensOf(role)' \in SUBSET Tokens'
    BY DEF TokensOf
  <2>4. IsFiniteSet(TokensOf(role)')
    BY <2>2, <2>3, FS_Subset
  <2>. QED  BY <2>1, <2>4, FS_CardinalityType
<1>2. Cardinality(TokensOf(role)) <= Cardinality(TokensOf(role)')
  BY <1>0, <1>1, TokensOnlyGrow, FS_Subset
<1>3. /\ IsFiniteSet(MintsOf(role)) /\ Cardinality(MintsOf(role)) <= Cardinality(TokensOf(role))
      /\ Cardinality(MintsOf(role)) \in Nat
  BY FS_CardinalityType DEF MintsCounted
<1>4. CASE MintsOf(role)' = MintsOf(role)
  BY <1>1, <1>2, <1>3, <1>4
<1>5. CASE Quiet
  <2>1. MintsOf(role)' = MintsOf(role)
    BY <1>5, DoneQuietly DEF MintsOf
  <2>. QED  BY <1>4, <2>1
<1>6. ASSUME NEW j \in Job, NEW r \in Route, CompletesNow(j, r)
      PROVE  /\ IsFiniteSet(MintsOf(role)')
             /\ Cardinality(MintsOf(role)') <= Cardinality(TokensOf(role)')
  <2>0. request' = request /\ request[j] \in AnyRequest /\ <<j, r>>[1] = j
    BY <1>6 DEF CompletesNow, Base, KeeperType
  <2>1. CASE request[j].op = "mintAgent" /\ request[j].role = role
    <3>1. MintsOf(role)' = MintsOf(role) \cup {<<j, r>>}
      BY <1>6, <2>0, <2>1, DoneNow DEF MintsOf
    <3>2. /\ request[j].blob \in Blob
          /\ MintAgent(Keeper, request[j].to, request[j].blob, role)
      BY <1>6, <2>0, <2>1, RequestByOp DEF CompletesNow, Performs, MintRequest
    <3>3. /\ Len(agentMetadata) + 1 \notin TokensOf(role)
          /\ TokensOf(role)' = TokensOf(role) \cup {Len(agentMetadata) + 1}
      BY <1>0, <3>2, MintAdds
    <3>4. Cardinality(TokensOf(role)') = Cardinality(TokensOf(role)) + 1
      BY <1>1, <3>3, FS_AddElement
    <3>5. /\ IsFiniteSet(MintsOf(role) \cup {<<j, r>>})
          /\ Cardinality(MintsOf(role) \cup {<<j, r>>}) <= Cardinality(TokensOf(role)) + 1
      BY <1>1, <1>3, CountOneMore
    <3>. QED  BY <3>1, <3>4, <3>5
  <2>2. CASE ~(request[j].op = "mintAgent" /\ request[j].role = role)
    <3>1. MintsOf(role)' = MintsOf(role)
      BY <1>6, <2>0, <2>2, DoneNow DEF MintsOf
    <3>. QED  BY <1>4, <3>1
  <2>. QED  BY <2>1, <2>2
<1>. QED  BY <1>5, <1>6, CompletionCases

-----------------------------------------------------------------------------
(***************************************************************************)
(* Transfers: each execution is one.                                       *)
(***************************************************************************)
FundsCounted == IsFiniteSet(Done("fund")) /\ Cardinality(Done("fund")) = funded

LEMMA FundsCountedStep ==
  ASSUME Base, FundsCounted, [Next]_vars
  PROVE  FundsCounted'
<1>0. funded \in Nat
  BY DEF Base, KeeperType
<1>1. CASE Quiet
  BY <1>1, DoneQuietly DEF Quiet, FundsCounted
<1>2. ASSUME NEW j \in Job, NEW r \in Route, CompletesNow(j, r) PROVE FundsCounted'
  <2>1. CASE request[j].op = "fund"
    <3>1. Done("fund")' = Done("fund") \cup {<<j, r>>} /\ <<j, r>> \notin Done("fund")
      BY <1>2, <2>1, DoneNow
    <3>2. funded' = funded + 1
      BY <1>2, <2>1 DEF CompletesNow, Performs
    <3>3. IsFiniteSet(Done("fund") \cup {<<j, r>>})
          /\ Cardinality(Done("fund") \cup {<<j, r>>}) = Cardinality(Done("fund")) + 1
      BY <3>1, FS_AddElement DEF FundsCounted
    <3>. QED  BY <3>1, <3>2, <3>3 DEF FundsCounted
  <2>2. CASE request[j].op # "fund"
    <3>1. Done("fund")' = Done("fund")
      BY <1>2, <2>2, DoneNow
    <3>2. funded' = funded
      BY <1>2, <2>2 DEF CompletesNow, Performs
    <3>. QED  BY <3>1, <3>2 DEF FundsCounted
  <2>. QED  BY <2>1, <2>2
<1>. QED  BY <1>1, <1>2, CompletionCases

-----------------------------------------------------------------------------
(***************************************************************************)
(* The executions and the chain.                                           *)
(***************************************************************************)
Counts == ReviewsDone /\ UpdatesCounted /\ MintsCounted /\ FundsCounted

LEMMA CountsAtStart == Init => Counts
<1> SUFFICES ASSUME Init PROVE Counts
  OBVIOUS
<1>1. \A op : Done(op) = {}
  BY DEF Init, Done
<1>2. ReviewsDone
  BY <1>1 DEF ReviewsDone
<1>3. \A a : UpdatesOf(a) = {} /\ MintsOf(a) = {}
  BY <1>1 DEF UpdatesOf, MintsOf
<1>4. UpdatesCounted
  <2>1. \A a \in Wallet : agentStats[a].totalReviews = 0
    BY DEF Init, ContractInit, Nobody
  <2>2. \A a \in Wallet : IsFiniteSet(UpdatesOf(a)) /\ Cardinality(UpdatesOf(a)) = 0
    BY <1>3, FS_EmptySet
  <2>. QED  BY <2>1, <2>2 DEF UpdatesCounted
<1>5. TokenType
  BY ContractInvInit DEF Init, ContractInv
<1>6. MintsCounted
  BY <1>3, <1>5, FS_EmptySet, TokensFinite DEF MintsCounted
<1>7. FundsCounted
  BY <1>1, FS_EmptySet DEF FundsCounted, Init
<1>. QED  BY <1>2, <1>4, <1>6, <1>7 DEF Counts

(* What the service reports as completed is on the chain: a review once,   *)
(* though its workflow may have been executed twice, and every other write *)
(* as often as it was executed.                                            *)
THEOREM CompletedStaysOnChain == Spec => []CompletedIsOnChain
<1>1. Base /\ Counts /\ [Next]_vars => Counts'
  BY ReviewsDoneStep, UpdatesCountedStep, MintsCountedStep, FundsCountedStep DEF Counts
<1>2. Counts => CompletedIsOnChain
  BY DEF Counts, ReviewsDone, UpdatesCounted, MintsCounted, FundsCounted,
         UpdatesOf, MintsOf, TokensOf, CompletedIsOnChain
<1>. QED  BY <1>1, <1>2, CountsAtStart, BaseHolds, PTL DEF Spec

=============================================================================
