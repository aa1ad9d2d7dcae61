------------------------------ MODULE KeeperHub ------------------------------
(***************************************************************************)
(* KeeperHubClient.createAndRunWorkflow and its callers, the KeeperHub     *)
(* service as the client sees it, and the script that mints the agents,    *)
(* all of them writing to the contracts of AdversaContracts.               *)
(*                                                                         *)
(* A call creates a workflow and asks for its execution, first through the *)
(* MCP server and, when that throws, from the start through the REST API.  *)
(* Every request of the client has a time limit of 15 s, after which the   *)
(* service may still accept what it was asked.  An accepted execution runs *)
(* later, as a transaction of KeeperHub's wallet, which may revert.        *)
(***************************************************************************)
EXTENDS AdversaContracts

CONSTANTS
  Job,          (* calls of the client                                       *)
  Keeper,       (* KeeperHub's wallet                                        *)
  Requests,     (* the contract writes that each call may ask for            *)
  ScriptRoles,  (* AGENT_ROLES of mint-agents.ts, in order                   *)
  MaxTx,        (* bound on the transactions that come from elsewhere         *)
  MaxTokens,    (* bound on the tokens they leave behind                     *)
  MaxEvents,    (* bound on the reviews plus exploits of one agent           *)
  MaxEvolutions (* bound on the evolutions of one token                      *)

(* What may be asked for, one method of the client each.                   *)
RecordRequest == [op : {"recordReview"}, hash : Hash, verdict : {"approved", "rejected"}]
UpdateRequest == [op : {"updateReputation"}, agent : Wallet, accurate : BOOLEAN]
MintRequest   == [op : {"mintAgent"}, to : Wallet, blob : Blob, role : Role]
EvolveRequest == [op : {"evolveAgent"}, token : Nat, blob : Blob]
FundRequest   == [op : {"fund"}]
IsRequest(q)  == q \in RecordRequest \/ q \in UpdateRequest \/ q \in MintRequest
                   \/ q \in EvolveRequest \/ q \in FundRequest

ASSUME KeeperAssumption ==
  /\ Keeper \in Wallet /\ \A j \in Job : \A q \in Requests[j] : IsRequest(q)
  /\ ScriptRoles \in Seq(Role) /\ ScriptRoles # <<>>
ASSUME BoundAssumption ==
  MaxTx \in Nat /\ MaxTokens \in Nat /\ MaxEvents \in Nat /\ MaxEvolutions \in Nat

VARIABLES
  credentials,  (* whether an API key is configured                          *)
  mcpMode,      (* KeeperHubClient.mcpMode: "unknown" (null), "on" or "off"  *)
  request,      (* what each call asks for                                   *)
  stage,        (* the await in which each call is suspended                 *)
  result,       (* what each call returned                                   *)
  execution,    (* the service: the execution asked for through each route   *)
  funded,       (* the transfers made to the compute account                 *)
  script,       (* mint-agents.ts: the role it is at, 0 when it does not run *)
  minted,       (* its mintedTokens, the ids that it will write down         *)
  txs           (* direct transactions so far                                *)

clientVars == <<credentials, mcpMode, request, stage, result>>
scriptVars == <<script, minted>>
keeperVars == <<clientVars, execution, funded, scriptVars, txs>>
vars == <<contractVars, keeperVars>>

-----------------------------------------------------------------------------
Route   == {"mcp", "rest"}
Running == {"mcpCreate", "mcpExecute", "restCreate", "restExecute"}
Accepted == {"accepted", "completed", "failed"}

(* AgentEvolver: no token, nothing to evolve.  INFTMinter returns no other *)
(* id than 0, because it does not wait for the transaction.                *)
NoToken(q) == q.op = "evolveAgent" /\ q.token = 0

(* INFTMinter and AgentEvolver upload the intelligence before they call.   *)
Embedded(q) == q.op \in {"mintAgent", "evolveAgent"}

(* What the transaction of an execution does, when it does not revert.     *)
Performs(q) ==
  \/ /\ q.op = "recordReview" /\ RecordReview(Keeper, q.hash, q.verdict)
     /\ UNCHANGED funded
  \/ /\ q.op = "updateReputation" /\ UpdateReputation(Keeper, q.agent, q.accurate)
     /\ UNCHANGED funded
  \/ /\ q.op = "mintAgent" /\ MintAgent(Keeper, q.to, q.blob, q.role)
     /\ UNCHANGED funded
  \/ /\ q.op = "evolveAgent" /\ EvolveAgent(Keeper, q.token, q.blob)
     /\ UNCHANGED funded
  \/ /\ q.op = "fund" /\ funded' = funded + 1 /\ UNCHANGED contractVars

Reverts(q) ==
  \/ q.op = "recordReview" /\ ~MayRecord(Keeper, q.hash)
  \/ q.op = "updateReputation" /\ ~MayWrite(Keeper, "reputation")
  \/ q.op = "mintAgent" /\ ~IsOwner(Keeper, "inft")
  \/ q.op = "evolveAgent" /\ ~MayEvolve(Keeper, q.token)

-----------------------------------------------------------------------------
Init ==
  /\ ContractInit
  /\ credentials \in BOOLEAN /\ mcpMode = "unknown"
  /\ request = [j \in Job |-> [op |-> "fund"]] /\ stage = [j \in Job |-> "idle"]
  /\ result = [j \in Job |-> "none"]
  /\ execution = [j \in Job |-> [r \in Route |-> "none"]] /\ funded = 0
  /\ script = 0 /\ minted = <<>> /\ txs = 0

Go(j, next) == stage' = [stage EXCEPT ![j] = next]
Returns(j, answer) == Go(j, "returned") /\ result' = [result EXCEPT ![j] = answer]
Asks(j, route) == execution' = [execution EXCEPT ![j][route] = "asked"]

(* A request of the client is answered without an error at the top level,  *)
(* which is all that mcpToolCall and restCall look for: a refusal inside   *)
(* the result, say of the random id that stands in for one that            *)
(* create_workflow did not return, passes for a success.                   *)
McpAnswered(j)  == execution[j]["mcp"] \in Accepted \cup {"refused"}
RestAnswered(j) == execution[j]["rest"] \in Accepted \cup {"refused"}

(* A method of the client is called, by the tools only after an upload to  *)
(* 0G Storage, which may throw.                                            *)
Call(j, q) ==
  /\ stage[j] = "idle" /\ request' = [request EXCEPT ![j] = q]
  /\ \/ NoToken(q) /\ Returns(j, "skipped")
     \/ Embedded(q) /\ ~NoToken(q) /\ Returns(j, "rejected")
     \/ ~credentials /\ ~NoToken(q) /\ Returns(j, "mock")
     \/ /\ credentials /\ ~NoToken(q)
        /\ Go(j, IF mcpMode = "off" THEN "restCreate" ELSE "mcpCreate")
        /\ UNCHANGED result
  /\ UNCHANGED <<contractVars, credentials, mcpMode, execution, funded, scriptVars, txs>>

(* create_workflow answers; its execution is asked for at once.  A mode    *)
(* that another call has turned off meanwhile is on again.                 *)
McpCreated(j) ==
  /\ stage[j] = "mcpCreate" /\ mcpMode' = "on"
  /\ Go(j, "mcpExecute") /\ Asks(j, "mcp")
  /\ UNCHANGED <<contractVars, credentials, request, result, funded, scriptVars, txs>>

(* Mutant: an answered call goes on to the REST API.                       *)
McpAnswersAndGoesOn(j) ==
  /\ stage[j] = "mcpExecute" /\ McpAnswered(j)
  /\ Go(j, "restCreate") /\ result' = [result EXCEPT ![j] = "mcp"]
  /\ UNCHANGED <<contractVars, credentials, mcpMode, request, execution, funded, scriptVars, txs>>

McpAnswers(j) ==
  /\ stage[j] = "mcpExecute" /\ McpAnswered(j)
  /\ Returns(j, "mcp")
  /\ UNCHANGED <<contractVars, credentials, mcpMode, request, execution, funded, scriptVars, txs>>

(* Either MCP request throws, and the call starts again with REST, whether *)
(* or not the service accepted what it had been asked.                     *)
McpThrows(j) ==
  /\ stage[j] \in {"mcpCreate", "mcpExecute"} /\ mcpMode' = "off"
  /\ Go(j, "restCreate")
  /\ UNCHANGED <<contractVars, credentials, request, result, execution, funded, scriptVars, txs>>

RestCreated(j) ==
  /\ stage[j] = "restCreate"
  /\ Go(j, "restExecute") /\ Asks(j, "rest")
  /\ UNCHANGED <<contractVars, credentials, mcpMode, request, result, funded, scriptVars, txs>>

RestAnswers(j) ==
  /\ stage[j] = "restExecute" /\ RestAnswered(j)
  /\ Returns(j, "rest")
  /\ UNCHANGED <<contractVars, credentials, mcpMode, request, execution, funded, scriptVars, txs>>

RestThrows(j) ==
  /\ stage[j] \in {"restCreate", "restExecute"}
  /\ Returns(j, "failed")
  /\ UNCHANGED <<contractVars, credentials, mcpMode, request, execution, funded, scriptVars, txs>>

-----------------------------------------------------------------------------
(* The service takes a request, however late, and runs what it has taken.  *)
Accept(j, r) ==
  /\ execution[j][r] = "asked"
  /\ execution' = [execution EXCEPT ![j][r] = "accepted"]
  /\ UNCHANGED <<contractVars, clientVars, funded, scriptVars, txs>>

(* Or refuses it: it knows no such workflow, or does not run it.           *)
Refuse(j, r) ==
  /\ execution[j][r] = "asked"
  /\ execution' = [execution EXCEPT ![j][r] = "refused"]
  /\ UNCHANGED <<contractVars, clientVars, funded, scriptVars, txs>>

Completes(j, r) ==
  /\ execution[j][r] = "accepted" /\ Performs(request[j])
  /\ execution' = [execution EXCEPT ![j][r] = "completed"]
  /\ UNCHANGED <<clientVars, scriptVars, txs>>

Fails(j, r) ==
  /\ execution[j][r] = "accepted" /\ Reverts(request[j])
  /\ execution' = [execution EXCEPT ![j][r] = "failed"]
  /\ UNCHANGED <<contractVars, clientVars, funded, scriptVars, txs>>

-----------------------------------------------------------------------------
ScriptStart ==
  /\ script = 0 /\ Len(agentMetadata) < MaxTokens
  /\ script' = 1 /\ minted' = <<>>
  /\ UNCHANGED <<contractVars, clientVars, execution, funded, txs>>

(* The id that the script writes down: it does not read the receipt.       *)
Reported == Len(minted) + 1

(* Mutant: the loop goes on past the last role.                            *)
NextRoleUnbounded(i) == i + 1

(* The role after the i-th; 0 when that was the last.                      *)
NextRole(i) == IF i = Len(ScriptRoles) THEN 0 ELSE i + 1

(* One role is minted to the deployer; after the last one the file is      *)
(* written and the script ends.                                            *)
ScriptMint ==
  /\ script # 0 /\ Len(agentMetadata) < MaxTokens
  /\ \E blob \in Blob : MintAgent(Deployer, Deployer, blob, ScriptRoles[script])
  /\ minted' = Append(minted, Reported)
  /\ script' = NextRole(script)
  /\ UNCHANGED <<clientVars, execution, funded, txs>>

(* The deployer no longer owns the contract: exit(1), and no file.         *)
ScriptFails ==
  /\ script # 0 /\ ~IsOwner(Deployer, "inft")
  /\ script' = 0 /\ minted' = <<>>
  /\ UNCHANGED <<contractVars, clientVars, execution, funded, txs>>

Bounded ==
  /\ Len(agentMetadata) <= MaxTokens
  /\ \A a \in Wallet : Events(a) <= MaxEvents
  /\ \A t \in Tokens : agentMetadata[t].evolutionCount <= MaxEvolutions

(* Any other transaction, those of recordReviewDirect among them.          *)
Direct ==
  /\ txs < MaxTx /\ txs' = txs + 1
  /\ ContractNext /\ Bounded'
  /\ UNCHANGED <<clientVars, execution, funded, scriptVars>>

Client(j) == McpCreated(j) \/ McpAnswers(j) \/ McpThrows(j)
               \/ RestCreated(j) \/ RestAnswers(j) \/ RestThrows(j)

Next ==
  \/ \E j \in Job : \E q \in Requests[j] : Call(j, q)
  \/ \E j \in Job : Client(j)
  \/ \E j \in Job, r \in Route : Accept(j, r) \/ Refuse(j, r) \/ Completes(j, r) \/ Fails(j, r)
  \/ ScriptStart \/ ScriptMint \/ ScriptFails
  \/ Direct

Spec == Init /\ [][Next]_vars

-----------------------------------------------------------------------------
(* The state of the client, the service and the script has its type.       *)
TypeOK ==
  /\ ContractTypeOK
  /\ credentials \in BOOLEAN /\ mcpMode \in {"unknown", "on", "off"}
  /\ stage \in [Job -> Running \cup {"idle", "returned"}]
  /\ result \in [Job -> Route \cup {"none", "mock", "skipped", "rejected", "failed"}]
  /\ execution \in [Job -> [Route -> Accepted \cup {"none", "asked", "refused"}]]
  /\ funded \in Nat
  /\ script \in 0 .. Len(ScriptRoles) /\ txs \in 0 .. MaxTx

(* A call that the MCP server has answered was never handed to the REST    *)
(* API, nor is it later on, whatever other calls do to the mode they share *)
(* and however late the service takes its request: two executions of one   *)
(* call come from a fallback only.  A call that returns as mock, skipped   *)
(* or rejected was handed to nobody.                                       *)
FallbackOnly ==
  \A j \in Job :
    /\ result[j] = "mcp" => execution[j]["rest"] = "none"
    /\ result[j] \in {"mock", "skipped", "rejected"} => \A r \in Route : execution[j][r] = "none"

Done(op) == {e \in Job \X Route : execution[e[1]][e[2]] = "completed" /\ request[e[1]].op = op}

(* A fallback may execute a workflow twice.  The registry takes a review   *)
(* only once all the same, and what it has is what was asked for; every    *)
(* other contract write counts each execution.                             *)
CompletedIsOnChain ==
  /\ \A e, f \in Done("recordReview") : request[e[1]].hash = request[f[1]].hash => e = f
  /\ \A e \in Done("recordReview") : reviews[request[e[1]].hash] = request[e[1]].verdict
  /\ \A a \in Wallet : Cardinality({e \in Done("updateReputation") : request[e[1]].agent = a})
                         <= agentStats[a].totalReviews
  /\ \A r \in Role : Cardinality({e \in Done("mintAgent") : request[e[1]].role = r})
                       <= Cardinality({t \in Tokens : agentMetadata[t].role = r})
  /\ funded = Cardinality(Done("fund"))

=============================================================================
