# Verification of ADVERSA

TLA+ models, TLC runs and TLAPS proofs for the ADVERSA review swarm: five
agents on a mesh review a pull request, a gateway decides, and the decision is
carried out on GitHub, recorded on 0G and survives the loss of connectivity.
Paths below are relative to the root of the repository; `sync.ts:59` is
`src/offline/sync.ts`, line 59, and so on for the other files of `src/`.

## 1. Inventory

| Component | Code | State it keeps | Operations | Talks to |
|---|---|---|---|---|
| Connectivity detector | `offline/detector.ts` | `online`, `forcedOffline`, handlers | `check` (timer), `setForcedOffline` (dashboard) | calls the sync engine's handler |
| Offline queue | `offline/queue.ts` | the queue and its file | `enqueue`, `markComplete`, `markFailed`, `load` | disk |
| Sync engine | `offline/sync.ts` | `draining`, executors | `executeOrQueue`, `drain` | executors of the pipeline |
| Review pipeline | `review/pipeline.ts` | one `run` per pull request, `humanVotes` | six phases | agents over MCP, storage, chain, sync engine |
| Consensus, guardrails | `review/consensus.ts`, `guardrails.ts` | none | `computeConsensus`, `enforceAutoMergeGuardrails` | the pipeline |
| Agents | `agents/*.ts` | status, goals, reputation | MCP and A2A handlers | each other over AXL |
| AXL client | `axl/client.ts` | pending calls, poller | `callMCP`, `callA2A`, gossip, `startPolling` | the broker |
| Broker | `axl-broker/server.ts` | peers, inboxes, gossip queues, vote boards | REST handlers | every agent |
| Gossip, topology | `axl/gossipsub.ts`, `topology.ts` | seen keys, known peers | `poll`, `refresh` | the AXL client |
| Gateway | `agents/gateway.ts` | `activePRs` | `processPR` | pipeline, gossip, dashboard |
| Contracts | `contracts/contracts/*.sol` | records, callers, scores, tokens | their transactions | KeeperHub and 0G clients |
| Outside clients | `integrations/*.ts` | sessions, providers | uploads, transactions, workflows | GitHub, 0G, KeeperHub |
| Dashboard, scripts | `dashboard/`, `inft/`, `scripts/` | cached agent states | REST and sockets | gateway |

What is hard in it:

* everything of one agent runs in one Node.js process: a callback is atomic up
  to its next `await`, and every `await` lets timers, the dashboard, gossip and
  other pull requests in;
* connectivity changes under running drains and under running pipelines;
* the queue must survive a crash at any point, with a file that may not be
  written or may be truncated;
* agents answer late or never, and calls nest (pipeline -> red team -> security)
  with the same time-out at every level;
* gossip is at-least-once with deduplication by content, in bounded queues;
* an action that took effect may still report failure, and the reverse.

The hazards that follow from it are listed, line by line, in `PROJECT.json`.

What makes each component correct, in a sentence: the *offline subsystem* loses
no action, replays in order and at most once outside ambiguous failures; the
*pipeline* approves nothing with an open blocking finding and finishes every run
with one decision; *consensus* is monotone in the votes and never approves
against an unmitigated critical exploit; *AXL* ends every call for the caller
that made it; *gossip* keeps moving, and repeats a goal only after faults; the
*gateway* runs one review per pull request at a time; the *contracts* write a
record once and keep their books whatever arrives twice; *KeeperHub's client*
executes a call twice only where it fell back.

## 2. Structure

| Part | Modules | Section |
|---|---|---|
| Offline subsystem and its start-up | `ActionDelivery` (abstract), `OfflineSync`, `OfflineSyncProofs`, `OfflineSyncContract` | 3 |
| Decision and review pipeline | `Consensus`, `ReviewPipeline`, `MCReviewPipeline`, `ReviewPipelineProofs` | 4 |
| Contracts, KeeperHub, mint script | `AdversaContracts` (also the abstract side of the refinement), `KeeperHub`, `MCKeeperHub`, `KeeperHubProofs`, `KeeperHubCountProofs` | 5 |
| Calls, polling loop, debates | `AgentMesh`, `MCAgentMesh`, `AgentMeshProofs` | 6 |
| Gossip, goals, announcements | `Gossip`, `MCGossip`, `GossipProofs`, `GossipCountProofs` | 7 |

Each component has one module, its runs `<Module>_<question>.cfg`, and its
theorems in `<Module>Proofs` and a module that extends it. `ReviewPipeline` sees the agents as the reports and
failures that `AgentMesh` lets them have, the sync engine as the immediate and
replayed executions that `OfflineSync` details, and the registry as the first
record of a hash, which `AdversaContracts` details.

## 3. The offline subsystem

`OfflineSync` models the three classes of `src/offline` in one process.

| Model | Code |
|---|---|
| `online`, `forcedOffline`, `IsOnline` | `ConnectivityDetector` |
| `Check(reachable)` | `check()` from its last fetch on; what the fetches find is free |
| `SetForcedOffline(enabled)` | the dashboard's toggle |
| `Notify`, `StatusHandler`, `Drain` | the handler call, in the same stretch of code as the change of status |
| `queue`, `file`, `Persist`, `Enqueue`, `MarkComplete`, `MarkFailed` | `OfflineQueue`; a write may fail, leaving the old file or a truncated one |
| `draining`, `drains` | the flag, and the calls of `drain()` that are really active |
| `ExecuteOrQueue`, `DirectResolves`, `DirectThrows` | `executeOrQueue` before and after its `await` |
| `ReplayResolves`, `ReplayThrows`, `DelayOver`, `LoopTest` | one pass of the loop of `drain()` |
| `Restart` | a crash and the start of the next process: `load()` reads the file |
| `ready`, `Initialize` | start-up, from the toggle's registration (`gateway.ts:74`) to the executors and `startMonitoring` (`gateway.ts:111-114`) |

`drains` is a sequence although the code means to have one active drain: that
there is at most one is a property (`SingleDrain`), not an assumption. The other
variables are history, about what the outside world has seen: an attempt may
take effect and still throw (`ambiguous`), and an executor in `Silent` may
resolve without effect, as `KeeperHubClient` does.

Start-up matters because the toggle works before the executors exist: in between,
`pipeline.initialize()` awaits the import of the 0G SDK (`og-storage.ts:45`). A
process starts not `ready`, with the queue of the one before it. The monitoring
that `Check` stands for starts afterwards. An attempt that finds no executor throws
at once: `executeOrQueue` then queues in the same stretch of code, and a replay
wastes a retry before anything else can happen, which is why `Initialize` waits
for it. `unserved` is what was wasted so.

`ActionDelivery` is the contract with the callers: an action handed over stays
open until it is done or given up, and only a crash can lose it.
`KeepsContract` is the refinement, through the mapping `Fate`.

### Runs

* `offline_order`: three actions, two attempts each, no crash. Two queued
  actions and one in flight are the least that can overtake each other; two
  attempts make both branches of `markFailed` happen. Shows `NoLostWakeup`,
  `SingleDrain`, `ReplayInOrder`, and under fairness `DrainTerminates` and
  `ReconnectionServes`.
* `offline_crash`: two actions, one of them silent, one crash, failing writes.
  Shows `NoDuplicateEffect`, `RetryBudget`, `RestartKeepsQueue`, `KeepsContract`,
  and `RetriesAreServed`: a process wastes a retry on an action without executor
  only if somebody used the toggle before it was ready. A loaded queue, a check of
  the connection or a caller that is too early wastes none, because monitoring
  starts last. A second crash adds no new kind of step: the state after
  `Restart` is an initial state with a non-empty queue and file.
* `offline_autodrain` (a violation): `README.md:35` promises that queued actions
  drain when the internet returns. An action that fails while the gateway is
  online is queued without any drain to serve it (`sync.ts:47-50`), and waits
  for the next disconnection. `NoLostWakeup` is what the code does promise.

A known divergence without a run: `keeperhub.ts:214` says "Return a failed result
rather than throwing — the caller will handle retry via OfflineQueue"; the executor
at `pipeline.ts:78-84` drops the result, so `executeOrQueue` and `drain` take the
action for done. In the model such an executor is in `Silent`.

Fairness (`FairSpec`) is weak and is assumed of the engine and of immediate
executions only: a network call settles and a timer fires. Connectivity, the
operator, the callers and crashes owe nothing, start-up is a library import that
ends. `ReconnectionServes` is stated
under the assumption, in the formula itself, that reconnections keep coming.

### Bounds

`MaxRetries` is 5 in the code, 2 in the runs; `MaxCrashes` bounds restarts; an
action of the model is handed over once (the code gives every call a fresh id).

### Proofs

`OfflineSyncProofs` proves, for any set of actions, any `MaxRetries` and any
number of crashes, that `IInv` is invariant, and from it `TypeOK`,
`NoLostWakeup`, `SingleDrain`, `NoDuplicateEffect`, `RetryBudget`,
`RestartKeepsQueue` and `RetriesAreServed`. The assumptions are the three `ASSUME`s of `OfflineSync`.

The properties are not inductive by themselves. `IInv` adds `Startup` (before the
gateway is ready nothing is executed directly, and only the toggle has started a
drain, which is what `RetriesAreServed` rests on), `Placement` (ids are
unique, and an action is executed directly only before it has ever been queued),
`Mirror` (while no write failed, the file is the queue and nothing finished is in
it), `EffectCount` (outside ambiguous attempts, what took effect is complete) and
`ReplayCount` (what was never queued has no failed replays). `SingleDrain` is
what makes a replay concern the head of the queue, so that removing it by id is
removing the head (`WithoutHead`). The argument has one lemma per kind of step,
on top of lemmas about queues (`AppendEntry`, `RemoveHead`, `CountRetry`) and
about the pieces of the steps (`EnqueueEffect`, `MarkFailedEffect`,
`LoopTestEffect`).

`OfflineSyncContract` proves the other two on top of it. `ReplayInOrder`: outside
a crash every step leaves the queue alone, appends to it, counts a retry or removes
the head (`StepInOrder`). `KeepsContract`: with the mapping `Fate`, every step is a
step of `ActionDelivery` or none, one lemma for each action (`...Contract`). It needs
one fact beyond `IInv`, `FileTrace`: whatever is in the file is queued or has ended.
Without it a restart could revive an action that the contract knows nothing of, or
take back one that was executed and never queued.

Only model-checked: the two liveness properties, `DrainTerminates` and
`ReconnectionServes`, which are out of the prover's reach.

### Not modelled

The wording and events that the queue emits; `dequeue()`, which nothing calls. A
toggle that comes before `registerOfflineModeHandler` only sets the dashboard's
own flag.

## 4. The review pipeline

`Consensus` has the operators of the decision, from the reports of the agents to
the guardrail; `ReviewPipeline` runs several reviews in one gateway, from
`processPR` to the last action; `MCReviewPipeline` holds the instances.

| Model | Code |
|---|---|
| `stage[r]` | the `await` in which a call of `processPR` and `run()` is suspended |
| `report[r]` | the local variables of that call: peers, findings, exploits, debates, human vote, consensus |
| `activePRs`, `humanVotes` | the fields of `GatewayAgent` and `ReviewPipeline` |
| `online`, `queue`, `draining`, `flying` | the sync engine, as its callers see it: immediate executions and a replayed queue. Retry counts, the file and the races inside the engine are those of `OfflineSync` |
| `head`, `state`, `registry`, `stored`, `landed` | GitHub, the registry contract and 0G Storage |
| `Request`, `Fetch`, `Fails`, `Ends` | `processPR` with its guard, its `catch` and its `finally` |
| `Discover` .. `UploadTranscript` | the phases of `run()`, one action per `await` |
| `Record` | the end of `recordReviewDirect` and all that follows up to the first action's `await` |
| `Resolves`, `Throws`, `GoesOn` | an immediate execution ends and `executeOrQueue` returns to its caller |
| `Replay`, `Connectivity` | the drain |
| `Restart` | the process dies: runs, votes and immediate executions are lost, the queue is not |

A set of findings is the set of its severities (`info` counts as `medium`: nothing
tells them apart). Debates are grouped by request id. Weights are integers in
units of 1/500 of a role's weight, which makes every multiplier exact; `Score`
rounds as `Math.round` does. The registry address is configured.

### Runs

* `pipeline_decision`: one review, three sizes of swarm, reviewers that find
  something high or nothing, one exploit of any severity, debated in every way
  or not, both human verdicts at any time, one outage. `TypeOK` includes that a
  score is between 0 and 10000. `MergeIsClean` says what a merge means: no blocking
  finding, every agent approved, and a blocking exploit, if there was one, was
  defended in the debate about it;
  `RedTeamVeto` and `HumanAdvises` are the two ends of the weights at the default
  threshold; `EvidenceFirst` orders uploads and actions; `ReviewsEnd` is liveness.
* `pipeline_reruns`: two reviews of one pull request, a pushed commit, a restart
  and an outage, one reviewer. `RecordIsBacked`, `OneReviewPerPR` and
  `QueuedInOrder`. Two runs are enough for every overlap the guard allows; a run
  after a restart meets the queue, the record and the closure of the one before.
  The two runs are symmetric; no temporal property is checked here.
* `pipeline_record` (a violation): the registry records `consensus.approved`, and
  GitHub gets the guardrail's decision; they differ when a weak reviewer with a
  blocking finding is outvoted. `README.md:121-126` draws one decision.
* `pipeline_storage` (a violation): the uploads are not handed to the sync engine;
  one that throws ends the review, where `README.md:329-335` promises a queue.

* `pipeline_mitigated` (a violation): `architecture.md:96` lets an *unmitigated*
  critical exploit bypass the vote, and `consensus.test.ts:68` counts one as mitigated
  "when the debate ends in a defense". The test files the debate under the exploit's
  id; the red team files it under a fresh one (`redteam.ts:308`), which is what
  `FreshIdAssumption` says. Consensus (`consensus.ts:155-161`) and the red team's vote
  (`pipeline.ts:275-277`) look for the exploit's id, find nothing and reject.

A debate that was answered is in the model what the interface of the red team
admits. In the present code no debate is ever answered (section 6), so these runs
cover more than can happen, and `pipeline_mitigated` shows what would come next once
that is mended. `about` records which exploit a debate is about, which the red team
knows (`redteam.ts:354-366`) and nothing reads; the properties do.

Other observations, without a document to hold them against: a merge names no
commit (`github.ts:184`), so it merges what is there; the human vote is read
before the convergecast is awaited; `activePRs` is keyed by number and not by
repository; the comment at `consensus.ts:85` says "1x weight" and the code adds 2.

### Fairness and bounds

`FairSpec` has weak fairness for the work of each run: its own steps, and the
outcome of its executions. Calls to agents carry timers. Calls to GitHub, 0G
Storage and the chain are assumed to settle: `recordReviewDirect` waits for its
transaction without a limit (`keeperhub.ts:317`), and if that never comes the
review never ends. No fairness is assumed of requests, votes, the connection, the
drain, pushes or restarts.

`MaxExploits`, `MaxPushes`, `MaxOutages`, `MaxRestarts` and `Opinions` bound the
inputs. A drain may give an action up at its first failed replay (in the code at
the fifth, which `OfflineSync` models).

### Proofs

`ReviewPipelineProofs` proves every safety invariant of the two passing runs, for any runs, pull requests, swarms, findings and exploits, and
any bounds on pushes, outages and restarts. The assumptions are the four
`ASSUME`s of `Consensus` and `ReviewPipeline`; `RedTeamHasVeto` and
`HumanOnlyAdvises` are about the default threshold of 7500 and say so.

`IInv` adds to `TypeOK` and `OneReviewPerPR` what each stage of a run has
established (`Gathered`: from the decision on, the report's consensus is the one
computed from the report itself; from the upload on, the evidence is stored), that
whatever is queued, in flight or in effect belongs to a run that is past changing
its report, with the evidence and the decision it needs (`Justified`), that the
caller of an immediate action is suspended in it (`Resumable`), and the same
backing for records on the chain (`Backed`). `OneReviewPerPR` alone is not
inductive: an execution that ends resumes a run, and only `Resumable` says that this
run has not already ended. `MergeIsClean` needs `Justified` because a queued merge
outlives the process that decided it.

Two lemmas carry the steps: the work of a run that still gathers disturbs no
guarantee about actions (`GatheringDisturbsNothing`), and committed runs stay
committed, so only what is new has to be warranted (`CommittedStay`). The decision
is treated apart: `ScoreInRange` (the total weight is never zero and the share that
approves is at most all of it), `AllowedIsClean` (what the guardrail lets through;
it uses `FreshIdAssumption`, that a debate is never filed under an exploit's id) and
the weights of `ShareValues`: with the red team against it at most 4240 of 6240
approve, and the whole swarm has 5000 of at most 6000.

`QueuedInOrder` has an invariant of its own, since an execution that fails is queued
late: `SecondComesLater`, that the second action of a run is not in the queue while its
caller still waits for the first. The rest is about queues that take an entry last or lose
their head (`LastInOrder`, `RestInOrder`).

Only model-checked: the liveness property `ReviewsEnd`, which is out of the prover's
reach.

### Not modelled

Closing is one effect (two calls in the code, `github.ts:173-174`). A transaction
takes effect before `recordReviewDirect` settles or not at all. Duplicate exploit
ids from one scan, and repositories other than one.

## 5. Contracts, KeeperHub and the mint script

`AdversaContracts` has the three contracts on one chain, one action per
transaction that does not revert: its guard is the `require`s and modifiers. `KeeperHub`
composes it with `KeeperHubClient`, the service behind it, and `mint-agents.ts`.

| Model | Code |
|---|---|
| `owner`, `approved`, `sender` | `owner` and `approvedCallers`, as `deploy.ts` leaves them; `msg.sender` of the last transaction |
| `reviews`, `allPRHashes`, `RecordReview` | `AdversaRegistry` |
| `agentStats`, `registeredAgents`, `RegisterAgent`, `UpdateReputation`, `RecordExploit` | `AdversaReputation`; an update registers an unknown agent |
| `agentMetadata`, `holder`, `roleToTokenId`, `ownerTokens` and `MintAgent` .. `TransferToken` | `AdversaINFT` and the ERC-721 it inherits |
| `mcpMode`, `stage`, `result`, `Call` .. `RestThrows` | `createAndRunWorkflow` and its callers: MCP first, REST after any exception; `mcpMode` is shared by all calls |
| `execution`, `Accept`, `Refuse`, `Completes`, `Fails` | the service: it may accept a request after the client's 15 s are over, and runs it as a transaction of its own wallet; or it refuses inside an answer that the client takes for a success |
| `script`, `minted`, `ScriptMint`, `ScriptFails` | `mint-agents.ts` |
| `Direct` | any other transaction, `recordReviewDirect` included |

### The run

`keeperhub_ledger`: two calls that overlap (one of every kind of contract write,
one that writes none), the script, one transaction from elsewhere with any of the
operations. `IndexIsExact`, `LedgerBalances` and `AgentsListedOnce` are what the views
compute from; `RecordsAreFinal` and `HolderEvolves` say what no transaction may do.
`FallbackOnly` and `CompletedIsOnChain` relate what the client returned, what the service
ran and what the chain holds: only a call that fell back is executed twice, the registry
takes it once all the same, every other contract counts both.

Bounds: `MaxTx = 1`; one token from the script and the direct transactions, one event per
agent, one evolution per token. KeeperHub's executions come on top of them, so that there
may be three tokens of one role. Larger bounds exceed minutes (1.9 million states as it
is); what the contracts do under any number of transactions is proved. KeeperHub's wallet is the deployer:
`deploy.ts` approves no other, and for a wallet that is not approved every execution
reverts. No fairness is assumed and no liveness claimed. Deadlock is not checked: calls
and transactions run out.

### Proofs

`KeeperHubProofs` first proves the contracts by themselves, for any wallets, hashes,
roles and tokens and any transactions (`ContractSpec`): `ContractsKeepTheirBooks`,
`ContractRecordsAreFinal`, `ContractHolderEvolves`. Their invariant `ContractInv` is a
conjunction of one book per contract and each book is disturbed by its own
contract's transactions only; `IndexIsExact` needs that a hash is recorded at most
once.

`KeeperHubRunsOnTheChain` then shows that every step of client, service and script is a
transaction of the contracts or leaves them alone, so that the composition
implements `ContractSpec` and inherits the theorems: retried, doubled, late and reverted
executions cannot break a book. `OnlyFallbacksDouble` has an invariant of its own per
call (`Honest`): a request is asked for through REST only after MCP has thrown.

`KeeperHubCountProofs` adds `CompletedIsOnChain`, the property that counts. It follows
from four ledgers (`Counts`) that each transaction changes on both sides at once: a
workflow that completes is one more completed execution and one more entry on the chain,
and a transaction from elsewhere can only add to the chain. The cardinalities mean
something because the sets are finite, which is part of the invariant: no finiteness is
assumed of the calls.

### Observations

`deploy.ts` approves the registry as a caller of the reputation contract, and the
registry calls nothing; `syncReputation` is meant for the reputation contract, which
never calls it, so the scores of tokens are what the owner says. `AdversaINFT.sol:27`
says "one agent per role" and `AdversaINFT.test.ts:41` "reverts minting the same role
twice"; the contract does not check it (the test's second mint comes from a caller that
is not the owner), and a second mint takes the role over, leaving the first token active.
`mint-agents.ts:77` says "Token ID is next sequential after the last minted" and counts
from one: its ids are wrong once a token existed before it or is minted meanwhile. An
error inside the result of an answered request counts as success (`keeperhub.ts:97-101`,
`127-131`), and a workflow id that is missing is replaced by a random one (`160`, `193`).
`_ownerTokens` does not follow transfers. `INFTMinter` returns the token id 0
(it does not wait for its transaction), with which `AgentEvolver` has nothing to evolve.

Not modelled: the views, `getWorkflowStatus` and `listActionSchemas` (they change
nothing), the callback of `_safeMint` (what it may do, it may do as a later
transaction), what is uploaded with a token.

## 6. Calls between agents

`AgentMesh` has `AXLClient`'s calls, the broker that carries them, the polling loop and
`BaseAgent.handleRawMessage`, with the handlers of the swarm: the exploit scan of the
red team calls the security agent, once per exploit, inside the call it answers.

| Model | Code |
|---|---|
| `promise`, `order`, `Register`, `Timeout` | `pendingCalls` and its timers, all of 45 s, set before the send is awaited |
| `sending`, `copies`, `Deliver`, `SendEnds` | `fetchWithRetry` around `/send`: a lost answer sends again |
| `inbox`, `Receive`, `Route` | `/recv` and `startPolling`, whose rounds overlap |
| `BatchLost`, `GossipDrains`, `ConvergecastDrains` | what takes messages out of the inbound queue and drops them |
| `handler`, `debated`, `Thinks` .. `Throw` | one run of a handler per delivered copy |
| `native`, `GossipFails`, `GossipWorks` | `nativeGossipAvailable`, which overlapping requests set both ways |
| `Stop` | `stop()` |

### Runs

* `mesh_calls`: a security scan and an exploit scan with one debate, one fault anywhere.
  `CallsEnd`: a call ends for its caller and leaves no entry behind, even if its send
  threw.
  `DebateOutlivesScan` and `AnswerFollowsDebates`: a debate has the time of the scan that
  waits for it, so that an unanswered debate costs the scan its answer, and a scan is
  answered only if its debates failed early.
* `mesh_debate` (a violation): the reply to a challenge is built as
  `{ type: 'a2a_response', ...result }` (`base-agent.ts:157`), and the type in the
  security agent's result (`security.ts:405`) replaces it. `client.ts:222` waits for
  `a2a_response`. No defence ever arrives, with nothing having gone wrong.

One fault, since faults act on one call at a time: with two the state space no longer
fits a few minutes. Three calls are the least that nest and overlap. `FairSpec`: sends end
(their retries are bounded) and timers go off. Nothing is assumed of brokers, language
models and handlers. Deadlock is not checked: the calls run out.

### Proofs

`AgentMeshProofs` proves all of the run's safety properties for any calls, debates and
number of faults. `IInv` contains the ledger of a call
(`BookInv`, `DeliveredInv`: a run or a reply exists only for a copy that was delivered, and a
copy only for a registered call) and the order of timers (`NestedInv`: a debate's timer is
set after that of its scan, so it stands behind it in `order`; timers of one length go
off in that order), and that no challenge is answered (`NoChallengeIsAnswered`). `AnswerInv` then follows step by step: when a scan's reply is sent or
received while the scan is pending, no debate of that run can have timed out before.
`CallsEnd` is liveness and stays with TLC.

Not modelled: what agents write to each other; `launchCounterAttack` and the
`CRITICAL_VULN` broadcast, which only an answered debate would reach; registration
of services and heartbeats; requests to language models have no time limit and
`og-compute.ts:240` may re-initialise under another call, which here is a handler
that takes any time or throws.

## 7. Gossip

`Gossip` follows messages from `gossipPublish` to the handlers of `GossipSub`, and the two
flows on them: goals of the gateway that the coder turns into pull requests, and
announcements that make the gateway review.

| Model | Code |
|---|---|
| `queues`, `prints`, `Enqueue` | the broker's gossip queues and `seenGossip` |
| `Publish`, `PublishFails`, `Broadcast`, `Published` | `gossipPublish`, native and over `/send` |
| `Poll`, `PollFails`, `Recv`, `LoopTakes` | `gossipReceive`, and the polling loop on the same inbound queue |
| `tasks`, `seen`, `Skip`, `Handles` | rounds of `startListening`, which overlap and await one handler after the other |
| `Inject` | the dashboard's goals |
| `Ask`, `AskAgain`, `asked` | a call for code or for a revision, and the copies of it that `fetchWithRetry` makes |
| `LookUp` .. `GoalFails`, `status` | `CoderAgent.processNextGoal` |
| `HandlePR`, `Fetch`, `ReviewEnds`, `activePRs` | `GatewayAgent.processPR` around the pipeline |

### The run

`gossip_flow`: gateway and coder, one goal, at most two pull requests, two milliseconds,
queues of one and a memory of one message, two faults. `OneGoalOnePR` counts the faults
that a second pull request costs. A goal that was broadcast costs two: each fault leaves a
copy on the other way, with a new timestamp that no deduplication recognises. A goal that
another agent asked for costs one: a caller that misses the answer to `/send` sends the
call again (`client.ts:53-86`), and the coder does not look at request ids
(`coder.ts:193-229`). Forgotten identities and overlapping tasks alone duplicate nothing.
`BusyIsTrue`: concurrent goals share one status and never leave it busy.
`QueuedIsTaken`: rounds overlap, so that a handler that never ends blocks no queue; it does
block the messages behind it in its own batch (`gossipsub.ts:57`).

The bounds make every limit bite: a second message overflows the queue and makes the
first one forgotten, two in one millisecond collide. Fairness is that of the timer alone.
Deadlock is not checked: goals run out. Left out: queues that nobody polls; the expiry
of fingerprints (deliveries take 8 s at most, fingerprints live 30 s) and their cap of 5000;
the peers a broker takes to be online are any subset. Heartbeats
carry nothing that is modelled; `CRITICAL_VULN` needs an answered debate (section 6); on
`HUMAN_ACTIVITY` the pipeline listens for votes (`pipeline.ts:117`, any vote at any time in
`ReviewPipeline`), and no agent publishes any.

Two known divergences without a run. `client.ts:404` calls the polling loop "the single
consumer of /recv"; `gossipReceive` (`client.ts:325-337`) and `convergecast` read it too,
and each drops what the other wants. `docs/axl-integration.md:146` has messages keyed by
`${from}:${seqno}`; there is no sequence number, and two messages of one sender and topic
in one millisecond have one fingerprint (`server.ts:286-288`), so that the second is lost.
Nothing promises delivery, so the model has both and no property judges them. Nor is it
judged that a goal which ends shows the coder idle while another one runs.

Observations: `gateway.ts:163` says that reviews are triggered manually only, and the handler
at `gateway.ts:117-123` starts one for every announcement; the gateway also receives its
own, which starts a second review if the first ended before the poll. A vote on the dashboard
(`dashboard/server.ts:116-140`) only emits events: it never reaches the `humanVotes` of the
pipeline. The coder's `goalQueue` is never found non-empty: what is pushed is shifted in the
same stretch of code.

### Proofs

`GossipProofs` proves `TypeOK` and `BusyIsTrue` for any agents, goals, limits and number of
faults. `TypeInv` says of every queue, round and message what it is about: a message under a
topic has a body of that topic, and a round only holds messages that its agent listens to,
so that a handler never gets a message of the other kind. `BusyIsTrue` is inductive with the
types: only the start of a phase raises the status, and what ends it resets it.

`GossipCountProofs` proves `OneGoalOnePR` by counting the copies of a goal: pull requests
made, copies that tasks carry (in hand or in a batch), copies between brokers, copies that
wait. `Live` are those on the native way, `Side` those on the other one. `CopyInv`: every
copy but the first has cost a fault, be it one on the other way or a call sent again, so that
all together are at most `1 + faults`: this is the claim for goals that were asked for. Of a
goal that was broadcast, the live copies are at most `max(1, faults)`, which is what
`OneGoalOnePR` needs of the pull requests among them. The two bounds meet when the coder takes mail from the other way into a
round, which makes side copies live: it only does so after its own client has met a fault,
and that fault cost no copy, so while the coder's client is off the native way all copies
together are at most `max(1, faults)`. Every step is classified by its effect on the counts
(`Steady`, or one copy more for one fault, or one copy for a goal given); `TaskPart` and the
lemmas on `Load` say what a task has before and after a step.

Only model-checked: `QueuedIsTaken`, which is liveness.

## 8. Not modelled

* The topology cache: overlapping refreshes apply in the order of their answers
  (`topology.ts:24`), and agents are declared offline only when their peer id vanishes
  (`topology.ts:53-70`). It serves lookups by role, which `ReviewPipeline` leaves open.
* The dashboard and its page: display and relays. Its toggle and its buttons are
  actions of `OfflineSync`, `ReviewPipeline` and `Gossip`.
* Endpoints of the broker that no client calls (`/a2a`, `/mcp`).
* Prompts, parsing of answers, patterns of the heuristic scan, uploads' contents, encryption,
  hashing: data that no property tells apart.
* Hazards without a property. A merge names no commit (`github.ts:184`), a transaction is
  awaited without limit (`keeperhub.ts:315`), closing is two calls (`github.ts:173`): in each
  the code does what it says, and a property would restate it. Failed results that nothing
  retries (`keeperhub.ts:214`, section 3), ids counted from one (`mint-agents.ts:78`,
  section 5) and colliding fingerprints (`server.ts:286`, section 7) contradict a comment or
  a document and are described where they belong; they have no run because each needs but
  one step.
* Configuration, logging, types, scripts other than those above.

Liveness is model-checked only: fairness and leads-to are out of the prover's reach.

## 9. Running

    tlc -workers 2 -config OfflineSync_order.cfg OfflineSync
    tlc -workers 2 -config OfflineSync_crash.cfg OfflineSync
    tlc -workers 2 -config OfflineSync_autodrain.cfg OfflineSync
    tlc -workers 2 -config ReviewPipeline_decision.cfg MCReviewPipeline
    tlc -workers 2 -config ReviewPipeline_reruns.cfg MCReviewPipeline
    tlc -workers 2 -config ReviewPipeline_record.cfg MCReviewPipeline
    tlc -workers 2 -config ReviewPipeline_storage.cfg MCReviewPipeline
    tlc -workers 2 -config ReviewPipeline_mitigated.cfg MCReviewPipeline
    tlc -workers 2 -config KeeperHub_ledger.cfg MCKeeperHub
    tlc -workers 2 -config AgentMesh_calls.cfg MCAgentMesh
    tlc -workers 2 -config AgentMesh_debate.cfg MCAgentMesh
    tlc -workers 2 -config Gossip_flow.cfg MCGossip
    tlapm OfflineSyncProofs.tla
    tlapm OfflineSyncContract.tla
    tlapm ReviewPipelineProofs.tla
    tlapm KeeperHubProofs.tla
    tlapm KeeperHubCountProofs.tla
    tlapm AgentMeshProofs.tla
    tlapm GossipProofs.tla
    tlapm GossipCountProofs.tla
