--------------------------- MODULE ReviewPipeline ---------------------------
(***************************************************************************)
(* GatewayAgent.processPR and ReviewPipeline.run, from the request of a    *)
(* review to the last action handed to the sync engine, for several calls  *)
(* in one Node.js process.  An action is the stretch of code between two   *)
(* awaits; a run's stage names the await it is suspended in.               *)
(*                                                                         *)
(* The sync engine is the one of OfflineSync, reduced to what it shows its *)
(* callers: immediate executions, a queue replayed in order, and the drain *)
(* that a reconnection starts.  Effects on GitHub and on the chain happen  *)
(* at some moment of a call that may then report success or failure.       *)
(***************************************************************************)
EXTENDS Consensus, FiniteSets, SequencesExt

CONSTANTS
  Run,         (* calls of processPR                                         *)
  PR,          (* pull request numbers                                       *)
  Target,      (* Target[r] is the pull request of call r                    *)
  PeerSets,    (* the roles that topology discovery may find online          *)
  Findings,    (* what a reviewer may find                                   *)
  MaxExploits, (* bound on the exploits of one scan                          *)
  MaxPushes,   (* bound on the commits pushed to a pull request              *)
  Opinions,    (* the verdicts that the human may vote for                   *)
  MaxRestarts, (* bound on the restarts of the gateway                       *)
  MaxOutages   (* bound on the times the connection is lost                  *)

ASSUME TargetAssumption == Target \in [Run -> PR]
ASSUME InputAssumption ==
  /\ PeerSets \subseteq SUBSET Role /\ Findings \subseteq SUBSET Severity
  /\ Opinions \subseteq Verdict
  /\ MaxExploits \in Nat /\ MaxPushes \in Nat /\ MaxRestarts \in Nat /\ MaxOutages \in Nat

VARIABLES
  stage,       (* where each run is                                          *)
  report,      (* what each run has gathered                                 *)
  activePRs,   (* GatewayAgent.activePRs                                     *)
  humanVotes,  (* ReviewPipeline.humanVotes, "none" where nothing is set     *)
  online,      (* whether the sync engine believes to be online              *)
  queue,       (* its queue                                                  *)
  draining,    (* a drain is replaying the head of the queue                 *)
  flying,      (* its immediate executions                                   *)
  head,        (* GitHub: the last commit of a pull request                  *)
  state,       (* GitHub: open, merged or closed                             *)
  registry,    (* 0G Chain: the verdict recorded for a hash                  *)
  stored,      (* 0G Storage: what has been uploaded                         *)
  landed,      (* actions that took effect                                   *)
  restarts,    (* restarts so far                                            *)
  outages      (* outages so far                                             *)

gatewayVars == <<stage, report, activePRs, humanVotes>>
syncVars    == <<online, queue, draining, flying>>
worldVars   == <<head, state, registry, stored, landed>>
bounds      == <<restarts, outages>>
vars == <<gatewayVars, syncVars, worldVars, bounds>>

-----------------------------------------------------------------------------
Kind    == {"keeperhub", "approve", "merge", "comment", "close"}
Job     == [run : Run, kind : Kind]
Waiting == {"fetch", "discover", "fanout", "attack", "convergecast", "findings",
            "transcript", "record", "first", "second"}
Ended   == {"refused", "failed", "lost", "done"}
Hash    == PR \X (0 .. MaxPushes)

InProgress(r) == stage[r] \in Waiting

(* prHash, an HMAC of the pull request and its head commit.                *)
HashOf(r) == <<Target[r], report[r].head>>

JobOf(r, kind) == [run |-> r, kind |-> kind]
FirstJob(r)    == JobOf(r, IF Allowed(report[r]) THEN "approve" ELSE "comment")
SecondJob(r)   == JobOf(r, IF Allowed(report[r]) THEN "merge" ELSE "close")

EmptyReport ==
  [head |-> 0, peers |-> {}, findings |-> [v \in Reviewer |-> {}],
   exploits |-> [x \in {} |-> "low"], debates |-> [u \in {} |-> <<>>],
   about |-> <<>>, human |-> "none", consensus |-> Undecided]

Go(r, next) == stage' = [stage EXCEPT ![r] = next]

(* Mutant: processPR without its `finally`.                                *)
EndsKeepingPR(r, how) == Go(r, how) /\ UNCHANGED activePRs

(* The end of processPR, its `finally` included.                           *)
Ends(r, how) == Go(r, how) /\ activePRs' = activePRs \ {Target[r]}

-----------------------------------------------------------------------------
Init ==
  /\ stage = [r \in Run |-> "idle"] /\ report = [r \in Run |-> EmptyReport]
  /\ activePRs = {} /\ humanVotes = [h \in Hash |-> "none"]
  /\ online = TRUE /\ queue = <<>> /\ draining = FALSE /\ flying = {}
  /\ head = [p \in PR |-> 0] /\ state = [p \in PR |-> "open"]
  /\ registry = [h \in Hash |-> "none"] /\ stored = [r \in Run |-> {}]
  /\ landed = {} /\ restarts = 0 /\ outages = 0

(* processPR: the dashboard, gossip or trigger-review asks for a review.   *)
Request(r) ==
  /\ stage[r] = "idle"
  /\ IF Target[r] \in activePRs
     THEN Go(r, "refused") /\ UNCHANGED activePRs
     ELSE activePRs' = activePRs \cup {Target[r]} /\ Go(r, "fetch")
  /\ UNCHANGED <<report, humanVotes, syncVars, worldVars, bounds>>

(* getPRContext resolves; the broadcast that follows never throws.         *)
Fetch(r) ==
  /\ stage[r] = "fetch"
  /\ report' = [report EXCEPT ![r].head = head[Target[r]]]
  /\ Go(r, "discover")
  /\ UNCHANGED <<activePRs, humanVotes, syncVars, worldVars, bounds>>

(* topology.refresh resolves; the peers of each role are taken from it.    *)
Discover(r) ==
  /\ stage[r] = "discover"
  /\ \E peers \in PeerSets : report' = [report EXCEPT ![r].peers = peers]
  /\ Go(r, "fanout")
  /\ UNCHANGED <<activePRs, humanVotes, syncVars, worldVars, bounds>>

(* An await that rejects without a catch in run() ends the run.            *)
Fails(r) ==
  /\ stage[r] \in {"fetch", "discover", "findings", "transcript"}
  /\ Ends(r, "failed")
  /\ UNCHANGED <<report, humanVotes, syncVars, worldVars, bounds>>

(***************************************************************************)
(* Phases 4 and 5: the human vote known by now is taken, the votes are     *)
(* built, and several votes go through convergecast, whose result and      *)
(* whose failure are ignored.                                              *)
(***************************************************************************)
Convene(r, gathered) ==
  LET rep == [gathered EXCEPT !.human = humanVotes[HashOf(r)]]
      many == Cardinality(Voters(rep)) > 1
  IN /\ report' = [report EXCEPT ![r] = IF many THEN rep ELSE Decided(rep)]
     /\ Go(r, IF many THEN "convergecast" ELSE "findings")

(***************************************************************************)
(* The three reviewers settle.  One that is offline, fails or times out    *)
(* reports nothing; where security reports nothing the gateway scans the   *)
(* diff itself, so its findings may be anything in any case.               *)
(***************************************************************************)
FanOut(r) ==
  /\ stage[r] = "fanout"
  /\ \E found \in [Reviewer -> Findings \cup {{}}] :
       LET rep == [report[r] EXCEPT !.findings = found]
       IN /\ \A v \in Reviewer \ {"security"} : v \notin rep.peers => found[v] = {}
          /\ IF {"redteam", "security"} \subseteq rep.peers
             THEN report' = [report EXCEPT ![r] = rep] /\ Go(r, "attack")
             ELSE Convene(r, rep)
  /\ UNCHANGED <<activePRs, humanVotes, syncVars, worldVars, bounds>>

(***************************************************************************)
(* The red team answers, or fails, which counts as no exploits.  A debate  *)
(* has a request id of its own; one that fails leaves no messages.         *)
(***************************************************************************)
ByRequest(of, requestId) ==
  [u \in {requestId[x] : x \in DOMAIN requestId} |->
     of[CHOOSE x \in DOMAIN requestId : requestId[x] = u]]

Attack(r) ==
  /\ stage[r] = "attack"
  /\ \E found \in {X \in SUBSET Exploit : Cardinality(X) <= MaxExploits} :
     \E severity \in [found -> Severity], debated \in SUBSET found :
     \E requestId \in {f \in [debated -> Uuid] : IsInjective(f)} :
     \E debate \in [debated -> UNION {Debate(s) : s \in Severity}] :
       /\ \A x \in debated : debate[x] \in Debate(severity[x])
       /\ Convene(r, [report[r] EXCEPT !.exploits = severity,
                                       !.debates = ByRequest(debate, requestId),
                                       !.about = ByRequest([x \in debated |-> x], requestId)])
  /\ UNCHANGED <<activePRs, humanVotes, syncVars, worldVars, bounds>>

Convergecast(r) ==
  /\ stage[r] = "convergecast"
  /\ report' = [report EXCEPT ![r] = Decided(@)]
  /\ Go(r, "findings")
  /\ UNCHANGED <<activePRs, humanVotes, syncVars, worldVars, bounds>>

(* Mutant: the findings are uploaded without waiting for the result.       *)
UploadFindingsUnawaited(r) ==
  /\ stage[r] = "findings"
  /\ stored' \in {stored, [stored EXCEPT ![r] = @ \cup {"findings"}]}
  /\ Go(r, IF DOMAIN report[r].debates # {} THEN "transcript" ELSE "record")
  /\ UNCHANGED <<report, activePRs, humanVotes, syncVars, head, state, registry,
                 landed, bounds>>

(* The two uploads of phase 6 resolve.                                     *)
UploadFindings(r) ==
  /\ stage[r] = "findings"
  /\ stored' = [stored EXCEPT ![r] = @ \cup {"findings"}]
  /\ Go(r, IF DOMAIN report[r].debates # {} THEN "transcript" ELSE "record")
  /\ UNCHANGED <<report, activePRs, humanVotes, syncVars, head, state, registry,
                 landed, bounds>>

UploadTranscript(r) ==
  /\ stage[r] = "transcript"
  /\ stored' = [stored EXCEPT ![r] = @ \cup {"transcript"}]
  /\ Go(r, "record")
  /\ UNCHANGED <<report, activePRs, humanVotes, syncVars, head, state, registry,
                 landed, bounds>>

-----------------------------------------------------------------------------
(***************************************************************************)
(* Effects outside.  recordReview reverts when the hash has a record;      *)
(* GitHub merges only what is open.                                        *)
(***************************************************************************)
VerdictOf(r) == IF report[r].consensus.approved THEN "approve" ELSE "reject"

(* Mutant: the record is filed under the commit at the time of recording.  *)
RecordsUnderHead(r) ==
  /\ registry[<<Target[r], head[Target[r]]>>] = "none"
  /\ registry' = [registry EXCEPT ![<<Target[r], head[Target[r]]>>] = VerdictOf(r)]

Records(r) ==
  /\ registry[HashOf(r)] = "none"
  /\ registry' = [registry EXCEPT ![HashOf(r)] = VerdictOf(r)]

TakesEffect(job) ==
  LET p == Target[job.run] IN
  /\ landed' = landed \cup {job}
  /\ job.kind = "merge" => state[p] = "open"
  /\ state' = IF state[p] # "open" THEN state
              ELSE [state EXCEPT ![p] = CASE job.kind = "merge" -> "merged"
                                          [] job.kind = "close" -> "closed"
                                          [] OTHER              -> "open"]
  /\ IF job.kind = "keeperhub" THEN Records(job.run) ELSE UNCHANGED registry

NoEffect == UNCHANGED <<landed, state, registry>>

(* A KeeperHub workflow may fail without throwing.                         *)
Succeeds(job) == TakesEffect(job) \/ (job.kind = "keeperhub" /\ NoEffect)
FailsPerhapsLate(job) == TakesEffect(job) \/ NoEffect

(***************************************************************************)
(* recordReviewDirect settles: it never throws, whatever became of the     *)
(* transaction.  The KeeperHub workflow and the first GitHub action are    *)
(* handed over in the same stretch, and offline the second one too.        *)
(***************************************************************************)
Record(r) ==
  LET keeperhub == JobOf(r, "keeperhub") IN
  /\ stage[r] = "record"
  /\ Records(r) \/ UNCHANGED registry
  /\ IF online
     THEN /\ flying' = flying \cup {keeperhub, FirstJob(r)}
          /\ Go(r, "first") /\ UNCHANGED <<queue, activePRs>>
     ELSE /\ queue' = queue \o <<keeperhub, FirstJob(r), SecondJob(r)>>
          /\ Ends(r, "done") /\ UNCHANGED flying
  /\ UNCHANGED <<report, humanVotes, online, draining, head, state, stored, landed,
                 bounds>>

(* Mutant: the second action is queued before a failed first one.          *)
GoesOnSwapped(job, requeued) ==
  LET r == job.run IN
  IF job = FirstJob(r) /\ ~online
  THEN /\ flying' = flying \ {job} /\ queue' = queue \o <<SecondJob(r)>> \o requeued
       /\ Ends(r, "done")
  ELSE IF job = FirstJob(r)
  THEN /\ flying' = (flying \ {job}) \cup {SecondJob(r)} /\ queue' = queue \o requeued
       /\ Go(r, "second") /\ UNCHANGED activePRs
  ELSE /\ flying' = flying \ {job} /\ queue' = queue \o requeued
       /\ IF job = SecondJob(r) THEN Ends(r, "done") ELSE UNCHANGED <<stage, activePRs>>

(* An immediate execution is over and its caller goes on: after the first  *)
(* action the second is handed over, after the second the run ends.        *)
GoesOn(job, requeued) ==
  LET r == job.run IN
  IF job = FirstJob(r) /\ ~online
  THEN /\ flying' = flying \ {job} /\ queue' = queue \o requeued \o <<SecondJob(r)>>
       /\ Ends(r, "done")
  ELSE IF job = FirstJob(r)
  THEN /\ flying' = (flying \ {job}) \cup {SecondJob(r)} /\ queue' = queue \o requeued
       /\ Go(r, "second") /\ UNCHANGED activePRs
  ELSE /\ flying' = flying \ {job} /\ queue' = queue \o requeued
       /\ IF job = SecondJob(r) THEN Ends(r, "done") ELSE UNCHANGED <<stage, activePRs>>

Resolves(job) ==
  /\ job \in flying
  /\ Succeeds(job) /\ GoesOn(job, <<>>)
  /\ UNCHANGED <<report, humanVotes, online, draining, head, stored, bounds>>

(* Mutant: the caller of a failed execution is never resumed.              *)
ThrowsForGood(job) ==
  /\ job \in flying
  /\ FailsPerhapsLate(job)
  /\ flying' = flying \ {job} /\ queue' = Append(queue, job)
  /\ UNCHANGED <<gatewayVars, online, draining, head, stored, bounds>>

Throws(job) ==
  /\ job \in flying
  /\ FailsPerhapsLate(job) /\ GoesOn(job, <<job>>)
  /\ UNCHANGED <<report, humanVotes, online, draining, head, stored, bounds>>

(* The drain's replay of the head of the queue settles: it is removed,     *)
(* or stays for another attempt, or is given up.                           *)
Replay ==
  /\ draining
  /\ \/ Succeeds(Head(queue)) /\ queue' = Tail(queue)
     \/ FailsPerhapsLate(Head(queue)) /\ queue' \in {queue, Tail(queue)}
  /\ draining' = (online /\ queue' # <<>>)
  /\ UNCHANGED <<gatewayVars, online, flying, head, stored, bounds>>

Connectivity(isOnline) ==
  /\ IF isOnline THEN UNCHANGED outages
     ELSE outages < MaxOutages /\ outages' = outages + 1
  /\ online' = isOnline
  /\ draining' = (draining \/ (isOnline /\ ~online /\ queue # <<>>))
  /\ UNCHANGED <<gatewayVars, queue, flying, worldVars, restarts>>

-----------------------------------------------------------------------------
(* A human-vote message on the human-activity topic.                       *)
HumanVote(hash, verdict) ==
  /\ hash[2] <= head[hash[1]]
  /\ humanVotes' = [humanVotes EXCEPT ![hash] = verdict]
  /\ UNCHANGED <<stage, report, activePRs, syncVars, worldVars, bounds>>

(* GitHub: the author pushes a commit to an open pull request.             *)
Push(p) ==
  /\ state[p] = "open" /\ head[p] < MaxPushes
  /\ head' = [head EXCEPT ![p] = @ + 1]
  /\ UNCHANGED <<gatewayVars, syncVars, state, registry, stored, landed, bounds>>

(***************************************************************************)
(* The gateway dies and is started again.  Runs, votes and immediate       *)
(* executions are lost, one of which may just have taken effect; the       *)
(* queue comes back from its file and waits for a reconnection.            *)
(***************************************************************************)
Restart ==
  /\ restarts < MaxRestarts
  /\ restarts' = restarts + 1
  /\ NoEffect \/ \E job \in flying : TakesEffect(job)
  /\ stage' = [r \in Run |-> IF InProgress(r) THEN "lost" ELSE stage[r]]
  /\ activePRs' = {} /\ humanVotes' = [h \in Hash |-> "none"]
  /\ online' = TRUE /\ draining' = FALSE /\ flying' = {}
  /\ UNCHANGED <<report, queue, head, stored, outages>>

Advance(r) ==
  \/ Fetch(r) \/ Discover(r) \/ Fails(r) \/ FanOut(r) \/ Attack(r) \/ Convergecast(r)
  \/ UploadFindings(r) \/ UploadTranscript(r) \/ Record(r)

Settles(job) == Resolves(job) \/ Throws(job)

Next ==
  \/ \E r \in Run : Request(r) \/ Advance(r)
  \/ \E job \in flying : Settles(job)
  \/ Replay
  \/ \E isOnline \in BOOLEAN : Connectivity(isOnline)
  \/ \E hash \in Hash, verdict \in Opinions : HumanVote(hash, verdict)
  \/ \E p \in PR : Push(p)
  \/ Restart

Spec == Init /\ [][Next]_vars

(***************************************************************************)
(* Calls to agents carry timers; calls to GitHub, storage and the chain    *)
(* are taken to settle.  Requests, votes, connectivity, the drain, pushes  *)
(* and restarts owe nothing.                                               *)
(***************************************************************************)
Work(r) == Advance(r) \/ \E job \in flying : job.run = r /\ Settles(job)

Fairness == \A r \in Run : WF_vars(Work(r))

FairSpec == Spec /\ Fairness

-----------------------------------------------------------------------------
TypeOK ==
  /\ stage \in [Run -> Waiting \cup Ended \cup {"idle"}]
  /\ DOMAIN report = Run /\ \A r \in Run : IsReport(report[r])
  /\ activePRs \subseteq PR /\ humanVotes \in [Hash -> Verdict \cup {"none"}]
  /\ online \in BOOLEAN /\ queue \in Seq(Job) /\ draining \in BOOLEAN
  /\ flying \subseteq Job /\ (draining => queue # <<>>)
  /\ head \in [PR -> 0 .. MaxPushes] /\ state \in [PR -> {"open", "merged", "closed"}]
  /\ registry \in [Hash -> Verdict \cup {"none"}]
  /\ stored \in [Run -> SUBSET {"findings", "transcript"}]
  /\ landed \subseteq Job /\ restarts \in 0 .. MaxRestarts
  /\ outages \in 0 .. MaxOutages

Queued   == {queue[i] : i \in DOMAIN queue}
HandedOver == Queued \cup flying \cup landed

(* What a merge means: in the run that hands it over, now or from the queue*)
(* much later, no reviewer reported a critical or high finding, a critical *)
(* or high exploit was defended in its debate, and every agent approved.   *)
MergeIsClean ==
  \A r \in Run : JobOf(r, "merge") \in HandedOver =>
    /\ \A v \in Reviewer : report[r].findings[v] \cap Blocking = {}
    /\ \A x \in DOMAIN report[r].exploits :
         report[r].exploits[x] \in Blocking => Defended(report[r], x)
    /\ \A v \in Voters(report[r]) : Votes(report[r])[v].verdict = "approve"

(* At the default threshold the red team has a veto on the recorded        *)
(* verdict: no weights of the others and no human can outvote it.          *)
RedTeamVeto ==
  \A r \in Run :
    /\ report[r].consensus # Undecided /\ "redteam" \in report[r].peers
    /\ RedTeamVote(report[r].exploits, report[r].debates).verdict = "reject"
    => ~report[r].consensus.approved

(* The human advises: with the whole swarm online, what the swarm approves *)
(* unanimously is merged against a human rejection.                        *)
HumanAdvises ==
  \A r \in Run :
    /\ report[r].consensus # Undecided /\ report[r].peers = Role
    /\ (\A v \in Voters(report[r]) : Votes(report[r])[v].verdict = "approve")
    /\ (\A x \in DOMAIN report[r].exploits : report[r].exploits[x] \notin Blocking)
    => Allowed(report[r])

(* Evidence first: no action on GitHub or on the chain is handed over      *)
(* before the findings, and the debate if there was one, are stored.       *)
EvidenceFirst ==
  \A job \in HandedOver :
    /\ "findings" \in stored[job.run]
    /\ DOMAIN report[job.run].debates # {} => "transcript" \in stored[job.run]

(* Every record on the chain is the verdict of a run that reviewed exactly *)
(* the commit it is filed under and has stored its findings.               *)
RecordIsBacked ==
  \A h \in Hash : registry[h] # "none" =>
    \E r \in Run : /\ h = <<Target[r], report[r].head>> /\ report[r].consensus # Undecided
                   /\ registry[h] = VerdictOf(r) /\ "findings" \in stored[r]

(* activePRs holds exactly the pull requests under review, each of them in *)
(* one run, however runs end.                                              *)
OneReviewPerPR ==
  /\ activePRs = {Target[r] : r \in {q \in Run : InProgress(q)}}
  /\ \A r, q \in Run :
       InProgress(r) /\ InProgress(q) /\ Target[r] = Target[q] => r = q

(* What a run leaves in the queue is in the order of its actions, so that  *)
(* a replay explains a closure before it closes.                           *)
QueuedInOrder ==
  \A i, j \in DOMAIN queue :
    queue[i] = SecondJob(queue[i].run) /\ queue[j] = FirstJob(queue[i].run) => j < i

(* Every review ends: done, failed, or lost in a restart.                  *)
ReviewsEnd == \A r \in Run : InProgress(r) ~> ~InProgress(r)

-----------------------------------------------------------------------------
(* README.md:121-126, "alt Approved: Merge PR, else Rejected: Request      *)
(* changes": the verdict recorded on the chain is what happens on GitHub.  *)
RecordMatchesAction ==
  \A r \in Run :
    /\ JobOf(r, "merge") \in HandedOver => registry[HashOf(r)] # "reject"
    /\ JobOf(r, "close") \in HandedOver => registry[HashOf(r)] # "approve"

(* docs/architecture.md:96, "any unmitigated critical exploit from red-team*)
(* bypasses voting": a review whose critical exploits were all defended is *)
(* decided by its votes.                                                   *)
DefendedIsVotedOn ==
  \A r \in Run :
    /\ report[r].consensus # Undecided /\ Voters(report[r]) # {}
    /\ \A x \in DOMAIN report[r].exploits :
         report[r].exploits[x] = "critical" => Defended(report[r], x)
    => report[r].consensus.confidenceScore = Score(Votes(report[r]), report[r].human)

(* README.md:329-335: "Only the final actions need internet. [...] 0G      *)
(* Storage upload: queued": a run that has reached its decision does not   *)
(* fail for lack of a service, it leaves its actions in the queue.         *)
DecisionsAreActedOn ==
  \A r \in Run : report[r].consensus # Undecided => stage[r] # "failed"

=============================================================================
