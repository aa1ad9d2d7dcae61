------------------------ MODULE ReviewPipelineProofs ------------------------
(***************************************************************************)
(* Proofs about ReviewPipeline, for any runs, pull requests, swarms,       *)
(* findings, exploits and thresholds, and any number of pushes, outages    *)
(* and restarts.  Liveness stays with TLC.                                 *)
(***************************************************************************)
EXTENDS ReviewPipeline, TLAPS

(***************************************************************************)
(* Lemmas on the decision.                                                 *)
(***************************************************************************)

(* A multiplier is between a half and two, in units of 1/500.              *)
LEMMA MultiplierRange ==
  ASSUME NEW rep \in Nat
  PROVE  Multiplier(rep) \in 500 .. 1000
BY DEF Multiplier

(* Every vote of a known role carries a positive weight.                   *)
LEMMA WeightPositive ==
  ASSUME NEW role \in Role, NEW vote \in Vote
  PROVE  Weight(role, vote) \in Nat /\ Weight(role, vote) >= 500
<1>1. Multiplier(vote.reputation) \in 500 .. 1000
  BY MultiplierRange DEF Vote
<1>2. RoleWeight[role] \in {1, 2, 3, 4}
  BY DEF RoleWeight, Role, Reviewer
<1>. QED  BY <1>1, <1>2 DEF Weight

(* The votes that the engine is given: one vote at most for each role.     *)
Ballot(votes) == DOMAIN votes \subseteq Role /\ \A r \in DOMAIN votes : votes[r] \in Vote

(* What approves is a part of the whole, for each role.                    *)
LEMMA ShareBounds ==
  ASSUME NEW votes, Ballot(votes), NEW role \in Role
  PROVE  /\ Share(votes, role, {"approve"}) \in Nat
         /\ Share(votes, role, Verdict) \in Nat
         /\ Share(votes, role, {"approve"}) <= Share(votes, role, Verdict)
         /\ role \in DOMAIN votes => Share(votes, role, Verdict) >= 500
<1>1. CASE role \in DOMAIN votes
  <2>1. votes[role] \in Vote /\ votes[role].verdict \in Verdict
    BY <1>1 DEF Ballot, Vote
  <2>2. Weight(role, votes[role]) \in Nat /\ Weight(role, votes[role]) >= 500
    BY <2>1, WeightPositive
  <2>3. Share(votes, role, Verdict) = Weight(role, votes[role])
    BY <1>1, <2>1 DEF Share
  <2>4. Share(votes, role, {"approve"}) \in {0, Weight(role, votes[role])}
    BY DEF Share
  <2>. QED  BY <2>2, <2>3, <2>4
<1>2. CASE role \notin DOMAIN votes
  BY <1>2 DEF Share
<1>. QED  BY <1>1, <1>2

(* The same for all votes and the human, as computeConsensus adds them.    *)
LEMMA TallyBounds ==
  ASSUME NEW votes, Ballot(votes), DOMAIN votes # {}, NEW human \in Verdict \cup {"none"}
  PROVE  /\ Tally(votes, human, {"approve"}) \in Nat
         /\ Tally(votes, human, Verdict) \in Nat
         /\ Tally(votes, human, {"approve"}) <= Tally(votes, human, Verdict)
         /\ Tally(votes, human, Verdict) >= 500
<1>1. \A role \in {"security", "performance", "style", "redteam"} :
        /\ Share(votes, role, {"approve"}) \in Nat /\ Share(votes, role, Verdict) \in Nat
        /\ Share(votes, role, {"approve"}) <= Share(votes, role, Verdict)
        /\ role \in DOMAIN votes => Share(votes, role, Verdict) >= 500
  BY ShareBounds DEF Role, Reviewer
<1>2. PICK role \in {"security", "performance", "style", "redteam"} : role \in DOMAIN votes
  BY DEF Ballot, Role, Reviewer
<1>3. Share(votes, role, Verdict) >= 500
  BY <1>1, <1>2
<1> DEFINE h(vs) == IF human \in vs THEN HumanWeight ELSE 0
<1>4. h({"approve"}) \in Nat /\ h(Verdict) \in Nat /\ h({"approve"}) <= h(Verdict)
  BY DEF HumanWeight, Verdict
<1> HIDE DEF h
<1>5. /\ Tally(votes, human, {"approve"}) =
           Share(votes, "security", {"approve"}) + Share(votes, "performance", {"approve"})
           + Share(votes, "style", {"approve"}) + Share(votes, "redteam", {"approve"})
           + h({"approve"})
      /\ Tally(votes, human, Verdict) =
           Share(votes, "security", Verdict) + Share(votes, "performance", Verdict)
           + Share(votes, "style", Verdict) + Share(votes, "redteam", Verdict) + h(Verdict)
  BY DEF Tally, h
<1>. QED  BY <1>1, <1>2, <1>3, <1>4, <1>5

(* Rounding a proportion to basis points.                                  *)
LEMMA RoundedProportion ==
  ASSUME NEW a \in Nat, NEW t \in Nat, a <= t, t > 0
  PROVE  Rounded(a, t) \in Points
<1> DEFINE n == 20000 * a + t
           d == 2 * t
           q == n \div d
<1>1. n \in Nat /\ d \in Nat /\ d > 0 /\ n < 10001 * d
  OBVIOUS
<1>2. q \in Int /\ d * q <= n /\ n < d * q + d
  <2> HIDE DEF n, d
  <2>. QED  BY <1>1 DEF q
<1>3. q >= 0
  <2> HIDE DEF n, d, q
  <2>1. SUFFICES ASSUME q <= -1 PROVE FALSE
    BY <1>2
  <2>2. d * (q + 1) = d * q + d
    BY <1>1, <1>2
  <2>3. q + 1 <= 0 => d * (q + 1) <= 0
    BY <1>1, <1>2
  <2>. QED  BY <1>1, <1>2, <2>1, <2>2, <2>3
<1>4. q <= 10000
  <2> HIDE DEF n, d, q
  <2>1. SUFFICES ASSUME q >= 10001 PROVE FALSE
    BY <1>2
  <2>2. d * (q - 10001) = d * q - 10001 * d
    BY <1>1, <1>2
  <2>3. q - 10001 >= 0 => d * (q - 10001) >= 0
    BY <1>1, <1>2
  <2>. QED  BY <1>1, <1>2, <2>1, <2>2, <2>3
<1>. QED  BY <1>2, <1>3, <1>4 DEF Rounded, Points

(* The confidence score is between 0 and 10000, whatever the votes.        *)
THEOREM ScoreInRange ==
  ASSUME NEW votes, Ballot(votes), DOMAIN votes # {}, NEW human \in Verdict \cup {"none"}
  PROVE  Score(votes, human) \in Points
<1>1. /\ Tally(votes, human, {"approve"}) \in Nat /\ Tally(votes, human, Verdict) \in Nat
      /\ Tally(votes, human, {"approve"}) <= Tally(votes, human, Verdict)
      /\ Tally(votes, human, Verdict) > 0
  BY TallyBounds
<1>. QED  BY <1>1, RoundedProportion DEF Score

(* The votes of a well-formed report are a ballot.                         *)
LEMMA VotesAreBallot ==
  ASSUME NEW rep, IsReport(rep)
  PROVE  Ballot(Votes(rep)) /\ DOMAIN Votes(rep) = Voters(rep)
<1>1. DOMAIN Votes(rep) = Voters(rep) /\ Voters(rep) \subseteq Role
  BY DEF Votes, Voters, IsReport, Role, Reviewer
<1>2. ASSUME NEW v \in Voters(rep) PROVE Votes(rep)[v] \in Vote
  <2>1. CASE v = "redteam"
    <3>1. Votes(rep)[v] = RedTeamVote(rep.exploits, rep.debates)
      BY <1>1, <2>1 DEF Votes
    <3>2. \A x \in DOMAIN rep.exploits : rep.exploits[x] \in Severity
      BY DEF IsReport
    <3>. QED  BY <3>1, <3>2 DEF RedTeamVote, Vote, Verdict
  <2>2. CASE v # "redteam"
    <3> DEFINE reputation == IF v \in rep.peers THEN 0 ELSE HeuristicReputation
    <3>1. Votes(rep)[v] = ReviewerVote(rep.findings[v], reputation)
      BY <1>1, <2>2 DEF Votes
    <3>2. v \in Reviewer /\ rep.findings[v] \subseteq Severity
      BY <1>1, <2>2 DEF Role, IsReport
    <3>3. reputation \in Nat
      BY DEF HeuristicReputation
    <3>. QED  BY <3>1, <3>2, <3>3 DEF ReviewerVote, Vote, Verdict
  <2>. QED  BY <2>1, <2>2
<1>. QED  BY <1>1, <1>2 DEF Ballot

(* computeConsensus returns a result, never the mark of an open review.    *)
LEMMA ConsensusIsResult ==
  ASSUME NEW rep, IsReport(rep)
  PROVE  LET result == ComputeConsensus(Votes(rep), rep.exploits, rep.debates, rep.human)
         IN  result \in Result /\ result # Undecided
<1> DEFINE votes  == Votes(rep)
           result == ComputeConsensus(votes, rep.exploits, rep.debates, rep.human)
<1>1. \A S \in SUBSET Blocking : Rejection(S) \in Result
  BY DEF Rejection, Result, Points
<1>2. {} \in SUBSET Blocking /\ {"critical"} \in SUBSET Blocking
  BY DEF Blocking
<1>3. ASSUME DOMAIN votes = {} \/ CriticalUnmitigated(rep.exploits, rep.debates)
      PROVE  result \in Result
  BY <1>1, <1>2, <1>3 DEF ComputeConsensus
<1>4. ASSUME DOMAIN votes # {}, ~CriticalUnmitigated(rep.exploits, rep.debates)
      PROVE  result \in Result
  <2>0. Ballot(votes) /\ rep.human \in Verdict \cup {"none"}
    BY VotesAreBallot DEF IsReport
  <2>1. Score(votes, rep.human) \in Points
    <3> HIDE DEF votes
    <3>. QED  BY <1>4, <2>0, ScoreInRange
  <2>2. (Score(votes, rep.human) >= Threshold) \in BOOLEAN
    OBVIOUS
  <2>3. result = [approved        |-> Score(votes, rep.human) >= Threshold,
                  confidenceScore |-> Score(votes, rep.human),
                  blockingIssues  |-> KeyFindings(votes) \cap Blocking]
    BY <1>4 DEF ComputeConsensus
  <2>4. KeyFindings(votes) \cap Blocking \in SUBSET Blocking
    OBVIOUS
  <2> HIDE DEF votes, result
  <2>. QED  BY <2>1, <2>2, <2>3, <2>4, Zenon DEF Result
<1>5. result \in Result
  BY <1>3, <1>4
<1>6. Undecided \notin Result
  BY DEF Undecided, Result, Points
<1>. QED  BY <1>5, <1>6

(* A report whose consensus has been computed from it.                     *)
Settled(rep) ==
  rep.consensus = ComputeConsensus(Votes(rep), rep.exploits, rep.debates, rep.human)

LEMMA DecidedIsSettled ==
  ASSUME NEW rep, IsReport(rep)
  PROVE  IsReport(Decided(rep)) /\ Settled(Decided(rep))
<1> DEFINE result == ComputeConsensus(Votes(rep), rep.exploits, rep.debates, rep.human)
<1>1. /\ DOMAIN Decided(rep) = DOMAIN rep
      /\ Decided(rep).consensus = result
      /\ Decided(rep).head = rep.head /\ Decided(rep).peers = rep.peers
      /\ Decided(rep).findings = rep.findings /\ Decided(rep).exploits = rep.exploits
      /\ Decided(rep).debates = rep.debates /\ Decided(rep).human = rep.human
      /\ Decided(rep).about = rep.about
  BY DEF Decided, IsReport
<1>2. result \in Result
  BY ConsensusIsResult
<1>3. Votes(Decided(rep)) = Votes(rep)
  BY <1>1 DEF Votes, Voters
<1>4. IsReport(Decided(rep))
  <2> HIDE DEF result
  <2>. QED  BY <1>1, <1>2 DEF IsReport
<1>5. Settled(Decided(rep))
  BY <1>1, <1>3 DEF Settled
<1>. QED  BY <1>4, <1>5

-----------------------------------------------------------------------------
(***************************************************************************)
(* The inductive invariant.                                                *)
(***************************************************************************)

(* What the phases have put into a report so far.                          *)
Plausible(rep) ==
  /\ rep.head \in 0 .. MaxPushes
  /\ \A v \in Reviewer \ {"security"} : v \notin rep.peers => rep.findings[v] = {}
  /\ "redteam" \notin rep.peers => DOMAIN rep.exploits = {}

GatheredBy(st, rep) ==
  /\ Plausible(rep)
  /\ st \in {"idle", "fetch", "discover"} => \A v \in Reviewer : rep.findings[v] = {}
  /\ st \in {"idle", "fetch", "discover", "fanout"} => DOMAIN rep.exploits = {}
  /\ st = "attack" => "redteam" \in rep.peers
  /\ st \in {"idle", "fetch", "discover", "fanout", "attack", "convergecast"} =>
       rep.consensus = Undecided
  /\ rep.consensus = Undecided \/ Settled(rep)
  /\ st \in {"findings", "transcript", "record", "first", "second", "done"} => Settled(rep)

Evident(rep, kept) ==
  "findings" \in kept /\ (DOMAIN rep.debates # {} => "transcript" \in kept)

StoredBy(st, rep, kept) ==
  /\ st = "transcript" => "findings" \in kept
  /\ st \in {"record", "first", "second", "done"} => Evident(rep, kept)

(* The stages of a run that has handed actions over.                       *)
Committed == {"first", "second", "done", "lost"}

Gathered ==
  \A r \in Run : GatheredBy(stage[r], report[r]) /\ StoredBy(stage[r], report[r], stored[r])

(* Whatever is in the queue, in flight or in effect rests on the evidence  *)
(* and on the decision of a run that will not change them any more.        *)
Warranted(job) ==
  /\ stage[job.run] \in Committed
  /\ Settled(report[job.run])
  /\ Evident(report[job.run], stored[job.run])
  /\ job.kind = "merge" => Allowed(report[job.run])

Justified == \A job \in HandedOver : Warranted(job)

(* The caller of an immediate GitHub action is suspended in it.            *)
Resumable ==
  \A job \in flying :
    /\ job = FirstJob(job.run) => stage[job.run] = "first"
    /\ job = SecondJob(job.run) => stage[job.run] = "second"

Backed ==
  \A h \in Hash : registry[h] # "none" =>
    \E r \in Run : /\ h = HashOf(r) /\ stage[r] \in Committed /\ Settled(report[r])
                   /\ registry[h] = VerdictOf(r) /\ "findings" \in stored[r]

IInv ==
  /\ TypeOK /\ Gathered /\ Justified /\ Resumable /\ Backed /\ OneReviewPerPR

-----------------------------------------------------------------------------
(***************************************************************************)
(* Lemmas on the pieces of the steps.                                      *)
(***************************************************************************)

(* A run under review that goes on keeps its pull request to itself.       *)
LEMMA GoesOnAlone ==
  ASSUME OneReviewPerPR, DOMAIN stage = Run, NEW r \in Run, InProgress(r),
         NEW next \in Waiting, Go(r, next), UNCHANGED activePRs
  PROVE  OneReviewPerPR'
<1>1. \A q \in Run : InProgress(q)' <=> InProgress(q)
  BY DEF Go, InProgress
<1>. QED  BY <1>1 DEF OneReviewPerPR

(* A run that ends gives up its pull request, which is nobody else's.      *)
LEMMA EndsAlone ==
  ASSUME OneReviewPerPR, DOMAIN stage = Run, NEW r \in Run, InProgress(r),
         NEW how \in Ended, Ends(r, how)
  PROVE  OneReviewPerPR'
<1>0. how \notin Waiting
  BY DEF Ended, Waiting
<1>1. \A q \in Run : InProgress(q)' <=> InProgress(q) /\ q # r
  BY <1>0 DEF Ends, Go, InProgress
<1>2. \A q \in Run : InProgress(q) /\ q # r => Target[q] # Target[r]
  BY DEF OneReviewPerPR
<1>3. activePRs' = activePRs \ {Target[r]}
  BY DEF Ends
<1>4. activePRs' = {Target[q] : q \in {p \in Run : InProgress(p)'}}
  BY <1>1, <1>2, <1>3 DEF OneReviewPerPR
<1>. QED  BY <1>1, <1>4 DEF OneReviewPerPR

(* Nothing that has been handed over belongs to a run that still gathers,  *)
(* so the work of such a run disturbs no guarantee about actions.          *)
LEMMA GatheringDisturbsNothing ==
  ASSUME Justified, Resumable, Backed, DOMAIN stage = Run,
         queue \in Seq(Job), flying \subseteq Job, landed \subseteq Job,
         NEW r \in Run, stage[r] \notin Committed, NEW next, Go(r, next),
         \A q \in Run : q # r => report'[q] = report[q] /\ stored'[q] = stored[q],
         UNCHANGED <<queue, flying, landed, registry>>
  PROVE  Justified' /\ Resumable' /\ Backed'
<1>1. \A q \in Run : q # r => /\ stage'[q] = stage[q] /\ report'[q] = report[q]
                              /\ stored'[q] = stored[q]
  BY DEF Go
<1>2. HandedOver' = HandedOver
  BY DEF HandedOver, Queued
<1>3. HandedOver \subseteq Job
  BY DEF HandedOver, Queued
<1>4. \A job \in HandedOver : job.run \in Run /\ job.run # r
  BY <1>3 DEF Justified, Warranted, Job
<1>5. Justified'
  BY <1>1, <1>2, <1>4 DEF Justified, Warranted
<1>6. Resumable'
  <2>1. \A job \in flying : job.run \in Run /\ job.run # r
    BY <1>4 DEF HandedOver
  <2>. QED  BY <1>1, <2>1 DEF Resumable, FirstJob, SecondJob, JobOf
<1>7. Backed'
  <2>. SUFFICES ASSUME NEW h \in Hash, registry[h] # "none"
                PROVE  \E q \in Run :
                         /\ h = HashOf(q)' /\ stage'[q] \in Committed
                         /\ Settled(report'[q]) /\ registry'[h] = VerdictOf(q)'
                         /\ "findings" \in stored'[q]
    BY DEF Backed
  <2>1. PICK q \in Run : /\ h = HashOf(q) /\ stage[q] \in Committed /\ Settled(report[q])
                        /\ registry[h] = VerdictOf(q) /\ "findings" \in stored[q]
    BY DEF Backed
  <2>2. q # r
    BY <2>1
  <2>. QED  BY <1>1, <2>1, <2>2 DEF HashOf, VerdictOf
<1>. QED  BY <1>5, <1>6, <1>7

-----------------------------------------------------------------------------
(***************************************************************************)
(* The initial state, and the steps of a run that gathers.                 *)
(***************************************************************************)

LEMMA InitHolds == Init => IInv
<1>. SUFFICES ASSUME Init PROVE IInv
  OBVIOUS
<1>1. IsReport(EmptyReport) /\ Plausible(EmptyReport)
  BY InputAssumption DEF EmptyReport, IsReport, Plausible
<1>2. TypeOK
  <2>1. DOMAIN report = Run /\ \A r \in Run : IsReport(report[r])
    BY <1>1 DEF Init
  <2>2. /\ stage \in [Run -> Waiting \cup Ended \cup {"idle"}]
        /\ humanVotes \in [Hash -> Verdict \cup {"none"}]
        /\ head \in [PR -> 0 .. MaxPushes] /\ state \in [PR -> {"open", "merged", "closed"}]
        /\ registry \in [Hash -> Verdict \cup {"none"}]
        /\ stored \in [Run -> SUBSET {"findings", "transcript"}]
        /\ restarts \in 0 .. MaxRestarts /\ outages \in 0 .. MaxOutages
    BY InputAssumption DEF Init
  <2>3. activePRs \subseteq PR /\ queue \in Seq(Job)
    BY DEF Init
  <2>5. online \in BOOLEAN /\ draining \in BOOLEAN
    BY Zenon DEF Init
  <2>4. flying \subseteq Job /\ (draining => queue # <<>>) /\ landed \subseteq Job
    BY DEF Init
  <2>. QED  BY <2>1, <2>2, <2>3, <2>4, <2>5, Zenon DEF TypeOK
<1>3. Gathered
  <2>1. \A r \in Run : stage[r] = "idle" /\ report[r] = EmptyReport
    BY DEF Init
  <2>2. /\ \A v \in Reviewer : EmptyReport.findings[v] = {}
        /\ DOMAIN EmptyReport.exploits = {} /\ EmptyReport.consensus = Undecided
    BY DEF EmptyReport
  <2>. QED  BY <1>1, <2>1, <2>2 DEF Gathered, GatheredBy, StoredBy
<1>4. HandedOver = {} /\ flying = {}
  BY DEF Init, HandedOver, Queued
<1>5. \A h \in Hash : registry[h] = "none"
  BY DEF Init
<1>6. OneReviewPerPR
  BY DEF Init, OneReviewPerPR, InProgress, Waiting
<1>. QED  BY <1>2, <1>3, <1>4, <1>5, <1>6 DEF IInv, Justified, Resumable, Backed

(* A run under review takes down a new report and goes on.                 *)
LEMMA GatheringStep ==
  ASSUME IInv, NEW r \in Run, InProgress(r), stage[r] \notin Committed,
         NEW rep, IsReport(rep), report' = [report EXCEPT ![r] = rep],
         NEW next \in Waiting, Go(r, next),
         GatheredBy(next, rep), StoredBy(next, rep, stored[r]),
         UNCHANGED <<activePRs, humanVotes, syncVars, worldVars, bounds>>
  PROVE  IInv'
<1>. USE DEF syncVars, worldVars, bounds
<1>1. /\ DOMAIN stage = Run /\ DOMAIN report = Run
      /\ queue \in Seq(Job) /\ flying \subseteq Job /\ landed \subseteq Job
  BY DEF IInv, TypeOK
<1>2. /\ stage'[r] = next /\ report'[r] = rep
      /\ \A q \in Run : q # r => stage'[q] = stage[q] /\ report'[q] = report[q]
  BY <1>1 DEF Go
<1>3. TypeOK'
  <2>1. stage' \in [Run -> Waiting \cup Ended \cup {"idle"}]
    BY DEF IInv, TypeOK, Go
  <2>2. DOMAIN report' = Run /\ \A q \in Run : IsReport(report'[q])
    BY <1>1, <1>2 DEF IInv, TypeOK
  <2>. QED  BY <2>1, <2>2 DEF IInv, TypeOK
<1>4. Gathered'
  BY <1>2 DEF IInv, Gathered
<1>5. Justified' /\ Resumable' /\ Backed'
  <2>1. \A q \in Run : q # r => report'[q] = report[q] /\ stored'[q] = stored[q]
    BY <1>2
  <2>2. UNCHANGED <<queue, flying, landed, registry>>
    OBVIOUS
  <2>3. Justified /\ Resumable /\ Backed
    BY DEF IInv
  <2>. QED  BY <1>1, <2>1, <2>2, <2>3, GatheringDisturbsNothing
<1>6. OneReviewPerPR'
  BY <1>1, GoesOnAlone DEF IInv
<1>. QED  BY <1>3, <1>4, <1>5, <1>6 DEF IInv

LEMMA FetchStep ==
  ASSUME IInv, NEW r \in Run, Fetch(r) PROVE IInv'
<1> DEFINE rep == [report[r] EXCEPT !.head = head[Target[r]]]
<1>1. stage[r] = "fetch" /\ InProgress(r) /\ stage[r] \notin Committed
  BY DEF Fetch, InProgress, Waiting, Committed
<1>2. IsReport(report[r]) /\ GatheredBy("fetch", report[r]) /\ DOMAIN report = Run
  BY <1>1 DEF IInv, TypeOK, Gathered
<1>3. head[Target[r]] \in 0 .. MaxPushes
  BY TargetAssumption DEF IInv, TypeOK
<1>4. /\ DOMAIN rep = DOMAIN report[r] /\ rep.head = head[Target[r]]
      /\ rep.peers = report[r].peers /\ rep.findings = report[r].findings
      /\ rep.exploits = report[r].exploits /\ rep.debates = report[r].debates
      /\ rep.about = report[r].about /\ rep.human = report[r].human
      /\ rep.consensus = report[r].consensus
  BY <1>2 DEF IsReport
<1>5. report' = [report EXCEPT ![r] = rep]
  BY DEF Fetch
<1> HIDE DEF rep
<1>6. IsReport(rep)
  BY <1>2, <1>3, <1>4, InputAssumption DEF IsReport
<1>7. GatheredBy("discover", rep) /\ StoredBy("discover", rep, stored[r])
  BY <1>2, <1>3, <1>4 DEF GatheredBy, StoredBy, Plausible
<1>. QED  BY <1>1, <1>5, <1>6, <1>7, GatheringStep DEF Fetch, Waiting

LEMMA DiscoverStep ==
  ASSUME IInv, NEW r \in Run, Discover(r) PROVE IInv'
<1>1. stage[r] = "discover" /\ InProgress(r) /\ stage[r] \notin Committed
  BY DEF Discover, InProgress, Waiting, Committed
<1>2. IsReport(report[r]) /\ GatheredBy("discover", report[r]) /\ DOMAIN report = Run
  BY <1>1 DEF IInv, TypeOK, Gathered
<1>3. PICK peers \in PeerSets : report' = [report EXCEPT ![r].peers = peers]
  BY DEF Discover
<1>0. peers \subseteq Role
  BY InputAssumption
<1> DEFINE rep == [report[r] EXCEPT !.peers = peers]
<1>4. /\ DOMAIN rep = DOMAIN report[r] /\ rep.head = report[r].head
      /\ rep.peers = peers /\ rep.findings = report[r].findings
      /\ rep.exploits = report[r].exploits /\ rep.debates = report[r].debates
      /\ rep.about = report[r].about /\ rep.human = report[r].human
      /\ rep.consensus = report[r].consensus
  BY <1>2 DEF IsReport
<1>5. report' = [report EXCEPT ![r] = rep]
  BY <1>3
<1> HIDE DEF rep
<1>6. IsReport(rep)
  BY <1>0, <1>2, <1>4 DEF IsReport
<1>7. GatheredBy("fanout", rep) /\ StoredBy("fanout", rep, stored[r])
  BY <1>2, <1>4 DEF GatheredBy, StoredBy, Plausible
<1>. QED  BY <1>1, <1>5, <1>6, <1>7, GatheringStep DEF Discover, Waiting

(* Deciding changes nothing that was gathered.                             *)
LEMMA DecidedIsPlausible ==
  ASSUME NEW rep, IsReport(rep), Plausible(rep) PROVE Plausible(Decided(rep))
<1>1. /\ Decided(rep).head = rep.head /\ Decided(rep).peers = rep.peers
      /\ Decided(rep).findings = rep.findings /\ Decided(rep).exploits = rep.exploits
  BY DEF Decided, IsReport
<1>. QED  BY <1>1 DEF Plausible

(* Phases 4 and 5, after whichever phase has brought the run there.        *)
LEMMA ConveneStep ==
  ASSUME IInv, NEW r \in Run, stage[r] \in {"fanout", "attack"},
         NEW gathered, IsReport(gathered), Plausible(gathered),
         gathered.consensus = Undecided,
         Convene(r, gathered),
         UNCHANGED <<activePRs, humanVotes, syncVars, worldVars, bounds>>
  PROVE  IInv'
<1> DEFINE rep  == [gathered EXCEPT !.human = humanVotes[HashOf(r)]]
           many == Cardinality(Voters(rep)) > 1
<1>1. InProgress(r) /\ stage[r] \notin Committed
  BY DEF InProgress, Waiting, Committed
<1>2. humanVotes[HashOf(r)] \in Verdict \cup {"none"}
  <2>1. report[r].head \in 0 .. MaxPushes
    BY DEF IInv, Gathered, GatheredBy, Plausible
  <2>. QED  BY <2>1, TargetAssumption DEF IInv, TypeOK, Hash, HashOf
<1>3. /\ DOMAIN rep = DOMAIN gathered /\ rep.head = gathered.head
      /\ rep.peers = gathered.peers /\ rep.findings = gathered.findings
      /\ rep.exploits = gathered.exploits /\ rep.debates = gathered.debates
      /\ rep.about = gathered.about
      /\ rep.human = humanVotes[HashOf(r)] /\ rep.consensus = gathered.consensus
  BY DEF IsReport
<1>4. /\ report' = [report EXCEPT ![r] = IF many THEN rep ELSE Decided(rep)]
      /\ Go(r, IF many THEN "convergecast" ELSE "findings")
  BY DEF Convene
<1> HIDE DEF rep, many
<1>5. IsReport(rep) /\ Plausible(rep) /\ rep.consensus = Undecided
  BY <1>2, <1>3 DEF IsReport, Plausible
<1>6. CASE many
  <2>1. report' = [report EXCEPT ![r] = rep] /\ Go(r, "convergecast")
    BY <1>4, <1>6
  <2>2. GatheredBy("convergecast", rep) /\ StoredBy("convergecast", rep, stored[r])
    BY <1>5 DEF GatheredBy, StoredBy
  <2>. QED  BY <1>1, <1>5, <2>1, <2>2, GatheringStep DEF Waiting
<1>7. CASE ~many
  <2>1. report' = [report EXCEPT ![r] = Decided(rep)] /\ Go(r, "findings")
    BY <1>4, <1>7
  <2>2. IsReport(Decided(rep)) /\ Settled(Decided(rep)) /\ Plausible(Decided(rep))
    BY <1>5, DecidedIsSettled, DecidedIsPlausible
  <2>3. /\ GatheredBy("findings", Decided(rep))
        /\ StoredBy("findings", Decided(rep), stored[r])
    BY <2>2 DEF GatheredBy, StoredBy
  <2>. QED  BY <1>1, <2>1, <2>2, <2>3, GatheringStep DEF Waiting
<1>. QED  BY <1>6, <1>7

LEMMA FanOutStep ==
  ASSUME IInv, NEW r \in Run, FanOut(r) PROVE IInv'
<1>1. stage[r] = "fanout" /\ InProgress(r) /\ stage[r] \notin Committed
  BY DEF FanOut, InProgress, Waiting, Committed
<1>2. IsReport(report[r]) /\ GatheredBy("fanout", report[r])
  BY <1>1 DEF IInv, TypeOK, Gathered
<1>3. PICK found \in [Reviewer -> Findings \cup {{}}] :
        LET rep == [report[r] EXCEPT !.findings = found]
        IN /\ \A v \in Reviewer \ {"security"} : v \notin rep.peers => found[v] = {}
           /\ IF {"redteam", "security"} \subseteq rep.peers
              THEN report' = [report EXCEPT ![r] = rep] /\ Go(r, "attack")
              ELSE Convene(r, rep)
  BY DEF FanOut
<1> DEFINE rep == [report[r] EXCEPT !.findings = found]
<1>4. /\ DOMAIN rep = DOMAIN report[r] /\ rep.head = report[r].head
      /\ rep.peers = report[r].peers /\ rep.findings = found
      /\ rep.exploits = report[r].exploits /\ rep.debates = report[r].debates
      /\ rep.about = report[r].about /\ rep.human = report[r].human
      /\ rep.consensus = report[r].consensus
  BY <1>2 DEF IsReport
<1>5. /\ \A v \in Reviewer \ {"security"} : v \notin rep.peers => found[v] = {}
      /\ IF {"redteam", "security"} \subseteq rep.peers
         THEN report' = [report EXCEPT ![r] = rep] /\ Go(r, "attack")
         ELSE Convene(r, rep)
  BY <1>3
<1> HIDE DEF rep
<1>6. IsReport(rep)
  <2>1. found \in [Reviewer -> SUBSET Severity]
    BY InputAssumption
  <2>. QED  BY <1>2, <1>4, <2>1 DEF IsReport
<1>7. Plausible(rep) /\ DOMAIN rep.exploits = {} /\ rep.consensus = Undecided
  BY <1>2, <1>4, <1>5 DEF GatheredBy, Plausible
<1>8. CASE {"redteam", "security"} \subseteq rep.peers
  <2>1. GatheredBy("attack", rep) /\ StoredBy("attack", rep, stored[r])
    BY <1>7, <1>8 DEF GatheredBy, StoredBy
  <2>2. report' = [report EXCEPT ![r] = rep] /\ Go(r, "attack")
    BY <1>5, <1>8
  <2>. QED  BY <1>1, <1>6, <2>1, <2>2, GatheringStep DEF FanOut, Waiting
<1>9. CASE ~({"redteam", "security"} \subseteq rep.peers)
  <2>1. Convene(r, rep)
    BY <1>5, <1>9
  <2>. QED  BY <1>1, <1>6, <1>7, <2>1, ConveneStep DEF FanOut
<1>. QED  BY <1>8, <1>9

(* The transcript of a debate is a sequence of messages.                   *)
LEMMA DebatesAreMessages ==
  ASSUME NEW severity PROVE Debate(severity) \subseteq Seq(Message)
<1>1. \A type \in {"exploit_challenge", "defense", "concession", "counter_attack"} :
      \A m \in {"yes", "no", "unset"} : Says(type, m) \in Message
  BY DEF Says, Message
<1>2. \A m \in {"yes", "no"} : Answer(m) \in Message
  BY <1>1 DEF Answer
<1> DEFINE opening == <<Says("exploit_challenge", "unset")>>
           counter == Says("counter_attack", "unset")
           upheld  == opening \o <<Answer("yes")>>
<1>3. opening \in Seq(Message) /\ counter \in Message
  BY <1>1
<1>4. upheld \in Seq(Message) /\ opening \o <<Answer("no")>> \in Seq(Message)
  <2> HIDE DEF opening
  <2>. QED  BY <1>2, <1>3
<1>5. /\ upheld \o <<counter>> \in Seq(Message)
      /\ \A m \in {"yes", "no"} : upheld \o <<counter, Answer(m)>> \in Seq(Message)
  <2> HIDE DEF upheld, counter
  <2>. QED  BY <1>2, <1>3, <1>4
<1>. QED  BY <1>4, <1>5 DEF Debate

LEMMA AttackStep ==
  ASSUME IInv, NEW r \in Run, Attack(r) PROVE IInv'
<1>1. stage[r] = "attack"
  BY DEF Attack
<1>2. IsReport(report[r]) /\ GatheredBy("attack", report[r])
  BY <1>1 DEF IInv, TypeOK, Gathered
<1>3. PICK found \in {X \in SUBSET Exploit : Cardinality(X) <= MaxExploits} :
        \E severity \in [found -> Severity], debated \in SUBSET found :
        \E requestId \in {f \in [debated -> Uuid] : IsInjective(f)} :
        \E debate \in [debated -> UNION {Debate(s) : s \in Severity}] :
          /\ \A x \in debated : debate[x] \in Debate(severity[x])
          /\ Convene(r, [report[r] EXCEPT !.exploits = severity,
                                          !.debates = ByRequest(debate, requestId),
                                          !.about = ByRequest([x \in debated |-> x], requestId)])
  BY Zenon DEF Attack
<1>4. PICK severity \in [found -> Severity], debated \in SUBSET found :
        \E requestId \in {f \in [debated -> Uuid] : IsInjective(f)} :
        \E debate \in [debated -> UNION {Debate(s) : s \in Severity}] :
          /\ \A x \in debated : debate[x] \in Debate(severity[x])
          /\ Convene(r, [report[r] EXCEPT !.exploits = severity,
                                          !.debates = ByRequest(debate, requestId),
                                          !.about = ByRequest([x \in debated |-> x], requestId)])
  BY <1>3, Zenon
<1>5. PICK requestId \in {f \in [debated -> Uuid] : IsInjective(f)} :
        \E debate \in [debated -> UNION {Debate(s) : s \in Severity}] :
          /\ \A x \in debated : debate[x] \in Debate(severity[x])
          /\ Convene(r, [report[r] EXCEPT !.exploits = severity,
                                          !.debates = ByRequest(debate, requestId),
                                          !.about = ByRequest([x \in debated |-> x], requestId)])
  BY <1>4, Zenon
<1>6. PICK debate \in [debated -> UNION {Debate(s) : s \in Severity}] :
          Convene(r, [report[r] EXCEPT !.exploits = severity,
                                       !.debates = ByRequest(debate, requestId),
                                       !.about = ByRequest([x \in debated |-> x], requestId)])
  BY <1>5, Zenon
<1> DEFINE debates == ByRequest(debate, requestId)
           about   == ByRequest([x \in debated |-> x], requestId)
           rep     == [report[r] EXCEPT !.exploits = severity, !.debates = debates, !.about = about]
<1>12. DOMAIN about = DOMAIN debates /\ about \in [DOMAIN about -> Exploit]
  <2>1. DOMAIN requestId = debated /\ debated \subseteq Exploit
    OBVIOUS
  <2>2. ASSUME NEW u \in {requestId[x] : x \in DOMAIN requestId}
        PROVE  (CHOOSE x \in DOMAIN requestId : requestId[x] = u) \in debated
    BY <2>1
  <2>3. about = [u \in {requestId[x] : x \in DOMAIN requestId} |->
                   CHOOSE x \in DOMAIN requestId : requestId[x] = u]
    BY <2>2 DEF ByRequest
  <2>4. DOMAIN about = DOMAIN debates
    BY DEF ByRequest
  <2> HIDE DEF about, debates
  <2>5. DOMAIN about = {requestId[x] : x \in DOMAIN requestId} /\ \A u \in DOMAIN about : about[u] \in Exploit
    BY <2>1, <2>2, <2>3
  <2>6. about = [u \in DOMAIN about |-> about[u]]
    BY <2>3, <2>5
  <2>7. about \in [DOMAIN about -> Exploit]
    BY <2>5, <2>6, Zenon
  <2>. QED  BY <2>4, <2>7
<1>7. DOMAIN debates \subseteq Uuid /\ debates \in [DOMAIN debates -> Seq(Message)]
  <2>0. DOMAIN requestId = debated /\ \A x \in debated : requestId[x] \in Uuid
    OBVIOUS
  <2>1. \A x \in debated : debate[x] \in Seq(Message)
    BY DebatesAreMessages
  <2>2. ASSUME NEW u \in {requestId[x] : x \in DOMAIN requestId}
        PROVE  debate[CHOOSE x \in DOMAIN requestId : requestId[x] = u] \in Seq(Message)
    BY <2>0, <2>1
  <2>3. debates = [u \in {requestId[x] : x \in DOMAIN requestId} |->
                     debate[CHOOSE x \in DOMAIN requestId : requestId[x] = u]]
    BY DEF ByRequest
  <2> HIDE DEF debates
  <2>4. DOMAIN debates = {requestId[x] : x \in DOMAIN requestId}
    BY <2>3
  <2>5. \A u \in DOMAIN debates : debates[u] \in Seq(Message)
    BY <2>2, <2>3, <2>4
  <2>6. debates = [u \in DOMAIN debates |-> debates[u]]
    BY <2>3, <2>4
  <2>7. debates \in [DOMAIN debates -> Seq(Message)]
    BY <2>5, <2>6, Zenon
  <2>. QED  BY <2>0, <2>4, <2>7
<1>8. /\ DOMAIN rep = DOMAIN report[r] /\ rep.head = report[r].head
      /\ rep.peers = report[r].peers /\ rep.findings = report[r].findings
      /\ rep.exploits = severity /\ rep.debates = debates
      /\ rep.about = about /\ rep.human = report[r].human
      /\ rep.consensus = report[r].consensus
  <2> HIDE DEF debates, about
  <2>. QED  BY <1>2 DEF IsReport
<1>9. Convene(r, rep)
  BY <1>6
<1> HIDE DEF rep, debates, about
<1>10. IsReport(rep)
  BY <1>2, <1>7, <1>8, <1>12 DEF IsReport
<1>11. Plausible(rep) /\ rep.consensus = Undecided
  BY <1>2, <1>8 DEF GatheredBy, Plausible
<1>. QED  BY <1>1, <1>9, <1>10, <1>11, ConveneStep DEF Attack

LEMMA ConvergecastStep ==
  ASSUME IInv, NEW r \in Run, Convergecast(r) PROVE IInv'
<1>1. stage[r] = "convergecast" /\ InProgress(r) /\ stage[r] \notin Committed
  BY DEF Convergecast, InProgress, Waiting, Committed
<1>2. IsReport(report[r]) /\ Plausible(report[r])
  BY <1>1 DEF IInv, TypeOK, Gathered, GatheredBy
<1> DEFINE rep == Decided(report[r])
<1>3. IsReport(rep) /\ Settled(rep) /\ Plausible(rep)
  BY <1>2, DecidedIsSettled, DecidedIsPlausible
<1>4. report' = [report EXCEPT ![r] = rep]
  BY DEF Convergecast
<1> HIDE DEF rep
<1>5. GatheredBy("findings", rep) /\ StoredBy("findings", rep, stored[r])
  BY <1>3 DEF GatheredBy, StoredBy
<1>. QED  BY <1>1, <1>3, <1>4, <1>5, GatheringStep DEF Convergecast, Waiting

LEMMA RequestStep ==
  ASSUME IInv, NEW r \in Run, Request(r) PROVE IInv'
<1>. USE DEF syncVars, worldVars, bounds
<1>1. /\ DOMAIN stage = Run /\ stage[r] = "idle" /\ stage[r] \notin Committed
      /\ queue \in Seq(Job) /\ flying \subseteq Job /\ landed \subseteq Job
  BY DEF IInv, TypeOK, Request, Committed
<1>2. PICK next \in {"refused", "fetch"} :
        /\ Go(r, next)
        /\ next = "refused" => activePRs' = activePRs
        /\ next = "fetch" => /\ Target[r] \notin activePRs
                             /\ activePRs' = activePRs \cup {Target[r]}
  BY DEF Request
<1>3. stage'[r] = next /\ \A q \in Run : q # r => stage'[q] = stage[q]
  BY <1>1, <1>2 DEF Go
<1>4. TypeOK'
  <2>1. stage' \in [Run -> Waiting \cup Ended \cup {"idle"}]
    BY <1>2 DEF IInv, TypeOK, Go, Waiting, Ended
  <2>2. activePRs' \subseteq PR
    BY <1>2, TargetAssumption DEF IInv, TypeOK
  <2>. QED  BY <2>1, <2>2 DEF IInv, TypeOK, Request
<1>5. Gathered'
  <2>1. GatheredBy("idle", report[r])
    BY <1>1 DEF IInv, Gathered
  <2>2. GatheredBy(next, report[r]) /\ StoredBy(next, report[r], stored[r])
    BY <2>1 DEF GatheredBy, StoredBy
  <2>. QED  BY <1>3, <2>2 DEF IInv, Gathered, Request
<1>6. Justified' /\ Resumable' /\ Backed'
  <2>1. \A q \in Run : q # r => report'[q] = report[q] /\ stored'[q] = stored[q]
    BY DEF Request
  <2>2. UNCHANGED <<queue, flying, landed, registry>>
    BY DEF Request
  <2>3. Justified /\ Resumable /\ Backed
    BY DEF IInv
  <2>. QED  BY <1>1, <1>2, <2>1, <2>2, <2>3, GatheringDisturbsNothing
<1>7. OneReviewPerPR'
  <2>0. OneReviewPerPR /\ ~InProgress(r)
    BY <1>1 DEF IInv, InProgress, Waiting
  <2>1. CASE next = "refused"
    <3>1. \A q \in Run : InProgress(q)' <=> InProgress(q)
      BY <1>3, <2>0, <2>1 DEF InProgress, Waiting
    <3>. QED  BY <1>2, <2>0, <2>1, <3>1 DEF OneReviewPerPR
  <2>2. CASE next = "fetch"
    <3>1. \A q \in Run : InProgress(q)' <=> InProgress(q) \/ q = r
      BY <1>3, <2>2 DEF InProgress, Waiting
    <3>2. \A q \in Run : InProgress(q) => Target[q] # Target[r]
      BY <1>2, <2>0, <2>2 DEF OneReviewPerPR
    <3>3. activePRs' = {Target[q] : q \in {p \in Run : InProgress(p)'}}
      BY <1>2, <2>0, <2>2, <3>1 DEF OneReviewPerPR
    <3>. QED  BY <2>0, <3>1, <3>2, <3>3 DEF OneReviewPerPR
  <2>. QED  BY <2>1, <2>2
<1>. QED  BY <1>4, <1>5, <1>6, <1>7 DEF IInv

LEMMA FailsStep ==
  ASSUME IInv, NEW r \in Run, Fails(r) PROVE IInv'
<1>. USE DEF syncVars, worldVars, bounds
<1>1. /\ DOMAIN stage = Run /\ InProgress(r) /\ stage[r] \notin Committed
      /\ queue \in Seq(Job) /\ flying \subseteq Job /\ landed \subseteq Job
  BY DEF IInv, TypeOK, Fails, Committed, InProgress, Waiting
<1>2. Go(r, "failed") /\ Ends(r, "failed") /\ "failed" \in Ended
  BY DEF Fails, Ends, Ended
<1>3. stage'[r] = "failed" /\ \A q \in Run : q # r => stage'[q] = stage[q]
  BY <1>1, <1>2 DEF Go
<1>4. TypeOK'
  <2>1. stage' \in [Run -> Waiting \cup Ended \cup {"idle"}]
    BY <1>2 DEF IInv, TypeOK, Go
  <2>2. activePRs' \subseteq PR
    BY <1>2 DEF IInv, TypeOK, Ends
  <2>. QED  BY <2>1, <2>2 DEF IInv, TypeOK, Fails
<1>5. Gathered'
  <2>1. GatheredBy("failed", report[r]) /\ StoredBy("failed", report[r], stored[r])
    BY DEF IInv, Gathered, GatheredBy, StoredBy
  <2>. QED  BY <1>3, <2>1 DEF IInv, Gathered, Fails
<1>6. Justified' /\ Resumable' /\ Backed'
  <2>1. \A q \in Run : q # r => report'[q] = report[q] /\ stored'[q] = stored[q]
    BY DEF Fails
  <2>2. UNCHANGED <<queue, flying, landed, registry>>
    BY DEF Fails
  <2>3. Justified /\ Resumable /\ Backed
    BY DEF IInv
  <2>. QED  BY <1>1, <1>2, <2>1, <2>2, <2>3, GatheringDisturbsNothing
<1>7. OneReviewPerPR'
  BY <1>1, <1>2, EndsAlone DEF IInv
<1>. QED  BY <1>4, <1>5, <1>6, <1>7 DEF IInv

(* An upload that resolves is evidence from then on.                       *)
LEMMA UploadStep ==
  ASSUME IInv, NEW r \in Run, stage[r] \in {"findings", "transcript"},
         NEW what \in {"findings", "transcript"},
         stored' = [stored EXCEPT ![r] = @ \cup {what}],
         NEW next \in {"transcript", "record"}, Go(r, next),
         StoredBy(next, report[r], stored[r] \cup {what}),
         UNCHANGED <<report, activePRs, humanVotes, syncVars, head, state, registry,
                     landed, bounds>>
  PROVE  IInv'
<1>. USE DEF syncVars, bounds
<1>1. /\ DOMAIN stage = Run /\ DOMAIN stored = Run
      /\ InProgress(r) /\ stage[r] \notin Committed
      /\ queue \in Seq(Job) /\ flying \subseteq Job /\ landed \subseteq Job
  BY DEF IInv, TypeOK, Committed, InProgress, Waiting
<1>2. /\ stage'[r] = next /\ stored'[r] = stored[r] \cup {what}
      /\ \A q \in Run : q # r => stage'[q] = stage[q] /\ stored'[q] = stored[q]
  BY <1>1 DEF Go
<1>3. TypeOK'
  <2>1. stage' \in [Run -> Waiting \cup Ended \cup {"idle"}]
    BY DEF IInv, TypeOK, Go, Waiting
  <2>2. stored' \in [Run -> SUBSET {"findings", "transcript"}]
    BY DEF IInv, TypeOK
  <2>. QED  BY <2>1, <2>2 DEF IInv, TypeOK
<1>4. Gathered'
  <2>1. GatheredBy(stage[r], report[r])
    BY DEF IInv, Gathered
  <2>2. GatheredBy(next, report[r])
    BY <2>1 DEF GatheredBy
  <2>. QED  BY <1>2, <2>2 DEF IInv, Gathered
<1>5. Justified' /\ Resumable' /\ Backed'
  <2>1. \A q \in Run : q # r => report'[q] = report[q] /\ stored'[q] = stored[q]
    BY <1>2
  <2>2. UNCHANGED <<queue, flying, landed, registry>>
    OBVIOUS
  <2>3. Justified /\ Resumable /\ Backed
    BY DEF IInv
  <2>. QED  BY <1>1, <2>1, <2>2, <2>3, GatheringDisturbsNothing
<1>6. OneReviewPerPR'
  BY <1>1, GoesOnAlone DEF IInv, Waiting
<1>. QED  BY <1>3, <1>4, <1>5, <1>6 DEF IInv

LEMMA UploadsStep ==
  ASSUME IInv, NEW r \in Run, UploadFindings(r) \/ UploadTranscript(r) PROVE IInv'
<1>1. CASE UploadFindings(r)
  <2> DEFINE next == IF DOMAIN report[r].debates # {} THEN "transcript" ELSE "record"
  <2>1. /\ stage[r] = "findings" /\ Go(r, next)
        /\ stored' = [stored EXCEPT ![r] = @ \cup {"findings"}]
    BY <1>1 DEF UploadFindings
  <2>2. StoredBy(next, report[r], stored[r] \cup {"findings"}) /\ next \in {"transcript", "record"}
    BY DEF StoredBy, Evident
  <2> HIDE DEF next
  <2>. QED  BY <1>1, <2>1, <2>2, UploadStep DEF UploadFindings
<1>2. CASE UploadTranscript(r)
  <2>1. /\ stage[r] = "transcript" /\ Go(r, "record")
        /\ stored' = [stored EXCEPT ![r] = @ \cup {"transcript"}]
    BY <1>2 DEF UploadTranscript
  <2>2. StoredBy("record", report[r], stored[r] \cup {"transcript"})
    BY <2>1 DEF IInv, Gathered, StoredBy, Evident
  <2>. QED  BY <1>2, <2>1, <2>2, UploadStep DEF UploadTranscript
<1>. QED  BY <1>1, <1>2

-----------------------------------------------------------------------------
(***************************************************************************)
(* The steps that act on a decision.                                       *)
(***************************************************************************)

LEMMA HandedOverAreJobs ==
  ASSUME IInv PROVE HandedOver \subseteq Job
BY DEF IInv, TypeOK, HandedOver, Queued

LEMMA ConcatenationElements ==
  ASSUME NEW s \in Seq(Job), NEW t \in Seq(Job)
  PROVE  /\ s \o t \in Seq(Job)
         /\ ToSet(s \o t) = ToSet(s) \cup ToSet(t)
<1>1. /\ s \o t \in Seq(Job) /\ Len(s \o t) = Len(s) + Len(t)
      /\ \A i \in 1 .. Len(s) : (s \o t)[i] = s[i]
      /\ \A i \in 1 .. Len(t) : (s \o t)[Len(s) + i] = t[i]
  OBVIOUS
<1>2. ToSet(s) \subseteq ToSet(s \o t) /\ ToSet(t) \subseteq ToSet(s \o t)
  <2>1. \A i \in DOMAIN s : i \in DOMAIN (s \o t) /\ (s \o t)[i] = s[i]
    BY <1>1
  <2>2. \A i \in DOMAIN t : Len(s) + i \in DOMAIN (s \o t) /\ (s \o t)[Len(s) + i] = t[i]
    BY <1>1
  <2>. QED  BY <2>1, <2>2 DEF ToSet
<1>3. ToSet(s \o t) \subseteq ToSet(s) \cup ToSet(t)
  <2>1. SUFFICES ASSUME NEW i \in DOMAIN (s \o t)
                 PROVE  (s \o t)[i] \in ToSet(s) \cup ToSet(t)
    BY DEF ToSet
  <2>2. CASE i <= Len(s)
    BY <1>1, <2>2 DEF ToSet
  <2>3. CASE i > Len(s)
    <3>1. i - Len(s) \in DOMAIN t /\ (s \o t)[i] = t[i - Len(s)]
      BY <1>1, <2>3
    <3>. QED  BY <3>1 DEF ToSet
  <2>. QED  BY <1>1, <2>2, <2>3
<1>. QED  BY <1>1, <1>2, <1>3

(* An action that has an effect records at most the verdict of its run     *)
(* under the hash of its run.                                              *)
LEMMA EffectIsItsOwn ==
  ASSUME IInv, NEW job \in Job, TakesEffect(job) \/ NoEffect
  PROVE  /\ landed' \subseteq landed \cup {job}
         /\ state' \in [PR -> {"open", "merged", "closed"}]
         /\ registry' \in [Hash -> Verdict \cup {"none"}]
         /\ \A h \in Hash : registry'[h] # registry[h] =>
              h = HashOf(job.run) /\ registry'[h] = VerdictOf(job.run)
<1>0. /\ state \in [PR -> {"open", "merged", "closed"}]
      /\ registry \in [Hash -> Verdict \cup {"none"}]
  BY DEF IInv, TypeOK
<1>1. CASE NoEffect
  BY <1>0, <1>1 DEF NoEffect
<1>2. CASE TakesEffect(job)
  <2>1. landed' = landed \cup {job}
    BY <1>2 DEF TakesEffect
  <2>2. state' \in [PR -> {"open", "merged", "closed"}]
    BY <1>0, <1>2 DEF TakesEffect
  <2>3. registry' = registry \/ Records(job.run)
    BY <1>2 DEF TakesEffect
  <2>4. VerdictOf(job.run) \in Verdict
    BY DEF VerdictOf, Verdict
  <2>5. registry' \in [Hash -> Verdict \cup {"none"}]
    BY <1>0, <2>3, <2>4 DEF Records
  <2>6. \A h \in Hash : registry'[h] # registry[h] =>
          h = HashOf(job.run) /\ registry'[h] = VerdictOf(job.run)
    BY <1>0, <2>3 DEF Records
  <2>. QED  BY <2>1, <2>2, <2>5, <2>6
<1>. QED  BY <1>1, <1>2

(* Runs that are committed stay so and never touch their reports again, so *)
(* it is enough that what is new is warranted.                             *)
LEMMA CommittedStay ==
  ASSUME IInv, UNCHANGED <<report, stored>>,
         \A q \in Run : stage[q] \in Committed => stage'[q] \in Committed,
         \A job \in HandedOver' : job \in HandedOver \/ Warranted(job)',
         \A h \in Hash : registry'[h] # registry[h] =>
           \E r \in Run : /\ h = HashOf(r) /\ registry'[h] = VerdictOf(r)
                          /\ stage'[r] \in Committed /\ Settled(report[r])
                          /\ "findings" \in stored[r]
  PROVE  Justified' /\ Backed'
<1>1. Justified'
  <2>1. \A job \in HandedOver : job.run \in Run
    BY HandedOverAreJobs DEF Job
  <2>. QED  BY <2>1 DEF IInv, Justified, Warranted
<1>2. Backed'
  <2>. SUFFICES ASSUME NEW h \in Hash, registry'[h] # "none"
                PROVE  \E r \in Run :
                         /\ h = HashOf(r)' /\ stage'[r] \in Committed
                         /\ Settled(report'[r]) /\ registry'[h] = VerdictOf(r)'
                         /\ "findings" \in stored'[r]
    BY DEF Backed
  <2>0. \A r \in Run : HashOf(r)' = HashOf(r) /\ VerdictOf(r)' = VerdictOf(r)
    BY DEF HashOf, VerdictOf
  <2>1. CASE registry'[h] = registry[h]
    BY <2>0, <2>1 DEF IInv, Backed
  <2>2. CASE registry'[h] # registry[h]
    BY <2>0, <2>2
  <2>. QED  BY <2>1, <2>2
<1>. QED  BY <1>1, <1>2

(* Both actions of a run are warranted by what warrants any of them.       *)
LEMMA OwnActions ==
  ASSUME NEW r \in Run, stage'[r] \in Committed, Settled(report[r]),
         Evident(report[r], stored[r]), UNCHANGED <<report, stored>>
  PROVE  \A job \in {JobOf(r, "keeperhub"), FirstJob(r), SecondJob(r)} : Warranted(job)'
<1>1. ASSUME NEW job \in {JobOf(r, "keeperhub"), FirstJob(r), SecondJob(r)}
      PROVE  job.run = r /\ (job.kind = "merge" => Allowed(report[r]))
  BY DEF JobOf, FirstJob, SecondJob
<1>. QED  BY <1>1 DEF Warranted

LEMMA OwnActionsAreJobs ==
  ASSUME NEW r \in Run
  PROVE  /\ JobOf(r, "keeperhub") \in Job /\ FirstJob(r) \in Job /\ SecondJob(r) \in Job
         /\ JobOf(r, "keeperhub").run = r /\ FirstJob(r).run = r /\ SecondJob(r).run = r
         /\ FirstJob(r) # SecondJob(r)
         /\ JobOf(r, "keeperhub") \notin {FirstJob(r), SecondJob(r)}
BY DEF Job, Kind, JobOf, FirstJob, SecondJob

LEMMA RecordStep ==
  ASSUME IInv, NEW r \in Run, Record(r) PROVE IInv'
<1> DEFINE keeperhub == JobOf(r, "keeperhub")
           own == {keeperhub, FirstJob(r), SecondJob(r)}
<1>. USE DEF bounds
<1>1. /\ DOMAIN stage = Run /\ stage[r] = "record" /\ InProgress(r)
      /\ queue \in Seq(Job) /\ flying \subseteq Job /\ landed \subseteq Job
  BY DEF IInv, TypeOK, Record, InProgress, Waiting
<1>2. keeperhub \in Job /\ FirstJob(r) \in Job /\ SecondJob(r) \in Job
  BY OwnActionsAreJobs
<1>3. PICK next \in {"first", "done"} :
        /\ Go(r, next)
        /\ next = "first" => /\ flying' = flying \cup {keeperhub, FirstJob(r)}
                             /\ UNCHANGED <<queue, activePRs>>
        /\ next = "done" => /\ queue' = queue \o <<keeperhub, FirstJob(r), SecondJob(r)>>
                            /\ Ends(r, "done") /\ UNCHANGED flying
  BY DEF Record, Ends
<1>4. stage'[r] = next /\ \A q \in Run : q # r => stage'[q] = stage[q]
  BY <1>1, <1>3 DEF Go
<1>5. Settled(report[r]) /\ Evident(report[r], stored[r])
  BY <1>1 DEF IInv, Gathered, GatheredBy, StoredBy
<1>6. UNCHANGED <<report, stored, landed, state>>
  BY DEF Record
<1>7. registry' = registry \/ Records(r)
  BY DEF Record
<1>8. /\ queue' \in Seq(Job) /\ flying' \subseteq Job
      /\ ToSet(queue') \subseteq ToSet(queue) \cup own /\ flying' \subseteq flying \cup own
      /\ queue # <<>> => queue' # <<>>
  <2>1. CASE next = "first"
    BY <1>1, <1>2, <1>3, <2>1
  <2>2. CASE next = "done"
    <3> DEFINE three == <<keeperhub, FirstJob(r), SecondJob(r)>>
    <3>1. three \in Seq(Job) /\ ToSet(three) = own
      BY <1>2 DEF ToSet
    <3>2. queue' = queue \o three
      BY <1>3, <2>2
    <3> HIDE DEF three, own
    <3>3. queue' \in Seq(Job) /\ ToSet(queue') = ToSet(queue) \cup own
      BY <1>1, <3>1, <3>2, ConcatenationElements
    <3>4. queue # <<>> => queue' # <<>>
      BY <1>1, <3>1, <3>2
    <3>5. flying' = flying
      BY <1>3, <2>2
    <3>. QED  BY <1>1, <3>3, <3>4, <3>5
  <2>. QED  BY <2>1, <2>2
<1>9. TypeOK'
  <2>1. stage' \in [Run -> Waiting \cup Ended \cup {"idle"}]
    BY <1>3 DEF IInv, TypeOK, Go, Waiting, Ended
  <2>2. activePRs' \subseteq PR
    BY <1>3 DEF IInv, TypeOK, Ends
  <2>3. registry' \in [Hash -> Verdict \cup {"none"}]
    BY <1>7 DEF IInv, TypeOK, Records, VerdictOf, Verdict
  <2>4. online' = online /\ draining' = draining /\ humanVotes' = humanVotes /\ head' = head
        /\ restarts' = restarts /\ outages' = outages
    BY DEF Record
  <2>. QED  BY <1>6, <1>8, <2>1, <2>2, <2>3, <2>4 DEF IInv, TypeOK
<1>10. Gathered'
  <2>1. GatheredBy(next, report[r]) /\ StoredBy(next, report[r], stored[r])
    BY <1>5 DEF IInv, Gathered, GatheredBy, StoredBy
  <2>. QED  BY <1>4, <1>6, <2>1 DEF IInv, Gathered
<1>11. Justified' /\ Backed'
  <2>1. \A q \in Run : stage[q] \in Committed => stage'[q] \in Committed
    BY <1>1, <1>4 DEF Committed
  <2>2. stage'[r] \in Committed
    BY <1>4 DEF Committed
  <2>3. \A job \in own : Warranted(job)'
    BY <1>5, <1>6, <2>2, OwnActions
  <2>4. HandedOver' \subseteq HandedOver \cup own
    BY <1>6, <1>8 DEF HandedOver, Queued, ToSet
  <2>5. \A h \in Hash : registry'[h] # registry[h] =>
          h = HashOf(r) /\ registry'[h] = VerdictOf(r)
    BY <1>7 DEF IInv, TypeOK, Records
  <2>6. "findings" \in stored[r]
    BY <1>5 DEF Evident
  <2> HIDE DEF own
  <2>. QED  BY <1>5, <1>6, <2>1, <2>2, <2>3, <2>4, <2>5, <2>6, CommittedStay
<1>12. Resumable'
  <2>1. \A job \in flying : job.run \in Run /\ job.run # r
    BY <1>1 DEF IInv, Justified, Warranted, HandedOver, Committed, Job
  <2>2. SUFFICES ASSUME NEW job \in flying'
                 PROVE  /\ job = FirstJob(job.run)' => stage'[job.run] = "first"
                        /\ job = SecondJob(job.run)' => stage'[job.run] = "second"
    BY DEF Resumable
  <2>3. \A q : FirstJob(q)' = FirstJob(q) /\ SecondJob(q)' = SecondJob(q)
    BY <1>6 DEF FirstJob, SecondJob
  <2>4. CASE job \in flying
    BY <1>4, <2>1, <2>3, <2>4 DEF IInv, Resumable
  <2>5. CASE job \notin flying
    <3>1. next = "first" /\ job \in {keeperhub, FirstJob(r)}
      BY <1>3, <2>5
    <3>. QED  BY <1>4, <2>3, <3>1, OwnActionsAreJobs
  <2>. QED  BY <2>4, <2>5
<1>13. OneReviewPerPR'
  <2>1. CASE next = "first"
    BY <1>1, <1>3, <2>1, GoesOnAlone DEF IInv, Waiting
  <2>2. CASE next = "done"
    BY <1>1, <1>3, <2>2, EndsAlone DEF IInv, Ended
  <2>. QED  BY <2>1, <2>2
<1>. QED  BY <1>9, <1>10, <1>11, <1>12, <1>13 DEF IInv

(* What every end of an immediate execution preserves.                     *)
LEMMA ActedOn ==
  ASSUME IInv, NEW job \in flying, TakesEffect(job) \/ NoEffect,
         UNCHANGED <<report, humanVotes, online, draining, head, stored, bounds>>,
         NEW next \in Committed, Go(job.run, next), next = "lost" => stage[job.run] = "lost",
         activePRs' \subseteq activePRs,
         queue' \in Seq(Job), queue # <<>> => queue' # <<>>,
         ToSet(queue') \subseteq ToSet(queue) \cup {job, SecondJob(job.run)},
         flying' \subseteq flying \cup {SecondJob(job.run)},
         Resumable', OneReviewPerPR'
  PROVE  IInv'
<1> DEFINE r == job.run
<1>. USE DEF bounds
<1>1. /\ DOMAIN stage = Run /\ flying \subseteq Job /\ landed \subseteq Job
      /\ job \in Job /\ job \in HandedOver /\ r \in Run
  BY DEF IInv, TypeOK, HandedOver, Job
<1>2. /\ landed' \subseteq landed \cup {job}
      /\ state' \in [PR -> {"open", "merged", "closed"}]
      /\ registry' \in [Hash -> Verdict \cup {"none"}]
      /\ \A h \in Hash : registry'[h] # registry[h] =>
           h = HashOf(r) /\ registry'[h] = VerdictOf(r)
  BY <1>1, EffectIsItsOwn
<1>3. stage[r] \in Committed /\ Settled(report[r]) /\ Evident(report[r], stored[r])
  BY <1>1 DEF IInv, Justified, Warranted
<1>4. stage'[r] = next /\ \A q \in Run : q # r => stage'[q] = stage[q]
  BY <1>1 DEF Go
<1>5. SecondJob(r) \in Job
  BY <1>1, OwnActionsAreJobs
<1>6. TypeOK'
  <2>1. stage' \in [Run -> Waiting \cup Ended \cup {"idle"}]
    BY DEF IInv, TypeOK, Go, Waiting, Ended, Committed
  <2>. QED  BY <1>1, <1>2, <1>5, <2>1 DEF IInv, TypeOK
<1>7. Gathered'
  <2>1. GatheredBy(next, report[r]) /\ StoredBy(next, report[r], stored[r])
    BY <1>1, <1>3 DEF IInv, Gathered, GatheredBy, StoredBy, Committed
  <2>. QED  BY <1>4, <2>1 DEF IInv, Gathered
<1>8. Justified' /\ Backed'
  <2>1. \A q \in Run : stage[q] \in Committed => stage'[q] \in Committed
    BY <1>4
  <2>2. \A new \in {SecondJob(r)} : Warranted(new)'
    BY <1>1, <1>3, <1>4, OwnActions
  <2>3. HandedOver' \subseteq HandedOver \cup {SecondJob(r)}
    BY <1>1, <1>2 DEF HandedOver, Queued, ToSet
  <2>4. "findings" \in stored[r]
    BY <1>3 DEF Evident
  <2>. QED  BY <1>1, <1>2, <1>3, <1>4, <2>1, <2>2, <2>3, <2>4, CommittedStay
<1>. QED  BY <1>6, <1>7, <1>8 DEF IInv

(* An immediate execution is over, whatever came of it.                    *)
LEMMA SettlesStep ==
  ASSUME IInv, NEW job \in flying, Settles(job) PROVE IInv'
<1> DEFINE r == job.run
<1>. USE DEF bounds
<1>1. /\ DOMAIN stage = Run /\ queue \in Seq(Job) /\ flying \subseteq Job
      /\ job \in Job /\ job \in HandedOver /\ r \in Run
  BY DEF IInv, TypeOK, HandedOver, Job
<1>2. PICK requeued \in {<<>>, <<job>>} : GoesOn(job, requeued)
  BY DEF Settles, Resolves, Throws
<1>3. TakesEffect(job) \/ NoEffect
  BY DEF Settles, Resolves, Throws, Succeeds, FailsPerhapsLate
<1>4. UNCHANGED <<report, humanVotes, online, draining, head, stored, bounds>>
  BY DEF Settles, Resolves, Throws
<1>5. stage[r] \in Committed
  BY <1>1 DEF IInv, Justified, Warranted
<1>6. /\ FirstJob(r) # SecondJob(r) /\ FirstJob(r).run = r /\ SecondJob(r).run = r
      /\ SecondJob(r) \in Job
  BY <1>1, OwnActionsAreJobs
<1>7. /\ job = FirstJob(r) => stage[r] = "first" /\ SecondJob(r) \notin flying
      /\ job = SecondJob(r) => stage[r] = "second" /\ FirstJob(r) \notin flying
  BY <1>6 DEF IInv, Resumable
<1>8. /\ requeued \in Seq(Job) /\ ToSet(requeued) \subseteq {job}
      /\ <<SecondJob(r)>> \in Seq(Job) /\ ToSet(<<SecondJob(r)>>) = {SecondJob(r)}
  <2>1. ASSUME NEW one \in Job PROVE <<one>> \in Seq(Job) /\ ToSet(<<one>>) = {one}
    BY DEF ToSet
  <2>2. ToSet(<<>>) = {} /\ <<>> \in Seq(Job)
    BY DEF ToSet
  <2>. QED  BY <1>1, <1>6, <2>1, <2>2
<1>9. /\ queue \o requeued \in Seq(Job)
      /\ ToSet(queue \o requeued) \subseteq ToSet(queue) \cup {job}
      /\ queue # <<>> => queue \o requeued # <<>>
  <2>1. queue \o requeued \in Seq(Job) /\ ToSet(queue \o requeued) = ToSet(queue) \cup ToSet(requeued)
    BY <1>1, <1>8, ConcatenationElements
  <2>2. queue # <<>> => queue \o requeued # <<>>
    BY <1>1, <1>8
  <2>. QED  BY <1>8, <2>1, <2>2
<1>10. \A q \in Run : FirstJob(q)' = FirstJob(q) /\ SecondJob(q)' = SecondJob(q)
  BY <1>4 DEF FirstJob, SecondJob
<1>11. \A other \in flying \ {job} : other.run \in Run
  BY <1>1 DEF Job
<1>12. OneReviewPerPR
  BY DEF IInv
<1>13. CASE job = FirstJob(r) /\ ~online
  <2>1. /\ flying' = flying \ {job} /\ queue' = queue \o requeued \o <<SecondJob(r)>>
        /\ Ends(r, "done") /\ Go(r, "done") /\ InProgress(r)
    BY <1>2, <1>7, <1>13 DEF GoesOn, Ends, InProgress, Waiting
  <2>2. stage'[r] = "done" /\ \A q \in Run : q # r => stage'[q] = stage[q]
    BY <1>1, <2>1 DEF Go
  <2>3. queue' \in Seq(Job) /\ ToSet(queue') = ToSet(queue \o requeued) \cup {SecondJob(r)}
    <3> DEFINE before == queue \o requeued
               second == <<SecondJob(r)>>
    <3>1. /\ before \in Seq(Job) /\ queue' = before \o second
          /\ second \in Seq(Job) /\ ToSet(second) = {SecondJob(r)}
      BY <1>8, <1>9, <2>1
    <3> HIDE DEF before, second
    <3>2. queue' \in Seq(Job) /\ ToSet(queue') = ToSet(before) \cup {SecondJob(r)}
      BY <3>1, ConcatenationElements
    <3>. QED  BY <3>2 DEF before
  <2>4. queue # <<>> => queue' # <<>>
    BY <1>8, <1>9, <2>1
  <2>5. OneReviewPerPR'
    BY <1>1, <1>12, <2>1, EndsAlone DEF Ended
  <2>6. Resumable'
    BY <1>7, <1>10, <1>11, <1>13, <2>1, <2>2 DEF IInv, Resumable
  <2>7. activePRs' \subseteq activePRs
    BY <2>1 DEF Ends
  <2>. QED  BY <1>3, <1>4, <1>9, <2>1, <2>3, <2>4, <2>5, <2>6, <2>7, ActedOn DEF Committed
<1>14. CASE job = FirstJob(r) /\ online
  <2>1. /\ flying' = (flying \ {job}) \cup {SecondJob(r)} /\ queue' = queue \o requeued
        /\ Go(r, "second") /\ UNCHANGED activePRs /\ InProgress(r)
    BY <1>2, <1>7, <1>14 DEF GoesOn, InProgress, Waiting
  <2>2. stage'[r] = "second" /\ \A q \in Run : q # r => stage'[q] = stage[q]
    BY <1>1, <2>1 DEF Go
  <2>3. OneReviewPerPR'
    BY <1>1, <1>12, <2>1, GoesOnAlone DEF Waiting
  <2>4. Resumable'
    <3>1. ASSUME NEW other \in flying \ {job}
          PROVE  /\ other = FirstJob(other.run) => stage'[other.run] = "first"
                 /\ other = SecondJob(other.run) => stage'[other.run] = "second"
      BY <1>7, <1>11, <1>14, <2>2 DEF IInv, Resumable
    <3>2. SecondJob(r).run = r /\ SecondJob(r) # FirstJob(r) /\ stage'[r] = "second"
      BY <1>6, <2>2
    <3>. QED  BY <1>1, <1>10, <1>11, <2>1, <3>1, <3>2 DEF Resumable
  <2>. QED  BY <1>3, <1>4, <1>9, <2>1, <2>3, <2>4, ActedOn DEF Committed
<1>15. CASE job = SecondJob(r)
  <2>1. /\ flying' = flying \ {job} /\ queue' = queue \o requeued
        /\ Ends(r, "done") /\ Go(r, "done") /\ InProgress(r)
    BY <1>2, <1>6, <1>7, <1>15 DEF GoesOn, Ends, InProgress, Waiting
  <2>2. stage'[r] = "done" /\ \A q \in Run : q # r => stage'[q] = stage[q]
    BY <1>1, <2>1 DEF Go
  <2>3. OneReviewPerPR'
    BY <1>1, <1>12, <2>1, EndsAlone DEF Ended
  <2>4. Resumable'
    BY <1>7, <1>10, <1>11, <1>15, <2>1, <2>2 DEF IInv, Resumable
  <2>5. activePRs' \subseteq activePRs
    BY <2>1 DEF Ends
  <2>. QED  BY <1>3, <1>4, <1>9, <2>1, <2>3, <2>4, <2>5, ActedOn DEF Committed
<1>16. CASE job \notin {FirstJob(r), SecondJob(r)}
  <2>1. flying' = flying \ {job} /\ queue' = queue \o requeued /\ UNCHANGED <<stage, activePRs>>
    BY <1>2, <1>16 DEF GoesOn
  <2>2. Go(r, stage[r])
    BY <1>1, <2>1 DEF IInv, TypeOK, Go
  <2>3. OneReviewPerPR'
    BY <1>12, <2>1 DEF OneReviewPerPR, InProgress
  <2>4. Resumable'
    BY <1>10, <1>11, <2>1 DEF IInv, Resumable
  <2>. QED  BY <1>3, <1>4, <1>5, <1>9, <2>1, <2>2, <2>3, <2>4, ActedOn
<1>. QED  BY <1>13, <1>14, <1>15, <1>16 DEF IInv, TypeOK

LEMMA ReplayStep ==
  ASSUME IInv, Replay PROVE IInv'
<1> DEFINE job == Head(queue)
<1>. USE DEF bounds, gatewayVars
<1>1. /\ queue \in Seq(Job) /\ queue # <<>> /\ flying \subseteq Job /\ landed \subseteq Job
      /\ DOMAIN stage = Run
  BY DEF IInv, TypeOK, Replay
<1>2. /\ job \in Job /\ job \in HandedOver /\ Tail(queue) \in Seq(Job)
      /\ ToSet(Tail(queue)) \subseteq ToSet(queue)
  <2>1. /\ 1 \in DOMAIN queue /\ job = queue[1] /\ Tail(queue) \in Seq(Job)
        /\ \A i \in DOMAIN Tail(queue) : i + 1 \in DOMAIN queue /\ Tail(queue)[i] = queue[i + 1]
    BY <1>1
  <2>2. job \in Job
    BY <1>1, <2>1
  <2>. QED  BY <2>1, <2>2 DEF HandedOver, Queued, ToSet
<1>3. TakesEffect(job) \/ NoEffect
  BY DEF Replay, Succeeds, FailsPerhapsLate
<1>4. queue' \in {queue, Tail(queue)}
  BY DEF Replay
<1>5. /\ UNCHANGED <<stage, report, activePRs, humanVotes, online, flying, head, stored, bounds>>
      /\ draining' = (online /\ queue' # <<>>)
  BY DEF Replay
<1>6. /\ landed' \subseteq landed \cup {job}
      /\ state' \in [PR -> {"open", "merged", "closed"}]
      /\ registry' \in [Hash -> Verdict \cup {"none"}]
      /\ \A h \in Hash : registry'[h] # registry[h] =>
           h = HashOf(job.run) /\ registry'[h] = VerdictOf(job.run)
  BY <1>2, <1>3, EffectIsItsOwn
<1> HIDE DEF job
<1>7. TypeOK'
  <2>1. queue' \in Seq(Job) /\ landed' \subseteq Job
    BY <1>1, <1>2, <1>4, <1>6
  <2>2. draining' \in BOOLEAN /\ (draining' => queue' # <<>>)
    <3> HIDE DEF bounds, gatewayVars
    <3>. QED  BY <1>5, Zenon
  <2>3. /\ stage' \in [Run -> Waiting \cup Ended \cup {"idle"}]
        /\ DOMAIN report' = Run /\ \A r \in Run : IsReport(report'[r])
        /\ activePRs' \subseteq PR /\ humanVotes' \in [Hash -> Verdict \cup {"none"}]
        /\ online' \in BOOLEAN /\ flying' \subseteq Job /\ head' \in [PR -> 0 .. MaxPushes]
        /\ stored' \in [Run -> SUBSET {"findings", "transcript"}]
        /\ restarts' \in 0 .. MaxRestarts /\ outages' \in 0 .. MaxOutages
    BY <1>5 DEF IInv, TypeOK
  <2>. QED  BY <1>6, <2>1, <2>2, <2>3, Zenon DEF TypeOK
<1>8. Gathered'
  BY <1>5 DEF IInv, Gathered
<1>9. Justified' /\ Backed'
  <2>1. HandedOver' \subseteq HandedOver
    BY <1>2, <1>4, <1>5, <1>6 DEF HandedOver, Queued, ToSet
  <2>2. Warranted(job)
    BY <1>2 DEF IInv, Justified
  <2>3. /\ job.run \in Run /\ stage'[job.run] \in Committed /\ Settled(report[job.run])
        /\ "findings" \in stored[job.run]
    BY <1>2, <1>5, <2>2 DEF Job, Warranted, Evident
  <2>. QED  BY <1>5, <1>6, <2>1, <2>3, CommittedStay
<1>10. Resumable'
  BY <1>5 DEF IInv, Resumable, FirstJob, SecondJob
<1>11. OneReviewPerPR'
  BY <1>5 DEF IInv, OneReviewPerPR, InProgress
<1>. QED  BY <1>7, <1>8, <1>9, <1>10, <1>11 DEF IInv

LEMMA RestartStep ==
  ASSUME IInv, Restart PROVE IInv'
<1>1. /\ stage' = [r \in Run |-> IF InProgress(r) THEN "lost" ELSE stage[r]]
      /\ activePRs' = {} /\ humanVotes' = [h \in Hash |-> "none"]
      /\ online' = TRUE /\ draining' = FALSE /\ flying' = {}
      /\ UNCHANGED <<report, queue, head, stored, outages>>
      /\ restarts < MaxRestarts /\ restarts' = restarts + 1
  BY DEF Restart
<1>2. \A r \in Run : stage'[r] = "lost" \/ (~InProgress(r) /\ stage'[r] = stage[r])
  BY <1>1
<1>3. HandedOver \subseteq Job
  BY HandedOverAreJobs
<1>4. /\ landed' \subseteq landed \cup flying
      /\ state' \in [PR -> {"open", "merged", "closed"}]
      /\ registry' \in [Hash -> Verdict \cup {"none"}]
      /\ \A h \in Hash : registry'[h] # registry[h] =>
           \E job \in flying : h = HashOf(job.run) /\ registry'[h] = VerdictOf(job.run)
  <2>1. CASE NoEffect
    BY <2>1 DEF NoEffect, IInv, TypeOK
  <2>2. ASSUME NEW job \in flying, TakesEffect(job)
        PROVE  /\ landed' \subseteq landed \cup {job}
               /\ state' \in [PR -> {"open", "merged", "closed"}]
               /\ registry' \in [Hash -> Verdict \cup {"none"}]
               /\ \A h \in Hash : registry'[h] # registry[h] =>
                    h = HashOf(job.run) /\ registry'[h] = VerdictOf(job.run)
    <3>1. job \in Job
      BY <1>3 DEF HandedOver
    <3>. QED  BY <2>2, <3>1, EffectIsItsOwn
  <2>. QED  BY <2>1, <2>2 DEF Restart
<1>5. TypeOK'
  <2>1. stage' \in [Run -> Waiting \cup Ended \cup {"idle"}]
    BY <1>1 DEF IInv, TypeOK, Ended
  <2>2. landed' \subseteq Job /\ queue' \in Seq(Job)
    BY <1>1, <1>3, <1>4 DEF IInv, TypeOK, HandedOver
  <2>3. online' \in BOOLEAN /\ draining' \in BOOLEAN /\ (draining' => queue' # <<>>)
    BY <1>1, Zenon
  <2>4. restarts' \in 0 .. MaxRestarts /\ outages' \in 0 .. MaxOutages
    BY <1>1, InputAssumption DEF IInv, TypeOK
  <2>5. /\ DOMAIN report' = Run /\ \A r \in Run : IsReport(report'[r])
        /\ activePRs' \subseteq PR /\ humanVotes' \in [Hash -> Verdict \cup {"none"}]
        /\ flying' \subseteq Job /\ head' \in [PR -> 0 .. MaxPushes]
        /\ stored' \in [Run -> SUBSET {"findings", "transcript"}]
    BY <1>1 DEF IInv, TypeOK
  <2>. QED  BY <1>4, <2>1, <2>2, <2>3, <2>4, <2>5, Zenon DEF TypeOK
<1>6. Gathered'
  <2>1. ASSUME NEW r \in Run
        PROVE  GatheredBy(stage'[r], report[r]) /\ StoredBy(stage'[r], report[r], stored[r])
    <3>1. GatheredBy(stage[r], report[r]) /\ StoredBy(stage[r], report[r], stored[r])
      BY DEF IInv, Gathered
    <3>2. GatheredBy("lost", report[r]) /\ StoredBy("lost", report[r], stored[r])
      BY <3>1 DEF GatheredBy, StoredBy
    <3>. QED  BY <1>2, <3>1, <3>2
  <2>. QED  BY <1>1, <2>1 DEF Gathered
<1>7. Justified' /\ Backed'
  <2>1. \A q \in Run : stage[q] \in Committed => stage'[q] \in Committed
    BY <1>2 DEF Committed
  <2>2. HandedOver' \subseteq HandedOver
    BY <1>1, <1>4 DEF HandedOver, Queued
  <2>3. \A job \in flying : /\ job.run \in Run /\ stage[job.run] \in Committed
                           /\ Settled(report[job.run]) /\ "findings" \in stored[job.run]
    BY <1>3 DEF IInv, Justified, Warranted, Evident, HandedOver, Job
  <2>. QED  BY <1>1, <1>4, <2>1, <2>2, <2>3, CommittedStay
<1>8. Resumable'
  BY <1>1 DEF Resumable
<1>9. OneReviewPerPR'
  <2>1. \A r \in Run : ~InProgress(r)'
    BY <1>2 DEF InProgress, Waiting
  <2>. QED  BY <1>1, <2>1 DEF OneReviewPerPR
<1>. QED  BY <1>5, <1>6, <1>7, <1>8, <1>9 DEF IInv

(* Steps of the world around the gateway touch nothing that it relies on.  *)
LEMMA OutsideStep ==
  ASSUME IInv, \/ \E isOnline \in BOOLEAN : Connectivity(isOnline)
               \/ \E hash \in Hash, verdict \in Opinions : HumanVote(hash, verdict)
               \/ \E p \in PR : Push(p)
               \/ UNCHANGED vars
  PROVE  IInv'
<1>1. UNCHANGED <<stage, report, activePRs, queue, flying, state, registry, stored, landed>>
  BY DEF Connectivity, HumanVote, Push, vars, gatewayVars, syncVars, worldVars
<1>2. /\ humanVotes' \in [Hash -> Verdict \cup {"none"}]
      /\ head' \in [PR -> 0 .. MaxPushes]
      /\ restarts' \in 0 .. MaxRestarts /\ outages' \in 0 .. MaxOutages
  <2>1. CASE \E isOnline \in BOOLEAN : Connectivity(isOnline)
    BY <2>1, InputAssumption DEF IInv, TypeOK, Connectivity, gatewayVars, worldVars
  <2>2. CASE \E hash \in Hash, verdict \in Opinions : HumanVote(hash, verdict)
    BY <2>2, InputAssumption DEF IInv, TypeOK, HumanVote, syncVars, worldVars, bounds
  <2>3. CASE \E p \in PR : Push(p)
    BY <2>3, InputAssumption DEF IInv, TypeOK, Push, gatewayVars, syncVars, bounds
  <2>4. CASE UNCHANGED vars
    BY <2>4 DEF IInv, TypeOK, vars, gatewayVars, worldVars, bounds
  <2>. QED  BY <2>1, <2>2, <2>3, <2>4
<1>3. online' \in BOOLEAN /\ draining' \in BOOLEAN /\ (draining' => queue' # <<>>)
  <2>0. online \in BOOLEAN /\ draining \in BOOLEAN /\ (draining => queue # <<>>)
    BY Zenon DEF IInv, TypeOK
  <2>1. CASE \E isOnline \in BOOLEAN : Connectivity(isOnline)
    <3>1. PICK isOnline \in BOOLEAN :
            /\ online' = isOnline
            /\ draining' = (draining \/ (isOnline /\ ~online /\ queue # <<>>))
      BY <2>1, Zenon DEF Connectivity
    <3>. QED  BY <1>1, <2>0, <3>1, Zenon
  <2>2. CASE online' = online /\ draining' = draining
    BY <1>1, <2>0, <2>2, Zenon
  <2>. QED  BY <2>1, <2>2 DEF HumanVote, Push, vars, syncVars
<1>4. TypeOK'
  BY <1>1, <1>2, <1>3, Zenon DEF IInv, TypeOK
<1>5. Gathered' /\ Justified' /\ Resumable' /\ Backed' /\ OneReviewPerPR'
  BY <1>1 DEF IInv, Gathered, Justified, Warranted, Resumable, Backed, OneReviewPerPR,
              HandedOver, Queued, FirstJob, SecondJob, HashOf, VerdictOf, InProgress
<1>. QED  BY <1>4, <1>5 DEF IInv

-----------------------------------------------------------------------------
(* The inductive invariant is one.                                         *)
THEOREM Invariance == Spec => []IInv
<1>1. IInv /\ [Next]_vars => IInv'
  <2>. SUFFICES ASSUME IInv, [Next]_vars PROVE IInv'
    OBVIOUS
  <2>1. CASE \E r \in Run : Request(r) \/ Advance(r)
    BY <2>1, RequestStep, FetchStep, DiscoverStep, FailsStep, FanOutStep, AttackStep,
       ConvergecastStep, UploadsStep, RecordStep DEF Advance
  <2>2. CASE \E job \in flying : Settles(job)
    BY <2>2, SettlesStep
  <2>3. CASE Replay
    BY <2>3, ReplayStep
  <2>4. CASE \/ \E isOnline \in BOOLEAN : Connectivity(isOnline)
             \/ \E hash \in Hash, verdict \in Opinions : HumanVote(hash, verdict)
             \/ \E p \in PR : Push(p)
             \/ UNCHANGED vars
    BY <2>4, OutsideStep
  <2>5. CASE Restart
    BY <2>5, RestartStep
  <2>. QED  BY <2>1, <2>2, <2>3, <2>4, <2>5 DEF Next
<1>. QED  BY <1>1, InitHolds, PTL DEF Spec

-----------------------------------------------------------------------------
(***************************************************************************)
(* What follows from it.                                                   *)
(***************************************************************************)

(* Every state is well-formed: stages, reports, jobs and records.          *)
THEOREM TypeCorrect == Spec => []TypeOK
<1>1. IInv => TypeOK
  BY DEF IInv
<1>. QED  BY <1>1, Invariance, PTL

(* processPR's activePRs admits one review of a pull request at a time,    *)
(* and every way a review can end gives the pull request up.               *)
THEOREM ReviewsAreExclusive == Spec => []OneReviewPerPR
<1>1. IInv => OneReviewPerPR
  BY DEF IInv
<1>. QED  BY <1>1, Invariance, PTL

(* No action leaves the gateway before its evidence is in 0G Storage.      *)
THEOREM EvidenceComesFirst == Spec => []EvidenceFirst
<1>1. IInv => EvidenceFirst
  BY DEF IInv, Justified, Warranted, Evident, EvidenceFirst
<1>. QED  BY <1>1, Invariance, PTL

(* A record on the chain is the verdict of a decided run on its commit.    *)
THEOREM RecordsAreBacked == Spec => []RecordIsBacked
<1>1. IInv => RecordIsBacked
  <2>. SUFFICES ASSUME IInv, NEW h \in Hash, registry[h] # "none"
                PROVE  \E r \in Run :
                         /\ h = <<Target[r], report[r].head>> /\ report[r].consensus # Undecided
                         /\ registry[h] = VerdictOf(r) /\ "findings" \in stored[r]
    BY DEF RecordIsBacked
  <2>1. PICK r \in Run : /\ h = HashOf(r) /\ stage[r] \in Committed /\ Settled(report[r])
                        /\ registry[h] = VerdictOf(r) /\ "findings" \in stored[r]
    BY DEF IInv, Backed
  <2>2. IsReport(report[r])
    BY DEF IInv, TypeOK
  <2>3. report[r].consensus # Undecided
    BY <2>1, <2>2, ConsensusIsResult DEF Settled
  <2>. QED  BY <2>1, <2>3 DEF HashOf
<1>. QED  BY <1>1, Invariance, PTL

(* A report that the guardrail lets through has nothing blocking in it:    *)
(* the consensus counts what the reviewers and the red team report, and no *)
(* debate can take an exploit off, for it is filed under another id.       *)
LEMMA AllowedIsClean ==
  ASSUME NEW rep, IsReport(rep), Plausible(rep), Settled(rep), Allowed(rep)
  PROVE  /\ \A v \in Reviewer : rep.findings[v] \cap Blocking = {}
         /\ \A x \in DOMAIN rep.exploits : rep.exploits[x] \notin Blocking
         /\ \A v \in Voters(rep) : Votes(rep)[v].verdict = "approve"
<1> DEFINE votes == Votes(rep)
<1>1. DOMAIN votes = Voters(rep) /\ Voters(rep) \subseteq Role
  BY VotesAreBallot DEF Ballot
<1>2. KeyFindings(votes) \cap Blocking = {}
  <2>1. rep.consensus.approved /\ rep.consensus.blockingIssues = {}
    BY DEF Allowed
  <2>2. rep.consensus = ComputeConsensus(votes, rep.exploits, rep.debates, rep.human)
    BY DEF Settled
  <2> HIDE DEF votes
  <2>3. ~(DOMAIN votes = {}) /\ ~CriticalUnmitigated(rep.exploits, rep.debates)
    BY <2>1, <2>2 DEF ComputeConsensus, Rejection
  <2>4. rep.consensus.blockingIssues = KeyFindings(votes) \cap Blocking
    BY <2>2, <2>3 DEF ComputeConsensus
  <2>. QED  BY <2>1, <2>4
<1>3. \A v \in Voters(rep) : votes[v].keyFindings \cap Blocking = {}
  BY <1>1, <1>2 DEF KeyFindings
<1>4. \A v \in Voters(rep) \cap Reviewer :
        /\ votes[v].keyFindings = rep.findings[v] \cap Blocking
        /\ votes[v].verdict = IF rep.findings[v] \cap Blocking # {} THEN "reject" ELSE "approve"
  BY DEF Votes, ReviewerVote, Reviewer
<1>5. ASSUME NEW v \in Reviewer PROVE rep.findings[v] \cap Blocking = {}
  <2>1. CASE v \in Voters(rep)
    BY <1>3, <1>4, <2>1
  <2>2. CASE v \notin Voters(rep)
    <3>1. rep.findings[v] = {}
      BY <2>2 DEF Voters, Plausible
    <3>. QED  BY <3>1
  <2>. QED  BY <2>1, <2>2
<1>6. ASSUME NEW x \in DOMAIN rep.exploits PROVE rep.exploits[x] \notin Blocking
  <2>1. "redteam" \in rep.peers /\ "redteam" \in Voters(rep)
    BY DEF Plausible, Voters
  <2>2. votes["redteam"] = RedTeamVote(rep.exploits, rep.debates)
    BY <2>1 DEF Votes
  <2>3. ~DefendedIn(x, rep.debates)
    BY FreshIdAssumption DEF IsReport, DefendedIn
  <2>4. rep.exploits[x] \in votes["redteam"].keyFindings
    BY <2>2, <2>3 DEF RedTeamVote
  <2>. QED  BY <1>3, <2>1, <2>4
<1>7. ASSUME NEW v \in Voters(rep) PROVE votes[v].verdict = "approve"
  <2>1. CASE v = "redteam"
    <3>1. votes[v] = RedTeamVote(rep.exploits, rep.debates)
      BY <2>1 DEF Votes
    <3>. QED  BY <1>6, <3>1 DEF RedTeamVote
  <2>2. CASE v # "redteam"
    BY <1>1, <1>4, <1>5, <2>2 DEF Role
  <2>. QED  BY <2>1, <2>2
<1>. QED  BY <1>5, <1>6, <1>7

(* A merge is never handed over while a reviewer, an exploit that was not  *)
(* defended, or a vote stands against it.                                  *)
THEOREM MergesAreClean == Spec => []MergeIsClean
<1>1. IInv => MergeIsClean
  <2>. SUFFICES ASSUME IInv, NEW r \in Run, JobOf(r, "merge") \in HandedOver
                PROVE  /\ \A v \in Reviewer : report[r].findings[v] \cap Blocking = {}
                       /\ \A x \in DOMAIN report[r].exploits :
                            report[r].exploits[x] \in Blocking => Defended(report[r], x)
                       /\ \A v \in Voters(report[r]) : Votes(report[r])[v].verdict = "approve"
    BY DEF MergeIsClean
  <2>1. Warranted(JobOf(r, "merge"))
    BY DEF IInv, Justified
  <2>2. Settled(report[r]) /\ Allowed(report[r])
    BY <2>1 DEF Warranted, JobOf
  <2>3. IsReport(report[r]) /\ Plausible(report[r])
    BY DEF IInv, TypeOK, Gathered, GatheredBy
  <2>. QED  BY <2>2, <2>3, AllowedIsClean
<1>. QED  BY <1>1, Invariance, PTL

(***************************************************************************)
(* Weights at the default threshold.                                       *)
(***************************************************************************)

(* What one vote can weigh: online agents have no reputation, and only the *)
(* synthetic security agent comes with some.                               *)
LEMMA ShareValues ==
  ASSUME NEW rep, IsReport(rep), NEW role \in Role, NEW verdicts \in SUBSET Verdict
  PROVE  /\ Share(Votes(rep), role, verdicts) \in {0, RoleWeight[role] * 500, RoleWeight[role] * 580}
         /\ role \in rep.peers => Share(Votes(rep), role, verdicts) =
              IF Votes(rep)[role].verdict \in verdicts THEN RoleWeight[role] * 500 ELSE 0
         /\ role # "security" => Share(Votes(rep), role, verdicts) # RoleWeight[role] * 580
<1>0. RoleWeight[role] \in {1, 2, 3, 4}
  BY DEF RoleWeight, Role, Reviewer
<1>1. DOMAIN Votes(rep) = Voters(rep)
  BY DEF Votes
<1>2. CASE role \in Voters(rep)
  <2>1. Votes(rep)[role].reputation = IF role \in rep.peers \/ role = "redteam" THEN 0 ELSE 80
    BY <1>2 DEF Votes, ReviewerVote, RedTeamVote, HeuristicReputation
  <2>2. role \notin rep.peers => role = "security"
    BY <1>2 DEF Voters
  <2>3. Weight(role, Votes(rep)[role]) = RoleWeight[role] * IF role \in rep.peers THEN 500 ELSE 580
    BY <2>1, <2>2 DEF Weight, Multiplier
  <2>4. Share(Votes(rep), role, verdicts) =
          IF Votes(rep)[role].verdict \in verdicts
          THEN RoleWeight[role] * (IF role \in rep.peers THEN 500 ELSE 580) ELSE 0
    BY <1>1, <1>2, <2>3 DEF Share
  <2>. QED  BY <1>0, <2>2, <2>4
<1>3. CASE role \notin Voters(rep)
  <2>1. Share(Votes(rep), role, verdicts) = 0 /\ role \notin rep.peers
    BY <1>1, <1>3 DEF Share, Voters
  <2>. QED  BY <1>0, <2>1
<1>. QED  BY <1>2, <1>3

(* A proportion of at most 0.68 is rounded to at most 6800 basis points.   *)
LEMMA SmallProportion ==
  ASSUME NEW a \in Nat, NEW t \in Nat, t > 0, 100 * a <= 68 * t
  PROVE  Rounded(a, t) < 7500
<1> DEFINE n == 20000 * a + t
           d == 2 * t
           q == n \div d
<1>1. n \in Nat /\ d \in Nat /\ d > 0 /\ n < 7000 * d
  OBVIOUS
<1>2. q \in Int /\ d * q <= n
  <2> HIDE DEF n, d
  <2>. QED  BY <1>1 DEF q
<1>3. q < 7500
  <2> HIDE DEF n, d, q
  <2>1. SUFFICES ASSUME q >= 7500 PROVE FALSE
    BY <1>2
  <2>2. d * (q - 7500) = d * q - 7500 * d
    BY <1>1, <1>2
  <2>3. q - 7500 >= 0 => d * (q - 7500) >= 0
    BY <1>1, <1>2
  <2>. QED  BY <1>1, <1>2, <2>1, <2>2, <2>3
<1>. QED  BY <1>3 DEF Rounded

(* With the red team against it, at most 4240 of 6240 approve.             *)
THEOREM RedTeamHasVeto ==
  ASSUME Threshold = 7500
  PROVE  Spec => []RedTeamVeto
<1>1. ASSUME NEW rep, IsReport(rep), Settled(rep), "redteam" \in rep.peers,
             RedTeamVote(rep.exploits, rep.debates).verdict = "reject"
      PROVE  ~rep.consensus.approved
  <2> DEFINE votes == Votes(rep)
             a == Tally(votes, rep.human, {"approve"})
             t == Tally(votes, rep.human, Verdict)
  <2>1. votes["redteam"].verdict = "reject" /\ DOMAIN votes # {}
    BY <1>1 DEF Votes, Voters
  <2> DEFINE yes(role) == Share(votes, role, {"approve"})
             all(role) == Share(votes, role, Verdict)
             h(verdicts) == IF rep.human \in verdicts THEN HumanWeight ELSE 0
  <2>2. yes("redteam") = 0 /\ all("redteam") = 2000
    BY <1>1, <2>1, ShareValues DEF Role, Reviewer, Verdict, RoleWeight
  <2>3. yes("security") <= 1740 /\ yes("performance") <= 1000 /\ yes("style") <= 500
    BY <1>1, ShareValues DEF Role, Reviewer, Verdict, RoleWeight
  <2>4. \A role \in {"security", "performance", "style"} :
          yes(role) \in Nat /\ all(role) \in Nat /\ yes(role) <= all(role)
    BY <1>1, VotesAreBallot, ShareBounds DEF Role, Reviewer
  <2>5. h({"approve"}) \in Nat /\ h(Verdict) \in Nat /\ h({"approve"}) <= 1000
        /\ h({"approve"}) <= h(Verdict)
    BY DEF HumanWeight, Verdict
  <2>6. /\ a = yes("security") + yes("performance") + yes("style") + yes("redteam") + h({"approve"})
        /\ t = all("security") + all("performance") + all("style") + all("redteam") + h(Verdict)
    BY DEF Tally
  <2> HIDE DEF yes, all, h, a, t
  <2>7. a \in Nat /\ t \in Nat /\ a <= 4240 /\ t >= a + 2000
    BY <2>2, <2>3, <2>4, <2>5, <2>6
  <2>8. PICK n \in Int : n = Score(votes, rep.human) /\ n < 7500
    <3>1. t > 0 /\ 100 * a <= 68 * t
      BY <2>7
    <3>2. Rounded(a, t) < 7500
      BY <2>7, <3>1, SmallProportion
    <3>3. Rounded(a, t) \in Points
      BY <2>7, <3>1, RoundedProportion
    <3>4. Score(votes, rep.human) = Rounded(a, t)
      BY DEF Score, a, t
    <3>5. \A n \in Points : n \in Int
      BY DEF Points
    <3>. QED  BY <3>2, <3>3, <3>4, <3>5
  <2> HIDE DEF votes
  <2>9. rep.consensus = ComputeConsensus(votes, rep.exploits, rep.debates, rep.human)
    BY <1>1 DEF Settled, votes
  <2>10. CASE DOMAIN votes = {} \/ CriticalUnmitigated(rep.exploits, rep.debates)
    BY <2>9, <2>10 DEF ComputeConsensus, Rejection
  <2>11. CASE ~(DOMAIN votes = {}) /\ ~CriticalUnmitigated(rep.exploits, rep.debates)
    <3> DEFINE passes == Score(votes, rep.human) >= Threshold
    <3>1. rep.consensus.approved = passes
      BY <2>9, <2>11 DEF ComputeConsensus
    <3>2. ~passes
      BY <2>8
    <3> HIDE DEF passes
    <3>. QED  BY <3>1, <3>2, Zenon
  <2>. QED  BY <2>10, <2>11
<1>2. IInv => RedTeamVeto
  <2>1. ASSUME IInv, NEW r \in Run, report[r].consensus # Undecided
        PROVE  IsReport(report[r]) /\ Settled(report[r])
    BY <2>1 DEF IInv, TypeOK, Gathered, GatheredBy
  <2>. QED  BY <1>1, <2>1 DEF RedTeamVeto
<1>. QED  BY <1>2, Invariance, PTL

(* The swarm's 5000 of at most 6000 pass the threshold without the human.  *)
THEOREM HumanOnlyAdvises ==
  ASSUME Threshold = 7500
  PROVE  Spec => []HumanAdvises
<1>1. ASSUME NEW rep, IsReport(rep), Settled(rep), rep.peers = Role,
             \A v \in Voters(rep) : Votes(rep)[v].verdict = "approve",
             \A x \in DOMAIN rep.exploits : rep.exploits[x] \notin Blocking
      PROVE  Allowed(rep)
  <2> DEFINE votes == Votes(rep)
  <2>1. DOMAIN votes = Role /\ Voters(rep) = Role
    BY <1>1 DEF Votes, Voters, Role, Reviewer
  <2>2. ~CriticalUnmitigated(rep.exploits, rep.debates)
    BY <1>1 DEF CriticalUnmitigated, Blocking
  <2>3. KeyFindings(votes) \cap Blocking = {}
    <3>1. ASSUME NEW v \in Reviewer PROVE votes[v].keyFindings \cap Blocking = {}
      BY <1>1, <2>1 DEF Votes, ReviewerVote, Reviewer, Role
    <3>2. votes["redteam"].keyFindings \cap Blocking = {}
      BY <1>1, <2>1 DEF Votes, RedTeamVote, Role
    <3>. QED  BY <2>1, <3>1, <3>2 DEF KeyFindings, Role
  <2>4. /\ Share(votes, "security", {"approve"}) = 1500
        /\ Share(votes, "performance", {"approve"}) = 1000
        /\ Share(votes, "style", {"approve"}) = 500
        /\ Share(votes, "redteam", {"approve"}) = 2000
        /\ Share(votes, "security", Verdict) = 1500
        /\ Share(votes, "performance", Verdict) = 1000
        /\ Share(votes, "style", Verdict) = 500
        /\ Share(votes, "redteam", Verdict) = 2000
    BY <1>1, <2>1, ShareValues DEF Role, Reviewer, Verdict, RoleWeight
  <2>5. PICK a \in {5000, 6000}, t \in {5000, 6000} :
          /\ a = Tally(votes, rep.human, {"approve"}) /\ t = Tally(votes, rep.human, Verdict)
          /\ a <= t
    BY <2>4 DEF Tally, HumanWeight, Verdict
  <2> HIDE DEF votes
  <2>6. PICK n \in Int : n = Score(votes, rep.human) /\ n >= 7500
    <3>1. Score(votes, rep.human) = Rounded(a, t)
      BY <2>5 DEF Score
    <3>. QED  BY <2>5, <3>1 DEF Rounded
  <2> DEFINE passes == Score(votes, rep.human) >= Threshold
  <2>7. passes
    BY <2>6
  <2>8. rep.consensus = ComputeConsensus(votes, rep.exploits, rep.debates, rep.human)
    BY <1>1 DEF Settled, votes
  <2>9. ~(DOMAIN votes = {})
    BY <2>1 DEF Role
  <2>10. rep.consensus.approved = passes /\ rep.consensus.blockingIssues = {}
    BY <2>2, <2>3, <2>8, <2>9 DEF ComputeConsensus
  <2> HIDE DEF passes
  <2>11. rep.consensus.approved
    <3>1. rep.consensus.approved = passes
      BY <2>10
    <3>2. passes = TRUE
      <4>1. passes \in BOOLEAN
        BY DEF passes
      <4>. QED  BY <2>7, <4>1
    <3>. QED  BY <3>1, <3>2
  <2>. QED  BY <1>1, <2>10, <2>11 DEF Allowed, Blocking
<1>2. IInv => HumanAdvises
  <2>1. ASSUME IInv, NEW r \in Run, report[r].consensus # Undecided
        PROVE  IsReport(report[r]) /\ Settled(report[r])
    BY <2>1 DEF IInv, TypeOK, Gathered, GatheredBy
  <2>. QED  BY <1>1, <2>1 DEF HumanAdvises
<1>. QED  BY <1>2, Invariance, PTL

-----------------------------------------------------------------------------
(***************************************************************************)
(* The order in which a run's actions wait in the queue, whatever fails,   *)
(* is replayed, given up or restarted.                                     *)
(***************************************************************************)

(***************************************************************************)
(* The order of the queue is not inductive: an execution that fails is     *)
(* queued late, and a first action queued behind its second one would be   *)
(* out of order.  It never is, because the second action is handed over    *)
(* only when the first one is over: while the caller waits for the first,  *)
(* the second is not in the queue.                                         *)
(***************************************************************************)
SecondComesLater == \A r \in Run : stage[r] = "first" => SecondJob(r) \notin Queued

OrderInv == IInv /\ SecondComesLater /\ QueuedInOrder

-----------------------------------------------------------------------------
(***************************************************************************)
(* Lemmas on queues.                                                       *)
(***************************************************************************)

(* QueuedInOrder, of any queue.                                            *)
InOrder(q) ==
  \A i, j \in DOMAIN q :
    q[i] = SecondJob(q[i].run) /\ q[j] = FirstJob(q[i].run) => j < i

(* An action may be queued last unless it is the first of a run whose      *)
(* second is there already.                                                *)
LEMMA LastInOrder ==
  ASSUME NEW q \in Seq(Job), InOrder(q), NEW job \in Job,
         job = FirstJob(job.run) => SecondJob(job.run) \notin ToSet(q)
  PROVE  /\ Append(q, job) \in Seq(Job) /\ InOrder(Append(q, job))
         /\ ToSet(Append(q, job)) = ToSet(q) \cup {job}
<1> DEFINE longer == Append(q, job)
<1>1. /\ longer \in Seq(Job) /\ DOMAIN longer = DOMAIN q \cup {Len(q) + 1}
      /\ DOMAIN q = 1 .. Len(q) /\ Len(q) \in Nat
      /\ longer[Len(q) + 1] = job /\ \A i \in DOMAIN q : longer[i] = q[i] /\ q[i] \in Job
  OBVIOUS
<1> HIDE DEF longer
<1>2. ASSUME NEW i \in DOMAIN longer, NEW j \in DOMAIN longer,
             longer[i] = SecondJob(longer[i].run), longer[j] = FirstJob(longer[i].run)
      PROVE  j < i
  <2>1. longer[i] \in Job /\ longer[i].run \in Run
    BY <1>1 DEF Job
  <2>2. FirstJob(longer[i].run) # SecondJob(longer[i].run) /\ longer[j].run = longer[i].run
    BY <1>2, <2>1, OwnActionsAreJobs
  <2>3. CASE i \in DOMAIN q /\ j \in DOMAIN q
    BY <1>1, <1>2, <2>3 DEF InOrder
  <2>4. CASE i \in DOMAIN q /\ j = Len(q) + 1
    <3>1. longer[j] = job /\ longer[i] = q[i] /\ q[i] \in ToSet(q)
      BY <1>1, <2>4 DEF ToSet
    <3>. QED  BY <1>2, <2>2, <3>1
  <2>5. CASE i = Len(q) + 1 /\ j \in DOMAIN q
    BY <1>1, <2>5
  <2>6. CASE i = Len(q) + 1 /\ j = Len(q) + 1
    BY <1>2, <2>2, <2>6
  <2>. QED  BY <1>1, <2>3, <2>4, <2>5, <2>6
<1>3. InOrder(longer)
  BY <1>2 DEF InOrder
<1>4. ToSet(longer) = ToSet(q) \cup {job}
  BY <1>1 DEF ToSet
<1>. QED  BY <1>1, <1>3, <1>4 DEF longer

(* Taking the first entry off leaves the others in order.                  *)
LEMMA RestInOrder ==
  ASSUME NEW q \in Seq(Job), q # <<>>, InOrder(q)
  PROVE  InOrder(Tail(q)) /\ ToSet(Tail(q)) \subseteq ToSet(q)
<1>1. \A i \in DOMAIN Tail(q) : /\ i \in Int /\ i + 1 \in DOMAIN q
                                /\ Tail(q)[i] = q[i + 1]
  OBVIOUS
<1>2. ToSet(Tail(q)) \subseteq ToSet(q)
  BY <1>1 DEF ToSet
<1>3. ASSUME NEW i \in DOMAIN Tail(q), NEW j \in DOMAIN Tail(q),
             Tail(q)[i] = SecondJob(Tail(q)[i].run), Tail(q)[j] = FirstJob(Tail(q)[i].run)
      PROVE  j < i
  <2>1. q[i + 1] = SecondJob(q[i + 1].run) /\ q[j + 1] = FirstJob(q[i + 1].run)
    BY <1>1, <1>3
  <2>2. j + 1 < i + 1
    BY <1>1, <2>1 DEF InOrder
  <2>. QED  BY <1>1, <2>2
<1>. QED  BY <1>2, <1>3 DEF InOrder

(* The queue is judged by reports that its runs do not change any more.    *)
LEMMA OrderStands ==
  ASSUME queue' \in Seq(Job), InOrder(queue'),
         \A job \in ToSet(queue') : report'[job.run] = report[job.run]
  PROVE  QueuedInOrder'
<1>1. \A i \in DOMAIN queue' : report'[queue'[i].run] = report[queue'[i].run]
  BY DEF ToSet
<1>. QED  BY <1>1 DEF QueuedInOrder, InOrder, FirstJob, SecondJob, JobOf

(* What is queued belongs to committed runs.                               *)
LEMMA QueuedIsCommitted ==
  ASSUME IInv
  PROVE  /\ queue \in Seq(Job) /\ Queued = ToSet(queue) /\ Queued \subseteq Job
         /\ \A job \in Queued : job.run \in Run /\ stage[job.run] \in Committed
<1>1. queue \in Seq(Job) /\ Queued = ToSet(queue) /\ Queued \subseteq HandedOver
  BY DEF IInv, TypeOK, Queued, ToSet, HandedOver
<1>2. Queued \subseteq Job
  BY <1>1, HandedOverAreJobs
<1>. QED  BY <1>1, <1>2 DEF IInv, Justified, Warranted, Job

-----------------------------------------------------------------------------
(***************************************************************************)
(* The steps.                                                              *)
(***************************************************************************)

(* Runs that still gather, and the world around, leave the queue alone.    *)
LEMMA GatheringKeepsOrder ==
  ASSUME OrderInv, IInv', UNCHANGED queue,
         \A r \in Run : stage'[r] = "first" => stage[r] = "first",
         \A r \in Run : stage[r] \in Committed => report'[r] = report[r]
  PROVE  OrderInv'
<1>1. /\ queue \in Seq(Job) /\ Queued = ToSet(queue) /\ Queued' = Queued
      /\ \A job \in Queued : job.run \in Run /\ stage[job.run] \in Committed
  BY QueuedIsCommitted DEF OrderInv, Queued
<1>2. InOrder(queue)
  BY DEF OrderInv, QueuedInOrder, InOrder
<1>3. QueuedInOrder'
  BY <1>1, <1>2, OrderStands
<1>4. SecondComesLater'
  <2>1. ASSUME NEW r \in Run, stage'[r] = "first" PROVE SecondJob(r)' \notin Queued
    <3>1. stage[r] = "first" /\ report'[r] = report[r]
      BY <2>1 DEF Committed
    <3>. QED  BY <3>1 DEF OrderInv, SecondComesLater, SecondJob
  <2>. QED  BY <1>1, <2>1 DEF SecondComesLater
<1>. QED  BY <1>3, <1>4 DEF OrderInv

(* Whatever the red team finds, the run goes on with what it has gathered. *)
LEMMA AttackConvenes ==
  ASSUME NEW r \in Run, Attack(r)
  PROVE  /\ stage[r] = "attack" /\ \E gathered : Convene(r, gathered)
         /\ UNCHANGED <<activePRs, humanVotes, syncVars, worldVars, bounds>>
<1>1. \E gathered : Convene(r, gathered)
  BY Zenon DEF Attack
<1>. QED  BY <1>1 DEF Attack

(* Before its record, a run only gathers.                                  *)
LEMMA GatheringSteps ==
  ASSUME OrderInv, IInv', NEW r \in Run,
         \/ Request(r) \/ Fetch(r) \/ Discover(r) \/ Fails(r) \/ FanOut(r) \/ Attack(r)
         \/ Convergecast(r) \/ UploadFindings(r) \/ UploadTranscript(r)
  PROVE  OrderInv'
<1>1. stage \in [Run -> Waiting \cup Ended \cup {"idle"}] /\ DOMAIN report = Run
  BY DEF OrderInv, IInv, TypeOK
<1>2. UNCHANGED queue
  BY DEF Request, Fetch, Discover, Fails, FanOut, Attack, Convergecast, UploadFindings,
         UploadTranscript, syncVars
<1>3. stage[r] \notin Committed
  BY DEF Request, Fetch, Discover, Fails, FanOut, Attack, Convergecast, UploadFindings,
         UploadTranscript, Committed
<1>4. PICK next \in (Waiting \cup Ended) \ {"first"} : Go(r, next)
  <2>1. CASE Attack(r)
    BY <2>1, AttackConvenes DEF Convene, Waiting
  <2>. QED
    BY <2>1 DEF Request, Fetch, Discover, Fails, FanOut, Convergecast, UploadFindings,
           UploadTranscript, Convene, Ends, Waiting, Ended
<1>5. \A q \in Run : q # r => report'[q] = report[q]
  <2>1. CASE Attack(r)
    BY <1>1, <2>1, AttackConvenes DEF Convene
  <2>. QED
    BY <1>1, <2>1 DEF Request, Fetch, Discover, Fails, FanOut, Convergecast, UploadFindings,
           UploadTranscript, Convene
<1>6. \A q \in Run : stage'[q] = "first" => stage[q] = "first"
  BY <1>1, <1>4 DEF Go
<1>7. \A q \in Run : stage[q] \in Committed => report'[q] = report[q]
  BY <1>3, <1>5
<1>. QED  BY <1>2, <1>6, <1>7, GatheringKeepsOrder

(* A run that records has nothing in the queue; offline it leaves its      *)
(* three actions there, the second one last.                               *)
LEMMA RecordKeepsOrder ==
  ASSUME OrderInv, IInv', NEW r \in Run, Record(r)
  PROVE  OrderInv'
<1> DEFINE keeperhub == JobOf(r, "keeperhub")
<1>1. /\ queue \in Seq(Job) /\ Queued = ToSet(queue)
      /\ \A job \in Queued : job.run \in Run /\ stage[job.run] \in Committed
  BY QueuedIsCommitted DEF OrderInv
<1>2. /\ DOMAIN stage = Run /\ stage[r] = "record" /\ UNCHANGED report
  BY DEF OrderInv, IInv, TypeOK, Record
<1>3. \A job \in Queued : job.run # r
  BY <1>1, <1>2 DEF Committed
<1>4. /\ keeperhub \in Job /\ FirstJob(r) \in Job /\ SecondJob(r) \in Job
      /\ keeperhub.run = r /\ FirstJob(r).run = r /\ SecondJob(r).run = r
      /\ FirstJob(r) # SecondJob(r) /\ keeperhub \notin {FirstJob(r), SecondJob(r)}
  BY OwnActionsAreJobs
<1> HIDE DEF keeperhub
<1>5. InOrder(queue)
  BY DEF OrderInv, QueuedInOrder, InOrder
<1>6. \A q \in Run : SecondJob(q)' = SecondJob(q)
  BY <1>2 DEF SecondJob
<1>7. CASE online
  <2>1. UNCHANGED queue /\ Go(r, "first")
    BY <1>7 DEF Record
  <2>2. QueuedInOrder'
    BY <1>1, <1>2, <1>5, <2>1, OrderStands
  <2>3. SecondComesLater'
    <3>1. ASSUME NEW q \in Run, stage'[q] = "first" PROVE SecondJob(q) \notin Queued
      <4>1. CASE q = r
        BY <1>3, <1>4, <4>1
      <4>2. CASE q # r
        BY <1>2, <2>1, <3>1, <4>2 DEF Go, OrderInv, SecondComesLater
      <4>. QED  BY <4>1, <4>2
    <3>. QED  BY <1>6, <2>1, <3>1 DEF SecondComesLater, Queued
  <2>. QED  BY <2>2, <2>3 DEF OrderInv
<1>8. CASE ~online
  <2> DEFINE one == Append(queue, keeperhub)
             two == Append(one, FirstJob(r))
             three == Append(two, SecondJob(r))
  <2>1. queue' = queue \o <<JobOf(r, "keeperhub"), FirstJob(r), SecondJob(r)>> /\ Go(r, "done")
    BY <1>8 DEF Record, Ends
  <2>2. queue' = three
    BY <1>1, <1>4, <2>1 DEF keeperhub
  <2>3. one \in Seq(Job) /\ InOrder(one) /\ ToSet(one) = ToSet(queue) \cup {keeperhub}
    BY <1>1, <1>4, <1>5, LastInOrder
  <2> HIDE DEF one
  <2>4. /\ two \in Seq(Job) /\ InOrder(two)
        /\ ToSet(two) = ToSet(queue) \cup {keeperhub, FirstJob(r)}
    <3>1. SecondJob(r) \notin ToSet(one)
      BY <1>1, <1>3, <1>4, <2>3
    <3>. QED  BY <1>4, <2>3, <3>1, LastInOrder
  <2> HIDE DEF two
  <2>5. /\ three \in Seq(Job) /\ InOrder(three)
        /\ ToSet(three) = ToSet(queue) \cup {keeperhub, FirstJob(r), SecondJob(r)}
    BY <1>4, <2>4, LastInOrder
  <2> HIDE DEF three
  <2>6. QueuedInOrder'
    BY <1>2, <2>2, <2>5, OrderStands
  <2>7. SecondComesLater'
    <3>1. Queued' = ToSet(three)
      BY <2>2 DEF Queued, ToSet
    <3>2. ASSUME NEW q \in Run, stage'[q] = "first" PROVE SecondJob(q) \notin ToSet(three)
      <4>1. q # r /\ stage[q] = "first"
        BY <1>2, <2>1, <3>2 DEF Go
      <4>2. SecondJob(q).run = q /\ SecondJob(q) \notin Queued
        BY <4>1, OwnActionsAreJobs DEF OrderInv, SecondComesLater
      <4>. QED  BY <1>1, <1>4, <2>5, <4>1, <4>2
    <3>. QED  BY <1>6, <3>1, <3>2 DEF SecondComesLater
  <2>. QED  BY <2>6, <2>7 DEF OrderInv
<1>. QED  BY <1>7, <1>8

(* An execution that is over: a failed one is queued, and offline the      *)
(* second action follows the first.                                        *)
LEMMA SettlingKeepsOrder ==
  ASSUME OrderInv, IInv', NEW job \in flying, Settles(job)
  PROVE  OrderInv'
<1> DEFINE r == job.run
<1>1. /\ queue \in Seq(Job) /\ Queued = ToSet(queue)
      /\ \A other \in Queued : other.run \in Run /\ stage[other.run] \in Committed
  BY QueuedIsCommitted DEF OrderInv
<1>2. DOMAIN stage = Run /\ job \in Job /\ r \in Run
  BY DEF OrderInv, IInv, TypeOK, Job
<1>3. PICK requeued \in {<<>>, <<job>>} : GoesOn(job, requeued)
  BY DEF Settles, Resolves, Throws
<1>4. UNCHANGED report
  BY DEF Settles, Resolves, Throws
<1>5. \A q \in Run : FirstJob(q).run = q /\ SecondJob(q).run = q /\ SecondJob(q) \in Job
  BY OwnActionsAreJobs
<1>6. FirstJob(r) # SecondJob(r)
  BY <1>2, OwnActionsAreJobs
<1>7. InOrder(queue)
  BY DEF OrderInv, QueuedInOrder, InOrder
<1>8. /\ job = FirstJob(r) => stage[r] = "first" /\ SecondJob(r) \notin Queued
      /\ job = SecondJob(r) => stage[r] = "second"
  BY <1>2 DEF OrderInv, IInv, Resumable, SecondComesLater
<1>9. \A q \in Run : SecondJob(q)' = SecondJob(q)
  BY <1>4 DEF SecondJob
<1> DEFINE before == queue \o requeued
<1>10. before \in Seq(Job) /\ InOrder(before) /\ ToSet(before) \subseteq ToSet(queue) \cup {job}
  <2>1. CASE requeued = <<>>
    <3>1. before = queue
      BY <1>1, <2>1
    <3>. QED  BY <1>1, <1>7, <3>1
  <2>2. CASE requeued = <<job>>
    <3>1. before = Append(queue, job)
      BY <1>1, <1>2, <2>2
    <3>2. job = FirstJob(job.run) => SecondJob(job.run) \notin ToSet(queue)
      BY <1>1, <1>8
    <3>3. Append(queue, job) \in Seq(Job) /\ InOrder(Append(queue, job))
          /\ ToSet(Append(queue, job)) = ToSet(queue) \cup {job}
      BY <1>1, <1>2, <1>7, <3>2, LastInOrder
    <3>. QED  BY <3>1, <3>3
  <2>. QED  BY <2>1, <2>2
<1>11. CASE job = FirstJob(r) /\ ~online
  <2> DEFINE after == Append(before, SecondJob(r))
  <2>1. queue' = before \o <<SecondJob(r)>> /\ Go(r, "done")
    BY <1>3, <1>11 DEF GoesOn, Ends
  <2>2. /\ after \in Seq(Job) /\ InOrder(after)
        /\ ToSet(after) = ToSet(before) \cup {SecondJob(r)}
    <3> HIDE DEF before
    <3>. QED  BY <1>2, <1>5, <1>6, <1>10, LastInOrder
  <2>3. queue' = after
    <3> HIDE DEF before
    <3>. QED  BY <1>2, <1>5, <1>10, <2>1
  <2> HIDE DEF before, after
  <2>4. QueuedInOrder'
    BY <1>4, <2>2, <2>3, OrderStands
  <2>5. ASSUME NEW q \in Run, stage'[q] = "first" PROVE SecondJob(q) \notin ToSet(after)
    <3>1. q # r /\ stage[q] = "first" /\ SecondJob(q) \notin ToSet(queue)
      BY <1>1, <1>2, <2>1, <2>5 DEF Go, OrderInv, SecondComesLater
    <3>. QED  BY <1>2, <1>5, <1>10, <2>2, <3>1
  <2>6. SecondComesLater'
    BY <1>9, <2>3, <2>5 DEF SecondComesLater, Queued, ToSet
  <2>. QED  BY <2>4, <2>6 DEF OrderInv
<1>12. CASE ~(job = FirstJob(r) /\ ~online)
  <2>1. queue' = before
    BY <1>3, <1>12 DEF GoesOn
  <2>2. \A q \in Run : stage'[q] = "first" => stage[q] = "first" /\ (q = r => job # FirstJob(r))
    <3>1. CASE job = FirstJob(r)
      BY <1>2, <1>3, <1>12, <3>1 DEF GoesOn, Go
    <3>2. CASE job # FirstJob(r)
      BY <1>2, <1>3, <3>2 DEF GoesOn, Ends, Go
    <3>. QED  BY <3>1, <3>2
  <2>3. QueuedInOrder'
    BY <1>4, <1>10, <2>1, OrderStands
  <2> HIDE DEF before
  <2>4. ASSUME NEW q \in Run, stage'[q] = "first" PROVE SecondJob(q) \notin ToSet(before)
    <3>1. stage[q] = "first" /\ SecondJob(q) \notin ToSet(queue)
      BY <1>1, <2>2, <2>4 DEF OrderInv, SecondComesLater
    <3>2. job # SecondJob(q)
      BY <1>2, <1>5, <1>8, <3>1
    <3>. QED  BY <1>10, <3>1, <3>2
  <2>5. SecondComesLater'
    BY <1>9, <2>1, <2>4 DEF SecondComesLater, Queued, ToSet
  <2>. QED  BY <2>3, <2>5 DEF OrderInv
<1>. QED  BY <1>11, <1>12

(* A replay removes the head of the queue or leaves it for another try.    *)
LEMMA ReplayKeepsOrder ==
  ASSUME OrderInv, IInv', Replay
  PROVE  OrderInv'
<1>1. queue \in Seq(Job) /\ queue # <<>> /\ Queued = ToSet(queue) /\ InOrder(queue)
  BY QueuedIsCommitted DEF OrderInv, IInv, TypeOK, Replay, QueuedInOrder, InOrder
<1>2. queue' \in {queue, Tail(queue)} /\ UNCHANGED <<stage, report>>
  BY DEF Replay, gatewayVars
<1>3. queue' \in Seq(Job) /\ InOrder(queue') /\ ToSet(queue') \subseteq ToSet(queue)
  <2>1. Tail(queue) \in Seq(Job)
    BY <1>1
  <2>2. InOrder(Tail(queue)) /\ ToSet(Tail(queue)) \subseteq ToSet(queue)
    BY <1>1, RestInOrder
  <2>. QED  BY <1>1, <1>2, <2>1, <2>2
<1>4. QueuedInOrder'
  BY <1>2, <1>3, OrderStands
<1>5. Queued' \subseteq Queued
  BY <1>1, <1>3 DEF Queued, ToSet
<1>6. SecondComesLater'
  BY <1>2, <1>5 DEF OrderInv, SecondComesLater, SecondJob
<1>. QED  BY <1>4, <1>6 DEF OrderInv

(* Restarts, and the world around the gateway.                             *)
LEMMA OthersKeepOrder ==
  ASSUME OrderInv, IInv',
         \/ Restart
         \/ \E isOnline \in BOOLEAN : Connectivity(isOnline)
         \/ \E hash \in Hash, verdict \in Opinions : HumanVote(hash, verdict)
         \/ \E p \in PR : Push(p)
         \/ UNCHANGED vars
  PROVE  OrderInv'
<1>1. UNCHANGED <<report, queue>>
  BY DEF Restart, Connectivity, HumanVote, Push, vars, gatewayVars, syncVars
<1>2. \A r \in Run : stage'[r] = "first" => stage[r] = "first"
  <2>1. CASE Restart
    BY <2>1 DEF Restart
  <2>2. CASE UNCHANGED stage
    BY <2>2
  <2>. QED  BY <2>1, <2>2 DEF Connectivity, HumanVote, Push, vars, gatewayVars
<1>. QED  BY <1>1, <1>2, GatheringKeepsOrder

-----------------------------------------------------------------------------
(* Nothing is queued before anything else at the start.                    *)
LEMMA OrderAtStart ==
  ASSUME Init PROVE OrderInv
<1>1. IInv
  BY InitHolds
<1>2. queue = <<>> /\ \A r \in Run : stage[r] = "idle"
  BY DEF Init
<1>. QED  BY <1>1, <1>2 DEF OrderInv, SecondComesLater, QueuedInOrder

(* However its calls fail, are replayed or given up, and across restarts,  *)
(* a run's explanation or approval is never queued behind its closure or   *)
(* merge.                                                                  *)
THEOREM QueueKeepsOrder == Spec => []QueuedInOrder
<1>1. OrderInv /\ IInv' /\ [Next]_vars => OrderInv'
  <2>. SUFFICES ASSUME OrderInv, IInv', [Next]_vars PROVE OrderInv'
    OBVIOUS
  <2>1. CASE \E r \in Run : Request(r) \/ Advance(r)
    BY <2>1, GatheringSteps, RecordKeepsOrder DEF Advance
  <2>2. CASE \E job \in flying : Settles(job)
    BY <2>2, SettlingKeepsOrder
  <2>3. CASE Replay
    BY <2>3, ReplayKeepsOrder
  <2>4. CASE \/ Restart
             \/ \E isOnline \in BOOLEAN : Connectivity(isOnline)
             \/ \E hash \in Hash, verdict \in Opinions : HumanVote(hash, verdict)
             \/ \E p \in PR : Push(p)
             \/ UNCHANGED vars
    BY <2>4, OthersKeepOrder
  <2>. QED  BY <2>1, <2>2, <2>3, <2>4 DEF Next
<1>2. OrderInv => QueuedInOrder
  BY DEF OrderInv
<1>. QED  BY <1>1, <1>2, OrderAtStart, Invariance, PTL DEF Spec

=============================================================================
