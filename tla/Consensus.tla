------------------------------ MODULE Consensus ------------------------------
(***************************************************************************)
(* The decision on a pull request: how the reports of the agents become    *)
(* votes (src/review/pipeline.ts), how ConsensusEngine weighs them         *)
(* (consensus.ts) and what the guardrail lets through (guardrails.ts).     *)
(* Operators only.                                                         *)
(*                                                                         *)
(* A set of findings is the set of their severities.  Debates are grouped  *)
(* by request id: debates[u] is the sequence of the messages with request  *)
(* id u, which is how every reader of them looks at them.  The red team    *)
(* says which exploit a debate is about, and nobody reads that: about[u].  *)
(***************************************************************************)
EXTENDS Integers, Sequences

CONSTANTS
  Threshold,  (* consensusThreshold, in basis points (7500 by default)       *)
  Exploit,    (* ids the red team may give to exploits                       *)
  Uuid        (* ids drawn by uuidv4()                                       *)

ASSUME ThresholdAssumption == Threshold \in 1 .. 10000
ASSUME FreshIdAssumption == Exploit \cap Uuid = {}

Reviewer == {"security", "performance", "style"}
Role     == Reviewer \cup {"redteam"}
Severity == {"critical", "high", "medium", "low"}
Blocking == {"critical", "high"}
Verdict  == {"approve", "reject"}

Message == [type : {"exploit_challenge", "defense", "concession", "counter_attack"},
            mitigated : {"yes", "no", "unset"}]

Points == 0 .. 10000
Result == [approved : BOOLEAN, confidenceScore : Points,
           blockingIssues : SUBSET Blocking]
Undecided == [approved |-> FALSE, confidenceScore |-> -1, blockingIssues |-> {}]

(* What a run gathers.  Written as a predicate, for debates may be long.   *)
IsReport(report) ==
  /\ DOMAIN report = {"head", "peers", "findings", "exploits", "debates", "about",
                      "human", "consensus"}
  /\ report.head \in Nat /\ report.peers \subseteq Role
  /\ report.findings \in [Reviewer -> SUBSET Severity]
  /\ DOMAIN report.exploits \subseteq Exploit
  /\ report.exploits \in [DOMAIN report.exploits -> Severity]
  /\ DOMAIN report.debates \subseteq Uuid
  /\ report.debates \in [DOMAIN report.debates -> Seq(Message)]
  /\ report.about \in [DOMAIN report.debates -> Exploit]
  /\ report.human \in Verdict \cup {"none"}
  /\ report.consensus \in Result \cup {Undecided}

Vote == [verdict : Verdict, keyFindings : SUBSET Severity, reputation : Nat]

-----------------------------------------------------------------------------
(***************************************************************************)
(* Debates, as the red team conducts them.  After a defence of an exploit  *)
(* that is not of low severity it counter-attacks, and the security agent  *)
(* is asked again only if the red team believes it found a bypass.         *)
(***************************************************************************)
Says(type, mitigated) == [type |-> type, mitigated |-> mitigated]
Answer(mitigated) == Says(IF mitigated = "yes" THEN "defense" ELSE "concession", mitigated)

Debate(severity) ==
  LET opening == <<Says("exploit_challenge", "unset")>>
      counter == Says("counter_attack", "unset")
      upheld  == opening \o <<Answer("yes")>>
  IN {opening \o <<Answer("no")>>} \cup
     IF severity = "low" THEN {upheld}
     ELSE {upheld \o <<counter>>} \cup
          {upheld \o <<counter, Answer(m)>> : m \in {"yes", "no"}}

(* For the properties: the red team calls an exploit mitigated when the    *)
(* last answer in the debate about it is a defence.                        *)
EndsInDefense(debate) ==
  \E i \in DOMAIN debate :
    debate[i].mitigated = "yes" /\ \A j \in DOMAIN debate : j > i => debate[j].mitigated = "unset"
Defended(report, x) ==
  \E u \in DOMAIN report.debates : report.about[u] = x /\ EndsInDefense(report.debates[u])

-----------------------------------------------------------------------------
(***************************************************************************)
(* Votes.  Topology entries carry no reputation, which the engine reads as *)
(* 0; the synthetic peer that stands for an absent security agent has 80.  *)
(***************************************************************************)
HeuristicReputation == 80

ReviewerVote(findings, reputation) ==
  [verdict     |-> IF findings \cap Blocking # {} THEN "reject" ELSE "approve",
   keyFindings |-> findings \cap Blocking,
   reputation  |-> reputation]

DefendedIn(x, debates) ==
  x \in DOMAIN debates /\ \E i \in DOMAIN debates[x] : debates[x][i].mitigated = "yes"

RedTeamVote(exploits, debates) ==
  LET unmitigated == {exploits[x] : x \in {y \in DOMAIN exploits : ~DefendedIn(y, debates)}}
  IN [verdict     |-> IF unmitigated \cap Blocking # {} THEN "reject" ELSE "approve",
      keyFindings |-> unmitigated,
      reputation  |-> 0]

Voters(report) ==
  report.peers \cup IF report.findings["security"] # {} THEN {"security"} ELSE {}

Votes(report) ==
  [r \in Voters(report) |->
     IF r = "redteam" THEN RedTeamVote(report.exploits, report.debates)
     ELSE ReviewerVote(report.findings[r],
                       IF r \in report.peers THEN 0 ELSE HeuristicReputation)]

-----------------------------------------------------------------------------
(***************************************************************************)
(* ConsensusEngine.  Weights are counted in units of 1/500: a multiplier   *)
(* of 1 + reputation / 500, bounded to 0.5 .. 2.                           *)
(***************************************************************************)
(* Mutant: the red team weighs as much as a performance reviewer.          *)
FlatRoleWeight ==
  [redteam |-> 2, security |-> 3, performance |-> 2, style |-> 1]

RoleWeight == [redteam |-> 4, security |-> 3, performance |-> 2, style |-> 1]

(* Mutant: the human counts like a security agent.                         *)
HeavyHumanWeight == 2000

HumanWeight == 2 * 500

Multiplier(reputation) ==
  IF 500 + reputation < 250 THEN 250
  ELSE IF 500 + reputation > 1000 THEN 1000 ELSE 500 + reputation

Weight(role, vote) == RoleWeight[role] * Multiplier(vote.reputation)

Share(votes, role, verdicts) ==
  IF role \in DOMAIN votes /\ votes[role].verdict \in verdicts
  THEN Weight(role, votes[role]) ELSE 0

Tally(votes, human, verdicts) ==
  Share(votes, "security", verdicts) + Share(votes, "performance", verdicts)
  + Share(votes, "style", verdicts) + Share(votes, "redteam", verdicts)
  + IF human \in verdicts THEN HumanWeight ELSE 0

(* Math.round of a proportion in basis points.                             *)
Rounded(part, whole) == (20000 * part + whole) \div (2 * whole)

(* Mutant: the human vote is not added to the total weight.                *)
ScoreHumanUncounted(votes, human) ==
  Rounded(Tally(votes, human, {"approve"}), Tally(votes, "none", Verdict))

Score(votes, human) ==
  Rounded(Tally(votes, human, {"approve"}), Tally(votes, human, Verdict))

(* wasExploitMitigated: the last message decides.                          *)
WasMitigated(x, debates) ==
  /\ x \in DOMAIN debates /\ debates[x] # <<>>
  /\ debates[x][Len(debates[x])].mitigated = "yes"

KeyFindings(votes) == UNION {votes[r].keyFindings : r \in DOMAIN votes}

CriticalUnmitigated(exploits, debates) ==
  \E x \in DOMAIN exploits : exploits[x] = "critical" /\ ~WasMitigated(x, debates)

Rejection(blockingIssues) ==
  [approved |-> FALSE, confidenceScore |-> 0, blockingIssues |-> blockingIssues]

ComputeConsensus(votes, exploits, debates, human) ==
  IF DOMAIN votes = {} THEN Rejection({})
  ELSE IF CriticalUnmitigated(exploits, debates) THEN Rejection({"critical"})
  ELSE [approved        |-> Score(votes, human) >= Threshold,
        confidenceScore |-> Score(votes, human),
        blockingIssues  |-> KeyFindings(votes) \cap Blocking]

Decided(report) ==
  [report EXCEPT !.consensus =
     ComputeConsensus(Votes(report), report.exploits, report.debates, report.human)]

-----------------------------------------------------------------------------
(***************************************************************************)
(* The guardrail.  It counts mitigated exploits; as there are finitely     *)
(* many, fewer mitigated than found means that one of them is not.         *)
(***************************************************************************)
CountedMitigated(x, debates) ==
  x \in DOMAIN debates
  /\ \E i \in DOMAIN debates[x] : debates[x][i] = Says("defense", "yes")

(* Mutant: enforceAutoMergeGuardrails trusts the consensus.                *)
AllowedOnApproval(report) == report.consensus.approved

Allowed(report) ==
  /\ report.consensus.approved
  /\ report.consensus.blockingIssues = {}
  /\ \/ \A x \in DOMAIN report.exploits : report.exploits[x] # "critical"
     \/ \A x \in DOMAIN report.exploits : CountedMitigated(x, report.debates)

=============================================================================
