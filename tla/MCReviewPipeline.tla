-------------------------- MODULE MCReviewPipeline --------------------------
(* The instances of ReviewPipeline that TLC checks.                        *)
EXTENDS ReviewPipeline

CONSTANTS r1, r2, p1

(* One run, in a whole swarm, a small one or none at all.                  *)
OneTarget  == [r \in {r1} |-> p1]
ThreeSizes == {Role, {"security", "redteam"}, {}}
OnlyHigh   == {{"high"}}

(* Two runs of the same pull request, reviewed by one agent.               *)
SameTarget   == [r \in {r1, r2} |-> p1]
OnlySecurity == {{"security"}}
SameRuns     == Permutations(Run)

=============================================================================
