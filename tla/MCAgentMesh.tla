---------------------------- MODULE MCAgentMesh ----------------------------
(* The instance of AgentMesh that TLC checks.                              *)
EXTENDS AgentMesh, TLC

CONSTANTS gateway, redteam, security, scan, review, first

(* The gateway's two scans, and the challenge of the exploit scan.    *)
Challenges == {first}
CallerOf  == [c \in Call |-> IF c \in Challenges THEN redteam ELSE gateway]
CalleeOf  == [c \in Call |-> IF c = scan THEN redteam ELSE security]
ServiceOf == [c \in Call |-> IF c \in Challenges THEN "exploit-challenge"
                             ELSE IF c = scan THEN "exploit-scan" ELSE "security-scan"]
DebatesIn == [c \in Call |-> [n \in Copy |-> IF c = scan /\ n = 1 THEN <<first>> ELSE <<>>]]

=============================================================================
