---------------------------- MODULE MCKeeperHub ----------------------------
(* The instance of KeeperHub that TLC checks.                              *)
EXTENDS KeeperHub, TLC

CONSTANTS dep, agent, h1, b1, role1, j1, j2

Record(h, verdict)   == [op |-> "recordReview", hash |-> h, verdict |-> verdict]
Update(a, accurate)  == [op |-> "updateReputation", agent |-> a, accurate |-> accurate]
Mint(to, blob, role) == [op |-> "mintAgent", to |-> to, blob |-> blob, role |-> role]
Evolve(t, blob)      == [op |-> "evolveAgent", token |-> t, blob |-> blob]
Fund                 == [op |-> "fund"]

(* A call of every kind that touches a contract, and one that does not,    *)
(* each of which may find the mode that the other has left.  KeeperHub's   *)
(* wallet is the deployer: deploy.ts approves no other one, and for one    *)
(* that is not approved every execution reverts.                           *)
TwoCalls == j1 :> {Record(h1, "approved"), Mint(agent, b1, role1),
                    Update(agent, FALSE), Evolve(1, b1)}
              @@ j2 :> {Evolve(0, b1), Fund}
OneRole   == <<role1>>

=============================================================================
