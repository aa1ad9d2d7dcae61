------------------------------ MODULE MCGossip ------------------------------
(* The instance of Gossip that TLC checks.                                *)
EXTENDS Gossip

CONSTANTS gateway, coder, goal

=============================================================================
