----------------------------- MODULE MCTransfer -----------------------------
(* Files the web application logs and one put in Azure by hand.            *)
EXTENDS Transfer

CONSTANTS logged, byHand, other

MCPair == {logged, byHand}
MCPairRank == [f \in MCPair |-> IF f = byHand THEN 1 ELSE 2]
MCTrio == {logged, byHand, other}
MCTrioRank == [f \in MCTrio |-> CASE f = other -> 1 [] f = byHand -> 2 [] OTHER -> 3]
=============================================================================
