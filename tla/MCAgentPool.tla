---------------------------- MODULE MCAgentPool ----------------------------
(* A few clients for TLC.                                                  *)
EXTENDS AgentPool, TLC

MCEverybody == Clients \X Clients

MCOnlySelf == {<<a, a>> : a \in Clients}

MCSymmetry == Permutations(Clients)
=============================================================================
