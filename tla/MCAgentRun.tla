----------------------------- MODULE MCAgentRun -----------------------------
(* Small instances of AgentRun for TLC. *)
EXTENDS AgentRun, TLC

CONSTANTS t1, t2, t3, s1, s2, k1, k2

MCSymmetry == Permutations(Turn) \cup Permutations(Session) \cup Permutations(Compaction)
=============================================================================
