------------------------ MODULE MCOperatorSessions ------------------------
(* Bounds and values for model-checking OperatorSessions. *)
EXTENDS OperatorSessions, TLC

CONSTANTS n1, n2, p1, p2, t1, t2, s1, s2, w1, w2, b1, x1

MCNames == {n1, n2}
MCPasses == {p1, p2}
MCTokens == {t1, t2}
MCSessionIds == {s1, s2}
MCWorkers == {w1, w2}
MCBrowsers == {b1}
MCRequests == {[nonce |-> x1, ts |-> 1], [nonce |-> x1, ts |-> 2]}
MCOps == {"token", "logout", "forget", "clear", "cleanup", "profile"}

MCSymmetry == Permutations(MCWorkers) \cup Permutations(MCSessionIds) \cup
  Permutations(MCPasses) \cup Permutations(MCTokens) \cup Permutations(MCNames)
=============================================================================
