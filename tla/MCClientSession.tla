--------------------------- MODULE MCClientSession ---------------------------
\* Two tasks of the history, a plan of two tasks, and one reload of the window.
EXTENDS ClientSession, TLC

CONSTANTS w1, w2, t1, t2

MCWorkflows == {w1, w2}
MCPlan == <<t1, t2>>
MCSymmetry == Permutations(MCWorkflows)

=============================================================================
