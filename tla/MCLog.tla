------------------------------- MODULE MCLog -------------------------------
(* Log on small instances: symmetric processes, block numbers, contents.    *)
EXTENDS Log, TLC

CONSTANTS p1, p2, p3, b1, b2, b3, b4, d1, d2

MCOps2 == {p1, p2}
MCOps3 == {p1, p2, p3}
MCBlocks3 == {b1, b2, b3}
MCBlocks4 == {b1, b2, b3, b4}
MCData1 == {d1}
MCData == {d1, d2}

MCSymmetry3 == Permutations(MCOps3) \cup Permutations(MCBlocks3)
=============================================================================
