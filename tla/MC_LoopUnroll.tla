--------------------------- MODULE MC_LoopUnroll ---------------------------
(* The loop passes on three loops: loop 2 is nested in loop 1, so        *)
(* complete unrolling needs a second sweep to reach loop 1, and loop 3 is *)
(* an outermost loop that is also innermost.                              *)
EXTENDS LoopUnroll

MCLoops == {1, 2, 3}
MCParent == [l \in MCLoops |-> IF l = 2 THEN 1 ELSE 0]
MCNiterChoices == {0, 1, 2, 3, Unknown}
MCInsnChoices == {2, 9, 15}
====
