--------------------------- MODULE MC_EmptyLoops ---------------------------
(* Loops 2 and 3 nested in loop 1, loop 4 alone.  Loop 1's dominance     *)
(* order puts loop 2's blocks before its exit block and loop 3's after   *)
(* it; loop 3 has a zero header frequency; loop 4's header frequency is  *)
(* above 1000, so the scaling factor is renormalised.  Header            *)
(* frequencies are at least the entry frequency, as in any real CFG.     *)
EXTENDS EmptyLoops, TLC

MCLoops == {1, 2, 3, 4}
MCParent == (1 :> 0) @@ (2 :> 1) @@ (3 :> 1) @@ (4 :> 0)
MCBlocks == 1..10
MCFreq0 == [b \in MCBlocks |->
              CASE b \in {1, 2} -> 8 [] b = 3 -> 4 [] b = 4 -> 6 [] b = 5 -> 3
                [] b \in {6, 7} -> 0 [] b \in {8, 9, 10} -> 3000]
MCDomBody == (1 :> <<1, 4, 5, 2, 6, 7, 3>>) @@ (2 :> <<4, 5>>)
               @@ (3 :> <<6, 7>>) @@ (4 :> <<8, 9, 10>>)
MCExitBlock == (1 :> 2) @@ (2 :> 4) @@ (3 :> 6) @@ (4 :> 9)
MCFreqIn == (1 :> 2) @@ (2 :> 2) @@ (3 :> 0) @@ (4 :> 1000)
MCExitCount0 == (1 :> 10) @@ (2 :> 7) @@ (3 :> 3) @@ (4 :> 9)
MCNonExitCount0 == [l \in MCLoops |-> 5]
====
