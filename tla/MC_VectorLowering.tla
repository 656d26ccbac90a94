------------------------- MODULE MC_VectorLowering -------------------------
(* A 32-bit-word target with a 64-bit MAX_FIXED_MODE_SIZE and a few       *)
(* vector modes, and blocks of two statements over vector types that      *)
(* reach every strategy: vector modes kept or split into narrower ones,   *)
(* integer modes, BLKmode, SWAR over one word, over several words and     *)
(* below a word.                                                           *)
EXTENDS VectorLowering

I8  == [bits |-> 8, kind |-> "int"]
I16 == [bits |-> 16, kind |-> "int"]
I32 == [bits |-> 32, kind |-> "int"]
F32 == [bits |-> 32, kind |-> "float"]
V(e, k) == [elem |-> e, n |-> k]

IntTypes == {V(I8, 2), V(I8, 4), V(I8, 8), V(I8, 16), V(I16, 4), V(I16, 8),
             V(I32, 2), V(I32, 4)}
MCTypes == IntTypes \cup {V(F32, 4), V(F32, 8)}

MCHwVectors == {V(I16, 4), V(I32, 4), V(F32, 4)}
MCSupported == {<<"add", V(I16, 4)>>, <<"add", V(I32, 4)>>, <<"add", V(F32, 4)>>,
                <<"xor", V(I32, 4)>>, <<"ashl", V(I16, 4)>>,
                <<"vashl", V(I32, 4)>>, <<"mul", V(F32, 4)>>}

\* A target whose widest mode for 16-bit elements has 16 units.
WideHwVectors == {V(I16, 16)}
WideSupported == {<<"add", V(I16, 16)>>}

Stmt(c, t, k, tr) == [code |-> c, type |-> t, count |-> k, traps |-> tr]

MCStmts ==
    {Stmt(c, t, "vector", FALSE) : c \in {"PLUS_EXPR", "MULT_EXPR"}, t \in MCTypes}
    \cup {Stmt(c, t, "none", FALSE) : c \in {"NEGATE_EXPR", "NOP_EXPR"}, t \in MCTypes}
    \cup {Stmt("BIT_XOR_EXPR", t, "vector", FALSE) : t \in IntTypes}
    \cup {Stmt("BIT_NOT_EXPR", t, "none", FALSE) : t \in IntTypes}
    \cup {Stmt("LSHIFT_EXPR", t, k, FALSE) : t \in IntTypes, k \in {"vector", "scalar"}}
    \cup {Stmt("PLUS_EXPR", t, "vector", TRUE) : t \in IntTypes}
    \cup {Stmt("NEGATE_EXPR", t, "none", TRUE) : t \in IntTypes}

-----------------------------------------------------------------------------
(* The word-parallel arithmetic the SWAR strategy emits (do_plus_minus,   *)
(* do_negate), evaluated on every pair of words of a target scaled down:   *)
(* 6-bit words of three 2-bit lanes (an 8-bit element becomes a 2-bit     *)
(* lane), with a 16-bit HOST_WIDE_INT so that the masking branch of       *)
(* build_replicated_const is taken.  Three lanes give a bottom, a middle  *)
(* and a top lane, so every carry and borrow boundary occurs.             *)
Swar == INSTANCE SwarArith WITH HostBits <- 16, Prec <- 6, LaneWidths <- {2}

\* Whether the SWAR arithmetic is exact at each scaled lane width (computed
\* once; it depends on no variable).  On this target only 8-bit elements
\* pass SwarApplies (four or more lanes per word), so only width 2 occurs.
SwarOkAt == [w \in {2} |-> Swar!SwarLanesOk(w)]

\* Every PLUS, MINUS or NEGATE the pass lowered word-parallel (SwarApplies)
\* computes lane-by-lane two's-complement arithmetic: no carry or borrow
\* of do_plus_minus or do_negate crosses a lane boundary and the top bit
\* of every lane is right.
SwarCorrect ==
    \A e \in log :
        Strategy(e.stmt, e.compute).f \in {"plus_minus", "negate"} =>
            SwarOkAt[e.stmt.type.elem.bits \div 4]
====
