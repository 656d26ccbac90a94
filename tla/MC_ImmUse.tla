------------------------------ MODULE MC_ImmUse ------------------------------
(* Two register names; an ordinary statement s1 with use operands u2, u1  *)
(* and a register PHI s2 with arguments u4, u3.  The orders in which the  *)
(* operand iterator hands out a statement's uses (u2 before u1, u4 before *)
(* u3) differ from the link orders the walk can meet, so that gathering a *)
(* statement's uses behind the first one has to move some, through both   *)
(* FOR_EACH_SSA_USE_OPERAND and FOR_EACH_PHI_ARG.                         *)
EXTENDS ImmUse, TLC

CONSTANTS x, y, u1, u2, u3, u4, s1, s2

MCNames == {x, y}
MCUses == {u1, u2, u3, u4}
MCStmts == {s1, s2}
MCStmtOf == (u1 :> s1) @@ (u2 :> s1) @@ (u3 :> s2) @@ (u4 :> s2)

\* A slot's address is its use node; the name it holds is val[u].
Slot(u) == [p |-> u, v |-> NoName]
MCOperands ==
    (s1 :> [NoOperands EXCEPT !.id = s1, !.uses = <<Slot(u2), Slot(u1)>>])
    @@ (s2 :> [NoOperands EXCEPT !.id = s2, !.phi = TRUE, !.reg = TRUE,
                                 !.args = <<Slot(u4), Slot(u3)>>])
====
