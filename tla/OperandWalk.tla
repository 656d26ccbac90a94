---------------------------- MODULE OperandWalk ----------------------------
(***************************************************************************)
(* What a walk over the SSA operands of a statement promises: a caller    *)
(* starts a walk of some kind with some SSA_OP_* flags, is handed every   *)
(* operand of the statement those flags select, once each and in the      *)
(* statement's operand order, and the walk then ends.  This is the        *)
(* abstract specification the iterator of tree-flow-inline.h (module      *)
(* SsaOpIter) is shown to implement.                                      *)
(***************************************************************************)
EXTENDS SsaOperands

CONSTANT Calls  \* the <<kind, statement, flags>> a caller may start a walk with

VARIABLES
    call,       \* the <<kind, statement, flags>> of the current walk
    pending,    \* the operands still to be handed out
    out,        \* the operands handed out so far
    wpc         \* "idle" or "loop"

wvars == <<call, pending, out, wpc>>

Init ==
    /\ call \in Calls
    /\ pending = <<>>
    /\ out = <<>>
    /\ wpc = "idle"

Start ==
    /\ wpc = "idle"
    /\ \E c \in Calls :
          /\ call' = c
          /\ pending' = Selected(c[1], c[2], c[3])
    /\ out' = <<>>
    /\ wpc' = "loop"

Visit ==
    /\ wpc = "loop"
    /\ pending # <<>>
    /\ out' = Append(out, Head(pending))
    /\ pending' = Tail(pending)
    /\ UNCHANGED <<call, wpc>>

Stop ==
    /\ wpc = "loop"
    /\ pending = <<>>
    /\ wpc' = "idle"
    /\ UNCHANGED <<call, pending, out>>

Next == Start \/ Visit \/ Stop

\* A started walk is never abandoned: every operand is handed out and the
\* walk ends.
Spec == Init /\ [][Next]_wvars /\ WF_wvars(Visit) /\ WF_wvars(Stop)
=============================================================================
