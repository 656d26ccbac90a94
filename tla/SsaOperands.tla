---------------------------- MODULE SsaOperands ----------------------------
(***************************************************************************)
(* Statements, operand slots and SSA_OP_* flags, shared by the iterator   *)
(* (SsaOpIter) and the walk it implements (OperandWalk).                  *)
(*                                                                         *)
(* A statement is a record: its address (id), whether it is a PHI, its    *)
(* real defs and uses, its VUSE nodes (each a vector of virtual operands), *)
(* its VDEF nodes (a result and the vector of virtual operands it may     *)
(* use), and, for a PHI, its result, whether that result is a GIMPLE      *)
(* register, and its arguments.  An operand slot is a record              *)
(* [p |-> its address, v |-> the tree it holds]; a tree (an SSA name) is  *)
(* a record [name |-> ...].                                               *)
(***************************************************************************)
EXTENDS Sequences
LOCAL SE == INSTANCE SequencesExt

\* The SSA_OP_* flag groups of tree-ssa-operands.h.
VirtualUses == {"VUSE", "VMAYUSE"}
VirtualDefs == {"VDEF"}
AllUses     == {"USE"} \cup VirtualUses
AllDefs     == {"DEF"} \cup VirtualDefs

Vals(ops) == [i \in DOMAIN ops |-> ops[i].v]

\* The operands a walk of each kind must hand out.
UseOps(s, fl) ==
    (IF "USE" \in fl THEN s.uses ELSE <<>>)
    \o (IF "VUSE" \in fl THEN SE!FlattenSeq(s.vuses) ELSE <<>>)
    \o (IF "VMAYUSE" \in fl
        THEN SE!FlattenSeq([i \in DOMAIN s.vdefs |-> s.vdefs[i].vec]) ELSE <<>>)
DefOps(s, fl) ==
    (IF "DEF" \in fl THEN s.defs ELSE <<>>)
    \o (IF "VDEF" \in fl THEN [i \in DOMAIN s.vdefs |-> s.vdefs[i].res] ELSE <<>>)
\* A PHI's operands are of the real kind when its result is a register and
\* of the virtual kind otherwise.
PhiSelected(s, fl, real, virtual) ==
    fl \cap (IF s.reg THEN real ELSE virtual) # {}

Selected(k, s, fl) ==
    CASE k = "use"    -> UseOps(s, fl)
      [] k = "def"    -> DefOps(s, fl)
      [] k = "tree"   -> Vals(UseOps(s, fl) \o DefOps(s, fl))
      [] k = "vdef"   -> [i \in DOMAIN s.vdefs |->
                             [use |-> s.vdefs[i].vec, def |-> s.vdefs[i].res]]
      [] k = "phiuse" -> IF PhiSelected(s, fl, {"USE"}, VirtualUses)
                         THEN s.args ELSE <<>>
      [] k = "phidef" -> IF PhiSelected(s, fl, {"DEF"}, VirtualDefs)
                         THEN <<s.res>> ELSE <<>>

=============================================================================
