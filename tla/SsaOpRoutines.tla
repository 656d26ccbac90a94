---------------------------- MODULE SsaOpRoutines ----------------------------
(***************************************************************************)
(* The SSA operand iterator routines of tree-flow-inline.h (604-990) and  *)
(* the queries built on them, as operators: the ssa_op_iter record,       *)
(* op_iter_init and the op_iter_init_* / op_iter_next_* routines for use, *)
(* def, tree, vdef and PHI walks, single_ssa_*_operand, zero_ssa_operands, *)
(* num_ssa_operands, compare_ssa_operands_equal and single_phi_def.       *)
(*                                                                         *)
(* The iterator's lists (uses, defs, vuses, vdefs, mayuses) are the        *)
(* operand-list nodes from the current one on: ptr->x = ptr->x->next is   *)
(* Tail, NULL is <<>>.  Statements and operand slots are described in     *)
(* SsaOperands.  SsaOpIter drives these routines from a FOR_EACH_SSA_*    *)
(* loop; ImmUse uses them in link_use_stmts_after.                        *)
(***************************************************************************)
EXTENDS Integers, SsaOperands

CONSTANT NoStmt     \* the NULL statement (a statement with no operands)

FlagNames == {"USE", "DEF", "VUSE", "VMAYUSE", "VDEF"}
Kinds == {"use", "def", "tree", "vdef", "phiuse", "phidef"}

NullTree == [name |-> "NULL_TREE"]
NullOp   == [p |-> <<"NULL", 0>>, v |-> NullTree]   \* NULL_USE/DEF_OPERAND_P
NullVdef == [use |-> <<>>, def |-> NullOp]

\* clear_and_done_ssa_iter.
ClearedIter ==
    [defs |-> <<>>, uses |-> <<>>, vuses |-> <<>>, vdefs |-> <<>>,
     mayuses |-> <<>>, iter_type |-> "none", phi_i |-> 0, num_phi |-> 0,
     phi_stmt |-> NoStmt, done |-> TRUE, vuse_index |-> 0, mayuse_index |-> 0]

Done(it) == [it EXCEPT !.done = TRUE]

-----------------------------------------------------------------------------
(* The next routines.  Each returns [it |-> the iterator after the call,  *)
(* r |-> the value returned].                                             *)

\* One step along a list of operand vectors (VUSE_OP_PTR over vuses with
\* vuse_index, VDEF_OP_PTR over mayuses with mayuse_index): the element at
\* idx; then idx + 1, or, when that is past the vector, index 0 on the
\* next node.
VecStep(vec, list, idx) ==
    [elem |-> vec[idx + 1],
     list |-> IF idx + 1 >= Len(vec) THEN Tail(list) ELSE list,
     idx  |-> IF idx + 1 >= Len(vec) THEN 0 ELSE idx + 1]

HasUses(it) == it.uses # <<>> \/ it.vuses # <<>> \/ it.mayuses # <<>>

\* Mutant: vuse_index is not reset to 0 when the walk moves to the next
\* VUSE node.
NextUseListNoReset(it) ==
    CASE it.uses # <<>> ->
           [it |-> [it EXCEPT !.uses = Tail(@)], r |-> Head(it.uses)]
      [] it.vuses # <<>> ->
           LET st == VecStep(Head(it.vuses), it.vuses, it.vuse_index)
           IN  [it |-> [it EXCEPT !.vuses = st.list, !.vuse_index = @ + 1],
                r  |-> st.elem]
      [] OTHER ->
           LET st == VecStep(Head(it.mayuses).vec, it.mayuses, it.mayuse_index)
           IN  [it |-> [it EXCEPT !.mayuses = st.list, !.mayuse_index = st.idx],
                r  |-> st.elem]

\* Mutant: the may-use branch, copied from the VUSE branch, updates
\* vuse_index instead of mayuse_index.
NextUseListVuseIndex(it) ==
    CASE it.uses # <<>> ->
           [it |-> [it EXCEPT !.uses = Tail(@)], r |-> Head(it.uses)]
      [] it.vuses # <<>> ->
           LET st == VecStep(Head(it.vuses), it.vuses, it.vuse_index)
           IN  [it |-> [it EXCEPT !.vuses = st.list, !.vuse_index = st.idx],
                r  |-> st.elem]
      [] OTHER ->
           LET st == VecStep(Head(it.mayuses).vec, it.mayuses, it.mayuse_index)
           IN  [it |-> [it EXCEPT !.mayuses = st.list, !.vuse_index = st.idx],
                r  |-> st.elem]

\* The part of op_iter_next_use and op_iter_next_tree that walks the real
\* uses, then the VUSE vectors, then the may-use vectors of the VDEFs.
NextUseList(it) ==
    CASE it.uses # <<>> ->
           [it |-> [it EXCEPT !.uses = Tail(@)], r |-> Head(it.uses)]
      [] it.vuses # <<>> ->
           LET st == VecStep(Head(it.vuses), it.vuses, it.vuse_index)
           IN  [it |-> [it EXCEPT !.vuses = st.list, !.vuse_index = st.idx],
                r  |-> st.elem]
      [] OTHER ->
           LET st == VecStep(Head(it.mayuses).vec, it.mayuses, it.mayuse_index)
           IN  [it |-> [it EXCEPT !.mayuses = st.list, !.mayuse_index = st.idx],
                r  |-> st.elem]

op_iter_next_use(it) ==
    CASE HasUses(it) -> NextUseList(it)
      [] it.phi_i < it.num_phi ->
           [it |-> [it EXCEPT !.phi_i = @ + 1],
            r  |-> it.phi_stmt.args[it.phi_i + 1]]
      [] OTHER -> [it |-> Done(it), r |-> NullOp]

op_iter_next_def(it) ==
    CASE it.defs # <<>> ->
           [it |-> [it EXCEPT !.defs = Tail(@)], r |-> Head(it.defs)]
      [] it.vdefs # <<>> ->
           [it |-> [it EXCEPT !.vdefs = Tail(@)], r |-> Head(it.vdefs).res]
      [] OTHER -> [it |-> Done(it), r |-> NullOp]

\* Uses first, then defs, returning the operand's value (USE_OP, DEF_OP).
op_iter_next_tree(it) ==
    CASE HasUses(it) ->
           LET n == NextUseList(it) IN [it |-> n.it, r |-> n.r.v]
      [] it.defs # <<>> \/ it.vdefs # <<>> ->
           LET n == op_iter_next_def(it) IN [it |-> n.it, r |-> n.r.v]
      [] OTHER -> [it |-> Done(it), r |-> NullTree]

op_iter_next_vdef(it) ==
    IF it.mayuses # <<>>
    THEN [it |-> [it EXCEPT !.mayuses = Tail(@)],
          r  |-> [use |-> Head(it.mayuses).vec, def |-> Head(it.mayuses).res]]
    ELSE [it |-> Done(it), r |-> NullVdef]

-----------------------------------------------------------------------------
(* The init routines.  op_iter_init leaves iter_type as it was; each      *)
(* caller sets it.                                                        *)

op_iter_init(it, s, fl) ==
    [it EXCEPT !.defs    = IF "DEF" \in fl THEN s.defs ELSE <<>>,
               !.uses    = IF "USE" \in fl THEN s.uses ELSE <<>>,
               !.vuses   = IF "VUSE" \in fl THEN s.vuses ELSE <<>>,
               !.vdefs   = IF "VDEF" \in fl THEN s.vdefs ELSE <<>>,
               !.mayuses = IF "VMAYUSE" \in fl THEN s.vdefs ELSE <<>>,
               !.done = FALSE, !.phi_i = 0, !.num_phi = 0,
               !.phi_stmt = NoStmt, !.vuse_index = 0, !.mayuse_index = 0]

op_iter_init_use(it, s, fl) ==
    op_iter_next_use([op_iter_init(it, s, fl) EXCEPT !.iter_type = "use"])
op_iter_init_def(it, s, fl) ==
    op_iter_next_def([op_iter_init(it, s, fl) EXCEPT !.iter_type = "def"])
op_iter_init_tree(it, s, fl) ==
    op_iter_next_tree([op_iter_init(it, s, fl) EXCEPT !.iter_type = "tree"])
op_iter_init_vdef(it, s) ==
    op_iter_next_vdef([op_iter_init(it, s, {"VMAYUSE"}) EXCEPT !.iter_type = "vdef"])

\* A PHI walk starts from a cleared iterator; it is over at once when the
\* PHI's result is not of a kind FLAGS asks for.
op_iter_init_phiuse(it, phi, fl) ==
    LET c == [ClearedIter EXCEPT !.done = FALSE]
    IN  IF ~PhiSelected(phi, fl, {"USE"}, VirtualUses)
        THEN [it |-> Done(c), r |-> NullOp]
        ELSE op_iter_next_use([c EXCEPT !.phi_stmt = phi,
                                        !.num_phi = Len(phi.args),
                                        !.iter_type = "use"])

\* The PHI result is the first and only def; the next op_iter_next_def
\* finds every list NULL and ends the walk.
op_iter_init_phidef(it, phi, fl) ==
    LET c == [ClearedIter EXCEPT !.done = FALSE]
    IN  IF ~PhiSelected(phi, fl, {"DEF"}, VirtualDefs)
        THEN [it |-> Done(c), r |-> NullOp]
        ELSE [it |-> [c EXCEPT !.iter_type = "def"], r |-> phi.res]

\* The calls the gcc_asserts of the init routines admit: a use walk asks
\* for no defs, a def walk for no uses, a vdef walk is not on a PHI, a PHI
\* walk asks for some operand of its kind and is on a PHI.
Legal(k, s, fl) ==
    CASE k = "use"    -> fl \cap AllDefs = {}
      [] k = "def"    -> fl \cap AllUses = {}
      [] k = "tree"   -> TRUE
      [] k = "vdef"   -> ~s.phi /\ fl = {"VMAYUSE"}
      [] k = "phiuse" -> s.phi /\ fl \cap AllUses # {}
      [] k = "phidef" -> s.phi /\ fl \cap AllDefs # {}

InitFor(k, it, s, fl) ==
    CASE k = "use"    -> op_iter_init_use(it, s, fl)
      [] k = "def"    -> op_iter_init_def(it, s, fl)
      [] k = "tree"   -> op_iter_init_tree(it, s, fl)
      [] k = "vdef"   -> op_iter_init_vdef(it, s)
      [] k = "phiuse" -> op_iter_init_phiuse(it, s, fl)
      [] k = "phidef" -> op_iter_init_phidef(it, s, fl)

NextFor(k, it) ==
    CASE k \in {"use", "phiuse"} -> op_iter_next_use(it)
      [] k \in {"def", "phidef"} -> op_iter_next_def(it)
      [] k = "tree"              -> op_iter_next_tree(it)
      [] k = "vdef"              -> op_iter_next_vdef(it)

-----------------------------------------------------------------------------
(* The queries built on the iterator.  Each runs its own iterator.        *)

\* The pattern of single_ssa_{tree,use,def}_operand, given the results of
\* the init call (n0) and of the next call after it (n1): the first value
\* if the walk is not over after it and over after the second call.
SingleOf(n0, n1, null) ==
    IF n0.it.done THEN null
    ELSE IF n1.it.done THEN n0.r ELSE null

single_ssa_tree_operand(s, fl) ==
    LET n0 == op_iter_init_tree(ClearedIter, s, fl)
    IN  SingleOf(n0, op_iter_next_tree(n0.it), NullTree)
single_ssa_use_operand(s, fl) ==
    LET n0 == op_iter_init_use(ClearedIter, s, fl)
    IN  SingleOf(n0, op_iter_next_use(n0.it), NullOp)
single_ssa_def_operand(s, fl) ==
    LET n0 == op_iter_init_def(ClearedIter, s, fl)
    IN  SingleOf(n0, op_iter_next_def(n0.it), NullOp)

zero_ssa_operands(s, fl) == op_iter_init_tree(ClearedIter, s, fl).it.done

\* FOR_EACH_SSA_TREE_OPERAND counting its bodies.
RECURSIVE CountLoop(_, _)
CountLoop(i, num) ==
    IF i.done THEN num ELSE CountLoop(op_iter_next_tree(i).it, num + 1)

num_ssa_operands(s, fl) == CountLoop(op_iter_init_tree(ClearedIter, s, fl).it, 0)

\* Mutant: the result after the loop looks at the first iterator only.
RECURSIVE CompareLoopFirstDone(_, _, _, _)
CompareLoopFirstDone(i1, i2, op1, op2) ==
    IF ~i1.done /\ ~i2.done
    THEN IF op1 # op2 THEN FALSE
         ELSE LET n1 == op_iter_next_tree(i1)
                  n2 == op_iter_next_tree(i2)
              IN  CompareLoopFirstDone(n1.it, n2.it, n1.r, n2.r)
    ELSE i1.done

\* The lock-step loop of compare_ssa_operands_equal.
RECURSIVE CompareLoop(_, _, _, _)
CompareLoop(i1, i2, op1, op2) ==
    IF ~i1.done /\ ~i2.done
    THEN IF op1 # op2 THEN FALSE
         ELSE LET n1 == op_iter_next_tree(i1)
                  n2 == op_iter_next_tree(i2)
              IN  CompareLoop(n1.it, n2.it, n1.r, n2.r)
    ELSE i1.done /\ i2.done

\* Statements are compared by address; either may be NULL.
compare_ssa_operands_equal(s1, s2, fl) ==
    LET n1 == op_iter_init_tree(ClearedIter, s1, fl)
        n2 == op_iter_init_tree(ClearedIter, s2, fl)
    IN  CASE s1.id = s2.id   -> TRUE
          [] s2.id = NoStmt.id -> n1.it.done
          [] s1.id = NoStmt.id -> n2.it.done
          [] OTHER           -> CompareLoop(n1.it, n2.it, n1.r, n2.r)

single_phi_def(s, fl) ==
    IF \/ "DEF" \in fl /\ s.reg
       \/ fl \cap VirtualDefs # {} /\ ~s.reg
    THEN s.res.v ELSE NullTree

=============================================================================
