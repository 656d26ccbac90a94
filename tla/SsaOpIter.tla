------------------------------ MODULE SsaOpIter ------------------------------
(***************************************************************************)
(* A FOR_EACH_SSA_* loop over the operand iterator of SsaOpRoutines:      *)
(*     for (v = op_iter_init_K (&it, stmt, flags); !op_iter_done (&it);    *)
(*          v = op_iter_next_K (&it)) body (v);                            *)
(* Start is the init call, Visit one body plus the next call, Leave the    *)
(* loop's exit.  The loop is shown to implement OperandWalk, and the      *)
(* queries are checked against what the loop was handed.                  *)
(***************************************************************************)
EXTENDS SsaOpRoutines
LOCAL SE == INSTANCE SequencesExt

CONSTANT Stmts      \* the statements a walk may be started on

LegalCalls == {c \in Kinds \X Stmts \X SUBSET FlagNames : Legal(c[1], c[2], c[3])}

-----------------------------------------------------------------------------
VARIABLES
    it,         \* the ssa_op_iter of the loop
    cur,        \* the value the last init or next call returned
    out,        \* the values the loop body has been handed
    kind,       \* the kind of walk
    stmt,       \* the statement walked
    flags,      \* its SSA_OP_* flags
    pc          \* "idle" or "loop"

vars == <<it, cur, out, kind, stmt, flags, pc>>

Init ==
    /\ it = ClearedIter
    /\ cur = NullOp
    /\ out = <<>>
    /\ \E c \in LegalCalls : kind = c[1] /\ stmt = c[2] /\ flags = c[3]
    /\ pc = "idle"

\* The loop's init call.
Start ==
    /\ pc = "idle"
    /\ \E c \in LegalCalls :
          LET n == InitFor(c[1], it, c[2], c[3])
          IN  /\ it' = n.it
              /\ cur' = n.r
              /\ kind' = c[1] /\ stmt' = c[2] /\ flags' = c[3]
    /\ out' = <<>>
    /\ pc' = "loop"

\* !op_iter_done (&it): the body sees cur, then the next call.
Visit ==
    /\ pc = "loop"
    /\ ~it.done
    /\ out' = Append(out, cur)
    /\ LET n == NextFor(kind, it) IN it' = n.it /\ cur' = n.r
    /\ UNCHANGED <<kind, stmt, flags, pc>>

Leave ==
    /\ pc = "loop"
    /\ it.done
    /\ pc' = "idle"
    /\ UNCHANGED <<it, cur, out, kind, stmt, flags>>

Next == Start \/ Visit \/ Leave

\* A FOR_EACH loop's body returns to the loop, which calls next until done.
Spec == Init /\ [][Next]_vars /\ WF_vars(Visit) /\ WF_vars(Leave)

-----------------------------------------------------------------------------
(* Properties.                                                             *)

MaxVec == LET lens == {Len(v) : v \in UNION {{s.vuses[i] : i \in DOMAIN s.vuses}
                                     \cup {s.vdefs[i].vec : i \in DOMAIN s.vdefs}
                                     : s \in Stmts}}
          IN  CHOOSE m \in lens : \A l \in lens : l <= m

TypeOK ==
    /\ it.iter_type \in {"none", "use", "def", "tree", "vdef"}
    /\ it.done \in BOOLEAN
    /\ it.vuse_index \in 0..(MaxVec - 1)
    /\ it.mayuse_index \in 0..(MaxVec - 1)
    /\ it.phi_i \in 0..it.num_phi
    /\ kind \in Kinds
    /\ stmt \in Stmts
    /\ flags \subseteq FlagNames
    /\ pc \in {"idle", "loop"}

\* What an iterator has still to hand out, read off its fields: the rest of
\* the current vector from its index, the later nodes, the PHI arguments
\* from phi_i.
RestVecs(list, idx, Vec(_)) ==
    IF list = <<>> THEN <<>>
    ELSE SubSeq(Vec(Head(list)), idx + 1, Len(Vec(Head(list))))
         \o SE!FlattenSeq([i \in 1..(Len(list) - 1) |-> Vec(list[i + 1])])
UsesLeft(i) ==
    i.uses \o RestVecs(i.vuses, i.vuse_index, LAMBDA n : n)
    \o RestVecs(i.mayuses, i.mayuse_index, LAMBDA n : n.vec)
    \o (IF i.num_phi = 0 THEN <<>> ELSE SubSeq(i.phi_stmt.args, i.phi_i + 1, i.num_phi))
DefsLeft(i) == i.defs \o [j \in DOMAIN i.vdefs |-> i.vdefs[j].res]
Remaining(i) ==
    CASE i.iter_type = "use"  -> UsesLeft(i)
      [] i.iter_type = "def"  -> DefsLeft(i)
      [] i.iter_type = "tree" -> Vals(UsesLeft(i) \o DefsLeft(i))
      [] i.iter_type = "vdef" -> [j \in DOMAIN i.mayuses |->
                                    [use |-> i.mayuses[j].vec, def |-> i.mayuses[j].res]]
      [] OTHER -> <<>>

\* The loop's pending operands: the value in hand, if the walk is not over,
\* and what the iterator still holds.
Walk == INSTANCE OperandWalk
            WITH Calls <- LegalCalls, call <- <<kind, stmt, flags>>,
                 pending <- IF pc = "loop" /\ ~it.done
                            THEN <<cur>> \o Remaining(it) ELSE <<>>,
                 wpc <- pc

\* Every FOR_EACH_SSA_* loop, of every kind and with every flag set the
\* init routines' asserts admit, is handed each operand the flags select
\* exactly once and in operand order, and ends: the iterator (with its
\* vuse_index / mayuse_index resets, its list order and its PHI counter)
\* implements OperandWalk.
ImplementsOperandWalk == Walk!Spec

\* When a walk ends, the queries that run their own iterator agree with
\* it: num_ssa_operands counts what a tree walk handed out,
\* zero_ssa_operands and single_ssa_*_operand say whether it handed out
\* none or exactly one, single_phi_def returns the PHI result a def walk
\* handed out, and compare_ssa_operands_equal, in either argument order
\* and against the NULL statement, holds exactly when the other
\* statement's operand values are the same sequence.
QueriesAgree ==
    pc = "loop" /\ it.done =>
        LET single(null) == IF Len(out) = 1 THEN out[1] ELSE null
            treeOf(s2) == IF s2.id = NoStmt.id THEN <<>> ELSE Selected("tree", s2, flags)
        IN
        CASE kind = "tree" ->
               /\ num_ssa_operands(stmt, flags) = Len(out)
               /\ zero_ssa_operands(stmt, flags) = (out = <<>>)
               /\ single_ssa_tree_operand(stmt, flags) = single(NullTree)
               /\ \A s2 \in Stmts \cup {NoStmt} :
                     /\ compare_ssa_operands_equal(stmt, s2, flags) = (out = treeOf(s2))
                     /\ compare_ssa_operands_equal(s2, stmt, flags) = (out = treeOf(s2))
          [] kind = "use"    -> single_ssa_use_operand(stmt, flags) = single(NullOp)
          [] kind = "def"    -> single_ssa_def_operand(stmt, flags) = single(NullOp)
          [] kind = "phidef" -> single_phi_def(stmt, flags) =
                                  IF out = <<>> THEN NullTree ELSE out[1].v
          [] OTHER -> TRUE
=============================================================================
