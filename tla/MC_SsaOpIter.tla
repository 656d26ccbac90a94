---------------------------- MODULE MC_SsaOpIter ----------------------------
(* Four statements and two PHIs whose operand lists exercise every branch *)
(* of the iterator: VUSE nodes with vectors of one and two operands,      *)
(* VDEFs whose may-use vectors have one and two, a statement with no      *)
(* operands, a register PHI and a virtual PHI.  Two statements share the  *)
(* values of their real uses, and one's uses are a proper prefix of       *)
(* another's, so compare_ssa_operands_equal meets equal, prefix and       *)
(* different operand sequences.                                           *)
EXTENDS SsaOpIter

Op(id, k, v) == [p |-> <<id, k>>, v |-> [name |-> v]]
VDef(id, k, res, vec) == [res |-> Op(id, k, res), vec |-> vec]

Assign(id, d, u, vu, vd) ==
    [id |-> id, phi |-> FALSE, defs |-> d, uses |-> u, vuses |-> vu,
     vdefs |-> vd, res |-> NullOp, reg |-> FALSE, args |-> <<>>]
Phi(id, res, reg, args) ==
    [id |-> id, phi |-> TRUE, defs |-> <<>>, uses |-> <<>>, vuses |-> <<>>,
     vdefs |-> <<>>, res |-> Op(id, 0, res), reg |-> reg, args |-> args]

S1 == Assign("s1", <<Op("s1", 1, "a1")>>,
             <<Op("s1", 2, "b"), Op("s1", 3, "c")>>,
             <<<<Op("s1", 4, "m1"), Op("s1", 5, "m2")>>, <<Op("s1", 6, "m3")>>>>,
             <<VDef("s1", 7, "m4", <<Op("s1", 8, "m1"), Op("s1", 9, "m2")>>)>>)
S2 == Assign("s2", <<>>, <<Op("s2", 1, "b")>>, <<>>,
             <<VDef("s2", 2, "m5", <<Op("s2", 3, "m1")>>),
               VDef("s2", 4, "m6", <<Op("s2", 5, "m2"), Op("s2", 6, "m3")>>)>>)
S3 == Assign("s3", <<Op("s3", 1, "a2")>>,
             <<Op("s3", 2, "b"), Op("s3", 3, "c")>>, <<>>, <<>>)
S4 == Assign("s4", <<>>, <<>>, <<>>, <<>>)
P1 == Phi("p1", "a3", TRUE, <<Op("p1", 1, "b"), Op("p1", 2, "c")>>)
P2 == Phi("p2", "m7", FALSE, <<Op("p2", 1, "m1"), Op("p2", 2, "m4")>>)

MCStmts == {S1, S2, S3, S4, P1, P2}
MCNoStmt == Assign("NULL", <<>>, <<>>, <<>>, <<>>)
====
