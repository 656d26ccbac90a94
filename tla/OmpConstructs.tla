--------------------------- MODULE OmpConstructs ---------------------------
(***************************************************************************)
(* c-omp.c: the routines the C front end calls to build OpenMP constructs. *)
(* Most add one node to the statement list (add_stmt); c_finish_omp_for    *)
(* first validates and canonicalises every collapsed loop of a             *)
(* "#pragma omp for", and c_finish_omp_atomic takes its lvalue apart.      *)
(*                                                                         *)
(* Trees are records.  An expression node has an op, a type and operands; *)
(* a type has a kind ("int", "ptr" or "float"), a precision and a          *)
(* signedness, and the integer types are narrow (2 or 3 bits) so that     *)
(* every value of a type can be enumerated.  A value is the mathematical   *)
(* integer in the type's range; arithmetic and conversions wrap into it.   *)
(* fold_convert and fold_build2 are modelled by the node they build, with  *)
(* constant operands folded to a constant; the rest of fold's rewrites     *)
(* keep the value and are left out.                                        *)
(***************************************************************************)
EXTENDS Integers, Sequences, FiniteSets

CONSTANTS
    NType,         \* a type whose values, converted, are every value n may hold
    ForInputs,     \* the DECLV/INITV/CONDV/INCRV vectors c_finish_omp_for gets
    AtomicInputs,  \* the (lhs, rhs) pairs c_finish_omp_atomic gets
    Bodies,        \* structured blocks
    CriticalNames, \* identifiers of "#pragma omp critical (name)"
    Decls,         \* declarations c_omp_predetermined_sharing is asked about
    ClauseInputs,  \* the clause lists c_split_parallel_clauses gets
    Nowait,        \* the OMP_CLAUSE_NOWAIT node it builds
    NullClause,    \* the NULL that ends a clause chain
    NoName,        \* a critical construct without a name
    NoStmt,        \* nothing added yet
    MaxCalls       \* routine calls in one behaviour

VARIABLES
    last,    \* the node most recently passed to add_stmt
    result,  \* what the last routine returned
    input,   \* the arguments of the last routine
    calls    \* routines called so far

ovars == <<last, result, input, calls>>

-----------------------------------------------------------------------------
(* Types, values and trees.                                                *)

Range(T) == IF T.signed THEN -(2^(T.prec - 1))..(2^(T.prec - 1) - 1)
            ELSE 0..(2^T.prec - 1)

\* The value v converted to integer or pointer type T: reduced modulo
\* 2^prec into T's range (sign or zero extension when widening).
Wrap(v, T) ==
    LET m == v % (2^T.prec)
    IN  IF T.signed /\ m >= 2^(T.prec - 1) THEN m - 2^T.prec ELSE m

MinValue(T) == IF T.signed THEN -(2^(T.prec - 1)) ELSE 0
MaxValue(T) == IF T.signed THEN 2^(T.prec - 1) - 1 ELSE 2^T.prec - 1

Cst(v, T)       == [op |-> "cst", val |-> v, type |-> T]
Var(T)          == [op |-> "var", type |-> T]
Nop(T, a)       == [op |-> "nop", type |-> T, a |-> a]
Bin(o, T, a, b) == [op |-> o, type |-> T, a |-> a, b |-> b]
error_mark_node == [op |-> "error_mark"]

ApplyOp(o, x, y) ==
    CASE o \in {"plus", "pointer_plus"} -> x + y
      [] o = "minus"                     -> x - y
      [] o = "mult"                      -> x * y

\* fold_convert / fold_build1 (NOP_EXPR): a constant is converted, a value
\* already of type T is returned as it is, anything else gets a NOP_EXPR.
FoldConvert(T, e) ==
    IF e.op = "cst" THEN Cst(Wrap(e.val, T), T)
    ELSE IF e.type = T THEN e ELSE Nop(T, e)

\* fold_build2 with constant folding.
FoldBuild2(o, T, a, b) ==
    IF a.op = "cst" /\ b.op = "cst"
    THEN Cst(Wrap(ApplyOp(o, a.val, b.val), T), T)
    ELSE Bin(o, T, a, b)

\* The value of expression e when the iteration variable holds dv and the
\* variable n holds nv, converted to the type it is read at.
RECURSIVE Eval(_, _, _)
Eval(e, dv, nv) ==
    CASE e.op = "decl" -> dv
      [] e.op = "var"  -> Wrap(nv, e.type)
      [] e.op = "cst"  -> e.val
      [] e.op = "nop"  -> Wrap(Eval(e.a, dv, nv), e.type)
      [] OTHER         -> Wrap(ApplyOp(e.op, Eval(e.a, dv, nv),
                                             Eval(e.b, dv, nv)), e.type)

-----------------------------------------------------------------------------
(* check_omp_for_incr_expr.                                                *)

\* Mutant: the precision test dropped, so a narrowing conversion of the
\* iteration variable is taken apart.
RECURSIVE IncrExprNoPrecision(_, _)
IncrExprNoPrecision(exp, decl) ==
    IF exp.type.kind # "int" THEN error_mark_node
    ELSE IF exp = decl THEN Cst(0, exp.type)
    ELSE CASE exp.op = "nop" ->
                LET t == IncrExprNoPrecision(exp.a, decl)
                IN  IF t # error_mark_node THEN FoldConvert(exp.type, t)
                    ELSE error_mark_node
           [] exp.op = "minus" ->
                LET t == IncrExprNoPrecision(exp.a, decl)
                IN  IF t # error_mark_node THEN FoldBuild2("minus", exp.type, t, exp.b)
                    ELSE error_mark_node
           [] exp.op = "plus" ->
                LET t1 == IncrExprNoPrecision(exp.a, decl)
                    t2 == IncrExprNoPrecision(exp.b, decl)
                IN  IF t1 # error_mark_node
                    THEN FoldBuild2("plus", exp.type, t1, exp.b)
                    ELSE IF t2 # error_mark_node
                    THEN FoldBuild2("plus", exp.type, exp.a, t2)
                    ELSE error_mark_node
           [] OTHER -> error_mark_node

\* EXP, an expression of the value assigned to DECL, as DECL + t: t, or
\* error_mark_node.  DECL may sit, through conversions that do not narrow
\* and through PLUS and MINUS (left operand only for MINUS), at one leaf.
RECURSIVE check_omp_for_incr_expr(_, _)
check_omp_for_incr_expr(exp, decl) ==
    IF exp.type.kind # "int" \/ exp.type.prec < decl.type.prec
    THEN error_mark_node
    ELSE IF exp = decl THEN Cst(0, exp.type)
    ELSE CASE exp.op = "nop" ->
                LET t == check_omp_for_incr_expr(exp.a, decl)
                IN  IF t # error_mark_node THEN FoldConvert(exp.type, t)
                    ELSE error_mark_node
           [] exp.op = "minus" ->
                LET t == check_omp_for_incr_expr(exp.a, decl)
                IN  IF t # error_mark_node THEN FoldBuild2("minus", exp.type, t, exp.b)
                    ELSE error_mark_node
           [] exp.op = "plus" ->
                LET t1 == check_omp_for_incr_expr(exp.a, decl)
                    t2 == check_omp_for_incr_expr(exp.b, decl)
                IN  IF t1 # error_mark_node
                    THEN FoldBuild2("plus", exp.type, t1, exp.b)
                    ELSE IF t2 # error_mark_node
                    THEN FoldBuild2("plus", exp.type, exp.a, t2)
                    ELSE error_mark_node
           [] OTHER -> error_mark_node

-----------------------------------------------------------------------------
(* c_finish_omp_for.                                                       *)

NullTree == [op |-> "null"]

\* build_modify_expr (decl = v): v converted to the type of decl.
ModifyExpr(decl, v) == [op |-> "modify", a |-> decl, b |-> FoldConvert(decl.type, v)]

\* The INIT of one loop: "for (int i = v; ...)" passes the decl itself,
\* whose DECL_INITIAL becomes the assignment; a missing one is an error
\* and 0 is used.
InitOf(l) ==
    IF l.init = l.decl
    THEN [fail |-> l.initial = NullTree,
          init |-> ModifyExpr(l.decl, IF l.initial = NullTree
                                      THEN Cst(0, l.decl.type) ELSE l.initial)]
    ELSE [fail |-> FALSE, init |-> l.init]

swap_tree_comparison(code) ==
    CASE code = "lt" -> "gt" [] code = "gt" -> "lt"
      [] code = "le" -> "ge" [] code = "ge" -> "le"
      [] code = "ne" -> "ne"

\* 2.5.1: the comparison is made in the type of DECL: a NOP_EXPR widening
\* DECL on one side is removed and the other side converted instead.
StripNop(c, decl) ==
    IF c.a.op = "nop" /\ c.a.a = decl
    THEN [c EXCEPT !.a = decl, !.b = FoldConvert(decl.type, c.b)]
    ELSE IF c.b.op = "nop" /\ c.b.a = decl
    THEN [c EXCEPT !.b = decl, !.a = FoldConvert(decl.type, c.a)]
    ELSE c

\* Mutant: DECL moved to the left without swapping the comparison.
OrientNoSwap(c, decl) ==
    IF c.a = decl THEN [ok |-> TRUE, cond |-> c]
    ELSE IF c.b = decl THEN [ok |-> TRUE, cond |-> [c EXCEPT !.a = decl, !.b = c.a]]
    ELSE [ok |-> FALSE, cond |-> c]

\* DECL on the left of the comparison, swapping it if DECL was on the right.
Orient(c, decl) ==
    IF c.a = decl THEN [ok |-> TRUE, cond |-> c]
    ELSE IF c.b = decl
    THEN [ok |-> TRUE,
          cond |-> [c EXCEPT !.code = swap_tree_comparison(c.code),
                             !.a = decl, !.b = c.a]]
    ELSE [ok |-> FALSE, cond |-> c]

\* operand_equal_p (x, TYPE_MIN_VALUE / TYPE_MAX_VALUE (T)).
IsCstOf(x, v, T) == x.op = "cst" /\ x.val = v /\ x.type.signed = T.signed

\* NE_EXPR is accepted only against the minimum (becoming GT_EXPR) or the
\* maximum (becoming LT_EXPR) of an integral DECL's type.
NeCanon(r, decl) ==
    LET T == decl.type IN
    IF r.cond.code # "ne" THEN r
    ELSE IF T.kind # "int" THEN [r EXCEPT !.ok = FALSE]
    ELSE IF IsCstOf(r.cond.b, MinValue(T), T) THEN [r EXCEPT !.cond.code = "gt"]
    ELSE IF IsCstOf(r.cond.b, MaxValue(T), T) THEN [r EXCEPT !.cond.code = "lt"]
    ELSE [r EXCEPT !.ok = FALSE]

\* The controlling predicate: [ok, cond] with cond in canonical form.
CondCheck(cond, decl) ==
    IF cond = NullTree \/ cond.code \notin {"lt", "le", "gt", "ge", "ne"}
    THEN [ok |-> FALSE, cond |-> cond]
    ELSE NeCanon(Orient(StripNop(cond, decl), decl), decl)

IncDec == {"preincrement", "postincrement", "predecrement", "postdecrement"}
Decrements == {"predecrement", "postdecrement"}

\* sizetype for a pointer of type T.
SizeType(T) == [kind |-> "int", prec |-> T.prec, signed |-> FALSE]

\* The increment: [ok, incr], v++ / v-- on a pointer rewritten as
\* v = v p+ size and v = e (other than v + x, x + v, v - x, v p+ x) as
\* v = v + t when check_omp_for_incr_expr finds one.
IncrCheck(incr, decl) ==
    IF incr = NullTree THEN [ok |-> FALSE, incr |-> incr]
    ELSE CASE incr.op \in IncDec ->
                IF incr.a # decl THEN [ok |-> FALSE, incr |-> incr]
                ELSE IF decl.type.kind = "ptr" /\ incr.b # NullTree
                THEN LET t0 == FoldConvert(SizeType(decl.type), incr.b)
                         t  == IF incr.op \in Decrements
                               THEN Cst(Wrap(-t0.val, t0.type), t0.type) ELSE t0
                     IN  [ok |-> TRUE,
                          incr |-> [op |-> "modify", a |-> decl,
                                    b |-> Bin("pointer_plus", decl.type, decl, t)]]
                ELSE [ok |-> TRUE, incr |-> incr]
           [] incr.op = "modify" ->
                IF incr.a # decl \/ incr.b = decl THEN [ok |-> FALSE, incr |-> incr]
                ELSE IF incr.b.op = "plus" /\ (incr.b.a = decl \/ incr.b.b = decl)
                THEN [ok |-> TRUE, incr |-> incr]
                ELSE IF incr.b.op \in {"minus", "pointer_plus"} /\ incr.b.a = decl
                THEN [ok |-> TRUE, incr |-> incr]
                ELSE LET t == check_omp_for_incr_expr(incr.b, decl)
                     IN  IF t = error_mark_node THEN [ok |-> FALSE, incr |-> incr]
                         ELSE [ok |-> TRUE,
                               incr |-> [op |-> "modify", a |-> decl,
                                         b |-> Bin("plus", decl.type, decl, t)]]
           [] OTHER -> [ok |-> FALSE, incr |-> incr]

\* One iteration of the loop over the collapsed loops: every check runs,
\* each failure sets fail.
ForLoop(l) ==
    LET i == InitOf(l)
        c == CondCheck(l.cond, l.decl)
        n == IncrCheck(l.incr, l.decl)
    IN  [fail |-> l.decl.type.kind \notin {"int", "ptr"} \/ i.fail \/ ~c.ok \/ ~n.ok,
         init |-> i.init, cond |-> c.cond, incr |-> n.incr]

\* Mutant: fail assigned by each loop instead of accumulated.
ForFailOfLastLoop(loops) ==
    LET r == [k \in DOMAIN loops |-> ForLoop(loops[k])]
    IN  IF r[Len(loops)].fail THEN NullTree
        ELSE [op |-> "omp_for", init |-> [k \in DOMAIN r |-> r[k].init],
              cond |-> [k \in DOMAIN r |-> r[k].cond],
              incr |-> [k \in DOMAIN r |-> r[k].incr]]

\* The OMP_FOR node, or NULL if any loop failed a check.
c_finish_omp_for(loops) ==
    LET r == [k \in DOMAIN loops |-> ForLoop(loops[k])]
    IN  IF \E k \in DOMAIN r : r[k].fail THEN NullTree
        ELSE [op |-> "omp_for", init |-> [k \in DOMAIN r |-> r[k].init],
              cond |-> [k \in DOMAIN r |-> r[k].cond],
              incr |-> [k \in DOMAIN r |-> r[k].incr]]
-----------------------------------------------------------------------------
(* c_finish_omp_atomic and c_omp_predetermined_sharing.                    *)

\* The address of the lvalue after save_expr: the ADDR_EXPR itself when it
\* is invariant (a variable, or an element at a constant index), else a
\* SAVE_EXPR; anything but a SAVE_EXPR or the address of a VAR_DECL is
\* wrapped in a TARGET_EXPR temporary so goa_lhs_expr_p recognises it.
AtomicAddr(lhs) ==
    LET saved == IF lhs.place = "elt" THEN "save_expr"
                 ELSE IF lhs.place = "var" THEN "addr_var" ELSE "addr_elt"
    IN  IF saved \in {"save_expr", "addr_var"} THEN saved ELSE "target_expr"

\* LHS code= RHS as an OMP_ATOMIC node, or error_mark_node.  The address of
\* a bit-field cannot be taken; build_modify_expr may reject code on LHS.
c_finish_omp_atomic(a) ==
    IF a.lhs.err \/ a.rhs.err THEN error_mark_node
    ELSE IF a.lhs.type.kind \notin {"int", "ptr", "float"} THEN error_mark_node
    ELSE IF a.lhs.place = "bitfield" THEN error_mark_node
    ELSE IF a.modifyErr THEN error_mark_node
    ELSE [op |-> "omp_atomic", addr |-> AtomicAddr(a.lhs), code |-> a.code]

\* Variables with const-qualified type are predetermined shared.
c_omp_predetermined_sharing(decl) ==
    [sharing |-> IF decl.readonly THEN "OMP_CLAUSE_DEFAULT_SHARED"
                 ELSE "OMP_CLAUSE_DEFAULT_UNSPECIFIED"]

-----------------------------------------------------------------------------
(* c_split_parallel_clauses.  An input is a clause list (a sequence of     *)
(* clause nodes) with the OMP_CLAUSE_CODE of each clause.                  *)

\* The codes the switch routes; any other is gcc_unreachable.
ParCodes == {"private", "shared", "firstprivate", "lastprivate", "reduction",
             "copyin", "if", "num_threads", "default"}
WsCodes  == {"schedule", "ordered", "collapse"}

\* The list linked through OMP_CLAUSE_CHAIN; the new nowait clause's chain
\* is NULL.
Linked(s) ==
    [n \in {s[i] : i \in DOMAIN s} \cup {Nowait} |->
       IF n = Nowait \/ n = s[Len(s)] THEN NullClause
       ELSE s[(CHOOSE i \in DOMAIN s : s[i] = n) + 1]]

\* Mutant: next read from the chain after the clause was relinked.
RECURSIVE SplitNextAfterRelink(_, _, _, _, _, _)
SplitNextAfterRelink(code, cl, chain, par, ws, k) ==
    IF cl = NullClause THEN [done |-> TRUE, chain |-> chain, par |-> par, ws |-> ws]
    ELSE IF k = 0 THEN [done |-> FALSE]
    ELSE CASE code[cl] \in ParCodes ->
                LET ch == [chain EXCEPT ![cl] = par]
                IN  SplitNextAfterRelink(code, ch[cl], ch, cl, ws, k - 1)
           [] code[cl] \in WsCodes ->
                LET ch == [chain EXCEPT ![cl] = ws]
                IN  SplitNextAfterRelink(code, ch[cl], ch, par, cl, k - 1)
           [] OTHER -> [done |-> FALSE]

\* The for loop from clause cl on: next = OMP_CLAUSE_CHAIN (cl), cl pushed
\* on the front of the list its code belongs to, then cl = next.  k bounds
\* the iterations; one per input clause is enough for the loop as written.
\* done is FALSE when the loop would not end or reaches gcc_unreachable.
RECURSIVE SplitLoop(_, _, _, _, _, _)
SplitLoop(code, cl, chain, par, ws, k) ==
    IF cl = NullClause THEN [done |-> TRUE, chain |-> chain, par |-> par, ws |-> ws]
    ELSE IF k = 0 THEN [done |-> FALSE]
    ELSE LET next == chain[cl]
         IN  CASE code[cl] \in ParCodes ->
                    SplitLoop(code, next, [chain EXCEPT ![cl] = par], cl, ws, k - 1)
               [] code[cl] \in WsCodes ->
                    SplitLoop(code, next, [chain EXCEPT ![cl] = ws], par, cl, k - 1)
               [] OTHER -> [done |-> FALSE]

\* *par_clauses = NULL, *ws_clauses = a new nowait clause, then the loop.
c_split_parallel_clauses(in) ==
    LET code == [n \in DOMAIN in.code \cup {Nowait} |->
                   IF n = Nowait THEN "nowait" ELSE in.code[n]]
    IN  SplitLoop(code, IF in.list = <<>> THEN NullClause ELSE in.list[1],
                  Linked(in.list), NullClause, Nowait, Len(in.list) + 1)

-----------------------------------------------------------------------------
(* The routines.                                                           *)

Init == last = NoStmt /\ result = NoStmt /\ input = NoStmt /\ calls = 0

\* add_stmt (t): t goes to the statement list and is returned.
AddStmt(t, in) == last' = t.op /\ result' = t /\ input' = in

c_finish_omp_master(b)   == AddStmt([op |-> "omp_master", body |-> b], b)
c_finish_omp_ordered(b)  == AddStmt([op |-> "omp_ordered", body |-> b], b)
c_finish_omp_critical(b, nm) ==
    AddStmt([op |-> "omp_critical", body |-> b, name |-> nm], <<b, nm>>)
c_finish_omp_barrier  == AddStmt([op |-> "call", fn |-> "GOMP_barrier"], NoStmt)
c_finish_omp_taskwait == AddStmt([op |-> "call", fn |-> "GOMP_taskwait"], NoStmt)
c_finish_omp_flush    == AddStmt([op |-> "call", fn |-> "__sync_synchronize"], NoStmt)

\* c_finish_omp_for adds the OMP_FOR only when every loop passed.
For(loops) ==
    LET t == c_finish_omp_for(loops)
    IN  IF t = NullTree THEN result' = t /\ input' = loops /\ UNCHANGED last
        ELSE AddStmt(t, loops)

\* The atomic node is returned for the caller to add.
Atomic(a) == result' = c_finish_omp_atomic(a) /\ input' = a /\ UNCHANGED last

Predetermined(d) ==
    result' = c_omp_predetermined_sharing(d) /\ input' = d /\ UNCHANGED last

\* The two lists are returned through par_clauses and ws_clauses.
SplitParallel(in) ==
    /\ result' = [op |-> "split", out |-> c_split_parallel_clauses(in)]
    /\ input' = in
    /\ UNCHANGED last

\* No routine reads what an earlier one left (add_stmt only appends), so a
\* short sequence of calls reaches every result; MaxCalls bounds it.
Call ==
    \/ \E b \in Bodies : c_finish_omp_master(b) \/ c_finish_omp_ordered(b)
    \/ \E b \in Bodies, nm \in CriticalNames \cup {NoName} : c_finish_omp_critical(b, nm)
    \/ c_finish_omp_barrier \/ c_finish_omp_taskwait \/ c_finish_omp_flush
    \/ \E loops \in ForInputs : For(loops)
    \/ \E a \in AtomicInputs : Atomic(a)
    \/ \E d \in Decls : Predetermined(d)
    \/ \E in \in ClauseInputs : SplitParallel(in)

\* The front end has made its calls.
Finished == calls = MaxCalls /\ UNCHANGED ovars

Next == (calls < MaxCalls /\ calls' = calls + 1 /\ Call) \/ Finished

Spec == Init /\ [][Next]_ovars

-----------------------------------------------------------------------------
(* Properties of the OMP_FOR built from the loops in input.                *)

Built == result # NoStmt /\ "op" \in DOMAIN result /\ result.op = "omp_for"

Cmp(code, x, y) ==
    CASE code = "lt" -> x < y [] code = "le" -> x <= y
      [] code = "gt" -> x > y [] code = "ge" -> x >= y
      [] code = "ne" -> x # y

IsDeclSide(e, decl) == e = decl \/ (e.op = "nop" /\ e.a = decl)

\* OpenMP 2.5.1 computes the loop test in the type of the iteration
\* variable: the source comparison with its bound converted to that type.
RefCond(c, decl, dv, nv) ==
    IF IsDeclSide(c.a, decl)
    THEN Cmp(c.code, dv, Wrap(Eval(c.b, dv, nv), decl.type))
    ELSE Cmp(c.code, Wrap(Eval(c.a, dv, nv), decl.type), dv)

\* Every OMP_FOR c_finish_omp_for builds has, for each collapsed loop, a
\* test "decl OP bound" with OP one of < <= > >= that holds for exactly
\* the values of the iteration variable (and of n) the source test holds
\* for when computed in the variable's type: the NOP_EXPR stripping, the
\* swap of operands and the rewriting of != as > MIN or < MAX preserve it.
ForCondPreserved ==
    Built =>
      \A k \in DOMAIN input :
        LET decl == input[k].decl
            c    == result.cond[k]
        IN  /\ c # NullTree
            /\ c.code \in {"lt", "le", "gt", "ge"}
            /\ c.a = decl
            /\ \A dv \in Range(decl.type), nv \in Range(NType) :
                  Cmp(c.code, dv, Eval(c.b, dv, nv)) = RefCond(input[k].cond, decl, dv, nv)

\* The value the iteration variable receives from an increment.
NewValue(incr, dv, nv, T) ==
    CASE incr.op \in {"preincrement", "postincrement"} -> Wrap(dv + Eval(incr.b, dv, nv), T)
      [] incr.op \in Decrements -> Wrap(dv - Eval(incr.b, dv, nv), T)
      [] incr.op = "modify" -> Wrap(Eval(incr.b, dv, nv), T)

\* Every OMP_FOR built has, for each collapsed loop, an increment that
\* assigns the iteration variable, in the form decl = decl +/- step the
\* rewritings produce, the value the source increment assigns, for every
\* value of the variable and of n (check_omp_for_incr_expr's rewriting of
\* v = e as v = v + t included).
ForIncrPreserved ==
    Built =>
      \A k \in DOMAIN input :
        LET decl == input[k].decl
            n    == result.incr[k]
        IN  /\ n # NullTree
            /\ n.a = decl
            /\ \A dv \in Range(decl.type), nv \in Range(NType) :
                  NewValue(n, dv, nv, decl.type) = NewValue(input[k].incr, dv, nv, decl.type)

\* The increment is loop invariant, as "v = v + incr" in the comment above
\* the checks and OpenMP's canonical loop form require: what an accepted
\* increment adds to the iteration variable does not depend on its value.
ForStepInvariant ==
    Built =>
      \A k \in DOMAIN input :
        LET T == input[k].decl.type
            n == result.incr[k]
        IN  \A nv \in Range(NType), d1, d2 \in Range(T) :
              Wrap(NewValue(n, d1, nv, T) - d1, T) = Wrap(NewValue(n, d2, nv, T) - d2, T)
-----------------------------------------------------------------------------
(* Properties of the clause lists split from the clauses in input.         *)

Split == result # NoStmt /\ "op" \in DOMAIN result /\ result.op = "split"

\* The list from n in chain, followed for at most k links.
RECURSIVE Walk(_, _, _)
Walk(chain, n, k) == IF n = NullClause \/ k = 0 THEN <<>>
                     ELSE <<n>> \o Walk(chain, chain[n], k - 1)

\* The nodes of the list from n: it ends in NULL and visits no node twice.
ListNodes(chain, n) ==
    LET k == Cardinality(DOMAIN chain) + 1
        w == Walk(chain, n, k)
    IN  IF Len(w) < k /\ Cardinality({w[i] : i \in DOMAIN w}) = Len(w)
        THEN {w[i] : i \in DOMAIN w} ELSE {NullClause}

\* When c_split_parallel_clauses returns, *par_clauses and *ws_clauses are
\* NULL-terminated lists, the first of exactly the parallel clauses of the
\* input, the second of exactly its work-sharing clauses and the nowait
\* clause: no clause is lost, duplicated or on both lists, and the loop,
\* which relinks each clause as it goes, ends.
SplitExact ==
    Split =>
      LET r  == result.out
          cs == {input.list[i] : i \in DOMAIN input.list}
      IN  /\ r.done
          /\ ListNodes(r.chain, r.par) = {c \in cs : input.code[c] \in ParCodes}
          /\ ListNodes(r.chain, r.ws) = {c \in cs : input.code[c] \in WsCodes} \cup {Nowait}
====
