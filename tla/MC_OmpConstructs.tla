------------------------- MODULE MC_OmpConstructs --------------------------
(* Inputs for the OpenMP construct builders.  Integer types are 2 or 3    *)
(* bits wide; expressions are built to depth 2 from the iteration         *)
(* variable, the variable n and the constant 1 of each type.              *)
EXTENDS OmpConstructs

S2 == [kind |-> "int", prec |-> 2, signed |-> TRUE]
U2 == [kind |-> "int", prec |-> 2, signed |-> FALSE]
S3 == [kind |-> "int", prec |-> 3, signed |-> TRUE]
U3 == [kind |-> "int", prec |-> 3, signed |-> FALSE]
P2 == [kind |-> "ptr", prec |-> 2, signed |-> FALSE]
P3 == [kind |-> "ptr", prec |-> 3, signed |-> FALSE]
F2 == [kind |-> "float", prec |-> 2, signed |-> TRUE]

DeclOf(nm, T) == [op |-> "decl", name |-> nm, type |-> T]
PostInc(d) == [op |-> "postincrement", a |-> d, b |-> Cst(1, d.type)]
Loop(d, init, initial, cond, incr) ==
    [decl |-> d, init |-> init, initial |-> initial, cond |-> cond, incr |-> incr]
Assign(d, v) == ModifyExpr(d, v)
Cond(code, a, b) == [code |-> code, a |-> a, b |-> b]

-----------------------------------------------------------------------------
(* Controlling predicates: every comparison code, with the iteration      *)
(* variable (possibly widened) on either side, or on neither.             *)

NT1 == U3

CondShapes(d) ==
    LET T  == d.type
        BD == {Cst(MinValue(T), T), Cst(MaxValue(T), T), Cst(0, T), Nop(T, Var(NT1))}
        BN == {Var(NT1), Cst(0, NT1), Cst(MaxValue(NT1), NT1)}
        wd == Nop(NT1, d)
    IN  {<<d, b>> : b \in BD} \cup {<<b, d>> : b \in BD}
        \cup {<<wd, b>> : b \in BN} \cup {<<b, wd>> : b \in BN}
        \cup {<<d, d>>, <<Nop(T, Var(NT1)), Cst(0, T)>>}

CondInputs ==
    UNION {{<<Loop(d, Assign(d, Cst(0, d.type)), NullTree, c, PostInc(d))>> :
             c \in {Cond(code, s[1], s[2]) : code \in {"lt", "le", "gt", "ge", "ne", "eq"},
                                             s \in CondShapes(d)} \cup {NullTree}} :
           d \in {DeclOf("i", T) : T \in {S2, U2, P2, F2}}}

-----------------------------------------------------------------------------
(* Increments: i++ style on an integer and a pointer variable, and        *)
(* i = e for every expression e of depth 2.                               *)

NT2 == S2
IncrTypes == {S3, NT2}

E0(d, T) == {Cst(1, T)} \cup (IF T = d.type THEN {d} ELSE {Var(T)})

E1(d, T) ==
    E0(d, T) \cup {Bin(o, T, a, b) : o \in {"plus", "minus", "mult"}, a, b \in E0(d, T)}
    \cup UNION {{Nop(T, a) : a \in E0(d, U)} : U \in IncrTypes \ {T}}

E2(d) ==
    LET T == d.type
    IN  E1(d, T) \cup {Bin(o, T, a, b) : o \in {"plus", "minus", "mult"}, a, b \in E1(d, T)}
        \cup UNION {{Nop(T, a) : a \in E1(d, U)} : U \in IncrTypes \ {T}}

IncrLoop(d, incr) ==
    <<Loop(d, Assign(d, Cst(0, d.type)), NullTree, Cond("lt", d, Nop(d.type, Var(NT2))), incr)>>

IncrInputs ==
    LET i == DeclOf("i", S3)
        p == DeclOf("p", P3)
    IN  {IncrLoop(i, [op |-> "modify", a |-> i, b |-> e]) : e \in E2(i)}
        \cup {IncrLoop(v, [op |-> o, a |-> v, b |-> Cst(2, v.type)]) : o \in IncDec, v \in {i, p}}
        \cup {IncrLoop(i, [op |-> "postincrement", a |-> Var(S3), b |-> Cst(1, S3)]),
              IncrLoop(i, [op |-> "modify", a |-> Var(S3), b |-> i]), IncrLoop(i, NullTree)}

-----------------------------------------------------------------------------
(* collapse(2): each loop valid or broken in one way.                     *)

Variants(d) ==
    LET T == d.type
        c == Cond("lt", d, Nop(T, Var(NT2)))
    IN  {Loop(d, Assign(d, Cst(0, T)), NullTree, c, PostInc(d)),
         Loop(d, d, Cst(1, T), c, PostInc(d)),
         Loop(d, d, NullTree, c, PostInc(d)),
         Loop(d, Assign(d, Cst(0, T)), NullTree, NullTree, PostInc(d)),
         Loop(d, Assign(d, Cst(0, T)), NullTree, Cond("eq", d, Cst(0, T)), PostInc(d)),
         Loop(d, Assign(d, Cst(0, T)), NullTree, c, NullTree)}

CollapseInputs ==
    {<<l1, l2>> : l1 \in Variants(DeclOf("i", S3)), l2 \in Variants(DeclOf("j", S3))}
    \cup {<<Loop(DeclOf("x", F2), Assign(DeclOf("x", F2), Cst(0, F2)), NullTree,
                 Cond("lt", DeclOf("x", F2), Cst(1, F2)), PostInc(DeclOf("x", F2)))>>}

MCForInputs == CondInputs \cup IncrInputs \cup CollapseInputs

-----------------------------------------------------------------------------

MCAtomicInputs ==
    {[code |-> "plus", lhs |-> lhs, rhs |-> [err |-> re], modifyErr |-> me] :
       lhs \in {[err |-> le, type |-> T, place |-> pl] :
                  le \in BOOLEAN, T \in {S2, P2, F2, [kind |-> "complex", prec |-> 2, signed |-> TRUE]},
                  pl \in {"var", "elt", "const_elt", "bitfield"}},
       re \in BOOLEAN, me \in BOOLEAN}

MCDecls == {[readonly |-> r] : r \in BOOLEAN}

-----------------------------------------------------------------------------
(* Clause lists: every order of every subset of three clauses, each with  *)
(* two parallel and two work-sharing codes to choose from.                *)

CONSTANTS Cl1, Cl2, Cl3

SE == INSTANCE SequencesExt

MCClauses == {Cl1, Cl2, Cl3}

MCClauseInputs ==
    {[code |-> f, list |-> s] :
       f \in [MCClauses -> {"private", "reduction", "schedule", "collapse"}],
       s \in UNION {SE!SetToSeqs(S) : S \in SUBSET MCClauses}}
====
