--------------------------- MODULE VectorLowering ---------------------------
(***************************************************************************)
(* The statement walk of tree-vect-generic.c: expand_vector_operations    *)
(* visits every statement of a basic block; expand_vector_operations_1    *)
(* keeps a vector operation the target supports and otherwise replaces it *)
(* by pieces, chosen by expand_vector_operation among element-wise        *)
(* (expand_vector_piecewise), word-parallel (expand_vector_parallel) and  *)
(* SWAR (expand_vector_addition with do_plus_minus / do_negate).          *)
(*                                                                         *)
(* A type is a record [elem, n]: n = 0 for a scalar of mode elem, n > 0   *)
(* for a vector of n elements.  An element is [bits, kind].  The target   *)
(* is described by its word size, its largest integer mode, the vector    *)
(* types that have a vector mode, and the optab entries it implements.    *)
(* A statement is [code, type, count, traps]: count says whether rhs2 is  *)
(* a vector ("vector"), a scalar shift count ("scalar") or absent         *)
(* ("none"); traps is TYPE_OVERFLOW_TRAPS of the element type.  Of the    *)
(* statements the lowering emits, only the operations are kept: the       *)
(* BIT_FIELD_REF, VIEW_CONVERT_EXPR and CONSTRUCTOR assignments are       *)
(* single-operand statements the walk never changes; what they read is    *)
(* recorded in the log as extracts.                                       *)
(***************************************************************************)
EXTENDS Integers, Sequences, FiniteSets

CONSTANTS
    WordBits,       \* BITS_PER_WORD (UNITS_PER_WORD * 8)
    MaxFixedBits,   \* MAX_FIXED_MODE_SIZE: the widest integer mode
    CountBits,      \* TYPE_SIZE of a scalar shift count
    HwVectors,      \* the vector types whose mode the target supports
    Supported,      \* <<optab, vector type>> pairs with an insn_code
    Stmts,          \* the statements a block may hold
    MaxLen          \* the number of statements in the block

NoType == [elem |-> [bits |-> 0, kind |-> "none"], n |-> 0]

VARIABLES
    stmts,              \* the statements of the basic block
    gsi,                \* the index of the statement the walk is at
    pc,                 \* "walk" or "done"
    vectorInnerType,    \* vector_inner_type has been set
    vectorLastType,     \* vector_last_type
    vectorLastNunits,   \* vector_last_nunits
    log                 \* one record per lowered statement

vars == <<stmts, gsi, pc, vectorInnerType, vectorLastType, vectorLastNunits,
          log>>

-----------------------------------------------------------------------------
(* Types and target queries.                                               *)

WordElem == [bits |-> WordBits, kind |-> "int"]
Scalar(e) == [elem |-> e, n |-> 0]
IsVector(t) == t.n > 0
Size(t) == t.elem.bits * (IF t.n = 0 THEN 1 ELSE t.n)

\* TYPE_MODE of a vector type, as layout_type gives it: its vector mode if
\* the target supports one, else an integer mode of its size if there is
\* one, else BLKmode.
TypeMode(t) ==
    IF t \in HwVectors THEN "VECTOR"
    ELSE IF Size(t) <= MaxFixedBits THEN "INT" ELSE "BLK"

\* optab_handler (op, TYPE_MODE (t))->insn_code != CODE_FOR_nothing.  The
\* integer modes implement every integer optab; BLKmode implements none.
Handler(op, t) ==
    CASE TypeMode(t) = "VECTOR" -> <<op, t>> \in Supported
      [] TypeMode(t) = "INT"    -> TRUE
      [] OTHER                  -> FALSE

Unary == {"NEGATE_EXPR", "BIT_NOT_EXPR", "NOP_EXPR"}
Binary == {"PLUS_EXPR", "MINUS_EXPR", "MULT_EXPR", "BIT_XOR_EXPR", "LSHIFT_EXPR"}

\* optab_for_tree_code (code, type, optab_default).
DefaultOptab(code) ==
    CASE code = "PLUS_EXPR"    -> "add"
      [] code = "MINUS_EXPR"   -> "sub"
      [] code = "MULT_EXPR"    -> "mul"
      [] code = "NEGATE_EXPR"  -> "neg"
      [] code = "BIT_XOR_EXPR" -> "xor"
      [] code = "BIT_NOT_EXPR" -> "one_cmpl"
      [] OTHER                 -> "none"

\* The optab expand_vector_operations_1 chooses: for a shift, the
\* vector/vector form if rhs2 has a vector mode, else the vector/scalar
\* form unless TYPE_MODE (type) has no handler for it.
OpFor(s) ==
    IF s.code = "LSHIFT_EXPR"
    THEN IF s.count = "vector" /\ TypeMode(s.type) = "VECTOR" THEN "vashl"
         ELSE IF Handler("ashl", s.type) THEN "ashl" ELSE "vashl"
    ELSE DefaultOptab(s.code)

\* Mutant: the optab is not consulted.
TypeForWidestNoOptab(e, op) ==
    LET C == {m \in HwVectors : m.elem = e}
    IN  IF C = {} THEN NoType ELSE CHOOSE m \in C : \A m2 \in C : m2.n <= m.n

\* type_for_widest_vector_mode: the supported vector mode of element e
\* with the most units that implements op, or NULL_TREE.
type_for_widest_vector_mode(e, op) ==
    LET C == {m \in HwVectors : m.elem = e /\ <<op, m>> \in Supported}
    IN  IF C = {} THEN NoType ELSE CHOOSE m \in C : \A m2 \in C : m2.n <= m.n

\* expand_vector_operations_1 reaches the lowering: a unary or binary
\* vector assignment that is not a conversion.
Candidate(s) ==
    /\ s.code \in Unary \cup Binary
    /\ IsVector(s.type)
    /\ s.code # "NOP_EXPR"

\* compute_type: a narrower supported vector type for a BLKmode vector, the
\* type itself, or its element type when there is no instruction for it.
ComputeType(s) ==
    LET wide == type_for_widest_vector_mode(s.type.elem, OpFor(s))
    IN  IF TypeMode(s.type) = "BLK" /\ wide # NoType THEN wide
        ELSE IF TypeMode(s.type) = "VECTOR" /\ Handler(OpFor(s), s.type)
             THEN s.type
             ELSE Scalar(s.type.elem)

\* The statement is replaced (the early return at "return;" not taken).
Lowered(s) == Candidate(s) /\ ComputeType(s) # s.type
-----------------------------------------------------------------------------
(* The expansions.  Each returns [ptype, extracts, ops, result]: the type  *)
(* of a piece, what the pieces read from the operands (opnd "a" is rhs1,   *)
(* "b" rhs2), the operation statements emitted, and the type of the value  *)
(* that replaces the right-hand side.                                     *)

\* Mutant: the cached type returned whatever the number of units.
BuildWordTypeNoKey(nunits) ==
    IF vectorInnerType THEN vectorLastType ELSE [elem |-> WordElem, n |-> nunits]

\* Mutant: the vector built of the vector's element type, not word_mode's.
BuildWordTypeWrongElem(nunits) ==
    IF vectorInnerType /\ vectorLastNunits = nunits THEN vectorLastType
    ELSE [elem |-> [bits |-> WordBits, kind |-> "float"], n |-> nunits]

\* build_word_mode_vector_type: the cached type when the unit count is the
\* cached one (and vector_inner_type is set), else a new vector of nunits
\* word_mode elements.
build_word_mode_vector_type(nunits) ==
    IF vectorInnerType /\ vectorLastNunits = nunits THEN vectorLastType
    ELSE [elem |-> WordElem, n |-> nunits]

\* The operands the element function f reads.  do_negate reads rhs1 (the
\* "b" parameter it is passed is rhs1).
Reads(f) == IF f \in {"binop", "plus_minus"} THEN {"a", "b"} ELSE {"a"}

\* The rhs2 of a piece operation: rhs2 extracted with the piece type.
PieceCount(f, inner) ==
    IF f = "binop" THEN (IF IsVector(inner) THEN "vector" ELSE "scalar")
    ELSE "none"

\* expand_vector_piecewise (f, type, inner_type): pieces of part_width =
\* TYPE_SIZE (inner_type) bits, i stepping by delta units while i < nunits,
\* each operand read by BIT_FIELD_REF at index = k * part_width.
expand_vector_piecewise(s, f, type, inner) ==
    LET pw    == Size(inner)
        delta == pw \div type.elem.bits
        K     == (type.n + delta - 1) \div delta
    IN  [ptype    |-> inner,
         extracts |-> {[opnd |-> o, pos |-> k * pw, size |-> pw] :
                          o \in Reads(f), k \in 0..(K - 1)},
         ops      |-> [k \in 1..K |-> [code |-> s.code, type |-> inner,
                                       count |-> PieceCount(f, inner),
                                       traps |-> s.traps]],
         result   |-> type]

\* The compute type of a vector no wider than a word: the unsigned integer
\* type of mode_for_size (TYPE_SIZE (type), MODE_INT, 0).
ScalarComputeType(type) == Scalar([bits |-> Size(type), kind |-> "int"])

\* expand_vector_parallel: element-wise if the element mode is word_mode;
\* by words, through a vector of n_words word_mode elements, if the vector
\* spans several words; else one scalar operation in an integer mode of
\* the vector's size, the operands reinterpreted whole (bitpos NULL).
expand_vector_parallel(s, f, type) ==
    LET nWords == (Size(type) \div 8) \div (WordBits \div 8)
        wordType == build_word_mode_vector_type(nWords)
        compute == ScalarComputeType(type)
    IN  IF type.elem = WordElem
        THEN expand_vector_piecewise(s, f, type, Scalar(type.elem))
        ELSE IF nWords > 1
        THEN expand_vector_piecewise(s, f, wordType, Scalar(wordType.elem))
        ELSE [ptype    |-> compute,
              extracts |-> {[opnd |-> o, pos |-> 0, size |-> Size(type)] :
                               o \in Reads(f)},
              ops      |-> <<[code |-> s.code, type |-> compute,
                              count |-> PieceCount(f, compute),
                              traps |-> s.traps]>>,
              result   |-> compute]

\* The word-vector type expand_vector_parallel asks for, if it does.
WordNunits(s, f, type) ==
    LET nWords == (Size(type) \div 8) \div (WordBits \div 8)
    IN  IF type.elem # WordElem /\ nWords > 1 THEN nWords ELSE 0

\* expand_vector_addition: SWAR (f_parallel) for integer elements when a
\* word holds at least four of them and the vector has at least four.
SwarApplies(type) ==
    /\ type.elem.kind = "int"
    /\ WordBits \div type.elem.bits >= 4
    /\ type.n >= 4

\* expand_vector_operation: the strategy for the statement and its
\* compute type, as [f, how] with how "parallel" or "piecewise".
Strategy(s, ct) ==
    IF ~IsVector(ct)
    THEN CASE s.code \in {"PLUS_EXPR", "MINUS_EXPR"} /\ ~s.traps ->
                IF SwarApplies(s.type) THEN [f |-> "plus_minus", how |-> "parallel"]
                ELSE [f |-> "binop", how |-> "piecewise"]
           [] s.code = "NEGATE_EXPR" /\ ~s.traps ->
                IF SwarApplies(s.type) THEN [f |-> "negate", how |-> "parallel"]
                ELSE [f |-> "unop", how |-> "piecewise"]
           [] s.code = "BIT_XOR_EXPR" -> [f |-> "binop", how |-> "parallel"]
           [] s.code = "BIT_NOT_EXPR" -> [f |-> "unop", how |-> "parallel"]
           [] OTHER -> [f |-> IF s.code \in Unary THEN "unop" ELSE "binop",
                        how |-> "piecewise"]
    ELSE [f |-> IF s.code \in Unary THEN "unop" ELSE "binop", how |-> "piecewise"]

\* The expansion expand_vector_operation builds.  On the SWAR and scalar
\* paths the element type of the piecewise expansion is the vector's own.
expand_vector_operation(s, ct) ==
    LET st == Strategy(s, ct)
    IN  IF st.how = "parallel" THEN expand_vector_parallel(s, st.f, s.type)
        ELSE IF IsVector(ct) THEN expand_vector_piecewise(s, st.f, s.type, ct)
        ELSE expand_vector_piecewise(s, st.f, s.type, Scalar(s.type.elem))

\* The word-vector units a statement's lowering asks the cache for (0: none).
CacheUse(s) ==
    LET ct == ComputeType(s)
        st == Strategy(s, ct)
    IN  IF st.how = "parallel" THEN WordNunits(s, st.f, s.type) ELSE 0
-----------------------------------------------------------------------------
(* The pass.                                                               *)

Init ==
    /\ stmts \in [1..MaxLen -> Stmts]
    /\ gsi = 1
    /\ pc = "walk"
    /\ vectorInnerType = FALSE
    /\ vectorLastType = NoType
    /\ vectorLastNunits = 0
    /\ log = {}

\* expand_vector_operations_1 on a statement it leaves alone: not a vector
\* operation, a conversion, or one the target implements; then gsi_next.
KeepStmt ==
    /\ pc = "walk"
    /\ gsi <= Len(stmts)
    /\ ~Lowered(stmts[gsi])
    /\ gsi' = gsi + 1
    /\ UNCHANGED <<stmts, pc, vectorInnerType, vectorLastType,
                   vectorLastNunits, log>>

\* expand_vector_operations_1 on a statement it lowers: the pieces are
\* inserted before it (GSI_SAME_STMT), its right-hand side becomes the
\* CONSTRUCTOR or scalar result, wrapped in a VIEW_CONVERT_EXPR to the
\* lhs type when useless_type_conversion_p says the types differ, and the
\* walk goes on after it.  build_word_mode_vector_type's cache is updated.
LowerStmt ==
    LET s   == stmts[gsi]
        ct  == ComputeType(s)
        r   == expand_vector_operation(s, ct)
        nw  == CacheUse(s)
        fin == IF r.result # s.type THEN "VIEW_CONVERT_EXPR" ELSE "CONSTRUCTOR"
    IN
    /\ pc = "walk"
    /\ gsi <= Len(stmts)
    /\ Lowered(s)
    /\ stmts' = SubSeq(stmts, 1, gsi - 1) \o r.ops
                  \o <<[code |-> fin, type |-> s.type, count |-> "none",
                        traps |-> s.traps]>>
                  \o SubSeq(stmts, gsi + 1, Len(stmts))
    /\ gsi' = gsi + Len(r.ops) + 1
    /\ IF nw > 0
       THEN /\ vectorInnerType' = TRUE
            /\ vectorLastType' = build_word_mode_vector_type(nw)
            /\ vectorLastNunits' = nw
       ELSE UNCHANGED <<vectorInnerType, vectorLastType, vectorLastNunits>>
    /\ log' = log \cup {[stmt |-> s, compute |-> ct, extracts |-> r.extracts]}
    /\ UNCHANGED pc

\* The walk has passed the last statement.
Finish ==
    /\ pc = "walk"
    /\ gsi > Len(stmts)
    /\ pc' = "done"
    /\ UNCHANGED <<stmts, gsi, vectorInnerType, vectorLastType,
                   vectorLastNunits, log>>

Done == pc = "done" /\ UNCHANGED vars

Next == KeepStmt \/ LowerStmt \/ Finish \/ Done

Spec == Init /\ [][Next]_vars /\ WF_vars(Next)
-----------------------------------------------------------------------------
(* Properties.                                                             *)

\* The operand an extract reads has a vector type of Size(t) bits, except
\* a shift count that is a scalar.
OpndIsVector(e, o) == o = "a" \/ e.stmt.count = "vector"
OpndSize(e, o) == IF OpndIsVector(e, o) THEN Size(e.stmt.type) ELSE CountBits

TypeOK ==
    /\ stmts \in Seq([code : STRING, type : [elem : [bits : Nat, kind : STRING],
                                               n : Nat],
                      count : {"vector", "scalar", "none"}, traps : BOOLEAN])
    /\ gsi \in 1..(Len(stmts) + 1)
    /\ pc \in {"walk", "done"}
    /\ vectorInnerType \in BOOLEAN
    /\ vectorLastType \in {NoType} \cup [elem : {WordElem}, n : Nat]
    /\ vectorLastNunits \in Nat

\* Pieces tile the vector (spec.md 4.5, element-wise and word-parallel
\* expansion): for every lowered statement and every vector operand, the
\* BIT_FIELD_REFs or the reinterpretation the pieces read lie inside the
\* operand, do not overlap, and cover it.  This depends on delta and the
\* rounded piece count of expand_vector_piecewise, on n_words, and on the
\* word-vector type build_word_mode_vector_type returns from its cache
\* across statements.
VectorOperandsTiled ==
    \A e \in log : \A o \in {"a", "b"} :
        OpndIsVector(e, o) =>
            LET X == {x \in e.extracts : x.opnd = o}
                sz == OpndSize(e, o)
            IN  /\ \A x \in X : x.pos + x.size <= sz
                /\ \A x, y \in X :
                      x # y => x.pos + x.size <= y.pos \/ y.pos + y.size <= x.pos
                /\ \A p \in 0..(sz \div 8 - 1) :
                      \E x \in X : x.pos <= 8 * p /\ 8 * p < x.pos + x.size

\* Idempotence (spec.md 6): when the walk is over, a second walk would
\* lower nothing: every operation the lowering emitted on a narrower
\* vector type is one the target implements.
SecondRunNoop ==
    pc = "done" => \A i \in 1..Len(stmts) : ~Lowered(stmts[i])

\* A vector shifted by a scalar amount shifts every lane by that amount
\* (spec.md 4.5: vector-by-scalar shifts): every piece reads the count
\* whole.  do_binop extracts a lane-sized BIT_FIELD_REF from rhs2 whatever
\* its type.
ShiftCountWhole ==
    \A e \in log :
        e.stmt.count = "scalar" =>
            \A x \in e.extracts : x.opnd = "b" => x.pos = 0 /\ x.size = CountBits
====
