------------------------------ MODULE SwarArith ------------------------------
(***************************************************************************)
(* The word-parallel ("SWAR") arithmetic of tree-vect-generic.c:          *)
(* build_replicated_const, do_plus_minus and do_negate, applied to one    *)
(* word of Prec bits holding lanes of LaneBits bits, compared with the    *)
(* lane-by-lane arithmetic that expand_vector_piecewise would emit.       *)
(* A gimple value of an unsigned Prec-bit type is a natural below 2^Prec; *)
(* every operation the code builds is reduced modulo 2^Prec, as the       *)
(* target's word arithmetic does.                                         *)
(***************************************************************************)
EXTENDS Naturals, Bitwise

CONSTANTS HostBits,    \* HOST_BITS_PER_WIDE_INT
          Prec,        \* TYPE_PRECISION of the word type computed in
          LaneWidths   \* the TYPE_SIZE of the vector's element types tried

ASSUME /\ Prec \in Nat \ {0} /\ Prec <= HostBits
       /\ \A w \in LaneWidths : w > 1 /\ Prec % w = 0 /\ HostBits % w = 0

Words == 0..(2 ^ Prec - 1)

\* Value of the word operations in a Prec-bit type.
Wrap(x) == x % (2 ^ Prec)
BitNot(x) == 2 ^ Prec - 1 - x

\* build_replicated_const (type, inner_type, value): VALUE's low WIDTH bits
\* replicated across a HOST_WIDE_INT by dividing all-ones by the lane mask,
\* then cut to TYPE_PRECISION (the only case a word type below
\* HOST_BITS_PER_WIDE_INT reaches).
build_replicated_const(width, value) ==
    LET mask == 2 ^ width - 1
        low  == IF width = HostBits THEN value
                ELSE ((2 ^ HostBits - 1) \div mask) * (value & mask)
    IN  IF Prec < HostBits THEN low & (2 ^ Prec - 1) ELSE low

\* GET_MODE_MASK of the inner mode, and the two masks do_plus_minus and
\* do_negate build from it.
ModeMask(width) == 2 ^ width - 1
LowBits(width) == build_replicated_const(width, ModeMask(width) \div 2)
HighBits(width) ==
    build_replicated_const(width, ModeMask(width) & BitNot(ModeMask(width) \div 2))

\* The two constants per lane width, built once (they depend on nothing else).
LowBitsOf == [w \in LaneWidths |-> LowBits(w)]
HighBitsOf == [w \in LaneWidths |-> HighBits(w)]

\* Mutant: a_low built with the low mask for MINUS_EXPR as for PLUS_EXPR.
DoPlusMinusSameALow(width, x, y, code) ==
    LET low   == LowBitsOf[width]
        high  == HighBitsOf[width]
        b_low == y & low
        a_low == x & low
        signs == IF code = "PLUS_EXPR" THEN x ^^ y ELSE BitNot(x ^^ y)
        rlow  == IF code = "PLUS_EXPR" THEN Wrap(a_low + b_low)
                 ELSE Wrap(a_low + 2 ^ Prec - b_low)
    IN  rlow ^^ (signs & high)

\* do_plus_minus: the top bit of every lane is masked off (PLUS) or forced
\* on (MINUS) so the word add or subtract cannot carry or borrow across a
\* lane, and the right top bits are put back with an XOR.
do_plus_minus(width, x, y, code) ==
    LET low   == LowBitsOf[width]
        high  == HighBitsOf[width]
        b_low == y & low
        a_low == IF code = "PLUS_EXPR" THEN x & low ELSE x | high
        signs == IF code = "PLUS_EXPR" THEN x ^^ y ELSE BitNot(x ^^ y)
        rlow  == IF code = "PLUS_EXPR" THEN Wrap(a_low + b_low)
                 ELSE Wrap(a_low + 2 ^ Prec - b_low)
    IN  rlow ^^ (signs & high)

\* do_negate: HIGH - (b & LOW), top bits fixed from ~b.
do_negate(width, y) ==
    LET low   == LowBitsOf[width]
        high  == HighBitsOf[width]
        b_low == y & low
        signs == BitNot(y) & high
        rlow  == Wrap(high + 2 ^ Prec - b_low)
    IN  rlow ^^ signs

-----------------------------------------------------------------------------
(* The reference: the lane-by-lane result, lanes in two's complement.     *)

Lane(x, width, i) == (x \div (2 ^ (width * i))) % (2 ^ width)
NLanes(width) == Prec \div width

\* Word r holds, in every lane, F of the lanes of x and y.
LanewiseOk(r, x, y, width, F(_, _)) ==
    \A i \in 0..(NLanes(width) - 1) :
        Lane(r, width, i) = F(Lane(x, width, i), Lane(y, width, i)) % (2 ^ width)

\* SWAR round trip (spec.md 8) at lane width w: for every pair of words,
\* the word-parallel sum, difference and negation are values of the word
\* type and equal, in every lane, the truncated two's-complement result of
\* the scalar operation on that lane.
SwarLanesOk(w) ==
    \A x, y \in Words :
        LET sum  == do_plus_minus(w, x, y, "PLUS_EXPR")
            diff == do_plus_minus(w, x, y, "MINUS_EXPR")
            neg  == do_negate(w, y)
        IN  /\ {sum, diff, neg} \subseteq Words
            /\ LanewiseOk(sum, x, y, w, LAMBDA u, v : u + v)
            /\ LanewiseOk(diff, x, y, w, LAMBDA u, v : u + 2 ^ w - v)
            /\ LanewiseOk(neg, x, y, w, LAMBDA u, v : 2 ^ w - v)
====
