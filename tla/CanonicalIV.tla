----------------------------- MODULE CanonicalIV -----------------------------
(***************************************************************************)
(* create_canonical_iv (tree-ssa-loop-ivcanon.c) and the loop it leaves:  *)
(* a counter of niter's unsigned type, W bits wide, starts at niter + 1,  *)
(* is decremented just before the exit condition, and the condition is    *)
(* rewritten to compare it with 0: EQ_EXPR when the exit is the true edge, *)
(* NE_EXPR when it is the false edge.  The arithmetic wraps modulo 2^W,   *)
(* which the code relies on ("everything works with a modulo              *)
(* arithmetics"); niter = 2^W - 1 makes the initial value wrap to 0.      *)
(***************************************************************************)
EXTENDS Naturals

CONSTANT W                    \* precision of TREE_TYPE (niter)

Modulus == 2 ^ W
MaxNiter == Modulus - 1

VARIABLES niter,              \* the INTEGER_CST trip count passed in
          exitOnTrue,         \* exit->flags & EDGE_TRUE_VALUE
          cmp,                \* the code of the rewritten GIMPLE_COND
          iv,                 \* the canonical induction variable
          tests,              \* exit tests evaluated so far
          exited              \* the loop has been left

vars == <<niter, exitOnTrue, cmp, iv, tests, exited>>

\* The base create_canonical_iv gives create_iv: niter + 1 folded in the
\* unsigned type.  (Mutants: the + 1 forgotten; the sum not truncated.)
IvBaseNoPlusOne(n) == n % Modulus
IvBaseUnwrapped(n) == n + 1
IvBase(n) == (n + 1) % Modulus

\* The comparison create_canonical_iv installs.
CondCodeSwapped(onTrue) == IF onTrue THEN "NE_EXPR" ELSE "EQ_EXPR"
CondCode(onTrue) == IF onTrue THEN "EQ_EXPR" ELSE "NE_EXPR"

\* The compiled loop: create_canonical_iv has run on it.
Init ==
    /\ niter \in 0..MaxNiter
    /\ exitOnTrue \in BOOLEAN
    /\ cmp = CondCode(exitOnTrue)
    /\ iv = IvBase(niter)
    /\ tests = 0
    /\ exited = FALSE

\* GIMPLE_COND (iv cmp 0) evaluated: true or false.
CondHolds(c, v) == IF c = "EQ_EXPR" THEN v = 0 ELSE v # 0

\* One pass through the exit block: create_iv's increment (step -1, placed
\* before the condition, so the condition reads the decremented value),
\* then the condition; the exit edge is taken when the condition's value
\* is the exit edge's flag.
ExitTest ==
    /\ ~exited
    /\ LET v == (iv + Modulus - 1) % Modulus
       IN  /\ iv' = v
           /\ exited' = (CondHolds(cmp, v) = exitOnTrue)
    /\ tests' = tests + 1
    /\ UNCHANGED <<niter, exitOnTrue, cmp>>

Next == ExitTest

Spec == Init /\ [][Next]_vars /\ WF_vars(Next)

TypeOK ==
    /\ niter \in 0..MaxNiter
    /\ cmp \in {"EQ_EXPR", "NE_EXPR"}
    /\ iv \in 0..MaxNiter
    /\ tests \in 0..Modulus
    /\ exited \in BOOLEAN

\* Counter correctness (spec.md 8): the rewritten loop leaves on exactly
\* the (niter+1)-th exit test, for every niter of the type, the one whose
\* niter + 1 wraps to 0 included, and for either polarity of the exit edge.
\* Stated as refinement of the loop's meaning, LoopExit.
Original == INSTANCE LoopExit WITH MaxNiter <- MaxNiter
ImplementsLoopExit == Original!Spec
====
