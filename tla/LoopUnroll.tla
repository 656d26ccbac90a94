----------------------------- MODULE LoopUnroll -----------------------------
(***************************************************************************)
(* The two loop-canonicalisation passes of tree-ssa-loop-ivcanon.c:        *)
(*                                                                         *)
(*   canonicalize_induction_variables  (pass = "ivcanon"): one sweep over  *)
(*     every loop; a counted loop is either made to exit in its first      *)
(*     iteration (trip count 0) or given a canonical induction variable;   *)
(*   tree_unroll_loops_completely      (pass = "cunroll"): sweeps over the *)
(*     innermost loops, completely unrolling the ones the cost model       *)
(*     accepts, cleaning the CFG and repeating while anything changed;     *)
(*   the two in sequence               (pass = "pipeline"): ivcanon, the   *)
(*     TODO_cleanup_cfg it returns when it changed the CFG, then cunroll.  *)
(*                                                                         *)
(* Trip counts come from number_of_latch_executions, which scev caches per *)
(* loop until scev_reset.  A loop in InnerDependent exits on a value one   *)
(* of its subloops computes: scev finds its count only once no subloop is  *)
(* left, so a count cached while a subloop existed goes stale when the     *)
(* subloop is unrolled and removed.                                        *)
(*                                                                         *)
(* A loop is an element of Loops, arranged in a fixed nesting tree by      *)
(* Parent.  The data a loop carries is abstracted to what the decisions    *)
(* read: its trip count (number of latch executions, or Unknown) and the   *)
(* weighted size of the statements in its own blocks.  Unrolling a loop    *)
(* multiplies the code of its body by the number of copies, so the size   *)
(* of an enclosing loop, measured later, includes those copies.            *)
(***************************************************************************)
EXTENDS Integers, FiniteSets

CONSTANTS
    Loops,            \* the loops of the function
    Root,             \* the tree root (current_loops->tree_root)
    Parent,           \* loop_outer: [Loops -> Loops \cup {Root}]
    Unknown,          \* a trip count that is not an INTEGER_CST
    NiterChoices,     \* the trip counts a loop may have
    InsnChoices,      \* the weighted sizes of a loop's own statements
    Hot,              \* loops with optimize_loop_for_speed_p
    EvalOnly,         \* loops whose count only find_loop_niter_by_eval finds
    NotOnceEachIter,  \* loops whose exit fails just_once_each_iteration_p
    NonDuplicable,    \* loops gimple_duplicate_loop_to_header_edge refuses
    MaxPeelTimes,     \* PARAM_MAX_COMPLETELY_PEEL_TIMES
    MaxPeeledInsns,   \* PARAM_MAX_COMPLETELY_PEELED_INSNS
    Passes,           \* the pass configurations: "ivcanon", "cunroll", "pipeline"
    InnerDependent,   \* loops whose count scev finds only with no subloop
    NotCached         \* no count cached for the loop

ASSUME /\ Root \notin Loops
       /\ Parent \in [Loops -> Loops \cup {Root}]
       /\ Unknown \notin Nat
       /\ NiterChoices \subseteq Nat \cup {Unknown}
       /\ InsnChoices \subseteq Nat
       /\ {Hot, EvalOnly, NotOnceEachIter, NonDuplicable} \subseteq SUBSET Loops
       /\ MaxPeelTimes \in Nat /\ MaxPeeledInsns \in Nat
       /\ Passes \subseteq {"ivcanon", "cunroll", "pipeline"}
       /\ InnerDependent \subseteq Loops \ EvalOnly
       /\ NotCached \notin NiterChoices

VARIABLES
    niter,            \* number_of_latch_executions of each loop
    own,              \* weighted size of each loop's own statements
    mayIncreaseSize,  \* argument may_increase_size of the cunroll driver
    unrollOuter,      \* argument unroll_outer of the cunroll driver
    present,          \* loops still in the loop tree
    mult,             \* copies of each loop's body made by unrolling it
    forced,           \* loops whose exit test was made constant
    ivs,              \* loops given a canonical induction variable
    worklist,         \* loops the current FOR_EACH_LOOP sweep has yet to visit
    changed,          \* the driver's changed flag
    pc,               \* "sweep" or "done"
    log,              \* history: one record per complete unrolling
    pass,             \* the configuration the passes run in (fixed)
    stage,            \* the pass running: "ivcanon" or "cunroll"
    cache             \* scev's cached loop->nb_iterations of each loop

vars == <<niter, own, mayIncreaseSize, unrollOuter, present, mult, forced,
          ivs, worklist, changed, pc, log, pass, stage, cache>>

\* The cunroll driver's try_eval, !flag_tree_loop_ivcanon: true only when
\* the ivcanon pass is disabled and cunroll runs alone.
TryEval == pass = "cunroll"

-----------------------------------------------------------------------------
(* The loop tree.                                                          *)

RECURSIVE IsInside(_, _)
\* d is l or is nested, at any depth, in l.
IsInside(d, l) == d = l \/ (Parent[d] # Root /\ IsInside(Parent[d], l))

\* loop->inner: l has a subloop still in the loop tree.
HasInner(l) == \E c \in present : Parent[c] = l

\* The loops FOR_EACH_LOOP (LI_ONLY_INNERMOST) enumerates.
Innermost(P) == {l \in P : ~\E c \in P : Parent[c] = l}

-----------------------------------------------------------------------------
(* Sizes and the cost model.                                               *)

RECURSIVE Copies(_, _)
\* How many copies of d's own statements the body of l holds: each loop on
\* the way from d up to l that was unrolled multiplied them.
Copies(d, l) == IF d = l THEN 1 ELSE mult[d] * Copies(Parent[d], l)

\* tree_num_loop_insns: 1 plus the weighted statements of every block of
\* the body, the blocks of subloops and of their unrolled copies included.
RECURSIVE SumOver(_, _)
SumOver(S, l) ==
    IF S = {} THEN 0
    ELSE LET d == CHOOSE x \in S : TRUE
         IN own[d] * Copies(d, l) + SumOver(S \ {d}, l)

tree_num_loop_insns(l) == 1 + SumOver({d \in Loops : IsInside(d, l)}, l)

\* C's signed division truncates toward zero.
CDiv(a, b) == IF a >= 0 THEN a \div b ELSE -((-a) \div b)

\* estimated_unrolled_size: the exit test and the increment go (4 insns),
\* the rest shrinks by a third, at least 1, times the number of copies.
estimated_unrolled_size(ninsns, nunroll) ==
    LET unr == CDiv(2 * (ninsns - 4), 3)
    IN  (IF unr <= 0 THEN 1 ELSE unr) * (nunroll + 1)

\* Mutant: loop_outer (loop) instead of loop_outer (loop_outer (loop)),
\* which is never NULL.
UnrollLevelOneOuter(l) ==
    IF mayIncreaseSize /\ l \in Hot /\ (unrollOuter \/ Parent[l] \in Loops \cup {Root})
    THEN "UL_ALL" ELSE "UL_NO_GROWTH"

\* The unroll level the cunroll driver passes for l.  Outermost loops
\* (loop_outer (loop_outer (loop)) == NULL) grow only if unroll_outer.
UnrollLevel(l) ==
    IF /\ mayIncreaseSize
       /\ l \in Hot
       /\ (unrollOuter \/ Parent[l] # Root)
    THEN "UL_ALL" ELSE "UL_NO_GROWTH"

\* Mutant: the PARAM_MAX_COMPLETELY_PEEL_TIMES check dropped.
TryUnrollNoPeelCap(l, n, ul) ==
    LET ninsns == tree_num_loop_insns(l)
        unr    == estimated_unrolled_size(ninsns, n)
    IN  /\ ~HasInner(l) /\ n # Unknown
        /\ n > 0 =>
             /\ ul # "UL_SINGLE_ITER"
             /\ ~(unr > ninsns /\ unr > MaxPeeledInsns)
             /\ ~(ul = "UL_NO_GROWTH" /\ unr > ninsns)
             /\ l \notin NonDuplicable

\* try_unroll_loop_completely's decision, CFG untouched when it is FALSE.
try_unroll_loop_completely(l, n, ul) ==
    LET ninsns == tree_num_loop_insns(l)
        unr    == estimated_unrolled_size(ninsns, n)
    IN  /\ ~HasInner(l)
        /\ n # Unknown
        /\ n <= MaxPeelTimes
        /\ n > 0 =>
             /\ ul # "UL_SINGLE_ITER"
             /\ ~(unr > ninsns /\ unr > MaxPeeledInsns)
             /\ ~(ul = "UL_NO_GROWTH" /\ unr > ninsns)
             /\ l \notin NonDuplicable

\* The count scev computes for l from the CFG as it is now.
Analysed(l) == IF l \in InnerDependent /\ HasInner(l) THEN Unknown ELSE niter[l]

\* number_of_latch_executions: the cached count if there is one, else a
\* fresh analysis (which it then caches).
number_of_latch_executions(l) ==
    IF cache[l] # NotCached THEN cache[l] ELSE Analysed(l)

\* The count canonicalize_loop_induction_variables works with: scev's, or
\* for an EvalOnly loop the one find_loop_niter_by_eval simulates afresh.
NiterOf(l) == IF l \in EvalOnly THEN niter[l] ELSE number_of_latch_executions(l)

\* scev_reset: every cached count dropped.
scev_reset == [l \in Loops |-> NotCached]

\* canonicalize_loop_induction_variables finds an INTEGER_CST count n:
\* from scev with an exit tested once per iteration, or by brute force
\* only if try_eval.
Counted(l, n, tryEval) ==
    /\ n # Unknown
    /\ l \in EvalOnly => tryEval
    /\ l \notin EvalOnly => l \notin NotOnceEachIter

-----------------------------------------------------------------------------
(* The passes.                                                             *)

Init ==
    /\ niter \in [Loops -> NiterChoices]
    /\ own \in [Loops -> InsnChoices]
    /\ mayIncreaseSize \in BOOLEAN
    /\ unrollOuter \in BOOLEAN
    /\ present = Loops
    /\ mult = [l \in Loops |-> 1]
    /\ forced = {}
    /\ ivs = {}
    /\ pass \in Passes
    /\ stage = IF pass = "cunroll" THEN "cunroll" ELSE "ivcanon"
    /\ worklist = IF pass = "cunroll" THEN Innermost(Loops) ELSE Loops
    /\ changed = FALSE
    /\ pc = "sweep"
    /\ log = {}
    /\ cache = scev_reset

\* One iteration of the FOR_EACH_LOOP body: canonicalize_loop_induction_
\* variables (loop, create_iv, ul, try_eval) with the driver's arguments.
\* number_of_latch_executions leaves l's count in the cache.
Visit(l) ==
    LET ivcanon == stage = "ivcanon"
        ul      == IF ivcanon THEN "UL_SINGLE_ITER" ELSE UnrollLevel(l)
        tryEval == ivcanon \/ TryEval
        n       == NiterOf(l)
    IN
    /\ pc = "sweep"
    /\ l \in worklist
    /\ worklist' = worklist \ {l}
    /\ cache' = [cache EXCEPT ![l] = number_of_latch_executions(l)]
    /\ \/ /\ Counted(l, n, tryEval)
          /\ try_unroll_loop_completely(l, n, ul)
          /\ mult' = [mult EXCEPT ![l] = n + 1]
          /\ forced' = forced \cup {l}
          /\ changed' = TRUE
          /\ log' = log \cup
                {[loop |-> l, n |-> n, ul |-> ul,
                  ninsns |-> tree_num_loop_insns(l),
                  unr |-> estimated_unrolled_size(tree_num_loop_insns(l), n)]}
          /\ UNCHANGED ivs
       \/ /\ Counted(l, n, tryEval)
          /\ ~try_unroll_loop_completely(l, n, ul)
          /\ ivcanon
          /\ ivs' = ivs \cup {l}
          /\ UNCHANGED <<mult, forced, changed, log>>
       \/ /\ ~(Counted(l, n, tryEval) /\ (ivcanon \/ try_unroll_loop_completely(l, n, ul)))
          /\ UNCHANGED <<mult, forced, ivs, changed, log>>
    /\ UNCHANGED <<niter, own, mayIncreaseSize, unrollOuter, pass, present, pc, stage>>

\* Mutant: the ivcanon pass returns without scev_reset.
EndIvcanonNoReset ==
    /\ pc = "sweep" /\ worklist = {} /\ stage = "ivcanon"
    /\ IF pass = "pipeline"
       THEN /\ stage' = "cunroll"
            /\ present' = present \ forced
            /\ worklist' = Innermost(present \ forced)
            /\ changed' = FALSE
            /\ UNCHANGED pc
       ELSE /\ pc' = "done"
            /\ UNCHANGED <<stage, present, worklist, changed>>
    /\ UNCHANGED <<niter, own, mayIncreaseSize, unrollOuter, pass, mult, forced,
                   ivs, log, cache>>

\* The end of the ivcanon sweep: scev_reset, and the pass returns (with
\* TODO_cleanup_cfg if it changed the CFG).  In the pipeline the pass
\* manager's cleanup_tree_cfg removes the loops whose exit was made
\* constant, and cunroll starts on the innermost loops left.
EndIvcanon ==
    /\ pc = "sweep"
    /\ worklist = {}
    /\ stage = "ivcanon"
    /\ cache' = scev_reset
    /\ IF pass = "pipeline"
       THEN /\ stage' = "cunroll"
            /\ present' = present \ forced
            /\ worklist' = Innermost(present \ forced)
            /\ changed' = FALSE
            /\ UNCHANGED pc
       ELSE /\ pc' = "done"
            /\ UNCHANGED <<stage, present, worklist, changed>>
    /\ UNCHANGED <<niter, own, mayIncreaseSize, unrollOuter, pass, mult, forced,
                   ivs, log>>

\* Mutant: cleanup_tree_cfg leaves the unrolled loops in the loop tree.
CleanupKeepsLoops ==
    /\ pc = "sweep" /\ worklist = {} /\ stage = "cunroll" /\ changed
    /\ worklist' = Innermost(present)
    /\ changed' = FALSE
    /\ cache' = scev_reset
    /\ UNCHANGED <<niter, own, mayIncreaseSize, unrollOuter, pass, present, mult,
                   forced, ivs, pc, log, stage>>

\* The end of a cunroll sweep that changed something: cleanup_tree_cfg
\* removes the loops whose exit is now constant, scev_reset drops the
\* cached counts, and the do-while loop starts another sweep.
CleanupAndRepeat ==
    /\ pc = "sweep"
    /\ worklist = {}
    /\ stage = "cunroll"
    /\ changed
    /\ present' = present \ forced
    /\ worklist' = Innermost(present \ forced)
    /\ changed' = FALSE
    /\ cache' = scev_reset
    /\ UNCHANGED <<niter, own, mayIncreaseSize, unrollOuter, pass, mult, forced,
                   ivs, pc, log, stage>>

\* Mutant: a single sweep, the do-while (changed) loop gone.
FinishAfterOneSweep ==
    /\ pc = "sweep" /\ worklist = {} /\ stage = "cunroll"
    /\ pc' = "done"
    /\ UNCHANGED <<niter, own, mayIncreaseSize, unrollOuter, pass, present, mult,
                   forced, ivs, worklist, changed, log, pass, stage, cache>>

\* The end of the cunroll driver: a sweep that changed nothing.
Finish ==
    /\ pc = "sweep"
    /\ worklist = {}
    /\ stage = "cunroll"
    /\ ~changed
    /\ pc' = "done"
    /\ UNCHANGED <<niter, own, mayIncreaseSize, unrollOuter, pass, present, mult,
                   forced, ivs, worklist, changed, log, pass, stage, cache>>

\* The pass has returned.
Terminated == pc = "done" /\ UNCHANGED vars

Next == (\E l \in Loops : Visit(l)) \/ EndIvcanon \/ CleanupAndRepeat
        \/ Finish \/ Terminated

Spec == Init /\ [][Next]_vars /\ WF_vars(Next)

-----------------------------------------------------------------------------
(* Properties.                                                             *)

TypeOK ==
    /\ niter \in [Loops -> NiterChoices]
    /\ own \in [Loops -> InsnChoices]
    /\ present \subseteq Loops /\ forced \subseteq Loops /\ ivs \subseteq Loops
    /\ mult \in [Loops -> 1..(MaxPeelTimes + 1)]
    /\ worklist \subseteq present
    /\ changed \in BOOLEAN
    /\ pc \in {"sweep", "done"}
    /\ stage \in {"ivcanon", "cunroll"}
    /\ cache \in [Loops -> NiterChoices \cup {NotCached}]

\* Code growth is authorised: a complete unrolling whose estimated size
\* exceeds the loop's size happens only in the cunroll driver called with
\* may_increase_size, for a hot loop, within max-completely-peeled-insns,
\* and for an outermost loop only when unroll_outer ("Unroll outermost
\* loops only if asked to do so or they do not cause code growth").  The
\* size is measured on the loop as earlier sweeps left it.
GrowthAuthorised ==
    \A e \in log :
        e.unr > e.ninsns =>
            /\ e.unr <= MaxPeeledInsns
            /\ mayIncreaseSize
            /\ e.loop \in Hot
            /\ unrollOuter \/ Parent[e.loop] # Root

\* When tree_unroll_loops_completely returns, a further call would change
\* nothing: no loop left in the tree is one its cost model would unroll.
\* Unrolling an inner loop makes its parent innermost only after cleanup,
\* so this needs the do-while loop and the cleanup between sweeps.  The
\* counts are fresh ones, as a later pass would see them after scev_reset.
FixedPoint ==
    LET fresh(l) == IF l \in EvalOnly THEN niter[l] ELSE Analysed(l)
    IN  (pc = "done" /\ stage = "cunroll") =>
          \A l \in present :
            ~(/\ Counted(l, fresh(l), TryEval)
              /\ try_unroll_loop_completely(l, fresh(l), UnrollLevel(l)))

\* No decision reads a stale trip count: every count scev has cached for a
\* loop still in the tree is the one it would compute from the CFG now.
\* A count cached while a subloop existed is stale once cleanup removes the
\* unrolled subloop; the scev_reset calls at the end of the ivcanon pass
\* and after each changing cunroll sweep are what prevent its reuse.
NoStaleCount ==
    \A l \in present : cache[l] \in {NotCached, Analysed(l)}

\* spec.md 4.2 states the budget as absolute: "Reject if unrolled cost
\* exceeds an absolute maximum peeled-instruction budget".  The code
\* rejects only when the estimate also exceeds the loop's current size.
SpecPeeledBudget == \A e \in log : e.n > 0 => e.unr <= MaxPeeledInsns

\* The driver's do-while loop terminates.
Termination == <>(pc = "done")

====
