----------------------------- MODULE EmptyLoops -----------------------------
(***************************************************************************)
(* remove_empty_loops (tree-ssa-loop-ivcanon.c): try_remove_empty_loop    *)
(* recurses over the loop tree, every subloop first; a loop whose         *)
(* subloops were all removed and that empty_loop_p accepts is collapsed by *)
(* remove_empty_loop, which forces its exit, fixes the exit edges'         *)
(* probabilities and counts and rescales the frequencies of its body.     *)
(*                                                                         *)
(* The recursion is modelled by an explicit stack of activation frames,   *)
(* one per try_remove_empty_loop call, holding the loop, the subloops not *)
(* yet visited and the local nonempty_subloop.  What empty_loop_p reads   *)
(* of a loop is abstracted to two facts chosen in Init: Cond (a single    *)
(* dominating exit, a finite trip count, invariant exit phis) and Clean   *)
(* (no irreducible block and no statement with virtual definitions,       *)
(* volatile operands, side-effecting calls or volatile asm in the loop's  *)
(* own blocks).  The body get_loop_body returns includes the blocks of    *)
(* subloops, so Clean is required of every loop nested in the one tested. *)
(* Blocks carry frequencies; DomBody gives each loop's blocks in dominance *)
(* order, header first, the blocks of its subloops included, and          *)
(* ExitBlock the source of its single exit.  The edges tracked are each   *)
(* loop's exit and non-exit edges out of its exit block.                  *)
(***************************************************************************)
EXTENDS Integers, Sequences, FiniteSets

CONSTANTS
    Loops,        \* the loops of the function
    Root,         \* current_loops->tree_root
    Parent,       \* loop_outer
    Blocks,       \* the basic blocks of the loop bodies
    Freq0,        \* each block's frequency before the pass
    DomBody,      \* get_loop_body_in_dom_order of each loop
    ExitBlock,    \* exit->src of each loop
    FreqIn,       \* EDGE_FREQUENCY (loop_preheader_edge (loop))
    ExitCount0,   \* exit->count before the pass
    NonExitCount0,\* non_exit->count before the pass
    ProbBase      \* REG_BR_PROB_BASE

ASSUME /\ Parent \in [Loops -> Loops \cup {Root}]
       /\ Freq0 \in [Blocks -> Nat]
       /\ \A l \in Loops : /\ DomBody[l] \in Seq(Blocks)
                         /\ \E i \in 1..Len(DomBody[l]) : DomBody[l][i] = ExitBlock[l]

VARIABLES
    cond,          \* loops with one dominating exit, finite, invariant phis
    clean,         \* loops whose own blocks have no unremovable statement
    stack,         \* the try_remove_empty_loop activations, innermost last
    topPending,    \* the outermost loops remove_empty_loops has yet to try
    removed,       \* loops remove_empty_loop has collapsed
    changed,       \* remove_empty_loops' changed
    freq,          \* bb->frequency of each block
    exitProb,      \* exit->probability
    exitCount,     \* exit->count
    nonExitCount,  \* non_exit->count
    pc             \* "run" or "done"

vars == <<cond, clean, stack, topPending, removed, changed, freq, exitProb,
          exitCount, nonExitCount, pc>>

Children(l) == {c \in Loops : Parent[c] = l}

RECURSIVE Inside(_, _)
\* d is l or nested in it.
Inside(d, l) == d = l \/ (Parent[d] # Root /\ Inside(Parent[d], l))

-----------------------------------------------------------------------------
(* The collapse.                                                           *)

\* empty_loop_p: the exit, trip count and exit phi checks of the loop, and
\* the statement and irreducibility checks of every block of its body.
empty_loop_p(l) ==
    /\ l \in cond
    /\ \A d \in Loops : Inside(d, l) => d \in clean

\* RDIV (X, Y): division rounded to nearest.
RDIV(x, y) == (x + y \div 2) \div y

\* scale_bbs_frequencies_int (bbs, nbbs, num, den) on the state st: a
\* negative num is 0; a den above 1000 is renormalised to 1000 (the call
\* does nothing if num exceeds 10^6); a factor above 100 does nothing;
\* otherwise each block's frequency and the counts of its outgoing edges
\* are scaled by num / den, rounded.
scale_bbs_frequencies_int(st, bbs, num, den) ==
    LET n0   == IF num < 0 THEN 0 ELSE num
        big  == den > 1000
        n1   == IF big THEN RDIV(1000 * n0, den) ELSE n0
        d1   == IF big THEN 1000 ELSE den
        sc(x) == RDIV(x * n1, d1)
        out(l) == ExitBlock[l] \in bbs
    IN  IF (big /\ n0 > 1000000) \/ n1 > 100 * d1 THEN st
        ELSE [freq |-> [b \in Blocks |-> IF b \in bbs THEN sc(st.freq[b])
                                                     ELSE st.freq[b]],
              exitCount |-> [l \in Loops |-> IF out(l) THEN sc(st.exitCount[l])
                                                       ELSE st.exitCount[l]],
              nonExitCount |-> [l \in Loops |-> IF out(l) THEN sc(st.nonExitCount[l])
                                                          ELSE st.nonExitCount[l]]]

\* n_before: the position of exit->src in the dominance order.
NBefore(l) == CHOOSE i \in 1..Len(DomBody[l]) : DomBody[l][i] = ExitBlock[l]

\* The blocks up to and including the exit block, and the ones after it.
BlocksBefore(l) == {DomBody[l][i] : i \in 1..NBefore(l)}
BlocksAfter(l) == {DomBody[l][i] : i \in (NBefore(l) + 1)..Len(DomBody[l])}

\* The edge counts and frequencies once remove_empty_loop has set the
\* non-exit count to 0 and, if the header frequency freq_h is not 0,
\* scaled the blocks before the exit by freq_in / freq_h and the rest by
\* 0 / 1.
Collapsed(l) ==
    LET st0   == [freq |-> freq, exitCount |-> exitCount,
                  nonExitCount |-> [nonExitCount EXCEPT ![l] = 0]]
        freqH == freq[DomBody[l][1]]
    IN  IF freqH = 0 THEN st0
        ELSE scale_bbs_frequencies_int(
               scale_bbs_frequencies_int(st0, BlocksBefore(l), FreqIn[l], freqH),
               BlocksAfter(l), 0, 1)

\* Mutant: the exit count is left as the scaling made it.
remove_empty_loop_no_restore(l) ==
    /\ exitProb' = [exitProb EXCEPT ![l] = ProbBase]
    /\ freq' = Collapsed(l).freq
    /\ nonExitCount' = Collapsed(l).nonExitCount
    /\ exitCount' = Collapsed(l).exitCount

\* remove_empty_loop: the exit condition made constant (recorded in
\* removed by the caller), exit probability REG_BR_PROB_BASE, the other
\* edge probability and count 0, the frequencies scaled, and exit->count,
\* which the scaling of the exit block's edges changed, restored to the
\* value saved on entry.
remove_empty_loop(l) ==
    /\ exitProb' = [exitProb EXCEPT ![l] = ProbBase]
    /\ freq' = Collapsed(l).freq
    /\ nonExitCount' = Collapsed(l).nonExitCount
    /\ exitCount' = [Collapsed(l).exitCount EXCEPT ![l] = exitCount[l]]
-----------------------------------------------------------------------------
(* The recursion.                                                          *)

\* Mutant: the subloop walk started at the loop itself, not loop->inner.
FrameSelf(l) == [loop |-> l, pending |-> Children(l) \cup {l}, nonempty |-> FALSE]

\* A new activation of try_remove_empty_loop (loop): its subloops to try,
\* nonempty_subloop = false.
Frame(l) == [loop |-> l, pending |-> Children(l), nonempty |-> FALSE]

Init ==
    /\ cond \in SUBSET Loops
    /\ clean \in SUBSET Loops
    /\ stack = <<>>
    /\ topPending = Children(Root)
    /\ removed = {}
    /\ changed = FALSE
    /\ freq = Freq0
    /\ exitProb = [l \in Loops |-> ProbBase \div 2]
    /\ exitCount = ExitCount0
    /\ nonExitCount = NonExitCount0
    /\ pc = "run"

\* remove_empty_loops' loop over the outermost loops calls
\* try_remove_empty_loop on the next one.
TryTop ==
    /\ pc = "run"
    /\ stack = <<>>
    /\ \E l \in topPending :
          /\ topPending' = topPending \ {l}
          /\ stack' = <<Frame(l)>>
    /\ UNCHANGED <<cond, clean, removed, changed, freq, exitProb, exitCount,
                   nonExitCount, pc>>

\* try_remove_empty_loop's loop over the subloops calls itself on the
\* next one.
TrySub ==
    /\ stack # <<>>
    /\ LET top == stack[Len(stack)]
       IN  \E c \in top.pending :
              stack' = Append([stack EXCEPT ![Len(stack)].pending = @ \ {c}],
                              Frame(c))
    /\ UNCHANGED <<cond, clean, topPending, removed, changed, freq, exitProb,
                   exitCount, nonExitCount, pc>>

\* Mutant: nonempty_subloop = !res, the |= written as =.
ReturnAssign(res) ==
    LET rest == SubSeq(stack, 1, Len(stack) - 1)
    IN  IF rest = <<>> THEN rest
        ELSE [rest EXCEPT ![Len(rest)].nonempty = ~res]

\* The caller's frame after the callee returned res:
\* nonempty_subloop |= !res (nothing of the caller when it is the driver).
Return(res) ==
    LET rest == SubSeq(stack, 1, Len(stack) - 1)
    IN  IF rest = <<>> THEN rest
        ELSE [rest EXCEPT ![Len(rest)].nonempty = @ \/ ~res]

\* All subloops tried: a nonempty subloop or a loop empty_loop_p rejects
\* is kept, and the call returns false.
KeepLoop ==
    /\ stack # <<>>
    /\ LET top == stack[Len(stack)]
       IN  /\ top.pending = {}
           /\ top.nonempty \/ ~empty_loop_p(top.loop)
           /\ stack' = Return(FALSE)
    /\ UNCHANGED <<cond, clean, topPending, removed, changed, freq, exitProb,
                   exitCount, nonExitCount, pc>>

\* Mutant: the loop is tested before its subloops are tried.
RemoveLoopPreOrder ==
    /\ stack # <<>>
    /\ LET top == stack[Len(stack)]
       IN  /\ ~top.nonempty /\ empty_loop_p(top.loop)
           /\ top.loop \notin removed
           /\ removed' = removed \cup {top.loop}
           /\ changed' = TRUE
           /\ remove_empty_loop(top.loop)
           /\ stack' = IF top.pending = {} THEN Return(TRUE) ELSE stack
    /\ UNCHANGED <<cond, clean, topPending, pc>>

\* All subloops removed and the loop empty: remove_empty_loop collapses
\* it, *changed is set, and the call returns true.
RemoveLoop ==
    /\ stack # <<>>
    /\ LET top == stack[Len(stack)]
       IN  /\ top.pending = {}
           /\ ~top.nonempty
           /\ empty_loop_p(top.loop)
           /\ removed' = removed \cup {top.loop}
           /\ changed' = TRUE
           /\ remove_empty_loop(top.loop)
           /\ stack' = Return(TRUE)
    /\ UNCHANGED <<cond, clean, topPending, pc>>

\* remove_empty_loops returns (TODO_cleanup_cfg after scev_reset if
\* changed).
Finish ==
    /\ pc = "run"
    /\ stack = <<>>
    /\ topPending = {}
    /\ pc' = "done"
    /\ UNCHANGED <<cond, clean, stack, topPending, removed, changed, freq,
                   exitProb, exitCount, nonExitCount>>

Done == pc = "done" /\ UNCHANGED vars

Next == TryTop \/ TrySub \/ KeepLoop \/ RemoveLoop \/ Finish \/ Done

Spec == Init /\ [][Next]_vars /\ WF_vars(Next)
-----------------------------------------------------------------------------
(* Properties.                                                             *)

TypeOK ==
    /\ cond \subseteq Loops /\ clean \subseteq Loops
    /\ removed \subseteq Loops /\ topPending \subseteq Loops
    /\ Len(stack) <= Cardinality(Loops)
    /\ \A i \in 1..Len(stack) :
          /\ stack[i].loop \in Loops
          /\ stack[i].pending \subseteq Children(stack[i].loop)
          /\ stack[i].nonempty \in BOOLEAN
    /\ changed \in BOOLEAN
    /\ pc \in {"run", "done"}
    /\ freq \in [Blocks -> Nat]
    /\ exitCount \in [Loops -> Nat] /\ nonExitCount \in [Loops -> Nat]

\* Post-order (spec.md 4.4 and 5): whenever a loop has been collapsed, every
\* one of its subloops had been collapsed before it.
PostOrder == \A l \in removed : Children(l) \subseteq removed

RECURSIVE Removable(_)
\* The reference: a loop goes when it is empty and all its subloops go.
Removable(l) == empty_loop_p(l) /\ \A c \in Children(l) : Removable(c)

\* When remove_empty_loops returns, it has collapsed exactly the loops the
\* reference definition names, whatever the order of siblings, and
\* reports a change exactly when it collapsed one.
RemovedExactly ==
    pc = "done" =>
        /\ removed = {l \in Loops : Removable(l)}
        /\ changed = (removed # {})

\* The collapse (spec.md 4.4, example scenario 3), checked on the step
\* that collapses a loop l: the exit becomes certain, the other edge gets
\* count 0, the exit count is the one before the collapse, and when the
\* header frequency is not 0 every block after the exit in dominance order,
\* the blocks of already collapsed subloops included, gets frequency 0,
\* while blocks and exit edges outside l's body keep theirs.
CollapseConservesExit ==
    [][\A l \in Loops :
         (l \notin removed /\ l \in removed') =>
            /\ exitProb'[l] = ProbBase
            /\ nonExitCount'[l] = 0
            /\ exitCount'[l] = exitCount[l]
            /\ freq[DomBody[l][1]] # 0 =>
                  \A b \in BlocksAfter(l) : freq'[b] = 0
            /\ \A b \in Blocks \ (BlocksBefore(l) \cup BlocksAfter(l)) :
                  freq'[b] = freq[b]
            /\ \A k \in Loops \ {l} :
                  ExitBlock[k] \notin BlocksBefore(l) \cup BlocksAfter(l) =>
                     exitCount'[k] = exitCount[k]]_vars
====
