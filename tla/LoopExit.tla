------------------------------ MODULE LoopExit ------------------------------
(***************************************************************************)
(* What a counted loop promises, independent of how its exit is tested: a *)
(* loop whose latch executes niter times evaluates its exit test niter+1   *)
(* times and leaves the loop on the last of them (the meaning of           *)
(* number_of_latch_executions, tree-scalar-evolution.h).                   *)
(***************************************************************************)
EXTENDS Naturals

CONSTANT MaxNiter            \* the largest trip count the loop's type holds

VARIABLES niter,             \* number of latch executions
          tests,             \* exit tests evaluated so far
          exited             \* the loop has been left

Init ==
    /\ niter \in 0..MaxNiter
    /\ tests = 0
    /\ exited = FALSE

\* One evaluation of the exit test: the loop is left on the (niter+1)-th.
ExitTest ==
    /\ ~exited
    /\ tests' = tests + 1
    /\ exited' = (tests + 1 = niter + 1)
    /\ UNCHANGED niter

Spec == Init /\ [][ExitTest]_<<niter, tests, exited>>
             /\ WF_<<niter, tests, exited>>(ExitTest)
====
