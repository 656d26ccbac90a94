# TLA+ models of GCC 4.4 loop canonicalisation, vector lowering, SSA use chains and OpenMP construct building

This directory holds TLA+ modules, TLC configurations and the manifest
`PROJECT.json` for the sources under `src/gcc/`. Each module is translated
from the C source. The manifest's `"map"` gives, for every definition, the
source lines it models.

## 1. Inventory

### Components

| Component | Source | State it keeps | Operations |
|---|---|---|---|
| IV canonicalisation and complete unrolling | `tree-ssa-loop-ivcanon.c` 59-350 | The loop tree (`current_loops`). Per loop: trip count, exit edge, body statements. Driver flag `changed`. Scev cache. | `create_canonical_iv`, `tree_num_loop_insns`, `estimated_unrolled_size`, `try_unroll_loop_completely`, `canonicalize_loop_induction_variables`, drivers `canonicalize_induction_variables` and `tree_unroll_loops_completely` |
| Empty-loop removal | `tree-ssa-loop-ivcanon.c` 354-517 | The loop tree. Per block: frequency. Per edge: count and probability. | `empty_loop_p`, `remove_empty_loop`, `try_remove_empty_loop`, `remove_empty_loops` |
| Vector lowering | `tree-vect-generic.c` | The statements of every basic block. A static cache of the last word-vector type (`vector_last_type`, `vector_last_nunits`). | `expand_vector_operations(_1)`, `expand_vector_operation`, `expand_vector_addition`, `expand_vector_parallel`, `expand_vector_piecewise`, `do_plus_minus`, `do_negate`, `do_binop`, `do_unop`, `build_replicated_const`, `type_for_widest_vector_mode`, `build_word_mode_vector_type` |
| SSA immediate-use chains | `tree-flow-inline.h` 237-400, 985-1122 | One circular doubly linked list per SSA name, headed by a sentinel node. An iterator that puts a marker node into the list. | `link_imm_use(_to_list/_stmt)`, `delink_imm_use`, `set_ssa_use_from_ptr`, `relink_imm_use(_stmt)`, `has_zero_uses`, `has_single_use`, `single_imm_use`, `num_imm_uses`, the read-only iterator, and the statement iterator (`first/next_imm_use_stmt`, `link_use_stmts_after`, `move_use_after_head`, `end_imm_use_stmt_traverse`) |
| Simple bitmaps | `sbitmap.h` | Words of bits. An optional per-word population count. | `SET_BIT`, `RESET_BIT`, `TEST_BIT`, `sbitmap_iter_init/cond/next`, `EXECUTE_IF_SET_IN_SBITMAP(_REV)` |
| SSA operand iterators | `tree-flow-inline.h` 604-990 | An `ssa_op_iter`: cursors into the def, use, VUSE and VDEF lists of one statement (the VDEF list twice: its results and its may-use vectors), a vector index for VUSEs and one for may-uses, a PHI argument counter, the kind of walk, and `done`. | `op_iter_init(_use/_def/_tree/_vdef/_phiuse/_phidef)`, `op_iter_next_(use/def/tree/vdef)`, `op_iter_done`, `clear_and_done_ssa_iter`, `single_ssa_*_operand`, `zero_ssa_operands`, `num_ssa_operands`, `compare_ssa_operands_equal`, `single_phi_def` |
| `get_lineno` | `tree-flow-inline.h` 225-236 | None. | The line number of a statement, or -1 |
| Other `tree-flow-inline.h` accessors | `tree-flow-inline.h` (the rest) | Fields of other structures, read or written once. | Annotations, hash-table iteration, `ranges_overlap_p` |
| OpenMP construct building | `c-omp.c` | Front-end trees. | `c_finish_omp_*`, `check_omp_for_incr_expr`, `c_split_parallel_clauses`, `c_omp_predetermined_sharing` |
| Declarations only | `predict.h`, `cfglayout.h`, `emit-rtl.h`, `tree-scalar-evolution.h`, `langhooks-def.h`, `config/i386/*.h` | None: prototypes, macros and hook tables. | None |

### How the parts interact

Both loop drivers call `canonicalize_loop_induction_variables` on each loop.
That function asks the scalar-evolution analyser for the trip count. It then
calls `try_unroll_loop_completely`, and if that refuses, may call
`create_canonical_iv`. `try_unroll_loop_completely` measures the loop with
`tree_num_loop_insns`, asks the cost model `estimated_unrolled_size`, and
copies the body with `gimple_duplicate_loop_to_header_edge`. The unroll
driver relies on `cleanup_tree_cfg` to remove unrolled loops between sweeps,
so that a parent becomes innermost. It relies on `scev_reset` to drop trip
counts that the unrolling made stale. The empty-loop remover recurses over the
loop tree from the inside out. Every CFG and SSA edit goes through the
immediate-use chains of `tree-flow-inline.h`. When both loop passes are
enabled, ivcanon runs first; the CFG cleanup it requests and its own
`scev_reset` stand between it and cunroll.

The C front end calls the `c-omp.c` routines while it parses OpenMP
pragmas. Each call builds trees from its arguments and, for most, hands the
result to `add_stmt`. No routine reads what an earlier one built.

The vector lowering pass walks every statement. It chooses one of three
strategies and emits replacement statements before the original. All of this
is sequential: nothing runs concurrently. The hard behaviours are of these
kinds:

- passes that must reach a fixed point;
- an order that the recursion and the iteration must respect (post-order
  removal, a snapshot iterator over a tree that changes);
- wrap-around arithmetic in the counter;
- carries and borrows between packed lanes;
- integer scaling of frequencies;
- lists changed while they are being traversed.

### What makes each part correct

- **Unrolling.** Code grows only when the caller allows it, and only within
  `max-completely-peeled-insns`; outermost loops grow only when
  `unroll_outer` is set. The unroll
  driver stops, and when it stops no loop it could still unroll is left.
  No decision uses a trip count cached before the loop tree changed.
- **Canonical IV.** The rewritten loop leaves on exactly the (niter+1)-th
  exit test, for every niter, including the one whose `niter+1` wraps.
- **Empty loops.** A loop is removed only after all its subloops are
  removed. Each removal keeps its exit count, zeroes every block after
  the exit (subloop blocks included) and touches nothing outside the loop.
- **Vector lowering.** The SWAR arithmetic is lane-by-lane two's-complement
  arithmetic. The pieces of a lowered statement cover the vector exactly.
  A second run changes nothing.
- **Immediate uses.** Every chain stays a well-formed circular list holding
  exactly the uses of its name. The counting predicates are true to the
  list. A statement iterator visits each statement that used the name once,
  even when the uses are rewritten or statements removed during the walk,
  and every walk ends.
- **sbitmap.** The population counts stay equal to the bits. The iterator
  visits exactly the set bits, in increasing order.
- **OpenMP.** An accepted loop nest is rewritten to `decl OP bound` and
  `decl = decl +/- step` with the source's meaning, computed in the
  variable's type. Splitting the clauses loses, duplicates and shares none.

## 2. Plan

The modules, in the order they are built: most important behaviour first.

1. `LoopUnroll` (done). Both drivers and the shared decision
   (`canonicalize_loop_induction_variables`, `try_unroll_loop_completely`,
   the cost model, the unroll level) over a nest of loops.
2. `LoopExit` and `CanonicalIV` (done). `LoopExit` is the abstract meaning of
   a counted loop. `CanonicalIV` is the loop that `create_canonical_iv`
   leaves, checked to refine `LoopExit` (`INSTANCE LoopExit`, property
   `ImplementsLoopExit`).
3. `SwarArith` (done). `build_replicated_const`, `do_plus_minus` and
   `do_negate`, checked inside the `veclower` run against lane-by-lane
   arithmetic over every pair of words.
4. `VectorLowering` (done). The strategy selection of
   `expand_vector_operations_1` / `expand_vector_operation`, with a target
   description (vector modes and optabs) as constants. Checked:
   pieces that tile the vector, and a second run that changes nothing; the
   word-type cache is exercised by the same properties. `MC_VectorLowering`
   instances `SwarArith` to check the arithmetic of every statement that
   took the word-parallel strategy.
5. `EmptyLoops` (done). The post-order walk `try_remove_empty_loop`, the
   emptiness predicate, and `remove_empty_loop`'s frequency and count
   update on the body in dominance order, subloop blocks included.
   Checked: post-order, removed set equal to a recursive reference, and
   each collapse's effect on counts and frequencies.
6. `ImmUse` and `ImmUseSets` (done). The chains as `prev`/`next` functions
   over use nodes, sentinels and the marker, with link, delink, set-use,
   relink, statement removal and both iterators, checked to refine
   `ImmUseSets`, with a client that rewrites and links uses and removes
   statements while iterating, and checked to end every walk.
7. `Sbitmap` (done). `SET_BIT`/`RESET_BIT` with popcount, and the two
   iterators, on small word sizes.
8. `LoopUnroll` pass configurations (done): ivcanon alone, cunroll alone,
   and the two in sequence, with scev's cache of trip counts.
9. `OmpConstructs` (done): every routine of `c-omp.c`.
10. `SsaOpIter`, with `OperandWalk` and `SsaOperands` (done). The SSA
    operand iterators of `tree-flow-inline.h` and the queries built on
    them, shown to implement the abstract walk `OperandWalk`. The routines
    live in `SsaOpRoutines`, which `ImmUse` instances so that
    `link_use_stmts_after` walks a statement's uses with them (done).

## 3. Modules and runs

### `LoopUnroll` (`tree-ssa-loop-ivcanon.c` 59-350)

State:

- `present` is the loop tree.
- `mult` is how many copies of each loop's body unrolling made.
- `forced` is the loops whose exit test `gimple_cond_make_true/false` made
  constant.
- `ivs` is the loops given a canonical IV.
- `worklist` is the loops the current `FOR_EACH_LOOP` sweep has yet to visit.
- `changed` and `pc` are the driver's control.
- `log` records every unrolling, for the properties.
- `pass` is the configuration, fixed in `Init`: `"ivcanon"` (cunroll
  disabled), `"cunroll"` (`-fno-tree-loop-ivcanon`) or `"pipeline"` (both).
  `stage` is the pass running. The cunroll driver's `try_eval` argument,
  `!flag_tree_loop_ivcanon`, is `TryEval`: true only when cunroll runs
  alone.
- `cache` is scev's cached `nb_iterations` of each loop, or `NotCached`.
  `number_of_latch_executions` reads it before computing. A loop in
  `InnerDependent` exits on a value one of its subloops computes, so scev
  finds its count (`Analysed`) only once no subloop is left.

The trip count `niter` and the size `own` of each loop's own statements are
inputs, chosen in `Init`, as are the arguments `may_increase_size` and
`unroll_outer`. `tree_num_loop_insns` counts the statements of subloops and
of their unrolled copies (`Copies`). So a parent measured in a later sweep
includes the code its children's unrolling added.

Actions:

- `Visit(l)` is one call of `canonicalize_loop_induction_variables`. It has
  three outcomes: unrolled, canonical IV, nothing.
- `EndIvcanon` is the end of the ivcanon pass: `scev_reset`, and in the
  pipeline the cleanup its `TODO_cleanup_cfg` triggers, then cunroll's first
  sweep.
- `CleanupAndRepeat` is `cleanup_tree_cfg` plus `scev_reset` plus another
  sweep.
- `Finish` ends the pass.
- `Terminated` is the returned pass.

The FOR_EACH_LOOP order is left nondeterministic. Innermost loops have
disjoint bodies, so their decisions do not depend on each other.

Abstracted away:

- Scalar evolution appears only as the trip count, with the sets
  `EvalOnly` and `NotOnceEachIter`.
- `gimple_duplicate_loop_to_header_edge` is modelled only by its success or
  failure (`NonDuplicable`). Its failure leaves the CFG unchanged, which
  happens inside that function, outside `src/`.

Runs (MC module `MC_LoopUnroll`: loop 2 nested in loop 1, loop 3 alone;
trip counts {0,1,2,3,unknown}; own sizes {2,9,15}; MaxPeelTimes 2;
MaxPeeledInsns 12; loop 1's count depends on loop 2; loop 2's count is
found only by evaluation; loop 1 cannot be duplicated):

- `loopunroll` runs all three configurations (395,244 states, about a
  minute). It checks five properties:
  - `TypeOK`;
  - `GrowthAuthorised`: an unrolling that grows code happens only with
    `may_increase_size`, for a hot loop, within the budget, and for an
    outermost loop only with `unroll_outer`;
  - `NoStaleCount`: every count scev holds for a loop still in the tree is
    the one it would compute now;
  - `FixedPoint`: when cunroll returns, no loop left is one it would
    unroll;
  - `Termination` (`PROPERTY`): the passes return.

  The sizes make every branch happen: growth accepted (size 10, niter 2,
  estimate 12), growth refused, no growth past the budget (size 16,
  niter 1), and a parent that becomes innermost only in the second sweep.
  In the pipeline, ivcanon caches `Unknown` for loop 1 while loop 2 exists.
  Without the `scev_reset` at the end of ivcanon (mutant
  `EndIvcanonNoReset`), cunroll would read that count after cleanup
  removed loop 2.
- `loopunroll_budget` (violation) checks `SpecPeeledBudget`, the spec's
  "absolute" budget. The code accepts a size-16 loop whose estimate is 16,
  against a budget of 12, because it does not grow. See the finding in
  `PROJECT.json`.

Fairness: weak fairness on `Next`. The drivers are sequential code that
always takes its next step.

### `LoopExit` and `CanonicalIV` (`create_canonical_iv`, 70-104)

`LoopExit` says what a counted loop means: the exit test is evaluated
niter+1 times and the last one leaves. `CanonicalIV` is the loop after
`create_canonical_iv`:

- the counter starts at `(niter+1) mod 2^W`;
- `create_iv`'s decrement precedes the condition;
- the condition is `EQ_EXPR` or `NE_EXPR` against 0, depending on the exit
  edge's polarity.

Run `canonical_iv` (W = 4: every niter from 0 to 15, both polarities)
checks `TypeOK` and `ImplementsLoopExit`, which is `LoopExit!Spec` under the identity
mapping. This includes niter = 15, whose initial counter wraps to 0.
Deadlock is not checked because the loop really stops once it has exited.

### `SwarArith` (`tree-vect-generic.c` 39-68, 117-178)

These are pure operators, with no state. `MC_VectorLowering` instances
them on a scaled-down target: 6-bit words of three 2-bit lanes (an 8-bit
element becomes a 2-bit lane) and HOST_BITS_PER_WIDE_INT 16. Three lanes
give a bottom, a middle and a top lane, so every carry and borrow
boundary occurs. The word type below HOST_BITS_PER_WIDE_INT exercises the
masking branch of `build_replicated_const`. `SwarLanesOk(w)` says that for
every pair of words the SWAR sum, difference and negation are words and
agree in every lane with scalar two's-complement arithmetic. It is
evaluated once, over all 4,096 pairs, and used by `veclower`'s
`SwarCorrect`.

### `VectorLowering` (`tree-vect-generic.c` 39-511)

State:

- `stmts` is the block's statements. Each is a record: code, type, whether
  `rhs2` is a vector, a scalar shift count or absent, and whether the
  element type traps on overflow.
- `gsi` is the walk's position and `pc` its control.
- `vectorInnerType`, `vectorLastType` and `vectorLastNunits` are the
  static cache of `build_word_mode_vector_type`.
- `log` records, for each lowered statement, the strategy, the compute
  type and every piece read from each operand (its offset and width).

The target is a constant: the word size, `MAX_FIXED_MODE_SIZE`, the vector
types that have a mode, and the `<<optab, type>>` pairs with an
`insn_code`.

Actions:

- `KeepStmt` is `expand_vector_operations_1` leaving a statement alone.
- `LowerStmt` replaces a statement. It includes the optab and compute-type
  choice, the strategy of `expand_vector_operation`, the pieces, and the
  final CONSTRUCTOR or VIEW_CONVERT_EXPR.
- `Finish` ends the walk.

Runs (MC module `MC_VectorLowering`: words of 32 bits, integer modes up
to 64 bits, 8/16/32-bit integer and 32-bit float vectors of 2 to 16
elements, with a hardware add on V4HI, V4SI and V4SF, xor on V4SI, shifts
on V4HI and V4SI, and multiply on V4SF; blocks of two statements):

- `veclower` checks four properties:
  - `TypeOK`;
  - `VectorOperandsTiled`: the pieces read from each vector operand lie
    inside it, are disjoint and cover it;
  - `SecondRunNoop`: a second run of the pass over the lowered block
    changes nothing;
  - `SwarCorrect`: every PLUS, MINUS or NEGATE the walk lowered
    word-parallel computes exact lane-by-lane arithmetic (`SwarArith`).
    Only 8-bit elements pass `SwarApplies` on this target (four lanes or
    more per word), and they are checked as the 2-bit lanes of the
    scaled word.

  Each of the three strategies, and the word-type cache with a hit and a
  miss, happen.
- `veclower_shift` (violation) checks `ShiftCountWhole`: every lane of a
  lowered shift by a scalar count is shifted by the whole count. The code
  extracts a lane-sized piece of the count instead (finding).
- `veclower_wide` (violation) is a target whose widest 16-bit vector mode
  has 16 units. There an 8-unit BLKmode vector is "lowered" to one piece
  wider than the vector, and `VectorOperandsTiled` fails (finding).

Fairness: weak fairness on `Next`, because the walk is a sequential loop.

### `EmptyLoops` (`tree-ssa-loop-ivcanon.c` 354-517)

The recursion of `try_remove_empty_loop` is an explicit `stack` of
activation frames. Each frame holds its loop, the subloops still to try
and the local `nonempty_subloop`. What `empty_loop_p` reads of a loop is
reduced to two facts chosen in `Init`:

- `cond`: one dominating exit, a known finite trip count, and invariant
  exit phis;
- `clean`: no statement the loop's own blocks cannot lose.

`empty_loop_p` requires `clean` of every loop nested in the one tested,
because `get_loop_body` includes subloop blocks. Blocks carry frequencies
(`freq`). `DomBody` is each loop's `get_loop_body_in_dom_order`, header
first and the blocks of its subloops included; `ExitBlock` is
`exit->src`. The edges tracked are each loop's exit and non-exit edges.

`remove_empty_loop`:

- sets the exit probability to `REG_BR_PROB_BASE` and the other edge's
  count to 0;
- if the header frequency is not 0, scales the first `n_before` blocks of
  the dominance order by `freq_in / freq_h` and the rest by 0 / 1. Blocks
  of subloops collapsed earlier are scaled again;
- restores the exit count it saved on entry.

`scale_bbs_frequencies_int` lives in `cfg.c`, which is not part of the
repository; it is modelled from GCC's definition. A `den` above 1000 is
renormalised to 1000, and a factor above 100 makes the call do nothing.
Otherwise each block's frequency and the counts of its outgoing edges are
scaled with `RDIV` rounding. The exit edge leaves a scaled block, so
without the restore its count would change.

Actions:

- `TryTop` and `TrySub` start a call;
- `KeepLoop` and `RemoveLoop` return from one;
- `Finish` ends the pass.

Run `empty_loops` checks four properties. Its MC module has loops 2
and 3 nested in 1, and loop 4 alone. Every choice of `cond` and `clean`
is tried. Loop 1's dominance order puts loop 2's blocks before its exit
and loop 3's after it. Loop 3 has header frequency 0. Loop 4's header
frequency is 3000, so the factor is renormalised (and rounded:
the header ends at 999, not 1000). Header frequencies are never below the
entry frequency, as in a real CFG, so the early return does not fire.
The properties are:

- `TypeOK`;
- `PostOrder`: no loop is collapsed before its subloops;
- `RemovedExactly`: the collapsed loops are exactly those that a recursive
  reference definition names, and `changed` is reported exactly then;
- `CollapseConservesExit` (`PROPERTY`, an action property): the step that
  collapses a loop makes its exit certain, zeroes the other edge, keeps
  its exit count, and zeroes every block after the exit, subloop blocks
  included. Blocks and exit edges outside the loop are untouched. The
  mutant without the restore at line 481 breaks it.

### `ImmUse` and `ImmUseSets` (`tree-flow-inline.h` 238-399, 879-886, 993-1121)

Nodes, next and prev:

- `next` and `prev` are the list fields of every node.
- A node is a use operand, an SSA name (its own sentinel
  `SSA_NAME_IMM_USE_NODE`), or `Marker`, the iterator's `iter_node`.
- `val[u]` is `*u->use`.

Every list primitive is an operator on the pair of field functions, so
calls compose as in the code. For example, `set_ssa_use_from_ptr` is
`link_imm_use (delink_imm_use (...))`.

The client actions are:

- `LinkUse` (`link_imm_use_stmt`), `SetUse` (`SET_USE`) and `Relink`
  (`relink_imm_use_stmt`);
- `DelinkStmt` (`delink_stmt_imm_use`, which `gsi_remove` calls): a use
  walk over `SSA_OP_ALL_USES` with the operand iterator, delinking each
  use. The variable `gone` records the removed statements. Their operands
  may not be linked, set or relinked again. PHIs are not removed this way:
  `remove_phi_node`, which is not in `src/`, delinks their arguments
  itself;
- the read-only walk `FirstRo`/`NextRo`/`EndRo`;
- the safe statement walk:
  - `FirstStmt`, `NextStmt` and `Break` (`BREAK_FROM_IMM_USE_STMT`) of
    `FOR_EACH_IMM_USE_STMT`;
  - `FirstOnStmt` and `NextOnStmt` of the inner `FOR_EACH_IMM_USE_ON_STMT`,
    and `BreakOnStmt`, a plain `break` that leaves only the inner loop.

Inside the walk, the body may `SET_USE` the use it has been handed, to any
name or to a constant. It may also link new uses of any statement. Between
inner loops it may remove any statement, the one it is on included. The
inner loop does not start on a removed statement.

`ImmUseSets` is the abstract specification:

- each use belongs to a name;
- a walk hands out, in any order, each statement that used `Var` when it
  began, exactly once;
- on each statement, the walk hands out its uses of `Var`;
- a removed statement's uses leave their names. If the walk has not handed
  the statement out yet, it never will (`Remove`);
- the inner loop may be left early, skipping the statement's remaining
  uses (`LeaveStmt`).

`link_use_stmts_after` takes a statement's uses from the operand
iterator of `SsaOpRoutines` (instanced in `ImmUse` as `Ops`), over the
statement's record in the constant `Operands`. It uses the PHI walk for
PHIs, and it includes virtual uses when the name is not in `Regs`.

The refinement mapping reads the abstract state off the list:

- the statements still to visit are those of the uses after the marker;
- the uses still to hand out are those between the inner loop's next node
  and the marker;
- the uses of removed statements belong to no name.

Fairness: weak fairness on `WalkStep`, the loops' own next calls
(`NextRo`, `EndRo`, `NextOnStmt`, `NextStmt`). In each phase of a walk
exactly one of them is enabled. The `FOR_EACH_IMM_USE_*` macros make the
next call after every body that does not break. Client steps stay
unconstrained, and `Break` may or may not happen.

Run `immuse` (MC module `MC_ImmUse`: names x and y; two statements with two
uses each; s1 an ordinary statement and s2 a register PHI, each listing
its uses in an order that forces `move_use_after_head` to move some) checks five properties:

- `TypeOK`;
- `ChainsWellFormed`: every chain is a ring whose `next` and `prev` agree,
  holding exactly the uses of its name, and the marker only during a
  walk;
- `CountsAgree`: `has_zero_uses`, `has_single_use`, `single_imm_use` and
  `num_imm_uses` agree with the set of uses, for every name not under a
  walk;
- `ImplementsImmUseSets` (`PROPERTY`): the list code implements the
  abstract specification;
- `WalkEnds` (`PROPERTY`): every walk that is not broken off ends,
  whatever the body links, rewrites or removes in between. The walk ends
  because `link_use_stmts_after` leaves the marker behind every gathered
  use.

The state space is every reachable arrangement of up to four uses in two
chains, with s1 removed or not, and walks started at every point. That is
93,000 states in about 110 s. The iterator's pointer lists (`LoopUses`,
`AllUsePtrs`) depend only on constants, so TLC computes them once. Without
that, evaluating the fairness condition, which recomputes
`link_use_stmts_after`, is far too slow.

### `Sbitmap` (`sbitmap.h` 39-184)

Bitmaps of `Size` words of `EltBits` bits, with the population count. Bit
operations are divisions and sums of powers of 2:

- `SET_BIT` and `RESET_BIT` update the count only when the bit changes;
- the forward iterator is `sbitmap_iter_init/cond/next`, with the two skip
  loops of `sbitmap_iter_cond` as recursive operators;
- the reverse macro is `RevSeek`. It reads each word when the outer loop
  reaches it, which is after the previous `CODE` ran.

Inside a walk, the body may change bits the walk has already passed.

Run `sbitmap` (`EltBits` 2, `Size` 3: zero words between set ones, every
`MIN` from 0 to 6, including the first bit past the end) checks four
properties:

- `TypeOK`;
- `PopcountAgree`: every word's population count equals its set bits;
- `ForwardVisitsExactly`: the forward walk hands out exactly the bits from
  `MIN` on that were set when it began, increasing;
- `ReverseVisitsExactly`: the reverse walk hands out exactly the set bits,
  decreasing.

### `OmpConstructs` (`c-omp.c` 39-437)

Trees are records. An expression has an op, a type and operands. A type
has a kind (integer, pointer, float), a precision of 2 or 3 bits, and a
signedness, so every value of a type can be enumerated. `Eval` gives an
expression's value for a value of the iteration variable and of one other
variable `n`. Arithmetic and conversions wrap into the type.
`fold_convert` and `fold_build2` are modelled by the node they build, with
constants folded.

State: `last` (the op of the node last passed to `add_stmt`), `result`
(what the last routine returned), `input` (its arguments), and `calls`.

Actions, one per routine:

- `c_finish_omp_master`, `_ordered`, `_critical`, `_barrier`, `_taskwait`
  and `_flush` build their node and call `add_stmt`;
- `Atomic` is `c_finish_omp_atomic`, with its error paths and the
  `save_expr`/`TARGET_EXPR` wrapping of the address;
- `For` is `c_finish_omp_for`. For each collapsed loop, every check runs
  and any failure sets `fail`:
  - the type check;
  - the init check (`InitOf`);
  - the condition check (`CondCheck`): NOP stripping, operand swap, and
    `!=` rewritten against MIN or MAX;
  - the increment check (`IncrCheck`), with `check_omp_for_incr_expr`
    as a recursive operator.

  The OMP_FOR is added only when no loop failed;
- `Predetermined` is `c_omp_predetermined_sharing`;
- `SplitParallel` is `c_split_parallel_clauses`. Its loop, which reads a
  clause's chain and then relinks the clause onto its output list, is the
  recursive operator `SplitLoop` over the chain function. Its bound `k`
  (one step per input clause) is reached only by a loop that never ends.

`save_expr` and `build_modify_expr` are outside `src/`. Their outcomes
(address invariant or not, error or not) are inputs.

A behaviour is at most `MaxCalls` = 2 calls, ending in `Finished`. A
second call shows that a failed `c_finish_omp_for` adds nothing; more
calls could reach no new result, because no routine reads earlier state.

Runs (MC module `MC_OmpConstructs`):

- `omp_constructs` (14,279 states, about 70 s) checks three properties:
  - `ForCondPreserved`: the test the OMP_FOR holds for each loop is
    `decl OP bound` with OP one of < <= > >=. It holds for exactly the
    values of the variable and of `n` for which the source test holds when
    computed in the variable's type.
  - `ForIncrPreserved`: the increment assigns the variable, in the
    canonical form, the same value the source increment assigns.
  - `SplitExact`: both output lists are NULL-terminated. The parallel list
    holds exactly the parallel clauses of the input. The work-sharing list
    holds exactly the work-sharing clauses and the new nowait clause.

  The inputs are:
  - every comparison code with the variable (possibly widened) on either
    side, or on neither, for a signed, an unsigned, a pointer and a float
    variable;
  - `i = e` for every expression `e` of depth 2 over the variable, `n` and
    1, with conversions between a 2-bit and a 3-bit type;
  - `++`/`--` on an integer and a pointer;
  - collapse(2) with either loop broken in each of six ways;
  - every order of every subset of three clauses, each with two parallel
    and two work-sharing codes.
- `omp_for_step` (violation) checks `ForStepInvariant`: what an accepted
  increment adds does not depend on the variable's value. The code accepts
  `i = i + i` (finding).

### `SsaOpIter`, `OperandWalk` and `SsaOperands` (`tree-flow-inline.h` 604-990)

`SsaOperands` describes the data. A statement is a record with:

- its real defs and uses;
- its VUSE nodes, each a vector of virtual operands;
- its VDEF nodes, each a result and a vector of virtual operands it may use;
- for a PHI, its result, whether that result is a GIMPLE register, and its
  arguments.

An operand slot is `[p |-> address, v |-> tree]`. The SSA_OP_* flags are
sets of names. `Selected(kind, stmt, flags)` is what a walk must hand out:
the selected operands in the statement's order (uses, VUSEs, may-uses,
then defs and VDEF results).

`OperandWalk` is the abstract specification. A caller starts a walk from a
set of admitted calls, is handed `Selected` one operand at a time, and the
walk ends. It has weak fairness on both steps.

`SsaOpRoutines` holds the routines and `SsaOpIter` the loop that calls
them. The routines model the `ssa_op_iter` record field by field. A list field is
the list from the current node on: `->next` is `Tail` and NULL is `<<>>`.
Each `op_iter_next_*` and `op_iter_init_*` routine is an operator that
returns the new iterator and the value the call returns. `op_iter_init`
leaves `iter_type` alone, as the code does. The state is one
`FOR_EACH_SSA_*` loop:

- `Start` is the init call, with a kind, a statement and flags chosen from
  the calls the init routines' `gcc_assert`s admit (`Legal`);
- `Visit` is one loop body followed by the next call;
- `Leave` is the exit once `op_iter_done`.

The queries (`single_ssa_*_operand`, `zero_ssa_operands`,
`num_ssa_operands`, `compare_ssa_operands_equal`, `single_phi_def`) each
run their own iterator; their loops are `RECURSIVE` operators.

Run `ssa_op_iter` (MC module `MC_SsaOpIter`) uses four statements and two
PHIs:

- VUSE vectors of one and two operands;
- VDEFs with may-use vectors of one and two operands;
- a statement with no operands;
- a register PHI and a virtual PHI;
- two statements whose real uses hold the same values;
- one statement whose uses are a proper prefix of another's.

Every legal kind and flag set is started on every statement. The run reaches
1,549 states and checks three properties:

- `TypeOK`: the vector indexes stay within the longest vector.
- `ImplementsOperandWalk`: this is `OperandWalk!Spec` under a refinement
  mapping. The mapping sends the abstract `pending` to the value in hand
  followed by what the iterator's fields still hold (`Remaining`). It shows
  that every loop gets each selected operand exactly once, in order, and
  ends. This covers the index resets, the two cursors into the VDEF list,
  the uses-before-defs order of tree walks, and the early ends of PHI
  walks.
- `QueriesAgree`: at the end of a walk, the queries agree with what the
  walk handed out. `compare_ssa_operands_equal` is checked in both
  argument orders against every statement and against NULL.

Fairness: weak fairness on `Visit` and `Leave`, because the loop's body
always returns to the loop.

## 4. Findings

- `loopunroll_budget`: the peeled-insns budget is not absolute. It applies
  only when the loop also grows (`tree-ssa-loop-ivcanon.c:178`).
- `veclower_shift`: element-wise lowering of a shift by a scalar count
  shifts each lane by a slice of the count (`tree-vect-generic.c:113`).
- `veclower_wide`: a BLKmode vector can get a compute type wider than
  itself (`tree-vect-generic.c:425`).
- `omp_for_step`: `c_finish_omp_for` accepts an increment that reads the
  iteration variable, such as `i = i + i` (`c-omp.c:338`).

Observation, from reading only: `get_lineno` (`tree-flow-inline.h:232`)
returns -1 when the statement has a location, and the line of
`UNKNOWN_LOCATION` when it has none. Its comment says the opposite. It is a
stateless accessor, so no model of it is kept.

## 5. Not modelled, and why

- The diagnostics of `c-omp.c` (`error_at` wording and locations). Only
  whether a routine fails is modelled.
- `get_lineno`: see the observation above.
- The declaration-only headers: they have no behaviour.
- The rest of `tree-flow-inline.h`. Most of it is single field reads and
  writes (annotations, `gimple_*` accessors, `phi_nodes`, statement
  uids), with no state machine to check. A few functions do have
  behaviour, but nothing in `src/` calls them, so a model would need a
  client that nothing in the sources describes:
  - the hash-table walk `first_htab_element` / `next_htab_element` behind
    `FOR_EACH_REFERENCED_VAR` and `fill_referenced_var_vec`;
  - `ranges_overlap_p`, whose `pos + size` can wrap;
  - `mark_call_clobbered` / `clear_call_clobbered`, which keep a flag and
    a bitmap bit in step;
  - the pointer arithmetic of `phi_arg_index_from_use`;
  - the reference walks `ref_contains_array_ref` and
    `array_ref_contains_indirect_ref`.
- `op_iter_next_mustdef`. No function in `src/` calls it, and no
  `FOR_EACH` macro of these sources drives it. Its one check is an
  assertion about vector sizes that the operand scanner, which is not in
  `src/`, sets.
- The extern functions declared in `sbitmap.h`: they are defined in
  `sbitmap.c`, which is not among the sources.
- The scalar-evolution analyser, `gimple_duplicate_loop_to_header_edge`,
  `cleanup_tree_cfg` and `remove_path`: they are not in `src/`. They enter
  only through their results.
