------------------------------- MODULE ImmUse -------------------------------
(***************************************************************************)
(* The immediate-use chains of tree-flow-inline.h.  Every SSA name heads a *)
(* circular doubly linked list through its sentinel node                   *)
(* SSA_NAME_IMM_USE_NODE; the list holds the use operands whose operand is *)
(* that name.  A name is its own sentinel here, a use operand is a node of *)
(* Uses, and Marker is the iter_node of the one imm_use_iterator.  next    *)
(* and prev are the node fields; val[u] is *u->use, the name the operand   *)
(* holds or NoName for a constant.  StmtOf[u] is u->loc.stmt; Operands[s] *)
(* is statement s's operand lists as SsaOperands describes them (a slot's *)
(* address is its use node), which the operand iterator of SsaOpRoutines  *)
(* walks for link_use_stmts_after.  Regs are the names that are GIMPLE    *)
(* registers.                                                              *)
(*                                                                         *)
(* The client is the pass code around the chains: it builds operands       *)
(* (link_imm_use_stmt), rewrites them (SET_USE), moves an operand to a new *)
(* node (relink_imm_use_stmt), removes statements (delink_stmt_imm_use),   *)
(* and walks the uses of Var either read-only or with the safe statement   *)
(* iterator, whose body may rewrite the uses it is handed, link new uses   *)
(* and remove statements.                                                  *)
(***************************************************************************)
EXTENDS Integers, Sequences, FiniteSets
LOCAL SE == INSTANCE SequencesExt

CONSTANTS Names, Var, Uses, Stmts, StmtOf, Operands, Regs, Marker, Null,
          NoName, NoStmt, NoUse

ASSUME /\ Var \in Names
       /\ StmtOf \in [Uses -> Stmts]
       /\ Regs \subseteq Names

Nodes == Uses \cup Names \cup {Marker}

VARIABLES
    next, prev,   \* the list fields of every node
    val,          \* *use->use of every use operand
    walk,         \* "idle", "ro", or the statement walk: "stmt", "use", "after"
    immUse,       \* imm->imm_use
    nextImmName,  \* imm->next_imm_name
    stmt,         \* the STMT the statement walk is at
    gone          \* the statements delink_stmt_imm_use has taken out

vars == <<next, prev, val, walk, immUse, nextImmName, stmt, gone>>

Walking == {"stmt", "use", "after"}

\* The list fields as one value, so that the helpers compose like the calls.
L == [nx |-> next, pv |-> prev]

SetL(r) == next' = r.nx /\ prev' = r.pv
-----------------------------------------------------------------------------
(* The list primitives.                                                    *)

\* Mutant: the successor's prev is not updated.
DelinkNoBackPtr(lk, n) ==
    IF lk.pv[n] = Null THEN lk
    ELSE [nx |-> [lk.nx EXCEPT ![lk.pv[n]] = lk.nx[n], ![n] = Null],
          pv |-> [lk.pv EXCEPT ![n] = Null]]

\* delink_imm_use: nothing if the node is in no list.
delink_imm_use(lk, n) ==
    IF lk.pv[n] = Null THEN lk
    ELSE [nx |-> [lk.nx EXCEPT ![lk.pv[n]] = lk.nx[n], ![n] = Null],
          pv |-> [lk.pv EXCEPT ![lk.nx[n]] = lk.pv[n], ![n] = Null]]

\* Mutant: the node is linked at the tail of the list, before the sentinel.
LinkAtTail(lk, n, list) ==
    LET last == lk.pv[list]
    IN  [nx |-> [lk.nx EXCEPT ![n] = list, ![last] = n],
         pv |-> [lk.pv EXCEPT ![n] = last, ![list] = n]]

\* link_imm_use_to_list: the node goes right after list.
link_imm_use_to_list(lk, n, list) ==
    LET first == lk.nx[list]
    IN  [nx |-> [lk.nx EXCEPT ![n] = first, ![list] = n],
         pv |-> [lk.pv EXCEPT ![n] = list, ![first] = n]]

\* link_imm_use: into the chain of def when it is an SSA name.
link_imm_use(lk, n, def) ==
    IF def \notin Names THEN [lk EXCEPT !.pv[n] = Null]
    ELSE link_imm_use_to_list(lk, n, def)

\* set_ssa_use_from_ptr (SET_USE): out of the old chain, into the new one.
set_ssa_use_from_ptr(lk, u, v) == link_imm_use(delink_imm_use(lk, u), u, v)

\* relink_imm_use: node takes old's place; old's prev is cleared.
relink_imm_use(lk, node, old) ==
    LET p == lk.pv[old]
        q == lk.nx[old]
        nx1 == [lk.nx EXCEPT ![node] = q]
        pv1 == [lk.pv EXCEPT ![node] = p]
    IN  IF p = Null THEN [nx |-> nx1, pv |-> pv1]
        ELSE [nx |-> [nx1 EXCEPT ![p] = node],
              pv |-> [pv1 EXCEPT ![q] = node, ![old] = Null]]

\* link_imm_use_stmt: the statement is never NULL for the operands built here.
link_imm_use_stmt(lk, n, def) == link_imm_use(lk, n, def)

\* relink_imm_use_stmt, likewise with a statement.
relink_imm_use_stmt(lk, node, old) == relink_imm_use(lk, node, old)
-----------------------------------------------------------------------------
(* The list walks and counts.                                              *)

RECURSIVE Follow(_, _, _)
\* The nodes from a on, up to (not including) stop, at most k of them.
Follow(a, stop, k) ==
    IF a = stop \/ a = Null \/ k = 0 THEN <<>>
    ELSE <<a>> \o Follow(next[a], stop, k - 1)

Chain(n) == Follow(next[n], n, Cardinality(Nodes))

SeqSet(s) == {s[i] : i \in 1..Len(s)}

has_zero_uses(n) == next[n] = n

\* Mutant: ptr != ptr->next dropped.
HasSingleUseNoEmptyCheck(n) == next[next[n]] = n

has_single_use(n) == next[n] # n /\ next[next[n]] = n

\* single_imm_use: the use and its statement when there is exactly one.
single_imm_use(n) ==
    IF next[n] # n /\ next[next[n]] = n THEN <<TRUE, next[n], StmtOf[next[n]]>>
    ELSE <<FALSE, NoUse, NoStmt>>

num_imm_uses(n) == Len(Chain(n))

\* first_readonly_imm_use: imm_use = end_p->next.
first_readonly_imm_use(n) == next[n]

\* next_readonly_imm_use: imm_use = old->next.
next_readonly_imm_use(u) == next[u]

\* move_use_after_head, on r = [lk, last]: a use of head's statement and
\* name is moved to right after last, unless it is head or already there.
move_use_after_head(r, u, head) ==
    IF u = head THEN r
    ELSE IF r.lk.nx[r.last] = u THEN [r EXCEPT !.last = u]
    ELSE [lk |-> link_imm_use_to_list(delink_imm_use(r.lk, u), u, r.last),
          last |-> u]

RECURSIVE MoveUses(_, _, _)
MoveUses(r, head, s) ==
    IF s = <<>> THEN r
    ELSE MoveUses(move_use_after_head(r, Head(s), head), head, Tail(s))

\* The NULL statement of the operand iterator.
NoOperands ==
    [id |-> NoStmt, phi |-> FALSE, defs |-> <<>>, uses |-> <<>>, vuses |-> <<>>,
     vdefs |-> <<>>, res |-> [p |-> NoUse, v |-> NoName], reg |-> FALSE,
     args |-> <<>>]

Ops == INSTANCE SsaOpRoutines WITH NoStmt <- NoOperands

\* The use operands a FOR_EACH_PHI_ARG or FOR_EACH_SSA_USE_OPERAND loop is
\* handed, from the result n of its init call on.
RECURSIVE UsePtrs(_)
UsePtrs(n) ==
    IF n.it.done THEN <<>> ELSE <<n.r.p>> \o UsePtrs(Ops!op_iter_next_use(n.it))

\* The loop of link_use_stmts_after over statement s: real or virtual uses
\* as the name v is a register or not, through the PHI arguments for a PHI
\* and the use operands otherwise (the pointers it is handed, for every s
\* and v); the body keeps those holding v.
LoopUses ==
    [s \in Stmts, v \in Names |->
        LET ops  == Operands[s]
            flag == IF v \in Regs THEN {"USE"} ELSE Ops!VirtualUses
        IN  UsePtrs(IF ops.phi
                    THEN Ops!op_iter_init_phiuse(Ops!ClearedIter, ops, flag)
                    ELSE Ops!op_iter_init_use(Ops!ClearedIter, ops, flag))]

StmtUses(s, v) == SelectSeq(LoopUses[s, v], LAMBDA u : val[u] = v)

\* Mutant: the marker goes in front of the gathered uses.
LinkUseStmtsMarkerBefore(lk, head) ==
    LET r   == MoveUses([lk |-> lk, last |-> head], head,
                        StmtUses(StmtOf[head], val[head]))
        lk2 == IF r.lk.pv[Marker] # Null THEN delink_imm_use(r.lk, Marker)
               ELSE r.lk
    IN  link_imm_use_to_list(lk2, Marker, lk2.pv[head])

\* link_use_stmts_after: the uses of head's statement gathered after head,
\* then the marker moved after the last of them.
link_use_stmts_after(lk, head) ==
    LET r   == MoveUses([lk |-> lk, last |-> head], head,
                        StmtUses(StmtOf[head], val[head]))
        lk2 == IF r.lk.pv[Marker] # Null THEN delink_imm_use(r.lk, Marker)
               ELSE r.lk
    IN  link_imm_use_to_list(lk2, Marker, r.last)

\* delink_stmt_imm_use (ssa_operands_active): FOR_EACH_SSA_USE_OPERAND over
\* SSA_OP_ALL_USES, delinking each use operand it is handed.
AllUsePtrs ==
    [s \in Stmts |-> UsePtrs(Ops!op_iter_init_use(Ops!ClearedIter, Operands[s], Ops!AllUses))]

delink_stmt_imm_use(lk, s) == SE!FoldLeft(delink_imm_use, lk, AllUsePtrs[s])
-----------------------------------------------------------------------------
(* The client's calls.                                                     *)

Init ==
    /\ next = [n \in Nodes |-> IF n \in Names THEN n ELSE Null]
    /\ prev = [n \in Nodes |-> IF n \in Names THEN n ELSE Null]
    /\ val = [u \in Uses |-> NoName]
    /\ walk = "idle" /\ immUse = Null /\ nextImmName = Null
    /\ stmt = NoStmt /\ gone = {}

\* Operand building links a fresh use operand of name n, also from inside
\* the body of a statement walk (a statement inserted there).
LinkUse(u, n) ==
    /\ walk \in {"idle"} \cup Walking
    /\ val[u] = NoName /\ StmtOf[u] \notin gone
    /\ val' = [val EXCEPT ![u] = n]
    /\ SetL(link_imm_use_stmt(L, u, n))
    /\ UNCHANGED <<walk, immUse, nextImmName, stmt, gone>>

\* SET_USE (u, n): anywhere outside a walk, and inside the statement walk on
\* the use FOR_EACH_IMM_USE_ON_STMT has handed out.
SetUse(u, n) ==
    /\ \/ walk = "idle" /\ StmtOf[u] \notin gone
       \/ walk = "use" /\ u = immUse
    /\ val' = [val EXCEPT ![u] = n]
    /\ SetL(set_ssa_use_from_ptr(L, u, n))
    /\ UNCHANGED <<walk, immUse, nextImmName, stmt, gone>>

\* The operand of old moves to the fresh node of the same statement, which
\* takes old's place in the chain (relink_imm_use_stmt).
Relink(node, old) ==
    /\ walk = "idle"
    /\ node # old /\ StmtOf[node] = StmtOf[old] /\ StmtOf[old] \notin gone
    /\ val[node] = NoName /\ val[old] \in Names
    /\ val' = [val EXCEPT ![node] = val[old], ![old] = NoName]
    /\ SetL(relink_imm_use_stmt(L, node, old))
    /\ UNCHANGED <<walk, immUse, nextImmName, stmt, gone>>

\* FOR_EACH_IMM_USE_FAST: first_readonly_imm_use, then next_readonly_imm_use
\* until the sentinel.
FirstRo ==
    /\ walk = "idle"
    /\ immUse' = first_readonly_imm_use(Var)
    /\ walk' = "ro"
    /\ UNCHANGED <<next, prev, val, nextImmName, stmt, gone>>

NextRo ==
    /\ walk = "ro" /\ immUse # Var
    /\ immUse' = next_readonly_imm_use(immUse)
    /\ UNCHANGED <<next, prev, val, walk, nextImmName, stmt, gone>>

EndRo ==
    /\ walk = "ro" /\ immUse = Var
    /\ walk' = "idle" /\ immUse' = Null
    /\ UNCHANGED <<next, prev, val, nextImmName, stmt, gone>>

\* first_imm_use_stmt on a name with uses: the marker's fields cleared,
\* the first statement's uses gathered behind the first use.
FirstStmt ==
    /\ walk = "idle"
    /\ next[Var] # Var
    /\ LET h   == next[Var]
           lk0 == [L EXCEPT !.nx[Marker] = Null, !.pv[Marker] = Null]
       IN  /\ SetL(link_use_stmts_after(lk0, h))
           /\ immUse' = h
           /\ stmt' = StmtOf[h]
    /\ walk' = "stmt"
    /\ UNCHANGED <<val, nextImmName, gone>>

\* first_imm_use_on_stmt: the current use, its successor saved; not on a
\* statement the body has removed.
FirstOnStmt ==
    /\ walk = "stmt" /\ stmt \notin gone
    /\ nextImmName' = next[immUse]
    /\ walk' = "use"
    /\ UNCHANGED <<next, prev, val, immUse, stmt, gone>>

\* Mutant: imm_use = imm_use->next, read after the body ran.
NextOnStmtStale ==
    /\ walk = "use"
    /\ immUse' = next[immUse]
    /\ IF next[immUse] = Marker THEN walk' = "after" ELSE UNCHANGED walk
    /\ UNCHANGED <<next, prev, val, nextImmName, stmt, gone>>

\* next_imm_use_on_stmt: on to the saved successor; the marker ends it.
NextOnStmt ==
    /\ walk = "use"
    /\ immUse' = nextImmName
    /\ IF nextImmName = Marker THEN walk' = "after" /\ UNCHANGED nextImmName
       ELSE nextImmName' = next[nextImmName] /\ UNCHANGED walk
    /\ UNCHANGED <<next, prev, val, stmt, gone>>

\* next_imm_use_stmt: the use after the marker; the sentinel ends the walk
\* and takes the marker out.
NextStmt ==
    /\ walk \in {"stmt", "after"}
    /\ LET h == next[Marker]
       IN  IF h = Var
           THEN /\ SetL(delink_imm_use(L, Marker))
                /\ walk' = "idle" /\ immUse' = Null /\ stmt' = NoStmt
           ELSE /\ SetL(link_use_stmts_after(L, h))
                /\ walk' = "stmt" /\ immUse' = h /\ stmt' = StmtOf[h]
    /\ UNCHANGED <<val, nextImmName, gone>>

\* A break out of the body of FOR_EACH_IMM_USE_ON_STMT leaves only the inner
\* loop: the uses of the statement not yet handed out are skipped and the
\* outer loop's next_imm_use_stmt comes next.
BreakOnStmt ==
    /\ walk = "use"
    /\ walk' = "after"
    /\ UNCHANGED <<next, prev, val, immUse, nextImmName, stmt, gone>>

\* BREAK_FROM_IMM_USE_STMT: end_imm_use_stmt_traverse takes the marker out.
Break ==
    /\ walk \in Walking
    /\ SetL(delink_imm_use(L, Marker))
    /\ walk' = "idle" /\ immUse' = Null /\ stmt' = NoStmt
    /\ UNCHANGED <<val, nextImmName, gone>>

\* A statement is removed (gsi_remove, which calls delink_stmt_imm_use), with
\* no walk on or from the body of a statement walk, though not inside its
\* inner loop.  PHIs are removed by remove_phi_node, which delinks their
\* arguments itself.
DelinkStmt(s) ==
    /\ walk \in {"idle", "stmt", "after"}
    /\ s \notin gone /\ ~Operands[s].phi
    /\ SetL(delink_stmt_imm_use(L, s))
    /\ gone' = gone \cup {s}
    /\ UNCHANGED <<val, walk, immUse, nextImmName, stmt>>

Next ==
    \/ \E u \in Uses, n \in Names : LinkUse(u, n)
    \/ \E s \in Stmts : DelinkStmt(s)
    \/ \E u \in Uses, n \in Names \cup {NoName} : SetUse(u, n)
    \/ \E node, old \in Uses : Relink(node, old)
    \/ FirstRo \/ NextRo \/ EndRo
    \/ FirstStmt \/ FirstOnStmt \/ NextOnStmt \/ NextStmt \/ BreakOnStmt \/ Break

\* The loop's own steps: in each phase of a walk exactly one is enabled.
WalkStep == NextRo \/ EndRo \/ NextOnStmt \/ NextStmt

\* The loops of FOR_EACH_IMM_USE_FAST and FOR_EACH_IMM_USE_STMT call their
\* next routine after every body that does not break; the bodies the client
\* runs are finite, so a pending next call is eventually made.
Spec == Init /\ [][Next]_vars /\ WF_vars(WalkStep)
-----------------------------------------------------------------------------
(* Properties.                                                             *)

\* The operands of statements still in the function.
LiveUses == {u \in Uses : StmtOf[u] \notin gone}

UsesOf(n) == {u \in LiveUses : val[u] = n}

TypeOK ==
    /\ next \in [Nodes -> Nodes \cup {Null}]
    /\ prev \in [Nodes -> Nodes \cup {Null}]
    /\ val \in [Uses -> Names \cup {NoName}]
    /\ walk \in {"idle", "ro"} \cup Walking
    /\ walk # "idle" => immUse \in Nodes
    /\ walk = "use" => nextImmName \in Nodes
    /\ stmt \in Stmts \cup {NoStmt}
    /\ gone \subseteq Stmts

\* Every chain stays a well-formed ring through its sentinel (next and prev
\* inverse along it) holding exactly the operands whose *use is that name,
\* plus the iterator's marker in Var's chain while a statement walk is on
\* and nowhere else; an operand holding no name, or of a removed statement,
\* is in no chain.  Violated by any link, delink, relink, move or statement
\* removal that leaves a pointer behind, possibly only after several later
\* calls.
ChainsWellFormed ==
    /\ \A n \in Names :
          LET ring == <<n>> \o Chain(n)
              k    == Len(ring)
          IN  /\ \A i \in 1..k : /\ next[ring[i]] = ring[(i % k) + 1]
                                 /\ prev[ring[(i % k) + 1]] = ring[i]
              /\ SeqSet(Chain(n)) \ {Marker} = UsesOf(n)
              /\ (Marker \in SeqSet(Chain(n))) <=> (n = Var /\ walk \in Walking)
    /\ \A u \in Uses : val[u] = NoName \/ u \notin LiveUses => prev[u] = Null

\* has_zero_uses, has_single_use, single_imm_use and num_imm_uses, which
\* read only the first nodes of a chain, agree with the set of uses of the
\* name, for every name not under a statement walk (where the marker is in
\* the chain).
CountsAgree ==
    \A n \in Names :
        (n # Var \/ walk \notin Walking) =>
            /\ num_imm_uses(n) = Cardinality(UsesOf(n))
            /\ has_zero_uses(n) <=> UsesOf(n) = {}
            /\ has_single_use(n) <=> Cardinality(UsesOf(n)) = 1
            /\ single_imm_use(n)[1] =>
                  /\ UsesOf(n) = {single_imm_use(n)[2]}
                  /\ single_imm_use(n)[3] = StmtOf[single_imm_use(n)[2]]

\* Every walk over the uses of Var that is not broken off ends, however the
\* body links, rewrites and removes: next_imm_use_stmt always moves the
\* marker past the statement it gathered, and the read-only walk reaches
\* the sentinel.
WalkEnds == (walk # "idle") ~> (walk = "idle")

\* The refinement mapping: the statements still to visit are those of the
\* uses after the marker; the uses still to hand out on the current
\* statement are those between the inner loop's next node and the marker.
Rest(a, stop) == SeqSet(Follow(a, stop, Cardinality(Nodes))) \cap LiveUses

Abs == INSTANCE ImmUseSets WITH
    owner  <- [u \in Uses |-> IF u \in LiveUses THEN val[u] ELSE NoName],
    walk   <- IF walk = "ro" THEN "idle" ELSE walk,
    todo   <- IF walk \in Walking
              THEN {StmtOf[u] : u \in Rest(next[Marker], Var)} ELSE {},
    cur    <- IF walk \in Walking THEN stmt ELSE NoStmt,
    offer  <- CASE walk = "stmt" -> Rest(immUse, Marker)
                [] walk = "use"  -> Rest(nextImmName, Marker)
                [] OTHER         -> {},
    curUse <- IF walk = "use" THEN immUse ELSE NoUse

\* The chains implement the abstract use sets, and the safe statement walk
\* (first/next_imm_use_stmt with link_use_stmts_after and the marker, and
\* the inner first/next_imm_use_on_stmt) hands out each statement that used
\* Var when it began and has not been removed before its turn exactly once,
\* and on it exactly its uses of Var, while the body rewrites the uses it
\* is handed, links new ones and removes statements.
ImplementsImmUseSets == Abs!Spec
====
