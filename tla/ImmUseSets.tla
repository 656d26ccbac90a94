----------------------------- MODULE ImmUseSets -----------------------------
(***************************************************************************)
(* What the immediate-use chains of tree-flow-inline.h promise, without    *)
(* the lists: each use operand belongs to the name its operand holds, and  *)
(* a statement walk over the uses of Var (FOR_EACH_IMM_USE_STMT with the   *)
(* inner FOR_EACH_IMM_USE_ON_STMT) hands out each statement that used Var  *)
(* when the walk began exactly once, in some order, and for each one the   *)
(* uses of Var on it.  While a statement is visited its offered uses       *)
(* may be rewritten and new uses may be linked anywhere; neither adds      *)
(* work to the walk.  The body may leave the inner loop early, skipping    *)
(* the statement's remaining uses.  A statement may be removed, also from  *)
(* the walk's body: its uses leave their names, and if the walk has not    *)
(* handed it out yet it never will.                                        *)
(***************************************************************************)
EXTENDS Naturals, FiniteSets

CONSTANTS Names, Var, Uses, Stmts, StmtOf, NoName, NoStmt, NoUse

VARIABLES
    owner,   \* the name each use operand holds (NoName: none)
    walk,    \* "idle", "stmt" (in the body), "use" (in the inner loop), "after"
    todo,    \* statements still to be handed out
    cur,     \* the statement being visited
    offer,   \* uses of Var on cur not yet handed out
    curUse   \* the use the inner loop is at

avars == <<owner, walk, todo, cur, offer, curUse>>

Walking == {"stmt", "use", "after"}

UsesOf(n) == {u \in Uses : owner[u] = n}

StmtsOf(n) == {StmtOf[u] : u \in UsesOf(n)}

Init ==
    /\ owner = [u \in Uses |-> NoName]
    /\ walk = "idle" /\ todo = {} /\ cur = NoStmt /\ offer = {} /\ curUse = NoUse

\* A use operand takes a new value (or a new operand node takes the place of
\* an old one); the walk is not affected.
Change ==
    /\ owner' \in [Uses -> Names \cup {NoName}]
    /\ Cardinality({u \in Uses : owner'[u] # owner[u]}) \in 1..2
    /\ UNCHANGED <<walk, todo, cur, offer, curUse>>

\* Visit statement s: its uses of Var become the offer.
Visit(s) ==
    /\ cur' = s
    /\ offer' = {u \in UsesOf(Var) : StmtOf[u] = s}
    /\ walk' = "stmt"
    /\ curUse' = NoUse

Start ==
    /\ walk = "idle"
    /\ UsesOf(Var) # {}
    /\ \E s \in StmtsOf(Var) : Visit(s) /\ todo' = StmtsOf(Var) \ {s}
    /\ UNCHANGED owner

Offer ==
    /\ walk \in {"stmt", "use"}
    /\ \E u \in offer : curUse' = u /\ offer' = offer \ {u}
    /\ walk' = "use"
    /\ UNCHANGED <<owner, todo, cur>>

EndOffer ==
    /\ walk = "use" /\ offer = {}
    /\ walk' = "after" /\ curUse' = NoUse
    /\ UNCHANGED <<owner, todo, cur, offer>>

NextStmt ==
    /\ walk \in {"stmt", "after"}
    /\ \/ /\ todo = {}
          /\ walk' = "idle" /\ cur' = NoStmt /\ offer' = {} /\ curUse' = NoUse
          /\ UNCHANGED todo
       \/ \E s \in todo : Visit(s) /\ todo' = todo \ {s}
    /\ UNCHANGED owner

\* The inner loop is left early: the uses still on offer are not handed out.
LeaveStmt ==
    /\ walk = "use"
    /\ walk' = "after" /\ offer' = {} /\ curUse' = NoUse
    /\ UNCHANGED <<owner, todo, cur>>

Break ==
    /\ walk \in Walking
    /\ walk' = "idle" /\ todo' = {} /\ cur' = NoStmt /\ offer' = {} /\ curUse' = NoUse
    /\ UNCHANGED owner

\* Statement s is removed; not inside the walk's inner loop.
Remove(s) ==
    /\ walk \in {"idle", "stmt", "after"}
    /\ owner' = [u \in Uses |-> IF StmtOf[u] = s THEN NoName ELSE owner[u]]
    /\ todo' = todo \ {s}
    /\ offer' = IF s = cur THEN {} ELSE offer
    /\ UNCHANGED <<walk, cur, curUse>>

Next == Change \/ Start \/ Offer \/ EndOffer \/ NextStmt \/ LeaveStmt \/ Break
        \/ (\E s \in Stmts : Remove(s))

Spec == Init /\ [][Next]_avars
====
