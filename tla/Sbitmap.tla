------------------------------- MODULE Sbitmap -------------------------------
(***************************************************************************)
(* The simple bitmaps of sbitmap.h: Size words of EltBits bits            *)
(* (SBITMAP_ELT_BITS), optionally with a population count per word.  A     *)
(* client sets and resets bits, and walks the set bits forward from MIN    *)
(* with EXECUTE_IF_SET_IN_SBITMAP (sbitmap_iter_init/cond/next) or         *)
(* backward with EXECUTE_IF_SET_IN_SBITMAP_REV.  The loop body may set or  *)
(* reset bits on the side of the walk already visited (the common          *)
(* "RESET_BIT (map, n)" inside the walk).  Words are naturals below        *)
(* 2^EltBits; shifts are divisions and multiplications by powers of 2.     *)
(***************************************************************************)
EXTENDS Integers, Sequences, FiniteSets

CONSTANTS EltBits, Size, HasPopcount

NBits == Size * EltBits
Bits == 0..(NBits - 1)
Word == 0..(2^EltBits - 1)

VARIABLES
    elms,      \* map->elms
    popcount,  \* map->popcount (meaningful when HasPopcount)
    mode,      \* "idle", "fwd" or "rev": which walk is running
    phase,     \* "cond", "body" (N handed to the loop body) or "end"
    it,        \* the walk's iterator: sbitmap_iterator, or the REV locals
    n,         \* N
    min,       \* MIN of the forward walk
    startSet,  \* the bits set when the walk began
    visited    \* the N the walk has handed out, in order

vars == <<elms, popcount, mode, phase, it, n, min, startSet, visited>>

Bit(w, k) == (w \div 2^k) % 2

RECURSIVE Ones(_, _)
\* The number of set bits among the low k bits of w.
Ones(w, k) == IF k = 0 THEN 0 ELSE Bit(w, k - 1) + Ones(w, k - 1)

SetOf(e) == {b \in Bits : Bit(e[b \div EltBits], b % EltBits) = 1}

\* What the loops return when there is no bit left to hand out.
End == [done |-> TRUE]

IsEnd(r) == "done" \in DOMAIN r

\* TEST_BIT.
TEST_BIT(e, b) == Bit(e[b \div EltBits], b % EltBits)
-----------------------------------------------------------------------------
(* SET_BIT and RESET_BIT, on the record [elms, pop].                       *)

\* Mutant: the population count bumped whether or not the bit was set.
SetBitAlwaysCount(m, b) ==
    LET w == b \div EltBits
        k == b % EltBits
    IN  [elms |-> [m.elms EXCEPT ![w] = IF Bit(@, k) = 1 THEN @ ELSE @ + 2^k],
         pop  |-> IF HasPopcount THEN [m.pop EXCEPT ![w] = @ + 1] ELSE m.pop]

SET_BIT(m, b) ==
    LET w == b \div EltBits
        k == b % EltBits
    IN  [elms |-> [m.elms EXCEPT ![w] = IF Bit(@, k) = 1 THEN @ ELSE @ + 2^k],
         pop  |-> IF HasPopcount /\ TEST_BIT(m.elms, b) = 0
                  THEN [m.pop EXCEPT ![w] = @ + 1] ELSE m.pop]

\* Mutant: the population count dropped whether or not the bit was set.
ResetBitAlwaysCount(m, b) ==
    LET w == b \div EltBits
        k == b % EltBits
    IN  [elms |-> [m.elms EXCEPT ![w] = IF Bit(@, k) = 1 THEN @ - 2^k ELSE @],
         pop  |-> IF HasPopcount THEN [m.pop EXCEPT ![w] = @ - 1] ELSE m.pop]

RESET_BIT(m, b) ==
    LET w == b \div EltBits
        k == b % EltBits
    IN  [elms |-> [m.elms EXCEPT ![w] = IF Bit(@, k) = 1 THEN @ - 2^k ELSE @],
         pop  |-> IF HasPopcount /\ TEST_BIT(m.elms, b) = 1
                  THEN [m.pop EXCEPT ![w] = @ - 1] ELSE m.pop]
-----------------------------------------------------------------------------
(* The forward iterator, on i = [wordNum, bitNum, word].                   *)

\* Mutant: the first word not shifted down to MIN.
IterInitNoShift(e, mn) ==
    LET wn == mn \div EltBits
    IN  [wordNum |-> wn, bitNum |-> mn,
         word |-> IF wn >= Size THEN 0 ELSE e[wn]]

sbitmap_iter_init(e, mn) ==
    LET wn == mn \div EltBits
    IN  [wordNum |-> wn, bitNum |-> mn,
         word |-> IF wn >= Size THEN 0 ELSE e[wn] \div 2^(mn % EltBits)]

RECURSIVE SkipZeroWords(_, _)
\* The first loop of sbitmap_iter_cond: the next nonzero word, or End.
SkipZeroWords(e, i) ==
    IF i.word # 0 THEN i
    ELSE IF i.wordNum + 1 >= Size THEN End
    ELSE LET wn == i.wordNum + 1
         IN  SkipZeroWords(e, [wordNum |-> wn, bitNum |-> wn * EltBits,
                               word |-> e[wn]])

RECURSIVE SkipZeroBits(_)
\* The second loop: shift out the zero bits below the next set one.
SkipZeroBits(i) ==
    IF i.word % 2 = 1 THEN i
    ELSE SkipZeroBits([i EXCEPT !.word = @ \div 2, !.bitNum = @ + 1])

\* sbitmap_iter_cond: the iterator at the next set bit, or End.
sbitmap_iter_cond(e, i) ==
    LET j == SkipZeroWords(e, i)
    IN  IF IsEnd(j) THEN End ELSE SkipZeroBits(j)

sbitmap_iter_next(i) == [i EXCEPT !.word = @ \div 2, !.bitNum = @ + 1]
-----------------------------------------------------------------------------
(* The reverse walk, on the macro's locals r = [wn, bn, w, loaded]:        *)
(* word_num_, bit_num_, the copy word_, and whether word_ has been read   *)
(* for this word_num_.                                                     *)

RECURSIVE RevSeekOffByOne(_, _)
\* Mutant: N computed one too high.
RevSeekOffByOne(e, r) ==
    IF ~r.loaded
    THEN IF r.wn = 0 THEN End
         ELSE IF e[r.wn - 1] = 0
              THEN RevSeekOffByOne(e, [r EXCEPT !.wn = @ - 1])
              ELSE RevSeekOffByOne(e, [r EXCEPT !.bn = EltBits, !.w = e[r.wn - 1],
                                          !.loaded = TRUE])
    ELSE IF r.bn = 0
         THEN RevSeekOffByOne(e, [r EXCEPT !.wn = @ - 1, !.loaded = FALSE])
         ELSE IF Bit(r.w, r.bn - 1) = 1
              THEN LET w2 == r.w - 2^(r.bn - 1)
                   IN  [n    |-> (r.wn - 1) * EltBits + r.bn,
                        rest |-> IF w2 = 0
                                 THEN [r EXCEPT !.wn = @ - 1, !.w = 0,
                                                !.loaded = FALSE]
                                 ELSE [r EXCEPT !.bn = @ - 1, !.w = w2]]
              ELSE RevSeekOffByOne(e, [r EXCEPT !.bn = @ - 1])

RECURSIVE RevSeek(_, _)
\* EXECUTE_IF_SET_IN_SBITMAP_REV up to its next CODE: the N handed out and
\* the locals the loop continues from after CODE (after the break when the
\* copy word_ became 0), or End.  word_ is read from the bitmap at the
\* head of each outer iteration, so after the previous CODE ran.
RevSeek(e, r) ==
    IF ~r.loaded
    THEN IF r.wn = 0 THEN End
         ELSE IF e[r.wn - 1] = 0
              THEN RevSeek(e, [r EXCEPT !.wn = @ - 1])
              ELSE RevSeek(e, [r EXCEPT !.bn = EltBits, !.w = e[r.wn - 1],
                                        !.loaded = TRUE])
    ELSE IF r.bn = 0
         THEN RevSeek(e, [r EXCEPT !.wn = @ - 1, !.loaded = FALSE])
         ELSE IF Bit(r.w, r.bn - 1) = 1
              THEN LET w2 == r.w - 2^(r.bn - 1)
                   IN  [n    |-> (r.wn - 1) * EltBits + r.bn - 1,
                        rest |-> IF w2 = 0
                                 THEN [r EXCEPT !.wn = @ - 1, !.w = 0,
                                                !.loaded = FALSE]
                                 ELSE [r EXCEPT !.bn = @ - 1, !.w = w2]]
              ELSE RevSeek(e, [r EXCEPT !.bn = @ - 1])
-----------------------------------------------------------------------------
(* The client.                                                             *)

M == [elms |-> elms, pop |-> popcount]

\* sbitmap_alloc(_with_popcount) followed by sbitmap_zero.
Init ==
    /\ elms = [w \in 0..(Size - 1) |-> 0]
    /\ popcount = [w \in 0..(Size - 1) |-> 0]
    /\ mode = "idle" /\ phase = "cond"
    /\ it = [wordNum |-> 0, bitNum |-> 0, word |-> 0]
    /\ n = 0 /\ min = 0 /\ startSet = {} /\ visited = <<>>

\* The bits the client may change: any outside a walk; inside a loop body,
\* those on the side the walk has passed.
Changeable ==
    CASE mode = "idle"                   -> Bits
      [] mode = "fwd" /\ phase = "body"  -> 0..n
      [] mode = "rev" /\ phase = "body"  -> n..(NBits - 1)
      [] OTHER                           -> {}

Update(m) ==
    /\ elms' = m.elms /\ popcount' = m.pop
    /\ UNCHANGED <<mode, phase, it, n, min, startSet, visited>>

SetBit(b) == b \in Changeable /\ Update(SET_BIT(M, b))

ResetBit(b) == b \in Changeable /\ Update(RESET_BIT(M, b))

\* EXECUTE_IF_SET_IN_SBITMAP (map, mn, N, ITER): sbitmap_iter_init.
FwdInit(mn) ==
    /\ mode = "idle"
    /\ mode' = "fwd" /\ phase' = "cond"
    /\ it' = sbitmap_iter_init(elms, mn)
    /\ min' = mn /\ startSet' = SetOf(elms) /\ visited' = <<>>
    /\ UNCHANGED <<elms, popcount, n>>

\* The loop test sbitmap_iter_cond: N handed to the body, or the end.
FwdCond ==
    /\ mode = "fwd" /\ phase = "cond"
    /\ LET j == sbitmap_iter_cond(elms, it)
       IN  IF IsEnd(j)
           THEN phase' = "end" /\ UNCHANGED <<it, n, visited>>
           ELSE /\ it' = j /\ n' = j.bitNum /\ phase' = "body"
                /\ visited' = Append(visited, j.bitNum)
    /\ UNCHANGED <<elms, popcount, mode, min, startSet>>

\* The body done, the loop step sbitmap_iter_next.
FwdNext ==
    /\ mode = "fwd" /\ phase = "body"
    /\ it' = sbitmap_iter_next(it) /\ phase' = "cond"
    /\ UNCHANGED <<elms, popcount, mode, n, min, startSet, visited>>

\* EXECUTE_IF_SET_IN_SBITMAP_REV: word_num_ = size_.
RevInit ==
    /\ mode = "idle"
    /\ mode' = "rev" /\ phase' = "cond"
    /\ it' = [wn |-> Size, bn |-> 0, w |-> 0, loaded |-> FALSE]
    /\ startSet' = SetOf(elms) /\ visited' = <<>>
    /\ UNCHANGED <<elms, popcount, n, min>>

\* The macro's loops up to the next CODE, or to their end.
RevCond ==
    /\ mode = "rev" /\ phase = "cond"
    /\ LET r == RevSeek(elms, it)
       IN  IF IsEnd(r)
           THEN phase' = "end" /\ UNCHANGED <<it, n, visited>>
           ELSE /\ it' = r.rest /\ n' = r.n /\ phase' = "body"
                /\ visited' = Append(visited, r.n)
    /\ UNCHANGED <<elms, popcount, mode, min, startSet>>

RevNext ==
    /\ mode = "rev" /\ phase = "body"
    /\ phase' = "cond"
    /\ UNCHANGED <<elms, popcount, mode, it, n, min, startSet, visited>>

\* The walk is over; the client goes on.
EndWalk ==
    /\ mode # "idle" /\ phase = "end"
    /\ mode' = "idle" /\ phase' = "cond"
    /\ it' = [wordNum |-> 0, bitNum |-> 0, word |-> 0]
    /\ n' = 0 /\ min' = 0 /\ startSet' = {} /\ visited' = <<>>
    /\ UNCHANGED <<elms, popcount>>

Next ==
    \/ \E b \in Bits : SetBit(b) \/ ResetBit(b)
    \/ \E mn \in 0..NBits : FwdInit(mn)
    \/ FwdCond \/ FwdNext
    \/ RevInit \/ RevCond \/ RevNext
    \/ EndWalk

Spec == Init /\ [][Next]_vars
-----------------------------------------------------------------------------
(* Properties.                                                             *)

TypeOK ==
    /\ elms \in [0..(Size - 1) -> Word]
    /\ popcount \in [0..(Size - 1) -> 0..EltBits]
    /\ mode \in {"idle", "fwd", "rev"} /\ phase \in {"cond", "body", "end"}
    /\ n \in Bits \cup {0} /\ min \in 0..NBits
    /\ startSet \subseteq Bits /\ visited \in Seq(Bits)

\* SET_BIT and RESET_BIT keep each word's population count equal to the
\* number of its set bits, over any sequence of calls, setting bits already
\* set and resetting bits already clear included.
PopcountAgree ==
    HasPopcount => \A w \in 0..(Size - 1) : popcount[w] = Ones(elms[w], EltBits)

\* EXECUTE_IF_SET_IN_SBITMAP hands out, in increasing order and once each,
\* exactly the bits from MIN on that were set when it began, across zero
\* words and word boundaries, with the body resetting or setting bits it
\* has passed.
ForwardVisitsExactly ==
    mode = "fwd" /\ phase = "end" =>
        /\ \A i \in 1..(Len(visited) - 1) : visited[i] < visited[i + 1]
        /\ {visited[i] : i \in 1..Len(visited)} = {b \in startSet : b >= min}

\* EXECUTE_IF_SET_IN_SBITMAP_REV hands out, in decreasing order and once
\* each, exactly the bits set when it began, the body changing bits it has
\* passed.
ReverseVisitsExactly ==
    mode = "rev" /\ phase = "end" =>
        /\ \A i \in 1..(Len(visited) - 1) : visited[i] > visited[i + 1]
        /\ {visited[i] : i \in 1..Len(visited)} = startSet
====
