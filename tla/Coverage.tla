------------------------------ MODULE Coverage ------------------------------
(***************************************************************************)
(* How the hook runtime records sliding windows: the last w items seen     *)
(* (bbRecent, cgRecent), one flat pool into which every window is copied   *)
(* (allocaPool, cgPool), and an unordered set of pool offsets (bbCoverage, *)
(* cgCoverage) whose hash and equality look through the offset at the w    *)
(* items stored there.                                                     *)
(*                                                                         *)
(* Basic-block windows hold block ids, call windows hold a function with   *)
(* the abstract values of its arguments; the code is the same twice.  An   *)
(* offset p stands for the items p+1 .. p+w of the pool.                   *)
(***************************************************************************)
EXTENDS Integers, Sequences

\* The constructor: w copies of the "no such item" entry, nothing covered.
EmptyCoverage(w, blank) ==
  [recent |-> [i \in 1..w |-> blank], pool |-> <<>>, offsets |-> {}]

\* erase(begin), push_back(x).
Slide(recent, x) == Append(Tail(recent), x)

\* Mutant: two windows are equal when their first items are.
WindowAtFirst(w, pool, p) == SubSeq(pool, p + 1, p + 1)

\* The window at an offset: what BBRecordHash and CgRecordHash compare.
WindowAt(w, pool, p) == SubSeq(pool, p + 1, p + w)

\* Mutant: the copy is dropped and its offset is kept.
CoverDangling(w, cov, x) ==
  LET next     == Slide(cov.recent, x)
      offset   == Len(cov.pool)
      extended == cov.pool \o next
      known    == \E p \in cov.offsets : WindowAt(w, extended, p) = next
  IN  [recent  |-> next,
       pool    |-> IF known THEN cov.pool ELSE extended,
       offsets |-> cov.offsets \union {offset}]

\* One item is seen: copy the new window to the end of the pool, and keep the
\* copy only if no window like it has been covered.
Cover(w, cov, x) ==
  LET next     == Slide(cov.recent, x)
      offset   == Len(cov.pool)
      extended == cov.pool \o next
      known    == \E p \in cov.offsets :
                    WindowAt(w, extended, p) = WindowAt(w, extended, offset)
  IN  [recent  |-> next,
       pool    |-> IF known THEN cov.pool ELSE extended,
       offsets |-> IF known THEN cov.offsets ELSE cov.offsets \union {offset}]

\* What dump() prints: the windows at the covered offsets.
Windows(w, cov) == {WindowAt(w, cov.pool, p) : p \in cov.offsets}

(***************************************************************************)
(* A coverage is sound: the pool is nothing but the covered windows, each  *)
(* once, end to end.  The hash set depends on it: an offset whose window   *)
(* lay beyond the pool, or overlapped another, would read past the end of  *)
(* a vector or change its hash after it was inserted.                      *)
(***************************************************************************)
CoverageSound(w, Item, cov) ==
  /\ cov.recent \in Seq(Item) /\ Len(cov.recent) = w
  /\ cov.pool \in Seq(Item)
  /\ \A p \in cov.offsets : p \in Nat /\ p + w <= Len(cov.pool)
  /\ \A i \in 1..Len(cov.pool) : \E p \in cov.offsets : p < i /\ i <= p + w
  /\ \A p, q \in cov.offsets : p # q =>
       /\ p + w <= q \/ q + w <= p
       /\ WindowAt(w, cov.pool, p) # WindowAt(w, cov.pool, q)
=============================================================================
