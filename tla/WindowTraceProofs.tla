-------------------------- MODULE WindowTraceProofs --------------------------
(***************************************************************************)
(* The window recorder is right for every window length and every set of   *)
(* items: its pool is sound, its windows are those that occurred, and an   *)
(* offset never changes its window.  The invariant says what WindowsExact  *)
(* leaves open: that bbRecent (cgRecent) is the end of what has been seen. *)
(***************************************************************************)
EXTENDS WindowTrace, TLAPS

-----------------------------------------------------------------------------
(* What covering an item does. *)

\* A new coverage is sound and covers nothing.
LEMMA EmptyCoverageSound ==
  ASSUME NEW w \in Nat \ {0}, NEW Things, NEW blank \in Things
  PROVE  /\ CoverageSound(w, Things, EmptyCoverage(w, blank))
         /\ Windows(w, EmptyCoverage(w, blank)) = {}
<1> DEFINE r == [i \in 1..w |-> blank]
<1>1. r \in Seq(Things) /\ Len(r) = w
  OBVIOUS
<1> QED
  BY <1>1 DEF CoverageSound, Windows, EmptyCoverage

\* Sliding a window keeps its length.
LEMMA SlideType ==
  ASSUME NEW w \in Nat \ {0}, NEW Things
  PROVE  \A r \in Seq(Things), x \in Things :
           Len(r) = w => Slide(r, x) \in Seq(Things) /\ Len(Slide(r, x)) = w
  BY DEF Slide

\* Appending to the pool changes no window that lies inside it, and the copy
\* is found at the old end.
LEMMA ExtendedWindows ==
  ASSUME NEW w \in Nat \ {0}, NEW Things, NEW pool \in Seq(Things), NEW r \in Seq(Things),
         Len(r) = w
  PROVE  /\ \A p \in Nat : p + w <= Len(pool) =>
              WindowAt(w, pool \o r, p) = WindowAt(w, pool, p)
         /\ WindowAt(w, pool \o r, Len(pool)) = r
<1>1. pool \o r \in Seq(Things) /\ Len(pool \o r) = Len(pool) + w
  OBVIOUS
<1>2. ASSUME NEW p \in Nat, p + w <= Len(pool)
      PROVE  WindowAt(w, pool \o r, p) = WindowAt(w, pool, p)
  <2>1. \A i \in 1..w : (pool \o r)[p + i] = pool[p + i]
    BY <1>2
  <2>2. /\ Len(SubSeq(pool \o r, p + 1, p + w)) = w
        /\ \A i \in 1..w : SubSeq(pool \o r, p + 1, p + w)[i] = (pool \o r)[p + i]
    BY <1>1, <1>2
  <2>3. /\ Len(SubSeq(pool, p + 1, p + w)) = w
        /\ \A i \in 1..w : SubSeq(pool, p + 1, p + w)[i] = pool[p + i]
    BY <1>2
  <2> QED
    BY <2>1, <2>2, <2>3, <1>1, <1>2 DEF WindowAt
<1>3. WindowAt(w, pool \o r, Len(pool)) = r
  BY <1>1 DEF WindowAt
<1> QED
  BY <1>2, <1>3

\* Sequences with the same items are the same.
LEMMA SameItems ==
  ASSUME NEW Things, NEW p \in Seq(Things), NEW q \in Seq(Things), NEW n \in Nat,
         Len(p) = n, Len(q) = n, \A k \in 1..n : p[k] = q[k]
  PROVE  p = q
<1>1. /\ DOMAIN p = 1..n /\ DOMAIN q = 1..n
      /\ p = [k \in 1..n |-> p[k]] /\ q = [k \in 1..n |-> q[k]]
  OBVIOUS
<1> QED
  BY <1>1

\* w items of a sequence from a place on.
LEMMA PieceIs ==
  ASSUME NEW w \in Nat \ {0}, NEW Things, NEW s \in Seq(Things), NEW n \in Nat, n + w <= Len(s)
  PROVE  /\ SubSeq(s, n + 1, n + w) \in Seq(Things) /\ Len(SubSeq(s, n + 1, n + w)) = w
         /\ \A k \in 1..w : SubSeq(s, n + 1, n + w)[k] = s[n + k]
<1>1. n + 1 \in 1..Len(s) + 1 /\ n + w \in 0..Len(s) /\ (n + w) - (n + 1) + 1 = w
  OBVIOUS
<1>2. \A k \in 1..w : (n + 1) + k - 1 = n + k /\ n + k \in 1..Len(s)
  OBVIOUS
<1> QED
  BY <1>1, <1>2

\* Along a sequence P that grows by x: the window of w items that ends at the
\* last item slides to the one that ends at x, and older windows stay.
LEMMA WindowsAlong ==
  ASSUME NEW w \in Nat \ {0}, NEW Things
  PROVE  \A P \in Seq(Things), L \in Nat, x \in Things : Len(P) = w + L =>
           /\ Slide(WindowAt(w, P, L), x) = WindowAt(w, Append(P, x), L + 1)
           /\ \A n \in 1..L : WindowAt(w, Append(P, x), n) = WindowAt(w, P, n)
<1> SUFFICES ASSUME NEW P \in Seq(Things), NEW L \in Nat, NEW x \in Things, Len(P) = w + L
             PROVE  /\ Slide(WindowAt(w, P, L), x) = WindowAt(w, Append(P, x), L + 1)
                    /\ \A n \in 1..L : WindowAt(w, Append(P, x), n) = WindowAt(w, P, n)
  OBVIOUS
<1> DEFINE r == SubSeq(P, L + 1, L + w)
           Q == Append(P, x)
<1>1. /\ Q \in Seq(Things) /\ Len(Q) = w + L + 1
      /\ Q[w + L + 1] = x
      /\ \A k \in 1 .. w + L : Q[k] = P[k]
  <2>1. Len(P) \in Nat /\ Len(P) + 1 = w + L + 1 /\ 1 .. Len(P) = 1 .. w + L
    OBVIOUS
  <2>2. /\ Q \in Seq(Things) /\ Len(Q) = Len(P) + 1 /\ Q[Len(P) + 1] = x
        /\ \A k \in 1 .. Len(P) : Q[k] = P[k]
    OBVIOUS
  <2> HIDE DEF Q
  <2> QED
    BY <2>1, <2>2
<1>2. /\ r \in Seq(Things) /\ Len(r) = w
      /\ \A k \in 1..w : r[k] = P[L + k]
  OBVIOUS
<1> HIDE DEF r, Q
<1>3. Slide(r, x) = SubSeq(Q, L + 2, L + 1 + w)
  <2>1. /\ Tail(r) \in Seq(Things) /\ Len(Tail(r)) = w - 1
        /\ \A k \in 1 .. w - 1 : Tail(r)[k] = r[k + 1]
    BY <1>2
  <2> DEFINE T == Tail(r)
  <2> HIDE DEF T
  <2>2. /\ Append(T, x) \in Seq(Things) /\ Len(Append(T, x)) = w
        /\ Append(T, x)[w] = x
        /\ \A k \in 1 .. w - 1 : Append(T, x)[k] = T[k]
    BY <2>1 DEF T
  <2>3. /\ SubSeq(Q, L + 2, L + 1 + w) \in Seq(Things)
        /\ Len(SubSeq(Q, L + 2, L + 1 + w)) = w
        /\ \A k \in 1..w : SubSeq(Q, L + 2, L + 1 + w)[k] = Q[L + 1 + k]
    <3>1. L + 1 \in Nat /\ (L + 1) + w <= Len(Q) /\ (L + 1) + 1 = L + 2
      BY <1>1
    <3> QED
      BY <1>1, <3>1, PieceIs
  <2>4. ASSUME NEW k \in 1..w PROVE Append(T, x)[k] = Q[L + 1 + k]
    <3>1. CASE k = w
      BY <1>1, <2>2, <3>1
    <3>2. CASE k \in 1 .. w - 1
      <4>1. Append(T, x)[k] = r[k + 1]
        BY <2>1, <2>2, <3>2 DEF T
      <4>2. k + 1 \in 1..w /\ L + (k + 1) \in 1 .. w + L
        BY <3>2
      <4>3. r[k + 1] = P[L + (k + 1)] /\ Q[L + (k + 1)] = P[L + (k + 1)]
        BY <1>1, <1>2, <4>2
      <4>4. L + (k + 1) = L + 1 + k
        BY <3>2
      <4> QED
        BY <4>1, <4>3, <4>4
    <3>3. k = w \/ k \in 1 .. w - 1
      OBVIOUS
    <3> QED
      BY <3>1, <3>2, <3>3
  <2> DEFINE left  == Append(T, x)
             right == SubSeq(Q, L + 2, L + 1 + w)
  <2>5. /\ left \in Seq(Things) /\ right \in Seq(Things)
        /\ Len(left) = w /\ Len(right) = w
        /\ \A k \in 1..w : left[k] = right[k]
    BY <2>2, <2>3, <2>4
  <2> HIDE DEF left, right
  <2>6. left = right
    BY <2>5, SameItems
  <2> QED
    BY <2>6 DEF Slide, T, left, right
<1>4. ASSUME NEW n \in 1..L
      PROVE  SubSeq(Q, n + 1, n + w) = SubSeq(P, n + 1, n + w)
  <2> DEFINE new == SubSeq(Q, n + 1, n + w)  old == SubSeq(P, n + 1, n + w)
  <2>1. n \in Nat /\ n + w <= Len(P) /\ n + w <= Len(Q)
    BY <1>1, <1>4
  <2>2. new \in Seq(Things) /\ Len(new) = w /\ \A k \in 1..w : new[k] = Q[n + k]
    BY <1>1, <2>1, PieceIs
  <2>3. old \in Seq(Things) /\ Len(old) = w /\ \A k \in 1..w : old[k] = P[n + k]
    BY <2>1, PieceIs
  <2>4. \A k \in 1..w : Q[n + k] = P[n + k]
    BY <1>1, <1>4
  <2> HIDE DEF new, old
  <2>5. new = old
    <3>1. \A k \in 1..w : new[k] = old[k]
      BY <2>2, <2>3, <2>4
    <3> QED
      BY <2>2, <2>3, <3>1, SameItems
  <2> QED
    BY <2>5 DEF new, old
<1>5. Slide(WindowAt(w, P, L), x) = WindowAt(w, Append(P, x), L + 1)
  <2>1. (L + 1) + 1 = L + 2 /\ (L + 1) + w = L + 1 + w
    OBVIOUS
  <2>2. WindowAt(w, P, L) = r /\ WindowAt(w, Q, L + 1) = SubSeq(Q, L + 2, L + 1 + w)
    BY <2>1 DEF WindowAt, r
  <2> QED
    BY <1>3, <2>2 DEF Q
<1>6. \A n \in 1..L : WindowAt(w, Q, n) = WindowAt(w, P, n)
  BY <1>4 DEF WindowAt
<1> QED
  BY <1>5, <1>6 DEF Q

(***************************************************************************)
(* Covering one more item keeps the coverage sound and adds exactly the    *)
(* new window to what dump() will print: truncating the pool after a       *)
(* duplicate loses nothing, and deduplicating through offsets is the same  *)
(* as keeping a set of windows.                                            *)
(***************************************************************************)
THEOREM CoverAddsWindow ==
  ASSUME NEW w \in Nat \ {0}, NEW Things, NEW rcd, CoverageSound(w, Things, rcd),
         NEW x \in Things
  PROVE  /\ CoverageSound(w, Things, Cover(w, rcd, x))
         /\ Windows(w, Cover(w, rcd, x)) = Windows(w, rcd) \union {Slide(rcd.recent, x)}
<1> DEFINE next     == Slide(rcd.recent, x)
           offset   == Len(rcd.pool)
           extended == rcd.pool \o next
           known    == \E p \in rcd.offsets :
                         WindowAt(w, extended, p) = WindowAt(w, extended, offset)
           new      == Cover(w, rcd, x)
<1>1. /\ rcd.recent \in Seq(Things) /\ Len(rcd.recent) = w
      /\ rcd.pool \in Seq(Things) /\ offset \in Nat
      /\ \A p \in rcd.offsets : p \in Nat /\ p + w <= offset
  BY DEF CoverageSound
<1>2. next \in Seq(Things) /\ Len(next) = w
  <2>1. \A r \in Seq(Things) : Len(r) = w => Slide(r, x) \in Seq(Things) /\ Len(Slide(r, x)) = w
    BY SlideType
  <2> QED
    BY <1>1, <2>1, Zenon DEF next
<1> HIDE DEF next
<1>3. extended \in Seq(Things) /\ Len(extended) = offset + w
  BY <1>1, <1>2
<1>4. /\ \A p \in rcd.offsets : WindowAt(w, extended, p) = WindowAt(w, rcd.pool, p)
      /\ WindowAt(w, extended, offset) = next
  BY <1>1, <1>2, ExtendedWindows
<1>5. CASE known
  <2>1. /\ new.recent = next /\ new.pool = rcd.pool /\ new.offsets = rcd.offsets
    BY <1>5 DEF Cover, next
  <2>2. CoverageSound(w, Things, new)
    BY <1>2, <2>1 DEF CoverageSound
  <2>3. Windows(w, new) = Windows(w, rcd) /\ next \in Windows(w, rcd)
    BY <1>4, <1>5, <2>1 DEF Windows
  <2> QED
    BY <2>2, <2>3 DEF next
<1>6. CASE ~known
  <2>1. /\ new.recent = next /\ new.pool = extended
        /\ new.offsets = rcd.offsets \union {offset}
    BY <1>6 DEF Cover, next
  <2> HIDE DEF new
  <2>2. \A p \in new.offsets : p \in Nat /\ p + w <= Len(new.pool)
    BY <1>1, <1>3, <2>1
  <2>3. ASSUME NEW i \in 1..Len(new.pool)
        PROVE  \E p \in new.offsets : p < i /\ i <= p + w
    <3>1. CASE i <= offset
      <4>1. PICK p \in rcd.offsets : p < i /\ i <= p + w
        BY <1>1, <3>1, <2>3 DEF CoverageSound
      <4> QED
        BY <2>1, <4>1
    <3>2. CASE i > offset
      <4>1. i <= offset + w /\ offset \in new.offsets
        BY <1>3, <2>1, <2>3
      <4> QED
        BY <3>2, <4>1
    <3> QED
      BY <3>1, <3>2, <1>1
  <2>4. ASSUME NEW p \in new.offsets, NEW q \in new.offsets, p # q
        PROVE  /\ p + w <= q \/ q + w <= p
               /\ WindowAt(w, new.pool, p) # WindowAt(w, new.pool, q)
    <3>1. CASE p \in rcd.offsets /\ q \in rcd.offsets
      BY <1>4, <2>1, <2>4, <3>1 DEF CoverageSound
    <3>2. CASE p = offset /\ q \in rcd.offsets
      BY <1>1, <1>4, <1>6, <2>1, <3>2
    <3>3. CASE q = offset /\ p \in rcd.offsets
      BY <1>1, <1>4, <1>6, <2>1, <3>3
    <3> QED
      BY <2>1, <2>4, <3>1, <3>2, <3>3
  <2>5. CoverageSound(w, Things, new)
    BY <1>2, <1>3, <2>1, <2>2, <2>3, <2>4 DEF CoverageSound
  <2>6. Windows(w, new) = Windows(w, rcd) \union {next}
    BY <1>4, <2>1 DEF Windows
  <2> QED
    BY <2>5, <2>6 DEF new, next
<1> QED
  BY <1>5, <1>6

(***************************************************************************)
(* bbCoverage and cgCoverage hash an offset through the items stored there:*)
(* covering an item keeps every offset in the set and its window what it   *)
(* was, also when the pool is cut back, so no entry ever has to move.      *)
(***************************************************************************)
THEOREM CoverKeepsWindows ==
  ASSUME NEW w \in Nat \ {0}, NEW Things, NEW rcd, CoverageSound(w, Things, rcd),
         NEW x \in Things
  PROVE  \A p \in rcd.offsets :
           /\ p \in Cover(w, rcd, x).offsets
           /\ WindowAt(w, Cover(w, rcd, x).pool, p) = WindowAt(w, rcd.pool, p)
<1> DEFINE next == Slide(rcd.recent, x)
<1>1. /\ rcd.recent \in Seq(Things) /\ Len(rcd.recent) = w
      /\ rcd.pool \in Seq(Things)
      /\ \A p \in rcd.offsets : p \in Nat /\ p + w <= Len(rcd.pool)
  BY DEF CoverageSound
<1>2. next \in Seq(Things) /\ Len(next) = w
  <2>1. \A r \in Seq(Things), y \in Things :
          Len(r) = w => Slide(r, y) \in Seq(Things) /\ Len(Slide(r, y)) = w
    BY SlideType
  <2> QED
    BY <1>1, <2>1
<1> HIDE DEF next
<1>3. \A p \in rcd.offsets :
        WindowAt(w, rcd.pool \o next, p) = WindowAt(w, rcd.pool, p)
  BY <1>1, <1>2, ExtendedWindows
<1>4. /\ Cover(w, rcd, x).pool = rcd.pool \/ Cover(w, rcd, x).pool = rcd.pool \o next
      /\ rcd.offsets \subseteq Cover(w, rcd, x).offsets
  <2> DEFINE known == \E p \in rcd.offsets :
                        WindowAt(w, rcd.pool \o next, p) = WindowAt(w, rcd.pool \o next, Len(rcd.pool))
  <2>1. CASE known
    <3>1. Cover(w, rcd, x).pool = rcd.pool /\ Cover(w, rcd, x).offsets = rcd.offsets
      BY <2>1 DEF Cover, next
    <3> QED
      BY <3>1
  <2>2. CASE ~known
    <3>1. /\ Cover(w, rcd, x).pool = rcd.pool \o next
          /\ Cover(w, rcd, x).offsets = rcd.offsets \union {Len(rcd.pool)}
      BY <2>2 DEF Cover, next
    <3> QED
      BY <3>1
  <2> QED
    BY <2>1, <2>2
<1> QED
  BY <1>3, <1>4

-----------------------------------------------------------------------------
(* The recorder, item by item. *)

\* Everything that has been recent when s has been seen, oldest first.
PaddedTo(w, blank, s) == [k \in 1..w |-> blank] \o s

\* A recorder has seen s: it is sound, its recent window is the end of s, and
\* its windows are those that end at an item of s.
Recorded(w, Things, blank, rcd, s) ==
  /\ CoverageSound(w, Things, rcd)
  /\ rcd.recent = WindowAt(w, PaddedTo(w, blank, s), Len(s))
  /\ Windows(w, rcd) = {WindowAt(w, PaddedTo(w, blank, s), n) : n \in 1..Len(s)}

\* A padded sequence is w longer than what was seen.
LEMMA PaddedType ==
  ASSUME NEW w \in Nat \ {0}, NEW Things, NEW blank \in Things, NEW s \in Seq(Things)
  PROVE  /\ PaddedTo(w, blank, s) \in Seq(Things)
         /\ Len(PaddedTo(w, blank, s)) = w + Len(s)
<1>1. /\ [k \in 1..w |-> blank] \in Seq(Things)
      /\ Len([k \in 1..w |-> blank]) = w
  OBVIOUS
<1> QED
  BY <1>1 DEF PaddedTo

\* A new recorder has seen nothing.
LEMMA NothingRecorded ==
  ASSUME NEW w \in Nat \ {0}, NEW Things, NEW blank \in Things
  PROVE  Recorded(w, Things, blank, EmptyCoverage(w, blank), <<>>)
<1> DEFINE r == [k \in 1..w |-> blank]
<1>1. PICK none : none = <<>>
  OBVIOUS
<1>2. Len(none) = 0 /\ 1..0 = {}
  BY <1>1
<1>3. r \in Seq(Things) /\ Len(r) = w
  OBVIOUS
<1>4. PaddedTo(w, blank, none) = r
  BY <1>1, <1>3 DEF PaddedTo
<1>5. EmptyCoverage(w, blank).recent = r
  BY DEF EmptyCoverage
<1> HIDE DEF r
<1>6. WindowAt(w, r, 0) = r
  BY <1>3 DEF WindowAt
<1>7. /\ CoverageSound(w, Things, EmptyCoverage(w, blank))
      /\ Windows(w, EmptyCoverage(w, blank)) = {}
  BY EmptyCoverageSound
<1>8. {WindowAt(w, PaddedTo(w, blank, none), n) : n \in 1..Len(none)} = {}
  BY <1>2
<1>9. Recorded(w, Things, blank, EmptyCoverage(w, blank), none)
  BY <1>2, <1>4, <1>5, <1>6, <1>7, <1>8 DEF Recorded
<1> QED
  BY <1>1, <1>9

\* Seeing an item: the padded sequence grows by it, and the recent window
\* moves one position along it.
LEMMA OneMoreRecorded ==
  ASSUME NEW w \in Nat \ {0}, NEW Things, NEW blank \in Things, NEW s \in Seq(Things),
         NEW rcd, Recorded(w, Things, blank, rcd, s), NEW x \in Things
  PROVE  Recorded(w, Things, blank, Cover(w, rcd, x), Append(s, x))
<1> DEFINE P   == PaddedTo(w, blank, s)
           Q   == PaddedTo(w, blank, Append(s, x))
           L   == Len(s)
           new == Cover(w, rcd, x)
<1>1. L \in Nat /\ Append(s, x) \in Seq(Things) /\ Len(Append(s, x)) = L + 1
  OBVIOUS
<1>2. P \in Seq(Things) /\ Len(P) = w + L
  BY PaddedType
<1>3. Q = Append(P, x)
  <2>1. [k \in 1..w |-> blank] \in Seq(Things)
    OBVIOUS
  <2> QED
    BY <2>1 DEF PaddedTo
<1>4. /\ CoverageSound(w, Things, rcd)
      /\ rcd.recent = WindowAt(w, P, L)
      /\ Windows(w, rcd) = {WindowAt(w, P, n) : n \in 1..L}
  BY DEF Recorded
<1>5. new.recent = Slide(rcd.recent, x)
  BY DEF Cover
<1>6. /\ CoverageSound(w, Things, new)
      /\ Windows(w, new) = Windows(w, rcd) \union {Slide(rcd.recent, x)}
  BY <1>4, CoverAddsWindow
<1> HIDE DEF P, Q, L, new
<1>7. /\ Slide(WindowAt(w, P, L), x) = WindowAt(w, Q, L + 1)
      /\ \A n \in 1..L : WindowAt(w, Q, n) = WindowAt(w, P, n)
  BY <1>1, <1>2, <1>3, WindowsAlong
<1>8. Windows(w, new) = {WindowAt(w, Q, n) : n \in 1 .. L + 1}
  <2>1. Windows(w, rcd) = {WindowAt(w, Q, n) : n \in 1..L}
    BY <1>4, <1>7
  <2>2. 1 .. L + 1 = 1..L \union {L + 1}
    BY <1>1
  <2> QED
    BY <1>4, <1>6, <1>7, <2>1, <2>2
<1>9. new.recent = WindowAt(w, Q, L + 1)
  BY <1>4, <1>5, <1>7
<1> QED
  BY <1>1, <1>6, <1>8, <1>9 DEF Recorded, Q, new

\* The recorder of a behaviour has recorded what has been seen.
IInv ==
  /\ seen \in Seq(Items)
  /\ Recorded(W, Item, Blank, cov, seen)

\* A new recorder satisfies the invariant.
LEMMA InitIInv == WindowInit => IInv
<1> SUFFICES ASSUME WindowInit PROVE IInv
  OBVIOUS
<1>1. W \in Nat \ {0} /\ Blank \in Item
  BY WindowTraceAssumption DEF Item
<1>2. Recorded(W, Item, Blank, EmptyCoverage(W, Blank), <<>>)
  BY <1>1, NothingRecorded
<1> QED
  BY <1>2 DEF WindowInit, IInv

\* Seeing an item keeps the invariant.
LEMMA SeeIInv ==
  ASSUME IInv, NEW x \in Items, See(x)
  PROVE  IInv'
<1>1. W \in Nat \ {0} /\ Blank \in Item /\ x \in Item
  BY WindowTraceAssumption DEF Item
<1>2. seen \in Seq(Items) /\ seen \in Seq(Item) /\ Recorded(W, Item, Blank, cov, seen)
  BY DEF IInv, Item
<1>3. cov' = Cover(W, cov, x) /\ seen' = Append(seen, x)
  BY DEF See
<1>4. Recorded(W, Item, Blank, Cover(W, cov, x), Append(seen, x))
  BY <1>1, <1>2, OneMoreRecorded
<1>5. seen' \in Seq(Items)
  BY <1>2, <1>3
<1> QED
  BY <1>3, <1>4, <1>5 DEF IInv, Item

\* The invariant holds in every behaviour.
LEMMA Invariance == WindowSpec => []IInv
<1>1. IInv /\ [WindowNext]_wtVars => IInv'
  <2> SUFFICES ASSUME IInv, [WindowNext]_wtVars PROVE IInv'
    OBVIOUS
  <2>1. CASE WindowNext
    BY <2>1, SeeIInv DEF WindowNext
  <2>2. CASE UNCHANGED wtVars
    BY <2>2 DEF wtVars, IInv, Item
  <2> QED
    BY <2>1, <2>2
<1> QED
  BY InitIInv, <1>1, PTL DEF WindowSpec

(***************************************************************************)
(* The pool of a recorder is sound in every execution, for every window    *)
(* length: the hash set never looks outside the pool, no two of its        *)
(* entries are alike, and nothing but covered windows takes room.          *)
(***************************************************************************)
THEOREM PoolAlwaysSound == WindowSpec => []PoolSound
<1>1. IInv => PoolSound
  BY DEF IInv, Recorded, PoolSound
<1> QED
  BY Invariance, <1>1, PTL

(***************************************************************************)
(* The dump is exact in every execution: the windows that occurred.        *)
(***************************************************************************)
THEOREM DumpExact == WindowSpec => []WindowsExact
<1>1. IInv => WindowsExact
  BY DEF IInv, Recorded, WindowsExact, Ending, Padded, PaddedTo, WindowAt
<1> QED
  BY Invariance, <1>1, PTL
=============================================================================
