----------------------------- MODULE WindowTrace -----------------------------
(***************************************************************************)
(* One window recorder of the hook runtime on its own, with the sequence   *)
(* of items it has seen: the BASICBLOCK branch of stopAndConsume, and the  *)
(* second half of its BEGINSCOPE branch.                                   *)
(***************************************************************************)
EXTENDS Coverage

CONSTANTS
  W,       \* BBCtxPlusOne or CGCtxPlusOne
  Items,   \* basic blocks, or calls
  Blank,   \* the entry for "nothing yet"
  MaxSeen  \* bound: items of one execution

ASSUME WindowTraceAssumption == W \in Nat \ {0} /\ MaxSeen \in Nat

VARIABLES
  cov,  \* bbRecent, allocaPool and bbCoverage (cgRecent, cgPool, cgCoverage)
  seen  \* the items in their order

wtVars == <<cov, seen>>

WindowInit == cov = EmptyCoverage(W, Blank) /\ seen = <<>>

See(x) ==
  /\ Len(seen) < MaxSeen
  /\ cov' = Cover(W, cov, x)
  /\ seen' = Append(seen, x)

WindowNext == \E x \in Items : See(x)

WindowSpec == WindowInit /\ [][WindowNext]_wtVars

-----------------------------------------------------------------------------
(* Properties. *)

Item == Items \union {Blank}

\* Everything that has been recent, oldest first.
Padded == [k \in 1..W |-> Blank] \o seen

\* The W items up to the n-th one seen.
Ending(n) == SubSeq(Padded, n + 1, n + W)

(***************************************************************************)
(* bbCoverage and allocaPool (cgCoverage and cgPool) stay consistent: the  *)
(* pool is the covered windows end to end, no two alike, whatever repeats. *)
(***************************************************************************)
PoolSound == CoverageSound(W, Item, cov)

(***************************************************************************)
(* The dump is exact: a row for each window of W items that occurred, and  *)
(* no other row.                                                           *)
(***************************************************************************)
WindowsExact ==
  Windows(W, cov) = {Ending(n) : n \in 1..Len(seen)}
=============================================================================
