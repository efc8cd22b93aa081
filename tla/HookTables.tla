----------------------------- MODULE HookTables -----------------------------
(***************************************************************************)
(* The tables of the hook runtime (class PtaHook) and what one record does *)
(* to them: the body of the loop in PtaHook::stopAndConsume, one operator  *)
(* per PTR_ACTION, each with the mode test the code makes.                 *)
(*                                                                         *)
(* ArgPool and PtrTypePool only ever grow, so a slice of them is modelled  *)
(* by its contents; ScopeAllocaPool is kept with its offsets.  callContext *)
(* keeps the functions only: the types stored with them are never read.    *)
(***************************************************************************)
EXTENDS Coverage

CONSTANTS
  Mode,          \* the analyses recorded: a subset of {"ptr", "bb", "cg"}
  K,             \* PTACXX_K
  BBCtxPlusOne,  \* PTACXX_BB_CTX + 1
  CGCtxPlusOne   \* PTACXX_CG_CTX + 1

ASSUME HookTablesAssumption ==
  /\ Mode \subseteq {"ptr", "bb", "cg"}
  /\ K \in Nat
  /\ BBCtxPlusOne \in Nat \ {0}
  /\ CGCtxPlusOne \in Nat \ {0}

NoVId    == -1
NoRecord == [vid |-> NoVId, args |-> <<>>]

Tables ==
  [ptrToVid    |-> <<>>,      \* base address -> [vid, size]
   pts         |-> {},        \* <<pointer, target, context>>
   scopeStack  |-> <<>>,      \* [vid, start, end]
   allocaPool  |-> <<>>,      \* ScopeAllocaPool: addresses
   bb          |-> EmptyCoverage(BBCtxPlusOne, NoVId),
   pendingArgs |-> <<>>,
   callContext |-> <<>>,      \* functions
   consMap     |-> <<>>,      \* address -> sequence of [vid, size]
   cg          |-> EmptyCoverage(CGCtxPlusOne, NoRecord)]

Bind(f, a, v)  == [b \in DOMAIN f \union {a} |-> IF b = a THEN v ELSE f[b]]
Unbind(f, S)   == [b \in DOMAIN f \ S |-> f[b]]
Last(s)        == s[Len(s)]
DropLast(s)    == SubSeq(s, 1, Len(s) - 1)

-----------------------------------------------------------------------------
(* Objects. *)

\* The addresses a scope's slice [start, end) names.
SliceAddrs(t, scope) == {t.allocaPool[k + 1] : k \in scope.start .. scope.end - 1}

\* ALLOCA: the end of the scope's slice is taken before the address is pushed.
Alloca(t, r) ==
  LET newEnd == Len(t.allocaPool) IN
  [t EXCEPT !.ptrToVid = Bind(@, r.ptr, [vid |-> r.vid, size |-> r.size]),
            !.allocaPool = Append(@, r.ptr),
            !.scopeStack = [@ EXCEPT ![Len(@)].end = newEnd]]

\* HEAP_ALLOCA and REGION.
Region(t, r) ==
  [t EXCEPT !.ptrToVid = Bind(@, r.ptr, [vid |-> r.vid, size |-> r.size])]

\* HEAP_FREE
Free(t, r) == [t EXCEPT !.ptrToVid = Unbind(@, {r.ptr})]

\* upper_bound(addr), one step back: the greatest base not above the address.
BasesUpTo(t, addr) == {b \in DOMAIN t.ptrToVid : b <= addr}
BaseOf(t, addr) ==
  CHOOSE b \in BasesUpTo(t, addr) : \A c \in BasesUpTo(t, addr) : c <= b

\* Mutant: the whole stack.
ContextUnbounded(t) == [j \in 1 .. Len(t.scopeStack) |-> t.scopeStack[j].vid]

\* The context stored with a target: K scopes from the bottom of the stack.
Context(t) ==
  [j \in 1 .. (IF Len(t.scopeStack) < K THEN Len(t.scopeStack) ELSE K) |->
     t.scopeStack[j].vid]

\* Mutant: one past the end counts as inside.
CoversEnd(t, addr) ==
  /\ BasesUpTo(t, addr) # {}
  /\ addr <= BaseOf(t, addr) + t.ptrToVid[BaseOf(t, addr)].size

\* Does the address lie inside the object registered at that base?
Covers(t, addr) ==
  /\ BasesUpTo(t, addr) # {}
  /\ addr < BaseOf(t, addr) + t.ptrToVid[BaseOf(t, addr)].size

\* PROBE
Probe(t, r) ==
  IF Covers(t, r.ptr)
  THEN [t EXCEPT !.pts =
          @ \union {<<r.vid, t.ptrToVid[BaseOf(t, r.ptr)].vid, Context(t)>>}]
  ELSE t

-----------------------------------------------------------------------------
(* Arguments and constructions. *)

\* The types built at an address so far.
TypesAt(t, a) == IF a \in DOMAIN t.consMap THEN t.consMap[a] ELSE <<>>

\* ARG: a pointer is marked by size 1 and carries the types built at its
\* address so far; a number is known by its sign.
Arg(t, r) ==
  LET arg == IF r.size = 1
             THEN IF r.ptr = 0 THEN [kind |-> "NULL", vals |-> <<>>]
                               ELSE [kind |-> "PTR", vals |-> TypesAt(t, r.ptr)]
             ELSE [kind |-> IF r.ptr > 0 THEN "POS" ELSE IF r.ptr < 0 THEN "NEG" ELSE "ZERO",
                   vals |-> <<>>]
  IN  [t EXCEPT !.pendingArgs = Append(@, arg)]

ArgClear(t) == [t EXCEPT !.pendingArgs = <<>>]

\* The types in "types" whose size is above n, in their order (std::remove_if).
LargerTypes(types, n) ==
  LET Upto[k \in 0..Len(types)] ==
        IF k = 0 THEN <<>>
        ELSE IF types[k].size > n THEN Append(Upto[k - 1], types[k]) ELSE Upto[k - 1]
  IN  Upto[Len(types)]

\* Mutant: a construction of the same size stays.
ConsKeepEqual(t, r) ==
  [t EXCEPT !.consMap =
     Bind(@, r.ptr, Append(LargerTypes(TypesAt(t, r.ptr), r.size - 1),
                           [vid |-> r.vid, size |-> r.size]))]

\* CONS: a construction replaces those of its address that are not larger.
Cons(t, r) ==
  [t EXCEPT !.consMap =
     Bind(@, r.ptr, Append(LargerTypes(TypesAt(t, r.ptr), r.size),
                           [vid |-> r.vid, size |-> r.size]))]

-----------------------------------------------------------------------------
(* Scopes and blocks. *)

\* Mutant: the slice starts at the beginning of the pool.
OpenScopeFromZero(t, f) ==
  LET cur == Len(t.allocaPool) IN
  [t EXCEPT !.scopeStack = Append(@, [vid |-> f, start |-> 0, end |-> cur])]

\* BEGINSCOPE, pointer half: an empty slice at the end of the pool.
OpenScope(t, f) ==
  LET cur == Len(t.allocaPool) IN
  [t EXCEPT !.scopeStack = Append(@, [vid |-> f, start |-> cur, end |-> cur])]

\* BEGINSCOPE, call half: the pending arguments are this function's.
EnterCall(t, f) ==
  [t EXCEPT !.callContext = Append(@, f),
            !.pendingArgs = <<>>,
            !.cg = Cover(CGCtxPlusOne, @, [vid |-> f, args |-> t.pendingArgs])]

BeginScope(t, r) ==
  LET u == IF "ptr" \in Mode THEN OpenScope(t, r.vid) ELSE t
  IN  IF "cg" \in Mode THEN EnterCall(u, r.vid) ELSE u

\* ENDSCOPE
EndScope(t) ==
  LET u == IF "ptr" \in Mode
           THEN [t EXCEPT !.ptrToVid = Unbind(@, SliceAddrs(t, Last(t.scopeStack))),
                          !.scopeStack = DropLast(@)]
           ELSE t
  IN  IF "cg" \in Mode THEN [u EXCEPT !.callContext = DropLast(@)] ELSE u

\* Mutant: the first activation of f instead of the last.
KeptFirst(fs, f) ==
  LET is == {i \in 1..Len(fs) : fs[i] = f}
  IN  IF is = {} THEN 0 ELSE CHOOSE i \in is : \A j \in is : i <= j

\* LANDING: how many entries of a stack of functions stay when it is popped
\* until its top is f.
Kept(fs, f) ==
  LET is == {i \in 1..Len(fs) : fs[i] = f}
  IN  IF is = {} THEN 0 ELSE CHOOSE i \in is : \A j \in is : j <= i

ScopeVids(t) == [i \in 1..Len(t.scopeStack) |-> t.scopeStack[i].vid]

\* LANDING
Landing(t, r) ==
  LET n == Kept(ScopeVids(t), r.vid)
      u == IF "ptr" \in Mode
           THEN [t EXCEPT !.ptrToVid = Unbind(@, UNION {SliceAddrs(t, t.scopeStack[i]) :
                                                          i \in n + 1 .. Len(t.scopeStack)}),
                          !.scopeStack = SubSeq(@, 1, n)]
           ELSE t
  IN  IF "cg" \in Mode
      THEN [u EXCEPT !.callContext = SubSeq(@, 1, Kept(@, r.vid))] ELSE u

\* BASICBLOCK: the block's id is in the size field.
BasicBlock(t, r) == [t EXCEPT !.bb = Cover(BBCtxPlusOne, @, r.size)]

-----------------------------------------------------------------------------

\* One turn of the loop.
Apply(t, r) ==
  CASE r.action = "ALLOCA"  -> IF "ptr" \in Mode THEN Alloca(t, r) ELSE t
    [] r.action = "REGION"  -> IF "ptr" \in Mode THEN Region(t, r) ELSE t
    [] r.action = "FREE"    -> IF "ptr" \in Mode THEN Free(t, r) ELSE t
    [] r.action = "PROBE"   -> IF "ptr" \in Mode THEN Probe(t, r) ELSE t
    [] r.action = "ARG"     -> IF "cg" \in Mode THEN Arg(t, r) ELSE t
    [] r.action = "ARGCLEAR" -> IF "cg" \in Mode THEN ArgClear(t) ELSE t
    [] r.action = "CONS"    -> IF "cg" \in Mode THEN Cons(t, r) ELSE t
    [] r.action = "BEGIN"   -> BeginScope(t, r)
    [] r.action = "END"     -> EndScope(t)
    [] r.action = "LANDING" -> Landing(t, r)
    [] r.action = "BLOCK"   -> IF "bb" \in Mode THEN BasicBlock(t, r) ELSE t

\* What dump() would print now: the types of an argument without their sizes.
PrintedArg(a)  == [a EXCEPT !.vals = [i \in 1..Len(@) |-> @[i].vid]]
PrintedCall(c) == [c EXCEPT !.args = [i \in 1..Len(@) |-> PrintedArg(@[i])]]
DumpOf(t) ==
  [ptr |-> t.pts,
   bb  |-> Windows(BBCtxPlusOne, t.bb),
   cg  |-> {[i \in 1..Len(win) |-> PrintedCall(win[i])] : win \in Windows(CGCtxPlusOne, t.cg)}]
=============================================================================
