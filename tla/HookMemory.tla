----------------------------- MODULE HookMemory -----------------------------
(***************************************************************************)
(* A running program as the hook runtime sees it: function calls, returns, *)
(* exceptions, objects on the stack and elsewhere, constructors, probes.   *)
(* Each event updates the hook's tables at once (PtaHook models the buffer *)
(* between the two), and the memory the program really has is kept beside  *)
(* them to say what the tables should know.                                *)
(***************************************************************************)
EXTENDS HookTables

CONSTANTS
  Funcs,       \* ids of the instrumented functions
  Sites,       \* ids of the allocation sites
  Pointers,    \* ids of the probed pointers
  StackAddrs,  \* addresses of the stack
  OtherAddrs,  \* addresses of globals and of the heap
  Sizes,       \* sizes of types: of objects, elements of arrays, constructed classes
               \* (a type is stored without padding)
  Counts,      \* lengths of arrays on the stack
  EndModes,    \* whether returns push ENDSCOPE: {TRUE}, {FALSE}, or both builds
  MaxDepth,    \* bound: active calls
  MaxEvents    \* bound: events of one execution

ASSUME HookMemoryAssumption ==
  /\ StackAddrs \union OtherAddrs \subseteq Nat \ {0}
  /\ StackAddrs \intersect OtherAddrs = {}
  /\ Sizes \union Counts \subseteq Nat \ {0}   \* objects of no bytes are left out
  /\ Funcs \union Sites \union Pointers \subseteq Nat
  /\ EndModes \subseteq BOOLEAN
  /\ MaxDepth \in Nat /\ MaxEvents \in Nat

VARIABLES
  emitsEnd, \* TRUE when a return pushes ENDSCOPE in this program
  t,        \* the tables of the hook
  frames,   \* the calls that are really active: [fn, at], "at" being the place of
            \* the scope that was opened for the call
  live,     \* the objects that really exist: [base, size, vid, depth, scope, array], "depth"
            \* being the call's they belong to, "scope" the one they are registered with,
            \* "array" TRUE for an array alloca of constant length
  events    \* events so far

hmVars == <<emitsEnd, t, frames, live, events>>

Rec(action, vid, ptr, size) ==
  [action |-> action, vid |-> vid, ptr |-> ptr, size |-> size]

\* The instrumented program pushes a record.
Event(r) ==
  /\ events < MaxEvents
  /\ events' = events + 1
  /\ t' = Apply(t, r)
  /\ UNCHANGED emitsEnd

Init ==
  /\ emitsEnd \in EndModes
  /\ t = Tables
  /\ frames = <<>>
  /\ live = {}
  /\ events = 0

\* How many scopes are open, in whichever mode counts them.
OpenScopes(u) == IF "ptr" \in Mode THEN Len(u.scopeStack) ELSE Len(u.callContext)

\* A function is entered.  While global constructors run, before and after
\* main, and in callbacks from foreign code, there is no caller.
Enter(f) ==
  /\ Len(frames) < MaxDepth
  /\ Event(Rec("BEGIN", f, 0, 0))
  /\ frames' = Append(frames, [fn |-> f, at |-> OpenScopes(t) + 1])
  /\ UNCHANGED live

\* A function returns, and its stack objects die.  The instrumenter pushes
\* nothing here; the runtime is ready for an ENDSCOPE.
Leave ==
  /\ frames # <<>>
  /\ IF emitsEnd THEN Event(Rec("END", Last(frames).fn, 0, 0))
                 ELSE UNCHANGED <<emitsEnd, t, events>>
  /\ frames' = DropLast(frames)
  /\ live' = {o \in live : o.depth < Len(frames)}

\* An exception reaches a landing pad of the i-th active call.  With recursion
\* a later activation of the same function may be left without its own pad.
Catch(i) ==
  /\ Event(Rec("LANDING", frames[i].fn, 0, 0))
  /\ frames' = SubSeq(frames, 1, i)
  /\ live' = {o \in live : o.depth <= i}

\* The memory [a, a + n) belongs to no object.
Vacant(a, n) == \A o \in live : a + n <= o.base \/ o.base + o.size <= a

\* isArrayAllocation with a ConstantInt: the length 1 is no array.
IsConstantArray(c, constant) == constant /\ c # 1

\* The size that goes with an alloca of c elements of e bytes: a constant length
\* replaces the element size, a computed one is multiplied with it.
AllocaSize(e, c, constant) == IF IsConstantArray(c, constant) THEN c ELSE e * c

\* A stack object of the running function, at any moment of its run: when a scope
\* above its own is open still, the object is registered with that one.
StackObject(s, a, e, c, constant) ==
  /\ frames # <<>>
  /\ Vacant(a, e * c)
  /\ Event(Rec("ALLOCA", s, a, AllocaSize(e, c, constant)))
  /\ live' = live \union {[base |-> a, size |-> e * c, vid |-> s, depth |-> Len(frames),
                                scope |-> OpenScopes(t), array |-> IsConstantArray(c, constant)]}
  /\ UNCHANGED frames

\* A global, a function's entry point, or a block of the heap.
OtherObject(s, a, n) ==
  /\ Vacant(a, n)
  /\ Event(Rec("REGION", s, a, n))
  /\ live' = live \union {[base |-> a, size |-> n, vid |-> s, depth |-> 0, scope |-> 0,
                                array |-> FALSE]}
  /\ UNCHANGED frames

\* A heap block is freed.  Only a call whose result is a pointer is recorded.
FreeObject(o, recorded) ==
  /\ o.depth = 0
  /\ IF recorded THEN Event(Rec("FREE", o.vid, o.base, 0))
                 ELSE UNCHANGED <<emitsEnd, t, events>>
  /\ live' = live \ {o}
  /\ UNCHANGED frames

\* A pointer value is probed.
ProbeEvent(p, a) ==
  /\ Event(Rec("PROBE", p, a, 0))
  /\ UNCHANGED <<frames, live>>

\* A call is about to happen: the old arguments go, then one is pushed.
CallEvent ==
  /\ Event(Rec("ARGCLEAR", 0, 0, 0))
  /\ UNCHANGED <<frames, live>>
ArgEvent(v, isPointer) ==
  /\ Event(Rec("ARG", 0, v, isPointer))
  /\ UNCHANGED <<frames, live>>

\* A constructor of a type of that size runs on an object; the size is 0 when no
\* struct type is found for the constructor.
ConsEvent(f, a, n) ==
  /\ Event(Rec("CONS", f, a, n))
  /\ UNCHANGED <<frames, live>>

Calls ==
  \/ \E f \in Funcs : Enter(f)
  \/ Leave
  \/ \E i \in 1..Len(frames) : Catch(i)
Objects ==
  \/ \E s \in Sites, a \in StackAddrs, e \in Sizes, c \in Counts, constant \in BOOLEAN :
       StackObject(s, a, e, c, constant)
  \/ \E s \in Sites, a \in OtherAddrs, n \in Sizes : OtherObject(s, a, n)
  \/ \E o \in live, recorded \in BOOLEAN : FreeObject(o, recorded)
Probes == \E p \in Pointers, a \in StackAddrs \union OtherAddrs : ProbeEvent(p, a)
Arguments ==
  \/ CallEvent
  \/ \E v \in {-1, 0, 1} : ArgEvent(v, 0)
  \/ \E v \in OtherAddrs \union {0} : ArgEvent(v, 1)
  \/ \E f \in Funcs, a \in OtherAddrs, n \in Sizes \union {0} : ConsEvent(f, a, n)

Next == Calls \/ Objects \/ Probes \/ Arguments

Spec == Init /\ [][Next]_hmVars

-----------------------------------------------------------------------------
(* Properties. *)

(***************************************************************************)
(* The shape of the tables (consumed by stopAndConsume): slices lie inside *)
(* the pool, a scope starts no earlier than the one below it, and an edge  *)
(* joins a probed pointer to a site under at most K functions.             *)
(***************************************************************************)
TablesOK ==
  /\ \A i \in 1..Len(t.scopeStack) :
       LET s == t.scopeStack[i] IN
       /\ s.vid \in Funcs
       /\ 0 <= s.start /\ s.start <= s.end /\ s.end <= Len(t.allocaPool)
       /\ i > 1 => t.scopeStack[i - 1].start <= s.start
  /\ \A e \in t.pts : e[1] \in Pointers /\ e[2] \in Sites /\ Len(e[3]) <= K

\* The scopes of the active calls: in their order, each with its function.
ScopesOf(calls, fns) ==
  \A i \in 1..Len(calls) :
    /\ calls[i].at \in 1..Len(fns) /\ fns[calls[i].at] = calls[i].fn
    /\ \A j \in i + 1..Len(calls) : calls[i].at < calls[j].at

\* An object in the scope of a call that has returned goes with that scope.
Tracked == {o \in live : o.depth > 0 => o.scope = frames[o.depth].at}

(***************************************************************************)
(* LANDING pops scopeStack in one loop and callContext in another one, and *)
(* without ENDSCOPE nobody pops what a return leaves.  Still the scope that*)
(* was opened for an active call is where it was, on both stacks, which    *)
(* always name the same functions: scopeStack.back() and pop_back()        *)
(* (ALLOCA, ENDSCOPE) are never called on an empty vector, and a LANDING   *)
(* never pops the scope of a call that goes on.                            *)
(***************************************************************************)
ScopesKept ==
  /\ {"ptr", "cg"} \subseteq Mode => ScopeVids(t) = t.callContext
  /\ "ptr" \in Mode => ScopesOf(frames, ScopeVids(t))
  /\ "cg" \in Mode => ScopesOf(frames, t.callContext)

\* v names the site of object o and no byte beyond it; the real size, unless o is
\* an array alloca of constant length (SizesRegistered).
Registers(v, o) ==
  /\ v.vid = o.vid
  /\ v.size \in 1..o.size
  /\ ~o.array => v.size = o.size

(***************************************************************************)
(* Closing scopes and reusing addresses forgets nothing that still exists: *)
(* globals, heap blocks and what a call has put into its own scope are     *)
(* registered under their bases with their sites (ptrToVid), also after    *)
(* exceptions that older activations of a recursive function catch, after  *)
(* returns that were not announced and in memory that was freed without a  *)
(* record.  No entry claims a byte beyond its object, and all but those of *)
(* arrays of constant length have the real size.                           *)
(***************************************************************************)
LiveObjectsKnown ==
  "ptr" \in Mode =>
    \A o \in Tracked : o.base \in DOMAIN t.ptrToVid /\ Registers(t.ptrToVid[o.base], o)

(***************************************************************************)
(* The size field of a record is the object's size ("for alloca, heap      *)
(* allocator", PointerSymbolTable.h:19), so the table covers all of every  *)
(* object it knows and a pointer into its middle is found.  The code does  *)
(* not keep this: an array alloca of constant length is registered with    *)
(* the number of its elements (instrument.cpp:209).                        *)
(***************************************************************************)
SizesRegistered ==
  "ptr" \in Mode =>
    \A o \in Tracked : o.base \in DOMAIN t.ptrToVid => t.ptrToVid[o.base].size = o.size

(***************************************************************************)
(* PROBE of the first address of a tracked object records an edge to that  *)
(* object's site, and one past the end of everything registered below it   *)
(* records nothing.                                                        *)
(***************************************************************************)
ProbesAreTrue ==
  [][\A p \in Pointers, a \in StackAddrs \union OtherAddrs :
       ("ptr" \in Mode /\ ProbeEvent(p, a)) =>
         /\ \A o \in Tracked : o.base = a => <<p, o.vid, Context(t)>> \in t'.pts
         /\ (\A b \in DOMAIN t.ptrToVid : b > a \/ b + t.ptrToVid[b].size <= a)
              => t'.pts = t.pts]_hmVars

(***************************************************************************)
(* CONS: the possible dynamic types at an address are nested.  Each        *)
(* construction still remembered is larger than every later one (a base    *)
(* class is built inside the class that contains it).                      *)
(***************************************************************************)
ConstructionsNested ==
  \A a \in DOMAIN t.consMap :
    \A i, j \in 1..Len(t.consMap[a]) :
      i < j => t.consMap[a][i].size > t.consMap[a][j].size
=============================================================================
