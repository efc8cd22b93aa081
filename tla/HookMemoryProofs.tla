-------------------------- MODULE HookMemoryProofs --------------------------
(***************************************************************************)
(* The hook's tables know the scopes of all active calls and the objects   *)
(* that exist, and keep constructions nested, for every program, every     *)
(* depth and length of execution.                                          *)
(***************************************************************************)
EXTENDS HookMemory, WellFoundedInduction, TLAPS

-----------------------------------------------------------------------------
(* Numbers and sequences. *)

LEMMA GreatestIn ==
  ASSUME NEW n \in Nat, NEW S, S \subseteq 0..n, S # {}
  PROVE  \E m \in S : \A k \in S : k <= m
<1> DEFINE T == {n - k : k \in S}
<1>1. T \subseteq Nat /\ T # {}
  <2>1. \A k \in S : n - k \in Nat
    OBVIOUS
  <2>2. PICK k \in S : TRUE
    OBVIOUS
  <2>3. n - k \in T
    OBVIOUS
  <2> QED
    BY <2>1, <2>3
<1>2. PICK x \in T : \A y \in T : <<y, x>> \notin OpToRel(<, Nat)
  BY <1>1, WFMin, NatLessThanWellFounded
<1>3. \A y \in T : ~(y < x)
  BY <1>1, <1>2 DEF OpToRel
<1>4. PICK m \in S : x = n - m
  OBVIOUS
<1>5. ASSUME NEW k \in S PROVE k <= m
  <2>1. n - k \in T
    OBVIOUS
  <2> QED
    BY <1>3, <1>4, <2>1
<1> QED
  BY <1>5

\* A landing pad's function is found at its last place on a stack.
LEMMA KeptIs ==
  ASSUME NEW F, NEW fs \in Seq(F), NEW f, NEW i \in 1..Len(fs), fs[i] = f
  PROVE  /\ Kept(fs, f) \in i..Len(fs)
         /\ fs[Kept(fs, f)] = f
<1> DEFINE is == {k \in 1..Len(fs) : fs[k] = f}
<1>1. i \in is /\ is \subseteq 0..Len(fs) /\ Len(fs) \in Nat
  OBVIOUS
<1>2. \E m \in is : \A k \in is : k <= m
  BY <1>1, GreatestIn
<1>3. Kept(fs, f) = CHOOSE m \in is : \A k \in is : k <= m
  BY <1>1 DEF Kept
<1>4. Kept(fs, f) \in is /\ \A k \in is : k <= Kept(fs, f)
  BY <1>2, <1>3
<1> QED
  BY <1>1, <1>4

-----------------------------------------------------------------------------
(* What a record does to the tables that matter here. *)

IsTables(u) ==
  u = [ptrToVid |-> u.ptrToVid, pts |-> u.pts, scopeStack |-> u.scopeStack,
       allocaPool |-> u.allocaPool, bb |-> u.bb, pendingArgs |-> u.pendingArgs,
       callContext |-> u.callContext, consMap |-> u.consMap, cg |-> u.cg]

\* Neither scopes nor objects nor edges are touched.
Aside ==
  /\ IsTables(t')
  /\ t'.ptrToVid = t.ptrToVid /\ t'.pts = t.pts /\ t'.scopeStack = t.scopeStack
  /\ t'.allocaPool = t.allocaPool /\ t'.callContext = t.callContext

LEMMA StartTables ==
  /\ IsTables(Tables)
  /\ Tables.ptrToVid = <<>> /\ Tables.pts = {} /\ Tables.scopeStack = <<>>
  /\ Tables.allocaPool = <<>> /\ Tables.callContext = <<>>
  BY DEF IsTables, Tables

LEMMA BeginIs ==
  ASSUME IsTables(t), NEW f, Event(Rec("BEGIN", f, 0, 0))
  PROVE  /\ IsTables(t')
         /\ t'.ptrToVid = t.ptrToVid /\ t'.pts = t.pts /\ t'.allocaPool = t.allocaPool
         /\ t'.scopeStack = IF "ptr" \in Mode
                            THEN Append(t.scopeStack, [vid |-> f, start |-> Len(t.allocaPool),
                                                       end |-> Len(t.allocaPool)])
                            ELSE t.scopeStack
         /\ t'.callContext = IF "cg" \in Mode THEN Append(t.callContext, f) ELSE t.callContext
<1> DEFINE u == IF "ptr" \in Mode THEN OpenScope(t, f) ELSE t
<1>1. t' = IF "cg" \in Mode THEN EnterCall(u, f) ELSE u
  BY DEF Event, Apply, Rec, BeginScope
<1>2. /\ IsTables(u) /\ u.callContext = t.callContext
      /\ u.ptrToVid = t.ptrToVid /\ u.pts = t.pts /\ u.allocaPool = t.allocaPool
      /\ u.scopeStack = IF "ptr" \in Mode
                        THEN Append(t.scopeStack, [vid |-> f, start |-> Len(t.allocaPool),
                                                   end |-> Len(t.allocaPool)])
                        ELSE t.scopeStack
  BY DEF IsTables, OpenScope
<1> HIDE DEF u
<1> QED
  BY <1>1, <1>2 DEF IsTables, EnterCall

LEMMA EndIs ==
  ASSUME IsTables(t), NEW f, Event(Rec("END", f, 0, 0))
  PROVE  /\ IsTables(t')
         /\ t'.pts = t.pts /\ t'.allocaPool = t.allocaPool
         /\ t'.ptrToVid = IF "ptr" \in Mode THEN Unbind(t.ptrToVid, SliceAddrs(t, Last(t.scopeStack)))
                          ELSE t.ptrToVid
         /\ t'.scopeStack = IF "ptr" \in Mode THEN DropLast(t.scopeStack) ELSE t.scopeStack
         /\ t'.callContext = IF "cg" \in Mode THEN DropLast(t.callContext) ELSE t.callContext
<1>1. t' = EndScope(t)
  BY DEF Event, Apply, Rec
<1> QED
  BY <1>1 DEF IsTables, EndScope

\* What the scopes above the one at n name.
AddrsAbove(n) == UNION {SliceAddrs(t, t.scopeStack[i]) : i \in n + 1 .. Len(t.scopeStack)}

LEMMA LandingIs ==
  ASSUME IsTables(t), NEW f, Event(Rec("LANDING", f, 0, 0))
  PROVE  /\ IsTables(t')
         /\ t'.pts = t.pts /\ t'.allocaPool = t.allocaPool
         /\ t'.ptrToVid = IF "ptr" \in Mode THEN Unbind(t.ptrToVid, AddrsAbove(Kept(ScopeVids(t), f)))
                          ELSE t.ptrToVid
         /\ t'.scopeStack = IF "ptr" \in Mode THEN SubSeq(t.scopeStack, 1, Kept(ScopeVids(t), f))
                            ELSE t.scopeStack
         /\ t'.callContext = IF "cg" \in Mode THEN SubSeq(t.callContext, 1, Kept(t.callContext, f))
                             ELSE t.callContext
<1>1. t' = Landing(t, Rec("LANDING", f, 0, 0))
  BY DEF Event, Apply, Rec
<1>2. Rec("LANDING", f, 0, 0).vid = f
  BY DEF Rec
<1> DEFINE n == Kept(ScopeVids(t), f)
           u == IF "ptr" \in Mode
                THEN [t EXCEPT !.ptrToVid = Unbind(@, AddrsAbove(n)), !.scopeStack = SubSeq(@, 1, n)]
                ELSE t
<1>3. t' = IF "cg" \in Mode THEN [u EXCEPT !.callContext = SubSeq(@, 1, Kept(@, f))] ELSE u
  BY <1>1, <1>2 DEF Landing, AddrsAbove
<1> HIDE DEF n
<1>4. /\ IsTables(u) /\ u.callContext = t.callContext
      /\ u.pts = t.pts /\ u.allocaPool = t.allocaPool
      /\ u.ptrToVid = IF "ptr" \in Mode THEN Unbind(t.ptrToVid, AddrsAbove(n)) ELSE t.ptrToVid
      /\ u.scopeStack = IF "ptr" \in Mode THEN SubSeq(t.scopeStack, 1, n) ELSE t.scopeStack
  BY DEF IsTables
<1> HIDE DEF u
<1>5. /\ IsTables(t') /\ t'.ptrToVid = u.ptrToVid /\ t'.pts = u.pts
      /\ t'.allocaPool = u.allocaPool /\ t'.scopeStack = u.scopeStack
      /\ t'.callContext = IF "cg" \in Mode THEN SubSeq(u.callContext, 1, Kept(u.callContext, f))
                          ELSE u.callContext
  <2> DEFINE kept == SubSeq(u.callContext, 1, Kept(u.callContext, f))
  <2>1. t' = IF "cg" \in Mode THEN [u EXCEPT !.callContext = kept] ELSE u
    BY <1>3
  <2> HIDE DEF kept
  <2>2. CASE "cg" \in Mode
    <3>1. t' = [u EXCEPT !.callContext = kept]
      BY <2>1, <2>2
    <3>2. IsTables(t') /\ t'.callContext = kept
      BY <1>4, <3>1 DEF IsTables
    <3>3. /\ t'.ptrToVid = u.ptrToVid /\ t'.pts = u.pts
          /\ t'.allocaPool = u.allocaPool /\ t'.scopeStack = u.scopeStack
      BY <1>4, <3>1 DEF IsTables
    <3> QED
      BY <2>2, <3>2, <3>3 DEF kept
  <2>3. CASE "cg" \notin Mode
    BY <1>4, <2>1, <2>3
  <2> QED
    BY <2>2, <2>3
<1> QED
  BY <1>4, <1>5 DEF n

LEMMA AllocaIs ==
  ASSUME IsTables(t), NEW s, NEW a, NEW n, Event(Rec("ALLOCA", s, a, n)), "ptr" \in Mode
  PROVE  /\ IsTables(t')
         /\ t'.pts = t.pts /\ t'.callContext = t.callContext
         /\ t'.ptrToVid = Bind(t.ptrToVid, a, [vid |-> s, size |-> n])
         /\ t'.allocaPool = Append(t.allocaPool, a)
         /\ t'.scopeStack = [t.scopeStack EXCEPT ![Len(t.scopeStack)].end = Len(t.allocaPool)]
<1>1. t' = Alloca(t, Rec("ALLOCA", s, a, n))
  BY DEF Event, Apply, Rec
<1>2. Rec("ALLOCA", s, a, n).vid = s /\ Rec("ALLOCA", s, a, n).ptr = a /\ Rec("ALLOCA", s, a, n).size = n
  BY DEF Rec
<1> DEFINE bound == Bind(t.ptrToVid, a, [vid |-> s, size |-> n])
           pool  == Append(t.allocaPool, a)
           stack == [t.scopeStack EXCEPT ![Len(t.scopeStack)].end = Len(t.allocaPool)]
<1>3. t' = [t EXCEPT !.ptrToVid = bound, !.allocaPool = pool, !.scopeStack = stack]
  BY <1>1, <1>2 DEF Alloca
<1> HIDE DEF bound, pool, stack
<1>4. /\ IsTables(t') /\ t'.pts = t.pts /\ t'.callContext = t.callContext
      /\ t'.ptrToVid = bound /\ t'.allocaPool = pool /\ t'.scopeStack = stack
  BY <1>3 DEF IsTables
<1> QED
  BY <1>4 DEF bound, pool, stack

LEMMA RegionIs ==
  ASSUME IsTables(t), NEW s, NEW a, NEW n, Event(Rec("REGION", s, a, n)), "ptr" \in Mode
  PROVE  /\ IsTables(t')
         /\ t'.pts = t.pts /\ t'.callContext = t.callContext
         /\ t'.ptrToVid = Bind(t.ptrToVid, a, [vid |-> s, size |-> n])
         /\ t'.allocaPool = t.allocaPool /\ t'.scopeStack = t.scopeStack
<1>1. t' = Region(t, Rec("REGION", s, a, n))
  BY DEF Event, Apply, Rec
<1>2. Rec("REGION", s, a, n) = [action |-> "REGION", vid |-> s, ptr |-> a, size |-> n]
  BY DEF Rec
<1> QED
  BY <1>1, <1>2 DEF IsTables, Region

LEMMA FreeIs ==
  ASSUME IsTables(t), NEW s, NEW a, Event(Rec("FREE", s, a, 0)), "ptr" \in Mode
  PROVE  /\ IsTables(t')
         /\ t'.pts = t.pts /\ t'.callContext = t.callContext
         /\ t'.ptrToVid = Unbind(t.ptrToVid, {a})
         /\ t'.allocaPool = t.allocaPool /\ t'.scopeStack = t.scopeStack
<1>1. t' = Free(t, Rec("FREE", s, a, 0))
  BY DEF Event, Apply, Rec
<1>2. Rec("FREE", s, a, 0).ptr = a
  BY DEF Rec
<1> QED
  BY <1>1, <1>2 DEF IsTables, Free

LEMMA ProbeIs ==
  ASSUME IsTables(t), NEW p, NEW a, Event(Rec("PROBE", p, a, 0))
  PROVE  /\ IsTables(t')
         /\ t'.pts = IF "ptr" \in Mode /\ Covers(t, a)
                     THEN t.pts \union {<<p, t.ptrToVid[BaseOf(t, a)].vid, Context(t)>>} ELSE t.pts
         /\ t'.ptrToVid = t.ptrToVid /\ t'.scopeStack = t.scopeStack
         /\ t'.allocaPool = t.allocaPool /\ t'.callContext = t.callContext
<1>1. t' = IF "ptr" \in Mode THEN Probe(t, Rec("PROBE", p, a, 0)) ELSE t
  BY DEF Event, Apply, Rec
<1>2. Rec("PROBE", p, a, 0).ptr = a /\ Rec("PROBE", p, a, 0).vid = p
  BY DEF Rec
<1> QED
  BY <1>1, <1>2 DEF IsTables, Probe

\* Without the mode nothing is done.
LEMMA NoPointers ==
  ASSUME IsTables(t), NEW s, NEW a, NEW n, NEW action \in {"ALLOCA", "REGION", "FREE"},
         Event(Rec(action, s, a, n)), "ptr" \notin Mode
  PROVE  Aside
<1>1. t' = t
  BY DEF Event, Apply, Rec
<1> QED
  BY <1>1 DEF Aside

LEMMA ArgumentsAside == ASSUME IsTables(t), Arguments PROVE Aside /\ UNCHANGED <<frames, live>>
<1>1. CASE CallEvent
  <2>1. t' = IF "cg" \in Mode THEN ArgClear(t) ELSE t
    BY <1>1 DEF CallEvent, Event, Apply, Rec
  <2> QED
    BY <1>1, <2>1 DEF CallEvent, IsTables, ArgClear, Aside
<1>2. ASSUME NEW v, NEW n, ArgEvent(v, n) PROVE Aside /\ UNCHANGED <<frames, live>>
  <2>1. t' = IF "cg" \in Mode THEN Arg(t, Rec("ARG", 0, v, n)) ELSE t
    BY <1>2 DEF ArgEvent, Event, Apply, Rec
  <2> QED
    BY <1>2, <2>1 DEF ArgEvent, IsTables, Arg, Aside
<1>3. ASSUME NEW f, NEW a, NEW n, ConsEvent(f, a, n) PROVE Aside /\ UNCHANGED <<frames, live>>
  <2>1. t' = IF "cg" \in Mode THEN Cons(t, Rec("CONS", f, a, n)) ELSE t
    BY <1>3 DEF ConsEvent, Event, Apply, Rec
  <2> QED
    BY <1>3, <2>1 DEF ConsEvent, IsTables, Cons, Aside
<1> QED
  BY <1>1, <1>2, <1>3 DEF Arguments

-----------------------------------------------------------------------------
(* Types, and the scopes of the active calls. *)

Addrs  == StackAddrs \union OtherAddrs
Call   == [fn : Funcs, at : Nat]
Scope  == [vid : Funcs, start : Nat, end : Nat]
Bytes  == Nat \ {0}
Object == [base : Addrs, size : Bytes, vid : Sites, depth : Nat, scope : Nat, array : BOOLEAN]
Target == [vid : Sites, size : Bytes]

\* The tables, by their parts.
PartsOK ==
  /\ t.scopeStack \in Seq(Scope) /\ t.callContext \in Seq(Funcs) /\ t.allocaPool \in Seq(StackAddrs)
  /\ DOMAIN t.ptrToVid \subseteq Addrs /\ \A b \in DOMAIN t.ptrToVid : t.ptrToVid[b] \in Target

HmType == IsTables(t) /\ PartsOK /\ frames \in Seq(Call) /\ live \subseteq Object

CallInv == HmType /\ ScopesKept

\* The functions of a stack of scopes.
VidsIn(stack) == [i \in 1..Len(stack) |-> stack[i].vid]

LEMMA VidsType ==
  ASSUME NEW stack \in Seq(Scope)
  PROVE  /\ VidsIn(stack) \in Seq(Funcs) /\ Len(VidsIn(stack)) = Len(stack)
         /\ \A i \in 1..Len(stack) : VidsIn(stack)[i] = stack[i].vid
<1>1. Len(stack) \in Nat /\ \A i \in 1..Len(stack) : stack[i] \in Scope
  OBVIOUS
<1>2. \A i \in 1..Len(stack) : stack[i].vid \in Funcs
  BY <1>1 DEF Scope
<1> QED
  BY <1>1, <1>2 DEF VidsIn

LEMMA VidsGrow ==
  ASSUME NEW stack \in Seq(Scope), NEW sc \in Scope
  PROVE  VidsIn(Append(stack, sc)) = Append(VidsIn(stack), sc.vid)
<1> DEFINE more == Append(stack, sc)  vids == Append(VidsIn(stack), sc.vid)
<1>1. /\ more \in Seq(Scope) /\ Len(more) = Len(stack) + 1 /\ more[Len(stack) + 1] = sc
      /\ \A i \in 1..Len(stack) : more[i] = stack[i]
  OBVIOUS
<1>2. sc.vid \in Funcs
  BY DEF Scope
<1>3. /\ vids \in Seq(Funcs) /\ Len(vids) = Len(stack) + 1 /\ vids[Len(stack) + 1] = sc.vid
      /\ \A i \in 1..Len(stack) : vids[i] = stack[i].vid
  BY <1>2, VidsType
<1>4. /\ VidsIn(more) \in Seq(Funcs) /\ Len(VidsIn(more)) = Len(more)
      /\ \A i \in 1..Len(more) : VidsIn(more)[i] = more[i].vid
  BY <1>1, VidsType
<1> HIDE DEF more, vids
<1>5. \A i \in 1..Len(stack) + 1 : VidsIn(more)[i] = vids[i]
  BY <1>1, <1>3, <1>4
<1>6. Len(VidsIn(more)) = Len(vids)
  BY <1>1, <1>3, <1>4
<1>7. VidsIn(more) = vids
  BY <1>1, <1>3, <1>4, <1>5, <1>6
<1> QED
  BY <1>7 DEF more, vids

LEMMA VidsCut ==
  ASSUME NEW stack \in Seq(Scope), NEW n \in 0..Len(stack)
  PROVE  VidsIn(SubSeq(stack, 1, n)) = SubSeq(VidsIn(stack), 1, n)
<1> DEFINE less == SubSeq(stack, 1, n)  vids == SubSeq(VidsIn(stack), 1, n)
<1>1. less \in Seq(Scope) /\ Len(less) = n /\ \A i \in 1..n : less[i] = stack[i]
  OBVIOUS
<1>2. vids \in Seq(Funcs) /\ Len(vids) = n /\ \A i \in 1..n : vids[i] = stack[i].vid
  BY VidsType
<1>3. /\ VidsIn(less) \in Seq(Funcs) /\ Len(VidsIn(less)) = Len(less)
      /\ \A i \in 1..Len(less) : VidsIn(less)[i] = less[i].vid
  BY <1>1, VidsType
<1> HIDE DEF less, vids
<1>4. VidsIn(less) = vids
  BY <1>1, <1>2, <1>3
<1> QED
  BY <1>4 DEF less, vids

\* ALLOCA: only the end of the top changes.
LEMMA TopChanges ==
  ASSUME NEW stack \in Seq(Scope), Len(stack) > 0, NEW e \in Nat
  PROVE  LET new == [stack EXCEPT ![Len(stack)].end = e] IN
         /\ new \in Seq(Scope) /\ Len(new) = Len(stack)
         /\ VidsIn(new) = VidsIn(stack)
         /\ \A i \in 1..Len(stack) : /\ new[i].vid = stack[i].vid /\ new[i].start = stack[i].start
                                     /\ new[i].end = IF i = Len(stack) THEN e ELSE stack[i].end
<1> DEFINE n == Len(stack)  new == [stack EXCEPT ![n].end = e]  top == [stack[n] EXCEPT !.end = e]
<1>1. n \in Nat /\ n > 0 /\ \A i \in 1..n : stack[i] \in Scope
  OBVIOUS
<1>2. /\ top \in Scope /\ top.end = e /\ top.vid = stack[n].vid /\ top.start = stack[n].start
  BY <1>1 DEF Scope
<1>3. new = [stack EXCEPT ![n] = top]
  OBVIOUS
<1> HIDE DEF top
<1>4. new \in Seq(Scope) /\ Len(new) = n /\ \A i \in 1..n : new[i] = IF i = n THEN top ELSE stack[i]
  BY <1>1, <1>2, <1>3
<1> HIDE DEF new
<1>5. \A i \in 1..n : /\ new[i].vid = stack[i].vid /\ new[i].start = stack[i].start
                      /\ new[i].end = IF i = n THEN e ELSE stack[i].end
  BY <1>2, <1>4
<1>6. VidsIn(new) = VidsIn(stack)
  BY <1>4, <1>5 DEF VidsIn
<1> QED
  BY <1>4, <1>5, <1>6 DEF new

\* What happens to one of the stacks: it grows, or it is cut.
LEMMA ScopesGrow ==
  ASSUME NEW fs \in Seq(Funcs), NEW calls \in Seq(Call), ScopesOf(calls, fs), NEW f \in Funcs
  PROVE  ScopesOf(Append(calls, [fn |-> f, at |-> Len(fs) + 1]), Append(fs, f))
<1> DEFINE call == [fn |-> f, at |-> Len(fs) + 1]
           more == Append(calls, call)
<1>1. call \in Call /\ call.at = Len(fs) + 1 /\ call.fn = f
  BY DEF Call
<1> HIDE DEF call
<1>2. /\ Len(more) = Len(calls) + 1 /\ more[Len(calls) + 1] = call
      /\ \A i \in 1..Len(calls) : more[i] = calls[i]
  BY <1>1
<1>3. /\ Len(Append(fs, f)) = Len(fs) + 1 /\ Append(fs, f)[Len(fs) + 1] = f
      /\ \A k \in 1..Len(fs) : Append(fs, f)[k] = fs[k]
  OBVIOUS
<1> HIDE DEF more
<1> SUFFICES ASSUME NEW i \in 1..Len(more)
             PROVE  /\ more[i].at \in 1..Len(fs) + 1 /\ Append(fs, f)[more[i].at] = more[i].fn
                    /\ \A j \in i + 1..Len(more) : more[i].at < more[j].at
  BY <1>3 DEF ScopesOf, more, call
<1>4. CASE i = Len(calls) + 1
  BY <1>1, <1>2, <1>3, <1>4
<1>5. CASE i # Len(calls) + 1
  <2>1. i \in 1..Len(calls) /\ more[i] = calls[i]
    BY <1>2, <1>5
  <2>2. calls[i].at \in 1..Len(fs) /\ fs[calls[i].at] = calls[i].fn
        /\ \A j \in i + 1..Len(calls) : calls[i].at < calls[j].at
    BY <2>1 DEF ScopesOf
  <2>3. \A j \in i + 1..Len(more) : j = Len(calls) + 1 \/ (j \in i + 1..Len(calls) /\ more[j] = calls[j])
    BY <1>2, <2>1
  <2> QED
    BY <1>1, <1>2, <1>3, <2>1, <2>2, <2>3
<1> QED
  BY <1>4, <1>5

LEMMA ScopesCut ==
  ASSUME NEW fs \in Seq(Funcs), NEW calls \in Seq(Call), ScopesOf(calls, fs),
         NEW n \in 0..Len(calls), NEW m \in 0..Len(fs), n > 0 => calls[n].at <= m
  PROVE  ScopesOf(SubSeq(calls, 1, n), SubSeq(fs, 1, m))
<1> DEFINE cs == SubSeq(calls, 1, n)
           gs == SubSeq(fs, 1, m)
<1>1. Len(cs) = n /\ \A i \in 1..n : cs[i] = calls[i]
  OBVIOUS
<1>2. Len(gs) = m /\ \A k \in 1..m : gs[k] = fs[k]
  OBVIOUS
<1> HIDE DEF cs, gs
<1>3. \A i \in 1..n : calls[i].at \in 1..Len(fs) /\ fs[calls[i].at] = calls[i].fn
                      /\ \A j \in i + 1..n : calls[i].at < calls[j].at
  BY DEF ScopesOf
<1>4. \A i \in 1..n : calls[i].at <= m
  BY <1>3
<1> QED
  BY <1>1, <1>2, <1>3, <1>4 DEF ScopesOf, cs, gs

\* The map of objects: what is bound and unbound stays a map of that kind.
MapOK(map) == DOMAIN map \subseteq Addrs /\ \A b \in DOMAIN map : map[b] \in Target

LEMMA FirstCalls == Init => CallInv
<1> SUFFICES ASSUME Init PROVE CallInv
  OBVIOUS
<1>1. /\ IsTables(t) /\ t.ptrToVid = <<>> /\ t.pts = {} /\ t.scopeStack = <<>>
      /\ t.allocaPool = <<>> /\ t.callContext = <<>> /\ frames = <<>> /\ live = {}
  BY StartTables DEF Init
<1>2. HmType
  BY <1>1 DEF HmType, PartsOK
<1>3. VidsIn(t.scopeStack) = <<>>
  BY <1>1 DEF VidsIn
<1>4. ScopesKept
  BY <1>1, <1>3 DEF ScopesKept, ScopesOf, ScopeVids, VidsIn
<1> QED
  BY <1>2, <1>4 DEF CallInv

\* The scopes of the running calls, as a statement about the two stacks.
Agree(calls, vids, ctx) ==
  /\ {"ptr", "cg"} \subseteq Mode => vids = ctx
  /\ "ptr" \in Mode => ScopesOf(calls, vids)
  /\ "cg" \in Mode => ScopesOf(calls, ctx)

LEMMA AgreeIs ==
  /\ ScopesKept <=> Agree(frames, VidsIn(t.scopeStack), t.callContext)
  /\ ScopesKept' <=> Agree(frames', VidsIn(t'.scopeStack), t'.callContext)
<1>1. ScopeVids(t) = VidsIn(t.scopeStack) /\ ScopeVids(t') = VidsIn(t'.scopeStack)
  BY DEF ScopeVids, VidsIn
<1>2. ScopesKept <=> Agree(frames, VidsIn(t.scopeStack), t.callContext)
  BY <1>1 DEF ScopesKept, Agree
<1>3. ScopesKept' <=> Agree(frames', ScopeVids(t'), t'.callContext)
  BY DEF ScopesKept, Agree
<1> QED
  BY <1>1, <1>2, <1>3

\* Nothing happens to the scopes.
LEMMA SameCalls ==
  ASSUME CallInv, IsTables(t'), PartsOK', live' \subseteq Object, frames' = frames,
         VidsIn(t'.scopeStack) = VidsIn(t.scopeStack), t'.callContext = t.callContext
  PROVE  CallInv'
  BY AgreeIs DEF CallInv, HmType

LEMMA AsideCalls == ASSUME CallInv, Aside, UNCHANGED frames, live' \subseteq Object PROVE CallInv'
<1>1. PartsOK'
  BY DEF CallInv, HmType, PartsOK, Aside
<1> QED
  BY <1>1, SameCalls DEF Aside

LEMMA EnterCalls == ASSUME CallInv, NEW f \in Funcs, Enter(f) PROVE CallInv'
<1> DEFINE n     == Len(t.allocaPool)
           scope == [vid |-> f, start |-> n, end |-> n]
           vids  == VidsIn(t.scopeStack)
           call  == [fn |-> f, at |-> OpenScopes(t) + 1]
<1>1. /\ IsTables(t')
      /\ t'.ptrToVid = t.ptrToVid /\ t'.pts = t.pts /\ t'.allocaPool = t.allocaPool
      /\ t'.scopeStack = IF "ptr" \in Mode THEN Append(t.scopeStack, scope) ELSE t.scopeStack
      /\ t'.callContext = IF "cg" \in Mode THEN Append(t.callContext, f) ELSE t.callContext
      /\ frames' = Append(frames, call) /\ live' = live
  BY BeginIs DEF Enter, CallInv, HmType
<1>2. n \in Nat /\ scope \in Scope /\ scope.vid = f
  BY DEF CallInv, HmType, PartsOK, Scope
<1>3. OpenScopes(t) \in Nat /\ call \in Call
  BY DEF CallInv, HmType, PartsOK, OpenScopes, Call
<1> HIDE DEF scope, call
<1>4. PartsOK' /\ frames' \in Seq(Call)
  BY <1>1, <1>2, <1>3 DEF CallInv, HmType, PartsOK
<1>5. /\ vids \in Seq(Funcs) /\ Len(vids) = Len(t.scopeStack)
      /\ VidsIn(t'.scopeStack) = IF "ptr" \in Mode THEN Append(vids, f) ELSE vids
  BY <1>1, <1>2, VidsType, VidsGrow DEF CallInv, HmType, PartsOK
<1>6. Agree(frames, vids, t.callContext)
  BY AgreeIs DEF CallInv
<1> HIDE DEF vids
<1>7. Agree(frames', VidsIn(t'.scopeStack), t'.callContext)
  <2>1. ASSUME "ptr" \in Mode PROVE ScopesOf(frames', Append(vids, f))
    <3>1. call = [fn |-> f, at |-> Len(vids) + 1]
      BY <1>5, <2>1 DEF call, OpenScopes
    <3> QED
      BY <1>1, <1>5, <1>6, <2>1, <3>1, ScopesGrow DEF Agree, CallInv, HmType
  <2>2. ASSUME "cg" \in Mode PROVE ScopesOf(frames', Append(t.callContext, f))
    <3>1. call = [fn |-> f, at |-> Len(t.callContext) + 1]
      BY <1>5, <1>6, <2>2 DEF call, OpenScopes, Agree
    <3> QED
      BY <1>1, <1>6, <2>2, <3>1, ScopesGrow DEF Agree, CallInv, HmType, PartsOK
  <2> QED
    BY <1>1, <1>5, <1>6, <2>1, <2>2 DEF Agree
<1> QED
  BY <1>1, <1>4, <1>7, AgreeIs DEF CallInv, HmType

\* Both stacks are cut at the same place, above the scopes of the calls that go on.
LEMMA CutCalls ==
  ASSUME CallInv, NEW n \in 0..Len(frames), NEW m \in Nat,
         n > 0 => frames[n].at <= m,
         "ptr" \in Mode => m <= Len(t.scopeStack),
         "cg" \in Mode => m <= Len(t.callContext),
         IsTables(t'), MapOK(t'.ptrToVid), t'.allocaPool = t.allocaPool,
         t'.scopeStack = IF "ptr" \in Mode THEN SubSeq(t.scopeStack, 1, m) ELSE t.scopeStack,
         t'.callContext = IF "cg" \in Mode THEN SubSeq(t.callContext, 1, m) ELSE t.callContext,
         frames' = SubSeq(frames, 1, n), live' \subseteq live
  PROVE  CallInv'
<1> DEFINE vids == VidsIn(t.scopeStack)
<1>1. /\ t.scopeStack \in Seq(Scope) /\ t.callContext \in Seq(Funcs) /\ frames \in Seq(Call)
      /\ t.allocaPool \in Seq(StackAddrs) /\ live \subseteq Object
  BY DEF CallInv, HmType, PartsOK
<1>2. PartsOK' /\ frames' \in Seq(Call) /\ live' \subseteq Object
  BY <1>1 DEF PartsOK, MapOK
<1>3. /\ vids \in Seq(Funcs) /\ Len(vids) = Len(t.scopeStack)
      /\ VidsIn(t'.scopeStack) = IF "ptr" \in Mode THEN SubSeq(vids, 1, m) ELSE vids
  <2>1. vids \in Seq(Funcs) /\ Len(vids) = Len(t.scopeStack)
    BY <1>1, VidsType
  <2>2. ASSUME "ptr" \in Mode PROVE VidsIn(t'.scopeStack) = SubSeq(vids, 1, m)
    <3>1. m \in 0..Len(t.scopeStack)
      BY <1>1, <2>2
    <3> QED
      BY <1>1, <2>2, <3>1, VidsCut
  <2>3. "ptr" \notin Mode => VidsIn(t'.scopeStack) = vids
    OBVIOUS
  <2> QED
    BY <2>1, <2>2, <2>3
<1>4. Agree(frames, vids, t.callContext)
  BY AgreeIs DEF CallInv
<1> HIDE DEF vids
<1>5. ASSUME "ptr" \in Mode PROVE ScopesOf(frames', SubSeq(vids, 1, m))
  BY <1>1, <1>3, <1>4, <1>5, ScopesCut DEF Agree
<1>6. ASSUME "cg" \in Mode PROVE ScopesOf(frames', SubSeq(t.callContext, 1, m))
  BY <1>1, <1>4, <1>6, ScopesCut DEF Agree
<1>7. Agree(frames', VidsIn(t'.scopeStack), t'.callContext)
  BY <1>3, <1>4, <1>5, <1>6 DEF Agree
<1> QED
  BY <1>2, <1>7, AgreeIs DEF CallInv, HmType

\* The scopes of the active calls lie on the stacks, one above the other.
LEMMA ScopePlaces ==
  ASSUME CallInv
  PROVE  /\ Len(frames) \in Nat /\ Len(t.scopeStack) \in Nat /\ Len(t.callContext) \in Nat
         /\ "ptr" \in Mode => \A i \in 1..Len(frames) : /\ frames[i].at \in 1..Len(t.scopeStack)
                                     /\ t.scopeStack[frames[i].at].vid = frames[i].fn
         /\ "cg" \in Mode => \A i \in 1..Len(frames) : /\ frames[i].at \in 1..Len(t.callContext)
                                     /\ t.callContext[frames[i].at] = frames[i].fn
         /\ {"ptr", "cg"} \subseteq Mode => Len(t.scopeStack) = Len(t.callContext)
         /\ \A i \in 1..Len(frames) : frames[i].at \in Nat
         /\ Mode \intersect {"ptr", "cg"} # {} =>
              \A i \in 1..Len(frames) : \A j \in i + 1..Len(frames) : frames[i].at < frames[j].at
<1>1. /\ t.scopeStack \in Seq(Scope) /\ t.callContext \in Seq(Funcs) /\ frames \in Seq(Call)
  BY DEF CallInv, HmType, PartsOK
<1>2. Agree(frames, VidsIn(t.scopeStack), t.callContext)
  BY AgreeIs DEF CallInv
<1>3. /\ Len(VidsIn(t.scopeStack)) = Len(t.scopeStack)
      /\ \A i \in 1..Len(t.scopeStack) : VidsIn(t.scopeStack)[i] = t.scopeStack[i].vid
  BY <1>1, VidsType
<1>4. \A i \in 1..Len(frames) : frames[i] \in Call
  BY <1>1
<1>5. \A i \in 1..Len(frames) : frames[i].at \in Nat
  BY <1>4 DEF Call
<1> QED
  BY <1>1, <1>2, <1>3, <1>5 DEF Agree, ScopesOf

LEMMA LeaveCalls == ASSUME CallInv, Leave PROVE CallInv'
<1> DEFINE n == Len(frames)
<1>1. /\ n \in Nat /\ n > 0 /\ frames \in Seq(Call) /\ live \subseteq Object
      /\ frames' = SubSeq(frames, 1, n - 1) /\ live' \subseteq live
  BY DEF Leave, DropLast, CallInv, HmType
<1>2. CASE ~emitsEnd
  <2>1. t' = t
    BY <1>2 DEF Leave
  <2>2. VidsIn(t.scopeStack) \in Seq(Funcs) /\ Agree(frames, VidsIn(t.scopeStack), t.callContext)
    BY VidsType, AgreeIs DEF CallInv, HmType, PartsOK
  <2>3. /\ "ptr" \in Mode => ScopesOf(frames', VidsIn(t.scopeStack))
        /\ "cg" \in Mode => ScopesOf(frames', t.callContext)
    BY <1>1, <2>2 DEF Agree, ScopesOf
  <2>4. Agree(frames', VidsIn(t'.scopeStack), t'.callContext)
    BY <2>1, <2>2, <2>3 DEF Agree
  <2>5. IsTables(t') /\ PartsOK' /\ frames' \in Seq(Call) /\ live' \subseteq Object
    BY <1>1, <2>1 DEF CallInv, HmType, PartsOK
  <2> QED
    BY <2>4, <2>5, AgreeIs DEF CallInv, HmType
<1>3. CASE emitsEnd
  <2> DEFINE m == IF "ptr" \in Mode THEN Len(t.scopeStack) - 1
                  ELSE IF "cg" \in Mode THEN Len(t.callContext) - 1 ELSE frames[n].at
  <2>1. Event(Rec("END", Last(frames).fn, 0, 0))
    BY <1>3 DEF Leave
  <2>2. /\ IsTables(t') /\ t'.allocaPool = t.allocaPool
        /\ t'.ptrToVid = IF "ptr" \in Mode THEN Unbind(t.ptrToVid, SliceAddrs(t, Last(t.scopeStack)))
                         ELSE t.ptrToVid
        /\ t'.scopeStack = IF "ptr" \in Mode THEN SubSeq(t.scopeStack, 1, Len(t.scopeStack) - 1)
                           ELSE t.scopeStack
        /\ t'.callContext = IF "cg" \in Mode THEN SubSeq(t.callContext, 1, Len(t.callContext) - 1)
                            ELSE t.callContext
    BY <2>1, EndIs DEF CallInv, HmType, DropLast
  <2>3. MapOK(t'.ptrToVid)
    BY <2>2 DEF CallInv, HmType, PartsOK, MapOK, Unbind
  <2>4. n - 1 \in 0..n /\ n - 1 \in 0..Len(frames) /\ frames[n] \in Call
    BY <1>1
  <2>5. /\ m \in Nat
        /\ "ptr" \in Mode => m = Len(t.scopeStack) - 1
        /\ "cg" \in Mode => m = Len(t.callContext) - 1
        /\ Mode \intersect {"ptr", "cg"} # {} => \A i \in 1..n - 1 : frames[i].at <= m
    <3>1. n \in 1..Len(frames) /\ frames[n].at \in Nat
      BY <1>1, ScopePlaces
    <3>2. \A i \in 1..n - 1 : i \in 1..Len(frames) /\ n \in i + 1..Len(frames)
      BY <1>1
    <3>3. Mode \intersect {"ptr", "cg"} # {} =>
            \A i \in 1..n - 1 : frames[i].at < frames[n].at /\ frames[i].at \in Nat
      BY <3>2, ScopePlaces
    <3>4. /\ "ptr" \in Mode => frames[n].at <= Len(t.scopeStack) /\ Len(t.scopeStack) > 0
          /\ "cg" \in Mode => frames[n].at <= Len(t.callContext) /\ Len(t.callContext) > 0
      BY <3>1, ScopePlaces
    <3>5. /\ m \in Nat
          /\ "ptr" \in Mode => m = Len(t.scopeStack) - 1
          /\ "cg" \in Mode => m = Len(t.callContext) - 1
      BY <3>1, <3>4, ScopePlaces
    <3> HIDE DEF m
    <3> QED
      BY <3>1, <3>3, <3>4, <3>5, ScopePlaces
  <2> HIDE DEF m
  <2>6. CASE Mode \intersect {"ptr", "cg"} # {}
    <3>1. n - 1 > 0 => frames[n - 1].at <= m
      BY <1>1, <2>5, <2>6
    <3>2. /\ "ptr" \in Mode => m <= Len(t.scopeStack)
          /\ "cg" \in Mode => m <= Len(t.callContext)
      BY <2>5, ScopePlaces
    <3> QED
      BY <1>1, <2>2, <2>3, <2>4, <2>5, <3>1, <3>2, CutCalls
  <2>7. CASE Mode \intersect {"ptr", "cg"} = {}
    <3>1. \A i \in 1..n : frames[i].at \in Nat
      BY ScopePlaces
    <3>2. PartsOK' /\ frames' \in Seq(Call) /\ live' \subseteq Object
      BY <1>1, <2>2, <2>7 DEF CallInv, HmType, PartsOK
    <3>3. Agree(frames', VidsIn(t'.scopeStack), t'.callContext)
      BY <2>7 DEF Agree
    <3> QED
      BY <2>2, <3>2, <3>3, AgreeIs DEF CallInv, HmType
  <2> QED
    BY <2>6, <2>7
<1> QED
  BY <1>2, <1>3

\* A landing pad keeps the scope of its call.
LEMMA PadKeeps ==
  ASSUME CallInv, NEW i \in 1..Len(frames)
  PROVE  /\ "ptr" \in Mode => /\ Kept(ScopeVids(t), frames[i].fn) \in frames[i].at..Len(t.scopeStack)
                              /\ t.scopeStack[Kept(ScopeVids(t), frames[i].fn)].vid = frames[i].fn
         /\ "cg" \in Mode => Kept(t.callContext, frames[i].fn) \in frames[i].at..Len(t.callContext)
         /\ {"ptr", "cg"} \subseteq Mode => ScopeVids(t) = t.callContext
<1>1. /\ VidsIn(t.scopeStack) \in Seq(Funcs) /\ Len(VidsIn(t.scopeStack)) = Len(t.scopeStack)
      /\ \A k \in 1..Len(t.scopeStack) : VidsIn(t.scopeStack)[k] = t.scopeStack[k].vid
      /\ t.callContext \in Seq(Funcs)
  BY VidsType DEF CallInv, HmType, PartsOK
<1>2. ScopeVids(t) = VidsIn(t.scopeStack)
  BY DEF ScopeVids, VidsIn
<1>3. ASSUME "ptr" \in Mode
      PROVE /\ Kept(ScopeVids(t), frames[i].fn) \in frames[i].at..Len(t.scopeStack)
            /\ t.scopeStack[Kept(ScopeVids(t), frames[i].fn)].vid = frames[i].fn
  <2> DEFINE fs == VidsIn(t.scopeStack)  at == frames[i].at  f == frames[i].fn
  <2>1. at \in 1..Len(fs) /\ fs[at] = f
    BY <1>1, <1>3, ScopePlaces
  <2>2. fs \in Seq(Funcs) /\ Len(fs) = Len(t.scopeStack)
    BY <1>1
  <2> HIDE DEF fs, at, f
  <2>3. Kept(fs, f) \in at..Len(fs) /\ fs[Kept(fs, f)] = f
    BY <2>1, <2>2, KeptIs
  <2>4. Kept(fs, f) \in 1..Len(t.scopeStack)
    BY <2>1, <2>2, <2>3
  <2>5. t.scopeStack[Kept(fs, f)].vid = f
    BY <1>1, <2>3, <2>4 DEF fs
  <2> QED
    BY <1>2, <2>2, <2>3, <2>5 DEF fs, at, f
<1>4. ASSUME "cg" \in Mode
      PROVE Kept(t.callContext, frames[i].fn) \in frames[i].at..Len(t.callContext)
  <2> DEFINE at == frames[i].at  f == frames[i].fn
  <2>1. at \in 1..Len(t.callContext) /\ t.callContext[at] = f
    BY <1>4, ScopePlaces
  <2> HIDE DEF at, f
  <2>2. Kept(t.callContext, f) \in at..Len(t.callContext)
    BY <1>1, <2>1, KeptIs
  <2> QED
    BY <2>2 DEF at, f
<1> QED
  BY <1>3, <1>4 DEF CallInv, ScopesKept

LEMMA CatchCalls == ASSUME CallInv, NEW i \in 1..Len(frames), Catch(i) PROVE CallInv'
<1> DEFINE f == frames[i].fn
           m == IF "ptr" \in Mode THEN Kept(ScopeVids(t), f)
                ELSE IF "cg" \in Mode THEN Kept(t.callContext, f) ELSE frames[i].at
<1>1. /\ IsTables(t') /\ t'.allocaPool = t.allocaPool
      /\ t'.ptrToVid = IF "ptr" \in Mode THEN Unbind(t.ptrToVid, AddrsAbove(Kept(ScopeVids(t), f)))
                       ELSE t.ptrToVid
      /\ t'.scopeStack = IF "ptr" \in Mode THEN SubSeq(t.scopeStack, 1, Kept(ScopeVids(t), f))
                         ELSE t.scopeStack
      /\ t'.callContext = IF "cg" \in Mode THEN SubSeq(t.callContext, 1, Kept(t.callContext, f))
                          ELSE t.callContext
  BY LandingIs DEF CallInv, HmType, Catch
<1>2. frames \in Seq(Call) /\ frames' = SubSeq(frames, 1, i) /\ live' \subseteq live
  BY DEF CallInv, HmType, Catch
<1>3. MapOK(t'.ptrToVid)
  BY <1>1 DEF CallInv, HmType, PartsOK, MapOK, Unbind
<1>4. frames[i].at \in Nat /\ Len(t.scopeStack) \in Nat /\ Len(t.callContext) \in Nat
  BY ScopePlaces
<1>5. /\ m \in Nat /\ frames[i].at <= m
      /\ "ptr" \in Mode => m = Kept(ScopeVids(t), f) /\ m <= Len(t.scopeStack)
      /\ "cg" \in Mode => m = Kept(t.callContext, f) /\ m <= Len(t.callContext)
  BY <1>4, PadKeeps, ScopePlaces
<1> HIDE DEF m
<1>6. /\ t'.scopeStack = IF "ptr" \in Mode THEN SubSeq(t.scopeStack, 1, m) ELSE t.scopeStack
      /\ t'.callContext = IF "cg" \in Mode THEN SubSeq(t.callContext, 1, m) ELSE t.callContext
  BY <1>1, <1>5
<1>7. i \in 0..Len(frames)
  BY <1>2
<1> QED
  BY <1>1, <1>2, <1>3, <1>5, <1>6, <1>7, CutCalls

\* The sizes of an array of c elements of e bytes: the real one, and what is registered.
LEMMA SizesOf ==
  ASSUME NEW e \in Sizes, NEW c \in Counts, NEW constant \in BOOLEAN
  PROVE  /\ e * c \in Bytes /\ AllocaSize(e, c, constant) \in 1..e * c
         /\ IsConstantArray(c, constant) \in BOOLEAN
         /\ ~IsConstantArray(c, constant) => AllocaSize(e, c, constant) = e * c
<1>1. e \in Nat /\ e > 0 /\ c \in Nat /\ c > 0
  BY HookMemoryAssumption
<1>2. e * c \in Nat /\ e * c >= c
  <2>1. e = (e - 1) + 1 /\ e - 1 \in Nat
    BY <1>1
  <2>2. \A i, j \in Nat : i * j \in Nat /\ (i + 1) * j = i * j + j
    OBVIOUS
  <2> QED
    BY <1>1, <2>1, <2>2
<1> QED
  BY <1>1, <1>2 DEF Bytes, AllocaSize, IsConstantArray

LEMMA StackObjectCalls ==
  ASSUME CallInv, NEW s \in Sites, NEW a \in StackAddrs, NEW e \in Sizes, NEW c \in Counts,
         NEW constant \in BOOLEAN, StackObject(s, a, e, c, constant)
  PROVE  CallInv'
<1> DEFINE n == AllocaSize(e, c, constant)
           o == [base |-> a, size |-> e * c, vid |-> s, depth |-> Len(frames),
                 scope |-> OpenScopes(t), array |-> IsConstantArray(c, constant)]
<1>0. n \in Bytes /\ e * c \in Bytes /\ IsConstantArray(c, constant) \in BOOLEAN
  BY SizesOf DEF Bytes
<1>1. /\ Len(frames) > 0 /\ frames' = frames /\ live' = live \union {o} /\ IsTables(t)
      /\ Event(Rec("ALLOCA", s, a, n))
  BY DEF StackObject, CallInv, HmType
<1> HIDE DEF n
<1>2. live' \subseteq Object
  <2>1. OpenScopes(t) \in Nat /\ Len(frames) \in Nat
    BY DEF CallInv, HmType, PartsOK, OpenScopes
  <2>2. o \in Object
    BY <1>0, <2>1 DEF Object, Addrs
  <2> QED
    BY <1>1, <2>2 DEF CallInv, HmType
<1> HIDE DEF o
<1>3. CASE "ptr" \notin Mode
  BY <1>1, <1>2, <1>3, NoPointers, AsideCalls
<1>4. CASE "ptr" \in Mode
  <2>1. /\ IsTables(t') /\ t'.callContext = t.callContext
        /\ t'.ptrToVid = Bind(t.ptrToVid, a, [vid |-> s, size |-> n])
        /\ t'.allocaPool = Append(t.allocaPool, a)
        /\ t'.scopeStack = [t.scopeStack EXCEPT ![Len(t.scopeStack)].end = Len(t.allocaPool)]
    BY <1>1, <1>4, AllocaIs
  <2>2. /\ t.scopeStack \in Seq(Scope) /\ t.callContext \in Seq(Funcs)
        /\ t.allocaPool \in Seq(StackAddrs) /\ MapOK(t.ptrToVid)
    BY DEF CallInv, HmType, PartsOK, MapOK
  <2>3. Len(t.scopeStack) > 0
    BY <1>1, <1>4, ScopePlaces
  <2>4. t'.scopeStack \in Seq(Scope) /\ VidsIn(t'.scopeStack) = VidsIn(t.scopeStack)
    <3> DEFINE end == Len(t.allocaPool)
    <3>1. end \in Nat
      BY <2>2
    <3> HIDE DEF end
    <3>2. LET new == [t.scopeStack EXCEPT ![Len(t.scopeStack)].end = end] IN
          new \in Seq(Scope) /\ VidsIn(new) = VidsIn(t.scopeStack)
      BY <2>2, <2>3, <3>1, TopChanges
    <3> QED
      BY <2>1, <3>2 DEF end
  <2>5. MapOK(t'.ptrToVid)
    <3>1. [vid |-> s, size |-> n] \in Target /\ a \in Addrs
      BY <1>0 DEF Target, Addrs
    <3> QED
      BY <2>1, <2>2, <3>1 DEF MapOK, Bind
  <2>6. t'.allocaPool \in Seq(StackAddrs)
    BY <2>1, <2>2
  <2>7. PartsOK'
    BY <2>1, <2>2, <2>4, <2>5, <2>6 DEF PartsOK, MapOK
  <2> QED
    BY <1>1, <1>2, <2>1, <2>4, <2>7, SameCalls
<1> QED
  BY <1>3, <1>4

LEMMA OtherObjectCalls ==
  ASSUME CallInv, NEW s \in Sites, NEW a \in OtherAddrs, NEW n \in Sizes, OtherObject(s, a, n)
  PROVE  CallInv'
<1> DEFINE o == [base |-> a, size |-> n, vid |-> s, depth |-> 0, scope |-> 0, array |-> FALSE]
<1>0. n \in Bytes
  BY HookMemoryAssumption DEF Bytes
<1>1. /\ frames' = frames /\ live' = live \union {o} /\ IsTables(t)
      /\ Event(Rec("REGION", s, a, n))
  BY DEF OtherObject, CallInv, HmType
<1>2. live' \subseteq Object
  <2>1. o \in Object
    BY <1>0 DEF Object, Addrs
  <2> QED
    BY <1>1, <2>1 DEF CallInv, HmType
<1> HIDE DEF o
<1>3. CASE "ptr" \notin Mode
  BY <1>1, <1>2, <1>3, NoPointers, AsideCalls
<1>4. CASE "ptr" \in Mode
  <2>1. /\ IsTables(t') /\ t'.callContext = t.callContext
        /\ t'.ptrToVid = Bind(t.ptrToVid, a, [vid |-> s, size |-> n])
        /\ t'.allocaPool = t.allocaPool /\ t'.scopeStack = t.scopeStack
    BY <1>1, <1>4, RegionIs
  <2>2. MapOK(t'.ptrToVid)
    <3>1. [vid |-> s, size |-> n] \in Target /\ a \in Addrs
      BY <1>0 DEF Target, Addrs
    <3>2. MapOK(t.ptrToVid)
      BY DEF CallInv, HmType, PartsOK, MapOK
    <3> QED
      BY <2>1, <3>1, <3>2 DEF MapOK, Bind
  <2>3. PartsOK'
    BY <2>1, <2>2 DEF PartsOK, MapOK, CallInv, HmType
  <2> QED
    BY <1>1, <1>2, <2>1, <2>3, SameCalls
<1> QED
  BY <1>3, <1>4

LEMMA FreeObjectCalls ==
  ASSUME CallInv, NEW o \in live, NEW recorded \in BOOLEAN, FreeObject(o, recorded)
  PROVE  CallInv'
<1>1. frames' = frames /\ IsTables(t) /\ live' \subseteq Object
  BY DEF FreeObject, CallInv, HmType
<1>2. CASE ~recorded
  <2>1. Aside
    BY <1>1, <1>2 DEF FreeObject, Aside
  <2> QED
    BY <1>1, <2>1, AsideCalls
<1>3. CASE recorded
  <2>1. Event(Rec("FREE", o.vid, o.base, 0))
    BY <1>3 DEF FreeObject
  <2>2. CASE "ptr" \notin Mode
    BY <1>1, <2>1, <2>2, NoPointers, AsideCalls
  <2>3. CASE "ptr" \in Mode
    <3>1. /\ IsTables(t') /\ t'.callContext = t.callContext
          /\ t'.ptrToVid = Unbind(t.ptrToVid, {o.base})
          /\ t'.allocaPool = t.allocaPool /\ t'.scopeStack = t.scopeStack
      BY <1>1, <2>1, <2>3, FreeIs
    <3>2. PartsOK'
      BY <3>1 DEF PartsOK, CallInv, HmType, Unbind
    <3> QED
      BY <1>1, <3>1, <3>2, SameCalls
  <2> QED
    BY <2>2, <2>3
<1> QED
  BY <1>2, <1>3

LEMMA ProbeCalls ==
  ASSUME CallInv, NEW p, NEW a, ProbeEvent(p, a)
  PROVE  CallInv'
<1>1. /\ frames' = frames /\ IsTables(t) /\ live' \subseteq Object
      /\ Event(Rec("PROBE", p, a, 0))
  BY DEF ProbeEvent, CallInv, HmType
<1>2. /\ IsTables(t') /\ t'.ptrToVid = t.ptrToVid /\ t'.scopeStack = t.scopeStack
      /\ t'.allocaPool = t.allocaPool /\ t'.callContext = t.callContext
  BY <1>1, ProbeIs
<1>3. PartsOK'
  BY <1>2 DEF PartsOK, CallInv, HmType
<1> QED
  BY <1>1, <1>2, <1>3, SameCalls

LEMMA NextCalls == CallInv /\ [Next]_hmVars => CallInv'
<1> SUFFICES ASSUME CallInv, [Next]_hmVars PROVE CallInv'
  OBVIOUS
<1>1. CASE UNCHANGED hmVars
  BY <1>1 DEF hmVars, CallInv, HmType, PartsOK, ScopesKept, IsTables
<1>2. CASE Calls
  BY <1>2, EnterCalls, LeaveCalls, CatchCalls DEF Calls
<1>3. CASE Objects
  BY <1>3, StackObjectCalls, OtherObjectCalls, FreeObjectCalls DEF Objects
<1>4. CASE Probes
  BY <1>4, ProbeCalls DEF Probes
<1>5. CASE Arguments
  <2>1. Aside /\ UNCHANGED <<frames, live>>
    BY <1>5, ArgumentsAside DEF CallInv, HmType
  <2> QED
    BY <2>1, AsideCalls DEF CallInv, HmType
<1> QED
  BY <1>1, <1>2, <1>3, <1>4, <1>5 DEF Next

LEMMA CallsHold == Spec => []CallInv
BY FirstCalls, NextCalls, PTL DEF Spec

(***************************************************************************)
(* The scope opened for an active call is where it was, on both stacks,    *)
(* through returns that push nothing and exceptions that unwind any number *)
(* of calls, recursive ones included (BEGINSCOPE, ENDSCOPE and LANDING in  *)
(* stopAndConsume): back() and pop_back() never see an empty vector.       *)
(***************************************************************************)
THEOREM ScopesAreKept == Spec => []ScopesKept
BY CallsHold, PTL DEF CallInv

-----------------------------------------------------------------------------
(* The shape of the tables. *)

SlicesOK(stack, pool) ==
  \A i \in 1..Len(stack) :
    /\ stack[i].vid \in Funcs
    /\ 0 <= stack[i].start /\ stack[i].start <= stack[i].end /\ stack[i].end <= Len(pool)
    /\ i > 1 => stack[i - 1].start <= stack[i].start

EdgesOK(pts) == \A e \in pts : e[1] \in Pointers /\ e[2] \in Sites /\ Len(e[3]) <= K

LEMMA TablesOKIs ==
  /\ TablesOK <=> SlicesOK(t.scopeStack, t.allocaPool) /\ EdgesOK(t.pts)
  /\ TablesOK' <=> SlicesOK(t'.scopeStack, t'.allocaPool) /\ EdgesOK(t'.pts)
  BY DEF TablesOK, SlicesOK, EdgesOK

\* BEGINSCOPE
LEMMA SlicesGrow ==
  ASSUME NEW stack \in Seq(Scope), NEW pool \in Seq(StackAddrs), SlicesOK(stack, pool), NEW f \in Funcs
  PROVE  SlicesOK(Append(stack, [vid |-> f, start |-> Len(pool), end |-> Len(pool)]), pool)
<1> DEFINE n == Len(stack)  sc == [vid |-> f, start |-> Len(pool), end |-> Len(pool)]
           more == Append(stack, sc)
<1>1. Len(pool) \in Nat /\ sc.vid = f /\ sc.start = Len(pool) /\ sc.end = Len(pool)
  OBVIOUS
<1> HIDE DEF sc
<1>2. /\ n \in Nat /\ Len(more) = n + 1 /\ more[n + 1] = sc
      /\ \A i \in 1..n : more[i] = stack[i] /\ stack[i] \in Scope
  BY <1>1
<1> HIDE DEF more
<1>3. \A i \in 1..n : more[i].start \in Nat /\ more[i].start <= Len(pool)
  <2>1. \A i \in 1..n : stack[i].start \in Nat /\ stack[i].end \in Nat
    BY <1>2 DEF Scope
  <2>2. \A i \in 1..n : stack[i].start <= stack[i].end /\ stack[i].end <= Len(pool)
    BY DEF SlicesOK
  <2> QED
    BY <1>1, <1>2, <2>1, <2>2
<1> SUFFICES ASSUME NEW i \in 1..n + 1
             PROVE  /\ more[i].vid \in Funcs
                    /\ 0 <= more[i].start /\ more[i].start <= more[i].end /\ more[i].end <= Len(pool)
                    /\ i > 1 => more[i - 1].start <= more[i].start
  BY <1>2 DEF SlicesOK, more, sc
<1>4. CASE i = n + 1
  <2>1. i > 1 => i - 1 \in 1..n
    BY <1>2, <1>4
  <2> QED
    BY <1>1, <1>2, <1>3, <1>4, <2>1
<1>5. CASE i # n + 1
  <2>1. i \in 1..n /\ (i > 1 => i - 1 \in 1..n)
    BY <1>2, <1>5
  <2> QED
    BY <1>2, <2>1 DEF SlicesOK
<1> QED
  BY <1>4, <1>5

\* ENDSCOPE and LANDING
LEMMA SlicesCut ==
  ASSUME NEW stack \in Seq(Scope), NEW pool \in Seq(StackAddrs), SlicesOK(stack, pool),
         NEW n \in 0..Len(stack)
  PROVE  SlicesOK(SubSeq(stack, 1, n), pool)
<1> DEFINE less == SubSeq(stack, 1, n)
<1>1. Len(less) = n /\ \A i \in 1..n : less[i] = stack[i] /\ i \in 1..Len(stack)
  OBVIOUS
<1> HIDE DEF less
<1>2. \A i \in 1..n : i > 1 => i - 1 \in 1..n
  OBVIOUS
<1>3. SlicesOK(less, pool)
  BY <1>1, <1>2 DEF SlicesOK
<1> QED
  BY <1>3 DEF less

\* ALLOCA
LEMMA SlicesPush ==
  ASSUME NEW stack \in Seq(Scope), NEW pool \in Seq(StackAddrs), SlicesOK(stack, pool),
         NEW a \in StackAddrs, Len(stack) > 0
  PROVE  SlicesOK([stack EXCEPT ![Len(stack)].end = Len(pool)], Append(pool, a))
<1> DEFINE n == Len(stack)  e == Len(pool)  new == [stack EXCEPT ![n].end = e]
<1>1. n \in Nat /\ e \in Nat /\ Len(Append(pool, a)) = e + 1
  OBVIOUS
<1> HIDE DEF e
<1>2. /\ Len(new) = n
      /\ \A i \in 1..n : /\ new[i].vid = stack[i].vid /\ new[i].start = stack[i].start
                         /\ new[i].end = IF i = n THEN e ELSE stack[i].end
  BY <1>1, TopChanges
<1> HIDE DEF new
<1>3. \A i \in 1..n : /\ stack[i].vid \in Funcs /\ stack[i].start \in Nat /\ stack[i].end \in Nat
                      /\ stack[i].start <= stack[i].end /\ stack[i].end <= e
                      /\ i > 1 => stack[i - 1].start <= stack[i].start
  <2>1. \A i \in 1..n : stack[i] \in Scope
    OBVIOUS
  <2> QED
    BY <2>1 DEF SlicesOK, e, Scope
<1>4. \A i \in 1..n : i > 1 => i - 1 \in 1..n
  BY <1>1
<1>5. SlicesOK(new, Append(pool, a))
  <2> SUFFICES ASSUME NEW i \in 1..n
               PROVE  /\ new[i].vid \in Funcs
                      /\ 0 <= new[i].start /\ new[i].start <= new[i].end /\ new[i].end <= e + 1
                      /\ i > 1 => new[i - 1].start <= new[i].start
    BY <1>1, <1>2 DEF SlicesOK
  <2>1. i > 1 => i - 1 \in 1..n /\ new[i - 1].start = stack[i - 1].start
    BY <1>2, <1>4
  <2> QED
    BY <1>1, <1>2, <1>3, <2>1
<1> QED
  BY <1>5 DEF new, e

\* The base found for an address that is covered, and the context stored with it.
LEMMA BaseIs ==
  ASSUME HmType, NEW a \in Addrs, BasesUpTo(t, a) # {}
  PROVE  /\ BaseOf(t, a) \in DOMAIN t.ptrToVid /\ BaseOf(t, a) <= a
         /\ \A b \in DOMAIN t.ptrToVid : b <= a => b <= BaseOf(t, a)
<1> DEFINE B == BasesUpTo(t, a)
<1>1. a \in Nat /\ DOMAIN t.ptrToVid \subseteq Nat
  BY HookMemoryAssumption DEF HmType, PartsOK, Addrs
<1>2. B \subseteq 0..a
  BY <1>1 DEF BasesUpTo
<1> HIDE DEF B
<1>3. \E m \in B : \A k \in B : k <= m
  BY <1>1, <1>2, GreatestIn DEF B
<1>4. BaseOf(t, a) = CHOOSE b \in B : \A c \in B : c <= b
  BY DEF BaseOf, B
<1>5. BaseOf(t, a) \in B /\ \A k \in B : k <= BaseOf(t, a)
  BY <1>3, <1>4
<1> QED
  BY <1>5 DEF B, BasesUpTo

LEMMA ContextLength == ASSUME HmType PROVE Len(Context(t)) <= K
<1> DEFINE n == IF Len(t.scopeStack) < K THEN Len(t.scopeStack) ELSE K
<1>1. Len(t.scopeStack) \in Nat /\ n \in Nat /\ n <= K
  BY HookTablesAssumption DEF HmType, PartsOK
<1>2. Context(t) = [j \in 1..n |-> t.scopeStack[j].vid]
  BY DEF Context
<1> HIDE DEF n
<1>3. Len(Context(t)) = n
  BY <1>1, <1>2
<1> QED
  BY <1>1, <1>3

LEMMA FirstTables == Init => TablesOK
  BY StartTables, TablesOKIs DEF Init, SlicesOK, EdgesOK

LEMMA CallTables ==
  ASSUME CallInv, TablesOK, Calls
  PROVE  TablesOK'
<1>1. /\ t.scopeStack \in Seq(Scope) /\ t.allocaPool \in Seq(StackAddrs) /\ IsTables(t)
      /\ SlicesOK(t.scopeStack, t.allocaPool) /\ EdgesOK(t.pts)
  BY TablesOKIs DEF CallInv, HmType, PartsOK
<1>2. ASSUME NEW f \in Funcs, Enter(f) PROVE TablesOK'
  <2>1. /\ t'.pts = t.pts /\ t'.allocaPool = t.allocaPool
        /\ t'.scopeStack = IF "ptr" \in Mode
                           THEN Append(t.scopeStack, [vid |-> f, start |-> Len(t.allocaPool),
                                                      end |-> Len(t.allocaPool)])
                           ELSE t.scopeStack
    BY <1>1, <1>2, BeginIs DEF Enter
  <2> QED
    BY <1>1, <2>1, SlicesGrow, TablesOKIs
<1>3. CASE Leave
  <2>1. CASE ~emitsEnd
    BY <1>1, <1>3, <2>1, TablesOKIs DEF Leave
  <2>2. CASE emitsEnd
    <3>1. Event(Rec("END", Last(frames).fn, 0, 0)) /\ Len(frames) > 0
      BY <1>3, <2>2 DEF Leave, CallInv, HmType
    <3>2. /\ t'.pts = t.pts /\ t'.allocaPool = t.allocaPool
          /\ t'.scopeStack = IF "ptr" \in Mode THEN SubSeq(t.scopeStack, 1, Len(t.scopeStack) - 1)
                             ELSE t.scopeStack
      BY <1>1, <3>1, EndIs DEF DropLast
    <3>3. "ptr" \in Mode => Len(t.scopeStack) - 1 \in 0..Len(t.scopeStack)
      BY <3>1, ScopePlaces
    <3> QED
      BY <1>1, <3>2, <3>3, SlicesCut, TablesOKIs
  <2> QED
    BY <2>1, <2>2
<1>4. ASSUME NEW i \in 1..Len(frames), Catch(i) PROVE TablesOK'
  <2> DEFINE m == Kept(ScopeVids(t), frames[i].fn)
  <2>1. /\ t'.pts = t.pts /\ t'.allocaPool = t.allocaPool
        /\ t'.scopeStack = IF "ptr" \in Mode THEN SubSeq(t.scopeStack, 1, m) ELSE t.scopeStack
    BY <1>1, <1>4, LandingIs DEF Catch
  <2>2. "ptr" \in Mode => m \in 0..Len(t.scopeStack)
    BY PadKeeps, ScopePlaces
  <2> HIDE DEF m
  <2> QED
    BY <1>1, <2>1, <2>2, SlicesCut, TablesOKIs
<1> QED
  BY <1>2, <1>3, <1>4 DEF Calls

LEMMA ObjectTables ==
  ASSUME CallInv, TablesOK, Objects
  PROVE  TablesOK'
<1>1. /\ t.scopeStack \in Seq(Scope) /\ t.allocaPool \in Seq(StackAddrs) /\ IsTables(t)
      /\ SlicesOK(t.scopeStack, t.allocaPool) /\ EdgesOK(t.pts)
  BY TablesOKIs DEF CallInv, HmType, PartsOK
<1>2. CASE Aside
  BY <1>1, <1>2, TablesOKIs DEF Aside
<1>3. ASSUME NEW s \in Sites, NEW a \in StackAddrs, NEW e \in Sizes, NEW c \in Counts,
             NEW constant \in BOOLEAN, StackObject(s, a, e, c, constant), "ptr" \in Mode
      PROVE TablesOK'
  <2> DEFINE n == AllocaSize(e, c, constant)
  <2>1. Len(frames) > 0 /\ Event(Rec("ALLOCA", s, a, n))
    BY <1>3 DEF StackObject, CallInv, HmType
  <2> HIDE DEF n
  <2>2. /\ t'.pts = t.pts
        /\ t'.allocaPool = Append(t.allocaPool, a)
        /\ t'.scopeStack = [t.scopeStack EXCEPT ![Len(t.scopeStack)].end = Len(t.allocaPool)]
    BY <1>1, <1>3, <2>1, AllocaIs
  <2>3. Len(t.scopeStack) > 0
    BY <1>3, <2>1, ScopePlaces
  <2>4. SlicesOK([t.scopeStack EXCEPT ![Len(t.scopeStack)].end = Len(t.allocaPool)],
                 Append(t.allocaPool, a))
    BY <1>1, <2>3, SlicesPush
  <2> QED
    BY <1>1, <2>2, <2>4, TablesOKIs
<1>4. ASSUME NEW s, NEW a, NEW n, NEW action \in {"REGION", "FREE"},
             Event(Rec(action, s, a, n)), "ptr" \in Mode, action = "FREE" => n = 0
      PROVE TablesOK'
  <2>1. /\ t'.pts = t.pts /\ t'.allocaPool = t.allocaPool /\ t'.scopeStack = t.scopeStack
    BY <1>1, <1>4, RegionIs, FreeIs
  <2> QED
    BY <1>1, <2>1, TablesOKIs
<1>5. CASE "ptr" \in Mode
  BY <1>1, <1>2, <1>3, <1>4, <1>5 DEF Objects, OtherObject, FreeObject, Aside
<1>6. CASE "ptr" \notin Mode
  BY <1>1, <1>2, <1>6, NoPointers DEF Objects, StackObject, OtherObject, FreeObject, Aside
<1> QED
  BY <1>5, <1>6

LEMMA ProbeTables ==
  ASSUME CallInv, TablesOK, NEW p \in Pointers, NEW a \in Addrs, ProbeEvent(p, a)
  PROVE  TablesOK'
<1> DEFINE edge == <<p, t.ptrToVid[BaseOf(t, a)].vid, Context(t)>>
<1>1. /\ t'.scopeStack = t.scopeStack /\ t'.allocaPool = t.allocaPool
      /\ t'.pts = IF "ptr" \in Mode /\ Covers(t, a) THEN t.pts \union {edge} ELSE t.pts
  BY ProbeIs DEF ProbeEvent, CallInv, HmType
<1>2. SlicesOK(t.scopeStack, t.allocaPool) /\ EdgesOK(t.pts)
  BY TablesOKIs
<1>3. Covers(t, a) => edge[2] \in Sites
  BY BaseIs DEF Covers, CallInv, HmType, PartsOK, Target
<1>4. edge[1] \in Pointers /\ Len(edge[3]) <= K
  BY ContextLength DEF CallInv
<1> HIDE DEF edge
<1>5. EdgesOK(t'.pts)
  BY <1>1, <1>2, <1>3, <1>4 DEF EdgesOK
<1> QED
  BY <1>1, <1>2, <1>5, TablesOKIs

LEMMA NextTables == CallInv /\ TablesOK /\ [Next]_hmVars => TablesOK'
<1> SUFFICES ASSUME CallInv, TablesOK, [Next]_hmVars PROVE TablesOK'
  OBVIOUS
<1>1. CASE UNCHANGED hmVars
  BY <1>1, TablesOKIs DEF hmVars
<1>2. CASE Calls
  BY <1>2, CallTables
<1>3. CASE Objects
  BY <1>3, ObjectTables
<1>4. CASE Probes
  BY <1>4, ProbeTables DEF Probes, Addrs
<1>5. CASE Arguments
  BY <1>5, ArgumentsAside, TablesOKIs DEF CallInv, HmType, Aside
<1> QED
  BY <1>1, <1>2, <1>3, <1>4, <1>5 DEF Next

(***************************************************************************)
(* Slices of ScopeAllocaPool lie inside it, scopes start in their order,   *)
(* and an edge names a probed pointer, a site and at most PTACXX_K         *)
(* functions, whatever a program does.                                     *)
(***************************************************************************)
THEOREM TablesStayOK == Spec => []TablesOK
<1>1. CallInv /\ TablesOK /\ [Next]_hmVars /\ CallInv' => TablesOK'
  BY NextTables
<1> QED
  BY <1>1, FirstTables, CallsHold, PTL DEF Spec

-----------------------------------------------------------------------------
(* The objects. *)

\* Objects do not overlap, so they have bases of their own.
Apart == \A o, q \in live : o.base = q.base => o = q

\* A stack object belongs to an active call.
Placed ==
  \A o \in live : IF o.depth = 0 THEN o.base \in OtherAddrs
                  ELSE o.depth \in 1..Len(frames) /\ o.base \in StackAddrs

\* No scope above the one of a tracked object's call names the object.
Spared ==
  \A o \in Tracked : o.depth > 0 =>
    \A k \in frames[o.depth].at + 1 .. Len(t.scopeStack) :
      \A j \in t.scopeStack[k].start + 1 .. Len(t.allocaPool) : t.allocaPool[j] # o.base

ObjectsInv == Apart /\ Placed /\ ("ptr" \in Mode => Spared /\ LiveObjectsKnown)

\* The assumptions of the steps, and what they say of one scope and one object.
Safe == CallInv /\ TablesOK /\ ObjectsInv

LEMMA FirstObjects == Init => ObjectsInv
  BY DEF Init, ObjectsInv, Apart, Placed, Spared, LiveObjectsKnown, Tracked

\* Closing a scope above the one of its call spares a tracked object.
LEMMA SliceSpares ==
  ASSUME Safe, "ptr" \in Mode, NEW o \in Tracked, NEW k \in 1..Len(t.scopeStack),
         o.depth > 0 => k > frames[o.depth].at
  PROVE  o.base \notin SliceAddrs(t, t.scopeStack[k])
<1>1. /\ t.scopeStack \in Seq(Scope) /\ t.allocaPool \in Seq(StackAddrs) /\ o \in live
      /\ o \in Object
  BY DEF Safe, CallInv, HmType, PartsOK, Tracked
<1>2. t.scopeStack[k] \in Scope
  BY <1>1
<1>3. /\ t.scopeStack[k].start \in Nat /\ t.scopeStack[k].end \in Nat
      /\ t.scopeStack[k].end <= Len(t.allocaPool) /\ Len(t.allocaPool) \in Nat
      /\ Len(t.scopeStack) \in Nat
  BY <1>1, <1>2 DEF Scope, Safe, TablesOK
<1> SUFFICES ASSUME NEW j \in t.scopeStack[k].start .. t.scopeStack[k].end - 1
             PROVE  t.allocaPool[j + 1] # o.base
  BY DEF SliceAddrs
<1>4. j + 1 \in t.scopeStack[k].start + 1 .. Len(t.allocaPool) /\ j + 1 \in 1..Len(t.allocaPool)
  BY <1>3
<1>5. t.allocaPool[j + 1] \in StackAddrs
  BY <1>1, <1>4
<1>6. o.depth \in Nat
  BY <1>1 DEF Object
<1>7. CASE o.depth = 0
  BY <1>1, <1>5, <1>7, HookMemoryAssumption DEF Safe, ObjectsInv, Placed
<1>8. CASE o.depth > 0
  <2>1. o.depth \in 1..Len(frames)
    BY <1>1, <1>8 DEF Safe, ObjectsInv, Placed
  <2>2. frames[o.depth].at \in Nat /\ k \in frames[o.depth].at + 1 .. Len(t.scopeStack)
    BY <1>3, <1>8, <2>1, ScopePlaces DEF Safe
  <2> QED
    BY <1>4, <1>8, <2>2 DEF Safe, ObjectsInv, Spared
<1> QED
  BY <1>6, <1>7, <1>8

\* Calls end: the objects that go on belong to calls that go on, and both stacks are cut
\* above those calls' scopes.
LEMMA CutObjects ==
  ASSUME Safe, NEW n \in 0..Len(frames), NEW m \in Nat, NEW gone,
         frames' = SubSeq(frames, 1, n), live' = {o \in live : o.depth <= n},
         "ptr" \in Mode => /\ m <= Len(t.scopeStack) /\ (n > 0 => frames[n].at <= m)
                           /\ t'.scopeStack = SubSeq(t.scopeStack, 1, m)
                           /\ t'.allocaPool = t.allocaPool
                           /\ t'.ptrToVid = Unbind(t.ptrToVid, gone)
                           /\ \A a \in gone : \E k \in m + 1 .. Len(t.scopeStack) :
                                                a \in SliceAddrs(t, t.scopeStack[k])
  PROVE  ObjectsInv'
<1>1. /\ frames \in Seq(Call) /\ live \subseteq Object
      /\ t.scopeStack \in Seq(Scope) /\ t.allocaPool \in Seq(StackAddrs)
  BY DEF Safe, CallInv, HmType, PartsOK
<1>2. Len(frames') = n /\ \A i \in 1..n : frames'[i] = frames[i] /\ i \in 1..Len(frames)
  BY <1>1
<1>3. \A o \in live' : o \in live /\ o.depth \in Nat /\ o.depth <= n
  BY <1>1 DEF Object
<1>4. Apart'
  BY <1>3 DEF Apart, Safe, ObjectsInv
<1>5. Placed'
  BY <1>2, <1>3 DEF Placed, Safe, ObjectsInv
<1>6. \A o \in Tracked' : o \in Tracked /\ o \in live'
  BY <1>2, <1>3 DEF Tracked
<1>7. ASSUME "ptr" \in Mode, NEW o \in Tracked', o.depth > 0
      PROVE  /\ frames'[o.depth] = frames[o.depth] /\ frames[o.depth].at \in Nat
             /\ frames[o.depth].at <= m
  <2>1. o.depth \in 1..n
    BY <1>3, <1>6, <1>7
  <2>2. n \in 1..Len(frames) /\ o.depth \in 1..Len(frames) /\ frames[n].at <= m
    BY <1>7, <2>1
  <2>3. frames[n].at \in Nat /\ frames[o.depth].at \in Nat
    BY <2>2, ScopePlaces DEF Safe
  <2>4. CASE o.depth = n
    BY <1>2, <2>1, <2>2, <2>3, <2>4
  <2>5. CASE o.depth # n
    <3>1. n \in o.depth + 1..Len(frames)
      BY <1>1, <2>1, <2>5
    <3>2. frames[o.depth].at < frames[n].at
      BY <1>7, <2>2, <3>1, ScopePlaces DEF Safe
    <3> QED
      BY <1>2, <1>7, <2>1, <2>2, <2>3, <3>2
  <2> QED
    BY <2>4, <2>5
<1>8. ASSUME "ptr" \in Mode PROVE Spared'
  <2>1. /\ Len(t'.scopeStack) = m /\ m <= Len(t.scopeStack) /\ Len(t.scopeStack) \in Nat
        /\ \A k \in 1..m : t'.scopeStack[k] = t.scopeStack[k]
    BY <1>1, <1>8
  <2> SUFFICES ASSUME NEW o \in Tracked', o.depth > 0, NEW k \in frames'[o.depth].at + 1 .. m,
                      NEW j \in t'.scopeStack[k].start + 1 .. Len(t.allocaPool)
               PROVE  t.allocaPool[j] # o.base
    BY <1>8, <2>1 DEF Spared
  <2>2. o \in Tracked /\ k \in frames[o.depth].at + 1 .. Len(t.scopeStack)
        /\ t'.scopeStack[k] = t.scopeStack[k]
    <3>1. o \in Tracked /\ frames'[o.depth] = frames[o.depth] /\ frames[o.depth].at \in Nat
      BY <1>6, <1>7, <1>8
    <3>2. k \in frames[o.depth].at + 1 .. m
      BY <3>1
    <3>3. k \in 1..m /\ k \in frames[o.depth].at + 1 .. Len(t.scopeStack)
      BY <2>1, <3>1, <3>2
    <3> QED
      BY <2>1, <3>1, <3>3
  <2> QED
    BY <1>8, <2>2 DEF Safe, ObjectsInv, Spared
<1>9. ASSUME "ptr" \in Mode PROVE LiveObjectsKnown'
  <2> SUFFICES ASSUME NEW o \in Tracked'
               PROVE  /\ o.base \in DOMAIN t'.ptrToVid
                      /\ Registers(t'.ptrToVid[o.base], o)
    BY DEF LiveObjectsKnown
  <2>1. /\ o \in Tracked /\ o.base \in DOMAIN t.ptrToVid
        /\ Registers(t.ptrToVid[o.base], o)
    BY <1>6, <1>9 DEF Safe, ObjectsInv, LiveObjectsKnown
  <2>2. \A k \in m + 1 .. Len(t.scopeStack) : o.base \notin SliceAddrs(t, t.scopeStack[k])
    <3> SUFFICES ASSUME NEW k \in m + 1 .. Len(t.scopeStack)
                 PROVE  o.base \notin SliceAddrs(t, t.scopeStack[k])
      OBVIOUS
    <3>1. k \in 1..Len(t.scopeStack) /\ (o.depth > 0 => k > frames[o.depth].at)
      BY <1>1, <1>7, <1>9
    <3> QED
      BY <1>9, <2>1, <3>1, SliceSpares
  <2>3. o.base \notin gone
    BY <1>9, <2>2
  <2> QED
    BY <1>9, <2>1, <2>3 DEF Unbind
<1> QED
  BY <1>4, <1>5, <1>8, <1>9 DEF ObjectsInv

LEMMA EnterObjects == ASSUME Safe, NEW f \in Funcs, Enter(f) PROVE ObjectsInv'
<1> DEFINE n     == Len(t.allocaPool)
           scope == [vid |-> f, start |-> n, end |-> n]
           call  == [fn |-> f, at |-> OpenScopes(t) + 1]
<1>1. /\ t'.ptrToVid = t.ptrToVid /\ t'.allocaPool = t.allocaPool
      /\ t'.scopeStack = IF "ptr" \in Mode THEN Append(t.scopeStack, scope) ELSE t.scopeStack
      /\ frames' = Append(frames, call) /\ live' = live
  BY BeginIs DEF Enter, Safe, CallInv, HmType
<1>2. /\ frames \in Seq(Call) /\ t.scopeStack \in Seq(Scope) /\ n \in Nat /\ scope.start = n
      /\ live \subseteq Object
  BY DEF Safe, CallInv, HmType, PartsOK
<1> HIDE DEF scope, call
<1>3. /\ Len(frames') = Len(frames) + 1 /\ Len(frames) \in Nat
      /\ \A i \in 1..Len(frames) : frames'[i] = frames[i]
  BY <1>1, <1>2
<1>4. Apart' /\ Placed'
  BY <1>1, <1>3 DEF Safe, ObjectsInv, Apart, Placed
<1>5. ASSUME NEW o \in Tracked'
      PROVE  /\ o \in Tracked
             /\ o.depth > 0 => o.depth \in 1..Len(frames) /\ frames'[o.depth] = frames[o.depth]
  <2>1. o \in live /\ o \in Object
    BY <1>1, <1>2 DEF Tracked
  <2>2. o.depth > 0 => o.depth \in 1..Len(frames)
    BY <2>1 DEF Safe, ObjectsInv, Placed, Object
  <2> QED
    BY <1>1, <1>3, <2>1, <2>2 DEF Tracked
<1>6. ASSUME "ptr" \in Mode PROVE LiveObjectsKnown'
  BY <1>1, <1>5, <1>6 DEF LiveObjectsKnown, Safe, ObjectsInv
<1>7. ASSUME "ptr" \in Mode PROVE Spared'
  <2>1. /\ Len(t'.scopeStack) = Len(t.scopeStack) + 1 /\ Len(t.scopeStack) \in Nat
        /\ t'.scopeStack[Len(t.scopeStack) + 1] = scope
        /\ \A k \in 1..Len(t.scopeStack) : t'.scopeStack[k] = t.scopeStack[k]
    BY <1>1, <1>2, <1>7
  <2> SUFFICES ASSUME NEW o \in Tracked', o.depth > 0,
                      NEW k \in frames'[o.depth].at + 1 .. Len(t.scopeStack) + 1,
                      NEW j \in t'.scopeStack[k].start + 1 .. n
               PROVE  t.allocaPool[j] # o.base
    BY <1>1, <2>1 DEF Spared
  <2>2. /\ o \in Tracked /\ frames[o.depth].at \in Nat
        /\ k \in frames[o.depth].at + 1 .. Len(t.scopeStack) + 1
    BY <1>5, ScopePlaces DEF Safe
  <2>3. CASE k = Len(t.scopeStack) + 1
    <3>1. j \in n + 1 .. n
      BY <1>2, <2>1, <2>3
    <3> QED
      BY <1>2, <3>1
  <2>4. CASE k # Len(t.scopeStack) + 1
    <3>1. k \in frames[o.depth].at + 1 .. Len(t.scopeStack) /\ k \in 1..Len(t.scopeStack)
      BY <2>1, <2>2, <2>4
    <3> QED
      BY <1>7, <2>1, <2>2, <3>1 DEF Safe, ObjectsInv, Spared
  <2> QED
    BY <2>3, <2>4
<1> QED
  BY <1>4, <1>6, <1>7 DEF ObjectsInv

LEMMA LeaveObjects == ASSUME Safe, Leave PROVE ObjectsInv'
<1> DEFINE n == Len(frames)
<1>1. /\ n \in Nat /\ n > 0 /\ n - 1 \in 0..n /\ frames \in Seq(Call) /\ live \subseteq Object
      /\ frames' = SubSeq(frames, 1, n - 1) /\ live' = {o \in live : o.depth < n}
  BY DEF Leave, DropLast, Safe, CallInv, HmType
<1>2. live' = {o \in live : o.depth <= n - 1}
  <2>1. \A o \in live : o.depth \in Nat
    BY <1>1 DEF Object
  <2> QED
    BY <1>1, <2>1
<1>3. n - 1 > 0 => n - 1 \in 1..n /\ n \in (n - 1) + 1 .. n
  BY <1>1
<1>4. CASE emitsEnd /\ "ptr" \in Mode
  <2> DEFINE m == Len(t.scopeStack) - 1
             gone == SliceAddrs(t, Last(t.scopeStack))
  <2>1. Event(Rec("END", Last(frames).fn, 0, 0)) /\ IsTables(t)
    BY <1>4 DEF Leave, Safe, CallInv, HmType
  <2>2. /\ t'.allocaPool = t.allocaPool /\ t'.ptrToVid = Unbind(t.ptrToVid, gone)
        /\ t'.scopeStack = SubSeq(t.scopeStack, 1, m)
    BY <1>4, <2>1, EndIs DEF DropLast
  <2>3. Len(t.scopeStack) \in Nat /\ n \in 1..n /\ frames[n].at \in 1..Len(t.scopeStack)
    BY <1>1, <1>4, ScopePlaces DEF Safe
  <2>4. m \in Nat /\ m <= Len(t.scopeStack)
    BY <2>3
  <2>5. n - 1 > 0 => frames[n - 1].at <= m
    <3>1. n - 1 > 0 => frames[n - 1].at < frames[n].at /\ frames[n - 1].at \in Nat
      BY <1>3, <1>4, ScopePlaces DEF Safe
    <3> QED
      BY <2>3, <3>1
  <2>6. \A a \in gone : \E k \in m + 1 .. Len(t.scopeStack) : a \in SliceAddrs(t, t.scopeStack[k])
    BY <2>3 DEF Last
  <2> HIDE DEF m, gone
  <2> QED
    BY <1>1, <1>2, <2>2, <2>4, <2>5, <2>6, CutObjects
<1>5. CASE ~(emitsEnd /\ "ptr" \in Mode)
  <2>1. "ptr" \in Mode => t' = t
    BY <1>5 DEF Leave
  <2>2. Len(frames') = n - 1 /\ \A i \in 1..n - 1 : frames'[i] = frames[i]
    <3> DEFINE m == n - 1
    <3>1. m \in 0..Len(frames) /\ frames \in Seq(Call) /\ frames' = SubSeq(frames, 1, m)
      BY <1>1
    <3> HIDE DEF m
    <3>2. Len(frames') = m /\ \A i \in 1..m : frames'[i] = frames[i]
      BY <3>1
    <3> QED
      BY <3>2 DEF m
  <2>3. \A o \in live' : o \in live /\ o.depth \in Nat /\ o.depth <= n - 1
    BY <1>1, <1>2 DEF Object
  <2>4. \A o \in Tracked' : /\ o \in Tracked
                            /\ o.depth > 0 => frames'[o.depth] = frames[o.depth]
    BY <2>2, <2>3 DEF Tracked
  <2>5. Apart' /\ Placed'
    BY <1>1, <2>2, <2>3 DEF Apart, Placed, Safe, ObjectsInv
  <2>6. "ptr" \in Mode => Spared'
    BY <2>1, <2>4 DEF Spared, Safe, ObjectsInv
  <2>7. "ptr" \in Mode => LiveObjectsKnown'
    BY <2>1, <2>4 DEF LiveObjectsKnown, Safe, ObjectsInv
  <2> QED
    BY <2>5, <2>6, <2>7 DEF ObjectsInv
<1> QED
  BY <1>4, <1>5

LEMMA CatchObjects == ASSUME Safe, NEW i \in 1..Len(frames), Catch(i) PROVE ObjectsInv'
<1> DEFINE m == IF "ptr" \in Mode THEN Kept(ScopeVids(t), frames[i].fn) ELSE 0
           gone == AddrsAbove(m)
<1>1. /\ "ptr" \in Mode => /\ t'.allocaPool = t.allocaPool
                           /\ t'.ptrToVid = Unbind(t.ptrToVid, gone)
                           /\ t'.scopeStack = SubSeq(t.scopeStack, 1, m)
      /\ frames' = SubSeq(frames, 1, i) /\ live' = {o \in live : o.depth <= i}
  BY LandingIs DEF Catch, Safe, CallInv, HmType
<1>2. i \in 0..Len(frames) /\ Len(t.scopeStack) \in Nat /\ frames[i].at \in Nat
  BY ScopePlaces DEF Safe
<1>3. m \in Nat /\ ("ptr" \in Mode => m <= Len(t.scopeStack) /\ frames[i].at <= m)
  BY <1>2, PadKeeps DEF Safe
<1> HIDE DEF m
<1>4. \A a \in gone : \E k \in m + 1 .. Len(t.scopeStack) : a \in SliceAddrs(t, t.scopeStack[k])
  BY DEF AddrsAbove
<1> HIDE DEF gone
<1> QED
  BY <1>1, <1>2, <1>3, <1>4, CutObjects

\* A vacant place starts at no object's base.
LEMMA VacantApart ==
  ASSUME Safe, NEW a \in Addrs, NEW n \in Bytes, Vacant(a, n)
  PROVE  \A o \in live : o.base # a
<1>1. a \in Nat /\ n \in Nat /\ n > 0
  BY HookMemoryAssumption DEF Addrs, Bytes
<1>2. \A o \in live : o.base \in Nat /\ o.size \in Nat /\ o.size > 0
  <2>1. \A o \in live : o.base \in Addrs /\ o.size \in Bytes
    <3>1. \A o \in live : o \in Object
      BY DEF Safe, CallInv, HmType
    <3> QED
      BY <3>1 DEF Object
  <2>2. Addrs \subseteq Nat /\ \A k \in Bytes : k \in Nat /\ k > 0
    BY HookMemoryAssumption DEF Addrs, Bytes
  <2> QED
    BY <2>1, <2>2
<1> QED
  BY <1>1, <1>2 DEF Vacant

\* An object comes into being, at the top scope or outside of the stack.
LEMMA BornObjects ==
  ASSUME Safe, NEW o \in Object, NEW v, Registers(v, o),
         \A q \in live : q.base # o.base,
         IF o.depth = 0 THEN o.base \in OtherAddrs
                        ELSE o.depth \in 1..Len(frames) /\ o.base \in StackAddrs,
         frames' = frames, live' = live \union {o},
         "ptr" \in Mode =>
           /\ t'.ptrToVid = Bind(t.ptrToVid, o.base, v)
           /\ t'.allocaPool = t.allocaPool \/ t'.allocaPool = Append(t.allocaPool, o.base)
           /\ Len(t'.scopeStack) = Len(t.scopeStack)
           /\ \A k \in 1..Len(t.scopeStack) : t'.scopeStack[k].start = t.scopeStack[k].start
           /\ o.depth > 0 => o.scope = Len(t.scopeStack)
  PROVE  ObjectsInv'
<1>1. /\ t.allocaPool \in Seq(StackAddrs) /\ t.scopeStack \in Seq(Scope) /\ live \subseteq Object
  BY DEF Safe, CallInv, HmType, PartsOK
<1>2. Apart' /\ Placed'
  BY DEF Safe, ObjectsInv, Apart, Placed
<1>3. ASSUME NEW q \in Tracked'
      PROVE  /\ q = o \/ (q \in Tracked /\ q.base # o.base)
             /\ q.depth > 0 => q.depth \in 1..Len(frames) /\ q.scope = frames[q.depth].at
  <2>1. q \in live' /\ q \in Object
    BY <1>1 DEF Tracked
  <2>2. q.depth > 0 => q.depth \in 1..Len(frames)
    BY <1>2, <2>1 DEF Placed, Object
  <2> QED
    BY <2>1, <2>2 DEF Tracked
<1>4. ASSUME "ptr" \in Mode PROVE LiveObjectsKnown'
  <2> SUFFICES ASSUME NEW q \in Tracked'
               PROVE  q.base \in DOMAIN t'.ptrToVid /\ Registers(t'.ptrToVid[q.base], q)
    BY DEF LiveObjectsKnown
  <2>1. CASE q = o
    BY <1>4, <2>1 DEF Bind
  <2>2. CASE q \in Tracked /\ q.base # o.base
    <3>1. q.base \in DOMAIN t.ptrToVid /\ Registers(t.ptrToVid[q.base], q)
      BY <1>4, <2>2 DEF LiveObjectsKnown, Safe, ObjectsInv
    <3> QED
      BY <1>4, <2>2, <3>1 DEF Bind
  <2> QED
    BY <1>3, <2>1, <2>2
<1>5. ASSUME "ptr" \in Mode PROVE Spared'
  <2> SUFFICES ASSUME NEW q \in Tracked', q.depth > 0,
                      NEW k \in frames[q.depth].at + 1 .. Len(t.scopeStack),
                      NEW j \in t'.scopeStack[k].start + 1 .. Len(t'.allocaPool)
               PROVE  t'.allocaPool[j] # q.base
    BY <1>5 DEF Spared
  <2>1. /\ frames[q.depth].at \in 1..Len(t.scopeStack) /\ q.scope = frames[q.depth].at
        /\ Len(t.scopeStack) \in Nat
    BY <1>3, <1>5, ScopePlaces DEF Safe
  <2>2. /\ k \in 1..Len(t.scopeStack) /\ k > q.scope /\ q.scope # Len(t.scopeStack)
        /\ t'.scopeStack[k].start = t.scopeStack[k].start
    BY <1>5, <2>1
  <2>3. q # o
    BY <1>5, <2>2
  <2>4. q \in Tracked /\ q.base # o.base
    BY <1>3, <2>3
  <2>5. t.scopeStack[k].start \in Nat
    <3>1. t.scopeStack[k] \in Scope
      BY <1>1, <2>2
    <3> QED
      BY <3>1 DEF Scope
  <2>6. CASE j \in t.scopeStack[k].start + 1 .. Len(t.allocaPool)
    <3>1. t.allocaPool[j] # q.base
      BY <1>5, <2>4, <2>6 DEF Safe, ObjectsInv, Spared
    <3>2. j \in 1..Len(t.allocaPool)
      BY <2>5, <2>6
    <3>3. t'.allocaPool[j] = t.allocaPool[j]
      BY <1>1, <1>5, <3>2
    <3> QED
      BY <3>1, <3>3
  <2>7. CASE j \notin t.scopeStack[k].start + 1 .. Len(t.allocaPool)
    <3>1. t'.allocaPool = Append(t.allocaPool, o.base) /\ j = Len(t.allocaPool) + 1
      BY <1>1, <1>5, <2>2, <2>5, <2>7
    <3>2. t'.allocaPool[j] = o.base
      BY <1>1, <3>1
    <3> QED
      BY <2>4, <3>2
  <2> QED
    BY <2>6, <2>7
<1> QED
  BY <1>2, <1>4, <1>5 DEF ObjectsInv

LEMMA StackObjects ==
  ASSUME Safe, NEW s \in Sites, NEW a \in StackAddrs, NEW e \in Sizes, NEW c \in Counts,
         NEW constant \in BOOLEAN, StackObject(s, a, e, c, constant)
  PROVE  ObjectsInv'
<1> DEFINE n == AllocaSize(e, c, constant)
           v == [vid |-> s, size |-> n]
           o == [base |-> a, size |-> e * c, vid |-> s, depth |-> Len(frames),
                 scope |-> OpenScopes(t), array |-> IsConstantArray(c, constant)]
<1>0. /\ e * c \in Bytes /\ n \in 1..e * c /\ IsConstantArray(c, constant) \in BOOLEAN
      /\ ~IsConstantArray(c, constant) => n = e * c
  BY SizesOf
<1>1. /\ Len(frames) \in 1..Len(frames) /\ frames' = frames /\ live' = live \union {o}
      /\ IsTables(t) /\ Event(Rec("ALLOCA", s, a, n)) /\ Vacant(a, e * c)
  BY DEF StackObject, Safe, CallInv, HmType
<1> HIDE DEF n
<1>2. /\ t.scopeStack \in Seq(Scope) /\ t.allocaPool \in Seq(StackAddrs)
  BY DEF Safe, CallInv, HmType, PartsOK
<1>3. \A q \in live : q.base # a
  BY <1>0, <1>1, VacantApart DEF Addrs
<1>4. /\ o \in Object /\ o.base = a /\ Registers(v, o) /\ o.depth = Len(frames)
      /\ "ptr" \in Mode => o.scope = Len(t.scopeStack)
  <2>1. OpenScopes(t) \in Nat /\ ("ptr" \in Mode => OpenScopes(t) = Len(t.scopeStack))
    BY DEF Safe, CallInv, HmType, PartsOK, OpenScopes
  <2> QED
    BY <1>0, <1>1, <2>1 DEF Object, Addrs, Registers
<1> HIDE DEF o
<1>5. ASSUME "ptr" \in Mode
      PROVE  /\ t'.ptrToVid = Bind(t.ptrToVid, a, v)
             /\ t'.allocaPool = Append(t.allocaPool, a)
             /\ Len(t'.scopeStack) = Len(t.scopeStack)
             /\ \A k \in 1..Len(t.scopeStack) : t'.scopeStack[k].start = t.scopeStack[k].start
  <2> DEFINE end == Len(t.allocaPool)
  <2>1. /\ t'.ptrToVid = Bind(t.ptrToVid, a, v)
        /\ t'.allocaPool = Append(t.allocaPool, a)
        /\ t'.scopeStack = [t.scopeStack EXCEPT ![Len(t.scopeStack)].end = end]
    BY <1>1, <1>5, AllocaIs
  <2>2. Len(t.scopeStack) > 0 /\ end \in Nat
    BY <1>1, <1>2, <1>5, ScopePlaces DEF Safe
  <2> HIDE DEF end
  <2>3. LET new == [t.scopeStack EXCEPT ![Len(t.scopeStack)].end = end] IN
        /\ Len(new) = Len(t.scopeStack)
        /\ \A k \in 1..Len(t.scopeStack) : new[k].start = t.scopeStack[k].start
    BY <1>2, <2>2, TopChanges
  <2> QED
    BY <2>1, <2>3
<1> QED
  BY <1>1, <1>3, <1>4, <1>5, BornObjects

LEMMA OtherObjects ==
  ASSUME Safe, NEW s \in Sites, NEW a \in OtherAddrs, NEW n \in Sizes, OtherObject(s, a, n)
  PROVE  ObjectsInv'
<1> DEFINE o == [base |-> a, size |-> n, vid |-> s, depth |-> 0, scope |-> 0, array |-> FALSE]
           v == [vid |-> s, size |-> n]
<1>0. n \in Bytes /\ n \in 1..n
  BY HookMemoryAssumption DEF Bytes
<1>1. /\ frames' = frames /\ live' = live \union {o}
      /\ IsTables(t) /\ Event(Rec("REGION", s, a, n)) /\ Vacant(a, n)
  BY DEF OtherObject, Safe, CallInv, HmType
<1>2. \A q \in live : q.base # a
  BY <1>0, <1>1, VacantApart DEF Addrs
<1>3. o \in Object /\ o.base = a /\ Registers(v, o) /\ o.depth = 0
  BY <1>0 DEF Object, Addrs, Registers
<1> HIDE DEF o
<1>4. "ptr" \in Mode => /\ t'.ptrToVid = Bind(t.ptrToVid, a, v)
                        /\ t'.allocaPool = t.allocaPool /\ t'.scopeStack = t.scopeStack
  BY <1>1, RegionIs
<1> QED
  BY <1>1, <1>2, <1>3, <1>4, BornObjects

LEMMA FreeObjects ==
  ASSUME Safe, NEW o \in live, NEW recorded \in BOOLEAN, FreeObject(o, recorded)
  PROVE  ObjectsInv'
<1>1. frames' = frames /\ IsTables(t) /\ live' = live \ {o}
  BY DEF FreeObject, Safe, CallInv, HmType
<1>2. Apart' /\ Placed'
  BY <1>1 DEF Safe, ObjectsInv, Apart, Placed
<1>3. \A q \in Tracked' : q \in Tracked /\ q.base # o.base
  BY <1>1 DEF Tracked, Safe, ObjectsInv, Apart
<1>4. "ptr" \in Mode => /\ t'.allocaPool = t.allocaPool /\ t'.scopeStack = t.scopeStack
                        /\ t'.ptrToVid = t.ptrToVid \/ t'.ptrToVid = Unbind(t.ptrToVid, {o.base})
  BY <1>1, FreeIs DEF FreeObject
<1>5. "ptr" \in Mode => Spared'
  BY <1>1, <1>3, <1>4 DEF Spared, Safe, ObjectsInv
<1>6. "ptr" \in Mode => LiveObjectsKnown'
  BY <1>3, <1>4 DEF LiveObjectsKnown, Safe, ObjectsInv, Unbind
<1> QED
  BY <1>2, <1>5, <1>6 DEF ObjectsInv

LEMMA SameObjects ==
  ASSUME Safe, frames' = frames, live' = live, t'.ptrToVid = t.ptrToVid,
         t'.scopeStack = t.scopeStack, t'.allocaPool = t.allocaPool
  PROVE  ObjectsInv'
  BY DEF Safe, ObjectsInv, Apart, Placed, Spared, LiveObjectsKnown, Tracked

LEMMA NextObjects == Safe /\ [Next]_hmVars => ObjectsInv'
<1> SUFFICES ASSUME Safe, [Next]_hmVars PROVE ObjectsInv'
  OBVIOUS
<1>1. CASE UNCHANGED hmVars
  BY <1>1, SameObjects DEF hmVars
<1>2. CASE Calls
  BY <1>2, EnterObjects, LeaveObjects, CatchObjects DEF Calls
<1>3. CASE Objects
  BY <1>3, StackObjects, OtherObjects, FreeObjects DEF Objects
<1>4. ASSUME NEW p, NEW a, ProbeEvent(p, a) PROVE ObjectsInv'
  BY <1>4, ProbeIs, SameObjects DEF ProbeEvent, Safe, CallInv, HmType
<1>5. CASE Arguments
  BY <1>5, ArgumentsAside, SameObjects DEF Safe, CallInv, HmType, Aside
<1> QED
  BY <1>1, <1>2, <1>3, <1>4, <1>5 DEF Next, Probes

LEMMA SafeHolds == Spec => []Safe
<1>1. Init => Safe
  BY FirstCalls, FirstTables, FirstObjects DEF Safe
<1>2. Safe /\ [Next]_hmVars => Safe'
  BY NextCalls, NextTables, NextObjects DEF Safe
<1> QED
  BY <1>1, <1>2, PTL DEF Spec

(***************************************************************************)
(* Closing scopes and reusing addresses forgets nothing that still exists: *)
(* every global, heap block and object in its call's own scope is under    *)
(* its base in ptrToVid, with its site and no byte too many, and but for   *)
(* arrays of constant length with its size, for every program.             *)
(***************************************************************************)
THEOREM ObjectsKnown == Spec => []LiveObjectsKnown
<1>1. Safe => LiveObjectsKnown
  BY DEF Safe, ObjectsInv, LiveObjectsKnown
<1> QED
  BY <1>1, SafeHolds, PTL

(***************************************************************************)
(* PROBE records the site of the tracked object whose first address the    *)
(* pointer holds, and nothing for an address that no object covers.        *)
(***************************************************************************)
THEOREM ProbesHold == Spec => ProbesAreTrue
<1> DEFINE ProbeOK == \A p \in Pointers, a \in StackAddrs \union OtherAddrs :
       ("ptr" \in Mode /\ ProbeEvent(p, a)) =>
         /\ \A o \in Tracked : o.base = a => <<p, o.vid, Context(t)>> \in t'.pts
         /\ (\A b \in DOMAIN t.ptrToVid : b > a \/ b + t.ptrToVid[b].size <= a)
              => t'.pts = t.pts
<1>1. Safe /\ [Next]_hmVars => ProbeOK
  <2> SUFFICES ASSUME Safe, NEW p \in Pointers, NEW a \in Addrs, "ptr" \in Mode, ProbeEvent(p, a)
               PROVE  /\ \A o \in Tracked : o.base = a => <<p, o.vid, Context(t)>> \in t'.pts
                      /\ (\A b \in DOMAIN t.ptrToVid : b > a \/ b + t.ptrToVid[b].size <= a)
                           => t'.pts = t.pts
    BY DEF Addrs
  <2>1. t'.pts = IF Covers(t, a) THEN t.pts \union {<<p, t.ptrToVid[BaseOf(t, a)].vid, Context(t)>>}
                 ELSE t.pts
    BY ProbeIs DEF ProbeEvent, Safe, CallInv, HmType
  <2>2. /\ HmType /\ a \in Nat /\ DOMAIN t.ptrToVid \subseteq Nat
        /\ \A b \in DOMAIN t.ptrToVid : t.ptrToVid[b].size \in Nat \ {0}
    BY HookMemoryAssumption DEF Safe, CallInv, HmType, PartsOK, Addrs, Target, Bytes
  <2>3. ASSUME NEW o \in Tracked, o.base = a PROVE <<p, o.vid, Context(t)>> \in t'.pts
    <3>1. a \in DOMAIN t.ptrToVid /\ t.ptrToVid[a].vid = o.vid
      <4>1. LiveObjectsKnown
        BY DEF Safe, ObjectsInv
      <4>2. o.base \in DOMAIN t.ptrToVid /\ t.ptrToVid[o.base].vid = o.vid
        BY <4>1 DEF LiveObjectsKnown, Registers
      <4> QED
        BY <2>3, <4>2
    <3>2. BasesUpTo(t, a) # {}
      BY <2>2, <3>1 DEF BasesUpTo
    <3>3. BaseOf(t, a) = a
      <4>1. /\ BaseOf(t, a) \in DOMAIN t.ptrToVid /\ BaseOf(t, a) <= a /\ a <= BaseOf(t, a)
        BY <2>2, <3>1, <3>2, BaseIs
      <4> QED
        BY <2>2, <4>1
    <3>4. Covers(t, a)
      BY <2>2, <3>1, <3>2, <3>3 DEF Covers
    <3> QED
      BY <2>1, <3>1, <3>3, <3>4
  <2>4. ASSUME \A b \in DOMAIN t.ptrToVid : b > a \/ b + t.ptrToVid[b].size <= a
        PROVE  t'.pts = t.pts
    <3>1. ASSUME Covers(t, a) PROVE FALSE
      <4>1. BaseOf(t, a) \in DOMAIN t.ptrToVid /\ BaseOf(t, a) <= a
            /\ a < BaseOf(t, a) + t.ptrToVid[BaseOf(t, a)].size
        BY <2>2, <3>1, BaseIs DEF Covers
      <4> QED
        BY <2>2, <2>4, <4>1
    <3> QED
      BY <2>1, <3>1
  <2> QED
    BY <2>3, <2>4
<1>2. Spec => [][ProbeOK]_hmVars
  BY <1>1, SafeHolds, PTL DEF Spec
<1> QED
  BY <1>2 DEF ProbesAreTrue

-----------------------------------------------------------------------------
(* Constructions. *)

\* What one turn after the other of remove_if has kept.
KeptTypes(types, n, f) ==
  f = [k \in 0..Len(types) |->
         IF k = 0 THEN <<>>
         ELSE IF types[k].size > n THEN Append(f[k - 1], types[k]) ELSE f[k - 1]]

\* The induction over the turns: a set of numbers that has 0, and with each number
\* below m the next one, has all up to m.
LEMMA AllUpTo ==
  ASSUME NEW m \in Nat, NEW S, 0 \in S, \A k \in 1..m : k - 1 \in S => k \in S
  PROVE  0..m \subseteq S
<1> DEFINE T == (0..m) \ S
<1> SUFFICES ASSUME T # {} PROVE FALSE
  OBVIOUS
<1>1. PICK x \in T : \A y \in T : <<y, x>> \notin OpToRel(<, Nat)
  <2>1. T \subseteq Nat
    OBVIOUS
  <2> HIDE DEF T
  <2> QED
    BY <2>1, WFMin, NatLessThanWellFounded
<1>2. \A y \in T : ~(y < x)
  <2>1. T \subseteq Nat
    OBVIOUS
  <2> HIDE DEF T
  <2> QED
    BY <1>1, <2>1 DEF OpToRel
<1>3. x \in 1..m /\ x - 1 \in 0..m
  OBVIOUS
<1>4. x - 1 \notin T
  <2>1. x - 1 < x
    BY <1>3
  <2> QED
    BY <1>2, <2>1
<1>5. x - 1 \in S
  BY <1>3, <1>4
<1>6. x \in S
  BY <1>3, <1>5
<1> QED
  BY <1>6

\* There is such a function, so the one that is chosen is one.
LEMMA KeptExists ==
  ASSUME NEW types, Len(types) \in Nat, NEW n
  PROVE  \E f : KeptTypes(types, n, f)
<1> DEFINE Turn(f, k) == IF k = 0 THEN <<>>
                         ELSE IF types[k].size > n THEN Append(f[k - 1], types[k]) ELSE f[k - 1]
           S == {m \in 0..Len(types) : \E f : f = [k \in 0..m |-> Turn(f, k)]}
<1>1. 0 \in S
  <2> DEFINE g == [k \in 0..0 |-> <<>>]
  <2>1. \A k \in 0..0 : Turn(g, k) = <<>>
    OBVIOUS
  <2> HIDE DEF Turn
  <2>2. g = [k \in 0..0 |-> Turn(g, k)]
    BY <2>1
  <2>3. \E f : f = [k \in 0..0 |-> Turn(f, k)]
    BY <2>2
  <2> QED
    BY <2>3
<1>2. ASSUME NEW m \in 1..Len(types), m - 1 \in S PROVE m \in S
  <2>1. PICK f : f = [k \in 0..m - 1 |-> Turn(f, k)]
    BY <1>2
  <2> DEFINE g == [k \in 0..m |-> IF k = m THEN Turn(f, m) ELSE f[k]]
  <2>2. \A k \in 0..m - 1 : g[k] = f[k]
    OBVIOUS
  <2>3. ASSUME NEW k \in 0..m PROVE g[k] = Turn(g, k)
    <3>1. CASE k = m
      <4>1. g[m] = Turn(f, m) /\ m - 1 \in 0..m - 1
        OBVIOUS
      <4> QED
        BY <2>2, <3>1, <4>1
    <3>2. CASE k # m
      <4>1. k \in 0..m - 1 /\ (k # 0 => k - 1 \in 0..m - 1)
        BY <3>2
      <4>2. f[k] = Turn(f, k)
        BY <2>1, <4>1
      <4> HIDE DEF g
      <4> QED
        BY <2>2, <4>1, <4>2
    <3> QED
      BY <3>1, <3>2
  <2>4. g = [k \in 0..m |-> g[k]]
    OBVIOUS
  <2> HIDE DEF g
  <2>5. g = [k \in 0..m |-> Turn(g, k)]
    BY <2>3, <2>4
  <2> HIDE DEF Turn
  <2>6. \E h : h = [k \in 0..m |-> Turn(h, k)]
    BY <2>5
  <2> QED
    BY <2>6
<1> HIDE DEF S
<1>3. 0..Len(types) \subseteq S
  BY <1>1, <1>2, AllUpTo
<1> USE DEF S
<1>4. \E f : f = [k \in 0..Len(types) |-> Turn(f, k)]
  BY <1>3
<1> QED
  BY <1>4 DEF KeptTypes

LEMMA LargerIs ==
  ASSUME NEW types, Len(types) \in Nat, NEW n
  PROVE  \E f : KeptTypes(types, n, f) /\ LargerTypes(types, n) = f[Len(types)]
<1> DEFINE F == CHOOSE f : KeptTypes(types, n, f)
<1>1. KeptTypes(types, n, F)
  BY KeptExists
<1>2. LargerTypes(types, n) = F[Len(types)]
  BY DEF LargerTypes, KeptTypes
<1> QED
  BY <1>1, <1>2

\* Each type is larger than every later one.
Nested(types) == \A i, j \in 1..Len(types) : i < j => types[i].size > types[j].size
Built == [vid : Funcs, size : Nat]

\* What is kept of nested types is nested, and all of it is larger.
LEMMA LargerNested ==
  ASSUME NEW types \in Seq(Built), Nested(types), NEW n
  PROVE  /\ LargerTypes(types, n) \in Seq(Built) /\ Nested(LargerTypes(types, n))
         /\ \A i \in 1..Len(LargerTypes(types, n)) : LargerTypes(types, n)[i].size > n
<1> DEFINE m == Len(types)
<1>0. m \in Nat
  OBVIOUS
<1>1. PICK f : KeptTypes(types, n, f) /\ LargerTypes(types, n) = f[m]
  BY <1>0, LargerIs
<1> DEFINE Good(k) == /\ f[k] \in Seq(Built) /\ Nested(f[k])
                      /\ \A i \in 1..Len(f[k]) :
                           f[k][i].size > n /\ \A j \in k + 1..m : f[k][i].size > types[j].size
           S == {k \in 0..m : Good(k)}
<1>2. 0 \in S
  <2>1. f[0] = <<>>
    BY <1>0, <1>1 DEF KeptTypes
  <2>2. <<>> \in Seq(Built) /\ Len(<<>>) = 0
    OBVIOUS
  <2>3. Nested(<<>>)
    BY <2>2 DEF Nested
  <2>4. Good(0)
    BY <2>1, <2>2, <2>3
  <2> HIDE DEF Good
  <2> QED
    BY <1>0, <2>4
<1>3. ASSUME NEW k \in 1..m, k - 1 \in S PROVE k \in S
  <2> DEFINE old == f[k - 1]
  <2>1. Good(k - 1) /\ k \in Nat
    BY <1>3
  <2>2. f[k] = IF types[k].size > n THEN Append(old, types[k]) ELSE old
    <3>1. k \in 0..Len(types) /\ k # 0
      BY <1>0
    <3> HIDE DEF m, Good
    <3> QED
      BY <1>1, <3>1 DEF KeptTypes
  <2>3. \A j \in k + 1..m : j \in k..m /\ j \in 1..m /\ k < j
    BY <1>0
  <2>4. types[k] \in Built /\ \A j \in k + 1..m : types[k].size > types[j].size
    BY <1>0, <2>3 DEF Nested
  <2>5. /\ old \in Seq(Built) /\ Nested(old)
        /\ \A i \in 1..Len(old) : old[i].size > n /\ \A j \in k..m : old[i].size > types[j].size
    <3>1. k - 1 + 1 = k
      BY <2>1
    <3> QED
      BY <2>1, <3>1
  <2> HIDE DEF old
  <2>6. CASE types[k].size > n
    <3> DEFINE new == Append(old, types[k])
    <3>1. /\ new \in Seq(Built) /\ Len(old) \in Nat /\ Len(new) = Len(old) + 1
          /\ new[Len(old) + 1] = types[k]
          /\ \A i \in 1..Len(old) : new[i] = old[i]
      BY <2>4, <2>5
    <3> HIDE DEF new
    <3>2. \A i \in 1..Len(new) : i \in 1..Len(old) \/ i = Len(old) + 1
      BY <3>1
    <3>3. ASSUME NEW i \in 1..Len(new), NEW j \in 1..Len(new), i < j PROVE new[i].size > new[j].size
      <4>1. i \in 1..Len(old)
        BY <3>1, <3>3
      <4>2. CASE j \in 1..Len(old)
        BY <2>5, <3>1, <3>3, <4>1, <4>2 DEF Nested
      <4>3. CASE j = Len(old) + 1
        <5>1. k \in k..m
          BY <1>0
        <5> QED
          BY <2>5, <3>1, <4>1, <4>3, <5>1
      <4> QED
        BY <3>2, <4>2, <4>3
    <3>4. ASSUME NEW i \in 1..Len(new)
          PROVE  new[i].size > n /\ \A j \in k + 1..m : new[i].size > types[j].size
      BY <2>3, <2>4, <2>5, <2>6, <3>1, <3>2
    <3>5. f[k] = new
      BY <2>2, <2>6 DEF new
    <3> HIDE DEF m
    <3>6. Nested(new)
      BY <3>3 DEF Nested
    <3> QED
      BY <3>1, <3>4, <3>5, <3>6
  <2>7. CASE ~(types[k].size > n)
    <3>1. f[k] = old
      BY <2>2, <2>7
    <3> QED
      BY <2>3, <2>5, <3>1
  <2> QED
    BY <2>6, <2>7
<1> HIDE DEF S
<1>4. 0..m \subseteq S
  BY <1>0, <1>2, <1>3, AllUpTo
<1> USE DEF S
<1>5. Good(m)
  BY <1>0, <1>4
<1> QED
  BY <1>1, <1>5

ConsInv == \A a \in DOMAIN t.consMap : t.consMap[a] \in Seq(Built) /\ Nested(t.consMap[a])

\* All records but CONS leave the constructions alone.
LEMMA ConsAside ==
  ASSUME IsTables(t), NEW r, Event(r), r.action # "CONS",
         r.action \in {"ALLOCA", "REGION", "FREE", "PROBE", "ARG", "ARGCLEAR", "BEGIN", "END", "LANDING"}
  PROVE  t'.consMap = t.consMap
<1>1. CASE r.action = "BEGIN"
  <2> DEFINE u == IF "ptr" \in Mode THEN OpenScope(t, r.vid) ELSE t
  <2>1. t' = IF "cg" \in Mode THEN EnterCall(u, r.vid) ELSE u
    BY <1>1 DEF Event, Apply, BeginScope
  <2>2. IsTables(u) /\ u.consMap = t.consMap
    BY DEF IsTables, OpenScope
  <2> HIDE DEF u
  <2> QED
    BY <2>1, <2>2 DEF IsTables, EnterCall
<1>2. CASE r.action = "END"
  <2> DEFINE u == IF "ptr" \in Mode
                  THEN [t EXCEPT !.ptrToVid = Unbind(@, SliceAddrs(t, Last(t.scopeStack))),
                                 !.scopeStack = DropLast(@)]
                  ELSE t
  <2>1. t' = IF "cg" \in Mode THEN [u EXCEPT !.callContext = DropLast(@)] ELSE u
    BY <1>2 DEF Event, Apply, EndScope
  <2>2. IsTables(u) /\ u.consMap = t.consMap
    BY DEF IsTables
  <2> HIDE DEF u
  <2> QED
    BY <2>1, <2>2 DEF IsTables
<1>3. CASE r.action = "LANDING"
  <2> DEFINE n == Kept(ScopeVids(t), r.vid)
             u == IF "ptr" \in Mode
                  THEN [t EXCEPT !.ptrToVid = Unbind(@, UNION {SliceAddrs(t, t.scopeStack[i]) :
                                                                 i \in n + 1 .. Len(t.scopeStack)}),
                                 !.scopeStack = SubSeq(@, 1, n)]
                  ELSE t
  <2>1. t' = IF "cg" \in Mode THEN [u EXCEPT !.callContext = SubSeq(@, 1, Kept(@, r.vid))] ELSE u
    BY <1>3 DEF Event, Apply, Landing
  <2>2. IsTables(u) /\ u.consMap = t.consMap
    BY DEF IsTables
  <2> HIDE DEF u
  <2> QED
    BY <2>1, <2>2 DEF IsTables
<1>4. CASE r.action \in {"ALLOCA", "REGION", "FREE"}
  BY <1>4 DEF Event, Apply, Alloca, Region, Free, IsTables
<1>5. CASE r.action \in {"PROBE", "ARGCLEAR"}
  BY <1>5 DEF Event, Apply, Probe, ArgClear, IsTables
<1>6. CASE r.action = "ARG"
  BY <1>6 DEF Event, Apply, Arg, IsTables
<1> QED
  BY <1>1, <1>2, <1>3, <1>4, <1>5, <1>6

\* A construction at a.
LEMMA ConsKeepsInv ==
  ASSUME IsTables(t), ConsInv, NEW f \in Funcs, NEW a, NEW n \in Nat, Event(Rec("CONS", f, a, n))
  PROVE  ConsInv'
<1> DEFINE old  == TypesAt(t, a)
           type == [vid |-> f, size |-> n]
           kept == LargerTypes(old, n)
           new  == Append(kept, type)
<1>1. t' = t \/ t' = [t EXCEPT !.consMap = Bind(t.consMap, a, new)]
  BY DEF Event, Apply, Rec, Cons
<1>2. old \in Seq(Built) /\ Nested(old)
  BY DEF TypesAt, ConsInv, Nested
<1> HIDE DEF old
<1>3. /\ kept \in Seq(Built) /\ Nested(kept)
      /\ \A i \in 1..Len(kept) : kept[i].size > n
  BY <1>2, LargerNested
<1> HIDE DEF kept
<1>4. new \in Seq(Built) /\ Nested(new)
  <2>1. type \in Built /\ type.size = n
    BY DEF Built
  <2> HIDE DEF type
  <2>2. /\ new \in Seq(Built) /\ Len(kept) \in Nat /\ Len(new) = Len(kept) + 1
        /\ new[Len(kept) + 1] = type
        /\ \A i \in 1..Len(kept) : new[i] = kept[i]
    BY <1>3, <2>1
  <2> HIDE DEF new
  <2>3. ASSUME NEW i \in 1..Len(new), NEW j \in 1..Len(new), i < j PROVE new[i].size > new[j].size
    <3>1. i \in 1..Len(kept) /\ (j \in 1..Len(kept) \/ j = Len(kept) + 1)
      BY <2>2, <2>3
    <3> QED
      BY <1>3, <2>1, <2>2, <2>3, <3>1 DEF Nested
  <2> QED
    BY <2>2, <2>3 DEF Nested
<1> HIDE DEF new
<1>5. CASE t' = t
  BY <1>5 DEF ConsInv
<1>6. CASE t' = [t EXCEPT !.consMap = Bind(t.consMap, a, new)]
  <2>1. t'.consMap = Bind(t.consMap, a, new)
    BY <1>6 DEF IsTables
  <2> QED
    BY <1>4, <2>1 DEF ConsInv, Bind
<1> QED
  BY <1>1, <1>5, <1>6

LEMMA NextCons == CallInv /\ ConsInv /\ [Next]_hmVars => ConsInv'
<1> SUFFICES ASSUME CallInv, ConsInv, [Next]_hmVars PROVE ConsInv'
  OBVIOUS
<1>0. IsTables(t)
  BY DEF CallInv, HmType
<1>1. CASE t'.consMap = t.consMap
  BY <1>1 DEF ConsInv
<1>2. CASE UNCHANGED hmVars
  BY <1>1, <1>2 DEF hmVars
<1>3. CASE Calls
  <2>1. ASSUME NEW action \in {"BEGIN", "END", "LANDING"}, NEW f, Event(Rec(action, f, 0, 0))
        PROVE  t'.consMap = t.consMap
    <3>1. Rec(action, f, 0, 0).action = action
      BY DEF Rec
    <3> QED
      BY <1>0, <2>1, <3>1, ConsAside
  <2>2. t' = t \/ \E action \in {"BEGIN", "END", "LANDING"} : \E f : Event(Rec(action, f, 0, 0))
    BY <1>3 DEF Calls, Enter, Leave, Catch
  <2> QED
    BY <1>1, <2>1, <2>2
<1>4. CASE Objects \/ Probes
  <2>1. ASSUME NEW action \in {"ALLOCA", "REGION", "FREE", "PROBE"}, NEW s, NEW a, NEW n,
               Event(Rec(action, s, a, n))
        PROVE  t'.consMap = t.consMap
    <3>1. Rec(action, s, a, n).action = action
      BY DEF Rec
    <3> QED
      BY <1>0, <2>1, <3>1, ConsAside
  <2>2. t' = t \/ \E action \in {"ALLOCA", "REGION", "FREE", "PROBE"} : \E s, a, n : Event(Rec(action, s, a, n))
    BY <1>4 DEF Objects, Probes, StackObject, OtherObject, FreeObject, ProbeEvent
  <2> QED
    BY <1>1, <2>1, <2>2
<1>5. CASE Arguments
  <2>1. ASSUME NEW action \in {"ARG", "ARGCLEAR"}, NEW s, NEW a, NEW n, Event(Rec(action, s, a, n))
        PROVE  t'.consMap = t.consMap
    <3>1. Rec(action, s, a, n).action = action
      BY DEF Rec
    <3> QED
      BY <1>0, <2>1, <3>1, ConsAside
  <2>2. ASSUME NEW f \in Funcs, NEW a \in OtherAddrs, NEW n \in Sizes \union {0}, ConsEvent(f, a, n)
        PROVE  ConsInv'
    <3>1. n \in Nat
      BY HookMemoryAssumption
    <3> QED
      BY <1>0, <2>2, <3>1, ConsKeepsInv DEF ConsEvent
  <2>3. \/ \E action \in {"ARG", "ARGCLEAR"} : \E s, a, n : Event(Rec(action, s, a, n))
        \/ \E f \in Funcs, a \in OtherAddrs, n \in Sizes \union {0} : ConsEvent(f, a, n)
    BY <1>5 DEF Arguments, CallEvent, ArgEvent
  <2> QED
    BY <1>1, <2>1, <2>2, <2>3
<1> QED
  BY <1>2, <1>3, <1>4, <1>5 DEF Next

(***************************************************************************)
(* However constructors follow one another at an address, of finished and  *)
(* unfinished objects, in unwound and reused frames: the types remembered  *)
(* there are nested, each larger than every later one (CONS in             *)
(* stopAndConsume, which drops what is not larger).                        *)
(***************************************************************************)
THEOREM ConstructionsAreNested == Spec => []ConstructionsNested
<1>1. Init => ConsInv
  BY DEF Init, ConsInv, Tables
<1>2. ConsInv => ConstructionsNested
  BY DEF ConsInv, ConstructionsNested, Nested
<1> QED
  BY <1>1, <1>2, NextCons, CallsHold, PTL DEF Spec
=============================================================================
