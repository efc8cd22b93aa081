--------------------------- MODULE SessionProofs ---------------------------
(***************************************************************************)
(* What holds of a session.  A session is its subjects side by side, so    *)
(* what is proved of CallGraph and of NameIndex in the modules of their    *)
(* own holds of the session's graph and index (SessionHasGraph,            *)
(* SessionHasIndex).                                                       *)
(*                                                                         *)
(* The caches of PointsTo hold what the analysis says, for every module,   *)
(* analysis and sequence of queries. A set or an alias is computed from    *)
(* cached answers by a step whose look-ups come earlier in the same list,  *)
(* so the invariant is about the list: what a step reads is cached or will *)
(* be looked up before the step is reached (Ready), and an exception drops *)
(* the steps together with the look-ups they were waiting for.             *)
(*                                                                         *)
(* The tests count right (CountInv, TestsExact): every edge or check is    *)
(* ahead in the list (Pending), being judged, or counted, and never two of *)
(* these; what a judgement reads is looked up in front of it (Fed), so it  *)
(* is cached, and true by the first invariant, when its turn comes.  The   *)
(* allocation sites (SitesExact) are an order of places, of which those of *)
(* a function are a stretch.                                               *)
(***************************************************************************)
EXTENDS Session, FiniteSetTheorems, TLAPS

\* The image of a finite set.
LEMMA SurjectionFinite ==
  ASSUME NEW A, NEW B, NEW h \in Surjection(A, B), IsFiniteSet(A)
  PROVE  IsFiniteSet(B)
<1>0. h \in [A -> B] /\ \A y \in B : \E x \in A : h[x] = y
  BY DEF Surjection
<1>1. PICK s \in Seq(A) : \A x \in A : \E i \in 1..Len(s) : s[i] = x
  BY DEF IsFiniteSet
<1>2. Len(s) \in Nat /\ \A i \in 1..Len(s) : s[i] \in A
  OBVIOUS
<1> DEFINE t == [i \in 1..Len(s) |-> h[s[i]]]
<1>3. t \in Seq(B) /\ Len(t) = Len(s)
  BY <1>0, <1>2
<1>4. ASSUME NEW y \in B  PROVE \E i \in 1..Len(t) : t[i] = y
  <2>1. PICK x \in A : h[x] = y
    BY <1>0
  <2>2. PICK i \in 1..Len(s) : s[i] = x
    BY <1>1
  <2>3. t[i] = y /\ i \in 1..Len(t)
    BY <1>3, <2>1, <2>2
  <2> QED BY <2>3
<1> QED BY <1>3, <1>4 DEF IsFiniteSet

IsList(s) == s \in Seq({s[k] : k \in 1..Len(s)})

\* What step k of the list s reads is there, or is looked up by an earlier step:
\* w is the wrapper, P and A the keys of the caches, l the sites, q the query.
Ready(s, k, w, P, A, l, q) ==
  /\ s[k].do = "meet" =>
       /\ w.kind = "inclu"
       /\ \A x \in {s[k].a, s[k].b} : x \in P \/ \E j \in 1..k - 1 : s[j].do = "pts" /\ s[j].a = x
  /\ s[k].do = "collect" =>
       /\ w.kind # "inclu" /\ l = ComputedSites
       /\ \A n \in 1..Len(ComputedSites) :
            \/ Key(s[k].a, ComputedSites[n].value) \in A
            \/ \E j \in 1..k - 1 : /\ s[j].do = "alias"
                                   /\ s[j].a = s[k].a /\ s[j].b = ComputedSites[n].value
  /\ s[k].do = "hold" => w.kind = "inclu"
  /\ s[k].do = "line" => q \in PtQueries /\ q.kind = "pts-test" /\ s[k].a \in 1..Len(q.lines)

ListOK(s, w, P, A, l, q) ==
  IsList(s) /\ \A k \in 1..Len(s) : Ready(s, k, w, P, A, l, q)

CacheInv ==
  /\ ListOK(todo, wrapper, DOMAIN ptsCache, DOMAIN aliasCache, sites, asking)
  /\ ~IsInclu => misread = {} /\ held = None
  /\ CachesTrue

-----------------------------------------------------------------------------
(* Lists. *)

LEMMA ListIn == \A S : \A s \in Seq(S) : IsList(s) /\ Len(s) \in Nat
<1>1. ASSUME NEW S, NEW s \in Seq(S) PROVE IsList(s) /\ Len(s) \in Nat
  <2>1. Len(s) \in Nat /\ s = [i \in 1..Len(s) |-> s[i]]
    OBVIOUS
  <2> QED
    BY <2>1 DEF IsList
<1> QED
  BY <1>1

LEMMA ListLen == \A s : IsList(s) => Len(s) \in Nat
BY DEF IsList

LEMMA FunctionList ==
  \A f, n : n \in Nat /\ f = [i \in 1..n |-> f[i]] => IsList(f) /\ Len(f) = n
<1>1. ASSUME NEW f, NEW n \in Nat, f = [i \in 1..n |-> f[i]] PROVE IsList(f) /\ Len(f) = n
  <2> DEFINE S == {f[i] : i \in 1..n}
  <2>1. f \in [1..n -> S]
    BY <1>1
  <2>2. f \in Seq(S)
    BY <2>1
  <2>3. Len(f) = n
    BY <2>1
  <2> QED
    BY <2>2, <2>3, ListIn
<1> QED
  BY <1>1

LEMMA TailList ==
  \A s : IsList(s) /\ s # <<>> =>
    /\ IsList(Tail(s)) /\ Len(Tail(s)) = Len(s) - 1 /\ Len(s) \in Nat \ {0}
    /\ Head(s) = s[1]
    /\ \A k \in 1..Len(s) - 1 : Tail(s)[k] = s[k + 1]
<1>1. ASSUME NEW s, IsList(s), s # <<>>
      PROVE  /\ IsList(Tail(s)) /\ Len(Tail(s)) = Len(s) - 1 /\ Len(s) \in Nat \ {0}
             /\ Head(s) = s[1]
             /\ \A k \in 1..Len(s) - 1 : Tail(s)[k] = s[k + 1]
  <2> DEFINE S == {s[k] : k \in 1..Len(s)}
  <2>1. s \in Seq(S)
    BY <1>1 DEF IsList
  <2> HIDE DEF S
  <2>2. Tail(s) \in Seq(S) /\ Len(Tail(s)) = Len(s) - 1 /\ Len(s) \in Nat \ {0}
    BY <1>1, <2>1
  <2>3. Head(s) = s[1] /\ \A k \in 1..Len(s) - 1 : Tail(s)[k] = s[k + 1]
    BY <1>1, <2>1
  <2> QED
    BY <2>2, <2>3, ListIn
<1> QED
  BY <1>1

LEMMA ConcatList ==
  \A u, v : IsList(u) /\ IsList(v) =>
    /\ IsList(u \o v) /\ Len(u \o v) = Len(u) + Len(v)
    /\ \A k \in 1..Len(u) + Len(v) : (u \o v)[k] = IF k <= Len(u) THEN u[k] ELSE v[k - Len(u)]
<1>1. ASSUME NEW u, NEW v, IsList(u), IsList(v)
      PROVE  /\ IsList(u \o v) /\ Len(u \o v) = Len(u) + Len(v)
             /\ \A k \in 1..Len(u) + Len(v) :
                  (u \o v)[k] = IF k <= Len(u) THEN u[k] ELSE v[k - Len(u)]
  <2> DEFINE S == {u[k] : k \in 1..Len(u)} \union {v[k] : k \in 1..Len(v)}
  <2>1. u \in Seq(S) /\ v \in Seq(S)
    <3>1. u \in Seq({u[k] : k \in 1..Len(u)}) /\ v \in Seq({v[k] : k \in 1..Len(v)})
      BY <1>1 DEF IsList
    <3>2. \A X, Y, x : x \in Seq(X) /\ X \subseteq Y => x \in Seq(Y)
      OBVIOUS
    <3> QED
      BY <3>1, <3>2
  <2> HIDE DEF S
  <2>2. u \o v \in Seq(S) /\ Len(u \o v) = Len(u) + Len(v)
    BY <2>1
  <2>3. \A k \in 1..Len(u) + Len(v) : (u \o v)[k] = IF k <= Len(u) THEN u[k] ELSE v[k - Len(u)]
    BY <2>1
  <2> QED
    BY <2>2, <2>3, ListIn
<1> QED
  BY <1>1

-----------------------------------------------------------------------------
(* Lists that are ready. *)

LEMMA NothingOK == \A w, P, A, l, q : ListOK(<<>>, w, P, A, l, q)
<1>1. <<>> \in Seq({})
  OBVIOUS
<1>2. IsList(<<>>)
  BY <1>1, ListIn
<1>3. 1..Len(<<>>) = {}
  OBVIOUS
<1> QED
  BY <1>2, <1>3 DEF ListOK

\* A list is ready behind any other one.
LEMMA ConcatOK ==
  \A w, P, A, l, q, u, v :
    ListOK(u, w, P, A, l, q) /\ ListOK(v, w, P, A, l, q) => ListOK(u \o v, w, P, A, l, q)
<1>1. ASSUME NEW w, NEW P, NEW A, NEW l, NEW q, NEW u, NEW v,
             ListOK(u, w, P, A, l, q), ListOK(v, w, P, A, l, q)
      PROVE  ListOK(u \o v, w, P, A, l, q)
  <2> DEFINE s == u \o v
  <2>1. IsList(u) /\ IsList(v) /\ Len(u) \in Nat /\ Len(v) \in Nat
    BY <1>1, ListLen DEF ListOK
  <2>2. IsList(s) /\ Len(s) = Len(u) + Len(v)
    BY <2>1, ConcatList
  <2>3. /\ \A k \in 1..Len(u) : s[k] = u[k]
        /\ \A k \in Len(u) + 1..Len(u) + Len(v) : s[k] = v[k - Len(u)]
    BY <2>1, ConcatList
  <2> HIDE DEF s
  <2>4. ASSUME NEW k \in 1..Len(u) PROVE Ready(s, k, w, P, A, l, q)
    <3>1. Ready(u, k, w, P, A, l, q)
      BY <1>1 DEF ListOK
    <3>2. s[k] = u[k] /\ \A j \in 1..k - 1 : s[j] = u[j]
      BY <2>1, <2>3
    <3> QED
      BY <3>1, <3>2 DEF Ready
  <2>5. ASSUME NEW k \in Len(u) + 1..Len(u) + Len(v) PROVE Ready(s, k, w, P, A, l, q)
    <3> DEFINE m == k - Len(u)
    <3>1. m \in 1..Len(v)
      BY <2>1
    <3>2. Ready(v, m, w, P, A, l, q)
      BY <1>1, <3>1 DEF ListOK
    <3>3. s[k] = v[m] /\ \A j \in 1..m - 1 : j + Len(u) \in 1..k - 1 /\ s[j + Len(u)] = v[j]
      <4>1. \A j \in 1..m - 1 : /\ j + Len(u) \in 1..k - 1
                               /\ j + Len(u) \in Len(u) + 1..Len(u) + Len(v)
                               /\ j + Len(u) - Len(u) = j
        BY <2>1, <3>1
      <4>2. ASSUME NEW j \in 1..m - 1 PROVE s[j + Len(u)] = v[j]
        <5>1. s[j + Len(u)] = v[j + Len(u) - Len(u)]
          BY <2>3, <4>1
        <5> QED
          BY <4>1, <5>1
      <4> QED
        BY <2>3, <4>1, <4>2
    <3> HIDE DEF m
    <3>4. \A x : (\E j \in 1..m - 1 : v[j].do = "pts" /\ v[j].a = x)
                 => \E j \in 1..k - 1 : s[j].do = "pts" /\ s[j].a = x
      BY <3>3
    <3>5. \A x, y : (\E j \in 1..m - 1 : v[j].do = "alias" /\ v[j].a = x /\ v[j].b = y)
                    => \E j \in 1..k - 1 : s[j].do = "alias" /\ s[j].a = x /\ s[j].b = y
      BY <3>3
    <3> QED
      BY <3>2, <3>3, <3>4, <3>5 DEF Ready
  <2>6. 1..Len(s) = 1..Len(u) \union Len(u) + 1..Len(u) + Len(v)
    BY <2>1, <2>2
  <2>7. \A k \in 1..Len(s) : Ready(s, k, w, P, A, l, q)
    BY <2>4, <2>5, <2>6
  <2>8. ListOK(s, w, P, A, l, q)
    BY <2>2, <2>7 DEF ListOK
  <2> QED
    BY <2>8 DEF s
<1> QED
  BY <1>1

\* The rest is ready once the answer of a look-up in front is cached.
LEMMA TailOK ==
  \A w, P, P2, A, A2, l, l2, q, s :
    /\ ListOK(s, w, P, A, l, q) /\ s # <<>>
    /\ P \subseteq P2 /\ A \subseteq A2 /\ (l = ComputedSites => l2 = ComputedSites)
    /\ w.kind = "inclu" /\ Head(s).do = "pts" => Head(s).a \in P2
    /\ w.kind # "inclu" /\ Head(s).do = "alias" => Key(Head(s).a, Head(s).b) \in A2
    => ListOK(Tail(s), w, P2, A2, l2, q)
<1>1. ASSUME NEW w, NEW P, NEW P2, NEW A, NEW A2, NEW l, NEW l2, NEW q, NEW s,
             ListOK(s, w, P, A, l, q), s # <<>>,
             P \subseteq P2, A \subseteq A2, l = ComputedSites => l2 = ComputedSites,
             w.kind = "inclu" /\ Head(s).do = "pts" => Head(s).a \in P2,
             w.kind # "inclu" /\ Head(s).do = "alias" => Key(Head(s).a, Head(s).b) \in A2
      PROVE  ListOK(Tail(s), w, P2, A2, l2, q)
  <2> DEFINE t == Tail(s)
  <2>1. IsList(t) /\ Len(t) = Len(s) - 1 /\ Len(s) \in Nat \ {0} /\ Head(s) = s[1]
    BY <1>1, TailList DEF ListOK
  <2>2. \A k \in 1..Len(s) - 1 : t[k] = s[k + 1]
    BY <1>1, TailList DEF ListOK
  <2> HIDE DEF t
  <2>3. ASSUME NEW k \in 1..Len(t) PROVE Ready(t, k, w, P2, A2, l2, q)
    <3>1. k + 1 \in 1..Len(s) /\ k \in 1..Len(s) - 1 /\ k \in Nat
      BY <2>1
    <3>2. Ready(s, k + 1, w, P, A, l, q)
      BY <1>1, <3>1 DEF ListOK
    <3>3. t[k] = s[k + 1]
      BY <2>2, <3>1
    <3>4. \A j \in 1..(k + 1) - 1 : j = 1 \/ (j - 1 \in 1..k - 1 /\ t[j - 1] = s[j])
      <4>1. \A j \in 1..(k + 1) - 1 : j = 1 \/ (/\ j - 1 \in 1..k - 1
                                              /\ j - 1 \in 1..Len(s) - 1 /\ (j - 1) + 1 = j)
        BY <3>1, <2>1
      <4> QED
        BY <4>1, <2>2
    <3>5. t[k].do = "meet" =>
            /\ w.kind = "inclu"
            /\ \A x \in {t[k].a, t[k].b} : x \in P2 \/ \E j \in 1..k - 1 : t[j].do = "pts" /\ t[j].a = x
      <4>1. SUFFICES ASSUME t[k].do = "meet", NEW x \in {t[k].a, t[k].b}
                     PROVE  /\ w.kind = "inclu"
                            /\ x \in P2 \/ \E j \in 1..k - 1 : t[j].do = "pts" /\ t[j].a = x
        BY <3>2, <3>3 DEF Ready
      <4>2. /\ w.kind = "inclu"
            /\ x \in P \/ \E j \in 1..(k + 1) - 1 : s[j].do = "pts" /\ s[j].a = x
        BY <3>2, <3>3, <4>1 DEF Ready
      <4>3. ASSUME NEW j \in 1..(k + 1) - 1, s[j].do = "pts", s[j].a = x
            PROVE  x \in P2 \/ \E i \in 1..k - 1 : t[i].do = "pts" /\ t[i].a = x
        <5>1. CASE j = 1
          BY <5>1, <4>2, <4>3, <2>1, <1>1
        <5>2. CASE j # 1
          <6>1. j - 1 \in 1..k - 1 /\ t[j - 1] = s[j]
            BY <3>4, <5>2
          <6> QED
            BY <6>1, <4>3
        <5> QED
          BY <5>1, <5>2
      <4> QED
        BY <1>1, <4>2, <4>3
    <3>6. t[k].do = "collect" =>
            /\ w.kind # "inclu" /\ l2 = ComputedSites
            /\ \A n \in 1..Len(ComputedSites) :
                 \/ Key(t[k].a, ComputedSites[n].value) \in A2
                 \/ \E j \in 1..k - 1 : /\ t[j].do = "alias"
                                        /\ t[j].a = t[k].a /\ t[j].b = ComputedSites[n].value
      <4>1. SUFFICES ASSUME t[k].do = "collect"
                     PROVE  /\ w.kind # "inclu" /\ l2 = ComputedSites
                            /\ \A n \in 1..Len(ComputedSites) :
                                 \/ Key(t[k].a, ComputedSites[n].value) \in A2
                                 \/ \E j \in 1..k - 1 : /\ t[j].do = "alias"
                                                        /\ t[j].a = t[k].a
                                                        /\ t[j].b = ComputedSites[n].value
        OBVIOUS
      <4>2. w.kind # "inclu" /\ l2 = ComputedSites
        BY <1>1, <3>2, <3>3, <4>1 DEF Ready
      <4>3. ASSUME NEW n \in 1..Len(ComputedSites)
            PROVE  \/ Key(t[k].a, ComputedSites[n].value) \in A2
                   \/ \E j \in 1..k - 1 : /\ t[j].do = "alias"
                                          /\ t[j].a = t[k].a /\ t[j].b = ComputedSites[n].value
        <5> DEFINE v == ComputedSites[n].value
        <5>1. \/ Key(t[k].a, v) \in A
              \/ \E j \in 1..(k + 1) - 1 : s[j].do = "alias" /\ s[j].a = t[k].a /\ s[j].b = v
          BY <3>2, <3>3, <4>1 DEF Ready
        <5> HIDE DEF v
        <5>2. ASSUME NEW j \in 1..(k + 1) - 1, s[j].do = "alias", s[j].a = t[k].a, s[j].b = v
              PROVE  \/ Key(t[k].a, v) \in A2
                     \/ \E i \in 1..k - 1 : t[i].do = "alias" /\ t[i].a = t[k].a /\ t[i].b = v
          <6>1. CASE j = 1
            BY <6>1, <4>2, <5>2, <2>1, <1>1
          <6>2. CASE j # 1
            <7>1. j - 1 \in 1..k - 1 /\ t[j - 1] = s[j]
              BY <3>4, <6>2
            <7> QED
              BY <7>1, <5>2
          <6> QED
            BY <6>1, <6>2
        <5>3. \/ Key(t[k].a, v) \in A2
              \/ \E i \in 1..k - 1 : t[i].do = "alias" /\ t[i].a = t[k].a /\ t[i].b = v
          BY <1>1, <5>1, <5>2
        <5> QED
          BY <5>3 DEF v
      <4> QED
        BY <4>2, <4>3
    <3>7. /\ t[k].do = "hold" => w.kind = "inclu"
          /\ t[k].do = "line" => q \in PtQueries /\ q.kind = "pts-test" /\ t[k].a \in 1..Len(q.lines)
      BY <3>2, <3>3 DEF Ready
    <3> QED
      BY <3>5, <3>6, <3>7 DEF Ready
  <2>4. ListOK(t, w, P2, A2, l2, q)
    BY <2>1, <2>3 DEF ListOK
  <2> QED
    BY <2>4 DEF t
<1> QED
  BY <1>1

-----------------------------------------------------------------------------
(* What the queries put into the list. *)

\* Steps that need nothing of what is cached or listed before them.
Free == {"pts", "alias", "compare", "verdict", "check", "target", "marked", "sites"}

LEMMA FreeOK ==
  \A w, P, A, l, q, s :
    IsList(s) /\ (\A k \in 1..Len(s) : s[k].do \in Free \/ (s[k].do = "hold" /\ w.kind = "inclu"))
    => ListOK(s, w, P, A, l, q)
BY DEF ListOK, Ready, Free

\* The sites are finitely many.
LEMMA PlacesFinite == IsFiniteSet(Places)
<1> DEFINE Gs == {0} \X {i \in 1..Len(Globals) : ~Globals[i].skipped}
           Fs == {m \in 1..Len(Bodies) : Visited(Bodies[m])}
           Of(n) == {n} \X ({0} \union {i \in 1..Len(Bodies[n].code) : Allocates(Bodies[n].code[i])})
<1>1. \A n \in Nat : IsFiniteSet(1..n)
  BY FS_Interval
<1>2. IsFiniteSet(Gs)
  <2>1. IsFiniteSet({i \in 1..Len(Globals) : ~Globals[i].skipped})
    BY <1>1, PointsToAssumption, FS_Subset DEF PointsToAssumption
  <2> QED
    BY <2>1, FS_Singleton, FS_Product
<1>3. \A n \in Fs : IsFiniteSet(Of(n))
  <2>1. ASSUME NEW n \in Fs PROVE IsFiniteSet(Of(n))
    <3> DEFINE C == {i \in 1..Len(Bodies[n].code) : Allocates(Bodies[n].code[i])}
    <3>1. IsFiniteSet(1..Len(Bodies[n].code))
      BY <1>1, PointsToAssumption DEF PointsToAssumption
    <3>2. IsFiniteSet(C)
      <4>1. C \subseteq 1..Len(Bodies[n].code)
        OBVIOUS
      <4> QED
        BY <3>1, <4>1, FS_Subset
    <3> HIDE DEF C
    <3>3. IsFiniteSet({0} \union C)
      BY <3>2, FS_Singleton, FS_Union
    <3>4. IsFiniteSet({n} \X ({0} \union C))
      BY <3>3, FS_Singleton, FS_Product
    <3> QED
      BY <3>4 DEF C
  <2> QED
    BY <2>1
<1>4. IsFiniteSet(UNION {Of(n) : n \in Fs})
  <2>1. IsFiniteSet(Fs)
    BY <1>1, PointsToAssumption, FS_Subset DEF PointsToAssumption
  <2> HIDE DEF Fs, Of
  <2> DEFINE T == {Of(n) : n \in Fs}
  <2>2. IsFiniteSet(T)
    <3> DEFINE g == [n \in Fs |-> Of(n)]
    <3>1. g \in Surjection(Fs, T)
      BY DEF Surjection
    <3> HIDE DEF g, T
    <3> QED
      BY <2>1, <3>1, SurjectionFinite
  <2>3. \A X \in T : IsFiniteSet(X)
    BY <1>3
  <2> HIDE DEF T
  <2>4. IsFiniteSet(UNION T)
    BY <2>2, <2>3, FS_UNION
  <2> QED
    BY <2>4 DEF T
<1>5. Places = Gs \union UNION {Of(n) : n \in Fs}
  BY DEF Places
<1> HIDE DEF Gs, Fs, Of
<1> QED
  BY <1>2, <1>4, <1>5, FS_Union

\* The place with k - 1 others in front.
PlaceOf(k) == CHOOSE x \in Places : Cardinality({y \in Places : Precedes(y, x)}) = k - 1

LEMMA SitesNumbered ==
  /\ Cardinality(Places) \in Nat /\ Len(ComputedSites) = Cardinality(Places)
  /\ ComputedSites = [k \in 1..Len(ComputedSites) |-> ComputedSites[k]]
  /\ \A k \in 1..Len(ComputedSites) : ComputedSites[k] = SiteAt(PlaceOf(k))
<1>1. Cardinality(Places) \in Nat
  BY PlacesFinite, FS_CardinalityType
<1> DEFINE At(k) == SiteAt(PlaceOf(k))
<1>2. ComputedSites = [k \in 1..Cardinality(Places) |-> At(k)]
  BY DEF ComputedSites, PlaceOf
<1> HIDE DEF At
<1>3. ComputedSites = [k \in 1..Cardinality(Places) |-> ComputedSites[k]]
  BY <1>2
<1>4. Len(ComputedSites) = Cardinality(Places)
  BY <1>1, <1>3, FunctionList
<1>5. \A k \in 1..Cardinality(Places) : ComputedSites[k] = At(k)
  BY <1>2
<1> QED
  BY <1>1, <1>3, <1>4, <1>5 DEF At

LEMMA EdgePlanOK ==
  \A w, P, A, l, q, p, t, c : w = wrapper => ListOK(EdgePlan(p, t, c), w, P, A, l, q)
<1>1. ASSUME NEW w, NEW P, NEW A, NEW l, NEW q, NEW p, NEW t, NEW c, w = wrapper
      PROVE  ListOK(EdgePlan(p, t, c), w, P, A, l, q)
  <2> DEFINE S == {x \in {Do("pts", p, None), Do("alias", p, t), Do("pts", t, None),
                          Do("compare", p, t), Do("verdict", p, t), Do("hold", p, None)} :
                     x.do \in Free \/ (x.do = "hold" /\ w.kind = "inclu")}
  <2>1. /\ Do("pts", p, None) \in S /\ Do("alias", p, t) \in S /\ Do("pts", t, None) \in S
        /\ Do("compare", p, t) \in S /\ Do("verdict", p, t) \in S
        /\ IsInclu => Do("hold", p, None) \in S
    BY <1>1 DEF Do, Free, IsInclu
  <2>2. \A x \in S : x.do \in Free \/ (x.do = "hold" /\ w.kind = "inclu")
    OBVIOUS
  <2> HIDE DEF S
  <2>3. EdgePlan(p, t, c) \in Seq(S)
    BY <2>1 DEF EdgePlan
  <2>4. \A k \in 1..Len(EdgePlan(p, t, c)) : EdgePlan(p, t, c)[k] \in S
    BY <2>3
  <2> QED
    BY <2>2, <2>3, <2>4, ListIn, FreeOK
<1> QED
  BY <1>1

LEMMA CheckPlanOK == \A w, P, A, l, q, n : ListOK(CheckPlan(n), w, P, A, l, q)
<1>1. ASSUME NEW w, NEW P, NEW A, NEW l, NEW q, NEW n
      PROVE  ListOK(CheckPlan(n), w, P, A, l, q)
  <2> DEFINE c == Marked[n]
             S == {Do("check", n, None), Do("pts", c.arg, None), Do("alias", c.arg, Rhs(c))}
  <2>1. \A x \in S : x.do \in Free
    BY DEF Do, Free
  <2>2. Do("check", n, None) \in S /\ Do("pts", c.arg, None) \in S /\ Do("alias", c.arg, Rhs(c)) \in S
    OBVIOUS
  <2> HIDE DEF S
  <2>3. CheckPlan(n) \in Seq(S)
    BY <2>2 DEF CheckPlan
  <2>4. \A k \in 1..Len(CheckPlan(n)) : CheckPlan(n)[k] \in S
    BY <2>3
  <2> QED
    BY <2>1, <2>3, <2>4, ListIn, FreeOK
<1> QED
  BY <1>1

LEMMA PlanOK ==
  \A w, P, A, l : \A q \in PtQueries : ListOK(Plan(q), w, P, A, l, q)
<1>1. ASSUME NEW w, NEW P, NEW A, NEW l, NEW q \in PtQueries
      PROVE  ListOK(Plan(q), w, P, A, l, q)
  <2>1. CASE q.kind = "pts-test"
    <3> DEFINE n == Len(q.lines)  s == [i \in 1..n |-> Do("line", i, None)]
    <3>1. n \in Nat
      BY <2>1, PointsToAssumption DEF PointsToAssumption
    <3>2. Plan(q) = s
      BY <2>1 DEF Plan
    <3>3. IsList(s) /\ Len(s) = n
      BY <3>1, FunctionList
    <3>4. \A k \in 1..n : s[k].do = "line" /\ s[k].a = k
      BY DEF Do
    <3> HIDE DEF s
    <3> QED
      BY <2>1, <3>2, <3>3, <3>4 DEF ListOK, Ready
  <2>2. CASE q.kind = "test"
    <3> DEFINE n == Len(Marked)  s == [i \in 1..n |-> Do("marked", i, None)]
    <3>1. n \in Nat
      BY PointsToAssumption DEF PointsToAssumption
    <3>2. Plan(q) = s
      BY <2>2 DEF Plan
    <3>3. IsList(s) /\ Len(s) = n
      BY <3>1, FunctionList
    <3>4. \A k \in 1..n : s[k].do \in Free
      BY DEF Do, Free
    <3> HIDE DEF s
    <3> QED
      BY <3>2, <3>3, <3>4, FreeOK
  <2>3. CASE q.kind \notin {"pts-test", "test"}
    <3> DEFINE S == {Do("pts", q.a, None), Do("alias", q.a, q.b), Do("sites", None, None)}
    <3>1. \A x \in S : x.do \in Free
      BY DEF Do, Free
    <3>2. /\ Do("pts", q.a, None) \in S /\ Do("alias", q.a, q.b) \in S
          /\ Do("sites", None, None) \in S
      OBVIOUS
    <3> HIDE DEF S
    <3>3. q.kind \in {"pts", "pt", "alias", "sites"}
      BY <2>3, PointsToAssumption DEF PointsToAssumption
    <3>4. Plan(q) \in Seq(S)
      BY <3>2, <3>3 DEF Plan
    <3>5. \A k \in 1..Len(Plan(q)) : Plan(q)[k] \in S
      BY <3>4
    <3> QED
      BY <3>1, <3>4, <3>5, ListIn, FreeOK
  <2> QED
    BY <2>1, <2>2, <2>3
<1> QED
  BY <1>1

-----------------------------------------------------------------------------
(* What the analysis says. *)

LEMMA AliasOfPair == IsInclu => \A a, b : AliasOf(Key(a, b)) = Intersection(SetOf(a), SetOf(b))
<1>1. ASSUME IsInclu, NEW a, NEW b PROVE AliasOf(Key(a, b)) = Intersection(SetOf(a), SetOf(b))
  <2> DEFINE pair == {a, b}
             x == CHOOSE v \in pair : TRUE
             y == CHOOSE v \in pair : pair = {x} \/ v # x
  <2>1. AliasOf(Key(a, b)) = Intersection(SetOf(x), SetOf(y))
    BY <1>1 DEF AliasOf, Key
  <2>2. x \in pair
    OBVIOUS
  <2> HIDE DEF x
  <2>3. y \in pair /\ (pair = {x} \/ y # x)
    <3>1. \E v \in pair : pair = {x} \/ v # x
      BY <2>2
    <3> QED
      BY <3>1
  <2> HIDE DEF y
  <2>4. (x = a /\ y = b) \/ (x = b /\ y = a)
    BY <2>2, <2>3
  <2>5. \A S, T : Intersection(S, T) = Intersection(T, S)
    <3>1. \A S, T : {S, T} = {T, S} /\ S \intersect T = T \intersect S
      OBVIOUS
    <3> QED
      BY <3>1 DEF Intersection
  <2> QED
    BY <2>1, <2>4, <2>5
<1> QED
  BY <1>1

LEMMA SameWrapper ==
  ASSUME wrapper' = wrapper
  PROVE  /\ IsInclu' <=> IsInclu
         /\ \A p : SetOf(p)' = SetOf(p)
         /\ \A pair : AliasOf(pair)' = AliasOf(pair)
<1>1. IsInclu' <=> IsInclu
  BY DEF IsInclu
<1>2. \A p : SetOf(p)' = SetOf(p)
  BY DEF SetOf, IsInclu
<1>3. \A pair : AliasOf(pair)' = AliasOf(pair)
  BY <1>1, <1>2 DEF AliasOf
<1> QED
  BY <1>1, <1>2, <1>3

\* Nothing new is cached, and no pair is judged again.
LEMMA SameCaches ==
  ASSUME CachesTrue, wrapper' = wrapper, ptsCache' = ptsCache, aliasCache' = aliasCache,
         misread \subseteq misread'
  PROVE  CachesTrue'
BY SameWrapper DEF CachesTrue

-----------------------------------------------------------------------------
(* The steps. *)

LEMMA InitCacheInv == PtInit => CacheInv
<1>1. ASSUME PtInit PROVE CacheInv
  <2>1. todo = <<>> /\ misread = {} /\ held = None /\ DOMAIN ptsCache = {} /\ DOMAIN aliasCache = {}
    BY <1>1 DEF PtInit
  <2> QED
    BY <2>1, NothingOK DEF CacheInv, CachesTrue
<1> QED
  BY <1>1

\* The list behind a step that needed no look-up, with nothing more cached.
LEMMA RestOK ==
  ASSUME CacheInv, todo # <<>>,
         IsInclu => Now.do # "pts", ~IsInclu => Now.do # "alias"
  PROVE  \A l : (sites = ComputedSites => l = ComputedSites) =>
           ListOK(Tail(todo), wrapper, DOMAIN ptsCache, DOMAIN aliasCache, l, asking)
BY TailOK DEF CacheInv, Now, IsInclu

LEMMA FirstStep == ASSUME CacheInv, todo # <<>> PROVE Now = todo[1] /\ 1 \in 1..Len(todo)
<1>1. IsList(todo)
  BY DEF CacheInv, ListOK
<1>2. Head(todo) = todo[1] /\ Len(todo) \in Nat \ {0}
  BY <1>1, TailList
<1> QED
  BY <1>2 DEF Now

LEMMA AskStep == ASSUME CacheInv, NEW q \in PtQueries, AskPt(q) PROVE CacheInv'
<1>1. UNCHANGED <<wrapper, ptsCache, aliasCache, sites, misread>> /\ asking' = q /\ held' = None
  BY DEF AskPt
<1>2. todo' = <<>> \/ todo' = Plan(q)
  BY DEF AskPt, FailsWith
<1>3. ListOK(todo, wrapper, DOMAIN ptsCache, DOMAIN aliasCache, sites, asking)'
  BY <1>1, <1>2, NothingOK, PlanOK
<1>4. CachesTrue'
  BY <1>1, SameCaches DEF CacheInv
<1>5. (~IsInclu => misread = {} /\ held = None)'
  BY <1>1, SameWrapper DEF CacheInv
<1> QED
  BY <1>3, <1>4, <1>5 DEF CacheInv

\* A step that puts others in front and caches nothing.
LEMMA ExpandStep ==
  ASSUME CacheInv, todo # <<>>, Now.do \notin {"pts", "alias"},
         NEW steps, todo' = steps \o Tail(todo),
         UNCHANGED <<fixed, caches, held>>,
         ListOK(steps, wrapper, DOMAIN ptsCache, DOMAIN aliasCache, sites, asking)
  PROVE  CacheInv'
<1>1. UNCHANGED <<wrapper, asking, ptsCache, aliasCache, sites, misread, held>>
  BY DEF fixed, caches
<1>2. ListOK(Tail(todo), wrapper, DOMAIN ptsCache, DOMAIN aliasCache, sites, asking)
  BY RestOK
<1>3. ListOK(todo, wrapper, DOMAIN ptsCache, DOMAIN aliasCache, sites, asking)'
  BY <1>1, <1>2, ConcatOK
<1>4. CachesTrue'
  BY <1>1, SameCaches DEF CacheInv
<1>5. (~IsInclu => misread = {} /\ held = None)'
  BY <1>1, SameWrapper DEF CacheInv
<1> QED
  BY <1>3, <1>4, <1>5 DEF CacheInv

LEMMA TakeLineStep == ASSUME CacheInv, TakeLine PROVE CacheInv'
<1> DEFINE n == Len(asking.lines[Now.a].targets)
           s == [k \in 1..n |-> Do("target", Now.a, k)]
<1>1. todo # <<>> /\ Now.do = "line" /\ todo' = s \o Tail(todo) /\ UNCHANGED <<fixed, caches, held>>
  BY DEF TakeLine, Doing, Now, Before
<1>2. n \in Nat
  <2>1. Now = todo[1] /\ 1 \in 1..Len(todo)
    BY <1>1, FirstStep
  <2>2. Ready(todo, 1, wrapper, DOMAIN ptsCache, DOMAIN aliasCache, sites, asking)
    BY <2>1 DEF CacheInv, ListOK
  <2>3. asking \in PtQueries /\ asking.kind = "pts-test" /\ Now.a \in 1..Len(asking.lines)
    BY <1>1, <2>1, <2>2 DEF Ready
  <2> QED
    BY <2>3, PointsToAssumption DEF PointsToAssumption
<1>3. IsList(s) /\ Len(s) = n
  BY <1>2, FunctionList
<1>4. \A k \in 1..n : s[k].do \in Free
  BY DEF Do, Free
<1> HIDE DEF s
<1>5. ListOK(s, wrapper, DOMAIN ptsCache, DOMAIN aliasCache, sites, asking)
  BY <1>3, <1>4, FreeOK
<1> QED
  BY <1>1, <1>5, ExpandStep

LEMMA TakeTargetStep == ASSUME CacheInv, TakeTarget PROVE CacheInv'
<1> DEFINE p == asking.lines[Now.a].key
           t == asking.lines[Now.a].targets[Now.b]
           s == IF None \in {p, t} THEN <<>> ELSE EdgePlan(p, t, asking.consistent)
<1>1. todo # <<>> /\ Now.do = "target" /\ todo' = s \o Tail(todo) /\ UNCHANGED <<fixed, caches, held>>
  BY DEF TakeTarget, Doing, Now, Before
<1> HIDE DEF p, t
<1>2. ListOK(s, wrapper, DOMAIN ptsCache, DOMAIN aliasCache, sites, asking)
  BY NothingOK, EdgePlanOK
<1> QED
  BY <1>1, <1>2, ExpandStep

LEMMA TakeCheckStep == ASSUME CacheInv, TakeCheck PROVE CacheInv'
<1>1. /\ todo # <<>> /\ Now.do = "marked" /\ todo' = CheckPlan(Now.a) \o Tail(todo)
      /\ UNCHANGED <<fixed, caches, held>>
  BY DEF TakeCheck, Doing, Now, Before
<1> QED
  BY <1>1, CheckPlanOK, ExpandStep

\* A step of which nothing is looked up and nothing is cached.
LEMMA PlainStep ==
  ASSUME CacheInv, todo # <<>>, Now.do \notin {"pts", "alias"}, todo' \in {Tail(todo), <<>>},
         wrapper' = wrapper, asking' = asking, ptsCache' = ptsCache, aliasCache' = aliasCache,
         sites' = sites \/ sites' = ComputedSites,
         misread \subseteq misread', ~IsInclu => misread' = {} /\ held' = None
  PROVE  CacheInv'
<1>1. ListOK(todo, wrapper, DOMAIN ptsCache, DOMAIN aliasCache, sites, asking)'
  BY RestOK, NothingOK
<1>2. CachesTrue'
  BY SameCaches DEF CacheInv
<1>3. (~IsInclu => misread = {} /\ held = None)'
  BY SameWrapper
<1> QED
  BY <1>1, <1>2, <1>3 DEF CacheInv

LEMMA LookUpPtsStep == ASSUME CacheInv, LookUpPts PROVE CacheInv'
<1> DEFINE p == Now.a
<1>1. /\ todo # <<>> /\ Now.do = "pts"
      /\ UNCHANGED <<wrapper, asking, aliasCache, misread>>
      /\ sites' = IF IsInclu THEN sites ELSE ComputedSites
  BY DEF LookUpPts, Doing, Now, fixed
<1>2. (~IsInclu => misread = {} /\ held = None)'
  BY <1>1, SameWrapper DEF CacheInv, LookUpPts
<1>3. \A P2 : /\ DOMAIN ptsCache \subseteq P2
              /\ IsInclu => p \in P2
              => ListOK(Tail(todo), wrapper, P2, DOMAIN aliasCache, sites', asking)
  BY <1>1, TailOK DEF CacheInv, Now, IsInclu
<1>4. CASE p \in DOMAIN ptsCache
  <2>1. todo' = Tail(todo) /\ ptsCache' = ptsCache
    BY <1>4 DEF LookUpPts, Done
  <2>2. ListOK(todo, wrapper, DOMAIN ptsCache, DOMAIN aliasCache, sites, asking)'
    BY <1>1, <1>3, <1>4, <2>1
  <2>3. CachesTrue'
    BY <1>1, <2>1, SameCaches DEF CacheInv
  <2> QED
    BY <1>2, <2>2, <2>3 DEF CacheInv
<1>5. CASE p \notin DOMAIN ptsCache /\ IsInclu
  <2>1. StorePts(p, wrapper.pts[p])
    BY <1>5 DEF LookUpPts
  <2>2. CASE todo' = <<>> /\ ptsCache' = ptsCache
    <3>1. ListOK(todo, wrapper, DOMAIN ptsCache, DOMAIN aliasCache, sites, asking)'
      BY <2>2, NothingOK
    <3>2. CachesTrue'
      BY <1>1, <2>2, SameCaches DEF CacheInv
    <3> QED
      BY <1>2, <3>1, <3>2 DEF CacheInv
  <2>3. CASE todo' = Tail(todo) /\ ptsCache' = Put(ptsCache, p, wrapper.pts[p])
    <3>1. /\ DOMAIN ptsCache' = DOMAIN ptsCache \union {p}
          /\ ptsCache'[p] = wrapper.pts[p]
          /\ \A z \in DOMAIN ptsCache : z # p => ptsCache'[z] = ptsCache[z]
      BY <2>3 DEF Put
    <3>2. ListOK(todo, wrapper, DOMAIN ptsCache, DOMAIN aliasCache, sites, asking)'
      BY <1>1, <1>3, <2>3, <3>1
    <3>3. wrapper.pts[p] = SetOf(p)
      BY <1>5 DEF SetOf
    <3>4. \A z \in DOMAIN ptsCache' : ptsCache'[z] = SetOf(z)
      BY <3>1, <3>3 DEF CacheInv, CachesTrue
    <3>5. CachesTrue'
      BY <1>1, <3>4, SameWrapper DEF CacheInv, CachesTrue
    <3> QED
      BY <1>2, <3>2, <3>5 DEF CacheInv
  <2> QED
    BY <2>1, <2>2, <2>3 DEF StorePts, FailsWith, Done
<1>6. CASE p \notin DOMAIN ptsCache /\ ~IsInclu
  <2> DEFINE n == Len(ComputedSites)
             aliases == [k \in 1..n |-> Do("alias", p, ComputedSites[k].value)]
             collect == <<Do("collect", p, None)>>
             steps == aliases \o collect
  <2>1. todo' = steps \o Tail(todo) /\ ptsCache' = ptsCache /\ sites' = ComputedSites
    BY <1>1, <1>6 DEF LookUpPts, Before
  <2>2. n \in Nat /\ IsList(aliases) /\ Len(aliases) = n
    BY SitesNumbered, FunctionList
  <2>3. IsList(collect) /\ Len(collect) = 1 /\ collect[1] = Do("collect", p, None)
    <3>1. collect \in Seq({Do("collect", p, None)})
      OBVIOUS
    <3>2. Len(collect) = 1 /\ collect[1] = Do("collect", p, None)
      OBVIOUS
    <3> QED
      BY <3>1, <3>2, ListIn
  <2>4. \A k \in 1..n : aliases[k].do = "alias" /\ aliases[k].a = p /\ aliases[k].b = ComputedSites[k].value
    BY DEF Do
  <2>5. Do("collect", p, None).do = "collect" /\ Do("collect", p, None).a = p
    BY DEF Do
  <2> HIDE DEF aliases, collect
  <2>6. /\ IsList(steps) /\ Len(steps) = n + 1
        /\ \A k \in 1..n + 1 : steps[k] = IF k <= n THEN aliases[k] ELSE collect[k - n]
    <3>1. /\ IsList(steps) /\ Len(steps) = Len(aliases) + Len(collect)
          /\ \A k \in 1..Len(aliases) + Len(collect) :
               steps[k] = IF k <= Len(aliases) THEN aliases[k] ELSE collect[k - Len(aliases)]
      BY <2>2, <2>3, ConcatList
    <3> QED
      BY <2>2, <2>3, <3>1
  <2> HIDE DEF steps
  <2>7. \A k \in 1..n : /\ steps[k].do = "alias"
                        /\ steps[k].a = p /\ steps[k].b = ComputedSites[k].value
    <3>1. \A k \in 1..n : k \in 1..n + 1 /\ k <= n
      BY <2>2
    <3> QED
      BY <2>4, <2>6, <3>1
  <2>8. steps[n + 1].do = "collect" /\ steps[n + 1].a = p
    <3>1. n + 1 \in 1..n + 1 /\ ~(n + 1 <= n) /\ n + 1 - n = 1
      BY <2>2
    <3>2. steps[n + 1] = collect[1]
      BY <2>6, <3>1
    <3> QED
      BY <2>3, <2>5, <3>2
  <2>9. \A k \in 1..n : Ready(steps, k, wrapper, DOMAIN ptsCache, DOMAIN aliasCache, ComputedSites, asking)
    BY <2>7 DEF Ready
  <2>10. Ready(steps, n + 1, wrapper, DOMAIN ptsCache, DOMAIN aliasCache, ComputedSites, asking)
    <3>1. \A k \in 1..n : k \in 1..(n + 1) - 1
      BY <2>2
    <3>2. \A k \in 1..n : \E j \in 1..(n + 1) - 1 :
            /\ steps[j].do = "alias" /\ steps[j].a = steps[n + 1].a /\ steps[j].b = ComputedSites[k].value
      BY <2>7, <2>8, <3>1
    <3> QED
      BY <1>6, <2>8, <3>2 DEF Ready, IsInclu
  <2>11. ListOK(steps, wrapper, DOMAIN ptsCache, DOMAIN aliasCache, ComputedSites, asking)
    <3>1. \A k \in 1..n + 1 : k \in 1..n \/ k = n + 1
      BY <2>2
    <3> QED
      BY <2>6, <2>9, <2>10, <3>1 DEF ListOK
  <2>12. ListOK(Tail(todo), wrapper, DOMAIN ptsCache, DOMAIN aliasCache, ComputedSites, asking)
    BY <1>3, <1>6, <2>1
  <2>13. ListOK(todo, wrapper, DOMAIN ptsCache, DOMAIN aliasCache, sites, asking)'
    BY <1>1, <2>1, <2>11, <2>12, ConcatOK
  <2>14. CachesTrue'
    BY <1>1, <2>1, SameCaches DEF CacheInv
  <2> QED
    BY <1>2, <2>13, <2>14 DEF CacheInv
<1> QED
  BY <1>4, <1>5, <1>6

LEMMA CollectStep == ASSUME CacheInv, Collect PROVE CacheInv'
<1> DEFINE p == Now.a
           says == {sites[n].value : n \in {m \in 1..Len(sites) : aliasCache[{p, sites[m].value}] # "No"}}
<1>1. /\ todo # <<>> /\ Now.do = "collect" /\ todo' = Tail(todo)
      /\ UNCHANGED <<wrapper, asking, aliasCache, sites, misread, held>>
      /\ ptsCache' = Put(ptsCache, p, says)
  BY DEF Collect, Doing, Done, Now, fixed
<1>2. Ready(todo, 1, wrapper, DOMAIN ptsCache, DOMAIN aliasCache, sites, asking) /\ Now = todo[1]
  BY <1>1, FirstStep DEF CacheInv, ListOK
<1>3. /\ ~IsInclu /\ sites = ComputedSites
      /\ \A n \in 1..Len(ComputedSites) : Key(p, ComputedSites[n].value) \in DOMAIN aliasCache
  BY <1>1, <1>2 DEF Ready, IsInclu
<1>4. \A n \in 1..Len(ComputedSites) :
        aliasCache[{p, ComputedSites[n].value}] = wrapper.alias[{p, ComputedSites[n].value}]
  BY <1>3 DEF CacheInv, CachesTrue, AliasOf, Key
<1>5. says = SetOf(p)
  BY <1>3, <1>4 DEF SetOf
<1> HIDE DEF says
<1>6. /\ DOMAIN ptsCache' = DOMAIN ptsCache \union {p}
      /\ ptsCache'[p] = says
      /\ \A z \in DOMAIN ptsCache : z # p => ptsCache'[z] = ptsCache[z]
  BY <1>1 DEF Put
<1>7. \A z \in DOMAIN ptsCache' : ptsCache'[z] = SetOf(z)
  BY <1>5, <1>6 DEF CacheInv, CachesTrue
<1>8. CachesTrue'
  BY <1>1, <1>7, SameWrapper DEF CacheInv, CachesTrue
<1>9. ListOK(todo, wrapper, DOMAIN ptsCache, DOMAIN aliasCache, sites, asking)'
  BY <1>1, <1>3, <1>6, TailOK DEF CacheInv, Now, IsInclu
<1>10. (~IsInclu => misread = {} /\ held = None)'
  BY <1>1, SameWrapper DEF CacheInv
<1> QED
  BY <1>8, <1>9, <1>10 DEF CacheInv

\* The steps of an intersection, in either order of its arguments.
LEMMA MeetPlanOK ==
  \A w, P, A, l, q, a, b, c, d :
    w.kind = "inclu" /\ {a, b} = {c, d} =>
      ListOK(<<Do("pts", a, None), Do("hold", a, None), Do("pts", b, None), Do("meet", c, d)>>,
             w, P, A, l, q)
<1>1. ASSUME NEW w, NEW P, NEW A, NEW l, NEW q, NEW a, NEW b, NEW c, NEW d,
             w.kind = "inclu", {a, b} = {c, d}
      PROVE  ListOK(<<Do("pts", a, None), Do("hold", a, None), Do("pts", b, None), Do("meet", c, d)>>,
                    w, P, A, l, q)
  <2> DEFINE s1 == Do("pts", a, None)  s2 == Do("hold", a, None)
             s3 == Do("pts", b, None)  s4 == Do("meet", c, d)
             s == <<s1, s2, s3, s4>>
  <2>1. s1.do = "pts" /\ s1.a = a /\ s2.do = "hold" /\ s3.do = "pts" /\ s3.a = b
    BY DEF Do
  <2>2. s4.do = "meet" /\ s4.a = c /\ s4.b = d
    BY DEF Do
  <2> HIDE DEF s1, s2, s3, s4
  <2>3. s \in Seq({s1, s2, s3, s4}) /\ Len(s) = 4
    OBVIOUS
  <2>4. s[1] = s1 /\ s[2] = s2 /\ s[3] = s3 /\ s[4] = s4
    OBVIOUS
  <2> HIDE DEF s
  <2>5. Ready(s, 1, w, P, A, l, q) /\ Ready(s, 2, w, P, A, l, q) /\ Ready(s, 3, w, P, A, l, q)
    BY <1>1, <2>1, <2>4 DEF Ready
  <2>6. Ready(s, 4, w, P, A, l, q)
    <3>1. \A x \in {s[4].a, s[4].b} : \E j \in 1..4 - 1 : s[j].do = "pts" /\ s[j].a = x
      <4>1. 1 \in 1..4 - 1 /\ 3 \in 1..4 - 1
        OBVIOUS
      <4>2. \A x \in {s[4].a, s[4].b} : x = a \/ x = b
        BY <1>1, <2>2, <2>4
      <4> QED
        BY <2>1, <2>4, <4>1, <4>2
    <3> QED
      BY <1>1, <2>2, <2>4, <3>1 DEF Ready
  <2>7. \A k \in 1..4 : k = 1 \/ k = 2 \/ k = 3 \/ k = 4
    OBVIOUS
  <2>8. ListOK(s, w, P, A, l, q)
    BY <2>3, <2>5, <2>6, <2>7, ListIn DEF ListOK
  <2> QED
    BY <2>8 DEF s, s1, s2, s3, s4
<1> QED
  BY <1>1

LEMMA LookUpAliasStep == ASSUME CacheInv, LookUpAlias PROVE CacheInv'
<1> DEFINE a == Now.a  b == Now.b  says == wrapper.alias[{a, b}]
<1>1. /\ todo # <<>> /\ Now.do = "alias"
      /\ UNCHANGED <<wrapper, asking, ptsCache, sites, misread, held>>
  BY DEF LookUpAlias, Doing, Now, fixed
<1>2. (~IsInclu => misread = {} /\ held = None)'
  BY <1>1, SameWrapper DEF CacheInv
<1>3. \A A2 : /\ DOMAIN aliasCache \subseteq A2
              /\ ~IsInclu => Key(a, b) \in A2
              => ListOK(Tail(todo), wrapper, DOMAIN ptsCache, A2, sites, asking)
  BY <1>1, TailOK DEF CacheInv, Now, IsInclu
<1>4. CASE Key(a, b) \in DOMAIN aliasCache
  <2>1. todo' = Tail(todo) /\ aliasCache' = aliasCache
    BY <1>4 DEF LookUpAlias, Done
  <2>2. ListOK(todo, wrapper, DOMAIN ptsCache, DOMAIN aliasCache, sites, asking)'
    BY <1>1, <1>3, <1>4, <2>1
  <2>3. CachesTrue'
    BY <1>1, <2>1, SameCaches DEF CacheInv
  <2> QED
    BY <1>2, <2>2, <2>3 DEF CacheInv
<1>5. CASE Key(a, b) \notin DOMAIN aliasCache /\ IsInclu
  <2>1. PICK o \in {<<a, b>>, <<b, a>>} :
          todo' = <<Do("pts", o[1], None), Do("hold", o[1], None),
                    Do("pts", o[2], None), Do("meet", a, b)>> \o Tail(todo)
    BY <1>5 DEF LookUpAlias, Before
  <2>2. {o[1], o[2]} = {a, b}
    OBVIOUS
  <2>3. aliasCache' = aliasCache
    BY <1>5 DEF LookUpAlias
  <2>4. ListOK(<<Do("pts", o[1], None), Do("hold", o[1], None), Do("pts", o[2], None), Do("meet", a, b)>>,
               wrapper, DOMAIN ptsCache, DOMAIN aliasCache, sites, asking)
    BY <1>5, <2>2, MeetPlanOK DEF IsInclu
  <2>5. ListOK(Tail(todo), wrapper, DOMAIN ptsCache, DOMAIN aliasCache, sites, asking)
    BY <1>3, <1>5
  <2>6. ListOK(todo, wrapper, DOMAIN ptsCache, DOMAIN aliasCache, sites, asking)'
    BY <1>1, <2>1, <2>3, <2>4, <2>5, ConcatOK
  <2>7. CachesTrue'
    BY <1>1, <2>3, SameCaches DEF CacheInv
  <2> QED
    BY <1>2, <2>6, <2>7 DEF CacheInv
<1>6. CASE Key(a, b) \notin DOMAIN aliasCache /\ ~IsInclu /\ says = "throws"
  <2>1. todo' = <<>> /\ aliasCache' = aliasCache
    BY <1>6 DEF LookUpAlias, FailsWith
  <2>2. ListOK(todo, wrapper, DOMAIN ptsCache, DOMAIN aliasCache, sites, asking)'
    BY <2>1, NothingOK
  <2>3. CachesTrue'
    BY <1>1, <2>1, SameCaches DEF CacheInv
  <2> QED
    BY <1>2, <2>2, <2>3 DEF CacheInv
<1>7. CASE Key(a, b) \notin DOMAIN aliasCache /\ ~IsInclu /\ says # "throws"
  <2>1. todo' = Tail(todo) /\ aliasCache' = Put(aliasCache, Key(a, b), says)
    BY <1>7 DEF LookUpAlias, Done
  <2>2. /\ DOMAIN aliasCache' = DOMAIN aliasCache \union {Key(a, b)}
        /\ aliasCache'[Key(a, b)] = says
        /\ \A z \in DOMAIN aliasCache : z # Key(a, b) => aliasCache'[z] = aliasCache[z]
    BY <2>1 DEF Put
  <2>3. ListOK(todo, wrapper, DOMAIN ptsCache, DOMAIN aliasCache, sites, asking)'
    BY <1>1, <1>3, <2>1, <2>2
  <2>4. says = AliasOf(Key(a, b))
    BY <1>7 DEF AliasOf, Key
  <2>5. \A pair \in DOMAIN aliasCache' \ misread : aliasCache'[pair] = AliasOf(pair)
    BY <2>2, <2>4 DEF CacheInv, CachesTrue
  <2>6. CachesTrue'
    BY <1>1, <2>5, SameWrapper DEF CacheInv, CachesTrue
  <2> QED
    BY <1>2, <2>3, <2>6 DEF CacheInv
<1> QED
  BY <1>4, <1>5, <1>6, <1>7

\* Only inclusion-based analyses keep a view.
LEMMA HoldStep == ASSUME CacheInv, Hold PROVE CacheInv'
<1>1. /\ todo # <<>> /\ Now.do = "hold" /\ todo' = Tail(todo)
      /\ UNCHANGED <<wrapper, asking, ptsCache, aliasCache, sites, misread>>
  BY DEF Hold, Doing, Done, Now, fixed, caches
<1>2. Ready(todo, 1, wrapper, DOMAIN ptsCache, DOMAIN aliasCache, sites, asking) /\ Now = todo[1]
  BY <1>1, FirstStep DEF CacheInv, ListOK
<1>3. IsInclu
  BY <1>1, <1>2 DEF Ready, IsInclu
<1> QED
  BY <1>1, <1>3, PlainStep

LEMMA MeetStep == ASSUME CacheInv, Meet PROVE CacheInv'
<1> DEFINE a == Now.a  b == Now.b
<1>1. /\ todo # <<>> /\ Now.do = "meet" /\ todo' = Tail(todo)
      /\ UNCHANGED <<wrapper, asking, ptsCache, sites>>
      /\ misread' = IF held = "freed" THEN misread \union {Key(a, b)} ELSE misread
  BY DEF Meet, Misreads, Doing, Done, Now, fixed
<1>2. PICK m \in Meets(a, b) : aliasCache' = Put(aliasCache, Key(a, b), m)
  BY DEF Meet
<1>3. Ready(todo, 1, wrapper, DOMAIN ptsCache, DOMAIN aliasCache, sites, asking) /\ Now = todo[1]
  BY <1>1, FirstStep DEF CacheInv, ListOK
<1>4. IsInclu /\ a \in DOMAIN ptsCache /\ b \in DOMAIN ptsCache
  <2>1. \A j : ~(j \in 1..1 - 1)
    OBVIOUS
  <2> QED
    BY <1>1, <1>3, <2>1 DEF Ready, IsInclu
<1>5. held # "freed" => m = AliasOf(Key(a, b))
  <2>1. ptsCache[a] = SetOf(a) /\ ptsCache[b] = SetOf(b)
    BY <1>4 DEF CacheInv, CachesTrue
  <2>2. held # "freed" => m = Intersection(SetOf(a), SetOf(b))
    BY <2>1 DEF Meets
  <2> QED
    BY <1>4, <2>2, AliasOfPair
<1>6. /\ DOMAIN aliasCache' = DOMAIN aliasCache \union {Key(a, b)}
      /\ aliasCache'[Key(a, b)] = m
      /\ \A z \in DOMAIN aliasCache : z # Key(a, b) => aliasCache'[z] = aliasCache[z]
  BY <1>2 DEF Put
<1>7. misread \subseteq misread' /\ (held = "freed" => Key(a, b) \in misread')
  BY <1>1
<1>8. \A pair \in DOMAIN aliasCache' \ misread' : aliasCache'[pair] = AliasOf(pair)
  BY <1>5, <1>6, <1>7 DEF CacheInv, CachesTrue
<1>9. CachesTrue'
  BY <1>1, <1>8, SameWrapper DEF CacheInv, CachesTrue
<1>10. ListOK(todo, wrapper, DOMAIN ptsCache, DOMAIN aliasCache, sites, asking)'
  BY <1>1, <1>4, <1>6, TailOK DEF CacheInv, Now, IsInclu
<1>11. IsInclu'
  BY <1>1, <1>4, SameWrapper
<1> QED
  BY <1>9, <1>10, <1>11 DEF CacheInv

LEMMA VerdictStep == ASSUME CacheInv, Verdict PROVE CacheInv'
<1>1. /\ todo # <<>> /\ Now.do = "verdict" /\ todo' = Tail(todo)
      /\ UNCHANGED <<wrapper, asking, ptsCache, aliasCache, sites, misread, held>>
  BY DEF Verdict, Doing, Done, Now, fixed, caches
<1> QED
  BY <1>1, PlainStep DEF CacheInv

LEMMA CompareStep == ASSUME CacheInv, Compare PROVE CacheInv'
<1>1. /\ todo # <<>> /\ Now.do = "compare" /\ todo' \in {Tail(todo), <<>>}
      /\ UNCHANGED <<wrapper, asking, ptsCache, aliasCache, sites>>
      /\ misread' = IF held = "freed" THEN misread \union {Key(Now.a, Now.b)} ELSE misread
      /\ held' = None
  BY DEF Compare, Misreads, Doing, Done, FailsWith, Now, fixed
<1>2. ~IsInclu => held # "freed" /\ misread = {}
  BY DEF CacheInv, None
<1>3. misread \subseteq misread' /\ (~IsInclu => misread' = {})
  BY <1>1, <1>2
<1> QED
  BY <1>1, <1>3, PlainStep

LEMMA CheckStep == ASSUME CacheInv, Check PROVE CacheInv'
<1>1. /\ todo # <<>> /\ Now.do = "check" /\ todo' = Tail(todo)
      /\ UNCHANGED <<wrapper, asking, ptsCache, aliasCache, sites, misread, held>>
  BY DEF Check, Doing, Done, Now, fixed, caches
<1> QED
  BY <1>1, PlainStep DEF CacheInv

LEMMA ListSitesStep == ASSUME CacheInv, ListSites PROVE CacheInv'
<1>1. /\ todo # <<>> /\ Now.do = "sites" /\ todo' = Tail(todo) /\ sites' = ComputedSites
      /\ UNCHANGED <<wrapper, asking, ptsCache, aliasCache, misread, held>>
  BY DEF ListSites, Doing, Done, Now, fixed
<1> QED
  BY <1>1, PlainStep DEF CacheInv

LEMMA CacheInvStep == CacheInv /\ [PtNext]_ptVars => CacheInv'
<1> SUFFICES ASSUME CacheInv, [PtNext]_ptVars PROVE CacheInv'
  OBVIOUS
<1>1. CASE \E q \in PtQueries : AskPt(q)
  BY <1>1, AskStep
<1>2. CASE ReplyPt \/ UNCHANGED ptVars
  <2>1. UNCHANGED <<wrapper, asking, ptsCache, aliasCache, sites, misread, held, todo>>
    BY <1>2 DEF ReplyPt, ptVars
  <2>2. CachesTrue'
    BY <2>1, SameCaches DEF CacheInv
  <2>3. ListOK(todo, wrapper, DOMAIN ptsCache, DOMAIN aliasCache, sites, asking)'
    BY <2>1 DEF CacheInv
  <2>4. (~IsInclu => misread = {} /\ held = None)'
    BY <2>1, SameWrapper DEF CacheInv
  <2> QED
    BY <2>2, <2>3, <2>4 DEF CacheInv
<1> QED
  BY <1>1, <1>2, TakeLineStep, TakeTargetStep, TakeCheckStep, LookUpPtsStep, CollectStep,
     LookUpAliasStep, HoldStep, MeetStep, VerdictStep, CompareStep, CheckStep, ListSitesStep
  DEF PtNext

-----------------------------------------------------------------------------
(* The places of the allocation sites, in their order. *)

\* How many members of S are in front of x.
Rank(S, R, x) == Cardinality({y \in S : <<y, x>> \in R})

\* R is a strict linear order of S.
Orders(R, S) ==
  /\ \A x \in S : <<x, x>> \notin R
  /\ \A x, y \in S : x # y => <<x, y>> \in R \/ <<y, x>> \in R
  /\ \A x, y, z \in S : <<x, y>> \in R /\ <<y, z>> \in R => <<x, z>> \in R

\* In a finite set with an order each rank is that of one member.
LEMMA Ranks ==
  ASSUME NEW S, NEW R, IsFiniteSet(S), Orders(R, S)
  PROVE  /\ \A x \in S : Rank(S, R, x) \in 0..Cardinality(S) - 1
         /\ \A x, y \in S : Rank(S, R, x) = Rank(S, R, y) => x = y
<1> DEFINE Pred(x) == {y \in S : <<y, x>> \in R}
           n == Cardinality(S)
<1>1. n \in Nat
  BY FS_CardinalityType
<1>2. \A x \in S : IsFiniteSet(Pred(x)) /\ Cardinality(Pred(x)) \in Nat
  BY FS_Subset, FS_CardinalityType
<1>3. ASSUME NEW x \in S PROVE Cardinality(Pred(x)) \in 0..n - 1
  <2>1. Pred(x) \in SUBSET S /\ Pred(x) # S
    BY DEF Orders
  <2>2. Cardinality(Pred(x)) <= n /\ Cardinality(Pred(x)) # n
    BY <2>1, FS_Subset
  <2> QED
    BY <1>1, <1>2, <2>2
<1>4. ASSUME NEW x \in S, NEW y \in S, <<x, y>> \in R PROVE Cardinality(Pred(x)) # Cardinality(Pred(y))
  <2>1. Pred(x) \in SUBSET Pred(y)
    BY <1>4 DEF Orders
  <2>2. x \in Pred(y) /\ x \notin Pred(x)
    BY <1>4 DEF Orders
  <2> HIDE DEF Pred
  <2> QED
    BY <1>2, <2>1, <2>2, FS_Subset
<1>5. \A x, y \in S : Cardinality(Pred(x)) = Cardinality(Pred(y)) => x = y
  <2> HIDE DEF Pred
  <2> QED
    BY <1>4 DEF Orders
<1>10. \A x : Rank(S, R, x) = Cardinality(Pred(x))
  BY DEF Rank
<1> HIDE DEF Pred
<1> QED
  BY <1>3, <1>5, <1>10

LEMMA RankOnto ==
  ASSUME NEW S, NEW R, IsFiniteSet(S), Orders(R, S), NEW k \in 1..Cardinality(S)
  PROVE  \E x \in S : Rank(S, R, x) = k - 1
<1> SUFFICES ASSUME \A x \in S : Rank(S, R, x) # k - 1 PROVE FALSE
  OBVIOUS
<1> DEFINE n == Cardinality(S)
           A == 0..n - 1
           T == A \ {k - 1}
           rank == [x \in S |-> Rank(S, R, x)]
<1>1. n \in Nat
  BY FS_CardinalityType
<1>2. n - 1 \in Int /\ 0 \in Int /\ (n - 1) - 0 + 1 = n /\ k - 1 \in A /\ ~(0 > n - 1)
  BY <1>1
<1>3. IsFiniteSet(A) /\ Cardinality(A) = n
  BY <1>2, FS_Interval
<1>4. IsFiniteSet(T) /\ Cardinality(T) = n - 1
  <2> HIDE DEF A, n
  <2> QED
    BY <1>2, <1>3, FS_RemoveElement
<1>5. \A x \in S : Rank(S, R, x) \in A
  BY Ranks
<1>6. rank \in [S -> T]
  BY <1>5
<1>7. Cardinality(T) < Cardinality(S)
  BY <1>1, <1>4
<1>8. \E x, y \in S : x # y /\ rank[x] = rank[y]
  <2> HIDE DEF rank, T
  <2> QED
    BY <1>4, <1>6, <1>7, FS_PigeonHole
<1> QED
  BY <1>8, Ranks

\* The places of a set of numbers: the c-th is the one with c up to it.
LEMMA Nth ==
  ASSUME NEW S, IsFiniteSet(S), S \subseteq Nat
  PROVE  /\ \A i \in S : /\ Cardinality({j \in S : j <= i}) \in 1..Cardinality(S)
                         /\ Cardinality({j \in S : j <= i}) = Cardinality({j \in S : j < i}) + 1
         /\ \A c \in 1..Cardinality(S) : \E i \in S : Cardinality({j \in S : j <= i}) = c
<1> DEFINE R == {p \in S \X S : p[1] < p[2]}
<1>1. Orders(R, S)
  BY DEF Orders
<1>4. \A x \in S : Rank(S, R, x) = Cardinality({y \in S : y < x})
  <2>1. \A x \in S : {y \in S : <<y, x>> \in R} = {y \in S : y < x}
    OBVIOUS
  <2> QED
    BY <2>1 DEF Rank
<1> HIDE DEF R
<1>5. \A x \in S : Rank(S, R, x) \in 0..Cardinality(S) - 1
  BY <1>1, RankOnto, Ranks
<1>6. Cardinality(S) \in Nat
  BY FS_CardinalityType
<1>7. ASSUME NEW i \in S
      PROVE  /\ Cardinality({j \in S : j <= i}) \in 1..Cardinality(S)
             /\ Cardinality({j \in S : j <= i}) = Cardinality({j \in S : j < i}) + 1
  <2> DEFINE A == {j \in S : j < i}  B == {j \in S : j <= i}
  <2>0. i \in Nat /\ ~(i < i) /\ \A j \in S : j <= i <=> (j < i \/ j = i)
    OBVIOUS
  <2>1. B = A \union {i} /\ i \notin A /\ A \in SUBSET S
    BY <2>0
  <2>2. IsFiniteSet(A)
    BY <2>1, FS_Subset
  <2>3. Cardinality(A) \in 0..Cardinality(S) - 1
    BY <1>4, <1>5
  <2> HIDE DEF A, B
  <2>4. Cardinality(B) = Cardinality(A) + 1
    BY <2>1, <2>2, FS_AddElement
  <2>5. Cardinality(B) \in 1..Cardinality(S)
    BY <2>3, <2>4, <1>6
  <2> QED
    BY <2>4, <2>5 DEF A, B
<1>8. ASSUME NEW c \in 1..Cardinality(S) PROVE \E i \in S : Cardinality({j \in S : j <= i}) = c
  <2>1. PICK i \in S : Rank(S, R, i) = c - 1
    BY <1>1, RankOnto
  <2>2. Cardinality({j \in S : j < i}) = c - 1
    BY <1>4, <2>1
  <2>3. Cardinality({j \in S : j <= i}) = (c - 1) + 1
    BY <1>7, <2>2
  <2>4. (c - 1) + 1 = c
    BY <1>6
  <2> QED
    BY <2>3, <2>4
<1> QED
  BY <1>7, <1>8

-----------------------------------------------------------------------------
(* The allocation sites. *)

\* A list of which the entries of f are those of a block.
LEMMA SitesInBlock ==
  ASSUME NEW S, NEW list \in Seq(S), NEW f, NEW base \in Nat, NEW b \in Nat, base + b <= Len(list),
         \A k \in 1..Len(list) : list[k].fn = f <=> k \in base + 1..base + b
  PROVE  /\ Len(SitesIn(list, f)) = b
         /\ \A c \in 1..b : SitesIn(list, f)[c] = list[base + c]
<1> DEFINE mine  == {i \in 1..Len(list) : list[i].fn = f}
           start == CHOOSE i \in mine : \A j \in mine : i <= j
           past  == {i \in start + 1..Len(list) + 1 : i \notin mine}
           end   == CHOOSE i \in past : \A j \in past : i <= j
<1>1. Len(list) \in Nat
  OBVIOUS
<1>2. mine = base + 1..base + b
  BY <1>1
<1>3. SitesIn(list, f) = IF mine = {} THEN <<>> ELSE SubSeq(list, start, end - 1)
  BY DEF SitesIn
<1> HIDE DEF mine
<1>4. CASE b = 0
  <2>1. mine = {}
    BY <1>2, <1>4
  <2>2. SitesIn(list, f) = <<>> /\ 1..b = {}
    BY <1>3, <1>4, <2>1
  <2> QED
    BY <1>4, <2>2
<1>5. CASE b # 0
  <2>1. base + 1 \in mine /\ \A j \in mine : base + 1 <= j
    BY <1>2, <1>5
  <2>2. start \in mine /\ \A j \in mine : start <= j
    <3>1. \E i \in mine : \A j \in mine : i <= j
      BY <2>1
    <3> QED
      BY <3>1
  <2> HIDE DEF start
  <2>3. start = base + 1
    BY <1>2, <2>1, <2>2
  <2>4. base + b + 1 \in past /\ \A j \in past : base + b + 1 <= j
    BY <1>1, <1>2, <1>5, <2>3
  <2>5. end \in past /\ \A j \in past : end <= j
    <3> HIDE DEF past
    <3>1. \E i \in past : \A j \in past : i <= j
      BY <2>4
    <3> QED
      BY <3>1
  <2>6. past \subseteq Int
    BY <1>1, <2>3
  <2> HIDE DEF past, end
  <2>7. end \in Int /\ end <= base + b + 1 /\ base + b + 1 <= end
    BY <2>4, <2>5, <2>6
  <2>8. end - 1 = base + b
    BY <2>7
  <2>9. SitesIn(list, f) = SubSeq(list, base + 1, base + b)
    BY <1>3, <2>1, <2>3, <2>8
  <2>10. Len(SubSeq(list, base + 1, base + b)) = b
    BY <1>1, <1>5
  <2>11. \A c \in 1..b : SubSeq(list, base + 1, base + b)[c] = list[base + c]
    <3> SUFFICES ASSUME NEW c \in 1..b PROVE SubSeq(list, base + 1, base + b)[c] = list[base + c]
      OBVIOUS
    <3>1. c \in 1..(base + b) - (base + 1) + 1 /\ base + 1 + c - 1 = base + c
      BY <1>5
    <3> QED
      BY <1>1, <3>1
  <2> QED
    BY <2>9, <2>10, <2>11
<1> QED
  BY <1>4, <1>5

\* The order of the places.
Order == {p \in Places \X Places : Precedes(p[1], p[2])}

LEMMA PlacePairs ==
  \A x : x \in Places <=>
    \/ \E i \in 1..Len(Globals) : x = <<0, i>> /\ ~Globals[i].skipped
    \/ \E n \in 1..Len(Bodies) : /\ Visited(Bodies[n])
                                 /\ \/ x = <<n, 0>>
                                    \/ \E i \in 1..Len(Bodies[n].code) : x = <<n, i>> /\ Allocates(Bodies[n].code[i])
BY DEF Places

LEMMA PlaceNumbers == \A x \in Places : x[1] \in Nat /\ x[2] \in Nat /\ x = <<x[1], x[2]>>
BY PlacePairs, PointsToAssumption DEF PointsToAssumption

LEMMA PlacesOrdered ==
  /\ Orders(Order, Places)
  /\ \A x \in Places : Rank(Places, Order, x) = Cardinality({y \in Places : Precedes(y, x)})
<1>1. \A x, y : <<x, y>> \in Order <=> x \in Places /\ y \in Places /\ Precedes(x, y)
  BY DEF Order
<1>2. \A x \in Places : ~Precedes(x, x)
  BY PlaceNumbers DEF Precedes
<1>3. \A x, y \in Places : x # y => Precedes(x, y) \/ Precedes(y, x)
  <2> SUFFICES ASSUME NEW x \in Places, NEW y \in Places, ~Precedes(x, y), ~Precedes(y, x) PROVE x = y
    OBVIOUS
  <2>1. x[1] \in Nat /\ x[2] \in Nat /\ y[1] \in Nat /\ y[2] \in Nat
    BY PlaceNumbers
  <2>2. x[1] = y[1] /\ x[2] = y[2]
    BY <2>1 DEF Precedes
  <2>3. x = <<x[1], x[2]>> /\ y = <<y[1], y[2]>>
    BY PlaceNumbers
  <2> QED
    BY <2>2, <2>3
<1>4. \A x, y, z \in Places : Precedes(x, y) /\ Precedes(y, z) => Precedes(x, z)
  <2> SUFFICES ASSUME NEW x \in Places, NEW y \in Places, NEW z \in Places, Precedes(x, y), Precedes(y, z)
               PROVE  Precedes(x, z)
    OBVIOUS
  <2>1. x[1] \in Nat /\ x[2] \in Nat /\ y[1] \in Nat /\ y[2] \in Nat /\ z[1] \in Nat /\ z[2] \in Nat
    BY PlaceNumbers
  <2> QED
    BY <2>1 DEF Precedes
<1>5. \A x \in Places : {y \in Places : <<y, x>> \in Order} = {y \in Places : Precedes(y, x)}
  BY <1>1
<1> QED
  BY <1>1, <1>2, <1>3, <1>4, <1>5 DEF Orders, Rank

\* The number of places in front, for each place.
Front(x) == Cardinality({y \in Places : Precedes(y, x)})

\* Each place is at the number that follows those in front of it, and nothing else is.
LEMMA SitePlaced ==
  /\ \A x \in Places : /\ Front(x) \in Nat /\ Front(x) + 1 \in 1..Len(ComputedSites)
                       /\ ComputedSites[Front(x) + 1] = SiteAt(x)
  /\ \A k \in 1..Len(ComputedSites) : \E x \in Places : k = Front(x) + 1
<1>1. \A x \in Places : Rank(Places, Order, x) = Front(x)
  BY PlacesOrdered DEF Front
<1>2. /\ \A x \in Places : Front(x) \in 0..Cardinality(Places) - 1
      /\ \A x, y \in Places : Front(x) = Front(y) => x = y
  BY <1>1, PlacesFinite, PlacesOrdered, Ranks
<1>3. ASSUME NEW k \in 1..Cardinality(Places) PROVE \E x \in Places : Front(x) = k - 1
  <2>1. \E x \in Places : Rank(Places, Order, x) = k - 1
    BY PlacesFinite, PlacesOrdered, RankOnto
  <2> QED
    BY <1>1, <2>1
<1>4. ASSUME NEW k \in 1..Cardinality(Places) PROVE \E x \in Places : k = Front(x) + 1
  <2>1. PICK x \in Places : Front(x) = k - 1
    BY <1>3
  <2> QED
    BY <2>1, SitesNumbered
<1>5. ASSUME NEW x \in Places
      PROVE  /\ Front(x) \in Nat /\ Front(x) + 1 \in 1..Len(ComputedSites)
             /\ ComputedSites[Front(x) + 1] = SiteAt(x)
  <2> DEFINE k == Front(x) + 1
  <2>1. Front(x) \in Nat /\ k \in 1..Cardinality(Places) /\ k - 1 = Front(x)
    BY <1>2, SitesNumbered
  <2>2. PlaceOf(k) = CHOOSE y \in Places : Front(y) = k - 1
    BY DEF PlaceOf, Front
  <2> HIDE DEF k
  <2>3. PlaceOf(k) \in Places /\ Front(PlaceOf(k)) = k - 1
    BY <2>1, <2>2
  <2>4. PlaceOf(k) = x
    BY <1>2, <2>1, <2>3
  <2>5. ComputedSites[k] = SiteAt(x)
    BY <2>1, <2>4, SitesNumbered
  <2> QED
    BY <2>1, <2>5, SitesNumbered DEF k
<1> QED
  BY <1>4, <1>5, SitesNumbered

-----------------------------------------------------------------------------
(* SitesExact: the sites of a function. *)

\* What getAllocationSites finds of a function.
Allocating(n) == {i \in 1..Len(Bodies[n].code) : Visited(Bodies[n]) /\ Allocates(Bodies[n].code[i])}
UpTo(n, i)    == Cardinality({j \in Allocating(n) : j <= i})

LEMMA BodyNumber == \A n \in 1..Len(Bodies) : n \in Nat /\ n # 0
BY PointsToAssumption DEF PointsToAssumption

LEMMA AllocatingFinite ==
  ASSUME NEW n \in 1..Len(Bodies)
  PROVE  /\ IsFiniteSet(Allocating(n))
         /\ \A i \in Allocating(n) : i \in Nat /\ i # 0
         /\ Cardinality(Allocating(n)) \in Nat
         /\ \A i : <<n, i>> \in Places /\ i # 0 <=> i \in Allocating(n)
         /\ Allocating(n) # {} => <<n, 0>> \in Places
<1>1. Len(Bodies[n].code) \in Nat
  BY PointsToAssumption DEF PointsToAssumption
<1>2. IsFiniteSet(1..Len(Bodies[n].code)) /\ Allocating(n) \in SUBSET (1..Len(Bodies[n].code))
  <2>1. \A k \in Nat : IsFiniteSet(1..k)
    BY FS_Interval
  <2> QED
    BY <1>1, <2>1 DEF Allocating
<1>3. IsFiniteSet(Allocating(n))
  BY <1>2, FS_Subset
<1>4. n # 0 /\ n \in Nat
  BY BodyNumber
<1>5. \A i : <<n, i>> \in Places <=>
          Visited(Bodies[n]) /\ (i = 0 \/ \E j \in 1..Len(Bodies[n].code) : i = j /\ Allocates(Bodies[n].code[j]))
  BY <1>4, PlacePairs
<1>6. \A i \in 1..Len(Bodies[n].code) : i \in Nat /\ i # 0
  BY <1>1
<1>9. \A i \in Allocating(n) : i \in Nat /\ i # 0
  BY <1>6 DEF Allocating
<1>7. \A i : <<n, i>> \in Places /\ i # 0 <=> i \in Allocating(n)
  BY <1>5, <1>6 DEF Allocating
<1>8. Allocating(n) # {} => <<n, 0>> \in Places
  BY <1>5 DEF Allocating
<1> QED
  BY <1>3, <1>7, <1>8, <1>9, FS_CardinalityType

\* Places of globals, of the functions before, and of the function itself.
Ahead(n) == {y \in Places : y[1] < n \/ (y[1] = n /\ y[2] = 0)}

\* Two sets of which the one numbers the other have the same number of members.
LEMMA SameNumber ==
  ASSUME NEW S, NEW T, IsFiniteSet(S), NEW g \in [S -> T],
         \A y \in T : \E x \in S : g[x] = y, \A x, y \in S : g[x] = g[y] => x = y
  PROVE  IsFiniteSet(T) /\ Cardinality(T) = Cardinality(S)
<1>1. IsFiniteSet(T)
  <2>1. g \in Surjection(S, T)
    BY DEF Surjection
  <2> QED
    BY <2>1, SurjectionFinite
<1>2. Cardinality(S) \in Nat /\ Cardinality(T) \in Nat
  BY <1>1, FS_CardinalityType
<1>3. ~(Cardinality(T) < Cardinality(S))
  BY <1>1, FS_PigeonHole
<1>4. ASSUME Cardinality(S) < Cardinality(T) PROVE FALSE
  <2> DEFINE h == [y \in T |-> CHOOSE x \in S : g[x] = y]
  <2>1. \A y \in T : h[y] \in S /\ g[h[y]] = y
    OBVIOUS
  <2>2. h \in [T -> S]
    BY <2>1
  <2> HIDE DEF h
  <2>3. \E x, y \in T : x # y /\ h[x] = h[y]
    BY <1>1, <1>4, <2>2, FS_PigeonHole
  <2> QED
    BY <2>1, <2>3
<1> QED
  BY <1>1, <1>2, <1>3, <1>4

LEMMA FrontOf ==
  ASSUME NEW n \in 1..Len(Bodies), NEW i \in Allocating(n)
  PROVE  Front(<<n, i>>) + 1 = Cardinality(Ahead(n)) + UpTo(n, i)
<1> DEFINE mine  == {<<n, j>> : j \in {k \in Allocating(n) : k < i}}
           front == {y \in Places : Precedes(y, <<n, i>>)}
           less  == {k \in Allocating(n) : k < i}
<1>1. n \in Nat /\ i \in Nat \ {0} /\ \A j \in Allocating(n) : j \in Nat \ {0} /\ <<n, j>> \in Places
  BY AllocatingFinite, BodyNumber
<1>2. front = Ahead(n) \union mine
  <2>1. ASSUME NEW y \in front PROVE y \in Ahead(n) \union mine
    <3>1. y \in Places /\ y[1] \in Nat /\ y[2] \in Nat /\ y = <<y[1], y[2]>>
      BY PlaceNumbers
    <3>2. y[1] < n \/ (y[1] = n /\ y[2] < i)
      BY <2>1 DEF Precedes
    <3>3. CASE y[1] = n /\ y[2] # 0
      <4>1. <<n, y[2]>> \in Places /\ y = <<n, y[2]>>
        BY <3>1, <3>3
      <4>2. y[2] \in Allocating(n)
        BY <3>3, <4>1, AllocatingFinite
      <4>3. y[2] < i
        BY <1>1, <3>1, <3>2, <3>3
      <4> QED
        BY <4>1, <4>2, <4>3
    <3> QED
      BY <3>1, <3>2, <3>3 DEF Ahead
  <2>2. \A y \in Ahead(n) : y \in front
    BY <1>1, PlaceNumbers DEF Ahead, Precedes
  <2>3. \A y \in mine : y \in front
    BY <1>1 DEF Precedes
  <2> QED
    BY <2>1, <2>2, <2>3
<1>3. Ahead(n) \intersect mine = {}
  BY <1>1 DEF Ahead
<1>4. IsFiniteSet(Ahead(n)) /\ Cardinality(Ahead(n)) \in Nat
  BY PlacesFinite, FS_Subset, FS_CardinalityType DEF Ahead
<1>5. IsFiniteSet(less) /\ Cardinality(less) \in Nat
  BY AllocatingFinite, FS_Subset, FS_CardinalityType
<1>6. IsFiniteSet(mine) /\ Cardinality(mine) = Cardinality(less)
  <2> DEFINE g == [j \in less |-> <<n, j>>]
  <2> HIDE DEF less
  <2>1. g \in [less -> mine] /\ (\A y \in mine : \E j \in less : g[j] = y) /\ \A j, k \in less : g[j] = g[k] => j = k
    BY DEF less
  <2> QED
    BY <1>5, <2>1, SameNumber
<1>7. Cardinality(front) = Cardinality(Ahead(n)) + Cardinality(less)
  <2> HIDE DEF front, mine, less
  <2>1. Cardinality(Ahead(n) \union mine) = Cardinality(Ahead(n)) + Cardinality(mine) - Cardinality(Ahead(n) \intersect mine)
    BY <1>4, <1>6, FS_Union
  <2>2. Cardinality(Ahead(n) \intersect mine) = 0
    BY <1>3, FS_EmptySet
  <2>3. Cardinality(front) = Cardinality(Ahead(n) \union mine)
    BY <1>2
  <2> QED
    BY <1>4, <1>5, <1>6, <2>1, <2>2, <2>3
<1>8. UpTo(n, i) = Cardinality(less) + 1
  <2>1. Allocating(n) \in SUBSET Nat /\ IsFiniteSet(Allocating(n))
    BY AllocatingFinite
  <2> QED
    BY <2>1, Nth DEF UpTo
<1>9. Front(<<n, i>>) = Cardinality(front)
  BY DEF Front
<1> HIDE DEF front, less
<1> QED
  BY <1>4, <1>5, <1>7, <1>8, <1>9

\* The entries of a function in the list of all sites are a block of it.
LEMMA SitesOf ==
  ASSUME NEW n \in 1..Len(Bodies)
  PROVE  LET listed == SitesIn(ComputedSites, Bodies[n].name) IN
         /\ Len(listed) = Cardinality(Allocating(n))
         /\ \A i \in Allocating(n) : listed[UpTo(n, i)] = SiteAt(<<n, i>>)
<1> DEFINE base == Cardinality(Ahead(n))
           b    == Cardinality(Allocating(n))
           f    == Bodies[n].name
           N    == Len(ComputedSites)
<1>1. n \in Nat /\ n # 0 /\ IsFiniteSet(Allocating(n)) /\ Allocating(n) \subseteq Nat /\ b \in Nat
  BY AllocatingFinite, BodyNumber
<1>2. base \in Nat /\ base <= N /\ N \in Nat
  BY PlacesFinite, SitesNumbered, FS_Subset, FS_CardinalityType DEF Ahead
<1>3. /\ \A i \in Allocating(n) : UpTo(n, i) \in 1..b
      /\ \A c \in 1..b : \E i \in Allocating(n) : UpTo(n, i) = c
  BY <1>1, Nth DEF UpTo
<1>4. \A i \in Allocating(n) : <<n, i>> \in Places /\ i # 0
  BY AllocatingFinite
<1>5. \A i \in Allocating(n) : /\ base + UpTo(n, i) \in 1..N
                               /\ ComputedSites[base + UpTo(n, i)] = SiteAt(<<n, i>>)
  <2> SUFFICES ASSUME NEW i \in Allocating(n)
               PROVE  /\ base + UpTo(n, i) \in 1..N
                      /\ ComputedSites[base + UpTo(n, i)] = SiteAt(<<n, i>>)
    OBVIOUS
  <2>1. Front(<<n, i>>) + 1 = base + UpTo(n, i)
    BY FrontOf
  <2> QED
    BY <1>4, <2>1, SitePlaced
<1>6. \A x \in Places : SiteAt(x).fn = f <=> x[1] = n /\ x[2] # 0
  <2> SUFFICES ASSUME NEW x \in Places PROVE SiteAt(x).fn = f <=> x[1] = n /\ x[2] # 0
    OBVIOUS
  <2>1. f # None /\ \A m \in 1..Len(Bodies) : Bodies[m].name = f => m = n
    BY FunctionsAssumption DEF FunctionsAssumption
  <2>2. CASE x[1] = 0
    BY <1>1, <2>1, <2>2 DEF SiteAt, Site
  <2>3. CASE x[1] # 0 /\ x[2] = 0
    BY <2>1, <2>3 DEF SiteAt, Site
  <2>4. CASE x[1] # 0 /\ x[2] # 0
    <3>1. x[1] \in 1..Len(Bodies)
      BY <2>4, PlacePairs
    <3>2. SiteAt(x).fn = Bodies[x[1]].name
      BY <2>4 DEF SiteAt, Site
    <3> QED
      BY <2>1, <2>4, <3>1, <3>2
  <2> QED
    BY <2>2, <2>3, <2>4
<1>7. base + b <= N
  <2>1. CASE b = 0
    BY <1>2, <2>1
  <2>2. CASE b # 0
    <3>1. PICK i \in Allocating(n) : UpTo(n, i) = b
      BY <1>1, <1>3, <2>2
    <3>2. base + b \in 1..N
      BY <1>5, <3>1
    <3> QED
      BY <1>2, <3>2
  <2> QED
    BY <2>1, <2>2
<1>8. ASSUME NEW k \in 1..N PROVE ComputedSites[k].fn = f <=> k \in base + 1..base + b
  <2>1. ASSUME ComputedSites[k].fn = f PROVE k \in base + 1..base + b
    <3>1. PICK x \in Places : k = Front(x) + 1
      BY SitePlaced
    <3>2. x[1] = n /\ x[2] # 0 /\ x = <<n, x[2]>>
      BY <1>6, <2>1, <3>1, SitePlaced, PlaceNumbers
    <3>3. x[2] \in Allocating(n)
      BY <3>2, AllocatingFinite
    <3>4. k = base + UpTo(n, x[2])
      BY <3>1, <3>2, <3>3, FrontOf
    <3> QED
      BY <1>1, <1>2, <1>3, <3>3, <3>4
  <2>2. ASSUME k \in base + 1..base + b PROVE ComputedSites[k].fn = f
    <3>1. k - base \in 1..b /\ base + (k - base) = k
      BY <1>1, <1>2, <2>2
    <3>2. PICK i \in Allocating(n) : UpTo(n, i) = k - base
      BY <1>3, <3>1
    <3>3. ComputedSites[k] = SiteAt(<<n, i>>)
      BY <1>5, <3>1, <3>2
    <3>4. <<n, i>>[1] = n /\ <<n, i>>[2] # 0 /\ <<n, i>> \in Places
      BY <1>4
    <3> QED
      BY <1>6, <3>3, <3>4
  <2> QED
    BY <2>1, <2>2
<1>9. PICK S : ComputedSites \in Seq(S)
  <2> DEFINE S == {ComputedSites[k] : k \in 1..N}
  <2>1. ComputedSites \in Seq(S)
    BY SitesNumbered, FunctionList DEF IsList
  <2> QED
    BY <2>1
<1> HIDE DEF base, b, f
<1>10. /\ Len(SitesIn(ComputedSites, f)) = b
       /\ \A c \in 1..b : SitesIn(ComputedSites, f)[c] = ComputedSites[base + c]
  <2>1. \A k \in 1..Len(ComputedSites) : ComputedSites[k].fn = f <=> k \in base + 1..base + b
    BY <1>8
  <2>2. base \in Nat /\ b \in Nat /\ base + b <= Len(ComputedSites)
    BY <1>1, <1>2, <1>7
  <2>3. ASSUME NEW c \in 1..b PROVE SitesIn(ComputedSites, f)[c] = ComputedSites[base + c]
    BY <1>9, <2>1, <2>2, SitesInBlock
  <2> QED
    BY <1>9, <2>1, <2>2, <2>3, SitesInBlock
<1>11. \A i \in Allocating(n) : SitesIn(ComputedSites, f)[UpTo(n, i)] = SiteAt(<<n, i>>)
  BY <1>3, <1>5, <1>10
<1> QED
  BY <1>10, <1>11 DEF b, f

LEMMA ComputedExact == sites \in {<<>>, ComputedSites} => SitesExact
<1> SUFFICES ASSUME sites = ComputedSites, NEW n \in 1..Len(Bodies)
             PROVE  LET f      == Bodies[n]
                        mine   == {i \in 1..Len(f.code) : Visited(f) /\ Allocates(f.code[i])}
                        listed == SitesIn(sites, f.name)
                    IN  /\ Len(listed) = Cardinality(mine)
                        /\ \A i \in mine : listed[Cardinality({j \in mine : j <= i})] =
                             Site(IF f.code[i].op = "alloca" THEN "STACK" ELSE "HEAP", f.code[i].name, f.name)
  BY DEF SitesExact
<1>1. n # 0 /\ \A i \in Allocating(n) : i # 0
  BY AllocatingFinite, BodyNumber
<1>2. \A i \in Allocating(n) :
        SiteAt(<<n, i>>) = Site(IF Bodies[n].code[i].op = "alloca" THEN "STACK" ELSE "HEAP",
                                Bodies[n].code[i].name, Bodies[n].name)
  BY <1>1 DEF SiteAt
<1> QED
  BY <1>2, SitesOf DEF Allocating, UpTo

-----------------------------------------------------------------------------
(* What the tests count. *)

Judges   == {"verdict", "compare", "check"}
Items    == {"line", "target", "marked"}
Verdicts == {"Pass", "Fail", "PassButExpectedFail", "FailAndExpectedFail"}
Tallies  == [Verdicts \union {"Error"} -> Nat]

\* What a query has to judge, the step that does it, and what it then counts.
Tests(q) ==
  IF q.kind = "test" THEN {n \in 1..Len(Marked) : IsCheck(Marked[n])} ELSE Resolved(q.lines)
JudgeOf(q, x) ==
  IF q.kind = "test" THEN Do("check", x, None)
  ELSE Do(IF q.consistent THEN "compare" ELSE "verdict", From(q.lines, x), Target(q.lines, x))
Right(q, x) ==
  IF q.kind = "test" THEN Status(Marked[x], Holds(Marked[x]))
  ELSE IF Good(q.lines, x) THEN "Pass" ELSE "Fail"

\* A step that leads to x being judged.
Covers(i, x) ==
  \/ i.do = "line" /\ i.a = x[1]
  \/ i.do = "target" /\ i.a = x[1] /\ i.b = x[2]
  \/ i.do = "marked" /\ i.a = x
IsItem(i, q) ==
  \/ /\ q.kind = "test" /\ i.do = "marked" /\ i.a \in 1..Len(Marked)
  \/ /\ q.kind = "pts-test" /\ i.do = "line" /\ i.a \in 1..Len(q.lines)
  \/ /\ q.kind = "pts-test" /\ i.do = "target" /\ i.a \in 1..Len(q.lines)
     /\ i.b \in 1..Len(q.lines[i.a].targets)

\* Look-ups first, then what they are for, then what is not begun, each of it once.
Shape(q, s) ==
  /\ \A j, k \in 1..Len(s) : j < k /\ s[j].do \in Items \union Judges => s[k].do \in Items
  /\ \A j, k \in 1..Len(s) : j # k => \A x \in Tests(q) : ~(Covers(s[j], x) /\ Covers(s[k], x))
  /\ \A k \in 1..Len(s) : s[k].do \in Items => IsItem(s[k], q)

Steps(s) == {s[k] : k \in 1..Len(s)}
Pending(q, E) == {x \in Tests(q) : \E i \in E : Covers(i, x)}
Counts(q, done, t) ==
  /\ \A v \in Verdicts : t[v] = Cardinality({x \in done : Right(q, x) = v})
  /\ q.kind = "pts-test" /\ q.consistent => \A x \in done : Agree(q.lines, x)

\* All that is neither ahead nor being judged is counted, once and rightly.
Counting(q, E, t) ==
  \E now \in SUBSET Tests(q) :
    /\ \A x, y \in now : x = y
    /\ \A x \in now : x \notin Pending(q, E) /\ JudgeOf(q, x) \in E
    /\ \A i \in E : i.do \in Judges => \E x \in now : i = JudgeOf(q, x)
    /\ Counts(q, Tests(q) \ (Pending(q, E) \union now), t)

\* r is s with its first step replaced by those of u.
Follows(r, u, s) ==
  /\ Len(s) \in Nat /\ Len(s) # 0 /\ Len(u) \in Nat /\ Len(r) = Len(u) + Len(s) - 1
  /\ \A k \in 1..Len(u) : r[k] = u[k]
  /\ \A k \in Len(u) + 1..Len(r) : r[k] = s[k - Len(u) + 1]

LEMMA ReplaceFollows ==
  ASSUME NEW s, NEW u, IsList(s), s # <<>>, IsList(u) PROVE Follows(u \o Tail(s), u, s)
<1> DEFINE v == Tail(s)  r == u \o v
<1>1. IsList(v) /\ Len(v) = Len(s) - 1 /\ Len(s) \in Nat \ {0} /\ Len(u) \in Nat
  BY TailList, ListLen
<1>2. \A k \in 1..Len(s) - 1 : v[k] = s[k + 1]
  BY TailList
<1> HIDE DEF v
<1>3. /\ Len(r) = Len(u) + Len(v)
      /\ \A k \in 1..Len(u) + Len(v) : r[k] = IF k <= Len(u) THEN u[k] ELSE v[k - Len(u)]
  BY <1>1, ConcatList
<1> HIDE DEF r
<1>4. \A k \in 1..Len(u) : r[k] = u[k]
  BY <1>1, <1>3
<1>5. ASSUME NEW k \in Len(u) + 1..Len(r) PROVE r[k] = s[k - Len(u) + 1]
  <2>1. k \in 1..Len(u) + Len(v) /\ ~(k <= Len(u)) /\ k - Len(u) \in 1..Len(s) - 1
    BY <1>1, <1>3
  <2>2. r[k] = v[k - Len(u)]
    BY <1>3, <2>1
  <2> QED
    BY <1>2, <2>1, <2>2
<1>6. Follows(r, u, s)
  BY <1>1, <1>3, <1>4, <1>5 DEF Follows
<1> QED
  BY <1>6 DEF r, v

LEMMA TailFollows == ASSUME NEW s, IsList(s), s # <<>> PROVE Follows(Tail(s), <<>>, s)
<1>1. Len(Tail(s)) = Len(s) - 1 /\ Len(s) \in Nat \ {0}
  BY TailList
<1>2. \A k \in 1..Len(s) - 1 : Tail(s)[k] = s[k + 1]
  BY TailList
<1>3. Len(<<>>) = 0
  OBVIOUS
<1> QED
  BY <1>1, <1>2, <1>3 DEF Follows

\* The places of the new list.
LEMMA FollowsPlaces ==
  ASSUME NEW r, NEW u, NEW s, Follows(r, u, s)
  PROVE  \A k \in 1..Len(r) :
           \/ k \in 1..Len(u) /\ r[k] = u[k]
           \/ /\ k > Len(u) /\ k - Len(u) + 1 \in 1..Len(s) /\ k - Len(u) + 1 > 1
              /\ r[k] = s[k - Len(u) + 1]
BY DEF Follows

LEMMA FollowsSteps ==
  ASSUME NEW r, NEW u, NEW s, Follows(r, u, s)
  PROVE  /\ Steps(s) = {s[1]} \union {s[k] : k \in 2..Len(s)}
         /\ Steps(r) = Steps(u) \union {s[k] : k \in 2..Len(s)}
<1>1. Len(s) \in Nat /\ Len(s) # 0 /\ Len(u) \in Nat /\ Len(r) = Len(u) + Len(s) - 1
  BY DEF Follows
<1>2. 1..Len(s) = {1} \union 2..Len(s)
  BY <1>1
<1>3. Steps(s) = {s[1]} \union {s[k] : k \in 2..Len(s)}
  BY <1>2 DEF Steps
<1>4. ASSUME NEW i \in Steps(r) PROVE i \in Steps(u) \union {s[k] : k \in 2..Len(s)}
  <2>1. PICK k \in 1..Len(r) : i = r[k]
    BY DEF Steps
  <2>2. \/ k \in 1..Len(u) /\ r[k] = u[k]
        \/ k - Len(u) + 1 \in 2..Len(s) /\ r[k] = s[k - Len(u) + 1]
    BY <1>1, FollowsPlaces
  <2> QED
    BY <2>1, <2>2 DEF Steps
<1>5. \A i \in Steps(u) : i \in Steps(r)
  <2>1. \A k \in 1..Len(u) : k \in 1..Len(r) /\ r[k] = u[k]
    BY <1>1 DEF Follows
  <2> QED
    BY <2>1 DEF Steps
<1>6. ASSUME NEW k \in 2..Len(s) PROVE s[k] \in Steps(r)
  <2> DEFINE m == k + Len(u) - 1
  <2>1. m \in Len(u) + 1..Len(r) /\ m \in 1..Len(r) /\ m - Len(u) + 1 = k
    BY <1>1
  <2> HIDE DEF m
  <2>2. r[m] = s[k]
    BY <2>1 DEF Follows
  <2> QED
    BY <2>1, <2>2 DEF Steps
<1> QED
  BY <1>3, <1>4, <1>5, <1>6

\* The new steps are in order among themselves, and nothing but an item makes others.
LEMMA ShapeFollows ==
  ASSUME NEW r, NEW u, NEW s, NEW q, Follows(r, u, s), Shape(q, s), Shape(q, u),
         s[1].do \notin Items => \A k \in 1..Len(u) : u[k].do \notin Items \union Judges,
         \A k \in 1..Len(u), x \in Tests(q) : Covers(u[k], x) => Covers(s[1], x)
  PROVE  Shape(q, r)
<1>1. Len(s) \in Nat /\ Len(s) # 0 /\ Len(u) \in Nat /\ Len(r) = Len(u) + Len(s) - 1 /\ 1 \in 1..Len(s)
  BY DEF Follows
<1>2. ASSUME NEW j \in 1..Len(r), NEW k \in 1..Len(r), j < k, r[j].do \in Items \union Judges
      PROVE  r[k].do \in Items
  <2>1. CASE k \in 1..Len(u)
    <3>1. j \in 1..Len(u)
      BY <1>1, <1>2, <2>1
    <3>2. r[j] = u[j] /\ r[k] = u[k]
      BY <2>1, <3>1 DEF Follows
    <3> QED
      BY <1>2, <2>1, <3>1, <3>2 DEF Shape
  <2>2. CASE j \in 1..Len(u) /\ k \notin 1..Len(u)
    <3>1. r[j] = u[j] /\ s[1].do \in Items
      BY <1>2, <2>2 DEF Follows
    <3>2. k - Len(u) + 1 \in 1..Len(s) /\ 1 < k - Len(u) + 1 /\ r[k] = s[k - Len(u) + 1]
      BY <1>1, <2>2, FollowsPlaces
    <3> QED
      BY <1>1, <3>1, <3>2 DEF Shape
  <2>3. CASE j \notin 1..Len(u)
    <3>1. j - Len(u) + 1 \in 1..Len(s) /\ r[j] = s[j - Len(u) + 1]
      BY <2>3, FollowsPlaces
    <3>2. k \notin 1..Len(u)
      BY <1>1, <1>2, <2>3
    <3>3. k - Len(u) + 1 \in 1..Len(s) /\ r[k] = s[k - Len(u) + 1]
      BY <3>2, FollowsPlaces
    <3>4. j - Len(u) + 1 < k - Len(u) + 1
      BY <1>1, <1>2
    <3> QED
      BY <1>2, <3>1, <3>3, <3>4 DEF Shape
  <2> QED
    BY <2>1, <2>2, <2>3
<1>3. ASSUME NEW j \in 1..Len(r), NEW k \in 1..Len(r), j < k, NEW x \in Tests(q), Covers(r[j], x), Covers(r[k], x)
      PROVE  FALSE
  <2>1. CASE k \in 1..Len(u)
    <3>1. j \in 1..Len(u) /\ j # k
      BY <1>1, <1>3, <2>1
    <3>2. r[j] = u[j] /\ r[k] = u[k]
      BY <2>1, <3>1 DEF Follows
    <3> QED
      BY <1>3, <2>1, <3>1, <3>2 DEF Shape
  <2>2. CASE j \in 1..Len(u) /\ k \notin 1..Len(u)
    <3>1. Covers(s[1], x)
      BY <1>3, <2>2 DEF Follows
    <3>2. k - Len(u) + 1 \in 1..Len(s) /\ 1 # k - Len(u) + 1 /\ r[k] = s[k - Len(u) + 1]
      BY <1>1, <2>2, FollowsPlaces
    <3> QED
      BY <1>1, <1>3, <3>1, <3>2 DEF Shape
  <2>3. CASE j \notin 1..Len(u)
    <3>1. j - Len(u) + 1 \in 1..Len(s) /\ r[j] = s[j - Len(u) + 1]
      BY <2>3, FollowsPlaces
    <3>2. k \notin 1..Len(u)
      BY <1>1, <1>3, <2>3
    <3>3. k - Len(u) + 1 \in 1..Len(s) /\ r[k] = s[k - Len(u) + 1]
      BY <3>2, FollowsPlaces
    <3>4. j - Len(u) + 1 # k - Len(u) + 1
      BY <1>1, <1>3
    <3> QED
      BY <1>3, <3>1, <3>3, <3>4 DEF Shape
  <2> QED
    BY <2>1, <2>2, <2>3
<1>4. ASSUME NEW j \in 1..Len(r), NEW k \in 1..Len(r), j # k, NEW x \in Tests(q)
      PROVE  ~(Covers(r[j], x) /\ Covers(r[k], x))
  <2>1. j < k \/ k < j
    BY <1>1, <1>4
  <2> QED
    BY <1>3, <2>1
<1>5. ASSUME NEW k \in 1..Len(r), r[k].do \in Items PROVE IsItem(r[k], q)
  BY <1>5, FollowsPlaces DEF Shape
<1> QED
  BY <1>2, <1>4, <1>5 DEF Shape

LEMMA EdgesFinite ==
  ASSUME NEW q \in PtQueries, q.kind = "pts-test"
  PROVE  IsFiniteSet(Edges(q.lines))
<1> DEFINE N == 1..Len(q.lines)
           Of(n) == {n} \X (1..Len(q.lines[n].targets))
           T == {Of(n) : n \in N}
<1>1. \A n \in Nat : IsFiniteSet(1..n)
  BY FS_Interval
<1>2. IsFiniteSet(N)
  BY <1>1, PointsToAssumption DEF PointsToAssumption
<1>3. ASSUME NEW n \in N PROVE IsFiniteSet(Of(n))
  <2>1. IsFiniteSet(1..Len(q.lines[n].targets))
    BY <1>1, PointsToAssumption DEF PointsToAssumption
  <2> QED
    BY <2>1, FS_Singleton, FS_Product
<1>4. Edges(q.lines) = UNION T
  BY DEF Edges
<1> HIDE DEF N, Of
<1>5. IsFiniteSet(T)
  <2> DEFINE g == [n \in N |-> Of(n)]
  <2>1. g \in Surjection(N, T)
    BY DEF Surjection
  <2> HIDE DEF g, T
  <2> QED
    BY <1>2, <2>1, SurjectionFinite
<1>6. \A X \in T : IsFiniteSet(X)
  BY <1>3
<1> HIDE DEF T
<1> QED
  BY <1>4, <1>5, <1>6, FS_UNION

LEMMA TestsFinite ==
  ASSUME NEW q \in PtQueries, q.kind \in {"test", "pts-test"}
  PROVE  IsFiniteSet(Tests(q))
<1>1. CASE q.kind = "test"
  <2>1. IsFiniteSet(1..Len(Marked))
    BY FS_Interval, PointsToAssumption DEF PointsToAssumption
  <2> QED
    BY <1>1, <2>1, FS_Subset DEF Tests
<1>2. CASE q.kind = "pts-test"
  <2>1. IsFiniteSet(Edges(q.lines))
    BY <1>2, EdgesFinite
  <2>2. Resolved(q.lines) \in SUBSET Edges(q.lines)
    BY DEF Resolved
  <2>3. IsFiniteSet(Resolved(q.lines))
    BY <2>1, <2>2, FS_Subset
  <2> QED
    BY <1>2, <2>3 DEF Tests
<1> QED
  BY <1>1, <1>2

LEMMA JudgeDoes == \A q, x : JudgeOf(q, x).do \in Judges /\ \A y : ~Covers(JudgeOf(q, x), y)
BY DEF JudgeOf, Do, Judges, Covers

LEMMA RightVerdict == \A q, x : Right(q, x) \in Verdicts
BY DEF Right, Verdicts, Status

\* A step that judges nothing is replaced by others that lead to the same.
LEMMA SameCounting ==
  ASSUME NEW q, NEW h, NEW T, NEW U, NEW t, Counting(q, {h} \union T, t),
         h.do \notin Judges, \A i \in U : i.do \notin Judges,
         \A x \in Tests(q) : (\E i \in U : Covers(i, x)) <=> Covers(h, x)
  PROVE  Counting(q, U \union T, t)
<1>1. Pending(q, U \union T) = Pending(q, {h} \union T)
  BY DEF Pending
<1>2. PICK now \in SUBSET Tests(q) :
        /\ \A x, y \in now : x = y
        /\ \A x \in now : x \notin Pending(q, {h} \union T) /\ JudgeOf(q, x) \in {h} \union T
        /\ \A i \in {h} \union T : i.do \in Judges => \E x \in now : i = JudgeOf(q, x)
        /\ Counts(q, Tests(q) \ (Pending(q, {h} \union T) \union now), t)
  BY DEF Counting
<1>3. \A x \in now : JudgeOf(q, x) \in U \union T
  BY <1>2, JudgeDoes
<1>4. \A i \in U \union T : i.do \in Judges => \E x \in now : i = JudgeOf(q, x)
  BY <1>2
<1> QED
  BY <1>1, <1>2, <1>3, <1>4 DEF Counting

\* A step that leads to one test is replaced by the look-ups and the judgement of it.
LEMMA StartCounting ==
  ASSUME NEW q, NEW h, NEW T, NEW U, NEW t, Counting(q, {h} \union T, t),
         NEW x \in Tests(q), Covers(h, x), \A y \in Tests(q) : Covers(h, y) => y = x,
         \A i \in T : i.do \notin Judges /\ ~Covers(i, x), h.do \notin Judges,
         JudgeOf(q, x) \in U, \A i \in U : i.do \in Judges => i = JudgeOf(q, x),
         \A i \in U : \A y \in Tests(q) : ~Covers(i, y)
  PROVE  Counting(q, U \union T, t)
<1>1. PICK now \in SUBSET Tests(q) :
        /\ \A y \in now : y \notin Pending(q, {h} \union T) /\ JudgeOf(q, y) \in {h} \union T
        /\ Counts(q, Tests(q) \ (Pending(q, {h} \union T) \union now), t)
  BY DEF Counting
<1>2. now = {}
  BY <1>1, JudgeDoes
<1>3. Pending(q, {h} \union T) = Pending(q, U \union T) \union {x}
  BY DEF Pending
<1>4. x \notin Pending(q, U \union T)
  BY DEF Pending
<1>5. Tests(q) \ (Pending(q, {h} \union T) \union now) = Tests(q) \ (Pending(q, U \union T) \union {x})
  BY <1>2, <1>3
<1>6. Counts(q, Tests(q) \ (Pending(q, U \union T) \union {x}), t)
  BY <1>1, <1>5
<1>7. \A i \in U \union T : i.do \in Judges => \E y \in {x} : i = JudgeOf(q, y)
  OBVIOUS
<1> QED
  BY <1>4, <1>6, <1>7 DEF Counting

\* A test is judged, and counted as it should.
LEMMA JudgedCounting ==
  ASSUME NEW q, NEW h, NEW T, NEW t \in Tallies, NEW t2, Counting(q, {h} \union T, t), IsFiniteSet(Tests(q)),
         h.do \in Judges, \A i \in T : i.do \notin Judges,
         \A x \in Tests(q) : h = JudgeOf(q, x) =>
           /\ t2 = [t EXCEPT ![Right(q, x)] = @ + 1]
           /\ q.kind = "pts-test" /\ q.consistent => Agree(q.lines, x)
  PROVE  Counting(q, T, t2)
<1>1. PICK now \in SUBSET Tests(q) :
        /\ \A x, y \in now : x = y
        /\ \A x \in now : x \notin Pending(q, {h} \union T) /\ JudgeOf(q, x) \in {h} \union T
        /\ \A i \in {h} \union T : i.do \in Judges => \E x \in now : i = JudgeOf(q, x)
        /\ Counts(q, Tests(q) \ (Pending(q, {h} \union T) \union now), t)
  BY DEF Counting
<1>2. PICK x \in now : h = JudgeOf(q, x)
  BY <1>1
<1>3. Pending(q, {h} \union T) = Pending(q, T)
  BY <1>2, JudgeDoes DEF Pending
<1> DEFINE done == Tests(q) \ (Pending(q, T) \union now)
           all  == Tests(q) \ (Pending(q, T) \union {})
<1>4. all = done \union {x} /\ x \notin done /\ x \in Tests(q)
  BY <1>1, <1>2, <1>3
<1>5. Counts(q, done, t)
  BY <1>1, <1>3
<1>6. t2 = [t EXCEPT ![Right(q, x)] = @ + 1]
  BY <1>2, <1>4
<1>7. IsFiniteSet(done)
  BY FS_Subset
<1> HIDE DEF done, all
<1>8. ASSUME NEW v \in Verdicts PROVE t2[v] = Cardinality({y \in all : Right(q, y) = v})
  <2> DEFINE old == {y \in done : Right(q, y) = v}
             new == {y \in all : Right(q, y) = v}
  <2>1. IsFiniteSet(old)
    BY <1>7, FS_Subset
  <2>2. t[v] = Cardinality(old)
    BY <1>5 DEF Counts
  <2>3. t \in [Verdicts \union {"Error"} -> Nat]
    BY DEF Tallies
  <2>4. CASE Right(q, x) = v
    <3>1. new = old \union {x} /\ x \notin old
      BY <1>4, <2>4
    <3> HIDE DEF old, new
    <3>2. Cardinality(new) = Cardinality(old) + 1
      BY <2>1, <3>1, FS_AddElement
    <3>3. t2[v] = t[v] + 1
      BY <1>6, <2>3, <2>4
    <3> QED
      BY <2>2, <3>2, <3>3 DEF new
  <2>5. CASE Right(q, x) # v
    <3>1. new = old
      BY <1>4, <2>5
    <3> HIDE DEF old, new
    <3>2. t2[v] = t[v]
      BY <1>6, <2>3, <2>5
    <3> QED
      BY <2>2, <3>1, <3>2 DEF new
  <2> QED
    BY <2>4, <2>5
<1>9. q.kind = "pts-test" /\ q.consistent => \A y \in all : Agree(q.lines, y)
  BY <1>2, <1>4, <1>5 DEF Counts
<1>10. Counts(q, all, t2)
  BY <1>8, <1>9 DEF Counts
<1> QED
  BY <1>10 DEF Counting, all

-----------------------------------------------------------------------------
(* What a judgement reads. *)

GivesSet(i, p)      == i.do \in {"pts", "collect"} /\ i.a = p
GivesAlias(i, pair) == i.do \in {"alias", "meet"} /\ Key(i.a, i.b) = pair

\* The sets and the aliases that a step reads: w is the wrapper.
SetsOf(w, i) ==
  CASE i.do = "verdict" -> IF w.kind = "inclu" THEN {i.a} ELSE {}
    [] i.do = "compare" -> IF w.kind = "inclu" THEN {i.a, i.b} ELSE {i.a}
    [] i.do = "check"   -> IF Rhs(Marked[i.a]) # None /\ IsPointsTo(Marked[i.a]) THEN {Marked[i.a].arg} ELSE {}
    [] OTHER -> {}
PairsOf(w, i) ==
  CASE i.do \in {"verdict", "compare"} -> IF w.kind = "inclu" THEN {} ELSE {Key(i.a, i.b)}
    [] i.do = "check" ->
         LET c == Marked[i.a] IN
         IF Rhs(c) # None /\ ~IsPointsTo(c) /\ c.name # "CHECK_REACH" THEN {Key(c.arg, Rhs(c))} ELSE {}
    [] OTHER -> {}

\* It is cached, or a step before it looks it up.
Fed(w, s, P, A) ==
  \A k \in 1..Len(s) :
    /\ \A p \in SetsOf(w, s[k]) : p \in P \/ \E j \in 1..Len(s) : j < k /\ GivesSet(s[j], p)
    /\ \A pair \in PairsOf(w, s[k]) : pair \in A \/ \E j \in 1..Len(s) : j < k /\ GivesAlias(s[j], pair)

LEMMA FedFollows ==
  ASSUME NEW w, NEW r, NEW u, NEW s, NEW P, NEW P2, NEW A, NEW A2, Follows(r, u, s),
         Fed(w, s, P, A), Fed(w, u, P2, A2), P \subseteq P2, A \subseteq A2,
         \A p : GivesSet(s[1], p) => p \in P2 \/ \E j \in 1..Len(u) : GivesSet(u[j], p),
         \A pair : GivesAlias(s[1], pair) => pair \in A2 \/ \E j \in 1..Len(u) : GivesAlias(u[j], pair)
  PROVE  Fed(w, r, P2, A2)
<1>1. Len(s) \in Nat /\ Len(s) # 0 /\ Len(u) \in Nat /\ Len(r) = Len(u) + Len(s) - 1 /\ 1 \in 1..Len(s)
  BY DEF Follows
<1>2. \A k \in 1..Len(u) : k \in 1..Len(r) /\ r[k] = u[k]
  BY <1>1 DEF Follows
<1>3. ASSUME NEW k \in 1..Len(r), k \in 1..Len(u)
      PROVE  /\ \A p \in SetsOf(w, r[k]) : p \in P2 \/ \E j \in 1..Len(r) : j < k /\ GivesSet(r[j], p)
             /\ \A pair \in PairsOf(w, r[k]) : pair \in A2 \/ \E j \in 1..Len(r) : j < k /\ GivesAlias(r[j], pair)
  BY <1>2, <1>3 DEF Fed
\* A step of the old list is in the new one, or the first.
<1>4. ASSUME NEW k \in 1..Len(r), k \notin 1..Len(u), NEW j \in 1..Len(s), j < k - Len(u) + 1, j # 1
      PROVE  \E m \in 1..Len(r) : m < k /\ r[m] = s[j]
  <2> DEFINE m == j + Len(u) - 1
  <2>1. m \in 1..Len(r) /\ m < k /\ m \in Len(u) + 1..Len(r) /\ m - Len(u) + 1 = j
    BY <1>1, <1>4
  <2> HIDE DEF m
  <2>2. r[m] = s[j]
    BY <2>1 DEF Follows
  <2> QED
    BY <2>1, <2>2
<1>5. ASSUME NEW k \in 1..Len(r), k \notin 1..Len(u)
      PROVE  \A j \in 1..Len(u) : j < k
  BY <1>1, <1>5
<1>6. ASSUME NEW k \in 1..Len(r), k \notin 1..Len(u), NEW p \in SetsOf(w, r[k])
      PROVE  p \in P2 \/ \E j \in 1..Len(r) : j < k /\ GivesSet(r[j], p)
  <2>1. k - Len(u) + 1 \in 1..Len(s) /\ r[k] = s[k - Len(u) + 1]
    BY <1>6, FollowsPlaces
  <2>2. p \in P \/ \E j \in 1..Len(s) : j < k - Len(u) + 1 /\ GivesSet(s[j], p)
    BY <1>6, <2>1 DEF Fed
  <2>3. ASSUME NEW j \in 1..Len(s), j < k - Len(u) + 1, GivesSet(s[j], p)
        PROVE  p \in P2 \/ \E m \in 1..Len(r) : m < k /\ GivesSet(r[m], p)
    <3>1. CASE j = 1
      <4>1. p \in P2 \/ \E m \in 1..Len(u) : GivesSet(u[m], p)
        BY <2>3, <3>1
      <4> QED
        BY <1>2, <1>5, <1>6, <4>1
    <3>2. CASE j # 1
      <4>1. \E m \in 1..Len(r) : m < k /\ r[m] = s[j]
        BY <1>4, <1>6, <2>3, <3>2
      <4> QED
        BY <2>3, <4>1
    <3> QED
      BY <3>1, <3>2
  <2> QED
    BY <2>2, <2>3
<1>7. ASSUME NEW k \in 1..Len(r), k \notin 1..Len(u), NEW p \in PairsOf(w, r[k])
      PROVE  p \in A2 \/ \E j \in 1..Len(r) : j < k /\ GivesAlias(r[j], p)
  <2>1. k - Len(u) + 1 \in 1..Len(s) /\ r[k] = s[k - Len(u) + 1]
    BY <1>7, FollowsPlaces
  <2>2. p \in A \/ \E j \in 1..Len(s) : j < k - Len(u) + 1 /\ GivesAlias(s[j], p)
    BY <1>7, <2>1 DEF Fed
  <2>3. ASSUME NEW j \in 1..Len(s), j < k - Len(u) + 1, GivesAlias(s[j], p)
        PROVE  p \in A2 \/ \E m \in 1..Len(r) : m < k /\ GivesAlias(r[m], p)
    <3>1. CASE j = 1
      <4>1. p \in A2 \/ \E m \in 1..Len(u) : GivesAlias(u[m], p)
        BY <2>3, <3>1
      <4> QED
        BY <1>2, <1>5, <1>7, <4>1
    <3>2. CASE j # 1
      <4>1. \E m \in 1..Len(r) : m < k /\ r[m] = s[j]
        BY <1>4, <1>7, <2>3, <3>2
      <4> QED
        BY <2>3, <4>1
    <3> QED
      BY <3>1, <3>2
  <2> QED
    BY <2>2, <2>3
<1> QED
  BY <1>3, <1>6, <1>7 DEF Fed

\* Steps that judge nothing read nothing of this kind.
LEMMA QuietFed == ASSUME NEW s, \A k \in 1..Len(s) : s[k].do \notin Judges PROVE \A w, P, A : Fed(w, s, P, A)
BY DEF Fed, SetsOf, PairsOf, Judges

-----------------------------------------------------------------------------
(* What a judgement says. *)

\* The last of some numbers.
LEMMA LastOne == ASSUME NEW N \in Nat, NEW S, S \subseteq 1..N, S # {} PROVE \E m \in S : \A k \in S : m >= k
<1>1. IsFiniteSet(S) /\ S \subseteq Nat
  <2>1. IsFiniteSet(1..N) /\ 1..N \subseteq Nat
    BY FS_Interval
  <2> QED
    BY <2>1, FS_Subset
<1>2. Cardinality(S) \in Nat /\ Cardinality(S) # 0
  BY <1>1, FS_CardinalityType, FS_EmptySet
<1>3. Cardinality(S) \in 1..Cardinality(S)
  BY <1>2
<1>4. PICK m \in S : Cardinality({j \in S : j <= m}) = Cardinality(S)
  BY <1>1, <1>3, Nth
<1>5. {j \in S : j <= m} \in SUBSET S
  OBVIOUS
<1>6. {j \in S : j <= m} = S
  BY <1>1, <1>4, <1>5, FS_Subset
<1>7. \A k \in S : k <= m
  BY <1>6
<1> QED
  BY <1>1, <1>7

ByMark(c) == IsPointsTo(c) \/ c.name \in {"CHECK_ALIAS", "CHECK_REACH"}

\* A check that goes by a mark means what the last mark with its index bears.
LEMMA MarkMeant ==
  ASSUME NEW c, ByMark(c)
  PROVE  /\ \A x : x # None => (Means(c, x) <=> Rhs(c) = x)
         /\ Rhs(c) # None => Rhs(c) \in {Marked[i].arg : i \in 1..Len(Marked)}
<1> DEFINE found == {i \in 1..Len(Marked) : Marks(c, i)}
           last  == CHOOSE i \in found : \A j \in found : i >= j
<1>1. Rhs(c) = IF found = {} THEN None ELSE Marked[last].arg
  <2>1. CASE c.name = "CHECK_REACH"
    <3>1. found = {i \in 1..Len(Marked) : Marked[i].name = "MARK_FUNCTION" /\ Marked[i].idx = c.idx}
      BY <2>1 DEF Marks
    <3>2. Rhs(c) = MarkOf("MARK_FUNCTION", c.idx)
      BY <2>1 DEF Rhs, IsPointsTo
    <3> QED
      BY <3>1, <3>2 DEF MarkOf
  <2>2. CASE c.name # "CHECK_REACH"
    <3>1. found = {i \in 1..Len(Marked) : Marked[i].name = "MARK_AS" /\ Marked[i].idx = c.idx}
      BY <2>2 DEF Marks
    <3>2. Rhs(c) = MarkOf("MARK_AS", c.idx)
      BY <2>2 DEF Rhs, ByMark
    <3> QED
      BY <3>1, <3>2 DEF MarkOf
  <2> QED
    BY <2>1, <2>2
<1>2. \A x : Means(c, x) <=> \E i \in found : Marked[i].arg = x /\ \A j \in i + 1..Len(Marked) : j \notin found
  <2>1. Len(Marked) \in Nat
    BY PointsToAssumption DEF PointsToAssumption
  <2>2. \A i \in 1..Len(Marked) : \A j \in i + 1..Len(Marked) : j \in 1..Len(Marked)
    BY <2>1
  <2>3. \A x : Means(c, x) <=> \E i \in 1..Len(Marked) : /\ Marks(c, i) /\ Marked[i].arg = x
                                                         /\ \A j \in i + 1..Len(Marked) : ~Marks(c, j)
    BY DEF Means, ByMark
  <2> QED
    BY <2>2, <2>3
<1>3. CASE found = {}
  BY <1>1, <1>2, <1>3
<1>4. CASE found # {}
  <2>1. Len(Marked) \in Nat /\ found \subseteq 1..Len(Marked)
    BY PointsToAssumption DEF PointsToAssumption
  <2> HIDE DEF found
  <2>2. \E i \in found : \A j \in found : i >= j
    BY <1>4, <2>1, LastOne
  <2>3. last \in found /\ \A j \in found : last >= j
    BY <2>2
  <2> HIDE DEF last
  <2>4. \A i \in found : (\A j \in i + 1..Len(Marked) : j \notin found) <=> i = last
    <3> SUFFICES ASSUME NEW i \in found PROVE (\A j \in i + 1..Len(Marked) : j \notin found) <=> i = last
      OBVIOUS
    <3>1. ASSUME \A j \in i + 1..Len(Marked) : j \notin found PROVE i = last
      BY <2>1, <2>3, <3>1
    <3>2. ASSUME i = last PROVE \A j \in i + 1..Len(Marked) : j \notin found
      BY <2>1, <2>3, <3>2
    <3> QED
      BY <3>1, <3>2
  <2>5. \A x : Means(c, x) <=> Marked[last].arg = x
    BY <1>2, <2>3, <2>4
  <2> QED
    BY <1>1, <1>4, <2>1, <2>3, <2>5
<1> QED
  BY <1>3, <1>4

\* What a check claims of its operand.
Claims(c, x) ==
  CASE c.name = "CHECK_POINTS_TO"    -> SetOf(c.arg) # Anything /\ x \in SetOf(c.arg)
    [] c.name = "CHECK_NO_POINTS_TO" -> SetOf(c.arg) = Anything \/ x \notin SetOf(c.arg)
    [] c.name = "CHECK_REACH"        -> <<c.arg, x>> \in Reaching
    [] OTHER                         -> AliasPasses(c.name, AliasOf(Key(c.arg, x)))

LEMMA HoldsByOperand ==
  ASSUME NEW n \in 1..Len(Marked)
  PROVE  LET c == Marked[n] IN Holds(c) <=> Rhs(c) # None /\ Claims(c, Rhs(c))
<1> DEFINE c == Marked[n]
           xs == {Marked[i].arg : i \in 1..Len(Marked)} \union {c.other}
<1>1. Holds(c) <=> \E x \in xs \ {None} : Means(c, x) /\ Claims(c, x)
  BY DEF Holds, Claims
<1>2. \A x : x # None => (Means(c, x) <=> Rhs(c) = x)
  <2>1. CASE ByMark(c)
    BY <2>1, MarkMeant
  <2>2. CASE ~ByMark(c)
    BY <2>2 DEF Means, Rhs, ByMark
  <2> QED
    BY <2>1, <2>2
<1>3. Rhs(c) # None => Rhs(c) \in xs
  <2>1. CASE ByMark(c)
    BY <2>1, MarkMeant
  <2>2. CASE ~ByMark(c)
    BY <2>2 DEF Rhs, ByMark
  <2> QED
    BY <2>1, <2>2
<1> HIDE DEF c, xs
<1>4. Holds(c) <=> Rhs(c) # None /\ Claims(c, Rhs(c))
  BY <1>1, <1>2, <1>3
<1> QED
  BY <1>4 DEF c

LEMMA PassesHolds ==
  ASSUME CachesTrue, misread = {}, NEW n \in 1..Len(Marked), NEW i, i.do = "check", i.a = n,
         SetsOf(wrapper, i) \subseteq DOMAIN ptsCache, PairsOf(wrapper, i) \subseteq DOMAIN aliasCache
  PROVE  Passes(Marked[n]) <=> Holds(Marked[n])
<1> DEFINE c == Marked[n]
<1>1. Holds(c) <=> Rhs(c) # None /\ Claims(c, Rhs(c))
  BY HoldsByOperand
<1>2. SetsOf(wrapper, i) = IF Rhs(c) # None /\ IsPointsTo(c) THEN {c.arg} ELSE {}
  BY DEF SetsOf
<1>3. PairsOf(wrapper, i) =
        IF Rhs(c) # None /\ ~IsPointsTo(c) /\ c.name # "CHECK_REACH" THEN {Key(c.arg, Rhs(c))} ELSE {}
  BY DEF PairsOf
<1>4. Rhs(c) # None /\ IsPointsTo(c) => ptsCache[c.arg] = SetOf(c.arg)
  BY <1>2 DEF CachesTrue
<1>5. Rhs(c) # None /\ ~IsPointsTo(c) /\ c.name # "CHECK_REACH"
        => aliasCache[Key(c.arg, Rhs(c))] = AliasOf(Key(c.arg, Rhs(c)))
  BY <1>3 DEF CachesTrue
<1> HIDE DEF c
<1>6. CASE Rhs(c) = None
  BY <1>1, <1>6 DEF Passes, c
<1>7. CASE Rhs(c) # None /\ c.name = "CHECK_POINTS_TO"
  <2>1. Passes(c) <=> (ptsCache[c.arg] # Anything /\ Rhs(c) \in ptsCache[c.arg])
    BY <1>7 DEF Passes, IsPointsTo
  <2>2. Claims(c, Rhs(c)) <=> SetOf(c.arg) # Anything /\ Rhs(c) \in SetOf(c.arg)
    BY <1>7 DEF Claims
  <2> QED
    BY <1>1, <1>4, <1>7, <2>1, <2>2 DEF c, IsPointsTo
<1>8. CASE Rhs(c) # None /\ c.name = "CHECK_NO_POINTS_TO"
  <2>1. Passes(c) <=> ~(ptsCache[c.arg] # Anything /\ Rhs(c) \in ptsCache[c.arg])
    BY <1>8 DEF Passes, IsPointsTo
  <2>2. Claims(c, Rhs(c)) <=> ~(SetOf(c.arg) # Anything /\ Rhs(c) \in SetOf(c.arg))
    BY <1>8 DEF Claims
  <2> QED
    BY <1>1, <1>4, <1>8, <2>1, <2>2 DEF c, IsPointsTo
<1>9. CASE Rhs(c) # None /\ c.name = "CHECK_REACH"
  <2>1. Passes(c) <=> <<c.arg, Rhs(c)>> \in Reaching
    BY <1>9 DEF Passes, IsPointsTo
  <2>2. Claims(c, Rhs(c)) <=> <<c.arg, Rhs(c)>> \in Reaching
    BY <1>9 DEF Claims
  <2> QED
    BY <1>1, <1>9, <2>1, <2>2 DEF c
<1>10. CASE Rhs(c) # None /\ c.name \notin {"CHECK_POINTS_TO", "CHECK_NO_POINTS_TO", "CHECK_REACH"}
  <2>1. Passes(c) <=> AliasPasses(c.name, aliasCache[Key(c.arg, Rhs(c))])
    BY <1>10 DEF Passes, IsPointsTo
  <2>2. Claims(c, Rhs(c)) <=> AliasPasses(c.name, AliasOf(Key(c.arg, Rhs(c))))
    BY <1>10 DEF Claims
  <2>3. aliasCache[Key(c.arg, Rhs(c))] = AliasOf(Key(c.arg, Rhs(c)))
    BY <1>5, <1>10 DEF IsPointsTo
  <2> QED
    BY <1>1, <1>10, <2>1, <2>2, <2>3 DEF c
<1> QED
  BY <1>6, <1>7, <1>8, <1>9, <1>10 DEF c

LEMMA FastRight ==
  ASSUME CachesTrue, misread = {}, NEW p, NEW t,
         IsInclu => p \in DOMAIN ptsCache, ~IsInclu => Key(p, t) \in DOMAIN aliasCache
  PROVE  Fast(p, t) # "No" <=> May(p, t)
<1>1. CASE IsInclu
  BY <1>1 DEF Fast, May, Contained, CachesTrue
<1>2. CASE ~IsInclu
  BY <1>2 DEF Fast, May, Aliased, CachesTrue
<1> QED
  BY <1>1, <1>2

LEMMA SlowRight ==
  ASSUME CachesTrue, held # "freed", NEW p, NEW t, p \in DOMAIN ptsCache,
         IsInclu => t \in DOMAIN ptsCache, NEW slow \in Slows(p, t)
  PROVE  slow # "No" <=> MaySlow(p, t)
<1>1. CASE IsInclu
  <2>1. slow = Intersection(SetOf(p), SetOf(t))
    BY <1>1 DEF Slows, Meets, CachesTrue
  <2>2. slow = AliasOf(Key(p, t))
    BY <1>1, <2>1, AliasOfPair
  <2> QED
    BY <1>1, <2>2 DEF MaySlow, Aliased
<1>2. CASE ~IsInclu
  BY <1>2 DEF Slows, MaySlow, Contained, CachesTrue
<1> QED
  BY <1>1, <1>2

-----------------------------------------------------------------------------
(* The invariant of the tests. *)

IsTest == asking.kind \in {"test", "pts-test"}

Progress ==
  /\ Shape(asking, todo)
  /\ Fed(wrapper, todo, DOMAIN ptsCache, DOMAIN aliasCache)
  /\ tally["Error"] = IF asking.kind = "pts-test" THEN Unresolved(asking.lines) ELSE 0
  /\ misread = {} => Counting(asking, Steps(todo), tally)

CountInv ==
  /\ asking \in PtQueries \union {NoPtQuery}
  /\ sites \in {<<>>, ComputedSites}
  /\ tally \in Tallies
  /\ result = "asked" /\ IsTest => Progress
  /\ EdgesCounted /\ ChecksCounted

LEMMA SameTests ==
  ASSUME wrapper' = wrapper
  PROVE  /\ \A l, e : (Good(l, e) <=> Good(l, e)') /\ (Agree(l, e) <=> Agree(l, e)')
         /\ \A c : Holds(c) <=> Holds(c)'
         /\ \A q, E, t : Counting(q, E, t) <=> Counting(q, E, t)'
<1>1. \A p, t : (May(p, t) <=> May(p, t)') /\ (MaySlow(p, t) <=> MaySlow(p, t)')
  BY SameWrapper DEF May, MaySlow, Contained, Aliased
<1>2. \A l, e : (Good(l, e) <=> Good(l, e)') /\ (Agree(l, e) <=> Agree(l, e)')
  <2>1. \A l, e : Good(l, e) <=> Good(l, e)'
    BY <1>1 DEF Good
  <2>2. \A l, e : Agree(l, e) <=> Agree(l, e)'
    BY <1>1, <2>1 DEF Agree
  <2> QED
    BY <2>1, <2>2
<1>3. \A c : Holds(c) <=> Holds(c)'
  BY SameWrapper DEF Holds
<1>4. \A q, x : Right(q, x) = Right(q, x)'
  BY <1>2, <1>3 DEF Right, Status
<1>5. \A q, done, t : Counts(q, done, t) <=> Counts(q, done, t)'
  BY <1>2, <1>4 DEF Counts
<1>6. \A q, E, t : Counting(q, E, t) <=> Counting(q, E, t)'
  BY <1>5 DEF Counting
<1> QED
  BY <1>2, <1>3, <1>6

\* A query begins: all is ahead.
LEMMA NothingCounted ==
  ASSUME NEW q, NEW E, NEW t, \A x \in Tests(q) : \E i \in E : Covers(i, x),
         \A i \in E : i.do \notin Judges, \A v \in Verdicts : t[v] = 0
  PROVE  Counting(q, E, t)
<1>1. Pending(q, E) = Tests(q)
  BY DEF Pending
<1>2. \A v : {x \in {} : Right(q, x) = v} = {}
  OBVIOUS
<1>3. Counts(q, {}, t)
  <2>1. Cardinality({}) = 0
    BY FS_EmptySet
  <2> QED
    BY <1>2, <2>1 DEF Counts
<1>4. Tests(q) \ (Pending(q, E) \union {}) = {}
  BY <1>1
<1> QED
  BY <1>3, <1>4 DEF Counting

LEMMA PlanShape ==
  ASSUME NEW q \in PtQueries, q.kind \in {"test", "pts-test"}
  PROVE  /\ Shape(q, Plan(q))
         /\ \A k \in 1..Len(Plan(q)) : Plan(q)[k].do \notin Judges
         /\ \A x \in Tests(q) : \E i \in Steps(Plan(q)) : Covers(i, x)
<1>1. CASE q.kind = "test"
  <2> DEFINE n == Len(Marked)  s == [i \in 1..n |-> Do("marked", i, None)]
  <2>1. n \in Nat
    BY PointsToAssumption DEF PointsToAssumption
  <2>2. Plan(q) = s
    BY <1>1 DEF Plan
  <2>3. Len(s) = n
    BY <2>1, FunctionList
  <2>4. \A k \in 1..n : s[k].do = "marked" /\ s[k].a = k
    BY DEF Do
  <2> HIDE DEF s
  <2>5. \A k \in 1..n : \A x : Covers(s[k], x) <=> x = k
    BY <2>4 DEF Covers
  <2>6. Shape(q, s)
    BY <1>1, <2>3, <2>4, <2>5 DEF Shape, IsItem, Items
  <2>7. \A x \in Tests(q) : x \in 1..n
    BY <1>1 DEF Tests
  <2>8. \A x \in Tests(q) : \E i \in Steps(s) : Covers(i, x)
    BY <2>3, <2>5, <2>7 DEF Steps
  <2> QED
    BY <2>2, <2>3, <2>4, <2>6, <2>8 DEF Judges
<1>2. CASE q.kind = "pts-test"
  <2> DEFINE n == Len(q.lines)  s == [i \in 1..n |-> Do("line", i, None)]
  <2>1. n \in Nat
    BY <1>2, PointsToAssumption DEF PointsToAssumption
  <2>2. Plan(q) = s
    BY <1>2 DEF Plan
  <2>3. Len(s) = n
    BY <2>1, FunctionList
  <2>4. \A k \in 1..n : s[k].do = "line" /\ s[k].a = k
    BY DEF Do
  <2> HIDE DEF s
  <2>5. \A k \in 1..n : \A x : Covers(s[k], x) <=> x[1] = k
    BY <2>4 DEF Covers
  <2>6. Shape(q, s)
    BY <1>2, <2>3, <2>4, <2>5 DEF Shape, IsItem, Items
  <2>7. \A x \in Tests(q) : x[1] \in 1..n
    BY <1>2 DEF Tests, Resolved, Edges
  <2>8. \A x \in Tests(q) : \E i \in Steps(s) : Covers(i, x)
    BY <2>3, <2>5, <2>7 DEF Steps
  <2> QED
    BY <2>2, <2>3, <2>4, <2>6, <2>8 DEF Judges
<1> QED
  BY <1>1, <1>2

LEMMA UnresolvedNat ==
  ASSUME NEW q \in PtQueries, q.kind = "pts-test"
  PROVE  /\ Unresolved(q.lines) \in Nat
         /\ Unresolved(q.lines) = Cardinality(Edges(q.lines) \ Resolved(q.lines))
<1> DEFINE S == {e \in Edges(q.lines) : None \in {q.lines[e[1]].key, q.lines[e[1]].targets[e[2]]}}
<1>1. S = Edges(q.lines) \ Resolved(q.lines)
  BY DEF Resolved, From, Target
<1>2. IsFiniteSet(S)
  BY EdgesFinite, FS_Subset
<1>3. Unresolved(q.lines) = Cardinality(S)
  BY DEF Unresolved
<1> HIDE DEF S
<1> QED
  BY <1>1, <1>2, <1>3, FS_CardinalityType

\* The properties say nothing while a query is answered or when it is given up.
LEMMA NotYet ==
  ASSUME result' \notin {"ok", "inconsistent"}
  PROVE  (EdgesCounted /\ ChecksCounted)'
BY DEF EdgesCounted, ChecksCounted

LEMMA AskCounts == ASSUME CountInv, NEW q \in PtQueries, AskPt(q) PROVE CountInv'
<1>1. /\ UNCHANGED <<wrapper, ptsCache, aliasCache, sites, misread>> /\ asking' = q
      /\ tally' = [NoTally EXCEPT !.Error = IF q.kind = "pts-test" THEN Unresolved(q.lines) ELSE 0]
      /\ result' = "error" \/ (todo' = Plan(q) /\ result' = "asked")
  BY DEF AskPt, FailsWith
<1>2. (EdgesCounted /\ ChecksCounted)'
  BY <1>1, NotYet
<1>3. /\ tally' \in Tallies /\ \A v \in Verdicts : tally'[v] = 0
      /\ tally'["Error"] = IF q.kind = "pts-test" THEN Unresolved(q.lines) ELSE 0
  <2>1. ASSUME NEW m \in Nat, tally' = [NoTally EXCEPT !.Error = m]
        PROVE  tally' \in Tallies /\ (\A v \in Verdicts : tally'[v] = 0) /\ tally'["Error"] = m
    <3>1. tally' = [Pass |-> 0, Fail |-> 0, Error |-> m, PassButExpectedFail |-> 0, FailAndExpectedFail |-> 0]
      BY <2>1 DEF NoTally
    <3>2. tally' \in Tallies
      BY <3>1 DEF Tallies, Verdicts
    <3>3. \A v \in Verdicts : tally'[v] = 0
      BY <3>1 DEF Verdicts
    <3>4. tally'["Error"] = m
      BY <3>1
    <3> QED
      BY <3>2, <3>3, <3>4
  <2>2. (IF q.kind = "pts-test" THEN Unresolved(q.lines) ELSE 0) \in Nat
    BY UnresolvedNat
  <2> QED
    BY <1>1, <2>1, <2>2
<1>4. ASSUME result' = "asked", q.kind \in {"test", "pts-test"} PROVE Progress'
  <2>1. todo' = Plan(q)
    BY <1>1, <1>4
  <2>2. Shape(asking, todo)'
    BY <1>1, <1>4, <2>1, PlanShape
  <2>3. \A w, P, A : Fed(w, Plan(q), P, A)
    BY <1>4, PlanShape, QuietFed
  <2>4. Counting(q, Steps(Plan(q)), tally')
    BY <1>3, <1>4, PlanShape, NothingCounted DEF Steps
  <2>5. Counting(asking, Steps(todo), tally)'
    BY <1>1, <2>1, <2>4, SameTests
  <2> QED
    BY <1>1, <1>3, <2>1, <2>2, <2>3, <2>5 DEF Progress
<1> QED
  BY <1>1, <1>2, <1>3, <1>4 DEF CountInv, IsTest

-----------------------------------------------------------------------------
(* Steps that judge nothing. *)

\* What a step that judges nothing leaves as it is.
Unjudged ==
  /\ asking' = asking /\ wrapper' = wrapper /\ tally' = tally
  /\ sites' \in {sites, ComputedSites} /\ misread \subseteq misread'
  /\ DOMAIN ptsCache \subseteq DOMAIN ptsCache' /\ DOMAIN aliasCache \subseteq DOMAIN aliasCache'

LEMMA GivenUp == ASSUME CountInv, Unjudged, result' = "error" PROVE CountInv'
<1>1. (EdgesCounted /\ ChecksCounted)'
  BY NotYet
<1> QED
  BY <1>1 DEF CountInv, Unjudged

\* A step is replaced by others that lead to the same judgements.
LEMMA OtherStep ==
  ASSUME CountInv, CacheInv, Unjudged, todo # <<>>, result = "asked", result' = "asked",
         NEW u, Follows(todo', u, todo), Now.do \notin Judges,
         IsTest => Shape(asking, u) /\ \A k \in 1..Len(u) : u[k].do \notin Judges,
         IsTest /\ Now.do \notin Items => \A k \in 1..Len(u) : u[k].do \notin Items \union Judges,
         IsTest => \A x \in Tests(asking) : (\E k \in 1..Len(u) : Covers(u[k], x)) <=> Covers(Now, x),
         \A p : GivesSet(Now, p) => p \in DOMAIN ptsCache' \/ \E j \in 1..Len(u) : GivesSet(u[j], p),
         \A p : GivesAlias(Now, p) => p \in DOMAIN aliasCache' \/ \E j \in 1..Len(u) : GivesAlias(u[j], p)
  PROVE  CountInv'
<1>1. (EdgesCounted /\ ChecksCounted)'
  BY NotYet
<1>2. Now = todo[1]
  BY FirstStep
<1>3. ASSUME IsTest PROVE Progress'
  <2>1. Progress
    BY <1>3 DEF CountInv
  <2>2. Shape(asking, todo)'
    BY <1>2, <1>3, <2>1, ShapeFollows DEF Progress, Unjudged
  <2>3. Fed(wrapper, todo', DOMAIN ptsCache', DOMAIN aliasCache')
    <3>1. Fed(wrapper, u, DOMAIN ptsCache', DOMAIN aliasCache')
      BY <1>3, QuietFed
    <3> QED
      BY <1>2, <2>1, <3>1, FedFollows DEF Progress, Unjudged
  <2>4. ASSUME misread' = {} PROVE Counting(asking, Steps(todo), tally)'
    <3> DEFINE T == {todo[k] : k \in 2..Len(todo)}
    <3>1. Steps(todo) = {Now} \union T /\ Steps(todo') = Steps(u) \union T
      BY <1>2, FollowsSteps
    <3> HIDE DEF T
    <3>2. Counting(asking, {Now} \union T, tally)
      BY <2>1, <2>4, <3>1 DEF Progress, Unjudged
    <3>3. \A i \in Steps(u) : i.do \notin Judges
      BY <1>3 DEF Steps
    <3>4. \A x \in Tests(asking) : (\E i \in Steps(u) : Covers(i, x)) <=> Covers(Now, x)
      BY <1>3 DEF Steps
    <3>5. Counting(asking, Steps(u) \union T, tally)
      BY <3>2, <3>3, <3>4, SameCounting
    <3>6. \A q, E, t : Counting(q, E, t) <=> Counting(q, E, t)'
      BY SameTests DEF Unjudged
    <3> QED
      BY <3>1, <3>5, <3>6 DEF Unjudged
  <2> QED
    BY <2>1, <2>2, <2>3, <2>4 DEF Progress, Unjudged
<1> QED
  BY <1>1, <1>3 DEF CountInv, Unjudged, IsTest

LEMMA QuietCovers == \A i, x : i.do \notin Items => ~Covers(i, x)
BY DEF Covers, Items

LEMMA QuietShape ==
  ASSUME NEW u, \A k \in 1..Len(u) : u[k].do \notin Items \union Judges
  PROVE  \A q : Shape(q, u)
BY QuietCovers DEF Shape

\* A look-up is done, or replaced by other look-ups.
LEMMA QuietStep ==
  ASSUME CountInv, CacheInv, Unjudged, todo # <<>>, result = "asked", result' = "asked",
         NEW u, Follows(todo', u, todo), Now.do \notin Items \union Judges,
         \A k \in 1..Len(u) : u[k].do \notin Items \union Judges,
         \A p : GivesSet(Now, p) => p \in DOMAIN ptsCache' \/ \E j \in 1..Len(u) : GivesSet(u[j], p),
         \A p : GivesAlias(Now, p) => p \in DOMAIN aliasCache' \/ \E j \in 1..Len(u) : GivesAlias(u[j], p)
  PROVE  CountInv'
<1>1. Shape(asking, u)
  BY QuietShape
<1>2. \A x : (\E k \in 1..Len(u) : Covers(u[k], x)) <=> Covers(Now, x)
  BY QuietCovers
<1> QED
  BY <1>1, <1>2, OtherStep

LEMMA QuietTail ==
  ASSUME CountInv, CacheInv, Unjudged, todo # <<>>, result = "asked", result' = "asked",
         todo' = Tail(todo), Now.do \notin Items \union Judges,
         \A p : GivesSet(Now, p) => p \in DOMAIN ptsCache', \A p : GivesAlias(Now, p) => p \in DOMAIN aliasCache'
  PROVE  CountInv'
<1>1. Follows(todo', <<>>, todo)
  BY TailFollows DEF CacheInv, ListOK
<1>2. 1..Len(<<>>) = {}
  OBVIOUS
<1> QED
  BY <1>1, <1>2, QuietStep

LEMMA LookUpPtsCounts == ASSUME CountInv, CacheInv, LookUpPts PROVE CountInv'
<1> DEFINE p == Now.a
<1>1. /\ todo # <<>> /\ Now.do = "pts" /\ result = "asked"
      /\ UNCHANGED <<wrapper, asking, aliasCache, misread, tally>>
      /\ sites' = IF IsInclu THEN sites ELSE ComputedSites
  BY DEF LookUpPts, Doing, Now, fixed
<1>2. Now.do \notin Items \union Judges /\ (\A pair : ~GivesAlias(Now, pair)) /\ \A x : GivesSet(Now, x) => x = p
  BY <1>1 DEF Items, Judges, GivesAlias, GivesSet
<1>3. CASE p \in DOMAIN ptsCache
  <2>1. todo' = Tail(todo) /\ ptsCache' = ptsCache /\ result' = result
    BY <1>3 DEF LookUpPts, Done
  <2> QED
    BY <1>1, <1>2, <1>3, <2>1, QuietTail DEF Unjudged
<1>4. CASE p \notin DOMAIN ptsCache /\ IsInclu
  <2>1. StorePts(p, wrapper.pts[p])
    BY <1>4 DEF LookUpPts
  <2>2. CASE result' = "error" /\ ptsCache' = ptsCache
    BY <1>1, <2>2, GivenUp DEF Unjudged
  <2>3. CASE todo' = Tail(todo) /\ result' = result /\ ptsCache' = Put(ptsCache, p, wrapper.pts[p])
    <3>1. DOMAIN ptsCache' = DOMAIN ptsCache \union {p}
      BY <2>3 DEF Put
    <3> QED
      BY <1>1, <1>2, <2>3, <3>1, QuietTail DEF Unjudged
  <2> QED
    BY <2>1, <2>2, <2>3 DEF StorePts, FailsWith, Done
<1>5. CASE p \notin DOMAIN ptsCache /\ ~IsInclu
  <2> DEFINE n == Len(ComputedSites)
             aliases == [k \in 1..n |-> Do("alias", p, ComputedSites[k].value)]
             collect == <<Do("collect", p, None)>>
             steps == aliases \o collect
  <2>1. todo' = steps \o Tail(todo) /\ ptsCache' = ptsCache /\ result' = result
    BY <1>1, <1>5 DEF LookUpPts, Before
  <2>2. n \in Nat /\ IsList(aliases) /\ Len(aliases) = n
    BY SitesNumbered, FunctionList
  <2>3. IsList(collect) /\ Len(collect) = 1 /\ collect[1] = Do("collect", p, None)
    <3>1. collect \in Seq({Do("collect", p, None)})
      OBVIOUS
    <3>2. Len(collect) = 1 /\ collect[1] = Do("collect", p, None)
      OBVIOUS
    <3> QED
      BY <3>1, <3>2, ListIn
  <2>4. \A k \in 1..n : aliases[k].do = "alias"
    BY DEF Do
  <2>5. Do("collect", p, None).do = "collect" /\ Do("collect", p, None).a = p
    BY DEF Do
  <2> HIDE DEF aliases, collect
  <2>6. /\ IsList(steps) /\ Len(steps) = n + 1
        /\ \A k \in 1..n + 1 : steps[k] = IF k <= n THEN aliases[k] ELSE collect[k - n]
    <3>1. /\ IsList(steps) /\ Len(steps) = Len(aliases) + Len(collect)
          /\ \A k \in 1..Len(aliases) + Len(collect) :
               steps[k] = IF k <= Len(aliases) THEN aliases[k] ELSE collect[k - Len(aliases)]
      BY <2>2, <2>3, ConcatList
    <3> QED
      BY <2>2, <2>3, <3>1
  <2> HIDE DEF steps
  <2>7. steps[n + 1].do = "collect" /\ steps[n + 1].a = p /\ n + 1 \in 1..n + 1
    <3>1. n + 1 \in 1..n + 1 /\ ~(n + 1 <= n) /\ n + 1 - n = 1
      BY <2>2
    <3>2. steps[n + 1] = collect[1]
      BY <2>6, <3>1
    <3> QED
      BY <2>3, <2>5, <3>1, <3>2
  <2>8. \A k \in 1..n : steps[k].do = "alias"
    <3>1. \A k \in 1..n : k \in 1..n + 1 /\ k <= n
      BY <2>2
    <3> QED
      BY <2>4, <2>6, <3>1
  <2>9. \A k \in 1..Len(steps) : steps[k].do \notin Items \union Judges
    <3>1. \A k \in 1..Len(steps) : k \in 1..n \/ k = n + 1
      BY <2>2, <2>6
    <3> QED
      BY <2>7, <2>8, <3>1 DEF Items, Judges
  <2>10. GivesSet(steps[n + 1], p)
    BY <2>7 DEF GivesSet
  <2>11. Follows(todo', steps, todo)
    BY <1>1, <2>1, <2>6, ReplaceFollows DEF CacheInv, ListOK
  <2> QED
    BY <1>1, <1>2, <1>5, <2>1, <2>6, <2>7, <2>9, <2>10, <2>11, QuietStep DEF Unjudged
<1> QED
  BY <1>3, <1>4, <1>5

LEMMA CollectCounts == ASSUME CountInv, CacheInv, Collect PROVE CountInv'
<1>1. /\ todo # <<>> /\ Now.do = "collect" /\ result = "asked" /\ result' = result /\ todo' = Tail(todo)
      /\ UNCHANGED <<wrapper, asking, aliasCache, sites, misread, tally>>
      /\ \E says : ptsCache' = Put(ptsCache, Now.a, says)
  BY DEF Collect, Doing, Done, Now, fixed
<1>2. DOMAIN ptsCache' = DOMAIN ptsCache \union {Now.a}
  BY <1>1 DEF Put
<1>3. Now.do \notin Items \union Judges /\ (\A pair : ~GivesAlias(Now, pair)) /\ \A x : GivesSet(Now, x) => x = Now.a
  BY <1>1 DEF Items, Judges, GivesAlias, GivesSet
<1> QED
  BY <1>1, <1>2, <1>3, QuietTail DEF Unjudged

LEMMA LookUpAliasCounts == ASSUME CountInv, CacheInv, LookUpAlias PROVE CountInv'
<1> DEFINE a == Now.a  b == Now.b  says == wrapper.alias[{a, b}]
<1>1. /\ todo # <<>> /\ Now.do = "alias" /\ result = "asked"
      /\ UNCHANGED <<wrapper, asking, ptsCache, sites, misread, tally>>
  BY DEF LookUpAlias, Doing, Now, fixed
<1>2. /\ Now.do \notin Items \union Judges /\ (\A x : ~GivesSet(Now, x))
      /\ \A pair : GivesAlias(Now, pair) => pair = Key(a, b)
  BY <1>1 DEF Items, Judges, GivesAlias, GivesSet
<1>3. CASE Key(a, b) \in DOMAIN aliasCache
  <2>1. todo' = Tail(todo) /\ aliasCache' = aliasCache /\ result' = result
    BY <1>3 DEF LookUpAlias, Done
  <2> QED
    BY <1>1, <1>2, <1>3, <2>1, QuietTail DEF Unjudged
<1>4. CASE Key(a, b) \notin DOMAIN aliasCache /\ IsInclu
  <2>1. PICK o \in {<<a, b>>, <<b, a>>} :
          todo' = <<Do("pts", o[1], None), Do("hold", o[1], None),
                    Do("pts", o[2], None), Do("meet", a, b)>> \o Tail(todo)
    BY <1>4 DEF LookUpAlias, Before
  <2>2. aliasCache' = aliasCache /\ result' = result
    BY <1>4 DEF LookUpAlias, Before
  <2> DEFINE s1 == Do("pts", o[1], None)  s2 == Do("hold", o[1], None)
             s3 == Do("pts", o[2], None)  s4 == Do("meet", a, b)
             u == <<s1, s2, s3, s4>>
  <2>3. s1.do = "pts" /\ s2.do = "hold" /\ s3.do = "pts" /\ s4.do = "meet" /\ s4.a = a /\ s4.b = b
    BY DEF Do
  <2>4. todo' = u \o Tail(todo)
    BY <2>1
  <2> HIDE DEF s1, s2, s3, s4
  <2>5. u \in Seq({s1, s2, s3, s4}) /\ Len(u) = 4
    OBVIOUS
  <2>6. u[1] = s1 /\ u[2] = s2 /\ u[3] = s3 /\ u[4] = s4
    OBVIOUS
  <2> HIDE DEF u
  <2>7. \A k \in 1..Len(u) : u[k].do \notin Items \union Judges
    <3>1. \A k \in 1..4 : k = 1 \/ k = 2 \/ k = 3 \/ k = 4
      OBVIOUS
    <3> QED
      BY <2>3, <2>5, <2>6, <3>1 DEF Items, Judges
  <2>8. GivesAlias(u[4], Key(a, b)) /\ 4 \in 1..Len(u)
    BY <2>3, <2>5, <2>6 DEF GivesAlias
  <2>9. Follows(todo', u, todo)
    BY <1>1, <2>4, <2>5, ReplaceFollows, ListIn DEF CacheInv, ListOK
  <2> QED
    BY <1>1, <1>2, <2>2, <2>7, <2>8, <2>9, QuietStep DEF Unjudged
<1>5. CASE Key(a, b) \notin DOMAIN aliasCache /\ ~IsInclu /\ says = "throws"
  <2>1. result' = "error" /\ aliasCache' = aliasCache
    BY <1>5 DEF LookUpAlias, FailsWith
  <2> QED
    BY <1>1, <2>1, GivenUp DEF Unjudged
<1>6. CASE Key(a, b) \notin DOMAIN aliasCache /\ ~IsInclu /\ says # "throws"
  <2>1. todo' = Tail(todo) /\ result' = result /\ aliasCache' = Put(aliasCache, Key(a, b), says)
    BY <1>6 DEF LookUpAlias, Done
  <2>2. DOMAIN aliasCache' = DOMAIN aliasCache \union {Key(a, b)}
    BY <2>1 DEF Put
  <2> QED
    BY <1>1, <1>2, <2>1, <2>2, QuietTail DEF Unjudged
<1> QED
  BY <1>3, <1>4, <1>5, <1>6

LEMMA HoldCounts == ASSUME CountInv, CacheInv, Hold PROVE CountInv'
<1>1. /\ todo # <<>> /\ Now.do = "hold" /\ result = "asked" /\ result' = result /\ todo' = Tail(todo)
      /\ UNCHANGED <<wrapper, asking, ptsCache, aliasCache, sites, misread, tally>>
  BY DEF Hold, Doing, Done, Now, fixed, caches
<1>2. Now.do \notin Items \union Judges /\ (\A x : ~GivesSet(Now, x)) /\ \A pair : ~GivesAlias(Now, pair)
  BY <1>1 DEF Items, Judges, GivesAlias, GivesSet
<1> QED
  BY <1>1, <1>2, QuietTail DEF Unjudged

LEMMA MeetCounts == ASSUME CountInv, CacheInv, Meet PROVE CountInv'
<1>1. /\ todo # <<>> /\ Now.do = "meet" /\ result = "asked" /\ result' = result /\ todo' = Tail(todo)
      /\ UNCHANGED <<wrapper, asking, ptsCache, sites, tally>>
      /\ misread \subseteq misread'
      /\ \E m : aliasCache' = Put(aliasCache, Key(Now.a, Now.b), m)
  BY DEF Meet, Misreads, Doing, Done, Now, fixed
<1>2. DOMAIN aliasCache' = DOMAIN aliasCache \union {Key(Now.a, Now.b)}
  BY <1>1 DEF Put
<1>3. /\ Now.do \notin Items \union Judges /\ (\A x : ~GivesSet(Now, x))
      /\ \A pair : GivesAlias(Now, pair) => pair = Key(Now.a, Now.b)
  BY <1>1 DEF Items, Judges, GivesAlias, GivesSet
<1> QED
  BY <1>1, <1>2, <1>3, QuietTail DEF Unjudged

LEMMA ListSitesCounts == ASSUME CountInv, CacheInv, ListSites PROVE CountInv'
<1>1. /\ todo # <<>> /\ Now.do = "sites" /\ result = "asked" /\ result' = result /\ todo' = Tail(todo)
      /\ sites' = ComputedSites /\ UNCHANGED <<wrapper, asking, ptsCache, aliasCache, misread, tally>>
  BY DEF ListSites, Doing, Done, Now, fixed
<1>2. Now.do \notin Items \union Judges /\ (\A x : ~GivesSet(Now, x)) /\ \A pair : ~GivesAlias(Now, pair)
  BY <1>1 DEF Items, Judges, GivesAlias, GivesSet
<1> QED
  BY <1>1, <1>2, QuietTail DEF Unjudged

-----------------------------------------------------------------------------
(* Items: lines and targets of a dump, and calls of markers. *)

\* Items and judgements look nothing up.
LEMMA GivesNothing ==
  ASSUME NEW i, i.do \in Items \union Judges PROVE (\A p : ~GivesSet(i, p)) /\ \A pair : ~GivesAlias(i, pair)
BY DEF Items, Judges, GivesSet, GivesAlias

LEMMA ItemNow ==
  ASSUME CountInv, CacheInv, IsTest, result = "asked", todo # <<>>, Now.do \in Items
  PROVE  asking \in PtQueries /\ IsItem(Now, asking)
<1>1. asking \in PtQueries
  BY DEF CountInv, IsTest, NoPtQuery
<1>2. Now = todo[1] /\ 1 \in 1..Len(todo)
  BY FirstStep
<1> QED
  BY <1>1, <1>2 DEF CountInv, Progress, Shape

LEMMA TakeLineCounts == ASSUME CountInv, CacheInv, TakeLine PROVE CountInv'
<1> DEFINE l == Now.a
           n == Len(asking.lines[l].targets)
           s == [k \in 1..n |-> Do("target", l, k)]
<1>1. /\ todo # <<>> /\ Now.do = "line" /\ todo' = s \o Tail(todo) /\ result = "asked" /\ result' = result
      /\ UNCHANGED <<asking, wrapper, tally, sites, misread, ptsCache, aliasCache>>
  BY DEF TakeLine, Doing, Now, Before, fixed, caches
<1>2. asking \in PtQueries /\ asking.kind = "pts-test" /\ l \in 1..Len(asking.lines)
  <2>1. Now = todo[1] /\ 1 \in 1..Len(todo)
    BY <1>1, FirstStep
  <2>2. Ready(todo, 1, wrapper, DOMAIN ptsCache, DOMAIN aliasCache, sites, asking)
    BY <2>1 DEF CacheInv, ListOK
  <2> QED
    BY <1>1, <2>1, <2>2 DEF Ready
<1>3. n \in Nat
  BY <1>2, PointsToAssumption DEF PointsToAssumption
<1>4. IsList(s) /\ Len(s) = n
  BY <1>3, FunctionList
<1>5. \A k \in 1..n : s[k].do = "target" /\ s[k].a = l /\ s[k].b = k
  BY DEF Do
<1> HIDE DEF s
<1>6. \A k \in 1..n : \A x : Covers(s[k], x) <=> l = x[1] /\ k = x[2]
  BY <1>5 DEF Covers
<1>7. Shape(asking, s)
  <2>1. \A k \in 1..Len(s) : s[k].do \in Items
    BY <1>4, <1>5 DEF Items
  <2>2. \A j, k \in 1..Len(s) : j # k => \A x \in Tests(asking) : ~(Covers(s[j], x) /\ Covers(s[k], x))
    BY <1>4, <1>6
  <2>3. \A k \in 1..Len(s) : IsItem(s[k], asking)
    BY <1>2, <1>4, <1>5 DEF IsItem
  <2> HIDE DEF l, n
  <2> QED
    BY <2>1, <2>2, <2>3 DEF Shape
<1>8. \A x \in Tests(asking) : x[1] = l => x[2] \in 1..n
  BY <1>2 DEF Tests, Resolved, Edges
<1>9. \A x \in Tests(asking) : (\E k \in 1..Len(s) : Covers(s[k], x)) <=> Covers(Now, x)
  <2>1. \A x : Covers(Now, x) <=> l = x[1]
    BY <1>1 DEF Covers
  <2> HIDE DEF l, n
  <2> QED
    BY <1>4, <1>6, <1>8, <2>1
<1>10. Follows(todo', s, todo)
  BY <1>1, <1>4, ReplaceFollows DEF CacheInv, ListOK
<1>11. Now.do \in Items /\ Now.do \notin Judges /\ \A k \in 1..Len(s) : s[k].do \notin Judges
  BY <1>1, <1>4, <1>5 DEF Items, Judges
<1> QED
  BY <1>1, <1>7, <1>9, <1>10, <1>11, GivesNothing, OtherStep DEF Unjudged

\* An item is replaced by the look-ups and the judgement of the one test that it leads to.
LEMMA BeginStep ==
  ASSUME CountInv, CacheInv, Unjudged, todo # <<>>, result = "asked", result' = "asked", IsTest,
         DOMAIN ptsCache' = DOMAIN ptsCache, DOMAIN aliasCache' = DOMAIN aliasCache,
         NEW u, Follows(todo', u, todo), Now.do \in Items, Shape(asking, u),
         Fed(wrapper, u, DOMAIN ptsCache, DOMAIN aliasCache),
         \A k \in 1..Len(u) : u[k].do \notin Items,
         NEW x \in Tests(asking), \A y \in Tests(asking) : Covers(Now, y) <=> y = x,
         \E k \in 1..Len(u) : u[k] = JudgeOf(asking, x),
         \A k \in 1..Len(u) : u[k].do \in Judges => u[k] = JudgeOf(asking, x)
  PROVE  CountInv'
<1>1. (EdgesCounted /\ ChecksCounted)'
  BY NotYet
<1>2. Now = todo[1] /\ 1 \in 1..Len(todo) /\ Now.do \notin Judges
  BY FirstStep DEF Items, Judges
<1>3. Progress'
  <2>1. Progress
    BY DEF CountInv
  <2>2. \A k \in 1..Len(u) : \A y : ~Covers(u[k], y)
    BY QuietCovers
  <2>3. Shape(asking, todo)'
    BY <1>2, <2>1, <2>2, ShapeFollows DEF Progress, Unjudged
  <2>4. Fed(wrapper, todo', DOMAIN ptsCache', DOMAIN aliasCache')
    BY <1>2, <2>1, GivesNothing, FedFollows DEF Progress, Unjudged
  <2>5. ASSUME misread' = {} PROVE Counting(asking, Steps(todo), tally)'
    <3> DEFINE T == {todo[k] : k \in 2..Len(todo)}
    <3>1. Steps(todo) = {Now} \union T /\ Steps(todo') = Steps(u) \union T
      BY <1>2, FollowsSteps
    <3>2. \A i \in T : i.do \notin Judges /\ ~Covers(i, x)
      <4>1. Len(todo) \in Nat
        BY DEF Follows
      <4>2. \A k \in 2..Len(todo) : k \in 1..Len(todo) /\ 1 < k /\ 1 # k
        BY <4>1
      <4>3. \A k \in 2..Len(todo) : todo[k].do \in Items
        BY <1>2, <2>1, <4>2 DEF Progress, Shape
      <4>4. \A k \in 2..Len(todo) : ~Covers(todo[k], x)
        BY <1>2, <2>1, <4>2 DEF Progress, Shape
      <4> QED
        BY <4>3, <4>4 DEF Items, Judges
    <3> HIDE DEF T
    <3>3. Counting(asking, {Now} \union T, tally)
      BY <2>1, <2>5, <3>1 DEF Progress, Unjudged
    <3>4. JudgeOf(asking, x) \in Steps(u) /\ \A i \in Steps(u) : i.do \in Judges => i = JudgeOf(asking, x)
      BY DEF Steps
    <3>5. \A i \in Steps(u), y \in Tests(asking) : ~Covers(i, y)
      BY <2>2 DEF Steps
    <3>6. Counting(asking, Steps(u) \union T, tally)
      BY <1>2, <3>2, <3>3, <3>4, <3>5, StartCounting
    <3>7. \A q, E, t : Counting(q, E, t) <=> Counting(q, E, t)'
      BY SameTests DEF Unjudged
    <3> QED
      BY <3>1, <3>6, <3>7 DEF Unjudged
  <2> QED
    BY <2>1, <2>3, <2>4, <2>5 DEF Progress, Unjudged
<1> QED
  BY <1>1, <1>3 DEF CountInv, Unjudged, IsTest

\* An item that leads to no test is dropped.
LEMMA DropStep ==
  ASSUME CountInv, CacheInv, Unjudged, todo # <<>>, result = "asked", result' = "asked",
         todo' = <<>> \o Tail(todo), Now.do \in Items, IsTest => \A x \in Tests(asking) : ~Covers(Now, x)
  PROVE  CountInv'
<1>1. IsList(<<>>) /\ 1..Len(<<>>) = {}
  <2>1. <<>> \in Seq({}) /\ 1..Len(<<>>) = {}
    OBVIOUS
  <2> QED
    BY <2>1, ListIn
<1>2. Follows(todo', <<>>, todo)
  BY <1>1, ReplaceFollows DEF CacheInv, ListOK
<1>3. Shape(asking, <<>>)
  BY <1>1, QuietShape
<1>4. Now.do \notin Judges
  BY DEF Items, Judges
<1> QED
  BY <1>1, <1>2, <1>3, <1>4, GivesNothing, OtherStep

\* Two lists with the same elements are one.
LEMMA SameElements ==
  ASSUME NEW S, NEW s \in Seq(S), NEW t \in Seq(S), Len(s) = Len(t), \A k \in 1..Len(t) : s[k] = t[k]
  PROVE  s = t
<1>1. s = [k \in 1..Len(s) |-> s[k]] /\ t = [k \in 1..Len(t) |-> t[k]]
  OBVIOUS
<1> QED
  BY <1>1

Joins(s, u, t) ==
  Len(s) + Len(u) = Len(t) /\ \A k \in 1..Len(t) : t[k] = IF k <= Len(s) THEN s[k] ELSE u[k - Len(s)]

LEMMA SameConcat ==
  ASSUME NEW S, NEW s \in Seq(S), NEW u \in Seq(S), NEW t \in Seq(S), Joins(s, u, t)
  PROVE  s \o u = t
<1>1. s \o u \in Seq(S)
  OBVIOUS
<1>2. Len(s \o u) = Len(t) /\ \A k \in 1..Len(t) : (s \o u)[k] = t[k]
  BY ConcatList, ListIn DEF Joins
<1> QED
  BY <1>1, <1>2, SameElements

\* Steps put together.
LEMMA TwoSteps == \A x, y : <<x>> \o <<y>> = <<x, y>>
<1>1. ASSUME NEW x, NEW y PROVE <<x>> \o <<y>> = <<x, y>>
  <2>1. <<x>> \in Seq({x, y}) /\ <<y>> \in Seq({x, y}) /\ <<x, y>> \in Seq({x, y})
    OBVIOUS
  <2>2. \A k \in 1..2 : k = 1 \/ k = 2
    OBVIOUS
  <2>3. Joins(<<x>>, <<y>>, <<x, y>>)
    BY <2>2 DEF Joins
  <2> QED
    BY <2>1, <2>3, SameConcat
<1> QED
  BY <1>1

LEMMA ThreeSteps == \A x, y, v : <<x>> \o <<y>> \o <<v>> = <<x, y, v>>
<1>1. ASSUME NEW x, NEW y, NEW v PROVE <<x>> \o <<y>> \o <<v>> = <<x, y, v>>
  <2> DEFINE S == {x, y, v}
  <2>1. <<x, y>> \in Seq(S) /\ <<v>> \in Seq(S) /\ <<x, y, v>> \in Seq(S)
    OBVIOUS
  <2>2. \A k \in 1..3 : k = 1 \/ k = 2 \/ k = 3
    OBVIOUS
  <2>4. Joins(<<x, y>>, <<v>>, <<x, y, v>>)
    BY <2>2 DEF Joins
  <2> HIDE DEF S
  <2>3. <<x, y>> \o <<v>> = <<x, y, v>>
    BY <2>1, <2>4, SameConcat
  <2> QED
    BY <2>3, TwoSteps
<1> QED
  BY <1>1

LEMMA FiveSteps == \A x, y, z, w, v : <<x>> \o <<y, z, w>> \o <<v>> = <<x, y, z, w, v>>
<1>1. ASSUME NEW x, NEW y, NEW z, NEW w, NEW v PROVE <<x>> \o <<y, z, w>> \o <<v>> = <<x, y, z, w, v>>
  <2> DEFINE S == {x, y, z, w, v}
  <2>1. /\ <<x>> \in Seq(S) /\ <<y, z, w>> \in Seq(S) /\ <<x, y, z, w>> \in Seq(S)
        /\ <<v>> \in Seq(S) /\ <<x, y, z, w, v>> \in Seq(S)
    OBVIOUS
  <2>2. \A k \in 1..4 : k = 1 \/ k = 2 \/ k = 3 \/ k = 4
    OBVIOUS
  <2>3. \A k \in 1..5 : k = 1 \/ k = 2 \/ k = 3 \/ k = 4 \/ k = 5
    OBVIOUS
  <2>6. Joins(<<x>>, <<y, z, w>>, <<x, y, z, w>>)
    BY <2>2 DEF Joins
  <2>7. Joins(<<x, y, z, w>>, <<v>>, <<x, y, z, w, v>>)
    BY <2>3 DEF Joins
  <2> HIDE DEF S
  <2>4. <<x>> \o <<y, z, w>> = <<x, y, z, w>>
    BY <2>1, <2>6, SameConcat
  <2>5. <<x, y, z, w>> \o <<v>> = <<x, y, z, w, v>>
    BY <2>1, <2>7, SameConcat
  <2> QED
    BY <2>4, <2>5
<1> QED
  BY <1>1

\* The look-ups and the judgement of an edge.
LEMMA EdgePlanSteps ==
  ASSUME NEW p, NEW t, NEW c \in BOOLEAN
  PROVE  LET s == EdgePlan(p, t, c)
             j == Do(IF c THEN "compare" ELSE "verdict", p, t) IN
         /\ IsList(s) /\ \A q : Shape(q, s)
         /\ \A P, A : Fed(wrapper, s, P, A)
         /\ \A k \in 1..Len(s) : s[k].do \notin Items /\ (s[k].do \in Judges => s[k] = j)
         /\ \E k \in 1..Len(s) : s[k] = j
<1> DEFINE j == Do(IF c THEN "compare" ELSE "verdict", p, t)
           a == Do("pts", p, None)  b == Do("hold", p, None)  d == Do("pts", t, None)  e == Do("alias", p, t)
           Good5(s, n) == /\ Len(s) = n /\ s \in Seq({a, b, d, e, j}) /\ s[n] = j
                          /\ \A k \in 1..n - 1 : s[k] \in {a, b, d, e}
<1>1. /\ a.do = "pts" /\ a.a = p /\ b.do = "hold" /\ d.do = "pts" /\ d.a = t /\ e.do = "alias" /\ e.a = p /\ e.b = t
      /\ j.a = p /\ j.b = t /\ j.do = IF c THEN "compare" ELSE "verdict"
  BY DEF Do
<1>2. /\ IsInclu /\ c   => EdgePlan(p, t, c) = <<a, a, b, d, j>>
      /\ ~IsInclu /\ c  => EdgePlan(p, t, c) = <<e, a, j>>
      /\ IsInclu /\ ~c  => EdgePlan(p, t, c) = <<a, j>>
      /\ ~IsInclu /\ ~c => EdgePlan(p, t, c) = <<e, j>>
  <2>2. CASE c
    <3>1. CASE IsInclu
      <4>1. EdgePlan(p, t, c) = <<a>> \o <<a, b, d>> \o <<j>>
        BY <2>2, <3>1 DEF EdgePlan
      <4> HIDE DEF a, b, d, e, j
      <4>2. <<a>> \o <<a, b, d>> \o <<j>> = <<a, a, b, d, j>>
        BY FiveSteps
      <4> QED
        BY <2>2, <3>1, <4>1, <4>2
    <3>2. CASE ~IsInclu
      <4>1. EdgePlan(p, t, c) = <<e>> \o <<a>> \o <<j>>
        BY <2>2, <3>2 DEF EdgePlan
      <4> HIDE DEF a, b, d, e, j
      <4> QED
        BY <2>2, <3>2, <4>1, TwoSteps, ThreeSteps
    <3> QED
      BY <3>1, <3>2
  <2>3. CASE ~c
    <3>1. CASE IsInclu
      <4>1. EdgePlan(p, t, c) = <<a>> \o <<j>>
        BY <2>3, <3>1 DEF EdgePlan
      <4> HIDE DEF a, b, d, e, j
      <4> QED
        BY <2>3, <3>1, <4>1, TwoSteps, ThreeSteps
    <3>2. CASE ~IsInclu
      <4>1. EdgePlan(p, t, c) = <<e>> \o <<j>>
        BY <2>3, <3>2 DEF EdgePlan
      <4> HIDE DEF a, b, d, e, j
      <4> QED
        BY <2>3, <3>2, <4>1, TwoSteps, ThreeSteps
    <3> QED
      BY <3>1, <3>2
  <2> QED
    BY <2>2, <2>3
<1> HIDE DEF a, b, d, e, j
<1>3. ASSUME NEW s, NEW n \in {2, 3, 5}, Good5(s, n)
      PROVE  /\ IsList(s) /\ \A q : Shape(q, s)
             /\ \A k \in 1..Len(s) : s[k].do \notin Items /\ (s[k].do \in Judges => s[k] = j)
             /\ \E k \in 1..Len(s) : s[k] = j
             /\ \A k \in 1..Len(s) : s[k] = j \/ s[k].do \notin Judges
  <2>1. IsList(s) /\ Len(s) = n /\ n \in Nat
    BY <1>3, ListIn
  <2>2. \A k \in 1..n : k = n \/ k \in 1..n - 1
    BY <2>1
  <2>3. \A k \in 1..n - 1 : s[k].do \notin Items \union Judges
    BY <1>1, <1>3 DEF Items, Judges
  <2>4. s[n] = j /\ j.do \notin Items /\ n \in 1..n
    BY <1>1, <1>3 DEF Items
  <2>5. \A i, k \in 1..n : i < k => i \in 1..n - 1
    BY <2>1
  <2>6. \A k \in 1..n : s[k].do \notin Items
    BY <2>2, <2>3, <2>4
  <2>7. \A q : Shape(q, s)
    BY <2>1, <2>3, <2>5, <2>6, QuietCovers DEF Shape
  <2> QED
    BY <2>1, <2>2, <2>3, <2>4, <2>6, <2>7
<1>4. \A s, k : s[k].do \notin Judges => SetsOf(wrapper, s[k]) = {} /\ PairsOf(wrapper, s[k]) = {}
  BY DEF SetsOf, PairsOf, Judges
<1>5. CASE IsInclu /\ c
  <2> DEFINE s == <<a, a, b, d, j>>
  <2>1. Good5(s, 5)
    <3>1. \A k \in 1..5 - 1 : k = 1 \/ k = 2 \/ k = 3 \/ k = 4
      OBVIOUS
    <3> QED
      BY <3>1
  <2>2. Len(s) = 5 /\ s[1] = a /\ s[4] = d /\ s[5] = j
    OBVIOUS
  <2> HIDE DEF s
  <2>3. \A k \in 1..Len(s) : s[k] = j \/ s[k].do \notin Judges
    BY <1>3, <2>1
  <2>4. \A k \in 1..Len(s) : s[k] = j => k = 5
    BY <1>1, <1>5, <2>1, <2>2
  <2>5. SetsOf(wrapper, j) = {p, t} /\ PairsOf(wrapper, j) = {}
    BY <1>1, <1>5 DEF SetsOf, PairsOf, IsInclu
  <2>6. GivesSet(s[1], p) /\ GivesSet(s[4], t) /\ 1 \in 1..Len(s) /\ 4 \in 1..Len(s) /\ 1 < 5 /\ 4 < 5
    BY <1>1, <2>2 DEF GivesSet
  <2>7. \A P, A : Fed(wrapper, s, P, A)
    <3> SUFFICES ASSUME NEW P, NEW A, NEW k \in 1..Len(s)
                 PROVE  /\ \A x \in SetsOf(wrapper, s[k]) : \E i \in 1..Len(s) : i < k /\ GivesSet(s[i], x)
                        /\ \A pair \in PairsOf(wrapper, s[k]) : \E i \in 1..Len(s) : i < k /\ GivesAlias(s[i], pair)
      BY DEF Fed
    <3>1. CASE s[k] = j
      BY <2>4, <2>5, <2>6, <3>1
    <3>2. CASE s[k] # j
      BY <1>4, <2>3, <3>2
    <3> QED
      BY <3>1, <3>2
  <2> QED
    BY <1>2, <1>3, <1>5, <2>1, <2>7 DEF s, j
<1>6. CASE ~IsInclu /\ c
  <2> DEFINE s == <<e, a, j>>
  <2>1. Good5(s, 3)
    <3>1. \A k \in 1..3 - 1 : k = 1 \/ k = 2
      OBVIOUS
    <3> QED
      BY <3>1
  <2>2. Len(s) = 3 /\ s[1] = e /\ s[2] = a /\ s[3] = j
    OBVIOUS
  <2> HIDE DEF s
  <2>3. \A k \in 1..Len(s) : s[k] = j \/ s[k].do \notin Judges
    BY <1>3, <2>1
  <2>4. \A k \in 1..Len(s) : s[k] = j => k = 3
    BY <1>1, <1>6, <2>1, <2>2
  <2>5. SetsOf(wrapper, j) = {p} /\ PairsOf(wrapper, j) = {Key(p, t)}
    BY <1>1, <1>6 DEF SetsOf, PairsOf, IsInclu
  <2>6. GivesAlias(s[1], Key(p, t)) /\ GivesSet(s[2], p) /\ 1 \in 1..Len(s) /\ 2 \in 1..Len(s) /\ 1 < 3 /\ 2 < 3
    BY <1>1, <2>2 DEF GivesSet, GivesAlias
  <2>7. \A P, A : Fed(wrapper, s, P, A)
    <3> SUFFICES ASSUME NEW P, NEW A, NEW k \in 1..Len(s)
                 PROVE  /\ \A x \in SetsOf(wrapper, s[k]) : \E i \in 1..Len(s) : i < k /\ GivesSet(s[i], x)
                        /\ \A pair \in PairsOf(wrapper, s[k]) : \E i \in 1..Len(s) : i < k /\ GivesAlias(s[i], pair)
      BY DEF Fed
    <3>1. CASE s[k] = j
      BY <2>4, <2>5, <2>6, <3>1
    <3>2. CASE s[k] # j
      BY <1>4, <2>3, <3>2
    <3> QED
      BY <3>1, <3>2
  <2> QED
    BY <1>2, <1>3, <1>6, <2>1, <2>7 DEF s, j
<1>7. CASE ~c
  <2> DEFINE first == IF IsInclu THEN a ELSE e
             s == <<first, j>>
  <2>1. Good5(s, 2)
    <3>1. \A k \in 1..2 - 1 : k = 1
      OBVIOUS
    <3> QED
      BY <3>1
  <2>2. Len(s) = 2 /\ s[1] = first /\ s[2] = j
    OBVIOUS
  <2>8. EdgePlan(p, t, c) = s
    BY <1>2, <1>7
  <2> HIDE DEF s
  <2>3. \A k \in 1..Len(s) : s[k] = j \/ s[k].do \notin Judges
    BY <1>3, <2>1
  <2>4. \A k \in 1..Len(s) : s[k] = j => k = 2
    BY <1>1, <1>7, <2>1, <2>2
  <2>5. /\ SetsOf(wrapper, j) = IF IsInclu THEN {p} ELSE {}
        /\ PairsOf(wrapper, j) = IF IsInclu THEN {} ELSE {Key(p, t)}
    BY <1>1, <1>7 DEF SetsOf, PairsOf, IsInclu
  <2>6. /\ IsInclu => GivesSet(s[1], p)
        /\ ~IsInclu => GivesAlias(s[1], Key(p, t))
        /\ 1 \in 1..Len(s) /\ 1 < 2
    BY <1>1, <2>2 DEF GivesSet, GivesAlias
  <2>7. \A P, A : Fed(wrapper, s, P, A)
    <3> SUFFICES ASSUME NEW P, NEW A, NEW k \in 1..Len(s)
                 PROVE  /\ \A x \in SetsOf(wrapper, s[k]) : \E i \in 1..Len(s) : i < k /\ GivesSet(s[i], x)
                        /\ \A pair \in PairsOf(wrapper, s[k]) : \E i \in 1..Len(s) : i < k /\ GivesAlias(s[i], pair)
      BY DEF Fed
    <3>1. CASE s[k] = j
      BY <2>4, <2>5, <2>6, <3>1
    <3>2. CASE s[k] # j
      BY <1>4, <2>3, <3>2
    <3> QED
      BY <3>1, <3>2
  <2> QED
    BY <1>3, <1>7, <2>1, <2>7, <2>8 DEF j
<1> QED
  BY <1>5, <1>6, <1>7

\* Other queries than tests count nothing.
LEMMA NoTestCounts == ASSUME CountInv, Unjudged, ~IsTest, result' = "asked" PROVE CountInv'
<1>1. (EdgesCounted /\ ChecksCounted)'
  BY NotYet
<1> QED
  BY <1>1 DEF CountInv, Unjudged, IsTest

LEMMA TakeTargetCounts == ASSUME CountInv, CacheInv, TakeTarget PROVE CountInv'
<1> DEFINE q == asking  x == <<Now.a, Now.b>>  p == From(q.lines, x)  t == Target(q.lines, x)
           s == IF None \in {p, t} THEN <<>> ELSE EdgePlan(p, t, q.consistent)
<1>1. /\ todo # <<>> /\ Now.do = "target" /\ todo' = s \o Tail(todo) /\ result = "asked" /\ result' = result
      /\ UNCHANGED <<asking, wrapper, tally, sites, misread, ptsCache, aliasCache>>
  <2>1. x[1] = Now.a /\ x[2] = Now.b
    OBVIOUS
  <2> HIDE DEF x
  <2> QED
    BY <2>1 DEF TakeTarget, Doing, Now, Before, fixed, caches, From, Target
<1>2. Unjudged /\ Now.do \in Items
  BY <1>1 DEF Unjudged, Items
<1>3. CASE ~IsTest
  BY <1>1, <1>2, <1>3, NoTestCounts
<1>4. CASE IsTest
  <2>1. /\ q \in PtQueries /\ q.kind = "pts-test" /\ Now.a \in 1..Len(q.lines)
        /\ Now.b \in 1..Len(q.lines[Now.a].targets)
    BY <1>1, <1>2, <1>4, ItemNow DEF IsItem
  <2>2. q.consistent \in BOOLEAN
    BY <2>1, PointsToAssumption DEF PointsToAssumption
  <2>3. x \in Edges(q.lines)
    BY <2>1 DEF Edges
  <2>4. \A y \in Edges(q.lines) : y = <<y[1], y[2]>>
    BY DEF Edges
  <2>5. \A y \in Edges(q.lines) : Covers(Now, y) <=> y = x
    BY <1>1, <2>4 DEF Covers
  <2>6. \A y \in Tests(q) : y \in Edges(q.lines)
    BY <2>1 DEF Tests, Resolved
  <2>7. x \in Tests(q) <=> None \notin {p, t}
    BY <2>1, <2>3 DEF Tests, Resolved
  <2>8. CASE None \in {p, t}
    <3>1. \A y \in Tests(q) : ~Covers(Now, y)
      BY <2>5, <2>6, <2>7, <2>8
    <3> QED
      BY <1>1, <1>2, <2>8, <3>1, DropStep
  <2>9. CASE None \notin {p, t}
    <3>1. s = EdgePlan(p, t, q.consistent) /\ x \in Tests(q)
      BY <2>7, <2>9
    <3>2. JudgeOf(q, x) = Do(IF q.consistent THEN "compare" ELSE "verdict", p, t)
      BY <2>1 DEF JudgeOf
    <3> HIDE DEF x, p, t
    <3>3. /\ IsList(s) /\ Shape(q, s)
          /\ Fed(wrapper, s, DOMAIN ptsCache, DOMAIN aliasCache)
          /\ \A k \in 1..Len(s) : s[k].do \notin Items /\ (s[k].do \in Judges => s[k] = JudgeOf(q, x))
          /\ \E k \in 1..Len(s) : s[k] = JudgeOf(q, x)
      BY <2>2, <3>1, <3>2, EdgePlanSteps
    <3>4. Follows(todo', s, todo)
      BY <1>1, <3>3, ReplaceFollows DEF CacheInv, ListOK
    <3>5. \A y \in Tests(q) : Covers(Now, y) <=> y = x
      BY <2>5, <2>6
    <3> HIDE DEF s
    <3>6. DOMAIN ptsCache' = DOMAIN ptsCache /\ DOMAIN aliasCache' = DOMAIN aliasCache /\ result' = "asked"
      BY <1>1
    <3> QED
      BY <1>1, <1>2, <1>4, <3>1, <3>3, <3>4, <3>5, <3>6, BeginStep
  <2> QED
    BY <2>8, <2>9
<1> QED
  BY <1>3, <1>4

\* The look-up and the judgement of a check.
LEMMA CheckPlanSteps ==
  ASSUME NEW n, IsCheck(Marked[n])
  PROVE  LET s == CheckPlan(n)
             j == Do("check", n, None) IN
         /\ IsList(s) /\ \A q : Shape(q, s)
         /\ \A P, A : Fed(wrapper, s, P, A)
         /\ \A k \in 1..Len(s) : s[k].do \notin Items /\ (s[k].do \in Judges => s[k] = j)
         /\ \E k \in 1..Len(s) : s[k] = j
<1> DEFINE c == Marked[n]  j == Do("check", n, None)
           a == Do("pts", c.arg, None)  e == Do("alias", c.arg, Rhs(c))
<1>1. /\ a.do = "pts" /\ a.a = c.arg /\ e.do = "alias" /\ e.a = c.arg /\ e.b = Rhs(c)
      /\ j.do = "check" /\ j.a = n
  BY DEF Do
<1>2. CheckPlan(n) = IF Rhs(c) = None \/ c.name = "CHECK_REACH" THEN <<j>>
                     ELSE IF IsPointsTo(c) THEN <<a, j>> ELSE <<e, j>>
  BY DEF CheckPlan
<1> HIDE DEF a, e, j
<1>3. /\ SetsOf(wrapper, j) = IF Rhs(c) # None /\ IsPointsTo(c) THEN {c.arg} ELSE {}
      /\ PairsOf(wrapper, j) =
           IF Rhs(c) # None /\ ~IsPointsTo(c) /\ c.name # "CHECK_REACH" THEN {Key(c.arg, Rhs(c))} ELSE {}
  BY <1>1 DEF SetsOf, PairsOf
<1>4. \A i : i.do \notin Judges => SetsOf(wrapper, i) = {} /\ PairsOf(wrapper, i) = {}
  BY DEF SetsOf, PairsOf, Judges
<1>5. IsPointsTo(c) => c.name # "CHECK_REACH"
  BY DEF IsPointsTo
<1>6. CASE Rhs(c) = None \/ c.name = "CHECK_REACH"
  <2> DEFINE s == <<j>>
  <2>1. s \in Seq({j}) /\ Len(s) = 1 /\ s[1] = j
    OBVIOUS
  <2>2. CheckPlan(n) = s
    BY <1>2, <1>6
  <2> HIDE DEF s
  <2>3. \A k \in 1..Len(s) : k = 1
    BY <2>1
  <2>4. \A q : Shape(q, s)
    BY <1>1, <2>1, <2>3, QuietCovers DEF Shape, Items
  <2>5. SetsOf(wrapper, j) = {} /\ PairsOf(wrapper, j) = {}
    BY <1>3, <1>5, <1>6
  <2>6. \A P, A : Fed(wrapper, s, P, A)
    BY <2>1, <2>3, <2>5 DEF Fed
  <2>7. IsList(s) /\ 1 \in 1..Len(s)
    BY <2>1, ListIn
  <2> QED
    BY <1>1, <2>1, <2>2, <2>3, <2>4, <2>6, <2>7 DEF Items, j
<1>7. CASE Rhs(c) # None /\ c.name # "CHECK_REACH"
  <2> DEFINE first == IF IsPointsTo(c) THEN a ELSE e
             s == <<first, j>>
  <2>1. CheckPlan(n) = s
    BY <1>2, <1>7
  <2> HIDE DEF first
  <2>2. s \in Seq({first, j}) /\ Len(s) = 2 /\ s[1] = first /\ s[2] = j
    OBVIOUS
  <2> HIDE DEF s
  <2>3. \A k \in 1..Len(s) : k = 1 \/ k = 2
    BY <2>2
  <2>4. first.do \notin Items \union Judges /\ j.do \notin Items
    BY <1>1 DEF first, Items, Judges
  <2>5. \A k \in 1..Len(s) : s[k].do \notin Items
    BY <2>2, <2>3, <2>4
  <2>6. \A i, k \in 1..Len(s) : i < k => i = 1
    BY <2>3
  <2>7. \A q : Shape(q, s)
    BY <2>2, <2>4, <2>5, <2>6, QuietCovers DEF Shape
  <2>8. /\ IsPointsTo(c) => GivesSet(s[1], c.arg)
        /\ ~IsPointsTo(c) => GivesAlias(s[1], Key(c.arg, Rhs(c)))
        /\ 1 \in 1..Len(s) /\ 2 \in 1..Len(s) /\ 1 < 2
    BY <1>1, <2>2 DEF GivesSet, GivesAlias, first
  <2>9. \A P, A : Fed(wrapper, s, P, A)
    <3> SUFFICES ASSUME NEW P, NEW A, NEW k \in 1..Len(s)
                 PROVE  /\ \A x \in SetsOf(wrapper, s[k]) : \E i \in 1..Len(s) : i < k /\ GivesSet(s[i], x)
                        /\ \A pair \in PairsOf(wrapper, s[k]) : \E i \in 1..Len(s) : i < k /\ GivesAlias(s[i], pair)
      BY DEF Fed
    <3>1. CASE k = 2
      BY <1>3, <1>7, <2>2, <2>8, <3>1
    <3>2. CASE k = 1
      BY <1>4, <2>2, <2>4, <3>2
    <3> QED
      BY <2>3, <3>1, <3>2
  <2>10. IsList(s)
    BY <2>2, ListIn
  <2> QED
    BY <2>1, <2>2, <2>3, <2>4, <2>5, <2>7, <2>8, <2>9, <2>10 DEF j
<1> QED
  BY <1>6, <1>7

LEMMA TakeCheckCounts == ASSUME CountInv, CacheInv, TakeCheck PROVE CountInv'
<1> DEFINE q == asking  n == Now.a  s == CheckPlan(n)
<1>1. /\ todo # <<>> /\ Now.do = "marked" /\ todo' = s \o Tail(todo) /\ result = "asked" /\ result' = result
      /\ UNCHANGED <<asking, wrapper, tally, sites, misread, ptsCache, aliasCache>>
  BY DEF TakeCheck, Doing, Now, Before, fixed, caches
<1>2. Unjudged /\ Now.do \in Items
  BY <1>1 DEF Unjudged, Items
<1>3. CASE ~IsTest
  BY <1>1, <1>2, <1>3, NoTestCounts
<1>4. CASE IsTest
  <2>1. q.kind = "test" /\ n \in 1..Len(Marked)
    BY <1>1, <1>2, <1>4, ItemNow DEF IsItem
  <2>2. \A y : Covers(Now, y) <=> y = n
    BY <1>1 DEF Covers
  <2>3. n \in Tests(q) <=> IsCheck(Marked[n])
    BY <2>1 DEF Tests
  <2>4. CASE ~IsCheck(Marked[n])
    <3>1. s = <<>>
      BY <2>4 DEF CheckPlan
    <3>2. \A y \in Tests(q) : ~Covers(Now, y)
      BY <2>2, <2>3, <2>4
    <3> QED
      BY <1>1, <1>2, <3>1, <3>2, DropStep
  <2>5. CASE IsCheck(Marked[n])
    <3>1. JudgeOf(q, n) = Do("check", n, None) /\ n \in Tests(q)
      BY <2>1, <2>3, <2>5 DEF JudgeOf
    <3>2. /\ IsList(s) /\ Shape(q, s)
          /\ Fed(wrapper, s, DOMAIN ptsCache, DOMAIN aliasCache)
          /\ \A k \in 1..Len(s) : s[k].do \notin Items /\ (s[k].do \in Judges => s[k] = JudgeOf(q, n))
          /\ \E k \in 1..Len(s) : s[k] = JudgeOf(q, n)
      BY <2>5, <3>1, CheckPlanSteps
    <3>3. Follows(todo', s, todo)
      BY <1>1, <3>2, ReplaceFollows DEF CacheInv, ListOK
    <3> HIDE DEF s, n
    <3>4. DOMAIN ptsCache' = DOMAIN ptsCache /\ DOMAIN aliasCache' = DOMAIN aliasCache /\ result' = "asked"
      BY <1>1
    <3> QED
      BY <1>1, <1>2, <1>4, <2>2, <3>1, <3>2, <3>3, <3>4, BeginStep
  <2> QED
    BY <2>4, <2>5
<1> QED
  BY <1>3, <1>4

-----------------------------------------------------------------------------
(* Judgements. *)

\* What the step at the front reads is cached: nothing before it could look it up.
LEMMA JudgeReads ==
  ASSUME CountInv, CacheInv, IsTest, result = "asked", todo # <<>>
  PROVE  SetsOf(wrapper, Now) \subseteq DOMAIN ptsCache /\ PairsOf(wrapper, Now) \subseteq DOMAIN aliasCache
<1>1. Now = todo[1] /\ 1 \in 1..Len(todo)
  BY FirstStep
<1>2. Fed(wrapper, todo, DOMAIN ptsCache, DOMAIN aliasCache)
  BY DEF CountInv, Progress
<1>3. \A j \in 1..Len(todo) : ~(j < 1)
  <2>1. Len(todo) \in Nat
    BY ListLen DEF CacheInv, ListOK
  <2> QED
    BY <2>1
<1> QED
  BY <1>1, <1>2, <1>3 DEF Fed

\* Only steps that are not begun are behind a judgement.
LEMMA BehindJudge ==
  ASSUME CountInv, CacheInv, IsTest, result = "asked", todo # <<>>, Now.do \in Judges
  PROVE  \A i \in {todo[k] : k \in 2..Len(todo)} : i.do \notin Judges
<1>1. Now = todo[1] /\ 1 \in 1..Len(todo) /\ Len(todo) \in Nat
  BY FirstStep, ListLen DEF CacheInv, ListOK
<1>2. \A k \in 2..Len(todo) : k \in 1..Len(todo) /\ 1 < k
  BY <1>1
<1>3. Shape(asking, todo)
  BY DEF CountInv, Progress
<1>4. \A k \in 2..Len(todo) : todo[k].do \in Items
  BY <1>1, <1>2, <1>3 DEF Shape
<1> QED
  BY <1>4 DEF Items, Judges

\* A judgement counts one more of the verdicts.
LEMMA JudgeStep ==
  ASSUME CountInv, CacheInv, todo # <<>>, todo' = Tail(todo), result = "asked", result' = "asked",
         Now.do \in Judges, UNCHANGED <<asking, wrapper, ptsCache, aliasCache, sites>>,
         misread \subseteq misread', NEW v \in Verdicts, tally' = [tally EXCEPT ![v] = @ + 1],
         ASSUME misread' = {}, IsTest, NEW x \in Tests(asking), Now = JudgeOf(asking, x)
         PROVE  v = Right(asking, x) /\ (asking.kind = "pts-test" /\ asking.consistent => Agree(asking.lines, x))
  PROVE  CountInv'
<1>1. (EdgesCounted /\ ChecksCounted)'
  BY NotYet
<1>2. tally' \in Tallies /\ tally'["Error"] = tally["Error"]
  <2>1. tally \in Tallies /\ "Error" # v
    BY DEF CountInv, Verdicts
  <2> QED
    BY <2>1 DEF Tallies
<1>3. ASSUME IsTest PROVE Progress'
  <2>1. Progress /\ asking \in PtQueries
    BY <1>3 DEF CountInv, IsTest, NoPtQuery
  <2>2. Now = todo[1]
    BY FirstStep
  <2>3. Follows(todo', <<>>, todo)
    BY TailFollows DEF CacheInv, ListOK
  <2>4. 1..Len(<<>>) = {}
    OBVIOUS
  <2>5. Now.do \notin Items
    BY DEF Items, Judges
  <2>6. Shape(asking, todo')
    <3>1. Shape(asking, <<>>)
      BY <2>4, QuietShape
    <3> QED
      BY <2>1, <2>2, <2>3, <2>4, <3>1, ShapeFollows DEF Progress
  <2>7. Fed(wrapper, todo', DOMAIN ptsCache, DOMAIN aliasCache)
    <3>1. Fed(wrapper, <<>>, DOMAIN ptsCache, DOMAIN aliasCache)
      BY <2>4, QuietFed
    <3>2. (\A p : ~GivesSet(todo[1], p)) /\ \A pair : ~GivesAlias(todo[1], pair)
      BY <2>2, GivesNothing
    <3> QED
      BY <2>1, <2>3, <3>1, <3>2, FedFollows DEF Progress
  <2>8. ASSUME misread' = {} PROVE Counting(asking, Steps(todo), tally)'
    <3> DEFINE T == {todo[k] : k \in 2..Len(todo)}
    <3>1. Steps(todo) = {Now} \union T /\ Steps(todo') = Steps(<<>>) \union T
      BY <2>2, <2>3, FollowsSteps
    <3>2. Steps(todo') = T
      BY <2>4, <3>1 DEF Steps
    <3>3. \A i \in T : i.do \notin Judges
      BY <1>3, BehindJudge
    <3> HIDE DEF T
    <3>4. Counting(asking, {Now} \union T, tally)
      BY <2>1, <2>8, <3>1 DEF Progress
    <3>5. IsFiniteSet(Tests(asking))
      BY <1>3, <2>1, TestsFinite DEF IsTest
    <3>6. \A x \in Tests(asking) : Now = JudgeOf(asking, x) =>
            /\ tally' = [tally EXCEPT ![Right(asking, x)] = @ + 1]
            /\ asking.kind = "pts-test" /\ asking.consistent => Agree(asking.lines, x)
      BY <1>3, <2>8
    <3>7. Counting(asking, T, tally')
      BY <3>3, <3>4, <3>5, <3>6, JudgedCounting DEF CountInv
    <3>8. \A q, E, t : Counting(q, E, t) <=> Counting(q, E, t)'
      BY SameTests
    <3> QED
      BY <3>2, <3>7, <3>8
  <2> QED
    BY <1>2, <2>1, <2>6, <2>7, <2>8 DEF Progress
<1> QED
  BY <1>1, <1>2, <1>3 DEF CountInv, IsTest

LEMMA VerdictCounts == ASSUME CountInv, CacheInv, Verdict PROVE CountInv'
<1> DEFINE p == Now.a  t == Now.b  v == IF Fast(p, t) = "No" THEN "Fail" ELSE "Pass"
<1>1. /\ todo # <<>> /\ Now.do = "verdict" /\ todo' = Tail(todo) /\ result = "asked" /\ result' = result
      /\ UNCHANGED <<asking, wrapper, ptsCache, aliasCache, sites, misread>>
      /\ tally' = [tally EXCEPT ![v] = @ + 1]
  BY DEF Verdict, Doing, Done, Now, Count, fixed, caches
<1>2. Now.do \in Judges /\ v \in Verdicts
  BY <1>1 DEF Judges, Verdicts
<1>3. ASSUME misread' = {}, IsTest, NEW x \in Tests(asking), Now = JudgeOf(asking, x)
      PROVE  v = Right(asking, x) /\ ~(asking.kind = "pts-test" /\ asking.consistent)
  <2>1. asking.kind # "test" /\ ~asking.consistent /\ p = From(asking.lines, x) /\ t = Target(asking.lines, x)
    BY <1>1, <1>3 DEF JudgeOf, Do
  <2>2. CASE asking.kind = "pts-test"
    <3>1. SetsOf(wrapper, Now) \subseteq DOMAIN ptsCache /\ PairsOf(wrapper, Now) \subseteq DOMAIN aliasCache
      BY <1>1, <2>2, JudgeReads DEF IsTest
    <3>2. (IsInclu => p \in DOMAIN ptsCache) /\ (~IsInclu => Key(p, t) \in DOMAIN aliasCache)
      BY <1>1, <3>1 DEF SetsOf, PairsOf, IsInclu
    <3>3. Fast(p, t) # "No" <=> May(p, t)
      BY <1>1, <1>3, <3>2, FastRight DEF CacheInv
    <3> QED
      BY <2>1, <2>2, <3>3 DEF Right, Good
  <2> QED
    BY <1>3, <2>1, <2>2 DEF IsTest
<1> HIDE DEF v
<1>4. misread \subseteq misread' /\ result' = "asked"
  BY <1>1
<1> QED
  BY <1>1, <1>2, <1>3, <1>4, JudgeStep

LEMMA CheckCounts == ASSUME CountInv, CacheInv, Check PROVE CountInv'
<1> DEFINE c == Marked[Now.a]  v == Status(c, Passes(c))
<1>1. /\ todo # <<>> /\ Now.do = "check" /\ todo' = Tail(todo) /\ result = "asked" /\ result' = result
      /\ UNCHANGED <<asking, wrapper, ptsCache, aliasCache, sites, misread>>
      /\ tally' = [tally EXCEPT ![v] = @ + 1]
  BY DEF Check, Doing, Done, Now, fixed, caches
<1>2. Now.do \in Judges /\ v \in Verdicts
  BY <1>1 DEF Judges, Verdicts, Status
<1>3. ASSUME misread' = {}, IsTest, NEW x \in Tests(asking), Now = JudgeOf(asking, x)
      PROVE  v = Right(asking, x) /\ ~(asking.kind = "pts-test" /\ asking.consistent)
  <2>1. asking.kind = "test" /\ Now.a = x
    BY <1>1, <1>3 DEF JudgeOf, Do
  <2>2. SetsOf(wrapper, Now) \subseteq DOMAIN ptsCache /\ PairsOf(wrapper, Now) \subseteq DOMAIN aliasCache
    BY <1>1, <2>1, JudgeReads DEF IsTest
  <2>3. x \in 1..Len(Marked)
    BY <2>1 DEF Tests
  <2>4. Passes(c) <=> Holds(c)
    BY <1>1, <1>3, <2>1, <2>2, <2>3, PassesHolds DEF CacheInv
  <2> QED
    BY <2>1, <2>4 DEF Right, Status
<1> HIDE DEF v
<1>4. misread \subseteq misread' /\ result' = "asked"
  BY <1>1
<1> QED
  BY <1>1, <1>2, <1>3, <1>4, JudgeStep

\* What a comparison finds of an edge, if nothing was read from a freed table.
LEMMA CompareRight ==
  ASSUME CountInv, CacheInv, result = "asked", todo # <<>>, Now.do = "compare", misread = {}, held # "freed",
         asking.kind = "pts-test", NEW x \in Tests(asking), Now = JudgeOf(asking, x),
         NEW slow \in Slows(Now.a, Now.b)
  PROVE  /\ asking.consistent
         /\ Fast(Now.a, Now.b) # "No" <=> Good(asking.lines, x)
         /\ slow # "No" <=> MaySlow(From(asking.lines, x), Target(asking.lines, x))
<1> DEFINE p == Now.a  t == Now.b
<1>1. asking.consistent /\ p = From(asking.lines, x) /\ t = Target(asking.lines, x)
  BY DEF JudgeOf, Do
<1>2. SetsOf(wrapper, Now) \subseteq DOMAIN ptsCache /\ PairsOf(wrapper, Now) \subseteq DOMAIN aliasCache
  BY JudgeReads DEF IsTest
<1>3. /\ p \in DOMAIN ptsCache /\ (IsInclu => t \in DOMAIN ptsCache)
      /\ ~IsInclu => Key(p, t) \in DOMAIN aliasCache
  BY <1>2 DEF SetsOf, PairsOf, IsInclu
<1>4. Fast(p, t) # "No" <=> May(p, t)
  BY <1>3, FastRight DEF CacheInv
<1>5. slow # "No" <=> MaySlow(p, t)
  BY <1>3, SlowRight DEF CacheInv
<1> QED
  BY <1>1, <1>4, <1>5 DEF Good

LEMMA CompareCounts == ASSUME CountInv, CacheInv, Compare PROVE CountInv'
<1> DEFINE p == Now.a  t == Now.b
<1>1. /\ todo # <<>> /\ Now.do = "compare" /\ result = "asked"
      /\ UNCHANGED <<asking, wrapper, ptsCache, aliasCache, sites>>
      /\ misread' = IF held = "freed" THEN misread \union {Key(p, t)} ELSE misread
  BY DEF Compare, Misreads, Doing, Now, fixed
<1>2. misread \subseteq misread' /\ (misread' = {} => misread = {} /\ held # "freed")
  BY <1>1
<1>3. Now.do \in Judges
  BY <1>1 DEF Judges
<1>4. PICK slow \in Slows(p, t) :
        IF (slow = "No") = (Fast(p, t) = "No") THEN Done /\ Count(slow)
        ELSE FailsWith("inconsistent") /\ UNCHANGED tally
  BY DEF Compare
<1>5. CASE (slow = "No") = (Fast(p, t) = "No")
  <2> DEFINE v == IF slow = "No" THEN "Fail" ELSE "Pass"
  <2>1. todo' = Tail(todo) /\ result' = "asked" /\ tally' = [tally EXCEPT ![v] = @ + 1]
    BY <1>1, <1>4, <1>5 DEF Done, Count
  <2>2. v \in Verdicts
    BY DEF Verdicts
  <2>3. ASSUME misread' = {}, IsTest, NEW x \in Tests(asking), Now = JudgeOf(asking, x)
        PROVE  /\ v = Right(asking, x)
               /\ asking.kind = "pts-test" /\ asking.consistent => Agree(asking.lines, x)
    <3>1. asking.kind # "test"
      BY <1>1, <2>3 DEF JudgeOf, Do
    <3>2. CASE asking.kind = "pts-test"
      <4>1. /\ Fast(p, t) # "No" <=> Good(asking.lines, x)
            /\ slow # "No" <=> MaySlow(From(asking.lines, x), Target(asking.lines, x))
        BY <1>1, <1>2, <2>3, <3>2, CompareRight
      <4>2. slow # "No" <=> Good(asking.lines, x)
        BY <1>5, <4>1
      <4> QED
        BY <3>1, <4>1, <4>2 DEF Right, Agree
    <3> QED
      BY <2>3, <3>1, <3>2 DEF IsTest
  <2> HIDE DEF v
  <2> QED
    BY <1>1, <1>2, <1>3, <2>1, <2>2, <2>3, JudgeStep
<1>6. CASE (slow = "No") # (Fast(p, t) = "No")
  <2>1. result' = "inconsistent" /\ tally' = tally
    BY <1>4, <1>6 DEF FailsWith
  <2>2. ChecksCounted'
    BY <2>1 DEF ChecksCounted
  <2>3. EdgesCounted'
    <3>1. SUFFICES ASSUME asking.kind = "pts-test", misread' = {}
                   PROVE  asking.consistent /\ \E e \in Resolved(asking.lines) : ~Agree(asking.lines, e)
      <4>1. \A e : Agree(asking.lines, e) <=> Agree(asking.lines, e)'
        BY <1>1, SameTests
      <4> QED
        BY <1>1, <2>1, <4>1 DEF EdgesCounted
    <3>2. Counting(asking, Steps(todo), tally)
      BY <1>1, <1>2, <3>1 DEF CountInv, Progress, IsTest
    <3>3. Now \in Steps(todo)
      BY <1>1, FirstStep DEF Steps
    <3>4. PICK x \in Tests(asking) : Now = JudgeOf(asking, x)
      BY <1>3, <3>2, <3>3 DEF Counting
    <3>5. /\ asking.consistent
          /\ Fast(p, t) # "No" <=> Good(asking.lines, x)
          /\ slow # "No" <=> MaySlow(From(asking.lines, x), Target(asking.lines, x))
      BY <1>1, <1>2, <3>1, <3>4, CompareRight
    <3>6. ~Agree(asking.lines, x)
      BY <1>6, <3>5 DEF Agree
    <3>7. x \in Resolved(asking.lines)
      BY <3>1 DEF Tests
    <3> QED
      BY <3>5, <3>6, <3>7
  <2> QED
    BY <1>1, <2>1, <2>2, <2>3 DEF CountInv
<1> QED
  BY <1>5, <1>6

-----------------------------------------------------------------------------
(* The end of a test, and every step. *)

\* All is judged: every test is counted.
LEMMA AllCounted ==
  ASSUME CountInv, IsTest, result = "asked", todo = <<>>, misread = {}
  PROVE  Counts(asking, Tests(asking), tally)
<1>1. Counting(asking, Steps(todo), tally)
  BY DEF CountInv, Progress
<1>2. Steps(todo) = {}
  BY DEF Steps
<1>3. Pending(asking, {}) = {}
  BY DEF Pending
<1>4. PICK now \in SUBSET Tests(asking) :
        /\ \A x \in now : JudgeOf(asking, x) \in {}
        /\ Counts(asking, Tests(asking) \ (Pending(asking, {}) \union now), tally)
  BY <1>1, <1>2 DEF Counting
<1>5. Tests(asking) \ (Pending(asking, {}) \union now) = Tests(asking)
  BY <1>3, <1>4
<1> QED
  BY <1>4, <1>5

LEMMA ReplyEdges == ASSUME CountInv, ReplyPt PROVE EdgesCounted'
<1>1. /\ result = "asked" /\ todo = <<>> /\ result' = "ok"
      /\ UNCHANGED <<wrapper, asking, tally, misread>>
  BY DEF ReplyPt
<1> DEFINE lines == asking.lines
           checked == Resolved(lines)
           good  == {e \in checked : Good(lines, e)}
<1>2. \A e : (Good(lines, e) <=> Good(lines, e)') /\ (Agree(lines, e) <=> Agree(lines, e)')
  BY <1>1, SameTests
<1>3. SUFFICES ASSUME asking.kind = "pts-test", misread = {}
               PROVE  /\ tally.Pass = Cardinality(good)
                      /\ tally.Fail = Cardinality(checked \ good)
                      /\ tally.Error = Cardinality(Edges(lines) \ checked)
                      /\ asking.consistent => \A e \in checked : Agree(lines, e)
  BY <1>1, <1>2 DEF EdgesCounted
<1>4. asking \in PtQueries /\ Progress
  BY <1>1, <1>3 DEF CountInv, IsTest, NoPtQuery
<1>5. Counts(asking, checked, tally)
  <2>1. Tests(asking) = checked
    BY <1>3 DEF Tests
  <2> QED
    BY <1>1, <1>3, <2>1, AllCounted DEF IsTest
<1>6. {x \in checked : Right(asking, x) = "Pass"} = good /\ {x \in checked : Right(asking, x) = "Fail"} = checked \ good
  BY <1>3 DEF Right
<1>7. tally["Pass"] = Cardinality(good) /\ tally["Fail"] = Cardinality(checked \ good)
  BY <1>5, <1>6 DEF Counts, Verdicts
<1>8. tally["Error"] = Cardinality(Edges(lines) \ checked)
  BY <1>3, <1>4, UnresolvedNat DEF Progress
<1>9. asking.consistent => \A e \in checked : Agree(lines, e)
  BY <1>3, <1>5 DEF Counts
<1> HIDE DEF lines, checked, good
<1> QED
  BY <1>7, <1>8, <1>9

LEMMA ReplyChecks == ASSUME CountInv, ReplyPt PROVE ChecksCounted'
<1>1. /\ result = "asked" /\ todo = <<>> /\ result' = "ok"
      /\ UNCHANGED <<wrapper, asking, tally, misread>>
  BY DEF ReplyPt
<1> DEFINE With(expected, holds) ==
             {n \in 1..Len(Marked) : /\ IsCheck(Marked[n])
                                    /\ ExpectedFail(Marked[n]) = expected /\ Holds(Marked[n]) = holds}
           Now2(expected, holds) ==
             {n \in 1..Len(Marked) : /\ IsCheck(Marked[n])
                                    /\ ExpectedFail(Marked[n]) = expected /\ Holds(Marked[n])' = holds}
           Of(v) == {n \in Tests(asking) : Right(asking, n) = v}
<1>2. \A e, h : Now2(e, h) = With(e, h)
  <2>1. \A c : Holds(c) <=> Holds(c)'
    BY <1>1, SameTests
  <2>2. \A c : Holds(c) \in BOOLEAN /\ Holds(c)' \in BOOLEAN
    BY DEF Holds
  <2>3. \A c : Holds(c) = Holds(c)'
    BY <2>1, <2>2
  <2> QED
    BY <2>3
<1>3. SUFFICES ASSUME asking.kind = "test", misread = {}
               PROVE  tally = [Pass |-> Cardinality(With(FALSE, TRUE)), Fail |-> Cardinality(With(FALSE, FALSE)),
                               Error |-> 0, PassButExpectedFail |-> Cardinality(With(TRUE, TRUE)),
                               FailAndExpectedFail |-> Cardinality(With(TRUE, FALSE))]
  <2>1. ChecksCounted' =
          ((asking'.kind = "test" /\ result' = "ok" /\ misread' = {}) =>
             tally' = [Pass |-> Cardinality(Now2(FALSE, TRUE)), Fail |-> Cardinality(Now2(FALSE, FALSE)),
                       Error |-> 0, PassButExpectedFail |-> Cardinality(Now2(TRUE, TRUE)),
                       FailAndExpectedFail |-> Cardinality(Now2(TRUE, FALSE))])
    BY DEF ChecksCounted
  <2> HIDE DEF With, Now2
  <2> QED
    BY <1>1, <1>2, <2>1
<1>4. Progress
  BY <1>1, <1>3 DEF CountInv, IsTest
<1>5. Counts(asking, Tests(asking), tally)
  BY <1>1, <1>3, AllCounted DEF IsTest
<1>6. \A c : Holds(c) \in BOOLEAN /\ ExpectedFail(c) \in BOOLEAN
  BY DEF Holds, ExpectedFail
<1>7. \A n : Right(asking, n) = Status(Marked[n], Holds(Marked[n]))
  BY <1>3 DEF Right
<1>8. /\ Of("Pass") = With(FALSE, TRUE) /\ Of("Fail") = With(FALSE, FALSE)
      /\ Of("PassButExpectedFail") = With(TRUE, TRUE) /\ Of("FailAndExpectedFail") = With(TRUE, FALSE)
  <2>1. Tests(asking) = {n \in 1..Len(Marked) : IsCheck(Marked[n])}
    BY <1>3 DEF Tests
  <2>2. Of("Pass") = With(FALSE, TRUE)
    BY <1>6, <1>7, <2>1 DEF Status
  <2>3. Of("Fail") = With(FALSE, FALSE)
    BY <1>6, <1>7, <2>1 DEF Status
  <2>4. Of("PassButExpectedFail") = With(TRUE, TRUE)
    BY <1>6, <1>7, <2>1 DEF Status
  <2>5. Of("FailAndExpectedFail") = With(TRUE, FALSE)
    BY <1>6, <1>7, <2>1 DEF Status
  <2> QED
    BY <2>2, <2>3, <2>4, <2>5
<1>9. \A v \in Verdicts : tally[v] = Cardinality(Of(v))
  BY <1>5 DEF Counts
<1>10. tally["Error"] = 0
  BY <1>3, <1>4 DEF Progress
<1> HIDE DEF With, Of
<1>11. /\ tally["Pass"] = Cardinality(With(FALSE, TRUE)) /\ tally["Fail"] = Cardinality(With(FALSE, FALSE))
       /\ tally["PassButExpectedFail"] = Cardinality(With(TRUE, TRUE))
       /\ tally["FailAndExpectedFail"] = Cardinality(With(TRUE, FALSE))
  BY <1>8, <1>9 DEF Verdicts
<1>12. tally = [v \in {"Pass", "Fail", "PassButExpectedFail", "FailAndExpectedFail", "Error"} |-> tally[v]]
  BY DEF CountInv, Tallies, Verdicts
<1> QED
  BY <1>10, <1>11, <1>12

LEMMA ReplyCounts == ASSUME CountInv, ReplyPt PROVE CountInv'
<1>1. result' = "ok" /\ UNCHANGED <<asking, sites, tally>>
  BY DEF ReplyPt
<1> QED
  BY <1>1, ReplyEdges, ReplyChecks DEF CountInv

LEMMA StutterCounts == ASSUME CountInv, UNCHANGED ptVars PROVE CountInv'
<1>1. UNCHANGED <<wrapper, ptsCache, aliasCache, sites, todo, asking, tally, result, misread>>
  BY DEF ptVars
<1>2. /\ \A l, e : (Good(l, e) <=> Good(l, e)') /\ (Agree(l, e) <=> Agree(l, e)')
      /\ \A c : Holds(c) <=> Holds(c)'
      /\ \A q, E, t : Counting(q, E, t) <=> Counting(q, E, t)'
  BY <1>1, SameTests
<1>3. EdgesCounted'
  BY <1>1, <1>2 DEF CountInv, EdgesCounted
<1>4. ChecksCounted'
  <2>1. \A c : Holds(c) \in BOOLEAN /\ Holds(c)' \in BOOLEAN
    BY DEF Holds
  <2>2. \A c : Holds(c) = Holds(c)'
    BY <1>2, <2>1
  <2> QED
    BY <1>1, <2>2 DEF CountInv, ChecksCounted
<1>5. Progress => Progress'
  BY <1>1, <1>2 DEF Progress
<1> QED
  BY <1>1, <1>3, <1>4, <1>5 DEF CountInv, IsTest

LEMMA InitCountInv == PtInit => CountInv
<1> SUFFICES ASSUME PtInit PROVE CountInv
  OBVIOUS
<1>1. result = "none" /\ asking = NoPtQuery /\ sites = <<>> /\ tally = NoTally
  BY DEF PtInit
<1>2. tally \in Tallies
  <2>1. tally = [Pass |-> 0, Fail |-> 0, Error |-> 0, PassButExpectedFail |-> 0, FailAndExpectedFail |-> 0]
    BY <1>1 DEF NoTally
  <2> QED
    BY <2>1 DEF Tallies, Verdicts
<1>3. EdgesCounted /\ ChecksCounted
  BY <1>1 DEF EdgesCounted, ChecksCounted
<1> QED
  BY <1>1, <1>2, <1>3 DEF CountInv

LEMMA CountInvStep == CacheInv /\ CountInv /\ [PtNext]_ptVars => CountInv'
<1> SUFFICES ASSUME CacheInv, CountInv, [PtNext]_ptVars PROVE CountInv'
  OBVIOUS
<1>1. CASE \E q \in PtQueries : AskPt(q)
  BY <1>1, AskCounts
<1> QED
  BY <1>1, ReplyCounts, StutterCounts, TakeLineCounts, TakeTargetCounts, TakeCheckCounts, LookUpPtsCounts,
     CollectCounts, LookUpAliasCounts, HoldCounts, MeetCounts, VerdictCounts, CompareCounts, CheckCounts,
     ListSitesCounts
  DEF PtNext

-----------------------------------------------------------------------------

(***************************************************************************)
(* Whatever was asked before, in whatever order, and whatever failed in    *)
(* the middle of a query, a cached answer is what the analysis says; the   *)
(* one exception are pairs intersected while the table that held the first *)
(* set was replaced by a larger one (misread).                             *)
(***************************************************************************)
THEOREM CachesHoldTheTruth == PtSpec => []CachesTrue
<1>1. CacheInv => CachesTrue
  BY DEF CacheInv
<1> QED
  BY InitCacheInv, CacheInvStep, <1>1, PTL DEF PtSpec

(***************************************************************************)
(* "pts-test" and "test" count every edge and every check of a query once, *)
(* as the analysis says of it, however the caches were filled before, and  *)
(* -c refuses a dump exactly if the two ways of asking differ on one of    *)
(* its edges (PAWrapper.cpp:149); "site" lists for each function its own   *)
(* allocation sites, all of them, in the order of its code.                *)
(***************************************************************************)
THEOREM TestsAreRight == PtSpec => []TestsExact
<1>1. CountInv => TestsExact
  BY ComputedExact DEF CountInv, TestsExact
<1> QED
  BY InitCacheInv, CacheInvStep, InitCountInv, CountInvStep, <1>1, PTL DEF PtSpec

(***************************************************************************)
(* The graph of a session (CallGraph.cpp) behaves as CallGraph says.       *)
(***************************************************************************)
THEOREM SessionHasGraph == SessionSpec => Spec
<1>1. SessionInit => Init
  BY DEF SessionInit
<1>2. [SessionNext]_sessionVars => [Next]_vars
  BY DEF SessionNext, sessionVars
<1> QED
  BY <1>1, <1>2, PTL DEF SessionSpec, Spec

(***************************************************************************)
(* The note files of a session (QueryInterface.cpp) behave as Notes says.  *)
(***************************************************************************)
THEOREM SessionHasNotes == SessionSpec => NotesSpec
<1>1. SessionInit => NotesInit
  BY DEF SessionInit
<1>2. [SessionNext]_sessionVars => [NotesNext]_noteVars
  BY DEF SessionNext, sessionVars
<1> QED
  BY <1>1, <1>2, PTL DEF SessionSpec, NotesSpec

(***************************************************************************)
(* The index of a session (IRManager.cpp, QueryInterface.cpp) behaves as   *)
(* NameIndex says.                                                         *)
(***************************************************************************)
THEOREM SessionHasIndex == SessionSpec => IndexSpec
<1>1. SessionInit => IndexInit
  BY DEF SessionInit
<1>2. [SessionNext]_sessionVars => [IndexNext]_indexVars
  BY DEF SessionNext, sessionVars
<1> QED
  BY <1>1, <1>2, PTL DEF SessionSpec, IndexSpec

(***************************************************************************)
(* Nothing a session does makes a cached answer wrong (PAWrapper.cpp).     *)
(***************************************************************************)
THEOREM SessionCachesTrue == SessionSpec => []CachesTrue
<1>1. SessionInit => PtInit
  BY DEF SessionInit
<1>2. [SessionNext]_sessionVars => [PtNext]_ptVars
  BY DEF SessionNext, sessionVars
<1>3. SessionSpec => PtSpec
  BY <1>1, <1>2, PTL DEF SessionSpec, PtSpec
<1> QED
  BY <1>3, CachesHoldTheTruth, PTL

(***************************************************************************)
(* Nothing a session does makes a test miscount (PAWrapper.cpp).           *)
(***************************************************************************)
THEOREM SessionTestsExact == SessionSpec => []TestsExact
<1>1. SessionInit => PtInit
  BY DEF SessionInit
<1>2. [SessionNext]_sessionVars => [PtNext]_ptVars
  BY DEF SessionNext, sessionVars
<1>3. SessionSpec => PtSpec
  BY <1>1, <1>2, PTL DEF SessionSpec, PtSpec
<1> QED
  BY <1>3, TestsAreRight, PTL
=============================================================================
