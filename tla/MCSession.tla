----------------------------- MODULE MCSession -----------------------------
(* A session for TLC. *)
EXTENDS Session

(* The graph: a module of four functions, a diamond, one side of it         *)
(* silenced, with a call through a pointer at either end.                   *)

MCDefined  == <<"main", "a", "s", "b">>
MCDeclared == {"ext"}
Direct(f)  == [direct |-> TRUE, to |-> f]
Through(p) == [direct |-> FALSE, to |-> p]
MCSites ==
  [main |-> <<Direct("a"), Direct("s")>>, a |-> <<Direct("b"), Through("p")>>,
   s |-> <<Direct("b")>>, b |-> <<Through("q")>>]
MCPointers == {"p", "q"}

Known(fns) == [how |-> "known", fns |-> fns]
Other(how) == [how |-> how, fns |-> <<>>]
MCAnalyses ==
  {[p |-> Known(<<>>),         q |-> Known(<<"ext", "main">>)],
   [p |-> Known(<<"s", "a">>), q |-> Other("unknown")],
   [p |-> Known(<<"ext">>),    q |-> Other("throws")]}

MCSilenced == {"s"}
MCFiles ==
  {<<>>, <<"", "s", "ext", "", "b", "a">>, <<"a", "s", "", "b", "", "main">>, <<"ext", "b", "zz", "a">>}
MCFileContents ==
  {[i \in 1..Len(c) |-> CASE c[i] = "" -> Blank [] c[i] = "zz" -> Unknown [] OTHER -> c[i]] : c \in MCFiles}

-----------------------------------------------------------------------------
(* Notes: three headings, the first two of one source file, the third of    *)
(* another file of the same name.                                           *)

MCSourceOf == <<1, 1, 2>>


(* Points-to: two pointers p, q; a global g, a function f with two sites,   *)
(* a function e without one, a function k; every kind of check.             *)

Inst(op, name, heap) == [name |-> name, op |-> op, heap |-> heap, callable |-> TRUE]
Body(name, code)     == [name |-> name, defined |-> TRUE, skipped |-> FALSE, code |-> code]
MCGlobals == <<[name |-> "g", skipped |-> FALSE], [name |-> "llvm.used", skipped |-> TRUE]>>
MCBodies ==
  <<Body("f", <<Inst("alloca", "a", FALSE), Inst("other", "x", FALSE), Inst("call", "h", TRUE),
                [Inst("call", "n", TRUE) EXCEPT !.callable = FALSE]>>),
    [Body("decl", <<>>) EXCEPT !.defined = FALSE],
    Body("e", <<Inst("call", "y", FALSE)>>),
    [Body("llvm.f", <<Inst("alloca", "z", FALSE)>>) EXCEPT !.skipped = TRUE],
    Body("k", <<Inst("alloca", "b", FALSE)>>)>>

Mark(name, arg, other, idx) == [name |-> name, arg |-> arg, other |-> other, idx |-> idx]
MCMarked ==
  <<Mark("CHECK_POINTS_TO", "p", None, 1), Mark("MARK_AS", "g", None, 1),
    Mark("CHECK_NO_POINTS_TO", "q", None, 1), Mark("MARK_AS", "h", None, 1),
    Mark("CHECK_ALIAS", "p", None, 2), Mark("NOALIAS", "p", "q", 0),
    Mark("EXPECTEDFAIL_MAYALIAS", "p", "h", 0), Mark("PARTIALALIAS", "q", "h", 0),
    Mark("MARK_FUNCTION", "k", None, 1), Mark("CHECK_REACH", "f", None, 1)>>
MCReaching == {<<"f", "k">>}

PtValues == {"g", "f", "a", "h", "e", "k", "b", "p", "q"}
Incl(p, q, g, h) ==
  [kind |-> "inclu",
   pts |-> [v \in PtValues |-> CASE v = "p" -> p [] v = "q" -> q [] v = "g" -> g [] v = "h" -> h [] OTHER -> {}]]
Unif(may, bad) ==
  [kind |-> "unifi",
   alias |-> [s \in {{v, w} : v, w \in PtValues} |->
                IF s \in bad THEN "throws" ELSE IF s \in may THEN "May"
                ELSE IF Cardinality(s) = 1 THEN "Must" ELSE "No"]]
MCWrappers ==
  {Incl({"g", "h"}, {"h"}, {"g"}, {}), Incl(Anything, {"g"}, {"h"}, {"h"}), Incl({"h"}, Raises, {"h"}, {"h"}),
   Unif({{"p", "g"}, {"p", "h"}, {"q", "h"}, {"p", "q"}}, {}), Unif({{"p", "x"}, {"q", "h"}}, {{"p", "h"}})}

DumpLine(key, targets) == [key |-> key, targets |-> targets]
MCDumps ==
  {<<DumpLine("p", <<"g", "h", None>>), DumpLine(None, <<"g", "h">>)>>,
   <<DumpLine("q", <<"h", "p">>), DumpLine("p", <<"a", "g">>)>>,
   <<DumpLine("p", <<Bad>>)>>}
MCPtQueries ==
  {[kind |-> "pts", a |-> v] : v \in {"p", "q"}}
  \union {[kind |-> "alias", a |-> pair[1], b |-> pair[2]] : pair \in {<<"p", "q">>, <<"p", "h">>, <<"q", "p">>}}
  \union {[kind |-> "test"], [kind |-> "sites"]}
  \union {[kind |-> "pts-test", lines |-> ls, consistent |-> c] : c \in BOOLEAN, ls \in MCDumps}

-----------------------------------------------------------------------------
(* The index: a table, a constructor, a function of namespace std, main and *)
(* main2; three classes, one in a namespace, one opaque, and FooBar.        *)

MCNameList ==
  <<"", "Foo", "Foo::Foo", "FooBar", "Opaque", "_ZN3FooC1Ev", "_ZSt4exitv", "class.Foo", "class.ns::Foo", "exit",
    "main", "main2", "ns::Foo", "std", "std::exit", "struct.FooBar", "table">>
Name(s) == (CHOOSE i \in 1..Len(MCNameList) : MCNameList[i] = s) - 1
MCNames == 0..(Len(MCNameList) - 1)
NameMap(F(_), n) == [m \in MCNames |-> IF F(MCNameList[m + 1]) = None THEN n[m] ELSE Name(F(MCNameList[m + 1]))]

LastOf(s) == CASE s = "" -> "table" [] s = "Foo" -> "FooBar" [] s = "main" -> "main2" [] s = "std" -> "std::exit"
               [] OTHER -> None
DemangledOf(s) == CASE s = "_ZN3FooC1Ev" -> "Foo::Foo" [] s = "_ZSt4exitv" -> "std::exit" [] OTHER -> None
StrippedOf(s) == CASE s = "class.Foo" -> "Foo" [] s = "class.ns::Foo" -> "ns::Foo" [] s = "struct.FooBar" -> "FooBar"
                   [] OTHER -> ""
InnerOf(s) == CASE s \in {"Foo::Foo", "ns::Foo", "class.ns::Foo"} -> "Foo" [] s = "std::exit" -> "exit" [] OTHER -> None
MCLastWith  == NameMap(LastOf, [m \in MCNames |-> m])
MCDemangled == NameMap(DemangledOf, [m \in MCNames |-> m])
MCStripped  == NameMap(StrippedOf, [m \in MCNames |-> m])
MCInner     == NameMap(InnerOf, [m \in MCNames |-> NoName])
MCSuffixes  == [m \in MCNames |-> {m, MCInner[m]} \ {NoName}]
MCGroups    == [m \in MCNames |-> IF m \in {Name("_ZSt4exitv"), Name("std::exit")} THEN {"std"} ELSE {}]

MCTypes == {"ptr", "i32", "arr", "class.Foo", "class.ns::Foo", "struct.FooBar", "Opaque"}
MCSubtypes ==
  [t \in MCTypes |-> CASE t = "class.ns::Foo" -> <<"i32", "arr", "i32">> [] t = "arr" -> <<"struct.FooBar">>
                       [] t = "class.Foo" -> <<"ptr", "struct.FooBar">> [] t = "struct.FooBar" -> <<"i32", "struct.FooBar">>
                       [] OTHER -> <<>>]
MCStructName == [t \in {"class.Foo", "class.ns::Foo", "struct.FooBar", "Opaque"} |-> Name(t)]
MCSized == {"class.Foo", "class.ns::Foo", "struct.FooBar"}

Val(kind, name, owner, types, class) ==
  [kind |-> kind, name |-> Name(name), owner |-> owner, types |-> types, class |-> IF class = None THEN NoName ELSE Name(class)]
MCModuleValues ==
  <<Val("global", "table", 0, <<"class.ns::Foo", "class.ns::Foo">>, None),
    Val("function", "_ZN3FooC1Ev", 0, <<>>, "Foo"), Val("argument", "", 2, <<>>, None), Val("block", "", 2, <<>>, None),
    Val("instruction", "", 2, <<"Opaque", "ptr">>, None), Val("function", "_ZSt4exitv", 0, <<>>, "std"),
    Val("argument", "", 6, <<>>, None), Val("block", "", 6, <<>>, None), Val("function", "main", 0, <<>>, None),
    Val("block", "", 9, <<>>, None), Val("instruction", "", 9, <<"class.Foo", "i32">>, None),
    Val("function", "main2", 0, <<>>, None)>>

By(s)     == [how |-> "name", name |-> Name(s)]
Number(n) == [how |-> "number", number |-> n]
MCReferences == {By(s) : s \in {"", "Foo", "Foo::Foo", "exit", "main", "main2", "ns::Foo", "table"}}
                \union {Number(n) : n \in {-1, 0, 5, 9, 99}} \union {[how |-> "text"]}
MCInquiries ==
  {[ask |-> cmd, refs |-> <<ref>>] : cmd \in {"cg", "st", "pts", "show"}, ref \in MCReferences}
  \union {[ask |-> "alias", refs |-> <<ref, By("table")>>] : ref \in MCReferences}
  \union {[ask |-> cmd, refs |-> <<>>] : cmd \in {"site", "pt"}}
  \union {[ask |-> "show", refs |-> <<Number(0), ref, Number(9)>>] : ref \in MCReferences}
  \union {[ask |-> "range", refs |-> <<ref>>, count |-> n] : ref \in MCReferences, n \in {0, 4, 20}}
  \union {[ask |-> "global", name |-> n] : n \in MCNames} \union {[ask |-> "ctor", of |-> v] : v \in {2, 6, 9}}
=============================================================================
