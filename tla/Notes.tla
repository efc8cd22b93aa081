------------------------------- MODULE Notes -------------------------------
(***************************************************************************)
(* The commands "note" and "tv" (src/common/QueryInterface.cpp): notes are *)
(* kept in one text file for each source file, records in the order of     *)
(* their headings, propositions with their premises as indented lines.     *)
(* Every change rewrites the file: it is truncated, then written.          *)
(*                                                                         *)
(* A line is its kind and what it names; texts are not told apart.  All    *)
(* sources have the same file name, so their note files compete for        *)
(* name.md, name.2.md, ...: the folder is the sequence of these.           *)
(***************************************************************************)
EXTENDS Naturals, Sequences, FiniteSets
LOCAL INSTANCE FiniteSetsExt

CONSTANTS
  Headings,    \* names of functions, structs and globals, as their ranks
  StructHeadings, \* those of structs, which getGlobal does not look for
  SourceOf,    \* the source file that the debug information names
  Props,       \* names of conjectures and theorems
  Premises,    \* names that -a and -r are given; 0: a local value's name
  MaxNotes,    \* bound: note commands that change a file
  MaxFailures  \* bound: crashes and failed writes

ASSUME NotesAssumption ==
  /\ Headings \subseteq Nat \ {0} /\ Headings \subseteq DOMAIN SourceOf
  /\ IsFiniteSet(Headings) /\ IsFiniteSet(Props)
  /\ \A h \in Headings : SourceOf[h] \in Nat \ {0}
  /\ StructHeadings \subseteq Headings /\ Premises \subseteq Headings \union {0}
  /\ MaxNotes \in Nat /\ MaxFailures \in Nat

VARIABLES folder, pending, noteStep, notes, failures
noteVars == <<folder, pending, noteStep, notes, failures>>

Line(t, a) == [t |-> t, a |-> a]
IsIndented(line) == line.t \in {"dsc", "when", "child", "proof"}
First(S) == IF S = {} THEN 0 ELSE Min(S)

-----------------------------------------------------------------------------
(* A file: the path of its source, and records with a heading and a body. *)

File(path, recs)  == [path |-> path, recs |-> recs]
Record(h, body)   == [head |-> h, body |-> body]
Empty             == File(0, <<>>)   \* truncated, without a first line

\* Mutant: the search keeps the wrong half at the record it looks for.
LowerBoundOff(recs, h) ==
  LET I == 1..Len(recs) + 1
      Search[p \in I \X I] ==
        LET l == p[1]  r == p[2]  mid == l + (r - l) \div 2 IN
        IF l >= r THEN l
        ELSE IF recs[mid].head <= h THEN Search[<<mid + 1, r>>] ELSE Search[<<l, mid>>]
  IN  Search[<<1, Len(recs) + 1>>]

\* findLowerboundWithLinePrefix: a binary search for the first heading not below h.
LowerBound(recs, h) ==
  LET I == 1..Len(recs) + 1
      Search[p \in I \X I] ==
        LET l == p[1]  r == p[2]  mid == l + (r - l) \div 2 IN
        IF l >= r THEN l
        ELSE IF recs[mid].head < h THEN Search[<<mid + 1, r>>] ELSE Search[<<l, mid>>]
  IN  Search[<<1, Len(recs) + 1>>]

HasRecord(recs, h) == LET pos == LowerBound(recs, h) IN pos <= Len(recs) /\ recs[pos].head = h

\* s with t in the place of what is from "from" to before "to".
Splice(s, from, to, t) == SubSeq(s, 1, from - 1) \o t \o SubSeq(s, to, Len(s))

\* Mutant: a new record takes the place of the next one.
RewrittenOver(recs, h, rec) ==
  LET pos == LowerBound(recs, h) IN Splice(recs, pos, pos + 1, rec)

\* What is before the record of h, then "rec", then what is behind it.
Rewritten(recs, h, rec) ==
  LET pos == LowerBound(recs, h) IN
  Splice(recs, pos, IF HasRecord(recs, h) THEN pos + 1 ELSE pos, rec)

\* getNoteFile: the first file that begins with the path, or the first free name.
NoteFile(dir, s) == Min({Len(dir) + 1} \union {i \in 1..Len(dir) : dir[i].path = s})

\* The records that "note <vid>" finds: for each heading, its body.
RecordsFound(dir) ==
  LET RecsOf(h) == LET n == NoteFile(dir, SourceOf[h]) IN IF n <= Len(dir) THEN dir[n].recs ELSE <<>>
  IN  [h \in {g \in Headings : HasRecord(RecsOf(g), g)} |-> RecsOf(h)[LowerBound(RecsOf(h), h)].body]

-----------------------------------------------------------------------------
(* Changes of a record's body. *)

Is(body, t, a)       == {i \in 1..Len(body) : body[i] = Line(t, a)}
Insert(body, at, ls) == Splice(body, at, at, ls)
Without(body, at)    == Splice(body, at, at + 1, <<>>)
BlockEnd(body, i)    == Min({Len(body) + 1} \union {j \in i + 1..Len(body) : ~IsIndented(body[j])})
Con(body, c)         == First(Is(body, "conj", c))

\* -p: the first conjecture c becomes a theorem, its proof the last line of its block.
Provable(body, c) == Con(body, c) # 0
Proved(body, c) ==
  Insert([body EXCEPT ![Con(body, c)] = Line("thm", c)], BlockEnd(body, Con(body, c)),
         <<Line("proof", 0)>>)

\* -a and -r: a theorem c that comes first, or no conjecture c, is an error.
Amendable(body, c) == Provable(body, c) /\ \A i \in Is(body, "thm", c) : i > Con(body, c)

\* Mutant: the When line is searched before the conjecture as well.
WhenAnywhere(body, c, f) == First(Is(body, "when", f))

\* The When line is searched in all of the record behind the conjecture.
WhenOf(body, c, f) == First({i \in Is(body, "when", f) : i > Con(body, c)})

\* -a: at the end of the block that has the When line, or else with a new one.
PremiseAdded(body, c, f, p) ==
  LET when == WhenOf(body, c, f) IN
  IF when # 0 THEN Insert(body, BlockEnd(body, when), <<Line("child", p)>>)
  ELSE Insert(body, BlockEnd(body, Con(body, c)), <<Line("when", f), Line("child", p)>>)

\* -r: the first such line between the When line and the end of its block.
Child(body, c, f, p) ==
  LET when == WhenOf(body, c, f) IN
  IF when = 0 THEN 0
  ELSE First({i \in Is(body, "child", p) : i \in when + 1..BlockEnd(body, when) - 1})
PremiseRemoved(body, c, f, p) ==
  LET when == WhenOf(body, c, f)  child == Child(body, c, f, p)
      rest == Without(body, child)
  IN  IF BlockEnd(body, when) > when + 2 THEN rest ELSE Without(rest, when)

-----------------------------------------------------------------------------
(* The commands. *)

NoWrite == [at |-> 0, old |-> Empty, new |-> Empty]

NotesInit == folder = <<>> /\ pending = NoWrite /\ noteStep = "idle" /\ notes = 0 /\ failures = 0

\* The new contents are ready; a file that is missing was created with the path.
Rewrite(h, rec) ==
  LET s == SourceOf[h]  at == NoteFile(folder, s)
      dir == IF at <= Len(folder) THEN folder ELSE Append(folder, File(s, <<>>))
      old == dir[at]
  IN  /\ notes' = notes + 1
      /\ folder' = dir
      /\ pending' = [at |-> at, old |-> old, new |-> File(old.path, Rewritten(old.recs, h, rec))]
      /\ noteStep' = "open"
      /\ UNCHANGED failures

\* What is noted of h: one body, or none.
NoteOf(h) ==
  LET found == RecordsFound(folder) IN IF h \in DOMAIN found THEN {found[h]} ELSE {}

\* note <vid> <text> and -c: appended, to a new record if there is none.
AppendNote(h, lines) ==
  \E body \in IF NoteOf(h) = {} THEN {<<>>} ELSE NoteOf(h) : Rewrite(h, <<Record(h, body \o lines)>>)

\* -d, -p, -a and -r: only a record that is there, and only if it has what is named.
DeleteNote(h) == NoteOf(h) # {} /\ Rewrite(h, <<>>)

ProveNote(h, c) ==
  \E body \in NoteOf(h) : Provable(body, c) /\ Rewrite(h, <<Record(h, Proved(body, c))>>)

AddPremise(h, c, f, p) ==
  \E body \in NoteOf(h) :
    Amendable(body, c) /\ Rewrite(h, <<Record(h, PremiseAdded(body, c, f, p))>>)

RemovePremise(h, c, f, p) ==
  \E body \in NoteOf(h) :
    /\ Amendable(body, c) /\ Child(body, c, f, p) # 0
    /\ Rewrite(h, <<Record(h, PremiseRemoved(body, c, f, p))>>)

\* std::ofstream file(path)
Truncate ==
  /\ noteStep = "open"
  /\ folder' = [folder EXCEPT ![pending.at] = Empty]
  /\ noteStep' = "truncated"
  /\ UNCHANGED <<pending, notes, failures>>

WriteBack ==
  /\ noteStep = "truncated"
  /\ folder' = [folder EXCEPT ![pending.at] = pending.new]
  /\ noteStep' = "idle" /\ pending' = NoWrite
  /\ UNCHANGED <<notes, failures>>

\* The disk is full, or the backend dies and another one is started.
WriteFails ==
  /\ noteStep # "idle" /\ failures < MaxFailures
  /\ failures' = failures + 1
  /\ noteStep' = "idle" /\ pending' = NoWrite
  /\ UNCHANGED <<folder, notes>>

Command(h) ==
  \/ AppendNote(h, <<Line("text", 0)>>)
  \/ DeleteNote(h)
  \/ \E c \in Props :
       \/ AppendNote(h, <<Line("conj", c), Line("dsc", 0)>>)
       \/ ProveNote(h, c)
       \/ \E f \in Premises, p \in Props : AddPremise(h, c, f, p) \/ RemovePremise(h, c, f, p)

\* A command is read when the one before it has been answered.
NotesNext ==
  \/ noteStep = "idle" /\ notes < MaxNotes /\ \E h \in Headings : Command(h)
  \/ Truncate \/ WriteBack \/ WriteFails

NotesSpec == NotesInit /\ [][NotesNext]_noteVars

-----------------------------------------------------------------------------
(* tv: the tree view of a proposition *)

\* getWhens, for the proposition at line i: each When line with the lines right below it.
PremisesAt(body, i) ==
  {<<body[r[1]].a, body[r[2]].a>> : r \in
     {q \in (i + 1..BlockEnd(body, i) - 1) \X (i + 1..BlockEnd(body, i) - 1) :
        /\ q[1] < q[2] /\ body[q[1]].t = "when"
        /\ \A j \in q[1] + 1..q[2] : body[j].t = "child"}}

\* isTheorem and getWhens look at the first conjecture or theorem of the name.
Proposition(body, p) == First(Is(body, "conj", p) \union Is(body, "thm", p))

\* The recursion works on the records that are found: "found" is RecordsFound(folder).
IsNoted(found, key) == key[1] \in DOMAIN found /\ Proposition(found[key[1]], key[2]) # 0
IsProved(found, key) ==
  IsNoted(found, key) /\ found[key[1]][Proposition(found[key[1]], key[2])].t = "thm"
Whens(found, key) ==
  IF IsNoted(found, key)
  THEN PremisesAt(found[key[1]], Proposition(found[key[1]], key[2])) ELSE {}

Nodes == (Headings \union {0}) \X Props

\* Mutant: a premise counts as proven when it is a theorem.
ResolveShallow(found, key) ==
  LET below == Whens(found, key) IN
  IF \E k \in below \union {key} : k[1] = 0 \/ key \in Whens(found, k) THEN "throws"
  ELSE IF ~IsProved(found, key) THEN "unproven"
  ELSE IF \A k \in below : IsProved(found, k) THEN "proven" ELSE "conditional-proven"

\* resolve: a recursion that throws at an ancestor and at a name that no
\* function or global variable has.
Resolve(found, key) ==
  LET Of[p \in (SUBSET Nodes) \X Nodes] ==
        LET ances == p[1]  k == p[2] IN
        IF k \in ances \/ k[1] \notin Headings \ StructHeadings THEN "throws"
        ELSE LET below == {Of[<<ances \union {k}, child>>] : child \in Whens(found, k)} IN
             IF "throws" \in below THEN "throws"
             ELSE IF ~IsProved(found, k) THEN "unproven"
             ELSE IF below \subseteq {"proven"} THEN "proven" ELSE "conditional-proven"
  IN  Of[<<{}, key>>]

-----------------------------------------------------------------------------
(* Properties. *)

(***************************************************************************)
(* "suppose note file is ordered by llvm name ascending"                   *)
(* (QueryInterface.cpp:756): the binary search may suppose it, whatever was*)
(* inserted, deleted or lost; each file has the notes of one source, and   *)
(* no source has two files.                                                *)
(***************************************************************************)
NotesOrdered ==
  \A n \in 1..Len(folder) :
    LET file == folder[n] IN
    /\ \A i \in 1..Len(file.recs) :
         /\ SourceOf[file.recs[i].head] = file.path
         /\ \A j \in i + 1..Len(file.recs) : file.recs[i].head < file.recs[j].head
    /\ file # Empty => \A m \in n + 1..Len(folder) : folder[m].path # file.path

\* Everything that a proposition rests on.
RestsOn(found, key) ==
  LET Reach[n \in 0..Cardinality(Nodes)] ==
        IF n = 0 THEN Whens(found, key)
        ELSE LET S == Reach[n - 1] IN S \union UNION {Whens(found, k) : k \in S}
  IN  Reach[Cardinality(Nodes)]

(***************************************************************************)
(* The tree view is right: it is refused exactly if the proposition rests, *)
(* at whatever distance, on itself, on something that does or on a name    *)
(* that no function or global has; otherwise "proven" means that everything*)
(* it rests on is proved, "unproven" that it is no theorem.                *)
(***************************************************************************)
TreeTrue ==
  noteStep = "idle" =>
    LET found == RecordsFound(folder) IN
    \A key \in {k \in Nodes : IsNoted(found, k)} :
      LET below == RestsOn(found, key)  status == Resolve(found, key) IN
      /\ (status = "throws") <=>
           \E k \in below \union {key} : k[1] \notin Headings \ StructHeadings \/ k \in RestsOn(found, k)
      /\ status # "throws" =>
           /\ (status = "proven") <=> \A k \in below \union {key} : IsProved(found, k)
           /\ (status = "unproven") <=> ~IsProved(found, key)

\* The folder, a write counting when it is complete.
Settled == IF noteStep = "truncated" THEN [folder EXCEPT ![pending.at] = pending.old] ELSE folder

BlockStarts(body) == {i \in 1..Len(body) : ~IsIndented(body[i])}
BlockAt(body, i)  == [kind |-> body[i].t, name |-> body[i].a, premises |-> PremisesAt(body, i)]

\* A record as the note book has it: a block for each line that is not indented, in their order.
BlocksOf(body) ==
  LET starts == BlockStarts(body)
      Nth(n) == CHOOSE i \in starts : Cardinality({j \in starts : j <= i}) = n
  IN  [n \in 1..Cardinality(starts) |-> BlockAt(body, Nth(n))]

\* The choice is from one book; this way TLC reads the folder once.
BookOf(dir) ==
  CHOOSE b \in {[h \in DOMAIN found |-> BlocksOf(found[h])] : found \in {RecordsFound(dir)}} : TRUE

Book == INSTANCE NoteBook WITH book <- BookOf(Settled)

(***************************************************************************)
(* The files implement the note book: a command on one record is never     *)
(* seen in another one, of the same file or not, no proposition changes    *)
(* its status but by its own proof, and a failed or interrupted write      *)
(* loses at most the file it was about, as a whole.                        *)
(***************************************************************************)
KeepsNotes == Book!Spec

\* The blocks with one premise more in one of them.
WithPremise(blocks, n, pair) == [blocks EXCEPT ![n].premises = @ \union {pair}]

\* The lines of the block that line i begins, and its place among the blocks.
LinesBelow(body, i)  == i + 1..BlockEnd(body, i) - 1
BlockNumber(body, i) == Cardinality({j \in BlockStarts(body) : j <= i})

\* The notes that are found between two commands, with the conjectures that -a and -r take.
AmendableNotes ==
  LET found == IF noteStep = "idle" THEN RecordsFound(folder) ELSE [h \in {} |-> <<>>] IN
  UNION {{<<found[h], c>> : c \in {d \in Props : Amendable(found[h], d)}} : h \in DOMAIN found}

(***************************************************************************)
(* -a is to "add a proposition ... as premise to a conjecture"             *)
(* (QueryInterface.cpp:437-439): to the one it names, under the function it*)
(* names, and to no other, least of all to a theorem, which "cannot        *)
(* add/remove premise" (:923).  It does not: the When line is searched to  *)
(* the end of the record, and the new line goes to the end of the block    *)
(* that has it, below the last When line there, whichever that is.         *)
(***************************************************************************)
PremisesAsNamed ==
  \A note \in AmendableNotes, f \in Premises, p \in Props :
    LET body == note[1]  c == note[2] IN
    BlocksOf(PremiseAdded(body, c, f, p)) =
      WithPremise(BlocksOf(body), BlockNumber(body, Con(body, c)), <<f, p>>)

\* The last When line of the conjecture, and no other, is that of f; or none from there on is.
Untangled(body, c, f) ==
  LET con == Con(body, c)  own == Is(body, "when", f) \cap LinesBelow(body, con) IN
  \/ \E i \in own : own = {i} /\ \A j \in i + 1..BlockEnd(body, con) - 1 : body[j].t = "child"
  \/ \A i \in Is(body, "when", f) : i < con

(***************************************************************************)
(* What is kept of that.  Where the When lines are not in each other's way,*)
(* -a adds the premise that was named to the conjecture that was named, -r *)
(* takes it out of there, for good if it was listed once, and both leave   *)
(* all other premises of all propositions alone.                           *)
(***************************************************************************)
PremisesNamed ==
  \A note \in AmendableNotes, f \in Premises :
    LET body == note[1]  c == note[2]  con == Con(body, c)  n == BlockNumber(body, con) IN
    Untangled(body, c, f) => \A p \in Props :
      /\ BlocksOf(PremiseAdded(body, c, f, p)) = WithPremise(BlocksOf(body), n, <<f, p>>)
      /\ Child(body, c, f, p) # 0 =>
           LET left == BlocksOf(PremiseRemoved(body, c, f, p)) IN
           /\ BlocksOf(body) = WithPremise(left, n, <<f, p>>)
           /\ Is(body, "child", p) \cap LinesBelow(body, con) = {Child(body, c, f, p)}
                => <<f, p>> \notin left[n].premises
=============================================================================
