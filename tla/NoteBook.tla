------------------------------ MODULE NoteBook ------------------------------
(***************************************************************************)
(* What the "note" commands promise and keep: a note book with one record  *)
(* for each function, struct or global.  A command changes one record and  *)
(* leaves all others alone; a conjecture becomes a theorem by a proof only;*)
(* and the commands for premises change nothing but premises.  Which ones, *)
(* is no matter of the book: PremisesAsNamed and PremisesNamed (Notes) say *)
(* what is promised of that and what is kept.  A failed or interrupted     *)
(* write may lose the notes of one source file, and nothing else.          *)
(***************************************************************************)
EXTENDS Naturals, Sequences

CONSTANTS
  Headings,  \* what notes are about, in the order of their names
  SourceOf,  \* the source file of each
  Props      \* the names of conjectures and theorems

VARIABLE book  \* the blocks of each record; a heading without a record is not in its domain

\* A line of text, a conjecture or a theorem, with the premises listed below it.
Plain(kind, name) == [kind |-> kind, name |-> name, premises |-> {}]
Has(rec, kind, c, I) == \E i \in I : rec[i].kind = kind /\ rec[i].name = c
Titles(rec) == [i \in DOMAIN rec |-> <<rec[i].kind, rec[i].name>>]

Init == book = [h \in {} |-> <<>>]

\* What commands make of a record.
Proved(rec, c) ==
  {[rec EXCEPT ![i].kind = "thm"] :
     i \in {j \in 1..Len(rec) : Has(rec, "conj", c, {j}) /\ ~Has(rec, "conj", c, 1..j - 1)}}

\* A book without the records of S, and books that differ in the record of h only.
Without(b, S) == [h \in DOMAIN b \ S |-> b[h]]
OnlyAt(b, n, h) == h \in DOMAIN n /\ Without(b, {h}) = Without(n, {h})

\* From the book b to the book n.
Step(b, n) ==
  \/ \E h \in Headings :
       /\ OnlyAt(b, n, h)
       /\ LET old == IF h \in DOMAIN b THEN b[h] ELSE <<>>  new == n[h] IN
          \/ new = Append(old, Plain("text", 0))
          \/ \E c \in Props : new = Append(old, Plain("conj", c)) \/ new \in Proved(old, c)
          \/ h \in DOMAIN b /\ Titles(new) = Titles(old)  \* other premises
  \/ \E h \in DOMAIN b : n = Without(b, {h})                                      \* deleted
  \/ \E h \in Headings : n = Without(b, {g \in Headings : SourceOf[g] = SourceOf[h]}) \* lost

\* The book as it is and as it becomes.
Next == \E b \in {book}, n \in {book'} : b # n /\ Step(b, n)

Spec == Init /\ [][Next]_book
=============================================================================
