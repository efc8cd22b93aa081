----------------------------- MODULE MCPtaHook -----------------------------
(* Constants and the constraint of the run of PtaHook. *)
EXTENDS PtaHook

R(action, vid, ptr, size) == [action |-> action, vid |-> vid, ptr |-> ptr, size |-> size]

\* Both modes' tables are touched, by records that are legal in any order, and
\* objects overlap, go and come back.
SomeRecords ==
  {R("BLOCK", 0, 0, 1), R("BEGIN", 11, 0, 0), R("BEGIN", 12, 0, 0),
   R("REGION", 21, 4, 2), R("REGION", 22, 5, 1), R("FREE", 0, 4, 0),
   R("PROBE", 31, 5, 0), R("ARG", 0, 1, 0)}

\* Bound: where a signal meets a hook call or a file does not open, the program
\* pushes nothing but entries of functions.
OnlyEntriesInTrouble ==
  interrupted \/ (\E m \in Mode : files[m].state = "failed") =>
    \A n \in 1..Len(pushed) : pushed[n].action = "BEGIN"
=============================================================================
