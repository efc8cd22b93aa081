------------------------------ MODULE HookTrace ------------------------------
(***************************************************************************)
(* What the hook runtime promises, without its buffer and its tables: the  *)
(* program pushes records, and once the runtime is ready an execution that *)
(* is not killed leaves one report, computed from all the records pushed   *)
(* before it, as a function of their order alone.                          *)
(***************************************************************************)
EXTENDS Integers, Sequences

CONSTANTS Records, Mode, K, BBCtxPlusOne, CGCtxPlusOne, MaxPush

VARIABLES
  pushed,  \* the records pushed so far
  report,  \* what the dump files hold: NoReport, or rows for each mode
  status,  \* "starting", "ready" or "ended"
  killed

traceVars == <<pushed, report, status, killed>>

NoReport == [m \in {"none"} |-> {}]

-----------------------------------------------------------------------------
(* The meaning of a sequence of records. *)

\* The windows of w items ending at each item of s, padded with blanks.
WindowsOf(w, blank, s) ==
  LET padded == [i \in 1..w |-> blank] \o s
  IN  {SubSeq(padded, i + 1, i + w) : i \in 1..Len(s)}

\* The items of q at the positions in I, in their order.
Picked(q, I) ==
  LET Upto[n \in 0..Len(q)] ==
        IF n = 0 THEN <<>>
        ELSE IF n \in I THEN Append(Upto[n - 1], q[n]) ELSE Upto[n - 1]
  IN  Upto[Len(q)]

\* The positions before i of the records of a kind.
Before(s, i, action) == {j \in 1..i - 1 : s[j].action = action}

BlocksOf(s) ==
  Picked([j \in 1..Len(s) |-> s[j].size], Before(s, Len(s) + 1, "BLOCK"))

\* What is recorded of a number that is passed.
ArgOf(r) ==
  [kind |-> IF r.ptr > 0 THEN "POS" ELSE IF r.ptr < 0 THEN "NEG" ELSE "ZERO", vals |-> <<>>]

\* The arguments pushed for the function entered at position i: those after
\* the last record that clears or takes arguments.
Pending(s, i) ==
  {j \in Before(s, i, "ARG") :
     \A k \in Before(s, i, "ARGCLEAR") \union Before(s, i, "BEGIN") : k < j}

ArgsAt(s, i) == Picked([j \in 1..Len(s) |-> ArgOf(s[j])], Pending(s, i))

EntersOf(s) ==
  Picked([j \in 1..Len(s) |-> [vid |-> s[j].vid, args |-> ArgsAt(s, j)]],
         Before(s, Len(s) + 1, "BEGIN"))

\* The functions entered before position i.
CalledAt(s, i) == Picked([j \in 1..Len(s) |-> s[j].vid], Before(s, i, "BEGIN"))

\* The position of the region at address b that a probe at position i sees.
RegionAt(s, i, b) ==
  {j \in Before(s, i, "REGION") :
     /\ s[j].ptr = b
     /\ \A k \in j + 1 .. i - 1 : s[k].action \in {"REGION", "FREE"} => s[k].ptr # b}

\* The addresses at which it sees a region.
LiveAt(s, i) == {b \in {s[j].ptr : j \in Before(s, i, "REGION")} : RegionAt(s, i, b) # {}}

\* A probe at position i points to the region with the nearest base, if it
\* reaches that far, in the context of the first K functions entered.
EdgesAt(s, i) ==
  LET near   == {b \in LiveAt(s, i) : b <= s[i].ptr}
      inside == {b \in near : /\ \A c \in near : c <= b
                              /\ \A j \in RegionAt(s, i, b) : s[i].ptr < b + s[j].size}
      called == CalledAt(s, i)
      depth  == IF Len(called) < K THEN Len(called) ELSE K
  IN  {<<s[i].vid, s[j].vid, [d \in 1..depth |-> called[d]]>> :
         j \in UNION {RegionAt(s, i, b) : b \in inside}}

EdgesOf(s) == UNION {EdgesAt(s, i) : i \in Before(s, Len(s) + 1, "PROBE")}

RowsOf(m, s) ==
  CASE m = "ptr" -> EdgesOf(s)
    [] m = "bb"  -> WindowsOf(BBCtxPlusOne, -1, BlocksOf(s))
    [] m = "cg"  -> WindowsOf(CGCtxPlusOne, [vid |-> -1, args |-> <<>>], EntersOf(s))

-----------------------------------------------------------------------------

Init ==
  /\ pushed = <<>>
  /\ report = NoReport
  /\ status = "starting"
  /\ killed = FALSE

Push(r) ==
  /\ status # "ended"
  /\ Len(pushed) < MaxPush
  /\ pushed' = Append(pushed, r)
  /\ UNCHANGED <<report, status, killed>>

Ready ==
  /\ status = "starting"
  /\ status' = "ready"
  /\ UNCHANGED <<pushed, report, killed>>

\* The files that can be opened get what all records so far amount to.
Dump ==
  /\ status = "ready"
  /\ report = NoReport
  /\ \E opened \in SUBSET Mode :
       report' = [m \in Mode |-> IF m \in opened
                                 THEN [state |-> "complete", rows |-> RowsOf(m, pushed)]
                                 ELSE [state |-> "failed", rows |-> {}]]
  /\ UNCHANGED <<pushed, status, killed>>

\* Return, exit() or a signal: not without the report once the runtime is ready.
Finish ==
  /\ status # "ended"
  /\ status = "ready" => report # NoReport
  /\ status' = "ended"
  /\ UNCHANGED <<pushed, report, killed>>

Kill ==
  /\ status # "ended"
  /\ status' = "ended"
  /\ killed' = TRUE
  /\ UNCHANGED <<pushed, report>>

Next == (\E r \in Records : Push(r)) \/ Ready \/ Dump \/ Finish \/ Kill

Spec == Init /\ [][Next]_traceVars
=============================================================================
