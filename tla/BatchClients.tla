---------------------------- MODULE BatchClients ----------------------------
(***************************************************************************)
(* The programs around the batch runner: compile.py, which compiles what is*)
(* not up to date, and runTestForDump.py, which has an analyzer judge      *)
(* dumps ("pts-test") and reads the verdict off its output.                *)
(*                                                                         *)
(* How the process of a source ends, if it does, is fixed at the start.    *)
(* A dump's process is the backend: it prints <init>, the block of the one *)
(* query, and the block of one more, empty query when its input ends; each *)
(* may be the last thing that gets out.                                    *)
(***************************************************************************)
EXTENDS BatchRunner

CONSTANTS
  LeftOut,    \* sources that are not run, in order: skipped, or dumps without a module
  Scenarios,  \* for each client, how the processes of the sources end
  Formats     \* how the analyzer prints its counts: "lines", or "fraction"

VARIABLES
  ends,       \* how the process of a source ends
  format,     \* of the analyzer
  tally,      \* compile.py: ok, fail, skip
  records, failures, errors, errorCounts, rows,  \* runTestForDump.py: as in main
  finalized,  \* calls of done_line
  exit        \* the exit status, or "none"
tableVars   == <<tally, records, failures, errors, errorCounts, rows>>
clientVars  == <<ends, format, tableVars, finalized, exit>>
batchVars   == <<vars, clientVars>>

ErrorLabels ==
  {"INIT_NAMED", "INIT_ERROR", "INIT_SEGFAULT", "INIT_ABORT", "INIT_OTHER",
   "QUERY_NAMED", "QUERY_ERROR", "QUERY_EMPTY", "QUERY_SEGFAULT", "QUERY_ABORT", "QUERY_OTHER",
   "TIMEOUT", "MISSING"}

\* An end of a backend: what of its output was seen.  "error" has a unique name, "ERROR" none.
BackendEnd(init, answer, empty, rc, fails) ==
  [init |-> init, answer |-> answer, empty |-> empty, rc |-> rc, fails |-> fails]
BackendEnds ==
  {BackendEnd(i, "none", FALSE, "1", 0) : i \in {"error", "ERROR", "none"}}
  \union {BackendEnd(is[1], "none", FALSE, is[2], 0) : is \in {"none", "done"} \X {"SIGSEGV", "SIGABRT", "SIGTERM"}}
  \union {BackendEnd("done", a, TRUE, "0", 0) : a \in {"error", "ERROR"}}
  \union {BackendEnd("done", "counts", TRUE, "0", n) : n \in 0..2}
  \union {BackendEnd("done", "counts", e, "SIGSEGV", 0) : e \in BOOLEAN}
  \union {BackendEnd("done", "bytes", TRUE, "0", 0)}

ASSUME ClientsAssumption ==
  /\ Len(LeftOut) \in Nat
  /\ \A i \in 1..Len(LeftOut) :
       LeftOut[i] \notin Sources /\ \A j \in 1..Len(LeftOut) : LeftOut[i] = LeftOut[j] => i = j
  /\ Formats \subseteq {"lines", "fraction"}
  /\ "compile" \in Clients => Scenarios["compile"] \subseteq [Sources -> {"OK", "FAIL", "undecodable"}]
  /\ "dump" \in Clients => Scenarios["dump"] \subseteq [Sources -> BackendEnds]

-----------------------------------------------------------------------------
(* runTestForDump.py: the verdict. *)

\* classify_error: the first tag of an exception, the empty query's too; then the signal.
ClassifyError(e) ==
  LET In(init, query) == IF e.init = "done" THEN query ELSE init IN
  CASE e.init = "error"   -> "INIT_NAMED"
    [] e.init = "ERROR"   -> "INIT_ERROR"
    [] e.answer = "error" -> "QUERY_NAMED"
    [] e.answer = "ERROR" -> "QUERY_ERROR"
    [] OTHER ->
         IF e.empty THEN "QUERY_EMPTY"
         ELSE CASE e.rc = "SIGSEGV" -> In("INIT_SEGFAULT", "QUERY_SEGFAULT")
                [] e.rc = "SIGABRT" -> In("INIT_ABORT", "QUERY_ABORT")
                [] OTHER            -> In("INIT_OTHER", "QUERY_OTHER")

\* Mutant: the exit status is not looked at.
MatchesAnyExit(e) == e.answer = "counts" /\ format = "fraction"

\* The exit status, and "Fail=n/m" in the first line of the answer.
Matches(e) == e.rc = "0" /\ e.answer = "counts" /\ format = "fraction"

\* run_one: the status of a process that ended in time.
StatusOf(e) == IF ~Matches(e) THEN ClassifyError(e) ELSE IF e.fails = 0 THEN "OK" ELSE "FAIL"

-----------------------------------------------------------------------------
(* The main programs. *)

Row(s, status) == [src |-> s, status |-> status]

\* An entry of the table of errors, its count and its row; the others' rows alone.
Fails(s, label) ==
  /\ errors' = Append(errors, Row(s, label))
  /\ errorCounts' = [errorCounts EXCEPT ![label] = @ + 1]
  /\ rows' = Append(rows, Row(s, label))

\* What run() is called with: what can be run.  The rest is reported before.
ClientInit ==
  /\ Init
  /\ ends \in Scenarios[client]
  /\ format \in IF client = "dump" THEN Formats ELSE {"lines"}
  /\ finalized = Len(LeftOut)
  /\ tally = [ok |-> 0, fail |-> 0, skip |-> IF client = "compile" THEN Len(LeftOut) ELSE 0]
  /\ records = <<>> /\ failures = <<>>
  /\ errors = IF client = "dump" THEN [i \in 1..Len(LeftOut) |-> Row(LeftOut[i], "MISSING")] ELSE <<>>
  /\ rows = errors
  /\ errorCounts = [l \in ErrorLabels |-> IF l = "MISSING" THEN Len(errors) ELSE 0]
  /\ exit = "none"

\* compile.py: whatever is not OK has failed.
CompileResult(status) ==
  /\ tally' = IF status = "OK" THEN [tally EXCEPT !.ok = @ + 1] ELSE [tally EXCEPT !.fail = @ + 1]
  /\ UNCHANGED <<records, failures, errors, errorCounts, rows>>

\* Mutant: a dump with failures has no row.
DumpFailedNoRow(s) ==
  /\ records' = Append(records, <<s, ends[s].fails>>)
  /\ failures' = Append(failures, <<s, ends[s].fails>>)
  /\ UNCHANGED <<errors, errorCounts, rows>>

\* runTestForDump.py: a record, and with failures an entry of their table.
DumpFailed(s) ==
  /\ records' = Append(records, <<s, ends[s].fails>>)
  /\ failures' = Append(failures, <<s, ends[s].fails>>)
  /\ rows' = Append(rows, Row(s, "FAIL"))
  /\ UNCHANGED <<errors, errorCounts>>
DumpPassed(s) ==
  /\ records' = Append(records, <<s, 0>>)
  /\ rows' = Append(rows, Row(s, "OK"))
  /\ UNCHANGED <<failures, errors, errorCounts>>
DumpResult(s, status) ==
  /\ CASE status = "TIMEOUT" -> Fails(s, "TIMEOUT") /\ UNCHANGED <<records, failures>>
       [] status # "TIMEOUT" ->
            CASE StatusOf(ends[s]) = "OK"   -> DumpPassed(s)
              [] StatusOf(ends[s]) = "FAIL" -> DumpFailed(s)
              [] OTHER -> Fails(s, StatusOf(ends[s])) /\ UNCHANGED <<records, failures>>
  /\ UNCHANGED tally

OnResult(call) ==
  /\ IF client = "compile" THEN CompileResult(call[2]) ELSE DumpResult(call[1], call[2])
  /\ finalized' = finalized + 1

\* run() takes a step; on_result is called in it.
Runs ==
  /\ Main
  /\ IF reported' = reported THEN UNCHANGED <<tableVars, finalized>> ELSE OnResult(reported'[Len(reported')])
  /\ UNCHANGED <<ends, format, exit>>

\* The process ends; the runner knows it as OK, as something else, or not at all.
HowOf(e) ==
  IF client = "compile" THEN e ELSE IF e.answer = "bytes" THEN "undecodable"
  ELSE IF StatusOf(e) = "OK" THEN "OK" ELSE "FAIL"
ProcessEnds(s) == ChildEnds(s, HowOf(ends[s])) /\ UNCHANGED clientVars
Waits(s)       == Worker(s) /\ UNCHANGED clientVars

\* The summary is printed; compile.py tells nobody how it went.
Summary ==
  /\ main \in {"ended", "crashed"} /\ exit = "none"
  /\ exit' = CASE main = "crashed" -> "1"
               [] main = "ended" /\ client = "compile" -> "0"
               [] main = "ended" /\ client = "dump" -> IF failures # <<>> \/ errors # <<>> THEN "1" ELSE "0"
  /\ UNCHANGED <<vars, ends, format, tableVars, finalized>>

ClientNext == Runs \/ Summary \/ \E s \in Sources : ProcessEnds(s) \/ Waits(s)

ClientSpec == ClientInit /\ [][ClientNext]_batchVars

\* Threads run and time passes; no process has to end by itself.
FairClientSpec ==
  ClientSpec /\ WF_batchVars(Runs) /\ WF_batchVars(Summary) /\ \A s \in Sources : WF_batchVars(Waits(s))

-----------------------------------------------------------------------------
(* Properties. *)

RowsOf(s)      == {i \in 1..Len(rows) : rows[i].src = s}
Judged(status) == {rows[i].src : i \in {j \in 1..Len(rows) : rows[j].status = status}}
LeftOutSet     == {LeftOut[i] : i \in 1..Len(LeftOut)}

(***************************************************************************)
(* The tables tell one story when the program exits, in whatever order the *)
(* results came: each dump has one row, the errors, their counts, the      *)
(* failures and the records are those of the rows, the progress has reached*)
(* the total, and the status is 0 only if every dump passed; compile.py's  *)
(* counts add up.                                                          *)
(***************************************************************************)
RunSummed ==
  (exit # "none" /\ main = "ended") =>
    LET All == Sources \union LeftOutSet IN
    /\ finalized = Cardinality(All)
    /\ client = "compile" =>
         /\ tally.ok + tally.fail + tally.skip = Cardinality(All)
         /\ tally.ok = Cardinality({s \in Sources : attempts[s][Len(attempts[s])] = "OK"})
    /\ client = "dump" =>
         /\ \A s \in All : Cardinality(RowsOf(s)) = 1
         /\ {e.src : e \in {errors[i] : i \in 1..Len(errors)}} = UNION {Judged(l) : l \in ErrorLabels}
         /\ \A l \in ErrorLabels : errorCounts[l] = Cardinality(Judged(l))
         /\ {f[1] : f \in {failures[i] : i \in 1..Len(failures)}} = Judged("FAIL")
         /\ {r[1] : r \in {records[i] : i \in 1..Len(records)}} = Judged("FAIL") \union Judged("OK")
         /\ exit = "0" <=> Judged("OK") = All

(***************************************************************************)
(* The verdict on a dump is never better than what its process did, and an *)
(* error is put into the right phase: "<init> is emitted only after init() *)
(* returns, so its presence means the failure happened while serving a     *)
(* query, not during initialization" (runTestForDump.py:108).              *)
(***************************************************************************)
VerdictsTrue ==
  client = "dump" =>
    \A i \in 1..Len(rows) :
      LET l == rows[i].status  e == ends[rows[i].src] IN
      rows[i].src \in Sources /\ l # "TIMEOUT" =>
        /\ l \in {"OK", "FAIL"} => e.rc = "0" /\ e.answer = "counts" /\ (l = "OK" <=> e.fails = 0)
        /\ l \in {"INIT_NAMED", "INIT_ERROR", "INIT_SEGFAULT", "INIT_ABORT", "INIT_OTHER"} <=> e.init # "done"
        /\ l \in {"INIT_SEGFAULT", "QUERY_SEGFAULT"} => e.rc = "SIGSEGV"

(***************************************************************************)
(* classify_error is there to "Split a non-OK exit into init/query-phase   *)
(* segfault/abort/error/other" (runTestForDump.py:106): a dump whose query  *)
(* was answered by a process that ended well is judged OK or FAIL.         *)
(***************************************************************************)
AnswersJudged ==
  client = "dump" =>
    \A i \in 1..Len(rows) :
      (rows[i].src \in Sources /\ rows[i].status # "TIMEOUT"
        /\ ends[rows[i].src].rc = "0" /\ ends[rows[i].src].answer = "counts")
      => rows[i].status \in {"OK", "FAIL"}
=============================================================================
