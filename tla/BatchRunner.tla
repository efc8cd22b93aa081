---------------------------- MODULE BatchRunner ----------------------------
(***************************************************************************)
(* ParallelHelper and run_process (src/python/parallel.py) as compile.py   *)
(* and runTestForDump.py use them: the main thread submits all pending     *)
(* items of a timeout step to a thread pool and takes their results as     *)
(* they come; a pool thread starts a process group, waits for it, and      *)
(* kills it when the time is up.                                           *)
(***************************************************************************)
EXTENDS Naturals, Sequences, FiniteSets

CONSTANTS
  Sources,     \* what the items are about: source files or dumps
  MaxWorkers,  \* max_workers, or the number of processors
  Clients,     \* the programs that may use the helper
  Steps        \* the number of timeout steps of each of them

ASSUME BatchAssumption ==
  /\ IsFiniteSet(Sources)
  /\ MaxWorkers \in Nat \ {0}
  /\ Clients \subseteq {"compile", "dump"}
  /\ Steps \in [Clients -> Nat \ {0}]

VARIABLES
  client,    \* the program
  main,      \* where run() is
  step,      \* timeout steps begun
  pending,   \* items of this step
  still,     \* items whose run timed out in this step
  fut,       \* the future of a source
  result,    \* what it returned or raised
  child,     \* the process group its thread waits for
  reported,  \* the calls of on_result
  attempts   \* history: how the runs of a source ended

futVars == <<fut, result, child, attempts>>
vars == <<client, main, step, pending, still, reported, futVars>>

\* Both programs make their items pairs: (src, cmd) and (dump, module).
Item(s, isPair) == [src |-> s, isPair |-> isPair]
Result(status, isPair) == [status |-> status, isPair |-> isPair]
NoResult == Result("none", FALSE)
Named(items) == {item.src : item \in items}

Init ==
  /\ client \in Clients
  /\ main = "step" /\ step = 0
  /\ pending = {Item(s, TRUE) : s \in Sources}
  /\ still = {}
  /\ fut = [s \in Sources |-> "none"]
  /\ result = [s \in Sources |-> NoResult]
  /\ child = [s \in Sources |-> "none"]
  /\ reported = <<>>
  /\ attempts = [s \in Sources |-> <<>>]

-----------------------------------------------------------------------------
(* A pool thread: runner, run_one and run_process. *)

\* min(workers, pending), at least one
WorkerCount == IF Cardinality(pending) < MaxWorkers THEN Cardinality(pending) ELSE MaxWorkers
Running     == {s \in Sources : fut[s] = "running"}

\* The future of s is done.
Completes(s, how, res) ==
  /\ fut' = [fut EXCEPT ![s] = "done"]
  /\ result' = [result EXCEPT ![s] = res]
  /\ attempts' = [attempts EXCEPT ![s] = Append(@, how)]

\* The process group is started.
StartTask(s) ==
  /\ fut[s] = "queued" /\ Item(s, TRUE) \in pending
  /\ Cardinality(Running) < WorkerCount
  /\ fut' = [fut EXCEPT ![s] = "running"]
  /\ child' = [child EXCEPT ![s] = "alive"]
  /\ UNCHANGED <<client, main, step, pending, still, reported, result, attempts>>

\* "src, cmd = item" when the item is not a pair.
UnpackFails(s) ==
  /\ fut[s] = "queued" /\ Item(s, FALSE) \in pending
  /\ Cardinality(Running) < WorkerCount
  /\ Completes(s, "TypeError", Result("raises", FALSE))
  /\ UNCHANGED <<client, main, step, pending, still, reported, child>>

\* The processes end: well, with an error, or after output that is no text.
ChildEnds(s, how) ==
  /\ child[s] = "alive"
  /\ child' = [child EXCEPT ![s] = how]
  /\ UNCHANGED <<client, main, step, pending, still, reported, fut, result, attempts>>

\* communicate() returns, or raises because it cannot decode the output.
Communicated(s) ==
  /\ fut[s] = "running" /\ child[s] \in {"OK", "FAIL", "undecodable"}
  /\ child' = [child EXCEPT ![s] = "none"]
  /\ Completes(s, child[s], Result(IF child[s] = "undecodable" THEN "raises" ELSE child[s], FALSE))
  /\ UNCHANGED <<client, main, step, pending, still, reported>>

\* Mutant: the group is not killed and nobody waits for it.
TimeoutExpiresOnly(s) ==
  /\ fut[s] = "running" /\ child[s] # "killed"
  /\ Completes(s, "TIMEOUT", Result("TIMEOUT", FALSE))
  /\ UNCHANGED <<client, main, step, pending, still, reported, child>>

\* Mutant: no timeout is given.
TimeoutExpiresNever(s) == FALSE /\ s \in Sources /\ UNCHANGED vars

\* communicate() raises TimeoutExpired: the group, dead or alive, is killed.
TimeoutExpires(s) ==
  /\ fut[s] = "running" /\ child[s] # "killed"
  /\ child' = [child EXCEPT ![s] = "killed"]
  /\ UNCHANGED <<client, main, step, pending, still, reported, fut, result, attempts>>

\* The killed group is waited for; the result names the source only.
Reap(s) ==
  /\ fut[s] = "running" /\ child[s] = "killed"
  /\ child' = [child EXCEPT ![s] = "none"]
  /\ Completes(s, "TIMEOUT", Result("TIMEOUT", FALSE))
  /\ UNCHANGED <<client, main, step, pending, still, reported>>

-----------------------------------------------------------------------------
(* The main thread: run(). *)

StepBegin ==
  /\ main = "step" /\ pending # {} /\ step < Steps[client]
  /\ step' = step + 1
  /\ still' = {}
  /\ fut' = [s \in Sources |-> IF s \in Named(pending) THEN "queued" ELSE "none"]
  /\ main' = "collect"
  /\ UNCHANGED <<client, pending, reported, result, child, attempts>>

\* Mutant: a timeout is reported in each step.
KeepsAndReportsTimeout(s) ==
  /\ still' = still \union {Item(s, result[s].isPair)}
  /\ reported' = Append(reported, <<s, "TIMEOUT">>)

\* A timeout is kept for the next step, with the item that the result names.
KeepsTimeout(s) ==
  /\ still' = still \union {Item(s, result[s].isPair)}
  /\ UNCHANGED reported

\* as_completed yields a future, in whatever order they complete.
Collect(s) ==
  /\ main = "collect" /\ fut[s] = "done"
  /\ fut' = [fut EXCEPT ![s] = "none"]
  /\ CASE result[s].status = "raises"  -> main' = "drain" /\ UNCHANGED <<still, reported>>
       [] result[s].status = "TIMEOUT" -> KeepsTimeout(s) /\ UNCHANGED main
       [] OTHER -> /\ reported' = Append(reported, <<s, result[s].status>>)
                   /\ UNCHANGED <<main, still>>
  /\ UNCHANGED <<client, step, pending, result, child, attempts>>

\* The pool is shut down, and the next step takes what timed out.
StepEnd ==
  /\ main = "collect" /\ \A s \in Sources : fut[s] = "none"
  /\ pending' = still
  /\ main' = "step"
  /\ UNCHANGED <<client, step, still, reported, futVars>>

\* An exception leaves the with statement: all futures run to their end first.
Crash ==
  /\ main = "drain" /\ \A s \in Sources : fut[s] \in {"none", "done"}
  /\ main' = "crashed"
  /\ UNCHANGED <<client, step, pending, still, reported, futVars>>

\* What timed out in the last step, too, is reported now.
ReportTimeout(s) ==
  /\ main = "step" /\ step = Steps[client]
  /\ \E item \in pending : item.src = s /\ pending' = pending \ {item}
  /\ reported' = Append(reported, <<s, "TIMEOUT">>)
  /\ UNCHANGED <<client, main, step, still, futVars>>

End ==
  /\ main = "step" /\ pending = {}
  /\ main' = "ended"
  /\ UNCHANGED <<client, step, pending, still, reported, futVars>>

-----------------------------------------------------------------------------

Worker(s) ==
  \/ StartTask(s) \/ UnpackFails(s) \/ Communicated(s) \/ TimeoutExpires(s) \/ Reap(s)
Child(s) == \E how \in {"OK", "FAIL", "undecodable"} : ChildEnds(s, how)
Main == StepBegin \/ (\E s \in Sources : Collect(s) \/ ReportTimeout(s)) \/ StepEnd \/ Crash \/ End

Next == Main \/ \E s \in Sources : Worker(s) \/ Child(s)

Spec == Init /\ [][Next]_vars

\* Threads run and time passes; no process has to end by itself.
FairSpec == Spec /\ WF_vars(Main) /\ \A s \in Sources : WF_vars(Worker(s))

-----------------------------------------------------------------------------
(* Properties. *)

Items    == {Item(s, isPair) : s \in Sources, isPair \in BOOLEAN}
Statuses == {"none", "raises", "OK", "FAIL", "TIMEOUT"}
Endings  == {"TypeError", "OK", "FAIL", "undecodable", "TIMEOUT"}

\* What run() itself keeps.
PlanOK ==
  /\ client \in Clients
  /\ main \in {"step", "collect", "drain", "crashed", "ended"}
  /\ step \in Nat /\ step <= Steps[client]
  /\ pending \subseteq Items /\ still \subseteq Items

\* What the pool and the history keep.
RunsOK ==
  /\ fut \in [Sources -> {"none", "queued", "running", "done"}]
  /\ result \in [Sources -> [status : Statuses, isPair : BOOLEAN]]
  /\ child \in [Sources -> {"none", "alive", "OK", "FAIL", "undecodable", "killed"}]
  /\ attempts \in [Sources -> Seq(Endings)]
  /\ reported \in Seq(Sources \X Statuses)

\* Types; and a step more than there are timeouts is never begun.
TypeOK == PlanOK /\ RunsOK

Over == main \in {"ended", "crashed"}

\* How often, and how, on_result was called for s.
Reports(s) == {i \in 1..Len(reported) : reported[i][1] = s}

(***************************************************************************)
(* "Run `items`, calling `on_result` once per item" (parallel.py:86): never*)
(* twice, and when run() returns, once for each -- with what its last run  *)
(* gave, after timeouts only; and TIMEOUT only when every step was tried.  *)
(***************************************************************************)
ReportedOnce ==
  \A s \in Sources :
    /\ Cardinality(Reports(s)) <= 1
    /\ main = "ended" => Reports(s) # {}
    /\ \A i \in Reports(s) :
         LET runs == attempts[s] IN
         /\ reported[i][2] = runs[Len(runs)]
         /\ \A j \in 1..Len(runs) - 1 : runs[j] = "TIMEOUT"
         /\ reported[i][2] = "TIMEOUT" => Len(runs) = Steps[client]

(***************************************************************************)
(* A process group lives only as long as a thread of the pool waits for it:*)
(* between two steps, in the report and when run() is left, by an exception*)
(* too, there is none ("instead of leaving orphans behind", parallel.py:7),*)
(* and no two groups work for one source.                                  *)
(***************************************************************************)
NoOrphans ==
  /\ \A s \in Sources : child[s] # "none" => fut[s] = "running"
  /\ Cardinality(Running) <= MaxWorkers
  /\ main \notin {"collect", "drain"} => Running = {}

(***************************************************************************)
(* run() comes to an end although no process has to: by returning, or by   *)
(* the exception of one run, after all others.                             *)
(***************************************************************************)
RunEnds == <>Over

(***************************************************************************)
(* "A result whose status is TIMEOUT is retried with the next timeout step"*)
(* (parallel.py:63): the retry runs the command again, it does not fail    *)
(* before it has started anything.                                         *)
(***************************************************************************)
RetriesRun == \A s \in Sources : \A i \in 1..Len(attempts[s]) : attempts[s][i] # "TypeError"
=============================================================================
