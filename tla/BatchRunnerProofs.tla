------------------------- MODULE BatchRunnerProofs -------------------------
(***************************************************************************)
(* The batch runner leaves no process behind and reports each item once,   *)
(* for every set of sources, number of workers and number of steps; the    *)
(* programs around it use it as it is, judge dumps truly, and exit with    *)
(* tables that agree.                                                      *)
(***************************************************************************)
EXTENDS BatchClients, FiniteSetTheorems, TLAPS

-----------------------------------------------------------------------------
(* Types. *)

LEMMA ItemType ==
  /\ \A s \in Sources, isPair \in BOOLEAN : Item(s, isPair) \in Items
  /\ \A item \in Items : item.src \in Sources
  /\ \A s, isPair : Item(s, isPair).src = s
  BY DEF Item, Items

LEMMA NamedType == ASSUME NEW items \in SUBSET Items PROVE Named(items) \subseteq Sources
  BY ItemType DEF Named

LEMMA CompletesType ==
  ASSUME RunsOK, NEW s \in Sources, NEW how \in Endings,
         NEW res \in [status : Statuses, isPair : BOOLEAN], Completes(s, how, res)
  PROVE  /\ fut' \in [Sources -> {"none", "queued", "running", "done"}]
         /\ result' \in [Sources -> [status : Statuses, isPair : BOOLEAN]]
         /\ attempts' \in [Sources -> Seq(Endings)]
<1>1. Append(attempts[s], how) \in Seq(Endings)
  BY DEF RunsOK
<1> QED
  BY <1>1 DEF RunsOK, Completes

LEMMA ResultType ==
  \A status \in Statuses, isPair \in BOOLEAN :
    /\ Result(status, isPair) \in [status : Statuses, isPair : BOOLEAN]
    /\ Result(status, isPair).status = status
  BY DEF Result

LEMMA InitType == Init => TypeOK
<1> SUFFICES ASSUME Init PROVE TypeOK
  OBVIOUS
<1>1. PlanOK
  <2>1. pending \subseteq Items
    BY ItemType DEF Init
  <2>2. client \in Clients /\ step = 0 /\ main = "step" /\ still = {}
    BY DEF Init
  <2>3. step \in Nat /\ step <= Steps[client]
    BY <2>2, BatchAssumption
  <2> QED
    BY <2>1, <2>2, <2>3 DEF PlanOK
<1>2. RunsOK
  <2>1. NoResult \in [status : Statuses, isPair : BOOLEAN]
    BY ResultType DEF NoResult, Statuses
  <2> QED
    BY <2>1 DEF Init, RunsOK
<1> QED
  BY <1>1, <1>2 DEF TypeOK

LEMMA WorkerType ==
  ASSUME TypeOK, NEW s \in Sources, Worker(s) \/ Child(s)
  PROVE  TypeOK'
<1> USE DEF TypeOK
<1>1. UNCHANGED <<client, main, step, pending, still, reported>>
  BY DEF Worker, Child, StartTask, UnpackFails, ChildEnds, Communicated, TimeoutExpires, Reap
<1>2. PlanOK'
  BY <1>1 DEF PlanOK
<1>3. RunsOK'
  <2>1. CASE StartTask(s)
    BY <2>1 DEF StartTask, RunsOK
  <2>2. CASE UnpackFails(s)
    <3>1. Result("raises", FALSE) \in [status : Statuses, isPair : BOOLEAN]
      BY ResultType DEF Statuses
    <3>2. Completes(s, "TypeError", Result("raises", FALSE)) /\ child' = child
      BY <2>2 DEF UnpackFails
    <3>3. "TypeError" \in Endings
      BY DEF Endings
    <3> QED
      BY <1>1, <3>1, <3>2, <3>3, CompletesType DEF RunsOK
  <2>3. CASE Communicated(s)
    <3> DEFINE status == IF child[s] = "undecodable" THEN "raises" ELSE child[s]
    <3>1. status \in Statuses /\ child[s] \in Endings
      BY <2>3 DEF Communicated, Statuses, Endings
    <3>2. Result(status, FALSE) \in [status : Statuses, isPair : BOOLEAN]
      BY <3>1, ResultType
    <3>3. Completes(s, child[s], Result(status, FALSE)) /\ child' = [child EXCEPT ![s] = "none"]
      BY <2>3 DEF Communicated
    <3> HIDE DEF status
    <3> QED
      BY <1>1, <3>1, <3>2, <3>3, CompletesType DEF RunsOK
  <2>4. CASE TimeoutExpires(s)
    BY <2>4 DEF TimeoutExpires, RunsOK
  <2>5. CASE Reap(s)
    <3>1. Result("TIMEOUT", FALSE) \in [status : Statuses, isPair : BOOLEAN]
      BY ResultType DEF Statuses
    <3>2. Completes(s, "TIMEOUT", Result("TIMEOUT", FALSE)) /\ child' = [child EXCEPT ![s] = "none"]
      BY <2>5 DEF Reap
    <3>3. "TIMEOUT" \in Endings
      BY DEF Endings
    <3> QED
      BY <1>1, <3>1, <3>2, <3>3, CompletesType DEF RunsOK
  <2>6. CASE Child(s)
    BY <2>6 DEF Child, ChildEnds, RunsOK
  <2> QED
    BY <2>1, <2>2, <2>3, <2>4, <2>5, <2>6 DEF Worker
<1> QED
  BY <1>2, <1>3

LEMMA ReportType ==
  ASSUME RunsOK, NEW s \in Sources, NEW status \in Statuses
  PROVE  /\ Append(reported, <<s, status>>) \in Seq(Sources \X Statuses)
         /\ Len(reported) \in Nat
         /\ Len(Append(reported, <<s, status>>)) = Len(reported) + 1
         /\ \A i \in 1..Len(reported) : Append(reported, <<s, status>>)[i] = reported[i]
         /\ Append(reported, <<s, status>>)[Len(reported) + 1] = <<s, status>>
<1>1. <<s, status>> \in Sources \X Statuses
  OBVIOUS
<1> QED
  BY <1>1 DEF RunsOK

LEMMA MainType ==
  ASSUME TypeOK, Main
  PROVE  TypeOK'
<1> USE DEF TypeOK
<1>1. CASE StepBegin
  <2>1. PlanOK'
    BY <1>1, BatchAssumption DEF StepBegin, PlanOK
  <2>2. RunsOK'
    BY <1>1 DEF StepBegin, RunsOK
  <2> QED
    BY <2>1, <2>2
<1>2. ASSUME NEW s \in Sources, Collect(s) PROVE TypeOK'
  <2> USE <1>2
  <2>1. result[s] \in [status : Statuses, isPair : BOOLEAN]
    BY DEF RunsOK
  <2>2. /\ fut' = [fut EXCEPT ![s] = "none"]
        /\ UNCHANGED <<client, step, pending, result, child, attempts>>
    BY DEF Collect
  <2>3. CASE result[s].status = "raises"
    <3>1. main' = "drain" /\ UNCHANGED <<still, reported>>
      BY <2>3 DEF Collect
    <3> QED
      BY <2>2, <3>1 DEF PlanOK, RunsOK
  <2>4. CASE result[s].status = "TIMEOUT"
    <3>1. KeepsTimeout(s) /\ main' = main
      BY <2>4 DEF Collect
    <3>2. Item(s, result[s].isPair) \in Items
      BY <2>1, ItemType
    <3> QED
      BY <2>2, <3>1, <3>2 DEF PlanOK, RunsOK, KeepsTimeout
  <2>5. CASE result[s].status \notin {"raises", "TIMEOUT"}
    <3>1. reported' = Append(reported, <<s, result[s].status>>) /\ UNCHANGED <<main, still>>
      BY <2>5 DEF Collect
    <3>2. reported' \in Seq(Sources \X Statuses)
      BY <2>1, <3>1, ReportType
    <3> QED
      BY <2>2, <3>1, <3>2 DEF PlanOK, RunsOK
  <2> QED
    BY <2>3, <2>4, <2>5
<1>3. ASSUME NEW s \in Sources, ReportTimeout(s) PROVE TypeOK'
  <2>1. reported' \in Seq(Sources \X Statuses)
    BY <1>3, ReportType DEF ReportTimeout, Statuses
  <2> QED
    BY <1>3, <2>1 DEF ReportTimeout, futVars, PlanOK, RunsOK
<1>4. CASE StepEnd
  BY <1>4 DEF StepEnd, futVars, PlanOK, RunsOK
<1>5. CASE Crash
  BY <1>5 DEF Crash, futVars, PlanOK, RunsOK
<1>6. CASE End
  BY <1>6 DEF End, futVars, PlanOK, RunsOK
<1> QED
  BY <1>1, <1>2, <1>3, <1>4, <1>5, <1>6 DEF Main

LEMMA NextType == TypeOK /\ [Next]_vars => TypeOK'
<1> SUFFICES ASSUME TypeOK, [Next]_vars PROVE TypeOK'
  OBVIOUS
<1>1. CASE Next
  BY <1>1, WorkerType, MainType DEF Next
<1>2. CASE UNCHANGED vars
  BY <1>2 DEF vars, futVars, TypeOK, PlanOK, RunsOK
<1> QED
  BY <1>1, <1>2

\* Results, items and reports stay what they are said to be: a pair has a
\* source, and a future has one of the statuses of parallel.py.
THEOREM TypeCorrect == Spec => []TypeOK
  BY InitType, NextType, PTL DEF Spec

-----------------------------------------------------------------------------
(* No orphans. *)

\* A process group has a thread that waits for it, threads run only while run()
\* is inside the pool, and there are never too many.
Orphanless ==
  /\ \A s \in Sources :
       /\ child[s] # "none" => fut[s] = "running"
       /\ fut[s] \in {"queued", "running"} => main \in {"collect", "drain"}
  /\ Cardinality(Running) <= MaxWorkers

\* The sets whose members are counted are finite.
LEMMA Finite ==
  ASSUME PlanOK
  PROVE  /\ IsFiniteSet(Running) /\ Cardinality(Running) \in Nat
         /\ IsFiniteSet(pending) /\ Cardinality(pending) \in Nat
<1>1. IsFiniteSet(Running) /\ Cardinality(Running) \in Nat
  <2>1. Running \subseteq Sources
    BY DEF Running
  <2> QED
    BY <2>1, BatchAssumption, FS_Subset, FS_CardinalityType
<1>2. IsFiniteSet(pending) /\ Cardinality(pending) \in Nat
  <2> DEFINE args == Sources \X BOOLEAN
             f    == [a \in args |-> Item(a[1], a[2])]
  <2>1. IsFiniteSet(BOOLEAN)
    <3>1. IsFiniteSet({TRUE} \union {FALSE})
      BY FS_Singleton, FS_Union
    <3>2. BOOLEAN = {TRUE} \union {FALSE}
      OBVIOUS
    <3> QED
      BY <3>1, <3>2
  <2>2. IsFiniteSet(args)
    BY <2>1, BatchAssumption, FS_Product
  <2>3. f \in Surjection(args, Items)
    <3>1. \A s \in Sources, b \in BOOLEAN : <<s, b>> \in args /\ f[<<s, b>>] = Item(s, b)
      OBVIOUS
    <3>2. f \in [args -> Items]
      BY DEF Items
    <3> HIDE DEF f, args
    <3>3. ASSUME NEW item \in Items PROVE \E a \in args : f[a] = item
      <4>1. PICK s \in Sources, b \in BOOLEAN : item = Item(s, b)
        BY DEF Items
      <4> QED
        BY <3>1, <4>1
    <3> QED
      BY <3>2, <3>3 DEF Surjection
  <2>4. IsFiniteSet(Items)
    BY <2>2, <2>3, FS_Surjection
  <2>5. pending \subseteq Items
    BY DEF PlanOK
  <2> QED
    BY <2>4, <2>5, FS_Subset, FS_CardinalityType
<1> QED
  BY <1>1, <1>2

\* A thread is started only when one is left.
LEMMA OneMore ==
  ASSUME PlanOK, NEW s \in Sources, Cardinality(Running) < WorkerCount
  PROVE  Cardinality(Running \union {s}) <= MaxWorkers
<1>1. Cardinality(Running) + 1 <= MaxWorkers
  BY Finite, BatchAssumption DEF WorkerCount
<1>2. \A S, x : IsFiniteSet(S) =>
        Cardinality(S \union {x}) = IF x \in S THEN Cardinality(S) ELSE Cardinality(S) + 1
  BY FS_AddElement
<1>3. Cardinality(Running \union {s}) \in {Cardinality(Running), Cardinality(Running) + 1}
  BY <1>2, Finite, Zenon
<1> QED
  BY <1>1, <1>3, Finite, BatchAssumption

\* Fewer threads than before are not too many.
LEMMA NoMore ==
  ASSUME PlanOK, Cardinality(Running) <= MaxWorkers, Running' \subseteq Running
  PROVE  Cardinality(Running') <= MaxWorkers
<1>1. Cardinality(Running') <= Cardinality(Running) /\ Cardinality(Running') \in Nat
  BY Finite, FS_Subset, FS_CardinalityType
<1> QED
  BY <1>1, Finite, BatchAssumption

LEMMA WorkerOrphanless ==
  ASSUME TypeOK, Orphanless, NEW s \in Sources, Worker(s) \/ Child(s)
  PROVE  Orphanless'
<1> USE DEF TypeOK
<1>1. CASE StartTask(s)
  <2>1. /\ fut' = [fut EXCEPT ![s] = "running"] /\ child' = [child EXCEPT ![s] = "alive"]
        /\ fut[s] = "queued" /\ main' = main /\ Cardinality(Running) < WorkerCount
    BY <1>1 DEF StartTask
  <2>2. Running' = Running \union {s}
    BY <2>1 DEF RunsOK, Running
  <2>3. Cardinality(Running') <= MaxWorkers
    BY <2>1, <2>2, OneMore
  <2> QED
    BY <2>1, <2>3 DEF RunsOK, Orphanless
<1>2. ASSUME NEW how, NEW res, Completes(s, how, res), main' = main,
             (child' = child /\ fut[s] = "queued") \/ child' = [child EXCEPT ![s] = "none"]
      PROVE  Orphanless'
  <2>1. fut' = [fut EXCEPT ![s] = "done"]
    BY <1>2 DEF Completes
  <2>2. Running' \subseteq Running
    BY <2>1 DEF RunsOK, Running
  <2>3. Cardinality(Running') <= MaxWorkers
    BY <2>2, NoMore DEF Orphanless
  <2> QED
    BY <1>2, <2>1, <2>3 DEF RunsOK, Orphanless
<1>3. CASE UnpackFails(s) \/ Communicated(s) \/ Reap(s)
  BY <1>3, <1>2 DEF UnpackFails, Communicated, Reap
<1>4. CASE TimeoutExpires(s) \/ Child(s)
  <2>1. /\ fut' = fut /\ main' = main /\ fut[s] = "running"
        /\ \A t \in Sources : t # s => child'[t] = child[t]
    BY <1>4 DEF TimeoutExpires, Child, ChildEnds, RunsOK, Orphanless
  <2>2. Running' = Running
    BY <2>1 DEF Running
  <2> QED
    BY <2>1, <2>2 DEF Orphanless
<1> QED
  BY <1>1, <1>3, <1>4 DEF Worker

LEMMA MainOrphanless ==
  ASSUME TypeOK, Orphanless, Main
  PROVE  Orphanless'
<1> USE DEF TypeOK
<1>1. CASE StepBegin
  <2>1. /\ child' = child /\ main = "step" /\ main' = "collect"
        /\ \A s \in Sources : fut'[s] \in {"queued", "none"}
    BY <1>1 DEF StepBegin
  <2>2. \A s \in Sources : child[s] = "none"
    BY <2>1 DEF Orphanless
  <2>3. Running' \subseteq Running
    BY <2>1 DEF Running
  <2> QED
    BY <2>1, <2>2, <2>3, NoMore DEF Orphanless
<1>2. ASSUME NEW s \in Sources, Collect(s) PROVE Orphanless'
  <2>1. /\ child' = child /\ fut' = [fut EXCEPT ![s] = "none"] /\ fut[s] = "done"
        /\ main = "collect" /\ main' \in {"collect", "drain"}
    BY <1>2 DEF Collect, KeepsTimeout
  <2>2. Running' \subseteq Running
    BY <2>1 DEF RunsOK, Running
  <2> QED
    BY <2>1, <2>2, NoMore DEF RunsOK, Orphanless
<1>3. ASSUME NEW s \in Sources, ReportTimeout(s) PROVE Orphanless'
  BY <1>3 DEF ReportTimeout, futVars, Orphanless, Running
<1>4. CASE StepEnd \/ Crash \/ End
  <2>1. fut' = fut /\ child' = child /\ \A s \in Sources : fut[s] \notin {"queued", "running"}
    BY <1>4 DEF StepEnd, Crash, End, futVars, Orphanless
  <2>2. Running' = Running
    BY <2>1 DEF Running
  <2> QED
    BY <2>1, <2>2 DEF Orphanless
<1> QED
  BY <1>1, <1>2, <1>3, <1>4 DEF Main

LEMMA OrphanlessHolds == Spec => []Orphanless
<1>1. Init => Orphanless
  <2> SUFFICES ASSUME Init PROVE Orphanless
    OBVIOUS
  <2>1. Running = {}
    BY DEF Init, Running
  <2>2. Cardinality(Running) <= MaxWorkers
    BY <2>1, FS_EmptySet, BatchAssumption
  <2> QED
    BY <2>2 DEF Init, Orphanless
<1>2. TypeOK /\ Orphanless /\ [Next]_vars => Orphanless'
  <2> SUFFICES ASSUME TypeOK, Orphanless, [Next]_vars PROVE Orphanless'
    OBVIOUS
  <2>1. CASE Next
    BY <2>1, WorkerOrphanless, MainOrphanless DEF Next
  <2>2. CASE UNCHANGED vars
    BY <2>2 DEF vars, futVars, Orphanless, Running
  <2> QED
    BY <2>1, <2>2
<1> QED
  BY <1>1, <1>2, InitType, NextType, PTL DEF Spec

\* A process group lives only as long as a thread of the pool waits for it,
\* which no thread does outside a step, and no more threads than max_workers
\* run at a time: parallel.py leaves no orphans, whatever times out or raises.
THEOREM NoOrphansLeft == Spec => []NoOrphans
<1>1. Orphanless => NoOrphans
  <2> SUFFICES ASSUME Orphanless, main \notin {"collect", "drain"} PROVE Running = {}
    BY DEF NoOrphans, Orphanless
  <2> QED
    BY DEF Orphanless, Running
<1> QED
  BY <1>1, OrphanlessHolds, PTL

-----------------------------------------------------------------------------
(* Each item once. *)

\* Where an item is that neither a thread nor a report has.
Carried == IF main = "step" THEN pending ELSE IF main = "collect" THEN still ELSE {}

Unreported(s) == \A i \in 1..Len(reported) : reported[i][1] # s
TimedOut(runs, n) == \A j \in 1..n : runs[j] = "TIMEOUT"

\* While s has a future: nothing else has it, and all earlier steps timed out.
Awaited(s) ==
  fut[s] # "none" =>
    /\ main \in {"collect", "drain", "crashed"} /\ step >= 1
    /\ s \notin Named(Carried) /\ Unreported(s)
    /\ TimedOut(attempts[s], step - 1)
    /\ Len(attempts[s]) = IF fut[s] = "done" THEN step ELSE step - 1
    /\ fut[s] = "done" /\ result[s].status # "raises" => attempts[s][step] = result[s].status

\* While s is carried to the next step or to the report: all steps timed out.
Kept(s) ==
  s \in Named(Carried) =>
    /\ fut[s] = "none" /\ Unreported(s)
    /\ Len(attempts[s]) = step /\ TimedOut(attempts[s], step)

\* Nothing gets lost.
Accounted(s) ==
  /\ main \in {"step", "collect"} => fut[s] # "none" \/ s \in Named(Carried) \/ ~Unreported(s)
  /\ main = "ended" => ~Unreported(s)

\* A report is the only one of its source, and true.
Truthful(s) ==
  \A i \in 1..Len(reported) : reported[i][1] = s =>
    /\ \A k \in 1..Len(reported) : reported[k][1] = s => k = i
    /\ reported[i][2] = attempts[s][Len(attempts[s])]
    /\ TimedOut(attempts[s], Len(attempts[s]) - 1)
    /\ reported[i][2] = "TIMEOUT" => Len(attempts[s]) = Steps[client]

Entry(s) == Awaited(s) /\ Kept(s) /\ Accounted(s) /\ Truthful(s)

OneEach == \A x, y \in Carried : x.src = y.src => x = y

Ledger == OneEach /\ \A s \in Sources : Entry(s)

\* A thread that does not complete leaves the ledger as it is.
LEMMA SilentStep ==
  ASSUME TypeOK, Ledger, NEW s \in Sources, fut[s] \in {"queued", "running"},
         fut' = fut \/ fut' = [fut EXCEPT ![s] = "running"],
         UNCHANGED <<client, main, step, pending, still, reported, result, attempts>>
  PROVE  Ledger'
<1>1. Carried' = Carried
  BY DEF Carried
<1>2. ASSUME NEW t \in Sources PROVE Entry(t)'
  <2>1. /\ fut'[t] = "none" <=> fut[t] = "none"
        /\ fut'[t] = "done" <=> fut[t] = "done"
    BY DEF TypeOK, RunsOK
  <2>2. Entry(t)
    BY DEF Ledger
  <2>3. Awaited(t)'
    BY <1>1, <2>1, <2>2 DEF Entry, Awaited, Unreported, TimedOut, Named
  <2>4. Kept(t)' /\ Accounted(t)'
    BY <1>1, <2>1, <2>2 DEF Entry, Kept, Accounted, Unreported, TimedOut, Named
  <2>5. Truthful(t)'
    BY <2>2 DEF Entry, Truthful, TimedOut
  <2> QED
    BY <2>3, <2>4, <2>5 DEF Entry
<1> QED
  BY <1>1, <1>2 DEF Ledger, OneEach

\* A run ends: one more attempt of a source that is awaited.
LEMMA CompletingStep ==
  ASSUME TypeOK, Ledger, NEW s \in Sources, fut[s] \in {"queued", "running"},
         NEW how \in Endings, NEW res, res.status # "raises" => res.status = how,
         Completes(s, how, res), UNCHANGED <<client, main, step, pending, still, reported>>
  PROVE  Ledger'
<1>1. Carried' = Carried
  BY DEF Carried
<1>2. /\ fut' = [fut EXCEPT ![s] = "done"] /\ result' = [result EXCEPT ![s] = res]
      /\ attempts' = [attempts EXCEPT ![s] = Append(@, how)]
  BY DEF Completes
<1>3. /\ fut \in [Sources -> {"none", "queued", "running", "done"}]
      /\ result \in [Sources -> [status : Statuses, isPair : BOOLEAN]]
      /\ attempts \in [Sources -> Seq(Endings)]
      /\ step \in Nat
  BY DEF TypeOK, PlanOK, RunsOK
<1>4. ASSUME NEW t \in Sources, t # s PROVE Entry(t)'
  <2>1. fut'[t] = fut[t] /\ result'[t] = result[t] /\ attempts'[t] = attempts[t]
    BY <1>2, <1>3, <1>4
  <2>2. Entry(t)
    BY DEF Ledger
  <2>3. Awaited(t)'
    BY <1>1, <2>1, <2>2 DEF Entry, Awaited, Unreported, TimedOut, Named
  <2>4. Kept(t)' /\ Accounted(t)'
    BY <1>1, <2>1, <2>2 DEF Entry, Kept, Accounted, Unreported, TimedOut, Named
  <2>5. Truthful(t)'
    BY <2>1, <2>2 DEF Entry, Truthful, TimedOut
  <2> QED
    BY <2>3, <2>4, <2>5 DEF Entry
<1>5. Entry(s)'
  <2>1. Entry(s) /\ fut[s] # "none" /\ fut[s] # "done"
    BY DEF Ledger
  <2>2. /\ main \in {"collect", "drain", "crashed"} /\ step >= 1
        /\ s \notin Named(Carried) /\ Unreported(s)
        /\ TimedOut(attempts[s], step - 1) /\ Len(attempts[s]) = step - 1
    BY <2>1 DEF Entry, Awaited
  <2>3. fut'[s] = "done" /\ result'[s] = res /\ attempts'[s] = Append(attempts[s], how)
    BY <1>2, <1>3
  <2>4. /\ Len(Append(attempts[s], how)) = step
        /\ Append(attempts[s], how)[step] = how
        /\ \A j \in 1..step - 1 : Append(attempts[s], how)[j] = attempts[s][j]
    BY <1>3, <2>2
  <2>5. TimedOut(Append(attempts[s], how), step - 1)
    BY <2>2, <2>4 DEF TimedOut
  <2>6. Unreported(s)' /\ s \notin Named(Carried)'
    BY <1>1, <2>2 DEF Unreported, Named
  <2>7. TimedOut(attempts[s], step - 1)'
    BY <2>3, <2>5 DEF TimedOut
  <2>8. Awaited(s)'
    BY <2>2, <2>3, <2>4, <2>6, <2>7 DEF Awaited
  <2>9. Kept(s)' /\ Accounted(s)'
    BY <2>2, <2>3, <2>6 DEF Kept, Accounted
  <2>10. Truthful(s)'
    BY <2>6 DEF Truthful, Unreported
  <2> QED
    BY <2>8, <2>9, <2>10 DEF Entry
<1> QED
  BY <1>1, <1>4, <1>5 DEF Ledger, OneEach

LEMMA WorkerLedger ==
  ASSUME TypeOK, Orphanless, Ledger, NEW s \in Sources, Worker(s) \/ Child(s)
  PROVE  Ledger'
<1>1. CASE StartTask(s)
  BY <1>1, SilentStep DEF StartTask
<1>2. CASE TimeoutExpires(s)
  BY <1>2, SilentStep DEF TimeoutExpires
<1>3. CASE Child(s)
  <2>1. fut[s] = "running"
    BY <1>3 DEF Child, ChildEnds, Orphanless
  <2> QED
    BY <1>3, <2>1, SilentStep DEF Child, ChildEnds
<1>4. CASE UnpackFails(s)
  <2>1. Result("raises", FALSE).status = "raises" /\ "TypeError" \in Endings
    BY ResultType DEF Statuses, Endings
  <2> QED
    BY <1>4, <2>1, CompletingStep DEF UnpackFails
<1>5. CASE Communicated(s)
  <2> DEFINE status == IF child[s] = "undecodable" THEN "raises" ELSE child[s]
  <2>1. status \in Statuses /\ child[s] \in Endings /\ (status # "raises" => status = child[s])
    BY <1>5 DEF Communicated, Statuses, Endings
  <2>2. /\ Completes(s, child[s], Result(status, FALSE)) /\ fut[s] = "running"
        /\ UNCHANGED <<client, main, step, pending, still, reported>>
    BY <1>5 DEF Communicated
  <2> HIDE DEF status
  <2>3. Result(status, FALSE).status = status
    BY <2>1, ResultType
  <2> QED
    BY <2>1, <2>2, <2>3, CompletingStep
<1>6. CASE Reap(s)
  <2>1. Result("TIMEOUT", FALSE).status = "TIMEOUT" /\ "TIMEOUT" \in Endings
    BY ResultType DEF Statuses, Endings
  <2> QED
    BY <1>6, <2>1, CompletingStep DEF Reap
<1> QED
  BY <1>1, <1>2, <1>3, <1>4, <1>5, <1>6 DEF Worker

\* on_result is called for s: the first report of s, and nobody else's.
LEMMA ReportStep ==
  ASSUME TypeOK, Ledger, NEW s \in Sources, NEW status \in Statuses, Unreported(s),
         reported' = Append(reported, <<s, status>>), UNCHANGED <<client, attempts>>,
         status = attempts[s][Len(attempts[s])], TimedOut(attempts[s], Len(attempts[s]) - 1),
         status = "TIMEOUT" => Len(attempts[s]) = Steps[client]
  PROVE  /\ ~Unreported(s)'
         /\ \A t \in Sources : t # s => (Unreported(t)' <=> Unreported(t))
         /\ \A t \in Sources : Truthful(t)'
<1> DEFINE n == Len(reported)
<1>1. /\ n \in Nat /\ Len(reported') = n + 1
      /\ \A i \in 1..n : reported'[i] = reported[i]
      /\ reported'[n + 1][1] = s /\ reported'[n + 1][2] = status
  BY ReportType DEF TypeOK
<1>2. \A i \in 1..n : reported[i][1] # s
  BY DEF Unreported
<1>3. 1..Len(reported') = 1..n \union {n + 1}
  BY <1>1
<1> HIDE DEF n
<1>4. ~Unreported(s)'
  BY <1>1, <1>3 DEF Unreported
<1>5. \A t \in Sources : t # s => (Unreported(t)' <=> Unreported(t))
  BY <1>1, <1>3 DEF Unreported, n
<1>6. ASSUME NEW t \in Sources PROVE Truthful(t)'
  <2>1. Truthful(t)
    BY DEF Ledger, Entry
  <2>2. CASE t = s
    <3>1. \A i \in 1..Len(reported') : reported'[i][1] = s => i = n + 1
      BY <1>1, <1>2, <1>3
    <3> QED
      BY <1>1, <2>2, <3>1 DEF Truthful, TimedOut
  <2>3. CASE t # s
    <3>1. \A i \in 1..Len(reported') : reported'[i][1] = t =>
            i \in 1..n /\ reported'[i] = reported[i]
      BY <1>1, <1>3, <2>3
    <3> QED
      BY <1>1, <2>1, <3>1 DEF Truthful, TimedOut, n
  <2> QED
    BY <2>2, <2>3
<1> QED
  BY <1>4, <1>5, <1>6

LEMMA StepBeginLedger ==
  ASSUME TypeOK, Ledger, StepBegin
  PROVE  Ledger'
<1>1. /\ main = "step" /\ main' = "collect" /\ step' = step + 1 /\ step \in Nat
      /\ Carried = pending /\ Carried' = {}
      /\ UNCHANGED <<client, reported, attempts>>
  BY DEF StepBegin, Carried, TypeOK, PlanOK
<1>2. ASSUME NEW t \in Sources PROVE Entry(t)'
  <2>1. Entry(t)
    BY DEF Ledger
  <2>2. fut'[t] = IF t \in Named(Carried) THEN "queued" ELSE "none"
    BY <1>1 DEF StepBegin
  <2>3. fut[t] = "none"
    BY <1>1, <2>1 DEF Entry, Awaited
  <2>4. Named(Carried)' = {}
    BY <1>1 DEF Named
  <2>5. Unreported(t)' <=> Unreported(t)
    BY <1>1 DEF Unreported
  <2>6. Awaited(t)'
    <3> SUFFICES ASSUME t \in Named(Carried) PROVE Awaited(t)'
      BY <2>2 DEF Awaited
    <3>1. Unreported(t) /\ Len(attempts[t]) = step /\ TimedOut(attempts[t], step)
      BY <2>1 DEF Entry, Kept
    <3>2. TimedOut(attempts[t], step - 1)' /\ Len(attempts'[t]) = step' - 1 /\ step' >= 1
      BY <1>1, <3>1 DEF TimedOut
    <3> QED
      BY <1>1, <2>2, <2>4, <2>5, <3>1, <3>2 DEF Awaited
  <2>7. Kept(t)' /\ Accounted(t)'
    BY <1>1, <2>1, <2>2, <2>3, <2>4, <2>5 DEF Entry, Kept, Accounted
  <2>8. Truthful(t)'
    BY <1>1, <2>1 DEF Entry, Truthful, TimedOut
  <2> QED
    BY <2>6, <2>7, <2>8 DEF Entry
<1> QED
  BY <1>1, <1>2 DEF Ledger, OneEach

LEMMA CollectLedger ==
  ASSUME TypeOK, Ledger, NEW s \in Sources, Collect(s)
  PROVE  Ledger'
<1>1. /\ main = "collect" /\ fut[s] = "done" /\ fut' = [fut EXCEPT ![s] = "none"]
      /\ Carried = still /\ UNCHANGED <<client, step, pending, result, child, attempts>>
      /\ fut \in [Sources -> {"none", "queued", "running", "done"}]
      /\ result[s] \in [status : Statuses, isPair : BOOLEAN] /\ step \in Nat
  BY DEF Collect, Carried, TypeOK, PlanOK, RunsOK
<1>2. /\ s \notin Named(Carried) /\ Unreported(s) /\ step >= 1
      /\ TimedOut(attempts[s], step - 1) /\ Len(attempts[s]) = step
      /\ result[s].status # "raises" => attempts[s][step] = result[s].status
  BY <1>1 DEF Ledger, Entry, Awaited
<1>3. /\ fut'[s] = "none"
      /\ \A t \in Sources : t # s => fut'[t] = fut[t]
  BY <1>1
<1>4. \A t \in Sources : Entry(t)
  BY DEF Ledger
<1>5. CASE result[s].status = "raises"
  <2>1. main' = "drain" /\ UNCHANGED <<still, reported>> /\ Carried' = {}
    BY <1>5 DEF Collect, Carried
  <2>2. Named(Carried)' = {}
    BY <2>1 DEF Named
  <2>3. ASSUME NEW t \in Sources PROVE Entry(t)'
    <3>1. Awaited(t)'
      BY <1>1, <1>3, <1>4, <2>1, <2>2 DEF Entry, Awaited, Unreported, TimedOut
    <3>2. Kept(t)' /\ Accounted(t)'
      BY <2>1, <2>2 DEF Kept, Accounted
    <3>3. Truthful(t)'
      BY <1>1, <1>4, <2>1 DEF Entry, Truthful, TimedOut
    <3> QED
      BY <3>1, <3>2, <3>3 DEF Entry
  <2> QED
    BY <2>1, <2>3 DEF Ledger, OneEach
<1>6. CASE result[s].status = "TIMEOUT"
  <2> DEFINE item == Item(s, result[s].isPair)
  <2>1. main' = main /\ reported' = reported /\ Carried' = Carried \union {item}
    BY <1>1, <1>6 DEF Collect, KeepsTimeout, Carried
  <2>2. item.src = s
    BY ItemType
  <2> HIDE DEF item
  <2>3. Named(Carried)' = Named(Carried) \union {s}
    BY <2>1, <2>2 DEF Named
  <2>4. OneEach'
    <3>1. OneEach /\ \A x \in Carried : x.src # s
      BY <1>2 DEF Ledger, Named
    <3> QED
      BY <2>1, <2>2, <3>1 DEF OneEach
  <2>5. ASSUME NEW t \in Sources, t # s PROVE Awaited(t)' /\ Kept(t)' /\ Accounted(t)'
    <3>1. /\ t \in Named(Carried)' <=> t \in Named(Carried)
          /\ Unreported(t)' <=> Unreported(t)
          /\ fut'[t] = fut[t] /\ Entry(t)
      BY <1>3, <1>4, <2>1, <2>3, <2>5 DEF Unreported
    <3>2. Awaited(t)'
      BY <1>1, <2>1, <3>1 DEF Entry, Awaited, TimedOut
    <3>3. Kept(t)' /\ Accounted(t)'
      BY <1>1, <2>1, <3>1 DEF Entry, Kept, Accounted, TimedOut
    <3> QED
      BY <3>2, <3>3
  <2>6. Awaited(s)' /\ Kept(s)' /\ Accounted(s)'
    <3>1. \A j \in 1..step : j = step \/ j \in 1..step - 1
      BY <1>1
    <3>2. TimedOut(attempts[s], step)
      BY <1>2, <1>6, <3>1 DEF TimedOut
    <3>3. TimedOut(attempts[s], step)' /\ Unreported(s)'
      BY <1>1, <1>2, <2>1, <3>2 DEF TimedOut, Unreported
    <3>4. Kept(s)'
      BY <1>1, <1>2, <1>3, <3>3 DEF Kept
    <3>5. Awaited(s)' /\ Accounted(s)'
      BY <1>1, <1>3, <2>1, <2>3 DEF Awaited, Accounted
    <3> QED
      BY <3>4, <3>5
  <2>7. \A t \in Sources : Truthful(t)'
    BY <1>1, <1>4, <2>1 DEF Entry, Truthful, TimedOut
  <2> QED
    BY <2>4, <2>5, <2>6, <2>7 DEF Ledger, Entry
<1>7. CASE result[s].status \notin {"raises", "TIMEOUT"}
  <2>1. /\ reported' = Append(reported, <<s, result[s].status>>) /\ Carried' = Carried
        /\ main' = main
    BY <1>7 DEF Collect, Carried
  <2>2. /\ ~Unreported(s)'
        /\ \A t \in Sources : t # s => (Unreported(t)' <=> Unreported(t))
        /\ \A t \in Sources : Truthful(t)'
    BY <1>1, <1>2, <1>7, <2>1, ReportStep
  <2>3. Named(Carried)' = Named(Carried)
    BY <2>1 DEF Named
  <2>4. ASSUME NEW t \in Sources, t # s PROVE Awaited(t)' /\ Kept(t)' /\ Accounted(t)'
    <3>1. Awaited(t)'
      BY <1>1, <1>3, <1>4, <2>1, <2>2, <2>3, <2>4 DEF Entry, Awaited, TimedOut
    <3>2. Kept(t)' /\ Accounted(t)'
      BY <1>1, <1>3, <1>4, <2>1, <2>2, <2>3, <2>4 DEF Entry, Kept, Accounted, TimedOut
    <3> QED
      BY <3>1, <3>2
  <2>5. Awaited(s)' /\ Kept(s)' /\ Accounted(s)'
    BY <1>1, <1>2, <1>3, <2>1, <2>2, <2>3 DEF Awaited, Kept, Accounted
  <2> QED
    BY <2>1, <2>2, <2>4, <2>5 DEF Ledger, Entry, OneEach
<1> QED
  BY <1>5, <1>6, <1>7

LEMMA ReportTimeoutLedger ==
  ASSUME TypeOK, Ledger, NEW s \in Sources, ReportTimeout(s)
  PROVE  Ledger'
<1>1. PICK item \in pending : item.src = s /\ pending' = pending \ {item}
  BY DEF ReportTimeout
<1>2. /\ main = "step" /\ main' = "step" /\ step = Steps[client]
      /\ Carried = pending /\ Carried' = pending'
      /\ reported' = Append(reported, <<s, "TIMEOUT">>)
      /\ UNCHANGED <<client, step, fut, result, attempts>> /\ step \in Nat
  BY DEF ReportTimeout, futVars, Carried, TypeOK, PlanOK
<1>3. \A t \in Sources : Entry(t)
  BY DEF Ledger
<1>4. s \in Named(Carried)
  BY <1>1, <1>2 DEF Named
<1>5. /\ fut[s] = "none" /\ Unreported(s)
      /\ Len(attempts[s]) = step /\ TimedOut(attempts[s], step)
  BY <1>3, <1>4 DEF Entry, Kept
<1>6. step >= 1
  <2>1. Steps[client] \in Nat \ {0}
    BY BatchAssumption DEF TypeOK, PlanOK
  <2> QED
    BY <1>2, <2>1
<1>7. /\ ~Unreported(s)'
      /\ \A t \in Sources : t # s => (Unreported(t)' <=> Unreported(t))
      /\ \A t \in Sources : Truthful(t)'
  <2>1. TimedOut(attempts[s], Len(attempts[s]) - 1) /\ attempts[s][Len(attempts[s])] = "TIMEOUT"
    BY <1>2, <1>5, <1>6 DEF TimedOut
  <2>2. "TIMEOUT" \in Statuses
    BY DEF Statuses
  <2> QED
    BY <1>2, <1>5, <2>1, <2>2, ReportStep
<1>8. OneEach
  BY DEF Ledger
<1>9. Named(Carried)' = Named(Carried) \ {s}
  BY <1>1, <1>2, <1>8 DEF Named, OneEach
<1>10. OneEach'
  BY <1>1, <1>2, <1>8 DEF OneEach
<1>11. \A t \in Sources : fut[t] = "none"
  BY <1>2, <1>3 DEF Entry, Awaited
<1>12. ASSUME NEW t \in Sources PROVE Awaited(t)' /\ Kept(t)' /\ Accounted(t)'
  <2>1. Awaited(t)'
    BY <1>2, <1>11 DEF Awaited
  <2>2. Kept(t)' /\ Accounted(t)'
    BY <1>2, <1>3, <1>7, <1>9 DEF Entry, Kept, Accounted, TimedOut
  <2> QED
    BY <2>1, <2>2
<1> QED
  BY <1>7, <1>10, <1>12 DEF Ledger, Entry

LEMMA MainLedger ==
  ASSUME TypeOK, Ledger, Main
  PROVE  Ledger'
<1>1. \A t \in Sources : Entry(t)
  BY DEF Ledger
<1>2. CASE StepEnd
  <2>1. /\ main = "collect" /\ main' = "step" /\ \A s \in Sources : fut'[s] = "none" /\ fut[s] = "none"
        /\ Carried' = Carried /\ UNCHANGED <<client, step, reported, attempts>>
    BY <1>2 DEF StepEnd, futVars, Carried
  <2>2. ASSUME NEW t \in Sources PROVE Entry(t)'
    <3>1. Awaited(t)'
      BY <2>1 DEF Awaited
    <3>2. Kept(t)' /\ Accounted(t)'
      BY <1>1, <2>1 DEF Entry, Kept, Accounted, Named, Unreported, TimedOut
    <3>3. Truthful(t)'
      BY <1>1, <2>1 DEF Entry, Truthful, TimedOut
    <3> QED
      BY <3>1, <3>2, <3>3 DEF Entry
  <2> QED
    BY <2>1, <2>2 DEF Ledger, OneEach
<1>3. CASE Crash \/ End
  <2>1. /\ \/ main = "drain" /\ main' = "crashed"
           \/ main = "step" /\ main' = "ended"
        /\ Carried = {} /\ Carried' = {}
        /\ UNCHANGED <<client, step, reported, fut, result, attempts>>
    <3>1. CASE Crash
      <4>1. /\ main = "drain" /\ main' = "crashed"
            /\ UNCHANGED <<client, step, reported, fut, result, attempts>>
        BY <3>1 DEF Crash, futVars
      <4> QED
        BY <4>1 DEF Carried
    <3>2. CASE End
      BY <3>2 DEF End, futVars, Carried
    <3> QED
      BY <1>3, <3>1, <3>2
  <2>2. Named(Carried) = {} /\ Named(Carried)' = {}
    BY <2>1 DEF Named
  <2>3. ASSUME NEW t \in Sources PROVE Entry(t)'
    <3>1. Awaited(t)'
      BY <1>1, <2>1, <2>2 DEF Entry, Awaited, Unreported, TimedOut
    <3>2. Kept(t)' /\ Accounted(t)'
      BY <1>1, <2>1, <2>2 DEF Entry, Awaited, Kept, Accounted, Unreported
    <3>3. Truthful(t)'
      BY <1>1, <2>1 DEF Entry, Truthful, TimedOut
    <3> QED
      BY <3>1, <3>2, <3>3 DEF Entry
  <2> QED
    BY <2>1, <2>3 DEF Ledger, OneEach
<1> QED
  BY <1>2, <1>3, StepBeginLedger, CollectLedger, ReportTimeoutLedger DEF Main

LEMMA LedgerHolds == Spec => []Ledger
<1>1. Init => Ledger
  <2> SUFFICES ASSUME Init PROVE Ledger
    OBVIOUS
  <2>1. Carried = {Item(s, TRUE) : s \in Sources} /\ step = 0 /\ reported = <<>>
    BY DEF Init, Carried
  <2>2. OneEach
    <3>1. \A x \in Carried : x = Item(x.src, TRUE)
      BY <2>1, ItemType
    <3> QED
      BY <3>1 DEF OneEach
  <2>3. ASSUME NEW t \in Sources PROVE Entry(t)
    <3>1. t \in Named(Carried)
      BY <2>1, ItemType DEF Named
    <3>2. fut[t] = "none" /\ attempts[t] = <<>>
      BY DEF Init
    <3>3. Kept(t)
      BY <2>1, <3>2 DEF Kept, Unreported, TimedOut
    <3>4. Awaited(t) /\ Accounted(t) /\ Truthful(t)
      BY <2>1, <3>1, <3>2 DEF Init, Awaited, Accounted, Truthful
    <3> QED
      BY <3>3, <3>4 DEF Entry
  <2> QED
    BY <2>2, <2>3 DEF Ledger
<1>2. TypeOK /\ Orphanless /\ Ledger /\ [Next]_vars => Ledger'
  <2> SUFFICES ASSUME TypeOK, Orphanless, Ledger, [Next]_vars PROVE Ledger'
    OBVIOUS
  <2>1. CASE Next
    BY <2>1, WorkerLedger, MainLedger DEF Next
  <2>2. CASE UNCHANGED vars
    BY <2>2 DEF vars, futVars, Ledger, OneEach, Entry, Awaited, Kept, Accounted, Truthful,
                Carried, Named, Unreported, TimedOut
  <2> QED
    BY <2>1, <2>2
<1> QED
  BY <1>1, <1>2, InitType, NextType, OrphanlessHolds, PTL DEF Spec

\* on_result is called at most once for an item, and once when run() returns;
\* what it is told is how the last run of the item ended, after timeouts only.
THEOREM EachItemReportedOnce == Spec => []ReportedOnce
<1>1. TypeOK /\ Ledger => ReportedOnce
  <2> SUFFICES ASSUME TypeOK, Ledger, NEW s \in Sources
               PROVE  /\ Cardinality(Reports(s)) <= 1
                      /\ main = "ended" => Reports(s) # {}
                      /\ \A i \in Reports(s) :
                           /\ reported[i][2] = attempts[s][Len(attempts[s])]
                           /\ \A j \in 1..Len(attempts[s]) - 1 : attempts[s][j] = "TIMEOUT"
                           /\ reported[i][2] = "TIMEOUT" => Len(attempts[s]) = Steps[client]
    BY DEF ReportedOnce
  <2>1. Truthful(s) /\ Accounted(s)
    BY DEF Ledger, Entry
  <2>2. Cardinality(Reports(s)) <= 1
    <3>1. Reports(s) = {} \/ \E i : Reports(s) = {i}
      BY <2>1 DEF Truthful, Reports
    <3>2. CASE Reports(s) = {}
      BY <3>2, FS_EmptySet
    <3>3. ASSUME NEW i, Reports(s) = {i} PROVE Cardinality(Reports(s)) = 1
      BY <3>3, FS_Singleton
    <3> QED
      BY <3>1, <3>2, <3>3
  <2>3. main = "ended" => Reports(s) # {}
    BY <2>1 DEF Accounted, Unreported, Reports
  <2> QED
    BY <2>1, <2>2, <2>3 DEF Truthful, TimedOut, Reports
<1> QED
  BY <1>1, TypeCorrect, LedgerHolds, PTL

-----------------------------------------------------------------------------
(* The programs around the runner. *)

\* How the processes of this client's sources end stays one of its scenarios.
EndsOK == client \in Clients /\ ends \in Scenarios[client]

LEMMA EndsKept == ClientSpec => []EndsOK
<1>1. ClientInit => EndsOK
  BY DEF ClientInit, Init, EndsOK
<1>2. EndsOK /\ [ClientNext]_batchVars => EndsOK'
  <2> SUFFICES ASSUME EndsOK, [ClientNext]_batchVars PROVE UNCHANGED <<client, ends>>
    BY DEF EndsOK
  <2>1. CASE Runs
    BY <2>1 DEF Runs, Main, StepBegin, Collect, ReportTimeout, StepEnd, Crash, End
  <2>2. CASE Summary
    BY <2>2 DEF Summary, vars
  <2>3. ASSUME NEW s \in Sources, ProcessEnds(s) \/ Waits(s) PROVE UNCHANGED <<client, ends>>
    BY <2>3 DEF ProcessEnds, Waits, clientVars, ChildEnds, Worker, StartTask, UnpackFails,
                Communicated, TimeoutExpires, Reap
  <2>4. CASE UNCHANGED batchVars
    BY <2>4 DEF batchVars, vars, clientVars
  <2> QED
    BY <2>1, <2>2, <2>3, <2>4 DEF ClientNext
<1> QED
  BY <1>1, <1>2, PTL DEF ClientSpec

\* A process ends in a way the runner knows.
LEMMA KnownEnds ==
  ASSUME EndsOK, NEW s \in Sources
  PROVE  HowOf(ends[s]) \in {"OK", "FAIL", "undecodable"}
<1>1. CASE client = "compile"
  <2>1. ends \in [Sources -> {"OK", "FAIL", "undecodable"}]
    BY <1>1, ClientsAssumption DEF EndsOK
  <2> QED
    BY <1>1, <2>1 DEF HowOf
<1>2. CASE client # "compile"
  BY <1>2 DEF HowOf
<1> QED
  BY <1>1, <1>2

(***************************************************************************)
(* Both programs, compile.py and runTestForDump.py, use the runner as      *)
(* parallel.py has it: what is proved of the runner holds in them.         *)
(***************************************************************************)
THEOREM ClientsRun == ClientSpec => Spec
<1>1. ClientInit => Init
  BY DEF ClientInit
<1>2. EndsOK /\ [ClientNext]_batchVars => [Next]_vars
  <2> SUFFICES ASSUME EndsOK, [ClientNext]_batchVars PROVE Next \/ UNCHANGED vars
    OBVIOUS
  <2>1. CASE Runs
    BY <2>1 DEF Runs, Next
  <2>2. CASE Summary
    BY <2>2 DEF Summary
  <2>3. ASSUME NEW s \in Sources, ProcessEnds(s) PROVE Next
    <3>1. Child(s)
      BY <2>3, KnownEnds DEF ProcessEnds, Child
    <3> QED
      BY <3>1 DEF Next
  <2>4. ASSUME NEW s \in Sources, Waits(s) PROVE Next
    BY <2>4 DEF Waits, Next
  <2>5. CASE UNCHANGED batchVars
    BY <2>5 DEF batchVars
  <2> QED
    BY <2>1, <2>2, <2>3, <2>4, <2>5 DEF ClientNext
<1> QED
  BY <1>1, <1>2, EndsKept, PTL DEF ClientSpec, Spec

-----------------------------------------------------------------------------
(* Verdicts. *)

\* A call of on_result is one more report, of a source and a status.
LEMMA CallMade ==
  ASSUME TypeOK, Main, reported' # reported
  PROVE  \E s \in Sources, status \in Statuses : reported' = Append(reported, <<s, status>>)
<1>1. ASSUME NEW s \in Sources, Collect(s)
      PROVE  \E status \in Statuses : reported' = Append(reported, <<s, status>>)
  <2>1. CASE result[s].status \in {"raises", "TIMEOUT"}
    BY <1>1, <2>1 DEF Collect, KeepsTimeout
  <2>2. CASE result[s].status \notin {"raises", "TIMEOUT"}
    BY <1>1, <2>2 DEF Collect, TypeOK, RunsOK
  <2> QED
    BY <2>1, <2>2
<1>2. ASSUME NEW s \in Sources, ReportTimeout(s) PROVE reported' = Append(reported, <<s, "TIMEOUT">>)
  BY <1>2 DEF ReportTimeout
<1>3. "TIMEOUT" \in Statuses
  BY DEF Statuses
<1> QED
  BY <1>1, <1>2, <1>3 DEF Main, StepBegin, StepEnd, Crash, End

\* What the result of a dump is filed as.
Verdict(s, status) == IF status = "TIMEOUT" THEN "TIMEOUT" ELSE StatusOf(ends[s])

LEMMA VerdictType == \A e : StatusOf(e) \in (ErrorLabels \ {"TIMEOUT", "MISSING"}) \union {"OK", "FAIL"}
<1> TAKE e
<1>1. ClassifyError(e) \in ErrorLabels \ {"TIMEOUT", "MISSING"}
  BY DEF ClassifyError, ErrorLabels
<1> QED
  BY <1>1 DEF StatusOf

\* What answers a query, or the empty one, has said before that it is ready.
LEMMA ReadyFirst ==
  ASSUME NEW e \in BackendEnds
  PROVE  e.init = "done" \/ (e.answer = "none" /\ ~e.empty)
<1>1. CASE e \in {BackendEnd(i, "none", FALSE, "1", 0) : i \in {"error", "ERROR", "none"}}
  <2>1. PICK i \in {"error", "ERROR", "none"} : e = BackendEnd(i, "none", FALSE, "1", 0)
    BY <1>1
  <2> QED
    BY <2>1 DEF BackendEnd
<1>2. CASE e \in {BackendEnd(is[1], "none", FALSE, is[2], 0) : is \in {"none", "done"} \X {"SIGSEGV", "SIGABRT", "SIGTERM"}}
  <2>1. PICK is \in {"none", "done"} \X {"SIGSEGV", "SIGABRT", "SIGTERM"} : e = BackendEnd(is[1], "none", FALSE, is[2], 0)
    BY <1>2
  <2> QED
    BY <2>1 DEF BackendEnd
<1>3. CASE e \in {BackendEnd("done", a, TRUE, "0", 0) : a \in {"error", "ERROR"}}
  BY <1>3 DEF BackendEnd
<1>4. CASE e \in {BackendEnd("done", "counts", TRUE, "0", n) : n \in 0..2}
  BY <1>4 DEF BackendEnd
<1>5. CASE e \in {BackendEnd("done", "counts", b, "SIGSEGV", 0) : b \in BOOLEAN}
  BY <1>5 DEF BackendEnd
<1>6. CASE e \in {BackendEnd("done", "bytes", TRUE, "0", 0)}
  BY <1>6 DEF BackendEnd
<1> QED
  BY <1>1, <1>2, <1>3, <1>4, <1>5, <1>6 DEF BackendEnds

\* Each of the ways a backend can end is seen for what it is.
LEMMA VerdictIsTrue ==
  ASSUME NEW e \in BackendEnds
  PROVE  LET l == StatusOf(e) IN
         /\ l \in {"OK", "FAIL"} => e.rc = "0" /\ e.answer = "counts" /\ (l = "OK" <=> e.fails = 0)
         /\ l \in {"INIT_NAMED", "INIT_ERROR", "INIT_SEGFAULT", "INIT_ABORT", "INIT_OTHER"} <=> e.init # "done"
         /\ l \in {"INIT_SEGFAULT", "QUERY_SEGFAULT"} => e.rc = "SIGSEGV"
<1>1. CASE Matches(e)
  <2>1. e.init = "done"
    BY <1>1, ReadyFirst DEF Matches
  <2> QED
    BY <1>1, <2>1 DEF StatusOf, Matches
<1>2. CASE ~Matches(e)
  <2>1. StatusOf(e) = ClassifyError(e)
    BY <1>2 DEF StatusOf
  <2>2. e.answer \in {"error", "ERROR"} \/ e.empty => e.init = "done"
    BY ReadyFirst
  <2>3. StatusOf(e) \notin {"OK", "FAIL"}
    BY <2>1 DEF ClassifyError
  <2>4. StatusOf(e) \in {"INIT_NAMED", "INIT_ERROR", "INIT_SEGFAULT", "INIT_ABORT", "INIT_OTHER"} <=> e.init # "done"
    BY <2>1, <2>2 DEF ClassifyError
  <2>5. StatusOf(e) \in {"INIT_SEGFAULT", "QUERY_SEGFAULT"} => e.rc = "SIGSEGV"
    BY <2>1 DEF ClassifyError
  <2> QED
    BY <2>3, <2>4, <2>5
<1> QED
  BY <1>1, <1>2

\* A row is of a source or of what was left out, with a status or an error.
RowSet == [src    : Sources \union LeftOutSet,
           status : ErrorLabels \union {"OK", "FAIL"}]

\* A result of a dump is one row more: the verdict on it.
LEMMA RowAdded ==
  ASSUME NEW s \in Sources, NEW status, DumpResult(s, status)
  PROVE  rows' = Append(rows, Row(s, Verdict(s, status)))
<1>1. CASE status = "TIMEOUT"
  BY <1>1 DEF DumpResult, Verdict, Fails
<1>2. CASE status # "TIMEOUT"
  <2>1. Verdict(s, status) = StatusOf(ends[s])
    BY <1>2 DEF Verdict
  <2>2. CASE StatusOf(ends[s]) = "OK"
    BY <1>2, <2>1, <2>2 DEF DumpResult, DumpPassed
  <2>3. CASE StatusOf(ends[s]) = "FAIL"
    BY <1>2, <2>1, <2>3 DEF DumpResult, DumpFailed
  <2>4. CASE StatusOf(ends[s]) \notin {"OK", "FAIL"}
    BY <1>2, <2>1, <2>4 DEF DumpResult, Fails
  <2> QED
    BY <2>2, <2>3, <2>4
<1> QED
  BY <1>1, <1>2

LEMMA VerdictRow ==
  ASSUME NEW s \in Sources, NEW status
  PROVE  /\ Row(s, Verdict(s, status)) \in RowSet
         /\ Row(s, Verdict(s, status)).src = s
         /\ Row(s, Verdict(s, status)).status = Verdict(s, status)
<1>1. Verdict(s, status) \in ErrorLabels \union {"OK", "FAIL"}
  BY VerdictType DEF Verdict, ErrorLabels
<1> QED
  BY <1>1 DEF Row, RowSet

VerdictsInv == (client = "dump" => rows \in Seq(RowSet)) /\ VerdictsTrue

LEMMA FirstVerdicts == ClientInit => VerdictsInv
<1> SUFFICES ASSUME ClientInit, client = "dump" PROVE VerdictsInv
  BY DEF VerdictsInv, VerdictsTrue
<1> DEFINE n == Len(LeftOut)
<1>1. n \in Nat /\ \A i \in 1..n : LeftOut[i] \notin Sources
  BY ClientsAssumption
<1>2. rows = [i \in 1..n |-> Row(LeftOut[i], "MISSING")]
  BY DEF ClientInit
<1>3. \A i \in 1..n : Row(LeftOut[i], "MISSING") \in RowSet /\ Row(LeftOut[i], "MISSING").src = LeftOut[i]
  BY DEF Row, RowSet, ErrorLabels, LeftOutSet
<1> HIDE DEF n
<1>4. rows \in Seq(RowSet) /\ Len(rows) = n
  BY <1>1, <1>2, <1>3
<1>5. \A i \in 1..Len(rows) : rows[i].src \notin Sources
  BY <1>1, <1>2, <1>3, <1>4
<1> QED
  BY <1>4, <1>5 DEF VerdictsInv, VerdictsTrue

LEMMA NextVerdict ==
  ASSUME VerdictsInv, EndsOK, client = "dump", UNCHANGED <<client, ends>>,
         NEW s \in Sources, NEW status, DumpResult(s, status)
  PROVE  VerdictsInv'
<1> DEFINE row == Row(s, Verdict(s, status))
<1>1. rows' = Append(rows, row) /\ rows \in Seq(RowSet)
  BY RowAdded DEF VerdictsInv
<1>2. row \in RowSet /\ row.src = s /\ row.status = Verdict(s, status)
  BY VerdictRow
<1>3. ends[s] \in BackendEnds
  BY ClientsAssumption DEF EndsOK
<1>4. LET l == row.status  e == ends[row.src] IN
      row.src \in Sources /\ l # "TIMEOUT" =>
        /\ l \in {"OK", "FAIL"} => e.rc = "0" /\ e.answer = "counts" /\ (l = "OK" <=> e.fails = 0)
        /\ l \in {"INIT_NAMED", "INIT_ERROR", "INIT_SEGFAULT", "INIT_ABORT", "INIT_OTHER"} <=> e.init # "done"
        /\ l \in {"INIT_SEGFAULT", "QUERY_SEGFAULT"} => e.rc = "SIGSEGV"
  <2>1. CASE status = "TIMEOUT"
    BY <1>2, <2>1 DEF Verdict
  <2>2. CASE status # "TIMEOUT"
    <3>1. row.status = StatusOf(ends[s])
      BY <1>2, <2>2 DEF Verdict
    <3> QED
      BY <1>2, <1>3, <3>1, VerdictIsTrue
  <2> QED
    BY <2>1, <2>2
<1> HIDE DEF row
<1>5. rows' \in Seq(RowSet) /\ Len(rows') = Len(rows) + 1
  BY <1>1, <1>2
<1>6. \A i \in 1..Len(rows') : rows'[i] = IF i = Len(rows) + 1 THEN row ELSE rows[i]
  BY <1>1, <1>2
<1>7. VerdictsTrue'
  <2> SUFFICES ASSUME NEW i \in 1..Len(rows')
               PROVE  LET l == rows'[i].status  e == ends[rows'[i].src] IN
                      rows'[i].src \in Sources /\ l # "TIMEOUT" =>
                        /\ l \in {"OK", "FAIL"} => e.rc = "0" /\ e.answer = "counts" /\ (l = "OK" <=> e.fails = 0)
                        /\ l \in {"INIT_NAMED", "INIT_ERROR", "INIT_SEGFAULT", "INIT_ABORT", "INIT_OTHER"} <=> e.init # "done"
                        /\ l \in {"INIT_SEGFAULT", "QUERY_SEGFAULT"} => e.rc = "SIGSEGV"
    BY DEF VerdictsTrue
  <2>1. CASE i = Len(rows) + 1
    BY <1>4, <1>6, <2>1
  <2>2. CASE i # Len(rows) + 1
    <3>1. i \in 1..Len(rows) /\ rows'[i] = rows[i]
      BY <1>1, <1>5, <1>6, <2>2
    <3> QED
      BY <3>1 DEF VerdictsInv, VerdictsTrue
  <2> QED
    BY <2>1, <2>2
<1> QED
  BY <1>5, <1>7 DEF VerdictsInv

(***************************************************************************)
(* What runTestForDump.py says of a dump is true of how its process ended, *)
(* whatever the order in which results come, the sources left out and the  *)
(* ends of the processes.                                                  *)
(***************************************************************************)
THEOREM VerdictsHold == ClientSpec => []VerdictsTrue
<1>1. ClientInit => VerdictsInv
  BY FirstVerdicts
<1>2. VerdictsInv /\ EndsOK /\ TypeOK /\ [ClientNext]_batchVars => VerdictsInv'
  <2> SUFFICES ASSUME VerdictsInv, EndsOK, TypeOK, [ClientNext]_batchVars PROVE VerdictsInv'
    OBVIOUS
  <2>1. CASE UNCHANGED <<client, ends, rows>>
    BY <2>1 DEF VerdictsInv, VerdictsTrue
  <2>2. CASE Runs
    <3>1. UNCHANGED <<client, ends>>
      BY <2>2 DEF Runs, Main, StepBegin, Collect, ReportTimeout, StepEnd, Crash, End
    <3>2. CASE reported' = reported
      BY <2>1, <2>2, <3>1, <3>2 DEF Runs, tableVars
    <3>3. CASE reported' # reported
      <4>1. PICK s \in Sources, status \in Statuses : reported' = Append(reported, <<s, status>>)
        BY <2>2, <3>3, CallMade DEF Runs
      <4>2. reported'[Len(reported')] = <<s, status>>
        BY <4>1, ReportType DEF TypeOK
      <4>3. OnResult(<<s, status>>)
        BY <2>2, <3>3, <4>2 DEF Runs
      <4>4. CASE client = "dump"
        <5>1. DumpResult(s, status)
          BY <4>3, <4>4 DEF OnResult
        <5> QED
          BY <3>1, <4>4, <5>1, NextVerdict
      <4>5. CASE client # "dump"
        BY <3>1, <4>5 DEF VerdictsInv, VerdictsTrue
      <4> QED
        BY <4>4, <4>5
    <3> QED
      BY <3>2, <3>3
  <2>3. CASE Summary
    BY <2>1, <2>3 DEF Summary, vars, tableVars
  <2>4. ASSUME NEW s \in Sources, ProcessEnds(s) \/ Waits(s) PROVE UNCHANGED <<client, ends, rows>>
    BY <2>4 DEF ProcessEnds, Waits, clientVars, tableVars, ChildEnds, Worker, StartTask, UnpackFails,
                Communicated, TimeoutExpires, Reap
  <2>5. CASE UNCHANGED batchVars
    BY <2>1, <2>5 DEF batchVars, vars, clientVars, tableVars
  <2> QED
    BY <2>1, <2>2, <2>3, <2>4, <2>5 DEF ClientNext
<1>3. VerdictsInv => VerdictsTrue
  BY DEF VerdictsInv
<1> QED
  BY <1>1, <1>2, <1>3, EndsKept, ClientsRun, TypeCorrect, PTL DEF ClientSpec

-----------------------------------------------------------------------------
(* The tables of the programs. *)

Elems(q) == {q[i] : i \in 1..Len(q)}

\* Those for which on_result was called, and was told "OK".
Called  == {reported[i][1] : i \in 1..Len(reported)}
OkCalls == {s \in Sources : \E i \in 1..Len(reported) : reported[i] = <<s, "OK">>}

\* The sources in a table: of rows, and of pairs.
RowSources(table)  == {e.src : e \in Elems(table)}
PairSources(table) == {p[1] : p \in Elems(table)}

\* Progress and the counts of compile.py follow the calls.
Counted ==
  /\ Len(reported) = Cardinality(Called)
  /\ finalized = Len(LeftOut) + Len(reported)
  /\ client = "compile" =>
       /\ tally \in [ok : Nat, fail : Nat, skip : Nat]
       /\ tally.skip = Len(LeftOut)
       /\ tally.ok + tally.fail = Len(reported)
       /\ tally.ok = Cardinality(OkCalls)

TablesType ==
  /\ rows \in Seq(RowSet) /\ errors \in Seq(RowSet)
  /\ records \in Seq(Sources \X Nat) /\ failures \in Seq(Sources \X Nat)
  /\ errorCounts \in [ErrorLabels -> Nat]

\* Each dump that is done with has a row of its own, and the other tables are
\* those of the rows.
Agreed ==
  /\ RowSources(rows) = LeftOutSet \union Called
  /\ \A i, j \in 1..Len(rows) : rows[i].src = rows[j].src => i = j
  /\ RowSources(errors) = UNION {Judged(l) : l \in ErrorLabels}
  /\ \A l \in ErrorLabels : errorCounts[l] = Cardinality(Judged(l))
  /\ PairSources(failures) = Judged("FAIL")
  /\ PairSources(records) = Judged("FAIL") \union Judged("OK")

\* The exit status is that of the tables as they stay.
Settled ==
  exit # "none" =>
    /\ Over
    /\ main = "ended" /\ client = "dump" => (exit = "0" <=> failures = <<>> /\ errors = <<>>)

Books == Counted /\ (client = "dump" => TablesType /\ Agreed) /\ Settled

LEMMA ElemsAppend ==
  ASSUME NEW S, NEW q \in Seq(S), NEW x \in S
  PROVE  Elems(Append(q, x)) = Elems(q) \union {x}
<1>1. Len(q) \in Nat /\ Len(Append(q, x)) = Len(q) + 1
  OBVIOUS
<1>2. \A i \in 1..Len(q) + 1 : Append(q, x)[i] = IF i = Len(q) + 1 THEN x ELSE q[i]
  OBVIOUS
<1>3. 1..Len(q) + 1 = 1..Len(q) \union {Len(q) + 1} /\ Len(q) + 1 \notin 1..Len(q)
  BY <1>1
<1> QED
  BY <1>1, <1>2, <1>3 DEF Elems

LEMMA RowSourcesAppend ==
  ASSUME NEW table \in Seq(RowSet), NEW row \in RowSet
  PROVE  RowSources(Append(table, row)) = RowSources(table) \union {row.src}
  BY ElemsAppend DEF RowSources

LEMMA PairSourcesAppend ==
  ASSUME NEW table \in Seq(Sources \X Nat), NEW s \in Sources, NEW n \in Nat
  PROVE  PairSources(Append(table, <<s, n>>)) = PairSources(table) \union {s}
<1>1. <<s, n>> \in Sources \X Nat /\ <<s, n>>[1] = s
  OBVIOUS
<1> HIDE DEF PairSources
<1>2. Elems(Append(table, <<s, n>>)) = Elems(table) \union {<<s, n>>}
  BY <1>1, ElemsAppend
<1> QED
  BY <1>1, <1>2 DEF PairSources

\* One row more is one source more with its status.
LEMMA JudgedAppend ==
  ASSUME rows \in Seq(RowSet), NEW row \in RowSet, rows' = Append(rows, row), NEW l
  PROVE  /\ l = row.status => Judged(l)' = Judged(l) \union {row.src}
         /\ l # row.status => Judged(l)' = Judged(l)
<1>1. Len(rows) \in Nat /\ Len(rows') = Len(rows) + 1
  OBVIOUS
<1>2. \A i \in 1..Len(rows) + 1 : rows'[i] = IF i = Len(rows) + 1 THEN row ELSE rows[i]
  OBVIOUS
<1>3. 1..Len(rows) + 1 = 1..Len(rows) \union {Len(rows) + 1} /\ Len(rows) + 1 \notin 1..Len(rows)
  BY <1>1
<1>4. {j \in 1..Len(rows') : rows'[j].status = l} =
      {j \in 1..Len(rows) : rows[j].status = l} \union (IF row.status = l THEN {Len(rows) + 1} ELSE {})
  BY <1>1, <1>2, <1>3
<1> QED
  BY <1>2, <1>3, <1>4 DEF Judged

LEMMA CalledAppend ==
  ASSUME RunsOK, NEW s \in Sources, NEW status \in Statuses, reported' = Append(reported, <<s, status>>)
  PROVE  /\ Len(reported) \in Nat /\ Len(reported') = Len(reported) + 1
         /\ Called' = Called \union {s}
         /\ status = "OK" => OkCalls' = OkCalls \union {s}
         /\ status # "OK" => OkCalls' = OkCalls
<1>1. Len(reported) \in Nat /\ Len(reported') = Len(reported) + 1
  BY ReportType
<1>2. \A i \in 1..Len(reported) : reported'[i] = reported[i]
  BY ReportType
<1>3. reported'[Len(reported) + 1] = <<s, status>>
  BY ReportType
<1>4. 1..Len(reported') = 1..Len(reported) \union {Len(reported) + 1}
  BY <1>1
<1>5. Called' = Called \union {s}
  BY <1>2, <1>3, <1>4 DEF Called
<1>6. \A t \in Sources :
        (\E i \in 1..Len(reported') : reported'[i] = <<t, "OK">>)
        <=> (\E i \in 1..Len(reported) : reported[i] = <<t, "OK">>) \/ <<s, status>> = <<t, "OK">>
  BY <1>2, <1>3, <1>4
<1>7. status = "OK" => OkCalls' = OkCalls \union {s}
  BY <1>6 DEF OkCalls
<1>8. status # "OK" => OkCalls' = OkCalls
  BY <1>6 DEF OkCalls
<1> QED
  BY <1>1, <1>5, <1>7, <1>8

\* The sets that are counted are finite.
LEMMA Countable ==
  /\ IsFiniteSet(LeftOutSet) /\ Cardinality(LeftOutSet) = Len(LeftOut)
  /\ LeftOutSet \intersect Sources = {}
  /\ IsFiniteSet(Sources \union LeftOutSet)
  /\ Cardinality(Sources \union LeftOutSet) = Cardinality(Sources) + Len(LeftOut)
<1> DEFINE n == Len(LeftOut)
           f == [i \in 1..n |-> LeftOut[i]]
<1>1. n \in Nat
  BY ClientsAssumption
<1>2. IsFiniteSet(1..n) /\ Cardinality(1..n) = n
  BY <1>1, FS_Interval
<1>3. f \in Bijection(1..n, LeftOutSet)
  <2>1. \A i, j \in 1..n : f[i] = f[j] => i = j
    BY ClientsAssumption
  <2>2. f \in [1..n -> LeftOutSet] /\ \A x \in LeftOutSet : \E i \in 1..n : f[i] = x
    BY DEF LeftOutSet
  <2> HIDE DEF f, n
  <2> QED
    BY <2>1, <2>2 DEF Bijection, Injection, Surjection, IsInjective
<1>4. IsFiniteSet(LeftOutSet) /\ Cardinality(LeftOutSet) = Len(LeftOut)
  <2>1. n = Len(LeftOut)
    OBVIOUS
  <2> HIDE DEF f, n
  <2>2. IsFiniteSet(LeftOutSet) /\ Cardinality(LeftOutSet) = Cardinality(1..n)
    BY <1>2, <1>3, FS_Bijection DEF ExistsBijection
  <2> QED
    BY <1>2, <2>1, <2>2
<1>5. LeftOutSet \intersect Sources = {}
  BY ClientsAssumption DEF LeftOutSet
<1>6. IsFiniteSet(Sources) /\ Cardinality(Sources) \in Nat
  BY BatchAssumption, FS_CardinalityType
<1>7. /\ IsFiniteSet(Sources \union LeftOutSet)
      /\ Cardinality(Sources \union LeftOutSet) =
           Cardinality(Sources) + Cardinality(LeftOutSet) - Cardinality(Sources \intersect LeftOutSet)
  BY <1>4, <1>6, FS_Union
<1>8. Cardinality(Sources \intersect LeftOutSet) = 0
  BY <1>5, FS_EmptySet
<1> QED
  BY <1>1, <1>4, <1>5, <1>6, <1>7, <1>8

LEMMA CalledFinite ==
  ASSUME RunsOK
  PROVE  /\ Called \subseteq Sources /\ IsFiniteSet(Called) /\ Cardinality(Called) \in Nat
         /\ OkCalls \subseteq Called /\ IsFiniteSet(OkCalls) /\ Cardinality(OkCalls) \in Nat
<1>1. \A i \in 1..Len(reported) : reported[i] \in Sources \X Statuses
  BY DEF RunsOK
<1>2. Called \subseteq Sources
  BY <1>1 DEF Called
<1>3. OkCalls \subseteq Called
  BY <1>1 DEF Called, OkCalls
<1> QED
  BY <1>2, <1>3, BatchAssumption, FS_Subset, FS_CardinalityType

LEMMA JudgedFinite ==
  ASSUME rows \in Seq(RowSet), NEW l
  PROVE  /\ Judged(l) \subseteq RowSources(rows)
         /\ IsFiniteSet(Judged(l)) /\ Cardinality(Judged(l)) \in Nat
<1>1. \A i \in 1..Len(rows) : rows[i] \in RowSet /\ rows[i] \in Elems(rows)
  BY DEF Elems
<1>2. Judged(l) \subseteq RowSources(rows)
  BY <1>1 DEF Judged, RowSources
<1>3. Judged(l) \subseteq Sources \union LeftOutSet
  BY <1>1 DEF Judged, RowSet
<1> QED
  BY <1>2, <1>3, Countable, FS_Subset, FS_CardinalityType

\* A source that gets its first report had none.
LEMMA FirstReport ==
  ASSUME RunsOK, NEW s \in Sources, NEW status \in Statuses, reported' = Append(reported, <<s, status>>),
         Truthful(s)'
  PROVE  s \notin Called
<1>1. Len(reported) \in Nat /\ Len(reported') = Len(reported) + 1
  BY ReportType
<1>2. \A i \in 1..Len(reported) : reported'[i] = reported[i]
  BY ReportType
<1>3. reported'[Len(reported) + 1][1] = s
  BY ReportType
<1>4. ASSUME NEW i \in 1..Len(reported), reported[i][1] = s PROVE FALSE
  <2>1. i \in 1..Len(reported') /\ Len(reported) + 1 \in 1..Len(reported')
    BY <1>1
  <2>2. i = Len(reported) + 1
    BY <1>2, <1>3, <1>4, <2>1 DEF Truthful
  <2> QED
    BY <1>1, <2>2
<1> QED
  BY <1>4 DEF Called

LEMMA NextCounted ==
  ASSUME RunsOK, Counted, client' = client, NEW s \in Sources, NEW status \in Statuses, s \notin Called,
         reported' = Append(reported, <<s, status>>), finalized' = finalized + 1,
         client = "compile" => CompileResult(status)
  PROVE  Counted'
<1>1. /\ Len(reported) \in Nat /\ Len(reported') = Len(reported) + 1
      /\ Called' = Called \union {s}
  BY CalledAppend
<1>2. \A S, x : IsFiniteSet(S) /\ x \notin S => Cardinality(S \union {x}) = Cardinality(S) + 1
  BY FS_AddElement
<1>3. Len(reported') = Cardinality(Called')
  <2>1. IsFiniteSet(Called) /\ Cardinality(Called) = Len(reported)
    BY CalledFinite DEF Counted
  <2>2. Cardinality(Called \union {s}) = Cardinality(Called) + 1
    BY <1>2, <2>1
  <2>3. Cardinality(Called') = Len(reported) + 1
    BY <1>1, <2>1, <2>2
  <2>4. Len(reported') = Len(reported) + 1
    BY <1>1
  <2> QED
    BY <2>3, <2>4, Zenon
<1>4. finalized' = Len(LeftOut) + Len(reported')
  <2>1. finalized = Len(LeftOut) + Len(reported)
    BY DEF Counted
  <2>2. Len(LeftOut) \in Nat
    BY ClientsAssumption
  <2> QED
    BY <1>1, <2>1, <2>2
<1>5. ASSUME client = "compile"
      PROVE  /\ tally' \in [ok : Nat, fail : Nat, skip : Nat]
             /\ tally'.skip = Len(LeftOut)
             /\ tally'.ok + tally'.fail = Len(reported')
             /\ tally'.ok = Cardinality(OkCalls')
  <2>1. /\ tally \in [ok : Nat, fail : Nat, skip : Nat]
        /\ tally.skip = Len(LeftOut)
        /\ tally.ok + tally.fail = Len(reported)
        /\ tally.ok = Cardinality(OkCalls)
    BY <1>5 DEF Counted
  <2>2. CASE status = "OK"
    <3>1. tally' = [tally EXCEPT !.ok = @ + 1]
      BY <1>5, <2>2 DEF CompileResult
    <3>2. OkCalls' = OkCalls \union {s}
      BY <2>2, CalledAppend
    <3>3. Cardinality(OkCalls') = Cardinality(OkCalls) + 1
      BY <1>2, <3>2, CalledFinite
    <3>4. /\ tally'.ok = tally.ok + 1 /\ tally'.fail = tally.fail /\ tally'.skip = tally.skip
          /\ tally' \in [ok : Nat, fail : Nat, skip : Nat]
      BY <2>1, <3>1
    <3>5. tally.ok \in Nat /\ tally.fail \in Nat
      BY <2>1
    <3>6. tally'.ok = Cardinality(OkCalls')
      BY <2>1, <3>3, <3>4
    <3>7. tally'.ok + tally'.fail = Len(reported')
      BY <1>1, <2>1, <3>4, <3>5
    <3> QED
      BY <2>1, <3>4, <3>6, <3>7
  <2>3. CASE status # "OK"
    <3>1. tally' = [tally EXCEPT !.fail = @ + 1]
      BY <1>5, <2>3 DEF CompileResult
    <3>2. OkCalls' = OkCalls
      BY <2>3, CalledAppend
    <3> QED
      BY <1>1, <2>1, <3>1, <3>2
  <2> QED
    BY <2>2, <2>3
<1> QED
  BY <1>3, <1>4, <1>5 DEF Counted

\* How many failures a backend prints.
LEMMA FailsType == \A e \in BackendEnds : e.fails \in Nat
  BY DEF BackendEnds, BackendEnd

\* A verdict is one row more, and an entry of each table it belongs to.
Filed(s, v, n) ==
  /\ rows' = Append(rows, Row(s, v))
  /\ v \in ErrorLabels =>
       /\ errors' = Append(errors, Row(s, v)) /\ errorCounts' = [errorCounts EXCEPT ![v] = @ + 1]
       /\ UNCHANGED <<records, failures>>
  /\ v = "FAIL" =>
       /\ records' = Append(records, <<s, n>>) /\ failures' = Append(failures, <<s, n>>)
       /\ UNCHANGED <<errors, errorCounts>>
  /\ v = "OK" => records' = Append(records, <<s, 0>>) /\ UNCHANGED <<failures, errors, errorCounts>>

LEMMA DumpFiled ==
  ASSUME EndsOK, client = "dump", NEW s \in Sources, NEW status, DumpResult(s, status)
  PROVE  \E v \in ErrorLabels \union {"OK", "FAIL"}, n \in Nat : Filed(s, v, n)
<1> DEFINE v == Verdict(s, status)
           n == ends[s].fails
<1>1. v \in ErrorLabels \union {"OK", "FAIL"}
  BY VerdictType DEF Verdict, ErrorLabels
<1>2. n \in Nat
  BY ClientsAssumption, FailsType DEF EndsOK
<1>3. rows' = Append(rows, Row(s, v))
  BY RowAdded
<1>4. Filed(s, v, n)
  <2>1. CASE status = "TIMEOUT"
    <3>1. v = "TIMEOUT" /\ Fails(s, v) /\ UNCHANGED <<records, failures>>
      BY <2>1 DEF DumpResult, Verdict
    <3> QED
      BY <3>1 DEF Filed, Fails
  <2>2. CASE status # "TIMEOUT"
    <3>1. v = StatusOf(ends[s])
      BY <2>2 DEF Verdict
    <3>2. CASE v = "OK"
      <4>1. DumpPassed(s)
        BY <2>2, <3>1, <3>2 DEF DumpResult
      <4> QED
        BY <1>3, <3>2, <4>1 DEF DumpPassed, ErrorLabels, Filed
    <3>3. CASE v = "FAIL"
      <4>1. DumpFailed(s)
        BY <2>2, <3>1, <3>3 DEF DumpResult
      <4> QED
        BY <1>3, <3>3, <4>1 DEF DumpFailed, ErrorLabels, Filed
    <3>4. CASE v \notin {"OK", "FAIL"}
      <4>1. Fails(s, v) /\ UNCHANGED <<records, failures>>
        BY <2>2, <3>1, <3>4 DEF DumpResult
      <4> QED
        BY <3>4, <4>1 DEF Fails, Filed
    <3> QED
      BY <3>2, <3>3, <3>4
  <2> QED
    BY <2>1, <2>2
<1> HIDE DEF v, n
<1> QED
  BY <1>1, <1>2, <1>4

LEMMA MorePairs ==
  ASSUME NEW table \in Seq(Sources \X Nat), NEW p \in Sources \X Nat
  PROVE  Append(table, p) \in Seq(Sources \X Nat)
  OBVIOUS

LEMMA NextTablesType ==
  ASSUME TablesType, NEW s \in Sources, NEW v \in ErrorLabels \union {"OK", "FAIL"}, NEW n \in Nat,
         Filed(s, v, n)
  PROVE  TablesType'
<1>1. rows' = Append(rows, Row(s, v)) /\ Row(s, v) \in RowSet
  BY DEF Filed, Row, RowSet
<1>2. v \in ErrorLabels \union {"OK", "FAIL"} /\ n \in Nat
  OBVIOUS
<1>3. v \in ErrorLabels =>
        /\ errors' = Append(errors, Row(s, v)) /\ errorCounts' = [errorCounts EXCEPT ![v] = @ + 1]
        /\ UNCHANGED <<records, failures>>
  BY DEF Filed
<1>4. v = "FAIL" =>
        /\ records' = Append(records, <<s, n>>) /\ failures' = Append(failures, <<s, n>>)
        /\ UNCHANGED <<errors, errorCounts>>
  BY DEF Filed
<1>5. v = "OK" => records' = Append(records, <<s, 0>>) /\ UNCHANGED <<failures, errors, errorCounts>>
  BY DEF Filed
<1>6. <<s, n>> \in Sources \X Nat /\ <<s, 0>> \in Sources \X Nat
  BY <1>2
<1>7. rows' \in Seq(RowSet)
  BY <1>1 DEF TablesType
<1>8. CASE v \in ErrorLabels
  <2>1. errors' \in Seq(RowSet)
    <3>1. errors \in Seq(RowSet) /\ errors' = Append(errors, Row(s, v))
      BY <1>3, <1>8 DEF TablesType
    <3> QED
      BY <1>1, <3>1
  <2>2. errorCounts' \in [ErrorLabels -> Nat]
    <3>1. errorCounts \in [ErrorLabels -> Nat] /\ errorCounts' = [errorCounts EXCEPT ![v] = @ + 1]
      BY <1>3, <1>8 DEF TablesType
    <3>2. errorCounts[v] + 1 \in Nat
      BY <1>8, <3>1
    <3> QED
      BY <3>1, <3>2
  <2>3. records' = records /\ failures' = failures
    BY <1>3, <1>8
  <2> QED
    BY <1>7, <2>1, <2>2, <2>3 DEF TablesType
<1>9. CASE v = "FAIL"
  <2>1. records' = Append(records, <<s, n>>) /\ failures' = Append(failures, <<s, n>>)
    BY <1>4, <1>9
  <2>2. records' \in Seq(Sources \X Nat) /\ failures' \in Seq(Sources \X Nat)
    BY <1>6, <2>1, MorePairs DEF TablesType
  <2>3. errors' = errors /\ errorCounts' = errorCounts
    BY <1>4, <1>9
  <2> QED
    BY <1>7, <2>2, <2>3 DEF TablesType
<1>10. CASE v = "OK"
  <2>1. records' = Append(records, <<s, 0>>)
    BY <1>5, <1>10
  <2>2. records' \in Seq(Sources \X Nat)
    BY <1>6, <2>1, MorePairs DEF TablesType
  <2>3. failures' = failures /\ errors' = errors /\ errorCounts' = errorCounts
    BY <1>5, <1>10
  <2> QED
    BY <1>7, <2>2, <2>3 DEF TablesType
<1> QED
  BY <1>2, <1>8, <1>9, <1>10

LEMMA NextAgreed ==
  ASSUME TablesType, Agreed, NEW s \in Sources, s \notin Called, Called' = Called \union {s},
         NEW v \in ErrorLabels \union {"OK", "FAIL"}, NEW n \in Nat, Filed(s, v, n)
  PROVE  Agreed'
<1> DEFINE row == Row(s, v)
<1>1. rows' = Append(rows, row) /\ row \in RowSet /\ row.src = s /\ row.status = v
  BY DEF Filed, Row, RowSet
<1>2. v \in ErrorLabels \union {"OK", "FAIL"} /\ n \in Nat
  OBVIOUS
<1>3. v \in ErrorLabels =>
        /\ errors' = Append(errors, row) /\ errorCounts' = [errorCounts EXCEPT ![v] = @ + 1]
        /\ UNCHANGED <<records, failures>>
  BY DEF Filed
<1>4. v = "FAIL" =>
        /\ records' = Append(records, <<s, n>>) /\ failures' = Append(failures, <<s, n>>)
        /\ UNCHANGED <<errors, errorCounts>>
  BY DEF Filed
<1>5. v = "OK" => records' = Append(records, <<s, 0>>) /\ UNCHANGED <<failures, errors, errorCounts>>
  BY DEF Filed
<1> HIDE DEF row
<1>6. Called' = Called \union {s}
  OBVIOUS
<1>7. s \notin RowSources(rows)
  BY Countable DEF Agreed
<1>8. RowSources(rows') = RowSources(rows) \union {s}
  BY <1>1, RowSourcesAppend DEF TablesType
<1>9. RowSources(rows') = LeftOutSet \union Called'
  BY <1>6, <1>8 DEF Agreed
<1>10. \A i, j \in 1..Len(rows') : rows'[i].src = rows'[j].src => i = j
  <2>1. Len(rows) \in Nat /\ Len(rows') = Len(rows) + 1
    BY <1>1 DEF TablesType
  <2>2. \A i \in 1..Len(rows') : rows'[i] = IF i = Len(rows) + 1 THEN row ELSE rows[i]
    BY <1>1, <2>1 DEF TablesType
  <2>3. \A i \in 1..Len(rows) : rows[i].src # s
    BY <1>7 DEF RowSources, Elems
  <2>4. \A i \in 1..Len(rows') : i = Len(rows) + 1 \/ i \in 1..Len(rows)
    BY <2>1
  <2> QED
    BY <1>1, <2>2, <2>3, <2>4 DEF Agreed
<1>11. Judged(v)' = Judged(v) \union {s}
  BY <1>1, JudgedAppend DEF TablesType
<1>12. \A l : l # v => Judged(l)' = Judged(l)
  BY <1>1, JudgedAppend DEF TablesType
<1>13. "OK" \notin ErrorLabels /\ "FAIL" \notin ErrorLabels
  BY DEF ErrorLabels
<1>14. CASE v \in ErrorLabels
  <2>1. RowSources(errors') = RowSources(errors) \union {s}
    BY <1>1, <1>3, <1>14, RowSourcesAppend DEF TablesType
  <2>2. RowSources(errors') = UNION {Judged(l)' : l \in ErrorLabels}
    BY <1>11, <1>12, <1>14, <2>1 DEF Agreed
  <2>3. ASSUME NEW l \in ErrorLabels PROVE errorCounts'[l] = Cardinality(Judged(l)')
    <3>1. errorCounts' = [errorCounts EXCEPT ![v] = @ + 1] /\ errorCounts \in [ErrorLabels -> Nat]
      BY <1>3, <1>14 DEF TablesType
    <3>2. CASE l = v
      <4>1. s \notin Judged(v) /\ IsFiniteSet(Judged(v))
        BY <1>7, JudgedFinite DEF TablesType
      <4>2. Cardinality(Judged(v) \union {s}) = Cardinality(Judged(v)) + 1
        BY <4>1, FS_AddElement
      <4>3. errorCounts'[v] = errorCounts[v] + 1 /\ errorCounts[v] = Cardinality(Judged(v))
        BY <1>14, <3>1 DEF Agreed
      <4> QED
        BY <1>11, <3>2, <4>2, <4>3
    <3>3. CASE l # v
      <4>1. errorCounts'[l] = errorCounts[l]
        BY <3>1, <3>3
      <4> QED
        BY <1>12, <3>3, <4>1 DEF Agreed
    <3> QED
      BY <3>2, <3>3
  <2>4. PairSources(failures') = Judged("FAIL")' /\ PairSources(records') = Judged("FAIL")' \union Judged("OK")'
    BY <1>3, <1>12, <1>13, <1>14 DEF Agreed
  <2> QED
    BY <1>9, <1>10, <2>2, <2>3, <2>4 DEF Agreed
<1>15. CASE v \notin ErrorLabels
  <2>1. UNCHANGED <<errors, errorCounts>> /\ \A l \in ErrorLabels : Judged(l)' = Judged(l)
    BY <1>2, <1>4, <1>5, <1>12, <1>15
  <2>2. RowSources(errors') = UNION {Judged(l)' : l \in ErrorLabels}
    BY <2>1 DEF Agreed
  <2>3. \A l \in ErrorLabels : errorCounts'[l] = Cardinality(Judged(l)')
    BY <2>1 DEF Agreed
  <2>4. PairSources(failures') = Judged("FAIL")' /\ PairSources(records') = Judged("FAIL")' \union Judged("OK")'
    <3>1. CASE v = "FAIL"
      <4>1. PairSources(failures') = PairSources(failures) \union {s}
        <5>1. failures \in Seq(Sources \X Nat) /\ failures' = Append(failures, <<s, n>>)
          BY <1>4, <3>1 DEF TablesType
        <5> QED
          BY <5>1, PairSourcesAppend
      <4>2. PairSources(records') = PairSources(records) \union {s}
        <5>1. records \in Seq(Sources \X Nat) /\ records' = Append(records, <<s, n>>)
          BY <1>4, <3>1 DEF TablesType
        <5> QED
          BY <5>1, PairSourcesAppend
      <4>3. Judged("FAIL")' = Judged("FAIL") \union {s} /\ Judged("OK")' = Judged("OK")
        BY <1>11, <1>12, <3>1
      <4> QED
        BY <4>1, <4>2, <4>3 DEF Agreed
    <3>2. CASE v = "OK"
      <4>1. PairSources(records') = PairSources(records) \union {s} /\ failures' = failures
        <5>1. records \in Seq(Sources \X Nat) /\ records' = Append(records, <<s, 0>>) /\ failures' = failures
          BY <1>5, <3>2 DEF TablesType
        <5>2. 0 \in Nat
          OBVIOUS
        <5> QED
          BY <5>1, <5>2, PairSourcesAppend
      <4>2. Judged("OK")' = Judged("OK") \union {s} /\ Judged("FAIL")' = Judged("FAIL")
        BY <1>11, <1>12, <3>2
      <4> QED
        BY <4>1, <4>2 DEF Agreed
    <3> QED
      BY <1>2, <1>15, <3>1, <3>2
  <2> QED
    BY <1>9, <1>10, <2>2, <2>3, <2>4 DEF Agreed
<1> QED
  BY <1>14, <1>15

LEMMA FirstBooks == ClientInit => Books
<1> SUFFICES ASSUME ClientInit PROVE Books
  OBVIOUS
<1> DEFINE n == Len(LeftOut)
<1>1. n \in Nat
  BY ClientsAssumption
<1>2. reported = <<>> /\ finalized = n /\ exit = "none"
  BY DEF ClientInit, Init
<1>3. Len(reported) = 0 /\ Called = {} /\ OkCalls = {}
  BY <1>2 DEF Called, OkCalls
<1>4. Cardinality({}) = 0
  BY FS_EmptySet
<1>5. Counted
  <2>1. finalized = n + Len(reported)
    BY <1>1, <1>2, <1>3
  <2>2. client = "compile" => tally = [ok |-> 0, fail |-> 0, skip |-> n]
    BY DEF ClientInit
  <2> HIDE DEF n
  <2>3. client = "compile" =>
          /\ tally \in [ok : Nat, fail : Nat, skip : Nat]
          /\ tally.skip = n /\ tally.ok + tally.fail = 0 /\ tally.ok = 0
    BY <1>1, <2>2
  <2> QED
    BY <1>3, <1>4, <2>1, <2>3 DEF Counted, n
<1>6. ASSUME client = "dump" PROVE TablesType /\ Agreed
  <2>1. /\ rows = [i \in 1..n |-> Row(LeftOut[i], "MISSING")] /\ errors = rows
        /\ records = <<>> /\ failures = <<>>
        /\ errorCounts = [l \in ErrorLabels |-> IF l = "MISSING" THEN Len(errors) ELSE 0]
    BY <1>6 DEF ClientInit
  <2>2. \A i \in 1..n : /\ Row(LeftOut[i], "MISSING") \in RowSet
                        /\ Row(LeftOut[i], "MISSING").src = LeftOut[i]
                        /\ Row(LeftOut[i], "MISSING").status = "MISSING"
    BY DEF Row, RowSet, ErrorLabels, LeftOutSet
  <2>3. \A i, j \in 1..n : LeftOut[i] = LeftOut[j] => i = j
    BY ClientsAssumption
  <2>4. LeftOutSet = {LeftOut[i] : i \in 1..n}
    BY DEF LeftOutSet
  <2>5. Cardinality(LeftOutSet) = n
    BY Countable
  <2> HIDE DEF n
  <2>6. rows \in Seq(RowSet) /\ Len(rows) = n
    BY <1>1, <2>1, <2>2
  <2>7. \A i \in 1..n : rows[i].src = LeftOut[i] /\ rows[i].status = "MISSING"
    BY <2>1, <2>2
  <2>8. TablesType
    <3>1. errorCounts \in [ErrorLabels -> Nat]
      BY <1>1, <2>1, <2>6
    <3>2. records \in Seq(Sources \X Nat) /\ failures \in Seq(Sources \X Nat)
      BY <2>1
    <3> QED
      BY <2>1, <2>6, <3>1, <3>2 DEF TablesType
  <2>9. RowSources(rows) = LeftOutSet
    BY <2>4, <2>6, <2>7 DEF RowSources, Elems
  <2>10. Judged("MISSING") = LeftOutSet
    <3>1. {j \in 1..Len(rows) : rows[j].status = "MISSING"} = 1..n
      BY <2>6, <2>7
    <3> QED
      BY <2>4, <2>7, <3>1 DEF Judged
  <2>11. \A l : l # "MISSING" => Judged(l) = {}
    BY <2>6, <2>7 DEF Judged
  <2>12. "MISSING" \in ErrorLabels /\ "OK" \notin ErrorLabels /\ "FAIL" \notin ErrorLabels
    BY DEF ErrorLabels
  <2>13. UNION {Judged(l) : l \in ErrorLabels} = LeftOutSet
    BY <2>10, <2>11, <2>12
  <2>14. \A l \in ErrorLabels : errorCounts[l] = Cardinality(Judged(l))
    <3> TAKE l \in ErrorLabels
    <3>1. errorCounts[l] = IF l = "MISSING" THEN n ELSE 0
      BY <2>1, <2>6
    <3> QED
      BY <1>4, <2>5, <2>10, <2>11, <3>1
  <2>15. PairSources(failures) = {} /\ PairSources(records) = {}
    BY <2>1 DEF PairSources, Elems
  <2>16. Judged("OK") = {} /\ Judged("FAIL") = {}
    BY <2>11
  <2>17. \A i, j \in 1..Len(rows) : rows[i].src = rows[j].src => i = j
    BY <2>3, <2>6, <2>7
  <2>18. RowSources(errors) = LeftOutSet
    BY <2>1, <2>9
  <2> QED
    BY <1>3, <2>8, <2>9, <2>13, <2>14, <2>15, <2>16, <2>17, <2>18 DEF Agreed
<1> QED
  BY <1>2, <1>5, <1>6 DEF Books, Settled

\* The tables do not change but with a report.
LEMMA SameBooks ==
  ASSUME Books, UNCHANGED <<client, reported, tableVars, finalized>>
  PROVE  Counted' /\ (client' = "dump" => TablesType' /\ Agreed')
<1>1. /\ UNCHANGED <<client, reported, finalized, tally, records, failures, errors, errorCounts, rows>>
  BY DEF tableVars
<1>2. Counted'
  BY <1>1 DEF Books, Counted, Called, OkCalls
<1>3. ASSUME client = "dump" PROVE TablesType' /\ Agreed'
  <2>1. TablesType'
    BY <1>1, <1>3 DEF Books, TablesType
  <2>2. Called' = Called /\ \A l : Judged(l)' = Judged(l)
    BY <1>1 DEF Called, Judged
  <2>3. Agreed
    BY <1>3 DEF Books
  <2>4. Agreed'
    BY <1>1, <2>2, <2>3 DEF Agreed
  <2> QED
    BY <2>1, <2>4
<1> QED
  BY <1>1, <1>2, <1>3

LEMMA RunsBooks ==
  ASSUME TypeOK, EndsOK, Books, Ledger', Runs
  PROVE  Books'
<1>1. UNCHANGED <<client, ends, exit>>
  BY DEF Runs, Main, StepBegin, Collect, ReportTimeout, StepEnd, Crash, End
<1>2. ~Over
  BY DEF Runs, Main, StepBegin, Collect, ReportTimeout, StepEnd, Crash, End, Over
<1>3. Settled'
  BY <1>1, <1>2 DEF Books, Settled
<1>4. CASE reported' = reported
  <2>1. UNCHANGED <<tableVars, finalized>>
    BY <1>4 DEF Runs
  <2> QED
    BY <1>1, <1>3, <1>4, <2>1, SameBooks DEF Books
<1>5. CASE reported' # reported
  <2>1. PICK s \in Sources, status \in Statuses : reported' = Append(reported, <<s, status>>)
    BY <1>5, CallMade DEF Runs
  <2>2. reported'[Len(reported')] = <<s, status>>
    BY <2>1, ReportType DEF TypeOK
  <2>3. OnResult(<<s, status>>)
    BY <1>5, <2>2 DEF Runs
  <2>4. RunsOK /\ Truthful(s)'
    BY DEF TypeOK, Ledger, Entry
  <2>5. s \notin Called
    BY <2>1, <2>4, FirstReport
  <2>6. Called' = Called \union {s}
    BY <2>1, <2>4, CalledAppend
  <2>7. finalized' = finalized + 1 /\ (client = "compile" => CompileResult(status))
    BY <2>3 DEF OnResult
  <2>8. Counted'
    BY <1>1, <2>1, <2>4, <2>5, <2>7, NextCounted DEF Books
  <2>9. ASSUME client = "dump" PROVE TablesType' /\ Agreed'
    <3>1. DumpResult(s, status)
      BY <2>3, <2>9 DEF OnResult
    <3>2. PICK v \in ErrorLabels \union {"OK", "FAIL"}, n \in Nat : Filed(s, v, n)
      BY <2>9, <3>1, DumpFiled
    <3>3. TablesType /\ Agreed
      BY <2>9 DEF Books
    <3> QED
      BY <2>5, <2>6, <3>2, <3>3, NextTablesType, NextAgreed
  <2> QED
    BY <1>1, <1>3, <2>8, <2>9 DEF Books
<1> QED
  BY <1>4, <1>5

LEMMA SummaryBooks ==
  ASSUME Books, client \in {"compile", "dump"}, Summary
  PROVE  Books'
<1>1. UNCHANGED <<client, main, reported, tableVars, finalized>>
  BY DEF Summary, vars
<1>2. main \in {"ended", "crashed"}
  BY DEF Summary
<1>3. main = "ended" /\ client = "dump" => exit' = IF failures # <<>> \/ errors # <<>> THEN "1" ELSE "0"
  BY DEF Summary
<1>4. Settled'
  BY <1>1, <1>2, <1>3 DEF Settled, Over, tableVars
<1> QED
  BY <1>1, <1>4, SameBooks DEF Books

LEMMA BooksKept == TypeOK /\ EndsOK /\ Ledger' /\ Books /\ [ClientNext]_batchVars => Books'
<1> SUFFICES ASSUME TypeOK, EndsOK, Ledger', Books, [ClientNext]_batchVars PROVE Books'
  OBVIOUS
<1>1. CASE Runs
  BY <1>1, RunsBooks
<1>2. CASE Summary
  BY <1>2, SummaryBooks, BatchAssumption DEF EndsOK
<1>3. CASE UNCHANGED <<client, main, reported, tableVars, finalized, exit>>
  <2>1. Settled'
    BY <1>3 DEF Books, Settled, Over, tableVars
  <2> QED
    BY <1>3, <2>1, SameBooks DEF Books
<1>4. ASSUME NEW s \in Sources, ProcessEnds(s) \/ Waits(s)
      PROVE  UNCHANGED <<client, main, reported, tableVars, finalized, exit>>
  BY <1>4 DEF ProcessEnds, Waits, clientVars, ChildEnds, Worker, StartTask, UnpackFails,
              Communicated, TimeoutExpires, Reap
<1>5. CASE UNCHANGED batchVars
  BY <1>3, <1>5 DEF batchVars, vars, clientVars
<1> QED
  BY <1>1, <1>2, <1>3, <1>4, <1>5 DEF ClientNext

\* At the end on_result was called for every source, with the end of its last run.
LEMMA AllCalled ==
  ASSUME TypeOK, Ledger, main = "ended"
  PROVE  /\ Called = Sources
         /\ OkCalls = {s \in Sources : attempts[s][Len(attempts[s])] = "OK"}
<1>1. \A i \in 1..Len(reported) : reported[i] \in Sources \X Statuses
  BY DEF TypeOK, RunsOK
<1>2. ASSUME NEW s \in Sources
      PROVE  \E i \in 1..Len(reported) : reported[i] = <<s, attempts[s][Len(attempts[s])]>>
  <2>1. PICK i \in 1..Len(reported) : reported[i][1] = s
    BY DEF Ledger, Entry, Accounted, Unreported
  <2>2. reported[i][2] = attempts[s][Len(attempts[s])]
    BY <2>1 DEF Ledger, Entry, Truthful
  <2>3. reported[i] = <<reported[i][1], reported[i][2]>>
    BY <1>1
  <2> QED
    BY <2>1, <2>2, <2>3
<1>3. Called = Sources
  <2>1. Called \subseteq Sources
    BY CalledFinite DEF TypeOK
  <2>2. ASSUME NEW s \in Sources PROVE s \in Called
    <3>1. PICK i \in 1..Len(reported) : reported[i] = <<s, attempts[s][Len(attempts[s])]>>
      BY <1>2
    <3>2. reported[i][1] = s
      BY <3>1
    <3> QED
      BY <3>2 DEF Called
  <2> QED
    BY <2>1, <2>2
<1>4. ASSUME NEW s \in Sources
      PROVE  (\E i \in 1..Len(reported) : reported[i] = <<s, "OK">>) <=> attempts[s][Len(attempts[s])] = "OK"
  <2>1. ASSUME NEW i \in 1..Len(reported), reported[i] = <<s, "OK">>
        PROVE  attempts[s][Len(attempts[s])] = "OK"
    <3>1. reported[i][1] = s /\ reported[i][2] = "OK"
      BY <2>1
    <3> QED
      BY <3>1 DEF Ledger, Entry, Truthful
  <2> QED
    BY <1>2, <2>1
<1> QED
  BY <1>3, <1>4 DEF OkCalls

LEMMA DumpSummed ==
  ASSUME TablesType, Agreed, Called = Sources, exit = "0" <=> failures = <<>> /\ errors = <<>>
  PROVE  LET All == Sources \union LeftOutSet IN
         /\ \A s \in All : Cardinality(RowsOf(s)) = 1
         /\ exit = "0" <=> Judged("OK") = All
<1> DEFINE All == Sources \union LeftOutSet
<1>1. All = RowSources(rows)
  BY DEF Agreed
<1>2. \A i \in 1..Len(rows) : rows[i] \in RowSet /\ rows[i] \in Elems(rows)
  BY DEF TablesType, Elems
<1> HIDE DEF All
<1>3. ASSUME NEW s \in All PROVE \E i \in 1..Len(rows) : rows[i].src = s
  BY <1>1 DEF RowSources, Elems
<1>4. ASSUME NEW s \in All PROVE Cardinality(RowsOf(s)) = 1
  <2>1. PICK i \in 1..Len(rows) : rows[i].src = s
    BY <1>3
  <2>2. RowsOf(s) = {i}
    BY <2>1 DEF Agreed, RowsOf
  <2> QED
    BY <2>2, FS_Singleton
<1>5. \A l : Judged(l) \subseteq All
  BY <1>1, JudgedFinite DEF TablesType
<1>6. ASSUME failures = <<>>, errors = <<>> PROVE Judged("OK") = All
  <2>1. RowSources(errors) = {} /\ PairSources(failures) = {}
    BY <1>6 DEF RowSources, PairSources, Elems
  <2>2. Judged("FAIL") = {} /\ \A l \in ErrorLabels : Judged(l) = {}
    BY <2>1 DEF Agreed
  <2>3. ASSUME NEW i \in 1..Len(rows) PROVE rows[i].status = "OK"
    <3>1. rows[i].src \in Judged(rows[i].status)
      BY DEF Judged
    <3>2. rows[i].status \in ErrorLabels \union {"OK", "FAIL"}
      BY <1>2 DEF RowSet
    <3> QED
      BY <2>2, <3>1, <3>2
  <2>4. ASSUME NEW s \in All PROVE s \in Judged("OK")
    BY <1>3, <2>3 DEF Judged
  <2> QED
    BY <1>5, <2>4
<1>7. ASSUME Judged("OK") = All PROVE failures = <<>> /\ errors = <<>>
  <2>1. ASSUME NEW i \in 1..Len(rows) PROVE rows[i].status = "OK"
    <3>1. rows[i].src \in Judged("OK")
      BY <1>1, <1>2, <1>7 DEF RowSources
    <3>2. PICK j \in 1..Len(rows) : rows[j].status = "OK" /\ rows[j].src = rows[i].src
      BY <3>1 DEF Judged
    <3> QED
      BY <3>2 DEF Agreed
  <2>2. "OK" \notin ErrorLabels
    BY DEF ErrorLabels
  <2>3. Judged("FAIL") = {} /\ \A l \in ErrorLabels : Judged(l) = {}
    BY <2>1, <2>2 DEF Judged
  <2>4. RowSources(errors) = {} /\ PairSources(failures) = {}
    BY <2>3 DEF Agreed
  <2>5. Elems(errors) = {} /\ Elems(failures) = {}
    BY <2>4 DEF RowSources, PairSources
  <2>6. Len(errors) \in Nat /\ Len(failures) \in Nat
    BY DEF TablesType
  <2>7. ~(1 \in 1..Len(errors)) /\ ~(1 \in 1..Len(failures))
    BY <2>5 DEF Elems
  <2>8. Len(errors) = 0 /\ Len(failures) = 0
    BY <2>6, <2>7
  <2> QED
    BY <2>8 DEF TablesType
<1> QED
  BY <1>4, <1>6, <1>7 DEF All

LEMMA BooksSummed == TypeOK /\ EndsOK /\ Ledger /\ Books => RunSummed
<1> SUFFICES ASSUME TypeOK, EndsOK, Ledger, Books, exit # "none", main = "ended" PROVE RunSummed
  BY DEF RunSummed
<1> DEFINE All == Sources \union LeftOutSet
<1>1. Called = Sources /\ OkCalls = {s \in Sources : attempts[s][Len(attempts[s])] = "OK"}
  BY AllCalled
<1>2. Counted
  BY DEF Books
<1>3. Len(LeftOut) \in Nat /\ Cardinality(Sources) \in Nat /\ Cardinality(All) = Cardinality(Sources) + Len(LeftOut)
  BY Countable, ClientsAssumption, BatchAssumption, FS_CardinalityType
<1>4. Len(reported) = Cardinality(Sources) /\ finalized = Len(LeftOut) + Len(reported)
  BY <1>1, <1>2 DEF Counted
<1> HIDE DEF All
<1>5. finalized = Cardinality(All)
  BY <1>3, <1>4
<1>6. ASSUME client = "compile"
      PROVE  /\ tally.ok + tally.fail + tally.skip = Cardinality(All)
             /\ tally.ok = Cardinality({s \in Sources : attempts[s][Len(attempts[s])] = "OK"})
  <2>1. tally.skip = Len(LeftOut) /\ tally.ok + tally.fail = Len(reported) /\ tally.ok = Cardinality(OkCalls)
    BY <1>2, <1>6 DEF Counted
  <2> QED
    BY <1>1, <1>3, <1>4, <2>1
<1>7. ASSUME client = "dump"
      PROVE  /\ \A s \in All : Cardinality(RowsOf(s)) = 1
             /\ RowSources(errors) = UNION {Judged(l) : l \in ErrorLabels}
             /\ \A l \in ErrorLabels : errorCounts[l] = Cardinality(Judged(l))
             /\ PairSources(failures) = Judged("FAIL")
             /\ PairSources(records) = Judged("FAIL") \union Judged("OK")
             /\ exit = "0" <=> Judged("OK") = All
  <2>1. TablesType /\ Agreed /\ (exit = "0" <=> failures = <<>> /\ errors = <<>>)
    BY <1>7 DEF Books, Settled
  <2> QED
    BY <1>1, <2>1, DumpSummed DEF Agreed, All
<1> QED
  BY <1>5, <1>6, <1>7 DEF RunSummed, All, RowSources, PairSources, Elems

(***************************************************************************)
(* When a program exits after a run without an exception, its tables, its  *)
(* progress and its status tell one story, whatever the sources, what was  *)
(* left out, the order of the results and the ends of the processes.       *)
(***************************************************************************)
THEOREM TablesSummed == ClientSpec => []RunSummed
<1>1. TypeOK /\ EndsOK /\ Ledger => (Books => RunSummed)
  BY BooksSummed
<1> QED
  BY <1>1, FirstBooks, BooksKept, EndsKept, ClientsRun, TypeCorrect, LedgerHolds, PTL DEF ClientSpec
=============================================================================
