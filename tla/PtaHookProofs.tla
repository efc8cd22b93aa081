---------------------------- MODULE PtaHookProofs ----------------------------
(***************************************************************************)
(* For every buffer size, every set of records and every set of modes: the *)
(* buffer is never overrun and a finished dump file never changes, however *)
(* signals interrupt the runtime; when no signal interrupts a hook call,   *)
(* every end of the program that the runtime sees leaves its dump, and the *)
(* dump says what the pushed records mean (HookTrace), so that the runtime *)
(* implements HookTrace.                                                   *)
(*                                                                         *)
(* The second half goes from the bottom up: picking items from a sequence; *)
(* what one record more changes of what a sequence of records means; what  *)
(* it changes of the tables; that the tables say what the records mean;    *)
(* that dump() prints that; that the buffer delivers every record once and *)
(* in order; and that every step is a step of HookTrace or none.           *)
(***************************************************************************)
EXTENDS PtaHook, WellFoundedInduction, TLAPS

InFile == {"open", "write"}

-----------------------------------------------------------------------------
(* Facts about constants. *)

\* The three modes in the order in which dump() writes them.
LEMMA OrderFacts ==
  /\ Len(Order) = 3
  /\ Order[1] = "ptr" /\ Order[2] = "bb" /\ Order[3] = "cg"
  /\ \A j, k \in 1..3 : Order[j] = Order[k] => j = k
  /\ \A m \in Mode : \E k \in 1..3 : m = Order[k]
<1>1. Len(Order) = 3 /\ Order[1] = "ptr" /\ Order[2] = "bb" /\ Order[3] = "cg"
  BY DEF Order
<1>2. \A k \in 1..3 : k = 1 \/ k = 2 \/ k = 3
  OBVIOUS
<1>3. \A j, k \in 1..3 : Order[j] = Order[k] => j = k
  BY <1>1, <1>2
<1>4. \A m \in Mode : \E k \in 1..3 : m = Order[k]
  BY <1>1, HookTablesAssumption
<1> QED
  BY <1>1, <1>3, <1>4

-----------------------------------------------------------------------------
(* The buffer. *)

\* Between calls a slot is free; past the consumption the buffer is empty.
BufferInv ==
  /\ pc \in {"idle", "consume", "dump", "open", "write", "die"}
  /\ buf \in Seq(Records)
  /\ i \in Nat
  /\ BufferNeverOverrun
  /\ pc \in {"dump", "open", "write", "die"} => buf = <<>>

\* The invariant holds at the start: an empty buffer has a free slot.
LEMMA InitBufferInv == Init => BufferInv
  BY PtaHookAssumption DEF Init, BufferInv, BufferNeverOverrun

\* No step breaks the invariant.
LEMMA BufferInvStep == BufferInv /\ [Next]_phVars => BufferInv'
<1> SUFFICES ASSUME BufferInv, [Next]_phVars PROVE BufferInv'
  OBVIOUS
<1> USE PtaHookAssumption
<1>1. ASSUME NEW r \in Records, Push(r) PROVE BufferInv'
  <2>1. /\ buf' = Append(buf, r) /\ Len(buf') = Len(buf) + 1 /\ buf' \in Seq(Records)
        /\ Len(buf) < BufferSize /\ Len(buf) \in Nat
    BY <1>1 DEF Push, BufferInv, BufferNeverOverrun
  <2>2. CASE Len(buf) + 1 = BufferSize
    <3>1. pc' = "consume" /\ i' = 0
      BY <1>1, <2>2 DEF Push, StartCall
    <3> QED
      BY <2>1, <3>1 DEF BufferInv, BufferNeverOverrun
  <2>3. CASE Len(buf) + 1 # BufferSize
    <3>1. pc' = "idle" /\ i' = i
      BY <1>1, <2>3 DEF Push, callVars
    <3> QED
      BY <2>1, <2>3, <3>1 DEF BufferInv, BufferNeverOverrun
  <2> QED
    BY <2>2, <2>3
<1>2. CASE Consume
  BY <1>2 DEF Consume, BufferInv, BufferNeverOverrun
<1>3. CASE ConsumeEnd
  BY <1>3 DEF ConsumeEnd, BufferInv, BufferNeverOverrun
<1>4. CASE DumpStart
  BY <1>4 DEF DumpStart, Returned, dataVars, BufferInv, BufferNeverOverrun
<1>5. CASE DumpSkip
  BY <1>5 DEF DumpSkip, NextFile, Returned, dataVars, BufferInv, BufferNeverOverrun
<1>6. CASE DumpOpen
  BY <1>6 DEF DumpOpen, dataVars, BufferInv, BufferNeverOverrun
<1>7. CASE DumpOpenFails
  BY <1>7 DEF DumpOpenFails, NextFile, Returned, dataVars, BufferInv, BufferNeverOverrun
<1>8. CASE DumpWrite
  BY <1>8 DEF DumpWrite, NextFile, Returned, dataVars, BufferInv, BufferNeverOverrun
<1>9. CASE Die \/ StartMain \/ CallExit \/ Terminate \/ SecondSignal \/ EarlySignal \/ Kill
  BY <1>9 DEF Die, StartMain, CallExit, Terminate, SecondSignal, EarlySignal, Kill,
              callVars, dataVars, BufferInv, BufferNeverOverrun
<1>10. CASE ReturnFromMain \/ ExitHandler \/ CrashSignal
  BY <1>10 DEF ReturnFromMain, ExitHandler, CrashSignal, StartCall, dataVars,
               BufferInv, BufferNeverOverrun
<1>11. CASE UNCHANGED phVars
  BY <1>11 DEF phVars, lifeVars, callVars, dataVars, BufferInv, BufferNeverOverrun
<1> QED
  BY <1>1, <1>2, <1>3, <1>4, <1>5, <1>6, <1>7, <1>8, <1>9, <1>10, <1>11
     DEF Next, HookStep, ProgramStep

(***************************************************************************)
(* __hook_push never writes outside the buffer and stopAndConsume never    *)
(* reads outside what was pushed, for every buffer size and with signals   *)
(* at any moment.                                                          *)
(***************************************************************************)
THEOREM BufferSafe == Spec => []BufferNeverOverrun
<1>1. BufferInv => BufferNeverOverrun
  BY DEF BufferInv
<1> QED
  BY InitBufferInv, BufferInvStep, <1>1, PTL DEF Spec

-----------------------------------------------------------------------------
(* The dump files. *)

\* dump() is at one file; those before it are done, it and those after it are
\* not, and it starts only while nothing has been dumped.
FilesInv ==
  /\ DOMAIN files = Mode
  /\ cur \in 1..4
  /\ ~dumped => \A m \in Mode : files[m].state # "complete"
  /\ pc \in InFile =>
       /\ dumped
       /\ cur \in 1..3
       /\ \A k \in cur..3 : Order[k] \in Mode => files[Order[k]].state # "complete"
  /\ pc = "write" => Order[cur] \in Mode

\* Nothing is written at the start.
LEMMA InitFilesInv == Init => FilesInv
  BY DEF Init, FilesInv, NoFile, InFile

\* Moving on to the next file keeps the files behind as they are.
LEMMA NextFileInv ==
  ASSUME FilesInv, pc \in InFile, dumped' = dumped,
         cur' = cur + 1, pc' = NextFile(cur), DOMAIN files' = Mode,
         \A m \in Mode : m # Order[cur] => files'[m] = files[m]
  PROVE  FilesInv'
<1>1. cur \in 1..3 /\ dumped /\ Len(Order) = 3
  BY OrderFacts DEF FilesInv
<1>2. pc' \in {"open", "idle", "die"} /\ (pc' = "open" => cur # 3)
  BY <1>1 DEF NextFile, Returned
<1>3. ASSUME NEW k \in cur + 1 .. 3, Order[k] \in Mode
      PROVE  files'[Order[k]].state # "complete"
  <2>1. k \in 1..3 /\ k \in cur..3 /\ k # cur
    BY <1>1, <1>3
  <2>2. Order[k] # Order[cur]
    BY <1>1, <2>1, OrderFacts
  <2> QED
    BY <1>3, <2>1, <2>2 DEF FilesInv
<1> QED
  BY <1>1, <1>2, <1>3 DEF FilesInv, InFile

\* No step breaks the invariant.
LEMMA FilesInvStep == FilesInv /\ [Next]_phVars => FilesInv'
<1> SUFFICES ASSUME FilesInv, [Next]_phVars PROVE FilesInv'
  OBVIOUS
<1>1. ASSUME NEW r \in Records, Push(r) PROVE FilesInv'
  <2>1. pc' \in {"idle", "consume"} /\ UNCHANGED dumpVars
    BY <1>1 DEF Push, StartCall, callVars
  <2> QED
    BY <2>1 DEF dumpVars, FilesInv, InFile
<1>2. CASE Consume \/ ConsumeEnd
  <2>1. pc' \notin InFile /\ UNCHANGED dumpVars
    BY <1>2 DEF Consume, ConsumeEnd, InFile
  <2> QED
    BY <2>1 DEF dumpVars, FilesInv, InFile
<1>3. CASE DumpStart
  <2>1. CASE dumped
    <3>1. pc' \in {"idle", "die"} /\ dumped' /\ UNCHANGED <<cur, files>>
      BY <1>3, <2>1 DEF DumpStart, Returned
    <3> QED
      BY <3>1 DEF FilesInv, InFile
  <2>2. CASE ~dumped
    <3>1. pc' = "open" /\ dumped' /\ cur' = 1 /\ files' = files
      BY <1>3, <2>2 DEF DumpStart
    <3> QED
      BY <2>2, <3>1 DEF FilesInv, InFile
  <2> QED
    BY <2>1, <2>2
<1>4. CASE DumpSkip
  BY <1>4, NextFileInv DEF DumpSkip, FilesInv, InFile
<1>5. CASE DumpOpen
  <2>1. /\ pc = "open" /\ pc' = "write" /\ UNCHANGED <<cur, dumped>>
        /\ Order[cur] \in Mode
        /\ files' = [files EXCEPT ![Order[cur]] = [state |-> "open", rows |-> {}]]
    BY <1>5 DEF DumpOpen
  <2>2. \A m \in Mode : files'[m] = files[m] \/ files'[m].state = "open"
    BY <2>1 DEF FilesInv
  <2>3. DOMAIN files' = Mode
    BY <2>1 DEF FilesInv
  <2> QED
    BY <2>1, <2>2, <2>3 DEF FilesInv, InFile
<1>6. CASE DumpOpenFails
  <2>1. /\ pc \in InFile /\ dumped' = dumped /\ cur' = cur + 1 /\ pc' = NextFile(cur)
        /\ files' = [files EXCEPT ![Order[cur]] = [state |-> "failed", rows |-> {}]]
    BY <1>6 DEF DumpOpenFails, InFile
  <2>2. DOMAIN files' = Mode /\ \A m \in Mode : m # Order[cur] => files'[m] = files[m]
    BY <2>1 DEF FilesInv
  <2> QED
    BY <2>1, <2>2, NextFileInv
<1>7. CASE DumpWrite
  <2>1. /\ pc \in InFile /\ dumped' = dumped /\ cur' = cur + 1 /\ pc' = NextFile(cur)
        /\ files' = [files EXCEPT ![Order[cur]] =
                       [state |-> "complete", rows |-> DumpOf(t)[Order[cur]]]]
    BY <1>7 DEF DumpWrite, InFile
  <2>2. DOMAIN files' = Mode /\ \A m \in Mode : m # Order[cur] => files'[m] = files[m]
    BY <2>1 DEF FilesInv
  <2> QED
    BY <2>1, <2>2, NextFileInv
<1>8. CASE Die \/ StartMain \/ CallExit \/ Terminate \/ SecondSignal \/ EarlySignal \/ Kill
  BY <1>8 DEF Die, StartMain, CallExit, Terminate, SecondSignal, EarlySignal, Kill,
              callVars, dumpVars, FilesInv, InFile
<1>9. CASE ReturnFromMain \/ ExitHandler \/ CrashSignal
  <2>1. pc' = "consume" /\ UNCHANGED dumpVars
    BY <1>9 DEF ReturnFromMain, ExitHandler, CrashSignal, StartCall
  <2> QED
    BY <2>1 DEF dumpVars, FilesInv, InFile
<1>10. CASE UNCHANGED phVars
  BY <1>10 DEF phVars, callVars, dumpVars, FilesInv, InFile
<1> QED
  BY <1>1, <1>2, <1>3, <1>4, <1>5, <1>6, <1>7, <1>8, <1>9, <1>10
     DEF Next, HookStep, ProgramStep

(***************************************************************************)
(* dump() writes each file once: no later call of it, from the wrapper,    *)
(* from exit() or from a signal handler, touches a file that is finished.  *)
(***************************************************************************)
THEOREM FinishedFilesStay == Spec => FilesFinal
<1> DEFINE Stay == \A m \in Mode : files[m].state = "complete" => files'[m] = files[m]
<1>1. FilesInv /\ [Next]_phVars => [Stay]_phVars
  <2> SUFFICES ASSUME FilesInv, Next PROVE Stay
    OBVIOUS
  <2>1. \/ files' = files
        \/ /\ pc \in InFile
           /\ \E f : files' = [files EXCEPT ![Order[cur]] = f]
    BY DEF Next, HookStep, ProgramStep, Push, Consume, ConsumeEnd, DumpStart, DumpSkip,
           DumpOpen, DumpOpenFails, DumpWrite, Die, StartMain, ReturnFromMain, CallExit,
           ExitHandler, Terminate, CrashSignal, SecondSignal, EarlySignal, Kill,
           dumpVars, InFile
  <2>2. CASE files' = files
    BY <2>2
  <2>3. CASE pc \in InFile /\ \E f : files' = [files EXCEPT ![Order[cur]] = f]
    <3>1. cur \in cur..3 /\ \A m \in Mode : files[m].state = "complete" => m # Order[cur]
      BY <2>3 DEF FilesInv
    <3> QED
      BY <2>3, <3>1 DEF FilesInv
  <2> QED
    BY <2>1, <2>2, <2>3
<1> QED
  BY InitFilesInv, FilesInvStep, <1>1, PTL DEF Spec, FilesFinal

-----------------------------------------------------------------------------
(* The types. *)

\* A record for a file is one of the four kinds.
LEMMA FileType ==
  ASSUME \A m \in Mode : files[m].state \in FileStates,
         DOMAIN files = Mode, NEW k, NEW s \in FileStates, NEW rows,
         files' = [files EXCEPT ![k] = [state |-> s, rows |-> rows]]
  PROVE  \A m \in Mode : files'[m].state \in FileStates
OBVIOUS

\* The positions are in range: i by the buffer's invariant, cur by that of dump().
LEMMA TypeStep ==
  TypeOK /\ BufferInv /\ BufferInv' /\ FilesInv' /\ [Next]_phVars => TypeOK'
<1> SUFFICES ASSUME TypeOK, BufferInv, BufferInv', FilesInv', [Next]_phVars PROVE TypeOK'
  OBVIOUS
<1>1. /\ pc' \in {"idle", "consume", "dump", "open", "write", "die"}
      /\ buf' \in Seq(Records) /\ cur' \in 1..4 /\ DOMAIN files' = Mode
  BY DEF BufferInv, FilesInv
<1>2. i' \in 0..BufferSize
  <2>1. i' = i \/ i' = 0 \/ (Consume /\ i' = i + 1)
    BY DEF Next, HookStep, ProgramStep, Push, Consume, ConsumeEnd, DumpStart, DumpSkip,
           DumpOpen, DumpOpenFails, DumpWrite, Die, StartMain, ReturnFromMain, CallExit,
           ExitHandler, Terminate, CrashSignal, SecondSignal, EarlySignal, Kill,
           StartCall, phVars, callVars
  <2>2. 0 \in 0..BufferSize /\ i \in 0..BufferSize
    BY PtaHookAssumption DEF TypeOK
  <2>3. Consume => i + 1 \in 0..BufferSize
    BY PtaHookAssumption DEF Consume, BufferInv, BufferNeverOverrun
  <2> QED
    BY <2>1, <2>2, <2>3
<1>3. /\ goal' \in {"push", "dump", "die"}
      /\ phase' \in {"premain", "main", "exiting", "dead"}
  BY DEF TypeOK, Next, HookStep, ProgramStep, Push, Consume, ConsumeEnd, DumpStart, DumpSkip,
         DumpOpen, DumpOpenFails, DumpWrite, Die, StartMain, ReturnFromMain, CallExit,
         ExitHandler, Terminate, CrashSignal, SecondSignal, EarlySignal, Kill,
         StartCall, phVars, callVars, lifeVars
<1>4. /\ installed' \in BOOLEAN /\ exitRan' \in BOOLEAN /\ crashDumped' \in BOOLEAN
      /\ killed' \in BOOLEAN
  BY DEF TypeOK, Next, HookStep, ProgramStep, Push, Consume, ConsumeEnd, DumpStart, DumpSkip,
         DumpOpen, DumpOpenFails, DumpWrite, Die, StartMain, ReturnFromMain, CallExit,
         ExitHandler, Terminate, CrashSignal, SecondSignal, EarlySignal, Kill,
         phVars, lifeVars
<1>5. dumped' \in BOOLEAN
  BY DEF TypeOK, Next, HookStep, ProgramStep, Push, Consume, ConsumeEnd, DumpStart, DumpSkip,
         DumpOpen, DumpOpenFails, DumpWrite, Die, StartMain, ReturnFromMain, CallExit,
         ExitHandler, Terminate, CrashSignal, SecondSignal, EarlySignal, Kill,
         phVars, dumpVars
<1>6. interrupted' \in BOOLEAN
  BY Zenon DEF TypeOK, Next, HookStep, ProgramStep, Push, Consume, ConsumeEnd, DumpStart,
         DumpSkip, DumpOpen, DumpOpenFails, DumpWrite, Die, StartMain, ReturnFromMain,
         CallExit, ExitHandler, Terminate, CrashSignal, SecondSignal, EarlySignal, Kill,
         phVars, lifeVars
<1>7. pushed' \in Seq(Records)
  <2>1. pushed' = pushed \/ \E r \in Records : pushed' = Append(pushed, r)
    BY DEF Next, HookStep, ProgramStep, Push, Consume, ConsumeEnd, DumpStart, DumpSkip,
           DumpOpen, DumpOpenFails, DumpWrite, Die, StartMain, ReturnFromMain, CallExit,
           ExitHandler, Terminate, CrashSignal, SecondSignal, EarlySignal, Kill,
           phVars, dataVars
  <2> QED
    BY <2>1 DEF TypeOK
<1>8. \A m \in Mode : files'[m].state \in FileStates
  <2>1. \/ files' = files
        \/ \E s \in FileStates : \E rows :
             files' = [files EXCEPT ![Order[cur]] = [state |-> s, rows |-> rows]]
    BY DEF Next, HookStep, ProgramStep, Push, Consume, ConsumeEnd, DumpStart, DumpSkip,
           DumpOpen, DumpOpenFails, DumpWrite, Die, StartMain, ReturnFromMain, CallExit,
           ExitHandler, Terminate, CrashSignal, SecondSignal, EarlySignal, Kill,
           phVars, dumpVars, FileStates
  <2> QED
    BY <2>1, FileType DEF TypeOK
<1> QED
  BY <1>1, <1>2, <1>3, <1>4, <1>5, <1>6, <1>7, <1>8 DEF TypeOK

(***************************************************************************)
(* The indices of stopAndConsume and dump() stay in range, and a file has  *)
(* one of its four states, for every buffer size and with signals at any   *)
(* moment.                                                                 *)
(***************************************************************************)
THEOREM TypeCorrect == Spec => []TypeOK
<1>1. Init => TypeOK
  <2> SUFFICES ASSUME Init PROVE TypeOK
    OBVIOUS
  <2>1. i \in 0..BufferSize /\ cur \in 1..4 /\ buf \in Seq(Records) /\ pushed \in Seq(Records)
    BY PtaHookAssumption DEF Init
  <2>2. DOMAIN files = Mode /\ \A m \in Mode : files[m].state \in FileStates
    BY DEF Init, NoFile, FileStates
  <2> QED
    BY <2>1, <2>2 DEF Init, TypeOK
<1>2. Spec => [](BufferInv /\ FilesInv)
  BY InitBufferInv, BufferInvStep, InitFilesInv, FilesInvStep, PTL DEF Spec
<1> QED
  BY <1>1, <1>2, TypeStep, PTL DEF Spec

-----------------------------------------------------------------------------
(* The ends of the program. *)

Finished(m) == files[m].state \in {"complete", "failed"}

\* Where dump() stands, what a call in progress will still do, and who has
\* called it: a dump that has begun is through unless it is in progress, and
\* after exitDumpHandler or a signal there is or will be one.
Uncut ==
  /\ pc \in {"idle", "consume", "dump", "open", "write", "die"}
  /\ (dumped /\ pc \notin InFile) => \A m \in Mode : Finished(m)
  /\ pc \in InFile => \A k \in 1..3 : (k < cur /\ Order[k] \in Mode) => Finished(Order[k])
  /\ pc = "die" => dumped
  /\ exitRan => dumped \/ (pc \in {"consume", "dump"} /\ goal # "push")
  /\ crashDumped => pc # "idle" /\ goal = "die"
  /\ EndsWithDump

\* All this holds until a signal interrupts a hook call.
EndInv == FilesInv /\ (~interrupted => Uncut)

\* At the start there is nothing to finish.
LEMMA InitEndInv == Init => EndInv
  BY InitFilesInv DEF Init, EndInv, Uncut, EndsWithDump, InFile

\* A file that is through leaves the rest of what Uncut says in place.
LEMMA NextFileEndInv ==
  ASSUME Uncut, FilesInv, FilesInv', pc \in InFile, phase # "dead",
         UNCHANGED <<lifeVars, goal, dumped>>,
         cur' = cur + 1, pc' = NextFile(cur),
         \A m \in Mode : m # Order[cur] => files'[m] = files[m],
         Order[cur] \in Mode => files'[Order[cur]].state \in {"complete", "failed"}
  PROVE  Uncut'
<1>1. /\ cur \in 1..3 /\ dumped' /\ Len(Order) = 3
      /\ UNCHANGED <<phase, installed, exitRan, crashDumped, killed, interrupted, goal>>
  BY OrderFacts DEF Uncut, FilesInv, lifeVars
<1>2. /\ pc' \in {"open", "idle", "die"}
      /\ pc' # "open" => cur = 3
      /\ pc' = "idle" => goal # "die"
  BY <1>1 DEF NextFile, Returned
<1>3. ASSUME NEW k \in 1..3, k < cur + 1, Order[k] \in Mode
      PROVE  Finished(Order[k])'
  <2>1. CASE k = cur
    BY <1>3, <2>1 DEF Finished
  <2>2. CASE k # cur
    <3>1. k < cur /\ Order[k] # Order[cur]
      BY <1>1, <1>3, <2>2, OrderFacts
    <3> QED
      BY <1>3, <3>1 DEF Uncut, Finished
  <2> QED
    BY <2>1, <2>2
<1>4. pc' \notin InFile => \A m \in Mode : Finished(m)'
  <2> SUFFICES ASSUME pc' \notin InFile, NEW m \in Mode PROVE Finished(m)'
    OBVIOUS
  <2>1. PICK k \in 1..3 : m = Order[k]
    BY OrderFacts
  <2>2. k < cur + 1
    BY <1>2, <2>1 DEF InFile
  <2> QED
    BY <1>3, <2>1, <2>2
<1> QED
  BY <1>1, <1>2, <1>3, <1>4 DEF Uncut, EndsWithDump, InFile, Finished

\* An interruption is never forgotten.
LEMMA InterruptedStays == [Next]_phVars => (interrupted => interrupted')
  BY DEF Next, HookStep, ProgramStep, Push, Consume, ConsumeEnd, DumpStart, DumpSkip,
         DumpOpen, DumpOpenFails, DumpWrite, Die, StartMain, ReturnFromMain, CallExit,
         ExitHandler, Terminate, CrashSignal, SecondSignal, EarlySignal, Kill,
         phVars, lifeVars

\* No step breaks the invariant.
LEMMA EndInvStep == EndInv /\ [Next]_phVars => EndInv'
<1> SUFFICES ASSUME EndInv, [Next]_phVars, ~interrupted' PROVE FilesInv' /\ Uncut'
  BY FilesInvStep DEF EndInv
<1>0. FilesInv' /\ FilesInv /\ Uncut
  BY FilesInvStep, InterruptedStays DEF EndInv
<1> SUFFICES Uncut'
  BY <1>0
<1>1. ASSUME NEW r \in Records, Push(r) PROVE Uncut'
  <2>1. /\ pc = "idle" /\ phase # "dead"
        /\ pc' \in {"idle", "consume"} /\ UNCHANGED <<lifeVars, dumpVars>>
        /\ pc' = "idle" => goal' = goal
    BY <1>1 DEF Push, StartCall, callVars
  <2> QED
    BY <1>0, <2>1 DEF lifeVars, dumpVars, Uncut, EndsWithDump, Finished, InFile
<1>2. CASE Consume
  BY <1>0, <1>2 DEF Consume, dumpVars, Uncut, EndsWithDump, Finished, InFile
<1>3. CASE ConsumeEnd
  BY <1>0, <1>3 DEF ConsumeEnd, lifeVars, dumpVars, Uncut, EndsWithDump, Finished, InFile
<1>4. CASE DumpStart
  <2>1. CASE dumped
    <3>1. /\ pc = "dump" /\ pc' = Returned /\ dumped'
          /\ UNCHANGED <<lifeVars, goal, cur, files>> /\ phase # "dead"
      BY <1>4, <2>1 DEF DumpStart
    <3> QED
      BY <1>0, <2>1, <3>1 DEF Returned, lifeVars, Uncut, EndsWithDump, Finished, InFile
  <2>2. CASE ~dumped
    <3>1. /\ pc' = "open" /\ dumped' /\ cur' = 1 /\ files' = files
          /\ UNCHANGED <<lifeVars, goal>> /\ phase # "dead" /\ pc = "dump"
      BY <1>4, <2>2 DEF DumpStart
    <3> QED
      BY <1>0, <3>1 DEF lifeVars, Uncut, EndsWithDump, Finished, InFile
  <2> QED
    BY <2>1, <2>2
<1>5. CASE DumpSkip
  BY <1>0, <1>5, NextFileEndInv DEF DumpSkip, InFile
<1>6. CASE DumpOpen
  <2>1. /\ pc = "open" /\ pc' = "write" /\ UNCHANGED <<lifeVars, goal, cur, dumped>>
        /\ phase # "dead"
        /\ \A m \in Mode : m # Order[cur] => files'[m] = files[m]
    BY <1>0, <1>6 DEF DumpOpen, FilesInv
  <2>2. \A k \in 1..3 : k < cur => Order[k] # Order[cur]
    BY <1>0, <2>1, OrderFacts DEF Uncut, FilesInv, InFile
  <2> QED
    BY <1>0, <2>1, <2>2 DEF lifeVars, Uncut, FilesInv, EndsWithDump, Finished, InFile
<1>7. CASE DumpOpenFails
  <2>1. /\ pc \in InFile /\ phase # "dead" /\ UNCHANGED <<lifeVars, goal, dumped>>
        /\ cur' = cur + 1 /\ pc' = NextFile(cur)
        /\ files' = [files EXCEPT ![Order[cur]] = [state |-> "failed", rows |-> {}]]
    BY <1>7 DEF DumpOpenFails, InFile
  <2>2. /\ \A m \in Mode : m # Order[cur] => files'[m] = files[m]
        /\ Order[cur] \in Mode => files'[Order[cur]].state \in {"complete", "failed"}
    BY <1>0, <2>1 DEF Uncut, FilesInv, Finished
  <2> QED
    BY <1>0, <2>1, <2>2, NextFileEndInv
<1>8. CASE DumpWrite
  <2>1. /\ pc \in InFile /\ phase # "dead" /\ UNCHANGED <<lifeVars, goal, dumped>>
        /\ cur' = cur + 1 /\ pc' = NextFile(cur)
        /\ files' = [files EXCEPT ![Order[cur]] =
                       [state |-> "complete", rows |-> DumpOf(t)[Order[cur]]]]
    BY <1>8 DEF DumpWrite, InFile
  <2>2. /\ \A m \in Mode : m # Order[cur] => files'[m] = files[m]
        /\ Order[cur] \in Mode => files'[Order[cur]].state \in {"complete", "failed"}
    BY <1>0, <2>1 DEF Uncut, FilesInv, Finished
  <2> QED
    BY <1>0, <2>1, <2>2, NextFileEndInv
<1>9. CASE Die
  BY <1>0, <1>9 DEF Die, callVars, dumpVars, Uncut, EndsWithDump, Finished, InFile
<1>10. CASE StartMain \/ CallExit
  BY <1>0, <1>10 DEF StartMain, CallExit, callVars, dumpVars, Uncut, EndsWithDump,
                     Finished, InFile
<1>11. CASE Terminate
  BY <1>0, <1>11 DEF Terminate, callVars, dumpVars, Uncut, EndsWithDump, Finished, InFile
<1>12. CASE EarlySignal
  BY <1>0, <1>12 DEF EarlySignal, callVars, dumpVars, Uncut, EndsWithDump, Finished, InFile
<1>13. CASE SecondSignal
  <2>1. FALSE
    BY <1>0, <1>13 DEF SecondSignal, Uncut
  <2> QED
    BY <2>1
<1>14. CASE Kill
  BY <1>0, <1>14 DEF Kill, callVars, dumpVars, Uncut, EndsWithDump, Finished, InFile
<1>15. CASE ReturnFromMain \/ ExitHandler \/ CrashSignal
  <2>1. /\ pc = "idle" /\ pc' = "consume" /\ goal' \in {"dump", "die"} /\ UNCHANGED dumpVars
        /\ phase # "dead" /\ phase' # "dead"
        /\ crashDumped' => goal' = "die"
    <3>1. CASE ReturnFromMain \/ ExitHandler
      BY <1>0, <3>1 DEF ReturnFromMain, ExitHandler, StartCall, Uncut
    <3>2. CASE CrashSignal
      <4>1. pc = "idle"
        BY <3>2, Zenon DEF CrashSignal
      <4> QED
        BY <1>0, <3>2, <4>1 DEF CrashSignal, StartCall, Uncut
    <3> QED
      BY <1>15, <3>1, <3>2
  <2> QED
    BY <1>0, <2>1 DEF dumpVars, Uncut, EndsWithDump, Finished, InFile
<1>16. CASE UNCHANGED phVars
  BY <1>0, <1>16 DEF phVars, lifeVars, callVars, dumpVars, Uncut, EndsWithDump,
                     Finished, InFile
<1> QED
  BY <1>1, <1>2, <1>3, <1>4, <1>5, <1>6, <1>7, <1>8, <1>9, <1>10, <1>11, <1>12, <1>13,
     <1>14, <1>15, <1>16 DEF Next, HookStep, ProgramStep

(***************************************************************************)
(* As long as no signal interrupts a hook call, an aborted or terminated   *)
(* program, and one that calls exit() anywhere, leaves all its dump files  *)
(* finished once the runtime has its handlers.  The condition is needed: a *)
(* signal during dump() leaves a file unfinished (dumped is set, 290-291). *)
(***************************************************************************)
THEOREM EveryEndDumps == Spec => []EndsWithDump
<1>1. EndInv => EndsWithDump
  BY DEF EndInv, Uncut, EndsWithDump
<1> QED
  BY InitEndInv, EndInvStep, <1>1, PTL DEF Spec

-----------------------------------------------------------------------------
(* Picking items from a sequence. *)

\* What has been picked from the first n items, for every n.
PickedBy(q, I, f) ==
  f = [n \in 0..Len(q) |->
         IF n = 0 THEN <<>>
         ELSE IF n \in I THEN Append(f[n - 1], q[n]) ELSE f[n - 1]]

\* The induction over positions: a set of numbers that has 0, and with each number
\* below m the next one, has all up to m.
LEMMA AllUpTo ==
  ASSUME NEW m \in Nat, NEW S, 0 \in S, \A k \in 1..m : k - 1 \in S => k \in S
  PROVE  0..m \subseteq S
<1> DEFINE T == (0..m) \ S
<1> SUFFICES ASSUME T # {} PROVE FALSE
  OBVIOUS
<1>1. PICK x \in T : \A y \in T : <<y, x>> \notin OpToRel(<, Nat)
  <2>1. T \subseteq Nat
    OBVIOUS
  <2> HIDE DEF T
  <2> QED
    BY <2>1, WFMin, NatLessThanWellFounded
<1>2. \A y \in T : ~(y < x)
  <2>1. T \subseteq Nat
    OBVIOUS
  <2> HIDE DEF T
  <2> QED
    BY <1>1, <2>1 DEF OpToRel
<1>3. x \in 1..m /\ x - 1 \in 0..m
  OBVIOUS
<1>4. x - 1 \notin T
  <2>1. x - 1 < x
    BY <1>3
  <2> QED
    BY <1>2, <2>1
<1>5. x - 1 \in S
  BY <1>3, <1>4
<1> QED
  BY <1>3, <1>5

\* There is such a function, so the one that is chosen is one.
LEMMA PickedExists ==
  ASSUME NEW q, Len(q) \in Nat, NEW I
  PROVE  \E f : PickedBy(q, I, f)
<1> DEFINE Turn(f, k) == IF k = 0 THEN <<>>
                         ELSE IF k \in I THEN Append(f[k - 1], q[k]) ELSE f[k - 1]
           S == {m \in 0..Len(q) : \E f : f = [k \in 0..m |-> Turn(f, k)]}
<1>1. 0 \in S
  <2> DEFINE g == [k \in 0..0 |-> <<>>]
  <2>1. \A k \in 0..0 : Turn(g, k) = <<>>
    OBVIOUS
  <2> HIDE DEF Turn
  <2>2. g = [k \in 0..0 |-> Turn(g, k)]
    BY <2>1
  <2>3. \E f : f = [k \in 0..0 |-> Turn(f, k)]
    BY <2>2
  <2> QED
    BY <2>3
<1>2. ASSUME NEW m \in 1..Len(q), m - 1 \in S PROVE m \in S
  <2>1. PICK f : f = [k \in 0..m - 1 |-> Turn(f, k)]
    BY <1>2
  <2> DEFINE g == [k \in 0..m |-> IF k = m THEN Turn(f, m) ELSE f[k]]
  <2>2. \A k \in 0..m - 1 : g[k] = f[k]
    OBVIOUS
  <2>3. ASSUME NEW k \in 0..m PROVE g[k] = Turn(g, k)
    <3>1. CASE k = m
      <4>1. g[m] = Turn(f, m) /\ m - 1 \in 0..m - 1
        OBVIOUS
      <4> QED
        BY <2>2, <3>1, <4>1
    <3>2. CASE k # m
      <4>1. k \in 0..m - 1 /\ (k # 0 => k - 1 \in 0..m - 1)
        BY <3>2
      <4>2. f[k] = Turn(f, k)
        BY <2>1, <4>1
      <4> HIDE DEF g
      <4> QED
        BY <2>2, <4>1, <4>2
    <3> QED
      BY <3>1, <3>2
  <2>4. g = [k \in 0..m |-> g[k]]
    OBVIOUS
  <2> HIDE DEF g
  <2>5. g = [k \in 0..m |-> Turn(g, k)]
    BY <2>3, <2>4
  <2> HIDE DEF Turn
  <2>6. \E h : h = [k \in 0..m |-> Turn(h, k)]
    BY <2>5
  <2> QED
    BY <2>6
<1> HIDE DEF S
<1>3. 0..Len(q) \subseteq S
  BY <1>1, <1>2, AllUpTo
<1> USE DEF S
<1>4. \E f : f = [k \in 0..Len(q) |-> Turn(f, k)]
  BY <1>3
<1> QED
  BY <1>4 DEF PickedBy

\* What Picked returns is the last value of such a function.
LEMMA PickedIs ==
  ASSUME NEW q, Len(q) \in Nat, NEW I
  PROVE  \E f : PickedBy(q, I, f) /\ HT!Picked(q, I) = f[Len(q)]
<1> DEFINE F == CHOOSE f : PickedBy(q, I, f)
<1>1. PickedBy(q, I, F)
  BY PickedExists
<1>2. HT!Picked(q, I) = F[Len(q)]
  BY DEF HT!Picked, PickedBy
<1> QED
  BY <1>1, <1>2

\* Picking makes a sequence of the same kind of items.
LEMMA PickedType ==
  ASSUME NEW S, NEW q \in Seq(S), NEW I
  PROVE  HT!Picked(q, I) \in Seq(S)
<1> DEFINE n == Len(q)
<1>0. n \in Nat /\ \A k \in 1..n : q[k] \in S
  OBVIOUS
<1>1. PICK f : PickedBy(q, I, f) /\ HT!Picked(q, I) = f[n]
  BY <1>0, PickedIs
<1> DEFINE Good == {k \in 0..n : f[k] \in Seq(S)}
<1>2. 0 \in Good
  <2>1. f[0] = <<>>
    BY <1>0, <1>1 DEF PickedBy
  <2>2. <<>> \in Seq(S)
    OBVIOUS
  <2>3. f[0] \in Seq(S)
    BY <2>1, <2>2
  <2>4. 0 \in 0..n
    BY <1>0
  <2> HIDE DEF n
  <2> QED
    BY <2>3, <2>4
<1>3. ASSUME NEW k \in 1..n, k - 1 \in Good PROVE k \in Good
  <2>1. k \in 0..n /\ k # 0
    BY <1>0
  <2>2. f[k] = IF k \in I THEN Append(f[k - 1], q[k]) ELSE f[k - 1]
    <3> HIDE DEF Good
    <3> QED
      BY <1>1, <2>1 DEF PickedBy
  <2>3. f[k - 1] \in Seq(S) /\ q[k] \in S
    BY <1>0, <1>3
  <2> HIDE DEF n
  <2>4. f[k] \in Seq(S)
    BY <2>2, <2>3
  <2> QED
    BY <2>1, <2>4
<1> HIDE DEF Good
<1>4. 0..n \subseteq Good
  BY <1>0, <1>2, <1>3, AllUpTo
<1> USE DEF Good
<1>5. f[n] \in Seq(S)
  BY <1>0, <1>4
<1> QED
  BY <1>1, <1>5

\* Nothing is picked from nothing.
LEMMA PickedNone ==
  ASSUME NEW S, NEW q \in Seq(S), NEW I, \A k \in 1..Len(q) : k \notin I
  PROVE  HT!Picked(q, I) = <<>>
<1> DEFINE n == Len(q)
<1>0. n \in Nat
  OBVIOUS
<1>1. PICK f : PickedBy(q, I, f) /\ HT!Picked(q, I) = f[n]
  BY <1>0, PickedIs
<1>a. PICK e : e = <<>>
  OBVIOUS
<1> DEFINE Good == {k \in 0..n : f[k] = e}
<1>2. 0 \in Good
  <2>1. f[0] = <<>>
    BY <1>0, <1>1 DEF PickedBy
  <2>2. f[0] = e
    BY <1>a, <2>1
  <2>3. 0 \in 0..n
    BY <1>0
  <2> HIDE DEF n
  <2> QED
    BY <2>2, <2>3
<1>3. ASSUME NEW k \in 1..n, k - 1 \in Good PROVE k \in Good
  <2>1. k \in 0..n /\ k # 0 /\ k \notin I
    BY <1>0
  <2>2. f[k] = f[k - 1]
    <3> HIDE DEF Good
    <3> QED
      BY <1>1, <2>1 DEF PickedBy
  <2> QED
    BY <1>3, <2>1, <2>2
<1> HIDE DEF Good
<1>4. 0..n \subseteq Good
  BY <1>0, <1>2, <1>3, AllUpTo
<1> USE DEF Good
<1>5. f[n] = e
  BY <1>0, <1>4
<1> QED
  BY <1>1, <1>a, <1>5

\* One item more is picked at the end, or is not.
LEMMA PickedNext ==
  ASSUME NEW S, NEW q \in Seq(S), NEW x \in S, NEW I, NEW J,
         \A k \in 1..Len(q) : k \in I <=> k \in J
  PROVE  HT!Picked(Append(q, x), J) =
           IF Len(q) + 1 \in J THEN Append(HT!Picked(q, I), x) ELSE HT!Picked(q, I)
<1> DEFINE n == Len(q)
           p == Append(q, x)
<1>0. /\ n \in Nat /\ Len(p) = n + 1 /\ p[n + 1] = x
      /\ \A k \in 1..n : p[k] = q[k]
  OBVIOUS
<1>1. PICK f : PickedBy(q, I, f) /\ HT!Picked(q, I) = f[n]
  BY <1>0, PickedIs
<1>b. Len(p) \in Nat
  BY <1>0
<1> HIDE DEF p
<1>2. PICK g : PickedBy(p, J, g) /\ HT!Picked(p, J) = g[Len(p)]
  BY <1>b, PickedIs
<1> DEFINE Good == {k \in 0..n : f[k] = g[k]}
<1>3. 0 \in Good
  <2>1. 0 \in 0..n /\ 0 \in 0..Len(p)
    BY <1>0
  <2>2. f[0] = <<>>
    BY <1>1, <2>1 DEF PickedBy
  <2>3. g[0] = <<>>
    BY <1>2, <2>1 DEF PickedBy
  <2> QED
    BY <2>1, <2>2, <2>3
<1>4. ASSUME NEW k \in 1..n, k - 1 \in Good PROVE k \in Good
  <2>1. k \in 0..n /\ k # 0 /\ k \in 0..Len(p)
    BY <1>0
  <2>2. f[k] = IF k \in I THEN Append(f[k - 1], q[k]) ELSE f[k - 1]
    <3> HIDE DEF Good
    <3> QED
      BY <1>1, <2>1 DEF PickedBy
  <2>3. g[k] = IF k \in J THEN Append(g[k - 1], p[k]) ELSE g[k - 1]
    <3> HIDE DEF Good
    <3> QED
      BY <1>2, <2>1 DEF PickedBy
  <2>4. f[k - 1] = g[k - 1] /\ p[k] = q[k] /\ (k \in I <=> k \in J)
    BY <1>0, <1>4
  <2> HIDE DEF n
  <2>5. f[k] = g[k]
    BY <2>2, <2>3, <2>4
  <2> QED
    BY <2>1, <2>5
<1> HIDE DEF Good
<1>5. 0..n \subseteq Good
  BY <1>0, <1>3, <1>4, AllUpTo
<1> USE DEF Good
<1>6. f[n] = g[n]
  BY <1>0, <1>5
<1>7. g[n + 1] = IF n + 1 \in J THEN Append(g[n], x) ELSE g[n]
  <2>1. n + 1 \in 0..Len(p) /\ n + 1 # 0 /\ (n + 1) - 1 = n
    BY <1>0
  <2> HIDE DEF n, Good
  <2>2. g[n + 1] = IF n + 1 \in J THEN Append(g[(n + 1) - 1], p[n + 1]) ELSE g[(n + 1) - 1]
    BY <1>2, <2>1 DEF PickedBy
  <2> QED
    BY <1>0, <2>1, <2>2
<1> HIDE DEF Good, n
<1>8. HT!Picked(p, J) = IF n + 1 \in J THEN Append(HT!Picked(q, I), x) ELSE HT!Picked(q, I)
  BY <1>0, <1>1, <1>2, <1>6, <1>7
<1> QED
  BY <1>8 DEF p, n

-----------------------------------------------------------------------------
(* What one record more changes of what a sequence of records means. *)

\* The old records stay where they are, and the new one is the last.
LEMMA OneMore ==
  ASSUME NEW s \in Seq(Records), NEW r \in Records
  PROVE  /\ Append(s, r) \in Seq(Records) /\ Len(s) \in Nat
         /\ Len(Append(s, r)) = Len(s) + 1 /\ Append(s, r)[Len(s) + 1] = r
         /\ \A j \in 1..Len(s) : Append(s, r)[j] = s[j]
  OBVIOUS

\* A sequence that goes on after another is that other one with an item more.
LEMMA AppendIs ==
  ASSUME NEW S, NEW q \in Seq(S), NEW p \in Seq(S), Len(p) = Len(q) + 1,
         \A k \in 1..Len(q) : p[k] = q[k]
  PROVE  p = Append(q, p[Len(q) + 1])
<1> DEFINE n == Len(q)
           a == Append(q, p[n + 1])
<1>1. n \in Nat /\ n + 1 \in 1..n + 1 /\ p[n + 1] \in S
  OBVIOUS
<1>2. /\ a \in Seq(S) /\ Len(a) = n + 1 /\ a[n + 1] = p[n + 1]
      /\ \A k \in 1..n : a[k] = q[k]
  BY <1>1
<1>3. /\ a = [k \in 1..n + 1 |-> a[k]] /\ p = [k \in 1..n + 1 |-> p[k]]
  BY <1>2
<1> HIDE DEF a
<1>4. \A k \in 1..n + 1 : k \in 1..n \/ k = n + 1
  BY <1>1
<1> HIDE DEF n
<1>5. \A k \in 1..n + 1 : a[k] = p[k]
  BY <1>2, <1>4 DEF n
<1>6. a = p
  BY <1>3, <1>5
<1> QED
  BY <1>6 DEF a, n

\* Picking from a sequence that goes on after another one.
LEMMA PickedGrows ==
  ASSUME NEW S, NEW q \in Seq(S), NEW p \in Seq(S), NEW n \in Nat,
         Len(q) = n, Len(p) = n + 1, \A k \in 1..n : p[k] = q[k],
         NEW I, NEW J, \A k \in 1..n : k \in I <=> k \in J
  PROVE  HT!Picked(p, J) =
           IF n + 1 \in J THEN Append(HT!Picked(q, I), p[n + 1]) ELSE HT!Picked(q, I)
<1>1. p = Append(q, p[Len(q) + 1])
  BY AppendIs
<1>2. p[n + 1] \in S /\ p = Append(q, p[n + 1])
  BY <1>1
<1> DEFINE x == p[n + 1]
<1> HIDE DEF x
<1>3. \A k \in 1..Len(q) : k \in I <=> k \in J
  OBVIOUS
<1>4. x \in S
  BY <1>2 DEF x
<1>5. HT!Picked(Append(q, x), J) =
        IF Len(q) + 1 \in J THEN Append(HT!Picked(q, I), x) ELSE HT!Picked(q, I)
  BY <1>3, <1>4, PickedNext
<1>6. p = Append(q, x)
  BY <1>2 DEF x
<1>7. HT!Picked(p, J) =
        IF n + 1 \in J THEN Append(HT!Picked(q, I), x) ELSE HT!Picked(q, I)
  BY <1>5, <1>6
<1> QED
  BY <1>7 DEF x

\* Of the records before a position, the new one is the last if it is of the kind.
LEMMA BeforeNext ==
  ASSUME NEW s \in Seq(Records), NEW r \in Records, NEW a
  PROVE  /\ \A h \in Nat : h <= Len(s) + 1 => HT!Before(Append(s, r), h, a) = HT!Before(s, h, a)
         /\ \A h \in Nat : HT!Before(s, h, a) \subseteq 1..h - 1
         /\ \A j : j \in HT!Before(Append(s, r), Len(s) + 2, a) <=>
                     j \in HT!Before(s, Len(s) + 1, a) \/ (j = Len(s) + 1 /\ r.action = a)
<1> DEFINE n == Len(s)
           u == Append(s, r)
<1>1. n \in Nat /\ u[n + 1] = r /\ \A j \in 1..n : u[j] = s[j]
  BY OneMore
<1> HIDE DEF n, u
<1>2. ASSUME NEW h \in Nat, h <= n + 1 PROVE HT!Before(u, h, a) = HT!Before(s, h, a)
  <2>1. \A j \in 1..h - 1 : u[j] = s[j]
    BY <1>1, <1>2
  <2> QED
    BY <2>1 DEF HT!Before
<1>3. \A h \in Nat : HT!Before(s, h, a) \subseteq 1..h - 1
  BY DEF HT!Before
<1>4. ASSUME NEW j
      PROVE  j \in HT!Before(u, n + 2, a) <=>
               j \in HT!Before(s, n + 1, a) \/ (j = n + 1 /\ r.action = a)
  <2>1. (n + 2) - 1 = n + 1 /\ (n + 1) - 1 = n
    BY <1>1
  <2>2. j \in 1..n + 1 <=> j \in 1..n \/ j = n + 1
    BY <1>1
  <2>3. j \in HT!Before(u, n + 2, a) <=> j \in 1..n + 1 /\ u[j].action = a
    BY <2>1 DEF HT!Before
  <2>4. j \in HT!Before(s, n + 1, a) <=> j \in 1..n /\ s[j].action = a
    BY <2>1 DEF HT!Before
  <2>5. n + 1 \notin 1..n
    BY <1>1
  <2> QED
    BY <1>1, <2>2, <2>3, <2>4, <2>5
<1> QED
  BY <1>2, <1>3, <1>4 DEF n, u

-----------------------------------------------------------------------------
(* Basic blocks. *)

\* What the program may execute, and the entry for nothing yet.
Blocks == {r.size : r \in Records} \union {NoVId}

\* A block is one more block, and no other record is.
LEMMA BlocksNext ==
  ASSUME NEW s \in Seq(Records), NEW r \in Records
  PROVE  /\ HT!BlocksOf(s) \in Seq(Blocks)
         /\ HT!BlocksOf(Append(s, r)) =
              IF r.action = "BLOCK" THEN Append(HT!BlocksOf(s), r.size) ELSE HT!BlocksOf(s)
<1> DEFINE n == Len(s)
           u == Append(s, r)
           q == [j \in 1..n |-> s[j].size]
           p == [j \in 1..n + 1 |-> u[j].size]
           I == HT!Before(s, n + 1, "BLOCK")
           J == HT!Before(u, n + 2, "BLOCK")
<1>1. /\ u \in Seq(Records) /\ n \in Nat /\ Len(u) = n + 1 /\ u[n + 1] = r
      /\ \A j \in 1..n : u[j] = s[j]
  BY OneMore
<1>2. \A j \in 1..n : s[j] \in Records
  OBVIOUS
<1> HIDE DEF u
<1>3. q \in Seq(Blocks) /\ Len(q) = n /\ \A j \in 1..n : q[j] = s[j].size
  BY <1>1, <1>2 DEF Blocks
<1>4. p \in Seq(Blocks) /\ Len(p) = n + 1 /\ \A j \in 1..n + 1 : p[j] = u[j].size
  <2>1. \A j \in 1..n + 1 : u[j] \in Records
    BY <1>1
  <2> HIDE DEF n
  <2> QED
    BY <1>1, <2>1 DEF Blocks
<1>5. \A j \in 1..n : j \in 1..n + 1
  BY <1>1
<1>6. n + 1 \in 1..n + 1
  BY <1>1
<1> HIDE DEF q, p
<1>7. /\ \A j \in 1..n : p[j] = q[j]
      /\ p[n + 1] = r.size
  BY <1>1, <1>3, <1>4, <1>5, <1>6
<1>8. HT!BlocksOf(s) = HT!Picked(q, I)
  BY DEF HT!BlocksOf, q
<1>9. HT!BlocksOf(u) = HT!Picked(p, J)
  <2>1. Len(u) + 1 = n + 2
    BY <1>1
  <2> QED
    BY <1>1, <2>1 DEF HT!BlocksOf, p
<1>10. /\ \A k \in 1..n : k \in I <=> k \in J
       /\ n + 1 \in J <=> r.action = "BLOCK"
  <2>1. \A k : k \in J <=> k \in I \/ (k = n + 1 /\ r.action = "BLOCK")
    BY BeforeNext DEF u
  <2>2. I \subseteq 1..n /\ n + 1 \notin 1..n
    BY <1>1 DEF HT!Before
  <2> HIDE DEF I, J
  <2> QED
    BY <2>1, <2>2
<1> HIDE DEF I, J, n
<1>11. HT!Picked(q, I) \in Seq(Blocks)
  BY <1>3, PickedType
<1>12. HT!Picked(p, J) =
         IF n + 1 \in J THEN Append(HT!Picked(q, I), p[n + 1]) ELSE HT!Picked(q, I)
  <2>1. /\ n \in Nat /\ q \in Seq(Blocks) /\ Len(q) = n /\ p \in Seq(Blocks) /\ Len(p) = n + 1
        /\ \A k \in 1..n : p[k] = q[k]
        /\ \A k \in 1..n : k \in I <=> k \in J
    BY <1>1, <1>3, <1>4, <1>7, <1>10
  <2> QED
    BY <2>1, PickedGrows
<1> QED
  BY <1>7, <1>8, <1>9, <1>10, <1>11, <1>12 DEF u

-----------------------------------------------------------------------------
(* Calls and their arguments. *)

\* Arguments that are numbers, the functions that may be called with them, and
\* the entry for nothing yet.
Numbers == [kind : {"POS", "NEG", "ZERO"}, vals : {<<>>}]
Calls   == [vid : {r.vid : r \in Records}, args : Seq(Numbers)] \union {NoRecord}

Clears == {"ARGCLEAR", "BEGIN"}

\* The pending arguments: no record changes what was pending earlier, an
\* argument is one more, and what clears or takes them leaves none.
LEMMA PendingNext ==
  ASSUME NEW s \in Seq(Records), NEW r \in Records
  PROVE  /\ \A h \in Nat : h <= Len(s) + 1 => HT!Pending(Append(s, r), h) = HT!Pending(s, h)
         /\ \A h \in Nat : HT!Pending(s, h) \subseteq 1..h - 1
         /\ r.action \notin Clears =>
              /\ \A k \in 1..Len(s) : k \in HT!Pending(s, Len(s) + 1) <=>
                                      k \in HT!Pending(Append(s, r), Len(s) + 2)
              /\ Len(s) + 1 \in HT!Pending(Append(s, r), Len(s) + 2) <=> r.action = "ARG"
         /\ r.action \in Clears => HT!Pending(Append(s, r), Len(s) + 2) = {}
<1> DEFINE n == Len(s)
           u == Append(s, r)
           Cleared(q, h) == HT!Before(q, h, "ARGCLEAR") \union HT!Before(q, h, "BEGIN")
<1>1. n \in Nat
  OBVIOUS
<1>2. /\ \A h \in Nat : h <= n + 1 => /\ Cleared(u, h) = Cleared(s, h)
                                      /\ HT!Before(u, h, "ARG") = HT!Before(s, h, "ARG")
      /\ \A h \in Nat : HT!Before(s, h, "ARG") \subseteq 1..h - 1 /\ Cleared(s, h) \subseteq 1..h - 1
      /\ \A j : j \in HT!Before(u, n + 2, "ARG") <=>
                  j \in HT!Before(s, n + 1, "ARG") \/ (j = n + 1 /\ r.action = "ARG")
      /\ \A j : j \in Cleared(u, n + 2) <=>
                  j \in Cleared(s, n + 1) \/ (j = n + 1 /\ r.action \in Clears)
  <2>1. /\ \A h \in Nat : h <= n + 1 => HT!Before(u, h, "ARGCLEAR") = HT!Before(s, h, "ARGCLEAR")
        /\ \A h \in Nat : HT!Before(s, h, "ARGCLEAR") \subseteq 1..h - 1
        /\ \A j : j \in HT!Before(u, n + 2, "ARGCLEAR") <=>
                    j \in HT!Before(s, n + 1, "ARGCLEAR") \/ (j = n + 1 /\ r.action = "ARGCLEAR")
    BY BeforeNext
  <2>2. /\ \A h \in Nat : h <= n + 1 => HT!Before(u, h, "BEGIN") = HT!Before(s, h, "BEGIN")
        /\ \A h \in Nat : HT!Before(s, h, "BEGIN") \subseteq 1..h - 1
        /\ \A j : j \in HT!Before(u, n + 2, "BEGIN") <=>
                    j \in HT!Before(s, n + 1, "BEGIN") \/ (j = n + 1 /\ r.action = "BEGIN")
    BY BeforeNext
  <2>3. /\ \A h \in Nat : h <= n + 1 => HT!Before(u, h, "ARG") = HT!Before(s, h, "ARG")
        /\ \A h \in Nat : HT!Before(s, h, "ARG") \subseteq 1..h - 1
        /\ \A j : j \in HT!Before(u, n + 2, "ARG") <=>
                    j \in HT!Before(s, n + 1, "ARG") \/ (j = n + 1 /\ r.action = "ARG")
    BY BeforeNext
  <2> HIDE DEF n, u
  <2>4. \A h \in Nat : h <= n + 1 => /\ Cleared(u, h) = Cleared(s, h)
                                     /\ HT!Before(u, h, "ARG") = HT!Before(s, h, "ARG")
    BY <2>1, <2>2, <2>3
  <2>5. \A h \in Nat : HT!Before(s, h, "ARG") \subseteq 1..h - 1 /\ Cleared(s, h) \subseteq 1..h - 1
    BY <2>1, <2>2, <2>3
  <2>6. \A j : j \in Cleared(u, n + 2) <=>
                 j \in Cleared(s, n + 1) \/ (j = n + 1 /\ r.action \in Clears)
    BY <2>1, <2>2 DEF Clears
  <2> QED
    BY <2>3, <2>4, <2>5, <2>6
<1>3. \A q, h : HT!Pending(q, h) = {j \in HT!Before(q, h, "ARG") : \A k \in Cleared(q, h) : k < j}
  BY DEF HT!Pending
<1> HIDE DEF n, u, Cleared
<1>4. \A h \in Nat : h <= n + 1 => HT!Pending(u, h) = HT!Pending(s, h)
  BY <1>2, <1>3
<1>5. \A h \in Nat : HT!Pending(s, h) \subseteq 1..h - 1
  BY <1>2, <1>3
<1>6. /\ HT!Before(s, n + 1, "ARG") \subseteq 1..n /\ Cleared(s, n + 1) \subseteq 1..n
      /\ n + 1 \notin 1..n /\ \A j \in 1..n : j < n + 1 /\ ~(n + 1 < j)
  <2>1. n + 1 \in Nat /\ (n + 1) - 1 = n
    BY <1>1
  <2>2. HT!Before(s, n + 1, "ARG") \subseteq 1..n /\ Cleared(s, n + 1) \subseteq 1..n
    BY <1>2, <2>1
  <2> QED
    BY <1>1, <2>2
<1>7. ASSUME r.action \notin Clears
      PROVE  /\ \A k \in 1..n : k \in HT!Pending(s, n + 1) <=> k \in HT!Pending(u, n + 2)
             /\ n + 1 \in HT!Pending(u, n + 2) <=> r.action = "ARG"
  <2>1. Cleared(u, n + 2) = Cleared(s, n + 1)
    BY <1>2, <1>7
  <2>2. \A k \in 1..n : k \in HT!Before(s, n + 1, "ARG") <=> k \in HT!Before(u, n + 2, "ARG")
    BY <1>2, <1>6
  <2>3. n + 1 \in HT!Before(u, n + 2, "ARG") <=> r.action = "ARG"
    BY <1>2, <1>6
  <2>4. \A k \in Cleared(s, n + 1) : k < n + 1
    BY <1>6
  <2> QED
    BY <1>3, <2>1, <2>2, <2>3, <2>4
<1>8. ASSUME r.action \in Clears PROVE HT!Pending(u, n + 2) = {}
  <2>1. n + 1 \in Cleared(u, n + 2)
    BY <1>2, <1>8
  <2>2. r.action # "ARG"
    BY <1>8 DEF Clears
  <2>3. HT!Before(u, n + 2, "ARG") \subseteq 1..n
    BY <1>2, <1>6, <2>2
  <2> QED
    BY <1>3, <1>6, <2>1, <2>3
<1> QED
  BY <1>4, <1>5, <1>7, <1>8 DEF n, u

\* What a number is known by.
LEMMA ArgOfType == \A r : HT!ArgOf(r) \in Numbers
  BY DEF HT!ArgOf, Numbers

\* The arguments of earlier calls stay; an argument is one more, and what clears
\* or takes the pending ones leaves none.
LEMMA ArgsNext ==
  ASSUME NEW s \in Seq(Records), NEW r \in Records
  PROVE  /\ \A h : HT!ArgsAt(s, h) \in Seq(Numbers)
         /\ \A h \in Nat : h <= Len(s) + 1 => HT!ArgsAt(Append(s, r), h) = HT!ArgsAt(s, h)
         /\ HT!ArgsAt(Append(s, r), Len(s) + 2) =
              IF r.action \in Clears THEN <<>>
              ELSE IF r.action = "ARG" THEN Append(HT!ArgsAt(s, Len(s) + 1), HT!ArgOf(r))
              ELSE HT!ArgsAt(s, Len(s) + 1)
<1> DEFINE n == Len(s)
           u == Append(s, r)
           q == [j \in 1..n |-> HT!ArgOf(s[j])]
           p == [j \in 1..n + 1 |-> HT!ArgOf(u[j])]
<1>1. /\ u \in Seq(Records) /\ n \in Nat /\ Len(u) = n + 1 /\ u[n + 1] = r
      /\ \A j \in 1..n : u[j] = s[j]
  BY OneMore
<1> HIDE DEF u
<1>2. q \in Seq(Numbers) /\ Len(q) = n /\ \A j \in 1..n : q[j] = HT!ArgOf(s[j])
  BY <1>1, ArgOfType
<1>3. p \in Seq(Numbers) /\ Len(p) = n + 1 /\ \A j \in 1..n + 1 : p[j] = HT!ArgOf(u[j])
  <2> HIDE DEF n
  <2> QED
    BY <1>1, ArgOfType
<1>4. n + 1 \in 1..n + 1 /\ \A j \in 1..n : j \in 1..n + 1
  BY <1>1
<1>5. \A h : HT!ArgsAt(s, h) = HT!Picked(q, HT!Pending(s, h))
  BY DEF HT!ArgsAt
<1>6. \A h : HT!ArgsAt(u, h) = HT!Picked(p, HT!Pending(u, h))
  BY <1>1 DEF HT!ArgsAt
<1> HIDE DEF q, p
<1>7. /\ \A j \in 1..n : p[j] = q[j]
      /\ p[n + 1] = HT!ArgOf(r)
  BY <1>1, <1>2, <1>3, <1>4
<1>8. /\ \A h \in Nat : h <= n + 1 => HT!Pending(u, h) = HT!Pending(s, h)
      /\ \A h \in Nat : HT!Pending(s, h) \subseteq 1..h - 1
      /\ r.action \notin Clears =>
           /\ \A k \in 1..n : k \in HT!Pending(s, n + 1) <=> k \in HT!Pending(u, n + 2)
           /\ n + 1 \in HT!Pending(u, n + 2) <=> r.action = "ARG"
      /\ r.action \in Clears => HT!Pending(u, n + 2) = {}
  BY PendingNext DEF u
<1> HIDE DEF n
<1>9. ASSUME NEW h \in Nat, h <= n + 1 PROVE HT!ArgsAt(u, h) = HT!ArgsAt(s, h)
  <2> DEFINE I == HT!Pending(s, h)
  <2>1. HT!Pending(u, h) = I /\ n + 1 \notin I
    <3>1. I \subseteq 1..h - 1 /\ HT!Pending(u, h) = I
      BY <1>8, <1>9
    <3>2. n + 1 \notin 1..h - 1
      BY <1>1, <1>9
    <3> QED
      BY <3>1, <3>2
  <2> HIDE DEF I
  <2>2. HT!Picked(p, I) = IF n + 1 \in I THEN Append(HT!Picked(q, I), p[n + 1]) ELSE HT!Picked(q, I)
    BY <1>1, <1>2, <1>3, <1>7, PickedGrows
  <2> QED
    BY <1>5, <1>6, <2>1, <2>2 DEF I
<1>10. ASSUME r.action \notin Clears
       PROVE  HT!ArgsAt(u, n + 2) = IF r.action = "ARG"
                                    THEN Append(HT!ArgsAt(s, n + 1), HT!ArgOf(r))
                                    ELSE HT!ArgsAt(s, n + 1)
  <2> DEFINE I == HT!Pending(s, n + 1)
             J == HT!Pending(u, n + 2)
  <2>1. /\ \A k \in 1..n : k \in I <=> k \in J
        /\ n + 1 \in J <=> r.action = "ARG"
    BY <1>8, <1>10
  <2>2. HT!ArgsAt(u, n + 2) = HT!Picked(p, J) /\ HT!ArgsAt(s, n + 1) = HT!Picked(q, I)
    BY <1>5, <1>6
  <2> HIDE DEF I, J
  <2>3. HT!Picked(p, J) = IF n + 1 \in J THEN Append(HT!Picked(q, I), p[n + 1]) ELSE HT!Picked(q, I)
    BY <1>1, <1>2, <1>3, <1>7, <2>1, PickedGrows
  <2> QED
    BY <1>7, <2>1, <2>2, <2>3
<1>11. ASSUME r.action \in Clears PROVE HT!ArgsAt(u, n + 2) = <<>>
  <2>1. HT!Pending(u, n + 2) = {}
    BY <1>8, <1>11
  <2>2. HT!Picked(p, {}) = <<>>
    BY <1>3, PickedNone
  <2> QED
    BY <1>6, <2>1, <2>2
<1>12. \A h : HT!ArgsAt(s, h) \in Seq(Numbers)
  BY <1>2, <1>5, PickedType
<1> QED
  BY <1>9, <1>10, <1>11, <1>12 DEF n, u

\* A function that is entered is one more call, with the pending arguments.
LEMMA EntersNext ==
  ASSUME NEW s \in Seq(Records), NEW r \in Records
  PROVE  /\ HT!EntersOf(s) \in Seq(Calls)
         /\ HT!EntersOf(Append(s, r)) =
              IF r.action = "BEGIN"
              THEN Append(HT!EntersOf(s), [vid |-> r.vid, args |-> HT!ArgsAt(s, Len(s) + 1)])
              ELSE HT!EntersOf(s)
<1> DEFINE n == Len(s)
           u == Append(s, r)
           q == [j \in 1..n |-> [vid |-> s[j].vid, args |-> HT!ArgsAt(s, j)]]
           p == [j \in 1..n + 1 |-> [vid |-> u[j].vid, args |-> HT!ArgsAt(u, j)]]
           I == HT!Before(s, n + 1, "BEGIN")
           J == HT!Before(u, n + 2, "BEGIN")
<1>1. /\ u \in Seq(Records) /\ n \in Nat /\ Len(u) = n + 1 /\ u[n + 1] = r
      /\ \A j \in 1..n : u[j] = s[j]
  BY OneMore
<1>2. /\ \A h : HT!ArgsAt(s, h) \in Seq(Numbers) /\ HT!ArgsAt(u, h) \in Seq(Numbers)
      /\ \A h \in Nat : h <= n + 1 => HT!ArgsAt(u, h) = HT!ArgsAt(s, h)
  <2>1. \A h : HT!ArgsAt(u, h) \in Seq(Numbers)
    BY <1>1, ArgsNext
  <2> QED
    BY <2>1, ArgsNext
<1>3. \A j \in 1..n : s[j] \in Records
  OBVIOUS
<1> HIDE DEF u
<1>4. \A j \in 1..n + 1 : u[j] \in Records
  <2> HIDE DEF n
  <2> QED
    BY <1>1
<1>5. q \in Seq(Calls) /\ Len(q) = n
      /\ \A j \in 1..n : q[j] = [vid |-> s[j].vid, args |-> HT!ArgsAt(s, j)]
  <2>1. \A j \in 1..n : [vid |-> s[j].vid, args |-> HT!ArgsAt(s, j)] \in Calls
    BY <1>2, <1>3 DEF Calls
  <2> QED
    BY <1>1, <2>1
<1>6. p \in Seq(Calls) /\ Len(p) = n + 1
      /\ \A j \in 1..n + 1 : p[j] = [vid |-> u[j].vid, args |-> HT!ArgsAt(u, j)]
  <2> HIDE DEF n
  <2>1. \A j \in 1..n + 1 : [vid |-> u[j].vid, args |-> HT!ArgsAt(u, j)] \in Calls
    BY <1>2, <1>4 DEF Calls
  <2> QED
    BY <1>1, <2>1
<1>7. /\ n + 1 \in 1..n + 1 /\ n + 1 \in Nat /\ n + 1 <= n + 1
      /\ \A j \in 1..n : j \in 1..n + 1 /\ j \in Nat /\ j <= n + 1
  BY <1>1
<1> HIDE DEF q, p
<1>8. /\ \A j \in 1..n : p[j] = q[j]
      /\ p[n + 1] = [vid |-> r.vid, args |-> HT!ArgsAt(s, n + 1)]
  BY <1>1, <1>2, <1>5, <1>6, <1>7
<1>9. HT!EntersOf(s) = HT!Picked(q, I)
  BY DEF HT!EntersOf, q
<1>10. HT!EntersOf(u) = HT!Picked(p, J)
  <2>1. Len(u) + 1 = n + 2
    BY <1>1
  <2> QED
    BY <1>1, <2>1 DEF HT!EntersOf, p
<1>11. /\ \A k \in 1..n : k \in I <=> k \in J
       /\ n + 1 \in J <=> r.action = "BEGIN"
  <2>1. \A k : k \in J <=> k \in I \/ (k = n + 1 /\ r.action = "BEGIN")
    BY BeforeNext DEF u
  <2>2. I \subseteq 1..n /\ n + 1 \notin 1..n
    BY <1>1 DEF HT!Before
  <2> HIDE DEF I, J
  <2> QED
    BY <2>1, <2>2
<1> HIDE DEF I, J, n
<1>12. HT!Picked(q, I) \in Seq(Calls)
  BY <1>5, PickedType
<1>13. HT!Picked(p, J) =
         IF n + 1 \in J THEN Append(HT!Picked(q, I), p[n + 1]) ELSE HT!Picked(q, I)
  <2>1. /\ q \in Seq(Calls) /\ p \in Seq(Calls) /\ n \in Nat /\ Len(q) = n /\ Len(p) = n + 1
        /\ \A k \in 1..n : p[k] = q[k]
    BY <1>1, <1>5, <1>6, <1>8
  <2>2. \A k \in 1..n : k \in I <=> k \in J
    BY <1>11
  <2> QED
    BY <2>1, <2>2, PickedGrows
<1>14. HT!EntersOf(u) = IF r.action = "BEGIN" THEN Append(HT!EntersOf(s), p[n + 1])
                        ELSE HT!EntersOf(s)
  BY <1>9, <1>10, <1>11, <1>13
<1>15. HT!EntersOf(u) =
         IF r.action = "BEGIN"
         THEN Append(HT!EntersOf(s), [vid |-> r.vid, args |-> HT!ArgsAt(s, n + 1)])
         ELSE HT!EntersOf(s)
  BY <1>8, <1>14
<1>16. HT!EntersOf(s) \in Seq(Calls)
  BY <1>9, <1>12
<1> QED
  BY <1>15, <1>16 DEF u, n

-----------------------------------------------------------------------------
(* Objects, scopes and probes. *)

Vids == {r.vid : r \in Records}

\* The functions entered: no record changes those entered earlier.
LEMMA CalledNext ==
  ASSUME NEW s \in Seq(Records), NEW r \in Records
  PROVE  /\ \A h : HT!CalledAt(s, h) \in Seq(Vids)
         /\ \A h \in Nat : h <= Len(s) + 1 => HT!CalledAt(Append(s, r), h) = HT!CalledAt(s, h)
         /\ HT!CalledAt(Append(s, r), Len(s) + 2) =
              IF r.action = "BEGIN" THEN Append(HT!CalledAt(s, Len(s) + 1), r.vid)
              ELSE HT!CalledAt(s, Len(s) + 1)
<1> DEFINE n == Len(s)
           u == Append(s, r)
           q == [j \in 1..n |-> s[j].vid]
           p == [j \in 1..n + 1 |-> u[j].vid]
           At(h) == HT!Before(s, h, "BEGIN")
           J     == HT!Before(u, n + 2, "BEGIN")
<1>1. /\ u \in Seq(Records) /\ n \in Nat /\ Len(u) = n + 1 /\ u[n + 1] = r
      /\ \A j \in 1..n : u[j] = s[j]
  BY OneMore
<1>2. \A j \in 1..n : s[j] \in Records
  OBVIOUS
<1> HIDE DEF u
<1>3. q \in Seq(Vids) /\ Len(q) = n /\ \A j \in 1..n : q[j] = s[j].vid
  BY <1>1, <1>2 DEF Vids
<1>4. p \in Seq(Vids) /\ Len(p) = n + 1 /\ \A j \in 1..n + 1 : p[j] = u[j].vid
  <2>1. \A j \in 1..n + 1 : u[j] \in Records
    BY <1>1
  <2> HIDE DEF n
  <2> QED
    BY <1>1, <2>1 DEF Vids
<1>5. n + 1 \in 1..n + 1 /\ \A j \in 1..n : j \in 1..n + 1
  BY <1>1
<1>6. \A h : HT!CalledAt(s, h) = HT!Picked(q, At(h))
  BY DEF HT!CalledAt
<1>7. \A h : HT!CalledAt(u, h) = HT!Picked(p, HT!Before(u, h, "BEGIN"))
  BY <1>1 DEF HT!CalledAt
<1> HIDE DEF q, p
<1>8. /\ \A j \in 1..n : p[j] = q[j]
      /\ p[n + 1] = r.vid
  BY <1>1, <1>3, <1>4, <1>5
<1>9. /\ \A h \in Nat : h <= n + 1 => HT!Before(u, h, "BEGIN") = At(h)
      /\ \A h \in Nat : At(h) \subseteq 1..h - 1
      /\ \A k : k \in J <=> k \in At(n + 1) \/ (k = n + 1 /\ r.action = "BEGIN")
  BY BeforeNext DEF u
<1> HIDE DEF n, At, J
<1>10. ASSUME NEW h \in Nat, h <= n + 1 PROVE HT!CalledAt(u, h) = HT!CalledAt(s, h)
  <2>1. n + 1 \notin At(h)
    <3>1. At(h) \subseteq 1..h - 1
      BY <1>9
    <3>2. n + 1 \notin 1..h - 1
      BY <1>1, <1>10
    <3> QED
      BY <3>1, <3>2
  <2> DEFINE I == At(h)
  <2>2. HT!CalledAt(u, h) = HT!Picked(p, I) /\ HT!CalledAt(s, h) = HT!Picked(q, I) /\ n + 1 \notin I
    BY <1>6, <1>7, <1>9, <1>10, <2>1
  <2> HIDE DEF I
  <2>3. HT!Picked(p, I) = IF n + 1 \in I THEN Append(HT!Picked(q, I), p[n + 1]) ELSE HT!Picked(q, I)
    BY <1>1, <1>3, <1>4, <1>8, PickedGrows
  <2> QED
    BY <2>2, <2>3
<1>11. HT!CalledAt(u, n + 2) =
         IF r.action = "BEGIN" THEN Append(HT!CalledAt(s, n + 1), r.vid) ELSE HT!CalledAt(s, n + 1)
  <2> DEFINE I == At(n + 1)
  <2>1. /\ \A k \in 1..n : k \in I <=> k \in J
        /\ n + 1 \in J <=> r.action = "BEGIN"
    <3>1. n + 1 \in Nat /\ (n + 1) - 1 = n /\ n + 1 \notin 1..n
      BY <1>1
    <3>2. I \subseteq 1..n
      BY <1>9, <3>1
    <3> HIDE DEF I
    <3>3. \A k : k \in J <=> k \in I \/ (k = n + 1 /\ r.action = "BEGIN")
      BY <1>9 DEF I
    <3> QED
      BY <3>1, <3>2, <3>3
  <2>2. HT!CalledAt(u, n + 2) = HT!Picked(p, J) /\ HT!CalledAt(s, n + 1) = HT!Picked(q, I)
    BY <1>6, <1>7 DEF J
  <2> HIDE DEF I
  <2>3. HT!Picked(p, J) = IF n + 1 \in J THEN Append(HT!Picked(q, I), p[n + 1]) ELSE HT!Picked(q, I)
    BY <1>1, <1>3, <1>4, <1>8, <2>1, PickedGrows
  <2> QED
    BY <1>8, <2>1, <2>2, <2>3
<1>12. \A h : HT!CalledAt(s, h) \in Seq(Vids)
  BY <1>3, <1>6, PickedType
<1> QED
  BY <1>10, <1>11, <1>12 DEF n, u

\* What a record changes of the regions: it replaces or frees the one at its address.
LEMMA RegionNext ==
  ASSUME NEW s \in Seq(Records), NEW r \in Records, NEW b
  PROVE  /\ \A h \in Nat \ {0} : h <= Len(s) + 1 =>
              HT!RegionAt(Append(s, r), h, b) = HT!RegionAt(s, h, b)
         /\ HT!RegionAt(Append(s, r), Len(s) + 2, b) =
              IF r.action \in {"REGION", "FREE"} /\ r.ptr = b
              THEN IF r.action = "REGION" THEN {Len(s) + 1} ELSE {}
              ELSE HT!RegionAt(s, Len(s) + 1, b)
<1> DEFINE n == Len(s)
           u == Append(s, r)
           Touches(q, k) == q[k].action \in {"REGION", "FREE"} => q[k].ptr # b
<1>1. n \in Nat /\ u[n + 1] = r /\ \A j \in 1..n : u[j] = s[j]
  BY OneMore
<1>2. \A q : \A m \in Nat : \A j :
        j \in HT!RegionAt(q, m + 1, b) <=>
          /\ j \in 1..m /\ q[j].action = "REGION" /\ q[j].ptr = b
          /\ \A k \in j + 1 .. m : Touches(q, k)
  <2> TAKE q
  <2> TAKE m \in Nat
  <2> TAKE j
  <2>1. (m + 1) - 1 = m
    OBVIOUS
  <2> QED
    BY <2>1 DEF HT!RegionAt, HT!Before
<1>3. \A k \in 1..n : Touches(u, k) <=> Touches(s, k)
  BY <1>1
<1>4. Touches(u, n + 1) <=> (r.action \in {"REGION", "FREE"} => r.ptr # b)
  BY <1>1
<1> HIDE DEF n, u, Touches
<1>5. ASSUME NEW h \in Nat \ {0}, h <= n + 1
      PROVE  HT!RegionAt(u, h, b) = HT!RegionAt(s, h, b)
  <2>1. PICK m \in Nat : m = h - 1
    OBVIOUS
  <2>2. h = m + 1 /\ 1..m \subseteq 1..n /\ \A j \in 1..m : \A k \in j + 1 .. m : k \in 1..n
    BY <1>1, <1>5, <2>1
  <2>3. \A j : j \in HT!RegionAt(u, m + 1, b) <=> j \in HT!RegionAt(s, m + 1, b)
    <3> SUFFICES ASSUME NEW j
                 PROVE  j \in HT!RegionAt(u, m + 1, b) <=> j \in HT!RegionAt(s, m + 1, b)
      OBVIOUS
    <3>1. CASE j \in 1..m
      <4>1. u[j] = s[j]
        BY <1>1, <2>2, <3>1
      <4>2. (\A k \in j + 1 .. m : Touches(u, k)) <=> (\A k \in j + 1 .. m : Touches(s, k))
        BY <1>3, <2>2, <3>1
      <4>3. /\ j \in HT!RegionAt(u, m + 1, b) <=>
                 /\ j \in 1..m /\ u[j].action = "REGION" /\ u[j].ptr = b
                 /\ \A k \in j + 1 .. m : Touches(u, k)
            /\ j \in HT!RegionAt(s, m + 1, b) <=>
                 /\ j \in 1..m /\ s[j].action = "REGION" /\ s[j].ptr = b
                 /\ \A k \in j + 1 .. m : Touches(s, k)
        BY <1>2
      <4> QED
        BY <4>1, <4>2, <4>3
    <3>2. CASE j \notin 1..m
      BY <1>2, <3>2
    <3> QED
      BY <3>1, <3>2
  <2>4. HT!RegionAt(u, m + 1, b) = HT!RegionAt(s, m + 1, b)
    BY <2>3, Zenon
  <2> QED
    BY <2>2, <2>4
<1>6. HT!RegionAt(u, n + 2, b) =
        IF r.action \in {"REGION", "FREE"} /\ r.ptr = b
        THEN IF r.action = "REGION" THEN {n + 1} ELSE {}
        ELSE HT!RegionAt(s, n + 1, b)
  <2>1. n + 1 \in Nat /\ (n + 1) + 1 = n + 2
    BY <1>1
  <2>2. \A j : j \in HT!RegionAt(u, n + 2, b) <=>
                 /\ j \in 1..n + 1 /\ u[j].action = "REGION" /\ u[j].ptr = b
                 /\ \A k \in j + 1 .. n + 1 : Touches(u, k)
    BY <1>2, <2>1
  <2>3. /\ n + 1 \in 1..n + 1 /\ n + 1 \notin 1..n
        /\ \A k : ~(k \in (n + 1) + 1 .. n + 1)
        /\ \A j : j \in 1..n + 1 <=> j \in 1..n \/ j = n + 1
    BY <1>1
  <2>4. n + 1 \in HT!RegionAt(u, n + 2, b) <=> r.action = "REGION" /\ r.ptr = b
    BY <1>1, <2>2, <2>3
  <2>5. ASSUME NEW j \in 1..n
        PROVE  j \in HT!RegionAt(u, n + 2, b) <=>
                 j \in HT!RegionAt(s, n + 1, b) /\ Touches(u, n + 1)
    <3>1. \A k : k \in j + 1 .. n + 1 <=> k \in j + 1 .. n \/ k = n + 1
      BY <1>1
    <3>2. \A k \in j + 1 .. n : k \in 1..n
      BY <1>1
    <3>3. (\A k \in j + 1 .. n + 1 : Touches(u, k))
            <=> (\A k \in j + 1 .. n : Touches(s, k)) /\ Touches(u, n + 1)
      BY <1>3, <3>1, <3>2
    <3>4. u[j] = s[j]
      BY <1>1
    <3>5. j \in HT!RegionAt(s, n + 1, b) <=>
            /\ j \in 1..n /\ s[j].action = "REGION" /\ s[j].ptr = b
            /\ \A k \in j + 1 .. n : Touches(s, k)
      BY <1>1, <1>2
    <3>6. j \in HT!RegionAt(u, n + 2, b) <=>
            /\ j \in 1..n + 1 /\ u[j].action = "REGION" /\ u[j].ptr = b
            /\ \A k \in j + 1 .. n + 1 : Touches(u, k)
      BY <2>2
    <3>7. j \in 1..n + 1
      BY <2>3
    <3> QED
      BY <3>3, <3>4, <3>5, <3>6, <3>7
  <2> DEFINE A == HT!RegionAt(u, n + 2, b)
             B == HT!RegionAt(s, n + 1, b)
  <2>6. A \subseteq 1..n \union {n + 1} /\ B \subseteq 1..n
    BY <1>1, <1>2, <2>2, <2>3
  <2>7. /\ n + 1 \in A <=> r.action = "REGION" /\ r.ptr = b
        /\ \A j \in 1..n : j \in A <=> j \in B /\ Touches(u, n + 1)
    BY <2>4, <2>5
  <2> HIDE DEF A, B
  <2>8. CASE r.action \in {"REGION", "FREE"} /\ r.ptr = b
    <3>1. \A j \in 1..n : j \notin A
      BY <1>4, <2>7, <2>8
    <3>2. A \subseteq {n + 1}
      BY <2>6, <3>1
    <3>3. A = IF r.action = "REGION" THEN {n + 1} ELSE {}
      BY <2>7, <2>8, <3>2
    <3> QED
      BY <2>8, <3>3 DEF A
  <2>9. CASE ~(r.action \in {"REGION", "FREE"} /\ r.ptr = b)
    <3>1. n + 1 \notin A /\ \A j \in 1..n : j \in A <=> j \in B
      BY <1>4, <2>7, <2>9
    <3>2. A = B
      BY <2>6, <3>1
    <3> QED
      BY <2>9, <3>2 DEF A, B
  <2> QED
    BY <2>8, <2>9
<1> QED
  BY <1>5, <1>6 DEF n, u

\* A live address is one at which a region is seen.
LEMMA LiveIs ==
  ASSUME NEW q, NEW h, NEW b
  PROVE  b \in HT!LiveAt(q, h) <=> HT!RegionAt(q, h, b) # {}
BY DEF HT!LiveAt, HT!RegionAt

-----------------------------------------------------------------------------
(* What a probe sees. *)

\* A live address is one at which a region is seen, before and after the new record.
LEMMA LiveNext ==
  ASSUME NEW s \in Seq(Records), NEW r \in Records
  PROVE  \A h \in Nat \ {0} : h <= Len(s) + 1 => HT!LiveAt(Append(s, r), h) = HT!LiveAt(s, h)
<1> SUFFICES ASSUME NEW h \in Nat \ {0}, h <= Len(s) + 1
             PROVE  HT!LiveAt(Append(s, r), h) = HT!LiveAt(s, h)
  OBVIOUS
<1>1. \A b : HT!RegionAt(Append(s, r), h, b) = HT!RegionAt(s, h, b)
  BY RegionNext
<1>2. \A b : b \in HT!LiveAt(Append(s, r), h) <=> b \in HT!LiveAt(s, h)
  BY <1>1, LiveIs
<1> QED
  BY <1>2, Zenon

\* The context of a probe at position h.
ContextAt(q, h) ==
  [d \in 1..(IF Len(HT!CalledAt(q, h)) < K THEN Len(HT!CalledAt(q, h)) ELSE K) |->
     HT!CalledAt(q, h)[d]]

\* The address a probe at position h reaches.
Reached(q, h, b) ==
  /\ b \in HT!LiveAt(q, h) /\ b <= q[h].ptr
  /\ \A c \in HT!LiveAt(q, h) : c <= q[h].ptr => c <= b
  /\ \A j \in HT!RegionAt(q, h, b) : q[h].ptr < b + q[j].size

\* The edges of a probe, one by one.
LEMMA EdgesIs ==
  ASSUME NEW q, NEW h, NEW e
  PROVE  e \in HT!EdgesAt(q, h) <=>
           \E b : Reached(q, h, b) /\ \E j \in HT!RegionAt(q, h, b) :
                    e = <<q[h].vid, q[j].vid, ContextAt(q, h)>>
<1> DEFINE near   == {b \in HT!LiveAt(q, h) : b <= q[h].ptr}
           inside == {b \in near : /\ \A c \in near : c <= b
                                   /\ \A j \in HT!RegionAt(q, h, b) : q[h].ptr < b + q[j].size}
           cx     == ContextAt(q, h)
           edges  == {<<q[h].vid, q[j].vid, cx>> :
                        j \in UNION {HT!RegionAt(q, h, b) : b \in inside}}
<1>1. HT!EdgesAt(q, h) = edges
  BY DEF HT!EdgesAt, ContextAt
<1>2. \A b : b \in inside <=> Reached(q, h, b)
  BY Zenon DEF Reached
<1> HIDE DEF inside, cx
<1>3. e \in edges <=> \E b \in inside : \E j \in HT!RegionAt(q, h, b) :
                        e = <<q[h].vid, q[j].vid, cx>>
  BY Zenon
<1> QED
  BY <1>1, <1>2, <1>3, Zenon DEF cx

\* No record changes the edges of an earlier probe; a probe adds its own.
LEMMA EdgesNext ==
  ASSUME NEW s \in Seq(Records), NEW r \in Records
  PROVE  HT!EdgesOf(Append(s, r)) =
           IF r.action = "PROBE" THEN HT!EdgesOf(s) \union HT!EdgesAt(Append(s, r), Len(s) + 1)
           ELSE HT!EdgesOf(s)
<1> DEFINE n == Len(s)
           u == Append(s, r)
           I == HT!Before(s, n + 1, "PROBE")
           J == HT!Before(u, n + 2, "PROBE")
<1>1. n \in Nat /\ Len(u) = n + 1 /\ u[n + 1] = r /\ \A j \in 1..n : u[j] = s[j]
  BY OneMore
<1>2. ASSUME NEW h \in 1..n PROVE HT!EdgesAt(u, h) = HT!EdgesAt(s, h)
  <2>1. h \in Nat \ {0} /\ h \in Nat /\ h <= n + 1 /\ u[h] = s[h]
    BY <1>1
  <2>2. HT!LiveAt(u, h) = HT!LiveAt(s, h)
    BY <2>1, LiveNext
  <2>3. \A b : HT!RegionAt(u, h, b) = HT!RegionAt(s, h, b)
    BY <2>1, RegionNext
  <2>4. HT!CalledAt(u, h) = HT!CalledAt(s, h)
    BY <2>1, CalledNext
  <2>5. \A b : \A j \in HT!RegionAt(s, h, b) : u[j] = s[j]
    <3>1. \A b : HT!RegionAt(s, h, b) \subseteq 1..h - 1
      BY DEF HT!RegionAt, HT!Before
    <3>2. 1..h - 1 \subseteq 1..n
      BY <1>1
    <3> QED
      BY <1>1, <3>1, <3>2
  <2>6. ContextAt(u, h) = ContextAt(s, h)
    BY <2>4 DEF ContextAt
  <2> HIDE DEF u
  <2>7. \A b : Reached(u, h, b) <=> Reached(s, h, b)
    BY <2>1, <2>2, <2>3, <2>5, Zenon DEF Reached
  <2>8. \A e : e \in HT!EdgesAt(u, h) <=> e \in HT!EdgesAt(s, h)
    <3> TAKE e
    <3>1. e \in HT!EdgesAt(u, h) <=>
            \E b : Reached(u, h, b) /\ \E j \in HT!RegionAt(u, h, b) :
                     e = <<u[h].vid, u[j].vid, ContextAt(u, h)>>
      BY EdgesIs
    <3>2. e \in HT!EdgesAt(s, h) <=>
            \E b : Reached(s, h, b) /\ \E j \in HT!RegionAt(s, h, b) :
                     e = <<s[h].vid, s[j].vid, ContextAt(s, h)>>
      BY EdgesIs
    <3> QED
      BY <2>1, <2>3, <2>5, <2>6, <2>7, <3>1, <3>2, Zenon
  <2> QED
    BY <2>8, Zenon
<1>3. HT!EdgesOf(s) = UNION {HT!EdgesAt(s, h) : h \in I}
  BY DEF HT!EdgesOf
<1>4. HT!EdgesOf(u) = UNION {HT!EdgesAt(u, h) : h \in J}
  <2>1. Len(u) + 1 = n + 2
    BY <1>1
  <2> QED
    BY <2>1 DEF HT!EdgesOf
<1>5. /\ \A k : k \in J <=> k \in I \/ (k = n + 1 /\ r.action = "PROBE")
      /\ I \subseteq 1..n
  <2>1. \A k : k \in J <=> k \in I \/ (k = n + 1 /\ r.action = "PROBE")
    BY BeforeNext
  <2>2. I \subseteq 1..n
    BY <1>1 DEF HT!Before
  <2> QED
    BY <2>1, <2>2
<1> HIDE DEF I, J, u, n
<1>6. \A h \in I : HT!EdgesAt(u, h) = HT!EdgesAt(s, h)
  BY <1>2, <1>5
<1> DEFINE old == HT!EdgesOf(s)
           new == HT!EdgesAt(u, n + 1)
           all == HT!EdgesOf(u)
<1>7. \A e : e \in old <=> \E h \in I : e \in HT!EdgesAt(s, h)
  BY <1>3, Zenon
<1>8. \A e : e \in all <=> \E h \in J : e \in HT!EdgesAt(u, h)
  BY <1>4, Zenon
<1> HIDE DEF old, all
<1>9. \A e : e \in all <=> e \in old \/ (r.action = "PROBE" /\ e \in new)
  <2> TAKE e
  <2>1. e \in all <=> (\E h \in I : e \in HT!EdgesAt(u, h)) \/ (r.action = "PROBE" /\ e \in new)
    BY <1>5, <1>8, Zenon
  <2>2. (\E h \in I : e \in HT!EdgesAt(u, h)) <=> (\E h \in I : e \in HT!EdgesAt(s, h))
    BY <1>6, Zenon
  <2> QED
    BY <1>7, <2>1, <2>2, Zenon
<1> HIDE DEF new
<1>10. all = IF r.action = "PROBE" THEN old \union new ELSE old
  BY <1>9
<1> QED
  BY <1>10 DEF old, new, all, u, n

\* The recorder of windows, of which bb and cg are two.
WT == INSTANCE WindowTraceProofs WITH
        W <- BBCtxPlusOne, Items <- Blocks, Blank <- NoVId, MaxSeen <- MaxPush,
        cov <- t.bb, seen <- HT!BlocksOf(pushed)

-----------------------------------------------------------------------------
(* What the tables hold. *)

\* The records whose meaning HookTrace gives: objects that are registered and
\* freed by address, and arguments that are numbers.
PlainRecord(r) ==
  /\ r.action \in {"BLOCK", "BEGIN", "REGION", "FREE", "PROBE", "ARG", "ARGCLEAR"}
  /\ r.ptr \in Int
  /\ r.action = "ARG" => r.size # 1

PlainRecords == \A r \in Records : PlainRecord(r)

IsTables(u) ==
  u = [ptrToVid |-> u.ptrToVid, pts |-> u.pts, scopeStack |-> u.scopeStack,
       allocaPool |-> u.allocaPool, bb |-> u.bb, pendingArgs |-> u.pendingArgs,
       callContext |-> u.callContext, consMap |-> u.consMap, cg |-> u.cg]

\* The tables of one mode after v has come from u by record r.
PtrStep(u, v, r) ==
  /\ v.ptrToVid = IF r.action = "REGION"
                  THEN Bind(u.ptrToVid, r.ptr, [vid |-> r.vid, size |-> r.size])
                  ELSE IF r.action = "FREE" THEN Unbind(u.ptrToVid, {r.ptr}) ELSE u.ptrToVid
  /\ v.scopeStack = IF r.action = "BEGIN"
                    THEN Append(u.scopeStack, [vid |-> r.vid, start |-> Len(u.allocaPool),
                                               end |-> Len(u.allocaPool)])
                    ELSE u.scopeStack
  /\ v.allocaPool = u.allocaPool
  /\ v.pts = IF r.action = "PROBE" /\ Covers(u, r.ptr)
             THEN u.pts \union {<<r.vid, u.ptrToVid[BaseOf(u, r.ptr)].vid, Context(u)>>}
             ELSE u.pts

BbStep(u, v, r) ==
  v.bb = IF r.action = "BLOCK" THEN Cover(BBCtxPlusOne, u.bb, r.size) ELSE u.bb

CgStep(u, v, r) ==
  /\ v.cg = IF r.action = "BEGIN"
            THEN Cover(CGCtxPlusOne, u.cg, [vid |-> r.vid, args |-> u.pendingArgs]) ELSE u.cg
  /\ v.pendingArgs = IF r.action \in Clears THEN <<>>
                     ELSE IF r.action = "ARG" THEN Append(u.pendingArgs, HT!ArgOf(r))
                     ELSE u.pendingArgs

\* One turn of the loop of stopAndConsume does to each mode's tables what its
\* branch says, and nothing to those of the others.
LEMMA ApplyIs ==
  ASSUME NEW u, IsTables(u), NEW r, PlainRecord(r)
  PROVE  /\ IsTables(Apply(u, r))
         /\ "ptr" \in Mode => PtrStep(u, Apply(u, r), r)
         /\ "bb" \in Mode => BbStep(u, Apply(u, r), r)
         /\ "cg" \in Mode => CgStep(u, Apply(u, r), r)
<1> DEFINE Goal(v) == /\ IsTables(v)
                      /\ "ptr" \in Mode => PtrStep(u, v, r)
                      /\ "bb" \in Mode => BbStep(u, v, r)
                      /\ "cg" \in Mode => CgStep(u, v, r)
<1>1. CASE r.action = "BLOCK"
  <2>1. Apply(u, r) = IF "bb" \in Mode THEN BasicBlock(u, r) ELSE u
    BY <1>1 DEF Apply
  <2>2. Goal(Apply(u, r))
    BY <1>1, <2>1 DEF IsTables, PtrStep, BbStep, CgStep, BasicBlock, Clears
  <2> QED
    BY <2>2
<1>2. CASE r.action = "REGION"
  <2>1. Apply(u, r) = IF "ptr" \in Mode THEN Region(u, r) ELSE u
    BY <1>2 DEF Apply
  <2>2. Goal(Apply(u, r))
    BY <1>2, <2>1 DEF IsTables, PtrStep, BbStep, CgStep, Region, Clears
  <2> QED
    BY <2>2
<1>3. CASE r.action = "FREE"
  <2>1. Apply(u, r) = IF "ptr" \in Mode THEN Free(u, r) ELSE u
    BY <1>3 DEF Apply
  <2>2. Goal(Apply(u, r))
    BY <1>3, <2>1 DEF IsTables, PtrStep, BbStep, CgStep, Free, Clears
  <2> QED
    BY <2>2
<1>4. CASE r.action = "PROBE"
  <2>1. Apply(u, r) = IF "ptr" \in Mode THEN Probe(u, r) ELSE u
    BY <1>4 DEF Apply
  <2>2. Goal(Apply(u, r))
    BY <1>4, <2>1 DEF IsTables, PtrStep, BbStep, CgStep, Probe, Clears
  <2> QED
    BY <2>2
<1>5. CASE r.action = "ARG"
  <2>1. Apply(u, r) = IF "cg" \in Mode THEN Arg(u, r) ELSE u
    BY <1>5 DEF Apply
  <2>2. Arg(u, r) = [u EXCEPT !.pendingArgs = Append(@, HT!ArgOf(r))]
    BY <1>5 DEF PlainRecord, Arg, HT!ArgOf
  <2>3. Goal(Apply(u, r))
    BY <1>5, <2>1, <2>2 DEF IsTables, PtrStep, BbStep, CgStep, Clears
  <2> QED
    BY <2>3
<1>6. CASE r.action = "ARGCLEAR"
  <2>1. Apply(u, r) = IF "cg" \in Mode THEN ArgClear(u) ELSE u
    BY <1>6 DEF Apply
  <2>2. Goal(Apply(u, r))
    BY <1>6, <2>1 DEF IsTables, PtrStep, BbStep, CgStep, ArgClear, Clears
  <2> QED
    BY <2>2
<1>7. CASE r.action = "BEGIN"
  <2> DEFINE o == IF "ptr" \in Mode THEN OpenScope(u, r.vid) ELSE u
  <2>1. Apply(u, r) = IF "cg" \in Mode THEN EnterCall(o, r.vid) ELSE o
    BY <1>7 DEF Apply, BeginScope
  <2>2. /\ IsTables(o) /\ o.callContext = u.callContext /\ o.cg = u.cg /\ o.bb = u.bb
        /\ o.pendingArgs = u.pendingArgs
        /\ o.ptrToVid = u.ptrToVid /\ o.pts = u.pts /\ o.allocaPool = u.allocaPool
        /\ "ptr" \in Mode => o.scopeStack = Append(u.scopeStack, [vid |-> r.vid, start |-> Len(u.allocaPool),
                                               end |-> Len(u.allocaPool)])
    BY DEF IsTables, OpenScope
  <2> HIDE DEF o
  <2>3. Goal(Apply(u, r))
    BY <1>7, <2>1, <2>2 DEF IsTables, PtrStep, BbStep, CgStep, EnterCall, Clears
  <2> QED
    BY <2>3
<1> QED
  BY <1>1, <1>2, <1>3, <1>4, <1>5, <1>6, <1>7 DEF PlainRecord

-----------------------------------------------------------------------------
(* That the tables are true. *)

\* No pool is in use, so a scope's slice is empty.
Scopes == [vid : Vids, start : {0}, end : {0}]

\* The pointer tables say what s means: the objects alive, the scopes, the edges.
\* Of any of the objects one has the highest address.
PtrTrue(u, s) ==
  /\ DOMAIN u.ptrToVid = HT!LiveAt(s, Len(s) + 1)
  /\ DOMAIN u.ptrToVid \subseteq Int
  /\ \A B \in SUBSET DOMAIN u.ptrToVid : B # {} => \E b \in B : \A c \in B : c <= b
  /\ \A b \in DOMAIN u.ptrToVid : \A j \in HT!RegionAt(s, Len(s) + 1, b) :
       u.ptrToVid[b] = [vid |-> s[j].vid, size |-> s[j].size]
  /\ u.allocaPool = <<>>
  /\ u.scopeStack \in Seq(Scopes)
  /\ Len(u.scopeStack) = Len(HT!CalledAt(s, Len(s) + 1))
  /\ \A k \in 1..Len(u.scopeStack) : u.scopeStack[k].vid = HT!CalledAt(s, Len(s) + 1)[k]
  /\ u.pts = HT!EdgesOf(s)

\* The window recorders have seen the blocks and the calls of s.
BbTrue(u, s) == WT!Recorded(BBCtxPlusOne, Blocks, NoVId, u.bb, HT!BlocksOf(s))

CgTrue(u, s) ==
  /\ WT!Recorded(CGCtxPlusOne, Calls, NoRecord, u.cg, HT!EntersOf(s))
  /\ u.pendingArgs = HT!ArgsAt(s, Len(s) + 1)

TablesTrue(u, s) ==
  /\ IsTables(u)
  /\ "ptr" \in Mode => PtrTrue(u, s)
  /\ "bb" \in Mode => BbTrue(u, s)
  /\ "cg" \in Mode => CgTrue(u, s)

\* The records already applied to the tables: those pushed, without those that are
\* still in the buffer.
Unconsumed == IF pc = "consume" THEN SubSeq(buf, i + 1, Len(buf)) ELSE buf

TablesInv == ~interrupted => \E s \in Seq(Records) : TablesTrue(t, s) /\ pushed = s \o Unconsumed

-----------------------------------------------------------------------------
(* The pointer tables. *)

\* The base of an address is the highest one up to it.
LEMMA BaseIs ==
  ASSUME NEW u, NEW a,
         \A B \in SUBSET DOMAIN u.ptrToVid : B # {} => \E b \in B : \A c \in B : c <= b,
         BasesUpTo(u, a) # {}
  PROVE  /\ BaseOf(u, a) \in DOMAIN u.ptrToVid /\ BaseOf(u, a) <= a
         /\ \A c \in DOMAIN u.ptrToVid : c <= a => c <= BaseOf(u, a)
<1>1. BasesUpTo(u, a) \subseteq DOMAIN u.ptrToVid /\ \A c \in BasesUpTo(u, a) : c <= a
  BY DEF BasesUpTo
<1>2. \E b \in BasesUpTo(u, a) : \A c \in BasesUpTo(u, a) : c <= b
  BY <1>1, Zenon
<1>3. BaseOf(u, a) \in BasesUpTo(u, a) /\ \A c \in BasesUpTo(u, a) : c <= BaseOf(u, a)
  BY <1>2, Zenon DEF BaseOf
<1>4. \A c \in DOMAIN u.ptrToVid : c <= a => c \in BasesUpTo(u, a)
  BY DEF BasesUpTo
<1> QED
  BY <1>1, <1>3, <1>4, Zenon

\* A probe finds in the tables what it reaches among the records.
LEMMA ProbeTrue ==
  ASSUME NEW s \in Seq(Records), NEW r \in Records, PlainRecord(r), NEW u, PtrTrue(u, s)
  PROVE  HT!EdgesAt(Append(s, r), Len(s) + 1) =
           IF Covers(u, r.ptr)
           THEN {<<r.vid, u.ptrToVid[BaseOf(u, r.ptr)].vid, Context(u)>>} ELSE {}
<1> DEFINE n == Len(s)
           w == Append(s, r)
           a == r.ptr
           D == DOMAIN u.ptrToVid
           At(b) == HT!RegionAt(s, n + 1, b)
           Size(b) == u.ptrToVid[b].size
           Vid(b) == u.ptrToVid[b].vid
           cx == Context(u)
<1>1. /\ n \in Nat /\ w[n + 1] = r /\ \A j \in 1..n : w[j] = s[j]
      /\ n + 1 \in Nat \ {0} /\ n + 1 \in Nat /\ n + 1 <= n + 1 /\ (n + 1) - 1 = n
  BY OneMore
<1>2. D = HT!LiveAt(w, n + 1)
  BY <1>1, LiveNext DEF PtrTrue
<1>3. \A b : HT!RegionAt(w, n + 1, b) = At(b)
  BY <1>1, RegionNext
<1>4. \A b : At(b) \subseteq 1..n
  BY <1>1 DEF HT!RegionAt, HT!Before
<1>5. \A b \in D : At(b) # {}
  BY LiveIs DEF PtrTrue
<1>6. \A b \in D : \A j \in At(b) : w[j].vid = Vid(b) /\ w[j].size = Size(b)
  <2>1. \A b \in D : \A j \in At(b) : u.ptrToVid[b] = [vid |-> s[j].vid, size |-> s[j].size]
    BY DEF PtrTrue
  <2> SUFFICES ASSUME NEW b \in D, NEW j \in At(b)
               PROVE  w[j].vid = Vid(b) /\ w[j].size = Size(b)
    OBVIOUS
  <2>2. u.ptrToVid[b] = [vid |-> s[j].vid, size |-> s[j].size]
    BY <2>1
  <2>3. w[j] = s[j]
    BY <1>1, <1>4
  <2> QED
    BY <2>2, <2>3
<1>7. cx = ContextAt(w, n + 1)
  <2>1. HT!CalledAt(w, n + 1) = HT!CalledAt(s, n + 1)
    BY <1>1, CalledNext
  <2>2. /\ Len(u.scopeStack) = Len(HT!CalledAt(s, n + 1))
        /\ \A k \in 1..Len(u.scopeStack) : u.scopeStack[k].vid = HT!CalledAt(s, n + 1)[k]
        /\ Len(u.scopeStack) \in Nat /\ K \in Nat
    BY HookTablesAssumption DEF PtrTrue
  <2> HIDE DEF w, n
  <2> DEFINE m == IF Len(u.scopeStack) < K THEN Len(u.scopeStack) ELSE K
  <2>3. \A k \in 1..m : k \in 1..Len(u.scopeStack)
    BY <2>2
  <2>4. ContextAt(w, n + 1) = [k \in 1..m |-> HT!CalledAt(s, n + 1)[k]]
    BY <2>1, <2>2 DEF ContextAt
  <2>5. cx = [k \in 1..m |-> u.scopeStack[k].vid]
    BY DEF Context
  <2> HIDE DEF m, cx
  <2> QED
    BY <2>2, <2>3, <2>4, <2>5
<1>8. a \in Int /\ D \subseteq Int
  BY DEF PlainRecord, PtrTrue
<1>9. BasesUpTo(u, a) # {} =>
        /\ BaseOf(u, a) \in D /\ BaseOf(u, a) <= a
        /\ \A c \in D : c <= a => c <= BaseOf(u, a)
  BY BaseIs DEF PtrTrue
<1>10. BasesUpTo(u, a) = {} => \A c \in D : ~(c <= a)
  BY DEF BasesUpTo
<1>11. Covers(u, a) <=> BasesUpTo(u, a) # {} /\ a < BaseOf(u, a) + Size(BaseOf(u, a))
  BY DEF Covers
<1> DEFINE cov == Covers(u, a)
           base == BaseOf(u, a)
<1> HIDE DEF w, D, At, Size, Vid, cx, cov, base
<1>12. \A b : Reached(w, n + 1, b) <=> cov /\ b = base
  <2> TAKE b
  <2>1. Reached(w, n + 1, b) <=>
          /\ b \in D /\ b <= a
          /\ \A c \in D : c <= a => c <= b
          /\ \A j \in At(b) : a < b + w[j].size
    BY <1>1, <1>2, <1>3 DEF Reached
  <2>2. ASSUME b \in D PROVE (\A j \in At(b) : a < b + w[j].size) <=> a < b + Size(b)
    BY <1>5, <1>6, <2>2
  <2>3. ASSUME Reached(w, n + 1, b) PROVE cov /\ b = base
    <3>1. b \in D /\ b <= a /\ (\A c \in D : c <= a => c <= b) /\ a < b + Size(b)
      BY <2>1, <2>2, <2>3
    <3>2. BasesUpTo(u, a) # {}
      BY <1>10, <3>1
    <3>3. base \in D /\ base <= a /\ \A c \in D : c <= a => c <= base
      BY <1>9, <3>2 DEF base
    <3>4. base <= b /\ b <= base
      BY <3>1, <3>3
    <3>5. b = base
      BY <1>8, <3>1, <3>3, <3>4
    <3> QED
      BY <1>11, <3>1, <3>2, <3>5 DEF cov, base
  <2>4. ASSUME cov, b = base PROVE Reached(w, n + 1, b)
    <3>1. BasesUpTo(u, a) # {} /\ a < b + Size(b)
      BY <1>11, <2>4 DEF cov, base
    <3>2. b \in D /\ b <= a /\ \A c \in D : c <= a => c <= b
      BY <1>9, <2>4, <3>1 DEF base
    <3> QED
      BY <2>1, <2>2, <3>1, <3>2
  <2> QED
    BY <2>3, <2>4
<1>13. cov => base \in D
  BY <1>9, <1>11 DEF cov, base
<1> DEFINE edges == HT!EdgesAt(w, n + 1)
<1>14. \A e : e \in edges <=> cov /\ e = <<r.vid, Vid(base), cx>>
  <2> TAKE e
  <2>1. e \in edges <=> \E b : Reached(w, n + 1, b) /\ \E j \in At(b) : e = <<r.vid, w[j].vid, cx>>
    BY <1>1, <1>3, <1>7, EdgesIs
  <2> HIDE DEF edges
  <2>2. e \in edges <=> cov /\ \E j \in At(base) : e = <<r.vid, w[j].vid, cx>>
    BY <1>12, <2>1, Zenon
  <2>3. ASSUME cov PROVE (\E j \in At(base) : e = <<r.vid, w[j].vid, cx>>) <=> e = <<r.vid, Vid(base), cx>>
    <3>1. /\ \E j : j \in At(base)
          /\ \A j \in At(base) : w[j].vid = Vid(base)
      BY <1>5, <1>6, <1>13, <2>3
    <3> QED
      BY <3>1, Zenon
  <2> QED
    BY <2>2, <2>3
<1> HIDE DEF edges
<1>15. edges = IF cov THEN {<<r.vid, Vid(base), cx>>} ELSE {}
  BY <1>14
<1> QED
  BY <1>15 DEF edges, cov, base, w, Vid, cx

\* A record keeps the pointer tables true.
LEMMA PtrNext ==
  ASSUME NEW s \in Seq(Records), NEW r \in Records, PlainRecord(r),
         NEW u, NEW v, PtrTrue(u, s), PtrStep(u, v, r)
  PROVE  PtrTrue(v, Append(s, r))
<1> DEFINE n == Len(s)
           w == Append(s, r)
           D == DOMAIN u.ptrToVid
           E == DOMAIN v.ptrToVid
           a == r.ptr
           o == [vid |-> r.vid, size |-> r.size]
           Old(b) == HT!RegionAt(s, n + 1, b)
           New(b) == HT!RegionAt(w, n + 2, b)
<1>1. /\ n \in Nat /\ Len(w) + 1 = n + 2 /\ w[n + 1] = r /\ \A j \in 1..n : w[j] = s[j]
  BY OneMore
<1>2. /\ D = HT!LiveAt(s, n + 1) /\ D \subseteq Int
      /\ \A B \in SUBSET D : B # {} => \E b \in B : \A c \in B : c <= b
      /\ \A b \in D : \A j \in Old(b) : u.ptrToVid[b] = [vid |-> s[j].vid, size |-> s[j].size]
  BY DEF PtrTrue
<1>3. /\ \A b : New(b) = IF r.action \in {"REGION", "FREE"} /\ a = b
                         THEN IF r.action = "REGION" THEN {n + 1} ELSE {} ELSE Old(b)
      /\ \A b : b \in D <=> Old(b) # {}
      /\ \A b : b \in HT!LiveAt(w, n + 2) <=> New(b) # {}
      /\ \A b : Old(b) \subseteq 1..n
  <2>1. \A b : Old(b) \subseteq 1..n
    BY <1>1 DEF HT!RegionAt, HT!Before
  <2>2. \A b : b \in D <=> Old(b) # {}
    BY <1>2, LiveIs
  <2>3. \A b : b \in HT!LiveAt(w, n + 2) <=> New(b) # {}
    BY LiveIs
  <2>4. \A b : New(b) = IF r.action \in {"REGION", "FREE"} /\ a = b
                        THEN IF r.action = "REGION" THEN {n + 1} ELSE {} ELSE Old(b)
    BY RegionNext
  <2> QED
    BY <2>1, <2>2, <2>3, <2>4
<1>4. a \in Int
  BY DEF PlainRecord
<1>5. v.ptrToVid = IF r.action = "REGION" THEN Bind(u.ptrToVid, a, o)
                   ELSE IF r.action = "FREE" THEN Unbind(u.ptrToVid, {a}) ELSE u.ptrToVid
  BY DEF PtrStep
<1>6. /\ E = IF r.action = "REGION" THEN D \union {a}
             ELSE IF r.action = "FREE" THEN D \ {a} ELSE D
      /\ \A b \in E : v.ptrToVid[b] = IF r.action = "REGION" /\ b = a THEN o ELSE u.ptrToVid[b]
  <2>1. CASE r.action = "REGION"
    BY <1>5, <2>1 DEF Bind
  <2>2. CASE r.action = "FREE"
    BY <1>5, <2>2 DEF Unbind
  <2>3. CASE r.action # "REGION" /\ r.action # "FREE"
    BY <1>5, <2>3
  <2> QED
    BY <2>1, <2>2, <2>3
<1>7. HT!EdgesOf(w) = v.pts
  <2>1. /\ u.pts = HT!EdgesOf(s)
        /\ v.pts = IF r.action = "PROBE" /\ Covers(u, r.ptr)
                   THEN u.pts \union {<<r.vid, u.ptrToVid[BaseOf(u, r.ptr)].vid, Context(u)>>}
                   ELSE u.pts
    BY DEF PtrTrue, PtrStep
  <2>2. HT!EdgesOf(w) = IF r.action = "PROBE" THEN HT!EdgesOf(s) \union HT!EdgesAt(w, n + 1)
                        ELSE HT!EdgesOf(s)
    BY EdgesNext
  <2>3. HT!EdgesAt(w, n + 1) =
          IF Covers(u, r.ptr)
          THEN {<<r.vid, u.ptrToVid[BaseOf(u, r.ptr)].vid, Context(u)>>} ELSE {}
    BY ProbeTrue
  <2> HIDE DEF w, n
  <2> QED
    BY <2>1, <2>2, <2>3
<1>8. /\ v.allocaPool = <<>>
      /\ v.scopeStack \in Seq(Scopes)
      /\ Len(v.scopeStack) = Len(HT!CalledAt(w, n + 2))
      /\ \A k \in 1..Len(v.scopeStack) : v.scopeStack[k].vid = HT!CalledAt(w, n + 2)[k]
  <2> DEFINE old == HT!CalledAt(s, n + 1)
             new == HT!CalledAt(w, n + 2)
             st  == u.scopeStack
             x   == [vid |-> r.vid, start |-> 0, end |-> 0]
  <2>1. /\ old \in Seq(Vids)
        /\ new = IF r.action = "BEGIN" THEN Append(old, r.vid) ELSE old
    BY CalledNext
  <2>2. /\ u.allocaPool = <<>> /\ st \in Seq(Scopes) /\ Len(st) = Len(old)
        /\ \A k \in 1..Len(st) : st[k].vid = old[k]
    BY DEF PtrTrue
  <2>3. v.allocaPool = u.allocaPool
        /\ v.scopeStack = IF r.action = "BEGIN"
                          THEN Append(st, [vid |-> r.vid, start |-> Len(u.allocaPool),
                                           end |-> Len(u.allocaPool)])
                          ELSE st
    BY DEF PtrStep
  <2>4. Len(u.allocaPool) = 0
    BY <2>2
  <2>5. v.scopeStack = IF r.action = "BEGIN" THEN Append(st, x) ELSE st
    BY <2>3, <2>4
  <2>6. x \in Scopes /\ r.vid \in Vids /\ x.vid = r.vid
    BY DEF Scopes, Vids
  <2> HIDE DEF old, new, st, x
  <2>7. CASE r.action = "BEGIN"
    <3>1. /\ Append(st, x) \in Seq(Scopes) /\ Len(Append(st, x)) = Len(st) + 1 /\ Len(st) \in Nat
          /\ Append(st, x)[Len(st) + 1] = x
          /\ \A k \in 1..Len(st) : Append(st, x)[k] = st[k]
      BY <2>2, <2>6
    <3>2. /\ Len(new) = Len(st) + 1
          /\ new[Len(st) + 1] = r.vid
          /\ \A k \in 1..Len(st) : new[k] = old[k]
      BY <2>1, <2>2, <2>6, <2>7
    <3>3. \A k \in 1..Len(st) + 1 : k \in 1..Len(st) \/ k = Len(st) + 1
      BY <3>1
    <3>4. v.scopeStack = Append(st, x)
      BY <2>5, <2>7
    <3>5. \A k \in 1..Len(st) + 1 : Append(st, x)[k].vid = new[k]
      BY <2>2, <2>6, <3>1, <3>2, <3>3
    <3>6. Len(v.scopeStack) = Len(st) + 1 /\ v.scopeStack \in Seq(Scopes)
      BY <3>1, <3>4
    <3>7. \A k \in 1..Len(v.scopeStack) : v.scopeStack[k].vid = new[k]
      BY <3>4, <3>5, <3>6
    <3> QED
      BY <2>2, <2>3, <3>2, <3>6, <3>7 DEF new
  <2>8. CASE r.action # "BEGIN"
    BY <2>1, <2>2, <2>3, <2>5, <2>8 DEF new
  <2> QED
    BY <2>7, <2>8
<1> HIDE DEF D, E, a, o, Old, New, w, n
<1>9. E = HT!LiveAt(w, n + 2)
  <2>1. \A b : b \in E <=> New(b) # {}
    BY <1>3, <1>6
  <2>2. \A b : b \in E <=> b \in HT!LiveAt(w, n + 2)
    BY <1>3, <2>1
  <2> QED
    BY <2>2, Zenon
<1>10. E \subseteq Int
  BY <1>2, <1>4, <1>6
<1>11. ASSUME NEW B \in SUBSET E, B # {} PROVE \E b \in B : \A c \in B : c <= b
  <2>1. CASE B \subseteq D
    BY <1>2, <1>11, <2>1
  <2>2. CASE ~(B \subseteq D)
    <3>1. a \in B /\ B \ {a} \subseteq D
      BY <1>6, <2>2
    <3>2. CASE B \ {a} = {}
      <4>1. \A c \in B : c = a
        BY <3>2
      <4>2. \A c \in B : c <= a
        BY <1>4, <4>1
      <4> QED
        BY <3>1, <4>2
    <3>3. CASE B \ {a} # {}
      <4>1. PICK b \in B \ {a} : \A c \in B \ {a} : c <= b
        BY <1>2, <3>1, <3>3
      <4>2. b \in Int /\ B \subseteq Int
        BY <1>10
      <4>3. CASE a <= b
        <5>1. \A c \in B : c <= b
          BY <4>1, <4>3
        <5> QED
          BY <4>1, <5>1
      <4>4. CASE ~(a <= b)
        <5>1. \A c \in B \ {a} : c <= a
          BY <1>4, <4>1, <4>2, <4>4
        <5>2. a <= a
          BY <1>4
        <5> QED
          BY <3>1, <5>1, <5>2
      <4> QED
        BY <4>3, <4>4
    <3> QED
      BY <3>2, <3>3
  <2> QED
    BY <2>1, <2>2
<1>12. ASSUME NEW b \in E, NEW j \in New(b)
       PROVE  v.ptrToVid[b] = [vid |-> w[j].vid, size |-> w[j].size]
  <2>1. CASE r.action = "REGION" /\ b = a
    <3>1. j = n + 1
      BY <1>3, <2>1
    <3>2. w[j] = r
      BY <1>1, <3>1
    <3> QED
      BY <1>6, <2>1, <3>2 DEF o
  <2>2. CASE ~(r.action = "REGION" /\ b = a)
    <3>1. b \in D /\ j \in Old(b)
      BY <1>3, <1>6, <2>2
    <3>2. w[j] = s[j]
      BY <1>1, <1>3, <3>1
    <3>3. u.ptrToVid[b] = [vid |-> s[j].vid, size |-> s[j].size]
      BY <1>2, <3>1
    <3>4. v.ptrToVid[b] = u.ptrToVid[b]
      BY <1>6, <2>2
    <3> QED
      BY <3>2, <3>3, <3>4
  <2> QED
    BY <2>1, <2>2
<1>13. /\ DOMAIN v.ptrToVid = HT!LiveAt(w, Len(w) + 1)
       /\ DOMAIN v.ptrToVid \subseteq Int
       /\ \A B \in SUBSET DOMAIN v.ptrToVid : B # {} => \E b \in B : \A c \in B : c <= b
       /\ \A b \in DOMAIN v.ptrToVid : \A j \in HT!RegionAt(w, Len(w) + 1, b) :
            v.ptrToVid[b] = [vid |-> w[j].vid, size |-> w[j].size]
  BY <1>1, <1>9, <1>10, <1>11, <1>12 DEF E, New
<1>14. /\ Len(v.scopeStack) = Len(HT!CalledAt(w, Len(w) + 1))
       /\ \A k \in 1..Len(v.scopeStack) : v.scopeStack[k].vid = HT!CalledAt(w, Len(w) + 1)[k]
  BY <1>1, <1>8
<1>15. PtrTrue(v, w)
  BY <1>7, <1>8, <1>13, <1>14 DEF PtrTrue
<1> QED
  BY <1>15 DEF w

-----------------------------------------------------------------------------
(* The window recorders. *)

\* A window recorder that has seen q has, after one more item, seen that too.
LEMMA RecorderNext ==
  ASSUME NEW w \in Nat \ {0}, NEW Things, NEW blank \in Things, NEW q \in Seq(Things),
         NEW rcd, WT!Recorded(w, Things, blank, rcd, q), NEW x \in Things
  PROVE  WT!Recorded(w, Things, blank, Cover(w, rcd, x), Append(q, x))
<1>1. WT!Cover(w, rcd, x) = Cover(w, rcd, x)
  BY DEF WT!Cover, Cover, WT!Slide, Slide, WT!WindowAt, WindowAt
<1>2. WT!Recorded(w, Things, blank, WT!Cover(w, rcd, x), Append(q, x))
  BY WT!OneMoreRecorded, HookTablesAssumption, PtaHookAssumption
<1> QED
  BY <1>1, <1>2

\* A new recorder has seen nothing.
LEMMA RecorderStarts ==
  ASSUME NEW w \in Nat \ {0}, NEW Things, NEW blank \in Things
  PROVE  WT!Recorded(w, Things, blank, EmptyCoverage(w, blank), <<>>)
<1>1. WT!EmptyCoverage(w, blank) = EmptyCoverage(w, blank)
  BY DEF WT!EmptyCoverage, EmptyCoverage
<1>2. WT!Recorded(w, Things, blank, WT!EmptyCoverage(w, blank), <<>>)
  BY WT!NothingRecorded, HookTablesAssumption, PtaHookAssumption
<1> QED
  BY <1>1, <1>2

\* The windows of a recorder that has seen q are those that end at an item of q.
LEMMA RecorderWindows ==
  ASSUME NEW w \in Nat \ {0}, NEW Things, NEW blank \in Things, NEW q \in Seq(Things),
         NEW rcd, WT!Recorded(w, Things, blank, rcd, q)
  PROVE  /\ Windows(w, rcd) = HT!WindowsOf(w, blank, q)
         /\ Windows(w, rcd) \subseteq Seq(Things)
<1> DEFINE P == [k \in 1..w |-> blank] \o q
<1>1. WT!Windows(w, rcd) = {WT!WindowAt(w, WT!PaddedTo(w, blank, q), n) : n \in 1..Len(q)}
  BY DEF WT!Recorded
<1>2. Windows(w, rcd) = {SubSeq(P, n + 1, n + w) : n \in 1..Len(q)}
  BY <1>1 DEF WT!Windows, Windows, WT!WindowAt, WindowAt, WT!PaddedTo
<1>3. HT!WindowsOf(w, blank, q) = {SubSeq(P, n + 1, n + w) : n \in 1..Len(q)}
  BY DEF HT!WindowsOf
<1>4. P \in Seq(Things)
  OBVIOUS
<1> HIDE DEF P
<1>5. \A n \in 1..Len(q) : SubSeq(P, n + 1, n + w) \in Seq(Things)
  <2> SUFFICES ASSUME NEW n \in 1..Len(q) PROVE SubSeq(P, n + 1, n + w) \in Seq(Things)
    OBVIOUS
  <2>1. Len(P) = w + Len(q)
    BY DEF P
  <2>2. n + 1 \in Nat /\ n + w \in Nat /\ n + w <= Len(P) /\ n + 1 >= 1
    BY <2>1
  <2> QED
    BY <1>4, <2>2
<1> QED
  BY <1>2, <1>3, <1>5

-----------------------------------------------------------------------------
(* All tables. *)

\* A record keeps the tables true.
LEMMA TablesNext ==
  ASSUME NEW s \in Seq(Records), NEW r \in Records, PlainRecord(r),
         NEW u, TablesTrue(u, s)
  PROVE  TablesTrue(Apply(u, r), Append(s, r))
<1> DEFINE v == Apply(u, r)
           w == Append(s, r)
<1>1. /\ IsTables(v)
      /\ "ptr" \in Mode => PtrStep(u, v, r)
      /\ "bb" \in Mode => BbStep(u, v, r)
      /\ "cg" \in Mode => CgStep(u, v, r)
  BY ApplyIs DEF TablesTrue
<1> HIDE DEF v
<1>2. ASSUME "ptr" \in Mode PROVE PtrTrue(v, w)
  BY <1>1, <1>2, PtrNext DEF TablesTrue
<1>3. ASSUME "bb" \in Mode PROVE BbTrue(v, w)
  <2> DEFINE q == HT!BlocksOf(s)
  <2>1. /\ q \in Seq(Blocks)
        /\ HT!BlocksOf(w) = IF r.action = "BLOCK" THEN Append(q, r.size) ELSE q
    BY BlocksNext
  <2>2. /\ WT!Recorded(BBCtxPlusOne, Blocks, NoVId, u.bb, q)
        /\ v.bb = IF r.action = "BLOCK" THEN Cover(BBCtxPlusOne, u.bb, r.size) ELSE u.bb
    BY <1>1, <1>3 DEF TablesTrue, BbTrue, BbStep
  <2>3. NoVId \in Blocks /\ r.size \in Blocks /\ BBCtxPlusOne \in Nat \ {0}
    BY HookTablesAssumption DEF Blocks
  <2> HIDE DEF q
  <2>4. WT!Recorded(BBCtxPlusOne, Blocks, NoVId, Cover(BBCtxPlusOne, u.bb, r.size), Append(q, r.size))
    BY <2>1, <2>2, <2>3, RecorderNext
  <2>5. WT!Recorded(BBCtxPlusOne, Blocks, NoVId, v.bb, HT!BlocksOf(w))
    BY <2>1, <2>2, <2>4
  <2> QED
    BY <2>5 DEF BbTrue
<1>4. ASSUME "cg" \in Mode PROVE CgTrue(v, w)
  <2> DEFINE q    == HT!EntersOf(s)
             args == HT!ArgsAt(s, Len(s) + 1)
             call == [vid |-> r.vid, args |-> args]
  <2>1. /\ q \in Seq(Calls)
        /\ HT!EntersOf(w) = IF r.action = "BEGIN" THEN Append(q, call) ELSE q
    BY EntersNext
  <2>2. /\ WT!Recorded(CGCtxPlusOne, Calls, NoRecord, u.cg, q)
        /\ u.pendingArgs = args
        /\ v.cg = IF r.action = "BEGIN" THEN Cover(CGCtxPlusOne, u.cg, call) ELSE u.cg
        /\ v.pendingArgs = IF r.action \in Clears THEN <<>>
                           ELSE IF r.action = "ARG" THEN Append(args, HT!ArgOf(r)) ELSE args
    BY <1>1, <1>4 DEF TablesTrue, CgTrue, CgStep
  <2>3. /\ args \in Seq(Numbers)
        /\ HT!ArgsAt(w, Len(s) + 2) = IF r.action \in Clears THEN <<>>
                                      ELSE IF r.action = "ARG" THEN Append(args, HT!ArgOf(r)) ELSE args
    BY ArgsNext
  <2>4. call \in Calls /\ NoRecord \in Calls /\ CGCtxPlusOne \in Nat \ {0}
    BY <2>3, HookTablesAssumption DEF Calls
  <2> HIDE DEF q, args, call
  <2>5. WT!Recorded(CGCtxPlusOne, Calls, NoRecord, Cover(CGCtxPlusOne, u.cg, call), Append(q, call))
    BY <2>1, <2>2, <2>4, RecorderNext
  <2>6. WT!Recorded(CGCtxPlusOne, Calls, NoRecord, v.cg, HT!EntersOf(w))
    BY <2>1, <2>2, <2>5
  <2>7. Len(w) + 1 = Len(s) + 2
    BY OneMore
  <2>8. v.pendingArgs = HT!ArgsAt(w, Len(w) + 1)
    <3> HIDE DEF w
    <3> QED
      BY <2>2, <2>3, <2>7
  <2> QED
    BY <2>6, <2>8 DEF CgTrue
<1>5. TablesTrue(v, w)
  BY <1>1, <1>2, <1>3, <1>4 DEF TablesTrue
<1> QED
  BY <1>5 DEF v

\* Nothing is picked when nothing has been pushed.
LEMMA NothingYet ==
  /\ HT!BlocksOf(<<>>) = <<>> /\ HT!EntersOf(<<>>) = <<>>
  /\ \A h : HT!ArgsAt(<<>>, h) = <<>> /\ HT!CalledAt(<<>>, h) = <<>>
  /\ HT!LiveAt(<<>>, 1) = {} /\ HT!EdgesOf(<<>>) = {}
<1>1. PICK none : none = <<>>
  OBVIOUS
<1>2. none \in Seq({}) /\ Len(none) = 0 /\ 0 + 1 = 1 /\ 1 - 1 = 0 /\ 1..0 = {}
  BY <1>1
<1>3. \A I : HT!Picked(none, I) = none
  <2> TAKE I
  <2>1. \A k \in 1..Len(none) : k \notin I
    BY <1>2
  <2> QED
    BY <1>1, <1>2, <2>1, PickedNone
<1>4. \A f : DOMAIN f = {} => f = none
  BY <1>1
<1>5. HT!BlocksOf(none) = none
  <2>1. [j \in 1..Len(none) |-> none[j].size] = none
    BY <1>1, <1>2
  <2> QED
    BY <1>3, <2>1 DEF HT!BlocksOf
<1>6. HT!EntersOf(none) = none
  <2>1. [j \in 1..Len(none) |-> [vid |-> none[j].vid, args |-> HT!ArgsAt(none, j)]] = none
    BY <1>1, <1>2
  <2> QED
    BY <1>3, <2>1 DEF HT!EntersOf
<1>7. \A h : HT!ArgsAt(none, h) = none
  <2>1. [j \in 1..Len(none) |-> HT!ArgOf(none[j])] = none
    BY <1>1, <1>2
  <2> QED
    BY <1>3, <2>1 DEF HT!ArgsAt
<1>8. \A h : HT!CalledAt(none, h) = none
  <2>1. [j \in 1..Len(none) |-> none[j].vid] = none
    BY <1>1, <1>2
  <2> QED
    BY <1>3, <2>1 DEF HT!CalledAt
<1>9. \A a : HT!Before(none, 1, a) = {}
  BY <1>2 DEF HT!Before
<1>10. HT!LiveAt(none, 1) = {}
  BY <1>9 DEF HT!LiveAt
<1>11. HT!EdgesOf(none) = {}
  BY <1>2, <1>9 DEF HT!EdgesOf
<1> QED
  BY <1>1, <1>5, <1>6, <1>7, <1>8, <1>10, <1>11

\* The tables of the PtaHook object say what nothing means.
LEMMA StartTrue == TablesTrue(Tables, <<>>)
<1>1. PICK none : none = <<>>
  OBVIOUS
<1>2. IsTables(Tables)
  BY DEF IsTables, Tables
<1>3. /\ HT!BlocksOf(none) = none /\ HT!EntersOf(none) = none
      /\ \A h : HT!ArgsAt(none, h) = none /\ HT!CalledAt(none, h) = none
      /\ HT!LiveAt(none, 1) = {} /\ HT!EdgesOf(none) = {}
      /\ Len(none) + 1 = 1
  BY <1>1, NothingYet
<1>4. BbTrue(Tables, none)
  <2>1. Tables.bb = EmptyCoverage(BBCtxPlusOne, NoVId)
    BY DEF Tables
  <2>2. NoVId \in Blocks /\ BBCtxPlusOne \in Nat \ {0}
    BY HookTablesAssumption DEF Blocks
  <2>3. WT!Recorded(BBCtxPlusOne, Blocks, NoVId, EmptyCoverage(BBCtxPlusOne, NoVId), none)
    BY <1>1, <2>2, RecorderStarts
  <2> QED
    BY <1>3, <2>1, <2>3 DEF BbTrue
<1>5. CgTrue(Tables, none)
  <2>1. Tables.cg = EmptyCoverage(CGCtxPlusOne, NoRecord) /\ Tables.pendingArgs = none
    BY <1>1 DEF Tables
  <2>2. NoRecord \in Calls /\ CGCtxPlusOne \in Nat \ {0}
    BY HookTablesAssumption DEF Calls
  <2>3. WT!Recorded(CGCtxPlusOne, Calls, NoRecord, EmptyCoverage(CGCtxPlusOne, NoRecord), none)
    BY <1>1, <2>2, RecorderStarts
  <2> QED
    BY <1>3, <2>1, <2>3 DEF CgTrue
<1>6. PtrTrue(Tables, none)
  <2>1. /\ Tables.ptrToVid = none /\ Tables.allocaPool = none /\ Tables.scopeStack = none
        /\ Tables.pts = {}
    BY <1>1 DEF Tables
  <2>2. DOMAIN none = {} /\ Len(none) = 0 /\ none \in Seq(Scopes) /\ 1..0 = {}
    BY <1>1
  <2>3. none = <<>>
    BY <1>1
  <2> HIDE DEF Tables
  <2> QED
    BY <1>3, <2>1, <2>2, <2>3 DEF PtrTrue
<1>7. TablesTrue(Tables, none)
  BY <1>2, <1>4, <1>5, <1>6 DEF TablesTrue
<1> QED
  BY <1>1, <1>7

-----------------------------------------------------------------------------
(* What dump() prints. *)

\* A call with numbers for arguments is printed as it is.
LEMMA PrintedIs == \A c \in Calls : PrintedCall(c) = c
<1>1. ASSUME NEW a \in Numbers PROVE PrintedArg(a) = a
  <2>1. a = [kind |-> a.kind, vals |-> a.vals] /\ a.vals = <<>>
    BY DEF Numbers
  <2>2. PICK e : e = <<>>
    OBVIOUS
  <2>3. [k \in 1..Len(e) |-> e[k].vid] = e
    <3>1. Len(e) = 0 /\ 1..0 = {} /\ DOMAIN e = {}
      BY <2>2
    <3>2. [k \in 1..0 |-> e[k].vid] = e
      BY <2>2
    <3> QED
      BY <3>1, <3>2
  <2>4. a.vals = e
    BY <2>1, <2>2
  <2>5. PrintedArg(a) = [a EXCEPT !.vals = [k \in 1..Len(a.vals) |-> a.vals[k].vid]]
    BY DEF PrintedArg
  <2>6. PrintedArg(a) = [a EXCEPT !.vals = e]
    BY <2>3, <2>4, <2>5
  <2> QED
    BY <2>1, <2>4, <2>6
<1> SUFFICES ASSUME NEW c \in Calls PROVE PrintedCall(c) = c
  OBVIOUS
<1>2. c = [vid |-> c.vid, args |-> c.args] /\ c.args \in Seq(Numbers)
  <2>1. NoRecord.args \in Seq(Numbers)
    BY DEF NoRecord
  <2>2. NoRecord = [vid |-> NoRecord.vid, args |-> NoRecord.args]
    BY DEF NoRecord
  <2>3. c \in [vid : {r.vid : r \in Records}, args : Seq(Numbers)] \/ c = NoRecord
    BY DEF Calls
  <2> QED
    BY <2>1, <2>2, <2>3
<1>3. [k \in 1..Len(c.args) |-> PrintedArg(c.args[k])] = c.args
  <2>1. \A k \in 1..Len(c.args) : PrintedArg(c.args[k]) = c.args[k]
    BY <1>1, <1>2
  <2>2. c.args = [k \in 1..Len(c.args) |-> c.args[k]]
    BY <1>2
  <2> QED
    BY <2>1, <2>2
<1>4. PrintedCall(c) = [c EXCEPT !.args = [k \in 1..Len(c.args) |-> PrintedArg(c.args[k])]]
  BY DEF PrintedCall
<1> QED
  BY <1>2, <1>3, <1>4

\* True tables are printed as the rows that the records amount to.
LEMMA DumpTrue ==
  ASSUME NEW s \in Seq(Records), NEW u, TablesTrue(u, s), NEW m \in Mode
  PROVE  DumpOf(u)[m] = HT!RowsOf(m, s)
<1>1. m \in {"ptr", "bb", "cg"}
  BY HookTablesAssumption
<1>2. CASE m = "ptr"
  <2>1. DumpOf(u)[m] = u.pts
    BY <1>2 DEF DumpOf
  <2>2. HT!RowsOf(m, s) = HT!EdgesOf(s)
    BY <1>2 DEF HT!RowsOf
  <2> QED
    BY <1>2, <2>1, <2>2 DEF TablesTrue, PtrTrue
<1>3. CASE m = "bb"
  <2>1. DumpOf(u)[m] = Windows(BBCtxPlusOne, u.bb)
    BY <1>3 DEF DumpOf
  <2>2. HT!RowsOf(m, s) = HT!WindowsOf(BBCtxPlusOne, NoVId, HT!BlocksOf(s))
    BY <1>3 DEF HT!RowsOf, NoVId
  <2>3. WT!Recorded(BBCtxPlusOne, Blocks, NoVId, u.bb, HT!BlocksOf(s))
    BY <1>3 DEF TablesTrue, BbTrue
  <2>4. NoVId \in Blocks /\ BBCtxPlusOne \in Nat \ {0} /\ HT!BlocksOf(s) \in Seq(Blocks)
    <3>1. CASE Records = {}
      <4>1. s = <<>>
        BY <3>1
      <4>2. HT!BlocksOf(s) = <<>>
        BY <4>1, NothingYet
      <4> QED
        BY <4>2, HookTablesAssumption DEF Blocks
    <3>2. CASE Records # {}
      <4>1. PICK r : r \in Records
        BY <3>2
      <4> QED
        BY <4>1, BlocksNext, HookTablesAssumption DEF Blocks
    <3> QED
      BY <3>1, <3>2
  <2> QED
    BY <2>1, <2>2, <2>3, <2>4, RecorderWindows
<1>4. CASE m = "cg"
  <2>1. DumpOf(u)[m] = {[k \in 1..Len(win) |-> PrintedCall(win[k])] : win \in Windows(CGCtxPlusOne, u.cg)}
    BY <1>4 DEF DumpOf
  <2>2. HT!RowsOf(m, s) = HT!WindowsOf(CGCtxPlusOne, NoRecord, HT!EntersOf(s))
    BY <1>4 DEF HT!RowsOf, NoRecord, NoVId
  <2>3. WT!Recorded(CGCtxPlusOne, Calls, NoRecord, u.cg, HT!EntersOf(s))
    BY <1>4 DEF TablesTrue, CgTrue
  <2>4. NoRecord \in Calls /\ CGCtxPlusOne \in Nat \ {0} /\ HT!EntersOf(s) \in Seq(Calls)
    <3>1. CASE Records = {}
      <4>1. s = <<>>
        BY <3>1
      <4>2. HT!EntersOf(s) = <<>>
        BY <4>1, NothingYet
      <4> QED
        BY <4>2, HookTablesAssumption DEF Calls
    <3>2. CASE Records # {}
      <4>1. PICK r : r \in Records
        BY <3>2
      <4> QED
        BY <4>1, EntersNext, HookTablesAssumption DEF Calls
    <3> QED
      BY <3>1, <3>2
  <2> DEFINE ws == Windows(CGCtxPlusOne, u.cg)
  <2>5. ws = HT!WindowsOf(CGCtxPlusOne, NoRecord, HT!EntersOf(s)) /\ ws \subseteq Seq(Calls)
    BY <2>3, <2>4, RecorderWindows
  <2> HIDE DEF ws
  <2>6. \A win \in ws : [k \in 1..Len(win) |-> PrintedCall(win[k])] = win
    <3> SUFFICES ASSUME NEW win \in ws PROVE [k \in 1..Len(win) |-> PrintedCall(win[k])] = win
      OBVIOUS
    <3>1. win \in Seq(Calls)
      BY <2>5
    <3>2. \A k \in 1..Len(win) : PrintedCall(win[k]) = win[k]
      BY <3>1, PrintedIs
    <3>3. win = [k \in 1..Len(win) |-> win[k]]
      BY <3>1
    <3> QED
      BY <3>2, <3>3
  <2>7. {[k \in 1..Len(win) |-> PrintedCall(win[k])] : win \in ws} = {win : win \in ws}
    BY <2>6
  <2>8. {win : win \in ws} = ws
    OBVIOUS
  <2> QED
    BY <2>1, <2>2, <2>5, <2>7, <2>8 DEF ws
<1> QED
  BY <1>1, <1>2, <1>3, <1>4

\* A window of a sequence that goes on is what it was.
LEMMA OldWindows ==
  ASSUME NEW w \in Nat \ {0}, NEW Things, NEW P \in Seq(Things), NEW x \in Things,
         NEW L \in Nat, Len(P) = w + L, NEW n \in 1..L
  PROVE  SubSeq(Append(P, x), n + 1, n + w) = SubSeq(P, n + 1, n + w)
<1>1. Append(P, x) \in Seq(Things) /\ Len(Append(P, x)) = w + L + 1 /\ n + w <= w + L
  OBVIOUS
<1>2. /\ SubSeq(P, n + 1, n + w) \in Seq(Things) /\ Len(SubSeq(P, n + 1, n + w)) = w
      /\ \A k \in 1..w : SubSeq(P, n + 1, n + w)[k] = P[n + k]
  BY <1>1, WT!PieceIs, HookTablesAssumption, PtaHookAssumption
<1>3. /\ SubSeq(Append(P, x), n + 1, n + w) \in Seq(Things) /\ Len(SubSeq(Append(P, x), n + 1, n + w)) = w
      /\ \A k \in 1..w : SubSeq(Append(P, x), n + 1, n + w)[k] = Append(P, x)[n + k]
  BY <1>1, WT!PieceIs, HookTablesAssumption, PtaHookAssumption
<1>4. \A k \in 1..w : Append(P, x)[n + k] = P[n + k]
  BY <1>1
<1>5. \A k \in 1..w : SubSeq(Append(P, x), n + 1, n + w)[k] = SubSeq(P, n + 1, n + w)[k]
  BY <1>2, <1>3, <1>4
<1> QED
  BY <1>2, <1>3, <1>5, WT!SameItems, HookTablesAssumption, PtaHookAssumption

\* The windows of a sequence that goes on are still windows of it.
LEMMA WindowsGrow ==
  ASSUME NEW w \in Nat \ {0}, NEW Things, NEW blank \in Things, NEW q \in Seq(Things), NEW x \in Things
  PROVE  HT!WindowsOf(w, blank, q) \subseteq HT!WindowsOf(w, blank, Append(q, x))
<1> DEFINE pad == [k \in 1..w |-> blank]
           P == pad \o q
           Q == pad \o Append(q, x)
           L == Len(q)
<1>1. pad \in Seq(Things) /\ Len(pad) = w
  OBVIOUS
<1>2. HT!WindowsOf(w, blank, q) = {SubSeq(P, n + 1, n + w) : n \in 1..L}
  BY DEF HT!WindowsOf
<1>3. Len(Append(q, x)) = L + 1 /\ L \in Nat
  OBVIOUS
<1>4. HT!WindowsOf(w, blank, Append(q, x)) = {SubSeq(Q, n + 1, n + w) : n \in 1..L + 1}
  BY <1>3 DEF HT!WindowsOf
<1> HIDE DEF pad
<1>5. P \in Seq(Things) /\ Len(P) = w + L /\ Q = Append(P, x)
  BY <1>1
<1> HIDE DEF P, Q, L
<1>7. \A n \in 1..L : SubSeq(Append(P, x), n + 1, n + w) = SubSeq(P, n + 1, n + w)
  BY <1>3, <1>5, OldWindows
<1>8. \A n \in 1..L : n \in 1..L + 1 /\ SubSeq(P, n + 1, n + w) = SubSeq(Q, n + 1, n + w)
  BY <1>3, <1>5, <1>7
<1> QED
  BY <1>2, <1>4, <1>8

\* Nothing that a sequence of records means is undone by one record more.
LEMMA RowsGrow ==
  ASSUME NEW s \in Seq(Records), NEW r \in Records, NEW m \in Mode
  PROVE  HT!RowsOf(m, s) \subseteq HT!RowsOf(m, Append(s, r))
<1>1. m \in {"ptr", "bb", "cg"}
  BY HookTablesAssumption
<1>2. CASE m = "ptr"
  BY <1>2, EdgesNext DEF HT!RowsOf
<1>3. CASE m = "bb"
  <2> DEFINE q == HT!BlocksOf(s)
  <2>1. /\ q \in Seq(Blocks)
        /\ HT!BlocksOf(Append(s, r)) = IF r.action = "BLOCK" THEN Append(q, r.size) ELSE q
    BY BlocksNext
  <2>2. NoVId \in Blocks /\ r.size \in Blocks /\ BBCtxPlusOne \in Nat \ {0}
    BY HookTablesAssumption DEF Blocks
  <2>3. \A p : HT!RowsOf(m, p) = HT!WindowsOf(BBCtxPlusOne, NoVId, HT!BlocksOf(p))
    BY <1>3 DEF HT!RowsOf, NoVId
  <2> HIDE DEF q
  <2>4. HT!WindowsOf(BBCtxPlusOne, NoVId, q) \subseteq HT!WindowsOf(BBCtxPlusOne, NoVId, Append(q, r.size))
    BY <2>1, <2>2, WindowsGrow
  <2>5. HT!RowsOf(m, s) = HT!WindowsOf(BBCtxPlusOne, NoVId, q)
    BY <2>3 DEF q
  <2> QED
    BY <2>1, <2>3, <2>4, <2>5
<1>4. CASE m = "cg"
  <2> DEFINE q == HT!EntersOf(s)
             call == [vid |-> r.vid, args |-> HT!ArgsAt(s, Len(s) + 1)]
  <2>1. /\ q \in Seq(Calls)
        /\ HT!EntersOf(Append(s, r)) = IF r.action = "BEGIN" THEN Append(q, call) ELSE q
    BY EntersNext
  <2>2. NoRecord \in Calls /\ CGCtxPlusOne \in Nat \ {0} /\ call \in Calls
    BY ArgsNext, HookTablesAssumption DEF Calls
  <2>3. \A p : HT!RowsOf(m, p) = HT!WindowsOf(CGCtxPlusOne, NoRecord, HT!EntersOf(p))
    BY <1>4 DEF HT!RowsOf, NoRecord, NoVId
  <2> HIDE DEF q, call
  <2>4. HT!WindowsOf(CGCtxPlusOne, NoRecord, q) \subseteq HT!WindowsOf(CGCtxPlusOne, NoRecord, Append(q, call))
    BY <2>1, <2>2, WindowsGrow
  <2>5. HT!RowsOf(m, s) = HT!WindowsOf(CGCtxPlusOne, NoRecord, q)
    BY <2>3 DEF q
  <2> QED
    BY <2>1, <2>3, <2>4, <2>5
<1> QED
  BY <1>1, <1>2, <1>3, <1>4

-----------------------------------------------------------------------------
(* The records on their way to the tables. *)

\* What is appended to the second of two sequences is appended to both.
LEMMA AppendToBoth ==
  \A p \in Seq(Records), q \in Seq(Records), x \in Records : Append(p \o q, x) = p \o Append(q, x)
<1> SUFFICES ASSUME NEW p \in Seq(Records), NEW q \in Seq(Records), NEW x \in Records
             PROVE  Append(p \o q, x) = p \o Append(q, x)
  OBVIOUS
<1> DEFINE n == Len(p) + Len(q) + 1
<1>1. /\ Append(p \o q, x) \in Seq(Records) /\ Len(Append(p \o q, x)) = n
      /\ p \o Append(q, x) \in Seq(Records) /\ Len(p \o Append(q, x)) = n
      /\ n \in Nat
  OBVIOUS
<1>2. \A k \in 1..n : Append(p \o q, x)[k] = (p \o Append(q, x))[k]
  <2> SUFFICES ASSUME NEW k \in 1..n PROVE Append(p \o q, x)[k] = (p \o Append(q, x))[k]
    OBVIOUS
  <2>1. CASE k \in 1..Len(p)
    BY <2>1
  <2>2. CASE k \in Len(p) + 1 .. Len(p) + Len(q)
    BY <2>2
  <2>3. CASE k = n
    BY <2>3
  <2> QED
    BY <2>1, <2>2, <2>3
<1> DEFINE a == Append(p \o q, x)
           b == p \o Append(q, x)
<1>3. /\ a \in Seq(Records) /\ Len(a) = n /\ b \in Seq(Records) /\ Len(b) = n
      /\ n \in Nat /\ \A k \in 1..n : a[k] = b[k]
  BY <1>1, <1>2
<1> HIDE DEF n, a, b
<1>4. a = b
  BY <1>3, WT!SameItems, HookTablesAssumption, PtaHookAssumption
<1> QED
  BY <1>4 DEF a, b

\* What one step does to the records that are still in the buffer: nothing, or
\* the last is pushed, or the first goes into the tables.
LEMMA UnconsumedStep ==
  ASSUME BufferInv, [Next]_phVars, ~interrupted'
  PROVE  /\ Unconsumed \in Seq(Records) /\ Unconsumed' \in Seq(Records)
         /\ \/ UNCHANGED <<t, pushed, Unconsumed>>
            \/ \E r \in Records : t' = t /\ pushed' = Append(pushed, r) /\ Unconsumed' = Append(Unconsumed, r)
            \/ \E r \in Records : t' = Apply(t, r) /\ pushed' = pushed /\ Unconsumed = <<r>> \o Unconsumed'
<1> DEFINE Goal == /\ Unconsumed \in Seq(Records) /\ Unconsumed' \in Seq(Records)
         /\ \/ UNCHANGED <<t, pushed, Unconsumed>>
            \/ \E r \in Records : t' = t /\ pushed' = Append(pushed, r) /\ Unconsumed' = Append(Unconsumed, r)
            \/ \E r \in Records : t' = Apply(t, r) /\ pushed' = pushed /\ Unconsumed = <<r>> \o Unconsumed'
<1>0. /\ buf \in Seq(Records) /\ i \in Nat
      /\ pc = "consume" => i <= Len(buf)
      /\ \A q \in Seq(Records) : SubSeq(q, 1, Len(q)) = q
      /\ Unconsumed \in Seq(Records)
  <2>1. buf \in Seq(Records) /\ i \in Nat /\ (pc = "consume" => i <= Len(buf))
    BY DEF BufferInv, BufferNeverOverrun
  <2>2. \A q \in Seq(Records) : SubSeq(q, 1, Len(q)) = q
    OBVIOUS
  <2> QED
    BY <2>1, <2>2 DEF Unconsumed
<1>1. ASSUME NEW r \in Records, Push(r) PROVE Goal
  <2>1. pc = "idle" /\ buf' = Append(buf, r) /\ pushed' = Append(pushed, r) /\ t' = t
    BY <1>1 DEF Push
  <2>2. pc' = "consume" => i' = 0
    BY <1>1 DEF Push, StartCall, callVars
  <2>3. Append(buf, r) \in Seq(Records)
    BY <1>0
  <2>4. Unconsumed = buf /\ Unconsumed' = Append(buf, r)
    BY <1>0, <2>1, <2>2, <2>3 DEF Unconsumed
  <2> QED
    BY <1>0, <2>1, <2>3, <2>4
<1>2. CASE Consume
  <2>1. /\ pc = "consume" /\ pc' = "consume" /\ i < Len(buf) /\ i' = i + 1
        /\ t' = Apply(t, buf[i + 1]) /\ pushed' = pushed /\ buf' = buf
    BY <1>2 DEF Consume
  <2>2. buf[i + 1] \in Records
    BY <1>0, <2>1
  <2>3. Unconsumed = SubSeq(buf, i + 1, Len(buf)) /\ Unconsumed' = SubSeq(buf, i + 2, Len(buf))
    BY <1>0, <2>1 DEF Unconsumed
  <2>4. /\ SubSeq(buf, i + 2, Len(buf)) \in Seq(Records)
        /\ SubSeq(buf, i + 1, Len(buf)) = <<buf[i + 1]>> \o SubSeq(buf, i + 2, Len(buf))
    BY <1>0, <2>1
  <2> QED
    BY <1>0, <2>1, <2>2, <2>3, <2>4
<1>3. CASE ConsumeEnd
  <2>1. pc = "consume" /\ i = Len(buf) /\ buf' = <<>> /\ pc' # "consume" /\ t' = t /\ pushed' = pushed
    BY <1>3 DEF ConsumeEnd
  <2>2. SubSeq(buf, Len(buf) + 1, Len(buf)) = <<>> /\ <<>> \in Seq(Records)
    BY <1>0
  <2>3. Unconsumed = <<>> /\ Unconsumed' = <<>>
    BY <2>1, <2>2 DEF Unconsumed
  <2> QED
    BY <2>1, <2>2, <2>3
<1>4. CASE /\ UNCHANGED <<t, pushed, buf>>
           /\ \/ pc # "consume" /\ pc' # "consume"
              \/ pc = "idle" /\ pc' = "consume" /\ i' = 0
              \/ pc' = pc /\ i' = i
  <2>1. CASE pc # "consume" /\ pc' # "consume"
    <3>1. Unconsumed' = Unconsumed
      BY <1>4, <2>1 DEF Unconsumed
    <3> QED
      BY <1>0, <1>4, <3>1
  <2>2. CASE pc = "idle" /\ pc' = "consume" /\ i' = 0
    <3>1. Unconsumed = buf /\ Unconsumed' = SubSeq(buf, 0 + 1, Len(buf)) /\ 0 + 1 = 1
      BY <1>4, <2>2 DEF Unconsumed
    <3> QED
      BY <1>0, <1>4, <3>1
  <2>3. CASE pc' = pc /\ i' = i
    <3>1. Unconsumed' = Unconsumed
      BY <1>4, <2>3 DEF Unconsumed
    <3> QED
      BY <1>0, <1>4, <3>1
  <2> QED
    BY <1>4, <2>1, <2>2, <2>3
<1>5. CASE CrashSignal
  <2>1. pc = "idle"
    BY <1>5, Zenon DEF CrashSignal
  <2>2. pc' = "consume" /\ i' = 0 /\ UNCHANGED <<t, pushed, buf>>
    BY <1>5 DEF CrashSignal, StartCall, dataVars
  <2> QED
    BY <1>4, <2>1, <2>2
<1>6. CASE ReturnFromMain \/ ExitHandler
  BY <1>4, <1>6 DEF ReturnFromMain, ExitHandler, StartCall, dataVars
<1>7. CASE DumpStart \/ DumpSkip \/ DumpOpen \/ DumpOpenFails \/ DumpWrite
  BY <1>4, <1>7 DEF DumpStart, DumpSkip, DumpOpen, DumpOpenFails, DumpWrite, NextFile, Returned, dataVars
<1>8. CASE \/ Die \/ StartMain \/ CallExit \/ Terminate \/ SecondSignal \/ EarlySignal \/ Kill
           \/ UNCHANGED phVars
  BY <1>4, <1>8 DEF Die, StartMain, CallExit, Terminate, SecondSignal, EarlySignal, Kill,
                    phVars, callVars, dataVars
<1> QED
  BY <1>1, <1>2, <1>3, <1>5, <1>6, <1>7, <1>8 DEF Next, HookStep, ProgramStep

\* The invariant holds at the start: nothing has been pushed.
LEMMA InitTablesInv == Init => TablesInv
<1> SUFFICES ASSUME Init PROVE \E s \in Seq(Records) : TablesTrue(t, s) /\ pushed = s \o Unconsumed
  BY DEF TablesInv
<1>1. PICK e : e = <<>>
  OBVIOUS
<1>2. e \in Seq(Records) /\ e = e \o e
  BY <1>1
<1>3. t = Tables /\ pushed = e /\ Unconsumed = e
  BY <1>1 DEF Init, Unconsumed
<1>4. TablesTrue(t, e)
  BY <1>1, <1>3, StartTrue
<1> QED
  BY <1>2, <1>3, <1>4

\* No step breaks the invariant.
LEMMA TablesInvStep ==
  ASSUME PlainRecords, BufferInv, TablesInv, [Next]_phVars
  PROVE  TablesInv'
<1> SUFFICES ASSUME ~interrupted'
             PROVE  \E s \in Seq(Records) : TablesTrue(t', s) /\ pushed' = s \o Unconsumed'
  BY DEF TablesInv, TablesTrue, PtrTrue, BbTrue, CgTrue, IsTables
<1>1. PICK s \in Seq(Records) : TablesTrue(t, s) /\ pushed = s \o Unconsumed
  BY InterruptedStays DEF TablesInv
<1> DEFINE rest == Unconsumed
           next == Unconsumed'
<1>2. /\ rest \in Seq(Records) /\ next \in Seq(Records)
      /\ \/ t' = t /\ pushed' = pushed /\ next = rest
         \/ \E r \in Records : t' = t /\ pushed' = Append(pushed, r) /\ next = Append(rest, r)
         \/ \E r \in Records : t' = Apply(t, r) /\ pushed' = pushed /\ rest = <<r>> \o next
  BY UnconsumedStep
<1>3. pushed = s \o rest /\ s \in Seq(Records)
  BY <1>1
<1> HIDE DEF rest, next
<1>4. CASE t' = t /\ pushed' = pushed /\ next = rest
  BY <1>1, <1>3, <1>4 DEF next
<1>5. ASSUME NEW r \in Records, t' = t, pushed' = Append(pushed, r), next = Append(rest, r)
      PROVE  \E p \in Seq(Records) : TablesTrue(t', p) /\ pushed' = p \o next
  <2>1. Append(s \o rest, r) = s \o Append(rest, r)
    <3>1. r \in Records /\ s \in Seq(Records) /\ rest \in Seq(Records)
      BY <1>2, <1>3, <1>5
    <3> QED
      BY <3>1, AppendToBoth, Zenon
  <2> QED
    BY <1>1, <1>3, <1>5, <2>1
<1>6. ASSUME NEW r \in Records, t' = Apply(t, r), pushed' = pushed, rest = <<r>> \o next
      PROVE  \E p \in Seq(Records) : TablesTrue(t', p) /\ pushed' = p \o next
  <2>1. Append(s, r) \in Seq(Records) /\ s \o (<<r>> \o next) = Append(s, r) \o next
    BY <1>2
  <2>2. PlainRecord(r)
    BY DEF PlainRecords
  <2>3. TablesTrue(Apply(t, r), Append(s, r))
    BY <1>1, <2>2, TablesNext
  <2> QED
    BY <1>3, <1>6, <2>1, <2>3
<1> QED
  BY <1>2, <1>4, <1>5, <1>6 DEF next

\* With an empty buffer the tables are printed as what the whole run amounts to.
LEMMA DumpOfAll ==
  ASSUME BufferInv, TablesInv, ~interrupted, pc = "write", NEW m \in Mode
  PROVE  DumpOf(t)[m] = HT!RowsOf(m, pushed)
<1>1. PICK s \in Seq(Records) : TablesTrue(t, s) /\ pushed = s \o Unconsumed
  BY DEF TablesInv
<1>2. Unconsumed = <<>>
  BY DEF Unconsumed, BufferInv
<1>3. pushed = s
  BY <1>1, <1>2
<1> QED
  BY <1>1, <1>3, DumpTrue

-----------------------------------------------------------------------------
(* The rows. *)

\* What one step does to the files and to what has been pushed.
LEMMA FilesStep ==
  ASSUME FilesInv, [Next]_phVars
  PROVE  \/ files' = files /\ pushed' = pushed
         \/ files' = files /\ \E r \in Records : pushed' = Append(pushed, r)
         \/ /\ pushed' = pushed /\ pc \in InFile
            /\ Order[cur] \in Mode
            /\ \E f : /\ files' = [files EXCEPT ![Order[cur]] = f]
                      /\ f.rows = {} \/ (pc = "write" /\ f.rows = DumpOf(t)[Order[cur]])
<1>1. CASE DumpOpen
  <2> DEFINE f == [state |-> "open", rows |-> {}]
  <2>1. /\ pushed' = pushed /\ pc \in InFile /\ Order[cur] \in Mode
        /\ files' = [files EXCEPT ![Order[cur]] = f]
    BY <1>1 DEF DumpOpen, dataVars, InFile
  <2>2. f.rows = {}
    OBVIOUS
  <2> HIDE DEF f
  <2> QED
    BY <2>1, <2>2
<1>2. CASE DumpOpenFails
  <2> DEFINE f == [state |-> "failed", rows |-> {}]
  <2>1. /\ pushed' = pushed /\ pc \in InFile /\ Order[cur] \in Mode
        /\ files' = [files EXCEPT ![Order[cur]] = f]
    BY <1>2 DEF DumpOpenFails, dataVars, InFile
  <2>2. f.rows = {}
    OBVIOUS
  <2> HIDE DEF f
  <2> QED
    BY <2>1, <2>2
<1>3. CASE DumpWrite
  <2> DEFINE f == [state |-> "complete", rows |-> DumpOf(t)[Order[cur]]]
  <2>1. /\ pushed' = pushed /\ pc \in InFile /\ pc = "write" /\ Order[cur] \in Mode
        /\ files' = [files EXCEPT ![Order[cur]] = f]
    BY <1>3 DEF DumpWrite, dataVars, InFile, FilesInv
  <2>2. f.rows = DumpOf(t)[Order[cur]]
    OBVIOUS
  <2> HIDE DEF f
  <2> QED
    BY <2>1, <2>2
<1>4. ASSUME NEW r \in Records, Push(r)
      PROVE  files' = files /\ \E p \in Records : pushed' = Append(pushed, p)
  BY <1>4 DEF Push, dumpVars
<1>5. CASE \/ Consume \/ ConsumeEnd \/ DumpStart \/ DumpSkip \/ Die \/ StartMain \/ ReturnFromMain
           \/ CallExit \/ ExitHandler \/ Terminate \/ CrashSignal \/ SecondSignal \/ EarlySignal
           \/ Kill \/ UNCHANGED phVars
  <2>1. files' = files /\ pushed' = pushed
    BY <1>5 DEF Consume, ConsumeEnd, DumpStart, DumpSkip, Die, StartMain, ReturnFromMain, CallExit,
                ExitHandler, Terminate, CrashSignal, SecondSignal, EarlySignal, Kill,
                phVars, dumpVars, dataVars
  <2> QED
    BY <2>1
<1> QED
  BY <1>1, <1>2, <1>3, <1>4, <1>5 DEF Next, HookStep, ProgramStep

(***************************************************************************)
(* Every row of a dump stands for something that the program did, however  *)
(* many records the buffer holds, wherever it is consumed and whatever     *)
(* ends the program, for records whose meaning HookTrace gives: nothing is *)
(* lost from the buffer, repeated or overtaken on its way to the tables.   *)
(***************************************************************************)
THEOREM RowsTrue ==
  ASSUME PlainRecords
  PROVE  Spec => []RowsHappened
<1> DEFINE Inv == BufferInv /\ FilesInv /\ TablesInv /\ pushed \in Seq(Records) /\ RowsHappened
<1>1. Init => Inv
  <2> SUFFICES ASSUME Init PROVE Inv
    OBVIOUS
  <2>1. RowsHappened
    BY DEF Init, RowsHappened, NoFile
  <2>2. pushed \in Seq(Records)
    BY DEF Init
  <2> QED
    BY <2>1, <2>2, InitBufferInv, InitFilesInv, InitTablesInv
<1>2. Inv /\ [Next]_phVars => Inv'
  <2> SUFFICES ASSUME Inv, [Next]_phVars PROVE Inv'
    OBVIOUS
  <2>1. BufferInv' /\ FilesInv' /\ TablesInv'
    BY BufferInvStep, FilesInvStep, TablesInvStep
  <2>2. pushed' \in Seq(Records)
    BY FilesStep
  <2>3. ASSUME ~interrupted', NEW m \in Mode
        PROVE  files'[m].rows \subseteq HT!RowsOf(m, pushed')
    <3>1. ~interrupted /\ files[m].rows \subseteq HT!RowsOf(m, pushed)
      BY <2>3, InterruptedStays DEF RowsHappened
    <3>2. CASE files' = files /\ pushed' = pushed
      BY <3>1, <3>2
    <3>3. ASSUME NEW r \in Records, files' = files, pushed' = Append(pushed, r)
          PROVE  files'[m].rows \subseteq HT!RowsOf(m, pushed')
      BY <3>1, <3>3, RowsGrow
    <3>4. ASSUME pushed' = pushed, Order[cur] \in Mode,
                 NEW f, files' = [files EXCEPT ![Order[cur]] = f],
                 f.rows = {} \/ (pc = "write" /\ f.rows = DumpOf(t)[Order[cur]])
          PROVE  files'[m].rows \subseteq HT!RowsOf(m, pushed')
      <4>1. f.rows = {} \/ f.rows = HT!RowsOf(Order[cur], pushed)
        BY <3>1, <3>4, DumpOfAll
      <4>2. DOMAIN files = Mode
        BY DEF FilesInv
      <4>3. files'[m] = IF m = Order[cur] THEN f ELSE files[m]
        BY <3>4, <4>2
      <4> QED
        BY <3>1, <3>4, <4>1, <4>3
    <3> QED
      BY <3>2, <3>3, <3>4, FilesStep
  <2>4. RowsHappened'
    BY <2>3 DEF RowsHappened
  <2> QED
    BY <2>1, <2>2, <2>4
<1>3. Inv => RowsHappened
  OBVIOUS
<1> HIDE DEF Inv
<1> QED
  BY <1>1, <1>2, <1>3, PTL DEF Spec

-----------------------------------------------------------------------------
(* The report. *)

\* What dump() leaves of one mode when q has been pushed: its file, or none.
Reported(f, m, q) ==
  \/ f = [state |-> "complete", rows |-> HT!RowsOf(m, q)]
  \/ f = [state |-> "failed", rows |-> {}]

\* Until a signal meets a hook call: the files that dump() is through with hold
\* what the whole run amounts to; it is through with all of them exactly when it
\* has begun and is not at one; and nobody dumps before the handlers are there.
ReportInv ==
  /\ ~interrupted
  /\ files = [m \in Mode |-> files[m]]
  /\ pc \in InFile =>
       \A k \in 1..3 : (k < cur /\ Order[k] \in Mode) => Reported(files[Order[k]], Order[k], pushed)
  /\ cur \in 1..4 /\ (cur = 4 <=> dumped /\ pc \notin InFile)
  /\ pc \in {"dump", "open", "write", "die"} => goal # "push"
  /\ goal # "push" => installed
  /\ phase = "main" => installed
  /\ pc \in InFile => cur \in 1..3 /\ dumped

\* The invariant holds at the start.
LEMMA InitReportInv == Init => ReportInv
<1> SUFFICES ASSUME Init PROVE ReportInv
  OBVIOUS
<1>1. files = [m \in Mode |-> files[m]]
  BY DEF Init
<1>2. /\ ~interrupted /\ pc = "idle" /\ goal = "push" /\ phase = "premain"
      /\ cur = 1 /\ ~dumped
  BY DEF Init
<1> QED
  BY <1>1, <1>2 DEF ReportInv, InFile

\* A file that dump() is through with is one file more of the report.
LEMMA NextFileReport ==
  ASSUME ReportInv, pc \in InFile,
         UNCHANGED <<lifeVars, goal, dumped, pushed>>,
         cur' = cur + 1, pc' = NextFile(cur),
         files' = [m \in Mode |-> files'[m]],
         \A m \in Mode : m # Order[cur] => files'[m] = files[m],
         Order[cur] \in Mode => Reported(files'[Order[cur]], Order[cur], pushed)
  PROVE  /\ ReportInv'
         /\ \A k \in 1..3 : (k < cur + 1 /\ Order[k] \in Mode) =>
              Reported(files'[Order[k]], Order[k], pushed)
<1>1. /\ cur \in 1..3 /\ dumped /\ dumped' /\ Len(Order) = 3 /\ goal # "push" /\ goal' = goal
      /\ installed /\ installed' /\ ~interrupted' /\ pushed' = pushed
      /\ phase' = phase
  BY OrderFacts DEF ReportInv, lifeVars, InFile
<1>2. /\ pc' \in {"open", "idle", "die"}
      /\ pc' = "open" <=> cur # 3
  BY <1>1 DEF NextFile, Returned
<1>3. ASSUME NEW k \in 1..3, k < cur + 1, Order[k] \in Mode
      PROVE  Reported(files'[Order[k]], Order[k], pushed)
  <2>1. CASE k = cur
    BY <1>3, <2>1
  <2>2. CASE k # cur
    <3>1. k < cur /\ Order[k] # Order[cur]
      BY <1>1, <1>3, <2>2, OrderFacts
    <3>2. files'[Order[k]] = files[Order[k]]
      BY <1>3, <3>1
    <3> QED
      BY <1>3, <3>1, <3>2 DEF ReportInv
  <2> QED
    BY <2>1, <2>2
<1>4. pc' \in InFile =>
       \A k \in 1..3 : (k < cur' /\ Order[k] \in Mode) => Reported(files'[Order[k]], Order[k], pushed')
  BY <1>1, <1>3
<1>5. /\ cur' \in 1..4 /\ (cur' = 4 <=> dumped' /\ pc' \notin InFile)
      /\ pc' \in InFile => cur' \in 1..3 /\ dumped'
  BY <1>1, <1>2 DEF InFile
<1>6. ReportInv'
  <2>1. ~interrupted' /\ files' = [m \in Mode |-> files'[m]] /\ goal' # "push" /\ installed'
    BY <1>1
  <2> QED
    BY <2>1, <1>4, <1>5 DEF ReportInv, Reported
<1> QED
  BY <1>3, <1>6

\* Writing a file changes that file alone.
LEMMA OneFile ==
  ASSUME files = [m \in Mode |-> files[m]], NEW k \in Mode, NEW f,
         files' = [files EXCEPT ![k] = f]
  PROVE  /\ files' = [m \in Mode |-> files'[m]]
         /\ \A m \in Mode : m # k => files'[m] = files[m]
         /\ files'[k] = f
OBVIOUS

\* What the three ways of being through with a file have in common.
LEMMA FileStep ==
  ASSUME BufferInv, FilesInv, TablesInv, ReportInv, DumpSkip \/ DumpOpenFails \/ DumpWrite
  PROVE  /\ pc \in InFile /\ phase # "dead"
         /\ UNCHANGED <<lifeVars, goal, dumped, pushed>>
         /\ cur' = cur + 1 /\ pc' = NextFile(cur)
         /\ files' = [m \in Mode |-> files'[m]]
         /\ \A m \in Mode : m # Order[cur] => files'[m] = files[m]
         /\ Order[cur] \in Mode => Reported(files'[Order[cur]], Order[cur], pushed)
<1>1. files = [m \in Mode |-> files[m]] /\ ~interrupted
  BY DEF ReportInv
<1>2. CASE DumpSkip
  <2>1. /\ pc \in InFile /\ phase # "dead" /\ UNCHANGED <<lifeVars, goal, dumped, pushed, files>>
        /\ cur' = cur + 1 /\ pc' = NextFile(cur) /\ Order[cur] \notin Mode
    BY <1>2 DEF DumpSkip, InFile, dataVars
  <2> QED
    BY <1>1, <2>1
<1>3. CASE DumpOpenFails
  <2> DEFINE f == [state |-> "failed", rows |-> {}]
  <2>1. /\ pc \in InFile /\ phase # "dead" /\ UNCHANGED <<lifeVars, goal, dumped, pushed>>
        /\ cur' = cur + 1 /\ pc' = NextFile(cur) /\ Order[cur] \in Mode
        /\ files' = [files EXCEPT ![Order[cur]] = f]
    BY <1>3 DEF DumpOpenFails, InFile, dataVars
  <2>2. Reported(f, Order[cur], pushed)
    BY DEF Reported
  <2> HIDE DEF f
  <2>3. /\ files' = [m \in Mode |-> files'[m]]
        /\ \A m \in Mode : m # Order[cur] => files'[m] = files[m]
        /\ files'[Order[cur]] = f
    BY <1>1, <2>1, OneFile
  <2> QED
    BY <2>1, <2>2, <2>3
<1>4. CASE DumpWrite
  <2> DEFINE f == [state |-> "complete", rows |-> DumpOf(t)[Order[cur]]]
  <2>1. /\ pc \in InFile /\ phase # "dead" /\ UNCHANGED <<lifeVars, goal, dumped, pushed>>
        /\ cur' = cur + 1 /\ pc' = NextFile(cur) /\ pc = "write" /\ Order[cur] \in Mode
        /\ files' = [files EXCEPT ![Order[cur]] = f]
    BY <1>4 DEF DumpWrite, InFile, dataVars, FilesInv
  <2>2. Reported(f, Order[cur], pushed)
    <3>1. DumpOf(t)[Order[cur]] = HT!RowsOf(Order[cur], pushed)
      BY <1>1, <2>1, DumpOfAll
    <3> QED
      BY <3>1 DEF Reported
  <2> HIDE DEF f
  <2>3. /\ files' = [m \in Mode |-> files'[m]]
        /\ \A m \in Mode : m # Order[cur] => files'[m] = files[m]
        /\ files'[Order[cur]] = f
    BY <1>1, <2>1, OneFile
  <2> QED
    BY <2>1, <2>2, <2>3
<1> QED
  BY <1>2, <1>3, <1>4

\* No step breaks the invariant.
LEMMA ReportInvStep ==
  ASSUME ~interrupted', BufferInv, FilesInv, TablesInv, ReportInv, [Next]_phVars
  PROVE  ReportInv'
<1>0. /\ ~interrupted /\ files = [m \in Mode |-> files[m]]
      /\ pc \in {"idle", "consume", "dump", "open", "write", "die"}
  BY DEF ReportInv, BufferInv
<1>1. ASSUME NEW r \in Records, Push(r) PROVE ReportInv'
  <2>1. /\ pc = "idle" /\ pc' \in {"idle", "consume"} /\ UNCHANGED <<lifeVars, dumpVars>>
        /\ goal' = goal \/ goal' = "push"
    BY <1>1 DEF Push, StartCall, callVars
  <2> QED
    BY <1>0, <2>1 DEF ReportInv, lifeVars, dumpVars, InFile, Reported
<1>2. CASE Consume
  BY <1>0, <1>2 DEF ReportInv, Consume, dumpVars, InFile
<1>3. CASE ConsumeEnd
  BY <1>0, <1>3 DEF ReportInv, ConsumeEnd, lifeVars, dumpVars, InFile
<1>4. CASE DumpStart
  <2>1. CASE dumped
    <3>1. /\ pc = "dump" /\ pc' \in {"idle", "die"} /\ dumped'
          /\ UNCHANGED <<lifeVars, goal, cur, files>>
      BY <1>4, <2>1 DEF DumpStart, Returned
    <3> QED
      BY <1>0, <2>1, <3>1 DEF ReportInv, lifeVars, InFile
  <2>2. CASE ~dumped
    <3>1. /\ pc = "dump" /\ pc' = "open" /\ dumped' /\ cur' = 1
          /\ UNCHANGED <<lifeVars, goal, files>>
      BY <1>4, <2>2 DEF DumpStart
    <3> QED
      BY <1>0, <3>1 DEF ReportInv, lifeVars, InFile
  <2> QED
    BY <2>1, <2>2
<1>5. CASE DumpSkip \/ DumpOpenFails \/ DumpWrite
  BY <1>5, FileStep, NextFileReport
<1>6. CASE DumpOpen
  <2> DEFINE f == [state |-> "open", rows |-> {}]
  <2>1. /\ pc = "open" /\ pc' = "write" /\ Order[cur] \in Mode
        /\ files' = [files EXCEPT ![Order[cur]] = f]
        /\ UNCHANGED <<lifeVars, goal, dumped, cur, pushed>>
    BY <1>6 DEF DumpOpen, dataVars
  <2> HIDE DEF f
  <2>2. /\ files' = [m \in Mode |-> files'[m]]
        /\ \A m \in Mode : m # Order[cur] => files'[m] = files[m]
    BY <1>0, <2>1, OneFile
  <2>3. cur \in 1..3 /\ \A k \in 1..3 : k < cur => Order[k] # Order[cur]
    BY <2>1, OrderFacts DEF ReportInv, InFile
  <2>4. \A k \in 1..3 : (k < cur' /\ Order[k] \in Mode) => Reported(files'[Order[k]], Order[k], pushed')
    <3> SUFFICES ASSUME NEW k \in 1..3, k < cur', Order[k] \in Mode
                 PROVE  Reported(files'[Order[k]], Order[k], pushed')
      OBVIOUS
    <3>1. files'[Order[k]] = files[Order[k]] /\ pushed' = pushed /\ k < cur
      BY <2>1, <2>2, <2>3
    <3>2. Reported(files[Order[k]], Order[k], pushed)
      BY <2>1, <3>1 DEF ReportInv, InFile
    <3> QED
      BY <3>1, <3>2
  <2> QED
    BY <1>0, <2>1, <2>2, <2>4 DEF ReportInv, lifeVars, InFile, Reported
<1>7. CASE Die \/ StartMain \/ CallExit \/ Terminate \/ EarlySignal \/ Kill
  BY <1>0, <1>7 DEF ReportInv, Die, StartMain, CallExit, Terminate, EarlySignal, Kill,
                    callVars, dumpVars, dataVars, InFile
<1>8. CASE SecondSignal
  <2>1. pc = "idle"
    BY <1>8, Zenon DEF SecondSignal
  <2> QED
    BY <1>0, <1>8, <2>1 DEF ReportInv, SecondSignal, callVars, dumpVars, dataVars, InFile
<1>9. CASE ReturnFromMain \/ ExitHandler
  BY <1>0, <1>9 DEF ReportInv, ReturnFromMain, ExitHandler, StartCall, dumpVars, InFile
<1>10. CASE CrashSignal
  <2>1. pc = "idle"
    BY <1>10, Zenon DEF CrashSignal
  <2>2. ~interrupted'
    BY <1>0, <1>10, <2>1, Zenon DEF CrashSignal
  <2> QED
    BY <1>0, <1>10, <2>1, <2>2 DEF ReportInv, CrashSignal, StartCall, dumpVars, InFile
<1>11. CASE UNCHANGED phVars
  BY <1>0, <1>11 DEF ReportInv, phVars, lifeVars, callVars, dumpVars, dataVars, InFile, Reported
<1> QED
  BY <1>1, <1>2, <1>3, <1>4, <1>5, <1>6, <1>7, <1>8, <1>9, <1>10, <1>11
     DEF Next, HookStep, ProgramStep

-----------------------------------------------------------------------------
(* The refinement. *)

\* What HookTrace sees of the state.
Report == IF cur > Len(Order) THEN files ELSE [m \in {"none"} |-> {}]
Status == IF phase = "dead" THEN "ended" ELSE IF installed THEN "ready" ELSE "starting"

\* The report is there when dump() is through with the last file, and not before.
LEMMA ReportIs ==
  ASSUME ReportInv
  PROVE  /\ cur # 4 => Report = HT!NoReport
         /\ cur = 4 => Report = files /\ Report # HT!NoReport
         /\ cur \in 1..4
<1>1. Len(Order) = 3 /\ cur \in 1..4
  BY OrderFacts DEF ReportInv
<1>2. files # [m \in {"none"} |-> {}]
  <2>1. DOMAIN files = Mode
    BY DEF ReportInv
  <2>2. "none" \notin Mode
    BY HookTablesAssumption
  <2>3. "none" \in DOMAIN [m \in {"none"} |-> {}]
    OBVIOUS
  <2> QED
    BY <2>1, <2>2, <2>3
<1> QED
  BY <1>1, <1>2 DEF Report, HT!NoReport

\* After the handlers, and when the program ends in sight of them, there is a report.
LEMMA EndReports ==
  ASSUME Uncut, ReportInv
  PROVE  /\ pc = "die" => cur = 4
         /\ (pc = "idle" /\ exitRan) => cur = 4
  BY DEF Uncut, ReportInv, InFile

\* The last file makes the report: what HookTrace's Dump puts there.
LEMMA LastFile ==
  ASSUME BufferInv, FilesInv, TablesInv, ReportInv, ReportInv',
         DumpSkip \/ DumpOpenFails \/ DumpWrite, cur = 3
  PROVE  /\ \E opened \in SUBSET Mode :
              files' = [m \in Mode |-> IF m \in opened
                                       THEN [state |-> "complete", rows |-> HT!RowsOf(m, pushed)]
                                       ELSE [state |-> "failed", rows |-> {}]]
         /\ cur' = 4
<1>1. /\ \A k \in 1..3 : (k < cur + 1 /\ Order[k] \in Mode) => Reported(files'[Order[k]], Order[k], pushed)
      /\ files' = [m \in Mode |-> files'[m]] /\ cur' = cur + 1
  BY FileStep, NextFileReport
<1>2. \A m \in Mode : Reported(files'[m], m, pushed)
  <2> SUFFICES ASSUME NEW m \in Mode PROVE Reported(files'[m], m, pushed)
    OBVIOUS
  <2>1. PICK k \in 1..3 : m = Order[k]
    BY OrderFacts
  <2> QED
    BY <1>1, <2>1
<1> DEFINE full(m) == [state |-> "complete", rows |-> HT!RowsOf(m, pushed)]
           none == [state |-> "failed", rows |-> {}]
           opened == {m \in Mode : files'[m] = full(m)}
<1>3. \A m \in Mode : files'[m] = full(m) \/ files'[m] = none
  BY <1>2 DEF Reported
<1> HIDE DEF full, none
<1>4. \A m \in Mode : files'[m] = IF m \in opened THEN full(m) ELSE none
  BY <1>3
<1>5. files' = [m \in Mode |-> IF m \in opened THEN full(m) ELSE none]
  BY <1>1, <1>4
<1>6. opened \in SUBSET Mode
  OBVIOUS
<1> HIDE DEF opened
<1>7. \E o \in SUBSET Mode : files' = [m \in Mode |-> IF m \in o THEN full(m) ELSE none]
  BY <1>5, <1>6, Zenon
<1>8. \E o \in SUBSET Mode :
        files' = [m \in Mode |-> IF m \in o THEN [state |-> "complete", rows |-> HT!RowsOf(m, pushed)]
                                            ELSE [state |-> "failed", rows |-> {}]]
  BY <1>7, Zenon DEF full, none
<1>9. cur' = 4
  BY <1>1
<1> QED
  BY <1>8, <1>9, Zenon

\* Every step of the runtime is a step of HookTrace or none.
LEMMA TraceStep ==
  ASSUME ~interrupted', BufferInv, FilesInv, TablesInv, ReportInv, ReportInv', Uncut,
         [Next]_phVars
  PROVE  [HT!Next]_(HT!traceVars)
<1> DEFINE Same == UNCHANGED <<pushed, Report, Status, killed>>
           Goal == [HT!Next]_(HT!traceVars)
<1>0. Same => Goal
  BY DEF HT!traceVars, Report, Status
<1>1. cur' = cur /\ (cur = 4 => files' = files) => Report' = Report
  BY OrderFacts DEF Report, ReportInv
<1>2. ASSUME NEW r \in Records, Push(r) PROVE Goal
  <2>1. /\ phase # "dead" /\ Len(pushed) < MaxPush /\ pushed' = Append(pushed, r)
        /\ UNCHANGED <<lifeVars, dumpVars>>
    BY <1>2 DEF Push
  <2>2. UNCHANGED <<Report, Status, killed>> /\ Status # "ended"
    BY <2>1, <1>1 DEF lifeVars, dumpVars, Status
  <2>3. HT!Push(r)
    BY <2>1, <2>2 DEF HT!Push, Report, Status
  <2> QED
    BY <2>3 DEF HT!Next
<1>3. CASE Consume \/ StartMain
  <2>1. /\ phase # "dead" /\ phase' # "dead" /\ installed'
        /\ UNCHANGED <<pushed, killed, cur, files>>
    BY <1>3 DEF Consume, StartMain, dumpVars, dataVars
  <2>2. CASE installed
    <3>1. Same
      BY <1>1, <2>1, <2>2 DEF Status
    <3> QED
      BY <1>0, <3>1
  <2>3. CASE ~installed
    <3>1. Status = "starting" /\ Status' = "ready" /\ UNCHANGED <<pushed, Report, killed>>
      BY <1>1, <2>1, <2>3 DEF Status
    <3>2. HT!Ready
      BY <3>1 DEF HT!Ready, Report, Status
    <3> QED
      BY <3>2 DEF HT!Next
  <2> QED
    BY <2>2, <2>3
<1>4. CASE ConsumeEnd \/ ReturnFromMain \/ CallExit \/ ExitHandler \/ CrashSignal
  <2>1. /\ phase # "dead" /\ phase' # "dead"
        /\ UNCHANGED <<installed, pushed, killed, cur, files>>
    BY <1>4 DEF ConsumeEnd, ReturnFromMain, CallExit, ExitHandler, CrashSignal,
                lifeVars, dumpVars, dataVars
  <2>2. Same
    BY <1>1, <2>1 DEF Status
  <2> QED
    BY <1>0, <2>2
<1>5. CASE DumpStart
  <2>1. /\ UNCHANGED <<lifeVars, pushed, files>> /\ pc = "dump"
        /\ cur' = cur \/ (~dumped /\ cur' = 1)
    BY <1>5 DEF DumpStart, dataVars
  <2>2. Report' = Report
    <3>1. CASE cur' = cur
      BY <1>1, <2>1, <3>1
    <3>2. CASE ~dumped /\ cur' = 1
      <4>1. cur # 4 /\ cur' # 4
        BY <3>2 DEF ReportInv
      <4> QED
        BY <4>1, OrderFacts DEF Report, ReportInv
    <3> QED
      BY <2>1, <3>1, <3>2
  <2>3. Same
    BY <2>1, <2>2 DEF Status, lifeVars
  <2> QED
    BY <1>0, <2>3
<1>6. CASE DumpOpen
  <2>1. /\ UNCHANGED <<lifeVars, pushed, cur>> /\ pc \in InFile
    BY <1>6 DEF DumpOpen, dataVars, InFile
  <2>2. cur # 4
    BY <2>1 DEF ReportInv
  <2>3. Same
    BY <1>1, <2>1, <2>2 DEF Status, lifeVars
  <2> QED
    BY <1>0, <2>3
<1>7. CASE DumpSkip \/ DumpOpenFails \/ DumpWrite
  <2>1. /\ pc \in InFile /\ phase # "dead" /\ UNCHANGED <<lifeVars, goal, dumped, pushed>>
        /\ cur' = cur + 1
    BY <1>7, FileStep
  <2>2. cur \in 1..3 /\ installed /\ pc \in {"open", "write"}
    BY <2>1 DEF ReportInv, InFile
  <2>3. UNCHANGED <<pushed, Status, killed>> /\ Status = "ready"
    BY <2>1, <2>2 DEF Status, lifeVars
  <2>4. CASE cur # 3
    <3>1. cur' # 4 /\ cur # 4
      BY <2>1, <2>2, <2>4
    <3>2. Report' = Report
      BY <3>1, OrderFacts DEF Report, ReportInv
    <3> QED
      BY <1>0, <2>3, <3>2
  <2>5. CASE cur = 3
    <3>1. /\ \E opened \in SUBSET Mode :
              files' = [m \in Mode |-> IF m \in opened
                                       THEN [state |-> "complete", rows |-> HT!RowsOf(m, pushed)]
                                       ELSE [state |-> "failed", rows |-> {}]]
          /\ cur' = 4
      BY <1>7, <2>5, LastFile
    <3>2. Report = HT!NoReport
      BY <2>5, ReportIs
    <3>3. Report' = files'
      BY <3>1, OrderFacts DEF Report
    <3>4. HT!Dump
      BY <2>3, <3>1, <3>2, <3>3 DEF HT!Dump, Report, Status
    <3> QED
      BY <3>4 DEF HT!Next
  <2> QED
    BY <2>4, <2>5
<1>8. CASE Die \/ Terminate \/ EarlySignal
  <2>1. /\ phase # "dead" /\ phase' = "dead" /\ UNCHANGED <<pushed, killed, cur, files>>
    BY <1>8 DEF Die, Terminate, EarlySignal, dumpVars, dataVars
  <2>2. installed => cur = 4
    BY <1>8, EndReports DEF Die, Terminate, EarlySignal
  <2>3. /\ Status # "ended" /\ (Status = "ready" => Report # HT!NoReport)
        /\ Status' = "ended" /\ UNCHANGED <<pushed, Report, killed>>
    BY <1>1, <2>1, <2>2, ReportIs DEF Status
  <2>4. HT!Finish
    BY <2>3 DEF HT!Finish, Report, Status
  <2> QED
    BY <2>4 DEF HT!Next
<1>9. CASE SecondSignal
  <2>1. pc = "idle" /\ crashDumped
    BY <1>9, Zenon DEF SecondSignal
  <2> QED
    BY <2>1 DEF Uncut
<1>10. CASE Kill
  <2>1. /\ phase # "dead" /\ phase' = "dead" /\ killed' = TRUE /\ UNCHANGED <<pushed, cur, files>>
    BY <1>10 DEF Kill, dumpVars, dataVars
  <2>2. /\ Status # "ended" /\ Status' = "ended" /\ killed' = TRUE /\ UNCHANGED <<pushed, Report>>
    BY <1>1, <2>1 DEF Status
  <2>3. HT!Kill
    BY <2>2 DEF HT!Kill, Report, Status
  <2> QED
    BY <2>3 DEF HT!Next
<1>11. CASE UNCHANGED phVars
  <2>1. Same
    BY <1>1, <1>11 DEF Status, phVars, lifeVars, dumpVars, dataVars
  <2> QED
    BY <1>0, <2>1
<1> QED
  BY <1>2, <1>3, <1>4, <1>5, <1>6, <1>7, <1>8, <1>9, <1>10, <1>11
     DEF Next, HookStep, ProgramStep

(***************************************************************************)
(* The runtime implements HookTrace for every buffer size, every set of    *)
(* plain records and every set of modes: buffering, the tables and the     *)
(* order of the handlers neither lose, repeat nor reorder a record that    *)
(* was pushed before the dump, and no end that the handlers see leaves no  *)
(* report, until a signal arrives inside a hook call.                      *)
(***************************************************************************)
THEOREM RuntimeReports ==
  ASSUME PlainRecords
  PROVE  Spec => ReportsWhatWasPushed
<1> DEFINE Inv == BufferInv /\ EndInv /\ TablesInv /\ (~interrupted => ReportInv)
<1>1. Init => Inv
  BY InitBufferInv, InitEndInv, InitTablesInv, InitReportInv
<1>2. Inv /\ [Next]_phVars => Inv'
  <2> SUFFICES ASSUME Inv, [Next]_phVars PROVE Inv'
    OBVIOUS
  <2>1. BufferInv' /\ EndInv' /\ TablesInv'
    BY BufferInvStep, EndInvStep, TablesInvStep
  <2>2. ASSUME ~interrupted' PROVE ReportInv'
    <3>1. ReportInv /\ FilesInv
      BY <2>2, InterruptedStays DEF EndInv
    <3> QED
      BY <2>2, <3>1, ReportInvStep
  <2> QED
    BY <2>1, <2>2
<1>3. Inv /\ Inv' /\ [Next]_phVars => [interrupted' \/ HT!Next]_(HT!traceVars)
  <2> SUFFICES ASSUME Inv, Inv', [Next]_phVars, ~interrupted'
               PROVE  [HT!Next]_(HT!traceVars)
    OBVIOUS
  <2>1. ~interrupted /\ Uncut /\ FilesInv
    BY InterruptedStays DEF EndInv
  <2> QED
    BY <2>1, TraceStep
<1>4. Init => HT!Init
  <2> SUFFICES ASSUME Init PROVE HT!Init
    OBVIOUS
  <2>1. pushed = <<>> /\ killed = FALSE /\ cur = 1 /\ phase = "premain" /\ ~installed
    BY DEF Init
  <2>2. ReportInv
    BY InitReportInv
  <2>3. Report = HT!NoReport /\ Status = "starting"
    BY <2>1, <2>2, ReportIs DEF Status
  <2> QED
    BY <2>1, <2>3 DEF HT!Init, Report, Status
<1> HIDE DEF Inv
<1> QED
  BY <1>1, <1>2, <1>3, <1>4, PTL DEF Spec, ReportsWhatWasPushed
=============================================================================
