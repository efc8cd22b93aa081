------------------------------ MODULE PtaHook ------------------------------
(***************************************************************************)
(* The life of an instrumented program and of the hook runtime in it: the  *)
(* record buffer and its consumption, the singleton that installs the      *)
(* signal and exit handlers when it is first needed, the single dump, and  *)
(* every way an execution ends.                                            *)
(*                                                                         *)
(* The hook has one thread.  pc says where it stands inside a hook call,   *)
(* "idle" when the program itself runs; goal says what the call does after *)
(* the buffer has been consumed ("push": return, "dump": dump and return,  *)
(* "die": dump and _Exit).                                                 *)
(***************************************************************************)
EXTENDS HookTables

CONSTANTS
  Records,     \* the records the program pushes
  BufferSize,  \* BUFFER_SIZE
  MaxPush      \* bound: records of one execution

ASSUME PtaHookAssumption ==
  /\ BufferSize \in Nat \ {0}
  /\ MaxPush \in Nat

VARIABLES
  phase,        \* "premain", "main", "exiting" or "dead"
  installed,    \* the PtaHook object exists, with its handlers
  exitRan,      \* exitDumpHandler has been called by exit()
  crashDumped,  \* g_crashDumped
  dumped,       \* dump()'s static flag
  buf,          \* buffer[0 .. bufferIndex - 1]
  t,            \* the tables
  pc, goal,     \* the hook call in progress
  i,            \* stopAndConsume's index
  cur,          \* which mode's file dump() is at
  files,        \* mode -> [state, rows]
  pushed,       \* every record pushed so far
  killed,       \* the program was stopped by something no handler sees
  interrupted   \* a handled signal arrived inside a hook call

lifeVars == <<phase, installed, exitRan, crashDumped, killed, interrupted>>
callVars == <<pc, goal, i>>
dumpVars == <<dumped, cur, files>>
dataVars == <<buf, t, pushed>>
phVars   == <<lifeVars, callVars, dumpVars, dataVars>>

Order == <<"ptr", "bb", "cg">>

NoFile == [state |-> "none", rows |-> {}]

Init ==
  /\ phase = "premain"
  /\ installed = FALSE /\ exitRan = FALSE /\ crashDumped = FALSE
  /\ killed = FALSE /\ interrupted = FALSE
  /\ pc = "idle" /\ goal = "push" /\ i = 0
  /\ dumped = FALSE /\ cur = 1 /\ files = [m \in Mode |-> NoFile]
  /\ buf = <<>> /\ t = Tables /\ pushed = <<>>

-----------------------------------------------------------------------------
(* The hook's calls. *)

\* stopAndConsume is called, and then what g says.
StartCall(g) == pc' = "consume" /\ goal' = g /\ i' = 0

\* Mutant: the record that fills the buffer is stored too late: the consumption
\* does not see it and then marks the buffer empty.
PushLate(r) ==
  /\ pc = "idle" /\ phase # "dead"
  /\ Len(pushed) < MaxPush
  /\ pushed' = Append(pushed, r)
  /\ IF Len(buf) + 1 = BufferSize THEN buf' = buf /\ StartCall("push")
                                  ELSE buf' = Append(buf, r) /\ UNCHANGED callVars
  /\ UNCHANGED <<lifeVars, dumpVars, t>>

\* __hook_push: the record is stored, and a full buffer is consumed.
Push(r) ==
  /\ pc = "idle" /\ phase # "dead"
  /\ Len(pushed) < MaxPush
  /\ buf' = Append(buf, r)
  /\ pushed' = Append(pushed, r)
  /\ IF Len(buf) + 1 = BufferSize THEN StartCall("push") ELSE UNCHANGED callVars
  /\ UNCHANGED <<lifeVars, dumpVars, t>>

\* One turn of the loop of stopAndConsume.  The first one ever makes the
\* PtaHook object, whose constructor installs the handlers.
Consume ==
  /\ pc = "consume" /\ phase # "dead"
  /\ i < Len(buf)
  /\ t' = Apply(t, buf[i + 1])
  /\ i' = i + 1
  /\ installed' = TRUE
  /\ UNCHANGED <<phase, exitRan, crashDumped, killed, interrupted, pc, goal, dumpVars, buf, pushed>>

\* Mutant: the buffer is not marked empty.
ConsumeEndKeeps ==
  /\ pc = "consume" /\ phase # "dead"
  /\ i = Len(buf)
  /\ pc' = IF goal = "push" THEN "idle" ELSE "dump"
  /\ UNCHANGED <<lifeVars, goal, i, dumpVars, buf, t, pushed>>

\* bufferIndex = 0
ConsumeEnd ==
  /\ pc = "consume" /\ phase # "dead"
  /\ i = Len(buf)
  /\ buf' = <<>>
  /\ pc' = IF goal = "push" THEN "idle" ELSE "dump"
  /\ UNCHANGED <<lifeVars, goal, i, dumpVars, t, pushed>>

Returned == IF goal = "die" THEN "die" ELSE "idle"

\* Mutant: every call dumps.
DumpStartAgain ==
  /\ pc = "dump" /\ phase # "dead"
  /\ dumped' = TRUE /\ cur' = 1 /\ pc' = "open"
  /\ UNCHANGED <<lifeVars, goal, i, files, dataVars>>

\* dump(): only the first call goes on.
DumpStart ==
  /\ pc = "dump" /\ phase # "dead"
  /\ dumped' = TRUE
  /\ IF dumped THEN pc' = Returned /\ UNCHANGED cur
               ELSE pc' = "open" /\ cur' = 1
  /\ UNCHANGED <<lifeVars, goal, i, files, dataVars>>

\* The next file of dump(): modes that are off are passed over.
NextFile(k) == IF k = Len(Order) THEN Returned ELSE "open"

DumpSkip ==
  /\ pc = "open" /\ phase # "dead"
  /\ Order[cur] \notin Mode
  /\ cur' = cur + 1
  /\ pc' = NextFile(cur)
  /\ UNCHANGED <<lifeVars, goal, i, dumped, files, dataVars>>

\* The file is created empty; its rows stay in a string for now.
DumpOpen ==
  /\ pc = "open" /\ phase # "dead"
  /\ Order[cur] \in Mode
  /\ files' = [files EXCEPT ![Order[cur]] = [state |-> "open", rows |-> {}]]
  /\ pc' = "write"
  /\ UNCHANGED <<lifeVars, goal, i, dumped, cur, dataVars>>

\* PTACXX_DUMP_PATH is unset or the file cannot be opened: a message, no file.
DumpOpenFails ==
  /\ pc = "open" /\ phase # "dead"
  /\ Order[cur] \in Mode
  /\ files' = [files EXCEPT ![Order[cur]] = [state |-> "failed", rows |-> {}]]
  /\ cur' = cur + 1
  /\ pc' = NextFile(cur)
  /\ UNCHANGED <<lifeVars, goal, i, dumped, dataVars>>

\* The rows are written and the file is closed.
DumpWrite ==
  /\ pc = "write" /\ phase # "dead"
  /\ files' = [files EXCEPT ![Order[cur]] = [state |-> "complete", rows |-> DumpOf(t)[Order[cur]]]]
  /\ cur' = cur + 1
  /\ pc' = NextFile(cur)
  /\ UNCHANGED <<lifeVars, goal, i, dumped, dataVars>>

\* _Exit at the end of crashDumpHandler.
Die ==
  /\ pc = "die" /\ phase # "dead"
  /\ phase' = "dead"
  /\ UNCHANGED <<installed, exitRan, crashDumped, killed, interrupted, callVars, dumpVars, dataVars>>

HookStep == Consume \/ ConsumeEnd \/ DumpStart \/ DumpSkip \/ DumpOpen
            \/ DumpOpenFails \/ DumpWrite \/ Die

-----------------------------------------------------------------------------
(* The program's life. *)

\* main's wrapper calls __hook_init, which makes the PtaHook object.
StartMain ==
  /\ phase = "premain" /\ pc = "idle"
  /\ phase' = "main"
  /\ installed' = TRUE
  /\ UNCHANGED <<exitRan, crashDumped, killed, interrupted, callVars, dumpVars, dataVars>>

\* __orig_main returns and the wrapper calls __hook_dump, then exit() follows.
ReturnFromMain ==
  /\ phase = "main" /\ pc = "idle"
  /\ phase' = "exiting"
  /\ StartCall("dump")
  /\ UNCHANGED <<installed, exitRan, crashDumped, killed, interrupted, dumpVars, dataVars>>

\* exit() is called by the program, in a global constructor or later.
CallExit ==
  /\ phase \in {"premain", "main"} /\ pc = "idle"
  /\ phase' = "exiting"
  /\ UNCHANGED <<installed, exitRan, crashDumped, killed, interrupted, callVars, dumpVars, dataVars>>

\* exit() reaches exitDumpHandler.  Instrumented destructors and exit handlers
\* may run before it and after it.
ExitHandler ==
  /\ phase = "exiting" /\ pc = "idle"
  /\ installed /\ ~exitRan
  /\ exitRan' = TRUE
  /\ StartCall("dump")
  /\ UNCHANGED <<phase, installed, crashDumped, killed, interrupted, dumpVars, dataVars>>

\* Mutant: atexit was forgotten.
TerminateUnhandled ==
  /\ phase = "exiting" /\ pc = "idle"
  /\ phase' = "dead"
  /\ UNCHANGED <<installed, exitRan, crashDumped, killed, interrupted, callVars, dumpVars, dataVars>>

\* exit() has run all handlers.
Terminate ==
  /\ phase = "exiting" /\ pc = "idle"
  /\ installed => exitRan
  /\ phase' = "dead"
  /\ UNCHANGED <<installed, exitRan, crashDumped, killed, interrupted, callVars, dumpVars, dataVars>>

\* SIGABRT, SIGSEGV or SIGTERM with crashDumpHandler installed, at any moment:
\* it never returns to what it interrupted.
CrashSignal ==
  /\ phase # "dead" /\ installed
  /\ ~crashDumped
  /\ crashDumped' = TRUE
  /\ interrupted' = (interrupted \/ pc # "idle")
  /\ StartCall("die")
  /\ UNCHANGED <<phase, installed, exitRan, killed, dumpVars, dataVars>>

\* A second signal while the handler of the first one runs.
SecondSignal ==
  /\ phase # "dead" /\ installed
  /\ crashDumped
  /\ phase' = "dead"
  /\ interrupted' = (interrupted \/ pc # "idle")
  /\ UNCHANGED <<installed, exitRan, crashDumped, killed, callVars, dumpVars, dataVars>>

\* One of these signals before there is a handler.
EarlySignal ==
  /\ phase # "dead" /\ ~installed
  /\ phase' = "dead"
  /\ UNCHANGED <<installed, exitRan, crashDumped, killed, interrupted, callVars, dumpVars, dataVars>>

\* SIGKILL, any other fatal signal, or _exit().
Kill ==
  /\ phase # "dead"
  /\ phase' = "dead"
  /\ killed' = TRUE
  /\ UNCHANGED <<installed, exitRan, crashDumped, interrupted, callVars, dumpVars, dataVars>>

ProgramStep ==
  \/ \E r \in Records : Push(r)
  \/ StartMain \/ ReturnFromMain \/ CallExit \/ ExitHandler \/ Terminate
  \/ CrashSignal \/ SecondSignal \/ EarlySignal \/ Kill

Next == HookStep \/ ProgramStep

Spec == Init /\ [][Next]_phVars

-----------------------------------------------------------------------------
(* Properties. *)

FileStates == {"none", "open", "failed", "complete"}

(***************************************************************************)
(* The shape of the state (hook.cpp and PointerSymbolTable.cpp:15-36): the *)
(* positions in the buffer and among the files are in range at every call. *)
(***************************************************************************)
TypeOK ==
  /\ phase \in {"premain", "main", "exiting", "dead"}
  /\ installed \in BOOLEAN /\ exitRan \in BOOLEAN
  /\ crashDumped \in BOOLEAN /\ dumped \in BOOLEAN
  /\ killed \in BOOLEAN /\ interrupted \in BOOLEAN
  /\ pc \in {"idle", "consume", "dump", "open", "write", "die"}
  /\ goal \in {"push", "dump", "die"}
  /\ buf \in Seq(Records)
  /\ pushed \in Seq(Records)
  /\ i \in 0..BufferSize
  /\ cur \in 1..4
  /\ DOMAIN files = Mode
  /\ \A m \in Mode : files[m].state \in FileStates

(***************************************************************************)
(* __hook_push never writes past buffer[BUFFER_SIZE - 1], wherever signals *)
(* and exits interrupt the runtime: whenever the program may push, a slot  *)
(* is free, and the consumer never reads past what was pushed.             *)
(***************************************************************************)
BufferNeverOverrun ==
  /\ Len(buf) <= BufferSize
  /\ (pc = "idle" /\ phase # "dead") => Len(buf) < BufferSize
  /\ pc = "consume" => i <= Len(buf)

(***************************************************************************)
(* dump() "only dump once" (PointerSymbolTable.cpp:290-291): a finished    *)
(* file is never opened or written again, though the wrapper, exit() and   *)
(* the signal handlers all call dump and destructors push more records.    *)
(***************************************************************************)
FilesFinal ==
  [][\A m \in Mode : files[m].state = "complete" => files'[m] = files[m]]_phVars

(***************************************************************************)
(* PointerSymbolTable.cpp:20-22 and 31-32: a program that aborts or calls  *)
(* exit() directly "still yields its callgraph dump": once the runtime has *)
(* its handlers, no end of the program that they see leaves a file         *)
(* unfinished -- unless the signal interrupted the runtime itself.         *)
(***************************************************************************)
EndsWithDump ==
  (phase = "dead" /\ installed /\ ~killed /\ ~interrupted) =>
    \A m \in Mode : files[m].state \in {"complete", "failed"}

\* The reading of a run as an execution of HookTrace: the report appears when
\* dump() is through with the last file.
HT == INSTANCE HookTrace WITH
        report <- IF cur > Len(Order) THEN files ELSE [m \in {"none"} |-> {}],
        status <- IF phase = "dead" THEN "ended" ELSE IF installed THEN "ready" ELSE "starting"

(***************************************************************************)
(* Until a signal meets the runtime itself, it implements HookTrace:       *)
(* buffering, the tables and the order of handlers neither lose, repeat nor*)
(* reorder a record that was pushed before the dump, whatever ends the     *)
(* program and whichever files do not open.                                *)
(***************************************************************************)
ReportsWhatWasPushed == HT!Init /\ [][interrupted' \/ HT!Next]_(HT!traceVars)

(***************************************************************************)
(* Every row of a dump stands for something the program did, whatever ends *)
(* it -- unless a signal interrupted the runtime, whose handler consumes   *)
(* the records of a half-consumed buffer again.                            *)
(***************************************************************************)
RowsHappened ==
  ~interrupted => \A m \in Mode : files[m].rows \subseteq HT!RowsOf(m, pushed)
=============================================================================
