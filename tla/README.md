# A TLA+ model of PTACXX

PTACXX puts a pointer analysis behind an interactive query program, an HTTP
server in front of it, and beside it an instrumentation runtime that records
what a program's pointers really did.  This directory keeps the models of the
parts with behaviour worth checking, the TLC runs on small instances, and the
proofs TLAPS checks for every value of the constants.

Paths below are relative to the repository; the C++ is in `src/`, the scripts
in `python/`, the documents in `docs/`.

## 1. The system

| Component | State it keeps | Operations | Talks to |
|---|---|---|---|
| **Query server** (`python/server.py`) | the backend process and its three pipes, `self.lock`, `stdout_queue`, `non_result_queue`, `has_queried`, `in_result`, `startup_timer` | `query`, `_read_result`, two drain threads (`_drain_stdout`, `_drain_stderr` with `_queue_red`), the startup timer chain, `do_POST`, `repl` | clients over HTTP and the console; the backend over pipes |
| **Backend query loop** (`src/common/PAWrapper.cpp` `run`, `queryLoop`, `emitInit`) | the input line | read a line, print `<queryresult>` … `</queryresult>` or a `<queryerror>` | the server; the query handlers |
| **Call graph** (`src/common/CallGraph.cpp`, resolver and patch file in `PAWrapper.cpp`, `QueryInterface.cpp`) | `CG` (ranges of the pool `edges`), `revCG`, `callAnything`, two built flags, the loaded patch, the patch file | build, reverse, reload; `callout`, `callin`, `reach`, `cg`, `cgpatch`, `cgreload`, three silence switches | the pointer analysis; the file system |
| **Points-to and alias caches** (`PAWrapper.cpp`) | `ptsCache`, `aliasCache`, allocation sites | `pts`, `pt`, `alias`, `pts-test`, `test`, the site queries, over the wrappers `inclu` and `unifi` | the pointer analysis |
| **Parser and printer** (`QueryInterface.cpp`) | switches, tokenizer position | `parse`, `encode`, `responseToString` | the query loop |
| **Notes and tree view** (`QueryInterface.cpp`) | a folder of note files: records, conjectures, theorems, premises | `note …` (text, `-c`, `-p`, `-a`, `-r`, `-d`), `tv …` | the file system |
| **Instrumenter** (`src/instrument/instrument.cpp`) | none that survives a run | one pass over the IR that inserts pushes | the hook runtime, by the records it emits |
| **Hook runtime** (`src/hook/*.cpp`) | the record buffer, the symbol tables, the windows recorded, the dump flags | `__hook_push`, `stopAndConsume`, one handler per record kind, `dump`, signal and exit handlers | the instrumented program; the dump files |
| **Batch runner** (`python/parallel.py`, used by `compile.py`, `runTestForDump.py`) | the pool's futures, pending and timed-out items, process groups | `run_process`, `run_one`, `run` | commands it starts |
| **Dump regression runner** (`python/runTestForDump.py`, `runTest.py`) | counters | classify the output of each dump | the batch runner |
| **LLM search** (`python/llm/`) | the best candidate, a budget | the optimisation loop | a model, the compiler |
| **IR manager** (`src/common/IRManager.cpp`) | tables from names, aliases and ids to globals, functions, struct types and values | `buildModuleIndex` (once, at the start); `parseVid`, `listGlobal`, `getGlobal`, `getCtorStructType` | the parser, the query handlers |
| **Command line, LLVM helpers, drivers, tools** | none | parse, classify, print | LLVM, the analyses |

How they interact: a client's request is one call of `query()`, which writes
its lines to the backend's stdin and takes as many results as it wrote lines
from a queue the drain thread fills; nothing else connects a result with its
line.  The backend answers a line with the help of the caches and the call
graph, which it builds the first time it is asked.  An instrumented program
calls the hook for each event, the hook buffers the record, consumes the buffer
when it is full and dumps once, at the end of the program, whichever end that is.

### What is hard about each

* *Query server*: five threads, one lock, two pipes of limited size, a state
  read without the lock (`has_queried`), a backend that may die, log, or reject
  a line at any moment.  Right means: calls exclude each other, each gets the
  answers to its own lines, nothing is left for the next, nobody waits for ever.
* *Hook runtime*: signals at any instruction, five ways a program can end, one
  dump; addresses that are reused, exceptions and calls of uninstrumented code
  that unwind stacks nobody announced; windows deduplicated by offsets into a
  growing pool.  Right means: the report is a function of what happened.
* *Call graph*: a build that an exception may leave anywhere, data derived from
  other data (ranges, reverse lists, a patch read once), an iterative and a
  recursive walk over a cyclic graph.  Right means: exact, or an error.
* *Batch runner*: processes that end while they are killed, retries, one result
  in an unexpected shape.  Right means: one verdict per item and no orphans.
* *Caches*: an analysis that throws in the middle of a query, one question asked
  in two ways, two views into one hash map held at once.  Right means: an entry is
  what the analysis says, whatever was asked before.
* *Notes*: files rewritten by truncating them first, a binary search that relies
  on the order of what was inserted, a tree over records in many files.  Right
  means: a command changes its own record and a crash loses at most one file.
* *IR manager*: one table for names, stripped names, aliases and suffixes of
  globals, functions and structs; ids counted in two places that must agree (what
  is printed and what is looked up).  Right means: an id leads to the value it was
  printed for, and every name to what bears it.
* *Dump regression runner*: a verdict read off another program's output by a
  pattern, results in any order, five tables and a status that have to agree.

## 2. Modules

| Module | What it is | Code |
|---|---|---|
| `SerialQuery` | **abstract**: what the server promises: one call at a time, answers to its own lines, in order | `server.py`, docs |
| `QueryServer` | server, clients, drain threads, timer and backend as processes, one action per step between two points where another thread may act | `server.py`, `PAWrapper.cpp` run/queryLoop |
| `MCQueryServer` | constants of its four runs | |
| `QueryServerProofs` | theorems | |
| `HookTrace` | **abstract**: the report as a function of the records pushed | `src/hook` |
| `Coverage` | one window recorder: pool, offsets, recent window | pools, hash sets and recent slices in `stopAndConsume` and `dump` |
| `WindowTrace` | a recorder against the sequence it has seen | |
| `HookTables` | every record kind as an operator on the tables | `PointerSymbolTable.cpp` |
| `HookMemory` | a running program (calls, objects, exceptions, constructors) beside the tables | `instrument.cpp` for what is pushed, and the tables |
| `MCHookMemory` | `HookMemory` or `WindowTrace`, for one run: they share no state | |
| `PtaHook` | buffer, consumption, handlers, dump, ends of the program; uses `HookTables`, implements `HookTrace` | `PointerSymbolTable.cpp`, `hook.cpp` |
| `MCPtaHook` | constants and constraint of its run | |
| `HookMemoryProofs`, `WindowTraceProofs`, `PtaHookProofs` | lemmas and theorems | |
| `CallGraph` | graph, patch file, walks and the queries | `CallGraph.cpp`, `PAWrapper.cpp` |
| `CallGraphProofs` | theorems | |
| `PointsTo` | caches, allocation sites, `pts`, `alias`, `pts-test`, `test` | `PAWrapper.cpp`, the parsing of dumps in `QueryInterface.cpp` |
| `NoteBook` | **abstract**: one record per heading; a command changes one, `-a` and `-r` nothing but premises, a crash loses one source's | the `note` commands |
| `Notes` | the note files, every command that changes one, the tree view; implements `NoteBook`; whose premises `-a` and `-r` change | `QueryInterface.cpp` |
| `NameIndex` | the tables of names and ids, built statement by statement, and the look-ups | `IRManager.cpp`, `IRManager.h` |
| `InterfaceProofs` | theorems about `NameIndex` and `Notes` | |
| `Session`, `MCSession` | graph, notes, points-to queries and look-ups of names as one backend | the above |
| `SessionProofs` | the caches, the counts of the tests and the sites; what is proved of the parts holds in a session | |
| `BatchRunner` | main thread, pool threads, process groups | `parallel.py` |
| `BatchClients`, `MCBatchClients` | the two programs around it; a composition with `BatchRunner` | `compile.py`, `runTestForDump.py` |
| `BatchRunnerProofs` | theorems about both | |

Variables keep the code's names.  `pc` says where a thread, a hook call or a
query is; every `\* Mutant:` definition is a plausible mistake in the definition
that follows it, and is in use only when a check replaces that definition by it
to see that the property notices.

### How state and actions correspond

*QueryServer.*  `lock` is `self.lock`; `pc[c]` runs idle, lock, clear, poll,
write, flush, read, as `query()` does; `text`, `sent`, `got` are what it was to
write, wrote and read.  `drain["out"]` and `drain["err"]` are the two threads,
between whose read of `has_queried` and whose `put` others run.  `startupTimer`
is the `threading.Timer` chain: armed, fired (waiting for the lock), printing,
off.  `stdin`, `outbuf`, `stdout`, `errbuf`, `stderr` are the pipes, with the
backend's own output buffer before its flush.  A line of output is a tag and
the input it belongs to; log text has no more structure.

*SerialQuery in QueryServer.*  `owner`, `submitted` and `results` of the abstract
module are the operators `Owner` (the caller between `lock` and its return),
`Submitted` (the texts of the callers that are at work) and `Received` (of the
results taken, the inputs they belong to).  The abstract `Receive` takes the result
of the *next accepted* line of the caller's text, counted with `AcceptedTo`: a
rejected line has no result, and none is skipped.

*PtaHook.*  A step is one record pushed, one record consumed, one file opened,
written or closed: the places where a signal makes a difference.  `goal` says
what a hook call does after consuming.  `installed` is the singleton's
constructor, which installs the handlers with the first record that is
consumed, not with the first that is pushed.

*HookTables* has no variables: `Apply(t, record)` is the `switch` of
`stopAndConsume`, one operator per handler.  `HookMemory` drives it with a
program whose real calls and objects are kept beside the tables; its
environment follows the instrumenter: what is pushed for an entry, a return
(with or without `ENDSCOPE`), a landing pad, an allocation, a probe, a
constructor.  A call remembers where its scope was opened and an object with
which scope it was registered; the two differ only for an object of a call above
whose scope another one was left open (`Tracked` leaves it out, section 5).  An object has
the size that its type is stored with and at least one byte; the size that is pushed for
an object on the stack is computed as the instrumenter does (`AllocaSize`), beside the real one.

*CallGraph.*  Each turn of a loop is a step: an exception may leave the loops of
the build there, and others may change the patch file between any two.  What a reading
of the file sees is its content when it was opened (`OpenPatch`).  A range
is kept half-open as in the code.  `work` is the stack of frames of the
recursive `reachIter`, or the queue of `cg`.  The pointer analysis is the
constant relation `Analyses`: for each called pointer an exception, "unknown",
or a list of functions.  The three silence switches are one flag with one set.

*PointsTo.*  A query is a list `todo` of things to do; a step takes the first: a
look-up, an edge of a dump, a check.  What is not cached puts what it needs in
front of the list, as the nested calls of the code do, so an exception of the
analysis, which empties the list, can come between any two look-ups.  `held` is
the view of a set that the code keeps while it looks another one up; `misread`
remembers the pairs that were compared while that view was freed (a
`DenseMap` that grows moves the small sets it owns).  What the analysis says is
the constant `Wrappers`.

*Notes.*  All sources have one file name, so their files compete for `name.md`,
`name.2.md`, …; `folder` is the sequence of those.  A file is the path on its first
line and its records in order; a record is its lines; a line is a kind and a
name.  A command prepares the new contents (`pending`) and writes in two steps,
`Truncate` and `WriteBack`, between which `WriteFails` stands for a crash or a full
disk.  The binary search, the insertion and the removal of lines, and the
recursion of `tv` are the code's.  A proposition under a struct's heading makes `tv` throw (`StructHeadings`).

*NameIndex.*  A name is its place in the alphabetical order of the names, so what
begins with a name is an interval and `listGlobal`'s two binary searches are its
bounds; the sorted vector of entries is a set.  `buildModuleIndex` goes through the
values as its loops reach them: the types of a value first (`worklist` is the stack
of `recordStructTypes`), then its id, then one turn of the loop over namespaces at a
time.  What LLVM and `LLVMUtils` say of names (`Demangled`, `Stripped`, `Inner`,
`Groups`) is constant, and so is the class of a constructor (`class`: the demangler's string
is taken for the class's name, without what its length counts beyond it).  `told` keeps one answer for the properties.

*Session.*  `subject` says what the session asks about.  Graph, notes, caches and
names share no state that one could see another change: notes are files of
their own, the index is built once, and building the graph only puts true entries
into the caches (`CachesTrue`).  Steps of different subjects therefore commute, each property is
about one of them, and one subject per behaviour is enough.

*BatchRunner.*  A future is queued, running, done or consumed; `child` is its
process group.  Time is abstract: a timeout may expire whenever a group runs or
has just ended.

*BatchClients.*  `ends` fixes how the process of each source will end if nobody
kills it: for a command, well, with an error or with bytes that are no text; for
a dump, what of `<init>`, the answer and the block of the final empty query got
out, and the exit status.  `Runs` is a step of `run()` with the `on_result` that it
calls; `LeftOut` is what is reported before anything runs.  `format` is how the
analyzer prints its counts: one fraction, as the pattern of `run_one` expects, or
three lines, as `QueryInterface.cpp` prints them.  With three lines the verdicts "OK" and
"FAIL" are never reached (run `dump_verdict` shows what happens instead); the fraction is
there so that those branches of `run_one` and `on_result` and their tables are checked too.

## 3. Runs

| Run | Instance | What it shows |
|---|---|---|
| `server_safety` | an HTTP and a console client; one good and one bad line, POSTs of two lines; 1 startup line, 3 lines of log, pipes of capacity 1; the backend may die | `OneAtATime`, `TimerRetired`, `StrandedBound`, `QuietBetweenQueries`, `AnswersOwnLines`, `ErrorMeansGone`; `ServesSerially`: it implements `SerialQuery` |
| `server_live` | the same processes under fairness, full pipes both ways | the backend's death releases every call (also one that waits for a rejected line); without rejected or replaced lines every request returns |
| `server_query_lost` (violation) | one line, one startup line | `query()` overwrites its parameter while it empties `non_result_queue` (`server.py:128`) and sends a stale log line instead of the query |
| `server_queryerror_hangs` (violation) | a rejected line | `_read_result` does not know `<queryerror>`; `docs/PROTOCOL.md:15` has `QUERY_ERROR --> QUERY` |
| `hook_memory` | 2 functions, 2 sites, 1 pointer, stack addresses 1, 2, another 6, elements of 1 and 2 bytes, arrays of 1 and 2, depth 3, 5 events, both builds; or windows of 2 over 3 items, 7 items | `ScopesKept`: the two stacks agree and the scope of every active call is where it was; `LiveObjectsKnown`, `ProbesAreTrue`, `ConstructionsNested`: the tables know what exists as far as the code can know it, with its size unless it is an array of constant length; `PoolSound`, `WindowsExact`: the pool holds each window once, the dump is exactly what occurred |
| `hook_sizes` (violation) | the same | `SizesRegistered`: an array `alloca` of constant length is registered with its number of elements (`instrument.cpp:210`), not its size (`PointerSymbolTable.h:19`) |
| `hook_runtime` | modes `ptr` and `cg`, 8 records, buffer of 2, 4 pushes, signals at any moment, files that do not open | no overrun, finished files stay, ends leave complete files, every row happened; `ReportsWhatWasPushed`: until a signal meets a hook call, buffer, tables and dump implement `HookTrace` |
| `session` | graph: 4 functions (a diamond, one side silenced), 1 external, two called pointers, 3 verdicts, 4 file contents, 3 queries, 1 foreign change; notes: 3 headings of 2 sources, 2 propositions, 4 commands, 1 failed write; points-to: 5 analyses of both families, 5 functions, 2 globals, 10 markers, 3 dumps, 3 queries, a table that grows at 3 entries; names: a module with globals, functions, constructors and structs whose names collide once stripped, and the look-ups of each name and id | `GraphExact`, `PatchFresh`, `AnswersExact`: what is built and answered is the graph; `CachesTrue`, `TestsExact`: caches, counts and sites are what analysis and module say; `NotesOrdered`, `TreeTrue`, `KeepsNotes`: the files implement `NoteBook` and `tv` is right; `PremisesNamed`: where the When lines of a note are not in each other's way, `-a` and `-r` change the premise that was named; `EveryQueryAnswered`; `IndexExact`: the tables hold what bears a name and the ids count the values in the order of the module; `LookupsTrue`: every look-up answers from that |
| `premises` (violation) | the notes of `session` | `PremisesAsNamed`: a premise added under one function is listed under another one, whose When line comes last in the block (`QueryInterface.cpp:957`; the help is at 439) |
| `batch` | both programs, 3 items and 1 left out, 2 workers, `compile.py` with 2 timeout steps, 8 scenarios of ends for the dumps, both formats | one right verdict per item, no orphans, `run()` ends; `RunSummed`: tables, counts and status tell one story; `VerdictsTrue` |
| `batch_retry` (violation) | `compile.py` | a timed-out command is not run again: `TaskResult` names the bare source (`compile.py:155`), the retry fails on unpacking it |
| `dump_verdict` (violation) | `runTestForDump.py`, counts on three lines | a dump that was counted by a backend that ended well is filed as an error of the query phase |

`CHECK_DEADLOCK FALSE` everywhere: programs end, sessions and executions are
bounded, and a backend that nobody asks waits.

**Bounds, and why they suffice.**  `MaxRequests`, `MaxNoise`, `StartLines`
bound counters that the code does not: two requests can meet each other and the
timer; the startup line and the log lines suffice to fill a pipe of capacity 1, to strand one line
per drain thread and to have one more.  A pipe of capacity 1 is the tightest;
larger ones only permit fewer blocked states.  `MaxPush = 4` with
`BufferSize = 2` consumes the buffer twice and leaves partly filled buffers at
the end; the mode `bb` is off, so `dump()` passes over a file, and the recorder of blocks
is the one of calls, which is on (the theorems cover every set of modes).  Where a signal
meets a hook call or a file does not open, the run follows only programs that push
entries of functions (`OnlyEntriesInTrouble`): no property that speaks of these
executions depends on what the records say, and the theorems have no such bound.  `MaxEvents = 5` and `MaxDepth = 3` allow recursion, a silent unwinding
below it and reuse of an address; a scope left open below whose objects a later
landing pad unwinds takes nine events, which only the theorems cover.  Arrays of two
elements of two bytes are where number, size of an element and size differ.  `MaxSeen = 7` with windows of 2 over 3 items
sees windows again after the pool has grown by others.  `MaxQueries = 3` is a
failed build, a change or a reload, and a rebuilt graph that is asked; the
fourth query would find nothing else (state between queries is the graph, the
reverse graph, the patch and the silence flag).  `Depths = {1, 2}` cuts the
diamond above and below its join.  `MaxNotes = 4` is a conjecture with a premise,
its proof, and one more command on another record; three headings make a search
with a middle, two sources compete for a file name, and one lost file is found
and filled again.  `MaxAsked = 3` lets a query fail half-way, another one find
its remains, and a third ask in the other way; sets of one element are inline
(`Inline = 1`) and the third entry moves the table (`GrowAt = {3}`), which is where a
view is held.  Three items with two workers keep one waiting, two steps retry
once.  The session has about 214 000 states, `hook_memory`
1.8 million, `hook_runtime` 1.0 million, the batch about 26 000.

**Fairness.**  Weak fairness for each thread of the server, the drains, the
timer and the backend's steps, because the operating system schedules them and
nothing disables them; none that the backend logs or dies.  Strong fairness for
acquiring `self.lock`: Python's lock is not fair by itself, but the timer takes
it for an instant every interval and two clients alternate, so nobody is
overtaken for ever.  That the backend answers a line that it accepted is assumed
(a pointer analysis that diverges is no matter of the protocol).  The session
needs weak fairness of the graph's computation only; nobody has to ask or edit.  The
batch needs weak fairness of the main thread (with `on_result` and the summary) and
of pool threads, which includes that a running timeout expires; **no** command
has to end by itself.

## 4. What is proved

Every theorem holds for all values of the constants that satisfy the `ASSUME`s
of the module (`QueryServerAssumption`, `PtaHookAssumption`, …: kinds of values
only, sizes positive where the code has an array), and every `ASSUME` is
evaluated by a run.

* **QueryServerProofs.**  `TypeCorrect`.  `MutualExclusion`, `TimerRetires`,
  `StrandedBounded` from `LockInv`: who is inside the critical section owns the
  lock; the timer prints only under the lock and only before the first query; so
  only the two unlocked reads of `has_queried` can be stale, once each.
  `ErrorsAreFinal` from `EndInv`, strengthened by "the end mark is in the queue only
  after the backend's end": a call raises because it saw the mark or the exit code.
  `NothingLeftOver` (`QuietBetweenQueries`) and `AnswersAreOwn` (`AnswersOwnLines`)
  from `FlowInv`, the invariant that connects a result with its line although
  nothing in the program does.  All output in flight, from the queue through the
  drain thread and the pipe to the backend's buffer, is one sequence `F`; of the
  lines `S` the call has written the backend has read the first `k`, and the call has
  taken what belongs to the first `r`.  Each line of `F` has a place in `S`
  (`Placed`: in order, past `r`, not past `k`, never over an accepted line that has no
  closed result before it); while the backend lives no accepted line is missing
  (`Entire`); a result is in one piece, cut only by the end of the output
  (`Unbroken`); the first line is one that the state of `_read_result` expects
  (`Expected`); and the results taken are as many as the accepted lines up to `r`
  (`Collected`).  When nobody calls, only log lines are left (`QuietOK`), which is
  why the next call may start with `r = 0`.
  `RefinesSerialQuery` (`ServesSerially`): every step of the server is a step of
  `SerialQuery` or changes nothing of it.  A request is `Ask`, taking the lock `Begin`, a written
  line `Hand`, the tag that closes a result `Receive`, or `Succeed` if it was the last;
  an end mark, an exit code or a broken pipe `Fail`; the backend's end `GoDown`.
  `Placed` gives the line that `Receive` has to name.
* **WindowTraceProofs.**  `CoverAddsWindow`: covering an item
  keeps a recorder sound and adds exactly one window, for every window length.
  The recorder appends first and truncates if an equal window exists; the lemmas
  about slices of a sequence that is cut or extended are stated once.
  `CoverKeepsWindows`: no entry of the hash set changes its hash.
  `PoolAlwaysSound`, `DumpExact` follow with the invariant that
  the recent slice is the end of what was seen (`Recorded`, kept by `OneMoreRecorded`
  for any recorder and any items, so `PtaHookProofs` cites it for both of the hook's).
* **HookMemoryProofs.**  `ScopesAreKept`: an entry grows both stacks at one
  place and a landing pad cuts both at one place, never below the scope of its call,
  since a later scope of the same function can only lie above it (`KeptIs`,
  `ScopesGrow`, `ScopesCut`).  `TablesStayOK` adds that slices lie in the pool and
  start in the order of their scopes.  `ObjectsKnown` needs the strengthening
  `Spared`: no scope above the one of an object's call has the object's address in
  the *rest* of the pool from its start on (not only in its slice, whose end lags
  behind by one), so whichever of those scopes are closed, it stays; `Apart` and
  `Placed` say that objects do not share bases and that those of the heap are never in
  the pool.  `ProbesHold` follows: the greatest base up to an object's base is that base.
  `ConstructionsAreNested` (`ConstructionsNested`): what the loop over the types
  remembered at an address has kept is nested and larger than the new type, and larger
  than every type the loop has not looked at yet; the loop is a recursive function, so
  this is shown of its least counterexample.
* **PtaHookProofs.**  `BufferSafe` (`BufferInv`: between calls a slot of the
  buffer is free, and after the consumption it is empty).
  `FinishedFilesStay` (`FilesInv`: while dump runs `dumped` is set and no file
  from its cursor on is complete; before it runs, none is).  `EveryEndDumps`
  (`EndInv`: as long as no signal met a hook call, a dump that began is in progress
  or through with all files, and after the exit handler or a signal there is or
  will be one).  `TypeCorrect`.
  `RowsTrue` (`RowsHappened`) and `RuntimeReports` (`ReportsWhatWasPushed`: the runtime
  implements `HookTrace`) rest on `TablesInv`: the tables say exactly what some
  sequence `s` of records means (`TablesTrue`), and what was pushed is `s` followed by
  what is still in the buffer; so the consumption moves one record from the buffer
  to `s` and `dump()`, which finds the buffer empty, prints the meaning of all.  That
  one record more keeps the tables true (`TablesNext`) takes two halves.  One says
  what the code does: `ApplyIs`, from the switch of `stopAndConsume`, one mode's
  tables at a time.  The other says what one record more changes of the meaning:
  `HookTrace` picks blocks, entries and arguments from the sequence by position, and
  `PickedNext` says that picking goes on by appending (the recursive function in it
  exists by induction on the least length at which it would not, `PickedExists`);
  for objects, `RegionNext` and `LiveIs` say which registration is seen at an address
  after a registration or a free.  `BaseIs` joins the two: the base that the code
  finds is the highest live address not above, of which there is one since the live
  addresses, though perhaps below zero or without bound, always have a greatest among
  any of them (`PtrTrue`).  For the refinement `ReportInv` follows the files one by
  one: each that dump is through with holds all that was pushed, and the report of
  `HookTrace` appears with the last (`LastFile`).
  *Hypotheses.*  `PlainRecords` in both: blocks, entries, regions, frees, probes and
  arguments that are numbers, the records whose meaning `HookTrace` states.  What
  leaving a scope, landing pads, `alloca`s and constructors mean depends on the
  program's calls and is `HookMemory`'s subject.  `RowsTrue` allows signals at any
  moment and speaks of the runs in which none met a hook call, since after one that
  did, the handler consumes records a second time.  `RuntimeReports` speaks
  of a run up to the first such signal: `HookTrace` has no word for the rest.
* **CallGraphProofs.**  `TypeCorrect` needs that ranges lie in the pool and that
  a search has a frame.  `GraphCorrect`: while the graph is built, the ranges of
  the functions already done are exact up to a base and the edges from the base
  on are those of the call sites already visited (`Exact`, `HalfBuilt`); the
  patch is complete before the *first* function is, so no range mixes two patches
  (`ForwardInv`); and the lists of the reverse graph hold the edges turned round
  so far, each once (`ReverseInv`).  The two frame facts that carry the
  proof are that appending changes no slice below the base and that the pool is
  never touched while the reverse graph is not empty.  `PatchIsFresh` (`PatchFresh`):
  while a content is read, what is read of it grows by a pair of lines or a blank one
  (`Loading`, `ReadAs`); a reading that breaks off leaves the patch unloaded; and a
  patch that is complete stays until the next `cgreload`.
  `ReachCorrect` (`ReachExact`, what `AnswersExact` says of `reach`): the frames of the recursion are a chain of calls, and
  every edge of a visited function can be passed over or is still before one of
  that function's frames (`SearchOK`).  When the last frame is through, no edge is
  left, so the visited functions are closed; the function that was asked for may
  be on the stack twice, as the code does not mark it.
  `AnswersAreExact` (`AnswersExact`) adds the tree of `cg`.  `TreeInv` follows two
  counts of every function found: how many calls away it was found and how many of them
  were shown.  The queue is in the order of the first (`Ordered`), so an edge of a
  function that was taken from it leads to something found at most one call later
  (`Covered`); the second is at most the first and never less than the fewest shown
  calls (`Near`), which is why cutting by it loses nothing within the depth although a
  function is marked when it is found first, on whatever way.  The distances of the
  property are iterations over a set of calls, and as many as there are functions with
  a body suffice (`Saturated`: sets that grow until they stop).
* **BatchRunnerProofs.**  `TypeCorrect`.  `NoOrphansLeft` (`Orphanless`: a group has
  a running future, and queued or running futures exist only inside a step), with
  the counting that a thread starts only below `max_workers`.
  `EachItemReportedOnce` from `Ledger`: a source is at any moment awaited by a
  future, or kept for the next step or the report, or reported, and in exactly one of
  these ways unless an exception ends the batch; in the first two all its earlier
  runs are timeouts, one for each step.  `ClientsRun`: both programs are the
  runner with more variables, so the three theorems hold in them.
  `VerdictsHold` (`VerdictsTrue`): a row is only ever appended, with the verdict on a
  process that ended in one of the ways of `BackendEnds`, and `VerdictIsTrue` goes
  through these (what answers a query has said before that it is ready).
  `TablesSummed` (`RunSummed`) from `Books`: at any moment the progress and the counts
  of `compile.py` are those of the calls of `on_result`, the dumps with a row are those
  left out and those called for, each once, the other tables are those of the rows
  (`Agreed`), and an exit status is only set when nothing moves any more (`Settled`).
  A new row is of a source without one because `Ledger` holds after the step;
  at the end `Ledger` says that every source was called for.
* **InterfaceProofs.**  `IndexInvariant`: `IndexInv` says at every point of the loops
  what the tables hold: the ids given so far without a gap, each for one thing and
  values in the order of the module (`IdsExact`); where the loops are (`LoopOK`); that
  what the walk over the types of a value has visited and what is still on its stack
  cover all that the visited ones are made of (`WalkOK`); and the names of what is
  numbered, for the one in work those that the loop over namespaces has passed
  (`NamesOK`).  `IndexIsExact` follows: when a walk is through, what it has visited is
  closed under "is made of".  `LookupsAreTrue`: a list of entries has one id
  exactly if one thing bears a name of the prefix, for every module, every question
  and all positions of the switches.
  `NotesStayOrdered` (`NotesOrdered`): the binary search
  halves a range that contains the first heading not below the one it looks for
  (`LowerBoundIs`), so what is put there keeps the order (`RewrittenOK`); `NoteInv`
  adds that what is about to be written fits: no other file has its source.
  `TreeViewIsTrue` (`TreeTrue`): every premise that is read from a record is a
  proposition that can be asked for (`BodiesInv`), of which there are finitely many
  (`NotesAssumption`: names and propositions are finite); a call of the recursion has
  one more ancestor than its caller, so the recursion ends (`ResolveCalls`) and its
  answer is right by induction over the propositions that are not ancestors yet
  (`AllJudgedRight`: what it throws at, below an ancestor, is one that rests on itself).
  `NotesAreKept` (`KeepsNotes`): the files implement `NoteBook`.  A book has a block
  for each line that is not indented, the nth for the one with n of them up to it, so
  the blocks are read off an ascending list of those lines (`Lists`, `BlocksListed`).
  A line that is put in or taken out (`Put`) begins no block: all others keep what
  they list, provided that it lists a premise itself or stands last in its block
  (`PutPremises`); then it changes nothing (`PutQuiet`: the proof of `-p`, the text of
  `-c`, a When line without its own yet or any more) or one pair of one block
  (`PutChild`: `-a` and `-r`).  A new block is the
  last, without premises (`OneMoreBlock`); `-p` renames the first conjecture of the
  name (`RenamedBlocks`).  `RewrittenNoted`: a rewriting changes what is noted of its
  own heading only, `ExchangedRecs`: a write the records of one source only.
  `PendingInv` keeps, from the command to the end of its write, what the write is
  going to make of the record (`Allowed`), so that the step that completes it is one
  of the book (`CommandStep`), one that fails after the truncation is the loss of one
  source (`LostStep`), and all others leave the book (`QuietSteps`).
  `PremisesAreNamed` (`PremisesNamed`): which pair it is.  In a note whose When lines are
  not in each other's way the When line that is found is the conjecture's own, the last
  of its block, or a new one (`WhenUntangled`), so what is put in at the end of the
  block is listed under it (`AddedAsNamed`) and what is taken out was (`RemovedAsNamed`).
  The precondition is needed: without it the run `premises` finds a counterexample.
* **SessionProofs.**  `CachesHoldTheTruth`: an entry is what the analysis says.
  `CacheInv` adds that the list of things to do is *well founded*: whatever a
  step reads is cached already or looked up by an earlier step of the list
  (`ListOK`).  The plans of the queries have that property, a look-up that is
  not cached keeps it by putting its needs in front, and an exception empties the
  list.  With a unification-based analysis no view is ever held.
  `TestsAreRight` (`TestsExact`): the counts of `pts-test` and `test` are those of the
  analysis for every dump, module and history of the caches, and `-c` refuses a dump
  exactly if its two ways differ on an edge.  `CountInv` follows a test through the
  list: an edge or a check is *ahead* of exactly one item that leads to it, or is the
  one being judged, or is counted (`Counting`), so nothing is counted twice or left
  out although items are replaced by items and by look-ups that are replaced in
  turn; look-ups stay in front of the judgement and what is not begun behind it
  (`Shape`); and what a judgement reads is cached or looked up in front of it (`Fed`), so
  at the front of the list it is cached, and true by `CacheInv`.  An operand is
  compared with the last mark of its index by `MarkMeant`.  For the sites (`SitesExact`),
  the places that `computeAllocationSites` passes are numbered in their order
  (`SitesNumbered`) and the places of a function are a stretch of that order
  (`SitesOf`), which is why going on to the first site of another function finds
  all of them.  `FunctionsAssumption` (two functions differ in their names, as LLVM
  sees to) is needed here only.
  `SessionHasGraph`, `SessionHasNotes`, `SessionHasIndex`, `SessionCachesTrue`,
  `SessionTestsExact`: a session is a behaviour of each part, since a step of one is a
  stutter of the others.

**Model-checked only.**  Liveness (`DeathReleasesAll`, `EveryRequestReturns`,
`EveryQueryAnswered`, `RunEnds`) is out of the prover's reach.  Every other property
of a passing run is stated by a theorem.

## 5. What the models say about the code

The six violations above are recorded as findings.  Behaviour that the models
contain and a reader may not expect, without a document that says otherwise:

* `cgpatch` with a declared caller answers "ok" but its edge never shows: only
  functions with a body get a range.
* The first graph query throws while the patch file does not exist; a build
  that loaded the patch and failed later keeps that patch for the next
  build, until `cgreload`.
* `cg` follows a silenced function at no cost but does not link its callees to the
  tree, so what is only reachable through it is computed and not printed.  The
  printed tree may nest deeper than the asked depth (a function printed again
  below another one).
* The runtime is ready for `ENDSCOPE`, which the instrumenter never pushes.  A
  program that did push it could still leave a scope open: an exception that an older
  activation of a recursive function catches stops at the scope of the youngest
  (`PointerSymbolTable.cpp:252`).  Objects that the older one makes from then on are
  registered with that scope and forgotten with it, although they exist.
* A signal during `dump()` finds `dumped` set (`PointerSymbolTable.cpp:292`): its
  handler flushes nothing more and exits, and the file that was open stays
  unfinished.
* `-r` has the same search as `-a` (run `premises`): it looks for the When line in all of
  the record behind the conjecture (`QueryInterface.cpp:977`), so it may take a premise
  of a later proposition away, a theorem's too, although theorems are refused by name.
* `getCtorStructType` takes the first sized struct with an entry that begins with the
  class's name, also where only the part behind a namespace does
  (`IRManager.cpp:535`), so the constructor of `Foo` may get the struct `ns::Foo`;
  `IRManager.h:128` promises the constructor's own.  `CtorStruct` does what the code does;
  no property says that its struct is the right one.
* A constructor whose class has no known struct type is registered with size 0
  (`instrument.cpp:145`): what is remembered at its address stays, and the 0 goes below
  every type there (`ConsEvent`).
* A note file is truncated before it is written (`QueryInterface.cpp:1021`): a crash
  in between leaves an empty file that names no source; the next note of that
  source starts another one.
* `tv` on the heading of a struct type throws: headings are read back with
  `getGlobal`, which does not find types (`QueryInterface.cpp:1058`).
* `callin <vid> i` is always rejected (`QueryInterface.cpp:685` asks whether the second
  operand is left over instead of a third), although the help has the flag (line 450).
* A premise that is the name of a local value is stored, and makes `tv` throw.
* While the first of two points-to sets is held, looking up the second may grow
  the map that owns it (`PAWrapper.cpp:684`); what is then read is undefined.
  Which look-up comes first is the compiler's choice.
* A backend whose input has ended handles one more, empty query
  (`PAWrapper.cpp:655`), so every session of the dump runner ends with an error
  block, whose name is what `classify_error` finds when no other is there.
* One command that cannot be started, or prints bytes that are no text, ends
  the whole batch after the running items.
* After the kill of its group a pool thread waits without a limit; a
  descendant that left the group and holds the pipe would keep it.
* `_allocSitesComputed` has no initialiser; the drivers value-initialise their
  wrapper (`XServer().run`), so it is false.

## 6. What is not modelled

*No property.*  `CachesTrue` and `TestsExact` say nothing of pairs read while a view was
freed (`misread`), and `RowsHappened` nothing of runs in which a signal met a hook call:
the first is undefined in the code and the second is what it does there, so neither
property would notice if these hazards got worse.

*In the modelled parts.*  The shutdown by Ctrl-C, port binding and HTTP parsing;
query lines that contain the protocol's tags; a signal inside one map operation
or between the reservation and the store of a buffer slot; instrumented programs
with threads; the environment variables of the hook; a patch file without a
final newline, or changed under its reader; callees that `llvmSkip` drops; the filter of `printCallEdge`;
`getOutEdgesAtCallSite`, which nothing calls; the templates and the up-to-date check
of `compile.py`; the order in which the pool takes queued items (any).  A
note file that is written in part (the model has all of it or nothing), note texts
that begin like a heading or a proposition, the printing of `note` and `tv`; the
`alias-set` query, which no wrapper answers from a cache; that a check of `test` for
reachability builds the graph if no query did and throws as any other does (its answer
is constant, and the properties speak of tests that ended well); how an analysis computes
its answers; the printing of values and types and the debug information of the IR
manager.

*Parts, and why.*  The tokenizer, `encode` and the wording of answers are functions
of one line without state.  `runTest.py` runs one query after the other and
compares text.  The LLM search is a sequential loop whose next step is a
language model's choice.  The command line is one pass over the
arguments, against options that LLVM declares.  The LLVM helpers classify IR by
names and types that LLVM defines; drivers are adapters over external analyses;
tools convert files once.

## 7. Plan

1. *Done*: query server with its refinement, hook runtime, tables and recorder with
   refinement, call graph, caches, notes and names in one session, batch runner and
   its two programs; proofs of each, the refinements included.
2. *Left, models.*  `RecordStream`: the order in which the instrumenter emits the
   records of one function (a probe of a returned heap pointer comes before the
   object is registered), in front of `HookMemory` and `PtaHook`.  The budget and
   the best candidate of the LLM search; the tokenizer's round trip.
