----------------------------- MODULE QueryServer -----------------------------
(***************************************************************************)
(* python/server.py in front of one analysis backend (the query loop of    *)
(* src/common/PAWrapper.cpp).                                              *)
(*                                                                         *)
(* Actors, each an independent thread or process:                          *)
(*   "http"    the single-threaded HTTPServer (do_POST)                    *)
(*   "console" the console_loop thread                                     *)
(*   "timer"   the chain of startup timers                                 *)
(*   "out"     the thread that drains the backend's stdout                 *)
(*   "err"     the thread that drains the backend's stderr                 *)
(*   the backend process, and the kernel that tears it down.               *)
(*                                                                         *)
(* A pipe carries lines; a line is known by what server.py looks for in it *)
(* (a tag) and by the query line it answers.  The text of a log line never *)
(* matters, except that query() may send it to the backend: it is LogText. *)
(***************************************************************************)
EXTENDS Integers, Sequences

CONSTANTS
  Lines,        \* the query lines clients type
  LogText,      \* any line of output outside a result, used as a query
  ErrLines,     \* the lines the backend answers with <queryerror>
  HttpRequests, \* the bodies a POST may carry: non-empty sequences of lines
  MaxRequests,  \* bound: requests each client makes
  StartLines,   \* lines the backend prints before its first query
  MaxNoise,     \* bound: lines the backend writes to stderr
  PipeCap,      \* lines a pipe of the operating system holds
  MayExit       \* TRUE when the backend may die

ASSUME QueryServerAssumption ==
  /\ LogText \notin Lines
  /\ ErrLines \subseteq Lines \union {LogText}
  /\ HttpRequests \subseteq Seq(Lines) \ {<<>>}
  /\ MaxRequests \in Nat
  /\ StartLines \in Nat
  /\ MaxNoise \in Nat
  /\ PipeCap \in Nat \ {0}
  /\ MayExit \in BOOLEAN

VARIABLES
  lock,           \* owner of self.lock
  hasQueried,     \* self.has_queried
  startupTimer,   \* the current link of the timer chain
  nonResult,      \* length of non_result_queue (every entry is a LogText)
  stdoutQueue,    \* stdout_queue
  drain,          \* control point of the two drain threads
  drainInResult,  \* in_result of _drain_stdout
  pc,             \* control point of the clients inside query()
  asked,          \* the lines of the client's current request
  text,           \* what query() has still to write
  sent,           \* what query() has written for this request
  inResult,       \* in_result of _read_result
  payload,        \* payload of _read_result
  got,            \* the results collected so far
  reply,          \* how the last request of the client ended
  requests,       \* requests made so far by each client
  backend,        \* life of the backend process
  stdin,          \* pipe: server to backend
  outbuf,         \* the backend's buffered std::cout
  stdout,         \* pipe: backend to the "out" drain thread
  errbuf,         \* lines the backend is about to write to stderr: 0 or 1
  stderr,         \* pipe: backend to the "err" drain thread, lines in it
  noise           \* stderr lines so far

clientVars  == <<pc, asked, text, sent, inResult, payload, got, reply, requests>>
drainVars   == <<drain, drainInResult>>
backendVars == <<backend, stdin, outbuf, stdout, errbuf, stderr, noise>>
vars == <<lock, hasQueried, startupTimer, nonResult, stdoutQueue,
          clientVars, drainVars, backendVars>>

Clients == {"http", "console"}
Drains  == {"out", "err"}
NoOwner == "nobody"

Inputs == Lines \union {LogText}
Tags   == {"log", "open", "body", "close", "eof"}
OutLine == [tag : Tags, of : Inputs]
Printed == [tag : Tags \ {"eof"}, of : Inputs]
Out(t, x) == [tag |-> t, of |-> x]
EndOfOutput == Out("eof", LogText)         \* the None of _drain_stdout

(***************************************************************************)
(* What queryLoop prints for one input line: the echo, then the result or  *)
(* the error block.  The three lines of an error block count as one "log"  *)
(* line: the server recognises none of them.  (No query line contains a    *)
(* tag.)                                                                   *)
(***************************************************************************)
Echo(x)  == Out("log", x)
Block(x) == IF x \in ErrLines
            THEN <<Echo(x), Out("log", x)>>
            ELSE <<Echo(x), Out("open", x), Out("body", x), Out("close", x)>>

\* Mutant: a result starts at any line.
StartsAnywhere(l) == TRUE

\* The start tag, as both readers of stdout look for it.
HasStartTag(l) == l.tag = "open"

Alive    == backend \in {"starting", "loop", "failing"}
Critical == {"clear", "write", "read"}     \* inside "with self.lock"

\* __init__ and main: the threads run, the first timer is armed.
Init ==
  /\ lock = NoOwner
  /\ hasQueried = FALSE
  /\ startupTimer = "armed"
  /\ nonResult = 0
  /\ stdoutQueue = <<>>
  /\ drain = [d \in Drains |-> "read"]
  /\ drainInResult = FALSE
  /\ pc = [c \in Clients |-> "idle"]
  /\ asked = [c \in Clients |-> <<>>]
  /\ text = [c \in Clients |-> <<>>]
  /\ sent = [c \in Clients |-> <<>>]
  /\ inResult = [c \in Clients |-> FALSE]
  /\ payload = [c \in Clients |-> <<>>]
  /\ got = [c \in Clients |-> <<>>]
  /\ reply = [c \in Clients |-> "none"]
  /\ requests = [c \in Clients |-> 0]
  /\ backend = "starting"
  /\ stdin = <<>>
  /\ outbuf = <<>>
  /\ stdout = <<>>
  /\ errbuf = 0
  /\ stderr = 0
  /\ noise = 0

-----------------------------------------------------------------------------
(* The clients. *)

\* do_POST after its checks (trailing blank lines popped, at least one line
\* left), or console_loop with a non-blank line: the call of query().
Submit(c) ==
  /\ pc[c] = "idle"
  /\ requests[c] < MaxRequests
  /\ requests' = [requests EXCEPT ![c] = @ + 1]
  /\ \E r \in (IF c = "http" THEN HttpRequests ELSE {<<x>> : x \in Lines}) :
       asked' = [asked EXCEPT ![c] = r]
  /\ pc' = [pc EXCEPT ![c] = "lock"]
  /\ sent' = [sent EXCEPT ![c] = <<>>]
  /\ got' = [got EXCEPT ![c] = <<>>]
  /\ reply' = [reply EXCEPT ![c] = "none"]
  /\ UNCHANGED <<lock, hasQueried, startupTimer, nonResult, stdoutQueue, text,
                 inResult, payload, drainVars, backendVars>>

\* Mutant: query() without "with self.lock".
AcquireUnlocked(c) ==
  /\ pc[c] = "lock"
  /\ lock' = c
  /\ hasQueried' = TRUE
  /\ startupTimer' = IF startupTimer = "armed" THEN "off" ELSE startupTimer
  /\ text' = [text EXCEPT ![c] = asked[c]]
  /\ pc' = [pc EXCEPT ![c] = "clear"]
  /\ UNCHANGED <<nonResult, stdoutQueue, asked, sent, inResult, payload, got, reply,
                 requests, drainVars, backendVars>>

\* query(): take the lock, set has_queried, cancel the startup timer.  A timer
\* that has fired already is past cancelling.
Acquire(c) ==
  /\ pc[c] = "lock"
  /\ lock = NoOwner
  /\ lock' = c
  /\ hasQueried' = TRUE
  /\ startupTimer' = IF startupTimer = "armed" THEN "off" ELSE startupTimer
  /\ text' = [text EXCEPT ![c] = asked[c]]
  /\ pc' = [pc EXCEPT ![c] = "clear"]
  /\ UNCHANGED <<nonResult, stdoutQueue, asked, sent, inResult, payload, got, reply,
                 requests, drainVars, backendVars>>

\* query(): one turn of the loop that prints what is left in non_result_queue.
\* The loop's variable is the parameter that holds the query.
ClearNonResult(c) ==
  /\ pc[c] = "clear"
  /\ nonResult > 0
  /\ nonResult' = nonResult - 1
  /\ text' = [text EXCEPT ![c] = <<LogText>>]
  /\ UNCHANGED <<lock, hasQueried, startupTimer, stdoutQueue, pc, asked, sent,
                 inResult, payload, got, reply, requests, drainVars, backendVars>>

\* The call ends: the lock is released and the caller told how it went.
Return(c, how) ==
  /\ pc' = [pc EXCEPT ![c] = "idle"]
  /\ lock' = NoOwner
  /\ reply' = [reply EXCEPT ![c] = how]

\* query(): the queue is empty; poll() decides whether to go on.
PollBackend(c) ==
  /\ pc[c] = "clear"
  /\ nonResult = 0
  /\ \/ /\ backend = "reaped"
        /\ Return(c, "error")
     \/ /\ backend # "reaped"
        /\ pc' = [pc EXCEPT ![c] = "write"]
        /\ UNCHANGED <<lock, reply>>
  /\ UNCHANGED <<hasQueried, startupTimer, nonResult, stdoutQueue, asked, text, sent,
                 inResult, payload, got, requests, drainVars, backendVars>>

\* query(): write and flush, one line at a time (the pipe may fill up).
WriteLine(c) ==
  /\ pc[c] = "write"
  /\ text[c] # <<>>
  /\ Alive
  /\ Len(stdin) < PipeCap
  /\ stdin' = Append(stdin, Head(text[c]))
  /\ sent' = [sent EXCEPT ![c] = Append(@, Head(text[c]))]
  /\ text' = [text EXCEPT ![c] = Tail(@)]
  /\ pc' = [pc EXCEPT ![c] = IF Len(text[c]) = 1 THEN "read" ELSE "write"]
  /\ inResult' = [inResult EXCEPT ![c] = FALSE]
  /\ payload' = [payload EXCEPT ![c] = <<>>]
  /\ UNCHANGED <<lock, hasQueried, startupTimer, nonResult, stdoutQueue, asked, got,
                 reply, requests, drainVars, backend, outbuf, stdout, errbuf, stderr, noise>>

\* Mutant: a pipe that is full for the moment counts as broken.
WriteFailsWhenFull(c) ==
  /\ pc[c] = "write"
  /\ Len(stdin) = PipeCap \/ ~Alive
  /\ Return(c, "error")
  /\ UNCHANGED <<hasQueried, startupTimer, nonResult, stdoutQueue, asked, text, sent,
                 inResult, payload, got, requests, drainVars, backendVars>>

\* query(): the pipe has no reader any more (BrokenPipeError).
WriteFails(c) ==
  /\ pc[c] = "write"
  /\ ~Alive
  /\ Return(c, "error")
  /\ UNCHANGED <<hasQueried, startupTimer, nonResult, stdoutQueue, asked, text, sent,
                 inResult, payload, got, requests, drainVars, backendVars>>

\* Mutant: the parameter count left at its default.
WantedDefault(c) == 1

\* The results the call waits for: one for each line of the request.
Wanted(c) == Len(asked[c])

\* _read_result: take the next line of stdout_queue and look at it.
ReadLine(c) ==
  /\ pc[c] = "read"
  /\ stdoutQueue # <<>>
  /\ stdoutQueue' = Tail(stdoutQueue)
  /\ LET l == Head(stdoutQueue) IN
     \/ /\ l.tag = "eof"
        /\ Return(c, "error")
        /\ UNCHANGED <<inResult, payload, got>>
     \/ /\ l.tag # "eof" /\ ~inResult[c]
        /\ inResult' = [inResult EXCEPT ![c] = HasStartTag(l)]
        /\ UNCHANGED <<payload, got, pc, lock, reply>>
     \/ /\ l.tag \notin {"eof", "close"} /\ inResult[c]
        /\ payload' = [payload EXCEPT ![c] = Append(@, l)]
        /\ UNCHANGED <<inResult, got, pc, lock, reply>>
     \/ /\ l.tag = "close" /\ inResult[c]
        /\ inResult' = [inResult EXCEPT ![c] = FALSE]
        /\ payload' = [payload EXCEPT ![c] = <<>>]
        /\ got' = [got EXCEPT ![c] = Append(@, payload[c])]
        /\ IF Len(got[c]) + 1 = Wanted(c)
           THEN Return(c, "ok")
           ELSE UNCHANGED <<pc, lock, reply>>
  /\ UNCHANGED <<hasQueried, startupTimer, nonResult, asked, text, sent, requests,
                 drainVars, backendVars>>

-----------------------------------------------------------------------------
(* The startup timer: at every moment one link of the chain exists at most. *)

\* 0.2 seconds have passed: the callback starts and asks for the lock.
TimerFire ==
  /\ startupTimer = "armed"
  /\ startupTimer' = "fired"
  /\ UNCHANGED <<lock, hasQueried, nonResult, stdoutQueue, clientVars, drainVars,
                 backendVars>>

\* Mutant: the callback does not look at has_queried.
TimerEnterUnchecked ==
  /\ startupTimer = "fired"
  /\ lock = NoOwner
  /\ startupTimer' = "printing"
  /\ lock' = "timer"
  /\ UNCHANGED <<hasQueried, nonResult, stdoutQueue, clientVars, drainVars, backendVars>>

\* _startup_timer_loop gets the lock and looks at has_queried.
TimerEnter ==
  /\ startupTimer = "fired"
  /\ lock = NoOwner
  /\ \/ /\ hasQueried
        /\ startupTimer' = "off"
        /\ UNCHANGED lock
     \/ /\ ~hasQueried
        /\ startupTimer' = "printing"
        /\ lock' = "timer"
  /\ UNCHANGED <<hasQueried, nonResult, stdoutQueue, clientVars, drainVars, backendVars>>

\* Mutant: get_nowait without the test for an empty queue.
TimerPrintUnguarded ==
  /\ startupTimer = "printing"
  /\ nonResult' = nonResult - 1
  /\ UNCHANGED <<lock, hasQueried, startupTimer, stdoutQueue, clientVars, drainVars,
                 backendVars>>

\* The callback prints a line, with the lock held.
TimerPrint ==
  /\ startupTimer = "printing"
  /\ nonResult > 0
  /\ nonResult' = nonResult - 1
  /\ UNCHANGED <<lock, hasQueried, startupTimer, stdoutQueue, clientVars, drainVars,
                 backendVars>>

\* Nothing left to print: start the next timer, release the lock.
TimerRearm ==
  /\ startupTimer = "printing"
  /\ nonResult = 0
  /\ startupTimer' = "armed"
  /\ lock' = NoOwner
  /\ UNCHANGED <<hasQueried, nonResult, stdoutQueue, clientVars, drainVars, backendVars>>

-----------------------------------------------------------------------------
(* The drain threads. *)

\* What _drain_stdout shows in red: a line outside a result, the text before an
\* inline start tag, and what follows an end tag (at least the end of its line).
IsRed(l) == IF drainInResult THEN l.tag = "close" ELSE l.tag # "open"

\* _drain_stdout: pass the line on, then give its red part to _queue_red.
DrainStdout ==
  /\ drain["out"] = "read"
  /\ stdout # <<>>
  /\ LET l == Head(stdout) IN
     /\ stdout' = Tail(stdout)
     /\ stdoutQueue' = Append(stdoutQueue, l)
     /\ drainInResult' = IF drainInResult THEN l.tag # "close" ELSE HasStartTag(l)
     /\ drain' = [drain EXCEPT !["out"] = IF IsRed(l) THEN "red" ELSE "read"]
  /\ UNCHANGED <<lock, hasQueried, startupTimer, nonResult, clientVars, backend, stdin,
                 outbuf, errbuf, stderr, noise>>

\* Mutant: nobody is told of the end of the output.
DrainStdoutEndSilently ==
  /\ drain["out"] = "read"
  /\ stdout = <<>>
  /\ backend \in {"closed", "reaped"}
  /\ drain' = [drain EXCEPT !["out"] = "done"]
  /\ UNCHANGED <<lock, hasQueried, startupTimer, nonResult, stdoutQueue, clientVars,
                 drainInResult, backendVars>>

\* _drain_stdout: end of the pipe.
DrainStdoutEnd ==
  /\ drain["out"] = "read"
  /\ stdout = <<>>
  /\ backend \in {"closed", "reaped"}
  /\ stdoutQueue' = Append(stdoutQueue, EndOfOutput)
  /\ drain' = [drain EXCEPT !["out"] = "done"]
  /\ UNCHANGED <<lock, hasQueried, startupTimer, nonResult, clientVars, drainInResult,
                 backendVars>>

\* Mutant: stderr is looked at only when the backend has ended.
DrainStderrAtEnd ==
  /\ drain["err"] = "read"
  /\ backend \in {"closed", "reaped"}
  /\ stderr' = 0
  /\ drain' = [drain EXCEPT !["err"] = "done"]
  /\ UNCHANGED <<lock, hasQueried, startupTimer, nonResult, stdoutQueue, clientVars,
                 drainInResult, backend, stdin, outbuf, stdout, errbuf, noise>>

\* _drain_stderr: every line goes to _queue_red.
DrainStderr ==
  /\ drain["err"] = "read"
  /\ \/ /\ stderr > 0
        /\ stderr' = stderr - 1
        /\ drain' = [drain EXCEPT !["err"] = "red"]
     \/ /\ stderr = 0
        /\ backend \in {"closed", "reaped"}
        /\ drain' = [drain EXCEPT !["err"] = "done"]
        /\ UNCHANGED stderr
  /\ UNCHANGED <<lock, hasQueried, startupTimer, nonResult, stdoutQueue, clientVars,
                 drainInResult, backend, stdin, outbuf, stdout, errbuf,
                 noise>>

\* Mutant: every red line is queued, also after the first query.
RedCheckNever(d) ==
  /\ drain[d] = "red"
  /\ drain' = [drain EXCEPT ![d] = "put"]
  /\ UNCHANGED <<lock, hasQueried, startupTimer, nonResult, stdoutQueue, clientVars,
                 drainInResult, backendVars>>

\* _queue_red reads has_queried, without the lock: print now, or queue.
RedCheck(d) ==
  /\ drain[d] = "red"
  /\ drain' = [drain EXCEPT ![d] = IF hasQueried THEN "read" ELSE "put"]
  /\ UNCHANGED <<lock, hasQueried, startupTimer, nonResult, stdoutQueue, clientVars,
                 drainInResult, backendVars>>

\* _queue_red puts the line on non_result_queue.
RedPut(d) ==
  /\ drain[d] = "put"
  /\ nonResult' = nonResult + 1
  /\ drain' = [drain EXCEPT ![d] = "read"]
  /\ UNCHANGED <<lock, hasQueried, startupTimer, stdoutQueue, clientVars,
                 drainInResult, backendVars>>

-----------------------------------------------------------------------------
(* The backend process. *)

\* run(): initialisation succeeds (emitInit) or fails (emitInitError).
BackendInit ==
  /\ backend = "starting"
  /\ errbuf = 0
  /\ \/ /\ backend' = "loop"
        /\ outbuf' = [i \in 1..StartLines |-> Out("log", LogText)]
     \/ /\ MayExit
        /\ backend' = "failing"
        /\ outbuf' = <<Out("log", LogText)>>
  /\ UNCHANGED <<lock, hasQueried, startupTimer, nonResult, stdoutQueue, clientVars,
                 drainVars, stdin, stdout, errbuf, stderr, noise>>

\* std::cout reaches the pipe: std::cin is tied to it, so the whole buffer is
\* out before getline reads, and a full pipe makes the backend wait.
BackendFlush ==
  /\ Alive
  /\ errbuf = 0
  /\ outbuf # <<>>
  /\ Len(stdout) < PipeCap
  /\ stdout' = Append(stdout, Head(outbuf))
  /\ outbuf' = Tail(outbuf)
  /\ UNCHANGED <<lock, hasQueried, startupTimer, nonResult, stdoutQueue, clientVars,
                 drainVars, backend, stdin, errbuf, stderr, noise>>

\* queryLoop: read a line, handle it, print the block.
BackendQuery ==
  /\ backend = "loop"
  /\ errbuf = 0
  /\ outbuf = <<>>
  /\ stdin # <<>>
  /\ outbuf' = Block(Head(stdin))
  /\ stdin' = Tail(stdin)
  /\ UNCHANGED <<lock, hasQueried, startupTimer, nonResult, stdoutQueue, clientVars,
                 drainVars, backend, stdout, errbuf, stderr, noise>>

\* A log line for stderr (llvm::errs(), the analysis' own messages)...
BackendNoise ==
  /\ backend \in {"starting", "loop"}
  /\ errbuf = 0
  /\ noise < MaxNoise
  /\ noise' = noise + 1
  /\ errbuf' = 1
  /\ UNCHANGED <<lock, hasQueried, startupTimer, nonResult, stdoutQueue, clientVars,
                 drainVars, backend, stdin, outbuf, stdout, stderr>>

\* ... which is not buffered: the backend does nothing else until it is out.
BackendWriteErr ==
  /\ Alive
  /\ errbuf > 0
  /\ stderr < PipeCap
  /\ errbuf' = errbuf - 1
  /\ stderr' = stderr + 1
  /\ UNCHANGED <<lock, hasQueried, startupTimer, nonResult, stdoutQueue, clientVars,
                 drainVars, backend, stdin, outbuf, stdout, noise>>

\* The process dies (a signal, std::terminate) and loses its buffers, or run()
\* returns 1 after emitInitError.  The kernel closes descriptor 0 first.
BackendExit ==
  /\ \/ MayExit /\ backend \in {"starting", "loop"}
     \/ backend = "failing" /\ outbuf = <<>>
  /\ backend' = "closing"
  /\ stdin' = <<>>
  /\ outbuf' = <<>>
  /\ errbuf' = 0
  /\ UNCHANGED <<lock, hasQueried, startupTimer, nonResult, stdoutQueue, clientVars,
                 drainVars, stdout, stderr, noise>>

\* Then descriptors 1 and 2, then the exit status becomes visible to poll().
BackendTeardown ==
  /\ \/ backend = "closing" /\ backend' = "closed"
     \/ backend = "closed" /\ backend' = "reaped"
  /\ UNCHANGED <<lock, hasQueried, startupTimer, nonResult, stdoutQueue, clientVars,
                 drainVars, stdin, outbuf, stdout, errbuf, stderr, noise>>

-----------------------------------------------------------------------------

ClientStep(c) ==
  \/ Submit(c) \/ Acquire(c) \/ ClearNonResult(c) \/ PollBackend(c)
  \/ WriteLine(c) \/ WriteFails(c) \/ ReadLine(c)
Timer   == TimerFire \/ TimerEnter \/ TimerPrint \/ TimerRearm
Drain   == DrainStdout \/ DrainStdoutEnd \/ DrainStderr
           \/ \E d \in Drains : RedCheck(d) \/ RedPut(d)
Backend == BackendInit \/ BackendFlush \/ BackendQuery \/ BackendNoise
           \/ BackendWriteErr \/ BackendExit \/ BackendTeardown

Next == (\E c \in Clients : ClientStep(c)) \/ Timer \/ Drain \/ Backend

Spec == Init /\ [][Next]_vars

(***************************************************************************)
(* Fairness.  Every thread that can run is scheduled (weak fairness); the  *)
(* analysis of one query ends; a client that waits for the lock while the  *)
(* timer chain takes it for an instant every 0.2 s gets it in the end      *)
(* (strong fairness of Acquire).  No client must ask, no backend must      *)
(* write logs or die.                                                      *)
(***************************************************************************)
Fairness ==
  /\ \A c \in Clients :
       /\ SF_vars(Acquire(c))
       /\ WF_vars(ClearNonResult(c) \/ PollBackend(c) \/ WriteLine(c)
                  \/ WriteFails(c) \/ ReadLine(c))
  /\ WF_vars(TimerFire) /\ WF_vars(TimerEnter) /\ WF_vars(TimerPrint \/ TimerRearm)
  /\ WF_vars(DrainStdout \/ DrainStdoutEnd) /\ WF_vars(DrainStderr)
  /\ \A d \in Drains : WF_vars(RedCheck(d) \/ RedPut(d))
  /\ WF_vars(BackendInit) /\ WF_vars(BackendFlush) /\ WF_vars(BackendQuery)
  /\ WF_vars(BackendWriteErr) /\ WF_vars(BackendTeardown)
  /\ WF_vars(backend = "failing" /\ BackendExit)

FairSpec == Spec /\ Fairness

-----------------------------------------------------------------------------
(* Properties. *)

ServerType ==
  /\ lock \in Clients \union {"timer", NoOwner}
  /\ hasQueried \in BOOLEAN
  /\ startupTimer \in {"armed", "fired", "printing", "off"}
  /\ nonResult \in Nat
  /\ stdoutQueue \in Seq(OutLine)
  /\ drain \in [Drains -> {"read", "red", "put", "done"}]
  /\ drainInResult \in BOOLEAN

ClientType ==
  /\ pc \in [Clients -> {"idle", "lock"} \union Critical]
  /\ asked \in [Clients -> Seq(Lines)]
  /\ text \in [Clients -> Seq(Inputs)]
  /\ sent \in [Clients -> Seq(Inputs)]
  /\ inResult \in [Clients -> BOOLEAN]
  /\ payload \in [Clients -> Seq(OutLine)]
  /\ got \in [Clients -> Seq(Seq(OutLine))]
  /\ reply \in [Clients -> {"none", "ok", "error"}]
  /\ requests \in [Clients -> 0..MaxRequests]

BackendType ==
  /\ backend \in {"starting", "failing", "loop", "closing", "closed", "reaped"}
  /\ stdin \in Seq(Inputs)
  /\ outbuf \in Seq(Printed)
  /\ stdout \in Seq(Printed)
  /\ errbuf \in {0, 1}
  /\ stderr \in Nat
  /\ noise \in 0..MaxNoise

(***************************************************************************)
(* The values the variables take: only the drain thread puts an end mark   *)
(* on stdout_queue, and no counter leaves its range.                       *)
(***************************************************************************)
TypeOK == ServerType /\ ClientType /\ BackendType

(***************************************************************************)
(* Every call of query() runs alone: the section between its first line    *)
(* and its return is held by the client that owns self.lock, and the timer *)
(* prints only while it owns it.  HTTP thread, console thread and timer    *)
(* chain share one lock, one pipe and one queue.                           *)
(***************************************************************************)
OneAtATime ==
  /\ \A c \in Clients : pc[c] \in Critical <=> lock = c
  /\ startupTimer = "printing" <=> lock = "timer"

(***************************************************************************)
(* Once a query has run, the startup timer is through with its work: none  *)
(* is armed, and one that fired too late to be cancelled never prints.     *)
(* (_startup_timer_loop re-checks has_queried under the lock for this.)    *)
(***************************************************************************)
TimerRetired == hasQueried => startupTimer \in {"fired", "off"}

(***************************************************************************)
(* Each drain thread reads has_queried without the lock and may act on a   *)
(* stale value, but only once: after the first query has emptied           *)
(* non_result_queue, the lines that are in it or still to be put there are *)
(* two at most, one per drain thread.  (Every such line replaces the text  *)
(* of a later query.)                                                      *)
(***************************************************************************)
Late(d) == IF drain[d] = "put" THEN 1 ELSE 0
StrandedBound ==
  (hasQueried /\ \A c \in Clients : pc[c] # "clear") =>
    nonResult + Late("out") + Late("err") <= 2

(***************************************************************************)
(* No result of one request is left for the next: while no client is       *)
(* inside query() and the backend lives, there is no unread input and no   *)
(* line of a result anywhere between the backend and _read_result.         *)
(* (query() holds the lock until it has read as many results as it asked.) *)
(***************************************************************************)
InFlight == stdoutQueue \o stdout \o outbuf
QuietBetweenQueries ==
  (Alive /\ \A c \in Clients : pc[c] \notin Critical) =>
    /\ stdin = <<>>
    /\ \A i \in 1..Len(InFlight) : InFlight[i].tag = "log"

(***************************************************************************)
(* A successful call returns one result for each line it wrote, in the     *)
(* order it wrote them, and nothing else in them.                          *)
(***************************************************************************)
AnswersOwnLines ==
  \A c \in Clients :
    reply[c] = "ok" =>
      /\ Len(got[c]) = Len(asked[c])
      /\ got[c] = [i \in 1..Len(sent[c]) |-> <<Out("body", sent[c][i])>>]

(***************************************************************************)
(* query() raises only when the backend is really going away: an HTTP 500  *)
(* or a console error is never a hiccup that a retry would cure.           *)
(***************************************************************************)
ErrorMeansGone == \A c \in Clients : reply[c] = "error" => ~Alive

(***************************************************************************)
(* The end mark reaches _read_result only after the backend's end, which   *)
(* is what makes ErrorMeansGone inductive.                                 *)
(***************************************************************************)
EndMarkMeansGone ==
  Alive => \A i \in 1..Len(stdoutQueue) : stdoutQueue[i].tag # "eof"

(***************************************************************************)
(* The part of the safety argument that is about who holds the lock, who   *)
(* may still print or queue log text, and when a call may raise.           *)
(***************************************************************************)
LockInv == OneAtATime /\ TimerRetired /\ StrandedBound
EndInv  == EndMarkMeansGone /\ ErrorMeansGone

(***************************************************************************)
(* The death of the backend unblocks everyone, also a call that would wait *)
(* for ever for the result of a rejected line, and those queued behind it. *)
(***************************************************************************)
DeathReleasesAll ==
  \A c \in Clients : (backend = "closing" /\ pc[c] # "idle") ~> pc[c] = "idle"

(***************************************************************************)
(* As long as the lines that reach the backend are the ones typed and none *)
(* is rejected, every request that asks for the lock returns: two clients, *)
(* the timer chain, the drains, two full pipes and a backend that may die  *)
(* never wait for each other in a circle.                                  *)
(***************************************************************************)
Clean(c) == /\ sent[c] = asked[c]
            /\ \A i \in 1..Len(sent[c]) : sent[c][i] \notin ErrLines
NothingGoesWrong ==
  \A c \in Clients : pc[c] = "read" => Clean(c)
EveryRequestReturns ==
  []NothingGoesWrong => \A c \in Clients : pc[c] = "lock" ~> pc[c] = "idle"

(***************************************************************************)
(* python/server.py:8: "For each query, server.py writes the query line to *)
(* the program's stdin".                                                   *)
(***************************************************************************)
WritesTheQueryLine ==
  \A c \in Clients : pc[c] = "read" => sent[c] = asked[c]

(***************************************************************************)
(* docs/PROTOCOL.md: QUERY_ERROR --> QUERY.  A call whose lines reached    *)
(* the backend as typed returns, whether the backend accepts or rejects.   *)
(***************************************************************************)
QueryErrorReturnsToQuery ==
  \A c \in Clients : (pc[c] = "read" /\ sent[c] = asked[c]) ~> pc[c] = "idle"

(***************************************************************************)
(* The refinement: QueryServer implements SerialQuery.  The timer's turns  *)
(* with the lock are invisible; a result counts as the answer to a line    *)
(* only if it is exactly the body printed for that line.                   *)
(***************************************************************************)
Serving == lock \in Clients
AnswerOf(p) == IF Len(p) = 1 /\ p[1].tag = "body" THEN p[1].of ELSE "garbage"
ResultsOf(g) == [i \in 1..Len(g) |-> AnswerOf(g[i])]

Owner     == IF Serving THEN lock ELSE NoOwner
Submitted == IF Serving THEN sent[lock] ELSE <<>>
Received  == IF Serving THEN ResultsOf(got[lock]) ELSE <<>>

SQ == INSTANCE SerialQuery WITH
  up <- Alive, owner <- Owner, submitted <- Submitted, results <- Received

ServesSerially == SQ!Spec
=============================================================================
