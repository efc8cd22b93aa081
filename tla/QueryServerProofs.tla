-------------------------- MODULE QueryServerProofs --------------------------
(***************************************************************************)
(* Safety of QueryServer, and its refinement of SerialQuery, for every set *)
(* of queries, every pipe capacity and every bound on requests and logs.   *)
(***************************************************************************)
EXTENDS QueryServer, TLAPS, FiniteSets, FiniteSetTheorems, SequenceTheorems

-----------------------------------------------------------------------------
(* Lines and sequences. *)

\* What the backend prints is a printed line.
LEMMA OutPrinted == \A t \in Tags \ {"eof"}, x \in Inputs : Out(t, x) \in Printed
  BY DEF Out, Printed

\* A printed line may enter stdout_queue.
LEMMA PrintedIsLine == Printed \subseteq OutLine
  BY DEF Printed, OutLine

\* How sequences keep their type.
LEMMA SeqTypes ==
  ASSUME NEW S, NEW s \in Seq(S)
  PROVE  /\ \A e \in S : Append(s, e) \in Seq(S)
         /\ s # <<>> => Head(s) \in S /\ Tail(s) \in Seq(S)
  OBVIOUS

\* What queryLoop prints for one line is a sequence of printed lines.
LEMMA BlockType == \A x \in Inputs : Block(x) \in Seq(Printed)
<1> SUFFICES ASSUME NEW x \in Inputs PROVE Block(x) \in Seq(Printed)
  OBVIOUS
<1>1. /\ Echo(x) \in Printed /\ Out("log", x) \in Printed
      /\ Out("open", x) \in Printed /\ Out("body", x) \in Printed
      /\ Out("close", x) \in Printed
  BY OutPrinted DEF Echo, Tags
<1>2. \A a, b, c, d \in Printed : <<a, b>> \in Seq(Printed) /\ <<a, b, c, d>> \in Seq(Printed)
  OBVIOUS
<1> QED
  BY <1>1, <1>2 DEF Block

-----------------------------------------------------------------------------
(* Type correctness. *)

USE DEF Clients, Drains

\* A step that leaves a group of variables alone keeps the group's type.
LEMMA ClientFrame == ClientType /\ UNCHANGED clientVars => ClientType'
  BY DEF ClientType, clientVars

\* A step that leaves the backend alone leaves its type alone.
LEMMA BackendFrame == BackendType /\ UNCHANGED backendVars => BackendType'
  BY DEF BackendType, backendVars

\* The initial states.
LEMMA InitTypeOK == Init => TypeOK
<1> SUFFICES ASSUME Init PROVE TypeOK
  OBVIOUS
<1>1. ServerType
  <2>1. /\ lock \in Clients \union {"timer", NoOwner}
        /\ startupTimer \in {"armed", "fired", "printing", "off"}
    BY DEF Init
  <2>2. nonResult \in Nat /\ stdoutQueue \in Seq(OutLine)
    BY DEF Init
  <2>4. hasQueried \in BOOLEAN /\ drainInResult \in BOOLEAN
    BY Zenon DEF Init
  <2>3. drain \in [Drains -> {"read", "red", "put", "done"}]
    BY DEF Init
  <2> QED
    BY <2>1, <2>2, <2>3, <2>4 DEF ServerType
<1>2. pc \in [Clients -> {"idle", "lock"} \union Critical] /\ asked \in [Clients -> Seq(Lines)]
  BY DEF Init
<1>3. text \in [Clients -> Seq(Inputs)] /\ sent \in [Clients -> Seq(Inputs)]
  BY DEF Init
<1>4. payload \in [Clients -> Seq(OutLine)] /\ got \in [Clients -> Seq(Seq(OutLine))]
  BY DEF Init
<1>5. /\ inResult \in [Clients -> BOOLEAN]
      /\ reply \in [Clients -> {"none", "ok", "error"}]
      /\ requests \in [Clients -> 0..MaxRequests]
  BY QueryServerAssumption DEF Init
<1>6. BackendType
  BY QueryServerAssumption DEF Init, BackendType
<1> QED
  BY <1>1, <1>2, <1>3, <1>4, <1>5, <1>6 DEF TypeOK, ClientType

\* The steps of the clients keep the types.
LEMMA ClientTypeOK ==
  ASSUME TypeOK, NEW c \in Clients, ClientStep(c)
  PROVE  TypeOK'
<1>0. ServerType /\ ClientType /\ BackendType
  BY DEF TypeOK
<1>1. CASE Submit(c)
  <2>1. ServerType'
    BY <1>0, <1>1 DEF Submit, ServerType, drainVars
  <2>2. BackendType'
    BY <1>0, <1>1, BackendFrame DEF Submit
  <2>3. HttpRequests \subseteq Seq(Lines) /\ {<<x>> : x \in Lines} \subseteq Seq(Lines)
    <3>1. \A x \in Lines : <<x>> \in Seq(Lines)
      OBVIOUS
    <3> QED
      BY <3>1, QueryServerAssumption
  <2>4. asked' \in [Clients -> Seq(Lines)]
    BY <1>0, <1>1, <2>3 DEF Submit, ClientType
  <2>5. requests' \in [Clients -> 0..MaxRequests]
    BY <1>0, <1>1, QueryServerAssumption DEF Submit, ClientType
  <2>6. got' \in [Clients -> Seq(Seq(OutLine))] /\ sent' \in [Clients -> Seq(Inputs)]
    BY <1>0, <1>1 DEF Submit, ClientType
  <2>7. /\ pc' \in [Clients -> {"idle", "lock"} \union Critical]
        /\ reply' \in [Clients -> {"none", "ok", "error"}]
    BY <1>0, <1>1 DEF Submit, ClientType
  <2>8. UNCHANGED <<text, inResult, payload>>
    BY <1>1 DEF Submit
  <2> QED
    BY <1>0, <2>1, <2>2, <2>4, <2>5, <2>6, <2>7, <2>8 DEF TypeOK, ClientType
<1>2. CASE Acquire(c)
  <2>1. ServerType'
    BY <1>0, <1>2 DEF Acquire, ServerType, drainVars
  <2>2. BackendType'
    BY <1>0, <1>2, BackendFrame DEF Acquire
  <2>3. text' \in [Clients -> Seq(Inputs)]
    BY <1>0, <1>2 DEF Acquire, ClientType, Inputs
  <2>4. pc' \in [Clients -> {"idle", "lock"} \union Critical]
    BY <1>0, <1>2 DEF Acquire, ClientType, Critical
  <2>5. UNCHANGED <<asked, sent, inResult, payload, got, reply, requests>>
    BY <1>2 DEF Acquire
  <2> QED
    BY <1>0, <2>1, <2>2, <2>3, <2>4, <2>5 DEF TypeOK, ClientType
<1>3. CASE ClearNonResult(c)
  <2>1. ServerType'
    BY <1>0, <1>3 DEF ClearNonResult, ServerType, drainVars
  <2>2. BackendType'
    BY <1>0, <1>3, BackendFrame DEF ClearNonResult
  <2>3. text' \in [Clients -> Seq(Inputs)]
    BY <1>0, <1>3 DEF ClearNonResult, ClientType, Inputs
  <2>4. UNCHANGED <<pc, asked, sent, inResult, payload, got, reply, requests>>
    BY <1>3 DEF ClearNonResult
  <2> QED
    BY <1>0, <2>1, <2>2, <2>3, <2>4 DEF TypeOK, ClientType
<1>4. CASE PollBackend(c) \/ WriteFails(c)
  <2>1. ServerType'
    BY <1>0, <1>4 DEF PollBackend, WriteFails, Return, ServerType, drainVars
  <2>2. BackendType'
    BY <1>0, <1>4, BackendFrame DEF PollBackend, WriteFails
  <2>3. /\ pc' \in [Clients -> {"idle", "lock"} \union Critical]
        /\ reply' \in [Clients -> {"none", "ok", "error"}]
    BY <1>0, <1>4 DEF PollBackend, WriteFails, Return, ClientType, Critical
  <2>4. UNCHANGED <<asked, text, sent, inResult, payload, got, requests>>
    BY <1>4 DEF PollBackend, WriteFails
  <2> QED
    BY <1>0, <2>1, <2>2, <2>3, <2>4 DEF TypeOK, ClientType
<1>5. CASE WriteLine(c)
  <2>1. ServerType'
    BY <1>0, <1>5 DEF WriteLine, ServerType, drainVars
  <2>2. Head(text[c]) \in Inputs /\ Tail(text[c]) \in Seq(Inputs)
    BY <1>0, <1>5, SeqTypes DEF WriteLine, ClientType
  <2>3. stdin' \in Seq(Inputs)
    BY <1>0, <1>5, <2>2, SeqTypes DEF WriteLine, BackendType
  <2>4. BackendType'
    BY <1>0, <1>5, <2>3 DEF WriteLine, BackendType
  <2>5. text' \in [Clients -> Seq(Inputs)] /\ sent' \in [Clients -> Seq(Inputs)]
    BY <1>0, <1>5, <2>2, SeqTypes DEF WriteLine, ClientType
  <2>6. pc' \in [Clients -> {"idle", "lock"} \union Critical]
    BY <1>0, <1>5 DEF WriteLine, ClientType, Critical
  <2>7. inResult' \in [Clients -> BOOLEAN] /\ payload' \in [Clients -> Seq(OutLine)]
    BY <1>0, <1>5 DEF WriteLine, ClientType
  <2>8. UNCHANGED <<asked, got, reply, requests>>
    BY <1>5 DEF WriteLine
  <2> QED
    BY <1>0, <2>1, <2>4, <2>5, <2>6, <2>7, <2>8 DEF TypeOK, ClientType
<1>6. CASE ReadLine(c)
  <2>1. Head(stdoutQueue) \in OutLine /\ Tail(stdoutQueue) \in Seq(OutLine)
    BY <1>0, <1>6, SeqTypes DEF ReadLine, ServerType
  <2>2. /\ Append(payload[c], Head(stdoutQueue)) \in Seq(OutLine)
        /\ Append(got[c], payload[c]) \in Seq(Seq(OutLine))
    BY <1>0, <2>1, SeqTypes DEF ClientType
  <2>3. /\ lock' \in {lock, NoOwner}
        /\ pc' \in {pc, [pc EXCEPT ![c] = "idle"]}
        /\ reply' \in {reply, [reply EXCEPT ![c] = "ok"], [reply EXCEPT ![c] = "error"]}
    BY <1>6 DEF ReadLine, Return
  <2>4. /\ \/ inResult' = inResult
           \/ inResult' = [inResult EXCEPT ![c] = FALSE]
           \/ inResult' = [inResult EXCEPT ![c] = HasStartTag(Head(stdoutQueue))]
        /\ \/ payload' = payload
           \/ payload' = [payload EXCEPT ![c] = <<>>]
           \/ payload' = [payload EXCEPT ![c] = Append(payload[c], Head(stdoutQueue))]
        /\ \/ got' = got
           \/ got' = [got EXCEPT ![c] = Append(got[c], payload[c])]
    BY <1>6, Zenon DEF ReadLine
  <2>12. HasStartTag(Head(stdoutQueue)) \in BOOLEAN
    BY DEF HasStartTag
  <2>5. ServerType'
    BY <1>0, <1>6, <2>1, <2>3 DEF ReadLine, ServerType, drainVars
  <2>6. BackendType'
    BY <1>0, <1>6, BackendFrame DEF ReadLine
  <2>7. payload' \in [Clients -> Seq(OutLine)]
    <3>1. payload \in [Clients -> Seq(OutLine)] /\ <<>> \in Seq(OutLine)
      BY <1>0 DEF ClientType
    <3> QED
      BY <2>2, <2>4, <3>1
  <2>8. got' \in [Clients -> Seq(Seq(OutLine))]
    BY <1>0, <2>2, <2>4 DEF ClientType
  <2>9. inResult' \in [Clients -> BOOLEAN]
    BY <1>0, <2>4, <2>12 DEF ClientType
  <2>10. /\ pc' \in [Clients -> {"idle", "lock"} \union Critical]
         /\ reply' \in [Clients -> {"none", "ok", "error"}]
    BY <1>0, <2>3 DEF ClientType
  <2>11. UNCHANGED <<asked, text, sent, requests>>
    BY <1>6 DEF ReadLine
  <2> QED
    BY <1>0, <2>5, <2>6, <2>7, <2>8, <2>9, <2>10, <2>11 DEF TypeOK, ClientType
<1> QED
  BY <1>1, <1>2, <1>3, <1>4, <1>5, <1>6 DEF ClientStep

\* The steps of the timer keep them.
LEMMA TimerTypeOK == TypeOK /\ Timer => TypeOK'
<1> SUFFICES ASSUME TypeOK, Timer PROVE TypeOK'
  OBVIOUS
<1>1. UNCHANGED clientVars /\ UNCHANGED backendVars
  BY DEF Timer, TimerFire, TimerEnter, TimerPrint, TimerRearm
<1>2. ServerType'
  BY DEF TypeOK, ServerType, Timer, TimerFire, TimerEnter, TimerPrint, TimerRearm, drainVars
<1> QED
  BY <1>1, <1>2, ClientFrame, BackendFrame DEF TypeOK

\* The steps of the drain threads keep them.
LEMMA DrainTypeOK == TypeOK /\ Drain => TypeOK'
<1> SUFFICES ASSUME TypeOK, Drain PROVE TypeOK'
  OBVIOUS
<1>0. ServerType /\ ClientType /\ BackendType
  BY DEF TypeOK
<1>1. ClientType'
  <2>1. UNCHANGED clientVars
    BY DEF Drain, DrainStdout, DrainStdoutEnd, DrainStderr, RedCheck, RedPut
  <2> QED
    BY <1>0, <2>1, ClientFrame
<1>2. CASE DrainStdout
  <2>1. Head(stdout) \in OutLine /\ Tail(stdout) \in Seq(Printed)
    BY <1>0, <1>2, SeqTypes, PrintedIsLine DEF DrainStdout, BackendType
  <2>2. stdoutQueue' = Append(stdoutQueue, Head(stdout)) /\ stdout' = Tail(stdout)
    BY <1>2 DEF DrainStdout
  <2>3. stdoutQueue' \in Seq(OutLine)
    BY <1>0, <2>1, <2>2, SeqTypes DEF ServerType
  <2>4. drainInResult' \in BOOLEAN
    <3>1. /\ (Head(stdout).tag # "close") \in BOOLEAN
          /\ (Head(stdout).tag = "open") \in BOOLEAN
      OBVIOUS
    <3> QED
      BY <1>2, <3>1, Zenon DEF DrainStdout, HasStartTag
  <2>6. drain' \in [Drains -> {"read", "red", "put", "done"}]
    BY <1>0, <1>2 DEF DrainStdout, ServerType
  <2>5. UNCHANGED <<lock, hasQueried, startupTimer, nonResult, backend, stdin, outbuf,
                    errbuf, stderr, noise>>
    BY <1>2 DEF DrainStdout
  <2> QED
    BY <1>0, <1>1, <2>1, <2>2, <2>3, <2>4, <2>5, <2>6 DEF TypeOK, ServerType, BackendType
<1>3. CASE DrainStdoutEnd
  <2>1. EndOfOutput \in OutLine
    BY DEF EndOfOutput, Out, OutLine, Tags, Inputs
  <2>2. stdoutQueue' \in Seq(OutLine)
    BY <1>0, <1>3, <2>1, SeqTypes DEF DrainStdoutEnd, ServerType
  <2>3. ServerType'
    BY <1>0, <1>3, <2>2 DEF DrainStdoutEnd, ServerType
  <2> QED
    BY <1>0, <1>1, <1>3, <2>3, BackendFrame DEF TypeOK, DrainStdoutEnd
<1>4. CASE DrainStderr
  <2>1. ServerType'
    BY <1>0, <1>4 DEF DrainStderr, ServerType
  <2>2. BackendType'
    BY <1>0, <1>4 DEF DrainStderr, BackendType
  <2> QED
    BY <1>1, <2>1, <2>2 DEF TypeOK
<1>5. ASSUME NEW d \in Drains, RedCheck(d) \/ RedPut(d) PROVE TypeOK'
  <2>1. ServerType'
    BY <1>0, <1>5 DEF RedCheck, RedPut, ServerType
  <2>2. BackendType'
    BY <1>0, <1>5, BackendFrame DEF RedCheck, RedPut
  <2> QED
    BY <1>1, <2>1, <2>2 DEF TypeOK
<1> QED
  BY <1>2, <1>3, <1>4, <1>5 DEF Drain

\* The steps of the backend keep them.
LEMMA BackendTypeOK == TypeOK /\ Backend => TypeOK'
<1> SUFFICES ASSUME TypeOK, Backend PROVE TypeOK'
  OBVIOUS
<1>0. ServerType /\ ClientType /\ BackendType
  BY DEF TypeOK
<1>1. ServerType' /\ ClientType'
  <2>1. /\ UNCHANGED <<lock, hasQueried, startupTimer, nonResult, stdoutQueue>>
        /\ UNCHANGED clientVars /\ UNCHANGED drainVars
    BY DEF Backend, BackendInit, BackendFlush, BackendQuery, BackendNoise,
           BackendWriteErr, BackendExit, BackendTeardown
  <2> QED
    BY <1>0, <2>1, ClientFrame DEF ServerType, drainVars
<1>2. CASE BackendInit
  <2>1. Out("log", LogText) \in Printed
    BY OutPrinted DEF Tags, Inputs
  <2>3. \A e \in Printed : <<e>> \in Seq(Printed) /\ [i \in 1..StartLines |-> e] \in Seq(Printed)
    BY QueryServerAssumption
  <2>2. outbuf' \in Seq(Printed)
    BY <1>2, <2>1, <2>3 DEF BackendInit
  <2> QED
    BY <1>0, <1>1, <1>2, <2>2 DEF BackendInit, BackendType, TypeOK
<1>3. CASE BackendFlush
  <2>1. stdout' \in Seq(Printed) /\ outbuf' \in Seq(Printed)
    BY <1>0, <1>3, SeqTypes DEF BackendFlush, BackendType
  <2> QED
    BY <1>0, <1>1, <1>3, <2>1 DEF BackendFlush, BackendType, TypeOK
<1>4. CASE BackendQuery
  <2>1. Head(stdin) \in Inputs /\ Tail(stdin) \in Seq(Inputs)
    BY <1>0, <1>4, SeqTypes DEF BackendQuery, BackendType
  <2>2. stdin' \in Seq(Inputs) /\ outbuf' \in Seq(Printed)
    BY <1>4, <2>1, BlockType DEF BackendQuery
  <2> QED
    BY <1>0, <1>1, <1>4, <2>2 DEF BackendQuery, BackendType, TypeOK
<1>5. CASE BackendNoise
  BY <1>0, <1>1, <1>5, QueryServerAssumption DEF BackendNoise, BackendType, TypeOK
<1>6. CASE BackendWriteErr
  BY <1>0, <1>1, <1>6 DEF BackendWriteErr, BackendType, TypeOK
<1>7. CASE BackendExit
  BY <1>0, <1>1, <1>7 DEF BackendExit, BackendType, TypeOK
<1>8. CASE BackendTeardown
  BY <1>0, <1>1, <1>8 DEF BackendTeardown, BackendType, TypeOK
<1> QED
  BY <1>2, <1>3, <1>4, <1>5, <1>6, <1>7, <1>8 DEF Backend

\* A step that changes nothing changes no invariant.
LEMMA StutterTypeOK == TypeOK /\ UNCHANGED vars => TypeOK'
  BY ClientFrame, BackendFrame DEF TypeOK, ServerType, vars, drainVars

(***************************************************************************)
(* Every state of server.py and its backend has the types of TypeOK.       *)
(***************************************************************************)
THEOREM TypeCorrect == Spec => []TypeOK
<1>1. TypeOK /\ [Next]_vars => TypeOK'
  BY ClientTypeOK, TimerTypeOK, DrainTypeOK, BackendTypeOK, StutterTypeOK DEF Next
<1> QED
  BY <1>1, InitTypeOK, PTL DEF Spec

-----------------------------------------------------------------------------
(* The lock, the timer and the stranded log lines.  The three invariants   *)
(* are inductive together: Acquire may assume that no timer is printing    *)
(* only because the lock is free, and a timer that is printing only that   *)
(* no query has run.                                                       *)

\* Nobody holds the lock at the start.
LEMMA InitLockInv == Init => LockInv
  BY DEF Init, LockInv, OneAtATime, TimerRetired, StrandedBound, Critical, NoOwner

\* Steps that touch neither the lock, nor the timer, nor the log lines.
LEMMA LockFrame ==
  LockInv /\ UNCHANGED <<lock, hasQueried, startupTimer, nonResult, drain, pc>> => LockInv'
  BY DEF LockInv, OneAtATime, TimerRetired, StrandedBound, Late

\* Every step keeps the lock's invariant.
LEMMA LockInvStep == TypeOK /\ LockInv /\ [Next]_vars => LockInv'
<1> SUFFICES ASSUME TypeOK, LockInv, [Next]_vars PROVE LockInv'
  OBVIOUS
<1> USE DEF LockInv, Critical, NoOwner
<1>0. /\ pc \in [Clients -> {"idle", "lock", "clear", "write", "read"}]
      /\ lock \in {"http", "console", "timer", "nobody"}
      /\ drain \in [Drains -> {"read", "red", "put", "done"}]
      /\ startupTimer \in {"armed", "fired", "printing", "off"}
      /\ nonResult \in Nat
  BY DEF TypeOK, ServerType, ClientType
<1>1. ASSUME NEW c \in Clients, ClientStep(c) PROVE LockInv'
  <2>1. CASE Submit(c)
    BY <1>0, <2>1 DEF Submit, drainVars, OneAtATime, TimerRetired, StrandedBound, Late
  <2>2. CASE Acquire(c)
    BY <1>0, <2>2 DEF Acquire, drainVars, OneAtATime, TimerRetired, StrandedBound, Late
  <2>3. CASE ClearNonResult(c)
    BY <1>0, <2>3 DEF ClearNonResult, drainVars, OneAtATime, TimerRetired, StrandedBound, Late
  <2>4. CASE PollBackend(c)
    <3>1. OneAtATime' /\ TimerRetired'
      BY <1>0, <2>4 DEF PollBackend, Return, OneAtATime, TimerRetired
    <3>2. StrandedBound'
      BY <1>0, <2>4 DEF PollBackend, drainVars, StrandedBound, Late
    <3> QED
      BY <3>1, <3>2
  <2>5. CASE WriteLine(c)
    BY <1>0, <2>5 DEF WriteLine, drainVars, OneAtATime, TimerRetired, StrandedBound, Late
  <2>6. CASE WriteFails(c)
    BY <1>0, <2>6 DEF WriteFails, Return, drainVars, OneAtATime, TimerRetired,
                      StrandedBound, Late
  <2>7. CASE ReadLine(c)
    <3>1. \/ UNCHANGED <<lock, pc>>
          \/ lock' = "nobody" /\ pc' = [pc EXCEPT ![c] = "idle"]
      BY <2>7 DEF ReadLine, Return
    <3>2. UNCHANGED <<hasQueried, startupTimer, nonResult, drain>> /\ pc[c] = "read"
      BY <2>7 DEF ReadLine, drainVars
    <3> QED
      BY <1>0, <3>1, <3>2 DEF OneAtATime, TimerRetired, StrandedBound, Late
  <2> QED
    BY <1>1, <2>1, <2>2, <2>3, <2>4, <2>5, <2>6, <2>7 DEF ClientStep
<1>2. CASE Timer
  <2>1. CASE TimerFire \/ TimerEnter
    BY <1>0, <2>1 DEF TimerFire, TimerEnter, clientVars, drainVars, OneAtATime,
                      TimerRetired, StrandedBound, Late
  <2>2. CASE TimerPrint \/ TimerRearm
    BY <1>0, <2>2 DEF TimerPrint, TimerRearm, clientVars, drainVars, OneAtATime,
                      TimerRetired, StrandedBound, Late
  <2> QED
    BY <1>2, <2>1, <2>2 DEF Timer
<1>3. CASE Drain
  <2>0. UNCHANGED <<lock, hasQueried, startupTimer, pc>>
    BY <1>3 DEF Drain, DrainStdout, DrainStdoutEnd, DrainStderr, RedCheck, RedPut, clientVars
  <2>1. CASE DrainStdout \/ DrainStdoutEnd
    BY <1>0, <2>0, <2>1 DEF DrainStdout, DrainStdoutEnd, OneAtATime, TimerRetired,
                            StrandedBound, Late
  <2>2. CASE DrainStderr
    BY <1>0, <2>0, <2>2 DEF DrainStderr, OneAtATime, TimerRetired, StrandedBound, Late
  <2>3. ASSUME NEW d \in Drains, RedCheck(d) PROVE LockInv'
    BY <1>0, <2>0, <2>3 DEF RedCheck, OneAtATime, TimerRetired, StrandedBound, Late
  <2>4. ASSUME NEW d \in Drains, RedPut(d) PROVE LockInv'
    BY <1>0, <2>0, <2>4 DEF RedPut, OneAtATime, TimerRetired, StrandedBound, Late
  <2> QED
    BY <1>3, <2>1, <2>2, <2>3, <2>4 DEF Drain
<1>4. CASE Backend
  <2>1. UNCHANGED <<lock, hasQueried, startupTimer, nonResult, drain, pc>>
    BY <1>4 DEF Backend, BackendInit, BackendFlush, BackendQuery, BackendNoise,
            BackendWriteErr, BackendExit, BackendTeardown, clientVars, drainVars
  <2> QED
    BY <2>1, LockFrame
<1>5. CASE UNCHANGED vars
  BY <1>5, LockFrame DEF vars, clientVars, drainVars
<1> QED
  BY <1>1, <1>2, <1>3, <1>4, <1>5 DEF Next

(***************************************************************************)
(* The inductive invariant about lock, timer and log lines.                *)
(***************************************************************************)
THEOREM LockSafe == Spec => []LockInv
<1> QED
  BY TypeCorrect, InitLockInv, LockInvStep, PTL DEF Spec

(***************************************************************************)
(* query() runs alone: the HTTP thread, the console thread and the startup *)
(* timer are never inside their "with self.lock" together.                 *)
(***************************************************************************)
THEOREM MutualExclusion == Spec => []OneAtATime
<1>1. LockInv => OneAtATime
  BY DEF LockInv
<1> QED
  BY <1>1, LockSafe, PTL

(***************************************************************************)
(* After a query, no timer is armed and none prints.                       *)
(***************************************************************************)
THEOREM TimerRetires == Spec => []TimerRetired
<1>1. LockInv => TimerRetired
  BY DEF LockInv
<1> QED
  BY <1>1, LockSafe, PTL

(***************************************************************************)
(* However much the backend logs, two log lines at most are left to        *)
(* replace the text of later queries.                                      *)
(***************************************************************************)
THEOREM StrandedBounded == Spec => []StrandedBound
<1>1. LockInv => StrandedBound
  BY DEF LockInv
<1> QED
  BY <1>1, LockSafe, PTL

-----------------------------------------------------------------------------
(* Errors.  A call raises when poll() sees the exit status, when the pipe  *)
(* is broken, or at the end mark; the third is an error of a dead backend  *)
(* because the mark is put only after the kernel closed its descriptors.   *)

\* No output has ended at the start.
LEMMA InitEndInv == Init => EndInv
  BY DEF Init, EndInv, EndMarkMeansGone, ErrorMeansGone

\* Every step keeps the invariant of the end mark.
LEMMA EndInvStep == TypeOK /\ EndInv /\ [Next]_vars => EndInv'
<1> SUFFICES ASSUME TypeOK, EndInv, [Next]_vars PROVE EndInv'
  OBVIOUS
<1> USE DEF EndInv
<1>0. /\ stdoutQueue \in Seq(OutLine) /\ stdout \in Seq(Printed)
      /\ reply \in [Clients -> {"none", "ok", "error"}]
  BY DEF TypeOK, ServerType, ClientType, BackendType
<1>1. ASSUME NEW c \in Clients, ClientStep(c) PROVE EndInv'
  <2>0. UNCHANGED backend
    BY <1>1 DEF ClientStep, Submit, Acquire, ClearNonResult, PollBackend, WriteLine,
                WriteFails, ReadLine, backendVars
  <2>1. CASE ReadLine(c)
    <3>1. stdoutQueue # <<>> /\ stdoutQueue' = Tail(stdoutQueue)
      BY <2>1 DEF ReadLine
    <3>2. EndMarkMeansGone'
      BY <1>0, <2>0, <3>1 DEF EndMarkMeansGone, Alive
    <3>3. \/ reply' = reply
          \/ reply' = [reply EXCEPT ![c] = "ok"]
          \/ reply' = [reply EXCEPT ![c] = "error"] /\ Head(stdoutQueue).tag = "eof"
      BY <2>1 DEF ReadLine, Return
    <3>4. Head(stdoutQueue).tag = "eof" => ~Alive
      BY <1>0, <3>1 DEF EndMarkMeansGone
    <3>5. ErrorMeansGone'
      BY <1>0, <2>0, <3>3, <3>4 DEF ErrorMeansGone, Alive
    <3> QED
      BY <3>2, <3>5
  <2>2. CASE ~ReadLine(c)
    <3>1. UNCHANGED stdoutQueue
      BY <1>1, <2>2 DEF ClientStep, Submit, Acquire, ClearNonResult, PollBackend,
                        WriteLine, WriteFails
    <3>2. EndMarkMeansGone'
      BY <2>0, <3>1 DEF EndMarkMeansGone, Alive
    <3>3. \/ reply' = reply
          \/ reply' = [reply EXCEPT ![c] = "none"]
          \/ reply' = [reply EXCEPT ![c] = "error"] /\ ~Alive
      BY <1>1, <2>2 DEF ClientStep, Submit, Acquire, ClearNonResult, PollBackend,
                        WriteLine, WriteFails, Return, Alive
    <3>4. ErrorMeansGone'
      BY <1>0, <2>0, <3>3 DEF ErrorMeansGone, Alive
    <3> QED
      BY <3>2, <3>4
  <2> QED
    BY <2>1, <2>2
<1>2. CASE Timer
  <2>1. UNCHANGED <<reply, stdoutQueue, backend>>
    BY <1>2 DEF Timer, TimerFire, TimerEnter, TimerPrint, TimerRearm, clientVars, backendVars
  <2> QED
    BY <2>1 DEF EndMarkMeansGone, ErrorMeansGone, Alive
<1>3. CASE Drain
  <2>0. UNCHANGED <<reply, backend>>
    BY <1>3 DEF Drain, DrainStdout, DrainStdoutEnd, DrainStderr, RedCheck, RedPut,
                clientVars, backendVars
  <2>1. ErrorMeansGone'
    BY <2>0 DEF ErrorMeansGone, Alive
  <2>2. CASE DrainStdout
    <3>0. Head(stdout) \in Printed
      BY <1>0, <2>2, SeqTypes DEF DrainStdout
    <3>1. Head(stdout).tag # "eof" /\ Head(stdout) \in OutLine
      BY <3>0, PrintedIsLine DEF Printed
    <3>2. stdoutQueue' = Append(stdoutQueue, Head(stdout))
      BY <2>2 DEF DrainStdout
    <3>3. EndMarkMeansGone'
      BY <1>0, <2>0, <3>1, <3>2 DEF EndMarkMeansGone, Alive
    <3> QED
      BY <2>1, <3>3
  <2>3. CASE DrainStdoutEnd
    BY <2>0, <2>1, <2>3 DEF DrainStdoutEnd, EndMarkMeansGone, Alive
  <2>4. CASE ~DrainStdout /\ ~DrainStdoutEnd
    <3>1. UNCHANGED stdoutQueue
      BY <1>3, <2>4 DEF Drain, DrainStderr, RedCheck, RedPut
    <3> QED
      BY <2>0, <2>1, <3>1 DEF EndMarkMeansGone, Alive
  <2> QED
    BY <2>2, <2>3, <2>4
<1>4. CASE Backend
  <2>1. UNCHANGED <<reply, stdoutQueue>> /\ (Alive' => Alive)
    BY <1>4 DEF Backend, BackendInit, BackendFlush, BackendQuery, BackendNoise,
            BackendWriteErr, BackendExit, BackendTeardown, clientVars, Alive
  <2> QED
    BY <2>1 DEF EndMarkMeansGone, ErrorMeansGone
<1>5. CASE UNCHANGED vars
  BY <1>5 DEF vars, clientVars, backendVars, EndMarkMeansGone, ErrorMeansGone, Alive
<1> QED
  BY <1>1, <1>2, <1>3, <1>4, <1>5 DEF Next

(***************************************************************************)
(* query() raises an error only of a backend that is going away.           *)
(***************************************************************************)
THEOREM ErrorsAreFinal == Spec => []ErrorMeansGone
<1>1. EndInv => ErrorMeansGone
  BY DEF EndInv
<1> QED
  BY <1>1, InitEndInv, EndInvStep, TypeCorrect, PTL DEF Spec


-----------------------------------------------------------------------------
HIDE DEF Clients, Drains

(* What is on its way to the reader.  F is the lines in flight, S the      *)
(* lines written for this request, k of which the backend has read; r of   *)
(* them are through with, and p places every line of a result: line i of F *)
(* belongs to the answer to S[p[i]].                                       *)

ResultTags == {"open", "body", "close"}

Placed(F, S, k, r, p) ==
  /\ \A i \in 1..Len(F) : F[i].tag \in ResultTags =>
       r < p[i] /\ p[i] <= k /\ F[i].of = S[p[i]] /\ S[p[i]] \notin ErrLines
  /\ \A i, j \in 1..Len(F) :
       i < j /\ F[i].tag = "close" /\ F[j].tag \in ResultTags => p[i] < p[j]
  /\ \A i \in 1..Len(F) : F[i].tag \in ResultTags =>
       \A m \in r + 1..p[i] - 1 : S[m] \notin ErrLines =>
         \E j \in 1..i - 1 : F[j].tag = "close" /\ p[j] = m

\* Nothing is lost: every accepted line the backend has read is answered in F.
Entire(F, S, k, r, p) ==
  \A m \in r + 1..k : S[m] \notin ErrLines =>
    \E j \in 1..Len(F) : F[j].tag = "close" /\ p[j] = m

\* A result is printed in one piece, cut only by the end of the output.
Unbroken(F, p) ==
  \A i \in 1..Len(F), j \in 1..Len(F) : j = i + 1 =>
    /\ F[i].tag = "open" => F[j].tag = "eof" \/ (F[j].tag = "body" /\ p[j] = p[i])
    /\ F[i].tag = "body" => F[j].tag = "eof" \/ (F[j].tag = "close" /\ p[j] = p[i])
    /\ F[i].tag \in {"log", "close"} => F[j].tag \in {"log", "open", "eof"}

\* The first line in flight is one the state of _read_result expects.
Expected(F, res, pay) ==
  /\ ~res => pay = <<>>
  /\ F # <<>> =>
       /\ ~res => F[1].tag \in {"log", "open", "eof"}
       /\ res /\ pay = <<>> => F[1].tag \in {"body", "eof"}
       /\ res /\ pay # <<>> =>
            F[1].tag = "eof" \/ (F[1].tag = "close" /\ pay = <<Out("body", F[1].of)>>)

\* The results collected: one for each line that was accepted; if that is all of
\* them, they are the answers so far.
AnswersTo(S) == [i \in 1..Len(S) |-> <<Out("body", S[i])>>]
Collected(g, S, r) ==
  /\ Len(g) <= r /\ Len(g) = Cardinality(SQ!AcceptedTo(S, r))
  /\ Len(g) = r => \A m \in 1..r : S[m] \notin ErrLines /\ g[m] = <<Out("body", S[m])>>

Reading(F, S, k, res, pay, g, up) ==
  \E r \in 0..k : \E p \in [1..Len(F) -> Nat] :
    /\ Placed(F, S, k, r, p) /\ Unbroken(F, p) /\ Expected(F, res, pay)
    /\ Collected(g, S, r) /\ (up => Entire(F, S, k, r, p))

\* The backend is between two blocks, and so is the reader that has caught up.
Complete(F, res) == /\ F = <<>> => ~res
                    /\ F # <<>> => F[Len(F)].tag \in {"log", "close"}

\* stdin holds what the backend has not read of S.
Unread(q, S) == /\ Len(q) <= Len(S)
                /\ \A j \in 1..Len(q) : q[j] = S[Len(S) - Len(q) + j]

InRead(c)  == pc[c] = "read" /\ inResult[c]
PayRead(c) == IF pc[c] = "read" THEN payload[c] ELSE <<>>

Flow(c) ==
  /\ Unread(stdin, sent[c])
  /\ Reading(InFlight, sent[c], Len(sent[c]) - Len(stdin), InRead(c), PayRead(c), got[c], Alive)
  /\ Alive => Complete(InFlight, InRead(c))

Asking(c)  == pc[c] = "read" \/ (pc[c] = "write" /\ Alive)
FlowOK     == \A c \in Clients : Asking(c) => Flow(c)
QuietOK    == (Alive /\ \A c \in Clients : pc[c] \notin {"write", "read"}) =>
                 /\ stdin = <<>>
                 /\ \A i \in 1..Len(InFlight) : InFlight[i].tag = "log"
PipesOK    == /\ backend = "starting" => outbuf = <<>>
              /\ ~Alive => outbuf = <<>> /\ stdin = <<>>
CallOK ==
  \A c \in Clients :
    /\ pc[c] # "idle" => reply[c] = "none" /\ asked[c] # <<>>
    /\ pc[c] \in {"lock", "clear", "write"} => got[c] = <<>>
    /\ pc[c] \in {"lock", "clear"} => sent[c] = <<>>
    /\ pc[c] = "clear" => Len(text[c]) <= Len(asked[c])
    /\ pc[c] = "write" => Len(sent[c]) + Len(text[c]) <= Len(asked[c])
    /\ pc[c] = "read" => Len(sent[c]) <= Len(asked[c])

FlowInv == PipesOK /\ CallOK /\ QuietOK /\ FlowOK /\ AnswersOwnLines

\* The elements of a concatenation.
LEMMA ConcatAt ==
  ASSUME NEW T, NEW F \in Seq(T), NEW B \in Seq(T)
  PROVE  /\ F \o B \in Seq(T) /\ Len(F \o B) = Len(F) + Len(B)
         /\ \A i \in 1..Len(F) : (F \o B)[i] = F[i]
         /\ \A i \in 1..Len(F \o B) : i > Len(F) =>
              i - Len(F) \in 1..Len(B) /\ (F \o B)[i] = B[i - Len(F)]
  BY ConcatProperties

\* The elements of a tail.
LEMMA TailAt ==
  ASSUME NEW T, NEW F \in Seq(T), F # <<>>
  PROVE  /\ Tail(F) \in Seq(T) /\ Len(Tail(F)) = Len(F) - 1
         /\ \A i \in 1..Len(Tail(F)) : i + 1 \in 1..Len(F) /\ Tail(F)[i] = F[i + 1]
         /\ 1 \in 1..Len(F) /\ F[1] \in T /\ Head(F) = F[1]
  BY HeadTailProperties

\* More lines behind those in flight.
LEMMA JoinReading ==
  ASSUME NEW F \in Seq(OutLine), NEW B \in Seq(OutLine), NEW S \in Seq(Inputs),
         NEW k \in Nat, NEW n \in Nat, k <= n, NEW res \in BOOLEAN, NEW pay, NEW g,
         NEW up \in BOOLEAN, Reading(F, S, k, res, pay, g, up),
         NEW q \in [1..Len(B) -> Nat], Placed(B, S, n, k, q), Unbroken(B, q),
         up => Entire(B, S, n, k, q),
         up \/ \A i \in 1..Len(B) : B[i].tag \notin ResultTags,
         B = <<>> \/ B[1].tag = "eof" \/ (B[1].tag = "log" /\ Complete(F, res))
  PROVE  Reading(F \o B, S, n, res, pay, g, up)
<1>1. PICK r \in 0..k, p \in [1..Len(F) -> Nat] :
        /\ Placed(F, S, k, r, p) /\ Unbroken(F, p) /\ Expected(F, res, pay)
        /\ Collected(g, S, r) /\ (up => Entire(F, S, k, r, p))
  BY DEF Reading
<1> DEFINE G == F \o B
           s == [i \in 1..Len(G) |-> IF i <= Len(F) THEN p[i] ELSE q[i - Len(F)]]
<1>2. /\ Len(G) = Len(F) + Len(B) /\ Len(F) \in Nat /\ Len(B) \in Nat
      /\ \A i \in 1..Len(F) : G[i] = F[i]
      /\ \A i \in 1..Len(G) : i > Len(F) => i - Len(F) \in 1..Len(B) /\ G[i] = B[i - Len(F)]
  BY ConcatAt
<1> HIDE DEF G
<1>3. s \in [1..Len(G) -> Nat]
  BY <1>2
<1>4. /\ \A i \in 1..Len(F) : s[i] = p[i] /\ i \in 1..Len(G)
      /\ \A i \in 1..Len(G) : i > Len(F) => s[i] = q[i - Len(F)]
      /\ \A i \in 1..Len(G) : i <= Len(F) => i \in 1..Len(F)
  BY <1>2
<1> HIDE DEF s
<1>5. r \in 0..n /\ r \in Nat /\ r <= k
  OBVIOUS
<1>6. Placed(G, S, n, r, s)
  <2>1. ASSUME NEW i \in 1..Len(G), G[i].tag \in ResultTags
        PROVE  r < s[i] /\ s[i] <= n /\ G[i].of = S[s[i]] /\ S[s[i]] \notin ErrLines
               /\ (i <= Len(F) => s[i] <= k) /\ (i > Len(F) => k < s[i])
    <3>1. CASE i <= Len(F)
      <4>1. i \in 1..Len(F) /\ G[i] = F[i] /\ s[i] = p[i] /\ p[i] \in Nat
        BY <1>2, <1>4, <3>1
      <4>2. r < p[i] /\ p[i] <= k /\ F[i].of = S[p[i]] /\ S[p[i]] \notin ErrLines
        BY <1>1, <2>1, <4>1 DEF Placed
      <4> QED
        BY <1>2, <1>5, <3>1, <4>1, <4>2
    <3>2. CASE i > Len(F)
      <4>1. /\ i - Len(F) \in 1..Len(B) /\ G[i] = B[i - Len(F)] /\ s[i] = q[i - Len(F)]
            /\ q[i - Len(F)] \in Nat
        BY <1>2, <1>4, <3>2
      <4>2. /\ k < q[i - Len(F)] /\ q[i - Len(F)] <= n
            /\ B[i - Len(F)].of = S[q[i - Len(F)]] /\ S[q[i - Len(F)]] \notin ErrLines
        BY <2>1, <4>1 DEF Placed
      <4> QED
        BY <1>5, <3>2, <4>1, <4>2
    <3> QED
      BY <3>1, <3>2, <1>2
  <2>2. ASSUME NEW i \in 1..Len(G), NEW j \in 1..Len(G), i < j, G[i].tag = "close",
               G[j].tag \in ResultTags
        PROVE  s[i] < s[j]
    <3>0. G[i].tag \in ResultTags
      BY <2>2 DEF ResultTags
    <3>1. CASE j <= Len(F)
      <4>1. i \in 1..Len(F) /\ j \in 1..Len(F)
        BY <1>2, <2>2, <3>1
      <4>2. G[i] = F[i] /\ G[j] = F[j] /\ s[i] = p[i] /\ s[j] = p[j]
        BY <1>2, <1>4, <4>1
      <4> QED
        BY <1>1, <2>2, <4>1, <4>2 DEF Placed
    <3>2. CASE i > Len(F)
      <4> DEFINE a == i - Len(F)
                 b == j - Len(F)
      <4>1. /\ a \in 1..Len(B) /\ b \in 1..Len(B) /\ a < b /\ G[i] = B[a] /\ G[j] = B[b]
            /\ s[i] = q[a] /\ s[j] = q[b]
        BY <1>2, <1>4, <2>2, <3>2
      <4> HIDE DEF a, b
      <4> QED
        BY <2>2, <4>1 DEF Placed
    <3>3. CASE i <= Len(F) /\ j > Len(F)
      <4>1. s[i] \in Nat /\ s[j] \in Nat
        BY <1>3
      <4> QED
        BY <2>1, <2>2, <3>0, <3>3, <4>1
    <3> QED
      BY <1>2, <3>1, <3>2, <3>3
  <2>3. ASSUME NEW i \in 1..Len(G), G[i].tag \in ResultTags,
               NEW m \in r + 1..s[i] - 1, S[m] \notin ErrLines
        PROVE  \E j \in 1..i - 1 : G[j].tag = "close" /\ s[j] = m
    <3>1. CASE i <= Len(F)
      <4>1. i \in 1..Len(F) /\ F[i].tag \in ResultTags /\ s[i] = p[i]
        BY <1>2, <1>4, <2>3, <3>1
      <4>2. PICK j \in 1..i - 1 : F[j].tag = "close" /\ p[j] = m
        BY <1>1, <2>3, <4>1 DEF Placed
      <4>3. j \in 1..Len(F)
        BY <4>1
      <4> QED
        BY <1>2, <1>4, <4>2, <4>3
    <3>2. CASE i > Len(F) /\ m <= k
      <4>1. up
        BY <1>2, <2>3, <3>2
      <4>2. m \in r + 1..k
        BY <1>3, <2>3, <3>2
      <4>3. PICK j \in 1..Len(F) : F[j].tag = "close" /\ p[j] = m
        BY <1>1, <2>3, <4>1, <4>2 DEF Entire
      <4>4. j \in 1..i - 1
        BY <1>2, <3>2
      <4> QED
        BY <1>2, <1>4, <4>3, <4>4
    <3>3. CASE i > Len(F) /\ m > k
      <4>1. i - Len(F) \in 1..Len(B) /\ G[i] = B[i - Len(F)] /\ s[i] = q[i - Len(F)]
        BY <1>2, <1>4, <3>3
      <4>2. m \in k + 1..q[i - Len(F)] - 1
        BY <1>3, <2>3, <3>3, <4>1
      <4>3. PICK a \in 1..(i - Len(F)) - 1 : B[a].tag = "close" /\ q[a] = m
        BY <2>3, <4>1, <4>2 DEF Placed
      <4> DEFINE j == Len(F) + a
      <4>4. /\ j \in 1..i - 1 /\ j \in 1..Len(G) /\ j > Len(F) /\ j - Len(F) = a
        <5>1. /\ a \in Nat /\ a >= 1 /\ a <= (i - Len(F)) - 1 /\ i - Len(F) <= Len(B)
              /\ i \in Nat
          BY <4>1
        <5> QED
          BY <1>2, <5>1
      <4>5. G[j] = B[j - Len(F)] /\ s[j] = q[j - Len(F)]
        BY <1>2, <1>4, <4>4
      <4> QED
        BY <4>3, <4>4, <4>5
    <3> QED
      BY <1>2, <3>1, <3>2, <3>3
  <2> QED
    BY <2>1, <2>2, <2>3 DEF Placed
<1>9. ASSUME up PROVE Entire(G, S, n, r, s)
  <2> SUFFICES ASSUME NEW m \in r + 1..n, S[m] \notin ErrLines
               PROVE  \E j \in 1..Len(G) : G[j].tag = "close" /\ s[j] = m
    BY DEF Entire
  <2>1. CASE m <= k
    <3>1. m \in r + 1..k
      BY <2>1
    <3>2. PICK j \in 1..Len(F) : F[j].tag = "close" /\ p[j] = m
      BY <1>1, <1>9, <3>1 DEF Entire
    <3> QED
      BY <1>2, <1>4, <3>2
  <2>2. CASE m > k
    <3>1. m \in k + 1..n
      BY <2>2
    <3>2. PICK a \in 1..Len(B) : B[a].tag = "close" /\ q[a] = m
      BY <1>9, <3>1 DEF Entire
    <3> DEFINE j == Len(F) + a
    <3>3. /\ j \in 1..Len(G) /\ j > Len(F) /\ j - Len(F) = a
      BY <1>2
    <3>4. G[j] = B[j - Len(F)] /\ s[j] = q[j - Len(F)]
      BY <1>2, <1>4, <3>3
    <3> QED
      BY <3>2, <3>3, <3>4
  <2> QED
    BY <2>1, <2>2
<1>7. Unbroken(G, s)
  <2> SUFFICES ASSUME NEW i \in 1..Len(G), NEW j \in 1..Len(G), j = i + 1
               PROVE  /\ G[i].tag = "open" =>
                           G[j].tag = "eof" \/ (G[j].tag = "body" /\ s[j] = s[i])
                      /\ G[i].tag = "body" =>
                           G[j].tag = "eof" \/ (G[j].tag = "close" /\ s[j] = s[i])
                      /\ G[i].tag \in {"log", "close"} => G[j].tag \in {"log", "open", "eof"}
    BY DEF Unbroken
  <2>1. CASE j <= Len(F)
    <3>1. i \in 1..Len(F) /\ j \in 1..Len(F)
      BY <1>2, <2>1
    <3>2. G[i] = F[i] /\ G[j] = F[j] /\ s[i] = p[i] /\ s[j] = p[j]
      BY <1>2, <1>4, <3>1
    <3> QED
      BY <1>1, <3>1, <3>2 DEF Unbroken
  <2>2. CASE i > Len(F)
    <3> DEFINE a == i - Len(F)
               b == j - Len(F)
    <3>1. /\ a \in 1..Len(B) /\ G[i] = B[a] /\ s[i] = q[a]
      BY <1>2, <1>4, <2>2
    <3>2. /\ b \in 1..Len(B) /\ G[j] = B[b] /\ s[j] = q[b]
      <4>1. j > Len(F)
        BY <1>2, <2>2
      <4> QED
        BY <1>2, <1>4, <4>1
    <3>3. b = a + 1
      BY <1>2
    <3> HIDE DEF a, b
    <3> QED
      BY <3>1, <3>2, <3>3 DEF Unbroken
  <2>3. CASE i <= Len(F) /\ j > Len(F)
    <3>1. i = Len(F) /\ G[i] = F[Len(F)] /\ G[j] = B[1] /\ F # <<>> /\ B # <<>>
      BY <1>2, <2>3
    <3>2. B[1].tag = "eof" \/ (B[1].tag = "log" /\ F[Len(F)].tag \in {"log", "close"})
      BY <3>1 DEF Complete
    <3> QED
      BY <3>1, <3>2
  <2> QED
    BY <1>2, <2>1, <2>2, <2>3
<1>8. Expected(G, res, pay)
  <2>1. CASE F # <<>>
    <3>1. 1 \in 1..Len(F) /\ G[1] = F[1]
      BY <1>2, <2>1
    <3> QED
      BY <1>1, <2>1, <3>1 DEF Expected
  <2>2. CASE F = <<>>
    <3>1. G # <<>> => B # <<>> /\ G[1] = B[1]
      BY <1>2, <2>2
    <3>2. B # <<>> => B[1].tag = "eof" \/ (B[1].tag = "log" /\ ~res)
      BY <2>2 DEF Complete
    <3> QED
      BY <1>1, <3>1, <3>2 DEF Expected
  <2> QED
    BY <2>1, <2>2
<1> QED
  BY <1>1, <1>3, <1>5, <1>6, <1>7, <1>8, <1>9 DEF Reading, G

\* The buffers of a process that dies are lost.
LEMMA CutReading ==
  ASSUME NEW F \in Seq(OutLine), NEW B \in Seq(OutLine), NEW S \in Seq(Inputs),
         NEW k \in Nat, NEW n \in Nat, k <= n, NEW res \in BOOLEAN, NEW pay, NEW g,
         NEW up, Reading(F \o B, S, k, res, pay, g, up)
  PROVE  Reading(F, S, n, res, pay, g, FALSE)
<1> DEFINE G == F \o B
<1>1. PICK r \in 0..k, p \in [1..Len(G) -> Nat] :
        /\ Placed(G, S, k, r, p) /\ Unbroken(G, p) /\ Expected(G, res, pay)
        /\ Collected(g, S, r)
  BY DEF Reading
<1>2. /\ Len(G) = Len(F) + Len(B) /\ Len(F) \in Nat /\ Len(B) \in Nat
      /\ \A i \in 1..Len(F) : G[i] = F[i]
  BY ConcatAt
<1> HIDE DEF G
<1> DEFINE s == [i \in 1..Len(F) |-> p[i]]
<1>3. s \in [1..Len(F) -> Nat] /\ \A i \in 1..Len(F) : s[i] = p[i] /\ i \in 1..Len(G)
  BY <1>2
<1> HIDE DEF s
<1>4. r \in 0..n
  OBVIOUS
<1>5. Placed(F, S, n, r, s)
  <2>1. \A i \in 1..Len(F) : F[i].tag \in ResultTags =>
          r < s[i] /\ s[i] <= n /\ F[i].of = S[s[i]] /\ S[s[i]] \notin ErrLines
    <3> SUFFICES ASSUME NEW i \in 1..Len(F), F[i].tag \in ResultTags
                 PROVE  r < s[i] /\ s[i] <= n /\ F[i].of = S[s[i]] /\ S[s[i]] \notin ErrLines
      OBVIOUS
    <3>1. i \in 1..Len(G) /\ G[i] = F[i] /\ s[i] = p[i] /\ p[i] \in Nat
      BY <1>2, <1>3
    <3>2. r < p[i] /\ p[i] <= k /\ F[i].of = S[p[i]] /\ S[p[i]] \notin ErrLines
      BY <1>1, <3>1 DEF Placed
    <3> QED
      BY <3>1, <3>2
  <2>2. \A i, j \in 1..Len(F) :
          i < j /\ F[i].tag = "close" /\ F[j].tag \in ResultTags => s[i] < s[j]
    <3> SUFFICES ASSUME NEW i \in 1..Len(F), NEW j \in 1..Len(F), i < j,
                        F[i].tag = "close", F[j].tag \in ResultTags
                 PROVE  s[i] < s[j]
      OBVIOUS
    <3>1. /\ i \in 1..Len(G) /\ G[i] = F[i] /\ s[i] = p[i]
          /\ j \in 1..Len(G) /\ G[j] = F[j] /\ s[j] = p[j]
      BY <1>2, <1>3
    <3> QED
      BY <1>1, <3>1 DEF Placed
  <2>3. ASSUME NEW i \in 1..Len(F), F[i].tag \in ResultTags,
               NEW m \in r + 1..s[i] - 1, S[m] \notin ErrLines
        PROVE  \E j \in 1..i - 1 : F[j].tag = "close" /\ s[j] = m
    <3>1. i \in 1..Len(G) /\ G[i] = F[i] /\ s[i] = p[i]
      BY <1>2, <1>3
    <3>2. PICK j \in 1..i - 1 : G[j].tag = "close" /\ p[j] = m
      BY <1>1, <2>3, <3>1 DEF Placed
    <3>3. j \in 1..Len(F)
      BY <1>2
    <3> QED
      BY <1>2, <1>3, <3>2, <3>3
  <2> QED
    BY <2>1, <2>2, <2>3 DEF Placed
<1>6. Unbroken(F, s)
  <2> SUFFICES ASSUME NEW i \in 1..Len(F), NEW j \in 1..Len(F), j = i + 1
               PROVE  /\ F[i].tag = "open" =>
                           F[j].tag = "eof" \/ (F[j].tag = "body" /\ s[j] = s[i])
                      /\ F[i].tag = "body" =>
                           F[j].tag = "eof" \/ (F[j].tag = "close" /\ s[j] = s[i])
                      /\ F[i].tag \in {"log", "close"} => F[j].tag \in {"log", "open", "eof"}
    BY DEF Unbroken
  <2>1. /\ i \in 1..Len(G) /\ G[i] = F[i] /\ s[i] = p[i]
        /\ j \in 1..Len(G) /\ G[j] = F[j] /\ s[j] = p[j]
    BY <1>2, <1>3
  <2> QED
    BY <1>1, <2>1 DEF Unbroken
<1>7. Expected(F, res, pay)
  <2>1. F # <<>> => G # <<>> /\ G[1] = F[1]
    BY <1>2
  <2> QED
    BY <1>1, <2>1 DEF Expected
<1> QED
  BY <1>1, <1>3, <1>4, <1>5, <1>6, <1>7 DEF Reading

\* Another line is written.
LEMMA WriteReading ==
  ASSUME NEW F \in Seq(OutLine), NEW S \in Seq(Inputs), NEW x \in Inputs,
         NEW k \in Nat, k <= Len(S), NEW res \in BOOLEAN, NEW pay, NEW g,
         NEW up, Reading(F, S, k, res, pay, g, up)
  PROVE  Reading(F, Append(S, x), k, res, pay, g, up)
<1>1. PICK r \in 0..k, p \in [1..Len(F) -> Nat] :
        /\ Placed(F, S, k, r, p) /\ Unbroken(F, p) /\ Expected(F, res, pay)
        /\ Collected(g, S, r) /\ (up => Entire(F, S, k, r, p))
  BY DEF Reading
<1>2. \A i \in 1..Len(S) : Append(S, x)[i] = S[i]
  OBVIOUS
<1>3. Placed(F, Append(S, x), k, r, p)
  <2>1. ASSUME NEW i \in 1..Len(F), F[i].tag \in ResultTags
        PROVE  p[i] \in 1..Len(S)
    BY <1>1, <2>1 DEF Placed
  <2>2. ASSUME NEW i \in 1..Len(F), F[i].tag \in ResultTags,
               NEW m \in r + 1..p[i] - 1, Append(S, x)[m] \notin ErrLines
        PROVE  \E j \in 1..i - 1 : F[j].tag = "close" /\ p[j] = m
    <3>1. m \in 1..Len(S)
      BY <2>1, <2>2
    <3> QED
      BY <1>1, <1>2, <2>2, <3>1 DEF Placed
  <2>3. \A i, j \in 1..Len(F) :
          i < j /\ F[i].tag = "close" /\ F[j].tag \in ResultTags => p[i] < p[j]
    BY <1>1 DEF Placed
  <2>4. \A i \in 1..Len(F) : F[i].tag \in ResultTags =>
          /\ r < p[i] /\ p[i] <= k /\ F[i].of = Append(S, x)[p[i]]
          /\ Append(S, x)[p[i]] \notin ErrLines
    BY <1>1, <1>2, <2>1 DEF Placed
  <2> QED
    BY <2>2, <2>3, <2>4 DEF Placed
<1>5. ASSUME up PROVE Entire(F, Append(S, x), k, r, p)
  <2>1. \A m \in r + 1..k : m \in 1..Len(S)
    OBVIOUS
  <2> QED
    BY <1>1, <1>2, <1>5, <2>1 DEF Entire
<1>4. Collected(g, Append(S, x), r)
  <2>1. \A m \in 1..r : m \in 1..Len(S)
    OBVIOUS
  <2>2. SQ!AcceptedTo(Append(S, x), r) = SQ!AcceptedTo(S, r)
    BY <1>2, <2>1 DEF SQ!AcceptedTo
  <2> QED
    BY <1>1, <1>2, <2>1, <2>2 DEF Collected
<1> QED
  BY <1>1, <1>3, <1>4, <1>5 DEF Reading

\* What is left in flight when the first line is taken.
LEMMA TailPlaced ==
  ASSUME NEW F \in Seq(OutLine), F # <<>>, NEW S \in Seq(Inputs), NEW k \in Nat,
         NEW r \in 0..k, NEW p \in [1..Len(F) -> Nat],
         Placed(F, S, k, r, p), Unbroken(F, p)
  PROVE  \E s \in [1..Len(Tail(F)) -> Nat] :
           LET b == IF F[1].tag = "close" THEN p[1] ELSE r
           IN  /\ Placed(Tail(F), S, k, b, s) /\ Unbroken(Tail(F), s)
               /\ Entire(F, S, k, r, p) => Entire(Tail(F), S, k, b, s)
<1> DEFINE G == Tail(F)
           s == [i \in 1..Len(G) |-> p[i + 1]]
           b == IF F[1].tag = "close" THEN p[1] ELSE r
<1>1. /\ Len(G) = Len(F) - 1 /\ Len(G) \in Nat /\ Len(F) \in Nat /\ 1 \in 1..Len(F)
      /\ \A i \in 1..Len(G) : i + 1 \in 1..Len(F) /\ G[i] = F[i + 1]
  BY TailAt
<1> HIDE DEF G
<1>2. s \in [1..Len(G) -> Nat] /\ \A i \in 1..Len(G) : s[i] = p[i + 1]
  BY <1>1
<1> HIDE DEF s
<1>7. b \in Nat /\ r <= b /\ (F[1].tag = "close" => b = p[1])
  BY <1>1 DEF Placed, ResultTags
<1>8. F[1].tag # "close" => b = r
  OBVIOUS
<1> HIDE DEF b
<1>3. ASSUME NEW i \in 1..Len(G), G[i].tag \in ResultTags
      PROVE  b < s[i] /\ s[i] <= k /\ G[i].of = S[s[i]] /\ S[s[i]] \notin ErrLines
  <2>1. i + 1 \in 1..Len(F) /\ G[i] = F[i + 1] /\ s[i] = p[i + 1] /\ 1 < i + 1
    BY <1>1, <1>2
  <2>2. r < s[i] /\ s[i] <= k /\ G[i].of = S[s[i]] /\ S[s[i]] \notin ErrLines
    BY <1>3, <2>1 DEF Placed
  <2>3. F[1].tag = "close" => p[1] < s[i]
    BY <1>1, <1>3, <2>1 DEF Placed
  <2> QED
    BY <1>7, <1>8, <2>2, <2>3
<1>4. ASSUME NEW i \in 1..Len(G), NEW j \in 1..Len(G), i < j, G[i].tag = "close",
             G[j].tag \in ResultTags
      PROVE  s[i] < s[j]
  <2>1. /\ i + 1 \in 1..Len(F) /\ G[i] = F[i + 1] /\ s[i] = p[i + 1]
        /\ j + 1 \in 1..Len(F) /\ G[j] = F[j + 1] /\ s[j] = p[j + 1]
    BY <1>1, <1>2
  <2>2. i + 1 < j + 1
    BY <1>4
  <2> QED
    BY <1>4, <2>1, <2>2 DEF Placed
<1>9. \* A line that is still to be answered is not answered by the first line.
      ASSUME NEW m \in b + 1..k, NEW j \in 1..Len(F), F[j].tag = "close", p[j] = m
      PROVE  j > 1
  BY <1>7, <1>9
<1>10. ASSUME NEW i \in 1..Len(G), G[i].tag \in ResultTags,
              NEW m \in b + 1..s[i] - 1, S[m] \notin ErrLines
       PROVE  \E j \in 1..i - 1 : G[j].tag = "close" /\ s[j] = m
  <2>1. i + 1 \in 1..Len(F) /\ G[i] = F[i + 1] /\ s[i] = p[i + 1] /\ s[i] <= k /\ s[i] \in Nat
    BY <1>1, <1>2, <1>3, <1>10
  <2>2. m \in r + 1..p[i + 1] - 1 /\ m \in b + 1..k
    BY <1>7, <2>1
  <2>3. PICK j \in 1..(i + 1) - 1 : F[j].tag = "close" /\ p[j] = m
    BY <1>10, <2>1, <2>2 DEF Placed
  <2>4. j \in 1..Len(F)
    BY <2>1
  <2>5. j > 1
    BY <1>9, <2>2, <2>3, <2>4
  <2>6. j - 1 \in 1..i - 1 /\ j - 1 \in 1..Len(G) /\ (j - 1) + 1 = j
    BY <1>1, <2>5
  <2>7. G[j - 1] = F[j] /\ s[j - 1] = p[j]
    BY <1>1, <1>2, <2>6
  <2> QED
    BY <2>3, <2>6, <2>7
<1>11. ASSUME Entire(F, S, k, r, p) PROVE Entire(G, S, k, b, s)
  <2> SUFFICES ASSUME NEW m \in b + 1..k, S[m] \notin ErrLines
               PROVE  \E j \in 1..Len(G) : G[j].tag = "close" /\ s[j] = m
    BY DEF Entire
  <2>1. m \in r + 1..k
    BY <1>7
  <2>2. PICK j \in 1..Len(F) : F[j].tag = "close" /\ p[j] = m
    BY <1>11, <2>1 DEF Entire
  <2>3. j > 1
    BY <1>9, <2>2
  <2>4. j - 1 \in 1..Len(G) /\ (j - 1) + 1 = j
    BY <1>1, <2>3
  <2>5. G[j - 1] = F[j] /\ s[j - 1] = p[j]
    BY <1>1, <1>2, <2>4
  <2> QED
    BY <2>2, <2>4, <2>5
<1>5. Placed(G, S, k, b, s)
  BY <1>3, <1>4, <1>10 DEF Placed
<1>6. Unbroken(G, s)
  <2> SUFFICES ASSUME NEW i \in 1..Len(G), NEW j \in 1..Len(G), j = i + 1
               PROVE  /\ G[i].tag = "open" =>
                           G[j].tag = "eof" \/ (G[j].tag = "body" /\ s[j] = s[i])
                      /\ G[i].tag = "body" =>
                           G[j].tag = "eof" \/ (G[j].tag = "close" /\ s[j] = s[i])
                      /\ G[i].tag \in {"log", "close"} => G[j].tag \in {"log", "open", "eof"}
    BY DEF Unbroken
  <2>1. /\ i + 1 \in 1..Len(F) /\ G[i] = F[i + 1] /\ s[i] = p[i + 1]
        /\ j + 1 \in 1..Len(F) /\ G[j] = F[j + 1] /\ s[j] = p[j + 1]
        /\ j + 1 = (i + 1) + 1
    BY <1>1, <1>2
  <2> QED
    BY <2>1 DEF Unbroken
<1> QED
  BY <1>2, <1>5, <1>6, <1>11 DEF G, b

\* The line behind the first continues the block of the first.
LEMMA NextLine ==
  ASSUME NEW F \in Seq(OutLine), F # <<>>, Tail(F) # <<>>, NEW S \in Seq(Inputs),
         NEW k \in Nat, NEW r \in 0..k, NEW p \in [1..Len(F) -> Nat],
         Placed(F, S, k, r, p), Unbroken(F, p)
  PROVE  /\ F[1].tag = "open" => Tail(F)[1].tag \in {"body", "eof"}
         /\ F[1].tag = "body" =>
              Tail(F)[1].tag = "eof" \/ (Tail(F)[1].tag = "close" /\ Tail(F)[1].of = F[1].of)
         /\ F[1].tag \in {"log", "close"} => Tail(F)[1].tag \in {"log", "open", "eof"}
<1>1. Tail(F) \in Seq(OutLine) /\ Len(Tail(F)) = Len(F) - 1 /\ 1 \in 1..Len(F)
  BY TailAt
<1>2. 1 \in 1..Len(Tail(F))
  BY <1>1
<1>3. 2 \in 1..Len(F) /\ Tail(F)[1] = F[2]
  BY <1>2, TailAt
<1>4. /\ F[1].tag = "open" => F[2].tag = "eof" \/ (F[2].tag = "body" /\ p[2] = p[1])
      /\ F[1].tag = "body" => F[2].tag = "eof" \/ (F[2].tag = "close" /\ p[2] = p[1])
      /\ F[1].tag \in {"log", "close"} => F[2].tag \in {"log", "open", "eof"}
  <2>1. 2 = 1 + 1
    OBVIOUS
  <2> QED
    BY <1>1, <1>3, <2>1 DEF Unbroken
<1>5. \A i \in {1, 2} : F[i].tag \in {"body", "close"} => F[i].of = S[p[i]]
  BY <1>1, <1>3 DEF Placed, ResultTags
<1> QED
  BY <1>3, <1>4, <1>5

\* _read_result skips a line outside a result, or finds the start tag.
LEMMA SkipReading ==
  ASSUME NEW F \in Seq(OutLine), F # <<>>, NEW S \in Seq(Inputs), NEW k \in Nat,
         NEW pay, NEW g, NEW up \in BOOLEAN, NEW res, ~res,
         Reading(F, S, k, res, pay, g, up), F[1].tag # "eof",
         NEW next, next <=> F[1].tag = "open"
  PROVE  Reading(Tail(F), S, k, next, pay, g, up)
<1>1. PICK r \in 0..k, p \in [1..Len(F) -> Nat] :
        /\ Placed(F, S, k, r, p) /\ Unbroken(F, p) /\ Expected(F, res, pay)
        /\ Collected(g, S, r) /\ (up => Entire(F, S, k, r, p))
  BY DEF Reading
<1>2. PICK s \in [1..Len(Tail(F)) -> Nat] :
        /\ Placed(Tail(F), S, k, r, s) /\ Unbroken(Tail(F), s)
        /\ up => Entire(Tail(F), S, k, r, s)
  <2>1. F[1].tag # "close"
    BY <1>1 DEF Expected
  <2> QED
    BY <1>1, <2>1, TailPlaced
<1>3. pay = <<>> /\ F[1].tag \in {"log", "open"}
  BY <1>1 DEF Expected
<1>4. Expected(Tail(F), next, pay)
  BY <1>1, <1>3, NextLine DEF Expected
<1> QED
  BY <1>1, <1>2, <1>3, <1>4 DEF Reading

\* It collects the line of a result.
LEMMA BodyReading ==
  ASSUME NEW F \in Seq(OutLine), F # <<>>, NEW S \in Seq(Inputs), NEW k \in Nat,
         NEW pay \in Seq(OutLine), NEW g, NEW up \in BOOLEAN, NEW res, res,
         Reading(F, S, k, res, pay, g, up), F[1].tag \notin {"eof", "close"}
  PROVE  Reading(Tail(F), S, k, res, Append(pay, F[1]), g, up)
<1>1. PICK r \in 0..k, p \in [1..Len(F) -> Nat] :
        /\ Placed(F, S, k, r, p) /\ Unbroken(F, p) /\ Expected(F, res, pay)
        /\ Collected(g, S, r) /\ (up => Entire(F, S, k, r, p))
  BY DEF Reading
<1>2. PICK s \in [1..Len(Tail(F)) -> Nat] :
        /\ Placed(Tail(F), S, k, r, s) /\ Unbroken(Tail(F), s)
        /\ up => Entire(Tail(F), S, k, r, s)
  <2>1. F[1].tag # "close"
    BY <1>1 DEF Expected
  <2> QED
    BY <1>1, <2>1, TailPlaced
<1>3. pay = <<>> /\ F[1].tag = "body"
  BY <1>1 DEF Expected
<1>4. Append(pay, F[1]) = <<Out("body", F[1].of)>> /\ Append(pay, F[1]) # <<>>
  <2>1. F[1] \in OutLine
    BY TailAt
  <2>2. F[1] = Out("body", F[1].of)
    BY <1>3, <2>1 DEF OutLine, Out
  <2> QED
    BY <1>3, <2>2
<1>5. Expected(Tail(F), res, Append(pay, F[1]))
  <2>1. Tail(F) # <<>> =>
          Tail(F)[1].tag = "eof" \/ (Tail(F)[1].tag = "close" /\ Tail(F)[1].of = F[1].of)
    BY <1>1, <1>3, NextLine
  <2> QED
    BY <1>4, <2>1 DEF Expected
<1> QED
  BY <1>1, <1>2, <1>5 DEF Reading

\* The end tag closes the answer to the first accepted line that has none yet.
LEMMA CloseCount ==
  ASSUME NEW F \in Seq(OutLine), F # <<>>, NEW S \in Seq(Inputs), NEW k \in Nat,
         NEW g, NEW r \in 0..k, NEW p \in [1..Len(F) -> Nat],
         Placed(F, S, k, r, p), Collected(g, S, r), F[1].tag = "close"
  PROVE  /\ p[1] \in 1..k /\ r < p[1] /\ F[1].of = S[p[1]]
         /\ S[p[1]] \notin ErrLines
         /\ Cardinality(SQ!AcceptedTo(S, p[1] - 1)) = Len(g)
<1> DEFINE q == p[1]
<1>1. 1 \in 1..Len(F) /\ F[1].tag \in ResultTags
  BY TailAt DEF ResultTags
<1>2. q \in Nat /\ r < q /\ q <= k /\ F[1].of = S[q] /\ S[q] \notin ErrLines
  BY <1>1 DEF Placed
<1> HIDE DEF q
<1>4. SQ!AcceptedTo(S, q - 1) = SQ!AcceptedTo(S, r)
  <2>1. \A m \in r + 1..q - 1 : S[m] \notin ErrLines =>
          \E j \in 1..1 - 1 : F[j].tag = "close" /\ p[j] = m
    BY <1>1 DEF Placed, q
  <2>2. \A j \in 1..1 - 1 : FALSE
    OBVIOUS
  <2>3. \A m \in r + 1..q - 1 : S[m] \in ErrLines
    BY <2>1, <2>2
  <2> QED
    BY <1>2, <2>3 DEF SQ!AcceptedTo
<1>5. Cardinality(SQ!AcceptedTo(S, q - 1)) = Len(g)
  BY <1>4 DEF Collected
<1>6. q \in 1..k
  BY <1>2
<1> QED
  BY <1>2, <1>5, <1>6 DEF q

\* The results collected with it.
LEMMA CloseCollected ==
  ASSUME NEW F \in Seq(OutLine), F # <<>>, NEW S \in Seq(Inputs), NEW k \in Nat,
         NEW pay \in Seq(OutLine), NEW g \in Seq(Seq(OutLine)),
         NEW r \in 0..k, NEW p \in [1..Len(F) -> Nat],
         Placed(F, S, k, r, p), Collected(g, S, r), F[1].tag = "close",
         pay = <<Out("body", F[1].of)>>
  PROVE  Collected(Append(g, pay), S, p[1])
<1> DEFINE q == p[1]
           G == Append(g, pay)
<1>1. /\ q \in 1..k /\ r < q /\ r \in 0..k /\ q \in Nat /\ F[1].of = S[q] /\ S[q] \notin ErrLines
      /\ Cardinality(SQ!AcceptedTo(S, q - 1)) = Len(g)
  <2>1. /\ p[1] \in 1..k /\ r < p[1] /\ F[1].of = S[p[1]] /\ S[p[1]] \notin ErrLines
        /\ Cardinality(SQ!AcceptedTo(S, p[1] - 1)) = Len(g)
    BY CloseCount
  <2> QED
    BY <2>1
<1>2. /\ Len(G) = Len(g) + 1 /\ Len(g) \in Nat /\ Len(g) <= r /\ G[Len(g) + 1] = pay
      /\ \A m \in 1..Len(g) : G[m] = g[m]
  BY DEF Collected
<1> HIDE DEF q, G
<1>3. Len(G) <= q
  BY <1>1, <1>2
<1>4. ASSUME Len(G) = q
      PROVE  \A m \in 1..q : S[m] \notin ErrLines /\ G[m] = <<Out("body", S[m])>>
  <2>1. Len(g) = r /\ q = r + 1
    BY <1>1, <1>2, <1>4
  <2>2. \A m \in 1..r : S[m] \notin ErrLines /\ g[m] = <<Out("body", S[m])>>
    BY <2>1 DEF Collected
  <2>3. \A m \in 1..q : m \in 1..r \/ m = q
    BY <2>1, <1>1
  <2> QED
    BY <1>1, <1>2, <2>1, <2>2, <2>3
<1>5. Cardinality(SQ!AcceptedTo(S, q)) = Len(G)
  <2>1. SQ!AcceptedTo(S, q) = SQ!AcceptedTo(S, q - 1) \union {q} /\ q \notin SQ!AcceptedTo(S, q - 1)
    BY <1>1 DEF SQ!AcceptedTo
  <2>4. 1 \in Int /\ q - 1 \in Int
    BY <1>1
  <2>2. IsFiniteSet(SQ!AcceptedTo(S, q - 1))
    <3>1. IsFiniteSet(1..q - 1)
      BY <1>1, <2>4, FS_Interval
    <3> QED
      BY <3>1, FS_Subset DEF SQ!AcceptedTo
  <2>3. Cardinality(SQ!AcceptedTo(S, q)) = Cardinality(SQ!AcceptedTo(S, q - 1)) + 1
    BY <2>1, <2>2, FS_AddElement
  <2> QED
    BY <1>1, <1>2, <2>3
<1>6. Collected(G, S, q)
  BY <1>3, <1>4, <1>5 DEF Collected
<1> QED
  BY <1>6 DEF G, q

\* It finds the end tag, and goes on outside a result.
LEMMA CloseReading ==
  ASSUME NEW F \in Seq(OutLine), F # <<>>, NEW S \in Seq(Inputs), NEW k \in Nat, k <= Len(S),
         NEW pay \in Seq(OutLine), NEW g \in Seq(Seq(OutLine)), NEW up \in BOOLEAN,
         NEW res, res, NEW next, ~next,
         Reading(F, S, k, res, pay, g, up), F[1].tag = "close"
  PROVE  Reading(Tail(F), S, k, next, <<>>, Append(g, pay), up)
<1>1. PICK r \in 0..k, p \in [1..Len(F) -> Nat] :
        /\ Placed(F, S, k, r, p) /\ Unbroken(F, p) /\ Expected(F, res, pay)
        /\ Collected(g, S, r) /\ (up => Entire(F, S, k, r, p))
  BY DEF Reading
<1>2. PICK s \in [1..Len(Tail(F)) -> Nat] :
        /\ Placed(Tail(F), S, k, p[1], s) /\ Unbroken(Tail(F), s)
        /\ up => Entire(Tail(F), S, k, p[1], s)
  BY <1>1, TailPlaced
<1>3. Expected(Tail(F), next, <<>>)
  BY <1>1, NextLine DEF Expected
<1>4. pay = <<Out("body", F[1].of)>>
  BY <1>1 DEF Expected
<1>5. Collected(Append(g, pay), S, p[1])
  BY <1>1, <1>4, CloseCollected
<1>6. p[1] \in 0..k
  <2>1. p[1] \in 1..k
    BY <1>1, CloseCount
  <2> QED
    BY <2>1
<1> QED
  BY <1>2, <1>3, <1>5, <1>6 DEF Reading

\* The last result a request may have answers the last line written, and
\* nothing of a result is left behind it.
LEMMA CloseLast ==
  ASSUME NEW F \in Seq(OutLine), F # <<>>, NEW S \in Seq(Inputs), NEW k \in Nat, k <= Len(S),
         NEW pay \in Seq(OutLine), NEW g \in Seq(Seq(OutLine)),
         NEW r \in 0..k, NEW p \in [1..Len(F) -> Nat],
         Placed(F, S, k, r, p), Unbroken(F, p), Collected(g, S, r), F[1].tag = "close",
         pay = <<Out("body", F[1].of)>>, Len(S) <= Len(g) + 1
  PROVE  /\ k = Len(S) /\ Len(S) = Len(g) + 1
         /\ Append(g, pay) = AnswersTo(S)
         /\ \A i \in 1..Len(S) : S[i] \notin ErrLines
         /\ \A i \in 1..Len(Tail(F)) : Tail(F)[i].tag \notin ResultTags
<1>2. PICK s \in [1..Len(Tail(F)) -> Nat] : Placed(Tail(F), S, k, p[1], s)
  BY TailPlaced
<1> DEFINE q == p[1]
           G == Append(g, pay)
<1>3. q \in 1..k
  BY CloseCount
<1>4. Collected(G, S, q)
  BY CloseCollected
<1>5. Len(G) = Len(g) + 1 /\ Len(g) \in Nat /\ G \in Seq(Seq(OutLine))
  OBVIOUS
<1> HIDE DEF q, G
<1>6. k = Len(S) /\ Len(G) = q /\ q = k /\ Len(S) = Len(g) + 1
  <2>1. Len(S) \in Nat /\ Len(S) <= Len(G) /\ Len(G) <= q /\ q <= k
    BY <1>3, <1>4, <1>5 DEF Collected
  <2> QED
    BY <1>3, <1>5, <2>1
<1>7. \A m \in 1..Len(S) : S[m] \notin ErrLines /\ G[m] = <<Out("body", S[m])>>
  BY <1>4, <1>6 DEF Collected
<1>8. G = AnswersTo(S)
  <2>1. G = [i \in 1..Len(G) |-> G[i]] /\ Len(G) = Len(S)
    BY <1>5, <1>6
  <2> QED
    BY <1>7, <2>1 DEF AnswersTo
<1>9. ASSUME NEW i \in 1..Len(Tail(F)) PROVE Tail(F)[i].tag \notin ResultTags
  <2>1. s[i] \in Nat
    OBVIOUS
  <2>2. Tail(F)[i].tag \in ResultTags => q < s[i] /\ s[i] <= k
    BY <1>2 DEF Placed, q
  <2> QED
    BY <1>3, <1>6, <2>1, <2>2
<1> QED
  BY <1>6, <1>7, <1>8, <1>9 DEF G

-----------------------------------------------------------------------------

\* What is in flight is output, what is in stdin is input.
LEMMA FlightType ==
  ASSUME TypeOK
  PROVE  /\ stdoutQueue \in Seq(OutLine) /\ stdout \in Seq(OutLine) /\ outbuf \in Seq(OutLine)
         /\ stdoutQueue \o stdout \in Seq(OutLine) /\ InFlight \in Seq(OutLine)
         /\ stdin \in Seq(Inputs)
<1>1. /\ stdoutQueue \in Seq(OutLine) /\ stdout \in Seq(Printed) /\ outbuf \in Seq(Printed)
      /\ stdin \in Seq(Inputs)
  BY DEF TypeOK, ServerType, BackendType
<1>2. Seq(Printed) \subseteq Seq(OutLine)
  BY PrintedIsLine
<1>3. stdoutQueue \o stdout \in Seq(OutLine)
  BY <1>1, <1>2, ConcatAt
<1>4. InFlight \in Seq(OutLine)
  BY <1>1, <1>2, <1>3, ConcatAt DEF InFlight
<1> QED
  BY <1>1, <1>2, <1>3, <1>4

\* A step that is none of a client's business.
LEMMA FlowFrame ==
  ASSUME NEW d \in Clients, Asking(d) => Flow(d),
         InFlight' = InFlight, stdin' = stdin, Alive' = Alive,
         pc'[d] = pc[d], sent'[d] = sent[d], inResult'[d] = inResult[d],
         payload'[d] = payload[d], got'[d] = got[d]
  PROVE  (Asking(d) => Flow(d))'
<1>1. Asking(d)' = Asking(d) /\ InRead(d)' = InRead(d) /\ PayRead(d)' = PayRead(d)
  BY DEF Asking, InRead, PayRead
<1>2. Flow(d)' = Flow(d)
  BY <1>1 DEF Flow
<1> QED
  BY <1>1, <1>2

\* A line that goes from the head of one pipe to the end of the next.
LEMMA MoveHead ==
  ASSUME NEW T, NEW a \in Seq(T), NEW b \in Seq(T), b # <<>>
  PROVE  Append(a, Head(b)) \o Tail(b) = a \o b
<1>1. /\ Head(b) \in T /\ Tail(b) \in Seq(T) /\ b = <<Head(b)>> \o Tail(b)
      /\ <<Head(b)>> \in Seq(T)
  BY HeadTailProperties
<1>2. Append(a, Head(b)) = a \o <<Head(b)>>
  BY <1>1, AppendIsConcat
<1>3. (a \o <<Head(b)>>) \o Tail(b) = a \o (<<Head(b)>> \o Tail(b))
  BY <1>1, ConcatAssociative
<1> QED
  BY <1>1, <1>2, <1>3

\* The clients, what is in flight and the life of the backend as they were.
Still == /\ UNCHANGED <<pc, asked, text, sent, inResult, payload, got, reply>>
         /\ InFlight' = InFlight /\ stdin' = stdin /\ Alive' = Alive

\* The steps by which lines move from buffer to pipe and from pipe to queue.
LEMMA MoveSteps ==
  ASSUME TypeOK, DrainStdout \/ BackendFlush
  PROVE  Still
<1>0. /\ stdoutQueue \in Seq(OutLine) /\ stdout \in Seq(OutLine) /\ outbuf \in Seq(OutLine)
  BY FlightType
<1>1. CASE DrainStdout
  <2>1. /\ stdout # <<>> /\ stdout' = Tail(stdout) /\ outbuf' = outbuf
        /\ stdoutQueue' = Append(stdoutQueue, Head(stdout))
        /\ UNCHANGED <<clientVars, backend, stdin>>
    BY <1>1 DEF DrainStdout
  <2>2. stdoutQueue' \o stdout' = stdoutQueue \o stdout
    BY <1>0, <2>1, MoveHead
  <2> QED
    BY <2>1, <2>2 DEF Still, InFlight, Alive, clientVars
<1>2. CASE BackendFlush
  <2>1. /\ outbuf # <<>> /\ stdout' = Append(stdout, Head(outbuf)) /\ outbuf' = Tail(outbuf)
        /\ UNCHANGED <<clientVars, backend, stdin, stdoutQueue>>
    BY <1>2 DEF BackendFlush
  <2>2. /\ stdout' \in Seq(OutLine) /\ outbuf' \in Seq(OutLine)
    BY <1>0, <2>1, HeadTailProperties, AppendProperties
  <2>3. stdout' \o outbuf' = stdout \o outbuf
    BY <1>0, <2>1, MoveHead
  <2>4. (stdoutQueue \o stdout') \o outbuf' = stdoutQueue \o (stdout' \o outbuf')
    BY <1>0, <2>2, ConcatAssociative
  <2>5. (stdoutQueue \o stdout) \o outbuf = stdoutQueue \o (stdout \o outbuf)
    BY <1>0, ConcatAssociative
  <2>6. InFlight' = InFlight
    BY <2>1, <2>3, <2>4, <2>5 DEF InFlight
  <2> QED
    BY <2>1, <2>6 DEF Still, Alive, clientVars
<1> QED
  BY <1>1, <1>2

\* The steps that the flow of results does not see.
LEMMA SilentSteps ==
  ASSUME TypeOK,
         \/ Timer \/ DrainStderr \/ (\E d \in Drains : RedCheck(d) \/ RedPut(d))
         \/ BackendNoise \/ BackendWriteErr \/ BackendTeardown \/ UNCHANGED vars
  PROVE  Still
<1>1. UNCHANGED <<clientVars, stdin, outbuf, stdout, stdoutQueue>>
  BY DEF Timer, TimerFire, TimerEnter, TimerPrint, TimerRearm, DrainStderr, RedCheck, RedPut,
         BackendNoise, BackendWriteErr, BackendTeardown, vars, backendVars
<1>2. Alive' = Alive
  BY DEF Timer, TimerFire, TimerEnter, TimerPrint, TimerRearm, DrainStderr, RedCheck, RedPut,
         BackendNoise, BackendWriteErr, BackendTeardown, vars, backendVars, Alive
<1> QED
  BY <1>1, <1>2 DEF Still, InFlight, clientVars

\* The clients, as far as the flow is concerned.
ClientFlow == QuietOK /\ FlowOK /\ AnswersOwnLines

\* A step that moves lines along the pipes, or touches none, keeps the invariant.
LEMMA StillFlow == ASSUME ClientFlow, Still PROVE ClientFlow'
<1> USE DEF ClientFlow, Still
<1>1. QuietOK'
  BY DEF QuietOK
<1>2. FlowOK'
  BY FlowFrame DEF FlowOK
<1>3. AnswersOwnLines'
  BY DEF AnswersOwnLines
<1> QED
  BY <1>1, <1>2, <1>3

\* Lines outside a result need no place.
LEMMA LogsFit ==
  ASSUME NEW B \in Seq(OutLine), NEW S \in Seq(Inputs), NEW k \in Nat,
         \/ \A i \in 1..Len(B) : B[i].tag = "log"
         \/ Len(B) = 1 /\ B[1].tag = "eof"
  PROVE  /\ \A i \in 1..Len(B) : B[i].tag \notin ResultTags
         /\ \E q \in [1..Len(B) -> Nat] :
              Placed(B, S, k, k, q) /\ Unbroken(B, q) /\ Entire(B, S, k, k, q)
<1> DEFINE q == [i \in 1..Len(B) |-> 0]
<1>1. \A i \in 1..Len(B) : B[i].tag \notin ResultTags
  BY DEF ResultTags
<1>2. Placed(B, S, k, k, q)
  BY <1>1 DEF Placed
<1>3. Unbroken(B, q)
  BY DEF Unbroken
<1>4. q \in [1..Len(B) -> Nat]
  OBVIOUS
<1>5. Entire(B, S, k, k, q)
  BY DEF Entire
<1> QED
  BY <1>1, <1>2, <1>3, <1>4, <1>5

\* The answer to the next line of the request.
LEMMA BlockFits ==
  ASSUME NEW S \in Seq(Inputs), NEW n \in 1..Len(S)
  PROVE  /\ Block(S[n]) \in Seq(OutLine) /\ Len(Block(S[n])) \in Nat \ {0}
         /\ Block(S[n])[1].tag = "log"
         /\ Block(S[n])[Len(Block(S[n]))].tag \in {"log", "close"}
         /\ \E q \in [1..Len(Block(S[n])) -> Nat] :
              /\ Placed(Block(S[n]), S, n, n - 1, q) /\ Unbroken(Block(S[n]), q)
              /\ Entire(Block(S[n]), S, n, n - 1, q)
<1> DEFINE x == S[n]
           B == Block(x)
           q == [i \in 1..Len(B) |-> n]
<1>0. x \in Inputs /\ n \in Nat
  OBVIOUS
<1> HIDE DEF x
<1>1. B \in Seq(OutLine)
  <2>1. B \in Seq(Printed)
    BY <1>0, BlockType
  <2> QED
    BY <2>1, PrintedIsLine
<1>2. \/ /\ x \in ErrLines /\ Len(B) = 2
         /\ B[1].tag = "log" /\ B[2].tag = "log"
      \/ /\ x \notin ErrLines /\ Len(B) = 4 /\ \A i \in 1..4 : B[i].of = x
         /\ B[1].tag = "log" /\ B[2].tag = "open" /\ B[3].tag = "body" /\ B[4].tag = "close"
  BY DEF Block, Echo, Out
<1> HIDE DEF B
<1>3. q \in [1..Len(B) -> Nat] /\ \A i \in 1..Len(B) : q[i] = n
  BY <1>0
<1> HIDE DEF q
<1>4. Placed(B, S, n, n - 1, q)
  <2>1. \A i \in 1..Len(B) : B[i].tag \in ResultTags =>
          n - 1 < q[i] /\ q[i] <= n /\ B[i].of = S[q[i]] /\ S[q[i]] \notin ErrLines
    <3>1. CASE x \in ErrLines
      <4>1. \A i \in 1..Len(B) : B[i].tag \notin ResultTags
        BY <1>2, <3>1 DEF ResultTags
      <4> QED
        BY <4>1
    <3>2. CASE x \notin ErrLines
      <4>1. \A i \in 1..Len(B) : B[i].of = x
        BY <1>2, <3>2
      <4> QED
        BY <1>0, <1>3, <3>2, <4>1 DEF x
    <3> QED
      BY <3>1, <3>2
  <2>2. \A i, j \in 1..Len(B) :
          i < j /\ B[i].tag = "close" /\ B[j].tag \in ResultTags => FALSE
    BY <1>2
  <2>3. ASSUME NEW i \in 1..Len(B), NEW m \in (n - 1) + 1..q[i] - 1 PROVE FALSE
    BY <1>0, <1>3, <2>3
  <2> QED
    BY <2>1, <2>2, <2>3 DEF Placed
<1>7. Entire(B, S, n, n - 1, q)
  <2> SUFFICES ASSUME NEW m \in (n - 1) + 1..n, S[m] \notin ErrLines
               PROVE  \E j \in 1..Len(B) : B[j].tag = "close" /\ q[j] = m
    BY DEF Entire
  <2>1. m = n /\ x \notin ErrLines
    BY <1>0 DEF x
  <2>2. 4 \in 1..Len(B) /\ B[4].tag = "close"
    BY <1>2, <2>1
  <2> QED
    BY <1>3, <2>1, <2>2
<1>5. Unbroken(B, q)
  <2> SUFFICES ASSUME NEW i \in 1..Len(B), NEW j \in 1..Len(B), j = i + 1
               PROVE  /\ B[i].tag = "open" => B[j].tag = "body"
                      /\ B[i].tag = "body" => B[j].tag = "close"
                      /\ B[i].tag \in {"log", "close"} => B[j].tag \in {"log", "open"}
    BY <1>3 DEF Unbroken
  <2> QED
    BY <1>2
<1>6. Len(B) \in Nat \ {0} /\ B[1].tag = "log" /\ B[Len(B)].tag \in {"log", "close"}
  BY <1>2
<1> QED
  BY <1>1, <1>3, <1>4, <1>5, <1>6, <1>7 DEF B, x

\* Whole blocks behind whole blocks.
LEMMA CompleteJoin ==
  ASSUME NEW F \in Seq(OutLine), NEW B \in Seq(OutLine), NEW res, Complete(F, res),
         B = <<>> \/ (B # <<>> /\ B[Len(B)].tag \in {"log", "close"})
  PROVE  Complete(F \o B, res)
<1>1. /\ Len(F \o B) = Len(F) + Len(B) /\ Len(F) \in Nat /\ Len(B) \in Nat
      /\ \A i \in 1..Len(F) : (F \o B)[i] = F[i]
      /\ \A i \in 1..Len(F \o B) : i > Len(F) => (F \o B)[i] = B[i - Len(F)]
      /\ F \o B \in Seq(OutLine)
  BY ConcatAt
<1>2. CASE B = <<>>
  <2>1. F \o B = F
    BY <1>2, ConcatEmptySeq
  <2> QED
    BY <2>1
<1>3. CASE B # <<>>
  <2>1. Len(B) > 0
    BY <1>3
  <2>2. Len(F \o B) \in 1..Len(F \o B) /\ Len(F \o B) > Len(F)
    BY <1>1, <2>1
  <2>3. (F \o B)[Len(F \o B)] = B[Len(B)]
    BY <1>1, <2>2
  <2>4. F \o B # <<>>
    BY <1>1, <2>2
  <2> QED
    BY <1>3, <2>3, <2>4 DEF Complete
<1> QED
  BY <1>2, <1>3

\* What the backend prints, and the end mark, are appended to what is in flight.
LEMMA PrintFlight ==
  ASSUME TypeOK, NEW B \in Seq(OutLine)
  PROVE  /\ outbuf = <<>> => (stdoutQueue \o stdout) \o B = InFlight \o B
         /\ stdout = <<>> /\ outbuf = <<>> =>
              (Append(stdoutQueue, EndOfOutput) \o stdout) \o outbuf
                = InFlight \o <<EndOfOutput>>
<1>1. stdoutQueue \in Seq(OutLine) /\ stdoutQueue \o stdout \in Seq(OutLine)
  BY FlightType
<1>2. ASSUME outbuf = <<>> PROVE InFlight = stdoutQueue \o stdout
  BY <1>1, <1>2, ConcatEmptySeq DEF InFlight
<1>3. ASSUME stdout = <<>>, outbuf = <<>>
      PROVE  (Append(stdoutQueue, EndOfOutput) \o stdout) \o outbuf
               = InFlight \o <<EndOfOutput>>
  <2>1. InFlight = stdoutQueue
    BY <1>1, <1>2, <1>3, ConcatEmptySeq
  <2>2. EndOfOutput \in OutLine
    BY DEF EndOfOutput, Out, OutLine, Tags, Inputs
  <2>3. Append(stdoutQueue, EndOfOutput) = stdoutQueue \o <<EndOfOutput>>
    BY <1>1, <2>2, AppendIsConcat
  <2>4. Append(stdoutQueue, EndOfOutput) \in Seq(OutLine)
    BY <1>1, <2>2
  <2> QED
    BY <1>3, <2>1, <2>3, <2>4, ConcatEmptySeq
<1> QED
  BY <1>2, <1>3

\* The backend has started, or says that it cannot: it prints log lines.
LEMMA InitFlow == ASSUME TypeOK, PipesOK, ClientFlow, BackendInit PROVE ClientFlow'
<1>0. /\ InFlight \in Seq(OutLine) /\ outbuf = <<>> /\ Alive /\ Alive' /\ stdin \in Seq(Inputs)
      /\ UNCHANGED <<clientVars, stdin, stdout, stdoutQueue>>
  BY FlightType DEF BackendInit, PipesOK, Alive
<1>1. PICK B \in Seq(OutLine) : outbuf' = B /\ \A i \in 1..Len(B) : B[i].tag = "log"
  <2>1. Out("log", LogText) \in OutLine /\ Out("log", LogText).tag = "log"
    BY DEF Out, OutLine, Tags, Inputs
  <2>2. ASSUME NEW n \in Nat
        PROVE  LET B == [i \in 1..n |-> Out("log", LogText)]
               IN  B \in Seq(OutLine) /\ \A i \in 1..Len(B) : B[i].tag = "log"
    BY <2>1
  <2>3. LET B == <<Out("log", LogText)>>
        IN  B \in Seq(OutLine) /\ \A i \in 1..Len(B) : B[i].tag = "log"
    BY <2>1
  <2> QED
    BY <2>2, <2>3, QueryServerAssumption DEF BackendInit
<1>2. InFlight' = InFlight \o B
  BY <1>0, <1>1, PrintFlight DEF InFlight
<1>3. QuietOK'
  <2> SUFFICES ASSUME \A c \in Clients : pc[c] \notin {"write", "read"}
               PROVE  stdin = <<>> /\ \A i \in 1..Len(InFlight \o B) : (InFlight \o B)[i].tag = "log"
    BY <1>0, <1>2 DEF QuietOK, clientVars
  <2>1. stdin = <<>> /\ \A i \in 1..Len(InFlight) : InFlight[i].tag = "log"
    BY <1>0 DEF ClientFlow, QuietOK
  <2>2. /\ Len(InFlight) \in Nat
        /\ \A i \in 1..Len(InFlight) : (InFlight \o B)[i] = InFlight[i]
        /\ \A i \in 1..Len(InFlight \o B) : i > Len(InFlight) =>
             i - Len(InFlight) \in 1..Len(B) /\ (InFlight \o B)[i] = B[i - Len(InFlight)]
    BY <1>0, ConcatAt
  <2> QED
    BY <1>1, <2>1, <2>2
<1>4. ASSUME NEW d \in Clients, Asking(d)' PROVE Flow(d)'
  <2>1. Asking(d) /\ InRead(d)' = InRead(d) /\ PayRead(d)' = PayRead(d) /\ sent' = sent
        /\ got' = got /\ stdin' = stdin
    BY <1>0, <1>4 DEF Asking, InRead, PayRead, clientVars
  <2>2. Flow(d)
    BY <2>1 DEF ClientFlow, FlowOK
  <2>3. /\ sent[d] \in Seq(Inputs) /\ InRead(d) \in BOOLEAN
        /\ Len(sent[d]) - Len(stdin) \in Nat
    BY <1>0, <2>2 DEF Flow, Unread, TypeOK, ClientType, InRead
  <2>4. Complete(InFlight, InRead(d))
    BY <1>0, <2>2 DEF Flow
  <2> DEFINE k == Len(sent[d]) - Len(stdin)
  <2>9. k \in Nat /\ k <= k
    BY <2>3
  <2>12. Alive = TRUE /\ Reading(InFlight, sent[d], k, InRead(d), PayRead(d), got[d], Alive)
    <3>1. Alive = TRUE
      BY <1>0
    <3> QED
      BY <2>2, <3>1 DEF Flow
  <2> HIDE DEF k
  <2>5. PICK q \in [1..Len(B) -> Nat] :
          Placed(B, sent[d], k, k, q) /\ Unbroken(B, q) /\ Entire(B, sent[d], k, k, q)
    BY <1>1, <2>3, <2>9, LogsFit
  <2>6. B = <<>> \/ (B # <<>> /\ B[1].tag = "log" /\ B[Len(B)].tag = "log")
    BY <1>1
  <2>10. Reading(InFlight, sent[d], k, InRead(d), PayRead(d), got[d], TRUE)
    BY <2>12
  <2>11. Reading(InFlight \o B, sent[d], k, InRead(d), PayRead(d), got[d], TRUE)
    BY <1>0, <2>3, <2>4, <2>5, <2>6, <2>9, <2>10, JoinReading
  <2>7. Reading(InFlight \o B, sent[d], Len(sent[d]) - Len(stdin), InRead(d), PayRead(d),
                got[d], Alive')
    <3>1. Alive' = TRUE
      BY <1>0
    <3> QED
      BY <2>11, <3>1 DEF k
  <2>8. Complete(InFlight \o B, InRead(d))
    BY <1>0, <2>4, <2>6, CompleteJoin
  <2> QED
    BY <1>2, <2>1, <2>2, <2>7, <2>8 DEF Flow
<1>5. AnswersOwnLines'
  BY <1>0 DEF ClientFlow, AnswersOwnLines, clientVars
<1> QED
  BY <1>3, <1>4, <1>5 DEF ClientFlow, FlowOK

\* The backend reads a line and prints its block.
LEMMA QueryFlow == ASSUME TypeOK, ClientFlow, BackendQuery PROVE ClientFlow'
<1>0. /\ InFlight \in Seq(OutLine) /\ outbuf = <<>> /\ Alive /\ Alive' /\ stdin \in Seq(Inputs)
      /\ stdin # <<>> /\ stdin' = Tail(stdin) /\ outbuf' = Block(Head(stdin))
      /\ UNCHANGED <<clientVars, stdout, stdoutQueue>>
  BY FlightType DEF BackendQuery, Alive
<1>1. /\ Len(stdin) \in Nat /\ Len(stdin) > 0 /\ Len(Tail(stdin)) = Len(stdin) - 1
      /\ stdin[1] = Head(stdin)
      /\ \A i \in 1..Len(Tail(stdin)) : i + 1 \in 1..Len(stdin) /\ Tail(stdin)[i] = stdin[i + 1]
  BY <1>0, TailAt
<1>3. QuietOK'
  <2>1. \E c \in Clients : pc[c] \in {"write", "read"}
    BY <1>0 DEF ClientFlow, QuietOK
  <2> QED
    BY <1>0, <2>1 DEF QuietOK, clientVars
<1>4. ASSUME NEW d \in Clients, Asking(d)' PROVE Flow(d)'
  <2>1. Asking(d) /\ InRead(d)' = InRead(d) /\ PayRead(d)' = PayRead(d) /\ sent' = sent
        /\ got' = got
    BY <1>0, <1>4 DEF Asking, InRead, PayRead, clientVars
  <2>2. Flow(d)
    BY <2>1 DEF ClientFlow, FlowOK
  <2> DEFINE S == sent[d]
             k == Len(S) - Len(stdin)
  <2>3. S \in Seq(Inputs) /\ InRead(d) \in BOOLEAN
    BY DEF TypeOK, ClientType, InRead
  <2>4. /\ Len(S) \in Nat /\ Len(stdin) <= Len(S)
        /\ \A j \in 1..Len(stdin) : stdin[j] = S[k + j]
    BY <2>2, <2>3 DEF Flow, Unread
  <2>9. Complete(InFlight, InRead(d)) /\ Reading(InFlight, S, k, InRead(d), PayRead(d), got[d], TRUE)
    <3>1. Alive = TRUE
      BY <1>0
    <3> QED
      BY <1>0, <2>2, <3>1 DEF Flow
  <2>10. Len(S) - Len(stdin') = k + 1
    BY <1>0, <1>1, <2>4
  <2>5. /\ k \in Nat /\ k + 1 \in 1..Len(S) /\ (k + 1) - 1 = k /\ k <= k + 1
        /\ Head(stdin) = S[k + 1]
    BY <1>1, <2>4
  <2>6. Unread(stdin', S)
    <3>1. \A j \in 1..Len(Tail(stdin)) : Tail(stdin)[j] = S[(k + 1) + j]
      <4> TAKE j \in 1..Len(Tail(stdin))
      <4>1. j + 1 \in 1..Len(stdin) /\ Tail(stdin)[j] = stdin[j + 1]
        BY <1>1
      <4>2. k + (j + 1) = (k + 1) + j
        <5>1. \A a, b \in Int : a + (b + 1) = (a + 1) + b
          OBVIOUS
        <5>2. j \in Int /\ k \in Int
          BY <2>5
        <5> QED
          BY <5>1, <5>2
      <4> QED
        BY <2>4, <4>1, <4>2
    <3>2. Len(stdin') <= Len(S)
      BY <1>0, <1>1, <2>4
    <3> QED
      BY <1>0, <2>10, <3>1, <3>2 DEF Unread
  <2> HIDE DEF k
  <2> DEFINE B == Block(S[k + 1])
  <2>7. /\ B \in Seq(OutLine) /\ B # <<>> /\ B[1].tag = "log"
        /\ B[Len(B)].tag \in {"log", "close"}
        /\ \E q \in [1..Len(B) -> Nat] :
             Placed(B, S, k + 1, k, q) /\ Unbroken(B, q) /\ Entire(B, S, k + 1, k, q)
    <3>1. B \in Seq(OutLine) /\ Len(B) \in Nat \ {0}
      BY <2>3, <2>5, BlockFits
    <3>2. B # <<>>
      BY <3>1
    <3>3. /\ B[1].tag = "log" /\ B[Len(B)].tag \in {"log", "close"}
          /\ \E q \in [1..Len(B) -> Nat] :
               /\ Placed(B, S, k + 1, (k + 1) - 1, q) /\ Unbroken(B, q)
               /\ Entire(B, S, k + 1, (k + 1) - 1, q)
      BY <2>3, <2>5, BlockFits
    <3> QED
      BY <2>5, <3>1, <3>2, <3>3
  <2>8. InFlight' = InFlight \o B
    <3>1. outbuf' = B
      BY <1>0, <2>5
    <3> QED
      BY <1>0, <2>7, <3>1, PrintFlight DEF InFlight
  <2> HIDE DEF B, S
  <2>11. Reading(InFlight \o B, S, k + 1, InRead(d), PayRead(d), got[d], TRUE)
    <3>1. PICK q \in [1..Len(B) -> Nat] :
            Placed(B, S, k + 1, k, q) /\ Unbroken(B, q) /\ Entire(B, S, k + 1, k, q)
      BY <2>7
    <3>2. /\ B \in Seq(OutLine) /\ B[1].tag = "log" /\ InFlight \in Seq(OutLine)
          /\ k \in Nat /\ k + 1 \in Nat /\ k <= k + 1
      BY <1>0, <2>5, <2>7
    <3> QED
      BY <2>3, <2>9, <3>1, <3>2, JoinReading
  <2>12. Complete(InFlight \o B, InRead(d))
    BY <1>0, <2>7, <2>9, CompleteJoin
  <2>13. Alive' = TRUE
    BY <1>0
  <2> QED
    BY <2>1, <2>6, <2>8, <2>10, <2>11, <2>12, <2>13 DEF Flow, S
<1>5. AnswersOwnLines'
  BY <1>0 DEF ClientFlow, AnswersOwnLines, clientVars
<1> QED
  BY <1>3, <1>4, <1>5 DEF ClientFlow, FlowOK

\* The process dies, and what it had not written or read is lost.
LEMMA ExitFlow == ASSUME TypeOK, ClientFlow, BackendExit PROVE ClientFlow'
<1>0. /\ stdoutQueue \o stdout \in Seq(OutLine) /\ outbuf \in Seq(OutLine) /\ ~Alive'
      /\ stdin \in Seq(Inputs) /\ stdin' = <<>> /\ outbuf' = <<>>
      /\ UNCHANGED <<clientVars, stdout, stdoutQueue>>
  BY FlightType DEF BackendExit, Alive
<1>1. InFlight = (stdoutQueue \o stdout) \o outbuf /\ InFlight' = stdoutQueue \o stdout
  <2>1. (stdoutQueue \o stdout) \o <<>> = stdoutQueue \o stdout
    BY <1>0, ConcatEmptySeq
  <2> QED
    BY <1>0, <2>1 DEF InFlight
<1>2. ASSUME NEW d \in Clients, Asking(d)' PROVE Flow(d)'
  <2>1. Asking(d) /\ InRead(d)' = InRead(d) /\ PayRead(d)' = PayRead(d) /\ sent' = sent
        /\ got' = got
    BY <1>0, <1>2 DEF Asking, InRead, PayRead, clientVars
  <2>2. Flow(d)
    BY <2>1 DEF ClientFlow, FlowOK
  <2>3. /\ sent[d] \in Seq(Inputs) /\ InRead(d) \in BOOLEAN
        /\ Len(sent[d]) - Len(stdin) \in Nat /\ Len(sent[d]) \in Nat
        /\ Len(sent[d]) - Len(stdin) <= Len(sent[d])
    BY <1>0, <2>2 DEF Flow, Unread, TypeOK, ClientType, InRead
  <2>4. Reading(stdoutQueue \o stdout, sent[d], Len(sent[d]), InRead(d), PayRead(d), got[d],
                FALSE)
    BY <1>0, <1>1, <2>2, <2>3, CutReading DEF Flow
  <2>5. Len(sent[d]) - Len(stdin') = Len(sent[d]) /\ Unread(stdin', sent[d])
    BY <1>0, <2>3 DEF Unread
  <2>6. Alive' = FALSE
    BY <1>0 DEF Alive
  <2> QED
    BY <1>0, <1>1, <2>1, <2>4, <2>5, <2>6 DEF Flow
<1>3. QuietOK'
  BY <1>0 DEF QuietOK
<1>4. AnswersOwnLines'
  BY <1>0 DEF ClientFlow, AnswersOwnLines, clientVars
<1> QED
  BY <1>2, <1>3, <1>4 DEF ClientFlow, FlowOK

\* The end of the output becomes a line of the queue.
LEMMA EndFlow == ASSUME TypeOK, PipesOK, ClientFlow, DrainStdoutEnd PROVE ClientFlow'
<1>0. /\ InFlight \in Seq(OutLine) /\ ~Alive /\ ~Alive' /\ stdin \in Seq(Inputs)
      /\ outbuf = <<>> /\ stdout = <<>>
      /\ stdoutQueue' = Append(stdoutQueue, EndOfOutput)
      /\ UNCHANGED <<clientVars, stdin, stdout, outbuf>>
  BY FlightType DEF DrainStdoutEnd, PipesOK, Alive, backendVars
<1> DEFINE B == <<EndOfOutput>>
<1>1. B \in Seq(OutLine) /\ Len(B) = 1 /\ B[1].tag = "eof"
  BY DEF EndOfOutput, Out, OutLine, Tags, Inputs
<1>2. InFlight' = InFlight \o B
  BY <1>0, PrintFlight DEF InFlight
<1> HIDE DEF B
<1>3. ASSUME NEW d \in Clients, Asking(d)' PROVE Flow(d)'
  <2>1. Asking(d) /\ InRead(d)' = InRead(d) /\ PayRead(d)' = PayRead(d) /\ sent' = sent
        /\ got' = got /\ stdin' = stdin
    BY <1>0, <1>3 DEF Asking, InRead, PayRead, clientVars
  <2>2. Flow(d)
    BY <2>1 DEF ClientFlow, FlowOK
  <2>3. /\ sent[d] \in Seq(Inputs) /\ InRead(d) \in BOOLEAN
        /\ Len(sent[d]) - Len(stdin) \in Nat
    BY <1>0, <2>2 DEF Flow, Unread, TypeOK, ClientType, InRead
  <2> DEFINE k == Len(sent[d]) - Len(stdin)
  <2>4. /\ k \in Nat /\ k <= k /\ Alive = FALSE /\ Alive' = FALSE
        /\ Reading(InFlight, sent[d], k, InRead(d), PayRead(d), got[d], Alive)
    BY <1>0, <2>2, <2>3 DEF Flow, Alive
  <2> HIDE DEF k
  <2>5. Reading(InFlight, sent[d], k, InRead(d), PayRead(d), got[d], FALSE)
    BY <2>4
  <2>6. \A i \in 1..Len(B) : B[i].tag \notin ResultTags
    BY <1>1, <2>3, <2>4, LogsFit
  <2>7. PICK q \in [1..Len(B) -> Nat] : Placed(B, sent[d], k, k, q) /\ Unbroken(B, q)
    BY <1>1, <2>3, <2>4, LogsFit
  <2>8. Reading(InFlight \o B, sent[d], k, InRead(d), PayRead(d), got[d], FALSE)
    BY <1>0, <1>1, <2>3, <2>4, <2>5, <2>6, <2>7, JoinReading
  <2>9. Reading(InFlight \o B, sent[d], Len(sent[d]) - Len(stdin), InRead(d), PayRead(d),
                got[d], Alive')
    BY <2>4, <2>8 DEF k
  <2> QED
    BY <1>0, <1>2, <2>1, <2>2, <2>9 DEF Flow
<1>4. QuietOK'
  BY <1>0 DEF QuietOK
<1>5. AnswersOwnLines'
  BY <1>0 DEF ClientFlow, AnswersOwnLines, clientVars
<1> QED
  BY <1>3, <1>4, <1>5 DEF ClientFlow, FlowOK

-----------------------------------------------------------------------------
(* The steps of the clients. *)

\* While a client is inside query(), the others are not.
LEMMA Alone ==
  ASSUME OneAtATime, NEW c \in Clients, pc[c] \in Critical, NEW d \in Clients, d # c
  PROVE  pc[d] \notin Critical
  BY DEF OneAtATime

\* What a step of c leaves alone of the others.
LEMMA OtherClients ==
  ASSUME TypeOK, NEW c \in Clients, ClientStep(c), NEW d \in Clients, d # c
  PROVE  /\ pc'[d] = pc[d] /\ sent'[d] = sent[d] /\ inResult'[d] = inResult[d]
         /\ payload'[d] = payload[d] /\ got'[d] = got[d] /\ reply'[d] = reply[d]
         /\ asked'[d] = asked[d] /\ text'[d] = text[d]
<1>0. ClientType
  BY DEF TypeOK
<1>1. CASE Submit(c) \/ Acquire(c) \/ ClearNonResult(c)
  BY <1>0, <1>1 DEF ClientType, Submit, Acquire, ClearNonResult
<1>2. CASE PollBackend(c) \/ WriteLine(c) \/ WriteFails(c)
  BY <1>0, <1>2 DEF ClientType, PollBackend, WriteLine, WriteFails, Return
<1>3. CASE ReadLine(c)
  <2>1. UNCHANGED <<asked, text, sent>>
    BY <1>3 DEF ReadLine
  <2>2. pc'[d] = pc[d] /\ reply'[d] = reply[d]
    BY <1>0, <1>3 DEF ClientType, ReadLine, Return
  <2>3. inResult'[d] = inResult[d] /\ payload'[d] = payload[d] /\ got'[d] = got[d]
    <3>1. /\ \/ inResult' = inResult
             \/ \E v : inResult' = [inResult EXCEPT ![c] = v]
          /\ \/ payload' = payload
             \/ \E v : payload' = [payload EXCEPT ![c] = v]
          /\ \/ got' = got
             \/ \E v : got' = [got EXCEPT ![c] = v]
      BY <1>3, Zenon DEF ReadLine
    <3> QED
      BY <1>0, <3>1 DEF ClientType
  <2> QED
    BY <2>1, <2>2, <2>3
<1> QED
  BY <1>1, <1>2, <1>3 DEF ClientStep

\* The last answers of the others, and of c when its call goes on, are kept.
LEMMA AnswerFrame ==
  ASSUME TypeOK, AnswersOwnLines, NEW c \in Clients, ClientStep(c),
         reply'[c] = "ok" =>
           IF reply[c] = "ok" /\ got'[c] = got[c] /\ sent'[c] = sent[c] /\ asked'[c] = asked[c]
           THEN TRUE
           ELSE /\ Len(got'[c]) = Len(asked'[c])
                /\ got'[c] = [i \in 1..Len(sent'[c]) |-> <<Out("body", sent'[c][i])>>]
  PROVE  AnswersOwnLines'
<1>1. ASSUME NEW d \in Clients, reply'[d] = "ok"
      PROVE  /\ Len(got'[d]) = Len(asked'[d])
             /\ got'[d] = [i \in 1..Len(sent'[d]) |-> <<Out("body", sent'[d][i])>>]
  <2>1. CASE /\ reply[d] = "ok" /\ got'[d] = got[d] /\ sent'[d] = sent[d]
             /\ asked'[d] = asked[d]
    BY <2>1 DEF AnswersOwnLines
  <2>2. CASE d = c
    BY <1>1, <2>1, <2>2
  <2>3. CASE d # c
    BY <1>1, <2>1, <2>3, OtherClients
  <2> QED
    BY <2>2, <2>3
<1> QED
  BY <1>1 DEF AnswersOwnLines

\* The bookkeeping of a call.
LEMMA CallStep ==
  ASSUME TypeOK, CallOK, NEW c \in Clients, ClientStep(c)
  PROVE  CallOK'
<1>0. ClientType
  BY DEF TypeOK
<1> DEFINE Book(d) ==
      /\ pc[d] # "idle" => reply[d] = "none" /\ asked[d] # <<>>
      /\ pc[d] \in {"lock", "clear", "write"} => got[d] = <<>>
      /\ pc[d] \in {"lock", "clear"} => sent[d] = <<>>
      /\ pc[d] = "clear" => Len(text[d]) <= Len(asked[d])
      /\ pc[d] = "write" => Len(sent[d]) + Len(text[d]) <= Len(asked[d])
      /\ pc[d] = "read" => Len(sent[d]) <= Len(asked[d])
<1>1. \A d \in Clients : Book(d)
  BY DEF CallOK
<1>2. ASSUME NEW d \in Clients, d # c PROVE Book(d)'
  BY <1>1, <1>2, OtherClients
<1>3. Book(c)'
  <2>0. Book(c)
    BY <1>1
  <2>1. CASE Submit(c)
    <3>1. /\ pc'[c] = "lock" /\ reply'[c] = "none" /\ got'[c] = <<>> /\ sent'[c] = <<>>
      BY <1>0, <2>1 DEF ClientType, Submit
    <3>2. asked'[c] # <<>>
      <4>1. PICK r \in (IF c = "http" THEN HttpRequests ELSE {<<x>> : x \in Lines}) :
              asked' = [asked EXCEPT ![c] = r]
        BY <2>1 DEF Submit
      <4>2. \A x \in Lines : <<x>> # <<>>
        OBVIOUS
      <4>3. \A x \in HttpRequests : x # <<>>
        BY QueryServerAssumption
      <4>4. r # <<>>
        BY <4>2, <4>3
      <4>5. asked'[c] = r
        BY <1>0, <4>1 DEF ClientType
      <4> QED
        BY <4>4, <4>5
    <3> QED
      BY <3>1, <3>2
  <2>2. CASE Acquire(c)
    <3>1. /\ pc'[c] = "clear" /\ text'[c] = asked[c] /\ pc[c] = "lock"
          /\ UNCHANGED <<asked, sent, got, reply>>
      BY <1>0, <2>2 DEF ClientType, Acquire
    <3>2. Len(asked[c]) <= Len(asked[c])
      BY <1>0 DEF ClientType
    <3> QED
      BY <2>0, <3>1, <3>2
  <2>3. CASE ClearNonResult(c)
    <3>1. /\ pc'[c] = "clear" /\ text'[c] = <<LogText>> /\ pc[c] = "clear"
          /\ UNCHANGED <<asked, sent, got, reply>>
      BY <1>0, <2>3 DEF ClientType, ClearNonResult
    <3>2. asked[c] \in Seq(Lines) /\ asked[c] # <<>>
      BY <1>0, <2>0, <3>1 DEF ClientType
    <3>3. Len(text'[c]) <= Len(asked[c])
      BY <3>1, <3>2
    <3> QED
      BY <2>0, <3>1, <3>3
  <2>4. CASE PollBackend(c)
    <3>1. /\ pc'[c] = "idle" \/ (pc'[c] = "write" /\ reply' = reply)
          /\ pc[c] = "clear" /\ UNCHANGED <<asked, text, sent, got>>
      BY <1>0, <2>4 DEF ClientType, PollBackend, Return
    <3>2. Len(sent[c]) = 0 /\ Len(text[c]) \in Nat
      BY <1>0, <2>0, <3>1 DEF ClientType
    <3> QED
      BY <2>0, <3>1, <3>2
  <2>5. CASE WriteLine(c)
    <3>1. /\ pc[c] = "write" /\ text[c] # <<>>
          /\ pc'[c] = IF Len(text[c]) = 1 THEN "read" ELSE "write"
          /\ text'[c] = Tail(text[c]) /\ sent'[c] = Append(sent[c], Head(text[c]))
          /\ UNCHANGED <<asked, got, reply>>
      BY <1>0, <2>5 DEF ClientType, WriteLine
    <3>2. /\ Len(text'[c]) = Len(text[c]) - 1 /\ Len(sent'[c]) = Len(sent[c]) + 1
          /\ Len(text[c]) \in Nat /\ Len(sent[c]) \in Nat /\ Len(asked[c]) \in Nat
      BY <1>0, <3>1 DEF ClientType
    <3>3. Len(sent[c]) + Len(text[c]) <= Len(asked[c])
      BY <2>0, <3>1
    <3>4. /\ Len(sent'[c]) + Len(text'[c]) <= Len(asked[c])
          /\ Len(text[c]) = 1 => Len(sent'[c]) <= Len(asked[c])
      <4>1. \A a, b, e \in Nat : a + b <= e =>
              (a + 1) + (b - 1) <= e /\ (b = 1 => a + 1 <= e)
        OBVIOUS
      <4> QED
        BY <3>2, <3>3, <4>1
    <3>5. (pc'[c] = "read" /\ Len(text[c]) = 1) \/ pc'[c] = "write"
      BY <3>1
    <3>6. reply'[c] = "none" /\ asked'[c] # <<>> /\ got'[c] = <<>> /\ asked'[c] = asked[c]
      BY <2>0, <3>1
    <3> QED
      BY <3>4, <3>5, <3>6
  <2>6. CASE WriteFails(c)
    BY <1>0, <2>6 DEF ClientType, WriteFails, Return
  <2>7. CASE ReadLine(c)
    <3>1. /\ pc[c] = "read" /\ (pc'[c] = "idle" \/ (pc'[c] = "read" /\ reply' = reply))
          /\ UNCHANGED <<asked, text, sent>>
      BY <1>0, <2>7 DEF ClientType, ReadLine, Return
    <3> QED
      BY <2>0, <3>1
  <2> QED
    BY <2>1, <2>2, <2>3, <2>4, <2>5, <2>6, <2>7 DEF ClientStep
<1>4. \A d \in Clients : Book(d)'
  BY <1>2, <1>3
<1> QED
  BY <1>4 DEF CallOK

\* Steps before the first line is written.
LEMMA EarlyFlow ==
  ASSUME TypeOK, CallOK, ClientFlow, NEW c \in Clients,
         Submit(c) \/ Acquire(c) \/ ClearNonResult(c) \/ WriteFails(c)
  PROVE  ClientFlow'
<1>0. /\ ClientType /\ ClientStep(c)
      /\ UNCHANGED <<stdin, outbuf, stdout, stdoutQueue, backend>>
  BY DEF TypeOK, ClientStep, Submit, Acquire, ClearNonResult, WriteFails, backendVars
<1>1. InFlight' = InFlight /\ Alive' = Alive
  BY <1>0 DEF InFlight, Alive
<1>2. pc'[c] \in {"lock", "clear"} \/ (pc'[c] = "idle" /\ ~Alive)
  BY <1>0 DEF ClientType, Submit, Acquire, ClearNonResult, WriteFails, Return
<1>3. pc[c] \notin {"write", "read"} \/ ~Alive
  BY <1>0 DEF ClientType, Submit, Acquire, ClearNonResult, WriteFails
<1>4. FlowOK'
  <2>1. ~Asking(c)'
    BY <1>1, <1>2 DEF Asking
  <2>2. ASSUME NEW d \in Clients, d # c PROVE (Asking(d) => Flow(d))'
    BY <1>0, <1>1, <2>2, OtherClients, FlowFrame DEF ClientFlow, FlowOK
  <2> QED
    BY <2>1, <2>2 DEF FlowOK
<1>5. QuietOK'
  <2>1. ASSUME Alive', \A d \in Clients : pc'[d] \notin {"write", "read"}
        PROVE  \A d \in Clients : pc[d] \notin {"write", "read"}
    BY <1>0, <1>1, <1>3, <2>1, OtherClients
  <2> QED
    BY <1>0, <1>1, <2>1 DEF QuietOK, ClientFlow
<1>6. AnswersOwnLines'
  <2>1. reply'[c] = "ok" => /\ reply[c] = "ok" /\ got'[c] = got[c] /\ sent'[c] = sent[c]
                            /\ asked'[c] = asked[c]
    BY <1>0 DEF ClientType, Submit, Acquire, ClearNonResult, WriteFails, Return
  <2> QED
    BY <1>0, <2>1, OtherClients, AnswerFrame DEF ClientFlow
<1> QED
  BY <1>4, <1>5, <1>6 DEF ClientFlow

\* The line that is written is the last the backend has to read.
LEMMA UnreadWrite ==
  ASSUME NEW q \in Seq(Inputs), NEW S \in Seq(Inputs), NEW x \in Inputs, Unread(q, S)
  PROVE  Unread(Append(q, x), Append(S, x))
<1>1. /\ Len(q) \in Nat /\ Len(S) \in Nat /\ Len(q) <= Len(S)
      /\ Len(Append(q, x)) = Len(q) + 1 /\ Len(Append(S, x)) = Len(S) + 1
      /\ \A i \in 1..Len(q) : Append(q, x)[i] = q[i]
      /\ \A i \in 1..Len(S) : Append(S, x)[i] = S[i]
      /\ Append(q, x)[Len(q) + 1] = x /\ Append(S, x)[Len(S) + 1] = x
  BY AppendProperties DEF Unread
<1>2. ASSUME NEW m \in Nat, NEW n \in Nat, m <= n, NEW j \in 1..m + 1
      PROVE  /\ (n + 1) - (m + 1) + j = n - m + j
             /\ (j \in 1..m /\ n - m + j \in 1..n) \/ (j = m + 1 /\ n - m + j = n + 1)
  BY <1>2
<1>3. ASSUME NEW j \in 1..Len(q) + 1
      PROVE  Append(q, x)[j] = Append(S, x)[(Len(S) + 1) - (Len(q) + 1) + j]
  <2>1. CASE j \in 1..Len(q) /\ Len(S) - Len(q) + j \in 1..Len(S)
    <3>1. q[j] = S[Len(S) - Len(q) + j]
      BY <2>1 DEF Unread
    <3> QED
      BY <1>1, <1>2, <2>1, <3>1
  <2>2. CASE j = Len(q) + 1 /\ Len(S) - Len(q) + j = Len(S) + 1
    BY <1>1, <1>2, <2>2
  <2> QED
    BY <1>1, <1>2, <2>1, <2>2
<1>4. Len(q) + 1 <= Len(S) + 1
  BY <1>1
<1> QED
  BY <1>1, <1>3, <1>4 DEF Unread

\* Of no line, none is accepted.
LEMMA NoneAccepted == \A S : Cardinality(SQ!AcceptedTo(S, 0)) = 0
<1>1. \A S : SQ!AcceptedTo(S, 0) = {}
  BY DEF SQ!AcceptedTo
<1> QED
  BY <1>1, FS_EmptySet

\* poll(): the call starts to write, with nothing in flight but log lines.
LEMMA PollFlow ==
  ASSUME TypeOK, OneAtATime, CallOK, ClientFlow, NEW c \in Clients, PollBackend(c)
  PROVE  ClientFlow'
<1>0. /\ ClientType /\ ClientStep(c) /\ pc[c] = "clear"
      /\ UNCHANGED <<stdin, outbuf, stdout, stdoutQueue, backend, sent, got, asked>>
  BY DEF TypeOK, ClientStep, PollBackend, backendVars
<1>1. /\ InFlight' = InFlight /\ Alive' = Alive /\ InFlight \in Seq(OutLine)
      /\ stdin \in Seq(Inputs)
  BY <1>0, FlightType DEF InFlight, Alive
<1>2. pc'[c] = "write" \/ (pc'[c] = "idle" /\ ~Alive)
  BY <1>0 DEF ClientType, PollBackend, Return, Alive
<1>3. ASSUME NEW d \in Clients, d # c PROVE pc[d] \notin {"write", "read"}
  BY <1>0, <1>3, Alone DEF Critical
<1>4. ASSUME NEW d \in Clients, d # c PROVE (Asking(d) => Flow(d))'
  BY <1>0, <1>1, <1>4, OtherClients, FlowFrame DEF ClientFlow, FlowOK
<1>5. ASSUME Asking(c)' PROVE Flow(c)'
  <2>1. pc'[c] = "write" /\ Alive
    BY <1>1, <1>2, <1>5 DEF Asking
  <2>2. /\ stdin = <<>> /\ sent[c] = <<>> /\ got[c] = <<>>
        /\ \A i \in 1..Len(InFlight) : InFlight[i].tag = "log"
    BY <1>0, <1>3, <2>1 DEF ClientFlow, QuietOK, CallOK
  <2>3. ~InRead(c)' /\ PayRead(c)' = <<>> /\ InRead(c)' \in BOOLEAN
    BY <2>1 DEF InRead, PayRead
  <2>4. Len(sent[c]) - Len(stdin) = 0 /\ Unread(stdin, sent[c])
    BY <2>2 DEF Unread
  <2>5. PICK q \in [1..Len(InFlight) -> Nat] :
          Placed(InFlight, <<>>, 0, 0, q) /\ Unbroken(InFlight, q) /\ Entire(InFlight, <<>>, 0, 0, q)
    BY <1>1, <2>2, LogsFit
  <2>6. Expected(InFlight, InRead(c)', <<>>) /\ Complete(InFlight, InRead(c)')
    BY <1>1, <2>2, <2>3 DEF Expected, Complete
  <2>7. Collected(<<>>, <<>>, 0) /\ 0 \in 0..0
    BY NoneAccepted DEF Collected
  <2>8. Reading(InFlight, <<>>, 0, InRead(c)', <<>>, <<>>, Alive')
    BY <2>5, <2>6, <2>7 DEF Reading
  <2> QED
    BY <1>0, <1>1, <2>2, <2>3, <2>4, <2>6, <2>8 DEF Flow
<1>6. FlowOK'
  BY <1>4, <1>5 DEF FlowOK
<1>7. QuietOK'
  BY <1>1, <1>2 DEF QuietOK
<1>8. AnswersOwnLines'
  <2>1. reply'[c] # "ok"
    BY <1>0 DEF ClientType, PollBackend, Return, CallOK
  <2> QED
    BY <1>0, <2>1, AnswerFrame DEF ClientFlow
<1> QED
  BY <1>6, <1>7, <1>8 DEF ClientFlow

\* A line is written: it joins the request and the pipe.
LEMMA WriteFlow ==
  ASSUME TypeOK, OneAtATime, CallOK, ClientFlow, NEW c \in Clients, WriteLine(c)
  PROVE  ClientFlow'
<1>0. /\ ClientType /\ ClientStep(c) /\ pc[c] = "write" /\ text[c] # <<>> /\ Alive
      /\ UNCHANGED <<outbuf, stdout, stdoutQueue, backend, got, asked, reply>>
      /\ stdin' = Append(stdin, Head(text[c]))
  BY DEF TypeOK, ClientStep, WriteLine, backendVars
<1>1. /\ InFlight' = InFlight /\ Alive' = Alive /\ InFlight \in Seq(OutLine)
      /\ stdin \in Seq(Inputs)
  BY <1>0, FlightType DEF InFlight, Alive
<1>2. /\ sent'[c] = Append(sent[c], Head(text[c])) /\ inResult'[c] = FALSE
      /\ payload'[c] = <<>> /\ pc'[c] \in {"write", "read"}
      /\ sent[c] \in Seq(Inputs) /\ text[c] \in Seq(Inputs)
  BY <1>0 DEF ClientType, WriteLine
<1>3. ASSUME NEW d \in Clients, d # c PROVE ~Asking(d)'
  BY <1>0, <1>3, Alone, OtherClients DEF Critical, Asking
<1>4. Flow(c)'
  <2> DEFINE S == sent[c]
             x == Head(text[c])
             k == Len(S) - Len(stdin)
             T == Append(S, x)
  <2>1. ~InRead(c)' /\ PayRead(c)' = <<>> /\ ~InRead(c) /\ PayRead(c) = <<>>
    BY <1>0, <1>2 DEF InRead, PayRead
  <2>2. /\ Unread(stdin, S) /\ Reading(InFlight, S, k, InRead(c), PayRead(c), got[c], Alive)
        /\ Complete(InFlight, InRead(c))
    BY <1>0 DEF ClientFlow, FlowOK, Asking, Flow
  <2>3. S \in Seq(Inputs) /\ x \in Inputs /\ T \in Seq(Inputs)
    BY <1>0, <1>2, SeqTypes
  <2>4. InRead(c) = FALSE /\ InRead(c)' = FALSE
    BY <2>1 DEF InRead
  <2>5. Len(S) \in Nat /\ Len(stdin) \in Nat /\ Len(stdin) <= Len(S)
    BY <1>1, <2>2, <2>3 DEF Unread
  <2>6. k \in Nat /\ k <= Len(S)
    BY <2>5
  <2>7. /\ Len(stdin') = Len(stdin) + 1 /\ Len(T) = Len(S) + 1
        /\ Len(T) - Len(stdin') = k
    <3>1. Len(stdin') = Len(stdin) + 1 /\ Len(T) = Len(S) + 1
      BY <1>0, <1>1, <2>3
    <3> QED
      BY <2>5, <3>1
  <2>8. Unread(stdin', T)
    BY <1>0, <1>1, <2>2, <2>3, UnreadWrite
  <2> HIDE DEF k, T, S, x
  <2>9. Reading(InFlight, T, k, FALSE, <<>>, got[c], Alive)
    BY <1>1, <2>1, <2>2, <2>3, <2>4, <2>6, WriteReading DEF T
  <2>10. sent'[c] = T
    BY <1>2 DEF T, S, x
  <2> QED
    BY <1>0, <1>1, <2>1, <2>2, <2>4, <2>7, <2>8, <2>9, <2>10 DEF Flow
<1>5. FlowOK'
  BY <1>3, <1>4 DEF FlowOK
<1>6. QuietOK'
  BY <1>2 DEF QuietOK
<1>7. AnswersOwnLines'
  <2>1. reply'[c] # "ok"
    BY <1>0 DEF CallOK
  <2> QED
    BY <1>0, <2>1, AnswerFrame DEF ClientFlow
<1> QED
  BY <1>5, <1>6, <1>7 DEF ClientFlow

\* A living backend's output holds no end mark.
LEMMA NoEndMark ==
  ASSUME TypeOK, EndMarkMeansGone, Alive
  PROVE  \A i \in 1..Len(InFlight) : InFlight[i].tag # "eof"
<1>1. ASSUME NEW a \in Seq(OutLine), NEW b \in Seq(OutLine),
             \A i \in 1..Len(a) : a[i].tag # "eof", \A i \in 1..Len(b) : b[i].tag # "eof"
      PROVE  \A i \in 1..Len(a \o b) : (a \o b)[i].tag # "eof"
  <2>1. /\ Len(a) \in Nat /\ \A i \in 1..Len(a) : (a \o b)[i] = a[i]
        /\ \A i \in 1..Len(a \o b) : i > Len(a) =>
             i - Len(a) \in 1..Len(b) /\ (a \o b)[i] = b[i - Len(a)]
    BY ConcatAt
  <2> QED
    BY <1>1, <2>1
<1>2. /\ \A i \in 1..Len(stdout) : stdout[i].tag # "eof"
      /\ \A i \in 1..Len(outbuf) : outbuf[i].tag # "eof"
  <2>1. stdout \in Seq(Printed) /\ outbuf \in Seq(Printed)
    BY DEF TypeOK, BackendType
  <2>2. \A e \in Printed : e.tag # "eof"
    BY DEF Printed
  <2> QED
    BY <2>1, <2>2
<1>3. \A i \in 1..Len(stdoutQueue) : stdoutQueue[i].tag # "eof"
  BY DEF EndMarkMeansGone
<1>4. /\ stdoutQueue \in Seq(OutLine) /\ stdout \in Seq(OutLine) /\ outbuf \in Seq(OutLine)
      /\ stdoutQueue \o stdout \in Seq(OutLine)
  BY FlightType
<1>5. \A i \in 1..Len(stdoutQueue \o stdout) : (stdoutQueue \o stdout)[i].tag # "eof"
  BY <1>1, <1>2, <1>3, <1>4
<1> QED
  BY <1>1, <1>2, <1>4, <1>5 DEF InFlight

\* The line that _read_result takes is the first one in flight.
LEMMA HeadInFlight ==
  ASSUME TypeOK, stdoutQueue # <<>>
  PROVE  /\ InFlight \in Seq(OutLine) /\ InFlight # <<>> /\ Tail(InFlight) \in Seq(OutLine)
         /\ InFlight[1] = Head(stdoutQueue)
         /\ Tail(InFlight) = (Tail(stdoutQueue) \o stdout) \o outbuf
<1>1. /\ stdoutQueue \in Seq(OutLine) /\ stdout \in Seq(OutLine) /\ outbuf \in Seq(OutLine)
      /\ InFlight \in Seq(OutLine)
  BY FlightType
<1>2. ASSUME NEW a \in Seq(OutLine), NEW b \in Seq(OutLine), a # <<>>
      PROVE  /\ a \o b # <<>> /\ (a \o b)[1] = Head(a) /\ Tail(a \o b) = Tail(a) \o b
             /\ a \o b \in Seq(OutLine) /\ Tail(a) \in Seq(OutLine)
  <2>1. /\ a = <<Head(a)>> \o Tail(a) /\ Tail(a) \in Seq(OutLine) /\ Head(a) \in OutLine
    BY <1>2, HeadTailProperties
  <2>2. a \o b = <<Head(a)>> \o (Tail(a) \o b)
    <3>1. <<Head(a)>> \in Seq(OutLine)
      BY <2>1
    <3> QED
      BY <2>1, <3>1, ConcatAssociative
  <2>3. Tail(a) \o b \in Seq(OutLine)
    BY <2>1, ConcatAt
  <2>4. ASSUME NEW h \in OutLine, NEW t \in Seq(OutLine)
        PROVE  <<h>> \o t # <<>> /\ (<<h>> \o t)[1] = h /\ Tail(<<h>> \o t) = t
    OBVIOUS
  <2> QED
    BY <2>1, <2>2, <2>3, <2>4, ConcatAt
<1>3. /\ stdoutQueue \o stdout # <<>> /\ (stdoutQueue \o stdout)[1] = Head(stdoutQueue)
      /\ Tail(stdoutQueue \o stdout) = Tail(stdoutQueue) \o stdout
      /\ stdoutQueue \o stdout \in Seq(OutLine)
  BY <1>1, <1>2
<1>4. Head(stdoutQueue \o stdout) = Head(stdoutQueue)
  BY <1>3, HeadTailProperties
<1>5. InFlight # <<>> /\ InFlight[1] = Head(stdoutQueue)
      /\ Tail(InFlight) = (Tail(stdoutQueue) \o stdout) \o outbuf
  <2>1. /\ (stdoutQueue \o stdout) \o outbuf # <<>>
        /\ ((stdoutQueue \o stdout) \o outbuf)[1] = Head(stdoutQueue \o stdout)
        /\ Tail((stdoutQueue \o stdout) \o outbuf) = Tail(stdoutQueue \o stdout) \o outbuf
    BY <1>1, <1>2, <1>3
  <2> QED
    BY <1>3, <1>4, <2>1 DEF InFlight
<1> QED
  BY <1>1, <1>5, TailAt

\* What the client that reads may rely on.
LEMMA ReaderFlow ==
  ASSUME TypeOK, FlowOK, NEW c \in Clients, pc[c] = "read"
  PROVE  /\ Unread(stdin, sent[c])
         /\ Reading(InFlight, sent[c], Len(sent[c]) - Len(stdin), inResult[c], payload[c],
                    got[c], Alive)
         /\ Alive => Complete(InFlight, inResult[c])
         /\ Len(sent[c]) - Len(stdin) \in Nat /\ Len(sent[c]) - Len(stdin) <= Len(sent[c])
<1>1. Flow(c)
  BY DEF FlowOK, Asking
<1>2. InRead(c) = inResult[c] /\ PayRead(c) = payload[c]
  BY DEF TypeOK, ClientType, InRead, PayRead
<1>3. sent[c] \in Seq(Inputs) /\ stdin \in Seq(Inputs)
  BY FlightType DEF TypeOK, ClientType
<1>4. Unread(stdin, sent[c])
  BY <1>1 DEF Flow
<1>5. Len(sent[c]) - Len(stdin) \in Nat /\ Len(sent[c]) - Len(stdin) <= Len(sent[c])
  BY <1>3, <1>4 DEF Unread
<1> QED
  BY <1>1, <1>2, <1>5 DEF Flow

\* The last result of a call: every line was accepted and has its answer, and
\* nothing of a result is under way behind it.
LEMMA LastResult ==
  ASSUME TypeOK, CallOK, FlowOK, NEW c \in Clients, pc[c] = "read", stdoutQueue # <<>>,
         Head(stdoutQueue).tag = "close", inResult[c], Len(got[c]) + 1 = Len(asked[c])
  PROVE  /\ Len(sent[c]) - Len(stdin) = Len(sent[c]) /\ Len(sent[c]) = Len(got[c]) + 1
         /\ Append(got[c], payload[c]) = AnswersTo(sent[c])
         /\ \A i \in 1..Len(sent[c]) : sent[c][i] \notin ErrLines
         /\ \A i \in 1..Len(Tail(InFlight)) : Tail(InFlight)[i].tag \notin ResultTags
<1> DEFINE F == InFlight
           S == sent[c]
           k == Len(S) - Len(stdin)
<1>1. /\ S \in Seq(Inputs) /\ payload[c] \in Seq(OutLine) /\ got[c] \in Seq(Seq(OutLine))
  BY DEF TypeOK, ClientType
<1>2. F \in Seq(OutLine) /\ F # <<>> /\ F[1].tag = "close"
  BY HeadInFlight
<1>3. k \in Nat /\ k <= Len(S) /\ Len(S) <= Len(got[c]) + 1
  BY ReaderFlow DEF CallOK
<1>4. PICK r \in 0..k, p \in [1..Len(F) -> Nat] :
        /\ Placed(F, S, k, r, p) /\ Unbroken(F, p) /\ Collected(got[c], S, r)
        /\ Expected(F, inResult[c], payload[c])
  BY ReaderFlow DEF Reading
<1> HIDE DEF F, S, k
<1>5. payload[c] = <<Out("body", F[1].of)>>
  BY <1>2, <1>4 DEF Expected
<1>6. /\ k = Len(S) /\ Len(S) = Len(got[c]) + 1
      /\ Append(got[c], payload[c]) = AnswersTo(S)
      /\ \A i \in 1..Len(S) : S[i] \notin ErrLines
      /\ \A i \in 1..Len(Tail(F)) : Tail(F)[i].tag \notin ResultTags
  BY <1>1, <1>2, <1>3, <1>4, <1>5, CloseLast, Zenon
<1> QED
  BY <1>6 DEF F, S, k

\* _read_result takes a line.
LEMMA ReadFlow ==
  ASSUME TypeOK, OneAtATime, EndMarkMeansGone, CallOK, ClientFlow,
         NEW c \in Clients, ReadLine(c)
  PROVE  ClientFlow'
<1> DEFINE F == InFlight
           S == sent[c]
           k == Len(S) - Len(stdin)
           l == Head(stdoutQueue)
<1>0. /\ ClientType /\ ClientStep(c) /\ pc[c] = "read" /\ stdoutQueue # <<>>
      /\ stdoutQueue' = Tail(stdoutQueue)
      /\ UNCHANGED <<outbuf, stdout, stdin, backend, asked, sent>>
  BY DEF TypeOK, ClientStep, ReadLine, backendVars
<1>1. /\ Alive' = Alive /\ F \in Seq(OutLine) /\ F # <<>> /\ F[1] = l /\ F' = Tail(F)
      /\ stdin \in Seq(Inputs) /\ Tail(F) \in Seq(OutLine)
  BY <1>0, HeadInFlight, FlightType DEF InFlight, Alive
<1>2. /\ S \in Seq(Inputs) /\ payload[c] \in Seq(OutLine) /\ got[c] \in Seq(Seq(OutLine))
      /\ inResult[c] \in BOOLEAN /\ asked[c] \in Seq(Lines)
  BY <1>0 DEF ClientType
<1>3. /\ Unread(stdin, S) /\ Reading(F, S, k, inResult[c], payload[c], got[c], Alive)
      /\ Alive \in BOOLEAN
      /\ Alive => Complete(F, inResult[c])
      /\ k \in Nat /\ k <= Len(S)
  BY <1>0, ReaderFlow DEF ClientFlow, Alive
<1>4. k \in Nat /\ k <= Len(S) /\ Len(S) \in Nat /\ Len(stdin) \in Nat
  BY <1>1, <1>2, <1>3
<1> HIDE DEF F, S, k, l
<1>11. PICK up \in BOOLEAN :
         up = Alive /\ Reading(F, S, k, inResult[c], payload[c], got[c], up)
  BY <1>3
<1>5. ASSUME NEW d \in Clients, d # c
      PROVE  ~Asking(d)' /\ pc'[d] \notin {"write", "read"}
  BY <1>0, <1>5, Alone, OtherClients DEF Critical, Asking
<1>6. \* The reader goes on.
      ASSUME pc' = pc, reply' = reply,
             Reading(Tail(F), S, k, inResult'[c], payload'[c], got'[c], up),
             inResult'[c] => l.tag = "open" \/ (inResult[c] /\ l.tag # "close")
      PROVE  ClientFlow'
  <2>1. pc'[c] = "read" /\ InRead(c)' = inResult'[c] /\ PayRead(c)' = payload'[c]
    <3>1. inResult'[c] \in BOOLEAN
      BY <1>0, <1>2 DEF ReadLine, HasStartTag, ClientType
    <3> QED
      BY <1>0, <1>6, <3>1 DEF InRead, PayRead
  <2>2. ASSUME Alive PROVE Complete(Tail(F), inResult'[c])
    <3>1. F[Len(F)].tag \in {"log", "close"}
      BY <1>1, <1>3, <2>2 DEF Complete
    <3>2. /\ Len(Tail(F)) = Len(F) - 1 /\ Len(F) \in Nat
          /\ \A i \in 1..Len(Tail(F)) : Tail(F)[i] = F[i + 1]
      BY <1>1, TailAt
    <3>3. CASE Tail(F) # <<>>
      <4>1. Len(Tail(F)) \in 1..Len(Tail(F)) /\ Len(Tail(F)) + 1 = Len(F)
        BY <1>1, <3>2, <3>3
      <4> QED
        BY <3>1, <3>2, <3>3, <4>1 DEF Complete
    <3>4. CASE Tail(F) = <<>>
      <4>1. Len(F) = 1
        <5>1. Len(Tail(F)) = 0
          <6>1. \A s : s = <<>> => Len(s) = 0
            OBVIOUS
          <6> QED
            BY <3>4, <6>1, Zenon
        <5> QED
          BY <3>2, <5>1
      <4>2. l.tag \in {"log", "close"}
        BY <1>1, <3>1, <4>1
      <4>3. inResult'[c] => inResult[c] /\ l.tag = "log"
        BY <1>6, <4>2
      <4>4. inResult[c] => F[1].tag # "log"
        <5>1. Reading(F, S, k, inResult[c], payload[c], got[c], up)
          BY <1>11
        <5> QED
          BY <1>1, <5>1 DEF Reading, Expected
      <4> QED
        BY <1>1, <3>4, <4>3, <4>4 DEF Complete
    <3> QED
      BY <3>3, <3>4
  <2>3. Flow(c)'
    BY <1>0, <1>1, <1>3, <1>6, <1>11, <2>1, <2>2 DEF Flow, F, S, k
  <2>4. FlowOK'
    BY <1>5, <2>3 DEF FlowOK
  <2>5. QuietOK'
    BY <2>1 DEF QuietOK
  <2>6. AnswersOwnLines'
    <3>1. reply'[c] # "ok"
      BY <1>0, <1>6 DEF CallOK
    <3> QED
      BY <1>0, <3>1, AnswerFrame DEF ClientFlow
  <2> QED
    BY <2>4, <2>5, <2>6 DEF ClientFlow
<1>7. CASE l.tag = "eof"
  <2>1. pc' = [pc EXCEPT ![c] = "idle"] /\ reply' = [reply EXCEPT ![c] = "error"]
    BY <1>7 DEF ReadLine, Return, l
  <2>2. ~Alive
    <3>1. stdoutQueue \in Seq(OutLine)
      BY FlightType
    <3>2. 1 \in 1..Len(stdoutQueue) /\ stdoutQueue[1] = l
      BY <1>0, <3>1 DEF l
    <3> QED
      BY <1>7, <3>2 DEF EndMarkMeansGone
  <2>3. pc'[c] = "idle" /\ reply'[c] = "error"
    BY <1>0, <2>1 DEF ClientType
  <2>4. FlowOK'
    BY <1>5, <2>3 DEF FlowOK, Asking
  <2>5. QuietOK'
    BY <1>1, <2>2 DEF QuietOK
  <2>6. AnswersOwnLines'
    BY <1>0, <2>3, AnswerFrame DEF ClientFlow
  <2> QED
    BY <2>4, <2>5, <2>6 DEF ClientFlow
<1>8. CASE l.tag # "eof" /\ ~inResult[c]
  <2>1. /\ inResult'[c] = (l.tag = "open") /\ UNCHANGED <<payload, got, pc, reply>>
    BY <1>0, <1>8 DEF ReadLine, HasStartTag, ClientType, l
  <2>2. /\ F \in Seq(OutLine) /\ F # <<>> /\ F[1].tag # "eof"
        /\ inResult'[c] <=> F[1].tag = "open"
    BY <1>1, <1>8, <2>1
  <2>3. Reading(Tail(F), S, k, inResult'[c], payload[c], got[c], up)
    BY <1>2, <1>4, <1>8, <1>11, <2>2, SkipReading
  <2> QED
    BY <1>6, <1>8, <2>1, <2>3
<1>9. CASE l.tag \notin {"eof", "close"} /\ inResult[c]
  <2>1. /\ payload'[c] = Append(payload[c], l) /\ UNCHANGED <<inResult, got, pc, reply>>
    BY <1>0, <1>9 DEF ReadLine, ClientType, l
  <2>2. /\ F \in Seq(OutLine) /\ F # <<>> /\ F[1].tag \notin {"eof", "close"} /\ F[1] = l
    BY <1>1, <1>9
  <2>3. Reading(Tail(F), S, k, inResult[c], Append(payload[c], l), got[c], up)
    BY <1>2, <1>4, <1>9, <1>11, <2>2, BodyReading
  <2> QED
    BY <1>6, <1>9, <2>1, <2>3
<1>10. CASE l.tag = "close" /\ inResult[c]
  <2>1. /\ ~inResult'[c] /\ payload'[c] = <<>>
        /\ got'[c] = Append(got[c], payload[c])
        /\ IF Len(got[c]) + 1 = Len(asked[c])
           THEN Return(c, "ok")
           ELSE UNCHANGED <<pc, lock, reply>>
    BY <1>0, <1>10 DEF ReadLine, ClientType, Wanted, l
  <2>2. /\ F \in Seq(OutLine) /\ F # <<>> /\ F[1].tag = "close"
    BY <1>1, <1>10
  <2>3. Reading(Tail(F), S, k, inResult'[c], <<>>, Append(got[c], payload[c]), up)
    BY <1>2, <1>4, <1>10, <1>11, <2>1, <2>2, CloseReading
  <2>4. CASE Len(got[c]) + 1 # Len(asked[c])
    BY <1>6, <1>10, <2>1, <2>3, <2>4
  <2>5. CASE Len(got[c]) + 1 = Len(asked[c])
    <3>1. pc'[c] = "idle" /\ reply'[c] = "ok"
      BY <1>0, <2>1, <2>5 DEF Return, ClientType
    <3>10. /\ k = Len(S) /\ Len(S) = Len(got[c]) + 1
           /\ Append(got[c], payload[c]) = AnswersTo(S)
           /\ \A i \in 1..Len(Tail(F)) : Tail(F)[i].tag \notin ResultTags
      BY <1>0, <1>10, <2>5, LastResult DEF ClientFlow, F, S, k, l
    <3>3. /\ k = Len(S) /\ Len(S) = Len(got[c]) + 1
          /\ got'[c] = AnswersTo(S)
          /\ \A i \in 1..Len(Tail(F)) : Tail(F)[i].tag \notin ResultTags
      BY <2>1, <3>10
    <3>4. stdin = <<>>
      BY <1>1, <1>4, <3>3 DEF k
    <3>5. ASSUME Alive PROVE \A i \in 1..Len(Tail(F)) : Tail(F)[i].tag = "log"
      <4>1. \A i \in 1..Len(F) : F[i].tag # "eof"
        BY <3>5, NoEndMark DEF F
      <4>2. \A i \in 1..Len(Tail(F)) : Tail(F)[i].tag # "eof" /\ Tail(F)[i] \in OutLine
        BY <1>1, <4>1, TailAt
      <4> QED
        BY <3>3, <4>2 DEF OutLine, Tags, ResultTags
    <3>6. FlowOK'
      BY <1>5, <3>1 DEF FlowOK, Asking
    <3>7. QuietOK'
      <4>1. ASSUME Alive PROVE stdin' = <<>> /\ \A i \in 1..Len(InFlight') : InFlight'[i].tag = "log"
        BY <1>0, <1>1, <3>4, <3>5, <4>1 DEF F
      <4> QED
        BY <1>1, <4>1 DEF QuietOK
    <3>8. AnswersOwnLines'
      <4>1. /\ Len(got'[c]) = Len(asked'[c]) /\ sent'[c] = S
        BY <1>0, <1>2, <2>1, <2>5 DEF S
      <4> QED
        BY <1>0, <3>3, <4>1, AnswerFrame DEF ClientFlow, AnswersTo
    <3> QED
      BY <3>6, <3>7, <3>8 DEF ClientFlow
  <2> QED
    BY <2>4, <2>5
<1> QED
  BY <1>7, <1>8, <1>9, <1>10

-----------------------------------------------------------------------------

\* Pipes before the start and after the end.
LEMMA PipesStep == TypeOK /\ PipesOK /\ [Next]_vars => PipesOK'
<1> SUFFICES ASSUME TypeOK, PipesOK, [Next]_vars PROVE PipesOK'
  OBVIOUS
<1>1. ASSUME NEW c \in Clients, ClientStep(c) PROVE PipesOK'
  BY <1>1 DEF PipesOK, ClientStep, Submit, Acquire, ClearNonResult, PollBackend, WriteLine,
              WriteFails, ReadLine, backendVars, Alive
<1>2. CASE Timer \/ Drain \/ UNCHANGED vars
  <2>1. UNCHANGED <<backend, outbuf, stdin>>
    BY <1>2 DEF Timer, TimerFire, TimerEnter, TimerPrint, TimerRearm, Drain, DrainStdout,
                DrainStdoutEnd, DrainStderr, RedCheck, RedPut, vars, backendVars
  <2> QED
    BY <2>1 DEF PipesOK, Alive
<1>3. CASE Backend
  BY <1>3 DEF PipesOK, Backend, BackendInit, BackendFlush, BackendQuery, BackendNoise,
              BackendWriteErr, BackendExit, BackendTeardown, Alive
<1> QED
  BY <1>1, <1>2, <1>3 DEF Next

\* Nothing is under way at the start.
LEMMA InitFlowInv == Init => FlowInv
<1> SUFFICES ASSUME Init PROVE FlowInv
  OBVIOUS
<1>1. /\ pc = [d \in Clients |-> "idle"] /\ reply = [d \in Clients |-> "none"]
      /\ outbuf = <<>> /\ stdin = <<>> /\ stdout = <<>> /\ stdoutQueue = <<>>
  BY DEF Init
<1>2. InFlight = <<>>
  BY <1>1, ConcatEmptySeq DEF InFlight
<1>3. PipesOK /\ CallOK
  BY <1>1 DEF PipesOK, CallOK
<1>4. QuietOK
  BY <1>1, <1>2 DEF QuietOK
<1>5. FlowOK
  BY <1>1 DEF FlowOK, Asking
<1>6. AnswersOwnLines
  BY <1>1 DEF AnswersOwnLines
<1> QED
  BY <1>3, <1>4, <1>5, <1>6 DEF FlowInv

\* Every step keeps the invariant of the lines under way.
LEMMA FlowInvStep ==
  TypeOK /\ OneAtATime /\ EndMarkMeansGone /\ FlowInv /\ [Next]_vars => FlowInv'
<1> SUFFICES ASSUME TypeOK, OneAtATime, EndMarkMeansGone, FlowInv, [Next]_vars
             PROVE  FlowInv'
  OBVIOUS
<1>0. PipesOK /\ CallOK /\ ClientFlow
  BY DEF FlowInv, ClientFlow
<1>1. PipesOK'
  BY <1>0, PipesStep
<1>2. ASSUME NEW c \in Clients, ClientStep(c) PROVE CallOK' /\ ClientFlow'
  <2>1. CallOK'
    BY <1>0, <1>2, CallStep
  <2>2. CASE Submit(c) \/ Acquire(c) \/ ClearNonResult(c) \/ WriteFails(c)
    BY <1>0, <2>1, <2>2, EarlyFlow
  <2>3. CASE PollBackend(c)
    BY <1>0, <2>1, <2>3, PollFlow
  <2>4. CASE WriteLine(c)
    BY <1>0, <2>1, <2>4, WriteFlow
  <2>5. CASE ReadLine(c)
    BY <1>0, <2>1, <2>5, ReadFlow
  <2> QED
    BY <1>2, <2>2, <2>3, <2>4, <2>5 DEF ClientStep
<1>3. ASSUME Timer \/ Drain \/ Backend \/ UNCHANGED vars
      PROVE  CallOK' /\ ClientFlow'
  <2>1. CallOK'
    <3>1. UNCHANGED clientVars
      BY <1>3 DEF Timer, TimerFire, TimerEnter, TimerPrint, TimerRearm, Drain, DrainStdout,
             DrainStdoutEnd, DrainStderr, RedCheck, RedPut, vars, Backend, BackendInit,
             BackendFlush, BackendQuery, BackendNoise, BackendWriteErr, BackendExit,
             BackendTeardown
    <3> QED
      BY <1>0, <3>1 DEF CallOK, clientVars
  <2>2. ASSUME DrainStdout \/ BackendFlush PROVE ClientFlow'
    BY <1>0, <2>2, MoveSteps, StillFlow
  <2>3. ASSUME BackendInit PROVE ClientFlow'
    BY <1>0, <2>3, InitFlow
  <2>4. ASSUME BackendQuery PROVE ClientFlow'
    BY <1>0, <2>4, QueryFlow
  <2>5. ASSUME BackendExit PROVE ClientFlow'
    BY <1>0, <2>5, ExitFlow
  <2>6. ASSUME DrainStdoutEnd PROVE ClientFlow'
    BY <1>0, <2>6, EndFlow
  <2>7. ASSUME \/ Timer \/ DrainStderr \/ (\E d \in Drains : RedCheck(d) \/ RedPut(d))
               \/ BackendNoise \/ BackendWriteErr \/ BackendTeardown \/ UNCHANGED vars
        PROVE  ClientFlow'
    BY <1>0, <2>7, SilentSteps, StillFlow
  <2>8. ClientFlow'
    BY <1>3, <2>2, <2>3, <2>4, <2>5, <2>6, <2>7 DEF Drain, Backend
  <2> QED
    BY <2>1, <2>8
<1> QED
  BY <1>1, <1>2, <1>3 DEF Next, FlowInv, ClientFlow

(***************************************************************************)
(* The inductive invariant about the lines under way.                      *)
(***************************************************************************)
THEOREM FlowSafe == Spec => []FlowInv
<1>1. LockInv => OneAtATime
  BY DEF LockInv
<1>2. EndInv => EndMarkMeansGone
  BY DEF EndInv
<1>3. Spec => []EndInv
  BY InitEndInv, EndInvStep, TypeCorrect, PTL DEF Spec
<1> QED
  BY <1>1, <1>2, <1>3, TypeCorrect, LockSafe, InitFlowInv, FlowInvStep, PTL DEF Spec

(***************************************************************************)
(* No result of one request is left for the next.                          *)
(***************************************************************************)
THEOREM NothingLeftOver == Spec => []QuietBetweenQueries
<1>1. FlowInv => QuietBetweenQueries
  BY DEF FlowInv, QuietOK, QuietBetweenQueries, Critical
<1> QED
  BY <1>1, FlowSafe, PTL

(***************************************************************************)
(* A call that succeeds returns the answers to the lines it wrote.         *)
(***************************************************************************)
THEOREM AnswersAreOwn == Spec => []AnswersOwnLines
<1>1. FlowInv => AnswersOwnLines
  BY DEF FlowInv
<1> QED
  BY <1>1, FlowSafe, PTL

-----------------------------------------------------------------------------
(* The refinement, step by step. *)

\* What a step that leaves the lock and its owner's lines alone looks like.
LEMMA SameCall ==
  ASSUME lock' = lock,
         \A c \in Clients : lock = c => sent'[c] = sent[c] /\ got'[c] = got[c]
  PROVE  Owner' = Owner /\ Submitted' = Submitted /\ Received' = Received
BY DEF Owner, Submitted, Received, Serving

\* What the caller sees while c is served, and while nobody is.
LEMMA CallOf ==
  ASSUME NEW c \in Clients
  PROVE  /\ lock = c => Owner = c /\ Submitted = sent[c] /\ Received = ResultsOf(got[c])
         /\ lock' = c => Owner' = c /\ Submitted' = sent'[c] /\ Received' = ResultsOf(got'[c])
         /\ lock = NoOwner => Owner = NoOwner /\ Submitted = <<>> /\ Received = <<>>
         /\ lock' = NoOwner => Owner' = NoOwner /\ Submitted' = <<>> /\ Received' = <<>>
BY DEF Owner, Submitted, Received, Serving, Clients, NoOwner

\* The answers, one by one.
LEMMA ResultsAt ==
  /\ ResultsOf(<<>>) = <<>>
  /\ \A g \in Seq(Seq(OutLine)) : Len(ResultsOf(g)) = Len(g)
  /\ \A g \in Seq(Seq(OutLine)), q \in Seq(OutLine) :
       ResultsOf(Append(g, q)) = Append(ResultsOf(g), AnswerOf(q))
<1>1. ResultsOf(<<>>) = <<>>
  BY DEF ResultsOf
<1>2. \A g \in Seq(Seq(OutLine)) : Len(ResultsOf(g)) = Len(g)
  BY DEF ResultsOf
<1>3. ASSUME NEW g \in Seq(Seq(OutLine)), NEW q \in Seq(OutLine)
      PROVE  ResultsOf(Append(g, q)) = Append(ResultsOf(g), AnswerOf(q))
  BY DEF ResultsOf
<1> QED
  BY <1>1, <1>2, <1>3

\* The abstract specification counts with a FiniteSets of its own.
LEMMA SameCardinality == \A T : SQ!Cardinality(T) = Cardinality(T)
BY DEF SQ!Cardinality, Cardinality

\* The body printed for a line counts as its answer.
LEMMA AnswerOfBody == \A x : AnswerOf(<<Out("body", x)>>) = x
BY DEF AnswerOf, Out

\* A call that gives up: the backend is gone.
LEMMA FailStep ==
  ASSUME NEW c \in Clients, lock = c, Return(c, "error"), ~Alive, Alive' = Alive
  PROVE  SQ!Fail
<1>1. /\ Owner = c /\ Owner' = NoOwner /\ Submitted' = <<>> /\ Received' = <<>>
      /\ reply' = [reply EXCEPT ![c] = "error"]
  BY CallOf DEF Return
<1> QED
  BY <1>1 DEF SQ!Fail, SQ!End

\* A line is read: a result that is not the last is received, the last one ends
\* the call, and so does the end of the output.
LEMMA ReadSerial ==
  ASSUME TypeOK, OneAtATime, EndMarkMeansGone, FlowInv, NEW c \in Clients, ReadLine(c)
  PROVE  [SQ!Next]_(SQ!sqVars)
<1> DEFINE F == InFlight
           S == sent[c]
           k == Len(S) - Len(stdin)
           l == Head(stdoutQueue)
           g == got[c]
           pay == payload[c]
<1>0. /\ ClientType /\ CallOK /\ FlowOK /\ pc[c] = "read" /\ stdoutQueue # <<>>
      /\ lock = c /\ Alive' = Alive /\ sent' = sent
  BY DEF TypeOK, FlowInv, OneAtATime, Critical, ReadLine, backendVars, Alive
<1>1. /\ S \in Seq(Inputs) /\ pay \in Seq(OutLine) /\ g \in Seq(Seq(OutLine))
      /\ asked[c] \in Seq(Lines) /\ stdin \in Seq(Inputs)
  BY <1>0, FlightType DEF ClientType
<1>2. F \in Seq(OutLine) /\ F # <<>> /\ F[1] = l
  BY <1>0, HeadInFlight
<1>3. Owner = c /\ Submitted = S /\ Received = ResultsOf(g) /\ Len(Received) = Len(g)
  BY <1>0, <1>1, CallOf, ResultsAt
<1>4. \* Nothing is received and the call goes on.
      ASSUME lock' = lock, reply' = reply, got' = got
      PROVE  [SQ!Next]_(SQ!sqVars)
  <2>1. Owner' = Owner /\ Submitted' = Submitted /\ Received' = Received
    BY <1>0, <1>4, SameCall
  <2> QED
    BY <1>0, <1>4, <2>1 DEF SQ!sqVars
<1>5. CASE l.tag = "eof"
  <2>1. Return(c, "error")
    BY <1>5 DEF ReadLine
  <2>2. ~Alive
    <3>1. stdoutQueue \in Seq(OutLine)
      BY FlightType
    <3>2. 1 \in 1..Len(stdoutQueue) /\ stdoutQueue[1] = l
      BY <1>0, <3>1
    <3> QED
      BY <1>5, <3>2 DEF EndMarkMeansGone
  <2> QED
    BY <1>0, <2>1, <2>2, FailStep DEF SQ!Next
<1>6. CASE l.tag # "eof" /\ ~(l.tag = "close" /\ inResult[c])
  BY <1>4, <1>6 DEF ReadLine
<1>7. CASE l.tag = "close" /\ inResult[c]
  <2>1. /\ got' = [got EXCEPT ![c] = Append(g, pay)] /\ got'[c] = Append(g, pay)
        /\ IF Len(g) + 1 = Len(asked[c])
           THEN Return(c, "ok")
           ELSE UNCHANGED <<pc, lock, reply>>
    BY <1>0, <1>7 DEF ReadLine, ClientType, Wanted
  <2>2. Reading(F, S, k, inResult[c], pay, g, Alive) /\ k \in Nat /\ k <= Len(S)
    BY <1>0, ReaderFlow
  <2>3. k \in Nat /\ k <= Len(S) /\ F[1].tag = "close" /\ Len(S) \in Nat /\ Len(g) \in Nat
    BY <1>1, <1>2, <1>7, <2>2
  <2> HIDE DEF F, S, k, l, g, pay
  <2>4. PICK r \in 0..k, p \in [1..Len(F) -> Nat] :
          /\ Placed(F, S, k, r, p) /\ Unbroken(F, p) /\ Collected(g, S, r)
          /\ Expected(F, inResult[c], pay)
    BY <2>2 DEF Reading
  <2>5. pay = <<Out("body", F[1].of)>>
    BY <1>2, <1>7, <2>3, <2>4 DEF Expected
  <2>6. CASE Len(g) + 1 # Len(asked[c])
    <3>1. PICK m \in 1..Len(S) :
            /\ S[m] \notin ErrLines /\ F[1].of = S[m]
            /\ Cardinality(SQ!AcceptedTo(S, m - 1)) = Len(g)
      <4>1. /\ p[1] \in 1..k /\ r < p[1] /\ F[1].of = S[p[1]] /\ S[p[1]] \notin ErrLines
            /\ Cardinality(SQ!AcceptedTo(S, p[1] - 1)) = Len(g)
        BY <1>1, <1>2, <2>3, <2>4, CloseCount
      <4>2. p[1] \in 1..Len(S)
        BY <2>3, <4>1
      <4> QED
        BY <4>1, <4>2
    <3>2. AnswerOf(pay) = S[m]
      BY <2>5, <3>1, AnswerOfBody
    <3>3. lock' = c /\ reply' = reply
      BY <1>0, <2>1, <2>6
    <3>4. Owner' = c /\ Submitted' = S /\ Received' = Append(Received, S[m])
      <4>1. /\ Owner' = c /\ Submitted' = sent'[c] /\ Received' = ResultsOf(got'[c])
        BY <3>3, CallOf
      <4>2. ResultsOf(Append(g, pay)) = Append(ResultsOf(g), AnswerOf(pay))
        BY <1>1, ResultsAt
      <4> QED
        BY <1>0, <1>3, <2>1, <3>2, <4>1, <4>2 DEF S
    <3>5. SQ!Receive
      BY <1>0, <1>3, <3>1, <3>3, <3>4, SameCardinality DEF SQ!Receive
    <3> QED
      BY <3>5 DEF SQ!Next
  <2>7. CASE Len(g) + 1 = Len(asked[c])
    <3>2. Len(S) = Len(g) + 1 /\ \A i \in 1..Len(S) : S[i] \notin ErrLines
      BY <1>0, <1>7, <2>7, LastResult DEF S, g, l
    <3>3. Return(c, "ok")
      BY <2>1, <2>7
    <3>4. /\ Owner' = NoOwner /\ Submitted' = <<>> /\ Received' = <<>>
          /\ reply' = [reply EXCEPT ![c] = "ok"]
      BY <3>3, CallOf DEF Return
    <3>5. SQ!Succeed
      BY <1>0, <1>3, <3>2, <3>4 DEF SQ!Succeed, SQ!End
    <3> QED
      BY <3>5 DEF SQ!Next
  <2> QED
    BY <2>6, <2>7
<1> QED
  BY <1>5, <1>6, <1>7

\* The steps of a client.
LEMMA ClientSerial ==
  ASSUME TypeOK, OneAtATime, EndMarkMeansGone, FlowInv, NEW c \in Clients, ClientStep(c)
  PROVE  [SQ!Next]_(SQ!sqVars)
<1>0. ClientType /\ CallOK /\ ClientFlow /\ OneAtATime
  BY DEF TypeOK, FlowInv, ClientFlow
<1>1. pc[c] \in Critical => lock = c
  BY <1>0 DEF OneAtATime
<1>2. CASE Submit(c)
  <2>1. lock # c /\ lock' = lock /\ Alive' = Alive
    BY <1>0, <1>2 DEF OneAtATime, Critical, Submit, backendVars, Alive
  <2>2. \A d \in Clients : lock = d => sent'[d] = sent[d] /\ got'[d] = got[d]
    BY <1>0, <1>2, <2>1 DEF Submit, ClientType
  <2>3. Owner' = Owner /\ Submitted' = Submitted /\ Received' = Received
    BY <2>1, <2>2, SameCall
  <2>4. Owner # c
    BY <2>1 DEF Owner, Serving, Clients, NoOwner
  <2>5. SQ!Ask(c)
    BY <1>2, <2>1, <2>3, <2>4 DEF SQ!Ask, Submit
  <2> QED
    BY <2>5 DEF SQ!Next
<1>3. CASE Acquire(c)
  <2>1. /\ lock = NoOwner /\ lock' = c /\ Alive' = Alive /\ reply[c] = "none" /\ reply' = reply
        /\ sent'[c] = <<>> /\ got'[c] = <<>>
    BY <1>0, <1>3 DEF Acquire, CallOK, backendVars, Alive
  <2>2. /\ Owner = NoOwner /\ Submitted = <<>> /\ Received = <<>>
        /\ Owner' = c /\ Submitted' = <<>> /\ Received' = <<>>
    BY <2>1, CallOf, ResultsAt
  <2>3. SQ!Begin(c)
    BY <2>1, <2>2 DEF SQ!Begin, NoOwner
  <2> QED
    BY <2>3 DEF SQ!Next
<1>4. CASE ClearNonResult(c)
  <2>1. /\ Alive' = Alive /\ lock' = lock /\ UNCHANGED <<sent, got, reply>>
    BY <1>4 DEF ClearNonResult, backendVars, Alive
  <2>2. Owner' = Owner /\ Submitted' = Submitted /\ Received' = Received
    BY <2>1, SameCall
  <2> QED
    BY <2>1, <2>2 DEF SQ!sqVars
<1>5. CASE PollBackend(c)
  <2>1. /\ Alive' = Alive /\ UNCHANGED <<sent, got>> /\ lock = c
    BY <1>1, <1>5 DEF PollBackend, backendVars, Alive, Critical
  <2>2. CASE backend = "reaped"
    <3>1. Return(c, "error") /\ ~Alive
      BY <1>5, <2>2 DEF PollBackend, Alive
    <3> QED
      BY <2>1, <3>1, FailStep DEF SQ!Next
  <2>3. CASE backend # "reaped"
    <3>1. lock' = lock /\ reply' = reply
      BY <1>5, <2>3 DEF PollBackend
    <3>2. Owner' = Owner /\ Submitted' = Submitted /\ Received' = Received
      BY <2>1, <3>1, SameCall
    <3> QED
      BY <2>1, <3>1, <3>2 DEF SQ!sqVars
  <2> QED
    BY <2>2, <2>3
<1>6. CASE WriteLine(c)
  <2>1. /\ Alive /\ Alive' = Alive /\ lock = c /\ lock' = c /\ reply' = reply
        /\ got[c] = <<>> /\ got' = got /\ sent'[c] = Append(sent[c], Head(text[c]))
    BY <1>0, <1>1, <1>6 DEF WriteLine, CallOK, Alive, Critical, ClientType
  <2>2. Head(text[c]) \in Inputs
    <3>1. text[c] \in Seq(Inputs) /\ text[c] # <<>>
      BY <1>0, <1>6 DEF WriteLine, ClientType
    <3> QED
      BY <3>1
  <2>3. /\ Owner = c /\ Submitted = sent[c] /\ Received = <<>>
        /\ Owner' = c /\ Submitted' = Append(sent[c], Head(text[c])) /\ Received' = <<>>
    BY <2>1, CallOf, ResultsAt
  <2>4. SQ!Hand(Head(text[c]))
    BY <2>1, <2>3 DEF SQ!Hand
  <2> QED
    BY <2>2, <2>4 DEF SQ!Next
<1>7. CASE WriteFails(c)
  <2>1. /\ lock = c /\ Return(c, "error") /\ ~Alive /\ Alive' = Alive
    BY <1>1, <1>7 DEF WriteFails, backendVars, Alive, Critical
  <2> QED
    BY <2>1, FailStep DEF SQ!Next
<1>8. CASE ReadLine(c)
  BY <1>8, ReadSerial
<1> QED
  BY <1>2, <1>3, <1>4, <1>5, <1>6, <1>7, <1>8 DEF ClientStep

\* The steps of the other threads and of the backend.
LEMMA OtherSerial ==
  ASSUME TypeOK, OneAtATime, Timer \/ Drain \/ Backend \/ UNCHANGED vars
  PROVE  [SQ!Next]_(SQ!sqVars)
<1>1. UNCHANGED clientVars
  BY DEF Timer, TimerFire, TimerEnter, TimerPrint, TimerRearm, Drain, DrainStdout,
         DrainStdoutEnd, DrainStderr, RedCheck, RedPut, vars, Backend, BackendInit,
         BackendFlush, BackendQuery, BackendNoise, BackendWriteErr, BackendExit,
         BackendTeardown
<1>2. Owner' = Owner /\ Submitted' = Submitted /\ Received' = Received
  <2>1. CASE lock' = lock
    BY <1>1, <2>1, SameCall DEF clientVars
  <2>2. CASE lock' # lock
    <3>1. lock \notin Clients /\ lock' \notin Clients
      BY <2>2 DEF OneAtATime, Timer, TimerFire, TimerEnter, TimerPrint, TimerRearm, Drain,
             DrainStdout, DrainStdoutEnd, DrainStderr, RedCheck, RedPut, vars, Backend,
             BackendInit, BackendFlush, BackendQuery, BackendNoise, BackendWriteErr,
             BackendExit, BackendTeardown, Clients, NoOwner
    <3> QED
      BY <3>1 DEF Owner, Submitted, Received, Serving
  <2> QED
    BY <2>1, <2>2
<1>3. CASE Alive' = Alive
  BY <1>1, <1>2, <1>3 DEF SQ!sqVars, clientVars
<1>4. CASE Alive' # Alive
  <2>1. ~Alive'
    BY <1>4 DEF Timer, TimerFire, TimerEnter, TimerPrint, TimerRearm, Drain, DrainStdout,
           DrainStdoutEnd, DrainStderr, RedCheck, RedPut, vars, backendVars, Backend,
           BackendInit, BackendFlush, BackendQuery, BackendNoise, BackendWriteErr,
           BackendExit, BackendTeardown, Alive
  <2>2. SQ!GoDown
    BY <1>1, <1>2, <2>1 DEF SQ!GoDown, clientVars, Alive
  <2> QED
    BY <2>2 DEF SQ!Next
<1> QED
  BY <1>3, <1>4

(***************************************************************************)
(* The server keeps the promise of SerialQuery.                            *)
(***************************************************************************)
THEOREM RefinesSerialQuery == Spec => ServesSerially
<1>1. Init => SQ!Init
  <2> SUFFICES ASSUME Init PROVE SQ!Init
    OBVIOUS
  <2>1. Alive = TRUE /\ lock = NoOwner /\ reply = [c \in Clients |-> "none"]
    BY DEF Init, Alive
  <2>2. Owner = NoOwner /\ Submitted = <<>> /\ Received = <<>>
    BY <2>1 DEF Owner, Submitted, Received, Serving, Clients, NoOwner
  <2> QED
    BY <2>1, <2>2 DEF SQ!Init
<1>2. TypeOK /\ OneAtATime /\ EndMarkMeansGone /\ FlowInv /\ [Next]_vars
        => [SQ!Next]_(SQ!sqVars)
  BY ClientSerial, OtherSerial DEF Next
<1>3. LockInv => OneAtATime
  BY DEF LockInv
<1>4. EndInv => EndMarkMeansGone
  BY DEF EndInv
<1>5. Spec => []EndInv
  BY InitEndInv, EndInvStep, TypeCorrect, PTL DEF Spec
<1> QED
  BY <1>1, <1>2, <1>3, <1>4, <1>5, TypeCorrect, LockSafe, FlowSafe, PTL
     DEF Spec, ServesSerially, SQ!Spec
=============================================================================
