--------------------------- MODULE MCBatchClients ---------------------------
(* Both programs, compile.py with a second timeout step.  Three sources are  *)
(* run and one is left out; between them the scenarios of the dumps have     *)
(* every way a backend can end that the verdict tells apart.                 *)
EXTENDS BatchClients

CONSTANTS s1, s2, s3, s4

MCSteps   == [c \in Clients |-> IF c = "compile" THEN 2 ELSE 1]
MCSources == {s1, s2, s3}
MCLeftOut == <<s4>>

Good(n)        == BackendEnd("done", "counts", TRUE, "0", n)
Crashes(i, s)  == BackendEnd(i, "none", FALSE, s, 0)
Each(a, b, c)  == [s \in Sources |-> IF s = s1 THEN a ELSE IF s = s2 THEN b ELSE c]
MCScenarios ==
  [c \in Clients |->
     IF c = "compile" THEN [Sources -> {"OK", "FAIL", "undecodable"}]
     ELSE {Each(Good(0), Good(0), Good(0)), Each(Good(0), Good(2), Good(1)),
           Each(Good(0), BackendEnd("done", "bytes", TRUE, "0", 0), Good(1)),
           Each(BackendEnd("error", "none", FALSE, "1", 0), BackendEnd("ERROR", "none", FALSE, "1", 0),
             BackendEnd("none", "none", FALSE, "1", 0)),
           Each(Crashes("none", "SIGSEGV"), Crashes("none", "SIGABRT"), Crashes("done", "SIGTERM")),
           Each(Crashes("done", "SIGSEGV"), Crashes("done", "SIGABRT"), Good(0)),
           Each(BackendEnd("done", "error", TRUE, "0", 0), BackendEnd("done", "ERROR", TRUE, "0", 0), Good(0)),
           Each(BackendEnd("done", "counts", TRUE, "SIGSEGV", 0), BackendEnd("done", "counts", FALSE, "SIGSEGV", 0),
             Good(1))}]
=============================================================================
