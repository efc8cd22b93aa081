----------------------------- MODULE SerialQuery -----------------------------
(***************************************************************************)
(* What python/server.py promises its callers, without threads, timers,    *)
(* pipes, queues and tags: calls are served one at a time; a call hands    *)
(* lines to a backend that is up, receives the answers to its own lines in *)
(* the order of the lines, and ends well exactly when every line it handed *)
(* over has been answered.  It ends badly only when the backend is down.   *)
(*                                                                         *)
(* The promise is about the lines that reached the backend: which lines    *)
(* those are is up to the implementation.                                  *)
(***************************************************************************)
EXTENDS Naturals, Sequences, FiniteSets

CONSTANTS Clients, Inputs, ErrLines, NoOwner

VARIABLES
  up,         \* the backend runs
  owner,      \* the client being served
  submitted,  \* the lines the backend got from the call being served
  results,    \* the answers received so far
  reply       \* how the last call of each client ended

sqVars == <<up, owner, submitted, results, reply>>

\* The lines among the first n that the backend does not reject.
AcceptedTo(s, n) == {j \in 1..n : s[j] \notin ErrLines}

Init ==
  /\ up = TRUE
  /\ owner = NoOwner
  /\ submitted = <<>>
  /\ results = <<>>
  /\ reply = [c \in Clients |-> "none"]

Ask(c) ==
  /\ owner # c
  /\ reply' = [reply EXCEPT ![c] = "none"]
  /\ UNCHANGED <<up, owner, submitted, results>>

Begin(c) ==
  /\ owner = NoOwner
  /\ reply[c] = "none"
  /\ owner' = c
  /\ UNCHANGED <<up, submitted, results, reply>>

\* All lines are handed over before the first answer is taken.
Hand(x) ==
  /\ up
  /\ owner \in Clients
  /\ results = <<>>
  /\ submitted' = Append(submitted, x)
  /\ UNCHANGED <<up, owner, results, reply>>

\* The next answer is the one to the first accepted line that has none yet.
Receive ==
  /\ owner \in Clients
  /\ \E m \in 1..Len(submitted) :
       /\ submitted[m] \notin ErrLines
       /\ Cardinality(AcceptedTo(submitted, m - 1)) = Len(results)
       /\ results' = Append(results, submitted[m])
  /\ UNCHANGED <<up, owner, submitted, reply>>

End(how) ==
  /\ owner \in Clients
  /\ reply' = [reply EXCEPT ![owner] = how]
  /\ owner' = NoOwner
  /\ submitted' = <<>>
  /\ results' = <<>>
  /\ UNCHANGED up

\* The last answer arrives and the call returns all of them.
Succeed ==
  /\ Len(results) + 1 = Len(submitted)
  /\ \A m \in 1..Len(submitted) : submitted[m] \notin ErrLines
  /\ End("ok")

Fail == ~up /\ End("error")

GoDown ==
  /\ up' = FALSE
  /\ UNCHANGED <<owner, submitted, results, reply>>

Next ==
  \/ \E c \in Clients : Ask(c) \/ Begin(c)
  \/ \E x \in Inputs : Hand(x)
  \/ Receive \/ Succeed \/ Fail \/ GoDown

Spec == Init /\ [][Next]_sqVars
=============================================================================
