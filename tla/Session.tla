------------------------------ MODULE Session ------------------------------
(***************************************************************************)
(* A session of the backend: graph queries, notes, and points-to and alias *)
(* queries.  The three share no state that one could see another change:   *)
(* the notes are files of their own, and what building the graph puts into *)
(* the caches is what is true of the analysis (CachesTrue), which is why   *)
(* CallGraph has its verdicts as constants.  So a session is checked on    *)
(* one subject at a time: steps of different subjects commute, and every   *)
(* property is about one of them.                                          *)
(***************************************************************************)
EXTENDS CallGraph, Notes, PointsTo, NameIndex

VARIABLE subject  \* what the queries of this session are about
sessionVars == <<vars, noteVars, ptVars, indexVars, subject>>

AnyOf(S) == CHOOSE x \in S : TRUE

\* What a subject does not look at has one value only.
SessionInit ==
  /\ subject \in {"graph", "notes", "points-to", "names"}
  /\ Init /\ NotesInit /\ PtInit /\ IndexInit
  /\ subject # "graph" => analysis = AnyOf(Analyses) /\ patchPath = AnyOf(PatchPaths)
  /\ subject # "points-to" => wrapper = AnyOf(Wrappers)

SessionNext ==
  /\ \/ subject = "graph" /\ Next /\ UNCHANGED <<noteVars, ptVars, indexVars>>
     \/ subject = "notes" /\ NotesNext /\ UNCHANGED <<vars, ptVars, indexVars>>
     \/ subject = "points-to" /\ PtNext /\ UNCHANGED <<vars, noteVars, indexVars>>
     \/ subject = "names" /\ IndexNext /\ UNCHANGED <<vars, noteVars, ptVars>>
  /\ UNCHANGED subject

SessionSpec == SessionInit /\ [][SessionNext]_sessionVars

\* The program computes until it has answered; nobody has to ask or to edit.
FairSession == SessionSpec /\ WF_sessionVars(subject = "graph" /\ Serve /\ UNCHANGED <<noteVars, ptVars, indexVars, subject>>)
=============================================================================
