----------------------------- MODULE MCHookMemory -----------------------------
(***************************************************************************)
(* One run for HookMemory and WindowTrace.  A recorder of windows looks at *)
(* nothing of the other tables and they at nothing of it (Cover and        *)
(* ApplyPtr, ApplyCg touch different fields), and every property is about  *)
(* one of the two, so a behaviour of the run is about one of them.         *)
(***************************************************************************)
EXTENDS HookMemory, WindowTrace

\* Bounds: an execution of either is started from the initial state.
TablesStep   == Next /\ seen = <<>> /\ UNCHANGED wtVars
RecorderStep == WindowNext /\ hmVars = <<emitsEnd, Tables, <<>>, {}, 0>> /\ UNCHANGED hmVars

EitherInit == Init /\ WindowInit
EitherNext == TablesStep \/ RecorderStep
EitherSpec == EitherInit /\ [][EitherNext]_<<hmVars, wtVars>>
===============================================================================
