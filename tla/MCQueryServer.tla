---------------------------- MODULE MCQueryServer ----------------------------
(* Small instances of QueryServer for TLC. *)
EXTENDS QueryServer

CONSTANTS good, bad, log

MCGoodLines == {good}
MCGoodBad   == {good, bad}

\* One line, or two lines in one POST.
MCSingles == {<<good>>}
MCPairs   == {<<good, good>>}
MCMixed   == {<<good, good>>, <<bad, good>>}

MCNone == {}
MCBad  == {bad}
=============================================================================
