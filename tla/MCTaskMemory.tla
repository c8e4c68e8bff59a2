---------------------------- MODULE MCTaskMemory ----------------------------
(* TaskMemory with two slots, two tables to a hierarchy, programs of one or *)
(* three pages and a record of three frames.  Nothing is explored past an   *)
(* exit that freed what it should not.                                      *)
EXTENDS TaskMemory

NotUpset == upset = "none"
=============================================================================
