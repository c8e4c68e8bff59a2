------------------------------ MODULE MCFat32 -------------------------------
(* Fat32 on a volume of a few clusters with two directory entries in each.  *)
EXTENDS Fat32
=============================================================================
