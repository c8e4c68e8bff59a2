------------------------------ MODULE MCShell -------------------------------
(***************************************************************************)
(* Small instance of Shell: lines of two characters, a history of two, two *)
(* keys pressed ahead while the line is empty and one otherwise, blocks of *)
(* two sizes.  The shell's own allocations are explored against the Delete *)
(* key, whose four bytes make the buffer grow twice, before any other key. *)
(***************************************************************************)
EXTENDS Shell

CONSTANTS
  Spaces,     \* the character that Tab inserts several of
  Editing     \* the keys that change a line, or move in it

MCTab == <<Spaces, Spaces>>

\* The heap has only been used by the key buffer.
HeapUntouched ==
  /\ owned = {} /\ heapOp = NoOp
  /\ bump = 1 + Cardinality({c \in Sizes : c <= capacity})

MCNext ==
  \/ \E k \in Keys :
       /\ press(k)
       /\ HeapUntouched \/ k = "Delete" \/ (k = "Backspace" /\ input # <<>>)
       /\ k = "Enter" => Len(input) <= 1
       /\ due # <<>> \/ k \notin Editing => history = <<>> /\ input = <<>>
  \/ serial
  \/ poll
  \/ turn
  \/ heap_begin /\ history = <<>> /\ input = <<>> /\ \A i \in DOMAIN due : due[i] = "Delete"
  \/ heap_end
  \/ serial_fails
  \/ heap_fails

MCSpec == Init /\ [][MCNext]_vars /\ Fairness

NotUpset == upset = "none"
=============================================================================
