----------------------------- MODULE LineEditor -----------------------------
(***************************************************************************)
(* What a line editor with a history promises: the line is the text on     *)
(* either side of the cursor, and each key does one thing to it.           *)
(*                                                                         *)
(*   left, right   the text before and after the cursor                    *)
(*   lines         the lines entered                                       *)
(*   at            the place in them: Len(lines) + 1 after a line is       *)
(*                 entered, then what Up and Down make of it               *)
(*   key           the key pressed last                                    *)
(***************************************************************************)
EXTENDS Naturals, Sequences

CONSTANTS Chars, TabText

VARIABLES left, right, lines, at, key

editorVars == <<left, right, lines, at, key>>

EditorInit == left = <<>> /\ right = <<>> /\ lines = <<>> /\ at = 1 /\ key = "None"

Text == left \o right
Becomes(l, r) == left' = l /\ right' = r
SamePlace == UNCHANGED <<lines, at>>

Insert == key' \in Chars /\ Becomes(Append(left, key'), right) /\ SamePlace
Indent == key' = "Tab" /\ Becomes(left \o TabText, right) /\ SamePlace

EraseLeft ==
  /\ key' = "Backspace" /\ left # <<>>
  /\ left = Append(left', left[Len(left)])
  /\ right' = right /\ SamePlace
EraseRight ==
  key' = "Delete" /\ right # <<>> /\ Becomes(left, Tail(right)) /\ SamePlace
CutRight == key' = "CtrlK" /\ Becomes(left, <<>>) /\ SamePlace
Discard == key' \in {"CtrlU", "CtrlC"} /\ Becomes(<<>>, <<>>) /\ SamePlace

\* Moving keys keep the text.
Move ==
  /\ left' \o right' = Text
  /\ \/ key' = "Left" /\ Len(left) = Len(left') + 1
     \/ key' = "Right" /\ Len(left') = Len(left) + 1
     \/ key' \in {"Home", "CtrlA"} /\ left' = <<>>
     \/ key' \in {"End", "CtrlE"} /\ right' = <<>>
  /\ SamePlace

\* Up shows the line before the place in the history, Down the one after it.
Recall ==
  /\ \/ key' = "Up" /\ at' = at - 1
     \/ key' = "Down" /\ at' = at + 1
  /\ at' \in 1..Len(lines)
  /\ Becomes(lines[at'], <<>>)
  /\ UNCHANGED lines

\* Down at the last line, and where no line was entered yet, empties the line; the place
\* stays.
BackToEmpty ==
  key' = "Down" /\ (lines = <<>> \/ at = Len(lines)) /\ Becomes(<<>>, <<>>) /\ SamePlace

\* An entered line is remembered unless it is empty.
Enter ==
  /\ key' = "Enter"
  /\ Becomes(<<>>, <<>>)
  /\ IF Text = <<>> THEN SamePlace
     ELSE lines' = Append(lines, Text) /\ at' = Len(lines) + 2

\* Keys with nothing to do, where they have nothing to do.
Nothing ==
  /\ \/ key' \in {"Backspace", "Left"} /\ left = <<>>
     \/ key' \in {"Delete", "Right"} /\ right = <<>>
     \/ key' = "Up" /\ at = 1
     \/ key' = "Down" /\ at > Len(lines) /\ lines # <<>>
     \/ key' \in {"None", "CtrlL", "CtrlB", "CtrlD", "CtrlF", "CtrlN", "CtrlP", "CtrlW",
                  "PageUp", "PageDown", "F1", "F2", "F3", "F4"}
  /\ UNCHANGED <<left, right, lines, at>>

EditorNext ==
  \/ Insert \/ Indent \/ EraseLeft \/ EraseRight \/ CutRight \/ Discard
  \/ Move \/ Recall \/ BackToEmpty \/ Enter \/ Nothing

EditorSpec == EditorInit /\ [][EditorNext]_editorVars
=============================================================================
