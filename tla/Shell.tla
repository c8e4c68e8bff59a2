------------------------------- MODULE Shell --------------------------------
(***************************************************************************)
(* The shell's line editor (start in shell.rs) on the keyboard and the     *)
(* kernel's heap.  The loop polls for a key, handles it and halts until    *)
(* the next interrupt; what a command does besides is in the modules of    *)
(* the file systems.  The shell also allocates and frees: lines, history,  *)
(* arguments.  Indices into the history count from 1 here: history_index   *)
(* stands for the code's index plus one.                                   *)
(*                                                                         *)
(*   due     keys pressed and not yet returned by try_get_key              *)
(*   split   a call took ESC [ n of a key's sequence and returned None     *)
(*   got     in the step where try_get_key returns a key: the key, the one *)
(*           due, and whether it was split                                 *)
(*   upset   "none", or why the rest of the input is not what was typed:   *)
(*           "lost" byte, "escape" key, "heap" entered by the interrupt,   *)
(*           or "panic" when it is full                                    *)
(***************************************************************************)
EXTENDS Keyboard

CONSTANTS
  Keys,           \* the keys pressed
  Requests,       \* the sizes the shell allocates
  TAB,            \* what the Tab key inserts, a sequence of spaces
  MAX_AHEAD,      \* bound: keys pressed and not handled
  MAX_LINE,       \* bound: the length of a typed line
  MAX_HISTORY     \* bound: entered lines

VARIABLES input, cursor, history, history_index, due, split, got, upset

lineVars == <<input, cursor, history, history_index>>
vars == <<heapVars, keyboardVars, lineVars, due, split, got, upset>>

NoKey == [key |-> None, due |-> None, split |-> FALSE]

Init ==
  /\ HeapInit
  /\ KeyboardInit
  /\ input = <<>> /\ cursor = 0
  /\ history = <<>> /\ history_index = 1
  /\ due = <<>>
  /\ split = FALSE
  /\ got = NoKey
  /\ upset = "none"

-----------------------------------------------------------------------------
(* The keys: what one turn of the loop does to the line.                   *)

Insert(text) ==
  /\ input' = SubSeq(input, 1, cursor) \o text \o SubSeq(input, cursor + 1, Len(input))
  /\ cursor' = cursor + Len(text)

\* Mutant of Remove: the character after the one meant.
Remove_next(i) == SubSeq(input, 1, i + 1) \o SubSeq(input, i + 3, Len(input))

\* String::remove(i), i counted from 0.
Remove(i) == SubSeq(input, 1, i) \o SubSeq(input, i + 2, Len(input))

Edit(k) ==
  \/ k \in Printable /\ Insert(<<k>>)
  \/ k = "Tab" /\ Insert(TAB)
  \/ k = "Backspace" /\ cursor > 0 /\ cursor' = cursor - 1 /\ input' = Remove(cursor - 1)
  \/ k = "Delete" /\ cursor < Len(input) /\ input' = Remove(cursor) /\ UNCHANGED cursor
  \/ k = "Right" /\ cursor < Len(input) /\ cursor' = cursor + 1 /\ UNCHANGED input
  \/ k = "Left" /\ cursor > 0 /\ cursor' = cursor - 1 /\ UNCHANGED input
  \/ k \in {"Home", "CtrlA"} /\ cursor' = 0 /\ UNCHANGED input
  \/ k \in {"End", "CtrlE"} /\ cursor' = Len(input) /\ UNCHANGED input
  \/ k \in {"CtrlU", "CtrlC"} /\ input' = <<>> /\ cursor' = 0
  \/ k = "CtrlK" /\ input' = SubSeq(input, 1, cursor) /\ UNCHANGED cursor

Show(i) == history_index' = i /\ input' = history[i] /\ cursor' = Len(history[i])

Recall(k) ==
  \/ /\ k = "Up" /\ history # <<>> /\ history_index > 1
     /\ Show(history_index - 1)
  \/ /\ k = "Down" /\ history # <<>> /\ history_index < Len(history)
     /\ Show(history_index + 1)
  \/ /\ k = "Down" /\ history_index = (IF history = <<>> THEN 1 ELSE Len(history))
     /\ input' = <<>> /\ cursor' = 0 /\ UNCHANGED history_index

Enter(k) ==
  /\ k = "Enter"
  /\ input' = <<>> /\ cursor' = 0
  /\ IF input = <<>> THEN UNCHANGED <<history, history_index>>
     ELSE history' = Append(history, input) /\ history_index' = Len(history) + 2

Idle(k) ==
  \/ k = "Backspace" /\ cursor = 0
  \/ k = "Delete" /\ cursor = Len(input)
  \/ k = "Right" /\ cursor = Len(input)
  \/ k = "Left" /\ cursor = 0
  \/ k = "Up" /\ (history = <<>> \/ history_index = 1)
  \/ k = "Down" /\ history # <<>> /\ history_index > Len(history)
  \/ k \in {"CtrlL", "CtrlB", "CtrlD", "CtrlF", "CtrlN", "CtrlP", "CtrlW", None}
  \/ k \in DOMAIN FKey \/ k \in {"PageUp", "PageDown"}

Handle(k) ==
  \/ Edit(k) /\ UNCHANGED <<history, history_index>>
  \/ Recall(k) /\ UNCHANGED history
  \/ Enter(k)
  \/ Idle(k) /\ UNCHANGED lineVars

-----------------------------------------------------------------------------
(* The steps.                                                              *)

Ready == popping = 0 /\ heapOp = NoOp

\* How long the line is once the keys due are handled, at most.
Width(k) == IF k = "Tab" THEN Len(TAB)
            ELSE IF k \in Printable \union DOMAIN Number THEN 1 ELSE 0
PendingWidth ==
  LET upto[n \in 0..Len(due)] == IF n = 0 THEN 0 ELSE upto[n - 1] + Width(due[n])
  IN  upto[Len(due)]

press(k) ==
  /\ Len(due) < MAX_AHEAD
  /\ Len(input) + PendingWidth + Width(k) <= MAX_LINE
  /\ k = "Enter" =>
       Len(history) + Cardinality({i \in DOMAIN due : due[i] = "Enter"}) < MAX_HISTORY
  /\ due' = Append(due, k)
  /\ \E bytes \in Sent(k) : wire' = wire \o bytes
  /\ UNCHANGED <<heapVars, key_buffer, capacity, buf_block, popping, lineVars, split, upset>>
  /\ got' = NoKey

\* The interrupt, wherever the shell is.
serial ==
  /\ serial_handler
  /\ upset' = IF heapOp # NoOp /\ buf_block' # buf_block THEN "heap" ELSE upset
  /\ UNCHANGED <<lineVars, due, split>>
  /\ got' = NoKey

poll ==
  /\ Ready
  /\ pop_load
  /\ UNCHANGED <<heapVars, lineVars, due, split, upset>>
  /\ got' = NoKey

\* try_get_key returns, and the loop handles the key.
turn ==
  LET b == Popping
      r == try_get_key(b)
      returned == r.key # None \/ b[1] # "ESC"
      partial == ~returned /\ r.rest # b
  IN  /\ popping # 0
      /\ popping' = 0
      /\ key_buffer' = r.rest
      /\ Handle(r.key)
      /\ IF returned
         THEN /\ got' = [key |-> r.key, due |-> Head(due), split |-> split]
              /\ due' = Tail(due)
              /\ split' = FALSE
         ELSE split' = (split \/ partial) /\ got' = NoKey /\ UNCHANGED due
      /\ upset' = IF Len(key_buffer) > popping THEN "lost"
                  ELSE IF partial /\ Head(due) = "Escape" THEN "escape"
                  ELSE upset
      /\ UNCHANGED <<heapVars, wire, capacity, buf_block>>

heap_begin ==
  /\ Ready
  /\ (\E n \in Requests : alloc_load(n)) \/ (\E b \in owned : dealloc_link(b))
  /\ UNCHANGED <<keyboardVars, lineVars, due, split, upset>>
  /\ got' = NoKey

heap_end ==
  /\ alloc_store \/ dealloc_store
  /\ UNCHANGED <<keyboardVars, lineVars, due, split, upset>>
  /\ got' = NoKey

\* An allocation fails, in the interrupt or in the shell: the kernel panics.
alloc_error ==
  /\ upset' = "panic"
  /\ UNCHANGED <<heapVars, keyboardVars, lineVars, due, split>>
  /\ got' = NoKey

serial_fails ==
  /\ wire # <<>> /\ Len(key_buffer) = capacity
  /\ ~HasRoom(get_block_index(Grown))
  /\ alloc_error

heap_fails ==
  /\ Ready
  /\ \E n \in Requests : ~HasRoom(get_block_index(n))
  /\ alloc_error

Next ==
  /\ upset # "panic"
  /\ \/ \E k \in Keys : press(k)
     \/ serial
     \/ poll
     \/ turn
     \/ heap_begin
     \/ heap_end
     \/ serial_fails
     \/ heap_fails

\* Interrupts on the wire are taken, and the timer's wake the loop from hlt: it comes back
\* to try_get_key whatever the commands allocate meanwhile.
Fairness ==
  WF_vars(serial \/ serial_fails) /\ SF_vars(poll) /\ WF_vars(turn) /\ WF_vars(heap_end)

Spec == Init /\ [][Next]_vars /\ Fairness

-----------------------------------------------------------------------------
(* Properties.                                                             *)

Buffer == IF buf_block = 0 THEN {} ELSE {buf_block}
Linking == IF heapOp.op = "dealloc" THEN {heapOp.b} ELSE {}

\* Every block carved from the heap is in one place: the shell has it, the key buffer is in
\* it, it is being freed, it is in one of the free lists, once, or it was too large to be
\* got back.  It takes an interrupt that grows the key buffer inside the shell's alloc or
\* dealloc to break this (FixedBlockAllocator has no lock).
BlocksInOnePlace ==
  upset # "heap" =>
    LET places == <<owned, Buffer, Linking, FreeBlocks, gone>> IN
    /\ UNION {places[i] : i \in 1..5} = 1..bump - 1
    /\ \A i, j \in 1..5 : i < j => places[i] \intersect places[j] = {}
    /\ \A b \in FreeBlocks : Pointers(b) = 1

\* try_get_key returns the keys in the order they were pressed, each once and none besides,
\* however the bytes of their sequences and the shell's calls interleave; except that
\* Delete, PageUp or PageDown polled after ESC [ n and before "~" is returned as the
\* character "~".  What breaks it: the Escape key itself, which takes two bytes of the next
\* keys with it, and an interrupt inside pop_front, whose byte is lost.
KeysAsPressed ==
  upset = "none" =>
    IF got.split THEN got.due \in DOMAIN Number /\ got.key = Tilde
    ELSE got.key = got.due \/ (got.key = None /\ got.due = "CtrlZ")

\* When nobody types any more every key pressed is handled, except after the Escape key:
\* try_get_key keeps it until two more bytes come.
KeysHandled ==
  <>[][~\E k \in Keys : press(k)]_vars =>
    []<>(due = <<>> \/ upset # "none" \/ \E i \in DOMAIN due : due[i] = "Escape")

\* The shell's line, a string and an index into it, is the line of a line editor, the text
\* on the two sides of its cursor; the history index never leaves the history.
Editor == INSTANCE LineEditor WITH
  Chars <- Printable, TabText <- TAB,
  left <- SubSeq(input, 1, cursor), right <- SubSeq(input, cursor + 1, Len(input)),
  lines <- history, at <- history_index, key <- got.key
EditorSpec == Editor!EditorSpec
=============================================================================
