------------------------------ MODULE Keyboard ------------------------------
(***************************************************************************)
(* The keyboard (keyboard.rs): the serial interrupt puts each byte of the  *)
(* terminal into KEY_BUFFER, a VecDeque on the kernel's heap, and the      *)
(* shell takes keys from it.  The Mutex around the buffer locks nothing:   *)
(* the interrupt may come between the steps of the shell's pop_front,      *)
(* which loads the length and later stores it less one.                    *)
(*                                                                         *)
(*   wire         bytes of the terminal still to be received               *)
(*   key_buffer   the bytes in the VecDeque                                *)
(*   capacity     its capacity, and the heap block it is in                *)
(*   buf_block                                                             *)
(*   popping      the length pop_front loaded, 0 outside                   *)
(***************************************************************************)
EXTENDS KernelHeap

CONSTANT KEY_CAP     \* the first capacity of a VecDeque of bytes

VARIABLES wire, key_buffer, capacity, buf_block, popping

keyboardVars == <<wire, key_buffer, capacity, buf_block, popping>>

None == "None"
Tilde == "~"

\* The escape sequences: ESC [ x, ESC [ n ~ and ESC O x.
Final == [Up |-> "A", Down |-> "B", Right |-> "C", Left |-> "D", Home |-> "H", End |-> "F"]
Number == [Delete |-> "3", PageUp |-> "5", PageDown |-> "6"]
FKey == [F1 |-> "P", F2 |-> "Q", F3 |-> "R", F4 |-> "S"]

\* The keys of one control byte.  A byte that is neither here nor printable is no key.
Control ==
  [SOH |-> "CtrlA", STX |-> "CtrlB", ETX |-> "CtrlC", EOT |-> "CtrlD", ENQ |-> "CtrlE",
   ACK |-> "CtrlF", VT |-> "CtrlK", FF |-> "CtrlL", SO |-> "CtrlN", DLE |-> "CtrlP",
   NAK |-> "CtrlU", ETB |-> "CtrlW", HT |-> "Tab", CR |-> "Enter", LF |-> "Enter",
   BS |-> "Backspace", DEL |-> "Backspace"]
Printable == {"a", "b", " ", Tilde, "[", "O", "3", "5", "6"}
               \union {Final[k] : k \in DOMAIN Final} \union {FKey[k] : k \in DOMAIN FKey}

\* The key of f whose byte is x.
KeyOf(f, x) == IF \E k \in DOMAIN f : f[k] = x THEN CHOOSE k \in DOMAIN f : f[k] = x ELSE None

Plain(x) == IF x \in DOMAIN Control THEN Control[x] ELSE IF x \in Printable THEN x ELSE None

\* What a terminal may send for a key; "CtrlZ" stands for the bytes that are no key.
Sent(k) ==
  CASE k \in DOMAIN Final  -> {<<"ESC", "[", Final[k]>>}
    [] k \in DOMAIN Number -> {<<"ESC", "[", Number[k], Tilde>>}
    [] k \in DOMAIN FKey   -> {<<"ESC", "O", FKey[k]>>}
    [] k = "Escape"        -> {<<"ESC">>}
    [] k = "CtrlZ"         -> {<<"SUB">>}
    [] k \in Printable     -> {<<k>>}
    [] OTHER               -> {<<x>> : x \in {y \in DOMAIN Control : Control[y] = k}}

\* Mutant of PutBack: the escape character is not put back.
PutBack_dropped(b) == Tail(b)

\* push_front of an escape character whose sequence has not all been received.
PutBack(b) == b

\* Mutant of EscapeReady: a sequence is taken for complete only with three more bytes.
EscapeReady_three(b) == Len(b) - 1 >= 3

\* Two bytes after an escape character are enough.
EscapeReady(b) == Len(b) - 1 >= 2

\* try_get_key on the bytes b: the key, and the bytes left.
try_get_key(b) ==
  LET numbered == b[2] = "[" /\ KeyOf(Number, b[3]) # None IN
  CASE b[1] # "ESC" ->
         [key |-> Plain(b[1]), rest |-> Tail(b)]
    [] b[1] = "ESC" /\ ~EscapeReady(b) ->
         [key |-> None, rest |-> PutBack(b)]
    [] b[1] = "ESC" /\ EscapeReady(b) /\ numbered ->
         [key |-> IF Len(b) >= 4 /\ b[4] = Tilde THEN KeyOf(Number, b[3]) ELSE None,
          rest |-> SubSeq(b, 5, Len(b))]
    [] b[1] = "ESC" /\ EscapeReady(b) /\ ~numbered ->
         [key |-> IF b[2] = "[" THEN KeyOf(Final, b[3])
                  ELSE IF b[2] = "O" THEN KeyOf(FKey, b[3]) ELSE None,
          rest |-> SubSeq(b, 4, Len(b))]

KeyboardInit ==
  /\ wire = <<>>
  /\ key_buffer = <<>>
  /\ capacity = 0
  /\ buf_block = 0
  /\ popping = 0

\* The capacity push_back gives a full buffer.
Grown == IF capacity = 0 THEN KEY_CAP ELSE 2 * capacity

\* The serial interrupt: push_back, which grows a full buffer.
serial_handler ==
  /\ wire # <<>>
  /\ wire' = Tail(wire)
  /\ key_buffer' = Append(key_buffer, Head(wire))
  /\ IF Len(key_buffer) < capacity THEN UNCHANGED <<heapVars, capacity, buf_block>>
     ELSE /\ capacity' = Grown
          /\ isr_realloc(Grown, buf_block)
          /\ buf_block' = Candidate(get_block_index(Grown))
  /\ UNCHANGED popping

\* pop_front loads the length.
pop_load ==
  /\ popping = 0
  /\ key_buffer # <<>>
  /\ popping' = Len(key_buffer)
  /\ UNCHANGED <<wire, key_buffer, capacity, buf_block>>

\* What the buffer holds for the rest of the call: the length stored is one less than the
\* length loaded, so bytes pushed since are not in it.
Popping == SubSeq(key_buffer, 1, popping)
=============================================================================
