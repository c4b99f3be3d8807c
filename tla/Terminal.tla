------------------------------ MODULE Terminal ------------------------------
(***************************************************************************)
(* The terminal window (apps/terminal.c).  IRQ 1 edits the line and prints *)
(* into terminal_buffer, atomically for main; main, frame after frame,     *)
(* wraps the buffer into a cache when the cache is not valid, draws what   *)
(* fits, and opens and closes the window.  main's accesses to what both    *)
(* use are steps of their own.                                             *)
(*                                                                         *)
(* The prompt "root $ " is one character here, and so is the text of a     *)
(* command's answer before its "\r\n".                                     *)
(***************************************************************************)
EXTENDS Integers, Sequences, FiniteSets, SequencesExt

CONSTANTS
  Chars,          \* what can be typed
  ClearLine,      \* the line that runs cmd_clear
  Prompt, Answer, CR, NL, NUL,
  Size,           \* TERMINAL_BUFFER_SIZE
  InputMax,       \* TERMINAL_INPUT_MAX
  Width,          \* MAX_CHARS_PER_LINE
  MaxLines        \* rows of the canvas: its height / FONT_HEIGHT

Signs == Chars \cup {Prompt, Answer, CR, NL}

ASSUME TerminalAssumption ==
  /\ Size \in Nat /\ Size > 7     \* one key's output and a prompt fit
  /\ InputMax \in Nat \ {0}
  /\ Width \in Nat \ {0} /\ MaxLines \in Nat \ {0}
  /\ NUL \notin Signs
  /\ ClearLine \in Seq(Chars) \ {<<>>}

VARIABLES
  terminal_buffer, terminal_buffer_index,
  input_line,     \* input_line[0..input_line_index-1]
  terminal_wrapped_cache,
  valid,          \* terminal_wrapped_cache_valid
  terminal_visible_offset,
  open,           \* terminal_window and its canvas are there
  main_at,        \* where main is, in update_terminal or terminal_callback
  garbled,        \* the line on the screen is not the line typed (history)
  key_raced,      \* a key fell into the last redraw (history)
  split           \* a key fell into the opening of the window (history)

text == <<terminal_buffer, terminal_buffer_index>>
picture == <<terminal_wrapped_cache, terminal_visible_offset>>
terminal_vars == <<terminal_buffer, terminal_buffer_index, input_line, terminal_wrapped_cache,
                   valid, terminal_visible_offset, open, main_at, garbled, key_raced, split>>

-----------------------------------------------------------------------------
(* terminal_print, on a pair of buffer and index *)

Least(a, b) == IF a < b THEN a ELSE b

Fits(len, n) == Least(len, Size - 1 - n)

\* What does not fit is dropped.
Printed(t, s) ==
  LET k == Fits(Len(s), t[2])
  IN <<[p \in 0..Size-1 |->
          IF p \in t[2]..t[2]+k-1 THEN s[p - t[2] + 1]
          ELSE IF p = t[2] + k /\ k > 0 THEN NUL ELSE t[1][p]],
       t[2] + k>>

Cleared(t) == <<[t[1] EXCEPT ![0] = NUL], 0>>

\* execute_command: only a line that is not empty gets here.
Executed(t) ==
  IF input_line = <<>> THEN t
  ELSE IF input_line = ClearLine THEN Cleared(t)
  ELSE Printed(t, <<Answer, CR, NL>>)

Become(t) == terminal_buffer' = t[1] /\ terminal_buffer_index' = t[2]

-----------------------------------------------------------------------------
(* terminal_handle_key, inside IRQ 1 *)

Redrawing == main_at = "set_valid"
Opening == main_at \in {"clear_first", "print_copy", "print_advance", "print_end"}

\* Fault: the key leaves the picture as it was.
StillValid == valid

ValidAfterKey == FALSE

\* Nothing reads the cache while it is not valid: its content is dropped.
NoPicture == terminal_wrapped_cache' = <<>> /\ terminal_visible_offset' = 0

\* At most one key comes while main runs the few instructions of Opening.
Key ==
  /\ ~(Opening /\ split)
  /\ key_raced' = (key_raced \/ Redrawing)
  /\ valid' = ValidAfterKey
  /\ IF valid' \/ Redrawing THEN UNCHANGED picture ELSE NoPicture
  /\ UNCHANGED <<open, main_at>>

Enter ==
  /\ Key
  /\ LET before == Executed(Printed(text, <<CR, NL>>))
         after == Printed(before, <<Prompt>>)
     IN Become(after) /\ garbled' = (before[2] = after[2])
  /\ input_line' = <<>>
  /\ split' = (Opening \/ (split /\ input_line # ClearLine))

\* Fault: the character goes from the line and stays on the screen.
KeepsEcho == text

WithoutLast ==
  IF terminal_buffer_index > 0
  THEN <<[terminal_buffer EXCEPT ![terminal_buffer_index - 1] = NUL], terminal_buffer_index - 1>>
  ELSE text

Backspace ==
  /\ Key
  /\ \/ /\ input_line # <<>>
        /\ input_line' = Front(input_line)
        /\ Become(WithoutLast)
     \/ /\ input_line = <<>>
        /\ UNCHANGED <<text, input_line>>
  /\ split' = (split \/ Opening)
  /\ UNCHANGED garbled

Type(c) ==
  /\ Key
  /\ \/ /\ Len(input_line) < InputMax - 1
        /\ input_line' = Append(input_line, c)
        /\ Become(Printed(text, <<c>>))
        /\ garbled' = (garbled \/ Fits(1, terminal_buffer_index) = 0)
     \/ /\ Len(input_line) >= InputMax - 1
        /\ UNCHANGED <<text, input_line, garbled>>
  /\ split' = (split \/ Opening)

-----------------------------------------------------------------------------
(* update_terminal *)

Step(from, to) == main_at = from /\ main_at' = to

\* The text as every reader of it takes it: up to the first terminator.
Shown ==
  LET n == CHOOSE p \in 0..Size-1 :
             terminal_buffer[p] = NUL /\ \A q \in 0..p-1 : terminal_buffer[q] # NUL
  IN SubSeq([p \in 1..Size |-> terminal_buffer[p - 1]], 1, n)

RowFull(n) == n >= Width

\* wrap_text's loop over s: count is the number of characters in the row.
WrapChar(s, acc, p) ==
  IF s[p] = NL THEN [out |-> Append(acc.out, NL), count |-> 0]
  ELSE IF ~RowFull(acc.count + 1)
  THEN [out |-> Append(acc.out, s[p]), count |-> acc.count + 1]
  ELSE [out |-> acc.out \o (IF p < Len(s) /\ s[p+1] = NL THEN <<s[p]>> ELSE <<s[p], NL>>),
        count |-> 0]

WrapText(s) ==
  LET after[p \in 0..Len(s)] ==
        IF p = 0 THEN [out |-> <<>>, count |-> 0]
        ELSE LET acc == after[p-1] IN WrapChar(s, acc, p)
  IN after[Len(s)].out

Breaks(s) == {p \in DOMAIN s : s[p] = NL}

\* Fault: one row too many is kept.
SkipFewer(total) == total - MaxLines - 1

LinesToSkip(total) == total - MaxLines

\* update_visible_offset: past the break that ends the last row skipped; when
\* none is skipped the loop finds no such break and falls through to 0.
VisibleOffset(s) ==
  LET skip == LinesToSkip(Cardinality(Breaks(s)))
      ends == {p \in Breaks(s) : Cardinality({q \in Breaks(s) : q <= p}) = skip}
  IN IF skip > 0 THEN CHOOSE p \in ends : TRUE ELSE 0

\* wrap_text reads the buffer in one step here: a key in the middle of it leaves
\* a picture just as stale as one between it and the store of the flag.
Wrap ==
  /\ Step("frame", "set_valid")
  /\ open /\ ~valid
  /\ terminal_wrapped_cache' = WrapText(Shown)
  /\ terminal_visible_offset' = VisibleOffset(terminal_wrapped_cache')
  /\ key_raced' = FALSE
  /\ UNCHANGED <<text, input_line, valid, open, garbled, split>>

SetValid ==
  /\ Step("set_valid", "frame")
  /\ valid' = TRUE
  /\ UNCHANGED <<text, input_line, picture, open, garbled, key_raced, split>>

-----------------------------------------------------------------------------
(* terminal_close and terminal_callback, from a click between two redraws *)

CloseWindow ==
  /\ main_at = "frame" /\ open /\ open' = FALSE
  /\ UNCHANGED <<text, input_line, picture, valid, main_at, garbled, key_raced, split>>

\* clear_terminal_buffer and terminal_print("root $ ").  The line that was
\* being typed is kept.
OpenWindow ==
  /\ Step("frame", "clear_first")
  /\ ~open
  /\ terminal_buffer_index' = 0
  /\ garbled' = (input_line # <<>>)
  /\ split' = FALSE
  /\ UNCHANGED <<terminal_buffer, input_line, picture, valid, open, key_raced>>

ClearFirst ==
  /\ Step("clear_first", "print_copy")
  /\ terminal_buffer' = [terminal_buffer EXCEPT ![0] = NUL]
  /\ valid' = FALSE
  /\ NoPicture
  /\ UNCHANGED <<terminal_buffer_index, input_line, open, garbled, key_raced, split>>

PrintCopy ==
  /\ Step("print_copy", "print_advance")
  /\ terminal_buffer' = [terminal_buffer EXCEPT ![terminal_buffer_index] = Prompt]
  /\ UNCHANGED <<terminal_buffer_index, input_line, picture, valid, open, garbled, key_raced, split>>

PrintAdvance ==
  /\ Step("print_advance", "print_end")
  /\ terminal_buffer_index' = terminal_buffer_index + 1
  /\ UNCHANGED <<terminal_buffer, input_line, picture, valid, open, garbled, key_raced, split>>

PrintEnd ==
  /\ Step("print_end", "frame")
  /\ terminal_buffer' = [terminal_buffer EXCEPT ![terminal_buffer_index] = NUL]
  /\ valid' = FALSE /\ open' = TRUE
  /\ NoPicture
  /\ UNCHANGED <<terminal_buffer_index, input_line, garbled, key_raced, split>>

-----------------------------------------------------------------------------
Redraw == Wrap \/ SetValid
FinishOpening == ClearFirst \/ PrintCopy \/ PrintAdvance \/ PrintEnd
Keys == Enter \/ Backspace \/ \E c \in Chars : Type(c)

\* The buffers are static, and init_gui has opened the terminal.
TerminalInit ==
  /\ terminal_buffer = [p \in 0..Size-1 |-> IF p = 0 THEN Prompt ELSE NUL]
  /\ terminal_buffer_index = 1
  /\ input_line = <<>>
  /\ terminal_wrapped_cache = <<>> /\ valid = FALSE /\ terminal_visible_offset = 0
  /\ open = TRUE /\ main_at = "frame"
  /\ garbled = FALSE /\ key_raced = FALSE /\ split = FALSE

TerminalNext == Redraw \/ FinishOpening \/ Keys \/ CloseWindow \/ OpenWindow

TerminalSpec == TerminalInit /\ [][TerminalNext]_terminal_vars
-----------------------------------------------------------------------------
(* Properties *)

TerminalTypeOK ==
  /\ terminal_buffer \in [0..Size-1 -> Signs \cup {NUL}]
  /\ terminal_buffer_index \in 0..Size-1
  /\ terminal_wrapped_cache \in Seq(Signs) /\ Len(terminal_wrapped_cache) < 2 * Size
  /\ input_line \in Seq(Chars) /\ Len(input_line) < InputMax
  /\ terminal_visible_offset \in 0..2*Size
  /\ valid \in BOOLEAN /\ open \in BOOLEAN
  /\ garbled \in BOOLEAN /\ key_raced \in BOOLEAN /\ split \in BOOLEAN
  /\ main_at \in {"frame", "set_valid", "clear_first", "print_copy", "print_advance", "print_end"}

\* What the user sees after the last prompt is the line Enter will execute,
\* unless the buffer was full, the window was opened in the middle of a line, or
\* a key fell between the stores of its opening (terminal.c:36-67, 169-194).
LineOnScreen ==
  /\ TerminalTypeOK
  /\ ~garbled /\ ~split /\ ~Opening => IsSuffix(<<Prompt>> \o input_line, Shown)

\* wrap_text without its loop: the characters of s in their order, and a break
\* after every Width-th of a line unless the line ends there.
BrokenAfter(s) ==
  {p \in DOMAIN s :
     /\ s[p] # NL /\ (p < Len(s) => s[p+1] # NL)
     /\ \E first \in 1..p :    \* of the line p is in
          /\ first = 1 \/ s[first-1] = NL
          /\ \A q \in first..p : s[q] # NL
          /\ (p - first + 1) % Width = 0}

IsWrapped(r, s) ==
  LET broken == BrokenAfter(s)
      at(p) == p + Cardinality({q \in broken : q < p})
  IN /\ Len(r) = Len(s) + Cardinality(broken)
     /\ \A p \in DOMAIN s : r[at(p)] = s[p]
     /\ \A p \in broken : r[at(p) + 1] = NL

Fresh == valid /\ IsWrapped(terminal_wrapped_cache, Shown)

\* A picture marked valid is the picture of the buffer, unless a key came between
\* the start of the wrapping and the store that marks it (terminal.c:156-161).
ValidIsFresh == valid /\ main_at = "frame" => Fresh \/ key_raced

\* The part that is drawn starts with a whole row, ends with the end of the text
\* and has at most one row more than the canvas (terminal.c:93-117, 163-164).
DrawsTail ==
  main_at = "set_valid" =>
    /\ terminal_visible_offset > 0 => terminal_wrapped_cache[terminal_visible_offset] = NL
    /\ Cardinality({p \in Breaks(terminal_wrapped_cache) : p > terminal_visible_offset}) <= MaxLines
=============================================================================
