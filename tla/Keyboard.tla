------------------------------ MODULE Keyboard ------------------------------
(***************************************************************************)
(* The command line: keyboard_handler edits input_buffer inside IRQ 1,     *)
(* while main goes round printf("root $ "), read_line, execute_command and *)
(* takes the line out of the same buffer.  The handler is atomic for main; *)
(* main is not for the handler, so each of its reads and writes of the     *)
(* shared variables is a step.                                             *)
(***************************************************************************)
EXTENDS Integers, Sequences

CONSTANTS
  Chars,        \* what scancode_to_ascii yields, 0 excepted
  NUL,          \* the terminator
  MaxInput,     \* MAX_INPUT_LENGTH
  Desktop       \* the line that runs "enablegraphics"

ASSUME KeyboardAssumption ==
  /\ NUL \notin Chars
  /\ MaxInput \in Nat \ {0}
  /\ Desktop \in Seq(Chars)

VARIABLES
  input_buffer, buffer_index, line_ready, g_text_mode,
  pc,           \* where main is
  copied,       \* what strncpy has taken so far
  forwarded,    \* last key handed to terminal_handle_key
  line,         \* the keys on the screen's last line (history)
  submitted,    \* the line the last Enter ended (history)
  entered,      \* an Enter came while main was waiting for it (history)
  spoilt        \* a key fell into a window read_line leaves (history)

shared == <<input_buffer, buffer_index, line_ready, g_text_mode>>
history == <<line, submitted, entered, spoilt>>
vars == <<input_buffer, buffer_index, line_ready, g_text_mode, pc, copied,
          forwarded, line, submitted, entered, spoilt>>

Waiting == pc \in {"test", "hlt"}

Init ==
  /\ input_buffer = [i \in 0..MaxInput-1 |-> NUL]
  /\ buffer_index = 0 /\ line_ready = FALSE /\ g_text_mode = TRUE
  /\ pc = "reset_index"
  /\ copied = <<>>
  /\ forwarded = NUL
  /\ line = <<>> /\ submitted = <<>> /\ entered = FALSE
  /\ spoilt = FALSE

-----------------------------------------------------------------------------
(* keyboard_handler.  Releases and keys without a character change nothing. *)

\* Between Enter and the end of the copy, and between reset_keyboard's two
\* stores, a key spoils the line.
Spoils(enter) ==
  \/ line_ready /\ (Waiting \/ pc = "copy")
  \/ enter /\ pc = "reset_ready"

Press(enter) == g_text_mode /\ spoilt' = (spoilt \/ Spoils(enter))

\* Fault: an empty line is not a line.
ReadyUnlessEmpty == line_ready \/ buffer_index > 0

ReadyAfterEnter == TRUE

\* Fault: the line is not terminated.
LeftOpen == input_buffer

Ended == [input_buffer EXCEPT ![buffer_index] = NUL]

EnterKey ==
  /\ Press(TRUE)
  /\ input_buffer' = Ended
  /\ line_ready' = ReadyAfterEnter
  /\ submitted' = line
  /\ line' = <<>>
  /\ entered' = (entered \/ Waiting)
  /\ UNCHANGED <<buffer_index, g_text_mode, pc, copied, forwarded>>

BackspaceKey ==
  /\ Press(FALSE)
  /\ buffer_index > 0
  /\ buffer_index' = buffer_index - 1
  /\ input_buffer' = [input_buffer EXCEPT ![buffer_index - 1] = NUL]
  /\ line' = IF line = <<>> THEN line ELSE SubSeq(line, 1, Len(line) - 1)
  /\ UNCHANGED <<line_ready, g_text_mode, pc, copied, forwarded, submitted, entered>>

Room == buffer_index < MaxInput - 1

CharKey(c) ==
  /\ Press(FALSE)
  /\ Room
  /\ input_buffer' = [input_buffer EXCEPT ![buffer_index] = c]
  /\ buffer_index' = buffer_index + 1
  /\ line' = Append(line, c)
  /\ UNCHANGED <<line_ready, g_text_mode, pc, copied, forwarded, submitted, entered>>

\* On the desktop every key goes to the terminal window, a character only while
\* the line that started the desktop left room in the buffer.
ForwardKey(c) ==
  /\ ~g_text_mode
  /\ c \in Chars => Room
  /\ forwarded' = c
  /\ UNCHANGED <<shared, pc, copied, history>>

-----------------------------------------------------------------------------
(* main: start()'s loop *)

Go(from, to) == pc = from /\ pc' = to

\* reset_keyboard
ResetIndex ==
  /\ Go("reset_index", "reset_ready")
  /\ buffer_index' = 0
  /\ line' = <<>> /\ spoilt' = FALSE
  /\ UNCHANGED <<input_buffer, line_ready, g_text_mode, copied, forwarded,
                 submitted, entered>>

\* Fault: the flag of the line before survives.
ReadyKept == line_ready

ReadyAfterReset == FALSE

ResetReady ==
  /\ Go("reset_ready", "test")
  /\ line_ready' = ReadyAfterReset
  /\ UNCHANGED <<input_buffer, buffer_index, g_text_mode, copied, forwarded, history>>

\* while (!line_ready) hlt: an Enter between the test and the hlt does not wake
\* it, the next tick of the clock does.
TestReady ==
  /\ pc = "test"
  /\ pc' = IF line_ready THEN "copy" ELSE "hlt"
  /\ copied' = <<>>
  /\ UNCHANGED <<shared, forwarded, history>>

Wake ==
  /\ Go("hlt", "test")
  /\ UNCHANGED <<shared, copied, forwarded, history>>

\* execute_command's strncpy(buffer, input, 255), a character at a time.
CopyEnds == Len(copied) = MaxInput - 1 \/ input_buffer[Len(copied)] = NUL

CopyChar ==
  /\ pc = "copy" /\ ~CopyEnds
  /\ copied' = Append(copied, input_buffer[Len(copied)])
  /\ UNCHANGED <<shared, pc, forwarded, history>>

CopyDone ==
  /\ CopyEnds
  /\ Go("copy", "execute")
  /\ UNCHANGED <<shared, copied, forwarded, history>>

\* The command runs and main prompts again; only the desktop never returns.
Execute ==
  /\ pc = "execute"
  /\ entered' = FALSE
  /\ \/ /\ copied = Desktop
        /\ g_text_mode' = FALSE
        /\ pc' = "desktop"
     \/ /\ copied # Desktop
        /\ pc' = "reset_index"
        /\ UNCHANGED g_text_mode
  /\ UNCHANGED <<input_buffer, buffer_index, line_ready, copied, forwarded,
                 line, submitted, spoilt>>

Main == ResetIndex \/ ResetReady \/ TestReady \/ Wake \/ CopyChar \/ CopyDone \/ Execute

Keys ==
  \/ EnterKey \/ BackspaceKey
  \/ \E c \in Chars : CharKey(c)
  \/ \E c \in Chars \cup {"enter", "backspace"} : ForwardKey(c)

Next == Main \/ Keys

\* The clock interrupts 100 times a second, so every hlt ends.
Spec == Init /\ [][Next]_vars /\ WF_vars(Main)

-----------------------------------------------------------------------------
(* Properties *)

Text == {s \in Seq(Chars) : Len(s) < MaxInput}

TypeOK ==
  /\ input_buffer \in [0..MaxInput-1 -> Chars \cup {NUL}]
  /\ buffer_index \in 0..MaxInput-1
  /\ line_ready \in BOOLEAN /\ g_text_mode \in BOOLEAN /\ entered \in BOOLEAN
  /\ spoilt \in BOOLEAN
  /\ pc \in {"reset_index", "reset_ready", "test", "hlt", "copy", "execute", "desktop"}
  /\ copied \in Text /\ submitted \in Text /\ line \in Text

\* Whatever is typed whenever, the buffer ends with a terminator, so no reader
\* runs past it (keyboard.c:38-85, cmd_executor.c:80).
Terminated == input_buffer[MaxInput-1] = NUL

\* If no key came between the two stores of reset_keyboard that was an Enter, nor
\* any key between Enter and the end of the copy, the command that runs is the
\* line the last Enter ended, whatever was typed while the last command ran
\* (keyboard.c:38-110, cmd_executor.c:80).
QuietLineDelivered ==
  [][pc = "copy" /\ pc' = "execute" => copied = submitted \/ spoilt]_vars

\* An Enter pressed while main waits in read_line is answered, though it may
\* come between the test of line_ready and the hlt (keyboard.c:104-110).
EnterAnswered == entered ~> pc = "execute"

\* Nothing runs that no Enter ended: typing alone, before or after a prompt,
\* executes nothing (keyboard.c:97-101).
NothingUnasked == pc \in {"copy", "execute"} => entered
=============================================================================
