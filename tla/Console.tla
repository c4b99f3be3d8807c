------------------------------- MODULE Console -------------------------------
(***************************************************************************)
(* The text console at work: main prints what the boot and the commands    *)
(* call for, putc by putc, and IRQ 1 (the echo of a key) or a spurious     *)
(* IRQ 7 may print with the same cursor between any two of its accesses.   *)
(* The build has no optimisation, so g_ScreenX++ is a load and a store.    *)
(* The interrupt is atomic for main.                                       *)
(***************************************************************************)
EXTENDS Executor

CONSTANTS
    SCREEN_WIDTH, SCREEN_HEIGHT,
    Byte,           \* 256: what one register of the CRT controller holds
    Boots,          \* what the second stage may print: sequences of calls
    KernelBoot,     \* what start() prints before it lets interrupts in
    PromptText,     \* the text of the prompt
    Typed,          \* lines that may be typed
    Keys,           \* keys that may come while main runs
    SpuriousAt,     \* registers of the code a spurious interrupt meets
    CrashAt,        \* those of crash_me
    MaxEvents       \* bound: lines typed and interrupts

ASSUME ConsoleAssumption ==
    /\ SCREEN_WIDTH \in Nat /\ SCREEN_WIDTH > 0 /\ SCREEN_WIDTH % 4 = 0
    /\ SCREEN_HEIGHT \in Nat /\ SCREEN_HEIGHT > 1
    /\ Byte \in Nat \ {0} /\ SCREEN_WIDTH * (SCREEN_HEIGHT + 1) < Byte * Byte

VARIABLES
    con,        \* g_ScreenBuffer, g_ScreenX, g_ScreenY and the CRT controller
    buffer_index,
    pc,         \* where main is
    reg,        \* main's register
    tab,        \* the i of putc('\t'), or -1 outside of it
    text,       \* what the call being executed has still to print
    calls,      \* the calls still to make
    enabled,    \* EFLAGS.IF
    events,     \* lines typed and interrupts so far
    frame,      \* of the last interrupt through isr_common (history)
    last,       \* the last call and what it prints (history)
    command,    \* the last line and what ran (history)
    paper,      \* the text since the last clrscr, on endless paper (history)
    hit,        \* an interrupt printed since the boot (history)
    touched     \* one printed inside the last putc or clrscr (history)

history == <<frame, last, command, paper>>
console_vars == <<con, buffer_index, pc, reg, tab, text, calls, enabled, events, hit, touched, history>>

-----------------------------------------------------------------------------
(* stdio.c: the accesses to the screen and the CRT controller *)

NUL == "nul"
BS == "backspace"
Cells == 0..SCREEN_WIDTH * SCREEN_HEIGHT - 1

\* The row below the last is memory of the adapter that is not shown.
putchr(k, x, y, c) ==
    IF y * SCREEN_WIDTH + x \in Cells THEN [k EXCEPT !.screen[y * SCREEN_WIDTH + x] = c] ELSE k

\* The two loops of scrollback(1); what the row below holds is lost.
ScrolledUp(k) ==
    [k EXCEPT !.screen = [i \in Cells |-> IF i + SCREEN_WIDTH \in Cells THEN @[i + SCREEN_WIDTH] ELSE @[i]]]

\* Fault: the last row keeps what it held.
LastRowKept(k) == k

LastRowBlank(k) ==
    [k EXCEPT !.screen = [i \in Cells |-> IF i + SCREEN_WIDTH \in Cells THEN @[i] ELSE NUL]]
scrollback(k) == [LastRowBlank(ScrolledUp(k)) EXCEPT !.Y = @ - 1]

\* x86_outb to 0x3D4 and to 0x3D5
OutIndex(k, register) == [k EXCEPT !.index = register]
OutData(k, value) == [k EXCEPT !.cursor[k.index] = value]

Position(k) == k.Y * SCREEN_WIDTH + k.X
Low(pos) == pos % Byte

\* Fault: the high byte is not shifted down.
Unshifted(pos) == pos % Byte

High(pos) == (pos \div Byte) % Byte
setcursor(k) ==
    LET pos == Position(k)
    IN OutData(OutIndex(OutData(OutIndex(k, 15), Low(pos)), 14), High(pos))

AllBlank(k) == [k EXCEPT !.screen = [i \in Cells |-> NUL]]
clrscr(k) == setcursor([AllBlank(k) EXCEPT !.X = 0, !.Y = 0])

RowFull(k) == k.X >= SCREEN_WIDTH

\* Fault: the row below the last is not off the screen.
PastBottom(k) == k.Y > SCREEN_HEIGHT

OffScreen(k) == k.Y >= SCREEN_HEIGHT

\* What comes after the switch of putc.
Settled(k) ==
    LET wrapped == IF RowFull(k) THEN [k EXCEPT !.Y = @ + 1, !.X = 0] ELSE k
    IN setcursor(IF OffScreen(wrapped) THEN scrollback(wrapped) ELSE wrapped)

Plain(c) == c \notin {"\n", "\r", "\t", BS}

\* What keyboard_handler enters into a line.
ASSUME TypedAssumption ==
    \A line \in Typed : line \in Seq(STRING) /\ \A i \in DOMAIN line : Plain(line[i]) \/ line[i] = "\t"

Printed(k, c) == [putchr(k, k.X, k.Y, c) EXCEPT !.X = @ + 1]

\* One turn of the loop of putc('\t'): the bound moves with the column.
TabTurn(k, i) == IF i < 4 - (k.X % 4) THEN Settled(Printed(k, Space)) ELSE k
Tabbed(k) == TabTurn(TabTurn(TabTurn(TabTurn(k, 0), 1), 2), 3)

\* putc of an interrupt handler.
putc(k, c) ==
    Settled(CASE c = "\n" -> [k EXCEPT !.X = 0, !.Y = @ + 1]
              [] c = "\t" -> Tabbed(k)
              [] c = "\r" -> [k EXCEPT !.X = 0]
              [] c = BS -> IF k.X > 0 THEN putchr([k EXCEPT !.X = @ - 1], k.X - 1, k.Y, Space) ELSE k
              [] OTHER -> Printed(k, c))
puts(k, str) ==
    LET after[n \in 0..Len(str)] == IF n = 0 THEN k ELSE putc(after[n - 1], str[n])
    IN after[Len(str)]

Dark == [screen |-> [i \in Cells |-> NUL], X |-> 0, Y |-> 0, index |-> 14, cursor |-> [r \in {14, 15} |-> 0]]

-----------------------------------------------------------------------------
(* The text as it would stand on paper without end (history) *)

\* The columns a tabulator moves by, from each column modulo 4: its loop tests
\* the column that it moves.
TabColumns == [col \in 0..3 |-> CASE col = 0 -> 2 [] col = 1 -> 2 [] col = 2 -> 1 [] col = 3 -> 3]
Width(place, sign) == IF sign = "\t" THEN TabColumns[place.col % 4] ELSE 1

\* The place behind a sign.
Behind(place, sign) ==
    CASE sign = "\n" -> [row |-> place.row + 1, col |-> 0]
      [] sign = "\r" -> [row |-> place.row, col |-> 0]
      [] OTHER -> LET end == place.col + Width(place, sign)
                  IN [row |-> place.row + end \div SCREEN_WIDTH, col |-> end % SCREEN_WIDTH]

Blank == [marks |-> <<>>, end |-> [row |-> 0, col |-> 0]]

\* A text written behind what is there: each sign with its place.
Written(sheet, str) ==
    LET place[n \in 0..Len(str)] == IF n = 0 THEN sheet.end ELSE Behind(place[n - 1], str[n])
    IN [marks |-> sheet.marks \o [n \in DOMAIN str |-> [sign |-> str[n], at |-> place[n - 1]]],
        end |-> place[Len(str)]]

\* What is read at a place: the last sign put there.
Covers(m, row, col) ==
    /\ m.sign \notin {"\n", "\r"}
    /\ row * SCREEN_WIDTH + col - (m.at.row * SCREEN_WIDTH + m.at.col) \in 0..Width(m.at, m.sign) - 1
SignAt(sheet, row, col) ==
    LET seen == {n \in DOMAIN sheet.marks : Covers(sheet.marks[n], row, col)}
        sign == sheet.marks[CHOOSE n \in seen : \A other \in seen : other <= n].sign
    IN IF seen = {} THEN NUL ELSE IF sign = "\t" THEN Space ELSE sign

-----------------------------------------------------------------------------
(* main *)

At(from) == pc = from
Go(from, to) == pc = from /\ pc' = to
Keep == UNCHANGED <<buffer_index, calls, enabled, events, hit, history>>
Micro == Keep /\ UNCHANGED <<tab, text, touched>>

ConsoleInit ==
    /\ con = Dark /\ buffer_index = 0 /\ reg = 0 /\ tab = -1 /\ text = <<>> /\ enabled = FALSE
    /\ \E boot \in Boots : calls = <<Call("clrscr", <<>>)>> \o boot \o KernelBoot
    /\ pc = "call" /\ events = 0 /\ hit = FALSE /\ touched = FALSE
    /\ frame = <<>> /\ last = <<>> /\ command = <<>> /\ paper = Blank

Prints(call) == call.via \in {"printf", "console_printf", "boot"}
PromptCall == Printf(<<Piece(PromptText)>>)
Reporting(r) == [i \in DOMAIN Report(r) |-> Printf(Report(r)[i])]

\* What main may print, and that it is text.
CallsMade ==
    (UNION {Range(boot) : boot \in Boots}) \cup Range(KernelBoot) \cup {PromptCall}
    \cup (UNION {Range(execute_command(line)) : line \in Typed})
    \cup Range(Reporting(Registers(Frame(Raised(128), CrashAt))))
ASSUME TextsAssumption ==
    /\ \A messages \in Boots \cup {KernelBoot} : messages \in Seq(Range(messages))
    /\ \A call \in CallsMade : Prints(call) => Formatted(call) \in Seq(STRING)

\* The next call: a text to print, or the clearing of the screen.
NextCall ==
    /\ At("call") /\ calls # <<>>
    /\ calls' = Tail(calls)
    /\ LET call == Head(calls)
       IN \/ /\ Prints(call)
             /\ text' = Formatted(call)
             /\ last' = <<call, text'>>
             /\ paper' = Written(paper, text')
             /\ pc' = "print"
             /\ UNCHANGED <<enabled, touched>>
          \/ /\ call.via = "clrscr"
             /\ pc' = "blank_all" /\ paper' = Blank /\ touched' = FALSE
             /\ UNCHANGED <<text, last, enabled>>
          \/ /\ call.via = "sti"
             /\ enabled' = TRUE
             /\ UNCHANGED <<pc, paper, text, last, touched>>
          \/ /\ call.via \in {"desktop", "halt", "panic"}
             /\ pc' = call.via
             /\ UNCHANGED <<paper, text, last, enabled, touched>>
    /\ UNCHANGED <<con, buffer_index, reg, tab, events, hit, frame, command>>

\* crash_me's int 0x80: the gate switches interrupts off, the report is printed,
\* and i686_Panic is cli, hlt.
Crash ==
    /\ At("call") /\ calls # <<>> /\ Head(calls).via = "int 0x80"
    /\ LET raised == Raised(128)
           r == Registers(Frame(raised, CrashAt))
           after == Call(IF Panics(r) THEN "panic" ELSE "sti", <<>>)
       IN /\ frame' = <<raised, CrashAt, r, Resumed(Frame(raised, CrashAt))>>
          /\ calls' = Reporting(r) \o <<after>> \o Tail(calls)
    /\ enabled' = FALSE
    /\ UNCHANGED <<con, buffer_index, pc, reg, tab, text, events, hit, touched, last, command, paper>>

\* read_line returned a line; its keys were echoed while main waited.
ReadLine ==
    /\ At("call") /\ calls = <<>> /\ events < MaxEvents
    /\ \E line \in Typed :
          /\ con' = puts(con, line \o CRNL)
          /\ paper' = Written(paper, line \o CRNL)
          /\ buffer_index' = Len(line)
          /\ calls' = execute_command(line) \o <<PromptCall>>
          /\ command' = <<line, tokenize(strncpy(line)),
                          LET argv == tokenize(strncpy(line)) IN IF argv = <<>> THEN "none" ELSE Lookup(argv[1])>>
    /\ events' = events + 1 /\ touched' = FALSE
    /\ UNCHANGED <<pc, reg, tab, text, enabled, hit, frame, last>>

TextDone ==
    /\ Go("print", "call") /\ text = <<>>
    /\ Keep /\ UNCHANGED <<con, reg, tab, text, touched>>

\* putc's switch; a tabulator prints blanks through putc itself.
PutcBegins ==
    /\ At("print") /\ text # <<>>
    /\ LET c == Head(text)
       IN \/ c = "\n" /\ con' = [con EXCEPT !.X = 0] /\ pc' = "down_load" /\ UNCHANGED tab
          \/ c = "\r" /\ con' = [con EXCEPT !.X = 0] /\ pc' = "wrap" /\ UNCHANGED tab
          \/ c = "\t" /\ tab' = 0 /\ pc' = "tab" /\ UNCHANGED con
          \/ Plain(c) /\ con' = putchr(con, con.X, con.Y, c) /\ pc' = "right_load" /\ UNCHANGED tab
    /\ touched' = FALSE
    /\ Keep /\ UNCHANGED <<reg, text>>

TabTest ==
    /\ At("tab")
    /\ \/ /\ tab < 4 - (con.X % 4)
          /\ con' = putchr(con, con.X, con.Y, Space) /\ pc' = "right_load" /\ UNCHANGED tab
       \/ /\ tab >= 4 - (con.X % 4)
          /\ pc' = "wrap" /\ tab' = -1 /\ UNCHANGED con
    /\ Keep /\ UNCHANGED <<reg, text, touched>>

RightLoad == Go("right_load", "right_store") /\ reg' = con.X /\ Micro /\ UNCHANGED con
RightStore == Go("right_store", "wrap") /\ con' = [con EXCEPT !.X = reg + 1] /\ Micro /\ UNCHANGED reg
DownLoad == Go("down_load", "down_store") /\ reg' = con.Y /\ Micro /\ UNCHANGED con
DownStore == Go("down_store", "wrap") /\ con' = [con EXCEPT !.Y = reg + 1] /\ Micro /\ UNCHANGED reg

Wrap ==
    /\ At("wrap") /\ pc' = IF RowFull(con) THEN "next_load" ELSE "bottom"
    /\ Micro /\ UNCHANGED <<con, reg>>
NextLoad == Go("next_load", "next_store") /\ reg' = con.Y /\ Micro /\ UNCHANGED con
NextStore == Go("next_store", "margin") /\ con' = [con EXCEPT !.Y = reg + 1] /\ Micro /\ UNCHANGED reg
Margin == Go("margin", "bottom") /\ con' = [con EXCEPT !.X = 0] /\ Micro /\ UNCHANGED reg

Bottom ==
    /\ At("bottom") /\ pc' = IF OffScreen(con) THEN "scroll" ELSE "cursor"
    /\ Micro /\ UNCHANGED <<con, reg>>
Scroll == Go("scroll", "scroll_blank") /\ con' = ScrolledUp(con) /\ Micro /\ UNCHANGED reg
ScrollBlank == Go("scroll_blank", "up_load") /\ con' = LastRowBlank(con) /\ Micro /\ UNCHANGED reg
UpLoad == Go("up_load", "up_store") /\ reg' = con.Y /\ Micro /\ UNCHANGED con
UpStore == Go("up_store", "cursor") /\ con' = [con EXCEPT !.Y = reg - 1] /\ Micro /\ UNCHANGED reg

\* setcursor, called by putc and by clrscr: text is empty in the second case.
Cursor == Go("cursor", "index_low") /\ reg' = Position(con) /\ Micro /\ UNCHANGED con
IndexLow == Go("index_low", "data_low") /\ con' = OutIndex(con, 15) /\ Micro /\ UNCHANGED reg
DataLow == Go("data_low", "index_high") /\ con' = OutData(con, Low(reg)) /\ Micro /\ UNCHANGED reg
IndexHigh == Go("index_high", "data_high") /\ con' = OutIndex(con, 14) /\ Micro /\ UNCHANGED reg
DataHigh ==
    /\ At("data_high")
    /\ con' = OutData(con, High(reg))
    /\ \/ tab >= 0 /\ tab' = tab + 1 /\ pc' = "tab" /\ UNCHANGED text
       \/ tab < 0 /\ text # <<>> /\ text' = Tail(text) /\ pc' = "print" /\ UNCHANGED tab
       \/ tab < 0 /\ text = <<>> /\ pc' = "call" /\ UNCHANGED <<text, tab>>
    /\ Keep /\ UNCHANGED <<reg, touched>>

\* clrscr
BlankAll == Go("blank_all", "home_x") /\ con' = AllBlank(con) /\ Micro /\ UNCHANGED reg
HomeX == Go("home_x", "home_y") /\ con' = [con EXCEPT !.X = 0] /\ Micro /\ UNCHANGED reg
HomeY == Go("home_y", "cursor") /\ con' = [con EXCEPT !.Y = 0] /\ Micro /\ UNCHANGED reg

ConsoleMain ==
    \/ NextCall \/ Crash \/ ReadLine \/ TextDone \/ PutcBegins \/ TabTest
    \/ RightLoad \/ RightStore \/ DownLoad \/ DownStore
    \/ Wrap \/ NextLoad \/ NextStore \/ Margin
    \/ Bottom \/ Scroll \/ ScrollBlank \/ UpLoad \/ UpStore
    \/ Cursor \/ IndexLow \/ DataLow \/ IndexHigh \/ DataHigh
    \/ BlankAll \/ HomeX \/ HomeY

-----------------------------------------------------------------------------
(* The interrupts *)

Interrupted ==
    /\ enabled /\ events < MaxEvents /\ pc # "desktop"
    /\ events' = events + 1 /\ hit' = TRUE /\ touched' = TRUE
    /\ UNCHANGED <<pc, reg, tab, text, calls, enabled, last, command, paper>>

\* keyboard_handler's echo; what it does to the line is Keyboard's.
Key(key) ==
    /\ Interrupted
    /\ \/ key = "enter" /\ con' = puts(con, CRNL) /\ UNCHANGED buffer_index
       \/ key = BS /\ buffer_index > 0
             /\ con' = putc(con, BS) /\ buffer_index' = buffer_index - 1
       \/ (Plain(key) \/ key = "\t") /\ key # "enter"
             /\ con' = putc(con, key) /\ buffer_index' = buffer_index + 1
    /\ UNCHANGED frame

\* IRQ 7 without a device: the stub of vector 39, and back.
Spurious ==
    /\ Interrupted
    /\ LET raised == Raised(39)
           r == Registers(Frame(raised, SpuriousAt))
       IN /\ con' = puts(con, printf(FormatOf(Report(r)[1]), SlotsOf(Report(r)[1])))
          /\ frame' = <<raised, SpuriousAt, r, Resumed(Frame(raised, SpuriousAt))>>
    /\ UNCHANGED buffer_index

Stopped == pc \in {"halt", "desktop", "panic"} \/ (At("call") /\ calls = <<>> /\ events = MaxEvents)
Idle == Stopped /\ UNCHANGED console_vars

ConsoleNext == ConsoleMain \/ Spurious \/ (\E key \in Keys : Key(key)) \/ Idle

ConsoleSpec == ConsoleInit /\ [][ConsoleNext]_console_vars

-----------------------------------------------------------------------------
(* Properties *)

\* Between two characters, no putc in progress.
AtRest == pc \in {"call", "print", "panic", "halt"}

\* A conversion after %s, which vsnprintf does not convert.
ConversionAfterText(call) ==
    call.via = "console_printf" /\
    \E i, j \in DOMAIN call.pieces : i < j /\ call.pieces[i].letter = "s" /\ call.pieces[j].letter # ""

MeansWhatItSays == At("call") /\ last # <<>> =>
    last[2] = IF last[1].via = "console_printf" THEN Kept(Meant(last[1].pieces), PrintBuffer)
              ELSE Meant(last[1].pieces)

\* Where the next call is made and no message was before it.
NothingPrinted == At("call") /\ last = <<>>

\* No message has a negative number: the numbers at the ends of the range, behind a
\* signed one whose sign and radix must not stay, in each of the three machines.
Numbers == {0, 1, 9, 10, 255, Word \div 2 - 1, Word \div 2, Word - 1}
NumbersRight ==
    \A length \in {"", "l"}, letter \in {"d", "i", "u", "x", "o"}, before, n \in Numbers :
        LET pieces == <<Conversion("", "d", <<before>>), Piece(<<" ">>), Conversion(length, letter, <<n>>)>>
            fmt == FormatOf(pieces)
            args == SlotsOf(pieces)
            meant == Meant(pieces)
        IN  printf(fmt, args) = meant /\ bootPrintf(fmt, args) = meant
            /\ vsnprintf(Len(meant) + 1, fmt, args) = meant

\* Every format the boot stage, the kernel and the commands use prints what the
\* C standard says of it, cut at console_printf's buffer: widths, signs, radices
\* and the state left by one conversion for the next (kernel and stage 2
\* stdio.c); and so would every number.  The one format with a conversion after %s,
\* help's, is apart.
FormatsRight ==
    /\ NothingPrinted => NumbersRight
    /\ (At("call") /\ last # <<>> => ~ConversionAfterText(last[1])) => MeansWhatItSays

\* The words of a line: the longest runs without a blank.
Starts(line) == {p \in DOMAIN line : line[p] # Space /\ (p = 1 \/ line[p - 1] = Space)}
WordStart(line, i) == CHOOSE p \in Starts(line) : Cardinality({q \in Starts(line) : q < p}) = i - 1
Stretches(line, p, n) ==
    (\A q \in p..p + n - 1 : line[q] # Space) /\ (p + n > Len(line) \/ line[p + n] = Space)
WordAt(line, p) ==
    LET n == CHOOSE n \in 1..Len(line) - p + 1 : Stretches(line, p, n)
    IN SubSeq(line, p, p + n - 1)
Words(line) == [i \in 1..Cardinality(Starts(line)) |-> WordAt(line, WordStart(line, i))]

\* What runs is the command the first word of the line names, with the words as
\* its arguments, up to the size of the buffers (cmd_executor.c:59-95).
CommandRight == command # <<>> =>
    LET words == Words(Kept(command[1], ExecBuffer))
    IN /\ command[2] = SubSeq(words, 1, IF Len(words) < MAX_TOKENS THEN Len(words) ELSE MAX_TOKENS)
       /\ \A id \in DOMAIN NameOf : (command[3] = id) <=> (words # <<>> /\ words[1] = NameOf[id])

\* While no interrupt prints, the screen is the end of the text as it would
\* stand on an endless paper, and the cursor is behind it: wrapping, scrolling,
\* tabulators and clrscr (stdio.c:59-133).
ScreenIsTail ==
    ~hit /\ pc \in {"call", "panic", "halt"} =>
        LET top == IF paper.end.row < SCREEN_HEIGHT THEN 0 ELSE paper.end.row - SCREEN_HEIGHT + 1
        IN /\ con.X = paper.end.col /\ con.Y = paper.end.row - top
           /\ \A i \in Cells : con.screen[i] = SignAt(paper, top + i \div SCREEN_WIDTH, i % SCREEN_WIDTH)

\* The cursor variables point to the screen between two characters, and never
\* further than the column and the row behind it.
CursorInside ==
    /\ con.X \in 0..SCREEN_WIDTH /\ con.Y \in 0..SCREEN_HEIGHT
    /\ AtRest => con.X < SCREEN_WIDTH /\ con.Y < SCREEN_HEIGHT

\* The cursor shown is the cursor meant, unless an interrupt printed inside the
\* last putc: then it is right again after the next.
CursorShown ==
    AtRest /\ ~touched => con.cursor[14] * Byte + con.cursor[15] = Position(con)

\* Whatever is interrupted where, no access leaves the adapter's memory, and the
\* controller shows the cursor there is (stdio.c:49-57, 92-133).
CursorSound == CursorInside /\ CursorShown

FrameRight(raised, at, r, back) ==
    /\ r.interrupt = raised.vector /\ r.error = raised.error
    /\ r.eip = at.eip /\ r.eax = Cpu.eax /\ r.edi = Cpu.edi /\ r.ebp = Cpu.ebp
    /\ back = [eip |-> at.eip, cs |-> at.cs, eflags |-> at.eflags, below |-> Below]

\* Each gate there is, entered as the processor enters it.
EveryFrameRight == \A v \in Present :
    LET raised == Entered(v)
    IN  FrameRight(raised, SpuriousAt, Registers(Frame(raised, SpuriousAt)), Resumed(Frame(raised, SpuriousAt)))

LastFrameRight == frame # <<>> => FrameRight(frame[1], frame[2], frame[3], frame[4])

\* At the interrupts that come and at every other vector the handler reads the
\* vector, the error code and the place the processor pushed, and iret takes the
\* place back and leaves the stack as it was: each stub pushes a dummy exactly
\* where the processor pushes no error code (isr.asm, isrs_gen.inc, isr.h).
FrameWhole ==
    /\ NothingPrinted => EveryFrameRight
    /\ LastFrameRight
=============================================================================
