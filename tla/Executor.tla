------------------------------ MODULE Executor ------------------------------
(***************************************************************************)
(* The command executor: the table register_command fills at boot,         *)
(* tokenize, the lookup of execute_command, and what each command prints.  *)
(* A call is one call of a printing function: the function, the format and *)
(* the slots of its arguments (as pieces, see Format), or another thing a  *)
(* command does to the console.  A word of a message is one character      *)
(* here, and so is a short run of signs.                                   *)
(***************************************************************************)
EXTENDS Exceptions

CONSTANTS
    MAX_COMMANDS, MAX_TOKENS,
    ExecBuffer,     \* execute_command's buffer[256]
    PrintBuffer,    \* console_printf's buffer[256]
    NameOf,         \* the text of each command's name
    Time            \* what get_systime_string answers

ASSUME ExecutorAssumption ==
    /\ MAX_COMMANDS \in Nat /\ MAX_TOKENS \in Nat \ {0}
    /\ ExecBuffer \in Nat \ {0} /\ PrintBuffer \in Nat \ {0}

CRNL == <<"\r", "\n">>
Call(via, pieces) == [via |-> via, pieces |-> pieces]
ConsolePrintf(pieces) == Call("console_printf", pieces)
Printf(pieces) == Call("printf", pieces)
Text(text) == Conversion("", "s", <<text>>)
Line(word) == ConsolePrintf(<<Piece(<<word>> \o CRNL)>>)

\* The text a call prints.
Formatted(call) ==
    LET fmt == FormatOf(call.pieces)
        args == SlotsOf(call.pieces)
    IN CASE call.via = "printf" -> printf(fmt, args)
         [] call.via = "console_printf" -> printf(<<"%", "s">>, <<vsnprintf(PrintBuffer, fmt, args)>>)
         [] call.via = "boot" -> bootPrintf(fmt, args)

-----------------------------------------------------------------------------
(* The table *)

\* The first MAX_COMMANDS of them; one more is refused with a message.
register_command(list, id) == IF Len(list) < MAX_COMMANDS THEN Append(list, id) ELSE list

basics == <<"crashme", "clear", "help", "shutdown", "systime", "hello", "waffle", "cowsay",
            "enablegraphics">>
file_commands == <<"printroot", "mkdir", "touch", "ls", "cd">>

\* command_executor_init
Registered == basics \o file_commands
command_list ==
    LET list[n \in 0..Len(Registered)] ==
          IF n = 0 THEN <<>> ELSE register_command(list[n - 1], Registered[n])
    IN list[Len(Registered)]

\* The table has room for all of them, and no two share a name.
ASSUME NamesAssumption ==
    /\ DOMAIN NameOf = {Registered[i] : i \in DOMAIN Registered}
    /\ \A id, other \in DOMAIN NameOf : NameOf[id] = NameOf[other] => id = other
    /\ MAX_COMMANDS >= Len(Registered)

-----------------------------------------------------------------------------
(* execute_command *)

\* From a place on: the first at which the text has such a character, or its end.
FirstAt(text, from, Is(_)) ==
    LET places == {p \in from..Len(text) : Is(text[p])}
    IN IF places = {} THEN Len(text) + 1 ELSE CHOOSE p \in places : \A q \in places : p <= q
Space == " "
IsSpace(c) == c = Space
IsWord(c) == c # Space

\* Fault: the place after a word is taken for a word, however many blanks follow.
EmptyTokens(buffer, at) == at

SkipSpaces(buffer, at) == FirstAt(buffer, at, IsWord)

\* One turn of tokenize's loop; at stands where its pointer does.
Token(buffer, t) ==
    LET start == SkipSpaces(buffer, t.at)
        end == FirstAt(buffer, start, IsSpace)
    IN IF t.at > Len(buffer) \/ Len(t.argv) >= MAX_TOKENS \/ start > Len(buffer) THEN t
       ELSE [at |-> end + 1, argv |-> Append(t.argv, SubSeq(buffer, start, end - 1))]

tokenize(buffer) ==
    LET turn[n \in 0..Len(buffer)] ==
          IF n = 0 THEN [at |-> 1, argv |-> <<>>] ELSE Token(buffer, turn[n - 1])
    IN turn[Len(buffer)].argv

strncpy(input) == Kept(input, ExecBuffer)

\* The first entry whose name is the first word.
Lookup(word) ==
    LET found == {i \in DOMAIN command_list : NameOf[command_list[i]] = word}
    IN IF found = {} THEN "none" ELSE command_list[CHOOSE i \in found : \A j \in found : i <= j]

-----------------------------------------------------------------------------
(* The commands *)

print_command_list ==
    <<Line("Available commands:")>> \o
    [i \in DOMAIN command_list |->
        ConsolePrintf(<<Piece(<<"  ">>), Text(NameOf[command_list[i]]), Piece(<<":", " ">>),
                        Text(<<command_list[i], "'s help">>), Piece(CRNL)>>)]

Row(sign, message) ==
    <<ConsolePrintf(<<Piece(<<" ">>)>>)>>
    \o [i \in 1..Len(message) + 2 |-> ConsolePrintf(<<Piece(<<sign>>)>>)]
    \o <<ConsolePrintf(<<Piece(<<"\n">>)>>)>>

cowsay(message) ==
    Row("_", message)
    \o <<ConsolePrintf(<<Piece(<<"<", " ">>), Text(message), Piece(<<" ", ">", "\n">>)>>)>>
    \o Row("-", message)
    \o <<ConsolePrintf(<<Piece(<<"cow">> \o CRNL \o CRNL)>>)>>

print_splash ==
    <<ConsolePrintf(<<Piece(<<"\n", "\t", "top">> \o CRNL)>>),
      ConsolePrintf(<<Piece(<<"\t", "WaffleOS">> \o CRNL)>>),
      ConsolePrintf(<<Piece(<<"\t", "foot", "\n">> \o CRNL)>>)>>

cmd_crashme == <<Call("int 0x80", <<>>)>>
cmd_clear == <<Call("clrscr", <<>>)>>
cmd_shutdown == <<Line("Shutting down...")>>
cmd_hello == <<Line("Hello, World!")>>
cmd_waffle == print_splash \o [i \in 1..8 |-> Line("waffle")] \o <<ConsolePrintf(<<Piece(<<"foot">> \o CRNL \o CRNL)>>)>>
cmd_systime == <<ConsolePrintf(<<Piece(<<"Time since startup: ">>)>>), Printf(<<Text(Time)>>), ConsolePrintf(<<Piece(CRNL)>>)>>
cmd_cowsay(argv) == cowsay(IF Len(argv) > 1 THEN argv[2] ELSE <<"WaffleOS!">>)
cmd_enablegraphics == <<Call("desktop", <<>>)>>

\* g_Data is never set: init_filesystem is commented out.
cmd_printroot == <<Line("FAT: Filesystem not initialized")>>
cmd_ls == <<Line("ls not yet implemented")>>

\* mkdir, touch and cd want an argument.
Stubbed(argv, usage, answer) == <<Line(IF Len(argv) < 2 THEN usage ELSE answer)>>
cmd_mkdir(argv) == Stubbed(argv, "Usage: mkdir <directory>", "mkdir not yet functional!")
cmd_touch(argv) == Stubbed(argv, "Usage: touch <filename>", "touch not yet implemented")
cmd_cd(argv) == Stubbed(argv, "Usage: cd <directory>", "cd not yet implemented")

Unrecognised(argv) == <<ConsolePrintf(<<Piece(<<"Unrecognised command: ">>), Text(argv[1]), Piece(CRNL)>>)>>

Output(id, argv) ==
    CASE id = "crashme" -> cmd_crashme
      [] id = "clear" -> cmd_clear
      [] id = "help" -> print_command_list
      [] id = "shutdown" -> cmd_shutdown
      [] id = "systime" -> cmd_systime
      [] id = "hello" -> cmd_hello
      [] id = "waffle" -> cmd_waffle
      [] id = "cowsay" -> cmd_cowsay(argv)
      [] id = "enablegraphics" -> cmd_enablegraphics
      [] id = "printroot" -> cmd_printroot
      [] id = "mkdir" -> cmd_mkdir(argv)
      [] id = "touch" -> cmd_touch(argv)
      [] id = "ls" -> cmd_ls
      [] id = "cd" -> cmd_cd(argv)
      [] id = "none" -> Unrecognised(argv)

\* What execute_command calls for a line.
execute_command(input) ==
    LET argv == tokenize(strncpy(input))
    IN IF argv = <<>> THEN <<>> ELSE Output(Lookup(argv[1]), argv)
=============================================================================
