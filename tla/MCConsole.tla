----------------------------- MODULE MCConsole -----------------------------
\* A screen of four columns and two rows; the lengths of the names and the sizes
\* of the buffers are such that each is overrun by some line.
EXTENDS Console

Names == [id \in {basics[i] : i \in DOMAIN basics} \cup {file_commands[i] : i \in DOMAIN file_commands} |->
    CASE id = "help" -> <<"h">> [] id = "hello" -> <<"h", "o">> [] id = "cowsay" -> <<"s">>
      [] id = "clear" -> <<"l">> [] id = "ls" -> <<"l", "s">> [] id = "cd" -> <<"c", "d">>
      [] id = "crashme" -> <<"c">> [] OTHER -> <<id>>]

ThePrompt == <<"$">>
SomeTime == <<"0", "1">>
TheCpu == [ds |-> 16, edi |-> 1, esi |-> 2, ebp |-> 3, esp |-> 4, ebx |-> 5, edx |-> 6, ecx |-> 7, eax |-> 8]
TheStack == <<4660, 5>>
InMain == [eip |-> 100, cs |-> 8, eflags |-> 514]
InCrashMe == [eip |-> 200, cs |-> 8, eflags |-> 518]

Boot(pieces) == Call("boot", pieces)
Halt == Call("halt", <<>>)
\* The messages of stage 2, each with what happens after it.
BootMessages ==
    { <<>>,
      <<Boot(<<Piece(<<"FAT: not enough memory! Required ">>), Conversion("l", "u", <<65636>>),
               Piece(<<", only have ">>), Conversion("", "u", <<65536>>), Piece(<<"\n">>)>>),
        Boot(<<Piece(<<"FAT init error", "\n">>)>>), Halt>>,
      <<Boot(<<Piece(<<"read error cluster=">>), Conversion("", "u", <<12>>), Piece(<<" lba=">>),
               Conversion("", "u", <<43>>), Piece(<<"\n">>)>>),
        Boot(<<Conversion("", "c", <<"K">>)>>), Boot(<<Piece(<<"\n">>)>>), Halt>> }

KernelMessages ==
    <<Call("clrscr", <<>>)>> \o print_splash \o
    <<Printf(<<Piece(<<"[IDT] IDT address: 0x">>), Conversion("", "x", <<43981>>), Piece(CRNL)>>),
      Printf(<<Piece(<<"running at ">>), Conversion("", "d", <<100>>), Piece(<<"Hz">> \o CRNL)>>),
      Printf(<<Piece(<<"Model:", "\t">>), Text(<<"m", "m">>), Piece(CRNL \o <<"Serial:", "\t">>),
               Text(<<"s">>), Piece(CRNL \o <<"Firmware:", "\t">>), Text(<<"f", "f", "f">>), Piece(CRNL)>>),
      Printf(<<Piece(<<"handler for IRQ ">>), Conversion("", "d", <<12>>), Piece(CRNL)>>),
      Call("sti", <<>>),
      Printf(<<Piece(<<"complete">> \o CRNL)>>),
      Printf(<<Piece(PromptText)>>)>>

TheKeys == {"k", "\t", "enter", BS}
TheLines ==
    { <<>>, <<" ">>, <<"h">>, <<"h", "o">>, <<" ", "l">>, <<"l", "s", " ", " ", "x">>, <<"s", " ", "\t", "y">>,
      <<"c">>, <<"c", "d">>, <<"c", "d", " ", "b", " ", "a">>, <<"systime">>, <<"waffle">>, <<"printroot">>,
      <<"enablegraphics", " ", "1">>, <<"q", "q", "q", "q", "q", "q", "q", "q">>, <<"shutdown">> }
=============================================================================
