----------------------------- MODULE Exceptions -----------------------------
(***************************************************************************)
(* The way from a vector to i686_ISR_Handler and back: the table of gates  *)
(* as init_hal leaves it, what the processor pushes, what the generated    *)
(* stubs of isrs_gen.inc and isr_common add, what the handler reads there  *)
(* as Registers, and what iret takes.  A stack is a sequence of words, its *)
(* top first.                                                              *)
(***************************************************************************)
EXTENDS Format

CONSTANTS
    Cpu,          \* the general registers of the interrupted code, and ds
    Below         \* what lies on its stack

ASSUME ExceptionsAssumption == Below \in Seq(Nat) /\ Len(Below) >= 2

\* The stubs of isrs_gen.inc, each named by the vector it pushes.
Stubs == 0..255

\* A gate: the stub it leads to, the code segment it is run in, and its flags.
Gate(base, selector, flags) == [base |-> base, segment |-> selector, flags |-> flags]
CodeSegment == 8

\* init_idt empties the table.
EmptyIdt == [n \in 0..255 |-> Gate(-1, 0, {})]

SetGate(idt, n, base, selector, flags) == [idt EXCEPT ![n] = Gate(base, selector, flags)]
EnableGate(idt, n) == [idt EXCEPT ![n].flags = @ \cup {"present"}]
DisableGate(idt, n) == [idt EXCEPT ![n].flags = @ \ {"present"}]

\* Each vector leads to the stub of its number, as an interrupt gate of ring 0.
InitializeGates(idt) ==
    [n \in Stubs |-> SetGate(idt, n, n, CodeSegment, {"32 bit interrupt"})[n]]

\* Every gate is then made present, and 0x80 taken back.
ISR_Initialize(idt) ==
    LET gates == InitializeGates(idt)
    IN  DisableGate([n \in DOMAIN gates |-> EnableGate(gates, n)[n]], 128)

Idt == ISR_Initialize(EmptyIdt)

StubOf == [vector \in DOMAIN Idt |-> Idt[vector].base]
Present == {n \in DOMAIN Idt : "present" \in Idt[n].flags}

\* int n in ring 0: a gate that is not there is the fault 11, its error code the
\* index of the gate.
Raised(n) == IF n \in Present THEN [vector |-> n, error |-> 0]
             ELSE [vector |-> 11, error |-> 8 * n + 2]

\* What the processor pushes in ring 0.
PushesError == {8, 10, 11, 12, 13, 14, 17, 21}

\* A vector entered by what it is for: an exception that has an error code brings one,
\* a selector's or gate's for example.
Entered(v) == [vector |-> v, error |-> IF v \in PushesError THEN 8 * v + 2 ELSE 0]
Taken(raised, at) ==
    (IF raised.vector \in PushesError THEN <<raised.error>> ELSE <<>>)
        \o <<at.eip, at.cs, at.eflags>> \o Below

\* Fault: the stub of vector 11 pushes a dummy as well.
DummyForAll == {8, 10, 12, 13, 14, 17, 21}

\* The vectors with ISR_ERRORCODE; the others push a dummy.
ErrorCode == {8, 10, 11, 12, 13, 14, 17, 21}

Stub(vector) == IF vector \in ErrorCode THEN <<vector>> ELSE <<vector, 0>>

\* pusha and the data segment.
Saved == <<Cpu.ds, Cpu.edi, Cpu.esi, Cpu.ebp, Cpu.esp, Cpu.ebx, Cpu.edx, Cpu.ecx, Cpu.eax>>

Frame(raised, at) == Saved \o Stub(StubOf[raised.vector]) \o Taken(raised, at)

\* The Registers structure laid over the frame: esp and ss are whatever the
\* interrupted code has on its stack, for no ring was left.
Registers(frame) ==
    [ds |-> frame[1], edi |-> frame[2], esi |-> frame[3], ebp |-> frame[4], ebx |-> frame[6],
     edx |-> frame[7], ecx |-> frame[8], eax |-> frame[9], interrupt |-> frame[10],
     error |-> frame[11], eip |-> frame[12], cs |-> frame[13], eflags |-> frame[14],
     esp |-> frame[15], ss |-> frame[16]]

\* After i686_ISR_Handler: pop eax, popa, add esp 8, iret.
Resumed(frame) == [eip |-> frame[12], cs |-> frame[13], eflags |-> frame[14],
                   below |-> SubSeq(frame, 15, Len(frame))]

Field(name, value) == <<Piece(<<name>>), Conversion("", "x", <<value>>)>>

\* What i686_ISR_Handler prints: no handler is ever registered with it.
ReportInterrupt(r) ==
    <<(<<Piece(<<"Unhandled interrupt ">>), Conversion("", "d", <<r.interrupt>>), Piece(<<"!", "\n">>)>>)>>

Reported(names, values) == FlattenSeq([i \in DOMAIN names |-> Field(names[i], values[i])]) \o <<Piece(<<"\n">>)>>

ReportException(r) ==
    << <<Piece(<<"Unhandled exception ">>), Conversion("", "d", <<r.interrupt>>), Piece(<<" ">>),
         Conversion("", "s", << <<"g_Exceptions">> >>), Piece(<<"\n">>)>>,
       Reported(<<" eax=", " ebx=", " ecx=", " edx=", " esi=", " edi=">>,
                <<r.eax, r.ebx, r.ecx, r.edx, r.esi, r.edi>>),
       Reported(<<" esp=", " ebp=", " eip=", " eflags=", " cs=", " ds=", " ss=">>,
                <<r.esp, r.ebp, r.eip, r.eflags, r.cs, r.ds, r.ss>>),
       Reported(<<" interrupt=", " errorcode=">>, <<r.interrupt, r.error>>),
       <<Piece(<<"KERNEL PANIC!", "\n">>)>> >>

Report(r) == IF r.interrupt >= 32 THEN ReportInterrupt(r) ELSE ReportException(r)
Panics(r) == r.interrupt < 32
=============================================================================
