----------------------------- MODULE Interrupts -----------------------------
(***************************************************************************)
(* Interrupt delivery in WaffleOS: the 8259A pair as core/idt.c programs   *)
(* it, the CPU's IF flag, the boot sequence that installs the drivers one  *)
(* by one, and the four handlers, each followed from its entry to its EOI  *)
(* and its iretd.  main is everything that is not a handler.               *)
(*                                                                         *)
(* The PICs are in fully nested mode and an EOI is the non-specific one:   *)
(* it retires whatever has the highest priority in service.                *)
(***************************************************************************)
EXTENDS Integers, Sequences, FiniteSets

CONSTANTS
  Commands,       \* what Enter can run inside IRQ 1 once the desktop is up
  MaxLost,        \* bytes of the mouse's stream that may get lost
  FloppySectors,  \* sectors main reads with FLOPPY_ReadSectors
  MaxNesting,     \* bound: handlers stacked on one another
  MaxBurst        \* bound: requests the devices raise before main runs again

\* Commands that never return: the desktop's loop, and crashme, whose int 0x80 ends in
\* i686_Panic's cli and hlt.
Endless == {"enablegraphics", "crashme"}

ASSUME InterruptsAssumption ==
  /\ Commands \subseteq {"plain", "systime"} \cup Endless
  /\ MaxLost \in Nat /\ FloppySectors \in Nat
  /\ MaxNesting \in Nat /\ MaxBurst \in Nat

VARIABLES
  iflag,     \* EFLAGS.IF
  irr,       \* lines requesting service
  isr,       \* lines in service; 2 is the cascade
  imr,       \* masked lines
  gates,     \* lines whose IDT gate leads to their driver's stub
  stack,     \* handlers being executed, the running one last
  step,      \* next step of the boot sequence, then main's phase
  cycle,     \* mouse_cycle
  sent,      \* position in its packet of the next byte the mouse sends
  lost,      \* bytes lost so far
  fdc,       \* main's floppy read: "idle", "command", "waiting"
  sectors,   \* sectors still to read
  received,  \* ReceivedIRQ
  burst      \* requests raised since main last ran undisturbed

pic == <<irr, isr, imr>>
mouse == <<cycle, sent, lost>>
floppy == <<fdc, sectors, received>>
vars == <<iflag, irr, isr, imr, gates, stack, step, cycle, sent, lost,
          fdc, sectors, received, burst>>

Lines == {0, 1, 6, 12}

-----------------------------------------------------------------------------
(* The interrupt controllers *)

\* The line of the master PIC a request arrives on.
MasterLine(n) == IF n >= 8 THEN 2 ELSE n

InService(n) == {n, MasterLine(n)}

Pending(n) == n \in irr /\ InService(n) \cap imr = {}

\* Something of the same or a higher priority is in service.
Blocked(n) ==
  \E m \in isr : \/ m < 8 /\ m <= MasterLine(n)
                 \/ m >= 8 /\ m <= n

\* The line the controllers present to the CPU.
Presented(n) ==
  /\ Pending(n) /\ ~Blocked(n)
  /\ \A m \in Lines : Pending(m) /\ ~Blocked(m) => MasterLine(n) <= MasterLine(m)

Highest(lines) == {n \in lines : \A m \in lines : n <= m}

\* Fault: the slave's own EOI is forgotten.
MasterOnly(n) == isr \ Highest({m \in isr : m < 8})

\* Fault: every line is retired.
RetireAll(n) == {}

\* What send_eoi(n) leaves in service: the master always gets an EOI, the
\* slave only for its own lines.
AfterEoi(n) ==
  isr \ (Highest({m \in isr : m < 8}) \cup
         IF n >= 8 THEN Highest({m \in isr : m >= 8}) ELSE {})

-----------------------------------------------------------------------------
(* Boot, from init_pic to the prompt *)

\* Fault: init_keyboard unmasks its line before it installs the gate.
BootUnmasksFirst ==
  << <<"register", 0>>, <<"unmask", 0>>, <<"probe", 0>>,
     <<"register", 6>>, <<"unmask", 6>>,
     <<"unmask", 1>>, <<"register", 1>>,
     <<"handshake", 12>>, <<"register", 12>>, <<"unmask", 12>>,
     <<"sti", 0>> >>

\* kernel.c's start() after init_hal: what each driver does to the controllers.
BootSteps ==
  << <<"register", 0>>, <<"unmask", 0>>,      \* init_pit
     <<"probe", 0>>,                          \* init_disk
     <<"register", 6>>, <<"unmask", 6>>,      \* init_floppy
     <<"register", 1>>, <<"unmask", 1>>,      \* init_keyboard
     <<"handshake", 12>>,                     \* init_mouse
     <<"register", 12>>, <<"unmask", 12>>,
     <<"sti", 0>> >>                          \* kernel.c:39

Prompt == Len(BootSteps) + 1    \* read_line / execute_command in text mode
Desktop == Len(BootSteps) + 2   \* render_gui for ever
Panicked == Len(BootSteps) + 3  \* i686_Panic

Booting == step < Prompt

Init ==
  /\ iflag = FALSE
  /\ irr = {} /\ isr = {} /\ imr = Lines
  /\ gates = {}
  /\ stack = <<>>
  /\ step = 1
  /\ cycle = 0 /\ sent = 0 /\ lost = 0
  /\ fdc = "idle" /\ sectors = FloppySectors /\ received = FALSE
  /\ burst = 0

\* main runs only while no handler does, and not after a panic.
MainRuns == stack = <<>> /\ step # Panicked

BootOp(op) == MainRuns /\ Booting /\ BootSteps[step][1] = op
BootLine == BootSteps[step][2]
Advance(by) == step' = step + by

\* register_interrupt_handler
Register ==
  /\ BootOp("register")
  /\ gates' = gates \cup {BootLine}
  /\ Advance(1)
  /\ UNCHANGED <<iflag, pic, stack, mouse, floppy, burst>>

\* enable_irq
Unmask ==
  /\ BootOp("unmask")
  /\ imr' = imr \ {BootLine}
  /\ Advance(1)
  /\ UNCHANGED <<iflag, irr, isr, gates, stack, mouse, floppy, burst>>

\* init_disk: a drive that answers is timed with get_systime_millis, whose sti
\* turns interrupts on long before kernel.c:39 does.
Probe ==
  /\ BootOp("probe")
  /\ iflag' \in {iflag, TRUE}
  /\ Advance(1)
  /\ UNCHANGED <<pic, gates, stack, mouse, floppy, burst>>

\* init_mouse's dialogue with the mouse; on a bad answer it returns without
\* installing the handler, and start() goes on.
Handshake ==
  /\ BootOp("handshake")
  /\ Advance(1) \/ Advance(3)
  /\ UNCHANGED <<iflag, pic, gates, stack, mouse, floppy, burst>>

EnableInterrupts ==
  /\ BootOp("sti")
  /\ iflag' = TRUE
  /\ Advance(1)
  /\ UNCHANGED <<pic, gates, stack, mouse, floppy, burst>>

\* The command typed at the prompt: main never leaves the desktop again.
EnterDesktop ==
  /\ MainRuns /\ step = Prompt /\ fdc = "idle"
  /\ step' = Desktop
  /\ UNCHANGED <<iflag, pic, gates, stack, mouse, floppy, burst>>

\* "crashme" typed at the prompt.
CrashMe ==
  /\ MainRuns /\ step = Prompt /\ fdc = "idle"
  /\ iflag' = FALSE
  /\ step' = Panicked
  /\ UNCHANGED <<pic, gates, stack, mouse, floppy, burst>>

-----------------------------------------------------------------------------
(* FLOPPY_ReadSectors, one sector at a time *)

FloppyCommand ==
  /\ MainRuns /\ step = Prompt
  /\ fdc = "idle" /\ sectors > 0
  /\ received' = FALSE
  /\ fdc' = "command"
  /\ UNCHANGED <<iflag, pic, gates, stack, step, mouse, sectors, burst>>

\* The controller has the sector and requests service; main polls ReceivedIRQ.
FloppyAnswers ==
  /\ fdc = "command"
  /\ fdc' = "waiting"
  /\ irr' = irr \cup {6}
  /\ UNCHANGED <<iflag, isr, imr, gates, stack, step, mouse, sectors, received, burst>>

FloppySectorRead ==
  /\ MainRuns
  /\ fdc = "waiting" /\ received
  /\ fdc' = "idle"
  /\ sectors' = sectors - 1
  /\ UNCHANGED <<iflag, pic, gates, stack, step, mouse, received, burst>>

-----------------------------------------------------------------------------
(* Devices and delivery *)

\* The PIT ticks and keys are pressed at any time; the mouse reports once
\* init_mouse has enabled it.  Edges that come while the line is still
\* requesting are one request.  Handlers last microseconds and the fastest
\* device ticks every 10 ms, so only so many requests come before main runs.
Raise(n) ==
  /\ n \in {0, 1, 12} \ irr
  /\ n = 12 => 12 \in gates
  /\ burst < MaxBurst
  /\ burst' = burst + 1
  /\ irr' = irr \cup {n}
  /\ UNCHANGED <<iflag, isr, imr, gates, stack, step, mouse, floppy>>

\* main runs with nothing to interrupt it.
Lull ==
  /\ MainRuns /\ burst > 0
  /\ iflag => \A n \in Lines : ~Presented(n)
  /\ burst' = 0
  /\ UNCHANGED <<iflag, pic, gates, stack, step, mouse, floppy>>

\* A byte of a packet never reaches the controller.
LoseByte ==
  /\ 12 \in gates /\ 12 \notin irr
  /\ lost < MaxLost
  /\ lost' = lost + 1
  /\ sent' = (sent + 1) % 3
  /\ UNCHANGED <<iflag, pic, gates, stack, step, cycle, floppy, burst>>

\* What the handler entered through a line does: a line without a gate of its
\* own ends in i686_ISR_Handler, which knows no driver for it.
Jobs(n) ==
  CASE n \notin gates -> {"unhandled"}
    [] n \in gates /\ n = 0 -> {"tick"}
    [] n \in gates /\ n = 1 -> IF step = Desktop THEN Commands ELSE {"plain"}
    [] n \in gates /\ n = 6 -> {"floppy"}
    [] n \in gates /\ n = 12 -> {"mouse"}

Activation(n, at, job) == [irq |-> n, at |-> at, job |-> job]

\* The interrupt gate clears IF.
Dispatch(n) ==
  /\ iflag /\ Presented(n)
  /\ Len(stack) < MaxNesting
  /\ iflag' = FALSE
  /\ irr' = irr \ {n}
  /\ isr' = isr \cup InService(n)
  /\ \E job \in Jobs(n) : stack' = Append(stack, Activation(n, "body", job))
  /\ UNCHANGED <<imr, gates, step, mouse, floppy, burst>>

Top == stack[Len(stack)]
Running(at) == stack # <<>> /\ Top.at = at
Continue(at) == stack' = [stack EXCEPT ![Len(stack)].at = at]

\* Fault: the clock's handler forgets its EOI.
TickForgetsEoi(job) == IF job \in {"floppy", "unhandled", "tick"} THEN "ret" ELSE "eoi"

\* floppy_handler sends no EOI, nor does i686_ISR_Handler for a line nobody
\* handles.
AfterBody(job) == IF job \in {"floppy", "unhandled"} THEN "ret" ELSE "eoi"

\* The body of a handler.  "systime" reads the clock with cli and an
\* unconditional sti, so the rest of its handler runs with interrupts on.
\* A command that never returns never leaves the body.
Work ==
  /\ Running("body") /\ Top.job \notin {"mouse"} \cup Endless
  /\ iflag' = (iflag \/ Top.job = "systime")
  /\ received' = (received \/ Top.job = "floppy")
  /\ Continue(AfterBody(Top.job))
  /\ UNCHANGED <<pic, gates, step, mouse, fdc, sectors, burst>>

CycleAfter(c) == (c + 1) % 3

\* mouse_handler.  The first byte of a packet has bit 3 set, the others hold
\* any movement; a byte that cannot start a packet is dropped, and the handler
\* returns there and then (mouse.c:67-70).
MouseByte ==
  /\ Running("body") /\ Top.job = "mouse"
  /\ sent' = (sent + 1) % 3
  /\ \E bit3 \in IF sent = 0 THEN {TRUE} ELSE BOOLEAN :
       \/ /\ cycle = 0 /\ ~bit3
          /\ Continue("ret")
          /\ UNCHANGED cycle
       \/ /\ cycle # 0 \/ bit3
          /\ cycle' = CycleAfter(cycle)
          /\ Continue("eoi")
  /\ UNCHANGED <<iflag, pic, gates, step, lost, floppy, burst>>

SendEoi ==
  /\ Running("eoi")
  /\ isr' = AfterEoi(Top.irq)
  /\ Continue("ret")
  /\ UNCHANGED <<iflag, irr, imr, gates, step, mouse, floppy, burst>>

\* iretd restores the flags of the interrupted code, which had IF set.
Return ==
  /\ Running("ret")
  /\ stack' = SubSeq(stack, 1, Len(stack) - 1)
  /\ iflag' = TRUE
  /\ UNCHANGED <<pic, gates, step, mouse, floppy, burst>>

Handler == Work \/ MouseByte \/ SendEoi \/ Return
Main == Register \/ Unmask \/ Probe \/ Handshake \/ EnableInterrupts
        \/ FloppyCommand \/ FloppySectorRead

Next ==
  \/ Main \/ Lull \/ EnterDesktop \/ CrashMe \/ FloppyAnswers
  \/ \E n \in Lines : Raise(n) \/ Dispatch(n)
  \/ LoseByte
  \/ Handler

\* A handler that can go on does, the CPU takes the request it is presented,
\* and main, which is interrupted again and again, gets on in between.
Fairness ==
  /\ WF_vars(Handler)
  /\ WF_vars(\E n \in Lines : Dispatch(n))
  /\ WF_vars(Lull)
  /\ SF_vars(Main)
  /\ WF_vars(FloppyAnswers)

Spec == Init /\ [][Next]_vars /\ Fairness

-----------------------------------------------------------------------------
(* Properties *)

Activations == [irq : Lines, at : {"body", "eoi", "ret"},
                job : {"unhandled", "tick", "floppy", "mouse"} \cup Commands \cup {"plain"}]

TypeOK ==
  /\ iflag \in BOOLEAN
  /\ irr \subseteq Lines /\ isr \subseteq Lines \cup {2} /\ imr \subseteq Lines
  /\ gates \subseteq Lines
  /\ stack \in Seq(Activations)
  /\ step \in 1..Panicked
  /\ cycle \in 0..2 /\ sent \in 0..2 /\ lost \in 0..MaxLost
  /\ fdc \in {"idle", "command", "waiting"} /\ sectors \in 0..FloppySectors
  /\ received \in BOOLEAN /\ burst \in 0..MaxBurst

Unretired(i) == stack[i].at \in {"body", "eoi"}

\* Interrupts are on from init_disk on, while drivers still come up: no line is
\* ever delivered to a gate whose driver is not installed (kernel.c:30-39).
EveryInterruptHandled == \A i \in DOMAIN stack : stack[i].job # "unhandled"

\* Even with the sti hidden in "systime" a handler is interrupted only by a line
\* of higher priority, so no handler's body runs inside itself
\* (timer.c:63-70, idt.c:68-73).
NestingByPriority ==
  \A i, j \in DOMAIN stack :
    i < j /\ Unretired(i) /\ Unretired(j) =>
      MasterLine(stack[j].irq) < MasterLine(stack[i].irq)

\* The handlers on the stack are as they should be.
StackSound == TypeOK /\ EveryInterruptHandled /\ NestingByPriority

\* The non-specific EOI a handler sends retires its own line, never that of a
\* handler it interrupted (idt.c:68-73).
EoiRetiresOwnLine == [][SendEoi => isr \ isr' = InService(Top.irq)]_vars

\* Timer and keyboard are in service only while their handlers run, whatever
\* the floppy and mouse handlers forgot (timer.c:44, keyboard.c:58, 84).
ServiceOwned ==
  \A n \in isr \cap {0, 1} :
    \E i \in DOMAIN stack : stack[i].irq = n /\ Unretired(i)

\* With no byte lost and no floppy transfer, nothing stays in service behind a
\* handler that has returned (idt.c:68-73).
NothingLeftInService ==
  MainRuns /\ lost = 0 /\ fdc = "idle" /\ sectors = FloppySectors => isr = {}

\* "enablegraphics" typed in the terminal window runs the desktop inside IRQ 1 for
\* ever, and "crashme" stops the machine there or at the prompt: IF stays clear and no
\* EOI is sent (basic.c:39-41, 92-105, terminal.c:174).
Halted == step = Panicked \/ \E i \in DOMAIN stack : stack[i].job \in Endless

Served(n) == (n \in irr) ~> (n \notin irr \/ Halted)

\* Unless a command never returns the clock and the keyboard are served for ever,
\* and so is the mouse as long as its stream of bytes is intact, behind whatever
\* the floppy handler left in service (idt.c:68-73, mouse.c:62-88).
LinesServed ==
  /\ Served(0)
  /\ Served(1)
  /\ (12 \in irr) ~> (12 \notin irr \/ Halted \/ lost > 0)
=============================================================================
