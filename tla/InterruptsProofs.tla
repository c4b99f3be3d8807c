-------------------------- MODULE InterruptsProofs --------------------------
(***************************************************************************)
(* Interrupts are delivered to the drivers that asked for them, nest only  *)
(* by priority and are retired by the handler that serves them, for every  *)
(* set of commands, any depth of nesting and any number of lost bytes and  *)
(* of floppy sectors.  And they may print: wherever main is in putc, the   *)
(* cursor of the console is sound and the frame of the interrupt whole,    *)
(* for every screen of two rows or more, every line and every code met.    *)
(***************************************************************************)
EXTENDS Interrupts, Console, SequenceTheorems, FiniteSetTheorems, WellFoundedInduction, TLAPS

\* No line is unmasked before its gate is installed.
GatesFirst ==
  /\ Lines \ imr \subseteq gates
  /\ step = 2 => 0 \in gates
  /\ step = 5 => 6 \in gates
  /\ step = 7 => 1 \in gates
  /\ step = 10 => 12 \in gates

\* A handler does the job of its line, and the floppy's never gets to an EOI.
OwnJob(a) ==
  \/ a.irq = 0 /\ a.job = "tick"
  \/ a.irq = 1 /\ a.job \in Commands \cup {"plain"}
  \/ a.irq = 6 /\ a.job = "floppy" /\ a.at # "eoi"
  \/ a.irq = 12 /\ a.job = "mouse"

\* "systime" after its sti: the only handler that can be interrupted.
Open(a) == a.irq = 1 /\ a.job = "systime" /\ a.at # "body"

OnlyOpenInterrupted ==
  /\ \A i \in 1..Len(stack) : OwnJob(stack[i])
  /\ \A i \in 1..Len(stack) : i < Len(stack) => Open(stack[i])
  /\ iflag /\ stack # <<>> => Open(stack[Len(stack)])

\* Until its EOI a handler's line is in service.
Serving ==
  \A i \in 1..Len(stack) : Unretired(i) => InService(stack[i].irq) \subseteq isr

\* While no byte is lost mouse_cycle counts what the mouse sends, so that the
\* handler always gets to its EOI.
MouseInStep ==
  lost = 0 =>
    /\ cycle = sent
    /\ isr \cap {2, 12} # {} =>
         \E i \in 1..Len(stack) : stack[i].irq = 12 /\ Unretired(i)

\* The floppy's line is not requested or in service before main has used it.
FloppyUsed == fdc # "idle" \/ sectors < FloppySectors

FloppyAccounted ==
  /\ 6 \in irr \cup isr => FloppyUsed
  /\ fdc # "idle" => sectors > 0

Service == OnlyOpenInterrupted /\ Serving /\ NestingByPriority /\ ServiceOwned /\ MouseInStep

Sound == TypeOK /\ GatesFirst /\ FloppyAccounted /\ Service
-----------------------------------------------------------------------------
(* The stack of handlers, its last one on top *)

LEMMA Pushed ==
  ASSUME NEW s \in Seq(Activations), NEW a \in Activations
  PROVE  /\ Append(s, a) \in Seq(Activations)
         /\ Len(Append(s, a)) = Len(s) + 1
         /\ \A i \in 1..Len(s) : Append(s, a)[i] = s[i]
         /\ Append(s, a)[Len(s) + 1] = a
  BY AppendProperties

LEMMA Popped ==
  ASSUME NEW s \in Seq(Activations), s # <<>>
  PROVE  /\ SubSeq(s, 1, Len(s) - 1) \in Seq(Activations)
         /\ Len(SubSeq(s, 1, Len(s) - 1)) = Len(s) - 1
         /\ \A i \in 1..(Len(s) - 1) : SubSeq(s, 1, Len(s) - 1)[i] = s[i]
<1>1. Len(s) \in Nat /\ Len(s) >= 1
  BY EmptySeq
<1>2. /\ 1 \in Int /\ Len(s) - 1 \in Int
      /\ \A i \in 1..(Len(s) - 1) : s[i] \in Activations
  BY <1>1
<1> DEFINE k == IF 1 <= Len(s) - 1 THEN Len(s) - 1 - 1 + 1 ELSE 0
<1>3. /\ SubSeq(s, 1, Len(s) - 1) \in Seq(Activations)
      /\ Len(SubSeq(s, 1, Len(s) - 1)) = k
  BY <1>2, SubSeqProperties
<1>4. \A n \in Nat : n >= 1 => (IF 1 <= n - 1 THEN n - 1 - 1 + 1 ELSE 0) = n - 1
  OBVIOUS
<1>5. k = Len(s) - 1
  BY <1>1, <1>4, Zenon
<1> HIDE DEF k
<1>6. \A i \in 1..(Len(s) - 1) : SubSeq(s, 1, Len(s) - 1)[i] = s[i]
  BY <1>1, <1>2
<1> QED
  BY <1>3, <1>5, <1>6

LEMMA Continued ==
  ASSUME NEW s \in Seq(Activations), s # <<>>, NEW at \in {"body", "eoi", "ret"},
         NEW t, t = [s EXCEPT ![Len(s)].at = at]
  PROVE  /\ t \in Seq(Activations)
         /\ Len(t) = Len(s)
         /\ \A i \in 1..Len(s) : i < Len(s) => t[i] = s[i]
         /\ t[Len(s)].irq = s[Len(s)].irq
         /\ t[Len(s)].job = s[Len(s)].job
         /\ t[Len(s)].at = at
<1>1. Len(s) \in Nat /\ Len(s) >= 1
  BY EmptySeq
<1> DEFINE moved == [s[Len(s)] EXCEPT !.at = at]
<1>2. s[Len(s)] \in Activations
  BY <1>1
<1>3. moved \in Activations /\ moved.irq = s[Len(s)].irq /\ moved.job = s[Len(s)].job /\ moved.at = at
  BY <1>2 DEF Activations
<1>4. t = [s EXCEPT ![Len(s)] = moved]
  OBVIOUS
<1> HIDE DEF moved
<1>5. t \in Seq(Activations) /\ Len(t) = Len(s)
  BY <1>1, <1>3, <1>4
<1>6. t[Len(s)] = moved /\ \A i \in 1..Len(s) : i < Len(s) => t[i] = s[i]
  BY <1>1, <1>4
<1> QED
  BY <1>3, <1>5, <1>6
-----------------------------------------------------------------------------
(* What the PIC retires *)

LEMMA LowestIsHighest ==
  ASSUME NEW lines, \A m \in lines : m \in Int, NEW n \in lines, \A m \in lines : n <= m
  PROVE  Highest(lines) = {n}
<1>1. ASSUME NEW k \in lines, \A m \in lines : k <= m
      PROVE  k = n
  <2>1. k <= n /\ n <= k /\ k \in Int /\ n \in Int
    BY <1>1
  <2> QED
    BY <2>1
<1> QED
  BY <1>1, Zenon DEF Highest

\* The lines in service of the handler on top are the ones its EOI retires.
LEMMA EoiRetiresTop ==
  ASSUME Sound, stack # <<>>, stack[Len(stack)].at = "eoi"
  PROVE  AfterEoi(stack[Len(stack)].irq) = isr \ InService(stack[Len(stack)].irq)
<1> DEFINE top == stack[Len(stack)]
<1>1. /\ Len(stack) \in Nat /\ Len(stack) \in 1..Len(stack) /\ top \in Activations
      /\ DOMAIN stack = 1..Len(stack)
      /\ isr \subseteq {0, 1, 2, 6, 12}
  <2>1. stack \in Seq(Activations) /\ isr \subseteq {0, 1, 2, 6, 12}
    BY DEF Sound, TypeOK, Lines
  <2>2. Len(stack) \in Nat /\ DOMAIN stack = 1..Len(stack) /\ Len(stack) >= 1
    BY <2>1, EmptySeq
  <2> QED
    BY <2>1, <2>2
<1>2. InService(top.irq) \subseteq isr /\ OwnJob(top)
  BY <1>1 DEF Sound, Service, Serving, OnlyOpenInterrupted, Unretired
<1>3. ASSUME 0 \in isr
      PROVE  top.irq = 0
  <2>1. PICK i \in 1..Len(stack) : stack[i].irq = 0 /\ Unretired(i)
    BY <1>1, <1>3 DEF Sound, Service, ServiceOwned
  <2>2. ~Open(stack[i])
    BY <2>1 DEF Open
  <2> QED
    BY <1>1, <2>1, <2>2 DEF Sound, Service, OnlyOpenInterrupted
<1>4. ASSUME 1 \in isr, top.irq # 0
      PROVE  top.irq = 1
  <2>1. PICK i \in 1..Len(stack) : stack[i].irq = 1 /\ Unretired(i)
    BY <1>1, <1>4 DEF Sound, Service, ServiceOwned
  <2>2. CASE i = Len(stack)
    BY <2>1, <2>2
  <2>3. CASE i < Len(stack)
    <3>1. MasterLine(top.irq) < MasterLine(stack[i].irq)
      BY <1>1, <2>1, <2>3 DEF Sound, Service, NestingByPriority, Unretired
    <3> QED
      BY <1>1, <1>4, <2>1, <3>1 DEF MasterLine, Activations, Lines
  <2>4. \A n \in Nat : \A k \in 1..n : k = n \/ k < n
    OBVIOUS
  <2>5. i = Len(stack) \/ i < Len(stack)
    BY <1>1, <2>1, <2>4, Zenon
  <2> QED
    BY <2>2, <2>3, <2>5
<1>5. top.irq \in {0, 1, 12}
  BY <1>1, <1>2 DEF OwnJob, Activations, Lines
<1> HIDE DEF top
<1> DEFINE master == {m \in isr : m < 8}
<1>6. \A m \in isr : m \in Int
  <2>1. \A m \in {0, 1, 2, 6, 12} : m \in Int
    OBVIOUS
  <2> QED
    BY <1>1, <2>1, Zenon
<1>7. CASE top.irq < 8
  <2>1. top.irq \in {0, 1} /\ InService(top.irq) = {top.irq}
    BY <1>5, <1>7 DEF InService, MasterLine
  <2>2. top.irq \in master /\ \A m \in master : top.irq <= m
    BY <1>1, <1>2, <1>3, <2>1
  <2>3. Highest(master) = {top.irq}
    BY <1>6, <2>2, LowestIsHighest
  <2>4. ~(top.irq >= 8)
    BY <2>1
  <2> QED
    BY <2>1, <2>3, <2>4 DEF AfterEoi, top
<1>8. CASE top.irq = 12
  <2>1. 2 \in isr /\ 12 \in isr /\ 0 \notin isr /\ 1 \notin isr
    BY <1>2, <1>3, <1>4, <1>8 DEF InService, MasterLine
  <2>2. 2 \in master /\ \A m \in master : 2 <= m
    BY <1>1, <2>1
  <2>3. Highest(master) = {2}
    BY <1>6, <2>2, LowestIsHighest
  <2> DEFINE slave == {m \in isr : m >= 8}
  <2>4. 12 \in slave /\ \A m \in slave : 12 <= m
    BY <1>1, <2>1
  <2>5. Highest(slave) = {12}
    BY <1>6, <2>4, LowestIsHighest
  <2>6. AfterEoi(12) = isr \ ({2} \cup {12})
    BY <2>3, <2>5 DEF AfterEoi
  <2> QED
    BY <1>8, <2>6 DEF InService, MasterLine, top
<1> QED
  BY <1>5, <1>7, <1>8
-----------------------------------------------------------------------------
(* Boot, the floppy and the devices leave the stack alone *)

LEMMA StackIsSequence ==
  ASSUME TypeOK
  PROVE  /\ stack \in Seq(Activations) /\ Len(stack) \in Nat /\ DOMAIN stack = 1..Len(stack)
         /\ stack # <<>> => Len(stack) \in 1..Len(stack)
         /\ stack = <<>> => Len(stack) = 0
<1>1. stack \in Seq(Activations)
  BY DEF TypeOK
<1> QED
  BY <1>1, EmptySeq

LEMMA BootLength ==
  /\ Prompt = 12 /\ Desktop = 13 /\ Panicked = 14
  /\ \A k : k \in 1..Panicked <=> k \in 1..14
  /\ \A k \in 1..14 : k < Prompt <=> k \in 1..11
<1>1. Len(BootSteps) = 11
  BY DEF BootSteps
<1>2. Prompt = 12 /\ Desktop = 13 /\ Panicked = 14
  BY <1>1 DEF Prompt, Desktop, Panicked
<1>3. \A k : k \in 1..Panicked <=> k \in 1..14
  BY <1>2, Zenon
<1>4. \A k \in 1..14 : k < 12 <=> k \in 1..11
  OBVIOUS
<1>5. \A k \in 1..14 : k < Prompt <=> k \in 1..11
  BY <1>2, <1>4, Zenon
<1> QED
  BY <1>2, <1>3, <1>5, Zenon

\* What each step of the boot sequence does.
LEMMA BootTable ==
  \A k \in 1..11 :
    /\ BootSteps[k][2] \in Lines
    /\ BootSteps[k][1] = "register" =>
         /\ k \in {1, 4, 6, 9}
         /\ k = 1 => BootSteps[k][2] = 0
         /\ k = 4 => BootSteps[k][2] = 6
         /\ k = 6 => BootSteps[k][2] = 1
         /\ k = 9 => BootSteps[k][2] = 12
    /\ BootSteps[k][1] = "unmask" =>
         /\ k \in {2, 5, 7, 10}
         /\ k = 2 => BootSteps[k][2] = 0
         /\ k = 5 => BootSteps[k][2] = 6
         /\ k = 7 => BootSteps[k][2] = 1
         /\ k = 10 => BootSteps[k][2] = 12
    /\ BootSteps[k][1] = "probe" => k = 3
    /\ BootSteps[k][1] = "handshake" => k = 8
    /\ BootSteps[k][1] = "sti" => k = 11
<1>1. \A k \in 1..11 : k \in {1, 2, 3, 4, 5, 6, 7, 8, 9, 10, 11}
  OBVIOUS
<1>2. /\ BootSteps[1] = <<"register", 0>> /\ BootSteps[2] = <<"unmask", 0>>
      /\ BootSteps[3] = <<"probe", 0>>
      /\ BootSteps[4] = <<"register", 6>> /\ BootSteps[5] = <<"unmask", 6>>
      /\ BootSteps[6] = <<"register", 1>> /\ BootSteps[7] = <<"unmask", 1>>
      /\ BootSteps[8] = <<"handshake", 12>>
      /\ BootSteps[9] = <<"register", 12>> /\ BootSteps[10] = <<"unmask", 12>>
      /\ BootSteps[11] = <<"sti", 0>>
  BY DEF BootSteps
<1> QED
  BY <1>1, <1>2 DEF Lines

LEMMA InitSound == Init => Sound
<1> SUFFICES ASSUME Init PROVE Sound
  OBVIOUS
<1>1. Len(stack) = 0 /\ stack \in Seq(Activations) /\ DOMAIN stack = 1..0
  BY DEF Init
<1>2. TypeOK
  <2>1. step \in 1..Panicked
    BY BootLength DEF Init
  <2>2. sectors \in 0..FloppySectors /\ lost \in 0..MaxLost /\ burst \in 0..MaxBurst
    BY InterruptsAssumption DEF Init
  <2>3. iflag \in BOOLEAN /\ received \in BOOLEAN
    BY Zenon DEF Init
  <2>4. cycle \in 0..2 /\ sent \in 0..2 /\ irr \subseteq Lines /\ isr \subseteq Lines \cup {2}
    BY DEF Init
  <2>5. imr \subseteq Lines /\ gates \subseteq Lines /\ fdc \in {"idle", "command", "waiting"}
    BY DEF Init
  <2> QED
    BY <1>1, <2>1, <2>2, <2>3, <2>4, <2>5, Zenon DEF TypeOK
<1>3. GatesFirst /\ FloppyAccounted
  BY DEF Init, GatesFirst, FloppyAccounted
<1>4. Service
  BY <1>1 DEF Init, Service, OnlyOpenInterrupted, Serving, NestingByPriority, ServiceOwned,
              MouseInStep
<1> QED
  BY <1>2, <1>3, <1>4 DEF Sound

\* A step that changes neither the stack nor what is in service, nor the mouse's
\* position, keeps the service sound.
LEMMA ServiceKept ==
  ASSUME Sound, UNCHANGED <<stack, isr>>, iflag' = iflag \/ stack = <<>>,
         UNCHANGED <<cycle, sent, lost>> \/ lost' > 0
  PROVE  Service'
<1>1. Service /\ TypeOK
  BY DEF Sound
<1>2. OnlyOpenInterrupted' /\ Serving'
  BY <1>1, StackIsSequence DEF Service, OnlyOpenInterrupted, Serving, Unretired
<1>3. NestingByPriority' /\ ServiceOwned'
  BY <1>1 DEF Service, NestingByPriority, ServiceOwned, Unretired
<1>4. MouseInStep'
  BY <1>1 DEF Service, MouseInStep, Unretired
<1> QED
  BY <1>2, <1>3, <1>4 DEF Service

LEMMA BootKeepsSound ==
  ASSUME Sound, Register \/ Unmask \/ Probe \/ Handshake \/ EnableInterrupts
  PROVE  Sound'
<1> USE DEF BootOp, MainRuns, Booting, BootLine, Advance
<1>1. step \in 1..11 /\ stack = <<>>
  BY BootLength DEF Register, Unmask, Probe, Handshake, EnableInterrupts, Sound, TypeOK
<1>2. UNCHANGED <<irr, isr, stack, cycle, sent, lost, fdc, sectors, received, burst>>
  BY DEF Register, Unmask, Probe, Handshake, EnableInterrupts, pic, mouse, floppy
<1>3. Service' /\ FloppyAccounted'
  BY <1>1, <1>2, ServiceKept DEF Sound, FloppyAccounted, FloppyUsed
<1>4. CASE Register
  <2>1. gates' \subseteq Lines /\ UNCHANGED <<iflag, imr>> /\ step' \in 1..Panicked
    BY <1>1, <1>4, BootTable, BootLength DEF Register, Sound, TypeOK, pic
  <2>2. GatesFirst'
    BY <1>1, <1>4, BootTable DEF Register, Sound, GatesFirst, pic
  <2> QED
    BY <1>2, <1>3, <2>1, <2>2 DEF Sound, TypeOK
<1>5. CASE Unmask
  <2>1. imr' \subseteq Lines /\ UNCHANGED <<iflag, gates>> /\ step' \in 1..Panicked
    BY <1>1, <1>5, BootLength DEF Unmask, Sound, TypeOK
  <2>2. GatesFirst'
    BY <1>1, <1>5, BootTable DEF Unmask, Sound, GatesFirst
  <2> QED
    BY <1>2, <1>3, <2>1, <2>2 DEF Sound, TypeOK
<1>6. CASE Probe \/ Handshake \/ EnableInterrupts
  <2>1. iflag' \in BOOLEAN
    BY <1>6, Zenon DEF Probe, Handshake, EnableInterrupts, Sound, TypeOK
  <2>2. UNCHANGED <<imr, gates>>
    BY <1>6 DEF Probe, Handshake, EnableInterrupts, pic
  <2>3. Probe => step' = 4
    BY <1>1, BootTable DEF Probe
  <2>4. EnableInterrupts => step' = 12
    BY <1>1, BootTable DEF EnableInterrupts
  <2>5. Handshake => step' \in {9, 11}
    BY <1>1, BootTable DEF Handshake
  <2>6. step' \in 1..13 /\ step' \notin {2, 5, 7, 10}
    BY <1>6, <2>3, <2>4, <2>5
  <2>7. step' \in 1..Panicked
    BY <2>6, BootLength
  <2>8. GatesFirst'
    BY <2>2, <2>6 DEF Sound, GatesFirst
  <2> QED
    BY <1>2, <1>3, <2>1, <2>2, <2>7, <2>8 DEF Sound, TypeOK
<1> QED
  BY <1>4, <1>5, <1>6

LEMMA OutsideKeepsSound ==
  ASSUME Sound,
         \/ EnterDesktop \/ CrashMe \/ FloppyCommand \/ FloppyAnswers \/ FloppySectorRead
         \/ Lull \/ LoseByte \/ \E n \in Lines : Raise(n)
  PROVE  Sound'
<1> USE DEF MainRuns, pic, mouse, floppy
<1>1. CASE EnterDesktop \/ CrashMe
  <2>1. stack = <<>> /\ step' \in {Desktop, Panicked}
        /\ UNCHANGED <<irr, isr, imr, gates, stack, cycle, sent, lost, fdc, sectors, received, burst>>
    BY <1>1 DEF EnterDesktop, CrashMe
  <2>2. iflag' \in BOOLEAN
    BY <1>1, Zenon DEF EnterDesktop, CrashMe, Sound, TypeOK
  <2>3. step' \in 1..Panicked /\ step' \notin {2, 5, 7, 10}
    BY <2>1, BootLength
  <2>4. Service'
    BY <2>1, ServiceKept
  <2> QED
    BY <2>1, <2>2, <2>3, <2>4 DEF Sound, TypeOK, GatesFirst, FloppyAccounted, FloppyUsed
<1>2. CASE FloppyCommand
  BY <1>2, ServiceKept DEF FloppyCommand, Sound, TypeOK, GatesFirst, FloppyAccounted, FloppyUsed
<1>3. CASE FloppyAnswers
  BY <1>3, ServiceKept DEF FloppyAnswers, Sound, TypeOK, GatesFirst, FloppyAccounted, FloppyUsed,
                           Lines
<1>4. CASE FloppySectorRead
  BY <1>4, ServiceKept, InterruptsAssumption
     DEF FloppySectorRead, Sound, TypeOK, GatesFirst, FloppyAccounted, FloppyUsed
<1>5. CASE Lull
  BY <1>5, ServiceKept, InterruptsAssumption
     DEF Lull, Sound, TypeOK, GatesFirst, FloppyAccounted, FloppyUsed
<1>6. CASE LoseByte
  <2>1. lost' \in 0..MaxLost /\ lost' > 0 /\ sent' \in 0..2
    BY <1>6, InterruptsAssumption DEF LoseByte, Sound, TypeOK
  <2> QED
    BY <1>6, <2>1, ServiceKept DEF LoseByte, Sound, TypeOK, GatesFirst, FloppyAccounted,
                                   FloppyUsed
<1>7. ASSUME NEW n \in Lines, Raise(n)
      PROVE  Sound'
  <2>1. burst' \in 0..MaxBurst
    BY <1>7, InterruptsAssumption DEF Raise, Sound, TypeOK
  <2>2. /\ irr' \subseteq Lines /\ (6 \in irr' => 6 \in irr)
        /\ UNCHANGED <<iflag, isr, imr, gates, stack, step, cycle, sent, lost, fdc, sectors, received>>
    BY <1>7 DEF Raise, Sound, TypeOK, Lines
  <2>3. Service'
    BY <2>2, ServiceKept
  <2> QED
    BY <2>1, <2>2, <2>3 DEF Sound, TypeOK, GatesFirst, FloppyAccounted, FloppyUsed
<1> QED
  BY <1>1, <1>2, <1>3, <1>4, <1>5, <1>6, <1>7
-----------------------------------------------------------------------------
(* A line is delivered *)

\* The line the CPU takes has its gate, and only "systime" was running.
LEMMA DeliveredWell ==
  ASSUME Sound, NEW n \in Lines, Dispatch(n), NEW job \in Jobs(n)
  PROVE  /\ Activation(n, "body", job) \in Activations
         /\ OwnJob(Activation(n, "body", job))
         /\ \A i \in 1..Len(stack) : Open(stack[i])
<1>1. TypeOK /\ GatesFirst /\ OnlyOpenInterrupted
  BY DEF Sound, Service
<1>2. n \in gates
  BY <1>1 DEF Dispatch, Presented, Pending, InService, GatesFirst
<1>3. \A i \in 1..Len(stack) : Open(stack[i])
  <2>1. iflag
    BY DEF Dispatch
  <2>2. Len(stack) \in Nat /\ (stack = <<>> => Len(stack) = 0)
    BY <1>1, StackIsSequence
  <2>3. \A m \in Nat : \A k \in 1..m : k = m \/ k < m
    OBVIOUS
  <2>4. stack # <<>> => Open(stack[Len(stack)])
    BY <1>1, <2>1 DEF OnlyOpenInterrupted
  <2>5. \A i \in 1..Len(stack) : i = Len(stack) \/ i < Len(stack)
    BY <2>2, <2>3, Zenon
  <2>6. stack = <<>> => 1..Len(stack) = {}
    BY <2>2
  <2> QED
    BY <1>1, <2>4, <2>5, <2>6, Zenon DEF OnlyOpenInterrupted
<1> DEFINE a == Activation(n, "body", job)
<1>4. a.irq = n /\ a.at = "body" /\ a.job = job
  BY DEF Activation
<1>5. /\ n = 0 => job = "tick"
      /\ n = 1 => job \in Commands \cup {"plain"}
      /\ n = 6 => job = "floppy"
      /\ n = 12 => job = "mouse"
  BY <1>2 DEF Jobs
<1>6. OwnJob(a)
  BY <1>4, <1>5 DEF OwnJob, Lines
<1>7. job \in {"unhandled", "tick", "floppy", "mouse"} \cup Commands \cup {"plain"}
  BY <1>5 DEF Lines
<1>8. a \in Activations
  BY <1>7 DEF Activation, Activations
<1> QED
  BY <1>3, <1>6, <1>8

LEMMA DispatchKeepsSound ==
  ASSUME Sound, NEW n \in Lines, Dispatch(n)
  PROVE  Sound'
<1>1. TypeOK /\ GatesFirst /\ FloppyAccounted /\ Service
  BY DEF Sound
<1>2. PICK job \in Jobs(n) : stack' = Append(stack, Activation(n, "body", job))
  BY DEF Dispatch
<1> DEFINE a == Activation(n, "body", job)
<1>3. /\ a \in Activations /\ OwnJob(a) /\ a.irq = n /\ a.at = "body"
      /\ \A i \in 1..Len(stack) : Open(stack[i])
  BY <1>2, DeliveredWell DEF Activation
<1>4. stack \in Seq(Activations) /\ Len(stack) \in Nat /\ DOMAIN stack = 1..Len(stack)
  BY <1>1, StackIsSequence
<1>5. /\ stack' \in Seq(Activations) /\ DOMAIN stack' = 1..Len(stack')
      /\ Len(stack') = Len(stack) + 1
      /\ \A i \in 1..Len(stack) : stack'[i] = stack[i]
      /\ stack'[Len(stack) + 1] = a
  <2>1. /\ Append(stack, a) \in Seq(Activations)
        /\ Len(Append(stack, a)) = Len(stack) + 1
        /\ \A i \in 1..Len(stack) : Append(stack, a)[i] = stack[i]
        /\ Append(stack, a)[Len(stack) + 1] = a
    BY <1>3, <1>4, Pushed
  <2>2. DOMAIN Append(stack, a) = 1..Len(Append(stack, a))
    BY <2>1
  <2> QED
    BY <1>2, <2>1, <2>2, Zenon
<1> HIDE DEF a
<1>6. /\ isr' = isr \cup InService(n) /\ iflag' = FALSE /\ irr' = irr \ {n} /\ n \in irr
      /\ ~Blocked(n)
      /\ UNCHANGED <<imr, gates, step, cycle, sent, lost, fdc, sectors, received, burst>>
  BY DEF Dispatch, Presented, Pending, mouse, floppy
<1>7. \A i \in 1..Len(stack') : i \in 1..Len(stack) \/ i = Len(stack')
  BY <1>4, <1>5
<1>8. OnlyOpenInterrupted'
  <2>1. \A i \in 1..Len(stack') : i < Len(stack') => i \in 1..Len(stack)
    BY <1>4, <1>5
  <2>2. \A i \in 1..Len(stack') : OwnJob(stack'[i])
    BY <1>1, <1>3, <1>5, <1>7, Zenon DEF Service, OnlyOpenInterrupted
  <2>3. \A i \in 1..Len(stack') : i < Len(stack') => Open(stack'[i])
    BY <1>3, <1>5, <2>1, Zenon
  <2> QED
    BY <1>6, <2>2, <2>3 DEF OnlyOpenInterrupted, OwnJob, Open
<1>9. Serving'
  <2> SUFFICES ASSUME NEW i \in 1..Len(stack'), Unretired(i)'
               PROVE  InService(stack'[i].irq) \subseteq isr'
    BY DEF Serving, InService, MasterLine
  <2>1. CASE i \in 1..Len(stack)
    <3>1. Unretired(i) /\ stack'[i] = stack[i]
      BY <1>5, <2>1 DEF Unretired
    <3>2. InService(stack[i].irq) \subseteq isr
      BY <1>1, <2>1, <3>1 DEF Service, Serving
    <3> QED
      BY <1>6, <3>1, <3>2
  <2>2. CASE i = Len(stack')
    BY <1>3, <1>5, <1>6, <2>2
  <2> QED
    BY <1>7, <2>1, <2>2
<1>10. \A i \in 1..Len(stack) : Unretired(i) => stack[i].irq = 1 /\ n = 0
  <2> SUFFICES ASSUME NEW i \in 1..Len(stack), Unretired(i)
               PROVE  stack[i].irq = 1 /\ n = 0
    OBVIOUS
  <2>1. stack[i].irq = 1
    BY <1>3 DEF Open
  <2>2. 1 \in isr
    BY <1>1, <2>1 DEF Service, Serving, InService
  <2>3. ~(1 <= MasterLine(n))
    BY <1>6, <2>2 DEF Blocked
  <2>4. n = 0
    BY <2>3 DEF MasterLine, Lines
  <2> QED
    BY <2>1, <2>4
<1>11. NestingByPriority'
  <2> SUFFICES ASSUME NEW i \in 1..Len(stack'), NEW j \in 1..Len(stack'), i < j,
                      Unretired(i)', Unretired(j)'
               PROVE  MasterLine(stack'[j].irq) < MasterLine(stack'[i].irq)
    BY <1>5 DEF NestingByPriority, MasterLine
  <2>1. i \in 1..Len(stack) /\ stack'[i] = stack[i] /\ Unretired(i)
    BY <1>4, <1>5 DEF Unretired
  <2>2. stack[i].irq = 1 /\ n = 0
    BY <1>10, <2>1
  <2>3. CASE j \in 1..Len(stack)
    <3>1. Unretired(j) /\ stack'[j] = stack[j]
      BY <1>5, <2>3 DEF Unretired
    <3>2. MasterLine(stack[j].irq) < MasterLine(stack[i].irq)
      BY <1>1, <1>4, <2>1, <2>3, <3>1 DEF Service, NestingByPriority
    <3> QED
      BY <2>1, <3>1, <3>2
  <2>4. CASE j = Len(stack')
    <3>1. stack'[j].irq = 0 /\ stack'[i].irq = 1
      BY <1>3, <1>5, <2>1, <2>2, <2>4
    <3> QED
      BY <3>1 DEF MasterLine
  <2> QED
    BY <1>7, <2>3, <2>4
<1>12. \A i \in 1..Len(stack) : i \in 1..Len(stack') /\ (Unretired(i) => Unretired(i)')
  BY <1>4, <1>5 DEF Unretired
<1>13. \E k \in 1..Len(stack') : stack'[k].irq = n /\ Unretired(k)'
  <2>1. Len(stack) + 1 \in 1..Len(stack')
    BY <1>4, <1>5
  <2>2. stack'[Len(stack) + 1].irq = n /\ stack'[Len(stack) + 1].at = "body"
    BY <1>3, <1>5
  <2> QED
    BY <2>1, <2>2 DEF Unretired
<1>14. ServiceOwned'
  <2> SUFFICES ASSUME NEW m \in isr' \cap {0, 1}
               PROVE  \E i \in 1..Len(stack') : stack'[i].irq = m /\ Unretired(i)'
    BY <1>5 DEF ServiceOwned
  <2>1. CASE m \in isr
    <3>1. PICK i \in 1..Len(stack) : stack[i].irq = m /\ Unretired(i)
      BY <1>1, <1>4, <2>1 DEF Service, ServiceOwned
    <3> QED
      BY <1>5, <1>12, <3>1
  <2>2. CASE m \in InService(n)
    <3>1. m = n
      BY <2>2 DEF InService, MasterLine, Lines
    <3> QED
      BY <1>13, <3>1
  <2> QED
    BY <1>6, <2>1, <2>2
<1>15. MouseInStep'
  <2> SUFFICES ASSUME lost = 0, isr' \cap {2, 12} # {}
               PROVE  \E i \in 1..Len(stack') : stack'[i].irq = 12 /\ Unretired(i)'
    BY <1>1, <1>6 DEF Service, MouseInStep
  <2>1. CASE isr \cap {2, 12} # {}
    <3>1. PICK i \in 1..Len(stack) : stack[i].irq = 12 /\ Unretired(i)
      BY <1>1, <2>1 DEF Service, MouseInStep
    <3> QED
      BY <1>5, <1>12, <3>1
  <2>2. CASE isr \cap {2, 12} = {}
    <3>1. n = 12
      BY <1>6, <2>2 DEF InService, MasterLine, Lines
    <3> QED
      BY <1>13, <3>1
  <2> QED
    BY <2>1, <2>2
<1>16. TypeOK'
  <2>1. isr' \subseteq Lines \cup {2} /\ irr' \subseteq Lines
    BY <1>1, <1>6 DEF TypeOK, InService, MasterLine, Lines
  <2> QED
    BY <1>1, <1>5, <1>6, <2>1 DEF TypeOK
<1>17. GatesFirst' /\ FloppyAccounted'
  <2>1. 6 \in irr' \cup isr' => 6 \in irr \cup isr
    BY <1>6 DEF InService, MasterLine, Lines
  <2> QED
    BY <1>1, <1>6, <2>1 DEF GatesFirst, FloppyAccounted, FloppyUsed
<1> QED
  BY <1>8, <1>9, <1>11, <1>14, <1>15, <1>16, <1>17 DEF Sound, Service
-----------------------------------------------------------------------------
(* The running handler goes on, sends its EOI and returns *)

\* Going on to its EOI or its iretd the handler on top keeps its line in service
\* until it retires just that line.
LEMMA GoingOnKeepsService ==
  ASSUME Sound, stack # <<>>, NEW at \in {"eoi", "ret"}, Continue(at),
         NEW top, top = stack[Len(stack)],
         Unretired(Len(stack)),
         top.irq = 6 => at = "ret",
         iflag' => top.irq = 1 /\ top.job = "systime",
         \/ isr' = isr /\ (at = "ret" => top.irq \in {6, 12})
         \/ isr' = isr \ InService(top.irq) /\ at = "ret"
  PROVE  OnlyOpenInterrupted' /\ Serving' /\ NestingByPriority' /\ ServiceOwned'
         /\ stack' \in Seq(Activations)
<1>1. TypeOK /\ Service
  BY DEF Sound
<1> DEFINE n == Len(stack)
<1>2. /\ stack \in Seq(Activations) /\ n \in Nat /\ n \in 1..n /\ DOMAIN stack = 1..n
      /\ top \in Activations
  <2>1. stack \in Seq(Activations) /\ n \in Nat /\ n \in 1..n /\ DOMAIN stack = 1..n
    BY <1>1, StackIsSequence
  <2> QED
    BY <2>1
<1>3. /\ stack' \in Seq(Activations) /\ Len(stack') = n /\ DOMAIN stack' = 1..n
      /\ \A i \in 1..n : i < n => stack'[i] = stack[i]
      /\ stack'[n].irq = top.irq /\ stack'[n].job = top.job /\ stack'[n].at = at
  <2>1. stack' = [stack EXCEPT ![Len(stack)].at = at]
    BY DEF Continue
  <2>2. stack \in Seq(Activations) /\ stack # <<>> /\ at \in {"body", "eoi", "ret"}
    BY <1>2
  <2> HIDE DEF n
  <2>3. /\ stack' \in Seq(Activations) /\ Len(stack') = Len(stack)
        /\ \A i \in 1..Len(stack) : i < Len(stack) => stack'[i] = stack[i]
        /\ stack'[Len(stack)].irq = stack[Len(stack)].irq
        /\ stack'[Len(stack)].job = stack[Len(stack)].job
        /\ stack'[Len(stack)].at = at
    BY <2>1, <2>2, Continued
  <2> QED
    BY <1>2, <2>3 DEF n
<1> HIDE DEF n
<1>4. \A i \in 1..n : i = n \/ i < n
  BY <1>2
<1>5. \A i \in 1..n : i < n => /\ stack[i].irq = 1 /\ Open(stack[i]) /\ OwnJob(stack[i])
                              /\ (Unretired(i)' <=> Unretired(i))
  BY <1>1, <1>3 DEF Service, OnlyOpenInterrupted, Open, Unretired, n
<1>6. ASSUME NEW i \in 1..n, i < n, Unretired(i)
      PROVE  top.irq = 0 /\ 1 \in isr
  <2>1. MasterLine(top.irq) < MasterLine(stack[i].irq) /\ stack[i].irq = 1
    BY <1>1, <1>2, <1>5, <1>6 DEF Service, NestingByPriority, n
  <2>2. top.irq = 0
    BY <1>2, <2>1 DEF MasterLine, Activations, Lines
  <2>3. InService(stack[i].irq) \subseteq isr
    BY <1>1, <1>6 DEF Service, Serving, n
  <2> QED
    BY <2>1, <2>2, <2>3 DEF InService
<1>7. OwnJob(top) /\ InService(top.irq) \subseteq isr
  BY <1>1, <1>2 DEF Service, OnlyOpenInterrupted, Serving, n
<1>8. OnlyOpenInterrupted'
  <2>1. \A i \in 1..n : OwnJob(stack'[i])
    <3>1. OwnJob(stack'[n])
      BY <1>3, <1>7 DEF OwnJob
    <3>2. \A i \in 1..n : i < n => OwnJob(stack'[i])
      BY <1>3, <1>5
    <3> QED
      BY <1>4, <3>1, <3>2, Zenon
  <2>2. \A i \in 1..n : i < n => Open(stack'[i])
    BY <1>3, <1>5
  <2>3. iflag' => Open(stack'[n])
    BY <1>3 DEF Open
  <2> QED
    BY <1>3, <2>1, <2>2, <2>3, Zenon DEF OnlyOpenInterrupted, OwnJob, Open
<1>9. Serving'
  <2> SUFFICES ASSUME NEW i \in 1..n, Unretired(i)'
               PROVE  InService(stack'[i].irq) \subseteq isr'
    BY <1>3 DEF Serving, InService, MasterLine
  <2>1. CASE i < n
    <3>1. stack'[i] = stack[i] /\ stack[i].irq = 1 /\ top.irq = 0 /\ 1 \in isr
      BY <1>3, <1>5, <1>6, <2>1
    <3>2. 1 \in isr'
      BY <3>1 DEF InService, MasterLine
    <3> QED
      BY <3>1, <3>2 DEF InService, MasterLine
  <2>2. CASE i = n
    <3>1. at = "eoi"
      BY <1>3, <2>2 DEF Unretired
    <3> QED
      BY <1>3, <1>7, <2>2, <3>1
  <2> QED
    BY <1>4, <2>1, <2>2
<1>10. NestingByPriority'
  <2> SUFFICES ASSUME NEW i \in 1..n, NEW j \in 1..n, i < j, Unretired(i)', Unretired(j)'
               PROVE  MasterLine(stack'[j].irq) < MasterLine(stack'[i].irq)
    BY <1>3 DEF NestingByPriority, MasterLine
  <2>1. i < n /\ stack'[i] = stack[i] /\ stack[i].irq = 1 /\ Unretired(i)
    BY <1>2, <1>3, <1>5
  <2>2. top.irq = 0
    BY <1>6, <2>1
  <2>3. CASE j < n
    <3>1. Unretired(j) /\ stack'[j] = stack[j]
      BY <1>3, <1>5, <2>3
    <3> QED
      BY <1>1, <1>2, <2>1, <3>1 DEF Service, NestingByPriority, n
  <2>4. CASE j = n
    BY <1>3, <2>1, <2>2, <2>4 DEF MasterLine
  <2> QED
    BY <1>4, <2>3, <2>4
<1>11. ServiceOwned'
  <2> SUFFICES ASSUME NEW m \in isr' \cap {0, 1}
               PROVE  \E i \in 1..n : stack'[i].irq = m /\ Unretired(i)'
    BY <1>3 DEF ServiceOwned
  <2>1. m \in isr
    OBVIOUS
  <2>2. PICK i \in 1..n : stack[i].irq = m /\ Unretired(i)
    BY <1>1, <1>2, <2>1 DEF Service, ServiceOwned, n
  <2>3. CASE i < n
    BY <1>3, <1>5, <2>2, <2>3
  <2>4. CASE i = n
    <3>1. m = top.irq
      BY <2>2, <2>4 DEF n
    <3>2. at = "eoi"
      BY <3>1 DEF InService
    <3> QED
      BY <1>3, <2>4, <3>1, <3>2 DEF Unretired
  <2> QED
    BY <1>4, <2>2, <2>3, <2>4
<1> QED
  BY <1>3, <1>8, <1>9, <1>10, <1>11

\* A handler that goes on changes neither gates nor masks nor the floppy's books.
LEMMA GoingOnKeepsSound ==
  ASSUME Sound, OnlyOpenInterrupted' /\ Serving' /\ NestingByPriority' /\ ServiceOwned',
         stack' \in Seq(Activations), MouseInStep',
         isr' \subseteq isr, iflag' \in BOOLEAN, received' \in BOOLEAN,
         cycle' \in 0..2, sent' \in 0..2,
         UNCHANGED <<irr, imr, gates, step, lost, fdc, sectors, burst>>
  PROVE  Sound'
<1>1. TypeOK'
  BY DEF Sound, TypeOK
<1>2. GatesFirst' /\ FloppyAccounted'
  BY DEF Sound, GatesFirst, FloppyAccounted, FloppyUsed
<1> QED
  BY <1>1, <1>2 DEF Sound, Service

\* What the running handler is.
LEMMA RunningTop ==
  ASSUME Sound, stack # <<>>
  PROVE  /\ Top \in Activations /\ OwnJob(Top) /\ (iflag => Open(Top))
         /\ Len(stack) \in 1..Len(stack)
         /\ \A i \in 1..Len(stack) : i = Len(stack) \/ (i < Len(stack) /\ stack[i].irq = 1)
<1>1. TypeOK /\ OnlyOpenInterrupted
  BY DEF Sound, Service
<1>2. /\ stack \in Seq(Activations) /\ Len(stack) \in Nat /\ Len(stack) \in 1..Len(stack)
  BY <1>1, StackIsSequence
<1>3. Top \in Activations
  BY <1>2 DEF Top
<1>4. OwnJob(Top) /\ (iflag => Open(Top))
  BY <1>1, <1>2 DEF OnlyOpenInterrupted, Top
<1>5. \A i \in 1..Len(stack) : i = Len(stack) \/ i < Len(stack)
  BY <1>2
<1>6. \A i \in 1..Len(stack) : i < Len(stack) => stack[i].irq = 1
  BY <1>1 DEF OnlyOpenInterrupted, Open
<1> QED
  BY <1>2, <1>3, <1>4, <1>5, <1>6, Zenon

LEMMA WorkKeepsSound ==
  ASSUME Sound, Work
  PROVE  Sound'
<1>1. stack # <<>> /\ Top.at = "body" /\ Top.job \notin {"mouse"} \cup Endless
  BY DEF Work, Running
<1>2. /\ Top \in Activations /\ OwnJob(Top) /\ ~iflag
      /\ \A i \in 1..Len(stack) : i = Len(stack) \/ (i < Len(stack) /\ stack[i].irq = 1)
      /\ Len(stack) \in 1..Len(stack)
  BY <1>1, RunningTop DEF Open
<1>3. \/ Top.irq \in {0, 1} /\ Top.job \in {"tick", "plain", "systime"}
      \/ Top.irq = 6 /\ Top.job = "floppy"
  BY <1>1, <1>2, InterruptsAssumption DEF OwnJob, Endless
<1>4. /\ Top.irq = 6 => AfterBody(Top.job) = "ret"
      /\ Top.irq # 6 => AfterBody(Top.job) = "eoi"
  BY <1>3 DEF AfterBody
<1>5. iflag' => Top.irq = 1 /\ Top.job = "systime"
  BY <1>2, <1>3 DEF Work, OwnJob
<1>6. UNCHANGED <<isr, irr, imr, gates, step, cycle, sent, lost, fdc, sectors, burst>>
  BY DEF Work, pic, mouse
<1>7. /\ OnlyOpenInterrupted' /\ Serving' /\ NestingByPriority' /\ ServiceOwned'
      /\ stack' \in Seq(Activations)
  <2>1. Continue(AfterBody(Top.job)) /\ AfterBody(Top.job) \in {"eoi", "ret"}
    BY <1>3, <1>4 DEF Work
  <2>2. Unretired(Len(stack))
    BY <1>1 DEF Unretired, Top
  <2>3. AfterBody(Top.job) = "ret" => Top.irq \in {6, 12}
    BY <1>4
  <2> QED
    BY <1>1, <1>4, <1>5, <1>6, <2>1, <2>2, <2>3, GoingOnKeepsService, Zenon DEF Top
<1>8. MouseInStep'
  <2> SUFFICES ASSUME lost = 0, isr \cap {2, 12} # {}
               PROVE  FALSE
    BY <1>6 DEF Sound, Service, MouseInStep
  <2>1. PICK i \in 1..Len(stack) : stack[i].irq = 12
    BY DEF Sound, Service, MouseInStep
  <2> QED
    BY <1>2, <1>3, <2>1 DEF Top
<1>9. iflag' \in BOOLEAN /\ received' \in BOOLEAN
  BY Zenon DEF Work, Sound, TypeOK
<1> QED
  BY <1>6, <1>7, <1>8, <1>9, GoingOnKeepsSound DEF Sound, TypeOK

LEMMA MouseByteKeepsSound ==
  ASSUME Sound, MouseByte
  PROVE  Sound'
<1>1. stack # <<>> /\ Top.at = "body" /\ Top.job = "mouse"
  BY DEF MouseByte, Running
<1>2. /\ Top \in Activations /\ OwnJob(Top) /\ ~iflag
      /\ Len(stack) \in 1..Len(stack)
      /\ \A i \in 1..Len(stack) : i = Len(stack) \/ (i < Len(stack) /\ stack[i].irq = 1)
  BY <1>1, RunningTop DEF Open
<1>3. Top.irq = 12
  BY <1>1, <1>2, InterruptsAssumption DEF OwnJob, Endless
<1>4. UNCHANGED <<iflag, isr, irr, imr, gates, step, lost, fdc, sectors, received, burst>>
  BY DEF MouseByte, pic, floppy
<1>5. cycle \in 0..2 /\ sent \in 0..2
  BY DEF Sound, TypeOK
<1>6. /\ sent' = (sent + 1) % 3
      /\ \/ cycle = 0 /\ sent # 0 /\ Continue("ret") /\ cycle' = cycle
         \/ cycle' = (cycle + 1) % 3 /\ Continue("eoi")
  BY DEF MouseByte, CycleAfter
<1>7. PICK at \in {"eoi", "ret"} : Continue(at) /\ (at = "ret" => cycle # sent)
  BY <1>5, <1>6
<1>8. Unretired(Len(stack))
  BY <1>1 DEF Unretired, Top
<1>9. /\ OnlyOpenInterrupted' /\ Serving' /\ NestingByPriority' /\ ServiceOwned'
      /\ stack' \in Seq(Activations)
  <2>1. Top.irq # 6 /\ Top.irq \in {6, 12} /\ ~iflag'
    BY <1>2, <1>3, <1>4
  <2> QED
    BY <1>1, <1>4, <1>7, <1>8, <2>1, GoingOnKeepsService, Zenon DEF Top
<1>10. cycle' \in 0..2 /\ sent' \in 0..2
  BY <1>5, <1>6
<1>11. MouseInStep'
  <2> SUFFICES ASSUME lost = 0
               PROVE  /\ cycle' = sent'
                      /\ \E i \in 1..Len(stack') : stack'[i].irq = 12 /\ Unretired(i)'
    BY <1>4 DEF MouseInStep
  <2>1. cycle = sent
    BY DEF Sound, Service, MouseInStep
  <2>2. cycle' = sent' /\ Continue("eoi")
    BY <1>5, <1>6, <2>1
  <2>3. stack \in Seq(Activations) /\ stack' = [stack EXCEPT ![Len(stack)].at = "eoi"]
    BY <2>2 DEF Continue, Sound, TypeOK
  <2>4. /\ Len(stack') = Len(stack)
        /\ stack'[Len(stack)].irq = stack[Len(stack)].irq
        /\ stack'[Len(stack)].at = "eoi"
    BY <1>1, <2>3, Continued
  <2>5. stack'[Len(stack)].irq = 12
    BY <1>3, <2>4 DEF Top
  <2> QED
    BY <1>2, <2>2, <2>4, <2>5 DEF Unretired
<1> QED
  BY <1>4, <1>9, <1>10, <1>11, GoingOnKeepsSound DEF Sound, TypeOK

LEMMA SendEoiKeepsSound ==
  ASSUME Sound, SendEoi
  PROVE  Sound'
<1>1. stack # <<>> /\ Top.at = "eoi"
  BY DEF SendEoi, Running
<1>2. /\ Top \in Activations /\ OwnJob(Top) /\ (iflag => Open(Top))
      /\ Len(stack) \in 1..Len(stack)
      /\ \A i \in 1..Len(stack) : i = Len(stack) \/ (i < Len(stack) /\ stack[i].irq = 1)
  BY <1>1, RunningTop
<1>3. isr' = isr \ InService(Top.irq)
  BY <1>1, EoiRetiresTop DEF SendEoi, Top
<1>4. /\ Continue("ret")
      /\ UNCHANGED <<iflag, irr, imr, gates, step, cycle, sent, lost, fdc, sectors, received, burst>>
  BY DEF SendEoi, mouse, floppy
<1>5. Unretired(Len(stack))
  BY <1>1 DEF Unretired, Top
<1>6. /\ OnlyOpenInterrupted' /\ Serving' /\ NestingByPriority' /\ ServiceOwned'
      /\ stack' \in Seq(Activations)
  <2>1. iflag' => Top.irq = 1 /\ Top.job = "systime"
    BY <1>2, <1>4 DEF Open
  <2> QED
    BY <1>1, <1>3, <1>4, <1>5, <2>1, GoingOnKeepsService, Zenon DEF Top
<1>7. MouseInStep'
  <2> SUFFICES ASSUME lost = 0, isr' \cap {2, 12} # {}
               PROVE  FALSE
    BY <1>4 DEF Sound, Service, MouseInStep
  <2>1. isr \cap {2, 12} # {}
    BY <1>3
  <2>2. PICK i \in 1..Len(stack) : stack[i].irq = 12
    BY <2>1 DEF Sound, Service, MouseInStep
  <2>3. Top.irq = 12
    BY <1>2, <2>2 DEF Top
  <2> QED
    BY <1>3, <2>3 DEF InService, MasterLine
<1> QED
  BY <1>3, <1>4, <1>6, <1>7, GoingOnKeepsSound DEF Sound, TypeOK

\* The handler that returns was retired, and "systime" is what it interrupted.
LEMMA ReturnKeepsSound ==
  ASSUME Sound, Return
  PROVE  Sound'
<1>1. TypeOK /\ Service
  BY DEF Sound
<1> DEFINE n == Len(stack)
<1>2. stack # <<>> /\ stack[n].at = "ret" /\ stack' = SubSeq(stack, 1, n - 1) /\ iflag' = TRUE
  BY DEF Return, Running, Top
<1>3. stack \in Seq(Activations) /\ n \in Nat /\ n \in 1..n /\ DOMAIN stack = 1..n
  BY <1>1, <1>2, StackIsSequence
<1>4. /\ stack' \in Seq(Activations) /\ Len(stack') = n - 1 /\ DOMAIN stack' = 1..(n - 1)
      /\ \A i \in 1..(n - 1) : stack'[i] = stack[i]
  <2>1. /\ stack' \in Seq(Activations) /\ Len(stack') = n - 1
        /\ \A i \in 1..(n - 1) : stack'[i] = stack[i]
    BY <1>2, <1>3, Popped
  <2> QED
    BY <2>1
<1>5. UNCHANGED <<isr, irr, imr, gates, step, cycle, sent, lost, fdc, sectors, received, burst>>
  BY DEF Return, pic, mouse, floppy
<1>6. ~Unretired(n)
  BY <1>2 DEF Unretired
<1> HIDE DEF n
<1>7. /\ \A i \in 1..(n - 1) : i \in 1..n /\ i < n /\ (Unretired(i)' <=> Unretired(i))
      /\ \A i \in 1..n : Unretired(i) => i \in 1..(n - 1)
  <2>1. \A i \in 1..(n - 1) : i \in 1..n /\ i < n
    BY <1>3
  <2>2. \A i \in 1..n : i # n => i \in 1..(n - 1)
    BY <1>3
  <2>3. \A i \in 1..(n - 1) : Unretired(i)' <=> Unretired(i)
    BY <1>4 DEF Unretired
  <2> QED
    BY <1>6, <2>1, <2>2, <2>3, Zenon
<1>8. \A i \in 1..(n - 1) : OwnJob(stack[i]) /\ Open(stack[i])
  BY <1>1, <1>7 DEF Service, OnlyOpenInterrupted, n
<1>9. OnlyOpenInterrupted'
  <2>1. \A i \in 1..Len(stack') : OwnJob(stack'[i]) /\ Open(stack'[i])
    BY <1>4, <1>8
  <2>2. stack' # <<>> => Len(stack') \in 1..Len(stack')
    BY <1>4, EmptySeq
  <2> QED
    BY <2>1, <2>2, Zenon DEF OnlyOpenInterrupted, OwnJob, Open
<1>10. Serving'
  <2> SUFFICES ASSUME NEW i \in 1..(n - 1), Unretired(i)'
               PROVE  InService(stack'[i].irq) \subseteq isr'
    BY <1>4 DEF Serving, InService, MasterLine
  <2> QED
    BY <1>1, <1>4, <1>5, <1>7 DEF Service, Serving, n
<1>11. NestingByPriority'
  <2> SUFFICES ASSUME NEW i \in 1..(n - 1), NEW j \in 1..(n - 1), i < j,
                      Unretired(i)', Unretired(j)'
               PROVE  MasterLine(stack'[j].irq) < MasterLine(stack'[i].irq)
    BY <1>4 DEF NestingByPriority, MasterLine
  <2> QED
    BY <1>1, <1>3, <1>4, <1>7 DEF Service, NestingByPriority
<1>12. ServiceOwned'
  <2> SUFFICES ASSUME NEW m \in isr \cap {0, 1}
               PROVE  \E i \in 1..(n - 1) : stack'[i].irq = m /\ Unretired(i)'
    BY <1>4, <1>5 DEF ServiceOwned
  <2>1. PICK i \in 1..n : stack[i].irq = m /\ Unretired(i)
    BY <1>1, <1>3 DEF Service, ServiceOwned
  <2> QED
    BY <1>4, <1>7, <2>1
<1>13. MouseInStep'
  <2>1. cycle' = sent' \/ lost # 0
    BY <1>1, <1>5 DEF Service, MouseInStep
  <2>2. ASSUME lost = 0, isr \cap {2, 12} # {}
        PROVE  \E i \in 1..Len(stack') : stack'[i].irq = 12 /\ Unretired(i)'
    <3>1. PICK i \in 1..n : stack[i].irq = 12 /\ Unretired(i)
      BY <1>1, <2>2 DEF Service, MouseInStep, n
    <3> QED
      BY <1>4, <1>7, <3>1
  <2> QED
    BY <1>5, <2>1, <2>2 DEF MouseInStep
<1>14. iflag' \in BOOLEAN
  BY <1>2
<1> QED
  BY <1>1, <1>4, <1>5, <1>9, <1>10, <1>11, <1>12, <1>13, <1>14, GoingOnKeepsSound DEF TypeOK
-----------------------------------------------------------------------------
(* What holds of every behaviour *)

LEMMA NextSound == Sound /\ [Next]_vars => Sound'
<1> SUFFICES ASSUME Sound, [Next]_vars PROVE Sound'
  OBVIOUS
<1>1. CASE Main
  BY <1>1, BootKeepsSound, OutsideKeepsSound DEF Main
<1>2. CASE Lull \/ EnterDesktop \/ CrashMe \/ FloppyAnswers \/ LoseByte
  BY <1>2, OutsideKeepsSound
<1>3. ASSUME NEW n \in Lines, Raise(n) \/ Dispatch(n)
      PROVE  Sound'
  BY <1>3, OutsideKeepsSound, DispatchKeepsSound
<1>4. CASE Handler
  BY <1>4, WorkKeepsSound, MouseByteKeepsSound, SendEoiKeepsSound, ReturnKeepsSound DEF Handler
<1>5. CASE UNCHANGED vars
  <2>1. Service'
    BY <1>5, ServiceKept DEF vars
  <2> QED
    BY <1>5, <2>1 DEF vars, Sound, TypeOK, GatesFirst, FloppyAccounted, FloppyUsed
<1> QED
  BY <1>1, <1>2, <1>3, <1>4, <1>5 DEF Next

\* Sound is inductive, hence holds in every state that can be reached.
THEOREM SoundAlways == Spec => []Sound
  BY InitSound, NextSound, PTL DEF Spec

\* StackSound: the state is well typed, no line reaches a gate without its
\* driver, and a handler is interrupted only by a line of higher priority
\* (kernel.c:30-39, timer.c:63-70, idt.c:68-73).
THEOREM StackAlwaysSound == Spec => []StackSound
<1>1. ASSUME Sound
      PROVE  EveryInterruptHandled
  <2>1. DOMAIN stack = 1..Len(stack)
    BY <1>1, StackIsSequence DEF Sound
  <2>2. \A i \in 1..Len(stack) : OwnJob(stack[i])
    BY <1>1 DEF Sound, Service, OnlyOpenInterrupted
  <2>3. \A i \in 1..Len(stack) : stack[i].job # "unhandled"
    BY <2>2, InterruptsAssumption DEF OwnJob, Endless
  <2> QED
    BY <2>1, <2>3 DEF EveryInterruptHandled
<1>2. Sound => StackSound
  BY <1>1 DEF Sound, Service, StackSound
<1> QED
  BY <1>2, SoundAlways, PTL

\* ServiceOwned: the clock's and the keyboard's lines are in service only while
\* their handlers run (timer.c:44, keyboard.c:58, 84).
THEOREM ServiceAlwaysOwned == Spec => []ServiceOwned
<1>1. Sound => ServiceOwned
  BY DEF Sound, Service
<1> QED
  BY <1>1, SoundAlways, PTL

\* NothingLeftInService: with the mouse's stream intact and the floppy unused
\* main never runs behind a line in service (idt.c:68-73).
THEOREM NothingIsLeftInService == Spec => []NothingLeftInService
<1>1. ASSUME Sound, MainRuns, lost = 0, fdc = "idle", sectors = FloppySectors
      PROVE  isr = {}
  <2>1. Len(stack) = 0 /\ DOMAIN stack = 1..Len(stack)
    BY <1>1, StackIsSequence DEF Sound, MainRuns
  <2>2. 0 \notin isr /\ 1 \notin isr
    BY <1>1, <2>1 DEF Sound, Service, ServiceOwned
  <2>3. 2 \notin isr /\ 12 \notin isr
    BY <1>1, <2>1 DEF Sound, Service, MouseInStep
  <2>4. 6 \notin isr
    BY <1>1, InterruptsAssumption DEF Sound, FloppyAccounted, FloppyUsed
  <2> QED
    BY <1>1, <2>2, <2>3, <2>4 DEF Sound, TypeOK, Lines
<1>2. Sound => NothingLeftInService
  BY <1>1 DEF NothingLeftInService
<1> QED
  BY <1>2, SoundAlways, PTL

\* EoiRetiresOwnLine: the non-specific EOI a handler sends retires its own line
\* (idt.c:68-73).
THEOREM EoiAlwaysRetiresOwnLine == Spec => EoiRetiresOwnLine
<1>1. Sound /\ [Next]_vars => [SendEoi => isr \ isr' = InService(Top.irq)]_vars
  <2> SUFFICES ASSUME Sound, SendEoi
               PROVE  isr \ isr' = InService(Top.irq)
    OBVIOUS
  <2>1. stack # <<>> /\ Top.at = "eoi"
    BY DEF SendEoi, Running
  <2>2. isr' = isr \ InService(Top.irq)
    BY <2>1, EoiRetiresTop DEF SendEoi, Top
  <2>3. InService(Top.irq) \subseteq isr
    BY <2>1, RunningTop DEF Sound, Service, Serving, Unretired, Top
  <2> QED
    BY <2>2, <2>3
<1> QED
  BY <1>1, SoundAlways, PTL DEF Spec, EoiRetiresOwnLine

-----------------------------------------------------------------------------
(* The console's state: a record of its five parts. *)

Adapter(k) ==
  /\ k = [screen |-> k.screen, X |-> k.X, Y |-> k.Y, index |-> k.index, cursor |-> k.cursor]
  /\ DOMAIN k.cursor = {14, 15} /\ k.cursor = [r \in {14, 15} |-> k.cursor[r]]
  /\ k.index \in {14, 15}

LEMMA PartsChange ==
  ASSUME NEW k, Adapter(k), NEW v
  PROVE  /\ [k EXCEPT !.screen = v] = [screen |-> v, X |-> k.X, Y |-> k.Y, index |-> k.index, cursor |-> k.cursor]
         /\ [k EXCEPT !.X = v] = [screen |-> k.screen, X |-> v, Y |-> k.Y, index |-> k.index, cursor |-> k.cursor]
         /\ [k EXCEPT !.Y = v] = [screen |-> k.screen, X |-> k.X, Y |-> v, index |-> k.index, cursor |-> k.cursor]
         /\ [k EXCEPT !.index = v] = [screen |-> k.screen, X |-> k.X, Y |-> k.Y, index |-> v, cursor |-> k.cursor]
         /\ [k EXCEPT !.cursor = v] = [screen |-> k.screen, X |-> k.X, Y |-> k.Y, index |-> k.index, cursor |-> v]
  BY DEF Adapter

\* What leaves all but the screen, and what moves the cursor.
SameBut(k, j) == Adapter(j) /\ j.X = k.X /\ j.Y = k.Y /\ j.index = k.index /\ j.cursor = k.cursor

LEMMA ScreenOnly ==
  ASSUME NEW k, Adapter(k)
  PROVE  /\ SameBut(k, k)
         /\ \A v : SameBut(k, [k EXCEPT !.screen = v])
         /\ \A x, y, c : SameBut(k, putchr(k, x, y, c))
         /\ SameBut(k, ScrolledUp(k)) /\ SameBut(k, LastRowBlank(k)) /\ SameBut(k, AllBlank(k))
<1>1. SameBut(k, k)
  BY DEF SameBut
<1>2. ASSUME NEW v PROVE SameBut(k, [k EXCEPT !.screen = v])
  BY PartsChange DEF SameBut, Adapter
<1>3. ASSUME NEW x, NEW y, NEW c PROVE SameBut(k, putchr(k, x, y, c))
  <2>1. putchr(k, x, y, c) = k \/ \E v : putchr(k, x, y, c) = [k EXCEPT !.screen = v]
    <3>1. [k EXCEPT !.screen[y * SCREEN_WIDTH + x] = c]
            = [k EXCEPT !.screen = [k.screen EXCEPT ![y * SCREEN_WIDTH + x] = c]]
      OBVIOUS
    <3>2. QED  BY <3>1, Zenon DEF putchr
  <2>2. QED  BY <1>1, <1>2, <2>1
<1>4. /\ ScrolledUp(k) = [k EXCEPT !.screen = [i \in Cells |-> IF i + SCREEN_WIDTH \in Cells
                                                THEN k.screen[i + SCREEN_WIDTH] ELSE k.screen[i]]]
      /\ LastRowBlank(k) = [k EXCEPT !.screen = [i \in Cells |-> IF i + SCREEN_WIDTH \in Cells THEN k.screen[i] ELSE NUL]]
      /\ AllBlank(k) = [k EXCEPT !.screen = [i \in Cells |-> NUL]]
  BY DEF ScrolledUp, LastRowBlank, AllBlank
<1>5. QED  BY <1>1, <1>2, <1>3, <1>4, Zenon

LEMMA MovedX ==
  ASSUME NEW k, Adapter(k), NEW v, NEW j, j = [k EXCEPT !.X = v]
  PROVE  Adapter(j) /\ j.X = v /\ j.Y = k.Y /\ j.index = k.index /\ j.cursor = k.cursor
<1>1. j = [screen |-> k.screen, X |-> v, Y |-> k.Y, index |-> k.index, cursor |-> k.cursor]
  BY PartsChange
<1>2. QED  BY <1>1 DEF Adapter

LEMMA MovedY ==
  ASSUME NEW k, Adapter(k), NEW v, NEW j, j = [k EXCEPT !.Y = v]
  PROVE  Adapter(j) /\ j.X = k.X /\ j.Y = v /\ j.index = k.index /\ j.cursor = k.cursor
<1>1. j = [screen |-> k.screen, X |-> k.X, Y |-> v, index |-> k.index, cursor |-> k.cursor]
  BY PartsChange
<1>2. QED  BY <1>1 DEF Adapter

LEMMA Outs ==
  ASSUME NEW k, Adapter(k)
  PROVE  /\ \A r \in {14, 15} : LET j == OutIndex(k, r) IN
              Adapter(j) /\ j.X = k.X /\ j.Y = k.Y /\ j.index = r /\ j.cursor = k.cursor
         /\ \A v : LET j == OutData(k, v) IN
              /\ Adapter(j) /\ j.X = k.X /\ j.Y = k.Y /\ j.index = k.index /\ j.cursor[k.index] = v
              /\ \A r \in {14, 15} : r # k.index => j.cursor[r] = k.cursor[r]
<1>1. ASSUME NEW r \in {14, 15}
      PROVE  LET j == OutIndex(k, r) IN
              Adapter(j) /\ j.X = k.X /\ j.Y = k.Y /\ j.index = r /\ j.cursor = k.cursor
  BY PartsChange DEF OutIndex, Adapter
<1>2. ASSUME NEW v
      PROVE  LET j == OutData(k, v) IN
              /\ Adapter(j) /\ j.X = k.X /\ j.Y = k.Y /\ j.index = k.index /\ j.cursor[k.index] = v
              /\ \A r \in {14, 15} : r # k.index => j.cursor[r] = k.cursor[r]
  <2> DEFINE c == [k.cursor EXCEPT ![k.index] = v]
  <2>1. OutData(k, v) = [k EXCEPT !.cursor = c]
    BY DEF OutData
  <2>2. /\ DOMAIN c = {14, 15} /\ c = [r \in {14, 15} |-> c[r]] /\ c[k.index] = v
        /\ \A r \in {14, 15} : r # k.index => c[r] = k.cursor[r]
    BY DEF Adapter
  <2> HIDE DEF c
  <2>3. QED  BY <2>1, <2>2, PartsChange DEF Adapter
<1>3. QED  BY <1>1, <1>2

\* The cursor the controller shows is the one meant.
Shows(k) == k.cursor[14] = High(Position(k)) /\ k.cursor[15] = Low(Position(k))

LEMMA SetcursorShows ==
  ASSUME NEW k, Adapter(k)
  PROVE  LET j == setcursor(k) IN Adapter(j) /\ j.X = k.X /\ j.Y = k.Y /\ Shows(j)
<1> DEFINE a == OutIndex(k, 15)
           b == OutData(a, Low(Position(k)))
           c == OutIndex(b, 14)
           d == OutData(c, High(Position(k)))
<1>1. Adapter(a) /\ a.X = k.X /\ a.Y = k.Y /\ a.index = 15
  BY Outs
<1> HIDE DEF a
<1>2. Adapter(b) /\ b.X = k.X /\ b.Y = k.Y /\ b.cursor[15] = Low(Position(k))
  BY <1>1, Outs
<1> HIDE DEF b
<1>3. Adapter(c) /\ c.X = k.X /\ c.Y = k.Y /\ c.index = 14 /\ c.cursor[15] = Low(Position(k))
  BY <1>2, Outs
<1> HIDE DEF c
<1>4. /\ Adapter(d) /\ d.X = k.X /\ d.Y = k.Y
      /\ d.cursor[14] = High(Position(k)) /\ d.cursor[15] = Low(Position(k))
  BY <1>3, Outs
<1>5. setcursor(k) = d
  BY DEF setcursor, a, b, c
<1> HIDE DEF d
<1>6. Position(d) = Position(k)
  BY <1>4 DEF Position
<1>7. QED  BY <1>4, <1>5, <1>6 DEF Shows

-----------------------------------------------------------------------------
(* What a handler's printing does, wherever in putc main is. *)

\* In the adapter's memory, at most one column and one row too far.
Near(k) == Adapter(k) /\ k.X \in 0..SCREEN_WIDTH /\ k.Y \in 0..SCREEN_HEIGHT

\* What of main's place in putc survives.
Carries(k, j) ==
  /\ Near(j)
  /\ k.X < SCREEN_WIDTH => j.X < SCREEN_WIDTH
  /\ k.Y < SCREEN_HEIGHT => j.Y < SCREEN_HEIGHT
  /\ k.Y >= SCREEN_HEIGHT - 1 => j.Y >= SCREEN_HEIGHT - 1

LEMMA ScreenSize == SCREEN_WIDTH \in Nat /\ SCREEN_WIDTH > 0 /\ SCREEN_HEIGHT \in Nat /\ SCREEN_HEIGHT > 1
  BY ConsoleAssumption

LEMMA SettledSettles ==
  ASSUME NEW k, Adapter(k), k.X \in 0..(SCREEN_WIDTH + 1), k.Y \in 0..(SCREEN_HEIGHT + 1),
         k.Y > SCREEN_HEIGHT => k.X < SCREEN_WIDTH
  PROVE  LET j == Settled(k) IN
         /\ Near(j) /\ Shows(j) /\ j.X < SCREEN_WIDTH
         /\ k.Y < SCREEN_HEIGHT => j.Y < SCREEN_HEIGHT
         /\ k.Y = SCREEN_HEIGHT /\ k.X < SCREEN_WIDTH => j.Y < SCREEN_HEIGHT
         /\ k.Y >= SCREEN_HEIGHT - 1 => j.Y >= SCREEN_HEIGHT - 1
<1> DEFINE wrapped == IF RowFull(k) THEN [k EXCEPT !.Y = k.Y + 1, !.X = 0] ELSE k
           kept == IF OffScreen(wrapped) THEN scrollback(wrapped) ELSE wrapped
<1>0. SCREEN_WIDTH \in Nat /\ SCREEN_WIDTH > 0 /\ SCREEN_HEIGHT \in Nat /\ SCREEN_HEIGHT > 1
  BY ScreenSize
<1>1. /\ Adapter(wrapped) /\ wrapped.X \in 0..(SCREEN_WIDTH - 1)
      /\ wrapped.Y = IF k.X >= SCREEN_WIDTH THEN k.Y + 1 ELSE k.Y
  <2>1. CASE RowFull(k)
    <3> DEFINE one == [k EXCEPT !.Y = k.Y + 1]
               two == [one EXCEPT !.X = 0]
    <3>1. wrapped = two
      BY <2>1
    <3>2. one = [k EXCEPT !.Y = k.Y + 1]
      OBVIOUS
    <3>3. two = [one EXCEPT !.X = 0]
      OBVIOUS
    <3> HIDE DEF one, two, wrapped
    <3>4. Adapter(one) /\ one.Y = k.Y + 1
      BY <3>2, MovedY
    <3>5. Adapter(two) /\ two.X = 0 /\ two.Y = one.Y
      BY <3>3, <3>4, MovedX
    <3>6. QED  BY <1>0, <2>1, <3>1, <3>4, <3>5 DEF RowFull
  <2>2. CASE ~RowFull(k)
    BY <1>0, <2>2 DEF RowFull
  <2>3. QED  BY <2>1, <2>2
<1>2. Settled(k) = setcursor(kept)
  BY DEF Settled
<1> HIDE DEF wrapped
<1>3. /\ Adapter(kept) /\ kept.X = wrapped.X
      /\ kept.Y = IF wrapped.Y >= SCREEN_HEIGHT THEN wrapped.Y - 1 ELSE wrapped.Y
  <2>1. CASE OffScreen(wrapped)
    <3> DEFINE up == LastRowBlank(ScrolledUp(wrapped))
    <3>1. Adapter(up) /\ up.X = wrapped.X /\ up.Y = wrapped.Y
      <4>1. Adapter(ScrolledUp(wrapped)) /\ ScrolledUp(wrapped).X = wrapped.X /\ ScrolledUp(wrapped).Y = wrapped.Y
        BY <1>1, ScreenOnly DEF SameBut
      <4>2. QED  BY <4>1, ScreenOnly DEF SameBut
    <3>2. kept = [up EXCEPT !.Y = up.Y - 1]
      BY <2>1 DEF scrollback
    <3> HIDE DEF up
    <3>3. Adapter(kept) /\ kept.X = up.X /\ kept.Y = up.Y - 1
      <4> HIDE DEF kept
      <4>1. QED  BY <3>1, <3>2, MovedY
    <3>4. QED  BY <2>1, <3>1, <3>3 DEF OffScreen
  <2>2. CASE ~OffScreen(wrapped)
    BY <1>1, <2>2 DEF OffScreen
  <2>3. QED  BY <2>1, <2>2
<1> HIDE DEF kept
<1>4. Adapter(Settled(k)) /\ Settled(k).X = kept.X /\ Settled(k).Y = kept.Y /\ Shows(Settled(k))
  BY <1>2, <1>3, SetcursorShows
<1>5. QED  BY <1>0, <1>1, <1>3, <1>4 DEF Near

LEMMA PrintedMoves ==
  ASSUME NEW k, Near(k), NEW c
  PROVE  Adapter(Printed(k, c)) /\ Printed(k, c).X = k.X + 1 /\ Printed(k, c).Y = k.Y
<1> DEFINE put == putchr(k, k.X, k.Y, c)
<1>1. Adapter(put) /\ put.X = k.X /\ put.Y = k.Y
  <2>1. SameBut(k, put)
    BY ScreenOnly DEF Near
  <2> HIDE DEF put
  <2>2. QED  BY <2>1 DEF SameBut
<1>2. Printed(k, c) = [put EXCEPT !.X = put.X + 1]
  BY DEF Printed
<1> HIDE DEF put
<1>3. put.X + 1 \in Int
  BY <1>1, ScreenSize DEF Near
<1>4. QED  BY <1>1, <1>2, <1>3, MovedX

LEMMA CarriesOn ==
  ASSUME NEW k, NEW j, NEW i, Near(k), Carries(k, j), Carries(j, i)
  PROVE  Carries(k, i)
  BY DEF Carries

LEMMA SettledCarries ==
  ASSUME NEW k, Near(k), NEW j, Adapter(j),
         \/ j.X = 0 /\ j.Y = k.Y + 1
         \/ j.X \in 0..(k.X + 1) /\ j.Y = k.Y
  PROVE  Carries(k, Settled(j)) /\ Settled(j).X < SCREEN_WIDTH /\ Shows(Settled(j))
<1>0. /\ SCREEN_WIDTH \in Nat /\ SCREEN_WIDTH > 0 /\ SCREEN_HEIGHT \in Nat /\ SCREEN_HEIGHT > 1
      /\ Adapter(k) /\ k.X \in 0..SCREEN_WIDTH /\ k.Y \in 0..SCREEN_HEIGHT
  BY ScreenSize DEF Near
<1>1. /\ j.X \in 0..(SCREEN_WIDTH + 1) /\ j.Y \in 0..(SCREEN_HEIGHT + 1)
      /\ j.Y > SCREEN_HEIGHT => j.X < SCREEN_WIDTH
      /\ j.Y = SCREEN_HEIGHT /\ k.Y < SCREEN_HEIGHT => j.X < SCREEN_WIDTH
  BY <1>0
<1> DEFINE r == Settled(j)
<1>2. /\ Near(r) /\ Shows(r) /\ r.X < SCREEN_WIDTH
      /\ j.Y < SCREEN_HEIGHT => r.Y < SCREEN_HEIGHT
      /\ j.Y = SCREEN_HEIGHT /\ j.X < SCREEN_WIDTH => r.Y < SCREEN_HEIGHT
      /\ j.Y >= SCREEN_HEIGHT - 1 => r.Y >= SCREEN_HEIGHT - 1
  BY <1>1, SettledSettles
<1> HIDE DEF r
<1>3. Carries(k, r)
  BY <1>0, <1>1, <1>2 DEF Carries
<1>4. QED  BY <1>2, <1>3 DEF r

\* The blanks of a tabulator, one by one.
LEMMA TabbedCarries ==
  ASSUME NEW k, Near(k)
  PROVE  Carries(k, Tabbed(k))
<1>1. ASSUME NEW j, Near(j), NEW i PROVE Carries(j, TabTurn(j, i))
  <2>1. Carries(j, j)
    BY <1>1 DEF Carries
  <2> DEFINE p == Printed(j, Space)
  <2>2. Adapter(p) /\ p.X = j.X + 1 /\ p.Y = j.Y
    BY <1>1, PrintedMoves
  <2> HIDE DEF p
  <2>3. p.X \in 0..(j.X + 1)
    BY <1>1, <2>2, ScreenSize DEF Near
  <2>4. Carries(j, Settled(p))
    BY <1>1, <2>2, <2>3, SettledCarries
  <2>5. QED  BY <2>1, <2>4 DEF TabTurn, p
<1> DEFINE a == TabTurn(k, 0)
           b == TabTurn(a, 1)
           c == TabTurn(b, 2)
           d == TabTurn(c, 3)
<1>2. Tabbed(k) = d
  BY DEF Tabbed
<1>3. Carries(k, a) /\ Near(a)
  BY <1>1 DEF Carries
<1> HIDE DEF a
<1>4. Carries(a, b) /\ Near(b)
  BY <1>1, <1>3 DEF Carries
<1> HIDE DEF b
<1>5. Carries(b, c) /\ Near(c)
  BY <1>1, <1>4 DEF Carries
<1> HIDE DEF c
<1>6. Carries(c, d)
  BY <1>1, <1>5
<1> HIDE DEF d
<1>7. Carries(k, c)
  BY <1>3, <1>4, <1>5, CarriesOn
<1>8. QED  BY <1>2, <1>6, <1>7, CarriesOn

LEMMA PutcCarries ==
  ASSUME NEW k, Near(k), NEW c
  PROVE  Carries(k, putc(k, c)) /\ putc(k, c).X < SCREEN_WIDTH /\ Shows(putc(k, c))
<1> DEFINE j == CASE c = "\n" -> [k EXCEPT !.X = 0, !.Y = k.Y + 1]
                  [] c = "\t" -> Tabbed(k)
                  [] c = "\r" -> [k EXCEPT !.X = 0]
                  [] c = BS -> IF k.X > 0 THEN putchr([k EXCEPT !.X = k.X - 1], k.X - 1, k.Y, Space) ELSE k
                  [] OTHER -> Printed(k, c)
<1>0. /\ SCREEN_WIDTH \in Nat /\ SCREEN_WIDTH > 0 /\ SCREEN_HEIGHT \in Nat /\ SCREEN_HEIGHT > 1
      /\ Adapter(k) /\ k.X \in 0..SCREEN_WIDTH /\ k.Y \in 0..SCREEN_HEIGHT
  BY ScreenSize DEF Near
<1>1. putc(k, c) = Settled(j)
  BY DEF putc
<1>2. ASSUME c # "\t"
      PROVE  /\ Adapter(j)
             /\ \/ j.X = 0 /\ j.Y = k.Y + 1
                \/ j.X \in 0..(k.X + 1) /\ j.Y = k.Y
  <2>1. CASE c = "\n"
    <3> DEFINE one == [k EXCEPT !.X = 0]
               two == [one EXCEPT !.Y = k.Y + 1]
    <3>0. c # "\r" /\ c # "\t" /\ c # BS
      BY <2>1 DEF BS
    <3>1. j = [k EXCEPT !.X = 0, !.Y = k.Y + 1]
      BY <2>1, <3>0, Zenon
    <3>2. j = two
      BY <3>1
    <3>3. one = [k EXCEPT !.X = 0]
      OBVIOUS
    <3>4. two = [one EXCEPT !.Y = k.Y + 1]
      OBVIOUS
    <3> HIDE DEF one, two, j
    <3>5. Adapter(one) /\ one.X = 0
      BY <1>0, <3>3, MovedX
    <3>6. Adapter(two) /\ two.X = 0 /\ two.Y = k.Y + 1
      BY <3>4, <3>5, MovedY
    <3>7. QED  BY <3>2, <3>6
  <2>2. CASE c = "\r"
    <3>0. c # "\n" /\ c # "\t" /\ c # BS
      BY <2>2 DEF BS
    <3>1. j = [k EXCEPT !.X = 0]
      BY <2>2, <3>0, Zenon
    <3> HIDE DEF j
    <3>2. Adapter(j) /\ j.X = 0 /\ j.Y = k.Y
      BY <1>0, <3>1, MovedX
    <3>3. QED  BY <1>0, <3>2
  <2>3. CASE c = BS
    <3>1. c # "\n" /\ c # "\r" /\ c # "\t"
      BY <2>3 DEF BS
    <3>2. CASE k.X > 0
      <4> DEFINE back == [k EXCEPT !.X = k.X - 1]
      <4>0. back = [k EXCEPT !.X = k.X - 1]
        OBVIOUS
      <4> HIDE DEF back, j
      <4>1. Adapter(back) /\ back.X = k.X - 1 /\ back.Y = k.Y
        BY <1>0, <4>0, MovedX
      <4>2. SameBut(back, putchr(back, k.X - 1, k.Y, Space))
        BY <4>1, ScreenOnly
      <4>3. j = putchr(back, k.X - 1, k.Y, Space)
        BY <2>3, <3>1, <3>2 DEF back, j
      <4> HIDE DEF j
      <4>4. Adapter(j) /\ j.X = k.X - 1 /\ j.Y = k.Y
        BY <4>1, <4>2, <4>3 DEF SameBut
      <4>5. QED  BY <1>0, <3>2, <4>4
    <3>3. CASE ~(k.X > 0)
      <4>1. j = k
        BY <2>3, <3>1, <3>3
      <4> HIDE DEF j
      <4>2. QED  BY <1>0, <4>1
    <3>4. QED  BY <3>2, <3>3
  <2>4. CASE c # "\n" /\ c # "\r" /\ c # "\t" /\ c # BS
    <3>1. j = Printed(k, c)
      BY <2>4
    <3> HIDE DEF j
    <3>2. QED  BY <1>0, <3>1, PrintedMoves
  <2>5. QED  BY <1>2, <2>1, <2>2, <2>3, <2>4
<1> HIDE DEF j
<1>3. CASE c # "\t"
  BY <1>1, <1>2, <1>3, SettledCarries
<1>4. CASE c = "\t"
  <2> DEFINE t == Tabbed(k)
  <2>1. j = t
    BY <1>4 DEF j, BS
  <2>2. Carries(k, t) /\ Near(t)
    BY TabbedCarries DEF Carries
  <2> HIDE DEF t
  <2>3. Carries(t, Settled(t)) /\ Settled(t).X < SCREEN_WIDTH /\ Shows(Settled(t))
    <3>1. Adapter(t) /\ t.X \in 0..(t.X + 1) /\ t.Y = t.Y
      BY <2>2, ScreenSize DEF Near
    <3>2. QED  BY <2>2, <3>1, SettledCarries
  <2>4. QED  BY <1>1, <2>1, <2>2, <2>3, CarriesOn
<1>5. QED  BY <1>3, <1>4

\* Induction: the least number for which a statement fails.
LEMMA LeastCounterexample ==
  ASSUME NEW S, S \subseteq Nat, S # {}
  PROVE  \E i \in S : i = 0 \/ i - 1 \in Nat \ S
<1>1. PICK i \in S : \A j \in S : ~(<<j, i>> \in OpToRel(<, Nat))
  BY NatLessThanWellFounded, WFMin, Zenon
<1>2. \A j \in S : ~(j < i)
  BY <1>1 DEF OpToRel
<1>3. QED  BY <1>2

PutsRound(k, str, f, n) == IF n = 0 THEN k ELSE putc(f[n - 1], str[n])

PutsBy(k, str, t, f) == f = [n \in 0..t |-> PutsRound(k, str, f, n)]

\* The recursion of puts defines a function.
LEMMA PutsExists ==
  ASSUME NEW k, NEW str, NEW t \in Nat
  PROVE  \E f : PutsBy(k, str, t, f)
<1> DEFINE Bad == {m \in Nat : ~\E f : PutsBy(k, str, m, f)}
<1> SUFFICES ASSUME Bad # {} PROVE FALSE
  OBVIOUS
<1>1. PICK m \in Bad : m = 0 \/ m - 1 \in Nat \ Bad
  BY LeastCounterexample
<1>2. ASSUME NEW f, NEW g, NEW n \in Nat, n = 0 \/ f[n - 1] = g[n - 1]
      PROVE  PutsRound(k, str, f, n) = PutsRound(k, str, g, n)
  BY <1>2 DEF PutsRound
<1>3. CASE m = 0
  <2> DEFINE f == [n \in 0..0 |-> PutsRound(k, str, <<>>, n)]
  <2>1. \A n \in 0..0 : PutsRound(k, str, f, n) = PutsRound(k, str, <<>>, n)
    <3> HIDE DEF f
    <3>1. QED  BY <1>2
  <2>2. PutsBy(k, str, 0, f)
    <3>1. f = [n \in 0..0 |-> PutsRound(k, str, <<>>, n)]
      OBVIOUS
    <3> HIDE DEF f
    <3>2. QED  BY <2>1, <3>1, Zenon DEF PutsBy
  <2>3. QED  BY <1>3, <2>2
<1>4. CASE m # 0
  <2>1. PICK f : PutsBy(k, str, m - 1, f)
    BY <1>1, <1>4
  <2> DEFINE g == [n \in 0..m |-> PutsRound(k, str, f, n)]
  <2>2. \A n \in 0..m : g[n] = PutsRound(k, str, f, n)
    OBVIOUS
  <2>3. f = [n \in 0..(m - 1) |-> PutsRound(k, str, f, n)]
    BY <2>1, Zenon DEF PutsBy
  <2>4. \A n \in 0..(m - 1) : f[n] = PutsRound(k, str, f, n)
    BY <2>3, Zenon
  <2>5. g = [n \in 0..m |-> PutsRound(k, str, f, n)]
    OBVIOUS
  <2> HIDE DEF g
  <2>6. \A n \in 0..m : PutsRound(k, str, f, n) = PutsRound(k, str, g, n)
    <3>1. ASSUME NEW n \in 0..m PROVE n = 0 \/ f[n - 1] = g[n - 1]
      BY <2>2, <2>4
    <3>2. QED  BY <1>2, <3>1
  <2>7. PutsBy(k, str, m, g)
    BY <2>5, <2>6, Zenon DEF PutsBy
  <2>8. QED  BY <2>7
<1>5. QED  BY <1>3, <1>4

LEMMA PutsCarries ==
  ASSUME NEW k, Near(k), NEW S, NEW str \in Seq(S)
  PROVE  /\ Carries(k, puts(k, str))
         /\ Len(str) > 0 => puts(k, str).X < SCREEN_WIDTH /\ Shows(puts(k, str))
<1> DEFINE t == Len(str)
           f == CHOOSE g : PutsBy(k, str, t, g)
           Good(n) == Carries(k, f[n]) /\ (n > 0 => f[n].X < SCREEN_WIDTH /\ Shows(f[n]))
           Bad == {n \in 0..t : ~Good(n)}
<1>0. t \in Nat
  OBVIOUS
<1>1. PutsBy(k, str, t, f)
  <2>1. \E g : PutsBy(k, str, t, g)
    BY <1>0, PutsExists
  <2>2. QED  BY <2>1, Zenon
<1>2. puts(k, str) = f[t]
  BY DEF puts, PutsBy, PutsRound
<1> HIDE DEF f, t
<1>3. \A n \in 0..t : f[n] = PutsRound(k, str, f, n)
  <2>1. f = [n \in 0..t |-> PutsRound(k, str, f, n)]
    BY <1>1, Zenon DEF PutsBy
  <2>2. QED  BY <2>1, Zenon
<1>4. Bad = {}
  <2> SUFFICES ASSUME Bad # {} PROVE FALSE
    OBVIOUS
  <2>1. PICK n \in Bad : n = 0 \/ n - 1 \in Nat \ Bad
    <3>1. Bad \subseteq Nat
      BY <1>0
    <3> HIDE DEF Bad
    <3>2. QED  BY <3>1, LeastCounterexample
  <2>2. n \in 0..t /\ ~Good(n)
    BY <2>1
  <2>3. CASE n = 0
    <3>1. f[0] = k
      BY <1>3, <2>2, <2>3 DEF PutsRound
    <3>2. Carries(k, k)
      BY DEF Carries
    <3>3. QED  BY <2>2, <2>3, <3>1, <3>2
  <2>4. CASE n # 0
    <3>1. f[n] = putc(f[n - 1], str[n]) /\ Good(n - 1)
      BY <1>0, <1>3, <2>1, <2>2, <2>4 DEF PutsRound
    <3> DEFINE i == f[n - 1]
               j == f[n]
    <3>2. Carries(k, i) /\ Near(i)
      BY <3>1 DEF Carries
    <3>3. j = putc(i, str[n])
      BY <3>1
    <3> HIDE DEF i, j
    <3>4. Carries(i, j) /\ j.X < SCREEN_WIDTH /\ Shows(j)
      BY <3>2, <3>3, PutcCarries
    <3>5. Carries(k, j)
      BY <3>2, <3>4, CarriesOn
    <3>6. QED  BY <2>2, <3>4, <3>5 DEF j
  <2>5. QED  BY <2>3, <2>4
<1>5. Good(t)
  BY <1>0, <1>4
<1>6. QED  BY <1>2, <1>5 DEF t

-----------------------------------------------------------------------------
(* The table of gates and the frame of an interrupt. *)

\* A gate that leads to the stub of its number.
Leads(gate, n) == gate = [base |-> n, segment |-> CodeSegment, flags |-> gate.flags]

LEMMA GatesLead ==
  /\ DOMAIN Idt = 0..255
  /\ \A n \in 0..255 : StubOf[n] = n /\ (n \in Present <=> n # 128)
<1> DEFINE table == InitializeGates(EmptyIdt)
           shown == [n \in DOMAIN table |-> EnableGate(table, n)[n]]
<1>1. DOMAIN table = 0..255 /\ \A n \in 0..255 : Leads(table[n], n)
  <2>1. ASSUME NEW n \in 0..255
        PROVE  Leads(SetGate(EmptyIdt, n, n, CodeSegment, {"32 bit interrupt"})[n], n)
    <3>1. SetGate(EmptyIdt, n, n, CodeSegment, {"32 bit interrupt"})[n]
            = [base |-> n, segment |-> CodeSegment, flags |-> {"32 bit interrupt"}]
      <4> DEFINE g == [base |-> n, segment |-> CodeSegment, flags |-> {"32 bit interrupt"}]
      <4>1. SetGate(EmptyIdt, n, n, CodeSegment, {"32 bit interrupt"}) = [EmptyIdt EXCEPT ![n] = g]
        BY DEF SetGate, Gate
      <4>2. n \in DOMAIN EmptyIdt
        BY DEF EmptyIdt
      <4> HIDE DEF g
      <4>3. SetGate(EmptyIdt, n, n, CodeSegment, {"32 bit interrupt"})[n] = g
        BY <4>1, <4>2
      <4>4. QED  BY <4>3 DEF g
    <3> DEFINE x == SetGate(EmptyIdt, n, n, CodeSegment, {"32 bit interrupt"})[n]
               flag == {"32 bit interrupt"}
    <3>2. x = [base |-> n, segment |-> CodeSegment, flags |-> flag]
      BY <3>1
    <3> HIDE DEF x, flag
    <3>3. Leads(x, n)
      BY <3>2 DEF Leads
    <3>4. QED  BY <3>3 DEF x
  <2>2. table = [n \in 0..255 |-> SetGate(EmptyIdt, n, n, CodeSegment, {"32 bit interrupt"})[n]]
    BY DEF InitializeGates, Stubs
  <2> HIDE DEF table
  <2>3. QED  BY <2>1, <2>2
<1> HIDE DEF table
<1>2. ASSUME NEW n \in 0..255, NEW g, g = EnableGate(table, n)[n]
      PROVE  Leads(g, n) /\ "present" \in g.flags
  <2> DEFINE h == table[n]
  <2>1. h = [base |-> n, segment |-> CodeSegment, flags |-> h.flags]
    BY <1>1 DEF Leads
  <2>2. g = [h EXCEPT !.flags = h.flags \cup {"present"}]
    BY <1>1, <1>2 DEF EnableGate
  <2> HIDE DEF h
  <2>3. g = [base |-> n, segment |-> CodeSegment, flags |-> h.flags \cup {"present"}]
    BY <2>1, <2>2
  <2>4. QED  BY <2>3 DEF Leads
<1>3. DOMAIN shown = 0..255 /\ \A n \in 0..255 : Leads(shown[n], n) /\ "present" \in shown[n].flags
  <2>1. DOMAIN shown = 0..255 /\ \A n \in 0..255 : shown[n] = EnableGate(table, n)[n]
    BY <1>1
  <2> HIDE DEF shown
  <2>2. QED  BY <1>2, <2>1
<1>4. Idt = [shown EXCEPT ![128].flags = shown[128].flags \ {"present"}]
  BY DEF Idt, ISR_Initialize, DisableGate, table
<1> HIDE DEF shown
<1>5. DOMAIN Idt = 0..255 /\ \A n \in 0..255 : n # 128 => Idt[n] = shown[n]
  BY <1>3, <1>4
<1>6. Idt[128].base = 128 /\ "present" \notin Idt[128].flags
  <2> DEFINE h == shown[128]
             g == Idt[128]
  <2>1. h = [base |-> 128, segment |-> CodeSegment, flags |-> h.flags]
    BY <1>3 DEF Leads
  <2>2. g = [h EXCEPT !.flags = h.flags \ {"present"}]
    <3>1. Idt = [shown EXCEPT ![128] = [shown[128] EXCEPT !.flags = shown[128].flags \ {"present"}]]
      BY <1>4
    <3> DEFINE new == [shown[128] EXCEPT !.flags = shown[128].flags \ {"present"}]
    <3> HIDE DEF new
    <3>2. Idt = [shown EXCEPT ![128] = new]
      BY <3>1 DEF new
    <3>5. 128 \in DOMAIN shown
      <4>1. 128 \in 0..255
        OBVIOUS
      <4>2. QED  BY <1>3, <4>1, Zenon
    <3>3. Idt[128] = new
      BY <3>2, <3>5
    <3>4. QED  BY <3>3 DEF new
  <2> HIDE DEF g, h
  <2>3. g = [base |-> 128, segment |-> CodeSegment, flags |-> h.flags \ {"present"}]
    BY <2>1, <2>2
  <2>4. g.base = 128 /\ "present" \notin g.flags
    BY <2>3
  <2>5. QED  BY <2>4 DEF g
<1>7. ASSUME NEW n \in 0..255 PROVE Idt[n].base = n /\ ("present" \in Idt[n].flags <=> n # 128)
  <2>1. CASE n = 128
    BY <1>6, <2>1
  <2>2. CASE n # 128
    <3> DEFINE g == shown[n]
    <3>1. g = [base |-> n, segment |-> CodeSegment, flags |-> g.flags] /\ "present" \in g.flags
      BY <1>3 DEF Leads
    <3>2. Idt[n] = g
      BY <1>5, <2>2
    <3> HIDE DEF g
    <3>3. g.base = n
      BY <3>1
    <3>4. QED  BY <2>2, <3>1, <3>2, <3>3
  <2>3. QED  BY <2>1, <2>2
<1>8. QED  BY <1>5, <1>7 DEF StubOf, Present

LEMMA RaisedAs ==
  /\ Raised(39) = [vector |-> 39, error |-> 0]
  /\ Raised(128) = [vector |-> 11, error |-> 1026]
  BY GatesLead DEF Raised

\* Concatenation, position by position: n elements of S, and what lies behind what.
Concat(c, a, b) == c = a \o b
Holds(S, a, n) == a \in Seq(S) /\ Len(a) = n
Follows(c, a, m, b, n) == \A p \in 1..(m + n) : (p <= m => c[p] = a[p]) /\ (p > m => c[p] = b[p - m])

LEMMA Joined ==
  ASSUME NEW S, NEW a, NEW b, a \in Seq(S), b \in Seq(S), NEW c, Concat(c, a, b)
  PROVE  /\ c \in Seq(S) /\ Len(c) = Len(a) + Len(b)
         /\ \A p \in 1..Len(c) : /\ p <= Len(a) => c[p] = a[p]
                                 /\ p > Len(a) => c[p] = b[p - Len(a)]
  BY ConcatProperties DEF Concat
LEMMA LaidBehind ==
  ASSUME NEW S, NEW a, NEW b, NEW c, NEW m, NEW n, Holds(S, a, m), Holds(S, b, n), Concat(c, a, b)
  PROVE  Holds(S, c, m + n) /\ Follows(c, a, m, b, n)
<1>0. a \in Seq(S) /\ b \in Seq(S) /\ Len(a) = m /\ Len(b) = n
  BY DEF Holds
<1>1. Len(a) \in Nat /\ Len(b) \in Nat
  BY <1>0
<1>2. c \in Seq(S) /\ Len(c) = Len(a) + Len(b)
  BY <1>0, Joined
<1>3. \A p \in 1..Len(c) : /\ p <= Len(a) => c[p] = a[p]
                           /\ p > Len(a) => c[p] = b[p - Len(a)]
  BY <1>0, Joined
<1>4. QED  BY <1>0, <1>2, <1>3 DEF Holds, Follows

\* What can be raised: a vector whose stub pushes a zero, or one with the error
\* code of the processor; and how their frames lie.
Met == {raised \in [vector : 0..255, error : Nat] : raised.vector \notin ErrorCode => raised.error = 0}
LaidOut(frm, raised, at) ==
  /\ frm[2] = Cpu.edi /\ frm[4] = Cpu.ebp /\ frm[9] = Cpu.eax
  /\ frm[10] = raised.vector /\ frm[11] = raised.error
  /\ frm[12] = at.eip /\ frm[13] = at.cs /\ frm[14] = at.eflags
  /\ SubSeq(frm, 15, Len(frm)) = Below

LEMMA MetAre ==
  /\ Raised(39) \in Met /\ Raised(128) \in Met
  /\ \A v \in Present : Entered(v) \in Met
<1>1. Raised(39) \in Met /\ Raised(128) \in Met
  BY RaisedAs DEF Met, ErrorCode
<1>2. ASSUME NEW v \in Present PROVE Entered(v) \in Met
  <2>1. v \in 0..255
    BY GatesLead DEF Present
  <2>2. QED  BY <2>1 DEF Entered, Met, ErrorCode, PushesError
<1>3. QED  BY <1>1, <1>2

LEMMA FrameLaid ==
  ASSUME NEW at, NEW raised, raised \in Met, NEW frm, frm = Frame(raised, at)
  PROVE  LaidOut(frm, raised, at)
<1> DEFINE v == raised.vector
           e == raised.error
           T == Nat \cup {Cpu.ds, Cpu.edi, Cpu.esi, Cpu.ebp, Cpu.esp, Cpu.ebx, Cpu.edx, Cpu.ecx, Cpu.eax,
                          at.eip, at.cs, at.eflags, v, e}
           bottom == Saved \o Stub(StubOf[v])
           place == <<at.eip, at.cs, at.eflags>>
<1>1. StubOf[v] = v /\ ((v \notin ErrorCode /\ e = 0) \/ v \in ErrorCode)
  BY GatesLead DEF Met
<1>2. Below \in Seq(T)
  BY ExceptionsAssumption
<1>3. Saved \in Seq(T) /\ Len(Saved) = 9
  BY DEF Saved
<1>4. /\ place \in Seq(T) /\ Len(place) = 3 /\ v \in T /\ e \in T
      /\ place[1] = at.eip /\ place[2] = at.cs /\ place[3] = at.eflags
  OBVIOUS
<1>5. frm = bottom \o Taken(raised, at)
  BY DEF Frame
<1> HIDE DEF T, place
<1>10. Holds(T, Saved, 9) /\ Holds(T, place, 3) /\ Holds(T, Below, Len(Below)) /\ Len(Below) \in Nat
  BY <1>2, <1>3, <1>4 DEF Holds
<1>6. /\ frm \in Seq(T) /\ Len(frm) = 14 + Len(Below)
      /\ \A i \in 1..9 : frm[i] = Saved[i]
      /\ frm[10] = v /\ frm[11] = e /\ frm[12] = at.eip /\ frm[13] = at.cs /\ frm[14] = at.eflags
      /\ \A i \in 1..Len(Below) : frm[14 + i] = Below[i]
  <2>1. CASE v \notin ErrorCode /\ e = 0
    <3> DEFINE w == <<v, e>>
               top == place \o Below
    <3>1. bottom = Saved \o w
      BY <1>1, <2>1 DEF Stub
    <3>2. Taken(raised, at) = (<<>> \o place) \o Below
      BY <2>1 DEF Taken, PushesError, ErrorCode, place
    <3>3. Holds(T, w, 2) /\ w[1] = v /\ w[2] = e
      BY <1>4 DEF Holds
    <3>4. <<>> \o place = place
      BY <1>4
    <3>5. Concat(bottom, Saved, w) /\ Concat(top, place, Below) /\ Concat(frm, bottom, top)
      BY <1>5, <3>1, <3>2, <3>4 DEF Concat
    <3> HIDE DEF bottom, v, e, w, top
    <3>6. Holds(T, bottom, 9 + 2) /\ Follows(bottom, Saved, 9, w, 2)
      BY <1>10, <3>3, <3>5, LaidBehind
    <3>7. Holds(T, top, 3 + Len(Below)) /\ Follows(top, place, 3, Below, Len(Below))
      BY <1>10, <3>5, LaidBehind
    <3>8. Holds(T, frm, 9 + 2 + (3 + Len(Below))) /\ Follows(frm, bottom, 9 + 2, top, 3 + Len(Below))
      BY <3>5, <3>6, <3>7, LaidBehind
    <3>9. \A i \in 1..14 : (i <= 11 => frm[i] = bottom[i]) /\ (i > 11 => frm[i] = top[i - 11])
      BY <1>10, <3>8 DEF Follows
    <3>10. \A i \in 1..11 : (i <= 9 => bottom[i] = Saved[i]) /\ (i > 9 => bottom[i] = w[i - 9])
      BY <3>6 DEF Follows
    <3>11. \A i \in 1..3 : top[i] = place[i]
      BY <1>10, <3>7 DEF Follows
    <3>12. \A i \in 1..Len(Below) : frm[14 + i] = Below[i]
      <4>1. ASSUME NEW i \in 1..Len(Below) PROVE frm[14 + i] = Below[i]
        <5>1. frm[14 + i] = top[14 + i - (9 + 2)]
          BY <1>10, <3>8 DEF Follows
        <5>2. top[3 + i] = Below[3 + i - 3]
          BY <1>10, <3>7 DEF Follows
        <5>3. 14 + i - (9 + 2) = 3 + i /\ 3 + i - 3 = i
          BY <1>10
        <5>4. QED  BY <5>1, <5>2, <5>3
      <4>2. QED  BY <4>1
    <3>13. frm \in Seq(T) /\ Len(frm) = 14 + Len(Below)
      BY <1>10, <3>8 DEF Holds
    <3>14. QED  BY <1>4, <3>3, <3>9, <3>10, <3>11, <3>12, <3>13
  <2>2. CASE v \in ErrorCode
    <3> DEFINE w == <<v>>
               x == <<e>>
               mid == x \o place
               top == mid \o Below
    <3>1. bottom = Saved \o w
      BY <1>1, <2>2 DEF Stub
    <3>2. Taken(raised, at) = (<<e>> \o place) \o Below
      BY <2>2 DEF Taken, PushesError, ErrorCode, place
    <3>3. Holds(T, w, 1) /\ w[1] = v /\ Holds(T, x, 1) /\ x[1] = e
      BY <1>4 DEF Holds
    <3>5. /\ Concat(bottom, Saved, w) /\ Concat(mid, x, place)
          /\ Concat(top, mid, Below) /\ Concat(frm, bottom, top)
      BY <1>5, <3>1, <3>2 DEF Concat
    <3> HIDE DEF bottom, v, e, w, x, mid, top
    <3>6. Holds(T, bottom, 9 + 1) /\ Follows(bottom, Saved, 9, w, 1)
      BY <1>10, <3>3, <3>5, LaidBehind
    <3>4. Holds(T, mid, 1 + 3) /\ Follows(mid, x, 1, place, 3)
      BY <1>10, <3>3, <3>5, LaidBehind
    <3>7. Holds(T, top, 1 + 3 + Len(Below)) /\ Follows(top, mid, 1 + 3, Below, Len(Below))
      BY <1>10, <3>4, <3>5, LaidBehind
    <3>8. Holds(T, frm, 9 + 1 + (1 + 3 + Len(Below))) /\ Follows(frm, bottom, 9 + 1, top, 1 + 3 + Len(Below))
      BY <3>5, <3>6, <3>7, LaidBehind
    <3>9. \A i \in 1..14 : (i <= 10 => frm[i] = bottom[i]) /\ (i > 10 => frm[i] = top[i - 10])
      BY <1>10, <3>8 DEF Follows
    <3>10. \A i \in 1..10 : (i <= 9 => bottom[i] = Saved[i]) /\ (i > 9 => bottom[i] = w[i - 9])
      BY <3>6 DEF Follows
    <3>11. \A i \in 1..4 : top[i] = mid[i] /\ (i > 1 => mid[i] = place[i - 1]) /\ (i = 1 => mid[i] = x[i])
      BY <1>10, <3>4, <3>7 DEF Follows
    <3>12. \A i \in 1..Len(Below) : frm[14 + i] = Below[i]
      <4>1. ASSUME NEW i \in 1..Len(Below) PROVE frm[14 + i] = Below[i]
        <5>1. frm[14 + i] = top[14 + i - (9 + 1)]
          BY <1>10, <3>8 DEF Follows
        <5>2. top[4 + i] = Below[4 + i - (1 + 3)]
          BY <1>10, <3>7 DEF Follows
        <5>3. 14 + i - (9 + 1) = 4 + i /\ 4 + i - (1 + 3) = i
          BY <1>10
        <5>4. QED  BY <5>1, <5>2, <5>3
      <4>2. QED  BY <4>1
    <3>13. frm \in Seq(T) /\ Len(frm) = 14 + Len(Below)
      BY <1>10, <3>8 DEF Holds
    <3>14. QED  BY <1>4, <3>3, <3>9, <3>10, <3>11, <3>12, <3>13
  <2>3. QED  BY <1>1, <2>1, <2>2
<1>7. SubSeq(frm, 15, Len(frm)) = Below
  <2> DEFINE b == SubSeq(frm, 15, Len(frm))
  <2>1. b \in Seq(T) /\ Len(b) = Len(Below) /\ \A i \in 1..Len(Below) : b[i] = frm[14 + i]
    BY <1>2, <1>6
  <2> HIDE DEF b
  <2>2. \A i \in 1..Len(b) : b[i] = Below[i]
    BY <1>6, <2>1
  <2>3. b = Below
    BY <1>2, <2>1, <2>2, SeqEqual
  <2>4. QED  BY <2>3 DEF b
<1>8. /\ Saved[1] = Cpu.ds /\ Saved[2] = Cpu.edi /\ Saved[4] = Cpu.ebp /\ Saved[9] = Cpu.eax
  BY DEF Saved
<1>9. QED  BY <1>6, <1>7, <1>8 DEF LaidOut, v, e

LEMMA FrameRead ==
  ASSUME NEW at, NEW raised, raised \in Met
  PROVE  LET r == Registers(Frame(raised, at)) back == Resumed(Frame(raised, at)) IN
         /\ r.interrupt = raised.vector /\ r.error = raised.error
         /\ r.eip = at.eip /\ r.eax = Cpu.eax /\ r.edi = Cpu.edi /\ r.ebp = Cpu.ebp
         /\ back = [eip |-> at.eip, cs |-> at.cs, eflags |-> at.eflags, below |-> Below]
<1> DEFINE frm == Frame(raised, at)
<1>0. frm = Frame(raised, at)
  OBVIOUS
<1> HIDE DEF frm
<1>1. LaidOut(frm, raised, at)
  BY <1>0, FrameLaid
<1>2. LET r == Registers(frm) back == Resumed(frm) IN
         /\ r.interrupt = raised.vector /\ r.error = raised.error
         /\ r.eip = at.eip /\ r.eax = Cpu.eax /\ r.edi = Cpu.edi /\ r.ebp = Cpu.ebp
         /\ back = [eip |-> at.eip, cs |-> at.cs, eflags |-> at.eflags, below |-> Below]
  BY <1>1 DEF Registers, Resumed, LaidOut
<1>3. QED  BY <1>2 DEF frm

-----------------------------------------------------------------------------
(* What a spurious interrupt prints is a text. *)

LEMMA FlattenThree ==
  ASSUME NEW a, NEW b, NEW c, NEW ab, NEW abc, Concat(ab, a, b), Concat(abc, ab, c)
  PROVE  FlattenSeq(<<a, b, c>>) = abc
<1> DEFINE s == <<a, b, c>>
           cat(x, y) == x \o y
           round(f, i) == IF i = 1 THEN s[i] ELSE cat(f[i - 1], s[i])
           all(f) == [i \in 1..3 |-> round(f, i)]
           w == [i \in 1..3 |-> IF i = 1 THEN a ELSE IF i = 2 THEN cat(a, b) ELSE cat(cat(a, b), c)]
           g == CHOOSE f : f = all(f)
<1>1. Len(s) = 3 /\ s[1] = a /\ s[2] = b /\ s[3] = c
  OBVIOUS
<1>2. FlattenSeq(s) = g[3]
  BY <1>1 DEF FlattenSeq
<1> HIDE DEF s, cat
<1>3. w = all(w)
  <2>1. ASSUME NEW i \in 1..3 PROVE w[i] = round(w, i)
    <3>1. i = 1 \/ i = 2 \/ i = 3
      OBVIOUS
    <3>2. w[1] = a /\ w[2] = cat(a, b) /\ w[3] = cat(cat(a, b), c)
      OBVIOUS
    <3> HIDE DEF w
    <3>3. QED  BY <1>1, <3>1, <3>2
  <2>2. w = [i \in 1..3 |-> w[i]]
    OBVIOUS
  <2> HIDE DEF w, round
  <2>3. QED  BY <2>1, <2>2, Zenon
<1>4. g = all(g)
  <2> HIDE DEF all
  <2>1. QED  BY <1>3, Zenon
<1> HIDE DEF g
<1>5. \A i \in 1..3 : g[i] = round(g, i)
  <2> HIDE DEF round
  <2>1. QED  BY <1>4, Zenon
<1>6. g[1] = a
  BY <1>1, <1>5
<1>7. g[2] = cat(a, b)
  BY <1>1, <1>5, <1>6
<1>8. g[3] = cat(cat(a, b), c)
  BY <1>1, <1>5, <1>7
<1>9. QED  BY <1>2, <1>8 DEF s, cat, Concat

LEMMA OneOf ==
  ASSUME NEW S, NEW x \in S
  PROVE  <<x>> \in Seq(S)
  OBVIOUS

\* What it consists of; the text before the number is one sign, as in the model.
Unhandled == "Unhandled interrupt "
Signs == {"3", "9", Unhandled, "!", "\n"}

LEMMA OneSign == \A x \in Signs : <<x>> \in Seq(Signs)
  BY OneOf

\* The vector of a spurious interrupt, in decimal.
LEMMA VectorDigits == DigitsOf(39, 10) \in Seq(Signs)
<1> DEFINE sign(n) == g_HexChars[n + 1]
           cat(x, y) == x \o y
           ending(n) == <<sign(n % 10)>>
           round(f, n) == IF n \div 10 = 0 THEN ending(n) ELSE cat(f[n \div 10], ending(n))
           all(f) == [n \in 0..39 |-> round(f, n)]
           w == [n \in 0..39 |-> IF n < 10 THEN ending(n) ELSE cat(ending(n \div 10), ending(n))]
           g == CHOOSE f : f = all(f)
<1>1. DigitsOf(39, 10) = g[39]
  BY DEF DigitsOf
<1> HIDE DEF cat
<1>2. w = all(w)
  <2>1. ASSUME NEW n \in 0..39 PROVE w[n] = round(w, n)
    <3> DEFINE q == n \div 10
    <3>1. q \in 0..39 /\ q < 10 /\ (q = 0 <=> n < 10)
      OBVIOUS
    <3>2. w[n] = IF n < 10 THEN ending(n) ELSE cat(ending(q), ending(n))
      OBVIOUS
    <3>3. w[q] = ending(q)
      <4> HIDE DEF ending, q
      <4>1. QED  BY <3>1
    <3> HIDE DEF w, ending, q
    <3>4. QED  BY <3>1, <3>2, <3>3 DEF q
  <2>2. w = [n \in 0..39 |-> w[n]]
    OBVIOUS
  <2> HIDE DEF w, round
  <2>3. QED  BY <2>1, <2>2, Zenon
<1>3. g = all(g)
  <2> HIDE DEF all
  <2>1. QED  BY <1>2, Zenon
<1> HIDE DEF g
<1>4. \A n \in 0..39 : g[n] = round(g, n)
  <2> HIDE DEF round
  <2>1. QED  BY <1>3, Zenon
<1>5. g_HexChars[4] = "3" /\ g_HexChars[10] = "9"
  BY DEF g_HexChars
<1>6. ending(3) = <<g_HexChars[4]>> /\ ending(39) = <<g_HexChars[10]>>
  <2>1. 3 % 10 = 3 /\ 39 % 10 = 9
    OBVIOUS
  <2>2. QED  BY <2>1
<1> HIDE DEF ending
<1>7. g[3] = ending(3)
  <2>1. 3 \in 0..39 /\ 3 \div 10 = 0
    OBVIOUS
  <2>2. QED  BY <1>4, <2>1
<1>8. g[39] = cat(g[3], ending(39))
  <2>1. 39 \in 0..39 /\ 39 \div 10 = 3
    OBVIOUS
  <2>2. QED  BY <1>4, <2>1
<1>9. DigitsOf(39, 10) = <<"3">> \o <<"9">>
  BY <1>1, <1>5, <1>6, <1>7, <1>8 DEF cat
<1>10. <<"3">> \in Seq(Signs) /\ <<"9">> \in Seq(Signs)
  BY OneSign DEF Signs
<1>11. QED
  <2>1. Concat(DigitsOf(39, 10), <<"3">>, <<"9">>)
    BY <1>9 DEF Concat
  <2>2. QED  BY <1>10, <2>1, Joined

SpuriousFormat == <<Unhandled, "%", "d", "!", "\n">>

Machine(m) ==
  m = [state |-> m.state, length |-> m.length, radix |-> m.radix, sign |-> m.sign,
       number |-> m.number, args |-> m.args, out |-> m.out]

LEMMA SignsDiffer == Unhandled # "%" /\ "!" # "%" /\ "\n" # "%"
  BY DEF Unhandled

LEMMA EmitAdds ==
  ASSUME NEW m, Machine(m), NEW str, NEW e, e = Emit(m, str)
  PROVE  /\ Machine(e) /\ e.state = m.state /\ e.length = m.length /\ e.radix = m.radix
         /\ e.sign = m.sign /\ e.number = m.number /\ e.args = m.args /\ Concat(e.out, m.out, str)
<1> DEFINE o == m.out \o str
<1>1. e = [m EXCEPT !.out = o]
  BY DEF Emit
<1> HIDE DEF o
<1>2. e = [state |-> m.state, length |-> m.length, radix |-> m.radix, sign |-> m.sign,
           number |-> m.number, args |-> m.args, out |-> o]
  BY <1>1 DEF Machine
<1>3. /\ Machine(e) /\ e.state = m.state /\ e.length = m.length /\ e.radix = m.radix
      /\ e.sign = m.sign /\ e.number = m.number /\ e.args = m.args /\ e.out = o
  BY <1>2 DEF Machine
<1>4. QED  BY <1>3 DEF o, Concat

LEMMA NormalEmits ==
  ASSUME NEW m, Machine(m), m.state = "normal", NEW c, c # "%", NEW e, e = StepPrintf(m, c)
  PROVE  /\ Machine(e) /\ e.state = "normal" /\ e.length = m.length /\ e.args = m.args
         /\ Concat(e.out, m.out, <<c>>)
<1>1. e = Emit(m, <<c>>)
  BY Zenon DEF StepPrintf, Step
<1>2. QED  BY <1>1, EmitAdds

LEMMA PercentOpens ==
  ASSUME NEW m, Machine(m), m.state = "normal", NEW e, e = StepPrintf(m, "%")
  PROVE  /\ Machine(e) /\ e.state = "length" /\ e.length = m.length /\ e.args = m.args
         /\ e.out = m.out
<1>1. e = [m EXCEPT !.state = "length"]
  BY DEF StepPrintf, Step
<1>2. QED  BY <1>1 DEF Machine

LEMMA DecimalPrints ==
  ASSUME NEW m, Machine(m), m.state = "length", m.length = "default", NEW number, m.args = <<number>>,
         NEW e, e = StepPrintf(m, "d")
  PROVE  /\ Machine(e) /\ e.state = "normal" /\ Concat(e.out, m.out, printf_signed(number, Word, 10))
<1> DEFINE s == Specify(m, "d")
           D == printf_signed(number, Word, 10)
<1>1. e = SpecPrintf(m, "d")
  BY DEF StepPrintf, Step
<1>2. s = [m EXCEPT !.radix = 10, !.sign = TRUE, !.number = TRUE]
  BY DEF Specify
<1>3. s = [state |-> m.state, length |-> m.length, radix |-> 10, sign |-> TRUE,
           number |-> TRUE, args |-> m.args, out |-> m.out]
  BY <1>2 DEF Machine
<1>4. e = Reset(IF s.number THEN PrintNumber(s) ELSE s)
  BY <1>1 DEF SpecPrintf
<1> HIDE DEF s
<1>5. Machine(s) /\ s.length = "default" /\ s.sign = TRUE /\ s.radix = 10 /\ s.number = TRUE /\ s.args = <<number>> /\ s.out = m.out
  BY <1>3 DEF Machine
<1> DEFINE p == Emit(s, D)
           q == Fetch(p, 1)
<1>6. PrintNumber(s) = q
  <2>1. s.args[1] = number
    BY <1>5
  <2>2. QED  BY <1>5, <2>1 DEF PrintNumber
<1>7. Machine(p) /\ Concat(p.out, m.out, D)
  BY <1>5, EmitAdds
<1> HIDE DEF p
<1>8. Machine(q) /\ q.out = p.out
  <2> DEFINE a == SubSeq(p.args, 2, Len(p.args))
  <2>1. q = [p EXCEPT !.args = a]
    BY DEF Fetch
  <2> HIDE DEF a, q
  <2>2. QED  BY <1>7, <2>1 DEF Machine
<1> HIDE DEF q
<1>9. e = Reset(q)
  BY <1>4, <1>5, <1>6
<1>10. Machine(e) /\ e.state = "normal" /\ e.out = q.out
  BY <1>8, <1>9 DEF Reset, Machine
<1>11. QED  BY <1>7, <1>8, <1>10

\* What printf makes of it, from one character to the next.
LEMMA MachinePrints ==
  ASSUME NEW number, printf_signed(number, Word, 10) \in Seq(Signs)
  PROVE  printf(SpuriousFormat, <<number>>) \in Seq(Signs)
<1> DEFINE D == printf_signed(number, Word, 10)
           s == SpuriousFormat
           round(f, n) == IF n = 0 THEN Fresh(<<number>>) ELSE StepPrintf(f[n - 1], s[n])
           all(f) == [n \in 0..5 |-> round(f, n)]
           q0 == Fresh(<<number>>)
           q1 == StepPrintf(q0, Unhandled)
           q2 == StepPrintf(q1, "%")
           q3 == StepPrintf(q2, "d")
           q4 == StepPrintf(q3, "!")
           q5 == StepPrintf(q4, "\n")
           w == [n \in 0..5 |-> IF n = 0 THEN q0 ELSE IF n = 1 THEN q1 ELSE IF n = 2 THEN q2
                                ELSE IF n = 3 THEN q3 ELSE IF n = 4 THEN q4 ELSE q5]
           g == CHOOSE f : f = all(f)
<1>1. Len(s) = 5 /\ s[1] = Unhandled /\ s[2] = "%" /\ s[3] = "d" /\ s[4] = "!" /\ s[5] = "\n"
  BY DEF SpuriousFormat
<1>2. printf(s, <<number>>) = g[5].out
  BY <1>1 DEF printf
<1> HIDE DEF s
<1>3. w = all(w)
  <2>1. ASSUME NEW n \in 0..5 PROVE w[n] = round(w, n)
    <3>1. n = 0 \/ n = 1 \/ n = 2 \/ n = 3 \/ n = 4 \/ n = 5
      OBVIOUS
    <3>2. w[0] = q0 /\ w[1] = q1 /\ w[2] = q2 /\ w[3] = q3 /\ w[4] = q4 /\ w[5] = q5
      <4> HIDE DEF q0, q1, q2, q3, q4, q5
      <4>1. QED  OBVIOUS
    <3> HIDE DEF w
    <3>3. QED  BY <1>1, <3>1, <3>2
  <2>2. w = [n \in 0..5 |-> w[n]]
    OBVIOUS
  <2> HIDE DEF w, round
  <2>3. QED  BY <2>1, <2>2, Zenon
<1>4. g = all(g)
  <2> HIDE DEF all
  <2>1. QED  BY <1>3, Zenon
<1> HIDE DEF g
<1>5. \A n \in 0..5 : g[n] = round(g, n)
  <2> HIDE DEF round
  <2>1. QED  BY <1>4, Zenon
<1>6. g[0] = q0
  BY <1>5
<1>7. g[1] = StepPrintf(g[0], Unhandled) /\ g[2] = StepPrintf(g[1], "%") /\ g[3] = StepPrintf(g[2], "d")
        /\ g[4] = StepPrintf(g[3], "!") /\ g[5] = StepPrintf(g[4], "\n")
  BY <1>1, <1>5
<1> HIDE DEF q0, q1, q2, q3, q4, q5, D
<1>8. Machine(g[0]) /\ g[0].state = "normal" /\ g[0].length = "default" /\ g[0].args = <<number>> /\ g[0].out = <<>>
  <2>1. g[0] = [state |-> "normal", length |-> "default", radix |-> 10, sign |-> FALSE,
              number |-> FALSE, args |-> <<number>>, out |-> <<>>]
    BY <1>6 DEF Fresh, q0
  <2> DEFINE h == g[0]
             given == <<number>>
             none == <<>>
  <2>2. h = [state |-> "normal", length |-> "default", radix |-> 10, sign |-> FALSE,
              number |-> FALSE, args |-> given, out |-> none]
    BY <2>1
  <2> HIDE DEF h, given, none
  <2>3. Machine(h) /\ h.state = "normal" /\ h.length = "default" /\ h.args = given /\ h.out = none
    BY <2>2 DEF Machine
  <2>4. QED  BY <2>3 DEF h, given, none
<1>9. /\ Machine(g[1]) /\ g[1].state = "normal" /\ g[1].length = "default" /\ g[1].args = <<number>>
      /\ Concat(g[1].out, <<>>, <<Unhandled>>)
  BY <1>7, <1>8, NormalEmits, SignsDiffer
<1>10. /\ Machine(g[2]) /\ g[2].state = "length" /\ g[2].length = "default" /\ g[2].args = <<number>>
       /\ g[2].out = g[1].out
  BY <1>7, <1>9, PercentOpens
<1>11. Machine(g[3]) /\ g[3].state = "normal" /\ Concat(g[3].out, g[1].out, D)
  BY <1>7, <1>10, DecimalPrints DEF D
<1>12. Machine(g[4]) /\ g[4].state = "normal" /\ Concat(g[4].out, g[3].out, <<"!">>)
  BY <1>7, <1>11, NormalEmits, SignsDiffer
<1>13. Concat(g[5].out, g[4].out, <<"\n">>)
  BY <1>7, <1>12, NormalEmits, SignsDiffer
<1>14. QED
  <2>1. <<Unhandled>> \in Seq(Signs) /\ <<"!">> \in Seq(Signs) /\ <<"\n">> \in Seq(Signs)
    BY OneSign DEF Signs
  <2>2. g[1].out \in Seq(Signs)
    <3>1. <<>> \in Seq(Signs)
      OBVIOUS
    <3>2. QED  BY <1>9, <2>1, <3>1, Joined
  <2>3. g[3].out \in Seq(Signs)
    BY <1>11, <2>2, Joined DEF D
  <2>4. g[4].out \in Seq(Signs)
    BY <1>12, <2>1, <2>3, Joined
  <2>5. g[5].out \in Seq(Signs)
    BY <1>13, <2>1, <2>4, Joined
  <2>6. QED  BY <1>2, <2>5 DEF s

LEMMA SpuriousText ==
  ASSUME NEW r, r.interrupt = 39
  PROVE  printf(FormatOf(Report(r)[1]), SlotsOf(Report(r)[1])) \in Seq(Signs)
<1> DEFINE pieces == Report(r)[1]
           conversion == Conversion("", "d", <<39>>)
           exclaim == Piece(<<"!", "\n">>)
<1>1. pieces = <<Piece(<<Unhandled>>), conversion, exclaim>>
  <2> DEFINE all == <<Piece(<<Unhandled>>), conversion, exclaim>>
  <2>1. Report(r) = ReportInterrupt(r)
    BY DEF Report
  <2>2. ReportInterrupt(r) = <<all>>
    BY DEF ReportInterrupt, Unhandled
  <2> HIDE DEF all
  <2>3. pieces = all
    BY <2>1, <2>2
  <2>4. QED  BY <2>3 DEF all
<1>2. /\ Piece(<<Unhandled>>).text = <<Unhandled>> /\ Piece(<<Unhandled>>).letter = "" /\ Piece(<<Unhandled>>).slots = <<>>
      /\ exclaim.text = <<"!", "\n">> /\ exclaim.letter = "" /\ exclaim.slots = <<>>
      /\ conversion.length = "" /\ conversion.letter = "d" /\ conversion.slots = <<39>>
  BY DEF Piece, Conversion
<1>3. FormatOf(pieces) = SpuriousFormat
  <2> DEFINE part(i) == IF pieces[i].letter = "" THEN pieces[i].text
                        ELSE <<"%">> \o LengthLetters(pieces[i].length) \o <<pieces[i].letter>>
             parts == [i \in DOMAIN pieces |-> part(i)]
  <2>1. FormatOf(pieces) = FlattenSeq(parts)
    BY DEF FormatOf
  <2> DEFINE a == <<Unhandled>>
             b == <<"%", "d">>
             c == <<"!", "\n">>
             ab == a \o b
             abc == ab \o c
             S == {Unhandled, "%", "d", "!", "\n"}
  <2>2. part(1) = a /\ part(2) = b /\ part(3) = c
    <3> DEFINE one == Piece(<<Unhandled>>)
    <3>1. pieces[1] = one /\ pieces[2] = conversion /\ pieces[3] = exclaim
      <4> HIDE DEF one, conversion, exclaim, pieces
      <4>1. QED  BY <1>1 DEF one
    <3>2. <<"%">> \o LengthLetters("") \o <<"d">> = b
      <4>1. LengthLetters("") = <<>>
        BY DEF LengthLetters
      <4> DEFINE x == <<"%">>
                 y == <<"d">>
      <4>2. x \o <<>> = x
        OBVIOUS
      <4>3. x \o y = b
        <5>1. x \in Seq(S) /\ y \in Seq(S) /\ b \in Seq(S)
          OBVIOUS
        <5>2. Holds(S, x, 1) /\ Holds(S, y, 1) /\ x[1] = "%" /\ y[1] = "d" /\ b[1] = "%" /\ b[2] = "d" /\ Len(b) = 2
          BY <5>1 DEF Holds
        <5> DEFINE z == x \o y
        <5>3. Concat(z, x, y)
          BY DEF Concat
        <5> HIDE DEF x, y, z, b, S
        <5>4. Holds(S, z, 1 + 1) /\ Follows(z, x, 1, y, 1)
          BY <5>2, <5>3, LaidBehind
        <5>5. z \in Seq(S) /\ Len(z) = 2 /\ z[1] = "%" /\ z[2] = "d"
          BY <5>2, <5>4 DEF Holds, Follows
        <5>6. \A i \in 1..Len(z) : z[i] = b[i]
          BY <5>2, <5>5
        <5>7. z = b
          BY <5>1, <5>2, <5>5, <5>6, SeqEqual
        <5>8. QED  BY <5>7 DEF z
      <4> HIDE DEF b, x, y
      <4>4. (x \o <<>>) \o y = b
        BY <4>2, <4>3
      <4>5. QED  BY <4>1, <4>4 DEF x, y
    <3> HIDE DEF pieces, one, conversion, exclaim, a, b, c
    <3>3. QED  BY <1>2, <3>1, <3>2 DEF one, a, c
  <2>4. DOMAIN pieces = 1..3
    <3> HIDE DEF pieces, conversion, exclaim
    <3>1. QED  BY <1>1
  <2>5. parts = <<a, b, c>>
    <3>1. parts = [i \in 1..3 |-> part(i)]
      BY <2>4
    <3> HIDE DEF part, a, b, c
    <3>2. QED  BY <2>2, <3>1
  <2>6. Concat(ab, a, b) /\ Concat(abc, ab, c)
    BY DEF Concat
  <2>7. Holds(S, a, 1) /\ Holds(S, b, 2) /\ Holds(S, c, 2)
    BY DEF Holds
  <2>8. FlattenSeq(parts) = abc
    BY <2>5, <2>6, FlattenThree, Zenon
  <2>9. a[1] = Unhandled /\ b[1] = "%" /\ b[2] = "d" /\ c[1] = "!" /\ c[2] = "\n"
    OBVIOUS
  <2> HIDE DEF a, b, c, ab, abc
  <2>10. Holds(S, ab, 1 + 2) /\ Follows(ab, a, 1, b, 2)
    BY <2>6, <2>7, LaidBehind
  <2>11. Holds(S, abc, 1 + 2 + 2) /\ Follows(abc, ab, 1 + 2, c, 2)
    BY <2>6, <2>7, <2>10, LaidBehind
  <2>12. /\ ab[1] = Unhandled /\ ab[2] = "%" /\ ab[3] = "d"
         /\ abc[1] = ab[1] /\ abc[2] = ab[2] /\ abc[3] = ab[3] /\ abc[4] = "!" /\ abc[5] = "\n"
    BY <2>9, <2>10, <2>11 DEF Follows
  <2>13. abc \in Seq(S) /\ Len(abc) = 5 /\ SpuriousFormat \in Seq(S) /\ Len(SpuriousFormat) = 5
    BY <2>11 DEF Holds, SpuriousFormat
  <2>14. \A i \in 1..5 : abc[i] = SpuriousFormat[i]
    <3>1. /\ SpuriousFormat[1] = Unhandled /\ SpuriousFormat[2] = "%" /\ SpuriousFormat[3] = "d"
          /\ SpuriousFormat[4] = "!" /\ SpuriousFormat[5] = "\n"
      BY DEF SpuriousFormat
    <3>2. \A i \in 1..5 : i = 1 \/ i = 2 \/ i = 3 \/ i = 4 \/ i = 5
      OBVIOUS
    <3>3. QED  BY <2>12, <3>1, <3>2
  <2>15. abc = SpuriousFormat
    BY <2>13, <2>14, SeqEqual
  <2>3. QED  BY <2>1, <2>8, <2>15
<1>4. SlotsOf(pieces) = <<39>>
  <2> DEFINE a == <<>>
             b == <<39>>
  <2>0. pieces[1].slots = a /\ pieces[2].slots = b /\ pieces[3].slots = a /\ DOMAIN pieces = 1..3
    <3> DEFINE one == Piece(<<Unhandled>>)
    <3>1. pieces[1] = one /\ pieces[2] = conversion /\ pieces[3] = exclaim /\ DOMAIN pieces = 1..3
      <4> HIDE DEF one, conversion, exclaim, pieces
      <4>1. QED  BY <1>1 DEF one
    <3>2. one.slots = a /\ conversion.slots = b /\ exclaim.slots = a
      BY <1>2
    <3> HIDE DEF one, conversion, exclaim, pieces, a, b
    <3>3. QED  BY <3>1, <3>2
  <2>1. SlotsOf(pieces) = FlattenSeq(<<a, b, a>>)
    <3> DEFINE parts == [i \in 1..3 |-> pieces[i].slots]
    <3>1. SlotsOf(pieces) = FlattenSeq(parts)
      BY <2>0 DEF SlotsOf
    <3> HIDE DEF a, b, pieces
    <3>2. parts = <<a, b, a>>
      BY <2>0
    <3>3. QED  BY <3>1, <3>2
  <2>2. Concat(b, a, b) /\ Concat(b, b, a)
    BY DEF Concat
  <2> HIDE DEF a, b
  <2>3. FlattenSeq(<<a, b, a>>) = b
    BY <2>2, FlattenThree
  <2>4. QED  BY <2>1, <2>3 DEF b
<1>5. printf_signed(39, Word, 10) = DigitsOf(39, 10)
  <2>1. ~(39 >= Word \div 2)
    BY WordAssumption
  <2>2. QED  BY <2>1 DEF printf_signed, printf_unsigned
<1>6. QED  BY <1>3, <1>4, <1>5, VectorDigits, MachinePrints

-----------------------------------------------------------------------------
(* The cursor at every step of putc, clrscr and setcursor. *)

\* Where main has not yet moved the cursor, or has brought it back.
OnScreen == {"call", "print", "panic", "halt", "desktop", "tab", "right_load", "right_store",
             "down_load", "down_store", "cursor", "index_low", "data_low", "index_high", "data_high",
             "blank_all", "home_x", "home_y"}

\* How far the cursor may be off the screen, step by step, and what main has loaded.
CursorByStep ==
  /\ pc \in OnScreen \cup {"bottom", "scroll", "scroll_blank", "up_load", "up_store"} => con.X < SCREEN_WIDTH
  /\ pc \in OnScreen \cup {"next_load", "next_store"} => con.Y < SCREEN_HEIGHT
  /\ pc = "wrap" => con.X < SCREEN_WIDTH \/ con.Y < SCREEN_HEIGHT
  /\ pc \in {"scroll", "scroll_blank", "up_load", "up_store"} => con.Y >= SCREEN_HEIGHT - 1
  /\ pc = "right_store" => reg \in 0..(SCREEN_WIDTH - 1)
  /\ pc \in {"down_store", "next_store"} => reg \in 0..(SCREEN_HEIGHT - 1)
  /\ pc = "up_store" => reg \in (SCREEN_HEIGHT - 1)..SCREEN_HEIGHT

\* How far setcursor has come, if no interrupt printed meanwhile.
ShownByStep ==
  ~touched =>
    /\ AtRest => Shows(con)
    /\ pc \in {"index_low", "data_low", "index_high", "data_high"} => reg = Position(con)
    /\ pc = "data_low" => con.index = 15
    /\ pc \in {"index_high", "data_high"} => con.cursor[15] = Low(reg)
    /\ pc = "data_high" => con.index = 14

CursorInv == Near(con) /\ CursorByStep /\ ShownByStep

LEMMA CursorInit ==
  ASSUME ConsoleInit
  PROVE  CursorInv
<1> DEFINE k == con
           s == [i \in Cells |-> NUL]
           c == [r \in {14, 15} |-> 0]
<1>1. k = [screen |-> s, X |-> 0, Y |-> 0, index |-> 14, cursor |-> c]
  BY DEF ConsoleInit, Dark
<1>2. DOMAIN c = {14, 15} /\ c = [r \in {14, 15} |-> c[r]] /\ c[14] = 0 /\ c[15] = 0
  OBVIOUS
<1> HIDE DEF s, c, k
<1>3. k.screen = s /\ k.X = 0 /\ k.Y = 0 /\ k.index = 14 /\ k.cursor = c
  BY <1>1
<1>4. Near(k)
  BY <1>1, <1>2, <1>3, ScreenSize DEF Near, Adapter
<1>5. Shows(k)
  <2>1. Position(k) = 0
    BY <1>3, ScreenSize DEF Position
  <2>2. Byte \in Nat \ {0}
    BY ConsoleAssumption
  <2>3. High(0) = 0 /\ Low(0) = 0
    BY <2>2 DEF High, Low
  <2>4. QED  BY <1>2, <1>3, <2>1, <2>3 DEF Shows
<1>6. pc = "call" /\ ~touched
  BY DEF ConsoleInit
<1>7. QED
  BY <1>3, <1>4, <1>5, <1>6, ScreenSize DEF CursorInv, CursorByStep, ShownByStep, OnScreen, AtRest, k

LEMMA Unmoved ==
  ASSUME NEW k, NEW j, j.X = k.X, j.Y = k.Y
  PROVE  Position(j) = Position(k)
  BY DEF Position

LEMMA KeptCursor ==
  ASSUME CursorInv, TextDone \/ RightLoad \/ DownLoad \/ Wrap \/ NextLoad \/ Bottom \/ UpLoad \/ Cursor
  PROVE  CursorInv'
<1> USE ScreenSize DEF CursorInv, Near, CursorByStep, OnScreen, Go, At, Micro
<1>1. con' = con /\ touched' = touched
  BY DEF TextDone, RightLoad, DownLoad, Wrap, NextLoad, Bottom, UpLoad, Cursor
<1>2. Near(con)'
  BY <1>1
<1>3. CursorByStep'
  <2>1. CASE TextDone
    BY <2>1 DEF TextDone
  <2>2. CASE RightLoad
    BY <2>2 DEF RightLoad
  <2>3. CASE DownLoad
    BY <2>3 DEF DownLoad
  <2>4. CASE Wrap
    BY <2>4 DEF Wrap, RowFull
  <2>5. CASE NextLoad
    BY <2>5 DEF NextLoad
  <2>6. CASE Bottom
    BY <2>6 DEF Bottom, OffScreen
  <2>7. CASE UpLoad
    BY <2>7 DEF UpLoad
  <2>8. CASE Cursor
    BY <2>8 DEF Cursor
  <2>9. QED  BY <2>1, <2>2, <2>3, <2>4, <2>5, <2>6, <2>7, <2>8
<1>4. ShownByStep'
  <2>1. CASE Cursor
    <3>1. pc' = "index_low" /\ reg' = Position(con)
      BY <2>1 DEF Cursor
    <3>2. QED  BY <1>1, <3>1 DEF ShownByStep, AtRest
  <2>2. CASE TextDone
    BY <1>1, <2>2 DEF TextDone, ShownByStep, AtRest
  <2>3. CASE RightLoad \/ DownLoad \/ Wrap \/ NextLoad \/ Bottom \/ UpLoad
    <3>1. pc' \in {"right_store", "down_store", "next_load", "bottom", "next_store", "scroll", "cursor", "up_store"}
      BY <2>3 DEF RightLoad, DownLoad, Wrap, NextLoad, Bottom, UpLoad
    <3>2. QED  BY <3>1 DEF ShownByStep, AtRest
  <2>4. QED  BY <2>1, <2>2, <2>3
<1>5. QED  BY <1>2, <1>3, <1>4

\* The steps that move one coordinate.
LEMMA CursorMoved ==
  ASSUME CursorInv, RightStore \/ DownStore \/ NextStore \/ Margin \/ UpStore \/ HomeX \/ HomeY
  PROVE  CursorInv'
<1> USE ScreenSize DEF Near
<1>0. Adapter(con) /\ con.X \in 0..SCREEN_WIDTH /\ con.Y \in 0..SCREEN_HEIGHT /\ CursorByStep
  BY DEF CursorInv
<1>1. ShownByStep'
  <2>1. pc' \in {"wrap", "margin", "bottom", "cursor", "home_y"}
    BY DEF RightStore, DownStore, NextStore, Margin, UpStore, HomeX, HomeY, Go
  <2>2. QED  BY <2>1 DEF ShownByStep, AtRest
<1>2. CASE RightStore
  <2>1. pc = "right_store" /\ pc' = "wrap" /\ con' = [con EXCEPT !.X = reg + 1] /\ reg' = reg
    BY <1>2 DEF RightStore, Go, Micro
  <2>2. Adapter(con') /\ con'.X = reg + 1 /\ con'.Y = con.Y
    BY <1>0, <2>1, MovedX
  <2>3. Near(con)' /\ CursorByStep'
    BY <1>0, <2>1, <2>2 DEF CursorByStep, OnScreen
  <2>4. QED  BY <1>1, <2>3 DEF CursorInv
<1>3. CASE Margin
  <2>1. pc = "margin" /\ pc' = "bottom" /\ con' = [con EXCEPT !.X = 0] /\ reg' = reg
    BY <1>3 DEF Margin, Go, Micro
  <2>2. Adapter(con') /\ con'.X = 0 /\ con'.Y = con.Y
    BY <1>0, <2>1, MovedX
  <2>3. Near(con)' /\ CursorByStep'
    BY <1>0, <2>1, <2>2 DEF CursorByStep, OnScreen
  <2>4. QED  BY <1>1, <2>3 DEF CursorInv
<1>4. CASE HomeX
  <2>1. pc = "home_x" /\ pc' = "home_y" /\ con' = [con EXCEPT !.X = 0] /\ reg' = reg
    BY <1>4 DEF HomeX, Go, Micro
  <2>2. Adapter(con') /\ con'.X = 0 /\ con'.Y = con.Y
    BY <1>0, <2>1, MovedX
  <2>3. Near(con)' /\ CursorByStep'
    BY <1>0, <2>1, <2>2 DEF CursorByStep, OnScreen
  <2>4. QED  BY <1>1, <2>3 DEF CursorInv
<1>5. CASE DownStore
  <2>1. pc = "down_store" /\ pc' = "wrap" /\ con' = [con EXCEPT !.Y = reg + 1] /\ reg' = reg
    BY <1>5 DEF DownStore, Go, Micro
  <2>2. Adapter(con') /\ con'.X = con.X /\ con'.Y = reg + 1
    BY <1>0, <2>1, MovedY
  <2>3. Near(con)' /\ CursorByStep'
    BY <1>0, <2>1, <2>2 DEF CursorByStep, OnScreen
  <2>4. QED  BY <1>1, <2>3 DEF CursorInv
<1>6. CASE NextStore
  <2>1. pc = "next_store" /\ pc' = "margin" /\ con' = [con EXCEPT !.Y = reg + 1] /\ reg' = reg
    BY <1>6 DEF NextStore, Go, Micro
  <2>2. Adapter(con') /\ con'.X = con.X /\ con'.Y = reg + 1
    BY <1>0, <2>1, MovedY
  <2>3. Near(con)' /\ CursorByStep'
    BY <1>0, <2>1, <2>2 DEF CursorByStep, OnScreen
  <2>4. QED  BY <1>1, <2>3 DEF CursorInv
<1>7. CASE UpStore
  <2>1. pc = "up_store" /\ pc' = "cursor" /\ con' = [con EXCEPT !.Y = reg - 1] /\ reg' = reg
    BY <1>7 DEF UpStore, Go, Micro
  <2>2. Adapter(con') /\ con'.X = con.X /\ con'.Y = reg - 1
    BY <1>0, <2>1, MovedY
  <2>3. Near(con)' /\ CursorByStep'
    BY <1>0, <2>1, <2>2 DEF CursorByStep, OnScreen
  <2>4. QED  BY <1>1, <2>3 DEF CursorInv
<1>8. CASE HomeY
  <2>1. pc = "home_y" /\ pc' = "cursor" /\ con' = [con EXCEPT !.Y = 0] /\ reg' = reg
    BY <1>8 DEF HomeY, Go, Micro
  <2>2. Adapter(con') /\ con'.X = con.X /\ con'.Y = 0
    BY <1>0, <2>1, MovedY
  <2>3. Near(con)' /\ CursorByStep'
    BY <1>0, <2>1, <2>2 DEF CursorByStep, OnScreen
  <2>4. QED  BY <1>1, <2>3 DEF CursorInv
<1>9. QED  BY <1>2, <1>3, <1>4, <1>5, <1>6, <1>7, <1>8

\* The steps that change what the screen shows, and nothing else.
LEMMA CursorUnderScreen ==
  ASSUME CursorInv, PutcBegins \/ TabTest \/ Scroll \/ ScrollBlank \/ BlankAll
  PROVE  CursorInv'
<1> USE ScreenSize DEF Near
<1>0. Adapter(con) /\ con.X \in 0..SCREEN_WIDTH /\ con.Y \in 0..SCREEN_HEIGHT /\ CursorByStep /\ ShownByStep
  BY DEF CursorInv
<1>1. ShownByStep'
  <2>1. pc' \in {"down_load", "wrap", "tab", "right_load", "scroll_blank", "up_load", "home_x"}
    BY DEF PutcBegins, TabTest, Scroll, ScrollBlank, BlankAll, Go
  <2>2. QED  BY <2>1 DEF ShownByStep, AtRest
<1>2. Adapter(con') /\ con'.Y = con.Y /\ (con'.X = con.X \/ (PutcBegins /\ con'.X = 0))
  <2>1. SameBut(con, con') \/ (PutcBegins /\ con' = [con EXCEPT !.X = 0])
    <3>1. CASE PutcBegins
      <4>1. con' = con \/ con' = [con EXCEPT !.X = 0] \/ \E c : con' = putchr(con, con.X, con.Y, c)
        BY <3>1, Zenon DEF PutcBegins
      <4>2. SameBut(con, con) /\ \A c : SameBut(con, putchr(con, con.X, con.Y, c))
        BY <1>0, ScreenOnly
      <4>3. CASE con' = con
        BY <4>2, <4>3, Zenon
      <4>4. CASE \E c : con' = putchr(con, con.X, con.Y, c)
        BY <4>2, <4>4, Zenon
      <4>5. QED  BY <3>1, <4>1, <4>3, <4>4
    <3>2. CASE TabTest
      <4>1. con' = con \/ con' = putchr(con, con.X, con.Y, Space)
        BY <3>2, Zenon DEF TabTest
      <4>2. SameBut(con, con) /\ SameBut(con, putchr(con, con.X, con.Y, Space))
        BY <1>0, ScreenOnly
      <4>3. QED  BY <4>1, <4>2, Zenon
    <3>3. CASE Scroll
      BY <1>0, <3>3, ScreenOnly, Zenon DEF Scroll
    <3>4. CASE ScrollBlank
      BY <1>0, <3>4, ScreenOnly, Zenon DEF ScrollBlank
    <3>5. CASE BlankAll
      BY <1>0, <3>5, ScreenOnly, Zenon DEF BlankAll
    <3>6. QED  BY <3>1, <3>2, <3>3, <3>4, <3>5
  <2>2. CASE SameBut(con, con')
    BY <2>2 DEF SameBut
  <2>3. CASE PutcBegins /\ con' = [con EXCEPT !.X = 0]
    BY <1>0, <2>3, MovedX
  <2>4. QED  BY <2>1, <2>2, <2>3
<1>3. /\ \/ pc = "print" /\ pc' \in {"down_load", "wrap", "tab", "right_load"}
         \/ pc = "tab" /\ pc' \in {"right_load", "wrap"}
         \/ pc = "scroll" /\ pc' = "scroll_blank"
         \/ pc = "scroll_blank" /\ pc' = "up_load"
         \/ pc = "blank_all" /\ pc' = "home_x"
      /\ PutcBegins => pc = "print"
  BY DEF PutcBegins, TabTest, Scroll, ScrollBlank, BlankAll, Go, At
<1>4. Near(con)' /\ CursorByStep'
  BY <1>0, <1>2, <1>3 DEF CursorByStep, OnScreen
<1>5. QED  BY <1>1, <1>4 DEF CursorInv

\* The four writes of setcursor.
LEMMA CursorSent ==
  ASSUME CursorInv, IndexLow \/ DataLow \/ IndexHigh \/ DataHigh
  PROVE  CursorInv'
<1> USE ScreenSize DEF Near
<1>0. Adapter(con) /\ con.X \in 0..SCREEN_WIDTH /\ con.Y \in 0..SCREEN_HEIGHT /\ CursorByStep /\ ShownByStep
  BY DEF CursorInv
<1>1. con.index \in {14, 15}
  BY <1>0 DEF Adapter
<1>2. CASE IndexLow
  <2>1. /\ pc = "index_low" /\ pc' = "data_low" /\ con' = OutIndex(con, 15)
        /\ reg' = reg /\ touched' = touched
    BY <1>2 DEF IndexLow, Go, Micro
  <2>2. Adapter(con') /\ con'.X = con.X /\ con'.Y = con.Y /\ con'.index = 15
    BY <1>0, <2>1, Outs
  <2>3. Near(con)' /\ CursorByStep'
    BY <1>0, <2>1, <2>2 DEF CursorByStep, OnScreen
  <2>4. ShownByStep'
    BY <1>0, <2>1, <2>2, Unmoved DEF ShownByStep, AtRest
  <2>5. QED  BY <2>3, <2>4 DEF CursorInv
<1>3. CASE DataLow
  <2>1. /\ pc = "data_low" /\ pc' = "index_high" /\ con' = OutData(con, Low(reg))
        /\ reg' = reg /\ touched' = touched
    BY <1>3 DEF DataLow, Go, Micro
  <2>2. Adapter(con') /\ con'.X = con.X /\ con'.Y = con.Y /\ con'.cursor[con.index] = Low(reg)
    BY <1>0, <2>1, Outs
  <2>3. Near(con)' /\ CursorByStep'
    BY <1>0, <2>1, <2>2 DEF CursorByStep, OnScreen
  <2>4. ShownByStep'
    BY <1>0, <2>1, <2>2, Unmoved DEF ShownByStep, AtRest
  <2>5. QED  BY <2>3, <2>4 DEF CursorInv
<1>4. CASE IndexHigh
  <2>1. /\ pc = "index_high" /\ pc' = "data_high" /\ con' = OutIndex(con, 14)
        /\ reg' = reg /\ touched' = touched
    BY <1>4 DEF IndexHigh, Go, Micro
  <2>2. Adapter(con') /\ con'.X = con.X /\ con'.Y = con.Y /\ con'.index = 14 /\ con'.cursor = con.cursor
    BY <1>0, <2>1, Outs
  <2>3. Near(con)' /\ CursorByStep'
    BY <1>0, <2>1, <2>2 DEF CursorByStep, OnScreen
  <2>4. ShownByStep'
    BY <1>0, <2>1, <2>2, Unmoved DEF ShownByStep, AtRest
  <2>5. QED  BY <2>3, <2>4 DEF CursorInv
<1>5. CASE DataHigh
  <2>1. /\ pc = "data_high" /\ pc' \in {"tab", "print", "call"} /\ con' = OutData(con, High(reg))
        /\ reg' = reg /\ touched' = touched
    BY <1>5 DEF DataHigh, At
  <2>2. /\ Adapter(con') /\ con'.X = con.X /\ con'.Y = con.Y /\ con'.cursor[con.index] = High(reg)
        /\ \A r \in {14, 15} : r # con.index => con'.cursor[r] = con.cursor[r]
    BY <1>0, <2>1, Outs
  <2>3. Near(con)' /\ CursorByStep'
    BY <1>0, <2>1, <2>2 DEF CursorByStep, OnScreen
  <2>4. ShownByStep'
    <3>1. ~touched => con.index = 14 /\ con.cursor[15] = Low(reg) /\ reg = Position(con)
      BY <1>0, <2>1 DEF ShownByStep
    <3>2. ~touched => con'.cursor[14] = High(reg) /\ con'.cursor[15] = Low(reg)
      BY <2>2, <3>1
    <3>3. Position(con') = Position(con)
      BY <2>2, Unmoved
    <3>4. ~touched => Shows(con')
      BY <3>1, <3>2, <3>3 DEF Shows
    <3>5. QED  BY <2>1, <3>4 DEF ShownByStep, AtRest
  <2>5. QED  BY <2>3, <2>4 DEF CursorInv
<1>6. QED  BY <1>2, <1>3, <1>4, <1>5

\* Main between its calls.
LEMMA CursorBetweenCalls ==
  ASSUME CursorInv, NextCall \/ Crash \/ Idle
  PROVE  CursorInv'
<1>0. Near(con) /\ CursorByStep /\ ShownByStep
  BY DEF CursorInv
<1>1. con' = con /\ reg' = reg
  BY DEF NextCall, Crash, Idle, console_vars
<1>2. Near(con)'
  BY <1>0, <1>1
<1>3. /\ \/ pc = "call" /\ pc' \in {"print", "blank_all", "call", "desktop", "halt", "panic"}
         \/ pc' = pc
      /\ touched' = touched \/ pc' = "blank_all"
  BY DEF NextCall, Crash, Idle, At, console_vars
<1>4. CursorByStep'
  BY <1>0, <1>1, <1>3 DEF CursorByStep, OnScreen
<1>5. ShownByStep'
  BY <1>0, <1>1, <1>3 DEF ShownByStep, AtRest
<1>6. QED  BY <1>2, <1>4, <1>5 DEF CursorInv

\* What prints as a handler does: an interrupt, and the echo of a line.
LEMMA CursorCarried ==
  ASSUME CursorInv, Carries(con, con'), pc' = pc, reg' = reg,
         touched' \/ (pc = "call" /\ Shows(con'))
  PROVE  CursorInv'
<1>0. Near(con) /\ CursorByStep
  BY DEF CursorInv
<1>1. Near(con)'
  BY DEF Carries
<1>2. CursorByStep'
  <2>1. /\ con.X < SCREEN_WIDTH => con'.X < SCREEN_WIDTH
        /\ con.Y < SCREEN_HEIGHT => con'.Y < SCREEN_HEIGHT
        /\ con.Y >= SCREEN_HEIGHT - 1 => con'.Y >= SCREEN_HEIGHT - 1
    BY DEF Carries
  <2>2. QED  BY <1>0, <2>1 DEF CursorByStep
<1>3. ShownByStep'
  BY DEF ShownByStep
<1>4. QED  BY <1>1, <1>2, <1>3 DEF CursorInv

LEMMA LineText ==
  ASSUME NEW line \in Seq(STRING)
  PROVE  \E S : line \o CRNL \in Seq(S) /\ Len(line \o CRNL) > 0
<1> DEFINE S == STRING \cup {"\r", "\n"}
           str == line \o CRNL
<1>1. STRING \subseteq S /\ "\r" \in S /\ "\n" \in S
  OBVIOUS
<1> HIDE DEF S
<1>2. line \in Seq(S)
  BY <1>1, SeqMonotonic
<1>3. CRNL \in Seq(S) /\ Len(CRNL) = 2
  BY <1>1 DEF CRNL
<1>4. Concat(str, line, CRNL)
  BY DEF Concat
<1>5. Holds(S, line, Len(line)) /\ Holds(S, CRNL, 2)
  BY <1>2, <1>3 DEF Holds
<1> HIDE DEF str
<1>6. Holds(S, str, Len(line) + 2)
  BY <1>4, <1>5, LaidBehind
<1>7. Len(line) \in Nat
  OBVIOUS
<1>8. str \in Seq(S) /\ Len(str) > 0
  BY <1>6, <1>7 DEF Holds
<1>9. QED  BY <1>8 DEF str

LEMMA CursorEchoed ==
  ASSUME CursorInv, ReadLine
  PROVE  CursorInv'
<1>1. PICK line \in Typed : con' = puts(con, line \o CRNL)
  BY DEF ReadLine
<1>2. PICK S : line \o CRNL \in Seq(S) /\ Len(line \o CRNL) > 0
  BY TypedAssumption, LineText
<1>3. Near(con)
  BY DEF CursorInv
<1>4. Carries(con, con') /\ Shows(con')
  BY <1>1, <1>2, <1>3, PutsCarries
<1>5. pc = "call" /\ pc' = pc /\ reg' = reg
  BY DEF ReadLine, At
<1>6. QED  BY <1>4, <1>5, CursorCarried

LEMMA CursorInterrupted ==
  ASSUME CursorInv, Spurious \/ \E key \in Keys : Key(key)
  PROVE  CursorInv'
<1>1. Near(con) /\ pc' = pc /\ reg' = reg /\ touched'
  BY DEF CursorInv, Spurious, Key, Interrupted
<1>2. CASE Spurious
  <2> DEFINE r == Registers(Frame(Raised(39), SpuriousAt))
             str == printf(FormatOf(Report(r)[1]), SlotsOf(Report(r)[1]))
  <2>1. con' = puts(con, str)
    BY <1>2 DEF Spurious
  <2>2. str \in Seq(Signs)
    <3>1. r.interrupt = 39
      <4>1. Raised(39) \in Met /\ Raised(39).vector = 39
        BY RaisedAs, MetAre
      <4>2. QED  BY <4>1, FrameRead
    <3> HIDE DEF r
    <3>2. QED  BY <3>1, SpuriousText
  <2> HIDE DEF str
  <2>3. Carries(con, con')
    BY <1>1, <2>1, <2>2, PutsCarries
  <2>4. QED  BY <1>1, <2>3, CursorCarried
<1>3. CASE \E key \in Keys : Key(key)
  <2>1. PICK key \in Keys : con' = puts(con, CRNL) \/ con' = putc(con, BS) \/ con' = putc(con, key)
    BY <1>3 DEF Key
  <2>2. CRNL \in Seq({"\r", "\n"})
    BY DEF CRNL
  <2>3. Carries(con, con')
    BY <1>1, <2>1, <2>2, PutsCarries, PutcCarries
  <2>4. QED  BY <1>1, <2>3, CursorCarried
<1>4. QED  BY <1>2, <1>3

LEMMA CursorStep ==
  ASSUME CursorInv, [ConsoleNext]_console_vars
  PROVE  CursorInv'
<1>1. CASE UNCHANGED console_vars
  BY <1>1 DEF console_vars, CursorInv, CursorByStep, ShownByStep, AtRest
<1>2. CASE ConsoleMain
  BY <1>2, KeptCursor, CursorMoved, CursorUnderScreen, CursorSent, CursorBetweenCalls, CursorEchoed DEF ConsoleMain
<1>3. CASE Spurious \/ \E key \in Keys : Key(key)
  BY <1>3, CursorInterrupted
<1>4. CASE Idle
  BY <1>4, CursorBetweenCalls
<1>5. QED  BY <1>1, <1>2, <1>3, <1>4 DEF ConsoleNext

\* CursorInv is inductive: it holds wherever main is in putc, clrscr and setcursor
\* and whatever has printed in between (stdio.c:49-133).
THEOREM CursorInvariant == ConsoleSpec => []CursorInv
<1>1. ConsoleInit => CursorInv
  BY CursorInit
<1>2. CursorInv /\ [ConsoleNext]_console_vars => CursorInv'
  BY CursorStep
<1>3. QED  BY <1>1, <1>2, PTL DEF ConsoleSpec

\* A place on the screen, and a number split into two bytes.
LEMMA PlaceBounded ==
  ASSUME NEW y \in Nat, NEW w \in Nat, NEW h \in Nat, NEW x \in Nat, y <= h, x < w
  PROVE  y * w + x \in Nat /\ y * w + x < w * (h + 1)
<1>1. h * w = y * w + (h - y) * w
  OBVIOUS
<1>2. (h - y) * w \in Nat /\ y * w \in Nat
  OBVIOUS
<1>3. w * (h + 1) = h * w + w
  OBVIOUS
<1>4. QED  BY <1>1, <1>2, <1>3

LEMMA TwoBytes ==
  ASSUME NEW b \in Nat \ {0}, NEW p \in Nat, p < b * b
  PROVE  ((p \div b) % b) * b + (p % b) = p
<1>1. PICK q \in Nat : q = p \div b
  OBVIOUS
<1>2. PICK r \in 0..(b - 1) : r = p % b
  OBVIOUS
<1>3. p = q * b + r
  BY <1>1, <1>2
<1>4. q < b
  <2> SUFFICES ASSUME q >= b PROVE FALSE
    OBVIOUS
  <2>1. q * b = b * b + (q - b) * b
    OBVIOUS
  <2>2. (q - b) * b \in Nat /\ b * b \in Nat
    OBVIOUS
  <2>3. QED  BY <1>3, <2>1, <2>2
<1>5. q % b = q
  BY <1>4
<1>6. QED  BY <1>1, <1>2, <1>3, <1>5

LEMMA CursorSoundFollows ==
  ASSUME CursorInv
  PROVE  CursorSound
<1>0. Near(con) /\ CursorByStep /\ ShownByStep
  BY DEF CursorInv
<1>1. CursorInside
  BY <1>0, ScreenSize DEF Near, CursorByStep, CursorInside, AtRest, OnScreen
<1>2. CursorShown
  <2> SUFFICES ASSUME AtRest, ~touched
               PROVE  con.cursor[14] * Byte + con.cursor[15] = Position(con)
    BY DEF CursorShown
  <2>1. Shows(con) /\ con.X < SCREEN_WIDTH /\ con.X \in Nat /\ con.Y < SCREEN_HEIGHT /\ con.Y \in Nat
    BY <1>0, <1>1, ScreenSize DEF ShownByStep, CursorInside
  <2>2. Position(con) \in Nat /\ Position(con) < SCREEN_WIDTH * (SCREEN_HEIGHT + 1)
    BY <2>1, ScreenSize, PlaceBounded DEF Position
  <2>3. /\ SCREEN_WIDTH * (SCREEN_HEIGHT + 1) < Byte * Byte /\ Byte \in Nat \ {0}
        /\ SCREEN_WIDTH * (SCREEN_HEIGHT + 1) \in Nat /\ Byte * Byte \in Nat
    BY ConsoleAssumption
  <2>4. Position(con) < Byte * Byte
    BY <2>2, <2>3
  <2>5. QED  BY <2>1, <2>2, <2>3, <2>4, TwoBytes DEF Shows, High, Low
<1>3. QED  BY <1>1, <1>2 DEF CursorSound

\* Whatever is interrupted where, no access leaves the memory of the adapter, and
\* the controller shows the cursor there is (stdio.c:49-57, 92-133).
THEOREM CursorAlwaysSound == ConsoleSpec => []CursorSound
<1>1. CursorInv => CursorSound
  BY CursorSoundFollows
<1>2. QED  BY <1>1, CursorInvariant, PTL

\* What is known of the last interrupt through isr_common.
LEMMA FrameKept ==
  ASSUME LastFrameRight, [ConsoleNext]_console_vars
  PROVE  LastFrameRight'
<1>1. CASE frame' = frame
  BY <1>1 DEF LastFrameRight
<1>2. CASE Crash
  <2>1. frame' = <<Raised(128), CrashAt, Registers(Frame(Raised(128), CrashAt)), Resumed(Frame(Raised(128), CrashAt))>>
    BY <1>2 DEF Crash
  <2>2. Raised(128) \in Met
    BY MetAre
  <2>3. QED  BY <2>1, <2>2, FrameRead DEF LastFrameRight, FrameRight
<1>3. CASE Spurious
  <2>1. frame' = <<Raised(39), SpuriousAt, Registers(Frame(Raised(39), SpuriousAt)), Resumed(Frame(Raised(39), SpuriousAt))>>
    BY <1>3 DEF Spurious
  <2>2. Raised(39) \in Met
    BY MetAre
  <2>3. QED  BY <2>1, <2>2, FrameRead DEF LastFrameRight, FrameRight
<1>4. QED
  <2>1. frame' = frame \/ Crash \/ Spurious
    BY DEF ConsoleNext, ConsoleMain, Idle, Key, Keep, Micro, history, console_vars,
      NextCall, ReadLine, TextDone, PutcBegins, TabTest, RightLoad, RightStore, DownLoad, DownStore,
      Wrap, NextLoad, NextStore, Margin, Bottom, Scroll, ScrollBlank, UpLoad, UpStore,
      Cursor, IndexLow, DataLow, IndexHigh, DataHigh, BlankAll, HomeX, HomeY
  <2>2. QED  BY <1>1, <1>2, <1>3, <2>1

\* The handler of a spurious interrupt, of crash_me and of every other vector reads
\* what was pushed, and iret restores it (isr.asm:8-54, isrs_gen.inc, isr.h:5-12).
THEOREM FrameAlwaysWhole == ConsoleSpec => [](EveryFrameRight /\ FrameWhole)
<1>1. EveryFrameRight
  BY MetAre, FrameRead DEF EveryFrameRight, FrameRight
<1>2. ConsoleInit => LastFrameRight
  BY DEF ConsoleInit, LastFrameRight
<1>3. LastFrameRight /\ [ConsoleNext]_console_vars => LastFrameRight'
  BY FrameKept
<1>4. EveryFrameRight /\ LastFrameRight => FrameWhole
  BY DEF FrameWhole
<1>5. QED  BY <1>1, <1>2, <1>3, <1>4, PTL DEF ConsoleSpec

-----------------------------------------------------------------------------
(* The words of a line, and what tokenize takes for one. *)

LEMMA LeastOf ==
  ASSUME NEW P, P \subseteq Nat, P # {}
  PROVE  \E p \in P : \A q \in P : p <= q
<1>1. PICK p \in P : \A q \in P : ~(<<q, p>> \in OpToRel(<, Nat))
  BY NatLessThanWellFounded, WFMin, Zenon
<1>2. \A q \in P : ~(q < p)
  BY <1>1 DEF OpToRel
<1>3. QED  BY <1>2

\* The first blank, or the first sign that is none, from a place on.
FoundSign(line, from, p) ==
  /\ p \in Nat \ {0} /\ p <= Len(line) + 1
  /\ \A q \in from..Len(line) : q < p => line[q] = Space
  /\ p <= Len(line) => p >= from /\ line[p] # Space
FoundBlank(line, from, p) ==
  /\ p \in Nat \ {0} /\ p <= Len(line) + 1
  /\ \A q \in from..Len(line) : q < p => line[q] # Space
  /\ p <= Len(line) => p >= from /\ line[p] = Space

LEMMA FoundFirst ==
  ASSUME NEW S, NEW line \in Seq(S), NEW from \in Nat \ {0}
  PROVE  /\ FoundSign(line, from, SkipSpaces(line, from))
         /\ FoundBlank(line, from, FirstAt(line, from, IsSpace))
<1>0. Len(line) \in Nat
  OBVIOUS
<1>1. FoundSign(line, from, SkipSpaces(line, from))
  <2> DEFINE places == {p \in from..Len(line) : line[p] # Space}
             first == CHOOSE p \in places : \A q \in places : p <= q
  <2>1. SkipSpaces(line, from) = IF places = {} THEN Len(line) + 1 ELSE first
    BY DEF SkipSpaces, FirstAt, IsWord
  <2>2. CASE places = {}
    BY <1>0, <2>1, <2>2 DEF FoundSign
  <2>3. CASE places # {}
    <3>1. \E p \in places : \A q \in places : p <= q
      <4>1. places \subseteq Nat
        BY <1>0
      <4> HIDE DEF places
      <4>2. QED  BY <2>3, <4>1, LeastOf
    <3>2. first \in places /\ \A q \in places : first <= q
      <4> HIDE DEF places
      <4>1. QED  BY <3>1
    <3>3. SkipSpaces(line, from) = first
      BY <2>1, <2>3
    <3> HIDE DEF first
    <3>4. QED  BY <1>0, <3>2, <3>3 DEF FoundSign
  <2>4. QED  BY <2>2, <2>3
<1>2. FoundBlank(line, from, FirstAt(line, from, IsSpace))
  <2> DEFINE places == {p \in from..Len(line) : line[p] = Space}
             first == CHOOSE p \in places : \A q \in places : p <= q
  <2>1. FirstAt(line, from, IsSpace) = IF places = {} THEN Len(line) + 1 ELSE first
    BY DEF FirstAt, IsSpace
  <2>2. CASE places = {}
    BY <1>0, <2>1, <2>2 DEF FoundBlank
  <2>3. CASE places # {}
    <3>1. \E p \in places : \A q \in places : p <= q
      <4>1. places \subseteq Nat
        BY <1>0
      <4> HIDE DEF places
      <4>2. QED  BY <2>3, <4>1, LeastOf
    <3>2. first \in places /\ \A q \in places : first <= q
      <4> HIDE DEF places
      <4>1. QED  BY <3>1
    <3>3. FirstAt(line, from, IsSpace) = first
      BY <2>1, <2>3
    <3> HIDE DEF first
    <3>4. QED  BY <1>0, <3>2, <3>3 DEF FoundBlank
  <2>4. QED  BY <2>2, <2>3
<1>3. QED  BY <1>1, <1>2

Before(line, p) == {q \in Starts(line) : q < p}

LEMMA BeforeFinite ==
  ASSUME NEW S, NEW line \in Seq(S), NEW p \in Nat
  PROVE  /\ IsFiniteSet(Before(line, p)) /\ Cardinality(Before(line, p)) \in Nat
         /\ IsFiniteSet(Starts(line)) /\ Cardinality(Starts(line)) \in Nat
         /\ Cardinality(Before(line, p)) <= Cardinality(Starts(line))
<1>1. Starts(line) \subseteq 1..Len(line) /\ Len(line) \in Nat
  BY DEF Starts
<1>2. IsFiniteSet(Starts(line))
  <2>1. IsFiniteSet(1..Len(line))
    BY <1>1, FS_Interval
  <2>2. QED  BY <1>1, <2>1, FS_Subset
<1>3. Before(line, p) \subseteq Starts(line)
  BY DEF Before
<1>4. QED  BY <1>2, <1>3, FS_Subset, FS_CardinalityType

\* Two starts are told apart by how many lie before them.
LEMMA StartsCounted ==
  ASSUME NEW S, NEW line \in Seq(S), NEW p \in Starts(line), NEW q \in Starts(line), p < q
  PROVE  Cardinality(Before(line, p)) < Cardinality(Before(line, q))
<1>1. p \in Nat /\ q \in Nat
  BY DEF Starts
<1>2. /\ IsFiniteSet(Before(line, p)) /\ Cardinality(Before(line, p)) \in Nat
      /\ IsFiniteSet(Before(line, q)) /\ Cardinality(Before(line, q)) \in Nat
  BY <1>1, BeforeFinite
<1>3. p \notin Before(line, p) /\ Before(line, p) \cup {p} \subseteq Before(line, q)
  <2>1. Starts(line) \subseteq Nat
    BY DEF Starts
  <2>2. QED  BY <1>1, <2>1 DEF Before
<1>4. Cardinality(Before(line, p) \cup {p}) = Cardinality(Before(line, p)) + 1
  BY <1>2, <1>3, FS_AddElement
<1>5. Cardinality(Before(line, p) \cup {p}) <= Cardinality(Before(line, q))
  BY <1>2, <1>3, FS_Subset
<1>6. QED  BY <1>2, <1>4, <1>5

LEMMA WordStartIs ==
  ASSUME NEW S, NEW line \in Seq(S), NEW p \in Starts(line), NEW i \in Nat \ {0},
         Cardinality(Before(line, p)) = i - 1
  PROVE  WordStart(line, i) = p
<1> DEFINE Fits(q) == Cardinality({r \in Starts(line) : r < q}) = i - 1
<1>1. WordStart(line, i) = CHOOSE q \in Starts(line) : Fits(q)
  BY DEF WordStart
<1>2. Fits(p)
  BY DEF Before
<1>3. ASSUME NEW q \in Starts(line), Fits(q) PROVE q = p
  <2>1. Cardinality(Before(line, q)) = i - 1
    BY <1>3 DEF Before
  <2>2. p \in Nat /\ q \in Nat
    BY DEF Starts
  <2>3. ~(p < q) /\ ~(q < p)
    BY <2>1, StartsCounted
  <2>4. QED  BY <2>2, <2>3
<1> HIDE DEF Fits
<1>4. QED  BY <1>1, <1>2, <1>3, Zenon

LEMMA WordAtIs ==
  ASSUME NEW S, NEW line \in Seq(S), NEW p \in 1..Len(line), NEW end \in Nat, p < end, end <= Len(line) + 1,
         \A q \in p..(end - 1) : line[q] # Space, end <= Len(line) => line[end] = Space
  PROVE  WordAt(line, p) = SubSeq(line, p, end - 1)
<1>0. Len(line) \in Nat
  OBVIOUS
<1> DEFINE Fits(n) == Stretches(line, p, n)
           N == 1..(Len(line) - p + 1)
           len == end - p
           m == CHOOSE n \in N : Fits(n)
<1>1. WordAt(line, p) = SubSeq(line, p, p + m - 1)
  BY DEF WordAt
<1>2. len \in N /\ Fits(len)
  BY <1>0 DEF Stretches
<1>3. ASSUME NEW n \in N, Fits(n) PROVE n = len
  <2>1. /\ \A q \in p..(p + n - 1) : line[q] # Space
        /\ p + n > Len(line) \/ line[p + n] = Space
    BY <1>3 DEF Stretches
  <2>2. ~(n < len)
    <3> SUFFICES ASSUME n < len PROVE FALSE
      OBVIOUS
    <3>1. p + n \in p..(end - 1) /\ p + n <= Len(line)
      BY <1>0
    <3>2. QED  BY <1>0, <2>1, <3>1
  <2>3. ~(len < n)
    <3> SUFFICES ASSUME len < n PROVE FALSE
      OBVIOUS
    <3>1. end \in p..(p + n - 1) /\ end <= Len(line)
      BY <1>0
    <3>2. QED  BY <2>1, <3>1
  <2>4. QED  BY <1>0, <2>2, <2>3
<1> HIDE DEF Fits, N, len
<1>4. m = len
  BY <1>2, <1>3, Zenon
<1>5. p + len - 1 = end - 1
  BY DEF len
<1>6. QED  BY <1>1, <1>4, <1>5

\* Where tokenize stands: the words behind it are the arguments so far.
Tokens(S, line, t) ==
  /\ t = [at |-> t.at, argv |-> t.argv] /\ t.at \in Nat \ {0} /\ t.argv \in Seq(Seq(S))
  /\ Len(t.argv) <= MAX_TOKENS /\ Len(t.argv) <= Cardinality(Starts(line))
  /\ \A i \in 1..Len(t.argv) : t.argv[i] = Words(line)[i]
  /\ Cardinality(Before(line, t.at)) = Len(t.argv)
  /\ t.at = 1 \/ t.at > Len(line) \/ line[t.at - 1] = Space
AllTaken(line, t) == Len(t.argv) = MAX_TOKENS \/ \A q \in Starts(line) : q < t.at

LEMMA TokenTakes ==
  ASSUME NEW S, NEW line \in Seq(S), NEW t, Tokens(S, line, t), NEW n \in Nat,
         t.at > n \/ AllTaken(line, t), NEW u, u = Token(line, t)
  PROVE  Tokens(S, line, u) /\ (u.at > n + 1 \/ AllTaken(line, u))
<1> DEFINE start == SkipSpaces(line, t.at)
           end == FirstAt(line, start, IsSpace)
           word == SubSeq(line, start, end - 1)
           k == Len(t.argv)
<1>0. /\ MAX_TOKENS \in Nat \ {0} /\ Len(line) \in Nat /\ t.at \in Nat \ {0} /\ k \in Nat
      /\ Starts(line) \subseteq 1..Len(line)
  BY ExecutorAssumption DEF Tokens, Starts
<1>1. FoundSign(line, t.at, start)
  BY <1>0, FoundFirst
<1>2. CASE t.at > Len(line) \/ k >= MAX_TOKENS \/ start > Len(line)
  <2>1. u = t
    BY <1>2 DEF Token
  <2>2. AllTaken(line, t)
    <3>1. CASE t.at > Len(line)
      BY <1>0, <3>1 DEF AllTaken
    <3>2. CASE k >= MAX_TOKENS
      BY <1>0, <3>2 DEF AllTaken, Tokens
    <3>3. CASE start > Len(line)
      <4> SUFFICES ASSUME NEW q \in Starts(line), ~(q < t.at) PROVE FALSE
        BY DEF AllTaken
      <4>1. q \in t.at..Len(line) /\ q < start /\ line[q] # Space
        <5> HIDE DEF start
        <5>1. QED  BY <1>0, <1>1, <3>3 DEF Starts, FoundSign
      <4>2. QED  BY <1>1, <4>1 DEF FoundSign
    <3>4. QED  BY <1>2, <3>1, <3>2, <3>3
  <2>3. QED  BY <2>1, <2>2
<1>3. CASE ~(t.at > Len(line) \/ k >= MAX_TOKENS \/ start > Len(line))
  <2>1. u = [at |-> end + 1, argv |-> Append(t.argv, word)]
    BY <1>3 DEF Token
  <2> HIDE DEF start
  <2>2. /\ start \in 1..Len(line) /\ start >= t.at /\ line[start] # Space
        /\ \A q \in t.at..Len(line) : q < start => line[q] = Space
        /\ k < MAX_TOKENS
    BY <1>0, <1>1, <1>3 DEF FoundSign
  <2>3. FoundBlank(line, start, end)
    BY <2>2, FoundFirst
  <2> HIDE DEF end
  <2>4. /\ end \in Nat /\ start < end /\ end <= Len(line) + 1
        /\ \A q \in start..(end - 1) : line[q] # Space
        /\ end <= Len(line) => line[end] = Space
    BY <1>0, <2>2, <2>3 DEF FoundBlank
  <2>5. start \in Starts(line)
    <3>1. start = 1 \/ line[start - 1] = Space
      <4>1. CASE start = t.at
        BY <1>3, <4>1 DEF Tokens
      <4>2. CASE start > t.at
        <5>1. start - 1 \in t.at..Len(line) /\ start - 1 < start
          BY <1>0, <2>2, <4>2
        <5>2. QED  BY <2>2, <5>1
      <4>3. QED  BY <1>0, <2>2, <4>1, <4>2
    <3>2. QED  BY <2>2, <3>1 DEF Starts
  <2>6. Before(line, start) = Before(line, t.at)
    <3>1. ASSUME NEW q \in Starts(line) PROVE q < start <=> q < t.at
      <4>1. q \in 1..Len(line) /\ line[q] # Space
        BY <1>0 DEF Starts
      <4>2. QED  BY <1>0, <2>2, <4>1
    <3>2. QED  BY <3>1, Zenon DEF Before
  <2>7. Before(line, end + 1) = Before(line, start) \cup {start}
    <3>1. ASSUME NEW q \in Starts(line) PROVE q < end + 1 <=> (q < start \/ q = start)
      <4>1. q \in 1..Len(line) /\ line[q] # Space /\ (q = 1 \/ line[q - 1] = Space)
        BY <1>0 DEF Starts
      <4>2. ASSUME q > start, q <= end PROVE FALSE
        <5>1. q - 1 \in start..(end - 1)
          BY <2>2, <2>4, <4>1, <4>2
        <5>2. line[q - 1] # Space
          BY <2>4, <5>1
        <5>3. QED  BY <2>2, <4>1, <4>2, <5>2
      <4>3. QED  BY <2>2, <2>4, <4>1, <4>2
    <3>2. QED  BY <2>5, <3>1, Zenon DEF Before
  <2>8. Cardinality(Before(line, start)) = k
    BY <2>6 DEF Tokens
  <2>9. Cardinality(Before(line, end + 1)) = k + 1 /\ k + 1 <= Cardinality(Starts(line))
    <3>1. start \notin Before(line, start) /\ start \in Nat
      BY <2>2 DEF Before
    <3>2. IsFiniteSet(Before(line, start))
      BY <3>1, BeforeFinite
    <3>3. Cardinality(Before(line, start) \cup {start}) = k + 1
      BY <2>8, <3>1, <3>2, FS_AddElement
    <3>4. end + 1 \in Nat
      BY <2>4
    <3>5. Cardinality(Before(line, end + 1)) <= Cardinality(Starts(line))
      BY <3>4, BeforeFinite
    <3>6. QED  BY <2>7, <3>3, <3>5
  <2>10. word = Words(line)[k + 1]
    <3>1. WordStart(line, k + 1) = start
      <4>1. k + 1 \in Nat \ {0} /\ k + 1 - 1 = k
        BY <1>0
      <4>2. QED  BY <2>5, <2>8, <4>1, WordStartIs
    <3>2. WordAt(line, start) = word
      BY <2>2, <2>4, WordAtIs
    <3>3. Cardinality(Starts(line)) \in Nat /\ k + 1 \in 1..Cardinality(Starts(line))
      <4>1. Cardinality(Starts(line)) \in Nat
        BY <2>2, BeforeFinite
      <4>2. QED  BY <1>0, <2>9, <4>1
    <3> HIDE DEF word, k
    <3>4. Words(line)[k + 1] = WordAt(line, WordStart(line, k + 1))
      BY <3>3 DEF Words
    <3>5. QED  BY <3>1, <3>2, <3>4
  <2>11. word \in Seq(S)
    BY <1>0, <2>2, <2>4
  <2> HIDE DEF word
  <2> DEFINE a == Append(t.argv, word)
  <2>12. /\ a \in Seq(Seq(S)) /\ Len(a) = k + 1 /\ a[k + 1] = word
         /\ \A i \in 1..k : a[i] = t.argv[i]
    BY <2>11 DEF Tokens
  <2> HIDE DEF a
  <2>13. u = [at |-> end + 1, argv |-> a] /\ u.at = end + 1 /\ u.argv = a
    BY <2>1 DEF a
  <2>14. \A i \in 1..(k + 1) : a[i] = Words(line)[i]
    <3>1. ASSUME NEW i \in 1..(k + 1) PROVE a[i] = Words(line)[i]
      <4>1. i \in 1..k \/ i = k + 1
        BY <1>0
      <4>2. QED  BY <2>10, <2>12, <4>1 DEF Tokens
    <3>2. QED  BY <3>1
  <2> DEFINE BehindBlank(at) == at = 1 \/ at > Len(line) \/ line[at - 1] = Space
  <2>15. BehindBlank(end + 1)
    <3>1. end + 1 - 1 = end
      BY <2>4
    <3>2. QED  BY <1>0, <2>4, <3>1
  <2>16. Tokens(S, line, u)
    <3>1. k + 1 <= MAX_TOKENS
      BY <1>0, <2>2
    <3>2. end + 1 \in Nat \ {0}
      BY <2>4
    <3>3. u = [at |-> u.at, argv |-> u.argv] /\ u.argv \in Seq(Seq(S)) /\ u.at \in Nat \ {0}
      BY <2>12, <2>13, <3>2
    <3>4. Len(u.argv) = k + 1 /\ Cardinality(Before(line, u.at)) = k + 1
      BY <2>9, <2>12, <2>13
    <3>5. \A i \in 1..(k + 1) : u.argv[i] = Words(line)[i]
      BY <2>13, <2>14
    <3>6. u.at = 1 \/ u.at > Len(line) \/ line[u.at - 1] = Space
      <4>1. u.at = end + 1
        BY <2>13
      <4> HIDE DEF BehindBlank
      <4>2. BehindBlank(u.at)
        BY <2>15, <4>1, Zenon
      <4>3. QED  BY <4>2 DEF BehindBlank
    <3> HIDE DEF k
    <3>7. QED  BY <2>9, <3>1, <3>3, <3>4, <3>5, <3>6 DEF Tokens
  <2>17. u.at > n + 1 \/ AllTaken(line, u)
    <3>1. CASE t.at > n
      BY <1>0, <2>2, <2>4, <2>13, <3>1
    <3>2. CASE AllTaken(line, t)
      <4>1. \A q \in Starts(line) : q < t.at
        BY <2>2, <3>2 DEF AllTaken
      <4>2. QED  BY <1>0, <2>2, <2>5, <4>1
    <3>3. QED  BY <3>1, <3>2
  <2>18. QED  BY <2>16, <2>17
<1>4. QED  BY <1>2, <1>3

TurnsRound(line, f, n) == IF n = 0 THEN [at |-> 1, argv |-> <<>>] ELSE Token(line, f[n - 1])
TurnsBy(line, m, f) == f = [n \in 0..m |-> TurnsRound(line, f, n)]

\* The recursion of tokenize defines a function.
LEMMA TurnsExist ==
  ASSUME NEW line, NEW t \in Nat
  PROVE  \E f : TurnsBy(line, t, f)
<1> DEFINE Bad == {m \in Nat : ~\E f : TurnsBy(line, m, f)}
<1> SUFFICES ASSUME Bad # {} PROVE FALSE
  OBVIOUS
<1>1. PICK m \in Bad : m = 0 \/ m - 1 \in Nat \ Bad
  BY LeastCounterexample
<1>2. ASSUME NEW f, NEW g, NEW n \in Nat, n = 0 \/ f[n - 1] = g[n - 1]
      PROVE  TurnsRound(line, f, n) = TurnsRound(line, g, n)
  BY <1>2 DEF TurnsRound
<1>3. PICK f : m = 0 \/ TurnsBy(line, m - 1, f)
  BY <1>1
<1> DEFINE g == [n \in 0..m |-> TurnsRound(line, f, n)]
<1>4. \A n \in 0..m : n = 0 \/ f[n - 1] = g[n - 1]
  <2> SUFFICES ASSUME NEW n \in 0..m, n # 0 PROVE f[n - 1] = g[n - 1]
    OBVIOUS
  <2>1. n - 1 \in 0..m /\ n - 1 \in 0..(m - 1)
    BY <1>1
  <2>2. g[n - 1] = TurnsRound(line, f, n - 1)
    BY <2>1
  <2>3. f = [i \in 0..(m - 1) |-> TurnsRound(line, f, i)]
    <3>1. m # 0
      BY <1>1
    <3>2. QED  BY <1>3, <3>1, Zenon DEF TurnsBy
  <2>4. f[n - 1] = TurnsRound(line, f, n - 1)
    BY <2>1, <2>3, Zenon
  <2>5. QED  BY <2>2, <2>4
<1>5. g = [n \in 0..m |-> TurnsRound(line, f, n)]
  OBVIOUS
<1> HIDE DEF g
<1>6. \A n \in 0..m : TurnsRound(line, f, n) = TurnsRound(line, g, n)
  BY <1>1, <1>2, <1>4
<1>7. TurnsBy(line, m, g)
  BY <1>5, <1>6, Zenon DEF TurnsBy
<1>8. QED  BY <1>1, <1>7

\* tokenize returns the words of the line, as many as there is room for.
LEMMA TokenizeTakes ==
  ASSUME NEW S, NEW line \in Seq(S)
  PROVE  \E t : /\ Tokens(S, line, t) /\ tokenize(line) = t.argv
                /\ Len(t.argv) = MAX_TOKENS \/ Len(t.argv) = Cardinality(Starts(line))
<1> DEFINE m == Len(line)
           f == CHOOSE g : TurnsBy(line, m, g)
           Good(n) == Tokens(S, line, f[n]) /\ (f[n].at > n \/ AllTaken(line, f[n]))
           Bad == {n \in 0..m : ~Good(n)}
<1>0. m \in Nat
  OBVIOUS
<1>1. TurnsBy(line, m, f)
  <2>1. \E g : TurnsBy(line, m, g)
    BY <1>0, TurnsExist
  <2>2. QED  BY <2>1, Zenon
<1>2. tokenize(line) = f[m].argv
  BY DEF tokenize, TurnsBy, TurnsRound
<1> HIDE DEF f
<1>3. \A n \in 0..m : f[n] = TurnsRound(line, f, n)
  <2>1. f = [n \in 0..m |-> TurnsRound(line, f, n)]
    BY <1>1, Zenon DEF TurnsBy
  <2> HIDE DEF m
  <2>2. QED  BY <2>1, Zenon
<1>4. Bad = {}
  <2> SUFFICES ASSUME Bad # {} PROVE FALSE
    OBVIOUS
  <2>1. PICK n \in Bad : n = 0 \/ n - 1 \in Nat \ Bad
    <3>1. Bad \subseteq Nat
      BY <1>0
    <3> HIDE DEF Bad
    <3>2. QED  BY <3>1, LeastCounterexample
  <2>2. n \in 0..m /\ ~Good(n)
    BY <2>1
  <2>3. CASE n = 0
    <3> DEFINE t == f[0]
    <3>1. t = [at |-> 1, argv |-> <<>>]
      BY <1>0, <1>3 DEF TurnsRound
    <3> HIDE DEF t
    <3>2. t.at = 1 /\ t.argv = <<>> /\ Len(t.argv) = 0
      BY <3>1
    <3>3. Before(line, 1) = {}
      BY DEF Before, Starts
    <3>4. Cardinality(Before(line, t.at)) = 0
      BY <3>2, <3>3, FS_EmptySet
    <3>5. Cardinality(Starts(line)) \in Nat
      BY <1>0, BeforeFinite
    <3>6. MAX_TOKENS \in Nat
      BY ExecutorAssumption
    <3>7. t.argv \in Seq(Seq(S))
      BY <3>2
    <3>8. Tokens(S, line, t) /\ t.at > 0
      BY <3>1, <3>2, <3>4, <3>5, <3>6, <3>7 DEF Tokens
    <3>9. QED  BY <2>2, <2>3, <3>8 DEF t
  <2>4. CASE n # 0
    <3>1. f[n] = Token(line, f[n - 1]) /\ Good(n - 1) /\ n - 1 \in Nat
      BY <1>0, <1>3, <2>1, <2>2, <2>4 DEF TurnsRound
    <3> DEFINE t == f[n - 1]
               u == f[n]
               i == n - 1
    <3>2. Tokens(S, line, t) /\ (t.at > i \/ AllTaken(line, t)) /\ u = Token(line, t) /\ i \in Nat
      BY <3>1
    <3>3. i + 1 = n
      BY <2>2, <1>0
    <3> HIDE DEF t, u, i
    <3>4. Tokens(S, line, u) /\ (u.at > i + 1 \/ AllTaken(line, u))
      BY <3>2, TokenTakes
    <3>5. QED  BY <2>2, <3>3, <3>4 DEF u
  <2>5. QED  BY <2>3, <2>4
<1> DEFINE t == f[m]
<1>5. Tokens(S, line, t) /\ (t.at > m \/ AllTaken(line, t)) /\ tokenize(line) = t.argv
  BY <1>0, <1>2, <1>4
<1> HIDE DEF t
<1>6. ASSUME Len(t.argv) # MAX_TOKENS PROVE Len(t.argv) = Cardinality(Starts(line))
  <2>1. \A q \in Starts(line) : q < t.at
    <3>1. Starts(line) \subseteq 1..m
      BY DEF Starts
    <3>2. QED  BY <1>0, <1>5, <1>6, <3>1 DEF AllTaken, Tokens
  <2>2. Before(line, t.at) = Starts(line)
    BY <2>1 DEF Before
  <2>3. QED  BY <1>5, <2>2 DEF Tokens
<1>7. QED  BY <1>5, <1>6

LEMMA TokenizeRight ==
  ASSUME NEW S, NEW line \in Seq(S)
  PROVE  LET words == Words(line) N == Len(words) argv == tokenize(line) IN
         /\ argv = SubSeq(words, 1, IF N < MAX_TOKENS THEN N ELSE MAX_TOKENS)
         /\ argv = <<>> <=> words = <<>>
         /\ argv # <<>> => argv[1] = words[1]
<1> DEFINE words == Words(line)
           N == Cardinality(Starts(line))
           argv == tokenize(line)
           T == {words[i] : i \in 1..N} \cup Seq(S)
           k == Len(argv)
<1>1. PICK t : /\ Tokens(S, line, t) /\ tokenize(line) = t.argv
               /\ Len(t.argv) = MAX_TOKENS \/ Len(t.argv) = N
  BY TokenizeTakes
<1>2. N \in Nat /\ MAX_TOKENS \in Nat \ {0}
  <2>1. 0 \in Nat
    OBVIOUS
  <2>2. QED  BY <2>1, BeforeFinite, ExecutorAssumption
<1>3. words = [i \in 1..N |-> words[i]]
  BY DEF Words
<1>4. /\ argv \in Seq(Seq(S)) /\ k <= N /\ k <= MAX_TOKENS /\ (k = MAX_TOKENS \/ k = N)
      /\ \A i \in 1..k : argv[i] = words[i]
  BY <1>1 DEF Tokens
<1> HIDE DEF words, argv, N
<1>5. words \in Seq(T) /\ Len(words) = N
  BY <1>2, <1>3
<1>6. argv \in Seq(T)
  <2>1. Seq(S) \subseteq T
    OBVIOUS
  <2> HIDE DEF T
  <2>2. QED  BY <1>4, <2>1, SeqMonotonic
<1> HIDE DEF T
<1>7. k \in Nat /\ k = IF N < MAX_TOKENS THEN N ELSE MAX_TOKENS
  BY <1>2, <1>4, <1>6
<1> DEFINE b == SubSeq(words, 1, k)
<1>8. b \in Seq(T) /\ Len(b) = k /\ \A i \in 1..k : b[i] = words[i]
  <2> HIDE DEF k
  <2>1. QED  BY <1>2, <1>4, <1>5, <1>7
<1>9. argv = b
  <2> HIDE DEF b
  <2>1. \A i \in 1..Len(argv) : argv[i] = b[i]
    BY <1>4, <1>8
  <2>2. Len(argv) = Len(b)
    BY <1>8
  <2>3. QED  BY <1>6, <1>8, <2>1, <2>2, SeqEqual
<1>10. argv = <<>> <=> words = <<>>
  <2>1. argv = <<>> <=> k = 0
    BY <1>6
  <2>2. words = <<>> <=> N = 0
    BY <1>5
  <2>3. QED  BY <1>2, <1>7, <2>1, <2>2
<1>11. argv # <<>> => argv[1] = words[1]
  BY <1>4, <1>6
<1>12. argv = SubSeq(words, 1, IF Len(words) < MAX_TOKENS THEN Len(words) ELSE MAX_TOKENS)
  <2> HIDE DEF k
  <2>1. QED  BY <1>5, <1>7, <1>9
<1>13. QED  BY <1>10, <1>11, <1>12 DEF words, argv

-----------------------------------------------------------------------------
(* The table of commands, and what is looked up in it. *)

Ids == {basics[i] : i \in 1..9} \cup {file_commands[i] : i \in 1..5}

LEMMA RegisteredIs ==
  /\ Registered \in Seq(Ids) /\ Len(Registered) = 14
  /\ \A i \in DOMAIN Registered : Registered[i] # "none"
<1>1. basics = [i \in 1..9 |-> basics[i]] /\ \A i \in 1..9 : basics[i] # "none"
  BY DEF basics
<1>2. file_commands = [i \in 1..5 |-> file_commands[i]] /\ \A i \in 1..5 : file_commands[i] # "none"
  BY DEF file_commands
<1>3. basics \in Seq(Ids) /\ Len(basics) = 9 /\ file_commands \in Seq(Ids) /\ Len(file_commands) = 5
  BY <1>1, <1>2 DEF Ids
<1>4. /\ Registered \in Seq(Ids)
      /\ Len(Registered) = Len(basics) + Len(file_commands)
      /\ \A i \in 1..(Len(basics) + Len(file_commands)) :
           Registered[i] = IF i <= Len(basics) THEN basics[i] ELSE file_commands[i - Len(basics)]
  BY <1>3, ConcatProperties, Zenon DEF Registered
<1>5. Len(Registered) = 14
  BY <1>3, <1>4
<1>6. ASSUME NEW i \in 1..14 PROVE Registered[i] # "none"
  <2>1. Registered[i] = IF i <= 9 THEN basics[i] ELSE file_commands[i - 9]
    BY <1>3, <1>4
  <2>2. CASE i <= 9
    BY <1>1, <2>1, <2>2
  <2>3. CASE i > 9
    <3>1. i - 9 \in 1..5
      BY <2>3
    <3>2. Registered[i] = file_commands[i - 9]
      BY <2>1, <2>3
    <3>3. QED  BY <1>2, <3>1, <3>2
  <2>4. QED  BY <2>2, <2>3
<1>7. DOMAIN Registered = 1..14
  BY <1>4, <1>5, LenProperties, Zenon
<1>8. QED  BY <1>4, <1>5, <1>6, <1>7

\* The table after n registrations holds the first n.
TableRound(f, n) == IF n = 0 THEN <<>> ELSE register_command(f[n - 1], Registered[n])
TableBy(m, f) == f = [n \in 0..m |-> TableRound(f, n)]

LEMMA TableExists ==
  ASSUME NEW t \in Nat
  PROVE  \E f : TableBy(t, f)
<1> DEFINE Bad == {m \in Nat : ~\E f : TableBy(m, f)}
<1> SUFFICES ASSUME Bad # {} PROVE FALSE
  OBVIOUS
<1>1. PICK m \in Bad : m = 0 \/ m - 1 \in Nat \ Bad
  BY LeastCounterexample
<1>2. ASSUME NEW f, NEW g, NEW n \in Nat, n = 0 \/ f[n - 1] = g[n - 1]
      PROVE  TableRound(f, n) = TableRound(g, n)
  BY <1>2 DEF TableRound
<1>3. PICK f : m = 0 \/ TableBy(m - 1, f)
  BY <1>1
<1> DEFINE g == [n \in 0..m |-> TableRound(f, n)]
<1>4. \A n \in 0..m : n = 0 \/ f[n - 1] = g[n - 1]
  <2> SUFFICES ASSUME NEW n \in 0..m, n # 0 PROVE f[n - 1] = g[n - 1]
    OBVIOUS
  <2>1. n - 1 \in 0..m /\ n - 1 \in 0..(m - 1)
    BY <1>1
  <2>2. g[n - 1] = TableRound(f, n - 1)
    BY <2>1
  <2>3. f = [i \in 0..(m - 1) |-> TableRound(f, i)]
    <3>1. m # 0
      BY <1>1
    <3>2. QED  BY <1>3, <3>1, Zenon DEF TableBy
  <2>4. f[n - 1] = TableRound(f, n - 1)
    BY <2>1, <2>3, Zenon
  <2>5. QED  BY <2>2, <2>4
<1>5. g = [n \in 0..m |-> TableRound(f, n)]
  OBVIOUS
<1> HIDE DEF g
<1>6. \A n \in 0..m : TableRound(f, n) = TableRound(g, n)
  BY <1>1, <1>2, <1>4
<1>7. TableBy(m, g)
  BY <1>5, <1>6, Zenon DEF TableBy
<1>8. QED  BY <1>1, <1>7

\* No registration is refused.
LEMMA TableWhole == command_list = Registered
<1> DEFINE m == Len(Registered)
           f == CHOOSE g : TableBy(m, g)
           Good(n) == f[n] = SubSeq(Registered, 1, n)
           Bad == {n \in 0..m : ~Good(n)}
<1>0. m \in Nat /\ m <= MAX_COMMANDS /\ MAX_COMMANDS \in Nat /\ Registered \in Seq(Ids)
  BY RegisteredIs, NamesAssumption, ExecutorAssumption
<1>1. TableBy(m, f)
  <2>1. \E g : TableBy(m, g)
    BY <1>0, TableExists
  <2>2. QED  BY <2>1, Zenon
<1>2. command_list = f[m]
  BY DEF command_list, TableBy, TableRound
<1> HIDE DEF f
<1>3. \A n \in 0..m : f[n] = TableRound(f, n)
  <2>1. f = [n \in 0..m |-> TableRound(f, n)]
    BY <1>1, Zenon DEF TableBy
  <2> HIDE DEF m
  <2>2. QED  BY <2>1, Zenon
<1>4. Bad = {}
  <2> SUFFICES ASSUME Bad # {} PROVE FALSE
    OBVIOUS
  <2>1. PICK n \in Bad : n = 0 \/ n - 1 \in Nat \ Bad
    <3>1. Bad \subseteq Nat
      BY <1>0
    <3> HIDE DEF Bad
    <3>2. QED  BY <3>1, LeastCounterexample
  <2>2. n \in 0..m /\ ~Good(n)
    BY <2>1
  <2>3. CASE n = 0
    <3>1. f[0] = <<>>
      BY <1>0, <1>3 DEF TableRound
    <3>2. SubSeq(Registered, 1, 0) = <<>>
      BY <1>0
    <3>3. QED  BY <2>2, <2>3, <3>1, <3>2
  <2>4. CASE n # 0
    <3>1. f[n] = register_command(f[n - 1], Registered[n]) /\ Good(n - 1) /\ n - 1 \in Nat
      BY <1>0, <1>3, <2>1, <2>2, <2>4 DEF TableRound
    <3> DEFINE list == f[n - 1]
    <3>2. list = SubSeq(Registered, 1, n - 1)
      BY <3>1
    <3>3. list \in Seq(Ids) /\ Len(list) = n - 1 /\ \A i \in 1..(n - 1) : list[i] = Registered[i]
      BY <1>0, <2>2, <3>1, <3>2
    <3> HIDE DEF list
    <3>4. f[n] = Append(list, Registered[n])
      BY <1>0, <2>2, <2>4, <3>1, <3>3 DEF register_command, list
    <3> DEFINE longer == Append(list, Registered[n])
               first == SubSeq(Registered, 1, n)
    <3>5. Registered[n] \in Ids
      BY <1>0, <2>2, <2>4
    <3>6. /\ longer \in Seq(Ids) /\ Len(longer) = n
          /\ first \in Seq(Ids) /\ Len(first) = n
      BY <1>0, <2>2, <2>4, <3>3, <3>5
    <3>7. \A i \in 1..n : longer[i] = first[i]
      BY <1>0, <2>2, <2>4, <3>3, <3>5
    <3> HIDE DEF longer, first
    <3>8. longer = first
      BY <3>6, <3>7, SeqEqual
    <3>9. QED  BY <2>2, <3>4, <3>8 DEF longer, first
  <2>5. QED  BY <2>3, <2>4
<1>5. f[m] = SubSeq(Registered, 1, m)
  BY <1>0, <1>4
<1>6. SubSeq(Registered, 1, m) = Registered
  BY <1>0
<1>7. QED  BY <1>2, <1>5, <1>6

\* The entry found is the one of that name, and there is no other.
LEMMA LookupRight ==
  ASSUME NEW word
  PROVE  \A id \in DOMAIN NameOf : Lookup(word) = id <=> NameOf[id] = word
<1> DEFINE found == {i \in DOMAIN Registered : NameOf[Registered[i]] = word}
           first == CHOOSE i \in found : \A j \in found : i <= j
<1>1. Lookup(word) = IF found = {} THEN "none" ELSE Registered[first]
  BY TableWhole DEF Lookup
<1>2. DOMAIN Registered \subseteq Nat
  BY RegisteredIs
<1>3. "none" \notin DOMAIN NameOf
  BY NamesAssumption, RegisteredIs
<1>4. \A id \in DOMAIN NameOf : \E i \in DOMAIN Registered : id = Registered[i]
  BY NamesAssumption
<1>5. \A i \in DOMAIN Registered : Registered[i] \in DOMAIN NameOf
  BY NamesAssumption
<1>6. CASE found = {}
  <2>1. \A id \in DOMAIN NameOf : NameOf[id] # word
    BY <1>4, <1>6
  <2>2. QED  BY <1>1, <1>3, <1>6, <2>1
<1>7. CASE found # {}
  <2>1. found \subseteq Nat
    BY <1>2
  <2>2. first \in found
    <3> HIDE DEF found
    <3>1. \E i \in found : \A j \in found : i <= j
      BY <1>7, <2>1, LeastOf
    <3>2. QED  BY <3>1
  <2> HIDE DEF first
  <2>3. NameOf[Registered[first]] = word /\ Registered[first] \in DOMAIN NameOf
    BY <1>5, <2>2
  <2>4. Lookup(word) = Registered[first]
    BY <1>1, <1>7
  <2> HIDE DEF found
  <2>5. QED  BY <2>3, <2>4, NamesAssumption
<1>8. QED  BY <1>6, <1>7

-----------------------------------------------------------------------------

LEMMA KeptIs ==
  ASSUME NEW line \in Seq(STRING)
  PROVE  Kept(line, ExecBuffer) \in Seq(STRING)
<1>1. Len(line) \in Nat /\ ExecBuffer - 1 \in Nat
  BY ExecutorAssumption
<1> DEFINE n == IF Len(line) < ExecBuffer - 1 THEN Len(line) ELSE ExecBuffer - 1
<1>2. n \in Nat /\ n <= Len(line)
  BY <1>1
<1>3. Kept(line, ExecBuffer) = SubSeq(line, 1, n)
  BY DEF Kept
<1> HIDE DEF n
<1>4. QED  BY <1>1, <1>2, <1>3

LEMMA CommandReads ==
  ASSUME ReadLine
  PROVE  CommandRight'
<1>1. PICK line \in Typed :
        command' = <<line, tokenize(strncpy(line)),
                     LET argv == tokenize(strncpy(line)) IN IF argv = <<>> THEN "none" ELSE Lookup(argv[1])>>
  BY DEF ReadLine
<1> DEFINE kept == Kept(line, ExecBuffer)
           words == Words(kept)
           argv == tokenize(kept)
           what == IF argv = <<>> THEN "none" ELSE Lookup(argv[1])
<1>2. kept \in Seq(STRING)
  BY TypedAssumption, KeptIs
<1>3. command' = <<line, argv, what>>
  BY <1>1 DEF strncpy
<1> HIDE DEF kept
<1>4. /\ argv = SubSeq(words, 1, IF Len(words) < MAX_TOKENS THEN Len(words) ELSE MAX_TOKENS)
      /\ argv = <<>> <=> words = <<>>
      /\ argv # <<>> => argv[1] = words[1]
  BY <1>2, TokenizeRight
<1> HIDE DEF argv, words
<1>5. \A id \in DOMAIN NameOf : (what = id) <=> (words # <<>> /\ words[1] = NameOf[id])
  <2>1. "none" \notin DOMAIN NameOf
    BY NamesAssumption, RegisteredIs
  <2>2. \A id \in DOMAIN NameOf : Lookup(argv[1]) = id <=> NameOf[id] = argv[1]
    BY LookupRight
  <2>3. QED  BY <1>4, <2>1, <2>2
<1> HIDE DEF what
<1>6. command'[1] = line /\ command'[2] = argv /\ command'[3] = what
  BY <1>3
<1>7. Words(Kept(command'[1], ExecBuffer)) = words
  BY <1>6 DEF words, kept
<1>8. QED  BY <1>4, <1>5, <1>6, <1>7 DEF CommandRight

LEMMA CommandKept ==
  ASSUME CommandRight, [ConsoleNext]_console_vars
  PROVE  CommandRight'
<1>1. CASE command' = command
  BY <1>1 DEF CommandRight
<1>2. CASE ReadLine
  BY <1>2, CommandReads
<1>3. QED
  <2>1. command' = command \/ ReadLine
    BY DEF ConsoleNext, ConsoleMain, Idle, Key, Spurious, Interrupted, Keep, Micro, history, console_vars,
      NextCall, Crash, TextDone, PutcBegins, TabTest, RightLoad, RightStore, DownLoad, DownStore,
      Wrap, NextLoad, NextStore, Margin, Bottom, Scroll, ScrollBlank, UpLoad, UpStore,
      Cursor, IndexLow, DataLow, IndexHigh, DataHigh, BlankAll, HomeX, HomeY
  <2>2. QED  BY <1>1, <1>2, <2>1

\* Whatever line is typed, what runs is the command its first word names, with
\* its words as the arguments, as far as the buffers go (cmd_executor.c:59-95).
THEOREM CommandAlwaysRight == ConsoleSpec => []CommandRight
<1>1. ConsoleInit => CommandRight
  BY DEF ConsoleInit, CommandRight
<1>2. CommandRight /\ [ConsoleNext]_console_vars => CommandRight'
  BY CommandKept
<1>3. QED  BY <1>1, <1>2, PTL DEF ConsoleSpec

-----------------------------------------------------------------------------
(* The calls main makes are sequences, and what they print is text. *)

IsList(s) == s \in Seq(Range(s))

LEMMA ListsJoined ==
  ASSUME NEW a, IsList(a), NEW b, IsList(b)
  PROVE  IsList(a \o b) /\ Range(a \o b) = Range(a) \cup Range(b)
<1> DEFINE ab == a \o b
           S == Range(a) \cup Range(b)
<1>1. a \in Seq(S) /\ b \in Seq(S)
  <2>1. Range(a) \subseteq S /\ Range(b) \subseteq S
    OBVIOUS
  <2> HIDE DEF S
  <2>2. QED  BY <2>1, SeqMonotonic DEF IsList
<1>2. /\ ab \in Seq(S) /\ Len(ab) = Len(a) + Len(b)
      /\ \A i \in 1..(Len(a) + Len(b)) : ab[i] = IF i <= Len(a) THEN a[i] ELSE b[i - Len(a)]
  <2> HIDE DEF S
  <2>1. QED  BY <1>1, ConcatProperties, Zenon
<1> HIDE DEF ab
<1>3. /\ Len(a) \in Nat /\ Len(b) \in Nat /\ DOMAIN a = 1..Len(a) /\ DOMAIN b = 1..Len(b)
      /\ DOMAIN ab = 1..(Len(a) + Len(b))
  <2> HIDE DEF S
  <2>1. QED  BY <1>1, <1>2, LenProperties
<1>4. Range(ab) = S
  <2>1. Range(ab) \subseteq S
    <3>1. \A i \in DOMAIN ab : ab[i] \in S
      <4> HIDE DEF S
      <4>1. QED  BY <1>2
    <3>2. QED  BY <3>1 DEF Range
  <2>2. \A i \in DOMAIN a : i \in DOMAIN ab /\ ab[i] = a[i]
    BY <1>2, <1>3
  <2>3. \A i \in DOMAIN b : i + Len(a) \in DOMAIN ab /\ ab[i + Len(a)] = b[i]
    <3> SUFFICES ASSUME NEW i \in DOMAIN b PROVE i + Len(a) \in DOMAIN ab /\ ab[i + Len(a)] = b[i]
      OBVIOUS
    <3>1. i \in Nat \ {0} /\ i <= Len(b)
      BY <1>3
    <3>2. i + Len(a) \in 1..(Len(a) + Len(b)) /\ ~(i + Len(a) <= Len(a)) /\ i + Len(a) - Len(a) = i
      BY <1>3, <3>1
    <3>3. QED  BY <1>2, <1>3, <3>2
  <2>4. QED  BY <2>1, <2>2, <2>3 DEF Range
<1>5. IsList(ab)
  BY <1>2, <1>4 DEF IsList
<1>6. QED  BY <1>4, <1>5 DEF ab

LEMMA ListMade ==
  ASSUME NEW s, NEW n \in Nat, s = [i \in 1..n |-> s[i]]
  PROVE  IsList(s) /\ \A i \in 1..n : s[i] \in Range(s)
<1>1. \A i \in 1..n : s[i] \in Range(s)
  BY DEF Range
<1>2. QED  BY <1>1 DEF IsList

LEMMA OneListed ==
  ASSUME NEW c
  PROVE  IsList(<<c>>) /\ Range(<<c>>) = {c}
<1>1. Range(<<c>>) = {c}
  BY DEF Range
<1>2. QED  BY <1>1 DEF IsList

LEMMA TailListed ==
  ASSUME NEW s, IsList(s), s # <<>>
  PROVE  IsList(Tail(s)) /\ Range(Tail(s)) \subseteq Range(s) /\ Head(s) \in Range(s)
<1> DEFINE S == Range(s)
           t == Tail(s)
<1>1. s \in Seq(S)
  BY DEF IsList
<1> HIDE DEF S
<1>2. t \in Seq(S) /\ Head(s) \in S
  BY <1>1
<1> HIDE DEF t
<1>3. Range(t) \subseteq S
  BY <1>2 DEF Range
<1>4. t \in Seq(Range(t))
  <2>1. t = [i \in 1..Len(t) |-> t[i]] /\ Len(t) \in Nat
    BY <1>2
  <2>2. QED  BY <2>1, ListMade DEF IsList
<1>5. QED  BY <1>2, <1>3, <1>4 DEF IsList, S, t

LEMMA PiecesListed ==
  ASSUME NEW a, NEW b, NEW c, IsList(a), IsList(b), IsList(c)
  PROVE  IsList(a \o b \o c)
  BY ListsJoined

\* A command's calls are a list.
LEMMA TableListed == IsList(print_command_list)
<1> DEFINE a == <<Line("Available commands:")>>
           b == [i \in DOMAIN command_list |->
                  ConsolePrintf(<<Piece(<<"  ">>), Text(NameOf[command_list[i]]), Piece(<<":", " ">>),
                                  Text(<<command_list[i], "'s help">>), Piece(CRNL)>>)]
<1>1. print_command_list = a \o b
  BY DEF print_command_list
<1>2. IsList(a)
  BY OneListed
<1>3. DOMAIN command_list = 1..14
  BY TableWhole, RegisteredIs
<1>4. b = [i \in 1..14 |-> b[i]]
  BY <1>3
<1>5. IsList(b)
  <2> HIDE DEF b
  <2>1. QED  BY <1>4, ListMade
<1> HIDE DEF a, b
<1>6. QED  BY <1>1, <1>2, <1>5, ListsJoined

LEMMA RowListed ==
  ASSUME NEW sign, NEW message, Len(message) \in Nat
  PROVE  IsList(Row(sign, message))
<1> DEFINE n == Len(message) + 2
           a == <<ConsolePrintf(<<Piece(<<" ">>)>>)>>
           b == [i \in 1..n |-> ConsolePrintf(<<Piece(<<sign>>)>>)]
           c == <<ConsolePrintf(<<Piece(<<"\n">>)>>)>>
<1>1. Row(sign, message) = a \o b \o c
  BY DEF Row
<1>2. IsList(a) /\ IsList(c)
  BY OneListed
<1>3. IsList(b)
  <2>1. n \in Nat
    OBVIOUS
  <2>2. b = [i \in 1..n |-> b[i]]
    OBVIOUS
  <2> HIDE DEF b, n
  <2>3. QED  BY <2>1, <2>2, ListMade
<1> HIDE DEF a, b, c
<1>4. QED  BY <1>1, <1>2, <1>3, PiecesListed

LEMMA CowsayListed ==
  ASSUME NEW message, Len(message) \in Nat
  PROVE  IsList(cowsay(message))
<1> DEFINE a == Row("_", message)
           b == <<ConsolePrintf(<<Piece(<<"<", " ">>), Text(message), Piece(<<" ", ">", "\n">>)>>)>>
           c == Row("-", message)
           d == <<ConsolePrintf(<<Piece(<<"cow">> \o CRNL \o CRNL)>>)>>
<1>1. cowsay(message) = a \o b \o c \o d
  BY DEF cowsay
<1>2. IsList(a) /\ IsList(b) /\ IsList(c) /\ IsList(d)
  BY RowListed, OneListed
<1> HIDE DEF a, b, c, d
<1>3. IsList(a \o b \o c)
  BY <1>2, PiecesListed
<1>4. QED  BY <1>1, <1>2, <1>3, ListsJoined

LEMMA WaffleListed == IsList(cmd_waffle)
<1> DEFINE a == print_splash
           b == [i \in 1..8 |-> Line("waffle")]
           c == <<ConsolePrintf(<<Piece(<<"foot">> \o CRNL \o CRNL)>>)>>
<1>1. cmd_waffle = a \o b \o c
  BY DEF cmd_waffle
<1>2. IsList(a)
  <2>1. a = [i \in 1..3 |-> a[i]]
    BY DEF print_splash
  <2> HIDE DEF a
  <2>2. QED  BY <2>1, ListMade
<1>3. IsList(b)
  <2>1. b = [i \in 1..8 |-> b[i]]
    OBVIOUS
  <2> HIDE DEF b
  <2>2. QED  BY <2>1, ListMade
<1>4. IsList(c)
  BY OneListed
<1> HIDE DEF a, b, c
<1>5. QED  BY <1>1, <1>2, <1>3, <1>4, PiecesListed

LEMMA NothingListed == IsList(<<>>)
  BY DEF IsList, Range

LEMMA FoundOrNone ==
  ASSUME NEW word
  PROVE  Lookup(word) \in Range(Registered) \cup {"none"}
<1> DEFINE found == {i \in DOMAIN Registered : NameOf[Registered[i]] = word}
           first == CHOOSE i \in found : \A j \in found : i <= j
<1>1. Lookup(word) = IF found = {} THEN "none" ELSE Registered[first]
  BY TableWhole DEF Lookup
<1>2. CASE found # {}
  <2>1. found \subseteq Nat
    BY RegisteredIs
  <2>2. first \in found
    <3> HIDE DEF found
    <3>1. \E i \in found : \A j \in found : i <= j
      BY <1>2, <2>1, LeastOf
    <3>2. QED  BY <3>1
  <2>3. first \in DOMAIN Registered
    BY <2>2
  <2> HIDE DEF first, found
  <2>4. QED  BY <1>1, <1>2, <2>3 DEF Range
<1>3. QED  BY <1>1, <1>2

LEMMA RegisteredNames ==
  Range(Registered) \subseteq {"crashme", "clear", "help", "shutdown", "systime", "hello", "waffle", "cowsay",
                               "enablegraphics", "printroot", "mkdir", "touch", "ls", "cd"}
<1> DEFINE names == {"crashme", "clear", "help", "shutdown", "systime", "hello", "waffle", "cowsay",
                     "enablegraphics", "printroot", "mkdir", "touch", "ls", "cd"}
<1>1. basics = [i \in 1..9 |-> basics[i]] /\ \A i \in 1..9 : basics[i] \in names
  BY DEF basics
<1>2. file_commands = [i \in 1..5 |-> file_commands[i]] /\ \A i \in 1..5 : file_commands[i] \in names
  BY DEF file_commands
<1> HIDE DEF names
<1>3. IsList(basics) /\ IsList(file_commands) /\ Range(basics) \subseteq names /\ Range(file_commands) \subseteq names
  <2>1. IsList(basics) /\ IsList(file_commands)
    BY <1>1, <1>2, ListMade
  <2>2. DOMAIN basics = 1..9 /\ DOMAIN file_commands = 1..5
    BY <1>1, <1>2
  <2>3. QED  BY <1>1, <1>2, <2>1, <2>2 DEF Range
<1>4. QED  BY <1>3, ListsJoined DEF Registered, names

\* What execute_command calls for a line.
LEMMA CommandListed ==
  ASSUME NEW line \in Typed
  PROVE  IsList(execute_command(line))
<1> DEFINE argv == tokenize(strncpy(line))
           id == Lookup(argv[1])
<1>1. PICK S : argv \in Seq(Seq(S))
  <2> DEFINE kept == strncpy(line)
  <2>1. kept \in Seq(STRING)
    BY TypedAssumption, KeptIs DEF strncpy
  <2> HIDE DEF kept
  <2>2. \E t : Tokens(STRING, kept, t) /\ tokenize(kept) = t.argv
    BY <2>1, TokenizeTakes
  <2>3. QED  BY <2>2 DEF Tokens, kept
<1>2. execute_command(line) = IF argv = <<>> THEN <<>> ELSE Output(id, argv)
  BY DEF execute_command
<1> HIDE DEF argv, id
<1>3. id \in Range(Registered) \cup {"none"}
  <2> HIDE DEF argv
  <2>1. QED  BY FoundOrNone DEF id
<1>4. ASSUME argv # <<>> PROVE IsList(Output(id, argv))
  <2>1. IsList(cmd_cowsay(argv))
    <3> DEFINE message == IF Len(argv) > 1 THEN argv[2] ELSE <<"WaffleOS!">>
    <3>1. Len(message) \in Nat
      <4>1. CASE Len(argv) > 1
        <5>1. argv[2] \in Seq(S)
          BY <1>1, <4>1
        <5>2. QED  BY <4>1, <5>1
      <4>2. CASE ~(Len(argv) > 1)
        BY <4>2
      <4>3. QED  BY <4>1, <4>2
    <3>2. cmd_cowsay(argv) = cowsay(message)
      BY DEF cmd_cowsay
    <3> HIDE DEF message
    <3>3. QED  BY <3>1, <3>2, CowsayListed
  <2>2. IsList(cmd_systime)
    <3> DEFINE a == cmd_systime
    <3>1. a = [i \in 1..3 |-> a[i]]
      <4> DEFINE x == ConsolePrintf(<<Piece(<<"Time since startup: ">>)>>)
                 y == Printf(<<Text(Time)>>)
                 z == ConsolePrintf(<<Piece(CRNL)>>)
      <4>1. a = <<x, y, z>>
        BY DEF cmd_systime
      <4> HIDE DEF x, y, z, a
      <4>2. QED  BY <4>1
    <3> HIDE DEF a
    <3>2. QED  BY <3>1, ListMade DEF a
  <2>3. /\ IsList(cmd_crashme) /\ IsList(cmd_clear) /\ IsList(cmd_shutdown) /\ IsList(cmd_hello)
        /\ IsList(cmd_enablegraphics) /\ IsList(cmd_printroot) /\ IsList(cmd_ls)
    BY OneListed DEF cmd_crashme, cmd_clear, cmd_shutdown, cmd_hello, cmd_enablegraphics, cmd_printroot, cmd_ls
  <2>4. /\ IsList(cmd_mkdir(argv)) /\ IsList(cmd_touch(argv)) /\ IsList(cmd_cd(argv)) /\ IsList(Unrecognised(argv))
    BY OneListed DEF cmd_mkdir, cmd_touch, cmd_cd, Stubbed, Unrecognised
  <2>5. IsList(cmd_waffle) /\ IsList(print_command_list)
    BY WaffleListed, TableListed
  <2>6. id \in {"crashme", "clear", "help", "shutdown", "systime", "hello", "waffle", "cowsay", "enablegraphics",
                "printroot", "mkdir", "touch", "ls", "cd", "none"}
    BY <1>3, RegisteredNames
  <2>7. QED  BY <2>1, <2>2, <2>3, <2>4, <2>5, <2>6 DEF Output
<1>5. QED  BY <1>2, <1>4, NothingListed

-----------------------------------------------------------------------------
(* Places on the endless paper. *)

LEMMA QuotientIs ==
  ASSUME NEW b \in Nat \ {0}, NEW q \in Nat, NEW r \in 0..(b - 1), NEW x, x = q * b + r
  PROVE  x \div b = q /\ x % b = r
<1>1. x \in Nat
  OBVIOUS
<1>2. PICK d \in Int : d = x \div b
  BY <1>1
<1>3. PICK m \in 0..(b - 1) : m = x % b
  BY <1>1
<1>4. x = d * b + m
  BY <1>1, <1>2, <1>3
<1>5. (q - d) * b = m - r
  BY <1>4
<1>6. q - d = 0
  <2>1. q - d < 1
    <3> SUFFICES ASSUME q - d >= 1 PROVE FALSE
      BY <1>2
    <3>1. (q - d) * b = b + (q - d - 1) * b /\ (q - d - 1) * b \in Nat
      BY <1>2
    <3>2. QED  BY <1>5, <3>1
  <2>2. q - d > -1
    <3> SUFFICES ASSUME d - q >= 1 PROVE FALSE
      BY <1>2
    <3>1. (d - q) * b = b + (d - q - 1) * b /\ (d - q - 1) * b \in Nat
      BY <1>2
    <3>2. (d - q) * b = r - m
      BY <1>4, <1>2
    <3>3. QED  BY <3>1, <3>2
  <2>3. QED  BY <1>2, <2>1, <2>2
<1>7. d = q /\ m = r
  BY <1>2, <1>4, <1>6
<1>8. QED  BY <1>2, <1>3, <1>7

Spot(at) == at.row * SCREEN_WIDTH + at.col
IsPlace(at) == at = [row |-> at.row, col |-> at.col] /\ at.row \in Nat /\ at.col \in 0..(SCREEN_WIDTH - 1)
Along(at, j) == [row |-> at.row + (at.col + j) \div SCREEN_WIDTH, col |-> (at.col + j) % SCREEN_WIDTH]

LEMMA WideEnough == SCREEN_WIDTH \in Nat /\ SCREEN_WIDTH >= 4 /\ SCREEN_WIDTH % 4 = 0
  BY ConsoleAssumption

LEMMA AlongIs ==
  ASSUME NEW at, IsPlace(at), NEW j \in 0..4
  PROVE  /\ IsPlace(Along(at, j)) /\ Spot(Along(at, j)) = Spot(at) + j
         /\ at.col + j < SCREEN_WIDTH => Along(at, j).row = at.row /\ Along(at, j).col = at.col + j
         /\ at.col + j >= SCREEN_WIDTH => Along(at, j).row = at.row + 1 /\ Along(at, j).col = at.col + j - SCREEN_WIDTH
<1> DEFINE w == SCREEN_WIDTH
           x == at.col + j
           a == Along(at, j)
<1>1. w \in Nat \ {0} /\ w >= 4 /\ at.row \in Nat /\ at.col \in 0..(w - 1) /\ x \in Nat
  BY WideEnough DEF IsPlace
<1>2. a = [row |-> at.row + x \div w, col |-> x % w]
  BY DEF Along
<1> HIDE DEF a, x
<1>3. CASE x < w
  <2>1. x = 0 * w + x /\ x \in 0..(w - 1)
    BY <1>1, <1>3
  <2>2. x \div w = 0 /\ x % w = x
    <3> HIDE DEF w
    <3>1. PICK q \in Nat : q = 0
      OBVIOUS
    <3>2. PICK r \in 0..(w - 1) : r = x
      BY <2>1
    <3>3. x = q * w + r
      BY <1>1, <3>1, <3>2
    <3>4. x \div w = q /\ x % w = r
      BY <1>1, <3>3, QuotientIs, Zenon
    <3>5. QED  BY <3>1, <3>2, <3>4
  <2>3. a = [row |-> at.row, col |-> x]
    BY <1>1, <1>2, <2>2
  <2>4. a.row = at.row /\ a.col = x
    BY <2>3
  <2>5. QED  BY <1>1, <1>3, <2>3, <2>4 DEF a, x, IsPlace, Spot
<1>4. CASE x >= w
  <2>1. x = 1 * w + (x - w) /\ x - w \in 0..(w - 1)
    BY <1>1, <1>4 DEF x
  <2>2. x \div w = 1 /\ x % w = x - w
    <3> DEFINE r == x - w
    <3>1. x = 1 * w + r /\ r \in 0..(w - 1)
      BY <2>1
    <3>2. 1 \in Nat
      OBVIOUS
    <3> HIDE DEF w, r
    <3>3. x \div w = 1 /\ x % w = r
      BY <1>1, <3>1, <3>2, QuotientIs, Zenon
    <3>4. QED  BY <3>3 DEF r
  <2>3. a = [row |-> at.row + 1, col |-> x - w]
    BY <1>1, <1>2, <2>2
  <2>4. a.row = at.row + 1 /\ a.col = x - w
    BY <2>3
  <2>5. IsPlace(a)
    BY <1>1, <2>1, <2>3, <2>4 DEF IsPlace
  <2>6. (at.row + 1) * w = at.row * w + w
    BY <1>1
  <2>7. Spot(a) = Spot(at) + j
    BY <1>1, <2>4, <2>6 DEF Spot, x
  <2>8. ~(at.col + j < w)
    BY <1>1, <1>4 DEF x
  <2>9. a.row = at.row + 1 /\ a.col = at.col + j - w
    BY <1>1, <2>4 DEF x
  <2>10. QED  BY <2>5, <2>7, <2>8, <2>9, Zenon DEF a
<1>5. QED  BY <1>1, <1>3, <1>4

\* A tabulator moves two columns from the first and the second of four, one from
\* the third and three from the last; its loop goes on as long as it has not.
LEMMA WidthIs ==
  ASSUME NEW at, IsPlace(at), NEW sign
  PROVE  /\ Width(at, sign) \in 1..3
         /\ sign # "\t" => Width(at, sign) = 1
         /\ \A j \in 0..Width(at, "\t") : j < 4 - (Along(at, j).col % 4) <=> j < Width(at, "\t")
<1>1. SCREEN_WIDTH \in Nat /\ SCREEN_WIDTH >= 4 /\ SCREEN_WIDTH % 4 = 0 /\ at.col \in 0..(SCREEN_WIDTH - 1)
  BY WideEnough DEF IsPlace
<1> DEFINE c == at.col % 4
           w == Width(at, "\t")
<1>2. c \in 0..3
  BY <1>1
<1>3. w = TabColumns[c] /\ (sign # "\t" => Width(at, sign) = 1)
  BY DEF Width
<1> HIDE DEF c, w
<1>4. w = CASE c = 0 -> 2 [] c = 1 -> 2 [] c = 2 -> 1 [] c = 3 -> 3
  BY <1>2, <1>3 DEF TabColumns
<1>5. w \in 1..3
  BY <1>2, <1>4
<1>6. ASSUME NEW j \in 0..w PROVE j < 4 - (Along(at, j).col % 4) <=> j < w
  <2> DEFINE x == Along(at, j).col
  <2>1. x = at.col + j \/ x = at.col + j - SCREEN_WIDTH
    <3>1. j \in 0..4
      BY <1>5
    <3>2. /\ at.col + j < SCREEN_WIDTH => Along(at, j).col = at.col + j
          /\ at.col + j >= SCREEN_WIDTH => Along(at, j).col = at.col + j - SCREEN_WIDTH
      BY <3>1, AlongIs, Zenon
    <3>3. at.col + j \in Int
      BY <1>1, <3>1
    <3> HIDE DEF x
    <3>4. QED  BY <1>1, <3>2, <3>3 DEF x
  <2> HIDE DEF x
  <2>2. x % 4 = (c + j) % 4
    <3>1. PICK q \in Int : at.col = 4 * q + c
      BY <1>1 DEF c
    <3>2. PICK p \in Int : SCREEN_WIDTH = 4 * p
      BY <1>1
    <3>3. PICK y \in Int : x = 4 * y + (c + j)
      <4>1. CASE x = at.col + j
        BY <1>1, <1>2, <1>5, <3>1, <4>1
      <4>2. CASE x = at.col + j - SCREEN_WIDTH
        <5>1. x = 4 * (q - p) + (c + j)
          BY <1>1, <1>2, <1>5, <3>1, <3>2, <4>2
        <5>2. q - p \in Int
          OBVIOUS
        <5>3. QED  BY <5>1, <5>2
      <4>3. QED  BY <2>1, <4>1, <4>2
    <3>4. QED  BY <1>2, <1>5, <3>3
  <2>3. QED  BY <1>2, <1>4, <1>5, <2>2 DEF x
<1>7. Width(at, sign) \in 1..3
  BY <1>3, <1>5 DEF w, Width
<1>8. QED  BY <1>3, <1>6, <1>7 DEF w

-----------------------------------------------------------------------------
(* The endless paper: what is read on it after so many signs. *)

\* Where sign n+1 goes, or the end.
PlaceAfter(p, n) == IF n = Len(p.marks) THEN p.end ELSE p.marks[n + 1].at
PaperSound(p) ==
  /\ IsList(p.marks)
  /\ \A n \in 0..Len(p.marks) : IsPlace(PlaceAfter(p, n))
  /\ \A n \in 1..Len(p.marks) : PlaceAfter(p, n) = Behind(PlaceAfter(p, n - 1), p.marks[n].sign)

Inks(m, spot) == m.sign \notin {"\n", "\r"} /\ spot - Spot(m.at) \in 0..(Width(m.at, m.sign) - 1)
Inked(sign) == IF sign = "\t" THEN Space ELSE sign
Seen(p, n, spot) == {m \in 1..n : Inks(p.marks[m], spot)}
Latest(seen) == CHOOSE m \in seen : \A other \in seen : other <= m
Shown(p, n, spot) == IF Seen(p, n, spot) = {} THEN NUL ELSE Inked(p.marks[Latest(Seen(p, n, spot))].sign)

\* After n signs and j columns of a tabulator.
Sheet(p, n, j) ==
  [spot \in Nat |-> IF spot - Spot(PlaceAfter(p, n)) \in 0..(j - 1) THEN Space ELSE Shown(p, n, spot)]

LEMMA BehindIs ==
  ASSUME NEW at, IsPlace(at), NEW sign
  PROVE  /\ IsPlace(Behind(at, sign))
         /\ sign = "\n" => Behind(at, sign).row = at.row + 1 /\ Behind(at, sign).col = 0
         /\ sign = "\r" => Behind(at, sign).row = at.row /\ Behind(at, sign).col = 0
         /\ sign \notin {"\n", "\r"} => Behind(at, sign) = Along(at, Width(at, sign))
<1>0. SCREEN_WIDTH \in Nat /\ SCREEN_WIDTH >= 4 /\ at.row \in Nat
  BY WideEnough DEF IsPlace
<1>1. CASE sign = "\n"
  <2> DEFINE b == Behind(at, sign)
  <2>1. b = [row |-> at.row + 1, col |-> 0]
    BY <1>1 DEF Behind
  <2> HIDE DEF b
  <2>2. b.row = at.row + 1 /\ b.col = 0 /\ IsPlace(b)
    BY <1>0, <2>1 DEF IsPlace
  <2>3. QED  BY <1>1, <2>2 DEF b
<1>2. CASE sign = "\r"
  <2> DEFINE b == Behind(at, sign)
  <2>1. b = [row |-> at.row, col |-> 0]
    BY <1>2 DEF Behind
  <2> HIDE DEF b
  <2>2. b.row = at.row /\ b.col = 0 /\ IsPlace(b)
    BY <1>0, <2>1 DEF IsPlace
  <2>3. QED  BY <1>2, <2>2 DEF b
<1>3. CASE sign \notin {"\n", "\r"}
  <2> DEFINE w == Width(at, sign)
  <2>1. Behind(at, sign) = Along(at, w)
    BY <1>3 DEF Behind, Along
  <2>2. w \in 0..4
    BY WidthIs
  <2> HIDE DEF w
  <2>3. IsPlace(Along(at, w))
    BY <2>2, AlongIs
  <2>4. QED  BY <1>3, <2>1, <2>3 DEF w
<1>4. QED  BY <1>1, <1>2, <1>3

LEMMA LatestIs ==
  ASSUME NEW n \in Nat, NEW seen \in SUBSET (1..n), seen # {}
  PROVE  Latest(seen) \in seen /\ \A other \in seen : other <= Latest(seen)
<1> DEFINE back == {n - m : m \in seen}
<1>1. back \subseteq Nat /\ back # {}
  <2>1. \A m \in 1..n : n - m \in Nat
    OBVIOUS
  <2>2. QED  BY <2>1
<1>2. \E b \in back : \A c \in back : b <= c
  <2> HIDE DEF back
  <2>1. QED  BY <1>1, LeastOf
<1>3. PICK m \in seen : \A c \in back : n - m <= c
  BY <1>2
<1>4. ASSUME NEW other \in seen PROVE other <= m
  <2>1. n - other \in back
    OBVIOUS
  <2>2. n - m <= n - other /\ other \in Nat /\ m \in Nat
    <3>1. n - m <= n - other
      BY <1>3, <2>1
    <3>2. QED  BY <3>1
  <2>3. QED  BY <2>2
<1>5. QED  BY <1>4 DEF Latest

LEMMA ShownNext ==
  ASSUME NEW p, NEW n \in Nat, NEW spot
  PROVE  Shown(p, n + 1, spot) = IF Inks(p.marks[n + 1], spot) THEN Inked(p.marks[n + 1].sign) ELSE Shown(p, n, spot)
<1> DEFINE a == Seen(p, n, spot)
           b == Seen(p, n + 1, spot)
<1>1. a \subseteq 1..n /\ b \subseteq 1..(n + 1)
  BY DEF Seen
<1>2. CASE Inks(p.marks[n + 1], spot)
  <2>1. n + 1 \in b
    BY <1>2 DEF Seen
  <2>2. Latest(b) \in b /\ \A other \in b : other <= Latest(b)
    <3>1. n + 1 \in Nat /\ b \in SUBSET (1..(n + 1)) /\ b # {}
      BY <1>1, <2>1
    <3> HIDE DEF b
    <3>2. QED  BY <3>1, LatestIs, Zenon
  <2>3. Latest(b) = n + 1
    <3> HIDE DEF b
    <3>1. Latest(b) \in 1..(n + 1) /\ n + 1 <= Latest(b)
      BY <1>1, <2>1, <2>2
    <3>2. QED  BY <3>1
  <2>4. QED  BY <1>2, <2>1, <2>3 DEF Shown
<1>3. CASE ~Inks(p.marks[n + 1], spot)
  <2>1. b = a
    <3>1. 1..(n + 1) = 1..n \cup {n + 1}
      OBVIOUS
    <3>2. QED  BY <1>3, <3>1 DEF Seen
  <2>2. QED  BY <1>3, <2>1 DEF Shown
<1>4. QED  BY <1>2, <1>3

LEMMA SheetAt ==
  ASSUME NEW p, NEW n, NEW j, NEW spot \in Nat
  PROVE  Sheet(p, n, j)[spot] = IF spot - Spot(PlaceAfter(p, n)) \in 0..(j - 1) THEN Space ELSE Shown(p, n, spot)
  BY DEF Sheet

LEMMA SheetClean ==
  ASSUME NEW p, NEW n, NEW spot \in Nat
  PROVE  Sheet(p, n, 0)[spot] = Shown(p, n, spot)
<1>1. 0..(0 - 1) = {}
  OBVIOUS
<1>2. QED  BY <1>1, SheetAt

LEMMA SheetsEqual ==
  ASSUME NEW F, NEW G, F = [spot \in Nat |-> F[spot]], G = [spot \in Nat |-> G[spot]],
         \A spot \in Nat : F[spot] = G[spot]
  PROVE  F = G
<1>1. [spot \in Nat |-> F[spot]] = [spot \in Nat |-> G[spot]]
  OBVIOUS
<1>2. QED  BY <1>1, Zenon

LEMMA SheetIs ==
  ASSUME NEW p, NEW n, NEW j
  PROVE  Sheet(p, n, j) = [spot \in Nat |-> Sheet(p, n, j)[spot]]
  BY DEF Sheet

\* A sign further.
LEMMA SheetNext ==
  ASSUME NEW p, PaperSound(p), NEW n \in 0..(Len(p.marks) - 1), NEW m, m = p.marks[n + 1]
  PROVE  /\ m.at = PlaceAfter(p, n) /\ IsPlace(m.at) /\ n + 1 \in 0..Len(p.marks)
         /\ m.sign \in {"\n", "\r"} => Sheet(p, n + 1, 0) = Sheet(p, n, 0)
         /\ m.sign = "\t" => Sheet(p, n + 1, 0) = Sheet(p, n, Width(m.at, m.sign))
         /\ m.sign \notin {"\n", "\r", "\t"} => Sheet(p, n + 1, 0) = [Sheet(p, n, 0) EXCEPT ![Spot(m.at)] = m.sign]
<1> DEFINE F == Sheet(p, n, 0)
           G == Sheet(p, n + 1, 0)
           at == PlaceAfter(p, n)
<1>1. Len(p.marks) \in Nat /\ n \in Nat
  BY DEF PaperSound, IsList
<1>2. m.at = at /\ IsPlace(at) /\ n + 1 \in 0..Len(p.marks)
  <2>1. n # Len(p.marks)
    BY <1>1
  <2>2. QED  BY <1>1, <2>1 DEF PlaceAfter, PaperSound
<1>3. Spot(at) \in Nat /\ Width(at, m.sign) \in 1..3
  BY <1>2, WidthIs, WideEnough DEF Spot, IsPlace
<1>4. ASSUME NEW spot \in Nat
      PROVE  G[spot] = IF Inks(m, spot) THEN Inked(m.sign) ELSE Shown(p, n, spot)
  BY <1>1, SheetClean, ShownNext
<1>5. \A spot \in Nat : F[spot] = Shown(p, n, spot)
  BY SheetClean
<1>6. F = [spot \in Nat |-> F[spot]] /\ G = [spot \in Nat |-> G[spot]]
  BY SheetIs
<1> HIDE DEF F, G, at
<1>7. CASE m.sign \in {"\n", "\r"}
  <2>1. \A spot \in Nat : F[spot] = G[spot]
    BY <1>4, <1>5, <1>7 DEF Inks
  <2>2. F = G
    BY <1>6, <2>1, SheetsEqual
  <2>3. m.sign # "\t"
    BY <1>7
  <2>4. QED  BY <1>2, <1>7, <2>2, <2>3 DEF F, G, at
<1>8. CASE m.sign = "\t"
  <2> DEFINE w == Width(m.at, m.sign)
             E == Sheet(p, n, w)
  <2>1. E = [spot \in Nat |-> E[spot]]
    BY SheetIs
  <2>2. \A spot \in Nat : E[spot] = IF spot - Spot(at) \in 0..(w - 1) THEN Space ELSE Shown(p, n, spot)
    BY SheetAt DEF at
  <2> HIDE DEF E
  <2>3. \A spot \in Nat : E[spot] = G[spot]
    <3>1. Inked(m.sign) = Space /\ \A spot \in Nat : Inks(m, spot) <=> spot - Spot(at) \in 0..(w - 1)
      BY <1>2, <1>8 DEF Inks, Inked
    <3>2. QED  BY <1>4, <2>2, <3>1
  <2>4. E = G
    BY <1>6, <2>1, <2>3, SheetsEqual
  <2>5. m.sign \notin {"\n", "\r"}
    BY <1>8
  <2>6. QED  BY <1>2, <1>8, <2>4, <2>5 DEF E, G, at
<1>9. CASE m.sign \notin {"\n", "\r", "\t"}
  <2> DEFINE E == [F EXCEPT ![Spot(at)] = m.sign]
  <2>1. E = [spot \in Nat |-> E[spot]] /\ \A spot \in Nat : E[spot] = IF spot = Spot(at) THEN m.sign ELSE F[spot]
    <3>1. DOMAIN F = Nat
      BY <1>6
    <3>2. QED  BY <1>3, <3>1
  <2> HIDE DEF E
  <2>2. ASSUME NEW spot \in Nat PROVE E[spot] = G[spot]
    <3>1. Width(m.at, m.sign) = 1
      BY <1>2, <1>9, WidthIs
    <3>2. Inks(m, spot) <=> spot = Spot(at)
      BY <1>2, <1>3, <1>9, <3>1 DEF Inks
    <3>3. Inked(m.sign) = m.sign
      BY <1>9 DEF Inked
    <3>4. QED  BY <1>4, <1>5, <2>1, <3>2, <3>3
  <2>3. E = G
    BY <1>6, <2>1, <2>2, SheetsEqual
  <2>4. QED  BY <1>2, <1>9, <2>3 DEF E, F, G, at
<1>10. QED  BY <1>7, <1>8, <1>9

\* A column of a tabulator further.
LEMMA SheetColumn ==
  ASSUME NEW p, NEW n, IsPlace(PlaceAfter(p, n)), NEW j \in Nat
  PROVE  Sheet(p, n, j + 1) = [Sheet(p, n, j) EXCEPT ![Spot(PlaceAfter(p, n)) + j] = Space]
<1> DEFINE F == Sheet(p, n, j)
           G == Sheet(p, n, j + 1)
           s == Spot(PlaceAfter(p, n))
           E == [F EXCEPT ![s + j] = Space]
<1>1. s \in Nat
  BY WideEnough DEF IsPlace, Spot
<1>2. F = [spot \in Nat |-> F[spot]] /\ G = [spot \in Nat |-> G[spot]]
  BY SheetIs
<1>3. \A spot \in Nat : F[spot] = IF spot - s \in 0..(j - 1) THEN Space ELSE Shown(p, n, spot)
  BY SheetAt
<1>4. \A spot \in Nat : G[spot] = IF spot - s \in 0..(j + 1 - 1) THEN Space ELSE Shown(p, n, spot)
  BY SheetAt
<1> HIDE DEF F, G, s
<1>5. E = [spot \in Nat |-> E[spot]] /\ \A spot \in Nat : E[spot] = IF spot = s + j THEN Space ELSE F[spot]
  <2>1. DOMAIN F = Nat
    BY <1>2
  <2>2. QED  BY <1>1, <2>1
<1> HIDE DEF E
<1>6. ASSUME NEW spot \in Nat PROVE E[spot] = G[spot]
  <2>1. spot - s \in 0..(j + 1 - 1) <=> (spot - s \in 0..(j - 1) \/ spot = s + j)
    BY <1>1
  <2>2. QED  BY <1>3, <1>4, <1>5, <2>1
<1>7. E = G
  BY <1>2, <1>5, <1>6, SheetsEqual
<1>8. QED  BY <1>7 DEF E, F, G, s

-----------------------------------------------------------------------------
(* Writing on the endless paper. *)

PlaceRound(p, str, f, n) == IF n = 0 THEN p.end ELSE Behind(f[n - 1], str[n])
PlacesBy(p, str, t, f) == f = [n \in 0..t |-> PlaceRound(p, str, f, n)]

\* The recursion of Written defines a function.
LEMMA PlacesExist ==
  ASSUME NEW p, NEW str, NEW t \in Nat
  PROVE  \E f : PlacesBy(p, str, t, f)
<1> DEFINE Bad == {m \in Nat : ~\E f : PlacesBy(p, str, m, f)}
<1> SUFFICES ASSUME Bad # {} PROVE FALSE
  OBVIOUS
<1>1. PICK m \in Bad : m = 0 \/ m - 1 \in Nat \ Bad
  BY LeastCounterexample
<1>2. ASSUME NEW f, NEW g, NEW n \in Nat, n = 0 \/ f[n - 1] = g[n - 1]
      PROVE  PlaceRound(p, str, f, n) = PlaceRound(p, str, g, n)
  BY <1>2 DEF PlaceRound
<1>3. CASE m = 0
  <2> DEFINE f == [n \in 0..0 |-> PlaceRound(p, str, <<>>, n)]
  <2>1. \A n \in 0..0 : PlaceRound(p, str, f, n) = PlaceRound(p, str, <<>>, n)
    <3> HIDE DEF f
    <3>1. QED  BY <1>2
  <2>2. PlacesBy(p, str, 0, f)
    <3>1. f = [n \in 0..0 |-> PlaceRound(p, str, <<>>, n)]
      OBVIOUS
    <3> HIDE DEF f
    <3>2. QED  BY <2>1, <3>1, Zenon DEF PlacesBy
  <2>3. QED  BY <1>3, <2>2
<1>4. CASE m # 0
  <2>1. PICK f : PlacesBy(p, str, m - 1, f)
    BY <1>1, <1>4
  <2> DEFINE g == [n \in 0..m |-> PlaceRound(p, str, f, n)]
  <2>2. \A n \in 0..m : g[n] = PlaceRound(p, str, f, n)
    OBVIOUS
  <2>3. f = [n \in 0..(m - 1) |-> PlaceRound(p, str, f, n)]
    BY <2>1, Zenon DEF PlacesBy
  <2>4. \A n \in 0..(m - 1) : f[n] = PlaceRound(p, str, f, n)
    BY <2>3, Zenon
  <2>5. g = [n \in 0..m |-> PlaceRound(p, str, f, n)]
    OBVIOUS
  <2> HIDE DEF g
  <2>6. \A n \in 0..m : PlaceRound(p, str, f, n) = PlaceRound(p, str, g, n)
    <3>1. ASSUME NEW n \in 0..m PROVE n = 0 \/ f[n - 1] = g[n - 1]
      BY <2>2, <2>4
    <3>2. QED  BY <1>2, <3>1
  <2>7. PlacesBy(p, str, m, g)
    BY <2>5, <2>6, Zenon DEF PlacesBy
  <2>8. QED  BY <2>7
<1>5. QED  BY <1>3, <1>4

\* What stood there still does; the new signs follow, each behind the one before.
Adds(p, str, q) ==
  /\ PaperSound(q) /\ Len(q.marks) = Len(p.marks) + Len(str)
  /\ \A n \in 1..Len(p.marks) : q.marks[n] = p.marks[n]
  /\ \A n \in 0..Len(p.marks) : PlaceAfter(q, n) = PlaceAfter(p, n)
  /\ \A i \in 1..Len(str) : q.marks[Len(p.marks) + i].sign = str[i]

LEMMA WrittenAdds ==
  ASSUME NEW p, PaperSound(p), NEW str, IsList(str), NEW q, q = Written(p, str)
  PROVE  Adds(p, str, q)
<1> DEFINE t == Len(str)
           f == CHOOSE g : PlacesBy(p, str, t, g)
           more == [n \in 1..t |-> [sign |-> str[n], at |-> f[n - 1]]]
           u == Len(p.marks)
<1>0. t \in Nat /\ DOMAIN str = 1..t /\ u \in Nat /\ IsList(p.marks)
  <2>1. t \in Nat /\ DOMAIN str = 1..t
    BY LenProperties, Zenon DEF IsList
  <2>2. u \in Nat
    BY DEF PaperSound, IsList
  <2>3. QED  BY <2>1, <2>2 DEF PaperSound
<1>1. PlacesBy(p, str, t, f)
  <2>1. \E g : PlacesBy(p, str, t, g)
    BY <1>0, PlacesExist
  <2>2. QED  BY <2>1, Zenon
<1>2. Written(p, str) = [marks |-> p.marks \o [n \in DOMAIN str |-> [sign |-> str[n], at |-> f[n - 1]]], end |-> f[t]]
  BY DEF Written, PlacesBy, PlaceRound
<1>3. q.marks = p.marks \o more /\ q.end = f[t]
  BY <1>0, <1>2
<1> HIDE DEF f
<1>4. \A n \in 0..t : f[n] = PlaceRound(p, str, f, n)
  <2>1. f = [n \in 0..t |-> PlaceRound(p, str, f, n)]
    BY <1>1, Zenon DEF PlacesBy
  <2>2. QED  BY <2>1, Zenon
<1>5. IsList(more) /\ Len(more) = t /\ \A i \in 1..t : more[i].sign = str[i] /\ more[i].at = f[i - 1]
  <2>1. \A i \in 1..t : more[i].sign = str[i] /\ more[i].at = f[i - 1]
    OBVIOUS
  <2>2. more = [i \in 1..t |-> more[i]] /\ Len(more) = t
    BY <1>0
  <2> HIDE DEF more, t
  <2>3. QED  BY <1>0, <2>1, <2>2, ListMade
<1> HIDE DEF more, t, u
<1>6. /\ IsList(q.marks) /\ Len(q.marks) = u + t
      /\ \A n \in 1..u : q.marks[n] = p.marks[n]
      /\ \A i \in 1..t : q.marks[u + i] = more[i]
  <2>1. IsList(q.marks)
    BY <1>0, <1>3, <1>5, ListsJoined
  <2>2. PICK S : p.marks \in Seq(S) /\ more \in Seq(S)
    <3>1. Range(p.marks) \subseteq Range(p.marks) \cup Range(more) /\ Range(more) \subseteq Range(p.marks) \cup Range(more)
      OBVIOUS
    <3>2. p.marks \in Seq(Range(p.marks) \cup Range(more)) /\ more \in Seq(Range(p.marks) \cup Range(more))
      BY <1>0, <1>5, <3>1, SeqMonotonic DEF IsList
    <3>3. QED  BY <3>2
  <2>3. /\ Len(q.marks) = u + t
        /\ \A i \in 1..(u + t) : q.marks[i] = IF i <= u THEN p.marks[i] ELSE more[i - u]
    <3> DEFINE a == p.marks
    <3>1. q.marks = a \o more /\ a \in Seq(S) /\ more \in Seq(S) /\ Len(a) = u /\ Len(more) = t
      BY <1>3, <1>5, <2>2 DEF u
    <3> HIDE DEF a
    <3>2. /\ Len(a \o more) = Len(a) + Len(more)
          /\ \A i \in 1..(Len(a) + Len(more)) : (a \o more)[i] = IF i <= Len(a) THEN a[i] ELSE more[i - Len(a)]
      BY <3>1, ConcatProperties, Zenon
    <3>3. QED  BY <3>1, <3>2, Zenon DEF a
  <2>4. \A n \in 1..u : q.marks[n] = p.marks[n]
    BY <1>0, <2>3
  <2>5. ASSUME NEW i \in 1..t PROVE q.marks[u + i] = more[i]
    <3>1. PICK n \in 1..(u + t) : n = u + i /\ ~(n <= u) /\ n - u = i
      BY <1>0
    <3>2. q.marks[n] = IF n <= u THEN p.marks[n] ELSE more[n - u]
      BY <2>3, <3>1, Zenon
    <3>3. QED  BY <3>1, <3>2, Zenon
  <2>6. QED  BY <2>1, <2>3, <2>4, <2>5
<1>7. f[0] = PlaceAfter(p, u)
  BY <1>0, <1>4 DEF PlaceRound, PlaceAfter, u
<1>8. ASSUME NEW n \in 0..t PROVE PlaceAfter(q, u + n) = f[n]
  <2>1. CASE n = t
    BY <1>3, <1>6, <2>1 DEF PlaceAfter
  <2>2. CASE n # t
    <3>1. n + 1 \in 1..t /\ u + n # u + t /\ u + n + 1 = u + (n + 1) /\ n + 1 - 1 = n
      BY <1>0, <2>2
    <3>2. q.marks[u + (n + 1)] = more[n + 1] /\ more[n + 1].at = f[n]
      BY <1>5, <1>6, <3>1
    <3>3. QED  BY <1>6, <3>1, <3>2 DEF PlaceAfter
  <2>3. QED  BY <2>1, <2>2
<1>9. ASSUME NEW n \in 0..u PROVE PlaceAfter(q, n) = PlaceAfter(p, n)
  <2>1. CASE n = u
    BY <1>0, <1>7, <1>8, <2>1
  <2>2. CASE n # u
    <3>1. n + 1 \in 1..u /\ n # u + t
      BY <1>0, <2>2
    <3>2. QED  BY <1>6, <2>2, <3>1 DEF PlaceAfter, u
  <2>3. QED  BY <2>1, <2>2
<1>10. ASSUME NEW n \in 1..t PROVE f[n] = Behind(f[n - 1], str[n])
  BY <1>0, <1>4 DEF PlaceRound
<1>11. \A n \in 0..t : IsPlace(f[n])
  <2> DEFINE Bad == {n \in 0..t : ~IsPlace(f[n])}
  <2> SUFFICES ASSUME Bad # {} PROVE FALSE
    OBVIOUS
  <2>1. PICK n \in Bad : n = 0 \/ n - 1 \in Nat \ Bad
    <3>1. Bad \subseteq Nat
      BY <1>0
    <3> HIDE DEF Bad
    <3>2. QED  BY <3>1, LeastCounterexample
  <2>2. n # 0
    <3>1. IsPlace(f[0])
      BY <1>0, <1>7 DEF PaperSound, u
    <3>2. QED  BY <2>1, <3>1
  <2>3. n \in 1..t /\ IsPlace(f[n - 1])
    BY <1>0, <2>1, <2>2
  <2>4. QED  BY <1>10, <2>1, <2>3, BehindIs
<1>12. ASSUME NEW n \in 0..(u + t)
       PROVE  /\ IsPlace(PlaceAfter(q, n))
              /\ n # 0 => PlaceAfter(q, n) = Behind(PlaceAfter(q, n - 1), q.marks[n].sign)
  <2>1. CASE n <= u
    <3>1. n \in 0..u
      BY <1>0, <2>1
    <3>2. IsPlace(PlaceAfter(q, n))
      BY <1>9, <3>1 DEF PaperSound, u
    <3>3. ASSUME n # 0 PROVE PlaceAfter(q, n) = Behind(PlaceAfter(q, n - 1), q.marks[n].sign)
      <4>1. n \in 1..u /\ n - 1 \in 0..u
        BY <1>0, <3>1, <3>3
      <4>2. QED  BY <1>6, <1>9, <3>1, <4>1 DEF PaperSound, u
    <3>4. QED  BY <3>2, <3>3
  <2>2. CASE n > u
    <3>1. PICK i \in 1..t : n = u + i /\ n - 1 = u + (i - 1) /\ i - 1 \in 0..t /\ i \in 0..t /\ n # 0
      <4>1. n - u \in 1..t
        BY <1>0, <2>2
      <4>2. n = u + (n - u) /\ n - 1 = u + (n - u - 1) /\ n - u - 1 \in 0..t /\ n - u \in 0..t /\ n # 0
        BY <1>0, <2>2
      <4>3. QED  BY <4>1, <4>2
    <3>2. PlaceAfter(q, n) = f[i] /\ PlaceAfter(q, n - 1) = f[i - 1]
      BY <1>8, <3>1
    <3>3. q.marks[n].sign = str[i]
      BY <1>5, <1>6, <3>1
    <3>4. QED  BY <1>10, <1>11, <3>1, <3>2, <3>3
  <2>3. QED  BY <1>0, <2>1, <2>2
<1>13. PaperSound(q)
  <2>1. \A n \in 1..(u + t) : n \in 0..(u + t) /\ n # 0
    BY <1>0
  <2>2. QED  BY <1>6, <1>12, <2>1 DEF PaperSound
<1>14. \A i \in 1..t : q.marks[u + i].sign = str[i]
  BY <1>5, <1>6
<1>15. QED  BY <1>6, <1>9, <1>13, <1>14 DEF Adds, t, u

\* The sheets up to there are the same.
LEMMA AddsKeeps ==
  ASSUME NEW p, NEW str, NEW q, Adds(p, str, q), NEW n \in 0..Len(p.marks), NEW j, Len(p.marks) \in Nat
  PROVE  Sheet(q, n, j) = Sheet(p, n, j) /\ PlaceAfter(q, n) = PlaceAfter(p, n)
<1>1. PlaceAfter(q, n) = PlaceAfter(p, n)
  BY DEF Adds
<1>2. \A m \in 1..n : q.marks[m] = p.marks[m]
  BY DEF Adds
<1>3. ASSUME NEW spot \in Nat PROVE Shown(q, n, spot) = Shown(p, n, spot)
  <2> DEFINE seen == Seen(p, n, spot)
  <2>1. Seen(q, n, spot) = seen
    BY <1>2 DEF Seen
  <2>2. seen # {} => Latest(seen) \in 1..n
    <3>1. seen \in SUBSET (1..n) /\ n \in Nat
      BY DEF Seen
    <3> HIDE DEF seen
    <3>2. QED  BY <3>1, LatestIs
  <2> HIDE DEF seen
  <2>3. seen # {} => q.marks[Latest(seen)] = p.marks[Latest(seen)]
    BY <1>2, <2>2
  <2>4. Shown(q, n, spot) = IF seen = {} THEN NUL ELSE Inked(q.marks[Latest(seen)].sign)
    BY <2>1 DEF Shown
  <2>5. Shown(p, n, spot) = IF seen = {} THEN NUL ELSE Inked(p.marks[Latest(seen)].sign)
    BY DEF Shown, seen
  <2>6. QED  BY <2>3, <2>4, <2>5
<1>4. QED  BY <1>1, <1>3 DEF Sheet

-----------------------------------------------------------------------------
(* The screen as a window on a field of signs, row by row without end. *)

Window(F, from) == [i \in Cells |-> F[from + i]]
Far(F, from) == \A spot \in Nat : spot >= from => F[spot] = NUL

\* The window stands where its row Y is the given row of the field, not lower
\* than the first row and scrolled no further than it must; nothing is below.
On(k, F, row) ==
  /\ Near(k) /\ row \in Nat /\ k.Y <= row /\ (k.Y < row => k.Y >= SCREEN_HEIGHT - 1)
  /\ k.screen = Window(F, (row - k.Y) * SCREEN_WIDTH)
  /\ Far(F, (row - k.Y + SCREEN_HEIGHT) * SCREEN_WIDTH)

LEMMA OnKept ==
  ASSUME NEW k, NEW F, NEW row, On(k, F, row), NEW j, Near(j), j.screen = k.screen, j.Y = k.Y
  PROVE  On(j, F, row)
  BY DEF On

\* A sign at the cursor.
LEMMA OnPut ==
  ASSUME NEW k, NEW F, NEW row, On(k, F, row), k.X < SCREEN_WIDTH, k.Y < SCREEN_HEIGHT, DOMAIN F = Nat,
         NEW c, NEW spot, spot = row * SCREEN_WIDTH + k.X
  PROVE  LET j == putchr(k, k.X, k.Y, c) IN On(j, [F EXCEPT ![spot] = c], row) /\ j.X = k.X /\ j.Y = k.Y
<1> DEFINE j == putchr(k, k.X, k.Y, c)
           w == SCREEN_WIDTH
           h == SCREEN_HEIGHT
           x == k.X
           y == k.Y
           s == k.screen
           top == (row - y) * w
           G == [F EXCEPT ![spot] = c]
<1>1. /\ w \in Nat /\ w > 0 /\ h \in Nat /\ h > 1 /\ row \in Nat /\ y \in Nat /\ x \in Nat
      /\ x < w /\ y < h /\ y <= row
  BY ScreenSize DEF On, Near
<1>2. y * w \in Nat /\ top \in Nat /\ top + y * w = row * w /\ (row - y + h) * w = top + w * h
  <2>1. row - y \in Nat
    BY <1>1
  <2>2. top \in Nat /\ y * w \in Nat
    BY <1>1, <2>1
  <2> HIDE DEF w, y, h
  <2>3. QED  BY <1>1, <2>2
<1>3. y * w + x \in Cells
  <2>1. y + 1 <= h /\ (y + 1) * w = y * w + w
    BY <1>1
  <2>2. (y + 1) * w <= w * h
    <3>1. (h - (y + 1)) * w \in Nat
      BY <1>1
    <3>2. w * h = (h - (y + 1)) * w + (y + 1) * w
      BY <1>1
    <3>3. (y + 1) * w \in Int
      BY <1>1
    <3>4. QED  BY <3>1, <3>2, <3>3
  <2>3. y * w + x <= w * h - 1
    BY <1>1, <1>2, <2>1, <2>2
  <2>4. QED  BY <1>1, <1>2, <2>3 DEF Cells
<1>4. SameBut(k, j) /\ j.screen = [s EXCEPT ![y * w + x] = c]
  <2>1. SameBut(k, j)
    BY ScreenOnly DEF On, Near
  <2>2. j = [k EXCEPT !.screen = [s EXCEPT ![y * w + x] = c]]
    BY <1>3 DEF putchr
  <2>3. [k EXCEPT !.screen = [s EXCEPT ![y * w + x] = c]].screen = [s EXCEPT ![y * w + x] = c]
    BY PartsChange DEF On, Near
  <2>4. QED  BY <2>1, <2>2, <2>3
<1>5. s = Window(F, top) /\ Far(F, top + w * h)
  BY <1>2 DEF On
<1>6. spot = top + (y * w + x) /\ spot \in Nat
  BY <1>1, <1>2
<1>7. \A i \in Nat : G[i] = IF i = spot THEN c ELSE F[i]
  BY <1>6
<1> DEFINE cell == y * w + x
<1>8. cell \in Nat
  BY <1>1, <1>2
<1>9. Cells \subseteq Nat /\ \A i \in Cells : i < w * h
  BY <1>1 DEF Cells
<1> HIDE DEF G, w, h, x, y, s, top, j, cell
<1>10. j.screen = Window(G, top)
  <2>1. [s EXCEPT ![cell] = c] = [i \in Cells |-> IF i = cell THEN c ELSE F[top + i]]
    BY <1>3, <1>5 DEF Window, cell
  <2>2. \A i \in Cells : G[top + i] = IF i = cell THEN c ELSE F[top + i]
    <3> SUFFICES ASSUME NEW i \in Cells PROVE G[top + i] = IF i = cell THEN c ELSE F[top + i]
      OBVIOUS
    <3>1. i \in Nat /\ top + i \in Nat /\ (top + i = spot <=> i = cell)
      BY <1>2, <1>6, <1>8, <1>9 DEF cell
    <3>2. QED  BY <1>7, <3>1
  <2>3. QED  BY <1>4, <2>1, <2>2 DEF Window, cell
<1>11. Far(G, top + w * h)
  <2>1. spot < top + w * h
    BY <1>2, <1>3, <1>6, <1>8, <1>9, <1>1 DEF cell
  <2>2. w * h \in Nat
    BY <1>1
  <2>3. QED  BY <1>2, <1>5, <1>6, <1>7, <2>1, <2>2 DEF Far
<1>12. /\ Adapter(j) /\ j.X = k.X /\ j.Y = k.Y
       /\ k.X \in 0..SCREEN_WIDTH /\ k.Y \in 0..SCREEN_HEIGHT /\ row \in Nat
       /\ k.Y <= row /\ (k.Y < row => k.Y >= SCREEN_HEIGHT - 1)
  BY <1>4 DEF SameBut, On, Near
<1>13. Near(j)
  BY <1>12 DEF Near
<1>14. Window(G, (row - j.Y) * SCREEN_WIDTH) = Window(G, top) /\ Far(G, (row - j.Y + SCREEN_HEIGHT) * SCREEN_WIDTH)
  <2>1. Far(G, (row - y + h) * w)
    BY <1>2, <1>11
  <2>2. QED  BY <1>12, <2>1 DEF top, w, h, y
<1>15. On(j, G, row)
  BY <1>10, <1>12, <1>13, <1>14 DEF On
<1>16. QED  BY <1>12, <1>15 DEF j, G

\* The cursor a row down, the screen as it is.
LEMMA OnDown ==
  ASSUME NEW k, NEW F, NEW row, On(k, F, row), k.Y < SCREEN_HEIGHT, NEW j, Adapter(j),
         j.X \in 0..SCREEN_WIDTH, j.screen = k.screen, j.Y = k.Y + 1
  PROVE  On(j, F, row + 1)
<1>1. /\ row \in Nat /\ k.Y \in Nat /\ SCREEN_HEIGHT \in Nat /\ k.Y <= row /\ (k.Y < row => k.Y >= SCREEN_HEIGHT - 1)
  BY ScreenSize DEF On, Near
<1>2. row + 1 - j.Y = row - k.Y /\ j.Y <= row + 1 /\ row + 1 \in Nat /\ j.Y \in 0..SCREEN_HEIGHT
  BY <1>1
<1>3. j.Y < row + 1 => j.Y >= SCREEN_HEIGHT - 1
  BY <1>1
<1>4. QED  BY <1>2, <1>3 DEF On, Near

\* The two loops of scrollback.
Half(k, F, row) ==
  /\ Near(k) /\ k.Y = SCREEN_HEIGHT /\ row \in Nat /\ row >= SCREEN_HEIGHT
  /\ \A i \in Cells : i + SCREEN_WIDTH \in Cells => k.screen[i] = F[(row + 1 - SCREEN_HEIGHT) * SCREEN_WIDTH + i]
  /\ Far(F, row * SCREEN_WIDTH)

LEMMA OnScrolled ==
  ASSUME NEW k, NEW F, NEW row, On(k, F, row), k.Y = SCREEN_HEIGHT
  PROVE  LET j == ScrolledUp(k) IN Half(j, F, row) /\ j.X = k.X
<1> DEFINE j == ScrolledUp(k)
           w == SCREEN_WIDTH
           h == SCREEN_HEIGHT
           s == k.screen
           t == [i \in Cells |-> IF i + w \in Cells THEN s[i + w] ELSE s[i]]
<1>1. w \in Nat /\ w > 0 /\ h \in Nat /\ h > 1 /\ row \in Nat /\ h <= row
  BY ScreenSize DEF On
<1>2. j.X = k.X /\ j.Y = k.Y /\ Near(j)
  <2>1. SameBut(k, j)
    BY ScreenOnly DEF On, Near
  <2> HIDE DEF j
  <2>2. QED  BY <2>1 DEF SameBut, On, Near
<1>3. j.screen = t
  <2>1. j = [k EXCEPT !.screen = t]
    BY DEF ScrolledUp
  <2> HIDE DEF t, j
  <2>2. QED  BY <2>1, PartsChange DEF On, Near
<1>4. s = Window(F, (row - h) * w) /\ Far(F, (row - h + h) * w)
  BY DEF On
<1>5. Cells \subseteq Int
  BY DEF Cells
<1> HIDE DEF s, j, w, h
<1>6. row - h + h = row
  BY <1>1
<1>7. ASSUME NEW i \in Cells, i + w \in Cells PROVE t[i] = F[(row + 1 - h) * w + i]
  <2>1. t[i] = F[(row - h) * w + (i + w)]
    BY <1>4, <1>7 DEF Window
  <2>2. (row - h) * w + (i + w) = (row + 1 - h) * w + i
    BY <1>1, <1>5
  <2>3. QED  BY <2>1, <2>2
<1>8. Half(j, F, row)
  <2> HIDE DEF t
  <2>1. Far(F, row * w)
    BY <1>4, <1>6
  <2>2. QED  BY <1>1, <1>2, <1>3, <1>7, <2>1 DEF Half, w, h
<1>9. QED  BY <1>2, <1>8 DEF j

LEMMA OnBlanked ==
  ASSUME NEW k, NEW F, NEW row, Half(k, F, row)
  PROVE  LET j == LastRowBlank(k) IN On(j, F, row + 1) /\ j.X = k.X /\ j.Y = k.Y
<1> DEFINE j == LastRowBlank(k)
           w == SCREEN_WIDTH
           h == SCREEN_HEIGHT
           s == k.screen
           t == [i \in Cells |-> IF i + w \in Cells THEN s[i] ELSE NUL]
           top == (row + 1 - h) * w
<1>1. w \in Nat /\ w > 0 /\ h \in Nat /\ h > 1 /\ row \in Nat /\ h <= row
  BY ScreenSize DEF Half
<1>2. j.X = k.X /\ j.Y = k.Y /\ Near(j)
  <2>1. SameBut(k, j)
    BY ScreenOnly DEF Half, Near
  <2> HIDE DEF j
  <2>2. QED  BY <2>1 DEF SameBut, Half, Near
<1>3. j.screen = t
  <2>1. j = [k EXCEPT !.screen = t]
    BY DEF LastRowBlank
  <2> HIDE DEF t, j
  <2>2. QED  BY <2>1, PartsChange DEF Half, Near
<1>4. \A i \in Cells : i + w \in Cells => s[i] = F[top + i]
  BY DEF Half
<1>5. Far(F, row * w) /\ k.Y = h
  BY DEF Half
<1>6. \A i : i \in Cells <=> i \in Nat /\ i < w * h
  BY <1>1 DEF Cells
<1> HIDE DEF s, j
<1>7. top \in Nat
  <2>1. row + 1 - h \in Nat
    BY <1>1
  <2>2. QED  BY <1>1, <2>1
<1>8. ASSUME NEW i \in Cells PROVE t[i] = F[top + i]
  <2>1. CASE i + w \in Cells
    BY <1>4, <2>1
  <2>2. CASE i + w \notin Cells
    <3>1. i \in Nat /\ i + w >= w * h
      BY <1>1, <1>6, <2>2
    <3>2. top + i >= row * w
      <4>1. top = row * w + w - w * h
        BY <1>1
      <4>2. row * w \in Int /\ w * h \in Int
        BY <1>1
      <4> HIDE DEF top
      <4>3. QED  BY <1>1, <1>7, <3>1, <4>1, <4>2
    <3>3. F[top + i] = NUL
      BY <1>5, <1>7, <3>1, <3>2 DEF Far
    <3>4. QED  BY <2>2, <3>3
  <2>3. QED  BY <2>1, <2>2
<1>9. t = Window(F, top)
  <2> HIDE DEF top
  <2>1. t = [i \in Cells |-> t[i]]
    OBVIOUS
  <2> HIDE DEF t
  <2>2. QED  BY <1>8, <2>1 DEF Window
<1>10. Far(F, (row + 1 - h + h) * w)
  <2>1. (row + 1 - h + h) * w = row * w + w /\ row * w \in Int
    BY <1>1
  <2>2. QED  BY <1>1, <1>5, <2>1 DEF Far
<1>11. h <= row + 1 /\ row + 1 \in Nat /\ h >= h - 1
  BY <1>1
<1> HIDE DEF t
<1>12. On(j, F, row + 1)
  <2>1. j.Y = h /\ j.screen = Window(F, (row + 1 - h) * w) /\ Near(j)
    BY <1>2, <1>3, <1>5, <1>9 DEF top
  <2>2. j.Y <= row + 1 /\ (j.Y < row + 1 => j.Y >= h - 1)
    BY <1>11, <2>1
  <2> HIDE DEF top
  <2>3. j.screen = Window(F, (row + 1 - j.Y) * w) /\ Far(F, (row + 1 - j.Y + h) * w)
    BY <1>10, <2>1, Zenon
  <2>4. PICK r \in Nat : r = row + 1
    BY <1>1
  <2>5. row + 1 - j.Y = r - j.Y
    BY <1>1, <2>1, <2>4
  <2>6. j.screen = Window(F, (r - j.Y) * w) /\ Far(F, (r - j.Y + h) * w)
    BY <2>3, <2>5, Zenon
  <2>7. Near(j) /\ j.Y <= r /\ (j.Y < r => j.Y >= h - 1)
    BY <2>1, <2>2, <2>4
  <2>8. On(j, F, r)
    BY <2>6, <2>7 DEF On
  <2>9. QED  BY <2>4, <2>8
<1>13. QED  BY <1>2, <1>12 DEF j

LEMMA OnUp ==
  ASSUME NEW k, NEW F, NEW row \in Nat, On(k, F, row + 1), k.Y = SCREEN_HEIGHT, NEW j, Adapter(j),
         j.X = k.X, j.screen = k.screen, j.Y = k.Y - 1
  PROVE  On(j, F, row) /\ j.Y < SCREEN_HEIGHT
<1>1. k.Y = SCREEN_HEIGHT /\ SCREEN_HEIGHT \in Nat /\ SCREEN_HEIGHT > 1 /\ k.Y <= row + 1
  BY ScreenSize DEF On, Near
<1>2. row + 1 - k.Y = row - j.Y /\ j.Y <= row /\ j.Y \in 0..SCREEN_HEIGHT /\ j.Y >= SCREEN_HEIGHT - 1 /\ j.Y < SCREEN_HEIGHT
  BY <1>1
<1>3. QED  BY <1>2 DEF On, Near

LEMMA OutsKeepScreen ==
  ASSUME NEW k, Adapter(k)
  PROVE  /\ \A r : OutIndex(k, r).screen = k.screen
         /\ \A v : OutData(k, v).screen = k.screen
<1>1. ASSUME NEW r PROVE OutIndex(k, r).screen = k.screen
  BY PartsChange DEF OutIndex
<1>2. ASSUME NEW v PROVE OutData(k, v).screen = k.screen
  <2> DEFINE c == [k.cursor EXCEPT ![k.index] = v]
  <2>1. OutData(k, v) = [k EXCEPT !.cursor = c]
    BY DEF OutData
  <2> HIDE DEF c
  <2>2. QED  BY <2>1, PartsChange
<1>3. QED  BY <1>1, <1>2

LEMMA SetcursorKeeps ==
  ASSUME NEW k, Adapter(k)
  PROVE  LET j == setcursor(k) IN Adapter(j) /\ j.X = k.X /\ j.Y = k.Y /\ j.screen = k.screen
<1> DEFINE a == OutIndex(k, 15)
           b == OutData(a, Low(Position(k)))
           c == OutIndex(b, 14)
           d == OutData(c, High(Position(k)))
<1>1. Adapter(a) /\ a.screen = k.screen
  BY Outs, OutsKeepScreen
<1> HIDE DEF a
<1>2. Adapter(b) /\ b.screen = k.screen
  BY <1>1, Outs, OutsKeepScreen
<1> HIDE DEF b
<1>3. Adapter(c) /\ c.screen = k.screen
  BY <1>2, Outs, OutsKeepScreen
<1> HIDE DEF c
<1>4. d.screen = k.screen
  BY <1>3, OutsKeepScreen
<1>5. setcursor(k) = d
  BY DEF setcursor, a, b, c
<1> HIDE DEF d
<1>6. QED  BY <1>4, <1>5, SetcursorShows

LEMMA MovedKeepsScreen ==
  ASSUME NEW k, Adapter(k), NEW v
  PROVE  [k EXCEPT !.X = v].screen = k.screen /\ [k EXCEPT !.Y = v].screen = k.screen
  BY PartsChange

\* What comes after putc's switch keeps the window on the field.
LEMMA OnSettled ==
  ASSUME NEW k, NEW F, NEW row, On(k, F, row), k.X = SCREEN_WIDTH => k.Y < SCREEN_HEIGHT
  PROVE  LET j == Settled(k) IN
         /\ j.Y < SCREEN_HEIGHT
         /\ k.X = SCREEN_WIDTH => On(j, F, row + 1) /\ j.X = 0
         /\ k.X # SCREEN_WIDTH => On(j, F, row) /\ j.X = k.X
<1> DEFINE w == SCREEN_WIDTH
           h == SCREEN_HEIGHT
           wrapped == IF RowFull(k) THEN [k EXCEPT !.Y = k.Y + 1, !.X = 0] ELSE k
           kept == IF OffScreen(wrapped) THEN scrollback(wrapped) ELSE wrapped
           r == IF k.X = w THEN row + 1 ELSE row
           x == IF k.X = w THEN 0 ELSE k.X
<1>0. /\ w \in Nat /\ w > 0 /\ h \in Nat /\ h > 1 /\ row \in Nat /\ r \in Nat
      /\ Adapter(k) /\ k.X \in 0..w /\ k.Y \in 0..h
  BY ScreenSize DEF On, Near
<1>1. On(wrapped, F, r) /\ wrapped.X = x
  <2>1. CASE k.X = w
    <3> DEFINE one == [k EXCEPT !.Y = k.Y + 1]
               two == [one EXCEPT !.X = 0]
    <3>1. wrapped = two
      BY <1>0, <2>1 DEF RowFull
    <3>2. one = [k EXCEPT !.Y = k.Y + 1]
      OBVIOUS
    <3>3. two = [one EXCEPT !.X = 0]
      OBVIOUS
    <3> HIDE DEF one, two, wrapped
    <3>4. Adapter(one) /\ one.Y = k.Y + 1 /\ one.screen = k.screen
      BY <1>0, <3>2, MovedY, MovedKeepsScreen
    <3>5. Adapter(two) /\ two.X = 0 /\ two.Y = one.Y /\ two.screen = one.screen
      BY <3>3, <3>4, MovedX, MovedKeepsScreen
    <3>6. two.X \in 0..w /\ k.Y < h /\ two.Y = k.Y + 1 /\ two.screen = k.screen
      BY <1>0, <2>1, <3>4, <3>5
    <3>7. On(two, F, row + 1)
      BY <3>5, <3>6, OnDown
    <3>8. QED  BY <2>1, <3>1, <3>5, <3>7
  <2>2. CASE k.X # w
    <3>1. wrapped = k
      BY <1>0, <2>2 DEF RowFull
    <3>2. QED  BY <2>2, <3>1
  <2>3. QED  BY <2>1, <2>2
<1>2. Settled(k) = setcursor(kept)
  BY DEF Settled
<1> HIDE DEF wrapped, r, x
<1>3. On(kept, F, r) /\ kept.X = x /\ kept.Y < h
  <2>1. wrapped.Y \in 0..h
    BY <1>1 DEF On, Near
  <2>2. CASE OffScreen(wrapped)
    <3> DEFINE a == ScrolledUp(wrapped)
               b == LastRowBlank(a)
    <3>1. wrapped.Y = h
      BY <1>0, <2>1, <2>2 DEF OffScreen
    <3>2. Half(a, F, r) /\ a.X = x /\ a.Y = h
      BY <1>1, <3>1, OnScrolled DEF Half
    <3>3. kept = [b EXCEPT !.Y = b.Y - 1]
      BY <2>2 DEF scrollback
    <3> HIDE DEF a
    <3>4. On(b, F, r + 1) /\ b.X = x /\ b.Y = h
      BY <3>2, OnBlanked
    <3> HIDE DEF b, kept
    <3>5. Adapter(b)
      BY <3>4 DEF On, Near
    <3>6. Adapter(kept) /\ kept.X = b.X /\ kept.Y = b.Y - 1 /\ kept.screen = b.screen
      BY <3>3, <3>5, MovedY, MovedKeepsScreen
    <3>7. On(kept, F, r) /\ kept.Y < h
      BY <1>0, <3>4, <3>6, OnUp
    <3>8. QED  BY <3>4, <3>6, <3>7
  <2>3. CASE ~OffScreen(wrapped)
    <3>1. kept = wrapped /\ wrapped.Y < h
      BY <1>0, <2>1, <2>3 DEF OffScreen
    <3>2. QED  BY <1>1, <3>1
  <2>4. QED  BY <2>2, <2>3
<1> HIDE DEF kept
<1> DEFINE j == Settled(k)
<1>4. Adapter(j) /\ j.X = kept.X /\ j.Y = kept.Y /\ j.screen = kept.screen
  BY <1>2, <1>3, SetcursorKeeps DEF On, Near
<1> HIDE DEF j
<1>5. On(j, F, r) /\ j.X = x /\ j.Y < h
  <2>1. Near(j)
    BY <1>3, <1>4 DEF On, Near
  <2>2. QED  BY <1>3, <1>4, <2>1, OnKept
<1>6. QED  BY <1>5 DEF j, r, x

-----------------------------------------------------------------------------
(* putc along a text. *)

\* The next place of a text.
LEMMA AlongNext ==
  ASSUME NEW at, IsPlace(at), NEW j \in 0..3
  PROVE  LET a == Along(at, j)
             b == Along(at, j + 1)
         IN /\ IsPlace(a) /\ IsPlace(b) /\ Spot(a) = Spot(at) + j
            /\ a.col + 1 = SCREEN_WIDTH => b.row = a.row + 1 /\ b.col = 0
            /\ a.col + 1 # SCREEN_WIDTH => b.row = a.row /\ b.col = a.col + 1
<1> DEFINE a == Along(at, j)
           b == Along(at, j + 1)
           w == SCREEN_WIDTH
           x == at.col + j
<1>1. w \in Nat /\ w >= 4 /\ at.row \in Nat /\ at.col \in 0..(w - 1) /\ j \in 0..4 /\ j + 1 \in 0..4
  BY WideEnough DEF IsPlace
<1>2. /\ IsPlace(a) /\ Spot(a) = Spot(at) + j
      /\ x < w => a.row = at.row /\ a.col = x
      /\ x >= w => a.row = at.row + 1 /\ a.col = x - w
  <2>1. j \in 0..4
    BY <1>1
  <2>2. /\ IsPlace(Along(at, j)) /\ Spot(Along(at, j)) = Spot(at) + j
        /\ at.col + j < SCREEN_WIDTH => Along(at, j).row = at.row /\ Along(at, j).col = at.col + j
        /\ at.col + j >= SCREEN_WIDTH => Along(at, j).row = at.row + 1 /\ Along(at, j).col = at.col + j - SCREEN_WIDTH
    BY <2>1, AlongIs, Zenon
  <2>3. QED  BY <1>1, <2>2 DEF a, w, x
<1>3. /\ IsPlace(b)
      /\ at.col + (j + 1) < w => b.row = at.row /\ b.col = at.col + (j + 1)
      /\ at.col + (j + 1) >= w => b.row = at.row + 1 /\ b.col = at.col + (j + 1) - w
  BY <1>1, AlongIs
<1> HIDE DEF a, b, w
<1>4. /\ a.col + 1 = w => b.row = a.row + 1 /\ b.col = 0
      /\ a.col + 1 # w => b.row = a.row /\ b.col = a.col + 1
  <2>1. CASE x + 1 < w
    BY <1>1, <1>2, <1>3, <2>1
  <2>2. CASE x + 1 = w
    BY <1>1, <1>2, <1>3, <2>2
  <2>3. CASE x + 1 > w
    BY <1>1, <1>2, <1>3, <2>3
  <2>4. QED  BY <1>1, <2>1, <2>2, <2>3
<1>5. QED  BY <1>2, <1>3, <1>4 DEF a, b, w

LEMMA AlongNone ==
  ASSUME NEW at, IsPlace(at)
  PROVE  Along(at, 0) = at
<1> DEFINE a == Along(at, 0)
<1>1. at.row \in Nat /\ at.col \in 0..(SCREEN_WIDTH - 1) /\ SCREEN_WIDTH \in Nat /\ at = [row |-> at.row, col |-> at.col]
  BY WideEnough DEF IsPlace
<1>2. IsPlace(a) /\ a.row = at.row /\ a.col = at.col
  <2>1. PICK j \in 0..4 : j = 0
    OBVIOUS
  <2>2. IsPlace(Along(at, j)) /\ (at.col + j < SCREEN_WIDTH => Along(at, j).row = at.row /\ Along(at, j).col = at.col + j)
    BY AlongIs, Zenon
  <2>3. at.col + j < SCREEN_WIDTH /\ at.col + j = at.col
    BY <1>1, <2>1
  <2>4. QED  BY <2>1, <2>2, <2>3, Zenon
<1> HIDE DEF a
<1>3. QED  BY <1>1, <1>2 DEF IsPlace, a

\* The screen shows the field and the cursor is at the place, which is on the screen.
Stands(k, F, at) == On(k, F, at.row) /\ k.X = at.col /\ k.Y < SCREEN_HEIGHT

\* So it is after n signs of the paper and j columns of a tabulator.
Reads(k, p, n, j) == Stands(k, Sheet(p, n, j), Along(PlaceAfter(p, n), j))

LEMMA OnPrinted ==
  ASSUME NEW at, IsPlace(at), NEW j \in 0..3, NEW k, NEW F, Stands(k, F, Along(at, j)), DOMAIN F = Nat,
         NEW c, NEW G, G = [F EXCEPT ![Spot(at) + j] = c]
  PROVE  Stands(Settled(Printed(k, c)), G, Along(at, j + 1))
<1> DEFINE a == Along(at, j)
           b == Along(at, j + 1)
           w == SCREEN_WIDTH
           put == putchr(k, k.X, k.Y, c)
           one == Printed(k, c)
           r == Settled(one)
<1>1. w \in Nat /\ w >= 4
  BY WideEnough
<1>2. /\ IsPlace(a) /\ IsPlace(b) /\ Spot(a) = Spot(at) + j
      /\ a.col + 1 = w => b.row = a.row + 1 /\ b.col = 0
      /\ a.col + 1 # w => b.row = a.row /\ b.col = a.col + 1
  BY AlongNext
<1>3. On(k, F, a.row) /\ k.X = a.col /\ k.Y < SCREEN_HEIGHT
  BY DEF Stands
<1> HIDE DEF a, b
<1>4. a.col \in 0..(w - 1)
  BY <1>2 DEF IsPlace
<1>5. On(put, G, a.row) /\ put.X = k.X /\ put.Y = k.Y
  <2>1. Spot(at) + j = a.row * SCREEN_WIDTH + k.X /\ k.X < SCREEN_WIDTH
    BY <1>1, <1>2, <1>3, <1>4 DEF Spot
  <2>2. QED  BY <1>3, <2>1, OnPut
<1>6. one = [put EXCEPT !.X = put.X + 1]
  BY DEF Printed
<1> HIDE DEF put, one
<1>7. Adapter(put) /\ put.X = a.col
  BY <1>3, <1>5 DEF On, Near
<1>8. Adapter(one) /\ one.X = a.col + 1 /\ one.Y = k.Y /\ one.screen = put.screen
  <2>1. Adapter(one) /\ one.X = put.X + 1 /\ one.Y = put.Y
    BY <1>6, <1>7, MovedX
  <2>2. one.screen = put.screen
    BY <1>6, <1>7, MovedKeepsScreen
  <2>3. QED  BY <1>5, <1>7, <2>1, <2>2
<1>9. On(one, G, a.row)
  <2>1. Near(one)
    BY <1>1, <1>3, <1>4, <1>8 DEF Near, On
  <2>2. QED  BY <1>5, <1>8, <2>1, OnKept
<1>10. /\ r.Y < SCREEN_HEIGHT
       /\ one.X = w => On(r, G, a.row + 1) /\ r.X = 0
       /\ one.X # w => On(r, G, a.row) /\ r.X = one.X
  <2>1. one.X = SCREEN_WIDTH => one.Y < SCREEN_HEIGHT
    BY <1>3, <1>8
  <2>2. QED  BY <1>9, <2>1, OnSettled
<1> HIDE DEF r
<1>11. On(r, G, b.row) /\ r.X = b.col
  BY <1>2, <1>8, <1>10
<1>12. QED  BY <1>10, <1>11 DEF b, r, one, Stands

\* A sign of a text, or a turn of the loop of a tabulator.
LEMMA TurnReads ==
  ASSUME NEW p, PaperSound(p), NEW n \in 0..Len(p.marks), NEW w, w = Width(PlaceAfter(p, n), "\t"),
         NEW i \in 0..3, NEW k, Reads(k, p, n, IF i < w THEN i ELSE w)
  PROVE  Reads(TabTurn(k, i), p, n, IF i + 1 < w THEN i + 1 ELSE w)
<1> DEFINE at == PlaceAfter(p, n)
           j == IF i < w THEN i ELSE w
           F == Sheet(p, n, j)
<1>1. IsPlace(at)
  BY DEF PaperSound
<1>2. w \in 1..3 /\ (j < 4 - (Along(at, j).col % 4) <=> j < w)
  <2>1. w \in 1..3 /\ \A m \in 0..w : m < 4 - (Along(at, m).col % 4) <=> m < w
    <3> HIDE DEF at
    <3>1. Width(at, "\t") \in 1..3 /\ \A m \in 0..Width(at, "\t") : m < 4 - (Along(at, m).col % 4) <=> m < Width(at, "\t")
      BY <1>1, WidthIs, Zenon
    <3>2. QED  BY <3>1 DEF at
  <2>2. j \in 0..w
    BY <2>1
  <2> HIDE DEF j
  <2>3. QED  BY <2>1, <2>2
<1>3. On(k, F, Along(at, j).row) /\ k.X = Along(at, j).col /\ k.Y < SCREEN_HEIGHT
  BY DEF Reads, Stands
<1>4. k.X \in Nat
  BY <1>3, ScreenSize DEF On, Near
<1>5. CASE i < w
  <2>1. j = i /\ i + 1 <= w /\ j \in 0..3 /\ j \in Nat
    BY <1>2, <1>5
  <2>2. TabTurn(k, i) = Settled(Printed(k, Space))
    <3>1. i < 4 - (k.X % 4)
      <4> HIDE DEF at, j, F
      <4>1. QED  BY <1>2, <1>3, <1>5, <2>1
    <3>2. QED  BY <3>1 DEF TabTurn
  <2>3. DOMAIN F = Nat
    BY DEF Sheet
  <2>4. [F EXCEPT ![Spot(at) + j] = Space] = Sheet(p, n, j + 1)
    BY <1>1, <2>1, SheetColumn
  <2> HIDE DEF at, j, F
  <2>5. Stands(k, F, Along(at, j))
    BY DEF Reads, F, at, j
  <2>6. Reads(TabTurn(k, i), p, n, j + 1)
    <3>1. PICK G : G = [F EXCEPT ![Spot(at) + j] = Space]
      OBVIOUS
    <3>2. Stands(Settled(Printed(k, Space)), G, Along(at, j + 1))
      BY <1>1, <2>1, <2>3, <2>5, <3>1, OnPrinted
    <3>3. QED  BY <2>2, <2>4, <3>1, <3>2 DEF Reads, at
  <2>7. (IF i + 1 < w THEN i + 1 ELSE w) = j + 1
    BY <1>2, <2>1
  <2>8. QED  BY <2>6, <2>7
<1>6. CASE ~(i < w)
  <2>1. j = w
    BY <1>6
  <2>2. TabTurn(k, i) = k
    <3>1. ~(i < 4 - (k.X % 4))
      <4> HIDE DEF at, j, F
      <4>1. ~(w < 4 - (k.X % 4))
        BY <1>2, <1>3, <2>1
      <4>2. k.X % 4 \in 0..3
        BY <1>4
      <4>3. QED  BY <1>2, <1>6, <4>1, <4>2
    <3>2. QED  BY <3>1 DEF TabTurn
  <2>3. (IF i + 1 < w THEN i + 1 ELSE w) = j
    BY <1>2, <1>6, <2>1
  <2>4. QED  BY <2>2, <2>3
<1>7. QED  BY <1>5, <1>6

LEMMA TabbedReads ==
  ASSUME NEW p, PaperSound(p), NEW n \in 0..Len(p.marks), NEW k, Reads(k, p, n, 0)
  PROVE  Reads(Tabbed(k), p, n, Width(PlaceAfter(p, n), "\t"))
<1> DEFINE w == Width(PlaceAfter(p, n), "\t")
           a == TabTurn(k, 0)
           b == TabTurn(a, 1)
           c == TabTurn(b, 2)
           d == TabTurn(c, 3)
           J(i) == IF i < w THEN i ELSE w
<1>1. w \in 1..3
  BY WidthIs DEF PaperSound
<1>2. Tabbed(k) = d
  BY DEF Tabbed
<1>3. ASSUME NEW i \in 0..3, NEW q, Reads(q, p, n, J(i)) PROVE Reads(TabTurn(q, i), p, n, J(i + 1))
  BY <1>3, TurnReads
<1> HIDE DEF w, J
<1>4. J(0) = 0 /\ J(3 + 1) = w /\ 0 + 1 = 1 /\ 1 + 1 = 2 /\ 2 + 1 = 3
  BY <1>1 DEF J
<1>5. Reads(a, p, n, J(1))
  BY <1>3, <1>4
<1> HIDE DEF a
<1>6. Reads(b, p, n, J(2))
  BY <1>3, <1>4, <1>5
<1> HIDE DEF b
<1>7. Reads(c, p, n, J(3))
  BY <1>3, <1>4, <1>6
<1> HIDE DEF c
<1>8. Reads(d, p, n, w)
  BY <1>3, <1>4, <1>7
<1>9. QED  BY <1>2, <1>8 DEF w

\* putc of a sign of a text that is on the paper.
LEMMA PutcReads ==
  ASSUME NEW p, PaperSound(p), NEW n \in 0..(Len(p.marks) - 1), NEW sign, sign = p.marks[n + 1].sign, sign # BS,
         NEW k, Reads(k, p, n, 0)
  PROVE  Reads(putc(k, sign), p, n + 1, 0)
<1> DEFINE at == PlaceAfter(p, n)
           next == PlaceAfter(p, n + 1)
           F == Sheet(p, n, 0)
           G == Sheet(p, n + 1, 0)
           W == Width(at, sign)
           r == putc(k, sign)
<1>0. Len(p.marks) \in Nat /\ n \in 0..Len(p.marks) /\ n + 1 \in 1..Len(p.marks) /\ n + 1 - 1 = n
  BY DEF PaperSound, IsList
<1>1. IsPlace(at) /\ IsPlace(next) /\ next = Behind(at, sign)
  <2>1. n + 1 \in 0..Len(p.marks)
    BY <1>0
  <2>2. PlaceAfter(p, n + 1) = Behind(PlaceAfter(p, n + 1 - 1), p.marks[n + 1].sign)
    BY <1>0 DEF PaperSound
  <2>3. QED  BY <1>0, <2>1, <2>2 DEF PaperSound
<1>2. /\ sign \in {"\n", "\r"} => G = F
      /\ sign = "\t" => G = Sheet(p, n, W)
      /\ sign \notin {"\n", "\r", "\t"} => G = [F EXCEPT ![Spot(at)] = sign]
  <2>1. PICK m : m = p.marks[n + 1]
    OBVIOUS
  <2>2. m.at = at /\ m.sign = sign
    BY <2>1, SheetNext
  <2>3. QED  BY <2>1, <2>2, SheetNext
<1>3. On(k, F, at.row) /\ k.X = at.col /\ k.Y < SCREEN_HEIGHT
  BY <1>1, AlongNone DEF Reads, Stands
<1>4. DOMAIN F = Nat
  BY DEF Sheet
<1>5. /\ SCREEN_WIDTH \in Nat /\ SCREEN_WIDTH >= 4 /\ at.col \in 0..(SCREEN_WIDTH - 1)
      /\ Adapter(k) /\ k.Y \in 0..SCREEN_HEIGHT /\ SCREEN_HEIGHT \in Nat
  BY <1>1, <1>3, WideEnough, ScreenSize DEF IsPlace, On, Near
<1>6. SUFFICES On(r, G, next.row) /\ r.X = next.col /\ r.Y < SCREEN_HEIGHT
  BY <1>1, AlongNone DEF Reads, Stands
<1>7. CASE sign = "\n"
  <2> DEFINE one == [k EXCEPT !.X = 0]
             two == [one EXCEPT !.Y = one.Y + 1]
  <2>1. r = Settled(two)
    <3>1. one.Y = k.Y
      BY <1>5, MovedX
    <3>2. [k EXCEPT !.X = 0, !.Y = k.Y + 1] = two
      BY <3>1
    <3>3. r = Settled([k EXCEPT !.X = 0, !.Y = k.Y + 1])
      BY <1>7 DEF putc
    <3>4. QED  BY <3>2, <3>3
  <2>2. one = [k EXCEPT !.X = 0]
    OBVIOUS
  <2>3. two = [one EXCEPT !.Y = one.Y + 1]
    OBVIOUS
  <2> HIDE DEF one, two, r, F, G, at, next
  <2>4. Adapter(one) /\ one.X = 0 /\ one.Y = k.Y /\ one.screen = k.screen
    <3>1. Adapter(one) /\ one.X = 0 /\ one.Y = k.Y
      <4>1. Adapter(k)
        BY <1>5
      <4>2. PICK v : v = 0
        OBVIOUS
      <4>3. one = [k EXCEPT !.X = v]
        BY <2>2, <4>2
      <4>4. Adapter(one) /\ one.X = v /\ one.Y = k.Y
        BY <4>1, <4>3, MovedX
      <4>5. QED  BY <4>2, <4>4
    <3>2. one.screen = k.screen
      BY <1>5, <2>2, MovedKeepsScreen
    <3>3. QED  BY <3>1, <3>2
  <2>5. Adapter(two) /\ two.X = 0 /\ two.Y = k.Y + 1 /\ two.screen = k.screen
    <3>1. Adapter(two) /\ two.X = one.X /\ two.Y = one.Y + 1
      BY <2>3, <2>4, MovedY
    <3>2. two.screen = one.screen
      BY <2>3, <2>4, MovedKeepsScreen
    <3>3. QED  BY <2>4, <3>1, <3>2
  <2>6. On(two, F, at.row + 1)
    <3>1. two.X \in 0..SCREEN_WIDTH
      BY <1>5, <2>5
    <3>2. QED  BY <1>3, <2>5, <3>1, OnDown
  <2>7. On(Settled(two), F, at.row + 1) /\ Settled(two).X = 0 /\ Settled(two).Y < SCREEN_HEIGHT
    <3>1. two.X # SCREEN_WIDTH
      BY <1>5, <2>5
    <3>2. QED  BY <2>5, <2>6, <3>1, OnSettled
  <2>8. next.row = at.row + 1 /\ next.col = 0
    BY <1>1, <1>7, BehindIs
  <2>9. QED  BY <1>2, <1>7, <2>1, <2>7, <2>8
<1>8. CASE sign = "\r"
  <2> DEFINE one == [k EXCEPT !.X = 0]
  <2>1. r = Settled(one)
    BY <1>8 DEF putc
  <2>2. one = [k EXCEPT !.X = 0]
    OBVIOUS
  <2> HIDE DEF one, r, F, G, at, next
  <2>3. Adapter(one) /\ one.X = 0 /\ one.Y = k.Y /\ one.screen = k.screen
    <3>1. Adapter(one) /\ one.X = 0 /\ one.Y = k.Y
      <4>1. Adapter(k)
        BY <1>5
      <4>2. PICK v : v = 0
        OBVIOUS
      <4>3. one = [k EXCEPT !.X = v]
        BY <2>2, <4>2
      <4>4. Adapter(one) /\ one.X = v /\ one.Y = k.Y
        BY <4>1, <4>3, MovedX
      <4>5. QED  BY <4>2, <4>4
    <3>2. one.screen = k.screen
      BY <1>5, <2>2, MovedKeepsScreen
    <3>3. QED  BY <3>1, <3>2
  <2>4. On(one, F, at.row)
    <3>1. Near(one)
      BY <1>5, <2>3 DEF Near
    <3>2. QED  BY <1>3, <2>3, <3>1, OnKept
  <2>5. On(Settled(one), F, at.row) /\ Settled(one).X = 0 /\ Settled(one).Y < SCREEN_HEIGHT
    <3>1. one.X # SCREEN_WIDTH
      BY <1>5, <2>3
    <3>2. QED  BY <2>3, <2>4, <3>1, OnSettled
  <2>6. next.row = at.row /\ next.col = 0
    BY <1>1, <1>8, BehindIs
  <2>7. QED  BY <1>2, <1>8, <2>1, <2>5, <2>6
<1>9. CASE sign = "\t"
  <2> DEFINE t == Tabbed(k)
  <2>1. r = Settled(t)
    BY <1>9 DEF putc, BS
  <2>2. Reads(t, p, n, W)
    BY <1>0, <1>9, TabbedReads
  <2>3. next = Along(at, W)
    BY <1>1, <1>9, BehindIs
  <2> HIDE DEF t, r, F, at, next
  <2>4. On(t, G, next.row) /\ t.X = next.col
    BY <1>2, <1>9, <2>2, <2>3 DEF Reads, Stands, at
  <2>5. t.X # SCREEN_WIDTH
    BY <1>1, <1>5, <2>4 DEF IsPlace
  <2>6. QED  BY <2>1, <2>4, <2>5, OnSettled
<1>10. CASE sign \notin {"\n", "\r", "\t"}
  <2>1. r = Settled(Printed(k, sign))
    BY <1>10 DEF putc
  <2>2. PICK j \in 0..3 : j = 0
    OBVIOUS
  <2>3. Along(at, j) = at
    BY <1>1, <2>2, AlongNone
  <2>4. next = Along(at, j + 1)
    <3>1. W = 1
      BY <1>1, <1>10, WidthIs
    <3>2. QED  BY <1>1, <1>10, <2>2, <3>1, BehindIs
  <2>5. Spot(at) + j = Spot(at)
    <3>1. Spot(at) \in Int
      BY <1>1, <1>5 DEF Spot, IsPlace
    <3>2. QED  BY <2>2, <3>1
  <2> HIDE DEF r, F, at, next
  <2>6. G = [F EXCEPT ![Spot(at) + j] = sign]
    BY <1>2, <1>10, <2>5
  <2>7. Stands(k, F, Along(at, j))
    BY <1>3, <2>3 DEF Stands
  <2> HIDE DEF G
  <2>8. Stands(Settled(Printed(k, sign)), G, Along(at, j + 1))
    BY <1>1, <1>4, <2>6, <2>7, OnPrinted
  <2>9. QED  BY <2>1, <2>4, <2>8 DEF Stands
<1>11. QED  BY <1>7, <1>8, <1>9, <1>10

\* puts of the rest of a text that is on the paper.
LEMMA PutsReads ==
  ASSUME NEW p, PaperSound(p), NEW str, IsList(str), NEW n \in Nat, Len(p.marks) = n + Len(str),
         \A i \in 1..Len(str) : p.marks[n + i].sign = str[i] /\ str[i] # BS,
         NEW k, Reads(k, p, n, 0)
  PROVE  Reads(puts(k, str), p, Len(p.marks), 0)
<1> DEFINE t == Len(str)
           f == CHOOSE g : PutsBy(k, str, t, g)
           Bad == {i \in 0..t : ~Reads(f[i], p, n + i, 0)}
<1>0. t \in Nat
  BY DEF IsList
<1>1. PutsBy(k, str, t, f)
  <2>1. \E g : PutsBy(k, str, t, g)
    BY <1>0, PutsExists
  <2>2. QED  BY <2>1, Zenon
<1>2. puts(k, str) = f[t]
  BY DEF puts, PutsBy, PutsRound
<1> HIDE DEF f, t
<1>3. \A i \in 0..t : f[i] = PutsRound(k, str, f, i)
  <2>1. f = [i \in 0..t |-> PutsRound(k, str, f, i)]
    BY <1>1, Zenon DEF PutsBy
  <2>2. QED  BY <2>1, Zenon
<1>4. Bad = {}
  <2> SUFFICES ASSUME Bad # {} PROVE FALSE
    OBVIOUS
  <2>1. PICK i \in Bad : i = 0 \/ i - 1 \in Nat \ Bad
    <3>1. Bad \subseteq Nat
      BY <1>0
    <3> HIDE DEF Bad
    <3>2. QED  BY <3>1, LeastCounterexample
  <2>2. i \in 0..t /\ ~Reads(f[i], p, n + i, 0)
    BY <2>1
  <2>3. i # 0
    <3>1. f[0] = k
      BY <1>0, <1>3 DEF PutsRound
    <3>2. n + 0 = n
      OBVIOUS
    <3>3. QED  BY <2>2, <3>1, <3>2
  <2>4. i \in 1..t /\ f[i] = putc(f[i - 1], str[i]) /\ Reads(f[i - 1], p, n + (i - 1), 0)
    BY <1>0, <1>3, <2>1, <2>2, <2>3 DEF PutsRound
  <2> HIDE DEF Bad
  <2>5. PICK m \in 0..(Len(p.marks) - 1) : m = n + (i - 1) /\ m + 1 = n + i
    <3>1. n + (i - 1) \in 0..(Len(p.marks) - 1) /\ n + (i - 1) + 1 = n + i
      BY <1>0, <2>4 DEF t
    <3>2. QED  BY <3>1
  <2>6. str[i] = p.marks[m + 1].sign /\ str[i] # BS
    BY <2>4, <2>5 DEF t
  <2>7. Reads(putc(f[i - 1], str[i]), p, m + 1, 0)
    BY <2>4, <2>5, <2>6, PutcReads
  <2>8. QED  BY <2>2, <2>4, <2>5, <2>7
<1>5. Reads(f[t], p, n + t, 0)
  BY <1>0, <1>4
<1>6. QED  BY <1>2, <1>5 DEF t

-----------------------------------------------------------------------------
(* The screen at every step of putc. *)

Resting == {"call", "panic", "halt", "desktop"}
Clearing == {"blank_all", "home_x", "home_y"}
Sending == {"cursor", "index_low", "data_low", "index_high", "data_high"}

\* Where main is, the screen, the cursor and main's register on the way to a place.
Moving(k, at, r, F, place) ==
  /\ at \in Resting \cup Sending \cup {"print", "tab"} => Stands(k, F, place)
  /\ at \in {"right_load", "right_store"} =>
       /\ k.X < SCREEN_WIDTH /\ k.Y < SCREEN_HEIGHT
       /\ IF k.X + 1 = SCREEN_WIDTH THEN On(k, F, place.row - 1) /\ place.col = 0
          ELSE On(k, F, place.row) /\ place.col = k.X + 1
  /\ at = "right_store" => r = k.X
  /\ at \in {"down_load", "down_store"} =>
       On(k, F, place.row - 1) /\ k.X = 0 /\ k.Y < SCREEN_HEIGHT /\ place.col = 0
  /\ at \in {"down_store", "next_store", "up_store"} => r = k.Y
  /\ at = "wrap" =>
       IF k.X = SCREEN_WIDTH THEN k.Y < SCREEN_HEIGHT /\ On(k, F, place.row - 1) /\ place.col = 0
       ELSE On(k, F, place.row) /\ k.X = place.col
  /\ at \in {"next_load", "next_store"} =>
       k.X = SCREEN_WIDTH /\ k.Y < SCREEN_HEIGHT /\ On(k, F, place.row - 1) /\ place.col = 0
  /\ at = "margin" => k.X = SCREEN_WIDTH /\ On(k, F, place.row) /\ place.col = 0
  /\ at \in {"bottom", "scroll"} => On(k, F, place.row) /\ k.X = place.col
  /\ at = "scroll_blank" => Half(k, F, place.row) /\ k.X = place.col
  /\ at \in {"up_load", "up_store"} => On(k, F, place.row + 1) /\ k.X = place.col
  /\ at \in {"scroll", "up_load", "up_store"} => k.Y = SCREEN_HEIGHT

LEMMA XKept ==
  ASSUME NEW k, NEW F, NEW row, On(k, F, row), NEW v \in 0..SCREEN_WIDTH, NEW j, j = [k EXCEPT !.X = v]
  PROVE  On(j, F, row) /\ j.X = v /\ j.Y = k.Y
<1>1. Adapter(k) /\ k.Y \in 0..SCREEN_HEIGHT
  BY DEF On, Near
<1>2. Adapter(j) /\ j.X = v /\ j.Y = k.Y
  BY <1>1, MovedX
<1>3. j.screen = k.screen
  BY <1>1, MovedKeepsScreen
<1>4. Near(j)
  BY <1>1, <1>2 DEF Near
<1>5. QED  BY <1>2, <1>3, <1>4, OnKept

LEMMA YDown ==
  ASSUME NEW k, NEW F, NEW row \in Nat, On(k, F, row - 1), k.Y < SCREEN_HEIGHT, NEW j, j = [k EXCEPT !.Y = k.Y + 1]
  PROVE  On(j, F, row) /\ j.X = k.X
<1>1. Adapter(k) /\ k.X \in 0..SCREEN_WIDTH
  BY DEF On, Near
<1>2. Adapter(j) /\ j.X = k.X /\ j.Y = k.Y + 1
  BY <1>1, MovedY
<1>3. j.screen = k.screen
  BY <1>1, MovedKeepsScreen
<1>4. PICK up : up = row - 1 /\ up + 1 = row
  OBVIOUS
<1>5. On(j, F, up + 1)
  BY <1>1, <1>2, <1>3, <1>4, OnDown
<1>6. QED  BY <1>2, <1>4, <1>5

LEMMA RightMoves ==
  ASSUME NEW F, NEW place, IsPlace(place), Moving(con, pc, reg, F, place), RightLoad \/ RightStore
  PROVE  Moving(con', pc', reg', F, place)
<1>1. CASE RightLoad
  <2>1. pc = "right_load" /\ pc' = "right_store" /\ con' = con /\ reg' = con.X
    BY <1>1 DEF RightLoad, Go
  <2>2. QED  BY <2>1 DEF Moving, Resting, Sending
<1>2. CASE RightStore
  <2>1. pc = "right_store" /\ pc' = "wrap" /\ con' = [con EXCEPT !.X = reg + 1]
    BY <1>2 DEF RightStore, Go
  <2>2. /\ con.X < SCREEN_WIDTH /\ con.Y < SCREEN_HEIGHT /\ reg = con.X
        /\ con.X + 1 = SCREEN_WIDTH => On(con, F, place.row - 1) /\ place.col = 0
        /\ con.X + 1 # SCREEN_WIDTH => On(con, F, place.row) /\ place.col = con.X + 1
    BY <2>1 DEF Moving
  <2>3. reg + 1 \in 0..SCREEN_WIDTH
    <3>1. con.X \in 0..SCREEN_WIDTH
      BY <2>2 DEF On, Near
    <3>2. QED  BY <2>2, <3>1, ScreenSize
  <2>4. CASE con.X + 1 = SCREEN_WIDTH
    <3>1. On(con', F, place.row - 1) /\ con'.X = reg + 1 /\ con'.Y = con.Y
      BY <2>1, <2>2, <2>3, <2>4, XKept
    <3>2. con'.X = SCREEN_WIDTH /\ con'.Y < SCREEN_HEIGHT
      BY <2>2, <2>4, <3>1
    <3>3. QED  BY <2>1, <2>2, <2>4, <3>1, <3>2 DEF Moving, Resting, Sending
  <2>5. CASE con.X + 1 # SCREEN_WIDTH
    <3>1. On(con', F, place.row) /\ con'.X = reg + 1 /\ con'.Y = con.Y
      BY <2>1, <2>2, <2>3, <2>5, XKept
    <3>2. con'.X # SCREEN_WIDTH /\ con'.X = place.col
      BY <2>2, <2>5, <3>1
    <3>3. QED  BY <2>1, <3>1, <3>2 DEF Moving, Resting, Sending
  <2>6. QED  BY <2>4, <2>5
<1>3. QED  BY <1>1, <1>2

LEMMA DownMoves ==
  ASSUME NEW F, NEW place, IsPlace(place), Moving(con, pc, reg, F, place), DownLoad \/ DownStore
  PROVE  Moving(con', pc', reg', F, place)
<1>1. CASE DownLoad
  <2>1. pc = "down_load" /\ pc' = "down_store" /\ con' = con /\ reg' = con.Y
    BY <1>1 DEF DownLoad, Go
  <2>2. QED  BY <2>1 DEF Moving, Resting, Sending
<1>2. CASE DownStore
  <2>1. pc = "down_store" /\ pc' = "wrap" /\ con' = [con EXCEPT !.Y = reg + 1]
    BY <1>2 DEF DownStore, Go
  <2>2. On(con, F, place.row - 1) /\ con.X = 0 /\ con.Y < SCREEN_HEIGHT /\ place.col = 0 /\ reg = con.Y
    BY <2>1 DEF Moving
  <2>3. On(con', F, place.row) /\ con'.X = 0
    BY <2>1, <2>2, YDown DEF IsPlace
  <2>4. con'.X # SCREEN_WIDTH
    BY <2>3, ScreenSize
  <2>5. QED  BY <2>1, <2>2, <2>3, <2>4 DEF Moving, Resting, Sending
<1>3. QED  BY <1>1, <1>2

LEMMA WrapMoves ==
  ASSUME NEW F, NEW place, IsPlace(place), Moving(con, pc, reg, F, place), Wrap \/ NextLoad \/ NextStore \/ Margin
  PROVE  Moving(con', pc', reg', F, place)
<1>1. CASE Wrap
  <2>1. pc = "wrap" /\ pc' = (IF RowFull(con) THEN "next_load" ELSE "bottom") /\ con' = con
    BY <1>1 DEF Wrap, At
  <2>2. /\ con.X = SCREEN_WIDTH => con.Y < SCREEN_HEIGHT /\ On(con, F, place.row - 1) /\ place.col = 0
        /\ con.X # SCREEN_WIDTH => On(con, F, place.row) /\ con.X = place.col
    BY <2>1 DEF Moving
  <2>3. RowFull(con) <=> con.X = SCREEN_WIDTH
    <3>1. con.X \in 0..SCREEN_WIDTH
      BY <2>2 DEF On, Near
    <3>2. QED  BY <3>1, ScreenSize DEF RowFull
  <2>4. QED  BY <2>1, <2>2, <2>3 DEF Moving, Resting, Sending
<1>2. CASE NextLoad
  <2>1. pc = "next_load" /\ pc' = "next_store" /\ con' = con /\ reg' = con.Y
    BY <1>2 DEF NextLoad, Go
  <2>2. QED  BY <2>1 DEF Moving, Resting, Sending
<1>3. CASE NextStore
  <2>1. pc = "next_store" /\ pc' = "margin" /\ con' = [con EXCEPT !.Y = reg + 1]
    BY <1>3 DEF NextStore, Go
  <2>2. On(con, F, place.row - 1) /\ con.X = SCREEN_WIDTH /\ con.Y < SCREEN_HEIGHT /\ place.col = 0 /\ reg = con.Y
    BY <2>1 DEF Moving
  <2>3. On(con', F, place.row) /\ con'.X = con.X
    BY <2>1, <2>2, YDown DEF IsPlace
  <2>4. QED  BY <2>1, <2>2, <2>3 DEF Moving, Resting, Sending
<1>4. CASE Margin
  <2>1. pc = "margin" /\ pc' = "bottom" /\ con' = [con EXCEPT !.X = 0]
    BY <1>4 DEF Margin, Go
  <2>2. On(con, F, place.row) /\ place.col = 0
    BY <2>1 DEF Moving
  <2>3. PICK v \in 0..SCREEN_WIDTH : v = 0
    BY ScreenSize
  <2>4. con' = [con EXCEPT !.X = v]
    BY <2>1, <2>3
  <2>5. On(con', F, place.row) /\ con'.X = v
    BY <2>2, <2>4, XKept
  <2>6. QED  BY <2>1, <2>2, <2>3, <2>5 DEF Moving, Resting, Sending
<1>5. QED  BY <1>1, <1>2, <1>3, <1>4

LEMMA BottomMoves ==
  ASSUME NEW F, NEW place, IsPlace(place), Moving(con, pc, reg, F, place),
         Bottom \/ Scroll \/ ScrollBlank \/ UpLoad \/ UpStore
  PROVE  Moving(con', pc', reg', F, place)
<1>1. CASE Bottom
  <2>1. pc = "bottom" /\ pc' = (IF OffScreen(con) THEN "scroll" ELSE "cursor") /\ con' = con
    BY <1>1 DEF Bottom, At
  <2>2. On(con, F, place.row) /\ con.X = place.col
    BY <2>1 DEF Moving
  <2>3. OffScreen(con) => con.Y = SCREEN_HEIGHT
    BY <2>2, ScreenSize DEF OffScreen, On, Near
  <2>4. ~OffScreen(con) => con.Y < SCREEN_HEIGHT
    BY <2>2, ScreenSize DEF OffScreen, On, Near
  <2>5. QED  BY <2>1, <2>2, <2>3, <2>4 DEF Moving, Stands, Resting, Sending
<1>2. CASE Scroll
  <2>1. pc = "scroll" /\ pc' = "scroll_blank" /\ con' = ScrolledUp(con)
    BY <1>2 DEF Scroll, Go
  <2>2. On(con, F, place.row) /\ con.X = place.col /\ con.Y = SCREEN_HEIGHT
    BY <2>1 DEF Moving
  <2>3. Half(con', F, place.row) /\ con'.X = con.X
    BY <2>1, <2>2, OnScrolled
  <2>4. QED  BY <2>1, <2>2, <2>3 DEF Moving, Resting, Sending
<1>3. CASE ScrollBlank
  <2>1. pc = "scroll_blank" /\ pc' = "up_load" /\ con' = LastRowBlank(con)
    BY <1>3 DEF ScrollBlank, Go
  <2>2. Half(con, F, place.row) /\ con.X = place.col /\ con.Y = SCREEN_HEIGHT
    BY <2>1 DEF Moving, Half
  <2>3. On(con', F, place.row + 1) /\ con'.X = con.X /\ con'.Y = con.Y
    BY <2>1, <2>2, OnBlanked
  <2>4. QED  BY <2>1, <2>2, <2>3 DEF Moving, Resting, Sending
<1>4. CASE UpLoad
  <2>1. pc = "up_load" /\ pc' = "up_store" /\ con' = con /\ reg' = con.Y
    BY <1>4 DEF UpLoad, Go
  <2>2. QED  BY <2>1 DEF Moving, Resting, Sending
<1>5. CASE UpStore
  <2>1. pc = "up_store" /\ pc' = "cursor" /\ con' = [con EXCEPT !.Y = reg - 1]
    BY <1>5 DEF UpStore, Go
  <2>2. On(con, F, place.row + 1) /\ con.X = place.col /\ con.Y = SCREEN_HEIGHT /\ reg = con.Y
    BY <2>1 DEF Moving
  <2>3. Adapter(con)
    BY <2>2 DEF On, Near
  <2>4. Adapter(con') /\ con'.X = con.X /\ con'.Y = con.Y - 1
    BY <2>1, <2>2, <2>3, MovedY
  <2>5. con'.screen = con.screen
    BY <2>1, <2>3, MovedKeepsScreen
  <2>6. place.row \in Nat
    BY DEF IsPlace
  <2>7. On(con', F, place.row) /\ con'.Y < SCREEN_HEIGHT
    BY <2>2, <2>4, <2>5, <2>6, OnUp
  <2>8. QED  BY <2>1, <2>2, <2>4, <2>7 DEF Moving, Stands, Resting, Sending
<1>6. QED  BY <1>1, <1>2, <1>3, <1>4, <1>5

LEMMA StandsKept ==
  ASSUME NEW k, NEW F, NEW place, Stands(k, F, place), NEW j, Adapter(j), j.X = k.X, j.Y = k.Y, j.screen = k.screen
  PROVE  Stands(j, F, place)
<1>1. Near(j)
  BY DEF Stands, On, Near
<1>2. On(j, F, place.row)
  BY <1>1, OnKept DEF Stands
<1>3. QED  BY <1>2 DEF Stands

\* The four writes of setcursor.
LEMMA OutStands ==
  ASSUME NEW F, NEW place, Stands(con, F, place), IndexLow \/ DataLow \/ IndexHigh \/ DataHigh
  PROVE  Stands(con', F, place)
<1>1. Adapter(con)
  BY DEF Stands, On, Near
<1>2. (\E r \in {14, 15} : con' = OutIndex(con, r)) \/ (\E v : con' = OutData(con, v))
  BY DEF IndexLow, DataLow, IndexHigh, DataHigh
<1>3. Adapter(con') /\ con'.X = con.X /\ con'.Y = con.Y /\ con'.screen = con.screen
  <2>1. CASE \E r \in {14, 15} : con' = OutIndex(con, r)
    BY <1>1, <2>1, Outs, OutsKeepScreen
  <2>2. CASE \E v : con' = OutData(con, v)
    BY <1>1, <2>2, Outs, OutsKeepScreen
  <2>3. QED  BY <1>2, <2>1, <2>2
<1>4. QED  BY <1>3, StandsKept

LEMMA SendingMoves ==
  ASSUME NEW F, NEW place, Moving(con, pc, reg, F, place), Cursor \/ IndexLow \/ DataLow \/ IndexHigh
  PROVE  Moving(con', pc', reg', F, place)
<1>1. pc \in Sending /\ pc' \in Sending
  BY DEF Cursor, IndexLow, DataLow, IndexHigh, Go, Sending
<1>2. Stands(con, F, place)
  BY <1>1 DEF Moving
<1>3. Stands(con', F, place)
  <2>1. CASE Cursor
    BY <1>2, <2>1 DEF Cursor
  <2>2. CASE IndexLow \/ DataLow \/ IndexHigh
    BY <1>2, <2>2, OutStands
  <2>3. QED  BY <2>1, <2>2
<1>4. QED  BY <1>1, <1>3 DEF Moving, Resting, Sending

-----------------------------------------------------------------------------
(* What main has still to call. *)

\* What the calls of a list print is text.
CallsSound(list) == IsList(list) /\ \A call \in Range(list) : Prints(call) => IsList(Formatted(call))

LEMMA WhatIsMade ==
  /\ \A boot \in Boots : Range(boot) \subseteq CallsMade
  /\ Range(KernelBoot) \subseteq CallsMade /\ PromptCall \in CallsMade
  /\ \A line \in Typed : Range(execute_command(line)) \subseteq CallsMade
  /\ Range(Reporting(Registers(Frame(Raised(128), CrashAt)))) \subseteq CallsMade
<1> DEFINE A == UNION {Range(boot) : boot \in Boots}
           B == Range(KernelBoot)
           C == UNION {Range(execute_command(line)) : line \in Typed}
           D == Range(Reporting(Registers(Frame(Raised(128), CrashAt))))
<1>1. CallsMade = A \cup B \cup {PromptCall} \cup C \cup D
  BY DEF CallsMade
<1>2. (\A boot \in Boots : Range(boot) \subseteq A) /\ (\A line \in Typed : Range(execute_command(line)) \subseteq C)
  OBVIOUS
<1>3. D = Range(Reporting(Registers(Frame(Raised(128), CrashAt)))) /\ B = Range(KernelBoot)
  OBVIOUS
<1> HIDE DEF A, B, C, D
<1>4. A \subseteq CallsMade /\ B \subseteq CallsMade /\ PromptCall \in CallsMade /\ C \subseteq CallsMade /\ D \subseteq CallsMade
  BY <1>1
<1>5. QED  BY <1>2, <1>3, <1>4, Zenon

LEMMA MadeIsText ==
  ASSUME NEW call \in CallsMade, Prints(call)
  PROVE  IsList(Formatted(call))
<1> DEFINE t == Formatted(call)
<1>1. t \in Seq(STRING)
  BY TextsAssumption, Zenon
<1> HIDE DEF t
<1>2. Len(t) \in Nat /\ t = [i \in 1..Len(t) |-> t[i]]
  BY <1>1
<1>3. QED  BY <1>2, ListMade DEF t

LEMMA MadeSound ==
  ASSUME NEW list, IsList(list), Range(list) \subseteq CallsMade
  PROVE  CallsSound(list)
  BY MadeIsText DEF CallsSound

LEMMA SoundJoined ==
  ASSUME NEW a, NEW b, CallsSound(a), CallsSound(b)
  PROVE  CallsSound(a \o b)
<1>1. IsList(a \o b) /\ Range(a \o b) = Range(a) \cup Range(b)
  BY ListsJoined DEF CallsSound
<1>2. QED  BY <1>1 DEF CallsSound

LEMMA SilentSound ==
  ASSUME NEW call, ~Prints(call)
  PROVE  CallsSound(<<call>>)
  BY OneListed DEF CallsSound

LEMMA TailSound ==
  ASSUME NEW list, CallsSound(list), list # <<>>
  PROVE  CallsSound(Tail(list)) /\ (Prints(Head(list)) => IsList(Formatted(Head(list))))
<1>1. IsList(Tail(list)) /\ Range(Tail(list)) \subseteq Range(list) /\ Head(list) \in Range(list)
  BY TailListed DEF CallsSound
<1>2. QED  BY <1>1 DEF CallsSound

LEMMA ReportListed ==
  ASSUME NEW r
  PROVE  IsList(Reporting(r))
<1> DEFINE report == Report(r)
<1>1. PICK n \in Nat : report = [i \in 1..n |-> report[i]]
  <2> DEFINE a == <<Piece(<<"Unhandled exception ">>), Conversion("", "d", <<r.interrupt>>), Piece(<<" ">>),
                    Conversion("", "s", << <<"g_Exceptions">> >>), Piece(<<"\n">>)>>
             b == Reported(<<" eax=", " ebx=", " ecx=", " edx=", " esi=", " edi=">>,
                           <<r.eax, r.ebx, r.ecx, r.edx, r.esi, r.edi>>)
             c == Reported(<<" esp=", " ebp=", " eip=", " eflags=", " cs=", " ds=", " ss=">>,
                           <<r.esp, r.ebp, r.eip, r.eflags, r.cs, r.ds, r.ss>>)
             d == Reported(<<" interrupt=", " errorcode=">>, <<r.interrupt, r.error>>)
             e == <<Piece(<<"KERNEL PANIC!", "\n">>)>>
             f == <<Piece(<<"Unhandled interrupt ">>), Conversion("", "d", <<r.interrupt>>), Piece(<<"!", "\n">>)>>
  <2>1. report = <<a, b, c, d, e>> \/ report = <<f>>
    BY DEF Report, ReportException, ReportInterrupt
  <2> HIDE DEF a, b, c, d, e, f, report
  <2>2. CASE report = <<a, b, c, d, e>>
    <3>1. report = [i \in 1..5 |-> report[i]]
      BY <2>2
    <3>2. QED  BY <3>1
  <2>3. CASE report = <<f>>
    <3>1. report = [i \in 1..1 |-> report[i]]
      BY <2>3
    <3>2. QED  BY <3>1
  <2>4. QED  BY <2>1, <2>2, <2>3
<1> DEFINE s == Reporting(r)
<1>2. s = [i \in DOMAIN report |-> Printf(report[i])]
  BY DEF Reporting
<1> HIDE DEF report, s
<1>3. DOMAIN report = 1..n
  BY <1>1
<1>4. s = [i \in 1..n |-> s[i]]
  BY <1>2, <1>3
<1>5. QED  BY <1>4, ListMade DEF s

LEMMA CallsInit ==
  ASSUME ConsoleInit
  PROVE  CallsSound(calls)
<1>1. PICK boot \in Boots : calls = <<Call("clrscr", <<>>)>> \o boot \o KernelBoot
  BY DEF ConsoleInit
<1>2. CallsSound(<<Call("clrscr", <<>>)>>)
  BY SilentSound DEF Call, Prints
<1>3. IsList(boot) /\ IsList(KernelBoot)
  BY TextsAssumption DEF IsList
<1>4. Range(boot) \subseteq CallsMade /\ Range(KernelBoot) \subseteq CallsMade
  BY WhatIsMade
<1>5. CallsSound(boot) /\ CallsSound(KernelBoot)
  BY <1>3, <1>4, MadeSound
<1>6. QED  BY <1>1, <1>2, <1>5, SoundJoined

LEMMA CallsStep ==
  ASSUME CallsSound(calls), [ConsoleNext]_console_vars
  PROVE  CallsSound(calls')
<1>1. CASE calls' = calls
  BY <1>1
<1>2. CASE NextCall
  <2>1. calls # <<>> /\ calls' = Tail(calls)
    BY <1>2 DEF NextCall
  <2>2. QED  BY <2>1, TailSound
<1>3. CASE Crash
  <2> DEFINE r == Registers(Frame(Raised(128), CrashAt))
             after == Call(IF Panics(r) THEN "panic" ELSE "sti", <<>>)
  <2>1. calls # <<>> /\ calls' = Reporting(r) \o <<after>> \o Tail(calls)
    BY <1>3 DEF Crash
  <2>2. CallsSound(<<after>>)
    BY SilentSound DEF Call, Prints
  <2>3. Range(Reporting(r)) \subseteq CallsMade
    BY WhatIsMade
  <2> HIDE DEF r, after
  <2>4. CallsSound(Reporting(r))
    BY <2>3, ReportListed, MadeSound
  <2>5. CallsSound(Tail(calls))
    BY <2>1, TailSound
  <2>6. QED  BY <2>1, <2>2, <2>4, <2>5, SoundJoined
<1>4. CASE ReadLine
  <2>1. PICK line \in Typed : calls' = execute_command(line) \o <<PromptCall>>
    BY <1>4 DEF ReadLine
  <2>2. Range(execute_command(line)) \subseteq CallsMade /\ PromptCall \in CallsMade
    BY WhatIsMade
  <2>3. IsList(<<PromptCall>>) /\ Range(<<PromptCall>>) = {PromptCall}
    BY OneListed
  <2>4. CallsSound(<<PromptCall>>)
    BY <2>2, <2>3, MadeSound
  <2>5. CallsSound(execute_command(line))
    BY <2>2, CommandListed, MadeSound
  <2>6. QED  BY <2>1, <2>4, <2>5, SoundJoined
<1>5. QED
  <2>1. calls' = calls \/ NextCall \/ Crash \/ ReadLine
    BY DEF ConsoleNext, ConsoleMain, Idle, Key, Spurious, Interrupted, Keep, Micro, console_vars,
      TextDone, PutcBegins, TabTest, RightLoad, RightStore, DownLoad, DownStore,
      Wrap, NextLoad, NextStore, Margin, Bottom, Scroll, ScrollBlank, UpLoad, UpStore,
      Cursor, IndexLow, DataLow, IndexHigh, DataHigh, BlankAll, HomeX, HomeY
  <2>2. QED  BY <1>1, <1>2, <1>3, <1>4, <2>1

-----------------------------------------------------------------------------
(* How far main is in its text. *)

SignsPut(p, t) == Len(p.marks) - Len(t)

\* The text to print is on the paper already, and what is left of it is its end.
TextSound(p, t, at) ==
  /\ PaperSound(p) /\ IsList(t) /\ Len(t) <= Len(p.marks)
  /\ \A i \in 1..Len(t) : p.marks[SignsPut(p, t) + i].sign = t[i]
  /\ at \in Resting \cup Clearing => t = <<>>
  /\ t = <<>> => at \in Resting \cup Clearing \cup Sending \cup {"print"}
  /\ at \in Clearing => p = Blank

\* The loop of a tabulator is of the next sign.
TabSound(b, t, at) ==
  /\ b \in Int /\ b >= -1
  /\ b >= 0 => t # <<>> /\ Head(t) = "\t"
  /\ at = "tab" => b >= 0
  /\ at \in Resting \cup Clearing \cup {"print", "down_load", "down_store"} => b = -1

LEMMA BlankSound == PaperSound(Blank) /\ Len(Blank.marks) = 0 /\ PlaceAfter(Blank, 0) = [row |-> 0, col |-> 0]
<1>1. Blank.marks = <<>> /\ Len(Blank.marks) = 0 /\ Blank.end = [row |-> 0, col |-> 0]
  BY DEF Blank
<1>2. PlaceAfter(Blank, 0) = [row |-> 0, col |-> 0]
  BY <1>1 DEF PlaceAfter
<1>3. IsPlace([row |-> 0, col |-> 0])
  BY WideEnough DEF IsPlace
<1>4. IsList(Blank.marks)
  BY <1>1, NothingListed
<1>5. \A n \in 0..0 : n = 0
  OBVIOUS
<1>6. \A n \in 1..0 : FALSE
  OBVIOUS
<1>7. PaperSound(Blank)
  BY <1>1, <1>2, <1>3, <1>4, <1>5, <1>6 DEF PaperSound
<1>8. QED  BY <1>1, <1>2, <1>7

LEMMA TailIs ==
  ASSUME NEW t, IsList(t), t # <<>>
  PROVE  /\ Len(t) \in Nat /\ Len(t) > 0 /\ Len(Tail(t)) = Len(t) - 1 /\ Head(t) = t[1]
         /\ \A i \in 1..(Len(t) - 1) : Tail(t)[i] = t[i + 1]
  BY DEF IsList

\* What leaves the text and the paper as they are.
LEMMA TextStays ==
  ASSUME TextSound(paper, text, pc), TabSound(tab, text, pc), text' = text, paper' = paper, tab' = tab,
         \/ pc' = pc
         \/ pc' \in Resting /\ text = <<>> /\ tab = -1
         \/ pc \in Clearing /\ pc' \in Clearing \cup {"cursor"}
         \/ pc \notin Resting \cup Clearing \cup {"print"} /\
            pc' \notin Resting \cup Clearing \cup {"print", "tab", "down_load"} /\
            (pc \in Sending => pc' \in Sending) /\ (pc' = "down_store" => pc = "down_load")
  PROVE  TextSound(paper', text', pc') /\ TabSound(tab', text', pc')
  BY DEF TextSound, TabSound, Resting, Clearing, Sending

LEMMA TextMicro ==
  ASSUME TextSound(paper, text, pc), TabSound(tab, text, pc),
         \/ RightLoad \/ RightStore \/ DownLoad \/ DownStore
         \/ Wrap \/ NextLoad \/ NextStore \/ Margin
         \/ Bottom \/ Scroll \/ ScrollBlank \/ UpLoad \/ UpStore
         \/ Cursor \/ IndexLow \/ DataLow \/ IndexHigh \/ BlankAll \/ HomeX \/ HomeY
  PROVE  TextSound(paper', text', pc') /\ TabSound(tab', text', pc')
<1>1. text' = text /\ paper' = paper /\ tab' = tab
  BY DEF Micro, Keep, history, RightLoad, RightStore, DownLoad, DownStore,
    Wrap, NextLoad, NextStore, Margin, Bottom, Scroll, ScrollBlank, UpLoad, UpStore,
    Cursor, IndexLow, DataLow, IndexHigh, BlankAll, HomeX, HomeY
<1>2. \/ pc \in Clearing /\ pc' \in Clearing \cup {"cursor"}
      \/ pc \notin Resting \cup Clearing \cup {"print"} /\
         pc' \notin Resting \cup Clearing \cup {"print", "tab", "down_load"} /\
         (pc \in Sending => pc' \in Sending) /\ (pc' = "down_store" => pc = "down_load")
  <2>1. CASE RightLoad \/ RightStore \/ DownLoad \/ DownStore
    BY <2>1 DEF RightLoad, RightStore, DownLoad, DownStore, Go, Resting, Clearing, Sending
  <2>2. CASE Wrap \/ NextLoad \/ NextStore \/ Margin
    BY <2>2 DEF Wrap, NextLoad, NextStore, Margin, Go, At, Resting, Clearing, Sending
  <2>3. CASE Bottom \/ Scroll \/ ScrollBlank \/ UpLoad \/ UpStore
    BY <2>3 DEF Bottom, Scroll, ScrollBlank, UpLoad, UpStore, Go, At, Resting, Clearing, Sending
  <2>4. CASE Cursor \/ IndexLow \/ DataLow \/ IndexHigh
    BY <2>4 DEF Cursor, IndexLow, DataLow, IndexHigh, Go, Resting, Clearing, Sending
  <2>5. CASE BlankAll \/ HomeX \/ HomeY
    BY <2>5 DEF BlankAll, HomeX, HomeY, Go, Clearing
  <2>6. QED  BY <2>1, <2>2, <2>3, <2>4, <2>5
<1>3. QED  BY <1>1, <1>2, TextStays

LEMMA TextCalls ==
  ASSUME CallsSound(calls), TextSound(paper, text, pc), TabSound(tab, text, pc), NextCall
  PROVE  TextSound(paper', text', pc') /\ TabSound(tab', text', pc')
<1> DEFINE call == Head(calls)
<1>1. pc = "call" /\ calls # <<>> /\ tab' = tab
  BY DEF NextCall, At
<1>2. text = <<>> /\ tab = -1 /\ PaperSound(paper)
  BY <1>1 DEF TextSound, TabSound, Resting
<1>3. CASE Prints(call) /\ text' = Formatted(call) /\ paper' = Written(paper, text') /\ pc' = "print"
  <2>1. IsList(text')
    BY <1>1, <1>3, TailSound
  <2>2. Adds(paper, text', paper')
    BY <1>2, <1>3, <2>1, WrittenAdds
  <2>3. Len(text') \in Nat /\ Len(paper.marks) \in Nat
    BY <1>2, <2>1 DEF PaperSound, IsList
  <2>4. SignsPut(paper', text') = Len(paper.marks)
    BY <2>2, <2>3 DEF Adds, SignsPut
  <2>5. /\ PaperSound(paper') /\ Len(text') <= Len(paper'.marks)
        /\ \A i \in 1..Len(text') : paper'.marks[Len(paper.marks) + i].sign = text'[i]
    BY <2>2, <2>3 DEF Adds
  <2>6. TextSound(paper', text', pc')
    BY <1>3, <2>1, <2>4, <2>5 DEF TextSound, Resting, Clearing
  <2>7. TabSound(tab', text', pc')
    BY <1>1, <1>2, <1>3 DEF TabSound
  <2>8. QED  BY <2>6, <2>7
<1>4. CASE pc' = "blank_all" /\ paper' = Blank /\ text' = text
  <2>1. IsList(<<>>) /\ Len(<<>>) = 0
    BY NothingListed
  <2>2. TextSound(paper', text', pc')
    BY <1>2, <1>4, <2>1, BlankSound DEF TextSound, Resting, Clearing
  <2>3. TabSound(tab', text', pc')
    BY <1>1, <1>2, <1>4 DEF TabSound
  <2>4. QED  BY <2>2, <2>3
<1>5. CASE pc' \in Resting /\ paper' = paper /\ text' = text
  BY <1>1, <1>2, <1>5, TextStays
<1>6. QED
  BY <1>1, <1>3, <1>4, <1>5 DEF NextCall, Resting

LEMMA TextRead ==
  ASSUME TextSound(paper, text, pc), TabSound(tab, text, pc), ReadLine
  PROVE  /\ TextSound(paper', text', pc') /\ TabSound(tab', text', pc')
         /\ \E str : /\ IsList(str) /\ con' = puts(con, str) /\ Adds(paper, str, paper')
                     /\ \A i \in 1..Len(str) : str[i] # BS
<1>1. PICK line \in Typed : con' = puts(con, line \o CRNL) /\ paper' = Written(paper, line \o CRNL)
  BY DEF ReadLine
<1>2. pc = "call" /\ pc' = pc /\ tab' = tab /\ text' = text
  BY DEF ReadLine, At
<1>3. text = <<>> /\ PaperSound(paper)
  BY <1>2 DEF TextSound, Resting
<1> DEFINE str == line \o CRNL
<1>4. IsList(str) /\ \A i \in 1..Len(str) : str[i] # BS
  <2>1. line \in Seq(STRING) /\ \A i \in DOMAIN line : Plain(line[i]) \/ line[i] = "\t"
    BY TypedAssumption
  <2>2. IsList(line)
    <3>1. Len(line) \in Nat /\ line = [i \in 1..Len(line) |-> line[i]]
      BY <2>1
    <3>2. QED  BY <3>1, ListMade
  <2>3. IsList(CRNL) /\ Range(CRNL) = {"\r", "\n"}
    <3>1. CRNL = [i \in 1..2 |-> CRNL[i]] /\ CRNL[1] = "\r" /\ CRNL[2] = "\n"
      BY DEF CRNL
    <3>2. IsList(CRNL)
      BY <3>1, ListMade
    <3>3. DOMAIN CRNL = 1..2
      BY <3>1
    <3>4. QED  BY <3>1, <3>2, <3>3 DEF Range
  <2>4. IsList(str) /\ Range(str) = Range(line) \cup Range(CRNL)
    BY <2>2, <2>3, ListsJoined
  <2>5. BS \notin Range(line)
    BY <2>1 DEF Range, Plain, BS
  <2>6. BS \notin Range(CRNL)
    BY <2>3 DEF BS
  <2> HIDE DEF str
  <2>7. DOMAIN str = 1..Len(str)
    BY <2>4, LenProperties, Zenon DEF IsList
  <2>8. QED  BY <2>4, <2>5, <2>6, <2>7 DEF Range
<1>5. con' = puts(con, str) /\ paper' = Written(paper, str)
  BY <1>1
<1> HIDE DEF str
<1>6. Adds(paper, str, paper')
  BY <1>3, <1>4, <1>5, WrittenAdds
<1>7. PaperSound(paper') /\ Len(paper'.marks) \in Nat
  <2>1. PaperSound(paper')
    BY <1>6 DEF Adds
  <2>2. QED  BY <2>1 DEF PaperSound, IsList
<1>8. TextSound(paper', text', pc')
  <2>1. IsList(<<>>) /\ Len(<<>>) = 0
    BY NothingListed
  <2>2. QED  BY <1>2, <1>3, <1>7, <2>1 DEF TextSound, Resting, Clearing
<1>9. TabSound(tab', text', pc')
  BY <1>2
<1>10. QED  BY <1>4, <1>5, <1>6, <1>8, <1>9

\* putc begins, its loop goes on, and it ends.
LEMMA TextPutc ==
  ASSUME TextSound(paper, text, pc), TabSound(tab, text, pc), PutcBegins \/ TabTest \/ DataHigh
  PROVE  TextSound(paper', text', pc') /\ TabSound(tab', text', pc')
<1>1. paper' = paper
  BY DEF PutcBegins, TabTest, DataHigh, Keep, history
<1>2. CASE PutcBegins
  <2>1. /\ pc = "print" /\ text # <<>> /\ text' = text
        /\ \/ tab' = tab /\ pc' \in {"down_load", "wrap", "right_load"}
           \/ Head(text) = "\t" /\ tab' = 0 /\ pc' = "tab"
    BY <1>2 DEF PutcBegins, At
  <2>2. tab = -1
    BY <2>1 DEF TabSound
  <2>3. QED  BY <1>1, <2>1, <2>2 DEF TextSound, TabSound, Resting, Clearing, Sending
<1>3. CASE TabTest
  <2>1. pc = "tab" /\ text' = text /\ ((tab' = tab /\ pc' = "right_load") \/ (tab' = -1 /\ pc' = "wrap"))
    BY <1>3 DEF TabTest, At
  <2>2. QED  BY <1>1, <2>1 DEF TextSound, TabSound, Resting, Clearing, Sending
<1>4. CASE DataHigh
  <2>1. pc = "data_high"
    BY <1>4 DEF DataHigh, At
  <2>2. CASE tab >= 0 /\ tab' = tab + 1 /\ pc' = "tab" /\ text' = text
    BY <1>1, <2>1, <2>2 DEF TextSound, TabSound, Resting, Clearing, Sending
  <2>3. CASE tab < 0 /\ text # <<>> /\ text' = Tail(text) /\ pc' = "print" /\ tab' = tab
    <3>1. IsList(text) /\ PaperSound(paper) /\ Len(text) <= Len(paper.marks)
      BY DEF TextSound
    <3>2. /\ Len(text) \in Nat /\ Len(text) > 0 /\ Len(text') = Len(text) - 1 /\ IsList(text')
          /\ \A i \in 1..(Len(text) - 1) : text'[i] = text[i + 1]
      BY <2>3, <3>1, TailIs, TailListed
    <3>3. Len(paper.marks) \in Nat
      BY <3>1 DEF PaperSound, IsList
    <3>4. SignsPut(paper', text') = SignsPut(paper, text) + 1
      BY <1>1, <3>2, <3>3 DEF SignsPut
    <3>5. ASSUME NEW i \in 1..Len(text') PROVE paper'.marks[SignsPut(paper', text') + i].sign = text'[i]
      <4>1. i + 1 \in 1..Len(text) /\ i \in 1..(Len(text) - 1)
        BY <3>2
      <4>2. paper.marks[SignsPut(paper, text) + (i + 1)].sign = text[i + 1]
        BY <4>1 DEF TextSound
      <4>3. SignsPut(paper', text') + i = SignsPut(paper, text) + (i + 1)
        <5>1. SignsPut(paper, text) \in Int
          BY <3>2, <3>3 DEF SignsPut
        <5>2. QED  BY <3>4, <5>1
      <4>4. QED  BY <1>1, <3>2, <4>1, <4>2, <4>3
    <3>6. TextSound(paper', text', pc')
      BY <1>1, <2>3, <3>1, <3>2, <3>3, <3>5 DEF TextSound, Resting, Clearing
    <3>7. TabSound(tab', text', pc')
      BY <2>3 DEF TabSound
    <3>8. QED  BY <3>6, <3>7
  <2>4. CASE tab < 0 /\ text = <<>> /\ pc' = "call" /\ text' = text /\ tab' = tab
    BY <1>1, <2>1, <2>4 DEF TextSound, TabSound, Resting, Clearing, Sending
  <2>5. QED  BY <1>4, <2>2, <2>3, <2>4 DEF DataHigh
<1>5. QED  BY <1>2, <1>3, <1>4

LEMMA TextStep ==
  ASSUME CallsSound(calls), TextSound(paper, text, pc), TabSound(tab, text, pc), [ConsoleNext]_console_vars
  PROVE  TextSound(paper', text', pc') /\ TabSound(tab', text', pc')
<1>1. CASE UNCHANGED console_vars \/ Idle \/ Crash \/ Spurious \/ \E key \in Keys : Key(key)
  <2>1. text' = text /\ paper' = paper /\ tab' = tab /\ pc' = pc
    BY <1>1 DEF console_vars, history, Idle, Crash, Spurious, Key, Interrupted
  <2>2. QED  BY <2>1, TextStays
<1>2. CASE TextDone
  <2>1. text' = text /\ paper' = paper /\ tab' = tab /\ pc = "print" /\ pc' = "call" /\ text = <<>>
    BY <1>2 DEF TextDone, Go, Keep, history
  <2>2. tab = -1 /\ pc' \in Resting
    BY <2>1 DEF TabSound, Resting
  <2>3. QED  BY <2>1, <2>2, TextStays
<1>3. QED
  BY <1>1, <1>2, TextCalls, TextRead, TextPutc, TextMicro DEF ConsoleNext, ConsoleMain

-----------------------------------------------------------------------------
(* The screen and the paper. *)

\* The signs of the paper that are on the screen, the one being put included,
\* and the columns of a tabulator that are.
SignsShown(p, t, b, at) == IF b < 0 /\ t # <<>> /\ at # "print" THEN SignsPut(p, t) + 1 ELSE SignsPut(p, t)
ColumnsShown(b, at) == IF b < 0 THEN 0 ELSE IF at = "tab" THEN b ELSE b + 1

Blanked(k) == Adapter(k) /\ k.screen = [i \in Cells |-> NUL]

\* The screen is on the way to the place behind them, or is being cleared.
ScreenWay(k, at, r, p, n, j) ==
  /\ at \notin Clearing => Moving(k, at, r, Sheet(p, n, j), Along(PlaceAfter(p, n), j))
  /\ at = "blank_all" => Adapter(k)
  /\ at \in {"home_x", "home_y"} => Blanked(k)
  /\ at = "home_y" => k.X = 0
ScreenSound(k, at, r, p, t, b) ==
  /\ ScreenWay(k, at, r, p, SignsShown(p, t, b, at), ColumnsShown(b, at))
  /\ b >= 0 => ColumnsShown(b, at) <= Width(PlaceAfter(p, SignsShown(p, t, b, at)), "\t")

LEMMA ShownIs ==
  ASSUME NEW p, NEW t, NEW b, NEW at, TextSound(p, t, at), TabSound(b, t, at),
         NEW n, n = SignsShown(p, t, b, at), NEW j, j = ColumnsShown(b, at),
         b >= 0 => j <= Width(PlaceAfter(p, n), "\t")
  PROVE  /\ Len(p.marks) \in Nat /\ n \in 0..Len(p.marks) /\ j \in 0..3 /\ PaperSound(p)
         /\ IsPlace(PlaceAfter(p, n)) /\ IsPlace(Along(PlaceAfter(p, n), j))
<1>1. PaperSound(p) /\ IsList(t) /\ Len(t) <= Len(p.marks)
  BY DEF TextSound
<1>2. Len(p.marks) \in Nat
  BY <1>1 DEF PaperSound, IsList
<1>3. Len(t) \in Nat /\ (t # <<>> => Len(t) > 0)
  BY <1>1, TailIs DEF IsList
<1>4. n \in 0..Len(p.marks)
  BY <1>1, <1>2, <1>3 DEF SignsShown, SignsPut
<1>5. IsPlace(PlaceAfter(p, n))
  BY <1>1, <1>4 DEF PaperSound
<1>6. Width(PlaceAfter(p, n), "\t") \in 1..3
  BY <1>5, WidthIs
<1>7. j \in 0..3
  <2>1. j \in Nat
    BY DEF ColumnsShown, TabSound
  <2>2. b < 0 => j = 0
    BY DEF ColumnsShown
  <2>3. b \in Int
    BY DEF TabSound
  <2>4. QED  BY <1>6, <2>1, <2>2, <2>3
<1>8. IsPlace(Along(PlaceAfter(p, n), j))
  <2>1. j \in 0..4
    BY <1>7
  <2>2. QED  BY <1>5, <2>1, AlongIs
<1>9. QED  BY <1>1, <1>2, <1>4, <1>5, <1>7, <1>8

\* Between two signs nothing of the next is on the screen.
LEMMA ShownAtRest ==
  ASSUME NEW p, NEW t, NEW at, TextSound(p, t, at), NEW b, TabSound(b, t, at), at \in Resting \cup {"print"}
  PROVE  /\ b = -1 /\ SignsShown(p, t, b, at) = SignsPut(p, t) /\ ColumnsShown(b, at) = 0
         /\ at \in Resting => t = <<>> /\ SignsPut(p, t) = Len(p.marks)
<1>1. b = -1
  BY DEF TabSound
<1>2. at \in Resting => t = <<>>
  BY DEF TextSound
<1>3. t = <<>> => SignsPut(p, t) = Len(p.marks)
  <2>1. Len(<<>>) = 0 /\ Len(p.marks) \in Nat
    BY NothingListed DEF TextSound, PaperSound, IsList
  <2>2. QED  BY <2>1 DEF SignsPut
<1>4. SignsShown(p, t, b, at) = SignsPut(p, t)
  BY <1>2 DEF SignsShown
<1>5. ColumnsShown(b, at) = 0
  BY <1>1 DEF ColumnsShown
<1>6. QED  BY <1>1, <1>2, <1>3, <1>4, <1>5

LEMMA ScreenMicro ==
  ASSUME TextSound(paper, text, pc), TabSound(tab, text, pc), ScreenSound(con, pc, reg, paper, text, tab),
         \/ RightLoad \/ RightStore \/ DownLoad \/ DownStore
         \/ Wrap \/ NextLoad \/ NextStore \/ Margin
         \/ Bottom \/ Scroll \/ ScrollBlank \/ UpLoad \/ UpStore
         \/ Cursor \/ IndexLow \/ DataLow \/ IndexHigh
  PROVE  ScreenSound(con', pc', reg', paper', text', tab')
<1>1. text' = text /\ paper' = paper /\ tab' = tab
  BY DEF Micro, Keep, history, RightLoad, RightStore, DownLoad, DownStore,
    Wrap, NextLoad, NextStore, Margin, Bottom, Scroll, ScrollBlank, UpLoad, UpStore,
    Cursor, IndexLow, DataLow, IndexHigh
<1>2. pc \notin Clearing \cup {"print", "tab"} /\ pc' \notin Clearing \cup {"print", "tab"}
  <2>1. CASE RightLoad \/ RightStore \/ DownLoad \/ DownStore
    BY <2>1 DEF RightLoad, RightStore, DownLoad, DownStore, Go, Clearing
  <2>2. CASE Wrap \/ NextLoad \/ NextStore \/ Margin
    BY <2>2 DEF Wrap, NextLoad, NextStore, Margin, Go, At, Clearing
  <2>3. CASE Bottom \/ Scroll \/ ScrollBlank \/ UpLoad \/ UpStore
    BY <2>3 DEF Bottom, Scroll, ScrollBlank, UpLoad, UpStore, Go, At, Clearing
  <2>4. CASE Cursor \/ IndexLow \/ DataLow \/ IndexHigh
    BY <2>4 DEF Cursor, IndexLow, DataLow, IndexHigh, Go, Clearing
  <2>5. QED  BY <2>1, <2>2, <2>3, <2>4
<1>3. PICK n, j : n = SignsShown(paper, text, tab, pc) /\ j = ColumnsShown(tab, pc)
  OBVIOUS
<1>4. SignsShown(paper', text', tab', pc') = n /\ ColumnsShown(tab', pc') = j
  BY <1>1, <1>2, <1>3 DEF SignsShown, ColumnsShown
<1>5. (tab >= 0 => j <= Width(PlaceAfter(paper, n), "\t")) /\ ScreenWay(con, pc, reg, paper, n, j)
  BY <1>3 DEF ScreenSound
<1>6. PICK F, place : F = Sheet(paper, n, j) /\ place = Along(PlaceAfter(paper, n), j)
  OBVIOUS
<1>7. IsPlace(place)
  BY <1>3, <1>5, <1>6, ShownIs
<1>8. Moving(con, pc, reg, F, place)
  BY <1>2, <1>5, <1>6 DEF ScreenWay
<1>9. Moving(con', pc', reg', F, place)
  BY <1>7, <1>8, RightMoves, DownMoves, WrapMoves, BottomMoves, SendingMoves
<1>10. ScreenWay(con', pc', reg', paper', n, j)
  BY <1>1, <1>2, <1>6, <1>9 DEF ScreenWay, Clearing
<1>11. QED  BY <1>1, <1>4, <1>5, <1>10 DEF ScreenSound

LEMMA ScreenRests ==
  ASSUME TextSound(paper, text, pc), TabSound(tab, text, pc), ScreenSound(con, pc, reg, paper, text, tab),
         pc \in Resting \cup {"print"}
  PROVE  /\ Reads(con, paper, SignsPut(paper, text), 0) /\ SignsPut(paper, text) \in 0..Len(paper.marks)
         /\ Len(paper.marks) \in Nat /\ PaperSound(paper) /\ IsPlace(PlaceAfter(paper, SignsPut(paper, text)))
<1>1. PICK n, j : n = SignsPut(paper, text) /\ j = 0
  OBVIOUS
<1>2. n = SignsShown(paper, text, tab, pc) /\ j = ColumnsShown(tab, pc)
  BY <1>1, ShownAtRest
<1>3. (tab >= 0 => j <= Width(PlaceAfter(paper, n), "\t")) /\ ScreenWay(con, pc, reg, paper, n, j)
  BY <1>2 DEF ScreenSound
<1>4. pc \notin Clearing
  BY DEF Resting, Clearing
<1>5. Reads(con, paper, n, j)
  BY <1>3, <1>4 DEF ScreenWay, Moving, Reads
<1>6. n \in 0..Len(paper.marks) /\ Len(paper.marks) \in Nat /\ PaperSound(paper) /\ IsPlace(PlaceAfter(paper, n))
  BY <1>2, <1>3, ShownIs
<1>7. QED  BY <1>1, <1>5, <1>6

\* The converse, of the state to come.
LEMMA ScreenAtRest ==
  ASSUME NEW k, NEW at, NEW r, NEW p, NEW t, NEW b, TextSound(p, t, at), TabSound(b, t, at),
         at \in Resting \cup {"print"}, Reads(k, p, SignsPut(p, t), 0)
  PROVE  ScreenSound(k, at, r, p, t, b)
<1>1. PICK n, j : n = SignsPut(p, t) /\ j = 0
  OBVIOUS
<1>2. n = SignsShown(p, t, b, at) /\ j = ColumnsShown(b, at) /\ b = -1
  BY <1>1, ShownAtRest
<1>3. Reads(k, p, n, j)
  BY <1>1
<1>4. ScreenWay(k, at, r, p, n, j)
  BY <1>3 DEF ScreenWay, Moving, Reads, Resting, Clearing
<1>5. ~(b >= 0)
  BY <1>2
<1>6. QED  BY <1>2, <1>4, <1>5 DEF ScreenSound

LEMMA ScreenStays ==
  ASSUME TextSound(paper, text, pc), TabSound(tab, text, pc), ScreenSound(con, pc, reg, paper, text, tab),
         UNCHANGED console_vars \/ Idle \/ Crash \/ TextDone
  PROVE  ScreenSound(con', pc', reg', paper', text', tab')
<1>1. con' = con /\ reg' = reg /\ text' = text /\ paper' = paper /\ tab' = tab
  BY DEF console_vars, history, Idle, Crash, TextDone, Keep
<1>2. CASE UNCHANGED console_vars \/ Idle \/ Crash
  <2>1. pc' = pc
    BY <1>2 DEF console_vars, history, Idle, Crash
  <2>2. QED  BY <1>1, <2>1
<1>3. CASE TextDone
  <2>1. pc = "print" /\ pc' = "call" /\ text = <<>>
    BY <1>3 DEF TextDone, Go
  <2>2. Reads(con, paper, SignsPut(paper, text), 0)
    BY <2>1, ScreenRests
  <2>3. TextSound(paper', text', pc') /\ TabSound(tab', text', pc')
    BY <1>1, <2>1 DEF TextSound, TabSound, Resting, Clearing, Sending
  <2>4. QED  BY <1>1, <2>1, <2>2, <2>3, ScreenAtRest DEF Resting
<1>4. QED  BY <1>2, <1>3

LEMMA PutSigns ==
  ASSUME NEW p, NEW str, NEW q, Adds(p, str, q), Len(p.marks) \in Nat, Len(str) \in Nat
  PROVE  SignsPut(q, str) = Len(p.marks)
  BY DEF Adds, SignsPut

\* Where the screen stands, the paper written on shows the same.
LEMMA ReadsKept ==
  ASSUME NEW k, NEW p, NEW str, NEW q, Adds(p, str, q), Len(p.marks) \in Nat, NEW n \in 0..Len(p.marks), Reads(k, p, n, 0)
  PROVE  Reads(k, q, n, 0)
<1>1. PICK j : j = 0
  OBVIOUS
<1>2. Sheet(q, n, j) = Sheet(p, n, j) /\ PlaceAfter(q, n) = PlaceAfter(p, n)
  BY AddsKeeps
<1>3. Reads(k, q, n, j)
  BY <1>1, <1>2 DEF Reads
<1>4. QED  BY <1>1, <1>3

LEMMA ScreenCalls ==
  ASSUME CallsSound(calls), TextSound(paper, text, pc), TabSound(tab, text, pc),
         ScreenSound(con, pc, reg, paper, text, tab), NextCall
  PROVE  ScreenSound(con', pc', reg', paper', text', tab')
<1> DEFINE call == Head(calls)
           n == SignsPut(paper, text)
<1>1. pc = "call" /\ calls # <<>> /\ tab' = tab /\ con' = con /\ reg' = reg
  BY DEF NextCall, At
<1>2. TextSound(paper', text', pc') /\ TabSound(tab', text', pc')
  BY TextCalls
<1>3. pc \in Resting
  BY <1>1 DEF Resting
<1>4. Reads(con, paper, n, 0) /\ n \in 0..Len(paper.marks) /\ Len(paper.marks) \in Nat /\ PaperSound(paper)
  BY <1>3, ScreenRests
<1>5. text = <<>> /\ n = Len(paper.marks)
  BY <1>3, ShownAtRest
<1>6. CASE Prints(call) /\ text' = Formatted(call) /\ paper' = Written(paper, text') /\ pc' = "print"
  <2>1. IsList(text')
    BY <1>1, <1>6, TailSound
  <2>2. Adds(paper, text', paper')
    BY <1>4, <1>6, <2>1, WrittenAdds
  <2> HIDE DEF n
  <2>3. Reads(con, paper', n, 0)
    BY <1>4, <2>2, ReadsKept
  <2>4. SignsPut(paper', text') = n
    <3>1. Len(text') \in Nat
      BY <2>1 DEF IsList
    <3>2. QED  BY <1>4, <1>5, <2>2, <3>1, PutSigns
  <2>5. QED  BY <1>1, <1>2, <1>6, <2>3, <2>4, ScreenAtRest
<1>7. CASE pc' = "blank_all"
  <2>1. Adapter(con)
    BY <1>4 DEF Reads, Stands, On, Near
  <2>2. tab' = -1 /\ ~(tab' >= 0)
    BY <1>2, <1>7 DEF TabSound, Clearing
  <2>3. QED  BY <1>1, <1>7, <2>1, <2>2 DEF ScreenSound, ScreenWay, Clearing
<1>8. CASE pc' \in Resting /\ paper' = paper /\ text' = text
  BY <1>1, <1>2, <1>4, <1>8, ScreenAtRest
<1>9. QED
  BY <1>1, <1>6, <1>7, <1>8 DEF NextCall, Resting

LEMMA ScreenRead ==
  ASSUME TextSound(paper, text, pc), TabSound(tab, text, pc), ScreenSound(con, pc, reg, paper, text, tab), ReadLine
  PROVE  ScreenSound(con', pc', reg', paper', text', tab')
<1>1. TextSound(paper', text', pc') /\ TabSound(tab', text', pc')
  BY TextRead
<1>2. PICK str : /\ IsList(str) /\ con' = puts(con, str) /\ Adds(paper, str, paper')
                 /\ \A i \in 1..Len(str) : str[i] # BS
  BY TextRead
<1>3. pc = "call" /\ pc' = pc /\ text' = text
  BY DEF ReadLine, At
<1>4. pc \in Resting /\ pc' \in Resting
  BY <1>3 DEF Resting
<1>5. PICK n : n = SignsPut(paper, text)
  OBVIOUS
<1>6. Reads(con, paper, n, 0) /\ n \in 0..Len(paper.marks) /\ Len(paper.marks) \in Nat /\ n = Len(paper.marks)
  BY <1>4, <1>5, ScreenRests, ShownAtRest
<1>7. Reads(con, paper', n, 0)
  BY <1>2, <1>6, ReadsKept
<1>8. PICK m : m = Len(paper'.marks)
  OBVIOUS
<1>9. Reads(con', paper', m, 0)
  <2>1. /\ PaperSound(paper') /\ Len(paper'.marks) = n + Len(str)
        /\ \A i \in 1..Len(str) : paper'.marks[n + i].sign = str[i]
    BY <1>2, <1>6 DEF Adds
  <2>2. n \in Nat
    BY <1>6
  <2>3. Reads(puts(con, str), paper', Len(paper'.marks), 0)
    BY <1>2, <1>7, <2>1, <2>2, PutsReads
  <2>4. QED  BY <1>2, <1>8, <2>3
<1>10. SignsPut(paper', text') = m
  BY <1>1, <1>4, <1>8, ShownAtRest
<1>11. QED  BY <1>1, <1>4, <1>9, <1>10, ScreenAtRest

\* The sign to put, the place behind it and the sheet with it.
LEMMA SignNext ==
  ASSUME NEW p, NEW t, NEW pc0, TextSound(p, t, pc0), t # <<>>,
         NEW n, n = SignsPut(p, t), NEW sign, sign = Head(t),
         NEW at, at = PlaceAfter(p, n), NEW next, next = PlaceAfter(p, n + 1),
         NEW F, F = Sheet(p, n, 0), NEW G, G = Sheet(p, n + 1, 0)
  PROVE  /\ n \in 0..(Len(p.marks) - 1) /\ Len(p.marks) \in Nat
         /\ IsPlace(at) /\ IsPlace(next) /\ next = Behind(at, sign)
         /\ sign \in {"\n", "\r"} => G = F
         /\ sign = "\t" => G = Sheet(p, n, Width(at, sign))
         /\ sign \notin {"\n", "\r", "\t"} => G = [F EXCEPT ![Spot(at)] = sign]
         /\ DOMAIN F = Nat
<1>1. PaperSound(p) /\ IsList(t) /\ Len(t) <= Len(p.marks)
  BY DEF TextSound
<1>2. Len(p.marks) \in Nat /\ Len(t) \in Nat /\ Len(t) > 0 /\ Head(t) = t[1]
  BY <1>1, TailIs DEF PaperSound, IsList
<1>3. n \in 0..(Len(p.marks) - 1) /\ n \in 0..Len(p.marks) /\ n + 1 \in 1..Len(p.marks) /\ n + 1 - 1 = n
  BY <1>1, <1>2 DEF SignsPut
<1>4. p.marks[n + 1].sign = sign
  <2>1. 1 \in 1..Len(t)
    BY <1>2
  <2>2. QED  BY <1>2, <2>1 DEF TextSound
<1>5. IsPlace(at) /\ IsPlace(next) /\ next = Behind(at, sign)
  <2>1. n + 1 \in 0..Len(p.marks)
    BY <1>3
  <2>2. PlaceAfter(p, n + 1) = Behind(PlaceAfter(p, n + 1 - 1), p.marks[n + 1].sign)
    BY <1>1, <1>3 DEF PaperSound
  <2>3. QED  BY <1>1, <1>3, <1>4, <2>1, <2>2 DEF PaperSound
<1>6. PICK m : m = p.marks[n + 1]
  OBVIOUS
<1>7. m.at = at /\ m.sign = sign
  BY <1>1, <1>3, <1>4, <1>6, SheetNext
<1>8. /\ sign \in {"\n", "\r"} => G = F
      /\ sign = "\t" => G = Sheet(p, n, Width(at, sign))
      /\ sign \notin {"\n", "\r", "\t"} => G = [F EXCEPT ![Spot(at)] = sign]
  BY <1>1, <1>3, <1>6, <1>7, SheetNext
<1>9. DOMAIN F = Nat
  BY DEF Sheet
<1>10. QED  BY <1>2, <1>3, <1>5, <1>8, <1>9

\* In putc, with the sign put and outside of the loop of a tabulator.
LEMMA ScreenAfter ==
  ASSUME NEW k, NEW at, NEW r, NEW p, NEW t, NEW b, b = -1, t # <<>>, at \notin Clearing \cup {"print", "tab"},
         NEW n, n = SignsPut(p, t), NEW place, place = PlaceAfter(p, n + 1), IsPlace(place),
         NEW F, F = Sheet(p, n + 1, 0), Moving(k, at, r, F, place)
  PROVE  ScreenSound(k, at, r, p, t, b)
<1>1. PICK m, j : m = n + 1 /\ j = 0
  OBVIOUS
<1>2. b < 0 /\ ~(b >= 0)
  OBVIOUS
<1>3. SignsShown(p, t, b, at) = m /\ ColumnsShown(b, at) = j
  BY <1>1, <1>2 DEF SignsShown, ColumnsShown
<1>4. Along(PlaceAfter(p, m), j) = place /\ F = Sheet(p, m, j)
  BY <1>1, AlongNone
<1>5. ScreenWay(k, at, r, p, m, j)
  BY <1>4 DEF ScreenWay, Clearing
<1>6. QED  BY <1>2, <1>3, <1>5 DEF ScreenSound

\* In the loop of a tabulator.
LEMMA ScreenInTab ==
  ASSUME NEW k, NEW at, NEW r, NEW p, NEW t, NEW b, b >= 0, b \in Int, at \notin Clearing,
         NEW n, n = SignsPut(p, t), NEW j, j = ColumnsShown(b, at), j <= Width(PlaceAfter(p, n), "\t"),
         NEW F, F = Sheet(p, n, j), NEW place, place = Along(PlaceAfter(p, n), j),
         Moving(k, at, r, F, place)
  PROVE  ScreenSound(k, at, r, p, t, b)
<1>1. ~(b < 0)
  OBVIOUS
<1>2. SignsShown(p, t, b, at) = n
  BY <1>1 DEF SignsShown
<1>3. ScreenWay(k, at, r, p, n, j)
  BY DEF ScreenWay, Clearing
<1>4. QED  BY <1>2, <1>3 DEF ScreenSound

\* A sign has been written at the cursor, which has still to move on.
LEMMA SignWritten ==
  ASSUME NEW at, IsPlace(at), NEW j \in 0..3, NEW k, NEW F, Stands(k, F, Along(at, j)), DOMAIN F = Nat,
         NEW c, NEW G, G = [F EXCEPT ![Spot(at) + j] = c], NEW r, NEW i, i = putchr(k, k.X, k.Y, c)
  PROVE  Moving(i, "right_load", r, G, Along(at, j + 1))
<1> DEFINE a == Along(at, j)
           b == Along(at, j + 1)
           w == SCREEN_WIDTH
<1>1. w \in Nat /\ w >= 4
  BY WideEnough
<1>2. /\ IsPlace(a) /\ IsPlace(b) /\ Spot(a) = Spot(at) + j
      /\ a.col + 1 = w => b.row = a.row + 1 /\ b.col = 0
      /\ a.col + 1 # w => b.row = a.row /\ b.col = a.col + 1
  BY AlongNext
<1>3. On(k, F, a.row) /\ k.X = a.col /\ k.Y < SCREEN_HEIGHT
  BY DEF Stands
<1> HIDE DEF a, b
<1>4. a.col \in 0..(w - 1) /\ a.row \in Nat /\ b.row \in Nat
  BY <1>2 DEF IsPlace
<1>5. On(i, G, a.row) /\ i.X = k.X /\ i.Y = k.Y
  <2>1. Spot(at) + j = a.row * SCREEN_WIDTH + k.X /\ k.X < SCREEN_WIDTH
    BY <1>1, <1>2, <1>3, <1>4 DEF Spot
  <2>2. QED  BY <1>3, <2>1, OnPut
<1>6. i.X < SCREEN_WIDTH /\ i.Y < SCREEN_HEIGHT /\ i.X = a.col
  BY <1>1, <1>3, <1>4, <1>5
<1>7. IF i.X + 1 = SCREEN_WIDTH THEN On(i, G, b.row - 1) /\ b.col = 0 ELSE On(i, G, b.row) /\ b.col = i.X + 1
  <2>1. CASE a.col + 1 = w
    <3>1. b.row - 1 = a.row /\ b.col = 0
      BY <1>2, <1>4, <2>1
    <3>2. QED  BY <1>5, <1>6, <2>1, <3>1
  <2>2. CASE a.col + 1 # w
    BY <1>2, <1>5, <1>6, <2>2
  <2>3. QED  BY <2>1, <2>2
<1>8. QED  BY <1>6, <1>7 DEF Moving, Resting, Sending, b

LEMMA ScreenPutc ==
  ASSUME TextSound(paper, text, pc), TabSound(tab, text, pc), ScreenSound(con, pc, reg, paper, text, tab), PutcBegins
  PROVE  ScreenSound(con', pc', reg', paper', text', tab')
<1>1. pc = "print" /\ text # <<>> /\ text' = text /\ paper' = paper
  BY DEF PutcBegins, At, Keep, history
<1>2. PICK n : n = SignsPut(paper, text)
  OBVIOUS
<1>3. PICK sign, at, next, F, G :
         /\ sign = Head(text) /\ at = PlaceAfter(paper, n) /\ next = PlaceAfter(paper, n + 1)
         /\ F = Sheet(paper, n, 0) /\ G = Sheet(paper, n + 1, 0)
  OBVIOUS
<1>4. /\ n \in 0..(Len(paper.marks) - 1) /\ Len(paper.marks) \in Nat
      /\ IsPlace(at) /\ IsPlace(next) /\ next = Behind(at, sign)
      /\ sign \in {"\n", "\r"} => G = F
      /\ sign \notin {"\n", "\r", "\t"} => G = [F EXCEPT ![Spot(at)] = sign]
      /\ DOMAIN F = Nat
  BY <1>1, <1>2, <1>3, SignNext
<1>5. tab = -1
  BY <1>1 DEF TabSound
<1>6. Reads(con, paper, n, 0)
  BY <1>1, <1>2, ScreenRests
<1>7. On(con, F, at.row) /\ con.X = at.col /\ con.Y < SCREEN_HEIGHT /\ Stands(con, F, at)
  BY <1>3, <1>4, <1>6, AlongNone DEF Reads, Stands
<1>8. /\ SCREEN_WIDTH \in Nat /\ SCREEN_WIDTH >= 4 /\ at.col \in 0..(SCREEN_WIDTH - 1) /\ at.row \in Nat
  BY <1>4, WideEnough DEF IsPlace
<1>9. ASSUME con' = [con EXCEPT !.X = 0] PROVE On(con', F, at.row) /\ con'.X = 0 /\ con'.Y = con.Y
  <2>1. PICK v \in 0..SCREEN_WIDTH : v = 0
    BY <1>8
  <2>2. con' = [con EXCEPT !.X = v]
    BY <1>9, <2>1
  <2>3. On(con', F, at.row) /\ con'.X = v /\ con'.Y = con.Y
    BY <1>7, <2>2, XKept
  <2>4. QED  BY <2>1, <2>3
<1>10. CASE sign = "\n" /\ con' = [con EXCEPT !.X = 0] /\ pc' = "down_load" /\ tab' = tab
  <2>1. On(con', G, at.row) /\ con'.X = 0 /\ con'.Y < SCREEN_HEIGHT
    BY <1>4, <1>7, <1>9, <1>10
  <2>2. next.row - 1 = at.row /\ next.col = 0
    BY <1>4, <1>8, <1>10, BehindIs
  <2>3. Moving(con', pc', reg', G, next)
    BY <1>10, <2>1, <2>2 DEF Moving, Resting, Sending
  <2>4. QED  BY <1>1, <1>2, <1>3, <1>4, <1>5, <1>10, <2>3, ScreenAfter DEF Clearing
<1>11. CASE sign = "\r" /\ con' = [con EXCEPT !.X = 0] /\ pc' = "wrap" /\ tab' = tab
  <2>1. On(con', G, at.row) /\ con'.X = 0 /\ con'.X # SCREEN_WIDTH
    BY <1>4, <1>8, <1>9, <1>11
  <2>2. next.row = at.row /\ next.col = 0
    BY <1>4, <1>8, <1>11, BehindIs
  <2>3. Moving(con', pc', reg', G, next)
    BY <1>11, <2>1, <2>2 DEF Moving, Resting, Sending
  <2>4. QED  BY <1>1, <1>2, <1>3, <1>4, <1>5, <1>11, <2>3, ScreenAfter DEF Clearing
<1>12. CASE sign = "\t" /\ tab' = 0 /\ pc' = "tab" /\ con' = con
  <2>1. PICK b, j : b = tab' /\ b = 0 /\ j = 0
    BY <1>12
  <2>2. j = ColumnsShown(b, "tab")
    BY <2>1 DEF ColumnsShown
  <2>3. b >= 0 /\ b \in Int
    BY <2>1
  <2>4. j <= Width(at, "\t")
    <3>1. Width(at, "\t") \in 1..3
      BY <1>4, WidthIs
    <3>2. QED  BY <2>1, <3>1
  <2>5. F = Sheet(paper, n, j) /\ at = Along(PlaceAfter(paper, n), j)
    BY <1>3, <1>4, <2>1, AlongNone
  <2>6. Moving(con', "tab", reg', F, at)
    BY <1>7, <1>12 DEF Moving
  <2>7. ScreenSound(con', "tab", reg', paper, text, b)
    BY <1>2, <1>3, <2>2, <2>3, <2>4, <2>5, <2>6, ScreenInTab DEF Clearing
  <2>8. QED  BY <1>1, <1>12, <2>1, <2>7
<1>13. CASE Plain(sign) /\ con' = putchr(con, con.X, con.Y, sign) /\ pc' = "right_load" /\ tab' = tab
  <2>1. sign \notin {"\n", "\r", "\t"}
    BY <1>13 DEF Plain
  <2>2. PICK j \in 0..3 : j = 0
    OBVIOUS
  <2>3. Along(at, j) = at
    BY <1>4, <2>2, AlongNone
  <2>4. next = Along(at, j + 1)
    <3>1. Width(at, sign) = 1
      BY <1>4, <2>1, WidthIs
    <3>2. QED  BY <1>4, <2>1, <2>2, <3>1, BehindIs
  <2>5. Spot(at) + j = Spot(at)
    <3>1. Spot(at) \in Int
      BY <1>8 DEF Spot
    <3>2. QED  BY <2>2, <3>1
  <2>6. G = [F EXCEPT ![Spot(at) + j] = sign]
    BY <1>4, <2>1, <2>5
  <2>7. Stands(con, F, Along(at, j))
    BY <1>7, <2>3
  <2>8. Moving(con', "right_load", reg', G, Along(at, j + 1))
    BY <1>4, <1>13, <2>6, <2>7, SignWritten
  <2>9. Moving(con', pc', reg', G, next)
    BY <1>13, <2>4, <2>8
  <2>10. QED  BY <1>1, <1>2, <1>3, <1>4, <1>5, <1>13, <2>9, ScreenAfter DEF Clearing
<1>14. QED  BY <1>3, <1>10, <1>11, <1>12, <1>13 DEF PutcBegins

LEMMA ScreenTab ==
  ASSUME TextSound(paper, text, pc), TabSound(tab, text, pc), ScreenSound(con, pc, reg, paper, text, tab), TabTest
  PROVE  ScreenSound(con', pc', reg', paper', text', tab')
<1>1. pc = "tab" /\ text' = text /\ paper' = paper
  BY DEF TabTest, At, Keep, history
<1>2. tab \in Nat /\ ~(tab < 0) /\ text # <<>> /\ Head(text) = "\t"
  BY <1>1 DEF TabSound
<1>3. PICK n, j : n = SignsPut(paper, text) /\ j = tab
  OBVIOUS
<1>4. n = SignsShown(paper, text, tab, pc) /\ j = ColumnsShown(tab, pc) /\ j \in Nat
  BY <1>1, <1>2, <1>3 DEF SignsShown, ColumnsShown
<1>5. j <= Width(PlaceAfter(paper, n), "\t") /\ ScreenWay(con, pc, reg, paper, n, j)
  BY <1>2, <1>4 DEF ScreenSound
<1>6. j \in 0..3
  BY <1>4, <1>5, ShownIs
<1>7. PICK at, next, F, G :
         /\ at = PlaceAfter(paper, n) /\ next = PlaceAfter(paper, n + 1)
         /\ F = Sheet(paper, n, j) /\ G = Sheet(paper, n + 1, 0)
  OBVIOUS
<1>8. IsPlace(at) /\ IsPlace(next) /\ next = Behind(at, "\t") /\ G = Sheet(paper, n, Width(at, "\t"))
  BY <1>2, <1>3, <1>7, SignNext
<1>9. Stands(con, F, Along(at, j))
  BY <1>1, <1>5, <1>7 DEF ScreenWay, Moving, Clearing
<1>10. PICK w : w = Width(at, "\t")
  OBVIOUS
<1>11. w \in 1..3 /\ j \in 0..w /\ (j < 4 - (con.X % 4) <=> j < w)
  <2>1. w \in 1..3 /\ \A m \in 0..w : m < 4 - (Along(at, m).col % 4) <=> m < w
    BY <1>8, <1>10, WidthIs, Zenon
  <2>2. j \in 0..w
    BY <1>4, <1>5, <1>7, <1>10, <2>1
  <2>3. con.X = Along(at, j).col
    BY <1>9 DEF Stands
  <2>4. QED  BY <2>1, <2>2, <2>3
<1>12. IsPlace(Along(at, j)) /\ con.X \in Nat
  <2>1. IsPlace(Along(at, j))
    BY <1>4, <1>5, <1>7, ShownIs
  <2>2. QED  BY <1>9, <2>1, ScreenSize DEF Stands, IsPlace
<1>13. CASE tab < 4 - (con.X % 4) /\ con' = putchr(con, con.X, con.Y, Space) /\ pc' = "right_load" /\ tab' = tab
  <2>1. j < w
    BY <1>3, <1>11, <1>13
  <2>2. PICK i, E : i = j + 1 /\ E = Sheet(paper, n, j + 1)
    OBVIOUS
  <2>3. E = [F EXCEPT ![Spot(at) + j] = Space]
    BY <1>4, <1>7, <1>8, <2>2, SheetColumn
  <2>4. DOMAIN F = Nat
    BY <1>7 DEF Sheet
  <2>5. Moving(con', "right_load", reg', E, Along(at, j + 1))
    BY <1>6, <1>8, <1>9, <1>13, <2>3, <2>4, SignWritten
  <2>6. PICK b : b = tab
    OBVIOUS
  <2>7. i = ColumnsShown(b, "right_load") /\ i <= w /\ b >= 0 /\ b \in Int
    BY <1>2, <1>3, <1>11, <2>1, <2>2, <2>6 DEF ColumnsShown
  <2>8. PICK place : place = Along(at, i)
    OBVIOUS
  <2>9. ScreenSound(con', "right_load", reg', paper, text, b)
    BY <1>3, <1>7, <1>10, <2>2, <2>5, <2>7, <2>8, ScreenInTab DEF Clearing
  <2>10. QED  BY <1>1, <1>13, <2>6, <2>9
<1>14. CASE tab >= 4 - (con.X % 4) /\ pc' = "wrap" /\ tab' = -1 /\ con' = con
  <2>1. j = w
    <3>1. ~(j < w)
      <4>1. con.X % 4 \in Int
        BY <1>12
      <4>2. ~(j < 4 - (con.X % 4))
        BY <1>2, <1>3, <1>14, <4>1
      <4>3. QED  BY <1>11, <4>2
    <3>2. QED  BY <1>11, <3>1
  <2>2. next = Along(at, j) /\ G = F
    <3>1. next = Along(at, w)
      BY <1>8, <1>10, BehindIs
    <3>2. QED  BY <1>7, <1>8, <1>10, <2>1, <3>1
  <2>3. On(con', G, next.row) /\ con'.X = next.col /\ con'.X # SCREEN_WIDTH
    <3>1. On(con', G, next.row) /\ con'.X = next.col
      BY <1>9, <1>14, <2>2 DEF Stands
    <3>2. next.col # SCREEN_WIDTH
      BY <1>8, WideEnough DEF IsPlace
    <3>3. QED  BY <3>1, <3>2
  <2>4. Moving(con', pc', reg', G, next)
    BY <1>14, <2>3 DEF Moving, Resting, Sending
  <2>5. QED  BY <1>1, <1>2, <1>3, <1>7, <1>8, <1>14, <2>4, ScreenAfter DEF Clearing
<1>15. QED  BY <1>13, <1>14 DEF TabTest

LEMMA ScreenSent ==
  ASSUME TextSound(paper, text, pc), TabSound(tab, text, pc), ScreenSound(con, pc, reg, paper, text, tab), DataHigh
  PROVE  ScreenSound(con', pc', reg', paper', text', tab')
<1>1. pc = "data_high" /\ paper' = paper
  BY DEF DataHigh, At, Keep, history
<1>2. PICK n, j : n = SignsShown(paper, text, tab, pc) /\ j = ColumnsShown(tab, pc)
  OBVIOUS
<1>3. (tab >= 0 => j <= Width(PlaceAfter(paper, n), "\t")) /\ ScreenWay(con, pc, reg, paper, n, j)
  BY <1>2 DEF ScreenSound
<1>4. PICK F, place : F = Sheet(paper, n, j) /\ place = Along(PlaceAfter(paper, n), j)
  OBVIOUS
<1>5. Stands(con, F, place)
  BY <1>1, <1>3, <1>4 DEF ScreenWay, Moving, Clearing, Sending
<1>6. Stands(con', F, place)
  BY <1>5, OutStands
<1>7. TextSound(paper', text', pc') /\ TabSound(tab', text', pc')
  BY TextPutc
<1>8. tab \in Int
  BY DEF TabSound
<1>9. CASE tab >= 0 /\ tab' = tab + 1 /\ pc' = "tab" /\ text' = text
  <2>1. ~(tab < 0) /\ n = SignsPut(paper, text) /\ j = tab + 1
    BY <1>1, <1>2, <1>8, <1>9 DEF SignsShown, ColumnsShown
  <2>2. PICK b : b = tab'
    OBVIOUS
  <2>3. b >= 0 /\ b \in Int /\ j = ColumnsShown(b, "tab")
    BY <1>8, <1>9, <2>1, <2>2 DEF ColumnsShown
  <2>4. Moving(con', "tab", reg', F, place)
    BY <1>6 DEF Moving
  <2>5. ScreenSound(con', "tab", reg', paper, text, b)
    BY <1>3, <1>4, <1>9, <2>1, <2>3, <2>4, ScreenInTab DEF Clearing
  <2>6. QED  BY <1>1, <1>9, <2>2, <2>5
<1>10. CASE tab < 0
  <2>1. j = 0
    BY <1>2, <1>10 DEF ColumnsShown
  <2>2. Reads(con', paper, n, 0)
    BY <1>4, <1>6, <2>1 DEF Reads
  <2>3. CASE text # <<>> /\ text' = Tail(text) /\ pc' = "print"
    <3>1. n = SignsPut(paper, text) + 1
      BY <1>1, <1>2, <1>10, <2>3 DEF SignsShown
    <3>2. SignsPut(paper', text') = n
      <4>1. IsList(text) /\ PaperSound(paper)
        BY DEF TextSound
      <4>2. Len(text) \in Nat /\ Len(text') = Len(text) - 1 /\ Len(paper.marks) \in Nat
        BY <2>3, <4>1, TailIs DEF PaperSound, IsList
      <4>3. QED  BY <1>1, <3>1, <4>2 DEF SignsPut
    <3>3. QED  BY <1>1, <1>7, <2>2, <2>3, <3>2, ScreenAtRest
  <2>4. CASE text = <<>> /\ pc' = "call" /\ text' = text
    <3>1. SignsPut(paper', text') = n
      BY <1>1, <1>2, <2>4 DEF SignsShown
    <3>2. QED  BY <1>1, <1>7, <2>2, <2>4, <3>1, ScreenAtRest DEF Resting
  <2>5. QED  BY <1>8, <1>10, <2>3, <2>4 DEF DataHigh
<1>11. QED  BY <1>8, <1>9, <1>10 DEF DataHigh

LEMMA BlankReads ==
  ASSUME NEW k, Blanked(k), k.X = 0, k.Y = 0
  PROVE  Reads(k, Blank, 0, 0)
<1>1. PICK n, F, at, row, w : n = 0 /\ F = Sheet(Blank, n, n) /\ at = PlaceAfter(Blank, n) /\ row = at.row /\ w = SCREEN_WIDTH
  OBVIOUS
<1>2. row = 0 /\ at.col = 0 /\ at = [row |-> 0, col |-> 0]
  BY <1>1, BlankSound
<1>3. IsPlace(at) /\ w \in Nat
  BY <1>1, <1>2, WideEnough DEF IsPlace
<1>4. \A spot \in Nat : F[spot] = NUL
  <2>1. \A spot \in Nat : F[spot] = Shown(Blank, n, spot)
    BY <1>1, SheetClean
  <2>2. \A spot : Seen(Blank, n, spot) = {}
    <3>1. 1..n = {}
      BY <1>1
    <3>2. QED  BY <3>1 DEF Seen
  <2>3. QED  BY <2>1, <2>2 DEF Shown
<1>5. (row - k.Y) * w = 0 /\ (row - k.Y + SCREEN_HEIGHT) * w \in Int
  BY <1>2, <1>3, ScreenSize
<1>6. k.screen = Window(F, (row - k.Y) * w)
  <2>1. PICK z : z = (row - k.Y) * w /\ z = 0
    BY <1>5
  <2>2. \A i \in Cells : z + i \in Nat
    BY <2>1, ScreenSize DEF Cells
  <2>3. Window(F, z) = [i \in Cells |-> NUL]
    BY <1>4, <2>2 DEF Window
  <2>4. QED  BY <2>1, <2>3 DEF Blanked
<1>7. Far(F, (row - k.Y + SCREEN_HEIGHT) * w)
  BY <1>4 DEF Far
<1>8. Near(k)
  BY ScreenSize DEF Near, Blanked
<1>9. row \in Nat /\ k.Y <= row /\ ~(k.Y < row) /\ k.Y < SCREEN_HEIGHT /\ k.X = at.col
  BY <1>2, ScreenSize
<1>10. On(k, F, row)
  BY <1>1, <1>6, <1>7, <1>8, <1>9 DEF On
<1>11. Along(at, n) = at
  BY <1>1, <1>3, AlongNone
<1>12. Reads(k, Blank, n, n)
  BY <1>1, <1>9, <1>10, <1>11 DEF Reads, Stands
<1>13. QED  BY <1>1, <1>12

LEMMA NothingPut == SignsPut(Blank, <<>>) = 0
<1>1. PICK a, b : a = Len(Blank.marks) /\ b = Len(<<>>)
  OBVIOUS
<1>2. a = 0 /\ b = 0
  BY <1>1, BlankSound, NothingListed
<1>3. SignsPut(Blank, <<>>) = a - b
  BY <1>1, Zenon DEF SignsPut
<1>4. QED  BY <1>2, <1>3

LEMMA ScreenCleared ==
  ASSUME TextSound(paper, text, pc), TabSound(tab, text, pc), ScreenSound(con, pc, reg, paper, text, tab),
         BlankAll \/ HomeX \/ HomeY
  PROVE  ScreenSound(con', pc', reg', paper', text', tab')
<1>1. text' = text /\ paper' = paper /\ tab' = tab /\ pc \in Clearing
  BY DEF Micro, Keep, history, BlankAll, HomeX, HomeY, Go, Clearing
<1>2. text = <<>> /\ paper = Blank /\ tab = -1 /\ ~(tab >= 0)
  BY <1>1 DEF TextSound, TabSound
<1>3. CASE BlankAll
  <2>1. pc = "blank_all" /\ pc' = "home_x" /\ con' = AllBlank(con)
    BY <1>3 DEF BlankAll, Go
  <2>2. Adapter(con)
    BY <2>1 DEF ScreenSound, ScreenWay
  <2>3. Blanked(con')
    <3>1. SameBut(con, con')
      BY <2>1, <2>2, ScreenOnly
    <3>2. con' = [con EXCEPT !.screen = [i \in Cells |-> NUL]]
      BY <2>1 DEF AllBlank
    <3>3. con'.screen = [i \in Cells |-> NUL]
      BY <2>2, <3>2, PartsChange
    <3>4. QED  BY <3>1, <3>3 DEF Blanked, SameBut
  <2>4. QED  BY <1>1, <1>2, <2>1, <2>3 DEF ScreenSound, ScreenWay, Clearing
<1>4. CASE HomeX
  <2>1. pc = "home_x" /\ pc' = "home_y" /\ con' = [con EXCEPT !.X = 0]
    BY <1>4 DEF HomeX, Go
  <2>2. Blanked(con)
    BY <2>1 DEF ScreenSound, ScreenWay
  <2>3. PICK v : v = 0
    OBVIOUS
  <2>4. con' = [con EXCEPT !.X = v] /\ Adapter(con)
    BY <2>1, <2>2, <2>3 DEF Blanked
  <2>5. Adapter(con') /\ con'.X = v /\ con'.screen = con.screen
    BY <2>4, MovedX, MovedKeepsScreen
  <2>6. Blanked(con') /\ con'.X = 0
    BY <2>2, <2>3, <2>5 DEF Blanked
  <2>7. QED  BY <1>1, <1>2, <2>1, <2>6 DEF ScreenSound, ScreenWay, Clearing
<1>5. CASE HomeY
  <2>1. pc = "home_y" /\ pc' = "cursor" /\ con' = [con EXCEPT !.Y = 0]
    BY <1>5 DEF HomeY, Go
  <2>2. Blanked(con) /\ con.X = 0
    BY <2>1 DEF ScreenSound, ScreenWay
  <2>3. PICK v : v = 0
    OBVIOUS
  <2>4. con' = [con EXCEPT !.Y = v] /\ Adapter(con)
    BY <2>1, <2>2, <2>3 DEF Blanked
  <2>5. Adapter(con') /\ con'.Y = v /\ con'.X = con.X /\ con'.screen = con.screen
    BY <2>4, MovedY, MovedKeepsScreen
  <2>6. Blanked(con') /\ con'.Y = 0 /\ con'.X = 0
    BY <2>2, <2>3, <2>5 DEF Blanked
  <2>7. Reads(con', Blank, 0, 0)
    BY <2>6, BlankReads
  <2>8. SignsShown(paper, text, tab, "cursor") = 0 /\ ColumnsShown(tab, "cursor") = 0
    <3>1. tab < 0
      BY <1>2
    <3>2. QED  BY <1>2, <3>1, NothingPut DEF SignsShown, ColumnsShown
  <2>9. PICK n : n = 0
    OBVIOUS
  <2>10. Reads(con', paper, n, n)
    BY <1>2, <2>7, <2>9
  <2>11. ScreenWay(con', "cursor", reg', paper, n, n)
    BY <2>10 DEF ScreenWay, Moving, Reads, Resting, Clearing, Sending
  <2>12. QED  BY <1>1, <1>2, <2>1, <2>8, <2>9, <2>11 DEF ScreenSound
<1>6. QED  BY <1>3, <1>4, <1>5

-----------------------------------------------------------------------------
(* The invariant. *)

PaperInv ==
  /\ CallsSound(calls) /\ TextSound(paper, text, pc) /\ TabSound(tab, text, pc)
  /\ ~hit => ScreenSound(con, pc, reg, paper, text, tab)

LEMMA PaperInit ==
  ASSUME ConsoleInit
  PROVE  PaperInv
<1>1. pc = "call" /\ text = <<>> /\ tab = -1 /\ paper = Blank /\ con = Dark
  BY DEF ConsoleInit
<1>2. IsList(<<>>) /\ Len(<<>>) = 0
  BY NothingListed
<1>3. TextSound(paper, text, pc)
  BY <1>1, <1>2, BlankSound DEF TextSound, Resting, Clearing
<1>4. TabSound(tab, text, pc)
  BY <1>1 DEF TabSound
<1>5. con.X = 0 /\ con.Y = 0 /\ con.screen = [i \in Cells |-> NUL]
  BY <1>1 DEF Dark
<1>6. Adapter(con)
  BY CursorInit DEF CursorInv, Near
<1>7. Reads(con, Blank, 0, 0)
  BY <1>5, <1>6, BlankReads DEF Blanked
<1>8. SignsPut(paper, text) = 0
  BY <1>1, NothingPut
<1>9. ScreenSound(con, pc, reg, paper, text, tab)
  <2>1. Reads(con, paper, SignsPut(paper, text), 0)
    BY <1>1, <1>7, <1>8
  <2>2. pc \in Resting \cup {"print"}
    BY <1>1 DEF Resting
  <2>3. QED  BY <1>3, <1>4, <2>1, <2>2, ScreenAtRest
<1>10. CallsSound(calls)
  BY CallsInit
<1>11. QED  BY <1>3, <1>4, <1>9, <1>10 DEF PaperInv

LEMMA PaperStep ==
  ASSUME PaperInv, [ConsoleNext]_console_vars
  PROVE  PaperInv'
<1>1. CallsSound(calls) /\ TextSound(paper, text, pc) /\ TabSound(tab, text, pc)
  BY DEF PaperInv
<1>2. CallsSound(calls')
  BY <1>1, CallsStep
<1>3. TextSound(paper', text', pc') /\ TabSound(tab', text', pc')
  BY <1>1, TextStep
<1>4. ASSUME ~hit' PROVE ScreenSound(con', pc', reg', paper', text', tab')
  <2>1. ~(Spurious \/ \E key \in Keys : Key(key))
    BY <1>4 DEF Spurious, Key, Interrupted
  <2>2. hit' = hit
    BY <2>1 DEF ConsoleNext, ConsoleMain, Idle, Keep, Micro, console_vars,
      NextCall, Crash, ReadLine, TextDone, PutcBegins, TabTest, RightLoad, RightStore, DownLoad, DownStore,
      Wrap, NextLoad, NextStore, Margin, Bottom, Scroll, ScrollBlank, UpLoad, UpStore,
      Cursor, IndexLow, DataLow, IndexHigh, DataHigh, BlankAll, HomeX, HomeY
  <2>3. ScreenSound(con, pc, reg, paper, text, tab)
    BY <1>4, <2>2 DEF PaperInv
  <2>4. CASE UNCHANGED console_vars \/ Idle \/ Crash \/ TextDone
    BY <1>1, <2>3, <2>4, ScreenStays
  <2>5. CASE NextCall \/ ReadLine
    BY <1>1, <2>3, <2>5, ScreenCalls, ScreenRead
  <2>6. CASE PutcBegins \/ TabTest \/ DataHigh
    BY <1>1, <2>3, <2>6, ScreenPutc, ScreenTab, ScreenSent
  <2>7. CASE BlankAll \/ HomeX \/ HomeY
    BY <1>1, <2>3, <2>7, ScreenCleared
  <2>8. CASE \/ RightLoad \/ RightStore \/ DownLoad \/ DownStore
             \/ Wrap \/ NextLoad \/ NextStore \/ Margin
             \/ Bottom \/ Scroll \/ ScrollBlank \/ UpLoad \/ UpStore
             \/ Cursor \/ IndexLow \/ DataLow \/ IndexHigh
    BY <1>1, <2>3, <2>8, ScreenMicro
  <2>9. QED
    BY <2>1, <2>4, <2>5, <2>6, <2>7, <2>8 DEF ConsoleNext, ConsoleMain
<1>5. QED  BY <1>2, <1>3, <1>4 DEF PaperInv

\* What the invariant says of the screen, cell by cell.
LEMMA TailFollows ==
  ASSUME PaperInv
  PROVE  ScreenIsTail
<1> SUFFICES ASSUME ~hit, pc \in {"call", "panic", "halt"}
             PROVE  LET top == IF paper.end.row < SCREEN_HEIGHT THEN 0 ELSE paper.end.row - SCREEN_HEIGHT + 1
                    IN /\ con.X = paper.end.col /\ con.Y = paper.end.row - top
                       /\ \A i \in Cells : con.screen[i] = SignAt(paper, top + i \div SCREEN_WIDTH, i % SCREEN_WIDTH)
  BY DEF ScreenIsTail
<1> DEFINE top == IF paper.end.row < SCREEN_HEIGHT THEN 0 ELSE paper.end.row - SCREEN_HEIGHT + 1
<1>1. PICK n, at, F, w, h : /\ n = Len(paper.marks) /\ at = paper.end /\ F = Sheet(paper, n, 0)
                            /\ w = SCREEN_WIDTH /\ h = SCREEN_HEIGHT
  OBVIOUS
<1>2. pc \in Resting
  BY DEF Resting
<1>3. /\ TextSound(paper, text, pc) /\ TabSound(tab, text, pc)
      /\ ScreenSound(con, pc, reg, paper, text, tab)
  BY DEF PaperInv
<1>4. n = SignsPut(paper, text)
  BY <1>1, <1>2, <1>3, ShownAtRest
<1>5. Reads(con, paper, n, 0) /\ n \in Nat /\ PaperSound(paper) /\ IsPlace(PlaceAfter(paper, n))
  BY <1>1, <1>2, <1>3, <1>4, ScreenRests
<1>6. PlaceAfter(paper, n) = at
  BY <1>1 DEF PlaceAfter
<1>7. On(con, F, at.row) /\ con.X = at.col /\ con.Y < h
  BY <1>1, <1>5, <1>6, AlongNone DEF Reads, Stands
<1>8. /\ w \in Nat /\ w > 0 /\ h \in Nat /\ h > 1 /\ at.row \in Nat /\ con.Y \in Nat /\ con.Y <= at.row
      /\ con.Y < at.row => con.Y >= h - 1
  BY <1>1, <1>7, ScreenSize DEF On, Near
<1>9. top = at.row - con.Y
  <2>1. CASE at.row < h
    BY <1>1, <1>8, <2>1
  <2>2. CASE ~(at.row < h)
    BY <1>1, <1>7, <1>8, <2>2
  <2>3. QED  BY <2>1, <2>2
<1>10. con.screen = Window(F, (at.row - con.Y) * w)
  BY <1>1, <1>7 DEF On
<1> HIDE DEF top
<1>11. top \in Nat /\ top * w \in Nat /\ con.Y = at.row - top
  <2>1. top \in Nat
    BY <1>8, <1>9
  <2>2. con.Y = at.row - top
    BY <1>8, <1>9
  <2>3. top * w \in Nat
    BY <1>8, <2>1
  <2>4. QED  BY <2>1, <2>2, <2>3
<1>12. ASSUME NEW i \in Cells
       PROVE  con.screen[i] = SignAt(paper, top + i \div w, i % w)
  <2>1. i \in Nat
    BY <1>1, <1>8 DEF Cells
  <2>2. PICK spot \in Nat : spot = top * w + i
    BY <1>11, <2>1
  <2>3. con.screen[i] = Shown(paper, n, spot)
    <3>1. con.screen[i] = F[spot]
      BY <1>9, <1>10, <2>2 DEF Window
    <3>2. QED  BY <1>1, <3>1, SheetClean
  <2>4. PICK row, col : row = top + i \div w /\ col = i % w
    OBVIOUS
  <2>5. row * w + col = spot
    <3>1. PICK q, r : q = i \div w /\ r = i % w
      OBVIOUS
    <3>2. q \in Nat /\ r \in Nat /\ i = q * w + r
      BY <1>8, <2>1, <3>1
    <3>3. (top + q) * w = top * w + q * w /\ q * w \in Nat
      BY <1>8, <1>11, <3>2
    <3>4. QED  BY <1>11, <2>2, <2>4, <3>1, <3>2, <3>3
  <2>6. DOMAIN paper.marks = 1..n
    BY <1>1, <1>5, LenProperties, Zenon DEF PaperSound, IsList
  <2> DEFINE seen == {m \in DOMAIN paper.marks : Covers(paper.marks[m], row, col)}
  <2>7. seen = Seen(paper, n, spot)
    <3>1. ASSUME NEW e \in 1..n PROVE Covers(paper.marks[e], row, col) <=> Inks(paper.marks[e], spot)
      <4>1. PICK m, s, a : m = paper.marks[e] /\ s = Spot(m.at) /\ a = row * SCREEN_WIDTH
        OBVIOUS
      <4>2. IsPlace(m.at)
        <5>1. e - 1 \in 0..Len(paper.marks) /\ e - 1 # Len(paper.marks) /\ e - 1 + 1 = e
          BY <1>1, <1>5
        <5>2. QED  BY <1>5, <4>1, <5>1 DEF PaperSound, PlaceAfter
      <4>3. s \in Int
        BY <4>1, <4>2, WideEnough DEF IsPlace, Spot
      <4>4. a \in Int /\ col \in Int /\ a + col = spot
        BY <1>1, <1>8, <1>11, <2>1, <2>4, <2>5, <4>1
      <4>5. a + (col - s) = spot - s
        BY <4>3, <4>4
      <4>6. Covers(m, row, col) <=> m.sign \notin {"\n", "\r"} /\ a + (col - s) \in 0..(Width(m.at, m.sign) - 1)
        BY <4>1, Zenon DEF Covers, Spot
      <4>7. QED  BY <4>1, <4>5, <4>6 DEF Inks
    <3>2. QED  BY <2>6, <3>1 DEF Seen
  <2>8. SignAt(paper, row, col) = IF seen = {} THEN NUL ELSE Inked(paper.marks[Latest(seen)].sign)
    BY DEF SignAt, Inked, Latest
  <2> HIDE DEF seen
  <2>9. QED  BY <2>3, <2>4, <2>7, <2>8 DEF Shown
<1>13. QED  BY <1>1, <1>7, <1>11, <1>12 DEF top

\* While no interrupt prints, the screen is the end of the text as it would
\* stand on an endless paper, and the cursor is behind it (ScreenIsTail):
\* whatever main prints, in putc's line breaks, tabulators, wrapping and
\* scrolling, in clrscr, and in the echo of the lines typed.
THEOREM ScreenAlwaysTail == ConsoleSpec => []ScreenIsTail
<1>1. ConsoleInit => PaperInv
  BY PaperInit
<1>2. PaperInv /\ [ConsoleNext]_console_vars => PaperInv'
  BY PaperStep
<1>3. PaperInv => ScreenIsTail
  BY TailFollows
<1>4. QED  BY <1>1, <1>2, <1>3, PTL DEF ConsoleSpec
=============================================================================
