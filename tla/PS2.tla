--------------------------------- MODULE PS2 ---------------------------------
(***************************************************************************)
(* init_mouse's dialogue with the mouse, through the one output buffer the *)
(* keyboard shares, after init_disk and init_keyboard.  Replies are polled *)
(* with a limit (mouse_wait) while a key may come at any time.  Whether    *)
(* IRQ 1 is served during the dialogue was decided in init_disk: the sti   *)
(* of its clock reader, or kernel.c:39 only after init_mouse.              *)
(***************************************************************************)
EXTENDS Disk, Sequences

CONSTANTS
  Latching,   \* whether a masked request outlives its edge: emulators differ
  Slow        \* replies that may come after mouse_wait gave up

ASSUME PS2Assumption ==
  /\ Latching \subseteq BOOLEAN
  /\ Slow \subseteq {"ack", "bat", "id"}

VARIABLES
  command_byte,  \* of the controller: interrupts on, interfaces off
  port,          \* the output buffer: what port 0x60 reads, and whether it is new
  keyboard,      \* a key's scan code waits for the buffer
  answer,        \* the controller's answer to 0x20 waits for it
  queue,         \* bytes of the mouse that wait for it
  reporting,     \* the mouse reports movements
  requested,     \* IRR of lines 1 and 12
  unmasked,      \* init_mouse got to enable_irq(12)
  latching,      \* of this machine
  at,            \* step of init_mouse
  result,        \* what it returned: 0, -1, or 1 before that
  status,        \* the byte mouse_read returned
  keyed,         \* a key was pressed before init_mouse returned (history)
  late,          \* mouse_wait gave up on a reply still to come (history)
  cycle,         \* mouse_cycle
  unretired,     \* mouse_handler left line 12 in service: there is no EOI to come
  strayed        \* a packet's byte was taken by keyboard_handler, or another byte
                 \* by mouse_handler (history)

ps2 == <<command_byte, port, keyboard, answer, queue, reporting, requested, unmasked,
         latching, at, result, status, keyed, late, cycle, unretired, strayed>>
packet == <<cycle, unretired>>
devices == <<command_byte, keyboard, answer, queue, reporting, latching, keyed>>
history == <<late, strayed>>

-----------------------------------------------------------------------------
(* The controller and what is behind it *)

LineOf(byte) == IF byte \in {"key", "config"} THEN 1 ELSE 12
InterruptOn(byte) == (IF LineOf(byte) = 1 THEN "KIE" ELSE "MIE") \in command_byte

\* A byte enters the empty buffer and its line goes up.
Fill(byte) ==
  /\ ~port.full
  /\ port' = [full |-> TRUE, byte |-> byte]
  /\ requested' = IF InterruptOn(byte) THEN requested \cup {LineOf(byte)} ELSE requested
  /\ UNCHANGED <<vars, command_byte, reporting, unmasked, latching, at, result, status, keyed,
                 packet, history>>

FillFromKeyboard ==
  /\ keyboard /\ "KOFF" \notin command_byte /\ Fill("key")
  /\ keyboard' = FALSE /\ UNCHANGED <<answer, queue>>
FillFromController ==
  /\ answer /\ Fill("config")
  /\ answer' = FALSE /\ UNCHANGED <<keyboard, queue>>
FillFromMouse ==
  /\ queue # <<>> /\ "MOFF" \notin command_byte /\ Fill(Head(queue))
  /\ queue' = Tail(queue) /\ UNCHANGED <<keyboard, answer>>

KeyPressed ==
  /\ ~keyboard /\ keyboard' = TRUE
  /\ keyed' = (keyed \/ result = 1)
  /\ UNCHANGED <<vars, command_byte, port, answer, queue, reporting, requested,
                 unmasked, latching, at, result, status, packet, history>>

MouseMoves ==
  /\ reporting /\ queue = <<>> /\ queue' = <<"first", "move", "move">>
  /\ UNCHANGED <<vars, command_byte, port, keyboard, answer, reporting, requested,
                 unmasked, latching, at, result, status, keyed, packet, history>>

\* Port 0x60 is read: the line goes down, and its request with it unless the
\* machine latches it.  An empty buffer shows its last byte.
TakePort(served) ==
  /\ port' = [port EXCEPT !.full = FALSE]
  /\ requested' = (requested \ served) \ (IF latching \/ ~port.full THEN {} ELSE {LineOf(port.byte)})

-----------------------------------------------------------------------------
(* init_mouse *)

\* Fault: the identification after the self-test is not taken.
DialogueWithoutId ==
  << <<"enable", "">>, <<"read", "">>, <<"take", "">>, <<"write", "">>,
     <<"reset", "">>, <<"expect", "ack">>, <<"expect", "bat">>,
     <<"defaults", "">>, <<"expect", "ack">>,
     <<"report", "">>, <<"expect", "ack">>, <<"install", "">> >>

\* Fault: the line is left masked.
DialogueWithoutLine ==
  << <<"enable", "">>, <<"read", "">>, <<"take", "">>, <<"write", "">>,
     <<"reset", "">>, <<"expect", "ack">>, <<"expect", "bat">>,
     <<"defaults", "">>, <<"take", "">>, <<"expect", "ack">>,
     <<"report", "">>, <<"expect", "ack">> >>

\* Commands to the controller and the mouse, replies taken as they are, and
\* replies without which init_mouse returns -1.
Dialogue ==
  << <<"enable", "">>, <<"read", "">>, <<"take", "">>, <<"write", "">>,
     <<"reset", "">>, <<"expect", "ack">>, <<"expect", "bat">>,
     <<"defaults", "">>, <<"take", "">>, <<"expect", "ack">>,
     <<"report", "">>, <<"expect", "ack">>, <<"install", "">> >>

Turn(op) == pc = "done" /\ result = 1 /\ Dialogue[at][1] = op
Advance ==
  IF at = Len(Dialogue) THEN result' = 0 /\ UNCHANGED at
  ELSE at' = at + 1 /\ UNCHANGED result

Command(op, bits, answers, bytes, reports) ==
  /\ Turn(op) /\ Advance
  /\ command_byte' \in bits /\ answer' = answers /\ queue' = bytes /\ reporting' = reports
  /\ UNCHANGED <<vars, port, keyboard, requested, unmasked, latching, status, keyed, packet, history>>

\* What is written back, or'ed with 2, is the byte that was read: a scan code
\* read in its place sets the other bits as it likes.
WrittenBack ==
  IF status = "config" THEN {command_byte \cup {"MIE"}}
  ELSE {bits \cup {"MIE"} : bits \in SUBSET {"KIE", "KOFF", "MOFF"}}

Say ==
  \/ Command("enable", {command_byte \ {"MOFF"}}, answer, queue, reporting)
  \/ Command("read", {command_byte}, TRUE, queue, reporting)
  \/ Command("write", WrittenBack, answer, queue, reporting)
  \/ Command("reset", {command_byte}, answer, <<"ack", "bat", "id">>, FALSE)
  \/ Command("defaults", {command_byte}, answer, Append(queue, "ack"), FALSE)
  \/ Command("report", {command_byte}, answer, Append(queue, "ack"), TRUE)

\* Nothing is on its way to the buffer, or it is slow.
Awaited == IF "MOFF" \in command_byte THEN <<>> ELSE queue
Exhausted ==
  /\ ~answer /\ ~(keyboard /\ "KOFF" \notin command_byte)
  /\ Awaited # <<>> => Head(Awaited) \in Slow

\* An emulator, which latches, serves a request before main's next instruction.
Undisturbed == latching /\ iflag => 1 \notin requested

\* mouse_wait(0) and the read: at the byte, or at the end of its patience.
Read ==
  /\ port.full \/ Exhausted
  /\ Undisturbed
  /\ TakePort({})
  /\ status' = port.byte
  /\ late' = (late \/ (~port.full /\ Awaited # <<>>))
  /\ UNCHANGED <<vars, devices, unmasked, packet, strayed>>

Take == Turn("take") /\ Read /\ Advance
Expect ==
  /\ Turn("expect") /\ Read
  /\ \/ status' = Dialogue[at][2] /\ Advance
     \/ status' # Dialogue[at][2] /\ result' = -1 /\ UNCHANGED at

\* register_interrupt_handler and enable_irq(12)
Install ==
  /\ Turn("install") /\ Advance
  /\ unmasked' = TRUE
  /\ UNCHANGED <<vars, devices, port, requested, status, packet, history>>

\* kernel.c:39, whatever init_mouse returned.
EnableInterrupts ==
  /\ result # 1 /\ ~iflag
  /\ iflag' = TRUE
  /\ UNCHANGED <<drive, low, locals, pc, outcome, ps2>>

InitMouse == Say \/ Take \/ Expect \/ Install \/ EnableInterrupts

-----------------------------------------------------------------------------
(* The handlers *)

PacketByte == port.full /\ port.byte \in {"first", "move"}

\* keyboard_handler: bit 0 of the status is all it looks at.
KeyboardIrq ==
  /\ pc = "done" /\ iflag /\ 1 \in requested
  /\ \/ port.full /\ TakePort({1})
     \/ ~port.full /\ requested' = requested \ {1} /\ UNCHANGED port
  /\ strayed' = (strayed \/ PacketByte)
  /\ UNCHANGED <<vars, devices, unmasked, at, result, status, late, packet>>

\* Bit 3 of a byte: set in 0xFA, in 0xAA and in the first byte of a packet, clear
\* in the identification 0x00; a movement, a key or the command byte may have it.
Bit3(byte) == (IF byte = "id" THEN {} ELSE {TRUE})
              \cup (IF byte \in {"ack", "bat", "first"} THEN {} ELSE {FALSE})

\* What cannot start a packet is dropped.
Misaligned(bit3) == cycle = 0 /\ ~bit3

\* mouse_handler takes whatever port 0x60 shows.  A byte it drops is left without
\* an EOI: line 12 stays in service, and the slave presents it no more.
MouseIrq ==
  /\ iflag /\ unmasked /\ 12 \in requested /\ ~unretired
  /\ TakePort({12})
  /\ \E bit3 \in Bit3(port.byte) :
       \/ Misaligned(bit3) /\ unretired' = TRUE /\ UNCHANGED cycle
       \/ ~Misaligned(bit3) /\ cycle' = (cycle + 1) % 3 /\ UNCHANGED unretired
  /\ strayed' = (strayed \/ ~PacketByte)
  /\ UNCHANGED <<vars, devices, unmasked, at, result, status, late>>

-----------------------------------------------------------------------------
InitPS2 ==
  /\ Init
  /\ command_byte \in {{"KIE"}, {"KIE", "MOFF"}}
  /\ port = [full |-> FALSE, byte |-> "key"]
  /\ keyboard = FALSE /\ answer = FALSE /\ queue = <<>> /\ reporting = FALSE
  /\ requested = {} /\ unmasked = FALSE /\ latching \in Latching
  /\ at = 1 /\ result = 1 /\ status = "none"
  /\ keyed = FALSE /\ late = FALSE
  /\ cycle = 0 /\ unretired = FALSE /\ strayed = FALSE

\* init_disk comes first; the interrupts of the keyboard wait for init_keyboard.
InInitDisk(A) == pc # "done" /\ A /\ UNCHANGED ps2

NextPS2 ==
  \/ InInitDisk(Next)
  \/ FillFromKeyboard \/ FillFromController \/ FillFromMouse
  \/ KeyPressed \/ MouseMoves
  \/ InitMouse \/ KeyboardIrq \/ MouseIrq

allvars == <<vars, ps2>>

\* Besides Disk's: the kernel runs on, the controller hands on what waits and
\* forgets neither side, the processor takes its interrupts.
Fairness ==
  /\ WF_allvars(InInitDisk(Driver))
  /\ WF_allvars(InInitDisk(DriveReady \/ DriveAnswers))
  /\ SF_allvars(InInitDisk(ClockTicks))
  /\ WF_allvars(InitMouse)
  /\ SF_allvars(FillFromKeyboard) /\ SF_allvars(FillFromController) /\ SF_allvars(FillFromMouse)
  /\ WF_allvars(KeyboardIrq) /\ WF_allvars(MouseIrq)

SpecPS2 == InitPS2 /\ [][NextPS2]_allvars /\ Fairness

-----------------------------------------------------------------------------
(* Properties *)

Bytes == {"key", "config", "ack", "bat", "id", "first", "move"}

TypeOKPS2 ==
  /\ TypeOK
  /\ command_byte \subseteq {"KIE", "MIE", "KOFF", "MOFF"}
  /\ port \in [full : BOOLEAN, byte : Bytes]
  /\ queue \in Seq(Bytes) /\ Len(queue) <= 3
  /\ requested \subseteq {1, 12}
  /\ at \in DOMAIN Dialogue /\ result \in -1..1
  /\ status \in Bytes \cup {"none"}
  /\ cycle \in 0..2

Garbled == "KOFF" \in command_byte \/ "KIE" \notin command_byte

\* A boot at which no key is pressed and every reply is in time installs the
\* mouse, though the keyboard's handler may take the controller's answer first;
\* only a key can put the command byte out of order; the handlers take the bytes
\* of packets for each other's or a reply for a packet's only if a reply was late or
\* a request is still latched from the dialogue; and only behind that can
\* mouse_handler get out of step with the packets and leave line 12 in service
\* (mouse.c:62-88, 90-146, keyboard.c:43-45).
DialogueSound ==
  /\ TypeOKPS2
  /\ result = -1 => keyed \/ late
  /\ Garbled => keyed
  /\ strayed => late \/ latching
  /\ unretired => strayed

\* Whoever reads whose byte, once init_disk has returned the buffer does not stay
\* full, so that a key gets through: unless init_mouse gave up, which leaves the
\* mouse's bytes in the buffer with its line masked, or a scan code became the
\* command byte (mouse.c:105-146), or mouse_handler got out of step with the packets
\* and dropped a byte and with it the EOI (mouse.c:67-70).
KeyboardLives ==
  LET Deaf == pc # "done" \/ result = -1 \/ Garbled \/ unretired
  IN  /\ keyboard ~> (~keyboard \/ Deaf)
      /\ port.full ~> (~port.full \/ Deaf)
=============================================================================
