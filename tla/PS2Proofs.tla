------------------------------ MODULE PS2Proofs ------------------------------
(***************************************************************************)
(* What init_disk reports is true of every drive, and init_mouse's         *)
(* dialogue goes wrong only for the causes DialogueSound names, for every  *)
(* set of drives, of slow replies and of controllers and any time limit.   *)
(***************************************************************************)
EXTENDS PS2, SequenceTheorems, TLAPS

-----------------------------------------------------------------------------
(* init_disk *)

Steps == {"detect_wait", "detect", "identify_wait", "identify", "answered",
          "signature_wait", "signature", "start", "poll", "status", "read", "done"}

\* Each kind of drive gets as far as its answers let it.
GetsTo ==
  /\ kind = "floating" => pc = "detect_wait"
  /\ kind = "silent" => pc \notin {"signature_wait", "signature", "start", "poll", "status", "read"}
  /\ kind = "packet" => pc \notin {"start", "poll", "status", "read"}

\* Only a disk has data to offer, and what is not there does nothing.
Shows ==
  /\ kind \in {"floating", "silent"} => phase = "idle"
  /\ phase = "data" => kind = "ata"
  /\ phase = "error" => kind \in {"ata", "packet"}
  /\ pc = "read" => phase = "data"

DiskSound ==
  /\ ReportIsTrue
  /\ pc \in Steps
  /\ outcome # "none" => pc = "done"
  /\ GetsTo /\ Shows

-----------------------------------------------------------------------------
(* init_mouse *)

\* The byte of the mouse that is in the buffer.
Held == IF port.full /\ LineOf(port.byte) = 12 THEN port.byte ELSE "none"

\* A packet of the mouse, and what is left of it.
Packet == <<"first", "move", "move">>
AfterFirst == <<"move", "move">>
AfterSecond == <<"move">>

\* What is in the buffer (h) and behind it (q) when init_mouse is at step n.
Owed(n, h, q) ==
  /\ n \in 1..5 \cup {11} => h = "none" /\ q = <<>>
  /\ n = 6 => \/ h = "none" /\ q = <<"ack", "bat", "id">>
              \/ h = "ack" /\ q = <<"bat", "id">>
  /\ n = 7 => \/ h = "none" /\ q = <<"bat", "id">>
              \/ h = "bat" /\ q = <<"id">>
  /\ n = 8 => \/ h = "none" /\ q = <<"id">>
              \/ h = "id" /\ q = <<>>
  /\ n = 9 => \/ h = "none" /\ q = <<"id", "ack">>
              \/ h = "id" /\ q = <<"ack">>
  /\ n = 10 => \/ h = "none" /\ q = <<"ack">>
               \/ h = "ack" /\ q = <<>>
  /\ n = 12 => \/ h = "none" /\ q = <<"ack">>
               \/ h = "ack" /\ q \in {<<>>, Packet}
  /\ n = 13 => h \in {"none", "first", "move"} /\ q \in {<<>>, Packet, AfterFirst, AfterSecond}

\* Unless a reply was late the bytes come in the order of the dialogue; a key
\* taken for the identification, or a late one, leaves it for the next step.
InOrder ==
  /\ result # -1 /\ ~late => \/ Owed(at, Held, queue)
                             \/ at = 10 /\ keyed /\ Owed(9, Held, queue)
  /\ result = 1 /\ late => at = 13 \/ (at = 10 /\ Owed(9, Held, queue))

\* An empty buffer does not show the reply that is expected next.
Stale ==
  result = 1 /\ ~port.full => /\ at \in {6, 8, 9, 10} => port.byte # "ack"
                              /\ at = 7 => port.byte # "bat"

\* Before the reset the mouse has nothing to say, and packets come last.
MouseBytes == {"ack", "bat", "id", "first", "move"}

Stages ==
  /\ queue \in Seq(MouseBytes)
  /\ at <= 5 => ~late /\ result = 1 /\ port.byte \in {"key", "config"}
  /\ pc # "done" => at = 1 /\ result = 1
  /\ reporting => at \in {12, 13}
  /\ unmasked => result = 0
  /\ result = 0 => at = 13

\* A mouse cut off by a scan code has not answered yet.
CutOff ==
  "MOFF" \in command_byte /\ result = 1 => at <= 6 /\ port.byte \in {"key", "config"}

\* Without a key the buffer has no scan code, and the controller's answer only
\* until it is taken.
NoKey ==
  ~keyed =>
    /\ "KOFF" \notin command_byte /\ "KIE" \in command_byte
    /\ at >= 2 => "MOFF" \notin command_byte
    /\ result = 1 => ~keyboard /\ (port.full => port.byte # "key")
    /\ at # 3 /\ result = 1 => ~answer /\ (port.full => port.byte # "config")
    /\ at = 3 => answer \/ port.byte = "config"
    /\ at = 3 /\ port.full => ~answer
    /\ at = 4 => status = "config"

\* A line's request does not outlive its byte, unless the machine latches it and
\* the processor does not look.
Requests ==
  /\ ~latching /\ 12 \in requested => port.full /\ LineOf(port.byte) = 12
  /\ 1 \in requested /\ (~latching \/ (result = 1 /\ (iflag \/ pc # "done"))) =>
       port.full /\ LineOf(port.byte) = 1

Causes ==
  /\ result = -1 => keyed \/ late
  /\ strayed => late \/ latching

Flags == /\ keyboard \in BOOLEAN /\ answer \in BOOLEAN /\ reporting \in BOOLEAN
         /\ unmasked \in BOOLEAN /\ latching \in BOOLEAN /\ keyed \in BOOLEAN
         /\ late \in BOOLEAN /\ strayed \in BOOLEAN /\ unretired \in BOOLEAN

Order == InOrder /\ Stale /\ Stages /\ CutOff
Line == NoKey /\ Requests /\ Causes

PS2Sound == TypeOKPS2 /\ Flags /\ Order /\ Line

Sound == DiskSound /\ PS2Sound

-----------------------------------------------------------------------------
(* The packets *)

\* Where mouse_cycle is (c) when a byte is in the buffer (h) and others wait (q).
Packets(c, h, q) ==
  \/ c = 0 /\ h \notin {"first", "move"} /\ q \in {<<>>, <<"ack">>, Packet}
  \/ c = 0 /\ h = "first" /\ q = AfterFirst
  \/ c = 1 /\ h = "none" /\ q = AfterFirst
  \/ c = 1 /\ h = "move" /\ q = AfterSecond
  \/ c = 2 /\ h = "none" /\ q = AfterSecond
  \/ c = 2 /\ h = "move" /\ q \in {<<>>, Packet}

\* As long as each handler took its own, mouse_cycle counts the bytes of packets,
\* and no byte is dropped.
InStep ==
  /\ at >= 12 => reporting
  /\ result # 0 => cycle = 0
  /\ reporting /\ result # -1 /\ ~strayed => Packets(cycle, Held, queue)
  /\ unretired => strayed

-----------------------------------------------------------------------------
(* init_disk keeps DiskSound *)

LEMMA DiskInit == Init => DiskSound
<1> SUFFICES ASSUME Init
             PROVE  DiskSound
  OBVIOUS
<1> USE DiskAssumption
<1>1. words \in BOOLEAN /\ iflag \in BOOLEAN /\ tested \in BOOLEAN
  BY Zenon DEF Init
<1>2. phase \in {"idle", "busy"} /\ (kind \in {"floating", "silent"} => phase = "idle")
  BY DEF Init
<1> QED
  BY <1>1, <1>2 DEF Init, DiskSound, ReportIsTrue, TypeOK, GetsTo, Shows, Steps

\* The drive's own steps change nothing but its phase, and not from what an
\* outcome rests on.
LEMMA DriveKeeps == DiskSound /\ (DriveReady \/ DriveAnswers \/ ClockTicks) => DiskSound'
<1> SUFFICES ASSUME DiskSound, DriveReady \/ DriveAnswers \/ ClockTicks
             PROVE  DiskSound'
  OBVIOUS
<1> USE DiskAssumption
<1>1. TypeOK /\ kind \in AllKinds
  BY DEF DiskSound, ReportIsTrue, TypeOK
<1>2. CASE DriveReady
  BY <1>1, <1>2 DEF DiskSound, ReportIsTrue, TypeOK, GetsTo, Shows, DriveReady, Reset, time, locals, Steps
<1>3. CASE DriveAnswers
  <2>1. /\ kind \in {"ata", "packet", "mute"} /\ phase \in {"busy", "slow"} /\ pc # "read"
        /\ phase' \in {"data", "error", "slow"}
        /\ phase' = "data" => kind = "ata"
        /\ phase' = "error" => kind \in {"ata", "packet"}
    BY <1>1, <1>3 DEF DriveAnswers, DiskSound, Shows, AllKinds
  <2> QED
    BY <1>1, <1>3, <2>1 DEF DiskSound, ReportIsTrue, TypeOK, GetsTo, Shows, DriveAnswers, time, locals, Steps
<1>4. CASE ClockTicks
  <2>1. low' \in 0..MaxClock
    <3>1. low \in 0..MaxClock
      BY <1>1 DEF TypeOK
    <3>2. low < MaxClock /\ low' = low + 1
      BY <1>4, Zenon DEF ClockTicks
    <3> QED
      BY <3>1, <3>2
  <2>2. UNCHANGED <<kind, phase, words, started, now, pc, outcome>>
    BY <1>4 DEF ClockTicks, drive, locals
  <2>3. iflag' \in BOOLEAN /\ tested' \in BOOLEAN
    BY <1>1, <1>4, Zenon DEF TypeOK, ClockTicks, locals
  <2> QED
    BY <1>1, <2>1, <2>2, <2>3 DEF DiskSound, ReportIsTrue, TypeOK, GetsTo, Shows, Steps
<1> QED
  BY <1>2, <1>3, <1>4

\* What the ports show of each drive.
LEMMA Ports ==
  ASSUME DiskSound
  PROVE  /\ kind = "floating" => "BSY" \in Status
         /\ Status # {} => kind # "silent"
         /\ "ERR" \in Status => kind = "floating" \/ phase = "error"
         /\ "DRQ" \in Status => kind = "floating" \/ phase = "data"
         /\ kind # "floating" => Status # {"BSY", "DRDY", "DRQ", "ERR"}
         /\ Status = {} => kind = "silent"
<1>1. kind \in AllKinds /\ phase \in {"idle", "busy", "slow", "data", "error"}
  BY DiskAssumption DEF DiskSound, ReportIsTrue, TypeOK
<1> QED
  BY <1>1 DEF AllKinds, Status

LEMMA DriverKeeps == DiskSound /\ Driver => DiskSound'
<1> SUFFICES ASSUME DiskSound, Driver
             PROVE  DiskSound'
  OBVIOUS
<1> USE DiskAssumption, Ports
<1>1. TypeOK /\ kind \in AllKinds /\ outcome = "none"
  BY DEF DiskSound, ReportIsTrue, TypeOK, Driver, WaitNotBusy, Detect, Identify, Answered, CheckSignature,
     Start, ReadTime, CheckStatus, ReadWords, Go, End, Steps
<1>2. CASE WaitNotBusy("detect_wait", "detect") \/ WaitNotBusy("identify_wait", "identify")
           \/ WaitNotBusy("signature_wait", "signature")
  BY <1>1, <1>2 DEF DiskSound, ReportIsTrue, TypeOK, GetsTo, Shows, Steps, WaitNotBusy, NotBusy, Go, Stay,
     drive, time, locals
<1>3. CASE Detect \/ Answered \/ CheckSignature
  <2>1. UNCHANGED <<kind, phase, words, low, iflag, started, now, tested>>
    BY <1>3 DEF Detect, Answered, CheckSignature, Stay, drive, time, locals
  <2>2. /\ pc' \in {"identify_wait", "signature_wait", "start", "done"}
        /\ pc' = "done" => outcome' \in {"no drive", "no device", "not ata"}
        /\ pc' # "done" => outcome' = "none"
        /\ outcome' = "not ata" => kind = "packet"
        /\ outcome' = "no device" => kind = "silent"
        /\ kind # "floating"
        /\ pc' \in {"signature_wait", "start"} => kind # "silent"
        /\ pc' = "start" => kind # "packet"
    BY <1>1, <1>3 DEF DiskSound, GetsTo, Steps, Detect, NoDrive, Answered, CheckSignature,
       ForeignSignature, Signature, Go, End
  <2> QED
    BY <1>1, <2>1, <2>2 DEF DiskSound, ReportIsTrue, TypeOK, GetsTo, Shows, Steps
<1>4. CASE Identify
  BY <1>1, <1>4 DEF DiskSound, ReportIsTrue, TypeOK, GetsTo, Shows, Steps, Identify, Go, time, locals
<1>5. CASE Start \/ ReadTime
  <2>1. started' \in 0..MaxClock /\ now' \in 0..MaxClock /\ iflag' \in BOOLEAN /\ tested' \in BOOLEAN
    <3>1. started' \in 0..MaxClock /\ now' \in 0..MaxClock
      BY <1>1, <1>5 DEF TypeOK, Start, ReadTime, Asked, Words
    <3>2. iflag' \in BOOLEAN /\ tested' \in BOOLEAN
      BY <1>1, <1>5, Zenon DEF TypeOK, Start, ReadTime, time
    <3> QED
      BY <3>1, <3>2
  <2> QED
    BY <1>1, <1>5, <2>1 DEF DiskSound, ReportIsTrue, TypeOK, GetsTo, Shows, Steps, Start, ReadTime, Go,
       drive, time
<1>6. CASE CheckStatus
  BY <1>1, <1>6 DEF DiskSound, ReportIsTrue, TypeOK, GetsTo, Shows, Steps, CheckStatus, ErrorShown, Go, End,
     drive, time, AllKinds
<1>7. CASE ReadWords
  BY <1>1, <1>7 DEF DiskSound, ReportIsTrue, TypeOK, GetsTo, Shows, Steps, ReadWords, Go, End, time, locals
<1> QED
  BY <1>2, <1>3, <1>4, <1>5, <1>6, <1>7 DEF Driver

\* init_disk changes nothing of the controller and the mouse, and leaves no
\* request behind that its sti would let in without its byte.
LEMMA InitDiskKeeps == Sound /\ InInitDisk(Next) => Sound'
<1> SUFFICES ASSUME Sound, InInitDisk(Next)
             PROVE  Sound'
  OBVIOUS
<1>1. DiskSound'
  BY DriveKeeps, DriverKeeps DEF Sound, InInitDisk, Next
<1>2. pc # "done" /\ UNCHANGED ps2
  BY DEF InInitDisk
<1>3. UNCHANGED <<command_byte, port, keyboard, answer, queue, reporting, requested,
         unmasked, latching, at, result, status, keyed, late, cycle, unretired, strayed>>
  BY <1>2 DEF ps2
<1>4. TypeOK' /\ TypeOKPS2'
  BY <1>1, <1>3 DEF Sound, DiskSound, ReportIsTrue, PS2Sound, TypeOKPS2
<1>5. Flags'
  BY <1>3, Zenon DEF Sound, PS2Sound, Flags
<1>6. Order'
  BY <1>2, <1>3 DEF Sound, PS2Sound, Order, InOrder, Owed, Held, Stale, Stages, CutOff
<1>7. Line'
  BY <1>2, <1>3 DEF Sound, PS2Sound, Line, NoKey, Requests, Causes
<1> QED
  BY <1>1, <1>4, <1>5, <1>6, <1>7 DEF Sound, PS2Sound
-----------------------------------------------------------------------------
(* The dialogue and the sequences in it *)

LEMMA Spoken ==
  /\ DOMAIN Dialogue = 1..13 /\ Len(Dialogue) = 13
  /\ \A n \in 1..13 :
       /\ Dialogue[n][1] = "enable" <=> n = 1
       /\ Dialogue[n][1] = "read" <=> n = 2
       /\ Dialogue[n][1] = "take" <=> n \in {3, 9}
       /\ Dialogue[n][1] = "write" <=> n = 4
       /\ Dialogue[n][1] = "reset" <=> n = 5
       /\ Dialogue[n][1] = "expect" <=> n \in {6, 7, 10, 12}
       /\ Dialogue[n][1] = "defaults" <=> n = 8
       /\ Dialogue[n][1] = "report" <=> n = 11
       /\ Dialogue[n][1] = "install" <=> n = 13
  /\ Dialogue[6][2] = "ack" /\ Dialogue[7][2] = "bat" /\ Dialogue[10][2] = "ack" /\ Dialogue[12][2] = "ack"
  BY DEF Dialogue

LEMMA Heads ==
  /\ Head(<<"ack", "bat", "id">>) = "ack" /\ Tail(<<"ack", "bat", "id">>) = <<"bat", "id">>
  /\ Head(<<"bat", "id">>) = "bat" /\ Tail(<<"bat", "id">>) = <<"id">>
  /\ Head(<<"id", "ack">>) = "id" /\ Tail(<<"id", "ack">>) = <<"ack">>
  /\ \A x \in Bytes : Head(<<x>>) = x /\ Tail(<<x>>) = <<>>
  /\ Head(Packet) = "first" /\ Tail(Packet) = AfterFirst
  /\ Head(AfterFirst) = "move" /\ Tail(AfterFirst) = AfterSecond
  /\ Head(AfterSecond) = "move" /\ Tail(AfterSecond) = <<>>
  BY DEF Bytes, Packet, AfterFirst, AfterSecond

LEMMA Appends ==
  Append(<<>>, "ack") = <<"ack">> /\ Append(<<"id">>, "ack") = <<"id", "ack">>
<1>1. <<>> \in Seq(Bytes) /\ <<"id">> \in Seq(Bytes) /\ "ack" \in Bytes
      /\ <<"ack">> \in Seq(Bytes) /\ <<"id", "ack">> \in Seq(Bytes)
  BY DEF Bytes
<1>2. Append(<<>>, "ack") = <<"ack">>
  BY <1>1, AppendProperties, SeqEqual
<1>3. Append(<<"id">>, "ack") = <<"id", "ack">>
  <2> DEFINE s == Append(<<"id">>, "ack")
  <2>1. s \in Seq(Bytes) /\ Len(s) = 2 /\ s[1] = "id" /\ s[2] = "ack"
    BY <1>1, AppendProperties
  <2> HIDE DEF s
  <2>2. s = <<"id", "ack">>
    BY <1>1, <2>1, SeqEqual
  <2> QED
    BY <2>2 DEF s
<1> QED
  BY <1>2, <1>3

LEMMA Different ==
  /\ <<"ack", "bat", "id">> # <<>> /\ <<"bat", "id">> # <<>> /\ <<"id", "ack">> # <<>>
  /\ \A x \in Bytes : <<x>> # <<>>
  /\ Packet # <<>> /\ AfterFirst # <<>> /\ AfterSecond # <<>>
  BY DEF Packet, AfterFirst, AfterSecond

LEMMA SeqSub == \A q : q \in Seq(MouseBytes) => q \in Seq(Bytes)
  BY DEF MouseBytes, Bytes

\* What is owed, byte by byte: handed to the buffer, taken, asked for.
LEMMA OwedFill ==
  ASSUME NEW n \in 1..13, NEW q, q # <<>>, Owed(n, "none", q)
  PROVE  Owed(n, Head(q), Tail(q))
  BY Heads DEF Owed, Bytes

LEMMA OwedTaken ==
  ASSUME NEW n \in {6, 7, 9, 10, 12}, NEW h, NEW q, h # "none", Owed(n, h, q)
  PROVE  Owed(n + 1, "none", q)
  BY DEF Owed

LEMMA OwedSilence ==
  ASSUME NEW n \in 1..4, NEW h, NEW q, Owed(n, h, q)
  PROVE  Owed(n + 1, h, q)
  BY DEF Owed

LEMMA OwedReset ==
  ASSUME NEW h, NEW q, Owed(5, h, q)
  PROVE  Owed(6, h, <<"ack", "bat", "id">>)
  BY DEF Owed

LEMMA OwedSaid ==
  ASSUME NEW n \in {8, 11}, NEW h, NEW q, Owed(n, h, q)
  PROVE  Owed(n + 1, h, Append(q, "ack"))
<1>1. CASE n = 8 /\ q = <<>>
  BY <1>1, Appends, Different DEF Owed, Bytes
<1>2. CASE n = 8 /\ q = <<"id">>
  BY <1>2, Appends, Different DEF Owed, Bytes
<1>3. CASE n = 11
  BY <1>3, Appends DEF Owed
<1> QED
  BY <1>1, <1>2, <1>3 DEF Owed

LEMMA OwedMoves ==
  ASSUME NEW n \in {12, 13}, NEW h, Owed(n, h, <<>>)
  PROVE  Owed(n, h, Packet)
  BY Different DEF Owed, Bytes

\* The buffer holds a byte of the mouse or one of the keyboard's side.
LEMMA InBuffer ==
  ASSUME Sound, port.full
  PROVE  \/ Held = port.byte /\ port.byte \in MouseBytes /\ LineOf(port.byte) = 12
         \/ Held = "none" /\ port.byte \in {"key", "config"} /\ LineOf(port.byte) = 1
  BY DEF Sound, PS2Sound, TypeOKPS2, Held, LineOf, Bytes, MouseBytes

LEMMA AtStep == Sound => at \in 1..13
  BY Spoken DEF Sound, PS2Sound, TypeOKPS2

\* Until the reset the mouse is silent.
LEMMA Silent == Sound /\ at <= 5 => Held = "none" /\ queue = <<>> /\ result = 1 /\ ~late
  BY AtStep DEF Sound, PS2Sound, Order, InOrder, Stages, Owed

\* Port 0x60 is read.
LEMMA PortTaken ==
  ASSUME Sound, NEW served, TakePort(served)
  PROVE  /\ port' \in [full : BOOLEAN, byte : Bytes]
         /\ ~port'.full /\ port'.byte = port.byte
         /\ Held' = "none"
         /\ requested' \subseteq requested \ served
         /\ ~latching /\ port.full => LineOf(port.byte) \notin requested'
<1>1. port \in [full : BOOLEAN, byte : Bytes]
  BY DEF Sound, PS2Sound, TypeOKPS2
<1>2. port' = [port EXCEPT !.full = FALSE]
  BY DEF TakePort
<1>3. port' \in [full : BOOLEAN, byte : Bytes] /\ port'.full = FALSE /\ port'.byte = port.byte
  BY <1>1, <1>2
<1>4. Held' = "none"
  BY <1>3 DEF Held
<1>5. requested' \subseteq requested \ served
  BY DEF TakePort
<1>6. ~latching /\ port.full => LineOf(port.byte) \notin requested'
  BY Zenon DEF TakePort
<1> QED
  BY <1>3, <1>4, <1>5, <1>6

-----------------------------------------------------------------------------
(* Devices *)

LEMMA FillKeeps ==
  Sound /\ (FillFromKeyboard \/ FillFromController \/ FillFromMouse) => Sound'
<1> SUFFICES ASSUME Sound, FillFromKeyboard \/ FillFromController \/ FillFromMouse
             PROVE  Sound'
  OBVIOUS
<1>1. PICK b : Fill(b) /\ \/ FillFromKeyboard /\ b = "key"
                          \/ FillFromController /\ b = "config"
                          \/ FillFromMouse /\ b = Head(queue)
  BY DEF FillFromKeyboard, FillFromController, FillFromMouse
<1>2. /\ ~port.full /\ port' = [full |-> TRUE, byte |-> b]
      /\ requested' \subseteq requested \cup {LineOf(b)}
  BY <1>1 DEF Fill
<1>3. UNCHANGED <<vars, command_byte, reporting, unmasked, latching, at, result, status, keyed, late, cycle, unretired, strayed>>
  BY <1>1 DEF Fill, history, packet
<1>4. DiskSound' /\ UNCHANGED <<pc, iflag>>
  BY <1>3 DEF Sound, DiskSound, ReportIsTrue, TypeOK, GetsTo, Shows, vars
<1>5. queue \in Seq(MouseBytes) /\ Len(queue) <= 3
  BY DEF Sound, PS2Sound, TypeOKPS2, Order, Stages
<1>6. /\ b \in Bytes /\ Held = "none"
      /\ Held' = IF LineOf(b) = 12 THEN b ELSE "none"
      /\ \/ b = "key" /\ LineOf(b) = 1 /\ keyboard /\ ~keyboard' /\ (answer' <=> answer) /\ UNCHANGED queue
         \/ b = "config" /\ LineOf(b) = 1 /\ answer /\ ~answer' /\ (keyboard' <=> keyboard) /\ UNCHANGED queue
         \/ /\ b \in MouseBytes /\ LineOf(b) = 12 /\ queue # <<>> /\ b = Head(queue) /\ queue' = Tail(queue)
            /\ "MOFF" \notin command_byte /\ (keyboard' <=> keyboard) /\ (answer' <=> answer)
  <2>1. Held = "none" /\ Held' = IF LineOf(b) = 12 THEN b ELSE "none"
    BY <1>2 DEF Held
  <2>2. CASE FillFromKeyboard /\ b = "key"
    <3>1. keyboard /\ ~keyboard' /\ (answer' <=> answer) /\ UNCHANGED queue
      BY <2>2, Zenon DEF FillFromKeyboard
    <3> QED
      BY <2>1, <2>2, <3>1 DEF LineOf, Bytes
  <2>3. CASE FillFromController /\ b = "config"
    <3>1. answer /\ ~answer' /\ (keyboard' <=> keyboard) /\ UNCHANGED queue
      BY <2>3, Zenon DEF FillFromController
    <3> QED
      BY <2>1, <2>3, <3>1 DEF LineOf, Bytes
  <2>4. CASE FillFromMouse /\ b = Head(queue)
    <3>1. /\ queue # <<>> /\ queue' = Tail(queue) /\ "MOFF" \notin command_byte
          /\ (keyboard' <=> keyboard) /\ (answer' <=> answer)
      BY <2>4, Zenon DEF FillFromMouse
    <3>2. b \in MouseBytes
      BY <1>5, <2>4, <3>1, HeadTailProperties
    <3> QED
      BY <2>1, <2>4, <3>1, <3>2 DEF LineOf, Bytes, MouseBytes
  <2> QED
    BY <1>1, <2>2, <2>3, <2>4
<1>7. queue' \in Seq(MouseBytes) /\ Len(queue') <= 3
  BY <1>5, <1>6, HeadTailProperties
<1>8. TypeOKPS2'
  BY <1>2, <1>3, <1>4, <1>6, <1>7, SeqSub DEF Sound, DiskSound, ReportIsTrue, PS2Sound, TypeOKPS2, LineOf
<1>9. Flags'
  BY <1>3, <1>1, Zenon DEF Sound, PS2Sound, Flags, FillFromKeyboard, FillFromController, FillFromMouse
<1>10. InOrder'
  <2>1. ASSUME NEW n \in 1..13, Owed(n, Held, queue)
        PROVE  Owed(n, Held', queue')
    <3>1. CASE Held' = "none"
      <4>1. Held' = Held /\ queue' = queue
        BY <1>6, <3>1 DEF MouseBytes
      <4> QED
        BY <2>1, <4>1, Zenon
    <3>2. CASE Held' # "none"
      <4>1. queue # <<>> /\ Held' = Head(queue) /\ queue' = Tail(queue)
        BY <1>6, <3>2
      <4>2. Owed(n, "none", queue)
        BY <1>6, <2>1, Zenon
      <4>3. Owed(n, Head(queue), Tail(queue))
        BY <4>1, <4>2, OwedFill
      <4> QED
        BY <4>1, <4>3, Zenon
    <3> QED
      BY <3>1, <3>2
  <2> QED
    BY <1>3, <2>1, AtStep DEF Sound, PS2Sound, Order, InOrder
<1>11. Stale' /\ Stages' /\ CutOff'
  <2>1. b \in MouseBytes => at > 5
    BY <1>6, Silent, AtStep DEF MouseBytes
  <2>2. b \in {"key", "config"} \/ b \in MouseBytes
    BY <1>6
  <2>3. Stale'
    BY <1>2 DEF Stale
  <2>4. Stages'
    BY <1>2, <1>3, <1>4, <1>7, <2>1, <2>2, AtStep DEF Sound, PS2Sound, Order, Stages
  <2>5. CutOff'
    BY <1>2, <1>3, <1>6 DEF Sound, PS2Sound, Order, CutOff
  <2> QED
    BY <2>3, <2>4, <2>5
<1>12. NoKey'
  BY <1>2, <1>3, <1>6, Silent, AtStep DEF Sound, PS2Sound, Order, Stages, Line, NoKey, MouseBytes
<1>13. Requests' /\ Causes'
  BY <1>2, <1>3, <1>4, <1>6 DEF Sound, PS2Sound, Line, Requests, Causes
<1> QED
  BY <1>4, <1>8, <1>9, <1>10, <1>11, <1>12, <1>13 DEF Sound, PS2Sound, Order, Line

LEMMA InitKeeps == InitPS2 => Sound
<1> SUFFICES ASSUME InitPS2
             PROVE  Sound
  OBVIOUS
<1> USE PS2Assumption
<1>1. DiskSound /\ pc # "done"
  BY DiskInit DEF InitPS2, Init
<1>2. /\ command_byte \in {{"KIE"}, {"KIE", "MOFF"}} /\ port = [full |-> FALSE, byte |-> "key"]
      /\ queue = <<>> /\ requested = {} /\ at = 1 /\ result = 1 /\ status = "none"
      /\ ~keyboard /\ ~answer /\ ~reporting /\ ~unmasked /\ ~keyed /\ ~late /\ ~strayed
      /\ cycle = 0 /\ ~unretired
  BY DEF InitPS2
<1>3. TypeOKPS2
  <2>1. TypeOK
    BY <1>1 DEF DiskSound, ReportIsTrue
  <2>2. port \in [full : BOOLEAN, byte : Bytes] /\ queue \in Seq(Bytes) /\ Len(queue) = 0
    BY <1>2 DEF Bytes
  <2>3. command_byte \subseteq {"KIE", "MIE", "KOFF", "MOFF"} /\ requested \subseteq {1, 12}
    BY <1>2
  <2> QED
    BY <1>2, <2>1, <2>2, <2>3, Spoken DEF TypeOKPS2
<1>4. Flags
  BY Zenon DEF InitPS2, Flags
<1>5. Held = "none"
  BY <1>2 DEF Held
<1>6. Order
  BY <1>1, <1>2, <1>5 DEF Order, InOrder, Owed, Stale, Stages, CutOff, MouseBytes
<1>7. Line
  BY <1>2 DEF Line, NoKey, Requests, Causes
<1> QED
  BY <1>1, <1>3, <1>4, <1>6, <1>7 DEF Sound, PS2Sound

LEMMA DiskStays == Sound /\ UNCHANGED vars => DiskSound' /\ UNCHANGED <<pc, iflag>> /\ TypeOK'
<1> SUFFICES ASSUME Sound, UNCHANGED vars
             PROVE  DiskSound' /\ UNCHANGED <<pc, iflag>> /\ TypeOK'
  OBVIOUS
<1>1. UNCHANGED <<kind, phase, words, low, iflag, started, now, tested, pc, outcome>>
  BY DEF vars
<1>2. DiskSound'
  BY <1>1 DEF Sound, DiskSound, ReportIsTrue, TypeOK, GetsTo, Shows
<1> QED
  BY <1>1, <1>2 DEF DiskSound, ReportIsTrue

LEMMA KeyPressedKeeps == Sound /\ KeyPressed => Sound'
<1> SUFFICES ASSUME Sound, KeyPressed
             PROVE  Sound'
  OBVIOUS
<1>1. UNCHANGED <<vars, command_byte, port, answer, queue, reporting, requested, unmasked, latching, at,
                  result, status, late, cycle, unretired, strayed>>
  BY DEF KeyPressed, history, packet
<1>2. DiskSound' /\ UNCHANGED <<pc, iflag>> /\ TypeOKPS2' /\ Held' = Held
  <2>1. DiskSound' /\ UNCHANGED <<pc, iflag>> /\ TypeOK'
    BY <1>1, DiskStays
  <2>2. TypeOKPS2'
    BY <1>1, <2>1 DEF Sound, PS2Sound, TypeOKPS2
  <2> QED
    BY <1>1, <2>1, <2>2 DEF Held
<1>3. (keyed => keyed') /\ (result = 1 => keyed')
  BY Zenon DEF KeyPressed
<1>4. Flags'
  <2>1. keyboard' \in BOOLEAN /\ keyed' \in BOOLEAN
    BY Zenon DEF KeyPressed
  <2> QED
    BY <1>1, <2>1, Zenon DEF Sound, PS2Sound, Flags
<1>5. Order'
  BY <1>1, <1>2, <1>3 DEF Sound, PS2Sound, Order, InOrder, Owed, Stale, Stages, CutOff
<1>6. Line'
  BY <1>1, <1>2, <1>3 DEF Sound, PS2Sound, Line, NoKey, Requests, Causes
<1> QED
  BY <1>2, <1>4, <1>5, <1>6 DEF Sound, PS2Sound

LEMMA MouseMovesKeeps == Sound /\ MouseMoves => Sound'
<1> SUFFICES ASSUME Sound, MouseMoves
             PROVE  Sound'
  OBVIOUS
<1>1. /\ UNCHANGED <<vars, command_byte, port, keyboard, answer, reporting, requested, unmasked, latching, at,
                     result, status, keyed, late, cycle, unretired, strayed>>
      /\ reporting /\ queue = <<>> /\ queue' = Packet
  BY DEF MouseMoves, history, packet, Packet
<1>2. DiskSound' /\ UNCHANGED <<pc, iflag>> /\ TypeOK' /\ at \in {12, 13} /\ Held' = Held
  BY <1>1, DiskStays DEF Sound, PS2Sound, Order, Stages, Held
<1>3. queue' \in Seq(MouseBytes) /\ queue' \in Seq(Bytes) /\ Len(queue') = 3
  BY <1>1 DEF MouseBytes, Bytes, Packet
<1>4. TypeOKPS2'
  BY <1>1, <1>2, <1>3 DEF Sound, PS2Sound, TypeOKPS2
<1>5. Flags'
  BY <1>1, Zenon DEF Sound, PS2Sound, Flags
<1>6. InOrder'
  <2>1. Owed(at, Held, queue) => Owed(at, Held, queue')
    BY <1>1, <1>2, OwedMoves
  <2>2. at' = at /\ Held' = Held /\ result' = result /\ (late' <=> late) /\ (keyed' <=> keyed)
    BY <1>1, <1>2
  <2> QED
    BY <1>2, <2>1, <2>2 DEF Sound, PS2Sound, Order, InOrder
<1>7. Order'
  BY <1>1, <1>2, <1>3, <1>6 DEF Sound, PS2Sound, Order, Stale, Stages, CutOff
<1>8. Line'
  BY <1>1, <1>2 DEF Sound, PS2Sound, Line, NoKey, Requests, Causes
<1> QED
  BY <1>2, <1>4, <1>5, <1>7, <1>8 DEF Sound, PS2Sound

-----------------------------------------------------------------------------
(* The steps of init_mouse *)

\* A command is said at its step, and the next step follows.
LEMMA CommandMeans ==
  ASSUME Sound, NEW op, NEW bits, NEW answers, NEW bytes, NEW reports,
         Command(op, bits, answers, bytes, reports), op # "install"
  PROVE  /\ at \in 1..12 /\ at' = at + 1 /\ result = 1 /\ pc = "done" /\ Dialogue[at][1] = op
         /\ UNCHANGED <<vars, port, keyboard, requested, unmasked, latching, result, status, keyed, late, cycle, unretired, strayed>>
         /\ command_byte' \in bits /\ answer' = answers /\ queue' = bytes /\ reporting' = reports
<1>1. /\ Turn(op) /\ Advance
      /\ UNCHANGED <<vars, port, keyboard, requested, unmasked, latching, status, keyed, late, cycle, unretired, strayed>>
      /\ command_byte' \in bits /\ answer' = answers /\ queue' = bytes /\ reporting' = reports
  BY DEF Command, history, packet
<1>2. at \in 1..13 /\ Dialogue[at][1] = op /\ result = 1 /\ pc = "done"
  BY <1>1, AtStep DEF Turn
<1>3. at # 13
  BY <1>2, Spoken
<1>4. at' = at + 1 /\ result' = result
  BY <1>1, <1>2, <1>3, Spoken DEF Advance
<1> QED
  BY <1>1, <1>2, <1>3, <1>4

\* What a command changes, step by step.
LEMMA SayMeans ==
  ASSUME Sound, Say
  PROVE  /\ at \in {1, 2, 4, 5, 8, 11} /\ at' = at + 1 /\ result = 1 /\ pc = "done"
         /\ UNCHANGED <<vars, port, keyboard, requested, unmasked, latching, result, status, keyed, late, cycle, unretired, strayed>>
         /\ \/ at = 1 /\ command_byte' = command_byte \ {"MOFF"} /\ UNCHANGED <<answer, queue, reporting>>
            \/ at = 2 /\ answer' = TRUE /\ UNCHANGED <<command_byte, queue, reporting>>
            \/ at = 4 /\ command_byte' \in WrittenBack /\ UNCHANGED <<answer, queue, reporting>>
            \/ /\ at = 5 /\ queue' = <<"ack", "bat", "id">> /\ reporting' = FALSE
               /\ UNCHANGED <<command_byte, answer>>
            \/ /\ at = 8 /\ queue' = Append(queue, "ack") /\ reporting' = FALSE
               /\ UNCHANGED <<command_byte, answer>>
            \/ /\ at = 11 /\ queue' = Append(queue, "ack") /\ reporting' = TRUE
               /\ UNCHANGED <<command_byte, answer>>
<1>1. CASE Command("enable", {command_byte \ {"MOFF"}}, answer, queue, reporting)
  <2>1. /\ at \in 1..12 /\ at' = at + 1 /\ result = 1 /\ pc = "done" /\ Dialogue[at][1] = "enable"
        /\ UNCHANGED <<vars, port, keyboard, requested, unmasked, latching, result, status, keyed, late, cycle, unretired, strayed>>
        /\ command_byte' \in {command_byte \ {"MOFF"}} /\ answer' = answer /\ queue' = queue /\ reporting' = reporting
    BY <1>1, CommandMeans
  <2>2. at = 1
    BY <2>1, Spoken
  <2> QED
    BY <2>1, <2>2
<1>2. CASE Command("read", {command_byte}, TRUE, queue, reporting)
  <2>1. /\ at \in 1..12 /\ at' = at + 1 /\ result = 1 /\ pc = "done" /\ Dialogue[at][1] = "read"
        /\ UNCHANGED <<vars, port, keyboard, requested, unmasked, latching, result, status, keyed, late, cycle, unretired, strayed>>
        /\ command_byte' \in {command_byte} /\ answer' = TRUE /\ queue' = queue /\ reporting' = reporting
    BY <1>2, CommandMeans
  <2>2. at = 2
    BY <2>1, Spoken
  <2> QED
    BY <2>1, <2>2
<1>3. CASE Command("write", WrittenBack, answer, queue, reporting)
  <2>1. /\ at \in 1..12 /\ at' = at + 1 /\ result = 1 /\ pc = "done" /\ Dialogue[at][1] = "write"
        /\ UNCHANGED <<vars, port, keyboard, requested, unmasked, latching, result, status, keyed, late, cycle, unretired, strayed>>
        /\ command_byte' \in WrittenBack /\ answer' = answer /\ queue' = queue /\ reporting' = reporting
    BY <1>3, CommandMeans
  <2>2. at = 4
    BY <2>1, Spoken
  <2> QED
    BY <2>1, <2>2
<1>4. CASE Command("reset", {command_byte}, answer, <<"ack", "bat", "id">>, FALSE)
  <2>1. /\ at \in 1..12 /\ at' = at + 1 /\ result = 1 /\ pc = "done" /\ Dialogue[at][1] = "reset"
        /\ UNCHANGED <<vars, port, keyboard, requested, unmasked, latching, result, status, keyed, late, cycle, unretired, strayed>>
        /\ command_byte' \in {command_byte} /\ answer' = answer /\ queue' = <<"ack", "bat", "id">> /\ reporting' = FALSE
    BY <1>4, CommandMeans
  <2>2. at = 5
    BY <2>1, Spoken
  <2> QED
    BY <2>1, <2>2
<1>5. CASE Command("defaults", {command_byte}, answer, Append(queue, "ack"), FALSE)
  <2>1. /\ at \in 1..12 /\ at' = at + 1 /\ result = 1 /\ pc = "done" /\ Dialogue[at][1] = "defaults"
        /\ UNCHANGED <<vars, port, keyboard, requested, unmasked, latching, result, status, keyed, late, cycle, unretired, strayed>>
        /\ command_byte' \in {command_byte} /\ answer' = answer /\ queue' = Append(queue, "ack") /\ reporting' = FALSE
    BY <1>5, CommandMeans
  <2>2. at = 8
    BY <2>1, Spoken
  <2> QED
    BY <2>1, <2>2
<1>6. CASE Command("report", {command_byte}, answer, Append(queue, "ack"), TRUE)
  <2>1. /\ at \in 1..12 /\ at' = at + 1 /\ result = 1 /\ pc = "done" /\ Dialogue[at][1] = "report"
        /\ UNCHANGED <<vars, port, keyboard, requested, unmasked, latching, result, status, keyed, late, cycle, unretired, strayed>>
        /\ command_byte' \in {command_byte} /\ answer' = answer /\ queue' = Append(queue, "ack") /\ reporting' = TRUE
    BY <1>6, CommandMeans
  <2>2. at = 11
    BY <2>1, Spoken
  <2> QED
    BY <2>1, <2>2
<1> QED
  BY <1>1, <1>2, <1>3, <1>4, <1>5, <1>6 DEF Say

LEMMA SayKeeps == Sound /\ Say => Sound'
<1> SUFFICES ASSUME Sound, Say
             PROVE  Sound'
  OBVIOUS
<1>0. /\ \/ at \in {1, 2, 4} /\ queue' = queue
         \/ at = 5 /\ queue' = <<"ack", "bat", "id">>
         \/ at \in {8, 11} /\ queue' = Append(queue, "ack")
      /\ \/ at = 1 /\ command_byte' = command_byte \ {"MOFF"}
         \/ at = 4 /\ command_byte' \in WrittenBack
         \/ at \in {2, 5, 8, 11} /\ command_byte' = command_byte
  BY SayMeans, Zenon
<1>1. /\ at \in {1, 2, 4, 5, 8, 11} /\ at' = at + 1 /\ result = 1 /\ result' = 1 /\ pc = "done"
      /\ UNCHANGED <<port, requested, status>> /\ Held' = Held
  BY SayMeans DEF Held
<1>2. DiskSound' /\ UNCHANGED <<pc, iflag>> /\ TypeOK'
  BY SayMeans, DiskStays
<1>3. /\ keyboard' = keyboard /\ unmasked' = unmasked /\ latching' = latching /\ keyed' = keyed
      /\ late' = late /\ strayed' = strayed /\ cycle' = cycle /\ unretired' = unretired
  BY SayMeans
<1>4. ~late /\ Owed(at, Held, queue) /\ ~unmasked /\ ~reporting
  BY <1>1 DEF Sound, PS2Sound, Order, InOrder, Stages
<1>5. Owed(at', Held', queue')
  <2>1. CASE at \in {1, 2, 4}
    <3>1. queue' = queue
      BY <1>0, <2>1
    <3> QED
      BY <1>1, <1>4, <2>1, <3>1, OwedSilence
  <2>2. CASE at = 5
    BY <1>0, <1>1, <1>4, <2>2, OwedReset
  <2>3. CASE at \in {8, 11}
    <3>1. queue' = Append(queue, "ack")
      BY <1>0, <2>3
    <3>2. Owed(at + 1, Held, Append(queue, "ack"))
      BY <1>4, <2>3, OwedSaid
    <3> QED
      BY <1>1, <3>1, <3>2, Zenon
  <2> QED
    BY <1>1, <2>1, <2>2, <2>3
<1>6. queue' \in Seq(MouseBytes) /\ Len(queue') <= 3
  <2>1. queue \in Seq(MouseBytes) /\ "ack" \in MouseBytes
    BY DEF Sound, PS2Sound, Order, Stages, MouseBytes
  <2>2. CASE at \in {1, 2, 4}
    BY <1>0, <2>1, <2>2 DEF Sound, PS2Sound, TypeOKPS2
  <2>3. CASE at = 5
    <3>1. queue' = <<"ack", "bat", "id">>
      BY <1>0, <2>3
    <3>2. <<"ack", "bat", "id">> \in Seq(MouseBytes) /\ Len(<<"ack", "bat", "id">>) = 3
      BY DEF MouseBytes
    <3> QED
      BY <3>1, <3>2
  <2>4. CASE at \in {8, 11}
    <3>1. Len(queue) <= 2
      <4>1. queue \in {<<>>, <<"id">>}
        BY <1>4, <2>4 DEF Owed
      <4>2. Len(<<>>) = 0 /\ Len(<<"id">>) = 1
        OBVIOUS
      <4> QED
        BY <4>1, <4>2
    <3> QED
      BY <1>0, <2>1, <2>4, <3>1, AppendProperties
  <2> QED
    BY <1>1, <2>2, <2>3, <2>4
<1>7. /\ command_byte' \subseteq {"KIE", "MIE", "KOFF", "MOFF"}
      /\ at = 1 => command_byte' = command_byte \ {"MOFF"}
      /\ at = 4 /\ status = "config" => command_byte' = command_byte \cup {"MIE"}
      /\ at \notin {1, 4} => command_byte' = command_byte
  <2>1. command_byte \subseteq {"KIE", "MIE", "KOFF", "MOFF"}
    BY DEF Sound, PS2Sound, TypeOKPS2
  <2>2. CASE at = 4
    <3>1. status = "config" => WrittenBack = {command_byte \cup {"MIE"}}
      BY DEF WrittenBack
    <3>2. \A c \in WrittenBack : c \subseteq {"KIE", "MIE", "KOFF", "MOFF"}
      BY <2>1 DEF WrittenBack
    <3> QED
      BY <1>0, <2>2, <3>1, <3>2
  <2>3. CASE at = 1
    <3>1. command_byte' = command_byte \ {"MOFF"}
      BY <1>0, <2>3
    <3> QED
      BY <2>1, <2>3, <3>1
  <2>4. CASE at \in {2, 5, 8, 11}
    <3>1. command_byte' = command_byte
      BY <1>0, <2>4
    <3> QED
      BY <2>1, <2>4, <3>1
  <2> QED
    BY <1>1, <2>2, <2>3, <2>4
<1>8. TypeOKPS2'
  BY <1>1, <1>2, <1>3, <1>6, <1>7, SeqSub, Spoken DEF Sound, PS2Sound, TypeOKPS2
<1>9. Flags'
  <2>1. answer' \in BOOLEAN
    BY SayMeans, Zenon DEF Sound, PS2Sound, Flags
  <2>2. reporting' \in BOOLEAN
    BY SayMeans, Zenon DEF Sound, PS2Sound, Flags
  <2> QED
    BY <1>3, <2>1, <2>2, Zenon DEF Sound, PS2Sound, Flags
<1>10. (at = 11 \/ ~reporting') /\ ((at = 2 /\ answer') \/ (at \in {1, 4, 5, 8, 11} /\ (answer' <=> answer)))
  <2>1. at = 11 \/ ~reporting'
    BY <1>4, SayMeans, Zenon
  <2>2. (at = 2 /\ answer') \/ (at \in {1, 4, 5, 8, 11} /\ (answer' <=> answer))
    BY SayMeans, Zenon
  <2> QED
    BY <2>1, <2>2
<1>11. Order'
  BY <1>1, <1>2, <1>3, <1>4, <1>5, <1>6, <1>7, <1>10 DEF Sound, PS2Sound, Order, InOrder, Stale, Stages, CutOff
<1>12. NoKey'
  <2>2. at = 2 /\ port.full => port.byte \in {"key", "config"}
    BY Silent, InBuffer DEF MouseBytes
  <2> QED
    BY <1>1, <1>3, <1>7, <1>10, <2>2 DEF Sound, PS2Sound, Line, NoKey
<1>13. Requests' /\ Causes'
  BY <1>1, <1>2, <1>3 DEF Sound, PS2Sound, Line, Requests, Causes
<1> QED
  BY <1>2, <1>8, <1>9, <1>11, <1>12, <1>13 DEF Sound, PS2Sound, Line

\* Port 0x60 is read in the dialogue: from the buffer, or when nothing comes.
LEMMA ReadMeans ==
  ASSUME Sound, Read, Turn("take") \/ Turn("expect")
  PROVE  /\ at \in {3, 6, 7, 9, 10, 12} /\ result = 1 /\ pc = "done"
         /\ UNCHANGED <<vars, command_byte, keyboard, answer, queue, reporting, unmasked, latching, keyed, cycle, unretired, strayed>>
         /\ TypeOK' /\ DiskSound'
         /\ TakePort({}) /\ status' = port.byte /\ port.byte \in Bytes
         /\ port.full \/ Exhausted
         /\ late' \in BOOLEAN
         /\ port.full => (late' <=> late)
         /\ ~port.full => (late' <=> (late \/ Awaited # <<>>))
         /\ Requests'
<1>1. /\ TakePort({}) /\ status' = port.byte /\ (port.full \/ Exhausted) /\ Undisturbed
      /\ UNCHANGED <<vars, command_byte, keyboard, answer, queue, reporting, unmasked, latching, keyed, cycle, unretired, strayed>>
  BY DEF Read, devices, packet
<1>2. late' = (late \/ (~port.full /\ Awaited # <<>>))
  BY Zenon DEF Read
<1>3. late' \in BOOLEAN /\ (port.full => (late' <=> late)) /\ (~port.full => (late' <=> (late \/ Awaited # <<>>)))
  <2>1. late \in BOOLEAN
    BY Zenon DEF Sound, PS2Sound, Flags
  <2> QED
    BY <1>2, <2>1, Zenon
<1>4. at \in {3, 6, 7, 9, 10, 12} /\ result = 1 /\ pc = "done"
  BY AtStep, Spoken DEF Turn
<1>5. TypeOK' /\ DiskSound' /\ UNCHANGED <<pc, iflag>>
  BY <1>1, DiskStays
<1>6. port.byte \in Bytes
  BY DEF Sound, PS2Sound, TypeOKPS2
<1>7. Requests'
  <2>1. requested' \subseteq requested /\ ~port'.full /\ (~latching /\ port.full => LineOf(port.byte) \notin requested')
    BY <1>1, PortTaken
  <2>2. latching' = latching /\ (latching /\ iflag => 1 \notin requested)
    BY <1>1 DEF Undisturbed
  <2> QED
    BY <1>4, <1>5, <2>1, <2>2 DEF Sound, PS2Sound, Line, Requests
<1> QED
  BY <1>1, <1>3, <1>4, <1>5, <1>6, <1>7

\* What a read leaves of the types and of what does not depend on the step.
LEMMA ReadKeeps ==
  ASSUME Sound, Read, Turn("take") \/ Turn("expect"),
         at' \in 1..13, result' \in {-1, 0, 1}
  PROVE  /\ TypeOKPS2' /\ Flags'
         /\ Held' = "none" /\ ~port'.full /\ port'.byte = port.byte
         /\ UNCHANGED <<queue, command_byte, latching, unmasked, reporting, keyed, cycle, unretired, strayed, keyboard, answer, pc>>
<1> USE ReadMeans, PortTaken
<1>1. /\ UNCHANGED <<queue, command_byte, latching, unmasked, reporting, keyed, cycle, unretired, strayed, keyboard, answer>>
      /\ Held' = "none" /\ ~port'.full /\ port'.byte = port.byte
      /\ port' \in [full : BOOLEAN, byte : Bytes] /\ requested' \subseteq requested
      /\ status' \in Bytes /\ TypeOK'
  OBVIOUS
<1>2. pc' = pc
  BY DiskStays
<1>3. TypeOKPS2'
  <2>1. requested' \subseteq {1, 12}
    BY <1>1 DEF Sound, PS2Sound, TypeOKPS2
  <2>2. /\ queue \in Seq(Bytes) /\ Len(queue) <= 3 /\ command_byte \subseteq {"KIE", "MIE", "KOFF", "MOFF"}
        /\ cycle \in 0..2
    BY DEF Sound, PS2Sound, TypeOKPS2
  <2> HIDE ReadMeans, PortTaken
  <2> QED
    BY <1>1, <2>1, <2>2, Spoken DEF TypeOKPS2
<1>4. Flags'
  <2>1. late' \in BOOLEAN
    OBVIOUS
  <2> HIDE ReadMeans, PortTaken
  <2> QED
    BY <1>1, <2>1, Zenon DEF Sound, PS2Sound, Flags
<1> QED
  BY <1>1, <1>2, <1>3, <1>4

\* An end of patience is late when the mouse owes something and is heard.
LEMMA Patience ==
  ASSUME Sound, ~port.full, at > 6, result = 1
  PROVE  Awaited = queue /\ Held = "none"
  BY AtStep DEF Sound, PS2Sound, Order, CutOff, Awaited, Held

LEMMA TakeKeeps == Sound /\ Take => Sound'
<1> SUFFICES ASSUME Sound, Take
             PROVE  Sound'
  OBVIOUS
<1>1. Turn("take") /\ Read /\ Advance
  BY DEF Take
<1>2. at \in {3, 9} /\ result = 1
  BY <1>1, AtStep, Spoken DEF Turn
<1>3. at' = at + 1 /\ result' = 1
  BY <1>1, <1>2, Spoken DEF Advance
<1>4. /\ TypeOKPS2' /\ Flags' /\ Held' = "none" /\ ~port'.full /\ port'.byte = port.byte
      /\ UNCHANGED <<queue, command_byte, latching, unmasked, reporting, keyed, cycle, unretired, strayed, keyboard, answer, pc>>
  BY <1>1, <1>2, <1>3, ReadKeeps
<1>5. /\ pc = "done" /\ DiskSound' /\ Requests' /\ status' = port.byte /\ port.byte \in Bytes
      /\ port.full \/ Exhausted
      /\ port.full => (late' <=> late)
      /\ ~port.full => (late' <=> (late \/ Awaited # <<>>))
  BY <1>1, ReadMeans
<1>6. ~late /\ Owed(at, Held, queue) /\ ~unmasked /\ ~reporting
  BY <1>2 DEF Sound, PS2Sound, Order, InOrder, Stages
<1>7. CASE at = 3
  <2>1. Held = "none" /\ queue = <<>>
    BY <1>7, Silent
  <2>2. ~late'
    BY <1>5, <1>6, <2>1 DEF Awaited
  <2>3. Owed(4, Held', queue')
    BY <1>4, <2>1 DEF Owed
  <2>4. InOrder'
    BY <1>3, <1>7, <2>2, <2>3 DEF InOrder
  <2>5. Stale' /\ Stages' /\ CutOff'
    BY <1>2, <1>3, <1>4, <1>5, <1>6, <1>7, <2>2 DEF Sound, PS2Sound, Order, Stale, Stages, CutOff
  <2>6. NoKey'
    <3>1. ~keyed => ~answer /\ port.byte = "config"
      BY <1>5, <1>7 DEF Sound, PS2Sound, Line, NoKey, Exhausted
    <3> QED
      BY <1>2, <1>3, <1>4, <1>5, <1>7, <3>1 DEF Sound, PS2Sound, Line, NoKey
  <2>7. Causes'
    BY <1>3, <1>4, <1>5, <1>6, <2>2 DEF Sound, PS2Sound, Line, Causes
  <2> QED
    BY <1>4, <1>5, <2>4, <2>5, <2>6, <2>7 DEF Sound, PS2Sound, Order, Line
<1>8. CASE at = 9
  <2>1. InOrder' /\ port.byte # "ack"
    <3>1. CASE port.full /\ Held # "none"
      <4>1. Owed(10, "none", queue) /\ Held = "id"
        BY <1>6, <1>8, <3>1, OwedTaken DEF Owed
      <4>2. Owed(at', Held', queue') /\ port.byte = "id"
        BY <1>3, <1>4, <1>8, <3>1, <4>1, InBuffer
      <4> QED
        BY <1>3, <1>5, <1>6, <3>1, <4>2 DEF InOrder
    <3>2. CASE port.full /\ Held = "none"
      <4>1. keyed /\ port.byte # "ack"
        BY <1>2, <1>8, <3>2, InBuffer DEF Sound, PS2Sound, Line, NoKey, MouseBytes
      <4>2. Owed(9, Held', queue')
        BY <1>4, <1>6, <1>8, <3>2
      <4> QED
        BY <1>3, <1>4, <1>5, <1>6, <1>8, <3>2, <4>1, <4>2 DEF InOrder
    <3>3. CASE ~port.full
      <4>1. Awaited = queue /\ Held = "none"
        BY <1>2, <1>8, <3>3, Patience
      <4>2. queue # <<>>
        BY <1>6, <1>8, <4>1, Different DEF Owed
      <4>3. late' /\ port.byte # "ack"
        BY <1>2, <1>5, <1>8, <3>3, <4>1, <4>2 DEF Sound, PS2Sound, Order, Stale
      <4>4. Owed(9, Held', queue')
        BY <1>4, <1>6, <1>8, <4>1
      <4> QED
        BY <1>3, <1>8, <4>3, <4>4 DEF InOrder
    <3> QED
      BY <3>1, <3>2, <3>3
  <2>2. Stale' /\ Stages' /\ CutOff'
    BY <1>2, <1>3, <1>4, <1>5, <1>6, <1>8, <2>1 DEF Sound, PS2Sound, Order, Stale, Stages, CutOff
  <2>3. NoKey'
    BY <1>2, <1>3, <1>4, <1>8 DEF Sound, PS2Sound, Line, NoKey
  <2>4. Causes'
    <3>1. late => late'
      BY <1>6
    <3> QED
      BY <1>3, <1>4, <3>1 DEF Sound, PS2Sound, Line, Causes
  <2> QED
    BY <1>4, <1>5, <2>1, <2>2, <2>3, <2>4 DEF Sound, PS2Sound, Order, Line
<1> QED
  BY <1>2, <1>7, <1>8

\* The reply that is expected came: it was in the buffer, unless mouse_wait gave
\* up at the last acknowledgement, after that of the defaults.
LEMMA ReplyKeeps ==
  ASSUME Sound, Turn("expect"), Read, status' = Dialogue[at][2], Advance
  PROVE  Sound'
<1>1. at \in {6, 7, 10, 12} /\ result = 1
  BY AtStep, Spoken DEF Turn
<1>2. at' = at + 1 /\ result' = 1
  BY <1>1, Spoken DEF Advance
<1>3. /\ TypeOKPS2' /\ Flags' /\ Held' = "none" /\ ~port'.full /\ port'.byte = port.byte
      /\ UNCHANGED <<queue, command_byte, latching, unmasked, reporting, keyed, cycle, unretired, strayed, keyboard, answer, pc>>
  BY <1>1, <1>2, ReadKeeps
<1>4. /\ pc = "done" /\ DiskSound' /\ Requests' /\ status' = port.byte
      /\ port.full => (late' <=> late)
      /\ ~port.full => (late' <=> (late \/ Awaited # <<>>))
  BY ReadMeans
<1>5. port.byte = IF at = 7 THEN "bat" ELSE "ack"
  <2>1. at = 7 => Dialogue[at][2] = "bat"
    BY Spoken
  <2>2. at \in {6, 10, 12} => Dialogue[at][2] = "ack"
    BY Spoken
  <2>3. port.byte = Dialogue[at][2]
    BY <1>4
  <2> HIDE DEF Dialogue
  <2> QED
    BY <1>1, <2>1, <2>2, <2>3
<1>6. port.full \/ at = 12
  BY <1>1, <1>5 DEF Sound, PS2Sound, Order, Stale
<1>7. InOrder'
  <2>1. CASE port.full
    <3>1. Held = port.byte
      BY <1>5, <2>1, InBuffer
    <3>2. ~Owed(9, Held, queue)
      BY <1>5, <3>1 DEF Owed
    <3>3. ~late /\ Owed(at, Held, queue)
      BY <1>1, <3>2 DEF Sound, PS2Sound, Order, InOrder
    <3>4. Owed(at + 1, "none", queue)
      BY <1>1, <1>5, <3>1, <3>3, OwedTaken
    <3>5. Owed(at', Held', queue')
      BY <1>2, <1>3, <3>4, Zenon
    <3> QED
      BY <1>2, <1>4, <2>1, <3>3, <3>5 DEF InOrder
  <2>2. CASE ~port.full
    <3>1. at = 12 /\ Awaited = queue /\ Held = "none"
      BY <1>1, <1>6, <2>2, Patience
    <3>2. late \/ queue # <<>>
      BY <1>1, <3>1, Different DEF Sound, PS2Sound, Order, InOrder, Owed
    <3>3. late'
      BY <1>4, <2>2, <3>1, <3>2
    <3> QED
      BY <1>2, <3>1, <3>3 DEF InOrder
  <2> QED
    BY <2>1, <2>2
<1>8. Stale' /\ Stages' /\ CutOff'
  BY <1>1, <1>2, <1>3, <1>4, <1>5 DEF Sound, PS2Sound, Order, Stale, Stages, CutOff
<1>9. NoKey' /\ Causes'
  <2>1. late => late'
    BY <1>4
  <2> QED
    BY <1>1, <1>2, <1>3, <2>1 DEF Sound, PS2Sound, Line, NoKey, Causes
<1> QED
  BY <1>3, <1>4, <1>7, <1>8, <1>9 DEF Sound, PS2Sound, Order, Line

\* Another byte came in its place: a key's, or that of a key before it, or a
\* late one.
LEMMA FailureKeeps ==
  ASSUME Sound, Turn("expect"), Read, status' # Dialogue[at][2], result' = -1, UNCHANGED at
  PROVE  Sound'
<1>1. at \in {6, 7, 10, 12} /\ result = 1
  BY AtStep, Spoken DEF Turn
<1>2. /\ TypeOKPS2' /\ Flags' /\ Held' = "none" /\ ~port'.full /\ port'.byte = port.byte
      /\ UNCHANGED <<queue, command_byte, latching, unmasked, reporting, keyed, cycle, unretired, strayed, keyboard, answer, pc>>
  BY <1>1, ReadKeeps
<1>3. /\ pc = "done" /\ DiskSound' /\ Requests' /\ status' = port.byte
      /\ port.full => (late' <=> late)
      /\ ~port.full => (late' <=> (late \/ Awaited # <<>>))
  BY ReadMeans
<1>4. port.byte # IF at = 7 THEN "bat" ELSE "ack"
  BY <1>1, <1>3, Spoken
<1>5. keyed \/ late'
  <2> SUFFICES ASSUME ~keyed, ~late
               PROVE  late'
    BY <1>3
  <2>1. Owed(at, Held, queue)
    BY <1>1 DEF Sound, PS2Sound, Order, InOrder
  <2>2. CASE port.full
    <3>1. port.byte \notin {"key", "config"}
      BY <1>1, <2>2 DEF Sound, PS2Sound, Line, NoKey
    <3>2. Held = port.byte /\ Held # "none"
      BY <2>2, <3>1, InBuffer DEF MouseBytes
    <3> QED
      BY <1>1, <1>4, <2>1, <3>2 DEF Owed
  <2>3. CASE ~port.full
    <3>1. Awaited = queue /\ Held = "none"
      BY <1>1, <2>3 DEF Sound, PS2Sound, Line, NoKey, Awaited, Held
    <3>2. queue # <<>>
      BY <1>1, <2>1, <3>1, Different DEF Owed, Bytes
    <3> QED
      BY <1>3, <2>3, <3>1, <3>2
  <2> QED
    BY <2>2, <2>3
<1>6. Order' /\ NoKey' /\ Causes'
  <2>1. ~reporting \/ at = 12
    BY <1>1 DEF Sound, PS2Sound, Order, Stages
  <2>2. strayed' => late' \/ latching'
    BY <1>2, <1>3 DEF Sound, PS2Sound, Line, Causes
  <2> QED
    BY <1>1, <1>2, <1>3, <1>5, <2>1, <2>2
       DEF Sound, PS2Sound, Order, InOrder, Stale, Stages, CutOff, Line, NoKey, Causes
<1> QED
  BY <1>2, <1>3, <1>6 DEF Sound, PS2Sound, Line

LEMMA InstallKeeps == Sound /\ Install => Sound'
<1> SUFFICES ASSUME Sound, Install
             PROVE  Sound'
  OBVIOUS
<1>1. /\ UNCHANGED <<vars, command_byte, keyboard, answer, queue, reporting, latching, keyed, port, requested,
                     status, late, cycle, unretired, strayed>>
      /\ Turn("install") /\ Advance /\ unmasked' = TRUE
  BY DEF Install, devices, history, packet
<1>2. at = 13 /\ result = 1 /\ pc = "done"
  BY <1>1, AtStep, Spoken DEF Turn
<1>3. at' = 13 /\ result' = 0
  BY <1>1, <1>2, Spoken DEF Advance
<1>4. DiskSound' /\ UNCHANGED <<pc, iflag>> /\ TypeOK' /\ Held' = Held
  BY <1>1, DiskStays DEF Held
<1>5. TypeOKPS2'
  BY <1>1, <1>3, <1>4, Spoken DEF Sound, PS2Sound, TypeOKPS2
<1>6. Flags'
  BY <1>1, Zenon DEF Sound, PS2Sound, Flags
<1>7. Order'
  BY <1>1, <1>2, <1>3, <1>4 DEF Sound, PS2Sound, Order, InOrder, Owed, Stale, Stages, CutOff
<1>8. Line'
  BY <1>1, <1>2, <1>3, <1>4 DEF Sound, PS2Sound, Line, NoKey, Requests, Causes
<1> QED
  BY <1>4, <1>5, <1>6, <1>7, <1>8 DEF Sound, PS2Sound

LEMMA EnableKeeps == Sound /\ EnableInterrupts => Sound'
<1> SUFFICES ASSUME Sound, EnableInterrupts
             PROVE  Sound'
  OBVIOUS
<1>1. /\ UNCHANGED <<kind, phase, words, low, started, now, tested, pc, outcome>> /\ result # 1
      /\ UNCHANGED <<command_byte, port, keyboard, answer, queue, reporting, requested, unmasked, latching, at,
                     result, status, keyed, late, cycle, unretired, strayed>>
  BY DEF EnableInterrupts, drive, locals, ps2
<1>2. iflag' \in BOOLEAN
  BY Zenon DEF EnableInterrupts
<1>3. DiskSound'
  BY <1>1, <1>2 DEF Sound, DiskSound, ReportIsTrue, TypeOK, GetsTo, Shows
<1>4. TypeOKPS2'
  BY <1>1, <1>3 DEF DiskSound, ReportIsTrue, Sound, PS2Sound, TypeOKPS2
<1>5. Flags'
  BY <1>1, Zenon DEF Sound, PS2Sound, Flags
<1>6. Order'
  BY <1>1 DEF Sound, PS2Sound, Order, InOrder, Owed, Held, Stale, Stages, CutOff
<1>7. Line'
  BY <1>1 DEF Sound, PS2Sound, Line, NoKey, Requests, Causes
<1> QED
  BY <1>3, <1>4, <1>5, <1>6, <1>7 DEF Sound, PS2Sound

-----------------------------------------------------------------------------
(* The handlers *)

\* A handler that takes the byte of the buffer leaves a dialogue alone only if
\* the byte is none of its replies.
LEMMA HandlerReads ==
  ASSUME Sound, NEW served, TakePort(served),
         result = 1 => port.full /\ LineOf(port.byte) = 1 /\ 1 \in served,
         UNCHANGED <<vars, command_byte, keyboard, answer, queue, reporting, unmasked, latching, at, result,
                     status, keyed, late>>,
         cycle' \in 0..2, unretired' \in BOOLEAN, strayed' \in BOOLEAN, strayed' => late \/ latching
  PROVE  Sound'
<1>1. DiskSound' /\ UNCHANGED <<pc, iflag>> /\ TypeOK'
  BY DiskStays
<1>2. /\ port' \in [full : BOOLEAN, byte : Bytes] /\ ~port'.full /\ port'.byte = port.byte
      /\ Held' = "none" /\ requested' \subseteq requested \ served
      /\ ~latching /\ port.full => LineOf(port.byte) \notin requested'
  BY PortTaken
<1>3. TypeOKPS2'
  BY <1>1, <1>2 DEF Sound, PS2Sound, TypeOKPS2
<1>4. Flags'
  BY Zenon DEF Sound, PS2Sound, Flags
<1>5. result = 1 => Held = "none" /\ port.byte \in {"key", "config"}
  BY InBuffer
<1>6. InOrder'
  <2>1. CASE result = 1
    <3>1. Held' = Held /\ queue' = queue /\ at' = at /\ result' = result
      BY <1>2, <1>5, <2>1
    <3>2. late' = late /\ keyed' = keyed
      BY Zenon
    <3> QED
      BY <3>1, <3>2 DEF Sound, PS2Sound, Order, InOrder
  <2>2. CASE result = 0
    <3>1. at = 13 /\ (~late => Owed(13, Held, queue))
      BY <2>2 DEF Sound, PS2Sound, Order, Stages, InOrder
    <3>2. ~late => Owed(13, "none", queue)
      BY <3>1 DEF Owed
    <3> QED
      BY <1>2, <2>2, <3>1, <3>2 DEF InOrder
  <2>3. CASE result = -1
    BY <2>3 DEF InOrder
  <2> QED
    BY <2>1, <2>2, <2>3 DEF Sound, PS2Sound, TypeOKPS2
<1>7. Stale' /\ Stages' /\ CutOff'
  BY <1>1, <1>2, <1>5 DEF Sound, PS2Sound, Order, Stale, Stages, CutOff
<1>8. NoKey'
  BY <1>2 DEF Sound, PS2Sound, Line, NoKey
<1>9. Requests' /\ Causes'
  BY <1>1, <1>2 DEF Sound, PS2Sound, Line, Requests, Causes
<1> QED
  BY <1>1, <1>3, <1>4, <1>6, <1>7, <1>8, <1>9 DEF Sound, PS2Sound, Order, Line

LEMMA KeyboardIrqKeeps == Sound /\ KeyboardIrq => Sound'
<1> SUFFICES ASSUME Sound, KeyboardIrq
             PROVE  Sound'
  OBVIOUS
<1>1. /\ UNCHANGED <<vars, command_byte, keyboard, answer, queue, reporting, unmasked, latching, at, result,
                     status, keyed, late>>
      /\ UNCHANGED <<cycle, unretired>>
      /\ iflag /\ 1 \in requested
      /\ \/ port.full /\ TakePort({1})
         \/ ~port.full /\ requested' = requested \ {1} /\ UNCHANGED port
  BY DEF KeyboardIrq, devices, packet
<1>2. (result = 1 \/ ~latching) => port.full /\ LineOf(port.byte) = 1
  BY <1>1 DEF Sound, PS2Sound, Line, Requests
<1>3. strayed' \in BOOLEAN /\ (strayed' => late \/ latching)
  <2>1. strayed \in BOOLEAN /\ (strayed => late \/ latching) /\ latching \in BOOLEAN
    BY Zenon DEF Sound, PS2Sound, Flags, Line, Causes
  <2>2. ~latching => ~PacketByte
    BY <1>2 DEF PacketByte, LineOf
  <2>3. strayed' = (strayed \/ PacketByte)
    BY Zenon DEF KeyboardIrq
  <2> QED
    BY <2>1, <2>2, <2>3, Zenon
<1>4. cycle' \in 0..2 /\ unretired' \in BOOLEAN
  <2>1. cycle \in 0..2
    BY DEF Sound, PS2Sound, TypeOKPS2
  <2>2. unretired \in BOOLEAN
    BY Zenon DEF Sound, PS2Sound, Flags
  <2>3. unretired' = unretired
    BY <1>1, Zenon
  <2> QED
    BY <1>1, <2>1, <2>2, <2>3, Zenon
<1>5. CASE TakePort({1})
  BY <1>1, <1>2, <1>3, <1>4, <1>5, HandlerReads
<1>6. CASE ~port.full /\ requested' = requested \ {1} /\ UNCHANGED port
  <2>1. DiskSound' /\ UNCHANGED <<pc, iflag>> /\ TypeOK' /\ Held' = Held
    BY <1>1, <1>6, DiskStays DEF Held
  <2>2. TypeOKPS2'
    BY <1>1, <1>4, <1>6, <2>1 DEF Sound, PS2Sound, TypeOKPS2
  <2>3. Flags'
    BY <1>1, <1>3, <1>4, Zenon DEF Sound, PS2Sound, Flags
  <2>4. Order'
    BY <1>1, <1>6, <2>1 DEF Sound, PS2Sound, Order, InOrder, Owed, Stale, Stages, CutOff
  <2>5. Line'
    BY <1>1, <1>3, <1>6, <2>1 DEF Sound, PS2Sound, Line, NoKey, Requests, Causes
  <2> QED
    BY <2>1, <2>2, <2>3, <2>4, <2>5 DEF Sound, PS2Sound
<1> QED
  BY <1>1, <1>5, <1>6

LEMMA MouseIrqKeeps == Sound /\ MouseIrq => Sound'
<1> SUFFICES ASSUME Sound, MouseIrq
             PROVE  Sound'
  OBVIOUS
<1>1. /\ UNCHANGED <<vars, command_byte, keyboard, answer, queue, reporting, unmasked, latching, at, result,
                     status, keyed, late>>
      /\ unmasked /\ 12 \in requested /\ TakePort({12})
  BY DEF MouseIrq, devices
<1>2. result = 0 /\ at = 13
  BY <1>1 DEF Sound, PS2Sound, Order, Stages
<1>3. late \/ latching \/ PacketByte
  <2> SUFFICES ASSUME ~late, ~latching
               PROVE  PacketByte
    BY DEF Sound
  <2>1. port.full /\ LineOf(port.byte) = 12
    BY <1>1 DEF Sound, PS2Sound, Line, Requests
  <2>2. Owed(13, Held, queue)
    BY <1>2 DEF Sound, PS2Sound, Order, InOrder
  <2> QED
    BY <2>1, <2>2, InBuffer DEF Owed, MouseBytes, PacketByte
<1>4. strayed' = (strayed \/ ~PacketByte)
  BY Zenon DEF MouseIrq
<1>5. strayed' \in BOOLEAN /\ (strayed' => late \/ latching)
  <2>1. strayed \in BOOLEAN /\ (strayed => late \/ latching)
    BY Zenon DEF Sound, PS2Sound, Flags, Line, Causes
  <2> QED
    BY <1>3, <1>4, <2>1, Zenon
<1>6. cycle' \in 0..2
  BY DEF MouseIrq, Sound, PS2Sound, TypeOKPS2
<1>7. unretired' \in BOOLEAN
  <2>1. unretired \in BOOLEAN
    BY Zenon DEF Sound, PS2Sound, Flags
  <2> QED
    BY <2>1, Zenon DEF MouseIrq
<1> QED
  BY <1>1, <1>2, <1>5, <1>6, <1>7, HandlerReads

-----------------------------------------------------------------------------
\* The state of init_disk and init_mouse is sound from power on: each kind of
\* drive gets no further than its answers let it, the replies of the mouse come in the
\* order the dialogue asks for them, and a line's request has its byte
\* (disk.c:200-245, mouse.c:90-146).
THEOREM SoundAlways == SpecPS2 => []Sound
<1>1. InitPS2 => Sound
  BY InitKeeps
<1>2. Sound /\ [NextPS2]_allvars => Sound'
  <2> SUFFICES ASSUME Sound, [NextPS2]_allvars
               PROVE  Sound'
    OBVIOUS
  <2>1. CASE InInitDisk(Next)
    BY <2>1, InitDiskKeeps
  <2>2. CASE FillFromKeyboard \/ FillFromController \/ FillFromMouse
    BY <2>2, FillKeeps
  <2>3. CASE KeyPressed
    BY <2>3, KeyPressedKeeps
  <2>4. CASE MouseMoves
    BY <2>4, MouseMovesKeeps
  <2>5. CASE Say
    BY <2>5, SayKeeps
  <2>6. CASE Take
    BY <2>6, TakeKeeps
  <2>7. CASE Expect
    BY <2>7, ReplyKeeps, FailureKeeps DEF Expect
  <2>8. CASE Install
    BY <2>8, InstallKeeps
  <2>9. CASE EnableInterrupts
    BY <2>9, EnableKeeps
  <2>10. CASE KeyboardIrq
    BY <2>10, KeyboardIrqKeeps
  <2>11. CASE MouseIrq
    BY <2>11, MouseIrqKeeps
  <2>12. CASE UNCHANGED allvars
    <3>1. /\ UNCHANGED vars
          /\ UNCHANGED <<command_byte, port, keyboard, answer, queue, reporting, requested, unmasked, latching, at,
                         result, status, keyed, late, cycle, unretired, strayed>>
      BY <2>12 DEF allvars, ps2
    <3>2. DiskSound' /\ UNCHANGED <<pc, iflag>> /\ TypeOK'
      BY <3>1, DiskStays
    <3>3. TypeOKPS2'
      BY <3>1, <3>2 DEF Sound, PS2Sound, TypeOKPS2
    <3>4. Flags'
      BY <3>1, Zenon DEF Sound, PS2Sound, Flags
    <3>5. Order'
      BY <3>1, <3>2 DEF Sound, PS2Sound, Order, InOrder, Owed, Held, Stale, Stages, CutOff
    <3>6. Line'
      BY <3>1, <3>2 DEF Sound, PS2Sound, Line, NoKey, Requests, Causes
    <3> QED
      BY <3>2, <3>3, <3>4, <3>5, <3>6 DEF Sound, PS2Sound
  <2> QED
    BY <2>1, <2>2, <2>3, <2>4, <2>5, <2>6, <2>7, <2>8, <2>9, <2>10, <2>11, <2>12 DEF NextPS2, InitMouse
<1> QED
  BY <1>1, <1>2, PTL DEF SpecPS2

-----------------------------------------------------------------------------
(* The packets *)

LEMMA PacketFills ==
  ASSUME NEW c, NEW q, q # <<>>, Packets(c, "none", q)
  PROVE  Packets(c, Head(q), Tail(q))
<1>1. CASE c = 0 /\ q = <<"ack">>
  BY <1>1, Heads DEF Packets, Bytes
<1>2. CASE c = 0 /\ q = Packet
  BY <1>2, Heads DEF Packets
<1>3. CASE c = 1 /\ q = AfterFirst
  BY <1>3, Heads DEF Packets
<1>4. CASE c = 2 /\ q = AfterSecond
  BY <1>4, Heads DEF Packets
<1> QED
  BY <1>1, <1>2, <1>3, <1>4 DEF Packets

LEMMA PacketStarts ==
  ASSUME NEW c, NEW h, Packets(c, h, <<>>)
  PROVE  Packets(c, h, Packet)
  BY Different DEF Packets

LEMMA OtherTaken ==
  ASSUME NEW c, NEW h, NEW q, h \notin {"first", "move"}, Packets(c, h, q)
  PROVE  Packets(c, "none", q)
  BY DEF Packets

LEMMA PacketTaken ==
  ASSUME NEW c, NEW h, NEW q, h \in {"first", "move"}, Packets(c, h, q)
  PROVE  /\ Packets((c + 1) % 3, "none", q)
         /\ c = 0 => h = "first"
<1>1. CASE c = 0
  BY <1>1 DEF Packets
<1>2. CASE c = 1
  BY <1>2 DEF Packets
<1>3. CASE c = 2
  BY <1>3 DEF Packets
<1> QED
  BY <1>1, <1>2, <1>3 DEF Packets

\* What touches neither the packets nor the reports of the mouse.
LEMMA PacketsStay ==
  ASSUME InStep, UNCHANGED <<queue, reporting, at, result, cycle, unretired>>, strayed => strayed',
         Held' = Held
  PROVE  InStep'
  BY DEF InStep

LEMMA FillInStep ==
  Sound /\ InStep /\ (FillFromKeyboard \/ FillFromController \/ FillFromMouse) => InStep'
<1> SUFFICES ASSUME Sound, InStep, FillFromKeyboard \/ FillFromController \/ FillFromMouse
             PROVE  InStep'
  OBVIOUS
<1>1. PICK b : Fill(b) /\ \/ b \in {"key", "config"} /\ UNCHANGED queue
                          \/ b = Head(queue) /\ queue # <<>> /\ queue' = Tail(queue)
  BY DEF FillFromKeyboard, FillFromController, FillFromMouse
<1>2. /\ ~port.full /\ port' = [full |-> TRUE, byte |-> b]
      /\ UNCHANGED <<reporting, at, result, cycle, unretired, strayed>>
  BY <1>1 DEF Fill, packet, history
<1>3. Held = "none" /\ Held' = IF LineOf(b) = 12 THEN b ELSE "none"
  BY <1>2 DEF Held
<1>4. CASE b \in {"key", "config"} /\ UNCHANGED queue
  <2>1. Held' = Held
    BY <1>3, <1>4 DEF LineOf
  <2> QED
    BY <1>2, <1>4, <2>1, PacketsStay
<1>5. CASE b = Head(queue) /\ queue # <<>> /\ queue' = Tail(queue)
  <2>1. queue \in Seq(MouseBytes)
    BY DEF Sound, PS2Sound, Order, Stages
  <2>2. b \in MouseBytes
    BY <1>5, <2>1, HeadTailProperties
  <2>3. Held' = b
    BY <1>3, <2>2 DEF LineOf, MouseBytes
  <2>4. Packets(cycle, Held, queue) => Packets(cycle, Held', queue')
    BY <1>3, <1>5, <2>3, PacketFills
  <2> QED
    BY <1>2, <2>4 DEF InStep
<1> QED
  BY <1>1, <1>4, <1>5

LEMMA MovesInStep == InStep /\ MouseMoves => InStep'
<1> SUFFICES ASSUME InStep, MouseMoves
             PROVE  InStep'
  OBVIOUS
<1>1. /\ UNCHANGED <<port, reporting, at, result, cycle, unretired, strayed>>
      /\ queue = <<>> /\ queue' = Packet
  BY DEF MouseMoves, packet, history, Packet
<1>2. Held' = Held
  BY <1>1 DEF Held
<1>3. Packets(cycle, Held, queue) => Packets(cycle, Held', queue')
  BY <1>1, <1>2, PacketStarts
<1> QED
  BY <1>1, <1>3 DEF InStep

\* The mouse reports only after the last command but one, when it owes nothing.
LEMMA SayInStep == Sound /\ InStep /\ Say => InStep'
<1> SUFFICES ASSUME Sound, InStep, Say
             PROVE  InStep'
  OBVIOUS
<1>1. /\ at \in {1, 2, 4, 5, 8, 11} /\ at' = at + 1 /\ result = 1 /\ result' = 1
      /\ UNCHANGED <<port, cycle, unretired, strayed>>
  BY SayMeans
<1>2. Held' = Held
  BY <1>1 DEF Held
<1>3. CASE at = 11
  <2>1. queue' = Append(queue, "ack") /\ reporting' = TRUE
    BY <1>3, SayMeans
  <2>2. Owed(11, Held, queue)
    BY <1>1, <1>3 DEF Sound, PS2Sound, Order, InOrder, Stages
  <2>3. Held = "none" /\ queue' = <<"ack">>
    BY <2>1, <2>2, Appends DEF Owed
  <2>4. cycle = 0
    BY <1>1 DEF InStep
  <2>5. Packets(cycle', Held', queue')
    BY <1>1, <1>2, <2>3, <2>4 DEF Packets
  <2> QED
    BY <1>1, <2>1, <2>5 DEF InStep
<1>4. CASE at # 11
  <2>1. ~reporting
    BY <1>1 DEF Sound, PS2Sound, Order, Stages
  <2>2. ~reporting'
    BY <1>4, <2>1, SayMeans, Zenon
  <2> QED
    BY <1>1, <1>4, <2>2 DEF InStep
<1> QED
  BY <1>3, <1>4

LEMMA ReadInStep ==
  ASSUME Sound, InStep, Read, Turn("take") \/ Turn("expect"),
         \/ at' = at + 1 /\ result' = 1 /\ (at = 12 => status' = "ack")
         \/ at' = at /\ result' = -1
  PROVE  InStep'
<1>1. at \in {3, 6, 7, 9, 10, 12} /\ result = 1
  BY ReadMeans
<1>2. /\ UNCHANGED <<queue, reporting, cycle, unretired, strayed>> /\ Held' = "none"
      /\ status' = port.byte
  BY ReadMeans, ReadKeeps, <1>1
<1>3. cycle = 0 /\ (reporting <=> at = 12)
  BY <1>1 DEF InStep, Sound, PS2Sound, Order, Stages
<1>4. ASSUME at = 12, result' = 1, Packets(cycle, Held, queue)
      PROVE  Packets(cycle', Held', queue')
  <2>1. Held \notin {"first", "move"}
    BY <1>2, <1>4 DEF Held
  <2> QED
    BY <1>2, <1>4, <2>1, OtherTaken
<1> QED
  BY <1>1, <1>2, <1>3, <1>4 DEF InStep

LEMMA DialogueInStep == Sound /\ InStep /\ (Take \/ Expect \/ Install) => InStep'
<1> SUFFICES ASSUME Sound, InStep, Take \/ Expect \/ Install
             PROVE  InStep'
  OBVIOUS
<1>1. CASE Take
  <2>1. Turn("take") /\ Read /\ Advance
    BY <1>1 DEF Take
  <2>2. at \in {3, 9} /\ result = 1
    BY <2>1, AtStep, Spoken DEF Turn
  <2>3. at' = at + 1 /\ result' = 1
    BY <2>1, <2>2, Spoken DEF Advance
  <2> QED
    BY <2>1, <2>2, <2>3, ReadInStep
<1>2. CASE Expect
  <2>1. /\ Turn("expect") /\ Read
        /\ \/ status' = Dialogue[at][2] /\ Advance
           \/ result' = -1 /\ UNCHANGED at
    BY <1>2 DEF Expect
  <2>2. at \in {6, 7, 10, 12} /\ result = 1
    BY <2>1, AtStep, Spoken DEF Turn
  <2>3. CASE status' = Dialogue[at][2] /\ Advance
    <3>1. at' = at + 1 /\ result' = 1
      BY <2>2, <2>3, Spoken DEF Advance
    <3>2. at = 12 => status' = "ack"
      BY <2>3, Spoken
    <3> QED
      BY <2>1, <3>1, <3>2, ReadInStep
  <2>4. CASE result' = -1 /\ UNCHANGED at
    BY <2>1, <2>4, ReadInStep
  <2> QED
    BY <2>1, <2>3, <2>4
<1>3. CASE Install
  <2>1. /\ Turn("install") /\ Advance
        /\ UNCHANGED <<port, queue, reporting, cycle, unretired, strayed>>
    BY <1>3 DEF Install, devices, packet, history
  <2>2. at = 13 /\ result = 1
    BY <2>1, AtStep, Spoken DEF Turn
  <2>3. at' = 13 /\ result' = 0
    BY <2>1, <2>2, Spoken DEF Advance
  <2>4. Held' = Held
    BY <2>1 DEF Held
  <2> QED
    BY <2>1, <2>2, <2>3, <2>4 DEF InStep
<1> QED
  BY <1>1, <1>2, <1>3

LEMMA KeyboardIrqInStep == Sound /\ InStep /\ KeyboardIrq => InStep'
<1> SUFFICES ASSUME Sound, InStep, KeyboardIrq
             PROVE  InStep'
  OBVIOUS
<1>1. UNCHANGED <<queue, reporting, at, result, cycle, unretired>>
  BY DEF KeyboardIrq, devices, packet
<1>2. strayed' = (strayed \/ PacketByte)
  BY Zenon DEF KeyboardIrq
<1>3. CASE ~port.full /\ UNCHANGED port
  <2>1. Held' = Held
    BY <1>3 DEF Held
  <2>2. strayed => strayed'
    BY <1>2, Zenon
  <2> QED
    BY <1>1, <2>1, <2>2, PacketsStay
<1>4. CASE TakePort({1})
  <2>1. Held' = "none"
    BY <1>4, PortTaken
  <2>2. Held \notin {"first", "move"} \/ PacketByte
    BY DEF Held, PacketByte
  <2>3. ~strayed' => ~strayed /\ ~PacketByte
    BY <1>2, Zenon
  <2>4. ~strayed' /\ Packets(cycle, Held, queue) => Packets(cycle', Held', queue')
    BY <1>1, <2>1, <2>2, <2>3, OtherTaken
  <2>5. unretired' => strayed'
    <3>1. unretired' = unretired
      BY <1>1
    <3> QED
      BY <1>2, <3>1, Zenon DEF InStep
  <2> QED
    BY <1>1, <2>3, <2>4, <2>5 DEF InStep
<1> QED
  BY <1>3, <1>4 DEF KeyboardIrq

\* mouse_handler counts a packet's byte and drops none whose cycle it is.
LEMMA MouseIrqInStep == Sound /\ InStep /\ MouseIrq => InStep'
<1> SUFFICES ASSUME Sound, InStep, MouseIrq
             PROVE  InStep'
  OBVIOUS
<1>1. /\ UNCHANGED <<queue, reporting, at, result>>
      /\ unmasked /\ ~unretired /\ TakePort({12})
  BY DEF MouseIrq, devices
<1>2. at = 13 /\ result = 0 /\ reporting
  BY <1>1 DEF Sound, PS2Sound, Order, Stages, InStep
<1>3. strayed' = (strayed \/ ~PacketByte)
  BY Zenon DEF MouseIrq
<1>4. Held' = "none"
  BY <1>1, PortTaken
<1>5. CASE strayed'
  BY <1>1, <1>2, <1>5 DEF InStep
<1>6. CASE ~strayed'
  <2>1. ~strayed /\ PacketByte
    BY <1>3, <1>6, Zenon
  <2>2. Held = port.byte /\ Held \in {"first", "move"}
    BY <2>1 DEF PacketByte, Held, LineOf
  <2>3. Packets(cycle, Held, queue)
    BY <1>2, <2>1 DEF InStep
  <2>4. Packets((cycle + 1) % 3, "none", queue) /\ (cycle = 0 => Held = "first")
    BY <2>2, <2>3, PacketTaken
  <2>5. PICK bit3 \in Bit3(port.byte) :
          \/ Misaligned(bit3) /\ unretired' = TRUE /\ UNCHANGED cycle
          \/ ~Misaligned(bit3) /\ cycle' = (cycle + 1) % 3 /\ UNCHANGED unretired
    BY DEF MouseIrq
  <2>6. ~Misaligned(bit3)
    <3>1. cycle = 0 => bit3 = TRUE
      BY <2>2, <2>4, <2>5 DEF Bit3
    <3> QED
      BY <3>1 DEF Misaligned
  <2>7. cycle' = (cycle + 1) % 3 /\ ~unretired'
    BY <1>1, <2>5, <2>6
  <2> QED
    BY <1>1, <1>2, <1>4, <2>4, <2>7 DEF InStep
<1> QED
  BY <1>5, <1>6

\* As long as each handler took its own bytes mouse_cycle is in step with the
\* packets, so that none of them is dropped and line 12 is retired each time
\* (mouse.c:62-88).
THEOREM InStepAlways == SpecPS2 => []InStep
<1>1. InitPS2 => InStep
  <2> SUFFICES ASSUME InitPS2
               PROVE  InStep
    OBVIOUS
  <2>1. at = 1 /\ result = 1 /\ cycle = 0 /\ ~reporting /\ ~unretired
    BY DEF InitPS2
  <2> QED
    BY <2>1 DEF InStep
<1>2. Sound /\ InStep /\ [NextPS2]_allvars => InStep'
  <2> SUFFICES ASSUME Sound, InStep, [NextPS2]_allvars
               PROVE  InStep'
    OBVIOUS
  <2>1. CASE \/ InInitDisk(Next) \/ KeyPressed \/ EnableInterrupts \/ UNCHANGED allvars
    <3>1. UNCHANGED <<port, queue, reporting, at, result, cycle, unretired, strayed>>
      BY <2>1 DEF InInitDisk, KeyPressed, EnableInterrupts, allvars, ps2, packet, history
    <3>2. Held' = Held
      BY <3>1 DEF Held
    <3> QED
      BY <3>1, <3>2, PacketsStay
  <2>2. CASE FillFromKeyboard \/ FillFromController \/ FillFromMouse
    BY <2>2, FillInStep
  <2>3. CASE MouseMoves
    BY <2>3, MovesInStep
  <2>4. CASE Say
    BY <2>4, SayInStep
  <2>5. CASE Take \/ Expect \/ Install
    BY <2>5, DialogueInStep
  <2>6. CASE KeyboardIrq
    BY <2>6, KeyboardIrqInStep
  <2>7. CASE MouseIrq
    BY <2>7, MouseIrqInStep
  <2> QED
    BY <2>1, <2>2, <2>3, <2>4, <2>5, <2>6, <2>7 DEF NextPS2, InitMouse
<1> QED
  BY <1>1, <1>2, SoundAlways, PTL DEF SpecPS2

\* What init_disk reports is the truth about the drive, whatever drive there is
\* and whatever the time limit, and it reads an identification only from a drive
\* that offers one (disk.c:144-213, 228-240).
THEOREM ReportAlwaysTrue == SpecPS2 => []ReportIsTrue
<1>1. Sound => ReportIsTrue
  BY DEF Sound, DiskSound
<1> QED
  BY <1>1, SoundAlways, PTL

\* A boot fails in init_mouse, writes a false command byte or lets its handlers take each
\* other's bytes only for the causes that DialogueSound names, and only behind that can
\* line 12 stay in service, whichever replies are slow and whatever the machine
\* latches (mouse.c:62-88, 90-146, keyboard.c:43-45).
THEOREM DialogueAlwaysSound == SpecPS2 => []DialogueSound
<1>1. Sound /\ InStep => DialogueSound
  BY DEF Sound, PS2Sound, Line, Causes, NoKey, InStep, DialogueSound, Garbled
<1> QED
  BY <1>1, SoundAlways, InStepAlways, PTL
=============================================================================
