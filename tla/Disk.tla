-------------------------------- MODULE Disk --------------------------------
(***************************************************************************)
(* init_disk: what the kernel does at boot to find the primary master      *)
(* drive.  Everything is polled; the only time limit is the one of         *)
(* identify_device, which asks the clock of timers/timer.c.                *)
(*                                                                         *)
(* The drive is a kind, fixed at power on, and a phase.  Its status byte   *)
(* is the set of flags it shows.                                           *)
(***************************************************************************)
EXTENDS Integers

CONSTANTS
  Kinds,      \* drives the machine may have
  Limit,      \* timeout_duration
  MaxClock    \* bound: the clock stops here

AllKinds == {"floating",   \* nothing on the bus: every bit of every port reads 1
             "silent",     \* nothing behind the controller: every port reads 0
             "packet",     \* an ATAPI drive
             "ata",        \* a drive that answers IDENTIFY or reports an error
             "mute"}       \* a drive that takes IDENTIFY and never offers data

ASSUME DiskAssumption ==
  /\ Kinds \subseteq AllKinds
  /\ Limit \in Nat /\ MaxClock \in Nat /\ Limit < MaxClock

VARIABLES
  kind,       \* the drive there is
  phase,      \* "idle", "busy", "data", "error", or "slow": not busy, no data yet
  words,      \* whether the drive's identification has been read
  low,        \* milliseconds_low; milliseconds_high stays 0 for 49 days
  iflag,      \* the clock runs only with interrupts on
  started,    \* start_time_low
  now,        \* current_time_low
  tested,     \* whether the time has been looked at since it was read
  pc,         \* where init_disk is
  outcome     \* what it reports
vars == <<kind, phase, words, low, iflag, started, now, tested, pc, outcome>>

drive == <<kind, phase, words>>
time == <<low, iflag>>
locals == <<started, now, tested>>

-----------------------------------------------------------------------------
(* What the ports show *)

Status ==
  CASE kind = "floating" -> {"BSY", "DRDY", "DRQ", "ERR"}
    [] kind = "silent" -> {}
    [] kind \notin {"floating", "silent"} /\ phase = "busy" -> {"BSY"}
    [] kind \notin {"floating", "silent"} /\ phase = "data" -> {"DRDY", "DRQ"}
    [] kind \notin {"floating", "silent"} /\ phase = "error" -> {"DRDY", "ERR"}
    [] kind \notin {"floating", "silent"} /\ phase \in {"idle", "slow"} -> {"DRDY"}

\* LBA mid and high are not 0: the signature of a packet device, or no drive.
Signature == kind \in {"floating", "packet"}

Init ==
  /\ kind \in Kinds
  /\ phase \in IF kind \in {"floating", "silent"} THEN {"idle"} ELSE {"idle", "busy"}
  /\ words = FALSE
  /\ low = 0 /\ iflag = FALSE
  /\ started = 0 /\ now = 0 /\ tested = TRUE
  /\ pc = "detect_wait" /\ outcome = "none"

\* The power-on reset ends.
Reset == pc \in {"detect_wait", "identify_wait"}

DriveReady ==
  /\ phase = "busy" /\ Reset
  /\ phase' = "idle"
  /\ UNCHANGED <<kind, words, time, locals, pc, outcome>>

\* IDENTIFY ends, at once or in two steps.
DriveAnswers ==
  /\ phase \in {"busy", "slow"} /\ ~Reset
  /\ phase' \in CASE kind = "ata" -> {"data", "error", "slow"} \ {phase}
                  [] kind = "packet" -> {"error"}
                  [] kind = "mute" -> {"slow"}
  /\ UNCHANGED <<kind, words, time, locals, pc, outcome>>

\* The PIT, one unit further.
ClockTicks ==
  /\ iflag /\ low < MaxClock
  /\ tested
  /\ low' = low + 1
  /\ UNCHANGED <<drive, iflag, locals, pc, outcome>>

-----------------------------------------------------------------------------
(* get_systime_millis(high, low); both callers pass the place for their low word
   first and NULL second. *)

\* What the clock means, and the two words it hands out by position.
Words == <<0, low>>

Asked == Words[1]

-----------------------------------------------------------------------------
(* init_disk *)

Stay == UNCHANGED <<drive, time, locals>>
Go(from, to) == pc = from /\ pc' = to
End(from, result) == Go(from, "done") /\ outcome' = result

NotBusy == "BSY" \notin Status

\* wait_not_busy: no way out but a clear BSY.
WaitNotBusy(from, to) ==
  /\ NotBusy
  /\ Go(from, to)
  /\ Stay /\ UNCHANGED outcome

\* detect_device
NoDrive == Status = {"BSY", "DRDY", "DRQ", "ERR"} /\ Signature

Detect ==
  /\ \/ NoDrive /\ End("detect", "no drive")
     \/ ~NoDrive /\ Go("detect", "identify_wait") /\ UNCHANGED outcome
  /\ Stay

\* IDENTIFY DEVICE
Identify ==
  /\ Go("identify", "answered")
  /\ phase' = IF kind \in {"floating", "silent"} THEN phase ELSE "busy"
  /\ UNCHANGED <<kind, words, time, locals, outcome>>

Answered ==
  /\ \/ Status = {} /\ End("answered", "no device")
     \/ Status # {} /\ Go("answered", "signature_wait") /\ UNCHANGED outcome
  /\ Stay

\* Fault: a packet device is not told from a disk.
SignatureIgnored == FALSE

ForeignSignature == Signature

CheckSignature ==
  /\ \/ ForeignSignature /\ End("signature", "not ata")
     \/ ~ForeignSignature /\ Go("signature", "start") /\ UNCHANGED outcome
  /\ Stay

\* get_systime_millis(&start_time_low, NULL): its sti starts the clock.
Start ==
  /\ Go("start", "poll")
  /\ started' = Asked
  /\ iflag' = TRUE
  /\ UNCHANGED <<drive, low, now, tested, outcome>>

\* get_systime_millis(&current_time_low, NULL)
ReadTime ==
  /\ Go("poll", "status")
  /\ now' = Asked
  /\ tested' = FALSE
  /\ UNCHANGED <<drive, time, started, outcome>>

\* Fault: the error bit is not looked at.
ErrorIgnored == FALSE

ErrorShown == "ERR" \in Status

\* Unsigned: the difference of equal words is 0.
TimedOut == now - started > Limit

CheckStatus ==
  /\ tested' = TRUE
  /\ \/ ErrorShown /\ End("status", "error")
     \/ ~ErrorShown /\ "DRQ" \in Status /\ Go("status", "read") /\ UNCHANGED outcome
     \/ ~ErrorShown /\ "DRQ" \notin Status /\ TimedOut /\ End("status", "timeout")
     \/ ~ErrorShown /\ "DRQ" \notin Status /\ ~TimedOut /\ Go("status", "poll") /\ UNCHANGED outcome
  /\ UNCHANGED <<drive, time, started, now>>

\* 256 words from the data port.
ReadWords ==
  /\ End("read", "identified")
  /\ words' = TRUE
  /\ phase' = IF phase = "data" THEN "idle" ELSE phase
  /\ UNCHANGED <<kind, time, locals>>

Driver ==
  \/ WaitNotBusy("detect_wait", "detect") \/ Detect
  \/ WaitNotBusy("identify_wait", "identify") \/ Identify
  \/ Answered
  \/ WaitNotBusy("signature_wait", "signature") \/ CheckSignature
  \/ Start \/ ReadTime \/ CheckStatus \/ ReadWords

Next == Driver \/ DriveReady \/ DriveAnswers \/ ClockTicks

\* The driver runs on, a drive finishes what it does, the clock ticks.
Spec == Init /\ [][Next]_vars
        /\ WF_vars(Driver) /\ WF_vars(DriveReady \/ DriveAnswers) /\ SF_vars(ClockTicks)

-----------------------------------------------------------------------------
(* Properties *)

TypeOK ==
  /\ kind \in Kinds /\ phase \in {"idle", "busy", "slow", "data", "error"} /\ words \in BOOLEAN
  /\ low \in 0..MaxClock /\ iflag \in BOOLEAN /\ tested \in BOOLEAN
  /\ started \in 0..MaxClock /\ now \in 0..MaxClock
  /\ outcome \in {"none", "no drive", "no device", "not ata", "error", "timeout", "identified"}

\* The report is the truth about the drive, and an identification is read only
\* from a drive that offers one (disk.c:144-213, 228-240).
ReportIsTrue ==
  /\ TypeOK
  /\ outcome = "identified" => kind = "ata" /\ words
  /\ outcome = "error" => kind = "ata" /\ phase = "error"
  /\ outcome = "not ata" => kind = "packet"
  /\ outcome = "no device" => kind = "silent"

\* Drives init_disk does not come back from: BSY is never clear, or no data and no
\* error ever come.
Hanging == {"floating", "mute"}

\* Boot gets past init_disk on exactly the machines whose drive ends its BSY and then
\* answers: on an empty bus it stays at the first wait, before the test that would say
\* "No drive" (disk.c:230-235), and with a drive that offers no data it polls for
\* ever, whatever the clock shows (disk.c:170-188).
InitDiskEnds ==
  /\ kind \notin Hanging => <>(pc = "done")
  /\ kind \in Hanging => [](pc # "done")

\* The promise of the "5s timeout" (disk.c:172): a drive that offers no data is given
\* up.  The code does not keep it.
InitDiskReturns == <>(pc = "done")
=============================================================================
