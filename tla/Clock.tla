------------------------------- MODULE Clock -------------------------------
(***************************************************************************)
(* The clock of timers/timer.c: two words the PIT handler advances, and    *)
(* main reading them, with interrupts off (get_milliseconds,               *)
(* get_systime_millis) or word by word (sleep_millis).                     *)
(*                                                                         *)
(* The words are scaled from 2^32 to Word.  What decides the carry is      *)
(* whether a multiple of Tick ever makes the low word exactly 0, so Word   *)
(* keeps 2^32's remainder modulo 10.                                       *)
(***************************************************************************)
EXTENDS Integers

CONSTANTS
  Word,        \* values of one word, 2^32 in the code
  Tick,        \* milliseconds per PIT interrupt, 10 in the code
  Second,      \* milliseconds per second, 1000 in the code
  Durations,   \* arguments of sleep_millis
  MaxTicks     \* bound: PIT interrupts

ASSUME ClockAssumption ==
  /\ Word \in Nat \ {0} /\ Tick \in 1..Word-1 /\ Second \in Nat \ {0}
  /\ Durations \subseteq 0..Word-1
  /\ MaxTicks \in Nat

VARIABLES
  low, high,   \* milliseconds_low, milliseconds_high
  iflag,       \* EFLAGS.IF
  pc,          \* where main is
  begin,       \* start_low; in get_milliseconds the low word it returns
  ends,        \* <<end_low, end_high>>; in get_milliseconds the high word in [2]
  late,        \* main has not come to its hlt or its loop since the last tick
  duration,    \* the argument of sleep_millis
  ticks,       \* PIT interrupts so far (history)
  began        \* ticks when the sleep began (history)

clock == <<low, high, ticks>>
sleeper == <<begin, ends, duration, began>>
vars == <<low, high, iflag, pc, late, begin, ends, duration, ticks, began>>

Init ==
  /\ low = 0 /\ high = 0 /\ ticks = 0
  /\ iflag = TRUE
  /\ pc = "idle" /\ late = FALSE
  /\ begin = 0 /\ ends = <<0, 0>> /\ duration = 0 /\ began = 0

-----------------------------------------------------------------------------
(* timer_handler *)

Advanced == (low + Tick) % Word

\* "Overflow occurred" is taken to be a low word of exactly 0.
Carry(word) == IF word = 0 THEN 1 ELSE 0

\* The PIT leaves main 10 ms: a few reads are torn by one tick, not by two.
TimerHandler ==
  /\ iflag /\ ~late
  /\ late' = (pc # "idle")
  /\ ticks < MaxTicks
  /\ low' = Advanced
  /\ high' = high + Carry(Advanced)
  /\ ticks' = ticks + 1
  /\ UNCHANGED <<iflag, pc, sleeper>>

-----------------------------------------------------------------------------
(* sleep_millis: every read of a volatile word is a step of its own *)

Go(from, to) == pc = from /\ pc' = to

CallSleep(d) ==
  /\ Go("idle", "start_high")
  /\ begin' = low
  /\ duration' = d
  /\ began' = ticks
  /\ UNCHANGED <<clock, iflag, late, ends>>

\* Faults: no carry into the end; a carry too many.
EndWithoutCarry(b, h, d) == <<(b + d) % Word, h>>
EndCarriedTwice(b, h, d) == <<(b + d) % Word, h + 2>>

\* The end of a sleep of d that begins at low word b and high word h.
End(b, h, d) ==
  <<(b + d) % Word, h + IF (b + d) % Word < b THEN 1 ELSE 0>>

ComputeEnd ==
  /\ Go("start_high", "test")
  /\ ends' = End(begin, high, duration)
  /\ UNCHANGED <<clock, iflag, late, begin, duration, began>>

\* milliseconds_high < end_high
TestHigh ==
  /\ pc = "test"
  /\ pc' = IF high < ends[2] THEN "hlt" ELSE "equal"
  /\ late' = (late /\ pc' # "hlt")
  /\ UNCHANGED <<clock, iflag, sleeper>>

\* milliseconds_high == end_high
TestEqual ==
  /\ pc = "equal"
  /\ pc' = IF high = ends[2] THEN "low" ELSE "return"
  /\ UNCHANGED <<clock, iflag, late, sleeper>>

\* milliseconds_low < end_low
TestLow ==
  /\ pc = "low"
  /\ pc' = IF low < ends[1] THEN "hlt" ELSE "return"
  /\ late' = (late /\ pc' # "hlt")
  /\ UNCHANGED <<clock, iflag, sleeper>>

\* Any interrupt wakes the hlt.
Wake ==
  /\ Go("hlt", "test")
  /\ UNCHANGED <<clock, iflag, late, sleeper>>

-----------------------------------------------------------------------------
(* get_milliseconds and get_systime_millis *)

IflagOff == FALSE

DisableInterrupts ==
  /\ Go("idle", "read_low")
  /\ iflag' = IflagOff
  /\ UNCHANGED <<clock, late, sleeper>>

ReadLow ==
  /\ Go("read_low", "read_high")
  /\ begin' = low
  /\ UNCHANGED <<clock, iflag, late, ends, duration, began>>

ReadHigh ==
  /\ Go("read_high", "enable")
  /\ ends' = <<0, high>>
  /\ UNCHANGED <<clock, iflag, late, begin, duration, began>>

EnableInterrupts ==
  /\ Go("enable", "idle")
  /\ iflag' = TRUE
  /\ UNCHANGED <<clock, late, sleeper>>

\* Both calls end; main's locals are dead.
Return ==
  /\ Go("return", "idle")
  /\ begin' = 0 /\ ends' = <<0, 0>> /\ duration' = 0 /\ began' = 0
  /\ UNCHANGED <<clock, iflag, late>>

Next ==
  \/ TimerHandler
  \/ \E d \in Durations : CallSleep(d)
  \/ ComputeEnd \/ TestHigh \/ TestEqual \/ TestLow \/ Wake
  \/ DisableInterrupts \/ ReadLow \/ ReadHigh \/ EnableInterrupts
  \/ Return

Spec == Init /\ [][Next]_vars

-----------------------------------------------------------------------------
(* get_seconds: the code's 4294967 is Word \div Second and its 37/125 is
   (Word % Second) / Second. *)

\* Fault: without the correction of line 79.
SecondsUncorrected(h, l) == h * (Word \div Second) + l \div Second

GetSeconds(h, l) ==
  h * (Word \div Second) + l \div Second + (h * (Word % Second)) \div Second

-----------------------------------------------------------------------------
(* Properties *)

TypeOK ==
  /\ low \in 0..Word-1 /\ high \in 0..MaxTicks /\ ticks \in 0..MaxTicks
  /\ iflag \in BOOLEAN /\ late \in BOOLEAN
  /\ pc \in {"idle", "start_high", "test", "equal", "low", "hlt", "return",
             "read_low", "read_high", "enable"}
  /\ begin \in 0..Word-1 /\ ends \in (0..Word-1) \X (0..MaxTicks+1)
  /\ duration \in Durations \cup {0} /\ began \in 0..ticks

Elapsed == (ticks - began) * Tick

\* The least time after which the low word is 0 again.
Period == CHOOSE p \in {k * Tick : k \in 1..Word} :
            /\ p % Word = 0
            /\ \A k \in 1..Word : (k * Tick) % Word = 0 => p <= k * Tick

\* However the two reads of the start and the three of the loop fall between
\* ticks and wraps, sleep_millis never returns early (timer.c:47-57).
SleepsLongEnough == pc = "return" => Elapsed >= duration

KeepsWaiting == pc # "hlt" /\ pc' = "hlt"

\* ... and it never waits longer than two growths of the high word.
SleepEnds == [][KeepsWaiting => Elapsed < duration + 2 * Period]_vars

\* What get_milliseconds returns are the two words of one instant
\* (timer.c:63-70, 101-108).
SnapshotConsistent == pc = "enable" => begin = low /\ ends[2] = high

\* get_seconds agrees with the exact quotient of the two words to one second;
\* without the 37/125 it would lose more with every growth of the high word
\* (timer.c:72-81).
SecondsAccurate ==
  pc = "enable" =>
    LET exact == (high * Word + low) \div Second
    IN  GetSeconds(ends[2], begin) \in {exact - 1, exact}

\* A reader's answer: both words of one instant, and the seconds they make.
ReadersAccurate == TypeOK /\ SnapshotConsistent /\ SecondsAccurate
=============================================================================
