----------------------------- MODULE ClockProofs -----------------------------
(***************************************************************************)
(* For any width of the words, period of the PIT and length of a second: a *)
(* sleep is never short, and the readers return one instant and its        *)
(* seconds.  The carry that is missed at most wraps does no harm to either *)
(* because it only delays the high word.                                   *)
(***************************************************************************)
EXTENDS Clock, TLAPS

Sleeping == pc \in {"start_high", "test", "equal", "low", "hlt", "return"}
Reading == pc \in {"read_low", "read_high", "enable"}

\* The high word counts ticks, never faster than they come.
Bounded == high <= ticks /\ (pc # "idle" /\ ~Reading => ends[2] <= MaxTicks + 1)

\* The low word has not run ahead of the time since the sleep began.
LowBehind == Sleeping => low <= begin + Elapsed

\* The end lies beyond the next zero of the low word.
Wraps == begin + duration >= Word

\* The high word has reached the end's: where the end lies beyond a zero, the
\* low word has been through it.
HighCaughtUp ==
  pc \in {"test", "equal", "low", "hlt", "return"} =>
    /\ ends[1] = IF Wraps THEN begin + duration - Word ELSE begin + duration
    /\ high = ends[2] /\ Wraps => low + Word <= begin + Elapsed
    /\ high > ends[2] => duration <= Elapsed

\* What each test has found stays true when a tick falls behind it.
Tested ==
  /\ pc \in {"equal", "low", "return"} => high >= ends[2]
  /\ SleepsLongEnough

\* Between cli and sti no tick moves the words.
Shielded ==
  /\ Reading => ~iflag
  /\ pc \in {"read_high", "enable"} => begin = low
  /\ pc = "enable" => ends[2] = high

Sound == TypeOK /\ Bounded /\ LowBehind /\ HighCaughtUp /\ Tested /\ Shielded

-----------------------------------------------------------------------------
(* Arithmetic *)

\* One addition below Word passes at most one zero.
LEMMA WrapsOnce ==
  ASSUME NEW w \in Nat \ {0}, NEW a \in 0..w-1, NEW b \in 0..w-1
  PROVE  (a + b) % w = IF a + b >= w THEN a + b - w ELSE a + b
  OBVIOUS

\* What multiplication by a number one larger adds.
LEMMA OneMore ==
  ASSUME NEW n \in Int, NEW t \in Int
  PROVE  (n + 1) * t = n * t + t
  OBVIOUS

\* Distributivity, stated once because the provers need it by name.
LEMMA Distributes ==
  ASSUME NEW n \in Int, NEW a \in Int, NEW b \in Int
  PROVE  n * (a + b) = n * a + n * b /\ (a + b) * n = a * n + b * n
  OBVIOUS

\* What \div and % are.
LEMMA DivMod ==
  ASSUME NEW a \in Nat, NEW s \in Nat \ {0}
  PROVE  a \div s \in Nat /\ a % s \in 0..s-1 /\ a = s * (a \div s) + (a % s)
  OBVIOUS

\* The quotient is the one number whose multiple leaves less than the divisor.
LEMMA QuotientUnique ==
  ASSUME NEW s \in Nat \ {0}, NEW q \in Nat, NEW r \in 0..s-1
  PROVE  (s * q + r) \div s = q
  OBVIOUS

\* Whole multiples come out of the quotient.
LEMMA WholeComesOut ==
  ASSUME NEW s \in Nat \ {0}, NEW w \in Nat, NEW x \in Nat
  PROVE  (s * w + x) \div s = w + x \div s
<1>1. x \div s \in Nat /\ x % s \in 0..s-1 /\ x = s * (x \div s) + (x % s)
  BY DivMod
<1>2. s * w + x = s * (w + x \div s) + (x % s)
  BY <1>1, Distributes
<1> QED
  BY <1>1, <1>2, QuotientUnique

\* Two roundings down lose at most one.
LEMMA SumOfQuotients ==
  ASSUME NEW s \in Nat \ {0}, NEW a \in Nat, NEW b \in Nat
  PROVE  (a + b) \div s - (a \div s + b \div s) \in {0, 1}
<1> DEFINE q == a \div s + b \div s
           r == (a % s) + (b % s)
<1>a. a \div s \in Nat /\ a % s \in 0..s-1 /\ a = s * (a \div s) + (a % s)
  BY DivMod
<1>b. b \div s \in Nat /\ b % s \in 0..s-1 /\ b = s * (b \div s) + (b % s)
  BY DivMod
<1>1. q \in Nat /\ r \in 0..2*s-2
  BY <1>a, <1>b
<1>2. a + b = s * q + r
  <2>1. s * (a \div s) + s * (b \div s) = s * q
    BY <1>a, <1>b, Distributes
  <2> QED
    BY <2>1, <1>a, <1>b
<1>3. CASE r < s
  BY <1>1, <1>2, <1>3, QuotientUnique
<1>4. CASE r >= s
  <2>1. s * q + r = s * (q + 1) + (r - s)
    BY <1>1
  <2> QED
    BY <1>1, <1>2, <1>4, <2>1, QuotientUnique
<1> QED
  BY <1>1, <1>3, <1>4

\* get_seconds is the exact quotient of the two words, or one less.
LEMMA SecondsExact ==
  ASSUME NEW h \in Nat, NEW l \in Nat
  PROVE  LET exact == (h * Word + l) \div Second
         IN  GetSeconds(h, l) \in {exact - 1, exact}
<1> USE ClockAssumption
<1> DEFINE q == Word \div Second
           r == Word % Second
           whole == h * q
           rest == h * r
<1>1. q \in Nat /\ r \in Nat /\ Word = Second * q + r
  BY DivMod
<1>2. whole \in Nat /\ rest \in Nat
  BY <1>1
<1>3. h * Word = Second * whole + rest
  <2>1. h * Word = h * (Second * q) + rest
    BY <1>1, Distributes
  <2>2. h * (Second * q) = Second * whole
    BY <1>1
  <2> QED
    BY <2>1, <2>2
<1>4. (Second * whole + (rest + l)) \div Second = whole + (rest + l) \div Second
  <2>1. Second \in Nat \ {0} /\ rest + l \in Nat
    BY <1>2
  <2> HIDE DEF q, r, whole, rest
  <2> QED
    BY <1>2, <2>1, WholeComesOut
<1>5. (rest + l) \div Second - (rest \div Second + l \div Second) \in {0, 1}
  BY <1>2, SumOfQuotients
<1>6. rest \div Second \in Nat /\ l \div Second \in Nat /\ (rest + l) \div Second \in Nat
  BY <1>2, DivMod
<1>7. h * Word + l = Second * whole + (rest + l)
  BY <1>2, <1>3
<1>8. GetSeconds(h, l) = whole + l \div Second + rest \div Second
  BY DEF GetSeconds
<1> HIDE DEF q, r, whole, rest
<1> QED
  BY <1>2, <1>4, <1>5, <1>6, <1>7, <1>8

-----------------------------------------------------------------------------
(* Sound is inductive *)

LEMMA InitSound == Init => Sound
<1> SUFFICES ASSUME Init
             PROVE  Sound
  OBVIOUS
<1> USE ClockAssumption DEF Init
<1>1. ends \in (0..Word-1) \X (0..MaxTicks+1)
  OBVIOUS
<1>2. iflag \in BOOLEAN /\ late \in BOOLEAN
  OBVIOUS
<1>3. TypeOK
  BY <1>1, <1>2 DEF TypeOK
<1>4. Bounded /\ LowBehind /\ HighCaughtUp /\ Tested /\ Shielded
  BY DEF Bounded, LowBehind, HighCaughtUp, Tested, Shielded, Sleeping, Reading, SleepsLongEnough
<1> QED
  BY <1>3, <1>4 DEF Sound

\* A tick: the time grows by what the low word grows by, or by more; a zero of
\* the low word is where the high word grows.
LEMMA TickKeeps == Sound /\ TimerHandler => Sound'
<1> SUFFICES ASSUME Sound, TimerHandler
             PROVE  Sound'
  OBVIOUS
<1> USE ClockAssumption
<1>1. low' \in 0..Word-1 /\ (low' = low + Tick \/ low' = low + Tick - Word)
  <2>1. low \in 0..Word-1 /\ Tick \in 0..Word-1 /\ Word \in Nat \ {0}
    BY DEF Sound, TypeOK
  <2>2. low' = (low + Tick) % Word
    BY DEF TimerHandler, Advanced
  <2>3. (low + Tick) % Word = IF low + Tick >= Word THEN low + Tick - Word ELSE low + Tick
    BY ONLY <2>1, WrapsOnce
  <2> QED
    BY ONLY <2>1, <2>2, <2>3
<1>2. high' = high \/ (high' = high + 1 /\ low' = 0)
  BY DEF Sound, TypeOK, TimerHandler, Advanced, Carry
<1>3. Elapsed' = Elapsed + Tick /\ Elapsed \in Nat
  BY OneMore DEF Sound, TypeOK, TimerHandler, Elapsed, sleeper
<1>4. TypeOK'
  BY <1>1, <1>2 DEF Sound, TypeOK, Bounded, TimerHandler, sleeper
<1>5. Bounded'
  BY <1>2 DEF Sound, TypeOK, Bounded, TimerHandler, sleeper, Reading
<1>6. LowBehind'
  BY <1>1, <1>3 DEF Sound, TypeOK, LowBehind, TimerHandler, sleeper, Sleeping
<1>7. HighCaughtUp'
  BY <1>1, <1>2, <1>3 DEF Sound, TypeOK, LowBehind, HighCaughtUp, TimerHandler, sleeper, Sleeping, Wraps
<1>8. Tested'
  BY <1>2, <1>3 DEF Sound, TypeOK, Tested, SleepsLongEnough, TimerHandler, sleeper
<1>9. Shielded'
  BY DEF Sound, Shielded, Reading, TimerHandler, sleeper
<1> QED
  BY <1>4, <1>5, <1>6, <1>7, <1>8, <1>9 DEF Sound

\* A sleep: its end is as far from the start as the duration, counted in words,
\* and the high word is read at most one zero too late.
LEMMA CallKeeps == ASSUME Sound, NEW d \in Durations, CallSleep(d) PROVE Sound'
<1> USE ClockAssumption
<1>1. Elapsed' = 0
  BY DEF Sound, TypeOK, CallSleep, clock, Elapsed
<1> QED
  BY <1>1 DEF Sound, TypeOK, Bounded, LowBehind, HighCaughtUp, Tested, Shielded, Sleeping,
     Reading, SleepsLongEnough, CallSleep, clock, Go

LEMMA EndKeeps == Sound /\ ComputeEnd => Sound'
<1> SUFFICES ASSUME Sound, ComputeEnd
             PROVE  Sound'
  OBVIOUS
<1> USE ClockAssumption
<1>1. duration \in 0..Word-1 /\ begin \in 0..Word-1 /\ high \in Nat
  BY DEF Sound, TypeOK
<1>2. (begin + duration) % Word = IF Wraps THEN begin + duration - Word ELSE begin + duration
  BY <1>1, WrapsOnce DEF Wraps
<1>3. ends' = <<(begin + duration) % Word, high + IF Wraps THEN 1 ELSE 0>>
  BY <1>1, <1>2 DEF ComputeEnd, End, Wraps
<1>4. UNCHANGED <<low, high, ticks, begin, duration, began, iflag, late, Elapsed, Wraps>>
  BY DEF ComputeEnd, clock, Elapsed, Wraps
<1>5. pc = "start_high" /\ pc' = "test"
  BY DEF ComputeEnd, Go
<1>6. ends'[1] = (IF Wraps THEN begin + duration - Word ELSE begin + duration)
      /\ ends'[2] = high + (IF Wraps THEN 1 ELSE 0) /\ ends' \in (0..Word-1) \X (0..MaxTicks+1)
  BY <1>1, <1>2, <1>3 DEF Sound, TypeOK, Bounded, Wraps
<1>7. TypeOK'
  BY <1>4, <1>5, <1>6 DEF Sound, TypeOK
<1>8. Bounded' /\ LowBehind'
  BY <1>4, <1>5, <1>6, <1>1 DEF Sound, TypeOK, Bounded, LowBehind, Sleeping
<1>9. HighCaughtUp'
  BY <1>1, <1>4, <1>5, <1>6 DEF HighCaughtUp
<1>10. Tested' /\ Shielded'
  BY <1>5 DEF Tested, SleepsLongEnough, Shielded, Reading
<1> QED
  BY <1>7, <1>8, <1>9, <1>10 DEF Sound

LEMMA TestsKeep == Sound /\ (TestHigh \/ TestEqual \/ TestLow \/ Wake) => Sound'
<1> SUFFICES ASSUME Sound, TestHigh \/ TestEqual \/ TestLow \/ Wake
             PROVE  Sound'
  OBVIOUS
<1> USE ClockAssumption
<1>1. UNCHANGED <<low, high, ticks, begin, ends, duration, began, iflag, Elapsed, Wraps>>
  BY DEF TestHigh, TestEqual, TestLow, Wake, clock, sleeper, Elapsed, Wraps
<1>2. /\ pc \in {"test", "equal", "low", "hlt"} /\ pc' \in {"test", "equal", "low", "hlt", "return"}
      /\ pc' \in {"equal", "low", "return"} => high >= ends[2]
  <2>1. high \in Nat /\ ends[2] \in Nat
    BY DEF Sound, TypeOK
  <2> QED
    BY <2>1 DEF Sound, Tested, TestHigh, TestEqual, TestLow, Wake, Go
<1>3. Elapsed \in Nat
  BY OneMore DEF Sound, TypeOK, Elapsed
<1>4. SleepsLongEnough'
  <2>1. CASE TestEqual
    BY <1>1, <1>2, <2>1 DEF TestEqual, Sound, TypeOK, Tested, HighCaughtUp, SleepsLongEnough
  <2>2. CASE TestLow /\ high = ends[2]
    BY <1>1, <1>2, <1>3, <2>2 DEF TestLow, Sound, TypeOK, HighCaughtUp, LowBehind, Sleeping, SleepsLongEnough, Wraps
  <2>3. CASE TestLow /\ high # ends[2]
    BY <1>1, <1>2, <2>3 DEF TestLow, Sound, TypeOK, Tested, HighCaughtUp, SleepsLongEnough
  <2>4. CASE TestHigh \/ Wake
    BY <2>4 DEF TestHigh, Wake, Go, SleepsLongEnough
  <2> QED
    BY <2>1, <2>2, <2>3, <2>4
<1>5. TypeOK'
  <2>1. late' \in BOOLEAN
    BY Zenon DEF Sound, TypeOK, TestHigh, TestEqual, TestLow, Wake
  <2> QED
    BY <1>1, <1>2, <2>1 DEF Sound, TypeOK
<1>6. Bounded' /\ LowBehind' /\ HighCaughtUp'
  BY <1>1, <1>2 DEF Sound, Bounded, LowBehind, HighCaughtUp, Sleeping, Reading
<1>7. Tested' /\ Shielded'
  BY <1>1, <1>2, <1>4 DEF Sound, Tested, Shielded, Reading
<1> QED
  BY <1>5, <1>6, <1>7 DEF Sound

LEMMA ReadersKeep ==
  Sound /\ (DisableInterrupts \/ ReadLow \/ ReadHigh \/ EnableInterrupts) => Sound'
<1> SUFFICES ASSUME Sound, DisableInterrupts \/ ReadLow \/ ReadHigh \/ EnableInterrupts
             PROVE  Sound'
  OBVIOUS
<1> USE ClockAssumption
<1>1. pc \in {"idle", "read_low", "read_high", "enable"} /\ pc' \in {"idle", "read_low", "read_high", "enable"}
  BY DEF DisableInterrupts, ReadLow, ReadHigh, EnableInterrupts, Go
<1>2. TypeOK'
  <2>1. iflag' \in BOOLEAN /\ late' \in BOOLEAN
    BY Zenon DEF Sound, TypeOK, DisableInterrupts, ReadLow, ReadHigh, EnableInterrupts, IflagOff
  <2>2. begin' \in 0..Word-1
    BY DEF Sound, TypeOK, DisableInterrupts, ReadLow, ReadHigh, EnableInterrupts, sleeper
  <2>3. ends' \in (0..Word-1) \X (0..MaxTicks+1)
    BY DEF Sound, TypeOK, DisableInterrupts, ReadLow, ReadHigh, EnableInterrupts, sleeper
  <2>4. UNCHANGED <<low, high, ticks, duration, began>>
    BY DEF DisableInterrupts, ReadLow, ReadHigh, EnableInterrupts, clock, sleeper
  <2> QED
    BY <1>1, <2>1, <2>2, <2>3, <2>4 DEF Sound, TypeOK
<1>3. Bounded' /\ LowBehind' /\ HighCaughtUp' /\ Tested'
  BY <1>1 DEF Sound, Bounded, LowBehind, HighCaughtUp, Tested, SleepsLongEnough, Sleeping, Reading,
     DisableInterrupts, ReadLow, ReadHigh, EnableInterrupts, clock
<1>4. Shielded'
  BY <1>1 DEF Sound, Shielded, Reading, DisableInterrupts, ReadLow, ReadHigh, EnableInterrupts, Go,
     IflagOff, clock, sleeper
<1> QED
  BY <1>2, <1>3, <1>4 DEF Sound

LEMMA ReturnKeeps == Sound /\ Return => Sound'
  BY ClockAssumption DEF Sound, TypeOK, Bounded, LowBehind, HighCaughtUp, Tested, Shielded, Sleeping,
     Reading, SleepsLongEnough, Return, Go, clock

LEMMA NextSound == Sound /\ [Next]_vars => Sound'
<1>1. Sound /\ UNCHANGED vars => Sound'
  BY DEF vars, Sound, TypeOK, Bounded, LowBehind, HighCaughtUp, Tested, Shielded, Sleeping, Reading,
     SleepsLongEnough, Elapsed, Wraps
<1> QED
  BY <1>1, TickKeeps, CallKeeps, EndKeeps, TestsKeep, ReadersKeep, ReturnKeeps DEF Next

\* Sound is inductive, hence holds in every state that can be reached.
THEOREM SoundAlways == Spec => []Sound
  BY InitSound, NextSound, PTL DEF Spec

-----------------------------------------------------------------------------
(* What holds of every behaviour *)

\* SleepsLongEnough: sleep_millis never returns early, however its five reads
\* fall between ticks and whatever wraps the carry misses (timer.c:43-59).
THEOREM SleepNeverShort == Spec => []SleepsLongEnough
  BY SoundAlways, PTL DEF Sound, Tested

\* ReadersAccurate: with interrupts off the two words are those of one instant,
\* and get_seconds is their quotient, or one less (timer.c:61-108).
THEOREM ReadersAlwaysAccurate == Spec => []ReadersAccurate
<1>1. ASSUME Sound
      PROVE  ReadersAccurate
  <2>1. TypeOK /\ SnapshotConsistent
    BY <1>1 DEF Sound, Shielded, SnapshotConsistent
  <2>2. low \in Nat /\ high \in Nat
    BY <2>1, ClockAssumption DEF TypeOK
  <2>3. SecondsAccurate
    BY <2>1, <2>2, SecondsExact DEF SnapshotConsistent, SecondsAccurate
  <2> QED
    BY <2>1, <2>3 DEF ReadersAccurate
<1> QED
  BY <1>1, SoundAlways, PTL
=============================================================================
