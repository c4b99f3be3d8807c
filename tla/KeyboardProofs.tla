--------------------------- MODULE KeyboardProofs ---------------------------
(***************************************************************************)
(* The buffer of the command line is safe however keys fall, and the line  *)
(* Enter ended is the line that runs unless a key falls into one of the    *)
(* windows of read_line, for every buffer size and every alphabet.         *)
(***************************************************************************)
EXTENDS Keyboard, SequenceTheorems, TLAPS

\* The keys on the screen are those in the buffer, or fewer.
LineFits == Len(line) <= buffer_index

Holds(text) ==
  /\ buffer_index = Len(text)
  /\ \A i \in 1..Len(text) : input_buffer[i-1] = text[i]

\* An Enter is noticed by main only after the reset that follows the last line.
Asked ==
  /\ Waiting /\ line_ready => entered
  /\ pc \in {"copy", "execute"} => entered

\* What main waits for is the line being typed, then the line submitted.
LineKept ==
  /\ pc = "reset_ready" \/ (Waiting /\ ~line_ready) => Holds(line)
  /\ (Waiting /\ line_ready) \/ pc = "copy" =>
       /\ line_ready
       /\ Holds(submitted)
       /\ input_buffer[buffer_index] = NUL
  /\ pc = "copy" =>
       /\ Len(copied) <= Len(submitted)
       /\ \A i \in 1..Len(copied) : copied[i] = submitted[i]

QuietLineKept == ~spoilt => LineKept

Safe == TypeOK /\ LineFits /\ Terminated /\ Asked
-----------------------------------------------------------------------------

\* Erasing the last key leaves a text, and so does adding one while there is room.
LEMMA TextEdited ==
  ASSUME NEW s \in Text
  PROVE  /\ s # <<>> => SubSeq(s, 1, Len(s) - 1) \in Text
         /\ s # <<>> => Len(SubSeq(s, 1, Len(s) - 1)) = Len(s) - 1
         /\ \A c \in Chars : Len(s) < MaxInput - 1 => Append(s, c) \in Text
<1>1. s \in Seq(Chars) /\ Len(s) \in Nat /\ Len(s) < MaxInput /\ MaxInput \in Nat
  BY KeyboardAssumption DEF Text
<1>2. ASSUME s # <<>>
      PROVE  SubSeq(s, 1, Len(s) - 1) \in Text /\ Len(SubSeq(s, 1, Len(s) - 1)) = Len(s) - 1
  <2>1. Len(s) >= 1
    BY <1>1, <1>2, EmptySeq
  <2>2. \A i \in 1..(Len(s) - 1) : s[i] \in Chars
    BY <1>1
  <2>3. SubSeq(s, 1, Len(s) - 1) \in Seq(Chars) /\ Len(SubSeq(s, 1, Len(s) - 1)) = Len(s) - 1
    <3>1. 1 \in Int /\ Len(s) - 1 \in Int
      BY <1>1
    <3>2. SubSeq(s, 1, Len(s) - 1) \in Seq(Chars)
      BY <3>1, <2>2, SubSeqProperties
    <3> DEFINE k == IF 1 <= Len(s) - 1 THEN Len(s) - 1 - 1 + 1 ELSE 0
    <3>3. Len(SubSeq(s, 1, Len(s) - 1)) = k
      BY <3>1, <2>2, SubSeqProperties
    <3>4. \A n \in Nat : n >= 1 => (IF 1 <= n - 1 THEN n - 1 - 1 + 1 ELSE 0) = n - 1
      OBVIOUS
    <3>5. k = Len(s) - 1
      BY <1>1, <2>1, <3>4, Zenon
    <3> HIDE DEF k
    <3> QED
      BY <3>2, <3>3, <3>5
  <2> QED
    BY <1>1, <2>1, <2>3 DEF Text
<1>3. ASSUME NEW c \in Chars, Len(s) < MaxInput - 1
      PROVE  Append(s, c) \in Text
  <2>1. Append(s, c) \in Seq(Chars) /\ Len(Append(s, c)) = Len(s) + 1
    BY <1>1, AppendProperties
  <2> QED
    BY <1>1, <1>3, <2>1 DEF Text
<1> QED
  BY <1>2, <1>3

LEMMA InitSafe == Init => Safe
<1> SUFFICES ASSUME Init PROVE Safe
  OBVIOUS
<1>1. <<>> \in Text
  BY KeyboardAssumption DEF Text
<1>2. TypeOK
  BY <1>1, KeyboardAssumption DEF Init, TypeOK
<1>3. LineFits /\ Terminated /\ Asked
  BY KeyboardAssumption DEF Init, LineFits, Terminated, Asked, Waiting
<1> QED
  BY <1>2, <1>3 DEF Safe

\* However the keys fall, every step keeps the buffer well formed.
LEMMA NextSafe == Safe /\ [Next]_vars => Safe'
<1> SUFFICES ASSUME Safe, [Next]_vars PROVE Safe'
  OBVIOUS
<1> USE KeyboardAssumption DEF Safe, LineFits, Asked, Waiting, Press
<1>1. CASE EnterKey
  <2>1. <<>> \in Text
    BY DEF Text
  <2>2. /\ input_buffer' \in [0..MaxInput-1 -> Chars \cup {NUL}]
        /\ input_buffer'[MaxInput-1] = NUL
    BY <1>1 DEF EnterKey, Ended, TypeOK, Terminated
  <2>3. line_ready' \in BOOLEAN /\ (entered' <=> entered \/ Waiting)
    BY <1>1 DEF EnterKey, ReadyAfterEnter
  <2>4. entered' \in BOOLEAN
    BY <1>1 DEF EnterKey, TypeOK
  <2>5. TypeOK' /\ Len(line') <= buffer_index'
    BY <1>1, <2>1, <2>2, <2>3, <2>4 DEF EnterKey, TypeOK, Text
  <2>6. Asked'
    BY <1>1, <2>3 DEF EnterKey
  <2> QED
    BY <1>1, <2>2, <2>5, <2>6 DEF EnterKey, Terminated
<1>2. CASE BackspaceKey
  <2>1. line' \in Text /\ Len(line') <= buffer_index'
    BY <1>2, TextEdited DEF BackspaceKey, TypeOK, Text
  <2> QED
    BY <1>2, <2>1 DEF BackspaceKey, TypeOK, Terminated
<1>3. ASSUME NEW c \in Chars, CharKey(c)
      PROVE  Safe'
  <2>1. line' \in Text /\ Len(line') <= buffer_index'
    BY <1>3, TextEdited DEF CharKey, Room, TypeOK, Text
  <2> QED
    BY <1>3, <2>1 DEF CharKey, Room, TypeOK, Terminated
<1>4. CASE \E c \in Chars \cup {"enter", "backspace"} : ForwardKey(c)
  BY <1>4 DEF ForwardKey, shared, history, TypeOK, Terminated
<1>5. CASE ResetIndex
  BY <1>5 DEF ResetIndex, Go, TypeOK, Terminated, Text
<1>6. CASE ResetReady
  BY <1>6 DEF ResetReady, ReadyAfterReset, Go, history, TypeOK, Terminated
<1>7. CASE TestReady
  BY <1>7 DEF TestReady, shared, history, TypeOK, Terminated, Text
<1>8. CASE Wake
  BY <1>8 DEF Wake, Go, shared, history, TypeOK, Terminated
<1>9. CASE CopyChar
  <2>1. Len(copied) < MaxInput - 1 /\ input_buffer[Len(copied)] \in Chars
    BY <1>9 DEF CopyChar, CopyEnds, TypeOK, Text
  <2>2. copied' \in Text
    BY <1>9, <2>1, TextEdited DEF CopyChar, TypeOK
  <2> QED
    BY <1>9, <2>2 DEF CopyChar, shared, history, TypeOK, Terminated
<1>10. CASE CopyDone
  BY <1>10 DEF CopyDone, Go, shared, history, TypeOK, Terminated
<1>11. CASE Execute
  BY <1>11 DEF Execute, TypeOK, Terminated
<1>12. CASE UNCHANGED vars
  BY <1>12 DEF vars, TypeOK, Terminated
<1> QED
  BY <1>1, <1>2, <1>3, <1>4, <1>5, <1>6, <1>7, <1>8, <1>9, <1>10, <1>11, <1>12
     DEF Next, Main, Keys

\* Safe is inductive, hence holds in every state that can be reached.
THEOREM SafeAlways == Spec => []Safe
  BY InitSafe, NextSafe, PTL DEF Spec

\* TypeOK: the buffer, its index and the lines stay in their bounds.
THEOREM TypeCorrect == Spec => []TypeOK
<1>1. Safe => TypeOK
  BY DEF Safe
<1> QED
  BY <1>1, SafeAlways, PTL

\* Terminated: no reader of input_buffer ever runs past its end (keyboard.c:38-85).
THEOREM AlwaysTerminated == Spec => []Terminated
<1>1. Safe => Terminated
  BY DEF Safe
<1> QED
  BY <1>1, SafeAlways, PTL

\* NothingUnasked: a command runs only after an Enter (keyboard.c:97-110).
THEOREM OnlyEnterExecutes == Spec => []NothingUnasked
<1>1. Safe => NothingUnasked
  BY DEF Safe, Asked, NothingUnasked
<1> QED
  BY <1>1, SafeAlways, PTL
-----------------------------------------------------------------------------
(* Without keys in the two windows what runs is what was ended. *)

LEMMA InitKept == Init => QuietLineKept
  BY KeyboardAssumption DEF Init, QuietLineKept, LineKept, Waiting, Holds

\* A typed character, a backspace or an Enter keeps buffer and screen together.
LEMMA KeysKeep ==
  ASSUME Safe, ~spoilt, LineKept, ~spoilt', Keys
  PROVE  LineKept'
<1> USE KeyboardAssumption DEF Waiting, Press, Spoils
<1>1. CASE EnterKey
  <2>1. g_text_mode /\ ~(line_ready /\ (Waiting \/ pc = "copy")) /\ pc # "reset_ready"
    BY <1>1 DEF EnterKey
  <2>2. pc # "copy"
    BY <2>1 DEF LineKept
  <2>3. CASE Waiting
    <3>1. Holds(line)
      BY <2>1, <2>3 DEF LineKept
    <3>2. Holds(submitted)' /\ input_buffer'[buffer_index'] = NUL
      <4>1. /\ input_buffer' = [input_buffer EXCEPT ![buffer_index] = NUL]
            /\ submitted' = line /\ buffer_index' = buffer_index
        BY <1>1 DEF EnterKey, Ended
      <4>2. /\ input_buffer \in [0..MaxInput-1 -> Chars \cup {NUL}]
            /\ buffer_index \in 0..MaxInput-1
        BY DEF Safe, TypeOK
      <4> QED
        BY <3>1, <4>1, <4>2 DEF Holds
    <3> QED
      BY <1>1, <2>1, <2>2, <3>2 DEF EnterKey, ReadyAfterEnter, LineKept
  <2>4. CASE ~Waiting
    BY <1>1, <2>1, <2>2, <2>4 DEF EnterKey, LineKept
  <2> QED
    BY <2>3, <2>4
<1>2. CASE BackspaceKey
  <2>1. g_text_mode /\ ~(line_ready /\ (Waiting \/ pc = "copy"))
    BY <1>2 DEF BackspaceKey
  <2>2. pc # "copy"
    BY <2>1 DEF LineKept
  <2>3. ASSUME Holds(line)
        PROVE  Holds(line)'
    <3>1. line \in Text /\ line # <<>> /\ Len(line) = buffer_index
      BY <1>2, <2>3 DEF BackspaceKey, Holds, Safe, TypeOK
    <3>2. line' = SubSeq(line, 1, Len(line) - 1) /\ Len(line') = Len(line) - 1
      BY <1>2, <3>1, TextEdited DEF BackspaceKey
    <3>3. \A i \in 1..Len(line') : line'[i] = line[i]
      BY <3>1, <3>2 DEF Text
    <3> QED
      BY <1>2, <2>3, <3>1, <3>2, <3>3 DEF BackspaceKey, Holds, Safe, TypeOK
  <2> QED
    BY <1>2, <2>1, <2>2, <2>3 DEF BackspaceKey, LineKept
<1>3. ASSUME NEW c \in Chars, CharKey(c)
      PROVE  LineKept'
  <2>1. g_text_mode /\ ~(line_ready /\ (Waiting \/ pc = "copy"))
    BY <1>3 DEF CharKey
  <2>2. pc # "copy"
    BY <2>1 DEF LineKept
  <2>3. ASSUME Holds(line)
        PROVE  Holds(line)'
    <3>1. line \in Seq(Chars) /\ Len(line) = buffer_index
      BY <2>3 DEF Holds, Safe, TypeOK, Text
    <3>2. /\ Len(line') = Len(line) + 1
          /\ \A i \in 1..Len(line) : line'[i] = line[i]
          /\ line'[Len(line) + 1] = c
      BY <1>3, <3>1, AppendProperties DEF CharKey
    <3> QED
      BY <1>3, <2>3, <3>1, <3>2 DEF CharKey, Room, Holds, Safe, TypeOK
  <2> QED
    BY <1>3, <2>1, <2>2, <2>3 DEF CharKey, LineKept
<1>4. ASSUME NEW c \in Chars \cup {"enter", "backspace"}, ForwardKey(c)
      PROVE  LineKept'
  BY <1>4 DEF ForwardKey, shared, history, LineKept, Holds
<1> QED
  BY <1>1, <1>2, <1>3, <1>4 DEF Keys

\* Copying a line that is kept reproduces it.
LEMMA CopyKeeps ==
  ASSUME Safe, LineKept, pc = "copy"
  PROVE  /\ CopyEnds => copied = submitted
         /\ ~CopyEnds => /\ Len(copied) < Len(submitted)
                         /\ input_buffer[Len(copied)] = submitted[Len(copied) + 1]
<1> USE KeyboardAssumption
<1>1. /\ copied \in Text /\ submitted \in Text
      /\ Len(copied) \in Nat /\ Len(submitted) \in Nat /\ Len(submitted) < MaxInput
      /\ Len(copied) <= Len(submitted)
      /\ \A i \in 1..Len(copied) : copied[i] = submitted[i]
      /\ Holds(submitted) /\ input_buffer[Len(submitted)] = NUL
  BY DEF Safe, TypeOK, Text, LineKept, Holds
<1>2. ASSUME Len(copied) < Len(submitted)
      PROVE  /\ input_buffer[Len(copied)] = submitted[Len(copied) + 1]
             /\ submitted[Len(copied) + 1] # NUL
  <2>1. Len(copied) + 1 \in 1..Len(submitted) /\ (Len(copied) + 1) - 1 = Len(copied)
    BY <1>1, <1>2
  <2>2. submitted[Len(copied) + 1] \in Chars
    BY <1>1, <2>1 DEF Text
  <2> QED
    BY <1>1, <2>1, <2>2 DEF Holds
<1>3. CopyEnds <=> Len(copied) = Len(submitted)
  BY <1>1, <1>2 DEF CopyEnds
<1>4. Len(copied) = Len(submitted) => copied = submitted
  BY <1>1, SeqEqual DEF Text
<1> QED
  BY <1>1, <1>2, <1>3, <1>4

LEMMA MainKeeps ==
  ASSUME Safe, LineKept, Main
  PROVE  LineKept'
<1> USE KeyboardAssumption DEF Waiting, Go
<1>1. CASE ResetIndex
  BY <1>1 DEF ResetIndex, LineKept, Holds
<1>2. CASE ResetReady
  BY <1>2 DEF ResetReady, ReadyAfterReset, history, LineKept, Holds
<1>3. CASE TestReady
  BY <1>3 DEF TestReady, shared, history, LineKept, Holds, Safe, TypeOK, Text
<1>4. CASE Wake
  BY <1>4 DEF Wake, shared, history, LineKept, Holds
<1>5. CASE CopyChar
  <2>1. /\ Len(copied) < Len(submitted)
        /\ input_buffer[Len(copied)] = submitted[Len(copied) + 1]
    BY <1>5, CopyKeeps DEF CopyChar
  <2>2. copied \in Seq(Chars) /\ submitted \in Seq(Chars)
        /\ input_buffer[Len(copied)] \in Chars
    BY <2>1 DEF Safe, TypeOK, Text
  <2>3. /\ Len(copied') = Len(copied) + 1
        /\ \A i \in 1..Len(copied) : copied'[i] = copied[i]
        /\ copied'[Len(copied) + 1] = submitted[Len(copied) + 1]
    BY <1>5, <2>1, <2>2, AppendProperties DEF CopyChar
  <2>4. /\ Len(copied') <= Len(submitted)
        /\ \A i \in 1..Len(copied') : copied'[i] = submitted[i]
    BY <1>5, <2>1, <2>2, <2>3 DEF CopyChar, LineKept
  <2> QED
    BY <1>5, <2>4 DEF CopyChar, shared, history, LineKept, Holds
<1>6. CASE CopyDone
  BY <1>6 DEF CopyDone, shared, history, LineKept, Holds
<1>7. CASE Execute
  BY <1>7 DEF Execute, LineKept, Holds
<1> QED
  BY <1>1, <1>2, <1>3, <1>4, <1>5, <1>6, <1>7 DEF Main

LEMMA NextKept == Safe /\ QuietLineKept /\ [Next]_vars => QuietLineKept'
<1> SUFFICES ASSUME Safe, QuietLineKept, [Next]_vars, ~spoilt' PROVE LineKept'
  BY DEF QuietLineKept
<1>1. CASE UNCHANGED vars
  BY <1>1 DEF vars, QuietLineKept, LineKept, Holds, Waiting
<1>2. CASE ResetIndex
  BY <1>2 DEF ResetIndex, Go, LineKept, Holds, Waiting
<1>3. CASE Keys
  <2>1. ~spoilt
    BY <1>3 DEF Keys, EnterKey, BackspaceKey, CharKey, ForwardKey, Press, history
  <2> QED
    BY <1>3, <2>1, KeysKeep DEF QuietLineKept
<1>4. CASE Main /\ ~ResetIndex
  <2>1. ~spoilt
    BY <1>4 DEF Main, ResetReady, TestReady, Wake, CopyChar, CopyDone, Execute, history
  <2> QED
    BY <1>4, <2>1, MainKeeps DEF QuietLineKept
<1> QED
  BY <1>1, <1>2, <1>3, <1>4 DEF Next

\* QuietLineDelivered: unless a key falls into the windows read_line leaves, the
\* command that runs is the line Enter ended (keyboard.c:104-110,
\* cmd_executor.c:78-81).
THEOREM QuietLineIsDelivered == Spec => QuietLineDelivered
<1>1. QuietLineKept /\ Safe /\ [Next]_vars
        => [pc = "copy" /\ pc' = "execute" => copied = submitted \/ spoilt]_vars
  <2> SUFFICES ASSUME QuietLineKept, Safe, Next, pc = "copy", pc' = "execute", ~spoilt
               PROVE  copied = submitted
    OBVIOUS
  <2>1. CopyDone
    BY DEF Next, Keys, Main, EnterKey, BackspaceKey, CharKey, ForwardKey, ResetIndex,
           ResetReady, TestReady, Wake, CopyChar, Execute, Go
  <2> QED
    BY <2>1, CopyKeeps DEF CopyDone, QuietLineKept
<1> QED
  BY <1>1, NextKept, InitKept, SafeAlways, PTL DEF Spec, QuietLineDelivered
=============================================================================
