------------------------------- MODULE Memory -------------------------------
(***************************************************************************)
(* The byte copying of core/memory.c: memset and memcpy, by which calloc   *)
(* clears a block and lmemcpy copies.  A memory is a function from         *)
(* addresses to bytes, a region lies below the end of the address space.   *)
(* memset writes both ends byte by byte, overlapping, and what remains     *)
(* between them in words; memcpy copies towards lower addresses forwards   *)
(* and towards higher ones backwards, in words where both regions are      *)
(* aligned alike, so that it may be used on regions that overlap.  The     *)
(* others are built on one string instruction of the processor each.       *)
(***************************************************************************)
EXTENDS Integers

wsize == 4

-----------------------------------------------------------------------------
(* memset *)

\* How many bytes of each end are written singly: the early returns.
EndLength(n) == IF n = 0 THEN 0 ELSE IF n <= 2 THEN 1 ELSE IF n <= 6 THEN 3 ELSE 4

EndBytes(dst, n) == {dst + i : i \in 0..(EndLength(n) - 1)}
                      \cup {dst + n - 1 - i : i \in 0..(EndLength(n) - 1)}

\* -(uintptr_t)s & 3: the bytes before the first aligned word.
Unaligned(a) == (wsize - (a % wsize)) % wsize

WordBytes(dst, n) ==
    LET first == dst + Unaligned(dst)
        words == (n - Unaligned(dst)) \div wsize
    IN  IF n <= 8 THEN {} ELSE first..(first + wsize * words - 1)

memset(mem, dst, value, n) ==
    [a \in DOMAIN mem |-> IF a \in EndBytes(dst, n) \cup WordBytes(dst, n) THEN value % 256 ELSE mem[a]]

-----------------------------------------------------------------------------
(* memcpy *)

\* One turn of a loop: w bytes are read at src, then written at dst.
CopyUnit(mem, dst, src, w) ==
    [a \in DOMAIN mem |-> IF a \in dst..(dst + w - 1) THEN mem[a - dst + src] ELSE mem[a]]

\* t turns, each of them w bytes further up, or further down.
LoopUp(mem, dst, src, w, t) ==
    LET after[i \in 0..t] == IF i = 0 THEN mem
                             ELSE CopyUnit(after[i - 1], dst + w * (i - 1), src + w * (i - 1), w)
    IN  after[t]

LoopDown(mem, dst, src, w, t) ==
    LET after[i \in 0..t] == IF i = 0 THEN mem ELSE CopyUnit(after[i - 1], dst - w * i, src - w * i, w)
    IN  after[t]

BothAligned(dst, src) == dst % wsize = 0 /\ src % wsize = 0

\* The bytes copied singly until both pointers are aligned: all, if they never are.
HeadUp(dst, src, n) ==
    IF BothAligned(dst, src) THEN 0
    ELSE IF dst % wsize # src % wsize \/ n < wsize THEN n ELSE wsize - (src % wsize)

HeadDown(dst, src, n) ==
    IF BothAligned(dst, src) THEN 0
    ELSE IF dst % wsize # src % wsize \/ n <= wsize THEN n ELSE src % wsize

CopyForward(mem, dst, src, n) ==
    LET t == HeadUp(dst, src, n)
        words == (n - t) \div wsize
        to == t + wsize * words
        head == LoopUp(mem, dst, src, 1, t)
        body == LoopUp(head, dst + t, src + t, wsize, words)
    IN  LoopUp(body, dst + to, src + to, 1, (n - t) % wsize)

\* dst and src are the ends of the regions.
CopyBackward(mem, dst, src, n) ==
    LET t == HeadDown(dst, src, n)
        words == (n - t) \div wsize
        to == t + wsize * words
        head == LoopDown(mem, dst, src, 1, t)
        body == LoopDown(head, dst - t, src - t, wsize, words)
    IN  LoopDown(body, dst - to, src - to, 1, (n - t) % wsize)

memcpy(mem, dst, src, n) ==
    IF n = 0 \/ dst = src THEN mem
    ELSE IF dst < src THEN CopyForward(mem, dst, src, n)
    ELSE CopyBackward(mem, dst + n, src + n, n)

-----------------------------------------------------------------------------
(* The others, each one string instruction of the processor or two *)

\* rep movsb, upwards or, with std, downwards from the ends of the regions.
memmove(mem, dst, src, n) ==
    IF dst < src THEN LoopUp(mem, dst, src, 1, n)
    ELSE LoopDown(mem, dst + n, src + n, 1, n)

\* Byte i of a 32-bit pattern, the lowest first.
PatternByte(pattern, i) ==
    (CASE i = 0 -> pattern [] i = 1 -> pattern \div 256
       [] i = 2 -> pattern \div 65536 [] i = 3 -> pattern \div 16777216) % 256

\* rep stosb, stosw or stosl with the pattern in eax: n units of w bytes from dst.
Stos(mem, dst, pattern, w, n) ==
    [a \in DOMAIN mem |-> IF a \in dst..(dst + w * n - 1) THEN PatternByte(pattern, (a - dst) % w)
                          ELSE mem[a]]

memset_generic(mem, dst, c, n) == Stos(mem, dst, c, 1, n)

\* Whole longs, then a word if bit 1 of the count is set and a byte if bit 0 is.
constant_c_memset(mem, dst, pattern, n) ==
    LET words == n \div 4
        half == (n \div 2) % 2
        longs == Stos(mem, dst, pattern, 4, words)
    IN  Stos(Stos(longs, dst + 4 * words, pattern, 2, half), dst + 4 * words + 2 * half, pattern, 1, n % 2)

\* The counts up to four are plain stores, the others the longs and a tail chosen
\* by count % 4.
constant_c_and_count_memset(mem, dst, pattern, n) ==
    LET longs == Stos(mem, dst, pattern, 4, n \div 4)
        tail == dst + 4 * (n \div 4)
    IN  CASE n = 0 -> mem
          [] n = 3 -> Stos(Stos(mem, dst, pattern, 2, 1), dst + 2, pattern, 1, 1)
          [] n \in {1, 2, 4} -> Stos(mem, dst, pattern, n, 1)
          [] n > 4 /\ n % 4 = 0 -> longs
          [] n > 4 /\ n % 4 = 1 -> Stos(longs, tail, pattern, 1, 1)
          [] n > 4 /\ n % 4 = 2 -> Stos(longs, tail, pattern, 2, 1)
          [] n > 4 /\ n % 4 = 3 -> Stos(Stos(longs, tail, pattern, 2, 1), tail + 2, pattern, 1, 1)

\* repne scasb: edi is behind the first byte equal to c, or behind the region.
Equals(mem, at, c, n) == {a \in at..(at + n - 1) : mem[a] = c % 256}
Scas(mem, at, c, n) ==
    IF Equals(mem, at, c, n) = {} THEN at + n
    ELSE 1 + CHOOSE a \in Equals(mem, at, c, n) : \A b \in Equals(mem, at, c, n) : a <= b

\* Without a match edi is set to 1; either way it is then decremented: 0 is NULL.
memchr(mem, at, c, n) ==
    IF n = 0 THEN 0
    ELSE (IF Equals(mem, at, c, n) # {} THEN Scas(mem, at, c, n) ELSE 1) - 1

\* Decremented only after a match.
memscan(mem, at, c, n) ==
    IF n = 0 THEN at
    ELSE IF Equals(mem, at, c, n) # {} THEN Scas(mem, at, c, n) - 1 ELSE Scas(mem, at, c, n)

\* The count is a uint16_t: of a longer one only the remainder is compared.
memcmp(mem, one, two, num) ==
    IF \E i \in 0..((num % 65536) - 1) : mem[one + i] # mem[two + i] THEN 1 ELSE 0

-----------------------------------------------------------------------------
(* What they are for *)

\* The memory with the n bytes at dst all of one value.
Filled(mem, dst, value, n) ==
    [a \in DOMAIN mem |-> IF a \in dst..(dst + n - 1) THEN value % 256 ELSE mem[a]]

\* The memory with the n bytes that were at src now at dst.
Moved(mem, dst, src, n) ==
    [a \in DOMAIN mem |-> IF a \in dst..(dst + n - 1) THEN mem[a - dst + src] ELSE mem[a]]

\* How far a search for c goes: the first byte equal to it, or the end of the region.
Scanned(mem, at, c, n) ==
    CHOOSE a \in at..(at + n) : /\ a = at + n \/ mem[a] = c % 256
                                /\ \A b \in at..(a - 1) : mem[b] # c % 256
=============================================================================
