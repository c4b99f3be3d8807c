------------------------------- MODULE MCHeap -------------------------------
(* A heap of 14 bytes with 2-byte headers: room for six blocks at most. *)
EXTENDS Heap, Memory

MCRequests == {0, 1, 3, 5, 12}
MCItems == {<<2, 3>>, <<3, 1>>}

\* Every byte is known by its address; every alignment of the two regions, every
\* overlap and every length up to three words and a bit.
Bytes == [a \in 0..27 |-> a]

ASSUME MemsetClears ==
    \A dst, n \in 0..14 : memset(Bytes, dst, 256, n) = Filled(Bytes, dst, 256, n)

ASSUME MemcpyMoves ==
    \A dst, src, n \in 0..14 : memcpy(Bytes, dst, src, n) = Moved(Bytes, dst, src, n)
ASSUME MemmoveMoves ==
    \A dst, src, n \in 0..14 : memmove(Bytes, dst, src, n) = Moved(Bytes, dst, src, n)

\* A pattern of four equal bytes, and two that are not.
ASSUME PatternsFill ==
    \A dst, n \in 0..14 :
        /\ memset_generic(Bytes, dst, 7, n) = Filled(Bytes, dst, 7, n)
        /\ constant_c_memset(Bytes, dst, 117901063, n) = Filled(Bytes, dst, 7, n)
        /\ \A pattern \in {117901063, 67305985, 258} :
              constant_c_and_count_memset(Bytes, dst, pattern, n) = constant_c_memset(Bytes, dst, pattern, n)

\* Bytes of two values: a match anywhere in the region, or nowhere.
ASSUME ScansFind ==
    \A at, n, c \in 0..5 :
        LET mem == [a \in 0..10 |-> a % 4]
        IN  /\ memscan(mem, at, c, n) = Scanned(mem, at, c, n)
            /\ memchr(mem, at, c, n) =
                  IF Scanned(mem, at, c, n) = at + n THEN 0 ELSE Scanned(mem, at, c, n)
            /\ memcmp(mem, at, c, n) = 0 <=> Moved(mem, at, c, n) = mem
=============================================================================
