----------------------------- MODULE Allocator -----------------------------
(***************************************************************************)
(* What core/memory.h promises its callers, without blocks or lists: a     *)
(* request is answered with an address range that lies in the heap and     *)
(* keeps clear of every range already handed out, or with NULL, and NULL   *)
(* is an answer only while the heap really has no room.                    *)
(***************************************************************************)
EXTENDS Integers

CONSTANTS
  MemorySize,   \* bytes of heap
  Overhead,     \* bytes kept clear in front of every range (a header)
  Slack,        \* most bytes that may be lost behind a range
  Requests,     \* the sizes callers ask for
  NULL

VARIABLES
  live,         \* live[p]: size of the range handed out at address p
  result        \* what the last request returned

vars == <<live, result>>

\* The stretch [p, p + size) with its header lies in the heap.
InHeap(p, size) == Overhead <= p /\ p + size <= MemorySize

\* The stretch [p - Overhead, p + size) meets nothing of the range at q.
ClearOf(p, size, q, spare) ==
  \/ p + size <= q - Overhead
  \/ q + live[q] + spare <= p - Overhead

Init ==
  /\ live = [p \in {} |-> 0]
  /\ result = NULL

Allocate(size) ==
  \E p \in 0..MemorySize :
    /\ InHeap(p, size)
    /\ \A q \in DOMAIN live : ClearOf(p, size, q, 0)
    /\ live' = [q \in DOMAIN live \cup {p} |-> IF q = p THEN size ELSE live[q]]
    /\ result' = p

\* A refusal is honest: every stretch that could hold the request meets a
\* live range, or bytes that may be lost behind one.
Refuse(size) ==
  /\ \A p \in 0..MemorySize :
       InHeap(p, size) => \E q \in DOMAIN live : ~ClearOf(p, size, q, Slack)
  /\ result' = NULL
  /\ UNCHANGED live

Release(p) ==
  /\ p \in DOMAIN live
  /\ live' = [q \in DOMAIN live \ {p} |-> live[q]]
  /\ UNCHANGED result

Next ==
  \/ \E size \in Requests : Allocate(size) \/ Refuse(size)
  \/ \E p \in DOMAIN live : Release(p)

Spec == Init /\ [][Next]_vars
=============================================================================
