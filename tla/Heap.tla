-------------------------------- MODULE Heap --------------------------------
(***************************************************************************)
(* The kernel heap of core/memory.c: a singly linked list of blocks laid   *)
(* end to end over a static array, first-fit malloc that splits, and free  *)
(* that merges with the free neighbours.  An address is an offset in the   *)
(* array heap[]; block[a] is the MemoryBlock header at offset a, and its   *)
(* domain the headers the list reaches.  The bytes of payloads are left    *)
(* out; owned records which of them belong to callers.                     *)
(*                                                                         *)
(* Callers are taken to free only what malloc gave them, once.             *)
(***************************************************************************)
EXTENDS Integers

CONSTANTS
  MemorySize,   \* MEMORY_SIZE
  HeaderSize,   \* sizeof(MemoryBlock)
  BlockSize,    \* BLOCK_SIZE: a remainder of at most this much is not split off
  WordRange,    \* size_t arithmetic is modulo WordRange
  Requests,     \* sizes passed to malloc
  Items,        \* (count, size) pairs passed to calloc
  NULL

ASSUME HeapAssumption ==
  /\ HeaderSize \in Nat \ {0}
  /\ MemorySize \in Nat /\ HeaderSize <= MemorySize
  /\ BlockSize \in Nat
  /\ WordRange \in Nat \ {0}
  /\ Requests \subseteq Nat
  /\ Items \subseteq Nat \X Nat
  /\ NULL \notin Int

VARIABLES
  head,      \* NULL until init_memory, then the first header
  block,     \* header address -> [Size, IsFree, Next]
  pc,        \* where free() is: "idle", "merge" or "absorb"
  current,   \* merge_surrounding_free_blocks' current
  owned,     \* payload address -> bytes its caller asked for
  result     \* what the last malloc returned

vars == <<head, block, pc, current, owned, result>>

Address == 0 .. (MemorySize - 1)

Header(size, free, next) == [Size |-> size, IsFree |-> free, Next |-> next]

\* init_memory: one free block over the whole array.
WholeHeap == [a \in {0} |-> Header(MemorySize - HeaderSize, TRUE, NULL)]

Init ==
  /\ head = NULL
  /\ block = [a \in {} |-> Header(0, TRUE, NULL)]
  /\ pc = "idle"
  /\ current = NULL
  /\ owned = [p \in {} |-> 0]
  /\ result = NULL

\* kernel.c calls it once, before anything allocates.
InitMemory ==
  /\ head = NULL
  /\ head' = 0
  /\ block' = WholeHeap
  /\ UNCHANGED <<pc, current, owned, result>>

-----------------------------------------------------------------------------
(* malloc and calloc *)

\* The list malloc walks; it builds the heap first if nobody has.
Initialised == IF head = NULL THEN WholeHeap ELSE block

\* Fault: the IsFree test is forgotten.
FittingAnyBlock(b, size) == {a \in DOMAIN b : b[a].Size >= size}

Fitting(b, size) == {a \in DOMAIN b : b[a].IsFree /\ b[a].Size >= size}

\* The walk stops at the first fitting block.  Next always leads to a higher
\* address (BlocksTile), so the first on the list is the lowest.
FirstFit(b, size) ==
  {a \in Fitting(b, size) : \A c \in Fitting(b, size) : a <= c}

Split(b, a, size, remainder) ==
  LET rest == a + HeaderSize + size
  IN  [c \in DOMAIN b \cup {rest} |->
         IF c = a THEN Header(size, FALSE, rest)
         ELSE IF c = rest THEN Header(remainder, TRUE, b[a].Next)
         ELSE b[c]]

\* Fault: a split that does not pay for the new header.
TakeForgetsHeader(b, a, size) ==
  IF b[a].Size > size + HeaderSize + BlockSize
  THEN Split(b, a, size, b[a].Size - size)
  ELSE [b EXCEPT ![a].IsFree = FALSE]

\* Hand out block a, cutting off what is left behind `size` bytes of payload
\* when that is worth a block.
Take(b, a, size) ==
  IF b[a].Size > size + HeaderSize + BlockSize
  THEN Split(b, a, size, b[a].Size - size - HeaderSize)
  ELSE [b EXCEPT ![a].IsFree = FALSE]

MallocFinds(size, a) ==
  /\ a \in FirstFit(Initialised, size)
  /\ block' = Take(Initialised, a, size)
  /\ result' = a + HeaderSize
  /\ owned' = [p \in DOMAIN owned \cup {a + HeaderSize} |->
                 IF p = a + HeaderSize THEN size ELSE owned[p]]

MallocFails(size) ==
  /\ Fitting(Initialised, size) = {}
  /\ block' = Initialised
  /\ result' = NULL
  /\ UNCHANGED owned

Malloc(size) ==
  /\ pc = "idle"
  /\ head' = 0
  /\ \/ \E a \in DOMAIN Initialised : MallocFinds(size, a)
     \/ MallocFails(size)
  /\ UNCHANGED <<pc, current>>

\* The product wraps like size_t; the zeroed bytes are payload.
Calloc(num, size) == Malloc((num * size) % WordRange)

-----------------------------------------------------------------------------
(* free: mark the block, then merge_surrounding_free_blocks *)

Free(p) ==
  /\ pc = "idle"
  /\ p \in DOMAIN owned
  /\ block' = [block EXCEPT ![p - HeaderSize].IsFree = TRUE]
  /\ owned' = [q \in DOMAIN owned \ {p} |-> owned[q]]
  /\ pc' = "merge"
  /\ current' = p - HeaderSize
  /\ UNCHANGED <<head, result>>

\* Fault: the swallowed header is not counted.
SwallowForgetsHeader(a, c) ==
  [x \in DOMAIN block \ {c} |->
     IF x = a
     THEN Header(block[a].Size + block[c].Size, block[a].IsFree, block[c].Next)
     ELSE block[x]]

\* Block a grows over its successor c, whose header disappears.
Swallow(a, c) ==
  [x \in DOMAIN block \ {c} |->
     IF x = a
     THEN Header(block[a].Size + HeaderSize + block[c].Size,
                 block[a].IsFree, block[c].Next)
     ELSE block[x]]

FreeBefore(a) == {c \in DOMAIN block : block[c].Next = a /\ block[c].IsFree}

MergePrevious ==
  /\ pc = "merge"
  /\ pc' = "absorb"
  /\ \/ \E previous \in FreeBefore(current) :
          /\ block' = Swallow(previous, current)
          /\ current' = previous
     \/ /\ FreeBefore(current) = {}
        /\ UNCHANGED <<block, current>>
  /\ UNCHANGED <<head, owned, result>>

FreeBehind(a) == block[a].Next # NULL /\ block[block[a].Next].IsFree

\* One turn of the loop over the blocks behind current.
AbsorbNext ==
  /\ pc = "absorb"
  /\ FreeBehind(current)
  /\ block' = Swallow(current, block[current].Next)
  /\ UNCHANGED <<head, pc, current, owned, result>>

FreeReturns ==
  /\ pc = "absorb"
  /\ ~FreeBehind(current)
  /\ pc' = "idle"
  /\ current' = NULL
  /\ UNCHANGED <<head, block, owned, result>>

Next ==
  \/ InitMemory
  \/ \E size \in Requests : Malloc(size)
  \/ \E item \in Items : Calloc(item[1], item[2])
  \/ \E p \in DOMAIN owned : Free(p)
  \/ MergePrevious
  \/ AbsorbNext
  \/ FreeReturns

Spec == Init /\ [][Next]_vars

-----------------------------------------------------------------------------
(* Invariants *)

Blocks == DOMAIN block
BlockHeader == [Size : Nat, IsFree : BOOLEAN, Next : Address \cup {NULL}]
End(b, a) == a + HeaderSize + b[a].Size

\* Headers lie apart, each block ends where Next leads, or at the end of the
\* array, and every byte of the array belongs to a block.  This is what makes
\* the list's order the order of addresses.
Tiles(b) ==
  /\ \A a \in DOMAIN b :
       \/ End(b, a) \in DOMAIN b /\ b[a].Next = End(b, a)
       \/ End(b, a) = MemorySize /\ b[a].Next = NULL
  /\ \A a, c \in DOMAIN b : a < c => End(b, a) <= c
  /\ \A x \in Address : \E a \in DOMAIN b : a <= x /\ x < End(b, a)

TypeOK ==
  /\ head \in {NULL, 0}
  /\ Blocks \subseteq Address
  /\ block \in [Blocks -> BlockHeader]
  /\ pc \in {"idle", "merge", "absorb"}
  /\ current \in Address \cup {NULL}
  /\ DOMAIN owned \subseteq Nat
  /\ owned \in [DOMAIN owned -> Nat]
  /\ result \in Nat \cup {NULL}

\* From init_memory on the list tiles the array, whatever was split and merged
\* (memory.c:23-49, 327-338, 386-391).
BlocksTile == IF head = NULL THEN Blocks = {} ELSE Tiles(block)

\* free leaves no two neighbouring free blocks; while it runs, only around
\* the block it is merging (memory.c:37-48).
Coalesced ==
  \A a \in Blocks :
    block[a].IsFree /\ FreeBehind(a) =>
      /\ pc # "idle"
      /\ a = current \/ (pc = "merge" /\ block[a].Next = current)

\* What a caller holds is the payload of a block in use, long enough for what
\* it asked, and no more than a header and BLOCK_SIZE longer (memory.c:327-338).
OwnedBacked ==
  \A p \in DOMAIN owned :
    LET a == p - HeaderSize
    IN  /\ a \in Blocks
        /\ ~block[a].IsFree
        /\ owned[p] <= block[a].Size
        /\ block[a].Size <= owned[p] + HeaderSize + BlockSize

\* A block in use has an owner: splitting and merging never strand one.
NothingLeaks ==
  \A a \in Blocks : ~block[a].IsFree => a + HeaderSize \in DOMAIN owned

\* Callers writing all of what they own touch no other owner's bytes and no
\* header of the list.
OwnersApart ==
  \A p \in DOMAIN owned :
    /\ p + owned[p] <= MemorySize
    /\ \A a \in Blocks : a + HeaderSize <= p \/ p + owned[p] <= a
    /\ \A q \in DOMAIN owned : p < q => p + owned[p] <= q - HeaderSize

\* When everything has been freed the heap is one block again (memory.c:386-391):
\* no sequence of calls wears it out.
FreedHeapIsWhole ==
  head = 0 /\ pc = "idle" /\ owned = [p \in {} |-> 0] => block = WholeHeap

-----------------------------------------------------------------------------
(* The heap implements the allocator its callers see. *)

Abstract ==
  INSTANCE Allocator
  WITH Overhead <- HeaderSize, Slack <- HeaderSize + BlockSize, live <- owned,
       Requests <- Requests \cup {(item[1] * item[2]) % WordRange : item \in Items}

\* Every malloc, calloc and free is a step of the allocator, and the steps of
\* the merge are invisible; in particular NULL is returned only when no stretch
\* of the heap could have held the request (memory.c:317-345).
ImplementsAllocator == Abstract!Spec
=============================================================================
